SPECIFICATION TransportFairSpec
CONSTANTS
    TpRequests = {p1, p2, p3}
    NoOne = NoOne
PROPERTY ConnectionOrError
CHECK_DEADLOCK FALSE
