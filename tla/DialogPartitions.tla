--------------------------- MODULE DialogPartitions ---------------------------
(***************************************************************************)
(* The monthly partitions of dialog_logs.  main creates those around today  *)
(* when the process starts and again every twelve hours; a row of a month   *)
(* without a partition cannot be inserted.  Time moves in half days, in a   *)
(* year without a leap day.  time.AddDate normalises: the 31st of January   *)
(* and one month is the 3rd of March.                                       *)
(***************************************************************************)
EXTENDS Integers

CONSTANT DpHorizon   \* bound on the half days a behaviour lasts

ASSUME DialogPartitionsAssumption == DpHorizon \in Nat

VARIABLES
    dpDate,     \* [month, day, half]: the date and the half of the day
    dpParts,    \* the months that have a partition
    dpChecked,  \* the check of this half day has run
    dpFailed,   \* a check has failed, which main ignores
    dpAge       \* half days since the start

dpVars == <<dpDate, dpParts, dpChecked, dpFailed, dpAge>>

\* Months are numbered from a January, through the years.
DaysIn(m) == LET n == m % 12
             IN  IF n = 1 THEN 28 ELSE IF n \in {3, 5, 8, 10} THEN 30 ELSE 31

\* The month time.AddDate(0, n, 0) arrives in, from day d of month m.
AddDate(m, d, n) == IF d > DaysIn(m + n) THEN m + n + 1 ELSE m + n

\* Mutant: the month of today is left out.
AroundNotToday(m, d) == {AddDate(m, d, n) : n \in {-1, 1, 2}}

\* The months of the partitions that are created around day d of month m.
EnsureDialogPartitionsAround(m, d) == {AddDate(m, d, n) : n \in -1..2}

\* The process starts on any date and does not collect unless the partitions around it
\* could be created.
DialogPartitionsInit ==
    /\ dpDate \in {t \in [month : 12..23, day : 1..31, half : 0..1] : t.day <= DaysIn(t.month)}
    /\ dpParts = EnsureDialogPartitionsAround(dpDate.month, dpDate.day)
    /\ dpChecked = TRUE
    /\ dpFailed = FALSE
    /\ dpAge = 0

nextHalfDay(t) ==
    CASE t.half = 0 -> [t EXCEPT !.half = 1]
      [] t.half = 1 /\ t.day < DaysIn(t.month) -> [t EXCEPT !.half = 0, !.day = @ + 1]
      [] OTHER -> [month |-> t.month + 1, day |-> 1, half |-> 0]

HalfDayPasses ==
    /\ dpChecked
    /\ dpAge < DpHorizon
    /\ dpAge' = dpAge + 1
    /\ dpDate' = nextHalfDay(dpDate)
    /\ dpChecked' = FALSE
    /\ UNCHANGED <<dpParts, dpFailed>>

\* The ticker of main, somewhere in every half day.
CheckPartitions ==
    /\ ~dpChecked
    /\ dpChecked' = TRUE
    /\ \/ /\ dpParts' = dpParts \cup EnsureDialogPartitionsAround(dpDate.month, dpDate.day)
          /\ UNCHANGED dpFailed
       \/ dpFailed' = TRUE /\ UNCHANGED dpParts
    /\ UNCHANGED <<dpDate, dpAge>>

DialogPartitionsNext == HalfDayPasses \/ CheckPartitions

DialogPartitionsSpec == DialogPartitionsInit /\ [][DialogPartitionsNext]_dpVars

-----------------------------------------------------------------------------

\* A row finds its partition at every moment but, at worst, in the first half day of a
\* month, before the check that falls into it, as long as no check fails.
PartitionInTime ==
    dpDate.month \in dpParts \/ dpFailed \/ (dpDate.day = 1 /\ dpDate.half = 0 /\ ~dpChecked)

=============================================================================
