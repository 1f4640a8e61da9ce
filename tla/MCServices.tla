------------------------------ MODULE MCServices ------------------------------
(***************************************************************************)
(* Instances, for TLC, of the components that serve the request handlers    *)
(* and the administrator and share no variable with each other: in a        *)
(* behaviour one of them, the focus, moves and the others stay where they   *)
(* start.  The states are those of the components' own specifications, one  *)
(* after the other.                                                         *)
(***************************************************************************)
EXTENDS Keepalive, ResponseCache, ApiKeys, UsageLog, DialogCollector, DialogPartitions,
        StreamTranslate, RequestTranslate, RefreshScheduler, ProxyPool, OAuthSessions,
        LegacyScan, Settings

VARIABLE focus   \* the component that moves

servicesVars == <<focus, kaVars, rcVars, akVars, ulVars, dcVars, dpVars, trVars, rtVars,
                  rsVars, ppVars, oaVars, stVars, vars>>

Parts == {"keepalive", "cache", "keys", "usage", "dialog", "partitions", "stream", "input",
          "refresh", "proxies", "oauth", "settings", "scan"}

\* Two tiers, two scores, equal accounts, and one that is unavailable.
ScanView(available, priority, score, limit) ==
    [available |-> available, priority |-> priority, score |-> score, limit |-> limit]
ScanViews == {ScanView(TRUE, 3, 90, 2), ScanView(TRUE, 2, 90, 1), ScanView(TRUE, 2, 80, 1),
              ScanView(FALSE, 3, 90, 2)}
ScanPool == <<1, 2, 3>>
ScanExcludes == {{}, {1}}

\* What the settings page sends: up to three fields.
NoChange == [limit |-> Keep, retries |-> Keep, scheduler |-> Keep, migrate |-> Keep,
             overrides |-> Keep, secret |-> Keep, resin |-> Keep, rt |-> Keep]
PageUpdates ==
    {[NoChange EXCEPT !.limit = 2, !.scheduler = FALSE, !.retries = 0],
     [NoChange EXCEPT !.migrate = TRUE],
     [NoChange EXCEPT !.secret = 0],
     [NoChange EXCEPT !.secret = 2, !.migrate = TRUE],
     [NoChange EXCEPT !.resin = 0, !.rt = 0],
     [NoChange EXCEPT !.limit = 2, !.overrides = "bad"]}

\* Where a component may start in several states, only the focus does.
ServicesInit ==
    /\ focus \in Parts
    /\ KeepaliveInit /\ (focus # "keepalive" => kaKind = "sse")
    /\ ResponseCacheInit
    /\ ApiKeysInit
    /\ UsageLogInit
    /\ DialogCollectorInit
    /\ DialogPartitionsInit
    /\ focus # "partitions" => dpDate = [month |-> 12, day |-> 1, half |-> 0]
    /\ StreamTranslateInit /\ (focus # "stream" => trMode = "chat")
    /\ RequestTranslateInit /\ (focus # "input" => rtProtocol = "chat")
    /\ RefreshSchedulerInit
    /\ ProxyPoolInit
    /\ OAuthInit
    /\ SettingsInit /\ (focus # "settings" => stEnv /\ stRow.secret = 0 /\ ~stRow.migrate)
    /\ Init
    /\ focus # "scan" => view = [a \in Accounts |-> ScanView(FALSE, 3, 90, 2)]

ServicesNext ==
    /\ UNCHANGED focus
    /\ \/ focus = "keepalive" /\ KeepaliveNext /\ UNCHANGED <<rcVars, akVars, ulVars, dcVars, dpVars, trVars, rtVars, rsVars, ppVars, oaVars, stVars, vars>>
       \/ focus = "cache" /\ ResponseCacheNext /\ UNCHANGED <<kaVars, akVars, ulVars, dcVars, dpVars, trVars, rtVars, rsVars, ppVars, oaVars, stVars, vars>>
       \/ focus = "keys" /\ ApiKeysNext /\ UNCHANGED <<kaVars, rcVars, ulVars, dcVars, dpVars, trVars, rtVars, rsVars, ppVars, oaVars, stVars, vars>>
       \/ focus = "usage" /\ UsageLogNext /\ UNCHANGED <<kaVars, rcVars, akVars, dcVars, dpVars, trVars, rtVars, rsVars, ppVars, oaVars, stVars, vars>>
       \/ focus = "dialog" /\ DialogCollectorNext /\ UNCHANGED <<kaVars, rcVars, akVars, ulVars, dpVars, trVars, rtVars, rsVars, ppVars, oaVars, stVars, vars>>
       \/ focus = "partitions" /\ DialogPartitionsNext /\ UNCHANGED <<kaVars, rcVars, akVars, ulVars, dcVars, trVars, rtVars, rsVars, ppVars, oaVars, stVars, vars>>
       \/ focus = "stream" /\ StreamTranslateNext /\ UNCHANGED <<kaVars, rcVars, akVars, ulVars, dcVars, dpVars, rtVars, rsVars, ppVars, oaVars, stVars, vars>>
       \/ focus = "input" /\ RequestTranslateNext /\ UNCHANGED <<kaVars, rcVars, akVars, ulVars, dcVars, dpVars, trVars, rsVars, ppVars, oaVars, stVars, vars>>
       \/ focus = "refresh" /\ RefreshSchedulerNext /\ UNCHANGED <<kaVars, rcVars, akVars, ulVars, dcVars, dpVars, trVars, rtVars, ppVars, oaVars, stVars, vars>>
       \/ focus = "proxies" /\ ProxyPoolNext /\ UNCHANGED <<kaVars, rcVars, akVars, ulVars, dcVars, dpVars, trVars, rtVars, rsVars, oaVars, stVars, vars>>
       \/ focus = "oauth" /\ OAuthNext /\ UNCHANGED <<kaVars, rcVars, akVars, ulVars, dcVars, dpVars, trVars, rtVars, rsVars, ppVars, stVars, vars>>
       \/ focus = "settings" /\ SettingsNext /\ UNCHANGED <<kaVars, rcVars, akVars, ulVars, dcVars, dpVars, trVars, rtVars, rsVars, ppVars, oaVars, vars>>
       \/ focus = "scan" /\ Next /\ UNCHANGED <<kaVars, rcVars, akVars, ulVars, dcVars, dpVars, trVars, rtVars, rsVars, ppVars, oaVars, stVars>>

ServicesSpec == ServicesInit /\ [][ServicesNext]_servicesVars

=============================================================================
