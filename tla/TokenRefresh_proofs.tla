-------------------------- MODULE TokenRefresh_proofs --------------------------
(***************************************************************************)
(* Proofs about TokenRefresh, for any number of refreshers, any bounds and *)
(* any events: types, that the newest refresh token is never lost to a race *)
(* between refreshes, and how far the expiry in memory may be off.         *)
(***************************************************************************)
EXTENDS TokenRefresh, TLAPS

\* The durations are natural numbers.
LEMMA Ticks ==
    /\ Life \in Nat /\ Margin \in Nat /\ CacheClaim \in Nat /\ WaitClaim \in Nat
    /\ \A d \in CoolFor : d \in Nat
BY TimeAssumption

RefsOK ==
    /\ ref \in [Refreshers -> RefRec]
    /\ \A r \in Refreshers : ref[r].pc = "unlock" => ref[r].mine

-----------------------------------------------------------------------------
(* What the helpers keep. *)

\* Moving a refresher on keeps its record well formed.
LEMMA GoKeepsRefs ==
    ASSUME RefsOK, NEW r \in Refreshers, NEW pc \in Pcs \ {"unlock"}, go(r, pc)
    PROVE  RefsOK'
BY DEF RefsOK, go, RefRec

\* A refresher that leaves either goes to release the lock it took or is idle.
LEMMA LeaveKeepsRefs ==
    ASSUME RefsOK, NEW r \in Refreshers, leave(r)
    PROVE  RefsOK'
<1>1. Idle \in RefRec /\ Idle.pc = "idle"
  BY DEF Idle, RefRec, Pcs
<1>2. CASE ref[r].mine
  BY <1>2 DEF RefsOK, leave, go, RefRec, Pcs
<1>3. CASE ~ref[r].mine
  BY <1>1, <1>3 DEF RefsOK, leave
<1> QED BY <1>2, <1>3

\* A refresher that finishes leaves the others alone.
LEMMA FinishKeepsRefs ==
    ASSUME RefsOK, NEW r \in Refreshers, finish(r)
    PROVE  RefsOK'
BY GoKeepsRefs, LeaveKeepsRefs DEF finish, Pcs

\* What a refresh writes to the account is an account record.
LEMMA SettledType ==
    ASSUME NEW a \in AccRec, NEW r \in RefRec, NEW rt \in Nat, NEW at \in Nat, NEW exp \in Nat
    PROVE  /\ settled(a, r).exp = a.exp
           /\ [settled(a, r) EXCEPT !.at = at, !.exp = exp] \in AccRec
           /\ [settled(a, r) EXCEPT !.rt = rt, !.at = at, !.exp = exp] \in AccRec
BY DEF settled, AccRec, RefRec

-----------------------------------------------------------------------------
(* Types. *)

\* The types hold at the start.
LEMMA TypeInit == Init => TypeOK
<1> SUFFICES ASSUME Init PROVE TypeOK
  OBVIOUS
<1>1. Idle \in RefRec /\ Idle.pc # "unlock"
  BY DEF Idle, RefRec, Pcs
<1>2. PICK rt \in {0, 1}, at \in {0, Life} :
          /\ acc = [rt |-> rt, at |-> at, exp |-> at, status |-> "ready", until |-> 0]
          /\ db = [rt |-> rt, at |-> at, until |-> 0, active |-> TRUE]
  BY DEF Init
<1>3. acc \in AccRec /\ db \in RowRec
  BY <1>2, Ticks DEF AccRec, RowRec
<1>4. upstream \in [rt : Nat, rotating : BOOLEAN] /\ rtm \in [store : Nat, index : Nat, fresh : BOOLEAN]
  BY DEF Init
<1>5. ref \in [Refreshers -> RefRec] /\ \A r \in Refreshers : ref[r].pc # "unlock"
  BY <1>1 DEF Init
<1>6. lock \in BOOLEAN /\ lost \in BOOLEAN
  BY DEF Init
<1> QED BY <1>3, <1>4, <1>5, <1>6 DEF Init, TypeOK

\* Beginning a refresh keeps the types.
LEMMA BeginKeepsTypes ==
    ASSUME TypeOK, NEW r \in Refreshers, begin(r)
    PROVE  TypeOK'
<1>1. [Idle EXCEPT !.pc     = IF HasRT THEN "get" ELSE "lookup",
                   !.rt     = acc.rt,
                   !.until  = IF acc.status = "cooldown" /\ now < acc.until
                              THEN acc.until ELSE 0,
                   !.cooled = acc.status = "cooldown" /\ now >= acc.until] \in RefRec
  BY DEF TypeOK, Idle, RefRec, AccRec, Pcs
<1>2. RefsOK'
  BY <1>1 DEF begin, TypeOK, RefsOK, Idle
<1> QED BY <1>2 DEF begin, TypeOK, RefsOK

\* The steps around the refresh lock keep the types.
LEMMA LockKeepsTypes ==
    ASSUME TypeOK, NEW r \in Refreshers,
           \/ GetAccessToken(r) \/ AdoptCached(r) \/ AcquireRefreshLock(r)
           \/ WaitForRefreshComplete(r) \/ AdoptWaited(r) \/ ReleaseRefreshLock(r)
    PROVE  TypeOK'
<1> USE DEF TypeOK
<1>0. RefsOK /\ ref[r] \in RefRec
  BY DEF RefsOK
<1>1. CASE GetAccessToken(r)
  <2>1. RefsOK'
    BY <1>0, <1>1, GoKeepsRefs DEF GetAccessToken, RefsOK, RefRec, Pcs
  <2> QED BY <1>1, <2>1 DEF GetAccessToken, RefsOK
<1>2. CASE AdoptCached(r)
  <2>1. RefsOK'
    BY <1>0, <1>2, FinishKeepsRefs DEF AdoptCached
  <2>2. /\ acc.exp \in Nat /\ now + CacheClaim \in Nat /\ ref[r].at \in Nat
    BY <1>0, Ticks DEF AccRec, RefRec
  <2>3. settled(acc, ref[r]).exp = acc.exp
    BY <1>0, <2>2, SettledType
  <2>4. acc' \in AccRec
    BY <1>0, <1>2, <2>2, <2>3, SettledType DEF AdoptCached
  <2> QED BY <1>2, <2>1, <2>4 DEF AdoptCached, RefsOK
<1>3. CASE AcquireRefreshLock(r)
  <2>1. RefsOK'
    BY <1>0, <1>3, GoKeepsRefs DEF AcquireRefreshLock, RefsOK, RefRec, Pcs
  <2> QED BY <1>3, <2>1 DEF AcquireRefreshLock, RefsOK
<1>4. CASE WaitForRefreshComplete(r)
  <2>1. RefsOK'
    BY <1>0, <1>4, GoKeepsRefs DEF WaitForRefreshComplete, RefsOK, RefRec, Pcs
  <2> QED BY <1>4, <2>1 DEF WaitForRefreshComplete, RefsOK
<1>5. CASE AdoptWaited(r)
  <2>1. RefsOK'
    BY <1>0, <1>5, FinishKeepsRefs DEF AdoptWaited
  <2>2. now + WaitClaim \in Nat /\ ref[r].at \in Nat
    BY <1>0, Ticks DEF RefRec
  <2>3. acc' \in AccRec
    BY <1>0, <1>5, <2>2, SettledType DEF AdoptWaited
  <2> QED BY <1>5, <2>1, <2>3 DEF AdoptWaited, RefsOK
<1>6. CASE ReleaseRefreshLock(r)
  <2>1. RefsOK'
    BY <1>0, <1>6 DEF ReleaseRefreshLock, RefsOK, RefRec, Idle, Pcs
  <2> QED BY <1>6, <2>1 DEF ReleaseRefreshLock, RefsOK
<1> QED BY <1>1, <1>2, <1>3, <1>4, <1>5, <1>6

\* The exchange of a refresh token keeps the types.
LEMMA ExchangeKeepsTypes ==
    ASSUME TypeOK, NEW r \in Refreshers, RefreshWithRetry(r) \/ RTManagerRefresh(r)
    PROVE  TypeOK'
<1> USE DEF TypeOK
<1>0. RefsOK /\ ref[r] \in RefRec /\ issued \in Nat /\ now + Life \in Nat
  BY Ticks DEF RefsOK, issued
<1>1. upstream' \in [rt : Nat, rotating : BOOLEAN] /\ lost' \in BOOLEAN
  BY <1>0 DEF RefreshWithRetry, RTManagerRefresh, granted, grantLost
<1>2. ASSUME NEW pc \in {"store", "put"}, granted(r, pc)
      PROVE  RefsOK'
  BY <1>0, <1>2 DEF granted, RefsOK, RefRec, Pcs
<1>3. ASSUME ref' = [ref EXCEPT ![r].tries = @ + 1]
      PROVE  RefsOK'
  BY <1>0, <1>3 DEF RefsOK, RefRec
<1>4. ASSUME go(r, "error")
      PROVE  RefsOK'
  BY <1>0, <1>4, GoKeepsRefs DEF Pcs
<1>5. RefsOK'
  BY <1>0, <1>2, <1>3, <1>4, LeaveKeepsRefs DEF RefreshWithRetry, RTManagerRefresh
<1> QED BY <1>1, <1>5 DEF RefreshWithRetry, RTManagerRefresh, RefsOK

\* The steps that write what was exchanged keep the types.
LEMMA WriteKeepsTypes ==
    ASSUME TypeOK, NEW r \in Refreshers,
           \/ MarkError(r) \/ SetError(r) \/ Store(r) \/ SetAccessToken(r)
           \/ UpdateCredentials(r) \/ ClearCooldown(r)
    PROVE  TypeOK'
<1> USE DEF TypeOK
<1>0. RefsOK /\ ref[r] \in RefRec
  BY DEF RefsOK
<1>1. CASE MarkError(r)
  <2>1. RefsOK'
    BY <1>0, <1>1, GoKeepsRefs DEF MarkError, Pcs
  <2>2. acc' \in AccRec
    BY <1>1 DEF MarkError, AccRec
  <2> QED BY <1>1, <2>1, <2>2 DEF MarkError, RefsOK
<1>2. CASE SetError(r)
  <2>1. RefsOK'
    BY <1>0, <1>2, LeaveKeepsRefs DEF SetError
  <2>2. [db EXCEPT !.active = FALSE, !.until = 0] \in RowRec
    BY DEF RowRec
  <2>3. db' \in RowRec
    BY <1>2, <2>2 DEF SetError
  <2> QED BY <1>2, <2>1, <2>3 DEF SetError, RefsOK
<1>3. CASE Store(r)
  <2>1. RefsOK'
    BY <1>0, <1>3, GoKeepsRefs DEF Store, Pcs
  <2>2. ref[r].at \in Nat /\ (IF HasRT THEN ref[r].newRT ELSE 0) \in Nat
    BY <1>0 DEF RefRec
  <2>3. acc' \in AccRec
    BY <1>0, <1>3, <2>2, SettledType DEF Store
  <2> QED BY <1>3, <2>1, <2>3 DEF Store, RefsOK
<1>4. CASE SetAccessToken(r)
  <2>1. RefsOK'
    BY <1>0, <1>4, GoKeepsRefs DEF SetAccessToken, Pcs
  <2>2. cache' \in Nat
    BY <1>0, <1>4 DEF SetAccessToken, RefRec
  <2> QED BY <1>4, <2>1, <2>2 DEF SetAccessToken, RefsOK
<1>5. CASE UpdateCredentials(r)
  <2>1. RefsOK'
    BY <1>0, <1>5, FinishKeepsRefs DEF UpdateCredentials
  <2>2. db' \in RowRec
    BY <1>0, <1>5 DEF UpdateCredentials, RowRec, RefRec
  <2> QED BY <1>5, <2>1, <2>2 DEF UpdateCredentials, RefsOK
<1>6. CASE ClearCooldown(r)
  <2>1. RefsOK'
    BY <1>0, <1>6, LeaveKeepsRefs DEF ClearCooldown
  <2>2. db' \in RowRec
    BY <1>6 DEF ClearCooldown, RowRec
  <2> QED BY <1>6, <2>1, <2>2 DEF ClearCooldown, RefsOK
<1> QED BY <1>1, <1>2, <1>3, <1>4, <1>5, <1>6

\* The steps of the refresh token manager keep the types.
LEMMA RtmKeepsTypes ==
    ASSUME TypeOK, NEW r \in Refreshers,
           \/ ensureIndex(r) \/ InstallIndex(r) \/ Lookup(r)
           \/ UpdateAccount(r) \/ UpdateIndex(r)
    PROVE  TypeOK'
<1> USE DEF TypeOK
<1>0. RefsOK /\ ref[r] \in RefRec
  BY DEF RefsOK
<1>1. CASE ensureIndex(r)
  <2>1. RefsOK'
    BY <1>0, <1>1, GoKeepsRefs, LeaveKeepsRefs DEF ensureIndex, RefsOK, RefRec, Pcs
  <2> QED BY <1>1, <2>1 DEF ensureIndex, RefsOK
<1>2. CASE InstallIndex(r)
  <2>1. RefsOK'
    BY <1>0, <1>2, GoKeepsRefs DEF InstallIndex, Pcs
  <2> QED BY <1>0, <1>2, <2>1 DEF InstallIndex, RefsOK, RefRec
<1>3. CASE UpdateAccount(r)
  <2>1. RefsOK'
    BY <1>0, <1>3, GoKeepsRefs DEF UpdateAccount, Pcs
  <2>2. rtm' \in [store : Nat, index : Nat, fresh : BOOLEAN] /\ lost' \in BOOLEAN
    BY <1>0, <1>3 DEF UpdateAccount, RefRec
  <2> QED BY <1>3, <2>1, <2>2 DEF UpdateAccount, RefsOK
<1>4. CASE UpdateIndex(r)
  <2>1. RefsOK'
    BY <1>0, <1>4, GoKeepsRefs DEF UpdateIndex, Pcs
  <2> QED BY <1>0, <1>4, <2>1 DEF UpdateIndex, RefsOK, RefRec
<1>5. CASE Lookup(r)
  <2>1. RefsOK'
    BY <1>0, <1>5 DEF Lookup, RefsOK, RefRec, Pcs
  <2> QED BY <1>5, <2>1 DEF Lookup, RefsOK
<1> QED BY <1>1, <1>2, <1>3, <1>4, <1>5

\* Cooldowns, expiries, the clock and a restart keep the types.
LEMMA RestKeepsTypes ==
    ASSUME TypeOK,
           \/ \E d \in CoolFor : MarkCooldown(d)
           \/ LockExpires \/ IndexExpires \/ Tick \/ Restart
    PROVE  TypeOK'
<1> USE DEF TypeOK
<1>1. ASSUME NEW d \in CoolFor, MarkCooldown(d)
      PROVE  TypeOK'
  <2>1. now + d \in Nat
    BY Ticks
  <2>2. acc' \in AccRec /\ db' \in RowRec
    BY <1>1, <2>1 DEF MarkCooldown, AccRec, RowRec
  <2> QED BY <1>1, <2>2 DEF MarkCooldown
<1>2. CASE LockExpires
  BY <1>2 DEF LockExpires
<1>3. CASE IndexExpires
  BY <1>3 DEF IndexExpires
<1>4. CASE Tick
  <2>1. \A r \in Refreshers : [ref[r] EXCEPT !.late = ref[r].pc # "idle"] \in RefRec
    BY DEF RefRec
  <2>2. /\ ref' \in [Refreshers -> RefRec]
        /\ \A r \in Refreshers : ref'[r].pc = "unlock" => ref'[r].mine
    BY <1>4, <2>1 DEF Tick, RefRec
  <2> QED BY <1>4, <2>2 DEF Tick
<1>5. CASE Restart
  <2>1. Idle \in RefRec /\ Idle.pc # "unlock"
    BY DEF Idle, RefRec, Pcs
  <2>2. /\ ref' \in [Refreshers -> RefRec]
        /\ \A r \in Refreshers : ref'[r].pc # "unlock"
    BY <1>5, <2>1 DEF Restart
  <2>3. acc' \in AccRec
    BY <1>5 DEF Restart, loadFromDB, AccRec, RowRec
  <2>4. db' \in RowRec
    BY <1>5 DEF Restart, RowRec
  <2>5. cache' \in Nat /\ (lock' = lock \/ lock' = FALSE)
    BY <1>5 DEF Restart
  <2>6. lost' \in BOOLEAN
    BY <1>5 DEF Restart
  <2> QED BY <1>5, <2>2, <2>3, <2>4, <2>5, <2>6 DEF Restart
<1> QED BY <1>1, <1>2, <1>3, <1>4, <1>5

\* Every step keeps the types.
LEMMA TypeStep == TypeOK /\ [Next]_vars => TypeOK'
<1> SUFFICES ASSUME TypeOK, [Next]_vars PROVE TypeOK'
  OBVIOUS
<1>1. ASSUME NEW r \in Refreshers, RefreshStep(r)
      PROVE  TypeOK'
  BY <1>1, LockKeepsTypes, ExchangeKeepsTypes, WriteKeepsTypes, RtmKeepsTypes
  DEF RefreshStep
<1>2. ASSUME NEW r \in Refreshers, begin(r)
      PROVE  TypeOK'
  BY <1>2, BeginKeepsTypes
<1>3. CASE UNCHANGED vars
  BY <1>3 DEF vars, TypeOK
<1> QED BY <1>1, <1>2, <1>3, RestKeepsTypes
        DEF Next, parallelRefreshAll, RefreshSingle, Refreshers

\* The tokens, the row, the cache and every refresh keep their types, and only a
\* refresh that acquired the lock releases it.
THEOREM TokenTypes == Spec => []TypeOK
BY TypeInit, TypeStep, PTL DEF Spec

-----------------------------------------------------------------------------
(* The newest refresh token.  Upstream accepts only the newest one, and a     *)
(* refresh can have it only from where it is kept.  So while a refresh is on  *)
(* its way to put a newer one there, no other exchange succeeds, and no older *)
(* token is written over it, with or without the lock.                        *)

Kept   == IF HasRT THEN acc.rt ELSE rtm.store
HoldPc == IF HasRT THEN "store" ELSE "put"

OAuthPcs == {"get", "adopt", "lock", "wait", "adoptWaited", "exchange"}
RtmPcs   == {"lookup", "install", "find", "rtm", "put", "index"}
ReadPcs  == OAuthPcs \cup {"install", "rtm"}
GotPcs   == {"put", "index", "store", "cache", "save"}

\* Each kind of account takes its own path.
PathOK == \A r \in Refreshers : ref[r].pc \notin (IF HasRT THEN RtmPcs ELSE OAuthPcs)

\* No copy is ahead of the place it came from, and the row is of the same kind.
Behind ==
    /\ 1 <= upstream.rt
    /\ Kept <= upstream.rt
    /\ rtm.store <= upstream.rt
    /\ rtm.index <= rtm.store
    /\ db.rt <= upstream.rt
    /\ db.rt = 0 <=> acc.rt = 0

ReadBehind == \A r \in Refreshers : ref[r].pc \in ReadPcs => ref[r].rt <= Kept

GotBehind ==
    \A r \in Refreshers :
        /\ ref[r].pc \in GotPcs => 1 <= ref[r].newRT /\ ref[r].newRT <= upstream.rt
        /\ ref[r].pc = "index" => ref[r].newRT <= rtm.store

\* The refresh that is about to store a refresh token has the newest one, and while
\* upstream rotates it is the only one.
HolderNewest ==
    \A r \in Refreshers :
        ref[r].pc = HoldPc => /\ ref[r].newRT = upstream.rt
                              /\ upstream.rotating => Kept < upstream.rt

OneHolder ==
    upstream.rotating =>
        \A r, s \in Refreshers : ref[r].pc = HoldPc /\ ref[s].pc = HoldPc => r = s

\* Without rotation the token stays where it is.
Steady == ~upstream.rotating /\ ~lost => Kept = upstream.rt

RTInv == TypeOK /\ PathOK /\ Behind /\ ReadBehind /\ GotBehind /\ HolderNewest
         /\ OneHolder /\ Steady /\ NewestKept

\* What an invariant says of one refresher, apart from the places.
RefersOK(r) ==
    /\ ref[r].pc \notin (IF HasRT THEN RtmPcs ELSE OAuthPcs)
    /\ ref[r].pc \in ReadPcs => ref[r].rt <= Kept
    /\ ref[r].pc \in GotPcs => 1 <= ref[r].newRT /\ ref[r].newRT <= upstream.rt
    /\ ref[r].pc = "index" => ref[r].newRT <= rtm.store
    /\ ref[r].pc = HoldPc => /\ ref[r].newRT = upstream.rt
                             /\ upstream.rotating => Kept < upstream.rt

\* The invariant holds at the start.
LEMMA RTInit == Init => RTInv
<1> SUFFICES ASSUME Init PROVE RTInv
  OBVIOUS
<1>1. TypeOK
  BY TypeInit
<1>2. /\ \A r \in Refreshers : ref[r].pc = "idle"
      /\ upstream.rt = 1 /\ rtm.store = 1 /\ rtm.index = 0
      /\ acc.rt \in {0, 1} /\ db.rt = acc.rt
  BY DEF Init, Idle
<1> QED BY <1>1, <1>2 DEF RTInv, PathOK, Behind, ReadBehind, GotBehind, HolderNewest,
           OneHolder, Steady, NewestKept, Kept, HoldPc, HasRT, OAuthPcs, RtmPcs, ReadPcs, GotPcs

\* A step of refresher r that leaves upstream's token and the places alone, and does
\* not take r from the point at which it holds the newest token.
LEMMA QuietStep ==
    ASSUME RTInv, TypeOK', NEW r \in Refreshers,
           upstream' = upstream, rtm'.store = rtm.store, lost' = lost, acc'.rt = acc.rt,
           Behind', ref[r].pc # HoldPc, ref'[r].pc # HoldPc,
           \A s \in Refreshers : s # r => ref'[s] = ref[s],
           RefersOK(r)'
    PROVE  RTInv'
<1> USE DEF RTInv
<1>1. HasRT' = HasRT /\ Kept' = Kept /\ HoldPc' = HoldPc
  BY DEF HasRT, Kept, HoldPc
<1>2. PathOK' /\ ReadBehind' /\ GotBehind'
  BY <1>1 DEF PathOK, ReadBehind, GotBehind, RefersOK
<1>3. HolderNewest' /\ OneHolder'
  BY <1>1 DEF HolderNewest, OneHolder, RefersOK
<1>4. NewestKept' /\ Steady'
  BY <1>1 DEF NewestKept, Steady, Holds, Kept, HoldPc
<1> QED BY <1>2, <1>3, <1>4

\* A step that leaves every refresh token alone keeps the places in order.
LEMMA StillBehind ==
    ASSUME Behind, upstream' = upstream, rtm' = rtm, acc'.rt = acc.rt, db'.rt = db.rt
    PROVE  Behind'
BY DEF Behind, Kept, HasRT

\* Every refresher is as the invariant wants it.
LEMMA EachRefers ==
    ASSUME RTInv, NEW r \in Refreshers
    PROVE  RefersOK(r) /\ ref[r] \in RefRec /\ ref \in [Refreshers -> RefRec]
BY DEF RTInv, PathOK, ReadBehind, GotBehind, HolderNewest, RefersOK, TypeOK

\* A step that only moves refresher r on, to a point that asks nothing new of it.
LEMMA MoveKeepsRT ==
    ASSUME RTInv, TypeOK', NEW r \in Refreshers, NEW pc \in Pcs,
           upstream' = upstream, rtm' = rtm, lost' = lost, acc'.rt = acc.rt,
           db'.rt = db.rt, ref[r].pc # HoldPc, pc # HoldPc,
           \A s \in Refreshers : s # r => ref'[s] = ref[s],
           ref'[r].pc = pc, ref'[r].rt = ref[r].rt, ref'[r].newRT = ref[r].newRT,
           pc \in RtmPcs => ref[r].pc \in RtmPcs,
           pc \in OAuthPcs => ref[r].pc \in OAuthPcs,
           pc \in ReadPcs => ref[r].pc \in ReadPcs,
           pc \in GotPcs => ref[r].pc \in GotPcs \ {"index"},
           pc # "index"
    PROVE  RTInv'
<1>1. Behind'
  BY StillBehind DEF RTInv
<1>2. HasRT' = HasRT /\ Kept' = Kept /\ HoldPc' = HoldPc
  BY DEF HasRT, Kept, HoldPc
<1>3. RefersOK(r)'
  BY <1>2, EachRefers DEF RefersOK
<1> QED BY <1>1, <1>3, QuietStep

\* A refresher that leaves asks nothing any more.
LEMMA LeaveKeepsRT ==
    ASSUME RTInv, TypeOK', NEW r \in Refreshers, leave(r),
           upstream' = upstream, rtm' = rtm, lost' = lost, acc'.rt = acc.rt,
           db'.rt = db.rt, ref[r].pc # HoldPc
    PROVE  RTInv'
<1>1. Behind'
  BY StillBehind DEF RTInv
<1>2. /\ ref'[r].pc \in {"unlock", "idle"}
      /\ \A s \in Refreshers : s # r => ref'[s] = ref[s]
  BY EachRefers DEF leave, go, Idle, RefRec
<1>3. RefersOK(r)' /\ ref'[r].pc # HoldPc
  BY <1>2 DEF RefersOK, HoldPc, OAuthPcs, RtmPcs, ReadPcs, GotPcs
<1> QED BY <1>1, <1>2, <1>3, QuietStep

\* A refresher that finishes holds no token the others lack.
LEMMA FinishKeepsRT ==
    ASSUME RTInv, TypeOK', NEW r \in Refreshers, finish(r),
           upstream' = upstream, rtm' = rtm, lost' = lost, acc'.rt = acc.rt,
           db'.rt = db.rt, ref[r].pc # HoldPc
    PROVE  RTInv'
<1>1. CASE leave(r)
  BY <1>1, LeaveKeepsRT
<1>2. CASE go(r, "clear")
  <2>1. /\ ref'[r] = [ref[r] EXCEPT !.pc = "clear"]
        /\ \A s \in Refreshers : s # r => ref'[s] = ref[s]
    BY <1>2, EachRefers DEF go, RefRec
  <2> QED BY <2>1, EachRefers, MoveKeepsRT
          DEF RefRec, Pcs, HoldPc, OAuthPcs, RtmPcs, ReadPcs, GotPcs
<1> QED BY <1>1, <1>2 DEF finish

\* One step of the goroutine of refresher r moves no other refresher.
LEMMA GoMoves ==
    ASSUME RTInv, NEW r \in Refreshers, NEW pc \in Pcs, go(r, pc)
    PROVE  /\ ref'[r].pc = pc /\ ref'[r].rt = ref[r].rt /\ ref'[r].newRT = ref[r].newRT
           /\ \A s \in Refreshers : s # r => ref'[s] = ref[s]
BY EachRefers DEF go, RefRec

\* Beginning a refresh exchanges nothing.
LEMMA BeginKeepsRT ==
    ASSUME RTInv, TypeOK', NEW r \in Refreshers, begin(r)
    PROVE  RTInv'
<1>1. Behind'
  BY StillBehind DEF RTInv, begin
<1>2. /\ ref'[r].pc = IF HasRT THEN "get" ELSE "lookup"
      /\ ref'[r].rt = acc.rt
      /\ \A s \in Refreshers : s # r => ref'[s] = ref[s]
  BY EachRefers DEF begin, Idle
<1>3. HasRT' = HasRT /\ Kept' = Kept /\ HoldPc' = HoldPc
  BY DEF HasRT, Kept, HoldPc, begin
<1>4. acc.rt \in Nat
  BY DEF RTInv, TypeOK, AccRec
<1>5. RefersOK(r)' /\ ref'[r].pc # HoldPc /\ ref[r].pc # HoldPc
  BY <1>2, <1>3, <1>4 DEF RefersOK, begin, Kept, HoldPc, OAuthPcs, RtmPcs, ReadPcs, GotPcs
<1> QED BY <1>1, <1>2, <1>5, QuietStep DEF begin

\* The steps around the refresh lock exchange nothing.
LEMMA LockKeepsRT ==
    ASSUME RTInv, TypeOK', NEW r \in Refreshers,
           \/ GetAccessToken(r) \/ AdoptCached(r) \/ AcquireRefreshLock(r)
           \/ WaitForRefreshComplete(r) \/ AdoptWaited(r) \/ ReleaseRefreshLock(r)
    PROVE  RTInv'
<1> USE DEF Pcs, HoldPc, OAuthPcs, RtmPcs, ReadPcs, GotPcs
<1>0. ref[r] \in RefRec /\ ref \in [Refreshers -> RefRec] /\ acc \in AccRec
  BY EachRefers DEF RTInv, TypeOK
<1>1. CASE GetAccessToken(r)
  <2>1. PICK pc \in {"adopt", "lock"} :
            /\ ref'[r].pc = pc /\ ref'[r].rt = ref[r].rt /\ ref'[r].newRT = ref[r].newRT
            /\ \A s \in Refreshers : s # r => ref'[s] = ref[s]
    BY <1>0, <1>1 DEF GetAccessToken, go, RefRec
  <2> QED BY <1>1, <2>1, MoveKeepsRT DEF GetAccessToken
<1>2. CASE AdoptCached(r)
  <2>1. acc'.rt = acc.rt
    BY <1>0, <1>2 DEF AdoptCached, settled, AccRec
  <2> QED BY <1>2, <2>1, FinishKeepsRT DEF AdoptCached
<1>3. CASE AcquireRefreshLock(r)
  <2>1. PICK pc \in {"exchange", "wait"} :
            /\ ref'[r].pc = pc /\ ref'[r].rt = ref[r].rt /\ ref'[r].newRT = ref[r].newRT
            /\ \A s \in Refreshers : s # r => ref'[s] = ref[s]
    BY <1>0, <1>3 DEF AcquireRefreshLock, go, RefRec
  <2> QED BY <1>3, <2>1, MoveKeepsRT DEF AcquireRefreshLock
<1>4. CASE WaitForRefreshComplete(r)
  <2>1. PICK pc \in {"exchange", "adoptWaited"} :
            /\ ref'[r].pc = pc /\ ref'[r].rt = ref[r].rt /\ ref'[r].newRT = ref[r].newRT
            /\ \A s \in Refreshers : s # r => ref'[s] = ref[s]
    BY <1>0, <1>4 DEF WaitForRefreshComplete, go, RefRec
  <2> QED BY <1>4, <2>1, MoveKeepsRT DEF WaitForRefreshComplete
<1>5. CASE AdoptWaited(r)
  <2>1. acc'.rt = acc.rt
    BY <1>0, <1>5 DEF AdoptWaited, settled, AccRec
  <2> QED BY <1>5, <2>1, FinishKeepsRT DEF AdoptWaited
<1>6. CASE ReleaseRefreshLock(r)
  <2>1. Behind'
    BY <1>6, StillBehind DEF RTInv, ReleaseRefreshLock
  <2>2. ref'[r].pc = "idle" /\ \A s \in Refreshers : s # r => ref'[s] = ref[s]
    BY <1>0, <1>6 DEF ReleaseRefreshLock, Idle
  <2>3. RefersOK(r)'
    BY <2>2 DEF RefersOK
  <2> QED BY <1>6, <2>1, <2>2, <2>3, QuietStep DEF ReleaseRefreshLock
<1> QED BY <1>1, <1>2, <1>3, <1>4, <1>5, <1>6

\* The grant of a newer token: what was read is the newest kept, so nobody holds one.
LEMMA GrantKeepsRT ==
    ASSUME RTInv, TypeOK', NEW r \in Refreshers, ref[r].pc \in ReadPcs,
           granted(r, HoldPc), acc' = acc, db' = db, rtm' = rtm
    PROVE  RTInv'
<1> USE DEF RTInv
<1>1. HasRT' = HasRT /\ Kept' = Kept /\ HoldPc' = HoldPc
  BY DEF HasRT, Kept, HoldPc
<1>2. Kept = upstream.rt /\ ref[r].rt = upstream.rt
  BY DEF granted, ReadBehind, Behind, TypeOK, AccRec, RefRec, Kept, HasRT
<1>3. upstream.rotating => \A s \in Refreshers : ref[s].pc # HoldPc
  BY <1>2 DEF HolderNewest, TypeOK
<1>4. /\ upstream' = [upstream EXCEPT !.rt = issued]
      /\ upstream.rt \in Nat /\ issued \in Nat /\ upstream.rt <= issued
      /\ upstream.rotating => upstream.rt < issued
      /\ ~upstream.rotating => issued = upstream.rt
  BY DEF granted, issued, TypeOK
<1>5. upstream'.rt = issued /\ upstream'.rotating = upstream.rotating
  BY <1>4 DEF TypeOK
<1>6. /\ ref'[r].pc = HoldPc /\ ref'[r].newRT = issued
      /\ \A s \in Refreshers : s # r => ref'[s] = ref[s]
  BY EachRefers DEF granted, RefRec
<1>7. PathOK'
  BY <1>1, <1>6 DEF PathOK, HoldPc, RtmPcs, OAuthPcs
<1>8. Behind'
  BY <1>1, <1>4, <1>5 DEF Behind, TypeOK, RowRec, AccRec, Kept
<1>9. ReadBehind'
  BY <1>1, <1>6 DEF ReadBehind, HoldPc, ReadPcs, OAuthPcs
<1>10. GotBehind'
  <2> SUFFICES ASSUME NEW s \in Refreshers
               PROVE  /\ ref'[s].pc \in GotPcs => 1 <= ref'[s].newRT /\ ref'[s].newRT <= upstream'.rt
                      /\ ref'[s].pc = "index" => ref'[s].newRT <= rtm'.store
    BY DEF GotBehind
  <2>1. CASE s = r
    BY <2>1, <1>4, <1>5, <1>6 DEF HoldPc, Behind
  <2>2. CASE s # r
    BY <2>2, <1>4, <1>5, <1>6 DEF GotBehind, TypeOK, RefRec
  <2> QED BY <2>1, <2>2
<1>11. HolderNewest' /\ OneHolder'
  BY <1>1, <1>2, <1>3, <1>4, <1>5, <1>6 DEF HolderNewest, OneHolder
<1>12. NewestKept'
  BY <1>1, <1>5, <1>6 DEF NewestKept, Holds, HoldPc
<1>13. Steady'
  BY <1>1, <1>2, <1>4, <1>5 DEF Steady
<1> QED BY <1>7, <1>8, <1>9, <1>10, <1>11, <1>12, <1>13

\* An answer that is lost: upstream goes on, and nobody has its newest token.
LEMMA LossKeepsRT ==
    ASSUME RTInv, TypeOK', NEW r \in Refreshers, ref[r].pc \in ReadPcs,
           ref[r].rt = upstream.rt, grantLost, acc' = acc, db' = db, rtm' = rtm,
           \A s \in Refreshers : s # r => ref'[s] = ref[s],
           \/ ref'[r].pc \in {"unlock", "idle"}
           \/ ref'[r].pc = ref[r].pc /\ ref'[r].rt = ref[r].rt
    PROVE  RTInv'
<1> USE DEF RTInv
<1>1. HasRT' = HasRT /\ Kept' = Kept /\ HoldPc' = HoldPc
  BY DEF HasRT, Kept, HoldPc
<1>2. Kept = upstream.rt
  BY DEF ReadBehind, Behind, TypeOK, AccRec, RefRec, Kept, HasRT
<1>3. upstream.rotating => \A s \in Refreshers : ref[s].pc # HoldPc
  BY <1>2 DEF HolderNewest, TypeOK
<1>4. /\ upstream' = [upstream EXCEPT !.rt = issued]
      /\ upstream.rt \in Nat /\ issued \in Nat /\ upstream.rt <= issued
      /\ ~upstream.rotating => issued = upstream.rt
  BY DEF grantLost, issued, TypeOK
<1>5. upstream'.rt = issued /\ upstream'.rotating = upstream.rotating
  BY <1>4 DEF TypeOK
<1>6. ref'[r].pc # HoldPc /\ ref'[r].pc \notin GotPcs /\ ref[r].pc # HoldPc
  BY DEF HoldPc, GotPcs, ReadPcs, OAuthPcs
<1>7. PathOK'
  BY <1>1 DEF PathOK, RtmPcs, OAuthPcs
<1>8. Behind'
  BY <1>1, <1>4, <1>5 DEF Behind, TypeOK, RowRec, AccRec, Kept
<1>9. ReadBehind'
  BY <1>1 DEF ReadBehind, ReadPcs, OAuthPcs
<1>10. GotBehind'
  <2> SUFFICES ASSUME NEW s \in Refreshers
               PROVE  /\ ref'[s].pc \in GotPcs => 1 <= ref'[s].newRT /\ ref'[s].newRT <= upstream'.rt
                      /\ ref'[s].pc = "index" => ref'[s].newRT <= rtm'.store
    BY DEF GotBehind
  <2>1. CASE s = r
    BY <2>1, <1>6 DEF GotPcs
  <2>2. CASE s # r
    BY <2>2, <1>4, <1>5 DEF GotBehind, TypeOK, RefRec
  <2> QED BY <2>1, <2>2
<1>11. HolderNewest' /\ OneHolder'
  BY <1>1, <1>3, <1>4, <1>5, <1>6 DEF HolderNewest, OneHolder
<1>12. NewestKept'
  <2>1. CASE upstream.rotating
    BY <2>1 DEF NewestKept, grantLost
  <2>2. CASE ~upstream.rotating
    BY <1>1, <1>2, <1>4, <1>5, <2>2 DEF NewestKept, Kept
  <2> QED BY <2>1, <2>2
<1>13. Steady'
  BY <1>1, <1>2, <1>4, <1>5 DEF Steady
<1> QED BY <1>7, <1>8, <1>9, <1>10, <1>11, <1>12, <1>13

\* The refresher that exchanged holds the newest token.
LEMMA ExchangeKeepsRT ==
    ASSUME RTInv, TypeOK', NEW r \in Refreshers, RefreshWithRetry(r) \/ RTManagerRefresh(r)
    PROVE  RTInv'
<1> USE DEF Pcs, OAuthPcs, RtmPcs, ReadPcs, GotPcs
<1>0. /\ ref[r] \in RefRec /\ ref \in [Refreshers -> RefRec]
      /\ acc' = acc /\ db' = db /\ rtm' = rtm
      /\ ref[r].pc \in {"exchange", "rtm"} /\ ref[r].pc \in ReadPcs /\ ref[r].pc # HoldPc
  BY EachRefers DEF RefreshWithRetry, RTManagerRefresh, HoldPc
<1>1. /\ ref[r].pc = "exchange" => HasRT
      /\ ref[r].pc = "rtm" => ~HasRT
  BY DEF RTInv, PathOK
<1>2. ASSUME leave(r)
      PROVE  /\ ref'[r].pc \in {"unlock", "idle"}
             /\ \A s \in Refreshers : s # r => ref'[s] = ref[s]
  BY <1>0, <1>2 DEF leave, go, Idle, RefRec
<1>3. ASSUME ref' = [ref EXCEPT ![r].tries = @ + 1]
      PROVE  /\ ref'[r].pc = ref[r].pc /\ ref'[r].rt = ref[r].rt
             /\ ref'[r].newRT = ref[r].newRT
             /\ \A s \in Refreshers : s # r => ref'[s] = ref[s]
  BY <1>0, <1>3 DEF RefRec
<1>4. CASE \/ granted(r, "store") /\ ref[r].pc = "exchange"
           \/ granted(r, "put") /\ ref[r].pc = "rtm"
  BY <1>0, <1>1, <1>4, GrantKeepsRT DEF HoldPc
<1>5. CASE go(r, "error") /\ UNCHANGED <<upstream, lost>>
  BY <1>0, <1>5, GoMoves, MoveKeepsRT DEF HoldPc
<1>6. CASE ref[r].rt = upstream.rt /\ grantLost /\ (leave(r) \/ ref' = [ref EXCEPT ![r].tries = @ + 1])
  BY <1>0, <1>2, <1>3, <1>6, LossKeepsRT
<1>7. CASE leave(r) /\ UNCHANGED <<upstream, lost>>
  BY <1>0, <1>7, LeaveKeepsRT
<1>8. CASE ref' = [ref EXCEPT ![r].tries = @ + 1] /\ UNCHANGED <<upstream, lost>>
  BY <1>0, <1>3, <1>8, MoveKeepsRT
<1>9. CASE RefreshWithRetry(r)
  <2>1. \/ granted(r, "store")
        \/ go(r, "error") /\ UNCHANGED <<upstream, lost>>
        \/ /\ UNCHANGED <<upstream, lost>> \/ (ref[r].rt = upstream.rt /\ grantLost)
           /\ leave(r) \/ ref' = [ref EXCEPT ![r].tries = @ + 1]
    BY <1>9, Zenon DEF RefreshWithRetry
  <2> QED BY <1>4, <1>5, <1>6, <1>7, <1>8, <1>9, <2>1, Zenon DEF RefreshWithRetry
<1>10. CASE RTManagerRefresh(r)
  BY <1>4, <1>5, <1>6, <1>7, <1>10, Zenon DEF RTManagerRefresh
<1> QED BY <1>9, <1>10

\* The refresh that holds the newest token puts it in its place.
LEMMA StoreKeepsRT ==
    ASSUME RTInv, TypeOK', NEW r \in Refreshers, Store(r)
    PROVE  RTInv'
<1> USE DEF Pcs, OAuthPcs, RtmPcs, ReadPcs, GotPcs
<1>0. ref[r] \in RefRec /\ acc \in AccRec /\ upstream.rt \in Nat
  BY EachRefers DEF RTInv, TypeOK
<1>1. acc'.rt = IF HasRT THEN ref[r].newRT ELSE 0
  BY <1>0 DEF Store, settled, AccRec
<1>2. /\ ref'[r].pc = "cache" /\ ref'[r].rt = ref[r].rt /\ ref'[r].newRT = ref[r].newRT
      /\ \A s \in Refreshers : s # r => ref'[s] = ref[s]
  BY GoMoves DEF Store
<1>3. CASE ~HasRT
  <2>1. acc'.rt = acc.rt
    BY <1>1, <1>3 DEF HasRT
  <2> QED BY <1>2, <1>3, <2>1, MoveKeepsRT DEF Store, HoldPc
<1>4. CASE HasRT
  <2>1. /\ ref[r].newRT = upstream.rt
        /\ 1 <= upstream.rt
        /\ \A s \in Refreshers : ref[s].pc \in ReadPcs => ref[s].rt <= upstream.rt
    BY <1>0, <1>4 DEF Store, RTInv, HolderNewest, HoldPc, Behind, ReadBehind, Kept,
       AccRec, TypeOK, RefRec
  <2>2. HasRT' /\ Kept' = upstream.rt /\ HoldPc' = "store" /\ HoldPc = "store"
    BY <1>0, <1>1, <1>4, <2>1 DEF HasRT, Kept, HoldPc
  <2>3. upstream' = upstream /\ rtm' = rtm /\ db' = db
    BY DEF Store
  <2>4. PathOK' /\ Behind'
    BY <1>0, <1>1, <1>2, <1>4, <2>1, <2>2, <2>3 DEF RTInv, PathOK, Behind, HasRT
  <2>5. ReadBehind' /\ GotBehind'
    BY <1>2, <2>1, <2>2, <2>3 DEF RTInv, ReadBehind, GotBehind, Store
  <2>6. \A s \in Refreshers : upstream.rotating => ref'[s].pc # "store"
    BY <1>2, <2>2 DEF RTInv, OneHolder, Store
  <2>7. HolderNewest' /\ OneHolder'
    BY <1>2, <2>2, <2>3, <2>6 DEF RTInv, HolderNewest, OneHolder
  <2>8. NewestKept' /\ Steady'
    BY <2>2, <2>3 DEF NewestKept, Kept, Steady
  <2> QED BY <2>4, <2>5, <2>7, <2>8 DEF RTInv
<1> QED BY <1>3, <1>4

\* Writing puts the newest token where the invariant wants it.
LEMMA WriteKeepsRT ==
    ASSUME RTInv, TypeOK', NEW r \in Refreshers,
           \/ MarkError(r) \/ SetError(r) \/ SetAccessToken(r)
           \/ UpdateCredentials(r) \/ ClearCooldown(r)
    PROVE  RTInv'
<1> USE DEF Pcs, OAuthPcs, RtmPcs, ReadPcs, GotPcs
<1>0. /\ ref[r] \in RefRec /\ acc \in AccRec /\ db \in RowRec
      /\ ref[r].pc \in {"error", "saveError", "cache", "save", "clear"} /\ ref[r].pc # HoldPc
  BY EachRefers DEF RTInv, TypeOK, MarkError, SetError, SetAccessToken, UpdateCredentials,
     ClearCooldown, HoldPc
<1>1. CASE MarkError(r)
  <2>1. acc'.rt = acc.rt
    BY <1>0, <1>1 DEF MarkError, AccRec
  <2> QED BY <1>0, <1>1, <2>1, GoMoves, MoveKeepsRT DEF MarkError, HoldPc
<1>2. CASE SetError(r)
  <2>1. db'.rt = db.rt
    BY <1>0, <1>2 DEF SetError, RowRec
  <2> QED BY <1>0, <1>2, <2>1, LeaveKeepsRT DEF SetError
<1>3. CASE SetAccessToken(r)
  BY <1>0, <1>3, GoMoves, MoveKeepsRT DEF SetAccessToken, HoldPc
<1>4. CASE UpdateCredentials(r)
  <2>1. db'.rt \in {db.rt, IF HasRT THEN ref[r].newRT ELSE db.rt}
    BY <1>0, <1>4 DEF UpdateCredentials, RowRec
  <2>2. 1 <= ref[r].newRT /\ ref[r].newRT <= upstream.rt
    BY <1>4 DEF UpdateCredentials, RTInv, GotBehind
  <2>3. Behind'
    BY <1>4, <2>1, <2>2 DEF RTInv, Behind, UpdateCredentials, Kept, HasRT
  <2>4. /\ ref'[r].pc \in {"clear", "unlock", "idle"}
        /\ \A s \in Refreshers : s # r => ref'[s] = ref[s]
    BY <1>0, <1>4, EachRefers DEF UpdateCredentials, finish, leave, go, Idle, RefRec
  <2>5. RefersOK(r)' /\ ref'[r].pc # HoldPc
    BY <2>4 DEF RefersOK, HoldPc
  <2> QED BY <1>0, <1>4, <2>3, <2>4, <2>5, QuietStep DEF UpdateCredentials
<1>5. CASE ClearCooldown(r)
  <2>1. db'.rt = db.rt
    BY <1>0, <1>5 DEF ClearCooldown, RowRec
  <2> QED BY <1>0, <1>5, <2>1, LeaveKeepsRT DEF ClearCooldown
<1> QED BY <1>1, <1>2, <1>3, <1>4, <1>5

\* The refresh token manager indexes tokens without exchanging them.
LEMMA RtmKeepsRT ==
    ASSUME RTInv, TypeOK', NEW r \in Refreshers,
           \/ ensureIndex(r) \/ InstallIndex(r) \/ Lookup(r)
           \/ UpdateAccount(r) \/ UpdateIndex(r)
    PROVE  RTInv'
<1> USE DEF Pcs, OAuthPcs, RtmPcs, ReadPcs, GotPcs
<1>0. /\ ref[r] \in RefRec /\ ref \in [Refreshers -> RefRec]
      /\ rtm \in [store : Nat, index : Nat, fresh : BOOLEAN] /\ upstream.rt \in Nat
      /\ ~HasRT /\ Kept = rtm.store /\ HoldPc = "put" /\ upstream' = upstream
      /\ acc' = acc /\ db' = db
  BY EachRefers DEF RTInv, TypeOK, PathOK, ensureIndex, InstallIndex, Lookup,
     UpdateAccount, UpdateIndex, Kept, HoldPc
<1>1. ~HasRT' /\ Kept' = rtm'.store /\ HoldPc' = "put"
  BY <1>0 DEF HasRT, Kept, HoldPc
<1>2. CASE ensureIndex(r)
  <2>1. CASE leave(r)
    BY <1>0, <1>2, <2>1, LeaveKeepsRT DEF ensureIndex
  <2>2. CASE ~leave(r)
    <3>1. /\ ref'[r].pc = "find" \/ (ref'[r].pc = "install" /\ ref'[r].rt = rtm.store)
          /\ \A s \in Refreshers : s # r => ref'[s] = ref[s]
      BY <1>0, <1>2, <2>2 DEF ensureIndex, go, RefRec
    <3>2. rtm' = rtm /\ rtm.index <= rtm.store
      BY <1>2 DEF ensureIndex, RTInv, Behind
    <3>3. RefersOK(r)' /\ Behind'
      BY <1>0, <1>1, <3>1, <3>2, StillBehind DEF RefersOK, RTInv
    <3> QED BY <1>0, <1>2, <3>1, <3>2, <3>3, QuietStep DEF ensureIndex
  <2> QED BY <2>1, <2>2
<1>3. CASE InstallIndex(r)
  <2>1. /\ ref'[r].pc = "find" /\ ref'[r].rt = ref[r].rt
        /\ \A s \in Refreshers : s # r => ref'[s] = ref[s]
    BY <1>3, GoMoves DEF InstallIndex
  <2>2. rtm'.store = rtm.store /\ rtm'.index = ref[r].rt /\ ref[r].rt <= rtm.store
    BY <1>0, <1>3 DEF InstallIndex, RTInv, ReadBehind
  <2>3. RefersOK(r)' /\ Behind'
    BY <1>0, <1>1, <2>1, <2>2 DEF RefersOK, RTInv, Behind
  <2> QED BY <1>0, <1>3, <2>1, <2>2, <2>3, QuietStep DEF InstallIndex
<1>4. CASE UpdateIndex(r)
  <2>1. /\ ref'[r].pc = "store" /\ ref'[r].newRT = ref[r].newRT
        /\ \A s \in Refreshers : s # r => ref'[s] = ref[s]
    BY <1>4, GoMoves DEF UpdateIndex
  <2>2. /\ rtm'.store = rtm.store /\ rtm'.index = ref[r].newRT
        /\ 1 <= ref[r].newRT /\ ref[r].newRT <= rtm.store /\ ref[r].newRT <= upstream.rt
    BY <1>0, <1>4 DEF UpdateIndex, RTInv, GotBehind
  <2>3. RefersOK(r)' /\ Behind'
    BY <1>0, <1>1, <2>1, <2>2 DEF RefersOK, RTInv, Behind
  <2> QED BY <1>0, <1>1, <1>4, <2>1, <2>2, <2>3, QuietStep DEF UpdateIndex
<1>5. CASE UpdateAccount(r)
  <2>1. /\ ref'[r].pc \in {"index", "store"} /\ ref'[r].newRT = ref[r].newRT
        /\ \A s \in Refreshers : s # r => ref'[s] = ref[s]
    BY <1>5, GoMoves DEF UpdateAccount
  <2>2. ref[r].newRT = upstream.rt /\ 1 <= upstream.rt
    BY <1>0, <1>5 DEF UpdateAccount, RTInv, HolderNewest, Behind
  <2>3. /\ rtm'.index = rtm.index /\ rtm'.store \in {rtm.store, upstream.rt}
        /\ rtm.store <= rtm'.store /\ rtm'.store <= upstream.rt
        /\ ref'[r].pc = "index" => rtm'.store = upstream.rt
    BY <1>0, <1>5, <2>1, <2>2 DEF UpdateAccount, RTInv, Behind, go, RefRec
  <2>4. PathOK' /\ Behind'
    BY <1>0, <1>1, <2>1, <2>3 DEF RTInv, PathOK, Behind
  <2>5. ReadBehind' /\ GotBehind'
    BY <1>0, <1>1, <2>1, <2>2, <2>3 DEF RTInv, ReadBehind, GotBehind, TypeOK, RefRec
  <2>6. upstream.rotating => \A s \in Refreshers : ref'[s].pc # "put"
    BY <1>0, <1>5, <2>1 DEF RTInv, OneHolder, UpdateAccount
  <2>7. HolderNewest' /\ OneHolder'
    BY <1>0, <1>1, <2>1, <2>6 DEF RTInv, HolderNewest, OneHolder
  <2>8. NewestKept' /\ Steady'
    <3>1. CASE rtm'.store = upstream.rt
      BY <1>0, <1>1, <3>1 DEF NewestKept, Steady
    <3>2. CASE rtm'.store # upstream.rt
      <4>1. lost' = (lost \/ upstream.rotating) /\ rtm' = rtm
        BY <1>0, <1>5, <2>2, <3>2 DEF UpdateAccount
      <4>2. lost'
        BY <1>0, <3>2, <4>1 DEF RTInv, Steady
      <4> QED BY <4>2 DEF NewestKept, Steady
    <3> QED BY <3>1, <3>2
  <2> QED BY <2>4, <2>5, <2>7, <2>8 DEF RTInv
<1>6. CASE Lookup(r)
  <2>1. /\ ref'[r].pc = "rtm" /\ ref'[r].rt = rtm.index
        /\ \A s \in Refreshers : s # r => ref'[s] = ref[s]
    BY <1>0, <1>6 DEF Lookup, RefRec
  <2>2. rtm' = rtm /\ rtm.index <= rtm.store
    BY <1>6 DEF Lookup, RTInv, Behind
  <2>3. RefersOK(r)' /\ Behind'
    BY <1>0, <1>1, <2>1, <2>2, StillBehind DEF RefersOK, RTInv
  <2> QED BY <1>0, <1>6, <2>1, <2>2, <2>3, QuietStep DEF Lookup
<1> QED BY <1>2, <1>3, <1>4, <1>5, <1>6

\* Cooldowns, expiries, the clock and a restart lose no token unnoticed.
LEMMA RestKeepsRT ==
    ASSUME RTInv, TypeOK',
           \/ \E d \in CoolFor : MarkCooldown(d)
           \/ LockExpires \/ IndexExpires \/ Tick \/ Restart \/ UNCHANGED vars
    PROVE  RTInv'
<1> USE DEF RTInv
<1>1. ASSUME upstream' = upstream, acc'.rt = acc.rt, db'.rt = db.rt, lost' = lost,
             rtm'.store = rtm.store, rtm'.index \in {0, rtm.index},
             \A r \in Refreshers : /\ ref'[r].pc = ref[r].pc /\ ref'[r].rt = ref[r].rt
                                   /\ ref'[r].newRT = ref[r].newRT
      PROVE  RTInv'
  <2>1. HasRT' = HasRT /\ Kept' = Kept /\ HoldPc' = HoldPc
    BY <1>1 DEF HasRT, Kept, HoldPc
  <2>2. PathOK' /\ ReadBehind' /\ GotBehind'
    BY <1>1, <2>1 DEF PathOK, ReadBehind, GotBehind
  <2>3. Behind'
    BY <1>1, <2>1 DEF Behind, TypeOK
  <2>4. HolderNewest' /\ OneHolder'
    BY <1>1, <2>1 DEF HolderNewest, OneHolder
  <2>5. NewestKept' /\ Steady'
    BY <1>1, <2>1 DEF NewestKept, Steady, Holds
  <2> QED BY <2>2, <2>3, <2>4, <2>5
<1>2. ASSUME NEW d \in CoolFor, MarkCooldown(d)
      PROVE  RTInv'
  <2>1. acc'.rt = acc.rt /\ db'.rt = db.rt
    BY <1>2 DEF MarkCooldown, TypeOK, AccRec, RowRec
  <2> QED BY <1>1, <1>2, <2>1 DEF MarkCooldown
<1>3. CASE LockExpires
  BY <1>1, <1>3 DEF LockExpires
<1>4. CASE IndexExpires
  <2>1. rtm'.store = rtm.store /\ rtm'.index = rtm.index
    BY <1>4 DEF IndexExpires, TypeOK
  <2> QED BY <1>1, <1>4, <2>1 DEF IndexExpires
<1>5. CASE Tick
  <2>1. \A r \in Refreshers : /\ ref'[r].pc = ref[r].pc /\ ref'[r].rt = ref[r].rt
                              /\ ref'[r].newRT = ref[r].newRT
    BY <1>5 DEF Tick, TypeOK, RefRec
  <2> QED BY <1>1, <1>5, <2>1 DEF Tick
<1>6. CASE Restart
  <2>1. /\ \A r \in Refreshers : ref'[r].pc = "idle"
        /\ acc'.rt = db.rt /\ upstream' = upstream
    BY <1>6 DEF Restart, Idle, loadFromDB
  <2>2. db'.rt = db.rt /\ rtm'.store = rtm.store /\ rtm'.index = 0
    BY <1>6 DEF Restart, TypeOK, RowRec
  <2>3. upstream.rt = (IF db.rt = 0 THEN rtm.store ELSE db.rt) \/ lost'
    BY <1>6 DEF Restart
  <2>4. Kept' = IF db.rt = 0 THEN rtm.store ELSE db.rt
    BY <2>1, <2>2 DEF Kept, HasRT
  <2>5. NewestKept' /\ Steady'
    BY <2>1, <2>3, <2>4 DEF NewestKept, Steady, Kept
  <2>6. Behind'
    BY <2>1, <2>2, <2>4 DEF Behind, TypeOK
  <2>7. PathOK' /\ ReadBehind' /\ GotBehind' /\ HolderNewest' /\ OneHolder'
    BY <2>1 DEF PathOK, ReadBehind, GotBehind, HolderNewest, OneHolder, HoldPc, OAuthPcs,
       RtmPcs, ReadPcs, GotPcs
  <2> QED BY <2>5, <2>6, <2>7
<1>7. CASE UNCHANGED vars
  <2>1. rtm'.index = rtm.index /\ rtm'.store = rtm.store
    BY <1>7 DEF vars
  <2> QED BY <1>1, <1>7, <2>1 DEF vars
<1> QED BY <1>2, <1>3, <1>4, <1>5, <1>6, <1>7

\* Every step keeps the invariant.
LEMMA RTStep == RTInv /\ [Next]_vars => RTInv'
<1> SUFFICES ASSUME RTInv, [Next]_vars PROVE RTInv'
  OBVIOUS
<1>0. TypeOK'
  BY TypeStep DEF RTInv
<1>1. ASSUME NEW r \in Refreshers, RefreshStep(r)
      PROVE  RTInv'
  BY <1>0, <1>1, LockKeepsRT, ExchangeKeepsRT, StoreKeepsRT, WriteKeepsRT, RtmKeepsRT
  DEF RefreshStep
<1>2. ASSUME NEW r \in Refreshers, begin(r)
      PROVE  RTInv'
  BY <1>0, <1>2, BeginKeepsRT
<1> QED BY <1>0, <1>1, <1>2, RestKeepsRT
        DEF Next, parallelRefreshAll, RefreshSingle, Refreshers

\* Whatever refreshes race, with or without the lock, and whatever fails or restarts:
\* the refresh token that upstream still accepts is kept, or about to be kept, unless
\* an answer or a write was lost on the way.
THEOREM NewestNeverLost == Spec => []NewestKept
<1>1. RTInv => NewestKept
  BY DEF RTInv
<1> QED BY <1>1, RTInit, RTStep, PTL DEF Spec

\* The two together: types, the lock's release, and the newest refresh token.
THEOREM TokensSoundHolds == Spec => []TokensSound
<1>1. TypeOK /\ NewestKept => TokensSound
  BY DEF TokensSound
<1> QED BY <1>1, TokenTypes, NewestNeverLost, PTL

-----------------------------------------------------------------------------
(* How far ExpiresAt may be from the truth.                                *)

\* The longest promise is one of the three, and none is longer.
LEMMA Claims ==
    /\ LongestClaim \in Nat
    /\ Life <= LongestClaim /\ CacheClaim <= LongestClaim /\ WaitClaim <= LongestClaim
    /\ Margin <= CacheClaim
<1>1. \E d \in {Life, CacheClaim, WaitClaim} : \A e \in {Life, CacheClaim, WaitClaim} : e <= d
  BY Ticks
<1>2. /\ LongestClaim \in {Life, CacheClaim, WaitClaim}
      /\ \A e \in {Life, CacheClaim, WaitClaim} : e <= LongestClaim
  BY <1>1 DEF LongestClaim
<1> QED BY <1>2, Ticks, TimeAssumption

Adopting == {"adopt", "adoptWaited"}

\* Nothing was ever promised beyond the longest claim, and no token lives longer than Life.
Promised ==
    /\ acc.exp <= now + LongestClaim
    /\ cache <= now + Life
    /\ db.at <= now + Life
    /\ \A r \in Refreshers : ref[r].at <= now + Life

\* A token that is about to be adopted has still the margin to live, less the one tick
\* that the refresh may have seen pass.
Adopted ==
    \A r \in Refreshers : ref[r].pc \in Adopting =>
        ref[r].at + (IF ref[r].late THEN 1 ELSE 0) > now + Margin

\* ExpiryOffBounded is not inductive: what an adoption leaves in ExpiresAt was promised in
\* some earlier step, and the token it installs was read in one.
ExpInv == TypeOK /\ Promised /\ Adopted /\ ExpiryOffBounded

\* A step that moves refreshers on without handing them a token to adopt.
HandsNone ==
    \A b \in Refreshers : \/ ref'[b] = ref[b]
                          \/ ref'[b].pc \notin Adopting /\ ref'[b].at <= now + Life

Moves ==
    /\ now' = now
    /\ cache' <= now + Life
    /\ db'.at <= now + Life
    /\ HandsNone

\* What a refresher read or promised stays in bounds while the others move.
LEMMA MovesKeepExp ==
    ASSUME ExpInv, TypeOK', Moves, acc'.exp <= now + LongestClaim,
           acc'.exp <= acc'.at + (LongestClaim - Margin)
    PROVE  ExpInv'
<1>1. Promised'
  BY DEF ExpInv, Moves, HandsNone, Promised
<1>2. Adopted'
  BY DEF ExpInv, Moves, HandsNone, Adopted
<1> QED BY <1>1, <1>2 DEF ExpInv, ExpiryOffBounded

\* The places where a refresher has nothing to adopt.
LEMMA Elsewhere ==
    {"lock", "wait", "exchange", "store", "cache", "save", "clear", "unlock", "error", "saveError",
     "find", "put", "index"} \subseteq Pcs \ Adopting
BY DEF Pcs, Adopting

\* A refresher that goes on keeps its token.
LEMMA GoHands ==
    ASSUME ExpInv, NEW r \in Refreshers, NEW pc \in Pcs \ Adopting, go(r, pc)
    PROVE  HandsNone
<1>1. ref[r] \in RefRec /\ ref \in [Refreshers -> RefRec] /\ ref[r].at <= now + Life
  BY DEF ExpInv, Promised, TypeOK
<1>2. ref'[r].pc = pc /\ ref'[r].at = ref[r].at
  BY <1>1 DEF go, RefRec
<1>3. \A b \in Refreshers : b # r => ref'[b] = ref[b]
  BY <1>1 DEF go
<1> QED BY <1>1, <1>2, <1>3 DEF HandsNone

\* A refresher that leaves forgets its token or goes to release the lock.
LEMMA LeaveHands ==
    ASSUME ExpInv, NEW r \in Refreshers, leave(r) \/ finish(r)
    PROVE  HandsNone
<1>1. now \in Nat /\ Idle.at = 0 /\ Idle.pc = "idle"
  BY DEF ExpInv, TypeOK, Idle
<1>2. CASE ref' = [ref EXCEPT ![r] = Idle]
  BY <1>1, <1>2, Ticks DEF ExpInv, TypeOK, Adopting, HandsNone
<1>3. CASE go(r, "unlock") \/ go(r, "clear")
  BY <1>3, Elsewhere, GoHands
<1> QED BY <1>2, <1>3 DEF leave, finish

\* The steps around the refresh lock: here tokens are adopted.
LEMMA LockKeepsExp ==
    ASSUME ExpInv, TypeOK', NEW r \in Refreshers,
           \/ GetAccessToken(r) \/ AdoptCached(r) \/ AcquireRefreshLock(r)
           \/ WaitForRefreshComplete(r) \/ AdoptWaited(r) \/ ReleaseRefreshLock(r)
    PROVE  ExpInv'
<1>0. /\ now \in Nat /\ acc \in AccRec /\ cache \in Nat /\ ref[r] \in RefRec /\ acc.exp \in Nat
      /\ ref[r].at \in Nat /\ acc.at \in Nat /\ ref \in [Refreshers -> RefRec]
  BY DEF ExpInv, TypeOK, AccRec, RefRec
<1>1. ASSUME liveInCache(cache), NEW pc \in Adopting,
             ref' = [ref EXCEPT ![r].pc = pc, ![r].at = cache],
             UNCHANGED <<now, acc, db, cache>>
      PROVE  ExpInv'
  <2>1. Promised'
    BY <1>0, <1>1 DEF ExpInv, Promised, RefRec
  <2>2. Adopted'
    BY <1>0, <1>1, Ticks DEF ExpInv, Adopted, RefRec, liveInCache
  <2> QED BY <1>1, <2>1, <2>2 DEF ExpInv, ExpiryOffBounded
<1>2. ASSUME ref[r].pc \in Adopting PROVE ref[r].at >= now + Margin
  BY <1>0, <1>2, Ticks DEF ExpInv, Adopted
<1>3. CASE GetAccessToken(r)
  <2>1. ASSUME go(r, "lock") PROVE ExpInv'
    <3>1. HandsNone
      BY <2>1, Elsewhere, GoHands
    <3> QED BY <1>3, <3>1, MovesKeepExp
            DEF GetAccessToken, Moves, ExpInv, Promised, ExpiryOffBounded
  <2> QED BY <1>1, <1>3, <2>1 DEF GetAccessToken, Adopting
<1>4. CASE AdoptCached(r)
  <2>1. settled(acc, ref[r]) \in AccRec /\ settled(acc, ref[r]).exp = acc.exp
    BY <1>0, SettledType DEF settled, AccRec, RefRec
  <2>2. acc'.at = ref[r].at /\ acc'.exp = IF NeedsRefresh THEN now + CacheClaim ELSE acc.exp
    BY <1>4, <2>1 DEF AdoptCached, AccRec
  <2>3. acc'.exp <= now + LongestClaim
    BY <1>0, <2>2, Claims, Ticks DEF ExpInv, Promised
  <2>4. ref[r].at >= now + Margin
    BY <1>2, <1>4 DEF AdoptCached, Adopting
  <2>5. acc'.exp \in Nat
    BY <1>0, <2>2, Ticks
  <2>6. acc'.exp <= acc'.at + (LongestClaim - Margin)
    BY <1>0, <2>2, <2>3, <2>4, <2>5, Claims, Ticks
  <2> QED BY <1>4, <2>3, <2>6, LeaveHands, MovesKeepExp DEF AdoptCached, Moves, ExpInv, Promised
<1>5. CASE AcquireRefreshLock(r)
  <2>1. /\ now' = now /\ UNCHANGED <<acc, db, cache>>
        /\ HandsNone
    <3>1. CASE ref' = [ref EXCEPT ![r].pc = "exchange", ![r].mine = TRUE]
      <4>1. ref'[r].pc = "exchange" /\ ref'[r].at = ref[r].at /\ ref[r].at <= now + Life
        BY <1>0, <3>1 DEF RefRec, ExpInv, Promised
      <4> QED BY <1>0, <1>5, <3>1, <4>1 DEF AcquireRefreshLock, HandsNone, Adopting
    <3>2. CASE go(r, "wait")
      BY <1>5, <3>2, Elsewhere, GoHands DEF AcquireRefreshLock
    <3>3. CASE go(r, "exchange")
      BY <1>5, <3>3, Elsewhere, GoHands DEF AcquireRefreshLock
    <3> QED BY <1>5, <3>1, <3>2, <3>3 DEF AcquireRefreshLock
  <2> QED BY <2>1, MovesKeepExp DEF Moves, ExpInv, Promised, ExpiryOffBounded
<1>6. CASE WaitForRefreshComplete(r)
  <2>1. ASSUME go(r, "exchange") PROVE ExpInv'
    <3>1. HandsNone
      BY <2>1, Elsewhere, GoHands
    <3> QED BY <1>6, <3>1, MovesKeepExp
            DEF WaitForRefreshComplete, Moves, ExpInv, Promised, ExpiryOffBounded
  <2> QED BY <1>1, <1>6, <2>1 DEF WaitForRefreshComplete, Adopting
<1>7. CASE AdoptWaited(r)
  <2>1. settled(acc, ref[r]) \in AccRec
    BY <1>0, SettledType DEF settled, AccRec, RefRec
  <2>2. acc'.at = ref[r].at /\ acc'.exp = now + WaitClaim
    BY <1>7, <2>1 DEF AdoptWaited, AccRec
  <2>3. ref[r].at >= now + Margin
    BY <1>2, <1>7 DEF AdoptWaited, Adopting
  <2>4. /\ acc'.exp <= now + LongestClaim
        /\ acc'.exp <= acc'.at + (LongestClaim - Margin)
    BY <1>0, <2>2, <2>3, Claims, Ticks
  <2> QED BY <1>7, <2>4, LeaveHands, MovesKeepExp DEF AdoptWaited, Moves, ExpInv, Promised
<1>8. CASE ReleaseRefreshLock(r)
  <2>1. Idle.at = 0 /\ Idle.pc = "idle"
    BY DEF Idle
  <2>2. HandsNone
    BY <1>0, <1>8, <2>1, Ticks DEF ReleaseRefreshLock, Adopting, HandsNone
  <2> QED BY <1>8, <2>2, MovesKeepExp
          DEF ReleaseRefreshLock, Moves, ExpInv, Promised, ExpiryOffBounded
<1> QED BY <1>3, <1>4, <1>5, <1>6, <1>7, <1>8

\* An exchange brings a token that has all its life before it.
LEMMA ExchangeKeepsExp ==
    ASSUME ExpInv, TypeOK', NEW r \in Refreshers, RefreshWithRetry(r) \/ RTManagerRefresh(r)
    PROVE  ExpInv'
<1>0. /\ now \in Nat /\ ref[r] \in RefRec /\ ref \in [Refreshers -> RefRec]
      /\ ref[r].at <= now + Life /\ UNCHANGED <<now, acc, db, cache>>
  BY DEF ExpInv, TypeOK, Promised, RefreshWithRetry, RTManagerRefresh
<1>1. ASSUME NEW next \in {"store", "put"}, granted(r, next)
      PROVE  HandsNone
  BY <1>0, <1>1, Ticks DEF granted, RefRec, Adopting, HandsNone
<1>2. ASSUME ref[r].pc = "exchange", ref' = [ref EXCEPT ![r].tries = @ + 1]
      PROVE  HandsNone
  BY <1>0, <1>2 DEF RefRec, Adopting, HandsNone
<1>3. ASSUME go(r, "error")
      PROVE  HandsNone
  BY <1>3, Elsewhere, GoHands
<1>4. HandsNone
  BY <1>1, <1>2, <1>3, LeaveHands DEF RefreshWithRetry, RTManagerRefresh
<1> QED BY <1>0, <1>4, MovesKeepExp DEF Moves, ExpInv, Promised, ExpiryOffBounded

\* What a refused refresh, or one with new tokens, writes.
LEMMA WriteKeepsExp ==
    ASSUME ExpInv, TypeOK', NEW r \in Refreshers,
           \/ MarkError(r) \/ SetError(r) \/ Store(r) \/ SetAccessToken(r)
           \/ UpdateCredentials(r) \/ ClearCooldown(r)
    PROVE  ExpInv'
<1>0. /\ now \in Nat /\ acc \in AccRec /\ db \in RowRec /\ ref[r] \in RefRec /\ acc.exp \in Nat
      /\ ref[r].at \in Nat /\ acc.at \in Nat /\ ref[r].at <= now + Life
      /\ acc.exp <= now + LongestClaim /\ acc.exp <= acc.at + (LongestClaim - Margin)
      /\ cache <= now + Life /\ db.at <= now + Life
  BY DEF ExpInv, TypeOK, AccRec, RefRec, Promised, ExpiryOffBounded
<1>1. HandsNone
  BY GoHands, LeaveHands, Elsewhere
  DEF MarkError, SetError, Store, SetAccessToken, UpdateCredentials, ClearCooldown
<1>2. now' = now /\ cache' <= now + Life
  BY <1>0 DEF MarkError, SetError, Store, SetAccessToken, UpdateCredentials, ClearCooldown
<1>3. db'.at <= now + Life
  BY <1>0 DEF MarkError, SetError, Store, SetAccessToken, UpdateCredentials, ClearCooldown, RowRec
<1>4. acc'.exp <= now + LongestClaim /\ acc'.exp <= acc'.at + (LongestClaim - Margin)
  <2>1. CASE Store(r)
    <3>1. settled(acc, ref[r]) \in AccRec
      BY <1>0, SettledType DEF settled, AccRec, RefRec
    <3>2. acc'.at = ref[r].at /\ acc'.exp = ref[r].at
      BY <2>1, <3>1 DEF Store, AccRec
    <3> QED BY <1>0, <3>2, Claims, Ticks
  <2>2. CASE MarkError(r)
    BY <1>0, <2>2 DEF MarkError, AccRec
  <2> QED BY <1>0, <2>1, <2>2 DEF SetError, SetAccessToken, UpdateCredentials, ClearCooldown
<1> QED BY <1>1, <1>2, <1>3, <1>4, MovesKeepExp DEF Moves

\* The path through rt-manager touches no expiry.
LEMMA RtmKeepsExp ==
    ASSUME ExpInv, TypeOK', NEW r \in Refreshers,
           \/ ensureIndex(r) \/ InstallIndex(r) \/ Lookup(r) \/ UpdateAccount(r) \/ UpdateIndex(r)
    PROVE  ExpInv'
<1>0. /\ now \in Nat /\ ref[r] \in RefRec /\ ref \in [Refreshers -> RefRec]
      /\ ref[r].at <= now + Life /\ UNCHANGED <<now, acc, db, cache>>
  BY DEF ExpInv, TypeOK, Promised, ensureIndex, InstallIndex, Lookup, UpdateAccount, UpdateIndex
<1>1. ASSUME NEW pc \in {"install", "rtm"}, NEW rt \in Nat,
             ref' = [ref EXCEPT ![r].pc = pc, ![r].rt = rt]
      PROVE  HandsNone
  BY <1>0, <1>1 DEF RefRec, Adopting, HandsNone
<1>2. rtm.store \in Nat /\ rtm.index \in Nat
  BY DEF ExpInv, TypeOK
<1>3. HandsNone
  BY <1>1, <1>2, GoHands, LeaveHands, Elsewhere
  DEF ensureIndex, InstallIndex, Lookup, UpdateAccount, UpdateIndex
<1> QED BY <1>0, <1>3, MovesKeepExp DEF Moves, ExpInv, Promised, ExpiryOffBounded

\* Beginnings, requests, the clock and restarts.
LEMMA RestKeepsExp ==
    ASSUME ExpInv, TypeOK',
           \/ \E r \in Refreshers : begin(r)
           \/ \E d \in CoolFor : MarkCooldown(d)
           \/ LockExpires \/ IndexExpires \/ Tick \/ Restart \/ UNCHANGED vars
    PROVE  ExpInv'
<1>0. /\ now \in Nat /\ acc \in AccRec /\ db \in RowRec /\ ref \in [Refreshers -> RefRec]
      /\ acc.exp \in Nat /\ acc.at \in Nat /\ db.at \in Nat /\ cache \in Nat
      /\ acc.exp <= now + LongestClaim /\ acc.exp <= acc.at + (LongestClaim - Margin)
      /\ cache <= now + Life /\ db.at <= now + Life
  BY DEF ExpInv, TypeOK, AccRec, RowRec, Promised, ExpiryOffBounded
<1>i. Idle.at = 0 /\ Idle.pc = "idle"
  BY DEF Idle
<1>1. CASE \E r \in Refreshers : begin(r)
  <2>1. PICK r \in Refreshers : begin(r)
    BY <1>1
  <2>2. ref'[r].pc \notin Adopting /\ ref'[r].at <= now + Life
    BY <1>0, <2>1, Ticks DEF begin, Idle, Adopting
  <2>3. \A b \in Refreshers : ref'[b] = ref[b] \/ b = r
    BY <1>0, <2>1 DEF begin
  <2> QED BY <1>0, <2>1, <2>2, <2>3, MovesKeepExp DEF begin, Moves, HandsNone
<1>2. CASE \/ \E d \in CoolFor : MarkCooldown(d)
           \/ LockExpires \/ IndexExpires \/ UNCHANGED vars
  <2>1. UNCHANGED <<now, cache, ref>> /\ db'.at = db.at
    BY <1>0, <1>2 DEF MarkCooldown, LockExpires, IndexExpires, vars, RowRec
  <2>2. acc'.at = acc.at /\ acc'.exp = acc.exp
    BY <1>0, <1>2 DEF MarkCooldown, LockExpires, IndexExpires, vars, AccRec
  <2> QED BY <1>0, <2>1, <2>2, MovesKeepExp DEF Moves, HandsNone
<1>3. CASE Tick
  <2>1. /\ now' = now + 1 /\ UNCHANGED <<acc, db, cache>>
        /\ \A r \in Refreshers : /\ ~ref[r].late
                                 /\ ref'[r].at = ref[r].at /\ ref'[r].pc = ref[r].pc
                                 /\ ref'[r].late = (ref[r].pc # "idle")
    BY <1>0, <1>3 DEF Tick, RefRec
  <2>2. \A r \in Refreshers : ref[r].at \in Nat
    BY <1>0 DEF RefRec
  <2>3. Promised'
    BY <1>0, <2>1, <2>2, Claims, Ticks DEF ExpInv, Promised
  <2>4. Adopted'
    <3> SUFFICES ASSUME NEW r \in Refreshers, ref[r].pc \in Adopting
                 PROVE  ref[r].at + (IF ref[r].pc # "idle" THEN 1 ELSE 0) > now + 1 + Margin
      BY <2>1 DEF Adopted
    <3>1. ref[r].at > now + Margin
      BY <2>1, <2>2, Ticks DEF ExpInv, Adopted
    <3> QED BY <1>0, <2>2, <3>1, Ticks DEF Adopting
  <2> QED BY <1>0, <2>1, <2>3, <2>4 DEF ExpInv, ExpiryOffBounded
<1>4. CASE Restart
  <2>1. acc'.at = db.at /\ acc'.exp = db.at /\ now' = now
    BY <1>4 DEF Restart, loadFromDB
  <2>2. db'.at = db.at /\ cache' <= now + Life
    BY <1>0, <1>4, Ticks DEF Restart, RowRec
  <2>3. \A b \in Refreshers : ref'[b].pc \notin Adopting /\ ref'[b].at <= now + Life
    BY <1>0, <1>4, <1>i, Ticks DEF Restart, Adopting
  <2> QED BY <1>0, <2>1, <2>2, <2>3, Claims, Ticks, MovesKeepExp DEF Moves, HandsNone
<1> QED BY <1>1, <1>2, <1>3, <1>4

\* The invariant holds at the start.
LEMMA ExpInit == Init => ExpInv
<1> SUFFICES ASSUME Init PROVE ExpInv
  OBVIOUS
<1>1. TypeOK
  BY TypeInit
<1>2. Idle.at = 0 /\ Idle.pc = "idle"
  BY DEF Idle
<1>3. acc.exp = acc.at /\ acc.exp \in {0, Life} /\ db.at \in {0, Life}
  BY DEF Init
<1>4. now = 0 /\ cache = 0 /\ ref = [r \in Refreshers |-> Idle]
  BY DEF Init
<1> QED BY <1>1, <1>2, <1>3, <1>4, Claims, Ticks
        DEF ExpInv, Promised, Adopted, Adopting, ExpiryOffBounded

\* Every step keeps the invariant.
LEMMA ExpStep == ExpInv /\ [Next]_vars => ExpInv'
<1> SUFFICES ASSUME ExpInv, [Next]_vars PROVE ExpInv'
  OBVIOUS
<1>0. TypeOK'
  BY TypeStep DEF ExpInv
<1>1. ASSUME NEW r \in Refreshers, RefreshStep(r)
      PROVE  ExpInv'
  BY <1>0, <1>1, LockKeepsExp, ExchangeKeepsExp, WriteKeepsExp, RtmKeepsExp DEF RefreshStep
<1> QED BY <1>0, <1>1, RestKeepsExp
        DEF Next, parallelRefreshAll, RefreshSingle, Refreshers

\* Whatever tokens are stored, taken from the cache or waited for, and whenever: ExpiresAt
\* is never later than the access token's expiry by more than the longest promise less the
\* five minutes that the cache's TTL keeps (refreshAccount).
THEOREM ExpiryOffBoundedHolds == Spec => []ExpiryOffBounded
<1>1. ExpInv => ExpiryOffBounded
  BY DEF ExpInv
<1> QED BY <1>1, ExpInit, ExpStep, PTL DEF Spec
====
