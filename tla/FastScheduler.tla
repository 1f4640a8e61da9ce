---------------------------- MODULE FastScheduler ----------------------------
(***************************************************************************)
(* auth.FastScheduler: one bucket per tier, each bucket sorted with the    *)
(* proven accounts in front, the position of every filed account, and the  *)
(* round-robin scan of AcquireExcluding.                                   *)
(*                                                                         *)
(* FastScheduler.mu is held during a call.  The scan is one step per entry *)
(* it visits, because the accounts it looks at are not covered by that     *)
(* mutex and change while it runs.                                         *)
(***************************************************************************)
EXTENDS Integers, Sequences, FiniteSets, Functions

CONSTANTS
    Ids,         \* database ids
    Views,       \* what fastSchedulerSnapshot may return
    Excludes,    \* accounts a retried request may rule out
    MaxChanges,  \* bound on how often accounts change
    CursorMod    \* cursors count modulo a common multiple of all bucket lengths

ASSUME IdsAssumption    == Ids \subseteq Nat /\ IsFiniteSet(Ids)
ASSUME ViewsAssumption  ==
    /\ Views \subseteq [tier : {"healthy", "warm", "risky", "banned"}, score : Int,
                        limit : Nat, proven : BOOLEAN, available : BOOLEAN]
    /\ \A v \in Views : v.tier = "banned" => ~v.available
ASSUME BoundsAssumption == Excludes \subseteq SUBSET Ids /\ MaxChanges \in Nat /\ CursorMod \in Nat \ {0}

fastSchedulerTierOrder == <<"healthy", "warm", "risky">>
BucketTiers == {"healthy", "warm", "risky"}

VARIABLES
    buckets,      \* tier -> sequence of entries
    positions,    \* id -> tier and index, or NoPosition
    provenBounds, \* tier -> length of the proven prefix
    cursors,      \* tier -> round-robin cursor of the whole bucket
    provenCurs,   \* tier -> round-robin cursor of the proven prefix
    scan,         \* the AcquireExcluding call that holds the mutex
    refused,      \* ids the current pass of that call visited in vain
    view,         \* what fastSchedulerSnapshot returns now
    fsActive,       \* Account.ActiveRequests
    changes       \* how many changes of accounts happened

filing   == <<buckets, positions, provenBounds>>
rotation == <<cursors, provenCurs>>
fsVars == <<buckets, positions, provenBounds, cursors, provenCurs, scan, refused,
          view, fsActive, changes>>

NoPosition == [tier |-> "none", index |-> 0]

\* pc: no call; about to look at tier number n; visiting a range of its bucket.
NoScan == [pc |-> "off", exclude |-> {}, n |-> 1, phase |-> "proven",
           start |-> 0, offset |-> 0, len |-> 0]

-----------------------------------------------------------------------------
(* Filing.  A scheduler is the record of its buckets, positions and bounds.    *)

Entry(a) == [id |-> a, score |-> view[a].score, proven |-> view[a].proven]

\* The order of a bucket: proven first, higher score, lower id.
Before(e, f) ==
    IF e.proven # f.proven THEN e.proven
    ELSE IF e.score = f.score THEN e.id < f.id
    ELSE e.score > f.score

\* sort.SliceStable: an entry's place is one more than the number of entries that go before it.
Sorted(s) ==
    LET ahead(i) == {j \in DOMAIN s : \/ Before(s[j], s[i])
                                      \/ ~Before(s[i], s[j]) /\ j < i}
    IN  CHOOSE t \in [DOMAIN s -> Range(s)] :
            \A i \in DOMAIN s : t[Cardinality(ahead(i)) + 1] = s[i]

countProvenEntries(entries) ==
    LET unproven == {i \in DOMAIN entries : ~entries[i].proven}
    IN  IF unproven = {} THEN Len(entries)
        ELSE (CHOOSE i \in unproven : \A j \in unproven : i <= j) - 1

Current == [buckets |-> buckets, positions |-> positions, bounds |-> provenBounds]

\* The bucket of a tier is replaced, its positions and its bound recomputed.
withBucket(s, tier, entries) ==
    [buckets   |-> [s.buckets EXCEPT ![tier] = entries],
     positions |-> [a \in Ids |->
         IF \E i \in DOMAIN entries : entries[i].id = a
         THEN [tier |-> tier, index |-> CHOOSE i \in DOMAIN entries : entries[i].id = a]
         ELSE s.positions[a]],
     bounds    |-> [s.bounds EXCEPT ![tier] = countProvenEntries(entries)]]

\* The entries without the one at i.
without(entries, i) == SubSeq(entries, 1, i - 1) \o SubSeq(entries, i + 1, Len(entries))

\* Mutant: the entries behind the removed one keep their old positions.
removeLockedKeepsPositions(s, a) ==
    LET pos == s.positions[a]
    IN  IF pos = NoPosition THEN s
        ELSE [buckets   |-> [s.buckets EXCEPT ![pos.tier] = without(@, pos.index)],
              positions |-> [s.positions EXCEPT ![a] = NoPosition],
              bounds    |-> [s.bounds EXCEPT ![pos.tier] =
                                countProvenEntries(without(s.buckets[pos.tier], pos.index))]]

removeLocked(s, a) ==
    LET pos == s.positions[a]
        t   == [s EXCEPT !.positions[a] = NoPosition]
    IN  IF pos = NoPosition THEN s
        ELSE IF pos.index \notin DOMAIN s.buckets[pos.tier] THEN t
        ELSE withBucket(t, pos.tier, without(s.buckets[pos.tier], pos.index))

fileable(a) ==
    view[a].available /\ view[a].limit > 0 /\ view[a].tier \in BucketTiers

insertLocked(s, a) ==
    LET tier == view[a].tier
    IN  IF ~fileable(a) THEN s
        ELSE withBucket(s, tier, Sorted(Append(s.buckets[tier], Entry(a))))

SetFiling(s) ==
    \E f \in {s} : /\ buckets' = f.buckets
                  /\ positions' = f.positions
                  /\ provenBounds' = f.bounds

Empty == [buckets   |-> [t \in BucketTiers |-> <<>>],
          positions |-> [a \in Ids |-> NoPosition],
          bounds    |-> [t \in BucketTiers |-> 0]]

\* Rebuild: every bucket is filled, then sorted once.
rebuilt(pool) ==
    LET members(t) == {Entry(a) : a \in {b \in pool : fileable(b) /\ view[b].tier = t}}
        listed(S) == CHOOSE s \in [1..Cardinality(S) -> S] : Range(s) = S
        bucket(t) == Sorted(listed(members(t)))
        first == withBucket(Empty, "healthy", bucket("healthy"))
        second == withBucket(first, "warm", bucket("warm"))
    IN  withBucket(second, "risky", bucket("risky"))

-----------------------------------------------------------------------------
(* Calls that file accounts. *)

Update(a) ==
    /\ scan.pc = "off"
    /\ \E s \in {removeLocked(Current, a)} : SetFiling(insertLocked(s, a))
    /\ UNCHANGED <<rotation, scan, refused, view, fsActive, changes>>

RemoveID(a) ==
    /\ scan.pc = "off"
    /\ SetFiling(removeLocked(Current, a))
    /\ UNCHANGED <<rotation, scan, refused, view, fsActive, changes>>

\* BuildFastScheduler files a copy of the pool in a new scheduler.
FsRebuild(pool) ==
    /\ scan.pc = "off"
    /\ SetFiling(rebuilt(pool))
    /\ cursors'    = [t \in BucketTiers |-> 0]
    /\ provenCurs' = [t \in BucketTiers |-> 0]
    /\ UNCHANGED <<scan, refused, view, fsActive, changes>>

-----------------------------------------------------------------------------
(* AcquireExcluding. *)

Tier(n) == fastSchedulerTierOrder[n]

AcquireBegin(exclude) ==
    /\ scan.pc = "off"
    /\ scan' = [NoScan EXCEPT !.pc = "tier", !.exclude = exclude]
    /\ refused' = {}
    /\ UNCHANGED <<filing, rotation, view, fsActive, changes>>

\* scanRangeLocked starts at the cursor and moves it on.
scanProven(n) ==
    LET t == Tier(n)
    IN  /\ scan' = [scan EXCEPT !.pc = "range", !.n = n, !.phase = "proven",
                        !.start = provenCurs[t] % provenBounds[t],
                        !.offset = 0, !.len = provenBounds[t]]
        /\ provenCurs' = [provenCurs EXCEPT ![t] = (@ + 1) % CursorMod]
        /\ UNCHANGED cursors

\* Mutant: the scan stops one entry short.
scanAllShort(n) ==
    LET t == Tier(n)
    IN  /\ scan' = [scan EXCEPT !.pc = "range", !.n = n, !.phase = "all",
                        !.start = cursors[t] % Len(buckets[t]),
                        !.offset = 0, !.len = Len(buckets[t]) - 1]
        /\ cursors' = [cursors EXCEPT ![t] = (@ + 1) % CursorMod]
        /\ UNCHANGED provenCurs

scanAll(n) ==
    LET t == Tier(n)
    IN  /\ scan' = [scan EXCEPT !.pc = "range", !.n = n, !.phase = "all",
                        !.start = cursors[t] % Len(buckets[t]),
                        !.offset = 0, !.len = Len(buckets[t])]
        /\ cursors' = [cursors EXCEPT ![t] = (@ + 1) % CursorMod]
        /\ UNCHANGED provenCurs

EnterTier ==
    /\ scan.pc = "tier"
    /\ scan.n <= 3
    /\ CASE buckets[Tier(scan.n)] = <<>> ->
                /\ scan' = [scan EXCEPT !.n = @ + 1]
                /\ UNCHANGED rotation
         [] buckets[Tier(scan.n)] # <<>> /\ provenBounds[Tier(scan.n)] > 0 -> scanProven(scan.n)
         [] OTHER -> scanAll(scan.n)
    /\ UNCHANGED <<filing, refused, view, fsActive, changes>>

\* No account found: nil.
AcquireNil ==
    /\ scan.pc = "tier"
    /\ scan.n > 3
    /\ scan' = NoScan
    /\ refused' = {}
    /\ UNCHANGED <<filing, rotation, view, fsActive, changes>>

Visited == buckets[Tier(scan.n)][((scan.start + scan.offset) % scan.len) + 1]

Stale(e) ==
    \/ view[e.id].tier # Tier(scan.n)
    \/ view[e.id].proven # e.proven
    \/ view[e.id].score # e.score

\* Mutant: one request more than the limit.
acquirableOneMore(a) ==
    view[a].available /\ view[a].limit > 0 /\ fsActive[a] <= view[a].limit

acquirable(a) ==
    view[a].available /\ view[a].limit > 0 /\ fsActive[a] < view[a].limit

Visiting == scan.pc = "range" /\ scan.offset < scan.len

SkipEntry ==
    /\ Visiting
    /\ LET e == Visited
       IN  /\ \/ e.id \in scan.exclude
              \/ ~Stale(e) /\ ~acquirable(e.id)
           /\ refused' = refused \cup {e.id}
    /\ scan' = [scan EXCEPT !.offset = @ + 1]
    /\ UNCHANGED <<filing, rotation, view, fsActive, changes>>

\* Mutant: the scan starts over without filing the stale entry again.
RefileEntryNot ==
    /\ Visiting
    /\ Visited.id \notin scan.exclude
    /\ Stale(Visited)
    /\ scan' = [NoScan EXCEPT !.pc = "tier", !.exclude = scan.exclude]
    /\ refused' = {}
    /\ UNCHANGED <<filing, rotation, view, fsActive, changes>>

\* A stale entry is filed again, or dropped, and the scan starts over.
RefileEntry ==
    /\ Visiting
    /\ LET e == Visited
       IN  /\ e.id \notin scan.exclude
           /\ Stale(e)
           /\ \E s \in {removeLocked(Current, e.id)} :
                 SetFiling(IF view[e.id].available /\ view[e.id].limit > 0
                           THEN insertLocked(s, e.id) ELSE s)
    /\ scan' = [NoScan EXCEPT !.pc = "tier", !.exclude = scan.exclude]
    /\ refused' = {}
    /\ UNCHANGED <<rotation, view, fsActive, changes>>

HandOut ==
    /\ Visiting
    /\ LET e == Visited
       IN  /\ e.id \notin scan.exclude
           /\ ~Stale(e)
           /\ acquirable(e.id)
           /\ fsActive' = [fsActive EXCEPT ![e.id] = @ + 1]
    /\ scan' = NoScan
    /\ refused' = {}
    /\ UNCHANGED <<filing, rotation, view, changes>>

EndRange ==
    /\ scan.pc = "range"
    /\ scan.offset = scan.len
    /\ IF scan.phase = "proven" THEN scanAll(scan.n)
       ELSE /\ scan' = [scan EXCEPT !.pc = "tier", !.n = @ + 1]
            /\ UNCHANGED rotation
    /\ UNCHANGED <<filing, refused, view, fsActive, changes>>

ScanStep == EnterTier \/ AcquireNil \/ SkipEntry \/ RefileEntry \/ HandOut \/ EndRange

-----------------------------------------------------------------------------
(* The accounts themselves. *)

FsRelease(a) ==
    /\ fsActive[a] > 0
    /\ fsActive' = [fsActive EXCEPT ![a] = @ - 1]
    /\ UNCHANGED <<filing, rotation, scan, refused, view, changes>>

\* TotalRequests never falls: a proven account stays proven.
Change(a) ==
    /\ changes < MaxChanges
    /\ changes' = changes + 1
    /\ \E v \in Views : /\ v # view[a]
                        /\ view[a].proven => v.proven
                        /\ view' = [view EXCEPT ![a] = v]
    /\ UNCHANGED <<filing, rotation, scan, refused, fsActive>>

-----------------------------------------------------------------------------
FsInit ==
    /\ view \in [Ids -> Views]
    /\ buckets = Empty.buckets
    /\ positions = Empty.positions
    /\ provenBounds = Empty.bounds
    /\ cursors = [t \in BucketTiers |-> 0]
    /\ provenCurs = [t \in BucketTiers |-> 0]
    /\ scan = NoScan
    /\ refused = {}
    /\ fsActive = [a \in Ids |-> 0]
    /\ changes = 0

FsNext ==
    \/ \E a \in Ids : Update(a) \/ RemoveID(a) \/ FsRelease(a) \/ Change(a)
    \/ \E pool \in SUBSET Ids : FsRebuild(pool)
    \/ \E exclude \in Excludes : AcquireBegin(exclude)
    \/ ScanStep

FsSpec == FsInit /\ [][FsNext]_fsVars

\* A call runs to its end.
FsFairSpec == FsSpec /\ WF_fsVars(ScanStep)

-----------------------------------------------------------------------------
(* Properties. *)

FsTypeOK ==
    /\ positions \in [Ids -> {NoPosition} \cup [tier : BucketTiers, index : Nat \ {0}]]
    /\ provenBounds \in [BucketTiers -> Nat]
    /\ cursors \in [BucketTiers -> 0..CursorMod - 1]
    /\ provenCurs \in [BucketTiers -> 0..CursorMod - 1]
    /\ \A t \in BucketTiers : \A e \in Range(buckets[t]) : e.id \in Ids
    /\ refused \subseteq Ids
    /\ view \in [Ids -> Views]
    /\ fsActive \in [Ids -> Nat]

\* Positions and buckets agree both ways after every sequence of inserts,
\* removals, refilings and rebuilds: removeLocked always takes out the entry it is
\* meant to, its out-of-range branch is dead, and no account is filed twice.
PositionsAgree ==
    /\ \A a \in Ids : positions[a] # NoPosition =>
         /\ positions[a].index \in DOMAIN buckets[positions[a].tier]
         /\ buckets[positions[a].tier][positions[a].index].id = a
    /\ \A t \in BucketTiers : \A i \in DOMAIN buckets[t] :
         positions[buckets[t][i].id] = [tier |-> t, index |-> i]

\* The first provenBounds entries of a bucket are its proven ones, and no bucket
\* is out of order: the first phase of a scan visits exactly the proven accounts.
ProvenFirst ==
    \A t \in BucketTiers :
        /\ \A i \in DOMAIN buckets[t] : buckets[t][i].proven <=> i <= provenBounds[t]
        /\ \A i, j \in DOMAIN buckets[t] : i < j => Before(buckets[t][i], buckets[t][j])

\* Whatever is updated, removed, rebuilt or found stale by a scan, and in whichever order:
\* the buckets, the positions and the proven prefixes describe each other, and no slot
\* is given back that was not taken (PositionsAgree, ProvenFirst).
BucketsSound == FsTypeOK /\ PositionsAgree /\ ProvenFirst

\* Filed accounts a scan must have refused before it takes tier number n.
Above(n) == UNION {{e.id : e \in Range(buckets[Tier(m)])} : m \in 1..n - 1}

\* An account is handed out only after every account filed under a higher tier,
\* and for an unproven one every proven account of its own tier, was refused in
\* the same pass; nil is returned only after all filed accounts were.  No cursor
\* value lets the round-robin step over an entry.
BestFirst ==
    [][/\ HandOut =>
            /\ Above(scan.n) \subseteq refused
            /\ \/ Visited.proven
               \/ \A e \in Range(buckets[Tier(scan.n)]) : e.proven => e.id \in refused
       /\ AcquireNil => Above(4) \subseteq refused]_fsVars

\* AcquireExcluding returns: the passes it starts over after a stale entry end,
\* however accounts change while it scans (finitely often).
AcquireReturns == scan.pc # "off" ~> scan.pc = "off"

Abstract == INSTANCE SchedulerIndex WITH
    index <- [a \in Ids |-> positions[a].tier], active <- fsActive

\* The scheduler keeps its promise to the account pool.
ImplementsIndex == Abstract!Spec

=============================================================================
