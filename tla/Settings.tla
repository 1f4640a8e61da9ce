------------------------------- MODULE Settings -------------------------------
(***************************************************************************)
(* The system settings: one row in the database, the values the program    *)
(* works with, and the administrator's page that changes both (main.go,     *)
(* admin/handler.go UpdateSettings, database/postgres.go).                  *)
(*                                                                         *)
(* UpdateSettings applies the fields of a request one after another, then   *)
(* saves the whole row: most fields from memory, the three that memory does *)
(* not hold as they were stored (the administrator's secret, the Resin      *)
(* address, the rt-manager account) from reads of the row along the way.    *)
(* The thirty fields are of seven kinds here:                               *)
(*   limit     all that are saved from memory and loaded as they were saved *)
(*   retries   max_retries, of which a stored 0 is loaded as 2              *)
(*   scheduler fast_scheduler_enabled, which is saved but not loaded        *)
(*   migrate   allow_remote_migration, which needs a secret                 *)
(*   secret    admin_secret, 0 for none; it is in the row only              *)
(*   resin     resin_url and resin_platform_name, 0 for none                *)
(*   rt        rt_manager_url, _password and _enabled, 0 for none           *)
(***************************************************************************)
EXTENDS Naturals

CONSTANTS StRequests,   \* the requests to UpdateSettings
          Updates,      \* what they may ask for
          Keep          \* a field a request leaves alone

VARIABLES
    stRow,      \* the stored row
    stMem,      \* what the program works with
    stEnv,      \* ADMIN_SECRET is set in the environment
    stReq,      \* request -> its locals
    stExcused   \* since the start a read or a write of the row failed, a request was
                \* refused half-way, or two overlapped

stVars == <<stRow, stMem, stEnv, stReq, stExcused>>

\* The body of a request: overrides is model_payload_overrides, valid JSON or not.
SettingsBody == [limit : {Keep, 1, 2}, retries : {Keep, 0, 1}, scheduler : {Keep, TRUE, FALSE},
         migrate : {Keep, TRUE, FALSE}, overrides : {Keep, "bad"},
         secret : {Keep, 0, 1, 2}, resin : {Keep, 0, 1}, rt : {Keep, 0, 1}]

ASSUME UpdatesAssumption == Updates \subseteq SettingsBody

Asked(old, new) == IF new = Keep THEN old ELSE new

-----------------------------------------------------------------------------
(* The start. *)

\* What a start takes from the row: main, NewStore and NewRTManager.
Loaded(row) ==
    [limit |-> row.limit, retries |-> IF row.retries = 0 THEN 2 ELSE row.retries,
     scheduler |-> TRUE, migrate |-> row.migrate, resin |-> row.resin, rt |-> row.rt,
     decorated |-> row.resin # 0]

\* The settings of a program that cannot read its row.
Defaults == [limit |-> 1, retries |-> 0, scheduler |-> TRUE, migrate |-> FALSE,
             secret |-> 0, resin |-> 0, rt |-> 0]

NotYet == [at |-> "new"]

SettingsInit ==
    /\ stEnv \in BOOLEAN
    /\ \E secret \in {0, 1}, migrate \in BOOLEAN :
          /\ migrate => secret # 0 \/ stEnv
          /\ stRow = [Defaults EXCEPT !.retries = 1, !.secret = secret, !.migrate = migrate,
                                      !.resin = 1, !.rt = 1]
    /\ stMem = Loaded(stRow)
    /\ stReq = [r \in StRequests |-> NotYet]
    /\ stExcused = FALSE

Busy(r) == stReq[r].at \notin {"new", "done"}

\* The program stops, requests under way included, and starts again; when the row cannot
\* be read it works with the defaults.
StartAgain ==
    /\ \E ok \in BOOLEAN :
          /\ stMem' = Loaded(IF ok THEN stRow ELSE Defaults)
          /\ stExcused' = ~ok
    /\ stReq' = [r \in StRequests |-> IF Busy(r) THEN [at |-> "done"] ELSE stReq[r]]
    /\ UNCHANGED <<stRow, stEnv>>

-----------------------------------------------------------------------------
(* UpdateSettings. *)

\* GetSystemSettings, a failure of which UpdateSettings treats as an empty row.
GetSystemSettings(ok) == IF ok THEN stRow ELSE Defaults

Step(r, at) == [stReq EXCEPT ![r].at = at]

\* Mutant: the stored secret is not carried over.
SecretAsked(u, ok) == Asked(0, u.secret)

\* The secret the row will have; with one in the environment, the request's is ignored.
SecretToSave(u, ok) ==
    LET stored == GetSystemSettings(ok).secret
    IN  IF stEnv THEN stored ELSE Asked(stored, u.secret)

\* The secret to be saved, and whether there is one, are settled first.
ReadSecret(r) ==
    /\ stReq[r].at = "new"
    /\ \E u \in Updates, ok \in BOOLEAN :
          LET secret == SecretToSave(u, ok)
          IN  /\ stReq' = [stReq EXCEPT ![r] = [at |-> "fields", u |-> u, secret |-> secret,
                                                has |-> secret # 0 \/ stEnv]]
              /\ stExcused' = (stExcused \/ ~ok \/ \E q \in StRequests : Busy(q))
    /\ UNCHANGED <<stRow, stMem, stEnv>>

\* The fields that are taken as they come (clamped to their range).
ApplyFields(r) ==
    LET u == stReq[r].u IN
    /\ stReq[r].at = "fields"
    /\ stMem' = [stMem EXCEPT !.limit = Asked(@, u.limit), !.retries = Asked(@, u.retries),
                              !.scheduler = Asked(@, u.scheduler)]
    /\ stReq' = Step(r, "migrate")
    /\ UNCHANGED <<stRow, stEnv, stExcused>>

\* The request is answered 400; what it changed so far stays, unsaved.
Refuse(r) ==
    /\ stReq' = [stReq EXCEPT ![r] = [at |-> "done"]]
    /\ stExcused' = TRUE

\* Remote migration needs a secret, and is turned off when there is none.
ApplyMigration(r) ==
    LET u == stReq[r].u IN
    /\ stReq[r].at = "migrate"
    /\ \/ u.migrate = TRUE /\ ~stReq[r].has /\ Refuse(r) /\ UNCHANGED stMem
       \/ /\ u.migrate # TRUE \/ stReq[r].has
          /\ stMem' = [stMem EXCEPT !.migrate =
                         IF u.migrate = Keep /\ ~stReq[r].has THEN FALSE ELSE Asked(@, u.migrate)]
          /\ stReq' = Step(r, "overrides")
          /\ UNCHANGED stExcused
    /\ UNCHANGED <<stRow, stEnv>>

CheckOverrides(r) ==
    /\ stReq[r].at = "overrides"
    /\ \/ stReq[r].u.overrides = "bad" /\ Refuse(r)
       \/ stReq[r].u.overrides # "bad" /\ stReq' = Step(r, "resin") /\ UNCHANGED stExcused
    /\ UNCHANGED <<stRow, stMem, stEnv>>

\* The Resin address is read from the row and overridden by the request.
ApplyResin(r) ==
    LET u == stReq[r].u IN
    /\ stReq[r].at = "resin"
    /\ \E ok \in BOOLEAN :
          LET resin == Asked(GetSystemSettings(ok).resin, u.resin)
          IN  /\ stReq' = [stReq EXCEPT ![r] = [at |-> "rt", u |-> u, secret |-> @.secret,
                                                has |-> @.has, resin |-> resin]]
              /\ stMem' = [stMem EXCEPT !.resin = IF u.resin = Keep THEN @ ELSE resin]
              /\ stExcused' = (stExcused \/ ~ok)
    /\ UNCHANGED <<stRow, stEnv>>

\* Remote migration is saved as allowed only with a secret.
SavedMigration(r) == stMem.migrate /\ stReq[r].has

\* The row to be saved.
RowToSave(r, rt) ==
    [limit |-> stMem.limit, retries |-> stMem.retries, scheduler |-> stMem.scheduler,
     migrate |-> SavedMigration(r), secret |-> stReq[r].secret, resin |-> stReq[r].resin,
     rt |-> rt]

\* The rt-manager account likewise; then all the rest is read from memory.
ApplyRTManager(r) ==
    LET u == stReq[r].u IN
    /\ stReq[r].at = "rt"
    /\ \E ok \in BOOLEAN :
          LET rt == Asked(GetSystemSettings(ok).rt, u.rt)
          IN  /\ stMem' = [stMem EXCEPT !.rt = IF u.rt = Keep THEN @ ELSE rt]
              /\ stReq' = [stReq EXCEPT ![r] =
                    [at |-> "write", u |-> u, row |-> RowToSave(r, rt)]]
              /\ stExcused' = (stExcused \/ ~ok)
    /\ UNCHANGED <<stRow, stEnv>>

\* UpdateSystemSettings replaces every column of the row; a failure is only logged.
Save(r) ==
    /\ stReq[r].at = "write"
    /\ \/ stRow' = stReq[r].row /\ UNCHANGED stExcused
       \/ stExcused' = TRUE /\ UNCHANGED stRow
    /\ stReq' = [stReq EXCEPT ![r] = [at |-> "done"]]
    /\ UNCHANGED <<stMem, stEnv>>

SettingsNext ==
    \/ \E r \in StRequests :
          \/ ReadSecret(r) \/ ApplyFields(r) \/ ApplyMigration(r) \/ CheckOverrides(r)
          \/ ApplyResin(r) \/ ApplyRTManager(r) \/ Save(r)
    \/ StartAgain

SettingsSpec == SettingsInit /\ [][SettingsNext]_stVars

-----------------------------------------------------------------------------
(* Properties. *)

\* However requests overlap and reads of the row fail, the row never allows remote
\* migration without a secret to protect it (UpdateSettings: "请先设置管理密钥，再启用远程迁移").
MigrationNeedsSecret == stRow.migrate => stRow.secret # 0 \/ stEnv

\* Between requests the program works with what it would load: a restart changes
\* nothing, but for a max_retries of 0, the fast scheduler's switch and the decoration
\* of token requests, which follows the Resin address at a start only.
RestartChangesNothing ==
    ~stExcused /\ (\A r \in StRequests : ~Busy(r)) =>
        stMem = [Loaded(stRow) EXCEPT !.retries = IF stMem.retries = 0 THEN 0 ELSE @,
                                      !.scheduler = stMem.scheduler,
                                      !.decorated = stMem.decorated]

\* What is kept in the row alone is carried over by requests about other settings: the
\* secret, the Resin address and the rt-manager account change only when asked for
\* (UpdateSettings: "空字符串视为"清除密码"；非空则覆盖").
CredentialsKept ==
    [][~stExcused' =>
         \A f \in {"secret", "resin", "rt"} :
            stRow'[f] # stRow[f] => \E r \in StRequests : stReq[r].at = "write" /\ stReq[r].u[f] # Keep
      ]_stVars

\* However updates overlap, fail half way or are followed by a restart: no migration
\* without a secret, nothing in force that is not stored, no credential lost in passing
\* (MigrationNeedsSecret, RestartChangesNothing, CredentialsKept).
SettingsSound == [](MigrationNeedsSecret /\ RestartChangesNothing) /\ CredentialsKept
=============================================================================
