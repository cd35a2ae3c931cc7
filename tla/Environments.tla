---------------------------- MODULE Environments ----------------------------
(***************************************************************************)
(* One project's environments: the default, archiving and deleting, and    *)
(* the credential behind the stored_state method.  Server actions run      *)
(* concurrently; each of their database statements commits by itself,      *)
(* except set_default_environment, which is one transaction of two         *)
(* updates.  A worker resolves an environment with three reads.  That its  *)
(* project may be archived is a choice of the first read.                  *)
(***************************************************************************)
EXTENDS Naturals

CONSTANTS
    Envs,        \* ids an environment may get (one is never used twice)
    Requests,    \* server-action requests with more than one statement
    Names,       \* names an environment may have
    None,        \* null
    MaxMishaps   \* bound on failed calls and dead requests

ASSUME ConstantsAssumption ==
    /\ None \notin Requests \cup Envs \cup Names
    /\ MaxMishaps \in Nat

VARIABLES
    env,         \* the rows of environments
    cred,        \* the rows of credentials with their secrets, by creating request
    req,         \* the requests
    worker,      \* one worker's resolution of an environment
    dropped,     \* history: the last default was archived or deleted
    mishaps      \* how many calls failed or requests died

vars == <<env, cred, req, worker, dropped, mishaps>>

-----------------------------------------------------------------------------
(* What an admin may paste as a storage state: its JSON kind and its two   *)
(* fields.  A list has neither field.                                      *)

Field == {"list", "other", "missing"}
Texts == [json : {"object"}, cookies : Field, origins : Field]
           \cup [json : {"list", "scalar", "invalid"}, cookies : {"missing"}, origins : {"missing"}]
ASSUME NoneIsNoText == None \notin Texts

SchemaAccepts(t) ==
    /\ t.json = "object"
    /\ t.cookies = "list"
    /\ t.origins \in {"list", "missing"}

ParseAccepts(t) ==
    /\ t.json \in {"object", "list"}
    /\ t.cookies = "list"
    /\ t.origins \in {"list", "missing"}

-----------------------------------------------------------------------------

Methods == {"none", "credentials", "stored_state"}

EnvRows == [life : {"unborn", "live", "gone"}, name : Names \cup {None}, archived : BOOLEAN,
            isDefault : BOOLEAN, method : Methods, credential : Requests \cup {None}]
NoEnv(life) == [life |-> life, name |-> None, archived |-> FALSE,
                isDefault |-> FALSE, method |-> "none", credential |-> None]

CredRows == [env : Envs \cup {None}, name : Names \cup {None}, secret : Texts \cup {None}]
NoCred == [env |-> None, name |-> None, secret |-> None]

Steps == {"idle", "insert", "unset", "set", "credential", "secret", "cleanup", "attach", "done", "lost"}
ReqRows == [pc : Steps, env : Envs \cup {None}, first : BOOLEAN, others : SUBSET Envs,
            name : Names \cup {None}, cred : Requests \cup {None}, created : BOOLEAN, text : Texts \cup {None}]
Blank(step) == [pc |-> step, env |-> None, first |-> FALSE, others |-> {},
                name |-> None, cred |-> None, created |-> FALSE, text |-> None]

Resolutions == {"none", "stored_state", "unsupported", "unavailable", "no_target"}
Resolved(result) == [pc |-> "idle", env |-> None, credential |-> None, result |-> result]

TypeOK ==
    /\ env \in [Envs -> EnvRows]
    /\ cred \in [Requests -> CredRows]
    /\ req \in [Requests -> ReqRows]
    /\ worker \in [pc : {"idle", "credential", "secret"}, env : Envs \cup {None},
                   credential : Requests \cup {None}, result : Resolutions]
    /\ dropped \in BOOLEAN
    /\ mishaps \in 0..MaxMishaps
    /\ \A r \in Requests :
        /\ req[r].pc \notin {"idle", "done", "lost"} => req[r].env # None
        /\ req[r].pc \in {"secret", "cleanup", "attach"} => req[r].cred # None
    /\ worker.pc # "idle" => worker.credential # None

Live(e) == env[e].life = "live"
IsDefault(e) == Live(e) /\ env[e].isDefault
CredExists(c) == cred[c].env # None

Init ==
    /\ env = [e \in Envs |-> NoEnv("unborn")]
    /\ cred = [r \in Requests |-> NoCred]
    /\ req = [r \in Requests |-> Blank("idle")]
    /\ worker = Resolved("none")
    /\ dropped = FALSE
    /\ mishaps = 0

-----------------------------------------------------------------------------
(* set_default_environment holds the rows it has unset until it commits.   *)

LockedByAnother(r, e) == \E q \in Requests \ {r} : req[q].pc = "set" /\ e \in req[q].others
RowFree(e) == \A q \in Requests : ~(req[q].pc = "set" /\ e \in req[q].others)

(* The partial unique index on (project_id) where is_default.              *)
DefaultTaken(except) == \E d \in Envs \ except : IsDefault(d)

(* A request that has not used up its credential's id may be another one.  *)
Finish(r) == req' = [req EXCEPT ![r] = Blank(IF req[r].created THEN "done" ELSE "idle")]

(***************************************************************************)
(* createEnvironment: the count, then the insert.  An error of the count   *)
(* is not looked at: no count is taken for zero.                           *)
(***************************************************************************)
CountEnvironments(r, e) ==
    /\ req[r].pc = "idle"
    /\ env[e].life = "unborn"
    /\ \A q \in Requests : req[q].pc = "insert" => req[q].env # e
    /\ req' = [req EXCEPT ![r] = [Blank("insert") EXCEPT !.env = e, !.first = \A d \in Envs : ~Live(d)]]
    /\ UNCHANGED <<env, cred, worker, dropped, mishaps>>

CountFails(r) ==
    /\ mishaps < MaxMishaps
    /\ req[r].pc = "insert" /\ ~req[r].first
    /\ req' = [req EXCEPT ![r].first = TRUE]
    /\ mishaps' = mishaps + 1
    /\ UNCHANGED <<env, cred, worker, dropped>>

InsertEnvironment(r, n) ==
    LET e == req[r].env IN
    /\ req[r].pc = "insert"
    /\ req[r].first => \A d \in Envs : IsDefault(d) => RowFree(d)
    /\ Finish(r)
    /\ IF req[r].first /\ DefaultTaken({})
         THEN UNCHANGED <<env, dropped>>
         ELSE /\ env' = [env EXCEPT ![e] = [NoEnv("live") EXCEPT !.name = n, !.isDefault = req[r].first]]
              /\ dropped' = (dropped /\ ~req[r].first)
    /\ UNCHANGED <<cred, worker, mishaps>>

(***************************************************************************)
(* The actions of a single statement.  They wait for a row that            *)
(* set_default_environment holds.                                          *)
(***************************************************************************)
UpdateEnvironment(e, n) ==
    /\ Live(e) /\ RowFree(e)
    /\ env' = [env EXCEPT ![e].name = n]
    /\ UNCHANGED <<cred, req, worker, dropped, mishaps>>

ArchiveEnvironment(e) ==
    /\ Live(e) /\ RowFree(e)
    /\ env' = [env EXCEPT ![e].archived = TRUE, ![e].isDefault = FALSE]
    /\ dropped' = (dropped \/ IsDefault(e))
    /\ UNCHANGED <<cred, req, worker, mishaps>>

RestoreEnvironment(e) ==
    /\ Live(e) /\ RowFree(e)
    /\ env' = [env EXCEPT ![e].archived = FALSE]
    /\ UNCHANGED <<cred, req, worker, dropped, mishaps>>

(* Deleting takes the environment's credentials along (on delete cascade). *)
DeleteEnvironment(e) ==
    /\ Live(e) /\ RowFree(e)
    /\ env' = [env EXCEPT ![e] = NoEnv("gone")]
    /\ cred' = [c \in Requests |-> IF cred[c].env = e THEN NoCred ELSE cred[c]]
    /\ dropped' = (dropped \/ IsDefault(e))
    /\ UNCHANGED <<req, worker, mishaps>>

SetEnvironmentAuthMethod(e, m) ==
    /\ Live(e) /\ RowFree(e)
    /\ m \in {"none", "credentials"}
    /\ env' = [env EXCEPT ![e].method = m, ![e].credential = None]
    /\ UNCHANGED <<cred, req, worker, dropped, mishaps>>

(***************************************************************************)
(* setDefaultEnvironment.  The first update's snapshot finds the other     *)
(* default; the update waits until no open transaction holds that row and  *)
(* looks at it again; the second update meets the unique index.            *)
(***************************************************************************)
SetDefaultEnvironment(r, e) ==
    /\ req[r].pc = "idle"
    /\ Live(e)
    /\ req' = [req EXCEPT ![r] = [Blank("unset") EXCEPT !.env = e,
                                    !.others = {d \in Envs \ {e} : IsDefault(d)}]]
    /\ UNCHANGED <<env, cred, worker, dropped, mishaps>>

\* Variant: the first update commits by itself.
UnsetOthersCommits(r) ==
    /\ req[r].pc = "unset"
    /\ \A d \in req[r].others : ~LockedByAnother(r, d)
    /\ req' = [req EXCEPT ![r].pc = "set", ![r].others = {}]
    /\ env' = [d \in Envs |-> IF d \in req[r].others THEN [env[d] EXCEPT !.isDefault = FALSE] ELSE env[d]]
    /\ UNCHANGED <<cred, worker, dropped, mishaps>>

UnsetOthers(r) ==
    /\ req[r].pc = "unset"
    /\ \A d \in req[r].others : ~LockedByAnother(r, d)
    /\ req' = [req EXCEPT ![r].pc = "set", ![r].others = {d \in req[r].others : IsDefault(d)}]
    /\ UNCHANGED <<env, cred, worker, dropped, mishaps>>

(* A target deleted meanwhile is no error: the second update finds no row. *)
SetTarget(r) ==
    LET e == req[r].env
        unset == [d \in Envs |-> IF d \in req[r].others THEN [env[d] EXCEPT !.isDefault = FALSE] ELSE env[d]]
    IN
    /\ req[r].pc = "set"
    /\ ~LockedByAnother(r, e)
    /\ \A d \in Envs : IsDefault(d) => ~LockedByAnother(r, d)
    /\ Finish(r)
    /\ \/ /\ Live(e)
          /\ DefaultTaken(req[r].others \cup {e})
          /\ UNCHANGED <<env, dropped>>
       \/ /\ Live(e)
          /\ ~DefaultTaken(req[r].others \cup {e})
          /\ env' = [unset EXCEPT ![e].isDefault = TRUE]
          /\ dropped' = FALSE
       \/ /\ ~Live(e)
          /\ env' = unset
          /\ dropped' = (dropped \/ req[r].others # {})
    /\ UNCHANGED <<cred, worker, mishaps>>

(***************************************************************************)
(* saveEnvironmentStoredState.  Only a text that the schema accepts gets   *)
(* past the first line.                                                    *)
(***************************************************************************)
SaveEnvironmentStoredState(r, e, t) ==
    /\ req[r].pc = "idle"
    /\ SchemaAccepts(t)
    /\ Live(e)
    /\ req' = [req EXCEPT ![r] = [Blank(IF env[e].credential = None THEN "credential" ELSE "secret") EXCEPT
                                    !.env = e, !.name = env[e].name, !.cred = env[e].credential, !.text = t]]
    /\ UNCHANGED <<env, cred, worker, dropped, mishaps>>

NameTaken(n) == \E c \in Requests : CredExists(c) /\ cred[c].name = n

\* Variant: the new credential's id is not kept.
InsertCredentialBlindly(r) ==
    /\ req[r].pc = "credential"
    /\ IF NameTaken(req[r].name) \/ ~Live(req[r].env)
         THEN Finish(r) /\ UNCHANGED cred
         ELSE /\ cred' = [cred EXCEPT ![r] = [env |-> req[r].env, name |-> req[r].name, secret |-> None]]
              /\ req' = [req EXCEPT ![r].pc = "secret", ![r].created = TRUE]
    /\ UNCHANGED <<env, worker, dropped, mishaps>>

InsertCredential(r) ==
    /\ req[r].pc = "credential"
    /\ IF NameTaken(req[r].name) \/ ~Live(req[r].env)
         THEN Finish(r) /\ UNCHANGED cred
         ELSE /\ cred' = [cred EXCEPT ![r] = [env |-> req[r].env, name |-> req[r].name, secret |-> None]]
              /\ req' = [req EXCEPT ![r].pc = "secret", ![r].cred = r, ![r].created = TRUE]
    /\ UNCHANGED <<env, worker, dropped, mishaps>>

\* Variant: the clean-up does not ask whether the credential is new.
SecretFailedCleans(r) == req' = [req EXCEPT ![r].pc = "cleanup"]

\* Variant: no clean-up.
SecretFailedKeeps(r) == Finish(r)

(* create_credential_secret refuses a credential that is gone.             *)
SecretFailed(r) ==
    IF req[r].created THEN req' = [req EXCEPT ![r].pc = "cleanup"] ELSE Finish(r)

StoreSecret(r) ==
    LET c == req[r].cred IN
    /\ req[r].pc = "secret"
    /\ IF CredExists(c)
         THEN /\ cred' = [cred EXCEPT ![c].secret = req[r].text]
              /\ req' = [req EXCEPT ![r].pc = "attach"]
         ELSE SecretFailed(r) /\ UNCHANGED cred
    /\ UNCHANGED <<env, worker, dropped, mishaps>>

(* The call answers with an error, whether or not the secret was stored.   *)
StoreSecretFails(r) ==
    LET c == req[r].cred IN
    /\ mishaps < MaxMishaps
    /\ req[r].pc = "secret"
    /\ SecretFailed(r)
    /\ \/ UNCHANGED cred
       \/ CredExists(c) /\ cred' = [cred EXCEPT ![c].secret = req[r].text]
    /\ mishaps' = mishaps + 1
    /\ UNCHANGED <<env, worker, dropped>>

(* auth_credential_id is set to null where it pointed at the deleted row.  *)
CleanUpCredential(r) ==
    LET c == req[r].cred IN
    /\ req[r].pc = "cleanup"
    /\ cred' = [cred EXCEPT ![c] = NoCred]
    /\ env' = [e \in Envs |-> IF env[e].credential = c THEN [env[e] EXCEPT !.credential = None] ELSE env[e]]
    /\ Finish(r)
    /\ UNCHANGED <<worker, dropped, mishaps>>

(* The trigger validate_environment_auth_credential; ids of one project.   *)
ValidCredential(c) == c # None /\ CredExists(c)

(* An update that finds no environment is no error.                        *)
AttachCredential(r) ==
    LET e == req[r].env IN
    /\ req[r].pc = "attach"
    /\ RowFree(e)
    /\ Finish(r)
    /\ IF Live(e) /\ ValidCredential(req[r].cred)
         THEN env' = [env EXCEPT ![e].method = "stored_state", ![e].credential = req[r].cred]
         ELSE UNCHANGED env
    /\ UNCHANGED <<cred, worker, dropped, mishaps>>

(***************************************************************************)
(* A request of a save that ends early: its process dies, or a call is not *)
(* answered, whether or not it took effect.                                *)
(***************************************************************************)
RequestIsLost(r) ==
    /\ mishaps < MaxMishaps
    /\ req[r].pc \in {"credential", "secret", "cleanup", "attach"}
    /\ req' = [req EXCEPT ![r] = Blank("lost")]
    /\ \/ UNCHANGED cred
       \/ /\ req[r].pc = "credential"
          /\ ~NameTaken(req[r].name) /\ Live(req[r].env)
          /\ cred' = [cred EXCEPT ![r] = [env |-> req[r].env, name |-> req[r].name, secret |-> None]]
    /\ mishaps' = mishaps + 1
    /\ UNCHANGED <<env, worker, dropped>>

-----------------------------------------------------------------------------
(* A worker: loadExecutionTarget, then resolveAuthContext, which looks the *)
(* credential up before it asks for the secret.                            *)

LoadExecutionTarget(e) ==
    LET row == env[e] IN
    \E projectArchived \in BOOLEAN :
    /\ worker.pc = "idle"
    /\ worker' = IF projectArchived \/ ~Live(e) \/ row.archived THEN Resolved("no_target")
                 ELSE CASE row.method = "none" -> Resolved("none")
                        [] row.method = "credentials" -> Resolved("unsupported")
                        [] row.method = "stored_state" ->
                             IF row.credential = None THEN [Resolved("unavailable") EXCEPT !.env = e]
                             ELSE [pc |-> "credential", env |-> e, credential |-> row.credential, result |-> "none"]
    /\ UNCHANGED <<env, cred, req, dropped, mishaps>>

Unavailable == [Resolved("unavailable") EXCEPT !.env = worker.env]

LoadCredential ==
    /\ worker.pc = "credential"
    /\ worker' = IF CredExists(worker.credential) THEN [worker EXCEPT !.pc = "secret"] ELSE Unavailable
    /\ UNCHANGED <<env, cred, req, dropped, mishaps>>

LoadSecret ==
    LET secret == cred[worker.credential].secret IN
    /\ worker.pc = "secret"
    /\ worker' = IF secret # None /\ ParseAccepts(secret) THEN Resolved("stored_state") ELSE Unavailable
    /\ UNCHANGED <<env, cred, req, dropped, mishaps>>

-----------------------------------------------------------------------------

Next ==
    \/ \E r \in Requests, e \in Envs :
        \/ CountEnvironments(r, e)
        \/ SetDefaultEnvironment(r, e)
        \/ \E t \in Texts : SaveEnvironmentStoredState(r, e, t)
    \/ \E r \in Requests :
        \/ CountFails(r) \/ UnsetOthers(r) \/ SetTarget(r)
        \/ \E n \in Names : InsertEnvironment(r, n)
        \/ InsertCredential(r) \/ StoreSecret(r) \/ StoreSecretFails(r)
        \/ CleanUpCredential(r) \/ AttachCredential(r) \/ RequestIsLost(r)
    \/ \E e \in Envs :
        \/ ArchiveEnvironment(e) \/ RestoreEnvironment(e) \/ DeleteEnvironment(e)
        \/ \E n \in Names : UpdateEnvironment(e, n)
        \/ \E m \in Methods : SetEnvironmentAuthMethod(e, m)
        \/ LoadExecutionTarget(e)
    \/ LoadCredential \/ LoadSecret

Spec == Init /\ [][Next]_vars

-----------------------------------------------------------------------------
(* A project never has two default environments, and concurrent creations *)
(* and moves of the default never leave one that has environments without  *)
(* any: only archiving or deleting the default does (actions.ts:75-77, and *)
(* 001700:23-27, 34-35, "no window where a project has zero defaults").    *)
OneDefault ==
    /\ \A d, e \in Envs : IsDefault(d) /\ IsDefault(e) => d = e
    /\ (\E e \in Envs : Live(e)) /\ ~dropped => \E e \in Envs : IsDefault(e)

(* A worker that reads an environment in stored_state gets a session from  *)
(* it, whatever saves, rotations, method changes and failures ran beside   *)
(* each other and beside its three reads, as long as the environment is    *)
(* not deleted under it (actions.ts:217-223).                              *)
SavedStateIsUsed == worker.result = "unavailable" => env[worker.env].life = "gone"

(* A credential without a secret is one a request is still working on, or  *)
(* was lost with (actions.ts:369, "never leave a credential row with no    *)
(* secret behind it").                                                     *)
NoBareCredential == \A c \in Requests :
    CredExists(c) /\ cred[c].secret = None => req[c].pc \in {"secret", "cleanup", "lost"}
=============================================================================
