------------------------- MODULE EnvironmentsProofs -------------------------
(***************************************************************************)
(* Proofs about a project's environments and the credentials behind them,  *)
(* for any number of environments, requests and names, and any number of   *)
(* failed calls and dead requests.                                         *)
(***************************************************************************)
EXTENDS Environments, TLAPS

\* The id of c's credential has been used up.
Spent(c) == req[c].created \/ req[c].pc \in {"done", "lost"}

\* The request that created c may still take it back.
Unfinished(c) == req[c].created /\ req[c].pc \in {"secret", "cleanup"}

\* Environment e can be resolved with credential c.
Usable(c, e) ==
    /\ c \in Requests
    /\ cred[c].env = e
    /\ cred[c].secret # None /\ ParseAccepts(cred[c].secret)
    /\ Spent(c) /\ ~Unfinished(c)

Gone(e) == env[e].life = "gone"

\* What the requests are about: a save holds an accepted text, and from its
\* first statement on a credential of its environment.
SaveInv == \A r \in Requests :
    /\ req[r].created =>
        /\ req[r].pc \in {"secret", "cleanup", "attach"}
        /\ req[r].cred = r
        /\ CredExists(r) => cred[r].env = req[r].env
    /\ req[r].pc \in {"credential", "secret", "cleanup", "attach"} =>
        /\ req[r].env \in Envs
        /\ req[r].text # None /\ SchemaAccepts(req[r].text)
    /\ req[r].pc = "attach" \/ (req[r].pc = "secret" /\ ~req[r].created) =>
        Gone(req[r].env) \/ Usable(req[r].cred, req[r].env)
    /\ req[r].pc = "cleanup" => req[r].created

\* A request that has counted inserts an environment of its own.
InsertInv == \A r \in Requests :
    req[r].pc = "insert" =>
        /\ req[r].env \in Envs
        /\ env[req[r].env].life = "unborn"
        /\ \A q \in Requests : req[q].pc = "insert" /\ req[q].env = req[r].env => q = r

\* An environment in stored_state has a credential of its own, with a secret
\* that the worker's parser accepts.
StoredInv == \A e \in Envs :
    env[e].method = "stored_state" \/ env[e].credential # None => Usable(env[e].credential, e)

\* Credentials go with their environments, and are bare only while somebody is
\* at work on them.
CredentialInv == \A c \in Requests : CredExists(c) =>
    /\ Live(cred[c].env)
    /\ Spent(c)
    /\ cred[c].secret = None => req[c].pc \in {"secret", "cleanup", "lost"}

\* A worker between its reads can go on, unless the environment is deleted.
WorkerInv ==
    /\ worker.pc # "idle" =>
        /\ worker.env \in Envs
        /\ Gone(worker.env) \/ Usable(worker.credential, worker.env)
    /\ worker.result = "unavailable" => worker.env \in Envs /\ Gone(worker.env)

\* As long as nobody has dropped the last default, there is one if there are
\* environments, or if a request has counted some.
DefaultInv ==
    /\ \A d, e \in Envs : IsDefault(d) /\ IsDefault(e) => d = e
    /\ (\E e \in Envs : Live(e)) \/ (\E r \in Requests : req[r].pc = "insert" /\ ~req[r].first)
        => dropped \/ \E e \in Envs : IsDefault(e)

EnvironmentsInv ==
    TypeOK /\ SaveInv /\ InsertInv /\ StoredInv /\ CredentialInv /\ WorkerInv /\ DefaultInv

-----------------------------------------------------------------------------
(* The initial states, and the shapes of rows.                             *)

LEMMA NoEnvIsARow == \A life \in {"unborn", "live", "gone"} : NoEnv(life) \in EnvRows
  BY DEF NoEnv, EnvRows, Methods

LEMMA BlankIsARow == \A step \in Steps : Blank(step) \in ReqRows
  BY DEF Blank, ReqRows

LEMMA NoCredIsARow == NoCred \in CredRows
  BY DEF NoCred, CredRows

LEMMA EnvironmentsInit == Init => EnvironmentsInv
<1> SUFFICES ASSUME Init PROVE EnvironmentsInv
  OBVIOUS
<1>1. TypeOK
  <2>1. env \in [Envs -> EnvRows] /\ cred \in [Requests -> CredRows] /\ req \in [Requests -> ReqRows]
    BY NoEnvIsARow, BlankIsARow, NoCredIsARow DEF Init, Steps
  <2>2. /\ worker = [pc |-> "idle", env |-> None, credential |-> None, result |-> "none"]
        /\ dropped \in BOOLEAN
    BY DEF Init, Resolved
  <2>5. mishaps \in 0..MaxMishaps
    BY ConstantsAssumption DEF Init
  <2>3. \A r \in Requests : req[r].pc = "idle"
    BY DEF Init, Blank
  <2>4. worker \in [pc : {"idle", "credential", "secret"}, env : Envs \cup {None},
                    credential : Requests \cup {None}, result : Resolutions]
    BY <2>2 DEF Resolutions
  <2> QED
    BY <2>1, <2>2, <2>3, <2>4, <2>5 DEF TypeOK
<1>2. SaveInv /\ InsertInv
  BY DEF Init, SaveInv, InsertInv, Blank
<1>3. StoredInv /\ CredentialInv
  BY DEF Init, StoredInv, CredentialInv, NoEnv, NoCred, CredExists
<1>4. WorkerInv /\ DefaultInv
  BY DEF Init, WorkerInv, DefaultInv, Resolved, NoEnv, IsDefault, Live, Blank
<1> QED
  BY <1>1, <1>2, <1>3, <1>4 DEF EnvironmentsInv

-----------------------------------------------------------------------------
(* Types.                                                                  *)

\* Where a finished request is.
LEMMA FinishKeepsTypes ==
    ASSUME TypeOK, NEW r \in Requests, Finish(r)
    PROVE  req' \in [Requests -> ReqRows] /\ req'[r].pc \in {"done", "idle"}
             /\ \A q \in Requests \ {r} : req'[q] = req[q]
  BY BlankIsARow DEF TypeOK, Finish, Steps, Blank

LEMMA SecretIsARow ==
    ASSUME TypeOK, NEW r \in Requests
    PROVE  [cred EXCEPT ![req[r].cred].secret = req[r].text] \in [Requests -> CredRows]
<1>1. \A row \in CredRows : [row EXCEPT !.secret = req[r].text] \in CredRows
  BY DEF TypeOK, CredRows, ReqRows
<1> QED
  BY <1>1 DEF TypeOK

LEMMA TypesAreKept == ASSUME TypeOK, [Next]_vars PROVE TypeOK'
<1> USE DEF TypeOK
<1>1. CASE UNCHANGED vars
  BY <1>1 DEF vars
<1>2. ASSUME NEW r \in Requests, NEW e \in Envs, CountEnvironments(r, e) PROVE TypeOK'
  <2>1. [Blank("insert") EXCEPT !.env = e, !.first = \A d \in Envs : ~Live(d)] \in ReqRows
    BY DEF Blank, ReqRows, Steps
  <2>2. req' \in [Requests -> ReqRows] /\ req'[r].pc = "insert" /\ req'[r].env = e
    BY <1>2, <2>1 DEF CountEnvironments, Blank
  <2>3. \A q \in Requests \ {r} : req'[q] = req[q]
    BY <1>2 DEF CountEnvironments
  <2> QED
    BY <1>2, <2>2, <2>3, ConstantsAssumption DEF CountEnvironments
<1>3. ASSUME NEW r \in Requests, NEW e \in Envs, SetDefaultEnvironment(r, e) PROVE TypeOK'
  <2>1. [Blank("unset") EXCEPT !.env = e, !.others = {d \in Envs \ {e} : IsDefault(d)}] \in ReqRows
    BY DEF Blank, ReqRows, Steps
  <2> QED
    <3>1. req' \in [Requests -> ReqRows] /\ req'[r].pc = "unset" /\ req'[r].env = e
      BY <1>3, <2>1 DEF SetDefaultEnvironment, Blank
    <3>2. \A q \in Requests \ {r} : req'[q] = req[q]
      BY <1>3 DEF SetDefaultEnvironment
    <3> QED
      BY <1>3, <3>1, <3>2, ConstantsAssumption DEF SetDefaultEnvironment
<1>4. ASSUME NEW r \in Requests, NEW e \in Envs, NEW t \in Texts, SaveEnvironmentStoredState(r, e, t)
      PROVE  TypeOK'
  <2> DEFINE step == IF env[e].credential = None THEN "credential" ELSE "secret"
             row == [Blank(step) EXCEPT !.env = e, !.name = env[e].name, !.cred = env[e].credential, !.text = t]
  <2>1. row \in ReqRows /\ (row.pc = "credential" \/ row.cred # None) /\ row.pc \in {"credential", "secret"}
        /\ row.env # None
    BY ConstantsAssumption DEF Blank, ReqRows, Steps, EnvRows
  <2>2. req' \in [Requests -> ReqRows] /\ req'[r] = row /\ \A q \in Requests \ {r} : req'[q] = req[q]
    BY <1>4, <2>1 DEF SaveEnvironmentStoredState
  <2> QED
    BY <1>4, <2>1, <2>2 DEF SaveEnvironmentStoredState
<1>5. ASSUME NEW r \in Requests, CountFails(r) PROVE TypeOK'
  <2>1. [req[r] EXCEPT !.first = TRUE] \in ReqRows
    <3>1. \A row \in ReqRows : [row EXCEPT !.first = TRUE] \in ReqRows
      BY DEF ReqRows
    <3> QED
      BY <3>1
  <2>2. req' \in [Requests -> ReqRows] /\ \A q \in Requests : req'[q].pc = req[q].pc /\ req'[q].cred = req[q].cred
    BY <1>5, <2>1 DEF CountFails, ReqRows
  <2>3. mishaps' \in 0..MaxMishaps
    BY <1>5, ConstantsAssumption DEF CountFails
  <2> QED
    BY <1>5, <2>2, <2>3 DEF CountFails
<1>6. ASSUME NEW r \in Requests, UnsetOthers(r) PROVE TypeOK'
  <2>1. [req[r] EXCEPT !.pc = "set", !.others = {d \in req[r].others : IsDefault(d)}] \in ReqRows
    <3>1. \A row \in ReqRows, S \in SUBSET Envs : [row EXCEPT !.pc = "set", !.others = S] \in ReqRows
      BY DEF ReqRows, Steps
    <3>2. {d \in req[r].others : IsDefault(d)} \in SUBSET Envs
      BY DEF ReqRows
    <3> QED
      BY <3>1, <3>2
  <2>2. req' \in [Requests -> ReqRows] /\ req'[r].pc = "set" /\ \A q \in Requests \ {r} : req'[q] = req[q]
    BY <1>6, <2>1 DEF UnsetOthers, ReqRows
  <2> QED
    BY <1>6, <2>2 DEF UnsetOthers
<1>7. ASSUME NEW r \in Requests, SetTarget(r) PROVE TypeOK'
  <2> DEFINE unset == [d \in Envs |-> IF d \in req[r].others THEN [env[d] EXCEPT !.isDefault = FALSE] ELSE env[d]]
  <2>1. \A row \in EnvRows, b \in BOOLEAN : [row EXCEPT !.isDefault = b] \in EnvRows
    BY DEF EnvRows
  <2>2. unset \in [Envs -> EnvRows]
    BY <2>1
  <2>3. [unset EXCEPT ![req[r].env].isDefault = TRUE] \in [Envs -> EnvRows]
    BY <2>1, <2>2
  <2>4. env' \in [Envs -> EnvRows] /\ dropped' \in BOOLEAN
    BY <1>7, <2>2, <2>3 DEF SetTarget
  <2> QED
    BY <1>7, <2>4, FinishKeepsTypes DEF SetTarget
<1>8. ASSUME NEW r \in Requests, NEW n \in Names, InsertEnvironment(r, n) PROVE TypeOK'
  <2>1. [NoEnv("live") EXCEPT !.name = n, !.isDefault = req[r].first] \in EnvRows
    BY DEF NoEnv, EnvRows, ReqRows, Methods
  <2>2. env' \in [Envs -> EnvRows] /\ dropped' \in BOOLEAN
    <3>1. req[r].first \in BOOLEAN
      BY DEF ReqRows
    <3>2. /\ env' = env \/ env' = [env EXCEPT ![req[r].env] = [NoEnv("live") EXCEPT !.name = n, !.isDefault = req[r].first]]
          /\ dropped' = dropped \/ dropped' = (dropped /\ ~req[r].first)
      BY <1>8 DEF InsertEnvironment
    <3> QED
      BY <2>1, <3>1, <3>2
  <2> QED
    BY <1>8, <2>2, FinishKeepsTypes DEF InsertEnvironment
<1>9. ASSUME NEW r \in Requests, InsertCredential(r) PROVE TypeOK'
  <2>1. [env |-> req[r].env, name |-> req[r].name, secret |-> None] \in CredRows
    BY DEF CredRows, ReqRows
  <2>2. CASE NameTaken(req[r].name) \/ ~Live(req[r].env)
    BY <1>9, <2>2, FinishKeepsTypes DEF InsertCredential
  <2>3. CASE ~(NameTaken(req[r].name) \/ ~Live(req[r].env))
    BY <1>9, <2>1, <2>3, ConstantsAssumption DEF InsertCredential, ReqRows, Steps
  <2> QED
    BY <2>2, <2>3
<1>10. ASSUME NEW r \in Requests, StoreSecret(r) PROVE TypeOK'
  <2>1. cred' \in [Requests -> CredRows]
    BY <1>10, SecretIsARow DEF StoreSecret
  <2>2. CASE CredExists(req[r].cred)
    BY <1>10, <2>1, <2>2 DEF StoreSecret, ReqRows, Steps
  <2>3. CASE ~CredExists(req[r].cred) /\ req[r].created
    BY <1>10, <2>1, <2>3 DEF StoreSecret, SecretFailed, ReqRows, Steps
  <2>4. CASE ~CredExists(req[r].cred) /\ ~req[r].created
    BY <1>10, <2>1, <2>4, FinishKeepsTypes DEF StoreSecret, SecretFailed
  <2> QED
    BY <2>2, <2>3, <2>4
<1>11. ASSUME NEW r \in Requests, StoreSecretFails(r) PROVE TypeOK'
  <2>1. cred' \in [Requests -> CredRows] /\ mishaps' \in 0..MaxMishaps
    BY <1>11, SecretIsARow, ConstantsAssumption DEF StoreSecretFails
  <2>2. CASE req[r].created
    <3>1. [req[r] EXCEPT !.pc = "cleanup"] \in ReqRows /\ req[r].cred # None /\ req[r].env # None
      BY <1>11 DEF StoreSecretFails, ReqRows, Steps
    <3>2. /\ req' \in [Requests -> ReqRows] /\ req'[r].cred # None /\ req'[r].env # None
          /\ \A q \in Requests \ {r} : req'[q] = req[q]
      BY <1>11, <2>2, <3>1 DEF StoreSecretFails, SecretFailed, ReqRows
    <3> QED
      BY <1>11, <2>1, <3>2 DEF StoreSecretFails
  <2>3. CASE ~req[r].created
    BY <1>11, <2>1, <2>3, FinishKeepsTypes DEF StoreSecretFails, SecretFailed
  <2> QED
    BY <2>2, <2>3
<1>12. ASSUME NEW r \in Requests, CleanUpCredential(r) PROVE TypeOK'
  <2>1. env' \in [Envs -> EnvRows] /\ cred' \in [Requests -> CredRows]
    BY <1>12, NoCredIsARow DEF CleanUpCredential, EnvRows
  <2> QED
    BY <1>12, <2>1, FinishKeepsTypes DEF CleanUpCredential
<1>13. ASSUME NEW r \in Requests, AttachCredential(r) PROVE TypeOK'
  <2>1. env' \in [Envs -> EnvRows]
    BY <1>13 DEF AttachCredential, EnvRows, ReqRows, Methods
  <2> QED
    BY <1>13, <2>1, FinishKeepsTypes DEF AttachCredential
<1>14. ASSUME NEW r \in Requests, RequestIsLost(r) PROVE TypeOK'
  <2>1. [env |-> req[r].env, name |-> req[r].name, secret |-> None] \in CredRows
    BY DEF CredRows, ReqRows
  <2>2. req' \in [Requests -> ReqRows] /\ req'[r].pc = "lost" /\ \A q \in Requests \ {r} : req'[q] = req[q]
    BY <1>14, BlankIsARow DEF RequestIsLost, Blank, Steps
  <2>3. cred' \in [Requests -> CredRows] /\ mishaps' \in 0..MaxMishaps
    BY <1>14, <2>1, ConstantsAssumption DEF RequestIsLost
  <2> QED
    BY <1>14, <2>2, <2>3 DEF RequestIsLost
<1>15. ASSUME NEW e \in Envs, ArchiveEnvironment(e) \/ RestoreEnvironment(e) \/ DeleteEnvironment(e)
       PROVE  TypeOK'
  <2>1. /\ [env[e] EXCEPT !.archived = TRUE, !.isDefault = FALSE] \in EnvRows
        /\ [env[e] EXCEPT !.archived = FALSE] \in EnvRows
        /\ NoEnv("gone") \in EnvRows
    BY NoEnvIsARow DEF EnvRows
  <2>2. env' \in [Envs -> EnvRows]
    BY <1>15, <2>1 DEF ArchiveEnvironment, RestoreEnvironment, DeleteEnvironment, EnvRows
  <2>3. cred' \in [Requests -> CredRows] /\ dropped' \in BOOLEAN
    BY <1>15, NoCredIsARow DEF ArchiveEnvironment, RestoreEnvironment, DeleteEnvironment, IsDefault, Live
  <2> QED
    BY <1>15, <2>2, <2>3 DEF ArchiveEnvironment, RestoreEnvironment, DeleteEnvironment
<1>16. ASSUME NEW e \in Envs, NEW n \in Names, UpdateEnvironment(e, n) PROVE TypeOK'
  BY <1>16 DEF UpdateEnvironment, EnvRows
<1>17. ASSUME NEW e \in Envs, NEW m \in Methods, SetEnvironmentAuthMethod(e, m) PROVE TypeOK'
  <2>1. [env[e] EXCEPT !.method = m, !.credential = None] \in EnvRows
    <3>1. \A row \in EnvRows : [row EXCEPT !.method = m, !.credential = None] \in EnvRows
      BY DEF EnvRows
    <3> QED
      BY <3>1
  <2>2. env' \in [Envs -> EnvRows]
    BY <1>17, <2>1 DEF SetEnvironmentAuthMethod, EnvRows
  <2> QED
    BY <1>17, <2>2 DEF SetEnvironmentAuthMethod
<1>18. ASSUME NEW e \in Envs, LoadExecutionTarget(e) PROVE TypeOK'
  <2>1. \A result \in Resolutions, d \in Envs \cup {None} :
          [Resolved(result) EXCEPT !.env = d] = [pc |-> "idle", env |-> d, credential |-> None, result |-> result]
    BY DEF Resolved
  <2>2. env[e].method \in {"none", "credentials", "stored_state"} /\ env[e].credential \in Requests \cup {None}
    BY DEF EnvRows, Methods
  <2>3. \/ worker' \in {Resolved("no_target"), Resolved("none"), Resolved("unsupported"),
                       [pc |-> "idle", env |-> e, credential |-> None, result |-> "unavailable"]}
        \/ /\ env[e].credential # None
           /\ worker' = [pc |-> "credential", env |-> e, credential |-> env[e].credential, result |-> "none"]
    BY <1>18, <2>1, <2>2 DEF LoadExecutionTarget, Resolutions
  <2>4. worker' \in [pc : {"idle", "credential", "secret"}, env : Envs \cup {None},
                     credential : Requests \cup {None}, result : Resolutions]
    BY <2>2, <2>3 DEF Resolved, Resolutions
  <2>5. worker'.pc # "idle" => worker'.credential # None
    BY <2>3 DEF Resolved
  <2> QED
    BY <1>18, <2>4, <2>5 DEF LoadExecutionTarget
<1>19. CASE LoadCredential \/ LoadSecret
  BY <1>19 DEF LoadCredential, LoadSecret, Unavailable, Resolved, Resolutions
<1> QED
  BY <1>1, <1>2, <1>3, <1>4, <1>5, <1>6, <1>7, <1>8, <1>9, <1>10, <1>11, <1>12, <1>13, <1>14,
     <1>15, <1>16, <1>17, <1>18, <1>19
  DEF Next

-----------------------------------------------------------------------------
(* What a step does to the life of an environment and to a credential.     *)

\* Moving the default changes nothing else.
LEMMA TargetStep ==
    ASSUME TypeOK, NEW r \in Requests, SetTarget(r), NEW e \in Envs
    PROVE  /\ env'[e].life = env[e].life
           /\ env'[e].method = env[e].method
           /\ env'[e].credential = env[e].credential
<1> DEFINE unset == [d \in Envs |-> IF d \in req[r].others THEN [env[d] EXCEPT !.isDefault = FALSE] ELSE env[d]]
<1>1. \A row \in EnvRows : \A b \in BOOLEAN :
        LET new == [row EXCEPT !.isDefault = b]
        IN  new \in EnvRows /\ new.life = row.life /\ new.method = row.method /\ new.credential = row.credential
  BY DEF EnvRows
<1>2. /\ unset \in [Envs -> EnvRows] /\ unset[e].life = env[e].life
      /\ unset[e].method = env[e].method /\ unset[e].credential = env[e].credential
  BY <1>1 DEF TypeOK
<1>3. env' \in {env, unset, [unset EXCEPT ![req[r].env].isDefault = TRUE]}
  BY DEF SetTarget
<1> HIDE DEF unset
<1>4. CASE env' = [unset EXCEPT ![req[r].env].isDefault = TRUE]
  <2>1. env'[e] \in {unset[e], [unset[e] EXCEPT !.isDefault = TRUE]}
    BY <1>2, <1>4
  <2>2. [unset[e] EXCEPT !.isDefault = TRUE].life = unset[e].life
        /\ [unset[e] EXCEPT !.isDefault = TRUE].method = unset[e].method
        /\ [unset[e] EXCEPT !.isDefault = TRUE].credential = unset[e].credential
    <3>1. unset[e] \in EnvRows
      BY <1>2
    <3> QED
      BY <3>1 DEF EnvRows
  <2> QED
    BY <1>2, <2>1, <2>2
<1> QED
  BY <1>2, <1>3, <1>4

\* An environment is created by a request that has counted, and lives until it
\* is deleted, with its credentials.
LEMMA LifeSteps ==
    ASSUME TypeOK, InsertInv, [Next]_vars, NEW e \in Envs
    PROVE  /\ Live(e) => Live(e)' \/ (env'[e] = NoEnv("gone") /\ \A c \in Requests : cred'[c].env # e)
           /\ Gone(e) => Gone(e)'
           /\ env[e].life = "unborn" =>
                \/ env'[e].life = "unborn"
                \/ \E r \in Requests, n \in Names : InsertEnvironment(r, n) /\ req[r].env = e
<1> USE DEF Live, Gone
<1>1. ASSUME UNCHANGED env PROVE env'[e].life = env[e].life
  BY <1>1
<1>2. CASE env'[e].life = env[e].life
  BY <1>2
<1>3. ASSUME NEW r \in Requests, SetTarget(r) PROVE env'[e].life = env[e].life
  BY <1>3, TargetStep
<1>4. ASSUME NEW r \in Requests, NEW n \in Names, InsertEnvironment(r, n)
      PROVE  /\ env[e].life # "unborn" => env'[e].life = env[e].life
             /\ req[r].env # e => env'[e].life = env[e].life
  <2>1. env[e].life # "unborn" => e # req[r].env
    BY <1>4 DEF InsertEnvironment, InsertInv
  <2> QED
    BY <1>4, <2>1 DEF InsertEnvironment, TypeOK
<1>5. ASSUME NEW r \in Requests, CleanUpCredential(r) PROVE env'[e].life = env[e].life
  BY <1>5 DEF CleanUpCredential, TypeOK, EnvRows
<1>6. ASSUME NEW r \in Requests, AttachCredential(r) PROVE env'[e].life = env[e].life
  BY <1>6 DEF AttachCredential, TypeOK, EnvRows
<1>7. ASSUME NEW d \in Envs, ArchiveEnvironment(d) \/ RestoreEnvironment(d) PROVE env'[e].life = env[e].life
  BY <1>7 DEF ArchiveEnvironment, RestoreEnvironment, TypeOK, EnvRows
<1>8. ASSUME NEW d \in Envs, NEW n \in Names, UpdateEnvironment(d, n) PROVE env'[e].life = env[e].life
  BY <1>8 DEF UpdateEnvironment, TypeOK, EnvRows
<1>9. ASSUME NEW d \in Envs, NEW m \in Methods, SetEnvironmentAuthMethod(d, m)
      PROVE  env'[e].life = env[e].life
  BY <1>9 DEF SetEnvironmentAuthMethod, TypeOK, EnvRows
<1>10. ASSUME NEW d \in Envs, DeleteEnvironment(d)
       PROVE  \/ env'[e].life = env[e].life
              \/ Live(e) /\ env'[e] = NoEnv("gone") /\ \A c \in Requests : cred'[c].env # e
  <2>1. CASE d # e
    <3>1. env'[e] = env[e]
      BY <1>10, <2>1 DEF DeleteEnvironment, TypeOK
    <3> QED
      BY <3>1
  <2>2. CASE d = e
    <3>1. env'[e] = NoEnv("gone")
      BY <1>10, <2>2 DEF DeleteEnvironment, TypeOK
    <3>2. \A c \in Requests : cred'[c].env # e
      BY <1>10, <2>2, ConstantsAssumption DEF DeleteEnvironment, NoCred
    <3> QED
      BY <1>10, <2>2, <3>1, <3>2 DEF DeleteEnvironment
  <2> QED
    BY <2>1, <2>2
<1> QED
  BY <1>1, <1>2, <1>3, <1>4, <1>5, <1>6, <1>7, <1>8, <1>9, <1>10
  DEF Next, vars, CountEnvironments, SetDefaultEnvironment, SaveEnvironmentStoredState, CountFails,
      UnsetOthers, InsertCredential, StoreSecret, StoreSecretFails, RequestIsLost, LoadExecutionTarget,
      LoadCredential, LoadSecret, NoEnv

\* Every step is the step of one request, or of none.
LEMMA RequestSteps ==
    ASSUME [Next]_vars
    PROVE  \/ UNCHANGED req
           \/ \E r \in Requests :
                \/ \E e \in Envs : \/ CountEnvironments(r, e) \/ SetDefaultEnvironment(r, e)
                                   \/ \E t \in Texts : SaveEnvironmentStoredState(r, e, t)
                \/ CountFails(r) \/ UnsetOthers(r) \/ SetTarget(r)
                \/ \E n \in Names : InsertEnvironment(r, n)
                \/ InsertCredential(r) \/ StoreSecret(r) \/ StoreSecretFails(r)
                \/ CleanUpCredential(r) \/ AttachCredential(r) \/ RequestIsLost(r)
<1>1. CASE UNCHANGED vars
  BY <1>1 DEF vars
<1>2. CASE \E e \in Envs :
        \/ ArchiveEnvironment(e) \/ RestoreEnvironment(e) \/ DeleteEnvironment(e)
        \/ \E n \in Names : UpdateEnvironment(e, n)
        \/ \E m \in Methods : SetEnvironmentAuthMethod(e, m)
        \/ LoadExecutionTarget(e)
  BY <1>2 DEF ArchiveEnvironment, RestoreEnvironment, DeleteEnvironment, UpdateEnvironment,
              SetEnvironmentAuthMethod, LoadExecutionTarget
<1>3. CASE LoadCredential \/ LoadSecret
  BY <1>3 DEF LoadCredential, LoadSecret
<1> QED
  BY <1>1, <1>2, <1>3 DEF Next

\* One request's step leaves the other requests alone.
LEMMA OthersStay ==
    ASSUME TypeOK, NEW q \in Requests, NEW r \in Requests, r # q,
           \/ \E e \in Envs : \/ CountEnvironments(r, e) \/ SetDefaultEnvironment(r, e)
                            \/ \E t \in Texts : SaveEnvironmentStoredState(r, e, t)
           \/ CountFails(r) \/ UnsetOthers(r) \/ SetTarget(r)
           \/ \E n \in Names : InsertEnvironment(r, n)
           \/ InsertCredential(r) \/ StoreSecret(r) \/ StoreSecretFails(r)
           \/ CleanUpCredential(r) \/ AttachCredential(r) \/ RequestIsLost(r)
    PROVE  req'[q] = req[q]
<1>1. CASE \E e \in Envs : \/ CountEnvironments(r, e) \/ SetDefaultEnvironment(r, e)
                         \/ \E t \in Texts : SaveEnvironmentStoredState(r, e, t)
  BY <1>1 DEF CountEnvironments, SetDefaultEnvironment, SaveEnvironmentStoredState, TypeOK
<1>2. CASE CountFails(r) \/ UnsetOthers(r) \/ SetTarget(r) \/ \E n \in Names : InsertEnvironment(r, n)
  BY <1>2 DEF CountFails, UnsetOthers, SetTarget, InsertEnvironment, Finish, TypeOK
<1>3. CASE \/ InsertCredential(r) \/ StoreSecret(r) \/ StoreSecretFails(r)
           \/ CleanUpCredential(r) \/ AttachCredential(r) \/ RequestIsLost(r)
  BY <1>3 DEF InsertCredential, StoreSecret, StoreSecretFails, CleanUpCredential, AttachCredential,
                    RequestIsLost, Finish, SecretFailed, TypeOK
<1> QED
  BY <1>1, <1>2, <1>3

\* A credential's id is used once, and a save does not go back to taking it back.
LEMMA SpentSteps ==
    ASSUME TypeOK, SaveInv, [Next]_vars, NEW c \in Requests
    PROVE  (Spent(c) => Spent(c)') /\ (Spent(c) /\ ~Unfinished(c) => ~Unfinished(c)')
<1> USE DEF Spent, Unfinished
<1>1. CASE req'[c] = req[c]
  BY <1>1
<1>2. CASE ~Spent(c)
  BY <1>2
<1>4. ASSUME Spent(c), NEW r \in Requests,
             (\E e \in Envs : \/ CountEnvironments(r, e) \/ SetDefaultEnvironment(r, e)
                              \/ \E t \in Texts : SaveEnvironmentStoredState(r, e, t))
             \/ CountFails(r) \/ UnsetOthers(r) \/ SetTarget(r)
             \/ (\E n \in Names : InsertEnvironment(r, n)) \/ InsertCredential(r)
      PROVE  req'[c] = req[c]
  <2>1. r # c
    BY <1>4 DEF SaveInv, CountEnvironments, SetDefaultEnvironment, SaveEnvironmentStoredState, CountFails,
                UnsetOthers, SetTarget, InsertEnvironment, InsertCredential
  <2> QED
    BY <1>4, <2>1 DEF CountEnvironments, SetDefaultEnvironment, SaveEnvironmentStoredState, CountFails,
                      UnsetOthers, SetTarget, InsertEnvironment, InsertCredential, Finish, TypeOK
<1>5. ASSUME Spent(c), NEW r \in Requests,
             \/ StoreSecret(r) \/ StoreSecretFails(r)
             \/ CleanUpCredential(r) \/ AttachCredential(r) \/ RequestIsLost(r)
      PROVE  Spent(c)' /\ (~Unfinished(c) => ~Unfinished(c)')
  <2>1. CASE r # c
    <3>1. req'[c] = req[c]
      BY <1>5, <2>1 DEF StoreSecret, StoreSecretFails, CleanUpCredential, AttachCredential, RequestIsLost,
                        SecretFailed, Finish, TypeOK
    <3> QED
      BY <1>5, <3>1
  <2>2. CASE r = c
    <3>1. req[c].created
      BY <1>5, <2>2 DEF StoreSecret, StoreSecretFails, CleanUpCredential, AttachCredential, RequestIsLost
    <3>2. CASE Finish(c) \/ RequestIsLost(c)
      BY <3>1, <3>2 DEF Finish, RequestIsLost, Blank, TypeOK
    <3>3. CASE (StoreSecret(c) \/ StoreSecretFails(c)) /\ ~Finish(c)
      <4>1. req'[c].created
        BY <3>1, <3>3 DEF StoreSecret, StoreSecretFails, SecretFailed, TypeOK, ReqRows
      <4>2. Unfinished(c)
        BY <3>1, <3>3 DEF StoreSecret, StoreSecretFails
      <4> QED
        BY <4>1, <4>2
    <3> QED
      BY <1>5, <2>2, <3>2, <3>3 DEF CleanUpCredential, AttachCredential
  <2> QED
    BY <2>1, <2>2
<1> QED
  BY <1>1, <1>2, <1>4, <1>5, RequestSteps

\* What a step does to a credential: nothing; its request inserts it, for a
\* living environment; an accepted secret is stored behind it; its request
\* takes it back; or its environment is deleted.
LEMMA CredSteps ==
    ASSUME TypeOK, SaveInv, CredentialInv, [Next]_vars, NEW c \in Requests
    PROVE  \/ cred'[c] = cred[c]
           \/ /\ req[c].pc = "credential" /\ ~CredExists(c) /\ ~req[c].created
              /\ cred'[c].env = req[c].env /\ Live(req[c].env) /\ UNCHANGED env
              /\ (req'[c].pc = "secret" /\ req'[c].created) \/ req'[c].pc = "lost"
           \/ /\ CredExists(c)
              /\ cred'[c].env = cred[c].env
              /\ cred'[c].secret # None /\ ParseAccepts(cred'[c].secret)
           \/ Unfinished(c) /\ cred'[c].env = None
           \/ CredExists(c) /\ cred'[c].env = None /\ cred[c].env \in Envs /\ env'[cred[c].env].life = "gone"
<1>1. CASE UNCHANGED cred
  BY <1>1
<1>2. ASSUME NEW r \in Requests, InsertCredential(r) \/ RequestIsLost(r), ~UNCHANGED cred
      PROVE  \/ cred'[c] = cred[c]
             \/ /\ req[c].pc = "credential" /\ ~CredExists(c) /\ ~req[c].created
                /\ cred'[c].env = req[c].env /\ Live(req[c].env) /\ UNCHANGED env
                /\ (req'[c].pc = "secret" /\ req'[c].created) \/ req'[c].pc = "lost"
  <2>1. /\ cred' = [cred EXCEPT ![r] = [env |-> req[r].env, name |-> req[r].name, secret |-> None]]
        /\ req[r].pc = "credential" /\ Live(req[r].env) /\ UNCHANGED env
        /\ \/ req' = [req EXCEPT ![r].pc = "secret", ![r].cred = r, ![r].created = TRUE]
           \/ req' = [req EXCEPT ![r] = Blank("lost")]
    BY <1>2 DEF InsertCredential, RequestIsLost
  <2>2. ~req[r].created /\ ~CredExists(r)
    BY <2>1 DEF SaveInv, CredentialInv, Spent
  <2>3. (req'[r].pc = "secret" /\ req'[r].created) \/ req'[r].pc = "lost"
    BY <2>1 DEF TypeOK, ReqRows, Blank
  <2> QED
    BY <2>1, <2>2, <2>3 DEF TypeOK
<1>3. ASSUME NEW r \in Requests, StoreSecret(r) \/ StoreSecretFails(r), ~UNCHANGED cred
      PROVE  \/ cred'[c] = cred[c]
             \/ /\ CredExists(c)
                /\ cred'[c].env = cred[c].env
                /\ cred'[c].secret # None /\ ParseAccepts(cred'[c].secret)
  <2>1. /\ cred' = [cred EXCEPT ![req[r].cred].secret = req[r].text]
        /\ CredExists(req[r].cred) /\ req[r].pc = "secret"
    BY <1>3 DEF StoreSecret, StoreSecretFails
  <2>2. req[r].text # None /\ ParseAccepts(req[r].text)
    BY <2>1 DEF SaveInv, SchemaAccepts, ParseAccepts
  <2> QED
    BY <2>1, <2>2 DEF TypeOK, CredRows
<1>4. ASSUME NEW r \in Requests, CleanUpCredential(r)
      PROVE  cred'[c] = cred[c] \/ (Unfinished(c) /\ cred'[c].env = None)
  <2>1. req[r].created /\ req[r].cred = r
    BY <1>4 DEF CleanUpCredential, SaveInv
  <2> QED
    BY <1>4, <2>1 DEF CleanUpCredential, TypeOK, Unfinished, NoCred
<1>5. ASSUME NEW e \in Envs, DeleteEnvironment(e)
      PROVE  \/ cred'[c] = cred[c]
             \/ CredExists(c) /\ cred'[c].env = None /\ cred[c].env \in Envs /\ env'[cred[c].env].life = "gone"
  <2>1. CASE cred[c].env = e
    <3>1. cred'[c].env = None
      BY <1>5, <2>1 DEF DeleteEnvironment, NoCred
    <3>2. env'[e].life = "gone"
      BY <1>5 DEF DeleteEnvironment, TypeOK, NoEnv
    <3> QED
      BY <2>1, <3>1, <3>2, ConstantsAssumption DEF CredExists, Gone
  <2>2. CASE cred[c].env # e
    BY <1>5, <2>2 DEF DeleteEnvironment
  <2> QED
    BY <2>1, <2>2
<1> QED
  BY <1>1, <1>2, <1>3, <1>4, <1>5
  DEF Next, vars, CountEnvironments, SetDefaultEnvironment, SaveEnvironmentStoredState, CountFails,
      UnsetOthers, SetTarget, InsertEnvironment, AttachCredential, ArchiveEnvironment, RestoreEnvironment,
      UpdateEnvironment, SetEnvironmentAuthMethod, LoadExecutionTarget, LoadCredential, LoadSecret

\* What can be resolved stays so, until the environment is deleted.
LEMMA UsableIsStable ==
    ASSUME TypeOK, SaveInv, CredentialInv, [Next]_vars, NEW e \in Envs, NEW c, Usable(c, e)
    PROVE  Usable(c, e)' \/ Gone(e)'
<1>1. c \in Requests /\ CredExists(c) /\ cred[c].env = e /\ Spent(c) /\ ~Unfinished(c)
  BY ConstantsAssumption DEF Usable, CredExists
<1>2. Spent(c)' /\ ~Unfinished(c)'
  BY <1>1, SpentSteps
<1> QED
  BY <1>1, <1>2, CredSteps DEF Usable, Gone

LEMMA UsableIsLive ==
    ASSUME CredentialInv, NEW e \in Envs, NEW c, Usable(c, e) PROVE Live(e)
  BY ConstantsAssumption DEF Usable, CredentialInv, CredExists

-----------------------------------------------------------------------------
(* The parts of the invariant are kept.                                    *)

LEMMA SaveIsKept ==
    ASSUME TypeOK, SaveInv, StoredInv, CredentialInv, InsertInv, [Next]_vars PROVE SaveInv'
<1> DEFINE Works(r) == req[r].pc \in {"credential", "secret", "cleanup", "attach"}
           Reads(r) == req[r].pc = "attach" \/ (req[r].pc = "secret" /\ ~req[r].created)
           A(r) == req[r].created =>
                      /\ req[r].pc \in {"secret", "cleanup", "attach"}
                      /\ req[r].cred = r
                      /\ CredExists(r) => cred[r].env = req[r].env
           B(r) == Works(r) => req[r].env \in Envs /\ req[r].text # None /\ SchemaAccepts(req[r].text)
           C(r) == Reads(r) => Gone(req[r].env) \/ Usable(req[r].cred, req[r].env)
           D(r) == req[r].pc = "cleanup" => req[r].created
<1> SUFFICES ASSUME NEW q \in Requests PROVE (A(q) /\ B(q) /\ C(q) /\ D(q))'
  BY DEF SaveInv
<1>0. A(q) /\ B(q) /\ C(q) /\ D(q)
  BY DEF SaveInv
<1>1. CASE req'[q] = req[q]
  <2>1. A(q)'
    <3>1. ASSUME req[q].created, CredExists(q)' PROVE cred'[q].env = req[q].env
      BY <1>0, <1>1, <3>1, CredSteps DEF CredExists
    <3> QED
      BY <1>0, <1>1, <3>1
  <2>2. C(q)'
    BY <1>0, <1>1, UsableIsStable, LifeSteps
  <2> QED
    BY <1>0, <1>1, <2>1, <2>2
<1>2. CASE ~req'[q].created /\ req'[q].pc \notin {"credential", "secret", "cleanup", "attach"}
  BY <1>2
<1>3. ASSUME NEW e \in Envs, NEW t \in Texts, SaveEnvironmentStoredState(q, e, t)
      PROVE  (A(q) /\ B(q) /\ C(q) /\ D(q))'
  <2>1. /\ ~req'[q].created /\ req'[q].env = e /\ req'[q].text = t /\ req'[q].cred = env[e].credential
        /\ req'[q].pc = IF env[e].credential = None THEN "credential" ELSE "secret"
    BY <1>3 DEF SaveEnvironmentStoredState, Blank, TypeOK
  <2>2. env[e].credential # None => Usable(env[e].credential, e)
    BY DEF StoredInv
  <2>3. t # None /\ SchemaAccepts(t)
    BY <1>3, NoneIsNoText DEF SaveEnvironmentStoredState
  <2> QED
    BY <2>1, <2>2, <2>3, UsableIsStable
<1>4. ASSUME InsertCredential(q), ~Finish(q) PROVE (A(q) /\ B(q) /\ C(q) /\ D(q))'
  <2>1. /\ req[q].pc = "credential"
        /\ req' = [req EXCEPT ![q].pc = "secret", ![q].cred = q, ![q].created = TRUE]
        /\ cred' = [cred EXCEPT ![q] = [env |-> req[q].env, name |-> req[q].name, secret |-> None]]
    BY <1>4 DEF InsertCredential
  <2>2. /\ req'[q].pc = "secret" /\ req'[q].cred = q /\ req'[q].created
        /\ req'[q].env = req[q].env /\ req'[q].text = req[q].text
        /\ cred'[q].env = req[q].env
    BY <2>1 DEF TypeOK, ReqRows
  <2> QED
    BY <1>0, <2>1, <2>2
<1>5. ASSUME StoreSecret(q) \/ StoreSecretFails(q), ~Finish(q) PROVE (A(q) /\ B(q) /\ C(q) /\ D(q))'
  <2>1. /\ req[q].pc = "secret"
        /\ req' = [req EXCEPT ![q].pc = "cleanup"] \/ req' = [req EXCEPT ![q].pc = "attach"]
    BY <1>5 DEF StoreSecret, StoreSecretFails, SecretFailed
  <2>2. /\ req'[q].pc \in {"cleanup", "attach"}
        /\ req'[q].cred = req[q].cred /\ req'[q].created = req[q].created
        /\ req'[q].env = req[q].env /\ req'[q].text = req[q].text
    BY <2>1 DEF TypeOK, ReqRows
  <2>3. A(q)'
    <3>1. ASSUME req[q].created, CredExists(q)' PROVE cred'[q].env = req[q].env
      BY <1>0, <2>1, <3>1, CredSteps DEF CredExists
    <3> QED
      BY <1>0, <2>1, <2>2, <3>1
  <2>4. B(q)'
    BY <1>0, <2>1, <2>2
  <2>5. C(q)'
    <3>1. CASE req'[q].pc = "attach" /\ req[q].created
      <4>1. req[q].cred = q /\ CredExists(q) /\ cred' = [cred EXCEPT ![q].secret = req[q].text]
        BY <1>0, <1>5, <3>1 DEF StoreSecret, StoreSecretFails, SecretFailed, TypeOK, ReqRows
      <4>2. cred'[q].secret = req[q].text /\ cred'[q].env = req[q].env
        BY <1>0, <3>1, <4>1 DEF TypeOK, CredRows
      <4>3. req[q].text # None /\ ParseAccepts(req[q].text)
        BY <1>0, <2>1 DEF SchemaAccepts, ParseAccepts
      <4>4. Spent(q)' /\ ~Unfinished(q)'
        BY <2>2, <3>1 DEF Spent, Unfinished
      <4> QED
        BY <2>2, <4>1, <4>2, <4>3, <4>4 DEF Usable
    <3>2. CASE ~req[q].created
      BY <1>0, <2>1, <2>2, <3>2, UsableIsStable, LifeSteps
    <3>3. CASE req'[q].pc = "cleanup" /\ req[q].created
      BY <2>2, <3>3
    <3> QED
      BY <2>2, <3>1, <3>2, <3>3
  <2>6. D(q)'
    BY <1>5, <2>2 DEF StoreSecret, StoreSecretFails, SecretFailed, TypeOK, ReqRows
  <2> QED
    BY <2>3, <2>4, <2>5, <2>6
<1>6. CASE Finish(q) \/ RequestIsLost(q)
  <2>1. ~req'[q].created /\ req'[q].pc \in {"done", "idle", "lost"}
    BY <1>6 DEF Finish, RequestIsLost, Blank, TypeOK
  <2> QED
    BY <1>2, <2>1
<1>7. ASSUME NEW e \in Envs, CountEnvironments(q, e) \/ SetDefaultEnvironment(q, e)
      PROVE  ~req'[q].created /\ req'[q].pc \in {"insert", "unset"}
  <2>1. \E first \in BOOLEAN, others \in SUBSET Envs :
          \/ req'[q] = [Blank("insert") EXCEPT !.env = e, !.first = first]
          \/ req'[q] = [Blank("unset") EXCEPT !.env = e, !.others = others]
    BY <1>7 DEF CountEnvironments, SetDefaultEnvironment, TypeOK
  <2> QED
    BY <2>1 DEF Blank
<1>8. ASSUME CountFails(q) \/ UnsetOthers(q) PROVE ~req'[q].created /\ req'[q].pc \in {"insert", "set"}
  BY <1>0, <1>8 DEF CountFails, UnsetOthers, TypeOK, ReqRows
<1> QED
  BY <1>1, <1>2, <1>3, <1>4, <1>5, <1>6, <1>7, <1>8, OthersStay, RequestSteps
  DEF SetTarget, InsertEnvironment, CleanUpCredential, AttachCredential

\* A request that is to insert an environment has counted them.
LEMMA InsertRequests ==
    ASSUME TypeOK, SaveInv, [Next]_vars, NEW q \in Requests, req'[q].pc = "insert"
    PROVE  \/ /\ req[q].pc = "insert" /\ req'[q].env = req[q].env
              /\ ~req'[q].first => ~req[q].first
           \/ \E e \in Envs : CountEnvironments(q, e) /\ req'[q].env = e
<1>1. CASE req'[q] = req[q]
  BY <1>1
<1>2. ASSUME NEW e \in Envs, CountEnvironments(q, e) PROVE req'[q].env = e
  BY <1>2 DEF CountEnvironments, Blank, TypeOK
<1>3. CASE CountFails(q)
  BY <1>3 DEF CountFails, TypeOK, ReqRows
<1>4. CASE UnsetOthers(q)
  BY <1>4 DEF UnsetOthers, TypeOK, ReqRows
<1>5. CASE \E e \in Envs : SetDefaultEnvironment(q, e)
  BY <1>5 DEF SetDefaultEnvironment, TypeOK, Blank
<1>6. CASE \E e \in Envs, t \in Texts : SaveEnvironmentStoredState(q, e, t)
  BY <1>6 DEF SaveEnvironmentStoredState, TypeOK, Blank
<1>7. CASE Finish(q) \/ RequestIsLost(q)
  BY <1>7 DEF Finish, RequestIsLost, TypeOK, Blank
<1>8. CASE InsertCredential(q) /\ ~Finish(q)
  BY <1>8 DEF InsertCredential, TypeOK, ReqRows
<1>9. CASE (StoreSecret(q) \/ StoreSecretFails(q)) /\ ~Finish(q)
  BY <1>9 DEF StoreSecret, StoreSecretFails, SecretFailed, TypeOK, ReqRows
<1> QED
  BY <1>1, <1>2, <1>3, <1>4, <1>5, <1>6, <1>7, <1>8, <1>9, OthersStay, RequestSteps
  DEF SetTarget, InsertEnvironment, CleanUpCredential, AttachCredential

LEMMA InsertIsKept == ASSUME TypeOK, SaveInv, InsertInv, [Next]_vars PROVE InsertInv'
<1>2. ASSUME NEW q \in Requests, req'[q].pc = "insert"
      PROVE  req'[q].env \in Envs /\ env'[req'[q].env].life = "unborn"
  <2>1. CASE req[q].pc = "insert" /\ req'[q].env = req[q].env
    <3>1. ASSUME NEW r \in Requests, NEW n \in Names, InsertEnvironment(r, n), req[r].env = req[q].env
          PROVE  FALSE
      <4>1. r = q
        BY <2>1, <3>1 DEF InsertEnvironment, InsertInv
      <4> QED
        BY <1>2, <3>1, <4>1 DEF InsertEnvironment, Finish, Blank, TypeOK
    <3> QED
      BY <2>1, <3>1, LifeSteps DEF InsertInv
  <2>2. ASSUME NEW e \in Envs, CountEnvironments(q, e), req'[q].env = e
        PROVE  req'[q].env \in Envs /\ env'[req'[q].env].life = "unborn"
    BY <2>2 DEF CountEnvironments
  <2> QED
    BY <1>2, <2>1, <2>2, InsertRequests
<1>3. ASSUME NEW q \in Requests, NEW r \in Requests,
             req'[q].pc = "insert", req'[r].pc = "insert", req'[r].env = req'[q].env, r # q
      PROVE  FALSE
  <2>1. ASSUME NEW p \in Requests, NEW o \in Requests, p # o, NEW e \in Envs, CountEnvironments(p, e),
               req'[p].env = e, req'[o].env = e, req'[o].pc = "insert"
        PROVE  FALSE
    <3>1. req'[o] = req[o]
      BY <2>1 DEF CountEnvironments, TypeOK
    <3> QED
      BY <2>1, <3>1 DEF CountEnvironments
  <2>2. CASE req[q].pc = "insert" /\ req'[q].env = req[q].env /\ req[r].pc = "insert" /\ req'[r].env = req[r].env
    BY <1>3, <2>2 DEF InsertInv
  <2> QED
    BY <1>3, <2>1, <2>2, InsertRequests
<1> QED
  BY <1>2, <1>3 DEF InsertInv

\* What a step does to the credential an environment points at.
LEMMA PointerSteps ==
    ASSUME TypeOK, SaveInv, StoredInv, [Next]_vars, NEW e \in Envs
    PROVE  \/ env'[e].method = env[e].method /\ env'[e].credential = env[e].credential
           \/ env'[e].method # "stored_state" /\ env'[e].credential = None
           \/ \E r \in Requests :
                /\ req[r].pc = "attach" /\ req[r].env = e /\ Live(e)
                /\ env'[e].credential = req[r].cred
<1> DEFINE Same == env'[e].method = env[e].method /\ env'[e].credential = env[e].credential
           Clear == env'[e].method # "stored_state" /\ env'[e].credential = None
<1>1. CASE UNCHANGED env
  BY <1>1
<1>2. ASSUME NEW r \in Requests, SetTarget(r) PROVE Same
  BY <1>2, TargetStep
<1>3. ASSUME NEW r \in Requests, NEW n \in Names, InsertEnvironment(r, n) PROVE Same \/ Clear
  <2>1. env' = env \/ env' = [env EXCEPT ![req[r].env] = [NoEnv("live") EXCEPT !.name = n, !.isDefault = req[r].first]]
    BY <1>3 DEF InsertEnvironment
  <2> QED
    BY <2>1 DEF TypeOK, NoEnv
<1>4. ASSUME NEW r \in Requests, CleanUpCredential(r) PROVE Same
  <2>1. req[r].cred = r /\ Unfinished(r)
    BY <1>4 DEF CleanUpCredential, SaveInv, Unfinished
  <2>2. env[e].credential # r
    BY <2>1, ConstantsAssumption DEF StoredInv, Usable
  <2> QED
    BY <1>4, <2>1, <2>2 DEF CleanUpCredential
<1>5. ASSUME NEW r \in Requests, AttachCredential(r)
      PROVE  Same \/ (/\ req[r].pc = "attach" /\ req[r].env = e /\ Live(e)
                      /\ env'[e].credential = req[r].cred)
  BY <1>5 DEF AttachCredential, TypeOK, EnvRows
<1>6. ASSUME NEW d \in Envs, ArchiveEnvironment(d) PROVE Same
  BY <1>6 DEF ArchiveEnvironment, TypeOK, EnvRows
<1>7. ASSUME NEW d \in Envs, RestoreEnvironment(d) PROVE Same
  BY <1>7 DEF RestoreEnvironment, TypeOK, EnvRows
<1>8. ASSUME NEW d \in Envs, NEW n \in Names, UpdateEnvironment(d, n) PROVE Same
  BY <1>8 DEF UpdateEnvironment, TypeOK, EnvRows
<1>9. ASSUME NEW d \in Envs, NEW m \in Methods, SetEnvironmentAuthMethod(d, m) PROVE Same \/ Clear
  BY <1>9 DEF SetEnvironmentAuthMethod, TypeOK, EnvRows
<1>10. ASSUME NEW d \in Envs, DeleteEnvironment(d) PROVE Same \/ Clear
  BY <1>10 DEF DeleteEnvironment, TypeOK, NoEnv
<1> QED
  BY <1>1, <1>2, <1>3, <1>4, <1>5, <1>6, <1>7, <1>8, <1>9, <1>10
  DEF Next, vars, CountEnvironments, SetDefaultEnvironment, SaveEnvironmentStoredState, CountFails,
      UnsetOthers, InsertCredential, StoreSecret, StoreSecretFails, RequestIsLost, LoadExecutionTarget,
      LoadCredential, LoadSecret

LEMMA StoredIsKept ==
    ASSUME TypeOK, SaveInv, InsertInv, StoredInv, CredentialInv, [Next]_vars PROVE StoredInv'
<1> SUFFICES ASSUME NEW e \in Envs, env'[e].method = "stored_state" \/ env'[e].credential # None
             PROVE  Usable(env[e].credential, e)'
  BY DEF StoredInv
<1>1. ASSUME NEW c, Usable(c, e) PROVE Usable(c, e)'
  <2>1. env'[e] # NoEnv("gone")
    BY DEF NoEnv
  <2> QED
    BY <1>1, <2>1, UsableIsLive, UsableIsStable, LifeSteps DEF Live, Gone
<1>2. CASE env'[e].method = env[e].method /\ env'[e].credential = env[e].credential
  BY <1>1, <1>2 DEF StoredInv
<1>3. ASSUME NEW r \in Requests, req[r].pc = "attach", req[r].env = e, Live(e), env'[e].credential = req[r].cred
      PROVE  Usable(env[e].credential, e)'
  <2>1. Usable(req[r].cred, e)
    BY <1>3 DEF SaveInv, Live, Gone
  <2> QED
    BY <1>1, <1>3, <2>1
<1> QED
  BY <1>2, <1>3, PointerSteps

LEMMA CredentialIsKept ==
    ASSUME TypeOK, SaveInv, InsertInv, CredentialInv, [Next]_vars PROVE CredentialInv'
<1> SUFFICES ASSUME NEW c \in Requests, CredExists(c)'
             PROVE  /\ Live(cred[c].env)'
                    /\ Spent(c)'
                    /\ cred'[c].secret = None => req'[c].pc \in {"secret", "cleanup", "lost"}
  BY DEF CredentialInv
<1> DEFINE Inserted == /\ req[c].pc = "credential"
                       /\ cred'[c].env = req[c].env /\ Live(req[c].env) /\ UNCHANGED env
                       /\ (req'[c].pc = "secret" /\ req'[c].created) \/ req'[c].pc = "lost"
<1>1. \/ Inserted
      \/ /\ CredExists(c) /\ cred'[c].env = cred[c].env
         /\ cred'[c] = cred[c] \/ cred'[c].secret # None
  BY CredSteps DEF CredExists
<1>2. CASE Inserted
  BY <1>2 DEF Live, Spent
<1>3. ASSUME CredExists(c), cred'[c].env = cred[c].env PROVE Live(cred[c].env)' /\ Spent(c)'
  <2>1. cred[c].env \in Envs /\ Live(cred[c].env) /\ Spent(c)
    BY <1>3 DEF TypeOK, CredRows, CredExists, CredentialInv
  <2>2. env'[cred[c].env].life = "live"
    BY <1>3, <2>1, LifeSteps DEF Live
  <2> QED
    BY <1>3, <2>1, <2>2, SpentSteps DEF Live
<1>4. ASSUME CredExists(c), cred'[c] = cred[c], cred[c].secret = None
      PROVE  req'[c].pc \in {"secret", "cleanup", "lost"}
  <2>1. req[c].pc = "lost" \/ Unfinished(c)
    BY <1>4 DEF CredentialInv, Spent, Unfinished
  <2>2. CASE req'[c] = req[c]
    BY <2>1, <2>2 DEF Unfinished
  <2>3. ~StoreSecret(c)
    <3>1. ASSUME StoreSecret(c) PROVE FALSE
      <4>1. req[c].cred = c /\ req[c].text # None
        BY <2>1, <3>1 DEF StoreSecret, SaveInv, Unfinished
      <4> QED
        BY <1>4, <3>1, <4>1 DEF StoreSecret, TypeOK, CredRows
    <3> QED
      BY <3>1
  <2>4. CASE StoreSecretFails(c)
    BY <2>1, <2>4 DEF StoreSecretFails, SecretFailed, Unfinished, TypeOK, ReqRows
  <2>5. ~CleanUpCredential(c)
    <3>1. ASSUME CleanUpCredential(c) PROVE FALSE
      <4>1. req[c].cred = c
        BY <2>1, <3>1 DEF CleanUpCredential, SaveInv, Unfinished
      <4> QED
        BY <1>4, <3>1, <4>1 DEF CleanUpCredential, TypeOK, NoCred, CredExists
    <3> QED
      BY <3>1
  <2>6. CASE RequestIsLost(c)
    BY <2>6 DEF RequestIsLost, Blank, TypeOK
  <2>7. req[c].pc \in {"secret", "cleanup", "lost"}
    BY <2>1 DEF Unfinished
  <2>8. ASSUME NEW e \in Envs
        PROVE  /\ ~CountEnvironments(c, e) /\ ~SetDefaultEnvironment(c, e)
               /\ \A t \in Texts : ~SaveEnvironmentStoredState(c, e, t)
    BY <2>7 DEF CountEnvironments, SetDefaultEnvironment, SaveEnvironmentStoredState
  <2>9. /\ ~CountFails(c) /\ ~UnsetOthers(c) /\ ~SetTarget(c) /\ ~InsertCredential(c) /\ ~AttachCredential(c)
        /\ \A n \in Names : ~InsertEnvironment(c, n)
    BY <2>7 DEF CountFails, UnsetOthers, SetTarget, InsertCredential, AttachCredential, InsertEnvironment
  <2> QED
    BY <2>2, <2>3, <2>4, <2>5, <2>6, <2>7, <2>8, <2>9, OthersStay, RequestSteps
<1> QED
  BY <1>1, <1>2, <1>3, <1>4

LEMMA WorkerIsKept ==
    ASSUME TypeOK, SaveInv, InsertInv, StoredInv, CredentialInv, WorkerInv, [Next]_vars PROVE WorkerInv'
<1>1. CASE UNCHANGED worker
  BY <1>1, UsableIsStable, LifeSteps DEF WorkerInv, TypeOK
<1>2. ASSUME NEW e \in Envs, LoadExecutionTarget(e) PROVE WorkerInv'
  <2>1. CASE worker' = [pc |-> "credential", env |-> e, credential |-> env[e].credential, result |-> "none"]
    <3>1. env[e].credential # None => Usable(env[e].credential, e)
      BY DEF StoredInv
    <3>2. env[e].method = "stored_state"
      <4>1. worker'.pc = "credential"
        BY <2>1
      <4>2. env[e].method \in Methods
        BY DEF TypeOK, EnvRows
      <4> QED
        BY <1>2, <4>1, <4>2 DEF LoadExecutionTarget, Resolved, Methods
    <3>3. Usable(env[e].credential, e)
      BY <3>2 DEF StoredInv
    <3>4. UNCHANGED <<env, cred, req>>
      BY <1>2 DEF LoadExecutionTarget
    <3> QED
      BY <2>1, <3>3, <3>4 DEF WorkerInv, Usable, Gone, Spent, Unfinished
  <2>2. CASE \E result \in {"none", "unsupported", "no_target"} : worker' = Resolved(result)
    BY <2>2 DEF WorkerInv, Resolved
  <2>3. CASE env[e].method = "stored_state" /\ env[e].credential = None
    BY <2>3, ConstantsAssumption DEF StoredInv, Usable
  <2>4. env[e].method \in Methods
    BY DEF TypeOK, EnvRows
  <2> QED
    <3>1. CASE worker' = Resolved("no_target")
      BY <2>2, <3>1
    <3>2. CASE worker' # Resolved("no_target") /\ env[e].method = "none"
      <4>1. worker' = Resolved("none")
        BY <1>2, <3>2 DEF LoadExecutionTarget, Resolved
      <4> QED
        BY <2>2, <4>1
    <3>3. CASE worker' # Resolved("no_target") /\ env[e].method = "credentials"
      <4>1. worker' = Resolved("unsupported")
        BY <1>2, <3>3 DEF LoadExecutionTarget, Resolved
      <4> QED
        BY <2>2, <4>1
    <3>4. CASE worker' # Resolved("no_target") /\ env[e].method = "stored_state" /\ env[e].credential # None
      <4>1. worker' = [pc |-> "credential", env |-> e, credential |-> env[e].credential, result |-> "none"]
        BY <1>2, <3>4 DEF LoadExecutionTarget
      <4> QED
        BY <2>1, <4>1
    <3> QED
      BY <2>3, <2>4, <3>1, <3>2, <3>3, <3>4 DEF Methods
<1>3. ASSUME LoadCredential \/ LoadSecret PROVE WorkerInv'
  <2>1. /\ worker.env \in Envs
        /\ Gone(worker.env) \/ (CredExists(worker.credential) /\ Usable(worker.credential, worker.env))
        /\ UNCHANGED <<env, cred, req>>
    BY <1>3, ConstantsAssumption DEF LoadCredential, LoadSecret, WorkerInv, Usable, CredExists
  <2>2. CASE worker' = Unavailable /\ Gone(worker.env)
    BY <2>1, <2>2 DEF WorkerInv, Unavailable, Resolved, Gone
  <2>3. CASE worker' = Resolved("stored_state")
    BY <2>3 DEF WorkerInv, Resolved
  <2>4. CASE worker' = [worker EXCEPT !.pc = "secret"]
    <3>1. worker'.env = worker.env /\ worker'.credential = worker.credential /\ worker'.result = worker.result
      BY <2>4 DEF TypeOK
    <3> QED
      BY <2>1, <3>1 DEF WorkerInv, Usable, Gone, Spent, Unfinished
  <2> QED
    BY <1>3, <2>1, <2>2, <2>3, <2>4 DEF LoadCredential, LoadSecret, Usable
<1> QED
  BY <1>1, <1>2, <1>3
  DEF Next, vars, CountEnvironments, SetDefaultEnvironment, SaveEnvironmentStoredState, CountFails,
      UnsetOthers, SetTarget, InsertEnvironment, InsertCredential, StoreSecret, StoreSecretFails,
      CleanUpCredential, AttachCredential, RequestIsLost, ArchiveEnvironment, RestoreEnvironment,
      DeleteEnvironment, UpdateEnvironment, SetEnvironmentAuthMethod

\* What a step does to the default: nothing, it is dropped, or it is taken by
\* an environment while there is no other one.
LEMMA DefaultSteps ==
    ASSUME TypeOK, SaveInv, InsertInv, [Next]_vars
    PROVE  \/ dropped' = dropped /\ \A e \in Envs : IsDefault(e)' = IsDefault(e)
           \/ dropped' /\ \A e \in Envs : IsDefault(e)' => IsDefault(e)
           \/ \E e \in Envs : IsDefault(e)' /\ \A d \in Envs \ {e} : ~IsDefault(d)'
<1> DEFINE Same == dropped' = dropped /\ \A e \in Envs : IsDefault(e)' = IsDefault(e)
           Drop == dropped' /\ \A e \in Envs : IsDefault(e)' => IsDefault(e)
           Take == \E e \in Envs : IsDefault(e)' /\ \A d \in Envs \ {e} : ~IsDefault(d)'
<1> USE DEF IsDefault, Live
<1>1. CASE UNCHANGED <<env, dropped>>
  BY <1>1
<1>2. ASSUME NEW r \in Requests, NEW n \in Names, InsertEnvironment(r, n) PROVE Same \/ Take
  <2> DEFINE e == req[r].env
             row == [NoEnv("live") EXCEPT !.name = n, !.isDefault = req[r].first]
  <2>1. e \in Envs /\ env[e].life = "unborn"
    BY <1>2 DEF InsertEnvironment, InsertInv
  <2>2. row.life = "live" /\ row.isDefault = req[r].first
    BY DEF NoEnv
  <2>3. CASE req[r].first /\ ~DefaultTaken({})
    <3>1. env' = [env EXCEPT ![e] = row]
      BY <1>2, <2>3 DEF InsertEnvironment
    <3> QED
      BY <2>1, <2>2, <2>3, <3>1 DEF DefaultTaken, TypeOK
  <2>4. CASE ~req[r].first
    <3>1. env' = [env EXCEPT ![e] = row] /\ dropped' = dropped
      BY <1>2, <2>4 DEF InsertEnvironment, TypeOK
    <3> QED
      BY <2>1, <2>2, <2>4, <3>1 DEF TypeOK
  <2> QED
    BY <1>1, <1>2, <2>3, <2>4 DEF InsertEnvironment
<1>3. ASSUME NEW r \in Requests, SetTarget(r) PROVE Same \/ Take \/ Drop
  <2>0. PICK e \in Envs : e = req[r].env
    <3>1. req[r].pc = "set"
      BY <1>3 DEF SetTarget
    <3> QED
      BY <3>1 DEF TypeOK, ReqRows
  <2> DEFINE unset == [d \in Envs |-> IF d \in req[r].others THEN [env[d] EXCEPT !.isDefault = FALSE] ELSE env[d]]
  <2>1. /\ \A d \in Envs : unset[d].life = env[d].life
        /\ \A d \in Envs : unset[d].isDefault = (d \notin req[r].others /\ env[d].isDefault)
    BY DEF TypeOK, EnvRows
  <2>2. CASE Live(e) /\ ~DefaultTaken(req[r].others \cup {e}) /\ env' = [unset EXCEPT ![e].isDefault = TRUE]
    <3>1. \A d \in Envs \ {e} : env'[d] = unset[d]
      BY <2>2
    <3>2. \A d \in Envs \ {e} : ~IsDefault(d)'
      BY <2>1, <2>2, <3>1 DEF DefaultTaken
    <3>4. unset[e].life = "live" /\ unset[e] \in EnvRows
      <4>1. \A row \in EnvRows : [row EXCEPT !.isDefault = FALSE] \in EnvRows
        BY DEF EnvRows
      <4> QED
        BY <2>1, <2>2, <4>1 DEF TypeOK
    <3>5. IsDefault(e)'
      <4>1. env'[e] = [unset[e] EXCEPT !.isDefault = TRUE]
        BY <2>2, <3>4
      <4>2. env'[e].life = "live" /\ env'[e].isDefault
        BY <3>4, <4>1 DEF EnvRows
      <4> QED
        BY <4>2
    <3> QED
      BY <3>2, <3>5
  <2>3. CASE env' = unset /\ dropped' = (dropped \/ req[r].others # {})
    BY <2>1, <2>3 DEF TypeOK
  <2> QED
    BY <1>1, <1>3, <2>0, <2>2, <2>3 DEF SetTarget
<1>4. ASSUME NEW r \in Requests, CleanUpCredential(r) \/ AttachCredential(r) PROVE Same
  BY <1>4 DEF CleanUpCredential, AttachCredential, TypeOK, EnvRows
<1>5. ASSUME NEW d \in Envs, ArchiveEnvironment(d) PROVE Same \/ Drop
  BY <1>5 DEF ArchiveEnvironment, TypeOK, EnvRows
<1>6. ASSUME NEW d \in Envs, DeleteEnvironment(d) PROVE Same \/ Drop
  BY <1>6 DEF DeleteEnvironment, TypeOK, NoEnv
<1>7. ASSUME NEW d \in Envs, RestoreEnvironment(d) PROVE Same
  BY <1>7 DEF RestoreEnvironment, TypeOK, EnvRows
<1>8. ASSUME NEW d \in Envs, NEW n \in Names, UpdateEnvironment(d, n) PROVE Same
  BY <1>8 DEF UpdateEnvironment, TypeOK, EnvRows
<1>9. ASSUME NEW d \in Envs, NEW m \in Methods, SetEnvironmentAuthMethod(d, m) PROVE Same
  BY <1>9 DEF SetEnvironmentAuthMethod, TypeOK, EnvRows
<1> QED
  BY <1>1, <1>2, <1>3, <1>4, <1>5, <1>6, <1>7, <1>8, <1>9
  DEF Next, vars, CountEnvironments, SetDefaultEnvironment, SaveEnvironmentStoredState, CountFails,
      UnsetOthers, InsertCredential, StoreSecret, StoreSecretFails, RequestIsLost, LoadExecutionTarget,
      LoadCredential, LoadSecret

LEMMA DefaultIsKept ==
    ASSUME TypeOK, SaveInv, InsertInv, DefaultInv, [Next]_vars PROVE DefaultInv'
<1> DEFINE Wanted == (\E e \in Envs : Live(e)) \/ (\E r \in Requests : req[r].pc = "insert" /\ ~req[r].first)
           Exists == \E e \in Envs : IsDefault(e)
<1>1. \A d, e \in Envs : (IsDefault(d) /\ IsDefault(e))' => d = e
  BY DefaultSteps DEF DefaultInv
<1>2. ASSUME Wanted' PROVE Wanted \/ Exists'
  <2>1. ASSUME NEW e \in Envs, Live(e)', ~Live(e) PROVE Wanted \/ Exists'
    <3>1. env[e].life = "unborn"
      BY <2>1, LifeSteps DEF TypeOK, EnvRows, Live, Gone
    <3>2. PICK r \in Requests, n \in Names : InsertEnvironment(r, n) /\ req[r].env = e
      BY <2>1, <3>1, LifeSteps DEF Live
    <3>3. CASE ~req[r].first
      BY <3>2, <3>3 DEF InsertEnvironment
    <3>4. CASE req[r].first
      <4>1. env' = [env EXCEPT ![e] = [NoEnv("live") EXCEPT !.name = n, !.isDefault = req[r].first]]
        BY <2>1, <3>2 DEF InsertEnvironment, Live
      <4>2. env'[e].isDefault
        BY <3>4, <4>1 DEF NoEnv, TypeOK
      <4> QED
        BY <2>1, <4>2 DEF IsDefault, Live
    <3> QED
      BY <3>3, <3>4 DEF TypeOK, ReqRows
  <2>2. ASSUME NEW r \in Requests, req'[r].pc = "insert", ~req'[r].first PROVE Wanted
    <3>1. CASE req[r].pc = "insert" /\ ~req[r].first
      BY <3>1
    <3>2. ASSUME NEW e \in Envs, CountEnvironments(r, e) PROVE Wanted
      BY <2>2, <3>2 DEF CountEnvironments, Blank, TypeOK
    <3> QED
      BY <2>2, <3>1, <3>2, InsertRequests
  <2> QED
    BY <1>2, <2>1, <2>2
<1>3. ASSUME Wanted' PROVE dropped' \/ Exists'
  BY <1>2, <1>3, DefaultSteps DEF DefaultInv
<1> QED
  BY <1>1, <1>3 DEF DefaultInv

-----------------------------------------------------------------------------
(* The theorems.                                                           *)

THEOREM EnvironmentsInductive == Spec => []EnvironmentsInv
<1>1. EnvironmentsInv /\ [Next]_vars => EnvironmentsInv'
  BY TypesAreKept, SaveIsKept, InsertIsKept, StoredIsKept, CredentialIsKept, WorkerIsKept, DefaultIsKept
  DEF EnvironmentsInv
<1> QED
  BY <1>1, EnvironmentsInit, PTL DEF Spec

\* Every variable keeps its type, and a request that works on a credential or
\* an environment has one.
THEOREM EnvironmentsTypes == Spec => []TypeOK
<1>1. EnvironmentsInv => TypeOK
  BY DEF EnvironmentsInv
<1> QED
  BY <1>1, EnvironmentsInductive, PTL

\* However creations, moves of the default, archiving and deleting interleave,
\* a project has at most one default environment, and loses its last one only
\* to archiving or deleting.
THEOREM DefaultIsOne == Spec => []OneDefault
<1>1. EnvironmentsInv => OneDefault
  BY DEF EnvironmentsInv, DefaultInv, OneDefault
<1> QED
  BY <1>1, EnvironmentsInductive, PTL

\* A worker that resolves a saved session gets it, however many saves, moves
\* to other methods, failed calls and dead requests run beside its reads,
\* unless the environment is deleted.
THEOREM SavedStateServes == Spec => []SavedStateIsUsed
<1>1. EnvironmentsInv => SavedStateIsUsed
  BY DEF EnvironmentsInv, WorkerInv, SavedStateIsUsed, Gone
<1> QED
  BY <1>1, EnvironmentsInductive, PTL

\* No save leaves a credential without a secret behind, unless it is lost.
THEOREM CredentialsHaveSecrets == Spec => []NoBareCredential
<1>1. EnvironmentsInv => NoBareCredential
  BY DEF EnvironmentsInv, CredentialInv, NoBareCredential
<1> QED
  BY <1>1, EnvironmentsInductive, PTL
=============================================================================
