----------------------- MODULE DashboardDialogsProofs -----------------------
(***************************************************************************)
(* What holds of the tab on the dashboard's pages for every number of      *)
(* changes, calls and mishaps: its type invariant, that what is offered is *)
(* allowed, that the user's own changes arrive on the page, and that an    *)
(* answer closes no dialog but its own.                                    *)
(***************************************************************************)
EXTENDS DashboardDialogs, FiniteSetTheorems, TLAPS

AllPages == {"environments", "project", "team", "projects", "settings", "elsewhere"}

-----------------------------------------------------------------------------
(* The handlers of the pages.                                              *)

HandlerTypes == [dialog : Dialogs, control : Controls, closes : {"always", "ok", "never"},
                 then : {"refresh", "push", "nothing"}]

\* What every handler is like: a confirmation waits on the card, and what writes
\* is followed by a refresh or a navigation.
IsHandler(h, command) ==
    /\ h \in HandlerTypes
    /\ command # "refresh"
    /\ h.dialog \in Confirms => h.control = "card"
    /\ h.control = "method" => command = "setEnvironmentAuthMethod"
    /\ Writes(command) => h.then \in {"refresh", "push"}

LEMMA EnvironmentHandlers ==
    /\ DOMAIN HandlersOf("environments") =
          {"setDefaultEnvironment", "toggleEnvironment", "deleteEnvironment", "updateEnvironment",
           "setEnvironmentAuthMethod", "saveEnvironmentStoredState", "createEnvironment"}
    /\ HandlersOf("environments")["setDefaultEnvironment"] = HandleSetDefault
    /\ HandlersOf("environments")["toggleEnvironment"] = HandleToggle
    /\ HandlersOf("environments")["deleteEnvironment"] = HandleDelete
    /\ HandlersOf("environments")["updateEnvironment"] = SubmitEnvironment
    /\ HandlersOf("environments")["setEnvironmentAuthMethod"] = HandleAuthMethod
    /\ HandlersOf("environments")["saveEnvironmentStoredState"] = HandleStoredState
    /\ HandlersOf("environments")["createEnvironment"] = SubmitCreate
BY DEF HandlersOf

LEMMA ProjectHandlers ==
    /\ DOMAIN HandlersOf("project") = {"toggleProject", "deleteProject", "updateProject"}
    /\ HandlersOf("project")["toggleProject"] = HandleProjectToggle
    /\ HandlersOf("project")["deleteProject"] = HandleProjectDelete
    /\ HandlersOf("project")["updateProject"] = SubmitProject
    /\ DOMAIN HandlersOf("projects") = {"createProject"}
    /\ HandlersOf("projects")["createProject"] = SubmitNewProject
BY DEF HandlersOf

LEMMA TeamHandlers ==
    /\ DOMAIN HandlersOf("team") =
          {"changeMemberRole", "removeMember", "revokeInvitation", "resendInvitation", "inviteMember"}
    /\ HandlersOf("team")["changeMemberRole"] = HandleRoleChange
    /\ HandlersOf("team")["removeMember"] = HandleRemove
    /\ HandlersOf("team")["revokeInvitation"] = HandleRevoke
    /\ HandlersOf("team")["resendInvitation"] = HandleResend
    /\ HandlersOf("team")["inviteMember"] = SubmitInvite
BY DEF HandlersOf

LEMMA SettingsHandlers ==
    /\ DOMAIN HandlersOf("settings") = {"updateOrganizationName", "updateProfile", "updatePassword"}
    /\ HandlersOf("settings")["updateOrganizationName"] = SubmitOrganization
    /\ HandlersOf("settings")["updateProfile"] = SubmitProfile
    /\ HandlersOf("settings")["updatePassword"] = SubmitPassword
    /\ DOMAIN HandlersOf("elsewhere") = {}
BY DEF HandlersOf

LEMMA HandlersAreTyped ==
    ASSUME NEW p \in AllPages, NEW command \in DOMAIN HandlersOf(p)
    PROVE  IsHandler(HandlersOf(p)[command], command)
<1> USE DEF IsHandler, HandlerTypes, Handler, Writes, Dialogs, Controls, Confirms, CardDialogs,
            CardControls, Forms
<1>1. CASE p = "environments"
  BY <1>1, EnvironmentHandlers
     DEF HandleSetDefault, HandleToggle, HandleDelete, SubmitEnvironment, HandleAuthMethod,
         HandleStoredState, SubmitCreate
<1>2. CASE p \in {"project", "projects"}
  BY <1>2, ProjectHandlers
     DEF HandleProjectToggle, HandleProjectDelete, SubmitProject, SubmitNewProject
<1>3. CASE p = "team"
  BY <1>3, TeamHandlers
     DEF HandleRoleChange, HandleRemove, HandleRevoke, HandleResend, SubmitInvite
<1>4. CASE p \in {"settings", "elsewhere"}
  BY <1>4, SettingsHandlers DEF SubmitOrganization, SubmitProfile, SubmitPassword
<1> QED BY <1>1, <1>2, <1>3, <1>4 DEF AllPages

-----------------------------------------------------------------------------
(* Types.                                                                  *)

AllArgs == {"", "archive", "restore", "none", "credentials", "owner", "developer"}
Entries(commands) == [command : commands \cup {"refresh"}, arg : AllArgs, seen : 0..MaxVersion,
                      alive : BOOLEAN, mine : BOOLEAN]
Calls == [step : {"start", "write", "answer", "lists"},
          left : SUBSET {"active", "archived", "invitations"},
          view : Views, result : {"", "done", "nothing", "denied", "failed"}]
Locals == [panel : Methods, pasted : BOOLEAN, link : BOOLEAN, edited : SUBSET Forms]
OpenDialogs == [open : Dialogs, seen : 0..MaxVersion]

Typed ==
    /\ page \in Pages \cup {"elsewhere"} /\ page \in AllPages
    /\ role \in Roles \cup {NoRole} /\ row \in Rows
    /\ version \in 0..MaxVersion /\ owed \in 0..version
    /\ shown \in Views /\ dialog \in OpenDialogs /\ local \in Locals
    /\ busy \subseteq Controls
    /\ queue \in Seq(Entries(DOMAIN Handlers))
    /\ call \in Calls
    /\ mishaps \in 0..MaxMishaps
    /\ dialog.open \in CardDialogs => shown.list # "nowhere"
    /\ page \in {"team", "projects"} => shown.list = "active"

\* On the team's page the member and the user fit each other.
FitInv == page = "team" => OwnersFit

LEMMA TypedIsTypeOK == Typed /\ FitInv => TypeOK
<1> SUFFICES ASSUME Typed, FitInv
             PROVE  TypeOK
  OBVIOUS
<1>1. \A i \in DOMAIN queue : queue[i].command \in DOMAIN Handlers \cup {"refresh"}
  <2>1. \A i \in DOMAIN queue : queue[i] \in Entries(DOMAIN Handlers)
    BY DEF Typed
  <2> QED BY <2>1 DEF Entries
<1>2. call.step \in {"start", "write", "answer", "lists"}
      /\ call.result \in {"", "done", "nothing", "denied", "failed"}
  BY DEF Typed, Calls
<1> QED BY <1>1, <1>2 DEF Typed, FitInv, TypeOK, OpenDialogs, Locals

LEMMA StartingValues ==
    /\ NoRow \in Rows /\ Blank \in Views /\ Blank.version = 0 /\ Blank.role = NoRole
    /\ Blank.list = "nowhere"
    /\ \A list \in {"active", "archived"} : Blank[list] = NoRow
    /\ ~NoRow.exists /\ ~NoRow.invited
    /\ Idle \in Calls /\ Idle.step = "start" /\ Idle.view = Blank /\ Idle.result = ""
    /\ Closed \in OpenDialogs /\ Closed.open = "closed" /\ Closed.seen = 0
    /\ "closed" \notin CardDialogs /\ "closed" \notin Confirms
    /\ \A m \in Methods : Fresh(m) \in Locals
    /\ "none" \in Methods /\ MaxVersion \in Nat
<1>1. MaxVersion \in Nat
  BY ConstantsAssumption
<1>2. NoRow \in Rows /\ ~NoRow.exists /\ ~NoRow.invited
  BY DEF NoRow, Rows, Methods
<1>3. /\ Blank \in Views /\ Blank.version = 0 /\ Blank.role = NoRole /\ Blank.list = "nowhere"
      /\ \A list \in {"active", "archived"} : Blank[list] = NoRow
  BY <1>1, <1>2 DEF Blank, Views
<1>4. Idle \in Calls /\ Idle.step = "start" /\ Idle.view = Blank /\ Idle.result = ""
  BY <1>3 DEF Idle, Calls
<1>5. /\ Closed \in OpenDialogs /\ Closed.open = "closed" /\ Closed.seen = 0
      /\ "closed" \notin CardDialogs /\ "closed" \notin Confirms
  BY <1>1 DEF Closed, OpenDialogs, Dialogs, CardDialogs, Confirms
<1>6. "none" \in Methods /\ \A m \in Methods : Fresh(m) \in Locals
  BY DEF Fresh, Locals, Methods
<1> QED BY <1>1, <1>2, <1>3, <1>4, <1>5, <1>6

-----------------------------------------------------------------------------
(* The router's queue.                                                     *)

LEMMA FirstOfQueue ==
    ASSUME NEW E, NEW q \in Seq(E), q # <<>>
    PROVE  /\ Len(q) \in Nat /\ Len(q) >= 1 /\ DOMAIN q = 1..Len(q) /\ Head(q) = q[1] /\ q[1] \in E
           /\ Tail(q) \in Seq(E) /\ Len(Tail(q)) = Len(q) - 1
           /\ DOMAIN Tail(q) = 1..(Len(q) - 1)
           /\ \A i \in 1..(Len(q) - 1) : Tail(q)[i] = q[i + 1]
OBVIOUS

LEMMA LastOfQueue ==
    ASSUME NEW E, NEW q \in Seq(E), NEW e \in E
    PROVE  /\ Append(q, e) \in Seq(E) /\ Append(q, e) # <<>>
           /\ Len(q) \in Nat /\ DOMAIN q = 1..Len(q)
           /\ Len(Append(q, e)) = Len(q) + 1 /\ DOMAIN Append(q, e) = 1..(Len(q) + 1)
           /\ Append(q, e)[Len(q) + 1] = e
           /\ \A i \in 1..Len(q) : Append(q, e)[i] = q[i]
           /\ q # <<>> => Head(Append(q, e)) = Head(q)
OBVIOUS

\* The entries of r are those of q, but for whether somebody waits for them.
Alike(r, q) ==
    /\ DOMAIN r = DOMAIN q
    /\ \A i \in DOMAIN q :
          /\ r[i].command = q[i].command /\ r[i].arg = q[i].arg /\ r[i].seen = q[i].seen
          /\ r[i].alive => q[i].alive

LEMMA MappedQueue ==
    ASSUME NEW E, NEW q \in Seq(E), NEW r, r = [i \in DOMAIN q |-> r[i]],
           \A i \in DOMAIN q : r[i] \in E
    PROVE  r \in Seq(E)
<1>1. PICK n \in Nat : DOMAIN q = 1..n
  BY Len(q) \in Nat /\ DOMAIN q = 1..Len(q)
<1>2. r \in [1..n -> E]
  BY <1>1
<1> QED BY <1>2

-----------------------------------------------------------------------------
(* The commands that have yet to be carried out.                           *)

Unwritten(q, step) ==
    { i \in DOMAIN q : q[i].command # "refresh" /\ ~(i = 1 /\ step = "answer") }

LEMMA UnwrittenIsFinite ==
    ASSUME NEW E, NEW q \in Seq(E), NEW step
    PROVE  /\ IsFiniteSet(Unwritten(q, step)) /\ Cardinality(Unwritten(q, step)) \in Nat
           /\ Unwritten(q, step) \subseteq 1..Len(q) /\ Len(q) \in Nat
<1>1. Len(q) \in Nat /\ DOMAIN q = 1..Len(q)
  OBVIOUS
<1>2. Unwritten(q, step) \in SUBSET (1..Len(q))
  BY <1>1 DEF Unwritten
<1>3. IsFiniteSet(1..Len(q))
  BY <1>1, FS_Interval
<1>4. IsFiniteSet(Unwritten(q, step))
  BY <1>2, <1>3, FS_Subset
<1> QED BY <1>1, <1>2, <1>4, FS_CardinalityType

LEMMA AlikeUnwritten ==
    ASSUME NEW q, NEW r, Alike(r, q), NEW step
    PROVE  Unwritten(r, step) = Unwritten(q, step)
BY DEF Alike, Unwritten

\* A submitted command is one more, and is counted among those under way.
LEMMA AppendedUnwritten ==
    ASSUME NEW E, NEW q \in Seq(E), NEW e \in E, NEW step
    PROVE  Cardinality(Unwritten(Append(q, e), step)) <= Cardinality(Unwritten(q, step)) + 1
<1> DEFINE S == Unwritten(q, step)
           T == S \cup {Len(q) + 1}
<1>1. IsFiniteSet(S) /\ Cardinality(S) \in Nat
  BY UnwrittenIsFinite
<1>2. IsFiniteSet(T) /\ Cardinality(T) <= Cardinality(S) + 1
  <2> HIDE DEF S
  <2>1. IsFiniteSet(S \cup {Len(q) + 1})
        /\ Cardinality(S \cup {Len(q) + 1}) = IF Len(q) + 1 \in S THEN Cardinality(S) ELSE Cardinality(S) + 1
    BY <1>1, FS_AddElement
  <2> QED BY <1>1, <2>1
<1>3. Unwritten(Append(q, e), step) \in SUBSET T
  BY LastOfQueue DEF Unwritten
<1>4. Cardinality(Unwritten(Append(q, e), step)) <= Cardinality(T)
  BY <1>2, <1>3, FS_Subset
<1>5. Append(q, e) \in Seq(E)
  OBVIOUS
<1>6. Cardinality(Unwritten(Append(q, e), step)) \in Nat
  BY <1>5, UnwrittenIsFinite
<1>7. Cardinality(T) \in Nat
  BY <1>2, FS_CardinalityType
<1> HIDE DEF S, T
<1>8. Cardinality(Unwritten(Append(q, e), step)) <= Cardinality(S) + 1
  BY <1>1, <1>2, <1>4, <1>6, <1>7
<1> QED BY <1>8 DEF S

LEMMA UnwrittenIsUnderWay ==
    ASSUME NEW E, queue \in Seq(E), NEW step
    PROVE  Cardinality(Unwritten(queue, step)) <= UnderWay /\ UnderWay \in Nat
<1> DEFINE T == {i \in DOMAIN queue : queue[i].command # "refresh"}
<1>1. Len(queue) \in Nat /\ DOMAIN queue = 1..Len(queue)
  OBVIOUS
<1>2. IsFiniteSet(1..Len(queue))
  BY <1>1, FS_Interval
<1>3. IsFiniteSet(T)
  BY <1>1, <1>2, FS_Subset
<1>4. Unwritten(queue, step) \in SUBSET T
  BY DEF Unwritten
<1> QED BY <1>3, <1>4, FS_Subset, FS_CardinalityType DEF UnderWay

\* The first command is carried out.
LEMMA WrittenUnwritten ==
    ASSUME NEW E, NEW q \in Seq(E), q # <<>>, Head(q).command # "refresh"
    PROVE  Cardinality(Unwritten(q, "answer")) = Cardinality(Unwritten(q, "write")) - 1
<1>1. IsFiniteSet(Unwritten(q, "write"))
  BY UnwrittenIsFinite
<1>2. Unwritten(q, "answer") = Unwritten(q, "write") \ {1}
  BY DEF Unwritten
<1>3. 1 \in Unwritten(q, "write")
  BY FirstOfQueue DEF Unwritten
<1> QED BY <1>1, <1>2, <1>3, FS_RemoveElement

\* Until then, or if it is not, there are as many or fewer.
LEMMA StartedUnwritten ==
    ASSUME NEW E, NEW q \in Seq(E), NEW from, NEW to, from # "answer" \/ to = from
    PROVE  Cardinality(Unwritten(q, to)) <= Cardinality(Unwritten(q, from))
<1>1. IsFiniteSet(Unwritten(q, from))
  BY UnwrittenIsFinite
<1>2. Unwritten(q, to) \in SUBSET Unwritten(q, from)
  BY DEF Unwritten
<1> QED BY <1>1, <1>2, FS_Subset

\* The first leaves the queue: it was answered, or is a refresh.
LEMMA TailUnwritten ==
    ASSUME NEW E, NEW q \in Seq(E), q # <<>>, NEW step,
           step = "answer" \/ Head(q).command = "refresh"
    PROVE  Cardinality(Unwritten(Tail(q), "start")) <= Cardinality(Unwritten(q, step))
<1> DEFINE S == Unwritten(Tail(q), "start")
           T == Unwritten(q, step)
           f == [i \in S |-> i + 1]
<1>1. /\ Len(q) \in Nat /\ DOMAIN q = 1..Len(q) /\ DOMAIN Tail(q) = 1..(Len(q) - 1)
      /\ \A i \in 1..(Len(q) - 1) : Tail(q)[i] = q[i + 1]
  BY FirstOfQueue
<1>2. \A i \in S : i \in Nat /\ i >= 1 /\ i + 1 \in T
  BY <1>1 DEF Unwritten
<1>3. IsFiniteSet(T)
  BY UnwrittenIsFinite
<1> HIDE DEF S, T
<1>4. f \in [S -> T] /\ \A i, j \in S : f[i] = f[j] => i = j
  BY <1>2
<1>5. f \in Injection(S, T)
  BY <1>4 DEF Injection, IsInjective
<1> HIDE DEF f
<1>6. Cardinality(S) <= Cardinality(T)
  BY <1>3, <1>5, FS_Injection
<1> QED BY <1>6 DEF S, T

LEMMA NoneUnwritten ==
    ASSUME NEW step
    PROVE  Cardinality(Unwritten(<<>>, step)) = 0
<1>1. Unwritten(<<>>, step) = {}
  BY DEF Unwritten
<1> QED BY <1>1, FS_EmptySet

-----------------------------------------------------------------------------
(* What the steps make of the queue.                                       *)

Commands == DOMAIN Handlers

LEMMA FirstIsTyped ==
    ASSUME Typed
    PROVE  /\ page \in AllPages
           /\ \A i \in DOMAIN queue : queue[i] \in Entries(Commands)
           /\ queue # <<>> => Head(queue) = queue[1] /\ 1 \in DOMAIN queue
           /\ Acting => Head(queue).command \in Commands /\ queue # <<>>
           /\ \A command \in Commands :
                 Handlers[command] \in HandlerTypes /\ IsHandler(Handlers[command], command)
<1>1. queue \in Seq(Entries(Commands)) /\ page \in AllPages
  BY DEF Typed, Commands
<1>2. \A i \in DOMAIN queue : queue[i] \in Entries(Commands)
  BY <1>1
<1>3. queue # <<>> => Head(queue) = queue[1] /\ 1 \in DOMAIN queue
  BY <1>1, FirstOfQueue
<1>4. Acting => Head(queue).command \in Commands /\ queue # <<>>
  BY <1>2, <1>3 DEF Acting, Entries
<1>5. ASSUME NEW command \in Commands
      PROVE  Handlers[command] \in HandlerTypes /\ IsHandler(Handlers[command], command)
  BY <1>1, HandlersAreTyped DEF Commands, Handlers, IsHandler
<1> QED BY <1>1, <1>2, <1>3, <1>4, <1>5

LEMMA AlikeFirst ==
    ASSUME NEW E, NEW q \in Seq(E), NEW r \in Seq(E), Alike(r, q)
    PROVE  /\ r = <<>> <=> q = <<>>
           /\ Len(r) = Len(q)
           /\ q # <<>> => /\ Head(r).command = Head(q).command /\ Head(r).arg = Head(q).arg
                          /\ Head(r).seen = Head(q).seen
<1>1. DOMAIN r = DOMAIN q
  BY DEF Alike
<1>2. Len(r) = Len(q) /\ (r = <<>> <=> q = <<>>)
  BY <1>1
<1>3. q # <<>> => Head(r) = r[1] /\ Head(q) = q[1] /\ 1 \in DOMAIN q
  BY <1>2, FirstOfQueue
<1> QED BY <1>2, <1>3 DEF Alike

LEMMA Disowning ==
    ASSUME Typed
    PROVE  /\ Disowned \in Seq(Entries(Commands)) /\ Alike(Disowned, queue)
           /\ \A i \in DOMAIN queue : Disowned[i].alive = queue[i].alive /\ ~Disowned[i].mine
<1>1. queue \in Seq(Entries(Commands))
  BY DEF Typed, Commands
<1>2. ASSUME NEW i \in DOMAIN queue
      PROVE  /\ Disowned[i] \in Entries(Commands) /\ Disowned[i].command = queue[i].command
             /\ Disowned[i].arg = queue[i].arg /\ Disowned[i].seen = queue[i].seen
             /\ Disowned[i].alive = queue[i].alive /\ ~Disowned[i].mine
  <2>1. queue[i] \in Entries(Commands) /\ Disowned[i] = [queue[i] EXCEPT !.mine = FALSE]
    BY FirstIsTyped DEF Disowned
  <2> QED BY <2>1 DEF Entries
<1>3. DOMAIN Disowned = DOMAIN queue /\ Disowned = [i \in DOMAIN queue |-> Disowned[i]]
  BY DEF Disowned
<1>4. Disowned \in Seq(Entries(Commands))
  BY <1>1, <1>2, <1>3, MappedQueue
<1>5. Alike(Disowned, queue)
  BY <1>2, <1>3 DEF Alike
<1> QED BY <1>2, <1>4, <1>5

\* The names of what an answer is made of.
Okay == call.result \in {"done", "nothing"}
Answered == Handlers[Head(queue).command]
AnswerCloses(withLink) ==
    /\ Head(queue).alive /\ dialog.open = Answered.dialog
    /\ Answered.closes = "always" \/ (Answered.closes = "ok" /\ Okay /\ ~withLink)
Rest ==
    IF Okay /\ Answered.then = "refresh" THEN Append(Tail(queue), Refresh) ELSE Tail(queue)
AnswerLeaves == Okay /\ Answered.then = "push"

\* An answer that does not navigate: the rest of the queue is kept.
AnswerStays(withLink) ==
    /\ page' = page /\ shown' = shown /\ call' = Idle
    /\ dialog' = IF AnswerCloses(withLink) THEN Closed ELSE dialog
    /\ queue' \in Seq(Entries(Commands)) /\ Alike(queue', Rest)
    /\ \A i \in DOMAIN Rest :
          /\ queue'[i].alive = Rest[i].alive
          /\ queue'[i].mine = (Rest[i].mine /\ ~AnswerCloses(withLink))
    /\ busy' = IF Head(queue).alive THEN busy \ {Answered.control} ELSE busy
    /\ local' \in Locals

LEMMA RefreshIsTyped ==
    ASSUME NEW commands
    PROVE  /\ Refresh \in Entries(commands)
           /\ Refresh.command = "refresh" /\ Refresh.seen = 0
<1>1. MaxVersion \in Nat
  BY StartingValues
<1> QED BY <1>1 DEF Refresh, Entry, Entries, AllArgs

LEMMA RestIsTyped ==
    ASSUME Typed, queue # <<>>
    PROVE  /\ Rest \in Seq(Entries(Commands))
           /\ \A i \in DOMAIN Rest : Rest[i] \in Entries(Commands)
           /\ Tail(queue) \in Seq(Entries(Commands))
           /\ \A i \in DOMAIN Rest :
                 \/ i + 1 \in DOMAIN queue /\ i \in Nat \ {0} /\ Rest[i] = queue[i + 1]
                 \/ Rest[i] = Refresh
           /\ \A i \in DOMAIN queue :
                 i # 1 => i - 1 \in DOMAIN Rest /\ Rest[i - 1] = queue[i]
           /\ Okay /\ Answered.then = "refresh" => \E i \in DOMAIN Rest : Rest[i] = Refresh
<1>1. queue \in Seq(Entries(Commands)) /\ Refresh \in Entries(Commands)
  BY RefreshIsTyped DEF Typed, Commands
<1>2. /\ Tail(queue) \in Seq(Entries(Commands)) /\ DOMAIN queue = 1..Len(queue)
      /\ DOMAIN Tail(queue) = 1..(Len(queue) - 1) /\ Len(queue) \in Nat /\ Len(queue) >= 1
      /\ Len(Tail(queue)) = Len(queue) - 1
      /\ \A i \in 1..(Len(queue) - 1) : Tail(queue)[i] = queue[i + 1]
  BY <1>1, FirstOfQueue
<1>3. PICK n \in Nat : n = Len(queue) - 1 /\ Len(queue) = n + 1
  <2>1. \A m \in Nat : m >= 1 => m - 1 \in Nat /\ m = (m - 1) + 1
    OBVIOUS
  <2>2. Len(queue) - 1 \in Nat /\ Len(queue) = (Len(queue) - 1) + 1
    BY <1>2, <2>1
  <2> QED BY <2>2
<1>4. CASE Rest = Append(Tail(queue), Refresh)
  <2>1. /\ Append(Tail(queue), Refresh) \in Seq(Entries(Commands))
        /\ DOMAIN Append(Tail(queue), Refresh) = 1..(n + 1)
        /\ Append(Tail(queue), Refresh)[n + 1] = Refresh
        /\ \A i \in 1..n : Append(Tail(queue), Refresh)[i] = Tail(queue)[i]
    BY <1>1, <1>2, <1>3, LastOfQueue
  <2>2. Rest \in Seq(Entries(Commands)) /\ DOMAIN Rest = 1..(n + 1) /\ Rest[n + 1] = Refresh
        /\ \A i \in 1..n : Rest[i] = queue[i + 1]
    BY <1>2, <1>3, <1>4, <2>1
  <2>3. n + 1 \in DOMAIN Rest /\ DOMAIN queue = 1..(n + 1)
    BY <1>2, <1>3, <2>2
  <2> HIDE <1>4
  <2> QED BY <1>2, <2>2, <2>3
<1>5. CASE Rest = Tail(queue) /\ ~(Okay /\ Answered.then = "refresh")
  <2>1. Rest \in Seq(Entries(Commands)) /\ DOMAIN Rest = 1..n /\ DOMAIN queue = 1..(n + 1)
        /\ \A i \in 1..n : Rest[i] = queue[i + 1]
    BY <1>2, <1>3, <1>5
  <2>2. \A i \in DOMAIN Rest : Rest[i] \in Entries(Commands)
    BY <2>1
  <2>3. Tail(queue) \in Seq(Entries(Commands)) /\ ~(Okay /\ Answered.then = "refresh")
    BY <1>2, <1>5
  <2>4. \A i \in DOMAIN Rest : i + 1 \in DOMAIN queue /\ i \in Nat \ {0} /\ Rest[i] = queue[i + 1]
    BY <2>1
  <2>5. \A i \in DOMAIN queue : i # 1 => i - 1 \in DOMAIN Rest /\ Rest[i - 1] = queue[i]
    BY <2>1
  <2> HIDE <1>5
  <2> QED BY <2>1, <2>2, <2>3, <2>4, <2>5
<1> QED BY <1>4, <1>5 DEF Rest

LEMMA Answering ==
    ASSUME Typed, NEW withLink \in BOOLEAN, Answer(withLink)
    PROVE  /\ Acting /\ call.step = "answer" /\ Head(queue).command \in Commands
           /\ UNCHANGED <<role, row, version, owed, mishaps>>
           /\ AnswerLeaves => Leave
           /\ ~AnswerLeaves => AnswerStays(withLink)
<1>1. Acting /\ call.step = "answer" /\ UNCHANGED <<role, row, version, owed, mishaps>>
  BY DEF Answer, stored
<1>2. Head(queue).command \in Commands /\ queue # <<>>
  BY <1>1, FirstIsTyped
<1>3. AnswerLeaves => Leave
  BY DEF Answer, AnswerLeaves, Okay, Answered
<1>4. ASSUME ~AnswerLeaves
      PROVE  AnswerStays(withLink)
  <2> DEFINE closes == AnswerCloses(withLink)
  <2>1. /\ page' = page /\ shown' = shown /\ call' = Idle
        /\ dialog' = IF closes THEN Closed ELSE dialog
        /\ queue' = [i \in DOMAIN Rest |-> [Rest[i] EXCEPT !.mine = @ /\ ~closes]]
        /\ busy' = IF Head(queue).alive THEN busy \ {Answered.control} ELSE busy
    BY <1>4 DEF Answer, AnswerLeaves, Okay, Answered, AnswerCloses, Rest
  <2>2. local' \in Locals
    <3>1. \/ local' = local
          \/ \E pasted, link \in BOOLEAN, edited \in SUBSET local.edited :
                local' = [local EXCEPT !.pasted = @ /\ pasted, !.link = @ \/ link, !.edited = edited]
      <4>1. \/ local' = local
            \/ local' = [local EXCEPT
                          !.pasted = @ /\ ~(Okay /\ Answered.control = "state"),
                          !.link = @ \/ withLink,
                          !.edited = @ \ (IF Okay THEN {Answered.control} \cap {"password"} ELSE {})]
        BY <1>4 DEF Answer, AnswerLeaves, Okay, Answered
      <4> QED BY <4>1
    <3>2. local \in Locals
      BY DEF Typed
    <3> QED BY <3>1, <3>2 DEF Locals
  <2>3. /\ Rest \in Seq(Entries(Commands)) /\ \A i \in DOMAIN Rest : Rest[i] \in Entries(Commands)
    BY <1>2, RestIsTyped
  <2> HIDE DEF closes
  <2>4. ASSUME NEW i \in DOMAIN Rest
        PROVE  /\ queue'[i] \in Entries(Commands) /\ queue'[i].command = Rest[i].command
               /\ queue'[i].arg = Rest[i].arg /\ queue'[i].seen = Rest[i].seen
               /\ queue'[i].alive = Rest[i].alive /\ queue'[i].mine = (Rest[i].mine /\ ~closes)
    <3>1. Rest[i] \in Entries(Commands) /\ queue'[i] = [Rest[i] EXCEPT !.mine = @ /\ ~closes]
      BY <2>1, <2>3
    <3> QED BY <3>1 DEF Entries
  <2>5. DOMAIN queue' = DOMAIN Rest /\ queue' = [i \in DOMAIN Rest |-> queue'[i]]
    BY <2>1
  <2>6. queue' \in Seq(Entries(Commands))
    BY <2>3, <2>4, <2>5, MappedQueue
  <2>7. Alike(queue', Rest)
    BY <2>4, <2>5 DEF Alike
  <2> QED BY <2>1, <2>2, <2>4, <2>6, <2>7 DEF AnswerStays, closes
<1> QED BY <1>1, <1>2, <1>3, <1>4

\* The names of what arriving lists are made of.
Gone(list) ==
    (IF list # shown.list THEN CardControls \cup Forms ELSE {})
        \cup (IF page = "environments" /\ ~HasPermission(call.view.role, "manage_environments")
                THEN {"create"} ELSE {})
        \cup (IF page = "team" /\ ~HasPermission(call.view.role, "manage_members")
                THEN {"invite"} ELSE {})
Unmounted(entry, list) == entry.command # "refresh" /\ Handlers[entry.command].control \in Gone(list)

\* The lists arrive on a page that is still there.
ArriveStays(list) ==
    /\ list \in Continues(call.view) /\ list \in {"active", "archived", "nowhere"}
    /\ call.view.role # NoRole
    /\ page' = page /\ call' = Idle /\ shown' = [call.view EXCEPT !.list = list]
    /\ dialog' = IF Closes(Gone(list)) THEN Closed ELSE dialog
    /\ busy' = busy \ Gone(list)
    /\ local' \in Locals
    /\ queue' \in Seq(Entries(Commands)) /\ Alike(queue', Tail(queue))
    /\ \A i \in DOMAIN Tail(queue) :
          /\ queue'[i].alive = (Tail(queue)[i].alive /\ ~Unmounted(Tail(queue)[i], list))
          /\ queue'[i].mine = (Tail(queue)[i].mine /\ ~Closes(Gone(list)))

LEMMA ContinuedLists ==
    ASSUME Typed, NEW view, NEW list \in Continues(view)
    PROVE  /\ list \in {"active", "archived", "nowhere"}
           /\ page \in {"team", "projects"} => list = shown.list
<1>1. shown.list \in {"active", "archived", "nowhere"}
  BY DEF Typed, Views
<1>2. page \in {"team", "projects"} => shown.list = "active"
  BY DEF Typed
<1>3. CASE page \in {"team", "projects"}
  BY <1>2, <1>3 DEF Continues, Lists
<1>4. CASE page \notin {"team", "projects"}
  <2>1. Lists \subseteq {"active", "archived"}
    BY <1>4 DEF Lists
  <2> QED BY <1>1, <1>4, <2>1 DEF Continues
<1> QED BY <1>3, <1>4

LEMMA TailIsTyped ==
    ASSUME Typed, queue # <<>>
    PROVE  /\ Tail(queue) \in Seq(Entries(Commands))
           /\ \A i \in DOMAIN Tail(queue) :
                 /\ Tail(queue)[i] \in Entries(Commands)
                 /\ i + 1 \in DOMAIN queue /\ i \in Nat \ {0} /\ Tail(queue)[i] = queue[i + 1]
           /\ \A i \in DOMAIN queue :
                 i # 1 => i - 1 \in DOMAIN Tail(queue) /\ Tail(queue)[i - 1] = queue[i]
<1>1. queue \in Seq(Entries(Commands))
  BY DEF Typed, Commands
<1>2. /\ Tail(queue) \in Seq(Entries(Commands)) /\ DOMAIN queue = 1..Len(queue)
      /\ DOMAIN Tail(queue) = 1..(Len(queue) - 1) /\ Len(queue) \in Nat /\ Len(queue) >= 1
      /\ \A i \in 1..(Len(queue) - 1) : Tail(queue)[i] = queue[i + 1]
  BY <1>1, FirstOfQueue
<1>3. \A i \in DOMAIN Tail(queue) : Tail(queue)[i] \in Entries(Commands)
  BY <1>2
<1>4. \A i \in DOMAIN Tail(queue) :
         i + 1 \in DOMAIN queue /\ i \in Nat \ {0} /\ Tail(queue)[i] = queue[i + 1]
  BY <1>2
<1>5. \A i \in DOMAIN queue :
         i # 1 => i - 1 \in DOMAIN Tail(queue) /\ Tail(queue)[i - 1] = queue[i]
  BY <1>2
<1> QED BY <1>2, <1>3, <1>4, <1>5

LEMMA Arriving ==
    ASSUME Typed, Arrive
    PROVE  /\ Refreshing /\ call.step = "lists" /\ queue # <<>>
           /\ UNCHANGED <<role, row, version, owed, mishaps>>
           /\ Leave \/ \E list \in {"active", "archived", "nowhere"} : ArriveStays(list)
<1>1. Refreshing /\ call.step = "lists" /\ queue # <<>>
      /\ UNCHANGED <<role, row, version, owed, mishaps>>
  BY DEF Arrive, stored, Refreshing
<1>2. ASSUME ~Leave
      PROVE  \E list \in {"active", "archived", "nowhere"} : ArriveStays(list)
  <2>1. PICK list \in Continues(call.view) :
          /\ call.view.role # NoRole
          /\ page' = page /\ call' = Idle /\ shown' = [call.view EXCEPT !.list = list]
          /\ dialog' = IF Closes(Gone(list)) THEN Closed ELSE dialog
          /\ busy' = busy \ Gone(list)
          /\ local' = IF list # shown.list
                        THEN Fresh(call.view[IF list = "archived" THEN list ELSE "active"].method)
                        ELSE [local EXCEPT !.link = @ /\ "invite" \notin Gone(list)]
          /\ queue' = [i \in DOMAIN Tail(queue) |->
                          [Tail(queue)[i] EXCEPT
                             !.alive = @ /\ ~(Tail(queue)[i].command # "refresh"
                                      /\ Handlers[Tail(queue)[i].command].control \in Gone(list)),
                             !.mine = @ /\ ~Closes(Gone(list))]]
    BY <1>2 DEF Arrive, Gone
  <2> DEFINE closes == Closes(Gone(list))
             unmounted(i) == Unmounted(Tail(queue)[i], list)
  <2>2. list \in {"active", "archived", "nowhere"}
    BY ContinuedLists
  <2>3. local' \in Locals
    <3>1. call.view \in Views /\ local \in Locals
      BY DEF Typed, Calls
    <3>2. \A l \in {"active", "archived"} : call.view[l].method \in Methods
      BY <3>1 DEF Views, Rows
    <3>3. CASE list # shown.list
      BY <2>1, <3>2, <3>3, StartingValues
    <3>4. CASE list = shown.list
      <4>1. local' = [local EXCEPT !.link = @ /\ "invite" \notin Gone(list)]
        BY <2>1, <3>4
      <4> QED BY <3>1, <4>1 DEF Locals
    <3> QED BY <3>3, <3>4
  <2>4. queue' = [i \in DOMAIN Tail(queue) |->
                    [Tail(queue)[i] EXCEPT !.alive = @ /\ ~unmounted(i), !.mine = @ /\ ~closes]]
    BY <2>1 DEF Unmounted
  <2> HIDE DEF closes, unmounted
  <2>5. ASSUME NEW i \in DOMAIN Tail(queue)
        PROVE  /\ queue'[i] \in Entries(Commands) /\ queue'[i].command = Tail(queue)[i].command
               /\ queue'[i].arg = Tail(queue)[i].arg /\ queue'[i].seen = Tail(queue)[i].seen
               /\ queue'[i].alive = (Tail(queue)[i].alive /\ ~unmounted(i))
               /\ queue'[i].mine = (Tail(queue)[i].mine /\ ~closes)
    <3>1. /\ Tail(queue)[i] \in Entries(Commands)
          /\ queue'[i] = [Tail(queue)[i] EXCEPT !.alive = @ /\ ~unmounted(i), !.mine = @ /\ ~closes]
      BY <1>1, <2>4, TailIsTyped
    <3> QED BY <3>1 DEF Entries
  <2>6. DOMAIN queue' = DOMAIN Tail(queue) /\ queue' = [i \in DOMAIN Tail(queue) |-> queue'[i]]
    BY <2>4
  <2>7. queue' \in Seq(Entries(Commands))
    BY <1>1, <2>5, <2>6, TailIsTyped, MappedQueue
  <2>8. Alike(queue', Tail(queue))
    BY <2>5, <2>6 DEF Alike
  <2> QED BY <2>1, <2>2, <2>3, <2>5, <2>7, <2>8 DEF ArriveStays, closes, unmounted
<1> QED BY <1>1, <1>2

-----------------------------------------------------------------------------
(* The invariants.  How far the first action is:                           *)

StepInv ==
    /\ call.step \in {"write", "answer"} => Acting
    /\ call.step = "lists" => Refreshing
    /\ call.step # "answer" => call.result = ""
    /\ page = "elsewhere" => queue = <<>>
    /\ version + Cardinality(Unwritten(queue, call.step)) <= MaxVersion
    /\ \A i \in DOMAIN queue : queue[i].arg \in Args(queue[i].command)

-----------------------------------------------------------------------------
(* The types are kept.                                                     *)

LEMMA ArgTypes ==
    ASSUME NEW command, NEW arg \in Args(command)
    PROVE  arg \in AllArgs /\ (command = "setEnvironmentAuthMethod" => arg \in Methods)
BY DEF Args, AllArgs, Methods

LEMMA EffectIsTyped ==
    ASSUME row \in Rows, NEW command, NEW arg \in Args(command)
    PROVE  Effect(command, arg) \in Rows
<1>1. EnvironmentEffect(command, arg) \in Rows
  <2>1. NoRow \in Rows /\ (command = "setEnvironmentAuthMethod" => arg \in Methods)
    BY StartingValues, ArgTypes
  <2>2. "stored_state" \in Methods
    BY DEF Methods
  <2> QED BY <2>1, <2>2 DEF EnvironmentEffect, Rows
<1>2. ProjectEffect(command, arg) \in Rows
  BY StartingValues DEF ProjectEffect, Rows
<1>3. TeamEffect(command, arg) \in Rows
  BY DEF TeamEffect, Rows
<1> QED BY <1>1, <1>2, <1>3 DEF Effect

LEMMA RoleAfterIsTyped ==
    ASSUME Typed, NEW command, NEW arg
    PROVE  RoleAfter(command, arg) \in Roles \cup {NoRole}
BY ConstantsAssumption DEF Typed, RoleAfter

LEMMA ReadIsTyped ==
    ASSUME row \in Rows, NEW view \in Views, NEW list \in Lists
    PROVE  With(view, list) \in Views /\ With(view, list).version = view.version
           /\ With(view, list).role = view.role
<1>1. NoRow \in Rows
  BY StartingValues
<1>2. CASE page = "environments"
  <2>1. list \in {"active", "archived"}
    BY <1>2 DEF Lists
  <2>2. PICK r \in Rows : With(view, list) = [view EXCEPT ![list] = r]
    BY <1>1, <1>2 DEF With, GetEnvironments
  <2> QED BY <2>1, <2>2 DEF Views
<1>3. CASE page # "environments"
  <2>1. \E r \in Rows : With(view, list) = [view EXCEPT !.active = r]
    <3>1. view.active \in Rows
      BY DEF Views
    <3>2. [row EXCEPT !.invited = view.active.invited] \in Rows
          /\ [view.active EXCEPT !.invited = row.invited] \in Rows
      BY <3>1 DEF Rows
    <3>3. GetOrganizationMembers(view) = [view EXCEPT !.active = [row EXCEPT !.invited = view.active.invited]]
      BY DEF GetOrganizationMembers
    <3>4. GetPendingInvitations(view) = [view EXCEPT !.active = [view.active EXCEPT !.invited = row.invited]]
      BY DEF GetPendingInvitations, Views
    <3>5. GetRow(view) = [view EXCEPT !.active = row]
      BY DEF GetRow
    <3>6. With(view, list) \in {GetOrganizationMembers(view), GetPendingInvitations(view), GetRow(view)}
      BY <1>3 DEF With
    <3> QED BY <3>2, <3>3, <3>4, <3>5, <3>6
  <2>2. PICK r \in Rows : With(view, list) = [view EXCEPT !.active = r]
    BY <2>1
  <2> QED BY <2>2 DEF Views
<1> QED BY <1>2, <1>3

LEMMA LeavingKeepsTypes ==
    ASSUME Typed, Leave, UNCHANGED <<role, row, version, owed>>, mishaps' = mishaps
    PROVE  Typed'
<1>1. /\ page' = "elsewhere" /\ shown' = Blank /\ dialog' = Closed /\ local' = Fresh("none")
      /\ busy' = {} /\ queue' = <<>> /\ call' = Idle
  BY DEF Leave
<1>2. page' \in AllPages /\ page' \notin {"team", "projects"}
  BY <1>1 DEF AllPages
<1>3. queue' \in Seq(Entries(DOMAIN Handlers'))
  BY <1>1
<1> QED BY <1>1, <1>2, <1>3, StartingValues DEF Typed

LEMMA TypedInit == Init => Typed
<1> SUFFICES ASSUME Init
             PROVE  Typed
  OBVIOUS
<1>1. page \in Pages /\ role \in Roles /\ row \in Rows /\ version = 0 /\ owed = 0 /\ mishaps = 0
  BY DEF Init, InitialRows
<1>2. page \in AllPages /\ 0 \in 0..MaxVersion /\ 0 \in 0..MaxMishaps
  BY <1>1, ConstantsAssumption DEF AllPages
<1>3. PICK list \in {"active", "archived"} :
        /\ shown = [Blank EXCEPT !.role = role, ![list] = row, !.list = list]
        /\ list = "archived" => page = "environments"
  BY DEF Init
<1>4. shown \in Views /\ shown.list = list
  BY <1>1, <1>3, StartingValues DEF Views
<1>5. row.method \in Methods
  BY <1>1 DEF Rows
<1>6. dialog = Closed /\ local \in Locals /\ busy = {} /\ queue = <<>> /\ call = Idle
  BY <1>5, StartingValues DEF Init
<1>7. queue \in Seq(Entries(DOMAIN Handlers))
  BY <1>6
<1>8. version \in 0..MaxVersion /\ owed \in 0..version /\ mishaps \in 0..MaxMishaps
  BY <1>1, <1>2
<1>9. page \in {"team", "projects"} => shown.list = "active"
  BY <1>3, <1>4
<1>10. dialog \in OpenDialogs /\ dialog.open \notin CardDialogs /\ call \in Calls
  BY <1>6, StartingValues
<1> HIDE <1>3
<1> QED BY <1>1, <1>2, <1>4, <1>6, <1>7, <1>8, <1>9, <1>10 DEF Typed

\* What an open dialog is offered with.
LEMMA OfferTypes ==
    ASSUME Typed
    PROVE  /\ shown.version \in 0..MaxVersion /\ Target \in Rows /\ Target.method \in Methods
           /\ \A command : OfferedBy(command) \in 0..MaxVersion
           /\ \A d \in Offered : d \in Dialogs /\ d # "closed" /\ (d \in CardDialogs => shown.list # "nowhere")
<1>1. shown.version \in 0..MaxVersion /\ Target \in Rows /\ dialog.seen \in 0..MaxVersion
  BY DEF Typed, Views, Target, OpenDialogs
<1>2. \A command : OfferedBy(command) \in 0..MaxVersion
  BY <1>1 DEF OfferedBy
<1>3. \A d \in Offered : d \in Dialogs /\ d # "closed" /\ (d \in CardDialogs => shown.list # "nowhere")
  BY DEF Offered, EnvironmentDialogs, EnvironmentMenu, ProjectDialogs, ProjectsDialogs, TeamDialogs,
         Dialogs, CardDialogs
<1> QED BY <1>1, <1>2, <1>3 DEF Rows

LEMMA UserKeepsTypes ==
    ASSUME Typed, TheUser
    PROVE  Typed'
<1>t. /\ dialog \in OpenDialogs /\ local \in Locals /\ busy \subseteq Controls
      /\ queue \in Seq(Entries(Commands))
  BY DEF Typed, Commands
<1>1. ASSUME NEW d \in Dialogs, OpenDialog(d)
      PROVE  Typed'
  <2>1. dialog' = [open |-> d, seen |-> shown.version] /\ d \in Offered
        /\ UNCHANGED <<page, role, row, version, shown, local, busy, queue, call, owed, mishaps>>
    BY <1>1 DEF OpenDialog, stored
  <2>2. dialog' \in OpenDialogs /\ dialog'.open = d
    BY <2>1, OfferTypes DEF OpenDialogs
  <2> QED BY <2>1, <2>2, OfferTypes DEF Typed, Handlers
<1>2. ASSUME NEW command \in Commands, NEW arg \in Args(command), Submit(command, arg)
      PROVE  Typed'
  <2>1. /\ queue' = Append(queue, Entry(command, arg, OfferedBy(command)))
        /\ busy' = busy \cup {Handlers[command].control}
        /\ UNCHANGED <<page, role, row, version, shown, dialog, call, owed, mishaps>>
    BY <1>2 DEF Submit, stored
  <2>2. Entry(command, arg, OfferedBy(command)) \in Entries(Commands)
    BY OfferTypes, ArgTypes DEF Entry, Entries
  <2>3. queue' \in Seq(Entries(Commands))
    BY <1>t, <2>1, <2>2
  <2>4. Handlers[command].control \in Controls
        /\ (Handlers[command].control = "method" => arg \in Methods)
    BY FirstIsTyped, ArgTypes DEF IsHandler, HandlerTypes
  <2>5. local' \in Locals
    <3> DEFINE control == Handlers[command].control
    <3>1. local' = [local EXCEPT !.link = @ /\ control # "invite",
                                 !.panel = IF control = "method" THEN arg ELSE @]
      BY <1>2 DEF Submit
    <3>2. control = "method" => arg \in Methods
      BY <2>4
    <3> HIDE DEF control
    <3> QED BY <1>t, <3>1, <3>2 DEF Locals
  <2> QED BY <1>t, <2>1, <2>3, <2>4, <2>5 DEF Typed, Handlers, Commands
<1>3. ASSUME NEW form \in Forms, EditForm(form)
      PROVE  Typed'
  <2>1. local' = [local EXCEPT !.edited = SymDiff(@, {form})]
        /\ UNCHANGED <<page, role, row, version, shown, dialog, busy, queue, call, owed, mishaps>>
    BY <1>3 DEF EditForm, stored
  <2>2. local' \in Locals
    BY <1>t, <2>1 DEF Locals, SymDiff
  <2> QED BY <2>1, <2>2 DEF Typed, Handlers
<1>4. CASE CloseDialog
  <2>1. /\ dialog' = Closed /\ queue' = Disowned /\ busy' \subseteq busy
        /\ UNCHANGED <<page, role, row, version, shown, call, owed, mishaps>>
    BY <1>4 DEF CloseDialog, stored
  <2>2. local' \in Locals
    <3>1. \/ local' = [Fresh(Target.method) EXCEPT !.link = local.link]
          \/ local' = [local EXCEPT !.link = FALSE]
          \/ local' = local
      BY <1>4 DEF CloseDialog
    <3>2. Fresh(Target.method) \in Locals
      BY OfferTypes, StartingValues
    <3> QED BY <1>t, <3>1, <3>2 DEF Locals
  <2>3. queue' \in Seq(Entries(Commands))
    BY <2>1, Disowning
  <2> QED BY <1>t, <2>1, <2>2, <2>3, StartingValues DEF Typed, Handlers, Commands
<1>5. CASE SelectStoredState
  <2>1. local' = [local EXCEPT !.panel = "stored_state"]
        /\ UNCHANGED <<page, role, row, version, shown, dialog, busy, queue, call, owed, mishaps>>
    BY <1>5 DEF SelectStoredState, stored
  <2>2. local' \in Locals
    BY <1>t, <2>1 DEF Locals, Methods
  <2> QED BY <2>1, <2>2 DEF Typed, Handlers
<1>6. CASE PasteState
  <2>1. local' = [local EXCEPT !.pasted = TRUE]
        /\ UNCHANGED <<page, role, row, version, shown, dialog, busy, queue, call, owed, mishaps>>
    BY <1>6 DEF PasteState, stored
  <2>2. local' \in Locals
    BY <1>t, <2>1 DEF Locals
  <2> QED BY <2>1, <2>2 DEF Typed, Handlers
<1>7. CASE NavigateAway
  BY <1>7, LeavingKeepsTypes DEF NavigateAway, stored
<1> QED BY <1>1, <1>2, <1>3, <1>4, <1>5, <1>6, <1>7 DEF TheUser, Commands

LEMMA OthersKeepTypes ==
    ASSUME Typed, StepInv, Others
    PROVE  Typed'
<1>1. version + UnderWay < MaxVersion
  BY DEF Others, OthersWrite, OthersChangeRole, OthersChangeOwners
<1>2. version \in Nat /\ MaxVersion \in Nat /\ UnderWay \in Nat /\ owed \in 0..version
  <2>1. version \in 0..MaxVersion /\ owed \in 0..version /\ queue \in Seq(Entries(DOMAIN Handlers))
    BY DEF Typed
  <2>2. MaxVersion \in Nat
    BY StartingValues
  <2>3. UnderWay \in Nat
    BY <2>1, UnwrittenIsUnderWay
  <2> QED BY <2>1, <2>2, <2>3
<1>3. version + 1 \in 0..MaxVersion /\ owed \in 0..(version + 1)
  BY <1>1, <1>2
<1>4. ASSUME NEW command \in Commands, NEW arg \in Args(command), OthersWrite(command, arg)
      PROVE  Typed'
  <2>1. row' = Effect(command, arg) /\ role' = RoleAfter(command, arg) /\ version' = version + 1
        /\ UNCHANGED <<page, shown, dialog, local, busy, queue, call, owed, mishaps>>
    BY <1>4 DEF OthersWrite, tab
  <2>2. row' \in Rows /\ role' \in Roles \cup {NoRole}
    BY <2>1, EffectIsTyped, RoleAfterIsTyped DEF Typed
  <2> QED BY <1>3, <2>1, <2>2 DEF Typed, Handlers
<1>5. ASSUME NEW r \in Roles \cup {NoRole}, OthersChangeRole(r)
      PROVE  Typed'
  <2>1. role' = r /\ version' = version + 1
        /\ UNCHANGED <<page, shown, dialog, local, busy, queue, call, owed, mishaps>>
    BY <1>5 DEF OthersChangeRole, tab
  <2>2. \/ row' = row
        \/ row' = [row EXCEPT !.exists = (r # NoRole), !.owner = (r = "owner")]
        \/ \E others \in BOOLEAN : row' = [row EXCEPT !.others = others]
    BY <1>5 DEF OthersChangeRole
  <2>3. row' \in Rows
    BY <2>2 DEF Typed, Rows
  <2> QED BY <1>3, <2>1, <2>3 DEF Typed, Handlers
<1>6. CASE OthersChangeOwners
  <2>1. row' = [row EXCEPT !.others = ~@] /\ version' = version + 1
        /\ UNCHANGED <<page, role, shown, dialog, local, busy, queue, call, owed, mishaps>>
    BY <1>6 DEF OthersChangeOwners, tab
  <2>2. row' \in Rows
    BY <2>1 DEF Typed, Rows
  <2> QED BY <1>3, <2>1, <2>2 DEF Typed, Handlers
<1> QED BY <1>4, <1>5, <1>6 DEF Others, Commands

LEMMA RouterKeepsTypes ==
    ASSUME Typed, StepInv, TheRouter
    PROVE  Typed'
<1>t. call \in Calls /\ call.view \in Views /\ shown \in Views /\ version \in 0..MaxVersion
      /\ owed \in 0..version /\ MaxVersion \in Nat /\ queue \in Seq(Entries(Commands))
  BY StartingValues DEF Typed, Calls, Commands
<1>1. CASE CheckRole
  <2>1. \/ call' = [call EXCEPT !.step = "write"]
        \/ call' = [call EXCEPT !.step = "answer", !.result = "denied"]
    BY <1>1 DEF CheckRole
  <2>2. UNCHANGED <<page, role, row, version, shown, dialog, local, busy, queue, owed, mishaps>>
    BY <1>1 DEF CheckRole, stored, tab
  <2>3. call' \in Calls
    BY <1>t, <2>1 DEF Calls
  <2> QED BY <2>2, <2>3 DEF Typed, Handlers
<1>2. CASE Write
  <2> DEFINE entry == Head(queue)
             outcome == Outcome(entry.command, entry.arg)
  <2>1. /\ Acting /\ call.step = "write" /\ call' = [call EXCEPT !.step = "answer", !.result = outcome]
        /\ \/ row' = row /\ role' = role /\ version' = version /\ owed' = owed
           \/ /\ row' = Effect(entry.command, entry.arg) /\ role' = RoleAfter(entry.command, entry.arg)
              /\ version' = version + 1 /\ owed' = version + 1
        /\ UNCHANGED <<page, shown, dialog, local, busy, queue, mishaps>>
    BY <1>2 DEF Write, tab
  <2>2. call' \in Calls
    <3>1. outcome \in {"done", "nothing", "denied", "failed"}
      BY DEF Outcome
    <3> HIDE DEF outcome
    <3> QED BY <1>t, <2>1, <3>1 DEF Calls
  <2>3. row' \in Rows /\ role' \in Roles \cup {NoRole}
    <3>1. entry.arg \in Args(entry.command)
      BY <2>1, FirstIsTyped DEF StepInv
    <3> QED BY <2>1, <3>1, EffectIsTyped, RoleAfterIsTyped DEF Typed
  <2>4. version' \in 0..MaxVersion /\ owed' \in 0..version'
    <3>1. Cardinality(Unwritten(queue, "answer")) = Cardinality(Unwritten(queue, "write")) - 1
      BY <1>t, <2>1, WrittenUnwritten DEF Acting
    <3>2. Cardinality(Unwritten(queue, "answer")) \in Nat /\ Cardinality(Unwritten(queue, "write")) \in Nat
      BY <1>t, UnwrittenIsFinite
    <3>3. version + Cardinality(Unwritten(queue, "write")) <= MaxVersion
      BY <2>1 DEF StepInv
    <3>4. version + 1 \in 0..MaxVersion
      BY <1>t, <3>1, <3>2, <3>3
    <3> QED BY <1>t, <2>1, <3>4
  <2> QED BY <2>1, <2>2, <2>3, <2>4 DEF Typed, Handlers
<1>3. ASSUME NEW withLink \in BOOLEAN, Answer(withLink)
      PROVE  Typed'
  <2>1. UNCHANGED <<role, row, version, owed, mishaps>>
        /\ (AnswerLeaves => Leave) /\ (~AnswerLeaves => AnswerStays(withLink))
    BY <1>3, Answering
  <2>2. CASE AnswerLeaves
    BY <2>1, <2>2, LeavingKeepsTypes
  <2>3. CASE ~AnswerLeaves
    <3>1. AnswerStays(withLink)
      BY <2>1, <2>3
    <3>2. /\ page' = page /\ shown' = shown /\ call' = Idle /\ local' \in Locals
          /\ queue' \in Seq(Entries(Commands)) /\ busy' \subseteq busy
          /\ dialog' = Closed \/ dialog' = dialog
      BY <3>1 DEF AnswerStays
    <3> QED BY <2>1, <3>2, StartingValues DEF Typed, Handlers, Commands
  <2> QED BY <2>2, <2>3
<1>4. CASE ReadRole
  <2>1. call' = [call EXCEPT !.step = "lists", !.left = Lists,
                             !.view = [Blank EXCEPT !.role = role, !.version = version]]
        /\ UNCHANGED <<page, role, row, version, shown, dialog, local, busy, queue, owed, mishaps>>
    BY <1>4 DEF ReadRole, stored, tab
  <2>2. [Blank EXCEPT !.role = role, !.version = version] \in Views
    BY StartingValues DEF Typed, Views
  <2>3. Lists \in SUBSET {"active", "archived", "invitations"}
    BY DEF Lists
  <2>4. call' \in Calls
    BY <1>t, <2>1, <2>2, <2>3 DEF Calls
  <2> QED BY <2>1, <2>4 DEF Typed, Handlers
<1>5. CASE Arrive
  <2>1. UNCHANGED <<role, row, version, owed, mishaps>>
        /\ (Leave \/ \E list \in {"active", "archived", "nowhere"} : ArriveStays(list))
    BY <1>5, Arriving
  <2>2. CASE Leave
    BY <2>1, <2>2, LeavingKeepsTypes
  <2>3. ASSUME NEW list \in {"active", "archived", "nowhere"}, ArriveStays(list)
        PROVE  Typed'
    <3>1. /\ page' = page /\ call' = Idle /\ local' \in Locals /\ busy' \subseteq busy
          /\ queue' \in Seq(Entries(Commands)) /\ list \in Continues(call.view)
          /\ shown' = [call.view EXCEPT !.list = list]
          /\ dialog' = IF Closes(Gone(list)) THEN Closed ELSE dialog
      BY <2>3 DEF ArriveStays
    <3>2. shown' \in Views /\ shown'.list = list
      BY <1>t, <3>1 DEF Views
    <3>3. dialog'.open \in CardDialogs => list # "nowhere"
      <4>1. SUFFICES ASSUME dialog'.open \in CardDialogs, list # shown.list
                     PROVE  FALSE
        BY <3>1, StartingValues DEF Typed
      <4>2. "card" \in Gone(list)
        BY <4>1 DEF Gone, CardControls
      <4>3. dialog' = dialog /\ ~Closes(Gone(list))
        BY <3>1, <4>1, StartingValues
      <4>4. dialog.open \in CardDialogs /\ "card" \in Gone(list) => Closes(Gone(list))
        BY DEF Closes, CardDialogs
      <4> QED BY <4>1, <4>2, <4>3, <4>4
    <3>4. page \in {"team", "projects"} => list = "active"
      BY <3>1, ContinuedLists DEF Typed
    <3>5. dialog' \in OpenDialogs
      BY <3>1, StartingValues DEF Typed
    <3> QED BY <2>1, <3>1, <3>2, <3>3, <3>4, <3>5, StartingValues DEF Typed, Handlers, Commands
  <2> QED BY <2>1, <2>2, <2>3
<1>6. ASSUME NEW list \in Lists, ReadList(list)
      PROVE  Typed'
  <2>1. call' = [call EXCEPT !.left = @ \ {list}, !.view = With(@, list)]
        /\ UNCHANGED <<page, role, row, version, shown, dialog, local, busy, queue, owed, mishaps>>
    BY <1>6 DEF ReadList, stored, tab
  <2>2. With(call.view, list) \in Views
    BY <1>t, ReadIsTyped DEF Typed
  <2>3. call' \in Calls
    BY <1>t, <2>1, <2>2 DEF Calls
  <2> QED BY <2>1, <2>3 DEF Typed, Handlers
<1> QED BY <1>1, <1>2, <1>3, <1>4, <1>5, <1>6 DEF TheRouter

LEMMA MishapKeepsTypes ==
    ASSUME Typed, Mishap
    PROVE  Typed'
<1>1. mishaps \in 0..MaxMishaps /\ MaxMishaps \in Nat /\ call \in Calls
  BY ConstantsAssumption DEF Typed
<1>2. /\ mishaps < MaxMishaps /\ mishaps' = mishaps + 1
      /\ \/ call' = [call EXCEPT !.step = "answer", !.result = "failed"]
         \/ \E list \in Lists : call' = [call EXCEPT !.left = @ \ {list}]
      /\ UNCHANGED <<page, role, row, version, shown, dialog, local, busy, queue, owed>>
  BY DEF Mishap, WriteFails, ReadFails, stored, tab
<1>3. call' \in Calls
  BY <1>1, <1>2 DEF Calls
<1>4. mishaps' \in 0..MaxMishaps
  BY <1>1, <1>2
<1> QED BY <1>2, <1>3, <1>4 DEF Typed, Handlers

LEMMA TypedNext ==
    ASSUME Typed, StepInv, [Next]_vars
    PROVE  Typed'
<1>1. CASE UNCHANGED vars
  BY <1>1 DEF vars, Typed, Handlers
<1> QED BY <1>1, UserKeepsTypes, OthersKeepTypes, RouterKeepsTypes, MishapKeepsTypes DEF Next

-----------------------------------------------------------------------------
(* The member and the user keep fitting each other: whoever writes, the    *)
(* trigger leaves the organization an owner.                               *)

LEMMA SameFit ==
    ASSUME FitInv, page' = page \/ page' = "elsewhere", UNCHANGED <<role, row>>
    PROVE  FitInv'
BY DEF FitInv, OwnersFit, NoRole

LEMMA WrittenFits ==
    ASSUME Typed, FitInv, NEW command \in Commands, NEW arg,
           command \in {"changeMemberRole", "removeMember"} => row.exists,
           ~PreventLastOwnerRemoval(command, arg), page' = page,
           row' = Effect(command, arg), role' = RoleAfter(command, arg)
    PROVE  FitInv'
<1> SUFFICES ASSUME page = "team"
             PROVE  OwnersFit'
  BY DEF FitInv
<1>1. command \in {"changeMemberRole", "removeMember", "revokeInvitation", "resendInvitation", "inviteMember"}
  BY TeamHandlers DEF Commands, Handlers
<1>2. row \in Rows /\ OwnersFit /\ row' = TeamEffect(command, arg)
  BY DEF Typed, FitInv, Effect
<1>3. CASE command = "changeMemberRole"
  <2>1. row' = [row EXCEPT !.owner = (arg = "owner")] /\ row.exists
    BY <1>2, <1>3 DEF TeamEffect
  <2>2. role' = IF ~row.self THEN role ELSE IF arg = "owner" THEN "owner" ELSE "developer"
    BY <1>3 DEF RoleAfter
  <2>3. arg # "owner" => ~row.owner \/ row.others
    BY <1>3 DEF PreventLastOwnerRemoval, IsLastOwner
  <2> QED BY <1>2, <2>1, <2>2, <2>3 DEF OwnersFit, Rows, NoRole
<1>4. CASE command = "removeMember"
  <2>1. row' = [row EXCEPT !.exists = FALSE, !.owner = FALSE]
    BY <1>2, <1>4 DEF TeamEffect
  <2>2. role' = IF ~row.self THEN role ELSE NoRole
    BY <1>4 DEF RoleAfter
  <2>3. ~row.owner \/ row.others
    BY <1>4 DEF PreventLastOwnerRemoval, IsLastOwner
  <2> QED BY <1>2, <2>1, <2>2, <2>3 DEF OwnersFit, Rows, NoRole
<1>5. CASE command \notin {"changeMemberRole", "removeMember"}
  <2>1. row' = row \/ \E invited \in BOOLEAN : row' = [row EXCEPT !.invited = invited]
    BY <1>2, <1>5 DEF TeamEffect
  <2>2. role' = role
    BY <1>5 DEF RoleAfter
  <2> QED BY <1>2, <2>1, <2>2 DEF OwnersFit, Rows
<1> QED BY <1>1, <1>3, <1>4, <1>5

LEMMA OthersKeepFit ==
    ASSUME Typed, FitInv, Others
    PROVE  FitInv'
<1>1. ASSUME NEW command \in Commands, NEW arg \in Args(command), OthersWrite(command, arg)
      PROVE  FitInv'
  BY <1>1, WrittenFits DEF OthersWrite, Inserts
<1>2. ASSUME NEW r \in Roles \cup {NoRole}, OthersChangeRole(r), page = "team"
      PROVE  OwnersFit'
  <2>1. row \in Rows /\ OwnersFit /\ role' = r
    BY <1>2 DEF Typed, FitInv, OthersChangeRole
  <2>2. CASE row.self
    <3>1. /\ row' = [row EXCEPT !.exists = (r # NoRole), !.owner = (r = "owner")]
          /\ r # "owner" => ~row.owner \/ row.others
      BY <1>2, <2>2 DEF OthersChangeRole, IsLastOwner
    <3> QED BY <2>1, <2>2, <3>1 DEF OwnersFit, Rows, NoRole
  <2>3. CASE ~row.self
    <3>1. PICK others \in BOOLEAN :
            (r = "owner" \/ ~row.owner => others) /\ row' = [row EXCEPT !.others = others]
      BY <1>2, <2>3 DEF OthersChangeRole
    <3> QED BY <2>1, <2>3, <3>1 DEF OwnersFit, Rows
  <2> QED BY <2>2, <2>3
<1>3. ASSUME OthersChangeOwners
      PROVE  OwnersFit'
  <2>1. row \in Rows /\ OwnersFit /\ role' = role /\ row' = [row EXCEPT !.others = ~@]
    BY <1>3 DEF Typed, FitInv, OthersChangeOwners
  <2>2. row.others => row.owner /\ (row.self \/ role # "owner")
    BY <1>3 DEF OthersChangeOwners
  <2> QED BY <2>1, <2>2 DEF OwnersFit, Rows
<1>4. Others => page' = page
  BY DEF Others, OthersWrite, OthersChangeRole, OthersChangeOwners
<1> QED BY <1>1, <1>2, <1>3, <1>4 DEF Others, Commands, FitInv

LEMMA RouterKeepsFit ==
    ASSUME Typed, FitInv, TheRouter
    PROVE  FitInv'
<1>1. CASE Write
  <2> DEFINE entry == Head(queue)
             writes == Outcome(entry.command, entry.arg) = "done" /\ Writes(entry.command)
  <2>1. /\ page' = page /\ entry.command \in Commands
        /\ row' = IF writes THEN Effect(entry.command, entry.arg) ELSE row
        /\ role' = IF writes THEN RoleAfter(entry.command, entry.arg) ELSE role
    BY <1>1, FirstIsTyped DEF Write
  <2>2. writes =>
          /\ entry.command \in {"changeMemberRole", "removeMember"} => row.exists
          /\ ~PreventLastOwnerRemoval(entry.command, entry.arg)
    BY DEF Outcome, Inserts
  <2> HIDE DEF writes
  <2> QED BY <2>1, <2>2, SameFit, WrittenFits
<1>2. CASE \E withLink \in BOOLEAN : Answer(withLink)
  <2>1. UNCHANGED <<role, row>> /\ (page' = page \/ page' = "elsewhere")
    BY <1>2, Answering DEF Leave, AnswerStays
  <2> QED BY <2>1, SameFit
<1>3. CASE Arrive
  <2>1. UNCHANGED <<role, row>> /\ (page' = page \/ page' = "elsewhere")
    BY <1>3, Arriving DEF Leave, ArriveStays
  <2> QED BY <2>1, SameFit
<1>4. CASE UNCHANGED <<page, role, row>>
  BY <1>4, SameFit
<1> QED BY <1>1, <1>2, <1>3, <1>4 DEF TheRouter, CheckRole, ReadRole, ReadList, stored

LEMMA FitInit == Init => FitInv
BY DEF Init, FitInv

LEMMA FitNext ==
    ASSUME Typed, FitInv, [Next]_vars
    PROVE  FitInv'
<1>1. CASE UNCHANGED vars
  BY <1>1, SameFit DEF vars
<1>2. CASE TheUser
  <2>1. UNCHANGED <<role, row>> /\ (page' = page \/ page' = "elsewhere")
    BY <1>2
       DEF TheUser, OpenDialog, Submit, EditForm, CloseDialog, SelectStoredState, PasteState,
           NavigateAway, Leave, stored
  <2> QED BY <2>1, SameFit
<1>3. CASE Mishap
  BY <1>3, SameFit DEF Mishap, WriteFails, ReadFails, stored
<1> QED BY <1>1, <1>2, <1>3, OthersKeepFit, RouterKeepsFit DEF Next

-----------------------------------------------------------------------------
(* How far the first action is, and how many are left.                     *)

LEMMA Counted ==
    ASSUME Typed, NEW step
    PROVE  /\ Cardinality(Unwritten(queue, step)) \in Nat /\ version \in Nat /\ MaxVersion \in Nat
           /\ Cardinality(Unwritten(queue, step)) <= UnderWay /\ UnderWay \in Nat
           /\ queue \in Seq(Entries(Commands))
<1>1. queue \in Seq(Entries(Commands)) /\ version \in Nat /\ MaxVersion \in Nat
  <2>1. queue \in Seq(Entries(Commands)) /\ version \in 0..MaxVersion
    BY DEF Typed, Commands
  <2>2. MaxVersion \in Nat
    BY StartingValues
  <2> QED BY <2>1, <2>2
<1>2. Cardinality(Unwritten(queue, step)) \in Nat
  BY <1>1, UnwrittenIsFinite
<1>3. Cardinality(Unwritten(queue, step)) <= UnderWay /\ UnderWay \in Nat
  BY <1>1, UnwrittenIsUnderWay
<1> QED BY <1>1, <1>2, <1>3

LEMMA LeavingKeepsStep ==
    ASSUME Typed, Leave, version' = version
    PROVE  StepInv'
<1>1. page' = "elsewhere" /\ queue' = <<>> /\ call' = Idle
  BY DEF Leave
<1>2. version \in 0..MaxVersion /\ MaxVersion \in Nat
  BY StartingValues DEF Typed
<1>3. Cardinality(Unwritten(<<>>, "start")) = 0
  BY NoneUnwritten
<1>4. version' + Cardinality(Unwritten(queue', call'.step)) <= MaxVersion
  <2>1. Cardinality(Unwritten(queue', call'.step)) = 0
    BY <1>1, <1>3, StartingValues
  <2> QED BY <1>2, <2>1
<1>5. DOMAIN queue' = {}
  BY <1>1
<1> QED BY <1>1, <1>4, <1>5, StartingValues DEF StepInv

LEMMA UserKeepsStep ==
    ASSUME Typed, StepInv, TheUser
    PROVE  StepInv'
<1>1. CASE UNCHANGED <<page, version, queue, call>>
  BY <1>1 DEF StepInv, Acting, Refreshing
<1>2. ASSUME NEW command \in Commands, NEW arg \in Args(command), Submit(command, arg)
      PROVE  StepInv'
  <2> DEFINE e == Entry(command, arg, OfferedBy(command))
  <2>1. /\ queue' = Append(queue, e) /\ version + UnderWay < MaxVersion
        /\ UNCHANGED <<page, version, call>>
    BY <1>2 DEF Submit, stored
  <2>2. e \in Entries(Commands) /\ e.arg = arg /\ e.command = command
    BY OfferTypes, ArgTypes DEF Entry, Entries
  <2>3. Cardinality(Unwritten(queue', call.step)) <= Cardinality(Unwritten(queue, call.step)) + 1
        /\ Cardinality(Unwritten(queue', call.step)) \in Nat
    <3>1. queue' \in Seq(Entries(Commands)) /\ queue \in Seq(Entries(Commands))
      BY <2>1, <2>2, Counted
    <3> HIDE DEF e
    <3> QED BY <2>1, <2>2, <3>1, AppendedUnwritten, UnwrittenIsFinite
  <2>4. version + Cardinality(Unwritten(queue', call.step)) <= MaxVersion
    <3>1. /\ Cardinality(Unwritten(queue, call.step)) \in Nat /\ version \in Nat /\ MaxVersion \in Nat
          /\ Cardinality(Unwritten(queue, call.step)) <= UnderWay /\ UnderWay \in Nat
      BY Counted
    <3> QED BY <2>1, <2>3, <3>1
  <2> HIDE DEF e
  <2>5. /\ queue' # <<>> /\ (queue # <<>> => Head(queue') = Head(queue))
        /\ DOMAIN queue' = 1..(Len(queue) + 1) /\ DOMAIN queue = 1..Len(queue) /\ Len(queue) \in Nat
        /\ queue'[Len(queue) + 1] = e /\ \A i \in 1..Len(queue) : queue'[i] = queue[i]
    BY <2>1, <2>2, Counted, LastOfQueue
  <2>6. \A i \in DOMAIN queue' : queue'[i].arg \in Args(queue'[i].command)
    <3>1. \A i \in DOMAIN queue' : i \in DOMAIN queue \/ i = Len(queue) + 1
      BY <2>5
    <3> QED BY <2>2, <2>5, <3>1 DEF StepInv
  <2>7. page # "elsewhere"
    BY SettingsHandlers DEF Commands, Handlers
  <2> QED BY <2>1, <2>4, <2>5, <2>6, <2>7 DEF StepInv, Acting, Refreshing
<1>3. CASE CloseDialog
  <2>1. queue' = Disowned /\ UNCHANGED <<page, version, call>>
    BY <1>3 DEF CloseDialog, stored
  <2>2. queue' \in Seq(Entries(Commands)) /\ Alike(queue', queue) /\ queue \in Seq(Entries(Commands))
    BY <2>1, Disowning, Counted
  <2>3. (queue' = <<>> <=> queue = <<>>) /\ (queue # <<>> => Head(queue').command = Head(queue).command)
    BY <2>2, AlikeFirst
  <2>4. Unwritten(queue', call.step) = Unwritten(queue, call.step)
    BY <2>2, AlikeUnwritten
  <2>5. \A i \in DOMAIN queue' : queue'[i].arg \in Args(queue'[i].command)
    BY <2>2 DEF Alike, StepInv
  <2> QED BY <2>1, <2>3, <2>4, <2>5 DEF StepInv, Acting, Refreshing
<1>4. CASE NavigateAway
  BY <1>4, LeavingKeepsStep DEF NavigateAway, stored
<1> QED BY <1>1, <1>2, <1>3, <1>4
        DEF TheUser, OpenDialog, EditForm, SelectStoredState, PasteState, stored, Commands

LEMMA OthersKeepStep ==
    ASSUME Typed, StepInv, Others
    PROVE  StepInv'
<1>1. version + UnderWay < MaxVersion /\ version' = version + 1 /\ UNCHANGED <<page, queue, call>>
  BY DEF Others, OthersWrite, OthersChangeRole, OthersChangeOwners
<1>2. /\ Cardinality(Unwritten(queue, call.step)) \in Nat /\ version \in Nat /\ MaxVersion \in Nat
      /\ Cardinality(Unwritten(queue, call.step)) <= UnderWay /\ UnderWay \in Nat
  BY Counted
<1>3. version' + Cardinality(Unwritten(queue, call.step)) <= MaxVersion
  BY <1>1, <1>2
<1> QED BY <1>1, <1>3 DEF StepInv, Acting, Refreshing

\* What is left when the first action has gone.
LEMMA RestKeepsStep ==
    ASSUME Typed, StepInv, queue # <<>>, call.step = "answer" \/ Refreshing,
           NEW r \in Seq(Entries(Commands)), r = Tail(queue) \/ r = Append(Tail(queue), Refresh),
           queue' \in Seq(Entries(Commands)), Alike(queue', r), call' = Idle,
           UNCHANGED <<page, version>>
    PROVE  StepInv'
<1>1. queue \in Seq(Entries(Commands)) /\ version \in Nat /\ MaxVersion \in Nat
      /\ Cardinality(Unwritten(queue, call.step)) \in Nat
  BY Counted
<1>2. Tail(queue) \in Seq(Entries(Commands))
      /\ \A i \in DOMAIN Tail(queue) : Tail(queue)[i].arg \in Args(Tail(queue)[i].command)
  BY TailIsTyped DEF StepInv
<1>3. Cardinality(Unwritten(Tail(queue), "start")) <= Cardinality(Unwritten(queue, call.step))
      /\ Cardinality(Unwritten(Tail(queue), "start")) \in Nat
  BY <1>1, <1>2, TailUnwritten, UnwrittenIsFinite DEF Refreshing
<1>4. Unwritten(r, "start") = Unwritten(Tail(queue), "start")
      /\ \A i \in DOMAIN r : r[i].arg \in Args(r[i].command)
  <2>1. ASSUME r = Append(Tail(queue), Refresh)
        PROVE  Unwritten(r, "start") = Unwritten(Tail(queue), "start")
               /\ \A i \in DOMAIN r : r[i].arg \in Args(r[i].command)
    <3>1. Refresh \in Entries(Commands) /\ Refresh.command = "refresh"
      BY RefreshIsTyped
    <3>2. Refresh.arg \in Args(Refresh.command)
      BY DEF Refresh, Entry, Args
    <3>3. PICK n \in Nat : /\ DOMAIN Tail(queue) = 1..n /\ DOMAIN r = 1..(n + 1) /\ r[n + 1] = Refresh
                           /\ \A i \in 1..n : r[i] = Tail(queue)[i]
      <4>1. Len(Tail(queue)) \in Nat
        BY <1>2
      <4>2. /\ DOMAIN Tail(queue) = 1..Len(Tail(queue))
            /\ DOMAIN r = 1..(Len(Tail(queue)) + 1) /\ r[Len(Tail(queue)) + 1] = Refresh
            /\ \A i \in 1..Len(Tail(queue)) : r[i] = Tail(queue)[i]
        <5> HIDE DEF Refresh
        <5> QED BY <1>2, <2>1, <3>1, LastOfQueue
      <4> QED BY <4>1, <4>2
    <3>4. \A i \in DOMAIN r : i \in DOMAIN Tail(queue) \/ i = n + 1
      BY <3>3
    <3>5. n + 1 \notin DOMAIN Tail(queue) /\ DOMAIN Tail(queue) \subseteq DOMAIN r
      BY <3>3
    <3>6. \A i \in DOMAIN Tail(queue) : r[i] = Tail(queue)[i]
      BY <3>3
    <3>7. r[n + 1].command = "refresh" /\ r[n + 1].arg \in Args(r[n + 1].command)
      BY <3>1, <3>2, <3>3
    <3>8. \A i \in DOMAIN r : r[i].command # "refresh" => i \in DOMAIN Tail(queue)
      BY <3>4, <3>7
    <3> HIDE <2>1, <3>3
    <3> QED BY <1>2, <3>4, <3>5, <3>6, <3>7, <3>8 DEF Unwritten
  <2> QED BY <1>2, <2>1
<1>5. Unwritten(queue', "start") = Unwritten(r, "start")
      /\ \A i \in DOMAIN queue' : queue'[i].arg \in Args(queue'[i].command)
  BY <1>4, AlikeUnwritten DEF Alike
<1>6. version + Cardinality(Unwritten(queue', "start")) <= MaxVersion
  <2>1. version + Cardinality(Unwritten(queue, call.step)) <= MaxVersion
    BY DEF StepInv
  <2>2. Cardinality(Unwritten(queue', "start")) = Cardinality(Unwritten(Tail(queue), "start"))
    BY <1>4, <1>5
  <2> QED BY <1>1, <1>3, <2>1, <2>2
<1>7. page # "elsewhere"
  BY DEF StepInv
<1> QED BY <1>5, <1>6, <1>7, StartingValues DEF StepInv

LEMMA RouterKeepsStep ==
    ASSUME Typed, StepInv, TheRouter
    PROVE  StepInv'
<1>t. call \in Calls /\ queue \in Seq(Entries(Commands)) /\ version \in Nat /\ MaxVersion \in Nat
  BY Counted DEF Typed
<1>1. CASE CheckRole
  <2>1. /\ Acting /\ call.step = "start"
        /\ \/ call' = [call EXCEPT !.step = "write"]
           \/ call' = [call EXCEPT !.step = "answer", !.result = "denied"]
        /\ UNCHANGED <<page, version, queue>>
    BY <1>1 DEF CheckRole, stored
  <2>2. call'.step \in {"write", "answer"} /\ (call'.step = "write" => call'.result = call.result)
    BY <1>t, <2>1 DEF Calls
  <2>3. Cardinality(Unwritten(queue, call'.step)) <= Cardinality(Unwritten(queue, call.step))
        /\ Cardinality(Unwritten(queue, call'.step)) \in Nat
    BY <1>t, <2>1, StartedUnwritten, UnwrittenIsFinite
  <2>4. version + Cardinality(Unwritten(queue, call'.step)) <= MaxVersion
    <3>1. version + Cardinality(Unwritten(queue, call.step)) <= MaxVersion
          /\ Cardinality(Unwritten(queue, call.step)) \in Nat
      BY Counted DEF StepInv
    <3> QED BY <1>t, <2>3, <3>1
  <2> QED BY <2>1, <2>2, <2>4 DEF StepInv, Acting, Refreshing
<1>2. CASE Write
  <2>1. /\ Acting /\ call.step = "write" /\ call'.step = "answer"
        /\ version' \in {version, version + 1} /\ UNCHANGED <<page, queue>>
    BY <1>2, <1>t DEF Write, Calls
  <2>2. Cardinality(Unwritten(queue, "answer")) = Cardinality(Unwritten(queue, "write")) - 1
    BY <1>t, <2>1, WrittenUnwritten DEF Acting
  <2>3. Cardinality(Unwritten(queue, "answer")) \in Nat /\ Cardinality(Unwritten(queue, "write")) \in Nat
    BY <1>t, UnwrittenIsFinite
  <2>4. version + Cardinality(Unwritten(queue, "write")) <= MaxVersion
    BY <2>1 DEF StepInv
  <2>5. version' + Cardinality(Unwritten(queue, "answer")) <= MaxVersion
    BY <1>t, <2>1, <2>2, <2>3, <2>4
  <2> QED BY <2>1, <2>5 DEF StepInv, Acting, Refreshing
<1>3. ASSUME NEW withLink \in BOOLEAN, Answer(withLink)
      PROVE  StepInv'
  <2>1. /\ Acting /\ call.step = "answer" /\ queue # <<>> /\ version' = version
        /\ (AnswerLeaves => Leave) /\ (~AnswerLeaves => AnswerStays(withLink))
    BY <1>3, Answering DEF Acting
  <2>2. CASE AnswerLeaves
    BY <2>1, <2>2, LeavingKeepsStep
  <2>3. CASE ~AnswerLeaves
    <3>1. /\ page' = page /\ call' = Idle
          /\ queue' \in Seq(Entries(Commands)) /\ Alike(queue', Rest)
      BY <2>1, <2>3 DEF AnswerStays
    <3>2. Rest \in Seq(Entries(Commands)) /\ (Rest = Tail(queue) \/ Rest = Append(Tail(queue), Refresh))
      BY <2>1, RestIsTyped DEF Rest
    <3> QED BY <2>1, <3>1, <3>2, RestKeepsStep
  <2> QED BY <2>2, <2>3
<1>4. CASE ReadRole
  <2>1. /\ Refreshing /\ call.step = "start" /\ UNCHANGED <<page, version, queue>>
        /\ call'.step = "lists" /\ call'.result = call.result
    BY <1>4, <1>t DEF ReadRole, stored, Calls
  <2>2. Cardinality(Unwritten(queue, call'.step)) <= Cardinality(Unwritten(queue, call.step))
        /\ Cardinality(Unwritten(queue, call'.step)) \in Nat
    BY <1>t, <2>1, StartedUnwritten, UnwrittenIsFinite
  <2>3. version + Cardinality(Unwritten(queue, call'.step)) <= MaxVersion
    <3>1. version + Cardinality(Unwritten(queue, call.step)) <= MaxVersion
          /\ Cardinality(Unwritten(queue, call.step)) \in Nat
      BY Counted DEF StepInv
    <3> QED BY <1>t, <2>2, <3>1
  <2> QED BY <2>1, <2>3 DEF StepInv, Acting, Refreshing
<1>5. CASE Arrive
  <2>1. /\ Refreshing /\ queue # <<>> /\ version' = version
        /\ (Leave \/ \E list \in {"active", "archived", "nowhere"} : ArriveStays(list))
    BY <1>5, Arriving
  <2>2. CASE Leave
    BY <2>1, <2>2, LeavingKeepsStep
  <2>3. ASSUME NEW list \in {"active", "archived", "nowhere"}, ArriveStays(list)
        PROVE  StepInv'
    <3>1. /\ page' = page /\ call' = Idle
          /\ queue' \in Seq(Entries(Commands)) /\ Alike(queue', Tail(queue))
      BY <2>3 DEF ArriveStays
    <3> QED BY <2>1, <3>1, TailIsTyped, RestKeepsStep
  <2> QED BY <2>1, <2>2, <2>3
<1>6. ASSUME NEW list \in Lists, ReadList(list)
      PROVE  StepInv'
  <2>1. /\ UNCHANGED <<page, version, queue>> /\ call'.step = call.step /\ call'.result = call.result
    BY <1>6, <1>t DEF ReadList, stored, Calls
  <2> QED BY <2>1 DEF StepInv, Acting, Refreshing
<1> QED BY <1>1, <1>2, <1>3, <1>4, <1>5, <1>6 DEF TheRouter

LEMMA MishapKeepsStep ==
    ASSUME Typed, StepInv, Mishap
    PROVE  StepInv'
<1>t. call \in Calls /\ queue \in Seq(Entries(Commands)) /\ version \in Nat /\ MaxVersion \in Nat
  BY Counted DEF Typed
<1>1. CASE WriteFails
  <2>1. Acting /\ call.step = "write" /\ call'.step = "answer" /\ UNCHANGED <<page, version, queue>>
    BY <1>1, <1>t DEF WriteFails, stored, Calls
  <2>2. Cardinality(Unwritten(queue, call'.step)) <= Cardinality(Unwritten(queue, call.step))
        /\ Cardinality(Unwritten(queue, call'.step)) \in Nat
    BY <1>t, <2>1, StartedUnwritten, UnwrittenIsFinite
  <2>3. version + Cardinality(Unwritten(queue, call'.step)) <= MaxVersion
    <3>1. version + Cardinality(Unwritten(queue, call.step)) <= MaxVersion
          /\ Cardinality(Unwritten(queue, call.step)) \in Nat
      BY Counted DEF StepInv
    <3> QED BY <1>t, <2>2, <3>1
  <2> QED BY <2>1, <2>3 DEF StepInv, Acting, Refreshing
<1>2. ASSUME NEW list \in Lists, ReadFails(list)
      PROVE  StepInv'
  <2>1. /\ UNCHANGED <<page, version, queue>> /\ call'.step = call.step /\ call'.result = call.result
    BY <1>2, <1>t DEF ReadFails, stored, Calls
  <2> QED BY <2>1 DEF StepInv, Acting, Refreshing
<1> QED BY <1>1, <1>2 DEF Mishap

LEMMA StepInit == Init => StepInv
<1> SUFFICES ASSUME Init
             PROVE  StepInv
  OBVIOUS
<1>1. queue = <<>> /\ call = Idle /\ version = 0 /\ DOMAIN queue = {}
  BY DEF Init
<1>2. Cardinality(Unwritten(queue, call.step)) = 0
  BY <1>1, NoneUnwritten
<1>3. version + Cardinality(Unwritten(queue, call.step)) <= MaxVersion
  <2>1. MaxVersion \in Nat
    BY StartingValues
  <2> QED BY <1>1, <1>2, <2>1
<1> QED BY <1>1, <1>3, StartingValues DEF StepInv

LEMMA StepNext ==
    ASSUME Typed, StepInv, [Next]_vars
    PROVE  StepInv'
<1>1. CASE UNCHANGED vars
  BY <1>1 DEF vars, StepInv, Acting, Refreshing
<1> QED BY <1>1, UserKeepsStep, OthersKeepStep, RouterKeepsStep, MishapKeepsStep DEF Next

-----------------------------------------------------------------------------
(* A version that has been seen is not from the future, nor older than one *)
(* that was seen before it.                                                *)

SeenInv ==
    /\ shown.version <= version /\ dialog.seen <= shown.version
    /\ call.view.version <= version
    /\ call.step = "lists" => shown.version <= call.view.version
    /\ \A i \in DOMAIN queue : queue[i].seen <= version

LEMMA VersionTypes ==
    ASSUME Typed
    PROVE  /\ version \in Nat /\ shown.version \in Nat /\ dialog.seen \in Nat
           /\ call.view.version \in Nat /\ owed \in Nat /\ owed <= version
           /\ \A i \in DOMAIN queue : queue[i].seen \in Nat
<1>1. MaxVersion \in Nat /\ version \in 0..MaxVersion /\ owed \in 0..version
  BY StartingValues DEF Typed
<1>2. shown.version \in 0..MaxVersion /\ dialog.seen \in 0..MaxVersion /\ call.view.version \in 0..MaxVersion
  BY DEF Typed, Views, OpenDialogs, Calls
<1>3. \A i \in DOMAIN queue : queue[i].seen \in 0..MaxVersion
  BY FirstIsTyped DEF Entries
<1> QED BY <1>1, <1>2, <1>3

LEMMA NothingSeen ==
    Blank.version = 0 /\ Closed.seen = 0 /\ Idle.view.version = 0 /\ Idle.step = "start"
BY DEF Blank, Closed, Idle

LEMMA LeavingKeepsSeen ==
    ASSUME Typed, Leave, version' = version
    PROVE  SeenInv'
<1>1. shown' = Blank /\ dialog' = Closed /\ queue' = <<>> /\ call' = Idle
  BY DEF Leave
<1>2. /\ shown'.version = 0 /\ dialog'.seen = 0 /\ call'.view.version = 0 /\ call'.step = "start"
      /\ DOMAIN queue' = {}
  BY <1>1, NothingSeen
<1>3. version \in Nat
  BY VersionTypes
<1> QED BY <1>2, <1>3 DEF SeenInv

LEMMA UserKeepsSeen ==
    ASSUME Typed, SeenInv, TheUser
    PROVE  SeenInv'
<1>1. CASE UNCHANGED <<version, shown, dialog, queue, call>>
  BY <1>1 DEF SeenInv
<1>2. ASSUME NEW d \in Dialogs, OpenDialog(d)
      PROVE  SeenInv'
  <2>1. dialog'.seen = shown.version /\ UNCHANGED <<version, shown, queue, call>>
    BY <1>2 DEF OpenDialog, stored
  <2> QED BY <2>1, VersionTypes DEF SeenInv
<1>3. ASSUME NEW command \in Commands, NEW arg \in Args(command), Submit(command, arg)
      PROVE  SeenInv'
  <2> DEFINE e == Entry(command, arg, OfferedBy(command))
  <2>1. queue' = Append(queue, e) /\ UNCHANGED <<version, shown, dialog, call>>
    BY <1>3 DEF Submit, stored
  <2>2. e \in Entries(Commands) /\ e.seen = OfferedBy(command)
    BY OfferTypes, ArgTypes DEF Entry, Entries
  <2>3. e.seen <= version
    <3>1. OfferedBy(command) \in {shown.version, dialog.seen}
      BY DEF OfferedBy
    <3> HIDE DEF e
    <3> QED BY <2>2, <3>1, VersionTypes DEF SeenInv
  <2> HIDE DEF e
  <2>4. \A i \in DOMAIN queue' : (i \in DOMAIN queue /\ queue'[i] = queue[i]) \/ queue'[i] = e
    <3>1. DOMAIN queue' = 1..(Len(queue) + 1) /\ DOMAIN queue = 1..Len(queue) /\ Len(queue) \in Nat
          /\ queue'[Len(queue) + 1] = e /\ \A i \in 1..Len(queue) : queue'[i] = queue[i]
      BY <2>1, <2>2, Counted, LastOfQueue
    <3> QED BY <3>1
  <2> QED BY <2>1, <2>3, <2>4 DEF SeenInv
<1>4. CASE CloseDialog
  <2>1. dialog' = Closed /\ queue' = Disowned /\ UNCHANGED <<version, shown, call>>
    BY <1>4 DEF CloseDialog, stored
  <2>2. Alike(queue', queue)
    BY <2>1, Disowning
  <2>3. dialog'.seen <= shown.version
    BY <2>1, VersionTypes, NothingSeen
  <2> QED BY <2>1, <2>2, <2>3 DEF SeenInv, Alike
<1>5. CASE NavigateAway
  BY <1>5, LeavingKeepsSeen DEF NavigateAway, stored
<1> QED BY <1>1, <1>2, <1>3, <1>4, <1>5
        DEF TheUser, EditForm, SelectStoredState, PasteState, stored, Commands

LEMMA OthersKeepSeen ==
    ASSUME Typed, SeenInv, Others
    PROVE  SeenInv'
<1>1. version' = version + 1 /\ UNCHANGED <<shown, dialog, queue, call>>
  BY DEF Others, OthersWrite, OthersChangeRole, OthersChangeOwners, tab
<1> QED BY <1>1, VersionTypes DEF SeenInv

LEMMA RestKeepsSeen ==
    ASSUME Typed, SeenInv, queue # <<>>, NEW r, Alike(queue', r), r = Rest \/ r = Tail(queue),
           version' = version
    PROVE  \A i \in DOMAIN queue' : queue'[i].seen <= version'
<1>1. \A i \in DOMAIN r : (i + 1 \in DOMAIN queue /\ r[i] = queue[i + 1]) \/ r[i] = Refresh
  BY RestIsTyped, TailIsTyped
<1>2. Refresh.seen = 0 /\ version \in Nat
  BY RefreshIsTyped, VersionTypes
<1>3. \A i \in DOMAIN r : r[i].seen <= version
  BY <1>1, <1>2 DEF SeenInv
<1> QED BY <1>3 DEF Alike

LEMMA RouterKeepsSeen ==
    ASSUME Typed, SeenInv, TheRouter
    PROVE  SeenInv'
<1>t. call \in Calls /\ call.view \in Views
  BY DEF Typed, Calls
<1>1. CASE CheckRole
  <2>1. UNCHANGED <<version, shown, dialog, queue>> /\ call'.view = call.view /\ call'.step # "lists"
    BY <1>1, <1>t DEF CheckRole, stored, tab, Calls
  <2> QED BY <2>1 DEF SeenInv
<1>2. CASE Write
  <2>1. /\ version' \in {version, version + 1} /\ UNCHANGED <<shown, dialog, queue>>
        /\ call'.view = call.view /\ call'.step # "lists"
    BY <1>2, <1>t DEF Write, tab, Calls
  <2> QED BY <2>1, VersionTypes DEF SeenInv
<1>3. ASSUME NEW withLink \in BOOLEAN, Answer(withLink)
      PROVE  SeenInv'
  <2>1. /\ queue # <<>> /\ version' = version
        /\ (AnswerLeaves => Leave) /\ (~AnswerLeaves => AnswerStays(withLink))
    BY <1>3, Answering DEF Acting
  <2>2. CASE AnswerLeaves
    BY <2>1, <2>2, LeavingKeepsSeen
  <2>3. CASE ~AnswerLeaves
    <3>1. shown' = shown /\ call' = Idle /\ Alike(queue', Rest) /\ dialog' \in {dialog, Closed}
      BY <2>1, <2>3 DEF AnswerStays
    <3>2. \A i \in DOMAIN queue' : queue'[i].seen <= version'
      BY <2>1, <3>1, RestKeepsSeen
    <3>3. dialog'.seen <= shown.version
      BY <3>1, VersionTypes, NothingSeen DEF SeenInv
    <3>4. call'.view.version = 0 /\ call'.step = "start"
      BY <3>1, NothingSeen
    <3> QED BY <2>1, <3>1, <3>2, <3>3, <3>4, VersionTypes DEF SeenInv
  <2> QED BY <2>2, <2>3
<1>4. CASE ReadRole
  <2>1. UNCHANGED <<version, shown, dialog, queue>> /\ call'.view.version = version
    BY <1>4, <1>t, StartingValues DEF ReadRole, stored, tab, Calls, Views
  <2> QED BY <2>1, VersionTypes DEF SeenInv
<1>5. CASE Arrive
  <2>1. /\ queue # <<>> /\ version' = version /\ call.step = "lists"
        /\ (Leave \/ \E list \in {"active", "archived", "nowhere"} : ArriveStays(list))
    BY <1>5, Arriving
  <2>2. CASE Leave
    BY <2>1, <2>2, LeavingKeepsSeen
  <2>3. ASSUME NEW list \in {"active", "archived", "nowhere"}, ArriveStays(list)
        PROVE  SeenInv'
    <3>1. /\ shown' = [call.view EXCEPT !.list = list] /\ call' = Idle /\ Alike(queue', Tail(queue))
          /\ dialog' \in {dialog, Closed}
      BY <2>3 DEF ArriveStays
    <3>2. \A i \in DOMAIN queue' : queue'[i].seen <= version'
      BY <2>1, <3>1, RestKeepsSeen
    <3>3. shown'.version = call.view.version
      BY <1>t, <3>1 DEF Views
    <3>4. dialog'.seen <= shown'.version
      BY <2>1, <3>1, <3>3, VersionTypes, NothingSeen DEF SeenInv
    <3>5. call'.view.version = 0 /\ call'.step = "start"
      BY <3>1, NothingSeen
    <3> QED BY <2>1, <3>2, <3>3, <3>4, <3>5, VersionTypes DEF SeenInv
  <2> QED BY <2>1, <2>2, <2>3
<1>6. ASSUME NEW list \in Lists, ReadList(list)
      PROVE  SeenInv'
  <2>1. UNCHANGED <<version, shown, dialog, queue>> /\ call'.step = call.step
        /\ call'.view = With(call.view, list)
    BY <1>6, <1>t DEF ReadList, stored, tab, Calls
  <2>2. call'.view.version = call.view.version
    BY <1>t, <2>1, ReadIsTyped DEF Typed
  <2> QED BY <2>1, <2>2 DEF SeenInv
<1> QED BY <1>1, <1>2, <1>3, <1>4, <1>5, <1>6 DEF TheRouter

LEMMA MishapKeepsSeen ==
    ASSUME Typed, SeenInv, Mishap
    PROVE  SeenInv'
<1>1. UNCHANGED <<version, shown, dialog, queue>> /\ call'.view = call.view
      /\ (call'.step = "lists" => call.step = "lists")
  BY DEF Mishap, WriteFails, ReadFails, stored, tab, Typed, Calls
<1> QED BY <1>1 DEF SeenInv

LEMMA SeenInit == Init => SeenInv
<1> SUFFICES ASSUME Init
             PROVE  SeenInv
  OBVIOUS
<1>1. version = 0 /\ dialog = Closed /\ call = Idle /\ queue = <<>> /\ DOMAIN queue = {}
  BY DEF Init
<1>2. PICK list \in {"active", "archived"} :
        shown = [Blank EXCEPT !.role = role, ![list] = row, !.list = list]
  BY DEF Init
<1>3. shown.version = 0
  BY <1>2, StartingValues DEF Views
<1> QED BY <1>1, <1>3, NothingSeen DEF SeenInv

LEMMA SeenNext ==
    ASSUME Typed, SeenInv, [Next]_vars
    PROVE  SeenInv'
<1>1. CASE UNCHANGED vars
  BY <1>1 DEF vars, SeenInv
<1> QED BY <1>1, UserKeepsSeen, OthersKeepSeen, RouterKeepsSeen, MishapKeepsSeen DEF Next

-----------------------------------------------------------------------------
(* As OwnChangesArrive, but what has yet to answer is a write.             *)

WriteAnswers ==
    Acting /\ call.step = "answer" /\ call.result = "done" /\ Writes(Head(queue).command)
RefreshToCome ==
    \E i \in DOMAIN queue :
        /\ queue[i].command = "refresh"
        /\ i = 1 /\ call.step = "lists" => call.view.version >= owed

OwnInv == page # "elsewhere" /\ shown.version < owed => WriteAnswers \/ RefreshToCome

\* A queue that begins as the one before keeps what is to come.
LEMMA SamePromises ==
    ASSUME OwnInv, DOMAIN queue \subseteq DOMAIN queue',
           \A i \in DOMAIN queue : queue'[i].command = queue[i].command,
           queue # <<>> => queue' # <<>> /\ Head(queue').command = Head(queue).command,
           UNCHANGED <<page, shown, owed>>, call'.step = call.step, call'.result = call.result,
           call'.view.version = call.view.version
    PROVE  OwnInv'
BY DEF OwnInv, WriteAnswers, RefreshToCome, Acting

LEMMA UserKeepsOwn ==
    ASSUME Typed, OwnInv, TheUser
    PROVE  OwnInv'
<1>1. CASE UNCHANGED <<page, shown, queue, call, owed>>
  BY <1>1, SamePromises
<1>2. ASSUME NEW command \in Commands, NEW arg \in Args(command), Submit(command, arg)
      PROVE  OwnInv'
  <2> DEFINE e == Entry(command, arg, OfferedBy(command))
  <2>1. queue' = Append(queue, e) /\ UNCHANGED <<page, shown, call, owed>>
    BY <1>2 DEF Submit, stored
  <2>2. e \in Entries(Commands)
    BY OfferTypes, ArgTypes DEF Entry, Entries
  <2> HIDE DEF e
  <2>3. /\ queue' # <<>> /\ (queue # <<>> => Head(queue') = Head(queue))
        /\ DOMAIN queue' = 1..(Len(queue) + 1) /\ DOMAIN queue = 1..Len(queue) /\ Len(queue) \in Nat
        /\ \A i \in 1..Len(queue) : queue'[i] = queue[i]
    BY <2>1, <2>2, Counted, LastOfQueue
  <2>4. DOMAIN queue \subseteq DOMAIN queue' /\ \A i \in DOMAIN queue : queue'[i] = queue[i]
    BY <2>3
  <2> QED BY <2>1, <2>3, <2>4, SamePromises
<1>3. CASE CloseDialog
  <2>1. queue' = Disowned /\ UNCHANGED <<page, shown, call, owed>>
    BY <1>3 DEF CloseDialog, stored
  <2>2. queue' \in Seq(Entries(Commands)) /\ Alike(queue', queue) /\ queue \in Seq(Entries(Commands))
    BY <2>1, Disowning, Counted
  <2>3. (queue' = <<>> <=> queue = <<>>) /\ (queue # <<>> => Head(queue').command = Head(queue).command)
    BY <2>2, AlikeFirst
  <2> QED BY <2>1, <2>2, <2>3, SamePromises DEF Alike
<1>4. CASE NavigateAway
  BY <1>4 DEF NavigateAway, Leave, OwnInv
<1> QED BY <1>1, <1>2, <1>3, <1>4
        DEF TheUser, OpenDialog, EditForm, SelectStoredState, PasteState, stored, Commands

\* What is left is to come, if it was not the first.
LEMMA LaterRefresh ==
    ASSUME Typed, queue # <<>>, NEW i \in DOMAIN queue, i # 1, queue[i].command = "refresh",
           NEW r, r = Rest \/ r = Tail(queue), Alike(queue', r), call' = Idle
    PROVE  RefreshToCome'
<1>1. i - 1 \in DOMAIN r /\ r[i - 1] = queue[i]
  BY RestIsTyped, TailIsTyped
<1>2. i - 1 \in DOMAIN queue' /\ queue'[i - 1].command = "refresh"
  BY <1>1 DEF Alike
<1>3. call'.step # "lists"
  BY NothingSeen
<1> QED BY <1>2, <1>3 DEF RefreshToCome

LEMMA RouterKeepsOwn ==
    ASSUME Typed, StepInv, SeenInv, OwnInv, TheRouter
    PROVE  OwnInv'
<1>t. call \in Calls /\ call.view \in Views
  BY DEF Typed, Calls
<1>f. queue # <<>> => Head(queue) = queue[1] /\ 1 \in DOMAIN queue
  BY FirstIsTyped
<1>1. CASE CheckRole
  <2>1. /\ call.step = "start" /\ UNCHANGED <<page, shown, queue, owed>> /\ call'.step # "lists"
    BY <1>1, <1>t DEF CheckRole, stored, tab, Calls
  <2> QED BY <2>1 DEF OwnInv, WriteAnswers, RefreshToCome
<1>2. CASE Write
  <2> DEFINE outcome == Outcome(Head(queue).command, Head(queue).arg)
  <2>1. /\ Acting /\ call.step = "write" /\ call'.step = "answer" /\ call'.result = outcome
        /\ UNCHANGED <<page, shown, queue>>
        /\ (owed' = owed \/ (outcome = "done" /\ Writes(Head(queue).command)))
    <3>1. /\ Acting /\ call.step = "write" /\ call' = [call EXCEPT !.step = "answer", !.result = outcome]
          /\ UNCHANGED <<page, shown, queue>>
          /\ (owed' = owed \/ (outcome = "done" /\ Writes(Head(queue).command)))
      <4>1. owed' = owed \/ (outcome = "done" /\ Writes(Head(queue).command))
        BY <1>2 DEF Write
      <4>2. /\ Acting /\ call.step = "write" /\ call' = [call EXCEPT !.step = "answer", !.result = outcome]
            /\ UNCHANGED <<page, shown, queue>>
        BY <1>2 DEF Write, tab
      <4> QED BY <4>1, <4>2
    <3> HIDE DEF outcome
    <3> QED BY <1>t, <3>1 DEF Calls
  <2>2. CASE owed' = owed
    BY <2>1, <2>2 DEF OwnInv, WriteAnswers, RefreshToCome
  <2>3. CASE outcome = "done" /\ Writes(Head(queue).command)
    <3> HIDE DEF outcome
    <3> QED BY <2>1, <2>3 DEF OwnInv, WriteAnswers, Acting
  <2> QED BY <2>1, <2>2, <2>3
<1>3. ASSUME NEW withLink \in BOOLEAN, Answer(withLink)
      PROVE  OwnInv'
  <2>1. /\ Acting /\ call.step = "answer" /\ owed' = owed /\ queue # <<>>
        /\ Head(queue).command \in Commands
        /\ (AnswerLeaves => Leave) /\ (~AnswerLeaves => AnswerStays(withLink))
    BY <1>3, Answering DEF Acting
  <2>2. CASE AnswerLeaves
    BY <2>1, <2>2 DEF Leave, OwnInv
  <2>3. CASE ~AnswerLeaves
    <3>1. page' = page /\ shown' = shown /\ call' = Idle /\ Alike(queue', Rest)
      BY <2>1, <2>3 DEF AnswerStays
    <3>2. CASE WriteAnswers
      <4>1. Answered.then \in {"refresh", "push"}
        BY <2>1, <3>2, FirstIsTyped DEF WriteAnswers, IsHandler, Answered
      <4>2. Okay /\ Answered.then = "refresh"
        BY <2>3, <3>2, <4>1 DEF WriteAnswers, AnswerLeaves, Okay
      <4>3. PICK i \in DOMAIN Rest : Rest[i] = Refresh
        BY <2>1, <4>2, RestIsTyped
      <4>4. i \in DOMAIN queue' /\ queue'[i].command = "refresh"
        BY <3>1, <4>3, RefreshIsTyped DEF Alike
      <4> QED BY <3>1, <4>4, NothingSeen DEF OwnInv, RefreshToCome
    <3>3. CASE RefreshToCome
      <4>1. PICK i \in DOMAIN queue : queue[i].command = "refresh"
        BY <3>3 DEF RefreshToCome
      <4>2. i # 1
        BY <1>f, <2>1, <4>1 DEF Acting
      <4> QED BY <2>1, <3>1, <4>1, <4>2, LaterRefresh DEF OwnInv
    <3> QED BY <2>1, <3>1, <3>2, <3>3 DEF OwnInv
  <2> QED BY <2>2, <2>3
<1>4. CASE ReadRole
  <2>1. Refreshing /\ UNCHANGED <<page, shown, queue, owed>> /\ call'.view.version = version
    BY <1>4, <1>t, StartingValues DEF ReadRole, stored, tab, Calls, Views
  <2>2. call'.view.version >= owed
    BY <2>1, VersionTypes
  <2> QED BY <1>f, <2>1, <2>2 DEF OwnInv, RefreshToCome, Refreshing
<1>5. CASE Arrive
  <2>1. /\ Refreshing /\ call.step = "lists" /\ queue # <<>> /\ owed' = owed
        /\ (Leave \/ \E list \in {"active", "archived", "nowhere"} : ArriveStays(list))
    BY <1>5, Arriving
  <2>2. CASE Leave
    BY <2>2 DEF Leave, OwnInv
  <2>3. ASSUME NEW list \in {"active", "archived", "nowhere"}, ArriveStays(list)
        PROVE  OwnInv'
    <3>1. /\ page' = page /\ call' = Idle /\ Alike(queue', Tail(queue))
          /\ shown' = [call.view EXCEPT !.list = list]
      BY <2>3 DEF ArriveStays
    <3>2. shown'.version = call.view.version
      BY <1>t, <3>1 DEF Views
    <3>3. SUFFICES ASSUME page # "elsewhere", call.view.version < owed
                   PROVE  RefreshToCome'
      BY <2>1, <3>1, <3>2 DEF OwnInv
    <3>4. shown.version < owed
      BY <2>1, <3>3, VersionTypes DEF SeenInv
    <3>5. RefreshToCome
      BY <2>1, <3>3, <3>4 DEF OwnInv, WriteAnswers
    <3>6. PICK i \in DOMAIN queue :
            queue[i].command = "refresh" /\ (i = 1 => call.view.version >= owed)
      BY <2>1, <3>5 DEF RefreshToCome
    <3>7. i # 1
      BY <3>3, <3>6, VersionTypes
    <3> QED BY <2>1, <3>1, <3>6, <3>7, LaterRefresh
  <2> QED BY <2>1, <2>2, <2>3
<1>6. ASSUME NEW list \in Lists, ReadList(list)
      PROVE  OwnInv'
  <2>1. UNCHANGED <<page, shown, queue, owed>> /\ call'.step = call.step /\ call'.result = call.result
        /\ call'.view = With(call.view, list)
    BY <1>6, <1>t DEF ReadList, stored, tab, Calls
  <2>2. call'.view.version = call.view.version
    BY <1>t, <2>1, ReadIsTyped DEF Typed
  <2> QED BY <2>1, <2>2, SamePromises
<1> QED BY <1>1, <1>2, <1>3, <1>4, <1>5, <1>6 DEF TheRouter

LEMMA MishapKeepsOwn ==
    ASSUME Typed, OwnInv, Mishap
    PROVE  OwnInv'
<1>t. call \in Calls
  BY DEF Typed
<1>1. CASE WriteFails
  <2>1. call.step = "write" /\ call'.step = "answer" /\ UNCHANGED <<page, shown, queue, owed>>
    BY <1>1, <1>t DEF WriteFails, stored, tab, Calls
  <2> QED BY <2>1 DEF OwnInv, WriteAnswers, RefreshToCome
<1>2. ASSUME NEW list \in Lists, ReadFails(list)
      PROVE  OwnInv'
  <2>1. UNCHANGED <<page, shown, queue, owed>> /\ call'.step = call.step /\ call'.result = call.result
        /\ call'.view = call.view
    BY <1>2, <1>t DEF ReadFails, stored, tab, Calls
  <2> QED BY <2>1, SamePromises
<1> QED BY <1>1, <1>2 DEF Mishap

LEMMA OwnInit == Init => OwnInv
<1> SUFFICES ASSUME Init
             PROVE  OwnInv
  OBVIOUS
<1>1. PICK list \in {"active", "archived"} :
        owed = 0 /\ shown = [Blank EXCEPT !.role = role, ![list] = row, !.list = list]
  BY DEF Init
<1>2. shown.version = 0
  BY <1>1, StartingValues DEF Views
<1> QED BY <1>1, <1>2 DEF OwnInv

LEMMA OwnNext ==
    ASSUME Typed, StepInv, SeenInv, OwnInv, [Next]_vars
    PROVE  OwnInv'
<1>1. CASE UNCHANGED vars
  BY <1>1, SamePromises DEF vars
<1>2. CASE Others
  BY <1>2, SamePromises DEF Others, OthersWrite, OthersChangeRole, OthersChangeOwners, tab
<1> QED BY <1>1, <1>2, UserKeepsOwn, RouterKeepsOwn, MishapKeepsOwn DEF Next

LEMMA OwnImplies == OwnInv => OwnChangesArrive
BY DEF OwnInv, WriteAnswers, RefreshToCome, OwnChangesArrive

-----------------------------------------------------------------------------
(* The card waits for one call at most, and an open confirmation for its   *)
(* own.                                                                    *)

OnCard(entry) ==
    entry.command # "refresh" /\ Handlers[entry.command].control = "card" /\ entry.alive

CardInv ==
    \A i \in DOMAIN queue : OnCard(queue[i]) =>
        /\ "card" \in busy
        /\ \A j \in DOMAIN queue : OnCard(queue[j]) => i = j
        /\ dialog.open \in Confirms /\ Handlers[queue[i].command].dialog = dialog.open
              => queue[i].mine

LEMMA ConfirmsNeedTheCard == \A d \in Offered : d \in Confirms => "card" \notin busy
BY DEF Offered, EnvironmentDialogs, EnvironmentMenu, ProjectDialogs, ProjectsDialogs, TeamDialogs,
       CardIsFree, Confirms

LEMMA LeavingKeepsCard ==
    ASSUME Leave
    PROVE  CardInv'
<1>1. DOMAIN queue' = {}
  BY DEF Leave
<1> QED BY <1>1 DEF CardInv

LEMMA SameCard ==
    ASSUME CardInv, UNCHANGED <<page, dialog, busy, queue>>
    PROVE  CardInv'
BY DEF CardInv, OnCard, Handlers

LEMMA UserKeepsCard ==
    ASSUME Typed, CardInv, TheUser
    PROVE  CardInv'
<1>1. ASSUME NEW d \in Dialogs, OpenDialog(d)
      PROVE  CardInv'
  <2>1. dialog'.open = d /\ d \in Offered /\ UNCHANGED <<page, busy, queue>>
    BY <1>1 DEF OpenDialog
  <2>2. d \in Confirms => "card" \notin busy
    BY <2>1, ConfirmsNeedTheCard
  <2> QED BY <2>1, <2>2 DEF CardInv, OnCard, Handlers
<1>2. ASSUME NEW command \in Commands, NEW arg \in Args(command), Submit(command, arg)
      PROVE  CardInv'
  <2> DEFINE e == Entry(command, arg, OfferedBy(command))
             control == Handlers[command].control
  <2>1. queue' = Append(queue, e) /\ busy' = busy \cup {control} /\ control \notin busy
        /\ UNCHANGED <<page, dialog>>
    BY <1>2 DEF Submit, MaySubmit
  <2>2. e \in Entries(Commands) /\ e.command = command /\ e.mine
    BY OfferTypes, ArgTypes DEF Entry, Entries
  <2> HIDE DEF e, control
  <2>3. PICK n \in Nat : /\ DOMAIN queue = 1..n /\ DOMAIN queue' = 1..(n + 1) /\ queue'[n + 1] = e
                         /\ \A i \in 1..n : queue'[i] = queue[i]
    <3>1. Len(queue) \in Nat
      BY Counted
    <3>2. DOMAIN queue = 1..Len(queue) /\ DOMAIN queue' = 1..(Len(queue) + 1)
          /\ queue'[Len(queue) + 1] = e /\ \A i \in 1..Len(queue) : queue'[i] = queue[i]
      BY <2>1, <2>2, Counted, LastOfQueue
    <3> QED BY <3>1, <3>2
  <2>4. \A i \in DOMAIN queue' : i = n + 1 \/ (i \in DOMAIN queue /\ queue'[i] = queue[i])
    BY <2>3
  <2>5. CASE control = "card"
    <3>1. \A i \in DOMAIN queue : ~OnCard(queue[i])
      BY <2>1, <2>5 DEF CardInv
    <3>2. \A i \in DOMAIN queue' : OnCard(queue[i])' => i = n + 1
      BY <2>1, <2>4, <3>1 DEF OnCard, Handlers
    <3> QED BY <2>1, <2>2, <2>3, <2>5, <3>2 DEF CardInv
  <2>6. CASE control # "card"
    <3>1. \A i \in DOMAIN queue' : OnCard(queue[i])' =>
             i \in DOMAIN queue /\ queue'[i] = queue[i] /\ OnCard(queue[i])
      BY <2>1, <2>2, <2>3, <2>4, <2>6 DEF OnCard, Handlers, control
    <3> QED BY <2>1, <3>1 DEF CardInv, Handlers
  <2> QED BY <2>5, <2>6
<1>3. CASE CloseDialog
  <2>1. queue' = Disowned /\ dialog' = Closed /\ page' = page
    BY <1>3 DEF CloseDialog
  <2>2. "card" \in busy => "card" \in busy'
    BY <1>3 DEF CloseDialog
  <2>3. Alike(queue', queue)
    BY <2>1, Disowning
  <2>4. \A i \in DOMAIN queue' : OnCard(queue[i])' => i \in DOMAIN queue /\ OnCard(queue[i])
    BY <2>1, <2>3 DEF Alike, OnCard, Handlers
  <2> QED BY <2>1, <2>2, <2>4, StartingValues DEF CardInv
<1>4. CASE NavigateAway
  BY <1>4, LeavingKeepsCard DEF NavigateAway
<1>5. CASE UNCHANGED <<page, dialog, busy, queue>>
  BY <1>5, SameCard
<1> QED BY <1>1, <1>2, <1>3, <1>4, <1>5
        DEF TheUser, EditForm, SelectStoredState, PasteState, Commands

\* An answer that closes a confirmation was given to a call of its own.
LEMMA AnswersOfTheCard ==
    ASSUME Typed, CardInv, NEW withLink, Acting, AnswerCloses(withLink), dialog.open \in Confirms
    PROVE  Head(queue).mine /\ Answered.control = "card"
<1>1. queue # <<>> /\ Head(queue) = queue[1] /\ 1 \in DOMAIN queue /\ Head(queue).command \in Commands
  BY FirstIsTyped
<1>2. Answered.control = "card"
  BY <1>1, FirstIsTyped DEF AnswerCloses, Answered, IsHandler
<1>3. OnCard(queue[1]) /\ Handlers[queue[1].command].dialog = dialog.open
  BY <1>1, <1>2 DEF AnswerCloses, Answered, Acting, OnCard
<1> QED BY <1>1, <1>2, <1>3 DEF CardInv

LEMMA RouterKeepsCard ==
    ASSUME Typed, CardInv, TheRouter
    PROVE  CardInv'
<1>1. ASSUME NEW withLink \in BOOLEAN, Answer(withLink)
      PROVE  CardInv'
  <2>1. /\ Acting /\ queue # <<>>
        /\ (AnswerLeaves => Leave) /\ (~AnswerLeaves => AnswerStays(withLink))
    BY <1>1, Answering DEF Acting
  <2>2. CASE AnswerLeaves
    BY <2>1, <2>2, LeavingKeepsCard
  <2>3. CASE ~AnswerLeaves
    <3> DEFINE closes == AnswerCloses(withLink)
    <3>1. /\ page' = page /\ dialog' = (IF closes THEN Closed ELSE dialog) /\ Alike(queue', Rest)
          /\ \A i \in DOMAIN Rest : queue'[i].mine = (Rest[i].mine /\ ~closes)
          /\ busy' = IF Head(queue).alive THEN busy \ {Answered.control} ELSE busy
      BY <2>1, <2>3 DEF AnswerStays
    <3> HIDE DEF closes
    <3>2. \A i \in DOMAIN queue' : OnCard(queue[i])' =>
             /\ i \in DOMAIN Rest /\ OnCard(Rest[i]) /\ i + 1 \in DOMAIN queue /\ i \in Nat \ {0}
             /\ Rest[i] = queue[i + 1]
      <4>1. \A i \in DOMAIN queue' : OnCard(queue[i])' => i \in DOMAIN Rest /\ OnCard(Rest[i])
        BY <3>1 DEF Alike, OnCard, Handlers
      <4>2. ~OnCard(Refresh)
        BY RefreshIsTyped DEF OnCard
      <4> QED BY <2>1, <4>1, <4>2, RestIsTyped
    <3>3. ASSUME NEW i \in DOMAIN queue', OnCard(queue[i])'
          PROVE  /\ "card" \in busy'
                 /\ \A j \in DOMAIN queue' : OnCard(queue[j])' => i = j
                 /\ dialog'.open \in Confirms /\ Handlers[queue'[i].command].dialog = dialog'.open
                       => queue'[i].mine
      <4>1. /\ i \in DOMAIN Rest /\ OnCard(queue[i + 1]) /\ i + 1 \in DOMAIN queue /\ i \in Nat \ {0}
            /\ Rest[i] = queue[i + 1]
        BY <3>2, <3>3
      <4>2. "card" \in busy'
        <5>1. "card" \in busy
          BY <4>1 DEF CardInv
        <5>2. ~OnCard(queue[1]) /\ Head(queue) = queue[1]
          <6>1. 1 \in DOMAIN queue /\ Head(queue) = queue[1] /\ i + 1 # 1
            BY <2>1, <4>1, FirstIsTyped
          <6> QED BY <4>1, <6>1 DEF CardInv
        <5>3. Head(queue).alive => Answered.control # "card"
          BY <2>1, <5>2 DEF OnCard, Answered, Acting
        <5> QED BY <3>1, <5>1, <5>3
      <4>3. \A j \in DOMAIN queue' : OnCard(queue[j])' => i = j
        <5>1. \A j \in DOMAIN queue' : OnCard(queue[j])' =>
                 OnCard(queue[j + 1]) /\ j + 1 \in DOMAIN queue /\ j \in Nat
          BY <3>2
        <5>2. \A j \in DOMAIN queue' : OnCard(queue[j])' => i + 1 = j + 1 /\ j \in Nat
          BY <4>1, <5>1 DEF CardInv
        <5> QED BY <4>1, <5>2
      <4>4. ASSUME dialog'.open \in Confirms, Handlers[queue'[i].command].dialog = dialog'.open
            PROVE  queue'[i].mine
        <5>1. ~closes /\ dialog' = dialog
          BY <3>1, <4>4, StartingValues
        <5>2. queue'[i].command = queue[i + 1].command
          BY <3>1, <4>1 DEF Alike
        <5>3. queue[i + 1].mine
          BY <4>1, <4>4, <5>1, <5>2 DEF CardInv
        <5> QED BY <3>1, <4>1, <5>1, <5>3
      <4> QED BY <4>2, <4>3, <4>4
    <3> QED BY <3>1, <3>3 DEF CardInv, Handlers
  <2> QED BY <2>2, <2>3
<1>2. CASE Arrive
  <2>1. /\ Refreshing /\ queue # <<>>
        /\ (Leave \/ \E list \in {"active", "archived", "nowhere"} : ArriveStays(list))
    BY <1>2, Arriving
  <2>2. CASE Leave
    BY <2>2, LeavingKeepsCard
  <2>3. ASSUME NEW list \in {"active", "archived", "nowhere"}, ArriveStays(list)
        PROVE  CardInv'
    <3> DEFINE closes == Closes(Gone(list))
    <3>1. /\ page' = page /\ dialog' = (IF closes THEN Closed ELSE dialog)
          /\ busy' = busy \ Gone(list) /\ Alike(queue', Tail(queue))
          /\ \A i \in DOMAIN Tail(queue) :
                /\ queue'[i].alive = (Tail(queue)[i].alive /\ ~Unmounted(Tail(queue)[i], list))
                /\ queue'[i].mine = (Tail(queue)[i].mine /\ ~closes)
      BY <2>3 DEF ArriveStays
    <3> HIDE DEF closes
    <3>2. \A i \in DOMAIN queue' : OnCard(queue[i])' =>
             /\ i \in DOMAIN Tail(queue) /\ OnCard(queue[i + 1]) /\ i + 1 \in DOMAIN queue /\ i \in Nat
             /\ Tail(queue)[i] = queue[i + 1] /\ "card" \notin Gone(list)
      <4>1. \A i \in DOMAIN queue' : OnCard(queue[i])' =>
               /\ i \in DOMAIN Tail(queue) /\ OnCard(Tail(queue)[i]) /\ "card" \notin Gone(list)
        BY <3>1 DEF Alike, OnCard, Handlers, Unmounted
      <4> QED BY <2>1, <4>1, TailIsTyped
    <3>3. ASSUME NEW i \in DOMAIN queue', OnCard(queue[i])'
          PROVE  /\ "card" \in busy'
                 /\ \A j \in DOMAIN queue' : OnCard(queue[j])' => i = j
                 /\ dialog'.open \in Confirms /\ Handlers[queue'[i].command].dialog = dialog'.open
                       => queue'[i].mine
      <4>1. /\ i \in DOMAIN Tail(queue) /\ OnCard(queue[i + 1]) /\ i + 1 \in DOMAIN queue /\ i \in Nat
            /\ Tail(queue)[i] = queue[i + 1] /\ "card" \notin Gone(list)
        BY <3>2, <3>3
      <4>2. "card" \in busy'
        BY <3>1, <4>1 DEF CardInv
      <4>3. \A j \in DOMAIN queue' : OnCard(queue[j])' => i = j
        <5>1. \A j \in DOMAIN queue' : OnCard(queue[j])' =>
                 OnCard(queue[j + 1]) /\ j + 1 \in DOMAIN queue /\ j \in Nat
          BY <3>2
        <5>2. \A j \in DOMAIN queue' : OnCard(queue[j])' => i + 1 = j + 1 /\ j \in Nat
          BY <4>1, <5>1 DEF CardInv
        <5> QED BY <4>1, <5>2
      <4>4. ASSUME dialog'.open \in Confirms, Handlers[queue'[i].command].dialog = dialog'.open
            PROVE  queue'[i].mine
        <5>1. ~closes /\ dialog' = dialog
          BY <3>1, <4>4, StartingValues
        <5>2. queue'[i].command = queue[i + 1].command
          BY <3>1, <4>1 DEF Alike
        <5>3. queue[i + 1].mine
          BY <4>1, <4>4, <5>1, <5>2 DEF CardInv
        <5> QED BY <3>1, <4>1, <5>1, <5>3
      <4> QED BY <4>2, <4>3, <4>4
    <3> QED BY <3>1, <3>3 DEF CardInv, Handlers
  <2> QED BY <2>1, <2>2, <2>3
<1>3. CASE UNCHANGED <<page, dialog, busy, queue>>
  BY <1>3, SameCard
<1> QED BY <1>1, <1>2, <1>3 DEF TheRouter, CheckRole, Write, ReadRole, ReadList, tab

LEMMA CardInit == Init => CardInv
<1> SUFFICES ASSUME Init
             PROVE  CardInv
  OBVIOUS
<1>1. DOMAIN queue = {}
  BY DEF Init
<1> QED BY <1>1 DEF CardInv

LEMMA CardNext ==
    ASSUME Typed, CardInv, [Next]_vars
    PROVE  CardInv'
<1>1. CASE UNCHANGED vars
  BY <1>1, SameCard DEF vars
<1>2. CASE Others
  BY <1>2, SameCard DEF Others, OthersWrite, OthersChangeRole, OthersChangeOwners, tab
<1>3. CASE Mishap
  BY <1>3, SameCard DEF Mishap, WriteFails, ReadFails, tab
<1> QED BY <1>1, <1>2, <1>3, UserKeepsCard, RouterKeepsCard DEF Next

\* What AnswerClosesItsDialog says of a step.
ClosesItsOwn ==
    Acting /\ call.step = "answer" /\ dialog.open \in Confirms /\ dialog'.open = "closed"
        /\ page' = page /\ call'.step = "start" => Head(queue).mine

LEMMA CardImplies ==
    ASSUME Typed, StepInv, CardInv, [Next]_vars
    PROVE  ClosesItsOwn
<1> SUFFICES ASSUME Acting, call.step = "answer", dialog.open \in Confirms,
                    dialog'.open = "closed", page' = page, call'.step = "start"
             PROVE  Head(queue).mine
  BY DEF ClosesItsOwn
<1>1. dialog' # dialog /\ call' # call
  BY StartingValues
<1>2. PICK withLink \in BOOLEAN : Answer(withLink)
  <2>1. ~UNCHANGED vars /\ ~Others /\ ~Mishap
    BY <1>1
       DEF vars, Others, OthersWrite, OthersChangeRole, OthersChangeOwners, Mishap, WriteFails, ReadFails, tab
  <2>2. ~TheUser
    BY <1>1, StartingValues
       DEF TheUser, OpenDialog, Submit, EditForm, CloseDialog, SelectStoredState, PasteState, NavigateAway
  <2>3. ~Arrive
    BY DEF Arrive
  <2> QED BY <1>1, <2>1, <2>2, <2>3 DEF Next, TheRouter, CheckRole, Write, ReadRole, ReadList, tab
<1>3. (AnswerLeaves => Leave) /\ (~AnswerLeaves => AnswerStays(withLink))
  BY <1>2, Answering
<1>4. page # "elsewhere"
  BY DEF StepInv, Acting
<1>5. AnswerStays(withLink)
  BY <1>3, <1>4 DEF Leave
<1>6. AnswerCloses(withLink)
  BY <1>1, <1>5 DEF AnswerStays
<1> QED BY <1>6, AnswersOfTheCard

-----------------------------------------------------------------------------
(* What is offered is allowed, as long as nothing has changed since.       *)

FitsRow(r) ==
    /\ r.exists => row.exists /\ r.owner = row.owner /\ r.others = row.others
    /\ r.invited => row.invited

\* What a view of this version says is so.
Fits(view) ==
    view.version = version => view.role = role /\ FitsRow(view.active) /\ FitsRow(view.archived)

\* What a dialog was offered on the strength of.
Promise(d) ==
    /\ page = "environments" /\ d # "closed" =>
          /\ HasPermission(role, "manage_environments")
          /\ d # "create" => row.exists
          /\ d = "delete" => HasPermission(role, "delete_environment")
    /\ page = "project" /\ d # "closed" =>
          /\ HasPermission(role, "manage_projects") /\ row.exists
          /\ d = "delete" => HasPermission(role, "delete_project")
    /\ page = "team" /\ d # "closed" =>
          /\ HasPermission(role, "manage_members")
          /\ d = "remove" => row.exists /\ (row.owner => role = "owner") /\ ~IsLastOwner(row)

Allowed(command, arg) ==
    /\ Checked(role, command, arg)
    /\ Outcome(command, arg) \in {"done", "failed"} \/ OfferedRegardless(command)

ViewInv ==
    /\ page # "elsewhere" => Fits(shown)
    /\ call.step = "lists" => Fits(call.view)
    /\ page \in {"environments", "project", "settings"} /\ shown.list # "nowhere" =>
          shown[shown.list].exists

DialogInv == dialog.seen = version => Promise(dialog.open)

QueueInv ==
    \A i \in DOMAIN queue :
        queue[i].command \notin {"refresh", "createProject"} /\ queue[i].seen = version =>
            Allowed(queue[i].command, queue[i].arg)

ResultInv ==
    call.result \in {"denied", "nothing"} /\ ~OfferedRegardless(Head(queue).command) =>
        Head(queue).seen < version

OfferInv == ViewInv /\ DialogInv /\ QueueInv /\ ResultInv

\* The matrix of the pages and the actions, and the ranks of the policies.
LEMMA Ranks ==
    ASSUME NEW r \in Roles \cup {NoRole}
    PROVE  /\ HasPermission(r, "manage_environments") <=> HasOrganizationRole(r, "developer")
           /\ HasPermission(r, "delete_environment") <=> HasOrganizationRole(r, "admin")
           /\ HasPermission(r, "manage_projects") <=> HasOrganizationRole(r, "admin")
           /\ HasPermission(r, "delete_project") <=> HasOrganizationRole(r, "owner")
           /\ HasPermission(r, "manage_members") <=> HasOrganizationRole(r, "admin")
           /\ HasPermission(r, "manage_organization") <=> HasOrganizationRole(r, "admin")
           /\ HasRole(r, "admin") <=> HasOrganizationRole(r, "admin")
           /\ HasOrganizationRole(r, "admin") => HasOrganizationRole(r, "developer")
           /\ r = "owner" => HasOrganizationRole(r, "owner")
<1>1. r \in {"owner", "admin", "qa", "developer", "viewer", "none"}
  BY ConstantsAssumption DEF OrganizationRoles, NoRole
<1> QED BY <1>1 DEF HasPermission, HasRole, HasOrganizationRole, RoleRank, RankGated,
                    OrganizationRoleRank, NoRole

LEMMA Assignable ==
    ASSUME NEW r
    PROVE  "owner" \in AssignableRoles(r) => r = "owner"
BY DEF AssignableRoles

LEMMA SameAllowed ==
    ASSUME UNCHANGED <<page, role, row>>, NEW command, NEW arg, Allowed(command, arg)
    PROVE  Allowed(command, arg)'
BY DEF Allowed, Outcome, Permitted, ProjectPolicies, SettingsPolicies, CredentialPolicies,
       EnvironmentPolicies, MemberPolicies, InvitationPolicies, PreventLastOwnerRemoval,
       OfferedRegardless, IsLastOwner

\* What is shown is what the row is, if nothing has changed since.
LEMMA ShownIsSo ==
    ASSUME Typed, ViewInv, page # "elsewhere", shown.version = version
    PROVE  /\ shown.role = role
           /\ page \in {"environments", "project", "settings"} /\ shown.list # "nowhere" => row.exists
           /\ shown.active.exists =>
                 row.exists /\ shown.active.owner = row.owner /\ shown.active.others = row.others
           /\ shown.active.invited => row.invited
<1>1. Fits(shown) /\ shown.list \in {"active", "archived", "nowhere"}
  BY DEF ViewInv, Typed, Views
<1> QED BY <1>1 DEF Fits, FitsRow, ViewInv

\* A dialog opened with what is so is offered by right.
LEMMA OpenedByRight ==
    ASSUME Typed, ViewInv, shown.version = version, NEW d \in Offered
    PROVE  Promise(d)
<1>1. page # "elsewhere"
  BY DEF Offered
<1>2. CASE page = "environments"
  BY <1>1, <1>2, ShownIsSo DEF Offered, EnvironmentDialogs, EnvironmentMenu, Promise
<1>3. CASE page = "project"
  BY <1>1, <1>3, ShownIsSo DEF Offered, ProjectDialogs, Promise
<1>4. CASE page = "team"
  BY <1>1, <1>4, ShownIsSo
     DEF Offered, TeamDialogs, CanManage, CanEditRole, CanRemove, IsLastOwner, Promise
<1> QED BY <1>2, <1>3, <1>4 DEF Promise

\* What a submitted command goes by.
LEMMA SubmittedBy ==
    ASSUME Typed, SeenInv, ViewInv, DialogInv, NEW command \in Commands, NEW arg,
           MaySubmit(command, arg), OfferedBy(command) = version
    PROVE  /\ shown.version = version /\ page # "elsewhere"
           /\ dialog.open = Handlers[command].dialog
           /\ dialog.open # "closed" /\ command \notin PanelCommands => Promise(dialog.open)
<1>1. page # "elsewhere"
  BY SettingsHandlers DEF Commands, Handlers
<1>2. dialog.open = Handlers[command].dialog
  BY DEF MaySubmit
<1>3. shown.version = version
  <2>1. OfferedBy(command) \in {shown.version, dialog.seen}
    BY DEF OfferedBy
  <2> QED BY <2>1, VersionTypes DEF SeenInv
<1>4. dialog.open # "closed" /\ command \notin PanelCommands => dialog.seen = version
  BY <1>2 DEF OfferedBy
<1> QED BY <1>1, <1>2, <1>3, <1>4 DEF DialogInv

LEMMA EnvironmentByRight ==
    ASSUME Typed, SeenInv, ViewInv, DialogInv, page = "environments",
           NEW command \in Commands, NEW arg \in Args(command),
           MaySubmit(command, arg), OfferedBy(command) = version
    PROVE  Allowed(command, arg)
<1>1. /\ shown.version = version /\ dialog.open = Handlers[command].dialog
      /\ dialog.open # "closed" /\ command \notin PanelCommands => Promise(dialog.open)
  BY SubmittedBy
<1>2. command \in {"setDefaultEnvironment", "toggleEnvironment", "deleteEnvironment", "updateEnvironment",
                   "setEnvironmentAuthMethod", "saveEnvironmentStoredState", "createEnvironment"}
  BY EnvironmentHandlers DEF Commands, Handlers
<1>3. /\ shown.role = role /\ (shown.list # "nowhere" => row.exists)
      /\ role \in Roles \cup {NoRole}
  BY <1>1, ShownIsSo DEF Typed
<1>4. CASE command = "setDefaultEnvironment"
  <2>1. EnvironmentMenu
    BY <1>4 DEF MaySubmit, SubmitsOfCard, PanelCommands
  <2>2. HasPermission(role, "manage_environments") /\ row.exists
    BY <1>3, <2>1 DEF EnvironmentMenu
  <2>3. Checked(role, command, arg)
    BY <1>4, <2>2 DEF Checked, RequireManageEnvironments
  <2>4. Permitted(command, arg)
    BY <1>3, <1>4, <2>2, Ranks DEF Permitted, EnvironmentPolicies
  <2> QED BY <1>4, <2>2, <2>3, <2>4 DEF Allowed, Outcome, PreventLastOwnerRemoval, Inserts
<1>5. CASE command \in {"toggleEnvironment", "deleteEnvironment", "updateEnvironment", "createEnvironment"}
  <2>1. /\ dialog.open \notin {"closed"} /\ command \notin PanelCommands
        /\ (dialog.open = "create" <=> command = "createEnvironment")
        /\ (dialog.open = "delete" <=> command = "deleteEnvironment")
    BY <1>1, <1>5, EnvironmentHandlers
       DEF Handlers, Handler, HandleToggle, HandleDelete, SubmitEnvironment, SubmitCreate, PanelCommands
  <2>2. /\ HasPermission(role, "manage_environments")
        /\ command # "createEnvironment" => row.exists
        /\ command = "deleteEnvironment" => HasPermission(role, "delete_environment")
    BY <1>1, <2>1 DEF Promise
  <2>3. Checked(role, command, arg)
    BY <1>5, <2>2 DEF Checked, RequireManageEnvironments
  <2>4. Permitted(command, arg)
    BY <1>3, <1>5, <2>2, Ranks DEF Permitted, EnvironmentPolicies
  <2> QED BY <1>5, <2>2, <2>3, <2>4 DEF Allowed, Outcome, PreventLastOwnerRemoval, Inserts
<1>6. CASE command \in PanelCommands
  <2>1. HasRole(role, "admin") /\ dialog.open = "edit"
    BY <1>3, <1>6 DEF MaySubmit, SubmitsOfPanel, PanelShown
  <2>2. row.exists
    BY <1>3, <2>1 DEF Typed, CardDialogs
  <2>3. Checked(role, command, arg)
    BY <1>6, <2>1 DEF Checked, RequireAdmin, PanelCommands
  <2>4. Permitted(command, arg)
    BY <1>3, <1>6, <2>1, Ranks DEF Permitted, EnvironmentPolicies, CredentialPolicies, PanelCommands
  <2> QED BY <1>6, <2>2, <2>3, <2>4 DEF Allowed, Outcome, PreventLastOwnerRemoval, Inserts, PanelCommands
<1> QED BY <1>2, <1>4, <1>5, <1>6 DEF PanelCommands

LEMMA ProjectByRight ==
    ASSUME Typed, SeenInv, ViewInv, DialogInv, page = "project",
           NEW command \in Commands, NEW arg \in Args(command),
           MaySubmit(command, arg), OfferedBy(command) = version
    PROVE  Allowed(command, arg)
<1>1. /\ shown.version = version /\ dialog.open = Handlers[command].dialog
      /\ dialog.open # "closed" /\ command \notin PanelCommands => Promise(dialog.open)
  BY SubmittedBy
<1>2. command \in {"toggleProject", "deleteProject", "updateProject"}
  BY ProjectHandlers DEF Commands, Handlers
<1>3. /\ dialog.open # "closed" /\ command \notin PanelCommands
      /\ (dialog.open = "delete" <=> command = "deleteProject")
  BY <1>1, <1>2, ProjectHandlers
     DEF Handlers, Handler, HandleProjectToggle, HandleProjectDelete, SubmitProject, PanelCommands
<1>4. /\ HasPermission(role, "manage_projects") /\ row.exists
      /\ command = "deleteProject" => HasPermission(role, "delete_project")
  BY <1>1, <1>3 DEF Promise
<1>5. Checked(role, command, arg)
  BY <1>2, <1>4 DEF Checked, RequireManageProjects
<1>6. Permitted(command, arg)
  <2>1. role \in Roles \cup {NoRole}
    BY DEF Typed
  <2> QED BY <1>2, <1>4, <2>1, Ranks DEF Permitted, ProjectPolicies
<1> QED BY <1>2, <1>4, <1>5, <1>6 DEF Allowed, Outcome, PreventLastOwnerRemoval, Inserts

LEMMA TeamByRight ==
    ASSUME Typed, SeenInv, ViewInv, DialogInv, page = "team",
           NEW command \in Commands, NEW arg \in Args(command),
           MaySubmit(command, arg), OfferedBy(command) = version
    PROVE  Allowed(command, arg)
<1>1. /\ shown.version = version /\ dialog.open = Handlers[command].dialog
      /\ dialog.open # "closed" /\ command \notin PanelCommands => Promise(dialog.open)
  BY SubmittedBy
<1>2. command \in {"changeMemberRole", "removeMember", "revokeInvitation", "resendInvitation", "inviteMember"}
  BY TeamHandlers DEF Commands, Handlers
<1>3. /\ shown.role = role /\ role \in Roles \cup {NoRole}
      /\ shown.active.exists => row.exists /\ shown.active.owner = row.owner
      /\ shown.active.invited => row.invited
  BY <1>1, ShownIsSo DEF Typed
<1>4. SubmitsOfTeam(command, arg)
  BY <1>2 DEF MaySubmit, PanelCommands
<1>5. CASE command = "changeMemberRole"
  <2>1. CanEditRole /\ arg \in AssignableRoles(role)
    BY <1>3, <1>4, <1>5 DEF SubmitsOfTeam, SelectsRole
  <2>2. /\ HasPermission(role, "manage_members") /\ row.exists
        /\ (row.owner => role = "owner") /\ (arg = "owner" => role = "owner")
    BY <1>3, <2>1, Assignable DEF CanEditRole, CanManage
  <2>3. Checked(role, command, arg)
    BY <1>5, <2>2 DEF Checked, RequireManageMembers
  <2>4. Permitted(command, arg)
    BY <1>3, <1>5, <2>2, Ranks DEF Permitted, MemberPolicies
  <2> QED BY <1>5, <2>2, <2>3, <2>4
          DEF Allowed, Outcome, PreventLastOwnerRemoval, OfferedRegardless, Inserts
<1>6. CASE command = "removeMember"
  <2>1. Promise("remove")
    BY <1>1, <1>6, TeamHandlers DEF Handlers, Handler, HandleRemove, PanelCommands
  <2>2. /\ HasPermission(role, "manage_members") /\ row.exists /\ (row.owner => role = "owner")
        /\ ~IsLastOwner(row) /\ arg = ""
    BY <1>6, <2>1 DEF Promise, Args
  <2>3. Checked(role, command, arg)
    BY <1>6, <2>2 DEF Checked, RequireManageMembers
  <2>4. Permitted(command, arg)
    BY <1>3, <1>6, <2>2, Ranks DEF Permitted, MemberPolicies
  <2> QED BY <1>6, <2>2, <2>3, <2>4 DEF Allowed, Outcome, PreventLastOwnerRemoval, Inserts
<1>7. CASE command = "revokeInvitation"
  <2>1. Promise("revoke")
    BY <1>1, <1>7, TeamHandlers DEF Handlers, Handler, HandleRevoke, PanelCommands
  <2>2. HasPermission(role, "manage_members") /\ arg = ""
    BY <1>7, <2>1 DEF Promise, Args
  <2>3. Checked(role, command, arg)
    BY <1>7, <2>2 DEF Checked, RequireManageMembers
  <2>4. Permitted(command, arg)
    BY <1>3, <1>7, <2>2, Ranks DEF Permitted, InvitationPolicies
  <2> QED BY <1>7, <2>3, <2>4 DEF Allowed, Outcome, PreventLastOwnerRemoval, Inserts
<1>8. CASE command = "resendInvitation"
  <2>1. InvitationOffered
    BY <1>4, <1>8 DEF SubmitsOfTeam
  <2>2. HasPermission(role, "manage_members") /\ row.invited /\ arg = ""
    BY <1>3, <1>8, <2>1 DEF InvitationOffered, CanManage, Args
  <2>3. Checked(role, command, arg)
    BY <1>8, <2>2 DEF Checked, RequireManageMembers
  <2>4. Permitted(command, arg)
    BY <1>3, <1>8, <2>2, Ranks DEF Permitted, InvitationPolicies
  <2> QED BY <1>8, <2>2, <2>3, <2>4 DEF Allowed, Outcome, PreventLastOwnerRemoval, Inserts
<1>9. CASE command = "inviteMember"
  <2>1. Promise("invite") /\ arg \in AssignableRoles(role)
    BY <1>1, <1>3, <1>4, <1>9, TeamHandlers
       DEF Handlers, Handler, SubmitInvite, PanelCommands, SubmitsOfTeam
  <2>2. HasPermission(role, "manage_members") /\ (arg = "owner" => role = "owner")
    BY <2>1, Assignable DEF Promise
  <2>3. Checked(role, command, arg)
    BY <1>9, <2>2 DEF Checked, RequireManageMembers
  <2>4. Permitted(command, arg)
    BY <1>3, <1>9, <2>2, Ranks DEF Permitted, InvitationPolicies
  <2> QED BY <1>9, <2>3, <2>4 DEF Allowed, Outcome, PreventLastOwnerRemoval, Inserts
<1> QED BY <1>2, <1>5, <1>6, <1>7, <1>8, <1>9

LEMMA SettingsByRight ==
    ASSUME Typed, SeenInv, ViewInv, DialogInv, page = "settings",
           NEW command \in Commands, NEW arg \in Args(command),
           MaySubmit(command, arg), OfferedBy(command) = version
    PROVE  Allowed(command, arg)
<1>1. shown.version = version
  BY SubmittedBy
<1>2. command \in {"updateOrganizationName", "updateProfile", "updatePassword"}
  BY SettingsHandlers DEF Commands, Handlers
<1>3. /\ shown.role = role /\ (shown.list # "nowhere" => row.exists) /\ role \in Roles \cup {NoRole}
  BY <1>1, ShownIsSo DEF Typed
<1>4. Handlers[command].control \in FormsShown
  BY <1>2 DEF MaySubmit, SubmitsOfSettings, PanelCommands
<1>5. command = "updateOrganizationName" => Handlers[command].control = "organization"
  BY SettingsHandlers DEF Handlers, Handler, SubmitOrganization
<1>6. row.exists /\ (command = "updateOrganizationName" => HasPermission(role, "manage_organization"))
  BY <1>3, <1>4, <1>5 DEF FormsShown
<1>7. Checked(role, command, arg)
  BY <1>2, <1>6 DEF Checked, RequireManageOrganization, RequireSignedIn
<1>8. Permitted(command, arg)
  BY <1>2, <1>3, <1>6, Ranks DEF Permitted, SettingsPolicies
<1> QED BY <1>2, <1>6, <1>7, <1>8 DEF Allowed, Outcome, PreventLastOwnerRemoval, Inserts

LEMMA SubmittedByRight ==
    ASSUME Typed, SeenInv, ViewInv, DialogInv, NEW command \in Commands, command # "createProject",
           NEW arg \in Args(command), MaySubmit(command, arg), OfferedBy(command) = version
    PROVE  Allowed(command, arg)
<1>1. page \in {"environments", "project", "team", "settings"}
  <2>1. page \in AllPages /\ page # "elsewhere"
    BY SubmittedBy DEF Typed
  <2>2. page # "projects"
    BY ProjectHandlers DEF Commands, Handlers
  <2> QED BY <2>1, <2>2 DEF AllPages
<1> QED BY <1>1, EnvironmentByRight, ProjectByRight, TeamByRight, SettingsByRight

\* When a new version comes up, nothing has been offered by it.
LEMMA NewVersion ==
    ASSUME Typed, StepInv, SeenInv, OfferInv, version' = version + 1,
           UNCHANGED <<page, shown, dialog, queue>>, call'.view = call.view,
           call'.step = "lists" => call.step = "lists",
           call'.result \in {"denied", "nothing"} => call' = call
    PROVE  OfferInv'
<1>1. /\ shown.version # version' /\ dialog.seen # version'
      /\ call'.step = "lists" => call'.view.version # version'
      /\ \A i \in DOMAIN queue : queue[i].seen # version' /\ queue[i].seen < version'
  BY VersionTypes DEF SeenInv
<1>2. ViewInv'
  BY <1>1 DEF OfferInv, ViewInv, Fits
<1>3. DialogInv' /\ QueueInv'
  BY <1>1 DEF DialogInv, QueueInv
<1>4. ResultInv'
  <2>1. SUFFICES ASSUME call'.result \in {"denied", "nothing"}
                 PROVE  Head(queue).seen < version'
    BY DEF ResultInv, OfferedRegardless, IsLastOwner
  <2>2. queue # <<>>
    BY <2>1 DEF StepInv, Acting
  <2> QED BY <1>1, <2>2, FirstIsTyped
<1> QED BY <1>2, <1>3, <1>4 DEF OfferInv

LEMMA LeavingKeepsOffer ==
    ASSUME Typed, Leave
    PROVE  OfferInv'
<1>1. page' = "elsewhere" /\ shown' = Blank /\ dialog' = Closed /\ queue' = <<>> /\ call' = Idle
  BY DEF Leave
<1>2. call'.step = "start" /\ call'.result = "" /\ dialog'.open = "closed"
  BY <1>1, StartingValues
<1>3. DOMAIN queue' = {}
  BY <1>1
<1> QED BY <1>1, <1>2, <1>3 DEF OfferInv, ViewInv, DialogInv, QueueInv, ResultInv, Promise

\* Nothing that is offered changes.
LEMMA SameOffer ==
    ASSUME OfferInv, UNCHANGED <<page, role, row, version, shown, dialog, queue, call>>
    PROVE  OfferInv'
<1>1. ViewInv'
  BY DEF OfferInv, ViewInv, Fits, FitsRow
<1>2. DialogInv'
  BY DEF OfferInv, DialogInv, Promise
<1>3. QueueInv'
  BY SameAllowed DEF OfferInv, QueueInv
<1>4. ResultInv'
  BY DEF OfferInv, ResultInv, OfferedRegardless, IsLastOwner
<1> QED BY <1>1, <1>2, <1>3, <1>4 DEF OfferInv

LEMMA SameView ==
    ASSUME ViewInv, UNCHANGED <<page, role, row, version, shown>>,
           call'.step = "lists" => call.step = "lists" /\ call'.view = call.view
    PROVE  ViewInv'
BY DEF ViewInv, Fits, FitsRow

LEMMA SameDialog ==
    ASSUME DialogInv, UNCHANGED <<page, role, row, version>>, dialog' = dialog \/ dialog' = Closed
    PROVE  DialogInv'
<1>1. CASE dialog' = dialog
  BY <1>1 DEF DialogInv, Promise
<1>2. CASE dialog' = Closed
  BY <1>2, StartingValues DEF DialogInv, Promise
<1> QED BY <1>1, <1>2

LEMMA SameQueue ==
    ASSUME QueueInv, UNCHANGED <<page, role, row, version, queue>>
    PROVE  QueueInv'
BY SameAllowed DEF QueueInv

\* The commands that are left were there.
LEMMA KeptQueue ==
    ASSUME QueueInv, UNCHANGED <<page, role, row, version>>,
           \A i \in DOMAIN queue' : queue'[i].command # "refresh" =>
               \E j \in DOMAIN queue :
                   /\ queue'[i].command = queue[j].command /\ queue'[i].arg = queue[j].arg
                   /\ queue'[i].seen = queue[j].seen
    PROVE  QueueInv'
<1>1. \A i \in DOMAIN queue' :
         queue'[i].command \notin {"refresh", "createProject"} /\ queue'[i].seen = version =>
             Allowed(queue'[i].command, queue'[i].arg)
  BY DEF QueueInv
<1> QED BY <1>1
        DEF QueueInv, Allowed, Outcome, Permitted, ProjectPolicies, SettingsPolicies,
            CredentialPolicies, EnvironmentPolicies, MemberPolicies, InvitationPolicies,
            PreventLastOwnerRemoval, OfferedRegardless, IsLastOwner

LEMMA RestKeepsQueue ==
    ASSUME Typed, QueueInv, queue # <<>>, NEW r, Alike(queue', r), r = Rest \/ r = Tail(queue),
           UNCHANGED <<page, role, row, version>>
    PROVE  QueueInv'
<1>1. \A i \in DOMAIN r : (i + 1 \in DOMAIN queue /\ r[i] = queue[i + 1]) \/ r[i] = Refresh
  BY RestIsTyped, TailIsTyped
<1>2. \A i \in DOMAIN queue' : queue'[i].command # "refresh" =>
         \E j \in DOMAIN queue :
             /\ queue'[i].command = queue[j].command /\ queue'[i].arg = queue[j].arg
             /\ queue'[i].seen = queue[j].seen
  BY <1>1, RefreshIsTyped DEF Alike
<1> QED BY <1>2, KeptQueue

LEMMA UserKeepsOffer ==
    ASSUME Typed, StepInv, SeenInv, OfferInv, TheUser
    PROVE  OfferInv'
<1>i. ViewInv /\ DialogInv /\ QueueInv /\ ResultInv
  BY DEF OfferInv
<1>1. ASSUME NEW d \in Dialogs, OpenDialog(d)
      PROVE  OfferInv'
  <2>1. dialog'.open = d /\ dialog'.seen = shown.version /\ d \in Offered
        /\ UNCHANGED <<page, role, row, version, shown, queue, call>>
    BY <1>1 DEF OpenDialog, stored
  <2>2. DialogInv'
    <3>1. shown.version = version => Promise(d)
      BY <1>i, <2>1, OpenedByRight
    <3> QED BY <2>1, <3>1 DEF DialogInv, Promise
  <2>3. ViewInv' /\ QueueInv'
    BY <1>i, <2>1, SameView, SameQueue
  <2>4. ResultInv'
    BY <1>i, <2>1 DEF ResultInv, OfferedRegardless, IsLastOwner
  <2> QED BY <2>2, <2>3, <2>4 DEF OfferInv
<1>2. ASSUME NEW command \in Commands, NEW arg \in Args(command), Submit(command, arg)
      PROVE  OfferInv'
  <2> DEFINE e == Entry(command, arg, OfferedBy(command))
  <2>1. queue' = Append(queue, e) /\ MaySubmit(command, arg)
        /\ UNCHANGED <<page, role, row, version, shown, dialog, call>>
    BY <1>2 DEF Submit, stored
  <2>2. e \in Entries(Commands) /\ e.command = command /\ e.arg = arg /\ e.seen = OfferedBy(command)
    BY OfferTypes, ArgTypes DEF Entry, Entries
  <2> HIDE DEF e
  <2>3. \A i \in DOMAIN queue' : (i \in DOMAIN queue /\ queue'[i] = queue[i]) \/ queue'[i] = e
    <3>1. DOMAIN queue' = 1..(Len(queue) + 1) /\ DOMAIN queue = 1..Len(queue) /\ Len(queue) \in Nat
          /\ queue'[Len(queue) + 1] = e /\ \A i \in 1..Len(queue) : queue'[i] = queue[i]
      BY <2>1, <2>2, Counted, LastOfQueue
    <3> QED BY <3>1
  <2>4. e.command # "createProject" /\ e.seen = version => Allowed(e.command, e.arg)
    BY <1>i, <2>1, <2>2, SubmittedByRight
  <2>5. \A i \in DOMAIN queue' :
           queue'[i].command \notin {"refresh", "createProject"} /\ queue'[i].seen = version =>
               Allowed(queue'[i].command, queue'[i].arg)
    BY <1>i, <2>3, <2>4 DEF QueueInv
  <2>6. QueueInv'
    BY <2>1, <2>5
       DEF QueueInv, Allowed, Outcome, Permitted, ProjectPolicies, SettingsPolicies, CredentialPolicies,
           EnvironmentPolicies, MemberPolicies, InvitationPolicies, PreventLastOwnerRemoval,
           OfferedRegardless, IsLastOwner
  <2>7. ResultInv'
    <3>1. queue # <<>> => Head(queue') = Head(queue)
      BY <2>1, <2>2, Counted, LastOfQueue
    <3>2. call.result # "" => queue # <<>>
      BY DEF StepInv, Acting
    <3> QED BY <1>i, <2>1, <3>1, <3>2 DEF ResultInv, OfferedRegardless, IsLastOwner
  <2>8. ViewInv' /\ DialogInv'
    BY <1>i, <2>1, SameView, SameDialog
  <2> QED BY <2>6, <2>7, <2>8 DEF OfferInv
<1>3. CASE CloseDialog
  <2>1. queue' = Disowned /\ dialog' = Closed /\ UNCHANGED <<page, role, row, version, shown, call>>
    BY <1>3 DEF CloseDialog, stored
  <2>2. queue' \in Seq(Entries(Commands)) /\ Alike(queue', queue) /\ queue \in Seq(Entries(Commands))
    BY <2>1, Disowning, Counted
  <2>3. queue # <<>> => Head(queue').command = Head(queue).command /\ Head(queue').seen = Head(queue).seen
    BY <2>2, AlikeFirst
  <2>4. QueueInv'
    BY <1>i, <2>1, <2>2, KeptQueue DEF Alike
  <2>5. ResultInv'
    <3>1. call.result # "" => queue # <<>>
      BY DEF StepInv, Acting
    <3> QED BY <1>i, <2>1, <2>3, <3>1 DEF ResultInv, OfferedRegardless, IsLastOwner
  <2>6. ViewInv' /\ DialogInv'
    BY <1>i, <2>1, SameView, SameDialog
  <2> QED BY <2>4, <2>5, <2>6 DEF OfferInv
<1>4. CASE NavigateAway
  BY <1>4, LeavingKeepsOffer DEF NavigateAway
<1>5. CASE UNCHANGED <<page, role, row, version, shown, dialog, queue, call>>
  BY <1>5, SameOffer
<1> QED BY <1>1, <1>2, <1>3, <1>4, <1>5
        DEF TheUser, EditForm, SelectStoredState, PasteState, stored, Commands

\* What is refused, or done to no row, was offered by an older version.
LEMMA RefusedLate ==
    ASSUME Typed, SeenInv, QueueInv, Acting, ~OfferedRegardless(Head(queue).command),
           ~Allowed(Head(queue).command, Head(queue).arg)
    PROVE  Head(queue).seen < version
<1>1. Head(queue) = queue[1] /\ 1 \in DOMAIN queue
  BY FirstIsTyped
<1>2. Head(queue).seen # version
  BY <1>1 DEF QueueInv, Acting, OfferedRegardless
<1> QED BY <1>1, <1>2, VersionTypes DEF SeenInv

\* What has been read fits.
LEMMA ReadFits ==
    ASSUME Typed, NEW list \in Lists, Fits(call.view)
    PROVE  Fits(With(call.view, list))
<1>1. call.view \in Views /\ row \in Rows
  BY DEF Typed, Calls
<1>2. With(call.view, list).version = call.view.version /\ With(call.view, list).role = call.view.role
  BY <1>1, ReadIsTyped
<1>3. SUFFICES ASSUME FitsRow(call.view.active), FitsRow(call.view.archived)
               PROVE  FitsRow(With(call.view, list).active) /\ FitsRow(With(call.view, list).archived)
  BY <1>2 DEF Fits
<1>4. FitsRow(row) /\ FitsRow(NoRow)
  BY StartingValues DEF FitsRow
<1>5. CASE page = "environments"
  <2>1. list \in {"active", "archived"}
    BY <1>5 DEF Lists
  <2>2. \/ With(call.view, list) = [call.view EXCEPT ![list] = row]
        \/ With(call.view, list) = [call.view EXCEPT ![list] = NoRow]
    BY <1>5 DEF With, GetEnvironments
  <2> QED BY <1>1, <1>3, <1>4, <2>1, <2>2 DEF Views
<1>6. CASE page # "environments"
  <2>1. \E r : With(call.view, list) = [call.view EXCEPT !.active = r] /\ FitsRow(r)
    <3>1. FitsRow([row EXCEPT !.invited = call.view.active.invited])
          /\ FitsRow([call.view.active EXCEPT !.invited = row.invited])
      BY <1>1, <1>3 DEF FitsRow, Rows, Views
    <3>2. GetOrganizationMembers(call.view) =
             [call.view EXCEPT !.active = [row EXCEPT !.invited = call.view.active.invited]]
      BY DEF GetOrganizationMembers
    <3>3. GetPendingInvitations(call.view) =
             [call.view EXCEPT !.active = [call.view.active EXCEPT !.invited = row.invited]]
      BY <1>1 DEF GetPendingInvitations, Views
    <3>4. GetRow(call.view) = [call.view EXCEPT !.active = row]
      BY DEF GetRow
    <3>5. With(call.view, list) \in
             {GetOrganizationMembers(call.view), GetPendingInvitations(call.view), GetRow(call.view)}
      BY <1>6 DEF With
    <3> QED BY <1>4, <3>1, <3>2, <3>3, <3>4, <3>5
  <2>2. PICK r : With(call.view, list) = [call.view EXCEPT !.active = r] /\ FitsRow(r)
    BY <2>1
  <2> QED BY <1>1, <1>3, <2>2 DEF Views
<1> QED BY <1>5, <1>6

LEMMA RouterKeepsOffer ==
    ASSUME Typed, StepInv, SeenInv, OfferInv, TheRouter
    PROVE  OfferInv'
<1>i. ViewInv /\ DialogInv /\ QueueInv /\ ResultInv
  BY DEF OfferInv
<1>t. call \in Calls /\ call.view \in Views
  BY DEF Typed, Calls
<1>1. CASE CheckRole
  <2>1. /\ Acting /\ UNCHANGED <<page, role, row, version, shown, dialog, queue>>
        /\ call'.step # "lists" /\ call'.result \in {call.result, "denied"}
        /\ call'.result # call.result => ~Checked(role, Head(queue).command, Head(queue).arg)
    BY <1>1, <1>t DEF CheckRole, stored, tab, Calls
  <2>2. ViewInv' /\ DialogInv' /\ QueueInv'
    BY <1>i, <2>1, SameView, SameDialog, SameQueue
  <2>3. ResultInv'
    BY <1>i, <2>1, RefusedLate DEF ResultInv, OfferedRegardless, IsLastOwner, Allowed
  <2> QED BY <2>2, <2>3 DEF OfferInv
<1>2. CASE Write
  <2> DEFINE entry == Head(queue)
             outcome == Outcome(entry.command, entry.arg)
  <2>1. /\ Acting /\ UNCHANGED <<page, shown, dialog, queue>>
        /\ call'.step = "answer" /\ call'.result = outcome /\ call'.view = call.view
        /\ \/ row' = row /\ role' = role /\ version' = version
           \/ version' = version + 1 /\ outcome = "done"
    <3>1. call' = [call EXCEPT !.step = "answer", !.result = outcome]
      BY <1>2 DEF Write
    <3>2. Acting /\ UNCHANGED <<page, shown, dialog, queue>>
      BY <1>2 DEF Write, tab
    <3>3. \/ row' = row /\ role' = role /\ version' = version
          \/ version' = version + 1 /\ outcome = "done"
      BY <1>2 DEF Write
    <3> HIDE DEF outcome
    <3> QED BY <1>t, <3>1, <3>2, <3>3 DEF Calls
  <2> HIDE DEF outcome
  <2>2. CASE version' = version + 1 /\ outcome = "done"
    BY <2>1, <2>2, NewVersion
  <2>3. CASE row' = row /\ role' = role /\ version' = version
    <3>1. ViewInv' /\ DialogInv' /\ QueueInv'
      BY <1>i, <2>1, <2>3, SameView, SameDialog, SameQueue
    <3>2. ResultInv'
      BY <1>i, <2>1, <2>3, RefusedLate DEF ResultInv, OfferedRegardless, IsLastOwner, Allowed, outcome
    <3> QED BY <3>1, <3>2 DEF OfferInv
  <2> QED BY <2>1, <2>2, <2>3
<1>3. ASSUME NEW withLink \in BOOLEAN, Answer(withLink)
      PROVE  OfferInv'
  <2>1. /\ queue # <<>> /\ UNCHANGED <<role, row, version>>
        /\ (AnswerLeaves => Leave) /\ (~AnswerLeaves => AnswerStays(withLink))
    BY <1>3, Answering DEF Acting
  <2>2. CASE AnswerLeaves
    BY <2>1, <2>2, LeavingKeepsOffer
  <2>3. CASE ~AnswerLeaves
    <3>1. /\ page' = page /\ shown' = shown /\ call' = Idle /\ Alike(queue', Rest)
          /\ dialog' = dialog \/ dialog' = Closed
      BY <2>1, <2>3 DEF AnswerStays
    <3>2. QueueInv'
      BY <1>i, <2>1, <3>1, RestKeepsQueue
    <3>3. ViewInv' /\ DialogInv'
      BY <1>i, <2>1, <3>1, SameView, SameDialog, StartingValues
    <3>4. ResultInv'
      BY <3>1, StartingValues DEF ResultInv, OfferedRegardless, IsLastOwner
    <3> QED BY <3>2, <3>3, <3>4 DEF OfferInv
  <2> QED BY <2>2, <2>3
<1>4. CASE ReadRole
  <2>1. /\ UNCHANGED <<page, role, row, version, shown, dialog, queue>> /\ call'.result = call.result
        /\ call'.view = [Blank EXCEPT !.role = role, !.version = version]
    BY <1>4, <1>t DEF ReadRole, stored, tab, Calls
  <2>2. call'.view.role = role /\ call'.view.active = NoRow /\ call'.view.archived = NoRow
    BY <2>1, StartingValues DEF Views
  <2>3. ViewInv'
    BY <1>i, <2>1, <2>2, StartingValues DEF ViewInv, Fits, FitsRow
  <2>4. DialogInv' /\ QueueInv'
    BY <1>i, <2>1, SameDialog, SameQueue
  <2>5. ResultInv'
    BY <1>i, <2>1 DEF ResultInv, OfferedRegardless, IsLastOwner
  <2> QED BY <2>3, <2>4, <2>5 DEF OfferInv
<1>5. CASE Arrive
  <2>1. /\ Refreshing /\ call.step = "lists" /\ queue # <<>> /\ UNCHANGED <<role, row, version>>
        /\ (Leave \/ \E list \in {"active", "archived", "nowhere"} : ArriveStays(list))
    BY <1>5, Arriving
  <2>2. CASE Leave
    BY <2>1, <2>2, LeavingKeepsOffer
  <2>3. ASSUME NEW list \in {"active", "archived", "nowhere"}, ArriveStays(list)
        PROVE  OfferInv'
    <3>1. /\ page' = page /\ call' = Idle /\ Alike(queue', Tail(queue))
          /\ shown' = [call.view EXCEPT !.list = list] /\ list \in Continues(call.view)
          /\ dialog' = dialog \/ dialog' = Closed
      BY <2>3 DEF ArriveStays
    <3>2. QueueInv'
      BY <1>i, <2>1, <3>1, RestKeepsQueue
    <3>3. DialogInv'
      BY <1>i, <2>1, <3>1, SameDialog
    <3>4. ViewInv'
      <4>1. /\ shown'.version = call.view.version /\ shown'.role = call.view.role
            /\ shown'.active = call.view.active /\ shown'.archived = call.view.archived
            /\ shown'.list = list
        BY <1>t, <3>1 DEF Views
      <4>2. Fits(shown)'
        BY <1>i, <2>1, <4>1 DEF ViewInv, Fits, FitsRow
      <4>3. page \in {"environments", "project", "settings"} /\ list # "nowhere" => call.view[list].exists
        BY <3>1 DEF Continues
      <4>4. list # "nowhere" => shown'[list] = call.view[list]
        BY <4>1
      <4> QED BY <3>1, <4>1, <4>2, <4>3, <4>4, StartingValues DEF ViewInv
    <3>5. ResultInv'
      BY <3>1, StartingValues DEF ResultInv, OfferedRegardless, IsLastOwner
    <3> QED BY <3>2, <3>3, <3>4, <3>5 DEF OfferInv
  <2> QED BY <2>1, <2>2, <2>3
<1>6. ASSUME NEW list \in Lists, ReadList(list)
      PROVE  OfferInv'
  <2>1. /\ UNCHANGED <<page, role, row, version, shown, dialog, queue>> /\ call.step = "lists"
        /\ call'.result = call.result /\ call'.view = With(call.view, list)
    BY <1>6, <1>t DEF ReadList, stored, tab, Calls
  <2>2. Fits(With(call.view, list))
    BY <1>i, <2>1, ReadFits DEF ViewInv
  <2>3. ViewInv'
    BY <1>i, <2>1, <2>2 DEF ViewInv, Fits, FitsRow
  <2>4. DialogInv' /\ QueueInv'
    BY <1>i, <2>1, SameDialog, SameQueue
  <2>5. ResultInv'
    BY <1>i, <2>1 DEF ResultInv, OfferedRegardless, IsLastOwner
  <2> QED BY <2>3, <2>4, <2>5 DEF OfferInv
<1> QED BY <1>1, <1>2, <1>3, <1>4, <1>5, <1>6 DEF TheRouter

LEMMA MishapKeepsOffer ==
    ASSUME Typed, OfferInv, Mishap
    PROVE  OfferInv'
<1>i. ViewInv /\ DialogInv /\ QueueInv /\ ResultInv
  BY DEF OfferInv
<1>1. /\ UNCHANGED <<page, role, row, version, shown, dialog, queue>>
      /\ call'.view = call.view /\ (call'.step = "lists" => call.step = "lists")
      /\ call'.result \in {call.result, "failed"}
  BY DEF Mishap, WriteFails, ReadFails, stored, tab, Typed, Calls
<1>2. ViewInv' /\ DialogInv' /\ QueueInv'
  BY <1>i, <1>1, SameView, SameDialog, SameQueue
<1>3. ResultInv'
  BY <1>i, <1>1 DEF ResultInv, OfferedRegardless, IsLastOwner
<1> QED BY <1>2, <1>3 DEF OfferInv

LEMMA OthersKeepOffer ==
    ASSUME Typed, StepInv, SeenInv, OfferInv, Others
    PROVE  OfferInv'
<1>1. version' = version + 1 /\ UNCHANGED <<page, shown, dialog, queue, call>>
  BY DEF Others, OthersWrite, OthersChangeRole, OthersChangeOwners, tab
<1> QED BY <1>1, NewVersion

LEMMA OfferInit == Init => OfferInv
<1> SUFFICES ASSUME Init
             PROVE  OfferInv
  OBVIOUS
<1>1. /\ row \in Rows /\ row.exists /\ version = 0 /\ dialog = Closed /\ call = Idle
      /\ queue = <<>> /\ DOMAIN queue = {}
  BY DEF Init, InitialRows
<1>2. PICK list \in {"active", "archived"} :
        shown = [Blank EXCEPT !.role = role, ![list] = row, !.list = list]
  BY DEF Init
<1>3. /\ shown.role = role /\ shown.list = list /\ shown[list] = row
      /\ shown.active \in {row, NoRow} /\ shown.archived \in {row, NoRow}
  BY <1>2, StartingValues DEF Views
<1>4. ViewInv
  BY <1>1, <1>3, StartingValues DEF ViewInv, Fits, FitsRow
<1>5. DialogInv
  BY <1>1, StartingValues DEF DialogInv, Promise
<1>6. QueueInv /\ ResultInv
  BY <1>1, StartingValues DEF QueueInv, ResultInv
<1> QED BY <1>4, <1>5, <1>6 DEF OfferInv

LEMMA OfferNext ==
    ASSUME Typed, StepInv, SeenInv, OfferInv, [Next]_vars
    PROVE  OfferInv'
<1>1. CASE UNCHANGED vars
  BY <1>1, SameOffer DEF vars
<1> QED BY <1>1, UserKeepsOffer, OthersKeepOffer, RouterKeepsOffer, MishapKeepsOffer DEF Next

-----------------------------------------------------------------------------
(* The theorems.                                                           *)

DialogsInv == Typed /\ FitInv /\ StepInv /\ SeenInv /\ OwnInv /\ CardInv /\ OfferInv

\* The invariants hold together: the types of a write rest on the commands left,
\* the user's own changes and what is offered on the order of the versions.
THEOREM DialogsInvariant == Spec => []DialogsInv
<1>1. Init => DialogsInv
  BY TypedInit, FitInit, StepInit, SeenInit, OwnInit, CardInit, OfferInit DEF DialogsInv
<1>2. DialogsInv /\ [Next]_vars => DialogsInv'
  BY TypedNext, FitNext, StepNext, SeenNext, OwnNext, CardNext, OfferNext DEF DialogsInv
<1> QED BY <1>1, <1>2, PTL DEF Spec

\* The tab's state has its types, whatever the number of changes, calls and
\* mishaps, and a dialog of the card is open only while the card is there.
THEOREM DialogTypes == Spec => []TypeOK
<1>1. DialogsInv => TypeOK
  BY TypedIsTypeOK DEF DialogsInv
<1> QED BY <1>1, DialogsInvariant, PTL

\* What a page offers by the permission matrix, the server's checks, the policies
\* of the tables and the trigger that keeps the last owner allow: a call is refused,
\* or done to no row, only after something has changed behind the page that offered
\* it.  Two controls are offered regardless: "New Project", and the role's select on
\* the row of the only owner.
THEOREM OffersAreAllowed == Spec => []OfferedIsAllowed
<1>1. DialogsInv => OfferedIsAllowed
  BY DEF DialogsInv, OfferInv, ResultInv, OfferedIsAllowed
<1> QED BY <1>1, DialogsInvariant, PTL

\* What the user has changed and the page does not show is on its way to it,
\* whatever is closed, moved, unmounted or queued up meanwhile.
THEOREM ChangesArrive == Spec => []OwnChangesArrive
<1>1. DialogsInv => OwnChangesArrive
  BY OwnImplies DEF DialogsInv
<1> QED BY <1>1, DialogsInvariant, PTL

\* An answer closes the confirmation it was asked in, and no other: the card
\* waits for one call at most, so the open confirmation is that call's.
THEOREM AnswersCloseTheirDialogs == Spec => AnswerClosesItsDialog
<1>1. DialogsInv /\ [Next]_vars => [ClosesItsOwn]_vars
  BY CardImplies DEF DialogsInv
<1>2. [][ClosesItsOwn]_vars => AnswerClosesItsDialog
  BY PTL DEF AnswerClosesItsDialog, ClosesItsOwn
<1> QED BY <1>1, <1>2, DialogsInvariant, PTL DEF Spec
=============================================================================
