--------------------------- MODULE AccountsProofs ---------------------------
(* Proofs about the provider accounts as MCAccounts composes them, for every number of
   logins, calls, tokens, faults, restarts and servers.  First the app servers of Codex,
   then the browser of Claude Web, then the adapters of tokens (Hugging Face, Google
   Gemini, OpenRouter), and at the end the invariant and the theorems. *)
EXTENDS MCAccounts, SequenceTheorems, TLAPS

-----------------------------------------------------------------------------
(* Codex: the types, and who has which app server.                         *)

ServerState == [at : {"none", "up", "closed"}, command : C!Commands \cup {C!None}, notes : Seq(C!Notes)]
EntryState == [at : {"new", "reset", "start", "ask", "listed", "cancel", "gone"},
               server : {0} \cup C!Servers, completed : BOOLEAN, synced : BOOLEAN,
               err : BOOLEAN, expired : BOOLEAN, watched : BOOLEAN, told : BOOLEAN]
TaskState == [what : C!Tasks, at : C!Stages, server : {0} \cup C!Servers,
              login : Logins \cup {C!None}, answer : Ops \cup {C!None}]

ServerType ==
  /\ server \in [C!Servers -> ServerState]
  /\ \A s \in C!Servers : Len(server[s].notes) <= NotifyCap
BridgeType == bridge \in [mu : Ops \cup {C!None}, server : {0} \cup C!Servers]
EntryType == entry \in [Logins -> EntryState]
TaskType == task \in [Ops -> TaskState]
OutsideType ==
  /\ setup \in [executable : {C!None, "custom"}, email : BOOLEAN, found : BOOLEAN]
  /\ turn \in [Ops -> [server : {0} \cup C!Servers, at : {"none", "running", "spoke"}]]
  /\ signedIn \in BOOLEAN

\* A login has no server before one is started, and is synchronised after it is listed.
EntryFits(l) ==
  /\ entry[l].at \in {"new", "reset", "start"} => entry[l].server = 0
  /\ entry[l].at \in {"ask", "listed", "cancel"} \/ entry[l].watched => entry[l].server \in C!Servers
  /\ entry[l].at \in {"new", "reset", "start", "ask"} => ~entry[l].synced

\* A call holds bridgeMu exactly while its turn is under way, on the server of the
\* bridge; a poll works on the server of its login; other calls that have a server
\* are on their way to close it.
InTurn == {"thread", "turn", "collect"}
TaskFits(o) ==
  /\ task[o].at \in InTurn <=> bridge.mu = o
  /\ task[o].at \in InTurn => task[o].server = bridge.server /\ task[o].server \in C!Servers
  /\ task[o].at \in {"idle", "reset", "start", "lock", "forget", "done"} => task[o].server = 0
  /\ task[o].what = "poll" /\ task[o].at \in {"sync", "save", "handover"} =>
       /\ task[o].login \in Logins /\ entry[task[o].login].at \in {"listed", "cancel", "gone"}
       /\ task[o].server = entry[task[o].login].server
  /\ task[o].answer \in {o, C!None}

Waits(l, s) == entry[l].server = s /\ entry[l].at # "gone" /\ ~entry[l].synced
Linked(s) ==
  \/ bridge.server = s
  \/ \E l \in Logins : Waits(l, s)
  \/ \E o \in Ops : task[o].server = s

CodexType == ServerType /\ BridgeType /\ EntryType /\ TaskType /\ OutsideType
CodexFits == (\A l \in Logins : EntryFits(l)) /\ (\A o \in Ops : TaskFits(o))
ServersLinked == \A s \in C!Servers : C!Up(s) => Linked(s)
CodexInv == CodexType /\ CodexFits /\ ServersLinked

-----------------------------------------------------------------------------
(* What the steps do to the servers.                                       *)

LEMMA ServersAreNumbered == \A s \in C!Servers : s # 0
  BY BoundsAssumption DEF C!Servers

LEMMA ClosedState ==
  ASSUME ServerType, NEW s
  PROVE  /\ C!Closed(s) \in [C!Servers -> ServerState]
         /\ \A t \in C!Servers : /\ Len(C!Closed(s)[t].notes) <= NotifyCap
                                 /\ C!Closed(s)[t].at = "up" => C!Up(t) /\ t # s
<1> DEFINE new == C!Closed(s)
<1>1. CASE C!Up(s) /\ s \in C!Servers
  <2>1. new = [server EXCEPT ![s].at = "closed"]
    BY <1>1 DEF C!Closed
  <2> HIDE DEF new
  <2>2. new \in [C!Servers -> ServerState]
    BY <2>1, <1>1 DEF ServerType, ServerState
  <2>3. \A t \in C!Servers : new[t].notes = server[t].notes
    BY <2>1 DEF ServerType, ServerState
  <2>4. new[s].at = "closed" /\ \A t \in C!Servers : t # s => new[t] = server[t]
    BY <2>1, <1>1 DEF ServerType, ServerState
  <2>5. new = C!Closed(s)
    BY DEF new
  <2> QED BY <2>2, <2>3, <2>4, <2>5, ServersAreNumbered DEF ServerType, C!Up
<1>2. CASE ~(C!Up(s) /\ s \in C!Servers)
  <2>1. C!Closed(s) = server
    BY <1>2 DEF C!Closed, ServerType
  <2> QED BY <2>1, <1>2, ServersAreNumbered DEF ServerType, C!Up
<1> QED BY <1>1, <1>2

LEMMA ClosedServer ==
  ASSUME ServerType, NEW s, server' = C!Closed(s)
  PROVE  ServerType' /\ \A t \in C!Servers : C!Up(t)' => C!Up(t) /\ t # s
<1> DEFINE new == C!Closed(s)
<1>1. /\ server' = new /\ new \in [C!Servers -> ServerState]
      /\ \A t \in C!Servers : /\ Len(new[t].notes) <= NotifyCap
                              /\ new[t].at = "up" => C!Up(t) /\ t # s
  BY ClosedState
<1> HIDE DEF new
<1> QED BY <1>1 DEF ServerType, C!Up

LEMMA StartedServer ==
  ASSUME ServerType, NEW s \in C!Servers, NEW old, C!Starts(s, old),
         old \in [C!Servers -> ServerState], \A t \in C!Servers : Len(old[t].notes) <= NotifyCap
  PROVE  ServerType' /\ \A t \in C!Servers : C!Up(t)' => t = s \/ old[t].at = "up"
<1> DEFINE new == [at |-> "up", command |-> C!ResolveCommand, notes |-> <<>>]
<1>1. server' = [old EXCEPT ![s] = new]
  BY DEF C!Starts
<1>2. new \in ServerState /\ Len(new.notes) = 0
  BY DEF C!Starts, ServerState, C!ResolveCommand, C!Commands, C!None
<1> HIDE DEF new
<1>3. server' \in [C!Servers -> ServerState] /\ server'[s] = new
      /\ \A t \in C!Servers : t # s => server'[t] = old[t]
  BY <1>1, <1>2
<1>4. 0 <= NotifyCap
  BY BoundsAssumption
<1>5. ServerType'
  BY <1>2, <1>3, <1>4 DEF ServerType
<1> QED BY <1>3, <1>5 DEF C!Up

LEMMA NotifiedServer ==
  ASSUME ServerType, NEW s \in C!Servers, NEW note \in C!Notes, server' = C!Notified(s, note)
  PROVE  ServerType' /\ \A t \in C!Servers : C!Up(t)' => C!Up(t)
<1>1. CASE Len(server[s].notes) < NotifyCap
  <2> DEFINE longer == Append(server[s].notes, note)
  <2>1. longer \in Seq(C!Notes) /\ Len(longer) = Len(server[s].notes) + 1 /\ Len(server[s].notes) \in Nat
    BY DEF ServerType, ServerState
  <2> HIDE DEF longer
  <2>2. server' = [server EXCEPT ![s].notes = longer]
    BY <1>1 DEF C!Notified, longer, ServerType
  <2>3. server' \in [C!Servers -> ServerState]
    BY <2>1, <2>2 DEF ServerType, ServerState
  <2>4. /\ server'[s].notes = longer /\ \A t \in C!Servers : server'[t].at = server[t].at
        /\ \A t \in C!Servers : t # s => server'[t] = server[t]
    BY <2>2 DEF ServerType, ServerState
  <2>5. Len(longer) <= NotifyCap
    BY <1>1, <2>1, BoundsAssumption
  <2> QED BY <2>3, <2>4, <2>5 DEF ServerType, C!Up
<1>2. CASE ~(Len(server[s].notes) < NotifyCap)
  BY <1>2 DEF C!Notified, ServerType, C!Up
<1> QED BY <1>1, <1>2

LEMMA ReceivedNote ==
  ASSUME ServerType, NEW s \in C!Servers, server[s].notes # <<>>,
         server' = [server EXCEPT ![s].notes = Tail(@)]
  PROVE  ServerType' /\ \A t \in C!Servers : C!Up(t)' => C!Up(t)
<1> DEFINE rest == Tail(server[s].notes)
<1>1. rest \in Seq(C!Notes) /\ Len(rest) = Len(server[s].notes) - 1 /\ Len(server[s].notes) \in Nat
  BY DEF ServerType, ServerState
<1> HIDE DEF rest
<1>2. server' = [server EXCEPT ![s].notes = rest]
  BY DEF rest, ServerType
<1>3. server' \in [C!Servers -> ServerState]
  BY <1>1, <1>2 DEF ServerType, ServerState
<1>4. /\ server'[s].notes = rest /\ \A t \in C!Servers : server'[t].at = server[t].at
      /\ \A t \in C!Servers : t # s => server'[t] = server[t]
  BY <1>2 DEF ServerType, ServerState
<1>5. Len(rest) <= NotifyCap
  BY <1>1, BoundsAssumption DEF ServerType
<1> QED BY <1>3, <1>4, <1>5 DEF ServerType, C!Up

-----------------------------------------------------------------------------
(* What a call does to itself, and what its step leaves of the rest.       *)

TaskMoves(o) == TaskType' /\ \A p \in Ops : p # o => task'[p] = task[p]

LEMMA TaskGoes ==
  ASSUME TaskType, NEW o \in Ops, NEW at \in C!Stages, C!Goes(o, at)
  PROVE  /\ TaskMoves(o) /\ task'[o].at = at /\ task'[o].what = task[o].what
         /\ task'[o].server = task[o].server /\ task'[o].login = task[o].login
         /\ task'[o].answer = task[o].answer
  BY DEF TaskType, TaskState, C!Goes, TaskMoves

LEMMA TaskGoesWith ==
  ASSUME TaskType, NEW o \in Ops, NEW at \in C!Stages, NEW s \in {0} \cup C!Servers,
         C!GoesWith(o, at, s)
  PROVE  /\ TaskMoves(o) /\ task'[o].at = at /\ task'[o].what = task[o].what
         /\ task'[o].server = s /\ task'[o].login = task[o].login
         /\ task'[o].answer = task[o].answer
  BY DEF TaskType, TaskState, C!GoesWith, TaskMoves

IdleFits == C!IdleTask \in TaskState /\ C!IdleTask.server = 0 /\ C!IdleTask.answer = C!None

LEMMA IdleIsTyped == IdleFits
  BY DEF IdleFits, C!IdleTask, TaskState, C!Tasks, C!Stages, C!None

LEMMA TaskSays ==
  ASSUME TaskType, NEW o \in Ops, C!Says(o)
  PROVE  /\ TaskMoves(o) /\ task'[o].at = "done" /\ task'[o].server = 0 /\ task'[o].answer = C!None
         /\ task'[o].what = "status"
<1> DEFINE done == [C!IdleTask EXCEPT !.at = "done"]
<1>1. task' = [task EXCEPT ![o] = done]
  BY DEF C!Says
<1>2. done \in TaskState /\ done.at = "done" /\ done.server = 0 /\ done.answer = C!None /\ done.what = "status"
  BY DEF C!IdleTask, TaskState, C!Tasks, C!Stages, C!None
<1> HIDE DEF done
<1> QED BY <1>1, <1>2 DEF TaskMoves, TaskType

LEMMA TaskBegins ==
  ASSUME TaskType, NEW o \in Ops, NEW what \in C!Tasks, NEW at \in C!Stages, C!Begins(o, what, at)
  PROVE  /\ TaskMoves(o) /\ task[o].at = "idle" /\ task'[o].at = at /\ task'[o].what = what
         /\ task'[o].server = 0 /\ task'[o].answer = C!None
<1> DEFINE begun == [C!IdleTask EXCEPT !.what = what, !.at = at]
<1>1. task' = [task EXCEPT ![o] = begun] /\ task[o].at = "idle"
  BY DEF C!Begins
<1>2. begun \in TaskState /\ begun.at = at /\ begun.server = 0 /\ begun.answer = C!None /\ begun.what = what
  BY DEF C!IdleTask, TaskState, C!None, C!Tasks, C!Stages
<1> HIDE DEF begun
<1> QED BY <1>1, <1>2 DEF TaskMoves, TaskType

\* Calls change of a login only whether it failed or is synchronised.
EntryKeeps ==
  EntryType' /\ \A l \in Logins : /\ entry'[l].at = entry[l].at /\ entry'[l].server = entry[l].server
                                  /\ entry'[l].watched = entry[l].watched

LEMMA EntryStays == EntryType /\ UNCHANGED entry => EntryKeeps
  BY DEF EntryType, EntryKeeps

(* The step of a call: the others fit, since nobody but the owner of bridgeMu has
   the bridge changed; a server that lives on was linked by something that stays. *)
LEMMA CallKeeps ==
  ASSUME CodexInv, NEW o \in Ops, TaskMoves(o), TaskFits(o)', EntryKeeps,
         \A l \in Logins : entry'[l].synced =>
           entry[l].synced \/ (entry[l].at = "listed" /\ entry[l].server = task[o].server),
         \A p \in Ops : p # o => (bridge'.mu = p <=> bridge.mu = p),
         bridge'.server = bridge.server \/ \A p \in Ops : p # o => bridge.mu # p,
         \A s \in C!Servers : C!Up(s)' =>
           \/ Linked(s)'
           \/ /\ C!Up(s) /\ s # task[o].server
              /\ bridge'.server = bridge.server \/ s # bridge.server
  PROVE  CodexFits' /\ ServersLinked'
<1>1. \A l \in Logins : EntryFits(l)'
  BY DEF CodexInv, CodexFits, EntryFits, EntryKeeps
<1>2. ASSUME NEW p \in Ops, p # o PROVE TaskFits(p)'
  <2>1. TaskFits(p) /\ task'[p] = task[p]
    BY <1>2 DEF CodexInv, CodexFits, TaskMoves
  <2>2. task[p].at \in InTurn => bridge.mu = p /\ bridge'.server = bridge.server
    BY <1>2, <2>1 DEF TaskFits
  <2> QED BY <1>2, <2>1, <2>2 DEF TaskFits, EntryKeeps
<1>3. CodexFits'
  BY <1>1, <1>2 DEF CodexFits
<1>4. ASSUME NEW s \in C!Servers, C!Up(s)', ~Linked(s)' PROVE FALSE
  <2>1. C!Up(s) /\ s # task[o].server /\ Linked(s)
    BY <1>4 DEF CodexInv, ServersLinked
  <2>2. bridge.server # s
    BY <1>4 DEF Linked
  <2>3. \A p \in Ops : task[p].server # s
    BY <1>4, <2>1 DEF Linked, TaskMoves
  <2>4. \A l \in Logins : Waits(l, s) => Waits(l, s)'
    BY <2>1 DEF Waits, EntryKeeps
  <2> QED BY <1>4, <2>1, <2>2, <2>3, <2>4 DEF Linked
<1> QED BY <1>3, <1>4 DEF ServersLinked

\* Where the bridge and the logins stay as they are.
LEMMA CallAlone ==
  ASSUME CodexInv, NEW o \in Ops, TaskMoves(o), TaskFits(o)', UNCHANGED <<bridge, entry>>,
         \A s \in C!Servers : C!Up(s)' => Linked(s)' \/ (C!Up(s) /\ s # task[o].server)
  PROVE  CodexFits' /\ ServersLinked'
  BY CallKeeps, EntryStays DEF CodexInv, CodexType

-----------------------------------------------------------------------------
(* The steps of the calls.                                                 *)

\* A call begins, or ends at once; the servers stay.
LEMMA BeginStep ==
  ASSUME CodexInv, NEW o \in Ops, UNCHANGED <<server, bridge, entry, turn, signedIn>>, OutsideType',
         \/ \E what \in C!Tasks, at \in {"reset", "start", "lock"} : C!Begins(o, what, at)
         \/ C!Ends(o)
  PROVE  CodexInv'
<1>1. /\ TaskMoves(o) /\ task[o].at = "idle" /\ task'[o].answer = C!None /\ task'[o].server = 0
      /\ task'[o].at \in {"reset", "start", "lock", "done"}
  BY TaskBegins, TaskSays DEF CodexInv, CodexType, C!Ends, C!Stages
<1>2. TaskFits(o) /\ bridge \in [mu : Ops \cup {C!None}, server : {0} \cup C!Servers]
  BY DEF CodexInv, CodexFits, CodexType, BridgeType
<1>3. TaskFits(o)'
  BY <1>1, <1>2 DEF TaskFits, InTurn
<1>4. \A s \in C!Servers : C!Up(s)' => C!Up(s) /\ s # task[o].server
  BY <1>1, <1>2 DEF TaskFits, C!Up
<1>5. CodexFits' /\ ServersLinked'
  BY <1>1, <1>3, <1>4, CallAlone
<1> QED BY <1>1, <1>5 DEF CodexInv, CodexType, TaskMoves, ServerType, BridgeType, EntryType

\* The bridge is closed.
LEMMA BridgeReset ==
  ASSUME CodexInv, C!ResetBridge
  PROVE  /\ ServerType' /\ BridgeType' /\ bridge'.mu = bridge.mu /\ bridge'.server = 0
         /\ bridge.mu = C!None
         /\ \A s \in C!Servers : C!Up(s)' => C!Up(s) /\ s # bridge.server
<1>1. ServerType' /\ \A s \in C!Servers : C!Up(s)' => C!Up(s) /\ s # bridge.server
  BY ClosedServer DEF CodexInv, CodexType, C!ResetBridge
<1>2. BridgeType' /\ bridge'.mu = bridge.mu /\ bridge'.server = 0 /\ bridge.mu = C!None
  BY DEF CodexInv, CodexType, BridgeType, C!ResetBridge
<1> QED BY <1>1, <1>2

LEMMA NobodyIsNone == \A o \in Ops : o # C!None
  BY NamesAssumption DEF C!None

LEMMA ResetStep ==
  ASSUME CodexInv, NEW o \in Ops, C!Reset(o), UNCHANGED <<entry, setup, turn, signedIn>>
  PROVE  CodexInv'
<1>1. task[o].at = "reset" /\ C!ResetBridge /\ (C!Says(o) \/ C!Goes(o, "start"))
  BY DEF C!Reset, C!At
<1>2. /\ TaskMoves(o) /\ task'[o].at \in {"done", "start"} /\ task'[o].server \in {0, task[o].server}
      /\ task'[o].answer \in {C!None, task[o].answer}
  BY <1>1, TaskSays, TaskGoes DEF CodexInv, CodexType, C!Stages
<1>3. /\ ServerType' /\ BridgeType' /\ bridge'.mu = C!None /\ bridge'.server = 0 /\ bridge.mu = C!None
      /\ \A s \in C!Servers : C!Up(s)' => C!Up(s) /\ s # bridge.server
  BY <1>1, BridgeReset
<1>4. TaskFits(o)
  BY DEF CodexInv, CodexFits
<1>5. TaskFits(o)'
  BY <1>1, <1>2, <1>3, <1>4, NobodyIsNone DEF TaskFits, InTurn
<1>6. \A s \in C!Servers : C!Up(s)' => C!Up(s) /\ s # task[o].server /\ s # bridge.server
  BY <1>1, <1>3, <1>4 DEF TaskFits, C!Up
<1>7. EntryKeeps /\ \A l \in Logins : entry'[l].synced => entry[l].synced
  BY EntryStays DEF CodexInv, CodexType
<1>8. \A p \in Ops : bridge.mu # p /\ bridge'.mu # p
  BY <1>3, NobodyIsNone
<1>9. CodexFits' /\ ServersLinked'
  BY <1>2, <1>5, <1>6, <1>7, <1>8, CallKeeps
<1> QED BY <1>2, <1>3, <1>7, <1>9 DEF CodexInv, CodexType, TaskMoves, EntryKeeps, OutsideType

\* A call starts a server and goes on with it.
LEMMA StartStep ==
  ASSUME CodexInv, NEW o \in Ops, C!Start(o), UNCHANGED <<bridge, entry, setup, turn, signedIn>>
  PROVE  CodexInv'
<1>0. /\ task[o].at = "start" /\ task[o].what \in {"refresh", "disconnect", "discover"}
      /\ TaskFits(o) /\ CodexType /\ task[o] \in TaskState
  BY DEF C!Start, C!At, CodexInv, CodexFits, CodexType, TaskType
<1>1. CASE UNCHANGED server /\ (C!Goes(o, "forget") \/ C!Says(o))
  <2>1. /\ TaskMoves(o) /\ task'[o].at \in {"done", "forget"} /\ task'[o].server \in {0, task[o].server}
        /\ task'[o].answer \in {C!None, task[o].answer}
    BY <1>0, <1>1, TaskSays, TaskGoes DEF CodexType, C!Stages
  <2>2. TaskFits(o)'
    BY <1>0, <2>1 DEF TaskFits, InTurn
  <2>3. \A s \in C!Servers : C!Up(s)' => C!Up(s) /\ s # task[o].server
    BY <1>0, <1>1 DEF TaskFits, C!Up
  <2>4. CodexFits' /\ ServersLinked'
    BY <2>1, <2>2, <2>3, CallAlone
  <2> QED BY <1>1, <2>1, <2>4
          DEF CodexInv, CodexType, TaskMoves, ServerType, BridgeType, EntryType, OutsideType
<1>2. ASSUME NEW s \in C!Servers, C!Starts(s, server),
             C!GoesWith(o, "sync", s) \/ C!GoesWith(o, "ask", s)
      PROVE  CodexInv'
  <2>1. /\ TaskMoves(o) /\ task'[o].at \in {"sync", "ask"} /\ task'[o].server = s
        /\ task'[o].answer = task[o].answer /\ task'[o].what = task[o].what
    BY <1>0, <1>2, TaskGoesWith DEF CodexType, C!Stages
  <2>2. TaskFits(o)'
    BY <1>0, <2>1 DEF TaskFits, InTurn
  <2>3. ServerType' /\ \A t \in C!Servers : C!Up(t)' => t = s \/ (C!Up(t) /\ t # task[o].server)
    <3>1. ServerType' /\ \A t \in C!Servers : C!Up(t)' => t = s \/ server[t].at = "up"
      BY <1>0, <1>2, StartedServer DEF CodexType, ServerType
    <3> QED BY <1>0, <3>1, ServersAreNumbered DEF C!Up, TaskFits
  <2>4. \A t \in C!Servers : C!Up(t)' => Linked(t)' \/ (C!Up(t) /\ t # task[o].server)
    BY <2>1, <2>3 DEF Linked
  <2>5. CodexFits' /\ ServersLinked'
    BY <2>1, <2>2, <2>4, CallAlone
  <2> QED BY <2>1, <2>3, <2>5
          DEF CodexInv, CodexType, TaskMoves, BridgeType, EntryType, OutsideType
<1> QED BY <1>1, <1>2 DEF C!Start

\* What the calls do that end, or go on, with a server of their own.
LEMMA ReadAccountStep ==
  ASSUME CodexInv, NEW o \in Ops, C!ReadAccount(o), UNCHANGED <<bridge, entry, setup, turn, signedIn>>
  PROVE  CodexInv'
<1>0. task[o].at = "ask" /\ task[o].what = "refresh" /\ TaskFits(o) /\ CodexType
  BY DEF C!ReadAccount, C!At, CodexInv, CodexFits
<1>1. CASE C!Goes(o, "sync") /\ UNCHANGED server
  <2>1. /\ TaskMoves(o) /\ task'[o].at = "sync" /\ task'[o].what = "refresh"
        /\ task'[o].answer = task[o].answer /\ task'[o].server = task[o].server
    BY <1>0, <1>1, TaskGoes DEF CodexType, C!Stages
  <2>2. TaskFits(o)'
    BY <1>0, <2>1 DEF TaskFits, InTurn
  <2>3. \A t \in C!Servers : C!Up(t)' => Linked(t)' \/ (C!Up(t) /\ t # task[o].server)
    BY <1>1, <2>1 DEF Linked, C!Up
  <2>4. CodexFits' /\ ServersLinked'
    BY <2>1, <2>2, <2>3, CallAlone
  <2> QED BY <1>1, <2>1, <2>4
          DEF CodexInv, CodexType, TaskMoves, ServerType, BridgeType, EntryType, OutsideType
<1>2. CASE C!Says(o) /\ server' = C!Closed(task[o].server)
  <2>1. TaskMoves(o) /\ task'[o].at = "done" /\ task'[o].server = 0 /\ task'[o].answer = C!None
    BY <1>0, <1>2, TaskSays DEF CodexType
  <2>2. TaskFits(o)'
    BY <1>0, <2>1 DEF TaskFits, InTurn
  <2>3. ServerType' /\ \A t \in C!Servers : C!Up(t)' => C!Up(t) /\ t # task[o].server
    BY <1>0, <1>2, ClosedServer DEF CodexType
  <2>4. CodexFits' /\ ServersLinked'
    BY <2>1, <2>2, <2>3, CallAlone
  <2> QED BY <2>1, <2>3, <2>4
          DEF CodexInv, CodexType, TaskMoves, BridgeType, EntryType, OutsideType
<1> QED BY <1>1, <1>2 DEF C!ReadAccount

LEMMA LogoutStep ==
  ASSUME CodexInv, NEW o \in Ops, C!Logout(o), UNCHANGED <<bridge, entry, setup, turn>>
  PROVE  CodexInv'
<1>0. /\ task[o].at = "ask" /\ task[o].what = "disconnect" /\ TaskFits(o) /\ CodexType
      /\ C!GoesWith(o, "forget", 0) /\ server' = C!Closed(task[o].server)
  BY DEF C!Logout, C!At, CodexInv, CodexFits
<1>1. /\ TaskMoves(o) /\ task'[o].at = "forget" /\ task'[o].server = 0
      /\ task'[o].what = "disconnect" /\ task'[o].answer = task[o].answer
  BY <1>0, TaskGoesWith DEF CodexType, C!Stages
<1>2. TaskFits(o)'
  BY <1>0, <1>1 DEF TaskFits, InTurn
<1>3. ServerType' /\ \A t \in C!Servers : C!Up(t)' => C!Up(t) /\ t # task[o].server
  BY <1>0, ClosedServer DEF CodexType
<1>4. CodexFits' /\ ServersLinked'
  BY <1>1, <1>2, <1>3, CallAlone
<1>5. signedIn' \in BOOLEAN
  BY DEF C!Logout, CodexInv, CodexType, OutsideType
<1> QED BY <1>1, <1>3, <1>4, <1>5
        DEF CodexInv, CodexType, TaskMoves, BridgeType, EntryType, OutsideType

LEMMA ForgetStep ==
  ASSUME CodexInv, NEW o \in Ops, C!Forget(o), UNCHANGED <<server, bridge, entry, turn, signedIn>>
  PROVE  CodexInv'
<1>0. task[o].at = "forget" /\ task[o].what = "disconnect" /\ TaskFits(o) /\ CodexType /\ C!Says(o)
  BY DEF C!Forget, C!At, CodexInv, CodexFits
<1>1. TaskMoves(o) /\ task'[o].at = "done" /\ task'[o].server = 0 /\ task'[o].answer = C!None
  BY <1>0, TaskSays DEF CodexType
<1>2. TaskFits(o)'
  BY <1>0, <1>1 DEF TaskFits, InTurn
<1>3. \A t \in C!Servers : C!Up(t)' => C!Up(t) /\ t # task[o].server
  BY <1>0 DEF C!Up, TaskFits
<1>4. CodexFits' /\ ServersLinked'
  BY <1>1, <1>2, <1>3, CallAlone
<1>5. OutsideType'
  BY <1>0 DEF C!Forget, C!SaveConfig, CodexType, OutsideType
<1> QED BY <1>1, <1>4, <1>5
        DEF CodexInv, CodexType, TaskMoves, ServerType, BridgeType, EntryType

\* syncProvider fails: the server is closed, and the login that is listed has an error.
LEMMA SyncFailsStep ==
  ASSUME CodexInv, NEW o \in Ops, C!SyncFails(o), task[o].at \in {"sync", "save"},
         UNCHANGED <<bridge, turn, signedIn>>, OutsideType'
  PROVE  CodexInv'
<1>0. TaskFits(o) /\ CodexType /\ C!Says(o) /\ server' = C!Closed(task[o].server)
  BY DEF C!SyncFails, CodexInv, CodexFits
<1>1. TaskMoves(o) /\ task'[o].at = "done" /\ task'[o].server = 0 /\ task'[o].answer = C!None
  BY <1>0, TaskSays DEF CodexType
<1>2. TaskFits(o)'
  BY <1>0, <1>1 DEF TaskFits, InTurn
<1>3. ServerType' /\ \A t \in C!Servers : C!Up(t)' => C!Up(t) /\ t # task[o].server
  BY <1>0, ClosedServer DEF CodexType
<1>4. EntryKeeps /\ \A l \in Logins : entry'[l].synced = entry[l].synced
  <2>1. entry' = [l \in Logins |-> IF l = task[o].login /\ entry[l].at = "listed"
                                   THEN [entry[l] EXCEPT !.err = TRUE] ELSE entry[l]]
    BY DEF C!SyncFails
  <2>2. entry \in [Logins -> EntryState]
    BY <1>0 DEF CodexType, EntryType
  <2>3. \A e \in EntryState : /\ [e EXCEPT !.err = TRUE] \in EntryState
                              /\ [e EXCEPT !.err = TRUE].at = e.at
                              /\ [e EXCEPT !.err = TRUE].server = e.server
                              /\ [e EXCEPT !.err = TRUE].watched = e.watched
                              /\ [e EXCEPT !.err = TRUE].synced = e.synced
    BY DEF EntryState
  <2> QED BY <2>1, <2>2, <2>3 DEF EntryType, EntryKeeps
<1>5. CodexFits' /\ ServersLinked'
  BY <1>1, <1>2, <1>3, <1>4, CallKeeps
<1> QED BY <1>1, <1>3, <1>4, <1>5
        DEF CodexInv, CodexType, TaskMoves, BridgeType, EntryKeeps

LEMMA SyncStep ==
  ASSUME CodexInv, NEW o \in Ops, C!SyncProvider(o), UNCHANGED <<bridge, setup, turn, signedIn>>
  PROVE  CodexInv'
<1>0. task[o].at = "sync" /\ TaskFits(o) /\ CodexType
  BY DEF C!SyncProvider, CodexInv, CodexFits
<1>1. CASE C!SyncFails(o)
  BY <1>0, <1>1, SyncFailsStep DEF CodexType, OutsideType
<1>2. CASE C!Goes(o, "save") /\ UNCHANGED <<server, entry>>
  <2>1. /\ TaskMoves(o) /\ task'[o].at = "save" /\ task'[o].server = task[o].server
        /\ task'[o].what = task[o].what /\ task'[o].login = task[o].login /\ task'[o].answer = task[o].answer
    BY <1>0, <1>2, TaskGoes DEF CodexType, C!Stages
  <2>2. TaskFits(o)'
    BY <1>0, <1>2, <2>1 DEF TaskFits, InTurn
  <2>3. \A t \in C!Servers : C!Up(t)' => Linked(t)' \/ (C!Up(t) /\ t # task[o].server)
    BY <1>2, <2>1 DEF Linked, C!Up
  <2>4. CodexFits' /\ ServersLinked'
    BY <1>2, <2>1, <2>2, <2>3, CallAlone
  <2> QED BY <1>2, <2>1, <2>4
          DEF CodexInv, CodexType, TaskMoves, ServerType, BridgeType, EntryType, OutsideType
<1> QED BY <1>1, <1>2 DEF C!SyncProvider

\* The login of a poll is synchronised: its server is the poll's to hand over.
LEMMA SaveNameStep ==
  ASSUME CodexInv, NEW o \in Ops, C!SaveName(o), UNCHANGED <<bridge, turn, signedIn>>
  PROVE  CodexInv'
<1>0. task[o].at = "save" /\ TaskFits(o) /\ CodexType
  BY DEF C!SaveName, CodexInv, CodexFits
<1>s. OutsideType'
  BY DEF C!SaveName, C!SaveConfig, CodexInv, CodexType, OutsideType
<1>1. CASE C!SyncFails(o)
  BY <1>0, <1>1, <1>s, SyncFailsStep
<1>2. CASE /\ task[o].what = "poll" /\ C!Goes(o, "handover") /\ UNCHANGED server
           /\ entry' = [l \in Logins |-> IF l = task[o].login /\ entry[l].at = "listed"
                                         THEN [entry[l] EXCEPT !.synced = TRUE] ELSE entry[l]]
  <2>1. /\ TaskMoves(o) /\ task'[o].at = "handover" /\ task'[o].server = task[o].server
        /\ task'[o].what = task[o].what /\ task'[o].login = task[o].login /\ task'[o].answer = task[o].answer
    BY <1>0, <1>2, TaskGoes DEF CodexType, C!Stages
  <2>2. /\ EntryKeeps
        /\ \A l \in Logins : entry'[l].synced =>
             entry[l].synced \/ (l = task[o].login /\ entry[l].at = "listed")
    BY <1>0, <1>2 DEF CodexType, EntryType, EntryState, EntryKeeps
  <2>3. TaskFits(o)'
    BY <1>0, <1>2, <2>1, <2>2 DEF TaskFits, InTurn, EntryKeeps
  <2>4. \A t \in C!Servers : C!Up(t)' => Linked(t)' \/ (C!Up(t) /\ t # task[o].server)
    BY <1>2, <2>1 DEF Linked, C!Up
  <2>5. \A l \in Logins : entry'[l].synced =>
          entry[l].synced \/ (entry[l].at = "listed" /\ entry[l].server = task[o].server)
    BY <1>0, <1>2, <2>2 DEF TaskFits
  <2>6. CodexFits' /\ ServersLinked'
    BY <2>1, <2>2, <2>3, <2>4, <2>5, CallKeeps
  <2> QED BY <1>2, <1>s, <2>1, <2>2, <2>6
          DEF CodexInv, CodexType, TaskMoves, ServerType, BridgeType, EntryKeeps
<1>3. CASE C!Says(o) /\ server' = C!Closed(task[o].server) /\ UNCHANGED entry
  <2>1. TaskMoves(o) /\ task'[o].at = "done" /\ task'[o].server = 0 /\ task'[o].answer = C!None
    BY <1>0, <1>3, TaskSays DEF CodexType
  <2>2. TaskFits(o)'
    BY <1>0, <2>1 DEF TaskFits, InTurn
  <2>3. ServerType' /\ \A t \in C!Servers : C!Up(t)' => C!Up(t) /\ t # task[o].server
    BY <1>0, <1>3, ClosedServer DEF CodexType
  <2>4. CodexFits' /\ ServersLinked'
    BY <1>3, <2>1, <2>2, <2>3, CallAlone
  <2> QED BY <1>3, <1>s, <2>1, <2>3, <2>4
          DEF CodexInv, CodexType, TaskMoves, BridgeType, EntryType
<1> QED
  <2>1. PICK ok \in BOOLEAN :
          CASE ~ok -> C!SyncFails(o)
            [] ok /\ task[o].what = "poll" ->
                 /\ C!Goes(o, "handover") /\ UNCHANGED server
                 /\ entry' = [l \in Logins |-> IF l = task[o].login /\ entry[l].at = "listed"
                                               THEN [entry[l] EXCEPT !.synced = TRUE] ELSE entry[l]]
            [] OTHER -> C!Says(o) /\ server' = C!Closed(task[o].server) /\ UNCHANGED entry
    BY DEF C!SaveName
  <2> QED BY <2>1, <1>1, <1>2, <1>3

\* The end of a poll: its server becomes the bridge, or is closed.
LEMMA HandOverStep ==
  ASSUME CodexInv, NEW o \in Ops, C!HandOver(o), UNCHANGED <<entry, setup, turn, signedIn>>
  PROVE  CodexInv'
<1>0. /\ task[o].at = "handover" /\ TaskFits(o) /\ CodexType /\ C!Says(o) /\ bridge.mu = C!None
  BY DEF C!HandOver, C!At, CodexInv, CodexFits
<1>1. TaskMoves(o) /\ task'[o].at = "done" /\ task'[o].server = 0 /\ task'[o].answer = C!None
  BY <1>0, TaskSays DEF CodexType
<1>2. EntryKeeps /\ \A l \in Logins : entry'[l].synced => entry[l].synced
  BY <1>0, EntryStays DEF CodexType
<1>3. /\ ServerType' /\ BridgeType' /\ bridge'.mu = C!None
      /\ \A t \in C!Servers : C!Up(t)' =>
           \/ bridge'.server = t
           \/ C!Up(t) /\ t # task[o].server /\ (bridge'.server = bridge.server \/ t # bridge.server)
  <2>1. CASE C!Up(bridge.server) /\ server' = C!Closed(task[o].server) /\ UNCHANGED bridge
    BY <1>0, <2>1, ClosedServer DEF CodexType, BridgeType
  <2>2. CASE /\ ~C!Up(bridge.server) /\ bridge' = [bridge EXCEPT !.server = task[o].server]
             /\ UNCHANGED server
    <3>1. task[o].server \in {0} \cup C!Servers
      BY <1>0 DEF CodexType, TaskType, TaskState
    <3>2. BridgeType' /\ bridge'.mu = C!None /\ bridge'.server = task[o].server
      BY <1>0, <2>2, <3>1 DEF CodexType, BridgeType
    <3> QED BY <1>0, <2>2, <3>2 DEF CodexType, ServerType, C!Up
  <2> QED BY <2>1, <2>2 DEF C!HandOver
<1>4. TaskFits(o)'
  BY <1>1, <1>3, NobodyIsNone DEF TaskFits, InTurn
<1>5. \A p \in Ops : bridge.mu # p /\ bridge'.mu # p
  BY <1>0, <1>3, NobodyIsNone
<1>6. \A s \in C!Servers : C!Up(s)' =>
           \/ Linked(s)'
           \/ /\ C!Up(s) /\ s # task[o].server
              /\ bridge'.server = bridge.server \/ s # bridge.server
  BY <1>3 DEF Linked
<1>7. CodexFits' /\ ServersLinked'
  BY <1>1, <1>2, <1>4, <1>5, <1>6, CallKeeps
<1> QED BY <1>1, <1>2, <1>3, <1>7 DEF CodexInv, CodexType, TaskMoves, EntryKeeps, OutsideType

\* A poll that synchronises takes the server of its login.
LEMMA PollStep ==
  ASSUME CodexInv, NEW o \in Ops, NEW l \in Logins, C!PollLogin(o, l),
         UNCHANGED <<bridge, entry, setup, turn, signedIn>>
  PROVE  CodexInv'
<1>0. task[o].at = "idle" /\ TaskFits(o) /\ EntryFits(l) /\ CodexType /\ entry[l] \in EntryState
  BY DEF C!PollLogin, CodexInv, CodexFits, CodexType, EntryType
<1>1. /\ TaskMoves(o) /\ TaskFits(o)' /\ ServerType'
      /\ \A t \in C!Servers : C!Up(t)' => C!Up(t)
  <2>1. ASSUME NEW new, new = [what |-> "poll", at |-> "sync", server |-> entry[l].server,
                               login |-> l, answer |-> C!None],
               entry[l].at = "listed", task' = [task EXCEPT ![o] = new], UNCHANGED server
        PROVE  TaskMoves(o) /\ TaskFits(o)' /\ ServerType' /\ \A t \in C!Servers : C!Up(t)' => C!Up(t)
    <3>1. /\ new \in TaskState /\ new.at = "sync" /\ new.what = "poll" /\ new.login = l
          /\ new.server = entry[l].server /\ new.answer = C!None
      BY <1>0, <2>1 DEF TaskState, EntryState, C!Tasks, C!Stages
    <3>2. TaskMoves(o) /\ task'[o] = new
      BY <1>0, <2>1, <3>1 DEF CodexType, TaskType, TaskMoves
    <3>3. TaskFits(o)'
      BY <1>0, <2>1, <3>1, <3>2 DEF TaskFits, InTurn
    <3> QED BY <1>0, <2>1, <3>2, <3>3 DEF CodexType, ServerType, C!Up
  <2>2. CASE C!Ends(o) /\ server' \in {server, C!Closed(entry[l].server)}
    <3>1. TaskMoves(o) /\ task'[o].at = "done" /\ task'[o].server = 0 /\ task'[o].answer = C!None
      BY <1>0, <2>2, TaskSays DEF CodexType, C!Ends
    <3>2. TaskFits(o)'
      BY <1>0, <3>1 DEF TaskFits, InTurn
    <3>3. ServerType' /\ \A t \in C!Servers : C!Up(t)' => C!Up(t)
      BY <1>0, <2>2, ClosedServer DEF CodexType, ServerType, C!Up
    <3> QED BY <3>1, <3>2, <3>3
  <2> QED BY <2>1, <2>2 DEF C!PollLogin
<1>2. \A t \in C!Servers : t # task[o].server
  BY <1>0, ServersAreNumbered DEF TaskFits
<1>3. CodexFits' /\ ServersLinked'
  BY <1>1, <1>2, CallAlone
<1> QED BY <1>1, <1>3 DEF CodexInv, CodexType, TaskMoves, BridgeType, EntryType, OutsideType

-----------------------------------------------------------------------------
(* The turns.                                                              *)

\* A turn takes the bridge as it is, or starts another one.
LEMMA TakeBridgeStep ==
  ASSUME CodexInv, NEW o \in Ops, C!TakeBridge(o), UNCHANGED <<entry, setup, turn, signedIn>>
  PROVE  CodexInv'
<1>0. /\ task[o].at = "lock" /\ task[o].what = "turn" /\ TaskFits(o) /\ CodexType /\ bridge.mu = C!None
      /\ \A s \in C!Servers : s # task[o].server
  BY ServersAreNumbered DEF C!TakeBridge, C!At, CodexInv, CodexFits, TaskFits
<1>1. EntryKeeps /\ \A l \in Logins : entry'[l].synced => entry[l].synced
  BY <1>0, EntryStays DEF CodexType
<1>2. \A p \in Ops : bridge.mu # p
  BY <1>0, NobodyIsNone
<1>3. CASE C!Says(o) /\ C!ResetBridge
  <2>1. TaskMoves(o) /\ task'[o].at = "done" /\ task'[o].server = 0 /\ task'[o].answer = C!None
    BY <1>0, <1>3, TaskSays DEF CodexType
  <2>2. /\ ServerType' /\ BridgeType' /\ bridge'.mu = C!None
        /\ \A s \in C!Servers : C!Up(s)' => C!Up(s) /\ s # bridge.server
    BY <1>3, BridgeReset
  <2>3. TaskFits(o)'
    BY <2>1, <2>2, NobodyIsNone DEF TaskFits, InTurn
  <2>4. \A p \in Ops : bridge'.mu # p
    BY <2>2, NobodyIsNone
  <2>5. CodexFits' /\ ServersLinked'
    BY <1>0, <1>1, <1>2, <2>1, <2>2, <2>3, <2>4, CallKeeps
  <2> QED BY <1>1, <2>1, <2>2, <2>5 DEF CodexInv, CodexType, TaskMoves, EntryKeeps, OutsideType
<1>4. ASSUME NEW s \in C!Servers, C!GoesWith(o, "thread", s), bridge' = [mu |-> o, server |-> s],
             ServerType',
             \A t \in C!Servers : C!Up(t)' => t = s \/ (C!Up(t) /\ t # bridge.server)
      PROVE  CodexInv'
  <2>1. /\ TaskMoves(o) /\ task'[o].at = "thread" /\ task'[o].server = s
        /\ task'[o].answer = task[o].answer /\ task'[o].what = "turn"
    BY <1>0, <1>4, TaskGoesWith DEF CodexType, C!Stages
  <2>2. BridgeType' /\ bridge'.mu = o /\ bridge'.server = s
    BY <1>4 DEF BridgeType
  <2>3. TaskFits(o)'
    BY <1>0, <2>1, <2>2 DEF TaskFits, InTurn
  <2>4. \A t \in C!Servers : C!Up(t)' => Linked(t)' \/ (C!Up(t) /\ t # task[o].server /\ t # bridge.server)
    BY <1>0, <1>4, <2>2 DEF Linked
  <2>5. \A p \in Ops : p # o => (bridge'.mu = p <=> bridge.mu = p)
    BY <1>2, <2>2
  <2>6. CodexFits' /\ ServersLinked'
    BY <1>1, <1>2, <2>1, <2>3, <2>4, <2>5, CallKeeps
  <2> QED BY <1>1, <1>4, <2>1, <2>2, <2>6 DEF CodexInv, CodexType, TaskMoves, EntryKeeps, OutsideType
<1>5. CASE /\ C!Up(bridge.server) /\ C!GoesWith(o, "thread", bridge.server)
           /\ bridge' = [bridge EXCEPT !.mu = o] /\ UNCHANGED server
  <2>1. bridge.server \in C!Servers /\ bridge' = [mu |-> o, server |-> bridge.server]
    BY <1>0, <1>5 DEF C!Up, CodexType, BridgeType
  <2>2. ServerType' /\ \A t \in C!Servers : C!Up(t)' => C!Up(t)
    BY <1>0, <1>5 DEF C!Up, CodexType, ServerType
  <2> QED BY <1>4, <1>5, <2>1, <2>2
<1>6. ASSUME NEW s \in C!Servers, C!Starts(s, C!Closed(bridge.server)), C!GoesWith(o, "thread", s),
             bridge' = [mu |-> o, server |-> s]
      PROVE  CodexInv'
  <2> DEFINE old == C!Closed(bridge.server)
  <2>1. /\ old \in [C!Servers -> ServerState] /\ \A t \in C!Servers : Len(old[t].notes) <= NotifyCap
        /\ \A t \in C!Servers : old[t].at = "up" => C!Up(t) /\ t # bridge.server
    BY <1>0, ClosedState DEF CodexType
  <2> HIDE DEF old
  <2>2. ServerType' /\ \A t \in C!Servers : C!Up(t)' => t = s \/ old[t].at = "up"
    BY <1>0, <1>6, <2>1, StartedServer DEF CodexType, old
  <2> QED BY <1>4, <1>6, <2>1, <2>2
<1> QED BY <1>3, <1>5, <1>6 DEF C!TakeBridge

\* What a turn leaves as it is.
InTurnStep(o) ==
  /\ task[o].at \in InTurn /\ TaskFits(o) /\ CodexType
  /\ bridge.mu = o /\ task[o].server = bridge.server /\ task[o].server \in C!Servers
  /\ EntryKeeps /\ (\A l \in Logins : entry'[l].synced => entry[l].synced)
  /\ \A p \in Ops : p # o => bridge.mu # p

LEMMA TurnContext ==
  ASSUME CodexInv, NEW o \in Ops, task[o].at \in InTurn, UNCHANGED entry
  PROVE  InTurnStep(o)
  BY EntryStays DEF CodexInv, CodexFits, CodexType, TaskFits, InTurnStep

LEMMA Unsubscribed ==
  ASSUME OutsideType, NEW o \in Ops, C!Unsubscribe(o)
  PROVE  turn' \in [Ops -> [server : {0} \cup C!Servers, at : {"none", "running", "spoke"}]]
  BY DEF OutsideType, C!Unsubscribe, C!NoTurn

\* A turn is over: bridgeMu is free, and the bridge lives on or is closed.
LEMMA TurnEnds ==
  ASSUME CodexInv, NEW o \in Ops, InTurnStep(o), TaskMoves(o), task'[o].at = "done",
         task'[o].server = 0, task'[o].answer \in {o, C!None}, bridge'.mu = C!None, BridgeType', ServerType',
         \A t \in C!Servers : C!Up(t)' => C!Up(t) /\ (bridge'.server = bridge.server \/ t # bridge.server)
  PROVE  CodexFits' /\ ServersLinked'
<1>1. TaskFits(o)'
  BY NobodyIsNone DEF TaskFits, InTurn
<1>2. \A p \in Ops : bridge'.mu # p
  BY NobodyIsNone
<1>3. \A t \in C!Servers : C!Up(t)' =>
        Linked(t)' \/ (C!Up(t) /\ t # task[o].server /\ (bridge'.server = bridge.server \/ t # bridge.server))
  BY DEF Linked, InTurnStep
<1>4. \A l \in Logins : entry'[l].synced => entry[l].synced
  BY DEF InTurnStep
<1> QED BY <1>1, <1>2, <1>3, <1>4, CallKeeps DEF InTurnStep

LEMMA TurnFailsStep ==
  ASSUME CodexInv, NEW o \in Ops, NEW reset \in BOOLEAN, task[o].at \in InTurn,
         C!TurnFails(o, reset), UNCHANGED <<entry, setup, signedIn>>
  PROVE  CodexInv'
<1>1. InTurnStep(o)
  BY TurnContext
<1>2. TaskMoves(o) /\ task'[o].at = "done" /\ task'[o].server = 0 /\ task'[o].answer = C!None
  BY <1>1, TaskSays DEF C!TurnFails, CodexInv, CodexType
<1>3. OutsideType'
  BY Unsubscribed DEF C!TurnFails, CodexInv, CodexType, OutsideType
<1>4. /\ BridgeType' /\ bridge'.mu = C!None /\ ServerType'
      /\ \A t \in C!Servers : C!Up(t)' => C!Up(t) /\ (bridge'.server = bridge.server \/ t # bridge.server)
  <2>1. CASE reset \/ ~C!Up(task[o].server)
    <3>1. bridge' = [mu |-> C!None, server |-> 0] /\ server' = C!Closed(bridge.server)
      BY <2>1 DEF C!TurnFails
    <3>2. ServerType' /\ \A t \in C!Servers : C!Up(t)' => C!Up(t) /\ t # bridge.server
      BY <1>1, <3>1, ClosedServer DEF InTurnStep, CodexType
    <3> QED BY <3>1, <3>2 DEF BridgeType
  <2>2. CASE ~(reset \/ ~C!Up(task[o].server))
    <3>1. bridge' = [mu |-> C!None, server |-> bridge.server] /\ UNCHANGED server
      BY <2>2 DEF C!TurnFails
    <3> QED BY <1>1, <3>1 DEF BridgeType, InTurnStep, CodexType, ServerType, C!Up
  <2> QED BY <2>1, <2>2
<1>5. CodexFits' /\ ServersLinked'
  BY <1>1, <1>2, <1>4, TurnEnds
<1> QED BY <1>1, <1>2, <1>3, <1>4, <1>5 DEF CodexInv, CodexType, TaskMoves, EntryKeeps, InTurnStep

\* A turn goes on: it stays on its server.
LEMMA TurnGoesOn ==
  ASSUME CodexInv, NEW o \in Ops, InTurnStep(o), TaskMoves(o), task'[o].at \in InTurn,
         task'[o].server = task[o].server, task'[o].what = task[o].what,
         task[o].what # "poll", task'[o].answer \in {o, C!None}, UNCHANGED bridge, ServerType', OutsideType',
         \A t \in C!Servers : C!Up(t)' => C!Up(t)
  PROVE  CodexInv'
<1>1. TaskFits(o)'
  BY DEF TaskFits, InTurn, InTurnStep
<1>2. \A t \in C!Servers : C!Up(t)' => Linked(t)' \/ (C!Up(t) /\ t # task[o].server)
  BY DEF Linked
<1>3. \A l \in Logins : entry'[l].synced => entry[l].synced
  BY DEF InTurnStep
<1>4. CodexFits' /\ ServersLinked'
  BY <1>1, <1>2, <1>3, CallKeeps DEF InTurnStep
<1> QED BY <1>4 DEF CodexInv, CodexType, TaskMoves, EntryKeeps, InTurnStep, BridgeType

LEMMA StartThreadStep ==
  ASSUME CodexInv, NEW o \in Ops, C!StartThread(o), UNCHANGED <<entry, setup, signedIn>>
  PROVE  CodexInv'
<1>0. task[o].at = "thread" /\ task[o].what = "turn" /\ task[o].at \in InTurn /\ TaskFits(o) /\ CodexType
  BY DEF C!StartThread, C!At, InTurn, CodexInv, CodexFits
<1>1. CASE C!TurnFails(o, FALSE)
  BY <1>0, <1>1, TurnFailsStep
<1>2. CASE C!Goes(o, "turn") /\ UNCHANGED <<server, bridge, turn>>
  <2>1. /\ TaskMoves(o) /\ task'[o].at \in InTurn /\ task'[o].server = task[o].server
        /\ task'[o].what = task[o].what /\ task'[o].answer \in {o, C!None}
    BY <1>0, <1>2, TaskGoes DEF CodexType, C!Stages, InTurn, TaskFits
  <2>2. ServerType' /\ OutsideType' /\ \A t \in C!Servers : C!Up(t)' => C!Up(t)
    BY <1>0, <1>2 DEF CodexType, ServerType, OutsideType, C!Up
  <2> QED BY <1>0, <1>2, <2>1, <2>2, TurnContext, TurnGoesOn
<1> QED BY <1>1, <1>2 DEF C!StartThread

LEMMA StartTurnStep ==
  ASSUME CodexInv, NEW o \in Ops, C!StartTurn(o), UNCHANGED <<entry, setup, signedIn>>
  PROVE  CodexInv'
<1>0. /\ task[o].at = "turn" /\ task[o].what = "turn" /\ task[o].at \in InTurn
      /\ TaskFits(o) /\ CodexType /\ InTurnStep(o)
  BY TurnContext DEF C!StartTurn, C!At, InTurn, CodexInv, CodexFits
<1>1. CASE C!TurnFails(o, FALSE)
  BY <1>0, <1>1, TurnFailsStep
<1> DEFINE begun == [turn EXCEPT ![o] = [server |-> task[o].server, at |-> "running"]]
<1>2. ASSUME turn' = begun PROVE OutsideType'
  BY <1>0, <1>2 DEF CodexType, OutsideType, InTurnStep
<1>3. CASE C!Goes(o, "collect") /\ turn' = begun /\ UNCHANGED <<server, bridge>>
  <2>1. /\ TaskMoves(o) /\ task'[o].at \in InTurn /\ task'[o].server = task[o].server
        /\ task'[o].what = task[o].what /\ task'[o].answer \in {o, C!None}
    BY <1>0, <1>3, TaskGoes DEF CodexType, C!Stages, InTurn, TaskFits
  <2>2. ServerType' /\ OutsideType' /\ \A t \in C!Servers : C!Up(t)' => C!Up(t)
    BY <1>0, <1>2, <1>3 DEF CodexType, ServerType, C!Up
  <2> QED BY <1>0, <1>3, <2>1, <2>2, TurnGoesOn
<1>4. CASE /\ C!Says(o) /\ turn' = begun /\ bridge' = [bridge EXCEPT !.mu = C!None] /\ UNCHANGED server
  <2>1. TaskMoves(o) /\ task'[o].at = "done" /\ task'[o].server = 0 /\ task'[o].answer = C!None
    BY <1>0, <1>4, TaskSays DEF CodexType
  <2>2. /\ BridgeType' /\ bridge'.mu = C!None /\ bridge'.server = bridge.server /\ ServerType'
        /\ \A t \in C!Servers : C!Up(t)' => C!Up(t)
    BY <1>0, <1>4 DEF CodexType, BridgeType, ServerType, C!Up
  <2>3. CodexFits' /\ ServersLinked'
    BY <1>0, <2>1, <2>2, TurnEnds
  <2> QED BY <1>0, <1>2, <1>4, <2>1, <2>2, <2>3 DEF CodexInv, CodexType, TaskMoves, EntryKeeps, InTurnStep
<1> QED BY <1>1, <1>3, <1>4 DEF C!StartTurn

\* A turn hears of itself, or drops what is about another one.
LEMMA CollectStep ==
  ASSUME CodexInv, NEW o \in Ops, C!Collect(o), UNCHANGED <<entry, setup, signedIn>>
  PROVE  CodexInv'
<1> DEFINE s == task[o].server
           note == Head(server[s].notes)
<1>0. /\ task[o].at = "collect" /\ task[o].what = "turn" /\ task[o].at \in InTurn
      /\ TaskFits(o) /\ CodexType /\ InTurnStep(o)
  BY TurnContext DEF C!Collect, C!At, InTurn, CodexInv, CodexFits
<1>1. CASE \E reset \in BOOLEAN : C!TurnFails(o, reset)
  BY <1>0, <1>1, TurnFailsStep
<1>2. ASSUME server[s].notes # <<>>, server' = [server EXCEPT ![s].notes = Tail(@)]
      PROVE  ServerType' /\ \A t \in C!Servers : C!Up(t)' => C!Up(t)
  BY <1>0, <1>2, ReceivedNote DEF CodexType, InTurnStep
<1>3. CASE /\ server[s].notes # <<>> /\ server' = [server EXCEPT ![s].notes = Tail(@)]
           /\ UNCHANGED <<bridge, turn, task>>
  <2>1. TaskMoves(o)
    BY <1>0, <1>3 DEF CodexType, TaskType, TaskMoves
  <2>2. OutsideType'
    BY <1>0, <1>3 DEF CodexType, OutsideType
  <2>3. task'[o] = task[o] /\ task[o].answer \in {o, C!None}
    BY <1>0, <1>3 DEF TaskFits
  <2> QED BY <1>0, <1>2, <1>3, <2>1, <2>2, <2>3, TurnGoesOn
<1>4. CASE /\ server[s].notes # <<>> /\ server' = [server EXCEPT ![s].notes = Tail(@)]
           /\ note.of = o /\ UNCHANGED <<bridge, turn>>
           /\ task' = [task EXCEPT ![o].answer = note.of]
  <2>1. task' = [task EXCEPT ![o].answer = o]
    BY <1>4
  <2>2. /\ TaskMoves(o) /\ task'[o].at = task[o].at /\ task'[o].server = task[o].server
        /\ task'[o].what = task[o].what /\ task'[o].answer = o
    BY <1>0, <2>1 DEF CodexType, TaskType, TaskState, TaskMoves
  <2>3. OutsideType'
    BY <1>0, <1>4 DEF CodexType, OutsideType
  <2> QED BY <1>0, <1>2, <1>4, <2>2, <2>3, TurnGoesOn
<1>5. CASE /\ server[s].notes # <<>> /\ server' = [server EXCEPT ![s].notes = Tail(@)]
           /\ C!CodexBridgeResponse(o, note)
           /\ C!Unsubscribe(o) /\ bridge' = [bridge EXCEPT !.mu = C!None]
  <2>1. TaskMoves(o) /\ task'[o].at = "done" /\ task'[o].server = 0 /\ task'[o].answer \in {o, C!None}
    BY <1>0, <1>5, TaskSays, TaskGoesWith DEF CodexType, C!CodexBridgeResponse, C!Stages, TaskFits
  <2>2. BridgeType' /\ bridge'.mu = C!None /\ bridge'.server = bridge.server
    BY <1>0, <1>5 DEF CodexType, BridgeType
  <2>3. CodexFits' /\ ServersLinked'
    BY <1>0, <1>2, <1>5, <2>1, <2>2, TurnEnds
  <2>4. OutsideType'
    BY <1>0, <1>5, Unsubscribed DEF CodexType, OutsideType
  <2> QED BY <1>0, <1>2, <1>5, <2>1, <2>2, <2>3, <2>4
          DEF CodexInv, CodexType, TaskMoves, EntryKeeps, InTurnStep
<1> QED BY <1>1, <1>3, <1>4, <1>5 DEF C!Collect, C!OfTurn

-----------------------------------------------------------------------------
(* The logins, and what happens outside.                                   *)

EntryMoves(l) == EntryType' /\ \A m \in Logins : m # l => entry'[m] = entry[m]

\* Calls that work on a login's server still do; a login gives its server up closed.
LEMMA LoginKeeps ==
  ASSUME CodexInv, NEW l \in Logins, EntryMoves(l), EntryFits(l)', UNCHANGED task, bridge'.mu = bridge.mu,
         bridge'.server = bridge.server \/ bridge.mu = C!None,
         entry[l].at \in {"listed", "cancel", "gone"} =>
           entry'[l].at \in {"listed", "cancel", "gone"} /\ entry'[l].server = entry[l].server,
         \A s \in C!Servers : C!Up(s)' =>
           \/ Linked(s)'
           \/ /\ C!Up(s) /\ (Waits(l, s) => Waits(l, s)')
              /\ bridge'.server = bridge.server \/ s # bridge.server
  PROVE  CodexFits' /\ ServersLinked'
<1>1. \A m \in Logins : EntryFits(m)'
  BY DEF CodexInv, CodexFits, EntryFits, EntryMoves
<1>2. ASSUME NEW o \in Ops PROVE TaskFits(o)'
  <2>1. TaskFits(o)
    BY DEF CodexInv, CodexFits
  <2>2. task[o].at \in InTurn => bridge'.server = bridge.server
    BY <2>1, NobodyIsNone DEF TaskFits
  <2> QED BY <2>1, <2>2 DEF TaskFits, EntryMoves
<1>3. ASSUME NEW s \in C!Servers, C!Up(s)', ~Linked(s)' PROVE FALSE
  <2>1. C!Up(s) /\ (Waits(l, s) => Waits(l, s)') /\ Linked(s) /\ bridge.server # s
    BY <1>3 DEF CodexInv, ServersLinked, Linked
  <2>2. \A m \in Logins : Waits(m, s) => Waits(m, s)'
    BY <2>1 DEF Waits, EntryMoves
  <2> QED BY <1>3, <2>1, <2>2 DEF Linked
<1> QED BY <1>1, <1>2, <1>3 DEF CodexFits, ServersLinked

\* A login stays where it is, or is about to be closed: its server is still its own.
LEMMA LoginStays ==
  ASSUME CodexInv, NEW l \in Logins, EntryMoves(l), UNCHANGED <<bridge, task>>, ServerType', OutsideType',
         entry'[l].server = entry[l].server, entry'[l].synced = entry[l].synced,
         entry'[l].at = entry[l].at \/ (entry[l].at = "listed" /\ entry'[l].at = "cancel"),
         entry'[l].watched => entry[l].watched,
         \A s \in C!Servers : C!Up(s)' => C!Up(s)
  PROVE  CodexInv'
<1>1. EntryFits(l)'
  BY DEF CodexInv, CodexFits, EntryFits
<1>2. \A s \in C!Servers : Waits(l, s) => Waits(l, s)'
  BY DEF Waits
<1>3. CodexFits' /\ ServersLinked'
  BY <1>1, <1>2, LoginKeeps
<1> QED BY <1>3 DEF CodexInv, CodexType, EntryMoves, BridgeType, TaskType

\* Neither a login nor a call moves.
LEMMA NothingMoves ==
  ASSUME CodexInv, UNCHANGED <<bridge, entry, task>>, ServerType', OutsideType',
         \A s \in C!Servers : C!Up(s)' => C!Up(s)
  PROVE  CodexInv'
<1>1. CodexFits'
  BY DEF CodexInv, CodexFits, EntryFits, TaskFits
<1>2. ServersLinked'
  BY DEF CodexInv, ServersLinked, Linked, Waits
<1> QED BY <1>1, <1>2 DEF CodexInv, CodexType, BridgeType, EntryType, TaskType

\* A login gives its server up, closed.
LEMMA GiveUpStep ==
  ASSUME CodexInv, NEW l \in Logins, entry[l].at \in {"ask", "cancel"},
         entry' = [entry EXCEPT ![l].at = "gone"], server' = C!Closed(entry[l].server),
         UNCHANGED <<bridge, task, setup, turn, signedIn>>
  PROVE  CodexInv'
<1> DEFINE e == [entry[l] EXCEPT !.at = "gone"]
<1>0. EntryFits(l) /\ CodexType /\ entry[l] \in EntryState
  BY DEF CodexInv, CodexFits, CodexType, EntryType
<1>1. e \in EntryState /\ e.at = "gone" /\ e.server = entry[l].server /\ e.watched = entry[l].watched
  BY <1>0 DEF EntryState
<1>2. entry' = [entry EXCEPT ![l] = e]
  OBVIOUS
<1> HIDE DEF e
<1>3. EntryMoves(l) /\ entry'[l] = e
  BY <1>0, <1>1, <1>2 DEF CodexType, EntryType, EntryMoves
<1>4. EntryFits(l)'
  BY <1>0, <1>1, <1>3 DEF EntryFits
<1>5. ServerType' /\ \A s \in C!Servers : C!Up(s)' => C!Up(s) /\ s # entry[l].server
  BY <1>0, ClosedServer DEF CodexType
<1>6. \A s \in C!Servers : C!Up(s)' => C!Up(s) /\ ~Waits(l, s)
  BY <1>5 DEF Waits
<1>7. CodexFits' /\ ServersLinked'
  BY <1>1, <1>3, <1>4, <1>6, LoginKeeps
<1> QED BY <1>0, <1>3, <1>5, <1>7 DEF CodexInv, CodexType, EntryMoves, BridgeType, TaskType, OutsideType

\* BeginLogin closes the bridge, starts a server, and lists the login or closes it.
LEMMA BeginLoginStep ==
  ASSUME CodexInv, NEW l \in Logins, C!BeginLogin(l), UNCHANGED <<task, setup, turn, signedIn>>
  PROVE  CodexInv'
<1>0. EntryFits(l) /\ CodexType /\ entry[l] \in EntryState /\ C!Servers \subseteq {0} \cup C!Servers
  BY DEF CodexInv, CodexFits, CodexType, EntryType
<1>m. ASSUME NEW e \in EntryState, entry' = [entry EXCEPT ![l] = e]
      PROVE  EntryMoves(l) /\ entry'[l] = e
  BY <1>0, <1>m DEF CodexType, EntryType, EntryMoves
<1>1. CASE /\ entry[l].at = "new" /\ entry' = [entry EXCEPT ![l].at = "reset"] /\ UNCHANGED <<server, bridge>>
  <2> DEFINE e == [entry[l] EXCEPT !.at = "reset"]
  <2>1. /\ e \in EntryState /\ e.at = "reset" /\ e.server = entry[l].server /\ e.watched = entry[l].watched
        /\ e.synced = entry[l].synced
    BY <1>0 DEF EntryState
  <2>2. entry' = [entry EXCEPT ![l] = e]
    BY <1>1
  <2> HIDE DEF e
  <2>3. EntryMoves(l) /\ entry'[l] = e
    BY <1>m, <2>1, <2>2
  <2>4. EntryFits(l)'
    BY <1>0, <1>1, <2>1, <2>3 DEF EntryFits
  <2>5. ServerType' /\ BridgeType' /\ \A s \in C!Servers : C!Up(s)' => C!Up(s) /\ (Waits(l, s) => Waits(l, s)')
    BY <1>0, <1>1, <2>1, <2>3 DEF CodexType, ServerType, BridgeType, C!Up, Waits
  <2>6. CodexFits' /\ ServersLinked'
    BY <1>1, <2>3, <2>4, <2>5, LoginKeeps
  <2> QED BY <1>0, <2>3, <2>5, <2>6 DEF CodexInv, CodexType, EntryMoves, TaskType, OutsideType
<1>2. ASSUME entry[l].at = "reset", C!ResetBridge, NEW at \in {"gone", "start"},
             entry' = [entry EXCEPT ![l].at = at]
      PROVE  CodexInv'
  <2> DEFINE e == [entry[l] EXCEPT !.at = at]
  <2>1. /\ e \in EntryState /\ e.at = at /\ e.server = entry[l].server /\ e.watched = entry[l].watched
        /\ e.synced = entry[l].synced
    BY <1>0, <1>2 DEF EntryState
  <2>2. entry' = [entry EXCEPT ![l] = e]
    BY <1>2
  <2> HIDE DEF e
  <2>3. EntryMoves(l) /\ entry'[l] = e
    BY <1>m, <2>1, <2>2
  <2>4. EntryFits(l)'
    BY <1>0, <1>2, <2>1, <2>3 DEF EntryFits
  <2>5. /\ ServerType' /\ BridgeType' /\ bridge'.mu = bridge.mu /\ bridge.mu = C!None
        /\ \A s \in C!Servers : C!Up(s)' => C!Up(s) /\ s # bridge.server
    BY <1>2, BridgeReset
  <2>6. \A s \in C!Servers : ~Waits(l, s)
    BY <1>0, <1>2, ServersAreNumbered DEF EntryFits, Waits
  <2>7. CodexFits' /\ ServersLinked'
    BY <1>2, <2>3, <2>4, <2>5, <2>6, LoginKeeps
  <2> QED BY <1>0, <2>3, <2>5, <2>7 DEF CodexInv, CodexType, EntryMoves, TaskType, OutsideType
<1>3. CASE entry[l].at = "start" /\ UNCHANGED <<server, bridge>> /\ entry' = [entry EXCEPT ![l].at = "gone"]
  <2> DEFINE e == [entry[l] EXCEPT !.at = "gone"]
  <2>1. e \in EntryState /\ e.at = "gone" /\ e.server = entry[l].server /\ e.watched = entry[l].watched
    BY <1>0 DEF EntryState
  <2>2. entry' = [entry EXCEPT ![l] = e]
    BY <1>3
  <2> HIDE DEF e
  <2>3. EntryMoves(l) /\ entry'[l] = e
    BY <1>m, <2>1, <2>2
  <2>4. EntryFits(l)'
    BY <1>0, <1>3, <2>1, <2>3 DEF EntryFits
  <2>5. /\ ServerType' /\ BridgeType' /\ \A s \in C!Servers : C!Up(s)' => C!Up(s)
        /\ \A s \in C!Servers : ~Waits(l, s)
    BY <1>0, <1>3, ServersAreNumbered DEF CodexType, ServerType, BridgeType, C!Up, Waits, EntryFits
  <2>6. CodexFits' /\ ServersLinked'
    BY <1>3, <2>3, <2>4, <2>5, LoginKeeps
  <2> QED BY <1>0, <2>3, <2>5, <2>6 DEF CodexInv, CodexType, EntryMoves, TaskType, OutsideType
<1>4. ASSUME entry[l].at = "start", UNCHANGED bridge, NEW s \in C!Servers, C!Starts(s, server),
             entry' = [entry EXCEPT ![l].at = "ask", ![l].server = s]
      PROVE  CodexInv'
  <2> DEFINE e == [entry[l] EXCEPT !.at = "ask", !.server = s]
  <2>1. e \in EntryState /\ e.at = "ask" /\ e.server = s /\ e.synced = entry[l].synced
    BY <1>0 DEF EntryState
  <2>2. entry' = [entry EXCEPT ![l] = e]
    BY <1>4
  <2> HIDE DEF e
  <2>3. EntryMoves(l) /\ entry'[l] = e
    BY <1>m, <2>1, <2>2
  <2>4. EntryFits(l)'
    BY <1>0, <1>4, <2>1, <2>3 DEF EntryFits
  <2>5. ServerType' /\ \A t \in C!Servers : C!Up(t)' => t = s \/ server[t].at = "up"
    BY <1>0, <1>4, StartedServer DEF CodexType, ServerType
  <2>6. \A t \in C!Servers : C!Up(t)' => Linked(t)' \/ C!Up(t)
    BY <1>4, <2>1, <2>3, <2>5, ServersAreNumbered, <1>0 DEF Linked, Waits, EntryFits, C!Up
  <2>7. \A t \in C!Servers : ~Waits(l, t)
    BY <1>0, <1>4, ServersAreNumbered DEF EntryFits, Waits
  <2>8. CodexFits' /\ ServersLinked'
    BY <1>4, <2>3, <2>4, <2>6, <2>7, LoginKeeps
  <2> QED BY <1>0, <1>4, <2>3, <2>5, <2>8 DEF CodexInv, CodexType, EntryMoves, TaskType, BridgeType, OutsideType
<1>5. CASE /\ entry[l].at = "ask" /\ UNCHANGED <<server, bridge>>
           /\ entry' = [entry EXCEPT ![l].at = "listed", ![l].watched = TRUE]
  <2> DEFINE e == [entry[l] EXCEPT !.at = "listed", !.watched = TRUE]
  <2>1. e \in EntryState /\ e.at = "listed" /\ e.server = entry[l].server /\ e.synced = entry[l].synced
    BY <1>0 DEF EntryState
  <2>2. entry' = [entry EXCEPT ![l] = e]
    BY <1>5
  <2> HIDE DEF e
  <2>3. EntryMoves(l) /\ entry'[l] = e
    BY <1>m, <2>1, <2>2
  <2>4. EntryFits(l)'
    BY <1>0, <1>5, <2>1, <2>3 DEF EntryFits
  <2>5. ServerType' /\ BridgeType' /\ \A s \in C!Servers : C!Up(s)' => C!Up(s) /\ (Waits(l, s) => Waits(l, s)')
    BY <1>0, <1>5, <2>1, <2>3 DEF CodexType, ServerType, BridgeType, C!Up, Waits
  <2>6. CodexFits' /\ ServersLinked'
    BY <1>5, <2>3, <2>4, <2>5, LoginKeeps
  <2> QED BY <1>0, <2>3, <2>5, <2>6 DEF CodexInv, CodexType, EntryMoves, TaskType, OutsideType
<1>6. CASE /\ entry[l].at = "ask" /\ UNCHANGED bridge
           /\ entry' = [entry EXCEPT ![l].at = "gone"] /\ server' = C!Closed(entry[l].server)
  BY <1>6, GiveUpStep
<1> QED BY <1>1, <1>2, <1>3, <1>4, <1>5, <1>6 DEF C!BeginLogin

\* CancelLogin: forgotten, and then closed.
LEMMA CancelLoginStep ==
  ASSUME CodexInv, NEW l \in Logins, C!CancelLogin(l), UNCHANGED <<bridge, task, setup, turn, signedIn>>
  PROVE  CodexInv'
<1>1. CASE entry[l].at = "listed" /\ entry' = [entry EXCEPT ![l].at = "cancel"] /\ UNCHANGED server
  <2> DEFINE e == [entry[l] EXCEPT !.at = "cancel"]
  <2>0. EntryFits(l) /\ CodexType /\ entry[l] \in EntryState
    BY DEF CodexInv, CodexFits, CodexType, EntryType
  <2>1. /\ e \in EntryState /\ e.at = "cancel" /\ e.server = entry[l].server /\ e.synced = entry[l].synced
        /\ e.watched = entry[l].watched
    BY <2>0 DEF EntryState
  <2>2. entry' = [entry EXCEPT ![l] = e]
    BY <1>1
  <2> HIDE DEF e
  <2>3. EntryMoves(l) /\ entry'[l] = e
    BY <2>0, <2>1, <2>2 DEF CodexType, EntryType, EntryMoves
  <2>4. OutsideType' /\ ServerType' /\ \A s \in C!Servers : C!Up(s)' => C!Up(s)
    BY <1>1, <2>0 DEF CodexType, OutsideType, ServerType, C!Up
  <2> QED BY <1>1, <2>1, <2>3, <2>4, LoginStays
<1>2. CASE /\ entry[l].at = "cancel" /\ entry' = [entry EXCEPT ![l].at = "gone"]
           /\ server' = C!Closed(entry[l].server)
  BY <1>2, GiveUpStep
<1> QED BY <1>1, <1>2 DEF C!CancelLogin

\* watchLogin ends: with a notification, its server, or its time.
LEMMA WatchLoginStep ==
  ASSUME CodexInv, NEW l \in Logins, C!WatchLogin(l), UNCHANGED <<bridge, task, setup, turn, signedIn>>
  PROVE  CodexInv'
<1>0. EntryFits(l) /\ CodexType /\ entry[l] \in EntryState /\ entry[l].watched
  BY DEF C!WatchLogin, CodexInv, CodexFits, CodexType, EntryType
<1>1. PICK c \in BOOLEAN, err \in BOOLEAN :
        entry' = [entry EXCEPT ![l].watched = FALSE, ![l].completed = c, ![l].err = err]
  <2>1. /\ (entry[l].at = "listed") \in BOOLEAN /\ entry[l].completed \in BOOLEAN /\ entry[l].err \in BOOLEAN
        /\ (Head(server[entry[l].server].notes).kind = "login") \in BOOLEAN
    BY <1>0 DEF EntryState
  <2> QED BY <2>1 DEF C!WatchLogin
<1>2. ServerType' /\ \A s \in C!Servers : C!Up(s)' => C!Up(s)
  <2>1. CASE UNCHANGED server
    BY <1>0, <2>1 DEF CodexType, ServerType, C!Up
  <2>2. CASE server' = C!Closed(entry[l].server)
    BY <1>0, <2>2, ClosedServer DEF CodexType
  <2>3. CASE /\ server[entry[l].server].notes # <<>>
             /\ server' = [server EXCEPT ![entry[l].server].notes = Tail(@)]
    BY <1>0, <2>3, ReceivedNote DEF CodexType, EntryFits
  <2> QED BY <2>1, <2>2, <2>3 DEF C!WatchLogin
<1> DEFINE e == [entry[l] EXCEPT !.watched = FALSE, !.completed = c, !.err = err]
<1>3. /\ e \in EntryState /\ e.at = entry[l].at /\ e.server = entry[l].server /\ e.synced = entry[l].synced
      /\ ~e.watched
  BY <1>0 DEF EntryState
<1>4. entry' = [entry EXCEPT ![l] = e]
  BY <1>1
<1> HIDE DEF e
<1>5. EntryMoves(l) /\ entry'[l] = e
  BY <1>0, <1>3, <1>4 DEF CodexType, EntryType, EntryMoves
<1>6. OutsideType'
  BY <1>0 DEF CodexType, OutsideType
<1> QED BY <1>2, <1>3, <1>5, <1>6, LoginStays

LEMMA ExpireStep ==
  ASSUME CodexInv, NEW l \in Logins, C!Expire(l), UNCHANGED <<server, bridge, task, setup, turn, signedIn>>
  PROVE  CodexInv'
<1> DEFINE e == [entry[l] EXCEPT !.expired = TRUE]
<1>0. CodexType /\ entry[l] \in EntryState
  BY DEF CodexInv, CodexType, EntryType
<1>1. /\ e \in EntryState /\ e.at = entry[l].at /\ e.server = entry[l].server /\ e.synced = entry[l].synced
      /\ e.watched = entry[l].watched
  BY <1>0 DEF EntryState
<1>2. entry' = [entry EXCEPT ![l] = e]
  BY DEF C!Expire
<1> HIDE DEF e
<1>3. EntryMoves(l) /\ entry'[l] = e
  BY <1>0, <1>1, <1>2 DEF CodexType, EntryType, EntryMoves
<1>4. ServerType' /\ \A s \in C!Servers : C!Up(s)' => C!Up(s)
  BY <1>0 DEF CodexType, ServerType, C!Up
<1>5. OutsideType'
  BY <1>0 DEF CodexType, OutsideType
<1> QED BY <1>1, <1>3, <1>4, <1>5, LoginStays DEF C!Expire

\* External: the app server tells how a login went.
LEMMA AuthorizeStep ==
  ASSUME CodexInv, NEW l \in Logins, C!Authorize(l), UNCHANGED <<bridge, task, setup, turn>>
  PROVE  CodexInv'
<1> DEFINE e == [entry[l] EXCEPT !.told = TRUE]
<1>0. CodexType /\ EntryFits(l) /\ entry[l] \in EntryState /\ entry[l].at \in {"listed", "cancel"}
  BY DEF C!Authorize, CodexInv, CodexFits, CodexType, EntryType
<1>1. /\ e \in EntryState /\ e.at = entry[l].at /\ e.server = entry[l].server /\ e.synced = entry[l].synced
      /\ e.watched = entry[l].watched
  BY <1>0 DEF EntryState
<1>2. entry' = [entry EXCEPT ![l] = e]
  BY DEF C!Authorize
<1> HIDE DEF e
<1>3. EntryMoves(l) /\ entry'[l] = e
  BY <1>0, <1>1, <1>2 DEF CodexType, EntryType, EntryMoves
<1>4. PICK kind \in {"login", "failedLogin"} :
        server' = C!Notified(entry[l].server, [kind |-> kind, of |-> l]) /\ signedIn' = (signedIn \/ kind = "login")
  BY DEF C!Authorize
<1>5. [kind |-> kind, of |-> l] \in C!Notes
  BY DEF C!Notes
<1>6. ServerType' /\ \A s \in C!Servers : C!Up(s)' => C!Up(s)
  BY <1>0, <1>4, <1>5, NotifiedServer DEF CodexType, EntryFits
<1>7. signedIn' \in BOOLEAN
  BY <1>4
<1> QED BY <1>0, <1>1, <1>3, <1>6, <1>7, LoginStays DEF CodexType, OutsideType

\* External: the app server works on a turn, or ends.
LEMMA WorkStep ==
  ASSUME CodexInv, NEW o \in Ops, C!Work(o), UNCHANGED <<bridge, entry, task, setup, signedIn>>
  PROVE  CodexInv'
<1>0. CodexType /\ turn[o].server \in C!Servers
  BY DEF C!Work, C!Up, CodexInv, CodexType, OutsideType
<1>1. PICK kind \in {"item", "turn", "failedTurn"} :
        /\ server' = C!Notified(turn[o].server, [kind |-> kind, of |-> o])
        /\ turn' = [turn EXCEPT ![o] = IF kind = "item" THEN [@ EXCEPT !.at = "spoke"] ELSE C!NoTurn]
  BY DEF C!Work
<1>2. [kind |-> kind, of |-> o] \in C!Notes
  BY DEF C!Notes
<1>3. ServerType' /\ \A s \in C!Servers : C!Up(s)' => C!Up(s)
  BY <1>0, <1>1, <1>2, NotifiedServer DEF CodexType
<1>4. OutsideType'
  BY <1>0, <1>1 DEF CodexType, OutsideType, C!NoTurn
<1> QED BY <1>0, <1>3, <1>4, NothingMoves DEF CodexType

LEMMA ExitStep ==
  ASSUME CodexInv, NEW s \in C!Servers, C!Exit(s)
  PROVE  CodexInv'
<1>1. server' = C!Closed(s) /\ UNCHANGED <<bridge, entry, task, setup, turn, signedIn>>
  BY DEF C!Exit
<1>2. ServerType' /\ \A t \in C!Servers : C!Up(t)' => C!Up(t)
  BY <1>1, ClosedServer DEF CodexInv, CodexType
<1> QED BY <1>1, <1>2, NothingMoves DEF CodexInv, CodexType, OutsideType

-----------------------------------------------------------------------------
LEMMA CodexStarts == C!CodexInit => CodexInv
<1> SUFFICES ASSUME C!CodexInit PROVE CodexInv
  OBVIOUS
<1>1. ServerType
  BY BoundsAssumption DEF C!CodexInit, ServerType, ServerState, C!None
<1>2. BridgeType /\ EntryType
  BY DEF C!CodexInit, BridgeType, EntryType, EntryState, C!NewEntry, C!None
<1>3. TaskType
  BY IdleIsTyped DEF C!CodexInit, TaskType, IdleFits
<1>4. OutsideType
  BY DEF C!CodexInit, OutsideType, C!NoTurn, C!None
<1>5. CodexFits
  BY NobodyIsNone DEF C!CodexInit, CodexFits, EntryFits, TaskFits, InTurn, C!NewEntry, C!IdleTask
<1>6. ServersLinked
  BY DEF C!CodexInit, ServersLinked, C!Up
<1> QED BY <1>1, <1>2, <1>3, <1>4, <1>5, <1>6 DEF CodexInv, CodexType

LEMMA CodexStep == CodexInv /\ C!Next => CodexInv'
<1> SUFFICES ASSUME CodexInv, C!Next PROVE CodexInv'
  OBVIOUS
<1>1. CASE UNCHANGED C!codex
  BY <1>1, NothingMoves DEF C!codex, CodexInv, CodexType, ServerType, OutsideType, C!Up
<1>2. CASE \E s \in C!Servers : C!Exit(s)
  BY <1>2, ExitStep
<1>3. CASE \E l \in Logins :
       \/ C!BeginLogin(l) /\ UNCHANGED <<C!store, task, setup, turn, signedIn>>
       \/ (C!WatchLogin(l) \/ C!CancelLogin(l)) /\ UNCHANGED <<C!store, bridge, task, setup, turn, signedIn>>
       \/ C!Expire(l) /\ UNCHANGED <<C!store, server, bridge, task, setup, turn, signedIn>>
       \/ C!Authorize(l) /\ UNCHANGED <<C!store, bridge, task, setup, turn>>
  BY <1>3, BeginLoginStep, WatchLoginStep, CancelLoginStep, ExpireStep, AuthorizeStep
<1>4. CASE \E o \in Ops, l \in Logins :
        C!PollLogin(o, l) /\ UNCHANGED <<C!store, bridge, entry, setup, turn, signedIn>>
  BY <1>4, PollStep
<1>5. ASSUME NEW o \in Ops,
             \/ \E what \in {"refresh", "disconnect"} : C!Begins(o, what, "reset")
             \/ C!Begins(o, "discover", "start")
             \/ IF C!ResolveCommand = C!None THEN C!Ends(o) ELSE C!Begins(o, "turn", "lock"),
             UNCHANGED <<C!store, server, bridge, entry, setup, turn, signedIn>>
      PROVE  CodexInv'
  <2>1. OutsideType'
    BY <1>5 DEF CodexInv, CodexType, OutsideType
  <2>2. \/ \E what \in C!Tasks, at \in {"reset", "start", "lock"} : C!Begins(o, what, at)
        \/ C!Ends(o)
    BY <1>5 DEF C!Tasks
  <2> QED BY <1>5, <2>1, <2>2, BeginStep
<1>6. ASSUME NEW o \in Ops, C!Configure(o), UNCHANGED <<server, bridge, entry, turn, signedIn>>
      PROVE  CodexInv'
  <2>1. OutsideType'
    BY <1>6 DEF C!Configure, C!SaveConfig, CodexInv, CodexType, OutsideType
  <2>2. \/ \E what \in C!Tasks, at \in {"reset", "start", "lock"} : C!Begins(o, what, at)
        \/ C!Ends(o)
    BY <1>6 DEF C!Configure, C!Tasks
  <2> QED BY <1>6, <2>1, <2>2, BeginStep
<1>7. ASSUME NEW o \in Ops, C!Status(o), UNCHANGED <<server, bridge, entry, setup, turn, signedIn>>
      PROVE  CodexInv'
  <2>1. OutsideType'
    BY <1>7 DEF CodexInv, CodexType, OutsideType
  <2> QED BY <1>7, <2>1, BeginStep DEF C!Status
<1>8. CASE \E o \in Ops :
       \/ C!Reset(o) /\ UNCHANGED <<C!vault, env, entry, setup, turn, signedIn>>
       \/ (C!Start(o) \/ C!ReadAccount(o)) /\ UNCHANGED <<C!store, bridge, entry, setup, turn, signedIn>>
       \/ C!Logout(o) /\ UNCHANGED <<C!store, bridge, entry, setup, turn>>
       \/ C!Forget(o) /\ UNCHANGED <<C!vault, env, server, bridge, entry, turn, signedIn>>
       \/ C!SyncProvider(o) /\ UNCHANGED <<C!vault, env, bridge, setup, turn, signedIn>>
       \/ C!SaveName(o) /\ UNCHANGED <<C!store, bridge, turn, signedIn>>
       \/ C!HandOver(o) /\ UNCHANGED <<C!store, entry, setup, turn, signedIn>>
  BY <1>8, ResetStep, StartStep, ReadAccountStep, LogoutStep, ForgetStep, SyncStep, SaveNameStep, HandOverStep
<1>9. CASE \E o \in Ops :
       \/ C!TakeBridge(o) /\ UNCHANGED <<C!store, entry, setup, turn, signedIn>>
       \/ (C!StartThread(o) \/ C!StartTurn(o) \/ C!Collect(o)) /\ UNCHANGED <<C!store, entry, setup, signedIn>>
       \/ C!Work(o) /\ UNCHANGED <<C!store, bridge, entry, task, setup, signedIn>>
  BY <1>9, TakeBridgeStep, StartThreadStep, StartTurnStep, CollectStep, WorkStep
<1> QED BY <1>1, <1>2, <1>3, <1>4, <1>5, <1>6, <1>7, <1>8, <1>9 DEF C!Next

-----------------------------------------------------------------------------
(* Claude Web: no call that waits is forgotten.                            *)

WaiterState == [slot : {"none", "empty", "failed", "good"}, known : BOOLEAN]
WorkState == [what : {"status", "poll", "refresh", "turn", "disconnect"}, about : {0} \cup W!Tokens,
              at : {"idle", "send", "wait", "save", "keep", "status", "sync", "forget", "remove", "done"}]
PairingType == pairing \in [token : {0} \cup W!Tokens, paired : BOOLEAN]
QueueType == queue \in Seq(Ops)
WaiterType == waiter \in [Ops -> WaiterState]
SignInType == signIn \in [W!Tokens -> {"new", "opened", "listed", "expired", "gone"}]
TabType == carried \subseteq [of : Ops, token : W!Tokens] /\ handed \subseteq W!Tokens
WorkType == work \in [Ops -> WorkState]

\* Whoever waits with an empty slot is known, and what it asked is queued or taken with
\* the token that counts: W!NoWaiterIsForgotten with the queue as the set of its members.
Queued(o) == \E i \in 1..Len(queue) : queue[i] = o
Answerable(o) ==
  work[o].at = "wait" /\ waiter[o].slot = "empty" =>
    waiter[o].known /\ (Queued(o) \/ [of |-> o, token |-> pairing.token] \in carried)

WebInv ==
  /\ connected \in BOOLEAN /\ PairingType /\ QueueType /\ WaiterType /\ SignInType /\ TabType /\ WorkType
  /\ \A o \in Ops : Answerable(o)

LEMMA WebInvGives == WebInv => W!ClaudeWebTypeOK /\ W!NoWaiterIsForgotten
  BY DEF WebInv, W!ClaudeWebTypeOK, W!NoWaiterIsForgotten, Answerable, Queued, PairingType, QueueType,
    WaiterType, SignInType, TabType, WorkType, WaiterState, WorkState

\* A step that changes neither the bridge nor the tab keeps who can be answered, as
\* long as nobody begins to wait.
LEMMA NobodyWaitsAnew ==
  ASSUME WebInv, WorkType', \A o \in Ops : work'[o].at = "wait" => work[o].at = "wait",
         UNCHANGED <<pairing, queue, waiter, carried>>
  PROVE  \A o \in Ops : Answerable(o)'
  BY DEF WebInv, Answerable, Queued

\* resetLocked: every waiter is answered.
LEMMA ResetAnswers ==
  ASSUME WebInv, NEW token \in {0} \cup W!Tokens, W!ResetLocked(token),
         \A o \in Ops : work'[o].at = "wait" => work[o].at = "wait"
  PROVE  PairingType' /\ QueueType' /\ WaiterType' /\ \A o \in Ops : Answerable(o)'
<1>1. PairingType' /\ QueueType'
  BY DEF W!ResetLocked, PairingType, QueueType
<1>2. ASSUME NEW o \in Ops
      PROVE  /\ waiter'[o] \in WaiterState
             /\ waiter'[o].slot = "empty" => waiter[o].slot = "empty" /\ ~waiter[o].known
  BY <1>2 DEF W!ResetLocked, WebInv, WaiterType, WaiterState
<1>3. WaiterType'
  BY <1>2 DEF W!ResetLocked, WaiterType
<1>4. ASSUME NEW o \in Ops PROVE Answerable(o)'
  BY <1>2 DEF WebInv, Answerable
<1> QED BY <1>1, <1>3, <1>4

\* The steps of a call.
LEMMA WorkGoes ==
  ASSUME WorkType, NEW o \in Ops, NEW at \in {"send", "wait", "save", "keep", "status", "sync", "forget", "remove"},
         W!Goes(o, at)
  PROVE  WorkType' /\ work'[o].at = at /\ \A p \in Ops : p # o => work'[p] = work[p]
  BY DEF WorkType, WorkState, W!Goes

LEMMA WorkEnds ==
  ASSUME WorkType, NEW o \in Ops, W!Ends(o)
  PROVE  WorkType' /\ work'[o].at = "done" /\ \A p \in Ops : p # o => work'[p] = work[p]
  BY DEF WorkType, WorkState, W!Ends

LEMMA WorkBegins ==
  ASSUME WorkType, NEW o \in Ops, NEW what \in {"refresh", "turn", "disconnect"},
         NEW at \in {"send", "forget"}, W!Begins(o, what, at)
  PROVE  WorkType' /\ work'[o].at = at /\ \A p \in Ops : p # o => work'[p] = work[p]
  BY DEF WorkType, WorkState, W!Begins

-----------------------------------------------------------------------------
LEMMA SignInStep ==
  ASSUME WebInv, NEW n \in W!Tokens, W!BeginLogin(n) \/ W!CancelLogin(n) \/ W!Expire(n),
         UNCHANGED <<connected, work, carried>>
  PROVE  WebInv'
<1>0. \A o \in Ops : work'[o].at = "wait" => work[o].at = "wait"
  OBVIOUS
<1>1. SignInType' /\ TabType' /\ WorkType' /\ connected' \in BOOLEAN
  BY DEF WebInv, SignInType, TabType, WorkType, PairingType, W!BeginLogin, W!CancelLogin, W!Expire
<1>2. CASE \E token \in {0} \cup W!Tokens : W!ResetLocked(token)
  BY <1>0, <1>1, <1>2, ResetAnswers DEF WebInv
<1>3. CASE UNCHANGED W!bridgeVars
  BY <1>0, <1>1, <1>3, NobodyWaitsAnew DEF W!bridgeVars, WebInv, PairingType, QueueType, WaiterType
<1> QED BY <1>2, <1>3 DEF W!BeginLogin, W!CancelLogin, W!Expire

LEMMA WebPollStep ==
  ASSUME WebInv, NEW o \in Ops, NEW n \in W!Tokens, W!PollLogin(o, n),
         UNCHANGED <<connected, carried, handed>>
  PROVE  WebInv'
<1>0. WorkType' /\ \A p \in Ops : work'[p].at = "wait" => work[p].at = "wait"
  <2>1. CASE work' = [work EXCEPT ![o] = [what |-> "poll", about |-> n, at |-> "send"]]
    BY <2>1 DEF WebInv, WorkType, WorkState
  <2>2. CASE W!Ends(o)
    BY <2>2, WorkEnds DEF WebInv
  <2> QED BY <2>1, <2>2 DEF W!PollLogin
<1>1. SignInType' /\ TabType' /\ connected' \in BOOLEAN
  BY DEF WebInv, SignInType, TabType, W!PollLogin
<1>2. CASE W!ResetLocked(0)
  BY <1>0, <1>1, <1>2, ResetAnswers DEF WebInv
<1>3. CASE UNCHANGED W!bridgeVars
  BY <1>0, <1>1, <1>3, NobodyWaitsAnew DEF W!bridgeVars, WebInv, PairingType, QueueType, WaiterType
<1> QED BY <1>2, <1>3 DEF W!PollLogin

\* The waiter of the new command is known, and the command is the last of the queue.
LEMMA SendStep ==
  ASSUME WebInv, NEW o \in Ops, W!Send(o), UNCHANGED <<connected, carried, handed, signIn>>
  PROVE  WebInv'
<1>1. connected' \in BOOLEAN /\ PairingType' /\ SignInType' /\ TabType'
  BY DEF W!Send, WebInv, PairingType, SignInType, TabType
<1>2. CASE W!Ends(o) /\ UNCHANGED <<waiter, queue>>
  <2>1. WorkType' /\ \A p \in Ops : work'[p].at = "wait" => work[p].at = "wait"
    BY <1>2, WorkEnds DEF WebInv
  <2>2. UNCHANGED pairing
    BY DEF W!Send
  <2> QED BY <1>1, <1>2, <2>1, <2>2, NobodyWaitsAnew DEF WebInv, QueueType, WaiterType
<1>3. CASE /\ waiter' = [waiter EXCEPT ![o] = [slot |-> "empty", known |-> TRUE]]
           /\ queue' = Append(queue, o) /\ W!Goes(o, "wait")
  <2>1. WorkType' /\ work'[o].at = "wait" /\ \A p \in Ops : p # o => work'[p] = work[p]
    BY <1>3, WorkGoes DEF WebInv
  <2>2. WaiterType' /\ waiter'[o].known /\ \A p \in Ops : p # o => waiter'[p] = waiter[p]
    BY <1>3 DEF WebInv, WaiterType, WaiterState
  <2>3. /\ QueueType' /\ Len(queue') = Len(queue) + 1 /\ Len(queue) \in Nat
        /\ queue'[Len(queue) + 1] = o /\ \A i \in 1..Len(queue) : queue'[i] = queue[i]
    BY <1>3 DEF WebInv, QueueType
  <2>4. Queued(o)' /\ \A p \in Ops : Queued(p) => Queued(p)'
    BY <2>3 DEF Queued
  <2>5. ASSUME NEW p \in Ops PROVE Answerable(p)'
    <3>1. CASE p = o
      BY <3>1, <2>2, <2>4 DEF Answerable
    <3>2. CASE p # o
      BY <3>2, <2>1, <2>2, <2>4 DEF W!Send, Answerable, WebInv
    <3> QED BY <3>1, <3>2
  <2> QED BY <1>1, <2>1, <2>2, <2>3, <2>5 DEF WebInv
<1> QED BY <1>2, <1>3 DEF W!Send

LEMMA WaitStep ==
  ASSUME WebInv, NEW o \in Ops, W!Wait(o), UNCHANGED <<connected, carried, handed, signIn>>
  PROVE  WebInv'
<1>1. connected' \in BOOLEAN /\ PairingType' /\ SignInType' /\ TabType' /\ QueueType'
  BY DEF W!Wait, WebInv, PairingType, SignInType, TabType, QueueType
<1>2. WorkType' /\ work'[o].at # "wait" /\ \A p \in Ops : p # o => work'[p] = work[p]
  BY WorkEnds, WorkGoes DEF W!Wait, WebInv
<1>3. WaiterType' /\ \A p \in Ops : p # o => waiter'[p] = waiter[p]
  BY DEF W!Wait, W!NoWaiter, WebInv, WaiterType, WaiterState
<1>4. ASSUME NEW p \in Ops PROVE Answerable(p)'
  BY <1>2, <1>3 DEF W!Wait, Answerable, Queued, WebInv
<1> QED BY <1>1, <1>2, <1>3, <1>4 DEF WebInv

-----------------------------------------------------------------------------
LEMMA PairStep ==
  ASSUME WebInv, NEW token \in W!Tokens, W!Pair(token), UNCHANGED <<connected, handed, signIn, work>>
  PROVE  WebInv'
<1>1. PairingType' /\ pairing'.token = pairing.token
  BY DEF W!Pair, WebInv, PairingType
<1> QED BY <1>1 DEF W!Pair, WebInv, PairingType, QueueType, WaiterType, SignInType, TabType, WorkType,
              Answerable, Queued

\* What is taken from the queue is carried, with the token that counts.
LEMMA WebTakeStep ==
  ASSUME WebInv, NEW token \in W!Tokens, W!Poll(token), UNCHANGED <<connected, handed, signIn, work>>
  PROVE  WebInv'
<1>1. PairingType' /\ pairing'.token = token /\ pairing.token = token
  BY DEF W!Poll, WebInv, PairingType
<1>2. queue \in Seq(Ops) /\ queue # <<>>
  BY DEF W!Poll, WebInv, QueueType
<1>3. /\ QueueType' /\ Len(queue) \in Nat /\ Len(queue') = Len(queue) - 1
      /\ \A i \in 1..Len(queue') : queue'[i] = queue[i + 1]
      /\ Head(queue) = queue[1] /\ Head(queue) \in Ops
  BY <1>2 DEF W!Poll, QueueType
<1>4. TabType'
  BY <1>3 DEF W!Poll, WebInv, TabType
<1>5. ASSUME NEW o \in Ops, Queued(o) PROVE Queued(o)' \/ o = Head(queue)
  <2>1. PICK i \in 1..Len(queue) : queue[i] = o
    BY <1>5 DEF Queued
  <2>2. CASE i = 1
    BY <2>1, <2>2, <1>3
  <2>3. CASE i # 1
    <3>1. i - 1 \in 1..Len(queue') /\ queue'[i - 1] = o
      BY <2>1, <2>3, <1>3
    <3> QED BY <3>1 DEF Queued
  <2> QED BY <2>2, <2>3
<1>6. ASSUME NEW o \in Ops PROVE Answerable(o)'
  BY <1>1, <1>5 DEF W!Poll, WebInv, Answerable
<1> QED BY <1>1, <1>3, <1>4, <1>6 DEF W!Poll, WebInv, WaiterType, SignInType, WorkType

\* A result that is not taken for the waiter leaves it to the commands that count.
LEMMA AcceptStep ==
  ASSUME WebInv, NEW command \in carried, W!Accept(command), UNCHANGED <<connected, handed, signIn, work>>
  PROVE  WebInv'
<1>0. command.of \in Ops /\ command.token \in W!Tokens /\ command = [of |-> command.of, token |-> command.token]
  BY DEF WebInv, TabType
<1>1. PICK result \in {"failed", "good"} :
        waiter' = IF command.token = pairing.token /\ waiter[command.of] = [slot |-> "empty", known |-> TRUE]
                  THEN [waiter EXCEPT ![command.of].slot = result] ELSE waiter
  BY DEF W!Accept
<1>2. WaiterType' /\ \A p \in Ops : p # command.of => waiter'[p] = waiter[p]
  BY <1>0, <1>1 DEF WebInv, WaiterType, WaiterState
<1>3. waiter'[command.of].slot = "empty" =>
        /\ waiter' = waiter
        /\ command.token # pairing.token \/ waiter[command.of] # [slot |-> "empty", known |-> TRUE]
  BY <1>0, <1>1 DEF WebInv, WaiterType, WaiterState
<1>4. /\ UNCHANGED <<pairing, queue>> /\ carried' = carried \ {command}
  BY DEF W!Accept
<1>5. ASSUME NEW o \in Ops PROVE Answerable(o)'
  <2>1. CASE o # command.of
    <3>1. [of |-> o, token |-> pairing.token] # command
      BY <2>1
    <3> QED BY <3>1, <2>1, <1>2, <1>4 DEF WebInv, Answerable, Queued
  <2>2. CASE o = command.of
    <3> SUFFICES ASSUME work[o].at = "wait", waiter'[o].slot = "empty"
                 PROVE  waiter[o].known /\ (Queued(o) \/ [of |-> o, token |-> pairing.token] \in carried')
                        /\ waiter' = waiter
      BY <1>3, <1>4, <2>2 DEF Answerable, Queued
    <3>1. waiter' = waiter /\ waiter[o].known
          /\ (Queued(o) \/ [of |-> o, token |-> pairing.token] \in carried)
      BY <1>3, <2>2 DEF WebInv, Answerable
    <3>2. waiter[o] = [slot |-> "empty", known |-> TRUE]
      BY <3>1 DEF WebInv, WaiterType, WaiterState
    <3>3. command.token # pairing.token
      BY <1>3, <2>2, <3>2
    <3>4. [of |-> o, token |-> pairing.token] # command
      BY <3>3
    <3> QED BY <3>1, <3>4, <1>4
  <2> QED BY <2>1, <2>2
<1> QED BY <1>2, <1>4, <1>5 DEF WebInv, PairingType, QueueType, SignInType, TabType, WorkType

-----------------------------------------------------------------------------
\* The rest of the calls change neither the bridge nor the tab, but for a sign-out.
LEMMA WebCallStep ==
  ASSUME WebInv, NEW o \in Ops,
         \/ W!Save(o) /\ UNCHANGED signIn
         \/ W!Keep(o) /\ UNCHANGED connected
         \/ UNCHANGED <<connected, signIn>> /\ (W!Status(o) \/ W!Refresh(o) \/ W!CompleteModelTurn(o)),
         UNCHANGED <<pairing, queue, waiter, carried, handed>>
  PROVE  WebInv'
<1>1. WorkType' /\ \A p \in Ops : work'[p].at = "wait" => work[p].at = "wait"
  <2>1. CASE W!Ends(o)
    BY <2>1, WorkEnds DEF WebInv
  <2>2. CASE \E at \in {"keep", "status", "sync", "remove"} : W!Goes(o, at)
    BY <2>2, WorkGoes DEF WebInv
  <2>3. CASE \E what \in {"refresh", "turn"} : W!Begins(o, what, "send")
    BY <2>3, WorkBegins DEF WebInv
  <2> QED BY <2>1, <2>2, <2>3 DEF W!Save, W!Keep, W!Status, W!Refresh, W!CompleteModelTurn
<1>2. connected' \in BOOLEAN
  BY DEF WebInv, W!Save, W!Saves
<1>3. SignInType'
  BY DEF WebInv, SignInType, W!Keep
<1> QED BY <1>1, <1>2, <1>3, NobodyWaitsAnew DEF WebInv, PairingType, QueueType, WaiterType, TabType

LEMMA WebDisconnectStep ==
  ASSUME WebInv, NEW o \in Ops, W!Disconnect(o), UNCHANGED <<carried, handed>>
  PROVE  WebInv'
<1>1. WorkType' /\ \A p \in Ops : work'[p].at = "wait" => work[p].at = "wait"
  <2>1. CASE W!Ends(o)
    BY <2>1, WorkEnds DEF WebInv
  <2>2. CASE \E at \in {"save", "remove"} : W!Goes(o, at)
    BY <2>2, WorkGoes DEF WebInv
  <2>3. CASE W!Begins(o, "disconnect", "forget")
    BY <2>3, WorkBegins DEF WebInv
  <2> QED BY <2>1, <2>2, <2>3 DEF W!Disconnect
<1>2. connected' \in BOOLEAN /\ SignInType' /\ TabType'
  BY DEF WebInv, SignInType, TabType, W!Disconnect, W!Saves
<1>3. CASE W!ResetLocked(0)
  BY <1>1, <1>2, <1>3, ResetAnswers DEF WebInv
<1>4. CASE UNCHANGED W!bridgeVars
  BY <1>1, <1>2, <1>4, NobodyWaitsAnew DEF W!bridgeVars, WebInv, PairingType, QueueType, WaiterType
<1> QED BY <1>3, <1>4 DEF W!Disconnect

LEMMA WebUnchanged == WebInv /\ UNCHANGED claudeWeb => WebInv'
<1> SUFFICES ASSUME WebInv, UNCHANGED claudeWeb PROVE WebInv'
  OBVIOUS
<1> QED BY NobodyWaitsAnew DEF claudeWeb, WebInv, PairingType, QueueType, WaiterType, SignInType, TabType, WorkType

LEMMA WebStarts == W!ClaudeWebInit => WebInv
<1> SUFFICES ASSUME W!ClaudeWebInit PROVE WebInv
  OBVIOUS
<1>1. work \in [Ops -> WorkState] /\ \A o \in Ops : work[o].at = "idle"
  BY DEF W!ClaudeWebInit, WorkState
<1>2. waiter \in [Ops -> WaiterState]
  BY DEF W!ClaudeWebInit, W!NoWaiter, WaiterState
<1> QED BY <1>1, <1>2 DEF W!ClaudeWebInit, WebInv, PairingType, QueueType, WaiterType, SignInType, TabType,
                        WorkType, Answerable

LEMMA WebStep == WebInv /\ W!Next => WebInv'
<1> SUFFICES ASSUME WebInv, W!Next PROVE WebInv'
  OBVIOUS
<1>1. CASE /\ UNCHANGED <<connected, work, carried>>
           /\ \E n \in W!Tokens : W!BeginLogin(n) \/ W!CancelLogin(n) \/ W!Expire(n)
  BY <1>1, SignInStep
<1>2. CASE /\ UNCHANGED <<connected, carried, handed>>
           /\ \E o \in Ops, n \in W!Tokens : W!PollLogin(o, n)
  BY <1>2, WebPollStep
<1>3. CASE /\ UNCHANGED <<connected, carried, handed, signIn>>
           /\ \E o \in Ops : W!Send(o) \/ W!Wait(o)
  BY <1>3, SendStep, WaitStep
<1>4. CASE /\ UNCHANGED <<connected, handed, signIn, work>>
           /\ \/ \E token \in W!Tokens : W!Pair(token) \/ W!Poll(token)
              \/ \E command \in carried : W!Accept(command)
  BY <1>4, PairStep, WebTakeStep, AcceptStep
<1>5. CASE /\ UNCHANGED <<pairing, queue, waiter, carried, handed>>
           /\ \E o \in Ops :
                \/ W!Save(o) /\ UNCHANGED signIn
                \/ W!Keep(o) /\ UNCHANGED connected
                \/ UNCHANGED <<connected, signIn>> /\ (W!Status(o) \/ W!Refresh(o) \/ W!CompleteModelTurn(o))
  BY <1>5, WebCallStep
<1>6. CASE UNCHANGED <<carried, handed>> /\ \E o \in Ops : W!Disconnect(o)
  BY <1>6, WebDisconnectStep
<1>7. CASE UNCHANGED claudeWeb
  BY <1>7, WebUnchanged
<1> QED BY <1>1, <1>2, <1>3, <1>4, <1>5, <1>6, <1>7 DEF W!Next, W!bridgeVars, W!claudeWeb, claudeWeb

-----------------------------------------------------------------------------
(* The OAuth adapters: the types.                                          *)

LoginState == [at : {"new", "listed", "gone"}, known : BOOLEAN, completed : BOOLEAN, err : BOOLEAN,
               expired : BOOLEAN]
CallState == [what : H!Whats, at : H!Stages, login : H!Families, saw : {"", "error", "completed", "open"},
              cred : H!Credentials \cup {H!Nothing, H!Broken}, connected : BOOLEAN]
Book == [H!Ids -> H!Definitions]

\* The slot of the account holds a credential of the account and nothing else.
VaultType ==
  /\ platform \in Platforms /\ masterKey \in {"none", "good", "short"}
  /\ keyring \in [H!Slots -> H!Credentials \cup {H!ApiKey, H!Nothing}]
  /\ secretFile \in [H!Slots -> H!Credentials \cup {H!ApiKey, H!Nothing, H!Broken}]
  /\ keyring["account"] \in H!Credentials \cup {H!Nothing}
  /\ secretFile["account"] \in H!Credentials \cup {H!Nothing, H!Broken}
RegistryType ==
  /\ registry \in [loaded : BOOLEAN, defs : Book]
  /\ registryFile \in Book \cup {H!Torn} /\ migrating \in Book \cup {H!Nothing}
EnvType == env \in [locked : BOOLEAN, full : BOOLEAN, faults : 0..MaxFaults, writes : 0..MaxWrites]
LoginType == login \in [Logins -> LoginState]
CallType == call \in [Ops -> CallState]
IssuedType ==
  /\ issued \in [H!Families -> [access : 0..MaxTokens, refresh : 0..MaxTokens]]
  /\ revoked \subseteq H!Families /\ rotates \in BOOLEAN /\ aged \in [H!Families -> 0..MaxTokens]
HistoryType == mishap \subseteq {"unsaved", "stale"} /\ restarts \in 0..MaxRestarts

-----------------------------------------------------------------------------
(* What the tokens have to do with each other.                             *)

Vaulted == {keyring["account"], secretFile["account"]} \cap H!Credentials
Busy(o) == call[o].at \in {"save", "exchange"}

\* A credential that is kept is of tokens the server has issued; where it does not
\* replace the refresh token, it has the one there is.
Within(c) ==
  /\ c.access <= issued[c.family].access /\ c.refresh <= issued[c.family].refresh
  /\ ~rotates => c.refresh = issued[c.family].refresh
TokensFit ==
  /\ \A f \in H!Families : issued[f].refresh <= issued[f].access
  /\ \A c \in Vaulted : Within(c)
  /\ \A o \in Ops : Busy(o) => call[o].cred \in H!Credentials /\ Within(call[o].cred)

\* Where the server replaces refresh tokens, a call that is about to save has the newest
\* tokens of their family, and nobody else has that refresh token.
SavesNewest(o) ==
  LET c == call[o].cred
  IN /\ c.access = issued[c.family].access /\ c.refresh = issued[c.family].refresh
     /\ \A v \in Vaulted : v.family = c.family => v.refresh # c.refresh
     /\ \A p \in Ops \ {o} : Busy(p) /\ call[p].cred.family = c.family =>
          call[p].at = "exchange" /\ call[p].cred.refresh # c.refresh
SavesFit == rotates => \A o \in Ops : call[o].at = "save" => SavesNewest(o)

\* What is in the vault is the newest, or a call is about to put the newest in its place.
Newest(c) == [c EXCEPT !.access = issued[c.family].access, !.refresh = issued[c.family].refresh]
KeptOrSaved(c) ==
  \/ c.refresh = issued[c.family].refresh
  \/ \E o \in Ops : call[o].at = "save" /\ call[o].cred = Newest(c)
Kept == mishap = {} => \A c \in Vaulted : c.family \notin revoked => KeptOrSaved(c)

\* A login that is known to the callback is listed, without an error.
LoginsFit ==
  \A l \in Logins : /\ login[l].known => login[l].at = "listed" /\ ~login[l].err
                    /\ login[l].at = "new" => ~login[l].known /\ ~login[l].err /\ ~login[l].expired

TokenInv == TokensFit /\ SavesFit /\ Kept
AccountsType == VaultType /\ RegistryType /\ EnvType /\ LoginType /\ CallType /\ IssuedType /\ HistoryType
AccountsInv == AccountsType /\ TokenInv /\ LoginsFit

\* No call begins to exchange a code: what DeadLoginsStayDead says of a step.
DeadStay ==
  \A o \in Ops, l \in Logins :
    call[o].at # "redeem" /\ call'[o].at = "redeem" /\ call'[o].login = l
    => login[l].at = "listed" /\ ~login[l].err /\ ~login[l].expired

-----------------------------------------------------------------------------
LEMMA CredentialsAreUsable ==
  \A c \in H!Credentials : /\ c # H!Nothing /\ c # H!Broken /\ c # H!ApiKey
                           /\ c.family \in H!Families /\ c.access \in 1..MaxTokens /\ c.refresh \in 0..MaxTokens
<1> SUFFICES ASSUME NEW c \in H!Credentials
             PROVE  /\ c # H!Nothing /\ c # H!Broken /\ c # H!ApiKey
                    /\ c.family \in H!Families /\ c.access \in 1..MaxTokens /\ c.refresh \in 0..MaxTokens
  OBVIOUS
<1>1. "family" \in DOMAIN c
  BY DEF H!Credentials
<1>2. "family" \notin DOMAIN H!Nothing /\ "family" \notin DOMAIN H!Broken /\ "family" \notin DOMAIN H!ApiKey
  BY DEF H!Nothing, H!Broken, H!ApiKey
<1> QED BY <1>1, <1>2 DEF H!Credentials

LEMMA LoadedCredential ==
  ASSUME VaultType
  PROVE  /\ H!LoadCredential \in H!Credentials \cup {H!Nothing, H!Broken}
         /\ H!Usable(H!LoadCredential) => H!LoadCredential \in Vaulted
<1>1. H!LoadCredential \in {keyring["account"], secretFile["account"], H!Broken}
  BY DEF H!LoadCredential, H!Get, H!GetFile
<1> QED BY <1>1 DEF VaultType, H!Usable, Vaulted

-----------------------------------------------------------------------------
(* The steps of a call.                                                    *)

CallMoves(o) == CallType' /\ \A p \in Ops : p # o => call'[p] = call[p]

LEMMA CallIsTyped == H!Idle \in CallState /\ H!Idle.at = "idle"
  BY DEF H!Idle, CallState, H!Whats, H!Stages, H!Families, H!Nothing

LEMMA OverIsTyped == \A state : H!Over(state) \in CallState /\ H!Over(state).at = "done"
<1> TAKE state
<1>1. (state = "connected") \in BOOLEAN
  OBVIOUS
<1> QED BY <1>1, CallIsTyped DEF H!Over, CallState, H!Stages

LEMMA CallSays ==
  ASSUME CallType, NEW o \in Ops, NEW state, H!Says(o, state)
  PROVE  CallMoves(o) /\ call'[o].at = "done"
<1>1. H!Over(state) \in CallState /\ H!Over(state).at = "done"
  BY OverIsTyped
<1>2. call' = [call EXCEPT ![o] = H!Over(state)]
  BY DEF H!Says
<1> QED BY <1>1, <1>2 DEF CallType, CallMoves

LEMMA CallGoes ==
  ASSUME CallType, NEW o \in Ops, NEW at \in H!Stages, H!Goes(o, at)
  PROVE  CallMoves(o) /\ call'[o].at = at /\ call'[o].cred = call[o].cred
  BY DEF CallType, CallState, CallMoves, H!Goes

LEMMA CallGoesWith ==
  ASSUME CallType, NEW o \in Ops, NEW at \in H!Stages,
         NEW c \in H!Credentials \cup {H!Nothing, H!Broken}, H!GoesWith(o, at, c)
  PROVE  CallMoves(o) /\ call'[o].at = at /\ call'[o].cred = c
  BY DEF CallType, CallState, CallMoves, H!GoesWith

LEMMA CallBegins ==
  ASSUME CallType, NEW o \in Ops, NEW what \in H!Whats, NEW l \in H!Families, NEW at \in H!Stages,
         NEW saw \in {"", "error", "completed", "open"}, H!Begins(o, what, l, at, saw)
  PROVE  CallMoves(o) /\ call'[o].at = at /\ call'[o].login = l /\ call[o].at = "idle"
<1> DEFINE new == [H!Idle EXCEPT !.what = what, !.login = l, !.at = at, !.saw = saw]
<1>1. new \in CallState /\ new.at = at /\ new.login = l
  BY CallIsTyped DEF CallState
<1>2. call' = [call EXCEPT ![o] = new] /\ call[o].at = "idle"
  BY DEF H!Begins
<1> HIDE DEF new
<1> QED BY <1>1, <1>2 DEF CallType, CallMoves

-----------------------------------------------------------------------------
(* The steps of a login.                                                   *)

LoginsStay == LoginType' /\ LoginsFit'

LEMMA LoginsUnchanged == LoginType /\ LoginsFit /\ UNCHANGED login => LoginsStay
  BY DEF LoginType, LoginsFit, LoginsStay

LEMMA LoginError ==
  ASSUME LoginType, LoginsFit, NEW l, H!SetLoginError(l)
  PROVE  LoginsStay
<1>1. CASE l \in Logins /\ login[l].at = "listed"
  BY <1>1 DEF H!SetLoginError, LoginType, LoginState, LoginsFit, LoginsStay
<1>2. CASE l \notin Logins \/ login[l].at # "listed"
  BY <1>2 DEF H!SetLoginError, LoginType, LoginsFit, LoginsStay
<1> QED BY <1>1, <1>2

LEMMA LoginBegins ==
  ASSUME LoginType, LoginsFit, NEW l \in Logins, login[l].at = "new",
         login' = [login EXCEPT ![l].at = "listed", ![l].known = TRUE]
  PROVE  LoginsStay
  BY DEF LoginType, LoginState, LoginsFit, LoginsStay

LEMMA LoginCancelled ==
  ASSUME LoginType, LoginsFit, NEW l \in Logins,
         login' = [login EXCEPT ![l].at = "gone", ![l].known = FALSE]
  PROVE  LoginsStay
  BY DEF LoginType, LoginState, LoginsFit, LoginsStay

LEMMA LoginExpired ==
  ASSUME LoginType, LoginsFit, NEW l \in Logins, login[l].at # "new",
         login' = [login EXCEPT ![l].expired = TRUE]
  PROVE  LoginsStay
  BY DEF LoginType, LoginState, LoginsFit, LoginsStay

LEMMA LoginFinished ==
  ASSUME LoginType, LoginsFit, NEW l,
         login' = [login EXCEPT ![l].completed = TRUE, ![l].known = FALSE]
  PROVE  LoginsStay
<1>1. CASE l \in Logins
  BY <1>1 DEF LoginType, LoginState, LoginsFit, LoginsStay
<1>2. CASE l \notin Logins
  BY <1>2 DEF LoginType, LoginsFit, LoginsStay
<1> QED BY <1>1, <1>2

-----------------------------------------------------------------------------
(* The registry.                                                           *)

LEMMA LoadedBook ==
  ASSUME RegistryType
  PROVE  /\ H!Loaded \in [loaded : BOOLEAN, defs : Book]
         /\ \A i \in H!Ids, d \in H!Definitions : [H!Loaded.defs EXCEPT ![i] = d] \in Book
<1>1. H!NoDefinitions \in Book
  BY DEF H!NoDefinitions, Book, H!Definitions
<1>2. registryFile # H!Torn => registryFile \in Book
  BY DEF RegistryType
<1>3. H!Loaded \in [loaded : BOOLEAN, defs : Book]
  BY <1>1, <1>2 DEF H!Loaded, H!Readable, RegistryType
<1>4. \A i \in H!Ids, d \in H!Definitions : [H!Loaded.defs EXCEPT ![i] = d] \in Book
  BY <1>3 DEF Book
<1> QED BY <1>3, <1>4

LEMMA Replaced ==
  ASSUME RegistryType, NEW defs \in Book, NEW ok, H!Replace(defs, ok), UNCHANGED migrating \/ migrating' = H!Nothing
  PROVE  RegistryType'
<1>1. registry' \in [loaded : BOOLEAN, defs : Book]
  <2>1. CASE registry' = H!Loaded
    BY <2>1, LoadedBook
  <2>2. CASE registry' = [loaded |-> TRUE, defs |-> defs]
    BY <2>2
  <2> QED BY <2>1, <2>2 DEF H!Replace
<1>2. registryFile' \in Book \cup {H!Torn}
  BY DEF H!Replace, H!Persist, RegistryType
<1> QED BY <1>1, <1>2 DEF RegistryType

LEMMA Looked == RegistryType /\ H!Look => RegistryType'
  BY LoadedBook DEF H!Look, RegistryType

LEMMA DefinitionPut ==
  ASSUME RegistryType, NEW d \in H!Definitions, NEW ok, H!PutDefinition("mine", d, ok)
  PROVE  RegistryType'
<1>1. [H!Loaded.defs EXCEPT !["mine"] = d] \in Book
  BY LoadedBook DEF H!Ids
<1> QED BY <1>1, Replaced DEF H!PutDefinition

LEMMA DefinitionRemoved ==
  ASSUME RegistryType, NEW ok, H!RemoveDefinition("mine", ok)
  PROVE  RegistryType'
<1>1. [H!Loaded.defs EXCEPT !["mine"] = "absent"] \in Book
  BY LoadedBook DEF H!Ids, H!Definitions
<1> QED BY <1>1, Replaced DEF H!RemoveDefinition

LEMMA ManagedRemoved == RegistryType /\ H!RemoveManaged => RegistryType'
  BY Looked, DefinitionRemoved DEF H!RemoveManaged

LEMMA RegistryUnchanged == RegistryType /\ UNCHANGED H!registryVars => RegistryType'
  BY DEF RegistryType, H!registryVars

-----------------------------------------------------------------------------
(* The vault and the tokens.                                               *)

\* A step that takes credentials from the vault at most, and asks the server for nothing.
Shrinks ==
  /\ VaultType'
  /\ keyring'["account"] \in {keyring["account"], H!Nothing}
  /\ secretFile'["account"] \in {secretFile["account"], H!Nothing, H!Broken}
  /\ mishap \subseteq mishap'

LEMMA VaultUnchanged == VaultType /\ UNCHANGED <<H!vault, mishap>> => Shrinks
  BY DEF VaultType, H!vault, Shrinks

LEMMA AccountDeleted ==
  ASSUME VaultType, HistoryType, NEW ok, H!DeleteAccount(ok)
  PROVE  Shrinks /\ mishap' \subseteq {"unsaved", "stale"}
<1>1. "account" \in H!Slots
  BY DEF H!Slots
<1>2. secretFile' = [secretFile EXCEPT !["account"] = H!Nothing]
      /\ keyring' \in {keyring, [keyring EXCEPT !["account"] = H!Nothing]}
      /\ UNCHANGED <<platform, masterKey>>
  BY DEF H!DeleteAccount, H!Delete
<1>3. VaultType'
  BY <1>1, <1>2 DEF VaultType
<1>4. keyring'["account"] \in {keyring["account"], H!Nothing} /\ secretFile'["account"] = H!Nothing
  BY <1>1, <1>2 DEF VaultType
<1>5. mishap \subseteq mishap' /\ mishap' \subseteq {"unsaved", "stale"}
  BY DEF H!DeleteAccount, HistoryType
<1> QED BY <1>3, <1>4, <1>5 DEF Shrinks

\* A call that neither gets tokens nor loses the newest: it begins to exchange nothing but
\* a credential of the vault, and where it gives up a save, that is known.
Quiet(o) ==
  \/ call'[o] = call[o]
  \/ call'[o].at \notin {"save", "exchange"} /\ (call[o].at = "save" => mishap' # {})
  \/ call'[o].at = "exchange" /\ call[o].at # "save" /\ call'[o].cred \in Vaulted

LEMMA QuietStep ==
  ASSUME TokenInv, CallType', Shrinks, \A o \in Ops : Quiet(o),
         UNCHANGED <<issued, rotates>>, revoked \subseteq revoked'
  PROVE  TokenInv'
<1>1. Vaulted' \subseteq Vaulted
  BY CredentialsAreUsable DEF Shrinks, Vaulted
<1>2. \A c : Within(c)' <=> Within(c)
  BY DEF Within
<1>3. ASSUME NEW o \in Ops, Busy(o)'
      PROVE  /\ call'[o].cred \in H!Credentials /\ Within(call'[o].cred)
             /\ \/ call'[o] = call[o]
                \/ call'[o].at = "exchange" /\ call'[o].cred \in Vaulted
  BY <1>3 DEF Quiet, Busy, TokenInv, TokensFit, Vaulted
<1>4. TokensFit'
  BY <1>1, <1>2, <1>3 DEF TokenInv, TokensFit
<1>5. ASSUME rotates, NEW o \in Ops, call'[o].at = "save" PROVE SavesNewest(o)'
  <2>1. call'[o] = call[o] /\ SavesNewest(o)
    BY <1>5 DEF Quiet, TokenInv, SavesFit
  <2>2. ASSUME NEW p \in Ops \ {o}, Busy(p)', call'[p].cred.family = call[o].cred.family
        PROVE  call'[p].at = "exchange" /\ call'[p].cred.refresh # call[o].cred.refresh
    BY <2>1, <2>2, <1>3 DEF SavesNewest, Busy
  <2> QED BY <2>1, <2>2, <1>1 DEF SavesNewest
<1>6. SavesFit'
  BY <1>5 DEF SavesFit
<1>7. ASSUME mishap' = {}, NEW c \in Vaulted', c.family \notin revoked' PROVE KeptOrSaved(c)'
  <2>1. KeptOrSaved(c) /\ mishap = {}
    BY <1>1, <1>7 DEF Shrinks, TokenInv, Kept
  <2>2. \A o \in Ops : call[o].at = "save" => call'[o] = call[o]
    BY <1>7 DEF Quiet
  <2> QED BY <2>1, <2>2 DEF KeptOrSaved, Newest
<1>8. Kept'
  BY <1>7 DEF Kept
<1> QED BY <1>4, <1>6, <1>8 DEF TokenInv

\* A call puts what it is about to save in the vault, or fails and says so.
LEMMA AccountPut ==
  ASSUME VaultType, HistoryType, NEW o \in Ops, call[o].cred \in H!Credentials, NEW ok \in BOOLEAN, H!PutAccount(o, ok)
  PROVE  /\ VaultType' /\ mishap \subseteq mishap' /\ mishap' \subseteq {"unsaved", "stale"}
         /\ keyring'["account"] \in {keyring["account"], call[o].cred}
         /\ secretFile'["account"] \in {secretFile["account"], call[o].cred, H!Nothing, H!Broken}
         /\ mishap' = {} => Vaulted' \subseteq {call[o].cred}
<1> DEFINE c == call[o].cred
<1>0. "account" \in H!Slots /\ c # H!Nothing
  BY CredentialsAreUsable DEF H!Slots
<1>1. H!Put("account", c, ok) /\ H!Mishap("account", ok)
  BY DEF H!PutAccount
<1> HIDE DEF c
<1>2. /\ \/ keyring' = [keyring EXCEPT !["account"] = c] /\ secretFile' = [secretFile EXCEPT !["account"] = H!Nothing]
         \/ keyring' = keyring /\ secretFile' = [secretFile EXCEPT !["account"] = c] /\ ok
         \/ keyring' = keyring /\ secretFile' = [secretFile EXCEPT !["account"] = H!Broken] /\ ~ok
         \/ keyring' = keyring /\ secretFile' = [secretFile EXCEPT !["account"] = secretFile["account"]] /\ ~ok
      /\ UNCHANGED platform /\ masterKey' \in {"none", "good", "short", masterKey}
  <2>1. secretFile = [secretFile EXCEPT !["account"] = secretFile["account"]]
    BY DEF VaultType
  <2> QED BY <1>1, <2>1 DEF H!Put, H!PutFile, H!MasterKey
<1>3. VaultType'
  BY <1>0, <1>2 DEF VaultType, c
<1>4. /\ keyring'["account"] \in {keyring["account"], c}
      /\ secretFile'["account"] \in {secretFile["account"], c, H!Nothing, H!Broken}
  BY <1>0, <1>2 DEF VaultType
<1>5. mishap \subseteq mishap' /\ mishap' \subseteq {"unsaved", "stale"}
  BY <1>1 DEF H!Mishap, HistoryType
<1>6. ASSUME mishap' = {} PROVE Vaulted' \subseteq {c}
  <2>1. ok /\ (keyring'["account"] = H!Nothing \/ secretFile'["account"] = H!Nothing)
    BY <1>1, <1>6 DEF H!Mishap
  <2>2. \/ keyring'["account"] = c /\ secretFile'["account"] = H!Nothing
        \/ secretFile'["account"] = c /\ keyring'["account"] = H!Nothing
    BY <1>0, <1>2, <2>1 DEF VaultType
  <2> QED BY <2>2, CredentialsAreUsable DEF Vaulted
<1> QED BY <1>3, <1>4, <1>5, <1>6 DEF c

LEMMA SaveStep ==
  ASSUME VaultType, HistoryType, CallType, TokenInv, NEW o \in Ops, call[o].at = "save", NEW ok \in BOOLEAN,
         H!PutAccount(o, ok), CallMoves(o), call'[o].at \notin {"save", "exchange"},
         UNCHANGED <<issued, revoked, rotates>>
  PROVE  TokenInv'
<1> DEFINE c == call[o].cred
<1>0. c \in H!Credentials /\ Within(c)
  BY DEF TokenInv, TokensFit, Busy
<1>1. /\ mishap \subseteq mishap' /\ Vaulted' \subseteq Vaulted \cup {c}
      /\ mishap' = {} => Vaulted' \subseteq {c}
  BY <1>0, AccountPut, CredentialsAreUsable DEF Vaulted
<1>2. \A d : Within(d)' <=> Within(d)
  BY DEF Within
<1>3. \A p \in Ops : Busy(p)' => p # o /\ call'[p] = call[p] /\ Busy(p)
  BY DEF CallMoves, Busy
<1>4. TokensFit'
  BY <1>0, <1>1, <1>2, <1>3 DEF TokenInv, TokensFit
<1>5. ASSUME rotates, NEW p \in Ops, call'[p].at = "save" PROVE SavesNewest(p)'
  <2>1. p # o /\ call'[p] = call[p] /\ SavesNewest(p)
    BY <1>5, <1>3 DEF Busy, TokenInv, SavesFit
  <2>2. c.family # call[p].cred.family
    BY <2>1 DEF SavesNewest, Busy
  <2>3. ASSUME NEW q \in Ops \ {p}, Busy(q)', call'[q].cred.family = call[p].cred.family
        PROVE  call'[q].at = "exchange" /\ call'[q].cred.refresh # call[p].cred.refresh
    BY <2>1, <2>3, <1>3 DEF SavesNewest
  <2> QED BY <2>1, <2>2, <2>3, <1>1 DEF SavesNewest
<1>6. SavesFit'
  BY <1>5 DEF SavesFit
<1>7. ASSUME mishap' = {}, NEW d \in Vaulted', d.family \notin revoked' PROVE KeptOrSaved(d)'
  <2>1. d = c
    BY <1>1, <1>7
  <2>2. c.refresh = issued[c.family].refresh
    BY <1>0 DEF TokenInv, SavesFit, SavesNewest, Within, IssuedType
  <2> QED BY <2>1, <2>2 DEF KeptOrSaved
<1>8. Kept'
  BY <1>7 DEF Kept
<1> QED BY <1>4, <1>6, <1>8 DEF TokenInv

-----------------------------------------------------------------------------
(* The account server.                                                     *)

\* What an answer of the server does to the tokens: of the family of one credential that
\* it accepts they are renewed.
LEMMA RenewedTokens ==
  ASSUME IssuedType, TokenInv, NEW c \in H!Credentials, Within(c), H!Renews(c)
  PROVE  /\ IssuedType' /\ UNCHANGED <<revoked, rotates>>
         /\ c.family \in H!Families /\ c.refresh = issued[c.family].refresh /\ c.family \notin revoked
         /\ issued'[c.family].access = issued[c.family].access + 1
         /\ issued'[c.family].refresh = IF rotates THEN c.refresh + 1 ELSE c.refresh
         /\ issued'[c.family].access \in 1..MaxTokens /\ issued'[c.family].refresh \in 0..MaxTokens
         /\ \A f \in H!Families : f # c.family => issued'[f] = issued[f]
         /\ \A f \in H!Families : issued'[f].refresh <= issued'[f].access
<1> DEFINE f == c.family
           new == H!Renewed(c)
<1>0. f \in H!Families /\ issued[f].access \in 0..MaxTokens /\ issued[f].refresh \in 0..MaxTokens
      /\ rotates \in BOOLEAN /\ MaxTokens \in Nat
  BY CredentialsAreUsable, BoundsAssumption DEF IssuedType
<1>1. /\ issued' = [issued EXCEPT ![f] = new] /\ issued[f].access < MaxTokens
      /\ UNCHANGED <<revoked, rotates, aged>> /\ c.refresh = issued[f].refresh /\ f \notin revoked
  BY DEF H!Renews, H!Accepts
<1>2. issued[f].refresh <= issued[f].access
  BY <1>0 DEF TokenInv, TokensFit
<1>3. /\ new.access = issued[f].access + 1
      /\ new.refresh = IF rotates THEN issued[f].refresh + 1 ELSE issued[f].refresh
      /\ new = [access |-> new.access, refresh |-> new.refresh]
  BY DEF H!Renewed
<1> HIDE DEF new
<1>4. new.access \in 1..MaxTokens /\ new.refresh \in 0..MaxTokens /\ new.refresh <= new.access
  BY <1>0, <1>1, <1>2, <1>3
<1>5. new \in [access : 0..MaxTokens, refresh : 0..MaxTokens]
  BY <1>0, <1>3, <1>4
<1>6. issued'[f] = new /\ \A g \in H!Families : g # f => issued'[g] = issued[g]
  BY <1>0, <1>1 DEF IssuedType
<1>7. IssuedType'
  BY <1>0, <1>1, <1>5 DEF IssuedType
<1>8. \A g \in H!Families : issued'[g].refresh <= issued'[g].access
  BY <1>4, <1>6 DEF TokenInv, TokensFit
<1> QED BY <1>0, <1>1, <1>3, <1>4, <1>6, <1>7, <1>8

\* A call that exchanges is answered, and goes to save the newest tokens.
LEMMA RenewStep ==
  ASSUME VaultType, IssuedType, CallType, TokenInv, NEW o \in Ops, call[o].at = "exchange", H!Renews(call[o].cred),
         CallMoves(o), call'[o].at = "save",
         call'[o].cred = [call[o].cred EXCEPT !.access = issued'[call[o].cred.family].access,
                                              !.refresh = issued'[call[o].cred.family].refresh],
         UNCHANGED <<keyring, secretFile, mishap>>
  PROVE  IssuedType' /\ TokenInv'
<1> DEFINE c == call[o].cred
           f == c.family
<1>0. c \in H!Credentials /\ Within(c)
  BY DEF TokenInv, TokensFit, Busy
<1>1. /\ IssuedType' /\ UNCHANGED <<revoked, rotates>>
      /\ f \in H!Families /\ c.refresh = issued[f].refresh /\ f \notin revoked
      /\ issued'[f].access = issued[f].access + 1
      /\ issued'[f].refresh = IF rotates THEN c.refresh + 1 ELSE c.refresh
      /\ issued'[f].access \in 1..MaxTokens /\ issued'[f].refresh \in 0..MaxTokens
      /\ \A g \in H!Families : g # f => issued'[g] = issued[g]
      /\ \A g \in H!Families : issued'[g].refresh <= issued'[g].access
  BY <1>0, RenewedTokens
<1>n. PICK n : n = call'[o].cred
  OBVIOUS
<1>2. n \in H!Credentials /\ n.family = f /\ n.access = issued'[f].access /\ n.refresh = issued'[f].refresh
  BY <1>n, <1>0, <1>1 DEF H!Credentials
<1>3. /\ \A g \in H!Families : issued[g].access \in Nat /\ issued[g].refresh \in Nat
      /\ \A d \in H!Credentials : d.access \in Nat /\ d.refresh \in Nat /\ d.family \in H!Families
      /\ rotates \in BOOLEAN /\ MaxTokens \in Nat
  BY CredentialsAreUsable, BoundsAssumption DEF IssuedType
<1>4. ASSUME NEW d \in H!Credentials, Within(d) PROVE Within(d)'
  <2>1. d.family = f \/ issued'[d.family] = issued[d.family]
    BY <1>1, <1>3
  <2> QED BY <2>1, <1>1, <1>3, <1>4 DEF Within
<1>5. Within(n)'
  BY <1>1, <1>2, <1>3 DEF Within
<1>6. Vaulted' = Vaulted /\ Vaulted \subseteq H!Credentials
  BY DEF Vaulted
<1>7. \A p \in Ops : p # o => call'[p] = call[p]
  BY DEF CallMoves
<1>8. TokensFit'
  <2>1. ASSUME NEW p \in Ops, Busy(p)' PROVE (call[p].cred \in H!Credentials /\ Within(call[p].cred))'
    <3>1. CASE p = o
      BY <3>1, <1>n, <1>2, <1>5
    <3>2. CASE p # o
      BY <3>2, <2>1, <1>4, <1>7 DEF TokenInv, TokensFit, Busy
    <3> QED BY <3>1, <3>2
  <2> QED BY <2>1, <1>1, <1>4, <1>6 DEF TokenInv, TokensFit
<1>9. ASSUME rotates PROVE \A p \in Ops : call'[p].at = "save" => SavesNewest(p)'
  <2>1. \A v \in Vaulted : v.family = f => v.refresh # n.refresh
    BY <1>1, <1>2, <1>3, <1>6, <1>9 DEF TokenInv, TokensFit, Within
  <2>2. ASSUME NEW p \in Ops, call[p].at = "save", p # o PROVE call[p].cred.family # f
    BY <2>2, <1>0, <1>1, <1>9 DEF TokenInv, SavesFit, SavesNewest, Busy
  <2>3. ASSUME NEW p \in Ops \ {o}, Busy(p)', call'[p].cred.family = f
        PROVE  call'[p].at = "exchange" /\ call'[p].cred.refresh # n.refresh
    <3>1. call'[p] = call[p] /\ Busy(p) /\ call[p].cred \in H!Credentials /\ Within(call[p].cred)
      BY <1>7, <2>3 DEF Busy, TokenInv, TokensFit
    <3>2. call[p].at = "exchange"
      BY <3>1, <2>2, <2>3 DEF Busy
    <3>3. call[p].cred.refresh <= c.refresh
      BY <3>1, <2>3, <1>1 DEF Within
    <3> QED BY <3>1, <3>2, <3>3, <1>0, <1>1, <1>2, <1>3, <1>9
  <2>4. SavesNewest(o)'
    BY <2>1, <2>3, <1>n, <1>2, <1>6 DEF SavesNewest
  <2>5. ASSUME NEW p \in Ops, call'[p].at = "save", p # o PROVE SavesNewest(p)'
    <3>1. call'[p] = call[p] /\ SavesNewest(p) /\ call[p].cred.family # f /\ call[p].cred \in H!Credentials
      BY <2>2, <2>5, <1>7, <1>9 DEF TokenInv, SavesFit, TokensFit, Busy
    <3>2. issued'[call[p].cred.family] = issued[call[p].cred.family]
      BY <3>1, <1>1, <1>3
    <3>3. ASSUME NEW q \in Ops \ {p}, Busy(q)', call'[q].cred.family = call[p].cred.family
          PROVE  call'[q].at = "exchange" /\ call'[q].cred.refresh # call[p].cred.refresh
      <4>1. q # o
        BY <3>1, <3>3, <1>n, <1>2
      <4> QED BY <4>1, <3>1, <3>3, <1>7 DEF SavesNewest, Busy
    <3> QED BY <3>1, <3>2, <3>3, <1>6 DEF SavesNewest
  <2> QED BY <2>4, <2>5
<1>10. SavesFit'
  BY <1>1, <1>9 DEF SavesFit
<1>11. ASSUME mishap' = {}, NEW v \in Vaulted, v.family \notin revoked PROVE KeptOrSaved(v)'
  <2>0. v \in H!Credentials /\ KeptOrSaved(v) /\ Within(v)
    BY <1>1, <1>6, <1>11 DEF TokenInv, Kept, TokensFit
  <2>1. CASE v.family = f
    <3>1. CASE rotates
      <4>1. n = Newest(v)'
        BY <2>0, <2>1, <1>2 DEF Newest, H!Credentials
      <4> QED BY <4>1, <1>n DEF KeptOrSaved
    <3>2. CASE ~rotates
      BY <3>2, <2>0, <2>1, <1>1 DEF Within, KeptOrSaved
    <3> QED BY <3>1, <3>2
  <2>2. CASE v.family # f
    <3>1. issued'[v.family] = issued[v.family]
      BY <2>0, <2>2, <1>1, <1>3
    <3>2. \A p \in Ops : call[p].at = "save" => call'[p] = call[p]
      BY <1>7
    <3> QED BY <2>0, <3>1, <3>2 DEF KeptOrSaved, Newest
  <2> QED BY <2>1, <2>2
<1>12. Kept'
  BY <1>1, <1>6, <1>11 DEF Kept
<1> QED BY <1>1, <1>8, <1>10, <1>12 DEF TokenInv

\* The answer is lost, and with it the newest tokens.
LEMMA LostStep ==
  ASSUME VaultType, IssuedType, CallType, TokenInv, NEW o \in Ops, call[o].at = "exchange", H!Renews(call[o].cred),
         CallMoves(o), call'[o].at \notin {"save", "exchange"}, mishap' # {}, UNCHANGED <<keyring, secretFile>>
  PROVE  IssuedType' /\ TokenInv'
<1> DEFINE c == call[o].cred
           f == c.family
<1>0. c \in H!Credentials /\ Within(c)
  BY DEF TokenInv, TokensFit, Busy
<1>1. /\ IssuedType' /\ UNCHANGED <<revoked, rotates>>
      /\ f \in H!Families /\ c.refresh = issued[f].refresh
      /\ issued'[f].access = issued[f].access + 1
      /\ issued'[f].refresh = IF rotates THEN c.refresh + 1 ELSE c.refresh
      /\ \A g \in H!Families : g # f => issued'[g] = issued[g]
      /\ \A g \in H!Families : issued'[g].refresh <= issued'[g].access
  BY <1>0, RenewedTokens
<1>2. /\ \A g \in H!Families : issued[g].access \in Nat /\ issued[g].refresh \in Nat
      /\ \A d \in H!Credentials : d.access \in Nat /\ d.refresh \in Nat /\ d.family \in H!Families
      /\ rotates \in BOOLEAN /\ MaxTokens \in Nat
  BY CredentialsAreUsable, BoundsAssumption DEF IssuedType
<1>3. \A d \in H!Credentials : Within(d) => Within(d)'
  BY <1>1, <1>2 DEF Within
<1>4. Vaulted' = Vaulted /\ Vaulted \subseteq H!Credentials
  BY DEF Vaulted
<1>5. \A p \in Ops : Busy(p)' => p # o /\ call'[p] = call[p] /\ Busy(p)
  BY DEF CallMoves, Busy
<1>6. TokensFit'
  BY <1>1, <1>3, <1>4, <1>5 DEF TokenInv, TokensFit
<1>7. ASSUME rotates, NEW p \in Ops, call'[p].at = "save" PROVE SavesNewest(p)'
  <2>1. p # o /\ call'[p] = call[p] /\ SavesNewest(p) /\ call[p].cred \in H!Credentials
    BY <1>5, <1>7 DEF Busy, TokenInv, SavesFit, TokensFit
  <2>2. call[p].cred.family # f
    BY <2>1, <1>0, <1>1 DEF SavesNewest, Busy
  <2>3. issued'[call[p].cred.family] = issued[call[p].cred.family]
    BY <2>1, <2>2, <1>1, <1>2
  <2>4. ASSUME NEW q \in Ops \ {p}, Busy(q)', call'[q].cred.family = call[p].cred.family
        PROVE  call'[q].at = "exchange" /\ call'[q].cred.refresh # call[p].cred.refresh
    BY <2>1, <2>4, <1>5 DEF SavesNewest
  <2> QED BY <2>1, <2>3, <2>4, <1>4 DEF SavesNewest
<1>8. SavesFit' /\ Kept'
  BY <1>1, <1>7 DEF SavesFit, Kept
<1> QED BY <1>1, <1>6, <1>8 DEF TokenInv

\* A code is exchanged: the first tokens of the family of a login, that nobody has.
LEMMA ApprovedTokens ==
  ASSUME IssuedType, TokenInv, NEW l \in H!Families, NEW refresh \in {0, 1}, H!Approves(l, refresh)
  PROVE  /\ IssuedType' /\ UNCHANGED <<revoked, rotates>>
         /\ issued'[l].access = 1 /\ issued'[l].refresh = refresh
         /\ \A f \in H!Families : f # l => issued'[f] = issued[f]
         /\ \A f \in H!Families : issued'[f].refresh <= issued'[f].access
         /\ \A c \in H!Credentials : Within(c) => c.family # l /\ Within(c)'
<1>0. 1 \in 1..MaxTokens /\ 0 \in 0..MaxTokens /\ refresh \in 0..MaxTokens /\ 1 \in 0..MaxTokens
  BY BoundsAssumption
<1>1. /\ issued[l].access = 0 /\ issued' = [issued EXCEPT ![l] = [access |-> 1, refresh |-> refresh]]
      /\ UNCHANGED <<revoked, rotates, aged>>
  BY DEF H!Approves, H!NoTokens
<1>2. IssuedType' /\ issued'[l] = [access |-> 1, refresh |-> refresh]
      /\ \A f \in H!Families : f # l => issued'[f] = issued[f]
  BY <1>0, <1>1 DEF IssuedType
<1>3. \A f \in H!Families : issued'[f].refresh <= issued'[f].access
  BY <1>2 DEF TokenInv, TokensFit
<1>4. ASSUME NEW c \in H!Credentials, Within(c) PROVE c.family # l /\ Within(c)'
  <2>1. c.family # l
    BY <1>1, <1>4, CredentialsAreUsable, BoundsAssumption DEF Within
  <2> QED BY <2>1, <1>1, <1>2, <1>4, CredentialsAreUsable DEF Within
<1> QED BY <1>1, <1>2, <1>3, <1>4

LEMMA ApproveStep ==
  ASSUME VaultType, IssuedType, CallType, TokenInv, NEW o \in Ops, NEW l \in H!Families, NEW refresh \in {0, 1},
         H!Approves(l, refresh), ~Busy(o), CallMoves(o),
         \/ call'[o].at \notin {"save", "exchange"}
         \/ call'[o].at = "save" /\ call'[o].cred = [family |-> l, access |-> 1, refresh |-> refresh],
         UNCHANGED <<keyring, secretFile, mishap>>
  PROVE  IssuedType' /\ TokenInv'
<1>1. /\ IssuedType' /\ UNCHANGED <<revoked, rotates>>
      /\ issued'[l].access = 1 /\ issued'[l].refresh = refresh
      /\ \A f \in H!Families : f # l => issued'[f] = issued[f]
      /\ \A f \in H!Families : issued'[f].refresh <= issued'[f].access
      /\ \A c \in H!Credentials : Within(c) => c.family # l /\ Within(c)'
  BY ApprovedTokens
<1>2. Vaulted' = Vaulted /\ Vaulted \subseteq H!Credentials
  BY DEF Vaulted
<1>3. \A p \in Ops : p # o => call'[p] = call[p]
  BY DEF CallMoves
<1>4. \A p \in Ops \ {o} : Busy(p)' => /\ call'[p] = call[p] /\ Busy(p) /\ call[p].cred \in H!Credentials
                                       /\ Within(call[p].cred) /\ call[p].cred.family # l
  BY <1>1, <1>3 DEF Busy, TokenInv, TokensFit
<1>5. Busy(o)' => /\ call'[o].at = "save" /\ call'[o].cred \in H!Credentials /\ call'[o].cred.family = l
                  /\ call'[o].cred.access = 1 /\ call'[o].cred.refresh = refresh /\ Within(call[o].cred)'
  <2>1. 1 \in 1..MaxTokens /\ refresh \in 0..MaxTokens
    BY BoundsAssumption
  <2> SUFFICES ASSUME Busy(o)'
               PROVE  /\ call'[o].at = "save" /\ call'[o].cred \in H!Credentials /\ call'[o].cred.family = l
                      /\ call'[o].cred.access = 1 /\ call'[o].cred.refresh = refresh /\ Within(call[o].cred)'
    OBVIOUS
  <2>2. call'[o].at = "save" /\ call'[o].cred = [family |-> l, access |-> 1, refresh |-> refresh]
    BY DEF Busy
  <2>3. [family |-> l, access |-> 1, refresh |-> refresh] \in H!Credentials
    BY <2>1 DEF H!Credentials
  <2>4. Within(call[o].cred)'
    BY <2>2, <1>1 DEF Within
  <2> QED BY <2>2, <2>3, <2>4
<1>6. \A v \in Vaulted : v.family # l /\ v.family \in H!Families
  BY <1>1, <1>2, CredentialsAreUsable DEF TokenInv, TokensFit
<1>7. TokensFit'
  <2>1. ASSUME NEW p \in Ops, Busy(p)' PROVE (call[p].cred \in H!Credentials /\ Within(call[p].cred))'
    <3>1. CASE p = o
      BY <3>1, <2>1, <1>5
    <3>2. CASE p # o
      BY <3>2, <2>1, <1>1, <1>4
    <3> QED BY <3>1, <3>2
  <2>2. \A c \in Vaulted' : Within(c)'
    BY <1>1, <1>2 DEF TokenInv, TokensFit
  <2> QED BY <2>1, <2>2, <1>1 DEF TokensFit
<1>8. ASSUME rotates, NEW p \in Ops, call'[p].at = "save" PROVE SavesNewest(p)'
  <2>1. CASE p = o
    BY <2>1, <1>1, <1>2, <1>4, <1>5, <1>6, <1>8 DEF SavesNewest, Busy
  <2>2. CASE p # o
    <3>1. call'[p] = call[p] /\ SavesNewest(p) /\ call[p].cred.family # l /\ call[p].cred.family \in H!Families
      BY <2>2, <1>4, <1>8, CredentialsAreUsable DEF TokenInv, SavesFit, Busy
    <3>2. issued'[call[p].cred.family] = issued[call[p].cred.family]
      BY <3>1, <1>1
    <3>3. ASSUME NEW q \in Ops \ {p}, Busy(q)', call'[q].cred.family = call[p].cred.family
          PROVE  call'[q].at = "exchange" /\ call'[q].cred.refresh # call[p].cred.refresh
      <4>1. q # o
        BY <3>1, <3>3, <1>5
      <4> QED BY <4>1, <3>1, <3>3, <1>4 DEF SavesNewest
    <3> QED BY <3>1, <3>2, <3>3, <1>2 DEF SavesNewest
  <2> QED BY <2>1, <2>2
<1>9. ASSUME mishap' = {}, NEW v \in Vaulted, v.family \notin revoked PROVE KeptOrSaved(v)'
  <2>1. KeptOrSaved(v) /\ issued'[v.family] = issued[v.family]
    BY <1>1, <1>6, <1>9 DEF TokenInv, Kept
  <2>2. \A p \in Ops : call[p].at = "save" => call'[p] = call[p]
    BY <1>3 DEF Busy
  <2> QED BY <2>1, <2>2 DEF KeptOrSaved, Newest
<1>10. SavesFit' /\ Kept'
  BY <1>1, <1>2, <1>8, <1>9 DEF SavesFit, Kept
<1> QED BY <1>1, <1>7, <1>10 DEF TokenInv

-----------------------------------------------------------------------------
(* The steps of the adapter of Hugging Face.                               *)

\* What a step leaves that has to do with neither the calls nor the registry.
Rest ==
  /\ Shrinks /\ EnvType' /\ LoginsStay /\ HistoryType' /\ IssuedType'
  /\ UNCHANGED <<issued, rotates>> /\ revoked \subseteq revoked'

LEMMA NothingElse ==
  AccountsInv /\ UNCHANGED <<H!vault, env, login, H!server, mishap, restarts>> => Rest
<1> SUFFICES ASSUME AccountsInv, UNCHANGED <<H!vault, env, login, H!server, mishap, restarts>> PROVE Rest
  OBVIOUS
<1>1. Shrinks
  BY VaultUnchanged DEF AccountsInv, AccountsType
<1>2. LoginsStay
  BY LoginsUnchanged DEF AccountsInv, AccountsType
<1>3. UNCHANGED <<issued, revoked, rotates, aged>>
  BY DEF H!server
<1> QED BY <1>1, <1>2, <1>3 DEF AccountsInv, AccountsType, EnvType, HistoryType, IssuedType, Rest

LEMMA QuietlyOn ==
  ASSUME AccountsInv, CallType', \A o \in Ops : Quiet(o) /\ (call'[o].at = "redeem" => call[o].at = "redeem"),
         RegistryType', Rest
  PROVE  AccountsInv' /\ DeadStay
<1>1. TokenInv'
  BY QuietStep DEF AccountsInv, Rest
<1> QED BY <1>1 DEF AccountsInv, AccountsType, Rest, Shrinks, LoginsStay, DeadStay

LEMMA CallsUnchanged ==
  ASSUME AccountsInv, UNCHANGED call, RegistryType', Rest
  PROVE  AccountsInv' /\ DeadStay
<1>1. CallType'
  BY DEF AccountsInv, AccountsType, CallType
<1> QED BY <1>1, QuietlyOn DEF Quiet

LEMMA CallQuietly ==
  ASSUME AccountsInv, NEW o \in Ops, CallMoves(o), call[o].at # "save",
         \/ call'[o].at \notin {"save", "exchange", "redeem"}
         \/ call'[o].at = "exchange" /\ call'[o].cred \in Vaulted,
         RegistryType', Rest
  PROVE  AccountsInv' /\ DeadStay
<1>1. \A p \in Ops : Quiet(p) /\ (call'[p].at = "redeem" => call[p].at = "redeem")
  BY DEF CallMoves, Quiet
<1> QED BY <1>1, QuietlyOn DEF CallMoves

\* What a call does once its credential is good, or was not to be had.
LEMMA Discovers ==
  ASSUME CallType, NEW o \in Ops, NEW c \in H!Credentials \cup {H!Nothing, H!Broken}, H!DiscoverModels(o, c)
  PROVE  CallMoves(o) /\ call'[o].at \in {"sync", "done"}
  BY CallGoesWith, CallSays DEF H!DiscoverModels, H!Stages

LEMMA AfterRefreshed ==
  ASSUME CallType, RegistryType, NEW o \in Ops, NEW ok \in BOOLEAN, H!AfterRefresh(o, ok)
  PROVE  CallMoves(o) /\ call'[o].at \in {"sync", "done"} /\ RegistryType'
<1>1. CASE \E state : H!Says(o, state) /\ (H!Look \/ UNCHANGED H!registryVars)
  BY <1>1, CallSays, Looked, RegistryUnchanged
<1>2. CASE H!Goes(o, "sync") /\ UNCHANGED H!registryVars
  BY <1>2, CallGoes, RegistryUnchanged DEF H!Stages
<1>3. CASE H!DiscoverModels(o, call[o].cred) /\ UNCHANGED H!registryVars
  <2>1. call[o].cred \in H!Credentials \cup {H!Nothing, H!Broken}
    BY DEF CallType, CallState
  <2> QED BY <1>3, <2>1, Discovers, RegistryUnchanged
<1> QED BY <1>1, <1>2, <1>3 DEF H!AfterRefresh

LEMMA AfterSynced ==
  ASSUME CallType, NEW o \in Ops, NEW ok \in BOOLEAN, H!AfterSync(o, ok)
  PROVE  CallMoves(o) /\ call'[o].at \in {"mark", "undo", "done"}
  BY CallGoes, CallSays DEF H!AfterSync, H!Stages

-----------------------------------------------------------------------------
LEMMA EnvChanges ==
  ASSUME EnvType, H!Trouble \/ H!Recovery
  PROVE  EnvType' /\ UNCHANGED <<H!vault, H!registryVars>>
<1>0. /\ env.locked \in BOOLEAN /\ env.full \in BOOLEAN /\ env.faults \in 0..MaxFaults /\ env.writes \in 0..MaxWrites
      /\ env = [locked |-> env.locked, full |-> env.full, faults |-> env.faults, writes |-> env.writes]
      /\ MaxFaults \in Nat
  BY BoundsAssumption DEF EnvType
<1>1. CASE H!Recovery
  BY <1>0, <1>1 DEF H!Recovery, EnvType
<1>2. CASE H!Trouble
  <2>1. env.faults + 1 \in 0..MaxFaults
    BY <1>0, <1>2 DEF H!Trouble
  <2>2. env' \in [locked : BOOLEAN, full : BOOLEAN, faults : 0..MaxFaults, writes : 0..MaxWrites]
    BY <1>0, <1>2, <2>1 DEF H!Trouble, EnvType
  <2> QED BY <1>2, <2>2 DEF H!Trouble, EnvType
<1> QED BY <1>1, <1>2

LEMMA SurroundingsStep ==
  ASSUME AccountsInv, H!Surroundings
  PROVE  AccountsInv' /\ DeadStay
<1>1. CASE (H!Trouble \/ H!Recovery) /\ UNCHANGED H!accounts
  <2>1. EnvType' /\ UNCHANGED <<H!vault, H!registryVars>>
    BY <1>1, EnvChanges DEF AccountsInv, AccountsType
  <2>2. UNCHANGED <<login, call, H!server, mishap, restarts>>
    BY <1>1 DEF H!accounts, H!server
  <2>3. RegistryType'
    BY <2>1, RegistryUnchanged DEF AccountsInv, AccountsType
  <2>4. Rest
    BY <2>1, <2>2, VaultUnchanged, LoginsUnchanged
       DEF AccountsInv, AccountsType, Rest, HistoryType, IssuedType, H!server
  <2> QED BY <2>2, <2>3, <2>4, CallsUnchanged
<1>2. CASE \E f \in H!Families : H!TokensAge(f)
  <2>1. /\ UNCHANGED <<H!vault, H!registryVars, env, login, call, issued, revoked, rotates, mishap, restarts>>
        /\ IssuedType'
    BY <1>2 DEF AccountsInv, AccountsType, IssuedType, H!TokensAge, H!store
  <2>2. RegistryType'
    BY <2>1, RegistryUnchanged DEF AccountsInv, AccountsType
  <2>3. Rest
    BY <2>1, VaultUnchanged, LoginsUnchanged DEF AccountsInv, AccountsType, Rest, HistoryType, EnvType
  <2> QED BY <2>1, <2>2, <2>3, CallsUnchanged
<1> QED BY <1>1, <1>2 DEF H!Surroundings

\* The program starts again: what was about to be saved is lost, and nobody knows a login.
LEMMA RestartStep ==
  ASSUME AccountsInv, H!Restart
  PROVE  AccountsInv' /\ DeadStay
<1>1. CallType' /\ \A o \in Ops : Quiet(o) /\ call'[o].at # "redeem"
  <2>1. \A o \in Ops : call'[o] = IF call[o].at = "idle" THEN H!Idle ELSE H!Over("failed")
    BY DEF H!Restart
  <2>2. call' \in [Ops -> CallState]
    BY <2>1, CallIsTyped, OverIsTyped DEF H!Restart
  <2>3. (\E o \in Ops : call[o].at = "save") => mishap' # {}
    BY DEF H!Restart
  <2> QED BY <2>1, <2>2, <2>3, CallIsTyped, OverIsTyped DEF CallType, Quiet
<1>2. RegistryType'
  BY DEF H!Restart, AccountsInv, AccountsType, RegistryType, Book, H!NoDefinitions, H!Definitions
<1>3. LoginsStay
  BY DEF H!Restart, LoginsStay, LoginType, LoginState, LoginsFit, H!NewLogin
<1>4. UNCHANGED <<H!vault, env, issued, revoked, rotates, aged>>
  BY DEF H!Restart, H!server
<1>5. HistoryType' /\ mishap \subseteq mishap'
  BY BoundsAssumption DEF H!Restart, AccountsInv, AccountsType, HistoryType
<1>6. Shrinks
  BY <1>4, <1>5 DEF H!vault, AccountsInv, AccountsType, VaultType, Shrinks
<1>7. Rest
  BY <1>3, <1>4, <1>5, <1>6 DEF AccountsInv, AccountsType, EnvType, IssuedType, Rest
<1> QED BY <1>1, <1>2, <1>7, QuietlyOn

\* The steps of a login that no call takes.
LEMMA OfLogin ==
  ASSUME AccountsInv, LoginsStay, UNCHANGED <<H!store, call, H!server, mishap, restarts>>
  PROVE  AccountsInv' /\ DeadStay
<1>1. UNCHANGED <<H!vault, H!registryVars, env, issued, revoked, rotates, aged>>
  BY DEF H!store, H!server
<1>2. RegistryType'
  BY <1>1, RegistryUnchanged DEF AccountsInv, AccountsType
<1>3. Rest
  BY <1>1, VaultUnchanged DEF AccountsInv, AccountsType, Rest, HistoryType, EnvType, IssuedType
<1> QED BY <1>2, <1>3, CallsUnchanged

LEMMA LoginStep ==
  ASSUME AccountsInv, NEW l \in Logins, H!BeginLogin(l) \/ H!CancelLogin(l) \/ H!Expire(l)
  PROVE  AccountsInv' /\ DeadStay
<1>1. LoginsStay
  BY LoginBegins, LoginCancelled, LoginExpired
     DEF AccountsInv, AccountsType, H!BeginLogin, H!CancelLogin, H!Expire
<1> QED BY <1>1, OfLogin DEF H!BeginLogin, H!CancelLogin, H!Expire

\* The steps of a call that has to do with neither the vault nor the server.
LEMMA OfCall ==
  ASSUME AccountsInv, NEW o \in Ops, CallMoves(o), call[o].at # "save",
         \/ call'[o].at \notin {"save", "exchange", "redeem"}
         \/ call'[o].at = "exchange" /\ call'[o].cred \in Vaulted,
         RegistryType', LoginsStay, UNCHANGED <<H!vault, env, H!server, mishap, restarts>>
  PROVE  AccountsInv' /\ DeadStay
<1>1. UNCHANGED <<issued, revoked, rotates, aged>>
  BY DEF H!server
<1>2. Rest
  BY <1>1, VaultUnchanged DEF AccountsInv, AccountsType, Rest, HistoryType, EnvType, IssuedType
<1> QED BY <1>2, CallQuietly

LEMMA CompleteLoginStep ==
  ASSUME AccountsInv, NEW o \in Ops, NEW l \in Logins, H!CompleteLogin(o, l)
  PROVE  AccountsInv' /\ DeadStay
<1>0. LoginType /\ LoginsFit /\ CallType /\ RegistryType
  BY DEF AccountsInv, AccountsType
<1>1. UNCHANGED <<H!vault, H!registryVars, env, H!server, mishap, restarts>> /\ RegistryType'
  BY <1>0, RegistryUnchanged DEF H!CompleteLogin, H!store
<1>2. CASE H!SetLoginError(l) /\ H!Refuses(o)
  BY <1>0, <1>1, <1>2, LoginError, CallSays, OfCall DEF H!Refuses
<1>3. CASE ~login[l].expired /\ UNCHANGED login /\ H!Begins(o, "login", l, "redeem", "")
  <2>1. CallMoves(o) /\ call'[o].at = "redeem" /\ call'[o].login = l /\ call[o].at = "idle"
    BY <1>0, <1>3, CallBegins DEF H!Whats, H!Stages, H!Families
  <2>2. \A p \in Ops : Quiet(p)
    BY <2>1 DEF Quiet, CallMoves
  <2>3. Rest
    BY <1>1, <1>3, NothingElse
  <2>4. TokenInv'
    BY <2>1, <2>2, <2>3, QuietStep DEF CallMoves, AccountsInv, Rest
  <2>5. DeadStay
    BY <1>0, <1>3, <2>1 DEF H!CompleteLogin, LoginsFit, CallMoves, DeadStay
  <2> QED BY <1>1, <2>1, <2>3, <2>4, <2>5 DEF CallMoves, AccountsInv, AccountsType, Rest, Shrinks, LoginsStay
<1> QED BY <1>2, <1>3 DEF H!CompleteLogin

LEMMA PollLoginStep ==
  ASSUME AccountsInv, NEW o \in Ops, NEW l \in Logins, H!PollLogin(o, l)
  PROVE  AccountsInv' /\ DeadStay
<1>0. LoginType /\ LoginsFit /\ CallType /\ RegistryType
  BY DEF AccountsInv, AccountsType
<1>1. UNCHANGED <<H!vault, H!registryVars, env, login, H!server, mishap, restarts>> /\ RegistryType'
  BY <1>0, RegistryUnchanged DEF H!PollLogin, H!store
<1>2. CallMoves(o) /\ call'[o].at \in {"load", "done"} /\ call[o].at = "idle"
  <2>1. CASE H!Refuses(o)
    BY <1>0, <2>1, CallSays DEF H!Refuses
  <2>2. CASE \E saw \in {"error", "completed", "open"} : H!Calls(o, "poll", l, saw)
    <3>1. PICK saw \in {"error", "completed", "open"} : H!Begins(o, "poll", l, "load", saw)
      BY <2>2 DEF H!Calls
    <3>2. "poll" \in H!Whats /\ l \in H!Families /\ "load" \in H!Stages
      BY DEF H!Whats, H!Stages, H!Families
    <3>3. saw \in {"", "error", "completed", "open"}
      OBVIOUS
    <3> QED BY <1>0, <3>1, <3>2, <3>3, CallBegins, ZenonT(60)
  <2> QED BY <2>1, <2>2 DEF H!PollLogin
<1> QED BY <1>0, <1>1, <1>2, LoginsUnchanged, OfCall

LEMMA RequestsStep ==
  ASSUME AccountsInv, NEW o \in Ops, H!Requests(o, {"status", "refresh", "resolve", "discover", "disconnect"})
  PROVE  AccountsInv' /\ DeadStay
<1>0. LoginType /\ LoginsFit /\ CallType /\ RegistryType
  BY DEF AccountsInv, AccountsType
<1>1. UNCHANGED <<H!vault, H!registryVars, env, login, H!server, mishap, restarts>> /\ RegistryType'
  BY <1>0, RegistryUnchanged DEF H!Requests, H!store
<1>2. CallMoves(o) /\ call'[o].at = "load" /\ call[o].at = "idle"
  <2>1. PICK what \in {"status", "refresh", "resolve", "discover", "disconnect"} : H!Begins(o, what, "First", "load", "")
    BY DEF H!Requests, H!Calls
  <2>2. what \in H!Whats /\ "First" \in H!Families /\ "load" \in H!Stages
    BY DEF H!Whats, H!Stages, H!Families
  <2> QED BY <1>0, <2>1, <2>2, CallBegins
<1> QED BY <1>0, <1>1, <1>2, LoginsUnchanged, OfCall

-----------------------------------------------------------------------------
(* The calls of a login.                                                   *)

\* A code that was exchanged, of whatever adapter: the call gives up or goes to save.
LEMMA ApprovedQuietly ==
  ASSUME AccountsInv, NEW o \in Ops, call[o].at = "redeem", NEW refresh \in {0, 1},
         H!Approves(call[o].login, refresh),
         \/ H!Says(o, "failed")
         \/ H!GoesWith(o, "save", [family |-> call[o].login, access |-> 1, refresh |-> refresh]),
         RegistryType', LoginsStay, UNCHANGED <<H!vault, env, mishap, restarts>>
  PROVE  AccountsInv' /\ DeadStay
<1> DEFINE l == call[o].login
           c == [family |-> l, access |-> 1, refresh |-> refresh]
<1>0. VaultType /\ CallType /\ IssuedType /\ TokenInv /\ l \in H!Families
  BY DEF AccountsInv, AccountsType, CallType, CallState
<1>1. c \in H!Credentials /\ "save" \in H!Stages
  BY <1>0, BoundsAssumption DEF H!Credentials, H!Stages
<1>2. CallMoves(o) /\ \/ call'[o].at \notin {"save", "exchange", "redeem"}
                      \/ call'[o].at = "save" /\ call'[o].cred = c
  <2> HIDE DEF l
  <2> QED BY <1>0, <1>1, CallSays, CallGoesWith DEF l
<1>3. IssuedType' /\ TokenInv'
  BY <1>0, <1>2, ApproveStep DEF Busy, H!vault
<1>4. DeadStay
  BY <1>2 DEF CallMoves, DeadStay
<1> QED BY <1>2, <1>3, <1>4
        DEF AccountsInv, AccountsType, VaultType, EnvType, HistoryType, CallMoves, LoginsStay, H!vault

LEMMA ExchangeCodeStep ==
  ASSUME AccountsInv, NEW o \in Ops, H!ExchangeAuthorizationCode(o)
  PROVE  AccountsInv' /\ DeadStay
<1>0. LoginType /\ LoginsFit /\ CallType /\ RegistryType /\ call[o].at = "redeem"
  BY DEF AccountsInv, AccountsType, H!ExchangeAuthorizationCode, H!At
<1>1. UNCHANGED <<H!vault, H!registryVars, env, mishap, restarts>> /\ RegistryType'
  BY <1>0, RegistryUnchanged DEF H!ExchangeAuthorizationCode, H!store
<1>2. LoginsStay
  BY <1>0, LoginError, LoginsUnchanged DEF H!ExchangeAuthorizationCode
<1>3. CASE H!Says(o, "failed") /\ UNCHANGED H!server
  BY <1>0, <1>1, <1>2, <1>3, CallSays, OfCall
<1>4. CASE \E refresh \in {0, 1} :
             /\ H!Approves(call[o].login, refresh)
             /\ \/ H!Says(o, "failed")
                \/ H!GoesWith(o, "save", [family |-> call[o].login, access |-> 1, refresh |-> refresh])
  BY <1>0, <1>1, <1>2, <1>4, ApprovedQuietly
<1> QED BY <1>3, <1>4 DEF H!ExchangeAuthorizationCode

\* A step that saves, of whatever adapter.
LEMMA SavesQuietly ==
  ASSUME AccountsInv, NEW o \in Ops, call[o].at = "save", NEW ok \in BOOLEAN, H!PutAccount(o, ok),
         CallMoves(o), call'[o].at \notin {"save", "exchange", "redeem"}, RegistryType', LoginsStay,
         UNCHANGED <<env, H!server, restarts>>
  PROVE  AccountsInv' /\ DeadStay
<1>1. UNCHANGED <<issued, revoked, rotates, aged>>
  BY DEF H!server
<1>2. call[o].cred \in H!Credentials
  BY DEF AccountsInv, TokenInv, TokensFit, Busy
<1>3. VaultType' /\ mishap' \subseteq {"unsaved", "stale"}
  BY <1>2, AccountPut DEF AccountsInv, AccountsType
<1>4. TokenInv'
  BY <1>1, SaveStep DEF AccountsInv, AccountsType
<1>5. DeadStay
  BY DEF CallMoves, DeadStay
<1> QED BY <1>1, <1>3, <1>4, <1>5 DEF AccountsInv, AccountsType, EnvType, IssuedType, HistoryType, CallMoves, LoginsStay

LEMMA SaveCredentialStep ==
  ASSUME AccountsInv, NEW o \in Ops, H!SaveCredential(o)
  PROVE  AccountsInv' /\ DeadStay
<1>0. LoginType /\ LoginsFit /\ CallType /\ RegistryType /\ call[o].at = "save"
      /\ UNCHANGED <<env, H!server, restarts>>
  BY DEF AccountsInv, AccountsType, H!SaveCredential
<1>1. PICK ok \in BOOLEAN :
       /\ H!PutAccount(o, ok)
       /\ \/ /\ call[o].what = "login" /\ UNCHANGED H!registryVars
             /\ IF ok THEN H!Goes(o, "sync") /\ UNCHANGED login
                      ELSE H!Says(o, "failed") /\ H!SetLoginError(call[o].login)
          \/ call[o].what # "login" /\ H!AfterRefresh(o, ok) /\ UNCHANGED login
  BY DEF H!SaveCredential
<1>2. CallMoves(o) /\ call'[o].at \in {"sync", "done"} /\ RegistryType'
  BY <1>0, <1>1, CallGoes, CallSays, AfterRefreshed, RegistryUnchanged DEF H!Stages
<1>3. LoginsStay
  BY <1>0, <1>1, LoginError, LoginsUnchanged
<1> QED BY <1>0, <1>1, <1>2, <1>3, SavesQuietly

LEMMA SyncProviderStep ==
  ASSUME AccountsInv, NEW o \in Ops, H!SyncProvider(o)
  PROVE  AccountsInv' /\ DeadStay
<1>0. LoginType /\ LoginsFit /\ CallType /\ RegistryType /\ call[o].at = "sync"
      /\ UNCHANGED <<H!vault, env, login, H!server, mishap, restarts>>
  BY DEF AccountsInv, AccountsType, H!SyncProvider
<1>1. RegistryType' /\ CallMoves(o) /\ call'[o].at \in {"mark", "undo", "done"}
  BY <1>0, AfterSynced, DefinitionPut, RegistryUnchanged DEF H!SyncProvider, H!Definitions
<1> QED BY <1>0, <1>1, LoginsUnchanged, OfCall

\* A step that deletes the credential, of whatever adapter.
LEMMA DeletesQuietly ==
  ASSUME AccountsInv, NEW o \in Ops, call[o].at # "save", NEW ok, H!DeleteAccount(ok),
         CallMoves(o), call'[o].at \notin {"save", "exchange", "redeem"}, RegistryType', LoginsStay,
         UNCHANGED <<env, H!server, restarts>>
  PROVE  AccountsInv' /\ DeadStay
<1>1. UNCHANGED <<issued, revoked, rotates, aged>>
  BY DEF H!server
<1>2. Shrinks /\ mishap' \subseteq {"unsaved", "stale"}
  BY AccountDeleted DEF AccountsInv, AccountsType
<1>3. Rest
  BY <1>1, <1>2 DEF AccountsInv, AccountsType, EnvType, IssuedType, HistoryType, Rest
<1> QED BY <1>3, CallQuietly

LEMMA UndoLoginStep ==
  ASSUME AccountsInv, NEW o \in Ops, H!UndoLogin(o)
  PROVE  AccountsInv' /\ DeadStay
<1>0. /\ LoginType /\ LoginsFit /\ CallType /\ RegistryType /\ call[o].at = "undo"
      /\ UNCHANGED <<H!registryVars, env, H!server, restarts>>
  BY DEF AccountsInv, AccountsType, H!UndoLogin, H!At
<1>1. CallMoves(o) /\ call'[o].at = "done" /\ LoginsStay /\ RegistryType'
  BY <1>0, CallSays, LoginError, RegistryUnchanged DEF H!UndoLogin
<1> QED BY <1>0, <1>1, DeletesQuietly DEF H!UndoLogin

LEMMA FinishLoginStep ==
  ASSUME AccountsInv, NEW o \in Ops, H!FinishLogin(o)
  PROVE  AccountsInv' /\ DeadStay
<1>0. /\ LoginType /\ LoginsFit /\ CallType /\ RegistryType /\ call[o].at = "mark"
      /\ UNCHANGED <<H!vault, H!registryVars, env, H!server, mishap, restarts>>
  BY DEF AccountsInv, AccountsType, H!FinishLogin, H!At, H!store
<1>1. CallMoves(o) /\ call'[o].at = "done" /\ LoginsStay /\ RegistryType'
  BY <1>0, CallSays, LoginFinished, RegistryUnchanged DEF H!FinishLogin
<1> QED BY <1>0, <1>1, OfCall

-----------------------------------------------------------------------------
(* The calls that use the credential.                                      *)

\* A credential of the vault goes to be exchanged.
LEMMA GoesToExchange ==
  ASSUME VaultType, CallType, NEW o \in Ops, H!Usable(H!LoadCredential),
         H!GoesWith(o, "exchange", H!LoadCredential)
  PROVE  CallMoves(o) /\ call'[o].at = "exchange" /\ call'[o].cred \in Vaulted
<1>1. "exchange" \in H!Stages
  BY DEF H!Stages
<1> QED BY <1>1, LoadedCredential, CallGoesWith

LEMMA StatusStep ==
  ASSUME AccountsInv, NEW o \in Ops, H!Status(o)
  PROVE  AccountsInv' /\ DeadStay
<1>0. /\ VaultType /\ LoginType /\ LoginsFit /\ CallType /\ RegistryType /\ call[o].at = "load"
      /\ UNCHANGED <<H!vault, env, login, H!server, mishap, restarts>>
  BY DEF AccountsInv, AccountsType, H!Status
<1>1. CASE \E state : H!Says(o, state) /\ (H!Look \/ UNCHANGED H!registryVars)
  BY <1>0, <1>1, CallSays, Looked, RegistryUnchanged, LoginsUnchanged, OfCall
<1>2. CASE /\ H!Usable(H!LoadCredential) /\ H!GoesWith(o, "exchange", H!LoadCredential)
           /\ UNCHANGED H!registryVars
  BY <1>0, <1>2, GoesToExchange, RegistryUnchanged, LoginsUnchanged, OfCall
<1> QED BY <1>1, <1>2 DEF H!Status

LEMMA RefreshStep ==
  ASSUME AccountsInv, NEW o \in Ops, H!Refresh(o)
  PROVE  AccountsInv' /\ DeadStay
<1>0. /\ VaultType /\ LoginType /\ LoginsFit /\ CallType /\ RegistryType /\ call[o].at = "load"
      /\ UNCHANGED <<H!vault, env, login, H!server, mishap, restarts>>
  BY DEF AccountsInv, AccountsType, H!Refresh, H!At
<1>1. CASE \E state : H!Says(o, state) /\ (H!Look \/ UNCHANGED H!registryVars)
  BY <1>0, <1>1, CallSays, Looked, RegistryUnchanged, LoginsUnchanged, OfCall
<1>2. CASE /\ H!Usable(H!LoadCredential) /\ H!GoesWith(o, "exchange", H!LoadCredential)
           /\ UNCHANGED H!registryVars
  BY <1>0, <1>2, GoesToExchange, RegistryUnchanged, LoginsUnchanged, OfCall
<1> QED BY <1>1, <1>2 DEF H!Refresh

LEMMA ResolveCredentialStep ==
  ASSUME AccountsInv, NEW o \in Ops, H!ResolveCredential(o)
  PROVE  AccountsInv' /\ DeadStay
<1>0. /\ VaultType /\ LoginType /\ LoginsFit /\ CallType /\ RegistryType /\ call[o].at = "load"
      /\ UNCHANGED <<H!vault, H!registryVars, env, login, H!server, mishap, restarts>>
  BY DEF AccountsInv, AccountsType, H!ResolveCredential, H!store
<1>1. RegistryType' /\ LoginsStay
  BY <1>0, RegistryUnchanged, LoginsUnchanged
<1>2. CASE H!Says(o, "failed")
  BY <1>0, <1>1, <1>2, CallSays, OfCall
<1>3. CASE H!Usable(H!LoadCredential) /\ H!GoesWith(o, "exchange", H!LoadCredential)
  BY <1>0, <1>1, <1>3, GoesToExchange, OfCall
<1>4. CASE H!DiscoverModels(o, H!LoadCredential)
  BY <1>0, <1>1, <1>4, LoadedCredential, Discovers, OfCall
<1> QED BY <1>2, <1>3, <1>4 DEF H!ResolveCredential

LEMMA RefreshCredentialStep ==
  ASSUME AccountsInv, NEW o \in Ops, H!RefreshCredential(o)
  PROVE  AccountsInv' /\ DeadStay
<1> DEFINE c == call[o].cred
<1>0. /\ VaultType /\ LoginType /\ LoginsFit /\ CallType /\ RegistryType /\ IssuedType /\ TokenInv
      /\ HistoryType /\ EnvType /\ call[o].at = "exchange" /\ c \in H!Credentials /\ Within(c)
      /\ UNCHANGED <<H!vault, env, login, restarts>> /\ LoginsStay
  BY LoginsUnchanged DEF AccountsInv, AccountsType, TokenInv, TokensFit, Busy, H!RefreshCredential
<1>1. ASSUME H!Renews(c), UNCHANGED <<H!registryVars, mishap>>,
             H!GoesWith(o, "save", [c EXCEPT !.access = issued'[c.family].access,
                                             !.refresh = issued'[c.family].refresh])
      PROVE  AccountsInv' /\ DeadStay
  <2>1. PICK n : n = [c EXCEPT !.access = issued'[c.family].access, !.refresh = issued'[c.family].refresh]
    OBVIOUS
  <2>2. n \in H!Credentials
    BY <1>0, <1>1, <2>1, RenewedTokens DEF H!Credentials
  <2>3. call' = [call EXCEPT ![o].at = "save", ![o].cred = n]
    BY <1>1, <2>1 DEF H!GoesWith
  <2>4. CallMoves(o) /\ call'[o].at = "save" /\ call'[o].cred = n
    <3>1. H!GoesWith(o, "save", n) /\ "save" \in H!Stages
      BY <2>3 DEF H!GoesWith, H!Stages
    <3> QED BY <1>0, <2>2, <3>1, CallGoesWith
  <2>5. IssuedType' /\ TokenInv'
    BY <1>0, <1>1, <2>1, <2>4, RenewStep DEF H!vault
  <2>6. RegistryType'
    BY <1>0, <1>1, RegistryUnchanged
  <2>7. DeadStay
    BY <2>4 DEF CallMoves, DeadStay
  <2> QED BY <1>0, <1>1, <2>4, <2>5, <2>6, <2>7
          DEF AccountsInv, AccountsType, VaultType, EnvType, HistoryType, CallMoves, LoginsStay, H!vault
<1>2. ASSUME H!Renews(c), H!AfterRefresh(o, FALSE), mishap' = mishap \cup {"unsaved"}
      PROVE  AccountsInv' /\ DeadStay
  <2>1. CallMoves(o) /\ call'[o].at \in {"sync", "done"} /\ RegistryType'
    BY <1>0, <1>2, AfterRefreshed
  <2>2. IssuedType' /\ TokenInv'
    BY <1>0, <1>2, <2>1, LostStep DEF H!vault
  <2>3. DeadStay
    BY <2>1 DEF CallMoves, DeadStay
  <2> QED BY <1>0, <1>2, <2>1, <2>2, <2>3
          DEF AccountsInv, AccountsType, VaultType, EnvType, HistoryType, CallMoves, LoginsStay, H!vault
<1>3. CASE H!AfterRefresh(o, FALSE) /\ UNCHANGED <<H!server, mishap>>
  BY <1>0, <1>3, AfterRefreshed, OfCall
<1> QED BY <1>1, <1>2, <1>3 DEF H!RefreshCredential

LEMMA ForgetCredentialStep ==
  ASSUME AccountsInv, NEW o \in Ops, call[o].at # "save", H!Forget(o)
  PROVE  AccountsInv' /\ DeadStay
<1>0. /\ LoginType /\ LoginsFit /\ CallType /\ RegistryType
      /\ UNCHANGED <<H!registryVars, env, login, H!server, restarts>>
  BY DEF AccountsInv, AccountsType, H!Forget
<1>1. PICK ok \in BOOLEAN :
        H!DeleteAccount(ok) /\ IF ok THEN H!Goes(o, "remove") ELSE H!Says(o, "failed")
  BY DEF H!Forget
<1>2. CallMoves(o) /\ call'[o].at \in {"remove", "done"}
  BY <1>0, <1>1, CallGoes, CallSays DEF H!Stages
<1>3. RegistryType' /\ LoginsStay
  BY <1>0, RegistryUnchanged, LoginsUnchanged
<1> QED BY <1>0, <1>1, <1>2, <1>3, DeletesQuietly

LEMMA RemoveProviderStep ==
  ASSUME AccountsInv, NEW o \in Ops, H!RemoveProvider(o)
  PROVE  AccountsInv' /\ DeadStay
<1>0. /\ LoginType /\ LoginsFit /\ CallType /\ RegistryType /\ call[o].at = "remove"
      /\ UNCHANGED <<H!vault, env, login, H!server, mishap, restarts>>
  BY DEF AccountsInv, AccountsType, H!RemoveProvider, H!At
<1>1. CallMoves(o) /\ call'[o].at = "done" /\ RegistryType' /\ LoginsStay
  BY <1>0, CallSays, ManagedRemoved, LoginsUnchanged DEF H!RemoveProvider
<1> QED BY <1>0, <1>1, OfCall

LEMMA HuggingFaceStep ==
  ASSUME AccountsInv, H!Next
  PROVE  AccountsInv' /\ DeadStay
<1>1. ASSUME NEW o \in Ops, H!Disconnect(o) PROVE AccountsInv' /\ DeadStay
  BY <1>1, ForgetCredentialStep DEF H!Disconnect, H!At
<1> QED BY <1>1, SurroundingsStep, RestartStep, LoginStep, CompleteLoginStep, PollLoginStep, RequestsStep,
           ExchangeCodeStep, SaveCredentialStep, SyncProviderStep, UndoLoginStep, FinishLoginStep, StatusStep,
           RefreshStep, ResolveCredentialStep, RefreshCredentialStep, RemoveProviderStep DEF H!Next

-----------------------------------------------------------------------------
(* Google Gemini and OpenRouter build on the adapter of Hugging Face: the same
   operators under other names.                                            *)

LEMMA GeminiBuildsOn ==
  ASSUME NEW o, NEW l, NEW ok
  PROVE  /\ G!H!BeginLogin(l) <=> H!BeginLogin(l)
         /\ G!H!SetLoginError(l) <=> H!SetLoginError(l)
         /\ G!H!CompleteLogin(o, l) <=> H!CompleteLogin(o, l)
         /\ G!H!ExchangeAuthorizationCode(o) <=> H!ExchangeAuthorizationCode(o)
         /\ G!H!SaveCredential(o) <=> H!SaveCredential(o)
         /\ G!H!UndoLogin(o) <=> H!UndoLogin(o)
         /\ G!H!FinishLogin(o) <=> H!FinishLogin(o)
         /\ G!H!CancelLogin(l) <=> H!CancelLogin(l)
         /\ G!H!PollLogin(o, l) <=> H!PollLogin(o, l)
         /\ G!H!Status(o) <=> H!Status(o)
         /\ G!H!Refresh(o) <=> H!Refresh(o)
         /\ G!H!ResolveCredential(o) <=> H!ResolveCredential(o)
         /\ G!H!RefreshCredential(o) <=> H!RefreshCredential(o)
         /\ G!H!SyncProvider(o) <=> H!SyncProvider(o)
         /\ G!H!AfterRefresh(o, ok) <=> H!AfterRefresh(o, ok)
         /\ G!H!AfterSync(o, ok) <=> H!AfterSync(o, ok)
         /\ G!H!Forget(o) <=> H!Forget(o)
         /\ G!H!RemoveProvider(o) <=> H!RemoveProvider(o)
  BY DEF
    H!Accepts, G!H!Accepts, H!AfterRefresh, G!H!AfterRefresh, H!AfterSync, G!H!AfterSync, H!Approves, G!H!Approves,
    H!At, G!H!At, H!BeginLogin, G!H!BeginLogin, H!Begins, G!H!Begins, H!Broken, G!H!Broken, H!Calls, G!H!Calls,
    H!CancelLogin, G!H!CancelLogin, H!CompleteLogin, G!H!CompleteLogin, H!Delete, G!H!Delete, H!DeleteAccount,
    G!H!DeleteAccount, H!DiscoverModels, G!H!DiscoverModels, H!ExchangeAuthorizationCode,
    G!H!ExchangeAuthorizationCode, H!FinishLogin, G!H!FinishLogin, H!Forget, G!H!Forget, H!Get, G!H!Get, H!GetFile,
    G!H!GetFile, H!Goes, G!H!Goes, H!GoesWith, G!H!GoesWith, H!Idle, G!H!Idle, H!Ids, G!H!Ids, H!Keyring,
    G!H!Keyring, H!LoadCredential, G!H!LoadCredential, H!Loaded, G!H!Loaded, H!Look, G!H!Look, H!MasterKey,
    G!H!MasterKey, H!Mishap, G!H!Mishap, H!NeedsRefresh, G!H!NeedsRefresh, H!NoDefinitions, G!H!NoDefinitions,
    H!NoTokens, G!H!NoTokens, H!Nothing, G!H!Nothing, H!Over, G!H!Over, H!Persist, G!H!Persist, H!PollLogin,
    G!H!PollLogin, H!Put, G!H!Put, H!PutAccount, G!H!PutAccount, H!PutDefinition, G!H!PutDefinition, H!PutFile,
    G!H!PutFile, H!Readable, G!H!Readable, H!Refresh, G!H!Refresh, H!RefreshCredential, G!H!RefreshCredential,
    H!Refuses, G!H!Refuses, H!RemoveDefinition, G!H!RemoveDefinition, H!RemoveManaged, G!H!RemoveManaged,
    H!RemoveProvider, G!H!RemoveProvider, H!Renewed, G!H!Renewed, H!Renews, G!H!Renews, H!Replace, G!H!Replace,
    H!ResolveCredential, G!H!ResolveCredential, H!SaveCredential, G!H!SaveCredential, H!Says, G!H!Says,
    H!SetLoginError, G!H!SetLoginError, H!Shown, G!H!Shown, H!Status, G!H!Status, H!StatusFromCredential,
    G!H!StatusFromCredential, H!SyncProvider, G!H!SyncProvider, H!Torn, G!H!Torn, H!UndoLogin, G!H!UndoLogin,
    H!Usable, G!H!Usable, H!registryVars, G!H!registryVars, H!server, G!H!server, H!store, G!H!store, H!vault,
    G!H!vault

LEMMA GeminiSpeaks ==
  /\ \A o, state : G!Says(o, state) <=> H!Says(o, state)
  /\ \A o, at : G!Goes(o, at) <=> H!Goes(o, at)
  /\ \A o, at, c : G!GoesWith(o, at, c) <=> H!GoesWith(o, at, c)
  /\ \A o, whats : G!Requests(o, whats) <=> H!Requests(o, whats)
  /\ \A l : G!Expire(l) <=> H!Expire(l)
  /\ G!Restart <=> H!Restart
  /\ G!Look <=> H!Look
  /\ \A c : G!Usable(c) <=> H!Usable(c)
  /\ \A o, what, l, saw : G!Calls(o, what, l, saw) <=> H!Calls(o, what, l, saw)
  /\ \A o : G!Refuses(o) <=> H!Refuses(o)
  /\ G!Surroundings <=> H!Surroundings
  BY DEF
    H!Begins, G!Begins, H!Broken, G!Broken, H!Calls, G!Calls, H!Expire, G!Expire, H!Families, G!Families, H!Goes,
    G!Goes, H!GoesWith, G!GoesWith, H!Idle, G!Idle, H!Ids, G!Ids, H!Loaded, G!Loaded, H!Look, G!Look, H!NewLogin,
    G!NewLogin, H!NoDefinitions, G!NoDefinitions, H!Nothing, G!Nothing, H!Over, G!Over, H!Readable, G!Readable,
    H!Recovery, G!Recovery, H!Refuses, G!Refuses, H!Requests, G!Requests, H!Restart, G!Restart, H!Says, G!Says,
    H!Surroundings, G!Surroundings, H!TokensAge, G!TokensAge, H!Torn, G!Torn, H!Trouble, G!Trouble, H!Usable,
    G!Usable, H!accounts, G!accounts, H!registryVars, G!registryVars, H!server, G!server, H!store, G!store, H!vault,
    G!vault

LEMMA OpenRouterBuildsOn ==
  ASSUME NEW o, NEW l
  PROVE  /\ O!H!BeginLogin(l) <=> H!BeginLogin(l)
         /\ O!H!SetLoginError(l) <=> H!SetLoginError(l)
         /\ O!H!CompleteLogin(o, l) <=> H!CompleteLogin(o, l)
         /\ O!H!FinishLogin(o) <=> H!FinishLogin(o)
         /\ O!H!CancelLogin(l) <=> H!CancelLogin(l)
         /\ O!H!PollLogin(o, l) <=> H!PollLogin(o, l)
  BY DEF
    H!At, O!H!At, H!BeginLogin, O!H!BeginLogin, H!Begins, O!H!Begins, H!Calls, O!H!Calls, H!CancelLogin,
    O!H!CancelLogin, H!CompleteLogin, O!H!CompleteLogin, H!FinishLogin, O!H!FinishLogin, H!Idle, O!H!Idle, H!Nothing,
    O!H!Nothing, H!Over, O!H!Over, H!PollLogin, O!H!PollLogin, H!Refuses, O!H!Refuses, H!Says, O!H!Says,
    H!SetLoginError, O!H!SetLoginError, H!registryVars, O!H!registryVars, H!server, O!H!server, H!store, O!H!store,
    H!vault, O!H!vault

LEMMA OpenRouterSpeaks ==
  /\ \A o, state : O!Says(o, state) <=> H!Says(o, state)
  /\ \A o, at : O!Goes(o, at) <=> H!Goes(o, at)
  /\ \A o, at, c : O!GoesWith(o, at, c) <=> H!GoesWith(o, at, c)
  /\ \A o, whats : O!Requests(o, whats) <=> H!Requests(o, whats)
  /\ \A l : O!Expire(l) <=> H!Expire(l)
  /\ O!Restart <=> H!Restart
  /\ O!Look <=> H!Look
  /\ \A c : O!Usable(c) <=> H!Usable(c)
  /\ O!Trouble \/ O!Recovery <=> H!Trouble \/ H!Recovery
  /\ O!Get("account") = H!LoadCredential
  /\ \A l, refresh : O!Approves(l, refresh) <=> H!Approves(l, refresh)
  /\ \A o, ok : O!PutAccount(o, ok) <=> H!PutAccount(o, ok)
  /\ \A ok : O!DeleteAccount(ok) <=> H!DeleteAccount(ok)
  /\ \A id, d, ok : O!PutDefinition(id, d, ok) <=> H!PutDefinition(id, d, ok)
  /\ \A id, ok : O!RemoveDefinition(id, ok) <=> H!RemoveDefinition(id, ok)
  /\ \A defs, ok : O!Replace(defs, ok) <=> H!Replace(defs, ok)
  BY DEF
    H!Approves, O!Approves, H!Begins, O!Begins, H!Broken, O!Broken, H!Calls, O!Calls, H!Delete, O!Delete,
    H!DeleteAccount, O!DeleteAccount, H!Expire, O!Expire, H!Get, O!Get, H!GetFile, O!GetFile, H!Goes, O!Goes,
    H!GoesWith, O!GoesWith, H!Idle, O!Idle, H!Ids, O!Ids, H!Keyring, O!Keyring, H!LoadCredential,
    H!Loaded, O!Loaded, H!Look, O!Look, H!MasterKey, O!MasterKey, H!Mishap, O!Mishap, H!NewLogin, O!NewLogin,
    H!NoDefinitions, O!NoDefinitions, H!NoTokens, O!NoTokens, H!Nothing, O!Nothing, H!Over, O!Over, H!Persist,
    O!Persist, H!Put, O!Put, H!PutAccount, O!PutAccount, H!PutDefinition, O!PutDefinition, H!PutFile, O!PutFile,
    H!Readable, O!Readable, H!Recovery, O!Recovery, H!RemoveDefinition, O!RemoveDefinition, H!Replace, O!Replace,
    H!Requests, O!Requests, H!Restart, O!Restart, H!Says, O!Says, H!Torn, O!Torn, H!Trouble, O!Trouble, H!Usable,
    O!Usable, H!registryVars, O!registryVars, H!server, O!server, H!store, O!store, H!vault, O!vault

-----------------------------------------------------------------------------
(* The steps of the adapter of Google Gemini.                              *)

\* The login of a listener is known and its time is not up: G!NoStrayListener.
GeminiInv ==
  /\ configured \in BOOLEAN /\ setupFile \in BOOLEAN /\ listening \subseteq Logins
  /\ \A l \in listening : login[l].known /\ ~login[l].expired

LEMMA ConfigureStep ==
  ASSUME AccountsInv, NEW o \in Ops, G!Configure(o)
  PROVE  AccountsInv' /\ DeadStay
<1>0. LoginType /\ LoginsFit /\ CallType /\ RegistryType
  BY DEF AccountsInv, AccountsType
<1>1. UNCHANGED <<H!vault, H!registryVars, env, login, H!server, mishap, restarts>> /\ RegistryType'
  <2>1. UNCHANGED <<H!vault, H!registryVars, env, login, H!server, mishap, restarts>>
    BY DEF G!Configure, G!store, G!vault, G!registryVars, G!server, H!vault, H!registryVars, H!server
  <2> QED BY <1>0, <2>1, RegistryUnchanged
<1>2. CallMoves(o) /\ call'[o].at \in {"load", "done"} /\ call[o].at = "idle"
  <2>1. CASE H!Refuses(o)
    BY <1>0, <2>1, CallSays DEF H!Refuses
  <2>2. CASE H!Begins(o, "status", "First", "load", "")
    <3>1. "status" \in H!Whats /\ "First" \in H!Families /\ "load" \in H!Stages
      BY DEF H!Whats, H!Stages, H!Families
    <3> QED BY <1>0, <2>2, <3>1, CallBegins
  <2> QED BY <2>1, <2>2, GeminiSpeaks DEF G!Configure, H!Calls
<1> QED BY <1>0, <1>1, <1>2, LoginsUnchanged, OfCall

\* Disconnect asks for the revocation of the tokens first.
LEMMA RevokeStep ==
  ASSUME AccountsInv, NEW o \in Ops, G!Revoke(o)
  PROVE  AccountsInv' /\ DeadStay
<1>0. VaultType /\ LoginType /\ LoginsFit /\ CallType /\ RegistryType /\ IssuedType
  BY DEF AccountsInv, AccountsType
<1>1. /\ UNCHANGED <<H!vault, H!registryVars, env, login, issued, rotates, aged, mishap, restarts>>
      /\ call[o].at = "load" /\ H!Goes(o, "delete")
  BY GeminiSpeaks DEF G!Revoke, G!At, G!store, G!vault, G!registryVars, H!vault, H!registryVars
<1>2. G!H!LoadCredential = H!LoadCredential
  BY DEF G!H!LoadCredential, H!LoadCredential, G!H!Get, H!Get, G!H!GetFile, H!GetFile, G!H!Keyring, H!Keyring,
         G!H!Nothing, H!Nothing, G!H!Broken, H!Broken
<1>3. revoked \subseteq revoked' /\ revoked' \subseteq H!Families
  <2>1. H!Usable(H!LoadCredential) => H!LoadCredential.family \in H!Families
    BY <1>0, LoadedCredential, CredentialsAreUsable DEF Vaulted
  <2> QED BY <1>0, <1>2, <2>1, GeminiSpeaks DEF G!Revoke, IssuedType
<1>4. CallMoves(o) /\ call'[o].at = "delete" /\ RegistryType'
  BY <1>0, <1>1, CallGoes, RegistryUnchanged DEF H!Stages
<1>5. Rest
  BY <1>0, <1>1, <1>3, VaultUnchanged, LoginsUnchanged
     DEF AccountsInv, AccountsType, Rest, IssuedType, EnvType, HistoryType
<1> QED BY <1>1, <1>4, <1>5, CallQuietly

LEMMA ListenerFailsStep ==
  ASSUME AccountsInv, NEW l \in Logins, G!ListenerFails(l)
  PROVE  AccountsInv' /\ DeadStay
<1>1. LoginsStay
  BY GeminiBuildsOn, LoginError DEF G!ListenerFails, AccountsInv, AccountsType
<1>2. UNCHANGED <<H!store, call, H!server, mishap, restarts>>
  BY DEF G!ListenerFails, G!store, G!vault, G!registryVars, G!server, H!store, H!vault, H!registryVars, H!server
<1> QED BY <1>1, <1>2, OfLogin

\* What is different where no client is configured, or there is nothing to refresh with.
LEMMA UnconfiguredStep ==
  ASSUME AccountsInv, NEW o \in Ops, G!Status(o) \/ G!Refresh(o) \/ G!RefreshCredential(o) \/ G!SyncProvider(o)
  PROVE  AccountsInv' /\ DeadStay
<1>0. VaultType /\ LoginType /\ LoginsFit /\ CallType /\ RegistryType
  BY DEF AccountsInv, AccountsType
<1>1. CASE H!Status(o) \/ H!Refresh(o) \/ H!RefreshCredential(o) \/ H!SyncProvider(o)
  BY <1>1, StatusStep, RefreshStep, RefreshCredentialStep, SyncProviderStep
<1> DEFINE Own == UNCHANGED <<H!vault, env, login, H!server, mishap, restarts>>
<1>2. ASSUME Own, call[o].at # "save", CallMoves(o), call'[o].at \in {"done", "sync", "undo", "mark"}, RegistryType'
      PROVE  AccountsInv' /\ DeadStay
  BY <1>0, <1>2, LoginsUnchanged, OfCall
<1>3. ASSUME NEW state, H!Says(o, state), H!Look, call[o].at = "load", Own
      PROVE  AccountsInv' /\ DeadStay
  BY <1>0, <1>2, <1>3, CallSays, Looked
<1>4. ASSUME H!GoesWith(o, "sync", H!LoadCredential), call[o].at = "load", Own, UNCHANGED H!registryVars
      PROVE  AccountsInv' /\ DeadStay
  <2>1. "sync" \in H!Stages
    BY DEF H!Stages
  <2> QED BY <1>0, <1>2, <1>4, <2>1, LoadedCredential, CallGoesWith, RegistryUnchanged
<1>5. ASSUME H!AfterRefresh(o, FALSE), call[o].at = "exchange", Own
      PROVE  AccountsInv' /\ DeadStay
  BY <1>0, <1>2, <1>5, AfterRefreshed
<1>6. ASSUME H!AfterSync(o, FALSE), call[o].at = "sync", Own, UNCHANGED H!registryVars
      PROVE  AccountsInv' /\ DeadStay
  BY <1>0, <1>2, <1>6, AfterSynced, RegistryUnchanged
<1>7. G!H!LoadCredential = H!LoadCredential
  BY DEF G!H!LoadCredential, H!LoadCredential, G!H!Get, H!Get, G!H!GetFile, H!GetFile, G!H!Keyring, H!Keyring,
         G!H!Nothing, H!Nothing, G!H!Broken, H!Broken
<1>8. CASE G!Status(o)
  BY <1>1, <1>3, <1>8, GeminiSpeaks, GeminiBuildsOn DEF G!Status, G!vault, G!server, H!vault, H!server
<1>9. CASE G!Refresh(o)
  BY <1>1, <1>4, <1>7, <1>9, GeminiSpeaks, GeminiBuildsOn
     DEF G!Refresh, G!At, G!store, G!vault, G!registryVars, G!server, H!vault, H!registryVars, H!server
<1>10. CASE G!RefreshCredential(o)
  BY <1>1, <1>5, <1>10, GeminiBuildsOn DEF G!RefreshCredential, G!vault, G!server, H!vault, H!server
<1>11. CASE G!SyncProvider(o)
  BY <1>1, <1>6, <1>11, GeminiBuildsOn
     DEF G!SyncProvider, G!store, G!vault, G!registryVars, G!server, H!vault, H!registryVars, H!server
<1> QED BY <1>8, <1>9, <1>10, <1>11

LEMMA GeminiStep ==
  ASSUME AccountsInv, G!Next
  PROVE  AccountsInv' /\ DeadStay
<1>1. CASE G!Surroundings \/ G!Restart
  BY <1>1, GeminiSpeaks, SurroundingsStep, RestartStep
<1>2. ASSUME NEW l \in Logins, G!BeginLogin(l) \/ G!CancelLogin(l) \/ G!TimeIsUp(l) \/ G!ListenerFails(l)
      PROVE  AccountsInv' /\ DeadStay
  <2>1. H!BeginLogin(l) \/ H!CancelLogin(l) \/ H!Expire(l) \/ G!ListenerFails(l)
    BY <1>2, GeminiSpeaks, GeminiBuildsOn DEF G!BeginLogin, G!CancelLogin, G!TimeIsUp
  <2> QED BY <2>1, LoginStep, ListenerFailsStep
<1>3. ASSUME NEW o \in Ops, NEW l \in Logins, G!CompleteLogin(o, l) \/ G!PollLogin(o, l)
      PROVE  AccountsInv' /\ DeadStay
  <2>1. H!CompleteLogin(o, l) \/ H!PollLogin(o, l)
    BY <1>3, GeminiBuildsOn DEF G!CompleteLogin, G!PollLogin
  <2> QED BY <2>1, CompleteLoginStep, PollLoginStep
<1>4. ASSUME NEW o \in Ops,
             \/ G!Requests(o, {"status", "refresh", "resolve", "discover", "disconnect"}) /\ UNCHANGED G!gemini
             \/ G!ExchangeAuthorizationCode(o) \/ G!SaveLogin(o) \/ G!UndoLogin(o) \/ G!FinishLogin(o)
             \/ G!ResolveCredential(o) \/ G!SaveRefreshed(o) \/ G!Disconnect(o) \/ G!RemoveProvider(o)
      PROVE  AccountsInv' /\ DeadStay
  <2>1. CASE G!Requests(o, {"status", "refresh", "resolve", "discover", "disconnect"})
    BY <2>1, GeminiSpeaks, RequestsStep
  <2>2. CASE H!ExchangeAuthorizationCode(o) \/ H!SaveCredential(o) \/ H!UndoLogin(o) \/ H!FinishLogin(o)
    BY <2>2, ExchangeCodeStep, SaveCredentialStep, UndoLoginStep, FinishLoginStep
  <2>3. CASE H!ResolveCredential(o) \/ H!RemoveProvider(o) \/ (call[o].at = "delete" /\ H!Forget(o))
    BY <2>3, ResolveCredentialStep, RemoveProviderStep, ForgetCredentialStep
  <2> QED BY <1>4, <2>1, <2>2, <2>3, GeminiBuildsOn
          DEF G!ExchangeAuthorizationCode, G!SaveLogin, G!UndoLogin, G!FinishLogin, G!ResolveCredential,
              G!SaveRefreshed, G!Disconnect, G!RemoveProvider, G!At
<1> QED BY <1>1, <1>2, <1>3, <1>4, ConfigureStep, RevokeStep, UnconfiguredStep DEF G!Next

-----------------------------------------------------------------------------
(* The listeners.                                                          *)

LEMMA ListenersFit ==
  ASSUME LoginType, GeminiInv, configured' \in BOOLEAN, setupFile' \in BOOLEAN, listening' \subseteq listening,
         NEW l, login' = login \/ (l \notin listening' /\ \A k \in Logins : k # l => login'[k] = login[k])
  PROVE  GeminiInv'
  BY DEF GeminiInv

LEMMA ErrorOf ==
  ASSUME LoginType, NEW l, H!SetLoginError(l)
  PROVE  \A k \in Logins : k # l => login'[k] = login[k]
  BY DEF LoginType, H!SetLoginError

LEMMA GeminiListens ==
  ASSUME AccountsInv, GeminiInv, G!Next
  PROVE  GeminiInv'
<1>0. LoginType /\ LoginsFit /\ CallType
  BY DEF AccountsInv, AccountsType
<1>s. configured' \in BOOLEAN /\ setupFile' \in BOOLEAN
  BY DEF GeminiInv, G!Next, G!gemini, G!setup, G!Load, G!SaveSetup, G!Configure, G!BeginLogin, G!CancelLogin,
         G!TimeIsUp, G!ListenerFails, G!CompleteLogin, G!ShutsWhenOver, G!PollLogin, G!ExchangeAuthorizationCode,
         G!SaveLogin, G!UndoLogin, G!FinishLogin, G!Status, G!Refresh, G!ResolveCredential, G!RefreshCredential,
         G!SaveRefreshed, G!SyncProvider, G!Revoke, G!Disconnect, G!RemoveProvider
<1>1. CASE UNCHANGED <<login, listening>>
  BY <1>0, <1>s, <1>1, ListenersFit
<1>2. CASE listening' = {}
  BY <1>s, <1>2 DEF GeminiInv
<1>3. ASSUME NEW l \in Logins, G!BeginLogin(l) PROVE GeminiInv'
  <2>1. /\ login[l].at = "new" /\ login' = [login EXCEPT ![l].at = "listed", ![l].known = TRUE]
        /\ listening' = listening \cup {l}
    BY <1>3, GeminiBuildsOn DEF G!BeginLogin, G!StartLoopbackCallback, H!BeginLogin
  <2>2. login'[l].known /\ ~login'[l].expired /\ \A k \in Logins : k # l => login'[k] = login[k]
    BY <1>0, <2>1 DEF LoginType, LoginState, LoginsFit
  <2> QED BY <1>s, <2>1, <2>2 DEF GeminiInv
<1>4. ASSUME NEW l \in Logins, G!CancelLogin(l) \/ G!TimeIsUp(l) \/ G!ListenerFails(l) PROVE GeminiInv'
  <2>1. listening' = listening \ {l} /\ (H!CancelLogin(l) \/ H!Expire(l) \/ H!SetLoginError(l))
    BY <1>4, GeminiBuildsOn, GeminiSpeaks DEF G!CancelLogin, G!TimeIsUp, G!ListenerFails
  <2>2. \A k \in Logins : k # l => login'[k] = login[k]
    BY <1>0, <2>1, ErrorOf DEF LoginType, H!CancelLogin, H!Expire
  <2> QED BY <1>0, <1>s, <2>1, <2>2, ListenersFit
<1>5. ASSUME NEW o \in Ops, NEW l,
             listening' = IF call'[o].at = "done" THEN listening \ {l} ELSE listening,
             \/ UNCHANGED login
             \/ H!SetLoginError(l) /\ \E state : H!Says(o, state)
             \/ /\ \E state : H!Says(o, state)
                /\ login' = [login EXCEPT ![l].completed = TRUE, ![l].known = FALSE]
      PROVE  GeminiInv'
  <2>1. (\E state : H!Says(o, state)) => call'[o].at = "done"
    BY <1>0, CallSays
  <2>2. login' = login \/ (l \notin listening' /\ \A k \in Logins : k # l => login'[k] = login[k])
    BY <1>0, <1>5, <2>1, ErrorOf DEF LoginType
  <2> QED BY <1>0, <1>s, <1>5, <2>2, ListenersFit
<1>6. ASSUME NEW o \in Ops, NEW l \in Logins, G!CompleteLogin(o, l) PROVE GeminiInv'
  <2>1. /\ listening' = IF call'[o].at = "done" THEN listening \ {l} ELSE listening
        /\ UNCHANGED login \/ (H!SetLoginError(l) /\ H!Says(o, "failed"))
    BY <1>6, GeminiBuildsOn DEF G!CompleteLogin, G!ShutsWhenOver, H!CompleteLogin, H!Refuses
  <2> QED BY <2>1, <1>5
<1>7. ASSUME NEW o \in Ops, G!ExchangeAuthorizationCode(o) \/ G!SaveLogin(o) \/ G!UndoLogin(o) \/ G!FinishLogin(o)
      PROVE  GeminiInv'
  <2> DEFINE l == call[o].login
  <2>1. /\ listening' = IF call'[o].at = "done" THEN listening \ {l} ELSE listening
        /\ \/ H!ExchangeAuthorizationCode(o) \/ (call[o].what = "login" /\ H!SaveCredential(o))
           \/ H!UndoLogin(o) \/ H!FinishLogin(o)
    BY <1>7, GeminiBuildsOn
       DEF G!ExchangeAuthorizationCode, G!SaveLogin, G!UndoLogin, G!FinishLogin, G!ShutsWhenOver
  <2>2. \/ UNCHANGED login
        \/ H!SetLoginError(l) /\ H!Says(o, "failed")
        \/ H!Says(o, "connected") /\ login' = [login EXCEPT ![l].completed = TRUE, ![l].known = FALSE]
    BY <2>1 DEF H!ExchangeAuthorizationCode, H!SaveCredential, H!UndoLogin, H!FinishLogin
  <2> HIDE DEF l
  <2> QED BY <2>1, <2>2, <1>5
<1>8. CASE G!Surroundings /\ UNCHANGED G!gemini
  BY <1>1, <1>8 DEF G!Surroundings, G!accounts, G!TokensAge, G!gemini
<1>9. CASE \E o \in Ops, l \in Logins : G!PollLogin(o, l)
  BY <1>1, <1>9, GeminiBuildsOn DEF G!PollLogin, H!PollLogin, G!gemini
<1>10. CASE \E o \in Ops :
        \/ G!Requests(o, {"status", "refresh", "resolve", "discover", "disconnect"}) /\ UNCHANGED G!gemini
        \/ G!Configure(o) \/ G!Revoke(o)
  BY <1>1, <1>10 DEF G!Requests, G!Configure, G!Revoke, G!gemini
<1>11. CASE \E o \in Ops : G!Status(o) \/ G!Refresh(o) \/ G!ResolveCredential(o) \/ G!RefreshCredential(o)
  BY <1>1, <1>11, GeminiBuildsOn DEF G!Status, G!Refresh, G!ResolveCredential, G!RefreshCredential, H!Status,
     H!Refresh, H!ResolveCredential, H!RefreshCredential, G!gemini
<1>12. CASE \E o \in Ops : G!SyncProvider(o) \/ G!SaveRefreshed(o) \/ G!Disconnect(o) \/ G!RemoveProvider(o)
  BY <1>1, <1>12, GeminiBuildsOn DEF G!SyncProvider, G!SaveRefreshed, G!Disconnect, G!RemoveProvider, H!SyncProvider,
     H!SaveCredential, H!Forget, H!RemoveProvider, G!gemini
<1> QED BY <1>2, <1>3, <1>4, <1>6, <1>7, <1>8, <1>9, <1>10, <1>11, <1>12 DEF G!Next

-----------------------------------------------------------------------------
(* The steps of the adapter of OpenRouter.                                 *)

LEMMA ExchangeOpenRouterStep ==
  ASSUME AccountsInv, NEW o \in Ops, O!ExchangeCode(o)
  PROVE  AccountsInv' /\ DeadStay
<1> DEFINE c == [family |-> call[o].login, access |-> 1, refresh |-> 0]
           fails == H!Says(o, "failed") /\ (H!SetLoginError(call[o].login) \/ UNCHANGED login)
<1>0. /\ LoginType /\ LoginsFit /\ CallType /\ RegistryType /\ call[o].at = "redeem"
      /\ UNCHANGED <<H!vault, env, mishap, restarts>>
  BY DEF AccountsInv, AccountsType, O!ExchangeCode, O!At, O!vault, H!vault
<1>1. \/ fails /\ UNCHANGED <<H!server, H!registryVars>>
      \/ H!Approves(call[o].login, 0) /\ fails /\ UNCHANGED H!registryVars
      \/ /\ H!Approves(call[o].login, 0) /\ H!Look /\ UNCHANGED login
         /\ H!Says(o, "failed") \/ H!GoesWith(o, "save", c)
  BY OpenRouterSpeaks, OpenRouterBuildsOn
     DEF O!ExchangeCode, O!SetLoginError, O!server, H!server, O!registryVars, H!registryVars
<1>2. LoginsStay
  BY <1>0, <1>1, LoginError, LoginsUnchanged
<1>3. RegistryType'
  BY <1>0, <1>1, Looked, RegistryUnchanged
<1>4. CASE fails /\ UNCHANGED <<H!server, H!registryVars>>
  BY <1>0, <1>2, <1>3, <1>4, CallSays, OfCall
<1>5. CASE H!Approves(call[o].login, 0) /\ (H!Says(o, "failed") \/ H!GoesWith(o, "save", c))
  BY <1>0, <1>2, <1>3, <1>5, ApprovedQuietly
<1> QED BY <1>1, <1>4, <1>5

LEMMA SaveKeyStep ==
  ASSUME AccountsInv, NEW o \in Ops, O!SaveKey(o)
  PROVE  AccountsInv' /\ DeadStay
<1>0. /\ LoginType /\ LoginsFit /\ CallType /\ RegistryType /\ call[o].at = "save"
      /\ UNCHANGED <<H!registryVars, env, login, H!server, restarts>>
  BY DEF AccountsInv, AccountsType, O!SaveKey, O!At, O!server, H!server, O!registryVars, H!registryVars
<1>1. PICK ok \in BOOLEAN : H!PutAccount(o, ok) /\ (H!Goes(o, "sync") \/ H!Says(o, "failed"))
  BY OpenRouterSpeaks DEF O!SaveKey
<1>2. CallMoves(o) /\ call'[o].at \in {"sync", "done"} /\ RegistryType' /\ LoginsStay
  BY <1>0, <1>1, CallGoes, CallSays, RegistryUnchanged, LoginsUnchanged DEF H!Stages
<1> QED BY <1>0, <1>1, <1>2, SavesQuietly

LEMMA PutProviderStep ==
  ASSUME AccountsInv, NEW o \in Ops, O!PutProvider(o)
  PROVE  AccountsInv' /\ DeadStay
<1>0. /\ LoginType /\ LoginsFit /\ CallType /\ RegistryType /\ call[o].at = "sync"
      /\ UNCHANGED <<H!vault, env, login, H!server, mishap, restarts>>
  BY DEF AccountsInv, AccountsType, O!PutProvider, O!At, O!server, H!server, O!vault, H!vault
<1>1. PICK ok \in BOOLEAN : H!PutDefinition("mine", "plain", ok) /\ H!Goes(o, IF ok THEN "mark" ELSE "undo")
  BY OpenRouterSpeaks DEF O!PutProvider
<1>2. CallMoves(o) /\ call'[o].at \in {"mark", "undo"} /\ RegistryType' /\ LoginsStay
  BY <1>0, <1>1, CallGoes, DefinitionPut, LoginsUnchanged DEF H!Stages, H!Definitions
<1> QED BY <1>0, <1>2, OfCall

LEMMA UndoKeyStep ==
  ASSUME AccountsInv, NEW o \in Ops, O!UndoKey(o) \/ O!Disconnect(o)
  PROVE  AccountsInv' /\ DeadStay
<1>0. /\ LoginType /\ LoginsFit /\ CallType /\ RegistryType /\ call[o].at \in {"undo", "load"}
      /\ UNCHANGED <<H!registryVars, env, login, H!server, restarts>>
  BY DEF AccountsInv, AccountsType, O!UndoKey, O!Disconnect, O!At, O!server, H!server, O!registryVars, H!registryVars
<1>1. PICK ok \in BOOLEAN : H!DeleteAccount(ok) /\ \E state : H!Says(o, state)
  BY OpenRouterSpeaks DEF O!UndoKey, O!Disconnect
<1>2. CallMoves(o) /\ call'[o].at = "done" /\ RegistryType' /\ LoginsStay
  BY <1>0, <1>1, CallSays, RegistryUnchanged, LoginsUnchanged
<1> QED BY <1>0, <1>1, <1>2, DeletesQuietly

LEMMA KeyStatusStep ==
  ASSUME AccountsInv, NEW o \in Ops, O!Status(o) \/ O!ResolveCredential(o)
  PROVE  AccountsInv' /\ DeadStay
<1>0. /\ LoginType /\ LoginsFit /\ CallType /\ RegistryType /\ call[o].at = "load"
      /\ UNCHANGED <<H!vault, env, login, H!server, mishap, restarts>>
  BY DEF AccountsInv, AccountsType, O!Status, O!ResolveCredential, O!store, O!vault, H!vault, O!server, H!server
<1>1. (\E state : H!Says(o, state)) /\ (H!Look \/ UNCHANGED H!registryVars)
  BY OpenRouterSpeaks DEF O!Status, O!ResolveCredential, O!store, O!registryVars, H!registryVars
<1>2. CallMoves(o) /\ call'[o].at = "done" /\ RegistryType' /\ LoginsStay
  BY <1>0, <1>1, CallSays, Looked, RegistryUnchanged, LoginsUnchanged
<1> QED BY <1>0, <1>2, OfCall

LEMMA OpenRouterStep ==
  ASSUME AccountsInv, O!Next
  PROVE  AccountsInv' /\ DeadStay
<1>1. CASE (O!Trouble \/ O!Recovery) /\ UNCHANGED O!accounts
  <2>1. H!Surroundings
    BY <1>1, OpenRouterSpeaks DEF H!Surroundings, O!accounts, H!accounts
  <2> QED BY <2>1, SurroundingsStep
<1>2. CASE O!Restart
  BY <1>2, OpenRouterSpeaks, RestartStep
<1>3. ASSUME NEW l \in Logins, O!BeginLogin(l) \/ O!CancelLogin(l) \/ O!Expire(l)
      PROVE  AccountsInv' /\ DeadStay
  BY <1>3, OpenRouterSpeaks, OpenRouterBuildsOn, LoginStep DEF O!BeginLogin, O!CancelLogin
<1>4. ASSUME NEW o \in Ops, NEW l \in Logins, O!CompleteLogin(o, l) \/ O!PollLogin(o, l)
      PROVE  AccountsInv' /\ DeadStay
  BY <1>4, OpenRouterBuildsOn, CompleteLoginStep, PollLoginStep DEF O!CompleteLogin, O!PollLogin
<1>5. ASSUME NEW o \in Ops,
             \/ O!Requests(o, {"status", "refresh", "resolve", "discover", "disconnect"}) \/ O!FinishLogin(o)
      PROVE  AccountsInv' /\ DeadStay
  BY <1>5, OpenRouterSpeaks, OpenRouterBuildsOn, RequestsStep, FinishLoginStep DEF O!FinishLogin
<1> QED BY <1>1, <1>2, <1>3, <1>4, <1>5, ExchangeOpenRouterStep, SaveKeyStep, PutProviderStep, UndoKeyStep,
           KeyStatusStep DEF O!Next

-----------------------------------------------------------------------------
(* The routes of the registry, which know nothing of the calls.            *)

LEMMA OfStore ==
  ASSUME AccountsInv, VaultType', keyring'["account"] \in {keyring["account"], H!Nothing},
         secretFile'["account"] \in {secretFile["account"], H!Nothing, H!Broken},
         RegistryType', EnvType', UNCHANGED H!accounts
  PROVE  AccountsInv' /\ DeadStay
<1>1. UNCHANGED <<login, call, issued, revoked, rotates, aged, mishap, restarts>>
  BY DEF H!accounts
<1>2. Rest
  BY <1>1, LoginsUnchanged DEF AccountsInv, AccountsType, Rest, Shrinks, HistoryType, IssuedType
<1> QED BY <1>1, <1>2, CallsUnchanged

LEMMA WriteCounts ==
  ASSUME EnvType, O!Write
  PROVE  EnvType'
<1>1. env.writes + 1 \in 0..MaxWrites
  BY BoundsAssumption DEF EnvType, O!Write
<1> QED BY <1>1 DEF EnvType, O!Write

LEMMA PutConfigStep ==
  ASSUME AccountsInv, NEW def \in {"plain", "foreign"}, O!PutConfig(def), UNCHANGED H!accounts
  PROVE  AccountsInv' /\ DeadStay
<1>0. VaultType /\ RegistryType /\ EnvType
  BY DEF AccountsInv, AccountsType
<1>1. PICK ok \in BOOLEAN :
        /\ H!PutDefinition("mine", def, ok)
        /\ IF ok THEN \E done \in BOOLEAN : O!Put("api", O!ApiKey, done) ELSE UNCHANGED O!vault
  BY OpenRouterSpeaks DEF O!PutConfig
<1>2. RegistryType' /\ EnvType'
  BY <1>0, <1>1, DefinitionPut, WriteCounts DEF O!PutConfig, H!Definitions
<1>3. /\ platform' = platform /\ masterKey' \in {"none", "good", "short"}
      /\ keyring' \in {keyring, [keyring EXCEPT !["api"] = H!ApiKey]}
      /\ \/ secretFile' = secretFile
         \/ \E s \in {H!ApiKey, H!Nothing, H!Broken, secretFile["api"]} : secretFile' = [secretFile EXCEPT !["api"] = s]
  BY <1>0, <1>1 DEF VaultType, O!Put, O!PutFile, O!MasterKey, O!ApiKey, H!ApiKey, O!Nothing, H!Nothing, O!Broken,
                    H!Broken, O!vault
<1>4. "api" # "account" /\ "api" \in H!Slots /\ "account" \in H!Slots
  BY DEF H!Slots
<1>5. keyring'["account"] = keyring["account"] /\ secretFile'["account"] = secretFile["account"]
  BY <1>0, <1>3, <1>4 DEF VaultType
<1>6. VaultType'
  <2>1. secretFile' \in [H!Slots -> H!Credentials \cup {H!ApiKey, H!Nothing, H!Broken}]
    BY <1>0, <1>3, <1>4 DEF VaultType
  <2>2. keyring' \in [H!Slots -> H!Credentials \cup {H!ApiKey, H!Nothing}]
    BY <1>0, <1>3, <1>4 DEF VaultType
  <2> QED BY <1>0, <1>3, <1>5, <2>1, <2>2 DEF VaultType
<1> QED BY <1>2, <1>5, <1>6, OfStore

LEMMA StoreStep ==
  ASSUME AccountsInv, O!StoreNext, UNCHANGED H!accounts
  PROVE  AccountsInv' /\ DeadStay
<1>0. VaultType /\ RegistryType /\ EnvType
  BY DEF AccountsInv, AccountsType
<1>1. CASE O!Trouble \/ O!Recovery
  BY <1>1, OpenRouterSpeaks, SurroundingsStep DEF H!Surroundings
<1>2. CASE \E def \in {"plain", "foreign"} : O!PutConfig(def)
  BY <1>2, PutConfigStep
<1>m. /\ O!Loaded = H!Loaded /\ (O!Readable <=> H!Readable)
      /\ \A defs : O!Migrated(defs) = [i \in H!Ids |-> IF defs[i] = "legacy" THEN "jev" ELSE defs[i]]
      /\ O!Nothing = H!Nothing /\ O!Broken = H!Broken /\ O!Slots = H!Slots
  BY DEF O!Loaded, H!Loaded, O!Readable, H!Readable, O!NoDefinitions, H!NoDefinitions, O!Torn, H!Torn, O!Ids, H!Ids,
         O!Migrated, O!Nothing, H!Nothing, O!Broken, H!Broken, O!Slots, H!Slots
<1>3. CASE O!Snapshot
  <2>1. O!Migrated(O!Loaded.defs) \in Book
    BY <1>0, <1>m, LoadedBook DEF Book, H!Definitions
  <2>2. RegistryType'
    BY <1>0, <1>3, <1>m, <2>1, LoadedBook DEF O!Snapshot, RegistryType
  <2>3. UNCHANGED <<H!vault, env>>
    BY <1>3 DEF O!Snapshot, O!vault, H!vault
  <2> QED BY <1>0, <2>2, <2>3, OfStore DEF VaultType, EnvType, H!vault
<1>4. CASE O!Migrate
  <2>1. migrating \in Book /\ migrating' = H!Nothing /\ \E ok \in BOOLEAN : H!Replace(migrating, ok)
    BY <1>0, <1>4, <1>m, OpenRouterSpeaks DEF O!Migrate, RegistryType
  <2>2. RegistryType'
    BY <1>0, <2>1, Replaced
  <2>3. UNCHANGED <<H!vault, env>>
    BY <1>4 DEF O!Migrate, O!vault, H!vault
  <2> QED BY <1>0, <2>2, <2>3, OfStore DEF VaultType, EnvType, H!vault
\* The slots that a route clears.
<1>5. ASSUME \/ secretFile' = [secretFile EXCEPT !["api"] = H!Nothing] \/ secretFile' = [s \in H!Slots |-> H!Nothing],
             \/ UNCHANGED keyring \/ keyring' = [keyring EXCEPT !["api"] = H!Nothing]
             \/ keyring' = [s \in H!Slots |-> H!Nothing],
             UNCHANGED <<platform, masterKey>>, RegistryType', EnvType'
      PROVE  AccountsInv' /\ DeadStay
  <2>1. "api" # "account" /\ "api" \in H!Slots /\ "account" \in H!Slots
    BY DEF H!Slots
  <2>2. /\ keyring'["account"] \in {keyring["account"], H!Nothing}
        /\ secretFile'["account"] \in {secretFile["account"], H!Nothing}
    BY <1>0, <1>5, <2>1 DEF VaultType
  <2>3. VaultType'
    BY <1>0, <1>5, <2>1, <2>2 DEF VaultType
  <2> QED BY <1>5, <2>2, <2>3, OfStore
<1>6. CASE O!DisconnectApi
  <2>1. PICK ok \in BOOLEAN :
         /\ O!Delete("api", ok)
         /\ (\E done \in BOOLEAN : H!RemoveDefinition("mine", done)) \/ UNCHANGED H!registryVars
    BY <1>6, OpenRouterSpeaks DEF O!DisconnectApi, O!registryVars, H!registryVars
  <2>2. RegistryType' /\ EnvType'
    BY <1>0, <1>6, <2>1, DefinitionRemoved, RegistryUnchanged, WriteCounts DEF O!DisconnectApi
  <2> QED BY <1>5, <1>m, <2>1, <2>2 DEF O!Delete
<1>7. CASE O!DeleteConfig
  <2>1. /\ \/ O!Delete("api", FALSE)
           \/ /\ secretFile' = [s \in H!Slots |-> H!Nothing] /\ UNCHANGED <<platform, masterKey>>
              /\ keyring' \in {keyring, [s \in H!Slots |-> H!Nothing]}
        /\ (\E done \in BOOLEAN : H!RemoveDefinition("mine", done)) \/ UNCHANGED H!registryVars
    BY <1>7, <1>m, OpenRouterSpeaks DEF O!DeleteConfig, O!registryVars, H!registryVars
  <2>2. RegistryType' /\ EnvType'
    BY <1>0, <1>7, <2>1, DefinitionRemoved, RegistryUnchanged, WriteCounts DEF O!DeleteConfig
  <2> QED BY <1>5, <1>m, <2>1, <2>2 DEF O!Delete
<1> QED BY <1>1, <1>2, <1>3, <1>4, <1>6, <1>7 DEF O!StoreNext

-----------------------------------------------------------------------------
(* All adapters: a step of one leaves the others as they are.              *)

LEMMA AccountsStart ==
  ASSUME Init
  PROVE  AccountsInv
<1>1. PICK definition \in {"account", "plain"}, r \in {0, 1} : H!AccountsInit(definition, {r})
  BY DEF Init, O!AccountsInit, H!AccountsInit, O!Slots, H!Slots, O!Ids, H!Ids, O!Families, H!Families, O!Nothing,
         H!Nothing, O!NoTokens, H!NoTokens, O!NoDefinitions, H!NoDefinitions, O!NewLogin, H!NewLogin, O!Idle, H!Idle
<1>2. PICK first \in {H!Nothing} \cup [family : {"First"}, access : {1}, refresh : {r}] :
       LET slots == [s \in H!Slots |-> IF s = "account" THEN first ELSE H!Nothing]
           empty == [s \in H!Slots |-> H!Nothing]
       IN /\ keyring = (IF platform = "bare" THEN empty ELSE slots)
          /\ secretFile = (IF platform = "bare" THEN slots ELSE empty)
          /\ masterKey = (IF platform = "bare" /\ first # H!Nothing THEN "good" ELSE "none")
          /\ registryFile = [i \in H!Ids |-> IF i = "other" THEN "legacy"
                             ELSE IF first = H!Nothing THEN "absent" ELSE definition]
          /\ issued = [f \in H!Families |-> IF f = "First" /\ first # H!Nothing
                         THEN [access |-> 1, refresh |-> first.refresh] ELSE H!NoTokens]
  BY <1>1 DEF H!AccountsInit
<1>3. /\ "account" \in H!Slots /\ "First" \in H!Families /\ 1 \in 1..MaxTokens /\ r \in 0..MaxTokens
      /\ 0 \in 0..MaxTokens /\ 1 \in 0..MaxTokens
  BY BoundsAssumption DEF H!Slots, H!Families
<1>4. first = H!Nothing \/ /\ first \in H!Credentials /\ first # H!Nothing
                           /\ first.family = "First" /\ first.access = 1 /\ first.refresh = r
  BY <1>3, CredentialsAreUsable DEF H!Credentials
<1>5. VaultType
  BY <1>1, <1>2, <1>3, <1>4 DEF H!AccountsInit, VaultType
<1>6. RegistryType
  BY <1>1, <1>2 DEF H!AccountsInit, RegistryType, Book, H!NoDefinitions, H!Definitions
<1>7. EnvType /\ LoginType /\ CallType /\ HistoryType /\ LoginsFit
  <2>1. H!NewLogin \in LoginState /\ H!NewLogin.at = "new" /\ ~H!NewLogin.known /\ ~H!NewLogin.err
        /\ ~H!NewLogin.expired
    BY DEF H!NewLogin, LoginState
  <2> QED BY <1>1, <2>1, CallIsTyped, BoundsAssumption
          DEF H!AccountsInit, EnvType, LoginType, CallType, HistoryType, LoginsFit
<1>8. /\ \A f \in H!Families : issued[f] \in {H!NoTokens, [access |-> 1, refresh |-> r]}
      /\ first # H!Nothing => issued["First"] = [access |-> 1, refresh |-> r]
  BY <1>2, <1>3, <1>4
<1>9. IssuedType
  BY <1>1, <1>2, <1>3, <1>8 DEF H!AccountsInit, IssuedType, H!NoTokens
<1>10. Vaulted \subseteq {first} /\ \A c \in Vaulted : first # H!Nothing
  BY <1>2, <1>3, CredentialsAreUsable DEF Vaulted
<1>11. \A o \in Ops : call[o].at = "idle"
  BY <1>1, CallIsTyped DEF H!AccountsInit
<1>12. TokensFit
  BY <1>4, <1>8, <1>10, <1>11 DEF TokensFit, Within, Busy, H!NoTokens
<1>13. SavesFit /\ Kept
  BY <1>4, <1>8, <1>10, <1>11 DEF SavesFit, Kept, KeptOrSaved
<1> QED BY <1>5, <1>6, <1>7, <1>9, <1>12, <1>13 DEF AccountsInv, AccountsType, TokenInv

\* Each part has an invariant of its own; where an adapter of tokens is at work, theirs
\* holds, and only Google Gemini listens.
Inv ==
  /\ part \in {"huggingface", "gemini", "openrouter", "codex", "claudeweb"}
  /\ part \notin {"codex", "claudeweb"} => AccountsInv
  /\ GeminiInv /\ (part # "gemini" => listening = {})
  /\ CodexInv /\ WebInv

LEMMA InvInit == Init => Inv
<1> SUFFICES ASSUME Init PROVE Inv
  OBVIOUS
<1>1. AccountsInv /\ CodexInv /\ WebInv
  BY AccountsStart, CodexStarts, WebStarts DEF Init
<1> QED BY <1>1 DEF Init, Inv, GeminiInv, G!GeminiInit

\* A step preserves the invariant.  Of the adapters of tokens, only a callback of a login
\* that is alive begins to exchange a code; the other steps leave logins and calls alone.
LEMMA InvStep == Inv /\ [Next]_vars => Inv' /\ (DeadStay \/ UNCHANGED <<login, call>>)
<1> SUFFICES ASSUME Inv, [Next]_vars PROVE Inv' /\ (DeadStay \/ UNCHANGED <<login, call>>)
  OBVIOUS
<1>1. ASSUME UNCHANGED codex PROVE CodexInv'
  BY <1>1, NothingMoves DEF codex, Inv, CodexInv, CodexType, ServerType, OutsideType, C!Up
<1>2. ASSUME UNCHANGED claudeWeb PROVE WebInv'
  BY <1>2, WebUnchanged DEF Inv
<1>3. ASSUME UNCHANGED gemini, AccountsInv, AccountsInv', part # "gemini", UNCHANGED part
      PROVE  GeminiInv' /\ (part' # "gemini" => listening' = {})
  BY <1>3 DEF gemini, Inv, GeminiInv
<1>4. ASSUME AccountsInv, AccountsInv', DeadStay, part \in {"huggingface", "openrouter"},
             UNCHANGED <<part, gemini, codex, claudeWeb>>
      PROVE  Inv' /\ DeadStay
  BY <1>1, <1>2, <1>3, <1>4 DEF Inv
<1>5. CASE part = "huggingface" /\ H!Next /\ UNCHANGED <<part, gemini, codex, claudeWeb>>
  <2>1. AccountsInv
    BY <1>5 DEF Inv
  <2>2. AccountsInv' /\ DeadStay
    BY <1>5, <2>1, HuggingFaceStep
  <2> QED BY <1>4, <1>5, <2>1, <2>2
<1>6. CASE part = "openrouter" /\ O!Next /\ UNCHANGED <<part, gemini, codex, claudeWeb>>
  <2>1. AccountsInv
    BY <1>6 DEF Inv
  <2>2. AccountsInv' /\ DeadStay
    BY <1>6, <2>1, OpenRouterStep
  <2> QED BY <1>4, <1>6, <2>1, <2>2
<1>7. CASE part = "openrouter" /\ O!StoreNext /\ UNCHANGED <<part, accounts, gemini, codex, claudeWeb>>
  <2>1. AccountsInv
    BY <1>7 DEF Inv
  <2>2. AccountsInv' /\ DeadStay
    BY <1>7, <2>1, StoreStep DEF accounts, H!accounts
  <2> QED BY <1>4, <1>7, <2>1, <2>2
<1>8. CASE part = "gemini" /\ G!Next /\ UNCHANGED <<part, codex, claudeWeb>>
  <2>1. AccountsInv /\ GeminiInv
    BY <1>8 DEF Inv
  <2>2. AccountsInv' /\ DeadStay /\ GeminiInv'
    BY <1>8, <2>1, GeminiStep, GeminiListens
  <2> QED BY <1>1, <1>2, <1>8, <2>2 DEF Inv
<1>9. CASE part \in {"codex", "claudeweb"} /\ UNCHANGED <<part, accounts, gemini>>
           /\ (CodexInv /\ WebInv => CodexInv' /\ WebInv')
  BY <1>9 DEF Inv, GeminiInv, accounts, gemini
<1>10. CASE part = "codex" /\ C!Next /\ UNCHANGED <<part, accounts, gemini, claudeWeb>>
  BY <1>2, <1>9, <1>10, CodexStep
<1>11. CASE part = "claudeweb" /\ W!Next /\ UNCHANGED <<part, accounts, gemini, codex>>
  BY <1>1, <1>9, <1>11, WebStep
<1>12. CASE UNCHANGED vars
  <2>1. UNCHANGED <<login, call, listening, configured, setupFile, part, codex, claudeWeb>>
    BY <1>12 DEF vars, gemini
  <2>2. AccountsType /\ LoginsFit => AccountsType' /\ LoginsFit'
    BY <1>12 DEF vars, AccountsType, VaultType, RegistryType, EnvType, LoginType, CallType, IssuedType, HistoryType,
           LoginsFit
  <2>3. Vaulted' = Vaulted /\ UNCHANGED <<call, issued, revoked, rotates, mishap>>
    BY <1>12 DEF vars, Vaulted
  <2>4. TokensFit => TokensFit'
    BY <2>3 DEF TokensFit, Within, Busy
  <2>5. (SavesFit => SavesFit') /\ (Kept => Kept')
    BY <2>3 DEF SavesFit, SavesNewest, Busy, Kept, KeptOrSaved, Newest
  <2>6. AccountsInv => AccountsInv'
    BY <2>2, <2>4, <2>5 DEF AccountsInv, TokenInv
  <2> QED BY <1>1, <1>2, <2>1, <2>6 DEF Inv, GeminiInv
<1> QED BY <1>5, <1>6, <1>7, <1>8, <1>10, <1>11, <1>12 DEF Next

-----------------------------------------------------------------------------
(* The theorems.                                                           *)

\* Every variable of the adapters keeps its type.
THEOREM TypeCorrect == Spec => []TypeOK
<1>1. AccountsType => H!AccountsTypeOK
  BY DEF AccountsType, VaultType, RegistryType, EnvType, LoginType, CallType, IssuedType, HistoryType,
         LoginState, CallState, Book, H!AccountsTypeOK, H!StoreTypeOK
<1>2. CodexInv => C!CodexTypeOK
  BY NobodyIsNone DEF CodexInv, CodexType, CodexFits, TaskFits, InTurn, ServerType, BridgeType, EntryType,
     TaskType, OutsideType, ServerState, EntryState, TaskState, C!CodexTypeOK
<1>3. Inv => TypeOK
  BY <1>1, <1>2, WebInvGives DEF Inv, TypeOK, AccountsInv, GeminiInv, G!GeminiTypeOK
<1> QED BY InvInit, InvStep, <1>3, PTL DEF Spec

\* ProviderAccounts.NewestTokenIsKept, for any number of logins, calls, tokens and restarts:
\* of the account that is connected, the vault has the newest refresh token, or a call that
\* has it is about to put it there; only a failed save, a lost answer, the end of the
\* program in between or a keyring that was locked loses it.
THEOREM NewestTokenKept == Spec => []NewestTokenIsKept
<1>1. AccountsInv => H!NewestTokenIsKept
  <2> SUFFICES ASSUME AccountsInv, mishap = {}, H!Usable(H!Get("account")),
                      H!Get("account").family \notin revoked
               PROVE  LET c == H!Get("account")
                          newest == issued[c.family].refresh
                      IN \/ c.refresh = newest
                         \/ \E o \in Ops :
                              /\ call[o].at = "save"
                              /\ call[o].cred = [c EXCEPT !.access = issued[c.family].access, !.refresh = newest]
    BY DEF H!NewestTokenIsKept
  <2>1. H!Get("account") \in {keyring["account"], secretFile["account"], H!Broken}
    BY DEF H!Get, H!GetFile
  <2>2. H!Get("account") \in Vaulted
    BY <2>1 DEF AccountsInv, AccountsType, VaultType, H!Usable, Vaulted
  <2> QED BY <2>2 DEF AccountsInv, TokenInv, Kept, KeptOrSaved, Newest
<1>2. Inv => NewestTokenIsKept
  BY <1>1 DEF Inv, NewestTokenIsKept
<1> QED BY InvInit, InvStep, <1>2, PTL DEF Spec

\* ProviderAccounts.DeadLoginsStayDead: no callback begins to exchange a code for a login
\* that was cancelled, was refused or whose time is up.
THEOREM DeadLogins == Spec => DeadLoginsStayDead
<1>1. Inv /\ [Next]_vars =>
      [\A o \in Ops, l \in Logins :
         call[o].at # "redeem" /\ call'[o].at = "redeem" /\ call'[o].login = l
         => login[l].at = "listed" /\ ~login[l].err /\ ~login[l].expired]_<<login, call>>
  BY InvStep DEF DeadStay
<1> QED BY InvInit, InvStep, <1>1, PTL DEF Spec, DeadLoginsStayDead, H!DeadLoginsStayDead

\* No listener outlives its login, no app server runs that nothing will close, and no call
\* waits for a browser that will never be asked.
THEOREM NothingLeftBehind == Spec => []NothingIsLeftBehind
<1>1. GeminiInv => G!NoStrayListener
  BY DEF GeminiInv, G!NoStrayListener
<1>2. CodexInv => C!NoStrayServer
  BY DEF CodexInv, ServersLinked, Linked, Waits, C!NoStrayServer
<1>3. Inv => NothingIsLeftBehind
  BY <1>1, <1>2, WebInvGives DEF Inv, NothingIsLeftBehind
<1> QED BY InvInit, InvStep, <1>3, PTL DEF Spec

\* The answer a run gets over the shared bridge is that of its own turn, whatever the app
\* server still says about earlier ones.
THEOREM AnswersAreOwn == Spec => []AnswersOwnTurn
<1>1. CodexInv => C!AnswersOwnTurn
  BY DEF CodexInv, CodexFits, TaskFits, C!AnswersOwnTurn
<1>2. Inv => AnswersOwnTurn
  BY <1>1 DEF Inv, AnswersOwnTurn
<1> QED BY InvInit, InvStep, <1>2, PTL DEF Spec
=============================================================================
