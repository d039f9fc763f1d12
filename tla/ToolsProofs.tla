----------------------------- MODULE ToolsProofs ----------------------------
(***************************************************************************)
(* Proofs about commands, MCP clients and plugins, for any commands,       *)
(* concurrent calls, plugins, projects, threads, clients and bounds.  The  *)
(* three share no state: each part has an invariant of its own.            *)
(***************************************************************************)
EXTENDS MCTools, Naturals, TLAPS

-----------------------------------------------------------------------------
(* Terminal: the types, and with them what stop requests are.              *)

TerminalInv ==
  T!TypeOK /\ stopper \in [Stoppers -> [step : {"idle", "kill", "stopped"}, command : SUBSET T!Commands]]

\* A signal kills, and leaves fewer descendants.
LEMMA SignalKeeps ==
  ASSUME TerminalInv, NEW c \in T!Commands,
         \E dies \in BOOLEAN, remaining \in SUBSET kids[c] : T!SignalGroup(c, dies, remaining)
  PROVE  /\ leader' \in [T!Commands -> {"none", "alive"} \cup T!Codes]
         /\ kids' \in [T!Commands -> SUBSET T!Groups]
<1> PICK dies \in BOOLEAN, remaining \in SUBSET kids[c] : T!SignalGroup(c, dies, remaining)
  OBVIOUS
<1>1. kids[c] \in SUBSET T!Groups
  BY DEF TerminalInv, T!TypeOK
<1>2. leader' \in [T!Commands -> {"none", "alive"} \cup T!Codes]
  BY DEF TerminalInv, T!TypeOK, T!SignalGroup, T!Codes
<1>3. kids' \in [T!Commands -> SUBSET T!Groups]
  BY <1>1 DEF TerminalInv, T!TypeOK, T!SignalGroup
<1> QED BY <1>2, <1>3

LEMMA TerminateKeeps ==
  ASSUME TerminalInv, NEW c \in T!Commands, T!Terminate(c)
  PROVE  /\ leader' \in [T!Commands -> {"none", "alive"} \cup T!Codes]
         /\ kids' \in [T!Commands -> SUBSET T!Groups]
         /\ killing' \subseteq T!Commands
<1>1. killing' \subseteq T!Commands
  BY DEF T!Terminate, TerminalInv, T!TypeOK
<1>2. CASE leader[c] = "alive" \/ "group" \in kids[c]
  BY <1>1, <1>2, SignalKeeps DEF T!Terminate
<1>3. CASE ~(leader[c] = "alive" \/ "group" \in kids[c])
  BY <1>1, <1>3 DEF T!Terminate, TerminalInv, T!TypeOK
<1> QED BY <1>2, <1>3

LEMMA TerminalStarts == T!Init => TerminalInv
BY DEF T!Init, TerminalInv, T!TypeOK, T!NoStop

\* What a command and its processes do, and how the Agent's run and stop requests follow.
LEMMA TerminalStep == TerminalInv /\ [T!Next]_T!vars => TerminalInv'
<1> SUFFICES ASSUME TerminalInv, [T!Next]_T!vars PROVE TerminalInv'
  OBVIOUS
<1> USE DEF TerminalInv, T!TypeOK
<1>0. ToolCommands \subseteq T!Commands
  BY DEF T!Commands
<1>1. ASSUME NEW c \in T!Commands, T!Start(c) PROVE TerminalInv'
  <2>1. runner' \in [T!Commands -> {"idle"} \cup T!Waiting \cup T!Returned]
    BY <1>1 DEF T!Start, T!Waiting, T!Returned
  <2>2. /\ leader' \in [T!Commands -> {"none", "alive"} \cup T!Codes]
        /\ running' \in [T!Commands -> BOOLEAN] /\ listed' \subseteq T!Commands
    BY <1>1 DEF T!Start
  <2> QED BY <1>1, <2>1, <2>2 DEF T!Start
<1>2. ASSUME NEW c \in T!Commands, NEW g \in T!Groups, T!Fork(c, g) \/ T!KidExits(c, g) PROVE TerminalInv'
  BY <1>2 DEF T!Fork, T!KidExits
<1>3. ASSUME NEW c \in T!Commands, T!Exit(c) PROVE TerminalInv'
  <2>1. leader' \in [T!Commands -> {"none", "alive"} \cup T!Codes]
    BY <1>3 DEF T!Exit, T!Codes
  <2> QED BY <1>3, <2>1 DEF T!Exit
<1>4. ASSUME NEW c \in T!Commands, T!Wait(c) \/ T!Retire(c) PROVE TerminalInv'
  BY <1>4 DEF T!Wait, T!Retire
<1>5. ASSUME NEW c \in T!Commands, T!SigKill(c) PROVE TerminalInv'
  <2>1. T!SignalGroup(c, TRUE, kids[c] \ {"group"}) /\ kids[c] \ {"group"} \in SUBSET kids[c]
    BY <1>5 DEF T!SigKill
  <2>2. \E dies \in BOOLEAN, remaining \in SUBSET kids[c] : T!SignalGroup(c, dies, remaining)
    BY <2>1
  <2> QED BY <1>5, <2>2, SignalKeeps DEF T!SigKill
<1>6. ASSUME NEW c \in ToolCommands, T!Expire(c) \/ T!Collect(c) \/ T!GiveUp(c) \/ T!Drain(c) PROVE TerminalInv'
  <2>1. /\ runner' \in [T!Commands -> {"idle"} \cup T!Waiting \cup T!Returned]
        /\ overdue' \subseteq ToolCommands
    BY <1>0, <1>6 DEF T!Expire, T!Collect, T!GiveUp, T!Drain, T!Waiting, T!Returned
  <2> QED BY <1>6, <2>1 DEF T!Expire, T!Collect, T!GiveUp, T!Drain
<1>7. ASSUME NEW c \in ToolCommands, T!Kill(c) PROVE TerminalInv'
  <2>1. runner' \in [T!Commands -> {"idle"} \cup T!Waiting \cup T!Returned]
    BY <1>0, <1>7 DEF T!Kill, T!Waiting
  <2> QED BY <1>0, <1>7, <2>1, TerminateKeeps DEF T!Kill
<1>8. ASSUME NEW s \in Stoppers, NEW c \in T!Commands, T!StopLooks(s, c) PROVE TerminalInv'
  <2>1. stopper' \in [Stoppers -> [step : {"idle", "kill", "stopped"}, command : SUBSET T!Commands]]
    BY <1>8 DEF T!StopLooks
  <2> QED BY <1>8, <2>1 DEF T!StopLooks
<1>9. ASSUME NEW s \in Stoppers, T!StopKills(s) PROVE TerminalInv'
  <2>1. stopper' \in [Stoppers -> [step : {"idle", "kill", "stopped"}, command : SUBSET T!Commands]]
    BY <1>9 DEF T!StopKills
  <2>2. PICK c \in stopper[s].command : T!Terminate(c)
    BY <1>9 DEF T!StopKills
  <2>3. c \in T!Commands
    BY <2>2
  <2> QED BY <1>9, <2>1, <2>2, <2>3, TerminateKeeps DEF T!StopKills
<1>10. CASE UNCHANGED T!vars
  BY <1>10 DEF T!vars
<1> QED BY <1>1, <1>2, <1>3, <1>4, <1>5, <1>6, <1>7, <1>8, <1>9, <1>10 DEF T!Next

-----------------------------------------------------------------------------
(* The inductive invariant.  A request's channel has one owner at a time:  *)
(* pending, the answer readLoop delivers, or the requests waitLoop wakes.  *)

Taken == reading \cup dropped
Owned == pending \cup Taken

OwnedOnce == pending \cap Taken = {} /\ reading \cap dropped = {}

\* Nobody closes a channel but its owner, and an owner gives it up as it closes it.
OwnedIsOpen == \A r \in Owned : ~channel[r].closed

\* A request that is not registered yet was never owned: it registers once.
IdleIsFresh == \A r \in M!Requests : caller[r] = "idle" => r \notin Owned /\ ~channel[r].closed

ChannelInv == OwnedOnce /\ OwnedIsOpen /\ IdleIsFresh /\ M!NoPanic

McpInv == M!TypeOK /\ ChannelInv

-----------------------------------------------------------------------------
LEMMA McpStarts == M!Init => McpInv
<1> SUFFICES ASSUME M!Init PROVE McpInv
  OBVIOUS
<1>1. channel \in [M!Requests -> [values : 0..1, closed : BOOLEAN]]
  BY DEF M!Init
<1>2. caller \in [M!Requests -> {"idle"} \cup M!Asking \cup M!Finished]
  BY DEF M!Init
<1>3. M!TypeOK
  BY <1>1, <1>2 DEF M!Init, M!TypeOK
<1>4. ChannelInv
  BY DEF M!Init, ChannelInv, OwnedOnce, OwnedIsOpen, IdleIsFresh, Owned, Taken, M!NoPanic
<1> QED BY <1>3, <1>4 DEF McpInv

(* Start, Proceed, and the steps of the server: they own no channel.       *)
LEMMA ElsewhereStep ==
  ASSUME McpInv,
         \/ M!Start \/ M!Proceed \/ M!Die \/ M!Close \/ UNCHANGED M!vars
         \/ \E r \in M!Requests : M!Answer(r)
  PROVE  McpInv'
<1>1. UNCHANGED <<pending, channel, caller, reading, dropped, panicked>>
  BY DEF M!Start, M!Proceed, M!Die, M!Close, M!Answer, M!vars, M!client, M!server
<1>2. /\ process' \in {"none", "alive", "dead", "reaped"}
      /\ stage' \in {"new", "up", "failed"} \cup M!Handshake
      /\ healthy' \in BOOLEAN /\ closed' \in BOOLEAN /\ done' \in BOOLEAN
      /\ inbox' \subseteq M!Requests /\ outbox' \subseteq M!Requests
  <2> USE DEF McpInv, M!TypeOK
  <2>1. CASE M!Start
    BY <2>1 DEF M!Start, M!server, M!Handshake
  <2>2. CASE M!Proceed
    BY <2>2 DEF M!Proceed, M!server, M!Handshake
  <2>3. CASE M!Die
    BY <2>3 DEF M!Die
  <2>4. CASE M!Close
    BY <2>4 DEF M!Close
  <2>5. CASE UNCHANGED M!vars
    BY <2>5 DEF M!vars
  <2>6. CASE \E r \in M!Requests : M!Answer(r)
    BY <2>6 DEF M!Answer, M!client
  <2> QED BY <2>1, <2>2, <2>3, <2>4, <2>5, <2>6
<1>3. M!TypeOK'
  BY <1>1, <1>2 DEF McpInv, M!TypeOK
<1>4. ChannelInv'
  BY <1>1 DEF McpInv, ChannelInv, OwnedOnce, OwnedIsOpen, IdleIsFresh, Owned, Taken, M!NoPanic
<1> QED BY <1>3, <1>4 DEF McpInv

(* The caller: it registers, and takes its request out of pending again.   *)
LEMMA CallerStep ==
  ASSUME McpInv, NEW r \in M!Requests,
         M!Register(r) \/ M!Write(r) \/ M!Cancel(r) \/ M!SeeDone(r)
  PROVE  McpInv'
<1> USE DEF McpInv
<1>1. /\ UNCHANGED <<M!client, channel, outbox, reading, dropped, panicked>>
      /\ inbox' \subseteq M!Requests
  BY DEF M!TypeOK, M!Register, M!Write, M!Cancel, M!SeeDone, M!server
<1>2. \E c \in M!Asking \cup M!Finished : caller' = [caller EXCEPT ![r] = c]
  BY DEF M!Register, M!Write, M!Cancel, M!SeeDone, M!Asking, M!Finished
<1>3. caller' \in [M!Requests -> {"idle"} \cup M!Asking \cup M!Finished] /\ caller'[r] # "idle"
  BY <1>2 DEF M!TypeOK, M!Asking, M!Finished
<1>4. \A q \in M!Requests : q # r => caller'[q] = caller[q]
  BY <1>2 DEF M!TypeOK
<1>5. \/ pending' \subseteq pending
      \/ pending' = pending \cup {r} /\ caller[r] = "idle"
  BY DEF M!Register, M!Write, M!Cancel, M!SeeDone
<1>6. M!TypeOK'
  BY <1>1, <1>3, <1>5 DEF M!TypeOK, M!client
<1>7. OwnedOnce' /\ OwnedIsOpen'
  BY <1>1, <1>5 DEF ChannelInv, OwnedOnce, OwnedIsOpen, IdleIsFresh, Owned, Taken
<1>8. IdleIsFresh' /\ M!NoPanic'
  BY <1>1, <1>3, <1>4, <1>5 DEF ChannelInv, IdleIsFresh, Owned, Taken, M!NoPanic
<1> QED BY <1>6, <1>7, <1>8 DEF ChannelInv

(* The caller takes the value; the channel stays as closed as it was.      *)
LEMMA ReceiveStep ==
  ASSUME McpInv, NEW r \in M!Requests, M!Receive(r)
  PROVE  McpInv'
<1> USE DEF McpInv
<1>1. UNCHANGED <<M!client, pending, M!server, reading, dropped, panicked>>
  BY DEF M!Receive
<1>2. channel' \in [M!Requests -> [values : 0..1, closed : BOOLEAN]]
  BY DEF M!Receive, M!TypeOK
<1>3. \A q \in M!Requests : channel'[q].closed = channel[q].closed
  BY DEF M!Receive, M!TypeOK
<1>4. caller' \in [M!Requests -> {"idle"} \cup M!Asking \cup M!Finished]
  BY DEF M!Receive, M!TypeOK, M!Asking, M!Finished
<1>5. \A q \in M!Requests : caller'[q] = "idle" => caller[q] = "idle"
  BY DEF M!Receive, M!TypeOK
<1>6. M!TypeOK'
  BY <1>1, <1>2, <1>4 DEF M!TypeOK, M!client, M!server
<1>7. Owned \subseteq M!Requests
  BY DEF M!TypeOK, Owned, Taken
<1>8. ChannelInv'
  BY <1>1, <1>3, <1>5, <1>7
     DEF ChannelInv, OwnedOnce, OwnedIsOpen, IdleIsFresh, Owned, Taken, M!NoPanic
<1> QED BY <1>6, <1>8

(* readLoop and waitLoop take requests out of pending, under the mutex.    *)
LEMMA TakeStep ==
  ASSUME McpInv, M!Reap \/ \E r \in M!Requests : M!Read(r)
  PROVE  McpInv'
<1> USE DEF McpInv
<1>1. UNCHANGED <<stage, closed, channel, caller, inbox, panicked>>
  BY DEF M!Reap, M!Read, M!client
<1>2. /\ process' \in {"none", "alive", "dead", "reaped"}
      /\ healthy' \in BOOLEAN /\ done' \in BOOLEAN /\ outbox' \subseteq M!Requests
  BY DEF M!TypeOK, M!Reap, M!Read, M!client, M!Wake
<1>3. /\ pending' \subseteq pending /\ reading' \subseteq Owned /\ dropped' \subseteq Owned
      /\ pending' \cap (reading' \cup dropped') = {} /\ reading' \cap dropped' = {}
  <2>1. CASE M!Reap
    BY <2>1 DEF M!Reap, M!Wake, Owned, Taken, ChannelInv, OwnedOnce
  <2>2. CASE \E r \in M!Requests : M!Read(r)
    BY <2>2 DEF M!Read, M!Take, Owned, Taken, ChannelInv, OwnedOnce
  <2> QED BY <2>1, <2>2
<1>4. M!TypeOK'
  BY <1>1, <1>2, <1>3 DEF M!TypeOK, Owned, Taken
<1>5. ChannelInv'
  BY <1>1, <1>3 DEF ChannelInv, OwnedOnce, OwnedIsOpen, IdleIsFresh, Owned, Taken, M!NoPanic
<1> QED BY <1>4, <1>5

(* They close what they took, without the mutex: the channel was theirs    *)
(* alone, so it was still open.                                            *)
LEMMA CloseStep ==
  ASSUME McpInv, M!Deliver \/ \E r \in M!Requests : M!Forget(r)
  PROVE  McpInv'
<1> USE DEF McpInv
<1>1. UNCHANGED <<M!client, pending, caller, M!server>>
  BY DEF M!Deliver, M!Forget
<1>2. PICK r \in Taken : \/ /\ r \in reading /\ M!Deliver
                            /\ channel' = [channel EXCEPT ![r] = [values |-> 1, closed |-> TRUE]]
                            /\ panicked' = (panicked \/ channel[r].closed)
                         \/ r \in dropped /\ M!Forget(r)
  BY DEF M!Deliver, M!Forget, Taken
<1>3. r \in M!Requests /\ channel[r].closed = FALSE /\ r \notin pending /\ caller[r] # "idle"
  BY DEF M!TypeOK, Taken, Owned, ChannelInv, OwnedOnce, OwnedIsOpen, IdleIsFresh
<1>4. /\ reading' \subseteq reading /\ dropped' \subseteq dropped
      /\ r \notin reading' \cup dropped'
  BY <1>2 DEF M!Deliver, M!Forget, ChannelInv, OwnedOnce
<1>5. /\ channel' \in [M!Requests -> [values : 0..1, closed : BOOLEAN]]
      /\ \A q \in M!Requests : q # r => channel'[q] = channel[q]
  <2>1. CASE r \in dropped /\ M!Forget(r)
    <3>1. channel[r] \in [values : 0..1, closed : BOOLEAN] /\ DOMAIN channel = M!Requests
      BY <1>3 DEF M!TypeOK
    <3>2. [channel[r] EXCEPT !.closed = TRUE] \in [values : 0..1, closed : BOOLEAN]
      BY <3>1
    <3>3. channel' = [channel EXCEPT ![r] = [channel[r] EXCEPT !.closed = TRUE]]
      BY <2>1, <3>1 DEF M!Forget, M!CloseChannel
    <3> QED BY <1>3, <3>2, <3>3 DEF M!TypeOK
  <2>2. CASE channel' = [channel EXCEPT ![r] = [values |-> 1, closed |-> TRUE]]
    BY <2>2, <1>3 DEF M!TypeOK
  <2> QED BY <1>2, <2>1, <2>2
<1>6. panicked' = FALSE
  BY <1>2, <1>3 DEF M!Forget, M!TypeOK, ChannelInv, M!NoPanic
<1>7. M!TypeOK'
  BY <1>1, <1>4, <1>5, <1>6 DEF M!TypeOK, M!client, M!server
<1>8. OwnedOnce' /\ M!NoPanic'
  BY <1>1, <1>4, <1>6 DEF ChannelInv, OwnedOnce, Taken, M!NoPanic
<1>9. OwnedIsOpen' /\ IdleIsFresh'
  <2>1. Owned' \subseteq Owned \ {r} /\ Owned \subseteq M!Requests
    BY <1>1, <1>4, <1>3 DEF Owned, Taken, M!TypeOK
  <2> QED BY <2>1, <1>1, <1>3, <1>5 DEF ChannelInv, OwnedIsOpen, IdleIsFresh
<1> QED BY <1>7, <1>8, <1>9 DEF ChannelInv

LEMMA McpStep == McpInv /\ [M!Next]_M!vars => McpInv'
<1> SUFFICES ASSUME McpInv, [M!Next]_M!vars PROVE McpInv'
  OBVIOUS
<1>1. CASE \/ M!Start \/ M!Proceed \/ M!Die \/ M!Close \/ UNCHANGED M!vars
           \/ \E r \in M!Requests : M!Answer(r)
  BY <1>1, ElsewhereStep
<1>2. CASE \E r \in M!Requests : M!Register(r) \/ M!Write(r) \/ M!Cancel(r) \/ M!SeeDone(r)
  BY <1>2, CallerStep
<1>3. CASE \E r \in M!Requests : M!Receive(r)
  BY <1>3, ReceiveStep
<1>4. CASE M!Reap \/ \E r \in M!Requests : M!Read(r)
  BY <1>4, TakeStep
<1>5. CASE M!Deliver \/ \E r \in M!Requests : M!Forget(r)
  BY <1>5, CloseStep
<1> QED BY <1>1, <1>2, <1>3, <1>4, <1>5 DEF M!Next

-----------------------------------------------------------------------------
(* The inductive invariants.                                               *)

ThreadState == [at : P!Steps, plugin : SUBSET Plugins, on : BOOLEAN, project : SUBSET Projects,
                client : SUBSET Clients, again : BOOLEAN]
ClientState == [plugin : SUBSET Plugins, cwd : SUBSET Projects,
                server : {"none", "alive", "dead"}, healthy : BOOLEAN]
Value == {"absent", "off", "on"}

Single(S) == \A x, y \in S : x = y

\* What is enabled, in memory or on disk, was confirmed once.
StoreInv ==
  /\ saved \in [Plugins -> Value] /\ file \in [Plugins -> Value]
  /\ project \in Projects /\ visited \subseteq Projects
  /\ asked \subseteq Plugins /\ unsettled \subseteq Plugins
  /\ \A k \in Plugins : saved[k] = "on" \/ file[k] = "on" => k \in asked

\* A copy of a configuration is of one plugin; one that says enabled was confirmed.
ThreadFits(t) ==
  /\ Single(thread[t].plugin)
  /\ thread[t].on => thread[t].plugin \subseteq asked
  /\ thread[t].at = "view" => thread[t].on
ThreadInv == thread \in [Threads -> ThreadState] /\ \A t \in Threads : ThreadFits(t)

\* The server of a client runs only while the manager lists the client.
ClientFits(i) ==
  /\ Single(client[i].plugin) /\ client[i].plugin \subseteq asked
  /\ client[i].server # "none" => i \in current
ClientInv ==
  /\ current \subseteq Clients /\ stray \subseteq current
  /\ client \in [Clients -> ClientState]
  /\ \A i, j \in current : client[i].plugin = client[j].plugin => i = j
  /\ \A i \in Clients : ClientFits(i)

\* Where a server may run: the plugin is enabled, or somebody is about to stop it.
Accounted(k) ==
  \/ saved[k] = "on" \/ k \in unsettled
  \/ \E t \in Threads : P!At(t, "stop") /\ thread[t].plugin = {k}
InPlace(d) == d = project \/ \E t \in Threads : P!At(t, "switch")
WantedInv ==
  \A i \in Clients : client[i].server = "alive" /\ i \notin stray =>
    (\A k \in client[i].plugin : Accounted(k)) /\ (\A d \in client[i].cwd : InPlace(d))

PluginType == StoreInv /\ ThreadInv /\ ClientInv
PluginInv == PluginType /\ WantedInv

-----------------------------------------------------------------------------
(* What a thread does to itself.                                           *)

IdleFields == P!Idle \in ThreadState /\ P!Idle.plugin = {} /\ P!Idle.on = FALSE /\ P!Idle.at = "idle"

LEMMA IdleIsTyped == IdleFields
  BY DEF IdleFields, P!Idle, ThreadState, P!Steps

\* The other threads stay where they are.
Moves(t) ==
  /\ thread' \in [Threads -> ThreadState]
  /\ \A u \in Threads : u # t => thread'[u] = thread[u]

LEMMA ThreadsKeep ==
  ASSUME ThreadInv, NEW t \in Threads, Moves(t), ThreadFits(t)', asked \subseteq asked'
  PROVE  ThreadInv'
  BY DEF ThreadInv, Moves, ThreadFits

LEMMA DoneMoves ==
  ASSUME ThreadInv, NEW t \in Threads, P!Done(t)
  PROVE  Moves(t) /\ ThreadFits(t)' /\ thread'[t] = P!Idle
<1>1. Moves(t) /\ thread'[t] = P!Idle
  BY IdleIsTyped DEF IdleFields, Moves, ThreadInv, P!Done
<1> QED BY <1>1, IdleIsTyped DEF ThreadFits, IdleFields, Single

LEMMA GotoMoves ==
  ASSUME ThreadInv, NEW t \in Threads, NEW step \in P!Steps, step # "view", P!Goto(t, step),
         asked \subseteq asked'
  PROVE  /\ Moves(t) /\ ThreadFits(t)'
         /\ thread'[t].at = step /\ thread'[t].plugin = thread[t].plugin
<1> DEFINE s == [thread[t] EXCEPT !.at = step]
<1>1. thread[t] \in ThreadState /\ thread' = [thread EXCEPT ![t] = s]
  BY DEF ThreadInv, P!Goto
<1>2. /\ s \in ThreadState /\ s.at = step
      /\ s.plugin = thread[t].plugin /\ s.on = thread[t].on
  BY <1>1 DEF ThreadState
<1> HIDE DEF s
<1>3. Moves(t) /\ thread'[t] = s
  BY <1>1, <1>2 DEF Moves, ThreadInv
<1> QED BY <1>2, <1>3 DEF ThreadInv, ThreadFits

LEMMA BeginMoves ==
  ASSUME ThreadInv, NEW t \in Threads, NEW step \in P!Steps, NEW k \in Plugins, NEW on \in BOOLEAN,
         NEW d \in Projects, P!Begin(t, step, k, on, d), step = "view" => on, on => k \in asked'
  PROVE  Moves(t) /\ ThreadFits(t)' /\ thread[t].at = "idle"
<1> DEFINE s == [P!Idle EXCEPT !.at = step, !.plugin = {k}, !.on = on, !.project = {d}]
<1>1. thread' = [thread EXCEPT ![t] = s] /\ thread[t].at = "idle"
  BY DEF P!Begin, P!At
<1>2. s \in ThreadState /\ s.at = step /\ s.plugin = {k} /\ s.on = on
  BY IdleIsTyped DEF IdleFields, ThreadState
<1> HIDE DEF s
<1>3. Moves(t) /\ thread'[t] = s
  BY <1>1, <1>2 DEF Moves, ThreadInv
<1> QED BY <1>1, <1>2, <1>3 DEF ThreadFits, Single

-----------------------------------------------------------------------------
(* What happens to the clients.                                            *)

\* A server that runs after a step ran before it, is stray, or is wanted as it starts.
Fate(i) ==
  \/ client'[i].server # "alive"
  \/ i \in stray'
  \/ client'[i] = client[i] /\ i \notin stray
  \/ /\ \A k \in client'[i].plugin : saved[k] = "on"
     /\ \A d \in client'[i].cwd : d = project

\* Every client of k is closed, and nothing else happens.
Closes(k) ==
  \A i \in Clients :
    \/ client'[i] = P!NoClient
    \/ /\ client'[i] = client[i] /\ (i \in stray => i \in stray')
       /\ client[i].server = "alive" => client[i].plugin # {k}

NoClientFields == /\ P!NoClient \in ClientState
                  /\ P!NoClient.plugin = {} /\ P!NoClient.server = "none"

LEMMA NoClientIsTyped == NoClientFields
  BY DEF NoClientFields, P!NoClient, ClientState

LEMMA StopClients ==
  ASSUME ClientInv, NEW k \in Plugins, P!Stop(k), asked \subseteq asked'
  PROVE  ClientInv' /\ Closes(k) /\ \A i \in Clients : Fate(i)
<1>1. \A i \in Clients : client'[i] = IF i \in P!ClientsOf(k) THEN P!NoClient ELSE client[i]
  BY DEF P!Stop, P!Closed
<1>2. client' \in [Clients -> ClientState]
  BY NoClientIsTyped DEF P!Stop, P!Closed, ClientInv, NoClientFields
<1>3. current' = current \ P!ClientsOf(k) /\ stray' = stray \ P!ClientsOf(k)
  BY DEF P!Stop
<1>4. \A i \in Clients : ClientFits(i)'
  BY <1>1, <1>3, NoClientIsTyped DEF ClientInv, ClientFits, NoClientFields, Single
<1>5. \A i, j \in current' : client'[i].plugin = client'[j].plugin => i = j
  BY <1>1, <1>3 DEF ClientInv
<1>6. ClientInv'
  BY <1>2, <1>3, <1>4, <1>5 DEF ClientInv
<1>7. Closes(k)
  BY <1>1, <1>3 DEF Closes, ClientInv, ClientFits, P!ClientsOf
<1>8. \A i \in Clients : Fate(i)
  BY <1>1, <1>3, NoClientIsTyped DEF Fate, NoClientFields
<1> QED BY <1>6, <1>7, <1>8

LEMMA LaunchClients ==
  ASSUME ClientInv, NEW k \in Plugins, NEW d \in Projects, NEW i \in Clients,
         P!Launch(k, d, i), k \in asked, UNCHANGED asked
  PROVE  ClientInv' /\ \A j \in Clients : Fate(j)
<1>1. PICK server \in {"alive", "dead"} :
        client' = [P!Closed(P!ClientsOf(k)) EXCEPT ![i] = P!Started(k, d, server)]
  BY DEF P!Launch
<1>2. \A j \in Clients : client'[j] = IF j = i THEN P!Started(k, d, server)
                                      ELSE IF j \in P!ClientsOf(k) THEN P!NoClient ELSE client[j]
  BY <1>1 DEF P!Closed
<1>3. /\ P!Started(k, d, server) \in ClientState
      /\ P!Started(k, d, server).plugin = {k} /\ P!Started(k, d, server).cwd = {d}
  BY DEF P!Started, ClientState
<1>4. client' \in [Clients -> ClientState]
  BY <1>1, <1>3, NoClientIsTyped DEF P!Closed, ClientInv, NoClientFields
<1>5. current' = (current \ P!ClientsOf(k)) \cup {i} /\ stray' \subseteq (stray \ P!ClientsOf(k)) \cup {i}
  BY DEF P!Launch
<1>6. /\ \A j \in Clients : j # i /\ j \in stray /\ j \notin P!ClientsOf(k) => j \in stray'
      /\ i \in stray' \/ (saved[k] = "on" /\ d = project)
  BY DEF P!Launch
<1>7. \A j \in Clients : ClientFits(j)'
  BY <1>2, <1>3, <1>5, NoClientIsTyped DEF ClientInv, ClientFits, NoClientFields, Single
<1>8. \A j \in current' : j # i => client'[j].plugin = client[j].plugin /\ client[j].plugin # {k}
  BY <1>2, <1>5 DEF ClientInv, P!ClientsOf
<1>9. \A h, j \in current' : client'[h].plugin = client'[j].plugin => h = j
  BY <1>2, <1>3, <1>5, <1>8 DEF ClientInv
<1>10. ClientInv'
  BY <1>4, <1>5, <1>7, <1>9 DEF ClientInv
<1>11. \A j \in Clients : Fate(j)
  BY <1>2, <1>3, <1>6, NoClientIsTyped DEF Fate, NoClientFields
<1> QED BY <1>10, <1>11

LEMMA SameClients ==
  ASSUME ClientInv, UNCHANGED P!clients, asked \subseteq asked'
  PROVE  ClientInv' /\ \A i \in Clients : Fate(i)
<1>1. ClientInv'
  BY DEF ClientInv, ClientFits, P!clients
<1>2. \A i \in Clients : Fate(i)
  BY DEF Fate, P!clients
<1> QED BY <1>1, <1>2

\* A step that leaves the store, the selection and the stopping threads as they are.
LEMMA WantedKeeps ==
  ASSUME WantedInv, UNCHANGED <<P!store, P!selection, unsettled>>, \A i \in Clients : Fate(i),
         \A t \in Threads : thread[t].at \in {"stop", "switch"} => thread'[t] = thread[t]
  PROVE  WantedInv'
<1>1. \A k : saved[k] = "on" => Accounted(k)'
  BY DEF Accounted, P!store
<1>2. \A k : Accounted(k) => Accounted(k)'
  BY DEF Accounted, P!store, P!At
<1>3. \A d : InPlace(d) => InPlace(d)'
  BY DEF InPlace, P!selection, P!At
<1>4. InPlace(project)'
  BY DEF InPlace, P!selection
<1>5. SUFFICES ASSUME NEW i \in Clients, client'[i].server = "alive", i \notin stray'
               PROVE  /\ \A k \in client'[i].plugin : Accounted(k)'
                      /\ \A d \in client'[i].cwd : InPlace(d)'
  BY DEF WantedInv
<1>6. CASE client'[i] = client[i] /\ i \notin stray
  BY <1>2, <1>3, <1>5, <1>6 DEF WantedInv
<1>7. CASE /\ \A k \in client'[i].plugin : saved[k] = "on"
           /\ \A d \in client'[i].cwd : d = project
  BY <1>1, <1>4, <1>7 DEF P!selection
<1> QED BY <1>5, <1>6, <1>7 DEF Fate

-----------------------------------------------------------------------------
(* The steps.                                                              *)

LEMMA PluginStarts == P!Init => PluginInv
<1> SUFFICES ASSUME P!Init PROVE PluginInv
  OBVIOUS
<1>1. StoreInv
  BY DEF P!Init, StoreInv, Value
<1>2. ThreadInv
  BY IdleIsTyped DEF P!Init, ThreadInv, ThreadFits, IdleFields, Single
<1>3. ClientInv
  BY NoClientIsTyped DEF P!Init, ClientInv, ClientFits, NoClientFields, Single
<1>4. WantedInv
  BY NoClientIsTyped DEF P!Init, WantedInv, NoClientFields
<1> QED BY <1>1, <1>2, <1>3, <1>4 DEF PluginInv, PluginType

\* A request or a run begins: its copy says enabled only where that was confirmed.
LEMMA BeginStep ==
  ASSUME PluginInv, NEW t \in Threads, NEW k \in Plugins,
         \/ P!Upsert(t, k) \/ P!RemoveBegins(t, k)
         \/ \E on \in BOOLEAN : P!SetEnabled(t, k, on)
         \/ \E d \in Projects : P!CallBegins(t, k, d) \/ P!ListBegins(t, k, d)
  PROVE  PluginInv'
<1> USE DEF PluginInv, PluginType
<1>1. UNCHANGED <<P!store, P!selection, P!clients, unsettled>>
  BY DEF P!Upsert, P!RemoveBegins, P!SetEnabled, P!CallBegins, P!ListBegins
<1>2. asked \subseteq asked' /\ asked' \subseteq Plugins
  BY DEF P!Upsert, P!RemoveBegins, P!SetEnabled, P!CallBegins, P!ListBegins, StoreInv
<1>3. \E step \in {"ensure", "view", "write", "remove"}, on \in BOOLEAN, d \in Projects :
        /\ P!Begin(t, step, k, on, d)
        /\ step = "view" => on
        /\ on => k \in asked'
  <2>1. project \in Projects
    BY DEF StoreInv
  <2>2. CASE P!Upsert(t, k)
    <3>1. /\ P!Begin(t, "write", k, saved[k] = "on", project) /\ (saved[k] = "on") \in BOOLEAN
          /\ saved[k] = "on" => k \in asked'
      BY <2>2 DEF P!Upsert, StoreInv
    <3> QED BY <2>1, <3>1
  <2>3. CASE P!RemoveBegins(t, k)
    BY <2>1, <2>3 DEF P!RemoveBegins
  <2>4. ASSUME NEW on \in BOOLEAN, P!SetEnabled(t, k, on)
        PROVE  P!Begin(t, "write", k, on, project) /\ (on => k \in asked')
    BY <2>4 DEF P!SetEnabled
  <2>5. ASSUME NEW d \in Projects, P!CallBegins(t, k, d) \/ P!ListBegins(t, k, d)
        PROVE  (P!Begin(t, "ensure", k, TRUE, d) \/ P!Begin(t, "view", k, TRUE, d)) /\ k \in asked'
    BY <2>5 DEF P!CallBegins, P!ListBegins, StoreInv
  <2> QED BY <2>1, <2>2, <2>3, <2>4, <2>5
<1>4. Moves(t) /\ ThreadFits(t)' /\ thread[t].at = "idle"
  BY <1>3, BeginMoves DEF P!Steps
<1>5. ThreadInv'
  BY <1>2, <1>4, ThreadsKeep
<1>6. ClientInv' /\ \A i \in Clients : Fate(i)
  BY <1>1, <1>2, SameClients
<1>7. StoreInv'
  BY <1>1, <1>2 DEF StoreInv, P!store, P!selection
<1>8. WantedInv'
  BY <1>1, <1>4, <1>6, WantedKeeps DEF Moves
<1> QED BY <1>5, <1>6, <1>7, <1>8

\* Steps of a run or a request on itself alone.
LEMMA LocalStep ==
  ASSUME PluginInv, NEW t \in Threads, P!Authorize(t) \/ P!Call(t) \/ P!Find(t)
  PROVE  PluginInv'
<1> USE DEF PluginInv, PluginType
<1>1. UNCHANGED <<P!store, P!selection, P!clients, asked, unsettled>>
  BY DEF P!Authorize, P!Call, P!Find
<1>2. /\ Moves(t) /\ ThreadFits(t)'
      /\ thread[t].at \notin {"stop", "switch"}
  <2>1. CASE P!Done(t)
    BY <2>1, DoneMoves DEF P!Authorize, P!Call, P!Find, P!At
  <2>2. CASE P!Goto(t, "call")
    BY <1>1, <2>2, GotoMoves DEF P!Authorize, P!Call, P!Find, P!At, P!Steps
  <2>3. CASE P!Call(t) /\ thread' = [thread EXCEPT ![t].at = "reconnect", ![t].again = TRUE]
    <3>1. /\ Moves(t) /\ thread'[t].at = "reconnect"
          /\ thread'[t].plugin = thread[t].plugin /\ thread'[t].on = thread[t].on
      BY <2>3 DEF ThreadInv, ThreadState, Moves, P!Steps
    <3> QED BY <1>1, <2>3, <3>1 DEF P!Call, P!At, ThreadInv, ThreadFits
  <2>4. CASE /\ P!Find(t) /\ \E k \in thread[t].plugin : saved[k] = "on"
             /\ thread' = [thread EXCEPT ![t].at = "view", ![t].on = TRUE]
    <3>1. /\ Moves(t) /\ thread'[t].at = "view"
          /\ thread'[t].plugin = thread[t].plugin /\ thread'[t].on = TRUE
      BY <2>4 DEF ThreadInv, ThreadState, Moves, P!Steps
    <3>2. thread[t].plugin \subseteq asked /\ Single(thread[t].plugin)
      BY <2>4 DEF ThreadInv, ThreadFits, ThreadState, StoreInv, Single
    <3> QED BY <1>1, <2>4, <3>1, <3>2 DEF P!Find, P!At, ThreadFits
  <2> QED BY <2>1, <2>2, <2>3, <2>4 DEF P!Authorize, P!Call, P!Errors, P!Find
<1>3. ThreadInv'
  BY <1>1, <1>2, ThreadsKeep
<1>4. ClientInv' /\ \A i \in Clients : Fate(i)
  BY <1>1, SameClients
<1>5. StoreInv'
  BY <1>1 DEF StoreInv, P!store, P!selection
<1>6. WantedInv'
  BY <1>1, <1>2, <1>4, WantedKeeps DEF Moves
<1> QED BY <1>3, <1>4, <1>5, <1>6

\* A client is taken as it is, launched or stopped, on behalf of a copy.
LEMMA EnsureClients ==
  ASSUME ClientInv, NEW k \in Plugins, NEW d \in Projects, NEW on \in BOOLEAN,
         on => k \in asked, UNCHANGED asked,
         \/ P!EnsureFails(k)
         \/ \E i \in Clients : P!EnsureGives(k, on, d, i)
  PROVE  ClientInv' /\ \A i \in Clients : Fate(i)
<1>1. CASE P!EnsureFails(k)
  BY <1>1, StopClients DEF P!EnsureFails
<1>2. ASSUME NEW i \in Clients, P!EnsureGives(k, on, d, i)
      PROVE  ClientInv' /\ \A j \in Clients : Fate(j)
  <2>1. CASE UNCHANGED P!clients
    BY <2>1, SameClients
  <2>2. CASE on /\ P!Launch(k, d, i)
    BY <2>2, LaunchClients
  <2> QED BY <1>2, <2>1, <2>2 DEF P!EnsureGives
<1> QED BY <1>1, <1>2

LEMMA TakeClientMoves ==
  ASSUME ThreadInv, NEW t \in Threads, NEW i \in Clients, NEW step \in P!Steps, step # "view",
         thread' = [thread EXCEPT ![t].at = step, ![t].client = {i}], UNCHANGED asked
  PROVE  Moves(t) /\ ThreadFits(t)'
<1>1. /\ Moves(t) /\ thread'[t].at = step
      /\ thread'[t].plugin = thread[t].plugin /\ thread'[t].on = thread[t].on
  BY DEF ThreadInv, ThreadState, Moves
<1> QED BY <1>1 DEF ThreadInv, ThreadFits

LEMMA ClientStep ==
  ASSUME PluginInv, NEW t \in Threads, P!CallEnsures(t) \/ P!Reconnect(t) \/ P!View(t)
  PROVE  PluginInv'
<1> USE DEF PluginInv, PluginType
<1>1. UNCHANGED <<P!store, P!selection, asked, unsettled>>
  BY DEF P!CallEnsures, P!Reconnect, P!View
<1>2. thread[t].at \notin {"stop", "switch"}
  BY DEF P!CallEnsures, P!Reconnect, P!View, P!At
<1>3. /\ thread[t].plugin \subseteq Plugins /\ thread[t].project \subseteq Projects
      /\ thread[t].on \in BOOLEAN /\ (thread[t].on => thread[t].plugin \subseteq asked)
      /\ P!View(t) => thread[t].on
  BY DEF ThreadInv, ThreadState, ThreadFits, P!View, P!At
<1>4. /\ Moves(t) /\ ThreadFits(t)'
  <2>1. CASE P!Done(t)
    BY <2>1, DoneMoves
  <2>2. ASSUME NEW i \in Clients, NEW step \in {"authorize", "call"},
               thread' = [thread EXCEPT ![t].at = step, ![t].client = {i}]
        PROVE  Moves(t) /\ ThreadFits(t)'
    BY <1>1, <2>2, TakeClientMoves DEF P!Steps
  <2> QED BY <2>1, <2>2 DEF P!CallEnsures, P!Reconnect, P!View
<1>5. ClientInv' /\ \A i \in Clients : Fate(i)
  <2>1. CASE P!CallEnsures(t)
    <3>1. PICK k \in thread[t].plugin, d \in thread[t].project :
            P!EnsureFails(k) \/ \E i \in Clients : P!EnsureGives(k, thread[t].on, d, i)
      BY <2>1 DEF P!CallEnsures
    <3> QED BY <1>1, <1>3, <3>1, EnsureClients
  <2>2. CASE P!View(t)
    <3>1. PICK k \in thread[t].plugin, d \in thread[t].project :
            P!EnsureFails(k) \/ \E i \in Clients : P!EnsureGives(k, TRUE, d, i)
      BY <2>2 DEF P!View
    <3> QED BY <1>1, <1>3, <2>2, <3>1, EnsureClients
  <2>3. CASE P!Reconnect(t)
    <3>1. PICK k \in thread[t].plugin, d \in thread[t].project :
            P!Stop(k) \/ \E i \in Clients : thread[t].on /\ P!Launch(k, d, i)
      BY <2>3 DEF P!Reconnect
    <3>2. CASE P!Stop(k)
      BY <1>1, <1>3, <3>2, StopClients
    <3>3. ASSUME NEW i \in Clients, thread[t].on, P!Launch(k, d, i)
          PROVE  ClientInv' /\ \A j \in Clients : Fate(j)
      BY <1>1, <1>3, <3>3, LaunchClients
    <3> QED BY <3>1, <3>2, <3>3
  <2> QED BY <2>1, <2>2, <2>3
<1>6. ThreadInv'
  BY <1>1, <1>4, ThreadsKeep
<1>7. StoreInv'
  BY <1>1 DEF StoreInv, P!store, P!selection
<1>8. WantedInv'
  BY <1>1, <1>2, <1>4, <1>5, WantedKeeps DEF Moves
<1> QED BY <1>5, <1>6, <1>7, <1>8

LEMMA ExitStep ==
  ASSUME PluginInv, NEW i \in Clients, P!ServerExits(i)
  PROVE  PluginInv'
<1> USE DEF PluginInv, PluginType
<1>1. UNCHANGED <<P!store, P!selection, current, thread, asked, stray, unsettled>>
  BY DEF P!ServerExits
<1> DEFINE c == [client[i] EXCEPT !.server = "dead", !.healthy = FALSE]
<1>2. /\ c \in ClientState /\ c.server = "dead" /\ c.plugin = client[i].plugin
      /\ client' = [client EXCEPT ![i] = c] /\ client[i].server = "alive"
  BY DEF P!ServerExits, ClientInv, ClientState
<1> HIDE DEF c
<1>3. /\ client' \in [Clients -> ClientState] /\ client'[i] = c
      /\ \A j \in Clients : client'[j].plugin = client[j].plugin
      /\ \A j \in Clients : j # i => client'[j] = client[j]
  BY <1>2 DEF ClientInv
<1>4. \A j \in Clients : ClientFits(j)'
  BY <1>1, <1>2, <1>3 DEF ClientInv, ClientFits
<1>5. ClientInv'
  BY <1>1, <1>3, <1>4 DEF ClientInv
<1>6. \A j \in Clients : Fate(j)
  BY <1>1, <1>2, <1>3 DEF Fate
<1>7. StoreInv' /\ ThreadInv'
  BY <1>1 DEF StoreInv, P!store, P!selection, ThreadInv, ThreadFits
<1>8. WantedInv'
  BY <1>1, <1>6, WantedKeeps
<1> QED BY <1>5, <1>7, <1>8

\* The store changes: the server of a plugin that is no longer enabled is accounted
\* for by the request that now stops it, or by the failure of the file.
LEMMA PersistStep ==
  ASSUME PluginInv, NEW t \in Threads, NEW k \in thread[t].plugin, NEW value \in Value,
         value = "on" => k \in asked,
         P!Persist(t, k, value), UNCHANGED <<P!selection, P!clients, asked>>,
         thread[t].at \in {"write", "remove"}
  PROVE  PluginInv'
<1> USE DEF PluginInv, PluginType
<1>1. k \in Plugins /\ thread[t].plugin = {k}
  BY DEF ThreadInv, ThreadState, ThreadFits, Single
<1>2. saved' = [saved EXCEPT ![k] = value]
  BY DEF P!Persist
<1>3. /\ saved' \in [Plugins -> Value]
      /\ \A l \in Plugins : l # k => saved'[l] = saved[l]
      /\ \A l \in Plugins : saved'[l] = "on" => l \in asked
  BY <1>1, <1>2 DEF StoreInv
<1>4. \/ /\ file' = saved' /\ unsettled' = unsettled /\ P!Goto(t, "stop")
      \/ file' = file /\ unsettled' = unsettled \cup {k} /\ P!Done(t)
  BY DEF P!Persist, P!Goto
<1>5. /\ Moves(t) /\ ThreadFits(t)'
      /\ k \in unsettled' \/ (thread'[t].at = "stop" /\ thread'[t].plugin = {k})
  BY <1>1, <1>4, GotoMoves, DoneMoves DEF P!Steps
<1>6. StoreInv'
  BY <1>1, <1>3, <1>4 DEF StoreInv, P!selection
<1>7. ThreadInv' /\ ClientInv'
  BY <1>5, ThreadsKeep, SameClients
<1>8. \A l \in Plugins : Accounted(l) => Accounted(l)'
  <2>1. \A u \in Threads : P!At(u, "stop") => P!At(u, "stop")' /\ thread'[u] = thread[u]
    BY <1>5 DEF Moves, P!At
  <2>2. Accounted(k)'
    BY <1>5 DEF Accounted, P!At
  <2>3. unsettled \subseteq unsettled'
    BY <1>4
  <2> QED BY <1>3, <2>1, <2>2, <2>3 DEF Accounted
<1>9. \A d : InPlace(d) => InPlace(d)'
  BY <1>5 DEF InPlace, Moves, P!At, P!selection
<1>10. WantedInv'
  BY <1>8, <1>9 DEF WantedInv, P!clients, ClientInv, ClientState
<1> QED BY <1>6, <1>7, <1>10

LEMMA ChangeStep ==
  ASSUME PluginInv, NEW t \in Threads, P!Write(t) \/ P!Remove(t)
  PROVE  PluginInv'
<1>1. CASE P!Write(t)
  <2>1. PICK k \in thread[t].plugin : P!Persist(t, k, IF thread[t].on THEN "on" ELSE "off")
    BY <1>1 DEF P!Write
  <2>2. thread[t].on => k \in asked
    BY <2>1 DEF PluginInv, PluginType, ThreadInv, ThreadFits
  <2> QED BY <1>1, <2>1, <2>2, PersistStep DEF P!Write, Value, P!At
<1>2. CASE P!Remove(t)
  <2>1. PICK k \in thread[t].plugin : P!Persist(t, k, "absent")
    BY <1>2 DEF P!Remove
  <2> QED BY <1>2, <2>1, PersistStep DEF P!Remove, Value, P!At
<1> QED BY <1>1, <1>2

\* The request keeps its word: no client of the plugin is left.
LEMMA StopStep ==
  ASSUME PluginInv, NEW t \in Threads, P!StopPlugin(t)
  PROVE  PluginInv'
<1> USE DEF PluginInv, PluginType
<1>1. PICK k \in thread[t].plugin : P!Stop(k) /\ unsettled' = unsettled \ {k}
  BY DEF P!StopPlugin
<1>2. k \in Plugins /\ thread[t].plugin = {k}
  BY DEF ThreadInv, ThreadState, ThreadFits, Single
<1>3. UNCHANGED <<P!store, P!selection, asked>> /\ P!Goto(t, "find") /\ thread[t].at = "stop"
  BY DEF P!StopPlugin, P!At
<1>4. Moves(t) /\ ThreadFits(t)'
  BY <1>3, GotoMoves DEF P!Steps
<1>5. ClientInv' /\ Closes(k)
  BY <1>1, <1>2, <1>3, StopClients
<1>6. StoreInv' /\ ThreadInv'
  BY <1>1, <1>3, <1>4, ThreadsKeep DEF StoreInv, P!store, P!selection
<1>7. \A l : l # k /\ Accounted(l) => Accounted(l)'
  <2>1. \A u \in Threads : u # t /\ P!At(u, "stop") => P!At(u, "stop")' /\ thread'[u] = thread[u]
    BY <1>4 DEF Moves, P!At
  <2>2. \A l : l # k => thread[t].plugin # {l}
    BY <1>2
  <2> QED BY <1>1, <1>3, <2>1, <2>2 DEF Accounted, P!store
<1>8. \A d : InPlace(d) => InPlace(d)'
  BY <1>3, <1>4 DEF InPlace, Moves, P!At, P!selection
<1>9. WantedInv'
  <2>1. SUFFICES ASSUME NEW i \in Clients, client'[i].server = "alive", i \notin stray'
                 PROVE  /\ \A l \in client'[i].plugin : Accounted(l)'
                        /\ \A d \in client'[i].cwd : InPlace(d)'
    BY DEF WantedInv
  <2>2. client'[i] = client[i] /\ i \notin stray /\ client[i].plugin # {k}
    BY <1>5, <2>1, NoClientIsTyped DEF Closes, NoClientFields
  <2>3. k \notin client[i].plugin
    BY <2>2 DEF ClientInv, ClientFits, Single
  <2> QED BY <1>7, <1>8, <2>1, <2>2, <2>3 DEF WantedInv
<1> QED BY <1>5, <1>6, <1>9

\* Another project is selected: the handler that did it closes every client next.
LEMMA ProjectStep ==
  ASSUME PluginInv, NEW t \in Threads, P!SwitchProject(t) \/ \E d \in Projects : P!SelectProject(t, d)
  PROVE  PluginInv'
<1> USE DEF PluginInv, PluginType
<1>1. CASE P!SwitchProject(t)
  <2>1. /\ current' = {} /\ stray' = {} /\ client' = P!Closed(current)
        /\ UNCHANGED <<P!store, P!selection, asked, unsettled>> /\ P!Done(t)
    BY <1>1 DEF P!SwitchProject
  <2>2. \A i \in Clients : client'[i] = P!NoClient \/ (i \notin current /\ client'[i] = client[i])
    BY <2>1 DEF P!Closed
  <2>3. client' \in [Clients -> ClientState]
    BY <2>1, NoClientIsTyped DEF P!Closed, ClientInv, NoClientFields
  <2>4. \A i \in Clients : client'[i].server = "none"
    BY <2>2, NoClientIsTyped DEF ClientInv, ClientFits, ClientState, NoClientFields
  <2>5. \A i \in Clients : ClientFits(i)'
    BY <2>1, <2>2, <2>4, NoClientIsTyped DEF ClientInv, ClientFits, NoClientFields, Single
  <2>6. ClientInv' /\ WantedInv'
    BY <2>1, <2>3, <2>4, <2>5 DEF ClientInv, WantedInv
  <2>7. StoreInv' /\ ThreadInv'
    BY <2>1, DoneMoves, ThreadsKeep DEF StoreInv, P!store, P!selection
  <2> QED BY <2>6, <2>7
<1>2. ASSUME NEW d \in Projects, P!SelectProject(t, d) PROVE PluginInv'
  <2>1. /\ UNCHANGED <<P!store, P!clients, asked, unsettled>> /\ P!Goto(t, "switch")
        /\ project' = d /\ visited' = visited \cup {d} /\ thread[t].at = "idle"
    BY <1>2 DEF P!SelectProject, P!At
  <2>2. Moves(t) /\ ThreadFits(t)' /\ thread'[t].at = "switch"
    BY <2>1, GotoMoves DEF P!Steps
  <2>3. StoreInv' /\ ThreadInv' /\ ClientInv'
    BY <2>1, <2>2, ThreadsKeep, SameClients DEF StoreInv, P!store
  <2>4. \A e : InPlace(e)'
    BY <2>2 DEF InPlace, P!At
  <2>5. \A k : Accounted(k) => Accounted(k)'
    BY <2>1, <2>2 DEF Accounted, Moves, P!At, P!store
  <2>6. WantedInv'
    BY <2>1, <2>4, <2>5 DEF WantedInv, P!clients
  <2> QED BY <2>3, <2>6
<1> QED BY <1>1, <1>2

\* No client survives the process, and the file was confirmed as memory was.
LEMMA RestartStep ==
  ASSUME PluginInv, P!Restart
  PROVE  PluginInv'
<1> USE DEF PluginInv, PluginType
<1>1. /\ thread' = [t \in Threads |-> P!Idle] /\ client' = [i \in Clients |-> P!NoClient]
      /\ current' = {} /\ stray' = {} /\ unsettled' = {} /\ visited' = {project}
      /\ UNCHANGED <<file, project, asked>>
      /\ saved' = file \/ saved' = [k \in Plugins |-> "absent"]
  BY DEF P!Restart
<1>2. StoreInv'
  BY <1>1 DEF StoreInv, Value
<1>3. ThreadInv'
  BY <1>1, IdleIsTyped DEF ThreadInv, ThreadFits, IdleFields, Single
<1>4. ClientInv' /\ WantedInv'
  BY <1>1, NoClientIsTyped DEF ClientInv, ClientFits, WantedInv, NoClientFields, Single
<1> QED BY <1>2, <1>3, <1>4

LEMMA StutterStep ==
  ASSUME PluginInv, UNCHANGED P!vars
  PROVE  PluginInv'
<1>1. UNCHANGED <<P!store, P!selection, P!clients, thread, asked, unsettled>>
  BY DEF P!vars, P!store, P!selection, P!clients
<1>2. StoreInv' /\ ThreadInv'
  BY <1>1 DEF PluginInv, PluginType, StoreInv, ThreadInv, ThreadFits, P!store, P!selection
<1>3. ClientInv' /\ WantedInv'
  BY <1>1, SameClients, WantedKeeps DEF PluginInv, PluginType
<1> QED BY <1>2, <1>3 DEF PluginInv, PluginType

LEMMA PluginStep == PluginInv /\ [P!Next]_P!vars => PluginInv'
<1> SUFFICES ASSUME PluginInv, [P!Next]_P!vars PROVE PluginInv'
  OBVIOUS
<1>1. CASE \E t \in Threads, k \in Plugins :
             \/ P!Upsert(t, k) \/ P!RemoveBegins(t, k)
             \/ \E on \in BOOLEAN : P!SetEnabled(t, k, on)
             \/ \E d \in Projects : P!CallBegins(t, k, d) \/ P!ListBegins(t, k, d)
  BY <1>1, BeginStep
<1>2. CASE \E t \in Threads : P!Authorize(t) \/ P!Call(t) \/ P!Find(t)
  BY <1>2, LocalStep
<1>3. CASE \E t \in Threads : P!CallEnsures(t) \/ P!Reconnect(t) \/ P!View(t)
  BY <1>3, ClientStep
<1>4. CASE \E t \in Threads : P!Write(t) \/ P!Remove(t)
  BY <1>4, ChangeStep
<1>5. CASE \E t \in Threads : P!StopPlugin(t)
  BY <1>5, StopStep
<1>6. CASE \E t \in Threads : P!SwitchProject(t) \/ \E d \in Projects : P!SelectProject(t, d)
  BY <1>6, ProjectStep
<1>7. CASE P!Restart \/ UNCHANGED P!vars \/ \E i \in Clients : P!ServerExits(i)
  BY <1>7, RestartStep, StutterStep, ExitStep
<1> QED BY <1>1, <1>2, <1>3, <1>4, <1>5, <1>6, <1>7 DEF P!Next

-----------------------------------------------------------------------------
(* The three together: a step of one leaves the others as they are.        *)

ToolsInv == TerminalInv /\ McpInv /\ PluginInv

LEMMA ToolsStart == Init => ToolsInv
BY TerminalStarts, McpStarts, PluginStarts DEF Init, ToolsInv

LEMMA ToolsStep == ToolsInv /\ [Next]_vars => ToolsInv'
<1> SUFFICES ASSUME ToolsInv, [Next]_vars PROVE ToolsInv'
  OBVIOUS
<1>1. [T!Next]_T!vars
  BY DEF Next, vars, terminal, T!vars
<1>2. [M!Next]_M!vars
  BY DEF Next, vars, mcp, M!vars
<1>3. [P!Next]_P!vars
  BY DEF Next, vars, plugins, P!vars
<1> QED BY <1>1, <1>2, <1>3, TerminalStep, McpStep, PluginStep DEF ToolsInv

-----------------------------------------------------------------------------
(* The types of commands, clients and the manager hold, with at most one   *)
(* client per plugin, for any number of commands, calls and plugins.       *)
THEOREM TypeCorrect == Spec => []TypeOK
<1>1. TerminalInv => T!TypeOK
  BY DEF TerminalInv
<1>2. McpInv => M!TypeOK
  BY DEF McpInv
<1>3. PluginInv => P!TypeOK
  BY DEF PluginInv, PluginType, StoreInv, ThreadInv, ClientInv, Value, ThreadState, ClientState, P!TypeOK
<1>4. ToolsInv => TypeOK
  BY <1>1, <1>2, <1>3 DEF ToolsInv, TypeOK
<1> QED BY ToolsStart, ToolsStep, <1>4, PTL DEF Spec

(* readLoop, waitLoop and the callers never close a channel twice and never *)
(* send to a closed one, in whatever order an answer, the exit of the      *)
(* process, a cancellation and Close meet.                                 *)
THEOREM ChannelsHaveOneOwner == Spec => []NoPanic
<1>1. ToolsInv => NoPanic
  BY DEF ToolsInv, McpInv, ChannelInv, NoPanic
<1> QED BY ToolsStart, ToolsStep, <1>1, PTL DEF Spec

(* Only what the user confirmed is ever started, and a server runs only    *)
(* where it is wanted, or somebody is about to stop it, or it was started  *)
(* from a copy that no longer held.                                        *)
THEOREM OnlyWantedServers == Spec => []ServersAreWanted
<1>1. PluginInv => P!ServersAreWanted
  BY DEF PluginInv, PluginType, ClientInv, ClientFits, WantedInv, Accounted, InPlace, P!ServersAreWanted
<1>2. ToolsInv => ServersAreWanted
  BY <1>1 DEF ToolsInv, ServersAreWanted
<1> QED BY ToolsStart, ToolsStep, <1>2, PTL DEF Spec
=============================================================================
