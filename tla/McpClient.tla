----------------------------- MODULE McpClient -----------------------------
(* One client of an MCP server over stdio (mcp_client.go): the handshake of
   Start, the requests of several callers, the goroutines that read responses
   (readLoop) and wait for the process (waitLoop), and Close.

   A request has a channel with one slot, registered in pending.  readLoop,
   waitLoop and the caller itself take it out of pending, each under the mutex,
   and go on without it: readLoop sends and closes, waitLoop closes.  Texts,
   ids that belong to no request, and stderr are left out. *)
EXTENDS Naturals, FiniteSets

CONSTANT Calls      \* requests tools/call of concurrent Agent runs

Handshake == {"initialize", "tools/list", "resources/list"}
Requests == Calls \cup Handshake

VARIABLES process,    \* the server: none, alive, dead, or reaped by cmd.Wait
          stage,      \* Start: new, the request it waits for, up, or failed
          healthy, closed, done,   \* the client's fields
          pending,    \* the registered requests
          channel,    \* of each request: values in it, and whether it is closed
          caller,     \* what the caller of each request does
          inbox,      \* requests the server has and did not answer
          outbox,     \* answers in the server's stdout
          reading,    \* the request readLoop took from pending, to send to it and close it
          dropped,    \* the requests waitLoop took from pending, to close them
          panicked    \* a channel was closed twice, or sent to after it was closed

vars == <<process, stage, healthy, closed, done, pending, channel, caller,
          inbox, outbox, reading, dropped, panicked>>
client == <<process, stage, healthy, closed, done>>
server == <<inbox, outbox>>

Asking == {"registered", "sent"}
Finished == {"ok", "refused", "exited", "cancelled"}

TypeOK ==
  /\ process \in {"none", "alive", "dead", "reaped"}
  /\ stage \in {"new", "up", "failed"} \cup Handshake
  /\ healthy \in BOOLEAN /\ closed \in BOOLEAN /\ done \in BOOLEAN /\ panicked \in BOOLEAN
  /\ pending \subseteq Requests /\ dropped \subseteq Requests /\ reading \subseteq Requests
  /\ channel \in [Requests -> [values : 0..1, closed : BOOLEAN]]
  /\ caller \in [Requests -> {"idle"} \cup Asking \cup Finished]
  /\ inbox \subseteq Requests /\ outbox \subseteq Requests

Init ==
  /\ process = "none" /\ stage = "new"
  /\ healthy = FALSE /\ closed = FALSE /\ done = FALSE /\ panicked = FALSE
  /\ pending = {} /\ dropped = {} /\ reading = {} /\ inbox = {} /\ outbox = {}
  /\ channel = [r \in Requests |-> [values |-> 0, closed |-> FALSE]]
  /\ caller = [r \in Requests |-> "idle"]

-----------------------------------------------------------------------------
\* Start until its first request; it is refused for a closed client.
Start ==
  /\ stage = "new" /\ ~closed
  /\ \/ process' = "alive" /\ stage' = "initialize"
     \/ process' = process /\ stage' = "failed"     \* no executable, cmd.Start failed
  /\ UNCHANGED <<healthy, closed, done, pending, channel, caller, server, reading, dropped, panicked>>

\* request registers its channel; a closed client refuses.
Register(r) ==
  /\ caller[r] = "idle"
  /\ r = stage \/ (r \in Calls /\ stage = "up")
  /\ IF closed
     THEN caller' = [caller EXCEPT ![r] = "refused"] /\ pending' = pending
     ELSE caller' = [caller EXCEPT ![r] = "registered"] /\ pending' = pending \cup {r}
  /\ UNCHANGED <<client, channel, server, reading, dropped, panicked>>

\* writeMessage: fails on a closed client and on a pipe whose reader is gone.
Write(r) ==
  /\ caller[r] = "registered"
  /\ IF closed \/ process # "alive"
     THEN /\ caller' = [caller EXCEPT ![r] = "refused"] /\ pending' = pending \ {r}
          /\ inbox' = inbox
     ELSE /\ caller' = [caller EXCEPT ![r] = "sent"] /\ pending' = pending
          /\ inbox' = inbox \cup {r}
  /\ UNCHANGED <<client, channel, outbox, reading, dropped, panicked>>

Answer(r) ==                                             \* the server
  /\ process = "alive" /\ r \in inbox
  /\ inbox' = inbox \ {r} /\ outbox' = outbox \cup {r}
  /\ UNCHANGED <<client, pending, channel, caller, reading, dropped, panicked>>

\* Mutant of Take: readLoop leaves what it takes in pending.
TakeMutant(r) == reading' = pending \cap {r} /\ pending' = pending

Take(r) == reading' = pending \cap {r} /\ pending' = pending \ {r}

\* readLoop takes an answer and its channel; an answer nobody waits for is ignored.
Read(r) ==
  /\ r \in outbox /\ reading = {} /\ process # "reaped"
  /\ outbox' = outbox \ {r} /\ Take(r)
  /\ UNCHANGED <<client, channel, caller, inbox, dropped, panicked>>

CloseChannel(r) == [channel EXCEPT ![r].closed = TRUE]

Deliver ==
  /\ reading # {}
  /\ \E r \in reading :
       /\ channel' = [channel EXCEPT ![r] = [values |-> 1, closed |-> TRUE]]
       /\ panicked' = (panicked \/ channel[r].closed)
  /\ reading' = {}
  /\ UNCHANGED <<client, pending, caller, server, dropped>>

-----------------------------------------------------------------------------
\* The three ways out of request's select; with several open it takes any of them.
Receive(r) ==
  /\ caller[r] = "sent" /\ (channel[r].values = 1 \/ channel[r].closed)
  /\ caller' = [caller EXCEPT ![r] = IF channel[r].values = 1 THEN "ok" ELSE "exited"]
  /\ channel' = [channel EXCEPT ![r].values = 0]
  /\ UNCHANGED <<client, pending, server, reading, dropped, panicked>>

Cancel(r) ==                             \* the context is over: abort or deadline
  /\ caller[r] = "sent"
  /\ caller' = [caller EXCEPT ![r] = "cancelled"] /\ pending' = pending \ {r}
  /\ UNCHANGED <<client, channel, server, reading, dropped, panicked>>

SeeDone(r) ==
  /\ caller[r] = "sent" /\ done
  /\ caller' = [caller EXCEPT ![r] = "exited"] /\ pending' = pending \ {r}
  /\ UNCHANGED <<client, channel, server, reading, dropped, panicked>>

\* Start goes on with the answer of its request; resources/list may fail.
Proceed ==
  /\ stage \in Handshake /\ caller[stage] \in Finished
  /\ LET answered == caller[stage] = "ok"
     IN CASE stage = "initialize" ->
               /\ stage' = IF answered /\ ~closed THEN "tools/list" ELSE "failed"
               /\ healthy' = healthy
          [] stage = "tools/list" ->
               /\ stage' = IF answered THEN "resources/list" ELSE "failed"
               /\ healthy' = healthy
          [] OTHER -> stage' = "up" /\ healthy' = TRUE
  /\ UNCHANGED <<process, closed, done, pending, channel, caller, server, reading, dropped, panicked>>

-----------------------------------------------------------------------------
Die ==                                                    \* the server exits
  /\ process = "alive" /\ process' = "dead" /\ inbox' = {}
  /\ UNCHANGED <<stage, healthy, closed, done, pending, channel, caller, outbox, reading, dropped, panicked>>

\* Mutant of Wake: a client that is being closed wakes nobody.
WakeMutant == IF closed THEN UNCHANGED <<done, dropped, pending>>
              ELSE done' = TRUE /\ dropped' = pending /\ pending' = {}

Wake == done' = TRUE /\ dropped' = pending /\ pending' = {}

\* waitLoop under the mutex, after cmd.Wait closed the pipe: unread answers are lost.
Reap ==
  /\ process = "dead" /\ process' = "reaped" /\ outbox' = {}
  /\ healthy' = FALSE /\ Wake
  /\ UNCHANGED <<stage, closed, channel, caller, inbox, reading, panicked>>

\* waitLoop without the mutex: it closes what it took, one channel after the other.
Forget(r) ==
  /\ r \in dropped /\ dropped' = dropped \ {r}
  /\ channel' = CloseChannel(r) /\ panicked' = (panicked \/ channel[r].closed)
  /\ UNCHANGED <<client, pending, caller, server, reading>>

\* Close marks the client, and kills the server unless there is none.
Close ==
  /\ ~closed /\ stage \in {"up", "failed"}
  /\ closed' = TRUE /\ healthy' = FALSE
  /\ done' = (done \/ process = "none")
  /\ process' = IF process = "alive" THEN "dead" ELSE process
  /\ inbox' = {}
  /\ UNCHANGED <<stage, pending, channel, caller, outbox, reading, dropped, panicked>>

Next ==
  \/ Start \/ Proceed \/ Deliver \/ Die \/ Reap \/ Close
  \/ \E r \in Requests : \/ Register(r) \/ Write(r) \/ Answer(r) \/ Read(r)
                         \/ Receive(r) \/ Cancel(r) \/ SeeDone(r) \/ Forget(r)

(* The goroutines make progress.  The server owes nothing; deadlines are left out
   on purpose, so that WokenByExit does not rest on them. *)
Fairness ==
  /\ WF_vars(Reap) /\ WF_vars(Deliver)
  /\ \A r \in Requests : /\ WF_vars(Write(r)) /\ WF_vars(Forget(r))
                         /\ WF_vars(Receive(r) \/ SeeDone(r))

Spec == Init /\ [][Next]_vars /\ Fairness

-----------------------------------------------------------------------------
(* The goroutines never close a channel twice and never send to a closed one,
   either of which ends TL Studio: whoever takes a request out of pending under
   the mutex owns its channel (request, readLoop, waitLoop). *)
NoPanic == ~panicked

(* Nobody waits for a dead server: when the process is gone, each request
   returns, whether it was registered before or after waitLoop emptied pending,
   and without the help of its deadline (request, waitLoop, Close). *)
WokenByExit ==
  \A r \in Requests :
    (caller[r] \in Asking /\ process \in {"dead", "reaped"}) ~> (caller[r] \in Finished)
=============================================================================
