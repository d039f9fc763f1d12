------------------------------ MODULE AgentRun -----------------------------
(***************************************************************************)
(* Runs of the Native Agent (native_agent_runtime.go) and the session      *)
(* commands that start, abort and delete under them                        *)
(* (session_command_contract.go).                                          *)
(*                                                                         *)
(* A prompt is an HTTP handler until its run is accepted, then a goroutine *)
(* that asks the model, executes the tools it requests, saves one message  *)
(* per tool round and one when it ends.  The map runs, under the runtime's *)
(* mutex, allows one goroutine per session.  Aborts and deletes come from  *)
(* other handlers between any two steps.  The session store is seen here   *)
(* through its writes: each lists the session, whether it existed or not,  *)
(* and appends to its transcript.                                          *)
(***************************************************************************)
EXTENDS Naturals, Sequences

CONSTANTS
  Prompts, Sessions, NoPrompt,
  SessionOf,          \* [Prompts -> Sessions]
  Routed,             \* the prompts whose model is chosen by a request router
  Required,           \* the prompts nativePromptRequiresExecution recognises
  Signatures,         \* tool calls: a name with its arguments
  Mutating,           \* those whose tool can write or execute
  MaxIterations, MaxToolRounds, MaxToolsPerRound, MaxRepeatedCalls, MaxFallbacks,
  StoreMayFail        \* whether the session store's writes can fail

ASSUME PromptAssumption == SessionOf \in [Prompts -> Sessions] /\ NoPrompt \notin Prompts
ASSUME SubsetAssumption == Mutating \subseteq Signatures
ASSUME BoundAssumption ==
  /\ MaxIterations \in Nat \ {0} /\ MaxToolRounds \in Nat \ {0}
  /\ MaxToolsPerRound \in Nat \ {0}
  /\ MaxRepeatedCalls \in Nat \ {0} /\ MaxFallbacks \in Nat
ASSUME StoreAssumption == StoreMayFail \in BOOLEAN

VARIABLES
  runs,        \* [Sessions -> Prompts \cup {NoPrompt}]: the runtime's handles
  cancelled,   \* the runs whose context is cancelled
  pc,          \* where each prompt's handler or goroutine stands
  loop,        \* [Prompts -> record]: the local variables of runLoop
  listed,      \* the sessions in the store
  log,         \* [Sessions -> Seq(message)]: the transcripts
  \* history, read by the properties only
  done,        \* [Prompts -> [Signatures -> Nat]]: the tool calls each run executed
  effects,     \* [Prompts -> Nat]: how many of them changed the project
  requests,    \* [Prompts -> Nat]: the requests each run sent to its model
  spoiled,     \* the prompts whose transcript a failed write or a delete touched
  deleted      \* the sessions a delete was acknowledged for

control == <<runs, cancelled, pc>>
store == <<listed, log, spoiled>>
history == <<done, effects, requests>>
vars == <<control, loop, store, history, deleted>>

\* The handle is in runs from Register to Finish.
Accepted == {"routing", "turn", "model", "fallback", "tools", "ending", "failing",
             "notify", "finishing"}
Active == Accepted \cup {"registered", "marked"}
Ended == {"notify", "finishing", "done"}
Endings == {"final", "cancelled", "error"}

FreshLoop == [iteration |-> 0, rounds |-> 0, fallbacks |-> 0, guarded |-> FALSE,
              worked |-> FALSE, repeated |-> [g \in Signatures |-> 0],
              calls |-> <<>>, round |-> 0, err |-> "none"]

Init == /\ runs = [s \in Sessions |-> NoPrompt]
        /\ cancelled = {}
        /\ pc = [p \in Prompts |-> "new"]
        /\ loop = [p \in Prompts |-> FreshLoop]
        /\ listed = Sessions
        /\ log = [s \in Sessions |-> <<>>]
        /\ done = [p \in Prompts |-> [g \in Signatures |-> 0]]
        /\ effects = [p \in Prompts |-> 0]
        /\ requests = [p \in Prompts |-> 0]
        /\ spoiled = {}
        /\ deleted = {}

Goto(p, label) == pc' = [pc EXCEPT ![p] = label]

\* The error runLoop returns, and the message persistFailure makes of it.
Fail(p, err) == /\ Goto(p, "failing")
                /\ loop' = [loop EXCEPT ![p].err = err]

\* An error of a call that takes the run's context.
Errors(p) == {"error"} \cup (IF p \in cancelled THEN {"cancelled"} ELSE {})

-----------------------------------------------------------------------------
(* Writes of the session store.                                            *)

Append1(s, m) == log' = [log EXCEPT ![s] = Append(@, m)]
List(p) == listed' = listed \cup {SessionOf[p]}

\* Every writer lists a session that is missing and starts its snapshot anew.
Saves(p, kind, n) ==
  /\ List(p)
  /\ Append1(SessionOf[p], [by |-> p, kind |-> kind, effects |-> n])
  /\ UNCHANGED spoiled

\* It fails before it lists the session, before the snapshot is written, or after.
SaveFails(p, kind, n) ==
  /\ StoreMayFail
  /\ \/ UNCHANGED <<listed, log>>
     \/ List(p) /\ UNCHANGED log
     \/ List(p) /\ Append1(SessionOf[p], [by |-> p, kind |-> kind, effects |-> n])
  /\ spoiled' = spoiled \cup {p}

-----------------------------------------------------------------------------
(* POST /local/sessions/{id}/runs.                                         *)

\* requireSession; a model no provider supports is refused by Start as well.
CheckSession(p) ==
  /\ pc[p] = "new"
  /\ \/ SessionOf[p] \in listed /\ Goto(p, "checked")
     \/ Goto(p, "rejected")
  /\ UNCHANGED <<runs, cancelled, loop, store, history, deleted>>

\* The check and the insertion into runs are one critical section.
RegisterMutant(p) ==           \* the insertion does not look for another run
  /\ pc[p] = "checked"
  /\ Goto(p, "registered") /\ runs' = [runs EXCEPT ![SessionOf[p]] = p]
  /\ UNCHANGED <<cancelled, loop, store, history, deleted>>
Register(p) ==
  /\ pc[p] = "checked"
  /\ IF runs[SessionOf[p]] # NoPrompt
     THEN Goto(p, "rejected") /\ UNCHANGED runs
     ELSE Goto(p, "registered") /\ runs' = [runs EXCEPT ![SessionOf[p]] = p]
  /\ UNCHANGED <<cancelled, loop, store, history, deleted>>

Unregister(p) == runs' = [runs EXCEPT ![SessionOf[p]] = NoPrompt]

\* markSessionExecution lists the session again if it was deleted meanwhile.
Mark(p) ==
  /\ pc[p] = "registered"
  /\ \/ /\ List(p) /\ UNCHANGED <<log, spoiled, runs>>
        /\ Goto(p, "marked")
     \/ /\ StoreMayFail
        /\ List(p) \/ UNCHANGED listed
        /\ UNCHANGED <<log, spoiled>>
        /\ Goto(p, "rejected") /\ Unregister(p)
  /\ UNCHANGED <<cancelled, loop, history, deleted>>

\* recordAcceptedRun appends the user's message; the goroutine starts.
Record(p) ==
  /\ pc[p] = "marked"
  /\ \/ Saves(p, "user", 0) /\ Goto(p, "routing") /\ UNCHANGED runs
     \/ SaveFails(p, "user", 0) /\ Goto(p, "rejected") /\ Unregister(p)
  /\ UNCHANGED <<cancelled, loop, history, deleted>>

-----------------------------------------------------------------------------
(* runLoop.                                                                *)

\* Routing, resolving the model, reading the transcript and the tools.
Prepare(p) ==
  /\ pc[p] = "routing"
  /\ \/ Goto(p, "turn") /\ UNCHANGED loop
     \/ \E err \in Errors(p) : Fail(p, err)
  /\ UNCHANGED <<runs, cancelled, store, history, deleted>>

\* The head of the for loop.
TurnOffByOneMutant(p) ==       \* one iteration too many
  /\ pc[p] = "turn"
  /\ IF loop[p].iteration > MaxIterations THEN Fail(p, "error")
     ELSE IF p \in cancelled THEN Fail(p, "cancelled")
     ELSE /\ Goto(p, "model")
          /\ loop' = [loop EXCEPT ![p].iteration = @ + 1]
  /\ UNCHANGED <<runs, cancelled, store, history, deleted>>
TurnReleasesMutant(p) ==       \* the handle is dropped before the failure is saved
  /\ pc[p] = "turn"
  /\ IF loop[p].iteration >= MaxIterations THEN Fail(p, "error") /\ Unregister(p)
     ELSE IF p \in cancelled THEN Fail(p, "cancelled") /\ Unregister(p)
     ELSE /\ Goto(p, "model")
          /\ loop' = [loop EXCEPT ![p].iteration = @ + 1]
          /\ UNCHANGED runs
  /\ UNCHANGED <<cancelled, store, history, deleted>>
TurnSpinsMutant(p) ==          \* continue in place of return
  /\ pc[p] = "turn"
  /\ IF loop[p].iteration >= MaxIterations THEN Fail(p, "error")
     ELSE IF p \in cancelled THEN UNCHANGED <<pc, loop>>
     ELSE /\ Goto(p, "model")
          /\ loop' = [loop EXCEPT ![p].iteration = @ + 1]
  /\ UNCHANGED <<runs, cancelled, store, history, deleted>>
Turn(p) ==
  /\ pc[p] = "turn"
  /\ IF loop[p].iteration >= MaxIterations THEN Fail(p, "error")
     ELSE IF p \in cancelled THEN Fail(p, "cancelled")
     ELSE /\ Goto(p, "model")
          /\ loop' = [loop EXCEPT ![p].iteration = @ + 1]
  /\ UNCHANGED <<runs, cancelled, store, history, deleted>>

\* A turn of the model that failed: without a router, or after the last
\* fallback, it ends the run.
ModelFails(p, err) ==
  IF p \in Routed /\ loop[p].fallbacks < MaxFallbacks
  THEN /\ Goto(p, "fallback")
       /\ loop' = [loop EXCEPT ![p].err = err]
  ELSE Fail(p, err)

\* Text without tool calls.  Where execution is required and none was observed
\* the first such answer is sent back to the model, the next one is an error.
ModelAnswersMutant(p) ==       \* the second answer without work is accepted
  IF p \in Required /\ ~loop[p].worked /\ ~loop[p].guarded
  THEN loop' = [loop EXCEPT ![p].guarded = TRUE] /\ UNCHANGED pc
  ELSE Goto(p, "ending") /\ UNCHANGED loop
ModelAnswers(p) ==
  IF p \in Required /\ ~loop[p].worked
  THEN IF ~loop[p].guarded
       THEN loop' = [loop EXCEPT ![p].guarded = TRUE] /\ UNCHANGED pc
       ELSE ModelFails(p, "error")
  ELSE Goto(p, "ending") /\ UNCHANGED loop

\* Tool calls: the round is counted before its limits are tested.
ModelCalls(p, calls) ==
  IF loop[p].rounds >= MaxToolRounds \/ Len(calls) > MaxToolsPerRound
  THEN /\ Goto(p, "failing")
       /\ loop' = [loop EXCEPT ![p].rounds = @ + 1, ![p].err = "error"]
  ELSE /\ Goto(p, "tools")
       /\ loop' = [loop EXCEPT ![p].rounds = @ + 1, ![p].calls = calls, ![p].round = 0]

\* Complete returns an error (a timeout, an empty response and a cancelled
\* context among them), text, or tool calls.
Requests == UNION {[1..n -> Signatures] : n \in 1..(MaxToolsPerRound + 1)}
Model(p) ==
  /\ pc[p] = "model"
  /\ \/ \E err \in Errors(p) : ModelFails(p, err)
     \/ ModelAnswers(p)
     \/ \E calls \in Requests : ModelCalls(p, calls)
  /\ requests' = [requests EXCEPT ![p] = @ + 1]
  /\ UNCHANGED <<runs, cancelled, store, done, effects, deleted>>

\* The router has no other route, fails, or names one whose model is resolved
\* or not; a new route gets a new execution guard.
FallbackMutant(p) ==           \* the fallback is not counted
  /\ pc[p] = "fallback"
  /\ \/ Fail(p, loop[p].err)
     \/ \E err \in Errors(p) : Fail(p, err)
     \/ /\ Goto(p, "model")
        /\ loop' = [loop EXCEPT ![p].guarded = FALSE, ![p].err = "none"]
  /\ UNCHANGED <<runs, cancelled, store, history, deleted>>
Fallback(p) ==
  /\ pc[p] = "fallback"
  /\ \/ Fail(p, loop[p].err)
     \/ \E err \in Errors(p) : Fail(p, err)
     \/ /\ Goto(p, "model")
        /\ loop' = [loop EXCEPT ![p].fallbacks = @ + 1, ![p].guarded = FALSE, ![p].err = "none"]
  /\ UNCHANGED <<runs, cancelled, store, history, deleted>>

\* One tool call.  A call repeated too often ends the run at once, and with it
\* the round whose message is not saved yet.  The context is not looked at
\* between the calls of a round.
Execute(p) ==
  LET g == Head(loop[p].calls) IN
  /\ pc[p] = "tools" /\ loop[p].calls # <<>>
  /\ \/ /\ loop[p].repeated[g] >= MaxRepeatedCalls
        /\ Goto(p, "failing")
        /\ loop' = [loop EXCEPT ![p].err = "repeated"]
        /\ UNCHANGED <<done, effects>>
     \/ /\ loop[p].repeated[g] < MaxRepeatedCalls
        /\ done' = [done EXCEPT ![p][g] = @ + 1]
        /\ \/ /\ g \in Mutating
              /\ effects' = [effects EXCEPT ![p] = @ + 1]
              /\ loop' = [loop EXCEPT ![p].repeated[g] = @ + 1, ![p].calls = Tail(@),
                                      ![p].round = @ + 1, ![p].worked = TRUE]
           \/ /\ UNCHANGED effects          \* a read, or a tool that failed
              /\ loop' = [loop EXCEPT ![p].repeated[g] = @ + 1, ![p].calls = Tail(@)]
        /\ UNCHANGED pc
  /\ UNCHANGED <<runs, cancelled, store, requests, deleted>>

\* The round's message, with the activities and changes of its calls.
SaveRoundMutant(p) ==          \* a cancelled round is dropped
  /\ pc[p] = "tools" /\ loop[p].calls = <<>>
  /\ \/ p \in cancelled /\ UNCHANGED store /\ Fail(p, "cancelled")
     \/ /\ p \notin cancelled /\ Saves(p, "tools", loop[p].round)
        /\ Goto(p, "turn") /\ UNCHANGED loop
     \/ SaveFails(p, "tools", loop[p].round) /\ Fail(p, "error")
  /\ UNCHANGED <<runs, cancelled, history, deleted>>
SaveRound(p) ==
  /\ pc[p] = "tools" /\ loop[p].calls = <<>>
  /\ \/ /\ Saves(p, "tools", loop[p].round)
        /\ Goto(p, "turn") /\ UNCHANGED loop
     \/ SaveFails(p, "tools", loop[p].round) /\ Fail(p, "error")
  /\ UNCHANGED <<runs, cancelled, history, deleted>>

\* The final answer.
SaveFinal(p) ==
  /\ pc[p] = "ending"
  /\ \/ Saves(p, "final", 0) /\ Goto(p, "notify") /\ UNCHANGED loop
     \/ SaveFails(p, "final", 0) /\ Fail(p, "error")
  /\ UNCHANGED <<runs, cancelled, history, deleted>>

\* persistFailure; an error of the store is ignored.
PersistFailureMutant(p) ==     \* nothing is written for a cancelled run
  /\ pc[p] = "failing"
  /\ LET kind == IF loop[p].err = "cancelled" THEN "cancelled" ELSE "error" IN
       IF kind = "cancelled" THEN UNCHANGED store
       ELSE Saves(p, kind, 0) \/ SaveFails(p, kind, 0)
  /\ Goto(p, "notify")
  /\ UNCHANGED <<runs, cancelled, loop, history, deleted>>
PersistFailure(p) ==
  /\ pc[p] = "failing"
  /\ LET kind == IF loop[p].err = "cancelled" THEN "cancelled" ELSE "error" IN
       Saves(p, kind, 0) \/ SaveFails(p, kind, 0)
  /\ Goto(p, "notify")
  /\ UNCHANGED <<runs, cancelled, loop, history, deleted>>

\* session.changed is published while the run is still in runs.
Notify(p) == /\ pc[p] = "notify"
             /\ Goto(p, "finishing")
             /\ UNCHANGED <<runs, cancelled, loop, store, history, deleted>>

Finish(p) == /\ pc[p] = "finishing"
             /\ Goto(p, "done")
             /\ Unregister(p)
             /\ UNCHANGED <<cancelled, loop, store, history, deleted>>

-----------------------------------------------------------------------------
(* The other commands.                                                     *)

\* Abort cancels the context of the run it finds, if the session exists.
Abort(s) == /\ s \in listed /\ runs[s] # NoPrompt
            /\ cancelled' = cancelled \cup {runs[s]}
            /\ UNCHANGED <<runs, pc, loop, store, history, deleted>>

\* Delete removes the session and its snapshot, whether or not it has a run.
Delete(s) == /\ s \in listed
             /\ listed' = listed \ {s}
             /\ log' = [log EXCEPT ![s] = <<>>]
             /\ spoiled' = spoiled \cup {p \in Prompts : SessionOf[p] = s /\ pc[p] \in Accepted \cup {"done"}}
             /\ deleted' = deleted \cup {s}
             /\ UNCHANGED <<control, loop, history>>

-----------------------------------------------------------------------------
Step(p) == \/ Register(p) \/ Mark(p) \/ Record(p) \/ Prepare(p) \/ Turn(p)
           \/ Model(p) \/ Fallback(p) \/ SaveRound(p) \/ SaveFinal(p)
           \/ PersistFailure(p) \/ Notify(p) \/ Finish(p)

Next == \/ \E p \in Prompts : CheckSession(p) \/ Step(p) \/ Execute(p)
        \/ \E s \in Sessions : Abort(s) \/ Delete(s)

\* Handlers and goroutines that can run do run, and a request to a model ends
\* (it has a deadline).  A tool may wait for its permission or its answer for
\* ever, unless its run is cancelled.
Fairness == \A p \in Prompts : /\ WF_vars(Step(p))
                               /\ WF_vars(p \in cancelled /\ Execute(p))

Spec == Init /\ [][Next]_vars
FairSpec == Spec /\ Fairness

-----------------------------------------------------------------------------
(* Correctness.                                                            *)

Message == [by : Prompts, kind : Endings \cup {"user", "tools"}, effects : Nat]

TypeOK ==
  /\ runs \in [Sessions -> Prompts \cup {NoPrompt}]
  /\ cancelled \in SUBSET Prompts
  /\ pc \in [Prompts -> Active \cup {"new", "checked", "rejected", "done"}]
  /\ loop \in [Prompts ->
       [iteration : 0..MaxIterations, rounds : 0..(MaxToolRounds + 1),
        fallbacks : 0..MaxFallbacks, guarded : BOOLEAN, worked : BOOLEAN,
        repeated : [Signatures -> 0..MaxRepeatedCalls], calls : Seq(Signatures),
        round : Nat, err : {"none", "error", "cancelled", "repeated"}]]
  /\ listed \in SUBSET Sessions
  /\ log \in [Sessions -> Seq(Message)]
  /\ done \in [Prompts -> [Signatures -> Nat]]
  /\ effects \in [Prompts -> Nat] /\ requests \in [Prompts -> Nat]
  /\ spoiled \in SUBSET Prompts
  /\ deleted \in SUBSET Sessions

\* A session has at most one active run, and runs holds exactly that one, so
\* that an abort reaches it.  (Start, finishRun)
OneRunPerSession ==
  \A s \in Sessions :
    {p \in Prompts : SessionOf[p] = s /\ pc[p] \in Active} = {runs[s]} \ {NoPrompt}

\* The messages of two runs never interleave in a transcript.  (the handle is
\* kept until persistFailure has written)
RunsDoNotInterleave ==
  \A s \in Sessions : \A i, j, k \in 1..Len(log[s]) :
    i < j /\ j < k /\ log[s][i].by = log[s][k].by => log[s][j].by = log[s][i].by

\* A run that has ended left exactly one ending in its transcript, after
\* everything else it wrote, unless a write failed or the session was deleted.
\* (runLoop, persistFailure)
EndingsOf(p) == {i \in 1..Len(log[SessionOf[p]]) :
                   log[SessionOf[p]][i].by = p /\ log[SessionOf[p]][i].kind \in Endings}
EndedRunHasOneEnding ==
  \A p \in Prompts :
    pc[p] \in Ended /\ p \notin spoiled =>
      \E i \in EndingsOf(p) :
        /\ EndingsOf(p) = {i}
        /\ \A j \in 1..Len(log[SessionOf[p]]) : log[SessionOf[p]][j].by = p => j <= i

\* The guards of the loop bound what a run does: executions of one call,
\* and requests to models, fallbacks and guard retries included.
LoopIsBounded ==
  \A p \in Prompts :
    /\ \A g \in Signatures : done[p][g] <= MaxRepeatedCalls
    /\ requests[p] <= MaxIterations + 2 * MaxFallbacks + 1

\* A final answer to a prompt that asks for execution is given only after some
\* tool that writes or executes has succeeded.  (executionWorkObserved)
NoFinalWithoutWork ==
  \A s \in Sessions : \A i \in 1..Len(log[s]) :
    log[s][i].kind = "final" /\ log[s][i].by \in Required => effects[log[s][i].by] > 0

\* Once a run has ended, the transcript shows every change it made to the project,
\* unless the repetition guard stopped it within a round, whose changes are lost.
\* (semantic.Activities and semantic.Changes, saved once per round)
EffectsIn(messages, p) ==
  LET sum[i \in 0..Len(messages)] ==
        IF i = 0 THEN 0
        ELSE sum[i - 1] + (IF messages[i].by = p THEN messages[i].effects ELSE 0)
  IN sum[Len(messages)]
EffectsRecorded ==
  \A p \in Prompts :
    pc[p] \in Ended /\ p \notin spoiled /\ loop[p].err # "repeated"
      => EffectsIn(log[SessionOf[p]], p) = effects[p]

\* An aborted run ends: whatever it waits for returns, no store failure keeps
\* it, and the session can be prompted again.  (context of every call)
AbortEnds == \A p \in Prompts : p \in cancelled /\ pc[p] \in Active ~> pc[p] \in {"done", "rejected"}

\* A session whose deletion was acknowledged does not come back.
DeletedStaysDeleted == deleted \cap listed = {}
=============================================================================
