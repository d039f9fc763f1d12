--------------------------- MODULE AgentRunProofs --------------------------
(***************************************************************************)
(* Proofs about AgentRun for any prompts, sessions, tools and limits.      *)
(***************************************************************************)
EXTENDS AgentRun, TLAPS

LoopType ==
  [iteration : 0..MaxIterations, rounds : 0..(MaxToolRounds + 1),
   fallbacks : 0..MaxFallbacks, guarded : BOOLEAN, worked : BOOLEAN,
   repeated : [Signatures -> 0..MaxRepeatedCalls], calls : Seq(Signatures),
   round : Nat, err : {"none", "error", "cancelled", "repeated"}]

\* The counters stay below their limits where the loop is about to raise them.
Room ==
  \A p \in Prompts :
    /\ pc[p] = "fallback" => loop[p].fallbacks < MaxFallbacks
    /\ pc[p] \notin {"failing", "notify", "finishing", "done"} => loop[p].rounds <= MaxToolRounds

ControlType ==
  /\ runs \in [Sessions -> Prompts \cup {NoPrompt}]
  /\ cancelled \in SUBSET Prompts
  /\ pc \in [Prompts -> Active \cup {"new", "checked", "rejected", "done"}]
StoreType ==
  /\ listed \in SUBSET Sessions
  /\ log \in [Sessions -> Seq(Message)]
  /\ spoiled \in SUBSET Prompts
HistoryType ==
  /\ done \in [Prompts -> [Signatures -> Nat]]
  /\ effects \in [Prompts -> Nat] /\ requests \in [Prompts -> Nat]
LoopOK == loop \in [Prompts -> LoopType]

TypeInv == ControlType /\ StoreType /\ HistoryType /\ LoopOK /\ Room /\ deleted \in SUBSET Sessions

\* The parts together are the type invariant.
LEMMA TypeParts == TypeInv => TypeOK
BY DEF TypeInv, ControlType, StoreType, HistoryType, LoopOK, LoopType, TypeOK

-----------------------------------------------------------------------------
(* Operators.                                                              *)

\* The labels of a run under way, spelt out.
LEMMA ActiveLabels ==
  /\ Active = {"routing", "turn", "model", "fallback", "tools", "ending", "failing",
               "notify", "finishing", "registered", "marked"}
  /\ Accepted \subseteq Active
BY DEF Active, Accepted

\* A move to any label keeps the type of pc.
LEMMA GotoType ==
  ASSUME ControlType, NEW p \in Prompts,
         NEW l \in Active \cup {"new", "checked", "rejected", "done"}, Goto(p, l)
  PROVE  /\ pc' \in [Prompts -> Active \cup {"new", "checked", "rejected", "done"}]
         /\ pc'[p] = l /\ \A q \in Prompts : q # p => pc'[q] = pc[q]
BY DEF ControlType, Goto

\* A write of the store appends one message or none.
LEMMA WriteType ==
  ASSUME StoreType, NEW p \in Prompts,
         NEW kind \in Endings \cup {"user", "tools"}, NEW n \in Nat,
         Saves(p, kind, n) \/ SaveFails(p, kind, n)
  PROVE  StoreType'
<1> DEFINE m == [by |-> p, kind |-> kind, effects |-> n]
<1>1. SessionOf[p] \in Sessions
  BY PromptAssumption
<1>2. m \in Message
  BY DEF Message
<1>3. log' = log \/ log' = [log EXCEPT ![SessionOf[p]] = Append(@, m)]
  BY DEF Saves, SaveFails, Append1
<1>4. Append(log[SessionOf[p]], m) \in Seq(Message)
  <2> HIDE DEF m
  <2>1. log[SessionOf[p]] \in Seq(Message)
    BY <1>1 DEF StoreType
  <2> QED BY <1>2, <2>1
<1>5. log' \in [Sessions -> Seq(Message)]
  <2> HIDE DEF m
  <2> QED BY <1>1, <1>3, <1>4 DEF StoreType
<1> QED BY <1>1, <1>5 DEF StoreType, Saves, SaveFails, List

\* One loop changes, to a record of its type.
LEMMA LoopStep ==
  ASSUME LoopOK, NEW p \in Prompts, NEW r \in LoopType, loop' = [loop EXCEPT ![p] = r]
  PROVE  LoopOK' /\ loop'[p] = r /\ \A q \in Prompts : q # p => loop'[q] = loop[q]
BY DEF LoopOK

\* A failure keeps the type of the loops.
LEMMA FailType ==
  ASSUME LoopOK, NEW p \in Prompts, NEW err \in {"none", "error", "cancelled", "repeated"},
         Fail(p, err)
  PROVE  /\ LoopOK' /\ Goto(p, "failing")
         /\ loop'[p] = [loop[p] EXCEPT !.err = err]
         /\ \A q \in Prompts : q # p => loop'[q] = loop[q]
<1>1. [loop[p] EXCEPT !.err = err] \in LoopType
  BY DEF LoopOK, LoopType
<1>2. loop' = [loop EXCEPT ![p] = [loop[p] EXCEPT !.err = err]] /\ Goto(p, "failing")
  BY DEF Fail, LoopOK
<1> QED BY <1>1, <1>2, LoopStep

\* The loop of a new run is well typed.
LEMMA FreshType == FreshLoop \in LoopType
BY BoundAssumption DEF FreshLoop, LoopType

\* The invariant holds at the start.
LEMMA TypeInit == Init => TypeInv
<1> SUFFICES ASSUME Init PROVE TypeInv
  OBVIOUS
<1>1. LoopOK
  BY FreshType DEF Init, LoopOK
<1>2. ControlType /\ StoreType /\ HistoryType /\ deleted \in SUBSET Sessions
  BY DEF Init, ControlType, StoreType, HistoryType
<1>3. Room
  <2> SUFFICES ASSUME NEW p \in Prompts
               PROVE  pc[p] # "fallback" /\ loop[p].rounds <= MaxToolRounds
    BY DEF Room
  <2>1. pc[p] = "new" /\ loop[p] = FreshLoop
    BY DEF Init
  <2>2. FreshLoop.rounds = 0
    BY DEF FreshLoop
  <2> QED BY <2>1, <2>2, BoundAssumption
<1> QED BY <1>1, <1>2, <1>3 DEF TypeInv

Over == {"failing", "notify", "finishing", "done"}

\* A move that leaves the loops alone keeps them in bounds, unless it goes back
\* into the loop from a label where its round may be over the limit.
LEMMA MoveKeepsRoom ==
  ASSUME ControlType, Room, UNCHANGED loop, NEW p \in Prompts,
         NEW l \in (Active \cup {"new", "checked", "rejected", "done"}) \ {"fallback"},
         Goto(p, l), pc[p] \notin Over \/ l \in Over
  PROVE  Room'
BY GotoType DEF Room, Over

\* The same where the loop of p changes too.
LEMMA LoopKeepsRoom ==
  ASSUME ControlType, Room, NEW p \in Prompts,
         \A q \in Prompts : q # p => loop'[q] = loop[q] /\ pc'[q] = pc[q],
         pc'[p] = "fallback" => loop'[p].fallbacks < MaxFallbacks,
         pc'[p] \notin Over => loop'[p].rounds <= MaxToolRounds
  PROVE  Room'
BY DEF Room, Over

\* The handlers of prompts and commands.
LEMMA CommandTypes ==
  ASSUME TypeInv, NEW p \in Prompts,
         CheckSession(p) \/ Register(p) \/ Mark(p) \/ Record(p)
  PROVE  TypeInv'
<1> USE DEF TypeInv
<1>0. SessionOf[p] \in Sessions
  BY PromptAssumption
<1>1. CASE CheckSession(p)
  <2>1. ControlType'
    BY <1>1, GotoType, ActiveLabels DEF CheckSession, ControlType
  <2>2. Room'
    BY <1>1, MoveKeepsRoom, ActiveLabels DEF CheckSession, Over
  <2> QED BY <1>1, <2>1, <2>2 DEF CheckSession, store, history, StoreType, HistoryType, LoopOK
<1>2. CASE Register(p)
  <2>1. ControlType'
    BY <1>0, <1>2, GotoType, ActiveLabels DEF Register, ControlType
  <2>2. Room'
    BY <1>2, MoveKeepsRoom, ActiveLabels DEF Register, Over
  <2> QED BY <1>2, <2>1, <2>2 DEF Register, store, history, StoreType, HistoryType, LoopOK
<1>3. CASE Mark(p)
  <2>1. ControlType'
    BY <1>0, <1>3, GotoType, ActiveLabels DEF Mark, Unregister, ControlType
  <2>2. Room'
    BY <1>3, MoveKeepsRoom, ActiveLabels DEF Mark, Over
  <2>3. StoreType'
    BY <1>0, <1>3 DEF Mark, List, StoreType
  <2> QED BY <1>3, <2>1, <2>2, <2>3 DEF Mark, history, HistoryType, LoopOK
<1>4. CASE Record(p)
  <2>1. ControlType'
    BY <1>0, <1>4, GotoType, ActiveLabels DEF Record, Unregister, ControlType
  <2>2. Room'
    BY <1>4, MoveKeepsRoom, ActiveLabels DEF Record, Over
  <2>3. StoreType'
    BY <1>4, WriteType DEF Record
  <2> QED BY <1>4, <2>1, <2>2, <2>3 DEF Record, history, HistoryType, LoopOK
<1> QED BY <1>1, <1>2, <1>3, <1>4

\* Writes that end a round or a run.
LEMMA SaveTypes ==
  ASSUME TypeInv, NEW p \in Prompts,
         SaveRound(p) \/ SaveFinal(p) \/ PersistFailure(p) \/ Notify(p) \/ Finish(p)
  PROVE  TypeInv'
<1> USE DEF TypeInv
<1>0. SessionOf[p] \in Sessions
  BY PromptAssumption
<1>n. loop[p].round \in Nat
  BY DEF LoopOK, LoopType
\* A failed write of the loop ends in failing, a good one moves on.
<1>f. ASSUME Fail(p, "error"), UNCHANGED <<runs, cancelled>>
      PROVE  ControlType' /\ LoopOK' /\ Room'
  <2>1. ControlType'
    BY <1>f, FailType, GotoType, ActiveLabels DEF ControlType
  <2>2. LoopOK'
    BY <1>f, FailType
  <2>3. pc'[p] = "failing" /\ \A q \in Prompts : q # p => loop'[q] = loop[q] /\ pc'[q] = pc[q]
    BY <1>f, FailType, GotoType, ActiveLabels
  <2>4. Room'
    BY <2>3, LoopKeepsRoom DEF Over
  <2> QED BY <2>1, <2>2, <2>4
<1>g. ASSUME NEW l \in {"turn", "notify", "finishing", "done"}, Goto(p, l), UNCHANGED <<cancelled, loop>>,
             UNCHANGED runs \/ Unregister(p), pc[p] \notin Over \/ l \in Over
      PROVE  ControlType' /\ LoopOK' /\ Room'
  <2>1. ControlType'
    BY <1>0, <1>g, GotoType, ActiveLabels DEF ControlType, Unregister
  <2>2. Room'
    BY <1>g, MoveKeepsRoom, ActiveLabels
  <2> QED BY <1>g, <2>1, <2>2 DEF LoopOK
<1>1. CASE SaveRound(p)
  <2>1. StoreType'
    BY <1>1, <1>n, WriteType DEF SaveRound
  <2>2. ControlType' /\ LoopOK' /\ Room'
    BY <1>1, <1>f, <1>g DEF SaveRound, Over
  <2> QED BY <1>1, <2>1, <2>2 DEF SaveRound, history, HistoryType
<1>2. CASE SaveFinal(p)
  <2>1. StoreType'
    BY <1>2, WriteType DEF SaveFinal, Endings
  <2>2. ControlType' /\ LoopOK' /\ Room'
    BY <1>2, <1>f, <1>g DEF SaveFinal, Over
  <2> QED BY <1>2, <2>1, <2>2 DEF SaveFinal, history, HistoryType
<1>3. CASE PersistFailure(p)
  <2> DEFINE kind == IF loop[p].err = "cancelled" THEN "cancelled" ELSE "error"
  <2>1. kind \in Endings /\ (Saves(p, kind, 0) \/ SaveFails(p, kind, 0))
    BY <1>3 DEF PersistFailure, Endings
  <2>2. StoreType'
    <3> HIDE DEF kind
    <3> QED BY <2>1, WriteType
  <2>3. ControlType' /\ LoopOK' /\ Room'
    BY <1>3, <1>g DEF PersistFailure, Over
  <2> QED BY <1>3, <2>2, <2>3 DEF PersistFailure, history, HistoryType
<1>4. CASE Notify(p)
  <2>1. ControlType' /\ LoopOK' /\ Room'
    BY <1>4, <1>g DEF Notify, Over
  <2> QED BY <1>4, <2>1 DEF Notify, store, history, StoreType, HistoryType
<1>5. CASE Finish(p)
  <2>1. ControlType' /\ LoopOK' /\ Room'
    BY <1>5, <1>g DEF Finish, Over
  <2> QED BY <1>5, <2>1 DEF Finish, store, history, StoreType, HistoryType
<1> QED BY <1>1, <1>2, <1>3, <1>4, <1>5

\* A step of the loop: p moves to l with the local variables r.
LEMMA LoopMove ==
  ASSUME TypeInv, NEW p \in Prompts, NEW r \in LoopType,
         NEW l \in Active, Goto(p, l), loop' = [loop EXCEPT ![p] = r],
         l = "fallback" => r.fallbacks < MaxFallbacks,
         l \notin Over => r.rounds <= MaxToolRounds,
         UNCHANGED <<runs, cancelled>>
  PROVE  ControlType' /\ LoopOK' /\ Room'
<1> USE DEF TypeInv
<1>1. pc'[p] = l /\ \A q \in Prompts : q # p => pc'[q] = pc[q]
  BY GotoType
<1>2. ControlType'
  BY GotoType DEF ControlType
<1>3. LoopOK' /\ loop'[p] = r /\ \A q \in Prompts : q # p => loop'[q] = loop[q]
  BY LoopStep
<1>4. Room'
  BY <1>1, <1>3, LoopKeepsRoom
<1> QED BY <1>2, <1>3, <1>4

\* What the loop of p is, and that of a run that is not over.
LEMMA LoopOf ==
  ASSUME TypeInv, NEW p \in Prompts
  PROVE  /\ loop[p] \in LoopType
         /\ loop = [loop EXCEPT ![p] = loop[p]]
         /\ pc[p] \notin Over => loop[p].rounds <= MaxToolRounds
         /\ pc[p] = "fallback" => loop[p].fallbacks < MaxFallbacks
BY DEF TypeInv, LoopOK, Room, Over

\* A failure of the loop.
LEMMA FailMove ==
  ASSUME TypeInv, NEW p \in Prompts, NEW err \in {"none", "error", "cancelled", "repeated"},
         Fail(p, err), UNCHANGED <<runs, cancelled>>
  PROVE  ControlType' /\ LoopOK' /\ Room'
<1>1. [loop[p] EXCEPT !.err = err] \in LoopType
  BY LoopOf DEF LoopType
<1>2. loop' = [loop EXCEPT ![p] = [loop[p] EXCEPT !.err = err]] /\ Goto(p, "failing")
  BY DEF Fail, TypeInv, LoopOK
<1> QED BY <1>1, <1>2, LoopMove, ActiveLabels DEF Over

\* A move that leaves the local variables alone.
LEMMA StayMove ==
  ASSUME TypeInv, NEW p \in Prompts, NEW l \in Active \ {"fallback"}, Goto(p, l),
         pc[p] \notin Over, UNCHANGED <<runs, cancelled, loop>>
  PROVE  ControlType' /\ LoopOK' /\ Room'
BY LoopOf, LoopMove

\* A call under the run's context fails with one of two errors.
LEMMA ErrorValues == \A p \in Prompts : Errors(p) \subseteq {"error", "cancelled"}
BY DEF Errors

\* Routing and preparing keep the type.
LEMMA PrepareTypes == ASSUME TypeInv, NEW p \in Prompts, Prepare(p) PROVE TypeInv'
<1>1. CASE Goto(p, "turn") /\ UNCHANGED loop
  BY <1>1, StayMove, ActiveLabels DEF Prepare, Over, TypeInv, store, history, StoreType, HistoryType
<1>2. ASSUME NEW err \in Errors(p), Fail(p, err) PROVE TypeInv'
  <2>1. err \in {"none", "error", "cancelled", "repeated"}
    BY ErrorValues
  <2>2. ControlType' /\ LoopOK' /\ Room'
    BY <1>2, <2>1, FailMove DEF Prepare
  <2> QED BY <2>2 DEF Prepare, TypeInv, store, history, StoreType, HistoryType
<1> QED BY <1>1, <1>2 DEF Prepare

\* The head of the loop counts below its limit.
LEMMA TurnTypes == ASSUME TypeInv, NEW p \in Prompts, Turn(p) PROVE TypeInv'
<1>1. ControlType' /\ LoopOK' /\ Room'
  <2>1. ASSUME Fail(p, "error") \/ Fail(p, "cancelled") PROVE ControlType' /\ LoopOK' /\ Room'
    BY <2>1, FailMove DEF Turn
  <2>2. CASE /\ loop[p].iteration < MaxIterations
             /\ Goto(p, "model")
             /\ loop' = [loop EXCEPT ![p].iteration = @ + 1]
    <3> DEFINE r == [loop[p] EXCEPT !.iteration = @ + 1]
    <3>1. r \in LoopType /\ r.rounds = loop[p].rounds
      <4>1. loop[p].iteration + 1 \in 0..MaxIterations
        BY <2>2, LoopOf, BoundAssumption DEF LoopType
      <4> QED BY LoopOf, <4>1 DEF LoopType
    <3>2. loop' = [loop EXCEPT ![p] = r]
      BY <2>2 DEF TypeInv, LoopOK
    <3>3. loop[p].rounds <= MaxToolRounds
      BY LoopOf DEF Turn, Over
    <3> HIDE DEF r
    <3> QED BY <2>2, <3>1, <3>2, <3>3, LoopMove, ActiveLabels DEF Turn
  <2>3. loop[p].iteration \in Nat /\ MaxIterations \in Nat
    BY LoopOf, BoundAssumption DEF LoopType
  <2> QED BY <2>1, <2>2, <2>3 DEF Turn
<1> QED BY <1>1 DEF Turn, TypeInv, store, history, StoreType, HistoryType

\* A turn of the model that failed.
LEMMA ModelFailsMove ==
  ASSUME TypeInv, NEW p \in Prompts, NEW err \in {"error", "cancelled"},
         pc[p] = "model", ModelFails(p, err), UNCHANGED <<runs, cancelled>>
  PROVE  ControlType' /\ LoopOK' /\ Room'
<1>1. CASE Fail(p, err)
  BY <1>1, FailMove
<1>2. CASE /\ loop[p].fallbacks < MaxFallbacks
           /\ Goto(p, "fallback")
           /\ loop' = [loop EXCEPT ![p].err = err]
  <2> DEFINE r == [loop[p] EXCEPT !.err = err]
  <2>1. r \in LoopType /\ r.rounds = loop[p].rounds /\ r.fallbacks = loop[p].fallbacks
    BY LoopOf DEF LoopType
  <2>2. loop' = [loop EXCEPT ![p] = r]
    BY <1>2 DEF TypeInv, LoopOK
  <2>3. loop[p].rounds <= MaxToolRounds
    BY LoopOf DEF Over
  <2> HIDE DEF r
  <2> QED BY <1>2, <2>1, <2>2, <2>3, LoopMove, ActiveLabels
<1> QED BY <1>1, <1>2 DEF ModelFails

\* Whatever the model answers, the counters stay below their limits.
LEMMA ModelTypes == ASSUME TypeInv, NEW p \in Prompts, Model(p) PROVE TypeInv'
<1>a. pc[p] = "model" /\ UNCHANGED <<runs, cancelled, store, done, effects, deleted>>
      /\ requests' = [requests EXCEPT ![p] = @ + 1]
  BY DEF Model
<1>b. loop[p] \in LoopType /\ loop[p].rounds <= MaxToolRounds
  BY <1>a, LoopOf DEF Over
<1>1. ControlType' /\ LoopOK' /\ Room'
  <2>1. ASSUME NEW err \in Errors(p), ModelFails(p, err) PROVE ControlType' /\ LoopOK' /\ Room'
    BY <1>a, <2>1, ErrorValues, ModelFailsMove
  <2>2. CASE ModelAnswers(p)
    <3>1. CASE ModelFails(p, "error")
      BY <1>a, <3>1, ModelFailsMove
    <3>2. CASE loop' = [loop EXCEPT ![p].guarded = TRUE] /\ UNCHANGED pc
      <4> DEFINE r == [loop[p] EXCEPT !.guarded = TRUE]
      <4>1. r \in LoopType /\ r.rounds = loop[p].rounds
        BY <1>b DEF LoopType
      <4>2. loop' = [loop EXCEPT ![p] = r]
        BY <3>2 DEF TypeInv, LoopOK
      <4>3. Goto(p, "model")
        BY <1>a, <3>2 DEF Goto, TypeInv, ControlType
      <4> HIDE DEF r
      <4> QED BY <1>a, <1>b, <4>1, <4>2, <4>3, LoopMove, ActiveLabels
    <3>3. CASE Goto(p, "ending") /\ UNCHANGED loop
      BY <1>a, <3>3, StayMove, ActiveLabels DEF Over
    <3> QED BY <2>2, <3>1, <3>2, <3>3 DEF ModelAnswers
  <2>3. ASSUME NEW calls \in Requests, ModelCalls(p, calls) PROVE ControlType' /\ LoopOK' /\ Room'
    <3>0. calls \in Seq(Signatures)
      BY BoundAssumption DEF Requests
    <3>1. CASE /\ Goto(p, "failing")
               /\ loop' = [loop EXCEPT ![p].rounds = @ + 1, ![p].err = "error"]
      <4> DEFINE r == [loop[p] EXCEPT !.rounds = @ + 1, !.err = "error"]
      <4>1. r \in LoopType
        <5>1. loop[p].rounds + 1 \in 0..(MaxToolRounds + 1)
          BY <1>b, BoundAssumption DEF LoopType
        <5> QED BY <1>b, <5>1 DEF LoopType
      <4>2. loop' = [loop EXCEPT ![p] = r]
        BY <3>1 DEF TypeInv, LoopOK
      <4> HIDE DEF r
      <4> QED BY <1>a, <3>1, <4>1, <4>2, LoopMove, ActiveLabels DEF Over
    <3>2. CASE /\ loop[p].rounds < MaxToolRounds
               /\ Goto(p, "tools")
               /\ loop' = [loop EXCEPT ![p].rounds = @ + 1, ![p].calls = calls, ![p].round = 0]
      <4> DEFINE r == [loop[p] EXCEPT !.rounds = @ + 1, !.calls = calls, !.round = 0]
      <4>1. r \in LoopType /\ r.rounds <= MaxToolRounds
        <5>1. loop[p].rounds + 1 \in 0..(MaxToolRounds + 1) /\ loop[p].rounds + 1 <= MaxToolRounds
          BY <1>b, <3>2, BoundAssumption DEF LoopType
        <5> QED BY <1>b, <3>0, <5>1 DEF LoopType
      <4>2. loop' = [loop EXCEPT ![p] = r]
        BY <3>2 DEF TypeInv, LoopOK
      <4> HIDE DEF r
      <4> QED BY <1>a, <3>2, <4>1, <4>2, LoopMove, ActiveLabels
    <3>3. loop[p].rounds \in Nat /\ MaxToolRounds \in Nat
      BY <1>b, BoundAssumption DEF LoopType
    <3> QED BY <2>3, <3>1, <3>2, <3>3 DEF ModelCalls
  <2> QED BY <2>1, <2>2, <2>3 DEF Model
<1> QED BY <1>1, <1>a DEF TypeInv, store, StoreType, HistoryType

\* A fallback is taken only below its limit.
LEMMA FallbackTypes == ASSUME TypeInv, NEW p \in Prompts, Fallback(p) PROVE TypeInv'
<1>b. loop[p] \in LoopType /\ loop[p].rounds <= MaxToolRounds /\ loop[p].fallbacks < MaxFallbacks
  BY LoopOf DEF Fallback, Over
<1>1. ControlType' /\ LoopOK' /\ Room'
  <2>1. ASSUME Fail(p, loop[p].err) \/ \E err \in Errors(p) : Fail(p, err)
        PROVE  ControlType' /\ LoopOK' /\ Room'
    <3>1. PICK err \in {"none", "error", "cancelled", "repeated"} : Fail(p, err)
      BY <1>b, <2>1, ErrorValues DEF LoopType
    <3> QED BY <3>1, FailMove DEF Fallback
  <2>2. CASE /\ Goto(p, "model")
             /\ loop' = [loop EXCEPT ![p].fallbacks = @ + 1, ![p].guarded = FALSE, ![p].err = "none"]
    <3> DEFINE r == [loop[p] EXCEPT !.fallbacks = @ + 1, !.guarded = FALSE, !.err = "none"]
    <3>1. r \in LoopType /\ r.rounds = loop[p].rounds
      <4>1. loop[p].fallbacks + 1 \in 0..MaxFallbacks
        BY <1>b, BoundAssumption DEF LoopType
      <4> QED BY <1>b, <4>1 DEF LoopType
    <3>2. loop' = [loop EXCEPT ![p] = r]
      BY <2>2 DEF TypeInv, LoopOK
    <3> HIDE DEF r
    <3> QED BY <1>b, <2>2, <3>1, <3>2, LoopMove, ActiveLabels DEF Fallback
  <2> QED BY <2>1, <2>2 DEF Fallback
<1> QED BY <1>1 DEF Fallback, TypeInv, store, history, StoreType, HistoryType

\* What executing the next call does, in the terms the proofs need: the call is
\* refused, or it is counted where the guard and the history count it.
LEMMA ExecuteCases ==
  ASSUME TypeInv, NEW p \in Prompts, Execute(p)
  PROVE  \/ Fail(p, "repeated") /\ UNCHANGED <<done, effects>>
         \/ \E g \in Signatures, r \in LoopType :
              /\ loop[p].repeated[g] < MaxRepeatedCalls
              /\ loop' = [loop EXCEPT ![p] = r]
              /\ r.repeated = [loop[p].repeated EXCEPT ![g] = @ + 1]
              /\ r.rounds = loop[p].rounds /\ r.iteration = loop[p].iteration
              /\ r.fallbacks = loop[p].fallbacks /\ r.guarded = loop[p].guarded
              /\ done' = [done EXCEPT ![p][g] = @ + 1]
              /\ r.err = loop[p].err
              /\ \/ effects' = [effects EXCEPT ![p] = @ + 1] /\ r.round = loop[p].round + 1
                 \/ UNCHANGED effects /\ r.worked = loop[p].worked /\ r.round = loop[p].round
              /\ UNCHANGED pc
<1> DEFINE g == Head(loop[p].calls)
<1>1. loop[p] \in LoopType
  BY LoopOf
<1>2. loop[p].calls \in Seq(Signatures) /\ loop[p].calls # <<>>
  BY <1>1 DEF Execute, LoopType
<1>3. g \in Signatures /\ Tail(loop[p].calls) \in Seq(Signatures)
  BY <1>2
<1>4. \/ Fail(p, "repeated") /\ UNCHANGED <<done, effects>>
      \/ /\ loop[p].repeated[g] < MaxRepeatedCalls
         /\ done' = [done EXCEPT ![p][g] = @ + 1] /\ UNCHANGED pc
         /\ \/ /\ effects' = [effects EXCEPT ![p] = @ + 1]
               /\ loop' = [loop EXCEPT ![p].repeated[g] = @ + 1, ![p].calls = Tail(@),
                                       ![p].round = @ + 1, ![p].worked = TRUE]
            \/ /\ UNCHANGED effects
               /\ loop' = [loop EXCEPT ![p].repeated[g] = @ + 1, ![p].calls = Tail(@)]
  BY DEF Execute, Fail
<1> HIDE DEF g
<1>5. CASE loop[p].repeated[g] < MaxRepeatedCalls /\ done' = [done EXCEPT ![p][g] = @ + 1] /\ UNCHANGED pc
  <2>1. [loop[p].repeated EXCEPT ![g] = @ + 1] \in [Signatures -> 0..MaxRepeatedCalls]
    <3>1. loop[p].repeated \in [Signatures -> 0..MaxRepeatedCalls]
      BY <1>1 DEF LoopType
    <3>2. loop[p].repeated[g] + 1 \in 0..MaxRepeatedCalls
      <4>1. loop[p].repeated[g] \in 0..MaxRepeatedCalls
        BY <1>3, <3>1
      <4>2. MaxRepeatedCalls \in Nat
        BY BoundAssumption
      <4> QED BY <1>5, <4>1, <4>2
    <3> QED BY <1>3, <3>1, <3>2
  <2> DEFINE counted == [loop[p].repeated EXCEPT ![g] = @ + 1]
             rest == Tail(loop[p].calls)
  <2>2. CASE /\ effects' = [effects EXCEPT ![p] = @ + 1]
             /\ loop' = [loop EXCEPT ![p].repeated[g] = @ + 1, ![p].calls = Tail(@),
                                     ![p].round = @ + 1, ![p].worked = TRUE]
    <3> DEFINE r == [loop[p] EXCEPT !.repeated = counted, !.calls = rest,
                                   !.round = @ + 1, !.worked = TRUE]
    <3>1. loop' = [loop EXCEPT ![p] = r]
      BY <1>1, <2>2 DEF TypeInv, LoopOK, LoopType
    <3>2. r \in LoopType
      <4>1. loop[p].round + 1 \in Nat
        BY <1>1 DEF LoopType
      <4> HIDE DEF counted, rest
      <4> QED BY <1>1, <1>3, <2>1, <4>1 DEF LoopType, counted, rest
    <3>3. /\ r.repeated = counted
          /\ r.rounds = loop[p].rounds /\ r.iteration = loop[p].iteration
          /\ r.fallbacks = loop[p].fallbacks /\ r.guarded = loop[p].guarded
          /\ r.err = loop[p].err /\ r.round = loop[p].round + 1
      BY <1>1 DEF LoopType
    <3> HIDE DEF r
    <3> QED BY <1>3, <1>5, <2>2, <3>1, <3>2, <3>3
  <2>3. CASE /\ UNCHANGED effects
             /\ loop' = [loop EXCEPT ![p].repeated[g] = @ + 1, ![p].calls = Tail(@)]
    <3> DEFINE r == [loop[p] EXCEPT !.repeated = counted, !.calls = rest]
    <3>1. loop' = [loop EXCEPT ![p] = r]
      BY <1>1, <2>3 DEF TypeInv, LoopOK, LoopType
    <3>2. r \in LoopType
      <4> HIDE DEF counted, rest
      <4> QED BY <1>1, <1>3, <2>1 DEF LoopType, counted, rest
    <3>3. /\ r.repeated = counted
          /\ r.rounds = loop[p].rounds /\ r.iteration = loop[p].iteration
          /\ r.fallbacks = loop[p].fallbacks /\ r.guarded = loop[p].guarded
          /\ r.worked = loop[p].worked
          /\ r.err = loop[p].err /\ r.round = loop[p].round
      BY <1>1 DEF LoopType
    <3> HIDE DEF r
    <3> QED BY <1>3, <1>5, <2>3, <3>1, <3>2, <3>3
  <2> QED BY <1>4, <1>5, <2>2, <2>3
<1> QED BY <1>4, <1>5

\* A call is counted only below the limit of its repetitions.
LEMMA ExecuteTypes == ASSUME TypeInv, NEW p \in Prompts, Execute(p) PROVE TypeInv'
<1>a. pc[p] = "tools" /\ UNCHANGED <<runs, cancelled, store, requests, deleted>>
  BY DEF Execute
<1>1. CASE Fail(p, "repeated") /\ UNCHANGED <<done, effects>>
  <2>1. ControlType' /\ LoopOK' /\ Room'
    BY <1>1, <1>a, FailMove
  <2> QED BY <1>1, <1>a, <2>1 DEF TypeInv, store, StoreType, HistoryType
<1>2. CASE ~(Fail(p, "repeated") /\ UNCHANGED <<done, effects>>)
  <2>0. PICK g \in Signatures, r \in LoopType :
          /\ loop[p].repeated[g] < MaxRepeatedCalls
          /\ loop' = [loop EXCEPT ![p] = r]
          /\ r.repeated = [loop[p].repeated EXCEPT ![g] = @ + 1]
          /\ r.rounds = loop[p].rounds /\ r.iteration = loop[p].iteration
          /\ r.fallbacks = loop[p].fallbacks /\ r.guarded = loop[p].guarded
          /\ done' = [done EXCEPT ![p][g] = @ + 1]
          /\ r.err = loop[p].err
          /\ \/ effects' = [effects EXCEPT ![p] = @ + 1] /\ r.round = loop[p].round + 1
             \/ UNCHANGED effects /\ r.worked = loop[p].worked /\ r.round = loop[p].round
          /\ UNCHANGED pc
    BY <1>2, ExecuteCases
  <2>1. Goto(p, "tools") /\ loop[p].rounds <= MaxToolRounds
    BY <1>a, <2>0, LoopOf DEF Goto, TypeInv, ControlType, Over
  <2>2. ControlType' /\ LoopOK' /\ Room'
    BY <1>a, <2>0, <2>1, LoopMove, ActiveLabels
  <2>3. HistoryType'
    BY <1>a, <2>0 DEF TypeInv, HistoryType
  <2> QED BY <1>a, <2>2, <2>3 DEF TypeInv, store, StoreType
<1> QED BY <1>1, <1>2

\* Aborts and deletes.
LEMMA OtherTypes == ASSUME TypeInv, NEW s \in Sessions, Abort(s) \/ Delete(s) PROVE TypeInv'
<1> USE DEF TypeInv, Room, LoopOK, HistoryType
<1>1. CASE Abort(s)
  BY <1>1 DEF Abort, store, history, ControlType, StoreType
<1>2. CASE Delete(s)
  <2>1. <<>> \in Seq(Message)
    OBVIOUS
  <2>2. log' \in [Sessions -> Seq(Message)]
    BY <1>2, <2>1 DEF Delete, StoreType
  <2> QED BY <1>2, <2>2 DEF Delete, control, history, ControlType, StoreType
<1> QED BY <1>1, <1>2

\* Every step keeps the type invariant.
LEMMA TypeStep == TypeInv /\ [Next]_vars => TypeInv'
<1> SUFFICES ASSUME TypeInv, [Next]_vars PROVE TypeInv'
  OBVIOUS
<1>1. ASSUME NEW p \in Prompts, CheckSession(p) \/ Step(p) \/ Execute(p) PROVE TypeInv'
  BY <1>1, CommandTypes, SaveTypes, PrepareTypes, TurnTypes, ModelTypes, FallbackTypes, ExecuteTypes
  DEF Step
<1>2. CASE UNCHANGED vars
  BY <1>2 DEF vars, control, store, history, TypeInv, ControlType, StoreType, HistoryType, LoopOK, Room
<1> QED BY <1>1, <1>2, OtherTypes DEF Next

\* Type correctness of the runtime, and with it the limits of each counter.
THEOREM TypeCorrect == Spec => []TypeOK
BY TypeInit, TypeStep, TypeParts, PTL DEF Spec

-----------------------------------------------------------------------------
(* One run per session.                                                    *)

\* The handle of a session is that of its active prompt, read both ways.
Handles ==
  /\ \A s \in Sessions : runs[s] # NoPrompt => SessionOf[runs[s]] = s /\ pc[runs[s]] \in Active
  /\ \A p \in Prompts : pc[p] \in Active => runs[SessionOf[p]] = p

\* The handles tell which run a session has.
LEMMA HandlesMeanOneRun == TypeInv /\ Handles => OneRunPerSession
<1> SUFFICES ASSUME TypeInv, Handles, NEW s \in Sessions
             PROVE  {p \in Prompts : SessionOf[p] = s /\ pc[p] \in Active} = {runs[s]} \ {NoPrompt}
  BY DEF OneRunPerSession
<1>1. runs[s] \in Prompts \cup {NoPrompt}
  BY DEF TypeInv, ControlType
<1>2. \A p \in Prompts : SessionOf[p] = s /\ pc[p] \in Active => p = runs[s] /\ p # NoPrompt
  BY PromptAssumption DEF Handles
<1>3. runs[s] # NoPrompt => runs[s] \in Prompts /\ SessionOf[runs[s]] = s /\ pc[runs[s]] \in Active
  BY <1>1 DEF Handles
<1> QED BY <1>2, <1>3

\* An active prompt that stays active.
LEMMA ActiveMove ==
  ASSUME TypeInv, Handles, NEW p \in Prompts, NEW l \in Active, Goto(p, l),
         pc[p] \in Active, UNCHANGED runs
  PROVE  Handles'
BY DEF Handles, Goto, TypeInv, ControlType

\* An active prompt that gives its handle back.
LEMMA LeaveMove ==
  ASSUME TypeInv, Handles, NEW p \in Prompts, NEW l \in {"rejected", "done"}, Goto(p, l),
         pc[p] \in Active, Unregister(p)
  PROVE  Handles'
<1>1. SessionOf \in [Prompts -> Sessions] /\ NoPrompt \notin Prompts
  BY PromptAssumption
<1>2. l \notin Active
  BY ActiveLabels
<1>3. \A s \in Sessions : runs'[s] = IF s = SessionOf[p] THEN NoPrompt ELSE runs[s]
  BY <1>1 DEF Unregister, TypeInv, ControlType
<1>4. \A q \in Prompts : pc'[q] = IF q = p THEN l ELSE pc[q]
  BY DEF Goto, TypeInv, ControlType
<1>5. \A q \in Prompts : q # p /\ pc[q] \in Active => SessionOf[q] # SessionOf[p]
  BY DEF Handles
<1>6. \A s \in Sessions : runs[s] # NoPrompt => runs[s] \in Prompts
  BY DEF TypeInv, ControlType
<1> QED BY <1>1, <1>2, <1>3, <1>4, <1>5, <1>6 DEF Handles

\* No session has a handle at the start.
LEMMA HandlesInit == Init => Handles
BY PromptAssumption, ActiveLabels DEF Init, Handles

\* Every step keeps handles and runs together.
LEMMA HandlesStep == TypeInv /\ Handles /\ [Next]_vars => Handles'
<1> SUFFICES ASSUME TypeInv, Handles, [Next]_vars PROVE Handles'
  OBVIOUS
<1>1. ASSUME NEW p \in Prompts, CheckSession(p) PROVE Handles'
  BY <1>1, ActiveLabels DEF CheckSession, Goto, Handles, TypeInv, ControlType
<1>2. ASSUME NEW p \in Prompts, Register(p) PROVE Handles'
  <2>1. CASE Goto(p, "rejected") /\ UNCHANGED runs
    BY <1>2, <2>1, ActiveLabels DEF Register, Goto, Handles, TypeInv, ControlType
  <2>2. CASE runs[SessionOf[p]] = NoPrompt /\ Goto(p, "registered") /\ runs' = [runs EXCEPT ![SessionOf[p]] = p]
    <3>1. SessionOf \in [Prompts -> Sessions] /\ NoPrompt \notin Prompts
      BY PromptAssumption
    <3>2. \A s \in Sessions : runs'[s] = IF s = SessionOf[p] THEN p ELSE runs[s]
      BY <2>2, <3>1 DEF TypeInv, ControlType
    <3>3. \A q \in Prompts : pc'[q] = IF q = p THEN "registered" ELSE pc[q]
      BY <2>2 DEF Goto, TypeInv, ControlType
    <3>4. \A q \in Prompts : pc[q] \in Active => SessionOf[q] # SessionOf[p]
      BY <2>2, <3>1 DEF Handles
    <3>5. \A s \in Sessions : runs[s] # NoPrompt => runs[s] \in Prompts
      BY DEF TypeInv, ControlType
    <3> QED BY <3>1, <3>2, <3>3, <3>4, <3>5, ActiveLabels DEF Handles
  <2> QED BY <1>2, <2>1, <2>2 DEF Register
<1>3. ASSUME NEW p \in Prompts, Mark(p) \/ Record(p) PROVE Handles'
  BY <1>3, ActiveMove, LeaveMove, ActiveLabels DEF Mark, Record
<1>4. ASSUME NEW p \in Prompts, Prepare(p) \/ Turn(p) \/ Fallback(p) PROVE Handles'
  BY <1>4, ActiveMove, ActiveLabels DEF Prepare, Turn, Fallback, Fail
<1>5. ASSUME NEW p \in Prompts, Model(p) PROVE Handles'
  <2>1. pc[p] = "model" /\ UNCHANGED runs
    BY <1>5 DEF Model
  <2>2. UNCHANGED pc \/ \E l \in {"failing", "fallback", "ending", "tools"} : Goto(p, l)
    BY <1>5 DEF Model, ModelFails, ModelAnswers, ModelCalls, Fail
  <2> QED BY <2>1, <2>2, ActiveMove, ActiveLabels DEF Handles
<1>6. ASSUME NEW p \in Prompts, Execute(p) PROVE Handles'
  <2>1. pc[p] = "tools" /\ UNCHANGED runs /\ (UNCHANGED pc \/ Goto(p, "failing"))
    BY <1>6 DEF Execute
  <2> QED BY <2>1, ActiveMove, ActiveLabels DEF Handles
<1>7. ASSUME NEW p \in Prompts, SaveRound(p) \/ SaveFinal(p) \/ PersistFailure(p) \/ Notify(p)
      PROVE  Handles'
  BY <1>7, ActiveMove, ActiveLabels DEF SaveRound, SaveFinal, PersistFailure, Notify, Fail
<1>8. ASSUME NEW p \in Prompts, Finish(p) PROVE Handles'
  BY <1>8, LeaveMove, ActiveLabels DEF Finish
<1>9. ASSUME NEW s \in Sessions, Abort(s) \/ Delete(s) PROVE Handles'
  BY <1>9 DEF Abort, Delete, control, Handles
<1>10. CASE UNCHANGED vars
  BY <1>10 DEF vars, control, Handles
<1> QED
  BY <1>1, <1>2, <1>3, <1>4, <1>5, <1>6, <1>7, <1>8, <1>9, <1>10 DEF Next, Step

\* A session has at most one active run, and runs holds it, for any number of
\* prompts, sessions, aborts and deletes.
THEOREM OneRun == Spec => []OneRunPerSession
BY TypeInit, TypeStep, HandlesInit, HandlesStep, HandlesMeanOneRun, PTL DEF Spec

-----------------------------------------------------------------------------
(* The bounds of the loop.                                                 *)

\* The guard's counter is what was executed; a request is paid for by an
\* iteration, by a fallback, or by a guard retry, of which each route has one.
Paid ==
  \A p \in Prompts :
    /\ done[p] = loop[p].repeated
    /\ requests[p] + (IF pc[p] = "model" THEN 1 ELSE 0)
         <= loop[p].iteration + 2 * loop[p].fallbacks + (IF loop[p].guarded THEN 1 ELSE 0)

\* What is paid for is bounded by the limits of the counters.
LEMMA PaidMeansBounded == TypeInv /\ Paid => LoopIsBounded
<1> SUFFICES ASSUME TypeInv, Paid, NEW p \in Prompts
             PROVE  /\ \A g \in Signatures : done[p][g] <= MaxRepeatedCalls
                    /\ requests[p] <= MaxIterations + 2 * MaxFallbacks + 1
  BY DEF LoopIsBounded
<1>1. loop[p] \in LoopType
  BY LoopOf
<1>2. \A g \in Signatures : done[p][g] \in 0..MaxRepeatedCalls
  BY <1>1 DEF Paid, LoopType
<1>3. loop[p].iteration \in 0..MaxIterations /\ loop[p].fallbacks \in 0..MaxFallbacks
  BY <1>1 DEF LoopType
<1>4. requests[p] \in Nat /\ MaxIterations \in Nat /\ MaxFallbacks \in Nat /\ MaxRepeatedCalls \in Nat
  BY BoundAssumption DEF TypeInv, HistoryType
<1>5. requests[p] <= loop[p].iteration + 2 * loop[p].fallbacks + 1
  BY <1>3, <1>4 DEF Paid
<1> QED BY <1>2, <1>3, <1>4, <1>5

\* The same of one prompt with the local variables r, after n requests.
Pays(p, r, n, asking) ==
  n + (IF asking THEN 1 ELSE 0) <= r.iteration + 2 * r.fallbacks + (IF r.guarded THEN 1 ELSE 0)

\* The loop of one prompt moves on.
LEMMA PaidMove ==
  ASSUME TypeInv, Paid, NEW p \in Prompts, NEW r \in LoopType, loop' = [loop EXCEPT ![p] = r],
         \A q \in Prompts : q # p => pc'[q] = pc[q] /\ done'[q] = done[q] /\ requests'[q] = requests[q],
         done'[p] = r.repeated, Pays(p, r, requests'[p], pc'[p] = "model")
  PROVE  Paid'
<1>1. loop'[p] = r /\ \A q \in Prompts : q # p => loop'[q] = loop[q]
  BY DEF TypeInv, LoopOK
<1> QED BY <1>1 DEF Paid, Pays

\* No loop moves, and no model is asked.
LEMMA PaidStays ==
  ASSUME Paid, TypeInv, UNCHANGED <<loop, done, requests>>,
         \A q \in Prompts : pc'[q] = "model" => pc[q] = "model"
  PROVE  Paid'
<1> SUFFICES ASSUME NEW q \in Prompts
             PROVE  requests[q] + (IF pc'[q] = "model" THEN 1 ELSE 0)
                      <= loop[q].iteration + 2 * loop[q].fallbacks + (IF loop[q].guarded THEN 1 ELSE 0)
  BY DEF Paid
<1>1. requests[q] \in Nat /\ loop[q].iteration \in Nat /\ loop[q].fallbacks \in Nat
  BY BoundAssumption, LoopOf DEF TypeInv, HistoryType, LoopType
<1> QED BY <1>1 DEF Paid

\* The run fails, before it asks or after.
LEMMA PaidFail ==
  ASSUME TypeInv, Paid, NEW p \in Prompts, NEW err \in {"none", "error", "cancelled", "repeated"},
         Fail(p, err), UNCHANGED done,
         UNCHANGED requests \/ (pc[p] = "model" /\ requests' = [requests EXCEPT ![p] = @ + 1])
  PROVE  Paid'
<1> DEFINE r == [loop[p] EXCEPT !.err = err]
<1>1. loop' = [loop EXCEPT ![p] = r]
  BY DEF Fail, TypeInv, LoopOK
<1>2. /\ r \in LoopType /\ r.repeated = loop[p].repeated /\ r.iteration = loop[p].iteration
      /\ r.fallbacks = loop[p].fallbacks /\ r.guarded = loop[p].guarded
  BY LoopOf DEF LoopType
<1>3. pc'[p] = "failing" /\ \A q \in Prompts : q # p => pc'[q] = pc[q] /\ requests'[q] = requests[q]
  BY DEF Fail, Goto, TypeInv, ControlType, HistoryType
<1>4. requests[p] \in Nat /\ loop[p].iteration \in Nat /\ loop[p].fallbacks \in Nat
  BY BoundAssumption, LoopOf DEF TypeInv, HistoryType, LoopType
<1>5. requests'[p] = requests[p] \/ (pc[p] = "model" /\ requests'[p] = requests[p] + 1)
  BY DEF TypeInv, HistoryType
<1> HIDE DEF r
<1>6. Pays(p, r, requests'[p], pc'[p] = "model")
  BY <1>2, <1>3, <1>4, <1>5 DEF Paid, Pays
<1> QED BY <1>1, <1>2, <1>3, <1>6, PaidMove DEF Paid

\* Nothing is spent at the start.
LEMMA PaidInit == Init => Paid
<1> SUFFICES ASSUME Init, NEW p \in Prompts
             PROVE  /\ done[p] = loop[p].repeated
                    /\ requests[p] + (IF pc[p] = "model" THEN 1 ELSE 0)
                         <= loop[p].iteration + 2 * loop[p].fallbacks + (IF loop[p].guarded THEN 1 ELSE 0)
  BY DEF Paid
<1>1. pc[p] = "new" /\ loop[p] = FreshLoop /\ requests[p] = 0 /\ done[p] = [g \in Signatures |-> 0]
  BY DEF Init
<1>2. /\ FreshLoop.repeated = [g \in Signatures |-> 0] /\ FreshLoop.iteration = 0
      /\ FreshLoop.fallbacks = 0 /\ FreshLoop.guarded = FALSE
  BY DEF FreshLoop
<1> QED BY <1>1, <1>2

\* A new iteration pays for the request it is about to send.
LEMMA PaidTurn == ASSUME TypeInv, Paid, NEW p \in Prompts, Turn(p) PROVE Paid'
<1>a. UNCHANGED <<done, requests>>
  BY DEF Turn, history
<1>1. ASSUME NEW err \in {"error", "cancelled"}, Fail(p, err) PROVE Paid'
  BY <1>1, <1>a, PaidFail
<1>2. CASE Goto(p, "model") /\ loop' = [loop EXCEPT ![p].iteration = @ + 1]
           /\ loop[p].iteration < MaxIterations
  <2> DEFINE r == [loop[p] EXCEPT !.iteration = @ + 1]
  <2>1. loop' = [loop EXCEPT ![p] = r]
    BY <1>2 DEF TypeInv, LoopOK
  <2>2. loop[p].iteration \in Nat /\ loop[p].fallbacks \in Nat /\ requests[p] \in Nat
    BY BoundAssumption, LoopOf DEF TypeInv, HistoryType, LoopType
  <2>3. /\ r \in LoopType /\ r.repeated = loop[p].repeated /\ r.iteration = loop[p].iteration + 1
        /\ r.fallbacks = loop[p].fallbacks /\ r.guarded = loop[p].guarded
    <3>1. loop[p].iteration + 1 \in 0..MaxIterations
      BY <1>2, <2>2, BoundAssumption
    <3> QED BY <3>1, LoopOf DEF LoopType
  <2>4. UNCHANGED <<done, requests>> /\ pc[p] = "turn" /\ \A q \in Prompts : q # p => pc'[q] = pc[q]
    BY <1>2 DEF Turn, history, Goto, TypeInv, ControlType
  <2> HIDE DEF r
  <2>5. Pays(p, r, requests'[p], pc'[p] = "model")
    BY <2>2, <2>3, <2>4 DEF Paid, Pays
  <2> QED BY <2>1, <2>3, <2>4, <2>5, PaidMove DEF Paid
<1>3. loop[p].iteration \in Nat /\ MaxIterations \in Nat
  BY LoopOf, BoundAssumption DEF LoopType
<1> QED BY <1>1, <1>2, <1>3 DEF Turn

\* A fallback pays for a request and for a new guard.
LEMMA PaidFallback == ASSUME TypeInv, Paid, NEW p \in Prompts, Fallback(p) PROVE Paid'
<1>a. UNCHANGED <<done, requests>> /\ pc[p] = "fallback"
  BY DEF Fallback, history
<1>1. ASSUME Fail(p, loop[p].err) \/ \E err \in Errors(p) : Fail(p, err) PROVE Paid'
  <2>1. PICK err \in {"none", "error", "cancelled", "repeated"} : Fail(p, err)
    <3>1. loop[p].err \in {"none", "error", "cancelled", "repeated"}
      BY LoopOf DEF LoopType
    <3>2. \A err \in Errors(p) : err \in {"none", "error", "cancelled", "repeated"}
      BY ErrorValues
    <3> QED BY <1>1, <3>1, <3>2
  <2> QED BY <1>a, <2>1, PaidFail
<1>2. CASE /\ Goto(p, "model")
           /\ loop' = [loop EXCEPT ![p].fallbacks = @ + 1, ![p].guarded = FALSE, ![p].err = "none"]
  <2> DEFINE r == [loop[p] EXCEPT !.fallbacks = @ + 1, !.guarded = FALSE, !.err = "none"]
  <2>1. loop' = [loop EXCEPT ![p] = r]
    BY <1>2 DEF TypeInv, LoopOK
  <2>2. loop[p].iteration \in Nat /\ loop[p].fallbacks \in Nat /\ requests[p] \in Nat
    BY BoundAssumption, LoopOf DEF TypeInv, HistoryType, LoopType
  <2>3. /\ r \in LoopType /\ r.repeated = loop[p].repeated /\ r.iteration = loop[p].iteration
        /\ r.fallbacks = loop[p].fallbacks + 1 /\ r.guarded = FALSE
    <3>1. loop[p].fallbacks + 1 \in 0..MaxFallbacks
      BY <1>a, <2>2, LoopOf, BoundAssumption
    <3> QED BY <3>1, LoopOf DEF LoopType
  <2>4. \A q \in Prompts : q # p => pc'[q] = pc[q]
    BY <1>2 DEF Goto, TypeInv, ControlType
  <2> HIDE DEF r
  <2>5. Pays(p, r, requests'[p], pc'[p] = "model")
    BY <1>a, <2>2, <2>3 DEF Paid, Pays
  <2> QED BY <1>a, <2>1, <2>3, <2>4, <2>5, PaidMove DEF Paid
<1> QED BY <1>1, <1>2 DEF Fallback

\* A model request is paid for where the loop went to it; a guard retry pays for
\* the next one.
LEMMA PaidModel == ASSUME TypeInv, Paid, NEW p \in Prompts, Model(p) PROVE Paid'
<1>a. /\ pc[p] = "model" /\ UNCHANGED done
      /\ requests' = [requests EXCEPT ![p] = @ + 1]
  BY DEF Model
<1>b. /\ loop[p].iteration \in Nat /\ loop[p].fallbacks \in Nat /\ requests[p] \in Nat
      /\ loop[p].rounds \in Nat /\ loop[p] \in LoopType /\ loop[p].rounds <= MaxToolRounds
  <2>1. loop[p] \in LoopType /\ loop[p].rounds <= MaxToolRounds
    BY <1>a, LoopOf DEF Over
  <2>2. requests[p] \in Nat
    BY DEF TypeInv, HistoryType
  <2> QED BY <2>1, <2>2, BoundAssumption DEF LoopType
<1>c. requests'[p] = requests[p] + 1 /\ \A q \in Prompts : q # p => requests'[q] = requests[q]
  BY <1>a DEF TypeInv, HistoryType
\* The prompt leaves the model with the counters it came with.
<1>m. ASSUME NEW r \in LoopType, NEW l \in {"fallback", "ending", "tools", "failing"},
             Goto(p, l), loop' = [loop EXCEPT ![p] = r],
             r.repeated = loop[p].repeated, r.iteration = loop[p].iteration,
             r.fallbacks = loop[p].fallbacks, r.guarded = loop[p].guarded
      PROVE  Paid'
  <2>1. pc'[p] # "model" /\ \A q \in Prompts : q # p => pc'[q] = pc[q]
    BY <1>m DEF Goto, TypeInv, ControlType
  <2>2. Pays(p, r, requests'[p], pc'[p] = "model")
    BY <1>a, <1>b, <1>c, <1>m, <2>1 DEF Paid, Pays
  <2> QED BY <1>a, <1>c, <1>m, <2>1, <2>2, PaidMove DEF Paid
<1>1. ASSUME NEW err \in {"error", "cancelled"}, ModelFails(p, err) PROVE Paid'
  <2>1. CASE Fail(p, err)
    BY <1>a, <2>1, PaidFail
  <2>2. CASE Goto(p, "fallback") /\ loop' = [loop EXCEPT ![p].err = err]
    <3> DEFINE r == [loop[p] EXCEPT !.err = err]
    <3>1. loop' = [loop EXCEPT ![p] = r]
      BY <2>2 DEF TypeInv, LoopOK
    <3>2. /\ r \in LoopType /\ r.repeated = loop[p].repeated /\ r.iteration = loop[p].iteration
          /\ r.fallbacks = loop[p].fallbacks /\ r.guarded = loop[p].guarded
      BY <1>b DEF LoopType
    <3> HIDE DEF r
    <3> QED BY <1>m, <2>2, <3>1, <3>2
  <2> QED BY <1>1, <2>1, <2>2 DEF ModelFails
<1>2. CASE ModelAnswers(p)
  <2>1. CASE loop[p].guarded = FALSE /\ loop' = [loop EXCEPT ![p].guarded = TRUE] /\ UNCHANGED pc
    <3> DEFINE r == [loop[p] EXCEPT !.guarded = TRUE]
    <3>1. loop' = [loop EXCEPT ![p] = r]
      BY <2>1 DEF TypeInv, LoopOK
    <3>2. /\ r \in LoopType /\ r.repeated = loop[p].repeated /\ r.iteration = loop[p].iteration
          /\ r.fallbacks = loop[p].fallbacks /\ r.guarded = TRUE
      BY <1>b DEF LoopType
    <3> HIDE DEF r
    <3>3. Pays(p, r, requests'[p], pc'[p] = "model")
      BY <1>a, <1>b, <1>c, <2>1, <3>2 DEF Paid, Pays
    <3>4. done'[p] = r.repeated
      BY <1>a, <3>2 DEF Paid
    <3>5. \A q \in Prompts : q # p => pc'[q] = pc[q] /\ done'[q] = done[q] /\ requests'[q] = requests[q]
      BY <1>a, <1>c, <2>1
    <3>6. r \in LoopType
      BY <3>2
    <3> QED BY <3>1, <3>3, <3>4, <3>5, <3>6, PaidMove
  <2>2. CASE Goto(p, "ending") /\ UNCHANGED loop
    BY <1>b, <1>m, <2>2, LoopOf
  <2>3. loop[p].guarded \in BOOLEAN
    BY <1>b DEF LoopType
  <2> QED BY <1>1, <1>2, <2>1, <2>2, <2>3 DEF ModelAnswers
<1>3. ASSUME NEW calls \in Requests, ModelCalls(p, calls) PROVE Paid'
  <2>0. calls \in Seq(Signatures)
    BY BoundAssumption DEF Requests
  <2>1. CASE /\ Goto(p, "failing")
             /\ loop' = [loop EXCEPT ![p].rounds = @ + 1, ![p].err = "error"]
    <3> DEFINE r == [loop[p] EXCEPT !.rounds = @ + 1, !.err = "error"]
    <3>1. loop' = [loop EXCEPT ![p] = r]
      BY <2>1 DEF TypeInv, LoopOK
    <3>2. /\ r \in LoopType /\ r.repeated = loop[p].repeated /\ r.iteration = loop[p].iteration
          /\ r.fallbacks = loop[p].fallbacks /\ r.guarded = loop[p].guarded
      <4>1. loop[p].rounds + 1 \in 0..(MaxToolRounds + 1)
        BY <1>b, BoundAssumption
      <4> QED BY <1>b, <4>1 DEF LoopType
    <3> HIDE DEF r
    <3> QED BY <1>m, <2>1, <3>1, <3>2
  <2>2. CASE /\ Goto(p, "tools")
             /\ loop' = [loop EXCEPT ![p].rounds = @ + 1, ![p].calls = calls, ![p].round = 0]
    <3> DEFINE r == [loop[p] EXCEPT !.rounds = @ + 1, !.calls = calls, !.round = 0]
    <3>1. loop' = [loop EXCEPT ![p] = r]
      BY <2>2 DEF TypeInv, LoopOK
    <3>2. /\ r \in LoopType /\ r.repeated = loop[p].repeated /\ r.iteration = loop[p].iteration
          /\ r.fallbacks = loop[p].fallbacks /\ r.guarded = loop[p].guarded
      <4>1. loop[p].rounds + 1 \in 0..(MaxToolRounds + 1)
        BY <1>b, BoundAssumption
      <4> QED BY <1>b, <2>0, <4>1 DEF LoopType
    <3> HIDE DEF r
    <3> QED BY <1>m, <2>2, <3>1, <3>2
  <2> QED BY <1>3, <2>1, <2>2 DEF ModelCalls
<1>4. \A err \in Errors(p) : err \in {"error", "cancelled"}
  BY ErrorValues
<1> QED BY <1>1, <1>2, <1>3, <1>4 DEF Model

\* A call is counted once by the guard and once by the history.
LEMMA PaidExecute == ASSUME TypeInv, Paid, NEW p \in Prompts, Execute(p) PROVE Paid'
<1>a. pc[p] = "tools" /\ UNCHANGED requests
  BY DEF Execute
<1>1. CASE Fail(p, "repeated") /\ UNCHANGED <<done, effects>>
  BY <1>1, <1>a, PaidFail
<1>2. CASE ~(Fail(p, "repeated") /\ UNCHANGED <<done, effects>>)
  <2>0. PICK g \in Signatures, r \in LoopType :
          /\ loop[p].repeated[g] < MaxRepeatedCalls
          /\ loop' = [loop EXCEPT ![p] = r]
          /\ r.repeated = [loop[p].repeated EXCEPT ![g] = @ + 1]
          /\ r.rounds = loop[p].rounds /\ r.iteration = loop[p].iteration
          /\ r.fallbacks = loop[p].fallbacks /\ r.guarded = loop[p].guarded
          /\ done' = [done EXCEPT ![p][g] = @ + 1]
          /\ r.err = loop[p].err
          /\ \/ effects' = [effects EXCEPT ![p] = @ + 1] /\ r.round = loop[p].round + 1
             \/ UNCHANGED effects /\ r.worked = loop[p].worked /\ r.round = loop[p].round
          /\ UNCHANGED pc
    BY <1>2, ExecuteCases
  <2>1. done'[p] = r.repeated /\ \A q \in Prompts : q # p => done'[q] = done[q]
    BY <2>0 DEF Paid, TypeInv, HistoryType
  <2>2. Pays(p, r, requests'[p], pc'[p] = "model")
    BY <1>a, <2>0 DEF Paid, Pays
  <2> QED BY <1>a, <2>0, <2>1, <2>2, PaidMove
<1> QED BY <1>1, <1>2

\* Every step pays for what it spends.
LEMMA PaidStep == TypeInv /\ Paid /\ [Next]_vars => Paid'
<1> SUFFICES ASSUME TypeInv, Paid, [Next]_vars PROVE Paid'
  OBVIOUS
<1>1. ASSUME NEW p \in Prompts, CheckSession(p) \/ Register(p) \/ Mark(p) \/ Record(p) \/ Notify(p)
                                 \/ Finish(p) \/ PersistFailure(p)
      PROVE  Paid'
  <2>1. UNCHANGED <<loop, done, requests>>
    BY <1>1 DEF CheckSession, Register, Mark, Record, Notify, Finish, PersistFailure, history
  <2>2. \E l \in {"checked", "rejected", "registered", "marked", "routing", "finishing", "done", "notify"} :
          Goto(p, l)
    BY <1>1 DEF CheckSession, Register, Mark, Record, Notify, Finish, PersistFailure
  <2>3. \A q \in Prompts : pc'[q] = "model" => pc[q] = "model"
    BY <2>2 DEF Goto, TypeInv, ControlType
  <2> QED BY <2>1, <2>3, PaidStays
<1>2. ASSUME NEW p \in Prompts, Prepare(p) \/ SaveRound(p) \/ SaveFinal(p) PROVE Paid'
  <2>1. UNCHANGED <<done, requests>>
    BY <1>2 DEF Prepare, SaveRound, SaveFinal, history
  <2>2. ASSUME NEW l \in {"turn", "notify"}, Goto(p, l), UNCHANGED loop PROVE Paid'
    <3>1. \A q \in Prompts : pc'[q] = "model" => pc[q] = "model"
      BY <2>2 DEF Goto, TypeInv, ControlType
    <3> QED BY <2>1, <2>2, <3>1, PaidStays
  <2>3. ASSUME NEW err \in {"none", "error", "cancelled", "repeated"}, Fail(p, err) PROVE Paid'
    BY <2>1, <2>3, PaidFail
  <2> QED BY <1>2, <2>2, <2>3, ErrorValues DEF Prepare, SaveRound, SaveFinal
<1>3. ASSUME NEW s \in Sessions, Abort(s) \/ Delete(s) PROVE Paid'
  BY <1>3 DEF Abort, Delete, control, history, Paid
<1>4. CASE UNCHANGED vars
  BY <1>4 DEF vars, control, history, Paid
<1> QED
  BY <1>1, <1>2, <1>3, <1>4, PaidTurn, PaidModel, PaidFallback, PaidExecute DEF Next, Step

\* The limits of the loop bound the calls a run executes and the requests it
\* sends, whatever the model answers and however its routes fail.
THEOREM LoopBounded == Spec => []LoopIsBounded
BY TypeInit, TypeStep, PaidInit, PaidStep, PaidMeansBounded, PTL DEF Spec

-----------------------------------------------------------------------------
(* No final answer without work.                                           *)

\* The flag the guard reads means that something was changed, and a run that
\* must execute reaches its ending only with the flag set.
Honest ==
  \A p \in Prompts : /\ loop[p].worked => effects[p] > 0
                     /\ pc[p] = "ending" /\ p \in Required => loop[p].worked
WorkInv == Honest /\ NoFinalWithoutWork

\* No transcript holds anything at the start.
LEMMA WorkInit == Init => WorkInv
BY DEF Init, WorkInv, Honest, NoFinalWithoutWork, FreshLoop

\* A write keeps the transcripts honest if a final answer it adds is.
LEMMA WriteKeepsHonesty ==
  ASSUME TypeInv, NoFinalWithoutWork, NEW p \in Prompts,
         NEW kind \in Endings \cup {"user", "tools"}, NEW n \in Nat,
         Saves(p, kind, n) \/ SaveFails(p, kind, n), UNCHANGED effects,
         kind = "final" /\ p \in Required => effects[p] > 0
  PROVE  NoFinalWithoutWork'
<1> DEFINE m == [by |-> p, kind |-> kind, effects |-> n]
<1>1. SessionOf[p] \in Sessions
  BY PromptAssumption
<1>2. log' = log \/ log' = [log EXCEPT ![SessionOf[p]] = Append(@, m)]
  BY DEF Saves, SaveFails, Append1
<1>3. m.by = p /\ m.kind = kind
  OBVIOUS
<1> HIDE DEF m
<1>4. SUFFICES ASSUME NEW s \in Sessions, NEW i \in 1..Len(log'[s]),
                      log'[s][i].kind = "final", log'[s][i].by \in Required
               PROVE  effects[log'[s][i].by] > 0
  BY DEF NoFinalWithoutWork
<1>5. CASE log'[s] = log[s]
  BY <1>4, <1>5 DEF NoFinalWithoutWork
<1>6. CASE s = SessionOf[p] /\ log'[s] = Append(log[s], m)
  <2>1. log[s] \in Seq(Message)
    BY DEF TypeInv, StoreType
  <2>2. Len(log'[s]) = Len(log[s]) + 1 /\ Len(log[s]) \in Nat
    BY <1>6, <2>1
  <2>3. CASE i = Len(log[s]) + 1
    <3>1. log'[s][i] = m
      BY <1>6, <2>1, <2>3
    <3> QED BY <1>3, <1>4, <3>1
  <2>4. CASE i \in 1..Len(log[s])
    <3>1. log'[s][i] = log[s][i]
      BY <1>6, <2>1, <2>4
    <3> QED BY <1>4, <2>4, <3>1 DEF NoFinalWithoutWork
  <2> QED BY <2>2, <2>3, <2>4
<1> QED BY <1>1, <1>2, <1>5, <1>6 DEF TypeInv, StoreType

\* Only executing a call sets the flag.
LEMMA FlagStays ==
  ASSUME TypeInv, NEW p \in Prompts, CheckSession(p) \/ Step(p)
  PROVE  UNCHANGED effects /\ \A q \in Prompts : loop'[q].worked = loop[q].worked
<1>1. ASSUME NEW err, Fail(p, err) PROVE \A q \in Prompts : loop'[q].worked = loop[q].worked
  BY <1>1 DEF Fail, TypeInv, LoopOK, LoopType
<1>2. CASE CheckSession(p) \/ Register(p) \/ Mark(p) \/ Record(p) \/ Notify(p) \/ Finish(p) \/ PersistFailure(p)
  BY <1>2 DEF CheckSession, Register, Mark, Record, Notify, Finish, PersistFailure, history
<1>3. CASE Prepare(p) \/ SaveRound(p) \/ SaveFinal(p)
  BY <1>1, <1>3 DEF Prepare, SaveRound, SaveFinal, history
<1>4. CASE Turn(p)
  <2>1. loop' = [loop EXCEPT ![p].iteration = @ + 1]
          => \A q \in Prompts : loop'[q].worked = loop[q].worked
    BY DEF TypeInv, LoopOK, LoopType
  <2> QED BY <1>1, <1>4, <2>1 DEF Turn, history
<1>5. CASE Fallback(p)
  <2>1. loop' = [loop EXCEPT ![p].fallbacks = @ + 1, ![p].guarded = FALSE, ![p].err = "none"]
          => \A q \in Prompts : loop'[q].worked = loop[q].worked
    BY DEF TypeInv, LoopOK, LoopType
  <2> QED BY <1>1, <1>5, <2>1 DEF Fallback, history
<1>6. CASE Model(p)
  <2>1. ASSUME NEW err, ModelFails(p, err) PROVE \A q \in Prompts : loop'[q].worked = loop[q].worked
    <3>1. loop' = [loop EXCEPT ![p].err = err] => \A q \in Prompts : loop'[q].worked = loop[q].worked
      BY DEF TypeInv, LoopOK, LoopType
    <3> QED BY <1>1, <2>1, <3>1 DEF ModelFails
  <2>2. ASSUME NEW calls, ModelCalls(p, calls) PROVE \A q \in Prompts : loop'[q].worked = loop[q].worked
    <3>1. loop' = [loop EXCEPT ![p].rounds = @ + 1, ![p].err = "error"]
            => \A q \in Prompts : loop'[q].worked = loop[q].worked
      BY DEF TypeInv, LoopOK, LoopType
    <3>2. loop' = [loop EXCEPT ![p].rounds = @ + 1, ![p].calls = calls, ![p].round = 0]
            => \A q \in Prompts : loop'[q].worked = loop[q].worked
      BY DEF TypeInv, LoopOK, LoopType
    <3> QED BY <2>2, <3>1, <3>2 DEF ModelCalls
  <2>3. loop' = [loop EXCEPT ![p].guarded = TRUE] => \A q \in Prompts : loop'[q].worked = loop[q].worked
    BY DEF TypeInv, LoopOK, LoopType
  <2> QED BY <1>6, <2>1, <2>2, <2>3 DEF Model, ModelAnswers
<1> QED BY <1>2, <1>3, <1>4, <1>5, <1>6 DEF Step

\* Where no flag is set or cleared, only a move to the ending needs the flag.
LEMMA HonestMove ==
  ASSUME TypeInv, Honest, NEW p \in Prompts, UNCHANGED effects,
         \A q \in Prompts : loop'[q].worked = loop[q].worked,
         \A q \in Prompts : q # p => pc'[q] = pc[q],
         pc'[p] = "ending" /\ p \in Required => loop[p].worked \/ pc[p] = "ending"
  PROVE  Honest'
BY DEF Honest

\* A move of one prompt leaves the others where they are.
LEMMA OthersStay ==
  ASSUME TypeInv, NEW p \in Prompts, NEW l, Goto(p, l)
  PROVE  pc'[p] = l /\ \A q \in Prompts : q # p => pc'[q] = pc[q]
BY DEF Goto, TypeInv, ControlType

\* Every step of a handler or of the loop keeps the flag honest: only an answer
\* of the model leads to the ending, and the guard has looked at it.
LEMMA HonestStep ==
  ASSUME TypeInv, Honest, NEW p \in Prompts, CheckSession(p) \/ Step(p)
  PROVE  Honest'
<1>0. UNCHANGED effects /\ \A q \in Prompts : loop'[q].worked = loop[q].worked
  BY FlagStays
<1>1. ASSUME NEW l, Goto(p, l), l # "ending" PROVE Honest'
  BY <1>0, <1>1, OthersStay, HonestMove
<1>2. ASSUME NEW err, Fail(p, err) PROVE Honest'
  BY <1>1, <1>2 DEF Fail
<1>3. CASE CheckSession(p) \/ Register(p) \/ Mark(p) \/ Record(p) \/ Notify(p) \/ Finish(p)
           \/ PersistFailure(p)
  BY <1>1, <1>3 DEF CheckSession, Register, Mark, Record, Notify, Finish, PersistFailure
<1>4. CASE Prepare(p) \/ SaveRound(p) \/ SaveFinal(p) \/ Turn(p) \/ Fallback(p)
  BY <1>1, <1>2, <1>4 DEF Prepare, SaveRound, SaveFinal, Turn, Fallback
<1>5. CASE Model(p)
  <2>1. ASSUME NEW err, ModelFails(p, err) PROVE Honest'
    BY <1>1, <1>2, <2>1 DEF ModelFails
  <2>2. ASSUME NEW calls, ModelCalls(p, calls) PROVE Honest'
    BY <1>1, <2>2 DEF ModelCalls
  <2>3. CASE UNCHANGED pc
    BY <1>0, <2>3, HonestMove
  <2>4. CASE Goto(p, "ending") /\ (p \in Required => loop[p].worked)
    BY <1>0, <2>4, OthersStay, HonestMove
  <2> QED BY <1>5, <2>1, <2>2, <2>3, <2>4 DEF Model, ModelAnswers
<1> QED BY <1>3, <1>4, <1>5 DEF Step

\* A transcript that stays is as honest as it was while effects only grow.
LEMMA LogStays ==
  ASSUME TypeInv, NoFinalWithoutWork, UNCHANGED log,
         \A q \in Prompts : effects'[q] \in Nat /\ effects'[q] >= effects[q]
  PROVE  NoFinalWithoutWork'
<1> SUFFICES ASSUME NEW s \in Sessions, NEW i \in 1..Len(log[s]),
                    log[s][i].kind = "final", log[s][i].by \in Required
             PROVE  effects'[log[s][i].by] > 0
  BY DEF NoFinalWithoutWork
<1>1. log[s] \in Seq(Message)
  BY DEF TypeInv, StoreType
<1>2. log[s][i] \in Message
  BY <1>1
<1>3. log[s][i].by \in Prompts
  BY <1>2 DEF Message
<1>4. effects[log[s][i].by] > 0 /\ effects[log[s][i].by] \in Nat
  BY <1>3 DEF NoFinalWithoutWork, TypeInv, HistoryType
<1>5. effects'[log[s][i].by] \in Nat /\ effects'[log[s][i].by] >= effects[log[s][i].by]
  BY <1>3
<1> QED BY <1>4, <1>5

\* Executing a call sets the flag only with an effect.
LEMMA WorkExecute ==
  ASSUME TypeInv, WorkInv, NEW p \in Prompts, Execute(p)
  PROVE  WorkInv'
<1>a. UNCHANGED log /\ pc[p] = "tools"
  BY DEF Execute, store
<1>1. CASE Fail(p, "repeated") /\ UNCHANGED <<done, effects>>
  <2>1. \A q \in Prompts : loop'[q].worked = loop[q].worked
    BY <1>1 DEF Fail, TypeInv, LoopOK, LoopType
  <2>2. pc'[p] = "failing" /\ \A q \in Prompts : q # p => pc'[q] = pc[q]
    BY <1>1, OthersStay DEF Fail
  <2>3. Honest'
    BY <1>1, <2>1, <2>2, HonestMove DEF WorkInv
  <2>4. \A q \in Prompts : effects'[q] \in Nat /\ effects'[q] >= effects[q]
    BY <1>1 DEF TypeInv, HistoryType
  <2> QED BY <1>a, <2>3, <2>4, LogStays DEF WorkInv
<1>2. CASE ~(Fail(p, "repeated") /\ UNCHANGED <<done, effects>>)
  <2>0. PICK g \in Signatures, r \in LoopType :
          /\ loop[p].repeated[g] < MaxRepeatedCalls
          /\ loop' = [loop EXCEPT ![p] = r]
          /\ r.repeated = [loop[p].repeated EXCEPT ![g] = @ + 1]
          /\ r.rounds = loop[p].rounds /\ r.iteration = loop[p].iteration
          /\ r.fallbacks = loop[p].fallbacks /\ r.guarded = loop[p].guarded
          /\ done' = [done EXCEPT ![p][g] = @ + 1]
          /\ r.err = loop[p].err
          /\ \/ effects' = [effects EXCEPT ![p] = @ + 1] /\ r.round = loop[p].round + 1
             \/ UNCHANGED effects /\ r.worked = loop[p].worked /\ r.round = loop[p].round
          /\ UNCHANGED pc
    BY <1>2, ExecuteCases
  <2>1. loop'[p] = r /\ \A q \in Prompts : q # p => loop'[q] = loop[q]
    BY <2>0 DEF TypeInv, LoopOK
  <2>2. \A q \in Prompts : effects'[q] \in Nat /\ effects'[q] >= effects[q]
    BY <2>0 DEF TypeInv, HistoryType
  <2>3. Honest'
    <3>1. SUFFICES ASSUME NEW q \in Prompts
                   PROVE  /\ loop'[q].worked => effects'[q] > 0
                          /\ pc'[q] = "ending" /\ q \in Required => loop'[q].worked
      BY DEF Honest
    <3>2. CASE q = p
      <4>1. pc'[p] = "tools"
        BY <1>a, <2>0
      <4>2. CASE effects' = [effects EXCEPT ![p] = @ + 1]
        <5>1. effects[p] \in Nat /\ effects'[p] = effects[p] + 1
          BY <4>2 DEF TypeInv, HistoryType
        <5>2. effects'[p] > 0
          BY <5>1
        <5> QED BY <3>2, <4>1, <5>2
      <4>3. CASE UNCHANGED effects /\ r.worked = loop[p].worked
        BY <2>1, <3>2, <4>1, <4>3 DEF WorkInv, Honest
      <4> QED BY <2>0, <4>2, <4>3
    <3>3. CASE q # p
      <4>1. loop'[q] = loop[q] /\ pc'[q] = pc[q] /\ effects'[q] = effects[q]
        BY <2>0, <2>1, <3>3 DEF TypeInv, HistoryType
      <4> QED BY <4>1 DEF WorkInv, Honest
    <3> QED BY <3>2, <3>3
  <2> QED BY <1>a, <2>2, <2>3, LogStays DEF WorkInv
<1> QED BY <1>1, <1>2

\* What each step writes keeps the transcripts honest.
LEMMA WriteStep ==
  ASSUME TypeInv, WorkInv, NEW p \in Prompts, CheckSession(p) \/ Step(p)
  PROVE  NoFinalWithoutWork'
<1>0. UNCHANGED effects
  BY FlagStays
<1>1. \A q \in Prompts : effects'[q] \in Nat /\ effects'[q] >= effects[q]
  BY <1>0 DEF TypeInv, HistoryType
<1>2. CASE UNCHANGED log
  BY <1>1, <1>2, LogStays DEF WorkInv
<1>3. ASSUME NEW kind \in {"user", "tools", "cancelled", "error"}, NEW n \in Nat,
             Saves(p, kind, n) \/ SaveFails(p, kind, n)
      PROVE  NoFinalWithoutWork'
  <2>1. kind \in Endings \cup {"user", "tools"} /\ kind # "final"
    BY <1>3 DEF Endings
  <2> QED BY <1>0, <1>3, <2>1, WriteKeepsHonesty DEF WorkInv
<1>4. CASE SaveFinal(p)
  <2>1. p \in Required => effects[p] > 0
    BY <1>4 DEF SaveFinal, WorkInv, Honest
  <2>2. "final" \in Endings
    BY DEF Endings
  <2> QED BY <1>0, <1>4, <2>1, <2>2, WriteKeepsHonesty DEF SaveFinal, WorkInv
<1>5. CASE SaveRound(p)
  <2>1. loop[p].round \in Nat
    BY LoopOf DEF LoopType
  <2> QED BY <1>3, <1>5, <2>1 DEF SaveRound
<1>6. CASE Record(p)
  BY <1>3, <1>6 DEF Record
<1>7. CASE PersistFailure(p)
  BY <1>3, <1>7 DEF PersistFailure
<1> QED
  BY <1>2, <1>4, <1>5, <1>6, <1>7
     DEF Step, CheckSession, Register, Mark, Prepare, Turn, Model, Fallback, Notify, Finish, store

\* Every step keeps the flag and the transcripts honest.
LEMMA WorkStep == TypeInv /\ WorkInv /\ [Next]_vars => WorkInv'
<1> SUFFICES ASSUME TypeInv, WorkInv, [Next]_vars PROVE WorkInv'
  OBVIOUS
<1>1. ASSUME NEW p \in Prompts, CheckSession(p) \/ Step(p) PROVE WorkInv'
  BY <1>1, HonestStep, WriteStep DEF WorkInv
<1>2. ASSUME NEW p \in Prompts, Execute(p) PROVE WorkInv'
  BY <1>2, WorkExecute
<1>3. ASSUME NEW s \in Sessions, Abort(s) PROVE WorkInv'
  BY <1>3 DEF Abort, store, history, WorkInv, Honest, NoFinalWithoutWork
<1>4. ASSUME NEW s \in Sessions, Delete(s) PROVE WorkInv'
  <2>1. Honest'
    BY <1>4 DEF Delete, control, history, WorkInv, Honest
  <2>2. NoFinalWithoutWork'
    <3>1. UNCHANGED effects /\ \A x \in Sessions : log'[x] = IF x = s THEN <<>> ELSE log[x]
      BY <1>4 DEF Delete, history, TypeInv, StoreType
    <3> QED BY <3>1 DEF WorkInv, NoFinalWithoutWork
  <2> QED BY <2>1, <2>2 DEF WorkInv
<1>5. CASE UNCHANGED vars
  BY <1>5 DEF vars, control, store, history, WorkInv, Honest, NoFinalWithoutWork
<1> QED BY <1>1, <1>2, <1>3, <1>4, <1>5 DEF Next

\* A prompt that asks for execution gets a final answer only from a run that
\* changed something, in every transcript and whatever the model answers.
THEOREM WorkBeforeFinal == Spec => []NoFinalWithoutWork
<1>1. WorkInv => NoFinalWithoutWork
  BY DEF WorkInv
<1> QED BY <1>1, TypeInit, TypeStep, WorkInit, WorkStep, PTL DEF Spec
=============================================================================
