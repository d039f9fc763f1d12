------------------------ MODULE AgentTranscriptProofs -----------------------
(***************************************************************************)
(* Proofs about the transcripts that AgentRun writes: their order, their   *)
(* endings, and the changes they show.                                     *)
(***************************************************************************)
EXTENDS AgentRunProofs, WellFoundedInduction, SequenceTheorems

\* A prompt writes into the transcript of its own session, nothing before it is
\* accepted, and while it is active what it wrote is the end of the transcript.
Quiet == {"new", "checked", "registered", "marked"}
OwnSession == \A s \in Sessions : \A i \in 1..Len(log[s]) : SessionOf[log[s][i].by] = s
QuietWroteNothing ==
  \A p \in Prompts : pc[p] \in Quiet =>
    \A i \in 1..Len(log[SessionOf[p]]) : log[SessionOf[p]][i].by # p
ActiveIsLast ==
  \A p \in Prompts : pc[p] \in Active =>
    \A i, j \in 1..Len(log[SessionOf[p]]) :
      i < j /\ log[SessionOf[p]][i].by = p => log[SessionOf[p]][j].by = p
OrderInv == OwnSession /\ QuietWroteNothing /\ ActiveIsLast /\ RunsDoNotInterleave

\* A transcript nothing went wrong with has no ending of a run that goes on.
NoEarlyEnding ==
  \A p \in Prompts : pc[p] \in Accepted \ Ended /\ p \notin spoiled => EndingsOf(p) = {}
EndingInv == NoEarlyEnding /\ EndedRunHasOneEnding

\* What a run changed is in its transcript or in the round under way; only the
\* repetition guard ends a round that is not saved.
OnlyGuardRepeats == \A p \in Prompts : loop[p].err = "repeated" => pc[p] \in Over
QuietDidNothing == \A p \in Prompts : pc[p] \in Quiet => effects[p] = 0
Unsaved(p) == IF pc[p] = "tools" THEN loop[p].round ELSE 0
EffectsKept ==
  \A p \in Prompts : p \notin spoiled /\ pc[p] # "rejected" /\ loop[p].err # "repeated" =>
    EffectsIn(log[SessionOf[p]], p) + Unsaved(p) = effects[p]
EffectsInv == OnlyGuardRepeats /\ QuietDidNothing /\ EffectsKept

\* What a step of one prompt does to the transcripts: nothing, or it appends a
\* message of its own while it is active.
Writes(p, m) ==
  /\ pc[p] \in Active /\ m \in Message /\ m.by = p
  /\ log' = [log EXCEPT ![SessionOf[p]] = Append(@, m)]

\* A write of the store in these terms.
LEMMA StoreWrites ==
  ASSUME TypeInv, NEW p \in Prompts, pc[p] \in Active,
         NEW kind \in Endings \cup {"user", "tools"}, NEW n \in Nat,
         Saves(p, kind, n) \/ SaveFails(p, kind, n)
  PROVE  /\ \/ UNCHANGED log
            \/ \E m : Writes(p, m) /\ m.kind = kind /\ m.effects = n
         /\ Saves(p, kind, n) => /\ \E m : Writes(p, m) /\ m.kind = kind /\ m.effects = n
                                 /\ UNCHANGED spoiled
         /\ SaveFails(p, kind, n) => spoiled' = spoiled \cup {p}
<1> DEFINE m == [by |-> p, kind |-> kind, effects |-> n]
<1>1. m \in Message /\ m.by = p /\ m.kind = kind /\ m.effects = n
  BY DEF Message
<1>2. UNCHANGED log \/ log' = [log EXCEPT ![SessionOf[p]] = Append(@, m)]
  BY DEF Saves, SaveFails, Append1
<1>3. Saves(p, kind, n) => log' = [log EXCEPT ![SessionOf[p]] = Append(@, m)] /\ UNCHANGED spoiled
  BY DEF Saves, Append1
<1>4. SaveFails(p, kind, n) => spoiled' = spoiled \cup {p}
  BY DEF SaveFails
<1> HIDE DEF m
<1> QED BY <1>1, <1>2, <1>3, <1>4 DEF Writes

\* A transcript that is written to, message by message.
LEMMA WrittenLog ==
  ASSUME TypeInv, NEW p \in Prompts, NEW m, Writes(p, m)
  PROVE  /\ SessionOf[p] \in Sessions
         /\ \A s \in Sessions \ {SessionOf[p]} : log'[s] = log[s]
         /\ log[SessionOf[p]] \in Seq(Message)
         /\ Len(log[SessionOf[p]]) \in Nat
         /\ Len(log'[SessionOf[p]]) = Len(log[SessionOf[p]]) + 1
         /\ \A i \in 1..Len(log[SessionOf[p]]) : log'[SessionOf[p]][i] = log[SessionOf[p]][i]
         /\ log'[SessionOf[p]][Len(log[SessionOf[p]]) + 1] = m
<1>1. SessionOf[p] \in Sessions
  BY PromptAssumption
<1>2. log'[SessionOf[p]] = Append(log[SessionOf[p]], m)
  BY <1>1 DEF Writes, TypeInv, StoreType
<1>3. log[SessionOf[p]] \in Seq(Message) /\ m \in Message
  BY <1>1 DEF Writes, TypeInv, StoreType
<1>4. \A s \in Sessions \ {SessionOf[p]} : log'[s] = log[s]
  BY DEF Writes, TypeInv, StoreType
<1>5. /\ Len(log[SessionOf[p]]) \in Nat
      /\ Len(Append(log[SessionOf[p]], m)) = Len(log[SessionOf[p]]) + 1
      /\ \A i \in 1..Len(log[SessionOf[p]]) : Append(log[SessionOf[p]], m)[i] = log[SessionOf[p]][i]
      /\ Append(log[SessionOf[p]], m)[Len(log[SessionOf[p]]) + 1] = m
  BY <1>3
<1> QED BY <1>1, <1>2, <1>3, <1>4, <1>5

\* No transcript holds anything at the start.
LEMMA OrderInit == Init => OrderInv
<1> SUFFICES ASSUME Init PROVE OrderInv
  OBVIOUS
<1>1. \A s \in Sessions : log[s] = <<>> /\ 1..Len(log[s]) = {}
  BY DEF Init
<1>2. \A p \in Prompts : SessionOf[p] \in Sessions
  BY PromptAssumption
<1>3. OwnSession
  BY <1>1 DEF OwnSession
<1>4. QuietWroteNothing /\ ActiveIsLast
  BY <1>1, <1>2 DEF QuietWroteNothing, ActiveIsLast
<1>5. RunsDoNotInterleave
  BY <1>1 DEF RunsDoNotInterleave
<1> QED BY <1>3, <1>4, <1>5 DEF OrderInv

\* While nothing is written the order holds; a prompt that gets active wrote nothing.
LEMMA OrderStays ==
  ASSUME TypeInv, OrderInv, UNCHANGED log,
         \A p \in Prompts : /\ pc'[p] \in Quiet => pc[p] \in Quiet
                            /\ pc'[p] \in Active => pc[p] \in Active \cup Quiet
  PROVE  OrderInv'
<1>1. OwnSession' /\ QuietWroteNothing'
  BY DEF OrderInv, QuietWroteNothing, OwnSession
<1>3. RunsDoNotInterleave'
  BY DEF OrderInv, RunsDoNotInterleave
<1>2. ActiveIsLast'
  BY DEF OrderInv, QuietWroteNothing, ActiveIsLast
<1> QED BY <1>1, <1>2, <1>3 DEF OrderInv

\* What an active prompt writes follows its own messages; nobody else of its
\* session is active.
LEMMA OrderWrite ==
  ASSUME TypeInv, Handles, OrderInv, NEW p \in Prompts, NEW m, Writes(p, m),
         \A q \in Prompts : q # p => pc'[q] = pc[q], pc'[p] \notin Quiet
  PROVE  OrderInv'
<1> DEFINE s == SessionOf[p]
<1>1. /\ s \in Sessions /\ \A x \in Sessions \ {s} : log'[x] = log[x]
      /\ Len(log[s]) \in Nat /\ Len(log'[s]) = Len(log[s]) + 1
      /\ \A i \in 1..Len(log[s]) : log'[s][i] = log[s][i]
      /\ log'[s][Len(log[s]) + 1] = m /\ m.by = p /\ pc[p] \in Active
  <2>1. m.by = p /\ pc[p] \in Active
    BY DEF Writes
  <2> QED BY <2>1, WrittenLog
<1>2. \A q \in Prompts : q # p /\ SessionOf[q] = s => pc[q] \notin Active
  BY <1>1 DEF Handles
<1> HIDE DEF s
<1>3. \A q \in Prompts : SessionOf[q] \in Sessions
  BY PromptAssumption
<1>s. s = SessionOf[p]
  BY DEF s
<1>4. OwnSession'
  <2> SUFFICES ASSUME NEW x \in Sessions, NEW i \in 1..Len(log'[x])
               PROVE  SessionOf[log'[x][i].by] = x
    BY DEF OwnSession
  <2>1. CASE x # s
    BY <1>1, <2>1 DEF OrderInv, OwnSession
  <2>2. CASE x = s /\ i \in 1..Len(log[s])
    BY <1>1, <2>2 DEF OrderInv, OwnSession
  <2>3. CASE x = s /\ i = Len(log[s]) + 1
    BY <1>1, <1>s, <2>3
  <2> QED BY <1>1, <2>1, <2>2, <2>3
<1>5. QuietWroteNothing'
  <2> SUFFICES ASSUME NEW q \in Prompts, pc'[q] \in Quiet, NEW i \in 1..Len(log'[SessionOf[q]])
               PROVE  log'[SessionOf[q]][i].by # q
    BY DEF QuietWroteNothing
  <2>1. q # p /\ pc[q] \in Quiet
    OBVIOUS
  <2>2. \A j \in 1..Len(log[SessionOf[q]]) : log[SessionOf[q]][j].by # q
    BY <2>1 DEF OrderInv, QuietWroteNothing
  <2>3. CASE SessionOf[q] = s
    BY <1>1, <2>1, <2>2, <2>3
  <2>4. CASE SessionOf[q] # s
    BY <1>1, <1>3, <2>2, <2>4
  <2> QED BY <2>3, <2>4
<1>6. ActiveIsLast'
  <2> SUFFICES ASSUME NEW q \in Prompts, pc'[q] \in Active,
                      NEW i \in 1..Len(log'[SessionOf[q]]), NEW j \in 1..Len(log'[SessionOf[q]]),
                      i < j, log'[SessionOf[q]][i].by = q
               PROVE  log'[SessionOf[q]][j].by = q
    BY DEF ActiveIsLast
  <2>1. CASE q = p
    <3>1. \A a, b \in 1..Len(log[s]) : a < b /\ log[s][a].by = p => log[s][b].by = p
      BY <1>1, <1>s DEF OrderInv, ActiveIsLast
    <3>2. CASE j \in 1..Len(log[s])
      <4>1. i \in 1..Len(log[s])
        BY <1>1, <3>2
      <4>2. log[s][i].by = p
        BY <1>1, <1>s, <2>1, <4>1
      <4> QED BY <1>1, <1>s, <2>1, <3>1, <3>2, <4>1, <4>2
    <3>3. CASE j = Len(log[s]) + 1
      BY <1>1, <1>s, <2>1, <3>3
    <3> QED BY <1>1, <1>s, <2>1, <3>2, <3>3
  <2>2. CASE q # p
    <3>1. pc[q] \in Active /\ SessionOf[q] # s
      BY <1>2, <2>2
    <3>2. log'[SessionOf[q]] = log[SessionOf[q]]
      BY <1>1, <1>3, <3>1
    <3> QED BY <3>1, <3>2 DEF OrderInv, ActiveIsLast
  <2> QED BY <2>1, <2>2
<1>7. RunsDoNotInterleave'
  <2> SUFFICES ASSUME NEW x \in Sessions, NEW i \in 1..Len(log'[x]), NEW j \in 1..Len(log'[x]),
                      NEW k \in 1..Len(log'[x]), i < j, j < k, log'[x][i].by = log'[x][k].by
               PROVE  log'[x][j].by = log'[x][i].by
    BY DEF RunsDoNotInterleave
  <2>1. CASE x # s
    <3>1. log'[x] = log[x]
      BY <1>1, <2>1
    <3> QED BY <3>1 DEF OrderInv, RunsDoNotInterleave
  <2>2. CASE x = s /\ k \in 1..Len(log[s])
    <3>1. i \in 1..Len(log[s]) /\ j \in 1..Len(log[s])
      BY <1>1, <2>2
    <3>2. \A a, b, c \in 1..Len(log[s]) : a < b /\ b < c /\ log[s][a].by = log[s][c].by
                                            => log[s][b].by = log[s][a].by
      BY <1>1 DEF OrderInv, RunsDoNotInterleave
    <3>3. log'[s][i] = log[s][i] /\ log'[s][j] = log[s][j] /\ log'[s][k] = log[s][k]
      BY <1>1, <2>2, <3>1
    <3> QED BY <2>2, <3>1, <3>2, <3>3
  <2>3. CASE x = s /\ k = Len(log[s]) + 1
    <3>1. i \in 1..Len(log[s]) /\ j \in 1..Len(log[s])
      BY <1>1, <2>3
    <3>2. log[s][i].by = p
      BY <1>1, <2>3, <3>1
    <3>3. log[s][j].by = p
      BY <1>1, <1>s, <3>1, <3>2 DEF OrderInv, ActiveIsLast
    <3> QED BY <1>1, <2>3, <3>1, <3>2, <3>3
  <2> QED BY <1>1, <2>1, <2>2, <2>3
<1> QED BY <1>4, <1>5, <1>6, <1>7 DEF OrderInv

\* What a step of p leaves alone of the others.
Others(p) ==
  \A q \in Prompts : q # p =>
    pc'[q] = pc[q] /\ loop'[q] = loop[q] /\ effects'[q] = effects[q] /\ (q \in spoiled' <=> q \in spoiled)

\* The steps of a handler or of the loop that write nothing: where they lead.
LEMMA SilentSteps ==
  ASSUME TypeInv, NEW p \in Prompts,
         CheckSession(p) \/ Register(p) \/ Mark(p) \/ Prepare(p) \/ Turn(p) \/ Model(p)
           \/ Fallback(p) \/ Notify(p) \/ Finish(p) \/ Execute(p)
  PROVE  /\ Others(p) /\ UNCHANGED <<log, spoiled>>
         /\ \/ pc[p] \in Quiet /\ pc'[p] \in Quiet \cup {"rejected"} /\ UNCHANGED <<loop, effects>>
            \/ /\ pc[p] \in Accepted \ Ended /\ pc'[p] \in Accepted \ Ended
               /\ UNCHANGED effects \/ Execute(p)
            \/ pc[p] \in Ended /\ pc'[p] \in Ended /\ UNCHANGED <<loop, effects>>
<1> USE DEF Quiet, Accepted, Ended, store, history
<1>1. ASSUME NEW l, Goto(p, l) PROVE pc'[p] = l /\ \A q \in Prompts : q # p => pc'[q] = pc[q]
  BY <1>1, OthersStay
<1>2. ASSUME NEW r, loop' = [loop EXCEPT ![p] = r] PROVE \A q \in Prompts : q # p => loop'[q] = loop[q]
  BY <1>2 DEF TypeInv, LoopOK
<1>3. ASSUME NEW err, Fail(p, err)
      PROVE  /\ pc'[p] = "failing"
             /\ \A q \in Prompts : q # p => pc'[q] = pc[q] /\ loop'[q] = loop[q]
  BY <1>1, <1>3 DEF Fail, TypeInv, LoopOK
<1>4. CASE CheckSession(p) \/ Register(p) \/ Mark(p) \/ Notify(p) \/ Finish(p)
  BY <1>1, <1>4 DEF CheckSession, Register, Mark, Notify, Finish, Others
<1>5. CASE Prepare(p)
  BY <1>1, <1>3, <1>5 DEF Prepare, Others
<1>6. CASE Turn(p)
  <2>1. loop' = [loop EXCEPT ![p].iteration = @ + 1] => \A q \in Prompts : q # p => loop'[q] = loop[q]
    BY DEF TypeInv, LoopOK
  <2> QED BY <1>1, <1>3, <1>6, <2>1 DEF Turn, Others
<1>7. CASE Fallback(p)
  <2>1. loop' = [loop EXCEPT ![p].fallbacks = @ + 1, ![p].guarded = FALSE, ![p].err = "none"]
          => \A q \in Prompts : q # p => loop'[q] = loop[q]
    BY DEF TypeInv, LoopOK
  <2> QED BY <1>1, <1>3, <1>7, <2>1 DEF Fallback, Others
<1>8. CASE Model(p)
  <2> DEFINE Moves == /\ pc'[p] \in {"model", "failing", "fallback", "ending", "tools"}
                      /\ \A q \in Prompts : q # p => pc'[q] = pc[q] /\ loop'[q] = loop[q]
  <2>1. ASSUME NEW err, ModelFails(p, err) PROVE Moves
    <3>1. loop' = [loop EXCEPT ![p].err = err] => \A q \in Prompts : q # p => loop'[q] = loop[q]
      BY DEF TypeInv, LoopOK
    <3> QED BY <1>1, <1>3, <2>1, <3>1 DEF ModelFails
  <2>2. ASSUME NEW calls, ModelCalls(p, calls) PROVE Moves
    <3>1. loop' = [loop EXCEPT ![p].rounds = @ + 1, ![p].err = "error"]
            => \A q \in Prompts : q # p => loop'[q] = loop[q]
      BY DEF TypeInv, LoopOK
    <3>2. loop' = [loop EXCEPT ![p].rounds = @ + 1, ![p].calls = calls, ![p].round = 0]
            => \A q \in Prompts : q # p => loop'[q] = loop[q]
      BY DEF TypeInv, LoopOK
    <3> QED BY <1>1, <2>2, <3>1, <3>2 DEF ModelCalls
  <2>3. pc[p] = "model" /\ UNCHANGED <<effects, log, spoiled>>
    BY <1>8 DEF Model
  <2>4. ASSUME ModelAnswers(p) PROVE Moves
    <3>1. loop' = [loop EXCEPT ![p].guarded = TRUE] => \A q \in Prompts : q # p => loop'[q] = loop[q]
      BY DEF TypeInv, LoopOK
    <3> QED BY <1>1, <2>1, <2>3, <2>4, <3>1 DEF ModelAnswers
  <2>5. Moves
    BY <1>8, <2>1, <2>2, <2>4 DEF Model
  <2> QED BY <2>3, <2>5 DEF Others
<1>9. CASE Execute(p)
  <2>1. pc[p] = "tools" /\ UNCHANGED <<log, spoiled>>
    BY <1>9 DEF Execute
  <2>2. CASE Fail(p, "repeated") /\ UNCHANGED <<done, effects>>
    BY <1>3, <1>9, <2>1, <2>2 DEF Others
  <2>3. CASE ~(Fail(p, "repeated") /\ UNCHANGED <<done, effects>>)
    <3>1. PICK g \in Signatures, r \in LoopType :
            /\ loop[p].repeated[g] < MaxRepeatedCalls
            /\ loop' = [loop EXCEPT ![p] = r]
            /\ r.repeated = [loop[p].repeated EXCEPT ![g] = @ + 1]
            /\ r.rounds = loop[p].rounds /\ r.iteration = loop[p].iteration
            /\ r.fallbacks = loop[p].fallbacks /\ r.guarded = loop[p].guarded
            /\ done' = [done EXCEPT ![p][g] = @ + 1]
            /\ r.err = loop[p].err
            /\ \/ effects' = [effects EXCEPT ![p] = @ + 1] /\ r.round = loop[p].round + 1
               \/ UNCHANGED effects /\ r.worked = loop[p].worked /\ r.round = loop[p].round
            /\ UNCHANGED pc
      BY <1>9, <2>3, ExecuteCases
    <3>2. \A q \in Prompts : q # p => effects'[q] = effects[q]
      BY <3>1 DEF TypeInv, HistoryType
    <3> QED BY <1>2, <1>9, <2>1, <3>1, <3>2 DEF Others
  <2> QED BY <2>2, <2>3
<1> QED BY <1>4, <1>5, <1>6, <1>7, <1>8, <1>9

\* The steps that write: what they write, and where they lead.
Succeeds(p, kind, n) ==
  UNCHANGED spoiled /\ \E m : Writes(p, m) /\ m.kind = kind /\ m.effects = n
Spoils(p) ==
  spoiled' = spoiled \cup {p} /\ (UNCHANGED log \/ \E m : Writes(p, m))
\* Every step that writes is one of these, at its place in the run.
LEMMA WritingSteps ==
  ASSUME TypeInv, NEW p \in Prompts,
         Record(p) \/ SaveRound(p) \/ SaveFinal(p) \/ PersistFailure(p)
  PROVE  /\ Others(p) /\ UNCHANGED effects
         /\ pc[p] \in Active /\ pc'[p] \notin Quiet
         /\ \/ /\ pc[p] = "marked" /\ pc'[p] = "routing" /\ UNCHANGED loop /\ Succeeds(p, "user", 0)
            \/ /\ pc[p] = "tools" /\ pc'[p] = "turn" /\ UNCHANGED loop /\ loop[p].calls = <<>>
               /\ Succeeds(p, "tools", loop[p].round)
            \/ /\ pc[p] \in {"ending", "failing"} /\ pc'[p] = "notify" /\ UNCHANGED loop
               /\ \E kind \in Endings : Succeeds(p, kind, 0)
            \/ /\ Spoils(p)
               /\ \/ pc'[p] \in {"rejected", "notify"} /\ UNCHANGED loop
                  \/ pc[p] # "failing" /\ pc'[p] = "failing" /\ Fail(p, "error")
<1> USE DEF Quiet, Accepted, Active, history
<1>1. ASSUME NEW l, Goto(p, l) PROVE pc'[p] = l /\ \A q \in Prompts : q # p => pc'[q] = pc[q]
  BY <1>1, OthersStay
<1>2. ASSUME NEW err, Fail(p, err)
      PROVE  /\ pc'[p] = "failing"
             /\ \A q \in Prompts : q # p => pc'[q] = pc[q] /\ loop'[q] = loop[q]
  BY <1>1, <1>2 DEF Fail, TypeInv, LoopOK
<1>3. ASSUME NEW kind \in Endings \cup {"user", "tools"}, NEW n \in Nat, pc[p] \in Active
      PROVE  /\ Saves(p, kind, n) => Succeeds(p, kind, n)
             /\ SaveFails(p, kind, n) => Spoils(p)
  <2>1. ASSUME Saves(p, kind, n) \/ SaveFails(p, kind, n)
        PROVE  /\ \/ UNCHANGED log
                  \/ \E m : Writes(p, m) /\ m.kind = kind /\ m.effects = n
               /\ Saves(p, kind, n) => /\ \E m : Writes(p, m) /\ m.kind = kind /\ m.effects = n
                                       /\ UNCHANGED spoiled
               /\ SaveFails(p, kind, n) => spoiled' = spoiled \cup {p}
    BY <1>3, <2>1, StoreWrites
  <2> QED BY <2>1 DEF Succeeds, Spoils
<1>4. ASSUME NEW kind, NEW n, Succeeds(p, kind, n) \/ Spoils(p)
      PROVE  \A q \in Prompts : q # p => (q \in spoiled' <=> q \in spoiled)
  BY <1>4 DEF Succeeds, Spoils
<1>5. CASE Record(p)
  <2>1. pc[p] \in Active /\ UNCHANGED <<loop, effects>>
    BY <1>5 DEF Record
  <2>2. \/ Succeeds(p, "user", 0) /\ Goto(p, "routing")
        \/ Spoils(p) /\ Goto(p, "rejected")
    BY <1>3, <1>5, <2>1 DEF Record
  <2>3. pc[p] = "marked"
    BY <1>5 DEF Record
  <2> QED BY <1>1, <1>4, <2>1, <2>2, <2>3 DEF Others
<1>6. CASE SaveRound(p)
  <2>1. pc[p] = "tools" /\ UNCHANGED effects /\ loop[p].round \in Nat /\ loop[p].calls = <<>>
    BY <1>6, LoopOf DEF SaveRound, LoopType
  <2>2. \/ Succeeds(p, "tools", loop[p].round) /\ Goto(p, "turn") /\ UNCHANGED loop
        \/ Spoils(p) /\ Fail(p, "error")
    BY <1>3, <1>6, <2>1 DEF SaveRound
  <2> QED BY <1>1, <1>2, <1>4, <2>1, <2>2 DEF Others
<1>7. CASE SaveFinal(p)
  <2>1. pc[p] = "ending" /\ UNCHANGED effects /\ "final" \in Endings
    BY <1>7 DEF SaveFinal, Endings
  <2>2. \/ Succeeds(p, "final", 0) /\ Goto(p, "notify") /\ UNCHANGED loop
        \/ Spoils(p) /\ Fail(p, "error")
    BY <1>3, <1>7, <2>1 DEF SaveFinal
  <2> QED BY <1>1, <1>2, <1>4, <2>1, <2>2 DEF Others
<1>8. CASE PersistFailure(p)
  <2>1. pc[p] = "failing" /\ UNCHANGED <<loop, effects>> /\ Goto(p, "notify")
    BY <1>8 DEF PersistFailure
  <2>2. PICK kind \in {"cancelled", "error"} : Saves(p, kind, 0) \/ SaveFails(p, kind, 0)
    BY <1>8 DEF PersistFailure
  <2>3. kind \in Endings
    BY DEF Endings
  <2>4. Succeeds(p, kind, 0) \/ Spoils(p)
    BY <1>3, <2>1, <2>2, <2>3
  <2> QED BY <1>1, <1>4, <2>1, <2>3, <2>4 DEF Others
<1> QED BY <1>5, <1>6, <1>7, <1>8

\* Every step keeps the transcripts in order.
LEMMA OrderStep == TypeInv /\ Handles /\ OrderInv /\ [Next]_vars => OrderInv'
<1> SUFFICES ASSUME TypeInv, Handles, OrderInv, [Next]_vars PROVE OrderInv'
  OBVIOUS
<1>1. ASSUME NEW p \in Prompts, CheckSession(p) \/ Step(p) \/ Execute(p) PROVE OrderInv'
  <2>1. CASE Record(p) \/ SaveRound(p) \/ SaveFinal(p) \/ PersistFailure(p)
    <3>1. /\ Others(p) /\ pc[p] \in Active /\ pc'[p] \notin Quiet
          /\ UNCHANGED log \/ \E m : Writes(p, m)
      BY <2>1, WritingSteps DEF Succeeds, Spoils
    <3>2. \A q \in Prompts : q # p => pc'[q] = pc[q]
      BY <3>1 DEF Others
    <3>3. CASE UNCHANGED log
      BY <3>1, <3>2, <3>3, OrderStays
    <3>4. CASE \E m : Writes(p, m)
      BY <3>1, <3>2, <3>4, OrderWrite
    <3> QED BY <3>1, <3>3, <3>4
  <2>2. CASE CheckSession(p) \/ Register(p) \/ Mark(p) \/ Prepare(p) \/ Turn(p) \/ Model(p)
               \/ Fallback(p) \/ Notify(p) \/ Finish(p) \/ Execute(p)
    <3>1. /\ Others(p) /\ UNCHANGED log
          /\ \/ pc[p] \in Quiet /\ pc'[p] \in Quiet \cup {"rejected"}
             \/ pc[p] \in Accepted \ Ended /\ pc'[p] \in Accepted \ Ended
             \/ pc[p] \in Ended /\ pc'[p] \in Ended
      BY <2>2, SilentSteps
    <3>2. \A q \in Prompts : q # p => pc'[q] = pc[q]
      BY <3>1 DEF Others
    <3>3. /\ pc'[p] \in Quiet => pc[p] \in Quiet
          /\ pc'[p] \in Active => pc[p] \in Active \cup Quiet
      <4>1. CASE pc[p] = "done"
        <5>1. CheckSession(p) \/ Register(p) \/ Mark(p) \/ Prepare(p) \/ Turn(p) \/ Model(p)
                \/ Fallback(p) \/ Notify(p) \/ Finish(p) \/ Execute(p) => pc[p] # "done"
          BY DEF CheckSession, Register, Mark, Prepare, Turn, Model, Fallback, Notify, Finish, Execute
        <5> QED BY <2>2, <4>1, <5>1
      <4>2. CASE pc[p] # "done"
        BY <3>1, <4>2 DEF Quiet, Accepted, Ended, Active
      <4> QED BY <4>1, <4>2
    <3> QED BY <3>1, <3>2, <3>3, OrderStays
  <2> QED BY <1>1, <2>1, <2>2 DEF Step
<1>2. ASSUME NEW s \in Sessions, Abort(s) PROVE OrderInv'
  BY <1>2, OrderStays DEF Abort, store
<1>3. ASSUME NEW s \in Sessions, Delete(s) PROVE OrderInv'
  <2>1. UNCHANGED pc /\ \A x \in Sessions : log'[x] = IF x = s THEN <<>> ELSE log[x]
    BY <1>3 DEF Delete, control, TypeInv, StoreType
  <2>2. \A x \in Sessions : log'[x] = log[x] \/ 1..Len(log'[x]) = {}
    BY <2>1
  <2>3. \A p \in Prompts : SessionOf[p] \in Sessions
    BY PromptAssumption
  <2>4. OwnSession'
    BY <2>2 DEF OrderInv, OwnSession
  <2>5. QuietWroteNothing'
    BY <2>1, <2>2, <2>3 DEF OrderInv, QuietWroteNothing
  <2>6. ActiveIsLast'
    BY <2>1, <2>2, <2>3 DEF OrderInv, ActiveIsLast
  <2>7. RunsDoNotInterleave'
    BY <2>2 DEF OrderInv, RunsDoNotInterleave
  <2> QED BY <2>4, <2>5, <2>6, <2>7 DEF OrderInv
<1>4. CASE UNCHANGED vars
  BY <1>4, OrderStays DEF vars, control, store
<1> QED BY <1>1, <1>2, <1>3, <1>4 DEF Next

\* The messages of two runs never interleave, whatever is aborted, deleted or
\* fails to be written.
THEOREM RunsInOrder == Spec => []RunsDoNotInterleave
<1>1. OrderInv => RunsDoNotInterleave
  BY DEF OrderInv
<1> QED BY <1>1, TypeInit, TypeStep, HandlesInit, HandlesStep, OrderInit, OrderStep, PTL DEF Spec

-----------------------------------------------------------------------------
(* One ending per run.                                                     *)

\* The endings of p and what it wrote last, of a transcript that grew or not.
OneEnding(p) ==
  \E i \in EndingsOf(p) :
    /\ EndingsOf(p) = {i}
    /\ \A j \in 1..Len(log[SessionOf[p]]) : log[SessionOf[p]][j].by = p => j <= i

\* A message of somebody else changes neither.
LEMMA OthersEndings ==
  ASSUME TypeInv, NEW p \in Prompts, NEW m, UNCHANGED log \/ Writes(p, m),
         NEW q \in Prompts, q # p
  PROVE  EndingsOf(q)' = EndingsOf(q) /\ (OneEnding(q) => OneEnding(q)')
<1>1. CASE UNCHANGED log
  BY <1>1 DEF EndingsOf, OneEnding
<1>2. CASE Writes(p, m) /\ SessionOf[q] # SessionOf[p]
  <2>1. SessionOf[q] \in Sessions
    BY PromptAssumption
  <2>2. log'[SessionOf[q]] = log[SessionOf[q]]
    BY <1>2, <2>1, WrittenLog
  <2> QED BY <2>2 DEF EndingsOf, OneEnding
<1>3. CASE Writes(p, m) /\ SessionOf[q] = SessionOf[p]
  <2> DEFINE l == log[SessionOf[q]]
             k == log'[SessionOf[q]]
  <2>1. /\ Len(l) \in Nat /\ Len(k) = Len(l) + 1
        /\ \A i \in 1..Len(l) : k[i] = l[i]
        /\ k[Len(l) + 1].by # q
    <3>1. m.by = p
      BY <1>3 DEF Writes
    <3> QED BY <1>3, <3>1, WrittenLog
  <2>2. EndingsOf(q) = {i \in 1..Len(l) : l[i].by = q /\ l[i].kind \in Endings}
    BY DEF EndingsOf
  <2>3. EndingsOf(q)' = {i \in 1..Len(k) : k[i].by = q /\ k[i].kind \in Endings}
    BY DEF EndingsOf
  <2>4. OneEnding(q) => \E i \in EndingsOf(q) : EndingsOf(q) = {i} /\ \A j \in 1..Len(l) : l[j].by = q => j <= i
    BY DEF OneEnding
  <2>5. (\E i \in EndingsOf(q)' : EndingsOf(q)' = {i} /\ \A j \in 1..Len(k) : k[j].by = q => j <= i) => OneEnding(q)'
    BY DEF OneEnding
  <2> HIDE DEF l, k
  <2>6. EndingsOf(q)' = EndingsOf(q)
    BY <2>1, <2>2, <2>3
  <2>7. ASSUME NEW i \in EndingsOf(q), \A j \in 1..Len(l) : l[j].by = q => j <= i
        PROVE  \A j \in 1..Len(k) : k[j].by = q => j <= i
    BY <2>1, <2>7
  <2> QED BY <2>4, <2>5, <2>6, <2>7
<1> QED BY <1>1, <1>2, <1>3

\* Its own message: an ending ends what had none, any other message adds none.
LEMMA OwnEndings ==
  ASSUME TypeInv, NEW p \in Prompts, NEW m, Writes(p, m), EndingsOf(p) = {}
  PROVE  IF m.kind \in Endings THEN OneEnding(p)' ELSE EndingsOf(p)' = {}
<1> DEFINE l == log[SessionOf[p]]
           k == log'[SessionOf[p]]
<1>1. /\ Len(l) \in Nat /\ Len(k) = Len(l) + 1
      /\ \A i \in 1..Len(l) : k[i] = l[i]
      /\ k[Len(l) + 1] = m /\ m.by = p
  BY WrittenLog DEF Writes
<1>2. {i \in 1..Len(l) : l[i].by = p /\ l[i].kind \in Endings} = {}
  BY DEF EndingsOf
<1>3. EndingsOf(p)' = {i \in 1..Len(k) : k[i].by = p /\ k[i].kind \in Endings}
  BY DEF EndingsOf
<1>4. (\E i \in EndingsOf(p)' : EndingsOf(p)' = {i} /\ \A j \in 1..Len(k) : k[j].by = p => j <= i) => OneEnding(p)'
  BY DEF OneEnding
<1> HIDE DEF l, k
<1>5. CASE m.kind \in Endings
  <2>1. EndingsOf(p)' = {Len(l) + 1}
    BY <1>1, <1>2, <1>3, <1>5
  <2>2. \A j \in 1..Len(k) : j <= Len(l) + 1
    BY <1>1
  <2> QED BY <1>4, <1>5, <2>1, <2>2
<1>6. CASE m.kind \notin Endings
  BY <1>1, <1>2, <1>3, <1>6
<1> QED BY <1>5, <1>6

\* No run has ended at the start, none has an ending.
LEMMA EndingInit == Init => EndingInv
<1> SUFFICES ASSUME Init PROVE EndingInv
  OBVIOUS
<1>1. \A p \in Prompts : pc[p] = "new"
  BY DEF Init
<1> QED BY <1>1 DEF EndingInv, NoEarlyEnding, EndedRunHasOneEnding, Accepted, Ended

\* What the invariant says of one prompt.
EndingOf(p) ==
  p \notin spoiled =>
    /\ pc[p] \in Accepted \ Ended => EndingsOf(p) = {}
    /\ pc[p] \in Ended => OneEnding(p)
\* The invariant, prompt by prompt.
LEMMA EndingParts == EndingInv <=> \A p \in Prompts : EndingOf(p)
BY DEF EndingInv, NoEarlyEnding, EndedRunHasOneEnding, EndingOf, OneEnding

\* Every step keeps one ending per run.
LEMMA EndingStep == TypeInv /\ OrderInv /\ EndingInv /\ [Next]_vars => EndingInv'
<1> SUFFICES ASSUME TypeInv, OrderInv, EndingInv, [Next]_vars, NEW q \in Prompts PROVE EndingOf(q)'
  <2>1. EndingInv' <=> \A p \in Prompts : EndingOf(p)'
    BY DEF EndingInv, NoEarlyEnding, EndedRunHasOneEnding, EndingOf, OneEnding
  <2> QED BY <2>1
<1>0. EndingOf(q)
  BY EndingParts
<1>1. ASSUME NEW p \in Prompts, CheckSession(p) \/ Step(p) \/ Execute(p) PROVE EndingOf(q)'
  <2>1. Others(p) /\ (UNCHANGED log \/ \E m : Writes(p, m))
    <3>1. CASE Record(p) \/ SaveRound(p) \/ SaveFinal(p) \/ PersistFailure(p)
      BY <3>1, WritingSteps DEF Succeeds, Spoils
    <3>2. CASE CheckSession(p) \/ Register(p) \/ Mark(p) \/ Prepare(p) \/ Turn(p) \/ Model(p)
                 \/ Fallback(p) \/ Notify(p) \/ Finish(p) \/ Execute(p)
      BY <3>2, SilentSteps
    <3> QED BY <1>1, <3>1, <3>2 DEF Step
  <2>2. CASE q # p
    <3>1. pc'[q] = pc[q] /\ (q \in spoiled' <=> q \in spoiled)
      BY <2>1, <2>2 DEF Others
    <3>2. EndingsOf(q)' = EndingsOf(q) /\ (OneEnding(q) => OneEnding(q)')
      BY <2>1, <2>2, OthersEndings
    <3> QED BY <1>0, <3>1, <3>2 DEF EndingOf
  <2>3. CASE q = p /\ UNCHANGED <<log, spoiled>>
    <3>1. EndingsOf(p)' = EndingsOf(p) /\ (OneEnding(p) => OneEnding(p)')
      BY <2>3 DEF EndingsOf, OneEnding
    <3>2. ASSUME p \notin spoiled
          PROVE  \/ pc'[p] \in Quiet \cup {"rejected"}
                 \/ pc[p] \in Accepted \ Ended /\ pc'[p] \in Accepted \ Ended
                 \/ pc[p] \in Ended /\ pc'[p] \in Ended
      <4>1. CASE Record(p) \/ SaveRound(p) \/ SaveFinal(p) \/ PersistFailure(p)
        <5>1. ASSUME NEW m, Writes(p, m) PROVE FALSE
          <6>1. Len(log'[SessionOf[p]]) = Len(log[SessionOf[p]]) + 1 /\ Len(log[SessionOf[p]]) \in Nat
            BY <5>1, WrittenLog
          <6> QED BY <2>3, <6>1
        <5>2. Spoils(p)
          BY <4>1, <5>1, WritingSteps DEF Succeeds
        <5> QED BY <2>3, <3>2, <5>2 DEF Spoils
      <4>2. CASE CheckSession(p) \/ Register(p) \/ Mark(p) \/ Prepare(p) \/ Turn(p) \/ Model(p)
                   \/ Fallback(p) \/ Notify(p) \/ Finish(p) \/ Execute(p)
        BY <4>2, SilentSteps
      <4> QED BY <1>1, <4>1, <4>2 DEF Step
    <3>3. (Quiet \cup {"rejected"}) \cap (Accepted \cup Ended) = {}
      BY DEF Quiet, Accepted, Ended
    <3> QED BY <1>0, <2>3, <3>1, <3>2, <3>3 DEF EndingOf
  <2>4. CASE q = p /\ (Record(p) \/ SaveRound(p) \/ SaveFinal(p) \/ PersistFailure(p))
    <3>1. CASE Spoils(p)
      BY <2>4, <3>1 DEF Spoils, EndingOf
    <3>2. ASSUME NEW kind, NEW n, Succeeds(p, kind, n), EndingsOf(p) = {} \/ p \in spoiled,
                 pc'[p] \in IF kind \in Endings THEN Ended ELSE Accepted \ Ended
          PROVE  EndingOf(p)'
      <4>1. PICK m : Writes(p, m) /\ m.kind = kind
        BY <3>2 DEF Succeeds
      <4>2. p \notin spoiled => IF kind \in Endings THEN OneEnding(p)' ELSE EndingsOf(p)' = {}
        BY <3>2, <4>1, OwnEndings
      <4>3. UNCHANGED spoiled
        BY <3>2 DEF Succeeds
      <4> QED BY <3>2, <4>2, <4>3 DEF EndingOf
    <3>3. pc[p] \in Accepted \ Ended \/ pc[p] \in Quiet => EndingsOf(p) = {} \/ p \in spoiled
      <4>1. CASE pc[p] \in Quiet
        BY <4>1 DEF OrderInv, QuietWroteNothing, EndingsOf
      <4>2. CASE pc[p] \in Accepted \ Ended
        BY <1>0, <2>4, <4>2 DEF EndingOf
      <4> QED BY <4>1, <4>2
    <3>4. ~Spoils(p) =>
            /\ pc[p] \in {"marked", "tools", "ending", "failing"}
            /\ \/ pc'[p] \in {"routing", "turn"} /\ \E kind \in {"user", "tools"} : \E n : Succeeds(p, kind, n)
               \/ pc'[p] = "notify" /\ \E kind \in Endings : \E n : Succeeds(p, kind, n)
      BY <2>4, WritingSteps
    <3>5. CASE ~Spoils(p)
      <4>1. EndingsOf(p) = {} \/ p \in spoiled
        BY <3>3, <3>4, <3>5 DEF Accepted, Ended, Quiet
      <4>2. CASE pc'[p] \in {"routing", "turn"} /\ \E kind \in {"user", "tools"} : \E n : Succeeds(p, kind, n)
        <5>1. PICK kind \in {"user", "tools"} : \E n : Succeeds(p, kind, n)
          BY <4>2
        <5>2. kind \notin Endings /\ pc'[p] \in Accepted \ Ended
          BY <4>2 DEF Endings, Accepted, Ended
        <5> QED BY <2>4, <3>2, <4>1, <5>1, <5>2
      <4>3. CASE pc'[p] = "notify" /\ \E kind \in Endings : \E n : Succeeds(p, kind, n)
        BY <2>4, <3>2, <4>1, <4>3 DEF Ended
      <4> QED BY <3>4, <3>5, <4>2, <4>3
    <3> QED BY <3>1, <3>5
  <2>5. CASE q = p /\ ~(UNCHANGED <<log, spoiled>>)
    <3>1. Record(p) \/ SaveRound(p) \/ SaveFinal(p) \/ PersistFailure(p)
      BY <1>1, <2>5, SilentSteps DEF Step
    <3> QED BY <2>4, <2>5, <3>1
  <2> QED BY <2>2, <2>3, <2>5
<1>2. ASSUME NEW s \in Sessions, Abort(s) PROVE EndingOf(q)'
  BY <1>0, <1>2 DEF Abort, store, EndingOf, EndingsOf, OneEnding
<1>3. ASSUME NEW s \in Sessions, Delete(s) PROVE EndingOf(q)'
  <2>1. UNCHANGED pc /\ \A x \in Sessions : x # s => log'[x] = log[x]
    BY <1>3 DEF Delete, control, TypeInv, StoreType
  <2>2. spoiled' = spoiled \cup {p \in Prompts : SessionOf[p] = s /\ pc[p] \in Accepted \cup {"done"}}
    BY <1>3 DEF Delete
  <2>3. CASE SessionOf[q] = s
    BY <2>1, <2>2, <2>3 DEF EndingOf, Accepted, Ended
  <2>4. CASE SessionOf[q] # s
    <3>1. SessionOf[q] \in Sessions
      BY PromptAssumption
    <3>2. log'[SessionOf[q]] = log[SessionOf[q]]
      BY <2>1, <2>4, <3>1
    <3> QED BY <1>0, <2>1, <2>2, <3>2 DEF EndingOf, EndingsOf, OneEnding
  <2> QED BY <2>3, <2>4
<1>4. CASE UNCHANGED vars
  BY <1>0, <1>4 DEF vars, control, store, EndingOf, EndingsOf, OneEnding
<1> QED BY <1>1, <1>2, <1>3, <1>4 DEF Next

\* A run that has ended left one ending, after everything else it wrote, unless a
\* write failed or the session was deleted.
THEOREM OneEndingEach == Spec => []EndedRunHasOneEnding
<1>1. EndingInv => EndedRunHasOneEnding
  BY DEF EndingInv
<1> QED
  BY <1>1, TypeInit, TypeStep, HandlesInit, HandlesStep, OrderInit, OrderStep, EndingInit, EndingStep, PTL
     DEF Spec

-----------------------------------------------------------------------------
(* What the transcript shows of a run's effects.                           *)

\* A set of numbers that is not empty has a least one.
LEMMA Least ==
  ASSUME NEW T \in SUBSET Nat, T # {}
  PROVE  \E n \in T : \A k \in T : n <= k
<1> DEFINE R == {ss \in Nat \X Nat : ss[1] < ss[2]}
<1>1. IsWellFoundedOn(R, Nat)
  BY NatLessThanWellFounded DEF OpToRel
<1>2. PICK n \in T : \A k \in T : ~(<<k, n>> \in R)
  <2> HIDE DEF R
  <2> QED BY <1>1, WFMin
<1>3. \A k \in T : ~(k < n)
  BY <1>2
<1> QED BY <1>3

\* The running sums of EffectsIn, and the equation that defines them.
Share(messages, p, i) == IF messages[i].by = p THEN messages[i].effects ELSE 0
IsSum(f, messages, p) ==
  f = [i \in 0..Len(messages) |-> IF i = 0 THEN 0 ELSE f[i - 1] + Share(messages, p, i)]
\* EffectsIn is the last of the running sums.
LEMMA EffectsInIsASum ==
  \A messages, p : EffectsIn(messages, p) = (CHOOSE f : IsSum(f, messages, p))[Len(messages)]
BY DEF EffectsIn, IsSum, Share

\* The equation, argument by argument.
LEMMA SumValues ==
  ASSUME NEW messages \in Seq(Message), NEW p, NEW f, IsSum(f, messages, p)
  PROVE  f[0] = 0 /\ \A i \in 1..Len(messages) : f[i] = f[i - 1] + Share(messages, p, i)
<1>1. Len(messages) \in Nat
  OBVIOUS
<1>2. \A i \in 0..Len(messages) : f[i] = IF i = 0 THEN 0 ELSE f[i - 1] + Share(messages, p, i)
  <2> DEFINE g == [i \in 0..Len(messages) |-> IF i = 0 THEN 0 ELSE f[i - 1] + Share(messages, p, i)]
  <2>1. f = g
    BY DEF IsSum
  <2>2. \A i \in 0..Len(messages) : g[i] = IF i = 0 THEN 0 ELSE f[i - 1] + Share(messages, p, i)
    OBVIOUS
  <2> HIDE DEF g
  <2> QED BY <2>1, <2>2
<1> QED BY <1>1, <1>2

\* The sums of a transcript and of a longer one agree as far as both go.
LEMMA SumsAgree ==
  ASSUME NEW a \in Seq(Message), NEW b \in Seq(Message), NEW p, NEW f, NEW g,
         IsSum(f, a, p), IsSum(g, b, p), Len(a) <= Len(b), \A i \in 1..Len(a) : a[i] = b[i]
  PROVE  \A i \in 0..Len(a) : f[i] = g[i]
<1> DEFINE T == {i \in 0..Len(a) : f[i] # g[i]}
<1>0. Len(a) \in Nat /\ Len(b) \in Nat
  OBVIOUS
<1>1. SUFFICES ASSUME T # {} PROVE FALSE
  OBVIOUS
<1>2. T \in SUBSET Nat
  BY <1>0
<1>3. PICK n \in T : \A k \in T : n <= k
  <2> HIDE DEF T
  <2> QED BY <1>1, <1>2, Least
<1>4. n \in 0..Len(a) /\ f[n] # g[n]
  BY <1>3
<1>5. n # 0
  BY <1>4, SumValues
<1>6. n \in 1..Len(a) /\ n \in 1..Len(b) /\ n - 1 \in 0..Len(a)
  BY <1>0, <1>4, <1>5
<1>7. f[n - 1] = g[n - 1]
  BY <1>0, <1>3, <1>6
<1>8. Share(a, p, n) = Share(b, p, n)
  BY <1>6 DEF Share
<1>9. f[n] = f[n - 1] + Share(a, p, n) /\ g[n] = g[n - 1] + Share(b, p, n)
  BY <1>6, SumValues
<1> QED BY <1>4, <1>7, <1>8, <1>9

\* The sums of a transcript are those of one message less, and one more.
LEMMA SumExtends ==
  ASSUME NEW a \in Seq(Message), NEW m \in Message, NEW p, NEW f, IsSum(f, a, p)
  PROVE  IsSum([i \in 0..(Len(a) + 1) |->
                  IF i = Len(a) + 1 THEN f[Len(a)] + (IF m.by = p THEN m.effects ELSE 0) ELSE f[i]],
               Append(a, m), p)
<1> DEFINE b == Append(a, m)
           last == f[Len(a)] + (IF m.by = p THEN m.effects ELSE 0)
           g == [i \in 0..(Len(a) + 1) |-> IF i = Len(a) + 1 THEN last ELSE f[i]]
           h == [i \in 0..Len(b) |-> IF i = 0 THEN 0 ELSE g[i - 1] + Share(b, p, i)]
<1>0. Len(a) \in Nat /\ Len(b) = Len(a) + 1 /\ b[Len(a) + 1] = m /\ \A i \in 1..Len(a) : b[i] = a[i]
  OBVIOUS
<1>1. \A i \in 0..(Len(a) + 1) : g[i] = IF i = Len(a) + 1 THEN last ELSE f[i]
  OBVIOUS
<1>2. \A i \in 0..Len(b) : h[i] = IF i = 0 THEN 0 ELSE g[i - 1] + Share(b, p, i)
  OBVIOUS
<1>3. DOMAIN g = 0..(Len(a) + 1) /\ DOMAIN h = 0..Len(b)
  OBVIOUS
<1>4. f[0] = 0 /\ \A i \in 1..Len(a) : f[i] = f[i - 1] + Share(a, p, i)
  BY SumValues
<1>5. Share(b, p, Len(a) + 1) = (IF m.by = p THEN m.effects ELSE 0)
  BY <1>0 DEF Share
<1>6. \A i \in 1..Len(a) : Share(b, p, i) = Share(a, p, i)
  BY <1>0 DEF Share
<1>7. last = f[Len(a)] + Share(b, p, Len(a) + 1)
  BY <1>5
<1>8. SUFFICES g = h
  BY DEF IsSum
<1>9. g = [i \in DOMAIN g |-> g[i]] /\ h = [i \in DOMAIN h |-> h[i]]
  OBVIOUS
<1> HIDE DEF b, last, g, h
<1>10. ASSUME NEW i \in 0..Len(b) PROVE g[i] = h[i]
  <2>1. CASE i = 0
    BY <1>0, <1>1, <1>2, <1>4, <2>1
  <2>2. CASE i \in 1..Len(a)
    <3>1. g[i - 1] = f[i - 1] /\ g[i] = f[i]
      BY <1>0, <1>1, <2>2
    <3> QED BY <1>0, <1>2, <1>4, <1>6, <2>2, <3>1
  <2>3. CASE i = Len(a) + 1
    <3>1. g[i - 1] = f[Len(a)] /\ g[i] = last
      BY <1>0, <1>1, <2>3
    <3> QED BY <1>0, <1>2, <1>7, <2>3, <3>1
  <2> QED BY <1>0, <2>1, <2>2, <2>3
<1> QED BY <1>0, <1>3, <1>9, <1>10

\* The empty transcript has its sums.
LEMMA SumOfNothing == \A p : IsSum([i \in 0..0 |-> 0], <<>>, p)
<1> TAKE p
<1>1. 0..Len(<<>>) = 0..0
  OBVIOUS
<1>2. \A i \in 0..0 : i = 0
  OBVIOUS
<1> QED BY <1>1, <1>2 DEF IsSum

\* Every transcript has its sums.
LEMMA SumExists ==
  ASSUME NEW a \in Seq(Message), NEW p
  PROVE  \E f : IsSum(f, a, p)
<1> DEFINE pre(n) == SubSeq(a, 1, n)
           T == {n \in 0..Len(a) : ~ \E f : IsSum(f, pre(n), p)}
<1>0. Len(a) \in Nat
  OBVIOUS
<1>1. pre(Len(a)) = a
  BY SubSeqFull
<1>2. SUFFICES ASSUME T # {} PROVE FALSE
  <2>1. ASSUME T = {} PROVE \E f : IsSum(f, pre(Len(a)), p)
    <3>1. Len(a) \in 0..Len(a)
      BY <1>0
    <3> QED BY <2>1, <3>1
  <2> HIDE DEF pre, T
  <2> QED BY <1>1, <2>1
<1>3. PICK n \in T : \A k \in T : n <= k
  <2>1. T \in SUBSET Nat
    BY <1>0
  <2> HIDE DEF T
  <2> QED BY <1>2, <2>1, Least
<1>4. n \in 0..Len(a) /\ ~ \E f : IsSum(f, pre(n), p)
  BY <1>3
<1>5. CASE n = 0
  <2>1. pre(0) = <<>>
    OBVIOUS
  <2> QED BY <1>4, <1>5, <2>1, SumOfNothing
<1>6. CASE n # 0
  <2>1. n - 1 \in 0..Len(a) /\ n \in 1..Len(a) /\ n - 1 \notin T
    BY <1>0, <1>3, <1>4, <1>6
  <2>2. PICK f : IsSum(f, pre(n - 1), p)
    BY <2>1
  <2>3. pre(n - 1) \in Seq(Message) /\ a[n] \in Message
    BY <1>0, <2>1
  <2>4. pre(n) = Append(pre(n - 1), a[n])
    BY <1>0, <2>1
  <2> HIDE DEF pre, T
  <2>5. \E g : IsSum(g, Append(pre(n - 1), a[n]), p)
    BY <2>2, <2>3, SumExtends
  <2> QED BY <1>4, <2>4, <2>5
<1> QED BY <1>5, <1>6

\* What EffectsIn is of the empty transcript, and of one more message.
LEMMA EffectsOfNothing == \A p : EffectsIn(<<>>, p) = 0
<1> TAKE p
<1>1. <<>> \in Seq(Message) /\ Len(<<>>) = 0
  OBVIOUS
<1>2. PICK f : f = CHOOSE g : IsSum(g, <<>>, p)
  OBVIOUS
<1>3. IsSum(f, <<>>, p)
  BY <1>2, SumOfNothing
<1>4. f[0] = 0
  BY <1>1, <1>3, SumValues
<1> QED BY <1>1, <1>2, <1>4, EffectsInIsASum

\* A message appended adds its effects, if the prompt wrote it.
LEMMA EffectsOfOneMore ==
  ASSUME NEW a \in Seq(Message), NEW m \in Message, NEW p
  PROVE  EffectsIn(Append(a, m), p) = EffectsIn(a, p) + (IF m.by = p THEN m.effects ELSE 0)
<1> DEFINE b == Append(a, m)
<1>1. PICK f : f = CHOOSE g : IsSum(g, a, p)
  OBVIOUS
<1>2. IsSum(f, a, p)
  BY <1>1, SumExists
<1>3. PICK h : h = CHOOSE g : IsSum(g, b, p)
  OBVIOUS
<1>4. /\ b \in Seq(Message) /\ Len(b) = Len(a) + 1 /\ Len(a) \in Nat
      /\ b[Len(a) + 1] = m /\ \A i \in 1..Len(a) : a[i] = b[i]
  OBVIOUS
<1> HIDE DEF b
<1>5. IsSum(h, b, p)
  BY <1>3, <1>4, SumExists
<1>6. h[Len(a) + 1] = h[Len(a)] + Share(b, p, Len(a) + 1)
  <2>1. \A i \in 1..Len(b) : h[i] = h[i - 1] + Share(b, p, i)
    BY <1>4, <1>5, SumValues
  <2>2. Len(a) + 1 \in 1..Len(b) /\ (Len(a) + 1) - 1 = Len(a)
    BY <1>4
  <2> QED BY <2>1, <2>2
<1>7. h[Len(a)] = f[Len(a)]
  <2>1. Len(a) <= Len(b) /\ Len(a) \in 0..Len(a)
    BY <1>4
  <2>2. \A i \in 0..Len(a) : f[i] = h[i]
    BY <1>2, <1>4, <1>5, <2>1, SumsAgree
  <2> QED BY <2>1, <2>2
<1>8. Share(b, p, Len(a) + 1) = (IF m.by = p THEN m.effects ELSE 0)
  BY <1>4 DEF Share
<1>9. EffectsIn(a, p) = f[Len(a)] /\ EffectsIn(b, p) = h[Len(a) + 1]
  BY <1>1, <1>3, <1>4, EffectsInIsASum
<1> QED BY <1>6, <1>7, <1>8, <1>9 DEF b

\* A message counts its effects, so does a transcript.
LEMMA EffectsAreCounted ==
  ASSUME NEW a \in Seq(Message), NEW p
  PROVE  EffectsIn(a, p) \in Nat
<1>1. PICK f : f = CHOOSE g : IsSum(g, a, p)
  OBVIOUS
<1>2. IsSum(f, a, p)
  BY <1>1, SumExists
<1>3. f[0] = 0 /\ \A i \in 1..Len(a) : f[i] = f[i - 1] + Share(a, p, i)
  BY <1>2, SumValues
<1>4. Len(a) \in Nat /\ \A i \in 1..Len(a) : a[i] \in Message
  OBVIOUS
<1>5. \A i \in 1..Len(a) : Share(a, p, i) \in Nat
  BY <1>4 DEF Share, Message
<1> DEFINE T == {i \in 0..Len(a) : f[i] \notin Nat}
<1>6. ASSUME T # {} PROVE FALSE
  <2>1. PICK n \in T : \A k \in T : n <= k
    <3>1. T \in SUBSET Nat
      BY <1>4
    <3> HIDE DEF T
    <3> QED BY <1>6, <3>1, Least
  <2>2. n \in 0..Len(a) /\ f[n] \notin Nat /\ n # 0
    BY <1>3, <2>1
  <2>3. n \in 1..Len(a) /\ n - 1 \in 0..Len(a) /\ n - 1 \notin T
    BY <1>4, <2>1, <2>2
  <2>4. f[n - 1] \in Nat
    BY <2>3
  <2> QED BY <1>3, <1>5, <2>2, <2>3, <2>4
<1>7. f[Len(a)] \in Nat
  BY <1>4, <1>6
<1> QED BY <1>1, <1>7, EffectsInIsASum

\* What a message adds to what the transcript shows of each prompt.
LEMMA EffectsWritten ==
  ASSUME TypeInv, NEW p \in Prompts, NEW m, Writes(p, m), NEW q \in Prompts
  PROVE  EffectsIn(log'[SessionOf[q]], q)
           = IF q = p THEN EffectsIn(log[SessionOf[q]], q) + m.effects
                      ELSE EffectsIn(log[SessionOf[q]], q)
<1>1. SessionOf[q] \in Sessions /\ m \in Message /\ m.by = p
  BY PromptAssumption DEF Writes
<1>2. log[SessionOf[q]] \in Seq(Message)
  BY <1>1 DEF TypeInv, StoreType
<1>3. CASE SessionOf[q] # SessionOf[p]
  BY <1>1, <1>3, WrittenLog
<1>4. CASE SessionOf[q] = SessionOf[p]
  <2>1. log'[SessionOf[q]] = Append(log[SessionOf[q]], m)
    BY <1>1, <1>4 DEF Writes, TypeInv, StoreType
  <2>2. EffectsIn(Append(log[SessionOf[q]], m), q)
          = EffectsIn(log[SessionOf[q]], q) + (IF m.by = q THEN m.effects ELSE 0)
    BY <1>1, <1>2, EffectsOfOneMore
  <2>3. EffectsIn(log[SessionOf[q]], q) \in Nat
    BY <1>2, EffectsAreCounted
  <2> QED BY <1>1, <2>1, <2>2, <2>3
<1> QED BY <1>3, <1>4

\* What a step that writes nothing does to the round and the error of its loop.
LEMMA SilentLoop ==
  ASSUME TypeInv, NEW p \in Prompts,
         CheckSession(p) \/ Register(p) \/ Mark(p) \/ Prepare(p) \/ Turn(p) \/ Model(p)
           \/ Fallback(p) \/ Notify(p) \/ Finish(p)
  PROVE  /\ pc[p] # "tools" /\ UNCHANGED effects
         /\ pc'[p] = "tools" => loop'[p].round = 0
         /\ \/ UNCHANGED loop /\ pc[p] \in Over /\ pc'[p] \in Over
            \/ /\ pc[p] \notin Over
               /\ pc'[p] = "failing" \/ loop'[p].err \in {loop[p].err, "none", "error", "cancelled"}
<1> USE DEF Over, history
<1>1. ASSUME NEW l, Goto(p, l) PROVE pc'[p] = l
  BY <1>1, OthersStay
<1>2. ASSUME NEW err, Fail(p, err) PROVE pc'[p] = "failing"
  BY <1>1, <1>2 DEF Fail
<1>3. loop[p] \in LoopType /\ loop \in [Prompts -> LoopType]
  BY LoopOf DEF TypeInv, LoopOK
<1>4. CASE CheckSession(p) \/ Register(p) \/ Mark(p) \/ Notify(p) \/ Finish(p)
  BY <1>1, <1>4 DEF CheckSession, Register, Mark, Notify, Finish
<1>5. CASE Prepare(p)
  BY <1>1, <1>2, <1>5 DEF Prepare
<1>6. CASE Turn(p)
  <2>1. loop' = [loop EXCEPT ![p].iteration = @ + 1] => loop'[p].err = loop[p].err
    BY <1>3 DEF LoopType
  <2> QED BY <1>1, <1>2, <1>6, <2>1 DEF Turn
<1>7. CASE Fallback(p)
  <2>1. loop' = [loop EXCEPT ![p].fallbacks = @ + 1, ![p].guarded = FALSE, ![p].err = "none"]
          => loop'[p].err = "none"
    BY <1>3 DEF LoopType
  <2> QED BY <1>1, <1>2, <1>7, <2>1 DEF Fallback
<1>8. CASE Model(p)
  <2> DEFINE Moves == /\ pc'[p] = "tools" => loop'[p].round = 0
                      /\ pc'[p] = "failing" \/ loop'[p].err \in {loop[p].err, "none", "error", "cancelled"}
  <2>0. pc[p] = "model" /\ UNCHANGED effects
    BY <1>8 DEF Model
  <2>1. ASSUME NEW err \in {"error", "cancelled"}, ModelFails(p, err) PROVE Moves
    <3>1. loop' = [loop EXCEPT ![p].err = err] => loop'[p].err = err
      BY <1>3 DEF LoopType
    <3> QED BY <1>1, <1>2, <2>1, <3>1 DEF ModelFails
  <2>2. ASSUME NEW calls, ModelCalls(p, calls) PROVE Moves
    <3>1. loop' = [loop EXCEPT ![p].rounds = @ + 1, ![p].calls = calls, ![p].round = 0]
            => loop'[p].err = loop[p].err /\ loop'[p].round = 0
      BY <1>3 DEF LoopType
    <3> QED BY <1>1, <2>2, <3>1 DEF ModelCalls
  <2>3. ASSUME ModelAnswers(p) PROVE Moves
    <3>1. loop' = [loop EXCEPT ![p].guarded = TRUE] => loop'[p].err = loop[p].err
      BY <1>3 DEF LoopType
    <3> QED BY <1>1, <2>0, <2>1, <2>3, <3>1 DEF ModelAnswers
  <2>4. Moves
    BY <1>8, <2>1, <2>2, <2>3, ErrorValues DEF Model
  <2> QED BY <2>0, <2>4
<1> QED BY <1>4, <1>5, <1>6, <1>7, <1>8

\* Nothing was changed at the start.
LEMMA EffectsInit == Init => EffectsInv
<1> SUFFICES ASSUME Init PROVE EffectsInv
  OBVIOUS
<1>1. \A p \in Prompts : /\ pc[p] = "new" /\ loop[p].err = "none" /\ effects[p] = 0
                         /\ log[SessionOf[p]] = <<>>
  <2>1. \A p \in Prompts : SessionOf[p] \in Sessions
    BY PromptAssumption
  <2> QED BY <2>1 DEF Init, FreshLoop
<1>2. OnlyGuardRepeats /\ QuietDidNothing
  BY <1>1 DEF OnlyGuardRepeats, QuietDidNothing
<1>3. EffectsKept
  BY <1>1, EffectsOfNothing DEF EffectsKept, Unsaved
<1> QED BY <1>2, <1>3 DEF EffectsInv

\* What the invariant says of one prompt.
EffectsOf(p) ==
  /\ loop[p].err = "repeated" => pc[p] \in Over
  /\ pc[p] \in Quiet => effects[p] = 0
  /\ p \notin spoiled /\ pc[p] # "rejected" /\ loop[p].err # "repeated" =>
       EffectsIn(log[SessionOf[p]], p) + Unsaved(p) = effects[p]
\* The invariant, prompt by prompt, before and after a step.
LEMMA EffectsParts == /\ EffectsInv <=> \A p \in Prompts : EffectsOf(p)
                      /\ EffectsInv' <=> \A p \in Prompts : EffectsOf(p)'
BY DEF EffectsInv, OnlyGuardRepeats, QuietDidNothing, EffectsKept, EffectsOf

\* Executing a call counts it in the round and in the effects, or in neither.
LEMMA EffectsExecute ==
  ASSUME TypeInv, NEW p \in Prompts, EffectsOf(p), Execute(p)
  PROVE  EffectsOf(p)'
<1>1. pc[p] = "tools" /\ UNCHANGED <<log, spoiled>>
  BY DEF Execute, store
<1>2. pc[p] \notin Over /\ "tools" \notin Quiet /\ "failing" \notin Quiet /\ "failing" \in Over
  BY <1>1 DEF Over, Quiet
<1>3. loop[p].err # "repeated"
  BY <1>2 DEF EffectsOf
<1>4. CASE Fail(p, "repeated") /\ UNCHANGED <<done, effects>>
  <2>1. pc'[p] = "failing" /\ loop'[p].err = "repeated"
    BY <1>4, OthersStay DEF Fail, TypeInv, LoopOK, LoopType
  <2> QED BY <1>2, <2>1 DEF EffectsOf
<1>5. CASE ~(Fail(p, "repeated") /\ UNCHANGED <<done, effects>>)
  <2>0. PICK g \in Signatures, r \in LoopType :
          /\ loop[p].repeated[g] < MaxRepeatedCalls
          /\ loop' = [loop EXCEPT ![p] = r]
          /\ r.repeated = [loop[p].repeated EXCEPT ![g] = @ + 1]
          /\ r.rounds = loop[p].rounds /\ r.iteration = loop[p].iteration
          /\ r.fallbacks = loop[p].fallbacks /\ r.guarded = loop[p].guarded
          /\ done' = [done EXCEPT ![p][g] = @ + 1]
          /\ r.err = loop[p].err
          /\ \/ effects' = [effects EXCEPT ![p] = @ + 1] /\ r.round = loop[p].round + 1
             \/ UNCHANGED effects /\ r.worked = loop[p].worked /\ r.round = loop[p].round
          /\ UNCHANGED pc
    BY <1>5, ExecuteCases
  <2>1. loop'[p] = r /\ pc'[p] = "tools"
    BY <1>1, <2>0 DEF TypeInv, LoopOK
  <2>2. /\ effects[p] \in Nat /\ loop[p].round \in Nat
        /\ \/ effects'[p] = effects[p] + 1 /\ loop'[p].round = loop[p].round + 1
           \/ effects'[p] = effects[p] /\ loop'[p].round = loop[p].round
    BY <2>0, <2>1, LoopOf DEF TypeInv, HistoryType, LoopType
  <2>3. EffectsIn(log[SessionOf[p]], p) \in Nat
    BY PromptAssumption, EffectsAreCounted DEF TypeInv, StoreType
  <2>4. loop'[p].err # "repeated"
    BY <1>3, <2>0, <2>1
  <2>5. p \notin spoiled => EffectsIn(log[SessionOf[p]], p) + loop[p].round = effects[p]
    BY <1>1, <1>3 DEF EffectsOf, Unsaved
  <2>6. p \notin spoiled => EffectsIn(log[SessionOf[p]], p) + loop'[p].round = effects'[p]
    BY <2>2, <2>3, <2>5
  <2>7. p \notin spoiled' => EffectsIn(log[SessionOf[p]], p)' + Unsaved(p)' = effects'[p]
    BY <1>1, <2>1, <2>6 DEF Unsaved
  <2> QED BY <1>2, <2>1, <2>4, <2>7 DEF EffectsOf
<1> QED BY <1>4, <1>5

\* A step of p in the loop that writes nothing and executes nothing.
LEMMA EffectsSilent ==
  ASSUME TypeInv, NEW p \in Prompts, EffectsOf(p),
         CheckSession(p) \/ Register(p) \/ Mark(p) \/ Prepare(p) \/ Turn(p) \/ Model(p)
           \/ Fallback(p) \/ Notify(p) \/ Finish(p)
  PROVE  EffectsOf(p)'
<1>1. /\ pc[p] # "tools" /\ UNCHANGED effects
      /\ pc'[p] = "tools" => loop'[p].round = 0
      /\ \/ UNCHANGED loop /\ pc[p] \in Over /\ pc'[p] \in Over
         \/ /\ pc[p] \notin Over
            /\ pc'[p] = "failing" \/ loop'[p].err \in {loop[p].err, "none", "error", "cancelled"}
  BY SilentLoop
<1>2. /\ UNCHANGED <<log, spoiled>>
      /\ \/ pc[p] \in Quiet /\ pc'[p] \in Quiet \cup {"rejected"}
         \/ pc[p] \in Accepted \ Ended /\ pc'[p] \in Accepted \ Ended
         \/ pc[p] \in Ended /\ pc'[p] \in Ended
  <2>1. pc[p] # "done"
    BY DEF CheckSession, Register, Mark, Prepare, Turn, Model, Fallback, Notify, Finish
  <2> QED BY SilentSteps
<1>3. /\ "failing" \in Over /\ Quiet \cap Over = {} /\ "rejected" \notin Accepted \cup Ended \cup Quiet
      /\ (Accepted \cup Ended) \cap Quiet = {}
  BY DEF Over, Quiet, Accepted, Ended
<1>4. loop'[p].err = "repeated" => pc'[p] \in Over
  BY <1>1, <1>3 DEF EffectsOf
<1>5. pc'[p] \in Quiet => effects'[p] = 0
  BY <1>1, <1>2, <1>3 DEF EffectsOf
<1>6. pc[p] # "rejected" /\ (loop[p].err = "repeated" => loop'[p].err = "repeated")
  BY <1>1, <1>2, <1>3 DEF EffectsOf
<1>7. EffectsIn(log[SessionOf[p]], p)' = EffectsIn(log[SessionOf[p]], p) /\ Unsaved(p)' = 0 /\ Unsaved(p) = 0
  BY <1>1, <1>2 DEF Unsaved
<1> QED BY <1>1, <1>2, <1>4, <1>5, <1>6, <1>7 DEF EffectsOf

\* A message of p: the round's carries what the round did, the others nothing.
LEMMA EffectsSave ==
  ASSUME TypeInv, NEW p \in Prompts, EffectsOf(p),
         Record(p) \/ SaveRound(p) \/ SaveFinal(p) \/ PersistFailure(p)
  PROVE  EffectsOf(p)'
<1>1. /\ UNCHANGED effects /\ pc'[p] \notin Quiet /\ pc[p] \in Active
      /\ \/ /\ pc[p] = "marked" /\ pc'[p] = "routing" /\ UNCHANGED loop /\ Succeeds(p, "user", 0)
         \/ /\ pc[p] = "tools" /\ pc'[p] = "turn" /\ UNCHANGED loop
            /\ Succeeds(p, "tools", loop[p].round)
         \/ /\ pc[p] \in {"ending", "failing"} /\ pc'[p] = "notify" /\ UNCHANGED loop
            /\ \E kind \in Endings : Succeeds(p, kind, 0)
         \/ /\ Spoils(p)
            /\ \/ pc'[p] \in {"rejected", "notify"} /\ UNCHANGED loop
               \/ pc[p] # "failing" /\ pc'[p] = "failing" /\ Fail(p, "error")
  BY WritingSteps
<1>2. {"failing", "notify"} \subseteq Over /\ {"marked", "tools", "ending", "turn", "routing"} \cap Over = {}
  BY DEF Over
<1>3. EffectsIn(log[SessionOf[p]], p) \in Nat /\ loop[p].round \in Nat /\ effects[p] \in Nat
  BY PromptAssumption, EffectsAreCounted, LoopOf DEF TypeInv, StoreType, HistoryType, LoopType
<1>4. ASSUME NEW kind, NEW n \in Nat, Succeeds(p, kind, n)
      PROVE  UNCHANGED spoiled /\ EffectsIn(log[SessionOf[p]], p)' = EffectsIn(log[SessionOf[p]], p) + n
  <2>1. PICK m : Writes(p, m) /\ m.effects = n
    BY <1>4 DEF Succeeds
  <2> QED BY <1>4, <2>1, EffectsWritten DEF Succeeds
<1>5. CASE /\ pc[p] = "marked" /\ pc'[p] = "routing" /\ UNCHANGED loop /\ Succeeds(p, "user", 0)
  <2>1. UNCHANGED spoiled /\ EffectsIn(log[SessionOf[p]], p)' = EffectsIn(log[SessionOf[p]], p)
    BY <1>3, <1>4, <1>5
  <2>2. loop[p].err # "repeated" /\ Unsaved(p) = 0 /\ Unsaved(p)' = 0
    BY <1>2, <1>5 DEF EffectsOf, Unsaved
  <2> QED BY <1>1, <1>5, <2>1, <2>2 DEF EffectsOf
<1>6. CASE /\ pc[p] = "tools" /\ pc'[p] = "turn" /\ UNCHANGED loop /\ Succeeds(p, "tools", loop[p].round)
  <2>1. UNCHANGED spoiled /\ EffectsIn(log[SessionOf[p]], p)' = EffectsIn(log[SessionOf[p]], p) + loop[p].round
    BY <1>3, <1>4, <1>6
  <2>2. loop[p].err # "repeated" /\ Unsaved(p) = loop[p].round /\ Unsaved(p)' = 0
    BY <1>2, <1>6 DEF EffectsOf, Unsaved
  <2>3. p \notin spoiled => EffectsIn(log[SessionOf[p]], p)' + Unsaved(p)' = effects[p]
    BY <1>3, <1>6, <2>1, <2>2 DEF EffectsOf
  <2> QED BY <1>1, <1>6, <2>1, <2>2, <2>3 DEF EffectsOf
<1>7. CASE /\ pc[p] \in {"ending", "failing"} /\ pc'[p] = "notify" /\ UNCHANGED loop
           /\ \E kind \in Endings : Succeeds(p, kind, 0)
  <2>1. UNCHANGED spoiled /\ EffectsIn(log[SessionOf[p]], p)' = EffectsIn(log[SessionOf[p]], p)
    BY <1>3, <1>4, <1>7
  <2>2. Unsaved(p) = 0 /\ Unsaved(p)' = 0 /\ pc[p] # "rejected"
    BY <1>7 DEF Unsaved
  <2> QED BY <1>1, <1>2, <1>7, <2>1, <2>2 DEF EffectsOf
<1>8. CASE /\ Spoils(p)
           /\ \/ pc'[p] \in {"rejected", "notify"} /\ UNCHANGED loop
              \/ pc[p] # "failing" /\ pc'[p] = "failing" /\ Fail(p, "error")
  <2>1. p \in spoiled'
    BY <1>8 DEF Spoils
  <2>2. pc'[p] = "rejected" => Record(p)
    <3>1. ASSUME NEW l, Goto(p, l) PROVE pc'[p] = l
      BY <3>1, OthersStay
    <3> QED BY <3>1 DEF SaveRound, SaveFinal, PersistFailure, Fail
  <2>3. loop'[p].err = "repeated" => pc'[p] \in Over
    <3>1. CASE pc'[p] = "rejected" /\ UNCHANGED loop
      <4>1. pc[p] \notin Over
        BY <1>2, <2>2, <3>1 DEF Record
      <4> QED BY <3>1, <4>1 DEF EffectsOf
    <3> QED BY <1>2, <1>8, <3>1
  <2> QED BY <1>1, <2>1, <2>3 DEF EffectsOf
<1> QED BY <1>1, <1>5, <1>6, <1>7, <1>8

\* Every step keeps the account of effects.
LEMMA EffectsStep == TypeInv /\ EffectsInv /\ [Next]_vars => EffectsInv'
<1> SUFFICES ASSUME TypeInv, EffectsInv, [Next]_vars, NEW q \in Prompts PROVE EffectsOf(q)'
  BY EffectsParts
<1>0. EffectsOf(q)
  BY EffectsParts
<1>1. ASSUME NEW p \in Prompts, CheckSession(p) \/ Step(p) \/ Execute(p) PROVE EffectsOf(q)'
  <2>1. CASE q = p
    BY <1>0, <1>1, <2>1, EffectsSilent, EffectsSave, EffectsExecute DEF Step
  <2>2. CASE q # p
    <3>1. Others(p) /\ (UNCHANGED log \/ \E m : Writes(p, m))
      <4>1. CASE Record(p) \/ SaveRound(p) \/ SaveFinal(p) \/ PersistFailure(p)
        BY <4>1, WritingSteps DEF Succeeds, Spoils
      <4>2. CASE CheckSession(p) \/ Register(p) \/ Mark(p) \/ Prepare(p) \/ Turn(p) \/ Model(p)
                   \/ Fallback(p) \/ Notify(p) \/ Finish(p) \/ Execute(p)
        BY <4>2, SilentSteps
      <4> QED BY <1>1, <4>1, <4>2 DEF Step
    <3>2. EffectsIn(log[SessionOf[q]], q)' = EffectsIn(log[SessionOf[q]], q)
      BY <2>2, <3>1, EffectsWritten
    <3>3. /\ pc'[q] = pc[q] /\ loop'[q] = loop[q] /\ effects'[q] = effects[q]
          /\ (q \in spoiled' <=> q \in spoiled)
      BY <2>2, <3>1 DEF Others
    <3> QED BY <1>0, <3>2, <3>3 DEF EffectsOf, Unsaved
  <2> QED BY <2>1, <2>2
<1>2. ASSUME NEW s \in Sessions, Abort(s) PROVE EffectsOf(q)'
  BY <1>0, <1>2 DEF Abort, store, history, EffectsOf, Unsaved
<1>3. ASSUME NEW s \in Sessions, Delete(s) PROVE EffectsOf(q)'
  <2>1. /\ UNCHANGED <<pc, loop, effects>>
        /\ \A x \in Sessions : log'[x] = IF x = s THEN <<>> ELSE log[x]
        /\ spoiled' = spoiled \cup {p \in Prompts : SessionOf[p] = s /\ pc[p] \in Accepted \cup {"done"}}
    BY <1>3 DEF Delete, control, history, TypeInv, StoreType
  <2>2. SessionOf[q] \in Sessions
    BY PromptAssumption
  <2>3. CASE SessionOf[q] # s
    BY <1>0, <2>1, <2>2, <2>3 DEF EffectsOf, Unsaved
  <2>4. CASE SessionOf[q] = s /\ pc[q] \in Accepted \cup {"done"}
    BY <1>0, <2>1, <2>4 DEF EffectsOf
  <2>5. CASE SessionOf[q] = s /\ pc[q] \notin Accepted \cup {"done"}
    <3>1. pc[q] \in Quiet \cup {"rejected"} /\ pc[q] # "tools"
      BY <2>5 DEF TypeInv, ControlType, Active, Accepted, Quiet
    <3>2. EffectsIn(log'[SessionOf[q]], q) = 0
      BY <2>1, <2>2, <2>5, EffectsOfNothing
    <3> QED BY <1>0, <2>1, <3>1, <3>2 DEF EffectsOf, Unsaved
  <2> QED BY <2>3, <2>4, <2>5
<1>4. CASE UNCHANGED vars
  BY <1>0, <1>4 DEF vars, control, store, history, EffectsOf, Unsaved
<1> QED BY <1>1, <1>2, <1>3, <1>4 DEF Next

\* The transcript of a run that has ended shows every change it made, except where
\* the repetition guard stopped it within a round.
THEOREM EffectsAreRecorded == Spec => []EffectsRecorded
<1>1. TypeInv /\ EffectsInv => EffectsRecorded
  <2> SUFFICES ASSUME TypeInv, EffectsInv, NEW p \in Prompts,
                      pc[p] \in Ended, p \notin spoiled, loop[p].err # "repeated"
               PROVE  EffectsIn(log[SessionOf[p]], p) = effects[p]
    BY DEF EffectsRecorded
  <2>1. Unsaved(p) = 0 /\ pc[p] # "rejected"
    BY DEF Ended, Unsaved
  <2>2. EffectsIn(log[SessionOf[p]], p) \in Nat
    BY PromptAssumption, EffectsAreCounted DEF TypeInv, StoreType
  <2>3. EffectsIn(log[SessionOf[p]], p) + Unsaved(p) = effects[p]
    BY <2>1 DEF EffectsInv, EffectsKept
  <2> QED BY <2>1, <2>2, <2>3
<1> QED BY <1>1, TypeInit, TypeStep, EffectsInit, EffectsStep, PTL DEF Spec
=============================================================================
