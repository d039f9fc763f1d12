----------------------- MODULE QuestionContractProofs ----------------------
(***************************************************************************)
(* Proofs about QuestionContract for any askers, handlers and sessions.    *)
(* The list of questions needs no strengthening; what is delivered needs   *)
(* the channel of a waiting asker tied to the answers it has accepted, and *)
(* what is accepted needs what each handler carries.                       *)
(***************************************************************************)
EXTENDS QuestionContract, TLAPS

\* A handler past its first step carries a question and a fitting number of
\* answers; one about to send has found the question in its own session.
HandlersFit ==
  \A h \in Handlers :
    LET c == handler[h].ask IN
    /\ handler[h].at # "idle" => c \in Asks /\ handler[h].count \in {0, Count[c]}
    /\ handler[h].at = "sending" => handler[h].session = SessionOf[c] /\ pc[c] # "idle"

TypeInv == TypeOK /\ HandlersFit /\ ListedWhileAsked

HandlerType == [at : {"idle", "resolving", "sending"}, ask : Asks \cup {NoAsk},
                session : Sessions \cup {NoSession}, count : 0..MaxAnswers]

\* An idle handler holds nothing.
LEMMA IdleType == Idle \in HandlerType
BY CountAssumption DEF Idle, HandlerType

\* A channel with one slot stays one.
LEMMA OneSlot ==
  ASSUME NEW f \in [Asks -> Seq(Answers)], \A c \in Asks : Len(f[c]) <= 1,
         NEW d \in Asks, NEW v \in Seq(Answers), Len(v) <= 1,
         NEW g, g = [f EXCEPT ![d] = v]
  PROVE  g \in [Asks -> Seq(Answers)] /\ \A c \in Asks : Len(g[c]) <= 1
OBVIOUS

\* The invariant holds at the start.
LEMMA TypeInit == Init => TypeInv
<1> SUFFICES ASSUME Init PROVE TypeInv
  OBVIOUS
<1>1. handler \in [Handlers -> HandlerType]
  BY IdleType DEF Init
<1>2. TypeOK
  BY <1>1 DEF Init, TypeOK, HandlerType
<1>3. HandlersFit
  BY DEF Init, HandlersFit, Idle
<1>4. ListedWhileAsked
  BY DEF Init, ListedWhileAsked
<1> QED BY <1>2, <1>3, <1>4 DEF TypeInv

\* What a sending handler carries is an answer that fits.
LEMMA SendsAnAnswer ==
  ASSUME TypeInv, NEW h \in Handlers, handler[h].at = "sending"
  PROVE  /\ handler[h].ask \in Asks
         /\ [by |-> h, session |-> handler[h].session, count |-> handler[h].count] \in Answers
<1>1. handler[h].ask \in Asks /\ handler[h].session = SessionOf[handler[h].ask]
  BY DEF TypeInv, HandlersFit
<1>2. handler[h].session \in Sessions /\ handler[h].count \in 0..MaxAnswers
  BY <1>1, SessionAssumption DEF TypeInv, TypeOK
<1> QED BY <1>1, <1>2 DEF Answers

\* Every action keeps the types and what the handlers carry.
LEMMA TypeStep == TypeInv /\ [Next]_vars => TypeInv'
<1> SUFFICES ASSUME TypeInv, [Next]_vars PROVE TypeInv'
  OBVIOUS
<1>t. handler \in [Handlers -> HandlerType]
  BY DEF TypeInv, TypeOK, HandlerType
<1> USE DEF TypeInv
<1>1. ASSUME NEW c \in Asks, Ask(c) PROVE TypeInv'
  BY <1>1 DEF Ask, Goto, TypeOK, HandlersFit, ListedWhileAsked
<1>2. ASSUME NEW c \in Asks, Wake(c) PROVE TypeInv'
  <2>1. inbox[c] # <<>> => Head(inbox[c]) \in Answers
    BY DEF TypeOK
  <2>2. inbox' \in [Asks -> Seq(Answers)] /\ \A d \in Asks : Len(inbox'[d]) <= 1
    <3>1. CASE inbox' = [inbox EXCEPT ![c] = <<>>]
      <4>1. <<>> \in Seq(Answers) /\ Len(<<>>) = 0
        OBVIOUS
      <4> QED BY <3>1, <4>1 DEF TypeOK
    <3>2. CASE UNCHANGED inbox
      BY <3>2 DEF TypeOK
    <3> QED BY <1>2, <3>1, <3>2 DEF Wake
  <2>3. result' \in [Asks -> Answers \cup {Nothing, Cancellation}]
    BY <1>2, <2>1 DEF Wake, TypeOK
  <2>4. pc' = [pc EXCEPT ![c] = "leaving"] /\ pc[c] = "waiting"
        /\ UNCHANGED <<pending, cancelled, handler, accepted>>
    BY <1>2 DEF Wake, Goto
  <2>5. TypeOK'
    BY <2>2, <2>3, <2>4 DEF TypeOK
  <2>6. HandlersFit' /\ ListedWhileAsked'
    BY <2>4 DEF TypeOK, HandlersFit, ListedWhileAsked
  <2> QED BY <2>5, <2>6
<1>3. ASSUME NEW c \in Asks, Leave(c) PROVE TypeInv'
  BY <1>3 DEF Leave, Goto, TypeOK, HandlersFit, ListedWhileAsked
<1>4. ASSUME NEW c \in Asks, Cancel(c) PROVE TypeInv'
  BY <1>4 DEF Cancel, TypeOK, HandlersFit, ListedWhileAsked
<1>5. ASSUME NEW h \in Handlers, LookUp(h) PROVE TypeInv'
  <2>1. handler' \in [Handlers -> HandlerType]
    BY <1>5, <1>t, IdleType DEF LookUp, HandlerType
  <2>2. TypeOK'
    BY <1>5, <2>1 DEF LookUp, TypeOK, HandlerType
  <2>3. CASE handler' = [handler EXCEPT ![h] = Idle]
    <3>1. HandlersFit'
      BY <1>5, <2>3, <1>t DEF LookUp, HandlersFit, Idle
    <3> QED BY <1>5, <2>2, <3>1 DEF LookUp, ListedWhileAsked
  <2>4. CASE /\ handler' = [handler EXCEPT ![h].at = "sending"]
             /\ handler[h].ask \in pending /\ SessionOf[handler[h].ask] = handler[h].session
    <3>1. pc[handler[h].ask] # "idle" /\ pc' = pc /\ handler[h].at = "resolving"
      BY <1>5, <2>4 DEF LookUp, ListedWhileAsked
    <3>2. HandlersFit'
      BY <2>4, <3>1, <1>t DEF HandlersFit, HandlerType
    <3> QED BY <1>5, <2>2, <3>2 DEF LookUp, ListedWhileAsked
  <2> QED BY <1>5, <2>3, <2>4 DEF LookUp
<1>6. ASSUME NEW h \in Handlers, Send(h) PROVE TypeInv'
  <2>1. handler' \in [Handlers -> HandlerType]
    BY <1>6, <1>t, IdleType DEF Send
  <2>2. TypeOK'
    <3> DEFINE d == handler[h].ask
               answer == [by |-> h, session |-> handler[h].session, count |-> handler[h].count]
    <3>1. d \in Asks /\ answer \in Answers
      BY <1>6, SendsAnAnswer DEF Send
    <3>3. \/ UNCHANGED <<inbox, accepted>>
          \/ /\ inbox' = [inbox EXCEPT ![d] = <<answer>>]
             /\ accepted' = [accepted EXCEPT ![d] = Append(@, answer)]
      BY <1>6 DEF Send
    <3> HIDE DEF d, answer
    <3>2. /\ <<answer>> \in Seq(Answers) /\ Len(<<answer>>) = 1
          /\ accepted[d] \in Seq(Answers)
          /\ Append(accepted[d], answer) \in Seq(Answers)
      <4>1. accepted[d] \in Seq(Answers)
        BY <3>1 DEF TypeOK
      <4> QED BY <3>1, <4>1
    <3>4. inbox' \in [Asks -> Seq(Answers)] /\ \A e \in Asks : Len(inbox'[e]) <= 1
      <4>1. inbox \in [Asks -> Seq(Answers)] /\ \A e \in Asks : Len(inbox[e]) <= 1
        BY DEF TypeOK
      <4>2. CASE inbox' = [inbox EXCEPT ![d] = <<answer>>]
        <5>1. Len(<<answer>>) <= 1
          OBVIOUS
        <5> QED BY <3>1, <3>2, <4>1, <4>2, <5>1, OneSlot
      <4> QED BY <3>3, <4>1, <4>2
    <3>5. accepted' \in [Asks -> Seq(Answers)]
      BY <3>1, <3>2, <3>3 DEF TypeOK
    <3> QED BY <1>6, <2>1, <3>4, <3>5 DEF Send, TypeOK, HandlerType
  <2>3. HandlersFit'
    BY <1>6, <1>t DEF Send, HandlersFit, Idle
  <2>4. ListedWhileAsked'
    BY <1>6 DEF Send, ListedWhileAsked
  <2> QED BY <2>2, <2>3, <2>4
<1>7. ASSUME NEW h \in Handlers, NEW c \in Asks, NEW s \in Sessions \cup {NoSession}, Reject(h, c, s)
      PROVE TypeInv'
  <2>1. handler' \in [Handlers -> HandlerType]
    BY <1>7, <1>t, CountAssumption DEF Reject, HandlerType
  <2>2. TypeOK'
    BY <1>7, <2>1 DEF Reject, TypeOK, HandlerType
  <2>3. HandlersFit'
    BY <1>7, <1>t DEF Reject, HandlersFit
  <2>4. ListedWhileAsked'
    BY <1>7 DEF Reject, ListedWhileAsked
  <2> QED BY <2>2, <2>3, <2>4
<1>8. ASSUME NEW h \in Handlers, NEW c \in Asks, NEW s \in Sessions \cup {NoSession},
             NEW n \in 1..MaxAnswers, Reply(h, c, s, n)
      PROVE TypeInv'
  <2>1. handler' \in [Handlers -> HandlerType]
    BY <1>8, <1>t, CountAssumption DEF Reply, HandlerType
  <2>2. TypeOK'
    BY <1>8, <2>1 DEF Reply, TypeOK, HandlerType
  <2>3. HandlersFit'
    BY <1>8, <1>t DEF Reply, HandlersFit
  <2>4. ListedWhileAsked'
    BY <1>8 DEF Reply, ListedWhileAsked
  <2> QED BY <2>2, <2>3, <2>4
<1>9. CASE UNCHANGED vars
  BY <1>9 DEF vars, TypeOK, HandlersFit, ListedWhileAsked
<1> QED BY <1>1, <1>2, <1>3, <1>4, <1>5, <1>6, <1>7, <1>8, <1>9 DEF Next

\* Type correctness of the contract.
THEOREM TypeCorrect == Spec => []TypeOK
<1>1. TypeInv => TypeOK
  BY DEF TypeInv
<1> QED BY TypeInit, TypeStep, <1>1, PTL DEF Spec

\* A question is listed exactly while its asker waits or is leaving.
THEOREM ListedExactly == Spec => []ListedWhileAsked
<1>1. TypeInv => ListedWhileAsked
  BY DEF TypeInv
<1> QED BY TypeInit, TypeStep, <1>1, PTL DEF Spec

-----------------------------------------------------------------------------
(* What is accepted and what is delivered.                                 *)

\* A step of the contract either accepts one answer or leaves accepted alone.
LEMMA OnlySendAccepts ==
  ASSUME TypeInv, [Next]_vars
  PROVE  UNCHANGED accepted \/ \E h \in Handlers : Send(h)
BY DEF Next, vars, Ask, Wake, Leave, Cancel, LookUp, Reject, Reply

\* Answers that were accepted fit their question: their handler carried a
\* fitting count since it was received and had found the session.
THEOREM AnswersAlwaysFit == Spec => []AnswersFit
<1>1. Init => AnswersFit
  BY DEF Init, AnswersFit
<1>2. TypeInv /\ AnswersFit /\ [Next]_vars => AnswersFit'
  <2> SUFFICES ASSUME TypeInv, AnswersFit, [Next]_vars PROVE AnswersFit'
    OBVIOUS
  <2>1. CASE UNCHANGED accepted
    BY <2>1 DEF AnswersFit
  <2>2. ASSUME NEW h \in Handlers, Send(h) PROVE AnswersFit'
    <3> DEFINE d == handler[h].ask
               answer == [by |-> h, session |-> handler[h].session, count |-> handler[h].count]
    <3>1. /\ d \in Asks /\ accepted[d] \in Seq(Answers)
          /\ answer.session = SessionOf[d] /\ answer.count \in {0, Count[d]}
      BY <2>2 DEF Send, TypeInv, TypeOK, HandlersFit
    <3>2. \/ UNCHANGED accepted
          \/ accepted' = [accepted EXCEPT ![d] = Append(@, answer)]
      BY <2>2 DEF Send
    <3> HIDE DEF d, answer
    <3>3. ASSUME NEW c \in Asks, NEW i \in 1..Len(accepted'[c])
          PROVE  accepted'[c][i].session = SessionOf[c] /\ accepted'[c][i].count \in {0, Count[c]}
      <4>1. CASE accepted'[c] = accepted[c]
        BY <3>3, <4>1 DEF AnswersFit
      <4>2. CASE c = d /\ accepted'[c] = Append(accepted[c], answer)
        <5>1. Len(accepted'[c]) = Len(accepted[c]) + 1 /\ Len(accepted[c]) \in Nat
          BY <3>1, <4>2
        <5>2. CASE i = Len(accepted[c]) + 1
          BY <3>1, <4>2, <5>2
        <5>3. CASE i \in 1..Len(accepted[c])
          <6>1. accepted'[c][i] = accepted[c][i]
            BY <3>1, <4>2, <5>3
          <6> QED BY <5>3, <6>1 DEF AnswersFit
        <5> QED BY <3>3, <5>1, <5>2, <5>3
      <4> QED BY <3>2, <4>1, <4>2 DEF TypeInv, TypeOK
    <3> QED BY <3>3 DEF AnswersFit
  <2> QED BY <2>1, <2>2, OnlySendAccepts
<1> QED BY TypeInit, TypeStep, <1>1, <1>2, PTL DEF Spec

\* While the asker waits its channel holds exactly what it has accepted, so
\* that its select receives the first answer.
Delivery ==
  \A c \in Asks :
    /\ pc[c] = "idle" => accepted[c] = <<>> /\ inbox[c] = <<>>
    /\ pc[c] = "waiting" => inbox[c] = accepted[c]
DeliveryInv == Delivery /\ FirstAnswerWins

\* Neither sentinel is an answer.
LEMMA NotAnAnswer == Nothing \notin Answers /\ Cancellation \notin Answers
BY DEF Nothing, Cancellation, Answers

\* No answer is accepted at the start.
LEMMA DeliveryInit == Init => DeliveryInv
BY NotAnAnswer DEF Init, DeliveryInv, Delivery, FirstAnswerWins

\* Every step keeps channel and accepted answer together.
LEMMA DeliveryStep == TypeInv /\ DeliveryInv /\ [Next]_vars => DeliveryInv'
<1> SUFFICES ASSUME TypeInv, DeliveryInv, [Next]_vars PROVE DeliveryInv'
  OBVIOUS
<1> USE DEF DeliveryInv
<1>1. ASSUME NEW c \in Asks, Ask(c) PROVE DeliveryInv'
  BY <1>1 DEF Ask, Goto, TypeInv, TypeOK, Delivery, FirstAnswerWins
<1>2. ASSUME NEW c \in Asks, Wake(c) PROVE DeliveryInv'
  <2>1. /\ pc' = [pc EXCEPT ![c] = "leaving"] /\ pc[c] = "waiting"
        /\ UNCHANGED accepted /\ inbox[c] = accepted[c]
    BY <1>2 DEF Wake, Goto, Delivery
  <2>2. Delivery'
    BY <1>2, <2>1 DEF Wake, TypeInv, TypeOK, Delivery
  <2>3. CASE inbox[c] # <<>> /\ result' = [result EXCEPT ![c] = Head(inbox[c])]
    <3>1. result'[c] = Head(accepted[c]) /\ accepted[c] # <<>>
      BY <2>1, <2>3 DEF TypeInv, TypeOK
    <3>2. \A e \in Asks : e # c => result'[e] = result[e]
      BY <2>3 DEF TypeInv, TypeOK
    <3> QED BY <2>1, <2>2, <3>1, <3>2 DEF FirstAnswerWins
  <2>4. CASE result' = [result EXCEPT ![c] = Cancellation]
    <3>1. result'[c] \notin Answers
      BY <2>4, NotAnAnswer DEF TypeInv, TypeOK
    <3>2. \A e \in Asks : e # c => result'[e] = result[e]
      BY <2>4 DEF TypeInv, TypeOK
    <3> QED BY <2>1, <2>2, <3>1, <3>2 DEF FirstAnswerWins
  <2> QED BY <1>2, <2>2, <2>3, <2>4 DEF Wake
<1>3. ASSUME NEW c \in Asks, Leave(c) PROVE DeliveryInv'
  BY <1>3 DEF Leave, Goto, TypeInv, TypeOK, Delivery, FirstAnswerWins
<1>4. ASSUME NEW c \in Asks, Cancel(c) PROVE DeliveryInv'
  BY <1>4 DEF Cancel, Delivery, FirstAnswerWins
<1>5. ASSUME NEW h \in Handlers, LookUp(h) PROVE DeliveryInv'
  BY <1>5 DEF LookUp, Delivery, FirstAnswerWins
<1>6. ASSUME NEW h \in Handlers, Send(h) PROVE DeliveryInv'
  <2> DEFINE d == handler[h].ask
             answer == [by |-> h, session |-> handler[h].session, count |-> handler[h].count]
  <2>1. d \in Asks /\ pc[d] # "idle" /\ accepted[d] \in Seq(Answers) /\ UNCHANGED <<pc, result>>
    BY <1>6 DEF Send, TypeInv, TypeOK, HandlersFit
  <2>2. CASE /\ inbox[d] = <<>> /\ inbox' = [inbox EXCEPT ![d] = <<answer>>]
             /\ accepted' = [accepted EXCEPT ![d] = Append(@, answer)]
    <3> HIDE DEF d, answer
    <3>1. accepted[d] = <<>> => Append(accepted[d], answer) = <<answer>>
      OBVIOUS
    <3>2. accepted[d] # <<>> => /\ Append(accepted[d], answer) # <<>>
                               /\ Head(Append(accepted[d], answer)) = Head(accepted[d])
      BY <2>1
    <3>3. Delivery'
      BY <2>1, <2>2, <3>1 DEF TypeInv, TypeOK, Delivery
    <3>4. FirstAnswerWins'
      BY <2>1, <2>2, <3>2 DEF TypeInv, TypeOK, FirstAnswerWins
    <3> QED BY <3>3, <3>4
  <2>3. CASE UNCHANGED <<inbox, accepted>>
    BY <2>1, <2>3 DEF Delivery, FirstAnswerWins
  <2> QED BY <1>6, <2>2, <2>3 DEF Send
<1>7. ASSUME NEW h \in Handlers, NEW c \in Asks, NEW s \in Sessions \cup {NoSession},
             Reject(h, c, s) \/ \E n \in 1..MaxAnswers : Reply(h, c, s, n)
      PROVE DeliveryInv'
  BY <1>7 DEF Reject, Reply, Delivery, FirstAnswerWins
<1>8. CASE UNCHANGED vars
  BY <1>8 DEF vars, Delivery, FirstAnswerWins
<1> QED BY <1>1, <1>2, <1>3, <1>4, <1>5, <1>6, <1>7, <1>8 DEF Next

\* What reaches the Agent is the first answer the question accepted.
THEOREM FirstAnswerDelivered == Spec => []FirstAnswerWins
<1>1. DeliveryInv => FirstAnswerWins
  BY DEF DeliveryInv
<1> QED BY TypeInit, TypeStep, DeliveryInit, DeliveryStep, <1>1, PTL DEF Spec
=============================================================================
