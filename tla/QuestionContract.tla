-------------------------- MODULE QuestionContract -------------------------
(***************************************************************************)
(* Interactive questions (question_contract.go).  A tool call of an Agent  *)
(* run asks and waits on a channel with one slot; the replies and the      *)
(* rejections are HTTP handlers, which look the question up under the      *)
(* contract's mutex, release it, and send later.  The question leaves      *)
(* pending in a deferred step of Ask, after its select has chosen.         *)
(***************************************************************************)
EXTENDS Naturals, Sequences

CONSTANTS
  Asks,           \* calls of Ask
  Handlers,       \* HTTP handlers of replies and rejections
  Sessions,
  NoSession,      \* a request that names no session
  NoAsk,          \* a handler that serves no question
  SessionOf,      \* [Asks -> Sessions]
  Count,          \* [Asks -> Nat \ {0}]: how many questions each asks
  MaxAnswers      \* bound on the answers in a reply

ASSUME SessionAssumption == SessionOf \in [Asks -> Sessions] /\ NoSession \notin Sessions
ASSUME CountAssumption == Count \in [Asks -> Nat \ {0}] /\ MaxAnswers \in Nat \ {0}
ASSUME NoAskAssumption == NoAsk \notin Asks

VARIABLES
  pc,             \* [Asks -> "idle", "waiting", "leaving" or "done"]
  pending,        \* the questions a handler can find
  inbox,          \* the response channel of each
  result,         \* what the select of each chose
  cancelled,      \* the asks whose run is cancelled
  handler,        \* [Handlers -> record]: what each handler does
  accepted        \* history: the answers each question accepted, in order

vars == <<pc, pending, inbox, result, cancelled, handler, accepted>>

\* An answer: the session its handler named and how many answers it holds,
\* none for a rejection.
Answers == [by : Handlers, session : Sessions, count : 0..MaxAnswers]
Nothing == [by |-> "nobody"]
Cancellation == [by |-> "context"]

Idle == [at |-> "idle", ask |-> NoAsk, session |-> NoSession, count |-> 0]

Init == /\ pc = [c \in Asks |-> "idle"]
        /\ pending = {}
        /\ inbox = [c \in Asks |-> <<>>]
        /\ result = [c \in Asks |-> Nothing]
        /\ cancelled = {}
        /\ handler = [h \in Handlers |-> Idle]
        /\ accepted = [c \in Asks |-> <<>>]

-----------------------------------------------------------------------------
(* Ask.                                                                    *)

Goto(c, label) == pc' = [pc EXCEPT ![c] = label]

\* Prompts that normalizeQuestionPrompts refuses end the call; others are
\* listed, and attention.changed is published.
Ask(c) == /\ pc[c] = "idle"
          /\ \/ Goto(c, "done") /\ UNCHANGED pending
             \/ Goto(c, "waiting") /\ pending' = pending \cup {c}
          /\ UNCHANGED <<inbox, result, cancelled, handler, accepted>>

\* The select; it may choose the cancellation where an answer is there too.
WakeCancelledMutant(c) ==      \* the context is not among its cases
  /\ pc[c] = "waiting"
  /\ inbox[c] # <<>>
  /\ result' = [result EXCEPT ![c] = inbox[c][1]] /\ inbox' = [inbox EXCEPT ![c] = <<>>]
  /\ Goto(c, "leaving")
  /\ UNCHANGED <<pending, cancelled, handler, accepted>>
Wake(c) == /\ pc[c] = "waiting"
           /\ \/ /\ inbox[c] # <<>>
                 /\ result' = [result EXCEPT ![c] = Head(inbox[c])]
                 /\ inbox' = [inbox EXCEPT ![c] = <<>>]
              \/ /\ c \in cancelled
                 /\ result' = [result EXCEPT ![c] = Cancellation]
                 /\ UNCHANGED inbox
           /\ Goto(c, "leaving")
           /\ UNCHANGED <<pending, cancelled, handler, accepted>>

\* The deferred removal.
LeaveMutant(c) ==              \* the question stays in the map
  /\ pc[c] = "leaving" /\ Goto(c, "done")
  /\ UNCHANGED <<pending, inbox, result, cancelled, handler, accepted>>
Leave(c) == /\ pc[c] = "leaving"
            /\ Goto(c, "done")
            /\ pending' = pending \ {c}
            /\ UNCHANGED <<inbox, result, cancelled, handler, accepted>>

\* The run is aborted.
Cancel(c) == /\ c \notin cancelled /\ pc[c] # "done"
             /\ cancelled' = cancelled \cup {c}
             /\ UNCHANGED <<pc, pending, inbox, result, handler, accepted>>

-----------------------------------------------------------------------------
(* POST /local/questions/{id}/reply and .../reject.                        *)

\* The reply handler counts the questions in the list of its session (of all
\* sessions if it names none) before it calls resolve.
ReplyMutant(h, c, s, n) ==     \* the answers are not counted
  /\ handler[h].at = "idle"
  /\ c \in pending /\ s \in {SessionOf[c], NoSession}
  /\ handler' = [handler EXCEPT ![h] = [at |-> "resolving", ask |-> c, session |-> s, count |-> n]]
  /\ UNCHANGED <<pc, pending, inbox, result, cancelled, accepted>>
Reply(h, c, s, n) ==
  /\ handler[h].at = "idle"
  /\ c \in pending /\ s \in {SessionOf[c], NoSession}
  /\ n = Count[c]
  /\ handler' = [handler EXCEPT ![h] = [at |-> "resolving", ask |-> c, session |-> s, count |-> n]]
  /\ UNCHANGED <<pc, pending, inbox, result, cancelled, accepted>>

\* The reject handler calls resolve at once, on whatever it was asked for.
Reject(h, c, s) ==
  /\ handler[h].at = "idle"
  /\ handler' = [handler EXCEPT ![h] = [at |-> "resolving", ask |-> c, session |-> s, count |-> 0]]
  /\ UNCHANGED <<pc, pending, inbox, result, cancelled, accepted>>

\* resolve, up to the release of the lock.
LookUpMutant(h) ==             \* any session may answer
  LET c == handler[h].ask IN
  /\ handler[h].at = "resolving"
  /\ handler' = [handler EXCEPT ![h] = IF handler[h].session # NoSession /\ c \in pending
                                       THEN [@ EXCEPT !.at = "sending"] ELSE Idle]
  /\ UNCHANGED <<pc, pending, inbox, result, cancelled, accepted>>
LookUp(h) ==
  LET c == handler[h].ask
      s == handler[h].session
  IN
  /\ handler[h].at = "resolving"
  /\ handler' = [handler EXCEPT ![h] = IF s # NoSession /\ c \in pending /\ SessionOf[c] = s
                                       THEN [@ EXCEPT !.at = "sending"] ELSE Idle]
  /\ UNCHANGED <<pc, pending, inbox, result, cancelled, accepted>>

\* resolve, its select: the answer is accepted if the slot is free, even when
\* the question has been answered and nobody will read it.
SendBufferedMutant(h) ==       \* the channel has no bound
  LET c == handler[h].ask
      answer == [by |-> h, session |-> handler[h].session, count |-> handler[h].count]
  IN
  /\ handler[h].at = "sending"
  /\ inbox' = [inbox EXCEPT ![c] = Append(@, answer)]
  /\ accepted' = [accepted EXCEPT ![c] = Append(@, answer)]
  /\ handler' = [handler EXCEPT ![h] = Idle]
  /\ UNCHANGED <<pc, pending, result, cancelled>>
SendMutant(h) ==               \* a later answer takes the place of the first
  LET c == handler[h].ask
      answer == [by |-> h, session |-> handler[h].session, count |-> handler[h].count]
  IN
  /\ handler[h].at = "sending"
  /\ inbox' = [inbox EXCEPT ![c] = <<answer>>]
  /\ accepted' = [accepted EXCEPT ![c] = IF inbox[c] = <<>> THEN Append(@, answer) ELSE @]
  /\ handler' = [handler EXCEPT ![h] = Idle]
  /\ UNCHANGED <<pc, pending, result, cancelled>>
Send(h) ==
  LET c == handler[h].ask
      answer == [by |-> h, session |-> handler[h].session, count |-> handler[h].count]
  IN
  /\ handler[h].at = "sending"
  /\ IF inbox[c] = <<>>
     THEN /\ inbox' = [inbox EXCEPT ![c] = <<answer>>]
          /\ accepted' = [accepted EXCEPT ![c] = Append(@, answer)]
     ELSE UNCHANGED <<inbox, accepted>>
  /\ handler' = [handler EXCEPT ![h] = Idle]
  /\ UNCHANGED <<pc, pending, result, cancelled>>

-----------------------------------------------------------------------------
Next == \/ \E c \in Asks : Ask(c) \/ Wake(c) \/ Leave(c) \/ Cancel(c)
        \/ \E h \in Handlers : LookUp(h) \/ Send(h)
        \/ \E h \in Handlers, c \in Asks, s \in Sessions \cup {NoSession} :
             Reject(h, c, s) \/ \E n \in 1..MaxAnswers : Reply(h, c, s, n)

Spec == Init /\ [][Next]_vars
\* A goroutine that can run does run.
FairSpec == /\ Spec
            /\ \A c \in Asks : WF_vars(Wake(c) \/ Leave(c))
            /\ \A h \in Handlers : WF_vars(LookUp(h) \/ Send(h))

-----------------------------------------------------------------------------
(* Correctness.                                                            *)

TypeOK ==
  /\ pc \in [Asks -> {"idle", "waiting", "leaving", "done"}]
  /\ pending \in SUBSET Asks
  /\ inbox \in [Asks -> Seq(Answers)] /\ \A c \in Asks : Len(inbox[c]) <= 1
  /\ result \in [Asks -> Answers \cup {Nothing, Cancellation}]
  /\ cancelled \in SUBSET Asks
  /\ handler \in [Handlers -> [at : {"idle", "resolving", "sending"}, ask : Asks \cup {NoAsk},
                               session : Sessions \cup {NoSession}, count : 0..MaxAnswers]]
  /\ accepted \in [Asks -> Seq(Answers)]

\* What reaches the Agent is the first answer accepted, never a later one that
\* arrived while it was being delivered.  (the one-slot channel, the select)
FirstAnswerWins ==
  \A c \in Asks : result[c] \in Answers => accepted[c] # <<>> /\ result[c] = Head(accepted[c])

\* An answer accepted for a question comes from its own session and, unless it is
\* a rejection, holds one answer per question.  (the checks before the lookup,
\* which are made on an earlier state than the send)
AnswersFit ==
  \A c \in Asks : \A i \in 1..Len(accepted[c]) :
    accepted[c][i].session = SessionOf[c] /\ accepted[c][i].count \in {0, Count[c]}

\* A question is listed exactly while its asker waits or is leaving, whichever way
\* it ends.  (the deferred delete)
ListedWhileAsked == pending = {c \in Asks : pc[c] \in {"waiting", "leaving"}}

\* An asker whose question was answered or whose run was aborted goes on.
AskReturns == \A c \in Asks : pc[c] = "waiting" /\ (accepted[c] # <<>> \/ c \in cancelled) ~> pc[c] = "done"
=============================================================================
