----------------------------- MODULE Attention -----------------------------
(***************************************************************************)
(* How a browser comes to show a question (live_event_bus.go,              *)
(* live_event_contract.go, ui/attention.ts, ui/chat.ts), composed with     *)
(* QuestionContract.  A change of the pending questions is a signal        *)
(* without content on the browser's event stream; the browser then reads   *)
(* the list again.  Streams break, a full channel drops signals, and the   *)
(* answers of two reads under way may come in either order.                *)
(***************************************************************************)
EXTENDS QuestionContract, FiniteSets
LOCAL INSTANCE SequencesExt

CONSTANTS
  Selected,       \* the session the browser shows
  Slots,          \* capacity of a subscriber's channel (64 in the code)
  MaxLoads        \* bound on the calls of loadAttention under way

ASSUME BrowserAssumption == Selected \in Sessions /\ Slots \in Nat \ {0} /\ MaxLoads \in Nat \ {0}

VARIABLES
  owed,           \* the asks that changed pending and have not published it yet
  queue,          \* the events in the subscriber's channel, oldest first
  connected,      \* whether the browser's stream is subscribed
  asked,          \* reads of the list the server has not answered yet
  answers,        \* the answers under way to the browser, oldest first: the list as it
                  \* was read, late once a newer one has been applied
  shown,          \* the question in the attention dialog, or NoAsk
  heard,          \* handlers whose success the browser has not been told yet
  stale           \* history: a signal was lost or an old answer applied, and no
                  \* read has been started since

bus == <<queue, connected>>
browser == <<asked, answers, shown>>
allVars == <<vars, owed, bus, browser, heard, stale>>

Here(S) == {c \in S : SessionOf[c] = Selected}

AInit == /\ Init
         /\ owed = {} /\ queue = <<>> /\ connected = TRUE
         /\ asked = 0 /\ answers = <<>> /\ shown = NoAsk
         /\ heard = {} /\ stale = FALSE

-----------------------------------------------------------------------------
(* The bus.                                                                *)

\* publish, to the subscriber of the browser if it has one: a full channel drops
\* the event.  A dropped signal does no harm while another one is queued.
Publish(event) ==
  /\ queue' = IF connected /\ Len(queue) < Slots THEN Append(queue, event) ELSE queue
  /\ stale' = (stale \/ (event = "attention" /\ "attention" \notin ToSet(queue')))

\* The asker publishes after it released the contract's mutex.
Announce(c) == /\ c \in owed
               /\ owed' = owed \ {c}
               /\ Publish("attention")
               /\ UNCHANGED <<vars, connected, browser, heard>>

\* Messages and changes of other sessions take slots of the same channel.
OtherEvent == /\ Publish("other")
              /\ UNCHANGED <<vars, owed, connected, browser, heard>>

\* The stream breaks; unsubscribe closes the channel with what is in it.
Disconnect == /\ connected
              /\ connected' = FALSE /\ queue' = <<>>
              /\ stale' = (stale \/ "attention" \in ToSet(queue))
              /\ UNCHANGED <<vars, owed, browser, heard>>

\* EventSource connects again; stream.ready is ignored.
Reconnect == /\ ~connected
             /\ connected' = TRUE
             /\ UNCHANGED <<vars, owed, queue, browser, heard, stale>>

-----------------------------------------------------------------------------
(* The browser.                                                            *)

CanLoad == asked + Len(answers) < MaxLoads
StartLoad == asked' = asked + 1 /\ stale' = FALSE

\* handleLiveEvent: a signal starts a read, whatever is under way.
ReceiveMutant ==               \* a read under way is taken to be enough
  /\ queue # <<>> /\ CanLoad
  /\ queue' = Tail(queue)
  /\ IF Head(queue) = "attention" /\ asked + Len(answers) = 0 THEN StartLoad
     ELSE UNCHANGED <<asked, stale>>
  /\ UNCHANGED <<vars, owed, connected, answers, shown, heard>>
Receive == /\ queue # <<>> /\ CanLoad
           /\ queue' = Tail(queue)
           /\ IF Head(queue) = "attention" THEN StartLoad ELSE UNCHANGED <<asked, stale>>
           /\ UNCHANGED <<vars, owed, connected, answers, shown, heard>>

\* Selecting a session and sending a prompt read the list too.
UserLoads == /\ CanLoad /\ StartLoad
             /\ UNCHANGED <<vars, owed, bus, answers, shown, heard>>

\* GET /local/questions for the selected session.
List == /\ asked > 0
        /\ asked' = asked - 1
        /\ answers' = Append(answers, [pending |-> Here(pending), late |-> FALSE])
        /\ UNCHANGED <<vars, owed, bus, shown, heard, stale>>

\* loadAttention goes on with the answer: the first question of the list, in no
\* particular order, is shown; without one an open dialog is closed.  A read that
\* failed counts as an empty list.
Apply(i) ==
  /\ i \in DOMAIN answers
  /\ \/ shown' \in answers[i].pending
     \/ answers[i].pending = {} /\ shown' = NoAsk
  /\ answers' = RemoveAt([j \in DOMAIN answers |-> [answers[j] EXCEPT !.late = @ \/ j < i]], i)
  /\ stale' = (stale \/ answers[i].late)
  /\ UNCHANGED <<vars, owed, bus, asked, heard>>

\* The reply or rejection was accepted: the dialog closes and the list is read.
Hear(h) == /\ h \in heard /\ CanLoad
           /\ heard' = heard \ {h}
           /\ shown' = NoAsk /\ StartLoad
           /\ UNCHANGED <<vars, owed, bus, answers>>

-----------------------------------------------------------------------------
(* The steps of the contract, and what they leave to be published.         *)

Apart == UNCHANGED <<bus, browser, stale>>

Contract ==
  \/ \E c \in Asks :
       \/ Ask(c) /\ owed' = owed \cup ({c} \cap pending') /\ UNCHANGED heard
       \/ c \notin owed /\ Wake(c) /\ UNCHANGED <<owed, heard>>
       \/ Leave(c) /\ owed' = owed \cup {c} /\ UNCHANGED heard
       \/ Cancel(c) /\ UNCHANGED <<owed, heard>>
  \/ \E h \in Handlers :
       \/ LookUp(h) /\ UNCHANGED <<owed, heard>>
       \/ /\ Send(h) /\ UNCHANGED owed
          /\ heard' = IF accepted' # accepted THEN heard \cup {h} ELSE heard
  \/ \E h \in Handlers \ heard, c \in Asks, s \in Sessions \cup {NoSession} :
       /\ Reject(h, c, s) \/ \E n \in 1..MaxAnswers : Reply(h, c, s, n)
       /\ UNCHANGED <<owed, heard>>

Browser == \/ Receive \/ List \/ \E i \in 1..MaxLoads : Apply(i)
           \/ \E h \in Handlers : Hear(h)

ANext == \/ Contract /\ Apart
         \/ \E c \in Asks : Announce(c)
         \/ OtherEvent \/ Disconnect \/ Reconnect
         \/ Browser \/ UserLoads

ASpec == AInit /\ [][ANext]_allVars

\* Goroutines that can run do run, and what is under way between the server and
\* the browser arrives.  Nobody is promised to answer, nor the stream to hold.
AFairSpec ==
  /\ ASpec
  /\ \A c \in Asks : /\ WF_allVars(Announce(c))
                     /\ WF_allVars(c \notin owed /\ (Wake(c) \/ Leave(c)) /\ Contract /\ Apart)
  /\ \A h \in Handlers : WF_allVars((LookUp(h) \/ Send(h)) /\ Contract /\ Apart)
  /\ \A h \in Handlers : WF_allVars(Hear(h))
  /\ WF_allVars(Receive) /\ WF_allVars(List) /\ \A i \in 1..MaxLoads : WF_allVars(Apply(i))
  /\ WF_allVars(Reconnect)

-----------------------------------------------------------------------------
(* Correctness.                                                            *)

\* A question that waits does not stay hidden, unless the browser was left with an
\* old picture: its stream broke before a signal, its channel was full without one,
\* or an old answer overtook a newer one.  (the signals and what they start)
Waiting == {c \in Asks : SessionOf[c] = Selected /\ pc[c] = "waiting" /\ inbox[c] = <<>>}
WaitingIsShown == []<>(Waiting = {} \/ shown \in Waiting \/ stale)
=============================================================================
