----------------------- MODULE PermissionEngineProofs ----------------------
(***************************************************************************)
(* Proofs, for every set of calls, handlers and rules, of the properties   *)
(* of the Permission Engine that TLC checks on two instances.              *)
(***************************************************************************)
EXTENDS PermissionEngine, TLAPS

USE ClassAssumption, RuleAssumption, NoCallAssumption

-----------------------------------------------------------------------------
(* Types.                                                                  *)

ReplyType == [at : {"idle", "found", "remembered"}, call : Calls \cup {NoCall},
              kind : ReplyKinds \cup {"none"}]

\* A handler that serves a request serves one of Calls, so the store is asked
\* about a rule of Rules and the answer goes to the channel of a call.
HandlerServesCall ==
  \A r \in Replies : reply[r].at # "idle" => reply[r].call \in Calls /\ reply[r].kind \in ReplyKinds

TypeInv == TypeOK /\ HandlerServesCall

LEMMA TypeInit == Init => TypeInv
<1> SUFFICES ASSUME Init PROVE TypeInv
  OBVIOUS
<1>1. reply \in [Replies -> ReplyType] /\ HandlerServesCall
  BY DEF Init, HandlerServesCall, IdleReply, ReplyType
<1> QED BY <1>1 DEF Init, TypeInv, TypeOK, ReplyType

\* Every action leaves every variable in its type.
LEMMA TypeStep == TypeInv /\ [Next]_vars => TypeInv'
<1> SUFFICES ASSUME TypeInv, [Next]_vars PROVE TypeInv'
  OBVIOUS
<1> USE DEF TypeInv, TypeOK, HandlerServesCall
<1>1. ASSUME NEW c \in Calls, AuthorizeAtOnce(c) PROVE TypeInv'
  BY <1>1 DEF AuthorizeAtOnce, Goto, storeVars
<1>2. ASSUME NEW c \in Calls, CoveredByRule(c) PROVE TypeInv'
  BY <1>2 DEF CoveredByRule, Goto, LoadFails, LoadSucceeds, LoadedRules, PersistSucceeds, PersistFails
<1>3. ASSUME NEW c \in Calls, Ask(c) PROVE TypeInv'
  BY <1>3 DEF Ask, Goto, LoadSucceeds, LoadedRules, storeVars
<1>4. ASSUME NEW c \in Calls, Decide(c) PROVE TypeInv'
  BY <1>4 DEF Decide, Goto, storeVars
<1>5. ASSUME NEW c \in Calls, Leave(c) PROVE TypeInv'
  BY <1>5 DEF Leave, Goto, storeVars
<1>6. ASSUME NEW c \in Calls, Cancel(c) PROVE TypeInv'
  BY <1>6 DEF Cancel, storeVars
<1>7. ASSUME NEW r \in Replies, NEW c \in Calls, NEW kind \in ReplyKinds, Lookup(r, c, kind)
      PROVE TypeInv'
  BY <1>7 DEF Lookup, storeVars, callVars
<1>8. ASSUME NEW r \in Replies, RefuseReply(r) PROVE TypeInv'
  BY <1>8 DEF RefuseReply, Finish, IdleReply, storeVars, callVars
<1>9. ASSUME NEW r \in Replies, Remember(r) PROVE TypeInv'
  <2> DEFINE c == reply[r].call
  <2>1. c \in Calls /\ RuleOf[c] \in Rules
    BY <1>9 DEF Remember, Rememberable
  <2>2. reply' \in [Replies -> ReplyType] /\ HandlerServesCall'
    BY <1>9, <2>1 DEF Remember, Finish, IdleReply, ReplyType, LoadFails, ReplyKinds
  <2>3. loaded' \in BOOLEAN /\ rules' \in SUBSET Rules /\ disk' \in SUBSET Rules
        /\ torn' \in BOOLEAN /\ granted' \in SUBSET Rules /\ degraded' \in BOOLEAN
    BY <1>9, <2>1 DEF Remember, LoadFails, LoadSucceeds, LoadedRules, PersistSucceeds, PersistFails
  <2> QED BY <1>9, <2>2, <2>3 DEF Remember, callVars, ReplyType
<1>10. ASSUME NEW r \in Replies, Send(r) PROVE TypeInv'
  BY <1>10 DEF Send, Finish, IdleReply, storeVars
<1>11. ASSUME ListRules PROVE TypeInv'
  BY <1>11 DEF ListRules, LoadFails, LoadSucceeds, LoadedRules, PersistSucceeds, PersistFails, callVars
<1>12. ASSUME NEW k \in Rules, RemoveRule(k) PROVE TypeInv'
  BY <1>12 DEF RemoveRule, LoadFails, LoadSucceeds, LoadedRules, PersistSucceeds, PersistFails, callVars
<1>13. ASSUME NEW tear \in BOOLEAN, Restart(tear) PROVE TypeInv'
  BY <1>13 DEF Restart, IdleReply
<1>14. CASE UNCHANGED vars
  BY <1>14 DEF vars, storeVars, callVars
<1> QED
  BY <1>1, <1>2, <1>3, <1>4, <1>5, <1>6, <1>7, <1>8, <1>9, <1>10, <1>11, <1>12, <1>13, <1>14
  DEF Next, CallStep, ReplyStep

\* Type correctness of the engine, for every instance.
THEOREM TypeCorrect == Spec => []TypeOK
<1>1. TypeInv => TypeOK
  BY DEF TypeInv
<1> QED BY TypeInit, TypeStep, <1>1, PTL DEF Spec

-----------------------------------------------------------------------------
(* The rule store: NoUngrantedRule is inductive as it stands, and so is    *)
(* HealthyStoreAgrees once a healthy store is known to have a sound file.  *)

HealthyFile == ~degraded => ~torn
StoreInv == NoUngrantedRule /\ HealthyStoreAgrees /\ HealthyFile

\* The actions of calls and handlers that leave the store alone.
LEMMA StoreUntouched == StoreInv /\ UNCHANGED storeVars => StoreInv'
BY DEF StoreInv, NoUngrantedRule, HealthyStoreAgrees, HealthyFile, storeVars

\* A load alone, whether it fails or succeeds, keeps the store sound.
LEMMA StoreLoad ==
  ASSUME TypeInv, StoreInv,
         \/ LoadFails
         \/ LoadSucceeds /\ rules' = LoadedRules /\ UNCHANGED <<disk, torn, granted, degraded>>
  PROVE  StoreInv'
BY DEF TypeInv, TypeOK, StoreInv, NoUngrantedRule, HealthyStoreAgrees, HealthyFile,
       LoadFails, LoadSucceeds, LoadedRules

LEMMA StoreInit == Init => StoreInv
BY DEF Init, StoreInv, NoUngrantedRule, HealthyStoreAgrees, HealthyFile

LEMMA StoreStep == TypeInv /\ StoreInv /\ [Next]_vars => StoreInv'
<1> SUFFICES ASSUME TypeInv, StoreInv, [Next]_vars PROVE StoreInv'
  OBVIOUS
<1>1. ASSUME NEW c \in Calls, CallStep(c) PROVE StoreInv'
  <2>1. CASE AuthorizeAtOnce(c) \/ Decide(c) \/ Leave(c)
    BY <2>1, StoreUntouched DEF AuthorizeAtOnce, Decide, Leave
  <2>2. CASE CoveredByRule(c)
    BY <2>2, StoreLoad DEF CoveredByRule
  <2>3. CASE Ask(c)
    BY <2>3, StoreLoad, StoreUntouched DEF Ask
  <2> QED BY <1>1, <2>1, <2>2, <2>3 DEF CallStep
<1>2. ASSUME NEW c \in Calls, Cancel(c) PROVE StoreInv'
  BY <1>2, StoreUntouched DEF Cancel
<1>3. ASSUME NEW r \in Replies, NEW c \in Calls, NEW kind \in ReplyKinds, Lookup(r, c, kind)
      PROVE StoreInv'
  BY <1>3, StoreUntouched DEF Lookup
<1>4. ASSUME NEW r \in Replies, RefuseReply(r) \/ Send(r) PROVE StoreInv'
  BY <1>4, StoreUntouched DEF RefuseReply, Send
<1>5. ASSUME NEW r \in Replies, Remember(r) PROVE StoreInv'
  <2> DEFINE k == RuleOf[reply[r].call]
  <2>1. CASE LoadFails
    BY <2>1, StoreLoad
  <2>2. CASE /\ LoadSucceeds /\ k \in LoadedRules /\ rules' = LoadedRules
             /\ granted' = granted \cup {k} /\ UNCHANGED <<disk, torn, degraded>>
    BY <2>2 DEF TypeInv, TypeOK, StoreInv, NoUngrantedRule, HealthyStoreAgrees, HealthyFile,
                LoadSucceeds, LoadedRules
  <2>3. CASE /\ LoadSucceeds /\ rules' = LoadedRules \cup {k} /\ PersistSucceeds(rules')
             /\ granted' = granted \cup {k} /\ UNCHANGED degraded
    BY <2>3 DEF TypeInv, TypeOK, StoreInv, NoUngrantedRule, HealthyStoreAgrees, HealthyFile,
                LoadSucceeds, LoadedRules, PersistSucceeds
  <2>4. CASE LoadSucceeds /\ rules' = LoadedRules /\ PersistFails /\ UNCHANGED granted
    BY <2>4 DEF TypeInv, TypeOK, StoreInv, NoUngrantedRule, HealthyStoreAgrees, HealthyFile,
                LoadSucceeds, LoadedRules, PersistFails
  <2> QED BY <1>5, <2>1, <2>2, <2>3, <2>4 DEF Remember
<1>6. CASE ListRules
  BY <1>6, StoreLoad DEF ListRules
<1>7. ASSUME NEW k \in Rules, RemoveRule(k) PROVE StoreInv'
  <2>1. CASE LoadFails
    BY <2>1, StoreLoad
  <2>2. CASE /\ LoadSucceeds /\ rules' = LoadedRules \ {k} /\ PersistSucceeds(rules')
             /\ granted' = granted \ {k} /\ UNCHANGED degraded
    BY <2>2 DEF TypeInv, TypeOK, StoreInv, NoUngrantedRule, HealthyStoreAgrees, HealthyFile,
                LoadSucceeds, LoadedRules, PersistSucceeds
  <2>3. CASE LoadSucceeds /\ rules' = LoadedRules \ {k} /\ PersistFails /\ UNCHANGED granted
    BY <2>3 DEF TypeInv, TypeOK, StoreInv, NoUngrantedRule, HealthyStoreAgrees, HealthyFile,
                LoadSucceeds, LoadedRules, PersistFails
  <2> QED BY <1>7, <2>1, <2>2, <2>3 DEF RemoveRule
<1>8. ASSUME NEW tear \in BOOLEAN, Restart(tear) PROVE StoreInv'
  BY <1>8 DEF TypeInv, TypeOK, StoreInv, NoUngrantedRule, HealthyStoreAgrees, HealthyFile, Restart
<1>9. CASE UNCHANGED vars
  BY <1>9, StoreUntouched DEF vars
<1> QED
  BY <1>1, <1>2, <1>3, <1>4, <1>5, <1>6, <1>7, <1>8, <1>9 DEF Next, ReplyStep

\* No rule the user did not grant or has withdrawn is in memory or in the file.
THEOREM OnlyGrantedRules == Spec => []NoUngrantedRule
<1>1. StoreInv => NoUngrantedRule
  BY DEF StoreInv
<1> QED BY TypeInit, TypeStep, StoreInit, StoreStep, <1>1, PTL DEF Spec

\* While nothing failed, memory, file and the user's grants agree.
THEOREM HealthyStore == Spec => []HealthyStoreAgrees
<1>1. StoreInv => HealthyStoreAgrees
  BY DEF StoreInv
<1> QED BY TypeInit, TypeStep, StoreInit, StoreStep, <1>1, PTL DEF Spec

-----------------------------------------------------------------------------
(* Answers: what is in a call's channel, and what its select chose, is its *)
(* first answer, because a second answer enters the channel only after the *)
(* select has taken the first.                                             *)

AnswerInv ==
  \A c \in Calls :
    /\ c \in pending <=> pc[c] \in {"waiting", "decided"}
    /\ c \in pending => Class[c] \in {"write", "sensitive"}
    /\ pc[c] = "idle" => firstAnswer[c] = "none" /\ inbox[c] = "empty"
    /\ pc[c] = "waiting" => inbox[c] = IF firstAnswer[c] = "none" THEN "empty" ELSE firstAnswer[c]
    /\ pc[c] = "decided" /\ verdict[c] = "allow" => firstAnswer[c] = "allow"
    /\ pc[c] = "ran" => firstAnswer[c] # "reject"

LEMMA AnswerInit == Init => AnswerInv
BY DEF Init, AnswerInv

LEMMA AnswerStep == TypeInv /\ AnswerInv /\ [Next]_vars => AnswerInv'
<1> SUFFICES ASSUME TypeInv, AnswerInv, [Next]_vars PROVE AnswerInv'
  OBVIOUS
<1> USE DEF TypeInv, TypeOK, AnswerInv
<1>1. ASSUME NEW c \in Calls, AuthorizeAtOnce(c) PROVE AnswerInv'
  BY <1>1 DEF AuthorizeAtOnce, Goto
<1>2. ASSUME NEW c \in Calls, CoveredByRule(c) PROVE AnswerInv'
  BY <1>2 DEF CoveredByRule, Goto
<1>3. ASSUME NEW c \in Calls, Ask(c) PROVE AnswerInv'
  BY <1>3 DEF Ask, Goto
<1>4. ASSUME NEW c \in Calls, Decide(c) PROVE AnswerInv'
  BY <1>4 DEF Decide, Goto
<1>5. ASSUME NEW c \in Calls, Leave(c) PROVE AnswerInv'
  BY <1>5 DEF Leave, Goto
<1>6. ASSUME NEW c \in Calls, Cancel(c) PROVE AnswerInv'
  BY <1>6 DEF Cancel
<1>7. ASSUME NEW r \in Replies, Send(r) PROVE AnswerInv'
  <2>1. reply[r].call \in Calls
    BY <1>7 DEF Send, HandlerServesCall
  <2> QED BY <1>7, <2>1 DEF Send
<1>8. CASE UNCHANGED callVars
  BY <1>8 DEF callVars
<1>9. ASSUME NEW tear \in BOOLEAN, Restart(tear) PROVE AnswerInv'
  BY <1>9 DEF Restart
<1>10. ASSUME NEW r \in Replies, NEW c \in Calls, NEW kind \in ReplyKinds, Lookup(r, c, kind)
       PROVE UNCHANGED callVars
  BY <1>10 DEF Lookup
<1>11. ASSUME NEW r \in Replies, RefuseReply(r) \/ Remember(r) PROVE UNCHANGED callVars
  BY <1>11 DEF RefuseReply, Remember
<1>12. ASSUME ListRules \/ \E k \in Rules : RemoveRule(k) PROVE UNCHANGED callVars
  BY <1>12 DEF ListRules, RemoveRule
<1>13. UNCHANGED vars => UNCHANGED callVars
  BY DEF vars
<1> QED
  BY <1>1, <1>2, <1>3, <1>4, <1>5, <1>6, <1>7, <1>8, <1>9, <1>10, <1>11, <1>12, <1>13
  DEF Next, CallStep, ReplyStep

\* A call whose first answer was reject never runs.
THEOREM RejectionIsFinal == Spec => []RejectedNeverRuns
<1>1. TypeInv /\ AnswerInv => RejectedNeverRuns
  BY DEF AnswerInv, RejectedNeverRuns
<1> QED BY TypeInit, TypeStep, AnswerInit, AnswerStep, <1>1, PTL DEF Spec

-----------------------------------------------------------------------------
(* Admission: the only steps that hand a call to its tool are              *)
(* AuthorizeAtOnce, CoveredByRule and Leave.                               *)

LEMMA AdmissionStep ==
  ASSUME TypeInv, StoreInv, AnswerInv, [Next]_vars,
         NEW c \in Calls, pc[c] # "ran", pc'[c] = "ran"
  PROVE  HasGrounds(c)
<1> USE DEF TypeInv, TypeOK
<1>1. ASSUME NEW d \in Calls, AuthorizeAtOnce(d) PROVE HasGrounds(c)
  BY <1>1 DEF AuthorizeAtOnce, Goto, HasGrounds
<1>2. ASSUME NEW d \in Calls, CoveredByRule(d) PROVE HasGrounds(c)
  <2>1. d = c /\ RuleOf[c] \in LoadedRules /\ Rememberable(c)
    BY <1>2 DEF CoveredByRule, Goto
  <2>2. LoadedRules \subseteq granted
    BY DEF StoreInv, NoUngrantedRule, LoadedRules
  <2> QED BY <2>1, <2>2 DEF HasGrounds, Rememberable
<1>3. ASSUME NEW d \in Calls, Leave(d) PROVE HasGrounds(c)
  <2>1. d = c /\ verdict[c] = "allow" /\ pc[c] = "decided"
    BY <1>3 DEF Leave, Goto
  <2> QED BY <2>1 DEF AnswerInv, HasGrounds
<1>4. ASSUME NEW d \in Calls, Ask(d) \/ Decide(d) PROVE FALSE
  BY <1>4 DEF Ask, Decide, Goto
<1>5. ASSUME NEW d \in Calls, Cancel(d) PROVE FALSE
  BY <1>5 DEF Cancel
<1>6. ASSUME NEW r \in Replies, ReplyStep(r) PROVE FALSE
  BY <1>6 DEF ReplyStep, RefuseReply, Remember, Send, callVars
<1>7. ASSUME NEW r \in Replies, NEW d \in Calls, NEW kind \in ReplyKinds, Lookup(r, d, kind)
      PROVE FALSE
  BY <1>7 DEF Lookup, callVars
<1>8. ASSUME ListRules \/ \E k \in Rules : RemoveRule(k) PROVE FALSE
  BY <1>8 DEF ListRules, RemoveRule, callVars
<1>9. ASSUME NEW tear \in BOOLEAN, Restart(tear) PROVE FALSE
  BY <1>9 DEF Restart
<1>10. CASE UNCHANGED vars
  BY <1>10 DEF vars, callVars
<1> QED
  BY <1>1, <1>2, <1>3, <1>4, <1>5, <1>6, <1>7, <1>8, <1>9, <1>10 DEF Next, CallStep

\* A call is admitted only if it reads, was allowed, or is covered by a granted rule.
THEOREM AdmissionGrounded == Spec => AdmissionHasGrounds
<1>1. TypeInv /\ StoreInv /\ AnswerInv /\ [Next]_vars
      => [\A c \in Calls : pc[c] # "ran" /\ pc'[c] = "ran" => HasGrounds(c)]_vars
  BY AdmissionStep
<1> QED
  BY TypeInit, TypeStep, StoreInit, StoreStep, AnswerInit, AnswerStep, <1>1, PTL
  DEF Spec, AdmissionHasGrounds

-----------------------------------------------------------------------------
(* The engine implements ToolAuthorization.  A call's goroutine maps to    *)
(* Admit or Refuse, an answer that enters the channel to Answer, the store *)
(* to Grant and Withdraw, and everything else to a stutter.                *)

LEMMA RefinesInit == Init => Abstract!AInit
BY DEF Init, Abstract!AInit, Outcome, OutcomeOf

\* A call that settles moves its outcome from open to where it settled.
LEMMA Settles ==
  ASSUME TypeInv, NEW c \in Calls, NEW o \in {"ran", "refused"},
         pc[c] \in {"idle", "decided"}, Goto(c, o)
  PROVE  Outcome[c] = "open" /\ Outcome' = [Outcome EXCEPT ![c] = o]
BY DEF TypeInv, TypeOK, Goto, Outcome, OutcomeOf

\* A call that moves between labels that are both open stutters.
LEMMA StaysOpen ==
  ASSUME TypeInv, NEW c \in Calls, NEW l \in {"waiting", "decided"},
         pc[c] \in {"idle", "waiting"}, Goto(c, l)
  PROVE  UNCHANGED Outcome
BY DEF TypeInv, TypeOK, Goto, Outcome, OutcomeOf

LEMMA SettledRefines ==
  ASSUME TypeInv, NEW c \in Calls, UNCHANGED <<firstAnswer, granted>>,
         pc[c] \in {"idle", "decided"},
         \/ Goto(c, "refused")
         \/ Goto(c, "ran") /\ HasGrounds(c) /\ Class[c] # "unknown"
                          /\ (Class[c] = "write" /\ firstAnswer[c] # "allow" => Rememberable(c))
  PROVE  Abstract!ANext
<1>1. CASE Goto(c, "refused")
  <2>1. Abstract!Refuse(c)
    BY <1>1, Settles DEF Abstract!Refuse
  <2> QED BY <2>1 DEF Abstract!ANext
<1>2. CASE Goto(c, "ran") /\ HasGrounds(c) /\ Class[c] # "unknown"
           /\ (Class[c] = "write" /\ firstAnswer[c] # "allow" => Rememberable(c))
  <2>1. Abstract!Admit(c)
    BY <1>2, Settles DEF Abstract!Admit, Abstract!Consented, Abstract!Rememberable,
                         HasGrounds, Rememberable
  <2> QED BY <2>1 DEF Abstract!ANext
<1> QED BY <1>1, <1>2

LEMMA RefinesStep ==
  TypeInv /\ StoreInv /\ AnswerInv /\ [Next]_vars => [Abstract!ANext]_(Abstract!avars)
<1> SUFFICES ASSUME TypeInv, StoreInv, AnswerInv, [Next]_vars
             PROVE  Abstract!ANext \/ UNCHANGED <<Outcome, firstAnswer, granted>>
  BY DEF Abstract!avars
<1> DEFINE Step == Abstract!ANext \/ UNCHANGED <<Outcome, firstAnswer, granted>>
<1>1. UNCHANGED callVars => UNCHANGED Outcome /\ UNCHANGED firstAnswer
  BY DEF callVars, Outcome
<1>2. UNCHANGED storeVars => UNCHANGED granted
  BY DEF storeVars
<1>3. ASSUME NEW c \in Calls, AuthorizeAtOnce(c) PROVE Step
  BY <1>3, <1>2, SettledRefines DEF AuthorizeAtOnce, HasGrounds
<1>4. ASSUME NEW c \in Calls, CoveredByRule(c) PROVE Step
  <2>1. pc[c] = "idle" /\ Class[c] = "write" /\ UNCHANGED <<firstAnswer, granted>>
    BY <1>4 DEF CoveredByRule, LoadFails, Rememberable
  <2>2. CASE Goto(c, "refused")
    BY <2>1, <2>2, SettledRefines
  <2>3. CASE Goto(c, "ran") /\ RuleOf[c] \in LoadedRules
    <3>1. RuleOf[c] \in granted
      BY <2>3 DEF StoreInv, NoUngrantedRule, LoadedRules
    <3> QED BY <1>4, <2>1, <2>3, <3>1, SettledRefines DEF HasGrounds, CoveredByRule
  <2> QED BY <1>4, <2>2, <2>3 DEF CoveredByRule
<1>5. ASSUME NEW c \in Calls, Ask(c) PROVE Step
  BY <1>5, <1>2, StaysOpen DEF Ask
<1>6. ASSUME NEW c \in Calls, Decide(c) PROVE Step
  BY <1>6, <1>2, StaysOpen DEF Decide
<1>7. ASSUME NEW c \in Calls, Leave(c) PROVE Step
  <2>1. pc[c] = "decided" /\ UNCHANGED <<firstAnswer, granted>>
    BY <1>7, <1>2 DEF Leave
  <2>2. CASE verdict[c] = "allow"
    <3>1. Class[c] \in {"write", "sensitive"} /\ firstAnswer[c] = "allow"
      BY <2>1, <2>2 DEF AnswerInv
    <3> QED BY <1>7, <2>1, <2>2, <3>1, SettledRefines DEF Leave, HasGrounds
  <2>3. CASE verdict[c] # "allow"
    BY <1>7, <2>1, <2>3, SettledRefines DEF Leave
  <2> QED BY <2>2, <2>3
<1>8. ASSUME NEW c \in Calls, Cancel(c) PROVE Step
  BY <1>8, <1>2 DEF Cancel, Outcome
<1>9. ASSUME NEW r \in Replies, NEW c \in Calls, NEW kind \in ReplyKinds, Lookup(r, c, kind)
      PROVE Step
  BY <1>9, <1>1, <1>2 DEF Lookup
<1>10. ASSUME NEW r \in Replies, RefuseReply(r) PROVE Step
  BY <1>10, <1>1, <1>2 DEF RefuseReply
<1>11. ASSUME NEW r \in Replies, Remember(r) PROVE Step
  <2> DEFINE c == reply[r].call
  <2>1. c \in Calls /\ Rememberable(c) /\ UNCHANGED <<Outcome, firstAnswer>>
    BY <1>11, <1>1 DEF Remember, TypeInv, HandlerServesCall
  <2>2. CASE granted' = granted \cup {RuleOf[c]}
    <3>1. Abstract!Grant(c)
      BY <2>1, <2>2 DEF Abstract!Grant, Abstract!Rememberable, Rememberable
    <3> QED BY <2>1, <3>1 DEF Abstract!ANext
  <2>3. CASE UNCHANGED granted
    BY <2>1, <2>3
  <2> QED BY <1>11, <2>2, <2>3 DEF Remember, LoadFails
<1>12. ASSUME NEW r \in Replies, Send(r) PROVE Step
  <2> DEFINE c == reply[r].call
             a == IF reply[r].kind = "reject" THEN "reject" ELSE "allow"
  <2>1. c \in Calls /\ UNCHANGED <<Outcome, granted>>
    BY <1>12, <1>2 DEF Send, TypeInv, HandlerServesCall, Outcome
  <2>2. CASE firstAnswer[c] = "none" /\ firstAnswer' = [firstAnswer EXCEPT ![c] = a]
    <3>1. Abstract!Answer(c, a) /\ a \in {"allow", "reject"}
      BY <2>1, <2>2 DEF Abstract!Answer
    <3> QED BY <2>1, <3>1 DEF Abstract!ANext
  <2>3. CASE UNCHANGED firstAnswer
    BY <2>1, <2>3
  <2> QED BY <1>12, <2>1, <2>2, <2>3 DEF Send, TypeInv, TypeOK
<1>13. CASE ListRules
  BY <1>13, <1>1 DEF ListRules, LoadFails
<1>14. ASSUME NEW k \in Rules, RemoveRule(k) PROVE Step
  <2>1. UNCHANGED <<Outcome, firstAnswer>>
    BY <1>14, <1>1 DEF RemoveRule
  <2>2. CASE granted' = granted \ {k}
    BY <2>1, <2>2 DEF Abstract!Withdraw, Abstract!ANext
  <2>3. CASE UNCHANGED granted
    BY <2>1, <2>3
  <2> QED BY <1>14, <2>2, <2>3 DEF RemoveRule, LoadFails
<1>15. ASSUME NEW tear \in BOOLEAN, Restart(tear) PROVE Step
  <2> DEFINE lost == {c \in Calls : pc[c] \in {"waiting", "decided"}}
  <2>1. lost \in SUBSET {c \in Calls : Outcome[c] = "open"}
    BY DEF Outcome, OutcomeOf
  <2>2. Outcome' = [c \in Calls |-> IF c \in lost THEN "refused" ELSE Outcome[c]]
    BY <1>15 DEF Restart, Outcome, OutcomeOf
  <2>3. Abstract!Stop
    BY <1>15, <2>1, <2>2 DEF Abstract!Stop, Restart
  <2> QED BY <2>3 DEF Abstract!ANext
<1>16. CASE UNCHANGED vars
  BY <1>16, <1>1, <1>2 DEF vars
<1> QED
  BY <1>3, <1>4, <1>5, <1>6, <1>7, <1>8, <1>9, <1>10, <1>11, <1>12, <1>13, <1>14, <1>15, <1>16
  DEF Next, CallStep, ReplyStep

\* The engine implements the abstract authorization of tool calls.
THEOREM EngineImplements == Spec => Implements
<1> QED
  BY TypeInit, TypeStep, StoreInit, StoreStep, AnswerInit, AnswerStep, RefinesInit, RefinesStep, PTL
  DEF Spec, Implements, Abstract!ASpec
=============================================================================
