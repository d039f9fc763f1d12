------------------------- MODULE ToolAuthorization -------------------------
(***************************************************************************)
(* What the Permission Engine promises, without pending maps, channels,    *)
(* HTTP handlers or a policy file.  Every tool call is settled exactly     *)
(* once: it runs or it is refused, and it runs only if it needs no         *)
(* consent, or its first answer was "allow", or a rule the user granted    *)
(* covers it.  The first answer to a call is its only answer.              *)
(***************************************************************************)
CONSTANTS Calls,     \* tool calls of Native Agent runs
          Rules,     \* identities of remembered allow rules
          Class,     \* [Calls -> {"unknown", "read", "write", "sensitive"}]
          RuleOf,    \* [Calls -> Rules \cup {NoRule}]: the matcher of a call
          NoRule     \* a call without a matcher

VARIABLES outcome,   \* [Calls -> {"open", "ran", "refused"}]
          answer,    \* [Calls -> {"none", "allow", "reject"}]
          granted    \* rules the user granted and has not withdrawn

avars == <<outcome, answer, granted>>

Rememberable(c) == Class[c] = "write" /\ RuleOf[c] # NoRule

AInit == /\ outcome = [c \in Calls |-> "open"]
         /\ answer = [c \in Calls |-> "none"]
         /\ granted \in SUBSET Rules

\* The user answers a call for the first time.
Answer(c, a) == /\ answer[c] = "none"
                /\ answer' = [answer EXCEPT ![c] = a]
                /\ UNCHANGED <<outcome, granted>>

\* What may let a call run.
Consented(c) == \/ Class[c] = "read"
                \/ answer[c] = "allow"
                \/ Rememberable(c) /\ RuleOf[c] \in granted

\* A call is admitted and from then on runs.
Admit(c) == /\ outcome[c] = "open"
            /\ Class[c] # "unknown"
            /\ Consented(c)
            /\ outcome' = [outcome EXCEPT ![c] = "ran"]
            /\ UNCHANGED <<answer, granted>>

\* A call is refused: rejected, cancelled, unknown, or the store failed.
Refuse(c) == /\ outcome[c] = "open"
             /\ outcome' = [outcome EXCEPT ![c] = "refused"]
             /\ UNCHANGED <<answer, granted>>

\* The user grants the rule of a call that may be remembered.
Grant(c) == /\ Rememberable(c)
            /\ granted' = granted \cup {RuleOf[c]}
            /\ UNCHANGED <<outcome, answer>>

\* The user withdraws a rule.
Withdraw(k) == /\ granted' = granted \ {k}
               /\ UNCHANGED <<outcome, answer>>

\* TL Studio stops: the calls that were waiting will never run.
Stop == /\ \E waiting \in SUBSET {c \in Calls : outcome[c] = "open"} :
             outcome' = [c \in Calls |-> IF c \in waiting THEN "refused" ELSE outcome[c]]
        /\ UNCHANGED <<answer, granted>>

ANext == \/ \E c \in Calls, a \in {"allow", "reject"} : Answer(c, a)
         \/ \E c \in Calls : Admit(c) \/ Refuse(c) \/ Grant(c)
         \/ \E k \in Rules : Withdraw(k)
         \/ Stop

ASpec == AInit /\ [][ANext]_avars
=============================================================================
