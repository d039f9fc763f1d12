------------------------- MODULE PermissionEngine --------------------------
(***************************************************************************)
(* The Permission Engine: AuthorizeNativeTool, which every tool call of    *)
(* the Native Agent passes before it runs (native_permission.go), the      *)
(* HTTP handlers that answer it, and the store of remembered allow rules   *)
(* with its policy file permissions.json (permission_engine.go).           *)
(*                                                                         *)
(* Each call runs in the goroutine of its Agent run; each reply is an HTTP *)
(* handler of its own.  A reply looks its waiter up under nativeMu,        *)
(* releases the lock, and only then writes the rule or the answer, so      *)
(* calls, replies and cancellation interleave between these steps.  The    *)
(* operations of the rule store hold the store's mutex from their load to  *)
(* their write and are one step each.                                      *)
(***************************************************************************)
CONSTANTS Calls,       \* tool calls of Native Agent runs
          Replies,     \* handlers of POST /local/permissions/{id}/reply
          Rules,       \* rule identities: (project, permission, matcher)
          Class,       \* [Calls -> Classes], from the tool's descriptor
          RuleOf,      \* [Calls -> Rules \cup {NoRule}], nativePermissionMatcher
          NoRule,      \* no matcher: the call cannot be remembered
          NoCall       \* a reply handler that serves no request

Classes == {"unknown", "read", "write", "sensitive"}
ReplyKinds == {"once", "always", "reject"}

ASSUME ClassAssumption == Class \in [Calls -> Classes]
ASSUME RuleAssumption == RuleOf \in [Calls -> Rules \cup {NoRule}] /\ NoRule \notin Rules
ASSUME NoCallAssumption == NoCall \notin Calls

VARIABLES
  loaded, rules,   \* the store's loaded flag and its rules in memory
  disk, torn,      \* the rules in permissions.json; whether it cannot be decoded
  pc,              \* where each call stands; "ran" once it is handed to its tool
  pending,         \* nativePending: the requests a reply can find
  inbox,           \* the one-slot response channel of each waiter
  verdict,         \* what the select of each call chose
  cancelled,       \* the calls whose run context is cancelled
  reply,           \* [Replies -> [at, call, kind]]: what each handler does
  \* history, read by the properties only
  firstAnswer,     \* the first answer that entered each call's channel
  granted,         \* rules granted by the user (or on disk at first) and not withdrawn
  degraded         \* whether a load or a write of the policy file has failed

storeVars == <<loaded, rules, disk, torn, granted, degraded>>
callVars == <<pc, pending, inbox, verdict, cancelled, firstAnswer>>
vars == <<storeVars, callVars, reply>>

IdleReply == [at |-> "idle", call |-> NoCall, kind |-> "none"]

Init == /\ loaded = FALSE /\ rules = {}
        /\ disk \in SUBSET Rules
        /\ torn = FALSE
        /\ pc = [c \in Calls |-> "idle"]
        /\ pending = {}
        /\ inbox = [c \in Calls |-> "empty"]
        /\ verdict = [c \in Calls |-> "none"]
        /\ cancelled = {}
        /\ reply = [r \in Replies |-> IdleReply]
        /\ firstAnswer = [c \in Calls |-> "none"]
        /\ granted = disk
        /\ degraded = FALSE

-----------------------------------------------------------------------------
(* The rule store.                                                         *)

\* loadLocked returns at once when the store is loaded, and otherwise reads the
\* file, which fails when it is torn and can fail at any time.
LoadSucceeds == /\ loaded \/ ~torn
                /\ loaded' = TRUE
LoadedRules == IF loaded THEN rules ELSE disk

\* The loaded flag is set before the file is read: a read that fails is reported
\* once, and leaves a store that passes for an empty one.
LoadFails == /\ ~loaded
             /\ loaded' = TRUE /\ rules' = {}
             /\ degraded' = TRUE
             /\ UNCHANGED <<disk, torn, granted>>

\* persistLocked writes a temporary file and renames it; when the rename fails
\* it overwrites the file in place, and that write can fail half way.
PersistSucceeds(k) == disk' = k /\ torn' = FALSE
PersistFails == /\ \/ UNCHANGED <<disk, torn>>
                   \/ disk' = {} /\ torn' = TRUE
                /\ degraded' = TRUE

\* Matchers are remembered only for calls that are neither Execute nor Network.
RememberableMutant(c) == Class[c] \in {"write", "sensitive"} /\ RuleOf[c] # NoRule
Rememberable(c) == Class[c] = "write" /\ RuleOf[c] # NoRule

-----------------------------------------------------------------------------
(* A tool call in AuthorizeNativeTool.                                     *)

Goto(c, label) == pc' = [pc EXCEPT ![c] = label]

\* Unknown tools are refused and read-only ones admitted without the store.
AuthorizeAtOnce(c) ==
  /\ pc[c] = "idle"
  /\ \/ Class[c] = "unknown" /\ Goto(c, "refused")
     \/ Class[c] = "read" /\ Goto(c, "ran")
  /\ UNCHANGED <<storeVars, pending, inbox, verdict, cancelled, firstAnswer, reply>>

\* A mutating call that a rule may cover: covers loads the store and looks for
\* the rule; a covered call is admitted, even if its run is already cancelled.
CoveredByRuleMutant(c) ==      \* a policy that cannot be read admits the call
  /\ pc[c] = "idle"
  /\ Rememberable(c)
  /\ \/ LoadFails
     \/ /\ LoadSucceeds /\ rules' = LoadedRules
        /\ RuleOf[c] \in LoadedRules
        /\ UNCHANGED <<disk, torn, granted, degraded>>
  /\ Goto(c, "ran")
  /\ UNCHANGED <<pending, inbox, verdict, cancelled, firstAnswer, reply>>
CoveredByRule(c) ==
  /\ pc[c] = "idle"
  /\ Rememberable(c)
  /\ \/ LoadFails /\ Goto(c, "refused")
     \/ /\ LoadSucceeds /\ rules' = LoadedRules
        /\ RuleOf[c] \in LoadedRules
        /\ Goto(c, "ran")
        /\ UNCHANGED <<disk, torn, granted, degraded>>
  /\ UNCHANGED <<pending, inbox, verdict, cancelled, firstAnswer, reply>>

\* Every other call registers a waiter and waits for the user.
Ask(c) ==
  /\ pc[c] = "idle"
  /\ Class[c] \in {"write", "sensitive"}
  /\ IF Rememberable(c)
     THEN /\ LoadSucceeds /\ rules' = LoadedRules
          /\ RuleOf[c] \notin LoadedRules
          /\ UNCHANGED <<disk, torn, granted, degraded>>
     ELSE UNCHANGED storeVars
  /\ pending' = pending \cup {c}
  /\ Goto(c, "waiting")
  /\ UNCHANGED <<inbox, verdict, cancelled, firstAnswer, reply>>

\* select: an answer in the channel and a cancelled context are both ready
\* cases, and Go picks either.
DecideMutant(c) ==             \* a select with an empty default case
  /\ pc[c] = "waiting"
  /\ verdict' = [verdict EXCEPT ![c] = inbox[c]]
  /\ inbox' = [inbox EXCEPT ![c] = "empty"]
  /\ Goto(c, "decided")
  /\ UNCHANGED <<storeVars, pending, cancelled, firstAnswer, reply>>
Decide(c) ==
  /\ pc[c] = "waiting"
  /\ \/ /\ inbox[c] # "empty"
        /\ verdict' = [verdict EXCEPT ![c] = inbox[c]]
        /\ inbox' = [inbox EXCEPT ![c] = "empty"]
     \/ /\ c \in cancelled
        /\ verdict' = [verdict EXCEPT ![c] = "cancel"]
        /\ UNCHANGED inbox
  /\ Goto(c, "decided")
  /\ UNCHANGED <<storeVars, pending, cancelled, firstAnswer, reply>>

\* The deferred function removes the request before AuthorizeNativeTool returns;
\* a handler that found the waiter before may still hold its channel.
LeaveAdmitsMutant(c) ==        \* everything but a cancellation admits the call
  /\ pc[c] = "decided"
  /\ pending' = pending \ {c}
  /\ inbox' = [inbox EXCEPT ![c] = "empty"]
  /\ verdict' = [verdict EXCEPT ![c] = "none"]
  /\ cancelled' = cancelled \ {c}
  /\ Goto(c, IF verdict[c] = "cancel" THEN "refused" ELSE "ran")
  /\ UNCHANGED <<storeVars, firstAnswer, reply>>
LeaveStaysMutant(c) ==         \* the request is not removed
  /\ pc[c] = "decided"
  /\ inbox' = [inbox EXCEPT ![c] = "empty"]
  /\ verdict' = [verdict EXCEPT ![c] = "none"]
  /\ cancelled' = cancelled \ {c}
  /\ Goto(c, IF verdict[c] = "allow" THEN "ran" ELSE "refused")
  /\ UNCHANGED <<storeVars, pending, firstAnswer, reply>>
Leave(c) ==
  /\ pc[c] = "decided"
  /\ pending' = pending \ {c}
  /\ inbox' = [inbox EXCEPT ![c] = "empty"]
  /\ verdict' = [verdict EXCEPT ![c] = "none"]
  /\ cancelled' = cancelled \ {c}
  /\ Goto(c, IF verdict[c] = "allow" THEN "ran" ELSE "refused")
  /\ UNCHANGED <<storeVars, firstAnswer, reply>>

\* The user aborts the run the call belongs to.  A cancellation before the call
\* waits is seen by the select only.
Cancel(c) ==
  /\ pc[c] = "waiting"
  /\ cancelled' = cancelled \cup {c}
  /\ UNCHANGED <<storeVars, pc, pending, inbox, verdict, firstAnswer, reply>>

-----------------------------------------------------------------------------
(* A reply.                                                                *)

Finish(r) == reply' = [reply EXCEPT ![r] = IdleReply]

\* The handler looks the waiter up under nativeMu and releases the lock.  A
\* request that is not pending or of another session, and a reply that is not
\* once, always or reject, are refused and change nothing.  A handler that has
\* answered is free again.
Lookup(r, c, kind) ==
  /\ reply[r].at = "idle"
  /\ c \in pending
  /\ reply' = [reply EXCEPT ![r] = [at |-> "found", call |-> c, kind |-> kind]]
  /\ UNCHANGED <<storeVars, callVars>>

\* "always" for a request that cannot be remembered safely.
RefuseReply(r) ==
  /\ reply[r].at = "found"
  /\ reply[r].kind = "always" /\ ~Rememberable(reply[r].call)
  /\ Finish(r)
  /\ UNCHANGED <<storeVars, callVars>>

\* "always": the rule is added and written before the answer is sent; a write
\* that fails rolls the rules in memory back.  A rule that exists is not written.
RememberMutant(r) ==           \* no rollback when the write fails
  LET c == reply[r].call IN
  /\ reply[r].at = "found" /\ reply[r].kind = "always" /\ Rememberable(c)
  /\ \/ LoadFails /\ Finish(r)
     \/ /\ LoadSucceeds
        /\ RuleOf[c] \in LoadedRules
        /\ rules' = LoadedRules
        /\ reply' = [reply EXCEPT ![r].at = "remembered"]
        /\ granted' = granted \cup {RuleOf[c]}
        /\ UNCHANGED <<disk, torn, degraded>>
     \/ /\ LoadSucceeds
        /\ RuleOf[c] \notin LoadedRules
        /\ rules' = LoadedRules \cup {RuleOf[c]}
        /\ PersistSucceeds(rules')
        /\ reply' = [reply EXCEPT ![r].at = "remembered"]
        /\ granted' = granted \cup {RuleOf[c]}
        /\ UNCHANGED degraded
     \/ /\ LoadSucceeds
        /\ RuleOf[c] \notin LoadedRules
        /\ rules' = LoadedRules \cup {RuleOf[c]}
        /\ PersistFails
        /\ Finish(r)
        /\ UNCHANGED granted
  /\ UNCHANGED callVars
Remember(r) ==
  LET c == reply[r].call IN
  /\ reply[r].at = "found" /\ reply[r].kind = "always" /\ Rememberable(c)
  /\ \/ LoadFails /\ Finish(r)
     \/ /\ LoadSucceeds
        /\ RuleOf[c] \in LoadedRules
        /\ rules' = LoadedRules
        /\ reply' = [reply EXCEPT ![r].at = "remembered"]
        /\ granted' = granted \cup {RuleOf[c]}
        /\ UNCHANGED <<disk, torn, degraded>>
     \/ /\ LoadSucceeds
        /\ RuleOf[c] \notin LoadedRules
        /\ rules' = LoadedRules \cup {RuleOf[c]}
        /\ PersistSucceeds(rules')
        /\ reply' = [reply EXCEPT ![r].at = "remembered"]
        /\ granted' = granted \cup {RuleOf[c]}
        /\ UNCHANGED degraded
     \/ /\ LoadSucceeds
        /\ RuleOf[c] \notin LoadedRules
        /\ rules' = LoadedRules
        /\ PersistFails
        /\ Finish(r)
        /\ UNCHANGED granted
  /\ UNCHANGED callVars

\* The answer is sent without blocking: if the slot is taken it is dropped, and
\* the handler reports success all the same.  Nobody reads the channel of a call
\* that has left.
Send(r) ==
  LET c == reply[r].call
      a == IF reply[r].kind = "reject" THEN "reject" ELSE "allow"
  IN /\ \/ reply[r].at = "remembered"
        \/ reply[r].at = "found" /\ reply[r].kind \in {"once", "reject"}
     /\ IF inbox[c] = "empty" /\ c \in pending
        THEN /\ inbox' = [inbox EXCEPT ![c] = a]
             /\ firstAnswer' = [firstAnswer EXCEPT ![c] = IF @ = "none" THEN a ELSE @]
        ELSE UNCHANGED <<inbox, firstAnswer>>
     /\ Finish(r)
     /\ UNCHANGED <<storeVars, pc, pending, verdict, cancelled>>

-----------------------------------------------------------------------------
(* The rules' routes, and a restart.                                       *)

\* GET /local/permissions/rules is the other caller that can load the store.
ListRules ==
  /\ ~loaded
  /\ \/ LoadFails
     \/ /\ LoadSucceeds /\ rules' = LoadedRules
        /\ UNCHANGED <<disk, torn, granted, degraded>>
  /\ UNCHANGED <<callVars, reply>>

\* DELETE /local/permissions/rules/{id}: the rule leaves memory before the file
\* is written, and a write that fails does not bring it back.
RemoveRuleMutant(k) ==         \* the file is not written
  /\ \/ LoadFails
     \/ /\ LoadSucceeds
        /\ k \in LoadedRules
        /\ rules' = LoadedRules \ {k}
        /\ granted' = granted \ {k}
        /\ UNCHANGED <<disk, torn, degraded>>
  /\ UNCHANGED <<callVars, reply>>
RemoveRule(k) ==
  /\ \/ LoadFails
     \/ /\ LoadSucceeds
        /\ k \in LoadedRules
        /\ rules' = LoadedRules \ {k}
        /\ \/ /\ PersistSucceeds(rules')
              /\ granted' = granted \ {k}
              /\ UNCHANGED degraded
           \/ /\ PersistFails
              /\ UNCHANGED granted
  /\ UNCHANGED <<callVars, reply>>

\* TL Studio stops and starts again; the calls that waited are lost with it.  The
\* file is torn if it stopped while a reply was overwriting it in place.
Restart(tear) ==
  /\ tear => \E r \in Replies : reply[r].at = "found" /\ reply[r].kind = "always"
                                /\ Rememberable(reply[r].call)
  /\ loaded' = FALSE /\ rules' = {}
  /\ disk' = IF tear THEN {} ELSE disk
  /\ torn' = (torn \/ tear)
  /\ degraded' = (degraded \/ tear)
  /\ pc' = [c \in Calls |-> IF pc[c] \in {"waiting", "decided"} THEN "lost" ELSE pc[c]]
  /\ pending' = {} /\ cancelled' = {}
  /\ inbox' = [c \in Calls |-> "empty"]
  /\ verdict' = [c \in Calls |-> "none"]
  /\ reply' = [r \in Replies |-> IdleReply]
  /\ UNCHANGED <<firstAnswer, granted>>

-----------------------------------------------------------------------------
CallStep(c) == AuthorizeAtOnce(c) \/ CoveredByRule(c) \/ Ask(c)
               \/ Decide(c) \/ Leave(c)
ReplyStep(r) == RefuseReply(r) \/ Remember(r) \/ Send(r)

Next ==
  \/ \E c \in Calls : CallStep(c) \/ Cancel(c)
  \/ \E r \in Replies : ReplyStep(r)
  \/ \E r \in Replies, c \in Calls, kind \in ReplyKinds : Lookup(r, c, kind)
  \/ ListRules
  \/ \E k \in Rules : RemoveRule(k)
  \/ \E tear \in BOOLEAN : Restart(tear)

\* Goroutines that can run do run; users, restarts and aborts promise nothing.
Fairness == /\ \A c \in Calls : WF_vars(CallStep(c))
            /\ \A r \in Replies : WF_vars(ReplyStep(r))

Spec == Init /\ [][Next]_vars
FairSpec == Spec /\ Fairness

-----------------------------------------------------------------------------
(* Correctness.                                                            *)

TypeOK ==
  /\ loaded \in BOOLEAN /\ rules \in SUBSET Rules
  /\ disk \in SUBSET Rules /\ torn \in BOOLEAN
  /\ pc \in [Calls -> {"idle", "waiting", "decided", "ran", "refused", "lost"}]
  /\ pending \in SUBSET Calls
  /\ inbox \in [Calls -> {"empty", "allow", "reject"}]
  /\ verdict \in [Calls -> {"none", "allow", "reject", "cancel"}]
  /\ cancelled \in SUBSET Calls
  /\ reply \in [Replies -> [at : {"idle", "found", "remembered"},
                            call : Calls \cup {NoCall},
                            kind : ReplyKinds \cup {"none"}]]
  /\ firstAnswer \in [Calls -> {"none", "allow", "reject"}]
  /\ granted \in SUBSET Rules
  /\ degraded \in BOOLEAN

\* A call is admitted only with grounds: it only reads, the user's first answer
\* to this very call was allow, or (never for Execute and Network tools) a rule
\* the user granted and has not withdrawn covers it.  (AuthorizeNativeTool)
HasGrounds(c) == \/ Class[c] = "read"
                 \/ firstAnswer[c] = "allow"
                 \/ Class[c] = "write" /\ RuleOf[c] \in granted
AdmissionHasGrounds ==
  [][\A c \in Calls : pc[c] # "ran" /\ pc'[c] = "ran" => HasGrounds(c)]_vars

\* A call whose first answer was reject never runs, whatever later replies,
\* rules or cancellations do.  (replyNativePermission against the select)
RejectedNeverRuns ==
  \A c \in Calls : firstAnswer[c] = "reject" => pc[c] # "ran"

\* No rule is in memory or in the policy file that the user did not grant or
\* has withdrawn, through failed writes, torn files, failed loads and restarts.
\* (addAllowRules, remove, loadLocked, persistLocked)
NoUngrantedRule == rules \cup disk \subseteq granted

\* While no load and no write has failed, the file holds exactly the rules the
\* user granted and has not withdrawn, through restarts, and a loaded store
\* agrees with it.  (the order of memory and file updates in the store)
HealthyStoreAgrees == ~degraded => disk = granted /\ (loaded => rules = disk)

\* A call that was answered or cancelled is settled: it leaves the pending list
\* and runs or is refused, unless TL Studio stops.  (select and deferred delete)
AnsweredCallSettles ==
  \A c \in Calls : (pc[c] = "waiting" /\ (inbox[c] # "empty" \/ c \in cancelled))
                   ~> (pc[c] \in {"ran", "refused", "lost"} /\ c \notin pending)

\* What the abstract specification sees of a call.
OutcomeOf(label) == IF label = "ran" THEN "ran"
                    ELSE IF label \in {"refused", "lost"} THEN "refused" ELSE "open"
Outcome == [c \in Calls |-> OutcomeOf(pc[c])]

\* The engine implements ToolAuthorization: what a call's goroutine, its
\* channel and the replies do amounts to one answer and one settlement.
Abstract == INSTANCE ToolAuthorization WITH outcome <- Outcome, answer <- firstAnswer
Implements == Abstract!ASpec
=============================================================================
