-------------------------- MODULE ClaudeWebAccount --------------------------
(* The account adapter of Claude Web (provider_account_claude_web.go), whose model
   turns are carried to the user's Chrome by a tab of the browser UI and an extension
   (claude_web_extension_bridge.go).  The bridge has a queue of commands, a waiter
   with one slot for each, and a token that a sign-in makes anew; the tab asks for
   commands and brings results with the token it was given.  All of the bridge is
   under one mutex; the adapter holds none while it waits. *)
EXTENDS ProviderStore, Sequences

CONSTANTS Ops, MaxPairings             \* calls; tokens

Tokens == 1..MaxPairings
VARIABLES
  connected,    \* claude-web.json
  pairing,      \* token, 0 for none, and whether the tab paired with it
  queue,        \* the commands; a command has the name of its call
  waiter,       \* what the channel of a call holds, and whether the bridge knows it
  carried,      \* external: the commands a tab took, each with the token it used
  handed,       \* external: the tokens a tab was given
  signIn,       \* the transactions, each with the number of the token made for it
  work          \* the calls: what, and how far

claudeWeb == <<connected, pairing, queue, waiter, carried, handed, signIn, work>>
bridgeVars == <<pairing, queue, waiter>>

NoWaiter == [slot |-> "none", known |-> FALSE]
ClaudeWebTypeOK ==
  /\ connected \in BOOLEAN
  /\ pairing \in [token : {0} \cup Tokens, paired : BOOLEAN]
  /\ queue \in Seq(Ops) /\ carried \subseteq [of : Ops, token : Tokens] /\ handed \subseteq Tokens
  /\ waiter \in [Ops -> [slot : {"none", "empty", "failed", "good"}, known : BOOLEAN]]
  /\ signIn \in [Tokens -> {"new", "opened", "listed", "expired", "gone"}]
  /\ work \in [Ops -> [what : {"status", "poll", "refresh", "turn", "disconnect"}, about : {0} \cup Tokens,
                       at : {"idle", "send", "wait", "save", "keep", "status", "sync", "forget",
                             "remove", "done"}]]

ClaudeWebInit ==
  /\ connected = (registryFile["mine"] = "account")
  /\ pairing = [token |-> 0, paired |-> FALSE] /\ queue = <<>> /\ waiter = [o \in Ops |-> NoWaiter]
  /\ carried = {} /\ handed = {} /\ signIn = [n \in Tokens |-> "new"]
  /\ work = [o \in Ops |-> [what |-> "status", about |-> 0, at |-> "idle"]]

Goes(o, at) == work' = [work EXCEPT ![o].at = at]
Ends(o) == work' = [work EXCEPT ![o] = [what |-> "status", about |-> 0, at |-> "done"]]
Begins(o, what, at) == work[o].at = "idle" /\ work' = [work EXCEPT ![o] = [@ EXCEPT !.what = what, !.at = at]]
At(o, whats, at) == work[o].what \in whats /\ work[o].at = at

-----------------------------------------------------------------------------
(* resetLocked: every waiter gets an error, and what was asked under the old token
   is forgotten. *)
ResetLockedMutant(token) ==
  /\ pairing' = [token |-> token, paired |-> FALSE] /\ queue' = <<>>
  /\ waiter' = [o \in Ops |-> [waiter[o] EXCEPT !.known = FALSE]]
ResetLocked(token) ==
  /\ pairing' = [token |-> token, paired |-> FALSE] /\ queue' = <<>>
  /\ waiter' = [o \in Ops |->
       LET told == waiter[o].known /\ waiter[o].slot = "empty"
       IN [slot |-> IF told THEN "failed" ELSE waiter[o].slot, known |-> FALSE]]

(* BeginLogin: OpenLogin makes a token and resets the bridge; the login is listed,
   and the browser gets the token that counts by then.  Without one, or where its
   request has ended, the browser never learns of the login.  CancelLogin resets the
   bridge whichever login it names. *)
BeginLogin(n) ==
  \/ /\ signIn[n] = "new" /\ \A m \in 1..(n - 1) : signIn[m] # "new"
     /\ ResetLocked(n) /\ signIn' = [signIn EXCEPT ![n] = "opened"] /\ UNCHANGED handed
  \/ /\ signIn[n] = "opened" /\ UNCHANGED bridgeVars
     /\ \/ signIn' = [signIn EXCEPT ![n] = "gone"] /\ UNCHANGED handed
        \/ /\ pairing.token # 0 /\ handed' = handed \cup {pairing.token}
           /\ signIn' = [signIn EXCEPT ![n] = "listed"]
CancelLogin(n) ==
  /\ signIn[n] \notin {"new", "opened"} /\ signIn' = [signIn EXCEPT ![n] = "gone"]
  /\ ResetLocked(0) /\ UNCHANGED handed
Expire(n) ==
  /\ signIn[n] = "listed" /\ signIn' = [signIn EXCEPT ![n] = "expired"]
  /\ UNCHANGED <<bridgeVars, handed>>

\* PollLogin asks whether the user is signed in to Claude, unless the login is over.
PollLogin(o, n) ==
  /\ work[o].at = "idle"
  /\ CASE signIn[n] = "listed" ->
            /\ work' = [work EXCEPT ![o] = [what |-> "poll", about |-> n, at |-> "send"]]
            /\ UNCHANGED <<bridgeVars, signIn>>
       [] signIn[n] = "expired" -> Ends(o) /\ ResetLocked(0) /\ signIn' = [signIn EXCEPT ![n] = "gone"]
       [] OTHER -> Ends(o) /\ UNCHANGED <<bridgeVars, signIn>>

-----------------------------------------------------------------------------
(* send: the waiter is known before the command can be taken.  Whoever waits is
   woken by its slot or by the end of its request. *)
Send(o) ==
  /\ work[o].at = "send"
  /\ IF pairing.paired
     THEN /\ waiter' = [waiter EXCEPT ![o] = [slot |-> "empty", known |-> TRUE]]
          /\ queue' = Append(queue, o) /\ Goes(o, "wait")
     ELSE Ends(o) /\ UNCHANGED <<waiter, queue>>
  /\ UNCHANGED pairing
Wait(o) ==
  /\ work[o].at = "wait" /\ waiter' = [waiter EXCEPT ![o] = NoWaiter] /\ UNCHANGED <<pairing, queue>>
  \* Cancelled, an error, not signed in, or an answer that cannot be used.
  /\ \/ Ends(o)
     \/ waiter[o].slot = "good" /\ work[o].what # "turn" /\ Goes(o, "save")

\* The tab: it pairs, takes the next command, and brings the result of one it took.
Pair(token) ==
  /\ token \in handed /\ token = pairing.token /\ pairing' = [pairing EXCEPT !.paired = TRUE]
  /\ UNCHANGED <<queue, waiter, carried>>
Poll(token) ==
  /\ token \in handed /\ token = pairing.token /\ pairing' = [pairing EXCEPT !.paired = TRUE]
  /\ queue # <<>> /\ queue' = Tail(queue)
  /\ carried' = carried \cup {[of |-> Head(queue), token |-> token]}
  /\ UNCHANGED waiter
Accept(command) ==
  /\ command \in carried /\ carried' = carried \ {command}
  /\ \E result \in {"failed", "good"} :
       waiter' = IF command.token = pairing.token /\ waiter[command.of] = [slot |-> "empty", known |-> TRUE]
                 THEN [waiter EXCEPT ![command.of].slot = result] ELSE waiter
  /\ UNCHANGED <<pairing, queue>>

-----------------------------------------------------------------------------
(* PollLogin and Refresh, answered: the configuration is saved as connected, for
   Refresh as it was read before the question.  A login then puts the provider and is
   over; both end in Status. *)
Saves(value, ok) == ok = ~env.full /\ connected' = IF ok THEN value ELSE connected
Save(o) ==
  /\ At(o, {"poll", "refresh"}, "save")
  /\ \E ok \in BOOLEAN :
       /\ Saves(TRUE, ok)
       /\ IF ~ok THEN Ends(o) ELSE Goes(o, IF work[o].what = "poll" THEN "keep" ELSE "status")

\* syncProvider: another provider with the name is an error, and so is a registry that cannot be written.
SyncProvider(ok) ==
  \/ ~ok /\ ~(Readable /\ Loaded.defs["mine"] \in {"absent", "account"}) /\ Look
  \/ /\ Readable /\ Loaded.defs["mine"] \in {"absent", "account"}
     /\ PutDefinition("mine", "account", ok)
Keep(o) ==
  /\ At(o, {"poll"}, "keep")
  /\ \E ok \in BOOLEAN :
       /\ SyncProvider(ok)
       /\ IF ok THEN Goes(o, "status") /\ signIn' = [signIn EXCEPT ![work[o].about] = "gone"]
                ELSE Ends(o) /\ UNCHANGED signIn

\* Status, Configure and DiscoverModels: the registry is made to agree with the configuration.
Status(o) ==
  \/ /\ work[o].at \in {"idle", "status"} /\ UNCHANGED registryVars
     /\ Goes(o, IF connected THEN "sync" ELSE "remove")
  \/ work[o].at = "sync" /\ (\E ok \in BOOLEAN : SyncProvider(ok)) /\ Ends(o)
  \/ work[o].at = "remove" /\ RemoveManaged /\ Ends(o)

\* ResolveCredential: there is no secret, only a sentinel for a provider that is signed in.
Resolves == connected /\ Readable /\ Loaded.defs["mine"] = "account"

(* Refresh and CompleteModelTurn of an account that is signed in ask the tab; a turn
   whose credential does not resolve is never asked for. *)
Refresh(o) == connected /\ Begins(o, "refresh", "send") /\ UNCHANGED registryVars
CompleteModelTurn(o) == Resolves /\ Look /\ Begins(o, "turn", "send")

(* Disconnect: the logins are forgotten, the bridge is reset, the configuration is
   saved, the provider is removed. *)
Disconnect(o) ==
  \/ /\ Begins(o, "disconnect", "forget")
     /\ signIn' = [n \in Tokens |-> IF signIn[n] \in {"listed", "expired"} THEN "gone" ELSE signIn[n]]
     /\ UNCHANGED <<bridgeVars, connected>>
  \/ /\ At(o, {"disconnect"}, "forget") /\ ResetLocked(0) /\ Goes(o, "save")
     /\ UNCHANGED <<connected, signIn>>
  \/ /\ At(o, {"disconnect"}, "save")
     /\ \E ok \in BOOLEAN : Saves(FALSE, ok) /\ IF ok THEN Goes(o, "remove") ELSE Ends(o)
     /\ UNCHANGED <<bridgeVars, signIn>>

Next ==
  \/ /\ UNCHANGED <<connected, registryVars, vault, env>>
     /\ \/ /\ UNCHANGED work /\ UNCHANGED carried
           /\ \E n \in Tokens : BeginLogin(n) \/ CancelLogin(n) \/ Expire(n)
        \/ /\ UNCHANGED <<carried, handed>>
           /\ \E o \in Ops, n \in Tokens : PollLogin(o, n)
        \/ /\ UNCHANGED <<carried, handed, signIn>>
           /\ \E o \in Ops : Send(o) \/ Wait(o)
        \/ /\ UNCHANGED <<handed, signIn, work>>
           /\ \/ \E token \in Tokens : Pair(token) \/ Poll(token)
              \/ \E command \in carried : Accept(command)
  \/ /\ UNCHANGED <<bridgeVars, carried, handed, vault, env>>
     /\ \E o \in Ops :
          \/ Save(o) /\ UNCHANGED <<registryVars, signIn>>
          \/ Keep(o) /\ UNCHANGED connected
          \/ UNCHANGED <<connected, signIn>> /\ (Status(o) \/ Refresh(o) \/ CompleteModelTurn(o))
  \/ /\ UNCHANGED <<carried, handed, registryVars, vault, env>>
     /\ \E o \in Ops : Disconnect(o)
  \/ UNCHANGED claudeWeb /\ (Trouble \/ Recovery)

(* A call that waits for the browser can still be answered: what it asked is queued,
   or was taken by a tab whose token counts.  A sign-in, a cancellation, an expiry or a
   sign-out that replaces the token answers every other call (resetLocked). *)
NoWaiterIsForgotten ==
  \A o \in Ops : work[o].at = "wait" /\ waiter[o].slot = "empty" =>
    /\ waiter[o].known
    /\ \/ \E i \in 1..Len(queue) : queue[i] = o
       \/ [of |-> o, token |-> pairing.token] \in carried
=============================================================================
