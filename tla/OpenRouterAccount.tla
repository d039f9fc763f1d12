------------------------- MODULE OpenRouterAccount --------------------------
(* The account adapter of OpenRouter (provider_account_openrouter.go).  A sign-in
   gives a key that neither expires nor is refreshed; the provider it puts is an
   ordinary one, which stays when the account is signed out. *)
EXTENDS ProviderAccounts

H == INSTANCE HuggingFaceAccount

BeginLogin(l) == H!BeginLogin(l)
SetLoginError(l) == H!SetLoginError(l)
PollLogin(o, l) == H!PollLogin(o, l)
CancelLogin(l) == H!CancelLogin(l)

(* CompleteLogin in four steps: the callback; the exchange of the code and the
   list of models, where an answer that cannot be read fails the callback but not
   the login; the key; the provider, without which the key is taken back. *)
CompleteLogin(o, l) == H!CompleteLogin(o, l)
ExchangeCode(o) ==
  LET l == call[o].login
      fails == Says(o, "failed") /\ (SetLoginError(l) \/ UNCHANGED login)
      foreign == Readable /\ Loaded.defs["mine"] = "foreign"
  IN /\ At(o, "login", "redeem")
     /\ \/ fails /\ UNCHANGED <<server, registryVars>>
        \/ Approves(l, 0) /\ fails /\ UNCHANGED registryVars
        \/ /\ Approves(l, 0) /\ Look /\ UNCHANGED login
           /\ IF foreign \/ ~Readable THEN Says(o, "failed")
              ELSE GoesWith(o, "save", [family |-> l, access |-> 1, refresh |-> 0])
     /\ UNCHANGED <<vault, env, mishap, restarts>>
SaveKey(o) ==
  /\ At(o, "login", "save")
  /\ \E ok \in BOOLEAN : PutAccount(o, ok) /\ IF ok THEN Goes(o, "sync") ELSE Says(o, "failed")
  /\ UNCHANGED <<registryVars, env, login, server, restarts>>
PutProvider(o) ==
  /\ At(o, "login", "sync")
  /\ \E ok \in BOOLEAN : PutDefinition("mine", "plain", ok) /\ Goes(o, IF ok THEN "mark" ELSE "undo")
  /\ UNCHANGED <<vault, env, login, server, mishap, restarts>>
UndoKey(o) ==
  /\ At(o, "login", "undo") /\ Says(o, "failed")
  /\ \E ok \in BOOLEAN : DeleteAccount(ok)
  /\ UNCHANGED <<registryVars, env, login, server, restarts>>
FinishLogin(o) == H!FinishLogin(o)

\* Status, which is Refresh too: a key is one that is connected.
Status(o) ==
  LET key == Get("account")
      state == IF key = Nothing THEN "disconnected" ELSE "connected"
  IN /\ call[o].what \in {"status", "poll", "refresh"} /\ call[o].at = "load"
     /\ Says(o, IF key = Broken \/ ~Readable THEN "failed" ELSE H!Shown(o, state))
     /\ IF key = Broken THEN UNCHANGED registryVars ELSE Look
     /\ UNCHANGED <<vault, env, login, server, mishap, restarts>>

\* ResolveCredential, and DiscoverModels, which lists the models and keeps nothing.
ResolveCredential(o) ==
  /\ call[o].what \in {"resolve", "discover"} /\ call[o].at = "load"
  /\ \/ Usable(Get("account")) /\ Says(o, "connected")
     \/ (~Usable(Get("account")) \/ call[o].what = "discover") /\ Says(o, "failed")
  /\ UNCHANGED <<store, login, server, mishap, restarts>>

Disconnect(o) ==
  /\ At(o, "disconnect", "load")
  /\ \E ok \in BOOLEAN : DeleteAccount(ok) /\ Says(o, IF ok THEN "disconnected" ELSE "failed")
  /\ UNCHANGED <<registryVars, env, login, server, restarts>>

Next ==
  \/ (Trouble \/ Recovery) /\ UNCHANGED accounts
  \/ Restart
  \/ \E l \in Logins : BeginLogin(l) \/ CancelLogin(l) \/ Expire(l)
  \/ \E o \in Ops, l \in Logins : CompleteLogin(o, l) \/ PollLogin(o, l)
  \/ \E o \in Ops :
       \/ Requests(o, {"status", "refresh", "resolve", "discover", "disconnect"})
       \/ ExchangeCode(o) \/ SaveKey(o) \/ PutProvider(o) \/ UndoKey(o) \/ FinishLogin(o)
       \/ Status(o) \/ ResolveCredential(o) \/ Disconnect(o)
=============================================================================
