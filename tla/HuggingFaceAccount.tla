------------------------- MODULE HuggingFaceAccount -------------------------
(* The account adapter of Hugging Face (provider_account_huggingface.go): sign-in
   with an authorization code, a credential that is refreshed when it is used, and
   the catalog of models as a managed provider of the registry. *)
EXTENDS ProviderAccounts

LoadCredential == Get("account")

StatusFromCredential(c) ==
  CASE ~NeedsRefresh(c) -> "connected"
    [] NeedsRefresh(c) /\ c.refresh # 0 -> "expired"
    [] OTHER -> "needs"

\* What a call does once the credential is good: DiscoverModels goes on to the models.
DiscoverModels(o, c) ==
  IF call[o].what = "discover" THEN GoesWith(o, "sync", c) ELSE Says(o, "connected")

\* A poll shows its login; only of one that is completed it shows the account.
Shown(o, state) ==
  CASE call[o].saw = "error" -> "error"
    [] call[o].saw = "open" -> IF login[call[o].login].expired THEN "expired" ELSE "connecting"
    [] OTHER -> state

AfterRefresh(o, ok) ==
  \/ /\ call[o].what \in {"status", "poll"}
     /\ Says(o, Shown(o, IF ok THEN StatusFromCredential(call[o].cred) ELSE "needs"))
     /\ Look
  \/ /\ call[o].what = "refresh" /\ UNCHANGED registryVars
     /\ IF ok THEN Goes(o, "sync") ELSE Says(o, "failed")
  \/ /\ call[o].what \in {"resolve", "discover"} /\ UNCHANGED registryVars
     /\ IF ok THEN DiscoverModels(o, call[o].cred) ELSE Says(o, "failed")

-----------------------------------------------------------------------------
BeginLogin(l) ==
  /\ login[l].at = "new"
  /\ login' = [login EXCEPT ![l].at = "listed", ![l].known = TRUE]
  /\ UNCHANGED <<store, call, server, mishap, restarts>>

SetLoginErrorMutant(l) == login' = [login EXCEPT ![l].err = login[l].at = "listed"]
SetLoginError(l) ==
  login' = IF login[l].at = "listed" THEN [login EXCEPT ![l].err = TRUE, ![l].known = FALSE]
           ELSE login

(* The callback of the browser.  A state that is not known changes nothing; one
   that is stays known until the login is over, so that it may be called again. *)
CompleteLogin(o, l) ==
  /\ login[l].known
  /\ \/ SetLoginError(l) /\ Refuses(o)      \* expired, rejected or without a code
     \/ ~login[l].expired /\ UNCHANGED login /\ Begins(o, "login", l, "redeem", "")
  /\ UNCHANGED <<store, server, mishap, restarts>>

\* The code is exchanged, and the user's name asked for; either may fail.
ExchangeAuthorizationCode(o) ==
  LET l == call[o].login
      failed == SetLoginError(l) /\ Says(o, "failed")
  IN /\ At(o, "login", "redeem")
     /\ \/ failed /\ UNCHANGED server
        \/ \E refresh \in {0, 1} :
             /\ Approves(l, refresh)
             /\ \/ failed
                \/ /\ GoesWith(o, "save", [family |-> l, access |-> 1, refresh |-> refresh])
                   /\ UNCHANGED login
     /\ UNCHANGED <<store, mishap, restarts>>

\* saveCredential: of a login, where a failure ends it, and of a refresh.
SaveCredential(o) ==
  /\ call[o].at = "save"
  /\ \E ok \in BOOLEAN :
       /\ PutAccount(o, ok)
       /\ \/ /\ call[o].what = "login" /\ UNCHANGED registryVars
             /\ IF ok THEN Goes(o, "sync") /\ UNCHANGED login
                      ELSE Says(o, "failed") /\ SetLoginError(call[o].login)
          \/ call[o].what # "login" /\ AfterRefresh(o, ok) /\ UNCHANGED login
  /\ UNCHANGED <<env, server, restarts>>

\* syncProvider: the models are asked for, and the provider is put.
AfterSync(o, ok) ==
  \/ call[o].what = "login" /\ Goes(o, IF ok THEN "mark" ELSE "undo")
  \/ call[o].what # "login" /\ Says(o, IF ok THEN StatusFromCredential(call[o].cred) ELSE "failed")
SyncProvider(o) ==
  /\ call[o].at = "sync"
  /\ \E ok \in BOOLEAN :
       /\ PutDefinition("mine", "account", ok) \/ (~ok /\ UNCHANGED registryVars)
       /\ AfterSync(o, ok)
  /\ UNCHANGED <<vault, env, login, server, mishap, restarts>>

\* A login that could not be synced takes the credential back, whosever it is by now.
UndoLogin(o) ==
  /\ At(o, "login", "undo") /\ Says(o, "failed")
  /\ \E ok \in BOOLEAN : DeleteAccount(ok)
  /\ SetLoginError(call[o].login)
  /\ UNCHANGED <<registryVars, env, server, restarts>>
FinishLogin(o) ==
  /\ At(o, "login", "mark") /\ Says(o, "connected")
  /\ login' = [login EXCEPT ![call[o].login].completed = TRUE, ![call[o].login].known = FALSE]
  /\ UNCHANGED <<store, server, mishap, restarts>>

CancelLogin(l) ==
  /\ login[l].at = "listed"
  /\ login' = [login EXCEPT ![l].at = "gone", ![l].known = FALSE]
  /\ UNCHANGED <<store, call, server, mishap, restarts>>

-----------------------------------------------------------------------------
\* A poll looks its login up before it asks for the status; a login that is gone is an error.
PollLogin(o, l) ==
  /\ IF login[l].at # "listed" THEN Refuses(o)
     ELSE Calls(o, "poll", l, CASE login[l].err -> "error"
                                [] ~login[l].err /\ login[l].completed -> "completed"
                                [] OTHER -> "open")
  /\ UNCHANGED <<store, login, server, mishap, restarts>>

\* Status: a credential about to expire is refreshed first; a poll puts its own state on top.
Status(o) ==
  LET c == LoadCredential
  IN /\ call[o].what \in {"status", "poll"} /\ call[o].at = "load"
     /\ \/ c = Broken /\ Says(o, "failed") /\ UNCHANGED registryVars
        \/ c = Nothing /\ Says(o, Shown(o, "disconnected")) /\ UNCHANGED registryVars
        \/ /\ Usable(c)
           /\ IF NeedsRefresh(c) /\ c.refresh # 0
              THEN GoesWith(o, "exchange", c) /\ UNCHANGED registryVars
              ELSE Says(o, Shown(o, StatusFromCredential(c))) /\ Look
     /\ UNCHANGED <<vault, env, login, server, mishap, restarts>>

\* Refresh: whatever the age of the token, if it can be refreshed.
Refresh(o) ==
  LET c == LoadCredential
  IN /\ At(o, "refresh", "load")
     /\ \/ ~Usable(c) /\ Says(o, "failed") /\ UNCHANGED registryVars
        \/ Usable(c) /\ c.refresh = 0 /\ Says(o, StatusFromCredential(c)) /\ Look
        \/ Usable(c) /\ c.refresh # 0 /\ GoesWith(o, "exchange", c) /\ UNCHANGED registryVars
     /\ UNCHANGED <<vault, env, login, server, mishap, restarts>>

\* ResolveCredential: for a model of a run, and for DiscoverModels, which syncs afterwards.
ResolveCredential(o) ==
  LET c == LoadCredential
  IN /\ call[o].what \in {"resolve", "discover"} /\ call[o].at = "load"
     /\ \/ ~Usable(c) /\ Says(o, "failed")
        \/ Usable(c) /\ NeedsRefresh(c) /\ c.refresh = 0 /\ Says(o, "failed")
        \/ Usable(c) /\ NeedsRefresh(c) /\ c.refresh # 0 /\ GoesWith(o, "exchange", c)
        \/ Usable(c) /\ ~NeedsRefresh(c) /\ DiscoverModels(o, c)
     /\ UNCHANGED <<store, login, server, mishap, restarts>>

(* refreshCredential asks for new tokens; the refresh token that was used stays the
   one to use where the server sends no other. *)
RefreshCredentialMutant(o) ==
  LET c == call[o].cred
      f == c.family
  IN /\ call[o].at = "exchange"
     /\ \/ Renews(c) /\ GoesWith(o, "save", [c EXCEPT !.access = issued'[f].access,
                                                     !.refresh = IF rotates THEN issued'[f].refresh ELSE 0])
           /\ UNCHANGED <<registryVars, mishap>>
        \/ Renews(c) /\ AfterRefresh(o, FALSE) /\ mishap' = mishap \cup {"unsaved"}
        \/ AfterRefresh(o, FALSE) /\ UNCHANGED <<server, mishap>>
     /\ UNCHANGED <<vault, env, login, restarts>>
RefreshCredential(o) ==
  LET c == call[o].cred
      f == c.family
  IN /\ call[o].at = "exchange"
     /\ \/ Renews(c) /\ GoesWith(o, "save", [c EXCEPT !.access = issued'[f].access,
                                                     !.refresh = issued'[f].refresh])
           /\ UNCHANGED <<registryVars, mishap>>
        \/ Renews(c) /\ AfterRefresh(o, FALSE) /\ mishap' = mishap \cup {"unsaved"}   \* no answer
        \/ AfterRefresh(o, FALSE) /\ UNCHANGED <<server, mishap>>                     \* refused
     /\ UNCHANGED <<vault, env, login, restarts>>

\* Disconnect: the credential, then the provider, if the account manages it.
Forget(o) ==
  /\ \E ok \in BOOLEAN : DeleteAccount(ok) /\ IF ok THEN Goes(o, "remove") ELSE Says(o, "failed")
  /\ UNCHANGED <<registryVars, env, login, server, restarts>>
Disconnect(o) == At(o, "disconnect", "load") /\ Forget(o)
RemoveProvider(o) ==
  /\ At(o, "disconnect", "remove") /\ Says(o, "disconnected") /\ RemoveManaged
  /\ UNCHANGED <<vault, env, login, server, mishap, restarts>>

-----------------------------------------------------------------------------
Next ==
  \/ Surroundings \/ Restart
  \/ \E l \in Logins : BeginLogin(l) \/ CancelLogin(l) \/ Expire(l)
  \/ \E o \in Ops, l \in Logins : CompleteLogin(o, l) \/ PollLogin(o, l)
  \/ \E o \in Ops :
       \/ Requests(o, {"status", "refresh", "resolve", "discover", "disconnect"})
       \/ ExchangeAuthorizationCode(o) \/ SaveCredential(o) \/ SyncProvider(o)
       \/ UndoLogin(o) \/ FinishLogin(o) \/ Status(o) \/ Refresh(o) \/ ResolveCredential(o)
       \/ RefreshCredential(o) \/ Disconnect(o) \/ RemoveProvider(o)
=============================================================================
