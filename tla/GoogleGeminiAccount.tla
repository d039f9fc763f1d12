------------------------- MODULE GoogleGeminiAccount -------------------------
(* The account adapter of Google Gemini (provider_account_gemini.go).  Much of its
   code is that of the adapter of Hugging Face, H here; what it has of its own is
   the setup, without which nothing is asked of Google, a listener on a port of its
   own for the callback of each login, and the revocation of tokens. *)
EXTENDS ProviderAccounts

H == INSTANCE HuggingFaceAccount

VARIABLES configured,   \* whether the client and project are known
          setupFile,    \* google-gemini.json: whether it says them
          listening     \* the logins whose loopback listener is open

gemini == <<configured, setupFile, listening>>
setup == <<configured, setupFile>>

GeminiTypeOK == configured \in BOOLEAN /\ setupFile \in BOOLEAN /\ listening \subseteq Logins
GeminiInit == setupFile \in BOOLEAN /\ configured = setupFile /\ listening = {}

\* loadGoogleGeminiSetupConfig, when the adapter is made: what cannot be read counts as nothing.
Load == configured' = setupFile

(* saveGoogleGeminiSetupConfig: renamed into place; only where the file is written
   directly may a failure leave it unreadable. *)
SaveSetup(ok) ==
  \/ ok /\ ~env.full /\ setupFile' = TRUE
  \/ ~ok /\ env.full /\ setupFile' \in {setupFile, FALSE}

\* Configure, and where that is saved the status.
Configure(o) ==
  /\ \/ Calls(o, "status", "First", "") /\ SaveSetup(TRUE) /\ configured' = TRUE
     \/ Refuses(o) /\ SaveSetup(FALSE) /\ UNCHANGED configured
  /\ UNCHANGED <<store, login, server, mishap, restarts, listening>>

-----------------------------------------------------------------------------
(* startLoopbackCallback: the listener serves the callback of one login.  It is
   shut down when that login is over, and when its time is up; where it stops by
   itself, that is the end of the login too. *)
StartLoopbackCallback(l) == listening' = listening \cup {l}
TimeIsUp(l) == Expire(l) /\ listening' = listening \ {l} /\ UNCHANGED setup
ListenerFails(l) ==
  /\ l \in listening /\ H!SetLoginError(l) /\ listening' = listening \ {l}
  /\ UNCHANGED <<store, call, server, mishap, restarts, setup>>

\* shutdownGoogleGeminiCallbackServer, where a call about a login is over.
ShutsWhenOver(o, l) ==
  /\ listening' = IF call'[o].at = "done" THEN listening \ {l} ELSE listening
  /\ UNCHANGED setup

BeginLogin(l) == configured /\ H!BeginLogin(l) /\ StartLoopbackCallback(l) /\ UNCHANGED setup

\* The listener and the common route of all accounts take the callback alike.
CompleteLogin(o, l) == H!CompleteLogin(o, l) /\ ShutsWhenOver(o, l)
ExchangeAuthorizationCode(o) == H!ExchangeAuthorizationCode(o) /\ ShutsWhenOver(o, call[o].login)
SaveLogin(o) == call[o].what = "login" /\ H!SaveCredential(o) /\ ShutsWhenOver(o, call[o].login)
UndoLogin(o) == H!UndoLogin(o) /\ ShutsWhenOver(o, call[o].login)
FinishLogin(o) == H!FinishLogin(o) /\ ShutsWhenOver(o, call[o].login)

CancelLoginMutant(l) == H!CancelLogin(l) /\ UNCHANGED gemini
CancelLogin(l) == H!CancelLogin(l) /\ listening' = listening \ {l} /\ UNCHANGED setup

-----------------------------------------------------------------------------
Refreshable(c) == Usable(c) /\ NeedsRefresh(c) /\ c.refresh # 0

PollLogin(o, l) == H!PollLogin(o, l) /\ UNCHANGED gemini

\* Status asks nothing of Google while no client is configured.
Status(o) ==
  LET c == H!LoadCredential
  IN /\ \/ (configured \/ ~Refreshable(c)) /\ H!Status(o)
        \/ /\ ~configured /\ Refreshable(c)
           /\ call[o].what \in {"status", "poll"} /\ call[o].at = "load"
           /\ Says(o, H!Shown(o, H!StatusFromCredential(c))) /\ Look
           /\ UNCHANGED <<vault, env, login, server, mishap, restarts>>
     /\ UNCHANGED gemini

\* Refresh syncs the models where there is nothing to refresh the token with.
Refresh(o) ==
  LET c == H!LoadCredential
  IN /\ \/ ~(Usable(c) /\ c.refresh = 0) /\ H!Refresh(o)
        \/ /\ Usable(c) /\ c.refresh = 0 /\ At(o, "refresh", "load") /\ GoesWith(o, "sync", c)
           /\ UNCHANGED <<store, login, server, mishap, restarts>>
     /\ UNCHANGED gemini

ResolveCredential(o) == H!ResolveCredential(o) /\ UNCHANGED gemini
RefreshCredential(o) ==
  /\ \/ configured /\ H!RefreshCredential(o)
     \/ /\ ~configured /\ call[o].at = "exchange" /\ H!AfterRefresh(o, FALSE)
        /\ UNCHANGED <<vault, env, login, server, mishap, restarts>>
  /\ UNCHANGED gemini
SaveRefreshed(o) == call[o].what # "login" /\ H!SaveCredential(o) /\ UNCHANGED gemini

\* syncProvider names the project, and needs one.
SyncProvider(o) ==
  /\ \/ configured /\ H!SyncProvider(o)
     \/ /\ ~configured /\ call[o].at = "sync" /\ H!AfterSync(o, FALSE)
        /\ UNCHANGED <<store, login, server, mishap, restarts>>
  /\ UNCHANGED gemini

(* Disconnect has the tokens revoked, whether or not Google answers, and then
   forgets them. *)
Revoke(o) ==
  LET c == H!LoadCredential
  IN /\ At(o, "disconnect", "load") /\ Goes(o, "delete")
     /\ revoked' \in {revoked} \cup (IF Usable(c) THEN {revoked \cup {c.family}} ELSE {})
     /\ UNCHANGED <<store, login, issued, rotates, aged, mishap, restarts, gemini>>
Disconnect(o) == At(o, "disconnect", "delete") /\ H!Forget(o) /\ UNCHANGED gemini
RemoveProvider(o) == H!RemoveProvider(o) /\ UNCHANGED gemini

-----------------------------------------------------------------------------
Next ==
  \/ Surroundings /\ UNCHANGED gemini
  \/ Restart /\ Load /\ listening' = {} /\ UNCHANGED setupFile
  \/ \E l \in Logins : BeginLogin(l) \/ CancelLogin(l) \/ TimeIsUp(l) \/ ListenerFails(l)
  \/ \E o \in Ops, l \in Logins : CompleteLogin(o, l) \/ PollLogin(o, l)
  \/ \E o \in Ops :
       \/ Requests(o, {"status", "refresh", "resolve", "discover", "disconnect"}) /\ UNCHANGED gemini
       \/ Configure(o) \/ ExchangeAuthorizationCode(o) \/ SaveLogin(o) \/ SyncProvider(o)
       \/ UndoLogin(o) \/ FinishLogin(o) \/ Status(o) \/ Refresh(o) \/ ResolveCredential(o)
       \/ RefreshCredential(o) \/ SaveRefreshed(o) \/ Revoke(o) \/ Disconnect(o) \/ RemoveProvider(o)

(* The temporary listener of a login is shut down after completion, cancellation
   or expiry (docs/ARCHITECTURE.md:101), by every way a login may end. *)
NoStrayListener == \A l \in listening : login[l].known /\ ~login[l].expired
=============================================================================
