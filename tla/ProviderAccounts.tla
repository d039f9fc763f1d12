-------------------------- MODULE ProviderAccounts --------------------------
(* What the OAuth account adapters of TL Studio have in common: their logins, the
   calls of their interface that are under way (provider_account_auth.go), the
   credentials they keep (provider_account_credential.go), and the account server
   on the other side.  HuggingFaceAccount, GoogleGeminiAccount and
   OpenRouterAccount say what each adapter does.

   No adapter holds a lock while it talks to the server or to the vault, so that
   calls of one adapter interleave at those points.  A call is made once: an Op is
   one request of the browser or of an Agent run. *)
EXTENDS ProviderStore

CONSTANTS Logins, Ops,
          MaxTokens, MaxRestarts                                \* bounds

(* A family of tokens is what one approval of the user gave; "First" is the one
   of the account that was connected when the program started.  A credential
   carries the numbers of its access and refresh token; refresh 0 is none. *)
Families == Logins \cup {"First"}
Credentials == [family : Families, access : 1..MaxTokens, refresh : 0..MaxTokens]
NoTokens == [access |-> 0, refresh |-> 0]

VARIABLES
  login,      \* the transactions: logins, and byState as the flag known
  call,       \* the calls: what, how far, for which login, with which credential
  issued,     \* the server: the newest tokens of each family
  revoked,    \* the server: the families that no longer count
  rotates,    \* the server: whether a refresh token is replaced when it is used
  aged,       \* of each family, the last access token that is (almost) expired
  mishap,     \* history: how the program may have lost the newest refresh token
  restarts

accounts == <<login, call, issued, revoked, rotates, aged, mishap, restarts>>
server == <<issued, revoked, rotates, aged>>

Whats == {"login", "status", "poll", "refresh", "resolve", "discover", "disconnect", "configure"}
Stages == {"idle", "load", "redeem", "save", "sync", "undo", "mark", "exchange", "revoke",
           "delete", "remove", "done"}
NewLogin == [at |-> "new", known |-> FALSE, completed |-> FALSE, err |-> FALSE, expired |-> FALSE]
Idle == [what |-> "status", at |-> "idle", login |-> "First", saw |-> "", cred |-> Nothing,
         connected |-> FALSE]

AccountsTypeOK ==
  /\ StoreTypeOK(Credentials)
  /\ login \in [Logins -> [at : {"new", "listed", "gone"}, known : BOOLEAN,
                           completed : BOOLEAN, err : BOOLEAN, expired : BOOLEAN]]
  /\ call \in [Ops -> [what : Whats, at : Stages, login : Families, saw : {"", "error", "completed", "open"},
                       cred : Credentials \cup {Nothing, Broken}, connected : BOOLEAN]]
  /\ issued \in [Families -> [access : 0..MaxTokens, refresh : 0..MaxTokens]]
  /\ revoked \subseteq Families /\ rotates \in BOOLEAN
  /\ aged \in [Families -> 0..MaxTokens]
  /\ mishap \subseteq {"unsaved", "stale"} /\ restarts \in 0..MaxRestarts

(* An account that is connected, with this definition of its provider, or not; what
   is connected is in the keyring, or in the encrypted file where there is none. *)
AccountsInit(definition, refreshTokens) ==
  /\ platform \in Platforms
  /\ \E first \in {Nothing} \cup [family : {"First"}, access : {1}, refresh : refreshTokens] :
       LET slots == [s \in Slots |-> IF s = "account" THEN first ELSE Nothing]
           empty == [s \in Slots |-> Nothing]
       IN /\ keyring = (IF platform = "bare" THEN empty ELSE slots)
          /\ secretFile = (IF platform = "bare" THEN slots ELSE empty)
          /\ masterKey = (IF platform = "bare" /\ first # Nothing THEN "good" ELSE "none")
          /\ registryFile = [i \in Ids |-> IF i = "other" THEN "legacy"
                             ELSE IF first = Nothing THEN "absent" ELSE definition]
          /\ issued = [f \in Families |-> IF f = "First" /\ first # Nothing
                         THEN [access |-> 1, refresh |-> first.refresh] ELSE NoTokens]
  /\ registry = [loaded |-> FALSE, defs |-> NoDefinitions]
  /\ migrating = Nothing
  /\ env = [locked |-> FALSE, full |-> FALSE, faults |-> 0, writes |-> 0]
  /\ login = [l \in Logins |-> NewLogin]
  /\ call = [o \in Ops |-> Idle]
  /\ revoked = {} /\ rotates \in BOOLEAN /\ aged = [f \in Families |-> 0]
  /\ mishap = {} /\ restarts = 0

-----------------------------------------------------------------------------
\* needsRefresh: less than a minute is left, or nothing.
NeedsRefresh(c) == c.access <= aged[c.family]
Usable(c) == c \notin {Nothing, Broken}

\* The steps of a call: it begins, it goes on, it answers.
Begins(o, what, l, at, saw) ==
  /\ call[o].at = "idle"
  /\ call' = [call EXCEPT ![o] = [Idle EXCEPT !.what = what, !.login = l, !.at = at, !.saw = saw]]
Calls(o, what, l, saw) == Begins(o, what, l, "load", saw)
Goes(o, at) == call' = [call EXCEPT ![o].at = at]
GoesWith(o, at, c) == call' = [call EXCEPT ![o].at = at, ![o].cred = c]
At(o, what, at) == call[o].what = what /\ call[o].at = at

(* A call is over with a state for the browser, or with "failed".  What counts there
   is whether it is "connected" (normalizeProviderAccountStatus). *)
Over(state) == [Idle EXCEPT !.at = "done", !.connected = state = "connected"]
Says(o, state) == call' = [call EXCEPT ![o] = Over(state)]
Refuses(o) == call[o].at = "idle" /\ Says(o, "failed")

\* The account server answers a refresh, refuses it, or its answer is lost.
Accepts(c) == c.refresh # 0 /\ c.refresh = issued[c.family].refresh /\ c.family \notin revoked
Renewed(c) == [access |-> issued[c.family].access + 1,
               refresh |-> IF rotates THEN issued[c.family].refresh + 1 ELSE issued[c.family].refresh]
Renews(c) ==
  /\ Accepts(c) /\ issued[c.family].access < MaxTokens
  /\ issued' = [issued EXCEPT ![c.family] = Renewed(c)]
  /\ UNCHANGED <<revoked, rotates, aged>>

(* The server takes an authorization code once, and may give no refresh token. *)
Approves(l, refresh) ==
  /\ issued[l] = NoTokens
  /\ issued' = [issued EXCEPT ![l] = [access |-> 1, refresh |-> refresh]]
  /\ UNCHANGED <<revoked, rotates, aged>>

(* A credential that is put where the keyring still has another one is not found
   again once the keyring answers. *)
Mishap(slot, ok) ==
  mishap' = mishap \cup (IF ok THEN {} ELSE {"unsaved"})
                   \cup (IF keyring'[slot] # Nothing /\ secretFile'[slot] # Nothing
                         THEN {"stale"} ELSE {})

PutAccount(o, ok) == Put("account", call[o].cred, ok) /\ Mishap("account", ok)
DeleteAccount(ok) == /\ Delete("account", ok)
                     /\ mishap' = mishap \cup (IF keyring'["account"] # Nothing THEN {"stale"} ELSE {})

\* A request of the browser, or of a run that needs the credential for its model.
Requests(o, whats) ==
  /\ \E what \in whats : Calls(o, what, "First", "")
  /\ UNCHANGED <<store, login, server, mishap, restarts>>

-----------------------------------------------------------------------------
\* Ten minutes pass, access tokens expire, the user takes the approval back.
Expire(l) ==
  /\ login[l].at # "new" /\ ~login[l].expired
  /\ login' = [login EXCEPT ![l].expired = TRUE]
  /\ UNCHANGED <<store, call, server, mishap, restarts>>
TokensAge(f) ==
  /\ aged[f] < issued[f].access /\ aged' = [aged EXCEPT ![f] = issued[f].access]
  /\ UNCHANGED <<store, login, call, issued, revoked, rotates, mishap, restarts>>

\* The program ends at any moment and starts again; what was on disk is there.
Restart ==
  /\ restarts < MaxRestarts /\ restarts' = restarts + 1
  /\ registry' = [loaded |-> FALSE, defs |-> NoDefinitions] /\ migrating' = Nothing
  /\ login' = [l \in Logins |-> [NewLogin EXCEPT !.at = "gone"]]
  /\ mishap' = mishap \cup (IF \E o \in Ops : call[o].at = "save" THEN {"unsaved"} ELSE {})
  /\ call' = [o \in Ops |-> IF call[o].at = "idle" THEN Idle ELSE Over("failed")]
  /\ UNCHANGED <<vault, registryFile, env, server>>

Surroundings ==
  \/ (Trouble \/ Recovery) /\ UNCHANGED accounts
  \/ \E f \in Families : TokensAge(f)

-----------------------------------------------------------------------------
(* A refresh token is good once where the server replaces it: of the account that
   is connected, the vault has the newest one, or a call that has it is about to
   put it there.  Only a failed save, a lost answer, the end of the program in
   between or a keyring that was locked can lose it. *)
NewestTokenIsKept ==
  LET c == Get("account")
      newest == issued[c.family].refresh
  IN mishap = {} /\ Usable(c) /\ c.family \notin revoked =>
       \/ c.refresh = newest
       \/ \E o \in Ops :
            /\ call[o].at = "save"
            /\ call[o].cred = [c EXCEPT !.access = issued[c.family].access, !.refresh = newest]

(* A login the user cancelled, that was refused or whose time is up is over: no
   callback of the browser begins to exchange a code for it any more, however often
   and late it is called; one that is being served already may go on. *)
DeadLoginsStayDead ==
  [][\A o \in Ops, l \in Logins :
       call[o].at # "redeem" /\ call'[o].at = "redeem" /\ call'[o].login = l
       => login[l].at = "listed" /\ ~login[l].err /\ ~login[l].expired]_<<login, call>>
=============================================================================
