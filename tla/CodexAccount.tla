---------------------------- MODULE CodexAccount ----------------------------
(* The account adapter of ChatGPT (provider_account_chatgpt.go) over OpenAI's Codex
   app server, a process that is spoken to on its standard input and output
   (codex_chatgpt_bridge.go).  Codex keeps the tokens; TL Studio keeps a managed
   provider, the user's name and the path of the executable.

   Each login has an app server of its own.  When its account is synchronised that
   server becomes the bridge, which the model turns of all runs share; the other
   calls start one and close it.  bridgeMu is held for a whole turn. *)
EXTENDS ProviderStore, Sequences

CONSTANTS Logins, Ops,
          MaxServers, NotifyCap         \* app servers; slots for notifications (64 in the code)

None == "none"
Servers == 1..MaxServers
Commands == {"path", "custom"}          \* codex as it is found, or where the user says it is
Tasks == {"status", "configure", "poll", "refresh", "discover", "disconnect", "turn"}

VARIABLES
  server,     \* the app servers: at, command, what they notified and nobody received
  bridge,     \* bridgeMu and bridgeServer
  entry,      \* logins: the transactions, and whether watchLogin still runs
  task,       \* the calls: what, how far, with which server, about which login
  setup,      \* chatgpt-codex.json and the path: executable, email; whether codex is found
  turn,       \* external: what the app server of each turn does about it
  signedIn    \* external: whether Codex is signed in

codex == <<server, bridge, entry, task, setup, turn, signedIn>>

Stages == {"idle", "reset", "start", "ask", "sync", "save", "handover", "forget",
           "lock", "thread", "turn", "collect", "done"}
NewEntry == [at |-> "new", server |-> 0, completed |-> FALSE, synced |-> FALSE, err |-> FALSE,
             expired |-> FALSE, watched |-> FALSE, told |-> FALSE]
IdleTask == [what |-> "status", at |-> "idle", server |-> 0, login |-> None, answer |-> None]
NoTurn == [server |-> 0, at |-> "none"]
Notes == [kind : {"login", "failedLogin", "item", "turn", "failedTurn"}, of : Logins \cup Ops]

CodexTypeOK ==
  /\ \A s \in Servers : /\ server[s].at \in {"none", "up", "closed"}
                        /\ server[s].command \in Commands \cup {None}
                        /\ server[s].notes \in Seq(Notes) /\ Len(server[s].notes) <= NotifyCap
  /\ bridge \in [mu : Ops \cup {None}, server : {0} \cup Servers]
  /\ entry \in [Logins -> [at : {"new", "reset", "start", "ask", "listed", "cancel", "gone"},
                           server : {0} \cup Servers, completed : BOOLEAN, synced : BOOLEAN,
                           err : BOOLEAN, expired : BOOLEAN, watched : BOOLEAN, told : BOOLEAN]]
  /\ task \in [Ops -> [what : Tasks, at : Stages, server : {0} \cup Servers,
                       login : Logins \cup {None}, answer : Ops \cup {None}]]
  /\ setup \in [executable : {None, "custom"}, email : BOOLEAN, found : BOOLEAN]
  /\ turn \in [Ops -> [server : {0} \cup Servers, at : {"none", "running", "spoke"}]]
  /\ signedIn \in BOOLEAN
  \* A turn is under way exactly while bridgeMu is held.
  /\ bridge.mu # None => task[bridge.mu].at \in {"thread", "turn", "collect"}

CodexInit ==
  /\ server = [s \in Servers |-> [at |-> "none", command |-> None, notes |-> <<>>]]
  /\ bridge = [mu |-> None, server |-> 0]
  /\ entry = [l \in Logins |-> NewEntry] /\ task = [o \in Ops |-> IdleTask]
  /\ setup \in [executable : {None}, email : {registryFile["mine"] = "account"}, found : BOOLEAN]
  /\ turn = [o \in Ops |-> NoTurn] /\ signedIn = setup.email

-----------------------------------------------------------------------------
\* resolveCommand: what the user configured, or codex or npx where they are found.
ResolveCommand == CASE setup.executable = "custom" -> "custom" [] setup.found -> "path" [] OTHER -> None

Up(s) == s # 0 /\ server[s].at = "up"
(* Close and closeWithError: every request and turn that waits for it gets an error;
   what it notified before may still be received. *)
Closed(s) == IF Up(s) THEN [server EXCEPT ![s].at = "closed"] ELSE server

(* startCodexAppServer: one that is not initialised in time is closed before
   anybody hears of it.  Numbers are taken in order. *)
Starts(s, old) ==
  /\ ResolveCommand # None /\ old[s].at = "none" /\ \A t \in 1..(s - 1) : old[t].at # "none"
  /\ server' = [old EXCEPT ![s] = [at |-> "up", command |-> ResolveCommand, notes |-> <<>>]]

(* request: an answer where the process lives; an error, the end of the process or
   the caller's deadline at any time. *)
Answers(s, ok) == ok => Up(s)

\* readLoop: what finds the slots full is dropped.
Notified(s, note) ==
  IF Len(server[s].notes) < NotifyCap THEN [server EXCEPT ![s].notes = Append(@, note)] ELSE server

\* The process ends by itself.
Exit(s) == Up(s) /\ server' = Closed(s) /\ UNCHANGED <<store, bridge, entry, task, setup, turn, signedIn>>

Goes(o, at) == task' = [task EXCEPT ![o].at = at]
GoesWith(o, at, s) == task' = [task EXCEPT ![o].at = at, ![o].server = s]
Says(o) == task' = [task EXCEPT ![o] = [IdleTask EXCEPT !.at = "done"]]
Begins(o, what, at) ==
  task[o].at = "idle" /\ task' = [task EXCEPT ![o] = [IdleTask EXCEPT !.what = what, !.at = at]]
Ends(o) == task[o].at = "idle" /\ Says(o)
At(o, whats, at) == task[o].what \in whats /\ task[o].at = at

(* saveChatGPTCodexConfig renames a temporary file into place: all or nothing. *)
SaveConfig(new, ok) == ok = ~env.full /\ setup' = IF ok THEN new ELSE setup

ResetBridge == bridge.mu = None /\ server' = Closed(bridge.server) /\ bridge' = [bridge EXCEPT !.server = 0]
-----------------------------------------------------------------------------
(* BeginLogin: the bridge is closed, a server started, the login started on it and
   the transaction listed and watched. *)
BeginLogin(l) ==
  \/ /\ entry[l].at = "new" /\ entry' = [entry EXCEPT ![l].at = "reset"] /\ UNCHANGED <<server, bridge>>
  \/ /\ entry[l].at = "reset" /\ ResetBridge
     /\ entry' = [entry EXCEPT ![l].at = IF ResolveCommand = None THEN "gone" ELSE "start"]
  \/ /\ entry[l].at = "start" /\ UNCHANGED bridge
     /\ \/ entry' = [entry EXCEPT ![l].at = "gone"] /\ UNCHANGED server
        \/ \E s \in Servers : Starts(s, server) /\ entry' = [entry EXCEPT ![l].at = "ask", ![l].server = s]
  \/ /\ entry[l].at = "ask" /\ UNCHANGED bridge
     /\ \E ok \in BOOLEAN :
          /\ Answers(entry[l].server, ok)
          /\ IF ok THEN entry' = [entry EXCEPT ![l].at = "listed", ![l].watched = TRUE] /\ UNCHANGED server
                   ELSE entry' = [entry EXCEPT ![l].at = "gone"] /\ server' = Closed(entry[l].server)

(* watchLogin, a goroutine: it ends with the notification of its login, with its
   server, or when the time is up. *)
WatchLogin(l) ==
  LET e == entry[l]
      listed == e.at = "listed"
      ends(c, err) == entry' = [entry EXCEPT ![l].watched = FALSE, ![l].completed = c, ![l].err = err]
  IN /\ e.watched
     /\ \/ /\ server[e.server].notes # <<>>
           /\ LET ok == Head(server[e.server].notes).kind = "login"
              IN ends(listed /\ ok, listed /\ ~ok)
           /\ server' = [server EXCEPT ![e.server].notes = Tail(@)]
        \/ ~Up(e.server) /\ ends(e.completed, e.err \/ (listed /\ ~e.completed)) /\ UNCHANGED server
        \/ e.expired /\ ends(e.completed, e.err \/ (listed /\ ~e.completed)) /\ server' = Closed(e.server)

(* PollLogin reads the transaction; the account of one that is completed is
   synchronised, by every poll that finds it so. *)
PollLogin(o, l) ==
  LET e == entry[l] IN
  /\ task[o].at = "idle"
  /\ IF e.at = "listed" /\ ~e.err /\ e.completed /\ ~e.synced
     THEN /\ task' = [task EXCEPT ![o] = [what |-> "poll", at |-> "sync", server |-> e.server, login |-> l, answer |-> None]]
          /\ UNCHANGED server
     ELSE /\ Ends(o)
          /\ server' = IF e.at = "listed" /\ ~e.err /\ e.expired /\ ~e.completed THEN Closed(e.server) ELSE server

\* CancelLogin: forgotten first, cancelled and closed after that.
CancelLogin(l) ==
  \/ entry[l].at = "listed" /\ entry' = [entry EXCEPT ![l].at = "cancel"] /\ UNCHANGED server
  \/ /\ entry[l].at = "cancel" /\ entry' = [entry EXCEPT ![l].at = "gone"] /\ server' = Closed(entry[l].server)

-----------------------------------------------------------------------------
\* Status: the registry is not read where there is no Codex.
ReadStatus == IF ResolveCommand = None THEN UNCHANGED registryVars ELSE Look

(* Refresh, DiscoverModels and Disconnect: the bridge is closed, a server started,
   Codex asked whether it is signed in, or to sign out. *)
Reset(o) ==
  /\ At(o, {"refresh", "disconnect", "configure"}, "reset") /\ ResetBridge
  /\ IF task[o].what = "configure" THEN Says(o) /\ ReadStatus ELSE Goes(o, "start") /\ UNCHANGED registryVars
Start(o) ==
  /\ At(o, {"refresh", "disconnect", "discover"}, "start")
  /\ \/ /\ IF task[o].what = "disconnect" THEN Goes(o, "forget") ELSE Says(o)
        /\ UNCHANGED server
     \/ \E s \in Servers : Starts(s, server) /\ GoesWith(o, IF task[o].what = "discover" THEN "sync" ELSE "ask", s)
ReadAccount(o) ==
  /\ At(o, {"refresh"}, "ask")
  /\ \/ Answers(task[o].server, TRUE) /\ signedIn /\ Goes(o, "sync") /\ UNCHANGED server
     \/ Says(o) /\ server' = Closed(task[o].server)
Logout(o) ==
  /\ At(o, {"disconnect"}, "ask")
  /\ \E ok \in BOOLEAN : Answers(task[o].server, ok) /\ signedIn' = (signedIn /\ ~ok)
  /\ GoesWith(o, "forget", 0) /\ server' = Closed(task[o].server)
Forget(o) ==
  /\ At(o, {"disconnect"}, "forget") /\ RemoveManaged /\ Says(o)
  /\ \E ok \in BOOLEAN : SaveConfig([setup EXCEPT !.email = FALSE], ok)

\* account/read and every page of model/list.
ListsModels(s) == Answers(s, TRUE) /\ signedIn

(* syncProvider: the account and the models of the server, unless another provider
   has the name; then the provider, then the user's name. *)
SyncFails(o) ==
  /\ server' = Closed(task[o].server) /\ Says(o)
  /\ entry' = [l \in Logins |-> IF l = task[o].login /\ entry[l].at = "listed"
                                THEN [entry[l] EXCEPT !.err = TRUE] ELSE entry[l]]
SyncProvider(o) ==
  LET asked == ListsModels(task[o].server)
      mine == Readable /\ Loaded.defs["mine"] \in {"absent", "account"}
  IN /\ task[o].at = "sync"
     /\ \/ SyncFails(o) /\ UNCHANGED registryVars
        \/ asked /\ ~mine /\ SyncFails(o) /\ Look
        \/ asked /\ mine /\ PutDefinition("mine", "account", TRUE) /\ Goes(o, "save") /\ UNCHANGED <<server, entry>>
        \/ asked /\ mine /\ PutDefinition("mine", "account", FALSE) /\ SyncFails(o)
SaveName(o) ==
  /\ task[o].at = "save"
  /\ \E ok \in BOOLEAN :
       /\ SaveConfig([setup EXCEPT !.email = TRUE], ok)
       /\ CASE ~ok -> SyncFails(o)
            [] ok /\ task[o].what = "poll" ->
                 /\ Goes(o, "handover") /\ UNCHANGED server
                 /\ entry' = [l \in Logins |-> IF l = task[o].login /\ entry[l].at = "listed"
                                               THEN [entry[l] EXCEPT !.synced = TRUE] ELSE entry[l]]
            [] OTHER -> Says(o) /\ server' = Closed(task[o].server) /\ UNCHANGED entry

(* The end of PollLogin: the first server becomes the bridge, another one, or the
   same one a second time, is closed. *)
HandOver(o) ==
  /\ At(o, {"poll"}, "handover") /\ bridge.mu = None /\ Says(o)
  /\ IF Up(bridge.server) THEN server' = Closed(task[o].server) /\ UNCHANGED bridge
                          ELSE bridge' = [bridge EXCEPT !.server = task[o].server] /\ UNCHANGED server

(* Configure: saved, then the bridge is closed.  Status and ResolveCredential only
   read the registry. *)
Configure(o) ==
  \E executable \in {None, "custom"}, ok \in BOOLEAN :
    /\ SaveConfig([setup EXCEPT !.executable = executable], ok)
    /\ IF ok THEN Begins(o, "configure", "reset") ELSE Ends(o)
Status(o) == Ends(o) /\ (ReadStatus \/ Look)

-----------------------------------------------------------------------------
(* completeModelTurn and bridgeServerLocked: the bridge is taken for the turn, or
   replaced where it ended or the executable is another one. *)
TakeBridge(o) ==
  LET good == Up(bridge.server) /\ server[bridge.server].command = ResolveCommand
  IN /\ At(o, {"turn"}, "lock") /\ bridge.mu = None
     /\ \/ good /\ GoesWith(o, "thread", bridge.server) /\ bridge' = [bridge EXCEPT !.mu = o] /\ UNCHANGED server
        \/ ~good /\ Says(o) /\ ResetBridge
        \/ /\ ~good
           /\ \E s \in Servers : /\ Starts(s, Closed(bridge.server)) /\ GoesWith(o, "thread", s)
                                 /\ bridge' = [mu |-> o, server |-> s]

(* A turn that fails leaves a bridge that lives as it is, except where it was
   cancelled while its answer was awaited.  Its thread is unsubscribed, which the
   app server need not hear. *)
Unsubscribe(o) == turn' \in {turn, [turn EXCEPT ![o] = NoTurn]}
TurnFailsMutant(o, reset) ==
  /\ Says(o) /\ Unsubscribe(o)
  /\ LET gone == reset \/ ~Up(task[o].server)
     IN /\ bridge' = [mu |-> bridge.mu, server |-> IF gone THEN 0 ELSE bridge.server]
        /\ server' = IF gone THEN Closed(bridge.server) ELSE server
TurnFails(o, reset) ==
  /\ Says(o) /\ Unsubscribe(o)
  /\ LET gone == reset \/ ~Up(task[o].server)
     IN /\ bridge' = [mu |-> None, server |-> IF gone THEN 0 ELSE bridge.server]
        /\ server' = IF gone THEN Closed(bridge.server) ELSE server

StartThread(o) ==
  /\ At(o, {"turn"}, "thread")
  /\ \/ Answers(task[o].server, TRUE) /\ Goes(o, "turn") /\ UNCHANGED <<server, bridge, turn>>
     \/ TurnFails(o, FALSE)
\* turn/start: the app server may have begun although its answer never came.
StartTurn(o) ==
  LET begun == [turn EXCEPT ![o] = [server |-> task[o].server, at |-> "running"]]
  IN /\ At(o, {"turn"}, "turn")
     /\ \/ Answers(task[o].server, TRUE) /\ Goes(o, "collect") /\ turn' = begun /\ UNCHANGED <<server, bridge>>
        \/ TurnFails(o, FALSE)
        \/ /\ Up(task[o].server) /\ Says(o) /\ turn' = begun
           /\ bridge' = [bridge EXCEPT !.mu = None] /\ UNCHANGED server

(* What the run gets: the text and the tool calls of a turn that is completed; an
   error for a turn that failed, a text that is too long, and an answer that is
   empty or calls a tool nobody has. *)
CodexBridgeResponse(o, note) ==
  Says(o) \/ (note.kind = "turn" /\ task[o].answer # None /\ GoesWith(o, "done", 0))

(* collectCodexStructuredTurn receives what the server notifies until the turn is
   over; what is about another thread or turn is dropped. *)
OfTurnMutant(note, o) == note.of \in Ops
OfTurn(note, o) == note.of = o
Collect(o) ==
  LET s == task[o].server
      note == Head(server[s].notes)
      rest == [server EXCEPT ![s].notes = Tail(@)]
  IN /\ At(o, {"turn"}, "collect")
     /\ \/ TurnFails(o, TRUE)                            \* cancelled, or its time is up
        \/ ~Up(s) /\ TurnFails(o, FALSE)
        \/ /\ server[s].notes # <<>> /\ server' = rest
           /\ \/ ~OfTurn(note, o) /\ UNCHANGED <<bridge, turn, task>>
              \/ /\ OfTurn(note, o) /\ note.kind = "item" /\ UNCHANGED <<bridge, turn>>
                 /\ task' = [task EXCEPT ![o].answer = note.of]
              \/ /\ OfTurn(note, o) /\ CodexBridgeResponse(o, note)
                 /\ Unsubscribe(o) /\ bridge' = [bridge EXCEPT !.mu = None]

\* External: the app server works on a turn, and tells how a login went.
Work(o) ==
  LET s == turn[o].server
      told == IF turn[o].at = "running" THEN {"item", "failedTurn"} ELSE {"turn", "failedTurn"}
  IN /\ Up(s) /\ turn[o].at \in {"running", "spoke"}
     /\ \E kind \in told : /\ server' = Notified(s, [kind |-> kind, of |-> o])
                           /\ turn' = [turn EXCEPT ![o] = IF kind = "item" THEN [@ EXCEPT !.at = "spoke"] ELSE NoTurn]
Authorize(l) ==
  /\ entry[l].at \in {"listed", "cancel"} /\ ~entry[l].told /\ Up(entry[l].server)
  /\ entry' = [entry EXCEPT ![l].told = TRUE]
  /\ \E kind \in {"login", "failedLogin"} :
       /\ signedIn' = (signedIn \/ kind = "login")
       /\ server' = Notified(entry[l].server, [kind |-> kind, of |-> l])
Expire(l) == entry[l].at = "listed" /\ ~entry[l].expired /\ entry' = [entry EXCEPT ![l].expired = TRUE]

Next ==
  \/ Trouble /\ UNCHANGED codex         \* the disk fills up, and stays full
  \/ \E s \in Servers : Exit(s)
  \/ \E l \in Logins :
       \/ BeginLogin(l) /\ UNCHANGED <<store, task, setup, turn, signedIn>>
       \/ (WatchLogin(l) \/ CancelLogin(l)) /\ UNCHANGED <<store, bridge, task, setup, turn, signedIn>>
       \/ Expire(l) /\ UNCHANGED <<store, server, bridge, task, setup, turn, signedIn>>
       \/ Authorize(l) /\ UNCHANGED <<store, bridge, task, setup, turn>>
  \/ \E o \in Ops, l \in Logins : PollLogin(o, l) /\ UNCHANGED <<store, bridge, entry, setup, turn, signedIn>>
  \/ \E o \in Ops :
       \/ /\ \/ \E what \in {"refresh", "disconnect"} : Begins(o, what, "reset")
             \/ Begins(o, "discover", "start")
             \/ IF ResolveCommand = None THEN Ends(o) ELSE Begins(o, "turn", "lock")
          /\ UNCHANGED <<store, server, bridge, entry, setup, turn, signedIn>>
       \/ Reset(o) /\ UNCHANGED <<vault, env, entry, setup, turn, signedIn>>
       \/ (Start(o) \/ ReadAccount(o)) /\ UNCHANGED <<store, bridge, entry, setup, turn, signedIn>>
       \/ Logout(o) /\ UNCHANGED <<store, bridge, entry, setup, turn>>
       \/ Forget(o) /\ UNCHANGED <<vault, env, server, bridge, entry, turn, signedIn>>
       \/ SyncProvider(o) /\ UNCHANGED <<vault, env, bridge, setup, turn, signedIn>>
       \/ SaveName(o) /\ UNCHANGED <<store, bridge, turn, signedIn>>
       \/ HandOver(o) /\ UNCHANGED <<store, entry, setup, turn, signedIn>>
       \/ Configure(o) /\ UNCHANGED <<store, server, bridge, entry, turn, signedIn>>
       \/ Status(o) /\ UNCHANGED <<vault, env, server, bridge, entry, setup, turn, signedIn>>
       \/ TakeBridge(o) /\ UNCHANGED <<store, entry, setup, turn, signedIn>>
       \/ (StartThread(o) \/ StartTurn(o) \/ Collect(o)) /\ UNCHANGED <<store, entry, setup, signedIn>>
       \/ Work(o) /\ UNCHANGED <<store, bridge, entry, task, setup, signedIn>>

-----------------------------------------------------------------------------
(* No app server is left running that nobody will close: a live one is the bridge,
   belongs to a login that the user may still cancel, or is in the hands of a call. *)
NoStrayServer ==
  \A s \in Servers : Up(s) =>
    \/ bridge.server = s
    \/ \E l \in Logins : entry[l].server = s /\ entry[l].at # "gone" /\ ~entry[l].synced
    \/ \E o \in Ops : task[o].server = s

(* Turns of different runs share the bridge one after the other, and what the app
   server still says about an earlier turn arrives during a later one: the answer a
   run gets is that of its own turn. *)
AnswersOwnTurn == \A o \in Ops : task[o].answer \in {o, None}
=============================================================================
