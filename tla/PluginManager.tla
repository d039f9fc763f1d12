--------------------------- MODULE PluginManager ---------------------------
(* Plugins that are MCP servers (plugin_manager.go): the store with its file, the
   manager's client per plugin, the settings operations, and the tool calls of
   Agent runs.  Plugins have global scope: one key each, whatever the project.

   The store has a mutex and the manager another; an operation takes them one
   after the other and carries its copy of the plugin between them.  A call to
   the server itself runs outside both.  A client is started and closed inside
   the manager's mutex: McpClient shows what happens within one. *)
EXTENDS Naturals, FiniteSets

CONSTANTS Plugins, Projects, Threads, Clients,
          MaxOperations, MaxFailures, MaxRestarts    \* bounds

VARIABLES saved,      \* pluginStore.plugins: absent, off or on, for each plugin
          file,       \* the same on disk
          project,    \* the selected project
          visited,    \* the projects selected so far: an Agent run keeps its own
          current,    \* pluginManager.clients, as the set of the clients in it
          client,     \* each client: its plugin, working directory and server
          thread,     \* what each request or run does
          asked,      \* the plugins the user ever confirmed to enable
          stray,      \* clients started from a copy that no longer holds
          unsettled,  \* plugins whose change failed between memory and disk
          used        \* the bounded counters

vars == <<saved, file, project, visited, current, client, thread, asked, stray,
          unsettled, used>>
store == <<saved, file>>
selection == <<project, visited>>
clients == <<current, client, stray>>

Idle == [at |-> "idle", plugin |-> {}, on |-> FALSE, project |-> {}, client |-> {},
         again |-> FALSE]
Steps == {"idle", "ensure", "authorize", "call", "reconnect",
          "write", "remove", "stop", "find", "view", "switch"}
NoClient == [plugin |-> {}, cwd |-> {}, server |-> "none", healthy |-> FALSE]

TypeOK ==
  /\ saved \in [Plugins -> {"absent", "off", "on"}] /\ file \in [Plugins -> {"absent", "off", "on"}]
  /\ project \in Projects /\ visited \subseteq Projects
  /\ current \subseteq Clients /\ stray \subseteq current
  /\ \A i, j \in current : client[i].plugin = client[j].plugin => i = j
  /\ \A i \in Clients : client[i].server \in {"none", "alive", "dead"}
  /\ \A t \in Threads : thread[t].at \in Steps /\ thread[t].again \in BOOLEAN
  /\ asked \subseteq Plugins /\ unsettled \subseteq Plugins

Init ==
  /\ saved \in [Plugins -> {"absent", "on"}] /\ file = saved
  /\ asked = {k \in Plugins : saved[k] = "on"}
  /\ project \in Projects /\ visited = {project}
  /\ current = {} /\ client = [i \in Clients |-> NoClient]
  /\ thread = [t \in Threads |-> Idle]
  /\ stray = {} /\ unsettled = {}
  /\ used = [operations |-> 0, failures |-> 0, restarts |-> 0]

-----------------------------------------------------------------------------
Spend(counter) == used' = [used EXCEPT ![counter] = @ + 1]
At(t, step) == thread[t].at = step
Goto(t, step) == thread' = [thread EXCEPT ![t].at = step]
Done(t) == thread' = [thread EXCEPT ![t] = Idle]
Begin(t, step, k, on, d) ==
  /\ At(t, "idle") /\ used.operations < MaxOperations
  /\ thread' = [thread EXCEPT ![t] =
                  [Idle EXCEPT !.at = step, !.plugin = {k}, !.on = on, !.project = {d}]]
  /\ Spend("operations")

ClientsOf(k) == {i \in current : client[i].plugin = {k}}
HealthyOf(k) == {i \in ClientsOf(k) : client[i].healthy}
Unused == {i \in Clients : /\ client[i].server = "none"
                           /\ \A t \in Threads : i \notin thread[t].client}
Closed(S) == [i \in Clients |-> IF i \in S THEN NoClient ELSE client[i]]
Started(k, d, server) == [plugin |-> {k}, cwd |-> {d}, server |-> server, healthy |-> TRUE]

\* Mutant of Launch: the client it replaces stays in clients.
LaunchMutant(k, d, i) ==
  /\ i \in Unused /\ current' = current \cup {i}
  /\ client' = [client EXCEPT ![i] = Started(k, d, "alive")] /\ stray' = stray

\* A new client replaces the plugin's.  Its server may exit before Start marks it healthy.
Launch(k, d, i) ==
  /\ i \in Unused
  /\ current' = (current \ ClientsOf(k)) \cup {i}
  /\ \E server \in {"alive", "dead"} :
       client' = [Closed(ClientsOf(k)) EXCEPT ![i] = Started(k, d, server)]
  /\ stray' = (stray \ ClientsOf(k)) \cup
              (IF saved[k] = "on" /\ d = project THEN {} ELSE {i})

(* ensureClientLocked of plugin k, with the caller's copy of its configuration and
   the caller's project: a healthy client is taken as it is. *)
EnsureGives(k, on, d, i) ==
  \/ i \in HealthyOf(k) /\ UNCHANGED clients
  \/ HealthyOf(k) = {} /\ on /\ Launch(k, d, i)

\* stopLocked
Stop(k) ==
  /\ current' = current \ ClientsOf(k) /\ stray' = stray \ ClientsOf(k)
  /\ client' = Closed(ClientsOf(k))

\* The copy says disabled, or Start fails and closes what it started.
EnsureFails(k) == HealthyOf(k) = {} /\ Stop(k)

\* A server exits on its own, and waitLoop notices.
ServerExits(i) ==
  /\ client[i].server = "alive"
  /\ client' = [client EXCEPT ![i].server = "dead", ![i].healthy = FALSE]
  /\ UNCHANGED <<store, selection, current, thread, asked, stray, unsettled, used>>

-----------------------------------------------------------------------------
(* A tool call of an Agent run (Execute).  The run works in the project it was
   started in, which need not be the selected one. *)
CallBegins(t, k, d) ==
  /\ d \in visited /\ saved[k] = "on" /\ Begin(t, "ensure", k, TRUE, d)
  /\ UNCHANGED <<store, selection, clients, asked, unsettled>>

CallEnsures(t) ==
  /\ At(t, "ensure")
  /\ \E k \in thread[t].plugin, d \in thread[t].project :
       \/ \E i \in Clients : /\ EnsureGives(k, thread[t].on, d, i)
                             /\ thread' = [thread EXCEPT ![t].at = "authorize", ![t].client = {i}]
       \/ EnsureFails(k) /\ Done(t)
  /\ UNCHANGED <<store, selection, asked, unsettled, used>>

Authorize(t) ==                           \* the Permission Engine admits it or not
  /\ At(t, "authorize") /\ (Goto(t, "call") \/ Done(t))
  /\ UNCHANGED <<store, selection, clients, asked, unsettled, used>>

Alive(t) == \E i \in thread[t].client : i \in current /\ client[i].server = "alive"

(* CallTool.  The caller gets the result of a living server, or an error: of the
   tool, of its own cancellation or deadline, or of the transport.  The first error,
   whatever it is, leads to the reconnect, and the call is made again. *)
Errors(t) ==
  IF thread[t].again THEN Done(t)
  ELSE thread' = [thread EXCEPT ![t].at = "reconnect", ![t].again = TRUE]

Call(t) ==
  /\ At(t, "call")
  /\ (Alive(t) /\ Done(t)) \/ Errors(t)
  /\ UNCHANGED <<store, selection, clients, asked, unsettled, used>>

\* The reconnect closes the plugin's client, whoever else uses it, and starts
\* another one from the copy and the project of this call.
Reconnect(t) ==
  /\ At(t, "reconnect")
  /\ \E k \in thread[t].plugin, d \in thread[t].project :
       \/ \E i \in Clients : /\ thread[t].on /\ Launch(k, d, i)
                             /\ thread' = [thread EXCEPT ![t].at = "call", ![t].client = {i}]
       \/ Stop(k) /\ Done(t)
  /\ UNCHANGED <<store, selection, asked, unsettled, used>>

-----------------------------------------------------------------------------
\* SetEnabled finds the plugin and takes its copy; enabling is confirmed by the user.
SetEnabled(t, k, on) ==
  /\ saved[k] # "absent" /\ Begin(t, "write", k, on, project)
  /\ asked' = IF on THEN asked \cup {k} ELSE asked
  /\ UNCHANGED <<store, selection, clients, unsettled>>

\* Upsert: a new plugin is disabled, a known one stays what it was when it was read.
Upsert(t, k) ==
  /\ Begin(t, "write", k, saved[k] = "on", project)
  /\ UNCHANGED <<store, selection, clients, asked, unsettled>>

(* A change of the store: memory, then the file.  Where the file cannot be written
   the caller gets the error, memory keeps the change, and no client is stopped. *)
Persist(t, k, value) ==
  /\ saved' = [saved EXCEPT ![k] = value]
  /\ \/ /\ file' = saved' /\ UNCHANGED <<unsettled, used>>
        /\ thread' = [thread EXCEPT ![t].at = "stop"]
     \/ /\ used.failures < MaxFailures /\ Spend("failures")
        /\ file' = file /\ unsettled' = unsettled \cup {k} /\ Done(t)

Write(t) ==
  /\ At(t, "write")
  /\ \E k \in thread[t].plugin : Persist(t, k, IF thread[t].on THEN "on" ELSE "off")
  /\ UNCHANGED <<selection, clients, asked>>

RemoveBegins(t, k) ==
  /\ saved[k] # "absent" /\ Begin(t, "remove", k, FALSE, project)
  /\ UNCHANGED <<store, selection, clients, asked, unsettled>>

Remove(t) ==
  /\ At(t, "remove")
  /\ \E k \in thread[t].plugin : Persist(t, k, "absent")
  /\ UNCHANGED <<selection, clients, asked>>

\* Mutant of StopPlugin: the client of a plugin that is now disabled is left alone.
StopPluginMutant(t) ==
  /\ At(t, "stop") /\ Goto(t, "find")
  /\ UNCHANGED <<store, selection, clients, asked, unsettled, used>>

\* After its write, SetEnabled, Upsert and Remove stop the plugin's client.
StopPlugin(t) ==
  /\ At(t, "stop") /\ Goto(t, "find")
  /\ \E k \in thread[t].plugin : Stop(k) /\ unsettled' = unsettled \ {k}
  /\ UNCHANGED <<store, selection, asked, used>>

\* View reads the plugin again, and starts its client if that copy is enabled.
Find(t) ==
  /\ At(t, "find")
  /\ IF \E k \in thread[t].plugin : saved[k] = "on"
     THEN thread' = [thread EXCEPT ![t].at = "view", ![t].on = TRUE]
     ELSE Done(t)
  /\ UNCHANGED <<store, selection, clients, asked, unsettled, used>>

\* List, ToolDescriptors and ToolDefinitions do the same for each enabled plugin.
ListBegins(t, k, d) ==
  /\ d \in visited /\ saved[k] = "on" /\ Begin(t, "view", k, TRUE, d)
  /\ UNCHANGED <<store, selection, clients, asked, unsettled>>

View(t) ==
  /\ At(t, "view") /\ Done(t)
  /\ \E k \in thread[t].plugin, d \in thread[t].project :
       EnsureFails(k) \/ \E i \in Clients : EnsureGives(k, TRUE, d, i)
  /\ UNCHANGED <<store, selection, asked, unsettled, used>>

-----------------------------------------------------------------------------
\* setProject and SwitchProject, one after the other in the handler.
SelectProject(t, d) ==
  /\ d # project /\ At(t, "idle") /\ used.operations < MaxOperations /\ Spend("operations")
  /\ project' = d /\ visited' = visited \cup {d} /\ Goto(t, "switch")
  /\ UNCHANGED <<store, clients, asked, unsettled>>

SwitchProject(t) ==
  /\ At(t, "switch") /\ Done(t)
  /\ current' = {} /\ stray' = {} /\ client' = Closed(current)
  /\ UNCHANGED <<store, selection, asked, unsettled, used>>

\* The process ends, and starts again with what the file holds; or it cannot
\* read the file, goes on without plugins, and the next write replaces it.
Restart ==
  /\ used.restarts < MaxRestarts
  /\ \/ saved' = file /\ used' = [used EXCEPT !.restarts = @ + 1]
     \/ /\ used.failures < MaxFailures
        /\ saved' = [k \in Plugins |-> "absent"]
        /\ used' = [used EXCEPT !.restarts = @ + 1, !.failures = @ + 1]
  /\ thread' = [t \in Threads |-> Idle] /\ client' = [i \in Clients |-> NoClient]
  /\ current' = {} /\ stray' = {} /\ unsettled' = {} /\ visited' = {project}
  /\ UNCHANGED <<file, project, asked>>

Next ==
  \/ Restart \/ \E i \in Clients : ServerExits(i)
  \/ \E t \in Threads :
       \/ CallEnsures(t) \/ Authorize(t) \/ Call(t) \/ Reconnect(t)
       \/ Write(t) \/ Remove(t) \/ StopPlugin(t) \/ Find(t) \/ View(t) \/ SwitchProject(t)
       \/ \E d \in Projects : SelectProject(t, d)
       \/ \E k \in Plugins :
            \/ Upsert(t, k) \/ RemoveBegins(t, k)
            \/ \E on \in BOOLEAN : SetEnabled(t, k, on)
            \/ \E d \in Projects : CallBegins(t, k, d) \/ ListBegins(t, k, d)

Spec == Init /\ [][Next]_vars

-----------------------------------------------------------------------------
(* No server is started of a plugin the user never confirmed to enable ("Saving a
   plugin never starts an arbitrary local command": Upsert), and one runs only where
   it is wanted: its plugin is enabled and it works in the selected project, or the
   request that changed that is about to stop it.  Two exceptions name what the code
   allows: a client started from a copy that no longer held when it was started
   (stray: a call that reconnects, or a settings view, after the plugin was disabled
   or the project switched), and a change that stayed in memory because its file could
   not be written. *)
ServersAreWanted ==
  \A i \in Clients :
    /\ client[i].plugin \subseteq asked
    /\ client[i].server = "alive" /\ i \notin stray =>
         \A k \in client[i].plugin, d \in client[i].cwd :
           /\ \/ saved[k] = "on" \/ k \in unsettled
              \/ \E t \in Threads : At(t, "stop") /\ thread[t].plugin = {k}
           /\ d = project \/ \E t \in Threads : At(t, "switch")
=============================================================================
