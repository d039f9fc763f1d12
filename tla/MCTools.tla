------------------------------ MODULE MCTools ------------------------------
(* The tools an Agent run executes outside TL Studio: commands of the terminal,
   one MCP client, and the manager of the plugins.  They share no state, so that
   every behaviour of the three together is seen in one of them; a behaviour of
   this module lets one of them, named by part, leave its initial state. *)
CONSTANTS ToolCommands, PanelCommands, Stoppers,             \* of Terminal
  Calls,                                                     \* of McpClient
  Plugins, Projects, Threads, Clients, MaxOperations, MaxFailures, MaxRestarts

VARIABLES part,
  leader, kids, running, listed, killing, overdue, stopper, runner,
  process, stage, healthy, closed, done, pending, channel, caller, inbox, outbox,
  reading, dropped, panicked,
  saved, file, project, visited, current, client, thread, asked, stray, unsettled, used

T == INSTANCE Terminal WITH caller <- runner
M == INSTANCE McpClient
P == INSTANCE PluginManager

terminal == <<leader, kids, running, listed, killing, overdue, stopper, runner>>
mcp == <<process, stage, healthy, closed, done, pending, channel, caller, inbox,
         outbox, reading, dropped, panicked>>
plugins == <<saved, file, project, visited, current, client, thread, asked, stray,
             unsettled, used>>
vars == <<part, terminal, mcp, plugins>>

Init == /\ part \in {"terminal", "mcp", "plugins"}
        /\ T!Init /\ M!Init /\ P!Init
        \* Nothing of the plugins matters to the other two.
        /\ part # "plugins" =>
             project = (CHOOSE d \in Projects : TRUE) /\ \A k \in Plugins : saved[k] = "absent"

Next ==
  \/ part = "terminal" /\ T!Next /\ UNCHANGED <<part, mcp, plugins>>
  \/ part = "mcp" /\ M!Next /\ UNCHANGED <<part, terminal, plugins>>
  \/ part = "plugins" /\ P!Next /\ UNCHANGED <<part, terminal, mcp>>

Spec == Init /\ [][Next]_vars /\ T!Fairness /\ M!Fairness

\* The types of the three components.
TypeOK == T!TypeOK /\ M!TypeOK /\ P!TypeOK

\* The properties of the components, as their modules state them.
CommandReturns == T!CommandReturns
NoPanic == M!NoPanic
WokenByExit == M!WokenByExit
ServersAreWanted == P!ServersAreWanted
=============================================================================
