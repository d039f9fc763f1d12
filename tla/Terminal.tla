------------------------------ MODULE Terminal ------------------------------
(* The process manager (terminal.go, process_unix.go).  It serves the Agent's
   tool terminal.command, which waits for its command under a context with a
   deadline (run), and the browser's terminal, which starts a command, polls it
   and may stop it (start, stop).

   A command is a shell, the leader of its own process group, and whatever it
   left running: descendants in the group, and descendants that left the group.
   All of them hold the pipe that cmd.Wait copies, so that a command ends when
   the last of them is gone.  Output is not modelled.  Pids are never reused. *)
EXTENDS FiniteSets

CONSTANTS ToolCommands,    \* commands of the Agent, run with a deadline
          PanelCommands,   \* other commands, of the browser's terminal
          Stoppers         \* requests DELETE /local/process/{id}

VARIABLES leader,     \* the shell: none, alive, or dead with its exit code
          kids,       \* where descendants live that hold the pipe
          running,    \* managedProcess.running; FALSE exactly when done is closed
          listed,     \* the commands in processManager.processes
          killing,    \* the commands with a SIGKILL under way after a SIGTERM
          caller,     \* what run does for a command of the Agent
          overdue,    \* the commands whose context is cancelled or expired
          stopper     \* what a stop request does

vars == <<leader, kids, running, listed, killing, caller, overdue, stopper>>

Commands == ToolCommands \cup PanelCommands
Groups == {"group", "escaped"}
Codes == {"zero", "nonzero", "signal"}
Waiting == {"waiting", "stopping", "draining"}
Returned == {"ok", "failed", "cancelled"}
NoStop == [step |-> "idle", command |-> {}]

TypeOK ==
  /\ leader \in [Commands -> {"none", "alive"} \cup Codes]
  /\ kids \in [Commands -> SUBSET Groups]
  /\ running \in [Commands -> BOOLEAN]
  /\ listed \subseteq Commands /\ killing \subseteq Commands
  /\ caller \in [Commands -> {"idle"} \cup Waiting \cup Returned]
  /\ overdue \subseteq ToolCommands
  /\ \A s \in Stoppers : /\ stopper[s].step \in {"idle", "kill", "stopped"}
                         /\ stopper[s].command \subseteq Commands

Init ==
  /\ leader = [c \in Commands |-> "none"] /\ kids = [c \in Commands |-> {}]
  /\ running = [c \in Commands |-> FALSE]
  /\ listed = {} /\ killing = {} /\ overdue = {}
  /\ caller = [c \in Commands |-> "idle"]
  /\ stopper = [s \in Stoppers |-> NoStop]

-----------------------------------------------------------------------------
(* startInDirectory: the shell is started, then listed; a failing Start tells
   the caller and leaves nothing behind. *)
Start(c) ==
  /\ leader[c] = "none" /\ caller[c] = "idle"
  /\ \/ /\ leader' = [leader EXCEPT ![c] = "alive"]
        /\ running' = [running EXCEPT ![c] = TRUE]
        /\ listed' = listed \cup {c}
        /\ caller' = IF c \in ToolCommands THEN [caller EXCEPT ![c] = "waiting"] ELSE caller
     \/ /\ caller' = [caller EXCEPT ![c] = "failed"]
        /\ UNCHANGED <<leader, running, listed>>
  /\ UNCHANGED <<kids, killing, overdue, stopper>>

\* What the shell and its descendants do on their own.
Fork(c, g) ==
  /\ leader[c] = "alive" \/ "group" \in kids[c]
  /\ g \notin kids[c] /\ kids' = [kids EXCEPT ![c] = @ \cup {g}]
  /\ UNCHANGED <<leader, running, listed, killing, caller, overdue, stopper>>

Exit(c) ==
  /\ leader[c] = "alive"
  /\ \E code \in {"zero", "nonzero"} : leader' = [leader EXCEPT ![c] = code]
  /\ UNCHANGED <<kids, running, listed, killing, caller, overdue, stopper>>

KidExits(c, g) ==
  /\ g \in kids[c] /\ kids' = [kids EXCEPT ![c] = @ \ {g}]
  /\ UNCHANGED <<leader, running, listed, killing, caller, overdue, stopper>>

\* cmd.Wait returns when the shell is dead and nobody holds the pipe any more.
Wait(c) ==
  /\ running[c] /\ leader[c] \in Codes /\ kids[c] = {}
  /\ running' = [running EXCEPT ![c] = FALSE]
  /\ UNCHANGED <<leader, kids, listed, killing, caller, overdue, stopper>>

\* The timer armed after Wait forgets the command.
Retire(c) ==
  /\ c \in listed /\ ~running[c] /\ listed' = listed \ {c}
  /\ UNCHANGED <<leader, kids, running, killing, caller, overdue, stopper>>

-----------------------------------------------------------------------------
\* A signal reaches the shell and the descendants in its group.
SignalGroup(c, dies, remaining) ==
  /\ leader' = IF dies /\ leader[c] = "alive" THEN [leader EXCEPT ![c] = "signal"] ELSE leader
  /\ kids' = [kids EXCEPT ![c] = remaining]

\* Mutant of Terminate: a stop that only asks, never forces.
TerminateMutant(c) ==
  IF leader[c] = "alive" \/ "group" \in kids[c]
  THEN /\ \E dies \in BOOLEAN : SignalGroup(c, dies, kids[c])
       /\ killing' = killing
  ELSE UNCHANGED <<leader, kids, killing>>

(* terminateManagedProcess: SIGTERM, which each process may ignore, and a
   goroutine that sends SIGKILL two seconds later.  A group that is gone makes
   the SIGTERM fail; Process.Kill then finds the shell gone as well. *)
Terminate(c) ==
  IF leader[c] = "alive" \/ "group" \in kids[c]
  THEN /\ \E dies \in BOOLEAN, remaining \in SUBSET kids[c] :
            /\ kids[c] \ {"group"} \subseteq remaining
            /\ SignalGroup(c, dies, remaining)
       /\ killing' = killing \cup {c}
  ELSE UNCHANGED <<leader, kids, killing>>

SigKill(c) ==
  /\ c \in killing /\ killing' = killing \ {c}
  /\ SignalGroup(c, TRUE, kids[c] \ {"group"})
  /\ UNCHANGED <<running, listed, caller, overdue, stopper>>

\* The run is aborted, or the deadline of nativeRunCommand is over.
Expire(c) ==
  /\ c \in ToolCommands \ overdue /\ caller[c] = "waiting"
  /\ overdue' = overdue \cup {c}
  /\ UNCHANGED <<leader, kids, running, listed, killing, caller, stopper>>

\* run's select: where the command is done and the context is over it takes either.
Collect(c) ==
  /\ caller[c] = "waiting" /\ ~running[c]
  /\ caller' = [caller EXCEPT ![c] = IF leader[c] = "zero" THEN "ok" ELSE "failed"]
  /\ UNCHANGED <<leader, kids, running, listed, killing, overdue, stopper>>

\* The other branch: stop looks the command up and reads running.
GiveUp(c) ==
  /\ caller[c] = "waiting" /\ c \in overdue
  /\ caller' = [caller EXCEPT ![c] = IF c \in listed /\ running[c] THEN "stopping" ELSE "draining"]
  /\ UNCHANGED <<leader, kids, running, listed, killing, overdue, stopper>>

\* stop then kills, whatever happened to the command meanwhile; its error is ignored.
Kill(c) ==
  /\ caller[c] = "stopping" /\ Terminate(c)
  /\ caller' = [caller EXCEPT ![c] = "draining"]
  /\ UNCHANGED <<running, listed, overdue, stopper>>

Drain(c) ==
  /\ caller[c] = "draining" /\ ~running[c]
  /\ caller' = [caller EXCEPT ![c] = "cancelled"]
  /\ UNCHANGED <<leader, kids, running, listed, killing, overdue, stopper>>

\* The browser's stop, in the same two steps; a command that is not listed is refused.
StopLooks(s, c) ==
  /\ stopper[s].step = "idle" /\ c \in listed
  /\ stopper' = [stopper EXCEPT ![s] = [step |-> IF running[c] THEN "kill" ELSE "stopped",
                                        command |-> {c}]]
  /\ UNCHANGED <<leader, kids, running, listed, killing, caller, overdue>>

StopKills(s) ==
  /\ stopper[s].step = "kill"
  /\ \E c \in stopper[s].command : Terminate(c)
  /\ stopper' = [stopper EXCEPT ![s].step = "stopped"]
  /\ UNCHANGED <<running, listed, caller, overdue>>

Next ==
  \/ \E c \in Commands :
       \/ Start(c) \/ Exit(c) \/ Wait(c) \/ Retire(c) \/ SigKill(c)
       \/ \E g \in Groups : Fork(c, g) \/ KidExits(c, g)
  \/ \E c \in ToolCommands : Expire(c) \/ Collect(c) \/ GiveUp(c) \/ Kill(c) \/ Drain(c)
  \/ \E s \in Stoppers : StopKills(s) \/ \E c \in Commands : StopLooks(s, c)

(* Goroutines and timers of TL Studio make progress; a command of the Agent has
   a deadline.  Processes may run for ever. *)
Fairness ==
  /\ \A c \in Commands : WF_vars(Wait(c)) /\ WF_vars(SigKill(c))
  /\ \A c \in ToolCommands : /\ WF_vars(Expire(c))
                             /\ WF_vars(Collect(c) \/ GiveUp(c))
                             /\ WF_vars(Kill(c)) /\ WF_vars(Drain(c))

Spec == Init /\ [][Next]_vars /\ Fairness

-----------------------------------------------------------------------------
(* A command of the Agent returns to its run (processManager.run): at its end,
   or after its deadline or an abort, whatever the shell and its descendants do
   with SIGTERM, and though stop acts on what it read before.  The only thing
   that can keep it is a descendant that left the process group and holds the
   output pipe: no signal reaches it, and run waits for it without a limit. *)
CommandReturns ==
  \A c \in ToolCommands :
    (caller[c] \in Waiting) ~> (caller[c] \in Returned \/ "escaped" \in kids[c])
=============================================================================
