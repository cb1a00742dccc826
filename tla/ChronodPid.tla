----------------------------- MODULE ChronodPid -----------------------------
(***************************************************************************)
(* The PID file of ChronoD (daemon, running and _loop in                   *)
(* chronoos-1.3/chronoos/agent.py).                                        *)
(*                                                                         *)
(* "chrono daemon start" asks running(), forks and returns; the child       *)
(* writes the PID file (truncated first) and only then installs its        *)
(* SIGTERM handler.  "chrono daemon stop" asks running(), reads the file   *)
(* again and signals whatever process has that number.  A process that     *)
(* ends leaves its number to another program.                              *)
(***************************************************************************)
EXTENDS Integers

CONSTANTS
  Pids,        \* process numbers a daemon may get
  Stoppers,    \* bound: stop commands that run at a time
  MaxDaemonCommands,  \* bound: start and stop commands
  MaxKills,    \* bound: daemons killed, numbers reused
  NoPid, Torn

VARIABLES
  pidfile,     \* NoPid (no file), Torn (truncated) or a number
  process,     \* per number: "free", "forked", "writing", "deaf", "loop",
               \* "ending", "foreign" (another program) or "stranger" (another
               \* program, of another user)
  signalled,   \* the numbers SIGTERM was sent to and not yet delivered
  stopper,     \* per stop command: "idle", "signal" or "unlink"
  daemonCommands, kills,
  overlapped   \* history: a command looked at the file before the effect of
               \* an earlier one, or of the daemon it started, was there

pidVars == <<pidfile, process, signalled, stopper, daemonCommands, kills, overlapped>>

Init ==
  /\ pidfile = NoPid
  /\ process = [p \in Pids |-> "free"]
  /\ signalled = {}
  /\ stopper = [s \in Stoppers |-> "idle"]
  /\ daemonCommands = 0 /\ kills = 0
  /\ overlapped = FALSE

\* kill(pid, 0) finds any process of the user; with none, with one of another
\* user and with a missing or empty file it raises.
running == pidfile \in Pids /\ process[pidfile] \notin {"free", "stranger"}

\* A daemon does its work from the moment its PID is written.
Daemons == {p \in Pids : process[p] \in {"deaf", "loop"}}

Unfinished ==
  \/ \E p \in Pids : process[p] \in {"forked", "writing"}
  \/ \E s \in Stoppers : stopper[s] # "idle"
  \/ signalled # {}

Begins ==
  /\ daemonCommands < MaxDaemonCommands
  /\ daemonCommands' = daemonCommands + 1
  /\ overlapped' = (overlapped \/ Unfinished)
-----------------------------------------------------------------------------
\* Fault: start does not ask whether a daemon is running.
StartUnasked(p) ==
  /\ Begins /\ process[p] = "free"
  /\ process' = [process EXCEPT ![p] = "forked"]
  /\ UNCHANGED <<pidfile, signalled, stopper, kills>>

\* daemon("start"): the check, the fork and the return of the parent.
Start(p) ==
  /\ Begins /\ ~running /\ process[p] = "free"
  /\ process' = [process EXCEPT ![p] = "forked"]
  /\ UNCHANGED <<pidfile, signalled, stopper, kills>>

StartRefused ==
  /\ Begins /\ running
  /\ UNCHANGED <<pidfile, process, signalled, stopper, kills>>

\* _loop: write_text truncates, then writes.
LoopTruncates(p) ==
  /\ process[p] = "forked"
  /\ process' = [process EXCEPT ![p] = "writing"]
  /\ pidfile' = Torn
  /\ UNCHANGED <<signalled, stopper, daemonCommands, kills, overlapped>>

LoopWrites(p) ==
  /\ process[p] = "writing"
  /\ process' = [process EXCEPT ![p] = "deaf"]
  /\ pidfile' = p
  /\ UNCHANGED <<signalled, stopper, daemonCommands, kills, overlapped>>

LoopHandles(p) ==
  /\ process[p] = "deaf"
  /\ process' = [process EXCEPT ![p] = "loop"]
  /\ UNCHANGED <<pidfile, signalled, stopper, daemonCommands, kills, overlapped>>

\* SIGTERM in the loop: _term unlinks the file, whoever it names, and exits.
Term(p) ==
  /\ p \in signalled /\ process[p] \in {"loop", "ending"}
  /\ pidfile' = NoPid
  /\ process' = [process EXCEPT ![p] = "ending"]
  /\ signalled' = signalled \ {p}
  /\ UNCHANGED <<stopper, daemonCommands, kills, overlapped>>

\* SIGTERM before the handler is there, or in another program: the default.
TermDefault(p) ==
  /\ p \in signalled /\ process[p] \in {"forked", "writing", "deaf", "foreign"}
  /\ process' = [process EXCEPT ![p] = "free"]
  /\ signalled' = signalled \ {p}
  /\ UNCHANGED <<pidfile, stopper, daemonCommands, kills, overlapped>>

Exit(p) ==
  /\ process[p] \in {"ending", "foreign", "stranger"}
  /\ process' = [process EXCEPT ![p] = "free"]
  /\ signalled' = signalled \ {p}
  /\ UNCHANGED <<pidfile, stopper, daemonCommands, kills, overlapped>>

\* daemon("stop"): the check.
StopAsks(s) ==
  /\ stopper[s] = "idle" /\ Begins
  /\ stopper' = [stopper EXCEPT ![s] = IF running THEN "signal" ELSE "unlink"]
  /\ UNCHANGED <<pidfile, process, signalled, kills>>

\* The file is read again; if it is gone or torn, or no process of the user has
\* the number, the command raises.
StopSignals(s) ==
  /\ stopper[s] = "signal"
  /\ signalled' = IF running THEN signalled \cup {pidfile} ELSE signalled
  /\ stopper' = [stopper EXCEPT ![s] = "idle"]
  /\ UNCHANGED <<pidfile, process, daemonCommands, kills, overlapped>>

StopUnlinks(s) ==
  /\ stopper[s] = "unlink"
  /\ pidfile' = NoPid
  /\ stopper' = [stopper EXCEPT ![s] = "idle"]
  /\ UNCHANGED <<process, signalled, daemonCommands, kills, overlapped>>
-----------------------------------------------------------------------------
\* A daemon is killed without a chance to unlink the file.
DaemonKilled(p) ==
  /\ process[p] \notin {"free", "foreign", "stranger"} /\ kills < MaxKills
  /\ process' = [process EXCEPT ![p] = "free"]
  /\ signalled' = signalled \ {p}
  /\ kills' = kills + 1
  /\ UNCHANGED <<pidfile, stopper, daemonCommands, overlapped>>

\* Another program, of the user or of another one, gets a free number.
NumberReused(p, owner) ==
  /\ process[p] = "free" /\ kills < MaxKills
  /\ process' = [process EXCEPT ![p] = owner]
  /\ kills' = kills + 1
  /\ UNCHANGED <<pidfile, signalled, stopper, daemonCommands, overlapped>>

Next ==
  \/ StartRefused
  \/ \E p \in Pids :
       \/ Start(p) \/ LoopTruncates(p) \/ LoopWrites(p) \/ LoopHandles(p)
       \/ Term(p) \/ TermDefault(p) \/ Exit(p) \/ DaemonKilled(p)
       \/ \E owner \in {"foreign", "stranger"} : NumberReused(p, owner)
  \/ \E s \in Stoppers : StopAsks(s) \/ StopSignals(s) \/ StopUnlinks(s)
Spec == Init /\ [][Next]_pidVars
-----------------------------------------------------------------------------
TypeOK ==
  /\ pidfile \in Pids \cup {NoPid, Torn}
  /\ process \in [Pids -> {"free", "forked", "writing", "deaf", "loop", "ending", "foreign",
                         "stranger"}]
  /\ signalled \subseteq {p \in Pids : process[p] # "free"}
  /\ stopper \in [Stoppers -> {"idle", "signal", "unlink"}]
  /\ daemonCommands \in 0..MaxDaemonCommands /\ kills \in 0..MaxKills
  /\ overlapped \in BOOLEAN

\* "ChronoD ya esta corriendo": no two daemons work on one queue and the one
\* that does is the one status and stop find, also after daemons were killed
\* and their numbers reused, unless a command was given before the effect of
\* the one before was there (start returns before the PID file is written).
OneDaemon ==
  overlapped \/ \A p, q \in Daemons : p = q /\ pidfile = p
=============================================================================
