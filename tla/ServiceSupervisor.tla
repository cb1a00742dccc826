-------------------------- MODULE ServiceSupervisor --------------------------
(***************************************************************************)
(* chrono-init: the main program (init/src/main.c) and the service         *)
(* supervisor it drives (init/supervisor/service_supervisor.c), with the   *)
(* part of the operating system they rely on: the process table, zombies,  *)
(* recycled process ids and signals that interrupt a blocking waitpid.     *)
(*                                                                         *)
(* main is one thread.  Each iteration of its loops over the services is   *)
(* one step, so children, operators and signals interleave between them.   *)
(***************************************************************************)
EXTENDS Integers, Sequences, ServiceRegistry

CONSTANTS
  Registry,     \* the loaded registry: a sequence of services
  Pids,         \* the process ids the operating system hands out
  MaxSignals    \* bound: SIGINT/SIGTERM deliveries to chrono-init

ASSUME RegistryAssumption ==
  Registry \in Seq([policy : STRING, max_restarts : Nat])
ASSUME PidsAssumption == Pids \subseteq Nat \ {0}
ASSUME SignalsAssumption == MaxSignals \in Nat

N == Len(Registry)
Services == 1..N
NoPid == -1
Policies == {Registry[s].policy : s \in Services} \cup {NonePolicy}

States == {"STOPPED", "RUNNING", "FAILED"}
Live == {"forked", "missed", "run", "deaf", "term"}
ProcStates == Live \cup {"free", "zombie", "foreign", "hit"}
PCs == {"start", "loop", "poll", "handle", "stop", "stopwait",
        "exit_success", "exit_failure"}

VARIABLES
  state,         \* ChronoServiceRuntime.state, per service
  pid,           \* ChronoServiceRuntime.pid
  restart_count, \* ChronoServiceRuntime.restart_count
  policy,        \* the runtime's copy of config.restart_policy
  pc, i,         \* where main is, and the index of its current loop
  shutdown_requested,
  signals,       \* deliveries so far
  proc,          \* the process table.  A live child is "forked" until its
                 \* execl, "run" after it and "term" once told to terminate;
                 \* "missed" and "deaf" are the same before and after execl
                 \* for one whose SIGTERM came before it.  "foreign" is
                 \* anybody else's process, "hit" one that got our SIGTERM
  owner,         \* the service a child was forked for, 0 if none
  launches,      \* history: successful forks, per service
  asked          \* history: chronoctl restart promised a new instance

runtime == <<state, pid, restart_count, policy>>
control == <<pc, i, shutdown_requested, signals>>
os      == <<proc, owner>>
history == <<launches, asked>>
vars    == <<runtime, control, os, history>>

Child(p) == proc[p] \in Live \cup {"zombie"}
Alive(p) == proc[p] \in Live

\* supervisor_init on the loaded registry, and main up to its first loop.
Init ==
  /\ state = [s \in Services |-> "STOPPED"]
  /\ pid = [s \in Services |-> NoPid]
  /\ restart_count = [s \in Services |-> 0]
  /\ policy = [s \in Services |-> Registry[s].policy]
  /\ pc = "start" /\ i = 1
  /\ shutdown_requested = FALSE /\ signals = 0
  /\ proc = [p \in Pids |-> "free"]
  /\ owner = [p \in Pids |-> 0]
  /\ launches = [s \in Services |-> 0]
  /\ asked = [s \in Services |-> FALSE]

-----------------------------------------------------------------------------
\* supervisor_start past its RUNNING test: fork succeeds and the parent
\* records the child, which has yet to reach its execl.
Forked(s, p) ==
  /\ proc[p] = "free"
  /\ proc' = [proc EXCEPT ![p] = "forked"]
  /\ owner' = [owner EXCEPT ![p] = s]
  /\ pid' = [pid EXCEPT ![s] = p]
  /\ state' = [state EXCEPT ![s] = "RUNNING"]
  /\ launches' = [launches EXCEPT ![s] = @ + 1]
  /\ asked' = [asked EXCEPT ![s] = FALSE]

\* supervisor_start when fork fails.
ForkFailed(s) ==
  /\ state' = [state EXCEPT ![s] = "FAILED"]
  /\ UNCHANGED <<pid, os, history>>

\* main's start loop; supervisor_start returns at once for a RUNNING service.
StartService ==
  /\ pc = "start" /\ i \in Services
  /\ state[i] # "RUNNING"
  /\ \E p \in Pids : Forked(i, p)
  /\ i' = i + 1
  /\ UNCHANGED <<restart_count, policy, pc, shutdown_requested, signals>>

\* A start that fails ends main with EXIT_FAILURE, services started so far
\* keep running.
StartFails ==
  /\ pc = "start" /\ i \in Services
  /\ state[i] # "RUNNING"
  /\ ForkFailed(i)
  /\ pc' = "exit_failure"
  /\ UNCHANGED <<restart_count, policy, i, shutdown_requested, signals>>

StartDone ==
  /\ pc = "start" /\ i > N
  /\ pc' = "loop"
  /\ UNCHANGED <<runtime, i, shutdown_requested, signals, os, history>>

\* The condition of the supervision loop.
LoopTest ==
  /\ pc = "loop"
  /\ pc' = IF shutdown_requested THEN "stop" ELSE "poll"
  /\ i' = 1
  /\ UNCHANGED <<runtime, shutdown_requested, signals, os, history>>
-----------------------------------------------------------------------------
\* supervisor_poll, one service: waitpid(WNOHANG) leaves a live child alone;
\* a terminated one is reaped, and any termination, exit code 0 included,
\* makes the service FAILED.  So does waitpid failing (not our child).
Polled(s) == pid[s] > 0 /\ state[s] = "RUNNING"

PollSkip ==
  /\ pc = "poll" /\ i \in Services
  /\ Polled(i) => Alive(pid[i])
  /\ i' = i + 1
  /\ UNCHANGED <<runtime, pc, shutdown_requested, signals, os, history>>

Reap(p) ==
  /\ proc' = [proc EXCEPT ![p] = IF @ = "zombie" THEN "free" ELSE @]
  /\ owner' = [owner EXCEPT ![p] = IF proc[p] = "zombie" THEN 0 ELSE @]

\* Fault: the pid is kept after waitpid collected the child.
PollReapsKeepsPid ==
  /\ pc = "poll" /\ i \in Services
  /\ Polled(i) /\ ~Alive(pid[i])
  /\ Reap(pid[i])
  /\ state' = [state EXCEPT ![i] = "FAILED"]
  /\ i' = i + 1
  /\ UNCHANGED <<pid, restart_count, policy, pc, shutdown_requested, signals, history>>

\* Fault: "no change yet" (waitpid returned 0) is taken for a termination.
PollReapsAlive ==
  /\ pc = "poll" /\ i \in Services
  /\ Polled(i)
  /\ Reap(pid[i])
  /\ pid' = [pid EXCEPT ![i] = NoPid]
  /\ state' = [state EXCEPT ![i] = "FAILED"]
  /\ i' = i + 1
  /\ UNCHANGED <<restart_count, policy, pc, shutdown_requested, signals, history>>

PollReaps ==
  /\ pc = "poll" /\ i \in Services
  /\ Polled(i) /\ ~Alive(pid[i])
  /\ Reap(pid[i])
  /\ pid' = [pid EXCEPT ![i] = NoPid]
  /\ state' = [state EXCEPT ![i] = "FAILED"]
  /\ i' = i + 1
  /\ UNCHANGED <<restart_count, policy, pc, shutdown_requested, signals, history>>

PollDone ==
  /\ pc = "poll" /\ i > N
  /\ pc' = "handle" /\ i' = 1
  /\ UNCHANGED <<runtime, shutdown_requested, signals, os, history>>

\* supervisor_handle_failures, one service.
RestartableAnyState(s) == policy[s] = OnFailure              \* fault: no state test
BudgetSpentLate(s) == restart_count[s] > Registry[s].max_restarts  \* fault: off by one
Restartable(s) == state[s] = "FAILED" /\ policy[s] = OnFailure
BudgetSpent(s) == restart_count[s] >= Registry[s].max_restarts

HandleSkip ==
  /\ pc = "handle" /\ i \in Services
  /\ ~Restartable(i)
  /\ i' = i + 1
  /\ UNCHANGED <<runtime, pc, shutdown_requested, signals, os, history>>

\* Fault: the limit is reported, the policy stays.
HandleReportsOnly ==
  /\ pc = "handle" /\ i \in Services
  /\ Restartable(i) /\ BudgetSpent(i)
  /\ i' = i + 1
  /\ UNCHANGED <<runtime, pc, shutdown_requested, signals, os, history>>

\* The limit is reached: restart_policy becomes "none" for good.
HandleGivesUp ==
  /\ pc = "handle" /\ i \in Services
  /\ Restartable(i) /\ BudgetSpent(i)
  /\ policy' = [policy EXCEPT ![i] = NonePolicy]
  /\ i' = i + 1
  /\ UNCHANGED <<state, pid, restart_count, pc, shutdown_requested, signals,
                 os, history>>

\* supervisor_restart: count the attempt, then supervisor_start, whose fork
\* may fail and leave the service FAILED for the next round.
HandleRestarts ==
  /\ pc = "handle" /\ i \in Services
  /\ Restartable(i) /\ ~BudgetSpent(i)
  /\ restart_count' = [restart_count EXCEPT ![i] = @ + 1]
  /\ \/ \E p \in Pids : Forked(i, p)
     \/ ForkFailed(i)
  /\ i' = i + 1
  /\ UNCHANGED <<policy, pc, shutdown_requested, signals>>

\* ... and sleep(1), back to the loop's condition.
HandleDone ==
  /\ pc = "handle" /\ i > N
  /\ pc' = "loop" /\ i' = 1
  /\ UNCHANGED <<runtime, shutdown_requested, signals, os, history>>
-----------------------------------------------------------------------------
\* The shutdown loop: only services with a pid are stopped.
StopSkip ==
  /\ pc = "stop" /\ i \in Services /\ ~(pid[i] > 0)
  /\ i' = i + 1
  /\ UNCHANGED <<runtime, pc, shutdown_requested, signals, os, history>>

\* supervisor_stop, first half: kill(pid, SIGTERM) on whatever process has
\* that id now.  A child that has not reached its execl still has
\* chrono-init's handler, which only sets the child's copy of the flag.
Kill(p) ==
  proc' = [proc EXCEPT ![p] = CASE @ \in {"run", "deaf"} -> "term"
                                [] @ = "forked"         -> "missed"
                                [] @ = "foreign"        -> "hit"
                                [] OTHER                -> @]

\* Fault: supervisor_stop without its pid > 0 test.
StopSignalsAnyPid ==
  /\ pc = "stop" /\ i \in Services
  /\ Kill(pid[i])
  /\ pc' = "stopwait"
  /\ UNCHANGED <<runtime, i, shutdown_requested, signals, owner, history>>

\* Fault: waits for a child it did not tell to terminate.
StopWithoutKill ==
  /\ pc = "stop" /\ i \in Services /\ pid[i] > 0
  /\ pc' = "stopwait"
  /\ UNCHANGED <<runtime, i, shutdown_requested, signals, os, history>>

StopSignals ==
  /\ pc = "stop" /\ i \in Services /\ pid[i] > 0
  /\ Kill(pid[i])
  /\ pc' = "stopwait"
  /\ UNCHANGED <<runtime, i, shutdown_requested, signals, owner, history>>

\* supervisor_stop, second half, whatever made waitpid return.
Stopped(s) ==
  /\ pid' = [pid EXCEPT ![s] = NoPid]
  /\ state' = [state EXCEPT ![s] = "STOPPED"]

\* Fault: waitpid with WNOHANG.
StopDoesNotWait ==
  /\ pc = "stopwait"
  /\ Reap(pid[i])
  /\ Stopped(i)
  /\ pc' = "stop" /\ i' = i + 1
  /\ UNCHANGED <<restart_count, policy, shutdown_requested, signals, history>>

\* The blocking waitpid returns when the child is a zombie (or no child).
StopReaps ==
  /\ pc = "stopwait" /\ ~Alive(pid[i])
  /\ Reap(pid[i])
  /\ Stopped(i)
  /\ pc' = "stop" /\ i' = i + 1
  /\ UNCHANGED <<restart_count, policy, shutdown_requested, signals, history>>

StopDone ==
  /\ pc = "stop" /\ i > N
  /\ pc' = "exit_success"
  /\ UNCHANGED <<runtime, i, shutdown_requested, signals, os, history>>
-----------------------------------------------------------------------------
\* A signal for chrono-init: the handler sets the flag.
Signal ==
  /\ signals < MaxSignals
  /\ pc \notin {"exit_success", "exit_failure"}
  /\ signals' = signals + 1
  /\ shutdown_requested' = TRUE
  /\ UNCHANGED <<runtime, pc, i, os, history>>

\* The same delivery while main is blocked in waitpid: the handlers are
\* installed without SA_RESTART, waitpid returns EINTR, and supervisor_stop
\* does not look at its result.
SignalInterruptsWait ==
  /\ signals < MaxSignals
  /\ pc = "stopwait"
  /\ signals' = signals + 1
  /\ shutdown_requested' = TRUE
  /\ Stopped(i)
  /\ pc' = "stop" /\ i' = i + 1
  /\ UNCHANGED <<restart_count, policy, os, history>>

\* The child's execl: the handlers of chrono-init are gone with its program,
\* and so is a SIGTERM that came before.
Exec(p) ==
  /\ proc[p] \in {"forked", "missed"}
  /\ proc' = [proc EXCEPT ![p] = IF @ = "forked" THEN "run" ELSE "deaf"]
  /\ UNCHANGED <<runtime, control, owner, history>>

\* A child terminates: by itself, by a crash, because of a SIGTERM, or with
\* 127 when its execl fails.
ChildExits(p) ==
  /\ Alive(p)
  /\ proc' = [proc EXCEPT ![p] = "zombie"]
  /\ UNCHANGED <<runtime, control, owner, history>>

\* chronoctl stop/restart: SIGTERM to the process of that name, if any, which
\* a child has from its execl on; the restart command then announces that the
\* supervisor will restart it.
Chronoctl(s) ==
  /\ proc' = [p \in Pids |-> IF owner[p] = s /\ proc[p] \in {"run", "deaf"}
                             THEN "term" ELSE proc[p]]
  /\ \/ asked' = [asked EXCEPT ![s] = TRUE]
     \/ asked' = asked
  /\ UNCHANGED <<runtime, control, owner, launches>>

\* Other programs come and go and take the ids that are free.
ForeignSpawns(p) ==
  /\ proc[p] = "free"
  /\ proc' = [proc EXCEPT ![p] = "foreign"]
  /\ UNCHANGED <<runtime, control, owner, history>>

ForeignExits(p) ==
  /\ proc[p] = "foreign"
  /\ proc' = [proc EXCEPT ![p] = "free"]
  /\ UNCHANGED <<runtime, control, owner, history>>
-----------------------------------------------------------------------------
Main ==
  \/ StartService \/ StartFails \/ StartDone \/ LoopTest
  \/ PollSkip \/ PollReaps \/ PollDone
  \/ HandleSkip \/ HandleGivesUp \/ HandleRestarts \/ HandleDone
  \/ StopSkip \/ StopSignals \/ StopReaps \/ StopDone

Next ==
  \/ Main \/ Signal \/ SignalInterruptsWait
  \/ \E p \in Pids : Exec(p) \/ ChildExits(p) \/ ForeignSpawns(p) \/ ForeignExits(p)
  \/ \E s \in Services : Chronoctl(s)

Spec == Init /\ [][Next]_vars

\* main is a running thread; a service told to terminate after its execl does,
\* by the default action or by ChronoD's own handler
\* (services/chronod/src/main.c).  Nothing makes a "missed" or "deaf" one end.
TermChildExits(p) == proc[p] = "term" /\ ChildExits(p)
Fairness == WF_vars(Main) /\ \A p \in Pids : WF_vars(TermChildExits(p))
FairSpec == Spec /\ Fairness
-----------------------------------------------------------------------------
TypeOK ==
  /\ state \in [Services -> States]
  /\ pid \in [Services -> Pids \cup {NoPid}]
  /\ restart_count \in [Services -> Nat]
  /\ policy \in [Services -> Policies]
  /\ pc \in PCs /\ i \in 1..(N + 1)
  /\ shutdown_requested \in BOOLEAN /\ signals \in 0..MaxSignals
  /\ proc \in [Pids -> ProcStates]
  /\ owner \in [Pids -> 0..N]
  /\ launches \in [Services -> Nat]
  /\ asked \in [Services -> BOOLEAN]
  /\ pc = "stopwait" => i \in Services /\ pid[i] \in Pids

\* supervisor_stop's kill never reaches a process that is not the
\* supervisor's own child, although pids are recycled after every waitpid:
\* a stored pid is always that of a child nobody has reaped yet.
NeverSignalsForeign == \A p \in Pids : proc[p] # "hit"

\* A service never has two processes at a time, whatever the order of
\* terminations, polls, failed forks, restarts and interrupted waits.
OneInstance ==
  \A p, q \in Pids : Child(p) /\ Child(q) /\ owner[p] = owner[q] => p = q

\* Over the whole run of chrono-init a service is launched at most
\* max_restarts times after its first launch, failed forks included.
LaunchBudget ==
  \A s \in Services : launches[s] <= 1 + Registry[s].max_restarts

\* docs/testing/SERVICE_SUPERVISOR_TEST.md, "Final FAILED state after the
\* restart limit": a service given up on stays FAILED with no process.
GivenUpStaysFailed ==
  \A s \in Services :
    Registry[s].policy = OnFailure /\ policy[s] = NonePolicy =>
      /\ state[s] = "FAILED" /\ pid[s] = NoPid
      /\ restart_count[s] = Registry[s].max_restarts

\* "Stop all running services cleanly" (init/src/main.c): when main returns
\* EXIT_SUCCESS no service process is left.
NoServiceOutlivesInit ==
  pc = "exit_success" => \A p \in Pids : ~Child(p)

\* The same when nothing interrupts the shutdown: a single SIGTERM or SIGINT
\* leaves no service process behind, however the services die and restart.
FirstSignalStopsAll == signals <= 1 => NoServiceOutlivesInit

\* The blocking waitpid of supervisor_stop is waiting for a child whose SIGTERM
\* came between its fork and its execl and was lost.
WaitsForDeaf == pc = "stopwait" /\ proc[pid[i]] \in {"missed", "deaf"}

\* A shutdown request leads to the end of main, whatever the services do; the
\* only thing that can hold it up is a SIGTERM that reached a child between
\* fork and execl, where the handler inherited from chrono-init swallows it.
ShutdownCompletes ==
  shutdown_requested ~> (pc \in {"exit_success", "exit_failure"} \/ WaitsForDeaf)

\* A FAILED service with an on-failure policy is brought back, or given up
\* on at its limit, unless chrono-init itself goes down.
FailureIsHandled ==
  \A s \in Services :
    Restartable(s) ~>
      \/ state[s] = "RUNNING" \/ policy[s] = NonePolicy
      \/ shutdown_requested \/ pc = "exit_failure"

\* What chronoctl restart prints: "The init supervisor will restart chronod".
RestartIsHonoured ==
  \A s \in Services :
    asked[s] ~> (~asked[s] \/ shutdown_requested \/ pc = "exit_failure")
=============================================================================
