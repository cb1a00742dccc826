----------------------- MODULE ServiceSupervisorProofs -----------------------
(***************************************************************************)
(* Proofs about chrono-init for every registry, every set of process ids   *)
(* and every number of signals.                                            *)
(*                                                                         *)
(* A stored pid is used long after it was stored (poll, kill, waitpid), so *)
(* the safety of kill rests on what the supervisor knows about it: the     *)
(* inductive invariant says that a stored pid is that of a child not yet   *)
(* reaped, forked for that very service, and that until the shutdown loop  *)
(* every child is stored.                                                  *)
(***************************************************************************)
EXTENDS ServiceSupervisor, TLAPS

Winding == pc \in {"stop", "stopwait", "exit_success"}

\* A stored pid is a child of that service that nobody has reaped.
Tracked ==
  \A s \in Services : pid[s] # NoPid => Child(pid[s]) /\ owner[pid[s]] = s

\* RUNNING and a stored pid come and go together.
RunningHasPid ==
  \A s \in Services : state[s] = "RUNNING" <=> pid[s] # NoPid

\* Until the services are stopped no child is forgotten.
NoneForgotten ==
  \A p \in Pids : Child(p) => /\ owner[p] \in Services
                              /\ Winding \/ pid[owner[p]] = p

\* A launch is the first one or was counted as a restart.
Accounted ==
  \A s \in Services :
    /\ restart_count[s] <= Registry[s].max_restarts
    /\ launches[s] <= restart_count[s] + 1
    /\ pc = "start" /\ s >= i => launches[s] = 0

\* The policies are those of the registry until supervision starts.
PolicyAtStart ==
  pc = "start" => \A s \in Services : policy[s] = Registry[s].policy

IInv ==
  /\ TypeOK /\ Tracked /\ RunningHasPid /\ NoneForgotten
  /\ OneInstance /\ NeverSignalsForeign
  /\ Accounted /\ PolicyAtStart /\ GivenUpStaysFailed

LEMMA Constants ==
  /\ N \in Nat
  /\ \A s \in Services : Registry[s].policy \in STRING /\ Registry[s].max_restarts \in Nat
  /\ NoPid \notin Pids
  /\ \A p \in Pids : p > 0
  /\ ~(NoPid > 0)
  /\ \A s \in Services : s \in 1..(N+1) /\ s + 1 \in 1..(N+1) /\ s # 0
  /\ OnFailure # NonePolicy
<1>1. N \in Nat
  BY RegistryAssumption DEF N
<1>2. \A s \in Services : Registry[s] \in [policy : STRING, max_restarts : Nat]
  <2>1. \A S : Registry \in Seq(S) => \A s \in 1..Len(Registry) : Registry[s] \in S
    OBVIOUS
  <2> QED BY <2>1, RegistryAssumption DEF Services, N
<1>3. NoPid \notin Pids /\ (\A p \in Pids : p > 0) /\ ~(NoPid > 0)
  BY PidsAssumption DEF NoPid
<1>4. \A s \in Services : s \in 1..(N+1) /\ s + 1 \in 1..(N+1) /\ s # 0
  BY <1>1 DEF Services
<1>5. OnFailure # NonePolicy
  BY DEF OnFailure, NonePolicy
<1> QED BY <1>1, <1>2, <1>3, <1>4, <1>5

\* The type invariant of the supervisor's state.
LEMMA TypeStep == TypeOK /\ [Next]_vars => TypeOK'
<1> SUFFICES ASSUME TypeOK, [Next]_vars PROVE TypeOK'
  OBVIOUS
<1> USE Constants, SignalsAssumption
<1>1. CASE Main
  <2>1. CASE StartService
    BY <2>1 DEF StartService, Forked, TypeOK, States, ProcStates, Live, PCs, Services
  <2>2. CASE StartFails
    BY <2>2 DEF StartFails, ForkFailed, TypeOK, States, PCs, os, history
  <2>3. CASE StartDone \/ LoopTest \/ PollSkip \/ PollDone \/ HandleSkip
             \/ HandleDone \/ StopSkip \/ StopDone
    BY <2>3 DEF StartDone, LoopTest, PollSkip, PollDone, HandleSkip, HandleDone,
                StopSkip, StopDone, TypeOK, PCs, os, history, runtime, Services
  <2>4. CASE PollReaps
    <3> USE <2>4 DEF PollReaps, TypeOK
    <3>1. i \in Services /\ i' = i + 1 /\ i' \in 1..(N+1)
      OBVIOUS
    <3>2. pid[i] \in Pids
      BY DEF Polled
    <3>3. proc' \in [Pids -> ProcStates]
      BY <3>2 DEF Reap, ProcStates, Live
    <3>4. owner' \in [Pids -> 0..N]
      BY <3>2 DEF Reap
    <3>5. pid' \in [Services -> Pids \cup {NoPid}]
      OBVIOUS
    <3>6. state' \in [Services -> States]
      BY DEF States
    <3>7. pc' = "poll" /\ UNCHANGED <<restart_count, policy, shutdown_requested, signals, launches, asked>>
      BY DEF history
    <3> QED BY <3>1, <3>3, <3>4, <3>5, <3>6, <3>7
  <2>5. CASE HandleGivesUp
    <3> USE <2>5 DEF HandleGivesUp, TypeOK
    <3>1. i \in Services /\ i' = i + 1 /\ i' \in 1..(N+1)
      OBVIOUS
    <3>2. policy' \in [Services -> Policies]
      BY DEF Policies
    <3>3. pc' = "handle" /\ UNCHANGED <<state, pid, restart_count, shutdown_requested,
                                       signals, proc, owner, launches, asked>>
      BY DEF os, history
    <3> QED BY <3>1, <3>2, <3>3
  <2>6. CASE HandleRestarts
    <3> USE <2>6 DEF HandleRestarts, TypeOK
    <3>1. i \in Services /\ i' = i + 1 /\ i' \in 1..(N+1)
      OBVIOUS
    <3>2. restart_count' \in [Services -> Nat]
      OBVIOUS
    <3>3. pc' = "handle" /\ UNCHANGED <<policy, shutdown_requested, signals>>
      OBVIOUS
    <3>4. CASE ForkFailed(i)
      BY <3>1, <3>2, <3>3, <3>4 DEF ForkFailed, os, history, States
    <3>5. CASE \E p \in Pids : Forked(i, p)
      <4> PICK p \in Pids : Forked(i, p)
        BY <3>5
      <4>1. /\ proc' \in [Pids -> ProcStates] /\ owner' \in [Pids -> 0..N]
            /\ pid' \in [Services -> Pids \cup {NoPid}]
        BY <3>1 DEF Forked, ProcStates, Live, Services
      <4>2. state' \in [Services -> States] /\ launches' \in [Services -> Nat]
        BY DEF Forked, States
      <4>3. asked' \in [Services -> BOOLEAN]
        BY DEF Forked
      <4> QED BY <3>1, <3>2, <3>3, <4>1, <4>2, <4>3
    <3> QED BY <3>4, <3>5
  <2>7. CASE StopSignals
    BY <2>7 DEF StopSignals, Kill, TypeOK, ProcStates, Live, PCs, runtime, history
  <2>8. CASE StopReaps
    BY <2>8 DEF StopReaps, Reap, Stopped, TypeOK, States, ProcStates, Live, PCs, history
  <2> QED BY <1>1, <2>1, <2>2, <2>3, <2>4, <2>5, <2>6, <2>7, <2>8 DEF Main
<1>2. CASE Signal
  BY <1>2 DEF Signal, TypeOK, runtime, os, history
<1>6. CASE SignalInterruptsWait
  <2> USE <1>6 DEF SignalInterruptsWait, TypeOK
  <2>1. i \in Services /\ i' = i + 1 /\ i' \in 1..(N+1) /\ pc' = "stop"
    OBVIOUS
  <2>2. pid' \in [Services -> Pids \cup {NoPid}] /\ state' \in [Services -> States]
    BY DEF Stopped, States
  <2>3. signals' \in 0..MaxSignals /\ shutdown_requested' \in BOOLEAN
    OBVIOUS
  <2>4. UNCHANGED <<restart_count, policy, proc, owner, launches, asked>>
    BY DEF os, history
  <2> QED BY <2>1, <2>2, <2>3, <2>4 DEF PCs
<1>3. CASE \E p \in Pids : Exec(p) \/ ChildExits(p) \/ ForeignSpawns(p) \/ ForeignExits(p)
  BY <1>3 DEF Exec, ChildExits, ForeignSpawns, ForeignExits, TypeOK, ProcStates, Live,
              runtime, control, history
<1>4. CASE \E s \in Services : Chronoctl(s)
  BY <1>4 DEF Chronoctl, TypeOK, ProcStates, Live, runtime, control
<1>5. CASE UNCHANGED vars
  BY <1>5 DEF vars, runtime, control, os, history, TypeOK
<1> QED BY <1>1, <1>2, <1>3, <1>4, <1>5, <1>6 DEF Next

\* A stored pid is a real one and proc, owner are defined on it.
LEMMA StoredPid ==
  TypeOK => \A s \in Services : /\ pid[s] # NoPid => pid[s] \in Pids
                                /\ pid[s] > 0 <=> pid[s] # NoPid
BY Constants DEF TypeOK

\* supervisor_start forking service s preserves the invariant about processes.
LEMMA ForkKeepsTrack ==
  ASSUME IInv, TypeOK', NEW s \in Services, NEW p \in Pids, Forked(s, p),
         ~Winding, state[s] # "RUNNING", pc' = pc
  PROVE  Tracked' /\ RunningHasPid' /\ NoneForgotten' /\ OneInstance'
         /\ NeverSignalsForeign'
<1> USE Constants DEF Forked
<1>1. pid[s] = NoPid /\ \A q \in Pids : Child(q) => owner[q] # s
  BY DEF IInv, RunningHasPid, NoneForgotten
<1>2. \A t \in Services : t # s => pid'[t] = pid[t] /\ state'[t] = state[t]
  BY DEF IInv, TypeOK
<1>3. pid'[s] = p /\ state'[s] = "RUNNING" /\ p # NoPid
  BY DEF IInv, TypeOK
<1>4. \A q \in Pids : q # p => proc'[q] = proc[q] /\ owner'[q] = owner[q]
  BY DEF IInv, TypeOK
<1>5. proc'[p] = "forked" /\ owner'[p] = s /\ ~Child(p)
  BY DEF IInv, TypeOK, Child, Live
<1>6. Tracked'
  BY <1>2, <1>3, <1>4, <1>5, StoredPid DEF IInv, Tracked, Child, Live
<1>7. RunningHasPid'
  BY <1>2, <1>3 DEF IInv, RunningHasPid
<1>8. NoneForgotten'
  BY <1>1, <1>2, <1>3, <1>4, <1>5 DEF IInv, NoneForgotten, Winding, Child, Live
<1>9. OneInstance'
  BY <1>1, <1>4, <1>5 DEF IInv, OneInstance, Child, Live
<1>10. NeverSignalsForeign'
  BY <1>4, <1>5 DEF IInv, NeverSignalsForeign
<1> QED BY <1>6, <1>7, <1>8, <1>9, <1>10

\* waitpid of the stored, terminated child of s, and forgetting its pid.
LEMMA ReapKeepsTrack ==
  ASSUME IInv, TypeOK', NEW s \in Services, pid[s] # NoPid, ~Alive(pid[s]),
         Reap(pid[s]), pid' = [pid EXCEPT ![s] = NoPid],
         NEW st \in {"FAILED", "STOPPED"}, state' = [state EXCEPT ![s] = st],
         Winding => Winding'
  PROVE  Tracked' /\ RunningHasPid' /\ NoneForgotten' /\ OneInstance'
         /\ NeverSignalsForeign'
<1> USE Constants
<1> DEFINE p == pid[s]
<1>1. p \in Pids /\ proc[p] = "zombie" /\ owner[p] = s
  BY StoredPid DEF IInv, Tracked, Child, Live, Alive
<1>2. \A t \in Services : t # s => pid'[t] = pid[t] /\ state'[t] = state[t] /\ pid[t] # p
  BY <1>1 DEF IInv, TypeOK, Tracked
<1>3. pid'[s] = NoPid /\ state'[s] # "RUNNING"
  BY DEF IInv, TypeOK
<1>4. \A q \in Pids : q # p => proc'[q] = proc[q] /\ owner'[q] = owner[q]
  BY <1>1 DEF IInv, TypeOK, Reap
<1>5. proc'[p] = "free"
  BY <1>1 DEF IInv, TypeOK, Reap
<1>6. Tracked'
  BY <1>2, <1>3, <1>4, StoredPid DEF IInv, Tracked, Child, Live
<1>7. RunningHasPid'
  BY <1>2, <1>3 DEF IInv, RunningHasPid
<1>8. NoneForgotten'
  <2> SUFFICES ASSUME NEW q \in Pids, Child(q)'
               PROVE  owner'[q] \in Services /\ (Winding' \/ pid'[owner'[q]] = q)
    BY DEF NoneForgotten
  <2>1. q # p /\ Child(q) /\ owner'[q] = owner[q]
    BY <1>4, <1>5 DEF Child, Live
  <2>2. owner[q] \in Services /\ owner[q] # s
    BY <2>1, <1>1 DEF IInv, NoneForgotten, OneInstance, Child, Live
  <2> QED BY <2>1, <2>2, <1>2 DEF IInv, NoneForgotten
<1>9. OneInstance'
  BY <1>4, <1>5 DEF IInv, OneInstance, Child, Live
<1>10. NeverSignalsForeign'
  BY <1>4, <1>5 DEF IInv, NeverSignalsForeign
<1> QED BY <1>6, <1>7, <1>8, <1>9, <1>10

\* Steps of others: ids of children stay with their owners.
LEMMA ProcKeepsTrack ==
  ASSUME IInv, TypeOK', UNCHANGED <<state, pid, owner>>, Winding => Winding',
         \A p \in Pids : /\ Child(p) <=> Child(p)'
                         /\ proc'[p] # "hit"
  PROVE  Tracked' /\ RunningHasPid' /\ NoneForgotten' /\ OneInstance'
         /\ NeverSignalsForeign'
<1> USE Constants
<1>1. Tracked'
  BY StoredPid DEF IInv, Tracked, Child, Live
<1>2. RunningHasPid' /\ NeverSignalsForeign'
  BY DEF IInv, RunningHasPid, NeverSignalsForeign
<1>3. NoneForgotten'
  BY DEF IInv, NoneForgotten, Child, Live
<1>4. OneInstance'
  BY DEF IInv, OneInstance, Child, Live
<1> QED BY <1>1, <1>2, <1>3, <1>4

\* Steps that leave the supervisor's tables and the counters alone.
LEMMA CountersKept ==
  ASSUME IInv, UNCHANGED <<state, pid, restart_count, policy, launches>>,
         pc' = "start" => pc = "start" /\ i' = i
  PROVE  Accounted' /\ PolicyAtStart' /\ GivenUpStaysFailed'
<1> USE Constants
<1>1. Accounted'
  BY DEF IInv, Accounted
<1>2. PolicyAtStart' /\ GivenUpStaysFailed'
  BY DEF IInv, PolicyAtStart, GivenUpStaysFailed
<1> QED BY <1>1, <1>2

LEMMA InvInit == Init => IInv
<1> SUFFICES ASSUME Init PROVE IInv
  OBVIOUS
<1> USE Constants DEF Init
<1>1. TypeOK
  <2>1. N \in Nat /\ 1 \in 1..(N+1) /\ 0 \in 0..MaxSignals /\ 0 \in 0..N
    BY SignalsAssumption
  <2> QED BY <2>1 DEF TypeOK, States, ProcStates, Live, PCs, Policies
<1>2. Tracked /\ RunningHasPid /\ NoneForgotten /\ OneInstance /\ NeverSignalsForeign
  BY DEF Tracked, RunningHasPid, NoneForgotten, OneInstance, NeverSignalsForeign, Child, Live
<1>3. Accounted /\ PolicyAtStart /\ GivenUpStaysFailed
  BY DEF Accounted, PolicyAtStart, GivenUpStaysFailed
<1> QED BY <1>1, <1>2, <1>3 DEF IInv

LEMMA InvStep == IInv /\ [Next]_vars => IInv'
<1> SUFFICES ASSUME IInv, [Next]_vars PROVE IInv'
  OBVIOUS
<1> USE Constants
<1>0. TypeOK /\ TypeOK'
  BY TypeStep DEF IInv
<1> DEFINE Procs == Tracked /\ RunningHasPid /\ NoneForgotten /\ OneInstance
                    /\ NeverSignalsForeign
           Counts == Accounted /\ PolicyAtStart /\ GivenUpStaysFailed
<1>q. SUFFICES Procs' /\ Counts'
  BY <1>0 DEF IInv
<1>1. CASE StartService
  <2> USE <1>1 DEF StartService
  <2> PICK p \in Pids : Forked(i, p)
    OBVIOUS
  <2>1. Procs'
    BY <1>0, ForkKeepsTrack DEF Winding
  <2>2. Accounted'
    BY <1>0 DEF IInv, TypeOK, Accounted, Forked, Services
  <2>3. PolicyAtStart' /\ GivenUpStaysFailed'
    BY DEF IInv, PolicyAtStart, GivenUpStaysFailed, Forked
  <2> QED BY <2>1, <2>2, <2>3
<1>2. CASE StartFails
  <2> USE <1>2 DEF StartFails, ForkFailed, os, history
  <2>1. Procs'
    BY <1>0 DEF IInv, TypeOK, Tracked, RunningHasPid, NoneForgotten, OneInstance,
                NeverSignalsForeign, Child, Live, Winding
  <2>2. Counts'
    BY <1>0 DEF IInv, TypeOK, Accounted, PolicyAtStart, GivenUpStaysFailed
  <2> QED BY <2>1, <2>2
<1>3. CASE StartDone \/ LoopTest \/ PollSkip \/ PollDone \/ HandleSkip
           \/ HandleDone \/ StopSkip \/ StopDone \/ Signal \/ UNCHANGED vars
  <2>1. /\ UNCHANGED <<runtime, os, history>>
        /\ Winding => Winding'
        /\ pc' = "start" => pc = "start" /\ i' = i
    BY <1>3 DEF StartDone, LoopTest, PollSkip, PollDone, HandleSkip, HandleDone,
                StopSkip, StopDone, Signal, vars, control, Winding
  <2>2. Procs'
    BY <1>0, <2>1, ProcKeepsTrack DEF IInv, NeverSignalsForeign, Child, Live, runtime, os
  <2>4. Counts'
    BY <2>1, CountersKept DEF runtime, history
  <2> QED BY <2>2, <2>4
<1>4. CASE PollReaps
  <2> USE <1>4 DEF PollReaps
  <2>1. Procs'
    BY <1>0, ReapKeepsTrack, StoredPid DEF Polled, Winding
  <2>2. Counts'
    BY <1>0 DEF IInv, TypeOK, Accounted, PolicyAtStart, GivenUpStaysFailed, Polled, history
  <2> QED BY <2>1, <2>2
<1>5. CASE HandleGivesUp
  <2> USE <1>5 DEF HandleGivesUp
  <2>1. Procs'
    BY <1>0, ProcKeepsTrack DEF IInv, NeverSignalsForeign, Child, Live, Winding, os
  <2>2. Accounted' /\ PolicyAtStart'
    BY <1>0 DEF IInv, TypeOK, Accounted, PolicyAtStart, history
  <2>3. GivenUpStaysFailed'
    BY <1>0 DEF IInv, TypeOK, GivenUpStaysFailed, Restartable, BudgetSpent, Accounted,
                RunningHasPid
  <2> QED BY <2>1, <2>2, <2>3
<1>6. CASE HandleRestarts
  <2> USE <1>6 DEF HandleRestarts
  <2>1. CASE ForkFailed(i)
    <3>1. Procs'
      BY <1>0, <2>1 DEF ForkFailed, os, history, IInv, TypeOK, Tracked, RunningHasPid,
           NoneForgotten, OneInstance, NeverSignalsForeign, Child, Live, Winding, Restartable
    <3>2. Accounted' /\ PolicyAtStart'
      BY <1>0, <2>1 DEF ForkFailed, history, IInv, TypeOK, Accounted, PolicyAtStart, BudgetSpent
    <3>3. GivenUpStaysFailed'
      BY <1>0, <2>1 DEF ForkFailed, IInv, TypeOK, GivenUpStaysFailed, Restartable
    <3> QED BY <3>1, <3>2, <3>3
  <2>2. CASE \E p \in Pids : Forked(i, p)
    <3> PICK p \in Pids : Forked(i, p)
      BY <2>2
    <3>1. Procs'
      BY <1>0, ForkKeepsTrack DEF Winding, Restartable
    <3>2. Accounted' /\ PolicyAtStart'
      BY <1>0 DEF Forked, IInv, TypeOK, Accounted, PolicyAtStart, BudgetSpent
    <3>3. GivenUpStaysFailed'
      BY <1>0 DEF Forked, IInv, TypeOK, GivenUpStaysFailed, Restartable
    <3> QED BY <3>1, <3>2, <3>3
  <2> QED BY <2>1, <2>2
<1>7. CASE StopSignals
  <2> USE <1>7 DEF StopSignals
  <2>1. Child(pid[i]) /\ pid[i] \in Pids
    BY <1>0, StoredPid DEF IInv, Tracked
  <2>2. \A p \in Pids : (Child(p) <=> Child(p)') /\ proc'[p] # "hit"
    BY <1>0, <2>1 DEF Kill, Child, Live, IInv, TypeOK, NeverSignalsForeign
  <2>3. Procs'
    BY <1>0, <2>2, ProcKeepsTrack DEF runtime, Winding
  <2>4. Counts'
    BY CountersKept DEF runtime, history
  <2> QED BY <2>3, <2>4
<1>8. CASE StopReaps
  <2> USE <1>8 DEF StopReaps, Stopped
  <2>1. Procs'
    BY <1>0, ReapKeepsTrack, StoredPid DEF TypeOK, Winding
  <2>2. Counts'
    BY <1>0 DEF IInv, TypeOK, Accounted, PolicyAtStart, GivenUpStaysFailed, history
  <2> QED BY <2>1, <2>2
<1>9. CASE SignalInterruptsWait
  <2> USE <1>9 DEF SignalInterruptsWait, Stopped
  <2>1. Procs'
    BY <1>0 DEF IInv, TypeOK, os, Tracked, RunningHasPid, NoneForgotten, OneInstance,
                NeverSignalsForeign, Child, Live, Winding
  <2>2. Counts'
    BY <1>0 DEF IInv, TypeOK, Accounted, PolicyAtStart, GivenUpStaysFailed, history
  <2> QED BY <2>1, <2>2
<1>10. CASE \E p \in Pids : Exec(p) \/ ChildExits(p) \/ ForeignSpawns(p) \/ ForeignExits(p)
  <2>1. \A p \in Pids : (Child(p) <=> Child(p)') /\ proc'[p] # "hit"
    BY <1>0, <1>10 DEF Exec, ChildExits, ForeignSpawns, ForeignExits, Child, Live, Alive, IInv,
                       TypeOK, NeverSignalsForeign
  <2>2. UNCHANGED <<runtime, control, owner, history>>
    BY <1>10 DEF Exec, ChildExits, ForeignSpawns, ForeignExits
  <2>4. Procs' /\ Counts'
    BY <1>0, <2>1, <2>2, ProcKeepsTrack, CountersKept
       DEF runtime, control, history, Winding
  <2> QED BY <2>4
<1>11. CASE \E s \in Services : Chronoctl(s)
  <2>1. \A p \in Pids : (Child(p) <=> Child(p)') /\ proc'[p] # "hit"
    BY <1>0, <1>11 DEF Chronoctl, Child, Live, IInv, TypeOK, NeverSignalsForeign
  <2>2. UNCHANGED <<runtime, control, owner, launches>>
    BY <1>11 DEF Chronoctl
  <2>4. Procs' /\ Counts'
    BY <1>0, <2>1, <2>2, ProcKeepsTrack, CountersKept
       DEF runtime, control, Winding
  <2> QED BY <2>4
<1> QED BY <1>1, <1>2, <1>3, <1>4, <1>5, <1>6, <1>7, <1>8, <1>9, <1>10, <1>11
        DEF Next, Main

\* The supervisor's tables always have their types and supervisor_stop waits
\* for a pid that it stored.
THEOREM TypeCorrect == Spec => []TypeOK
<1>1. Spec => []IInv
  BY InvInit, InvStep, PTL DEF Spec
<1>2. IInv => TypeOK
  BY DEF IInv
<1> QED BY <1>1, <1>2, PTL

\* For every registry and every way process ids are recycled, supervisor_stop
\* never signals a process that is not a child of chrono-init.
THEOREM KillIsSafe == Spec => []NeverSignalsForeign
<1>1. Spec => []IInv
  BY InvInit, InvStep, PTL DEF Spec
<1>2. IInv => NeverSignalsForeign
  BY DEF IInv
<1> QED BY <1>1, <1>2, PTL

\* No service ever has two processes at a time.
THEOREM NoDoubleLaunch == Spec => []OneInstance
<1>1. Spec => []IInv
  BY InvInit, InvStep, PTL DEF Spec
<1>2. IInv => OneInstance
  BY DEF IInv
<1> QED BY <1>1, <1>2, PTL

\* supervisor_handle_failures keeps every service within its restart budget.
THEOREM RestartsAreBounded == Spec => []LaunchBudget
<1>1. Spec => []IInv
  BY InvInit, InvStep, PTL DEF Spec
<1>2. IInv => LaunchBudget
  BY Constants DEF IInv, TypeOK, Accounted, LaunchBudget
<1> QED BY <1>1, <1>2, PTL

\* A service it gave up on stays FAILED, with all its restarts spent.
THEOREM GivenUpIsFinal == Spec => []GivenUpStaysFailed
<1>1. Spec => []IInv
  BY InvInit, InvStep, PTL DEF Spec
<1>2. IInv => GivenUpStaysFailed
  BY DEF IInv
<1> QED BY <1>1, <1>2, PTL
-----------------------------------------------------------------------------
\* The shutdown loop.  It is entered after a signal, so that only a second one
\* can interrupt a waitpid; until then no child is dropped from the table.
StoredAll == \A p \in Pids : Child(p) => pid[owner[p]] = p
StoppedBelow == \A s \in Services : s < i => pid[s] = NoPid
StopInv ==
  /\ shutdown_requested => signals >= 1
  /\ Winding => shutdown_requested
  /\ Winding /\ signals <= 1 => StoredAll /\ StoppedBelow
  /\ pc = "exit_success" => i > N

LEMMA StopInit == Init => StopInv
BY DEF Init, StopInv, Winding

LEMMA StopStep == IInv /\ StopInv /\ [Next]_vars => StopInv'
<1> SUFFICES ASSUME IInv, StopInv, [Next]_vars PROVE StopInv'
  OBVIOUS
<1> USE Constants
<1>0. TypeOK /\ signals \in Nat /\ N \in Nat
  BY SignalsAssumption DEF IInv, TypeOK
<1>1. CASE StartService \/ StartFails \/ StartDone \/ PollSkip \/ PollReaps \/ PollDone
           \/ HandleSkip \/ HandleGivesUp \/ HandleRestarts \/ HandleDone
  <2>1. ~Winding' /\ UNCHANGED <<shutdown_requested, signals>>
    BY <1>1 DEF StartService, StartFails, StartDone, PollSkip, PollReaps, PollDone,
         HandleSkip, HandleGivesUp, HandleRestarts, HandleDone, Winding
  <2> QED BY <2>1 DEF StopInv, Winding
<1>2. CASE LoopTest
  <2>1. /\ UNCHANGED <<runtime, shutdown_requested, signals, os>> /\ ~Winding /\ i' = 1
        /\ (pc' = "stop" /\ shutdown_requested) \/ (~Winding' /\ pc' = "poll")
    BY <1>2 DEF LoopTest, Winding
  <2>2. StoredAll'
    BY <2>1 DEF IInv, NoneForgotten, StoredAll, Child, Live, runtime, os
  <2>3. StoppedBelow'
    BY <2>1 DEF StoppedBelow, Services
  <2> QED BY <2>1, <2>2, <2>3 DEF StopInv, Winding
<1>3. CASE StopSkip
  <2>1. pid[i] = NoPid /\ i \in Services
    BY <1>0, <1>3 DEF StopSkip, TypeOK
  <2>2. StoppedBelow => StoppedBelow'
    BY <1>0, <1>3, <2>1 DEF StopSkip, StoppedBelow, runtime, Services
  <2>3. StoredAll => StoredAll'
    BY <1>3 DEF StopSkip, StoredAll, Child, Live, runtime, os
  <2> QED BY <1>3, <2>2, <2>3 DEF StopInv, StopSkip, Winding
<1>4. CASE StopSignals
  <2>1. \A p \in Pids : Child(p)' => Child(p)
    BY <1>0, <1>4 DEF StopSignals, Kill, Child, Live, TypeOK
  <2>2. StoredAll => StoredAll'
    BY <1>4, <2>1 DEF StopSignals, StoredAll, runtime
  <2>3. StoppedBelow => StoppedBelow'
    BY <1>4 DEF StopSignals, StoppedBelow, runtime
  <2> QED BY <1>4, <2>2, <2>3 DEF StopInv, StopSignals, Winding
<1>5. CASE StopReaps
  <2>1. /\ i \in Services /\ pid[i] \in Pids /\ proc[pid[i]] = "zombie" /\ pid[i] # NoPid
        /\ pid' = [pid EXCEPT ![i] = NoPid] /\ i' = i + 1
    BY <1>0, <1>5 DEF StopReaps, Stopped, TypeOK, IInv, Tracked, Child, Live, Alive
  <2>2. /\ proc' = [proc EXCEPT ![pid[i]] = "free"]
        /\ owner' = [owner EXCEPT ![pid[i]] = 0]
    BY <1>5, <2>1 DEF StopReaps, Reap
  <2>3. \A p \in Pids : Child(p)' => Child(p) /\ p # pid[i] /\ owner'[p] = owner[p]
    BY <1>0, <2>1, <2>2 DEF Child, Live, TypeOK
  <2>4. StoredAll => StoredAll'
    BY <1>0, <2>1, <2>3 DEF StoredAll, IInv, NoneForgotten, TypeOK
  <2>5. StoppedBelow => StoppedBelow'
    BY <1>0, <2>1 DEF StoppedBelow, TypeOK, Services
  <2> QED BY <1>5, <2>4, <2>5 DEF StopInv, StopReaps, Winding
<1>6. CASE StopDone
  BY <1>6 DEF StopDone, StopInv, Winding, StoredAll, StoppedBelow, Child, Live, runtime, os
<1>7. CASE Signal
  <2>1. /\ UNCHANGED <<runtime, pc, i, os>> /\ signals' = signals + 1 /\ shutdown_requested'
    BY <1>7 DEF Signal
  <2>2. Winding' => signals' > 1
    BY <1>0, <2>1 DEF StopInv, Winding
  <2> QED BY <1>0, <1>7, <2>1, <2>2 DEF StopInv, Winding, Signal
<1>8. CASE SignalInterruptsWait
  <2>1. signals' = signals + 1 /\ shutdown_requested' /\ Winding /\ pc' = "stop"
    BY <1>8 DEF SignalInterruptsWait, Winding
  <2>2. signals' > 1
    BY <1>0, <2>1 DEF StopInv
  <2> QED BY <1>0, <2>1, <2>2 DEF StopInv
<1>9. CASE \/ \E p \in Pids : Exec(p) \/ ChildExits(p) \/ ForeignSpawns(p) \/ ForeignExits(p)
           \/ \E s \in Services : Chronoctl(s)
           \/ UNCHANGED vars
  <2>1. /\ UNCHANGED <<runtime, control, owner>>
        /\ \A p \in Pids : Child(p)' => Child(p)
    BY <1>0, <1>9 DEF Exec, ChildExits, ForeignSpawns, ForeignExits, Chronoctl, Child, Live, Alive,
         TypeOK, vars, os
  <2>2. StoredAll => StoredAll'
    BY <2>1 DEF StoredAll, runtime
  <2> QED BY <2>1, <2>2 DEF StopInv, StoppedBelow, Winding, runtime, control
<1> QED BY <1>1, <1>2, <1>3, <1>4, <1>5, <1>6, <1>7, <1>8, <1>9 DEF Next, Main

\* A single SIGTERM or SIGINT leaves no service process behind when main
\* returns, however many services die and are restarted meanwhile.
THEOREM ShutdownIsClean == Spec => []FirstSignalStopsAll
<1>1. Spec => []IInv
  BY InvInit, InvStep, PTL DEF Spec
<1>2. Spec => [](IInv /\ StopInv)
  BY <1>1, StopInit, StopStep, PTL DEF Spec
<1>3. IInv /\ StopInv => FirstSignalStopsAll
  <2> SUFFICES ASSUME IInv, StopInv, signals <= 1, pc = "exit_success",
                      NEW p \in Pids, Child(p)
               PROVE  FALSE
    BY DEF FirstSignalStopsAll, NoServiceOutlivesInit
  <2>1. pid[owner[p]] = p /\ owner[p] \in Services /\ owner[p] < i
    BY Constants DEF StopInv, Winding, StoredAll, IInv, NoneForgotten, TypeOK, Services
  <2>2. pid[owner[p]] = NoPid
    BY <2>1 DEF StopInv, Winding, StoppedBelow
  <2> QED BY <2>1, <2>2, Constants
<1> QED BY <1>2, <1>3, PTL
=============================================================================
