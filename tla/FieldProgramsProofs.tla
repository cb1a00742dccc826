------------------------ MODULE FieldProgramsProofs ------------------------
(***************************************************************************)
(* The programs of MCFieldPrograms, for every value of their constants:    *)
(* there is one ChronoD, the 5G manager's ledger is truthful, the CAN and  *)
(* Modbus guards decide alike however rules and frames are cut, and the    *)
(* diagnosis engines agree and do not call a worse site better.            *)
(***************************************************************************)
EXTENDS MCFieldPrograms, WellFoundedInduction, FiniteSetTheorems, TLAPS

\* A step of the composition is a step of each program, or leaves it alone.
LEMMA CoreStep == [Next]_vars => [Core5G!Next]_coreVars
BY DEF Next, vars, gateVars, coreVars, pidVars, canVars, modbusVars

LEMMA CanStep == [Next]_vars => [Can!Next]_canVars
BY DEF Next, vars, gateVars, coreVars, pidVars, canVars, modbusVars

LEMMA ModbusStep == [Next]_vars => [Modbus!Next]_modbusVars
BY DEF Next, vars, gateVars, coreVars, pidVars, canVars, modbusVars

LEMMA PidStep == [Next]_vars => [Pid!Next]_pidVars
BY DEF Next, vars, gateVars, coreVars, pidVars, canVars, modbusVars
-----------------------------------------------------------------------------
\* The PID file.  OneDaemon is not inductive: a daemon that is not yet at work,
\* a stop command under way and a signal on its way all reach the file later.
Live == {p \in Pids : process[p] \in {"forked", "writing", "deaf", "loop"}}
OneLive == \A p, q \in Live : p = q
FileNamesDaemon == \A p \in Pids : process[p] \in {"deaf", "loop"} => pidfile = p
UnlinkIsSafe == \A s \in Stoppers : stopper[s] = "unlink" => Live = {}
SignalIsFresh == \A p \in signalled : process[p] # "ending"

PidInv ==
  /\ Pid!TypeOK
  /\ \A p \in Pids : process[p] = "ending" => pidfile # p
  /\ ~overlapped => OneLive /\ FileNamesDaemon /\ UnlinkIsSafe /\ SignalIsFresh

Reused(p) == \E owner \in {"foreign", "stranger"} : Pid!NumberReused(p, owner)

LEMMA PidInit == Pid!Init => PidInv
<1> SUFFICES ASSUME Pid!Init PROVE PidInv
  OBVIOUS
<1>1. overlapped \in BOOLEAN
  BY DEF Pid!Init
<1>2. Pid!TypeOK
  BY <1>1, DaemonAssumption DEF Pid!Init, Pid!TypeOK
<1>3. \A p \in Pids : process[p] = "free"
  BY DEF Pid!Init
<1>4. Live = {} /\ signalled = {}
  BY <1>3 DEF Live, Pid!Init
<1> QED
  BY <1>2, <1>3, <1>4 DEF PidInv, OneLive, FileNamesDaemon, UnlinkIsSafe, SignalIsFresh

\* The numbers of processes that are signalled are in use.
LEMMA PidTypeNext == PidInv /\ [Pid!Next]_pidVars => Pid!TypeOK'
<1> SUFFICES ASSUME PidInv, [Pid!Next]_pidVars PROVE Pid!TypeOK'
  OBVIOUS
<1>t. Pid!TypeOK /\ MaxDaemonCommands \in Nat /\ MaxKills \in Nat
  BY DaemonAssumption DEF PidInv
<1>1. ASSUME Pid!Begins
      PROVE  overlapped' \in BOOLEAN /\ daemonCommands' \in 0..MaxDaemonCommands
  <2>1. overlapped' \in BOOLEAN
    BY <1>1 DEF Pid!Begins
  <2> QED BY <1>1, <1>t, <2>1 DEF Pid!Begins, Pid!TypeOK
<1>2. CASE Pid!StartRefused
  BY <1>t, <1>1, <1>2 DEF Pid!StartRefused, Pid!TypeOK
<1>3. ASSUME NEW p \in Pids, Pid!Start(p) PROVE Pid!TypeOK'
  BY <1>t, <1>1, <1>3 DEF Pid!Start, Pid!TypeOK
<1>4. ASSUME NEW p \in Pids,
             Pid!LoopTruncates(p) \/ Pid!LoopWrites(p) \/ Pid!LoopHandles(p)
      PROVE  Pid!TypeOK'
  BY <1>t, <1>4 DEF Pid!LoopTruncates, Pid!LoopWrites, Pid!LoopHandles, Pid!TypeOK
<1>5. ASSUME NEW p \in Pids, Pid!Term(p) \/ Pid!TermDefault(p) \/ Pid!Exit(p)
      PROVE  Pid!TypeOK'
  BY <1>t, <1>5 DEF Pid!Term, Pid!TermDefault, Pid!Exit, Pid!TypeOK
<1>6. ASSUME NEW p \in Pids, Pid!DaemonKilled(p) \/ Reused(p) PROVE Pid!TypeOK'
  BY <1>t, <1>6 DEF Pid!DaemonKilled, Pid!NumberReused, Reused, Pid!TypeOK
<1>7. ASSUME NEW s \in Stoppers, Pid!StopAsks(s) PROVE Pid!TypeOK'
  BY <1>t, <1>1, <1>7 DEF Pid!StopAsks, Pid!TypeOK
<1>8. ASSUME NEW s \in Stoppers, Pid!StopSignals(s) \/ Pid!StopUnlinks(s) PROVE Pid!TypeOK'
  BY <1>t, <1>8 DEF Pid!StopSignals, Pid!StopUnlinks, Pid!TypeOK, Pid!running
<1>9. CASE UNCHANGED pidVars
  BY <1>t, <1>9 DEF pidVars, Pid!TypeOK
<1> QED BY <1>2, <1>3, <1>4, <1>5, <1>6, <1>7, <1>8, <1>9 DEF Pid!Next, Reused

\* A command that begins without overlapping found everything at rest.
LEMMA BeginsAtRest ==
  ASSUME ~overlapped', Pid!Begins
  PROVE  ~overlapped /\ ~Pid!Unfinished
<1>1. overlapped' = (overlapped \/ Pid!Unfinished)
  BY DEF Pid!Begins
<1> QED BY <1>1, Zenon

\* Nobody but Term ends a daemon in the loop, and Term removes the file.
LEMMA EndingUnnamedNext ==
  PidInv /\ [Pid!Next]_pidVars => (\A p \in Pids : process[p] = "ending" => pidfile # p)'
<1> SUFFICES ASSUME PidInv, [Pid!Next]_pidVars, NEW q \in Pids, process'[q] = "ending"
             PROVE  pidfile' # q
  OBVIOUS
<1>t. Pid!TypeOK /\ \A p \in Pids : process[p] = "ending" => pidfile # p
  BY DEF PidInv
<1>n. NoPid # q /\ Torn # q
  BY PidsAssumption
<1>1. CASE Pid!StartRefused
  BY <1>t, <1>1 DEF Pid!StartRefused
<1>2. ASSUME NEW p \in Pids, \/ Pid!Start(p) \/ Pid!TermDefault(p) \/ Pid!Exit(p)
                             \/ Pid!DaemonKilled(p) \/ Reused(p)
                             \/ Pid!LoopHandles(p)
      PROVE  pidfile' # q
  BY <1>t, <1>2 DEF Pid!Start, Pid!TermDefault, Pid!Exit, Pid!DaemonKilled,
                    Pid!NumberReused, Reused, Pid!LoopHandles, Pid!TypeOK
<1>3. ASSUME NEW p \in Pids, \/ Pid!LoopTruncates(p) \/ Pid!LoopWrites(p) \/ Pid!Term(p)
      PROVE  pidfile' # q
  BY <1>t, <1>n, <1>3 DEF Pid!LoopTruncates, Pid!LoopWrites, Pid!Term, Pid!TypeOK
<1>4. ASSUME NEW s \in Stoppers, Pid!StopAsks(s) \/ Pid!StopSignals(s) \/ Pid!StopUnlinks(s)
      PROVE  pidfile' # q
  BY <1>t, <1>n, <1>4 DEF Pid!StopAsks, Pid!StopSignals, Pid!StopUnlinks
<1>5. CASE UNCHANGED pidVars
  BY <1>t, <1>5 DEF pidVars
<1> QED BY <1>1, <1>2, <1>3, <1>4, <1>5 DEF Pid!Next, Reused

LEMMA SafeNext ==
  PidInv /\ [Pid!Next]_pidVars
    => (~overlapped => OneLive /\ FileNamesDaemon /\ UnlinkIsSafe /\ SignalIsFresh)'
<1> DEFINE Safe == OneLive /\ FileNamesDaemon /\ UnlinkIsSafe /\ SignalIsFresh
<1> SUFFICES ASSUME PidInv, [Pid!Next]_pidVars, ~overlapped' PROVE Safe'
  OBVIOUS
<1>t. Pid!TypeOK /\ (~overlapped => Safe) /\ \A p \in Pids : process[p] = "ending" => pidfile # p
  BY DEF PidInv
<1>b. ASSUME Pid!Begins
      PROVE  /\ Safe /\ signalled = {} /\ \A s \in Stoppers : stopper[s] = "idle"
             /\ \A p \in Pids : process[p] \notin {"forked", "writing"}
             /\ ~Pid!running => Live = {}
  <2>1. Safe /\ ~Pid!Unfinished
    BY <1>b, <1>t, BeginsAtRest
  <2>2. \A p \in Pids : process[p] \notin {"forked", "writing"}
    BY <2>1 DEF Pid!Unfinished
  <2>3. ASSUME ~Pid!running PROVE Live = {}
    <3>1. \A p \in Pids : process[p] \in {"deaf", "loop"} => Pid!running
      BY <2>1 DEF FileNamesDaemon, Pid!running
    <3> QED BY <2>2, <2>3, <3>1 DEF Live
  <2> QED BY <2>1, <2>2, <2>3 DEF Pid!Unfinished
<1>1. CASE Pid!StartRefused
  <2>1. Safe /\ UNCHANGED <<pidfile, process, signalled, stopper>>
    BY <1>1, <1>b DEF Pid!StartRefused
  <2> QED BY <2>1 DEF OneLive, Live, FileNamesDaemon, UnlinkIsSafe, SignalIsFresh
<1>2. ASSUME NEW p \in Pids, Pid!Start(p) PROVE Safe'
  <2>1. Live = {} /\ signalled = {} /\ \A s \in Stoppers : stopper[s] = "idle"
    BY <1>2, <1>b DEF Pid!Start
  <2>2. process' = [process EXCEPT ![p] = "forked"] /\ UNCHANGED <<signalled, stopper>>
    BY <1>2 DEF Pid!Start
  <2>3. process'[p] = "forked" /\ \A q \in Pids : q # p => process'[q] = process[q]
    BY <1>t, <2>2 DEF Pid!TypeOK
  <2>4. \A q \in Pids : process[q] \notin {"forked", "writing", "deaf", "loop"}
    BY <2>1 DEF Live
  <2> QED BY <2>1, <2>2, <2>3, <2>4
          DEF OneLive, Live, FileNamesDaemon, UnlinkIsSafe, SignalIsFresh
<1>3. ASSUME NEW p \in Pids,
             Pid!LoopTruncates(p) \/ Pid!LoopWrites(p) \/ Pid!LoopHandles(p)
      PROVE  Safe'
  <2>1. Safe
    BY <1>3, <1>t DEF Pid!LoopTruncates, Pid!LoopWrites, Pid!LoopHandles
  <2>2. /\ process[p] \in {"forked", "writing", "deaf"}
        /\ process'[p] \in {"writing", "deaf", "loop"}
        /\ \A q \in Pids : q # p => process'[q] = process[q]
        /\ UNCHANGED <<signalled, stopper>>
        /\ process'[p] \in {"deaf", "loop"} => pidfile' = p
    BY <1>3, <1>t, <2>1
    DEF Pid!LoopTruncates, Pid!LoopWrites, Pid!LoopHandles, Pid!TypeOK, FileNamesDaemon
  <2>3. \A q \in Pids : process[q] \in {"forked", "writing", "deaf", "loop"} => q = p
    BY <2>1, <2>2 DEF OneLive, Live
  <2>4. p \in Live
    BY <2>2 DEF Live
  <2> QED BY <1>t, <2>1, <2>2, <2>3, <2>4
          DEF OneLive, Live, FileNamesDaemon, UnlinkIsSafe, SignalIsFresh, Pid!TypeOK
<1>4. ASSUME NEW p \in Pids, Pid!Term(p) PROVE Safe'
  <2>1. Safe
    BY <1>4, <1>t DEF Pid!Term
  <2>2. process[p] = "loop"
    BY <1>4, <2>1 DEF Pid!Term, SignalIsFresh
  <2>3. /\ process'[p] = "ending" /\ \A q \in Pids : q # p => process'[q] = process[q]
        /\ signalled' = signalled \ {p} /\ stopper' = stopper
    BY <1>4, <1>t DEF Pid!Term, Pid!TypeOK
  <2>4. \A q \in Pids : process[q] \in {"forked", "writing", "deaf", "loop"} => q = p
    BY <2>1, <2>2 DEF OneLive, Live
  <2>5. p \in Live
    BY <2>2 DEF Live
  <2> QED BY <1>t, <2>1, <2>3, <2>4, <2>5
          DEF OneLive, Live, FileNamesDaemon, UnlinkIsSafe, SignalIsFresh, Pid!TypeOK
<1>5. ASSUME NEW p \in Pids, \/ Pid!TermDefault(p) \/ Pid!Exit(p) \/ Pid!DaemonKilled(p)
                             \/ Reused(p)
      PROVE  Safe'
  <2>1. Safe
    BY <1>5, <1>t DEF Pid!TermDefault, Pid!Exit, Pid!DaemonKilled, Pid!NumberReused, Reused
  <2>2. /\ process'[p] \in {"free", "foreign", "stranger"}
        /\ \A q \in Pids : q # p => process'[q] = process[q]
        /\ signalled' \subseteq signalled /\ stopper' = stopper /\ pidfile' = pidfile
    BY <1>5, <1>t
    DEF Pid!TermDefault, Pid!Exit, Pid!DaemonKilled, Pid!NumberReused, Reused, Pid!TypeOK
  <2>3. Live' \subseteq Live
    BY <2>2 DEF Live
  <2> QED BY <1>t, <2>1, <2>2, <2>3
          DEF OneLive, FileNamesDaemon, UnlinkIsSafe, SignalIsFresh, Pid!TypeOK
<1>6. ASSUME NEW s \in Stoppers, Pid!StopAsks(s) PROVE Safe'
  <2>1. /\ Safe /\ UNCHANGED <<pidfile, process, signalled>>
        /\ ~Pid!running => Live = {}
    BY <1>6, <1>b DEF Pid!StopAsks
  <2>2. \A r \in Stoppers : stopper'[r] = "unlink" => stopper[r] = "unlink" \/ ~Pid!running
    BY <1>6, <1>t DEF Pid!StopAsks, Pid!TypeOK
  <2>3. Live' = Live
    BY <2>1 DEF Live
  <2> QED BY <2>1, <2>2, <2>3 DEF OneLive, FileNamesDaemon, UnlinkIsSafe, SignalIsFresh
<1>7. ASSUME NEW s \in Stoppers, Pid!StopSignals(s) PROVE Safe'
  <2>1. Safe /\ UNCHANGED <<pidfile, process>>
    BY <1>7, <1>t DEF Pid!StopSignals
  <2>2. \A r \in Stoppers : stopper'[r] = "unlink" => stopper[r] = "unlink"
    BY <1>7, <1>t DEF Pid!StopSignals, Pid!TypeOK
  <2>3. \A q \in signalled' : q \in signalled \/ (q = pidfile /\ q \in Pids)
    BY <1>7 DEF Pid!StopSignals, Pid!running
  <2>4. Live' = Live
    BY <2>1 DEF Live
  <2> QED BY <1>t, <2>1, <2>2, <2>3, <2>4
          DEF OneLive, FileNamesDaemon, UnlinkIsSafe, SignalIsFresh
<1>8. ASSUME NEW s \in Stoppers, Pid!StopUnlinks(s) PROVE Safe'
  <2>1. Safe /\ UNCHANGED <<process, signalled>> /\ stopper[s] = "unlink"
    BY <1>8, <1>t DEF Pid!StopUnlinks
  <2>2. \A r \in Stoppers : stopper'[r] = "unlink" => stopper[r] = "unlink"
    BY <1>8, <1>t DEF Pid!StopUnlinks, Pid!TypeOK
  <2>3. Live' = Live /\ Live = {}
    BY <2>1 DEF Live, UnlinkIsSafe
  <2>4. \A q \in Pids : process'[q] \notin {"deaf", "loop"}
    BY <2>3 DEF Live
  <2> QED BY <2>1, <2>2, <2>3, <2>4 DEF OneLive, FileNamesDaemon, UnlinkIsSafe, SignalIsFresh
<1>9. CASE UNCHANGED pidVars
  BY <1>t, <1>9 DEF pidVars, OneLive, Live, FileNamesDaemon, UnlinkIsSafe, SignalIsFresh
<1> QED BY <1>1, <1>2, <1>3, <1>4, <1>5, <1>6, <1>7, <1>8, <1>9 DEF Pid!Next, Reused

LEMMA PidInvHolds == Spec => []PidInv
<1>1. Init => PidInv
  BY PidInit DEF Init
<1>2. PidInv /\ [Next]_vars => PidInv'
  BY PidStep, PidTypeNext, EndingUnnamedNext, SafeNext DEF PidInv
<1> QED BY <1>1, <1>2, PTL DEF Spec

\* agent.py: two daemons never work on one queue and the PID file names the one
\* that does, whichever daemons are killed and numbers reused, unless a command
\* was given before the effect of the one before was there.
THEOREM DaemonIsUnique == Spec => []OneDaemon
<1>1. PidInv => OneDaemon
  BY DEF PidInv, OneLive, Live, FileNamesDaemon, OneDaemon, Pid!OneDaemon, Pid!Daemons
<1> QED BY <1>1, PidInvHolds, PTL

-----------------------------------------------------------------------------
\* The 5G manager.  LedgerIsTruthful speaks of commands that have ended; the
\* parts below say what a command under way has done so far.
ManagerShape ==
  \A m \in Managers :
    LET c == manager[m] IN
    \/ c = Core5G!Resting
    \/ /\ c.op \in {"add", "remove"} /\ c.imsi \in Imsis /\ c.at \in {"dbctl", "log"}
       /\ c.at = "dbctl" => c.failed = 0
    \/ /\ c.op = "panic" /\ c.imsi = BadImsi /\ c.at \in {"stop", "log"}
       /\ c.at = "stop" => c.failed < c.next

\* Commands about one IMSI do not overlap unless it is marked unclear.
OneCommand ==
  \A i \in Imsis \ unclear : \A m, n \in Managers :
    manager[m].imsi = i /\ manager[n].imsi = i => m = n

\* What a command is about to record is what Open5GS does.
CoreFollows ==
  \A m \in Managers :
    manager[m].imsi \in Imsis \ unclear /\ manager[m].at = "log" /\ manager[m].failed = 0 =>
      /\ manager[m].op = "add" => manager[m].imsi \in core
      /\ manager[m].op = "remove" => manager[m].imsi \notin core

LocalFirst ==
  /\ \A i \in core : subscribers[i] > 0
  /\ \A m \in Managers : manager[m].op = "add" => subscribers[manager[m].imsi] > 0
  /\ \A i \in Imsis : subscribers[i] <= commands

\* The services a shutdown without a failure has gone through are down.
StoppedSoFar ==
  /\ \A m \in Managers : manager[m].op = "panic" /\ manager[m].failed = 0 =>
       /\ manager[m].at = "stop" => \A k \in 1..3 : k < manager[m].next => service[k] = "down"
       /\ manager[m].at = "log" => \A k \in 1..3 : service[k] = "down"
  /\ "5G_CORE_PANIC_SHUTDOWN" \in shutdowns => \A k \in 1..3 : service[k] = "down"

CoreInv ==
  /\ Core5G!TypeOK /\ ManagerShape /\ OneCommand
  /\ CoreFollows /\ Core5G!TrailIsTrue /\ LocalFirst /\ StoppedSoFar

LEMMA ServicesAre == Len(Core5G!Services) = 3
BY DEF Core5G!Services

LEMMA RestingIs ==
  /\ Core5G!Resting.op = "none" /\ Core5G!Resting.imsi = BadImsi
  /\ Core5G!Resting.at = "idle" /\ Core5G!Resting.failed = 0 /\ Core5G!Resting.next = 1
  /\ BadImsi \notin Imsis
BY ImsisAssumption DEF Core5G!Resting, Core5G!Command

CommandType ==
  [op : {"none", "add", "remove", "panic"}, imsi : Imsis \cup {BadImsi},
   at : {"idle", "dbctl", "stop", "log"}, failed : 0..3, next : 1..3]

LEMMA CoreInit == Core5G!Init => CoreInv
<1> SUFFICES ASSUME Core5G!Init PROVE CoreInv
  OBVIOUS
<1>1. Core5G!Resting \in CommandType
  BY DEF Core5G!Resting, Core5G!Command, CommandType
<1>2. \A m \in Managers : manager[m] = Core5G!Resting
  BY DEF Core5G!Init
<1>3. Core5G!TypeOK
  BY <1>1, IssuedAssumption DEF Core5G!Init, Core5G!TypeOK, CommandType
<1>4. ManagerShape /\ OneCommand /\ CoreFollows
  BY <1>2, RestingIs DEF ManagerShape, OneCommand, CoreFollows
<1>5. Core5G!TrailIsTrue /\ LocalFirst /\ StoppedSoFar
  BY <1>2, RestingIs
  DEF Core5G!Init, Core5G!TrailIsTrue, LocalFirst, StoppedSoFar
<1> QED BY <1>3, <1>4, <1>5 DEF CoreInv


\* A command that starts.
LEMMA CommandIs ==
  ASSUME NEW op \in {"add", "remove", "panic"}, NEW i \in Imsis \cup {BadImsi},
         NEW at \in {"dbctl", "stop"}
  PROVE  LET c == Core5G!Command(op, i, at) IN
         c \in CommandType /\ c.op = op /\ c.imsi = i /\ c.at = at /\ c.failed = 0 /\ c.next = 1
BY DEF Core5G!Command, CommandType

\* What one command does leaves the others as they are.
LEMMA OthersStay ==
  ASSUME manager \in [Managers -> CommandType], NEW m \in Managers, NEW c \in CommandType,
         manager' = [manager EXCEPT ![m] = c]
  PROVE  /\ manager' \in [Managers -> CommandType] /\ manager'[m] = c
         /\ \A n \in Managers : n # m => manager'[n] = manager[n]
OBVIOUS

\* The command after open5gs-dbctl ...
LEMMA DbctlIs ==
  ASSUME manager \in [Managers -> CommandType], NEW m \in Managers,
         Core5G!DbctlWorks(m) \/ Core5G!DbctlFails(m)
  PROVE  /\ manager' \in [Managers -> CommandType]
         /\ manager'[m].op = manager[m].op /\ manager'[m].imsi = manager[m].imsi
         /\ manager'[m].at = "log"
         /\ \A n \in Managers : n # m => manager'[n] = manager[n]
         /\ core' \in {core, Core5G!Applied(m)}
         /\ manager[m].failed = 0 /\ manager'[m].failed = 0 => core' = Core5G!Applied(m)
<1>1. CASE Core5G!DbctlWorks(m)
  <2>1. manager' = [manager EXCEPT ![m] = [manager[m] EXCEPT !.at = "log"]]
    BY <1>1 DEF Core5G!DbctlWorks
  <2>2. [manager[m] EXCEPT !.at = "log"] \in CommandType
    BY DEF CommandType
  <2> QED BY <1>1, <2>1, <2>2, OthersStay DEF Core5G!DbctlWorks, CommandType
<1>2. CASE Core5G!DbctlFails(m)
  <2> DEFINE a == [manager[m] EXCEPT !.at = "log"]
             c == [a EXCEPT !.failed = 1]
  <2>1. manager' = [manager EXCEPT ![m] = c]
    BY <1>2 DEF Core5G!DbctlFails
  <2>2. a \in CommandType /\ a.op = manager[m].op /\ a.imsi = manager[m].imsi /\ a.at = "log"
    BY DEF CommandType
  <2> HIDE DEF a
  <2>3. c \in CommandType /\ c.op = a.op /\ c.imsi = a.imsi /\ c.at = a.at /\ c.failed = 1
    BY <2>2 DEF CommandType
  <2> HIDE DEF c
  <2> QED BY <1>2, <2>1, <2>2, <2>3, OthersStay DEF Core5G!DbctlFails
<1> QED BY <1>1, <1>2

\* ... and after one turn of the loop that stops the services.
LEMMA AdvanceIs ==
  ASSUME manager \in [Managers -> CommandType], NEW m \in Managers, NEW f \in {0, 1},
         Core5G!Advance(m, f), manager[m].failed < manager[m].next
  PROVE  /\ manager' \in [Managers -> CommandType]
         /\ manager'[m].op = manager[m].op /\ manager'[m].imsi = manager[m].imsi
         /\ manager'[m].failed = manager[m].failed + f
         /\ IF manager[m].next = 3 THEN manager'[m].at = "log"
            ELSE manager'[m].at = "stop" /\ manager'[m].next = manager[m].next + 1
         /\ \A n \in Managers : n # m => manager'[n] = manager[n]
<1> DEFINE a == [manager[m] EXCEPT !.failed = @ + f]
           b == [a EXCEPT !.next = IF manager[m].next = 3 THEN 1 ELSE manager[m].next + 1]
           c == [b EXCEPT !.at = IF manager[m].next = 3 THEN "log" ELSE "stop"]
<1>1. manager' = [manager EXCEPT ![m] = c]
  BY ServicesAre DEF Core5G!Advance
<1>2. a \in CommandType /\ a.op = manager[m].op /\ a.imsi = manager[m].imsi
      /\ a.failed = manager[m].failed + f /\ a.at = manager[m].at
  BY DEF CommandType
<1> HIDE DEF a
<1>3. b \in CommandType /\ b.op = a.op /\ b.imsi = a.imsi /\ b.failed = a.failed
      /\ b.next = IF manager[m].next = 3 THEN 1 ELSE manager[m].next + 1
  <2>1. manager[m].next \in 1..3
    BY DEF CommandType
  <2> QED BY <1>2, <2>1 DEF CommandType
<1> HIDE DEF b
<1>4. c \in CommandType /\ c.op = b.op /\ c.imsi = b.imsi /\ c.failed = b.failed
      /\ c.next = b.next /\ c.at = IF manager[m].next = 3 THEN "log" ELSE "stop"
  BY <1>3 DEF CommandType
<1> HIDE DEF c
<1> QED BY <1>1, <1>2, <1>3, <1>4, OthersStay

LEMMA CoreNext == CoreInv /\ [Core5G!Next]_coreVars => CoreInv'
<1> SUFFICES ASSUME CoreInv, [Core5G!Next]_coreVars PROVE CoreInv'
  OBVIOUS
<1>n. MaxIssued \in Nat /\ MaxFailures \in Nat /\ BadImsi \notin Imsis
  BY IssuedAssumption, ImsisAssumption
<1>t. /\ Core5G!TypeOK /\ ManagerShape /\ OneCommand /\ CoreFollows /\ Core5G!TrailIsTrue
      /\ LocalFirst /\ StoppedSoFar
  BY DEF CoreInv
<1>m. manager \in [Managers -> CommandType]
  BY <1>t DEF Core5G!TypeOK, CommandType
<1>r. Core5G!Resting \in CommandType
  BY DEF Core5G!Resting, Core5G!Command, CommandType
<1>c. ASSUME manager' \in [Managers -> CommandType],
             subscribers' \in [Imsis -> 0..MaxIssued],
             core' \subseteq Imsis, unclear' \subseteq Imsis,
             service' \in [1..3 -> {"up", "down"}],
             trail' \in [Imsis -> {"none", "5G_SUBSCRIBER_REGISTERED",
                                   "5G_SUBSCRIBER_REGISTER_ATTEMPT",
                                   "5G_SUBSCRIBER_REVOKED", "5G_SUBSCRIBER_REVOKE_ATTEMPT"}],
             shutdowns' \subseteq {"5G_CORE_PANIC_SHUTDOWN", "5G_CORE_PANIC_SHUTDOWN_PARTIAL"},
             commands' \in 0..MaxIssued, failures' \in 0..MaxFailures
      PROVE  Core5G!TypeOK'
  BY <1>c DEF Core5G!TypeOK, CommandType
<1>f. Core5G!Fail => failures' \in 0..MaxFailures
  BY <1>n, <1>t DEF Core5G!Fail, Core5G!TypeOK
<1>s. ASSUME NEW m \in Managers, Core5G!Started(m)
      PROVE  /\ manager[m] = Core5G!Resting
             /\ commands \in Nat /\ commands' = commands + 1 /\ commands' \in 0..MaxIssued
             /\ \A i \in Imsis : subscribers[i] \in Nat /\ subscribers[i] + 1 \in 0..MaxIssued
                                 /\ subscribers[i] + 1 <= commands'
  BY <1>s, <1>n, <1>t DEF Core5G!Started, Core5G!TypeOK, LocalFirst
\* The two kinds of command about a subscriber.
<1>o. ASSUME NEW m \in Managers, NEW i \in Imsis, NEW op \in {"add", "remove"},
             Core5G!Started(m), unclear' = Core5G!Overlap(i),
             manager' = [manager EXCEPT ![m] = Core5G!Command(op, i, "dbctl")],
             UNCHANGED <<core, trail, service, shutdowns>>
      PROVE  /\ manager' \in [Managers -> CommandType] /\ unclear' \subseteq Imsis
             /\ ManagerShape' /\ OneCommand' /\ CoreFollows' /\ Core5G!TrailIsTrue'
             /\ StoppedSoFar'
             /\ \A n \in Managers : n # m => manager'[n] = manager[n]
             /\ manager'[m].op = op /\ manager'[m].imsi = i
  <2> DEFINE c == Core5G!Command(op, i, "dbctl")
  <2>1. c \in CommandType /\ c.op = op /\ c.imsi = i /\ c.at = "dbctl" /\ c.failed = 0
    BY CommandIs
  <2> HIDE DEF c
  <2>2. /\ manager' \in [Managers -> CommandType] /\ manager'[m] = c
        /\ \A n \in Managers : n # m => manager'[n] = manager[n]
    BY <1>m, <1>o, <2>1, OthersStay DEF c
  <2>3. unclear \subseteq unclear' /\ unclear' \subseteq Imsis
    BY <1>t, <1>o DEF Core5G!Overlap, Core5G!TypeOK
  <2>4. i \notin unclear' => \A n \in Managers : manager[n].imsi # i
    BY <1>o DEF Core5G!Overlap, Core5G!InFlight
  <2>5. ManagerShape'
    BY <1>t, <2>1, <2>2 DEF ManagerShape
  <2>6. OneCommand'
    BY <1>t, <2>1, <2>2, <2>3, <2>4 DEF OneCommand
  <2>7. CoreFollows'
    BY <1>t, <1>o, <2>1, <2>2, <2>3 DEF CoreFollows
  <2>8. Core5G!TrailIsTrue'
    <3>1. manager[m].imsi = BadImsi
      BY <1>s, <1>o, RestingIs
    <3>2. \A j \in Imsis : ~Core5G!InFlight(j)' => ~Core5G!InFlight(j) /\ j # i
      BY <1>n, <2>1, <2>2, <3>1 DEF Core5G!InFlight
    <3> QED BY <1>t, <1>o, <2>3, <3>2 DEF Core5G!TrailIsTrue
  <2>9. StoppedSoFar'
    BY <1>t, <1>o, <2>1, <2>2 DEF StoppedSoFar
  <2> QED BY <2>1, <2>2, <2>3, <2>5, <2>6, <2>7, <2>8, <2>9
<1>1. ASSUME NEW m \in Managers, NEW i \in Imsis, Core5G!RegisterLocal(m, i) PROVE CoreInv'
  <2>1. /\ ManagerShape' /\ OneCommand' /\ CoreFollows' /\ Core5G!TrailIsTrue' /\ StoppedSoFar'
        /\ manager' \in [Managers -> CommandType] /\ unclear' \subseteq Imsis
        /\ \A n \in Managers : n # m => manager'[n] = manager[n]
        /\ manager'[m].op = "add" /\ manager'[m].imsi = i
    BY <1>1, <1>o DEF Core5G!RegisterLocal
  <2>2. /\ subscribers' \in [Imsis -> 0..MaxIssued] /\ commands' \in 0..MaxIssued
        /\ subscribers'[i] > 0
        /\ \A j \in Imsis : subscribers'[j] >= subscribers[j] /\ subscribers'[j] <= commands'
    BY <1>1, <1>s, <1>t DEF Core5G!RegisterLocal, Core5G!TypeOK
  <2>3. LocalFirst'
    <3>1. \A j \in Imsis : subscribers[j] > 0 => subscribers'[j] > 0
      BY <1>t, <2>2 DEF Core5G!TypeOK
    <3>2. \A n \in Managers : manager[n].op = "add" => manager[n].imsi \in Imsis
      BY <1>t, RestingIs DEF ManagerShape
    <3>3. core' = core /\ core \subseteq Imsis
      BY <1>1, <1>t DEF Core5G!RegisterLocal, Core5G!TypeOK
    <3> QED BY <1>t, <2>1, <2>2, <3>1, <3>2, <3>3 DEF LocalFirst
  <2>4. Core5G!TypeOK'
    BY <1>1, <1>c, <1>t, <2>1, <2>2 DEF Core5G!RegisterLocal, Core5G!TypeOK
  <2> QED BY <2>1, <2>3, <2>4 DEF CoreInv
<1>2. ASSUME NEW m \in Managers, NEW i \in Imsis, Core5G!RevokeStart(m, i) PROVE CoreInv'
  <2>1. /\ ManagerShape' /\ OneCommand' /\ CoreFollows' /\ Core5G!TrailIsTrue' /\ StoppedSoFar'
        /\ manager' \in [Managers -> CommandType] /\ unclear' \subseteq Imsis
        /\ \A n \in Managers : n # m => manager'[n] = manager[n]
        /\ manager'[m].op = "remove" /\ manager'[m].imsi = i
    BY <1>2, <1>o DEF Core5G!RevokeStart
  <2>2. commands' \in 0..MaxIssued /\ commands \in Nat /\ commands' = commands + 1
        /\ UNCHANGED <<core, subscribers>> /\ \A j \in Imsis : subscribers[j] \in Nat
    BY <1>2, <1>s DEF Core5G!RevokeStart
  <2>3. LocalFirst'
    BY <1>t, <2>1, <2>2 DEF LocalFirst
  <2>4. Core5G!TypeOK'
    BY <1>2, <1>c, <1>t, <2>1, <2>2 DEF Core5G!RevokeStart, Core5G!TypeOK
  <2> QED BY <2>1, <2>3, <2>4 DEF CoreInv
\* Nothing of a command remains but, at most, a line in the local file.
<1>3. ASSUME NEW m \in Managers, Core5G!Started(m), failures' \in 0..MaxFailures,
             UNCHANGED <<core, service, trail, shutdowns, manager, unclear>>,
             \/ subscribers' = subscribers
             \/ \E i \in Imsis : subscribers' = [subscribers EXCEPT ![i] = @ + 1]
      PROVE  CoreInv'
  <2>1. /\ subscribers' \in [Imsis -> 0..MaxIssued] /\ commands' \in 0..MaxIssued
        /\ \A j \in Imsis : subscribers'[j] >= subscribers[j] /\ subscribers'[j] <= commands'
    BY <1>3, <1>s, <1>t DEF Core5G!TypeOK
  <2>2. Core5G!TypeOK'
    BY <1>3, <1>c, <1>m, <1>t, <2>1 DEF Core5G!TypeOK
  <2>3. LocalFirst'
    <3>1. \A j \in Imsis : subscribers[j] > 0 => subscribers'[j] > 0
      BY <1>t, <2>1 DEF Core5G!TypeOK
    <3>2. \A n \in Managers : manager[n].op = "add" => manager[n].imsi \in Imsis
      BY <1>t, RestingIs DEF ManagerShape
    <3>3. core \subseteq Imsis
      BY <1>t DEF Core5G!TypeOK
    <3> QED BY <1>3, <1>t, <2>1, <3>1, <3>2, <3>3 DEF LocalFirst
  <2>4. ManagerShape' /\ OneCommand' /\ CoreFollows' /\ Core5G!TrailIsTrue' /\ StoppedSoFar'
    BY <1>3, <1>t DEF ManagerShape, OneCommand, CoreFollows, Core5G!TrailIsTrue,
                      Core5G!InFlight, StoppedSoFar
  <2> QED BY <2>2, <2>3, <2>4 DEF CoreInv
<1>4. ASSUME NEW m \in Managers, Core5G!Refuse(m, BadImsi) PROVE CoreInv'
  BY <1>3, <1>4, <1>t DEF Core5G!Refuse, Core5G!TypeOK
<1>5. ASSUME NEW m \in Managers, NEW i \in Imsis, Core5G!RegisterLocalFails(m, i)
      PROVE  CoreInv'
  <2>1. /\ Core5G!Started(m) /\ failures' \in 0..MaxFailures
        /\ UNCHANGED <<core, service, trail, shutdowns, manager, unclear>>
        /\ \/ subscribers' = subscribers
           \/ subscribers' = [subscribers EXCEPT ![i] = @ + 1]
    BY <1>5, <1>f DEF Core5G!RegisterLocalFails
  <2> QED BY <1>3, <2>1
<1>6. ASSUME NEW m \in Managers, Core5G!DbctlWorks(m) \/ Core5G!DbctlFails(m) PROVE CoreInv'
  <2>0. manager[m].at = "dbctl"
    BY <1>6 DEF Core5G!DbctlWorks, Core5G!DbctlFails
  <2>1. /\ manager[m].op \in {"add", "remove"} /\ manager[m].imsi \in Imsis
        /\ manager[m].failed = 0
    BY <1>t, <2>0, RestingIs DEF ManagerShape
  <2>2. /\ manager' \in [Managers -> CommandType]
        /\ manager'[m].op = manager[m].op /\ manager'[m].imsi = manager[m].imsi
        /\ manager'[m].at = "log"
        /\ \A n \in Managers : n # m => manager'[n] = manager[n]
        /\ core' \in {core, Core5G!Applied(m)}
        /\ manager'[m].failed = 0 => core' = Core5G!Applied(m)
    BY <1>6, <1>m, <2>1, DbctlIs
  <2>3. /\ UNCHANGED <<subscribers, service, trail, shutdowns, commands, unclear>>
        /\ failures' \in 0..MaxFailures
    BY <1>6, <1>f, <1>t DEF Core5G!DbctlWorks, Core5G!DbctlFails, Core5G!TypeOK
  <2>4. \A j \in Imsis : j # manager[m].imsi => (j \in core' <=> j \in core)
    BY <2>2 DEF Core5G!Applied
  <2>5. core' \subseteq Imsis
    BY <1>t, <2>1, <2>2 DEF Core5G!Applied, Core5G!TypeOK
  <2>6. Core5G!TypeOK'
    BY <1>c, <1>t, <2>2, <2>3, <2>5 DEF Core5G!TypeOK
  <2>7. ManagerShape'
    BY <1>t, <2>1, <2>2 DEF ManagerShape
  <2>8. \A n \in Managers : manager'[n].imsi = manager[n].imsi /\ manager'[n].op = manager[n].op
    BY <2>2
  <2>9. OneCommand'
    BY <1>t, <2>3, <2>8 DEF OneCommand
  <2>10. CoreFollows'
    <3> SUFFICES ASSUME NEW n \in Managers, manager'[n].imsi \in Imsis \ unclear,
                        manager'[n].at = "log", manager'[n].failed = 0
                 PROVE  /\ manager'[n].op = "add" => manager'[n].imsi \in core'
                        /\ manager'[n].op = "remove" => manager'[n].imsi \notin core'
      BY <2>3 DEF CoreFollows
    <3>1. CASE n = m
      BY <2>1, <2>2, <3>1 DEF Core5G!Applied
    <3>2. CASE n # m
      <4>1. manager'[n] = manager[n] /\ manager[n].imsi # manager[m].imsi
        BY <1>t, <2>2, <3>2 DEF OneCommand
      <4> QED BY <1>t, <2>4, <4>1 DEF CoreFollows
    <3> QED BY <3>1, <3>2
  <2>11. Core5G!TrailIsTrue'
    <3>1. \A j \in Imsis : Core5G!InFlight(j)' <=> Core5G!InFlight(j)
      BY <2>8 DEF Core5G!InFlight
    <3>2. Core5G!InFlight(manager[m].imsi)
      BY DEF Core5G!InFlight
    <3> QED BY <1>t, <2>3, <2>4, <3>1, <3>2 DEF Core5G!TrailIsTrue
  <2>12. LocalFirst'
    <3>1. \A j \in core' : j \in core \/ (j = manager[m].imsi /\ manager[m].op = "add")
      BY <2>1, <2>2 DEF Core5G!Applied
    <3> QED BY <1>t, <2>3, <2>8, <3>1 DEF LocalFirst
  <2>13. StoppedSoFar'
    BY <1>t, <2>1, <2>2, <2>3 DEF StoppedSoFar
  <2> QED BY <2>6, <2>7, <2>9, <2>10, <2>11, <2>12, <2>13 DEF CoreInv
<1>7. ASSUME NEW m \in Managers, Core5G!LogWorks(m) PROVE CoreInv'
  <2>0. manager[m].at = "log"
    BY <1>7 DEF Core5G!LogWorks
  <2>1. \/ manager[m].op \in {"add", "remove"} /\ manager[m].imsi \in Imsis
        \/ manager[m].op = "panic" /\ manager[m].imsi = BadImsi
    BY <1>t, <2>0, RestingIs DEF ManagerShape
  <2>2. /\ manager' \in [Managers -> CommandType] /\ manager'[m] = Core5G!Resting
        /\ \A n \in Managers : n # m => manager'[n] = manager[n]
    BY <1>7, <1>m, <1>r, OthersStay DEF Core5G!LogWorks
  <2>3. UNCHANGED <<subscribers, core, service, commands, failures, unclear>>
    BY <1>7 DEF Core5G!LogWorks
  <2>4. ManagerShape' /\ OneCommand' /\ CoreFollows' /\ LocalFirst'
    <3>1. ManagerShape'
      BY <1>t, <2>2 DEF ManagerShape
    <3>2. OneCommand'
      BY <1>n, <1>t, <2>2, <2>3, RestingIs DEF OneCommand
    <3>3. CoreFollows'
      BY <1>n, <1>t, <2>2, <2>3, RestingIs DEF CoreFollows
    <3>4. LocalFirst'
      BY <1>t, <2>2, <2>3, RestingIs DEF LocalFirst
    <3> QED BY <3>1, <3>2, <3>3, <3>4
  <2>5. CASE manager[m].op = "panic"
    <3>1. trail' = trail /\ shutdowns' = shutdowns \cup {Core5G!Record(m)}
      BY <1>7, <2>5 DEF Core5G!LogWorks
    <3>2. Core5G!Record(m) = IF manager[m].failed = 0 THEN "5G_CORE_PANIC_SHUTDOWN"
                                                      ELSE "5G_CORE_PANIC_SHUTDOWN_PARTIAL"
      BY <2>5 DEF Core5G!Record
    <3>3. Core5G!TypeOK'
      BY <1>c, <1>t, <2>2, <2>3, <3>1, <3>2 DEF Core5G!TypeOK
    <3>4. Core5G!TrailIsTrue'
      <4>1. manager[m].imsi = BadImsi
        BY <2>1, <2>5
      <4>2. \A j \in Imsis : Core5G!InFlight(j)' <=> Core5G!InFlight(j)
        BY <1>n, <2>2, <4>1, RestingIs DEF Core5G!InFlight
      <4> QED BY <1>t, <2>3, <3>1, <4>2 DEF Core5G!TrailIsTrue
    <3>5. "5G_CORE_PANIC_SHUTDOWN" \in shutdowns' => \A k \in 1..3 : service'[k] = "down"
      <4>1. "5G_CORE_PANIC_SHUTDOWN" \in shutdowns' =>
              "5G_CORE_PANIC_SHUTDOWN" \in shutdowns \/ manager[m].failed = 0
        BY <3>1, <3>2
      <4> QED BY <1>t, <2>0, <2>3, <2>5, <4>1 DEF StoppedSoFar
    <3>6. StoppedSoFar'
      BY <1>t, <2>2, <2>3, <3>5, RestingIs DEF StoppedSoFar
    <3> QED BY <2>4, <3>3, <3>4, <3>6 DEF CoreInv
  <2>6. CASE manager[m].op # "panic"
    <3> DEFINE i == manager[m].imsi
    <3>0. i \in Imsis /\ manager[m].op \in {"add", "remove"}
      BY <2>1, <2>6
    <3>1. shutdowns' = shutdowns /\ trail' = [trail EXCEPT ![i] = Core5G!Record(m)]
      BY <1>7, <2>6 DEF Core5G!LogWorks
    <3>2. /\ Core5G!Record(m) \in {"5G_SUBSCRIBER_REGISTERED", "5G_SUBSCRIBER_REGISTER_ATTEMPT",
                                   "5G_SUBSCRIBER_REVOKED", "5G_SUBSCRIBER_REVOKE_ATTEMPT"}
          /\ Core5G!Record(m) = "5G_SUBSCRIBER_REGISTERED" =>
               manager[m].failed = 0 /\ manager[m].op = "add"
          /\ Core5G!Record(m) = "5G_SUBSCRIBER_REVOKED" =>
               manager[m].failed = 0 /\ manager[m].op = "remove"
      BY <3>0 DEF Core5G!Record
    <3>3. Core5G!TypeOK'
      BY <1>c, <1>t, <2>2, <2>3, <3>0, <3>1, <3>2 DEF Core5G!TypeOK
    <3>4. trail'[i] = Core5G!Record(m) /\ \A j \in Imsis : j # i => trail'[j] = trail[j]
      BY <1>t, <3>0, <3>1 DEF Core5G!TypeOK
    <3>5. ASSUME i \notin unclear
          PROVE  /\ trail'[i] = "5G_SUBSCRIBER_REGISTERED" => i \in core'
                 /\ trail'[i] \in {"5G_SUBSCRIBER_REVOKED", "none"} => i \notin core'
      BY <1>t, <2>0, <2>3, <3>0, <3>2, <3>4, <3>5 DEF CoreFollows
    <3>6. \A j \in Imsis : j # i => (Core5G!InFlight(j)' <=> Core5G!InFlight(j))
      BY <1>n, <2>2, RestingIs DEF Core5G!InFlight
    <3>7. Core5G!TrailIsTrue'
      BY <1>t, <2>3, <3>4, <3>5, <3>6 DEF Core5G!TrailIsTrue
    <3>8. StoppedSoFar'
      BY <1>t, <2>2, <2>3, <3>1, RestingIs DEF StoppedSoFar
    <3> QED BY <2>4, <3>3, <3>7, <3>8 DEF CoreInv
  <2> QED BY <2>5, <2>6
<1>8. ASSUME NEW m \in Managers, Core5G!LogFails(m) \/ Core5G!Killed(m) PROVE CoreInv'
  <2>1. /\ manager' \in [Managers -> CommandType] /\ manager'[m] = Core5G!Resting
        /\ \A n \in Managers : n # m => manager'[n] = manager[n]
    BY <1>8, <1>m, <1>r, OthersStay DEF Core5G!LogFails, Core5G!Killed
  <2>2. /\ UNCHANGED <<subscribers, core, service, trail, shutdowns, commands>>
        /\ unclear' = unclear \cup ({manager[m].imsi} \cap Imsis)
        /\ failures' \in 0..MaxFailures
    BY <1>8, <1>f DEF Core5G!LogFails, Core5G!Killed
  <2>3. Core5G!TypeOK'
    BY <1>c, <1>t, <2>1, <2>2 DEF Core5G!TypeOK
  <2>4. ManagerShape'
    BY <1>t, <2>1 DEF ManagerShape
  <2>5. OneCommand'
    BY <1>n, <1>t, <2>1, <2>2, RestingIs DEF OneCommand
  <2>6. CoreFollows'
    BY <1>n, <1>t, <2>1, <2>2, RestingIs DEF CoreFollows
  <2>7. LocalFirst'
    BY <1>t, <2>1, <2>2, RestingIs DEF LocalFirst
  <2>8. StoppedSoFar'
    BY <1>t, <2>1, <2>2, RestingIs DEF StoppedSoFar
  <2>9. Core5G!TrailIsTrue'
    <3>1. \A j \in Imsis \ unclear' : Core5G!InFlight(j) => Core5G!InFlight(j)'
      BY <2>1, <2>2 DEF Core5G!InFlight
    <3> QED BY <1>t, <2>2, <3>1 DEF Core5G!TrailIsTrue
  <2> QED BY <2>3, <2>4, <2>5, <2>6, <2>7, <2>8, <2>9 DEF CoreInv
<1>9. ASSUME NEW m \in Managers, Core5G!PanicStart(m) PROVE CoreInv'
  <2> DEFINE c == Core5G!Command("panic", BadImsi, "stop")
  <2>1. c \in CommandType /\ c.op = "panic" /\ c.imsi = BadImsi /\ c.at = "stop"
        /\ c.failed = 0 /\ c.next = 1
    BY CommandIs
  <2> HIDE DEF c
  <2>2. /\ manager' \in [Managers -> CommandType] /\ manager'[m] = c
        /\ \A n \in Managers : n # m => manager'[n] = manager[n]
    BY <1>9, <1>m, <2>1, OthersStay DEF Core5G!PanicStart, c
  <2>3. /\ UNCHANGED <<subscribers, core, service, trail, shutdowns, failures, unclear>>
        /\ commands' \in 0..MaxIssued /\ commands' = commands + 1 /\ commands \in Nat
        /\ manager[m] = Core5G!Resting /\ \A i \in Imsis : subscribers[i] \in Nat
    BY <1>9, <1>s DEF Core5G!PanicStart
  <2>4. Core5G!TypeOK'
    BY <1>c, <1>t, <2>2, <2>3 DEF Core5G!TypeOK
  <2>5. ManagerShape'
    BY <1>t, <2>1, <2>2 DEF ManagerShape
  <2>6. OneCommand'
    BY <1>n, <1>t, <2>1, <2>2, <2>3 DEF OneCommand
  <2>7. CoreFollows'
    BY <1>n, <1>t, <2>1, <2>2, <2>3 DEF CoreFollows
  <2>8. LocalFirst'
    BY <1>t, <2>1, <2>2, <2>3 DEF LocalFirst
  <2>9. StoppedSoFar'
    BY <1>t, <2>1, <2>2, <2>3 DEF StoppedSoFar
  <2>10. Core5G!TrailIsTrue'
    <3>1. \A j \in Imsis : Core5G!InFlight(j)' <=> Core5G!InFlight(j)
      BY <1>n, <2>1, <2>2, <2>3, RestingIs DEF Core5G!InFlight
    <3> QED BY <1>t, <2>3, <3>1 DEF Core5G!TrailIsTrue
  <2> QED BY <2>4, <2>5, <2>6, <2>7, <2>8, <2>9, <2>10 DEF CoreInv
<1>10. ASSUME NEW m \in Managers, Core5G!StopWorks(m) \/ Core5G!StopFails(m) PROVE CoreInv'
  <2>0. manager[m].at = "stop" /\ manager[m].next \in 1..3 /\ manager[m].failed \in 0..3
    BY <1>10, <1>m DEF Core5G!StopWorks, Core5G!StopFails, CommandType
  <2>1. /\ manager[m].op = "panic" /\ manager[m].imsi = BadImsi
        /\ manager[m].failed < manager[m].next
    BY <1>t, <2>0, RestingIs DEF ManagerShape
  <2>2. PICK f \in {0, 1} :
          /\ Core5G!Advance(m, f)
          /\ f = 0 => service' = [service EXCEPT ![manager[m].next] = "down"]
          /\ service' \in {service, [service EXCEPT ![manager[m].next] = "down"]}
          /\ UNCHANGED <<subscribers, core, trail, shutdowns, commands, unclear>>
          /\ failures' \in 0..MaxFailures
    BY <1>10, <1>f, <1>t DEF Core5G!StopWorks, Core5G!StopFails, Core5G!TypeOK
  <2>3. /\ manager' \in [Managers -> CommandType]
        /\ manager'[m].op = "panic" /\ manager'[m].imsi = BadImsi
        /\ manager'[m].failed = manager[m].failed + f
        /\ IF manager[m].next = 3 THEN manager'[m].at = "log"
           ELSE manager'[m].at = "stop" /\ manager'[m].next = manager[m].next + 1
        /\ \A n \in Managers : n # m => manager'[n] = manager[n]
    BY <1>m, <2>1, <2>2, AdvanceIs
  <2>4. /\ service' \in [1..3 -> {"up", "down"}]
        /\ \A k \in 1..3 : service[k] = "down" => service'[k] = "down"
        /\ f = 0 => service'[manager[m].next] = "down"
    BY <1>t, <2>0, <2>2 DEF Core5G!TypeOK
  <2>5. Core5G!TypeOK'
    BY <1>c, <1>t, <2>2, <2>3, <2>4 DEF Core5G!TypeOK
  <2>6. ManagerShape'
    BY <1>t, <2>0, <2>1, <2>3 DEF ManagerShape
  <2>7. OneCommand' /\ CoreFollows'
    BY <1>n, <1>t, <2>2, <2>3 DEF OneCommand, CoreFollows
  <2>8. LocalFirst'
    BY <1>t, <2>2, <2>3 DEF LocalFirst
  <2>9. Core5G!TrailIsTrue'
    <3>1. \A j \in Imsis : Core5G!InFlight(j)' <=> Core5G!InFlight(j)
      BY <1>n, <2>1, <2>3 DEF Core5G!InFlight
    <3> QED BY <1>t, <2>2, <3>1 DEF Core5G!TrailIsTrue
  <2>10. ASSUME manager'[m].failed = 0
         PROVE  \A k \in 1..3 : k <= manager[m].next => service'[k] = "down"
    <3>1. manager[m].failed = 0 /\ f = 0
      BY <2>0, <2>3, <2>10
    <3>2. \A k \in 1..3 : k < manager[m].next => service[k] = "down"
      BY <1>t, <2>0, <2>1, <3>1 DEF StoppedSoFar
    <3> QED BY <2>0, <2>4, <3>1, <3>2
  <2>11. StoppedSoFar'
    <3>1. ASSUME NEW n \in Managers, manager'[n].op = "panic", manager'[n].failed = 0
          PROVE  /\ manager'[n].at = "stop" =>
                      \A k \in 1..3 : k < manager'[n].next => service'[k] = "down"
                 /\ manager'[n].at = "log" => \A k \in 1..3 : service'[k] = "down"
      <4>1. CASE n = m
        BY <2>0, <2>3, <2>10, <3>1, <4>1
      <4>2. CASE n # m
        BY <1>t, <2>3, <2>4, <3>1, <4>2 DEF StoppedSoFar
      <4> QED BY <4>1, <4>2
    <3>2. "5G_CORE_PANIC_SHUTDOWN" \in shutdowns' => \A k \in 1..3 : service'[k] = "down"
      BY <1>t, <2>2, <2>4 DEF StoppedSoFar
    <3> QED BY <3>1, <3>2 DEF StoppedSoFar
  <2> QED BY <2>5, <2>6, <2>7, <2>8, <2>9, <2>11 DEF CoreInv
<1>11. CASE UNCHANGED coreVars
  BY <1>t, <1>11
  DEF coreVars, CoreInv, Core5G!TypeOK, ManagerShape, OneCommand, CoreFollows,
      Core5G!TrailIsTrue, Core5G!InFlight, LocalFirst, StoppedSoFar
<1> QED
  BY <1>1, <1>2, <1>4, <1>5, <1>6, <1>7, <1>8, <1>9, <1>10, <1>11 DEF Core5G!Next

LEMMA CoreInvHolds == Spec => []CoreInv
<1>1. Init => CoreInv
  BY CoreInit DEF Init
<1>2. CoreInv /\ [Next]_vars => CoreInv'
  BY CoreStep, CoreNext
<1> QED BY <1>1, <1>2, PTL DEF Spec

\* chrono_5g_manager.c: whatever fails or is killed, the ledger's last word on an
\* IMSI is what Open5GS does, nobody is admitted without a local record, and a
\* shutdown recorded as complete stopped every service.
THEOREM CoreLedgerIsTruthful == Spec => []LedgerIsTruthful
<1>1. CoreInv => LedgerIsTruthful
  BY DEF CoreInv, LedgerIsTruthful, Core5G!LedgerIsTruthful, LocalFirst, StoppedSoFar
<1> QED BY <1>1, CoreInvHolds, PTL
-----------------------------------------------------------------------------
\* The guards.  An ADU has a length, and bytes of the stream have arrived.
ModbusInv == received \in 0..MaxReceived /\ stream[1].length \in Nat

LEMMA ModbusInvHolds == Spec => []ModbusInv
<1>1. Init => ModbusInv
  <2> SUFFICES ASSUME Init PROVE ModbusInv
    OBVIOUS
  <2>1. CASE program = "modbus"
    <3>1. Modbus!Init
      BY <2>1 DEF Init
    <3>2. PICK a, b \in Modbus!Adus : stream = <<a, b>>
      BY <3>1 DEF Modbus!Init
    <3>3. a.length \in Nat
      BY <3>2, ModbusAssumption DEF Modbus!Adus
    <3>4. received = 0 /\ 0 \in 0..MaxReceived
      BY <3>1, ModbusAssumption DEF Modbus!Init
    <3> QED BY <3>2, <3>3, <3>4 DEF ModbusInv
  <2>2. CASE program # "modbus"
    BY <2>2, ModbusAssumption DEF Init, ModbusInv
  <2> QED BY <2>1, <2>2
<1>2. ModbusInv /\ [Next]_vars => ModbusInv'
  BY ModbusStep, ModbusAssumption DEF Modbus!Next, Modbus!Receive, modbusVars, ModbusInv
<1> QED BY <1>1, <1>2, PTL DEF Spec

LEMMA CutsAreHarmless == ModbusInv => Modbus!CutsDoNotMatter /\ Modbus!TypeOK
<1> SUFFICES ASSUME ModbusInv PROVE Modbus!CutsDoNotMatter /\ Modbus!TypeOK
  OBVIOUS
<1> DEFINE a == stream[1]
<1>1. received \in Int /\ a.length \in Int /\ MaxReceived \in Nat
  BY ModbusAssumption DEF ModbusInv
<1>2. Modbus!parse_mbap(stream, received) =
        IF received < 7 THEN 0 ELSE IF a.protocol # 0 THEN -2
        ELSE IF a.length < 2 \/ a.length > 254 THEN -3
        ELSE IF received < 6 + a.length THEN 0
        ELSE IF ~Modbus!valid_function(a.fc) THEN -6
        ELSE 6 + a.length
  BY <1>1 DEF Modbus!parse_mbap, Modbus!MbapSize, Modbus!MaxAdu, Modbus!MaxPdu
<1>3. Modbus!Proper(a) <=>
        a.protocol = 0 /\ a.length \in 2..254 /\ Modbus!valid_function(a.fc)
  BY DEF Modbus!Proper, Modbus!MaxPdu
<1>4. Modbus!is_write_function(a.fc) => Modbus!valid_function(a.fc)
  BY DEF Modbus!is_write_function, Modbus!valid_function
<1>5. Modbus!MaxAdu = 260
  BY DEF Modbus!MaxAdu
<1> HIDE DEF a
<1> DEFINE v == Modbus!ModbusVerdict(stream, received)
<1>6. v = LET result == Modbus!parse_mbap(stream, received) IN
          IF result <= 0 THEN result ELSE IF Modbus!is_write_function(a.fc) THEN 1 ELSE 0
  BY DEF Modbus!ModbusVerdict, a
<1>7. v \in {-6, -3, -2, 0, 1}
  BY <1>1, <1>2, <1>6
<1>8. ASSUME Modbus!Proper(a)
      PROVE  v = IF received >= 6 + a.length /\ Modbus!is_write_function(a.fc) THEN 1 ELSE 0
  BY <1>1, <1>2, <1>3, <1>6, <1>8
<1>9. ASSUME ~Modbus!Proper(a) PROVE v <= 0 /\ (received >= 260 => v < 0)
  BY <1>1, <1>2, <1>3, <1>4, <1>6, <1>9
<1> HIDE DEF v
<1>10. Modbus!CutsDoNotMatter
  BY <1>5, <1>8, <1>9 DEF Modbus!CutsDoNotMatter, a, v
<1> QED BY <1>7, <1>10 DEF Modbus!TypeOK, ModbusInv, v

\* The table holds the well-formed lines read so far, in the order of the file.
Entries == [id : RuleIds, min : 0..255, max : 0..255, line : Nat]
Entry(r) ==
  /\ r.line \in Can!Kept(read)
  /\ r.id = whitelist[r.line].id
  /\ r.min = whitelist[r.line].min % 256 /\ r.max = whitelist[r.line].max % 256

Loaded ==
  /\ whitelist \in Seq(Can!Line)
  /\ read \in 0..Len(whitelist)
  /\ rules \in Seq(Entries) /\ Len(rules) <= MaxRules
  /\ \A k \in 1..Len(rules) : Entry(rules[k])
  /\ \A j, k \in 1..Len(rules) : j < k => rules[j].line < rules[k].line
  /\ \A i \in Can!Kept(read) : \E k \in 1..Len(rules) : rules[k].line = i
  /\ Cardinality(Can!Kept(read)) = Len(rules)

CanInv ==
  /\ Loaded
  /\ frame.verdict \in {-3, -2, -1, 0, 1}
  /\ Can!JudgedByFile

LEMMA KeptIs ==
  ASSUME NEW n \in Nat
  PROVE  /\ IsFiniteSet(Can!Kept(n)) /\ Cardinality(Can!Kept(n)) \in Nat
         /\ Can!Cardinality(Can!Kept(n)) = Cardinality(Can!Kept(n))
         /\ Can!Kept(n) \subseteq 1..n
<1>1. Can!Kept(n) \subseteq 1..n
  BY DEF Can!Kept
<1>2. IsFiniteSet(1..n)
  BY FS_Interval
<1>3. IsFiniteSet(Can!Kept(n))
  BY <1>1, <1>2, FS_Subset
<1>4. Cardinality(Can!Kept(n)) \in Nat
  BY <1>3, FS_CardinalityType
<1>5. \A S : Can!Cardinality(S) = Cardinality(S)
  BY DEF Can!Cardinality, Cardinality
<1> QED BY <1>1, <1>3, <1>4, <1>5

\* What the cast to uint8_t leaves of a number.
LEMMA ByteIs == \A x \in Int : x % 256 \in 0..255 /\ (x \in 0..255 => x % 256 = x)
OBVIOUS

LEMMA RuleIs ==
  ASSUME whitelist \in Seq(Can!Line), NEW i \in 1..Len(whitelist)
  PROVE  /\ Can!Rule(i) \in Entries /\ Can!Rule(i).line = i
         /\ Can!Rule(i).id = whitelist[i].id
         /\ Can!Rule(i).min = whitelist[i].min % 256
         /\ Can!Rule(i).max = whitelist[i].max % 256
         /\ whitelist[i].min \in Int /\ whitelist[i].max \in Int
<1>1. whitelist[i] \in Can!Line /\ i \in Nat
  OBVIOUS
<1>2. whitelist[i].min \in Int /\ whitelist[i].max \in Int /\ whitelist[i].id \in RuleIds
  BY <1>1, WhitelistAssumption DEF Can!Line
<1>3. whitelist[i].min % 256 \in 0..255 /\ whitelist[i].max % 256 \in 0..255
  BY <1>2, ByteIs, Zenon
<1> QED BY <1>1, <1>2, <1>3 DEF Can!Rule, Entries

\* The first entry for an id, if the table has one.
LEMMA FirstIs ==
  ASSUME NEW S \in SUBSET Nat, S # {}
  PROVE  Can!Min(S) \in S /\ \A y \in S : Can!Min(S) <= y
<1>1. IsWellFoundedOn(OpToRel(<, Nat), Nat)
  BY NatLessThanWellFounded
<1>2. PICK x \in S : \A y \in S : ~(<<y, x>> \in OpToRel(<, Nat))
  BY <1>1, WFMin
<1>3. ASSUME NEW y \in S PROVE x <= y
  <2>1. y < x => <<y, x>> \in OpToRel(<, Nat)
    BY DEF OpToRel
  <2>2. ~(y < x)
    BY <1>2, <2>1
  <2> QED BY <2>2
<1> QED BY <1>3 DEF Can!Min

FirstEntry(id) ==
  LET S == {i \in 1..Len(rules) : rules[i].id = id} IN IF S # {} THEN Can!Min(S) ELSE 0

LEMMA FirstEntryIs ==
  ASSUME Loaded, NEW id
  PROVE  /\ FirstEntry(id) \in 0..Len(rules)
         /\ FirstEntry(id) # 0 => rules[FirstEntry(id)].id = id
         /\ \A m \in 1..Len(rules) :
              rules[m].id = id => FirstEntry(id) # 0 /\ FirstEntry(id) <= m
<1> DEFINE S == {i \in 1..Len(rules) : rules[i].id = id}
<1>1. S \in SUBSET Nat /\ \A i \in S : i \in 1..Len(rules) /\ i # 0 /\ rules[i].id = id
  BY DEF Loaded
<1>2. S # {} => Can!Min(S) \in S /\ \A y \in S : Can!Min(S) <= y
  BY <1>1, FirstIs
<1>3. Len(rules) \in Nat
  BY DEF Loaded
<1>4. FirstEntry(id) = IF S # {} THEN Can!Min(S) ELSE 0
  BY DEF FirstEntry
<1>5. \A m \in 1..Len(rules) : rules[m].id = id => m \in S
  OBVIOUS
<1> HIDE DEF S
<1>6. CASE S = {}
  <2>1. FirstEntry(id) = 0 /\ 0 \in 0..Len(rules)
    BY <1>3, <1>4, <1>6
  <2> QED BY <1>5, <1>6, <2>1
<1>7. CASE S # {}
  <2>1. FirstEntry(id) \in S /\ \A y \in S : FirstEntry(id) <= y
    BY <1>2, <1>4, <1>7
  <2>2. FirstEntry(id) \in 1..Len(rules) /\ FirstEntry(id) # 0 /\ rules[FirstEntry(id)].id = id
    BY <1>1, <2>1, Zenon
  <2>3. FirstEntry(id) \in 0..Len(rules)
    BY <1>3, <2>2
  <2> QED BY <1>5, <2>1, <2>2, <2>3
<1> QED BY <1>6, <1>7

LEMMA VerdictIs ==
  ASSUME NEW id, NEW dlc, NEW val
  PROVE  Can!CanVerdict(id, dlc, val) =
           IF dlc <= 0 \/ dlc > 8 \/ id > MaxCanId THEN -2
           ELSE IF FirstEntry(id) = 0 THEN -1
           ELSE IF val < rules[FirstEntry(id)].min \/ val > rules[FirstEntry(id)].max
                THEN 0 ELSE 1
BY DEF Can!CanVerdict, Can!SelectInSeq, FirstEntry

\* The entry that decides on an id comes from the line that decides on it.
LEMMA EntryDecides ==
  ASSUME Loaded, NEW id, FirstEntry(id) # 0
  PROVE  /\ rules[FirstEntry(id)].line \in 1..Len(whitelist)
         /\ Can!Decides(rules[FirstEntry(id)].line, id)
<1> DEFINE k == FirstEntry(id)
           l == rules[k].line
<1>1. k \in 1..Len(rules) /\ rules[k].id = id /\ Len(rules) \in Nat /\ MaxRules \in Nat
      /\ read \in Nat /\ Len(whitelist) \in Nat
  BY FirstEntryIs, WhitelistAssumption DEF Loaded
<1>2. l \in Can!Kept(read) /\ rules[k].id = whitelist[l].id
  BY <1>1 DEF Loaded, Entry
<1>3. l \in 1..read /\ l \in 1..Len(whitelist) /\ Can!WellFormed(l)
  <2>1. l \in 1..read /\ Can!WellFormed(l)
    BY <1>2 DEF Can!Kept
  <2>2. read <= Len(whitelist)
    BY DEF Loaded
  <2> HIDE DEF l
  <2> QED BY <1>1, <2>1, <2>2
<1>4. whitelist[l].id = id
  BY <1>1, <1>2
<1>5. ASSUME NEW j \in Can!Kept(l - 1) PROVE whitelist[j].id # id
  <2>0. l - 1 \in Nat
    BY <1>3
  <2>1. j \in 1..(l - 1) /\ j \in Can!Kept(read)
    <3>1. j \in 1..(l - 1) /\ Can!WellFormed(j)
      BY <1>5 DEF Can!Kept
    <3>2. j \in 1..read
      BY <1>1, <1>3, <3>1
    <3> QED BY <3>1, <3>2 DEF Can!Kept
  <2>2. PICK m \in 1..Len(rules) : rules[m].line = j
    BY <2>1 DEF Loaded
  <2>3. rules[m].id = whitelist[j].id
    BY <2>2 DEF Loaded, Entry
  <2>4. SUFFICES ASSUME rules[m].id = id PROVE FALSE
    BY <2>3
  <2>5. k <= m
    BY <2>4, FirstEntryIs
  <2>6. k = m \/ k < m
    BY <1>1, <2>5
  <2>7. k < m => l < j
    BY <1>1, <2>2 DEF Loaded
  <2>8. l = j \/ l < j
    BY <2>2, <2>6, <2>7
  <2> QED BY <1>3, <2>1, <2>8
<1>6. Cardinality(Can!Kept(l - 1)) < MaxRules
  <2>0. l - 1 \in Nat
    BY <1>3
  <2>1. Can!Kept(l - 1) \subseteq Can!Kept(read) \ {l}
    <3>1. \A j \in 1..(l - 1) : j \in 1..read /\ j # l
      BY <1>1, <1>3
    <3> QED BY <3>1 DEF Can!Kept
  <2>2. IsFiniteSet(Can!Kept(read)) /\ Cardinality(Can!Kept(read)) = Len(rules)
    BY <1>1, KeptIs DEF Loaded
  <2>3. /\ IsFiniteSet(Can!Kept(read) \ {l})
        /\ Cardinality(Can!Kept(read) \ {l}) = Len(rules) - 1
    BY <1>2, <2>2, FS_RemoveElement
  <2>4. Cardinality(Can!Kept(l - 1)) <= Len(rules) - 1
    BY <2>1, <2>3, FS_Subset
  <2>5. Len(rules) <= MaxRules /\ Cardinality(Can!Kept(l - 1)) \in Nat
    BY <2>0, KeptIs DEF Loaded
  <2> QED BY <1>1, <2>4, <2>5
<1>7. Can!Cardinality(Can!Kept(l - 1)) = Cardinality(Can!Kept(l - 1))
  <2>1. l - 1 \in Nat
    BY <1>3
  <2> QED BY <2>1, KeptIs
<1> QED BY <1>3, <1>4, <1>5, <1>6, <1>7 DEF Can!Decides

\* And a line that decides was loaded, before every other entry for its id.
LEMMA LineDecides ==
  ASSUME Loaded, ~Can!Loading, NEW id, NEW i \in 1..Len(whitelist), Can!Decides(i, id)
  PROVE  FirstEntry(id) # 0 /\ rules[FirstEntry(id)].line = i
<1>0. Len(rules) \in Nat /\ MaxRules \in Nat /\ read \in Nat /\ Len(whitelist) \in Nat
      /\ read <= Len(whitelist) /\ whitelist \in Seq(Can!Line) /\ i - 1 \in Nat
  BY WhitelistAssumption DEF Loaded
<1>1. /\ Can!WellFormed(i) /\ whitelist[i].id = id
      /\ \A j \in Can!Kept(i - 1) : whitelist[j].id # id
      /\ Cardinality(Can!Kept(i - 1)) < MaxRules
  BY <1>0, KeptIs DEF Can!Decides
<1>2. i <= read
  <2> SUFFICES ASSUME ~(i <= read) PROVE FALSE
    OBVIOUS
  <2>1. read <= i - 1 /\ read < Len(whitelist)
    BY <1>0
  <2>2. Len(rules) >= MaxRules
    BY <1>0, <2>1 DEF Can!Loading
  <2>3. Can!Kept(read) \subseteq Can!Kept(i - 1)
    BY <1>0, <2>1 DEF Can!Kept
  <2>4. Cardinality(Can!Kept(read)) <= Cardinality(Can!Kept(i - 1))
    BY <1>0, <2>3, KeptIs, FS_Subset
  <2>5. Cardinality(Can!Kept(read)) = Len(rules) /\ Cardinality(Can!Kept(i - 1)) \in Nat
    BY <1>0, KeptIs DEF Loaded
  <2> QED BY <1>0, <1>1, <2>2, <2>4, <2>5
<1>3. i \in Can!Kept(read)
  BY <1>0, <1>1, <1>2 DEF Can!Kept
<1>4. PICK m \in 1..Len(rules) : rules[m].line = i
  BY <1>3 DEF Loaded
<1>5. rules[m].id = id
  <2>1. rules[m].id = whitelist[i].id
    BY <1>4 DEF Loaded, Entry
  <2> QED BY <1>1, <2>1
<1> DEFINE k == FirstEntry(id)
<1>6. k # 0 /\ k \in 1..Len(rules) /\ k <= m /\ rules[k].id = id
  BY <1>0, <1>5, FirstEntryIs
<1>7. ~(k < m)
  <2> SUFFICES ASSUME k < m PROVE FALSE
    OBVIOUS
  <2>1. rules[k].line < i
    BY <1>4, <1>6 DEF Loaded
  <2>2. rules[k].line \in Can!Kept(read) /\ rules[k].id = whitelist[rules[k].line].id
    BY <1>6 DEF Loaded, Entry
  <2>3. rules[k].line \in 1..read /\ Can!WellFormed(rules[k].line)
    BY <2>2 DEF Can!Kept
  <2>4. rules[k].line \in Can!Kept(i - 1)
    <3>1. rules[k].line \in 1..(i - 1)
      BY <1>0, <2>1, <2>3
    <3> QED BY <2>3, <3>1 DEF Can!Kept
  <2>5. whitelist[rules[k].line].id = id
    BY <1>6, <2>2
  <2> QED BY <1>1, <2>4, <2>5
<1>8. k = m
  BY <1>6, <1>7
<1> QED BY <1>4, <1>6, <1>8

LEMMA JudgementIs ==
  ASSUME Loaded, ~Can!Loading, NEW id, NEW dlc, NEW val \in Int,
         Can!CanVerdict(id, dlc, val) \in {-1, 0, 1}
  PROVE  /\ \A i \in 1..Len(whitelist) :
              Can!Decides(i, id) =>
                /\ Can!CanVerdict(id, dlc, val) # -1
                /\ Can!InByte(i) => (Can!CanVerdict(id, dlc, val) = 1 <=>
                                       val \in whitelist[i].min..whitelist[i].max)
         /\ Can!CanVerdict(id, dlc, val) # -1 =>
              \E i \in 1..Len(whitelist) : Can!Decides(i, id)
<1> DEFINE k == FirstEntry(id)
           v == Can!CanVerdict(id, dlc, val)
<1>1. v = IF k = 0 THEN -1
          ELSE IF val < rules[k].min \/ val > rules[k].max THEN 0 ELSE 1
  BY VerdictIs
<1>2. k # 0 => rules[k].line \in 1..Len(whitelist) /\ Can!Decides(rules[k].line, id)
  BY EntryDecides
<1>3. \A i \in 1..Len(whitelist) : Can!Decides(i, id) => k # 0 /\ rules[k].line = i
  BY LineDecides
<1>4. k # 0 => k \in 1..Len(rules) /\ Entry(rules[k])
  <2>1. k \in 0..Len(rules) /\ Len(rules) \in Nat
    BY FirstEntryIs DEF Loaded
  <2>2. k # 0 => k \in 1..Len(rules)
    BY <2>1
  <2> QED BY <2>2 DEF Loaded
<1> HIDE DEF k, v
<1>5. ASSUME NEW i \in 1..Len(whitelist), Can!Decides(i, id)
      PROVE  /\ v # -1
             /\ Can!InByte(i) => (v = 1 <=> val \in whitelist[i].min..whitelist[i].max)
  <2>1. k # 0 /\ Entry(rules[k]) /\ rules[k].line = i
    BY <1>3, <1>4, <1>5
  <2> DEFINE a == whitelist[i].min
             b == whitelist[i].max
  <2>3. rules[k].min = a % 256 /\ rules[k].max = b % 256
    BY <2>1 DEF Entry
  <2>4. Can!InByte(i) => a \in 0..255 /\ b \in 0..255
    BY DEF Can!InByte
  <2> HIDE DEF a, b
  <2>5. ASSUME Can!InByte(i) PROVE v = 1 <=> val \in a..b
    <3>1. a \in 0..255 /\ b \in 0..255
      BY <2>4, <2>5
    <3>2. a \in Int /\ b \in Int
      BY <3>1
    <3>3. a % 256 = a /\ b % 256 = b
      BY <3>1, <3>2, ByteIs, Zenon
    <3>4. rules[k].min = a /\ rules[k].max = b
      BY <2>3, <3>3
    <3> QED BY <1>1, <2>1, <3>2, <3>4
  <2>6. v # -1
    BY <1>1, <2>1
  <2> QED BY <2>5, <2>6 DEF a, b
<1>6. v # -1 => \E i \in 1..Len(whitelist) : Can!Decides(i, id)
  BY <1>1, <1>2
<1> QED BY <1>5, <1>6 DEF v

LEMMA CanInit == Init => CanInv
<1> SUFFICES ASSUME Init PROVE CanInv
  OBVIOUS
<1>1. rules = <<>> /\ read = 0 /\ frame = Can!NoFrame
      /\ (whitelist = <<>> \/ whitelist \in Can!Files)
  <2>1. CASE program = "can"
    BY <2>1 DEF Init, Can!Init
  <2>2. CASE program # "can"
    BY <2>2 DEF Init
  <2> QED BY <2>1, <2>2
<1>2. whitelist \in Can!Files => whitelist \in Seq(Can!Line)
  <2> SUFFICES ASSUME whitelist \in Can!Files PROVE whitelist \in Seq(Can!Line)
    OBVIOUS
  <2>1. PICK k \in 0..MaxLines : whitelist \in [1..k -> Can!Line]
    BY DEF Can!Files
  <2>2. k \in Nat
    BY WhitelistAssumption
  <2> QED BY <2>1, <2>2
<1>3. whitelist \in Seq(Can!Line)
  <2>1. <<>> \in Seq(Can!Line)
    OBVIOUS
  <2> QED BY <1>1, <1>2, <2>1, Zenon
<1>4. Can!Kept(read) = {}
  BY <1>1 DEF Can!Kept
<1>5. read \in 0..Len(whitelist)
  BY <1>1, <1>3
<1>6. rules \in Seq(Entries) /\ Len(rules) = 0 /\ Len(rules) <= MaxRules
  BY <1>1, WhitelistAssumption
<1>7. Loaded
  BY <1>3, <1>4, <1>5, <1>6, FS_EmptySet DEF Loaded
<1>8. frame.verdict = -3
  BY <1>1 DEF Can!NoFrame
<1> QED BY <1>7, <1>8 DEF CanInv, Can!JudgedByFile

LEMMA LoadLineKeeps == Loaded /\ Can!LoadLine => Loaded'
<1> SUFFICES ASSUME Loaded, Can!LoadLine PROVE Loaded'
  OBVIOUS
<1> DEFINE n == read + 1
           r == Can!Rule(n)
           w == Can!WellFormed(n)
<1>1. /\ whitelist' = whitelist /\ read' = n
      /\ rules' = IF w THEN Append(rules, r) ELSE rules
      /\ read < Len(whitelist) /\ Len(rules) < MaxRules
  BY DEF Can!LoadLine, Can!Loading
<1>2. /\ whitelist \in Seq(Can!Line) /\ Len(whitelist) \in Nat /\ read \in Nat
      /\ rules \in Seq(Entries) /\ Len(rules) \in Nat /\ MaxRules \in Nat
      /\ n \in 1..Len(whitelist) /\ n \in Nat /\ n \notin 1..read
  BY <1>1, WhitelistAssumption DEF Loaded
<1>3. /\ r \in Entries /\ r.line = n /\ r.id = whitelist[n].id
      /\ r.min = whitelist[n].min % 256 /\ r.max = whitelist[n].max % 256
  BY <1>2, RuleIs
<1>4. \A e : Entry(e) => e.line \in Can!Kept(read)
  BY DEF Entry
<1>5. Can!Kept(read)' = Can!Kept(n)
  BY <1>1 DEF Can!Kept, Can!WellFormed
<1>6. Can!Kept(n) = IF w THEN Can!Kept(read) \cup {n} ELSE Can!Kept(read)
  <2>1. 1..n = (1..read) \cup {n}
    BY <1>2
  <2> QED BY <2>1 DEF Can!Kept
<1>7. n \notin Can!Kept(read) /\ Can!Kept(read) \subseteq 1..read
  BY <1>2, KeptIs
<1>8. \A k \in 1..Len(rules) : Entry(rules[k]) /\ rules[k].line < n
  <2>1. \A k \in 1..Len(rules) : Entry(rules[k]) /\ rules[k].line \in Can!Kept(read)
    BY <1>4 DEF Loaded
  <2>2. \A i \in 1..read : i < n
    BY <1>2
  <2> QED BY <1>7, <2>1, <2>2
<1>9. Cardinality(Can!Kept(read)) = Len(rules) /\ IsFiniteSet(Can!Kept(read))
  BY <1>2, KeptIs DEF Loaded
<1>10. /\ \A j, k \in 1..Len(rules) : j < k => rules[j].line < rules[k].line
       /\ \A i \in Can!Kept(read) : \E k \in 1..Len(rules) : rules[k].line = i
  BY DEF Loaded
<1>t. whitelist' \in Seq(Can!Line) /\ read' \in 0..Len(whitelist')
  BY <1>1, <1>2
<1> HIDE DEF n, r, w
<1>11. CASE ~w
  <2>1. rules' = rules /\ Can!Kept(read)' = Can!Kept(read)
    BY <1>1, <1>5, <1>6, <1>11
  <2>2. Len(rules') <= MaxRules
    BY <1>1, <1>2, <2>1
  <2>3. \A k \in 1..Len(rules') : Entry(rules[k])'
    BY <1>1, <1>8, <2>1 DEF Entry
  <2> QED BY <1>2, <1>9, <1>10, <1>t, <2>1, <2>2, <2>3 DEF Loaded
<1>12. CASE w
  <2>1. /\ rules' \in Seq(Entries) /\ Len(rules') = Len(rules) + 1
        /\ \A k \in 1..Len(rules) : rules'[k] = rules[k]
        /\ rules'[Len(rules) + 1] = r
    BY <1>1, <1>2, <1>3, <1>12
  <2>2. Can!Kept(read)' = Can!Kept(read) \cup {n}
    BY <1>5, <1>6, <1>12
  <2>3. Len(rules') <= MaxRules
    BY <1>1, <1>2, <2>1
  <2>4. \A k \in 1..Len(rules') : k \in 1..Len(rules) \/ k = Len(rules) + 1
    BY <1>2, <2>1
  <2>6. \A k \in 1..Len(rules') : Entry(rules[k])'
    <3> SUFFICES ASSUME NEW k \in 1..Len(rules') PROVE Entry(rules[k])'
      OBVIOUS
    <3>1. CASE k \in 1..Len(rules)
      BY <1>1, <1>8, <2>1, <2>2, <3>1 DEF Entry
    <3>2. CASE k = Len(rules) + 1
      BY <1>1, <1>3, <2>1, <2>2, <3>2 DEF Entry
    <3> QED BY <2>4, <3>1, <3>2
  <2>7. ASSUME NEW j \in 1..Len(rules'), NEW k \in 1..Len(rules'), j < k
        PROVE  rules'[j].line < rules'[k].line
    <3>1. j \in 1..Len(rules)
      BY <1>2, <2>1, <2>7
    <3>2. CASE k \in 1..Len(rules)
      BY <1>10, <2>1, <2>7, <3>1, <3>2
    <3>3. CASE k = Len(rules) + 1
      BY <1>3, <1>8, <2>1, <3>1, <3>3
    <3> QED BY <2>4, <3>2, <3>3
  <2>8. ASSUME NEW i \in Can!Kept(read)' PROVE \E k \in 1..Len(rules') : rules'[k].line = i
    <3>1. CASE i \in Can!Kept(read)
      <4>1. PICK k \in 1..Len(rules) : rules[k].line = i
        BY <1>10, <3>1
      <4>2. k \in 1..Len(rules') /\ rules'[k].line = i
        BY <1>2, <2>1, <4>1
      <4> QED BY <4>2
    <3>2. CASE i = n
      <4>1. Len(rules) + 1 \in 1..Len(rules') /\ rules'[Len(rules) + 1].line = i
        BY <1>2, <1>3, <2>1, <3>2
      <4> QED BY <4>1
    <3> QED BY <2>2, <2>8, <3>1, <3>2
  <2>9. Cardinality(Can!Kept(read)') = Len(rules')
    <3>1. Cardinality(Can!Kept(read) \cup {n}) = Cardinality(Can!Kept(read)) + 1
      BY <1>7, <1>9, FS_AddElement
    <3> QED BY <1>9, <2>1, <2>2, <3>1
  <2> QED BY <1>t, <2>1, <2>3, <2>6, <2>7, <2>8, <2>9 DEF Loaded
<1> QED BY <1>11, <1>12

LEMMA LoadedStays == Loaded /\ UNCHANGED <<whitelist, read, rules>> => Loaded'
<1> SUFFICES ASSUME Loaded, UNCHANGED <<whitelist, read, rules>> PROVE Loaded'
  OBVIOUS
<1>1. Can!Kept(read)' = Can!Kept(read)
  BY DEF Can!Kept, Can!WellFormed
<1>2. \A k \in 1..Len(rules) : Entry(rules[k])'
  BY <1>1 DEF Loaded, Entry
<1> QED BY <1>1, <1>2 DEF Loaded

LEMMA CanInvHolds == Spec => []CanInv
<1>1. ASSUME CanInv, Can!LoadLine PROVE CanInv'
  <2>1. Loaded'
    BY <1>1, LoadLineKeeps DEF CanInv
  <2>2. frame'.verdict = -3
    BY <1>1 DEF Can!LoadLine, Can!NoFrame
  <2> QED BY <2>1, <2>2 DEF CanInv, Can!JudgedByFile
<1>2. ASSUME CanInv, NEW id \in FrameIds, NEW dlc \in Sizes, NEW val \in Bytes,
             Can!AnalyzeFrame(id, dlc, val)
      PROVE  CanInv'
  <2>1. /\ frame' = [id |-> id, dlc |-> dlc, val |-> val,
                     verdict |-> Can!CanVerdict(id, dlc, val)]
        /\ UNCHANGED <<whitelist, read, rules>> /\ ~Can!Loading /\ Loaded
    BY <1>2 DEF Can!AnalyzeFrame, CanInv
  <2> DEFINE v == Can!CanVerdict(id, dlc, val)
  <2>2. frame'.verdict = v /\ frame'.id = id /\ frame'.val = val
    BY <2>1
  <2>3. v \in {-2, -1, 0, 1}
    BY VerdictIs
  <2>5. Loaded'
    BY <2>1, LoadedStays
  <2>7. val \in Int
    BY WhitelistAssumption
  <2>8. ASSUME v \in {-1, 0, 1}
        PROVE  /\ \A i \in 1..Len(whitelist) :
                    Can!Decides(i, id) =>
                      /\ v # -1
                      /\ Can!InByte(i) => (v = 1 <=> val \in whitelist[i].min..whitelist[i].max)
               /\ v # -1 => \E i \in 1..Len(whitelist) : Can!Decides(i, id)
    BY <2>1, <2>7, <2>8, JudgementIs
  <2> HIDE DEF v
  <2>9. Can!JudgedByFile'
    BY <2>1, <2>2, <2>8
    DEF Can!JudgedByFile, Can!Decides, Can!InByte, Can!Kept, Can!WellFormed
  <2> QED BY <2>2, <2>3, <2>5, <2>9 DEF CanInv
<1>3. ASSUME CanInv, UNCHANGED canVars PROVE CanInv'
  <2>1. Loaded'
    BY <1>3, LoadedStays DEF CanInv, canVars
  <2>2. Can!JudgedByFile'
    BY <1>3
    DEF CanInv, canVars, Can!JudgedByFile, Can!Decides, Can!InByte, Can!Kept, Can!WellFormed
  <2>3. frame' = frame
    BY <1>3 DEF canVars
  <2> QED BY <1>3, <2>1, <2>2, <2>3 DEF CanInv
<1>4. CanInv /\ [Next]_vars => CanInv'
  BY <1>1, <1>2, <1>3, CanStep DEF Can!Next
<1> QED BY <1>4, CanInit, PTL DEF Spec

\* chrono_can_guard.c and chrono_modbus_guard.c: a CAN frame is judged by the first
\* well-formed line the file has for its id within the table's room, whatever else
\* the file holds, and no cut of the stream changes what the Modbus guard says of
\* the ADU at its head, for tables, whitelists, ids and lengths of every size.
THEOREM GuardsHold == Spec => []GuardsAreSound
<1>1. CanInv /\ ModbusInv => GuardsAreSound
  BY CutsAreHarmless DEF CanInv, GuardsAreSound
<1> QED BY <1>1, CanInvHolds, ModbusInvHolds, PTL
-----------------------------------------------------------------------------
\* The diagnosis engines, on any two sites.
Sites ==
  [down : SUBSET Engines!Checks, latency : Int, jitter : Int, loss : Int, load : Int]

LEMMA EnginesStep == [Next]_vars => [Engines!Next]_site
BY DEF Next, vars, gateVars, coreVars, pidVars, canVars, modbusVars

SiteInv == site \in Sites

LEMMA SiteInit == Engines!Init => SiteInv
BY DEF SiteInv, Engines!Init, Engines!Healthy, Sites

LEMMA SiteNext == SiteInv /\ [Engines!Next]_site => SiteInv'
<1> SUFFICES ASSUME site \in Sites, [Engines!Next]_site PROVE site' \in Sites
  BY DEF SiteInv
<1>1. CASE Engines!CheckFails
  BY <1>1 DEF Engines!CheckFails, Sites
<1>2. CASE Engines!CheckRecovers
  BY <1>2 DEF Engines!CheckRecovers, Sites
<1>3. CASE Engines!MeasurementMoves
  BY <1>3, MeasurementsAssumption DEF Engines!MeasurementMoves, Sites
<1> QED BY <1>1, <1>2, <1>3 DEF Engines!Next

LEMMA SiteHolds == Spec => []SiteInv
<1>1. Init => SiteInv
  BY SiteInit DEF Init
<1>2. SiteInv /\ [Next]_vars => SiteInv'
  BY SiteNext, EnginesStep
<1> QED BY <1>1, <1>2, PTL DEF Spec

\* A check that fails goes on failing when more checks do.
LEMMA FailsMore ==
  ASSUME NEW o, NEW p, o.down \subseteq p.down, NEW S, Engines!Fails(o, S)
  PROVE  Engines!Fails(p, S)
BY DEF Engines!Fails

LEMMA SlowMore ==
  ASSUME NEW o \in Sites, NEW p \in Sites, Engines!Worse(o, p)
  PROVE  /\ Engines!SlowLink(o) => Engines!SlowLink(p)
         /\ Engines!IspNetwork(o) => Engines!IspNetwork(p)
         /\ Engines!IspCapacity(o) => Engines!IspCapacity(p)
BY DEF Sites, Engines!Worse, Engines!SlowLink, Engines!IspNetwork, Engines!IspCapacity

\* What CNEM reports, by the checks that fail.
LEMMA CnemIs ==
  ASSUME NEW o
  PROVE  /\ Engines!CnemSeverity(o) = 2 \/ Engines!CnemSeverity(o) = 1 \/ Engines!CnemSeverity(o) = 0
         /\ Engines!CnemSeverity(o) = 2 <=>
              \/ Engines!Fails(o, {"gateway", "ipv4", "interface"})
              \/ Engines!Fails(o, {"routing", "bgp"})
         /\ Engines!CnemSeverity(o) = 0 <=>
              /\ ~Engines!Fails(o, {"gateway", "ipv4", "interface"})
              /\ ~Engines!Fails(o, {"routing", "bgp"})
              /\ ~Engines!Fails(o, {"dns"}) /\ ~Engines!Fails(o, {"pon"})
              /\ ~Engines!Fails(o, {"radio"}) /\ ~Engines!SlowLink(o)
BY DEF Engines!CnemSeverity, Engines!CnemCause

\* The anomalies of Cumbia and the domains of Assurance, one by one.
LEMMA CumbiaIs ==
  ASSUME NEW o
  PROVE  /\ "INTERFACE" \in Engines!CumbiaAnomalies(o) <=> Engines!Fails(o, {"interface"})
         /\ "PERFORMANCE" \in Engines!CumbiaAnomalies(o) <=> Engines!SlowLink(o)
         /\ Engines!CumbiaAnomalies(o) # {} <=>
              \/ Engines!Fails(o, {"routing"}) \/ Engines!Fails(o, {"bgp"})
              \/ Engines!Fails(o, {"rpki"}) \/ Engines!Fails(o, {"ipv4", "ipv6"})
              \/ Engines!Fails(o, {"dns"})
              \/ Engines!Fails(o, {"certificate", "authentication", "configuration"})
              \/ Engines!Fails(o, {"interface"}) \/ Engines!SlowLink(o)
<1> DEFINE A == Engines!CumbiaAnomalies(o)
<1>1. "ROUTING" \in A <=> Engines!Fails(o, {"routing"})
  BY DEF Engines!CumbiaAnomalies
<1>2. "BGP" \in A <=> Engines!Fails(o, {"bgp"})
  BY DEF Engines!CumbiaAnomalies
<1>3. "RPKI" \in A <=> Engines!Fails(o, {"rpki"})
  BY DEF Engines!CumbiaAnomalies
<1>4. "IPV" \in A <=> Engines!Fails(o, {"ipv4", "ipv6"})
  BY DEF Engines!CumbiaAnomalies
<1>5. "DNS" \in A <=> Engines!Fails(o, {"dns"})
  BY DEF Engines!CumbiaAnomalies
<1>6. "SECURITY" \in A <=> Engines!Fails(o, {"certificate", "authentication", "configuration"})
  BY DEF Engines!CumbiaAnomalies
<1>7. "INTERFACE" \in A <=> Engines!Fails(o, {"interface"})
  BY DEF Engines!CumbiaAnomalies
<1>8. "PERFORMANCE" \in A <=> Engines!SlowLink(o)
  BY DEF Engines!CumbiaAnomalies
<1>9. A \subseteq {"ROUTING", "BGP", "RPKI", "IPV", "DNS", "SECURITY", "INTERFACE", "PERFORMANCE"}
  BY DEF Engines!CumbiaAnomalies
<1> HIDE DEF A
<1>10. A # {} <=> \/ "ROUTING" \in A \/ "BGP" \in A \/ "RPKI" \in A \/ "IPV" \in A \/ "DNS" \in A
                  \/ "SECURITY" \in A \/ "INTERFACE" \in A \/ "PERFORMANCE" \in A
  BY <1>9
<1>11. A # {} <=>
         \/ Engines!Fails(o, {"routing"}) \/ Engines!Fails(o, {"bgp"})
         \/ Engines!Fails(o, {"rpki"}) \/ Engines!Fails(o, {"ipv4", "ipv6"})
         \/ Engines!Fails(o, {"dns"})
         \/ Engines!Fails(o, {"certificate", "authentication", "configuration"})
         \/ Engines!Fails(o, {"interface"}) \/ Engines!SlowLink(o)
  BY <1>1, <1>2, <1>3, <1>4, <1>5, <1>6, <1>7, <1>8, <1>10
<1> QED BY <1>7, <1>8, <1>11 DEF A

AllDomains ==
  {"management", "interface", "gateway", "routing", "rpki", "dns", "ip",
   "pon", "radio", "certificate", "configuration", "performance"}
LEMMA AssuranceIs ==
  ASSUME NEW o
  PROVE  /\ Engines!AssuranceDomains(o) \subseteq AllDomains
         /\ \A d \in AllDomains \ {"routing", "ip", "performance"} :
              d \in Engines!AssuranceDomains(o) <=> Engines!Fails(o, {d})
         /\ "routing" \in Engines!AssuranceDomains(o) <=> Engines!Fails(o, {"routing", "bgp"})
         /\ "ip" \in Engines!AssuranceDomains(o) <=> Engines!Fails(o, {"ipv4", "ipv6"})
         /\ "performance" \in Engines!AssuranceDomains(o) <=> Engines!SlowLink(o)
<1>1. Engines!AssuranceDomains(o) \subseteq AllDomains
  BY DEF Engines!AssuranceDomains, AllDomains
<1>2. ASSUME NEW d \in AllDomains, d \notin {"routing", "ip", "performance"}
      PROVE  d \in Engines!AssuranceDomains(o) <=> Engines!Fails(o, {d})
  BY <1>2 DEF Engines!AssuranceDomains, AllDomains
<1>3. /\ "routing" \in Engines!AssuranceDomains(o) <=> Engines!Fails(o, {"routing", "bgp"})
      /\ "ip" \in Engines!AssuranceDomains(o) <=> Engines!Fails(o, {"ipv4", "ipv6"})
      /\ "performance" \in Engines!AssuranceDomains(o) <=> Engines!SlowLink(o)
  BY DEF Engines!AssuranceDomains
<1> QED BY <1>1, <1>2, <1>3

\* CNEM never reports a site that got worse as better.
LEMMA CnemNoBetter ==
  ASSUME NEW o \in Sites, NEW p \in Sites, Engines!Worse(o, p)
  PROVE  Engines!CnemSeverity(o) <= Engines!CnemSeverity(p)
<1>1. o.down \subseteq p.down
  BY DEF Engines!Worse
<1>2. Engines!Fails(o, {"gateway", "ipv4", "interface"})
        => Engines!Fails(p, {"gateway", "ipv4", "interface"})
  BY <1>1, FailsMore
<1>3. Engines!Fails(o, {"routing", "bgp"}) => Engines!Fails(p, {"routing", "bgp"})
  BY <1>1, FailsMore
<1>4. Engines!Fails(o, {"dns"}) => Engines!Fails(p, {"dns"})
  BY <1>1, FailsMore
<1>5. Engines!Fails(o, {"pon"}) => Engines!Fails(p, {"pon"})
  BY <1>1, FailsMore
<1>6. Engines!Fails(o, {"radio"}) => Engines!Fails(p, {"radio"})
  BY <1>1, FailsMore
<1>7. Engines!SlowLink(o) => Engines!SlowLink(p)
  BY SlowMore
<1>8. Engines!CnemSeverity(o) = 2 => Engines!CnemSeverity(p) = 2
  BY <1>2, <1>3, CnemIs
<1>9. Engines!CnemSeverity(p) = 0 => Engines!CnemSeverity(o) = 0
  BY <1>2, <1>3, <1>4, <1>5, <1>6, <1>7, CnemIs
<1>10. /\ Engines!CnemSeverity(o) \in {0, 1, 2}
       /\ Engines!CnemSeverity(p) \in {0, 1, 2}
  BY CnemIs
<1> QED BY <1>8, <1>9, <1>10

LEMMA AssuranceNoBetter ==
  ASSUME NEW o \in Sites, NEW p \in Sites, Engines!Worse(o, p)
  PROVE  Engines!AssuranceStatus(o) <= Engines!AssuranceStatus(p)
<1>1. o.down \subseteq p.down
  BY DEF Engines!Worse
<1>2. Engines!SlowLink(o) => Engines!SlowLink(p)
  BY SlowMore
<1>3. ASSUME NEW d \in Engines!AssuranceDomains(o) PROVE d \in Engines!AssuranceDomains(p)
  <2>0. d \in AllDomains
    BY AssuranceIs
  <2>1. CASE d \notin {"routing", "ip", "performance"}
    <3>1. Engines!Fails(o, {d})
      BY <2>0, <2>1, AssuranceIs
    <3>2. Engines!Fails(p, {d})
      BY <1>1, <3>1, FailsMore
    <3> QED BY <2>0, <2>1, <3>2, AssuranceIs
  <2>2. CASE d = "routing"
    <3>1. Engines!Fails(p, {"routing", "bgp"})
      BY <1>1, <2>2, FailsMore, AssuranceIs
    <3> QED BY <2>2, <3>1, AssuranceIs
  <2>3. CASE d = "ip"
    <3>1. Engines!Fails(p, {"ipv4", "ipv6"})
      BY <1>1, <2>3, FailsMore, AssuranceIs
    <3> QED BY <2>3, <3>1, AssuranceIs
  <2>4. CASE d = "performance"
    BY <1>2, <2>4, AssuranceIs
  <2> QED BY <2>1, <2>2, <2>3, <2>4
<1> QED BY <1>3 DEF Engines!AssuranceStatus

\* Cumbia may, when an interface is down on a slow link.
LEMMA CumbiaNoBetter ==
  ASSUME NEW o \in Sites, NEW p \in Sites, Engines!Worse(o, p)
  PROVE  \/ Engines!CumbiaStatus(o) <= Engines!CumbiaStatus(p)
         \/ "interface" \in p.down /\ Engines!SlowLink(p)
<1>1. o.down \subseteq p.down
  BY DEF Engines!Worse
<1>2. Engines!SlowLink(o) => Engines!SlowLink(p)
  BY SlowMore
<1>3. Engines!CumbiaStops(o) => Engines!CumbiaStops(p)
  BY <1>1, FailsMore DEF Engines!CumbiaStops
<1>4. Engines!Fails(o, {"interface"}) => Engines!Fails(p, {"interface"})
  BY <1>1, FailsMore
<1>5. Engines!Fails(p, {"interface"}) <=> "interface" \in p.down
  BY DEF Engines!Fails
<1>6. Engines!CumbiaAnomalies(o) # {} => Engines!CumbiaAnomalies(p) # {}
  <2>1. Engines!Fails(o, {"routing"}) => Engines!Fails(p, {"routing"})
    BY <1>1, FailsMore
  <2>2. Engines!Fails(o, {"bgp"}) => Engines!Fails(p, {"bgp"})
    BY <1>1, FailsMore
  <2>3. Engines!Fails(o, {"rpki"}) => Engines!Fails(p, {"rpki"})
    BY <1>1, FailsMore
  <2>4. Engines!Fails(o, {"ipv4", "ipv6"}) => Engines!Fails(p, {"ipv4", "ipv6"})
    BY <1>1, FailsMore
  <2>5. Engines!Fails(o, {"dns"}) => Engines!Fails(p, {"dns"})
    BY <1>1, FailsMore
  <2>6. Engines!Fails(o, {"certificate", "authentication", "configuration"})
          => Engines!Fails(p, {"certificate", "authentication", "configuration"})
    BY <1>1, FailsMore
  <2> QED BY <1>2, <1>4, <2>1, <2>2, <2>3, <2>4, <2>5, <2>6, CumbiaIs
<1>7. /\ "INTERFACE" \in Engines!CumbiaAnomalies(o) => Engines!Fails(p, {"interface"})
      /\ "INTERFACE" \in Engines!CumbiaAnomalies(p) <=> Engines!Fails(p, {"interface"})
      /\ "PERFORMANCE" \in Engines!CumbiaAnomalies(o) => Engines!SlowLink(p)
      /\ "PERFORMANCE" \in Engines!CumbiaAnomalies(p) <=> Engines!SlowLink(p)
  BY <1>2, <1>4, CumbiaIs
<1> QED BY <1>3, <1>5, <1>6, <1>7 DEF Engines!CumbiaStatus

\* ISP only when a category that it tests earlier takes over.
LEMMA IspNoBetter ==
  ASSUME NEW o \in Sites, NEW p \in Sites, Engines!Worse(o, p)
  PROVE  \/ Engines!IspSeverity(o) <= Engines!IspSeverity(p)
         \/ Engines!IspSeverity(p) = 1 /\ Engines!IspCategory(p) < Engines!IspCategory(o)
<1>1. o.down \subseteq p.down
  BY DEF Engines!Worse
<1>2. /\ Engines!IspRouting(o) => Engines!IspRouting(p)
      /\ Engines!IspPon(o) => Engines!IspPon(p)
      /\ Engines!IspSecurity(o) => Engines!IspSecurity(p)
  BY <1>1, FailsMore DEF Engines!IspRouting, Engines!IspPon, Engines!IspSecurity
<1>3. /\ Engines!IspNetwork(o) => Engines!IspNetwork(p)
      /\ Engines!IspCapacity(o) => Engines!IspCapacity(p)
  BY SlowMore
<1>4. /\ Engines!Fails(o, {"los", "flapping"}) => Engines!Fails(p, {"los", "flapping"})
      /\ Engines!Fails(o, {"certificate"}) => Engines!Fails(p, {"certificate"})
  BY <1>1, FailsMore
<1>5. /\ o.loss >= 5 \/ o.latency >= 200 => p.loss >= 5 \/ p.latency >= 200
      /\ o.load >= 90 => p.load >= 90
  BY DEF Sites, Engines!Worse
<1>6. Engines!IspCategory(p) <= Engines!IspCategory(o)
  BY <1>2, <1>3 DEF Engines!IspCategory
<1>7. Engines!IspCategory(o) \in 1..6 /\ Engines!IspCategory(p) \in 1..6
  BY DEF Engines!IspCategory
<1>8. /\ Engines!IspSeverity(o) \in 0..2 /\ Engines!IspSeverity(p) \in 0..2
      /\ Engines!IspCategory(p) # 6 => Engines!IspSeverity(p) # 0
  BY <1>7 DEF Engines!IspSeverity
<1>9. CASE Engines!IspCategory(p) = Engines!IspCategory(o)
  BY <1>4, <1>5, <1>7, <1>9 DEF Engines!IspSeverity
<1>10. CASE Engines!IspCategory(p) # Engines!IspCategory(o)
  BY <1>6, <1>7, <1>8, <1>10
<1> QED BY <1>9, <1>10

\* A site that gets worse is not reported as better by CNEM and Assurance, by
\* Cumbia unless an interface is down on a slow link, and by ISP unless an
\* earlier category took over, for measurements of every value.
THEOREM WorseIsReported == Spec => WorseNeverLooksBetter
<1> DEFINE Step == Engines!Worse(site, site') /\ Engines!Measured(site) /\ Engines!Measured(site')
                     => Engines!NoBetter(site, site')
<1>1. SiteInv /\ SiteInv' => Step
  BY CnemNoBetter, AssuranceNoBetter, CumbiaNoBetter, IspNoBetter DEF SiteInv, Engines!NoBetter
<1>2. SiteInv /\ SiteInv' /\ [Next]_vars => [Step]_site
  BY <1>1
<1> HIDE DEF Step
<1>3. Spec => [][Step]_site
  BY <1>2, SiteHolds, PTL DEF Spec
<1> QED BY <1>3 DEF WorseNeverLooksBetter, Engines!WorseNeverLooksBetter, Engines!vars, Step
-----------------------------------------------------------------------------
\* Fails looks for one of the checks.
LEMMA FailsIs ==
  ASSUME NEW o, NEW S
  PROVE  Engines!Fails(o, S) <=> \E c \in S : c \in o.down
BY DEF Engines!Fails

\* The domains of Assurance and the checks that stand behind them.
LEMMA DomainsAre ==
  ASSUME NEW o
  PROVE  /\ Engines!AssuranceDomains(o) = {} <=>
              /\ "management" \notin o.down /\ "interface" \notin o.down /\ "gateway" \notin o.down
              /\ "routing" \notin o.down /\ "bgp" \notin o.down /\ "rpki" \notin o.down
              /\ "dns" \notin o.down /\ "ipv4" \notin o.down /\ "ipv6" \notin o.down
              /\ "pon" \notin o.down /\ "radio" \notin o.down /\ "certificate" \notin o.down
              /\ "configuration" \notin o.down /\ ~Engines!SlowLink(o)
         /\ "routing" \in Engines!AssuranceDomains(o) <=> "routing" \in o.down \/ "bgp" \in o.down
         /\ \A d \in {"management", "interface", "gateway", "rpki", "dns", "pon", "radio",
                      "certificate", "configuration"} :
              d \in Engines!AssuranceDomains(o) <=> d \in o.down
<1> DEFINE D == Engines!AssuranceDomains(o)
<1>1. ASSUME NEW d \in {"management", "interface", "gateway", "rpki", "dns", "pon", "radio",
                        "certificate", "configuration"}
      PROVE  d \in D <=> d \in o.down
  <2>1. d \in AllDomains \ {"routing", "ip", "performance"}
    BY DEF AllDomains
  <2>2. d \in D <=> Engines!Fails(o, {d})
    BY <2>1, AssuranceIs
  <2> QED BY <2>2, FailsIs
<1>2. "routing" \in D <=> "routing" \in o.down \/ "bgp" \in o.down
  <2>1. "routing" \in D <=> Engines!Fails(o, {"routing", "bgp"})
    BY AssuranceIs
  <2> QED BY <2>1, FailsIs
<1>3. "ip" \in D <=> "ipv4" \in o.down \/ "ipv6" \in o.down
  <2>1. "ip" \in D <=> Engines!Fails(o, {"ipv4", "ipv6"})
    BY AssuranceIs
  <2> QED BY <2>1, FailsIs
<1>4. "performance" \in D <=> Engines!SlowLink(o)
  BY AssuranceIs
<1>5. D = {} <=>
        /\ "management" \notin D /\ "interface" \notin D /\ "gateway" \notin D
        /\ "routing" \notin D /\ "rpki" \notin D /\ "dns" \notin D /\ "ip" \notin D
        /\ "pon" \notin D /\ "radio" \notin D /\ "certificate" \notin D
        /\ "configuration" \notin D /\ "performance" \notin D
  BY AssuranceIs DEF AllDomains
<1> HIDE DEF D
<1>6. D = {} <=>
        /\ "management" \notin o.down /\ "interface" \notin o.down /\ "gateway" \notin o.down
        /\ "routing" \notin o.down /\ "bgp" \notin o.down /\ "rpki" \notin o.down
        /\ "dns" \notin o.down /\ "ipv4" \notin o.down /\ "ipv6" \notin o.down
        /\ "pon" \notin o.down /\ "radio" \notin o.down /\ "certificate" \notin o.down
        /\ "configuration" \notin o.down /\ ~Engines!SlowLink(o)
  BY <1>1, <1>2, <1>3, <1>4, <1>5
<1> QED BY <1>1, <1>2, <1>6 DEF D

\* The cause that CNEM names, check by check.
LEMMA CauseIs ==
  ASSUME NEW o
  PROVE  Engines!CnemCause(o) =
           IF "gateway" \in o.down \/ "ipv4" \in o.down \/ "interface" \in o.down THEN "CONNECTIVITY"
           ELSE IF "routing" \in o.down \/ "bgp" \in o.down THEN "ROUTING"
           ELSE IF "dns" \in o.down THEN "DNS"
           ELSE IF "pon" \in o.down THEN "PON"
           ELSE IF "radio" \in o.down THEN "RADIO"
           ELSE IF Engines!SlowLink(o) THEN "PERFORMANCE"
           ELSE "NONE"
<1>1. Engines!Fails(o, {"gateway", "ipv4", "interface"})
        <=> "gateway" \in o.down \/ "ipv4" \in o.down \/ "interface" \in o.down
  BY FailsIs
<1>2. Engines!Fails(o, {"routing", "bgp"}) <=> "routing" \in o.down \/ "bgp" \in o.down
  BY FailsIs
<1>3. Engines!Fails(o, {"dns"}) <=> "dns" \in o.down
  BY FailsIs
<1>4. Engines!Fails(o, {"pon"}) <=> "pon" \in o.down
  BY FailsIs
<1>5. Engines!Fails(o, {"radio"}) <=> "radio" \in o.down
  BY FailsIs
<1> QED BY <1>1, <1>2, <1>3, <1>4, <1>5 DEF Engines!CnemCause

LEMMA RootIs ==
  ASSUME NEW o
  PROVE  Engines!AssuranceRoot(o) =
           IF Engines!AssuranceDomains(o) = {} THEN "NONE"
           ELSE IF "interface" \in o.down \/ "gateway" \in o.down \/ "management" \in o.down THEN "LINK"
           ELSE IF "routing" \in o.down \/ "bgp" \in o.down THEN "ROUTING"
           ELSE IF "dns" \in o.down THEN "DNS"
           ELSE IF "pon" \in o.down THEN "PON"
           ELSE IF "radio" \in o.down THEN "RADIO"
           ELSE IF "certificate" \in o.down THEN "CERTIFICATE"
           ELSE IF "configuration" \in o.down THEN "CONFIGURATION"
           ELSE "MULTI_DOMAIN"
<1> DEFINE D == Engines!AssuranceDomains(o)
<1>1. D \cap {"interface", "gateway", "management"} # {}
        <=> "interface" \in o.down \/ "gateway" \in o.down \/ "management" \in o.down
  <2>1. /\ "interface" \in D <=> "interface" \in o.down
        /\ "gateway" \in D <=> "gateway" \in o.down
        /\ "management" \in D <=> "management" \in o.down
    BY DomainsAre
  <2> HIDE DEF D
  <2> QED BY <2>1
<1>2. "routing" \in D <=> "routing" \in o.down \/ "bgp" \in o.down
  BY DomainsAre
<1>3. /\ "dns" \in D <=> "dns" \in o.down
      /\ "pon" \in D <=> "pon" \in o.down
      /\ "radio" \in D <=> "radio" \in o.down
      /\ "certificate" \in D <=> "certificate" \in o.down
      /\ "configuration" \in D <=> "configuration" \in o.down
  BY DomainsAre
<1> HIDE DEF D
<1> QED BY <1>1, <1>2, <1>3 DEF Engines!AssuranceRoot, D

\* Cumbia's status and its number of anomalies, with the library's cardinality.
LEMMA CardinalityIs == \A S : Engines!Cardinality(S) = Cardinality(S)
BY DEF Engines!Cardinality, Cardinality

Few(S, n) == IsFiniteSet(S) /\ Cardinality(S) <= n

LEMMA AddOne ==
  ASSUME NEW S, NEW x, NEW n \in Nat, Few(S, n), NEW m \in Nat, m = n + 1
  PROVE  Few(S \cup {x}, m)
<1>1. IsFiniteSet(S \cup {x})
      /\ Cardinality(S \cup {x}) = IF x \in S THEN Cardinality(S) ELSE Cardinality(S) + 1
  BY FS_AddElement DEF Few
<1>2. Cardinality(S) \in Nat /\ Cardinality(S) <= n
  BY FS_CardinalityType DEF Few
<1> QED BY <1>1, <1>2 DEF Few

LEMMA AddFour ==
  ASSUME NEW S, NEW n \in Nat, Few(S, n), NEW a, NEW b, NEW c, NEW d
  PROVE  Few(S \cup {a, b, c, d}, n + 4)
<1> DEFINE n1 == n + 1
           n2 == n1 + 1
           n3 == n2 + 1
           n4 == n3 + 1
<1>n. n1 \in Nat /\ n2 \in Nat /\ n3 \in Nat /\ n4 \in Nat /\ n4 = n + 4
  OBVIOUS
<1>m. n1 = n + 1 /\ n2 = n1 + 1 /\ n3 = n2 + 1 /\ n4 = n3 + 1
  OBVIOUS
<1> HIDE DEF n1, n2, n3, n4
<1>1. Few(S \cup {a}, n1)
  BY <1>n, <1>m, AddOne
<1>2. S \cup {a, b} = (S \cup {a}) \cup {b} /\ S \cup {a, b, c} = (S \cup {a, b}) \cup {c}
      /\ S \cup {a, b, c, d} = (S \cup {a, b, c}) \cup {d}
  OBVIOUS
<1>3. Few((S \cup {a}) \cup {b}, n2)
  BY <1>n, <1>m, <1>1, AddOne
<1>4. Few((S \cup {a, b}) \cup {c}, n3)
  BY <1>n, <1>m, <1>2, <1>3, AddOne
<1>5. Few((S \cup {a, b, c}) \cup {d}, n4)
  BY <1>n, <1>m, <1>2, <1>4, AddOne
<1> QED BY <1>n, <1>2, <1>5

LEMMA CumbiaCounts ==
  ASSUME NEW o
  PROVE  /\ Engines!CumbiaCount(o) \in 0..8
         /\ Engines!CumbiaStatus(o) = 0 <=> Engines!CumbiaCount(o) = 0
<1> DEFINE A == Engines!CumbiaAnomalies(o)
           T == {"ROUTING", "BGP", "RPKI", "IPV"}
           U == {"ROUTING", "BGP", "RPKI", "IPV", "DNS", "SECURITY", "INTERFACE", "PERFORMANCE"}
<1>1. A \subseteq U
  BY DEF Engines!CumbiaAnomalies
<1>2. Few({}, 0)
  BY FS_EmptySet DEF Few
<1>3. T = {} \cup {"ROUTING", "BGP", "RPKI", "IPV"}
      /\ U = T \cup {"DNS", "SECURITY", "INTERFACE", "PERFORMANCE"}
  OBVIOUS
<1> HIDE DEF T, U
<1>a. Few({} \cup {"ROUTING", "BGP", "RPKI", "IPV"}, 0 + 4)
  BY <1>2, AddFour
<1>4. Few(T, 4)
  BY <1>3, <1>a
<1>b. Few(T \cup {"DNS", "SECURITY", "INTERFACE", "PERFORMANCE"}, 4 + 4)
  BY <1>4, AddFour
<1>5. IsFiniteSet(U) /\ Cardinality(U) <= 8
  BY <1>3, <1>b DEF Few
<1>6. IsFiniteSet(A) /\ Cardinality(A) <= Cardinality(U)
  BY <1>1, <1>5, FS_Subset
<1>7. Cardinality(A) \in Nat /\ (Cardinality(A) = 0 <=> A = {}) /\ Cardinality(U) \in Nat
  BY <1>5, <1>6, FS_EmptySet, FS_CardinalityType
<1>8. Cardinality(A) \in 0..8
  BY <1>5, <1>6, <1>7
<1>9. Engines!CumbiaCount(o) = IF Engines!CumbiaStops(o) THEN 1 ELSE Cardinality(A)
  BY CardinalityIs DEF Engines!CumbiaCount
<1>10. "PERFORMANCE" \in A \/ "INTERFACE" \in A => A # {}
  OBVIOUS
<1> QED BY <1>7, <1>8, <1>9, <1>10 DEF Engines!CumbiaStatus

LEMMA AssuranceCounts ==
  ASSUME NEW o
  PROVE  Engines!AssuranceEvidence(o) \in 0..13
<1> DEFINE D == Engines!AssuranceDomains(o)
           T == {"management", "interface", "gateway", "routing"}
           U == {"management", "interface", "gateway", "routing", "rpki", "dns", "ip", "pon"}
<1>1. D \subseteq AllDomains
  BY AssuranceIs
<1>2. Few({}, 0)
  BY FS_EmptySet DEF Few
<1>3. T = {} \cup {"management", "interface", "gateway", "routing"}
      /\ U = T \cup {"rpki", "dns", "ip", "pon"}
      /\ AllDomains = U \cup {"radio", "certificate", "configuration", "performance"}
  BY DEF AllDomains
<1> HIDE DEF T, U, D
<1>a. Few({} \cup {"management", "interface", "gateway", "routing"}, 0 + 4)
  BY <1>2, AddFour
<1>4. Few(T, 4)
  BY <1>3, <1>a
<1>b. Few(T \cup {"rpki", "dns", "ip", "pon"}, 4 + 4)
  BY <1>4, AddFour
<1>5. Few(U, 8)
  BY <1>3, <1>b
<1>c. Few(U \cup {"radio", "certificate", "configuration", "performance"}, 8 + 4)
  BY <1>5, AddFour
<1>6. IsFiniteSet(AllDomains) /\ Cardinality(AllDomains) <= 12
  BY <1>3, <1>c DEF Few
<1>7. IsFiniteSet(D) /\ Cardinality(D) <= Cardinality(AllDomains)
  BY <1>1, <1>6, FS_Subset
<1>8. Cardinality(D) \in Nat /\ Cardinality(AllDomains) \in Nat
  BY <1>6, <1>7, FS_CardinalityType
<1>9. Cardinality(D) \in 0..12
  BY <1>6, <1>7, <1>8
<1> QED BY <1>9, CardinalityIs DEF Engines!AssuranceEvidence, D

LEMMA Agreement ==
  ASSUME NEW o
  PROVE  /\ Engines!CnemSeverity(o) > 0 => Engines!AssuranceStatus(o) > 0
         /\ Engines!CumbiaStatus(o) > 0 =>
              Engines!AssuranceStatus(o) > 0 \/ Engines!Fails(o, {"authorized", "ip", "authentication"})
         /\ Engines!AssuranceStatus(o) > 0 /\ Engines!CnemSeverity(o) = 0 =>
              Engines!Fails(o, {"management", "rpki", "ipv6", "certificate", "configuration"})
         /\ ~Engines!Fails(o, {"management", "ipv4"}) => Engines!SameRoot(o)
<1>1. Engines!AssuranceStatus(o) > 0 <=> Engines!AssuranceDomains(o) # {}
  BY DEF Engines!AssuranceStatus
<1>2. Engines!CnemSeverity(o) > 0 <=> Engines!CnemCause(o) # "NONE"
  BY DEF Engines!CnemSeverity
<1>3. Engines!CnemSeverity(o) = 0 <=> Engines!CnemCause(o) = "NONE"
  BY DEF Engines!CnemSeverity
<1>4. Engines!CnemSeverity(o) > 0 => Engines!AssuranceStatus(o) > 0
  BY <1>1, <1>2, CauseIs, DomainsAre
<1>5. ASSUME Engines!CumbiaStatus(o) > 0, Engines!AssuranceDomains(o) = {}
      PROVE  Engines!Fails(o, {"authorized", "ip", "authentication"})
  <2>1. Engines!CumbiaStops(o) \/ Engines!CumbiaAnomalies(o) # {}
    BY <1>5 DEF Engines!CumbiaStatus
  <2>2. CASE Engines!CumbiaStops(o)
    <3>1. "authorized" \in o.down \/ "management" \in o.down \/ "ip" \in o.down \/ "gateway" \in o.down
      BY <2>2, FailsIs DEF Engines!CumbiaStops
    <3> QED BY <1>5, <3>1, DomainsAre, FailsIs
  <2>3. CASE Engines!CumbiaAnomalies(o) # {}
    <3>1. \/ Engines!Fails(o, {"routing"}) \/ Engines!Fails(o, {"bgp"})
          \/ Engines!Fails(o, {"rpki"}) \/ Engines!Fails(o, {"ipv4", "ipv6"})
          \/ Engines!Fails(o, {"dns"})
          \/ Engines!Fails(o, {"certificate", "authentication", "configuration"})
          \/ Engines!Fails(o, {"interface"}) \/ Engines!SlowLink(o)
      BY <2>3, CumbiaIs
    <3>2. \/ "routing" \in o.down \/ "bgp" \in o.down \/ "rpki" \in o.down \/ "ipv4" \in o.down
          \/ "ipv6" \in o.down \/ "dns" \in o.down \/ "certificate" \in o.down
          \/ "authentication" \in o.down \/ "configuration" \in o.down \/ "interface" \in o.down
          \/ Engines!SlowLink(o)
      BY <3>1, FailsIs
    <3>3. "authentication" \in o.down
      BY <1>5, <3>2, DomainsAre
    <3> QED BY <3>3, FailsIs
  <2> QED BY <2>1, <2>2, <2>3
<1>6. ASSUME Engines!AssuranceDomains(o) # {}, Engines!CnemCause(o) = "NONE"
      PROVE  Engines!Fails(o, {"management", "rpki", "ipv6", "certificate", "configuration"})
  <2>1. \/ "management" \in o.down \/ "rpki" \in o.down \/ "ipv6" \in o.down
        \/ "certificate" \in o.down \/ "configuration" \in o.down
    BY <1>6, CauseIs, DomainsAre
  <2> QED BY <2>1, FailsIs
<1>7. ASSUME ~Engines!Fails(o, {"management", "ipv4"}) PROVE Engines!SameRoot(o)
  <2>1. "management" \notin o.down /\ "ipv4" \notin o.down
    BY <1>7, FailsIs
  <2>2. CASE "gateway" \in o.down \/ "interface" \in o.down
    <3>1. Engines!CnemCause(o) = "CONNECTIVITY"
      BY <2>2, CauseIs
    <3>2. Engines!AssuranceRoot(o) = "LINK"
      BY <2>2, RootIs, DomainsAre
    <3> QED BY <3>1, <3>2 DEF Engines!SameRoot
  <2>3. CASE ~("gateway" \in o.down \/ "interface" \in o.down)
    <3>1. CASE \/ "routing" \in o.down \/ "bgp" \in o.down \/ "dns" \in o.down
               \/ "pon" \in o.down \/ "radio" \in o.down
      <4>1. Engines!CnemCause(o) \in {"ROUTING", "DNS", "PON", "RADIO"}
        BY <2>1, <2>3, <3>1, CauseIs
      <4>2. Engines!AssuranceDomains(o) # {}
        BY <3>1, DomainsAre
      <4>3. Engines!AssuranceRoot(o) = Engines!CnemCause(o)
        BY <2>1, <2>3, <3>1, <4>2, CauseIs, RootIs
      <4> QED BY <4>1, <4>3 DEF Engines!SameRoot
    <3>2. CASE ~(\/ "routing" \in o.down \/ "bgp" \in o.down \/ "dns" \in o.down
                 \/ "pon" \in o.down \/ "radio" \in o.down)
      <4>1. Engines!CnemCause(o) \in {"PERFORMANCE", "NONE"}
        BY <2>1, <2>3, <3>2, CauseIs
      <4>2. Engines!AssuranceRoot(o) \in {"NONE", "CERTIFICATE", "CONFIGURATION", "MULTI_DOMAIN"}
        BY <2>1, <2>3, <3>2, RootIs
      <4> QED BY <4>1, <4>2 DEF Engines!SameRoot
    <3> QED BY <3>1, <3>2
  <2> QED BY <2>2, <2>3
<1> QED BY <1>1, <1>3, <1>4, <1>5, <1>6, <1>7

\* The engines do not contradict each other about any site whatever.
THEOREM EnginesConcur == Spec => []EnginesAgree
<1>1. EnginesAgree
  BY Agreement, CumbiaCounts DEF EnginesAgree, Engines!EnginesAgree
<1> QED BY <1>1, PTL

SiteType ==
  site \in [down : SUBSET Engines!Checks, latency : Latencies \cup {0}, jitter : Jitters \cup {0},
            loss : Losses \cup {0}, load : Loads \cup {0}]

\* The site's measurements are among those of the model, and no engine's tables
\* overflow.
LEMMA EnginesTypeHolds == Spec => []Engines!TypeOK
<1>1. Init => SiteType
  BY DEF Init, Engines!Init, Engines!Healthy, SiteType
<1>2. SiteType /\ [Engines!Next]_site => SiteType'
  <2> SUFFICES ASSUME SiteType, [Engines!Next]_site PROVE SiteType'
    OBVIOUS
  <2>1. CASE Engines!CheckFails
    BY <2>1 DEF Engines!CheckFails, SiteType
  <2>2. CASE Engines!CheckRecovers
    BY <2>2 DEF Engines!CheckRecovers, SiteType
  <2>3. CASE Engines!MeasurementMoves
    BY <2>3 DEF Engines!MeasurementMoves, SiteType
  <2>4. CASE UNCHANGED site
    BY <2>4 DEF SiteType
  <2> QED BY <2>1, <2>2, <2>3, <2>4 DEF Engines!Next
<1>3. SiteType => Engines!TypeOK
  <2>1. Engines!CnemEvidence(site) \in 1..3
    BY DEF Engines!CnemEvidence
  <2> QED BY <2>1, CumbiaCounts, AssuranceCounts DEF SiteType, Engines!TypeOK
<1>4. SiteType /\ [Next]_vars => SiteType'
  BY <1>2, EnginesStep
<1> QED BY <1>1, <1>3, <1>4, PTL DEF Spec
=============================================================================
