--------------------------- MODULE MCFieldPrograms ---------------------------
(***************************************************************************)
(* Small instances, for TLC, of six programs that run beside each other on *)
(* a node and share no state.  A behaviour runs one of them, the others    *)
(* stay in their initial states: their steps would commute with its own.   *)
(***************************************************************************)
EXTENDS Integers, Sequences, FiniteSets, TLC

CONSTANTS
  Visitors, Commands, MaxCommands, Hours, SummerTime, MaxTime, MaxCrashes,
  Imsis, BadImsi, Managers, MaxIssued, MaxFailures,
  Pids, Stoppers, MaxDaemonCommands, MaxKills, NoPid, Torn,
  MaxDeviations, Latencies, Jitters, Losses, Loads,
  MaxRules, RuleIds, FrameIds, MaxCanId, Limits, MaxLines, Bytes, Sizes,
  Protocols, Lengths, Functions, MaxReceived

ASSUME RegisterAssumption ==
  /\ IsFiniteSet(Commands)
  /\ MaxCommands \in Nat /\ MaxTime \in Nat /\ MaxCrashes \in Nat
ASSUME HoursAssumption == Hours \subseteq Nat /\ \E h \in Hours : \A g \in Hours : g <= h
ASSUME ImsisAssumption == BadImsi \notin Imsis
ASSUME IssuedAssumption == MaxIssued \in Nat /\ MaxFailures \in Nat
ASSUME PidsAssumption == NoPid \notin Pids /\ Torn \notin Pids
ASSUME DaemonAssumption == MaxDaemonCommands \in Nat /\ MaxKills \in Nat
ASSUME MeasurementsAssumption ==
  Latencies \subseteq Int /\ Jitters \subseteq Int /\ Losses \subseteq Int /\ Loads \subseteq Int
ASSUME WhitelistAssumption ==
  MaxRules \in Nat /\ MaxLines \in Nat /\ Limits \subseteq Int /\ Bytes \subseteq Nat
ASSUME ModbusAssumption == Lengths \subseteq Nat /\ MaxReceived \in Nat

VARIABLES
  program,   \* the one that runs
  data, db, tmp, command, now, issued, crashes, granted, revoked, disturbed,
  lost, torn,
  subscribers, core, service, trail, shutdowns, manager, commands, failures, unclear,
  pidfile, process, signalled, stopper, daemonCommands, kills, overlapped,
  site,
  whitelist, read, rules, frame,
  stream, received

Gate == INSTANCE AccessRegister
Core5G == INSTANCE Network5G
Pid == INSTANCE ChronodPid
Engines == INSTANCE Diagnosis
Can == INSTANCE CanGuard
Modbus == INSTANCE ModbusGuard

gateVars == <<data, db, tmp, command, now, issued, crashes, granted, revoked, disturbed,
              lost, torn>>
coreVars == <<subscribers, core, service, trail, shutdowns, manager, commands, failures, unclear>>
pidVars == <<pidfile, process, signalled, stopper, daemonCommands, kills, overlapped>>
canVars == <<whitelist, read, rules, frame>>
modbusVars == <<stream, received>>
vars == <<program, gateVars, coreVars, pidVars, site, canVars, modbusVars>>

Programs == {"gate", "5g", "daemon", "engines", "can", "modbus"}

\* The guards' inputs are chosen only when they are the program that runs.
Init ==
  /\ program \in Programs
  /\ Gate!Init /\ Core5G!Init /\ Pid!Init /\ Engines!Init
  /\ IF program = "can" THEN Can!Init
     ELSE whitelist = <<>> /\ read = 0 /\ rules = <<>> /\ frame = Can!NoFrame
  /\ IF program = "modbus" THEN Modbus!Init
     ELSE /\ stream = << [protocol |-> 0, length |-> 6, fc |-> 3] >>
          /\ received = 0

Next ==
  /\ UNCHANGED program
  /\ \/ /\ program = "gate" /\ Gate!Next
        /\ UNCHANGED <<coreVars, pidVars, site, canVars, modbusVars>>
     \/ /\ program = "5g" /\ Core5G!Next
        /\ UNCHANGED <<gateVars, pidVars, site, canVars, modbusVars>>
     \/ /\ program = "daemon" /\ Pid!Next
        /\ UNCHANGED <<gateVars, coreVars, site, canVars, modbusVars>>
     \/ /\ program = "engines" /\ Engines!Next
        /\ UNCHANGED <<gateVars, coreVars, pidVars, canVars, modbusVars>>
     \/ /\ program = "can" /\ Can!Next
        /\ UNCHANGED <<gateVars, coreVars, pidVars, site, modbusVars>>
     \/ /\ program = "modbus" /\ Modbus!Next
        /\ UNCHANGED <<gateVars, coreVars, pidVars, site, canVars>>

Spec == Init /\ [][Next]_vars

\* At the gate the slots in which commands run are interchangeable, and so are
\* the visitors.
Slots == Permutations(Commands) \cup Permutations(Visitors)
-----------------------------------------------------------------------------
\* Types of every program's state; a table or a counter never leaves its range.
TypeOK ==
  /\ program \in Programs
  /\ Gate!TypeOK /\ Core5G!TypeOK /\ Pid!TypeOK /\ Engines!TypeOK
  /\ Can!TypeOK /\ Modbus!TypeOK

\* chrono_visitor_access.c: the gate admits within a granted window only, and
\* follows grants and revocations that did not disturb each other.
GateFollowsResidents == Gate!GateFollowsResidents

\* chrono_5g_manager.c: what the ledger says of a subscriber or a shutdown is so.
LedgerIsTruthful == Core5G!LedgerIsTruthful

\* agent.py: one ChronoD, found by its PID file.
OneDaemon == Pid!OneDaemon

\* The diagnosis engines: a site that gets worse is not reported as better.
WorseNeverLooksBetter == Engines!WorseNeverLooksBetter

\* The diagnosis engines do not contradict each other about one site.
EnginesAgree == Engines!EnginesAgree

\* chrono_can_guard.c and chrono_modbus_guard.c: no accident of loading the
\* whitelist lets a CAN frame through or refuses one, and none of fragmentation
\* the ADU at the head of a Modbus buffer.
GuardsAreSound == Can!JudgedByFile /\ Modbus!CutsDoNotMatter
=============================================================================
