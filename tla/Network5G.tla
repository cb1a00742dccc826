----------------------------- MODULE Network5G -----------------------------
(***************************************************************************)
(* chrono-5g-manager (core/network5g/chrono_5g_manager.c): register,       *)
(* revoke and panic-shutdown.                                              *)
(*                                                                         *)
(* A command writes to as many as three places, one after the other and    *)
(* without a lock: its own subscriber file, Open5GS (through open5gs-dbctl  *)
(* or systemctl) and the ledger.  Any of the programs it starts may fail,  *)
(* and the command may be killed in between.  Of the ledger only the last  *)
(* record about each IMSI and the records about a shutdown are kept.       *)
(***************************************************************************)
EXTENDS Integers, Sequences, FiniteSets

CONSTANTS
  Imsis,        \* arguments of 1 to 15 digits
  BadImsi,      \* an argument that is not
  Managers,     \* bound: commands that run at a time
  MaxIssued,    \* bound: commands started
  MaxFailures   \* bound: programs that fail, commands killed

VARIABLES
  subscribers,  \* per IMSI: its lines in the local file, all of them "ACTIVE"
  core,         \* external: the IMSIs Open5GS admits
  service,      \* external: which services of the core run
  trail,        \* per IMSI: type of its last record in the ledger
  shutdowns,    \* the types of the shutdown records in the ledger
  manager,      \* per slot: the running command
  commands, failures,
  unclear       \* history: IMSIs whose commands overlapped, were killed or
                \* could not be recorded

coreVars == <<subscribers, core, service, trail, shutdowns, manager, commands, failures, unclear>>

Services == <<"open5gs-amfd", "open5gs-smfd", "open5gs-upfd">>
Command(op, imsi, at) == [op |-> op, imsi |-> imsi, at |-> at, failed |-> 0, next |-> 1]
Resting == Command("none", BadImsi, "idle")

Init ==
  /\ subscribers = [i \in Imsis |-> 0]
  /\ core = {}
  /\ service = [k \in 1..3 |-> "up"]
  /\ trail = [i \in Imsis |-> "none"]
  /\ shutdowns = {}
  /\ manager = [m \in Managers |-> Resting]
  /\ commands = 0 /\ failures = 0
  /\ unclear = {}

valid_imsi(i) == i \in Imsis

InFlight(i) == \E m \in Managers : manager[m].imsi = i
Started(m) == manager[m] = Resting /\ commands < MaxIssued /\ commands' = commands + 1
Fail == failures < MaxFailures /\ failures' = failures + 1
Overlap(i) == IF InFlight(i) THEN unclear \cup {i} ELSE unclear
-----------------------------------------------------------------------------
\* An argument that is not valid ends the command before anything is written.
Refuse(m, i) ==
  /\ Started(m) /\ ~valid_imsi(i)
  /\ UNCHANGED <<subscribers, core, service, trail, shutdowns, manager, failures, unclear>>

\* append_local_subscriber comes before Open5GS is asked.
RegisterLocal(m, i) ==
  /\ Started(m) /\ valid_imsi(i)
  /\ subscribers' = [subscribers EXCEPT ![i] = @ + 1]
  /\ manager' = [manager EXCEPT ![m] = Command("add", i, "dbctl")]
  /\ unclear' = Overlap(i)
  /\ UNCHANGED <<core, service, trail, shutdowns, failures>>

\* The local file cannot be opened, flushed or closed: nothing else is tried.
RegisterLocalFails(m, i) ==
  /\ Started(m) /\ valid_imsi(i) /\ Fail
  /\ subscribers' \in {subscribers, [subscribers EXCEPT ![i] = @ + 1]}
  /\ UNCHANGED <<core, service, trail, shutdowns, manager, unclear>>

RevokeStart(m, i) ==
  /\ Started(m) /\ valid_imsi(i)
  /\ manager' = [manager EXCEPT ![m] = Command("remove", i, "dbctl")]
  /\ unclear' = Overlap(i)
  /\ UNCHANGED <<subscribers, core, service, trail, shutdowns, failures>>

Applied(m) == IF manager[m].op = "add" THEN core \cup {manager[m].imsi}
                                       ELSE core \ {manager[m].imsi}

\* open5gs-dbctl add or remove through run_direct, result 0.
DbctlWorks(m) ==
  /\ manager[m].at = "dbctl"
  /\ core' = Applied(m)
  /\ manager' = [manager EXCEPT ![m].at = "log"]
  /\ UNCHANGED <<subscribers, service, trail, shutdowns, commands, failures, unclear>>

\* Any other result: not found, failed, or killed after it did its work.
DbctlFails(m) ==
  /\ manager[m].at = "dbctl" /\ Fail
  /\ core' \in {core, Applied(m)}
  /\ manager' = [manager EXCEPT ![m].at = "log", ![m].failed = 1]
  /\ UNCHANGED <<subscribers, service, trail, shutdowns, commands, unclear>>

\* Fault: the result of open5gs-dbctl is not looked at.
RecordIgnoringResult(m) ==
  CASE manager[m].op = "add"    -> "5G_SUBSCRIBER_REGISTERED"
    [] manager[m].op = "remove" -> "5G_SUBSCRIBER_REVOKED"
    [] OTHER -> IF manager[m].failed = 0 THEN "5G_CORE_PANIC_SHUTDOWN"
                                         ELSE "5G_CORE_PANIC_SHUTDOWN_PARTIAL"

\* The event type each command ends with.
Record(m) ==
  LET ok == manager[m].failed = 0 IN
  CASE manager[m].op = "add" ->
         IF ok THEN "5G_SUBSCRIBER_REGISTERED" ELSE "5G_SUBSCRIBER_REGISTER_ATTEMPT"
    [] manager[m].op = "remove" ->
         IF ok THEN "5G_SUBSCRIBER_REVOKED" ELSE "5G_SUBSCRIBER_REVOKE_ATTEMPT"
    [] OTHER ->
         IF ok THEN "5G_CORE_PANIC_SHUTDOWN" ELSE "5G_CORE_PANIC_SHUTDOWN_PARTIAL"

\* log_ledger runs chrono-ledger append and the command ends.
LogWorks(m) ==
  /\ manager[m].at = "log"
  /\ IF manager[m].op = "panic"
     THEN shutdowns' = shutdowns \cup {Record(m)} /\ UNCHANGED trail
     ELSE trail' = [trail EXCEPT ![manager[m].imsi] = Record(m)] /\ UNCHANGED shutdowns
  /\ manager' = [manager EXCEPT ![m] = Resting]
  /\ UNCHANGED <<subscribers, core, service, commands, failures, unclear>>

\* Its result is not looked at: the command reports what it would have anyway.
LogFails(m) ==
  /\ manager[m].at = "log" /\ Fail
  /\ unclear' = unclear \cup ({manager[m].imsi} \cap Imsis)
  /\ manager' = [manager EXCEPT ![m] = Resting]
  /\ UNCHANGED <<subscribers, core, service, trail, shutdowns, commands>>
-----------------------------------------------------------------------------
PanicStart(m) ==
  /\ Started(m)
  /\ manager' = [manager EXCEPT ![m] = Command("panic", BadImsi, "stop")]
  /\ UNCHANGED <<subscribers, core, service, trail, shutdowns, failures, unclear>>

\* The loop goes on to the next service, whether this one stopped or not.
Advance(m, failed) ==
  LET k == manager[m].next IN
  manager' = [manager EXCEPT ![m].failed = @ + failed,
                             ![m].next = IF k = Len(Services) THEN 1 ELSE k + 1,
                             ![m].at = IF k = Len(Services) THEN "log" ELSE "stop"]

\* stop_open5gs_service: systemctl stop.
StopWorks(m) ==
  /\ manager[m].at = "stop"
  /\ service' = [service EXCEPT ![manager[m].next] = "down"]
  /\ Advance(m, 0)
  /\ UNCHANGED <<subscribers, core, trail, shutdowns, commands, failures, unclear>>

\* Any other result; the service may have stopped nevertheless.
StopFails(m) ==
  /\ manager[m].at = "stop" /\ Fail
  /\ service' \in {service, [service EXCEPT ![manager[m].next] = "down"]}
  /\ Advance(m, 1)
  /\ UNCHANGED <<subscribers, core, trail, shutdowns, commands, unclear>>

\* The command is killed between two of its steps.
Killed(m) ==
  /\ manager[m] # Resting /\ Fail
  /\ unclear' = unclear \cup ({manager[m].imsi} \cap Imsis)
  /\ manager' = [manager EXCEPT ![m] = Resting]
  /\ UNCHANGED <<subscribers, core, service, trail, shutdowns, commands>>

Next == \E m \in Managers :
  \/ Refuse(m, BadImsi)
  \/ \E i \in Imsis : RegisterLocal(m, i) \/ RegisterLocalFails(m, i) \/ RevokeStart(m, i)
  \/ DbctlWorks(m) \/ DbctlFails(m) \/ LogWorks(m) \/ LogFails(m)
  \/ PanicStart(m) \/ StopWorks(m) \/ StopFails(m) \/ Killed(m)
Spec == Init /\ [][Next]_coreVars
-----------------------------------------------------------------------------
TypeOK ==
  /\ subscribers \in [Imsis -> 0..MaxIssued]
  /\ core \subseteq Imsis /\ unclear \subseteq Imsis
  /\ service \in [1..3 -> {"up", "down"}]
  /\ trail \in [Imsis -> {"none", "5G_SUBSCRIBER_REGISTERED", "5G_SUBSCRIBER_REGISTER_ATTEMPT",
                          "5G_SUBSCRIBER_REVOKED", "5G_SUBSCRIBER_REVOKE_ATTEMPT"}]
  /\ shutdowns \subseteq {"5G_CORE_PANIC_SHUTDOWN", "5G_CORE_PANIC_SHUTDOWN_PARTIAL"}
  /\ manager \in [Managers ->
       [op : {"none", "add", "remove", "panic"}, imsi : Imsis \cup {BadImsi},
        at : {"idle", "dbctl", "stop", "log"}, failed : 0..3, next : 1..3]]
  /\ commands \in 0..MaxIssued /\ failures \in 0..MaxFailures

\* "Do not claim successful Open5GS registration" (register_subscriber): the
\* ledger's last word on an IMSI is what Open5GS does, once its commands have
\* ended, unless they overlapped, were killed or lost their record; a failed
\* open5gs-dbctl leaves an ATTEMPT, which says neither.
TrailIsTrue ==
  \A i \in Imsis \ unclear : ~InFlight(i) =>
    /\ trail[i] = "5G_SUBSCRIBER_REGISTERED" => i \in core
    /\ trail[i] \in {"5G_SUBSCRIBER_REVOKED", "none"} => i \notin core

\* Whatever fails or is killed, Open5GS admits nobody without a local record,
\* and a shutdown recorded as complete stopped every service.
LedgerIsTruthful ==
  /\ TrailIsTrue
  /\ \A i \in core : subscribers[i] > 0
  /\ "5G_CORE_PANIC_SHUTDOWN" \in shutdowns => \A k \in 1..3 : service[k] = "down"
=============================================================================
