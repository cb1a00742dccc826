# ChronoOS: specifications and proofs

ChronoOS is a collection of C programs, a Python node and receiver (ChronoOS
1.3), shell engines and data around a small init system. The programs are short
and mostly sequential; what is hard about them is what happens *between* them:
processes that die while the supervisor looks elsewhere, answers that arrive
late, files that several programs rewrite without a lock, commands that are cut
short between two writes, logs that somebody edits. The modules here model
those parts, TLC explores them on small instances, and TLAPS proves the
safety properties and the refinement for instances of any size.

Paths below are relative to the root of the repository.

## 1. The system

### Components, their state and their operations

| Component | Source | State it keeps | Operations |
|---|---|---|---|
| chrono-init and its supervisor | `init/src/main.c`, `init/supervisor/service_supervisor.c`, `init/src/service_registry.c` | a runtime table (state, pid, restart count, policy) in memory | load registry; start, poll, handle failures, stop; SIGTERM/SIGINT |
| chronoctl, chronod | `cli/chronoctl`, `services/chronod` | none (chronoctl finds the process in `/proc`) | stop / restart by signal; heartbeat until SIGTERM |
| ChronoD queue and sync | `chronoos-1.3/chronoos/agent.py` | `queue.db` (SQLite) | add_event, sync_once (daemon and operator), maintenance |
| ChronoD as a daemon | `chronoos-1.3/chronoos/agent.py` | the PID file, the process | start, run, stop, status; SIGTERM |
| Receiver | `chronoos-1.3/chronoos/server.py` | `server.db`, `nodes.json` | POST handler threads; enroll, revoke |
| Signed updates | `chronoos-1.3/chronoos/identity.py` | `releases/`, `current`, `.cur.tmp`, `previous`, trusted key | trust, apply, rollback |
| Sovereign ledger | `core/chrono_ledger.c` | a file of hash-chained JSON lines under flock | append, verify |
| Chrono Continuum | `core/continuum/chrono_continuum.c` | `identity`, `state` (the head), `events.log` | init, event, verify, state, passport |
| Community alerts | `core/community/chrono_community_alert.c` | nonce file, alert log, peer table | send, listen |
| Visitors' register | `core/community/chrono_visitor_access.c` | a CSV file, replaced through a temporary one | grant, check, revoke |
| 5G manager | `core/network5g` | the subscriber file, beside the Open5GS database, its services and the ledger | register, revoke, panic shutdown |
| Diagnosis engines (CNEM, Cumbia, Assurance, ISP) | `core/cnem`, `core/cumbia`, `core/assurance`, `core/isp` | none | classify a measurement |
| Antenna engine, Eagle, vertical twins | `core/antenna`, `core/eagle`, `core/vertical` | one record | classify, register |
| CAN guard | `core/vehicle` | the table of rules | load a whitelist, judge a frame |
| Modbus guard | `core/industrial` | none | judge what has arrived of a frame |
| Sentinel engines | `sentinel/sovereign` | state files, evidence, isolation state | scans, isolation, evidence |
| PIN forge/verify, license plates, autonomous agent, vault, attestation, purge, first-stage init, GIS, scripts | see `PROJECT.json` | files | one-shot programs |

### How they interact

* chrono-init forks the services and reaps them. chronoctl acts on the same
  processes from outside, by signal. The operating system recycles process ids.
* A node's programs share `queue.db`; the daemon and the operator's
  `chrono sync` both run `sync_once` against a receiver whose handler threads
  share `server.db` and read `nodes.json`, which the administrator rewrites.
* `chrono update` programs share the release directory and three small files.
* Many programs append to the ledger by running `chrono-ledger append`
  (`core/common/chrono_exec.c`); the ledger's file lock is the only one among
  the programs. Continuum's commands share three files without one.
* The commands of the visitors' register share one CSV file and one temporary
  name; those of the 5G manager share a file, Open5GS and the ledger; the daemon,
  `chrono daemon start` and `chrono daemon stop` share a PID file. None of them
  takes a lock.
* The four diagnosis engines share nothing, but an operator reads what they say
  about the same site side by side.
* Community alert listeners and senders share nothing but a key and a network
  that loses, duplicates, delays and damages datagrams.

### What is hard, and what makes each part correct

`PROJECT.json` lists the hazards line by line. In short:

* **Supervisor**: a pid is used long after it was stored. Correct means: the
  kill of the shutdown never reaches anybody else's process, a service never
  has two processes, restarts are bounded and giving up is final, a shutdown
  ends and leaves nothing behind, and every failure is handled.
* **Event sync**: retries, late answers, two syncers, a crashing receiver and a
  retention run that deletes rows. Correct means: no event is lost, none is
  stored twice, the receiver's copy has no gaps and is final, the queue drains.
* **Updates**: a crash between any two file operations, trust that changes, a
  version test made long before the activation. Correct means: `current` and
  `previous` lead to complete, once-trusted releases, and only a rollback goes
  back.
* **Ledger and Continuum**: concurrent appends, cut and lost writes, power loss,
  edits by others. Correct means: honest logs verify, tampering is found and
  named, what was acknowledged is there.
* **Community alerts**: duplication, delay, damage, restarts, a nonce file that
  outgrows the reader. Correct means: an alert is raised once, and nothing but
  the alert itself makes its nonce a replay.
* **Visitors' register**: revoke replaces a file that others read and append to.
  Correct means: the gate opens only within a window a resident granted, and
  follows grants and revocations.
* **5G manager**: three places are written one after the other and each write can
  fail. Correct means: the ledger does not say what Open5GS does not do, and a
  panic shutdown is recorded as complete only when it was.
* **PID file**: a check and the write that follows it are in different processes.
  Correct means: one daemon, and the one that status and stop find.
* **Diagnosis engines**: long chains of tests in which an early return or a late
  assignment decides. Correct means: a site that gets worse is not reported as
  better, and the engines do not contradict each other.
* **Guards**: a table that fills up, casts to a byte, TCP that cuts a frame
  anywhere. Correct means: none of this lets a frame through or refuses one.

## 2. Modules

Every VARIABLE is a piece of the program's state (or marked `history`), every
action one step of a program between two points where something else may run,
and `PROJECT.json` names the source lines of every definition. Definitions
commented `Fault:` are not part of a specification: each is a plausible bug of
the definition that follows it, used to see that a property can fail.

| Module | Models |
|---|---|
| `ServiceRegistry` | `service_registry_load` as a function from lines of `services.conf` to services |
| `ServiceSupervisor` | `main` and `supervisor_start/poll/handle_failures/stop`, one loop iteration per step, with the process table, children between `fork` and `execl`, zombies, recycled pids, signals that interrupt `waitpid`, failing forks, and chronoctl |
| `EventSync` | `add_event`, `sync_once` (select, wait, mark), `maintenance`; `do_POST` in its stages; `enroll`/`revoke`; lost requests, time-outs, crashes |
| `UpdateManager` | `trust`, `apply`, `rollback`, one file system operation per step, cut short anywhere; the package is read twice, to verify and to extract it, and may be replaced in between |
| `Ledger` | append under `flock` (read last hash, write, fsync), cut writes, failing syncs, kills, power loss; `verify` on lines as `strstr` and `extract_field` read them; alterations |
| `Continuum` | `continuum_init` and `continuum_event` with every `fopen` and `fclose` that writes, the one that creates `events.log` included; `continuum_verify` with its results, and an event number only where it prints one; overlap, cut and lost writes, edits |
| `CommunityAlert` | `send`, `parse_and_verify_packet` in the order of its tests, the nonce file with lines left without their end and openings that fail, raising, restarts, the network |
| `EventStore` | abstract: what event delivery promises, without queue, network or threads; `EventSync` implements it |
| `AccessRegister` | `grant_access`, `check_access`, `revoke_access`, one `fopen`, `fclose`, `remove` or `rename` per step, on inodes and names; failing and partial writes, texts with a comma, and the expiry as `strftime` writes it and `mktime` reads it back |
| `Network5G` | `register_subscriber`, `revoke_subscriber`, `panic_shutdown_5g`, one program run or file write per step, each of which may fail |
| `ChronodPid` | `daemon`, `running` and the start of `_loop`: the PID file, processes, signals, numbers reused by the same or another user |
| `Diagnosis` | `chrono_cnem_correlate`, `chrono_cumbia_analyze`, `chrono_assurance_analyze`, `chrono_isp_analyze` as operators on one site that changes a fault at a time |
| `CanGuard` | `load_whitelist` on well-formed, malformed and comment lines, `analyze_frame` |
| `ModbusGuard` | `parse_mbap` and `chrono_modbus_validate_frame` on every prefix of a stream of two ADUs |
| `MCFieldPrograms` | instances of the last six, of which a behaviour runs one |
| `MC…` | values of constants for TLC |
| `…Proofs` | theorems and their proofs |

Abstractions, all of data: SHA-256 is injective (a hash is the tuple that was
hashed), an HMAC or a signature is whether, or by which key, it is right; texts
are model values, with what escaping and field splitting do to them kept
(`json_escape` in `Ledger`, the shifted fields of `Continuum` and of the
visitors' register, the packet forms of `CommunityAlert`); the clock is kept
only where a window is tested. An SQLite transaction is one step, as SQLite
makes it. The visitors' register is smaller than a stdio buffer: it is read at
once and written at `fclose`, and two revokes that write the temporary file
overlap line by line (their lines differ in length by the status only). Of the
ledger, `Network5G` keeps the last record about each subscriber and the records
about shutdowns.

### The refinement

`EventStore` has three variables: the events that happened, the store (an event
per id) and the ids taken for delivered. An id gets its event once and keeps it,
only from events that happened, and is taken for delivered only when it has one.
`EventSync` maps its receiver's table to the store and its rows marked `synced`
to the delivered ids, and `ImplementsEventStore` states that every behaviour of
queue, syncers, handler threads, retention and failures is one of the store.
What the abstract store does not promise is that the event under an id is the
one the node has under it: that fails when an id is reused (`NoEventLost`).

## 3. Runs

Bounds are the CONSTANTS of the `.cfg` files. They were chosen so that each
conflict needs no more than is there: two actors where two race, one more event,
version or pid than a collision needs, one more fault than an error path needs
followed by a retry, a table of one where two contend for it.

| Run | Instance | Shows |
|---|---|---|
| `supervisor` | a registry loaded from five lines (budgets 2 and 0), three pids, two signals | `NeverSignalsForeign`, `OneInstance`, `LaunchBudget`, `GivenUpStaysFailed`, `FirstSignalStopsAll`; under fairness `ShutdownCompletes` and `FailureIsHandled` |
| `supervisor_second_signal` | two pids | **violated**: `NoServiceOutlivesInit`. A second signal ends the blocking `waitpid` with EINTR and main reports a complete shutdown with a service alive |
| `supervisor_ctl_restart` | one service | **violated**: `RestartIsHonoured`. Requested restarts spend the crash budget, which is never reset |
| `event_sync` | three events of which the last two do not fit one request, two syncers, two handler threads, two faults, one administrator command | `LossNeedsReuse`, `SyncedIsHeld`, `StoredOnce`, `NoGaps`, `ImplementsEventStore`; under fairness `QueueDrains` |
| `event_sync_id_reuse` | one syncer, no faults | **violated**: `NoEventLost`. After retention deleted the newest row its id is given out again and the receiver takes the new event for a duplicate |
| `update` | three versions, two publishers, one program, two crashes, packages replaced at any time | `CurrentComplete`, `RollbackLands`, `InstalledWasTrusted`, `RollbackUndoesApply`, `ActivatesNewer` |
| `update_concurrent` | two programs, no crash | **violated**: `ActivatesNewer`. The version test of one apply is stale when it activates |
| `ledger` | two appenders, three pieces, two faults, one alteration | `NoFalseAlarm`, `AlterationDetected`, `AckedSurvives` |
| `ledger_escaping` | one append | **violated**: `HonestLedgerVerifies`. `verify` escapes an escaped text again, so a record with a quote never verifies |
| `continuum` | two interchangeable programs (SYMMETRY), two events to start, one fault, one edit | `HonestLogVerifies`, `AlterationIdentified`, `CommittedIsLogged`, `IdentityIsStable` |
| `community_alert` | two alerts, peers, ticks and faults; two readable nonce lines, four in the file | `RaisedOnce`, `NotSuppressed` |
| `field_programs` | the visitors' register with two commands at a time, four in all, two visitors, a kill, failing and partial writes, windows that end in and out of summer time; the 5G manager with two commands at a time, three in all, two subscribers and two failures; two daemons and two stop commands, two kills or reused numbers; a site with up to three deviations, measurements at and around every threshold and out of range; whitelists of up to three lines, malformed ones among them, in a table of two, limits in and out of a byte; two ADUs of every kind of length one behind the other, byte by byte | `GateFollowsResidents`, `LedgerIsTruthful`, `OneDaemon`, `WorseNeverLooksBetter`, `EnginesAgree`, `GuardsAreSound` |

The six programs of `field_programs` share no state, so a step of one commutes
with every step of another and a property of one is not affected by the others:
it is enough that each behaviour runs one of them. The slots in which
the gate's commands run are interchangeable, and so are the visitors (SYMMETRY);
the run states no liveness. Three deviations suffice
for the engines: every comparison in them is between the first or last failing
test and at most one other, and one step of a site that gets worse adds one.

`TypeOK` is checked in every passing run. The five violated properties state
what the repository says of itself; `PROJECT.json` quotes the line under
`findings`. The passing runs state what holds nevertheless: for instance
`FirstSignalStopsAll` beside the second signal, and `LossNeedsReuse` beside the
reused id.

Deadlock is checked for the supervisor (whose end is an explicit step) and the
updates. In the other runs the system may stop, because the bounded number of
events, alerts or faults is used up.

What properties leave out, on purpose:

* `NoFalseAlarm`, `AlterationDetected` (`cut`) and Continuum's `Orderly`
  exclude logs with a record cut short, lost or raced: nothing in the repository
  says what `verify` owes in that case, and the models show it then complains.
  `CommittedIsLogged` and `AckedSurvives` are stated without that exclusion.
* The newest record of a log can be removed unnoticed: nothing anchors the end
  of a chain (`core/chrono_ledger.c:474`), so the modelled removals leave the last
  line alone.
* `ShutdownCompletes` ends with main, or with main waiting for a child whose
  SIGTERM came between `fork` and `execl` (`WaitsForDeaf`). There the child still
  has chrono-init's handler, which only sets a flag in the child's memory; `execl`
  discards both, and the blocking `waitpid`
  (`init/supervisor/service_supervisor.c:180`) waits for a process nobody told to
  end.
* `CommittedIsLogged` excludes what `continuum_init` erased (`erased`): it tests
  for `events.log` and opens it with "w" when it was not there, so of two programs
  started on an empty directory one can announce an event that the other then
  truncates. The property adds that this needs two programs at a time.
* `AlterationIdentified` gives a number for an altered text only: verify prints
  the event for HASH_MISMATCH, and only the kind of failure otherwise.
* `RaisedOnce` excludes a nonce beyond the lines `nonce_seen` reads, one glued to
  a line that a failing write left without its end, and one looked for while the
  file could not be opened, which counts as "not seen" (both in `missed`).
* `InstalledWasTrusted` excludes a package that was replaced after its signature
  was checked and before it was extracted (`swapped`): the two are separate reads
  of a path (`chronoos-1.3/chronoos/identity.py:72` and `:83`).
* `QueueDrains` has as its premise that the node stays enrolled and its oldest
  rows fit a request: a batch above the receiver's limit is answered 413 for ever.
* `GateFollowsResidents` asks for agreement with grants and revocations only while
  no revoke was overlapped, killed or unable to write: then a grant can be lost
  after it was announced, a revocation undone, or the register be gone. It also
  excludes a grant whose line was not written or has a comma too many, which is
  announced all the same and never opens the gate (`lost`), and a visitor with an
  older grant that has run out: the line stays ACTIVE and `check_access` stops at
  it. What it keeps in all these cases is that nobody gets in outside a granted
  window, except that a window ending in summer time lasts an hour longer: the
  register holds local time and `mktime` is given a `tm_isdst` of 0
  (`core/community/chrono_visitor_access.c:61-63`). After a line was written in
  part (`torn`) nothing is claimed: `sscanf` then leaves the fields of an earlier
  line in its buffers.
* `LedgerIsTruthful` leaves out subscribers whose commands overlapped, were
  killed, or could not be recorded (`unclear`); that Open5GS admits nobody without
  a local record is stated for all. Services are not started again in the model.
* `OneDaemon` leaves out commands given before the effect of an earlier one was
  there (`overlapped`): `start` returns before its child has written the PID file.
  Kills and reused numbers are included; a reused number makes `start` refuse.
* `WorseNeverLooksBetter` has two exceptions, both of the code's order of tests:
  Cumbia's performance check overwrites the BLOCKED of an interface that is down,
  and a WARNING of an ISP category hides a CRITICAL of a later one.
* `EnginesAgree` lists what only one engine reads: CNEM ignores IPv6 and an RPKI
  problem without a routing problem, management and IPv4 count as the link for
  one of CNEM and Assurance and not for the other.
* `GuardsAreSound` claims the limits of a whitelist line only if they fit a byte,
  and judges the Modbus ADU at the head of the buffer only: of a read and a write
  that arrive together the write is not reported (section 5).
* Each of these exceptions but one is needed: without it TLC finds a violation. That
  for `torn` is not an outcome but a limit of the model, which does not follow
  what a torn line makes of the lines after it.
* `RollbackUndoesApply` is for commands that were not cut short; the crash
  window between the link and `previous` makes rollback skip a level.

### Fairness

* Supervisor: weak fairness of `Main`, a thread that is running, and of
  `TermChildExits`: a service that received SIGTERM after its `execl` ends, by the
  default action or as chronod's handler makes it
  (`services/chronod/src/main.c`). A child that received it before is not assumed
  to end, and no child is assumed to reach its `execl`. No fairness for crashes,
  signals or operators.
* Event sync: the daemon retries every 30 seconds, a sync that was started and a
  handler that was started go on. The operator need not sync and the
  administrator's command may die. Faults are bounded, so retries eventually
  meet none, which is the promise of "retrying sync".

The other modules claim no liveness.

## 4. Theorems

Every invariant, action property and refinement that a passing run checks is
also a theorem. All hold for every value of the constants that satisfies the
named ASSUMEs of the modules: any registry, any set of versions or callers, any
bounds.

| Theorem | States | Under |
|---|---|---|
| `ServiceSupervisorProofs!TypeCorrect` | `[]TypeOK` | |
| `…!KillIsSafe` | `[]NeverSignalsForeign` | |
| `…!NoDoubleLaunch` | `[]OneInstance` | |
| `…!RestartsAreBounded` | `[]LaunchBudget` | |
| `…!GivenUpIsFinal` | `[]GivenUpStaysFailed` | |
| `…!ShutdownIsClean` | `[]FirstSignalStopsAll` | |
| `EventSyncProofs!TypeCorrect` | `[]TypeOK` | |
| `…!MarkedIsHeld` | `[]SyncedIsHeld` | |
| `…!NoDuplicates` | `[]StoredOnce` | |
| `…!OnlyReuseLoses` | `[]LossNeedsReuse` | |
| `…!PrefixStored` | `[]NoGaps` | |
| `…!Refinement` | `ImplementsEventStore` | |
| `UpdateManagerProofs!TypeCorrect` | `[]TypeOK` | |
| `…!UpdateIsCrashSafe` | `[]CurrentComplete` | one program at a time |
| `…!RollbackIsCrashSafe` | `[]RollbackLands` | one program at a time |
| `…!InstalledIsTrusted` | `[]InstalledWasTrusted` | one program at a time |
| `…!RollbackIsOneLevel` | `[]RollbackUndoesApply` | one program at a time |
| `…!OnlyNewerIsActivated` | `ActivatesNewer` | one program at a time |
| `LedgerProofs!TypeCorrect` | `[]TypeOK` | |
| `…!HonestIsAccepted` | `[]NoFalseAlarm` | |
| `…!OneAlterationShows` | `[]AlterationDetected` | `MaxAlter <= 1` |
| `…!AckedIsKept` | `[]AckedSurvives` | |
| `ContinuumProofs!TypeCorrect` | `[]TypeOK` | |
| `…!HonestLogIsAccepted` | `[]HonestLogVerifies` | |
| `…!AlterationIsNamed` | `[]AlterationIdentified` | |
| `…!AnnouncedIsLogged` | `[]CommittedIsLogged` | |
| `…!IdentityIsForGood` | `IdentityIsStable` | |
| `CommunityAlertProofs!TypeCorrect` | `[]TypeOK` | |
| `…!NoRepetition` | `[]RaisedOnce` | |
| `…!NoSuppression` | `[]NotSuppressed` | |
| `FieldProgramsProofs!DaemonIsUnique` | `[]OneDaemon` | |
| `…!CoreLedgerIsTruthful` | `[]LedgerIsTruthful` | |
| `…!GuardsHold` | `[]GuardsAreSound` | |
| `…!WorseIsReported` | `WorseNeverLooksBetter` | |
| `…!EnginesConcur` | `[]EnginesAgree` | |
| `AccessRegisterProofs!GateIsFollowed` | `[]GateFollowsResidents` | |
| `…!TypeCorrect` | `[]TypeOK` of `MCFieldPrograms` | |

Two hypotheses belong to theorems and not to modules. "One program at a time"
(`Single`): without it `ActivatesNewer` is false, as `update_concurrent` shows.
`MaxAlter <= 1`: of two alterations the second may undo the first, which leaves
nothing to report.

The arguments:

* **Supervisor.** None of the properties is inductive: `kill` uses a pid stored
  many steps before. The invariant `IInv` adds that a stored pid is that of an
  unreaped child forked for that very service (`Tracked`), that RUNNING and a
  stored pid come together, that until the shutdown no child is forgotten
  (`NoneForgotten`), and that every launch is the first or was counted
  (`Accounted`). For the shutdown `StopInv` adds that its loop is entered after a
  signal, so that only a second one can interrupt a `waitpid`, and that until
  then every child is in the table and the services below the loop counter are
  stopped.
* **Event sync.** The properties look at the receiver's table; what can still
  change it is in transit. `Placed` collects every place an event can be in: the
  queue, the receiver, a batch a syncer remembers, a batch a handler works on.
  `SyncInv` says of all of them that an event has one id (`OnePlace`), and, until
  an id is reused, that this id is its number and no event is gone (`Ordered`). A
  mark rests on a chain of three facts, for the handler, the answer and the row
  (`StoredHeld`, `AckHeld`, `SyncedIsHeld`), and that an answer is about the batch
  its syncer waits for (`OneHandler`). The refinement then needs no more: a commit
  is a `Keep`, an answer that is marked a `Confirm`, retention a `Forget`, and every
  step but these and `add_event` leaves alone what the store sees.
* **Updates.** apply removes and rewrites a release directory. That it is never
  the one `current` or `previous` leads to rests on facts the code keeps apart:
  the release is newer than the current one until it is activated
  (`ApplyAhead`), `previous` is never newer than `current` (part of
  `RollbackLands`, kept by `ApplyBehind`), and rollback goes to what `previous`
  says (`RollbackAhead`). `ReleasesTrusted` says of every extracted release, not
  only the current one, that its publisher was trusted or its package replaced.
* **Ledger.** The lock makes the last hash a program read still the last one when
  it writes (`LastHashIsFresh`), and the piece it wrote still the last one when it
  syncs (`WrittenIsLast`). With every piece complete a line is a piece, so that
  `verify` accepts a chain. An alteration is among the durable pieces, where
  neither a later append nor a power loss reaches (`AlterationShows`).
* **Continuum.** `HonestLogVerifies` looks at the files between steps; what
  carries it is what a running command knows (`Phase`): the head it read is the
  hash of the last line, its number is the next one, and while the head file is
  rewritten the last line is its own. While the log carries an edit that can be
  undone, numbers and links still hold for every line and the saved line fits
  back (`Undoable`). `AlterationIsNamed` rests on how each kind of edit shows in
  its line and that the lines before it pass (`EditShows`), `AnnouncedIsLogged` on
  a command writing its line before the head (`LoggedFirst`), and on a log that
  holds a line being there for any command that has not yet tested for it, unless
  it ran beside the one that wrote it.
* **Community alerts.** `RaisedOnce` says nothing of an alert that is verified
  but not yet raised. `OneInv` adds that such a nonce is not among the readable
  lines, that a raised alert's nonce is in the file, and that a nonce which
  enters the readable lines late cannot have been raised before, all of nonces
  that were not `missed`; an open last line is only ever completed by one that
  is. `SuppInv` says
  of every nonce in the file what became of its alert.
* **PID file.** The invariant counts every process that will be a daemon
  (`OneLive`), and says that an `unlink` under way finds none and that no signal
  is on its way to a process that is already ending.
* **5G manager.** `LedgerIsTruthful` speaks of commands that have ended. `CoreInv`
  says what one under way has done: what it is about to record is what Open5GS
  does (`CoreFollows`), its local record is there (`LocalFirst`), and the services
  a shutdown went through are down (`StoppedSoFar`).
* **Diagnosis engines and guards.** These are facts about operators, proved for
  any two sites, any table and any prefix by going through the tests in the
  code's order. For a site the invariant says only that it is one. For the CAN
  table it ties every entry to the line it came from, in the file's order and with
  no well-formed line left out while there was room (`Loaded`).
* **Visitors' register.** Three files may exist, two of them without a name.
  `LinesGranted` says of all of them, and of the copies commands hold, that
  every line is a grant somebody announced; with it nobody gets in outside a
  window (in the register's reckoning of time) whatever overlaps. While no
  revoke is disturbed the register, or the copy that is about to replace it, is
  `Faithful`: a line for every grant that is not `lost`, active exactly if it is
  not revoked. That a file which `fopen` creates is a new one (`FreeInode`) is a
  counting argument over the inodes in use.

Assumptions on constants are bounds that are natural numbers, model values that
differ from the values they stand beside, measurements that are integers, and
for the register a finite number of commands at a time and a longest window.

Only model-checked: liveness (`ShutdownCompletes`, `FailureIsHandled`,
`QueueDrains`), which needs fairness and ENABLED and is outside the prover's
reach; and what `service_registry_load` makes of a file, which rests on the
recursive `SelectSeq` and which the `supervisor` run evaluates: the theorems about
the supervisor hold for every registry.

## 5. Not modelled

`PROJECT.json` gives the reason for every part. The large ones: cryptography,
TLS set-up and TPM (library calls), scans that collect the output of system
tools, first-stage init (straight-line system calls), web panels and GIS import
(data conversion), repository scripts, the HTTP lists of `network/5g-core/api`
(memory only, unconnected to the 5G manager), the antenna engine (reads
measurements no other engine has) and license plates (a read-only lookup).
Programs that call `chrono_system_disabled` get an error from it whatever they
ask, so what they would have run is not part of the system. The creation of
node keys (`chronoos-1.3/chronoos/identity.py:20`) makes the file before it
writes it, so a crash in between leaves an empty key that no later command
accepts; nothing in the repository says what is owed then. `nodes.json` is
truncated before it is written (`chronoos-1.3/chronoos/server.py:20`): `EventSync`
has the handler that reads it torn, and `QueueDrains` is claimed only while the
node is enrolled.

Observations made while modelling that no property is about:

* `core/community/chrono_visitor_access.c` says each authorisation and each use
  "queda en el Ledger"; its `log_ledger` goes through `chrono_system_disabled`.
* `chrono-5g-manager` prints "registrado y trazado en Ledger" also when the
  ledger refused the record.
* The device label of the 5G manager may contain a comma, which shifts the
  fields of the subscriber file.
* The header of the Modbus guard (`core/industrial/chrono_modbus_guard.c:17-18`)
  lists several ADUs in one `recv()` among what it handles. The function judges
  the first one and does not say how long it was, so a write behind a read is
  answered 0, and 0 means both "a read" and "not complete yet".
* A grant text that is empty, or longer than the field `check_access` reads, ends
  `sscanf` early, with the same effect as a line written in part;
  `AccessRegister` has texts with and without a comma.
* A check that cannot open the visitors' register denies access, whoever asks;
  `Verdict` has the register readable.
* A package that is rewritten in place while it is extracted could mix two
  releases; `UpdateManager` has it replaced as a whole.
* `running()` says no for a process of another user, because `os.kill` raises an
  `OSError` for it too, so a PID file with a number reused by somebody else does not
  keep `start` from starting, while one reused by the same user does.
* A Continuum event longer than `LINE_SIZE` does not fit the buffers of
  `core/continuum/chrono_continuum.c`; the events of the model do.

## 6. Plan

1. Supervisor with registry, chronoctl and chronod; its theorems. *Done.*
2. Event queue and receiver; updates with theorems. *Done.*
3. Ledger. *Done.*
4. Continuum and community alerts with theorems. *Done.*
5. The abstract event store and the refinement. *Done.*
6. PID file, 5G manager, visitors' register, diagnosis engines, guards. *Done.*
7. Theorems for every safety property, action property and refinement of the
   passing runs. *Done.*
8. Eagle, vertical twins, PIN forge and verify, death memory, Sentinel isolation
   and evidence.
