------------------------------ MODULE Continuum ------------------------------
(***************************************************************************)
(* Chrono Continuum (core/continuum/chrono_continuum.c): an identity, a    *)
(* hash-chained events.log, and a state file that holds the head of the    *)
(* chain.  Every command is a program of its own; nothing locks the files  *)
(* and nothing is synced.                                                  *)
(*                                                                         *)
(* SHA-256 is modelled as injective: a hash is the tuple that was hashed.  *)
(* All events happen within the same second, so timestamps tell nothing    *)
(* apart; type, actor and details are one datum.  A line that cannot be    *)
(* written is lost as a whole.                                             *)
(***************************************************************************)
EXTENDS Integers, FiniteSets, Sequences, SequencesExt

CONSTANTS
  Callers,     \* programs that may run at a time
  Data,        \* what an event says
  Invalid,     \* the data that valid_field refuses (empty, '|', newlines)
  MaxEvents,   \* bound: lines in events.log, erased ones included
  MaxFaults,   \* bound: programs cut short and writes that fail
  MaxEdits     \* bound: edits of events.log by others

ASSUME DataAssumption == Invalid \subseteq Data
ASSUME BoundsAssumption ==
  MaxEvents \in Nat /\ MaxFaults \in Nat /\ MaxEdits \in Nat

GENESIS == <<>>
sha256_hex(sequence, datum, previous) == <<sequence, datum, previous>>
ValidAlways(datum) == datum \in Data                \* fault: nothing is refused
valid_field(datum) == datum \notin Invalid
FIELDS == 7

None == "none"
NoProgram == [at |-> "idle", arg |-> None, previous_hash |-> GENESIS, sequence |-> 0]
NoEdit == [kind |-> "none", at |-> 0, line |-> GENESIS]

\* Where a program is: "id_*", "st_*" and "ev_*" in continuum_init, at the
\* identity, the state file and events.log, the rest in continuum_event.
PCs == {"idle", "id_check", "id_open", "id_fill", "st_check", "st_open",
        "st_fill", "ev_check", "ev_open", "inited", "count", "append", "head_open", "head_fill"}

VARIABLES
  identity,   \* [exists, id]: id 0 while nothing is in the file
  made,       \* how many identities were drawn from /dev/urandom
  state,      \* the state file: [state, sequence, head]
  log_exists, \* there is an events.log,
  events,     \* and these are its lines
  prog,       \* each program: where it is, its event (None for init alone),
              \* and its local variables previous_hash and sequence
  faults, edits,
  edit,       \* the edit events.log carries
  overlap,    \* history: two programs ran at the same time
  torn,       \* history: a program ended between the log and the head
  lost,       \* history: a line was not written
  committed,  \* history: the events announced as CONTINUUM_EVENT_COMMITTED
  erased      \* history: the events continuum_init's fopen "w" took away

files   == <<identity, made, state, log_exists, events>>
history == <<overlap, torn, lost, committed, erased>>
vars    == <<files, prog, faults, edits, edit, history>>

Init ==
  /\ identity = [exists |-> FALSE, id |-> 0] /\ made = 0
  /\ state = [state |-> "absent", sequence |-> 0, head |-> GENESIS]
  /\ log_exists = FALSE /\ events = <<>>
  /\ prog = [c \in Callers |-> NoProgram]
  /\ faults = 0 /\ edits = 0 /\ edit = NoEdit
  /\ overlap = FALSE /\ torn = FALSE /\ lost = FALSE /\ committed = {} /\ erased = {}

At(c) == prog[c].at
Goto(c, label) == prog' = [prog EXCEPT ![c].at = label]
Exit(c) == prog' = [prog EXCEPT ![c] = NoProgram]
-----------------------------------------------------------------------------
\* continuum_verify: the lines are read until the first that fails, with the
\* tests in the order of the code.  A line with too many '|' has its fields
\* shifted, and what is read as previous_hash is a part of the event.
Predecessor(f, n) == IF n = 1 THEN GENESIS ELSE f[n - 1].hash

\* Fault: the hash is not recomputed.
FailureChainOnly(f, n) ==
  IF f[n].fields < FIELDS THEN "INVALID_EVENT_FORMAT"
  ELSE IF f[n].sequence # n THEN "SEQUENCE_GAP"
  ELSE IF f[n].fields > FIELDS \/ f[n].previous # Predecessor(f, n) THEN "CHAIN_BREAK"
  ELSE "none"

Failure(f, n) ==
  IF f[n].fields < FIELDS THEN "INVALID_EVENT_FORMAT"
  ELSE IF f[n].sequence # n THEN "SEQUENCE_GAP"
  ELSE IF f[n].fields > FIELDS \/ f[n].previous # Predecessor(f, n) THEN "CHAIN_BREAK"
  ELSE IF f[n].hash # sha256_hex(f[n].sequence, f[n].datum, f[n].previous)
  THEN "HASH_MISMATCH"
  ELSE "none"

\* The result and the number printed with it: how many events verified, or the
\* event whose hash does not match; every other failure is printed without
\* saying where (0).
continuum_verify(exists, f) ==
  LET bad   == {n \in 1..Len(f) : Failure(f, n) # "none"}
      first == CHOOSE n \in bad : \A m \in bad : n <= m
  IN  IF ~exists THEN [result |-> "EMPTY", number |-> 0]
      ELSE IF bad = {} THEN [result |-> "VERIFIED", number |-> Len(f)]
      ELSE [result |-> Failure(f, first),
            number |-> IF Failure(f, first) = "HASH_MISMATCH" THEN first ELSE 0]

\* read_state_hash: the head, or "GENESIS" when the file is absent, empty, or
\* says so itself.
read_state_hash(file) == IF file.state = "ACTIVE" THEN file.head ELSE GENESIS

count_events(f) == Len(f)

\* What the commands state and passport print; 0 stands for no identity line.
continuum_state == state
continuum_passport == [id |-> identity.id, events |-> count_events(events)]
-----------------------------------------------------------------------------
\* A command starts: init, or event with acceptable fields, whose first call
\* is continuum_init.
Start(c, datum) ==
  /\ At(c) = "idle"
  /\ datum # None => valid_field(datum) /\ Len(events) + Cardinality(erased) < MaxEvents
  /\ prog' = [prog EXCEPT ![c].arg = datum, ![c].at = "id_check"]
  /\ overlap' = (overlap \/ \E d \in Callers : At(d) # "idle")
  /\ UNCHANGED <<files, faults, edits, edit, torn, lost, committed, erased>>

\* Fault: the identity is created without the access test.
CheckIdentityNever(c) ==
  /\ At(c) = "id_check"
  /\ Goto(c, "id_open")
  /\ UNCHANGED <<files, faults, edits, edit, history>>

\* continuum_init, the identity: made only when access finds no file.  fopen
\* creates and empties it, fclose writes what was buffered.
CheckIdentity(c) ==
  /\ At(c) = "id_check"
  /\ Goto(c, IF identity.exists THEN "st_check" ELSE "id_open")
  /\ UNCHANGED <<files, faults, edits, edit, history>>

OpenIdentity(c) ==
  /\ At(c) = "id_open"
  /\ identity' = [exists |-> TRUE, id |-> 0]
  /\ Goto(c, "id_fill")
  /\ UNCHANGED <<made, state, log_exists, events, faults, edits, edit, history>>

FillIdentity(c) ==
  /\ At(c) = "id_fill"
  /\ made' = made + 1
  /\ identity' = [exists |-> TRUE, id |-> made + 1]
  /\ Goto(c, "st_check")
  /\ UNCHANGED <<state, log_exists, events, faults, edits, edit, history>>

\* continuum_init, the state file.
CheckState(c) ==
  /\ At(c) = "st_check"
  /\ Goto(c, IF state.state = "absent" THEN "st_open" ELSE "ev_check")
  /\ UNCHANGED <<files, faults, edits, edit, history>>

EmptyState == [state |-> "empty", sequence |-> 0, head |-> GENESIS]

OpenState(c) ==
  /\ At(c) = "st_open"
  /\ state' = EmptyState
  /\ Goto(c, "st_fill")
  /\ UNCHANGED <<identity, made, log_exists, events, faults, edits, edit, history>>

FillState(c) ==
  /\ At(c) = "st_fill"
  /\ state' = [state |-> "INITIALIZED", sequence |-> 0, head |-> GENESIS]
  /\ Goto(c, "ev_check")
  /\ UNCHANGED <<identity, made, log_exists, events, faults, edits, edit, history>>

\* continuum_init, events.log, and its end: init is over, event goes on.  The
\* log is created with fopen "w", which empties one that another program made
\* since the access test.
InitReturns(c) == IF prog[c].arg = None THEN Exit(c) ELSE Goto(c, "inited")

CheckLog(c) ==
  /\ At(c) = "ev_check"
  /\ IF log_exists THEN InitReturns(c) ELSE Goto(c, "ev_open")
  /\ UNCHANGED <<files, faults, edits, edit, history>>

Logged == {events[n].hash : n \in 1..Len(events)}

OpenLog(c) ==
  /\ At(c) = "ev_open"
  /\ log_exists' = TRUE /\ events' = <<>>
  /\ erased' = erased \cup Logged
  /\ InitReturns(c)
  /\ UNCHANGED <<identity, made, state, faults, edits, edit, overlap, torn, lost, committed>>
-----------------------------------------------------------------------------
\* continuum_event: the head first, then the number of lines.
ReadHead(c) ==
  /\ At(c) = "inited"
  /\ prog' = [prog EXCEPT ![c].previous_hash = read_state_hash(state), ![c].at = "count"]
  /\ UNCHANGED <<files, faults, edits, edit, history>>

\* Fault: the first event is number 0.
CountEventsFromZero(c) ==
  /\ At(c) = "count"
  /\ prog' = [prog EXCEPT ![c].sequence = count_events(events), ![c].at = "append"]
  /\ UNCHANGED <<files, faults, edits, edit, history>>

CountEvents(c) ==
  /\ At(c) = "count"
  /\ prog' = [prog EXCEPT ![c].sequence = count_events(events) + 1, ![c].at = "append"]
  /\ UNCHANGED <<files, faults, edits, edit, history>>

Hash(c) == sha256_hex(prog[c].sequence, prog[c].arg, prog[c].previous_hash)

Line(c) ==
  [fields |-> IF prog[c].arg \in Invalid THEN FIELDS + 1 ELSE FIELDS,
   sequence |-> prog[c].sequence, datum |-> prog[c].arg, previous |-> prog[c].previous_hash,
   hash |-> Hash(c)]

\* Fault: events.log is opened with "w".
AppendTruncates(c) ==
  /\ At(c) = "append"
  /\ log_exists' = TRUE /\ events' = <<Line(c)>>
  /\ Goto(c, "head_open")
  /\ UNCHANGED <<identity, made, state, faults, edits, edit, history>>

\* fopen "a", one write, fclose.
AppendEvent(c) ==
  /\ At(c) = "append"
  /\ log_exists' = TRUE /\ events' = Append(events, Line(c))
  /\ Goto(c, "head_open")
  /\ UNCHANGED <<identity, made, state, faults, edits, edit, history>>

\* The write fails; fprintf, fflush and fclose are not looked at.
AppendLost(c) ==
  /\ At(c) = "append" /\ faults < MaxFaults
  /\ faults' = faults + 1
  /\ lost' = TRUE /\ log_exists' = TRUE
  /\ Goto(c, "head_open")
  /\ UNCHANGED <<identity, made, state, events, edits, edit, overlap, torn, committed, erased>>

\* The head: fopen "w" empties the file, fclose writes it.
OpenHead(c) ==
  /\ At(c) = "head_open"
  /\ state' = EmptyState
  /\ Goto(c, "head_fill")
  /\ UNCHANGED <<identity, made, log_exists, events, faults, edits, edit, history>>

FillHead(c) ==
  /\ At(c) = "head_fill"
  /\ state' = [state |-> "ACTIVE", sequence |-> prog[c].sequence, head |-> Hash(c)]
  /\ committed' = committed \cup {Hash(c)}
  /\ Exit(c)
  /\ UNCHANGED <<identity, made, log_exists, events, faults, edits, edit, overlap, torn, lost,
                 erased>>

\* The same with a write that fails, again unnoticed.
FillHeadLost(c) ==
  /\ At(c) = "head_fill" /\ faults < MaxFaults
  /\ faults' = faults + 1
  /\ torn' = TRUE
  /\ committed' = committed \cup {Hash(c)}
  /\ Exit(c)
  /\ UNCHANGED <<files, edits, edit, overlap, lost, erased>>

\* A program is killed, or an fopen fails and it returns -1.
CutShort(c) ==
  /\ At(c) # "idle" /\ faults < MaxFaults
  /\ faults' = faults + 1
  /\ torn' = (torn \/ At(c) \in {"head_open", "head_fill"})
  /\ Exit(c)
  /\ UNCHANGED <<files, edits, edit, overlap, lost, committed, erased>>
-----------------------------------------------------------------------------
\* Somebody edits events.log while no program runs: changes what an event
\* says, drops a field, or takes a line out that is not the last; or puts a
\* changed line back.
Quiet == \A c \in Callers : At(c) = "idle"

MayEdit(n) == Quiet /\ edits < MaxEdits /\ edit = NoEdit /\ n \in 1..Len(events)

EditDone(kind, n) ==
  /\ edits' = edits + 1
  /\ edit' = [kind |-> kind, at |-> n, line |-> events[n]]
  /\ UNCHANGED <<identity, made, state, log_exists, prog, faults, history>>

AlterDatum(n, datum) ==
  /\ MayEdit(n)
  /\ datum # events[n].datum
  /\ events' = [events EXCEPT ![n].datum = datum]
  /\ EditDone("datum", n)

DropField(n) ==
  /\ MayEdit(n)
  /\ events' = [events EXCEPT ![n].fields = @ - 1]
  /\ EditDone("field", n)

RemoveLine(n) ==
  /\ MayEdit(n) /\ n < Len(events)
  /\ events' = RemoveAt(events, n)
  /\ EditDone("line", n)

Restore ==
  /\ Quiet /\ edit.kind \in {"datum", "field"}
  /\ events' = [events EXCEPT ![edit.at] = edit.line]
  /\ edit' = NoEdit
  /\ UNCHANGED <<identity, made, state, log_exists, prog, faults, edits, history>>
-----------------------------------------------------------------------------
InitStep(c) ==
  CheckIdentity(c) \/ OpenIdentity(c) \/ FillIdentity(c)
    \/ CheckState(c) \/ OpenState(c) \/ FillState(c) \/ CheckLog(c)

EventStep(c) ==
  ReadHead(c) \/ CountEvents(c) \/ AppendEvent(c) \/ OpenHead(c) \/ FillHead(c)

Fault(c) == AppendLost(c) \/ FillHeadLost(c) \/ CutShort(c)

Next ==
  \/ \E c \in Callers :
       InitStep(c) \/ OpenLog(c) \/ EventStep(c) \/ Fault(c)
         \/ \E datum \in Data \cup {None} : Start(c, datum)
  \/ \E n \in 1..Len(events) :
       DropField(n) \/ RemoveLine(n)
         \/ \E datum \in Data \ Invalid : AlterDatum(n, datum)
  \/ Restore

Spec == Init /\ [][Next]_vars
-----------------------------------------------------------------------------
TypeOK ==
  /\ identity.exists \in BOOLEAN /\ identity.id \in 0..made
  /\ identity.id > 0 => identity.exists
  /\ state.state \in {"absent", "empty", "INITIALIZED", "ACTIVE"}
  /\ state.sequence \in Nat
  /\ \A c \in Callers :
       /\ At(c) \in PCs /\ prog[c].arg \in Data \cup {None} /\ prog[c].sequence \in Nat
  /\ log_exists \in BOOLEAN
  /\ \A n \in 1..Len(events) :
       /\ events[n].fields \in Nat /\ events[n].sequence \in Nat \ {0}
       /\ events[n].datum \in Data
  /\ faults \in 0..MaxFaults /\ edits \in 0..MaxEdits
  /\ edit.at \in 0..Len(events) \cup {0}

Orderly == ~overlap /\ ~torn /\ ~lost

\* "state=VERIFIED", "events=3" (test_continuum.sh): a log written by one
\* command at a time verifies with all its events, and the head file agrees
\* with it between commands, also after commands that were cut short before
\* their line or after their head, and after an edit that was put back.
HonestLogVerifies ==
  Orderly /\ edit = NoEdit =>
    /\ continuum_verify(log_exists, events) =
         [result |-> IF log_exists THEN "VERIFIED" ELSE "EMPTY", number |-> Len(events)]
    /\ Quiet /\ events # <<>> =>
         /\ continuum_state.sequence = continuum_passport.events
         /\ continuum_state.head = events[Len(events)].hash

\* "no se identificó el evento alterado" (test_continuum.sh): verify fails on
\* the first line that was tampered with, whatever was appended since; an
\* altered text is reported with the number of its event, a missing field or
\* line by the kind of failure only.
AlterationIdentified ==
  Orderly /\ edit # NoEdit =>
    continuum_verify(log_exists, events) =
      CASE edit.kind = "datum" -> [result |-> "HASH_MISMATCH", number |-> edit.at]
        [] edit.kind = "field" -> [result |-> "INVALID_EVENT_FORMAT", number |-> 0]
        [] edit.kind = "line"  -> [result |-> "SEQUENCE_GAP", number |-> 0]

\* CONTINUUM_EVENT_COMMITTED: unless a write failed, what was announced is in
\* the log, and the head file never names an event that is not, with any
\* number of programs at a time and any of them killed.  The one thing that
\* takes an announced event away is continuum_init's fopen "w", and only when
\* two programs ran at the same time.
CommittedIsLogged ==
  ~lost /\ edits = 0 =>
    /\ committed \subseteq Logged \cup erased
    /\ state.head \in Logged \cup erased \cup {GENESIS}
    /\ erased # {} => overlap

\* The identity in the passport is for good: once written, no command changes
\* it, unless two of them created it at the same time.
IdentityIsStable ==
  [][continuum_passport.id # 0 /\ ~overlap =>
       continuum_passport'.id = continuum_passport.id]_vars
=============================================================================
