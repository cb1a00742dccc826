-------------------------------- MODULE Ledger --------------------------------
(***************************************************************************)
(* The sovereign ledger (core/chrono_ledger.c): chrono-ledger append and   *)
(* verify on a file of hash-chained JSON lines, shared by the programs     *)
(* that run "chrono-ledger append" (core/common/chrono_exec.c).            *)
(*                                                                         *)
(* SHA-256 is modelled as injective: the hash of a record is its           *)
(* predecessor's hash with the record's text appended, GENESIS_HASH being  *)
(* the empty sequence.  A text stands for the event and details fields.    *)
(* What json_escape does to it is kept: it leaves a text alone unless it   *)
(* holds a quote or a backslash, and then every pass makes a longer one.   *)
(*                                                                         *)
(* The file is the sequence of pieces that were written, one per append.   *)
(* A write that is cut short leaves a piece without its newline, and the   *)
(* next piece continues the same line.                                     *)
(***************************************************************************)
EXTENDS Integers, Sequences, SequencesExt

CONSTANTS
  Appenders,   \* programs that append
  Plain,       \* texts without quotes and backslashes
  Special,     \* texts with some
  MaxPieces,   \* bound: pieces written
  MaxFaults,   \* bound: failed writes and syncs, kills and power losses
  MaxAlter     \* bound: alterations of the file by others

None == "none"

ASSUME AppendersAssumption == None \notin Appenders
ASSUME TextsAssumption == Plain \cap Special = {}
ASSUME BoundsAssumption == MaxPieces \in Nat /\ MaxFaults \in Nat /\ MaxAlter \in Nat

\* A text after some passes of json_escape.
Raw(t) == [text |-> t, passes |-> 0]
json_escape(t) == IF t.text \in Special THEN [t EXCEPT !.passes = @ + 1] ELSE t

\* build_record and sha256_hex; extract_field returns a field as it is stored.
GENESIS_HASH == <<>>
record_hash(t, previous) == Append(previous, json_escape(t))

\* How far a piece got: "mid" inside its fields, "prev" up to previous_hash,
\* "hash" up to the end of the hash, "full" with its newline.
Cuts == {"mid", "prev", "hash"}
HasHash(piece) == piece.upto \in {"hash", "full"}

VARIABLES
  file,     \* the pieces: [stored, prev, hash, upto]
  durable,  \* how many of them fsync has made durable
  lock,     \* the holder of LOCK_EX
  at,       \* where each append is
  text, previous_hash,  \* its argument and what get_last_hash gave it
  faults, altered,
  cut,      \* history: some piece was cut short
  acked     \* history: the hashes of appends that returned 0

vars == <<file, durable, lock, at, text, previous_hash, faults, altered, cut, acked>>

Init ==
  /\ file = <<>> /\ durable = 0
  /\ lock = None
  /\ at = [a \in Appenders |-> "idle"]
  /\ text = [a \in Appenders |-> None]
  /\ previous_hash = [a \in Appenders |-> GENESIS_HASH]
  /\ faults = 0 /\ altered = 0
  /\ cut = FALSE /\ acked = {}
-----------------------------------------------------------------------------
\* The lines of the file: a piece starts a line unless the one before it has
\* no newline.
StartsLine(f, i) == i = 1 \/ f[i - 1].upto = "full"
Starts(f) == {i \in 1..Len(f) : StartsLine(f, i)}
LineOf(f, i) == {j \in i..Len(f) : \A k \in (i + 1)..j : ~StartsLine(f, k)}

\* strstr: the first hash of a line, if it has one.
Hashed(f, i) == {j \in LineOf(f, i) : HasHash(f[j])}
LineHash(f, i) == f[Min(Hashed(f, i))].hash

\* get_last_hash: the hash of the last line that has one.
get_last_hash(f) ==
  LET good == {i \in Starts(f) : Hashed(f, i) # {}}
  IN  IF good = {} THEN GENESIS_HASH ELSE LineHash(f, Max(good))

\* Fault: previous_hash is not compared.
LineVerifiesAlone(f, i) ==
  /\ f[Max(LineOf(f, i))].upto = "full"
  /\ f[i].upto # "mid"
  /\ LineHash(f, i) = record_hash(f[i].stored, f[i].prev)

\* chrono_ledger_verify on one line: it ends in a newline, its fields (those
\* of its first piece) are readable, previous_hash is the hash of the line
\* before it and the hash recomputed from the extracted fields is the stored
\* one.  Any line that is not makes the result "broken".
LineVerifies(f, i) ==
  LET before == {j \in Starts(f) : j < i}
  IN  /\ f[Max(LineOf(f, i))].upto = "full"
      /\ f[i].upto # "mid"
      /\ f[i].prev = IF before = {} THEN GENESIS_HASH ELSE LineHash(f, Max(before))
      /\ LineHash(f, i) = record_hash(f[i].stored, f[i].prev)

chrono_ledger_verify(f) == \A i \in Starts(f) : LineVerifies(f, i)
-----------------------------------------------------------------------------
\* Fault: flock with LOCK_SH.
LockShared(a, t) ==
  /\ at[a] = "idle"
  /\ Len(file) < MaxPieces
  /\ lock' = a
  /\ text' = [text EXCEPT ![a] = t]
  /\ at' = [at EXCEPT ![a] = "locked"]
  /\ UNCHANGED <<file, durable, previous_hash, faults, altered, cut, acked>>

\* chrono_ledger_append: flock(LOCK_EX) blocks until the lock is free.
Lock(a, t) ==
  /\ at[a] = "idle" /\ lock = None
  /\ Len(file) < MaxPieces
  /\ lock' = a
  /\ text' = [text EXCEPT ![a] = t]
  /\ at' = [at EXCEPT ![a] = "locked"]
  /\ UNCHANGED <<file, durable, previous_hash, faults, altered, cut, acked>>

ReadLast(a) ==
  /\ at[a] = "locked"
  /\ previous_hash' = [previous_hash EXCEPT ![a] = get_last_hash(file)]
  /\ at' = [at EXCEPT ![a] = "read"]
  /\ UNCHANGED <<file, durable, lock, text, faults, altered, cut, acked>>

Piece(a, upto) ==
  [stored |-> json_escape(Raw(text[a])), prev |-> previous_hash[a],
   hash |-> record_hash(Raw(text[a]), previous_hash[a]), upto |-> upto]

\* fprintf and fflush.
Write(a) ==
  /\ at[a] = "read"
  /\ file' = Append(file, Piece(a, "full"))
  /\ at' = [at EXCEPT ![a] = "written"]
  /\ UNCHANGED <<durable, lock, text, previous_hash, faults, altered, cut, acked>>

Unlock(a) ==
  /\ lock' = IF lock = a THEN None ELSE lock
  /\ at' = [at EXCEPT ![a] = "idle"]

\* A write that fails half way (12): the part that was written stays.
WriteFails(a, upto) ==
  /\ at[a] = "read" /\ faults < MaxFaults
  /\ file' = Append(file, Piece(a, upto))
  /\ cut' = TRUE
  /\ faults' = faults + 1
  /\ Unlock(a)
  /\ UNCHANGED <<durable, text, previous_hash, altered, acked>>

\* Fault: no fsync.
SyncSkipped(a) ==
  /\ at[a] = "written"
  /\ acked' = acked \cup {record_hash(Raw(text[a]), previous_hash[a])}
  /\ Unlock(a)
  /\ UNCHANGED <<file, durable, text, previous_hash, faults, altered, cut>>

\* fsync, unlock, return 0.
Sync(a) ==
  /\ at[a] = "written"
  /\ durable' = Len(file)
  /\ acked' = acked \cup {record_hash(Raw(text[a]), previous_hash[a])}
  /\ Unlock(a)
  /\ UNCHANGED <<file, text, previous_hash, faults, altered, cut>>

\* fsync fails (13): the record stays in the file.
SyncFails(a) ==
  /\ at[a] = "written" /\ faults < MaxFaults
  /\ faults' = faults + 1
  /\ Unlock(a)
  /\ UNCHANGED <<file, durable, text, previous_hash, altered, cut, acked>>

\* The program is killed; the kernel drops its lock.
Killed(a) ==
  /\ at[a] # "idle" /\ faults < MaxFaults
  /\ faults' = faults + 1
  /\ Unlock(a)
  /\ UNCHANGED <<file, durable, text, previous_hash, altered, cut, acked>>

\* Power fails: of what was not synced a prefix survives, perhaps cut.
PowerLoss(n) ==
  /\ faults < MaxFaults /\ n \in durable..Len(file)
  /\ faults' = faults + 1
  /\ \/ file' = SubSeq(file, 1, n) /\ cut' = cut
     \/ /\ n > durable
        /\ \E upto \in Cuts :
             /\ file[n].upto = "full"
             /\ file' = [SubSeq(file, 1, n) EXCEPT ![n].upto = upto]
        /\ cut' = TRUE
  /\ durable' = n
  /\ lock' = None
  /\ at' = [a \in Appenders |-> "idle"]
  /\ UNCHANGED <<text, previous_hash, altered, acked>>

\* Somebody edits the file: a record's text, or a record that is not the last.
AlterText(i, t) ==
  /\ altered < MaxAlter /\ lock = None /\ i <= durable
  /\ file[i].stored # t
  /\ file' = [file EXCEPT ![i].stored = t]
  /\ altered' = altered + 1
  /\ UNCHANGED <<durable, lock, at, text, previous_hash, faults, cut, acked>>

RemoveRecord(i) ==
  /\ altered < MaxAlter /\ lock = None /\ i < durable
  /\ file' = RemoveAt(file, i)
  /\ durable' = durable - 1
  /\ altered' = altered + 1
  /\ UNCHANGED <<lock, at, text, previous_hash, faults, cut, acked>>
-----------------------------------------------------------------------------
Next ==
  \/ \E a \in Appenders :
       \/ \E t \in Plain \cup Special : Lock(a, t)
       \/ ReadLast(a) \/ Write(a) \/ Sync(a) \/ SyncFails(a) \/ Killed(a)
       \/ \E upto \in Cuts : WriteFails(a, upto)
  \/ \E n \in 0..MaxPieces : PowerLoss(n)
  \/ \E i \in 1..Len(file) : RemoveRecord(i) \/ \E t \in Plain : AlterText(i, Raw(t))

Spec == Init /\ [][Next]_vars
-----------------------------------------------------------------------------
TypeOK ==
  /\ durable \in 0..Len(file) /\ Len(file) <= MaxPieces
  /\ \A i \in 1..Len(file) :
       /\ file[i].stored.text \in Plain \cup Special /\ file[i].upto \in Cuts \cup {"full"}
       /\ Len(file[i].hash) = Len(file[i].prev) + 1
  /\ \A a \in Appenders :
       /\ at[a] \in {"idle", "locked", "read", "written"}
       /\ (at[a] # "idle") = (lock = a)
  /\ faults \in 0..MaxFaults /\ altered \in 0..MaxAlter

Sound == altered = 0 /\ ~cut

\* A ledger that only chrono-ledger wrote, by whatever programs at a time and
\* with whichever of them killed, verifies as long as no text needs escaping.
NoFalseAlarm ==
  Sound /\ (\A i \in 1..Len(file) : file[i].stored.text \in Plain) =>
    chrono_ledger_verify(file)

\* "historial verificado sin alteraciones": the same for every text append
\* accepts.
HonestLedgerVerifies == Sound => chrono_ledger_verify(file)

\* A changed or removed record is reported by every later verify, whatever is
\* appended after it.
AlterationDetected ==
  altered > 0 /\ ~cut => ~chrono_ledger_verify(file)

\* An append that returned 0 is in the file after any kill or power loss.
AckedSurvives ==
  altered = 0 =>
    \A h \in acked : \E i \in 1..durable : file[i].hash = h /\ file[i].upto = "full"
=============================================================================
