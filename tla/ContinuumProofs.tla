--------------------------- MODULE ContinuumProofs ---------------------------
(***************************************************************************)
(* A log that one command at a time has written verifies, for any number   *)
(* of programs, events, cut-short commands and edits that were put back.   *)
(*                                                                         *)
(* HonestLogVerifies speaks of the files between steps; what carries it is *)
(* what a running command knows: the head it read is the hash of the last  *)
(* line, the number it counted is the next one, and while the head file is *)
(* being rewritten its own line is the last.                               *)
(*                                                                         *)
(* From the same facts: an edit is reported with its kind, and its event   *)
(* where verify prints it, what was announced is in the log or was erased  *)
(* by an overlapping init, an identity is for good, and the types.         *)
(***************************************************************************)
EXTENDS Continuum, SequenceTheorems, TLAPS

Record(at, arg, previous, seq) ==
  [at |-> at, arg |-> arg, previous_hash |-> previous, sequence |-> seq]
IsProg(p) == p = Record(p.at, p.arg, p.previous_hash, p.sequence)
IsLine(l) ==
  l = [fields |-> l.fields, sequence |-> l.sequence, datum |-> l.datum,
       previous |-> l.previous, hash |-> l.hash]

Eventing == {"inited", "count", "append", "head_open", "head_fill"}
Heading == {"head_open", "head_fill"}

Shape ==
  /\ \E S : events \in Seq(S)
  /\ \E P : prog \in [Callers -> P]
  /\ \A c \in Callers :
       /\ IsProg(prog[c])
       /\ prog[c].arg = None \/ prog[c].arg \notin Invalid
       /\ prog[c].at \in Eventing => prog[c].arg \notin Invalid
  /\ \A n \in 1..Len(events) : IsLine(events[n])
  /\ edit.kind \in {"datum", "field"} => edit.at \in 1..Len(events) /\ IsLine(edit.line)

Alone ==
  ~overlap => \A c, d \in Callers : At(c) # "idle" /\ At(d) # "idle" => c = d

Intact(l) == l.fields = FIELDS /\ l.hash = sha256_hex(l.sequence, l.datum, l.previous)

Undoable ==
  /\ edit.kind \in {"datum", "field"} /\ edit.at \in 1..Len(events)
  /\ IsLine(edit.line) /\ Intact(edit.line)
  /\ edit.line.sequence = events[edit.at].sequence
  /\ edit.line.previous = events[edit.at].previous
  /\ edit.line.hash = events[edit.at].hash

ChainInv ==
  /\ \A n \in 1..Len(events) :
       events[n].sequence = n /\ events[n].previous = Predecessor(events, n)
  /\ \A n \in 1..Len(events) : n # edit.at => Intact(events[n])
  /\ edit = NoEdit \/ Undoable

LastHash == IF Len(events) = 0 THEN GENESIS ELSE events[Len(events)].hash

HeadAgrees ==
  IF state.state = "ACTIVE"
  THEN Len(events) > 0 /\ state.sequence = Len(events) /\ state.head = LastHash
  ELSE Len(events) = 0

Phase(c) ==
  /\ At(c) \in {"st_open", "st_fill"} => Len(events) = 0 /\ state.state # "ACTIVE"
  /\ At(c) \in {"count", "append"} => prog[c].previous_hash = LastHash
  /\ At(c) = "append" => prog[c].sequence = Len(events) + 1
  /\ At(c) \in Heading =>
       Len(events) > 0 /\ Hash(c) = LastHash /\ prog[c].sequence = Len(events)

HeadInv ==
  /\ (\E c \in Callers : At(c) \in Heading) \/ HeadAgrees
  /\ \A c \in Callers : Phase(c)

Good == Orderly /\ edit.kind # "line"

HonestInv == Shape /\ Alone /\ (Good => ChainInv /\ HeadInv)

\* A program about to create the log found none, and unless it overlaps with
\* another there still is none for its fopen "w" to empty.
LogInv ==
  /\ log_exists \in BOOLEAN
  /\ Len(events) # 0 \/ edit.kind # "none" => log_exists
  /\ \A c \in Callers : At(c) = "ev_open" => edit.kind = "none" /\ (overlap \/ ~log_exists)
  /\ erased # {} => overlap

BookInv == HonestInv /\ LogInv
-----------------------------------------------------------------------------
\* What the sequence operators do, whatever the elements are.
LEMMA AppendIs ==
  ASSUME NEW S, NEW s \in Seq(S), NEW e
  PROVE  /\ \E T : Append(s, e) \in Seq(T)
         /\ Len(s) \in Nat /\ Len(Append(s, e)) = Len(s) + 1
         /\ \A i \in 1..Len(s) : Append(s, e)[i] = s[i]
         /\ Append(s, e)[Len(s) + 1] = e
<1> DEFINE T == S \cup {e}
<1>1. s \in Seq(T) /\ e \in T
  BY SeqMonotonic
<1> HIDE DEF T
<1> QED BY <1>1, AppendProperties, LenProperties

LEMMA ExceptIs ==
  ASSUME NEW S, NEW s \in Seq(S), NEW i \in 1..Len(s), NEW e
  PROVE  /\ \E T : [s EXCEPT ![i] = e] \in Seq(T)
         /\ Len([s EXCEPT ![i] = e]) = Len(s)
         /\ \A j \in 1..Len(s) : [s EXCEPT ![i] = e][j] = IF j = i THEN e ELSE s[j]
<1> DEFINE T == S \cup {e}
<1>1. s \in Seq(T) /\ e \in T
  BY SeqMonotonic
<1> HIDE DEF T
<1> QED BY <1>1, ExceptSeq

LEMMA RemoveIs ==
  ASSUME NEW S, NEW s \in Seq(S), NEW i \in 1..Len(s)
  PROVE  /\ RemoveAt(s, i) \in Seq(S) /\ Len(RemoveAt(s, i)) = Len(s) - 1
         /\ \A j \in 1..(Len(s) - 1) : RemoveAt(s, i)[j] = IF j < i THEN s[j] ELSE s[j + 1]
<1> DEFINE a == SubSeq(s, 1, i - 1)
           b == SubSeq(s, i + 1, Len(s))
<1>1. Len(s) \in Nat /\ \A k \in 1..Len(s) : s[k] \in S
  BY LenProperties, ElementOfSeq
<1>2. a \in Seq(S) /\ Len(a) = i - 1 /\ \A k \in 1..(i - 1) : a[k] = s[k]
  BY <1>1, SubSeqProperties
<1>3. b \in Seq(S) /\ Len(b) = Len(s) - i /\ \A k \in 1..(Len(s) - i) : b[k] = s[i + k]
  BY <1>1, SubSeqProperties
<1>4. RemoveAt(s, i) = a \o b
  BY DEF RemoveAt
<1> HIDE DEF a, b
<1>a. a \o b \in Seq(S) /\ Len(a \o b) = Len(a) + Len(b)
      /\ \A k \in 1..(Len(a) + Len(b)) :
           (a \o b)[k] = IF k <= Len(a) THEN a[k] ELSE b[k - Len(a)]
  BY <1>2, <1>3, ConcatProperties
<1>b. Len(a) + Len(b) = Len(s) - 1
  BY <1>1, <1>2, <1>3
<1>5. a \o b \in Seq(S) /\ Len(a \o b) = Len(s) - 1
      /\ \A k \in 1..(Len(s) - 1) : (a \o b)[k] = IF k <= i - 1 THEN a[k] ELSE b[k - (i - 1)]
  BY <1>2, <1>a, <1>b
<1>6. ASSUME NEW j \in 1..(Len(s) - 1)
      PROVE  (a \o b)[j] = IF j < i THEN s[j] ELSE s[j + 1]
  <2>1. CASE j < i
    BY <1>1, <1>2, <1>5, <2>1
  <2>2. CASE ~(j < i)
    <3>0. j - (i - 1) \in 1..(Len(s) - i) /\ i + (j - (i - 1)) = j + 1 /\ ~(j <= i - 1)
      BY <1>1, <2>2
    <3>a. (a \o b)[j] = b[j - (i - 1)]
      BY <1>1, <1>5, <3>0
    <3>b. b[j - (i - 1)] = s[i + (j - (i - 1))]
      BY <1>3, <3>0
    <3> QED BY <2>2, <3>0, <3>a, <3>b
  <2> QED BY <2>1, <2>2
<1> QED BY <1>4, <1>5, <1>6

\* What a command's step does to the table of programs.
LEMMA GotoIs ==
  ASSUME Shape, NEW c \in Callers, NEW label, Goto(c, label)
  PROVE  /\ prog'[c] = Record(label, prog[c].arg, prog[c].previous_hash, prog[c].sequence)
         /\ \A d \in Callers : d # c => prog'[d] = prog[d]
         /\ \E P : prog' \in [Callers -> P]
<1>1. PICK P : prog \in [Callers -> P]
  BY DEF Shape
<1>2. prog' = [prog EXCEPT ![c] = [prog[c] EXCEPT !.at = label]]
  BY DEF Goto
<1>3. prog[c] = Record(prog[c].at, prog[c].arg, prog[c].previous_hash, prog[c].sequence)
  BY DEF Shape, IsProg
<1>4. [prog[c] EXCEPT !.at = label]
        = Record(label, prog[c].arg, prog[c].previous_hash, prog[c].sequence)
  BY <1>3 DEF Record
<1>5. prog' \in [Callers -> P \cup {[prog[c] EXCEPT !.at = label]}]
  BY <1>1, <1>2
<1> QED BY <1>1, <1>2, <1>4, <1>5

LEMMA ExitIs ==
  ASSUME Shape, NEW c \in Callers, Exit(c)
  PROVE  /\ prog'[c] = NoProgram
         /\ \A d \in Callers : d # c => prog'[d] = prog[d]
         /\ \E P : prog' \in [Callers -> P]
<1>1. PICK P : prog \in [Callers -> P]
  BY DEF Shape
<1>2. prog' \in [Callers -> P \cup {NoProgram}]
  BY <1>1 DEF Exit
<1> QED BY <1>1, <1>2 DEF Exit

WithHead(p, x, label) == [p EXCEPT !.previous_hash = x, !.at = label]
WithNumber(p, x, label) == [p EXCEPT !.sequence = x, !.at = label]
WithArg(p, x, label) == [p EXCEPT !.arg = x, !.at = label]
Records(A, B, C, D) == [at : A, arg : B, previous_hash : C, sequence : D]

LEMMA RecordExcept ==
  ASSUME NEW p, IsProg(p), NEW x, NEW label
  PROVE  /\ WithHead(p, x, label)
              = Record(label, p.arg, x, p.sequence)
         /\ WithNumber(p, x, label)
              = Record(label, p.arg, p.previous_hash, x)
         /\ WithArg(p, x, label)
              = Record(label, x, p.previous_hash, p.sequence)
<1>p. p = Record(p.at, p.arg, p.previous_hash, p.sequence)
  BY DEF IsProg
<1>r. \A a, b, c, d : \A r \in Records({a}, {b}, {c}, {d}) : r = Record(a, b, c, d)
  BY DEF Record, Records
<1>1. WithHead(p, x, label) = Record(label, p.arg, x, p.sequence)
  <2>1. p \in Records({p.at, label}, {p.arg}, {p.previous_hash, x}, {p.sequence})
    BY <1>p DEF Record, Records
  <2>2. WithHead(p, x, label)
          \in Records({label}, {p.arg}, {x}, {p.sequence})
    BY <2>1 DEF Records, WithHead, WithNumber, WithArg
  <2> QED BY <2>2, <1>r
<1>2. WithNumber(p, x, label) = Record(label, p.arg, p.previous_hash, x)
  <2>1. p \in Records({p.at, label}, {p.arg}, {p.previous_hash}, {p.sequence, x})
    BY <1>p DEF Record, Records
  <2>2. WithNumber(p, x, label)
          \in Records({label}, {p.arg}, {p.previous_hash}, {x})
    BY <2>1 DEF Records, WithHead, WithNumber, WithArg
  <2> QED BY <2>2, <1>r
<1>3. WithArg(p, x, label) = Record(label, x, p.previous_hash, p.sequence)
  <2>1. p \in Records({p.at, label}, {p.arg, x}, {p.previous_hash}, {p.sequence})
    BY <1>p DEF Record, Records
  <2>2. WithArg(p, x, label)
          \in Records({label}, {x}, {p.previous_hash}, {p.sequence})
    BY <2>1 DEF Records, WithHead, WithNumber, WithArg
  <2> QED BY <2>2, <1>r
<1> QED BY <1>1, <1>2, <1>3

LEMMA RecordFields ==
  ASSUME NEW a, NEW b, NEW c, NEW d
  PROVE  /\ Record(a, b, c, d).at = a /\ Record(a, b, c, d).arg = b
         /\ Record(a, b, c, d).previous_hash = c /\ Record(a, b, c, d).sequence = d
         /\ IsProg(Record(a, b, c, d))
BY DEF Record, IsProg
-----------------------------------------------------------------------------
LEMMA HonestInit == Init => HonestInv
<1> SUFFICES ASSUME Init PROVE HonestInv
  OBVIOUS
<1>1. Len(events) = 0 /\ events \in Seq({})
  BY EmptySeq DEF Init
<1>2. \A c \in Callers : prog[c] = NoProgram
  BY DEF Init
<1>3. prog \in [Callers -> {NoProgram}]
  BY DEF Init
<1>4. NoProgram.at = "idle" /\ NoProgram.arg = None /\ IsProg(NoProgram)
  BY DEF NoProgram, IsProg, Record
<1>a. \E S : events \in Seq(S)
  BY <1>1
<1>b. \E P : prog \in [Callers -> P]
  BY <1>3
<1>c. \A c \in Callers : IsProg(prog[c]) /\ prog[c].arg = None /\ prog[c].at \notin Eventing
  BY <1>2, <1>4 DEF Eventing
<1>d. \A n \in 1..Len(events) : IsLine(events[n])
  BY <1>1
<1>e. edit.kind = "none"
  BY DEF Init, NoEdit
<1>5. Shape
  BY <1>a, <1>b, <1>c, <1>d, <1>e DEF Shape
<1>6. Alone
  BY <1>2, <1>4 DEF Alone, At
<1>7. ChainInv
  BY <1>1 DEF ChainInv, Init
<1>8. state.state = "absent"
  BY DEF Init
<1>9. HeadInv
  BY <1>1, <1>2, <1>4, <1>8 DEF HeadInv, HeadAgrees, Phase, At, Heading
<1> QED BY <1>5, <1>6, <1>7, <1>9 DEF HonestInv

\* A step that leaves the log and its edit alone leaves the chain as it was.
LEMMA ChainStays ==
  ASSUME UNCHANGED <<events, edit>>
  PROVE  (ChainInv <=> ChainInv') /\ LastHash' = LastHash /\ (Good' /\ Orderly => Good)
BY DEF ChainInv, Undoable, Predecessor, LastHash, Good

\* The shape of the table of programs after a step of one of them.
LEMMA ShapeStays ==
  ASSUME Shape, NEW c \in Callers, UNCHANGED <<events, edit>>,
         \E P : prog' \in [Callers -> P],
         \A d \in Callers : d # c => prog'[d] = prog[d],
         IsProg(prog'[c]),
         prog'[c].arg = None \/ prog'[c].arg \notin Invalid,
         prog'[c].at \in Eventing => prog'[c].arg \notin Invalid
  PROVE  Shape'
<1>1. \E S : events' \in Seq(S)
  BY DEF Shape
<1>2. \A n \in 1..Len(events') : IsLine(events'[n])
  BY DEF Shape
<1>3. ASSUME NEW d \in Callers
      PROVE  /\ IsProg(prog'[d])
             /\ prog'[d].arg = None \/ prog'[d].arg \notin Invalid
             /\ prog'[d].at \in Eventing => prog'[d].arg \notin Invalid
  BY DEF Shape
<1>4. edit'.kind \in {"datum", "field"} =>
        edit'.at \in 1..Len(events') /\ IsLine(edit'.line)
  BY DEF Shape
<1> QED BY <1>1, <1>2, <1>3, <1>4 DEF Shape

\* While one command runs nobody else does, and it stays that way.
LEMMA AloneStays ==
  ASSUME Alone, NEW c \in Callers, At(c) # "idle", UNCHANGED overlap,
         \A d \in Callers : d # c => prog'[d] = prog[d]
  PROVE  Alone' /\ (~overlap => \A d \in Callers : d # c => At(d) = "idle" /\ At(d)' = "idle")
BY DEF Alone, At

\* It is enough to look at the command that takes the step.
LEMMA HeadStays ==
  ASSUME NEW c \in Callers,
         \A d \in Callers : d # c => At(d)' = "idle",
         Phase(c)',
         At(c)' \in Heading \/ HeadAgrees'
  PROVE  HeadInv'
<1>1. ASSUME NEW d \in Callers PROVE Phase(d)'
  <2>1. CASE d = c
    BY <2>1
  <2>2. CASE d # c
    BY <2>2 DEF Phase, Heading
  <2> QED BY <2>1, <2>2
<1> QED BY <1>1 DEF HeadInv

\* A step of one command that does not write to the log.
LEMMA FileStep ==
  ASSUME HonestInv, NEW c \in Callers, At(c) # "idle",
         UNCHANGED <<events, edit, overlap>>, Orderly' => Orderly,
         \E P : prog' \in [Callers -> P],
         \A d \in Callers : d # c => prog'[d] = prog[d],
         IsProg(prog'[c]),
         prog'[c].arg = None \/ prog'[c].arg \notin Invalid,
         prog'[c].at \in Eventing => prog'[c].arg \notin Invalid,
         Good /\ Good' /\ HeadInv /\ (\A d \in Callers : d # c => At(d) = "idle")
           => Phase(c)' /\ (At(c)' \in Heading \/ HeadAgrees')
  PROVE  HonestInv'
<1>1. Shape'
  BY ShapeStays DEF HonestInv
<1>2. Alone' /\ (~overlap => \A d \in Callers : d # c => At(d) = "idle" /\ At(d)' = "idle")
  BY AloneStays DEF HonestInv
<1>3. ASSUME Good' PROVE ChainInv' /\ HeadInv'
  <2>1. Good /\ ~overlap
    BY <1>3 DEF Good, Orderly
  <2>2. ChainInv' /\ HeadInv
    BY <2>1, ChainStays DEF HonestInv
  <2>3. \A d \in Callers : d # c => At(d) = "idle" /\ At(d)' = "idle"
    BY <1>2, <2>1
  <2>4. Phase(c)' /\ (At(c)' \in Heading \/ HeadAgrees')
    BY <1>3, <2>1, <2>2, <2>3
  <2>5. HeadInv'
    BY <2>3, <2>4, HeadStays
  <2> QED BY <2>2, <2>5
<1> QED BY <1>1, <1>2, <1>3 DEF HonestInv

\* continuum_init returns: the head file exists and agrees with the log.
LEMMA ReturnHonest ==
  ASSUME HonestInv, NEW c \in Callers, InitReturns(c), At(c) \in {"ev_check", "ev_open"},
         UNCHANGED <<events, edit, overlap, torn, lost>>,
         Good /\ HeadInv /\ (\A d \in Callers : d # c => At(d) = "idle") => HeadAgrees'
  PROVE  HonestInv'
<1>s. Shape /\ IsProg(prog[c]) /\ (prog[c].arg = None \/ prog[c].arg \notin Invalid)
  BY DEF HonestInv, Shape
<1>o. (Orderly' => Orderly) /\ At(c) # "idle"
  BY DEF Orderly
<1>1. CASE prog[c].arg = None
  <2>1. Exit(c)
    BY <1>1 DEF InitReturns
  <2>2. prog'[c].at = "idle" /\ prog'[c].arg = None /\ IsProg(prog'[c])
    BY <1>s, <2>1, ExitIs DEF NoProgram, IsProg, Record
  <2>3. Phase(c)' /\ prog'[c].at \notin Eventing
    BY <2>2 DEF Phase, At, Heading, Eventing
  <2> QED BY <1>s, <1>o, <2>1, <2>2, <2>3, ExitIs, FileStep
<1>2. CASE prog[c].arg # None
  <2>1. Goto(c, "inited")
    BY <1>2 DEF InitReturns
  <2>2. prog'[c].at = "inited" /\ prog'[c].arg = prog[c].arg /\ IsProg(prog'[c])
    BY <1>s, <2>1, GotoIs, RecordFields
  <2>3. Phase(c)'
    BY <2>2 DEF Phase, At, Heading
  <2> QED BY <1>s, <1>o, <1>2, <2>1, <2>2, <2>3, GotoIs, FileStep
<1> QED BY <1>1, <1>2

\* The steps of continuum_init.
LEMMA InitStepHonest ==
  ASSUME HonestInv, NEW c \in Callers, InitStep(c)
  PROVE  HonestInv'
<1>s. Shape /\ IsProg(prog[c]) /\ (prog[c].arg = None \/ prog[c].arg \notin Invalid)
  BY DEF HonestInv, Shape
<1>u. UNCHANGED <<events, edit, overlap, torn, lost>>
  BY DEF InitStep, CheckIdentity, OpenIdentity, FillIdentity, CheckState, OpenState,
         FillState, CheckLog, files, history
<1>o. Orderly' => Orderly
  BY <1>u DEF Orderly
<1>h. ASSUME Good, HeadInv, At(c) # "idle", At(c) \notin Heading,
             \A d \in Callers : d # c => At(d) = "idle"
      PROVE  HeadAgrees
  BY <1>h DEF HeadInv, Heading
<1>1. ASSUME NEW label \in {"st_check", "id_open", "id_fill"}, Goto(c, label),
             At(c) \in {"id_check", "id_open", "id_fill"}, UNCHANGED state
      PROVE  HonestInv'
  <2>1. prog'[c].at = label /\ prog'[c].arg = prog[c].arg /\ IsProg(prog'[c])
    BY <1>1, <1>s, GotoIs, RecordFields
  <2>2. Phase(c)'
    BY <1>1, <2>1 DEF Phase, At, Heading
  <2>3. HeadAgrees => HeadAgrees'
    BY <1>1, <1>u, ChainStays DEF HeadAgrees
  <2>4. At(c) # "idle" /\ At(c) \notin Heading
    BY <1>1 DEF Heading
  <2>5. prog'[c].at \notin Eventing
    BY <1>1, <2>1 DEF Eventing
  <2> QED BY <1>1, <1>s, <1>u, <1>o, <1>h, <2>1, <2>2, <2>3, <2>4, <2>5, GotoIs, FileStep
<1>2. CASE CheckIdentity(c) \/ OpenIdentity(c) \/ FillIdentity(c)
  BY <1>1, <1>2 DEF CheckIdentity, OpenIdentity, FillIdentity, files
<1>4. CASE CheckState(c) \/ CheckLog(c)
  <2>1. At(c) \in {"st_check", "ev_check"} /\ UNCHANGED state
    BY <1>4 DEF CheckState, CheckLog, files
  <2>2. HeadAgrees => HeadAgrees'
    BY <1>u, <2>1, ChainStays DEF HeadAgrees
  <2>3. At(c) # "idle" /\ At(c) \notin Heading
    BY <2>1 DEF Heading
  <2>4. ASSUME NEW label \in {"st_open", "ev_check", "ev_open"}, Goto(c, label),
               label = "st_open" => state.state = "absent"
        PROVE  HonestInv'
    <3>2. prog'[c].at = label /\ prog'[c].arg = prog[c].arg /\ IsProg(prog'[c])
      BY <1>s, <2>4, GotoIs, RecordFields
    <3>3. HeadAgrees => Phase(c)'
      BY <1>u, <2>1, <2>4, <3>2 DEF Phase, At, Heading, HeadAgrees
    <3>4. prog'[c].at \notin Eventing
      BY <2>4, <3>2 DEF Eventing
    <3> QED BY <1>s, <1>u, <1>o, <1>h, <2>2, <2>3, <2>4, <3>2, <3>3, <3>4, GotoIs, FileStep
  <2>5. CASE CheckState(c)
    <3>1. CASE state.state = "absent"
      BY <2>4, <2>5, <3>1 DEF CheckState
    <3>2. CASE state.state # "absent"
      BY <2>4, <2>5, <3>2 DEF CheckState
    <3> QED BY <3>1, <3>2
  <2>6. CASE CheckLog(c) /\ ~log_exists
    BY <2>4, <2>6 DEF CheckLog
  <2>7. CASE CheckLog(c) /\ log_exists
    <3>1. InitReturns(c) /\ At(c) \in {"ev_check", "ev_open"}
      BY <2>7 DEF CheckLog
    <3> QED BY <1>h, <1>u, <2>2, <2>3, <3>1, ReturnHonest
  <2> QED BY <1>4, <2>5, <2>6, <2>7
<1>5. CASE OpenState(c)
  <2>1. At(c) = "st_open" /\ Goto(c, "st_fill") /\ state' = EmptyState
    BY <1>5 DEF OpenState
  <2>2. prog'[c].at = "st_fill" /\ prog'[c].arg = prog[c].arg /\ IsProg(prog'[c])
    BY <1>s, <2>1, GotoIs, RecordFields
  <2>3. state'.state # "ACTIVE"
    BY <2>1 DEF EmptyState
  <2>4. HeadInv => Len(events) = 0
    BY <2>1 DEF HeadInv, Phase
  <2>5. HeadInv => Phase(c)' /\ HeadAgrees'
    BY <1>u, <2>2, <2>3, <2>4 DEF Phase, At, Heading, HeadAgrees
  <2>6. prog'[c].at \notin Eventing /\ At(c) # "idle"
    BY <2>1, <2>2 DEF Eventing
  <2> QED BY <1>s, <1>u, <1>o, <2>1, <2>2, <2>5, <2>6, GotoIs, FileStep
<1>6. CASE FillState(c)
  <2>1. At(c) = "st_fill" /\ Goto(c, "ev_check") /\ state'.state # "ACTIVE"
    BY <1>6 DEF FillState
  <2>2. prog'[c].at = "ev_check" /\ prog'[c].arg = prog[c].arg /\ IsProg(prog'[c])
    BY <1>s, <2>1, GotoIs, RecordFields
  <2>3. HeadInv => Len(events) = 0
    BY <2>1 DEF HeadInv, Phase
  <2>4. HeadInv => Phase(c)' /\ HeadAgrees'
    BY <1>u, <2>1, <2>2, <2>3 DEF Phase, At, Heading, HeadAgrees
  <2>5. prog'[c].at \notin Eventing /\ At(c) # "idle"
    BY <2>1, <2>2 DEF Eventing
  <2> QED BY <1>s, <1>u, <1>o, <2>1, <2>2, <2>4, <2>5, GotoIs, FileStep
<1> QED BY <1>2, <1>4, <1>5, <1>6 DEF InitStep

\* Creating the log: when no other program runs there is nothing to empty.
LEMMA OpenLogHonest ==
  ASSUME HonestInv, LogInv, NEW c \in Callers, OpenLog(c)
  PROVE  HonestInv'
<1>s. Shape /\ IsProg(prog[c]) /\ (prog[c].arg = None \/ prog[c].arg \notin Invalid)
  BY DEF HonestInv, Shape
<1>u. /\ UNCHANGED <<edit, state, overlap, torn, lost>> /\ events' = <<>>
      /\ At(c) = "ev_open" /\ InitReturns(c)
  BY DEF OpenLog
<1>e. PICK S : events \in Seq(S)
  BY <1>s DEF Shape
<1>1. CASE Len(events) = 0
  <2>1. UNCHANGED events
    BY <1>e, <1>u, <1>1, EmptySeq
  <2>2. ASSUME HeadInv, \A d \in Callers : d # c => At(d) = "idle" PROVE HeadAgrees'
    <3>1. HeadAgrees
      BY <1>u, <2>2 DEF HeadInv, Heading
    <3> QED BY <1>u, <2>1, <3>1, ChainStays DEF HeadAgrees
  <2> QED BY <1>u, <2>1, <2>2, ReturnHonest
<1>2. CASE Len(events) # 0
  <2>1. overlap /\ ~Good' /\ edit'.kind = "none"
    BY <1>u, <1>2 DEF LogInv, Good, Orderly
  <2>2. /\ \E P : prog' \in [Callers -> P]
        /\ \A d \in Callers : d # c => prog'[d] = prog[d]
        /\ IsProg(prog'[c]) /\ (prog'[c].arg = None \/ prog'[c].arg \notin Invalid)
        /\ prog'[c].at \in Eventing => prog'[c].arg \notin Invalid
    <3>1. CASE Exit(c)
      <4>1. NoProgram.at \notin Eventing /\ NoProgram.arg = None /\ IsProg(NoProgram)
        BY DEF NoProgram, Eventing, IsProg, Record
      <4> QED BY <1>s, <3>1, <4>1, ExitIs
    <3>2. CASE Goto(c, "inited") /\ prog[c].arg # None
      <4>1. prog'[c].arg = prog[c].arg /\ IsProg(prog'[c])
        BY <1>s, <3>2, GotoIs, RecordFields
      <4> QED BY <1>s, <3>2, <4>1, GotoIs
    <3> QED BY <1>u, <3>1, <3>2 DEF InitReturns
  <2>3. events' \in Seq({}) /\ Len(events') = 0
    BY <1>u, EmptySeq
  <2>4. \A d \in Callers :
          /\ IsProg(prog'[d])
          /\ prog'[d].arg = None \/ prog'[d].arg \notin Invalid
          /\ prog'[d].at \in Eventing => prog'[d].arg \notin Invalid
    BY <1>s, <2>2 DEF Shape
  <2>5. \E T : events' \in Seq(T)
    BY <2>3
  <2>6. \A n \in 1..Len(events') : IsLine(events'[n])
    BY <2>3
  <2>7. Shape'
    BY <2>1, <2>2, <2>4, <2>5, <2>6 DEF Shape
  <2> QED BY <1>u, <2>1, <2>7 DEF HonestInv, Alone
<1> QED BY <1>1, <1>2

\* continuum_event before it writes: the head and the count are the log's.
LEMMA ReadHonest ==
  ASSUME HonestInv, NEW c \in Callers, ReadHead(c) \/ CountEvents(c)
  PROVE  HonestInv'
<1>s. /\ Shape /\ IsProg(prog[c])
      /\ prog[c].at \in Eventing => prog[c].arg \notin Invalid
  BY DEF HonestInv, Shape
<1>p. PICK P : prog \in [Callers -> P]
  BY <1>s DEF Shape
<1>r. prog[c] = Record(prog[c].at, prog[c].arg, prog[c].previous_hash, prog[c].sequence)
  BY <1>s DEF IsProg
<1>u. UNCHANGED <<events, edit, state, overlap, torn, lost>>
  BY DEF ReadHead, CountEvents, files, history
<1>o. Orderly' => Orderly
  BY <1>u DEF Orderly
<1>a. At(c) \in {"inited", "count"}
  BY DEF ReadHead, CountEvents
<1>h. ASSUME HeadInv, \A d \in Callers : d # c => At(d) = "idle"
      PROVE  HeadAgrees /\ HeadAgrees'
  <2>1. HeadAgrees
    BY <1>h, <1>a DEF HeadInv, Heading
  <2> QED BY <1>u, <2>1, ChainStays DEF HeadAgrees
<1>n. At(c) # "idle" /\ prog[c].arg \notin Invalid
  BY <1>a, <1>s DEF At, Eventing
<1>1. CASE ReadHead(c)
  <2> DEFINE new == Record("count", prog[c].arg, read_state_hash(state), prog[c].sequence)
  <2>1. prog' = [prog EXCEPT ![c] = [prog[c] EXCEPT !.previous_hash = read_state_hash(state),
                                                    !.at = "count"]]
    BY <1>1, <1>p DEF ReadHead
  <2>2. [prog[c] EXCEPT !.previous_hash = read_state_hash(state), !.at = "count"] = new
    <3>1. WithHead(prog[c], read_state_hash(state), "count") = new
      BY <1>s, RecordExcept
    <3> QED BY <3>1 DEF WithHead
  <2>3. /\ prog' \in [Callers -> P \cup {new}] /\ prog'[c] = new
        /\ \A d \in Callers : d # c => prog'[d] = prog[d]
    BY <1>p, <2>1, <2>2
  <2>4. /\ prog'[c].at = "count" /\ prog'[c].arg = prog[c].arg /\ IsProg(prog'[c])
        /\ prog'[c].previous_hash = read_state_hash(state)
    BY <2>3, RecordFields
  <2>5. HeadAgrees => read_state_hash(state) = LastHash
    BY DEF HeadAgrees, read_state_hash, LastHash
  <2>6. HeadAgrees => Phase(c)'
    BY <1>u, <2>4, <2>5, ChainStays DEF Phase, At, Heading
  <2> QED BY <1>s, <1>u, <1>o, <1>h, <1>n, <2>3, <2>4, <2>6, FileStep
<1>2. CASE CountEvents(c)
  <2> DEFINE new == Record("append", prog[c].arg, prog[c].previous_hash, Len(events) + 1)
  <2>1. prog' = [prog EXCEPT ![c] = [prog[c] EXCEPT !.sequence = Len(events) + 1,
                                                    !.at = "append"]]
    BY <1>2, <1>p DEF CountEvents, count_events
  <2>2. [prog[c] EXCEPT !.sequence = Len(events) + 1, !.at = "append"] = new
    <3>1. WithNumber(prog[c], Len(events) + 1, "append") = new
      BY <1>s, RecordExcept
    <3> QED BY <3>1 DEF WithNumber
  <2>3. /\ prog' \in [Callers -> P \cup {new}] /\ prog'[c] = new
        /\ \A d \in Callers : d # c => prog'[d] = prog[d]
    BY <1>p, <2>1, <2>2
  <2>4. /\ prog'[c].at = "append" /\ prog'[c].arg = prog[c].arg /\ IsProg(prog'[c])
        /\ prog'[c].previous_hash = prog[c].previous_hash
        /\ prog'[c].sequence = Len(events) + 1
    BY <2>3, RecordFields
  <2>5. HeadInv => prog[c].previous_hash = LastHash
    BY <1>2 DEF CountEvents, HeadInv, Phase
  <2>6. HeadInv => Phase(c)'
    BY <1>u, <2>4, <2>5, ChainStays DEF Phase, At, Heading
  <2> QED BY <1>s, <1>u, <1>o, <1>h, <1>n, <2>3, <2>4, <2>6, FileStep
<1> QED BY <1>1, <1>2

\* The line that is appended continues the chain.
LEMMA AppendHonest ==
  ASSUME HonestInv, NEW c \in Callers, AppendEvent(c)
  PROVE  HonestInv'
<1>s. /\ Shape /\ IsProg(prog[c])
      /\ prog[c].at \in Eventing => prog[c].arg \notin Invalid
  BY DEF HonestInv, Shape
<1>u. UNCHANGED <<edit, state, overlap, torn, lost>> /\ At(c) = "append"
  BY DEF AppendEvent, history
<1>n. prog[c].arg \notin Invalid
  BY <1>s, <1>u DEF At, Eventing
<1>g. Goto(c, "head_open")
  BY DEF AppendEvent
<1>p. /\ prog'[c].at = "head_open" /\ prog'[c].arg = prog[c].arg /\ IsProg(prog'[c])
      /\ prog'[c].previous_hash = prog[c].previous_hash
      /\ prog'[c].sequence = prog[c].sequence
  BY <1>s, <1>g, GotoIs, RecordFields
<1>q. (\A d \in Callers : d # c => prog'[d] = prog[d]) /\ \E P : prog' \in [Callers -> P]
  BY <1>s, <1>g, GotoIs
<1>e. PICK S : events \in Seq(S)
  BY <1>s DEF Shape
<1>a. events' = Append(events, Line(c))
  BY DEF AppendEvent
<1>l. /\ \E T : events' \in Seq(T)
      /\ Len(events) \in Nat /\ Len(events') = Len(events) + 1
      /\ \A i \in 1..Len(events) : events'[i] = events[i]
      /\ events'[Len(events) + 1] = Line(c)
  <2> DEFINE e == Line(c)
  <2>1. events' = Append(events, e)
    BY <1>a
  <2> HIDE DEF e
  <2>2. \E T : Append(events, e) \in Seq(T)
    BY <1>e, AppendIs
  <2>3. Len(events) \in Nat /\ Len(Append(events, e)) = Len(events) + 1
    BY <1>e, AppendIs
  <2>4. \A i \in 1..Len(events) : Append(events, e)[i] = events[i]
    BY <1>e, AppendIs
  <2>5. Append(events, e)[Len(events) + 1] = e
    BY <1>e, AppendIs
  <2> QED BY <2>1, <2>2, <2>3, <2>4, <2>5 DEF e
<1>f. /\ IsLine(Line(c)) /\ Line(c).sequence = prog[c].sequence
      /\ Line(c).previous = prog[c].previous_hash /\ Line(c).hash = Hash(c)
      /\ Line(c).fields = FIELDS /\ Line(c).datum = prog[c].arg
  BY <1>n DEF Line, IsLine
<1>1. Shape'
  <2>1. \A n \in 1..Len(events) : IsLine(events[n])
    BY <1>s DEF Shape
  <2>2. \A n \in 1..Len(events') : IsLine(events'[n])
    BY <1>l, <1>f, <2>1
  <2>3. ASSUME NEW d \in Callers
        PROVE  /\ IsProg(prog'[d])
               /\ prog'[d].arg = None \/ prog'[d].arg \notin Invalid
               /\ prog'[d].at \in Eventing => prog'[d].arg \notin Invalid
    BY <1>s, <1>n, <1>p, <1>q DEF Shape
  <2>4. edit'.kind \in {"datum", "field"} =>
          edit'.at \in 1..Len(events') /\ IsLine(edit'.line)
    BY <1>s, <1>u, <1>l DEF Shape
  <2> QED BY <1>l, <1>q, <2>2, <2>3, <2>4 DEF Shape
<1>2. Alone' /\ (~overlap => \A d \in Callers : d # c => At(d) = "idle" /\ At(d)' = "idle")
  BY <1>u, <1>q, AloneStays DEF HonestInv
<1>3. ASSUME Good' PROVE ChainInv' /\ HeadInv'
  <2>1. Good /\ ~overlap
    BY <1>3, <1>u DEF Good, Orderly
  <2>2. ChainInv /\ HeadInv
    BY <2>1 DEF HonestInv
  <2>3. prog[c].previous_hash = LastHash /\ prog[c].sequence = Len(events) + 1
    BY <1>u, <2>2 DEF HeadInv, Phase
  <2>4. Intact(Line(c))
    BY <1>f DEF Intact, Hash
  <2>5. \A n \in 1..Len(events) : Predecessor(events', n) = Predecessor(events, n)
    BY <1>l DEF Predecessor
  <2>6. Predecessor(events', Len(events) + 1) = LastHash
    BY <1>l DEF Predecessor, LastHash
  <2>7. \A n \in 1..Len(events') :
          events'[n].sequence = n /\ events'[n].previous = Predecessor(events', n)
    BY <1>l, <1>f, <2>2, <2>3, <2>5, <2>6 DEF ChainInv
  <2>8. \A n \in 1..Len(events') : n # edit'.at => Intact(events'[n])
    BY <1>l, <1>u, <2>2, <2>4 DEF ChainInv
  <2>9. edit' = NoEdit \/ Undoable'
    BY <1>l, <1>u, <2>2 DEF ChainInv, Undoable
  <2>10. ChainInv'
    BY <2>7, <2>8, <2>9 DEF ChainInv
  <2>11. Hash(c)' = Hash(c) /\ LastHash' = Hash(c)
    BY <1>p, <1>l, <1>f DEF Hash, LastHash
  <2>12. Phase(c)' /\ At(c)' \in Heading
    BY <1>p, <1>l, <2>3, <2>11 DEF Phase, At, Heading
  <2>13. HeadInv'
    BY <1>2, <2>1, <2>12, HeadStays
  <2> QED BY <2>10, <2>13
<1> QED BY <1>1, <1>2, <1>3 DEF HonestInv

\* The head file is rewritten with the hash of the last line.
LEMMA HeadHonest ==
  ASSUME HonestInv, NEW c \in Callers, OpenHead(c) \/ FillHead(c)
  PROVE  HonestInv'
<1>s. /\ Shape /\ IsProg(prog[c])
      /\ prog[c].at \in Eventing => prog[c].arg \notin Invalid
  BY DEF HonestInv, Shape
<1>u. UNCHANGED <<events, edit, overlap, torn, lost>> /\ At(c) \in Heading
  BY DEF OpenHead, FillHead, history, Heading
<1>o. Orderly' => Orderly
  BY <1>u DEF Orderly
<1>n. At(c) # "idle" /\ prog[c].arg \notin Invalid
  BY <1>s, <1>u DEF At, Eventing, Heading
<1>h. HeadInv => Len(events) > 0 /\ Hash(c) = LastHash /\ prog[c].sequence = Len(events)
  BY <1>u DEF HeadInv, Phase
<1>1. CASE OpenHead(c)
  <2>1. Goto(c, "head_fill")
    BY <1>1 DEF OpenHead
  <2>2. /\ prog'[c].at = "head_fill" /\ prog'[c].arg = prog[c].arg /\ IsProg(prog'[c])
        /\ prog'[c].previous_hash = prog[c].previous_hash
        /\ prog'[c].sequence = prog[c].sequence
    BY <1>s, <2>1, GotoIs, RecordFields
  <2>3. Hash(c)' = Hash(c)
    BY <2>2 DEF Hash
  <2>4. HeadInv => Phase(c)' /\ At(c)' \in Heading
    BY <1>u, <1>h, <2>2, <2>3, ChainStays DEF Phase, At, Heading
  <2> QED BY <1>s, <1>u, <1>o, <1>n, <2>1, <2>2, <2>4, GotoIs, FileStep
<1>2. CASE FillHead(c)
  <2>1. Exit(c) /\ state'.state = "ACTIVE" /\ state'.sequence = prog[c].sequence
        /\ state'.head = Hash(c)
    BY <1>2 DEF FillHead
  <2>2. prog'[c].at = "idle" /\ prog'[c].arg = None /\ IsProg(prog'[c])
    BY <1>s, <2>1, ExitIs DEF NoProgram, IsProg, Record
  <2>3. Phase(c)' /\ prog'[c].at \notin Eventing
    BY <2>2 DEF Phase, At, Heading, Eventing
  <2>4. HeadInv => HeadAgrees'
    BY <1>u, <1>h, <2>1, ChainStays DEF HeadAgrees
  <2> QED BY <1>s, <1>u, <1>o, <1>n, <2>1, <2>2, <2>3, <2>4, ExitIs, FileStep
<1> QED BY <1>1, <1>2

\* A command that ends early, or whose write fails, is noted as such when it
\* leaves the log and the head apart.
LEMMA FaultHonest ==
  ASSUME HonestInv, NEW c \in Callers, Fault(c)
  PROVE  HonestInv'
<1>s. /\ Shape /\ IsProg(prog[c])
      /\ prog[c].at \in Eventing => prog[c].arg \notin Invalid
  BY DEF HonestInv, Shape
<1>u. UNCHANGED <<events, edit, state, overlap>> /\ At(c) # "idle"
  BY DEF Fault, AppendLost, FillHeadLost, CutShort, files
<1>o. Orderly' => Orderly
  BY <1>u DEF Fault, AppendLost, FillHeadLost, CutShort, Orderly
<1>1. CASE AppendLost(c)
  <2>1. Goto(c, "head_open") /\ lost' /\ At(c) = "append"
    BY <1>1 DEF AppendLost
  <2>2. prog'[c].at = "head_open" /\ prog'[c].arg = prog[c].arg /\ IsProg(prog'[c])
    BY <1>s, <2>1, GotoIs, RecordFields
  <2>3. ~Good'
    BY <2>1 DEF Good, Orderly
  <2>4. prog'[c].arg \notin Invalid
    BY <1>s, <2>1, <2>2 DEF At, Eventing
  <2> QED BY <1>s, <1>u, <1>o, <2>1, <2>2, <2>3, <2>4, GotoIs, FileStep
<1>2. CASE FillHeadLost(c) \/ CutShort(c)
  <2>1. Exit(c) /\ (At(c) \in Heading => torn')
    BY <1>2 DEF FillHeadLost, CutShort, Heading
  <2>2. prog'[c].at = "idle" /\ prog'[c].arg = None /\ IsProg(prog'[c])
    BY <1>s, <2>1, ExitIs DEF NoProgram, IsProg, Record
  <2>3. Phase(c)' /\ prog'[c].at \notin Eventing
    BY <2>2 DEF Phase, At, Heading, Eventing
  <2>4. Good' => At(c) \notin Heading
    BY <2>1 DEF Good, Orderly
  <2>5. At(c) \notin Heading /\ HeadInv /\ (\A d \in Callers : d # c => At(d) = "idle")
          => HeadAgrees
    BY DEF HeadInv, Heading
  <2>6. HeadAgrees => HeadAgrees'
    BY <1>u, ChainStays DEF HeadAgrees
  <2> QED BY <1>s, <1>u, <1>o, <2>1, <2>2, <2>3, <2>4, <2>5, <2>6, ExitIs, FileStep
<1> QED BY <1>1, <1>2 DEF Fault

\* A command starts; if another runs, the two overlap.
LEMMA StartHonest ==
  ASSUME HonestInv, NEW c \in Callers, NEW datum, Start(c, datum)
  PROVE  HonestInv'
<1>s. Shape /\ IsProg(prog[c]) /\ At(c) = "idle"
  BY DEF HonestInv, Shape, Start
<1>p. PICK P : prog \in [Callers -> P]
  BY <1>s DEF Shape
<1>u. UNCHANGED <<events, edit, state, torn, lost>>
  BY DEF Start, files
<1>v. datum = None \/ datum \notin Invalid
  BY DEF Start, valid_field
<1>w. ~overlap' => ~overlap /\ \A d \in Callers : At(d) = "idle"
  BY DEF Start
<1> DEFINE new == Record("id_check", datum, prog[c].previous_hash, prog[c].sequence)
<1>1. prog' = [prog EXCEPT ![c] = [prog[c] EXCEPT !.arg = datum, !.at = "id_check"]]
  BY <1>p DEF Start
<1>2. [prog[c] EXCEPT !.arg = datum, !.at = "id_check"] = new
  <2>1. WithArg(prog[c], datum, "id_check") = new
    BY <1>s, RecordExcept
  <2> QED BY <2>1 DEF WithArg
<1>3. /\ prog' \in [Callers -> P \cup {new}] /\ prog'[c] = new
      /\ \A d \in Callers : d # c => prog'[d] = prog[d]
  BY <1>p, <1>1, <1>2
<1>4. prog'[c].at = "id_check" /\ prog'[c].arg = datum /\ IsProg(prog'[c])
  BY <1>3, RecordFields
<1>5. Shape'
  <2>1. prog'[c].at \notin Eventing
    BY <1>4 DEF Eventing
  <2> QED BY <1>s, <1>u, <1>v, <1>3, <1>4, <2>1, ShapeStays
<1>6. ~overlap' => \A d \in Callers : d # c => At(d)' = "idle"
  BY <1>w, <1>3 DEF At
<1>7. Alone'
  BY <1>6 DEF Alone
<1>8. ASSUME Good' PROVE ChainInv' /\ HeadInv'
  <2>1. Good /\ ~overlap'
    BY <1>8, <1>u, <1>w DEF Good, Orderly
  <2>2. ChainInv' /\ HeadInv
    BY <1>u, <2>1, ChainStays DEF HonestInv
  <2>3. HeadAgrees
    BY <1>w, <2>1, <2>2 DEF HeadInv, Heading
  <2>4. HeadAgrees'
    BY <1>u, <2>3, ChainStays DEF HeadAgrees
  <2>5. Phase(c)'
    BY <1>4 DEF Phase, At, Heading
  <2>6. HeadInv'
    BY <1>6, <2>1, <2>4, <2>5, HeadStays
  <2> QED BY <2>2, <2>6
<1> QED BY <1>5, <1>7, <1>8 DEF HonestInv
-----------------------------------------------------------------------------
\* The lines an edit makes.
Lines(F, S, D, P, H) == [fields : F, sequence : S, datum : D, previous : P, hash : H]
WithDatum(l, x) == [l EXCEPT !.datum = x]
WithFields(l, x) == [l EXCEPT !.fields = x]

LEMMA LineExcept ==
  ASSUME NEW l, IsLine(l), NEW x
  PROVE  /\ WithDatum(l, x).datum = x /\ WithDatum(l, x).fields = l.fields
         /\ WithFields(l, x).fields = x /\ WithFields(l, x).datum = l.datum
         /\ IsLine(WithDatum(l, x)) /\ WithDatum(l, x).sequence = l.sequence
         /\ WithDatum(l, x).previous = l.previous /\ WithDatum(l, x).hash = l.hash
         /\ IsLine(WithFields(l, x)) /\ WithFields(l, x).sequence = l.sequence
         /\ WithFields(l, x).previous = l.previous /\ WithFields(l, x).hash = l.hash
<1>l. l = [fields |-> l.fields, sequence |-> l.sequence, datum |-> l.datum,
           previous |-> l.previous, hash |-> l.hash]
  BY DEF IsLine
<1>r. ASSUME NEW f, NEW d,
             NEW r \in Lines({f}, {l.sequence}, {d}, {l.previous}, {l.hash})
      PROVE  /\ IsLine(r) /\ r.sequence = l.sequence
             /\ r.previous = l.previous /\ r.hash = l.hash
  BY DEF Lines, IsLine
<1>1. WithDatum(l, x) \in Lines({l.fields}, {l.sequence}, {x}, {l.previous}, {l.hash})
  <2>1. l \in Lines({l.fields}, {l.sequence}, {l.datum, x}, {l.previous}, {l.hash})
    BY <1>l DEF Lines
  <2> QED BY <2>1 DEF Lines, WithDatum
<1>2. WithFields(l, x) \in Lines({x}, {l.sequence}, {l.datum}, {l.previous}, {l.hash})
  <2>1. l \in Lines({l.fields, x}, {l.sequence}, {l.datum}, {l.previous}, {l.hash})
    BY <1>l DEF Lines
  <2> QED BY <2>1 DEF Lines, WithFields
<1>3. /\ WithDatum(l, x).datum = x /\ WithDatum(l, x).fields = l.fields
      /\ IsLine(WithDatum(l, x)) /\ WithDatum(l, x).sequence = l.sequence
      /\ WithDatum(l, x).previous = l.previous /\ WithDatum(l, x).hash = l.hash
  <2> DEFINE r == WithDatum(l, x)
  <2>1. r \in Lines({l.fields}, {l.sequence}, {x}, {l.previous}, {l.hash})
    BY <1>1
  <2> HIDE DEF r
  <2>2. IsLine(r) /\ r.sequence = l.sequence /\ r.previous = l.previous /\ r.hash = l.hash
    BY <1>r, <2>1
  <2>3. r.datum = x /\ r.fields = l.fields
    BY <2>1 DEF Lines
  <2> QED BY <2>2, <2>3 DEF r
<1>4. /\ WithFields(l, x).fields = x /\ WithFields(l, x).datum = l.datum
      /\ IsLine(WithFields(l, x)) /\ WithFields(l, x).sequence = l.sequence
      /\ WithFields(l, x).previous = l.previous /\ WithFields(l, x).hash = l.hash
  <2> DEFINE r == WithFields(l, x)
  <2>1. r \in Lines({x}, {l.sequence}, {l.datum}, {l.previous}, {l.hash})
    BY <1>2
  <2> HIDE DEF r
  <2>2. IsLine(r) /\ r.sequence = l.sequence /\ r.previous = l.previous /\ r.hash = l.hash
    BY <1>r, <2>1
  <2>3. r.datum = l.datum /\ r.fields = x
    BY <2>1 DEF Lines
  <2> QED BY <2>2, <2>3 DEF r
<1> QED BY <1>3, <1>4

\* One line is replaced by one with the same number and the same hashes.
LEMMA Replace ==
  ASSUME HonestInv, Quiet, UNCHANGED <<prog, state, overlap, torn, lost>>,
         NEW n \in 1..Len(events), NEW line, IsLine(line),
         events' = [events EXCEPT ![n] = line],
         edit'.kind # "line",
         edit'.kind \in {"datum", "field"} => edit'.at = n /\ IsLine(edit'.line),
         Good => /\ line.sequence = events[n].sequence
                 /\ line.previous = events[n].previous /\ line.hash = events[n].hash,
         edit.kind # "line",
         Good /\ ChainInv =>
           /\ \A m \in 1..Len(events) : m # n => Intact(events[m])
           /\ \/ edit' = NoEdit /\ Intact(line)
              \/ /\ edit'.kind \in {"datum", "field"} /\ edit'.at = n
                 /\ edit'.line = events[n] /\ Intact(events[n])
  PROVE  HonestInv'
<1>s. Shape /\ Alone
  BY DEF HonestInv
<1>e. PICK S : events \in Seq(S)
  BY <1>s DEF Shape
<1>l. /\ \E T : events' \in Seq(T)
      /\ Len(events') = Len(events)
      /\ \A m \in 1..Len(events) : events'[m] = IF m = n THEN line ELSE events[m]
  BY <1>e, ExceptIs
<1>n. Len(events) \in Nat
  BY <1>e, LenProperties
<1>1. Shape'
  <2>1. \A m \in 1..Len(events') : IsLine(events'[m])
    BY <1>s, <1>l DEF Shape
  <2>2. \E P : prog' \in [Callers -> P]
    BY <1>s DEF Shape
  <2>3. \A d \in Callers :
          /\ IsProg(prog'[d])
          /\ prog'[d].arg = None \/ prog'[d].arg \notin Invalid
          /\ prog'[d].at \in Eventing => prog'[d].arg \notin Invalid
    BY <1>s DEF Shape
  <2> QED BY <1>l, <2>1, <2>2, <2>3 DEF Shape
<1>2. Alone'
  BY <1>s DEF Alone, At
<1>3. ASSUME Good' PROVE ChainInv' /\ HeadInv'
  <2>1. Good /\ ChainInv /\ HeadInv
    BY <1>3 DEF Good, Orderly, HonestInv
  <2>2. /\ line.sequence = events[n].sequence
        /\ line.previous = events[n].previous /\ line.hash = events[n].hash
    BY <2>1
  <2>3. \A m \in 1..Len(events) : events'[m].hash = events[m].hash
    BY <1>l, <2>2
  <2>4. \A m \in 1..Len(events) : Predecessor(events', m) = Predecessor(events, m)
    BY <1>l, <1>n, <2>3 DEF Predecessor
  <2>5. \A m \in 1..Len(events') :
          events'[m].sequence = m /\ events'[m].previous = Predecessor(events', m)
    <3>1. \A m \in 1..Len(events) :
            events[m].sequence = m /\ events[m].previous = Predecessor(events, m)
      BY <2>1 DEF ChainInv
    <3>2. \A m \in 1..Len(events) :
            events'[m].sequence = events[m].sequence /\ events'[m].previous = events[m].previous
      BY <1>l, <2>2
    <3> QED BY <1>l, <2>4, <3>1, <3>2
  <2>6. /\ \A m \in 1..Len(events') : m # edit'.at => Intact(events'[m])
        /\ edit' = NoEdit \/ Undoable'
    <3>1. CASE edit' = NoEdit /\ Intact(line)
      BY <1>l, <2>1, <3>1
    <3>2. CASE /\ edit'.kind \in {"datum", "field"} /\ edit'.at = n
               /\ edit'.line = events[n] /\ Intact(events[n])
      <4>1. \A m \in 1..Len(events') : m # edit'.at => Intact(events'[m])
        BY <1>l, <2>1, <3>2
      <4>2. Undoable'
        BY <1>l, <2>2, <3>2 DEF Undoable
      <4> QED BY <4>1, <4>2
    <3> QED BY <2>1, <3>1, <3>2 DEF NoEdit
  <2>7. ChainInv'
    BY <2>5, <2>6 DEF ChainInv
  <2>8. LastHash' = LastHash
    <3>1. CASE Len(events) = 0
      BY <1>l, <3>1 DEF LastHash
    <3>2. CASE Len(events) # 0
      <4>1. events'[Len(events)].hash = events[Len(events)].hash
        BY <1>n, <2>3, <3>2
      <4> QED BY <1>l, <3>2, <4>1 DEF LastHash
    <3> QED BY <3>1, <3>2
  <2>9. HeadAgrees
    BY <2>1 DEF HeadInv, Quiet, Heading
  <2>10. HeadAgrees'
    BY <1>l, <2>8, <2>9 DEF HeadAgrees
  <2>11. \A c \in Callers : At(c)' = "idle"
    BY DEF Quiet, At
  <2>12. HeadInv'
    BY <2>10, <2>11 DEF HeadInv, Phase, Heading
  <2> QED BY <2>7, <2>12
<1> QED BY <1>1, <1>2, <1>3 DEF HonestInv

\* Edits of the log by others, and the edit that is undone.
LEMMA EditHonest ==
  ASSUME HonestInv, NEW n \in 1..Len(events),
         DropField(n) \/ RemoveLine(n) \/ \E datum \in Data \ Invalid : AlterDatum(n, datum)
  PROVE  HonestInv'
<1>s. Shape /\ Alone /\ IsLine(events[n])
  BY DEF HonestInv, Shape
<1>e. PICK S : events \in Seq(S)
  BY <1>s DEF Shape
<1>q. Quiet /\ edit = NoEdit
  BY DEF DropField, RemoveLine, AlterDatum, MayEdit
<1>k. edit.kind = "none" /\ edit.at = 0
  BY <1>q DEF NoEdit
<1>c. ChainInv => \A m \in 1..Len(events) : Intact(events[m])
  BY <1>k DEF ChainInv
<1>1. ASSUME NEW kind \in {"datum", "field"}, EditDone(kind, n), NEW line, IsLine(line),
             events' = [events EXCEPT ![n] = line],
             line.sequence = events[n].sequence,
             line.previous = events[n].previous, line.hash = events[n].hash
      PROVE  HonestInv'
  <2>1. UNCHANGED <<prog, state, overlap, torn, lost>>
    BY <1>1 DEF EditDone, history
  <2>2. edit'.kind = kind /\ edit'.at = n /\ edit'.line = events[n]
    BY <1>1 DEF EditDone
  <2>3. edit'.kind # "line" /\ edit'.kind \in {"datum", "field"}
    BY <1>1, <2>2
  <2>4. IsLine(edit'.line)
    BY <1>s, <2>2
  <2>5. Good /\ ChainInv =>
          /\ \A m \in 1..Len(events) : m # n => Intact(events[m])
          /\ /\ edit'.kind \in {"datum", "field"} /\ edit'.at = n
             /\ edit'.line = events[n] /\ Intact(events[n])
    BY <1>c, <2>2, <2>3
  <2> QED BY <1>1, <1>q, <1>k, <2>1, <2>2, <2>3, <2>4, <2>5, Replace
<1>2. CASE DropField(n)
  <2> DEFINE line == WithFields(events[n], events[n].fields - 1)
  <2>1. events' = [events EXCEPT ![n] = line]
    BY <1>2 DEF DropField, WithFields
  <2>2. /\ IsLine(line) /\ line.sequence = events[n].sequence
        /\ line.previous = events[n].previous /\ line.hash = events[n].hash
    BY <1>s, LineExcept
  <2>3. EditDone("field", n)
    BY <1>2 DEF DropField
  <2> HIDE DEF line
  <2> QED BY <1>1, <2>1, <2>2, <2>3
<1>3. CASE \E datum \in Data \ Invalid : AlterDatum(n, datum)
  <2>p. PICK datum : AlterDatum(n, datum)
    BY <1>3
  <2> DEFINE line == WithDatum(events[n], datum)
  <2>1. events' = [events EXCEPT ![n] = line]
    BY <2>p DEF AlterDatum, WithDatum
  <2>2. /\ IsLine(line) /\ line.sequence = events[n].sequence
        /\ line.previous = events[n].previous /\ line.hash = events[n].hash
    BY <1>s, LineExcept
  <2>3. EditDone("datum", n)
    BY <2>p DEF AlterDatum
  <2> HIDE DEF line
  <2> QED BY <1>1, <2>1, <2>2, <2>3
<1>4. CASE RemoveLine(n)
  <2>1. events' = RemoveAt(events, n) /\ EditDone("line", n)
    BY <1>4 DEF RemoveLine
  <2>2. UNCHANGED <<prog, overlap>> /\ edit'.kind = "line"
    BY <2>1 DEF EditDone, history
  <2>a. /\ events' \in Seq(S) /\ Len(events') = Len(events) - 1 /\ Len(events) \in Nat
        /\ \A j \in 1..(Len(events) - 1) :
             events'[j] = IF j < n THEN events[j] ELSE events[j + 1]
    BY <1>e, <2>1, RemoveIs, LenProperties
  <2>3. ASSUME NEW j \in 1..Len(events')
        PROVE  \E k \in 1..Len(events) : events'[j] = events[k]
    <3>1. j \in 1..Len(events) /\ j + 1 \in 1..Len(events) /\ j \in 1..(Len(events) - 1)
      BY <2>a
    <3> QED BY <2>a, <3>1
  <2>4. \A m \in 1..Len(events') : IsLine(events'[m])
    BY <1>s, <2>3 DEF Shape
  <2>5. \E P : prog' \in [Callers -> P]
    BY <1>s, <2>2 DEF Shape
  <2>6. \A d \in Callers :
          /\ IsProg(prog'[d])
          /\ prog'[d].arg = None \/ prog'[d].arg \notin Invalid
          /\ prog'[d].at \in Eventing => prog'[d].arg \notin Invalid
    BY <1>s, <2>2 DEF Shape
  <2>7. \E T : events' \in Seq(T)
    BY <2>a
  <2>8. Shape'
    BY <2>2, <2>4, <2>5, <2>6, <2>7 DEF Shape
  <2>9. Alone' /\ ~Good'
    BY <1>s, <2>2 DEF Alone, At, Good
  <2> QED BY <2>8, <2>9 DEF HonestInv
<1> QED BY <1>2, <1>3, <1>4

LEMMA RestoreHonest ==
  ASSUME HonestInv, Restore
  PROVE  HonestInv'
<1>1. Quiet /\ UNCHANGED <<prog, state, overlap, torn, lost>> /\ edit.kind \in {"datum", "field"}
  BY DEF Restore, history
<1>2. edit.at \in 1..Len(events) /\ IsLine(edit.line)
  BY <1>1 DEF HonestInv, Shape
<1>3. edit' = NoEdit /\ edit'.kind = "none"
  BY DEF Restore, NoEdit
<1>4. events' = [events EXCEPT ![edit.at] = edit.line]
  BY DEF Restore
<1>5. Good => ChainInv
  BY DEF HonestInv
<1>6. Good => Undoable
  BY <1>1, <1>5 DEF ChainInv, NoEdit
<1>7. PICK n, line : n = edit.at /\ line = edit.line
  OBVIOUS
<1>8. n \in 1..Len(events) /\ IsLine(line) /\ events' = [events EXCEPT ![n] = line]
  BY <1>2, <1>4, <1>7
<1>9. Good => /\ line.sequence = events[n].sequence /\ Intact(line)
              /\ line.previous = events[n].previous /\ line.hash = events[n].hash
  BY <1>6, <1>7 DEF Undoable
<1>10. Good => \A m \in 1..Len(events) : m # n => Intact(events[m])
  BY <1>5, <1>7 DEF ChainInv
<1> QED BY <1>1, <1>3, <1>8, <1>9, <1>10, Replace

LEMMA HonestStutters ==
  ASSUME HonestInv, UNCHANGED vars
  PROVE  HonestInv'
<1>1. UNCHANGED <<events, edit, state, prog, overlap, torn, lost>>
  BY DEF vars, files, history
<1>2. Shape' /\ Alone'
  BY <1>1 DEF HonestInv, Shape, Alone, At
<1>3. Good' => Good
  BY <1>1 DEF Good, Orderly
<1>4. ChainInv => ChainInv'
  BY <1>1, ChainStays
<1>5. HeadInv => HeadInv'
  BY <1>1, ChainStays DEF HeadInv, HeadAgrees, Phase, At, Hash
<1> QED BY <1>2, <1>3, <1>4, <1>5 DEF HonestInv

LEMMA HonestNext == HonestInv /\ LogInv /\ [Next]_vars => HonestInv'
<1> SUFFICES ASSUME HonestInv, LogInv, [Next]_vars PROVE HonestInv'
  OBVIOUS
<1>1. ASSUME NEW c \in Callers,
             InitStep(c) \/ OpenLog(c) \/ EventStep(c) \/ Fault(c)
               \/ \E datum \in Data \cup {None} : Start(c, datum)
      PROVE  HonestInv'
  <2>1. CASE InitStep(c)
    BY <2>1, InitStepHonest
  <2>2. CASE EventStep(c)
    BY <2>2, ReadHonest, AppendHonest, HeadHonest DEF EventStep
  <2>3. CASE Fault(c)
    BY <2>3, FaultHonest
  <2>4. CASE \E datum \in Data \cup {None} : Start(c, datum)
    BY <2>4, StartHonest
  <2>5. CASE OpenLog(c)
    BY <2>5, OpenLogHonest
  <2> QED BY <1>1, <2>5, <2>1, <2>2, <2>3, <2>4
<1> QED BY <1>1, EditHonest, RestoreHonest, HonestStutters DEF Next

-----------------------------------------------------------------------------
\* A step of program c leaves the other programs where they are.
Moved(c, label, arg, previous, seq) ==
  /\ prog'[c] = Record(label, arg, previous, seq)
  /\ \A d \in Callers : d # c => prog'[d] = prog[d]

LEMMA MovedFields ==
  ASSUME NEW c \in Callers, NEW label, NEW arg, NEW previous, NEW seq,
         Moved(c, label, arg, previous, seq)
  PROVE  /\ At(c)' = label /\ prog'[c].arg = arg /\ prog'[c].sequence = seq
         /\ Hash(c)' = sha256_hex(seq, arg, previous)
         /\ \A d \in Callers : d # c =>
              prog'[d] = prog[d] /\ At(d)' = At(d) /\ Hash(d)' = Hash(d)
BY RecordFields DEF Moved, At, Hash

LEMMA GotoMoves ==
  ASSUME Shape, NEW c \in Callers, NEW label, Goto(c, label)
  PROVE  Moved(c, label, prog[c].arg, prog[c].previous_hash, prog[c].sequence)
BY GotoIs DEF Moved

LEMMA ExitMoves ==
  ASSUME Shape, NEW c \in Callers, Exit(c)
  PROVE  Moved(c, "idle", None, GENESIS, 0)
BY ExitIs DEF Moved, Record, NoProgram

LEMMA ReadMoves ==
  ASSUME Shape, NEW c \in Callers, ReadHead(c)
  PROVE  Moved(c, "count", prog[c].arg, read_state_hash(state), prog[c].sequence)
<1>1. PICK P : prog \in [Callers -> P]
  BY DEF Shape
<1>2. prog' = [prog EXCEPT ![c] = [prog[c] EXCEPT !.previous_hash = read_state_hash(state),
                                                  !.at = "count"]]
  BY <1>1 DEF ReadHead
<1>3. WithHead(prog[c], read_state_hash(state), "count")
        = Record("count", prog[c].arg, read_state_hash(state), prog[c].sequence)
  BY RecordExcept DEF Shape
<1> QED BY <1>1, <1>2, <1>3 DEF WithHead, Moved

LEMMA CountMoves ==
  ASSUME Shape, NEW c \in Callers, CountEvents(c)
  PROVE  Moved(c, "append", prog[c].arg, prog[c].previous_hash, Len(events) + 1)
<1>1. PICK P : prog \in [Callers -> P]
  BY DEF Shape
<1>2. prog' = [prog EXCEPT ![c] = [prog[c] EXCEPT !.sequence = Len(events) + 1, !.at = "append"]]
  BY <1>1 DEF CountEvents, count_events
<1>3. WithNumber(prog[c], Len(events) + 1, "append")
        = Record("append", prog[c].arg, prog[c].previous_hash, Len(events) + 1)
  BY RecordExcept DEF Shape
<1> QED BY <1>1, <1>2, <1>3 DEF WithNumber, Moved

LEMMA StartMoves ==
  ASSUME Shape, NEW c \in Callers, NEW datum, Start(c, datum)
  PROVE  Moved(c, "id_check", datum, prog[c].previous_hash, prog[c].sequence)
<1>1. PICK P : prog \in [Callers -> P]
  BY DEF Shape
<1>2. prog' = [prog EXCEPT ![c] = [prog[c] EXCEPT !.arg = datum, !.at = "id_check"]]
  BY <1>1 DEF Start
<1>3. WithArg(prog[c], datum, "id_check")
        = Record("id_check", datum, prog[c].previous_hash, prog[c].sequence)
  BY RecordExcept DEF Shape
<1> QED BY <1>1, <1>2, <1>3 DEF WithArg, Moved
-----------------------------------------------------------------------------
\* The log file itself.
LEMMA LogStays ==
  ASSUME LogInv, NEW c \in Callers, UNCHANGED <<events, log_exists, edit, erased>>,
         overlap => overlap',
         NEW label, NEW arg, NEW previous, NEW seq, Moved(c, label, arg, previous, seq),
         label = "ev_open" => ~log_exists
  PROVE  LogInv'
<1>1. At(c)' = label /\ \A d \in Callers : d # c => At(d)' = At(d)
  BY MovedFields
<1>2. \A d \in Callers : At(d)' = "ev_open" => edit.kind = "none" /\ (overlap' \/ ~log_exists)
  <2>1. ~log_exists => edit.kind = "none"
    BY DEF LogInv
  <2> QED BY <1>1, <2>1 DEF LogInv
<1> QED BY <1>2 DEF LogInv

\* A program that creates the log, by fopen "w" or "a".
LEMMA LogAppears ==
  ASSUME LogInv, Alone, NEW c \in Callers, At(c) # "idle", log_exists' = TRUE,
         UNCHANGED <<edit, overlap>>, erased' # {} => overlap,
         NEW label, NEW arg, NEW previous, NEW seq, Moved(c, label, arg, previous, seq),
         label # "ev_open"
  PROVE  LogInv'
<1>1. At(c)' = label /\ \A d \in Callers : d # c => At(d)' = At(d)
  BY MovedFields
<1>2. \A d \in Callers : At(d)' = "ev_open" => edit.kind = "none" /\ overlap
  BY <1>1 DEF LogInv, Alone
<1>3. log_exists' \in BOOLEAN /\ log_exists'
  OBVIOUS
<1> QED BY <1>2, <1>3 DEF LogInv

LEMMA LogNext ==
  ASSUME Shape, Alone, LogInv, [Next]_vars
  PROVE  LogInv'
<1>g. ASSUME NEW c \in Callers, NEW label, Goto(c, label), label # "ev_open",
             UNCHANGED <<events, log_exists, edit, erased, overlap>>
      PROVE  LogInv'
  BY <1>g, GotoMoves, LogStays
<1>e. ASSUME NEW c \in Callers, Exit(c), UNCHANGED <<events, log_exists, edit, erased, overlap>>
      PROVE  LogInv'
  BY <1>e, ExitMoves, LogStays
<1>1. ASSUME NEW c \in Callers, InitStep(c) PROVE LogInv'
  <2>1. UNCHANGED <<events, log_exists, edit, erased, overlap>>
    BY <1>1 DEF InitStep, CheckIdentity, OpenIdentity, FillIdentity, CheckState, OpenState,
         FillState, CheckLog, files, history
  <2>2. \/ Exit(c)
        \/ Goto(c, "ev_open") /\ ~log_exists
        \/ \E label \in {"st_check", "id_open", "id_fill", "st_open", "st_fill", "ev_check",
                         "inited"} : Goto(c, label)
    BY <1>1 DEF InitStep, CheckIdentity, OpenIdentity, FillIdentity, CheckState, OpenState,
         FillState, CheckLog, InitReturns
  <2>3. CASE Goto(c, "ev_open") /\ ~log_exists
    BY <2>1, <2>3, GotoMoves, LogStays
  <2> QED BY <1>g, <1>e, <2>1, <2>2, <2>3
<1>2. ASSUME NEW c \in Callers, OpenLog(c) PROVE LogInv'
  <2>1. /\ At(c) = "ev_open" /\ log_exists' = TRUE /\ UNCHANGED <<edit, overlap>>
        /\ erased' = erased \cup Logged /\ (Exit(c) \/ Goto(c, "inited"))
    BY <1>2 DEF OpenLog, InitReturns
  <2>2. ~overlap => Logged = {}
    <3>1. ~overlap => Len(events) = 0
      BY <2>1 DEF LogInv
    <3> QED BY <3>1 DEF Logged
  <2>3. erased' # {} => overlap
    BY <2>1, <2>2 DEF LogInv
  <2> QED BY <2>1, <2>3, ExitMoves, GotoMoves, LogAppears
<1>3. ASSUME NEW c \in Callers, AppendEvent(c) \/ AppendLost(c) PROVE LogInv'
  <2>1. /\ At(c) = "append" /\ log_exists' = TRUE /\ UNCHANGED <<edit, overlap, erased>>
        /\ Goto(c, "head_open")
    BY <1>3 DEF AppendEvent, AppendLost, history
  <2>2. erased' # {} => overlap
    BY <2>1 DEF LogInv
  <2> QED BY <2>1, <2>2, GotoMoves, LogAppears
<1>4. ASSUME NEW c \in Callers, OpenHead(c) \/ FillHead(c) \/ FillHeadLost(c) \/ CutShort(c)
      PROVE  LogInv'
  <2>1. UNCHANGED <<events, log_exists, edit, erased, overlap>>
    BY <1>4 DEF OpenHead, FillHead, FillHeadLost, CutShort, files, history
  <2>2. Goto(c, "head_fill") \/ Exit(c)
    BY <1>4 DEF OpenHead, FillHead, FillHeadLost, CutShort
  <2> QED BY <1>g, <1>e, <2>1, <2>2
<1>5. ASSUME NEW c \in Callers, ReadHead(c) PROVE LogInv'
  <2>1. UNCHANGED <<events, log_exists, edit, erased, overlap>>
    BY <1>5 DEF ReadHead, files, history
  <2> QED BY <1>5, <2>1, ReadMoves, LogStays
<1>6. ASSUME NEW c \in Callers, CountEvents(c) PROVE LogInv'
  <2>1. UNCHANGED <<events, log_exists, edit, erased, overlap>>
    BY <1>6 DEF CountEvents, files, history
  <2> QED BY <1>6, <2>1, CountMoves, LogStays
<1>7. ASSUME NEW c \in Callers, NEW datum, Start(c, datum) PROVE LogInv'
  <2>1. UNCHANGED <<events, log_exists, edit, erased>> /\ (overlap => overlap')
    BY <1>7 DEF Start, files
  <2> QED BY <1>7, <2>1, StartMoves, LogStays
\* Edits happen to a log that exists and while no program runs.
<1>8. ASSUME NEW n \in 1..Len(events),
             DropField(n) \/ RemoveLine(n) \/ \E datum \in Data \ Invalid : AlterDatum(n, datum)
      PROVE  LogInv'
  <2>1. Quiet /\ UNCHANGED <<log_exists, prog, overlap, erased>>
    BY <1>8 DEF DropField, RemoveLine, AlterDatum, MayEdit, EditDone, history
  <2>2. Len(events) # 0
    <3>1. Len(events) \in Nat
      BY LenProperties DEF Shape
    <3> QED BY <3>1
  <2>3. log_exists /\ log_exists' /\ log_exists' \in BOOLEAN
    BY <2>1, <2>2 DEF LogInv
  <2>4. \A c \in Callers : At(c)' # "ev_open"
    BY <2>1 DEF Quiet, At
  <2> QED BY <2>1, <2>3, <2>4 DEF LogInv
<1>9. CASE Restore
  <2>1. Quiet /\ UNCHANGED <<log_exists, prog, overlap, erased>> /\ edit.kind # "none"
    BY <1>9 DEF Restore, history
  <2>2. log_exists /\ log_exists' /\ log_exists' \in BOOLEAN
    BY <2>1 DEF LogInv
  <2>3. \A c \in Callers : At(c)' # "ev_open"
    BY <2>1 DEF Quiet, At
  <2> QED BY <2>1, <2>2, <2>3 DEF LogInv
<1>10. CASE UNCHANGED vars
  BY <1>10 DEF LogInv, vars, files, history, At
<1> QED BY <1>1, <1>2, <1>3, <1>4, <1>5, <1>6, <1>7, <1>8, <1>9, <1>10
        DEF Next, EventStep, Fault

LEMMA BookInit == Init => BookInv
<1> SUFFICES ASSUME Init PROVE LogInv
  BY HonestInit DEF BookInv
<1>1. Len(events) = 0 /\ edit.kind = "none" /\ erased = {} /\ log_exists \in BOOLEAN
  BY EmptySeq DEF Init, NoEdit
<1>2. \A c \in Callers : At(c) # "ev_open"
  BY DEF Init, At, NoProgram
<1> QED BY <1>1, <1>2 DEF LogInv

LEMMA BookNext == BookInv /\ [Next]_vars => BookInv'
BY HonestNext, LogNext DEF BookInv, HonestInv

LEMMA HonestImplies == BookInv => HonestLogVerifies
<1> SUFFICES ASSUME HonestInv, LogInv, Orderly, edit = NoEdit
             PROVE  /\ continuum_verify(log_exists, events) =
                         [result |-> IF log_exists THEN "VERIFIED" ELSE "EMPTY",
                          number |-> Len(events)]
                    /\ Quiet /\ events # <<>> =>
                         /\ continuum_state.sequence = continuum_passport.events
                         /\ continuum_state.head = events[Len(events)].hash
  BY DEF HonestLogVerifies, BookInv
<1>1. edit.kind = "none" /\ edit.at = 0
  BY DEF NoEdit
<1>2. ChainInv /\ HeadInv
  BY <1>1 DEF HonestInv, Good
<1>3. ASSUME NEW n \in 1..Len(events) PROVE Failure(events, n) = "none"
  <2>1. events[n].sequence = n /\ events[n].previous = Predecessor(events, n)
    BY <1>2 DEF ChainInv
  <2>2. Intact(events[n])
    BY <1>1, <1>2 DEF ChainInv
  <2>3. ~(FIELDS < FIELDS) /\ ~(FIELDS > FIELDS)
    BY DEF FIELDS
  <2> QED BY <2>1, <2>2, <2>3 DEF Failure, Intact
<1>4. {n \in 1..Len(events) : Failure(events, n) # "none"} = {}
  BY <1>3
<1>5. continuum_verify(log_exists, events) =
        [result |-> IF log_exists THEN "VERIFIED" ELSE "EMPTY", number |-> Len(events)]
  <2>1. CASE log_exists
    BY <1>4, <2>1 DEF continuum_verify
  <2>2. CASE ~log_exists
    BY <2>2 DEF continuum_verify, LogInv
  <2> QED BY <2>1, <2>2
<1>6. ASSUME Quiet, events # <<>>
      PROVE  /\ continuum_state.sequence = continuum_passport.events
             /\ continuum_state.head = events[Len(events)].hash
  <2>1. PICK S : events \in Seq(S)
    BY DEF HonestInv, Shape
  <2>2. Len(events) \in Nat /\ Len(events) # 0
    BY <1>6, <2>1, EmptySeq, LenProperties
  <2>3. HeadAgrees
    BY <1>2, <1>6 DEF HeadInv, Quiet, Heading
  <2>4. state.sequence = Len(events) /\ state.head = events[Len(events)].hash
    BY <2>2, <2>3 DEF HeadAgrees, LastHash
  <2> QED BY <2>4 DEF continuum_state, continuum_passport, count_events
<1> QED BY <1>5, <1>6

\* A log that commands wrote one at a time verifies with all its events, and
\* between commands the head file names its last line: continuum_verify never
\* accuses a log that nobody changed (chrono_continuum.c, continuum_event and
\* continuum_verify), however many events, commands, interruptions and undone
\* edits there were.
THEOREM HonestLogIsAccepted == Spec => []HonestLogVerifies
BY BookInit, BookNext, HonestImplies, PTL DEF Spec
-----------------------------------------------------------------------------
\* The identity file: a program that found none and did not overlap is the one
\* that writes it.
IdentityInv ==
  /\ identity.exists \in BOOLEAN /\ identity.id \in Nat /\ made \in Nat
  /\ identity.id > 0 => identity.exists
  /\ ~overlap /\ identity.id # 0 => \A c \in Callers : At(c) \notin {"id_open", "id_fill"}

Stable == identity.id # 0 /\ ~overlap => identity'.id = identity.id

\* What a program does that is not at the identity file.
LEMMA IdentityKept ==
  ASSUME IdentityInv, UNCHANGED <<identity, made>>, overlap => overlap', NEW c \in Callers,
         NEW label, NEW arg, NEW previous, NEW seq, Moved(c, label, arg, previous, seq),
         label \notin {"id_open", "id_fill"}
  PROVE  IdentityInv' /\ Stable
<1>1. At(c)' = label /\ \A d \in Callers : d # c => At(d)' = At(d)
  BY MovedFields
<1> QED BY <1>1 DEF IdentityInv, Stable

LEMMA IdentityNext ==
  ASSUME HonestInv, IdentityInv, Next
  PROVE  IdentityInv' /\ Stable
<1>s. Shape /\ Alone
  BY DEF HonestInv
<1>g. ASSUME NEW c \in Callers, NEW label, Goto(c, label), label \notin {"id_open", "id_fill"},
             UNCHANGED <<identity, made, overlap>>
      PROVE  IdentityInv' /\ Stable
  BY <1>s, <1>g, GotoMoves, IdentityKept
<1>e. ASSUME NEW c \in Callers, Exit(c), UNCHANGED <<identity, made, overlap>>
      PROVE  IdentityInv' /\ Stable
  BY <1>s, <1>e, ExitMoves, IdentityKept
<1>1. ASSUME NEW c \in Callers, CheckIdentity(c) PROVE IdentityInv' /\ Stable
  <2>1. UNCHANGED <<identity, made, overlap>>
    BY <1>1 DEF CheckIdentity, files, history
  <2>2. CASE identity.exists
    <3>1. Goto(c, "st_check")
      BY <1>1, <2>2 DEF CheckIdentity
    <3> QED BY <1>g, <2>1, <3>1
  <2>3. CASE ~identity.exists
    BY <2>1, <2>3 DEF IdentityInv, Stable
  <2> QED BY <2>2, <2>3
<1>2. ASSUME NEW c \in Callers, OpenIdentity(c) PROVE IdentityInv' /\ Stable
  <2>1. identity'.exists = TRUE /\ identity'.id = 0 /\ made' = made /\ At(c) = "id_open"
    BY <1>2 DEF OpenIdentity
  <2>2. identity'.exists \in BOOLEAN
    BY <2>1
  <2>3. IdentityInv'
    BY <2>1, <2>2 DEF IdentityInv
  <2> QED BY <2>1, <2>3 DEF IdentityInv, Stable
<1>3. ASSUME NEW c \in Callers, FillIdentity(c) PROVE IdentityInv' /\ Stable
  <2>1. /\ identity'.exists = TRUE /\ identity'.id = made + 1 /\ made' = made + 1
        /\ At(c) = "id_fill" /\ Goto(c, "st_check") /\ overlap' = overlap
    BY <1>3 DEF FillIdentity, history
  <2>2. At(c)' = "st_check" /\ \A d \in Callers : d # c => At(d)' = At(d)
    BY <1>s, <2>1, GotoMoves, MovedFields
  <2>3. ~overlap => \A d \in Callers : d # c => At(d) = "idle"
    BY <1>s, <2>1 DEF Alone
  <2>4. identity'.exists \in BOOLEAN /\ identity'.exists
    BY <2>1
  <2>5. \A d \in Callers : ~overlap' => At(d)' \notin {"id_open", "id_fill"}
    BY <2>1, <2>2, <2>3
  <2>6. identity'.id \in Nat /\ made' \in Nat
    BY <2>1 DEF IdentityInv
  <2>7. IdentityInv'
    BY <2>4, <2>5, <2>6 DEF IdentityInv
  <2> QED BY <2>1, <2>7 DEF IdentityInv, Stable
<1>4. ASSUME NEW c \in Callers, \/ CheckState(c) \/ OpenState(c) \/ FillState(c)
                                \/ CheckLog(c) \/ OpenLog(c)
      PROVE  IdentityInv' /\ Stable
  <2>1. UNCHANGED <<identity, made, overlap>>
    BY <1>4 DEF CheckState, OpenState, FillState, CheckLog, OpenLog, files, history
  <2>2. Exit(c) \/ \E label \in {"st_open", "st_fill", "ev_check", "ev_open", "inited"} :
                     Goto(c, label)
    BY <1>4 DEF CheckState, OpenState, FillState, CheckLog, OpenLog, InitReturns
  <2> QED BY <1>g, <1>e, <2>1, <2>2
<1>5. ASSUME NEW c \in Callers, ReadHead(c) PROVE IdentityInv' /\ Stable
  <2>1. UNCHANGED <<identity, made, overlap>>
    BY <1>5 DEF ReadHead, files, history
  <2> QED BY <1>s, <1>5, <2>1, ReadMoves, IdentityKept
<1>6. ASSUME NEW c \in Callers, CountEvents(c) PROVE IdentityInv' /\ Stable
  <2>1. UNCHANGED <<identity, made, overlap>>
    BY <1>6 DEF CountEvents, files, history
  <2> QED BY <1>s, <1>6, <2>1, CountMoves, IdentityKept
<1>7. ASSUME NEW c \in Callers, AppendEvent(c) \/ OpenHead(c) \/ FillHead(c) \/ Fault(c)
      PROVE  IdentityInv' /\ Stable
  <2>1. UNCHANGED <<identity, made, overlap>>
    BY <1>7 DEF AppendEvent, OpenHead, FillHead, Fault, AppendLost, FillHeadLost, CutShort,
         files, history
  <2>2. Goto(c, "head_open") \/ Goto(c, "head_fill") \/ Exit(c)
    BY <1>7 DEF AppendEvent, OpenHead, FillHead, Fault, AppendLost, FillHeadLost, CutShort
  <2> QED BY <1>g, <1>e, <2>1, <2>2
<1>8. ASSUME NEW c \in Callers, NEW datum, Start(c, datum) PROVE IdentityInv' /\ Stable
  <2>1. UNCHANGED <<identity, made>> /\ (overlap => overlap')
    BY <1>8 DEF Start, files
  <2> QED BY <1>s, <1>8, <2>1, StartMoves, IdentityKept
<1>9. ASSUME UNCHANGED <<identity, made, prog, overlap>> PROVE IdentityInv' /\ Stable
  BY <1>9 DEF IdentityInv, Stable, At
<1>10. ASSUME NEW n, \/ DropField(n) \/ RemoveLine(n) \/ Restore
                     \/ \E datum \in Data \ Invalid : AlterDatum(n, datum)
       PROVE  UNCHANGED <<identity, made, prog, overlap>>
  BY <1>10 DEF DropField, RemoveLine, Restore, AlterDatum, EditDone, history
<1> QED BY <1>1, <1>2, <1>3, <1>4, <1>5, <1>6, <1>7, <1>8, <1>9, <1>10
        DEF Next, InitStep, EventStep

\* Once the passport has an identity no command changes it, for any number of
\* programs that run one after the other and are cut short anywhere.
THEOREM IdentityIsForGood == Spec => IdentityIsStable
<1> DEFINE Step == continuum_passport.id # 0 /\ ~overlap =>
                     continuum_passport'.id = continuum_passport.id
<1>1. Init => BookInv /\ IdentityInv
  BY BookInit DEF Init, IdentityInv
<1>2. BookInv /\ IdentityInv /\ [Next]_vars => (BookInv /\ IdentityInv)'
  <2>1. ASSUME IdentityInv, UNCHANGED vars PROVE IdentityInv'
    BY <2>1 DEF IdentityInv, vars, files, history, At
  <2> QED BY <2>1, BookNext, IdentityNext DEF BookInv
<1>3. BookInv /\ IdentityInv /\ [Next]_vars => [Step]_vars
  <2>1. Stable => Step
    BY DEF Stable, continuum_passport
  <2> QED BY <2>1, IdentityNext DEF BookInv
<1> QED BY <1>1, <1>2, <1>3, PTL DEF Spec, IdentityIsStable
-----------------------------------------------------------------------------
\* What is announced was written before.
LoggedFirst ==
  ~lost /\ edits = 0 =>
    /\ \A c \in Callers : At(c) \in Heading => Hash(c) \in Logged \cup erased
    /\ committed \subseteq Logged \cup erased /\ state.head \in Logged \cup erased \cup {GENESIS}
EditsCounted == edits \in Nat /\ (edits = 0 => edit.kind = "none")

\* An append adds its line's hash and takes none away.
LEMMA AppendLogs ==
  ASSUME Shape, NEW c \in Callers, AppendEvent(c)
  PROVE  Logged' = Logged \cup {Hash(c)}
<1> DEFINE e == Line(c)
<1>1. events' = Append(events, e) /\ e.hash = Hash(c)
  BY DEF AppendEvent, Line
<1>2. PICK S : events \in Seq(S)
  BY DEF Shape
<1> HIDE DEF e
<1>3. /\ Len(events) \in Nat /\ Len(Append(events, e)) = Len(events) + 1
      /\ \A i \in 1..Len(events) : Append(events, e)[i] = events[i]
      /\ Append(events, e)[Len(events) + 1] = e
  BY <1>2, AppendIs
<1>4. \A i \in 1..Len(events') : i \in 1..Len(events) \/ i = Len(events) + 1
  BY <1>1, <1>3
<1>5. (1..Len(events)) \subseteq (1..Len(events')) /\ Len(events) + 1 \in 1..Len(events')
  BY <1>1, <1>3
<1>6. Logged' \subseteq Logged \cup {Hash(c)}
  BY <1>1, <1>3, <1>4 DEF Logged
<1>7. Logged \subseteq Logged'
  BY <1>1, <1>3, <1>5 DEF Logged
<1>8. Hash(c) \in Logged'
  BY <1>1, <1>3, <1>5 DEF Logged
<1> QED BY <1>6, <1>7, <1>8

LEMMA CommitNext ==
  ASSUME HonestInv, LoggedFirst, EditsCounted, Next
  PROVE  LoggedFirst' /\ EditsCounted'
<1>s. Shape
  BY DEF HonestInv
\* A step that writes no head, or GENESIS, and ends outside the head's writing.
<1>a. ASSUME NEW c \in Callers, UNCHANGED <<events, erased, lost, edits, committed>>,
             state' = state \/ state'.head = GENESIS,
             NEW label, NEW arg, NEW previous, NEW seq, Moved(c, label, arg, previous, seq),
             label \notin Heading
      PROVE  LoggedFirst'
  <2>1. At(c)' = label /\ \A d \in Callers : d # c => At(d)' = At(d) /\ Hash(d)' = Hash(d)
    BY <1>a, MovedFields
  <2>2. Logged' = Logged
    BY <1>a DEF Logged
  <2> QED BY <1>a, <2>1, <2>2 DEF LoggedFirst
<1>g. ASSUME NEW c \in Callers, UNCHANGED <<events, erased, lost, edits, committed>>,
             state' = state \/ state'.head = GENESIS,
             NEW label, Goto(c, label), label \notin Heading
      PROVE  LoggedFirst'
  BY <1>s, <1>g, <1>a, GotoMoves
<1>e. ASSUME NEW c \in Callers, UNCHANGED <<events, erased, lost, edits, committed>>,
             state' = state \/ state'.head = GENESIS, Exit(c)
      PROVE  LoggedFirst'
  <2>1. "idle" \notin Heading
    BY DEF Heading
  <2> QED BY <1>s, <1>e, <1>a, <2>1, ExitMoves
<1>1. ASSUME NEW c \in Callers, InitStep(c) PROVE LoggedFirst'
  <2>1. UNCHANGED <<events, erased, lost, edits, committed>>
    BY <1>1 DEF InitStep, CheckIdentity, OpenIdentity, FillIdentity, CheckState, OpenState,
         FillState, CheckLog, files, history
  <2>2. state' = state \/ state'.head = GENESIS
    BY <1>1 DEF InitStep, CheckIdentity, OpenIdentity, FillIdentity, CheckState, OpenState,
         FillState, CheckLog, files, EmptyState
  <2>3. Exit(c) \/ \E label \in {"st_check", "id_open", "id_fill", "st_open", "st_fill", "ev_check",
                                 "ev_open", "inited"} :
                     Goto(c, label)
    BY <1>1 DEF InitStep, CheckIdentity, OpenIdentity, FillIdentity, CheckState, OpenState,
         FillState, CheckLog, InitReturns
  <2>4. \A label \in {"st_check", "id_open", "id_fill", "st_open", "st_fill", "ev_check",
                  "ev_open", "inited"} :
          label \notin Heading
    BY DEF Heading
  <2> QED BY <1>g, <1>e, <2>1, <2>2, <2>3, <2>4
<1>2. ASSUME NEW c \in Callers, ReadHead(c) PROVE LoggedFirst'
  <2>1. UNCHANGED <<events, erased, lost, edits, committed, state>> /\ "count" \notin Heading
    BY <1>2 DEF ReadHead, files, history, Heading
  <2> QED BY <1>s, <1>2, <1>a, <2>1, ReadMoves
<1>3. ASSUME NEW c \in Callers, CountEvents(c) PROVE LoggedFirst'
  <2>1. UNCHANGED <<events, erased, lost, edits, committed, state>> /\ "append" \notin Heading
    BY <1>3 DEF CountEvents, files, history, Heading
  <2> QED BY <1>s, <1>3, <1>a, <2>1, CountMoves
<1>4. ASSUME NEW c \in Callers, AppendEvent(c) PROVE LoggedFirst'
  <2>1. UNCHANGED <<erased, lost, edits, committed, state>> /\ Goto(c, "head_open")
    BY <1>4 DEF AppendEvent, history
  <2>2. /\ Hash(c)' = Hash(c)
        /\ \A d \in Callers : d # c => At(d)' = At(d) /\ Hash(d)' = Hash(d)
    BY <1>s, <2>1, GotoMoves, MovedFields DEF Hash
  <2>3. Logged' = Logged \cup {Hash(c)}
    BY <1>s, <1>4, AppendLogs
  <2> QED BY <2>1, <2>2, <2>3 DEF LoggedFirst
<1>5. ASSUME NEW c \in Callers, OpenHead(c) PROVE LoggedFirst'
  <2>1. /\ UNCHANGED <<events, erased, lost, edits, committed>> /\ Goto(c, "head_fill")
        /\ state'.head = GENESIS /\ At(c) \in Heading
    BY <1>5 DEF OpenHead, history, EmptyState, Heading
  <2>2. /\ Hash(c)' = Hash(c)
        /\ \A d \in Callers : d # c => At(d)' = At(d) /\ Hash(d)' = Hash(d)
    BY <1>s, <2>1, GotoMoves, MovedFields DEF Hash
  <2>3. Logged' = Logged
    BY <2>1 DEF Logged
  <2> QED BY <2>1, <2>2, <2>3 DEF LoggedFirst
<1>6. ASSUME NEW c \in Callers, FillHead(c) \/ FillHeadLost(c) PROVE LoggedFirst'
  <2>1. /\ UNCHANGED <<events, erased, lost, edits>> /\ Exit(c) /\ At(c) \in Heading
        /\ committed' = committed \cup {Hash(c)}
        /\ state'.head = Hash(c) \/ state' = state
    BY <1>6 DEF FillHead, FillHeadLost, files, Heading
  <2>2. At(c)' = "idle" /\ \A d \in Callers : d # c => At(d)' = At(d) /\ Hash(d)' = Hash(d)
    BY <1>s, <2>1, ExitMoves, MovedFields
  <2>3. Logged' = Logged /\ "idle" \notin Heading
    BY <2>1 DEF Logged, Heading
  <2> QED BY <2>1, <2>2, <2>3 DEF LoggedFirst
<1>7. ASSUME NEW c \in Callers, AppendLost(c) PROVE LoggedFirst'
  BY <1>7 DEF AppendLost, LoggedFirst
<1>8. ASSUME NEW c \in Callers, CutShort(c) PROVE LoggedFirst'
  <2>1. UNCHANGED <<events, erased, lost, edits, committed, state>> /\ Exit(c)
    BY <1>8 DEF CutShort, files
  <2> QED BY <1>e, <2>1
<1>9. ASSUME NEW c \in Callers, NEW datum, Start(c, datum) PROVE LoggedFirst'
  <2>1. UNCHANGED <<events, erased, lost, edits, committed, state>> /\ "id_check" \notin Heading
    BY <1>9 DEF Start, files, Heading
  <2> QED BY <1>s, <1>9, <1>a, <2>1, StartMoves
<1>o. ASSUME NEW c \in Callers, OpenLog(c) PROVE LoggedFirst'
  <2>1. /\ UNCHANGED <<state, lost, edits, committed>> /\ events' = <<>>
        /\ erased' = erased \cup Logged /\ (Exit(c) \/ Goto(c, "inited"))
    BY <1>o DEF OpenLog, InitReturns
  <2>2. Logged' \cup erased' = Logged \cup erased
    <3>1. Len(events') = 0
      BY <2>1, EmptySeq
    <3>2. Logged' = {}
      BY <3>1 DEF Logged
    <3> QED BY <2>1, <3>2
  <2>3. At(c)' \notin Heading
    BY <1>s, <2>1, ExitMoves, GotoMoves, MovedFields DEF Heading
  <2>4. \A d \in Callers : d # c => At(d)' = At(d) /\ Hash(d)' = Hash(d)
    BY <1>s, <2>1, ExitMoves, GotoMoves, MovedFields
  <2> QED BY <2>1, <2>2, <2>3, <2>4 DEF LoggedFirst
<1>10. ASSUME NEW n, \/ DropField(n) \/ RemoveLine(n)
                     \/ \E datum \in Data \ Invalid : AlterDatum(n, datum)
       PROVE  edits' \in Nat /\ edits' # 0
  <2>1. edits' = edits + 1
    BY <1>10 DEF DropField, RemoveLine, AlterDatum, EditDone
  <2> QED BY <2>1 DEF EditsCounted
<1>11. CASE Restore
  <2>1. edits # 0 /\ edits' = edits
    BY <1>11 DEF Restore, EditsCounted
  <2> QED BY <2>1 DEF LoggedFirst, EditsCounted
<1>12. ASSUME NEW c \in Callers,
              InitStep(c) \/ OpenLog(c) \/ EventStep(c) \/ Fault(c) \/ \E datum \in Data \cup {None} : Start(c, datum)
       PROVE  EditsCounted'
  <2>1. UNCHANGED <<edits, edit>>
    BY <1>12 DEF InitStep, CheckIdentity, OpenIdentity, FillIdentity, CheckState, OpenState,
         FillState, CheckLog, OpenLog, EventStep, ReadHead, CountEvents, AppendEvent, OpenHead, FillHead,
         Fault, AppendLost, FillHeadLost, CutShort, Start
  <2> QED BY <2>1 DEF EditsCounted
<1>13. ASSUME NEW c \in Callers,
              InitStep(c) \/ OpenLog(c) \/ EventStep(c) \/ Fault(c) \/ \E datum \in Data \cup {None} : Start(c, datum)
       PROVE  LoggedFirst'
  BY <1>1, <1>2, <1>3, <1>4, <1>5, <1>6, <1>7, <1>8, <1>9, <1>o, <1>13 DEF EventStep, Fault
<1>14. ASSUME NEW n \in 1..Len(events), \/ DropField(n) \/ RemoveLine(n)
                     \/ \E datum \in Data \ Invalid : AlterDatum(n, datum)
       PROVE  LoggedFirst' /\ EditsCounted'
  BY <1>10, <1>14 DEF LoggedFirst, EditsCounted
<1> QED BY <1>11, <1>12, <1>13, <1>14 DEF Next

\* CONTINUUM_EVENT_COMMITTED is true whenever no write failed, with any number
\* of programs at a time and any of them killed, and so is the head file: what
\* is not in the log was erased by the fopen "w" of a continuum_init, which
\* takes two programs that overlap.
THEOREM AnnouncedIsLogged == Spec => []CommittedIsLogged
<1>1. Init => BookInv /\ LoggedFirst /\ EditsCounted
  <2>1. ASSUME Init PROVE LoggedFirst /\ EditsCounted
    <3>1. \A c \in Callers : At(c) \notin Heading
      BY <2>1 DEF Init, At, NoProgram, Heading
    <3> QED BY <2>1, <3>1 DEF Init, LoggedFirst, EditsCounted, NoEdit
  <2> QED BY <2>1, BookInit
<1>2. BookInv /\ LoggedFirst /\ EditsCounted /\ [Next]_vars
        => (BookInv /\ LoggedFirst /\ EditsCounted)'
  <2>1. ASSUME LoggedFirst, EditsCounted, UNCHANGED vars PROVE LoggedFirst' /\ EditsCounted'
    BY <2>1 DEF LoggedFirst, EditsCounted, Logged, vars, files, history, At, Hash
  <2> QED BY <2>1, BookNext, CommitNext DEF BookInv
<1>3. BookInv /\ LoggedFirst => CommittedIsLogged
  BY DEF LoggedFirst, CommittedIsLogged, BookInv, LogInv
<1> QED BY <1>1, <1>2, <1>3, PTL DEF Spec
-----------------------------------------------------------------------------
\* How an edit shows in the log, whatever is appended after it.
EditKinds == {"none", "datum", "field", "line"}
EditShows ==
  /\ edit.kind = "none" => edit = NoEdit
  /\ edit.kind # "none" => edit.at \in 1..Len(events)
  /\ edit.kind = "datum" =>
       events[edit.at].fields = FIELDS /\ events[edit.at].datum # edit.line.datum
  /\ edit.kind = "field" => events[edit.at].fields < FIELDS
  /\ edit.kind = "line" =>
       /\ events[edit.at].fields = FIELDS /\ events[edit.at].sequence # edit.at
       /\ \A n \in 1..(edit.at - 1) : Failure(events, n) = "none"
EditInv == edit.kind \in EditKinds /\ (Orderly => EditShows)

\* Lines that commands wrote and nobody changed pass every test of verify.
LEMMA IntactPasses ==
  ASSUME NEW f, NEW n, Intact(f[n]), f[n].sequence = n, f[n].previous = Predecessor(f, n)
  PROVE  Failure(f, n) = "none"
<1>1. ~(FIELDS < FIELDS) /\ ~(FIELDS > FIELDS)
  BY DEF FIELDS
<1> QED BY <1>1 DEF Failure, Intact

\* An append leaves the edited line and the verdicts before it alone.
LEMMA AppendEditInv ==
  ASSUME Shape, EditInv, NEW c \in Callers, AppendEvent(c)
  PROVE  EditInv'
<1> DEFINE e == Line(c)
<1>1. events' = Append(events, e) /\ UNCHANGED <<edit, overlap, torn, lost>>
  BY DEF AppendEvent, history
<1>2. PICK S : events \in Seq(S)
  BY DEF Shape
<1> HIDE DEF e
<1>3. /\ Len(events) \in Nat /\ Len(events') = Len(events) + 1
      /\ \A i \in 1..Len(events) : events'[i] = events[i]
  BY <1>1, <1>2, AppendIs
<1>4. \A n \in 1..Len(events) : Failure(events', n) = Failure(events, n)
  <2>1. \A n \in 1..Len(events) : Predecessor(events', n) = Predecessor(events, n)
    BY <1>3 DEF Predecessor
  <2> QED BY <1>3, <2>1 DEF Failure
<1>5. ASSUME Orderly' PROVE EditShows'
  <2>1. EditShows
    BY <1>1, <1>5 DEF EditInv, Orderly
  <2>2. edit.kind # "none" => edit.at \in 1..Len(events) /\ edit.at \in 1..Len(events')
    BY <1>3, <2>1 DEF EditShows
  <2>3. edit.kind # "none" => events'[edit.at] = events[edit.at]
    BY <1>3, <2>2
  <2>4. edit.kind = "line" => \A n \in 1..(edit.at - 1) : Failure(events', n) = "none"
    <3>1. edit.kind = "line" => \A n \in 1..(edit.at - 1) : n \in 1..Len(events)
      BY <1>3, <2>2
    <3> QED BY <1>4, <2>1, <3>1 DEF EditShows
  <2> QED BY <1>1, <2>1, <2>2, <2>3, <2>4 DEF EditShows
<1> QED BY <1>1, <1>5 DEF EditInv

\* An edit of an honest log leaves its mark.
LEMMA EditEditInv ==
  ASSUME HonestInv, EditInv, NEW n \in 1..Len(events),
         DropField(n) \/ RemoveLine(n) \/ \E datum \in Data \ Invalid : AlterDatum(n, datum)
  PROVE  EditInv'
<1>s. Shape /\ IsLine(events[n])
  BY DEF HonestInv, Shape
<1>e. PICK S : events \in Seq(S)
  BY <1>s DEF Shape
<1>n. Len(events) \in Nat
  BY <1>e, LenProperties
<1>q. edit = NoEdit /\ edit.kind = "none" /\ edit.at = 0
  BY DEF DropField, RemoveLine, AlterDatum, MayEdit, NoEdit
<1>u. UNCHANGED <<overlap, torn, lost>>
  BY DEF DropField, RemoveLine, AlterDatum, EditDone, history
<1>c. ASSUME Orderly'
      PROVE  \A m \in 1..Len(events) :
               /\ Intact(events[m]) /\ events[m].sequence = m
               /\ events[m].previous = Predecessor(events, m)
  <2>1. Good
    BY <1>c, <1>u, <1>q DEF Good, Orderly
  <2> QED BY <1>q, <2>1 DEF HonestInv, ChainInv
<1>1. ASSUME NEW kind \in EditKinds, EditDone(kind, n)
      PROVE  edit'.kind = kind /\ edit'.at = n /\ edit'.line = events[n]
  BY <1>1 DEF EditDone
<1>2. CASE DropField(n)
  <2> DEFINE line == WithFields(events[n], events[n].fields - 1)
  <2>1. events' = [events EXCEPT ![n] = line] /\ EditDone("field", n)
    BY <1>2 DEF DropField, WithFields
  <2>2. line.fields = events[n].fields - 1
    BY <1>s, LineExcept
  <2> HIDE DEF line
  <2>3. Len(events') = Len(events) /\ events'[n] = line
    BY <1>e, <2>1, ExceptIs
  <2>4. edit'.kind = "field" /\ edit'.at = n
    BY <1>1, <2>1 DEF EditKinds
  <2>5. Orderly' => events'[n].fields < FIELDS
    BY <1>c, <2>2, <2>3 DEF Intact, FIELDS
  <2> QED BY <2>3, <2>4, <2>5 DEF EditInv, EditShows, EditKinds
<1>3. CASE \E datum \in Data \ Invalid : AlterDatum(n, datum)
  <2>p. PICK datum : AlterDatum(n, datum)
    BY <1>3
  <2> DEFINE line == WithDatum(events[n], datum)
  <2>1. /\ events' = [events EXCEPT ![n] = line] /\ EditDone("datum", n)
        /\ datum # events[n].datum
    BY <2>p DEF AlterDatum, WithDatum
  <2>2. line.fields = events[n].fields /\ line.datum = datum
    BY <1>s, LineExcept
  <2> HIDE DEF line
  <2>3. Len(events') = Len(events) /\ events'[n] = line
    BY <1>e, <2>1, ExceptIs
  <2>4. edit'.kind = "datum" /\ edit'.at = n /\ edit'.line = events[n]
    BY <1>1, <2>1 DEF EditKinds
  <2>5. Orderly' => events'[n].fields = FIELDS
    BY <1>c, <2>2, <2>3 DEF Intact
  <2> QED BY <2>1, <2>2, <2>3, <2>4, <2>5 DEF EditInv, EditShows, EditKinds
<1>4. CASE RemoveLine(n)
  <2>1. events' = RemoveAt(events, n) /\ EditDone("line", n) /\ n < Len(events)
    BY <1>4 DEF RemoveLine
  <2>2. edit'.kind = "line" /\ edit'.at = n
    BY <1>1, <2>1 DEF EditKinds
  <2>3. /\ Len(events') = Len(events) - 1
        /\ \A j \in 1..(Len(events) - 1) :
             events'[j] = IF j < n THEN events[j] ELSE events[j + 1]
    BY <1>e, <2>1, RemoveIs
  <2>4. n \in 1..Len(events') /\ n \in 1..(Len(events) - 1) /\ n + 1 \in 1..Len(events)
    BY <1>n, <2>1, <2>3
  <2>5. events'[n] = events[n + 1]
    BY <2>3, <2>4
  <2>6. ASSUME Orderly' PROVE events'[n].fields = FIELDS /\ events'[n].sequence # n
    <3>1. events'[n].fields = FIELDS /\ events'[n].sequence = n + 1
      BY <1>c, <2>4, <2>5, <2>6 DEF Intact
    <3> QED BY <3>1
  <2>7. ASSUME Orderly', NEW m \in 1..(n - 1) PROVE Failure(events', m) = "none"
    <3>1. m \in 1..(Len(events) - 1) /\ m \in 1..Len(events) /\ m < n
      BY <1>n, <2>1
    <3>2. events'[m] = events[m]
      BY <2>3, <3>1
    <3>3. m # 1 => m - 1 \in 1..(Len(events) - 1) /\ m - 1 < n
      BY <1>n, <2>1
    <3>4. Predecessor(events', m) = Predecessor(events, m)
      BY <2>3, <3>3 DEF Predecessor
    <3>5. /\ Intact(events'[m]) /\ events'[m].sequence = m
          /\ events'[m].previous = Predecessor(events', m)
      BY <1>c, <2>7, <3>1, <3>2, <3>4
    <3> QED BY <3>5, IntactPasses
  <2> QED BY <2>2, <2>4, <2>6, <2>7 DEF EditInv, EditShows, EditKinds
<1> QED BY <1>2, <1>3, <1>4

LEMMA EditInvNext ==
  ASSUME HonestInv, LogInv, EditInv, [Next]_vars
  PROVE  EditInv'
<1>s. Shape
  BY DEF HonestInv
<1>1. ASSUME UNCHANGED <<events, edit>>, Orderly' => Orderly PROVE EditInv'
  BY <1>1 DEF EditInv, EditShows, Failure, Predecessor
<1>2. ASSUME NEW c \in Callers, InitStep(c) \/ Fault(c) PROVE EditInv'
  <2>1. UNCHANGED <<events, edit, overlap>>
    BY <1>2 DEF InitStep, CheckIdentity, OpenIdentity, FillIdentity, CheckState, OpenState,
         FillState, CheckLog, Fault, AppendLost, FillHeadLost, CutShort, files, history
  <2>2. CASE InitStep(c)
    <3>1. UNCHANGED <<lost, torn>>
      BY <2>2 DEF InitStep, CheckIdentity, OpenIdentity, FillIdentity, CheckState, OpenState,
         FillState, CheckLog, history
    <3> QED BY <1>1, <2>1, <3>1 DEF Orderly
  <2>3. CASE Fault(c)
    <3>1. lost' \/ UNCHANGED lost
      BY <2>3 DEF Fault, AppendLost, FillHeadLost, CutShort
    <3>2. torn => torn'
      <4>1. CASE AppendLost(c)
        BY <4>1 DEF AppendLost
      <4>2. CASE FillHeadLost(c)
        BY <4>2 DEF FillHeadLost
      <4>3. CASE CutShort(c)
        BY <4>3 DEF CutShort
      <4> QED BY <2>3, <4>1, <4>2, <4>3 DEF Fault
    <3> QED BY <1>1, <2>1, <3>1, <3>2 DEF Orderly
  <2> QED BY <1>2, <2>2, <2>3
<1>3. ASSUME NEW c \in Callers, EventStep(c) PROVE EditInv'
  <2>1. CASE AppendEvent(c)
    BY <1>s, <2>1, AppendEditInv
  <2>2. CASE ReadHead(c) \/ CountEvents(c) \/ OpenHead(c) \/ FillHead(c)
    <3>1. UNCHANGED <<events, edit, overlap, lost, torn>>
      BY <2>2 DEF ReadHead, CountEvents, OpenHead, FillHead, files, history
    <3> QED BY <1>1, <3>1 DEF Orderly
  <2> QED BY <1>3, <2>1, <2>2 DEF EventStep
<1>o. ASSUME NEW c \in Callers, OpenLog(c) PROVE EditInv'
  <2>1. UNCHANGED edit /\ edit.kind = "none"
    BY <1>o DEF OpenLog, LogInv
  <2>2. Orderly' => Orderly
    BY <1>o DEF OpenLog, Orderly
  <2> QED BY <2>1, <2>2 DEF EditInv, EditShows
<1>4. ASSUME NEW c \in Callers, NEW datum, Start(c, datum) PROVE EditInv'
  <2>1. UNCHANGED <<events, edit, torn, lost>> /\ (overlap => overlap')
    BY <1>4 DEF Start, files
  <2> QED BY <1>1, <2>1 DEF Orderly
<1>5. CASE Restore
  <2>1. edit' = NoEdit /\ edit'.kind = "none"
    BY <1>5 DEF Restore, NoEdit
  <2> QED BY <2>1 DEF EditInv, EditShows, EditKinds
<1>6. CASE UNCHANGED vars
  BY <1>1, <1>6 DEF vars, files, history, Orderly
<1> QED BY <1>2, <1>3, <1>4, <1>5, <1>6, <1>o, EditEditInv DEF Next

\* The first line that fails is the one that verify names.
LEMMA FirstIsNamed ==
  ASSUME NEW f, NEW k \in 1..Len(f), Len(f) \in Nat, Failure(f, k) # "none",
         \A n \in 1..(k - 1) : Failure(f, n) = "none"
  PROVE  continuum_verify(TRUE, f) =
           [result |-> Failure(f, k),
            number |-> IF Failure(f, k) = "HASH_MISMATCH" THEN k ELSE 0]
<1> DEFINE bad == {n \in 1..Len(f) : Failure(f, n) # "none"}
           first == CHOOSE n \in bad : \A m \in bad : n <= m
<1>1. k \in bad
  OBVIOUS
<1>2. \A m \in bad : k <= m
  <2> SUFFICES ASSUME NEW m \in 1..Len(f), Failure(f, m) # "none" PROVE k <= m
    OBVIOUS
  <2>1. m \notin 1..(k - 1)
    OBVIOUS
  <2> QED BY <2>1
<1>3. \A m \in bad : m \in Int
  OBVIOUS
<1> HIDE DEF bad
<1>4. first \in bad /\ \A m \in bad : first <= m
  BY <1>1, <1>2
<1>6. bad # {}
  BY <1>1
<1>7. continuum_verify(TRUE, f) =
        IF bad = {} THEN [result |-> "VERIFIED", number |-> Len(f)]
        ELSE [result |-> Failure(f, first),
              number |-> IF Failure(f, first) = "HASH_MISMATCH" THEN first ELSE 0]
  BY DEF continuum_verify, bad
<1> HIDE DEF first
<1>5. first = k
  <2>1. first <= k /\ k <= first /\ first \in Int /\ k \in Int
    BY <1>1, <1>2, <1>3, <1>4
  <2> QED BY <2>1
<1> QED BY <1>5, <1>6, <1>7

LEMMA EditIsNamed == BookInv /\ EditInv => AlterationIdentified
<1> SUFFICES ASSUME HonestInv, LogInv, EditInv, Orderly, edit # NoEdit
             PROVE  continuum_verify(log_exists, events) =
                      CASE edit.kind = "datum" -> [result |-> "HASH_MISMATCH", number |-> edit.at]
                        [] edit.kind = "field" -> [result |-> "INVALID_EVENT_FORMAT", number |-> 0]
                        [] edit.kind = "line"  -> [result |-> "SEQUENCE_GAP", number |-> 0]
  BY DEF AlterationIdentified, BookInv
<1>0. PICK k : k = edit.at
  OBVIOUS
<1>1. EditShows /\ edit.kind \in {"datum", "field", "line"} /\ k \in 1..Len(events)
  BY <1>0 DEF EditInv, EditShows, EditKinds
<1>2. Len(events) \in Nat
  BY LenProperties DEF HonestInv, Shape
<1>l. log_exists = TRUE
  BY <1>1 DEF LogInv
<1>3. ASSUME edit.kind # "line"
      PROVE  /\ \A n \in 1..(k - 1) : Failure(events, n) = "none"
             /\ events[k].sequence = k /\ events[k].previous = Predecessor(events, k)
             /\ Undoable
  <2>1. ChainInv
    BY <1>3 DEF HonestInv, Good
  <2>2. \A n \in 1..(k - 1) : n \in 1..Len(events) /\ n # k
    BY <1>1, <1>2
  <2>3. \A n \in 1..(k - 1) : Failure(events, n) = "none"
    BY <1>0, <2>1, <2>2, IntactPasses DEF ChainInv
  <2> QED BY <1>1, <2>1, <2>3 DEF ChainInv
<1>f. ~(FIELDS < FIELDS) /\ ~(FIELDS > FIELDS)
  BY DEF FIELDS
<1>4. CASE edit.kind = "datum"
  <2>1. /\ events[k].fields = FIELDS /\ events[k].datum # edit.line.datum
        /\ events[k].hash = edit.line.hash
        /\ edit.line.hash = sha256_hex(edit.line.sequence, edit.line.datum, edit.line.previous)
    BY <1>0, <1>1, <1>3, <1>4 DEF EditShows, Undoable, Intact
  <2>2. events[k].hash # sha256_hex(events[k].sequence, events[k].datum, events[k].previous)
    BY <2>1 DEF sha256_hex
  <2>3. Failure(events, k) = "HASH_MISMATCH"
    BY <1>3, <1>4, <1>f, <2>1, <2>2 DEF Failure
  <2> QED BY <1>0, <1>l, <1>1, <1>2, <1>3, <1>4, <2>3, FirstIsNamed
<1>5. CASE edit.kind = "field"
  <2>1. Failure(events, k) = "INVALID_EVENT_FORMAT"
    BY <1>0, <1>1, <1>5 DEF EditShows, Failure
  <2> QED BY <1>0, <1>l, <1>1, <1>2, <1>3, <1>5, <2>1, FirstIsNamed
<1>6. CASE edit.kind = "line"
  <2>1. Failure(events, k) = "SEQUENCE_GAP"
    BY <1>0, <1>1, <1>6, <1>f DEF EditShows, Failure
  <2> QED BY <1>0, <1>l, <1>1, <1>2, <1>6, <2>1, FirstIsNamed DEF EditShows
<1> QED BY <1>1, <1>4, <1>5, <1>6

\* continuum_verify fails on a log that one command at a time wrote and somebody
\* edited, whatever was appended since: with the number of the event whose text
\* was altered, and with the kind of failure for a missing field or line.
THEOREM AlterationIsNamed == Spec => []AlterationIdentified
<1>1. Init => BookInv /\ EditInv
  <2>1. Init => edit = NoEdit /\ edit.kind = "none"
    BY DEF Init, NoEdit
  <2> QED BY <2>1, BookInit DEF EditInv, EditShows, EditKinds
<1>2. BookInv /\ EditInv /\ [Next]_vars => (BookInv /\ EditInv)'
  BY BookNext, EditInvNext DEF BookInv
<1> QED BY <1>1, <1>2, EditIsNamed, PTL DEF Spec
-----------------------------------------------------------------------------
\* Types: the number is counted before the line is written, only an event that
\* has fields is written, and a field is missing in the edited line alone.
LineType(l) == l.fields = FIELDS /\ l.sequence \in Nat \ {0} /\ l.datum \in Data

FilesType ==
  /\ made \in Nat /\ identity.exists \in BOOLEAN /\ identity.id \in 0..made
  /\ identity.id > 0 => identity.exists
  /\ state.state \in {"absent", "empty", "INITIALIZED", "ACTIVE"} /\ state.sequence \in Nat

ProgType ==
  \A c \in Callers :
    /\ At(c) \in PCs /\ prog[c].arg \in Data \cup {None} /\ prog[c].sequence \in Nat
    /\ At(c) \in Eventing => prog[c].arg \in Data
    /\ At(c) = "append" => prog[c].sequence # 0

LogType ==
  /\ edit.kind \in EditKinds /\ (edit.kind = "none" => edit = NoEdit)
  /\ edit.kind # "none" => edit.at \in 1..Len(events)
  /\ edit.kind \in {"datum", "field"} => LineType(edit.line)
  /\ \A n \in 1..Len(events) :
       LineType(events[n])
         \/ (edit.kind = "field" /\ n = edit.at
               /\ events[n].fields = FIELDS - 1
               /\ events[n].sequence \in Nat \ {0} /\ events[n].datum \in Data)

CountType == faults \in 0..MaxFaults /\ edits \in 0..MaxEdits

TypeInv == FilesType /\ ProgType /\ LogType /\ CountType

LEMMA TypeInit == Init => TypeInv
<1> SUFFICES ASSUME Init PROVE TypeInv
  OBVIOUS
<1>1. FilesType
  <2>1. identity.exists = FALSE /\ identity.id = 0 /\ made = 0
        /\ state.state = "absent" /\ state.sequence = 0
    BY DEF Init
  <2>2. identity.exists \in BOOLEAN
    BY <2>1
  <2> QED BY <2>1, <2>2 DEF FilesType
<1>2. ProgType
  <2>1. \A c \in Callers : At(c) = "idle" /\ prog[c].arg = None /\ prog[c].sequence = 0
    BY DEF Init, At, NoProgram
  <2> QED BY <2>1 DEF ProgType, PCs, Eventing
<1>3. LogType
  <2>1. edit = NoEdit /\ edit.kind = "none" /\ Len(events) = 0
    BY EmptySeq DEF Init, NoEdit
  <2> QED BY <2>1 DEF LogType, EditKinds
<1>4. CountType
  BY BoundsAssumption DEF Init, CountType
<1> QED BY <1>1, <1>2, <1>3, <1>4 DEF TypeInv

\* The table of programs after the step of one of them.
LEMMA ProgTypeStays ==
  ASSUME ProgType, NEW c \in Callers, NEW label, NEW arg, NEW previous, NEW seq,
         Moved(c, label, arg, previous, seq),
         label \in PCs, arg \in Data \cup {None}, seq \in Nat,
         label \in Eventing => arg \in Data, label = "append" => seq # 0
  PROVE  ProgType'
<1>1. At(c)' = label /\ prog'[c].arg = arg /\ prog'[c].sequence = seq
  BY MovedFields
<1>2. \A d \in Callers : d # c => prog'[d] = prog[d] /\ At(d)' = At(d)
  BY MovedFields
<1>3. ASSUME NEW d \in Callers
      PROVE  /\ At(d)' \in PCs /\ prog'[d].arg \in Data \cup {None} /\ prog'[d].sequence \in Nat
             /\ At(d)' \in Eventing => prog'[d].arg \in Data
             /\ At(d)' = "append" => prog'[d].sequence # 0
  <2>1. CASE d = c
    BY <1>1, <2>1
  <2>2. CASE d # c
    BY <1>2, <2>2 DEF ProgType
  <2> QED BY <2>1, <2>2
<1> QED BY <1>3 DEF ProgType

LEMMA ProgTypeNext ==
  ASSUME Shape, ProgType, Next
  PROVE  ProgType'
<1>t. \A c \in Callers :
        /\ At(c) \in PCs /\ prog[c].arg \in Data \cup {None} /\ prog[c].sequence \in Nat
        /\ At(c) \in Eventing => prog[c].arg \in Data
        /\ At(c) = "append" => prog[c].sequence # 0
  BY DEF ProgType
<1>g. ASSUME NEW c \in Callers, NEW label \in PCs, Goto(c, label), label # "append",
             label \in Eventing => prog[c].arg \in Data
      PROVE  ProgType'
  BY <1>t, <1>g, GotoMoves, ProgTypeStays
<1>e. ASSUME NEW c \in Callers, Exit(c) PROVE ProgType'
  <2>1. "idle" \in PCs /\ "idle" \notin Eventing
    BY DEF PCs, Eventing
  <2> QED BY <1>e, <2>1, ExitMoves, ProgTypeStays
<1>1. ASSUME NEW c \in Callers, InitStep(c) \/ OpenLog(c) PROVE ProgType'
  <2>1. \/ Exit(c)
        \/ Goto(c, "inited") /\ prog[c].arg # None
        \/ \E label \in {"st_check", "id_open", "id_fill", "st_open", "st_fill", "ev_check",
                         "ev_open"} : Goto(c, label)
    BY <1>1 DEF InitStep, CheckIdentity, OpenIdentity, FillIdentity, CheckState, OpenState,
         FillState, CheckLog, OpenLog, InitReturns
  <2>2. \A label \in {"st_check", "id_open", "id_fill", "st_open", "st_fill", "ev_check", "ev_open"} :
          label \in PCs /\ label \notin Eventing /\ label # "append"
    BY DEF PCs, Eventing
  <2>3. "inited" \in PCs
    BY DEF PCs
  <2> QED BY <1>t, <1>g, <1>e, <2>1, <2>2, <2>3
<1>2. ASSUME NEW c \in Callers, ReadHead(c) \/ CountEvents(c) PROVE ProgType'
  <2>1. prog[c].arg \in Data /\ Len(events) + 1 \in Nat \ {0} /\ "count" \in PCs /\ "append" \in PCs
    <3>1. Len(events) \in Nat
      BY LenProperties DEF Shape
    <3>2. At(c) \in Eventing
      BY <1>2 DEF ReadHead, CountEvents, Eventing
    <3> QED BY <1>t, <3>1, <3>2 DEF PCs
  <2>2. CASE ReadHead(c)
    BY <1>t, <2>1, <2>2, ReadMoves, ProgTypeStays
  <2>3. CASE CountEvents(c)
    BY <1>t, <2>1, <2>3, CountMoves, ProgTypeStays
  <2> QED BY <1>2, <2>2, <2>3
<1>3. ASSUME NEW c \in Callers, AppendEvent(c) \/ OpenHead(c) \/ FillHead(c) \/ Fault(c)
      PROVE  ProgType'
  <2>1. \/ Exit(c)
        \/ (Goto(c, "head_open") \/ Goto(c, "head_fill")) /\ At(c) \in Eventing
    BY <1>3 DEF AppendEvent, OpenHead, FillHead, Fault, AppendLost, FillHeadLost, CutShort, Eventing
  <2>2. "head_open" \in PCs /\ "head_fill" \in PCs
    BY DEF PCs
  <2> QED BY <1>t, <1>g, <1>e, <2>1, <2>2
<1>4. ASSUME NEW c \in Callers, NEW datum \in Data \cup {None}, Start(c, datum) PROVE ProgType'
  <2>1. "id_check" \in PCs /\ "id_check" \notin Eventing
    BY DEF PCs, Eventing
  <2> QED BY <1>t, <1>4, <2>1, StartMoves, ProgTypeStays
<1>5. ASSUME NEW n, \/ DropField(n) \/ RemoveLine(n) \/ Restore
                    \/ \E datum \in Data \ Invalid : AlterDatum(n, datum)
      PROVE  ProgType'
  <2>1. UNCHANGED prog
    BY <1>5 DEF DropField, RemoveLine, Restore, AlterDatum, EditDone
  <2> QED BY <2>1 DEF ProgType, At
<1> QED BY <1>1, <1>2, <1>3, <1>4, <1>5 DEF Next, EventStep

LEMMA FilesTypeNext ==
  ASSUME FilesType, ProgType, Next
  PROVE  FilesType'
<1>u. ASSUME UNCHANGED <<identity, made, state>> PROVE FilesType'
  BY <1>u DEF FilesType
<1>w. ASSUME UNCHANGED <<identity, made>>, state'.sequence \in Nat,
             state'.state \in {"absent", "empty", "INITIALIZED", "ACTIVE"}
      PROVE  FilesType'
  BY <1>w DEF FilesType
<1>1. ASSUME NEW c \in Callers, OpenIdentity(c) PROVE FilesType'
  <2>1. identity'.exists = TRUE /\ identity'.id = 0 /\ UNCHANGED <<made, state>>
    BY <1>1 DEF OpenIdentity
  <2>2. identity'.exists \in BOOLEAN /\ identity'.exists
    BY <2>1
  <2> QED BY <2>1, <2>2 DEF FilesType
<1>2. ASSUME NEW c \in Callers, FillIdentity(c) PROVE FilesType'
  <2>1. /\ identity'.exists = TRUE /\ identity'.id = made + 1 /\ made' = made + 1
        /\ UNCHANGED state
    BY <1>2 DEF FillIdentity
  <2>2. identity'.exists \in BOOLEAN /\ identity'.exists
    BY <2>1
  <2> QED BY <2>1, <2>2 DEF FilesType
<1>3. ASSUME NEW c \in Callers, OpenState(c) \/ FillState(c) \/ OpenHead(c) \/ FillHead(c)
      PROVE  FilesType'
  <2>1. UNCHANGED <<identity, made>>
    BY <1>3 DEF OpenState, FillState, OpenHead, FillHead
  <2>2. /\ state'.sequence = 0 \/ state'.sequence = prog[c].sequence
        /\ state'.state \in {"empty", "INITIALIZED", "ACTIVE"}
    BY <1>3 DEF OpenState, FillState, OpenHead, FillHead, EmptyState
  <2>3. state'.sequence \in Nat
    BY <2>2 DEF ProgType
  <2> QED BY <1>w, <2>1, <2>2, <2>3
<1>4. ASSUME NEW c \in Callers, \/ CheckIdentity(c) \/ CheckState(c) \/ ReadHead(c)
                                \/ CheckLog(c) \/ OpenLog(c)
                                \/ CountEvents(c) \/ AppendEvent(c) \/ Fault(c)
                                \/ \E datum \in Data \cup {None} : Start(c, datum)
      PROVE  FilesType'
  <2>1. UNCHANGED <<identity, made, state>>
    BY <1>4 DEF CheckIdentity, CheckState, CheckLog, OpenLog, ReadHead, CountEvents, AppendEvent, Fault,
         AppendLost, FillHeadLost, CutShort, Start, files
  <2> QED BY <1>u, <2>1
<1>5. ASSUME NEW n, \/ DropField(n) \/ RemoveLine(n) \/ Restore
                    \/ \E datum \in Data \ Invalid : AlterDatum(n, datum)
      PROVE  FilesType'
  <2>1. UNCHANGED <<identity, made, state>>
    BY <1>5 DEF DropField, RemoveLine, Restore, AlterDatum, EditDone
  <2> QED BY <1>u, <2>1
<1> QED BY <1>1, <1>2, <1>3, <1>4, <1>5 DEF Next, InitStep, EventStep

LEMMA AppendLogType ==
  ASSUME Shape, ProgType, LogType, NEW c \in Callers, AppendEvent(c)
  PROVE  LogType'
<1> DEFINE e == Line(c)
<1>1. events' = Append(events, e) /\ UNCHANGED edit /\ At(c) = "append"
  BY DEF AppendEvent
<1>2. PICK S : events \in Seq(S)
  BY DEF Shape
<1>3. LineType(e)
  <2>1. At(c) \in Eventing /\ prog[c].arg \notin Invalid
    BY <1>1 DEF Shape, Eventing, At
  <2>2. prog[c].arg \in Data /\ prog[c].sequence \in Nat \ {0}
    BY <1>1, <2>1 DEF ProgType
  <2> QED BY <2>1, <2>2 DEF LineType, Line
<1> HIDE DEF e
<1>4. /\ Len(events) \in Nat /\ Len(events') = Len(events) + 1
      /\ \A i \in 1..Len(events) : events'[i] = events[i]
      /\ events'[Len(events) + 1] = e
  BY <1>1, <1>2, AppendIs
<1>5. \A n \in 1..Len(events') : n \in 1..Len(events) \/ n = Len(events) + 1
  BY <1>4
<1>6. edit.kind # "none" => edit.at \in 1..Len(events')
  BY <1>4 DEF LogType
<1> QED BY <1>1, <1>3, <1>4, <1>5, <1>6 DEF LogType

LEMMA EditLogType ==
  ASSUME Shape, LogType, NEW n \in 1..Len(events),
         DropField(n) \/ RemoveLine(n) \/ \E datum \in Data \ Invalid : AlterDatum(n, datum)
  PROVE  LogType'
<1>s. IsLine(events[n])
  BY DEF Shape
<1>e. PICK S : events \in Seq(S)
  BY DEF Shape
<1>n. Len(events) \in Nat
  BY <1>e, LenProperties
<1>q. edit.kind = "none"
  BY DEF DropField, RemoveLine, AlterDatum, MayEdit, NoEdit
<1>t. \A m \in 1..Len(events) : LineType(events[m])
  BY <1>q DEF LogType
<1>1. ASSUME NEW kind \in EditKinds, EditDone(kind, n)
      PROVE  edit'.kind = kind /\ edit'.at = n /\ edit'.line = events[n]
  BY <1>1 DEF EditDone
<1>2. CASE DropField(n)
  <2> DEFINE line == WithFields(events[n], events[n].fields - 1)
  <2>1. events' = [events EXCEPT ![n] = line] /\ EditDone("field", n)
    BY <1>2 DEF DropField, WithFields
  <2>2. line.fields = events[n].fields - 1 /\ line.sequence = events[n].sequence
        /\ line.datum = events[n].datum
    BY <1>s, LineExcept
  <2> HIDE DEF line
  <2>3. /\ Len(events') = Len(events)
        /\ \A m \in 1..Len(events) : events'[m] = IF m = n THEN line ELSE events[m]
    BY <1>e, <2>1, ExceptIs
  <2>4. edit'.kind = "field" /\ edit'.at = n /\ edit'.line = events[n]
    BY <1>1, <2>1 DEF EditKinds
  <2>5. /\ line.fields = FIELDS - 1 /\ line.sequence \in Nat \ {0} /\ line.datum \in Data
    BY <1>t, <2>2 DEF LineType
  <2>6. edit'.kind \in EditKinds /\ edit'.kind # "none"
    BY <2>4 DEF EditKinds
  <2> QED BY <1>t, <2>3, <2>4, <2>5, <2>6 DEF LogType
<1>3. CASE \E datum \in Data \ Invalid : AlterDatum(n, datum)
  <2>p. PICK datum \in Data : AlterDatum(n, datum)
    BY <1>3
  <2> DEFINE line == WithDatum(events[n], datum)
  <2>1. events' = [events EXCEPT ![n] = line] /\ EditDone("datum", n)
    BY <2>p DEF AlterDatum, WithDatum
  <2>2. line.fields = events[n].fields /\ line.sequence = events[n].sequence /\ line.datum = datum
    BY <1>s, LineExcept
  <2> HIDE DEF line
  <2>3. /\ Len(events') = Len(events)
        /\ \A m \in 1..Len(events) : events'[m] = IF m = n THEN line ELSE events[m]
    BY <1>e, <2>1, ExceptIs
  <2>4. edit'.kind = "datum" /\ edit'.at = n /\ edit'.line = events[n]
    BY <1>1, <2>1 DEF EditKinds
  <2>5. LineType(line)
    BY <1>t, <2>2 DEF LineType
  <2>6. edit'.kind \in EditKinds /\ edit'.kind # "none"
    BY <2>4 DEF EditKinds
  <2>7. \A m \in 1..Len(events') : LineType(events'[m])
    BY <1>t, <2>3, <2>5
  <2> QED BY <1>t, <2>3, <2>4, <2>6, <2>7 DEF LogType
<1>4. CASE RemoveLine(n)
  <2>1. events' = RemoveAt(events, n) /\ EditDone("line", n) /\ n < Len(events)
    BY <1>4 DEF RemoveLine
  <2>2. edit'.kind = "line" /\ edit'.at = n
    BY <1>1, <2>1 DEF EditKinds
  <2>3. /\ Len(events') = Len(events) - 1
        /\ \A j \in 1..(Len(events) - 1) :
             events'[j] = IF j < n THEN events[j] ELSE events[j + 1]
    BY <1>e, <2>1, RemoveIs
  <2>4. ASSUME NEW j \in 1..Len(events') PROVE LineType(events'[j])
    <3>1. j \in 1..Len(events) /\ j + 1 \in 1..Len(events) /\ j \in 1..(Len(events) - 1)
      BY <1>n, <2>3
    <3> QED BY <1>t, <2>3, <3>1
  <2>5. n \in 1..Len(events')
    BY <1>n, <2>1, <2>3
  <2>6. edit'.kind \in EditKinds /\ edit'.kind # "none" /\ edit'.kind \notin {"datum", "field"}
    BY <2>2 DEF EditKinds
  <2> QED BY <2>2, <2>4, <2>5, <2>6 DEF LogType
<1> QED BY <1>2, <1>3, <1>4

LEMMA LogTypeNext ==
  ASSUME Shape, LogInv, ProgType, LogType, Next
  PROVE  LogType'
<1>1. ASSUME UNCHANGED <<events, edit>> PROVE LogType'
  BY <1>1 DEF LogType
<1>2. ASSUME NEW c \in Callers, \/ InitStep(c) \/ ReadHead(c) \/ CountEvents(c) \/ OpenHead(c)
                                \/ FillHead(c) \/ Fault(c)
                                \/ \E datum \in Data \cup {None} : Start(c, datum)
      PROVE  UNCHANGED <<events, edit>>
  BY <1>2 DEF InitStep, CheckIdentity, OpenIdentity, FillIdentity, CheckState, OpenState,
       FillState, CheckLog, ReadHead, CountEvents, OpenHead, FillHead, Fault, AppendLost,
       FillHeadLost, CutShort, Start, files
<1>3. CASE Restore
  <2>1. /\ edit.kind \in {"datum", "field"} /\ edit' = NoEdit /\ edit'.kind = "none"
        /\ events' = [events EXCEPT ![edit.at] = edit.line]
    BY <1>3 DEF Restore, NoEdit
  <2>2. edit.at \in 1..Len(events) /\ LineType(edit.line)
    BY <2>1 DEF LogType
  <2>3. PICK k, line : k = edit.at /\ line = edit.line
    OBVIOUS
  <2>4. /\ Len(events') = Len(events)
        /\ \A m \in 1..Len(events) : events'[m] = IF m = k THEN line ELSE events[m]
    BY <2>1, <2>2, <2>3, ExceptIs DEF Shape
  <2>5. \A m \in 1..Len(events') : LineType(events'[m])
    BY <2>2, <2>3, <2>4 DEF LogType
  <2> QED BY <2>1, <2>5 DEF LogType, EditKinds
<1>4. ASSUME NEW c \in Callers, OpenLog(c) PROVE LogType'
  <2>1. UNCHANGED edit /\ edit.kind = "none" /\ Len(events') = 0
    BY <1>4, EmptySeq DEF OpenLog, LogInv
  <2> QED BY <2>1 DEF LogType, EditKinds
<1> QED BY <1>1, <1>2, <1>3, <1>4, AppendLogType, EditLogType DEF Next, EventStep

LEMMA CountTypeNext ==
  ASSUME CountType, Next
  PROVE  CountType'
<1>1. faults' = faults \/ (faults < MaxFaults /\ faults' = faults + 1)
  BY DEF Next, InitStep, CheckIdentity, OpenIdentity, FillIdentity, CheckState, OpenState,
       FillState, CheckLog, OpenLog, EventStep, ReadHead, CountEvents, AppendEvent, OpenHead, FillHead, Fault,
       AppendLost, FillHeadLost, CutShort, Start, DropField, RemoveLine, AlterDatum, EditDone, Restore
<1>2. edits' = edits \/ (edits < MaxEdits /\ edits' = edits + 1)
  BY DEF Next, InitStep, CheckIdentity, OpenIdentity, FillIdentity, CheckState, OpenState,
       FillState, CheckLog, OpenLog, EventStep, ReadHead, CountEvents, AppendEvent, OpenHead, FillHead, Fault,
       AppendLost, FillHeadLost, CutShort, Start, DropField, RemoveLine, AlterDatum, EditDone,
       MayEdit, Restore
<1> QED BY <1>1, <1>2, BoundsAssumption DEF CountType

LEMMA TypeImplies == Shape /\ LogInv /\ TypeInv => TypeOK
<1> SUFFICES ASSUME Shape, LogInv, TypeInv PROVE TypeOK
  OBVIOUS
<1>1. Len(events) \in Nat
  BY LenProperties DEF Shape
<1>2. edit.at \in 0..Len(events) \cup {0}
  <2>1. NoEdit.at = 0
    BY DEF NoEdit
  <2> QED BY <1>1, <2>1 DEF TypeInv, LogType
<1>3. \A n \in 1..Len(events) :
        /\ events[n].fields \in Nat /\ events[n].sequence \in Nat \ {0}
        /\ events[n].datum \in Data
  BY DEF TypeInv, LogType, LineType, FIELDS
<1>4. \A c \in Callers :
        At(c) \in PCs /\ prog[c].arg \in Data \cup {None} /\ prog[c].sequence \in Nat
  BY DEF TypeInv, ProgType
<1> QED BY <1>2, <1>3, <1>4 DEF TypeInv, FilesType, CountType, TypeOK, LogInv

\* Every variable keeps its type, whatever the programs, faults and edits: in
\* particular every line of events.log has a number from 1 on and one of the
\* data that commands may write.
THEOREM TypeCorrect == Spec => []TypeOK
<1>1. Init => BookInv /\ TypeInv
  BY BookInit, TypeInit
<1>2. BookInv /\ TypeInv /\ [Next]_vars => (BookInv /\ TypeInv)'
  <2>1. ASSUME TypeInv, UNCHANGED vars PROVE TypeInv'
    <3>1. FilesType' /\ ProgType'
      BY <2>1 DEF TypeInv, FilesType, ProgType, vars, files, At
    <3>2. LogType' /\ CountType'
      BY <2>1 DEF TypeInv, LogType, CountType, vars, files
    <3> QED BY <3>1, <3>2 DEF TypeInv
  <2>2. ASSUME BookInv, TypeInv, Next PROVE TypeInv'
    BY <2>2, FilesTypeNext, ProgTypeNext, LogTypeNext, CountTypeNext DEF TypeInv, BookInv, HonestInv
  <2> QED BY <2>1, <2>2, BookNext
<1>3. BookInv /\ TypeInv => TypeOK
  BY TypeImplies DEF BookInv, HonestInv
<1> QED BY <1>1, <1>2, <1>3, PTL DEF Spec
=============================================================================
