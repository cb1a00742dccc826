------------------------------ MODULE CanGuard ------------------------------
(***************************************************************************)
(* The guard of a vehicle's CAN bus (core/vehicle/chrono_can_guard.c).     *)
(*                                                                         *)
(* The whitelist is loaded line by line into a table of MaxRules entries;  *)
(* frames are judged by it afterwards.  A line is what one fgets returns:  *)
(* the number of fields sscanf finds in it (a comment or an empty line     *)
(* counts as too few) and the three numbers.  Of a frame, the id, the      *)
(* length and the first byte are kept.  A verdict leaves nothing behind    *)
(* (the ledger records that go with it are left out), so one frame is      *)
(* judged.                                                                 *)
(***************************************************************************)
EXTENDS Integers, Sequences, FiniteSets, SequencesExt

CONSTANTS
  MaxRules,     \* MAX_RULES, 512
  RuleIds,      \* ids in the whitelist
  FrameIds,     \* ids of frames
  MaxCanId,     \* 0x1FFFFFFF
  Limits,       \* numbers a whitelist line may hold
  MaxLines,     \* bound: lines of a whitelist
  Bytes,        \* values of a frame's first byte
  Sizes         \* values of dlc

VARIABLES
  whitelist,  \* can_whitelist.conf
  read,       \* its lines that have been read
  rules,      \* the table; an entry keeps its line's number for the proofs
  frame       \* the frame that was judged and its verdict

canVars == <<whitelist, read, rules, frame>>

Line == [fields : {3, 4}, id : RuleIds, min : Limits, max : Limits]
Files == UNION {[1..k -> Line] : k \in 0..MaxLines}
NoFrame == [id |-> 0, dlc |-> 0, val |-> 0, verdict |-> -3]

Init ==
  /\ whitelist \in Files
  /\ read = 0
  /\ rules = <<>>
  /\ frame = NoFrame

\* A line of which sscanf reads four fields or more.
WellFormed(i) == whitelist[i].fields >= 4

\* The casts to uint8_t in load_whitelist.
Rule(i) ==
  [id |-> whitelist[i].id, min |-> whitelist[i].min % 256, max |-> whitelist[i].max % 256,
   line |-> i]

Loading == read < Len(whitelist) /\ Len(rules) < MaxRules

\* Fault: the table has one entry more.
LoadLineTooMany ==
  /\ read < Len(whitelist) /\ Len(rules) <= MaxRules /\ frame = NoFrame
  /\ rules' = IF WellFormed(read + 1) THEN Append(rules, Rule(read + 1)) ELSE rules
  /\ read' = read + 1
  /\ UNCHANGED <<whitelist, frame>>

\* load_whitelist: one line, skipped unless it is well formed.  The loop ends
\* with the file or when the table is full.
LoadLine ==
  /\ Loading /\ frame = NoFrame
  /\ rules' = IF WellFormed(read + 1) THEN Append(rules, Rule(read + 1)) ELSE rules
  /\ read' = read + 1
  /\ UNCHANGED <<whitelist, frame>>

\* Fault: a later entry for the id overrides an earlier one.
CanVerdictLastEntry(id, dlc, val) ==
  LET k == SelectLastInSeq(rules, LAMBDA r : r.id = id) IN
  IF dlc <= 0 \/ dlc > 8 \/ id > MaxCanId THEN -2
  ELSE IF k = 0 THEN -1
  ELSE IF val < rules[k].min \/ val > rules[k].max THEN 0 ELSE 1

\* analyze_frame: the first entry for the id decides.  1 allowed, 0 blocked,
\* -1 unknown id, -2 not a frame.
CanVerdict(id, dlc, val) ==
  LET k == SelectInSeq(rules, LAMBDA r : r.id = id) IN
  IF dlc <= 0 \/ dlc > 8 \/ id > MaxCanId THEN -2
  ELSE IF k = 0 THEN -1
  ELSE IF val < rules[k].min \/ val > rules[k].max THEN 0 ELSE 1

AnalyzeFrame(id, dlc, val) ==
  /\ ~Loading /\ frame = NoFrame
  /\ frame' = [id |-> id, dlc |-> dlc, val |-> val, verdict |-> CanVerdict(id, dlc, val)]
  /\ UNCHANGED <<whitelist, read, rules>>

Next ==
  \/ LoadLine
  \/ \E id \in FrameIds, dlc \in Sizes, val \in Bytes : AnalyzeFrame(id, dlc, val)
Spec == Init /\ [][Next]_canVars
-----------------------------------------------------------------------------
TypeOK ==
  /\ read \in 0..Len(whitelist)
  /\ Len(rules) <= MaxRules
  /\ \A k \in DOMAIN rules : rules[k].min \in 0..255 /\ rules[k].max \in 0..255
  /\ frame.verdict \in {-3, -2, -1, 0, 1}

\* The well-formed lines among the first n.
Kept(n) == {j \in 1..n : WellFormed(j)}

\* Line i of the file is the one an operator expects to decide on an id: the
\* first well-formed one for it, with room for it in the table.
Decides(i, id) ==
  /\ WellFormed(i) /\ whitelist[i].id = id
  /\ \A j \in Kept(i - 1) : whitelist[j].id # id
  /\ Cardinality(Kept(i - 1)) < MaxRules

InByte(i) == whitelist[i].min \in 0..255 /\ whitelist[i].max \in 0..255

\* A frame is judged by the file, not by how it was loaded: with a deciding line
\* it is allowed exactly within that line's limits, and without one its id is
\* unknown, whatever comments, malformed lines, repeated ids and lines beyond
\* the table the file has.  Limits that do not fit a byte are the exception:
\* the guard goes by what is left of them after the cast.
JudgedByFile ==
  frame.verdict \in {-1, 0, 1} =>
    /\ \A i \in 1..Len(whitelist) :
         Decides(i, frame.id) =>
           /\ frame.verdict # -1
           /\ InByte(i) => (frame.verdict = 1 <=> frame.val \in whitelist[i].min..whitelist[i].max)
    /\ frame.verdict # -1 => \E i \in 1..Len(whitelist) : Decides(i, frame.id)
=============================================================================
