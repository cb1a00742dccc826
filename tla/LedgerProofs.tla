---------------------------- MODULE LedgerProofs ----------------------------
(***************************************************************************)
(* The sovereign ledger for every set of programs and texts and any number *)
(* of records, faults and alterations: an honest ledger verifies, one      *)
(* alteration is always reported and an acknowledged record survives.      *)
(***************************************************************************)
EXTENDS Ledger, SequenceTheorems, WellFoundedInduction, TLAPS

Texts == Plain \cup Special
Stored == [text : Texts, passes : Nat]
Hashes == Seq(Stored)
Pieces == [stored : Stored, prev : Hashes, hash : Hashes, upto : Cuts \cup {"full"}]
Places == {"idle", "locked", "read", "written"}

Types ==
  /\ file \in Seq(Pieces) /\ durable \in 0..Len(file)
  /\ lock \in Appenders \cup {None}
  /\ at \in [Appenders -> Places]
  /\ text \in [Appenders -> Texts \cup {None}]
  /\ previous_hash \in [Appenders -> Hashes]
  /\ faults \in 0..MaxFaults /\ altered \in 0..MaxAlter
  /\ cut \in BOOLEAN

\* LOCK_EX: the programs at work are the holder of the lock.
HolderWorks == \A a \in Appenders : (at[a] # "idle") = (lock = a)
HolderHasText == \A a \in Appenders : at[a] # "idle" => text[a] \in Texts

\* The bound on pieces is looked at before the write, at Lock.
RoomLeft ==
  /\ Len(file) <= MaxPieces
  /\ \A a \in Appenders : at[a] \in {"locked", "read"} => Len(file) < MaxPieces

HashLengths == \A i \in 1..Len(file) : Len(file[i].hash) = Len(file[i].prev) + 1

\* With every piece complete a line is a piece, and its predecessor the one before.
AllFull(f) == \A i \in 1..Len(f) : f[i].upto = "full"
Before(f, i) == IF i = 1 THEN GENESIS_HASH ELSE f[i - 1].hash
Linked(f, i) == f[i].prev = Before(f, i) /\ f[i].hash = Append(f[i].prev, f[i].stored)
Chain(f) == \A i \in 1..Len(f) : Linked(f, i)

\* What get_last_hash gave the holder is still the last hash when it writes, and
\* what it wrote is still the last piece when it syncs.
LastHashIsFresh ==
  ~cut => \A a \in Appenders : at[a] = "read" => previous_hash[a] = Before(file, Len(file) + 1)
WrittenIsLast ==
  \A a \in Appenders : at[a] = "written" =>
    /\ Len(file) > 0 /\ file[Len(file)].upto = "full"
    /\ file[Len(file)].hash = record_hash(Raw(text[a]), previous_hash[a])

\* Where one alteration shows: among the durable pieces, where no later append
\* and no power loss reaches.
Broken(f, i) == f[i].prev # Before(f, i) \/ f[i].hash # record_hash(f[i].stored, f[i].prev)
AlterationShows == altered = 1 /\ ~cut => \E i \in 1..durable : Broken(file, i)

LedgerInv ==
  /\ Types /\ HolderWorks /\ HolderHasText /\ RoomLeft /\ HashLengths
  /\ ~cut => AllFull(file)
  /\ Sound => Chain(file)
  /\ LastHashIsFresh /\ WrittenIsLast
  /\ AlterationShows /\ AckedSurvives
-----------------------------------------------------------------------------
\* The lines that verify and get_last_hash read.

LEMMA MaxOfInterval == ASSUME NEW n \in Nat, n > 0 PROVE Max(1..n) = n
<1> DEFINE P(x) == x \in 1..n /\ \A y \in 1..n : x >= y
<1>1. P(n)
  OBVIOUS
<1>2. \A x : P(x) => x = n
  OBVIOUS
<1>3. Max(1..n) = CHOOSE x : P(x)
  BY DEF Max
<1> QED BY <1>1, <1>2, <1>3

LEMMA SingletonBounds == ASSUME NEW n \in Nat PROVE Max({n}) = n /\ Min({n}) = n
<1>1. n >= n /\ n =< n
  OBVIOUS
<1>2. \E x \in {n} : \A y \in {n} : x >= y
  BY <1>1
<1>3. \E x \in {n} : \A y \in {n} : x =< y
  BY <1>1
<1>4. Max({n}) \in {n}
  BY <1>2 DEF Max
<1>5. Min({n}) \in {n}
  BY <1>3 DEF Min
<1> QED BY <1>4, <1>5

LEMMA SmallestExists ==
  ASSUME NEW S \in SUBSET Nat, S # {}
  PROVE  Min(S) \in S
<1>1. IsWellFoundedOn(OpToRel(<, Nat), Nat)
  BY NatLessThanWellFounded
<1>2. PICK x \in S : \A y \in S : ~(<<y, x>> \in OpToRel(<, Nat))
  BY <1>1, WFMin
<1>3. ASSUME NEW y \in S PROVE x =< y
  <2>1. y < x => <<y, x>> \in OpToRel(<, Nat)
    BY DEF OpToRel
  <2>2. ~(y < x)
    BY <1>2, <2>1
  <2> QED BY <2>2
<1> QED BY <1>3 DEF Min

LEMMA LargestExists ==
  ASSUME NEW n \in Nat, NEW S \in SUBSET (1..n), S # {}
  PROVE  Max(S) \in S
<1> DEFINE gap == {n - i : i \in S}
<1>1. \A i \in S : n - i \in Nat
  OBVIOUS
<1>2. gap \in SUBSET Nat /\ gap # {}
  <2>1. PICK i \in S : TRUE
    OBVIOUS
  <2>2. n - i \in gap
    BY <2>1
  <2> QED BY <1>1, <2>2
<1>3. PICK g \in gap : \A h \in gap : ~(<<h, g>> \in OpToRel(<, Nat))
  <2>1. IsWellFoundedOn(OpToRel(<, Nat), Nat)
    BY NatLessThanWellFounded
  <2> HIDE DEF gap
  <2> QED BY <1>2, <2>1, WFMin
<1>4. PICK x \in S : g = n - x
  OBVIOUS
<1>5. ASSUME NEW y \in S PROVE x >= y
  <2>1. n - y \in gap
    OBVIOUS
  <2>2. n - y \in Nat /\ n - x \in Nat
    BY <1>1
  <2>3. n - y < n - x => <<n - y, n - x>> \in OpToRel(<, Nat)
    BY <2>2 DEF OpToRel
  <2>4. ~(n - y < n - x)
    BY <1>3, <1>4, <2>1, <2>3
  <2> QED BY <2>2, <2>4
<1> QED BY <1>5 DEF Max

\* In a file of complete pieces every piece is a line.
LEMMA FullStarts ==
  ASSUME NEW f \in Seq(Pieces), AllFull(f)
  PROVE  Starts(f) = 1..Len(f)
<1>1. \A i \in 1..Len(f) : StartsLine(f, i)
  BY DEF AllFull, StartsLine
<1> QED BY <1>1 DEF Starts

LEMMA FullLine ==
  ASSUME NEW f \in Seq(Pieces), AllFull(f), NEW i \in 1..Len(f)
  PROVE  LineOf(f, i) = {i} /\ Hashed(f, i) = {i} /\ LineHash(f, i) = f[i].hash
<1>1. Len(f) \in Nat /\ i \in Nat
  OBVIOUS
<1>2. \A k \in 1..Len(f) : StartsLine(f, k)
  BY DEF AllFull, StartsLine
<1>3. ASSUME NEW j \in i..Len(f), \A k \in (i + 1)..j : ~StartsLine(f, k) PROVE j = i
  <2>1. CASE j > i
    <3>1. j \in (i + 1)..j /\ j \in 1..Len(f)
      BY <1>1, <2>1
    <3> QED BY <1>2, <1>3, <3>1
  <2> QED BY <1>1, <2>1
<1>4. i \in LineOf(f, i)
  BY <1>1 DEF LineOf
<1>5. LineOf(f, i) = {i}
  BY <1>3, <1>4 DEF LineOf
<1>6. Hashed(f, i) = {i}
  BY <1>5 DEF Hashed, AllFull, HasHash
<1>7. LineHash(f, i) = f[i].hash
  BY <1>1, <1>6, SingletonBounds DEF LineHash
<1> QED BY <1>5, <1>6, <1>7

LEMMA FullLastHash ==
  ASSUME NEW f \in Seq(Pieces), AllFull(f)
  PROVE  get_last_hash(f) = Before(f, Len(f) + 1)
<1> DEFINE good == {i \in Starts(f) : Hashed(f, i) # {}}
<1>1. good = 1..Len(f)
  BY FullStarts, FullLine
<1>2. Len(f) \in Nat
  OBVIOUS
<1>3. get_last_hash(f) = IF 1..Len(f) = {} THEN GENESIS_HASH ELSE LineHash(f, Max(1..Len(f)))
  BY <1>1 DEF get_last_hash
<1>4. CASE Len(f) = 0
  <2>1. 1..Len(f) = {}
    BY <1>4
  <2> QED BY <1>3, <1>4, <2>1 DEF Before
<1>5. CASE Len(f) > 0
  <2>1. Max(1..Len(f)) = Len(f) /\ Len(f) \in 1..Len(f)
    BY <1>2, <1>5, MaxOfInterval
  <2>2. LineHash(f, Len(f)) = f[Len(f)].hash
    BY <2>1, FullLine
  <2>3. Before(f, Len(f) + 1) = f[Len(f)].hash
    BY <1>2, <1>5 DEF Before
  <2> QED BY <1>3, <2>1, <2>2, <2>3
<1> QED BY <1>2, <1>4, <1>5

\* verify rejects a line of such a file exactly when the line is broken.
LEMMA FullVerifies ==
  ASSUME NEW f \in Seq(Pieces), AllFull(f), NEW i \in 1..Len(f)
  PROVE  LineVerifies(f, i) <=> ~Broken(f, i)
<1>1. Len(f) \in Nat /\ i \in Nat
  OBVIOUS
<1> DEFINE before == {j \in Starts(f) : j < i}
<1>2. before = 1..(i - 1)
  <2>1. before = {j \in 1..Len(f) : j < i}
    BY FullStarts
  <2> QED BY <1>1, <2>1
<1>3. (IF before = {} THEN GENESIS_HASH ELSE LineHash(f, Max(before))) = Before(f, i)
  <2>1. CASE i = 1
    <3>1. before = {}
      BY <1>2, <2>1
    <3> QED BY <2>1, <3>1 DEF Before
  <2>2. CASE i > 1
    <3>1. i - 1 \in Nat /\ i - 1 > 0 /\ i - 1 \in 1..Len(f)
      BY <1>1, <2>2
    <3>2. Max(before) = i - 1
      BY <1>2, <3>1, MaxOfInterval
    <3>3. LineHash(f, i - 1) = f[i - 1].hash
      BY <3>1, FullLine
    <3>4. 1 \in 1..(i - 1)
      BY <3>1
    <3>5. before # {}
      BY <1>2, <3>4
    <3> QED BY <1>1, <2>2, <3>2, <3>3, <3>5 DEF Before
  <2> QED BY <1>1, <2>1, <2>2
<1>4. f[i].upto = "full" /\ f[Max(LineOf(f, i))].upto = "full"
  <2>1. Max(LineOf(f, i)) = i
    BY <1>1, FullLine, SingletonBounds
  <2> QED BY <2>1 DEF AllFull
<1>5. LineHash(f, i) = f[i].hash
  BY FullLine
<1> QED BY <1>3, <1>4, <1>5 DEF LineVerifies, Broken

\* A chain of texts that need no escaping verifies.
LEMMA ChainVerifies ==
  ASSUME NEW f \in Seq(Pieces), AllFull(f), Chain(f),
         \A i \in 1..Len(f) : f[i].stored.text \in Plain
  PROVE  chrono_ledger_verify(f)
<1>1. ASSUME NEW i \in 1..Len(f) PROVE ~Broken(f, i)
  <2>1. json_escape(f[i].stored) = f[i].stored
    BY TextsAssumption DEF json_escape
  <2> QED BY <2>1 DEF Chain, Linked, Broken, record_hash
<1> QED BY <1>1, FullStarts, FullVerifies DEF chrono_ledger_verify
-----------------------------------------------------------------------------
LEMMA InitInv == Init => LedgerInv
<1> SUFFICES ASSUME Init PROVE LedgerInv
  OBVIOUS
<1>1. Len(file) = 0 /\ file \in Seq(Pieces) /\ GENESIS_HASH \in Hashes
  BY DEF Init, Hashes, GENESIS_HASH
<1>2. Types
  <2>1. cut \in BOOLEAN
    BY DEF Init
  <2>2. previous_hash \in [Appenders -> Hashes]
    BY <1>1 DEF Init
  <2> QED BY <1>1, <2>1, <2>2, BoundsAssumption DEF Init, Types, Places
<1>3. HolderWorks /\ HolderHasText /\ LastHashIsFresh /\ WrittenIsLast
  BY AppendersAssumption
  DEF Init, HolderWorks, HolderHasText, LastHashIsFresh, WrittenIsLast
<1>4. RoomLeft /\ HashLengths /\ AllFull(file) /\ Chain(file)
  BY <1>1, BoundsAssumption DEF Init, RoomLeft, HashLengths, AllFull, Chain
<1>5. AlterationShows /\ AckedSurvives
  BY DEF Init, AlterationShows, AckedSurvives
<1> QED BY <1>2, <1>3, <1>4, <1>5 DEF LedgerInv

\* One program at a time is not idle.
LEMMA OneHolder ==
  ASSUME Types, HolderWorks, NEW a \in Appenders, NEW b \in Appenders,
         at[a] # "idle", at[b] # "idle"
  PROVE  a = b
BY DEF HolderWorks

\* Letting go of the lock leaves the others where they are: idle.
LEMMA UnlockFrees ==
  ASSUME LedgerInv, NEW a \in Appenders, at[a] # "idle", Unlock(a)
  PROVE  /\ lock' = None /\ at' \in [Appenders -> Places]
         /\ \A b \in Appenders : at'[b] = "idle"
         /\ HolderWorks' /\ HolderHasText' /\ LastHashIsFresh' /\ WrittenIsLast'
<1>1. Types /\ HolderWorks
  BY DEF LedgerInv
<1>2. lock' = None /\ at' = [at EXCEPT ![a] = "idle"]
  BY <1>1 DEF HolderWorks, Unlock
<1>3. at' \in [Appenders -> Places]
  BY <1>1, <1>2 DEF Types, Places
<1>4. \A b \in Appenders : at'[b] = "idle"
  BY <1>1, <1>2, OneHolder DEF Types
<1>5. HolderWorks'
  BY <1>2, <1>4, AppendersAssumption DEF HolderWorks
<1>6. HolderHasText' /\ LastHashIsFresh' /\ WrittenIsLast'
  BY <1>4 DEF HolderHasText, LastHashIsFresh, WrittenIsLast
<1> QED BY <1>2, <1>3, <1>4, <1>5, <1>6

\* What speaks of the file alone survives a step that does not touch it.
LEMMA FileKept ==
  ASSUME LedgerInv, file' = file, cut' = cut, altered' = altered
  PROVE  /\ HashLengths' /\ (~cut => AllFull(file))' /\ (Sound => Chain(file))'
BY DEF LedgerInv, HashLengths, AllFull, Sound, Chain, Linked, Before

LEMMA LockInv ==
  ASSUME LedgerInv, NEW a \in Appenders, NEW t \in Plain \cup Special, Lock(a, t)
  PROVE  LedgerInv'
<1>1. /\ at[a] = "idle" /\ lock = None /\ Len(file) < MaxPieces
      /\ lock' = a /\ text' = [text EXCEPT ![a] = t] /\ at' = [at EXCEPT ![a] = "locked"]
      /\ UNCHANGED <<file, durable, previous_hash, faults, altered, cut, acked>>
  BY DEF Lock
<1>2. Types'
  BY <1>1 DEF LedgerInv, Types, Places, Texts
<1>3. \A b \in Appenders : b # a => at'[b] = "idle"
  BY <1>1, AppendersAssumption DEF LedgerInv, Types, HolderWorks
<1>4. at'[a] = "locked" /\ text'[a] = t
  BY <1>1 DEF LedgerInv, Types
<1>5. HolderWorks'
  BY <1>1, <1>3, <1>4 DEF HolderWorks
<1>6. HolderHasText' /\ RoomLeft' /\ LastHashIsFresh' /\ WrittenIsLast'
  BY <1>1, <1>3, <1>4
  DEF LedgerInv, HolderHasText, Texts, RoomLeft, LastHashIsFresh, WrittenIsLast
<1>7. AlterationShows' /\ AckedSurvives'
  BY <1>1 DEF LedgerInv, AlterationShows, Broken, Before, AckedSurvives
<1> QED BY <1>1, <1>2, <1>5, <1>6, <1>7, FileKept DEF LedgerInv

LEMMA HashedWithin ==
  ASSUME NEW f \in Seq(Pieces), NEW i \in 1..Len(f)
  PROVE  Hashed(f, i) \in SUBSET (1..Len(f)) /\ Hashed(f, i) \in SUBSET Nat
<1>1. Len(f) \in Nat /\ i \in Nat /\ i >= 1
  OBVIOUS
<1>2. \A j \in i..Len(f) : j \in 1..Len(f) /\ j \in Nat
  BY <1>1
<1>3. Hashed(f, i) \in SUBSET (i..Len(f))
  BY DEF Hashed, LineOf
<1> HIDE DEF Hashed
<1> QED BY <1>2, <1>3

\* Whatever was cut short, get_last_hash returns the hash of some piece.
LEMMA GetLastHashType ==
  ASSUME LedgerInv PROVE get_last_hash(file) \in Hashes
<1> DEFINE good == {i \in Starts(file) : Hashed(file, i) # {}}
           i == Max(good)
           j == Min(Hashed(file, i))
<1>1. file \in Seq(Pieces) /\ Len(file) \in Nat /\ GENESIS_HASH \in Hashes
  BY DEF LedgerInv, Types, Hashes, GENESIS_HASH
<1>2. get_last_hash(file) = IF good = {} THEN GENESIS_HASH ELSE file[j].hash
  BY DEF get_last_hash, LineHash
<1>3. ASSUME good # {} PROVE j \in 1..Len(file)
  <2>1. good \in SUBSET (1..Len(file))
    BY DEF Starts
  <2>2. i \in good
    BY <1>1, <1>3, <2>1, LargestExists
  <2>3. Hashed(file, i) # {} /\ i \in 1..Len(file)
    BY <2>1, <2>2
  <2>4. Hashed(file, i) \in SUBSET (1..Len(file)) /\ Hashed(file, i) \in SUBSET Nat
    BY <1>1, <2>3, HashedWithin
  <2>5. j \in Hashed(file, i)
    BY <2>3, <2>4, SmallestExists
  <2> QED BY <2>4, <2>5
<1> HIDE DEF good, i, j
<1>4. ASSUME good # {} PROVE file[j].hash \in Hashes
  <2>1. file[j] \in Pieces
    BY <1>1, <1>3, <1>4
  <2> QED BY <2>1 DEF Pieces
<1> QED BY <1>1, <1>2, <1>4

LEMMA ReadLastInv ==
  ASSUME LedgerInv, NEW a \in Appenders, ReadLast(a)
  PROVE  LedgerInv'
<1>1. /\ at[a] = "locked"
      /\ previous_hash' = [previous_hash EXCEPT ![a] = get_last_hash(file)]
      /\ at' = [at EXCEPT ![a] = "read"]
      /\ UNCHANGED <<file, durable, lock, text, faults, altered, cut, acked>>
  BY DEF ReadLast
<1>2. Types'
  BY <1>1, GetLastHashType DEF LedgerInv, Types, Places
<1>3. \A b \in Appenders : b # a => at'[b] = "idle" /\ at[b] = "idle"
  BY <1>1, OneHolder DEF LedgerInv, Types
<1>4. at'[a] = "read" /\ previous_hash'[a] = get_last_hash(file)
  BY <1>1 DEF LedgerInv, Types
<1>5. HolderWorks'
  BY <1>1, <1>3, <1>4 DEF LedgerInv, HolderWorks
<1>6. HolderHasText' /\ RoomLeft' /\ WrittenIsLast'
  BY <1>1, <1>3, <1>4 DEF LedgerInv, HolderHasText, RoomLeft, WrittenIsLast
<1>7. LastHashIsFresh'
  <2>1. ~cut => get_last_hash(file) = Before(file, Len(file) + 1)
    BY FullLastHash DEF LedgerInv, Types
  <2> QED BY <1>1, <1>3, <1>4, <2>1 DEF LastHashIsFresh, Before
<1>8. AlterationShows' /\ AckedSurvives'
  BY <1>1 DEF LedgerInv, AlterationShows, Broken, Before, AckedSurvives
<1> QED BY <1>1, <1>2, <1>5, <1>6, <1>7, <1>8, FileKept DEF LedgerInv

\* Sync, a failing sync and a kill let go of the lock and keep the file.
LEMMA SyncInv ==
  ASSUME LedgerInv, NEW a \in Appenders, Sync(a)
  PROVE  LedgerInv'
<1>1. /\ at[a] = "written" /\ Unlock(a) /\ durable' = Len(file)
      /\ acked' = acked \cup {record_hash(Raw(text[a]), previous_hash[a])}
      /\ UNCHANGED <<file, text, previous_hash, faults, altered, cut>>
  BY DEF Sync
<1>2. /\ lock' = None /\ at' \in [Appenders -> Places]
      /\ \A b \in Appenders : at'[b] = "idle"
      /\ HolderWorks' /\ HolderHasText' /\ LastHashIsFresh' /\ WrittenIsLast'
  BY <1>1, UnlockFrees
<1>3. Types'
  <2>1. Len(file) \in 0..Len(file)
    BY DEF LedgerInv, Types
  <2> QED BY <1>1, <1>2, <2>1 DEF LedgerInv, Types
<1>4. RoomLeft'
  BY <1>1, <1>2 DEF LedgerInv, RoomLeft
<1>5. 1..durable \subseteq 1..Len(file)
  BY DEF LedgerInv, Types
<1>6. AlterationShows'
  BY <1>1, <1>5 DEF LedgerInv, AlterationShows, Broken, Before
<1>7. AckedSurvives'
  <2>1. Len(file) \in 1..Len(file) /\ file[Len(file)].upto = "full"
        /\ file[Len(file)].hash = record_hash(Raw(text[a]), previous_hash[a])
    BY <1>1 DEF LedgerInv, Types, WrittenIsLast
  <2> QED BY <1>1, <1>5, <2>1 DEF LedgerInv, AckedSurvives
<1> QED BY <1>1, <1>2, <1>3, <1>4, <1>6, <1>7, FileKept DEF LedgerInv

LEMMA StopInv ==
  ASSUME LedgerInv, NEW a \in Appenders, SyncFails(a) \/ Killed(a)
  PROVE  LedgerInv'
<1>1. /\ at[a] # "idle" /\ Unlock(a) /\ faults < MaxFaults /\ faults' = faults + 1
      /\ UNCHANGED <<file, durable, text, previous_hash, altered, cut, acked>>
  BY DEF SyncFails, Killed
<1>2. /\ lock' = None /\ at' \in [Appenders -> Places]
      /\ \A b \in Appenders : at'[b] = "idle"
      /\ HolderWorks' /\ HolderHasText' /\ LastHashIsFresh' /\ WrittenIsLast'
  BY <1>1, UnlockFrees
<1>3. faults' \in 0..MaxFaults
  BY <1>1, BoundsAssumption DEF LedgerInv, Types
<1>4. Types' /\ RoomLeft'
  BY <1>1, <1>2, <1>3 DEF LedgerInv, Types, RoomLeft
<1>5. AlterationShows' /\ AckedSurvives'
  BY <1>1 DEF LedgerInv, AlterationShows, Broken, Before, AckedSurvives
<1> QED BY <1>1, <1>2, <1>4, <1>5, FileKept DEF LedgerInv

\* What an append adds to the file, complete or cut.
LEMMA PieceIs ==
  ASSUME LedgerInv, NEW a \in Appenders, at[a] # "idle", NEW u \in Cuts \cup {"full"}
  PROVE  /\ Piece(a, u) \in Pieces
         /\ Piece(a, u).upto = u /\ Piece(a, u).prev = previous_hash[a]
         /\ Piece(a, u).hash = record_hash(Raw(text[a]), previous_hash[a])
         /\ Piece(a, u).hash = Append(previous_hash[a], Piece(a, u).stored)
         /\ Len(Piece(a, u).hash) = Len(previous_hash[a]) + 1
<1>1. text[a] \in Texts /\ previous_hash[a] \in Hashes
  BY DEF LedgerInv, HolderHasText, Types
<1> DEFINE s == json_escape(Raw(text[a]))
<1>2. s \in Stored
  BY <1>1 DEF json_escape, Raw, Stored, Texts
<1> HIDE DEF s
<1>3. Append(previous_hash[a], s) \in Hashes
      /\ Len(Append(previous_hash[a], s)) = Len(previous_hash[a]) + 1
  BY <1>1, <1>2 DEF Hashes
<1>4. Piece(a, u) = [stored |-> s, prev |-> previous_hash[a],
                     hash |-> Append(previous_hash[a], s), upto |-> u]
  BY DEF Piece, record_hash, s
<1>5. record_hash(Raw(text[a]), previous_hash[a]) = Append(previous_hash[a], s)
  BY DEF record_hash, s
<1> QED BY <1>1, <1>2, <1>3, <1>4, <1>5 DEF Pieces

\* An append leaves the pieces before it alone.
LEMMA AppendIs ==
  ASSUME NEW f \in Seq(Pieces), NEW p \in Pieces
  PROVE  LET g == Append(f, p) IN
         /\ g \in Seq(Pieces) /\ Len(f) \in Nat /\ Len(g) = Len(f) + 1
         /\ g[Len(f) + 1] = p
         /\ \A i \in 1..Len(f) : g[i] = f[i] /\ Before(g, i) = Before(f, i)
         /\ Before(g, Len(f) + 1) = Before(f, Len(f) + 1)
BY DEF Before

LEMMA AppendKeeps ==
  ASSUME LedgerInv, NEW a \in Appenders, at[a] = "read", NEW u \in Cuts \cup {"full"},
         file' = Append(file, Piece(a, u)),
         UNCHANGED <<durable, altered, acked>>
  PROVE  /\ file' \in Seq(Pieces) /\ durable' \in 0..Len(file') /\ Len(file)' = Len(file) + 1
         /\ Len(file') <= MaxPieces
         /\ HashLengths' /\ AckedSurvives'
         /\ (\E i \in 1..durable : Broken(file, i)) => (\E i \in 1..durable : Broken(file, i))'
<1> DEFINE p == Piece(a, u)
<1>1. p \in Pieces /\ p.prev = previous_hash[a] /\ Len(p.hash) = Len(previous_hash[a]) + 1
  BY PieceIs
<1>2. file \in Seq(Pieces) /\ durable \in Nat /\ durable <= Len(file) /\ Len(file) < MaxPieces
  BY DEF LedgerInv, Types, RoomLeft
<1> HIDE DEF p
<1>3. /\ file' \in Seq(Pieces) /\ Len(file) \in Nat /\ Len(file') = Len(file) + 1
      /\ file'[Len(file) + 1] = p
      /\ \A i \in 1..Len(file) : file'[i] = file[i] /\ Before(file', i) = Before(file, i)
  BY <1>1, <1>2, AppendIs DEF p
<1>4. HashLengths'
  <2>1. \A i \in 1..Len(file) : Len(file[i].hash) = Len(file[i].prev) + 1
    BY DEF LedgerInv, HashLengths
  <2>2. \A i \in 1..Len(file') : i \in 1..Len(file) \/ i = Len(file) + 1
    BY <1>3
  <2> QED BY <1>1, <1>3, <2>1, <2>2 DEF HashLengths
<1>5. \A i \in 1..durable : i \in 1..Len(file)
  BY <1>2
<1>6. AckedSurvives'
  BY <1>3, <1>5 DEF LedgerInv, AckedSurvives
<1>7. \A i \in 1..durable : Broken(file, i) => Broken(file', i)
  BY <1>3, <1>5 DEF Broken
<1> QED BY <1>2, <1>3, <1>4, <1>6, <1>7, BoundsAssumption

LEMMA WriteInv ==
  ASSUME LedgerInv, NEW a \in Appenders, Write(a)
  PROVE  LedgerInv'
<1> DEFINE p == Piece(a, "full")
<1>1. /\ at[a] = "read" /\ file' = Append(file, p) /\ at' = [at EXCEPT ![a] = "written"]
      /\ UNCHANGED <<durable, lock, text, previous_hash, faults, altered, cut, acked>>
  BY DEF Write
<1>2. /\ file' \in Seq(Pieces) /\ durable' \in 0..Len(file') /\ Len(file)' = Len(file) + 1
      /\ Len(file') <= MaxPieces
      /\ HashLengths' /\ AckedSurvives'
      /\ (\E i \in 1..durable : Broken(file, i)) => (\E i \in 1..durable : Broken(file, i))'
  BY <1>1, AppendKeeps
<1>3. Types'
  BY <1>1, <1>2 DEF LedgerInv, Types, Places
<1>4. \A b \in Appenders : b # a => at'[b] = "idle" /\ at[b] = "idle"
  BY <1>1, OneHolder DEF LedgerInv, Types
<1>5. at'[a] = "written"
  BY <1>1 DEF LedgerInv, Types
<1>6. HolderWorks' /\ HolderHasText' /\ RoomLeft' /\ LastHashIsFresh'
  BY <1>1, <1>2, <1>4, <1>5
  DEF LedgerInv, HolderWorks, HolderHasText, RoomLeft, LastHashIsFresh
<1>7. /\ p \in Pieces /\ p.upto = "full" /\ p.prev = previous_hash[a]
      /\ p.hash = record_hash(Raw(text[a]), previous_hash[a])
      /\ p.hash = Append(previous_hash[a], p.stored)
  BY <1>1, PieceIs
<1> HIDE DEF p
<1>8. /\ Len(file) \in Nat /\ Len(file') = Len(file) + 1 /\ file'[Len(file) + 1] = p
      /\ \A i \in 1..Len(file) : file'[i] = file[i] /\ Before(file', i) = Before(file, i)
      /\ Before(file', Len(file) + 1) = Before(file, Len(file) + 1)
  BY <1>1, <1>7, AppendIs DEF LedgerInv, Types
<1>9. \A i \in 1..Len(file') : i \in 1..Len(file) \/ i = Len(file) + 1
  BY <1>8
<1>10. WrittenIsLast'
  <2>1. Len(file') > 0 /\ file'[Len(file')] = p
    BY <1>8
  <2> QED BY <1>1, <1>4, <1>7, <2>1 DEF WrittenIsLast
<1>11. (~cut => AllFull(file))'
  BY <1>1, <1>7, <1>8, <1>9 DEF LedgerInv, AllFull
<1>12. (Sound => Chain(file))'
  <2> SUFFICES ASSUME Sound' PROVE Chain(file')
    OBVIOUS
  <2>1. Sound /\ Chain(file) /\ ~cut
    BY <1>1 DEF LedgerInv, Sound
  <2>2. previous_hash[a] = Before(file, Len(file) + 1)
    BY <1>1, <2>1 DEF LedgerInv, LastHashIsFresh
  <2>3. Linked(file', Len(file) + 1)
    BY <1>7, <1>8, <2>2 DEF Linked
  <2>4. \A i \in 1..Len(file) : Linked(file', i)
    BY <1>8, <2>1 DEF Chain, Linked
  <2> QED BY <1>9, <2>3, <2>4 DEF Chain
<1>13. AlterationShows'
  BY <1>1, <1>2 DEF LedgerInv, AlterationShows
<1> QED BY <1>2, <1>3, <1>6, <1>10, <1>11, <1>12, <1>13 DEF LedgerInv

LEMMA WriteFailsInv ==
  ASSUME LedgerInv, NEW a \in Appenders, NEW u \in Cuts, WriteFails(a, u)
  PROVE  LedgerInv'
<1>1. /\ at[a] = "read" /\ file' = Append(file, Piece(a, u)) /\ cut' = TRUE
      /\ Unlock(a) /\ faults < MaxFaults /\ faults' = faults + 1
      /\ UNCHANGED <<durable, text, previous_hash, altered, acked>>
  BY DEF WriteFails
<1>2. /\ file' \in Seq(Pieces) /\ durable' \in 0..Len(file') /\ Len(file)' = Len(file) + 1
      /\ Len(file') <= MaxPieces
      /\ HashLengths' /\ AckedSurvives'
  BY <1>1, AppendKeeps
<1>3. /\ lock' = None /\ at' \in [Appenders -> Places]
      /\ \A b \in Appenders : at'[b] = "idle"
      /\ HolderWorks' /\ HolderHasText' /\ LastHashIsFresh' /\ WrittenIsLast'
  BY <1>1, UnlockFrees
<1>4. faults' \in 0..MaxFaults
  BY <1>1, BoundsAssumption DEF LedgerInv, Types
<1>5. Types' /\ RoomLeft'
  BY <1>1, <1>2, <1>3, <1>4 DEF LedgerInv, Types, RoomLeft
<1>6. (~cut => AllFull(file))' /\ (Sound => Chain(file))' /\ AlterationShows'
  BY <1>1 DEF Sound, AlterationShows
<1> QED BY <1>2, <1>3, <1>5, <1>6 DEF LedgerInv

\* Of a file that power loss cuts to n pieces the durable ones are untouched.
LEMMA PrefixIs ==
  ASSUME NEW f \in Seq(Pieces), NEW n \in 0..Len(f)
  PROVE  LET g == SubSeq(f, 1, n) IN
         /\ g \in Seq(Pieces) /\ Len(g) = n
         /\ \A i \in 1..n : g[i] = f[i] /\ Before(g, i) = Before(f, i)
<1> DEFINE g == SubSeq(f, 1, n)
<1>1. Len(f) \in Nat /\ n \in Nat /\ n <= Len(f)
  OBVIOUS
<1>2. g \in Seq(Pieces) /\ Len(g) = n /\ \A i \in 1..n : g[i] = f[i]
  BY <1>1
<1> HIDE DEF g
<1>3. \A i \in 1..n : i # 1 => i - 1 \in 1..n
  BY <1>1
<1>4. \A i \in 1..n : Before(g, i) = Before(f, i)
  BY <1>2, <1>3 DEF Before
<1> QED BY <1>2, <1>4 DEF g

LEMMA CutIs ==
  ASSUME NEW f \in Seq(Pieces), NEW n \in 1..Len(f), NEW u \in Cuts
  PROVE  LET g == [f EXCEPT ![n].upto = u] IN
         /\ g \in Seq(Pieces) /\ Len(g) = Len(f)
         /\ \A i \in 1..Len(f) : g[i].hash = f[i].hash /\ g[i].prev = f[i].prev
         /\ \A i \in 1..Len(f) : i # n => g[i] = f[i]
<1> DEFINE q == [f[n] EXCEPT !.upto = u]
           g == [f EXCEPT ![n] = q]
<1>1. f[n] \in Pieces
  OBVIOUS
<1>2. q \in Pieces /\ q.hash = f[n].hash /\ q.prev = f[n].prev
  BY <1>1 DEF Pieces
<1>3. [f EXCEPT ![n].upto = u] = g
  OBVIOUS
<1> HIDE DEF q
<1>4. /\ g \in Seq(Pieces) /\ Len(g) = Len(f)
      /\ g[n] = q /\ \A i \in 1..Len(f) : i # n => g[i] = f[i]
  BY <1>2, ExceptSeq
<1> HIDE DEF g
<1> QED BY <1>2, <1>3, <1>4

LEMMA PowerLossInv ==
  ASSUME LedgerInv, NEW n \in 0..MaxPieces, PowerLoss(n)
  PROVE  LedgerInv'
<1> DEFINE g == SubSeq(file, 1, n)
<1>1. /\ faults < MaxFaults /\ n \in durable..Len(file) /\ faults' = faults + 1
      /\ durable' = n /\ lock' = None /\ at' = [a \in Appenders |-> "idle"]
      /\ UNCHANGED <<text, previous_hash, altered, acked>>
  BY DEF PowerLoss
<1>2. \/ file' = g /\ cut' = cut
      \/ /\ n > durable /\ cut' = TRUE
         /\ \E u \in Cuts : file' = [g EXCEPT ![n].upto = u]
  BY DEF PowerLoss
<1>3. file \in Seq(Pieces) /\ durable \in Nat /\ durable <= Len(file) /\ Len(file) \in Nat
  BY DEF LedgerInv, Types
<1>4. n \in 0..Len(file) /\ n \in Nat /\ durable <= n /\ n <= Len(file)
  BY <1>1, <1>3
<1>5. /\ g \in Seq(Pieces) /\ Len(g) = n
      /\ \A i \in 1..n : g[i] = file[i] /\ Before(g, i) = Before(file, i)
  BY <1>3, <1>4, PrefixIs
<1> HIDE DEF g
<1>6. /\ file' \in Seq(Pieces) /\ Len(file') = n
      /\ \A i \in 1..n : file'[i].hash = file[i].hash /\ file'[i].prev = file[i].prev
      /\ \A i \in 1..durable : file'[i] = file[i]
  <2>1. CASE file' = g /\ cut' = cut
    <3>1. \A i \in 1..durable : i \in 1..n
      BY <1>3, <1>4
    <3> QED BY <1>5, <2>1, <3>1
  <2>2. CASE n > durable /\ \E u \in Cuts : file' = [g EXCEPT ![n].upto = u]
    <3>1. PICK u \in Cuts : file' = [g EXCEPT ![n].upto = u]
      BY <2>2
    <3>2. n \in 1..Len(g)
      BY <1>3, <1>4, <1>5, <2>2
    <3>3. /\ file' \in Seq(Pieces) /\ Len(file') = Len(g)
          /\ \A i \in 1..Len(g) : file'[i].hash = g[i].hash /\ file'[i].prev = g[i].prev
          /\ \A i \in 1..Len(g) : i # n => file'[i] = g[i]
      BY <1>5, <3>1, <3>2, CutIs
    <3>4. \A i \in 1..durable : i \in 1..Len(g) /\ i # n
      BY <1>3, <1>4, <1>5, <2>2
    <3> QED BY <1>5, <3>3, <3>4
  <2> QED BY <1>2, <2>1, <2>2
<1>7. cut' \in BOOLEAN
  <2>1. cut \in BOOLEAN
    BY DEF LedgerInv, Types
  <2> QED BY <1>2, <2>1
<1>8. faults' \in 0..MaxFaults /\ durable' \in 0..Len(file')
  BY <1>1, <1>4, <1>6, BoundsAssumption DEF LedgerInv, Types
<1>9. Types'
  BY <1>1, <1>6, <1>7, <1>8 DEF LedgerInv, Types, Places
<1>10. HolderWorks' /\ HolderHasText' /\ LastHashIsFresh' /\ WrittenIsLast'
  BY <1>1, AppendersAssumption DEF HolderWorks, HolderHasText, LastHashIsFresh, WrittenIsLast
<1>11. RoomLeft'
  <2>1. n <= MaxPieces
    BY <1>3, <1>4, BoundsAssumption DEF LedgerInv, RoomLeft
  <2> QED BY <1>1, <1>6, <2>1 DEF RoomLeft
<1>12. \A i \in 1..n : i \in 1..Len(file)
  BY <1>3, <1>4
<1>13. HashLengths'
  BY <1>6, <1>12 DEF LedgerInv, HashLengths
<1>14. AckedSurvives'
  <2>1. \A i \in 1..durable : i \in 1..durable'
    BY <1>1, <1>3, <1>4
  <2> QED BY <1>1, <1>6, <2>1 DEF LedgerInv, AckedSurvives
<1>15. ASSUME ~cut' PROVE ~cut /\ file' = g
  BY <1>2, <1>15
<1>16. (~cut => AllFull(file))' /\ (Sound => Chain(file))'
  <2>1. (~cut => AllFull(file))'
    BY <1>5, <1>12, <1>15 DEF LedgerInv, AllFull
  <2>2. ASSUME Sound' PROVE Chain(file')
    <3>1. Chain(file) /\ file' = g
      BY <1>1, <1>15, <2>2 DEF LedgerInv, Sound
    <3> QED BY <1>5, <1>12, <3>1 DEF Chain, Linked
  <2> QED BY <2>1, <2>2
<1>17. AlterationShows'
  <2> SUFFICES ASSUME altered = 1, ~cut' PROVE \E i \in 1..n : Broken(file', i)
    BY <1>1 DEF AlterationShows
  <2>1. PICK i \in 1..durable : Broken(file, i)
    BY <1>15 DEF LedgerInv, AlterationShows
  <2>2. i \in 1..n /\ file' = g
    BY <1>3, <1>4, <1>15
  <2>3. Broken(file', i)
    BY <1>5, <2>1, <2>2 DEF Broken
  <2> QED BY <2>2, <2>3
<1> QED BY <1>9, <1>10, <1>11, <1>13, <1>14, <1>16, <1>17 DEF LedgerInv

\* Nobody is at work when the file is altered.
LEMMA NobodyWorks ==
  ASSUME LedgerInv, lock = None, UNCHANGED <<lock, at>>
  PROVE  /\ \A a \in Appenders : at[a] = "idle"
         /\ HolderWorks' /\ HolderHasText' /\ LastHashIsFresh' /\ WrittenIsLast'
<1>1. \A a \in Appenders : at[a] = "idle"
  BY AppendersAssumption DEF LedgerInv, HolderWorks
<1> QED BY <1>1 DEF LedgerInv, HolderWorks, HolderHasText, LastHashIsFresh, WrittenIsLast

LEMMA AlterTextInv ==
  ASSUME LedgerInv, NEW i \in 1..Len(file), NEW t \in Plain, AlterText(i, Raw(t))
  PROVE  LedgerInv'
<1> DEFINE r == Raw(t)
           q == [file[i] EXCEPT !.stored = r]
<1>1. /\ altered < MaxAlter /\ lock = None /\ i <= durable /\ file[i].stored # r
      /\ file' = [file EXCEPT ![i] = q] /\ altered' = altered + 1
      /\ UNCHANGED <<durable, lock, at, text, previous_hash, faults, cut, acked>>
  BY DEF AlterText
<1>2. file \in Seq(Pieces) /\ file[i] \in Pieces /\ Len(file) \in Nat /\ durable \in 0..Len(file)
  BY DEF LedgerInv, Types
<1>3. r \in Stored /\ json_escape(r) = r
  BY TextsAssumption DEF Raw, Stored, Texts, json_escape
<1>4. q \in Pieces /\ q.hash = file[i].hash /\ q.prev = file[i].prev
      /\ q.upto = file[i].upto /\ q.stored = r
  BY <1>2, <1>3 DEF Pieces
<1> HIDE DEF q, r
<1>5. /\ file' \in Seq(Pieces) /\ Len(file') = Len(file)
      /\ file'[i] = q /\ \A j \in 1..Len(file) : j # i => file'[j] = file[j]
  BY <1>1, <1>2, <1>4, ExceptSeq
<1>6. \A j \in 1..Len(file) : /\ file'[j].hash = file[j].hash /\ file'[j].prev = file[j].prev
                             /\ file'[j].upto = file[j].upto
  BY <1>4, <1>5
<1>7. altered' \in 0..MaxAlter /\ altered' # 0
  BY <1>1, BoundsAssumption DEF LedgerInv, Types
<1>8. Types' /\ RoomLeft'
  BY <1>1, <1>5, <1>7 DEF LedgerInv, Types, RoomLeft
<1>9. HolderWorks' /\ HolderHasText' /\ LastHashIsFresh' /\ WrittenIsLast'
  BY <1>1, NobodyWorks
<1>10. HashLengths' /\ (~cut => AllFull(file))'
  BY <1>1, <1>5, <1>6 DEF LedgerInv, HashLengths, AllFull
<1>11. (Sound => Chain(file))' /\ AckedSurvives'
  BY <1>7 DEF Sound, AckedSurvives
<1>12. AlterationShows'
  <2> SUFFICES ASSUME altered' = 1, ~cut PROVE Broken(file', i)
    BY <1>1, <1>2 DEF AlterationShows
  <2>1. Sound
    BY <1>1 DEF LedgerInv, Types, Sound
  <2>2. file[i].hash = Append(file[i].prev, file[i].stored)
    BY <2>1 DEF LedgerInv, Chain, Linked
  <2>3. file[i].prev \in Hashes /\ file[i].stored \in Stored
    BY <1>2 DEF Pieces
  <2>4. Append(file[i].prev, r) # Append(file[i].prev, file[i].stored)
    BY <1>1, <1>3, <2>3 DEF Hashes
  <2> QED BY <1>3, <1>4, <1>5, <2>2, <2>4 DEF Broken, record_hash
<1> QED BY <1>8, <1>9, <1>10, <1>11, <1>12 DEF LedgerInv

\* The piece after a removed one takes its place.
LEMMA RemoveIs ==
  ASSUME NEW f \in Seq(Pieces), NEW i \in 1..Len(f)
  PROVE  LET g == RemoveAt(f, i) IN
         /\ g \in Seq(Pieces) /\ Len(g) = Len(f) - 1
         /\ \A j \in 1..(Len(f) - 1) : g[j] = IF j < i THEN f[j] ELSE f[j + 1]
<1> DEFINE x == SubSeq(f, 1, i - 1)
           y == SubSeq(f, i + 1, Len(f))
<1>1. Len(f) \in Nat /\ i \in Nat /\ i >= 1 /\ i <= Len(f)
  OBVIOUS
<1>2. x \in Seq(Pieces) /\ Len(x) = i - 1 /\ \A j \in 1..(i - 1) : x[j] = f[j]
  BY <1>1
<1>3. y \in Seq(Pieces) /\ Len(y) = Len(f) - i /\ \A j \in 1..(Len(f) - i) : y[j] = f[i + j]
  BY <1>1
<1> HIDE DEF x, y
<1>4. /\ x \o y \in Seq(Pieces) /\ Len(x \o y) = Len(f) - 1
      /\ \A j \in 1..(Len(f) - 1) :
           (x \o y)[j] = IF j <= i - 1 THEN x[j] ELSE y[j - (i - 1)]
  <2>1. Len(x) + Len(y) = Len(f) - 1
    BY <1>1, <1>2, <1>3
  <2>2. /\ x \o y \in Seq(Pieces) /\ Len(x \o y) = Len(x) + Len(y)
        /\ \A j \in 1..(Len(x) + Len(y)) :
             (x \o y)[j] = IF j <= Len(x) THEN x[j] ELSE y[j - Len(x)]
    BY <1>2, <1>3, ConcatProperties
  <2> QED BY <1>2, <2>1, <2>2
<1>5. ASSUME NEW j \in 1..(Len(f) - 1)
      PROVE  (x \o y)[j] = IF j < i THEN f[j] ELSE f[j + 1]
  <2>1. CASE j < i
    BY <1>1, <1>2, <1>4, <2>1
  <2>2. CASE ~(j < i)
    <3>1. j - (i - 1) \in 1..(Len(f) - i) /\ i + (j - (i - 1)) = j + 1 /\ ~(j <= i - 1)
      BY <1>1, <2>2
    <3> QED BY <1>3, <1>4, <2>2, <3>1
  <2> QED BY <2>1, <2>2
<1> QED BY <1>4, <1>5 DEF RemoveAt, x, y

LEMMA RemoveRecordInv ==
  ASSUME LedgerInv, NEW i \in 1..Len(file), RemoveRecord(i)
  PROVE  LedgerInv'
<1>1. /\ altered < MaxAlter /\ lock = None /\ i < durable
      /\ file' = RemoveAt(file, i) /\ durable' = durable - 1 /\ altered' = altered + 1
      /\ UNCHANGED <<lock, at, text, previous_hash, faults, cut, acked>>
  BY DEF RemoveRecord
<1>2. file \in Seq(Pieces) /\ Len(file) \in Nat /\ durable \in 0..Len(file)
  BY DEF LedgerInv, Types
<1>3. /\ file' \in Seq(Pieces) /\ Len(file') = Len(file) - 1
      /\ \A j \in 1..(Len(file) - 1) : file'[j] = IF j < i THEN file[j] ELSE file[j + 1]
  BY <1>1, <1>2, RemoveIs
<1>4. ASSUME NEW j \in 1..Len(file') PROVE \E k \in 1..Len(file) : file'[j] = file[k]
  <2>1. j \in 1..Len(file) /\ j + 1 \in 1..Len(file) /\ j \in 1..(Len(file) - 1)
    BY <1>2, <1>3
  <2> QED BY <1>3, <2>1
<1>5. altered' \in 0..MaxAlter /\ altered' # 0 /\ durable' \in 0..Len(file')
  BY <1>1, <1>2, <1>3, BoundsAssumption DEF LedgerInv, Types
<1>6. Types'
  BY <1>1, <1>3, <1>5 DEF LedgerInv, Types
<1>7. HolderWorks' /\ HolderHasText' /\ LastHashIsFresh' /\ WrittenIsLast'
  BY <1>1, NobodyWorks
<1>8. RoomLeft'
  <2>1. Len(file') <= MaxPieces
    BY <1>2, <1>3, BoundsAssumption DEF LedgerInv, RoomLeft
  <2>2. \A a \in Appenders : at'[a] = "idle"
    BY <1>1, NobodyWorks
  <2> QED BY <2>1, <2>2 DEF RoomLeft
<1>9. HashLengths' /\ (~cut => AllFull(file))'
  BY <1>1, <1>4 DEF LedgerInv, HashLengths, AllFull
<1>10. (Sound => Chain(file))' /\ AckedSurvives'
  BY <1>5 DEF Sound, AckedSurvives
<1>11. AlterationShows'
  <2> SUFFICES ASSUME altered' = 1, ~cut PROVE Broken(file', i) /\ i \in 1..durable'
    BY <1>1 DEF AlterationShows
  <2>1. Sound
    BY <1>1 DEF LedgerInv, Types, Sound
  <2>2. i + 1 \in 1..Len(file) /\ i \in 1..(Len(file) - 1) /\ i \in 1..durable'
    BY <1>1, <1>2
  <2>3. /\ file[i].prev = Before(file, i)
        /\ file[i + 1].prev = Before(file, i + 1)
    BY <2>1, <2>2 DEF LedgerInv, Chain, Linked
  <2>4. Before(file, i + 1) = file[i].hash
    BY <2>2 DEF Before
  <2>5. Before(file', i) = Before(file, i)
    <3>1. i # 1 => i - 1 \in 1..(Len(file) - 1) /\ i - 1 < i
      BY <2>2
    <3> QED BY <1>3, <3>1 DEF Before
  <2>6. file'[i] = file[i + 1]
    BY <1>3, <2>2
  <2>7. file[i].prev # file[i].hash
    <3>1. Len(file[i].hash) = Len(file[i].prev) + 1
      BY DEF LedgerInv, HashLengths
    <3>2. file[i] \in Pieces
      BY <1>2
    <3>3. Len(file[i].prev) \in Nat
      BY <3>2 DEF Pieces, Hashes
    <3> QED BY <3>1, <3>3
  <2> QED BY <2>2, <2>3, <2>4, <2>5, <2>6, <2>7 DEF Broken
<1> QED BY <1>6, <1>7, <1>8, <1>9, <1>10, <1>11 DEF LedgerInv
-----------------------------------------------------------------------------
LEMMA NextInv == LedgerInv /\ [Next]_vars => LedgerInv'
<1> SUFFICES ASSUME LedgerInv, [Next]_vars PROVE LedgerInv'
  OBVIOUS
<1>1. ASSUME NEW a \in Appenders, NEW t \in Plain \cup Special, Lock(a, t) PROVE LedgerInv'
  BY <1>1, LockInv
<1>2. ASSUME NEW a \in Appenders,
             ReadLast(a) \/ Write(a) \/ Sync(a) \/ SyncFails(a) \/ Killed(a)
      PROVE  LedgerInv'
  BY <1>2, ReadLastInv, WriteInv, SyncInv, StopInv
<1>3. ASSUME NEW a \in Appenders, NEW u \in Cuts, WriteFails(a, u) PROVE LedgerInv'
  BY <1>3, WriteFailsInv
<1>4. ASSUME NEW n \in 0..MaxPieces, PowerLoss(n) PROVE LedgerInv'
  BY <1>4, PowerLossInv
<1>5. ASSUME NEW i \in 1..Len(file), NEW t \in Plain, AlterText(i, Raw(t)) PROVE LedgerInv'
  BY <1>5, AlterTextInv
<1>6. ASSUME NEW i \in 1..Len(file), RemoveRecord(i) PROVE LedgerInv'
  BY <1>6, RemoveRecordInv
<1>7. CASE UNCHANGED vars
  BY <1>7 DEF vars, LedgerInv, Types, HolderWorks, HolderHasText, RoomLeft, HashLengths,
       AllFull, Sound, Chain, Linked, Before, LastHashIsFresh, WrittenIsLast,
       AlterationShows, Broken, AckedSurvives
<1> QED BY <1>1, <1>2, <1>3, <1>4, <1>5, <1>6, <1>7 DEF Next

LEMMA LedgerInvariant == Spec => []LedgerInv
BY InitInv, NextInv, PTL DEF Spec

\* Types, flock as mutual exclusion and the length of every hash, for any
\* number of programs, pieces and faults.
THEOREM TypeCorrect == Spec => []TypeOK
<1>1. LedgerInv => TypeOK
  <2> SUFFICES ASSUME LedgerInv PROVE TypeOK
    OBVIOUS
  <2>1. ASSUME NEW i \in 1..Len(file)
        PROVE  /\ file[i].stored.text \in Plain \cup Special
               /\ file[i].upto \in Cuts \cup {"full"}
    <3>1. file[i] \in Pieces
      BY DEF LedgerInv, Types
    <3> QED BY <3>1 DEF Pieces, Stored, Texts
  <2> QED BY <2>1 DEF LedgerInv, Types, HolderWorks, RoomLeft, HashLengths, Places, TypeOK
<1> QED BY <1>1, LedgerInvariant, PTL

\* verify accepts what append wrote, whichever programs appended, were killed
\* or lost what they had not synced.
THEOREM HonestIsAccepted == Spec => []NoFalseAlarm
<1>1. LedgerInv => NoFalseAlarm
  <2> SUFFICES ASSUME LedgerInv, Sound,
                      \A i \in 1..Len(file) : file[i].stored.text \in Plain
               PROVE  chrono_ledger_verify(file)
    BY DEF NoFalseAlarm
  <2>1. file \in Seq(Pieces) /\ AllFull(file) /\ Chain(file)
    BY DEF LedgerInv, Types, Sound
  <2> QED BY <2>1, ChainVerifies
<1> QED BY <1>1, LedgerInvariant, PTL

\* verify reports one edited or removed record for ever, whatever is appended
\* after it.  Two alterations may undo each other, so one is assumed.
THEOREM OneAlterationShows ==
  ASSUME MaxAlter <= 1
  PROVE  Spec => []AlterationDetected
<1>1. LedgerInv => AlterationDetected
  <2> SUFFICES ASSUME LedgerInv, altered > 0, ~cut PROVE ~chrono_ledger_verify(file)
    BY DEF AlterationDetected
  <2>1. altered = 1
    BY BoundsAssumption DEF LedgerInv, Types
  <2>2. file \in Seq(Pieces) /\ AllFull(file)
    BY DEF LedgerInv, Types
  <2>3. PICK i \in 1..durable : Broken(file, i)
    BY <2>1 DEF LedgerInv, AlterationShows
  <2>4. i \in 1..Len(file)
    BY DEF LedgerInv, Types
  <2> QED BY <2>2, <2>3, <2>4, FullStarts, FullVerifies DEF chrono_ledger_verify
<1> QED BY <1>1, LedgerInvariant, PTL

\* fsync before the answer: a record whose append returned 0 outlives every
\* kill, failed write and power loss.
THEOREM AckedIsKept == Spec => []AckedSurvives
<1>1. LedgerInv => AckedSurvives
  BY DEF LedgerInv
<1> QED BY <1>1, LedgerInvariant, PTL
=============================================================================
