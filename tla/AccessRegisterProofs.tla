------------------------ MODULE AccessRegisterProofs ------------------------
(***************************************************************************)
(* The visitors' register, for any number of visitors, commands, windows   *)
(* and kills: the gate lets nobody in without a window a resident granted, *)
(* and follows grants and revocations that did not disturb each other.     *)
(* With it the types of all programs of MCFieldPrograms.                   *)
(***************************************************************************)
EXTENDS FieldProgramsProofs

LEMMA GateStep == [Next]_vars => [Gate!Next]_gateVars
BY DEF Next, vars, gateVars, coreVars, pidVars, canVars, modbusVars
-----------------------------------------------------------------------------
Revokes == {"copy", "remove", "rename"}
Grant(l) == [n |-> l.n, id |-> l.id, exp |-> l.exp]
Numbers == {g.n : g \in granted}
Record(op, id, ino, text, marked) ==
  [op |-> op, id |-> id, ino |-> ino, text |-> text, marked |-> marked]

\* What a command that runs holds.
GateCommands ==
  [op : {"idle", "grant"} \cup Revokes, id : Visitors \cup {Gate!Idle.id},
   ino : Gate!Inodes \cup {0}, text : Seq(Gate!Lines), marked : SUBSET (1..MaxCommands)]

GateType ==
  /\ data \in [Gate!Inodes -> Seq(Gate!Lines)]
  /\ db \in Gate!Inodes \cup {0} /\ tmp \in Gate!Inodes \cup {0}
  /\ db = tmp => db = 0
  /\ command \in [Commands -> GateCommands]
  /\ \A c \in Commands :
       /\ command[c].op = "idle" <=> command[c].ino = 0
       /\ command[c].op = "idle" => command[c] = Gate!Idle
  /\ now \in 0..MaxTime /\ issued \in 0..MaxCommands /\ crashes \in 0..MaxCrashes
  /\ granted \subseteq [n : 1..issued, id : Visitors, exp : Int]
  /\ disturbed \in BOOLEAN /\ torn \in BOOLEAN

\* No file and no copy has a line nobody granted, and nothing else is revoked.
LinesGranted ==
  /\ \A i \in Gate!Inodes : \A j \in 1..Len(data[i]) : Grant(data[i][j]) \in granted
  /\ \A c \in Commands : command[c].op \in Revokes =>
       /\ \A j \in 1..Len(command[c].text) : Grant(command[c].text[j]) \in granted
       /\ command[c].marked \subseteq Numbers
  /\ revoked \subseteq Numbers /\ lost \subseteq Numbers

GrantsDiffer == \A g, h \in granted : g.n = h.n => g = h

\* A grant under way carries one line, with a number no other grant has.
Pending ==
  /\ \A c \in Commands : command[c].op = "grant" =>
       /\ Len(command[c].text) = 1 /\ command[c].text[1].n \in 1..issued
       /\ command[c].text[1].n \notin Numbers
  /\ \A c, d \in Commands :
       command[c].op = "grant" /\ command[d].op = "grant"
         /\ command[c].text[1].n = command[d].text[1].n => c = d

GateBase == GateType /\ LinesGranted /\ GrantsDiffer /\ Pending

\* A file with a line for every grant that is not lost, active unless its number
\* is in R.
Faithful(f, R) ==
  /\ \A g \in granted : g.n \notin lost => \E j \in 1..Len(f) : Grant(f[j]) = g
  /\ \A j \in 1..Len(f) : f[j].active <=> f[j].n \notin R /\ f[j].n \notin lost

\* While no revoke is overlapped or killed the register is faithful; during a
\* revoke its copy is, to what will be revoked then.
Undisturbed ==
  /\ \A c, d \in Commands : command[c].op \in Revokes /\ c # d => command[d].op = "idle"
  /\ \A c \in Commands : command[c].op = "grant" => command[c].ino = db
  /\ (\A c \in Commands : command[c].op \notin Revokes) =>
       Faithful(IF db = 0 THEN <<>> ELSE data[db], revoked)
  /\ \A c \in Commands : command[c].op \in Revokes =>
       /\ tmp = command[c].ino
       /\ Faithful(command[c].text, revoked \cup command[c].marked)
       /\ data[command[c].ino] = IF command[c].op = "copy" THEN <<>> ELSE command[c].text
-----------------------------------------------------------------------------
\* The gate reads and counts from the smallest number on.
LEMMA GateMin ==
  ASSUME NEW S \in SUBSET Nat, S # {}
  PROVE  Gate!Min(S) \in S /\ \A y \in S : Gate!Min(S) <= y
<1>1. Gate!Min(S) = Can!Min(S)
  BY DEF Gate!Min, Can!Min
<1> QED BY <1>1, FirstIs

LEMMA InodesAre ==
  /\ Cardinality(Commands) \in Nat
  /\ Gate!Inodes = 1..(Cardinality(Commands) + 2)
  /\ 0 \notin Gate!Inodes /\ Gate!Inodes \subseteq Nat
  /\ Gate!NoFile = 0
<1>1. Cardinality(Commands) \in Nat
  BY FS_CardinalityType, RegisterAssumption
<1>2. Gate!Cardinality(Commands) = Cardinality(Commands)
  BY DEF Gate!Cardinality, Cardinality
<1> QED BY <1>1, <1>2 DEF Gate!Inodes, Gate!NoFile

\* fopen finds a free inode: a slot is idle and one of the two names is unused.
LEMMA FreeInode ==
  ASSUME NEW x, command \in [Commands -> GateCommands],
         NEW c \in Commands, command[c].ino = 0
  PROVE  \E i \in Gate!Inodes : i # x /\ \A d \in Commands : command[d].ino # i
<1> DEFINE f == [d \in Commands |-> command[d].ino]
           T == {command[d].ino : d \in Commands}
<1>1. f \in Surjection(Commands, T)
  BY DEF Surjection
<1>2. IsFiniteSet(T) /\ Cardinality(T) <= Cardinality(Commands)
  BY <1>1, FS_Surjection, RegisterAssumption
<1> HIDE DEF f, T
<1>3. IsFiniteSet(T \cup {x}) /\ Cardinality(T \cup {x}) <= Cardinality(Commands) + 1
  <2>1. Cardinality(T) \in Nat
    BY <1>2, FS_CardinalityType
  <2>2. IsFiniteSet(T \cup {x}) /\ Cardinality(T \cup {x}) =
          IF x \in T THEN Cardinality(T) ELSE Cardinality(T) + 1
    BY <1>2, FS_AddElement
  <2> QED BY <1>2, <2>1, <2>2, InodesAre
<1>4. Cardinality(Gate!Inodes) = Cardinality(Commands) + 2
  BY InodesAre, FS_Interval
<1>5. ~ (Gate!Inodes \subseteq T \cup {x})
  <2>1. Cardinality(T \cup {x}) \in Nat
    BY <1>3, FS_CardinalityType
  <2>2. Gate!Inodes \subseteq T \cup {x} => Cardinality(Gate!Inodes) <= Cardinality(T \cup {x})
    BY <1>3, FS_Subset
  <2> QED BY <1>3, <1>4, <2>1, <2>2, InodesAre
<1> QED BY <1>5 DEF T

\* The inode is in use nowhere.
LEMMA NewIsFree ==
  ASSUME GateType, NEW c \in Commands, command[c] = Gate!Idle, db = 0 \/ tmp = 0
  PROVE  /\ Gate!NewInode \in Gate!Inodes /\ Gate!NewInode \notin {db, tmp, 0}
         /\ \A d \in Commands : command[d].ino # Gate!NewInode
<1> DEFINE S == {i \in Gate!Inodes : i \notin {db, tmp} /\ \A d \in Commands : command[d].ino # i}
<1>1. command[c].ino = 0
  <2>1. Gate!Idle.ino = Gate!NoFile
    BY DEF Gate!Idle
  <2> QED BY <2>1, InodesAre
<1>2. \E i \in Gate!Inodes : i \notin {db, tmp} /\ \A d \in Commands : command[d].ino # i
  <2>1. \E x : {db, tmp} \subseteq {x, 0}
    OBVIOUS
  <2>2. PICK x : {db, tmp} \subseteq {x, 0}
    BY <2>1
  <2>3. PICK i \in Gate!Inodes : i # x /\ \A d \in Commands : command[d].ino # i
    BY <1>1, FreeInode DEF GateType
  <2> QED BY <2>2, <2>3, InodesAre
<1>3. S # {} /\ S \in SUBSET Nat
  BY <1>2, InodesAre
<1>4. Gate!NewInode = Gate!Min(S)
  BY DEF Gate!NewInode
<1>5. Gate!NewInode \in S
  BY <1>3, <1>4, GateMin
<1> QED BY <1>5, InodesAre
-----------------------------------------------------------------------------
LEMMA IdleIs ==
  /\ Gate!Idle \in GateCommands
  /\ Gate!Idle.op = "idle" /\ Gate!Idle.ino = 0 /\ "idle" \notin Revokes /\ "grant" \notin Revokes
<1>1. <<>> \in Seq(Gate!Lines)
  OBVIOUS
<1>2. Gate!Idle = Record("idle", Gate!Idle.id, 0, <<>>, {})
  BY InodesAre DEF Gate!Idle, Record
<1>3. Record("idle", Gate!Idle.id, 0, <<>>, {}) \in GateCommands
  BY <1>1 DEF GateCommands, Record
<1>4. Gate!Idle.op = "idle" /\ Gate!Idle.ino = 0
  BY InodesAre DEF Gate!Idle
<1> QED BY <1>2, <1>3, <1>4 DEF Revokes

LEMMA LineIs ==
  ASSUME now \in 0..MaxTime, issued \in 0..MaxCommands, issued < MaxCommands,
         NEW id \in Visitors, NEW hours \in Hours, NEW plain \in BOOLEAN
  PROVE  /\ Gate!Line(issued + 1, id, now + hours, plain) \in Gate!Lines
         /\ Gate!Line(issued + 1, id, now + hours, plain).n = issued + 1
<1>1. Gate!Max(Hours) \in Hours /\ \A g \in Hours : Gate!Max(Hours) >= g
  BY HoursAssumption DEF Gate!Max
<1>2. Gate!Max(Hours) \in Nat /\ hours \in Nat /\ hours <= Gate!Max(Hours)
  BY <1>1, HoursAssumption
<1> DEFINE m == Gate!Max(Hours)
<1> HIDE DEF m
<1>3. now + hours \in 0..(MaxTime + m)
  BY <1>2, RegisterAssumption DEF m
<1>4. issued + 1 \in 1..MaxCommands
  BY RegisterAssumption
<1> QED BY <1>3, <1>4 DEF Gate!Lines, Gate!Line, m

\* A line is a grant with a mark.
LEMMA LineFields ==
  ASSUME NEW l \in Gate!Lines
  PROVE  /\ l.n \in Nat /\ l.id \in Visitors /\ l.exp \in Int /\ l.active \in BOOLEAN
         /\ l.exp \in Nat
         /\ l = Gate!Line(l.n, l.id, l.exp, l.active)
<1>1. Gate!Max(Hours) \in Nat
  BY HoursAssumption DEF Gate!Max
<1> DEFINE m == Gate!Max(Hours)
<1>2. l \in [n : 1..MaxCommands, id : Visitors, exp : 0..(MaxTime + m), active : BOOLEAN]
  BY DEF Gate!Lines
<1> HIDE DEF m
<1>3. m \in Nat
  BY <1>1 DEF m
<1> QED BY <1>2, <1>3, RegisterAssumption DEF Gate!Line
-----------------------------------------------------------------------------
\* Nothing but the command of one slot moves: what holds of the others stays.
LEMMA BaseGrantOpen ==
  ASSUME GateBase, NEW c \in Commands, NEW id \in Visitors, NEW hours \in Hours,
         NEW plain \in BOOLEAN, Gate!GrantOpen(c, id, hours, plain)
  PROVE  GateBase'
<1> DEFINE ino == IF db = 0 THEN Gate!NewInode ELSE db
           line == Gate!Line(issued + 1, id, now + hours, plain)
           r == Record("grant", id, ino, <<line>>, {})
<1>1. /\ command[c] = Gate!Idle /\ issued < MaxCommands
      /\ db' = ino
      /\ data' = IF db = 0 THEN [data EXCEPT ![ino] = <<>>] ELSE data
      /\ command' = [command EXCEPT ![c] = r]
      /\ issued' = issued + 1
      /\ disturbed' = (disturbed \/ Gate!Revoking)
      /\ UNCHANGED <<tmp, now, crashes, granted, revoked, lost, torn>>
  BY InodesAre DEF Gate!GrantOpen, Gate!Begins, Record
<1>2. ino \in Gate!Inodes /\ ino # tmp /\ ino # 0
  BY <1>1, NewIsFree, InodesAre DEF GateBase, GateType
<1>3. line \in Gate!Lines /\ line.n = issued + 1
  BY <1>1, LineIs DEF GateBase, GateType
<1> HIDE DEF line, ino
<1>4. <<line>> \in Seq(Gate!Lines) /\ Len(<<line>>) = 1 /\ <<line>>[1] = line
  BY <1>3
<1>5. /\ r \in GateCommands /\ r.op = "grant" /\ r.ino = ino /\ r.text = <<line>>
  BY <1>2, <1>4 DEF GateCommands, Record
<1> HIDE DEF r
<1>6. /\ command' \in [Commands -> GateCommands] /\ command'[c] = r
      /\ \A d \in Commands : d # c => command'[d] = command[d]
  BY <1>1, <1>5 DEF GateBase, GateType
<1>7. issued \in Nat /\ issued' \in 0..MaxCommands /\ 1..issued \subseteq 1..issued'
  BY <1>1, RegisterAssumption DEF GateBase, GateType
<1>8. disturbed' \in BOOLEAN
  BY <1>1 DEF GateBase, GateType, Gate!Revoking
<1>9. data' \in [Gate!Inodes -> Seq(Gate!Lines)]
  <2>1. <<>> \in Seq(Gate!Lines)
    OBVIOUS
  <2> QED BY <1>1, <1>2, <2>1 DEF GateBase, GateType
<1>10. granted' \subseteq [n : 1..issued', id : Visitors, exp : Int]
  <2>1. \A g \in granted : g \in [n : 1..issued, id : Visitors, exp : Int]
    BY DEF GateBase, GateType
  <2>2. \A g \in granted : g \in [n : 1..issued', id : Visitors, exp : Int]
    BY <2>1, <1>7
  <2> QED BY <1>1, <2>2
<1>11. GateType'
  <2>1. \A d \in Commands : /\ command'[d].op = "idle" <=> command'[d].ino = 0
                            /\ command'[d].op = "idle" => command'[d] = Gate!Idle
    BY <1>2, <1>5, <1>6 DEF GateBase, GateType
  <2> QED BY <1>1, <1>2, <1>6, <1>7, <1>8, <1>9, <1>10, <2>1 DEF GateBase, GateType
<1>12. LinesGranted'
  <2>1. \A i \in Gate!Inodes : data'[i] = data[i] \/ data'[i] = <<>>
    BY <1>1, <1>2 DEF GateBase, GateType
  <2>2. ASSUME NEW i \in Gate!Inodes, NEW j \in 1..Len(data'[i])
        PROVE  Grant(data'[i][j]) \in granted
    BY <2>1 DEF GateBase, LinesGranted
  <2>3. ASSUME NEW d \in Commands, command'[d].op \in Revokes
        PROVE  d # c /\ command'[d] = command[d]
    BY <1>5, <1>6, <2>3, IdleIs
  <2> QED BY <1>1, <2>2, <2>3 DEF GateBase, LinesGranted, Numbers
<1>13. GrantsDiffer'
  BY <1>1 DEF GateBase, GrantsDiffer
<1>14. Pending'
  <2>1. issued + 1 \notin Numbers
    BY <1>7 DEF GateBase, GateType, Numbers
  <2>2. Numbers' = Numbers
    BY <1>1 DEF Numbers
  <2>3. ASSUME NEW d \in Commands, command'[d].op = "grant", d # c
        PROVE  /\ Len(command'[d].text) = 1 /\ command'[d].text[1].n \in 1..issued
               /\ command'[d].text[1].n \notin Numbers
    BY <1>6, <2>3 DEF GateBase, Pending
  <2>4. /\ Len(command'[c].text) = 1 /\ command'[c].text[1].n = issued + 1
    BY <1>3, <1>4, <1>5, <1>6
  <2>5. ASSUME NEW d \in Commands, NEW e \in Commands, d # c, e # c,
               command'[d].op = "grant", command'[e].op = "grant",
               command'[d].text[1].n = command'[e].text[1].n
        PROVE  d = e
    BY <1>6, <2>5 DEF GateBase, Pending
  <2>6. issued + 1 \in 1..issued'
    BY <1>1, <1>7
  <2>7. \A d \in Commands : command'[d].op = "grant" =>
          /\ Len(command'[d].text) = 1 /\ command'[d].text[1].n \in 1..issued'
          /\ command'[d].text[1].n \notin Numbers'
    BY <1>7, <2>1, <2>2, <2>3, <2>4, <2>6
  <2>8. ASSUME NEW d \in Commands, command'[d].op = "grant", d # c
        PROVE  command'[d].text[1].n # command'[c].text[1].n
    <3>1. command'[d].text[1].n \in 1..issued
      BY <2>3, <2>8
    <3>2. issued + 1 \notin 1..issued
      BY <1>7
    <3> QED BY <2>4, <3>1, <3>2
  <2>9. \A d, e \in Commands :
          command'[d].op = "grant" /\ command'[e].op = "grant"
            /\ command'[d].text[1].n = command'[e].text[1].n => d = e
    BY <2>5, <2>8
  <2> QED BY <2>7, <2>9 DEF Pending
<1> QED BY <1>11, <1>12, <1>13, <1>14 DEF GateBase

\* A command ends: its slot is idle and the others are what they were.
LEMMA SlotCleared ==
  ASSUME GateType, NEW c \in Commands, command' = [command EXCEPT ![c] = Gate!Idle]
  PROVE  /\ command' \in [Commands -> GateCommands]
         /\ command'[c] = Gate!Idle /\ command'[c].op = "idle"
         /\ \A d \in Commands : d # c => command'[d] = command[d]
         /\ \A d \in Commands : /\ command'[d].op = "idle" <=> command'[d].ino = 0
                                /\ command'[d].op = "idle" => command'[d] = Gate!Idle
         /\ \A d \in Commands : command'[d].op # "idle" => d # c /\ command'[d] = command[d]
<1>1. /\ command' \in [Commands -> GateCommands] /\ command'[c] = Gate!Idle
      /\ \A d \in Commands : d # c => command'[d] = command[d]
  BY IdleIs DEF GateType
<1> QED BY <1>1, IdleIs DEF GateType

\* The line is written, or is not.
LEMMA BaseGrantWrite ==
  ASSUME GateBase, NEW c \in Commands,
         Gate!GrantWrite(c) \/ \E part \in BOOLEAN : Gate!GrantWriteFails(c, part)
  PROVE  GateBase'
<1> DEFINE ino == command[c].ino
           line == Head(command[c].text)
           written == [data EXCEPT ![ino] = Append(data[ino], line)]
<1>0. crashes' \in 0..MaxCrashes /\ torn' \in BOOLEAN
  <2>1. CASE Gate!GrantWrite(c)
    BY <2>1 DEF Gate!GrantWrite, GateBase, GateType
  <2>2. ASSUME NEW part \in BOOLEAN, Gate!GrantWriteFails(c, part)
        PROVE  crashes' \in 0..MaxCrashes /\ torn' \in BOOLEAN
    <3>1. torn' \in BOOLEAN
      BY <2>2 DEF Gate!GrantWriteFails
    <3> QED BY <2>2, <3>1, RegisterAssumption DEF Gate!GrantWriteFails, GateBase, GateType
  <2> QED BY <2>1, <2>2
<1>1. /\ command[c].op = "grant"
      /\ data' = data \/ data' = written
      /\ granted' = granted \cup {Grant(line)} /\ lost' \subseteq lost \cup {line.n}
      /\ command' = [command EXCEPT ![c] = Gate!Idle]
      /\ UNCHANGED <<db, tmp, now, issued, revoked, disturbed>>
  BY DEF Gate!GrantWrite, Gate!GrantWriteFails, Gate!Announced, Grant
<1>2. ino \in Gate!Inodes /\ command[c].text \in Seq(Gate!Lines)
  BY <1>1 DEF GateBase, GateType, GateCommands
<1>3. /\ line = command[c].text[1] /\ line \in Gate!Lines /\ line.n \in 1..issued
      /\ line.n \notin Numbers
  BY <1>1, <1>2 DEF GateBase, Pending
<1> HIDE DEF ino, line
<1>4. /\ command' \in [Commands -> GateCommands]
      /\ \A d \in Commands : d # c => command'[d] = command[d]
      /\ \A d \in Commands : /\ command'[d].op = "idle" <=> command'[d].ino = 0
                             /\ command'[d].op = "idle" => command'[d] = Gate!Idle
      /\ \A d \in Commands : command'[d].op # "idle" => d # c /\ command'[d] = command[d]
  BY <1>1, SlotCleared DEF GateBase
<1>5. /\ Grant(line) \in [n : 1..issued, id : Visitors, exp : Int]
      /\ Grant(line).n = line.n
  BY <1>3, LineFields DEF Grant
<1>6. Numbers' = Numbers \cup {line.n}
  BY <1>1, <1>5 DEF Numbers
<1>7. data' \in [Gate!Inodes -> Seq(Gate!Lines)]
  <2>1. data \in [Gate!Inodes -> Seq(Gate!Lines)]
    BY DEF GateBase, GateType
  <2>2. Append(data[ino], line) \in Seq(Gate!Lines)
    BY <1>2, <1>3, <2>1
  <2>3. written \in [Gate!Inodes -> Seq(Gate!Lines)]
    BY <1>2, <2>1, <2>2
  <2> QED BY <1>1, <2>1, <2>3
<1>8. GateType'
  BY <1>0, <1>1, <1>4, <1>5, <1>7 DEF GateBase, GateType
<1>9. LinesGranted'
  <2>1. ASSUME NEW i \in Gate!Inodes, NEW j \in 1..Len(data'[i])
        PROVE  Grant(data'[i][j]) \in granted'
    <3>1. CASE i # ino \/ data' = data
      BY <1>1, <2>1, <3>1 DEF GateBase, GateType, LinesGranted
    <3>2. CASE i = ino /\ data' = written
      <4>1. data'[i] = Append(data[i], line) /\ data[i] \in Seq(Gate!Lines)
        BY <1>1, <1>2, <3>2 DEF GateBase, GateType
      <4>2. (j \in 1..Len(data[i]) /\ data'[i][j] = data[i][j]) \/ data'[i][j] = line
        BY <4>1, <1>3
      <4> QED BY <1>1, <4>2 DEF GateBase, LinesGranted
    <3> QED BY <1>1, <3>1, <3>2
  <2>2. ASSUME NEW d \in Commands, command'[d].op \in Revokes
        PROVE  command'[d] = command[d]
    BY <1>4, <2>2, IdleIs
  <2> QED BY <1>1, <1>6, <2>1, <2>2 DEF GateBase, LinesGranted
<1>10. GrantsDiffer'
  BY <1>1, <1>3, <1>5 DEF GateBase, GrantsDiffer, Numbers
<1>11. Pending'
  <2>1. ASSUME NEW d \in Commands, command'[d].op = "grant"
        PROVE  /\ d # c /\ command'[d] = command[d] /\ command[d].op = "grant"
               /\ command[d].text[1].n # line.n
    <3>1. d # c /\ command'[d] = command[d]
      BY <1>4, <2>1
    <3> QED BY <1>1, <1>3, <2>1, <3>1 DEF GateBase, Pending
  <2>2. \A d \in Commands : command'[d].op = "grant" =>
          /\ Len(command'[d].text) = 1 /\ command'[d].text[1].n \in 1..issued'
          /\ command'[d].text[1].n \notin Numbers'
    BY <1>1, <1>6, <2>1 DEF GateBase, Pending
  <2>3. \A d, e \in Commands :
          command'[d].op = "grant" /\ command'[e].op = "grant"
            /\ command'[d].text[1].n = command'[e].text[1].n => d = e
    BY <2>1 DEF GateBase, Pending
  <2> QED BY <2>2, <2>3 DEF Pending
<1> QED BY <1>8, <1>9, <1>10, <1>11 DEF GateBase

\* revoke reads the register: each line is there, marked if it is the visitor's.
Mark(l, id) == IF l.id = id THEN [l EXCEPT !.active = FALSE] ELSE l
CopyOf(f, id) == [i \in DOMAIN f |-> Mark(f[i], id)]
MarkedIn(f, id) == {l.n : l \in {x \in Gate!ToSet(f) : x.id = id /\ x.active}}

LEMMA MarkedLine ==
  ASSUME NEW A, NEW V, NEW E, NEW l \in [n : A, id : V, exp : E, active : BOOLEAN]
  PROVE  LET k == [l EXCEPT !.active = FALSE]
         IN  /\ k \in [n : A, id : V, exp : E, active : BOOLEAN]
             /\ k.n = l.n /\ k.id = l.id /\ k.exp = l.exp /\ k.active = FALSE
OBVIOUS

LEMMA CopyIs ==
  ASSUME NEW f \in Seq(Gate!Lines), NEW id
  PROVE  /\ CopyOf(f, id) \in Seq(Gate!Lines) /\ Len(CopyOf(f, id)) = Len(f)
         /\ \A j \in 1..Len(f) :
              /\ f[j] \in Gate!Lines
              /\ Grant(CopyOf(f, id)[j]) = Grant(f[j])
              /\ CopyOf(f, id)[j].n = f[j].n
              /\ CopyOf(f, id)[j].active <=> f[j].active /\ f[j].id # id
         /\ MarkedIn(f, id) \subseteq 1..MaxCommands
         /\ \A n : n \in MarkedIn(f, id) <=>
              \E j \in 1..Len(f) : f[j].n = n /\ f[j].id = id /\ f[j].active
<1>1. ASSUME NEW j \in 1..Len(f)
      PROVE  /\ f[j] \in Gate!Lines
             /\ CopyOf(f, id)[j] \in Gate!Lines
             /\ Grant(CopyOf(f, id)[j]) = Grant(f[j])
             /\ CopyOf(f, id)[j].n = f[j].n
             /\ CopyOf(f, id)[j].active <=> f[j].active /\ f[j].id # id
  <2>1. f[j] \in Gate!Lines
    OBVIOUS
  <2> DEFINE l == f[j]
             k == [l EXCEPT !.active = FALSE]
  <2>2. DOMAIN f = 1..Len(f)
    OBVIOUS
  <2>3. CopyOf(f, id)[j] = Mark(l, id)
    BY <2>2 DEF CopyOf
  <2>4. l \in Gate!Lines /\ l.active \in BOOLEAN
    BY <2>1, LineFields
  <2> HIDE DEF l
  <2>5. k \in Gate!Lines /\ k.n = l.n /\ k.id = l.id /\ k.exp = l.exp /\ k.active = FALSE
    BY <2>4, MarkedLine DEF Gate!Lines
  <2>6. Mark(l, id) = IF l.id = id THEN k ELSE l
    BY DEF Mark
  <2> HIDE DEF k
  <2> QED BY <2>3, <2>4, <2>5, <2>6 DEF Grant, l
<1>2. DOMAIN CopyOf(f, id) = 1..Len(f) /\ Len(f) \in Nat
  BY DEF CopyOf
<1>3. CopyOf(f, id) \in [1..Len(f) -> Gate!Lines]
  <2>1. CopyOf(f, id) = [i \in 1..Len(f) |-> CopyOf(f, id)[i]]
    BY <1>2 DEF CopyOf
  <2> QED BY <1>1, <2>1
<1>4. CopyOf(f, id) \in Seq(Gate!Lines) /\ Len(CopyOf(f, id)) = Len(f)
  BY <1>2, <1>3
<1>5. \A n : n \in MarkedIn(f, id) <=>
              \E j \in 1..Len(f) : f[j].n = n /\ f[j].id = id /\ f[j].active
  <2>1. \A x : x \in Gate!ToSet(f) <=> \E j \in 1..Len(f) : x = f[j]
    BY DEF Gate!ToSet
  <2>2. \A n : n \in MarkedIn(f, id) <=>
          \E x : x \in Gate!ToSet(f) /\ x.id = id /\ x.active /\ n = x.n
    BY DEF MarkedIn
  <2> QED BY <2>1, <2>2
<1>6. \A j \in 1..Len(f) : f[j].n \in 1..MaxCommands
  BY <1>1 DEF Gate!Lines
<1> QED BY <1>1, <1>4, <1>5, <1>6

\* A step that starts and ends no grant leaves the grants under way alone.
LEMMA PendingKept ==
  ASSUME GateBase, UNCHANGED granted, issued' \in Nat, issued <= issued',
         \A d \in Commands : command'[d].op = "grant" => command'[d] = command[d]
  PROVE  GrantsDiffer' /\ Pending'
<1>1. Numbers' = Numbers /\ GrantsDiffer'
  BY DEF Numbers, GateBase, GrantsDiffer
<1>2. 1..issued \subseteq 1..issued'
  BY DEF GateBase, GateType
<1>3. \A d \in Commands : command'[d].op = "grant" =>
          /\ Len(command'[d].text) = 1 /\ command'[d].text[1].n \in 1..issued'
          /\ command'[d].text[1].n \notin Numbers'
  BY <1>1, <1>2 DEF GateBase, Pending
<1>4. \A d, e \in Commands :
          command'[d].op = "grant" /\ command'[e].op = "grant"
            /\ command'[d].text[1].n = command'[e].text[1].n => d = e
  BY DEF GateBase, Pending
<1> QED BY <1>1, <1>3, <1>4 DEF Pending

LEMMA BaseRevokeOpen ==
  ASSUME GateBase, NEW c \in Commands, NEW id \in Visitors, Gate!RevokeOpen(c, id)
  PROVE  GateBase'
<1> DEFINE ino == IF tmp = 0 THEN Gate!NewInode ELSE tmp
           f == data[db]
           r == Record("copy", id, ino, CopyOf(f, id), MarkedIn(f, id))
<1>1. /\ command[c] = Gate!Idle /\ issued < MaxCommands /\ db # 0
      /\ tmp' = ino
      /\ data' = [data EXCEPT ![ino] = <<>>]
      /\ command' = [command EXCEPT ![c] = r]
      /\ issued' = issued + 1
      /\ disturbed' = (disturbed \/ Gate!Busy)
      /\ UNCHANGED <<db, now, crashes, granted, revoked, lost, torn>>
  BY InodesAre DEF Gate!RevokeOpen, Gate!Begins, Record, CopyOf, Mark, MarkedIn
<1>2. ino \in Gate!Inodes /\ ino # db /\ ino # 0 /\ db \in Gate!Inodes
  BY <1>1, NewIsFree, InodesAre DEF GateBase, GateType
<1>3. f \in Seq(Gate!Lines) /\ \A j \in 1..Len(f) : Grant(f[j]) \in granted
  BY <1>2 DEF GateBase, GateType, LinesGranted
<1> HIDE DEF ino, f
<1>4. /\ CopyOf(f, id) \in Seq(Gate!Lines)
      /\ \A j \in 1..Len(CopyOf(f, id)) : Grant(CopyOf(f, id)[j]) \in granted
      /\ MarkedIn(f, id) \subseteq 1..MaxCommands
  BY <1>3, CopyIs
<1>5. MarkedIn(f, id) \subseteq Numbers
  <2> SUFFICES ASSUME NEW n \in MarkedIn(f, id) PROVE n \in Numbers
    OBVIOUS
  <2>1. PICK j \in 1..Len(f) : f[j].n = n
    BY <1>3, CopyIs
  <2>2. Grant(f[j]).n = n /\ Grant(f[j]) \in granted
    BY <1>3, <2>1 DEF Grant
  <2> QED BY <2>2 DEF Numbers
<1>6. /\ r \in GateCommands /\ r.op = "copy" /\ r.ino = ino /\ r.text = CopyOf(f, id)
      /\ r.marked = MarkedIn(f, id)
  BY <1>2, <1>4 DEF GateCommands, Record, Revokes
<1> HIDE DEF r
<1>7. /\ command' \in [Commands -> GateCommands] /\ command'[c] = r
      /\ \A d \in Commands : d # c => command'[d] = command[d]
  BY <1>1, <1>6 DEF GateBase, GateType
<1>8. issued \in Nat /\ issued' \in 0..MaxCommands /\ 1..issued \subseteq 1..issued' /\ issued' \in Nat
  BY <1>1, RegisterAssumption DEF GateBase, GateType
<1>9. GateType'
  <2>1. disturbed' \in BOOLEAN
    BY <1>1 DEF GateBase, GateType, Gate!Busy
  <2>2. data' \in [Gate!Inodes -> Seq(Gate!Lines)]
    <3>1. <<>> \in Seq(Gate!Lines)
      OBVIOUS
    <3> QED BY <1>1, <1>2, <3>1 DEF GateBase, GateType
  <2>3. \A d \in Commands : /\ command'[d].op = "idle" <=> command'[d].ino = 0
                            /\ command'[d].op = "idle" => command'[d] = Gate!Idle
    BY <1>2, <1>6, <1>7 DEF GateBase, GateType
  <2>4. \A g \in granted : g \in [n : 1..issued, id : Visitors, exp : Int]
    BY DEF GateBase, GateType
  <2>5. granted' \subseteq [n : 1..issued', id : Visitors, exp : Int]
    BY <1>1, <1>8, <2>4
  <2> QED BY <1>1, <1>2, <1>7, <1>8, <2>1, <2>2, <2>3, <2>5 DEF GateBase, GateType
<1>10. LinesGranted'
  <2>1. \A i \in Gate!Inodes : data'[i] = data[i] \/ data'[i] = <<>>
    BY <1>1, <1>2 DEF GateBase, GateType
  <2>2. ASSUME NEW i \in Gate!Inodes, NEW j \in 1..Len(data'[i])
        PROVE  Grant(data'[i][j]) \in granted
    BY <2>1 DEF GateBase, LinesGranted
  <2>3. Numbers' = Numbers
    BY <1>1 DEF Numbers
  <2>4. ASSUME NEW d \in Commands, command'[d].op \in Revokes
        PROVE  /\ \A j \in 1..Len(command'[d].text) : Grant(command'[d].text[j]) \in granted
               /\ command'[d].marked \subseteq Numbers
    <3>1. CASE d = c
      BY <1>4, <1>5, <1>6, <1>7, <3>1
    <3>2. CASE d # c
      BY <1>7, <2>4, <3>2 DEF GateBase, LinesGranted
    <3> QED BY <3>1, <3>2
  <2> QED BY <1>1, <2>2, <2>3, <2>4 DEF GateBase, LinesGranted
<1>11. GrantsDiffer' /\ Pending'
  <2>1. \A d \in Commands : command'[d].op = "grant" => command'[d] = command[d]
    BY <1>6, <1>7
  <2> QED BY <1>1, <1>8, <2>1, PendingKept
<1> QED BY <1>9, <1>10, <1>11 DEF GateBase

\* A revoke goes on to its next file operation.
LEMMA OpMoves ==
  ASSUME GateType, NEW c \in Commands, command[c].op # "idle",
         NEW op \in Revokes, command' = [command EXCEPT ![c].op = op]
  PROVE  /\ command' \in [Commands -> GateCommands]
         /\ command'[c].op = op /\ command'[c].ino = command[c].ino
         /\ command'[c].text = command[c].text /\ command'[c].marked = command[c].marked
         /\ \A d \in Commands : d # c => command'[d] = command[d]
         /\ \A d \in Commands : /\ command'[d].op = "idle" <=> command'[d].ino = 0
                                /\ command'[d].op = "idle" => command'[d] = Gate!Idle
         /\ \A d \in Commands : command'[d].op = "grant" => command'[d] = command[d]
<1> DEFINE r == [command[c] EXCEPT !.op = op]
<1>1. command[c] \in GateCommands /\ op \in {"idle", "grant"} \cup Revokes
  BY DEF GateType
<1>2. command' = [command EXCEPT ![c] = r]
  BY DEF GateType
<1>3. /\ r \in GateCommands /\ r.op = op /\ r.ino = command[c].ino
      /\ r.text = command[c].text /\ r.marked = command[c].marked
  BY <1>1 DEF GateCommands
<1> HIDE DEF r
<1>4. /\ command' \in [Commands -> GateCommands] /\ command'[c] = r
      /\ \A d \in Commands : d # c => command'[d] = command[d]
  BY <1>2, <1>3 DEF GateType
<1>5. op # "idle" /\ op # "grant" /\ r.ino # 0
  BY <1>3, IdleIs DEF GateType
<1> QED BY <1>3, <1>4, <1>5 DEF GateType

\* The copy is written over what the file has.
LEMMA OverwriteIs ==
  ASSUME NEW S, NEW new \in Seq(S), NEW old \in Seq(S)
  PROVE  LET f == new \o SubSeq(old, Len(new) + 1, Len(old))
         IN  /\ f \in Seq(S)
             /\ \A j \in 1..Len(f) : \/ j \in 1..Len(new) /\ f[j] = new[j]
                                     \/ j \in 1..Len(old) /\ f[j] = old[j]
             /\ old = <<>> => f = new
<1> DEFINE rest == SubSeq(old, Len(new) + 1, Len(old))
           f == new \o rest
<1>1. Len(new) \in Nat /\ Len(old) \in Nat
  OBVIOUS
<1>2. /\ rest \in Seq(S)
      /\ Len(rest) = IF Len(new) + 1 <= Len(old) THEN Len(old) - Len(new) ELSE 0
      /\ \A k \in 1..Len(rest) : rest[k] = old[k + Len(new)]
  <2>1. CASE Len(new) + 1 <= Len(old)
    BY <1>1, <2>1
  <2>2. CASE ~(Len(new) + 1 <= Len(old))
    BY <1>1, <2>2
  <2> QED BY <2>1, <2>2
<1> HIDE DEF rest
<1>3. /\ f \in Seq(S) /\ Len(f) = Len(new) + Len(rest)
      /\ \A j \in 1..Len(f) : f[j] = IF j <= Len(new) THEN new[j] ELSE rest[j - Len(new)]
  BY <1>2
<1>4. ASSUME NEW j \in 1..Len(f)
      PROVE  \/ j \in 1..Len(new) /\ f[j] = new[j]
             \/ j \in 1..Len(old) /\ f[j] = old[j]
  <2>1. CASE j <= Len(new)
    BY <1>1, <1>3, <2>1
  <2>2. CASE ~(j <= Len(new))
    <3>1. j - Len(new) \in 1..Len(rest) /\ Len(rest) = Len(old) - Len(new)
      BY <1>1, <1>2, <1>3, <2>2
    <3>2. f[j] = rest[j - Len(new)] /\ rest[j - Len(new)] = old[(j - Len(new)) + Len(new)]
      BY <1>2, <1>3, <2>2, <3>1
    <3> QED BY <1>1, <1>3, <2>2, <3>1, <3>2
  <2> QED BY <2>1, <2>2
<1>5. old = <<>> => f = new
  <2> SUFFICES ASSUME old = <<>> PROVE f = new
    OBVIOUS
  <2>1. Len(rest) = 0
    BY <1>1, <1>2
  <2>2. rest = <<>>
    BY <1>2, <2>1
  <2> QED BY <2>2
<1> QED BY <1>3, <1>4, <1>5 DEF rest

LEMMA BaseRevokeCopy ==
  ASSUME GateBase, NEW c \in Commands, Gate!RevokeCopy(c)
  PROVE  GateBase'
<1> DEFINE ino == command[c].ino
           old == data[ino]
           new == command[c].text
           f == new \o SubSeq(old, Len(new) + 1, Len(old))
<1>1. /\ command[c].op = "copy"
      /\ data' = [data EXCEPT ![ino] = f]
      /\ command' = [command EXCEPT ![c].op = "remove"]
      /\ UNCHANGED <<db, tmp, now, issued, crashes, granted, revoked, disturbed, lost, torn>>
  BY DEF Gate!RevokeCopy
<1>2. ino \in Gate!Inodes /\ new \in Seq(Gate!Lines)
  BY <1>1 DEF GateBase, GateType, GateCommands
<1>3. old \in Seq(Gate!Lines)
  BY <1>2 DEF GateBase, GateType
<1>4. /\ \A j \in 1..Len(old) : Grant(old[j]) \in granted
      /\ \A j \in 1..Len(new) : Grant(new[j]) \in granted
  BY <1>1, <1>2 DEF GateBase, LinesGranted, Revokes
<1> HIDE DEF ino, old, new
<1>5. /\ f \in Seq(Gate!Lines)
      /\ \A j \in 1..Len(f) : \/ j \in 1..Len(new) /\ f[j] = new[j]
                              \/ j \in 1..Len(old) /\ f[j] = old[j]
  BY <1>2, <1>3, OverwriteIs
<1> HIDE DEF f
<1>6. \A j \in 1..Len(f) : Grant(f[j]) \in granted
  BY <1>4, <1>5
<1>7. /\ command' \in [Commands -> GateCommands]
      /\ command'[c].op = "remove" /\ command'[c].ino = command[c].ino
      /\ command'[c].text = command[c].text /\ command'[c].marked = command[c].marked
      /\ \A d \in Commands : d # c => command'[d] = command[d]
      /\ \A d \in Commands : /\ command'[d].op = "idle" <=> command'[d].ino = 0
                             /\ command'[d].op = "idle" => command'[d] = Gate!Idle
      /\ \A d \in Commands : command'[d].op = "grant" => command'[d] = command[d]
  <2>1. "remove" \in Revokes
    BY DEF Revokes
  <2> QED BY <1>1, <2>1, OpMoves DEF GateBase
<1>8. GateType'
  <2>1. data' \in [Gate!Inodes -> Seq(Gate!Lines)]
    BY <1>1, <1>2, <1>5 DEF GateBase, GateType
  <2> QED BY <1>1, <1>7, <2>1 DEF GateBase, GateType
<1>9. LinesGranted'
  <2>1. \A i \in Gate!Inodes : data'[i] = data[i] \/ data'[i] = f
    BY <1>1, <1>2 DEF GateBase, GateType
  <2>2. ASSUME NEW i \in Gate!Inodes, NEW j \in 1..Len(data'[i])
        PROVE  Grant(data'[i][j]) \in granted
    BY <1>6, <2>1 DEF GateBase, LinesGranted
  <2>3. Numbers' = Numbers
    BY <1>1 DEF Numbers
  <2>4. ASSUME NEW d \in Commands, command'[d].op \in Revokes
        PROVE  /\ command[d].op \in Revokes
               /\ command'[d].text = command[d].text /\ command'[d].marked = command[d].marked
    BY <1>1, <1>7, <2>4 DEF Revokes
  <2> QED BY <1>1, <2>2, <2>3, <2>4 DEF GateBase, LinesGranted
<1>10. GrantsDiffer' /\ Pending'
  <2>1. issued' \in Nat /\ issued <= issued'
    BY <1>1 DEF GateBase, GateType
  <2> QED BY <1>1, <1>7, <2>1, PendingKept
<1> QED BY <1>8, <1>9, <1>10 DEF GateBase

\* The next operation without a change of a file, and the removal of a name.
LEMMA BaseRevokeRemove ==
  ASSUME GateBase, NEW c \in Commands,
         Gate!RevokeRemove(c) \/ \E part \in BOOLEAN : Gate!RevokeCopyFails(c, part)
  PROVE  GateBase'
<1>0. crashes' \in 0..MaxCrashes /\ torn' \in BOOLEAN /\ disturbed' \in BOOLEAN
  <2>1. CASE Gate!RevokeRemove(c)
    BY <2>1 DEF Gate!RevokeRemove, GateBase, GateType
  <2>2. ASSUME NEW part \in BOOLEAN, Gate!RevokeCopyFails(c, part)
        PROVE  crashes' \in 0..MaxCrashes /\ torn' \in BOOLEAN /\ disturbed' \in BOOLEAN
    <3>1. torn' \in BOOLEAN
      BY <2>2 DEF Gate!RevokeCopyFails
    <3>2. disturbed' \in BOOLEAN
      BY <2>2 DEF Gate!RevokeCopyFails
    <3> QED BY <2>2, <3>1, <3>2, RegisterAssumption DEF Gate!RevokeCopyFails, GateBase, GateType
  <2> QED BY <2>1, <2>2
<1>1. PICK op \in {"remove", "rename"} :
      /\ command[c].op \in {"copy", "remove"} /\ db' \in {0, db}
      /\ command' = [command EXCEPT ![c].op = op]
      /\ UNCHANGED <<data, tmp, now, issued, granted, revoked, lost>>
  BY InodesAre DEF Gate!RevokeRemove, Gate!RevokeCopyFails
<1>2. /\ command' \in [Commands -> GateCommands]
      /\ command'[c].op = op /\ command'[c].ino = command[c].ino
      /\ command'[c].text = command[c].text /\ command'[c].marked = command[c].marked
      /\ \A d \in Commands : d # c => command'[d] = command[d]
      /\ \A d \in Commands : /\ command'[d].op = "idle" <=> command'[d].ino = 0
                             /\ command'[d].op = "idle" => command'[d] = Gate!Idle
      /\ \A d \in Commands : command'[d].op = "grant" => command'[d] = command[d]
  <2>1. op \in Revokes
    BY DEF Revokes
  <2> QED BY <1>1, <2>1, OpMoves DEF GateBase
<1>3. GateType'
  BY <1>0, <1>1, <1>2 DEF GateBase, GateType
<1>4. LinesGranted'
  <2>1. Numbers' = Numbers
    BY <1>1 DEF Numbers
  <2>2. ASSUME NEW d \in Commands, command'[d].op \in Revokes
        PROVE  /\ command[d].op \in Revokes
               /\ command'[d].text = command[d].text /\ command'[d].marked = command[d].marked
    BY <1>1, <1>2, <2>2 DEF Revokes
  <2> QED BY <1>1, <2>1, <2>2 DEF GateBase, LinesGranted
<1>5. GrantsDiffer' /\ Pending'
  <2>1. issued' \in Nat /\ issued <= issued'
    BY <1>1 DEF GateBase, GateType
  <2> QED BY <1>1, <1>2, <2>1, PendingKept
<1> QED BY <1>3, <1>4, <1>5 DEF GateBase

\* The end of a revoke, and of a command that is killed.
LEMMA BaseEnds ==
  ASSUME GateBase, NEW c \in Commands, Gate!RevokeRename(c) \/ Gate!Crash(c)
  PROVE  GateBase'
<1>1. /\ command' = [command EXCEPT ![c] = Gate!Idle]
      /\ UNCHANGED <<data, now, issued, granted, lost, torn>>
      /\ <<db', tmp'>> \in {<<db, tmp>>, <<db, 0>>, <<tmp, 0>>}
      /\ crashes' \in 0..MaxCrashes
      /\ revoked' = revoked \/ (revoked' = revoked \cup command[c].marked /\ command[c].op \in Revokes)
  <2>1. CASE Gate!RevokeRename(c)
    BY <2>1, InodesAre DEF Gate!RevokeRename, GateBase, GateType, Revokes
  <2>2. CASE Gate!Crash(c)
    BY <2>2, RegisterAssumption DEF Gate!Crash, GateBase, GateType
  <2> QED BY <2>1, <2>2
<1>2. disturbed' \in BOOLEAN
  <2>1. CASE Gate!RevokeRename(c)
    BY <2>1 DEF Gate!RevokeRename, GateBase, GateType
  <2>2. CASE Gate!Crash(c)
    BY <2>2 DEF Gate!Crash, GateBase, GateType
  <2> QED BY <2>1, <2>2
<1>3. /\ command' \in [Commands -> GateCommands]
      /\ \A d \in Commands : /\ command'[d].op = "idle" <=> command'[d].ino = 0
                             /\ command'[d].op = "idle" => command'[d] = Gate!Idle
      /\ \A d \in Commands : command'[d].op # "idle" => d # c /\ command'[d] = command[d]
  BY <1>1, SlotCleared DEF GateBase
<1>4. GateType'
  <2>1. db' \in Gate!Inodes \cup {0} /\ tmp' \in Gate!Inodes \cup {0} /\ (db' = tmp' => db' = 0)
    BY <1>1 DEF GateBase, GateType
  <2> QED BY <1>1, <1>2, <1>3, <2>1 DEF GateBase, GateType
<1>5. LinesGranted'
  <2>1. Numbers' = Numbers
    BY <1>1 DEF Numbers
  <2>2. ASSUME NEW d \in Commands, command'[d].op \in Revokes
        PROVE  command'[d] = command[d]
    BY <1>3, <2>2, IdleIs
  <2>3. revoked' \subseteq Numbers
    BY <1>1 DEF GateBase, LinesGranted
  <2> QED BY <1>1, <2>1, <2>2, <2>3 DEF GateBase, LinesGranted
<1>6. GrantsDiffer' /\ Pending'
  <2>1. issued' \in Nat /\ issued <= issued'
    BY <1>1 DEF GateBase, GateType
  <2>2. \A d \in Commands : command'[d].op = "grant" => command'[d] = command[d]
    BY <1>3
  <2> QED BY <1>1, <2>1, <2>2, PendingKept
<1> QED BY <1>4, <1>5, <1>6 DEF GateBase

LEMMA BaseStill ==
  ASSUME GateBase, Gate!Tick \/ UNCHANGED gateVars
  PROVE  GateBase'
<1>1. /\ UNCHANGED <<data, db, tmp, command, issued, crashes, granted, revoked, disturbed, lost, torn>>
      /\ now' \in 0..MaxTime
  BY RegisterAssumption DEF Gate!Tick, gateVars, GateBase, GateType
<1>2. GateType'
  BY <1>1 DEF GateBase, GateType
<1>3. LinesGranted'
  BY <1>1 DEF GateBase, LinesGranted, Numbers
<1>4. GrantsDiffer' /\ Pending'
  <2>1. issued' \in Nat /\ issued <= issued'
    BY <1>1 DEF GateBase, GateType
  <2> QED BY <1>1, <2>1, PendingKept
<1> QED BY <1>2, <1>3, <1>4 DEF GateBase

LEMMA BaseNext == GateBase /\ [Gate!Next]_gateVars => GateBase'
<1> SUFFICES ASSUME GateBase, [Gate!Next]_gateVars PROVE GateBase'
  OBVIOUS
<1>1. ASSUME NEW c \in Commands, NEW id \in Visitors, NEW hours \in Hours,
             NEW plain \in BOOLEAN, Gate!GrantOpen(c, id, hours, plain)
      PROVE  GateBase'
  BY <1>1, BaseGrantOpen
<1>2. ASSUME NEW c \in Commands, NEW id \in Visitors, Gate!RevokeOpen(c, id) PROVE GateBase'
  BY <1>2, BaseRevokeOpen
<1>3. ASSUME NEW c \in Commands,
             Gate!GrantWrite(c) \/ \E part \in BOOLEAN : Gate!GrantWriteFails(c, part)
      PROVE  GateBase'
  BY <1>3, BaseGrantWrite
<1>4. ASSUME NEW c \in Commands, Gate!RevokeCopy(c) PROVE GateBase'
  BY <1>4, BaseRevokeCopy
<1>5. ASSUME NEW c \in Commands,
             Gate!RevokeRemove(c) \/ \E part \in BOOLEAN : Gate!RevokeCopyFails(c, part)
      PROVE  GateBase'
  BY <1>5, BaseRevokeRemove
<1>6. ASSUME NEW c \in Commands, Gate!RevokeRename(c) \/ Gate!Crash(c) PROVE GateBase'
  BY <1>6, BaseEnds
<1>7. ASSUME Gate!Tick \/ UNCHANGED gateVars PROVE GateBase'
  BY <1>7, BaseStill
<1> QED BY <1>1, <1>2, <1>3, <1>4, <1>5, <1>6, <1>7 DEF Gate!Next

LEMMA BaseInit == Gate!Init => GateBase
<1> SUFFICES ASSUME Gate!Init PROVE GateBase
  OBVIOUS
<1>1. /\ data = [i \in Gate!Inodes |-> <<>>] /\ db = 0 /\ tmp = 0
      /\ command = [c \in Commands |-> Gate!Idle]
      /\ now = 0 /\ issued = 0 /\ crashes = 0 /\ granted = {} /\ revoked = {}
      /\ disturbed = FALSE /\ lost = {} /\ torn = FALSE
  BY InodesAre DEF Gate!Init
<1>2. \A c \in Commands : command[c] = Gate!Idle /\ command[c].op = "idle" /\ command[c].ino = 0
  BY <1>1, IdleIs
<1>3. data \in [Gate!Inodes -> Seq(Gate!Lines)]
  <2>1. <<>> \in Seq(Gate!Lines)
    OBVIOUS
  <2> QED BY <1>1, <2>1
<1>4. command \in [Commands -> GateCommands]
  BY <1>1, IdleIs
<1>5. GateType
  <2>1. disturbed \in BOOLEAN /\ torn \in BOOLEAN
    BY <1>1
  <2>2. now \in 0..MaxTime /\ issued \in 0..MaxCommands /\ crashes \in 0..MaxCrashes
    BY <1>1, RegisterAssumption
  <2>3. granted \subseteq [n : 1..issued, id : Visitors, exp : Int]
    BY <1>1
  <2>4. db \in Gate!Inodes \cup {0} /\ tmp \in Gate!Inodes \cup {0} /\ (db = tmp => db = 0)
    BY <1>1
  <2> QED BY <1>2, <1>3, <1>4, <2>1, <2>2, <2>3, <2>4 DEF GateType
<1>6. LinesGranted
  <2>1. \A i \in Gate!Inodes : data[i] = <<>>
    BY <1>1
  <2> QED BY <1>1, <1>2, <2>1, IdleIs DEF LinesGranted
<1>7. GrantsDiffer /\ Pending
  BY <1>1, <1>2 DEF GrantsDiffer, Pending
<1> QED BY <1>5, <1>6, <1>7 DEF GateBase
-----------------------------------------------------------------------------
\* What is in the file under the register's name.
Register == IF db = 0 THEN <<>> ELSE data[db]

LEMMA CalmGrantOpen ==
  ASSUME GateBase, Undisturbed, NEW c \in Commands, NEW id \in Visitors, NEW hours \in Hours,
         NEW plain \in BOOLEAN, Gate!GrantOpen(c, id, hours, plain), ~disturbed'
  PROVE  Undisturbed'
<1> DEFINE ino == IF db = 0 THEN Gate!NewInode ELSE db
           r == Record("grant", id, ino, <<Gate!Line(issued + 1, id, now + hours, plain)>>, {})
<1>1. /\ command[c] = Gate!Idle /\ db' = ino
      /\ data' = IF db = 0 THEN [data EXCEPT ![ino] = <<>>] ELSE data
      /\ command' = [command EXCEPT ![c] = r]
      /\ disturbed' = (disturbed \/ Gate!Revoking)
      /\ UNCHANGED <<tmp, granted, revoked, lost, torn>>
  BY InodesAre DEF Gate!GrantOpen, Gate!Begins, Record
<1>2. ino \in Gate!Inodes /\ ino # 0
  BY <1>1, NewIsFree, InodesAre DEF GateBase, GateType
<1> HIDE DEF ino
<1>3. r.op = "grant" /\ r.ino = ino
  BY DEF Record
<1> HIDE DEF r
<1>4. command'[c] = r /\ \A d \in Commands : d # c => command'[d] = command[d]
  BY <1>1 DEF GateBase, GateType
<1>5. \A d \in Commands : command[d].op \notin Revokes
  BY <1>1 DEF Gate!Revoking, Revokes
<1>6. \A d \in Commands : command'[d].op \notin Revokes
  BY <1>3, <1>4, <1>5, IdleIs
<1>7. ASSUME NEW d \in Commands, command'[d].op = "grant" PROVE command'[d].ino = db'
  <2>1. CASE d = c
    BY <1>1, <1>3, <1>4, <2>1
  <2>2. CASE d # c
    <3>1. command'[d] = command[d] /\ command[d].op = "grant" /\ command[d].ino = db
      BY <1>4, <1>7, <2>2 DEF Undisturbed
    <3>2. db # 0
      BY <3>1 DEF GateBase, GateType
    <3> QED BY <1>1, <3>1, <3>2 DEF ino
  <2> QED BY <2>1, <2>2
<1>8. Register' = Register
  <2>1. CASE db = 0
    <3>1. data'[ino] = <<>> /\ db' = ino
      BY <1>1, <1>2, <2>1 DEF GateBase, GateType
    <3> QED BY <1>2, <2>1, <3>1 DEF Register
  <2>2. CASE db # 0
    BY <1>1, <2>2 DEF Register, ino
  <2> QED BY <2>1, <2>2
<1>9. Faithful(Register', revoked)
  BY <1>5, <1>8 DEF Undisturbed, Register
<1>10. Faithful(Register, revoked)'
  BY <1>1, <1>9 DEF Faithful
<1> QED BY <1>6, <1>7, <1>10 DEF Undisturbed, Register

\* A grant and a revoke do not run together.
LEMMA GrantAlone ==
  ASSUME Undisturbed, NEW c \in Commands, command[c].op = "grant"
  PROVE  (\A d \in Commands : command[d].op \notin Revokes) /\ Faithful(Register, revoked)
<1>1. \A d \in Commands : command[d].op \notin Revokes
  BY IdleIs DEF Undisturbed
<1> QED BY <1>1 DEF Undisturbed, Register

\* No line of the register has the number of a grant that is under way.
LEMMA LinesAreOthers ==
  ASSUME GateBase, NEW n, n \notin Numbers, db \in Gate!Inodes, NEW j \in 1..Len(data[db])
  PROVE  data[db][j].n # n
<1>1. Grant(data[db][j]) \in granted /\ Grant(data[db][j]).n = data[db][j].n
  BY DEF GateBase, LinesGranted, Grant
<1> QED BY <1>1 DEF Numbers

LEMMA CalmGrantWrite ==
  ASSUME GateBase, Undisturbed, NEW c \in Commands,
         Gate!GrantWrite(c) \/ \E part \in BOOLEAN : Gate!GrantWriteFails(c, part)
  PROVE  Undisturbed'
<1> DEFINE line == Head(command[c].text)
           f == data[db]
           h == Append(f, line)
<1>1. /\ command[c].op = "grant"
      /\ granted' = granted \cup {Grant(line)}
      /\ command' = [command EXCEPT ![c] = Gate!Idle]
      /\ UNCHANGED <<db, tmp, revoked>>
      /\ \/ /\ data' = [data EXCEPT ![command[c].ino] = Append(data[command[c].ino], line)]
            /\ lost' = IF line.active THEN lost ELSE lost \cup {line.n}
         \/ data' = data /\ lost' = lost \cup {line.n}
  BY DEF Gate!GrantWrite, Gate!GrantWriteFails, Gate!Announced, Grant
<1>2. command[c].ino = db /\ db \in Gate!Inodes /\ db # 0 /\ command[c].text \in Seq(Gate!Lines)
  BY <1>1, InodesAre DEF Undisturbed, GateBase, GateType, GateCommands
<1>3. line = command[c].text[1] /\ line \in Gate!Lines /\ line.n \notin Numbers
  BY <1>1, <1>2 DEF GateBase, Pending
<1>4. line.n \notin revoked /\ line.n \notin lost /\ line.active \in BOOLEAN
  BY <1>3, LineFields DEF GateBase, LinesGranted
<1> HIDE DEF line
<1>5. (\A d \in Commands : command[d].op \notin Revokes) /\ Faithful(Register, revoked)
  BY <1>1, GrantAlone
<1>6. \A d \in Commands : command'[d].op # "idle" => d # c /\ command'[d] = command[d]
  BY <1>1, SlotCleared DEF GateBase
<1>7. \A d \in Commands : command'[d].op \notin Revokes
  BY <1>5, <1>6, IdleIs
<1>8. \A d \in Commands : command'[d].op = "grant" => command'[d].ino = db'
  BY <1>1, <1>6 DEF Undisturbed
<1>9. /\ f \in Seq(Gate!Lines) /\ Register = f /\ db' # 0 /\ Register' = data'[db]
      /\ data'[db] \in {f, h}
  BY <1>1, <1>2 DEF GateBase, GateType, Register
<1>a. \/ data'[db] = f
      \/ data'[db] = h /\ lost' = IF line.active THEN lost ELSE lost \cup {line.n}
  BY <1>1, <1>2 DEF GateBase, GateType
<1>b. data'[db] = h \/ line.n \in lost'
  BY <1>1, <1>2 DEF GateBase, GateType
<1>o. \A j \in 1..Len(f) : f[j].n # line.n
  BY <1>2, <1>3, LinesAreOthers
<1>l. \A n : n # line.n => (n \in lost' <=> n \in lost)
  BY <1>1
<1> HIDE DEF f
<1>10. /\ Len(h) = Len(f) + 1 /\ Len(f) \in Nat /\ h[Len(f) + 1] = line
       /\ \A j \in 1..Len(f) : h[j] = f[j]
  BY <1>3, <1>9
<1>n. Grant(line).n = line.n
  BY DEF Grant
<1> HIDE DEF h
<1>11. ASSUME NEW g \in granted', g.n \notin lost'
       PROVE  \E j \in 1..Len(data'[db]) : Grant(data'[db][j]) = g
  <2>1. CASE g = Grant(line)
    <3>1. data'[db] = h /\ Len(f) + 1 \in 1..Len(h)
      BY <1>b, <1>n, <1>10, <1>11, <2>1
    <3> QED BY <1>10, <2>1, <3>1
  <2>2. CASE g \in granted
    <3>0. g.n # line.n
      BY <1>3, <2>2 DEF Numbers
    <3>1. PICK j \in 1..Len(f) : Grant(f[j]) = g
      BY <1>5, <1>9, <1>11, <1>l, <2>2, <3>0 DEF Faithful
    <3>2. j \in 1..Len(h) /\ h[j] = f[j]
      BY <1>10
    <3> QED BY <1>a, <3>1, <3>2
  <2> QED BY <1>1, <2>1, <2>2
<1>12. ASSUME NEW j \in 1..Len(data'[db])
       PROVE  data'[db][j].active <=> data'[db][j].n \notin revoked /\ data'[db][j].n \notin lost'
  <2>1. CASE data'[db] = h /\ j = Len(f) + 1
    <3>1. data'[db][j] = line
      BY <1>10, <2>1
    <3>2. data'[db] # f
      BY <1>10, <2>1
    <3>3. lost' = IF line.active THEN lost ELSE lost \cup {line.n}
      BY <1>a, <3>2
    <3> QED BY <1>4, <3>1, <3>3
  <2>2. CASE ~(data'[db] = h /\ j = Len(f) + 1)
    <3>1. j \in 1..Len(f) /\ data'[db][j] = f[j]
      BY <1>a, <1>10, <2>2
    <3>2. f[j].active <=> f[j].n \notin revoked /\ f[j].n \notin lost
      BY <1>5, <1>9, <3>1 DEF Faithful
    <3> QED BY <1>o, <1>l, <3>1, <3>2
  <2> QED BY <2>1, <2>2
<1>13. Faithful(Register, revoked)'
  BY <1>1, <1>9, <1>11, <1>12 DEF Faithful
<1> QED BY <1>7, <1>8, <1>13 DEF Undisturbed, Register

LEMMA CalmRevokeOpen ==
  ASSUME GateBase, Undisturbed, NEW c \in Commands, NEW id \in Visitors,
         Gate!RevokeOpen(c, id), ~disturbed'
  PROVE  Undisturbed'
<1> DEFINE ino == IF tmp = 0 THEN Gate!NewInode ELSE tmp
           f == data[db]
           r == Record("copy", id, ino, CopyOf(f, id), MarkedIn(f, id))
<1>1. /\ command[c] = Gate!Idle /\ db # 0 /\ tmp' = ino
      /\ data' = [data EXCEPT ![ino] = <<>>]
      /\ command' = [command EXCEPT ![c] = r]
      /\ disturbed' = (disturbed \/ Gate!Busy)
      /\ UNCHANGED <<db, granted, revoked, lost, torn>>
  BY InodesAre DEF Gate!RevokeOpen, Gate!Begins, Record, CopyOf, Mark, MarkedIn
<1>2. ino \in Gate!Inodes /\ db \in Gate!Inodes
  BY <1>1, NewIsFree, InodesAre DEF GateBase, GateType
<1>3. \A d \in Commands : command[d].op = "idle"
  BY <1>1, IdleIs DEF Gate!Busy
<1>4. /\ f \in Seq(Gate!Lines) /\ Faithful(f, revoked)
      /\ \A j \in 1..Len(f) : Grant(f[j]) \in granted
  BY <1>1, <1>2, <1>3, IdleIs DEF GateBase, GateType, LinesGranted, Undisturbed
<1> HIDE DEF ino, f
<1>5. /\ r.op = "copy" /\ r.ino = ino /\ r.text = CopyOf(f, id) /\ r.marked = MarkedIn(f, id)
      /\ "copy" \in Revokes
  BY DEF Record, Revokes
<1> HIDE DEF r
<1>6. command'[c] = r /\ \A d \in Commands : d # c => command'[d] = command[d]
  BY <1>1 DEF GateBase, GateType
<1>7. \A d \in Commands : d # c => command'[d].op = "idle"
  BY <1>3, <1>6
<1> DEFINE copy == CopyOf(f, id)
           marked == MarkedIn(f, id)
<1>8. /\ Len(copy) = Len(f)
      /\ \A j \in 1..Len(f) : /\ f[j] \in Gate!Lines
                              /\ Grant(copy[j]) = Grant(f[j]) /\ copy[j].n = f[j].n
                              /\ copy[j].active <=> f[j].active /\ f[j].id # id
      /\ \A n : n \in marked <=> \E j \in 1..Len(f) : f[j].n = n /\ f[j].id = id /\ f[j].active
  BY <1>4, CopyIs
<1> HIDE DEF copy, marked
<1>9. ASSUME NEW j \in 1..Len(copy)
      PROVE  copy[j].active <=> copy[j].n \notin revoked \cup marked /\ copy[j].n \notin lost
  <2>1. j \in 1..Len(f) /\ copy[j].n = f[j].n
    BY <1>8
  <2>2. f[j].active <=> f[j].n \notin revoked /\ f[j].n \notin lost
    BY <1>4, <2>1 DEF Faithful
  <2>3. f[j].id = id /\ f[j].active => f[j].n \in marked
    BY <1>8, <2>1
  <2>4. f[j].n \in marked => f[j].id = id
    <3> SUFFICES ASSUME f[j].n \in marked PROVE f[j].id = id
      OBVIOUS
    <3>1. PICK k \in 1..Len(f) : f[k].n = f[j].n /\ f[k].id = id
      BY <1>8
    <3>2. Grant(f[k]) \in granted /\ Grant(f[j]) \in granted /\ Grant(f[k]).n = Grant(f[j]).n
      BY <1>4, <2>1, <3>1 DEF Grant
    <3>3. Grant(f[k]) = Grant(f[j])
      BY <3>2 DEF GateBase, GrantsDiffer
    <3>4. Grant(f[k]).id = f[k].id /\ Grant(f[j]).id = f[j].id
      BY DEF Grant
    <3> QED BY <3>1, <3>3, <3>4
  <2>5. copy[j].active <=> f[j].active /\ f[j].id # id
    BY <1>8, <2>1
  <2> QED BY <2>1, <2>2, <2>3, <2>4, <2>5
<1>10. ASSUME NEW g \in granted, g.n \notin lost
       PROVE  \E j \in 1..Len(copy) : Grant(copy[j]) = g
  <2>1. PICK j \in 1..Len(f) : Grant(f[j]) = g
    BY <1>4, <1>10 DEF Faithful
  <2> QED BY <1>8, <2>1
<1>11. Faithful(copy, revoked \cup marked)
  BY <1>9, <1>10 DEF Faithful
<1>12. ASSUME NEW d \in Commands, command'[d].op \in Revokes
       PROVE  /\ tmp' = command'[d].ino
              /\ Faithful(command[d].text, revoked \cup command[d].marked)'
              /\ data'[command'[d].ino] = IF command'[d].op = "copy" THEN <<>> ELSE command'[d].text
  <2>1. d = c
    BY <1>7, <1>12, IdleIs
  <2>2. command'[d].text = copy /\ command'[d].marked = marked /\ command'[d].ino = ino
        /\ command'[d].op = "copy"
    BY <1>5, <1>6, <2>1 DEF copy, marked
  <2>3. data'[ino] = <<>>
    BY <1>1, <1>2 DEF GateBase, GateType
  <2>4. Faithful(command'[d].text, revoked \cup command'[d].marked)
    BY <1>11, <2>2
  <2> QED BY <1>1, <2>2, <2>3, <2>4 DEF Faithful
<1>13. \A d, e \in Commands : command'[d].op \in Revokes /\ d # e => command'[e].op = "idle"
  BY <1>7, IdleIs
<1>14. \A d \in Commands : command'[d].op # "grant"
  BY <1>5, <1>6, <1>7
<1>15. command'[c].op \in Revokes
  BY <1>5, <1>6
<1> QED BY <1>12, <1>13, <1>14, <1>15 DEF Undisturbed

\* The revoke that runs goes on: it is alone before and after.
LEMMA RevokerAlone ==
  ASSUME GateBase, Undisturbed, NEW c \in Commands, command[c].op \in Revokes,
         NEW op \in Revokes, command' = [command EXCEPT ![c].op = op]
  PROVE  /\ command'[c].op = op /\ command'[c].ino = command[c].ino
         /\ command'[c].text = command[c].text /\ command'[c].marked = command[c].marked
         /\ \A d \in Commands : d # c => command'[d].op = "idle"
         /\ \A d \in Commands : command'[d].op \in Revokes => d = c
         /\ \A d \in Commands : command'[d].op # "grant"
         /\ \A d, e \in Commands : command'[d].op \in Revokes /\ d # e => command'[e].op = "idle"
<1>1. /\ command'[c].op = op /\ command'[c].ino = command[c].ino
      /\ command'[c].text = command[c].text /\ command'[c].marked = command[c].marked
      /\ \A d \in Commands : d # c => command'[d] = command[d]
  BY OpMoves, IdleIs DEF GateBase
<1>2. \A d \in Commands : d # c => command'[d].op = "idle"
  BY <1>1 DEF Undisturbed
<1> QED BY <1>1, <1>2, IdleIs

LEMMA CalmRevokeCopy ==
  ASSUME GateBase, Undisturbed, NEW c \in Commands, Gate!RevokeCopy(c)
  PROVE  Undisturbed'
<1> DEFINE ino == command[c].ino
           old == data[ino]
           new == command[c].text
           f == new \o SubSeq(old, Len(new) + 1, Len(old))
<1>1. /\ command[c].op = "copy" /\ command[c].op \in Revokes /\ "remove" \in Revokes
      /\ data' = [data EXCEPT ![ino] = f]
      /\ command' = [command EXCEPT ![c].op = "remove"]
      /\ UNCHANGED <<db, tmp, granted, revoked, lost, torn>>
  BY DEF Gate!RevokeCopy, Revokes
<1>2. ino \in Gate!Inodes /\ new \in Seq(Gate!Lines) /\ old = <<>>
  BY <1>1 DEF GateBase, GateType, GateCommands, Undisturbed
<1>3. old \in Seq(Gate!Lines)
  BY <1>2 DEF GateBase, GateType
<1>4. tmp = ino /\ Faithful(new, revoked \cup command[c].marked)
  BY <1>1 DEF Undisturbed
<1> HIDE DEF ino, old, new
<1>5. f = new
  BY <1>2, <1>3, OverwriteIs
<1> HIDE DEF f
<1>6. data'[ino] = new
  BY <1>1, <1>2, <1>5 DEF GateBase, GateType
<1>7. /\ command'[c].op = "remove" /\ command'[c].ino = command[c].ino
      /\ command'[c].text = command[c].text /\ command'[c].marked = command[c].marked
      /\ \A d \in Commands : command'[d].op \in Revokes => d = c
      /\ \A d \in Commands : command'[d].op # "grant"
      /\ \A d, e \in Commands : command'[d].op \in Revokes /\ d # e => command'[e].op = "idle"
  BY <1>1, RevokerAlone
<1>8. ASSUME NEW d \in Commands, command'[d].op \in Revokes
      PROVE  /\ tmp' = command'[d].ino
             /\ Faithful(command[d].text, revoked \cup command[d].marked)'
             /\ data'[command'[d].ino] = IF command'[d].op = "copy" THEN <<>> ELSE command'[d].text
  <2>1. d = c
    BY <1>7, <1>8
  <2>2. /\ command'[d].text = new /\ command'[d].marked = command[c].marked
        /\ command'[d].ino = ino /\ command'[d].op = "remove"
    BY <1>7, <2>1 DEF ino, new
  <2>3. Faithful(command'[d].text, revoked \cup command'[d].marked)
    BY <1>4, <2>2
  <2> QED BY <1>1, <1>4, <1>6, <2>2, <2>3 DEF Faithful
<1> QED BY <1>1, <1>7, <1>8 DEF Undisturbed

LEMMA CalmRevokeRemove ==
  ASSUME GateBase, Undisturbed, NEW c \in Commands, Gate!RevokeRemove(c)
  PROVE  Undisturbed'
<1>1. /\ command[c].op = "remove" /\ command[c].op \in Revokes /\ "rename" \in Revokes
      /\ command' = [command EXCEPT ![c].op = "rename"]
      /\ UNCHANGED <<data, tmp, granted, revoked, lost, torn>>
  BY DEF Gate!RevokeRemove, Revokes
<1>2. /\ tmp = command[c].ino /\ Faithful(command[c].text, revoked \cup command[c].marked)
      /\ data[command[c].ino] = command[c].text
  BY <1>1 DEF Undisturbed
<1>3. /\ command'[c].op = "rename" /\ command'[c].ino = command[c].ino
      /\ command'[c].text = command[c].text /\ command'[c].marked = command[c].marked
      /\ \A d \in Commands : command'[d].op \in Revokes => d = c
      /\ \A d \in Commands : command'[d].op # "grant"
      /\ \A d, e \in Commands : command'[d].op \in Revokes /\ d # e => command'[e].op = "idle"
  BY <1>1, RevokerAlone
<1>4. ASSUME NEW d \in Commands, command'[d].op \in Revokes
      PROVE  /\ tmp' = command'[d].ino
             /\ Faithful(command[d].text, revoked \cup command[d].marked)'
             /\ data'[command'[d].ino] = IF command'[d].op = "copy" THEN <<>> ELSE command'[d].text
  <2>1. d = c
    BY <1>3, <1>4
  <2>2. Faithful(command'[d].text, revoked \cup command'[d].marked)
    BY <1>2, <1>3, <2>1
  <2> QED BY <1>1, <1>2, <1>3, <2>1, <2>2 DEF Faithful
<1> QED BY <1>1, <1>3, <1>4 DEF Undisturbed

LEMMA CalmRevokeRename ==
  ASSUME GateBase, Undisturbed, NEW c \in Commands, Gate!RevokeRename(c)
  PROVE  Undisturbed'
<1>1. /\ command[c].op = "rename" /\ command[c].op \in Revokes
      /\ db' = IF tmp = 0 THEN db ELSE tmp
      /\ revoked' = revoked \cup command[c].marked
      /\ command' = [command EXCEPT ![c] = Gate!Idle]
      /\ UNCHANGED <<data, granted, lost, torn>>
  BY InodesAre DEF Gate!RevokeRename, Revokes
<1>2. /\ tmp = command[c].ino /\ tmp # 0
      /\ Faithful(command[c].text, revoked \cup command[c].marked)
      /\ data[command[c].ino] = command[c].text
      /\ \A d \in Commands : d # c => command[d].op = "idle"
  BY <1>1 DEF Undisturbed, GateBase, GateType
<1>3. \A d \in Commands : command'[d].op = "idle"
  BY <1>2, <1>1, SlotCleared DEF GateBase
<1>4. Register' = command[c].text
  BY <1>1, <1>2 DEF Register
<1>5. Faithful(Register', revoked')
  BY <1>1, <1>2, <1>4
<1>6. Faithful(Register, revoked)'
  BY <1>1, <1>5 DEF Faithful
<1> QED BY <1>3, <1>6, IdleIs DEF Undisturbed, Register

\* A grant that is killed has written nothing.
LEMMA CalmCrash ==
  ASSUME GateBase, Undisturbed, NEW c \in Commands, Gate!Crash(c), ~disturbed'
  PROVE  Undisturbed'
<1>1. /\ command[c].op = "grant"
      /\ command' = [command EXCEPT ![c] = Gate!Idle]
      /\ UNCHANGED <<data, db, granted, revoked, lost, torn>>
  BY DEF Gate!Crash
<1>2. (\A d \in Commands : command[d].op \notin Revokes) /\ Faithful(Register, revoked)
  BY <1>1, GrantAlone
<1>3. \A d \in Commands : command'[d].op # "idle" => d # c /\ command'[d] = command[d]
  BY <1>1, SlotCleared DEF GateBase
<1>4. \A d \in Commands : command'[d].op \notin Revokes
  BY <1>2, <1>3, IdleIs
<1>5. \A d \in Commands : command'[d].op = "grant" => command'[d].ino = db'
  BY <1>1, <1>3 DEF Undisturbed
<1>6. Faithful(Register, revoked)'
  BY <1>1, <1>2 DEF Faithful, Register
<1> QED BY <1>4, <1>5, <1>6 DEF Undisturbed, Register

LEMMA CalmStill ==
  ASSUME Undisturbed, Gate!Tick \/ UNCHANGED gateVars
  PROVE  Undisturbed'
<1>1. UNCHANGED <<data, db, tmp, command, granted, revoked, lost, torn>>
  BY DEF Gate!Tick, gateVars
<1> QED BY <1>1 DEF Undisturbed, Faithful

GateInv == GateBase /\ (~disturbed => Undisturbed)

LEMMA GateNext == GateInv /\ [Gate!Next]_gateVars => GateInv'
<1> SUFFICES ASSUME GateInv, [Gate!Next]_gateVars PROVE GateInv'
  OBVIOUS
<1>1. GateBase /\ GateBase' /\ disturbed \in BOOLEAN /\ disturbed' \in BOOLEAN
  BY BaseNext DEF GateInv, GateBase, GateType
<1>2. disturbed => disturbed'
  <2> USE <1>1
  <2>1. ASSUME NEW c \in Commands, NEW id \in Visitors, NEW hours \in Hours,
               NEW plain \in BOOLEAN, Gate!GrantOpen(c, id, hours, plain)
        PROVE  disturbed => disturbed'
    BY <2>1 DEF Gate!GrantOpen
  <2>2. ASSUME NEW c \in Commands, NEW id \in Visitors, Gate!RevokeOpen(c, id)
        PROVE  disturbed => disturbed'
    BY <2>2 DEF Gate!RevokeOpen
  <2>3. ASSUME NEW c \in Commands, NEW part \in BOOLEAN,
               Gate!GrantWrite(c) \/ Gate!GrantWriteFails(c, part)
        PROVE  disturbed => disturbed'
    BY <2>3 DEF Gate!GrantWrite, Gate!GrantWriteFails
  <2>4. ASSUME NEW c \in Commands, NEW part \in BOOLEAN,
               Gate!RevokeCopy(c) \/ Gate!RevokeCopyFails(c, part)
        PROVE  disturbed => disturbed'
    BY <2>4 DEF Gate!RevokeCopy, Gate!RevokeCopyFails
  <2>5. ASSUME NEW c \in Commands, Gate!RevokeRemove(c) PROVE disturbed => disturbed'
    BY <2>5 DEF Gate!RevokeRemove
  <2>6. ASSUME NEW c \in Commands, Gate!RevokeRename(c) PROVE disturbed => disturbed'
    BY <2>6 DEF Gate!RevokeRename
  <2>7. ASSUME NEW c \in Commands, Gate!Crash(c) PROVE disturbed => disturbed'
    BY <2>7 DEF Gate!Crash
  <2>8. ASSUME Gate!Tick \/ UNCHANGED gateVars PROVE disturbed => disturbed'
    BY <2>8 DEF Gate!Tick, gateVars
  <2> QED BY <2>1, <2>2, <2>3, <2>4, <2>5, <2>6, <2>7, <2>8 DEF Gate!Next
<1>3. ASSUME ~disturbed' PROVE Undisturbed'
  <2>1. Undisturbed
    BY <1>1, <1>2, <1>3 DEF GateInv
  <2>2. ASSUME NEW c \in Commands, NEW id \in Visitors, NEW hours \in Hours,
               NEW plain \in BOOLEAN, Gate!GrantOpen(c, id, hours, plain)
        PROVE  Undisturbed'
    BY <1>1, <1>3, <2>1, <2>2, CalmGrantOpen
  <2>3. ASSUME NEW c \in Commands, NEW id \in Visitors, Gate!RevokeOpen(c, id)
        PROVE  Undisturbed'
    BY <1>1, <1>3, <2>1, <2>3, CalmRevokeOpen
  <2>4. ASSUME NEW c \in Commands,
               Gate!GrantWrite(c) \/ \E part \in BOOLEAN : Gate!GrantWriteFails(c, part)
        PROVE  Undisturbed'
    BY <1>1, <2>1, <2>4, CalmGrantWrite
  <2>5. ASSUME NEW c \in Commands, Gate!RevokeCopy(c) PROVE Undisturbed'
    BY <1>1, <2>1, <2>5, CalmRevokeCopy
  <2>0. ASSUME NEW c \in Commands, NEW part \in BOOLEAN, Gate!RevokeCopyFails(c, part)
        PROVE  Undisturbed'
    BY <1>3, <2>0 DEF Gate!RevokeCopyFails
  <2>6. ASSUME NEW c \in Commands, Gate!RevokeRemove(c) PROVE Undisturbed'
    BY <1>1, <2>1, <2>6, CalmRevokeRemove
  <2>7. ASSUME NEW c \in Commands, Gate!RevokeRename(c) PROVE Undisturbed'
    BY <1>1, <2>1, <2>7, CalmRevokeRename
  <2>8. ASSUME NEW c \in Commands, Gate!Crash(c) PROVE Undisturbed'
    BY <1>1, <1>3, <2>1, <2>8, CalmCrash
  <2>9. ASSUME Gate!Tick \/ UNCHANGED gateVars PROVE Undisturbed'
    BY <2>1, <2>9, CalmStill
  <2> QED BY <2>0, <2>2, <2>3, <2>4, <2>5, <2>6, <2>7, <2>8, <2>9 DEF Gate!Next
<1> QED BY <1>1, <1>3 DEF GateInv

LEMMA GateInit == Gate!Init => GateInv
<1> SUFFICES ASSUME Gate!Init PROVE GateInv
  OBVIOUS
<1>1. db = 0 /\ granted = {} /\ command = [c \in Commands |-> Gate!Idle]
  BY InodesAre DEF Gate!Init
<1>2. \A c \in Commands : command[c].op = "idle"
  BY <1>1, IdleIs
<1>3. Faithful(<<>>, revoked)
  BY <1>1 DEF Faithful
<1>4. Undisturbed
  BY <1>1, <1>2, <1>3, IdleIs DEF Undisturbed
<1> QED BY <1>4, BaseInit DEF GateInv

LEMMA GateInvHolds == Spec => []GateInv
<1>1. Init => GateInv
  BY GateInit DEF Init
<1>2. GateInv /\ [Next]_vars => GateInv'
  BY GateStep, GateNext
<1> QED BY <1>1, <1>2, PTL DEF Spec
-----------------------------------------------------------------------------
\* What strptime and mktime make of the text of an expiry.
ReadBack(t) == Gate!mktime(Gate!LocalTime(t))

LEMMA ReadBackIs ==
  ASSUME NEW t \in Int
  PROVE  /\ ReadBack(t) \in Int /\ t <= ReadBack(t)
         /\ \A u \in Int : u <= ReadBack(t) => u <= t \/ (t \in SummerTime /\ u <= t + 1)
BY DEF ReadBack, Gate!mktime, Gate!LocalTime

\* check_access: the first active line of the visitor decides.
LEMMA VerdictOf ==
  ASSUME GateInv, NEW id \in Visitors
  PROVE  LET I == {i \in 1..Len(data[db]) : data[db][i].id = id /\ data[db][i].active}
         IN  Gate!Verdict(id) <=> db # 0 /\ I # {} /\ now <= ReadBack(data[db][Gate!Min(I)].exp)
<1> DEFINE I == {i \in 1..Len(data[db]) : data[db][i].id = id /\ data[db][i].active}
<1>1. Gate!Verdict(id) <=> db # 0 /\ I # {} /\ Gate!Min(I) # 0 /\ now <= ReadBack(data[db][Gate!Min(I)].exp)
  BY InodesAre DEF Gate!Verdict, Gate!SelectInSeq, ReadBack
<1>2. db # 0 /\ I # {} => Gate!Min(I) # 0
  <2> SUFFICES ASSUME db # 0, I # {} PROVE Gate!Min(I) # 0
    OBVIOUS
  <2>1. I \in SUBSET Nat /\ 0 \notin I
    OBVIOUS
  <2> QED BY <2>1, GateMin
<1> QED BY <1>1, <1>2

\* The property for one visitor.
LEMMA GateIsRight ==
  ASSUME GateInv, NEW id \in Visitors
  PROVE  /\ Gate!Verdict(id) => \E g \in granted : g.id = id /\ Gate!Within(g)
         /\ ~disturbed /\ ~Gate!Revoking =>
              /\ Gate!Verdict(id) =>
                   \E g \in granted : g.id = id /\ Gate!Standing(g) /\ Gate!Within(g)
              /\ (\E g \in granted : g.id = id /\ Gate!Standing(g) /\ now <= g.exp) =>
                   \/ Gate!Verdict(id)
                   \/ \E g \in granted : g.id = id /\ Gate!Standing(g) /\ now > g.exp
<1> DEFINE f == data[db]
           I == {i \in 1..Len(f) : f[i].id = id /\ f[i].active}
           k == Gate!Min(I)
<1>1. Gate!Verdict(id) <=> db # 0 /\ I # {} /\ now <= ReadBack(f[k].exp)
  BY VerdictOf
<1>2. I # {} => k \in I
  <2>1. I \in SUBSET Nat
    OBVIOUS
  <2> QED BY <2>1, GateMin
<1>3. ASSUME db # 0, I # {}
      PROVE  /\ k \in 1..Len(f) /\ f[k].id = id /\ f[k].active
             /\ Grant(f[k]) \in granted /\ Grant(f[k]).id = id /\ Grant(f[k]).exp = f[k].exp
             /\ Grant(f[k]).n = f[k].n /\ f[k].exp \in Int
  <2>1. db \in Gate!Inodes /\ f \in Seq(Gate!Lines)
    BY <1>3 DEF GateInv, GateBase, GateType
  <2>2. k \in 1..Len(f) /\ f[k].id = id /\ f[k].active
    BY <1>2, <1>3
  <2> HIDE DEF k
  <2>3. f[k] \in Gate!Lines
    BY <2>1, <2>2
  <2>4. Grant(f[k]) \in granted
    BY <2>1, <2>2 DEF GateInv, GateBase, LinesGranted
  <2> QED BY <2>2, <2>3, <2>4, LineFields DEF Grant
<1>4. now \in Int
  BY DEF GateInv, GateBase, GateType
<1>5. ASSUME ~disturbed, ~Gate!Revoking
      PROVE  Faithful(IF db = 0 THEN <<>> ELSE f, revoked)
  <2>1. \A c \in Commands : command[c].op \notin Revokes
    BY <1>5 DEF Gate!Revoking, Revokes
  <2> QED BY <1>5, <2>1 DEF GateInv, Undisturbed
<1>6. ASSUME ~disturbed, ~Gate!Revoking, db # 0, NEW j \in 1..Len(f)
      PROVE  f[j].active <=> f[j].n \notin revoked /\ f[j].n \notin lost
  BY <1>5, <1>6 DEF Faithful
<1>7. ASSUME ~disturbed, ~Gate!Revoking, NEW g \in granted, g.id = id, Gate!Standing(g)
      PROVE  db # 0 /\ I # {}
  <2>1. db # 0
    BY <1>5, <1>7 DEF Faithful, Gate!Standing
  <2>2. PICK j \in 1..Len(f) : Grant(f[j]) = g
    BY <1>5, <1>7, <2>1 DEF Faithful, Gate!Standing
  <2>3. f[j].n = g.n /\ f[j].id = g.id
    BY <2>2 DEF Grant
  <2>4. f[j].active
    BY <1>6, <1>7, <2>1, <2>3 DEF Gate!Standing
  <2> QED BY <1>7, <2>1, <2>3, <2>4
<1> HIDE DEF f, I, k
<1>8. ASSUME Gate!Verdict(id)
      PROVE  /\ db # 0 /\ I # {} /\ Grant(f[k]) \in granted /\ Grant(f[k]).id = id
             /\ Gate!Within(Grant(f[k]))
  <2>1. db # 0 /\ I # {} /\ now <= ReadBack(f[k].exp)
    BY <1>1, <1>8
  <2>2. f[k].exp \in Int /\ Grant(f[k]).exp = f[k].exp
    BY <1>3, <2>1
  <2>3. now <= f[k].exp \/ (f[k].exp \in SummerTime /\ now <= f[k].exp + 1)
    BY <1>4, <2>1, <2>2, ReadBackIs
  <2> QED BY <1>3, <2>1, <2>2, <2>3 DEF Gate!Within
<1>9. ASSUME ~disturbed, ~Gate!Revoking, Gate!Verdict(id)
      PROVE  \E g \in granted : g.id = id /\ Gate!Standing(g) /\ Gate!Within(g)
  <2>1. /\ db # 0 /\ I # {} /\ Grant(f[k]) \in granted /\ Grant(f[k]).id = id
        /\ Gate!Within(Grant(f[k]))
    BY <1>8, <1>9
  <2>2. Grant(f[k]).n \notin revoked /\ Grant(f[k]).n \notin lost
    BY <1>3, <1>6, <1>9, <2>1
  <2> QED BY <2>1, <2>2 DEF Gate!Standing
<1>10. ASSUME ~disturbed, ~Gate!Revoking, NEW g \in granted, g.id = id, Gate!Standing(g)
       PROVE  \/ Gate!Verdict(id)
              \/ \E h \in granted : h.id = id /\ Gate!Standing(h) /\ now > h.exp
  <2>1. db # 0 /\ I # {}
    BY <1>7, <1>10
  <2>2. CASE now <= ReadBack(f[k].exp)
    BY <1>1, <2>1, <2>2
  <2>3. CASE ~(now <= ReadBack(f[k].exp))
    <3>1. Grant(f[k]) \in granted /\ Grant(f[k]).id = id
          /\ Grant(f[k]).n \notin revoked /\ Grant(f[k]).n \notin lost
      BY <1>3, <1>6, <1>10, <2>1
    <3>2. f[k].exp \in Int /\ Grant(f[k]).exp = f[k].exp
      BY <1>3, <2>1
    <3>3. now > f[k].exp
      BY <1>4, <2>3, <3>2, ReadBackIs
    <3> QED BY <3>1, <3>2, <3>3 DEF Gate!Standing
  <2> QED BY <2>2, <2>3
<1> QED BY <1>8, <1>9, <1>10

\* "autoriza un visitante por una ventana de tiempo especifica, revocable en
\* cualquier momento" (chrono_visitor_access.c), for any number of visitors,
\* commands at a time, windows, kills and failing writes: unless a line was written
\* in part, nobody is let in outside a granted window and the hour that summer time
\* adds to it, and what did not disturb each other and was written is followed.
THEOREM GateIsFollowed == Spec => []GateFollowsResidents
<1>1. GateInv => GateFollowsResidents
  BY GateIsRight DEF GateFollowsResidents, Gate!GateFollowsResidents
<1> QED BY <1>1, GateInvHolds, PTL
-----------------------------------------------------------------------------
LEMMA GateTypes == GateInv => Gate!TypeOK
<1> SUFFICES ASSUME GateInv PROVE Gate!TypeOK
  OBVIOUS
<1>1. \A i \in Gate!Inodes : Gate!ToSet(data[i]) \subseteq Gate!Lines
  <2> SUFFICES ASSUME NEW i \in Gate!Inodes PROVE Gate!ToSet(data[i]) \subseteq Gate!Lines
    OBVIOUS
  <2>1. data[i] \in Seq(Gate!Lines)
    BY DEF GateInv, GateBase, GateType
  <2> QED BY <2>1 DEF Gate!ToSet
<1>2. \A c \in Commands :
        /\ command[c].op \in {"idle", "grant", "copy", "remove", "rename"}
        /\ (command[c].op = "idle") <=> (command[c].ino = 0)
  BY DEF GateInv, GateBase, GateType, GateCommands, Revokes
<1>3. \A g \in granted : g.n \in 1..issued
  BY DEF GateInv, GateBase, GateType
<1>4. revoked \subseteq 1..issued
  BY <1>3 DEF GateInv, GateBase, LinesGranted, Numbers
<1>5. lost \subseteq 1..issued
  BY <1>3 DEF GateInv, GateBase, LinesGranted, Numbers
<1> QED BY <1>1, <1>2, <1>3, <1>4, <1>5, InodesAre DEF GateInv, GateBase, GateType, Gate!TypeOK

\* A program runs; the others wait.
ProgramRuns == program \in Programs

LEMMA ProgramHolds == Spec => []ProgramRuns
<1>1. Init => ProgramRuns
  BY DEF Init, ProgramRuns
<1>2. ProgramRuns /\ [Next]_vars => ProgramRuns'
  BY DEF ProgramRuns, Next, vars
<1> QED BY <1>1, <1>2, PTL DEF Spec

\* Registers, managers, PID file, site, whitelist and frames keep their types: no
\* table or counter of chrono_visitor_access.c, chrono_5g_manager.c, agent.py,
\* the diagnosis engines and the two guards leaves its range.
THEOREM TypeCorrect == Spec => []TypeOK
<1>1. ASSUME CanInv PROVE Can!TypeOK
  <2>1. \A k \in DOMAIN rules : rules[k] \in Entries
    BY <1>1 DEF CanInv, Loaded
  <2>2. \A k \in DOMAIN rules : rules[k].min \in 0..255 /\ rules[k].max \in 0..255
    BY <2>1 DEF Entries
  <2> QED BY <1>1, <2>2 DEF CanInv, Loaded, Can!TypeOK
<1>2. ModbusInv => Modbus!TypeOK
  BY CutsAreHarmless
<1>3. ProgramRuns /\ GateInv /\ CoreInv /\ PidInv /\ Engines!TypeOK /\ CanInv /\ ModbusInv
        => TypeOK
  BY <1>1, <1>2, GateTypes DEF TypeOK, ProgramRuns, CoreInv, PidInv
<1> QED BY <1>3, ProgramHolds, GateInvHolds, CoreInvHolds, PidInvHolds, EnginesTypeHolds,
          CanInvHolds, ModbusInvHolds, PTL
=============================================================================
