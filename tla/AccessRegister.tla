--------------------------- MODULE AccessRegister ---------------------------
(***************************************************************************)
(* The visitors' register at a community's gate                            *)
(* (core/community/chrono_visitor_access.c).                               *)
(*                                                                         *)
(* visitor_access.csv is appended to by grant and replaced by revoke, which *)
(* copies it to visitor_access.tmp, removes it and renames the copy.  There *)
(* is no lock: every step of a command may interleave with another's.      *)
(* A file is an inode; the two names point to inodes and an open file keeps *)
(* its inode, whatever becomes of the name.  A file fits a stdio buffer, so *)
(* it is read at once and written at fclose.  log_ledger has no effect: it  *)
(* goes through chrono_system_disabled.                                    *)
(*                                                                         *)
(* Time is in hours.  A line keeps the local time of its expiry as text;   *)
(* the model's line keeps the instant, and LocalTime and mktime what       *)
(* writing and reading the text make of it.                                *)
(***************************************************************************)
EXTENDS Integers, Sequences, SequencesExt, FiniteSets, FiniteSetsExt

CONSTANTS
  Visitors,     \* visitor ids
  Commands,     \* bound: commands that run at a time
  MaxCommands,  \* bound: grant and revoke commands
  Hours,        \* bound: the windows asked for
  SummerTime,   \* the hours in which daylight saving time is in force
  MaxTime,      \* bound: hours the clock advances
  MaxCrashes    \* bound: commands killed and writes that fail

VARIABLES
  data,       \* per inode: the lines [n, id, exp, active] of the file
  db, tmp,    \* the inode each name points to, NoFile if there is none
  command,    \* per slot: what the running command does and holds
  now,
  issued,     \* commands started so far; numbers the grants
  crashes,
  granted,    \* history: [n, id, exp] of the grants announced
  revoked,    \* history: the n announced as revoked
  disturbed,  \* history: a revoke was overlapped, cut short or failed to write
  lost,       \* history: the n announced that have no line, or none that is read
  torn        \* history: a line was written in part

vars == <<data, db, tmp, command, now, issued, crashes, granted, revoked, disturbed, lost, torn>>

Inodes == 1..(Cardinality(Commands) + 2)
NoFile == 0
Line(n, id, exp, active) == [n |-> n, id |-> id, exp |-> exp, active |-> active]
Idle == [op |-> "idle", id |-> "nobody", ino |-> NoFile,
         text |-> <<>>, marked |-> {}]

Init ==
  /\ data = [i \in Inodes |-> <<>>]
  /\ db = NoFile /\ tmp = NoFile
  /\ command = [c \in Commands |-> Idle]
  /\ now = 0 /\ issued = 0 /\ crashes = 0
  /\ granted = {} /\ revoked = {} /\ disturbed = FALSE
  /\ lost = {} /\ torn = FALSE

\* The inode of a file that fopen creates.
NewInode == Min({i \in Inodes : i \notin {db, tmp} /\ \A c \in Commands : command[c].ino # i})

Busy == \E c \in Commands : command[c] # Idle
Revoking == \E c \in Commands : command[c].op \in {"copy", "remove", "rename"}

Begins(c) == command[c] = Idle /\ issued < MaxCommands
-----------------------------------------------------------------------------
\* strftime of localtime, as hours of the clock on the wall; and mktime of what
\* strptime makes of it, with tm_isdst 0: the text is taken for standard time.
LocalTime(t) == t + (IF t \in SummerTime THEN 1 ELSE 0)
mktime(text) == text

\* grant_access: the window is computed and the register opened with "a".  With
\* a comma in a name or an id (plain is FALSE) the fields are shifted when the
\* line is read, and the sixth is not ACTIVE.
GrantOpen(c, id, hours, plain) ==
  LET ino == IF db = NoFile THEN NewInode ELSE db IN
  /\ Begins(c)
  /\ db' = ino
  /\ data' = IF db = NoFile THEN [data EXCEPT ![ino] = <<>>] ELSE data
  /\ command' = [command EXCEPT
       ![c] = [op |-> "grant", id |-> id, ino |-> ino, marked |-> {},
               text |-> <<Line(issued + 1, id, now + hours, plain)>>]]
  /\ issued' = issued + 1
  /\ disturbed' = (disturbed \/ Revoking)
  /\ UNCHANGED <<tmp, now, crashes, granted, revoked, lost, torn>>

Announced(line) == granted' = granted \cup {[n |-> line.n, id |-> line.id, exp |-> line.exp]}

\* fclose: the line goes to the inode that was opened; the access is announced.
GrantWrite(c) ==
  LET line == Head(command[c].text) IN
  /\ command[c].op = "grant"
  /\ data' = [data EXCEPT ![command[c].ino] = Append(@, line)]
  /\ Announced(line)
  /\ lost' = IF line.active THEN lost ELSE lost \cup {line.n}
  /\ command' = [command EXCEPT ![c] = Idle]
  /\ UNCHANGED <<db, tmp, now, issued, crashes, revoked, disturbed, torn>>

\* The results of fprintf and fclose are not looked at: a grant of which nothing,
\* or a part, was written is announced like any other.
GrantWriteFails(c, part) ==
  LET line == Head(command[c].text) IN
  /\ command[c].op = "grant" /\ crashes < MaxCrashes
  /\ crashes' = crashes + 1
  /\ Announced(line)
  /\ lost' = lost \cup {line.n}
  /\ torn' = (torn \/ part)
  /\ command' = [command EXCEPT ![c] = Idle]
  /\ UNCHANGED <<data, db, tmp, now, issued, revoked, disturbed>>

\* check_access: the first active line of the visitor decides, and only that.
\* Of a line written in part sscanf leaves the fields that are not there as the
\* line before had set them: once the register is torn this says nothing.
Verdict(id) ==
  db # NoFile /\
  LET i == SelectInSeq(data[db], LAMBDA l : l.id = id /\ l.active)
  IN  i # 0 /\ now <= mktime(LocalTime(data[db][i].exp))

\* Fault: only the first active line is marked.
RevokeOpenFirstOnly(c, id) ==
  LET ino == IF tmp = NoFile THEN NewInode ELSE tmp
      first == SelectInSeq(data[db], LAMBDA l : l.id = id /\ l.active)
  IN
  /\ Begins(c) /\ db # NoFile
  /\ tmp' = ino
  /\ data' = [data EXCEPT ![ino] = <<>>]
  /\ command' = [command EXCEPT
       ![c] = [op |-> "copy", id |-> id, ino |-> ino,
               text |-> IF first = 0 THEN data[db]
                        ELSE [data[db] EXCEPT ![first].active = FALSE],
               marked |-> {l.n : l \in {x \in ToSet(data[db]) : x.id = id /\ x.active}}]]
  /\ issued' = issued + 1
  /\ disturbed' = (disturbed \/ Busy)
  /\ UNCHANGED <<db, now, crashes, granted, revoked, lost, torn>>

\* revoke_access returns silently without a register; otherwise the temporary
\* file is opened with "w" (emptied if another revoke left or uses it) and the
\* register read, the visitor's active lines marked.
RevokeOpen(c, id) ==
  LET ino == IF tmp = NoFile THEN NewInode ELSE tmp
      Marked(l) == IF l.id = id THEN [l EXCEPT !.active = FALSE] ELSE l
  IN
  /\ Begins(c) /\ db # NoFile
  /\ tmp' = ino
  /\ data' = [data EXCEPT ![ino] = <<>>]
  /\ command' = [command EXCEPT
       ![c] = [op |-> "copy", id |-> id, ino |-> ino,
               text |-> [i \in DOMAIN data[db] |-> Marked(data[db][i])],
               marked |-> {l.n : l \in {x \in ToSet(data[db]) : x.id = id /\ x.active}}]]
  /\ issued' = issued + 1
  /\ disturbed' = (disturbed \/ Busy)
  /\ UNCHANGED <<db, now, crashes, granted, revoked, lost, torn>>

\* fclose(out) writes from the start of the file; what is longer stays.
RevokeCopy(c) ==
  LET old == data[command[c].ino]
      new == command[c].text
  IN
  /\ command[c].op = "copy"
  /\ data' = [data EXCEPT ![command[c].ino] = new \o SubSeq(old, Len(new) + 1, Len(old))]
  /\ command' = [command EXCEPT ![c].op = "remove"]
  /\ UNCHANGED <<db, tmp, now, issued, crashes, granted, revoked, disturbed, lost, torn>>

\* Nor is the result of this fclose: what was not written is missing from the
\* file that takes the register's place.
RevokeCopyFails(c, part) ==
  /\ command[c].op = "copy" /\ crashes < MaxCrashes
  /\ crashes' = crashes + 1
  /\ disturbed' = TRUE
  /\ torn' = (torn \/ part)
  /\ command' = [command EXCEPT ![c].op = "remove"]
  /\ UNCHANGED <<data, db, tmp, now, issued, granted, revoked, lost>>

RevokeRemove(c) ==
  /\ command[c].op = "remove"
  /\ db' = NoFile
  /\ command' = [command EXCEPT ![c].op = "rename"]
  /\ UNCHANGED <<data, tmp, now, issued, crashes, granted, revoked, disturbed, lost, torn>>

\* rename fails unseen when another revoke took the file; the answer is the same.
RevokeRename(c) ==
  /\ command[c].op = "rename"
  /\ db' = IF tmp = NoFile THEN db ELSE tmp
  /\ tmp' = NoFile
  /\ revoked' = revoked \cup command[c].marked
  /\ command' = [command EXCEPT ![c] = Idle]
  /\ UNCHANGED <<data, now, issued, crashes, granted, disturbed, lost, torn>>

\* A command is killed; a grant then has written nothing.
Crash(c) ==
  /\ command[c] # Idle /\ crashes < MaxCrashes
  /\ command' = [command EXCEPT ![c] = Idle]
  /\ crashes' = crashes + 1
  /\ disturbed' = (disturbed \/ command[c].op # "grant")
  /\ UNCHANGED <<data, db, tmp, now, issued, granted, revoked, lost, torn>>

Tick ==
  /\ now < MaxTime
  /\ now' = now + 1
  /\ UNCHANGED <<data, db, tmp, command, issued, crashes, granted, revoked, disturbed, lost, torn>>

Next ==
  \/ \E c \in Commands :
       \/ \E id \in Visitors, hours \in Hours, plain \in BOOLEAN :
            GrantOpen(c, id, hours, plain)
       \/ \E id \in Visitors : RevokeOpen(c, id)
       \/ GrantWrite(c) \/ RevokeCopy(c) \/ RevokeRemove(c) \/ RevokeRename(c)
       \/ \E part \in BOOLEAN : GrantWriteFails(c, part) \/ RevokeCopyFails(c, part)
       \/ Crash(c)
  \/ Tick
Spec == Init /\ [][Next]_vars
-----------------------------------------------------------------------------
Lines == [n : 1..MaxCommands, id : Visitors, exp : 0..(MaxTime + Max(Hours)), active : BOOLEAN]

TypeOK ==
  /\ \A i \in Inodes : ToSet(data[i]) \subseteq Lines
  /\ db \in Inodes \cup {NoFile} /\ tmp \in Inodes \cup {NoFile}
  /\ db = tmp => db = NoFile
  /\ \A c \in Commands :
       /\ command[c].op \in {"idle", "grant", "copy", "remove", "rename"}
       /\ (command[c].op = "idle") <=> (command[c].ino = NoFile)
  /\ now \in 0..MaxTime /\ issued \in 0..MaxCommands /\ crashes \in 0..MaxCrashes
  /\ \A g \in granted : g.n \in 1..issued
  /\ revoked \subseteq 1..issued /\ disturbed \in BOOLEAN
  /\ lost \subseteq 1..issued /\ torn \in BOOLEAN

Standing(g) == g.n \notin revoked /\ g.n \notin lost

\* A window that ends in summer time is taken to end an hour later.
Within(g) == now <= g.exp \/ (g.exp \in SummerTime /\ now <= g.exp + 1)

\* "autoriza un visitante por una ventana de tiempo especifica, revocable en
\* cualquier momento": whatever overlaps, fails or is killed, a visitor is let in
\* only within a window a resident granted, or in the hour after one that ends in
\* summer time.  As long as no revoke is overlapped, killed or fails to write,
\* only a grant that was not revoked lets in, and a grant in force does, unless
\* its line was not written or has a comma too many, or an older grant of the
\* visitor that has run out stands before it.  A line written in part ends all
\* of this.
GateFollowsResidents ==
  ~torn =>
  \A id \in Visitors :
    /\ Verdict(id) => \E g \in granted : g.id = id /\ Within(g)
    /\ ~disturbed /\ ~Revoking =>
         /\ Verdict(id) => \E g \in granted : g.id = id /\ Standing(g) /\ Within(g)
         /\ (\E g \in granted : g.id = id /\ Standing(g) /\ now <= g.exp) =>
              \/ Verdict(id)
              \/ \E g \in granted : g.id = id /\ Standing(g) /\ now > g.exp
=============================================================================
