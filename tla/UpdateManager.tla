---------------------------- MODULE UpdateManager ----------------------------
(***************************************************************************)
(* Signed updates with one-level rollback (chronoos/identity.py): trust,   *)
(* apply and rollback as sequences of file system operations that may be   *)
(* cut short anywhere, on the files they share: releases/, the symbolic    *)
(* link "current", its temporary ".cur.tmp" and the file "previous".       *)
(*                                                                         *)
(* Releases are named by version; versions are numbers, 0 being the        *)
(* VERSION the program itself carries.  A release directory is absent,     *)
(* partial (created, extraction not finished) or holds a package, of which *)
(* the publisher key is kept.  apply opens the package twice, to verify    *)
(* and to extract it; another one may be put in its place in between.      *)
(***************************************************************************)
EXTENDS Integers

CONSTANTS
  Versions,   \* versions packages are published with
  Keys,       \* publisher keys
  Procs,      \* the programs that may run "chrono update" at a time
  MaxCrashes  \* bound: commands cut short

ASSUME VersionsAssumption == Versions \subseteq Nat \ {0}
ASSUME KeysAssumption == "absent" \notin Keys /\ "partial" \notin Keys /\ "none" \notin Keys
ASSUME CrashesAssumption == MaxCrashes \in Nat

Unsigned == "none"
NoFile == -1

\* What apply distinguishes in a package: its version, the key of its .sig
\* (or none) and whether members and manifest pass the checks.
Packages == [ver : Versions, key : Keys \cup {Unsigned}, wellformed : BOOLEAN]

VARIABLES
  rel,      \* releases/<version>
  cur,      \* the version "current" links to, 0 without a link
  prev,     \* the file "previous": NoFile, 0 for an empty text, or a version
  tmp,      \* ".cur.tmp": NoFile or the version it links to
  trusted,  \* trust/publisher.pub
  at,       \* where each program is in its command
  pkg,      \* the package at the path a program applies
  saved,    \* the local variable prev of apply and rollback
  crashes,
  ever,     \* history: the keys that were trusted at some time
  before,   \* history: the version the last apply replaced
  torn,     \* history: some command was cut short
  swapped   \* history: the versions of packages put in place of a verified one

files == <<rel, cur, prev, tmp, trusted>>
local == <<at, pkg, saved>>
history == <<ever, before, torn, swapped>>
vars == <<files, local, crashes, history>>

Complete(v) == rel[v] \in Keys \cup {Unsigned}
NoPackage == [ver |-> 0, key |-> Unsigned, wellformed |-> FALSE]

Init ==
  /\ rel = [v \in Versions |-> "absent"]
  /\ cur = 0 /\ prev = NoFile /\ tmp = NoFile
  /\ trusted = Unsigned
  /\ at = [p \in Procs |-> "idle"]
  /\ pkg = [p \in Procs |-> NoPackage]
  /\ saved = [p \in Procs |-> 0]
  /\ crashes = 0
  /\ ever = {} /\ before = 0 /\ torn = FALSE /\ swapped = {}

Goto(p, label) == at' = [at EXCEPT ![p] = label]
-----------------------------------------------------------------------------
\* trust: the publisher whose packages are accepted from now on.
trust(p, k) ==
  /\ at[p] = "idle"
  /\ trusted' = k
  /\ ever' = ever \cup {k}
  /\ UNCHANGED <<rel, cur, prev, tmp, local, crashes, before, torn, swapped>>

\* current_version: the manifest of the linked release, VERSION when there is
\* no such file; a release that is being extracted may have it or not.
current_version ==
  CASE cur = 0       -> {0}
    [] cur # 0 /\ Complete(cur)  -> {cur}
    [] cur # 0 /\ ~Complete(cur) -> {0, cur}

verify_fileAnyKey(package) ==           \* fault: a .sig is enough
  package.key # Unsigned /\ trusted # Unsigned

\* A publisher is trusted and the signature is its.  A refusal only reports.
verify_file(package) == package.key = trusted /\ trusted # Unsigned

ApplyVerifies(p, package) ==
  /\ at[p] = "idle"
  /\ verify_file(package)
  /\ pkg' = [pkg EXCEPT ![p] = package]
  /\ Goto(p, "open")
  /\ UNCHANGED <<files, saved, crashes, history>>

\* External: the file at the path is replaced before it is opened again.
PackageReplaced(p, other) ==
  /\ at[p] = "open"
  /\ pkg' = [pkg EXCEPT ![p] = other]
  /\ swapped' = swapped \cup {other.ver}
  /\ UNCHANGED <<files, at, saved, crashes, ever, before, torn>>

AcceptsSame(package, running) ==        \* fault: < for <= in the version test
  package.wellformed /\ package.ver >= running
AcceptsOlder(package, running) ==       \* fault: no version test
  package.wellformed

\* The members, the manifest and the version test, on what tarfile.open finds.
Accepts(package, running) == package.wellformed /\ package.ver > running

ApplyChecks(p) ==
  /\ at[p] = "open"
  /\ \E running \in current_version :
       Goto(p, IF Accepts(pkg[p], running) THEN "clear" ELSE "idle")
  /\ UNCHANGED <<files, pkg, saved, crashes, history>>

\* rmtree of an old copy and mkdir.
ApplyClears(p) ==
  /\ at[p] = "clear"
  /\ rel' = [rel EXCEPT ![pkg[p].ver] = "partial"]
  /\ Goto(p, "extract")
  /\ UNCHANGED <<cur, prev, tmp, trusted, pkg, saved, crashes, history>>

ApplyExtracts(p) ==
  /\ at[p] = "extract"
  /\ rel' = [rel EXCEPT ![pkg[p].ver] = pkg[p].key]
  /\ Goto(p, "readcur")
  /\ UNCHANGED <<cur, prev, tmp, trusted, pkg, saved, crashes, history>>

\* prev = realpath(current), or the empty text.
ApplyReadsCurrent(p) ==
  /\ at[p] = "readcur"
  /\ saved' = [saved EXCEPT ![p] = cur]
  /\ Goto(p, "link")
  /\ UNCHANGED <<files, pkg, crashes, history>>

\* tmp.unlink(missing_ok), os.symlink(dest, tmp).
ApplyLinks(p) ==
  /\ at[p] = "link"
  /\ tmp' = pkg[p].ver
  /\ Goto(p, "activate")
  /\ UNCHANGED <<rel, cur, prev, trusted, pkg, saved, crashes, history>>

\* os.replace(tmp, current); FileNotFoundError when another program's replace
\* consumed the temporary ends the command.
ApplyActivates(p) ==
  /\ at[p] = "activate"
  /\ cur' = IF tmp = NoFile THEN cur ELSE tmp
  /\ before' = IF tmp = NoFile THEN before ELSE cur
  /\ Goto(p, IF tmp = NoFile THEN "idle" ELSE "truncate")
  /\ tmp' = NoFile
  /\ UNCHANGED <<rel, prev, trusted, pkg, saved, crashes, ever, torn, swapped>>

\* PREV.write_text(prev): open for writing truncates, then the text is written.
ApplyTruncatesPrevious(p) ==
  /\ at[p] = "truncate"
  /\ prev' = 0
  /\ Goto(p, "write")
  /\ UNCHANGED <<rel, cur, tmp, trusted, pkg, saved, crashes, history>>

\* Fault: realpath(current) taken after the replace.
ApplyWritesCurrent(p) ==
  /\ at[p] = "write"
  /\ prev' = cur
  /\ Goto(p, "idle")
  /\ UNCHANGED <<rel, cur, tmp, trusted, pkg, saved, crashes, history>>

ApplyWritesPrevious(p) ==
  /\ at[p] = "write"
  /\ prev' = saved[p]
  /\ Goto(p, "idle")
  /\ UNCHANGED <<rel, cur, tmp, trusted, pkg, saved, crashes, history>>
-----------------------------------------------------------------------------
\* Fault: the empty text is taken for a path.
RollbackReadsPath(p) ==
  /\ at[p] = "idle" /\ prev # NoFile
  /\ saved' = [saved EXCEPT ![p] = prev]
  /\ Goto(p, "backlink")
  /\ UNCHANGED <<files, pkg, crashes, history>>

\* rollback reads "previous"; without the file it refuses.
RollbackReads(p) ==
  /\ at[p] = "idle" /\ prev # NoFile
  /\ saved' = [saved EXCEPT ![p] = prev]
  /\ Goto(p, IF prev = 0 THEN "unlink" ELSE "backlink")
  /\ UNCHANGED <<files, pkg, crashes, history>>

RollbackLinks(p) ==
  /\ at[p] = "backlink"
  /\ tmp' = saved[p]
  /\ Goto(p, "reactivate")
  /\ UNCHANGED <<rel, cur, prev, trusted, pkg, saved, crashes, history>>

RollbackActivates(p) ==
  /\ at[p] = "reactivate"
  /\ cur' = IF tmp = NoFile THEN cur ELSE tmp
  /\ Goto(p, IF tmp = NoFile THEN "idle" ELSE "forget")
  /\ tmp' = NoFile
  /\ UNCHANGED <<rel, prev, trusted, pkg, saved, crashes, history>>

\* The empty text: back to the program's own version.
RollbackUnlinks(p) ==
  /\ at[p] = "unlink"
  /\ cur' = 0
  /\ Goto(p, "forget")
  /\ UNCHANGED <<rel, prev, tmp, trusted, pkg, saved, crashes, history>>

\* PREV.unlink(); when another program removed it first the command ends with
\* an exception that changes nothing.
RollbackForgets(p) ==
  /\ at[p] = "forget"
  /\ prev' = NoFile
  /\ Goto(p, "idle")
  /\ UNCHANGED <<rel, cur, tmp, trusted, pkg, saved, crashes, history>>

\* The command dies between two of its file system operations.
Crash(p) ==
  /\ at[p] # "idle" /\ crashes < MaxCrashes
  /\ crashes' = crashes + 1
  /\ Goto(p, "idle")
  /\ torn' = TRUE
  /\ UNCHANGED <<files, pkg, saved, ever, before, swapped>>
-----------------------------------------------------------------------------
Apply(p) ==
  \/ \E package \in Packages : ApplyVerifies(p, package) \/ PackageReplaced(p, package)
  \/ ApplyChecks(p) \/ ApplyClears(p) \/ ApplyExtracts(p) \/ ApplyReadsCurrent(p)
  \/ ApplyLinks(p) \/ ApplyActivates(p) \/ ApplyTruncatesPrevious(p) \/ ApplyWritesPrevious(p)

Rollback(p) ==
  \/ RollbackReads(p) \/ RollbackLinks(p) \/ RollbackActivates(p)
  \/ RollbackUnlinks(p) \/ RollbackForgets(p)

Next ==
  \E p \in Procs :
    \/ \E k \in Keys : trust(p, k)
    \/ Apply(p) \/ Rollback(p) \/ Crash(p)

Spec == Init /\ [][Next]_vars
-----------------------------------------------------------------------------
ApplyLabels == {"open", "clear", "extract", "readcur", "link", "activate", "truncate", "write"}
RollbackLabels == {"backlink", "reactivate", "unlink", "forget"}

TypeOK ==
  /\ rel \in [Versions -> Keys \cup {Unsigned, "absent", "partial"}]
  /\ cur \in Versions \cup {0}
  /\ prev \in Versions \cup {0, NoFile}
  /\ tmp \in Versions \cup {NoFile}
  /\ trusted \in Keys \cup {Unsigned}
  /\ at \in [Procs -> {"idle"} \cup ApplyLabels \cup RollbackLabels]
  /\ pkg \in [Procs -> Packages \cup {NoPackage}]
  /\ saved \in [Procs -> Versions \cup {0}]
  /\ crashes \in 0..MaxCrashes
  /\ ever \subseteq Keys /\ before \in Versions \cup {0} /\ torn \in BOOLEAN
  /\ swapped \subseteq Versions
  /\ \A p \in Procs : at[p] \in ApplyLabels => pkg[p] \in Packages
  /\ \A p \in Procs : at[p] \in {"backlink", "reactivate"} => saved[p] \in Versions

\* "current" always leads to a completely extracted release, also after a
\* command was cut short between any two file system operations.
CurrentComplete == cur # 0 => Complete(cur)

\* So does "previous": rollback never lands on a directory that a later apply
\* removed or left half extracted.
RollbackLands == prev \in Versions => Complete(prev) /\ prev <= cur

\* What is current was signed by a publisher who was trusted at some time,
\* whatever trust, apply and rollback commands came in between, unless a package
\* of that version was put in the place of one that had just been verified.
InstalledWasTrusted == cur # 0 => rel[cur] \in ever \/ cur \in swapped

\* "rejects ... same-or-older version" (chronoos-1.3/README.md): "current"
\* only ever moves to a newer version, except by a rollback.
ActivatesNewer ==
  [][cur' # cur => cur' > cur \/ \E p \in Procs : at[p] \in {"reactivate", "unlink"}]_vars

\* "one-level rollback": when no command was cut short, "previous" names
\* what the last apply replaced.
RollbackUndoesApply ==
  (\A p \in Procs : at[p] = "idle") /\ ~torn /\ prev # NoFile => prev = before
=============================================================================
