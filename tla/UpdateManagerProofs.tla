------------------------- MODULE UpdateManagerProofs -------------------------
(***************************************************************************)
(* Proofs about the update manager for every set of versions and keys and  *)
(* any number of crashes, when one program runs "chrono update" at a time. *)
(*                                                                         *)
(* apply removes and rewrites a release directory.  That this is never the *)
(* one "current" or "previous" leads to rests on two facts the code keeps  *)
(* in separate places: the directory's version is newer than the current   *)
(* one (the test at the start of apply) and "previous" is never newer than *)
(* "current" (the order of the writes in apply and rollback).              *)
(***************************************************************************)
EXTENDS UpdateManager, TLAPS

\* No two programs.
Single == \A p, q \in Procs : p = q

\* Every complete release is that of a publisher trusted at some time, or may
\* come from a package that took the place of a verified one.
ReleasesTrusted ==
  /\ trusted # Unsigned => trusted \in ever
  /\ \A v \in Versions : Complete(v) => rel[v] \in ever \/ v \in swapped

\* While apply has not activated its release, it is newer than the current; what
\* it may still refuse has not touched "previous".
ApplyAhead ==
  \A p \in Procs :
    /\ at[p] = "open" /\ ~torn /\ prev # NoFile => prev = before
    /\ at[p] \in {"open", "clear", "extract"} =>
         pkg[p].key \in ever \/ pkg[p].ver \in swapped
    /\ at[p] \in {"clear", "extract", "readcur", "link", "activate"} => pkg[p].ver > cur
    /\ at[p] \in {"readcur", "link", "activate"} => Complete(pkg[p].ver)
    /\ at[p] \in {"link", "activate"} => saved[p] = cur
    /\ at[p] = "activate" => tmp = pkg[p].ver

\* After the activation what apply replaced is complete and not newer.
ApplyBehind ==
  \A p \in Procs :
    at[p] \in {"truncate", "write"} =>
      /\ saved[p] = before /\ saved[p] <= cur
      /\ saved[p] # 0 => Complete(saved[p])

\* What rollback goes back to is what "previous" says.
RollbackAhead ==
  \A p \in Procs :
    /\ at[p] \in {"backlink", "reactivate"} => prev = saved[p]
    /\ at[p] = "reactivate" => tmp = saved[p]
    /\ at[p] = "unlink" => prev = 0

IInv ==
  /\ TypeOK /\ CurrentComplete /\ RollbackLands /\ ReleasesTrusted
  /\ ApplyAhead /\ ApplyBehind /\ RollbackAhead /\ RollbackUndoesApply

LEMMA Constants ==
  /\ 0 \notin Versions /\ NoFile \notin Versions /\ NoFile # 0
  /\ \A v \in Versions \cup {0} : v \in Nat
  /\ "partial" \notin Keys \cup {Unsigned} /\ "absent" \notin Keys \cup {Unsigned}
  /\ Unsigned \notin Keys
<1>1. 0 \notin Versions /\ NoFile \notin Versions /\ NoFile # 0
  BY VersionsAssumption DEF NoFile
<1>2. \A v \in Versions \cup {0} : v \in Nat
  BY VersionsAssumption
<1>3. /\ "partial" \notin Keys \cup {Unsigned} /\ "absent" \notin Keys \cup {Unsigned}
      /\ Unsigned \notin Keys
  BY KeysAssumption DEF Unsigned
<1> QED BY <1>1, <1>2, <1>3

LEMMA InvInit == Init => IInv
<1> SUFFICES ASSUME Init PROVE IInv
  OBVIOUS
<1> USE Constants, CrashesAssumption DEF Init
<1>1. TypeOK
  <2>1. 0 \in 0..MaxCrashes /\ ever \subseteq Keys
    OBVIOUS
  <2>4. torn \in BOOLEAN
    OBVIOUS
  <2>2. at \in [Procs -> {"idle"}] /\ pkg \in [Procs -> {NoPackage}] /\ saved \in [Procs -> {0}]
    OBVIOUS
  <2>3. \A p \in Procs : at[p] = "idle"
    OBVIOUS
  <2> QED BY <2>1, <2>2, <2>3, <2>4 DEF TypeOK, ApplyLabels, RollbackLabels
<1>2. CurrentComplete /\ RollbackLands /\ ReleasesTrusted /\ RollbackUndoesApply
  BY DEF CurrentComplete, RollbackLands, ReleasesTrusted, RollbackUndoesApply, Complete
<1>3. ApplyAhead /\ ApplyBehind /\ RollbackAhead
  BY DEF ApplyAhead, ApplyBehind, RollbackAhead
<1> QED BY <1>1, <1>2, <1>3 DEF IInv

LEMMA TypeStep == TypeOK /\ [Next]_vars => TypeOK'
<1> SUFFICES ASSUME TypeOK, [Next]_vars PROVE TypeOK'
  OBVIOUS
<1> USE Constants, CrashesAssumption DEF Goto, files, local, history
<1>0. TypeOK
  OBVIOUS
<1>1. CASE UNCHANGED vars
  BY <1>0, <1>1 DEF vars, TypeOK
<1>2. ASSUME NEW p \in Procs, NEW k \in Keys, trust(p, k) PROVE TypeOK'
  BY <1>0, <1>2 DEF trust, TypeOK
<1>3. ASSUME NEW p \in Procs, NEW package \in Packages,
             ApplyVerifies(p, package) \/ PackageReplaced(p, package)
      PROVE  TypeOK'
  BY <1>0, <1>3 DEF ApplyVerifies, PackageReplaced, TypeOK, ApplyLabels, RollbackLabels, Packages
<1>10. ASSUME NEW p \in Procs, ApplyChecks(p) PROVE TypeOK'
  BY <1>0, <1>10 DEF ApplyChecks, TypeOK, ApplyLabels, RollbackLabels
<1>4. ASSUME NEW p \in Procs, ApplyClears(p) \/ ApplyExtracts(p) PROVE TypeOK'
  BY <1>0, <1>4 DEF ApplyClears, ApplyExtracts, TypeOK, ApplyLabels, RollbackLabels, Packages
<1>5. ASSUME NEW p \in Procs, ApplyReadsCurrent(p) \/ ApplyLinks(p) PROVE TypeOK'
  BY <1>0, <1>5 DEF ApplyReadsCurrent, ApplyLinks, TypeOK, ApplyLabels, RollbackLabels, Packages
<1>6. ASSUME NEW p \in Procs, ApplyActivates(p) PROVE TypeOK'
  BY <1>0, <1>6 DEF ApplyActivates, TypeOK, ApplyLabels, RollbackLabels
<1>7. ASSUME NEW p \in Procs, ApplyTruncatesPrevious(p) \/ ApplyWritesPrevious(p) PROVE TypeOK'
  BY <1>0, <1>7 DEF ApplyTruncatesPrevious, ApplyWritesPrevious, TypeOK, ApplyLabels, RollbackLabels
<1>8. ASSUME NEW p \in Procs, Rollback(p) PROVE TypeOK'
  BY <1>0, <1>8 DEF Rollback, RollbackReads, RollbackLinks, RollbackActivates, RollbackUnlinks,
     RollbackForgets, TypeOK, ApplyLabels, RollbackLabels
<1>9. ASSUME NEW p \in Procs, Crash(p) PROVE TypeOK'
  BY <1>0, <1>9 DEF Crash, TypeOK, ApplyLabels, RollbackLabels
<1> QED BY <1>1, <1>2, <1>3, <1>4, <1>5, <1>6, <1>7, <1>8, <1>9, <1>10 DEF Next, Apply

\* Types, for any number of programs at a time and whatever packages are swapped.
THEOREM TypeCorrect == Spec => []TypeOK
<1>1. Init => TypeOK
  BY InvInit DEF IInv
<1> QED BY <1>1, TypeStep, PTL DEF Spec

LEMMA InvStep ==
  ASSUME Single, IInv, [Next]_vars
  PROVE  IInv'
<1> USE Constants DEF Goto, files, local, history
<1>0. TypeOK /\ TypeOK'
  <2>1. TypeOK
    BY DEF IInv
  <2> QED BY <2>1, TypeStep
<1> DEFINE Places == CurrentComplete /\ RollbackLands /\ ReleasesTrusted
           Progress == ApplyAhead /\ ApplyBehind /\ RollbackAhead /\ RollbackUndoesApply
<1>q. SUFFICES Places' /\ Progress'
  BY <1>0 DEF IInv
<1> USE DEF IInv, TypeOK, Single, CurrentComplete, RollbackLands, ReleasesTrusted, Complete
<1>1. CASE UNCHANGED vars
  BY <1>1 DEF vars, ApplyAhead, ApplyBehind, RollbackAhead, RollbackUndoesApply
<1>2. ASSUME NEW p \in Procs, NEW k \in Keys, trust(p, k) PROVE Places' /\ Progress'
  BY <1>2 DEF trust, ApplyAhead, ApplyBehind, RollbackAhead, RollbackUndoesApply
<1>3. ASSUME NEW p \in Procs, NEW package \in Packages, ApplyVerifies(p, package)
      PROVE Places' /\ Progress'
  <2> USE <1>3 DEF ApplyVerifies
  <2>1. package.key \in ever
    BY DEF verify_file
  <2> QED BY <1>0, <2>1 DEF ApplyAhead, ApplyBehind, RollbackAhead, RollbackUndoesApply
<1>13. ASSUME NEW p \in Procs, NEW package \in Packages, PackageReplaced(p, package)
       PROVE Places' /\ Progress'
  BY <1>0, <1>13
  DEF PackageReplaced, ApplyAhead, ApplyBehind, RollbackAhead, RollbackUndoesApply
<1>14. ASSUME NEW p \in Procs, ApplyChecks(p) PROVE Places' /\ Progress'
  <2> USE <1>14 DEF ApplyChecks
  <2>1. PICK running \in current_version :
          at' = [at EXCEPT ![p] = IF Accepts(pkg[p], running) THEN "clear" ELSE "idle"]
    OBVIOUS
  <2>2. at'[p] = "idle" \/ (at'[p] = "clear" /\ pkg[p].ver > cur)
    BY <2>1 DEF Accepts, current_version
  <2>3. Places'
    OBVIOUS
  <2>4. Progress'
    BY <1>0, <2>2 DEF ApplyAhead, ApplyBehind, RollbackAhead, RollbackUndoesApply
  <2> QED BY <2>3, <2>4
<1>4. ASSUME NEW p \in Procs, ApplyClears(p) PROVE Places' /\ Progress'
  <2> USE <1>4 DEF ApplyClears
  <2>1. pkg[p].ver \in Versions /\ pkg[p].ver > cur
    BY DEF ApplyAhead, ApplyLabels, Packages
  <2>2. \A v \in Versions : v # pkg[p].ver => rel'[v] = rel[v]
    OBVIOUS
  <2>3. rel'[pkg[p].ver] = "partial"
    BY <2>1
  <2>4. Places'
    BY <2>1, <2>2, <2>3
  <2>5. Progress'
    BY <1>0, <2>1 DEF ApplyAhead, ApplyBehind, RollbackAhead, RollbackUndoesApply
  <2> QED BY <2>4, <2>5
<1>11. ASSUME NEW p \in Procs, ApplyExtracts(p) PROVE Places' /\ Progress'
  <2> USE <1>11 DEF ApplyExtracts
  <2>1. /\ pkg[p].ver \in Versions /\ pkg[p].ver > cur
        /\ pkg[p].key \in ever \/ pkg[p].ver \in swapped
        /\ pkg[p].key \in Keys \cup {Unsigned}
    BY DEF ApplyAhead, ApplyLabels, Packages
  <2>2. \A v \in Versions : v # pkg[p].ver => rel'[v] = rel[v]
    OBVIOUS
  <2>3. rel'[pkg[p].ver] = pkg[p].key
    BY <2>1
  <2>4. Places'
    BY <2>1, <2>2, <2>3
  <2>5. Progress'
    BY <1>0, <2>1, <2>3 DEF ApplyAhead, ApplyBehind, RollbackAhead, RollbackUndoesApply
  <2> QED BY <2>4, <2>5
<1>5. ASSUME NEW p \in Procs, ApplyReadsCurrent(p) PROVE Places' /\ Progress'
  BY <1>0, <1>5 DEF ApplyReadsCurrent, ApplyAhead, ApplyBehind, RollbackAhead,
     RollbackUndoesApply
<1>12. ASSUME NEW p \in Procs, ApplyLinks(p) PROVE Places' /\ Progress'
  BY <1>0, <1>12 DEF ApplyLinks, ApplyAhead, ApplyBehind, RollbackAhead, RollbackUndoesApply
<1>6. ASSUME NEW p \in Procs, ApplyActivates(p) PROVE Places' /\ Progress'
  <2> USE <1>6 DEF ApplyActivates
  <2>1. tmp = pkg[p].ver /\ tmp \in Versions /\ tmp > cur /\ Complete(tmp) /\ saved[p] = cur
    BY DEF ApplyAhead, ApplyLabels, Packages
  <2>2. cur' = tmp /\ before' = cur /\ at'[p] = "truncate"
    BY <2>1
  <2>3. Places'
    BY <2>1, <2>2
  <2>4. ApplyAhead' /\ RollbackAhead' /\ RollbackUndoesApply'
    BY <1>0, <2>2 DEF ApplyAhead, RollbackAhead, RollbackUndoesApply
  <2>5. ApplyBehind'
    BY <1>0, <2>1, <2>2 DEF ApplyBehind
  <2> QED BY <2>3, <2>4, <2>5
<1>7. ASSUME NEW p \in Procs, ApplyTruncatesPrevious(p) \/ ApplyWritesPrevious(p)
      PROVE Places' /\ Progress'
  BY <1>0, <1>7 DEF ApplyTruncatesPrevious, ApplyWritesPrevious, ApplyAhead, ApplyBehind,
     RollbackAhead, RollbackUndoesApply
<1>8. ASSUME NEW p \in Procs, RollbackReads(p) \/ RollbackLinks(p) PROVE Places' /\ Progress'
  BY <1>0, <1>8 DEF RollbackReads, RollbackLinks, ApplyAhead, ApplyBehind, RollbackAhead,
     RollbackUndoesApply
<1>9. ASSUME NEW p \in Procs, RollbackActivates(p) \/ RollbackUnlinks(p)
      PROVE Places' /\ Progress'
  BY <1>0, <1>9 DEF RollbackActivates, RollbackUnlinks, ApplyAhead, ApplyBehind,
     RollbackAhead, RollbackUndoesApply
<1>10. ASSUME NEW p \in Procs, RollbackForgets(p) \/ Crash(p) PROVE Places' /\ Progress'
  BY <1>0, <1>10 DEF RollbackForgets, Crash, ApplyAhead, ApplyBehind, RollbackAhead,
     RollbackUndoesApply
<1> QED BY <1>1, <1>2, <1>3, <1>4, <1>5, <1>6, <1>7, <1>8, <1>9, <1>10, <1>11, <1>12,
           <1>13, <1>14
        DEF Next, Apply, Rollback

LEMMA Invariance == ASSUME Single PROVE Spec => []IInv
<1>1. IInv /\ [Next]_vars => IInv'
  BY InvStep
<1> QED BY <1>1, InvInit, PTL DEF Spec

\* Whatever apply and rollback commands are cut short between whichever file
\* operations, "current" leads to a completely extracted release.
THEOREM UpdateIsCrashSafe ==
  ASSUME Single PROVE Spec => []CurrentComplete
<1>1. IInv => CurrentComplete
  BY DEF IInv
<1> QED BY <1>1, Invariance, PTL

\* So does "previous", and never to one newer than "current".
THEOREM RollbackIsCrashSafe ==
  ASSUME Single PROVE Spec => []RollbackLands
<1>1. IInv => RollbackLands
  BY DEF IInv
<1> QED BY <1>1, Invariance, PTL

\* What "current" leads to was signed by a publisher trusted at some time, unless
\* a package of its version took the place of a verified one between the reads.
THEOREM InstalledIsTrusted ==
  ASSUME Single PROVE Spec => []InstalledWasTrusted
<1>1. IInv => InstalledWasTrusted
  BY Constants DEF IInv, TypeOK, CurrentComplete, ReleasesTrusted, InstalledWasTrusted
<1> QED BY <1>1, Invariance, PTL

\* Without a command cut short, rollback undoes exactly the last apply.
THEOREM RollbackIsOneLevel ==
  ASSUME Single PROVE Spec => []RollbackUndoesApply
<1>1. IInv => RollbackUndoesApply
  BY DEF IInv
<1> QED BY <1>1, Invariance, PTL

\* Only a rollback moves "current" to an older version, crashes included: the
\* version test of apply still holds when the link is replaced.
THEOREM OnlyNewerIsActivated ==
  ASSUME Single PROVE Spec => ActivatesNewer
<1> DEFINE Step == cur' # cur =>
                     cur' > cur \/ \E p \in Procs : at[p] \in {"reactivate", "unlink"}
<1>1. ASSUME IInv, [Next]_vars PROVE [Step]_vars
  <2> SUFFICES ASSUME Next, cur' # cur PROVE Step
    BY <1>1
  <2>1. ASSUME NEW p \in Procs, ApplyActivates(p) PROVE Step
    BY <1>1, <2>1 DEF ApplyActivates, IInv, ApplyAhead
  <2>2. ASSUME NEW p \in Procs, RollbackActivates(p) \/ RollbackUnlinks(p) PROVE Step
    BY <2>2 DEF RollbackActivates, RollbackUnlinks
  <2>3. ASSUME NEW p \in Procs, ~ApplyActivates(p), ~RollbackActivates(p), ~RollbackUnlinks(p),
               \/ \E k \in Keys : trust(p, k)
               \/ Apply(p) \/ Rollback(p) \/ Crash(p)
        PROVE  cur' = cur
    BY <2>3 DEF trust, Apply, Rollback, ApplyVerifies, PackageReplaced, ApplyChecks, ApplyClears, ApplyExtracts,
       ApplyReadsCurrent, ApplyLinks, ApplyTruncatesPrevious, ApplyWritesPrevious,
       RollbackReads, RollbackLinks, RollbackForgets, Crash, files
  <2> QED BY <2>1, <2>2, <2>3 DEF Next
<1>2. IInv /\ [Next]_vars => [Step]_vars
  BY <1>1
<1> QED BY <1>2, Invariance, PTL DEF Spec, ActivatesNewer
=============================================================================
