-------------------------- MODULE ServiceRegistry --------------------------
(***************************************************************************)
(* The service registry of chrono-init: what service_registry_load makes   *)
(* of the lines of etc/chrono/services.conf (init/src/service_registry.c). *)
(*                                                                         *)
(* A line is abstracted to what the loader distinguishes: the number of    *)
(* '|'-separated fields strtok_r finds in it, whether it is blank or a     *)
(* comment, whether the fields fit their buffers, and the two fields the   *)
(* supervisor acts on (the policy and the value atoi gives max_restarts).  *)
(***************************************************************************)
EXTENDS Integers, Sequences

CHRONO_MAX_SERVICES == 32

OnFailure == "on-failure"
NonePolicy == "none"

ConfLine ==
  [skip : BOOLEAN, fields : Nat, fits : BOOLEAN, policy : STRING, max : Int]

\* A line yields a service when it is neither blank nor a comment, has the
\* four fields, and every field is shorter than its buffer.
Accepted(line) == ~line.skip /\ line.fields >= 4 /\ line.fits

\* atoi, then the clamp of negative budgets to zero.
Service(line) ==
  [policy |-> line.policy, max_restarts |-> IF line.max < 0 THEN 0 ELSE line.max]

\* The table stops growing at CHRONO_MAX_SERVICES (cap in the instances that
\* TLC explores): the loader leaves its loop at the first line it has no
\* room for.
service_registry_load(lines, cap) ==
  LET good  == SelectSeq(lines, Accepted)
      count == IF Len(good) < cap THEN Len(good) ELSE cap
  IN  [i \in 1..count |-> Service(good[i])]
=============================================================================
