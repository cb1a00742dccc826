----------------------------- MODULE MCContinuum -----------------------------
(* Small instances of Chrono Continuum for TLC. *)
EXTENDS Continuum, TLC

\* Programs are interchangeable.
Symmetry == Permutations(Callers)
=============================================================================
