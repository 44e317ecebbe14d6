---------------------------- MODULE MCRexRuntime ----------------------------
(***************************************************************************)
(* Model values for the CPUs and objects of RexRuntime, and the symmetries *)
(* of the safety runs.                                                     *)
(***************************************************************************)
EXTENDS RexRuntime, TLC

\* CPUs, locks, references and records are only compared for equality.
Symmetry == Permutations(CPUs) \cup Permutations(Locks)
              \cup Permutations(Tasks)
=============================================================================
