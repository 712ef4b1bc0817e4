----------------------------- MODULE MCRingBuffer -----------------------------
(***************************************************************************)
(* Instances of RingBuffer for TLC.                                        *)
(***************************************************************************)
EXTENDS RingBuffer, TLC

(* Writers are interchangeable unless they differ in MayFault, and so are  *)
(* the readers with a length of their own.                                 *)
Symmetry == Permutations(Writers) \cup Permutations(Readers)

(* The step that breaks the contract is taken and checked; what comes      *)
(* after it is explored by the runs without this constraint.               *)
ContractKept == intact

=============================================================================
