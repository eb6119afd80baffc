------------------------ MODULE MCFinalizationQueue ------------------------
(* Model checking the finalization queue on its own. *)
EXTENDS FinalizationQueue, TLC

\* Ids are interchangeable: iter_prefix hands them out in any order.
Symmetry == Permutations(Ids)
=============================================================================
