------------------------- MODULE MCSandboxLifecycle -------------------------
(* Instances of SandboxLifecycle: one contested name, interchangeable ids. *)
EXTENDS SandboxLifecycle, TLC

Symmetry == Permutations(Ids)
=============================================================================
