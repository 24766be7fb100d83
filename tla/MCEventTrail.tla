---------------------------- MODULE MCEventTrail -----------------------------
(* The instance of EventTrail for TLC, and the symmetry of the workers. *)
EXTENDS EventTrail, TLC

WorkerSymmetry == Permutations(Workers)
=============================================================================
