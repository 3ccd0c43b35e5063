----------------------------- MODULE MCAiLeases -----------------------------
(* Instances of AiLeases for TLC. *)
EXTENDS AiLeases, TLC

(* Calls, tasks, credentials and workers are interchangeable. *)
Symmetry == Permutations(Call) \cup Permutations(Task) \cup Permutations(Key)
            \cup Permutations(Worker)
=============================================================================
