----------------------------- MODULE MCSupabase -----------------------------
(* Instances of Supabase for TLC. *)
EXTENDS Supabase, TLC

Symmetry == Permutations(Worker) \cup Permutations(Instance)
=============================================================================
