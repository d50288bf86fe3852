---------------------------- MODULE MCAdapterLife ----------------------------
(* AdapterLife with small sets for TLC. *)
EXTENDS AdapterLife, TLC

Symmetry == Permutations(Devices) \union Permutations(Clients)
=============================================================================
