---- MODULE MCMomHandlers ----
(* A small instance of MomHandlers.tla for TLC. *)
EXTENDS MomHandlers

Perms == Permutations(Type \ {Root}) \cup Permutations(Handler)
====
