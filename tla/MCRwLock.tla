---- MODULE MCRwLock ----
(* Small instances of RwLock.tla for TLC. *)
EXTENDS RwLock, TLC

Perms == Permutations(Proc)
====
