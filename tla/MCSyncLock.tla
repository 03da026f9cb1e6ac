---- MODULE MCSyncLock ----
(* Small instances of SyncLock.tla for TLC. *)
EXTENDS SyncLock, TLC

Perms == Permutations(Proc) \cup Permutations(Res)
====
