------------------------------- MODULE Mutex -------------------------------
(***************************************************************************)
(* What an exclusive lock of /etc/boot.d/locking.inc promises its callers: *)
(* every resource has at most one owner, the owner may take the lock again *)
(* and releases it as often as it took it.  A process that dies without    *)
(* running its exit trap simply stays the owner.                           *)
(***************************************************************************)
EXTENDS Naturals

CONSTANTS Proc,     \* the processes (PIDs) using the lock
          Res,      \* the resource names
          NoProc    \* "not locked"

VARIABLES owner,    \* owner[r]: the process that holds r, or NoProc
          depth     \* depth[r]: how often the owner took r

mvars == <<owner, depth>>

MTypeOK == /\ owner \in [Res -> Proc \cup {NoProc}]
           /\ depth \in [Res -> Nat]

MInit == /\ owner = [r \in Res |-> NoProc]
         /\ depth = [r \in Res |-> 0]

Acquire(p, r) == /\ owner[r] \in {NoProc, p}
                 /\ owner' = [owner EXCEPT ![r] = p]
                 /\ depth' = [depth EXCEPT ![r] = @ + 1]

Release(p, r) == /\ owner[r] = p
                 /\ depth' = [depth EXCEPT ![r] = @ - 1]
                 /\ owner' = [owner EXCEPT ![r] = IF depth[r] = 1 THEN NoProc ELSE @]

MNext == \E p \in Proc, r \in Res : Acquire(p, r) \/ Release(p, r)

MSpec == MInit /\ [][MNext]_mvars
=============================================================================
