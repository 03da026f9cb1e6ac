------------------------------ MODULE Channel ------------------------------
(***************************************************************************)
(* What an endpoint of the message-oriented middleware promises while its  *)
(* process runs: messages are handled one after another, in the order in   *)
(* which they were queued, none is lost and none is handled twice.         *)
(***************************************************************************)
EXTENDS Sequences

CONSTANT Message

VARIABLES pending,    \* the messages queued and not yet taken
          taken       \* the messages taken, in order

cvars == <<pending, taken>>

ChInit == pending = << >> /\ taken = << >>

Put(m) == pending' = Append(pending, m) /\ UNCHANGED taken

Take == /\ pending # << >>
        /\ taken' = Append(taken, Head(pending))
        /\ pending' = Tail(pending)

ChNext == Take \/ \E m \in Message : Put(m)

ChSpec == ChInit /\ [][ChNext]_cvars
=============================================================================
