--------------------------- MODULE CircuitStates ---------------------------
(***************************************************************************)
(* The states of circuits and the transitions between them, as the user's  *)
(* manual tabulates them (sections "Circuit-Zustaende" and "Das Programm   *)
(* fli4lctrl"), with what circd adds to the table: protocols come up one   *)
(* by one ("semionline"), and a clone is deleted when it is hung up.       *)
(* Circd implements this specification.                                    *)
(***************************************************************************)
CONSTANT Circuit
VARIABLE state

Stopped == {"inactive", "failed"}
Up      == {"ready", "semionline", "online"}

Init == state \in [Circuit -> {"none", "inactive"}]

Move(c, from, to) ==
  /\ state[c] \in from
  /\ \E s \in to : state' = [state EXCEPT ![c] = s]

Create(c)     == Move(c, {"none"}, {"inactive"})
Activate(c)   == Move(c, Stopped, {"active"})
Dial(c)       == Move(c, {"active"}, {"ready"})
Connect(c)    == Move(c, Up, {"semionline", "online"})
Hangup(c)     == Move(c, Up, {"active"} \cup Stopped)
Deactivate(c) == Move(c, {"active"} \cup Stopped, Stopped)
Delete(c)     == Move(c, Up \cup {"active"} \cup Stopped, {"deleted"})
Remove(c)     == Move(c, {"deleted"}, {"none"})

Next ==
  \E c \in Circuit :
    \/ Create(c) \/ Activate(c) \/ Dial(c) \/ Connect(c)
    \/ Hangup(c) \/ Deactivate(c) \/ Delete(c) \/ Remove(c)

Spec == Init /\ [][Next]_state
=============================================================================
