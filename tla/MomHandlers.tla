---------------------------- MODULE MomHandlers ----------------------------
(***************************************************************************)
(* Message types and message handlers of the message-oriented middleware   *)
(*     src/packages/base/opt/usr/share/mom/core                            *)
(* for one endpoint.  Message types form a tree; an endpoint accepts a     *)
(* message if its interface names the message's type or one of its         *)
(* supertypes, and passes it to the first handler in its list that does.   *)
(* That this is the best suited handler depends on where                   *)
(* mom_register_handler inserts each new one.                              *)
(***************************************************************************)
EXTENDS Integers, Sequences, SequencesExt

CONSTANTS Type,         \* names of message types
          Root,         \* "message", the type without a supertype
          Handler,      \* names of handler functions
          NoHandler     \* no handler found

ASSUME RootAssumption    == Root \in Type
ASSUME HandlerAssumption == NoHandler \notin Handler

VARIABLES
  types,       \* the registered types (first fields of type.list)
  supertype,   \* supertype[t]: second field of t's line; Root's is Root here
  handlers,    \* mom_handlers: sequence of records [type, handler]
  interface    \* the lines of the endpoint's interface file

vars == <<types, supertype, handlers, interface>>

TypeOK ==
  /\ types \subseteq Type /\ Root \in types
  /\ supertype \in [Type -> Type]
  /\ handlers \in Seq([type : Type, handler : Handler])
  /\ interface \in Seq(Type)

Init ==
  /\ types = {Root}
  /\ supertype = [t \in Type |-> Root]
  /\ handlers = << >> /\ interface = << >>

-----------------------------------------------------------------------------
\* mom_register_message_type: a new type below a registered one
mom_register_message_type(t, super) ==
  /\ t \notin types /\ super \in types
  /\ types' = types \cup {t}
  /\ supertype' = [supertype EXCEPT ![t] = super]
  /\ UNCHANGED <<handlers, interface>>

\* mom_get_message_type_supertypes, as a set: the type itself and all above it
mom_get_message_type_supertypes(t) ==
  LET up[u \in Type] == IF u = Root THEN {Root} ELSE {u} \cup up[supertype[u]]
  IN  up[t]

mom_is_handler_registered(h) == \E i \in DOMAIN handlers : handlers[i].handler = h

\* The entries of the handler list whose type is among the supertypes of t, as
\* the loops of mom_register_handler and mom_find_handler test them
Fitting(t) ==
  {i \in DOMAIN handlers : handlers[i].type \in mom_get_message_type_supertypes(t)}

\* Mutant: only a handler for the same type is looked for
InsertPosition_Same(t) ==
  LET same == {i \in DOMAIN handlers : handlers[i].type = t}
  IN  IF same = {} THEN Len(handlers) + 1 ELSE Min(same)

\* Where a handler for t goes: before the first one for a supertype of t
InsertPosition(t) == IF Fitting(t) = {} THEN Len(handlers) + 1 ELSE Min(Fitting(t))

mom_register_handler(h, t) ==
  /\ ~ mom_is_handler_registered(h) /\ t \in types
  /\ handlers' = InsertAt(handlers, InsertPosition(t), [type |-> t, handler |-> h])
  /\ interface' = Append(interface, t)
  /\ UNCHANGED <<types, supertype>>

\* Mutant: every line with the type is removed from the interface
mom_unregister_handler_All(h, t) ==
  \E i \in DOMAIN handlers :
    /\ handlers[i] = [type |-> t, handler |-> h]
    /\ handlers' = RemoveAt(handlers, i)
    /\ interface' = SelectSeq(interface, LAMBDA u : u # t)
    /\ UNCHANGED <<types, supertype>>

\* mom_unregister_handler removes the handler from the list and the first line
\* with the type it is told (the one the handler was registered for) from the
\* interface.
mom_unregister_handler(h, t) ==
  \E i \in DOMAIN handlers :
    /\ handlers[i] = [type |-> t, handler |-> h]
    /\ handlers' = RemoveAt(handlers, i)
    /\ interface' = RemoveFirst(interface, t)
    /\ UNCHANGED <<types, supertype>>

\* mom_queue_message: the endpoint accepts messages of type t.
Accepts(t) == mom_get_message_type_supertypes(t) \cap Range(interface) # {}

\* mom_find_handler: the first handler in the list that fits
mom_find_handler(t) ==
  IF Fitting(t) = {} THEN NoHandler ELSE handlers[Min(Fitting(t))].handler

-----------------------------------------------------------------------------
Next ==
  \/ \E t, super \in Type : mom_register_message_type(t, super)
  \/ \E h \in Handler, t \in Type : mom_register_handler(h, t) \/ mom_unregister_handler(h, t)

Spec == Init /\ [][Next]_vars

-----------------------------------------------------------------------------
(* Properties                                                              *)

\* t is u or lies below u, in terms of the tree rather than of the algorithm:
\* u is on every set of types that contains t and is closed under supertype.
Below(t, u) ==
  \A S \in SUBSET types : t \in S /\ (\A x \in S : supertype[x] \in S) => u \in S

\* The handler called for a message is registered for a type of the message
\* and no handler is registered for a more specific one ("the handler best
\* suited to process messages of this type").
DispatchIsMostSpecific ==
  \A t \in types :
    LET h == mom_find_handler(t)
        fitting == {i \in DOMAIN handlers : Below(t, handlers[i].type)}
    IN  IF h = NoHandler THEN fitting = {}
        ELSE \E i \in fitting :
               /\ handlers[i].handler = h
               /\ \A j \in fitting : Below(handlers[i].type, handlers[j].type)

\* The interface file, which the senders consult, and the handler list, which
\* the receiver consults, never disagree on what is accepted, in whatever
\* order handlers come and go: no accepted message is left without a handler.
AcceptedIffHandled == \A t \in types : Accepts(t) <=> mom_find_handler(t) # NoHandler
=============================================================================
