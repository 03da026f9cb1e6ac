------------------------- MODULE CircdDuties_proofs -------------------------
(***************************************************************************)
(* Circuits obey their dial modes and their dependencies: proofs for the   *)
(* tame circuits of Circd_proofs, whatever the others do.                  *)
(*                                                                         *)
(* A circuit loses its dial mode or a dependee in the middle of a handler, *)
(* and is hung up by a call that comes later in the same handler.  The     *)
(* invariant says that as long as such a circuit is not being hung up, a   *)
(* call that looks after it is on the stack (Watched); that a circuit is   *)
(* only dialled if it may be (CallFits); and that the operation "hangup"   *)
(* is not cleared before the circuit is down or may be up again.           *)
(*                                                                         *)
(* The second part is about the child processes of circd and its end, and  *)
(* about types.                                                            *)
(***************************************************************************)
EXTENDS Circd_proofs

-----------------------------------------------------------------------------
Off(c) == EffectiveMode(c) = "off"

\* What DependenciesHold says of one circuit.  A dependee on which reports come late
\* can be online for circd_is_online and no longer up.
DependeesUp(c) ==
  /\ \A d \in Deps[c] : \E e \in d.on : state[e] \in UpStates \/ e \notin Tame
  /\ Origin[c] # 0 => state[Origin[c]] \in UpStates

\* c may be up.
Fit(c) == ~ Off(c) /\ DependeesUp(c)

\* The next call takes c down.
Leaving(c) == stack[1].call = "change_state" /\ stack[1].id = c /\ stack[1].arg \notin UpStates

CallFits(f) ==
  /\ f.call = "dial" => Fit(f.id)
  /\ f.call = "mode_changed" => f.arg = EffectiveMode(f.id)
  /\ f.call = "clear_op" /\ f.id \in Tame =>
       /\ f.arg \in {"dial", "hangup"}
       /\ f.arg = "hangup" => state[f.id] \notin UpStates \/ Fit(f.id) \/ Leaving(f.id)

OnStack(f) == \E i \in 1..Len(stack) : stack[i] = f

AllFit == \A f \in CallType : OnStack(f) => CallFits(f)

\* What may wait while a circuit is taken down
LeavingAlone ==
  stack # << >> /\ stack[1].call = "change_state" /\ stack[1].arg \notin UpStates =>
    \A i \in 2..Len(stack) : \/ stack[i].call \in {"hung_up", "unref"}
                             \/ stack[i].call = "clear_op" /\ stack[i].id = stack[1].id

Watched ==
  \A c \in Tame : state[c] \in UpStates /\ op[c] # "hangup" =>
    /\ Off(c) => HasCall("mode_changed", c) \/ HasCall("hangup", c)
    /\ ~ DependeesUp(c) => HasCall("derive", c) \/ HasCall("hangup", c)

Duties == AllFit /\ LeavingAlone /\ Watched

-----------------------------------------------------------------------------
(* The calls of a step                                                     *)

\* A call is one of the new ones, or waited before; the first one is new, or no
\* call was made.
LEMMA NewStack ==
  ASSUME Typed, Shape, stack # << >>, NEW calls \in Seq(CallType), Return(calls)
  PROVE  /\ \A f : OnStack(f)' => \/ \E j \in 1..Len(calls) : f = calls[j]
                                 \/ \E j \in 2..Len(stack) : f = stack[j]
         /\ \A i \in 1..Len(stack') : \/ \E j \in 1..Len(calls) : stack'[i] = calls[j]
                                      \/ \E j \in 2..Len(stack) : stack'[i] = stack[j]
         /\ stack' # << >> => \/ 1 \in 1..Len(calls) /\ stack'[1] = calls[1]
                              \/ \E j \in 2..Len(stack) : stack'[1] = stack[j]
         /\ \A j \in 2..Len(stack) : stack[j].call \notin TopOnly /\ stack[j] \in CallType
<1>1. stack \in Seq(CallType)
  BY DEF Typed
<1>2. /\ stack' \in Seq(CallType) /\ Len(stack) \in Nat
      /\ \A i \in 1..Len(calls) : stack'[i] = calls[i]
      /\ \A i \in 1..Len(stack') : i \in 1..Len(calls)
                \/ (i - Len(calls) + 1 \in 2..Len(stack) /\ stack'[i] = stack[i - Len(calls) + 1])
  BY <1>1, ReturnCalls
<1>3. \A i \in 1..Len(stack') : \/ i \in 1..Len(calls) /\ stack'[i] = calls[i]
                                \/ \E j \in 2..Len(stack) : stack'[i] = stack[j]
  BY <1>2
<1>4. stack' # << >> => 1 \in 1..Len(stack')
  BY <1>2
<1>5. \A j \in 2..Len(stack) : stack[j] \in CallType
  BY <1>1, <1>2, LaterPlaces, SeqElements
<1>6. QED
  BY <1>3, <1>4, <1>5 DEF Shape, OnStack

LEMMA NobodyLeaves ==
  ASSUME Typed, Shape, stack # << >>, NEW calls \in Seq(CallType), Return(calls),
         1 \in 1..Len(calls) => calls[1].call # "change_state" \/ calls[1].arg \in UpStates
  PROVE  LeavingAlone'
<1>1. stack' # << >> => stack'[1].call # "change_state" \/ stack'[1].arg \in UpStates
  BY NewStack DEF TopOnly
<1>2. QED
  BY <1>1 DEF LeavingAlone

\* A call that waits is still right if nothing changes to the worse.
LEMMA StillFits ==
  ASSUME NEW f \in CallType, f.call # "check_exit", CallFits(f),
         \A c \in Circuit : EffectiveMode(c)' = EffectiveMode(c) /\ (Fit(c) => Fit(c)'),
         Tame' = Tame,
         \A c \in Tame : state'[c] \in UpStates => (state[c] \in UpStates \/ Fit(c)') /\ ~ Leaving(c)
  PROVE  CallFits(f)'
<1>1. f.id \in Circuit
  BY DEF CallType
<1>2. QED
  BY <1>1 DEF CallFits

LEMMA SameConfig ==
  ASSUME config' = config
  PROVE  Deps' = Deps /\ Origin' = Origin /\ Tame' = Tame
BY DEF Deps, Origin, Tame, Kind, Protocols, DialMayFail

LEMMA TameAreCircuits == Tame \subseteq Circuit
BY DEF Tame

\* What stays as it is
LEMMA SameFit ==
  ASSUME UNCHANGED <<config, state, globalMode, localMode>>
  PROVE  /\ Tame' = Tame
         /\ \A c : /\ EffectiveMode(c)' = EffectiveMode(c)
                   /\ DependeesUp(c)' <=> DependeesUp(c)
                   /\ Fit(c)' <=> Fit(c)
                   /\ Off(c)' <=> Off(c)
<1>1. Deps' = Deps /\ Origin' = Origin /\ Tame' = Tame
  BY SameConfig
<1>2. \A c : EffectiveMode(c)' = EffectiveMode(c)
  BY DEF EffectiveMode, circd_get_effective_dialmode
<1>3. \A c : DependeesUp(c)' <=> DependeesUp(c)
  BY <1>1 DEF DependeesUp
<1>4. QED
  BY <1>1, <1>2, <1>3 DEF Fit, Off

\* A circuit that is dialled may be up.
LEMMA ChecksFit ==
  ASSUME IInv, NEW c \in Circuit, circd_check_dependencies(c), NEW b, circd_check_weak_dependencies(c, b)
  PROVE  DependeesUp(c)
<1>1. /\ config \in Configs /\ state \in [Circuit -> States \cup {"none"}]
      /\ \A e \in Circuit : protsUp[e] # {} /\ e \in Tame => state[e] \in UpStates
  BY DEF IInv, Typed, Sources
<1>2. \A d \in Deps[c] : d.on \subseteq Circuit
  BY <1>1, ConfigAssumption DEF Deps
<1>3. \A e \in Circuit : \A q : circd_is_online(e, q) => state[e] \in UpStates \/ e \notin Tame
  BY <1>1 DEF circd_is_online, UpStates
<1>4. \A e \in Circuit : \A h : circd_is_at_least_ready(e, h) => state[e] \in UpStates
  BY DEF circd_is_at_least_ready
<1>5. \A d \in Deps[c] : \E e \in d.on : state[e] \in UpStates \/ e \notin Tame
  BY <1>2, <1>3, <1>4 DEF circd_check_dependencies
<1>6. Origin[c] # 0 => state[Origin[c]] \in UpStates
  BY DEF circd_check_weak_dependencies, circd_is_at_least_ready
<1>7. QED
  BY <1>5, <1>6 DEF DependeesUp

-----------------------------------------------------------------------------
(* Functions that leave states and modes alone                             *)

LEMMA CalmDuties ==
  ASSUME IInv, Duties, stack # << >>, Frame.call # "change_state", NEW calls \in Seq(CallType), Return(calls),
         UNCHANGED <<config, state, globalMode, localMode>>, LeavingAlone',
         \A j \in 1..Len(calls) : CallFits(calls[j])',
         \A c \in Tame : state[c] \in UpStates /\ op'[c] # "hangup" /\ ~ Fit(c) => op[c] # "hangup",
         \A c \in Tame : state[c] \in UpStates /\ op'[c] # "hangup" /\ Frame.id = c =>
           /\ Frame.call # "hangup"
           /\ Frame.call = "mode_changed" /\ Off(c) => Made(calls, "hangup", c)
           /\ Frame.call = "derive" /\ ~ DependeesUp(c) => Made(calls, "hangup", c)
  PROVE  Duties'
<1>0. Typed /\ Shape /\ stack \in Seq(CallType)
  BY DEF IInv, Typed
<1>1. Frame = stack[1]
  BY <1>0, FrameFacts
<1>2. /\ Tame' = Tame
      /\ \A c : /\ EffectiveMode(c)' = EffectiveMode(c)
                /\ DependeesUp(c)' <=> DependeesUp(c)
                /\ Fit(c)' <=> Fit(c)
                /\ Off(c)' <=> Off(c)
  BY SameFit
<1>3. \A c : ~ Leaving(c)
  BY <1>1 DEF Leaving
<1>4. ASSUME NEW j \in 2..Len(stack), NEW f \in CallType, f = stack[j] PROVE CallFits(f)'
  <2>1. f.call # "check_exit" /\ CallFits(f)
    <3>1. j \in 1..Len(stack)
      BY <1>0, SeqElements, LaterPlaces
    <3>2. QED
      BY <1>0, <1>4, <3>1, NewStack DEF Duties, AllFit, OnStack, TopOnly
  <2>2. QED
    BY <1>2, <1>3, <2>1, StillFits, TameAreCircuits
<1>5. AllFit'
  <2>1. SUFFICES ASSUME NEW f \in CallType, OnStack(f)' PROVE CallFits(f)'
    BY DEF AllFit
  <2>2. CASE \E j \in 1..Len(calls) : f = calls[j]
    BY <2>2
  <2>3. CASE \E j \in 2..Len(stack) : f = stack[j]
    BY <1>4, <2>3
  <2>4. QED
    BY <1>0, <2>1, <2>2, <2>3, NewStack
<1>6. /\ \A f, c : HasCall(f, c)' <=> Made(calls, f, c) \/ Waits(f, c)
      /\ \A f, c : HasCall(f, c) <=> (Frame.call = f /\ Frame.id = c) \/ Waits(f, c)
  BY <1>0, CallsAfter
<1>7. Watched'
  <2>1. SUFFICES ASSUME NEW c \in Tame, state[c] \in UpStates, op'[c] # "hangup"
                 PROVE  /\ Off(c) => HasCall("mode_changed", c)' \/ HasCall("hangup", c)'
                        /\ ~ DependeesUp(c) => HasCall("derive", c)' \/ HasCall("hangup", c)'
    BY <1>2 DEF Watched
  <2>2. CASE Fit(c)
    BY <2>2 DEF Fit
  <2>3. CASE ~ Fit(c)
    <3>1. op[c] # "hangup"
      BY <2>1, <2>3
    <3>2. /\ Off(c) => HasCall("mode_changed", c) \/ HasCall("hangup", c)
          /\ ~ DependeesUp(c) => HasCall("derive", c) \/ HasCall("hangup", c)
      BY <2>1, <3>1 DEF Duties, Watched
    <3>3. QED
      BY <1>6, <2>1, <3>2
  <2>4. QED
    BY <2>2, <2>3
<1>8. QED
  BY <1>5, <1>7 DEF Duties

\* Circuit c is dialled, hung up, or left alone.
Looked(c, calls) ==
  \/ calls = << >>
  \/ calls = DialCalls(c) /\ Fit(c)
  \/ \E s \in {"active"} \cup Stopped : calls = <<Call("hangup", c, s)>>

LEMMA LookedFits ==
  ASSUME NEW c \in Circuit, NEW calls, Looked(c, calls), UNCHANGED <<config, state, globalMode, localMode>>
  PROVE  /\ calls \in Seq(CallType)
         /\ \A j \in 1..Len(calls) : CallFits(calls[j])'
         /\ 1 \in 1..Len(calls) => calls[1].call # "change_state" \/ calls[1].arg \in UpStates
         /\ (\E s \in {"active"} \cup Stopped : calls = <<Call("hangup", c, s)>>) => Made(calls, "hangup", c)
<1>1. CASE calls = << >>
  <2>1. calls \in Seq(CallType) /\ Len(calls) = 0 /\ \A j : j \notin 1..0
    BY <1>1
  <2>2. ~ \E s : calls = <<Call("hangup", c, s)>>
    BY <1>1
  <2>3. QED
    BY <2>1, <2>2
<1>2. CASE calls = DialCalls(c) /\ Fit(c)
  <2>1. /\ calls \in Seq(CallType) /\ Len(calls) = 2
        /\ calls[1].call = "change_state" /\ calls[1].arg = "ready"
        /\ calls[2].call = "dial" /\ calls[2].id = c
    BY <1>2, DialCallsAre
  <2>2. \A j \in 1..2 : j = 1 \/ j = 2
    OBVIOUS
  <2>3. Fit(c)'
    BY <1>2, SameFit
  <2>4. \A j \in 1..Len(calls) : CallFits(calls[j])'
    BY <2>1, <2>2, <2>3 DEF CallFits
  <2>5. ~ Made(calls, "hangup", c) /\ \A s \in {"active"} \cup Stopped : calls # <<Call("hangup", c, s)>>
    BY <2>1, <2>2, HangupCallIs DEF Made
  <2>6. QED
    BY <2>1, <2>4, <2>5 DEF UpStates
<1>3. ASSUME NEW s \in {"active"} \cup Stopped, calls = <<Call("hangup", c, s)>>
      PROVE  /\ calls \in Seq(CallType)
             /\ \A j \in 1..Len(calls) : CallFits(calls[j])'
             /\ 1 \in 1..Len(calls) => calls[1].call # "change_state"
             /\ Made(calls, "hangup", c)
  <2>1. PICK x \in CallType : x = Call("hangup", c, s) /\ x.call = "hangup" /\ x.id = c
    BY CallsAreTyped DEF Call
  <2>2. calls \in Seq(CallType) /\ Len(calls) = 1 /\ calls[1] = x
    BY <1>3, <2>1, OneCall
  <2>3. QED
    BY <2>1, <2>2, OnlyPlace DEF CallFits, Made
<1>4. QED
  BY <1>1, <1>2, <1>3 DEF Looked

\* What a circuit is looked after with
LEMMA Looks ==
  ASSUME IInv, NEW c \in Circuit
  PROVE  /\ ~ Off(c) => Looked(c, Autodialup(c))
         /\ Looked(c, Autohangup(c)) /\ Looked(c, << >>)
         /\ op[c] # "hangup" /\ ~ DependeesUp(c) =>
              \E s \in {"active"} \cup Stopped : Autohangup(c) = <<Call("hangup", c, s)>>
         /\ \A s \in {"active"} \cup Stopped :
              /\ Looked(c, HangupCalls(c, s))
              /\ op[c] # "hangup" => HangupCalls(c, s) = <<Call("hangup", c, s)>>
<1>1. Looked(c, << >>)
  BY DEF Looked
<1>2. \A s \in {"active"} \cup Stopped :
        /\ Looked(c, HangupCalls(c, s))
        /\ op[c] # "hangup" => HangupCalls(c, s) = <<Call("hangup", c, s)>>
  BY <1>1 DEF Looked, HangupCalls
<1>3. ~ Off(c) => Looked(c, Autodialup(c))
  BY <1>1, ChecksFit DEF Autodialup, Looked, Fit
<1>4. Looked(c, Autohangup(c))
  BY <1>1, <1>2 DEF Autohangup
<1>5. op[c] # "hangup" /\ ~ DependeesUp(c) =>
              \E s \in {"active"} \cup Stopped : Autohangup(c) = <<Call("hangup", c, s)>>
  BY <1>2, ChecksFit DEF Autohangup
<1>6. QED
  BY <1>1, <1>2, <1>3, <1>4, <1>5

\* The function that is called
LEMMA FrameFits ==
  ASSUME IInv, Duties, stack # << >>
  PROVE  /\ CallFits(Frame) /\ Frame = stack[1] /\ stack \in Seq(CallType) /\ Typed /\ Shape
         /\ Frame.call # "check_exit" => Frame.id \in Circuit
         /\ Frame.call # "change_state" => \A c : ~ Leaving(c)
<1>1. Frame = stack[1] /\ 1 \in 1..Len(stack) /\ stack \in Seq(CallType) /\ Typed /\ Shape
  BY FrameIsFirst DEF IInv, Typed
<1>2. Frame \in CallType /\ (Frame.call # "check_exit" => Frame.id \in Circuit)
  BY <1>1, FrameFacts
<1>3. CallFits(Frame)
  BY <1>1, <1>2 DEF Duties, AllFit, OnStack
<1>4. QED
  BY <1>1, <1>2, <1>3 DEF Leaving

\* A function that only looks after its circuit
LEMMA LookStep ==
  ASSUME IInv, Duties, stack # << >>, Frame.call \notin {"change_state", "check_exit", "hangup"},
         NEW calls, Looked(Frame.id, calls), Return(calls),
         UNCHANGED <<config, state, op, globalMode, localMode>>,
         state[Frame.id] \in UpStates /\ op[Frame.id] # "hangup" =>
           /\ Frame.call = "mode_changed" /\ Off(Frame.id) => Made(calls, "hangup", Frame.id)
           /\ Frame.call = "derive" /\ ~ DependeesUp(Frame.id) => Made(calls, "hangup", Frame.id)
  PROVE  Duties'
<1>1. Typed /\ Shape /\ Frame.id \in Circuit
  BY FrameFits
<1>2. /\ calls \in Seq(CallType)
      /\ \A j \in 1..Len(calls) : CallFits(calls[j])'
      /\ 1 \in 1..Len(calls) => calls[1].call # "change_state" \/ calls[1].arg \in UpStates
  BY <1>1, LookedFits
<1>3. LeavingAlone'
  BY <1>1, <1>2, NobodyLeaves
<1>4. QED
  BY <1>2, <1>3, CalmDuties

\* A function that makes no call, or one that no duty is about
LEMMA PlainStep ==
  ASSUME IInv, Duties, stack # << >>, Frame.call \notin {"change_state", "mode_changed", "derive"},
         NEW calls \in Seq(CallType), Return(calls),
         \A j \in 1..Len(calls) : calls[j].call \in {"unref", "remove", "check_exit"},
         UNCHANGED <<config, state, globalMode, localMode>>,
         \A c \in Tame : state[c] \in UpStates /\ op'[c] # "hangup" =>
           /\ ~ Fit(c) => op[c] # "hangup"
           /\ Frame.id = c => Frame.call # "hangup"
  PROVE  Duties'
<1>1. Typed /\ Shape
  BY FrameFits
<1>2. \A j \in 1..Len(calls) : CallFits(calls[j])'
  BY DEF CallFits
<1>3. LeavingAlone'
  BY <1>1, NobodyLeaves
<1>4. QED
  BY <1>2, <1>3, CalmDuties

LEMMA NoCall ==
  << >> \in Seq(CallType) /\ \A j : j \notin 1..Len(<< >>)
OBVIOUS

LEMMA LookDuties ==
  ASSUME IInv, Duties, circd_handle_state_change \/ EffectiveDialmodeChange
  PROVE  Duties'
<1>1. CASE circd_handle_state_change
  <2>1. stack # << >> /\ Frame.call \in {"state_changed", "derive"}
    BY <1>1 DEF circd_handle_state_change, Running
  <2>2. PICK c \in Circuit : c = Frame.id
    BY <2>1, FrameFits
  <2>3. Frame.call = "state_changed" => Frame.arg = state[c]
    BY <2>1, <2>2, FrameFits DEF IInv, TopOK
  <2>4. Return(IF state[c] = "active" /\ EffectiveMode(c) = "auto" THEN Autodialup(c)
               ELSE IF state[c] \in UpStates THEN Autohangup(c) ELSE << >>)
    BY <1>1, <2>1, <2>2, <2>3 DEF circd_handle_state_change
  <2>5. PICK calls :
          /\ Return(calls) /\ Looked(c, calls)
          /\ state[c] \in UpStates /\ op[c] # "hangup" /\ ~ DependeesUp(c) =>
               \E s \in {"active"} \cup Stopped : calls = <<Call("hangup", c, s)>>
    <3>1. CASE state[c] = "active" /\ EffectiveMode(c) = "auto"
      BY <2>4, <3>1, Looks DEF Off, UpStates
    <3>2. CASE state[c] \in UpStates /\ ~ (state[c] = "active" /\ EffectiveMode(c) = "auto")
      BY <2>4, <3>2, Looks
    <3>3. CASE state[c] \notin UpStates /\ ~ (state[c] = "active" /\ EffectiveMode(c) = "auto")
      BY <2>4, <3>3, Looks
    <3>4. QED
      BY <3>1, <3>2, <3>3
  <2>6. UNCHANGED <<config, state, op, globalMode, localMode>>
    BY <1>1 DEF circd_handle_state_change, conf, modes
  <2>7. state[c] \in UpStates /\ op[c] # "hangup" /\ ~ DependeesUp(c) => Made(calls, "hangup", c)
    BY <2>5, <2>6, LookedFits
  <2>8. QED
    BY <2>1, <2>2, <2>5, <2>6, <2>7, LookStep
<1>2. CASE EffectiveDialmodeChange
  <2>1. stack # << >> /\ Frame.call = "mode_changed"
    BY <1>2 DEF EffectiveDialmodeChange, Running
  <2>2. PICK c \in Circuit : c = Frame.id
    BY <2>1, FrameFits
  <2>3. Frame.arg = EffectiveMode(c)
    BY <2>1, <2>2, FrameFits DEF CallFits
  <2>4. PICK calls :
          /\ Return(calls) /\ Looked(c, calls)
          /\ state[c] \in UpStates /\ op[c] # "hangup" /\ Off(c) =>
               \E s \in {"active"} \cup Stopped : calls = <<Call("hangup", c, s)>>
    <3>1. CASE EffectiveMode(c) = "off" /\ state[c] \in UpStates
      <4>1. Return(HangupCalls(c, "active"))
        BY <1>2, <2>2, <2>3, <3>1 DEF EffectiveDialmodeChange
      <4>2. QED
        BY <4>1, Looks
    <3>2. CASE ~ (EffectiveMode(c) = "off" /\ state[c] \in UpStates)
      <4>1. \/ ~ Off(c) /\ Return(Autodialup(c))
            \/ Return(HangupCalls(c, "active")) \/ Return(<< >>)
        BY <1>2, <2>2, <2>3, <3>2 DEF EffectiveDialmodeChange, Off
      <4>2. QED
        BY <3>2, <4>1, Looks DEF Off
    <3>3. QED
      BY <3>1, <3>2
  <2>5. UNCHANGED <<config, state, op, globalMode, localMode>>
    BY <1>2 DEF EffectiveDialmodeChange, conf, modes
  <2>6. state[c] \in UpStates /\ op[c] # "hangup" /\ Off(c) => Made(calls, "hangup", c)
    BY <2>4, <2>5, LookedFits
  <2>7. QED
    BY <2>1, <2>2, <2>4, <2>5, <2>6, LookStep
<1>3. QED
  BY <1>1, <1>2

LEMMA OperationDuties ==
  ASSUME IInv, Duties, circd_initiate_dialup \/ circd_initiate_hangup \/ ClearOperation
  PROVE  Duties'
<1>0. op \in [Circuit -> {"", "dial", "hangup"}]
  BY DEF IInv, Typed
<1>1. CASE circd_initiate_dialup
  <2>1. stack # << >> /\ Frame.call = "dial" /\ Return(<< >>) /\ op' = [op EXCEPT ![Frame.id] = "dial"]
        /\ UNCHANGED <<config, state, globalMode, localMode>>
    BY <1>1 DEF circd_initiate_dialup, Running, modes
  <2>2. Frame.id \in Circuit /\ Fit(Frame.id)
    BY <2>1, FrameFits DEF CallFits
  <2>3. \A c \in Circuit : op'[c] # "hangup" /\ ~ Fit(c) => op[c] # "hangup"
    BY <1>0, <2>1, <2>2
  <2>4. QED
    BY <2>1, <2>3, NoCall, PlainStep, TameAreCircuits
<1>2. CASE circd_initiate_hangup
  <2>1. stack # << >> /\ Frame.call = "hangup" /\ Return(<< >>) /\ op' = [op EXCEPT ![Frame.id] = "hangup"]
        /\ UNCHANGED <<config, state, globalMode, localMode>>
    BY <1>2 DEF circd_initiate_hangup, Running, modes
  <2>2. Frame.id \in Circuit
    BY <2>1, FrameFits
  <2>3. \A c \in Circuit : op'[c] # "hangup" => op[c] # "hangup" /\ Frame.id # c
    BY <1>0, <2>1, <2>2
  <2>4. QED
    BY <2>1, <2>3, NoCall, PlainStep, TameAreCircuits
<1>3. CASE ClearOperation
  <2>1. stack # << >> /\ Frame.call = "clear_op" /\ Return(<< >>)
        /\ UNCHANGED <<config, state, globalMode, localMode>>
    BY <1>3 DEF ClearOperation, Running, modes
  <2>2. /\ Frame.id \in Circuit
        /\ Frame.id \in Tame => Frame.arg \in {"dial", "hangup"}
        /\ Frame.id \in Tame /\ Frame.arg = "hangup" => state[Frame.id] \notin UpStates \/ Fit(Frame.id)
    BY <2>1, FrameFits DEF CallFits
  <2>3. \A c \in Tame : op[c] = "hangup" /\ op'[c] # "hangup" => c = Frame.id /\ Frame.arg = "hangup"
    BY <1>0, <1>3, <2>2, TameAreCircuits DEF ClearOperation
  <2>4. \A c \in Tame : state[c] \in UpStates /\ op'[c] # "hangup" /\ ~ Fit(c) => op[c] # "hangup"
    BY <2>2, <2>3
  <2>5. QED
    BY <2>1, <2>4, NoCall, PlainStep
<1>4. QED
  BY <1>1, <1>2, <1>3

LEMMA OtherDuties ==
  ASSUME IInv, Duties, circd_stop_queue \/ circd_check_exit \/ HungUp \/ circd_unref
  PROVE  Duties'
<1>1. CASE circd_stop_queue \/ circd_check_exit
  <2>1. stack # << >> /\ Frame.call \in {"stop_queue", "check_exit"} /\ Return(<< >>)
        /\ UNCHANGED <<config, state, op, globalMode, localMode>>
    BY <1>1 DEF circd_stop_queue, circd_check_exit, Running, modes, conf
  <2>2. QED
    BY <2>1, NoCall, PlainStep
<1>2. CASE HungUp \/ circd_unref
  <2>1. stack # << >> /\ Frame.call \in {"hung_up", "unref"}
        /\ UNCHANGED <<config, state, op, globalMode, localMode>>
    BY <1>2 DEF HungUp, circd_unref, Running, modes
  <2>2. PICK c \in Circuit : c = Frame.id
    BY <2>1, FrameFits
  <2>3. Return(<< >>) \/ Return(<<Call("unref", c, "")>>) \/ Return(<<Call("remove", c, "")>>)
    BY <1>2, <2>2 DEF HungUp, circd_unref
  <2>4. CASE Return(<< >>)
    BY <2>1, <2>4, NoCall, PlainStep
  <2>5. ASSUME NEW x \in CallType, x.call \in {"unref", "remove"}, Return(<<x>>) PROVE Duties'
    <3>1. PICK calls \in Seq(CallType) : calls = <<x>> /\ Len(calls) = 1 /\ calls[1] = x
      BY OneCall
    <3>2. \A j \in 1..Len(calls) : calls[j].call \in {"unref", "remove", "check_exit"}
      BY <2>5, <3>1, OnlyPlace
    <3>3. QED
      BY <2>1, <2>5, <3>1, <3>2, PlainStep
  <2>6. \A f \in {"unref", "remove"} : Call(f, c, "") \in CallType /\ Call(f, c, "").call = f
    BY CallsAreTyped DEF Call
  <2>7. QED
    BY <2>3, <2>4, <2>5, <2>6
<1>3. QED
  BY <1>1, <1>2


\* At the end of a hangup the circuit is taken down first, if it is up.
LEMMA FinalizeDuties ==
  ASSUME IInv, Duties, circd_finalize_hangup
  PROVE  Duties'
<1>1. stack # << >> /\ Frame.call = "finalize_hangup" /\ Frame.call \in Low
      /\ UNCHANGED <<config, state, op, globalMode, localMode>>
  BY DEF circd_finalize_hangup, Running, modes, Low
<1>2. Typed /\ Shape /\ Frame = stack[1] /\ stack \in Seq(CallType) /\ Frame.id \in Circuit
  BY <1>1, FrameFits
<1>3. PICK c \in Circuit : c = Frame.id
  BY <1>2
<1>4. FinalizeOK(c, Frame.arg)
  BY <1>1, <1>2, <1>3 DEF IInv, TopOK
<1>5. CASE protsUp[c] # {} \/ ~ (hup[c] = NoPid \/ Frame.arg = "force")
  <2>1. Return(<< >>)
    BY <1>3, <1>4, <1>5 DEF circd_finalize_hangup, FinalizeOK
  <2>2. QED
    BY <1>1, <2>1, NoCall, PlainStep
<1>6. CASE protsUp[c] = {} /\ (hup[c] = NoPid \/ Frame.arg = "force")
  <2>1. PICK s, calls : /\ FinalizeCalls(c, s, calls) /\ Return(calls)
                        /\ s = "none" => state[c] \notin UpStates
    BY <1>2, <1>3, <1>4, <1>6, FinalizeReturns DEF FinalizeOK
  <2>2. calls \in Seq(CallType)
    BY <2>1 DEF FinalizeCalls
  <2>3. \A i : /\ i \in 1..2 <=> i = 1 \/ i = 2
               /\ i \in 1..3 <=> i = 1 \/ i = 2 \/ i = 3
    OBVIOUS
  <2>4. \A j \in 1..Len(calls) :
          \/ calls[j].call = "clear_op" /\ calls[j].id = c /\ calls[j].arg = "hangup"
          \/ calls[j].call \in {"hung_up", "change_state"}
    BY <2>1, <2>3 DEF FinalizeCalls
  <2>5. /\ 1 \in 1..Len(calls)
        /\ s # "none" => calls[1].call = "change_state" /\ calls[1].id = c /\ calls[1].arg \notin UpStates
        /\ s = "none" => calls[1].call = "clear_op"
    BY <2>1, <2>3 DEF FinalizeCalls, UpStates, Stopped
  <2>6. stack'[1] = calls[1]
    BY <1>1, <1>2, <2>1, <2>2, <2>5, ReturnCalls
  <2>7. s # "none" => Leaving(c)'
    BY <2>5, <2>6 DEF Leaving
  <2>8. \A j \in 1..Len(calls) : CallFits(calls[j])'
    BY <1>1, <2>1, <2>4, <2>7 DEF CallFits
  <2>9. LeavingAlone'
    <3>1. SUFFICES ASSUME stack'[1].call = "change_state", NEW i \in 2..Len(stack')
                   PROVE  \/ stack'[i].call \in {"hung_up", "unref"}
                          \/ stack'[i].call = "clear_op" /\ stack'[i].id = stack'[1].id
      BY DEF LeavingAlone
    <3>2. s # "none" /\ stack'[1].id = c
      BY <2>5, <2>6, <3>1
    <3>3. Len(calls) = 3 /\ calls[2].call = "clear_op" /\ calls[2].id = c /\ calls[3].call = "hung_up"
      BY <2>1, <3>2 DEF FinalizeCalls
    <3>4. /\ stack' \in Seq(CallType)
          /\ \A k \in 1..Len(calls) : stack'[k] = calls[k]
          /\ \A k \in 1..Len(stack') : k \in 1..Len(calls)
                \/ (k - Len(calls) + 1 \in 2..Len(stack) /\ stack'[k] = stack[k - Len(calls) + 1])
      BY <1>1, <1>2, <2>1, <2>2, ReturnCalls
    <3>5. i \in 1..Len(stack') /\ i # 1
      BY <3>1, <3>4
    <3>6. CASE i \in 1..Len(calls)
      BY <2>3, <3>2, <3>3, <3>4, <3>5, <3>6
    <3>7. ASSUME NEW k \in 2..Len(stack), stack'[i] = stack[k] PROVE stack'[i].call = "unref"
      <4>1. Len(stack) \in {1, 2} /\ (Len(stack) = 2 => stack[2].call = "unref")
        BY <1>1, <1>2, LowStack
      <4>2. k = 2 /\ Len(stack) = 2
        BY <3>7, <4>1
      <4>3. QED
        BY <3>7, <4>1, <4>2
    <3>8. QED
      BY <3>4, <3>5, <3>6, <3>7
  <2>10. QED
    BY <1>1, <2>1, <2>2, <2>8, <2>9, CalmDuties
<1>7. QED
  BY <1>5, <1>6

-----------------------------------------------------------------------------
(* A change of state                                                       *)

Depends(d, c) == Origin[d] = c \/ \E x \in Deps[d] : c \in x.on

LEMMA StopIsTyped ==
  ASSUME NEW c \in Circuit, NEW stop, StopCalls(c, stop)
  PROVE  stop \in Seq(CallType)
<1>1. PICK x \in CallType : x = Call("stop_queue", c, "")
  BY CallsAreTyped
<1>2. << >> \in Seq(CallType) /\ <<x>> \in Seq(CallType)
  OBVIOUS
<1>3. QED
  BY <1>1, <1>2 DEF StopCalls

\* All elements in the middle are there.
LEMMA JoinThree ==
  ASSUME NEW x \in CallType, NEW s \in Seq(CallType), NEW t \in Seq(CallType)
  PROVE  \A i \in 1..Len(s) : \E j \in 1..Len((<<x>> \o s) \o t) : ((<<x>> \o s) \o t)[j] = s[i]
<1>1. <<x>> \in Seq(CallType) /\ Len(<<x>>) = 1
  OBVIOUS
<1>2. Len(s) \in Nat /\ Len(t) \in Nat
  OBVIOUS
<1>3. PICK r \in Seq(CallType) : /\ r = <<x>> \o s /\ Len(r) = 1 + Len(s)
                          /\ \A i \in 1..(1 + Len(s)) : r[i] = IF i <= 1 THEN <<x>>[i] ELSE s[i - 1]
  <2>1. /\ <<x>> \o s \in Seq(CallType) /\ Len(<<x>> \o s) = 1 + Len(s)
        /\ \A i \in 1..(1 + Len(s)) : (<<x>> \o s)[i] = IF i <= 1 THEN <<x>>[i] ELSE s[i - 1]
    BY <1>1, ConcatProperties
  <2>2. QED
    BY <2>1, Zenon
<1>4. PICK u \in Seq(CallType) : /\ u = r \o t /\ Len(u) = Len(r) + Len(t)
                          /\ \A i \in 1..(Len(r) + Len(t)) : u[i] = IF i <= Len(r) THEN r[i] ELSE t[i - Len(r)]
  <2>1. /\ r \o t \in Seq(CallType) /\ Len(r \o t) = Len(r) + Len(t)
        /\ \A i \in 1..(Len(r) + Len(t)) : (r \o t)[i] = IF i <= Len(r) THEN r[i] ELSE t[i - Len(r)]
    BY ConcatProperties
  <2>2. QED
    BY <2>1, Zenon
<1>5. ASSUME NEW i \in 1..Len(s) PROVE i + 1 \in 1..Len(u) /\ u[i + 1] = s[i]
  <2>1. /\ i + 1 \in 1..(1 + Len(s)) /\ ~ (i + 1 <= 1) /\ (i + 1) - 1 = i
        /\ i + 1 \in 1..(Len(r) + Len(t)) /\ i + 1 <= Len(r)
    BY <1>2, <1>3
  <2>2. QED
    BY <1>3, <1>4, <2>1
<1>6. QED
  BY <1>3, <1>4, <1>5

LEMMA DerivesAreMade ==
  ASSUME NEW c \in Circuit, NEW new \in States, NEW revdeps \in Seq(Circuit), NEW stop \in Seq(CallType), NEW calls,
         calls = (<<Call("state_changed", c, new)>> \o [i \in 1..Len(revdeps) |-> Call("derive", revdeps[i], "")])
                 \o stop
  PROVE  \A i \in 1..Len(revdeps) : Made(calls, "derive", revdeps[i])
<1>1. PICK derives : derives = [i \in 1..Len(revdeps) |-> Call("derive", revdeps[i], "")]
  OBVIOUS
<1>2. Len(revdeps) \in Nat /\ \A i \in 1..Len(revdeps) : revdeps[i] \in Circuit
  BY SeqElements
<1>3. \A d \in Circuit : /\ Call("derive", d, "") \in CallType
                         /\ Call("derive", d, "").call = "derive" /\ Call("derive", d, "").id = d
  BY CallsAreTyped DEF Call
<1>4. /\ derives \in [1..Len(revdeps) -> CallType]
      /\ \A i \in 1..Len(revdeps) : derives[i].call = "derive" /\ derives[i].id = revdeps[i]
  BY <1>1, <1>2, <1>3
<1>5. derives \in Seq(CallType) /\ Len(derives) = Len(revdeps)
  BY <1>2, <1>4, FunctionIsSeq
<1>6. PICK first \in CallType : first = Call("state_changed", c, new)
  BY CallsAreTyped
<1>7. calls = (<<first>> \o derives) \o stop
  BY <1>1, <1>6
<1>8. \A i \in 1..Len(derives) : \E j \in 1..Len(calls) : calls[j] = derives[i]
  <2>1. \A i \in 1..Len(derives) : \E j \in 1..Len((<<first>> \o derives) \o stop) :
          ((<<first>> \o derives) \o stop)[j] = derives[i]
    BY <1>5, JoinThree, Zenon
  <2>2. QED
    BY <1>7, <2>1, Zenon
<1>9. QED
  BY <1>4, <1>5, <1>8 DEF Made

\* All dependents of a circuit whose state changes are looked at.
LEMMA ChangeReturns ==
  ASSUME Typed, circd_change_state, NEW c \in Circuit, c = Frame.id, NEW new \in States, new = Frame.arg,
         state[c] \in Alive
  PROVE  \E calls \in Seq(CallType) :
           /\ Return(calls)
           /\ \A i \in 1..Len(calls) : calls[i].call \in {"state_changed", "derive", "stop_queue"}
           /\ state[c] # new => \A d \in Circuit : Exists(d) /\ Depends(d, c) => Made(calls, "derive", d)
<1> DEFINE S == {d \in Circuit : Exists(d) /\ Depends(d, c)}
<1>1. S \in SUBSET Circuit /\ circd_revdeps(c) = InOrder(S)
  BY DEF circd_revdeps, Depends
<1>2. /\ InOrder(S) \in Seq(S) /\ \A d \in S : \E i \in 1..Len(InOrder(S)) : InOrder(S)[i] = d
  BY <1>1, InOrderIsOf
<1>3. PICK revdeps \in Seq(Circuit) : /\ revdeps = circd_revdeps(c)
                                      /\ \A d \in S : \E i \in 1..Len(revdeps) : revdeps[i] = d
  <2>1. InOrder(S) \in Seq(Circuit)
    BY <1>1, <1>2
  <2>2. QED
    BY <1>1, <1>2, <2>1
<1>4. PICK derived, stop :
        /\ DerivedCalls(c, new, revdeps, derived) /\ StopCalls(c, stop) /\ Return(derived \o stop)
        /\ state[c] # new => derived = <<Call("state_changed", c, new)>> \o
                                      [i \in 1..Len(revdeps) |-> Call("derive", revdeps[i], "")]
  <2>1. state[c] # "deleted"
    BY DEF Alive, Stopped, UpStates
  <2>2. PICK stop : /\ StopCalls(c, stop)
                    /\ Return((IF state[c] = new THEN << >>
                               ELSE <<Call("state_changed", c, new)>> \o
                                    [i \in 1..Len(revdeps) |-> Call("derive", revdeps[i], "")]) \o stop)
    BY <1>3, <2>1, Zenon DEF StopCalls, circd_change_state
  <2>3. CASE state[c] = new
    BY <2>2, <2>3, Zenon DEF DerivedCalls
  <2>4. CASE state[c] # new
    BY <2>2, <2>4, Zenon DEF DerivedCalls
  <2>5. QED
    BY <2>3, <2>4
<1>5. PICK calls : calls = derived \o stop
  OBVIOUS
<1>6. ChangeCalls(c, new, revdeps, calls) /\ Return(calls)
  BY <1>4, <1>5, Zenon DEF ChangeCalls
<1>7. /\ calls \in Seq(CallType)
      /\ \A i \in 1..Len(calls) : calls[i].call \in {"state_changed", "derive", "stop_queue"}
  BY <1>6, ChangeCallsAre
<1>8. ASSUME state[c] # new PROVE \A i \in 1..Len(revdeps) : Made(calls, "derive", revdeps[i])
  <2>1. calls = (<<Call("state_changed", c, new)>> \o [i \in 1..Len(revdeps) |-> Call("derive", revdeps[i], "")]) \o stop
    BY <1>4, <1>5, <1>8, Zenon
  <2>2. QED
    BY <1>4, <2>1, StopIsTyped, DerivesAreMade
<1>9. state[c] # new => \A d \in S : Made(calls, "derive", d)
  BY <1>3, <1>8
<1>10. QED
  BY <1>6, <1>7, <1>9

\* What a change of c's state does to the others
LEMMA ChangedFit ==
  ASSUME Typed, UNCHANGED <<config, globalMode, localMode>>, NEW c \in Circuit, NEW new \in States,
         state' = [state EXCEPT ![c] = new]
  PROVE  Tame' = Tame /\ \A d \in Circuit :
           /\ EffectiveMode(d)' = EffectiveMode(d) /\ (Off(d)' <=> Off(d))
           /\ new \in UpStates /\ DependeesUp(d) => DependeesUp(d)'
           /\ new \in UpStates /\ Fit(d) => Fit(d)'
           /\ DependeesUp(d) /\ ~ DependeesUp(d)' => Depends(d, c) /\ state[c] # new
<1>1. Deps' = Deps /\ Origin' = Origin /\ Tame' = Tame
  BY SameConfig
<1>2. \A d : EffectiveMode(d)' = EffectiveMode(d)
  BY DEF EffectiveMode, circd_get_effective_dialmode
<1>3. config \in Configs /\ state \in [Circuit -> States \cup {"none"}]
  BY DEF Typed
<1>4. \A d \in Circuit : Origin[d] \in 0..NCircuits /\ \A x \in Deps[d] : x.on \subseteq Circuit
  BY <1>3, ConfigAssumption DEF Deps, Origin
<1>5. state'[c] = new /\ \A e \in Circuit : e # c => state'[e] = state[e]
  BY <1>3
<1>6. \A e \in Circuit : new \in UpStates /\ state[e] \in UpStates => state'[e] \in UpStates
  BY <1>5
<1>7. \A d \in Circuit : Origin[d] # 0 => Origin[d] \in Circuit
  BY <1>4, CircuitAssumption DEF Circuit
<1>8. \A d \in Circuit : new \in UpStates /\ DependeesUp(d) => DependeesUp(d)'
  BY <1>1, <1>4, <1>6, <1>7 DEF DependeesUp
<1>9. \A d \in Circuit : DependeesUp(d) /\ ~ Depends(d, c) => DependeesUp(d)'
  BY <1>1, <1>4, <1>5, <1>7 DEF DependeesUp, Depends
<1>10. \A d \in Circuit : state[c] = new /\ DependeesUp(d) => DependeesUp(d)'
  <2>1. state[c] = new => \A e \in Circuit : state'[e] = state[e]
    BY <1>5
  <2>2. QED
    BY <1>1, <1>4, <1>7, <2>1 DEF DependeesUp
<1>11. QED
  BY <1>1, <1>2, <1>8, <1>9, <1>10 DEF Fit, Off

LEMMA ChangeDuties ==
  ASSUME IInv, Duties, circd_change_state
  PROVE  Duties'
<1>1. stack # << >> /\ Frame.call = "change_state" /\ UNCHANGED <<config, op, globalMode, localMode>>
  BY DEF circd_change_state, Running, modes
<1>2. Typed /\ Shape /\ Frame = stack[1] /\ stack \in Seq(CallType) /\ Frame.id \in Circuit /\ Frame.arg \in States
  BY <1>1, FrameFits, FrameFacts
<1>3. PICK c \in Circuit, new \in States : c = Frame.id /\ new = Frame.arg
  BY <1>2
<1>4. ChangeOK(c, new)
  BY <1>1, <1>2, <1>3 DEF IInv, TopOK
<1>5. state[c] \in Alive
  BY <1>3, <1>4 DEF ChangeOK, Alive, Stopped, States, UpStates
<1>6. state' = [state EXCEPT ![c] = new]
  BY <1>3, <1>5 DEF circd_change_state, Alive, Stopped, UpStates
<1>7. state'[c] = new /\ \A x \in Circuit : x # c => state'[x] = state[x]
  BY <1>2, <1>6 DEF Typed
<1>8. PICK calls \in Seq(CallType) :
        /\ Return(calls)
        /\ \A i \in 1..Len(calls) : calls[i].call \in {"state_changed", "derive", "stop_queue"}
        /\ state[c] # new => \A d \in Circuit : Exists(d) /\ Depends(d, c) => Made(calls, "derive", d)
  BY <1>2, <1>3, <1>5, ChangeReturns
<1>9. Tame' = Tame /\ \A d \in Circuit :
        /\ EffectiveMode(d)' = EffectiveMode(d) /\ (Off(d)' <=> Off(d))
        /\ new \in UpStates /\ DependeesUp(d) => DependeesUp(d)'
        /\ new \in UpStates /\ Fit(d) => Fit(d)'
        /\ DependeesUp(d) /\ ~ DependeesUp(d)' => Depends(d, c) /\ state[c] # new
  BY <1>1, <1>2, <1>6, ChangedFit
<1>10. LeavingAlone'
  BY <1>1, <1>2, <1>8, NobodyLeaves
<1>11. /\ \A f, d : HasCall(f, d)' <=> Made(calls, f, d) \/ Waits(f, d)
       /\ \A f, d : HasCall(f, d) <=> (Frame.call = f /\ Frame.id = d) \/ Waits(f, d)
  BY <1>1, <1>2, <1>8, CallsAfter
<1>12. new = "ready" => Fit(c)
  <2>1. SUFFICES ASSUME new = "ready" PROVE Fit(c)
    OBVIOUS
  <2>2. Len(stack) \in Nat /\ Len(stack) >= 2 /\ stack[2].call = "dial" /\ stack[2].id = c
    BY <1>2, <1>4, <2>1 DEF ChangeOK
  <2>3. 2 \in 1..Len(stack)
    BY <2>2
  <2>4. PICK f \in CallType : f = stack[2]
    BY <1>2, <2>3, SeqElements
  <2>5. CallFits(f)
    BY <2>3, <2>4 DEF Duties, AllFit, OnStack
  <2>6. QED
    BY <2>2, <2>4, <2>5 DEF CallFits
<1>13. \A d \in Tame : new \in UpStates /\ state'[d] \in UpStates => state[d] \in UpStates \/ (d = c /\ Fit(d)')
  BY <1>4, <1>7, <1>9, <1>12, TameAreCircuits DEF ChangeOK, UpStates
<1>14. ASSUME NEW j \in 2..Len(stack), NEW f \in CallType, f = stack[j] PROVE CallFits(f)'
  <2>1. j \in 1..Len(stack)
    BY <1>2, SeqElements, LaterPlaces
  <2>2. CallFits(f) /\ f.call # "check_exit"
    BY <1>1, <1>2, <1>8, <1>14, <2>1, NewStack DEF Duties, AllFit, OnStack, TopOnly
  <2>3. CASE new \in UpStates
    <3>1. \A d : ~ Leaving(d)
      BY <1>2, <1>3, <2>3 DEF Leaving
    <3>2. QED
      BY <1>9, <1>13, <2>2, <2>3, <3>1, StillFits
  <2>4. CASE new \notin UpStates
    <3>1. f.call \in {"hung_up", "unref"} \/ (f.call = "clear_op" /\ f.id = c)
      BY <1>1, <1>2, <1>3, <1>14, <2>4 DEF Duties, LeavingAlone
    <3>2. QED
      BY <1>7, <1>9, <2>2, <2>4, <3>1 DEF CallFits
  <2>5. QED
    BY <2>3, <2>4
<1>15. AllFit'
  <2>1. SUFFICES ASSUME NEW f \in CallType, OnStack(f)' PROVE CallFits(f)'
    BY DEF AllFit
  <2>2. CASE \E j \in 1..Len(calls) : f = calls[j]
    BY <1>8, <2>2 DEF CallFits
  <2>3. CASE \E j \in 2..Len(stack) : f = stack[j]
    BY <1>14, <2>3
  <2>4. QED
    BY <1>1, <1>2, <1>8, <2>1, <2>2, <2>3, NewStack
<1>16. Watched'
  <2>1. SUFFICES ASSUME NEW d \in Tame, state'[d] \in UpStates, op[d] # "hangup"
                 PROVE  /\ Off(d) => HasCall("mode_changed", d)' \/ HasCall("hangup", d)'
                        /\ ~ DependeesUp(d)' => HasCall("derive", d)' \/ HasCall("hangup", d)'
    BY <1>1, <1>9, TameAreCircuits DEF Watched
  <2>0. d \in Circuit
    BY TameAreCircuits
  <2>2. CASE Fit(d)'
    BY <1>9, <2>0, <2>2 DEF Fit
  <2>3. CASE state[d] \in UpStates
    <3>1. /\ Off(d) => HasCall("mode_changed", d) \/ HasCall("hangup", d)
          /\ ~ DependeesUp(d) => HasCall("derive", d) \/ HasCall("hangup", d)
      BY <2>1, <2>3 DEF Duties, Watched
    <3>2. \A f \in {"mode_changed", "derive", "hangup"} : HasCall(f, d) => HasCall(f, d)'
      BY <1>1, <1>11
    <3>3. Exists(d)
      BY <2>3 DEF Exists, UpStates
    <3>4. DependeesUp(d) /\ ~ DependeesUp(d)' => HasCall("derive", d)'
      BY <1>8, <1>9, <1>11, <2>0, <3>3
    <3>5. QED
      BY <3>1, <3>2, <3>4
  <2>4. state[d] \in UpStates \/ Fit(d)'
    BY <1>7, <1>13, <2>0, <2>1
  <2>5. QED
    BY <2>2, <2>3, <2>4
<1>17. QED
  BY <1>10, <1>15, <1>16 DEF Duties

\* The circuit that is removed was deleted, so nobody counts on it, and at most
\* the dropping of a reference waits.
LEMMA RemoveDuties ==
  ASSUME IInv, Duties, circd_circuit_remove
  PROVE  Duties'
<1>1. stack # << >> /\ Frame.call = "remove" /\ Frame.call \in Low /\ UNCHANGED <<config, globalMode>>
  BY DEF circd_circuit_remove, Running, Low
<1>2. Typed /\ Shape /\ Frame = stack[1] /\ stack \in Seq(CallType)
  BY <1>1, FrameFits
<1>3. PICK c \in Circuit : c = Frame.id /\ state[c] = "deleted"
  BY RemovedIsDeleted DEF circd_circuit_remove
<1>4. /\ state' = [state EXCEPT ![c] = "none"] /\ op' = [op EXCEPT ![c] = ""]
      /\ localMode' = [localMode EXCEPT ![c] = ""]
  BY <1>3 DEF circd_circuit_remove
<1>5. /\ state'[c] = "none" /\ state[c] \notin UpStates /\ "none" \notin UpStates
      /\ \A d \in Circuit : d # c => state'[d] = state[d] /\ op'[d] = op[d] /\ localMode'[d] = localMode[d]
  <2>1. /\ state \in [Circuit -> States \cup {"none"}] /\ op \in [Circuit -> {"", "dial", "hangup"}]
        /\ localMode \in [Circuit -> Mode \cup {""}]
    BY <1>2 DEF Typed
  <2>2. QED
    BY <1>3, <1>4, <2>1 DEF UpStates
<1>6. PICK calls \in Seq(CallType) : Return(calls) /\ \A i \in 1..Len(calls) : calls[i].call = "check_exit"
  <2>1. PICK x \in CallType : x = Call("check_exit", 0, "") /\ x.call = "check_exit"
    BY CheckExitIsTyped DEF Call
  <2>2. Return(<< >>) \/ Return(<<x>>)
    BY <2>1 DEF circd_circuit_remove
  <2>3. PICK one \in Seq(CallType) : one = <<x>> /\ Len(one) = 1 /\ one[1] = x
    BY OneCall
  <2>4. \A i \in 1..Len(one) : one[i].call = "check_exit"
    BY <2>1, <2>3, OnlyPlace
  <2>5. QED
    BY <2>2, <2>3, <2>4, NoCall
<1>7. LeavingAlone'
  BY <1>1, <1>2, <1>6, NobodyLeaves
<1>8. \A j \in 2..Len(stack) : stack[j].call = "unref"
  <2>1. Len(stack) \in {1, 2} /\ (Len(stack) = 2 => stack[2].call = "unref")
    BY <1>1, <1>2, LowStack
  <2>2. QED
    BY <2>1
<1>9. AllFit'
  <2>1. SUFFICES ASSUME NEW f \in CallType, OnStack(f)' PROVE CallFits(f)'
    BY DEF AllFit
  <2>2. f.call \in {"unref", "check_exit"}
    BY <1>1, <1>2, <1>6, <1>8, <2>1, NewStack
  <2>3. QED
    BY <2>2 DEF CallFits
<1>10. ASSUME NEW d \in Tame, state[d] \in UpStates, op[d] # "hangup" PROVE Fit(d)
  <2>1. \A f \in {"mode_changed", "derive", "hangup"} : ~ HasCall(f, d)
    BY <1>1, <1>2, LowStack
  <2>2. QED
    BY <1>10, <2>1 DEF Duties, Watched, Fit
<1>11. ASSUME NEW d \in Circuit, d # c, Fit(d) PROVE Fit(d)'
  <2>1. Deps' = Deps /\ Origin' = Origin /\ Tame' = Tame
    BY <1>1, SameConfig
  <2>2. ~ Off(d)'
    BY <1>1, <1>5, <1>11 DEF Fit, Off, EffectiveMode
  <2>3. Origin[d] \in 0..NCircuits /\ \A x \in Deps[d] : x.on \subseteq Circuit
    <3>1. config \in Configs
      BY <1>2 DEF Typed
    <3>2. QED
      BY <3>1, ConfigAssumption DEF Deps, Origin
  <2>4. Origin[d] # 0 => Origin[d] \in Circuit
    BY <2>3, CircuitAssumption DEF Circuit
  <2>5. \A e \in Circuit : state[e] \in UpStates => state'[e] \in UpStates
    BY <1>5
  <2>6. DependeesUp(d)'
    BY <1>11, <2>1, <2>3, <2>4, <2>5 DEF Fit, DependeesUp
  <2>7. QED
    BY <2>2, <2>6 DEF Fit
<1>12. Tame' = Tame /\ \A d \in Tame : state'[d] \in UpStates /\ op'[d] # "hangup" => Fit(d)'
  BY <1>1, <1>5, <1>10, <1>11, SameConfig, TameAreCircuits
<1>13. QED
  BY <1>7, <1>9, <1>12 DEF Duties, Watched, Fit

LEMMA FunctionsDuties ==
  ASSUME IInv, Duties, Functions
  PROVE  Duties'
BY ChangeDuties, LookDuties, OperationDuties, OtherDuties, FinalizeDuties, RemoveDuties
   DEF Functions

-----------------------------------------------------------------------------
(* Handlers.  Between two of them every circuit that is up and not being   *)
(* hung up may be up.                                                      *)

LEMMA IdleDuties ==
  ASSUME IInv, Duties, stack = << >>
  PROVE  \A c \in Tame : state[c] \in UpStates /\ op[c] # "hangup" => Fit(c)
<1>1. \A f, c : ~ HasCall(f, c)
  BY IdleFacts DEF IInv
<1>2. QED
  BY <1>1 DEF Duties, Watched, Fit

LEMMA BeginDuties ==
  ASSUME IInv, Duties, stack = << >>, UNCHANGED <<config, state, op, globalMode, localMode>>,
         NEW calls \in Seq(CallType), stack' = calls, \A j \in 1..Len(calls) : CallFits(calls[j])',
         1 \in 1..Len(calls) =>
           \/ calls[1].call # "change_state" \/ calls[1].arg \in UpStates
           \/ \A i \in 2..Len(calls) : calls[i].call = "clear_op" /\ calls[i].id = calls[1].id
  PROVE  Duties'
<1>1. AllFit'
  BY DEF AllFit, OnStack
<1>2. LeavingAlone'
  <2>1. SUFFICES ASSUME stack' # << >>, stack'[1].call = "change_state", stack'[1].arg \notin UpStates
                 PROVE  \A i \in 2..Len(stack') : stack'[i].call = "clear_op" /\ stack'[i].id = stack'[1].id
    BY DEF LeavingAlone
  <2>2. 1 \in 1..Len(calls)
    BY <2>1
  <2>3. QED
    BY <2>1, <2>2
<1>3. Tame' = Tame /\ \A c \in Tame : state'[c] \in UpStates /\ op'[c] # "hangup" => Fit(c)'
  BY IdleDuties, SameFit
<1>4. QED
  BY <1>1, <1>2, <1>3 DEF Duties, Watched, Fit

LEMMA OneBegins ==
  ASSUME IInv, Duties, stack = << >>, UNCHANGED <<config, state, op, globalMode, localMode>>,
         \/ stack' = << >>
         \/ \E f \in {"change_state", "hangup", "finalize_hangup", "check_exit"} : \E c, a :
              Call(f, c, a) \in CallType /\ stack' = <<Call(f, c, a)>>
  PROVE  Duties'
<1>1. CASE stack' = << >>
  BY <1>1, NoCall, BeginDuties
<1>2. ASSUME NEW x \in CallType, x.call \in {"change_state", "hangup", "finalize_hangup", "check_exit"}, stack' = <<x>>
      PROVE  Duties'
  <2>1. PICK calls \in Seq(CallType) : calls = <<x>> /\ Len(calls) = 1 /\ calls[1] = x
    BY OneCall
  <2>2. \A j \in 1..Len(calls) : CallFits(calls[j])'
    BY <1>2, <2>1, OnlyPlace DEF CallFits
  <2>3. \A i : i \notin 2..Len(calls)
    BY <2>1
  <2>4. QED
    BY <1>2, <2>1, <2>2, <2>3, BeginDuties
<1>3. \A f, c, a : Call(f, c, a).call = f
  BY DEF Call
<1>4. QED
  BY <1>1, <1>2, <1>3

\* A message that only leads to calls
LEMMA CallsBegin ==
  ASSUME NEW calls, Calls(calls)
  PROVE  stack' = calls /\ UNCHANGED <<config, state, op, globalMode, localMode>>
BY DEF Calls, conf, modes

\* The circuit that a message is about
LEMMA MessageIs ==
  ASSUME IInv, NEW type, Handle(type)
  PROVE  /\ stack = << >>
         /\ type \notin {"create", "stop_service", "set_global"} => Id \in Circuit
         /\ type \in {"set_global", "set_local"} => Arg \in Mode
         /\ type = "down_link" => Arg \in {"", "force"}
<1>1. stack = << >> /\ inbox[1] \in MsgType /\ inbox[1].type = type /\ Id = inbox[1].id /\ Arg = inbox[1].arg
  BY HandleFacts
<1>2. QED
  BY <1>1 DEF MsgType

\* Requests
LEMMA RequestDuties ==
  ASSUME IInv, Duties,
         \/ handle_activate_circuit_message \/ handle_dialup_circuit_message
         \/ \E type \in {"hangup", "deactivate", "fail"}, target \in {"active"} \cup Stopped :
              handle_hangup_or_deactivate_circuit_message(type, target)
  PROVE  Duties'
<1>1. CASE handle_activate_circuit_message
  <2>1. stack = << >> /\ Id \in Circuit
    <3>1. PICK type \in {"activate"} : Handle(type)
      BY <1>1 DEF handle_activate_circuit_message
    <3>2. QED
      BY <3>1, MessageIs
  <2>2. Call("change_state", Id, "active") \in CallType
    BY <2>1, CallsAreTyped DEF States
  <2>3. Calls(<<Call("change_state", Id, "active")>>) \/ Calls(<< >>)
    BY <1>1 DEF handle_activate_circuit_message
  <2>4. QED
    BY <2>1, <2>2, <2>3, CallsBegin, OneBegins
<1>2. CASE handle_dialup_circuit_message
  <2>1. stack = << >> /\ Id \in Circuit
    <3>1. PICK type \in {"dialup"} : Handle(type)
      BY <1>2 DEF handle_dialup_circuit_message
    <3>2. QED
      BY <3>1, MessageIs
  <2>2. PICK c \in Circuit : c = Id
    BY <2>1
  <2>3. PICK calls : Calls(calls) /\ Looked(c, calls)
    <3>1. (~ Off(c) /\ Calls(Autodialup(c))) \/ Calls(<< >>)
      BY <1>2, <2>2 DEF handle_dialup_circuit_message, Off
    <3>2. QED
      BY <3>1, Looks
  <2>4. stack' = calls /\ UNCHANGED <<config, state, op, globalMode, localMode>>
    BY <2>3, CallsBegin
  <2>5. /\ calls \in Seq(CallType) /\ \A j \in 1..Len(calls) : CallFits(calls[j])'
        /\ 1 \in 1..Len(calls) => calls[1].call # "change_state" \/ calls[1].arg \in UpStates
    BY <2>3, <2>4, LookedFits
  <2>6. QED
    BY <2>1, <2>4, <2>5, BeginDuties
<1>3. ASSUME NEW type \in {"hangup", "deactivate", "fail"}, NEW target \in {"active"} \cup Stopped,
             handle_hangup_or_deactivate_circuit_message(type, target)
      PROVE  Duties'
  <2>1. stack = << >> /\ Id \in Circuit
    BY <1>3, MessageIs DEF handle_hangup_or_deactivate_circuit_message
  <2>2. PICK c \in Circuit : c = Id
    BY <2>1
  <2>3. UNCHANGED <<config, state, op, globalMode, localMode>>
    BY <1>3 DEF handle_hangup_or_deactivate_circuit_message, Calls, conf, modes
  <2>4. stack' = << >> \/ stack' = <<Call("finalize_hangup", c, "")>> \/ stack' = <<Call("hangup", c, target)>>
    BY <1>3, <2>2 DEF handle_hangup_or_deactivate_circuit_message, Calls, HangupCalls
  <2>5. Call("finalize_hangup", c, "") \in CallType /\ Call("hangup", c, target) \in CallType
    BY CallsAreTyped
  <2>6. QED
    BY <2>1, <2>3, <2>4, <2>5, OneBegins
<1>4. QED
  BY <1>1, <1>2, <1>3

\* Events.  A circuit goes up or down, or a daemon starts or ends.
LEMMA EventDuties ==
  ASSUME IInv, Duties,
         \/ handle_up_link_circuit_event \/ handle_down_link_circuit_event
         \/ handle_down_l3prot_circuit_event
         \/ handle_start_daemon_circuit_message \/ handle_stop_daemon_circuit_message
  PROVE  Duties'
<1>1. PICK type \in {"up_link", "down_link", "down_l3prot", "start_daemon", "stop_daemon"} : Handle(type)
  BY DEF handle_up_link_circuit_event, handle_down_link_circuit_event,
     handle_down_l3prot_circuit_event, handle_start_daemon_circuit_message,
     handle_stop_daemon_circuit_message
<1>2. stack = << >> /\ Id \in Circuit
  BY <1>1, MessageIs
<1>3. PICK c \in Circuit : c = Id
  BY <1>2
<1>4. handle_down_link_circuit_event => Arg \in {"", "force"}
  <2>1. SUFFICES ASSUME handle_down_link_circuit_event PROVE Arg \in {"", "force"}
    OBVIOUS
  <2>2. Handle("down_link")
    BY <2>1 DEF handle_down_link_circuit_event
  <2>3. QED
    BY <2>2, MessageIs
<1>5. UNCHANGED <<config, state, op, globalMode, localMode>>
  BY DEF handle_up_link_circuit_event, handle_down_link_circuit_event,
     handle_down_l3prot_circuit_event, handle_start_daemon_circuit_message,
     handle_stop_daemon_circuit_message, Calls, conf, modes
<1>6. \/ stack' = << >>
      \/ \E s \in {"online", "semionline"} : stack' = <<Call("change_state", c, s)>>
      \/ \E a \in {"", "force"} : stack' = <<Call("finalize_hangup", c, a)>>
  BY <1>3, <1>4 DEF handle_up_link_circuit_event, handle_down_link_circuit_event,
     handle_down_l3prot_circuit_event, handle_start_daemon_circuit_message,
     handle_stop_daemon_circuit_message, Calls
<1>7. /\ \A s \in {"online", "semionline"} : Call("change_state", c, s) \in CallType
      /\ \A a \in {"", "force"} : Call("finalize_hangup", c, a) \in CallType
  BY CallsAreTyped DEF States
<1>8. QED
  BY <1>2, <1>5, <1>6, <1>7, OneBegins

LEMMA UpDuties ==
  ASSUME IInv, Duties, handle_up_l3prot_circuit_event
  PROVE  Duties'
<1>1. UNCHANGED <<config, state, op, globalMode, localMode>>
  BY DEF handle_up_l3prot_circuit_event, Calls, conf, modes
<1>2. stack = << >> /\ Id \in Circuit
  <2>1. PICK type \in {"up_l3prot"} : Handle(type)
    BY DEF handle_up_l3prot_circuit_event
  <2>2. QED
    BY <2>1, MessageIs
<1>3. PICK c \in Circuit : c = Id
  BY <1>2
<1>4. PICK x \in CallType, y \in CallType :
        /\ x = Call("change_state", c, "online") /\ x.call = "change_state" /\ x.arg = "online"
        /\ y = Call("clear_op", c, "dial") /\ y.call = "clear_op" /\ y.arg = "dial"
  BY CallsAreTyped DEF Call, States
<1>5. stack' = << >> \/ stack' = <<Call("change_state", c, "semionline")>> \/ stack' = <<x, y>>
  BY <1>3, <1>4 DEF handle_up_l3prot_circuit_event, Calls
<1>6. Call("change_state", c, "semionline") \in CallType
  BY CallsAreTyped DEF States
<1>7. CASE stack' = <<x, y>>
  <2>1. <<x, y>> \in Seq(CallType) /\ Len(<<x, y>>) = 2 /\ <<x, y>>[1] = x /\ <<x, y>>[2] = y
    OBVIOUS
  <2>2. PICK calls \in Seq(CallType) : stack' = calls /\ Len(calls) = 2 /\ calls[1] = x /\ calls[2] = y
    BY <1>7, <2>1, Zenon
  <2>3. \A j \in 1..Len(calls) : CallFits(calls[j])'
    <3>1. \A j \in 1..2 : j = 1 \/ j = 2
      OBVIOUS
    <3>2. QED
      BY <1>4, <2>2, <3>1 DEF CallFits
  <2>4. QED
    BY <1>1, <1>2, <1>4, <2>2, <2>3, BeginDuties DEF UpStates
<1>8. QED
  BY <1>1, <1>2, <1>5, <1>6, <1>7, OneBegins

LEMMA EndDuties ==
  ASSUME IInv, Duties, handle_daemon_exited_circuit_event
  PROVE  Duties'
<1>1. UNCHANGED <<config, state, op, globalMode, localMode>>
  BY DEF handle_daemon_exited_circuit_event, conf, modes
<1>2. stack = << >> /\ Id \in Circuit
  <2>1. PICK type \in {"daemon_exited"} : Handle(type)
    BY DEF handle_daemon_exited_circuit_event
  <2>2. QED
    BY <2>1, MessageIs
<1>3. PICK x \in CallType : x = Call("unref", Id, "") /\ x.call = "unref"
  BY <1>2, CallsAreTyped DEF Call
<1>4. PICK hang \in Seq(CallType) : /\ stack' = hang \o <<x>>
                                    /\ \A i \in 1..Len(hang) : hang[i].call = "finalize_hangup"
  <2>1. PICK p : stack' = circd_daemon_hangup(p) \o <<x>>
    BY <1>3 DEF handle_daemon_exited_circuit_event
  <2>2. PICK h : h = circd_daemon_hangup(p)
    OBVIOUS
  <2>3. h = << >> \/ \E d \in Circuit : h = <<Call("finalize_hangup", d, "")>>
    BY <2>2 DEF circd_daemon_hangup
  <2>4. CASE h = << >>
    BY <2>1, <2>2, <2>4, NoCall
  <2>5. ASSUME NEW d \in Circuit, h = <<Call("finalize_hangup", d, "")>>
        PROVE  h \in Seq(CallType) /\ \A i \in 1..Len(h) : h[i].call = "finalize_hangup"
    <3>1. PICK y \in CallType : y = Call("finalize_hangup", d, "") /\ y.call = "finalize_hangup"
      BY CallsAreTyped DEF Call
    <3>2. h \in Seq(CallType) /\ Len(h) = 1 /\ h[1] = y
      BY <2>5, <3>1, OneCall
    <3>3. QED
      BY <3>1, <3>2, OnlyPlace
  <2>6. QED
    BY <2>1, <2>2, <2>3, <2>4, <2>5
<1>5. PICK calls \in Seq(CallType) : /\ stack' = calls
                                     /\ \A i \in 1..Len(calls) : calls[i].call \in {"finalize_hangup", "unref"}
  <2>1. PICK r \in Seq(CallType) : /\ r = hang \o <<x>> /\ Len(r) = Len(hang) + 1 /\ Len(hang) \in Nat
                                   /\ \A i \in 1..Len(hang) : r[i] = hang[i]
                                   /\ r[Len(hang) + 1] = x
    BY Join
  <2>2. \A i \in 1..Len(r) : i \in 1..Len(hang) \/ i = Len(hang) + 1
    BY <2>1
  <2>3. \A i \in 1..Len(r) : r[i].call \in {"finalize_hangup", "unref"}
    BY <1>3, <1>4, <2>1, <2>2
  <2>4. QED
    BY <1>4, <2>1, <2>3
<1>6. \A j \in 1..Len(calls) : CallFits(calls[j])'
  BY <1>5 DEF CallFits
<1>7. QED
  BY <1>1, <1>2, <1>5, <1>6, BeginDuties

LEMMA ExitDuties ==
  ASSUME IInv, Duties, handle_stop_service_message \/ handle_child_exited_circd_event
  PROVE  Duties'
<1>1. stack = << >> /\ UNCHANGED <<config, state, op, globalMode, localMode>>
  BY DEF handle_stop_service_message, handle_child_exited_circd_event, Handle, Receives,
     conf, modes
<1>2. stack' = << >> \/ stack' = <<Call("check_exit", 0, "")>>
  BY DEF handle_stop_service_message, handle_child_exited_circd_event
<1>3. QED
  BY <1>1, <1>2, CheckExitIsTyped, OneBegins

\* The circuits whose mode changes are told their new mode.
LEMMA ModesAreTold ==
  ASSUME NEW g \in Mode, NEW l \in [Circuit -> Mode \cup {""}]
  PROVE  /\ \A i \in 1..Len(ModeCalls(g, l)) :
              LET f == ModeCalls(g, l)[i] IN f.arg = circd_get_effective_dialmode(g, l[f.id])
         /\ \A c \in Circuit : circd_get_effective_dialmode(g, l[c]) # EffectiveMode(c) =>
              Made(ModeCalls(g, l), "mode_changed", c)
<1> DEFINE mode(c) == circd_get_effective_dialmode(g, l[c])
           S == {c \in Circuit : mode(c) # EffectiveMode(c)}
<1>1. S \in SUBSET Circuit
  OBVIOUS
<1>2. PICK changed : changed = InOrder(S) /\ changed \in Seq(S) /\ \A c \in S : \E i \in 1..Len(changed) : changed[i] = c
  <2> HIDE DEF S
  <2>1. InOrder(S) \in Seq(S) /\ \A c \in S : \E i \in 1..Len(InOrder(S)) : InOrder(S)[i] = c
    BY <1>1, InOrderIsOf
  <2>2. QED
    BY <2>1, Zenon
<1>3. PICK calls : calls = [i \in 1..Len(changed) |-> Call("mode_changed", changed[i], mode(changed[i]))]
  OBVIOUS
<1>4. ModeCalls(g, l) = calls
  BY <1>2, <1>3 DEF ModeCalls
<1>5. \A c \in Circuit : mode(c) \in Mode
  BY DEF circd_get_effective_dialmode, Mode
<1> HIDE DEF S, mode
<1>6. Len(changed) \in Nat /\ \A i \in 1..Len(changed) : changed[i] \in Circuit
  BY <1>1, <1>2, SeqElements
<1>7. \A c \in S : \E i \in 1..Len(changed) : changed[i] = c
  BY <1>2
<1>8. \A c \in Circuit : /\ Call("mode_changed", c, mode(c)) \in CallType
                         /\ Call("mode_changed", c, mode(c)).call = "mode_changed"
                         /\ Call("mode_changed", c, mode(c)).id = c /\ Call("mode_changed", c, mode(c)).arg = mode(c)
  BY <1>5, CallsAreTyped DEF Call
<1>9. /\ calls \in [1..Len(changed) -> CallType]
      /\ \A i \in 1..Len(changed) : /\ calls[i].call = "mode_changed" /\ calls[i].id = changed[i]
                                    /\ calls[i].arg = mode(changed[i])
  BY <1>3, <1>6, <1>8
<1>10. Len(calls) = Len(changed)
  BY <1>6, <1>9, FunctionIsSeq
<1>11. \A i \in 1..Len(calls) : calls[i].arg = mode(calls[i].id)
  BY <1>9, <1>10
<1>12. \A c \in S : Made(calls, "mode_changed", c)
  BY <1>7, <1>9, <1>10 DEF Made
<1>13. QED
  BY <1>4, <1>11, <1>12 DEF S, mode

LEMMA FirstPlace == \A calls \in Seq(CallType) : calls # << >> => 1 \in 1..Len(calls)
OBVIOUS

LEMMA NewModes ==
  ASSUME IInv, Duties, stack = << >>, UNCHANGED <<config, state, op>>,
         NEW g \in Mode, NEW l \in [Circuit -> Mode \cup {""}], globalMode' = g, localMode' = l,
         stack' = ModeCalls(g, l)
  PROVE  Duties'
<1>1. PICK calls \in Seq(CallType) :
        /\ stack' = calls
        /\ \A i \in 1..Len(calls) : /\ calls[i].call = "mode_changed"
                                    /\ calls[i].arg = circd_get_effective_dialmode(g, l[calls[i].id])
        /\ \A c \in Circuit : circd_get_effective_dialmode(g, l[c]) # EffectiveMode(c) => Made(calls, "mode_changed", c)
  <2>1. /\ ModeCalls(g, l) \in Seq(CallType)
        /\ \A i \in 1..Len(ModeCalls(g, l)) : ModeCalls(g, l)[i].call = "mode_changed"
    BY ModeCallsAre DEF Begins
  <2>2. PICK calls : calls = ModeCalls(g, l)
    OBVIOUS
  <2>3. /\ \A i \in 1..Len(calls) : calls[i].arg = circd_get_effective_dialmode(g, l[calls[i].id])
        /\ \A c \in Circuit : circd_get_effective_dialmode(g, l[c]) # EffectiveMode(c) => Made(calls, "mode_changed", c)
    BY <2>2, ModesAreTold
  <2>4. QED
    BY <2>1, <2>2, <2>3
<1>2. \A c : EffectiveMode(c)' = circd_get_effective_dialmode(g, l[c])
  BY DEF EffectiveMode
<1>3. AllFit'
  <2>1. SUFFICES ASSUME NEW f \in CallType, OnStack(f)' PROVE CallFits(f)'
    BY DEF AllFit
  <2>2. f.call = "mode_changed" /\ f.arg = EffectiveMode(f.id)'
    BY <1>1, <1>2, <2>1 DEF OnStack
  <2>3. QED
    BY <2>2 DEF CallFits
<1>4. LeavingAlone'
  <2>1. SUFFICES ASSUME stack' # << >> PROVE stack'[1].call # "change_state"
    BY DEF LeavingAlone
  <2>2. 1 \in 1..Len(calls)
    <3>1. calls # << >>
      BY <1>1, <2>1
    <3>2. QED
      BY <3>1, FirstPlace
  <2>3. QED
    BY <1>1, <2>2
<1>5. Watched'
  <2>1. SUFFICES ASSUME NEW c \in Tame, state[c] \in UpStates, op[c] # "hangup"
                 PROVE  /\ Off(c)' => HasCall("mode_changed", c)'
                        /\ DependeesUp(c)'
    BY SameConfig DEF Watched
  <2>2. Fit(c)
    BY <2>1, IdleDuties
  <2>3. DependeesUp(c)'
    <3>1. Deps' = Deps /\ Origin' = Origin /\ Tame' = Tame
      BY SameConfig
    <3>2. QED
      BY <2>2, <3>1 DEF DependeesUp, Fit
  <2>4. Off(c)' => Made(calls, "mode_changed", c)
    BY <1>1, <1>2, <2>2, TameAreCircuits DEF Off, Fit
  <2>5. \A f : HasCall(f, c)' <=> Made(calls, f, c)
    BY <1>1 DEF HasCall, Made
  <2>6. QED
    BY <2>3, <2>4, <2>5
<1>6. QED
  BY <1>3, <1>4, <1>5 DEF Duties

LEMMA ModeDuties ==
  ASSUME IInv, Duties, handle_set_global_dialmode_message \/ handle_set_local_dialmode_message
  PROVE  Duties'
<1>1. PICK type \in {"set_global", "set_local"} : Handle(type)
  BY DEF handle_set_global_dialmode_message, handle_set_local_dialmode_message
<1>2. /\ stack = << >> /\ Arg \in Mode /\ globalMode \in Mode
      /\ localMode \in [Circuit -> Mode \cup {""}]
  BY <1>1, MessageIs DEF IInv, Typed
<1>3. CASE shutting
  <2>1. Calls(<< >>)
    BY <1>3 DEF handle_set_global_dialmode_message, handle_set_local_dialmode_message
  <2>2. QED
    BY <1>2, <2>1, CallsBegin, OneBegins
<1>4. CASE ~ shutting
  <2>1. PICK g, l : /\ globalMode' = g /\ localMode' = l /\ g \in Mode /\ l \in [Circuit -> Mode \cup {""}]
                    /\ stack' = ModeCalls(g, l) /\ UNCHANGED <<config, state, op>>
    <3>1. CASE handle_set_global_dialmode_message
      BY <1>2, <1>4, <3>1 DEF handle_set_global_dialmode_message, conf
    <3>2. CASE handle_set_local_dialmode_message
      <4>1. localMode' = [localMode EXCEPT ![Id] = Arg] /\ stack' = ModeCalls(globalMode, localMode')
            /\ UNCHANGED <<config, state, op, globalMode>>
        BY <1>4, <3>2 DEF handle_set_local_dialmode_message, conf
      <4>2. localMode' \in [Circuit -> Mode \cup {""}]
        BY <1>2, <4>1
      <4>3. QED
        BY <1>2, <4>1, <4>2
    <3>3. QED
      BY <3>1, <3>2
  <2>2. QED
    BY <1>2, <2>1, NewModes
<1>5. QED
  BY <1>3, <1>4

\* A new circuit is not up, and nothing depends on it yet.
LEMMA AddDuties ==
  ASSUME IInv, Duties, stack = << >>, nextId \in Circuit, NEW up, circd_circuit_add(up)
  PROVE  Duties'
<1>1. PICK c \in Circuit : c = nextId
  OBVIOUS
<1>2. /\ state' = [state EXCEPT ![c] = "inactive"] /\ localMode' = [localMode EXCEPT ![c] = "auto"]
      /\ stack' = << >> \/ stack' = <<Call("change_state", c, "active")>>
      /\ UNCHANGED <<config, op, globalMode>>
  BY <1>1 DEF circd_circuit_add
<1>3. state[c] = "none"
  BY <1>1 DEF IInv, Clones, Circuit
<1>4. /\ state'[c] \notin UpStates /\ state[c] \notin UpStates
      /\ \A d \in Circuit : d # c => state'[d] = state[d] /\ localMode'[d] = localMode[d]
  <2>1. state \in [Circuit -> States \cup {"none"}] /\ localMode \in [Circuit -> Mode \cup {""}]
    BY DEF IInv, Typed
  <2>2. QED
    BY <1>2, <1>3, <2>1 DEF UpStates
<1>5. PICK calls \in Seq(CallType) :
        stack' = calls /\ Len(calls) \in {0, 1} /\ \A i \in 1..Len(calls) : calls[i].call = "change_state"
  <2>1. CASE stack' = << >>
    <3>1. << >> \in Seq(CallType) /\ Len(<< >>) = 0 /\ \A i : i \notin 1..0
      OBVIOUS
    <3>2. QED
      BY <2>1, <3>1
  <2>2. CASE stack' = <<Call("change_state", c, "active")>>
    <3>1. PICK x \in CallType : x = Call("change_state", c, "active") /\ x.call = "change_state"
      BY CallsAreTyped DEF Call, States
    <3>2. PICK one \in Seq(CallType) : one = <<x>> /\ Len(one) = 1 /\ one[1] = x
      BY OneCall
    <3>3. \A i \in 1..Len(one) : one[i].call = "change_state"
      BY <3>1, <3>2, OnlyPlace
    <3>4. QED
      BY <2>2, <3>1, <3>2, <3>3
  <2>3. QED
    BY <1>2, <2>1, <2>2
<1>6. AllFit'
  BY <1>5 DEF AllFit, OnStack, CallFits
<1>7. LeavingAlone'
  <2>1. \A i : i \notin 2..Len(stack')
    BY <1>5
  <2>2. QED
    BY <2>1 DEF LeavingAlone
<1>8. ASSUME NEW d \in Tame, state'[d] \in UpStates, op'[d] # "hangup" PROVE Fit(d)'
  <2>1. d # c /\ state[d] \in UpStates /\ op[d] # "hangup"
    BY <1>2, <1>4, <1>8, TameAreCircuits
  <2>2. Fit(d)
    BY <2>1, IdleDuties
  <2>3. Deps' = Deps /\ Origin' = Origin /\ Tame' = Tame /\ d \in Circuit
    BY <1>2, SameConfig, TameAreCircuits
  <2>4. ~ Off(d)'
    BY <1>2, <1>4, <2>1, <2>2, <2>3 DEF Fit, Off, EffectiveMode
  <2>5. Origin[d] \in 0..NCircuits /\ \A x \in Deps[d] : x.on \subseteq Circuit
    <3>1. config \in Configs
      BY DEF IInv, Typed
    <3>2. QED
      BY <2>3, <3>1, ConfigAssumption DEF Deps, Origin
  <2>6. Origin[d] # 0 => Origin[d] \in Circuit
    BY <2>5, CircuitAssumption DEF Circuit
  <2>7. \A e \in Circuit : state[e] \in UpStates => state'[e] \in UpStates
    BY <1>4
  <2>8. DependeesUp(d)'
    BY <2>2, <2>3, <2>5, <2>6, <2>7 DEF Fit, DependeesUp
  <2>9. QED
    BY <2>4, <2>8 DEF Fit
<1>9. QED
  BY <1>2, <1>6, <1>7, <1>8, SameConfig DEF Duties, Watched, Fit

LEMMA CreateDuties ==
  ASSUME IInv, Duties, handle_create_circuit_message \/ handle_clone_circuit_message
  PROVE  Duties'
<1>1. nextId \in 1..(NCircuits + 1) /\ NCircuits \in Nat
  BY CircuitAssumption DEF IInv, Typed
<1>2. ~ (nextId > NCircuits) => nextId \in Circuit
  BY <1>1 DEF Circuit
<1>3. stack = << >>
  BY DEF handle_create_circuit_message, handle_clone_circuit_message, Handle, Receives
<1>4. Calls(<< >>) \/ (nextId \in Circuit /\ \E up : circd_circuit_add(up))
  <2>1. CASE handle_create_circuit_message
    BY <1>2, <2>1 DEF handle_create_circuit_message
  <2>2. CASE handle_clone_circuit_message
    BY <1>2, <2>2 DEF handle_clone_circuit_message
  <2>3. QED
    BY <2>1, <2>2
<1>5. QED
  BY <1>3, <1>4, CallsBegin, OneBegins, AddDuties

\* A failed dial attempt takes the circuit down and clears its operation, whatever it
\* is; there are none on tame circuits.
LEMMA FailureDuties ==
  ASSUME IInv, Duties, handle_dialup_control_circuit_event \/ handle_hangup_control_circuit_event
  PROVE  Duties'
<1>1. PICK t \in {"dial_failed", "hangup_failed"} : Handle(t)
  BY DEF handle_dialup_control_circuit_event, handle_hangup_control_circuit_event
<1>2. stack = << >> /\ Id \in Circuit
  BY <1>1, MessageIs
<1>3. Id \notin Tame
  BY <1>1, HandleFacts DEF IInv, Mail
<1>4. PICK c \in Circuit : c = Id /\ c \notin Tame
  BY <1>2, <1>3
<1>5. UNCHANGED <<config, state, op, globalMode, localMode>>
  BY DEF handle_dialup_control_circuit_event, handle_hangup_control_circuit_event, Calls,
     conf, modes
<1>6. PICK x \in CallType, y \in CallType :
        /\ x = Call("change_state", c, "active") /\ x.call = "change_state" /\ x.id = c
        /\ y = Call("clear_op", c, "any") /\ y.call = "clear_op" /\ y.id = c
  BY CallsAreTyped DEF Call, States
<1>7. stack' = << >> \/ stack' = <<Call("finalize_hangup", c, "")>> \/ stack' = <<x, y>>
  BY <1>4, <1>6 DEF handle_dialup_control_circuit_event,
     handle_hangup_control_circuit_event, Calls
<1>8. Call("finalize_hangup", c, "") \in CallType
  BY CallsAreTyped
<1>9. CASE stack' = <<x, y>>
  <2>1. <<x, y>> \in Seq(CallType) /\ Len(<<x, y>>) = 2 /\ <<x, y>>[1] = x /\ <<x, y>>[2] = y
    OBVIOUS
  <2>2. PICK calls \in Seq(CallType) : stack' = calls /\ Len(calls) = 2 /\ calls[1] = x /\ calls[2] = y
    BY <1>9, <2>1, Zenon
  <2>3. (\A j \in 1..2 : j = 1 \/ j = 2) /\ (\A j \in 2..2 : j = 2)
    OBVIOUS
  <2>4. Tame' = Tame
    BY <1>5, SameConfig
  <2>5. \A j \in 1..Len(calls) : CallFits(calls[j])'
    BY <1>4, <1>6, <2>2, <2>3, <2>4 DEF CallFits
  <2>6. \A i \in 2..Len(calls) : calls[i].call = "clear_op" /\ calls[i].id = calls[1].id
    BY <1>6, <2>2, <2>3
  <2>7. QED
    BY <1>2, <1>5, <2>2, <2>5, <2>6, BeginDuties
<1>10. QED
  BY <1>2, <1>5, <1>7, <1>8, <1>9, OneBegins

LEMMA HandlersDuties ==
  ASSUME IInv, Duties, Handlers
  PROVE  Duties'
<1>1. "active" \in {"active"} \cup Stopped /\ "inactive" \in {"active"} \cup Stopped /\ "failed" \in {"active"} \cup Stopped
  BY DEF Stopped
<1>2. \/ handle_create_circuit_message \/ handle_clone_circuit_message
      \/ handle_activate_circuit_message \/ handle_dialup_circuit_message
      \/ \E type \in {"hangup", "deactivate", "fail"}, target \in {"active"} \cup Stopped :
           handle_hangup_or_deactivate_circuit_message(type, target)
      \/ handle_start_daemon_circuit_message \/ handle_stop_daemon_circuit_message
      \/ handle_up_l3prot_circuit_event \/ handle_down_l3prot_circuit_event
      \/ handle_up_link_circuit_event \/ handle_down_link_circuit_event
      \/ handle_dialup_control_circuit_event \/ handle_hangup_control_circuit_event
      \/ handle_daemon_exited_circuit_event
      \/ handle_set_global_dialmode_message \/ handle_set_local_dialmode_message
      \/ handle_stop_service_message \/ handle_child_exited_circd_event
  BY <1>1 DEF Handlers
<1>3. QED
  BY <1>2, CreateDuties, RequestDuties, EventDuties, UpDuties, FailureDuties, EndDuties,
     ModeDuties, ExitDuties

-----------------------------------------------------------------------------
(* The other processes change nothing of it                                *)

LEMMA OthersDuties ==
  ASSUME Duties, UNCHANGED <<config, state, op, globalMode, localMode, stack>>
  PROVE  Duties'
<1>1. /\ Tame' = Tame
      /\ \A c : /\ EffectiveMode(c)' = EffectiveMode(c)
                /\ DependeesUp(c)' <=> DependeesUp(c)
                /\ Fit(c)' <=> Fit(c)
                /\ Off(c)' <=> Off(c)
  BY SameFit
<1>2. \A f : (CallFits(f)' <=> CallFits(f)) /\ (OnStack(f)' <=> OnStack(f))
  BY <1>1 DEF CallFits, OnStack, Leaving
<1>3. AllFit'
  BY <1>2 DEF Duties, AllFit
<1>4. LeavingAlone'
  BY DEF Duties, LeavingAlone
<1>5. Watched'
  BY <1>1 DEF Duties, Watched, HasCall
<1>6. QED
  BY <1>3, <1>4, <1>5 DEF Duties

LEMMA OthersLeave ==
  ASSUME ~ Circd, [Next]_vars
  PROVE  UNCHANGED <<config, state, op, globalMode, localMode, stack>>
<1>1. ASSUME NEW c \in Circuit, QueueProcess(c)
      PROVE  UNCHANGED <<config, state, op, globalMode, localMode, stack>>
  BY <1>1 DEF QueueProcess, QueueReady, handle_dialup_circuit_queue_message,
     handle_hangup_circuit_queue_message, handle_quit_circuit_queue_message, DialFails,
     HangupFails, Unqueue, conf, modes
<1>2. ASSUME NEW c \in Circuit, NEW k, NEW q, IpScript(c, k, q)
      PROVE  UNCHANGED <<config, state, op, globalMode, localMode, stack>>
  BY <1>2 DEF IpScript, conf, modes
<1>3. ASSUME NEW p \in Pid,
             \/ \E q \in Prot \cup {Link} : DaemonUp(p, q) \/ \E f \in {"", "force"} : DaemonDown(p, q, f)
             \/ DaemonExit(p) \/ DaemonCrash(p) \/ WrapperExit(p)
      PROVE  UNCHANGED <<config, state, op, globalMode, localMode, stack>>
  BY <1>3 DEF DaemonUp, DaemonDown, DaemonExit, DaemonCrash, WrapperExit, DaemonStep,
     conf, modes
<1>4. ASSUME NEW m \in Requests, Request(m)
      PROVE  UNCHANGED <<config, state, op, globalMode, localMode, stack>>
  BY <1>4 DEF Request, conf, modes
<1>5. CASE UNCHANGED vars
  BY <1>5 DEF vars, conf, modes
<1>6. QED
  BY <1>1, <1>2, <1>3, <1>4, <1>5 DEF Next

LEMMA NextDuties ==
  ASSUME IInv, Duties, [Next]_vars
  PROVE  Duties'
<1>1. CASE Circd
  BY <1>1, FunctionsDuties, HandlersDuties DEF Circd
<1>2. CASE ~ Circd
  BY <1>2, OthersLeave, OthersDuties
<1>3. QED
  BY <1>1, <1>2

LEMMA InitDuties ==
  ASSUME Init
  PROVE  Duties
<1>1. /\ stack = << >> /\ Len(stack) = 0 /\ \A i : i \notin 1..0
      /\ \A c \in Circuit : state[c] \in {"inactive", "none"}
  BY InitNothing
<1>2. \A c \in Circuit : state[c] \notin UpStates
  BY <1>1 DEF UpStates
<1>3. QED
  BY <1>1, <1>2, TameAreCircuits DEF Duties, AllFit, OnStack, LeavingAlone, Watched

-----------------------------------------------------------------------------
(* The theorems                                                            *)

\* Every tame circuit that loses its dial mode or a dependee while a handler of circd
\* runs is being hung up, or a call of the same handler will look after it; and only
\* circuits that may be up are dialled.
THEOREM DutiesAreDone == Spec => []Duties
<1>1. Init => Duties
  BY InitDuties
<1>2. IInv /\ Duties /\ [Next]_vars => Duties'
  BY NextDuties
<1>3. QED
  BY <1>1, <1>2, Inductive, PTL DEF Spec

\* What OffMeansDown says of the tame circuits
TameObey ==
  Between => \A c \in Tame :
    Exists(c) /\ EffectiveMode(c) = "off" => ~ circd_is_at_least_ready(c, TRUE)

\* No tame circuit stays up in the dial mode "off" when circd has handled a message,
\* whatever the circuits do whose reports come late: it is being hung up by
\* circd_handle_effective_dialmode_change, and no handler dials it.
THEOREM TameCircuitsObeyModes == Spec => []TameObey
<1>1. IInv /\ Duties => TameObey
  BY IdleDuties DEF TameObey, Between, circd_is_at_least_ready, Fit, Off
<1>2. QED
  BY <1>1, Inductive, DutiesAreDone, PTL

\* What DependenciesHold says of the tame circuits.  A dependency on circuits of which
\* one is not tame is not counted: circd_is_online reports such a circuit from protocols
\* whose end is still to be reported.
TameDepend ==
  Between => \A c \in Tame : circd_is_at_least_ready(c, TRUE) =>
    /\ \A d \in Deps[c] : d.on \subseteq Tame => \E e \in d.on : state[e] \in UpStates
    /\ Origin[c] # 0 => state[Origin[c]] \in UpStates

\* Every tame circuit that is up and not being hung up when circd has handled a message
\* has its origin up, and a circuit of each dependency on tame circuits: the calls that
\* circd_change_state makes for all dependents hang up those that lose theirs.
THEOREM TameCircuitsObeyDependencies == Spec => []TameDepend
<1>1. IInv /\ Duties => TameDepend
  BY IdleDuties DEF TameDepend, Between, circd_is_at_least_ready, Fit, DependeesUp
<1>2. QED
  BY <1>1, Inductive, DutiesAreDone, PTL

\* If all circuits are tame, no circuit stays up in the dial mode "off" when circd has
\* handled a message: circd_handle_effective_dialmode_change has begun to hang it up, and
\* no handler dials it.
THEOREM ModesAreObeyed == (Circuit \subseteq Tame) /\ Spec => []OffMeansDown
<1>1. TameObey /\ (Circuit \subseteq Tame) => OffMeansDown
  BY DEF TameObey, OffMeansDown
<1>2. QED
  BY <1>1, AllTame, TameCircuitsObeyModes, PTL

\* If all circuits are tame, every circuit that is up and not being hung up when circd has
\* handled a message has its dependencies and its origin up.
THEOREM DependenciesAreObeyed == (Circuit \subseteq Tame) /\ Spec => []DependenciesHold
<1>1. Typed /\ TameDepend /\ (Circuit \subseteq Tame) => DependenciesHold
  <2>1. SUFFICES ASSUME Typed, TameDepend, Circuit \subseteq Tame PROVE DependenciesHold
    OBVIOUS
  <2>2. \A c \in Circuit : \A d \in Deps[c] : d.on \subseteq Circuit
    <3>1. config \in Configs
      BY <2>1 DEF Typed
    <3>2. QED
      BY <3>1, ConfigAssumption DEF Deps
  <2>3. QED
    BY <2>1, <2>2 DEF TameDepend, DependenciesHold
<1>2. IInv => Typed
  BY DEF IInv
<1>3. QED
  BY <1>1, <1>2, AllTame, Inductive, TameCircuitsObeyDependencies, PTL

-----------------------------------------------------------------------------
(* The children of circd.  None of this depends on what control scripts do,*)
(* or on the protocols of a circuit.                                       *)

Post == MsgType \cup [type : {"dial_failed", "hangup_failed"}, id : Circuit, arg : {""}, pid : {NoPid}]

\* The messages about the end of a queue process (k = "q") or of a daemon's
\* wrapper (k = "d") of c that wait in s
Ends(s, c, k) == {i \in 1..Len(s) : s[i].type = "child_exited" /\ s[i].id = c /\ s[i].arg = k}
NoEnds(s)      == \A i \in 1..Len(s) : s[i].type # "child_exited"
EndOf(m, c, k) == m.type = "child_exited" /\ m.id = c /\ m.arg = k

Wrappers(c) == {p \in Pid : daemon[p].st # "free" /\ daemon[p].id = c}
Serving(c)  == IF qproc[c] \in {"starting", "up"} THEN 1 ELSE 0

Processes ==
  /\ config \in Configs
  /\ inbox \in Seq(Post)
  /\ daemon \in [Pid -> DaemonType]
  /\ \A p \in Pid : daemon[p].st # "free" => daemon[p].id \in Circuit
  /\ qproc \in [Circuit -> {"none", "starting", "up", "gone"}]
  /\ children \in [Circuit \X {"q", "d"} -> Int]
  /\ nextId \in 1..(NCircuits + 1)
  /\ \A c \in Circuit : c >= nextId => qproc[c] = "none"

\* circd_children has an entry for each process, and one for each process whose
\* end circd has not been told.
Counted ==
  \A c \in Circuit :
    /\ children[<<c, "q">>] = Serving(c) + Cardinality(Ends(inbox, c, "q"))
    /\ children[<<c, "d">>] = Cardinality(Wrappers(c)) + Cardinality(Ends(inbox, c, "d"))

Children == Processes /\ Counted /\ ExitsAfterChildren

LEMMA EndsFinite ==
  ASSUME NEW S, NEW s \in Seq(S), NEW c, NEW k
  PROVE  IsFiniteSet(Ends(s, c, k)) /\ Cardinality(Ends(s, c, k)) \in Nat
<1>1. Len(s) \in Nat /\ Ends(s, c, k) \in SUBSET (1..Len(s))
  BY DEF Ends
<1>2. IsFiniteSet(1..Len(s))
  BY <1>1, FS_Interval
<1>3. QED
  BY <1>1, <1>2, FS_Subset, FS_CardinalityType

\* A message that is taken is one less to wait.
LEMMA EndsTaken ==
  ASSUME NEW S, NEW s \in Seq(S), s # << >>, NEW c, NEW k
  PROVE  Cardinality(Ends(Tail(s), c, k)) =
         Cardinality(Ends(s, c, k)) - (IF EndOf(Head(s), c, k) THEN 1 ELSE 0)
<1> DEFINE A == Ends(Tail(s), c, k)
           B == Ends(s, c, k) \ {1}
           f == [i \in A |-> i + 1]
<1>1. /\ Tail(s) \in Seq(S) /\ Len(s) \in Nat /\ Len(s) >= 1 /\ Len(Tail(s)) = Len(s) - 1
      /\ Head(s) = s[1] /\ \A i \in 1..Len(Tail(s)) : Tail(s)[i] = s[i + 1]
  OBVIOUS
<1>2. f \in Bijection(A, B)
  <2>1. ASSUME NEW i \in A PROVE i \in Int /\ i + 1 \in B
    <3>1. i \in 1..Len(Tail(s)) /\ Tail(s)[i] = s[i + 1]
      BY <1>1 DEF Ends
    <3>2. i + 1 \in 1..Len(s) /\ i + 1 # 1
      BY <1>1, <3>1
    <3>3. QED
      BY <3>1, <3>2 DEF Ends
  <2>2. ASSUME NEW j \in B PROVE j - 1 \in A /\ j = (j - 1) + 1
    <3>1. j \in 1..Len(s) /\ j # 1
      BY DEF Ends
    <3>2. j - 1 \in 1..Len(Tail(s)) /\ j = (j - 1) + 1
      BY <1>1, <3>1
    <3>3. Tail(s)[j - 1] = s[j]
      BY <1>1, <3>2
    <3>4. QED
      BY <3>2, <3>3 DEF Ends
  <2>3. f \in [A -> B]
    BY <2>1
  <2>4. \A x, y \in A : f[x] = f[y] => x = y
    BY <2>1
  <2>5. \A j \in B : \E i \in A : f[i] = j
    BY <2>2
  <2> HIDE DEF A, B, f
  <2>6. f \in Injection(A, B) /\ f \in Surjection(A, B)
    BY <2>3, <2>4, <2>5 DEF Injection, Surjection, IsInjective
  <2>7. QED
    BY <2>6 DEF Bijection
<1>3. IsFiniteSet(A) /\ IsFiniteSet(Ends(s, c, k)) /\ Cardinality(Ends(s, c, k)) \in Nat
  BY <1>1, EndsFinite
<1>4. Cardinality(B) = Cardinality(A)
  BY <1>2, <1>3, FS_Bijection DEF ExistsBijection
<1>5. Cardinality(B) = IF 1 \in Ends(s, c, k) THEN Cardinality(Ends(s, c, k)) - 1 ELSE Cardinality(Ends(s, c, k))
  BY <1>3, FS_RemoveElement
<1>6. 1 \in Ends(s, c, k) <=> EndOf(Head(s), c, k)
  BY <1>1 DEF Ends, EndOf
<1> HIDE DEF A, B
<1>7. Cardinality(A) = Cardinality(Ends(s, c, k)) - (IF EndOf(Head(s), c, k) THEN 1 ELSE 0)
  BY <1>3, <1>4, <1>5, <1>6
<1>8. QED
  BY <1>7 DEF A

\* A message that is sent is one more.
LEMMA EndsSent ==
  ASSUME NEW S, NEW s \in Seq(S), NEW m \in S, NEW c, NEW k
  PROVE  Cardinality(Ends(Append(s, m), c, k)) =
         Cardinality(Ends(s, c, k)) + (IF EndOf(m, c, k) THEN 1 ELSE 0)
<1> DEFINE n == Len(s) + 1
<1>1. /\ Len(s) \in Nat /\ Len(Append(s, m)) = n /\ Append(s, m)[n] = m
      /\ \A i \in 1..Len(s) : Append(s, m)[i] = s[i]
  OBVIOUS
<1>2. 1..n = (1..Len(s)) \cup {n} /\ n \notin 1..Len(s)
  BY <1>1
<1>3. Ends(Append(s, m), c, k) = IF EndOf(m, c, k) THEN Ends(s, c, k) \cup {n} ELSE Ends(s, c, k)
  <2> HIDE DEF n
  <2>1. \A i : i \in Ends(Append(s, m), c, k) <=> (i \in Ends(s, c, k) \/ (i = n /\ EndOf(m, c, k)))
    BY <1>1, <1>2 DEF Ends, EndOf
  <2>2. QED
    BY <2>1
<1>4. n \notin Ends(s, c, k)
  BY <1>2 DEF Ends
<1>5. IsFiniteSet(Ends(s, c, k)) /\ Cardinality(Ends(s, c, k)) \in Nat
  BY EndsFinite
<1>6. Cardinality(Ends(s, c, k) \cup {n}) = Cardinality(Ends(s, c, k)) + 1
  BY <1>4, <1>5, FS_AddElement
<1> HIDE DEF n
<1>7. QED
  BY <1>3, <1>5, <1>6

\* Other messages do not count.
LEMMA EndsJoined ==
  ASSUME NEW s \in Seq(Post), NEW t \in Seq(Post), NoEnds(t), NEW c, NEW k
  PROVE  Cardinality(Ends(s \o t, c, k)) = Cardinality(Ends(s, c, k))
<1>1. /\ Len(s) \in Nat /\ Len(t) \in Nat /\ Len(s \o t) = Len(s) + Len(t)
      /\ \A i \in 1..Len(s \o t) : (s \o t)[i] = IF i <= Len(s) THEN s[i] ELSE t[i - Len(s)]
  OBVIOUS
<1>2. ASSUME NEW i \in 1..Len(s \o t), ~ (i <= Len(s)) PROVE (s \o t)[i].type # "child_exited"
  <2>1. i - Len(s) \in 1..Len(t)
    BY <1>1, <1>2
  <2>2. QED
    BY <1>1, <1>2, <2>1 DEF NoEnds
<1>3. \A i \in 1..Len(s \o t) : i <= Len(s) => i \in 1..Len(s) /\ (s \o t)[i] = s[i]
  BY <1>1
<1>4. \A i \in 1..Len(s) : i \in 1..Len(s \o t) /\ i <= Len(s)
  BY <1>1
<1>5. Ends(s \o t, c, k) = Ends(s, c, k)
  BY <1>2, <1>3, <1>4 DEF Ends
<1>6. QED
  BY <1>5

\* A step that starts and ends no child
LEMMA KeepsChildren ==
  ASSUME Children, UNCHANGED <<config, children, qproc, nextId, quit>>, inbox' \in Seq(Post),
         daemon' \in [Pid -> DaemonType],
         \A p \in Pid : daemon'[p].id = daemon[p].id /\ (daemon'[p].st = "free" <=> daemon[p].st = "free"),
         \A c \in Circuit, k \in {"q", "d"} : Cardinality(Ends(inbox', c, k)) = Cardinality(Ends(inbox, c, k))
  PROVE  Children'
<1>1. Processes'
  BY DEF Children, Processes
<1>2. \A c \in Circuit : Wrappers(c)' = Wrappers(c) /\ Serving(c)' = Serving(c)
  BY DEF Wrappers, Serving
<1>3. Counted'
  BY <1>2 DEF Children, Counted
<1>4. ExitsAfterChildren'
  BY DEF Children, ExitsAfterChildren
<1>5. QED
  BY <1>1, <1>3, <1>4 DEF Children

LEMMA SameDaemons ==
  ASSUME Children, daemon' = daemon
  PROVE  /\ daemon' \in [Pid -> DaemonType]
         /\ \A p \in Pid : daemon'[p].id = daemon[p].id /\ (daemon'[p].st = "free" <=> daemon[p].st = "free")
  BY DEF Children, Processes

\* n more processes of kind k of circuit c
More(c, k, n) == children' = [children EXCEPT ![<<c, k>>] = @ + n]

LEMMA ChildrenChange ==
  ASSUME Children, NEW c \in Circuit, NEW k \in {"q", "d"}, NEW n \in Int, More(c, k, n)
  PROVE  /\ children' \in [Circuit \X {"q", "d"} -> Int]
         /\ \A d \in Circuit, l \in {"q", "d"} :
              children'[<<d, l>>] = children[<<d, l>>] + (IF d = c /\ l = k THEN n ELSE 0)
<1>1. children \in [Circuit \X {"q", "d"} -> Int] /\ <<c, k>> \in Circuit \X {"q", "d"}
  BY DEF Children, Processes
<1>2. children[<<c, k>>] + n \in Int
  BY <1>1
<1>3. children' \in [Circuit \X {"q", "d"} -> Int]
  BY <1>1, <1>2 DEF More
<1>4. ASSUME NEW d \in Circuit, NEW l \in {"q", "d"}
      PROVE  children'[<<d, l>>] = children[<<d, l>>] + (IF d = c /\ l = k THEN n ELSE 0)
  <2>1. <<d, l>> \in Circuit \X {"q", "d"} /\ children[<<d, l>>] \in Int
    BY <1>1
  <2>2. CASE d = c /\ l = k
    BY <1>1, <2>2 DEF More
  <2>3. CASE ~ (d = c /\ l = k)
    <3>1. <<d, l>> # <<c, k>>
      BY <2>3
    <3>2. children'[<<d, l>>] = children[<<d, l>>]
      BY <1>1, <2>1, <3>1 DEF More
    <3>3. QED
      BY <2>1, <2>3, <3>2
  <2>4. QED
    BY <2>2, <2>3
<1>5. QED
  BY <1>3, <1>4

LEMMA FunctionsKeepChildren ==
  ASSUME Functions, ~ circd_check_exit
  PROVE  UNCHANGED <<config, children, qproc, nextId, quit, inbox, daemon>>
<1>1. CASE circd_change_state \/ circd_handle_state_change
  BY <1>1 DEF circd_change_state, circd_handle_state_change, life, procs
<1>2. CASE circd_initiate_dialup \/ circd_initiate_hangup \/ circd_stop_queue \/ ClearOperation
  BY <1>2 DEF circd_initiate_dialup, circd_initiate_hangup, circd_stop_queue,
     ClearOperation, life, procs
<1>3. CASE circd_finalize_hangup \/ HungUp \/ circd_unref \/ circd_circuit_remove \/ EffectiveDialmodeChange
  BY <1>3 DEF circd_finalize_hangup, HungUp, circd_unref, circd_circuit_remove,
     EffectiveDialmodeChange, life, procs
<1>4. QED
  BY <1>1, <1>2, <1>3 DEF Functions

\* circd_children is empty: there is no child, and no message about one.
LEMMA NoChildren ==
  ASSUME Processes, Counted, \A k \in DOMAIN children : children[k] = 0
  PROVE  /\ \A c \in Circuit : qproc[c] \notin {"starting", "up"}
         /\ \A p \in Pid : daemon[p].st = "free"
<1>1. \A c \in Circuit : children[<<c, "q">>] = 0 /\ children[<<c, "d">>] = 0
  BY DEF Processes
<1>2. ASSUME NEW c \in Circuit PROVE qproc[c] \notin {"starting", "up"}
  <2>1. Serving(c) + Cardinality(Ends(inbox, c, "q")) = 0 /\ Cardinality(Ends(inbox, c, "q")) \in Nat
    BY <1>1, EndsFinite DEF Counted, Processes
  <2>2. Serving(c) # 1 /\ Serving(c) \in {0, 1}
    BY <2>1 DEF Serving
  <2>3. QED
    BY <2>2 DEF Serving
<1>3. ASSUME NEW p \in Pid, daemon[p].st # "free" PROVE FALSE
  <2> DEFINE c == daemon[p].id
  <2>1. c \in Circuit /\ p \in Wrappers(c)
    BY <1>3 DEF Wrappers, Processes
  <2>2. Cardinality(Wrappers(c)) + Cardinality(Ends(inbox, c, "d")) = 0 /\ Cardinality(Ends(inbox, c, "d")) \in Nat
    BY <1>1, <2>1, EndsFinite DEF Counted, Processes
  <2>3. IsFiniteSet(Wrappers(c))
    BY CircuitAssumption, FS_Subset DEF Wrappers
  <2>4. Cardinality(Wrappers(c)) = 0
    BY <2>2, <2>3, FS_CardinalityType
  <2>5. QED
    BY <2>1, <2>3, <2>4, FS_EmptySet
<1>4. QED
  BY <1>2, <1>3

LEMMA FunctionsChildren ==
  ASSUME Children, Functions
  PROVE  Children'
<1>1. CASE ~ circd_check_exit
  <2>1. UNCHANGED <<config, children, qproc, nextId, quit, inbox, daemon>>
    BY <1>1, FunctionsKeepChildren
  <2>2. QED
    BY <2>1, KeepsChildren, SameDaemons DEF Children, Processes
<1>2. CASE circd_check_exit
  <2>1. UNCHANGED <<config, children, qproc, nextId, inbox, daemon>>
    BY <1>2 DEF circd_check_exit, procs
  <2>2. quit' => quit \/ \A k \in DOMAIN children : children[k] = 0
    BY <1>2 DEF circd_check_exit
  <2>3. Processes'
    BY <2>1 DEF Children, Processes
  <2>4. Counted'
    BY <2>1 DEF Children, Counted, Serving, Wrappers
  <2>5. ExitsAfterChildren'
    BY <2>1, <2>2, NoChildren DEF Children, ExitsAfterChildren
  <2>6. QED
    BY <2>3, <2>4, <2>5 DEF Children
<1>3. QED
  BY <1>1, <1>2

LEMMA HeadIsPost ==
  ASSUME Processes, inbox # << >>
  PROVE  /\ Head(inbox) \in Post /\ Tail(inbox) \in Seq(Post)
         /\ Head(inbox).type = "start_daemon" => Id \in Circuit
         /\ Head(inbox).type = "child_exited" => Id \in Circuit /\ Arg \in {"q", "d"}
<1>1. Head(inbox) \in Post /\ Tail(inbox) \in Seq(Post)
  BY DEF Processes
<1>2. CASE Head(inbox) \in MsgType
  BY <1>1, <1>2 DEF MsgType, Id, Arg
<1>3. CASE Head(inbox) \notin MsgType
  BY <1>1, <1>3 DEF Post, Id, Arg
<1>4. QED
  BY <1>1, <1>2, <1>3

\* A handler that starts no child, and the message is not about the end of one
LEMMA TakenChildren ==
  ASSUME Children, NEW t, Handle(t), t # "child_exited", UNCHANGED <<config, children, qproc, nextId, quit, daemon>>
  PROVE  Children'
<1>1. inbox # << >> /\ inbox' = Tail(inbox) /\ Head(inbox).type # "child_exited"
  BY DEF Handle, Receives
<1>2. inbox \in Seq(Post) /\ inbox' \in Seq(Post)
  BY <1>1, HeadIsPost DEF Children, Processes
<1>3. ASSUME NEW c \in Circuit, NEW k \in {"q", "d"}
      PROVE  Cardinality(Ends(inbox', c, k)) = Cardinality(Ends(inbox, c, k))
  <2>1. ~ EndOf(Head(inbox), c, k) /\ Cardinality(Ends(inbox, c, k)) \in Nat
    BY <1>1, <1>2, EndsFinite DEF EndOf
  <2>2. Cardinality(Ends(inbox', c, k)) = Cardinality(Ends(inbox, c, k)) - 0
    BY <1>1, <1>2, <2>1, EndsTaken
  <2>3. QED
    BY <2>1, <2>2
<1>4. QED
  BY <1>2, <1>3, KeepsChildren, SameDaemons

LEMMA PlainHandlersChildren ==
  ASSUME Children,
         \/ handle_activate_circuit_message \/ handle_dialup_circuit_message
         \/ handle_hangup_or_deactivate_circuit_message("hangup", "active")
         \/ handle_hangup_or_deactivate_circuit_message("deactivate", "inactive")
         \/ handle_hangup_or_deactivate_circuit_message("fail", "failed")
         \/ handle_up_l3prot_circuit_event \/ handle_down_l3prot_circuit_event
         \/ handle_up_link_circuit_event \/ handle_down_link_circuit_event
         \/ handle_dialup_control_circuit_event \/ handle_hangup_control_circuit_event
         \/ handle_daemon_exited_circuit_event
         \/ handle_set_global_dialmode_message \/ handle_set_local_dialmode_message
  PROVE  Children'
<1> DEFINE Kept == UNCHANGED <<config, children, qproc, nextId, quit, daemon>>
<1>1. CASE handle_activate_circuit_message
  <2>1. Handle("activate") /\ Kept
    BY <1>1 DEF handle_activate_circuit_message, Calls, life, procs
  <2>2. QED
    BY <2>1, TakenChildren
<1>2. CASE handle_dialup_circuit_message
  <2>1. Handle("dialup") /\ Kept
    BY <1>2 DEF handle_dialup_circuit_message, Calls, life, procs
  <2>2. QED
    BY <2>1, TakenChildren
<1>3. ASSUME NEW t \in {"hangup", "deactivate", "fail"}, NEW s, handle_hangup_or_deactivate_circuit_message(t, s)
      PROVE  Children'
  <2>1. Handle(t) /\ Kept
    BY <1>3 DEF handle_hangup_or_deactivate_circuit_message, Calls, life, procs
  <2>2. QED
    BY <2>1, TakenChildren
<1>4. CASE handle_up_l3prot_circuit_event
  <2>1. Handle("up_l3prot") /\ Kept
    BY <1>4 DEF handle_up_l3prot_circuit_event, Calls, life, procs
  <2>2. QED
    BY <2>1, TakenChildren
<1>5. CASE handle_down_l3prot_circuit_event
  <2>1. Handle("down_l3prot") /\ Kept
    BY <1>5 DEF handle_down_l3prot_circuit_event, Calls, life, procs
  <2>2. QED
    BY <2>1, TakenChildren
<1>6. CASE handle_up_link_circuit_event
  <2>1. Handle("up_link") /\ Kept
    BY <1>6 DEF handle_up_link_circuit_event, Calls, life, procs
  <2>2. QED
    BY <2>1, TakenChildren
<1>7. CASE handle_down_link_circuit_event
  <2>1. Handle("down_link") /\ Kept
    BY <1>7 DEF handle_down_link_circuit_event, Calls, life, procs
  <2>2. QED
    BY <2>1, TakenChildren
<1>8. CASE handle_dialup_control_circuit_event
  <2>1. Handle("dial_failed") /\ Kept
    BY <1>8 DEF handle_dialup_control_circuit_event, Calls, life, procs
  <2>2. QED
    BY <2>1, TakenChildren
<1>9. CASE handle_hangup_control_circuit_event
  <2>1. Handle("hangup_failed") /\ Kept
    BY <1>9 DEF handle_hangup_control_circuit_event, Calls, life, procs
  <2>2. QED
    BY <2>1, TakenChildren
<1>10. CASE handle_daemon_exited_circuit_event
  <2>1. Handle("daemon_exited") /\ Kept
    BY <1>10 DEF handle_daemon_exited_circuit_event, life, procs
  <2>2. QED
    BY <2>1, TakenChildren
<1>11. CASE handle_set_global_dialmode_message
  <2>1. Handle("set_global") /\ Kept
    BY <1>11 DEF handle_set_global_dialmode_message, Calls, life, procs
  <2>2. QED
    BY <2>1, TakenChildren
<1>12. CASE handle_set_local_dialmode_message
  <2>1. Handle("set_local") /\ Kept
    BY <1>12 DEF handle_set_local_dialmode_message, Calls, life, procs
  <2>2. QED
    BY <2>1, TakenChildren
<1>13. QED
  BY <1>1, <1>2, <1>3, <1>4, <1>5, <1>6, <1>7, <1>8, <1>9, <1>10, <1>11, <1>12

\* circd_start_queue enters the new queue process in circd_children.
LEMMA AddChildren ==
  ASSUME Children, handle_create_circuit_message \/ handle_clone_circuit_message
  PROVE  Children'
<1>1. PICK t \in {"create", "clone"} : Handle(t)
  BY DEF handle_create_circuit_message, handle_clone_circuit_message
<1>2. CASE UNCHANGED <<config, children, qproc, nextId, quit, daemon>>
  BY <1>1, <1>2, TakenChildren
<1>3. CASE nextId <= NCircuits /\ \E up \in BOOLEAN : circd_circuit_add(up)
  <2>1. /\ UNCHANGED <<config, quit, daemon>> /\ nextId' = nextId + 1
        /\ More(nextId, "q", 1)
        /\ qproc' = [qproc EXCEPT ![nextId] = IF PromptQueue THEN "up" ELSE "starting"]
    BY <1>3 DEF circd_circuit_add, More
  <2>2. "q" \in {"q", "d"} /\ 1 \in Int /\ nextId \in Circuit /\ nextId \in Nat /\ NCircuits \in Nat
    BY <1>3, CircuitAssumption DEF Children, Processes, Circuit
  <2>3. inbox # << >> /\ inbox' = Tail(inbox) /\ Head(inbox).type # "child_exited" /\ ~ quit
    BY <1>1 DEF Handle, Receives
  <2>4. inbox \in Seq(Post) /\ inbox' \in Seq(Post)
    BY <2>3, HeadIsPost DEF Children, Processes
  <2>5. Processes'
    <3>1. children' \in [Circuit \X {"q", "d"} -> Int]
      BY <2>1, <2>2, ChildrenChange
    <3>2. qproc' \in [Circuit -> {"none", "starting", "up", "gone"}]
      BY <2>1, <2>2 DEF Children, Processes
    <3>3. nextId' \in 1..(NCircuits + 1)
      BY <1>3, <2>1, <2>2
    <3>4. ASSUME NEW c \in Circuit, c >= nextId' PROVE qproc'[c] = "none"
      <4>1. c \in Int /\ c >= nextId /\ c # nextId
        BY <3>4, <2>1, <2>2 DEF Circuit
      <4>2. QED
        BY <4>1, <2>1 DEF Children, Processes
    <3>5. QED
      BY <2>1, <2>4, <3>1, <3>2, <3>3, <3>4 DEF Children, Processes
  <2>6. Counted'
    <3>1. SUFFICES ASSUME NEW c \in Circuit
                   PROVE  /\ children'[<<c, "q">>] = Serving(c)' + Cardinality(Ends(inbox', c, "q"))
                          /\ children'[<<c, "d">>] = Cardinality(Wrappers(c)') + Cardinality(Ends(inbox', c, "d"))
      BY DEF Counted
    <3>2. ASSUME NEW k \in {"q", "d"}
          PROVE  Cardinality(Ends(inbox', c, k)) = Cardinality(Ends(inbox, c, k)) /\ Cardinality(Ends(inbox, c, k)) \in Nat
      <4>1. ~ EndOf(Head(inbox), c, k) /\ Cardinality(Ends(inbox, c, k)) \in Nat
        BY <2>3, <2>4, EndsFinite DEF EndOf
      <4>2. Cardinality(Ends(inbox', c, k)) = Cardinality(Ends(inbox, c, k)) - 0
        BY <2>3, <2>4, <4>1, EndsTaken
      <4>3. QED
        BY <4>1, <4>2
    <3>3. Wrappers(c)' = Wrappers(c)
      BY <2>1 DEF Wrappers
    <3>4. children'[<<c, "d">>] = children[<<c, "d">>] + 0 /\ children[<<c, "d">>] \in Int
      BY <2>1, <2>2, ChildrenChange DEF Children, Processes
    <3>5. children'[<<c, "q">>] = children[<<c, "q">>] + (IF c = nextId THEN 1 ELSE 0)
      BY <2>1, <2>2, ChildrenChange
    <3>6. Serving(c)' = Serving(c) + (IF c = nextId THEN 1 ELSE 0)
      <4>1. qproc[nextId] = "none" /\ qproc \in [Circuit -> {"none", "starting", "up", "gone"}]
        BY <2>2 DEF Children, Processes
      <4>2. QED
        BY <2>1, <2>2, <4>1 DEF Serving
    <3>7. Serving(c) \in Nat
      BY DEF Serving
    <3>8. children[<<c, "q">>] = Serving(c) + Cardinality(Ends(inbox, c, "q"))
          /\ children[<<c, "d">>] = Cardinality(Wrappers(c)) + Cardinality(Ends(inbox, c, "d"))
      BY DEF Children, Counted
    <3>9. QED
      BY <3>2, <3>3, <3>4, <3>5, <3>6, <3>7, <3>8
  <2>7. QED
    BY <2>1, <2>3, <2>5, <2>6 DEF Children, ExitsAfterChildren
<1>4. UNCHANGED <<config, children, qproc, nextId, quit, daemon>>
      \/ (nextId <= NCircuits /\ \E up \in BOOLEAN : circd_circuit_add(up))
  <2>1. CASE handle_create_circuit_message
    <3>1. CASE shutting \/ nextId > NCircuits \/ Origin[nextId] # 0
      BY <2>1, <3>1 DEF handle_create_circuit_message, Calls, life, procs
    <3>2. CASE ~ (shutting \/ nextId > NCircuits \/ Origin[nextId] # 0)
      <4>1. nextId <= NCircuits
        BY <3>2, CircuitAssumption DEF Children, Processes
      <4>2. circd_circuit_add(Arg = "up") /\ (Arg = "up") \in BOOLEAN
        BY <2>1, <3>2, Zenon DEF handle_create_circuit_message
      <4>3. QED
        BY <4>1, <4>2, Zenon
    <3>3. QED
      BY <3>1, <3>2
  <2>2. CASE handle_clone_circuit_message
    <3>1. CASE shutting \/ ~ Exists(Id) \/ nextId > NCircuits \/ Origin[nextId] # Id
      BY <2>2, <3>1 DEF handle_clone_circuit_message, Calls, life, procs
    <3>2. CASE ~ (shutting \/ ~ Exists(Id) \/ nextId > NCircuits \/ Origin[nextId] # Id)
      <4>1. nextId <= NCircuits
        BY <3>2, CircuitAssumption DEF Children, Processes
      <4>2. circd_circuit_add(TRUE) /\ TRUE \in BOOLEAN
        BY <2>2, <3>2, Zenon DEF handle_clone_circuit_message
      <4>3. QED
        BY <4>1, <4>2, Zenon
    <3>3. QED
      BY <3>1, <3>2
  <2>3. QED
    BY <2>1, <2>2
<1>5. QED
  BY <1>2, <1>3, <1>4

\* circd_daemon_wrapper is entered in circd_children by the handler that starts it.
LEMMA StartChildren ==
  ASSUME Children, handle_start_daemon_circuit_message
  PROVE  Children'
<1>1. CASE shutting \/ ~ Exists(Id)
  <2>1. Handle("start_daemon") /\ UNCHANGED <<config, children, qproc, nextId, quit, daemon>>
    BY <1>1 DEF handle_start_daemon_circuit_message, Calls, life, procs
  <2>2. QED
    BY <2>1, TakenChildren
<1>2. CASE ~ (shutting \/ ~ Exists(Id))
  <2>1. PICK p \in Pid :
          /\ daemon[p].st = "free"
          /\ daemon' = [daemon EXCEPT ![p] = [NoDaemon EXCEPT !.id = Id, !.st = "run"]]
          /\ More(Id, "d", 1)
          /\ UNCHANGED <<config, quit, nextId, qproc>>
    BY <1>2 DEF handle_start_daemon_circuit_message, More
  <2>2. inbox # << >> /\ inbox' = Tail(inbox) /\ Head(inbox).type = "start_daemon" /\ ~ quit
    BY DEF handle_start_daemon_circuit_message, Handle, Receives
  <2>3. inbox \in Seq(Post) /\ inbox' \in Seq(Post) /\ Id \in Circuit /\ "d" \in {"q", "d"} /\ 1 \in Int
    BY <2>2, HeadIsPost DEF Children, Processes
  <2>4. [NoDaemon EXCEPT !.id = Id, !.st = "run"] \in DaemonType
        /\ [NoDaemon EXCEPT !.id = Id, !.st = "run"].id = Id
        /\ [NoDaemon EXCEPT !.id = Id, !.st = "run"].st = "run"
    <3>1. Id \in 0..NCircuits
      BY <2>3, CircuitAssumption DEF Circuit
    <3> HIDE DEF Id
    <3>2. QED
      BY <3>1 DEF NoDaemon, DaemonType
  <2>5. daemon \in [Pid -> DaemonType] /\ children \in [Circuit \X {"q", "d"} -> Int]
    BY DEF Children, Processes
  <2>6. /\ daemon' \in [Pid -> DaemonType]
        /\ daemon'[p].id = Id /\ daemon'[p].st = "run"
        /\ \A r \in Pid \ {p} : daemon'[r] = daemon[r]
    BY <2>1, <2>4, <2>5
  <2>7. children' \in [Circuit \X {"q", "d"} -> Int]
    BY <2>1, <2>3, ChildrenChange
  <2>8. Processes'
    BY <2>1, <2>3, <2>6, <2>7 DEF Children, Processes
  <2>9. Counted'
    <3>1. SUFFICES ASSUME NEW c \in Circuit
                   PROVE  /\ children'[<<c, "q">>] = Serving(c)' + Cardinality(Ends(inbox', c, "q"))
                          /\ children'[<<c, "d">>] = Cardinality(Wrappers(c)') + Cardinality(Ends(inbox', c, "d"))
      BY DEF Counted
    <3>2. ASSUME NEW k \in {"q", "d"}
          PROVE  Cardinality(Ends(inbox', c, k)) = Cardinality(Ends(inbox, c, k)) /\ Cardinality(Ends(inbox, c, k)) \in Nat
      <4>1. ~ EndOf(Head(inbox), c, k) /\ Cardinality(Ends(inbox, c, k)) \in Nat
        BY <2>2, <2>3, EndsFinite DEF EndOf
      <4>2. Cardinality(Ends(inbox', c, k)) = Cardinality(Ends(inbox, c, k)) - 0
        BY <2>2, <2>3, <4>1, EndsTaken
      <4>3. QED
        BY <4>1, <4>2
    <3>3. IsFiniteSet(Wrappers(c)) /\ Cardinality(Wrappers(c)) \in Nat
      BY CircuitAssumption, FS_Subset, FS_CardinalityType DEF Wrappers
    <3>4. Cardinality(Wrappers(c)') = Cardinality(Wrappers(c)) + (IF c = Id THEN 1 ELSE 0)
      <4>1. p \notin Wrappers(c)
        BY <2>1 DEF Wrappers
      <4>2. Wrappers(c)' = IF c = Id THEN Wrappers(c) \cup {p} ELSE Wrappers(c)
        <5>1. \A r \in Pid : r \in Wrappers(c)' <=> (r \in Wrappers(c) \/ (r = p /\ c = Id))
          BY <2>6, <4>1 DEF Wrappers
        <5>2. Wrappers(c) \subseteq Pid /\ Wrappers(c)' \subseteq Pid
          BY DEF Wrappers
        <5>3. QED
          BY <5>1, <5>2
      <4>3. Cardinality(Wrappers(c) \cup {p}) = Cardinality(Wrappers(c)) + 1
        BY <3>3, <4>1, FS_AddElement
      <4>4. QED
        BY <3>3, <4>2, <4>3
    <3>5. children'[<<c, "q">>] = children[<<c, "q">>] + 0 /\ children[<<c, "q">>] \in Int
      BY <2>1, <2>3, <2>5, ChildrenChange
    <3>6. children'[<<c, "d">>] = children[<<c, "d">>] + (IF c = Id THEN 1 ELSE 0)
      BY <2>1, <2>3, ChildrenChange
    <3>7. Serving(c)' = Serving(c)
      BY <2>1 DEF Serving
    <3>8. children[<<c, "q">>] = Serving(c) + Cardinality(Ends(inbox, c, "q"))
          /\ children[<<c, "d">>] = Cardinality(Wrappers(c)) + Cardinality(Ends(inbox, c, "d"))
      BY DEF Children, Counted
    <3>9. QED
      BY <3>2, <3>3, <3>4, <3>5, <3>6, <3>7, <3>8
  <2>10. QED
    BY <2>1, <2>2, <2>8, <2>9 DEF Children, ExitsAfterChildren
<1>3. QED
  BY <1>1, <1>2

LEMMA StopDaemonChildren ==
  ASSUME Children, handle_stop_daemon_circuit_message
  PROVE  Children'
<1>1. CASE ~ Exists(Id) \/ term[Id] = NoPid
  <2>1. Handle("stop_daemon") /\ UNCHANGED <<config, children, qproc, nextId, quit, daemon>>
    BY <1>1 DEF handle_stop_daemon_circuit_message, Calls, life, procs
  <2>2. QED
    BY <2>1, TakenChildren
<1>2. CASE ~ (~ Exists(Id) \/ term[Id] = NoPid)
  <2>1. /\ daemon' = [daemon EXCEPT ![term[Id]].sig = TRUE]
        /\ UNCHANGED <<config, children, qproc, nextId, quit>>
    BY <1>2 DEF handle_stop_daemon_circuit_message, life
  <2>2. inbox # << >> /\ inbox' = Tail(inbox) /\ Head(inbox).type = "stop_daemon"
    BY DEF handle_stop_daemon_circuit_message, Handle, Receives
  <2>3. inbox \in Seq(Post) /\ inbox' \in Seq(Post) /\ daemon \in [Pid -> DaemonType]
    BY <2>2, HeadIsPost DEF Children, Processes
  <2>4. /\ daemon' \in [Pid -> DaemonType]
        /\ \A p \in Pid : daemon'[p].id = daemon[p].id /\ (daemon'[p].st = "free" <=> daemon[p].st = "free")
    BY <2>1, <2>3 DEF DaemonType
  <2>5. ASSUME NEW c \in Circuit, NEW k \in {"q", "d"}
        PROVE  Cardinality(Ends(inbox', c, k)) = Cardinality(Ends(inbox, c, k))
    <3>1. ~ EndOf(Head(inbox), c, k) /\ Cardinality(Ends(inbox, c, k)) \in Nat
      BY <2>2, <2>3, EndsFinite DEF EndOf
    <3>2. Cardinality(Ends(inbox', c, k)) = Cardinality(Ends(inbox, c, k)) - 0
      BY <2>2, <2>3, <3>1, EndsTaken
    <3>3. QED
      BY <3>1, <3>2
  <2>6. QED
    BY <2>1, <2>3, <2>4, <2>5, KeepsChildren
<1>3. QED
  BY <1>1, <1>2

LEMMA StopServiceChildren ==
  ASSUME Children, handle_stop_service_message
  PROVE  Children'
<1> DEFINE all == InOrder({c \in Circuit : Exists(c)})
           rest == IF shutting THEN << >> ELSE [i \in 1..Len(all) |-> Msg("deactivate", all[i], "")]
<1>1. /\ inbox # << >> /\ Head(inbox).type = "stop_service" /\ inbox' = Tail(inbox) \o rest
      /\ UNCHANGED <<config, children, qproc, nextId, quit, daemon>>
  BY DEF handle_stop_service_message, Receives, procs
<1>2. rest \in Seq(Post) /\ NoEnds(rest)
  <2>1. CASE shutting
    BY <2>1 DEF NoEnds
  <2>2. CASE ~ shutting
    <3>1. Len(all) \in Nat /\ \A i \in 1..Len(all) : all[i] \in Circuit
      BY InOrderIsOf
    <3>2. \A c \in Circuit : Msg("deactivate", c, "") \in Post
      <4>1. \A c \in Circuit : Msg("deactivate", c, "") \in MsgType
        BY MessagesAreTyped
      <4>2. QED
        BY <4>1 DEF Post
    <3>3. rest = [i \in 1..Len(all) |-> Msg("deactivate", all[i], "")]
      BY <2>2
    <3> HIDE DEF all, rest
    <3>4. rest \in [1..Len(all) -> Post]
      BY <3>1, <3>2, <3>3
    <3>5. rest \in Seq(Post) /\ Len(rest) = Len(all)
      BY <3>1, <3>4
    <3>6. QED
      BY <3>3, <3>5 DEF Msg, NoEnds
  <2>3. QED
    BY <2>1, <2>2
<1> HIDE DEF rest
<1>3. inbox \in Seq(Post) /\ Tail(inbox) \in Seq(Post) /\ inbox' \in Seq(Post)
  BY <1>1, <1>2, HeadIsPost DEF Children, Processes
<1>4. ASSUME NEW c \in Circuit, NEW k \in {"q", "d"}
      PROVE  Cardinality(Ends(inbox', c, k)) = Cardinality(Ends(inbox, c, k))
  <2>1. ~ EndOf(Head(inbox), c, k) /\ Cardinality(Ends(inbox, c, k)) \in Nat
    BY <1>1, <1>3, EndsFinite DEF EndOf
  <2>2. Cardinality(Ends(Tail(inbox), c, k)) = Cardinality(Ends(inbox, c, k)) - 0
    BY <1>1, <1>3, <2>1, EndsTaken
  <2>3. Cardinality(Ends(Tail(inbox) \o rest, c, k)) = Cardinality(Ends(Tail(inbox), c, k))
    <3>1. PICK s \in Seq(Post), t \in Seq(Post) : s = Tail(inbox) /\ t = rest /\ NoEnds(t)
      BY <1>2, <1>3
    <3>2. NoEnds(t)
      BY <3>1
    <3>3. Cardinality(Ends(s \o t, c, k)) = Cardinality(Ends(s, c, k))
      BY <3>2, EndsJoined
    <3>4. QED
      BY <3>1, <3>3
  <2>4. QED
    BY <1>1, <2>1, <2>2, <2>3
<1>5. QED
  BY <1>1, <1>3, <1>4, KeepsChildren, SameDaemons

LEMMA ExitedChildren ==
  ASSUME Children, handle_child_exited_circd_event
  PROVE  Children'
<1>1. /\ inbox # << >> /\ Head(inbox).type = "child_exited" /\ inbox' = Tail(inbox) /\ ~ quit
      /\ children' = [children EXCEPT ![<<Id, Arg>>] = @ - 1]
      /\ UNCHANGED <<config, qproc, nextId, quit, daemon>>
  BY DEF handle_child_exited_circd_event, Handle, Receives, procs
<1>2. inbox \in Seq(Post) /\ inbox' \in Seq(Post) /\ Id \in Circuit /\ Arg \in {"q", "d"}
  BY <1>1, HeadIsPost DEF Children, Processes
<1>3. children \in [Circuit \X {"q", "d"} -> Int]
  BY DEF Children, Processes
<1>4. /\ children' \in [Circuit \X {"q", "d"} -> Int]
      /\ \A c \in Circuit, k \in {"q", "d"} :
           children'[<<c, k>>] = children[<<c, k>>] - (IF c = Id /\ k = Arg THEN 1 ELSE 0)
  <2>1. children[<<Id, Arg>>] - 1 = children[<<Id, Arg>>] + (-1) /\ -1 \in Int
    BY <1>2, <1>3
  <2>2. More(Id, Arg, -1)
    BY <1>1, <2>1 DEF More
  <2>3. /\ children' \in [Circuit \X {"q", "d"} -> Int]
        /\ \A c \in Circuit, k \in {"q", "d"} :
             children'[<<c, k>>] = children[<<c, k>>] + (IF c = Id /\ k = Arg THEN -1 ELSE 0)
    BY <1>2, <2>1, <2>2, ChildrenChange
  <2>4. \A c \in Circuit, k \in {"q", "d"} : children[<<c, k>>] \in Int
    BY <1>3
  <2> HIDE DEF Id, Arg
  <2>5. QED
    BY <2>3, <2>4
<1>5. ASSUME NEW c \in Circuit, NEW k \in {"q", "d"}
      PROVE  /\ Cardinality(Ends(inbox', c, k)) =
                Cardinality(Ends(inbox, c, k)) - (IF c = Id /\ k = Arg THEN 1 ELSE 0)
             /\ Cardinality(Ends(inbox, c, k)) \in Nat
  <2>1. EndOf(Head(inbox), c, k) <=> c = Id /\ k = Arg
    BY <1>1 DEF EndOf, Id, Arg
  <2>2. QED
    BY <1>1, <1>2, <2>1, EndsTaken, EndsFinite
<1>6. Processes'
  BY <1>1, <1>2, <1>4 DEF Children, Processes
<1>7. Counted'
  <2>1. SUFFICES ASSUME NEW c \in Circuit
                 PROVE  /\ children'[<<c, "q">>] = Serving(c)' + Cardinality(Ends(inbox', c, "q"))
                        /\ children'[<<c, "d">>] = Cardinality(Wrappers(c)') + Cardinality(Ends(inbox', c, "d"))
    BY DEF Counted
  <2>2. Serving(c)' = Serving(c) /\ Wrappers(c)' = Wrappers(c) /\ Serving(c) \in Nat
    BY <1>1 DEF Serving, Wrappers
  <2>3. IsFiniteSet(Wrappers(c)) /\ Cardinality(Wrappers(c)) \in Nat
    BY CircuitAssumption, FS_Subset, FS_CardinalityType DEF Wrappers
  <2>4. children[<<c, "q">>] = Serving(c) + Cardinality(Ends(inbox, c, "q"))
        /\ children[<<c, "d">>] = Cardinality(Wrappers(c)) + Cardinality(Ends(inbox, c, "d"))
    BY DEF Children, Counted
  <2>5. children'[<<c, "q">>] = Serving(c)' + Cardinality(Ends(inbox', c, "q"))
    BY <1>4, <1>5, <2>2, <2>4
  <2>6. children'[<<c, "d">>] = Cardinality(Wrappers(c)') + Cardinality(Ends(inbox', c, "d"))
    BY <1>4, <1>5, <2>2, <2>3, <2>4
  <2>7. QED
    BY <2>5, <2>6
<1>8. QED
  BY <1>1, <1>6, <1>7 DEF Children, ExitsAfterChildren

\* A message to circd that is not about the end of a child
LEMMA SentChildren ==
  ASSUME Children, NEW m \in Post, m.type # "child_exited", Send(m) \/ UNCHANGED inbox,
         UNCHANGED <<config, children, qproc, nextId, quit>>, daemon' \in [Pid -> DaemonType],
         \A p \in Pid : daemon'[p].id = daemon[p].id /\ (daemon'[p].st = "free" <=> daemon[p].st = "free")
  PROVE  Children'
<1>1. inbox \in Seq(Post)
  BY DEF Children, Processes
<1>2. CASE UNCHANGED inbox
  BY <1>1, <1>2, KeepsChildren
<1>3. CASE Send(m)
  <2>1. inbox' = Append(inbox, m) /\ inbox' \in Seq(Post)
    BY <1>1, <1>3 DEF Send
  <2>2. ASSUME NEW c \in Circuit, NEW k \in {"q", "d"}
        PROVE  Cardinality(Ends(inbox', c, k)) = Cardinality(Ends(inbox, c, k))
    <3>1. ~ EndOf(m, c, k) /\ Cardinality(Ends(inbox, c, k)) \in Nat
      BY <1>1, EndsFinite DEF EndOf
    <3>2. Cardinality(Ends(inbox', c, k)) = Cardinality(Ends(inbox, c, k)) + 0
      BY <1>1, <2>1, <3>1, EndsSent
    <3>3. QED
      BY <3>1, <3>2
  <2>3. QED
    BY <2>1, <2>2, KeepsChildren
<1>4. QED
  BY <1>2, <1>3

LEMMA PostIs ==
  /\ \A c \in Circuit : \A t \in {"start_daemon", "stop_daemon", "up_link", "dial_failed", "hangup_failed"} :
       Msg(t, c, "") \in Post /\ Msg(t, c, "").type # "child_exited"
  /\ \A c \in Circuit : \A t \in {"up_l3prot", "down_l3prot"} : \A q \in Prot :
       Msg(t, c, q) \in Post /\ Msg(t, c, q).type # "child_exited"
  /\ \A c \in Circuit : \A f \in {"", "force"} :
       Msg("down_link", c, f) \in Post /\ Msg("down_link", c, f).type # "child_exited"
  /\ \A c \in Circuit : \A k \in {"q", "d"} : Msg("child_exited", c, k) \in Post
  /\ \A c \in Circuit : \A p \in Pid :
       PidMsg("daemon_exited", c, p) \in Post /\ PidMsg("daemon_exited", c, p).type # "child_exited"
<1>1. MsgType \subseteq Post
  BY DEF Post
<1>2. \A c \in Circuit : \A t \in {"start_daemon", "stop_daemon", "up_link"} :
        Msg(t, c, "") \in Post /\ Msg(t, c, "").type # "child_exited"
  <2> TAKE c \in Circuit
  <2> TAKE t \in {"start_daemon", "stop_daemon", "up_link"}
  <2>1. Msg(t, c, "") \in MsgType
    BY MessagesAreTyped
  <2>2. QED
    BY <1>1, <2>1 DEF Msg
<1>3. \A c \in Circuit : \A t \in {"dial_failed", "hangup_failed"} :
        Msg(t, c, "") \in Post /\ Msg(t, c, "").type # "child_exited"
  BY DEF Post, Msg
<1>4. \A c \in Circuit : \A t \in {"up_l3prot", "down_l3prot"} : \A q \in Prot :
        Msg(t, c, q) \in Post /\ Msg(t, c, q).type # "child_exited"
  BY <1>1, MessagesAreTyped DEF Msg
<1>5. \A c \in Circuit : \A f \in {"", "force"} :
        Msg("down_link", c, f) \in Post /\ Msg("down_link", c, f).type # "child_exited"
  BY <1>1, MessagesAreTyped DEF Msg
<1>6. \A c \in Circuit : \A k \in {"q", "d"} : Msg("child_exited", c, k) \in Post
  BY <1>1, MessagesAreTyped
<1>7. \A c \in Circuit : \A p \in Pid :
        PidMsg("daemon_exited", c, p) \in Post /\ PidMsg("daemon_exited", c, p).type # "child_exited"
  BY <1>1, MessagesAreTyped DEF PidMsg
<1>8. QED
  BY <1>2, <1>3, <1>4, <1>5, <1>6, <1>7

LEMMA QueueChildren ==
  ASSUME Children, NEW c \in Circuit, QueueProcess(c)
  PROVE  Children'
<1>1. CASE QueueReady(c)
  <2>1. /\ qproc[c] = "starting" /\ qproc' = [qproc EXCEPT ![c] = "up"]
        /\ UNCHANGED <<config, children, nextId, quit, inbox, daemon>>
    BY <1>1 DEF QueueReady, life
  <2>2. \A d \in Circuit : Serving(d)' = Serving(d) /\ Wrappers(d)' = Wrappers(d)
    BY <2>1 DEF Children, Processes, Serving, Wrappers
  <2>3. Processes'
    BY <2>1 DEF Children, Processes
  <2>4. Counted'
    BY <2>1, <2>2 DEF Children, Counted
  <2>5. ~ quit
    BY <2>1 DEF Children, ExitsAfterChildren
  <2>6. QED
    BY <2>1, <2>3, <2>4, <2>5 DEF Children, ExitsAfterChildren
<1>2. CASE handle_dialup_circuit_queue_message(c) \/ handle_hangup_circuit_queue_message(c)
  <2>1. /\ UNCHANGED <<config, children, qproc, nextId, quit, daemon>>
        /\ UNCHANGED inbox \/ Send(Msg("start_daemon", c, "")) \/ Send(Msg("stop_daemon", c, ""))
    BY <1>2 DEF handle_dialup_circuit_queue_message, handle_hangup_circuit_queue_message,
       Unqueue, life, route_dial, route_hangup, pppd_dial, circuit_daemon_wrapper,
       circuit_daemon_terminate
  <2>2. QED
    BY <2>1, SentChildren, SameDaemons, PostIs
<1>3. CASE DialFails(c) \/ HangupFails(c)
  <2>1. /\ UNCHANGED <<config, children, qproc, nextId, quit, daemon>>
        /\ Send(Msg("dial_failed", c, "")) \/ Send(Msg("hangup_failed", c, ""))
    BY <1>3 DEF DialFails, HangupFails, Unqueue, life
  <2>2. QED
    BY <2>1, SentChildren, SameDaemons, PostIs
<1>4. CASE handle_quit_circuit_queue_message(c)
  <2> DEFINE m == Msg("child_exited", c, "q")
  <2>1. /\ qproc[c] = "up" /\ qproc' = [qproc EXCEPT ![c] = "gone"] /\ inbox' = Append(inbox, m)
        /\ UNCHANGED <<config, children, nextId, quit, daemon>>
    BY <1>4 DEF handle_quit_circuit_queue_message, Unqueue, Send, life
  <2>2. m \in Post /\ inbox \in Seq(Post) /\ inbox' \in Seq(Post)
    <3>1. m \in Post /\ inbox \in Seq(Post)
      BY PostIs DEF Children, Processes
    <3> HIDE DEF m
    <3>2. QED
      BY <2>1, <3>1
  <2>3. ASSUME NEW d \in Circuit, NEW k \in {"q", "d"}
        PROVE  /\ Cardinality(Ends(inbox', d, k)) =
                  Cardinality(Ends(inbox, d, k)) + (IF d = c /\ k = "q" THEN 1 ELSE 0)
               /\ Cardinality(Ends(inbox, d, k)) \in Nat
    <3>1. EndOf(m, d, k) <=> d = c /\ k = "q"
      BY DEF EndOf, Msg
    <3> HIDE DEF m
    <3>2. QED
      BY <2>1, <2>2, <3>1, EndsSent, EndsFinite
  <2>4. Processes'
    BY <2>1, <2>2 DEF Children, Processes
  <2>5. Counted'
    <3>1. SUFFICES ASSUME NEW d \in Circuit
                   PROVE  /\ children'[<<d, "q">>] = Serving(d)' + Cardinality(Ends(inbox', d, "q"))
                          /\ children'[<<d, "d">>] = Cardinality(Wrappers(d)') + Cardinality(Ends(inbox', d, "d"))
      BY DEF Counted
    <3>2. Serving(d)' = Serving(d) - (IF d = c THEN 1 ELSE 0) /\ Serving(d) \in Nat
      BY <2>1 DEF Children, Processes, Serving
    <3>3. Wrappers(d)' = Wrappers(d)
      BY <2>1 DEF Wrappers
    <3>4. children[<<d, "q">>] = Serving(d) + Cardinality(Ends(inbox, d, "q"))
          /\ children[<<d, "d">>] = Cardinality(Wrappers(d)) + Cardinality(Ends(inbox, d, "d"))
      BY DEF Children, Counted
    <3>5. children'[<<d, "q">>] = Serving(d)' + Cardinality(Ends(inbox', d, "q"))
      BY <2>1, <2>3, <3>2, <3>4
    <3>6. Cardinality(Ends(inbox', d, "d")) = Cardinality(Ends(inbox, d, "d"))
      BY <2>3
    <3>7. QED
      BY <2>1, <3>3, <3>4, <3>5, <3>6
  <2>6. ~ quit
    BY <2>1 DEF Children, ExitsAfterChildren
  <2>7. QED
    BY <2>1, <2>4, <2>5, <2>6 DEF Children, ExitsAfterChildren
<1>5. QED
  BY <1>1, <1>2, <1>3, <1>4 DEF QueueProcess

LEMMA ScriptChildren ==
  ASSUME Children, NEW c \in Circuit, NEW k \in {"up", "down"}, NEW q \in Prot, IpScript(c, k, q)
  PROVE  Children'
<1>1. /\ UNCHANGED <<config, children, qproc, nextId, quit, daemon>>
      /\ UNCHANGED inbox \/ Send(Msg("up_l3prot", c, q)) \/ Send(Msg("down_l3prot", c, q))
  BY DEF IpScript, life
<1>2. QED
  BY <1>1, SentChildren, SameDaemons, PostIs

LEMMA RequestChildren ==
  ASSUME Children, NEW m \in Requests, Request(m)
  PROVE  Children'
<1>1. m \in RequestMsg
  BY ConfigAssumption DEF Children, Processes, Requests
<1>2. m \in Post /\ m.type # "child_exited"
  <2>1. m \in MsgType
    BY <1>1, RequestsAreTyped
  <2>2. m.type # "child_exited"
    BY <1>1 DEF RequestMsg
  <2>3. QED
    BY <2>1, <2>2 DEF Post
<1>3. UNCHANGED <<config, children, qproc, nextId, quit, daemon>> /\ Send(m)
  BY DEF Request, life, procs
<1>4. QED
  BY <1>2, <1>3, SentChildren, SameDaemons

\* What a running daemon does
LEMMA DaemonChildren ==
  ASSUME Children, NEW p \in Pid, NEW q \in Prot \cup {Link}, NEW f \in {"", "force"},
         DaemonUp(p, q) \/ DaemonDown(p, q, f) \/ DaemonExit(p) \/ DaemonCrash(p)
  PROVE  Children'
<1>1. UNCHANGED <<config, children, qproc, nextId, quit>> /\ daemon[p].st = "run"
  BY DEF DaemonUp, DaemonDown, DaemonExit, DaemonCrash, DaemonStep, life
<1>2. daemon \in [Pid -> DaemonType] /\ daemon[p].id \in Circuit
  BY <1>1 DEF Children, Processes
<1>3. \/ \E s \in {"idle", "up", "down"} : daemon' = [daemon EXCEPT ![p].link[q] = s]
      \/ daemon' = [daemon EXCEPT ![p].st = "exiting"]
  BY DEF DaemonUp, DaemonDown, DaemonExit, DaemonCrash
<1>4. /\ daemon' \in [Pid -> DaemonType]
      /\ \A r \in Pid : daemon'[r].id = daemon[r].id /\ (daemon'[r].st = "free" <=> daemon[r].st = "free")
  <2>1. CASE daemon' = [daemon EXCEPT ![p].st = "exiting"]
    BY <1>1, <1>2, <2>1 DEF DaemonType
  <2>2. ASSUME NEW s \in {"idle", "up", "down"}, daemon' = [daemon EXCEPT ![p].link[q] = s]
        PROVE  <1>4!2 /\ <1>4!1
    BY <1>2, <2>2 DEF DaemonType
  <2>3. QED
    BY <1>3, <2>1, <2>2
<1>5. \E m \in Post : m.type # "child_exited" /\ Send(m)
  <2> DEFINE c == daemon[p].id
  <2>1. CASE q = Link
    <3>1. \/ Send(Msg("up_link", c, "")) \/ Send(Msg("down_link", c, f)) \/ Send(PidMsg("daemon_exited", c, p))
      BY <2>1 DEF DaemonUp, DaemonDown, DaemonExit, DaemonCrash
    <3>2. QED
      BY <1>2, <3>1, PostIs
  <2>2. CASE q # Link
    <3>1. q \in Prot
      BY <2>2
    <3>2. \/ Send(Msg("up_l3prot", c, q)) \/ Send(Msg("down_l3prot", c, q)) \/ Send(PidMsg("daemon_exited", c, p))
      BY <2>2 DEF DaemonUp, DaemonDown, DaemonExit, DaemonCrash
    <3>3. QED
      BY <1>2, <3>1, <3>2, PostIs
  <2>3. QED
    BY <2>1, <2>2
<1>6. QED
  BY <1>1, <1>4, <1>5, SentChildren

\* The wrapper of a daemon ends, and says so.
LEMMA WrapperChildren ==
  ASSUME Children, NEW p \in Pid, WrapperExit(p)
  PROVE  Children'
<1> DEFINE c == daemon[p].id
           m == Msg("child_exited", c, "d")
<1>1. /\ daemon[p].st = "exiting" /\ daemon' = [daemon EXCEPT ![p] = NoDaemon]
      /\ inbox' = Append(inbox, m) /\ UNCHANGED <<config, children, qproc, nextId, quit>>
  BY DEF WrapperExit, Send, life
<1>2. c \in Circuit /\ daemon \in [Pid -> DaemonType] /\ inbox \in Seq(Post)
  BY <1>1 DEF Children, Processes
<1>3. m \in Post /\ inbox' \in Seq(Post)
  <2>1. m \in Post
    BY <1>2, PostIs
  <2> HIDE DEF m
  <2>2. QED
    BY <1>1, <1>2, <2>1
<1>4. NoDaemon \in DaemonType /\ NoDaemon.st = "free"
  BY CircuitAssumption DEF NoDaemon, DaemonType
<1>5. daemon' \in [Pid -> DaemonType] /\ daemon'[p].st = "free" /\ \A r \in Pid \ {p} : daemon'[r] = daemon[r]
  BY <1>1, <1>2, <1>4
<1>6. ASSUME NEW d \in Circuit, NEW k \in {"q", "d"}
      PROVE  /\ Cardinality(Ends(inbox', d, k)) =
                Cardinality(Ends(inbox, d, k)) + (IF d = c /\ k = "d" THEN 1 ELSE 0)
             /\ Cardinality(Ends(inbox, d, k)) \in Nat
  <2>1. EndOf(m, d, k) <=> d = c /\ k = "d"
    BY DEF EndOf, Msg
  <2> HIDE DEF m
  <2>2. QED
    BY <1>1, <1>2, <1>3, <2>1, EndsSent, EndsFinite
<1>7. Processes'
  BY <1>1, <1>3, <1>5 DEF Children, Processes
<1>8. Counted'
  <2>1. SUFFICES ASSUME NEW d \in Circuit
                 PROVE  /\ children'[<<d, "q">>] = Serving(d)' + Cardinality(Ends(inbox', d, "q"))
                        /\ children'[<<d, "d">>] = Cardinality(Wrappers(d)') + Cardinality(Ends(inbox', d, "d"))
    BY DEF Counted
  <2>2. Serving(d)' = Serving(d)
    BY <1>1 DEF Serving
  <2>3. IsFiniteSet(Wrappers(d)) /\ Cardinality(Wrappers(d)) \in Nat
    BY CircuitAssumption, FS_Subset, FS_CardinalityType DEF Wrappers
  <2>4. Wrappers(d)' = Wrappers(d) \ {p}
    <3>1. \A r \in Pid : r \in Wrappers(d)' <=> (r \in Wrappers(d) /\ r # p)
      BY <1>5 DEF Wrappers
    <3>2. Wrappers(d) \subseteq Pid /\ Wrappers(d)' \subseteq Pid
      BY DEF Wrappers
    <3>3. QED
      BY <3>1, <3>2
  <2>5. p \in Wrappers(d) <=> d = c
    BY <1>1 DEF Wrappers
  <2>6. Cardinality(Wrappers(d)') = Cardinality(Wrappers(d)) - (IF d = c THEN 1 ELSE 0)
    <3>1. Cardinality(Wrappers(d) \ {p}) =
          IF p \in Wrappers(d) THEN Cardinality(Wrappers(d)) - 1 ELSE Cardinality(Wrappers(d))
      BY <2>3, FS_RemoveElement
    <3>2. QED
      BY <2>3, <2>4, <2>5, <3>1
  <2>7. children[<<d, "q">>] = Serving(d) + Cardinality(Ends(inbox, d, "q"))
        /\ children[<<d, "d">>] = Cardinality(Wrappers(d)) + Cardinality(Ends(inbox, d, "d"))
    BY DEF Children, Counted
  <2>8. Cardinality(Ends(inbox', d, "q")) = Cardinality(Ends(inbox, d, "q"))
    BY <1>6
  <2>9. children'[<<d, "d">>] = Cardinality(Wrappers(d)') + Cardinality(Ends(inbox', d, "d"))
    BY <1>1, <1>6, <2>3, <2>6, <2>7
  <2>10. QED
    BY <1>1, <2>2, <2>7, <2>8, <2>9
<1>9. ~ quit
  BY <1>1 DEF Children, ExitsAfterChildren
<1>10. QED
  BY <1>1, <1>7, <1>8, <1>9 DEF Children, ExitsAfterChildren

LEMMA HandlersChildren ==
  ASSUME Children, Handlers
  PROVE  Children'
  BY PlainHandlersChildren, AddChildren, StartChildren, StopDaemonChildren,
     StopServiceChildren, ExitedChildren DEF Handlers

LEMMA NextChildren ==
  ASSUME Children, [Next]_vars
  PROVE  Children'
<1>1. CASE Circd
  BY <1>1, FunctionsChildren, HandlersChildren DEF Circd
<1>2. CASE \E c \in Circuit : QueueProcess(c) \/ \E k \in {"up", "down"}, q \in Prot : IpScript(c, k, q)
  BY <1>2, QueueChildren, ScriptChildren
<1>3. CASE \E p \in Pid : \/ \E q \in Prot \cup {Link} :
                               DaemonUp(p, q) \/ \E f \in {"", "force"} : DaemonDown(p, q, f)
                          \/ DaemonExit(p) \/ DaemonCrash(p) \/ WrapperExit(p)
  BY <1>3, DaemonChildren, WrapperChildren
<1>4. CASE \E m \in Requests : Request(m)
  BY <1>4, RequestChildren
<1>5. CASE UNCHANGED vars
  <2>1. UNCHANGED <<config, children, qproc, nextId, quit, inbox, daemon>>
    BY <1>5 DEF vars, life, procs
  <2>2. QED
    BY <2>1, KeepsChildren, SameDaemons DEF Children, Processes
<1>6. QED
  BY <1>1, <1>2, <1>3, <1>4, <1>5 DEF Next

LEMMA InitChildren ==
  ASSUME Init
  PROVE  Children
<1>1. Typed
  BY InitTyped
<1>2. /\ inbox = << >> /\ quit = FALSE /\ nextId = Initial + 1
      /\ children = [k \in Circuit \X {"q", "d"} |-> IF k[1] \in 1..Initial /\ k[2] = "q" THEN 1 ELSE 0]
      /\ qproc = [c \in Circuit |-> IF c \notin 1..Initial THEN "none" ELSE IF PromptQueue THEN "up" ELSE "starting"]
      /\ daemon = [p \in Pid |-> NoDaemon]
  BY DEF Init
<1>3. Initial \in 0..NCircuits /\ NCircuits \in Nat
  BY ConfigAssumption, CircuitAssumption DEF Init, Initial
<1>4. Processes
  <2>1. inbox \in Seq(Post)
    BY <1>2
  <2>2. children \in [Circuit \X {"q", "d"} -> Int]
    BY <1>2
  <2>3. qproc \in [Circuit -> {"none", "starting", "up", "gone"}]
    BY <1>2
  <2>4. ASSUME NEW c \in Circuit, c >= nextId PROVE qproc[c] = "none"
    <3>1. c \notin 1..Initial
      BY <2>4, <1>2, <1>3 DEF Circuit
    <3>2. QED
      BY <1>2, <3>1
  <2>5. QED
    BY <1>1, <2>1, <2>2, <2>3, <2>4 DEF Typed, Processes
<1>5. Counted
  <2>1. SUFFICES ASSUME NEW c \in Circuit
                 PROVE  /\ children[<<c, "q">>] = Serving(c) + Cardinality(Ends(inbox, c, "q"))
                        /\ children[<<c, "d">>] = Cardinality(Wrappers(c)) + Cardinality(Ends(inbox, c, "d"))
    BY DEF Counted
  <2>2. Ends(inbox, c, "q") = {} /\ Ends(inbox, c, "d") = {}
    BY <1>2 DEF Ends
  <2>3. Wrappers(c) = {}
    BY <1>2 DEF Wrappers, NoDaemon
  <2>4. Cardinality({}) = 0
    BY FS_EmptySet
  <2>5. children[<<c, "d">>] = 0 /\ children[<<c, "q">>] = IF c \in 1..Initial THEN 1 ELSE 0
    BY <1>2
  <2>6. Serving(c) = IF c \in 1..Initial THEN 1 ELSE 0
    BY <1>2 DEF Serving
  <2>7. QED
    BY <2>2, <2>3, <2>4, <2>5, <2>6
<1>6. QED
  BY <1>2, <1>4, <1>5 DEF Children, ExitsAfterChildren

\* In every configuration, also if control scripts fail and daemons crash: circd_children
\* has one entry for each queue process and each daemon wrapper that circd has started and
\* whose end it has not been told, so that circd_check_exit leaves the message loop only
\* after the last of them.
THEOREM ChildrenEndFirst == Spec => []ExitsAfterChildren
<1>1. Init => Children
  BY InitChildren
<1>2. Children /\ [Next]_vars => Children'
  BY NextChildren
<1>3. Children => ExitsAfterChildren
  BY DEF Children
<1>4. QED
  BY <1>1, <1>2, <1>3, PTL DEF Spec

-----------------------------------------------------------------------------
(* Types                                                                   *)

RefsType == refs \in [Circuit -> Nat]
FlagType == shutting \in BOOLEAN /\ quit \in BOOLEAN /\ translated \in [Circuit -> BOOLEAN]
SentType == sent \in 0..MaxRequests

LEMMA UnrefType ==
  ASSUME IInv, RefsType, circd_unref
  PROVE  RefsType'
<1>1. Typed /\ Shape /\ Refs /\ stack # << >> /\ Frame.call = "unref" /\ stack \in Seq(CallType)
  BY DEF IInv, Typed, circd_unref, Running
<1>2. Frame.id \in Circuit /\ Frame = stack[1] /\ 1 \in 1..Len(stack)
  BY <1>1, FrameFacts, FrameIsFirst
<1> DEFINE c == Frame.id
<1>3. HasCall("unref", c) /\ Exists(c) /\ Dropping(c) \in {1, 2}
  <2>1. HasCall("unref", c)
    BY <1>1, <1>2 DEF HasCall
  <2>2. QED
    BY <1>1, <1>2, <2>1, DroppingCounts DEF Refs
<1>4. refs[c] = Cardinality(Unreported(c)) + Dropping(c) + Own(c) /\ Cardinality(Unreported(c)) \in Nat /\ Own(c) \in Nat
  BY <1>1, <1>2, <1>3, UnreportedType DEF Refs, Own
<1>5. refs[c] - 1 \in Nat
  BY <1>3, <1>4
<1>6. refs' = [refs EXCEPT ![c] = refs[c] - 1]
  BY <1>3 DEF circd_unref
<1>7. QED
  BY <1>5, <1>6 DEF RefsType

LEMMA AddType ==
  ASSUME Typed, RefsType, handle_create_circuit_message \/ handle_clone_circuit_message
  PROVE  RefsType'
<1>1. UNCHANGED refs \/ refs' = [refs EXCEPT ![nextId] = 1]
  BY DEF handle_create_circuit_message, handle_clone_circuit_message, circd_circuit_add,
     Calls, conf
<1>2. QED
  BY <1>1 DEF RefsType

LEMMA StartType ==
  ASSUME Typed, RefsType, handle_start_daemon_circuit_message
  PROVE  RefsType'
<1>1. UNCHANGED refs \/ refs' = [refs EXCEPT ![Id] = refs[Id] + 1]
  BY DEF handle_start_daemon_circuit_message, Calls, conf
<1>2. QED
  BY <1>1 DEF RefsType

LEMMA FunctionsTypes ==
  ASSUME IInv, RefsType, FlagType, Functions
  PROVE  RefsType' /\ FlagType' /\ UNCHANGED <<sent, config>>
<1>1. CASE circd_change_state \/ circd_handle_state_change
  <2>1. UNCHANGED <<refs, shutting, quit, translated, sent, config>>
    BY <1>1 DEF circd_change_state, circd_handle_state_change, conf, life, procs
  <2>2. QED
    BY <2>1 DEF RefsType, FlagType
<1>2. CASE circd_initiate_dialup \/ circd_initiate_hangup \/ circd_stop_queue \/ ClearOperation
  <2>1. UNCHANGED <<refs, shutting, quit, translated, sent, config>>
    BY <1>2 DEF circd_initiate_dialup, circd_initiate_hangup, circd_stop_queue,
       ClearOperation, conf, life, procs
  <2>2. QED
    BY <2>1 DEF RefsType, FlagType
<1>3. CASE circd_finalize_hangup \/ HungUp \/ circd_circuit_remove \/ EffectiveDialmodeChange
  <2>1. UNCHANGED <<refs, shutting, quit, translated, sent, config>>
    BY <1>3 DEF circd_finalize_hangup, HungUp, circd_circuit_remove,
       EffectiveDialmodeChange, conf, life, procs
  <2>2. QED
    BY <2>1 DEF RefsType, FlagType
<1>4. CASE circd_unref
  <2>1. UNCHANGED <<shutting, quit, translated, sent, config>>
    BY <1>4 DEF circd_unref, life, procs
  <2>2. QED
    BY <1>4, <2>1, UnrefType DEF FlagType
<1>5. CASE circd_check_exit
  <2>1. UNCHANGED <<refs, shutting, translated, sent, config>>
    BY <1>5 DEF circd_check_exit, conf, procs
  <2>2. quit' \in BOOLEAN
    BY <1>5, Zenon DEF circd_check_exit
  <2>3. QED
    BY <2>1, <2>2 DEF RefsType, FlagType
<1>6. QED
  BY <1>1, <1>2, <1>3, <1>4, <1>5 DEF Functions

LEMMA HandlersTypes ==
  ASSUME IInv, RefsType, FlagType, Handlers
  PROVE  RefsType' /\ FlagType' /\ UNCHANGED <<sent, config>>
<1>1. CASE handle_create_circuit_message \/ handle_clone_circuit_message
  <2>1. UNCHANGED <<shutting, quit, translated, sent, config>>
    BY <1>1 DEF handle_create_circuit_message, handle_clone_circuit_message,
       circd_circuit_add, Calls, life, procs
  <2>2. QED
    BY <1>1, <2>1, AddType DEF FlagType, IInv
<1>2. CASE handle_start_daemon_circuit_message
  <2>1. UNCHANGED <<shutting, quit, translated, sent, config>>
    BY <1>2 DEF handle_start_daemon_circuit_message, Calls, life, procs
  <2>2. QED
    BY <1>2, <2>1, StartType DEF FlagType, IInv
<1>3. CASE handle_stop_service_message
  <2>1. UNCHANGED <<refs, quit, translated, sent, config>> /\ shutting' = TRUE
    BY <1>3 DEF handle_stop_service_message, conf, procs
  <2>2. QED
    BY <2>1 DEF RefsType, FlagType
<1>4. CASE \/ handle_activate_circuit_message \/ handle_dialup_circuit_message
           \/ handle_hangup_or_deactivate_circuit_message("hangup", "active")
           \/ handle_hangup_or_deactivate_circuit_message("deactivate", "inactive")
           \/ handle_hangup_or_deactivate_circuit_message("fail", "failed")
           \/ handle_stop_daemon_circuit_message
  <2>1. UNCHANGED <<refs, shutting, quit, translated, sent, config>>
    BY <1>4 DEF handle_activate_circuit_message, handle_dialup_circuit_message,
       handle_hangup_or_deactivate_circuit_message, handle_stop_daemon_circuit_message,
       Calls, conf, life, procs
  <2>2. QED
    BY <2>1 DEF RefsType, FlagType
<1>5. CASE \/ handle_up_l3prot_circuit_event \/ handle_down_l3prot_circuit_event
           \/ handle_up_link_circuit_event \/ handle_down_link_circuit_event
           \/ handle_dialup_control_circuit_event \/ handle_hangup_control_circuit_event
           \/ handle_daemon_exited_circuit_event \/ handle_child_exited_circd_event
           \/ handle_set_global_dialmode_message \/ handle_set_local_dialmode_message
  <2>1. UNCHANGED <<refs, shutting, quit, translated, sent, config>>
    BY <1>5 DEF handle_up_l3prot_circuit_event, handle_down_l3prot_circuit_event,
       handle_up_link_circuit_event, handle_down_link_circuit_event,
       handle_dialup_control_circuit_event, handle_hangup_control_circuit_event,
       handle_daemon_exited_circuit_event, handle_child_exited_circd_event,
       handle_set_global_dialmode_message, handle_set_local_dialmode_message, Calls, conf,
       life, procs
  <2>2. QED
    BY <2>1 DEF RefsType, FlagType
<1>6. QED
  BY <1>1, <1>2, <1>3, <1>4, <1>5 DEF Handlers

LEMMA OthersTypes ==
  ASSUME Typed, RefsType, FlagType, SentType, Next, ~ Circd
  PROVE  RefsType' /\ FlagType' /\ SentType'
<1>1. UNCHANGED <<refs, shutting, quit, config>>
  <2>1. CASE \E c \in Circuit : QueueProcess(c) \/ \E k \in {"up", "down"}, q \in Prot : IpScript(c, k, q)
    BY <2>1 DEF QueueProcess, QueueReady, handle_dialup_circuit_queue_message,
       handle_hangup_circuit_queue_message, handle_quit_circuit_queue_message, DialFails,
       HangupFails, Unqueue, IpScript, conf, life
  <2>2. CASE \E p \in Pid : \/ \E q \in Prot \cup {Link} :
                                 DaemonUp(p, q) \/ \E f \in {"", "force"} : DaemonDown(p, q, f)
                            \/ DaemonExit(p) \/ DaemonCrash(p) \/ WrapperExit(p)
    BY <2>2 DEF DaemonUp, DaemonDown, DaemonExit, DaemonCrash, DaemonStep, WrapperExit,
       conf, life
  <2>3. CASE \E m \in Requests : Request(m)
    BY <2>3 DEF Request, conf, life
  <2>4. QED
    BY <2>1, <2>2, <2>3 DEF Next
<1>2. UNCHANGED translated \/ \E c \in Circuit, x \in BOOLEAN : translated' = [translated EXCEPT ![c] = @ \/ x]
  <2>1. CASE \E c \in Circuit : handle_dialup_circuit_queue_message(c)
    <3>1. PICK c \in Circuit : translated' = [translated EXCEPT ![c] = TRUE]
      BY <2>1 DEF handle_dialup_circuit_queue_message
    <3>2. translated' = [translated EXCEPT ![c] = @ \/ TRUE]
      BY <3>1
    <3>3. QED
      BY <3>2
  <2>2. CASE \E c \in Circuit : DialFails(c)
    BY <2>2 DEF DialFails
  <2>3. QED
    BY <2>1, <2>2 DEF Next, QueueProcess, QueueReady, handle_hangup_circuit_queue_message,
       handle_quit_circuit_queue_message, HangupFails, IpScript, DaemonUp, DaemonDown,
       DaemonExit, DaemonCrash, DaemonStep, WrapperExit, Request, procs
<1>3. UNCHANGED sent \/ (sent < MaxRequests /\ sent' = sent + 1)
  BY DEF Next, QueueProcess, QueueReady, handle_dialup_circuit_queue_message,
     handle_hangup_circuit_queue_message, handle_quit_circuit_queue_message, DialFails,
     HangupFails, Unqueue, IpScript, DaemonUp, DaemonDown, DaemonExit, DaemonCrash,
     DaemonStep, WrapperExit, Request
<1>4. translated' \in [Circuit -> BOOLEAN]
  BY <1>2 DEF FlagType
<1>5. MaxRequests \in Nat /\ MaxRequests' = MaxRequests
  BY <1>1, ConfigAssumption DEF Typed, MaxRequests
<1>6. sent' \in 0..MaxRequests
  BY <1>3, <1>5 DEF SentType
<1>7. QED
  BY <1>1, <1>4, <1>5, <1>6 DEF RefsType, FlagType, SentType

\* As long as control scripts succeed and a route circuit speaks one protocol, all
\* variables keep their types; no reference count and no number of children falls below
\* zero, although circd_unref and handle_child_exited_circd_event do not look at them.
THEOREM TypeCorrect == Spec => []TypeOK
<1> DEFINE T == RefsType /\ FlagType /\ SentType
<1>1. Init => T
  <2> SUFFICES ASSUME Init PROVE T
    OBVIOUS
  <2>1. refs = [c \in Circuit |-> IF c \in 1..Initial THEN 1 ELSE 0] /\ sent = 0
        /\ shutting = FALSE /\ quit = FALSE /\ translated = [c \in Circuit |-> FALSE]
    BY DEF Init
  <2>2. MaxRequests \in Nat
    BY ConfigAssumption DEF Init, MaxRequests
  <2>3. RefsType
    BY <2>1 DEF RefsType
  <2>4. FlagType
    BY <2>1 DEF FlagType
  <2>5. SentType
    BY <2>1, <2>2 DEF SentType
  <2>6. QED
    BY <2>3, <2>4, <2>5
<1>2. IInv /\ T /\ [Next]_vars => T'
  <2> SUFFICES ASSUME IInv, T, [Next]_vars PROVE T'
    OBVIOUS
  <2>1. CASE Circd
    <3>1. RefsType' /\ FlagType' /\ UNCHANGED <<sent, config>>
      BY <2>1, FunctionsTypes, HandlersTypes DEF Circd
    <3>2. SentType'
      BY <3>1 DEF SentType, MaxRequests
    <3>3. QED
      BY <3>1, <3>2
  <2>2. CASE Next /\ ~ Circd
    BY <2>2, OthersTypes DEF IInv
  <2>3. CASE UNCHANGED vars
    BY <2>3 DEF vars, conf, life, procs, RefsType, FlagType, SentType, MaxRequests
  <2>4. QED
    BY <2>1, <2>2, <2>3
<1>3. IInv /\ Children /\ T => TypeOK
  <2> SUFFICES ASSUME IInv, Children, T PROVE TypeOK
    OBVIOUS
  <2>1. \A p \in Pid : daemon[p].id \in Circuit \cup {0} /\ daemon[p].st \in {"free", "run", "exiting"}
    <3>1. daemon \in [Pid -> DaemonType]
      BY DEF IInv, Typed
    <3>2. \A x \in 0..NCircuits : x \in Circuit \cup {0}
      BY CircuitAssumption DEF Circuit
    <3>3. QED
      BY <3>1, <3>2 DEF DaemonType
  <2>2. children \in [Circuit \X {"q", "d"} -> Nat]
    <3>1. ASSUME NEW c \in Circuit PROVE children[<<c, "q">>] \in Nat /\ children[<<c, "d">>] \in Nat
      <4>1. /\ children[<<c, "q">>] = Serving(c) + Cardinality(Ends(inbox, c, "q"))
            /\ children[<<c, "d">>] = Cardinality(Wrappers(c)) + Cardinality(Ends(inbox, c, "d"))
            /\ Cardinality(Ends(inbox, c, "q")) \in Nat /\ Cardinality(Ends(inbox, c, "d")) \in Nat
        BY EndsFinite DEF Children, Counted, Processes
      <4>2. Serving(c) \in Nat
        BY DEF Serving
      <4>3. Cardinality(Wrappers(c)) \in Nat
        BY CircuitAssumption, FS_Subset, FS_CardinalityType DEF Wrappers
      <4>4. QED
        BY <4>1, <4>2, <4>3
    <3>2. children \in [Circuit \X {"q", "d"} -> Int]
      BY DEF Children, Processes
    <3>3. ASSUME NEW k \in Circuit \X {"q", "d"} PROVE children[k] \in Nat
      <4>1. PICK c \in Circuit, l \in {"q", "d"} : k = <<c, l>>
        OBVIOUS
      <4>2. QED
        BY <3>1, <4>1
    <3>4. QED
      BY <3>2, <3>3
  <2>3. QED
    BY <2>1, <2>2 DEF IInv, Typed, Children, Processes, RefsType, FlagType, SentType,
       TypeOK
<1>4. Init => Children
  BY InitChildren
<1>5. Children /\ [Next]_vars => Children'
  BY NextChildren
<1> HIDE DEF T
<1>6. QED
  BY <1>1, <1>2, <1>3, <1>4, <1>5, Inductive, PTL DEF Spec
=============================================================================
