------------------------------ MODULE VarStore ------------------------------
(***************************************************************************)
(* The variable store of mkfli4l: the variables the packages define, the   *)
(* arrays among them with the variables that hold their bounds, the values *)
(* the configuration files and the check scripts assign, and the check of  *)
(* all values between the two.                                             *)
(*                                                                         *)
(* The slots of a variable are a function on index paths: the empty path   *)
(* is the slot of the variable itself, a path as long as the variable has  *)
(* dimensions is an entry, a shorter one is an array slot.  Indices count  *)
(* from 0 as in the code.  Values are strings, as in the code.             *)
(***************************************************************************)
EXTENDS Integers, Sequences, FiniteSets, TLC, FiniteSetsExt, SequencesExt

CONSTANTS
    Level,       \* variable name -> number of placeholders in it
    BoundOf,     \* array name -> name of its array bound variable
    Type,        \* type name -> the values that match it
    Number,      \* the strings that are numerals -> their value
    Configs,     \* what the packages, the user and the check scripts do
    MaxScript    \* bound: the statements a check script executes

VARIABLES
    config,      \* the element of Configs, which does not change
    phase,       \* "definitions", "assignments", "scripts", "rejected"
    scanparse,   \* no error so far
    todo,        \* definitions and stages of assignments not processed yet
    vars_of,     \* the scope: variable -> priority and properties
    slots,       \* variable -> index path -> slot
    steps        \* statements executed by check scripts

vars == <<config, phase, scanparse, todo, vars_of, slots, steps>>

VAR_PRIORITY_UNDEFINED == -1
VAR_PRIORITY_ARRAY_BOUND == 0
VAR_PRIORITY_SCRIPT_TRANSIENT == 1
VAR_PRIORITY_CONFIGURATION == 2
VAR_PRIORITY_SUPERSEDE == 3
VAR_PRIORITY_SCRIPT_PERSISTENT == 4

NULL == "NULL"
ArraySlot == "array"
NextFree == -1            \* the index of an element written as []

Names == DOMAIN Level
Numeral(n) == CHOOSE s \in DOMAIN Number : Number[s] = n
Indices(d) == [1 .. d -> 0 .. (Cardinality(DOMAIN Number) - 1)]
Prefix(idx, n) == SubSeq(idx, 1, n)

EmptyEntry == [value |-> NULL, priority |-> VAR_PRIORITY_UNDEFINED, extra |-> FALSE]
NewSlot(v, p) == IF Len(p) = Level[v] THEN EmptyEntry ELSE ArraySlot

ASSUME ShapeAssumption ==
    /\ \A v \in Names : Level[v] \in Nat
    /\ DOMAIN BoundOf = {v \in Names : Level[v] > 0}
    /\ \A v \in DOMAIN BoundOf : Level[BoundOf[v]] = Level[v] - 1

Clients(D, n) == {v \in DOMAIN D \cap DOMAIN BoundOf : BoundOf[v] = n}
NumSlots(S, v, p) ==
    Cardinality({q \in DOMAIN S[v] : Len(q) = Len(p) + 1 /\ IsPrefix(p, q)})

\* The bound variable of dimension l of array v, counted from 0.
RECURSIVE BoundAt(_, _)
BoundAt(v, l) == IF l = Level[v] - 1 THEN BoundOf[v] ELSE BoundAt(BoundOf[v], l)

-----------------------------------------------------------------------------
(***************************************************************************)
(* Reading: var_instance_try_get_value with the bounds check and the       *)
(* enabling condition.  A condition is "TRUE", "FALSE" or the name of a    *)
(* boolean variable that is no array; the bound of arrays is enabled if it *)
(* is itself and one of its clients is.  An evaluation that fails disables *)
(* as FALSE does.                                                          *)
(***************************************************************************)
RECURSIVE TryGet(_, _, _, _), Enabled(_, _, _, _)
InBounds(D, S, v, idx) ==
    Level[v] = 0 \/ LET b == TryGet(D, S, BoundOf[v], Prefix(idx, Level[v] - 1))
                    IN  b \in DOMAIN Number /\ idx[Level[v]] < Number[b]

TryGet(D, S, v, idx) ==
    IF idx \notin DOMAIN S[v] \/ Len(idx) # Level[v] \/ ~InBounds(D, S, v, idx) THEN NULL
    ELSE IF ~Enabled(D, S, v, idx) THEN D[v].dis_value
    ELSE IF S[v][idx].value # NULL THEN S[v][idx].value
    ELSE D[v].def_value

Condition(D, S, v) ==
    LET c == D[v].condition
    IN  IF c \in {"TRUE", "FALSE"} THEN c = "TRUE"
        ELSE c \in DOMAIN D /\ TryGet(D, S, c, <<>>) = "yes"

Enabled(D, S, v, idx) ==
    /\ Condition(D, S, v)
    /\ Clients(D, v) = {} \/ \E c \in Clients(D, v) : Enabled(D, S, c, idx)

-----------------------------------------------------------------------------
(***************************************************************************)
(* Resizing: var_slot_expand, var_slot_get_or_create.                      *)
(***************************************************************************)
Resize(S, v, p, n) ==
    [S EXCEPT ![v] = @ @@ [q \in {Append(p, i) : i \in 0 .. (n - 1)} |-> NewSlot(v, q)]]

\* The array slots of v, and of the arrays v is the bound of, on the path idx.
RECURSIVE Expand(_, _, _, _, _)
ExpandAll(D, S, vs, idx) ==
    LET Add(v, T) == Expand(D, T, v, idx, 0)
    IN  FoldSet(Add, S, vs)
Expand(D, S, v, idx, l) ==
    IF l >= Len(idx) \/ l >= Level[v] THEN S
    ELSE Expand(D, IF idx[l + 1] < NumSlots(S, v, Prefix(idx, l)) THEN S
                   ELSE ExpandAll(D, Resize(S, v, Prefix(idx, l), idx[l + 1] + 1), Clients(D, v), idx),
                v, idx, l + 1)

RECURSIVE GetOrCreateFrom(_, _, _, _, _)
GetOrCreateFrom(D, S, v, idx, l) ==
    IF l >= Len(idx) THEN S
    ELSE GetOrCreateFrom(D,
             IF idx[l + 1] < NumSlots(S, v, Prefix(idx, l)) THEN S
             ELSE ExpandAll(D, Resize(S, v, Prefix(idx, l), idx[l + 1] + 1),
                            Clients(D, BoundAt(v, l)), Prefix(idx, l + 1)),
             v, idx, l + 1)

GetOrCreate(D, S, v, idx) == GetOrCreateFrom(D, S, v, idx, 0)

-----------------------------------------------------------------------------
(***************************************************************************)
(* Writing: var_instance_do_set_value with var_update_array_bound, which   *)
(* call each other along the bounds of the dimensions.  The result is the  *)
(* slots and whether the call succeeded.                                   *)
(***************************************************************************)
MayWrite(mode, priority, slot_priority) ==
    IF mode = "STRONG" THEN priority > slot_priority ELSE priority >= slot_priority

ToBound(value) == IF value \in DOMAIN Number THEN Number[value] ELSE 0

\* Mutant: the clients of a bound are not resized.
WriteEntryAlone(D, S, v, idx, value, extra, priority) ==
    [S EXCEPT ![v][idx] = [value |-> IF value = NULL THEN @.value ELSE value,
                           priority |-> priority, extra |-> @.extra \/ extra]]

\* The clients of a bound that grows are resized with it.
WriteEntry(D, S, v, idx, value, extra, priority) ==
    LET e == S[v][idx]
        T == [S EXCEPT ![v][idx] =
                  [value |-> IF value = NULL THEN e.value ELSE value,
                   priority |-> priority, extra |-> e.extra \/ extra]]
        Grow(c, U) == GetOrCreate(D, U, c, Append(idx, ToBound(value) - 1))
    IN  IF value # NULL /\ ToBound(e.value) < ToBound(value)
        THEN FoldSet(Grow, T, Clients(D, v))
        ELSE T

RECURSIVE SetValue(_, _, _, _, _, _, _, _, _, _)
\* Mutant: the bound is set without a look at its value, so that an element of a
\* lower index shrinks it.
UpdateArrayBoundAlways(D, S, v, idx) ==
    SetValue(D, S, BoundOf[v], Prefix(idx, Level[BoundOf[v]]), Numeral(idx[Len(idx)] + 1), FALSE,
             "TENTATIVE", VAR_PRIORITY_ARRAY_BOUND, TRUE, TRUE).slots

UpdateArrayBound(D, S, v, idx) ==
    LET n == BoundOf[v]
        p == Prefix(idx, Level[n])
        old == TryGet(D, S, n, p)
        new == idx[Len(idx)] + 1
    IN  IF (old # NULL /\ old \notin DOMAIN Number) \/ ToBound(old) >= new THEN S
        ELSE SetValue(D, S, n, p, Numeral(new), FALSE, "TENTATIVE",
                      VAR_PRIORITY_ARRAY_BOUND, TRUE, TRUE).slots

\* Mutant: the base priority of the variable is not looked at.
SetValueAnyBase(D, S, v, idx, value, extra, mode, priority, check, ignore_base) ==
    LET S2 == GetOrCreate(D, IF idx = <<>> THEN S ELSE UpdateArrayBound(D, S, v, idx), v, idx)
    IN  IF Len(idx) # Level[v] THEN [slots |-> S, ok |-> FALSE]
        ELSE IF ~MayWrite(mode, priority, S2[v][idx].priority)
        THEN [slots |-> S2, ok |-> mode = "TENTATIVE"]
        ELSE IF check /\ value \notin Type[D[v].type] THEN [slots |-> S2, ok |-> FALSE]
        ELSE [slots |-> WriteEntry(D, S2, v, idx, value, extra, priority), ok |-> TRUE]

SetValue(D, S, v, idx, value, extra, mode, priority, check, ignore_base) ==
    LET Ignored(T) == [slots |-> T, ok |-> mode = "TENTATIVE"]
        S1 == IF idx = <<>> THEN S ELSE UpdateArrayBound(D, S, v, idx)
        S2 == GetOrCreate(D, S1, v, idx)
    IN  IF Len(idx) # Level[v] THEN [slots |-> S, ok |-> FALSE]
        ELSE IF ~ignore_base /\ D[v].priority > priority THEN Ignored(S)
        ELSE IF ~MayWrite(mode, priority, S2[v][idx].priority) THEN Ignored(S2)
        ELSE IF check /\ value \notin Type[D[v].type] THEN [slots |-> S2, ok |-> FALSE]
        ELSE [slots |-> WriteEntry(D, S2, v, idx, value, extra, priority), ok |-> TRUE]

\* var_instance_clear of a whole array, whose outermost bound becomes 0.
Clear(D, S, v, mode, priority) ==
    LET entries == {q \in DOMAIN S[v] : Len(q) = Level[v]}
        slot_priority == Max({S[v][q].priority : q \in entries} \cup {VAR_PRIORITY_UNDEFINED})
        T == [S EXCEPT ![v] = [q \in {<<>>} |-> ArraySlot]]
    IN  IF Level[v] = 0 \/ D[v].priority > priority \/ ~MayWrite(mode, priority, slot_priority)
        THEN S
        ELSE SetValue(D, T, BoundAt(v, 0), <<>>, "0", FALSE, "TENTATIVE",
                      VAR_PRIORITY_ARRAY_BOUND, TRUE, TRUE).slots

-----------------------------------------------------------------------------
(***************************************************************************)
(* Defining: var_add.  The bound of an array must fit it, and is defined   *)
(* weakly if it is missing; only a weak definition can be replaced.  An    *)
(* implicit bound that cannot be added aborts the program.                 *)
(***************************************************************************)
Implicit(priority) ==
    [type |-> "NUMERIC", priority |-> priority, optional |-> FALSE, weak |-> TRUE,
     condition |-> "TRUE", def_value |-> "0", dis_value |-> "0"]

BoundFits(b, d) ==
    b.type = "NUMERIC" /\ b.priority = d.priority /\ (b.optional => d.optional)

MayRedefine(D, v, d) ==
    /\ D[v].weak /\ D[v].type = d.type /\ D[v].priority = d.priority
    /\ d.optional => \A c \in Clients(D, v) : D[c].optional

RECURSIVE VarAdd(_, _, _, _)
VarAdd(D, S, v, d) ==
    LET Result(o, E, T) == [outcome |-> o, vars_of |-> E, slots |-> T]
        bound == IF Level[v] = 0 \/ BoundOf[v] \in DOMAIN D THEN Result("ok", D, S)
                 ELSE VarAdd(D, S, BoundOf[v], Implicit(d.priority))
        E == bound.vars_of
    IN  IF bound.outcome # "ok" THEN Result("abort", E, bound.slots)
        ELSE IF Level[v] > 0 /\ ~BoundFits(E[BoundOf[v]], d) THEN Result("error", E, bound.slots)
        ELSE IF v \notin DOMAIN E
        THEN Result("ok", E @@ (v :> d), bound.slots @@ (v :> (<<>> :> NewSlot(v, <<>>))))
        ELSE IF MayRedefine(E, v, d) THEN Result("ok", [E EXCEPT ![v] = d], bound.slots)
        ELSE Result("error", E, bound.slots)

\* var_remove: the variable, its slots and its registration with its bound.
Without(f, v) == [w \in DOMAIN f \ {v} |-> f[w]]

-----------------------------------------------------------------------------
(***************************************************************************)
(* mkfli4l reads the definitions of all packages, then the assignments of  *)
(* the configuration files, and checks all values.                         *)
(***************************************************************************)
Init ==
    /\ config \in Configs
    /\ phase = "definitions" /\ scanparse = TRUE /\ steps = 0
    /\ todo = config.definitions
    /\ vars_of = <<>> /\ slots = <<>>

\* The value a disabled variable has, which check_process_definitions derives.
DisabledValue(type) == CASE type = "BOOLEAN" -> "no" [] type = "NUMERIC" -> "0" [] OTHER -> NULL

Define(d) ==
    LET r == VarAdd(vars_of, slots, d.name,
                    [type |-> d.type, priority |-> VAR_PRIORITY_CONFIGURATION,
                     optional |-> d.optional, weak |-> FALSE, condition |-> d.condition,
                     def_value |-> d.def_value, dis_value |-> DisabledValue(d.type)])
    IN  /\ phase = "definitions"
        /\ todo' = todo \ {d}
        /\ vars_of' = r.vars_of /\ slots' = r.slots
        /\ scanparse' = (scanparse /\ r.outcome = "ok")
        /\ phase' = IF r.outcome = "abort" THEN "rejected" ELSE phase
        /\ UNCHANGED <<config, steps>>

\* resolve_expressions: a condition that names no variable is an error.
EndDefinitions ==
    /\ phase = "definitions" /\ todo = {}
    /\ scanparse' = (scanparse /\ \A v \in DOMAIN vars_of :
                        vars_of[v].condition \in {"TRUE", "FALSE"} \cup DOMAIN vars_of)
    /\ phase' = "assignments" /\ todo' = config.assignments
    /\ UNCHANGED <<config, vars_of, slots, steps>>

Resolve(v, S, idx) ==
    LET Add(real, i) == Append(real, IF i = NextFree THEN NumSlots(S, v, real) ELSE i)
    IN  FoldLeft(Add, <<>>, idx)

\* An assignment with its nested assignments: the first of them whose variable
\* exists determines a free index, which the others share.
Process(a) ==
    LET One(r, set) ==
            IF set.name \notin DOMAIN vars_of THEN [r EXCEPT !.ok = FALSE]
            ELSE LET idx == Resolve(set.name, r.slots, r.idx)
                     w == SetValue(vars_of, r.slots, set.name, idx, set.value, TRUE,
                                   "STRONG", a.priority, FALSE, FALSE)
                 IN  [idx |-> idx, slots |-> w.slots, ok |-> r.ok /\ w.ok]
    IN  FoldLeft(One, [idx |-> a.idx, slots |-> slots, ok |-> TRUE], a.sets)

\* The files are read in the order of their stages, what a file says in any.
Assign(a) ==
    /\ phase = "assignments"
    /\ \A b \in todo : a.stage <= b.stage
    /\ todo' = todo \ {a}
    /\ slots' = Process(a).slots
    /\ scanparse' = (scanparse /\ Process(a).ok)
    /\ UNCHANGED <<config, phase, vars_of, steps>>

\* var_check_value for an entry within its bounds
ValueIsFine(D, S, v, q) ==
    LET value == TryGet(D, S, v, q)
    IN  IF value = NULL THEN ~Enabled(D, S, v, q) \/ D[v].optional
        ELSE value \in Type[D[v].type]

Entries(S, v) == {q \in DOMAIN S[v] : Len(q) = Level[v]}

CheckValues ==
    /\ phase = "assignments" /\ todo = {}
    /\ scanparse' = (scanparse /\ \A v \in DOMAIN vars_of : \A q \in Entries(slots, v) :
                        InBounds(vars_of, slots, v, q) => ValueIsFine(vars_of, slots, v, q))
    /\ phase' = IF scanparse' THEN "scripts" ELSE "rejected"
    /\ UNCHANGED <<config, todo, vars_of, slots, steps>>

-----------------------------------------------------------------------------
(***************************************************************************)
(* The statements of check scripts that change the store.  A statement     *)
(* that fails leaves the store alone, or ends the program (fatal_exit).    *)
(***************************************************************************)
Transient(numeric) ==
    [type |-> IF numeric THEN "NUMERIC" ELSE "ANYTHING",
     priority |-> VAR_PRIORITY_SCRIPT_TRANSIENT, optional |-> FALSE, weak |-> FALSE,
     condition |-> "TRUE", def_value |-> NULL, dis_value |-> NULL]

ScriptStep == /\ phase = "scripts" /\ steps < MaxScript
              /\ steps' = steps + 1
              /\ UNCHANGED <<config, scanparse, todo>>

Write(D, S, v, idx, value, extra, priority) ==
    SetValue(D, S, v, idx, value, extra, "WEAK", priority, TRUE, FALSE).slots

\* The consecutive writes of split and of a match
WriteAll(D, S, v, values) ==
    LET Add(T, i) == Write(D, T, v, <<i - 1>>, values[i], FALSE, VAR_PRIORITY_SCRIPT_TRANSIENT)
    IN  FoldLeft(Add, S, [i \in 1 .. Len(values) |-> i])

\* The program ends unless VarAdd, whose result is r, succeeded; S are the slots
\* after the writes that follow.
FatalUnless(r, S) ==
    /\ vars_of' = r.vars_of
    /\ IF r.outcome = "ok" THEN slots' = S /\ UNCHANGED phase
       ELSE slots' = r.slots /\ phase' = "rejected"

\* set x="value": the variable is removed and added again.  The bound of arrays
\* and a variable conditions refer to are left to be used after their end, and
\* no script sets them.
SetScalar(s) ==
    LET v == s.name
        r == VarAdd(Without(vars_of, v), Without(slots, v), v, Transient(s.numeric))
    IN  /\ ScriptStep
        /\ Clients(vars_of, v) = {} /\ \A w \in DOMAIN vars_of : vars_of[w].condition # v
        /\ FatalUnless(r, Write(r.vars_of, r.slots, v, <<>>, s.value, TRUE,
                                VAR_PRIORITY_SCRIPT_TRANSIENT))

\* Adds v unless it exists, as it is.
AddUnlessThere(v, numeric) ==
    IF v \in DOMAIN vars_of THEN [outcome |-> "ok", vars_of |-> vars_of, slots |-> slots]
    ELSE VarAdd(vars_of, slots, v, Transient(numeric))

\* set x_%[i]="value"
SetElement(s) ==
    LET r == AddUnlessThere(s.name, s.numeric)
    IN  /\ ScriptStep
        /\ FatalUnless(r, Write(r.vars_of, r.slots, s.name, s.idx, s.value, FALSE,
                                VAR_PRIORITY_SCRIPT_TRANSIENT))

Cleared(v) == Clear(vars_of, slots, v, "WEAK", VAR_PRIORITY_SCRIPT_TRANSIENT)

\* split(value, x_%, 'c'): an array of a check script is made anew.
Split(s) ==
    LET v == s.name
        exists == v \in DOMAIN vars_of
        S == IF exists THEN Cleared(v) ELSE slots
        r == VarAdd(Without(vars_of, v), Without(S, v), v, Transient(s.numeric))
    IN  /\ ScriptStep
        /\ IF exists /\ vars_of[v].priority # VAR_PRIORITY_SCRIPT_TRANSIENT
           THEN phase' = "rejected" /\ slots' = S /\ UNCHANGED vars_of
           ELSE FatalUnless(r, WriteAll(r.vars_of, r.slots, v, s.values))

\* x =~ "regexp": the array MATCH_% is cleared and filled, not removed.  (An error
\* is reported and the script rejected at its end; here it ends at once.)
Match(s) ==
    LET v == s.name
        r == IF v \in DOMAIN vars_of
             THEN [outcome |-> "ok", vars_of |-> vars_of, slots |-> Cleared(v)]
             ELSE VarAdd(vars_of, slots, v, Transient(FALSE))
    IN  /\ ScriptStep
        /\ FatalUnless(r, WriteAll(r.vars_of, r.slots, v, s.values))

\* crypt(x)
Crypt(s) ==
    /\ ScriptStep
    /\ s.name \in DOMAIN vars_of
    /\ TryGet(vars_of, slots, s.name, s.idx) # NULL
    /\ slots' = Write(vars_of, slots, s.name, s.idx, "crypted", FALSE, VAR_PRIORITY_SCRIPT_PERSISTENT)
    /\ UNCHANGED <<phase, vars_of>>

\* get_variable_slot_extra: a slot that no assignment of the user has written gets
\* its flags, and with them the priority that nothing can override.
WithFlags(v, idx) ==
    IF slots[v][idx].extra THEN slots
    ELSE SetValue(vars_of, slots, v, idx, NULL, TRUE, "WEAK",
                  VAR_PRIORITY_SCRIPT_PERSISTENT, FALSE, FALSE).slots

\* mark_var_requested: without a value it is a fatal error.
Request(s) ==
    /\ ScriptStep
    /\ s.name \in DOMAIN vars_of
    /\ IF TryGet(vars_of, slots, s.name, s.idx) = NULL
       THEN phase' = "rejected" /\ UNCHANGED slots
       ELSE slots' = WithFlags(s.name, s.idx) /\ UNCHANGED phase
    /\ UNCHANGED vars_of

Statements(op) == {s \in config.script : s.op = op}

Next ==
    \/ \E d \in todo : phase = "definitions" /\ Define(d)
    \/ EndDefinitions
    \/ \E a \in todo : phase = "assignments" /\ Assign(a)
    \/ CheckValues
    \/ \E s \in Statements("set") : SetScalar(s)
    \/ \E s \in Statements("set_element") : SetElement(s)
    \/ \E s \in Statements("split") : Split(s)
    \/ \E s \in Statements("match") : Match(s)
    \/ \E s \in Statements("crypt") : Crypt(s)
    \/ \E s \in Statements("request") : Request(s)

Spec == Init /\ [][Next]_vars

-----------------------------------------------------------------------------
(* Properties                                                              *)

\* The bound of dimension l at the path idx has been set by nobody but the
\* writes to its arrays.
ImplicitBound(v, idx, l) ==
    LET b == BoundAt(v, l)
        p == Prefix(idx, l)
    IN  p \in DOMAIN slots[b] => slots[b][p].priority <= VAR_PRIORITY_ARRAY_BOUND

\* Whatever the order in which the elements of arrays are assigned, also of
\* arrays that share a bound and of arrays of arrays, an implicit bound grows
\* with them: an element that was written can be read back.
BoundCovers ==
    \A v \in DOMAIN vars_of \cap DOMAIN BoundOf : \A q \in Entries(slots, v) :
        /\ slots[v][q].value # NULL
        /\ \A l \in 0 .. Level[v] - 1 : ImplicitBound(v, q, l)
        /\ Enabled(vars_of, slots, v, q)
        => TryGet(vars_of, slots, v, q) = slots[v][q].value

\* The check of the values sees every element there is: when the check scripts
\* start, each element within the bounds of a mandatory array that is enabled
\* has a value of its type, also if only a sibling array was assigned to, or
\* only the bound.
CheckedIsComplete ==
    phase = "scripts" /\ steps = 0 =>
        \A v \in DOMAIN vars_of : \A idx \in Indices(Level[v]) :
            /\ InBounds(vars_of, slots, v, idx)
            /\ Enabled(vars_of, slots, v, idx)
            /\ ~vars_of[v].optional
            => TryGet(vars_of, slots, v, idx) \in Type[vars_of[v].type]

\* "Check scripts are not able to change the user configuration": whatever the
\* statements of check scripts do to their own variables and to the slots of
\* configuration variables nobody assigned, a configuration variable reads as
\* before, unless it is encrypted.
UserConfigurationKept ==
    [][phase = "scripts" =>
        \A v \in {w \in DOMAIN vars_of : vars_of[w].priority = VAR_PRIORITY_CONFIGURATION} :
            \A q \in Entries(slots, v) :
                /\ v \in DOMAIN vars_of'
                /\ vars_of'[v].priority = VAR_PRIORITY_CONFIGURATION
                /\ TryGet(vars_of', slots', v, q) \in {TryGet(vars_of, slots, v, q), "crypted"}]_vars
=============================================================================
