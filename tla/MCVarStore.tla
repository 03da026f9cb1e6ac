---- MODULE MCVarStore ----
(* Packages, configurations and check scripts for VarStore.tla. *)
EXTENDS VarStore

MCNumber == ("0" :> 0) @@ ("1" :> 1) @@ ("2" :> 2) @@ ("3" :> 3)
MCType == [BOOLEAN |-> {"yes", "no"}, NUMERIC |-> DOMAIN MCNumber,
           NAME |-> {"a", "b", "crypted"},
           ANYTHING |-> {"yes", "no", "a", "b", "crypted", "?"} \cup DOMAIN MCNumber]

\* Two arrays that share the bound V_N, an array of arrays, the scalars OPT,
\* PW and Q, and the variables of check scripts: T, S_%, MATCH_% and V_%_X, whose
\* bound is a configuration variable.
MCLevel == ("OPT" :> 0) @@ ("PW" :> 0) @@ ("V_N" :> 0) @@ ("V_%_A" :> 1) @@ ("V_%_B" :> 1)
           @@ ("V_%_N" :> 1) @@ ("V_%_%_C" :> 2) @@ ("Q" :> 0) @@ ("V_%_X" :> 1)
           @@ ("T" :> 0) @@ ("S_%" :> 1) @@ ("S_N" :> 0) @@ ("MATCH_%" :> 1) @@ ("MATCH_N" :> 0)
MCBoundOf == ("V_%_A" :> "V_N") @@ ("V_%_B" :> "V_N") @@ ("V_%_N" :> "V_N")
             @@ ("V_%_X" :> "V_N") @@ ("V_%_%_C" :> "V_%_N") @@ ("S_%" :> "S_N") @@ ("MATCH_%" :> "MATCH_N")

Def(name, type, optional, condition, def_value) ==
    [name |-> name, type |-> type, optional |-> optional, condition |-> condition,
     def_value |-> def_value]
Set(name, value) == [name |-> name, value |-> value]
To(stage, idx, sets) ==
    [stage |-> stage, idx |-> idx, sets |-> sets, priority |-> VAR_PRIORITY_CONFIGURATION]
Over(idx, sets) ==
    [stage |-> 3, idx |-> idx, sets |-> sets, priority |-> VAR_PRIORITY_SUPERSEDE]

Arrays == {Def("OPT", "BOOLEAN", FALSE, "TRUE", "no"),
           Def("PW", "NAME", TRUE, "OPT", NULL), Def("Q", "NAME", TRUE, "TRUE", NULL),
           Def("V_%_A", "NAME", FALSE, "OPT", NULL),
           Def("V_%_B", "NAME", FALSE, "OPT", "b"),
           Def("V_%_%_C", "NAME", TRUE, "OPT", NULL)}
ExplicitBounds == {Def("V_N", "NUMERIC", FALSE, "OPT", NULL),
                   Def("V_%_N", "NUMERIC", FALSE, "OPT", "0")}
Enable == {To(1, <<>>, <<Set("OPT", "yes"), Set("PW", "a")>>)}

Scripts ==
    {[op |-> "set", name |-> "T", value |-> "1", numeric |-> TRUE],
     [op |-> "set_element", name |-> "S_%", idx |-> <<1>>, value |-> "a", numeric |-> FALSE],
     [op |-> "set_element", name |-> "S_%", idx |-> <<0>>, value |-> "?", numeric |-> TRUE],
     [op |-> "set_element", name |-> "V_%_B", idx |-> <<0>>, value |-> "a", numeric |-> FALSE],
     [op |-> "set_element", name |-> "V_%_A", idx |-> <<2>>, value |-> "a", numeric |-> FALSE],
     [op |-> "set_element", name |-> "V_%_X", idx |-> <<0>>, value |-> "a", numeric |-> FALSE],
     [op |-> "split", name |-> "S_%", values |-> <<"a", "b">>, numeric |-> FALSE],
     [op |-> "split", name |-> "S_%", values |-> <<"2">>, numeric |-> TRUE],
     [op |-> "split", name |-> "V_%_B", values |-> <<"a">>, numeric |-> FALSE],
     [op |-> "match", name |-> "MATCH_%", values |-> <<"a">>],
     [op |-> "match", name |-> "MATCH_%", values |-> <<>>],
     [op |-> "crypt", name |-> "PW", idx |-> <<>>],
     [op |-> "request", name |-> "PW", idx |-> <<>>],
     [op |-> "request", name |-> "Q", idx |-> <<>>],
     [op |-> "request", name |-> "T", idx |-> <<>>],
     [op |-> "request", name |-> "V_N", idx |-> <<>>]}

With(definitions, assignments) ==
    [definitions |-> definitions, assignments |-> assignments, script |-> Scripts]

MCConfigs ==
    { \* implicit bounds, elements in any order
      With(Arrays, Enable \cup {To(2, <<1>>, <<Set("V_%_A", "a")>>), To(2, <<0>>, <<Set("V_%_A", "b")>>),
                                To(2, <<2>>, <<Set("V_%_B", "a")>>),
                                To(2, <<1, 1>>, <<Set("V_%_%_C", "a")>>),
                                To(2, <<2, 0>>, <<Set("V_%_%_C", "b")>>),
                                Over(<<2>>, <<Set("V_%_A", "a")>>)}),
      \* free indices
      With(Arrays, Enable \cup {To(2, <<NextFree>>, <<Set("V_%_A", "a"), Set("V_%_B", "a")>>),
                                To(2, <<NextFree>>, <<Set("V_%_A", "b")>>),
                                To(2, <<0, NextFree>>, <<Set("V_%_%_C", "b")>>),
                                To(2, <<0, NextFree>>, <<Set("V_%_%_C", "a")>>)}),
      \* explicit bounds, one of them too small
      With(Arrays \cup ExplicitBounds,
           Enable \cup {To(2, <<>>, <<Set("V_N", "2")>>), To(2, <<0>>, <<Set("V_%_A", "a")>>),
                        To(2, <<2>>, <<Set("V_%_A", "a")>>), To(2, <<1>>, <<Set("V_%_N", "1")>>),
                        To(2, <<1, 0>>, <<Set("V_%_%_C", "a")>>),
                        Over(<<1>>, <<Set("V_%_A", "b")>>)}),
      \* an element within the explicit bound is missing
      With(Arrays \cup ExplicitBounds,
           Enable \cup {To(2, <<>>, <<Set("V_N", "2")>>), To(2, <<0>>, <<Set("V_%_A", "a"), Set("V_%_B", "a")>>)}),
      \* errors: bound optional, undefined condition, no such variable, assigned twice
      With(Arrays \cup {Def("V_N", "NUMERIC", TRUE, "OPT", NULL)}, Enable),
      With({Def("PW", "NAME", TRUE, "OPT", NULL)}, Enable),
      With({Def("PW", "NAME", TRUE, "TRUE", NULL), Def("PW", "NAME", FALSE, "TRUE", NULL)}, {}),
      With(Arrays, Enable \cup {To(2, <<>>, <<Set("Q", "?")>>)}),
      With(Arrays, Enable \cup {To(2, <<>>, <<Set("PW", "b"), Set("T", "b")>>),
                                To(2, <<0>>, <<Set("V_%_N", "?")>>)}) }
====
