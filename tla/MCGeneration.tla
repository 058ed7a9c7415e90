---------------------------- MODULE MCGeneration ----------------------------
(***************************************************************************)
(* The messages of MCCollation, for the writers; and messages of up to     *)
(* three atoms without errors, of which some share a signature but not     *)
(* their annotations, and some have a state or a category no writer can    *)
(* tell from none, or methods with the same parameters.                    *)
(***************************************************************************)
EXTENDS MCCollation, AtomEvents, GeneratedMethods
LOCAL INSTANCE FiniteSetsExt

WithState(f, default, reset) ==
    State(f, [NoState EXCEPT !.exclusive = TRUE, !.default = default, !.reset = reset])

StateAtoms ==
    {Atom(20, {}, <<Field(1, "int32"), WithState(Field(2, "int32"), {3}, {2})>>),
     Atom(21, {}, <<WithState(Field(1, "enum"), {0}, {-1}), Uid(Field(2, "int32"))>>),
     Atom(22, {}, <<Primary(1), WithState(Field(2, "enum"), {}, {2})>>),
     [Atom(23, {}, <<Field(1, "string")>>) EXCEPT !.category = {0}],
     Atom(24, {}, <<Field(1, "string"), Many(2, "int64"), Exclusive(3)>>)}

\* Atoms whose methods differ in little, in some language in nothing.
OverloadAtoms ==
    {Atom(30, {}, <<Chain, Many(2, "bool"), Field(3, "int64")>>),
     Atom(31, {}, <<Many(1, "int32"), Many(2, "string"), Field(3, "enum")>>),
     Atom(32, {}, <<Many(1, "enum")>>),
     Atom(33, {}, <<Many(1, "int32")>>)}

\* Two chains, in fields that are numbered as they should be.
TwoChains == Atom(34, {}, <<Chain, [Chain EXCEPT !.number = 2]>>)

MCGenerationMessages ==
    MCMessages
    \cup {Message(<<>>, {TwoChains}, "DEFAULT")}
    \cup {Message(<<>>, e, "DEFAULT") : e \in kSubset(3, GoodAtoms \cup StateAtoms \cup OverloadAtoms)}
=============================================================================
