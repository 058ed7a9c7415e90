---------------------------- MODULE MCCollation ----------------------------
(***************************************************************************)
(* Atom messages for TLC: up to two regular fields and an extension, or up *)
(* to MaxExtensions extensions alone, drawn from atoms that sit on the     *)
(* borders of the pulled ranges, share signatures, or fail a check each.   *)
(***************************************************************************)
EXTENDS Collation
LOCAL INSTANCE FiniteSetsExt

CONSTANT MaxExtensions

Field(n, type) ==
    [number |-> n, type |-> type, repeated |-> FALSE, bytes |-> FALSE, state |-> {},
     restriction |-> {}, category |-> FALSE, isUid |-> FALSE]
Many(n, type) == [Field(n, type) EXCEPT !.repeated = TRUE]
NoState  == [primary |-> FALSE, firstUid |-> FALSE, exclusive |-> FALSE,
             default |-> {}, reset |-> {}, nested |-> {}]
State(f, o) == [f EXCEPT !.state = {o}]
Uid(f) == [f EXCEPT !.isUid = TRUE]
Exclusive(n) == State(Field(n, "enum"), [NoState EXCEPT !.exclusive = TRUE, !.default = {1},
                                                        !.reset = {0}, !.nested = {FALSE}])
Primary(n) == State(Field(n, "int32"), [NoState EXCEPT !.primary = TRUE])
Chain == Many(1, "AttributionNode")
FirstUidChain == State(Chain, [NoState EXCEPT !.firstUid = TRUE])

Atom(n, modules, body) ==
    [number |-> n, isMessage |-> TRUE, modules |-> modules, truncate |-> FALSE, category |-> {},
     restriction |-> FALSE, fields |-> body, isUintAllowed |-> FALSE]

\* Atoms without errors.
GoodAtoms ==
    {Atom(1, {"wifi"}, <<Field(1, "int32"), Uid(Field(2, "int32"))>>),
     [Atom(9999, {"wifi"}, <<Primary(1), Exclusive(2)>>) EXCEPT !.truncate = TRUE],
     Atom(10000, {"wifi"}, <<Uid(Field(1, "int32")), Field(2, "enum")>>),
     Atom(99999, {}, <<Uid(Field(1, "int32")), Uid(Field(2, "int32"))>>),
     Atom(100000, {"wifi"}, <<FirstUidChain, Exclusive(2)>>),
     Atom(149999, {"wifi"}, <<Chain, Uid(Many(2, "int32"))>>),
     [Atom(150000, {"wifi"}, <<Chain, Field(2, "enum")>>) EXCEPT !.truncate = TRUE],
     Atom(199999, {"wifi"}, <<>>),
     [Atom(200000, {"wifi"}, <<[Field(1, "string") EXCEPT !.restriction = {{"APP_USAGE"}}]>>)
         EXCEPT !.category = {2}],
     [Atom(3, {"wifi"}, <<Chain, Field(2, "uint32")>>) EXCEPT !.isUintAllowed = TRUE],
     Atom(4, {"wifi"}, <<Chain, Many(2, "enum")>>)}

\* Atoms that fail a check.
BadAtoms ==
    {[Atom(5, {"wifi"}, <<>>) EXCEPT !.isMessage = FALSE],
     [Atom(10001, {"wifi"}, <<Field(1, "int32")>>) EXCEPT !.category = {1}],
     Atom(6, {"wifi"}, <<Primary(1), Uid(Field(2, "string"))>>),
     Atom(7, {"wifi"}, <<Uid(Field(1, "int32")), [Chain EXCEPT !.number = 3]>>),
     [Atom(8, {"wifi"}, <<FirstUidChain, Exclusive(2)>>) EXCEPT !.restriction = TRUE],
     [Atom(9, {"wifi"}, <<Many(1, "int32")>>) EXCEPT !.category = {3}]}

Pool == GoodAtoms \cup BadAtoms

\* Regular fields, in the two orders they may have.
Lists == {<<f>> : f \in Pool} \cup {<<f, g>> : f \in GoodAtoms, g \in {h \in Pool : h.number \in {1, 7, 10000}}}

Extensions(max) == UNION {kSubset(k, Pool) : k \in 0 .. max}

Message(regular, ext, moduleName) ==
    [regular |-> regular, extensions |-> ext, moduleName |-> moduleName]

MCMessages ==
    {m \in {Message(l, e, n) : l \in Lists, e \in Extensions(1), n \in {"DEFAULT", "wifi"}} :
        /\ \A k \in DOMAIN m.regular : m.regular[k] \notin m.extensions
        /\ Len(m.regular) = 2 => m.regular[1] # m.regular[2]}
    \cup {Message(<<>>, e, n) : e \in Extensions(MaxExtensions), n \in {"DEFAULT", "wifi"}}
=============================================================================
