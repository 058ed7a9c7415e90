---------------------------- MODULE MCCollateAtom ----------------------------
(***************************************************************************)
(* Atoms for TLC: every pair of field shapes, numbered with and without    *)
(* gaps, and every run of up to four fields of the few shapes whose checks *)
(* depend on other fields.                                                 *)
(***************************************************************************)
EXTENDS CollateAtom

Shape(type, repeated, bytes) ==
    [type |-> type, repeated |-> repeated, bytes |-> bytes, state |-> {},
     restriction |-> {}, category |-> FALSE, isUid |-> FALSE]

One(type)  == Shape(type, FALSE, FALSE)
Many(type) == Shape(type, TRUE, FALSE)

\* Every combination of type, repetition and log mode java_type tells apart.
TypeShapes ==
    {One(t) : t \in {"int32", "enum", "string", "AttributionNode", "message", "bytes",
                     "uint32", "double"}}
    \cup {Many(t) : t \in {"int32", "enum", "AttributionNode", "message", "bytes", "uint64"}}
    \cup {Shape(t, FALSE, TRUE) : t \in {"int32", "message", "bytes", "AttributionNode"}}
    \cup {Shape("message", TRUE, TRUE)}

Option == [primary |-> FALSE, firstUid |-> FALSE, exclusive |-> FALSE,
           default |-> {}, reset |-> {}, nested |-> {}]
Primary   == [Option EXCEPT !.primary = TRUE]
FirstUid  == [Option EXCEPT !.firstUid = TRUE]
Exclusive == [Option EXCEPT !.exclusive = TRUE]
FullState == [Exclusive EXCEPT !.default = {0}, !.reset = {-1}, !.nested = {FALSE}]
NestedOnly == [Option EXCEPT !.nested = {TRUE}]

State(shape, o) == [shape EXCEPT !.state = {o}]

StateShapes ==
    {State(One("int32"), o) : o \in {Primary, FirstUid, Exclusive, FullState, NestedOnly,
                                     [Primary EXCEPT !.exclusive = TRUE]}}
    \cup {State(Many("AttributionNode"), o) : o \in {Primary, FirstUid, Exclusive,
                                               [Primary EXCEPT !.firstUid = TRUE]}}
    \cup {State(One("message"), FullState), State(Shape("bytes", FALSE, TRUE), Primary)}
    \* The early return hides the errors of the other options.
    \cup {[State(Many("string"), FullState) EXCEPT !.isUid = TRUE, !.category = TRUE]}

OtherShapes ==
    {[One(t) EXCEPT !.isUid = TRUE] : t \in {"int32", "string", "uint32", "enum"}}
    \cup {[Many("int32") EXCEPT !.isUid = TRUE],
          [One("int32") EXCEPT !.restriction = {{"APP_USAGE", "AMBIENT_SENSING"}}],
          [One("string") EXCEPT !.restriction = {{}}, !.category = TRUE],
          [State(One("int32"), Primary) EXCEPT !.restriction = {{"HEALTH_CONNECT"}}, !.isUid = TRUE]}

Shapes == TypeShapes \cup StateShapes \cup OtherShapes

\* Shapes whose checks look at the fields before them.
LinkedShapes == {One("int32"), Many("AttributionNode"), State(Many("AttributionNode"), FirstUid),
                 State(One("int32"), Primary), State(One("int32"), Exclusive),
                 State(One("int32"), FullState)}

Numbered(shape, n) ==
    [number |-> n, type |-> shape.type, repeated |-> shape.repeated, bytes |-> shape.bytes,
     state |-> shape.state, restriction |-> shape.restriction, category |-> shape.category,
     isUid |-> shape.isUid]

AtomsOf(numberings, shapes, restricted, uint) ==
    UNION {{[fields |-> [k \in DOMAIN n |-> Numbered(s[k], n[k])],
             restricted |-> r, isUintAllowed |-> u] :
               s \in [DOMAIN n -> shapes], r \in restricted, u \in uint} : n \in numberings}

MCAtoms ==
    AtomsOf({<<>>, <<1>>, <<2>>}, Shapes, BOOLEAN, BOOLEAN)
    \cup AtomsOf({<<1, 2>>}, Shapes, BOOLEAN, BOOLEAN)
    \cup AtomsOf({<<1, 3>>, <<2, 3>>}, Shapes, {FALSE}, {FALSE})
    \cup AtomsOf({<<1, 2, 3>>, <<1, 2, 4>>, <<1, 3, 4>>, <<2, 3, 5>>}, LinkedShapes,
                 {FALSE}, {FALSE})
    \cup AtomsOf({<<1, 2, 3, 4>>, <<1, 3, 5, 6>>}, LinkedShapes, {FALSE}, {FALSE})
=============================================================================
