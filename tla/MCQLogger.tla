------------------------------ MODULE MCQLogger ------------------------------
(***************************************************************************)
(* Calls of QLogger.write for TLC: every signature of at most two types,   *)
(* arguments null, empty and not; chains of every evenness; and events     *)
(* around the two limits, the payload of a log entry and the byte that     *)
(* counts the nodes of a chain.                                            *)
(***************************************************************************)
EXTENDS QLogger

Call(types, args) == [signature |-> types, args |-> args, uids |-> {}, tags |-> {}]
ChainCall(types, args, uids, nodes) ==
  [signature |-> <<"ATTRIBUTION_CHAIN">> \o types, args |-> <<{}>> \o args,
   uids |-> uids, tags |-> nodes]

Types == QTypes \ {"ATTRIBUTION_CHAIN"}
Lengths == {{}, {0}, {3}}
Args(type) == IF type \in {"STRING", "BYTE_ARRAY"} THEN Lengths ELSE {{}}

One == UNION {{<<<<t>>, <<a>>>> : a \in Args(t)} : t \in Types}
Tags == {{}, {<<>>}} \cup {{<<a>>} : a \in Lengths} \cup {{<<a, b>>} : a, b \in Lengths}

Short ==
  {Call(<<>>, <<>>)}
    \cup {Call(p[1], p[2]) : p \in One}
    \cup {Call(p[1] \o q[1], p[2] \o q[2]) : p, q \in One}
    \cup {ChainCall(p[1], p[2], u, t) :
             p \in One \cup {<<<<>>, <<>>>>}, u \in {{}, {0}, {1}, {2}}, t \in Tags}

\* 16 and 5 bytes before the string and 9 after it; 16, 2 and 12 for each node
\* besides its tag.
Strings == {Call(<<"STRING", "LONG">>, <<{n}, {}>>) : n \in 4033 .. 4036}
Chains ==
  {ChainCall(<<>>, <<>>, {2}, {<<{3}, {n}>>}) : n \in 4018 .. 4021}
    \cup {ChainCall(<<>>, <<>>, {n}, {[i \in 1 .. n |-> {}]}) : n \in {255, 256}}

MCCalls == Short \cup Strings \cup Chains
=============================================================================
