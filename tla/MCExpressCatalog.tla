-------------------------- MODULE MCExpressCatalog --------------------------
(***************************************************************************)
(* Directories for TLC: two .cfg files of any two metrics out of a pool    *)
(* that has every flaw, with an entry that is not a .cfg file; files that  *)
(* do not parse or cannot be read; and both tools.                         *)
(***************************************************************************)
EXTENDS ExpressCatalog

\* 1, 2 and 3 are well named, 4 is not; 1 and 3 have one hash.
MCWellNamed   == 1 .. 3
MCFingerprint == 1 :> 10 @@ 2 :> 20 @@ 3 :> 10

Metric(ids, type) == [id |-> ids, type |-> type]
Metrics == {Metric({1}, 1), Metric({2}, 4), Metric({1}, 2), Metric({3}, 1),
            Metric({2}, METRIC_TYPE_UNKNOWN), Metric({}, 1), Metric({4}, 1)}

Config(list) == [regular |-> TRUE, cfg |-> TRUE, readable |-> TRUE, parses |-> TRUE, metrics |-> list]
Broken       == [Config(<<>>) EXCEPT !.parses = FALSE]
Unreadable   == [Config(<<Metric({2}, 1)>>) EXCEPT !.readable = FALSE]
Folder       == [Config(<<Metric({3}, 1)>>) EXCEPT !.regular = FALSE, !.cfg = FALSE]
Text         == [Config(<<>>) EXCEPT !.cfg = FALSE, !.parses = FALSE]

Single == {Config(<<m>>) : m \in Metrics} \cup {Config(<<>>), Broken, Unreadable}
Pairs  == {Config(<<m, n>>) : m, n \in Metrics}

Tools == {[tool |-> "validator", java |-> FALSE, writable |-> FALSE],
          [tool |-> "codegen", java |-> FALSE, writable |-> TRUE],
          [tool |-> "codegen", java |-> TRUE, writable |-> TRUE],
          [tool |-> "codegen", java |-> TRUE, writable |-> FALSE]}

Request(t, found, directory) ==
  [tool |-> t.tool, java |-> t.java, writable |-> t.writable, exists |-> found,
   entries |-> directory]

MCRequests ==
  {Request(t, TRUE, [a |-> f, b |-> g, c |-> other]) :
     t \in Tools, f \in Single, g \in Single, other \in {Folder, Text}}
  \cup {Request(t, TRUE, [a |-> f, b |-> g]) :
          t \in {t \in Tools : t.java => t.writable}, f \in Pairs,
          g \in {Config(<<Metric({2}, 4)>>), Config(<<Metric({3}, 1)>>)}}
  \cup {Request(t, FALSE, [n \in {} |-> Broken]) : t \in Tools}
=============================================================================
