------------------------------- MODULE QLogger -------------------------------
(***************************************************************************)
(* One call of QLogger.write, the Java method generated for API level Q    *)
(* (java_writer_q.cpp).  It computes the size of the event in a first pass *)
(* over its arguments, allocates a buffer of that size, and fills it in a  *)
(* second pass with a position of its own; an attribution chain is filled  *)
(* by a helper with a third.  Of the buffer the model keeps the pieces     *)
(* written, not their bytes; a string or an array is its length in bytes.  *)
(*                                                                         *)
(* The lengths are those of a Java process: together below 2^31.           *)
(***************************************************************************)
EXTENDS JavaTypes, SequencesExt, FiniteSets

CONSTANT Calls       \* the calls: a signature, its arguments and those of its chain

\* A string or an array may be null; so may a tag.  Other arguments are {}.
IsLength(a) == a \in SUBSET Nat /\ \A m, n \in a : m = n

\* The signatures are those the collation hands to write_java_methods_q_schema.
ASSUME CallsAssumption ==
  \A c \in Calls :
    /\ c.signature \in Seq(QTypes) /\ ChainFirst(c.signature)
    /\ Len(c.args) = Len(c.signature)
    /\ \A k \in 1 .. Len(c.signature) :
         /\ IsLength(c.args[k])
         /\ c.signature[k] \notin {"STRING", "BYTE_ARRAY"} => c.args[k] = {}
    /\ IsLength(c.uids)
    /\ \A t \in c.tags : t \in Seq(SUBSET Nat) /\ \A i \in 1 .. Len(t) : IsLength(t[i])

VARIABLES
  call,
  phase,        \* "size", "sizeNodes", "write", "writeNodes"; "sent" or "dropped" when returned
  arg, node,    \* the argument and the node of its chain the loops have come to
  sizes,        \* the values `needed` has had, one more for each argument
  attrSizes,    \* those attrSize has had, one more for each node
  pos, chainPos,
  pieces        \* what has been written, in order

vars == <<call, phase, arg, node, sizes, attrSizes, pos, chainPos, pieces>>

\* Mistake: forget the four bytes of the header of a log entry.
MAX_EVENT_PAYLOAD_Whole == 4068
MAX_EVENT_PAYLOAD == 4068 - 4

INT_TYPE_SIZE        == 5
FLOAT_TYPE_SIZE      == 5
LONG_TYPE_SIZE       == 9
STRING_TYPE_OVERHEAD == 5
LIST_TYPE_OVERHEAD   == 2

\* null is replaced by the empty string or array.
LengthOf(length) == IF length = {} THEN 0 ELSE CHOOSE n \in length : TRUE

signature == call.signature
needed    == sizes[Len(sizes)]
attrSize  == attrSizes[Len(attrSizes)]

uidsLength == LengthOf(call.uids)
tags == IF call.tags = {} THEN <<>> ELSE CHOOSE t \in call.tags : TRUE
tagLength(i) == LengthOf(tags[i])

Init ==
  /\ call \in Calls
  /\ phase = "size" /\ arg = 1 /\ node = 1
  /\ sizes = <<LIST_TYPE_OVERHEAD + LONG_TYPE_SIZE + INT_TYPE_SIZE>>
  /\ attrSizes = <<>>
  /\ pos = 0 /\ chainPos = 0 /\ pieces = <<>>

-----------------------------------------------------------------------------
(* The size pass. *)

AtArgument(p) == phase = p /\ arg <= Len(signature)
AtChain(p)    == AtArgument(p) /\ signature[arg] = "ATTRIBUTION_CHAIN"
AtValue(p)    == AtArgument(p) /\ signature[arg] # "ATTRIBUTION_CHAIN"

PlainSize(type, a) ==
  CASE type = "LONG" -> LONG_TYPE_SIZE
    [] type \in {"STRING", "BYTE_ARRAY"} -> STRING_TYPE_OVERHEAD + LengthOf(a)
    [] OTHER -> INT_TYPE_SIZE

SizeValue ==
  /\ AtValue("size")
  /\ sizes' = Append(sizes, needed + PlainSize(signature[arg], call.args[arg]))
  /\ arg' = arg + 1
  /\ UNCHANGED <<call, phase, node, attrSizes, pos, chainPos, pieces>>

SizeChain ==
  /\ AtChain("size")
  /\ IF uidsLength # Len(tags)
     THEN phase' = "dropped" /\ UNCHANGED attrSizes
     ELSE phase' = "sizeNodes" /\ attrSizes' = <<LIST_TYPE_OVERHEAD>>
  /\ UNCHANGED <<call, arg, node, sizes, pos, chainPos, pieces>>

\* Mistake: forget that every node is a list of its own.
NodeSize_NoList(i) == INT_TYPE_SIZE + STRING_TYPE_OVERHEAD + tagLength(i)
NodeSize(i) == LIST_TYPE_OVERHEAD + INT_TYPE_SIZE + STRING_TYPE_OVERHEAD + tagLength(i)

SizeNode ==
  /\ phase = "sizeNodes" /\ node <= Len(tags)
  /\ attrSizes' = Append(attrSizes, attrSize + NodeSize(node))
  /\ node' = node + 1
  /\ UNCHANGED <<call, phase, arg, sizes, pos, chainPos, pieces>>

SizeLastNode ==
  /\ phase = "sizeNodes" /\ node > Len(tags)
  /\ sizes' = Append(sizes, needed + attrSize)
  /\ arg' = arg + 1
  /\ phase' = "size"
  /\ UNCHANGED <<call, node, attrSizes, pos, chainPos, pieces>>

-----------------------------------------------------------------------------
(* The write pass. *)

\* A value at a position of the buffer, and the head of a list of some items.
Value(at, size) == [at |-> at, size |-> size, items |-> 0]
List(at, items) == [at |-> at, size |-> LIST_TYPE_OVERHEAD, items |-> items]

\* Mistake: count the arguments without the timestamp and the atom id.
Header_ArgumentsOnly ==
  <<List(0, Len(signature)),
    Value(LIST_TYPE_OVERHEAD, LONG_TYPE_SIZE),
    Value(LIST_TYPE_OVERHEAD + LONG_TYPE_SIZE, INT_TYPE_SIZE)>>

\* The list, the timestamp and the atom id.  The count is a literal: with more
\* than 125 arguments javac rejects the method.
Header ==
  <<List(0, Len(signature) + 2),
    Value(LIST_TYPE_OVERHEAD, LONG_TYPE_SIZE),
    Value(LIST_TYPE_OVERHEAD + LONG_TYPE_SIZE, INT_TYPE_SIZE)>>

Drop ==
  /\ phase = "size" /\ arg > Len(signature) /\ needed > MAX_EVENT_PAYLOAD
  /\ phase' = "dropped"
  /\ UNCHANGED <<call, arg, node, sizes, attrSizes, pos, chainPos, pieces>>

Allocate ==
  /\ phase = "size" /\ arg > Len(signature) /\ needed <= MAX_EVENT_PAYLOAD
  /\ pieces' = Header
  /\ pos' = LIST_TYPE_OVERHEAD + LONG_TYPE_SIZE + INT_TYPE_SIZE
  /\ arg' = 1
  /\ phase' = "write"
  /\ UNCHANGED <<call, node, sizes, attrSizes, chainPos>>

\* Mistake: advance by the size of an int after a float or a long.
WrittenSize_LongAsInt(type, a) ==
  IF type \in {"STRING", "BYTE_ARRAY"} THEN STRING_TYPE_OVERHEAD + LengthOf(a) ELSE INT_TYPE_SIZE

WrittenSize(type, a) ==
  CASE type \in {"STRING", "BYTE_ARRAY"} -> STRING_TYPE_OVERHEAD + LengthOf(a)
    [] type = "FLOAT" -> FLOAT_TYPE_SIZE
    [] type = "LONG" -> LONG_TYPE_SIZE
    [] OTHER -> INT_TYPE_SIZE

WriteValue ==
  /\ AtValue("write")
  /\ LET size == WrittenSize(signature[arg], call.args[arg]) IN
       /\ pieces' = Append(pieces, Value(pos, size))
       /\ pos' = pos + size
  /\ arg' = arg + 1
  /\ UNCHANGED <<call, phase, node, sizes, attrSizes, chainPos>>

\* writeAttributionChain gets a copy of pos; the count is one byte.
WriteChain ==
  /\ AtChain("write")
  /\ pieces' = Append(pieces, List(pos, Len(tags) % 256))
  /\ chainPos' = pos + LIST_TYPE_OVERHEAD
  /\ node' = 1
  /\ phase' = "writeNodes"
  /\ UNCHANGED <<call, arg, sizes, attrSizes, pos>>

\* Mistake: write the tag over the uid.
WriteNode_TagOverUid ==
  /\ phase = "writeNodes" /\ node <= Len(tags)
  /\ LET uid == chainPos + LIST_TYPE_OVERHEAD
         size == STRING_TYPE_OVERHEAD + tagLength(node)
     IN /\ pieces' = pieces \o <<List(chainPos, 2), Value(uid, INT_TYPE_SIZE), Value(uid, size)>>
        /\ chainPos' = uid + size
  /\ node' = node + 1
  /\ UNCHANGED <<call, phase, arg, sizes, attrSizes, pos>>

\* A node is a list of its uid and its tag.
WriteNode ==
  /\ phase = "writeNodes" /\ node <= Len(tags)
  /\ LET uid == chainPos + LIST_TYPE_OVERHEAD
         tag == uid + INT_TYPE_SIZE
         size == STRING_TYPE_OVERHEAD + tagLength(node)
     IN /\ pieces' = pieces \o <<List(chainPos, 2), Value(uid, INT_TYPE_SIZE), Value(tag, size)>>
        /\ chainPos' = tag + size
  /\ node' = node + 1
  /\ UNCHANGED <<call, phase, arg, sizes, attrSizes, pos>>

WriteLastNode ==
  /\ phase = "writeNodes" /\ node > Len(tags)
  /\ pos' = pos + attrSize
  /\ arg' = arg + 1
  /\ phase' = "write"
  /\ UNCHANGED <<call, node, sizes, attrSizes, chainPos, pieces>>

\* StatsLog.writeRaw(buff, pos)
Send ==
  /\ phase = "write" /\ arg > Len(signature)
  /\ phase' = "sent"
  /\ UNCHANGED <<call, arg, node, sizes, attrSizes, pos, chainPos, pieces>>

Returned == phase \in {"sent", "dropped"} /\ UNCHANGED vars

Next ==
  \/ SizeValue \/ SizeChain \/ SizeNode \/ SizeLastNode
  \/ Drop \/ Allocate
  \/ WriteValue \/ WriteChain \/ WriteNode \/ WriteLastNode
  \/ Send
  \/ Returned

Spec == Init /\ [][Next]_vars

-----------------------------------------------------------------------------

Pieces == [at : Nat, size : Nat, items : Nat]

\* The variables keep their types, the loops their bounds.
TypeOK ==
  /\ call \in Calls
  /\ phase \in {"size", "sizeNodes", "write", "writeNodes", "sent", "dropped"}
  /\ arg \in 1 .. Len(signature) + 1 /\ node \in Nat \ {0}
  /\ sizes \in Seq(Nat) /\ attrSizes \in Seq(Nat)
  /\ pos \in Nat /\ chainPos \in Nat
  /\ pieces \in Seq(Pieces)

Sizing  == phase \in {"size", "sizeNodes"}
Writing == phase \in {"write", "writeNodes", "sent"}
written == IF phase = "writeNodes" THEN chainPos ELSE pos

\* What the size pass adds for argument k once it has passed it.
SizeOf(k) ==
  IF signature[k] = "ATTRIBUTION_CHAIN" THEN attrSize ELSE PlainSize(signature[k], call.args[k])

Ascending(s) == \A j, k \in 1 .. Len(s) : j <= k => s[j] <= s[k]

\* The size pass has recorded the size before every argument and every node it
\* has passed; the write pass will need each of them again.
SizesRecorded ==
  /\ Len(sizes) >= 1 /\ sizes[1] = LIST_TYPE_OVERHEAD + LONG_TYPE_SIZE + INT_TYPE_SIZE
  /\ \A k \in 1 .. Len(sizes) - 1 : k <= Len(signature) /\ sizes[k + 1] = sizes[k] + SizeOf(k)
  /\ Ascending(sizes)
  /\ Sizing => Len(sizes) = arg
  /\ Writing => Len(sizes) = Len(signature) + 1

NodesRecorded ==
  /\ attrSizes # <<>> => attrSizes[1] = LIST_TYPE_OVERHEAD
  /\ \A i \in 1 .. Len(attrSizes) - 1 : i <= Len(tags) /\ attrSizes[i + 1] = attrSizes[i] + NodeSize(i)
  /\ Ascending(attrSizes)
  /\ phase = "sizeNodes" => AtChain("sizeNodes") /\ Len(attrSizes) = node
  /\ (Writing \/ (phase = "size" /\ arg > 1))
       => \A k \in DOMAIN signature :
            signature[k] = "ATTRIBUTION_CHAIN" => Len(attrSizes) = Len(tags) + 1
  /\ phase = "size" /\ arg = 1 => node = 1

\* The write pass is, at every argument and at every node of a chain, where the
\* size pass was: neither drifts from the other (java_writer_q.cpp:85, :196).
WriteFollowsSize ==
  /\ phase \in {"write", "sent"} => pos = sizes[arg]
  /\ phase = "writeNodes" =>
       /\ AtChain("writeNodes") /\ pos = sizes[arg]
       /\ node <= Len(attrSizes) /\ chainPos = pos + attrSizes[node]
  /\ phase = "sent" => arg = Len(signature) + 1

\* Pieces p follow each other from one position to another.
Tile(p, from, upto) ==
  /\ \A i \in 1 .. Len(p) :
       /\ p[i].at = IF i = 1 THEN from ELSE p[i - 1].at + p[i - 1].size
       /\ p[i].at + p[i].size <= upto
  /\ upto = IF Len(p) = 0 THEN from ELSE p[Len(p)].at + p[Len(p)].size

\* The buffer is filled from its start without a gap or an overlap: no byte of
\* the event is left uninitialised and none is written twice.
BufferTiled == Writing => Tile(pieces, 0, written)

\* No piece is written past the end of the buffer, where the generated method
\* would throw into its caller, and the event sent is the whole buffer.
InBuffer ==
  /\ Writing => \A i \in DOMAIN pieces : pieces[i].at + pieces[i].size <= needed
  /\ Writing => needed <= MAX_EVENT_PAYLOAD
  /\ phase = "sent" => pos = needed

IInv ==
  /\ TypeOK
  /\ SizesRecorded /\ NodesRecorded
  /\ WriteFollowsSize
  /\ BufferTiled
  /\ Writing => needed <= MAX_EVENT_PAYLOAD

\* The size of the event by the layout of EventLog: a reference for `needed`.
\* A node takes 12 bytes besides its tag.
TagBytes == UNION {{i} \X (1 .. tagLength(i)) : i \in DOMAIN tags}
TagsSize == 2 + 12 * Len(tags) + Cardinality(TagBytes)
LayoutSize(k) ==
  CASE signature[k] = "ATTRIBUTION_CHAIN" -> TagsSize
    [] signature[k] = "LONG" -> 9
    [] OTHER -> 5 + LengthOf(call.args[k])
EventSize == FoldLeft(LAMBDA n, k : n + LayoutSize(k), 16, [k \in DOMAIN signature |-> k])

UnevenChain ==
  \E k \in DOMAIN signature : signature[k] = "ATTRIBUTION_CHAIN" /\ uidsLength # Len(tags)

\* An event is dropped only if its chain is uneven or it is larger than a log
\* entry; one that just fits is sent.
SentWhenItFits ==
  /\ phase = "sent" => ~UnevenChain /\ needed = EventSize /\ EventSize <= 4064
  /\ phase = "dropped" => UnevenChain \/ EventSize > 4064

\* The items that the first k of the pieces p announce, the event itself not one.
Announced(p, k) == Cardinality(UNION {{i} \X (1 .. p[i].items) : i \in 1 .. k})

LongChain ==
  /\ \E k \in DOMAIN signature : signature[k] = "ATTRIBUTION_CHAIN"
  /\ Len(tags) > 255

\* A reader of the event, which expects as many items after the head of a list
\* as its count says, reads every piece and expects no more, as long as the
\* count of the chain fits its byte: from 256 nodes on, which fit the buffer
\* when the tags are short, the event cannot be read back.
ReadBack ==
  phase = "sent" =>
    LET AllRead == /\ \A k \in 1 .. Len(pieces) - 1 : Announced(pieces, k) >= k
                   /\ Announced(pieces, Len(pieces)) = Len(pieces) - 1
    IN AllRead <=> ~LongChain
=============================================================================
