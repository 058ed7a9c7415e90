---------------------------- MODULE QLoggerProofs ----------------------------
(***************************************************************************)
(* The two passes of QLogger.write agree, for every call: the buffer is    *)
(* filled without a gap, and nothing is written past its end.  What fits a *)
(* log entry is sent, and can be read back unless a chain is too long.     *)
(*                                                                         *)
(* The invariant is inductive because `needed` is kept with its history:   *)
(* where the write pass stands at an argument is what the size pass had    *)
(* there, and the sizes only grow.  By that history `needed` is the sum of *)
(* the layout.  For the reader, what the pieces announce is kept in        *)
(* balance with what is still to be written, less what a count cut off.    *)
(***************************************************************************)
EXTENDS QLogger, Recursion

LEMMA LengthOfNat ==
  ASSUME NEW a, IsLength(a)
  PROVE  LengthOf(a) \in Nat
BY DEF LengthOf, IsLength

\* What the types of a call and its arguments are.
LEMMA CallTypes ==
  ASSUME call \in Calls
  PROVE  /\ signature \in Seq(QTypes)
         /\ Len(signature) \in Nat
         /\ \A k \in 1 .. Len(signature) : IsLength(call.args[k])
         /\ \A k \in 1 .. Len(signature) : signature[k] = "ATTRIBUTION_CHAIN" => k = 1
<1>1. /\ signature \in Seq(QTypes) /\ ChainFirst(signature)
      /\ \A k \in 1 .. Len(signature) : IsLength(call.args[k])
  BY CallsAssumption DEF signature
<1>2. Len(signature) \in Nat /\ DOMAIN signature = 1 .. Len(signature)
  BY <1>1
<1> QED BY <1>1, <1>2 DEF ChainFirst

LEMMA TagsType ==
  ASSUME call \in Calls
  PROVE  /\ Len(tags) \in Nat
         /\ \A i \in 1 .. Len(tags) : tagLength(i) \in Nat
<1>1. CASE call.tags = {}
  BY <1>1 DEF tags
<1>2. CASE call.tags # {}
  <2>1. tags \in call.tags
    BY <1>2 DEF tags
  <2>2. tags \in Seq(SUBSET Nat) /\ \A i \in 1 .. Len(tags) : IsLength(tags[i])
    BY <2>1, CallsAssumption
  <2> QED
    BY <2>2, LengthOfNat DEF tagLength
<1> QED
  BY <1>1, <1>2

LEMMA NodeSizeType ==
  ASSUME call \in Calls, NEW i \in 1 .. Len(tags)
  PROVE  /\ NodeSize(i) \in Nat
         /\ NodeSize(i) = LIST_TYPE_OVERHEAD + INT_TYPE_SIZE + STRING_TYPE_OVERHEAD + tagLength(i)
BY TagsType DEF NodeSize, LIST_TYPE_OVERHEAD, INT_TYPE_SIZE, STRING_TYPE_OVERHEAD

\* The two passes take the same size for a value, whatever its type.
LEMMA SameSize ==
  ASSUME call \in Calls, NEW k \in 1 .. Len(signature)
  PROVE  /\ PlainSize(signature[k], call.args[k]) \in Nat
         /\ WrittenSize(signature[k], call.args[k]) = PlainSize(signature[k], call.args[k])
<1>1. LengthOf(call.args[k]) \in Nat
  BY CallTypes, LengthOfNat
<1> QED
  BY <1>1 DEF PlainSize, WrittenSize, INT_TYPE_SIZE, FLOAT_TYPE_SIZE, LONG_TYPE_SIZE,
              STRING_TYPE_OVERHEAD

\* Pieces that begin where others end follow them.
LEMMA TileConcat ==
  ASSUME NEW p \in Seq(Pieces), NEW q \in Seq(Pieces),
         NEW a \in Nat, NEW b \in Nat, NEW c \in Nat,
         Tile(p, a, b), Tile(q, b, c), b <= c
  PROVE  /\ p \o q \in Seq(Pieces)
         /\ Tile(p \o q, a, c)
<1> DEFINE r == p \o q
<1>1. /\ r \in Seq(Pieces) /\ Len(r) = Len(p) + Len(q)
      /\ \A i \in 1 .. Len(p) : r[i] = p[i]
      /\ \A i \in 1 .. Len(q) : r[Len(p) + i] = q[i]
      /\ Len(p) \in Nat /\ Len(q) \in Nat
      /\ \A i \in 1 .. Len(p) : p[i] \in Pieces
      /\ \A i \in 1 .. Len(q) : q[i] \in Pieces
  OBVIOUS
<1>2. ASSUME NEW i \in 1 .. Len(r)
      PROVE  /\ r[i].at = IF i = 1 THEN a ELSE r[i - 1].at + r[i - 1].size
             /\ r[i].at + r[i].size <= c
  <2>1. CASE i <= Len(p)
    <3>1. r[i] = p[i] /\ (i # 1 => r[i - 1] = p[i - 1])
      BY <1>1, <2>1
    <3>2. /\ p[i].at = IF i = 1 THEN a ELSE p[i - 1].at + p[i - 1].size
          /\ p[i].at + p[i].size <= b
      BY <2>1, <1>1 DEF Tile
    <3>3. p[i].at \in Nat /\ p[i].size \in Nat
      BY <2>1, <1>1 DEF Pieces
    <3> HIDE DEF r
    <3>4. r[i].at + r[i].size <= c
      BY <3>1, <3>2, <3>3
    <3> QED
      BY <3>1, <3>2, <3>4
  <2>2. CASE i > Len(p)
    <3> DEFINE j == i - Len(p)
    <3>1. j \in 1 .. Len(q) /\ r[i] = q[j] /\ (j # 1 => r[i - 1] = q[j - 1])
      <4>1. j \in 1 .. Len(q) /\ i = Len(p) + j
        BY <2>2, <1>1
      <4>2. r[i] = q[j]
        BY <4>1, <1>1
      <4>3. j # 1 => j - 1 \in 1 .. Len(q) /\ i - 1 = Len(p) + (j - 1)
        BY <4>1, <1>1
      <4> QED
        BY <4>1, <4>2, <4>3, <1>1
    <3>2. /\ q[j].at = IF j = 1 THEN b ELSE q[j - 1].at + q[j - 1].size
          /\ q[j].at + q[j].size <= c
      BY <3>1 DEF Tile
    <3>3. j = 1 => b = IF i = 1 THEN a ELSE r[i - 1].at + r[i - 1].size
      <4>1. b = IF Len(p) = 0 THEN a ELSE p[Len(p)].at + p[Len(p)].size
        BY DEF Tile
      <4>2. j = 1 => i - 1 = Len(p) /\ (i # 1 => Len(p) \in 1 .. Len(p) /\ r[i - 1] = p[Len(p)])
        BY <1>1
      <4> QED
        BY <4>1, <4>2, <1>1
    <3>4. j # 1 => i # 1
      BY <3>1, <1>1
    <3> QED
      BY <3>1, <3>2, <3>3, <3>4
  <2> QED
    BY <2>1, <2>2, <1>1
<1>3. c = IF Len(r) = 0 THEN a ELSE r[Len(r)].at + r[Len(r)].size
  <2>1. CASE Len(q) = 0
    <3>1. c = b /\ Len(r) = Len(p)
      BY <2>1, <1>1 DEF Tile
    <3>2. Len(p) # 0 => r[Len(r)] = p[Len(p)]
      BY <3>1, <1>1
    <3> QED
      BY <3>1, <3>2 DEF Tile
  <2>2. CASE Len(q) # 0
    <3>1. r[Len(r)] = q[Len(q)] /\ Len(r) # 0
      BY <2>2, <1>1
    <3> QED
      BY <3>1, <2>2 DEF Tile
  <2> QED
    BY <2>1, <2>2
<1> HIDE DEF r
<1>4. Tile(r, a, c)
  BY <1>2, <1>3 DEF Tile
<1> QED
  BY <1>1, <1>4 DEF r

\* The running sizes stay ascending when one at least as large is added.
LEMMA AppendAscending ==
  ASSUME NEW s \in Seq(Nat), NEW n \in Nat, Ascending(s), Len(s) # 0, s[Len(s)] <= n
  PROVE  Ascending(Append(s, n))
<1>1. /\ Len(Append(s, n)) = Len(s) + 1 /\ Len(s) \in Nat
      /\ \A i \in 1 .. Len(s) : Append(s, n)[i] = s[i] /\ s[i] \in Nat
      /\ Append(s, n)[Len(s) + 1] = n
  OBVIOUS
<1>2. \A i \in 1 .. Len(s) : s[i] <= n
  <2> TAKE i \in 1 .. Len(s)
  <2>1. s[i] <= s[Len(s)]
    BY <1>1 DEF Ascending
  <2> QED
    BY <2>1, <1>1
<1> SUFFICES ASSUME NEW j \in 1 .. Len(s) + 1, NEW k \in 1 .. Len(s) + 1, j <= k
             PROVE  Append(s, n)[j] <= Append(s, n)[k]
  BY <1>1 DEF Ascending
<1>3. CASE k \in 1 .. Len(s)
  BY <1>3, <1>1 DEF Ascending
<1>4. CASE k = Len(s) + 1 /\ j \in 1 .. Len(s)
  BY <1>4, <1>1, <1>2
<1>5. CASE k = Len(s) + 1 /\ j = Len(s) + 1
  BY <1>5, <1>1
<1> QED
  BY <1>3, <1>4, <1>5, <1>1

-----------------------------------------------------------------------------

\* The parts of the invariant hold of a new call.
LEMMA InitIInv == Init => IInv
<1> SUFFICES ASSUME Init PROVE IInv
  OBVIOUS
<1> USE DEF Init, LIST_TYPE_OVERHEAD, LONG_TYPE_SIZE, INT_TYPE_SIZE
<1>1. TypeOK
  BY CallTypes DEF TypeOK
<1>2. SizesRecorded
  BY CallTypes DEF SizesRecorded, Sizing, Writing, Ascending
<1>3. NodesRecorded
  BY DEF NodesRecorded, Writing, Ascending
<1>4. WriteFollowsSize /\ BufferTiled /\ ~Writing
  BY DEF WriteFollowsSize, BufferTiled, Writing
<1> QED
  BY <1>1, <1>2, <1>3, <1>4 DEF IInv

\* What the definitions over the call become when the call stays.
LEMMA SameCall ==
  ASSUME call' = call
  PROVE  /\ signature' = signature /\ tags' = tags /\ uidsLength' = uidsLength
         /\ \A i : NodeSize(i)' = NodeSize(i)
         /\ attrSizes' = attrSizes => attrSize' = attrSize /\ \A k : SizeOf(k)' = SizeOf(k)
BY DEF signature, tags, uidsLength, NodeSize, tagLength, attrSize, SizeOf

\* The size pass records the size of one more argument.
LEMMA SizesGrow ==
  ASSUME IInv, Sizing, arg <= Len(signature), SizeOf(arg) \in Nat,
         sizes' = Append(sizes, needed + SizeOf(arg)),
         call' = call, attrSizes' = attrSizes, arg' = arg + 1, phase' = "size"
  PROVE  sizes' \in Seq(Nat) /\ SizesRecorded'
<1>1. call \in Calls /\ arg \in 1 .. Len(signature) /\ arg \in Nat
  BY CallTypes DEF IInv, TypeOK
<1>2. sizes \in Seq(Nat) /\ Len(sizes) = arg /\ Ascending(sizes) /\ needed = sizes[arg]
  BY DEF IInv, TypeOK, SizesRecorded, Sizing, needed
<1>3. sizes[arg] \in Nat
  BY <1>1, <1>2
<1>4. /\ sizes' \in Seq(Nat) /\ Len(sizes') = arg + 1
      /\ \A k \in 1 .. arg : sizes'[k] = sizes[k]
      /\ sizes'[arg + 1] = sizes[arg] + SizeOf(arg)
  BY <1>1, <1>2, <1>3
<1>5. Ascending(sizes')
  <2>1. needed + SizeOf(arg) \in Nat /\ sizes[Len(sizes)] <= needed + SizeOf(arg)
    BY <1>2, <1>3
  <2> QED
    BY <1>1, <1>2, <2>1, AppendAscending
<1>6. \A k \in 1 .. arg : k <= Len(signature) /\ sizes'[k + 1] = sizes'[k] + SizeOf(k)
  <2> TAKE k \in 1 .. arg
  <2>1. k <= Len(signature)
    BY <1>1, CallTypes
  <2>2. CASE k = arg
    BY <2>1, <2>2, <1>4, <1>1
  <2>3. CASE k # arg
    <3>1. k \in 1 .. Len(sizes) - 1 /\ k + 1 \in 1 .. arg
      BY <2>3, <1>1, <1>2
    <3>2. sizes[k + 1] = sizes[k] + SizeOf(k)
      BY <3>1 DEF IInv, SizesRecorded
    <3> QED
      BY <2>1, <3>1, <3>2, <1>4
  <2> QED
    BY <2>2, <2>3
<1>7. Len(sizes') >= 1 /\ sizes'[1] = LIST_TYPE_OVERHEAD + LONG_TYPE_SIZE + INT_TYPE_SIZE
  BY <1>4, <1>1 DEF IInv, SizesRecorded
<1> QED
  BY <1>1, <1>4, <1>5, <1>6, <1>7, SameCall, SMTT(30) DEF SizesRecorded, Sizing, Writing

LEMMA SizeValueIInv ==
  ASSUME IInv, SizeValue
  PROVE  IInv'
<1>1. /\ call \in Calls /\ arg \in 1 .. Len(signature) /\ phase = "size"
      /\ signature[arg] # "ATTRIBUTION_CHAIN"
  BY CallTypes DEF IInv, TypeOK, SizeValue, AtValue, AtArgument
<1>2. /\ call' = call /\ attrSizes' = attrSizes /\ phase' = "size"
      /\ node' = node /\ arg' = arg + 1
      /\ pos' = pos /\ chainPos' = chainPos /\ pieces' = pieces
  BY <1>1 DEF SizeValue
<1>3. SizeOf(arg) = PlainSize(signature[arg], call.args[arg]) /\ SizeOf(arg) \in Nat
  BY <1>1, SameSize DEF SizeOf
<1>4. sizes' \in Seq(Nat) /\ SizesRecorded'
  BY <1>1, <1>2, <1>3, SizesGrow DEF SizeValue, AtValue, AtArgument, Sizing
<1>5. TypeOK'
  BY <1>1, <1>2, <1>4, SameCall, CallTypes DEF IInv, TypeOK
<1>6. NodesRecorded'
  <2>1. /\ attrSizes' # <<>> => attrSizes'[1] = LIST_TYPE_OVERHEAD
        /\ Ascending(attrSizes')
        /\ \A i \in 1 .. Len(attrSizes') - 1 :
             i <= Len(tags') /\ attrSizes'[i + 1] = attrSizes'[i] + NodeSize(i)
    BY <1>2, SameCall DEF IInv, NodesRecorded
  <2>2. \A k \in DOMAIN signature' :
          signature'[k] = "ATTRIBUTION_CHAIN" => Len(attrSizes') = Len(tags') + 1
    <3>1. CASE arg = 1
      BY <3>1, <1>1, <1>2, SameCall, CallTypes
    <3>2. CASE arg > 1
      BY <3>2, <1>1, <1>2, SameCall DEF IInv, NodesRecorded
    <3> QED
      BY <3>1, <3>2, <1>1
  <2>3. arg' # 1
    BY <1>1, <1>2
  <2> QED
    BY <2>1, <2>2, <2>3, <1>2, SameCall DEF NodesRecorded
<1>7. WriteFollowsSize' /\ BufferTiled' /\ ~Writing'
  BY <1>2 DEF WriteFollowsSize, BufferTiled, Writing
<1> QED
  BY <1>4, <1>5, <1>6, <1>7 DEF IInv

LEMMA SizeChainIInv ==
  ASSUME IInv, SizeChain
  PROVE  IInv'
<1>1. /\ call \in Calls /\ arg = 1 /\ arg \in 1 .. Len(signature) /\ phase = "size"
      /\ signature[1] = "ATTRIBUTION_CHAIN" /\ node = 1
  BY CallTypes DEF IInv, TypeOK, SizeChain, AtChain, AtArgument, NodesRecorded
<1>2. /\ call' = call /\ arg' = arg /\ node' = node /\ sizes' = sizes
      /\ pos' = pos /\ chainPos' = chainPos /\ pieces' = pieces
      /\ phase' \in {"dropped", "sizeNodes"}
  BY DEF SizeChain
<1>3. /\ phase' = "dropped" => attrSizes' = attrSizes
      /\ phase' = "sizeNodes" =>
           /\ attrSizes' \in Seq(Nat) /\ Len(attrSizes') = 1
           /\ attrSizes'[1] = LIST_TYPE_OVERHEAD /\ attrSizes'[1] \in Nat
  <2>1. LIST_TYPE_OVERHEAD \in Nat
    BY DEF LIST_TYPE_OVERHEAD
  <2>2. phase' = "dropped" => attrSizes' = attrSizes
    BY DEF SizeChain
  <2>3. phase' = "sizeNodes" => attrSizes' = <<LIST_TYPE_OVERHEAD>>
    BY DEF SizeChain
  <2>4. ASSUME NEW n \in Nat
        PROVE  <<n>> \in Seq(Nat) /\ Len(<<n>>) = 1 /\ <<n>>[1] = n
    OBVIOUS
  <2> QED
    BY <2>1, <2>2, <2>3, <2>4
<1>4. TypeOK'
  <2>1. attrSizes' \in Seq(Nat)
    BY <1>2, <1>3 DEF IInv, TypeOK
  <2> QED
    BY <2>1, <1>1, <1>2, SameCall DEF IInv, TypeOK
<1>5. SizesRecorded'
  <2>1. Len(sizes) = 1 /\ Ascending(sizes)
        /\ sizes[1] = LIST_TYPE_OVERHEAD + LONG_TYPE_SIZE + INT_TYPE_SIZE
    BY <1>1 DEF IInv, SizesRecorded, Sizing
  <2>2. sizes' = sizes
    BY <1>2
  <2>3. Len(sizes') = 1
    BY <2>1, <2>2
  <2>4. \A k \in 1 .. Len(sizes') - 1 :
          k <= Len(signature') /\ sizes'[k + 1] = sizes'[k] + SizeOf(k)'
    BY <2>3
  <2>5. Ascending(sizes')
    BY <2>1, <2>2
  <2>6. ~Writing'
    BY <1>2 DEF Writing
  <2>7. Len(sizes') = arg' /\ Len(sizes') >= 1
    BY <2>3, <1>1, <1>2
  <2>8. sizes'[1] = LIST_TYPE_OVERHEAD + LONG_TYPE_SIZE + INT_TYPE_SIZE
    BY <2>1, <2>2
  <2> QED
    BY <2>4, <2>5, <2>6, <2>7, <2>8
       DEF SizesRecorded, LIST_TYPE_OVERHEAD, LONG_TYPE_SIZE, INT_TYPE_SIZE
<1>6. NodesRecorded'
  <2>1. CASE phase' = "dropped"
    <3>1. /\ attrSizes' # <<>> => attrSizes'[1] = LIST_TYPE_OVERHEAD
          /\ Ascending(attrSizes')
          /\ \A i \in 1 .. Len(attrSizes') - 1 :
               i <= Len(tags') /\ attrSizes'[i + 1] = attrSizes'[i] + NodeSize(i)
      BY <2>1, <1>2, <1>3, SameCall DEF IInv, NodesRecorded
    <3> QED
      BY <3>1, <2>1, SameCall, <1>2 DEF NodesRecorded, Writing
  <2>2. CASE phase' = "sizeNodes"
    <3>1. Len(attrSizes') = 1 /\ attrSizes'[1] = LIST_TYPE_OVERHEAD /\ attrSizes'[1] \in Nat
      BY <2>2, <1>3
    <3>2. Ascending(attrSizes')
      BY <3>1 DEF Ascending
    <3>3. AtChain("sizeNodes")'
      BY <2>2, <1>1, <1>2, SameCall DEF AtChain, AtArgument
    <3> QED
      BY <2>2, <3>1, <3>2, <3>3, <1>1, <1>2 DEF NodesRecorded, Writing
  <2> QED
    BY <2>1, <2>2, <1>2
<1>7. WriteFollowsSize' /\ BufferTiled' /\ ~Writing'
  BY <1>2 DEF WriteFollowsSize, BufferTiled, Writing
<1> QED
  BY <1>4, <1>5, <1>6, <1>7 DEF IInv

LEMMA SizeNodeIInv ==
  ASSUME IInv, SizeNode
  PROVE  IInv'
<1>1. /\ call \in Calls /\ phase = "sizeNodes" /\ AtChain("sizeNodes")
      /\ node \in 1 .. Len(tags) /\ node \in Nat /\ Len(tags) \in Nat
      /\ attrSizes \in Seq(Nat) /\ Len(attrSizes) = node
  BY TagsType DEF IInv, TypeOK, SizeNode, NodesRecorded
<1>2. /\ call' = call /\ phase' = phase /\ arg' = arg /\ sizes' = sizes
      /\ node' = node + 1 /\ attrSizes' = Append(attrSizes, attrSize + NodeSize(node))
      /\ pos' = pos /\ chainPos' = chainPos /\ pieces' = pieces
  BY DEF SizeNode
<1>3. attrSize = attrSizes[node] /\ attrSize \in Nat /\ NodeSize(node) \in Nat
  BY <1>1, NodeSizeType DEF attrSize
<1>4. /\ attrSizes' \in Seq(Nat) /\ Len(attrSizes') = node + 1
      /\ \A i \in 1 .. node : attrSizes'[i] = attrSizes[i]
      /\ attrSizes'[node + 1] = attrSizes[node] + NodeSize(node)
  BY <1>1, <1>2, <1>3
<1>5. TypeOK'
  BY <1>1, <1>2, <1>4, SameCall DEF IInv, TypeOK
<1>6. SizesRecorded'
  <2>1. Len(sizes) = arg /\ arg = 1
    BY <1>1, CallTypes DEF IInv, TypeOK, SizesRecorded, Sizing, AtChain, AtArgument
  <2>2. Len(sizes') = 1 /\ Ascending(sizes') /\ Len(sizes') = arg'
    BY <2>1, <1>2 DEF IInv, SizesRecorded
  <2>3. \A k \in 1 .. Len(sizes') - 1 :
          k <= Len(signature') /\ sizes'[k + 1] = sizes'[k] + SizeOf(k)'
    BY <2>2
  <2>4. sizes'[1] = LIST_TYPE_OVERHEAD + LONG_TYPE_SIZE + INT_TYPE_SIZE
    BY <1>2 DEF IInv, SizesRecorded
  <2>5. ~Writing'
    BY <1>1, <1>2 DEF Writing
  <2> QED
    BY <2>2, <2>3, <2>4, <2>5
       DEF SizesRecorded, LIST_TYPE_OVERHEAD, LONG_TYPE_SIZE, INT_TYPE_SIZE
<1>7. NodesRecorded'
  <2>1. Ascending(attrSizes')
    <3>1. Ascending(attrSizes)
      BY DEF IInv, NodesRecorded
    <3>2. /\ attrSize + NodeSize(node) \in Nat /\ Len(attrSizes) # 0
          /\ attrSizes[Len(attrSizes)] <= attrSize + NodeSize(node)
      BY <1>1, <1>3
    <3> QED
      BY <3>1, <3>2, <1>1, <1>2, AppendAscending
  <2>2. \A i \in 1 .. node : attrSizes'[i + 1] = attrSizes'[i] + NodeSize(i)
    <3> TAKE i \in 1 .. node
    <3>1. CASE i = node
      BY <3>1, <1>4, <1>1
    <3>2. CASE i # node
      <4>1. i \in 1 .. Len(attrSizes) - 1 /\ i + 1 \in 1 .. node
        BY <3>2, <1>1
      <4>2. attrSizes[i + 1] = attrSizes[i] + NodeSize(i)
        BY <4>1 DEF IInv, NodesRecorded
      <4> QED
        BY <4>1, <4>2, <1>4
    <3> QED
      BY <3>1, <3>2
  <2>3. \A i \in 1 .. Len(attrSizes') - 1 :
          i <= Len(tags') /\ attrSizes'[i + 1] = attrSizes'[i] + NodeSize(i)'
    <3>1. Len(attrSizes') - 1 = node /\ \A i \in 1 .. node : i <= Len(tags)
      BY <1>4, <1>1
    <3> QED
      BY <3>1, <2>2, <1>2, SameCall
  <2>4. attrSizes' # <<>> => attrSizes'[1] = LIST_TYPE_OVERHEAD
    BY <1>1, <1>4 DEF IInv, NodesRecorded
  <2>5. AtChain("sizeNodes")'
    BY <1>1, <1>2, SameCall DEF AtChain, AtArgument
  <2>6. ~Writing' /\ phase' = "sizeNodes"
    BY <1>1, <1>2 DEF Writing
  <2> QED
    BY <2>1, <2>3, <2>4, <2>5, <2>6, <1>2, <1>4 DEF NodesRecorded
<1>8. WriteFollowsSize' /\ BufferTiled' /\ ~Writing'
  BY <1>1, <1>2 DEF WriteFollowsSize, BufferTiled, Writing
<1> QED
  BY <1>5, <1>6, <1>7, <1>8 DEF IInv

LEMMA SizeLastNodeIInv ==
  ASSUME IInv, SizeLastNode
  PROVE  IInv'
<1>1. /\ call \in Calls /\ phase = "sizeNodes" /\ arg \in 1 .. Len(signature)
      /\ signature[arg] = "ATTRIBUTION_CHAIN" /\ arg = 1
      /\ node > Len(tags) /\ node \in Nat /\ Len(tags) \in Nat
      /\ attrSizes \in Seq(Nat) /\ Len(attrSizes) = node
  BY TagsType, CallTypes DEF IInv, TypeOK, SizeLastNode, NodesRecorded, AtChain, AtArgument
<1>2. /\ call' = call /\ attrSizes' = attrSizes /\ phase' = "size"
      /\ node' = node /\ arg' = arg + 1
      /\ pos' = pos /\ chainPos' = chainPos /\ pieces' = pieces
      /\ sizes' = Append(sizes, needed + attrSize)
  BY DEF SizeLastNode
<1>3. Len(attrSizes) = Len(tags) + 1
  <2>1. Len(attrSizes) - 1 >= 1 => Len(attrSizes) - 1 <= Len(tags)
    BY <1>1 DEF IInv, NodesRecorded
  <2>2. Len(attrSizes) # 0
    BY <1>1
  <2> QED
    BY <2>1, <2>2, <1>1
<1>4. SizeOf(arg) = attrSize /\ SizeOf(arg) \in Nat
  BY <1>1, <1>3 DEF SizeOf, attrSize
<1>5. sizes' \in Seq(Nat) /\ SizesRecorded'
  BY <1>1, <1>2, <1>4, SizesGrow DEF Sizing
<1>6. TypeOK'
  BY <1>1, <1>2, <1>5, SameCall, CallTypes DEF IInv, TypeOK
<1>7. NodesRecorded'
  <2>1. /\ attrSizes' # <<>> => attrSizes'[1] = LIST_TYPE_OVERHEAD
        /\ Ascending(attrSizes')
        /\ \A i \in 1 .. Len(attrSizes') - 1 :
             i <= Len(tags') /\ attrSizes'[i + 1] = attrSizes'[i] + NodeSize(i)
    BY <1>2, SameCall DEF IInv, NodesRecorded
  <2>2. Len(attrSizes') = Len(tags') + 1
    BY <1>2, <1>3, SameCall
  <2>3. arg' # 1
    BY <1>1, <1>2
  <2> QED
    BY <2>1, <2>2, <2>3, <1>2, SameCall DEF NodesRecorded
<1>8. WriteFollowsSize' /\ BufferTiled' /\ ~Writing'
  BY <1>2 DEF WriteFollowsSize, BufferTiled, Writing
<1> QED
  BY <1>5, <1>6, <1>7, <1>8 DEF IInv

\* Once the sizes are known they stay, and the write pass finds them.
LEMMA WriteFrame ==
  ASSUME IInv, call' = call, sizes' = sizes, attrSizes' = attrSizes, Writing',
         Writing \/ (phase = "size" /\ arg > Len(signature)),
         phase' # "sizeNodes", phase' # "size"
  PROVE  SizesRecorded' /\ NodesRecorded'
<1>1. call \in Calls /\ arg \in 1 .. Len(signature) + 1 /\ Len(signature) \in Nat
  BY CallTypes DEF IInv, TypeOK
<1>2. Len(sizes) = Len(signature) + 1
  BY <1>1 DEF IInv, SizesRecorded, Sizing
<1>3. SizesRecorded'
  <2>1. \A k \in 1 .. Len(sizes') - 1 :
          k <= Len(signature') /\ sizes'[k + 1] = sizes'[k] + SizeOf(k)'
    BY SameCall DEF IInv, SizesRecorded
  <2>2. Ascending(sizes') /\ Len(sizes') >= 1
        /\ sizes'[1] = LIST_TYPE_OVERHEAD + LONG_TYPE_SIZE + INT_TYPE_SIZE
    BY DEF IInv, SizesRecorded
  <2>3. Len(sizes') = Len(signature') + 1
    BY <1>2, SameCall
  <2> QED
    BY <2>1, <2>2, <2>3
       DEF SizesRecorded, Sizing, LIST_TYPE_OVERHEAD, LONG_TYPE_SIZE, INT_TYPE_SIZE
<1>4. NodesRecorded'
  <2>1. /\ attrSizes' # <<>> => attrSizes'[1] = LIST_TYPE_OVERHEAD
        /\ Ascending(attrSizes')
        /\ \A i \in 1 .. Len(attrSizes') - 1 :
             i <= Len(tags') /\ attrSizes'[i + 1] = attrSizes'[i] + NodeSize(i)
    BY SameCall DEF IInv, NodesRecorded
  <2>2. \A k \in DOMAIN signature :
          signature[k] = "ATTRIBUTION_CHAIN" => Len(attrSizes) = Len(tags) + 1
    <3>1. CASE Len(signature) = 0
      BY <3>1, <1>1, CallTypes
    <3>2. CASE Writing
      BY <3>2 DEF IInv, NodesRecorded
    <3>3. CASE Len(signature) # 0 /\ phase = "size" /\ arg > Len(signature)
      <4>1. arg > 1
        BY <3>3, <1>1
      <4> QED
        BY <4>1, <3>3 DEF IInv, NodesRecorded
    <3> QED
      BY <3>1, <3>2, <3>3
  <2> QED
    BY <2>1, <2>2, SameCall DEF NodesRecorded
<1> QED
  BY <1>3, <1>4

\* What the size pass leaves to the write pass.
LEMMA SizesKnown ==
  ASSUME IInv, Writing \/ (phase = "size" /\ arg > Len(signature))
  PROVE  /\ call \in Calls /\ Len(signature) \in Nat /\ arg \in 1 .. Len(signature) + 1
         /\ sizes \in Seq(Nat) /\ Len(sizes) = Len(signature) + 1
         /\ needed = sizes[Len(signature) + 1]
         /\ \A k \in 1 .. Len(signature) + 1 : sizes[k] \in Nat /\ sizes[k] <= needed
         /\ \A k \in 1 .. Len(signature) : sizes[k + 1] = sizes[k] + SizeOf(k)
<1>1. call \in Calls /\ arg \in 1 .. Len(signature) + 1 /\ Len(signature) \in Nat
      /\ sizes \in Seq(Nat)
  BY CallTypes DEF IInv, TypeOK
<1>2. Len(sizes) = Len(signature) + 1
  BY <1>1 DEF IInv, SizesRecorded, Sizing
<1>3. needed = sizes[Len(signature) + 1]
  BY <1>2 DEF needed
<1>4. \A k \in 1 .. Len(signature) + 1 : sizes[k] \in Nat /\ sizes[k] <= needed
  BY <1>1, <1>2, <1>3 DEF IInv, SizesRecorded, Ascending
<1>5. \A k \in 1 .. Len(signature) : sizes[k + 1] = sizes[k] + SizeOf(k)
  BY <1>1, <1>2 DEF IInv, SizesRecorded
<1> QED
  BY <1>1, <1>2, <1>3, <1>4, <1>5

LEMMA DropIInv ==
  ASSUME IInv, Drop
  PROVE  IInv'
<1>1. phase = "size" /\ phase' = "dropped" /\ UNCHANGED <<call, arg, node, sizes, attrSizes, pos, chainPos, pieces>>
  BY DEF Drop
<1>2. TypeOK'
  BY <1>1, SameCall DEF IInv, TypeOK
<1>3. SizesRecorded'
  BY <1>1, SameCall DEF IInv, SizesRecorded, Sizing, Writing
<1>4. NodesRecorded'
  BY <1>1, SameCall DEF IInv, NodesRecorded, Writing
<1>5. WriteFollowsSize' /\ BufferTiled' /\ ~Writing'
  BY <1>1 DEF WriteFollowsSize, BufferTiled, Writing
<1> QED
  BY <1>2, <1>3, <1>4, <1>5 DEF IInv

\* One piece by itself.
LEMMA TileOne ==
  ASSUME NEW at \in Nat, NEW size \in Nat, NEW items \in Nat, NEW p,
         p = [at |-> at, size |-> size, items |-> items]
  PROVE  /\ <<p>> \in Seq(Pieces)
         /\ Tile(<<p>>, at, at + size)
<1>1. p \in Pieces /\ p.at = at /\ p.size = size
  BY DEF Pieces
<1>2. <<p>> \in Seq(Pieces) /\ Len(<<p>>) = 1 /\ <<p>>[1] = p
  BY <1>1
<1> QED
  BY <1>1, <1>2 DEF Tile

\* One more piece, at the end of those before it.
LEMMA TileAppend ==
  ASSUME NEW p \in Seq(Pieces), NEW at \in Nat, NEW size \in Nat, NEW items \in Nat,
         Tile(p, 0, at)
  PROVE  /\ Append(p, [at |-> at, size |-> size, items |-> items]) \in Seq(Pieces)
         /\ Tile(Append(p, [at |-> at, size |-> size, items |-> items]), 0, at + size)
<1> DEFINE q == [at |-> at, size |-> size, items |-> items]
<1>1. <<q>> \in Seq(Pieces) /\ Tile(<<q>>, at, at + size)
  BY TileOne
<1>2. Append(p, q) = p \o <<q>>
  BY <1>1
<1>3. at <= at + size /\ at + size \in Nat /\ 0 \in Nat
  OBVIOUS
<1> HIDE DEF q
<1>4. p \o <<q>> \in Seq(Pieces) /\ Tile(p \o <<q>>, 0, at + size)
  BY <1>1, <1>3, TileConcat
<1> QED
  BY <1>2, <1>4 DEF q

LEMMA AllocateIInv ==
  ASSUME IInv, Allocate
  PROVE  IInv'
<1>1. /\ phase = "size" /\ arg > Len(signature) /\ needed <= MAX_EVENT_PAYLOAD
      /\ phase' = "write" /\ arg' = 1 /\ pos' = 16 /\ pieces' = Header
      /\ UNCHANGED <<call, node, sizes, attrSizes, chainPos>>
  BY DEF Allocate, LIST_TYPE_OVERHEAD, LONG_TYPE_SIZE, INT_TYPE_SIZE
<1>2. call \in Calls /\ Len(signature) \in Nat
  BY CallTypes DEF IInv, TypeOK
<1>3. SizesRecorded' /\ NodesRecorded'
  <2>1. Writing'
    BY <1>1 DEF Writing
  <2> QED
    BY <1>1, <2>1, WriteFrame
<1>4. pieces' \in Seq(Pieces) /\ Tile(pieces', 0, 16)
  <2> DEFINE h1 == [at |-> 0, size |-> 2, items |-> Len(signature) + 2]
             h2 == [at |-> 2, size |-> 9, items |-> 0]
             h3 == [at |-> 11, size |-> 5, items |-> 0]
  <2>1. pieces' = Append(Append(<<h1>>, h2), h3)
    BY <1>1 DEF Header, List, Value, LIST_TYPE_OVERHEAD, LONG_TYPE_SIZE, INT_TYPE_SIZE
  <2>2. <<h1>> \in Seq(Pieces) /\ Tile(<<h1>>, 0, 2)
    <3>1. Len(signature) + 2 \in Nat /\ 0 \in Nat /\ 2 \in Nat /\ 0 + 2 = 2
      BY <1>2
    <3> QED
      BY <3>1, TileOne
  <2>3. Append(<<h1>>, h2) \in Seq(Pieces) /\ Tile(Append(<<h1>>, h2), 0, 11)
    <3>1. 0 \in Nat /\ 2 \in Nat /\ 9 \in Nat /\ 2 + 9 = 11
      OBVIOUS
    <3> HIDE DEF h1
    <3> QED
      BY <3>1, <2>2, TileAppend
  <2>4. /\ Append(Append(<<h1>>, h2), h3) \in Seq(Pieces)
        /\ Tile(Append(Append(<<h1>>, h2), h3), 0, 16)
    <3>1. 0 \in Nat /\ 11 \in Nat /\ 5 \in Nat /\ 11 + 5 = 16
      OBVIOUS
    <3> HIDE DEF h1, h2
    <3> QED
      BY <3>1, <2>3, TileAppend
  <2> QED
    BY <2>1, <2>4
<1>5. TypeOK'
  BY <1>1, <1>2, <1>4, SameCall DEF IInv, TypeOK
<1>6. WriteFollowsSize'
  <2>1. sizes[1] = 16
    BY DEF IInv, SizesRecorded, LIST_TYPE_OVERHEAD, LONG_TYPE_SIZE, INT_TYPE_SIZE
  <2> QED
    BY <2>1, <1>1 DEF WriteFollowsSize
<1>7. BufferTiled'
  BY <1>1, <1>4 DEF BufferTiled, written
<1>8. needed' <= MAX_EVENT_PAYLOAD
  BY <1>1 DEF needed
<1> QED
  BY <1>3, <1>5, <1>6, <1>7, <1>8 DEF IInv

LEMMA WriteValueIInv ==
  ASSUME IInv, WriteValue
  PROVE  IInv'
<1> DEFINE size == WrittenSize(signature[arg], call.args[arg])
           piece == [at |-> pos, size |-> size, items |-> 0]
<1>1. /\ phase = "write" /\ arg <= Len(signature) /\ signature[arg] # "ATTRIBUTION_CHAIN"
      /\ phase' = "write" /\ arg' = arg + 1 /\ pos' = pos + size
      /\ pieces' = Append(pieces, piece)
      /\ UNCHANGED <<call, node, sizes, attrSizes, chainPos>>
  BY DEF WriteValue, AtValue, AtArgument, Value
<1>2. /\ call \in Calls /\ Len(signature) \in Nat /\ arg \in 1 .. Len(signature)
      /\ sizes[arg + 1] = sizes[arg] + SizeOf(arg) /\ pos \in Nat /\ pieces \in Seq(Pieces)
  <2>1. Writing
    BY <1>1 DEF Writing
  <2> QED
    BY <2>1, <1>1, SizesKnown DEF IInv, TypeOK
<1>3. SizesRecorded' /\ NodesRecorded'
  <2>1. Writing /\ Writing'
    BY <1>1 DEF Writing
  <2> QED
    BY <1>1, <2>1, WriteFrame
<1>4. size \in Nat /\ size = SizeOf(arg)
  BY <1>1, <1>2, SameSize DEF SizeOf
<1>5. pieces' \in Seq(Pieces) /\ Tile(pieces', 0, pos')
  <2>1. Tile(pieces, 0, pos)
    BY <1>1 DEF IInv, BufferTiled, Writing, written
  <2>2. 0 \in Nat
    OBVIOUS
  <2> HIDE DEF size
  <2> QED
    BY <1>1, <1>2, <1>4, <2>1, <2>2, TileAppend
<1> HIDE DEF size, piece
<1>6. TypeOK'
  <2>1. call \in Calls /\ node \in Nat \ {0} /\ sizes \in Seq(Nat) /\ attrSizes \in Seq(Nat) /\ chainPos \in Nat
    BY DEF IInv, TypeOK
  <2>2. arg' \in 1 .. Len(signature') + 1
    <3>1. signature' = signature
      BY <1>1, SameCall
    <3> QED BY <1>1, <1>2, <3>1
  <2>3. pos' \in Nat
    BY <1>1, <1>2, <1>4
  <2> QED BY <1>1, <1>5, <2>1, <2>2, <2>3 DEF TypeOK
<1>7. WriteFollowsSize'
  <2>1. pos = sizes[arg]
    BY <1>1 DEF IInv, WriteFollowsSize
  <2> QED
    BY <2>1, <1>1, <1>2, <1>4 DEF WriteFollowsSize
<1>8. BufferTiled'
  BY <1>1, <1>5 DEF BufferTiled, written
<1>9. needed' <= MAX_EVENT_PAYLOAD
  BY <1>1 DEF IInv, needed, Writing
<1> QED
  BY <1>3, <1>6, <1>7, <1>8, <1>9 DEF IInv

LEMMA WriteChainIInv ==
  ASSUME IInv, WriteChain
  PROVE  IInv'
<1> DEFINE count == Len(tags) % 256
           piece == [at |-> pos, size |-> 2, items |-> count]
<1>1. /\ phase = "write" /\ arg <= Len(signature) /\ signature[arg] = "ATTRIBUTION_CHAIN"
      /\ phase' = "writeNodes" /\ node' = 1 /\ chainPos' = pos + 2
      /\ pieces' = Append(pieces, piece)
      /\ UNCHANGED <<call, arg, sizes, attrSizes, pos>>
  BY DEF WriteChain, AtChain, AtArgument, List, LIST_TYPE_OVERHEAD
<1>2. /\ call \in Calls /\ Len(signature) \in Nat /\ arg \in 1 .. Len(signature)
      /\ pos \in Nat /\ pieces \in Seq(Pieces)
      /\ Len(tags) \in Nat /\ arg \in DOMAIN signature
  BY <1>1, CallTypes, TagsType DEF IInv, TypeOK
<1>3. SizesRecorded' /\ NodesRecorded'
  <2>1. Writing /\ Writing'
    BY <1>1 DEF Writing
  <2> QED
    BY <1>1, <2>1, WriteFrame
<1>4. count \in Nat
  BY <1>2
<1>5. pieces' \in Seq(Pieces) /\ Tile(pieces', 0, pos + 2)
  <2>1. Tile(pieces, 0, pos)
    BY <1>1 DEF IInv, BufferTiled, Writing, written
  <2>2. 0 \in Nat /\ 2 \in Nat
    OBVIOUS
  <2> HIDE DEF count
  <2> QED
    BY <1>1, <1>2, <1>4, <2>1, <2>2, TileAppend
<1> HIDE DEF count, piece
<1>6. TypeOK'
  BY <1>1, <1>2, <1>5, SameCall DEF IInv, TypeOK
<1>7. WriteFollowsSize'
  <2>1. pos = sizes[arg]
    BY <1>1 DEF IInv, WriteFollowsSize
  <2>2. Len(attrSizes) = Len(tags) + 1 /\ attrSizes \in Seq(Nat)
    BY <1>1, <1>2 DEF IInv, TypeOK, NodesRecorded, Writing
  <2>3. attrSizes[1] = 2 /\ 1 <= Len(attrSizes)
    BY <2>2, <1>2 DEF IInv, NodesRecorded, LIST_TYPE_OVERHEAD
  <2>4. AtChain("writeNodes")'
    BY <1>1, SameCall DEF AtChain, AtArgument
  <2> QED
    BY <2>1, <2>3, <2>4, <1>1 DEF WriteFollowsSize
<1>8. BufferTiled'
  BY <1>1, <1>5 DEF BufferTiled, written
<1>9. needed' <= MAX_EVENT_PAYLOAD
  BY <1>1 DEF IInv, needed, Writing
<1> QED
  BY <1>3, <1>6, <1>7, <1>8, <1>9 DEF IInv

LEMMA WriteNodeIInv ==
  ASSUME IInv, WriteNode
  PROVE  IInv'
<1> DEFINE size == STRING_TYPE_OVERHEAD + tagLength(node)
           head == [at |-> chainPos, size |-> 2, items |-> 2]
           uid  == [at |-> chainPos + 2, size |-> 5, items |-> 0]
           tag  == [at |-> chainPos + 7, size |-> size, items |-> 0]
<1>1. /\ phase = "writeNodes" /\ node <= Len(tags) /\ phase' = "writeNodes"
      /\ node' = node + 1
      /\ UNCHANGED <<call, arg, sizes, attrSizes, pos>>
  BY DEF WriteNode
<1>2. /\ call \in Calls /\ chainPos \in Nat /\ pieces \in Seq(Pieces) /\ pos \in Nat
      /\ Len(tags) \in Nat /\ node \in 1 .. Len(tags) /\ node \in Nat
      /\ attrSizes \in Seq(Nat)
  BY <1>1, TagsType DEF IInv, TypeOK
<1>3. size \in Nat /\ NodeSize(node) = 7 + size /\ NodeSize(node) \in Nat
  BY <1>2, TagsType, NodeSizeType DEF LIST_TYPE_OVERHEAD, INT_TYPE_SIZE, STRING_TYPE_OVERHEAD
<1>4. /\ pieces' = pieces \o <<head, uid, tag>>
      /\ chainPos' = chainPos + 7 + size
  <2>1. (chainPos + 2) + 5 = chainPos + 7
    BY <1>2
  <2> HIDE DEF size
  <2>2. /\ pieces' = pieces \o <<head, uid, [at |-> (chainPos + 2) + 5, size |-> size, items |-> 0]>>
        /\ chainPos' = ((chainPos + 2) + 5) + size
    BY DEF WriteNode, List, Value, LIST_TYPE_OVERHEAD, INT_TYPE_SIZE, size
  <2> QED
    BY <2>1, <2>2
<1> HIDE DEF size
<1>5. pieces' \in Seq(Pieces) /\ Tile(pieces', 0, chainPos')
  <2>1. Tile(pieces, 0, chainPos)
    BY <1>1 DEF IInv, BufferTiled, Writing, written
  <2>2. 0 \in Nat /\ 2 \in Nat /\ 5 \in Nat /\ chainPos + 2 \in Nat /\ chainPos + 7 \in Nat
        /\ (chainPos + 2) + 5 = chainPos + 7
    BY <1>2
  <2>3. Append(pieces, head) \in Seq(Pieces) /\ Tile(Append(pieces, head), 0, chainPos + 2)
    BY <1>2, <2>1, <2>2, TileAppend
  <2>4. /\ Append(Append(pieces, head), uid) \in Seq(Pieces)
        /\ Tile(Append(Append(pieces, head), uid), 0, chainPos + 7)
    <3> HIDE DEF head
    <3> QED
      BY <2>2, <2>3, TileAppend
  <2>5. /\ Append(Append(Append(pieces, head), uid), tag) \in Seq(Pieces)
        /\ Tile(Append(Append(Append(pieces, head), uid), tag), 0, (chainPos + 7) + size)
    <3> HIDE DEF head, uid
    <3> QED
      BY <1>3, <2>2, <2>4, TileAppend
  <2>6. pieces' = Append(Append(Append(pieces, head), uid), tag)
    <3>1. head \in Pieces /\ uid \in Pieces /\ tag \in Pieces
      BY <1>2, <1>3 DEF Pieces
    <3> HIDE DEF head, uid, tag
    <3> QED
      BY <1>2, <1>4, <3>1
  <2> QED
    BY <1>4, <2>5, <2>6
<1> HIDE DEF head, uid, tag
<1>6. SizesRecorded' /\ NodesRecorded'
  <2>1. Writing /\ Writing'
    BY <1>1 DEF Writing
  <2> QED
    BY <1>1, <2>1, WriteFrame
<1>7. TypeOK'
  <2>1. chainPos' \in Nat
    BY <1>2, <1>3, <1>4
  <2> QED
    BY <2>1, <1>1, <1>2, <1>5, SameCall DEF IInv, TypeOK
<1>8. WriteFollowsSize'
  <2>1. AtChain("writeNodes") /\ pos = sizes[arg] /\ chainPos = pos + attrSizes[node]
    BY <1>1 DEF IInv, WriteFollowsSize
  <2>2. Len(attrSizes) = Len(tags) + 1
    <3>1. signature[arg] = "ATTRIBUTION_CHAIN" /\ arg \in DOMAIN signature
      BY <1>2, <2>1, CallTypes DEF AtChain, AtArgument, IInv, TypeOK
    <3> QED
      BY <3>1, <1>1 DEF IInv, NodesRecorded, Writing
  <2>3. node \in 1 .. Len(attrSizes) - 1 /\ node + 1 <= Len(attrSizes)
    BY <2>2, <1>2
  <2>4. attrSizes[node + 1] = attrSizes[node] + NodeSize(node)
    BY <2>3 DEF IInv, NodesRecorded
  <2>5. attrSizes[node] \in Nat
    BY <2>3, <1>2
  <2>6. chainPos' = pos + attrSizes[node + 1]
    <3>1. chainPos' = chainPos + 7 + size
      BY <1>4
    <3>2. chainPos = pos + attrSizes[node] /\ NodeSize(node) = 7 + size
      BY <2>1, <1>3
    <3>3. pos \in Nat /\ size \in Nat
      BY <1>2, <1>3
    <3> QED
      BY <3>1, <3>2, <3>3, <2>4, <2>5
  <2>7. AtChain("writeNodes")'
    BY <2>1, <1>1, SameCall DEF AtChain, AtArgument
  <2> QED
    BY <2>1, <2>3, <2>6, <2>7, <1>1 DEF WriteFollowsSize
<1>9. BufferTiled'
  BY <1>1, <1>5 DEF BufferTiled, written
<1>10. needed' <= MAX_EVENT_PAYLOAD
  BY <1>1 DEF IInv, needed, Writing
<1> QED
  BY <1>6, <1>7, <1>8, <1>9, <1>10 DEF IInv

\* The helper ends where the caller, which adds attrSize, goes on.
LEMMA WriteLastNodeIInv ==
  ASSUME IInv, WriteLastNode
  PROVE  IInv'
<1>1. /\ phase = "writeNodes" /\ node > Len(tags) /\ phase' = "write"
      /\ pos' = pos + attrSize /\ arg' = arg + 1
      /\ UNCHANGED <<call, node, sizes, attrSizes, chainPos, pieces>>
  BY DEF WriteLastNode
<1>2. Writing /\ Writing'
  BY <1>1 DEF Writing
<1>3. /\ call \in Calls /\ pos \in Nat /\ Len(tags) \in Nat /\ node \in Nat
      /\ attrSizes \in Seq(Nat) /\ Len(signature) \in Nat /\ pieces \in Seq(Pieces)
  BY TagsType, CallTypes DEF IInv, TypeOK
<1>4. /\ AtChain("writeNodes") /\ pos = sizes[arg] /\ chainPos = pos + attrSizes[node]
      /\ node <= Len(attrSizes)
  BY <1>1 DEF IInv, WriteFollowsSize
<1>5. arg \in 1 .. Len(signature) /\ signature[arg] = "ATTRIBUTION_CHAIN"
  BY <1>3, <1>4 DEF AtChain, AtArgument, IInv, TypeOK
<1>6. Len(attrSizes) = Len(tags) + 1
  <2>1. arg \in DOMAIN signature
    BY <1>3, <1>5, CallTypes
  <2> QED
    BY <2>1, <1>2, <1>5 DEF IInv, NodesRecorded
<1>7. node = Len(attrSizes) /\ attrSize = attrSizes[node] /\ attrSize \in Nat
  BY <1>1, <1>3, <1>4, <1>6 DEF attrSize
<1>8. SizesRecorded' /\ NodesRecorded'
  BY <1>1, <1>2, WriteFrame
<1>9. TypeOK'
  BY <1>1, <1>3, <1>5, <1>7, SameCall, SMTT(30) DEF IInv, TypeOK
<1>10. WriteFollowsSize'
  <2>1. sizes[arg + 1] = sizes[arg] + attrSize
    BY <1>2, <1>5, SizesKnown DEF SizeOf
  <2> QED
    BY <2>1, <1>1, <1>4 DEF WriteFollowsSize
<1>11. BufferTiled'
  <2>1. Tile(pieces, 0, chainPos)
    BY <1>1, <1>2 DEF IInv, BufferTiled, written
  <2>2. chainPos = pos'
    BY <1>1, <1>4, <1>7
  <2> QED
    BY <2>1, <2>2, <1>1 DEF BufferTiled, written
<1>12. needed' <= MAX_EVENT_PAYLOAD
  BY <1>1, <1>2 DEF IInv, needed
<1> QED
  BY <1>8, <1>9, <1>10, <1>11, <1>12 DEF IInv

LEMMA SendIInv ==
  ASSUME IInv, Send
  PROVE  IInv'
<1>1. /\ phase = "write" /\ arg > Len(signature) /\ phase' = "sent"
      /\ UNCHANGED <<call, arg, node, sizes, attrSizes, pos, chainPos, pieces>>
  BY DEF Send
<1>2. Writing /\ Writing'
  BY <1>1 DEF Writing
<1>3. call \in Calls /\ arg \in 1 .. Len(signature) + 1 /\ Len(signature) \in Nat
  BY CallTypes DEF IInv, TypeOK
<1>4. SizesRecorded' /\ NodesRecorded'
  BY <1>1, <1>2, WriteFrame
<1>5. TypeOK'
  BY <1>1, SameCall DEF IInv, TypeOK
<1>6. WriteFollowsSize'
  <2>1. arg = Len(signature) + 1
    BY <1>1, <1>3
  <2> QED
    BY <2>1, <1>1, SameCall DEF IInv, WriteFollowsSize
<1>7. BufferTiled'
  BY <1>1, <1>2 DEF IInv, BufferTiled, written
<1>8. needed' <= MAX_EVENT_PAYLOAD
  BY <1>1, <1>2 DEF IInv, needed
<1> QED
  BY <1>4, <1>5, <1>6, <1>7, <1>8 DEF IInv

LEMMA StutterIInv ==
  ASSUME IInv, UNCHANGED vars
  PROVE  IInv'
<1>1. TypeOK'
  BY SameCall DEF IInv, TypeOK, vars
<1>2. SizesRecorded'
  BY SameCall DEF IInv, SizesRecorded, Sizing, Writing, vars
<1>3. NodesRecorded'
  BY SameCall DEF IInv, NodesRecorded, Writing, AtChain, AtArgument, vars
<1>4. WriteFollowsSize'
  BY SameCall DEF IInv, WriteFollowsSize, AtChain, AtArgument, vars
<1>5. BufferTiled' /\ (Writing' => needed' <= MAX_EVENT_PAYLOAD)
  BY DEF IInv, BufferTiled, Writing, written, needed, vars
<1> QED
  BY <1>1, <1>2, <1>3, <1>4, <1>5 DEF IInv

LEMMA StepIInv == IInv /\ [Next]_vars => IInv'
BY SizeValueIInv, SizeChainIInv, SizeNodeIInv, SizeLastNodeIInv, DropIInv, AllocateIInv,
   WriteValueIInv, WriteChainIInv, WriteNodeIInv, WriteLastNodeIInv, SendIInv, StutterIInv
   DEF Next, Returned

\* The two passes agree at every argument and every node, for every call.
THEOREM PassesAgree == Spec => []IInv
<1> QED
  BY InitIInv, StepIInv, PTL DEF Spec

\* The buffer is filled without a gap and without an overlap
\* (java_writer_q.cpp:196-266 and the helper, :326-360).
THEOREM BufferFilled == Spec => []BufferTiled
<1>1. IInv => BufferTiled
  BY DEF IInv
<1> QED
  BY <1>1, PassesAgree, PTL

LEMMA IInvInBuffer == IInv => InBuffer
<1> SUFFICES ASSUME IInv, Writing
             PROVE  /\ \A i \in DOMAIN pieces : pieces[i].at + pieces[i].size <= needed
                    /\ phase = "sent" => pos = needed
  BY DEF InBuffer, IInv, Writing
<1>1. /\ call \in Calls /\ Len(signature) \in Nat /\ arg \in 1 .. Len(signature) + 1
      /\ needed = sizes[Len(signature) + 1]
      /\ \A k \in 1 .. Len(signature) + 1 : sizes[k] \in Nat /\ sizes[k] <= needed
      /\ \A k \in 1 .. Len(signature) : sizes[k + 1] = sizes[k] + SizeOf(k)
  BY SizesKnown
<1>2. written \in Nat /\ written <= needed
  <2>1. CASE phase # "writeNodes"
    <3>1. written = sizes[arg]
      BY <2>1 DEF IInv, WriteFollowsSize, Writing, written
    <3> QED
      BY <3>1, <1>1
  <2>2. CASE phase = "writeNodes"
    <3>1. /\ signature[arg] = "ATTRIBUTION_CHAIN" /\ arg \in 1 .. Len(signature)
          /\ pos = sizes[arg] /\ node \in 1 .. Len(attrSizes) /\ chainPos = pos + attrSizes[node]
          /\ attrSizes \in Seq(Nat)
      BY <2>2, <1>1 DEF IInv, TypeOK, WriteFollowsSize, AtChain, AtArgument
    <3>2. attrSizes[node] <= attrSize /\ attrSizes[node] \in Nat /\ attrSize \in Nat
      BY <3>1, SMTT(30) DEF IInv, NodesRecorded, Ascending, attrSize
    <3>3. sizes[arg + 1] = pos + attrSize /\ sizes[arg + 1] <= needed /\ pos \in Nat
          /\ needed \in Nat
      BY <3>1, <1>1 DEF SizeOf
    <3>4. written = pos + attrSizes[node]
      BY <3>1, <2>2 DEF written
    <3> QED
      BY <3>2, <3>3, <3>4
  <2> QED
    BY <2>1, <2>2
<1>3. \A i \in DOMAIN pieces : pieces[i].at + pieces[i].size <= needed
  <2> TAKE i \in DOMAIN pieces
  <2>1. pieces \in Seq(Pieces) /\ i \in 1 .. Len(pieces)
    BY DEF IInv, TypeOK
  <2>2. pieces[i].at + pieces[i].size <= written
    BY <2>1 DEF IInv, BufferTiled, Tile
  <2>3. pieces[i] \in Pieces
    BY <2>1
  <2>4. pieces[i].at \in Nat /\ pieces[i].size \in Nat
    BY <2>3 DEF Pieces
  <2>5. needed \in Nat
    BY <1>1
  <2> QED
    BY <2>2, <2>4, <2>5, <1>2
<1>4. phase = "sent" => pos = needed
  BY <1>1 DEF IInv, WriteFollowsSize
<1> QED
  BY <1>3, <1>4

\* No write of the generated method is past the end of the buffer, and what is
\* sent is all of it.
THEOREM NothingPastTheEnd == Spec => []InBuffer
BY PassesAgree, IInvInBuffer, PTL

-----------------------------------------------------------------------------
(* What is announced: the items after the heads of lists. *)

\* The items that the first k pieces announce, as a set.
AnnouncedItems(p, k) == UNION {{i} \X (1 .. p[i].items) : i \in 1 .. k}

\* One piece more announces its own items besides.
LEMMA AnnouncedItemsStep ==
  ASSUME NEW p, NEW k \in Nat, p[k + 1].items \in Nat, IsFiniteSet(AnnouncedItems(p, k))
  PROVE  /\ IsFiniteSet(AnnouncedItems(p, k + 1))
         /\ Cardinality(AnnouncedItems(p, k + 1))
               = Cardinality(AnnouncedItems(p, k)) + p[k + 1].items
<1> DEFINE m == p[k + 1].items
           A == AnnouncedItems(p, k)
           B == {k + 1} \X (1 .. m)
<1>1. AnnouncedItems(p, k + 1) = A \cup B
  <2>1. 1 .. k + 1 = (1 .. k) \cup {k + 1}
    OBVIOUS
  <2> QED BY <2>1 DEF AnnouncedItems
<1>2. A \cap B = {}
  <2>1. k + 1 \notin 1 .. k
    OBVIOUS
  <2> QED BY <2>1 DEF AnnouncedItems
<1>3. IsFiniteSet(B) /\ Cardinality(B) = m
  <2>1. IsFiniteSet({k + 1}) /\ Cardinality({k + 1}) = 1
    BY FS_Singleton
  <2>0. m \in Nat
    OBVIOUS
  <2> HIDE DEF m
  <2>2. IsFiniteSet(1 .. m) /\ Cardinality(1 .. m) = m
    <3>1. Cardinality(1 .. m) = IF 1 > m THEN 0 ELSE m - 1 + 1
      BY <2>0, FS_Interval
    <3> QED BY <2>0, <3>1, FS_Interval
  <2> DEFINE one == {k + 1}
             upTo == 1 .. m
  <2> HIDE DEF one, upTo
  <2>3. IsFiniteSet(one \X upTo) /\ Cardinality(one \X upTo) = Cardinality(one) * Cardinality(upTo)
    BY <2>1, <2>2, FS_Product DEF one, upTo
  <2>4. Cardinality(one) = 1 /\ Cardinality(upTo) = m /\ m \in Nat
    BY <2>1, <2>2 DEF one, upTo, m
  <2> QED BY <2>3, <2>4 DEF one, upTo
<1> HIDE DEF A, B, m
<1>4. IsFiniteSet(A) /\ Cardinality(A) \in Nat /\ m \in Nat
  BY FS_CardinalityType DEF A, m
<1>5. /\ IsFiniteSet(A \cup B)
      /\ Cardinality(A \cup B) = Cardinality(A) + Cardinality(B) - Cardinality(A \cap B)
  BY <1>3, <1>4, FS_Union
<1>6. Cardinality(A \cap B) = 0
  BY <1>2, FS_EmptySet
<1>7. Cardinality(A \cup B) = Cardinality(A) + m
  BY <1>3, <1>4, <1>5, <1>6
<1> QED BY <1>1, <1>5, <1>7 DEF A, m

\* What the pieces announce adds up.
LEMMA AnnouncedStep ==
  ASSUME NEW p \in Seq(Pieces)
  PROVE  /\ \A k \in 0 .. Len(p) : Announced(p, k) \in Nat
         /\ Announced(p, 0) = 0
         /\ \A k \in 1 .. Len(p) : Announced(p, k) = Announced(p, k - 1) + p[k].items
<1> DEFINE n == Len(p)
           N == {k \in Nat : k <= n => IsFiniteSet(AnnouncedItems(p, k))}
<1>1. n \in Nat /\ \A k \in 1 .. n : p[k].items \in Nat
  <2>1. n \in Nat /\ \A k \in 1 .. n : p[k] \in Pieces
    OBVIOUS
  <2> QED BY <2>1 DEF Pieces
<1>2. AnnouncedItems(p, 0) = {}
  <2>1. 1 .. 0 = {}
    OBVIOUS
  <2> QED BY <2>1 DEF AnnouncedItems
<1>3. 0 \in N
  <2>1. IsFiniteSet(AnnouncedItems(p, 0))
    BY <1>2, FS_EmptySet
  <2> QED BY <2>1
<1> HIDE DEF n
<1>4. ASSUME NEW k \in Nat, k \in N PROVE k + 1 \in N
  <2> SUFFICES ASSUME k + 1 <= n PROVE IsFiniteSet(AnnouncedItems(p, k + 1))
    OBVIOUS
  <2>1. k + 1 \in 1 .. n /\ k <= n
    BY <1>1
  <2>2. p[k + 1].items \in Nat /\ IsFiniteSet(AnnouncedItems(p, k))
    BY <1>1, <1>4, <2>1
  <2> QED BY <2>2, AnnouncedItemsStep
<1> HIDE DEF N
<1>5. \A k \in Nat : k \in N
  BY <1>3, <1>4, NatInductionOnSets
<1>6. ASSUME NEW k \in 0 .. n
      PROVE  IsFiniteSet(AnnouncedItems(p, k)) /\ Announced(p, k) = Cardinality(AnnouncedItems(p, k))
  <2>1. k \in N /\ k <= n
    BY <1>1, <1>5
  <2> QED BY <2>1 DEF N, Announced, AnnouncedItems
<1>7. \A k \in 0 .. n : Announced(p, k) \in Nat
  BY <1>6, FS_CardinalityType
<1>8. Announced(p, 0) = 0
  BY <1>1, <1>2, <1>6, FS_EmptySet
<1>9. ASSUME NEW k \in 1 .. n PROVE Announced(p, k) = Announced(p, k - 1) + p[k].items
  <2> DEFINE j == k - 1
  <2>1. j \in Nat /\ j \in 0 .. n /\ k \in 0 .. n /\ j + 1 = k
    BY <1>1
  <2> HIDE DEF j
  <2>2. p[j + 1].items \in Nat /\ IsFiniteSet(AnnouncedItems(p, j))
    BY <1>1, <1>6, <2>1
  <2>3. Cardinality(AnnouncedItems(p, j + 1)) = Cardinality(AnnouncedItems(p, j)) + p[j + 1].items
    BY <2>1, <2>2, AnnouncedItemsStep
  <2> QED BY <1>6, <2>1, <2>3 DEF j
<1> QED BY <1>7, <1>8, <1>9 DEF n

-----------------------------------------------------------------------------
(* What is measured is the size by the layout. *)

\* The tags of a chain are a sequence, empty when the array is null.
LEMMA TagsSeq == call \in Calls => tags \in Seq(SUBSET Nat)
<1>1. CASE call.tags = {}
  BY <1>1 DEF tags
<1>2. CASE call.tags # {}
  <2>1. tags \in call.tags
    BY <1>2 DEF tags
  <2> QED BY <2>1, CallsAssumption
<1> QED BY <1>1, <1>2

\* A list for each tag that announces as many items as the tag has bytes.
TagLists == [i \in 1 .. Len(tags) |-> [at |-> 0, size |-> 0, items |-> tagLength(i)]]

\* The size of a chain by the layout is what numbers reach that grow by its nodes.
LEMMA TagsSizeReached ==
  ASSUME call \in Calls, NEW s, NEW w, w = [i \in 1 .. Len(tags) |-> 12 + LengthOf(tags[i])],
         GrowsBy(s, 2, Len(tags), w)
  PROVE  TagsSize = s[Len(tags) + 1]
<1> DEFINE n == Len(tags)
           p == TagLists
           N == {k \in Nat : k <= n => s[k + 1] = 2 + 12 * k + Announced(p, k)}
<1>1. n \in Nat /\ DOMAIN tags = 1 .. n /\ \A i \in 1 .. n : tagLength(i) \in Nat
  BY TagsType, TagsSeq
<1>2. /\ p \in Seq(Pieces) /\ Len(p) = n
      /\ \A i \in 1 .. n : p[i].items = tagLength(i)
  BY <1>1 DEF TagLists, Pieces
<1>3. s[1] = 2 /\ \A i \in 1 .. n : s[i + 1] = s[i] + (12 + tagLength(i))
  <2>1. \A i \in 1 .. n : w[i] = 12 + tagLength(i)
    BY DEF tagLength
  <2> QED BY <2>1 DEF GrowsBy
<1>4. TagsSize = 2 + 12 * n + Announced(p, n)
  <2>1. UNION {{i} \X (1 .. tagLength(i)) : i \in DOMAIN tags}
          = UNION {{i} \X (1 .. p[i].items) : i \in 1 .. n}
    BY <1>1, <1>2
  <2> HIDE DEF n, p
  <2> QED BY <2>1 DEF TagsSize, TagBytes, Announced, n
<1> HIDE DEF n, p
<1>5. /\ \A k \in 0 .. n : Announced(p, k) \in Nat
      /\ Announced(p, 0) = 0
      /\ \A k \in 1 .. n : Announced(p, k) = Announced(p, k - 1) + p[k].items
  BY <1>2, AnnouncedStep
<1>6. 0 \in N
  BY <1>3, <1>5
<1>7. ASSUME NEW k \in Nat, k \in N PROVE k + 1 \in N
  <2> SUFFICES ASSUME k + 1 <= n PROVE s[(k + 1) + 1] = 2 + 12 * (k + 1) + Announced(p, k + 1)
    OBVIOUS
  <2> DEFINE j == k + 1
  <2>1. j \in 1 .. n /\ j - 1 = k /\ k \in 0 .. n
    BY <1>1
  <2>2. s[j] = 2 + 12 * k + Announced(p, k)
    BY <1>1, <1>7
  <2> HIDE DEF j
  <2>3. s[j + 1] = s[j] + (12 + tagLength(j)) /\ Announced(p, j) = Announced(p, k) + tagLength(j)
    BY <1>2, <1>3, <1>5, <2>1
  <2>4. tagLength(j) \in Nat /\ Announced(p, k) \in Nat /\ j = k + 1
    BY <1>1, <1>5, <2>1 DEF j
  <2> QED BY <2>2, <2>3, <2>4 DEF j
<1> HIDE DEF N
<1>8. n \in N
  BY <1>1, <1>6, <1>7, NatInductionOnSets
<1> QED BY <1>1, <1>4, <1>8 DEF N, n

\* The size by the layout is what numbers reach that grow by the arguments.
LEMMA EventSizeReached ==
  ASSUME call \in Calls, NEW s, NEW w \in [1 .. Len(signature) -> Nat],
         \A k \in 1 .. Len(signature) : w[k] = LayoutSize(k),
         GrowsBy(s, 16, Len(signature), w)
  PROVE  EventSize = s[Len(signature) + 1]
<1> DEFINE n == Len(signature)
           q == [k \in DOMAIN signature |-> k]
           it == CHOOSE x : x = [r \in SUBSET DOMAIN q |->
                                   IF r = {} THEN 16 ELSE x[r \ {Max(r)}] + LayoutSize(q[Max(r)])]
<1>1. EventSize = it[DOMAIN q]
  BY Zenon DEF EventSize, FoldLeft, MapThenFoldSet
<1>2. n \in Nat /\ DOMAIN q = 1 .. n /\ \A m \in 1 .. n : q[m] = m
  BY CallTypes
<1>3. w \in [1 .. n -> Nat] /\ \A m \in 1 .. n : w[m] = LayoutSize(m)
  OBVIOUS
<1> HIDE DEF n, q
<1>0. \A r \in SUBSET (1 .. n) : r # {} => w[Max(r)] = LayoutSize(q[Max(r)])
  BY <1>2, <1>3, MaxIn
<1>4. ASSUME NEW x, FoldSumsOf(w, 16, n, x)
      PROVE  x = [r \in SUBSET DOMAIN q |->
                    IF r = {} THEN 16 ELSE x[r \ {Max(r)}] + LayoutSize(q[Max(r)])]
  BY <1>0, <1>2, <1>4, Zenon DEF FoldSumsOf
<1>5. ASSUME NEW x, x = [r \in SUBSET DOMAIN q |->
                    IF r = {} THEN 16 ELSE x[r \ {Max(r)}] + LayoutSize(q[Max(r)])]
      PROVE  FoldSumsOf(w, 16, n, x)
  BY <1>0, <1>2, <1>5, Zenon DEF FoldSumsOf
<1>6. PICK x : FoldSumsOf(w, 16, n, x)
  BY <1>2, <1>3, FoldSumsExist
<1>7. it = [r \in SUBSET DOMAIN q |->
              IF r = {} THEN 16 ELSE it[r \ {Max(r)}] + LayoutSize(q[Max(r)])]
  BY <1>4, <1>6, Zenon
<1>8. FoldSumsOf(w, 16, n, it)
  BY <1>5, <1>7, Zenon
<1> HIDE DEF it
<1>9. it[1 .. n] = s[n + 1]
  <2>1. GrowsBy(s, 16, n, w) /\ 16 \in Nat
    BY DEF n
  <2>2. n \in Nat /\ w \in [1 .. n -> Nat]
    BY <1>2, <1>3
  <2> QED BY <1>8, <2>1, <2>2, FoldSumsReached, SMT
<1> QED BY <1>1, <1>2, <1>9 DEF n

\* When the size pass has come to the end, `needed` is the size by the layout.
LEMMA NeededIsEventSize ==
  ASSUME IInv, phase = "size", arg > Len(signature)
  PROVE  needed = EventSize /\ needed \in Nat
<1> DEFINE n == Len(signature)
           m == Len(tags)
<1>1. /\ call \in Calls /\ n \in Nat /\ arg = n + 1 /\ m \in Nat
      /\ sizes \in Seq(Nat) /\ attrSizes \in Seq(Nat) /\ Len(sizes) = n + 1
  BY CallTypes, TagsType DEF IInv, TypeOK, SizesRecorded, Sizing
<1>2. /\ needed = sizes[n + 1] /\ sizes[1] = 16
      /\ \A k \in 1 .. n : sizes[k + 1] = sizes[k] + SizeOf(k)
      /\ \A k \in 1 .. n + 1 : sizes[k] \in Nat
  BY <1>1 DEF needed, IInv, SizesRecorded, LIST_TYPE_OVERHEAD, LONG_TYPE_SIZE, INT_TYPE_SIZE
<1>3. ASSUME NEW k \in 1 .. n PROVE SizeOf(k) = LayoutSize(k) /\ SizeOf(k) \in Nat
  <2>1. CASE signature[k] = "ATTRIBUTION_CHAIN"
    <3>1. Len(attrSizes) = m + 1
      <4>1. arg > 1 /\ k \in DOMAIN signature
        BY <1>1, CallTypes
      <4> QED BY <2>1, <4>1 DEF IInv, NodesRecorded
    <3>2. attrSize = attrSizes[m + 1] /\ attrSize \in Nat /\ attrSizes[1] = 2
      BY <1>1, <3>1 DEF attrSize, IInv, NodesRecorded, LIST_TYPE_OVERHEAD
    <3> DEFINE w == [i \in 1 .. m |-> 12 + LengthOf(tags[i])]
    <3>3. GrowsBy(attrSizes, 2, m, w)
      <4> SUFFICES ASSUME NEW i \in 1 .. m PROVE attrSizes[i + 1] = attrSizes[i] + w[i]
        BY <3>2 DEF GrowsBy
      <4>1. i \in 1 .. Len(attrSizes) - 1
        BY <1>1, <3>1
      <4>2. attrSizes[i + 1] = attrSizes[i] + NodeSize(i)
        BY <4>1 DEF IInv, NodesRecorded
      <4>3. NodeSize(i) = 2 + 5 + 5 + tagLength(i) /\ tagLength(i) \in Nat
        BY <1>1, NodeSizeType, TagsType DEF LIST_TYPE_OVERHEAD, INT_TYPE_SIZE, STRING_TYPE_OVERHEAD
      <4>4. NodeSize(i) = 12 + LengthOf(tags[i])
        BY <4>3 DEF tagLength
      <4> QED BY <4>2, <4>4
    <3> HIDE DEF w
    <3>4. TagsSize = attrSizes[m + 1]
      BY <1>1, <3>3, TagsSizeReached DEF w
    <3> QED BY <2>1, <3>2, <3>4 DEF SizeOf, LayoutSize
  <2>2. CASE signature[k] # "ATTRIBUTION_CHAIN"
    <3>1. SizeOf(k) = PlainSize(signature[k], call.args[k]) /\ SizeOf(k) \in Nat
      BY <1>1, <2>2, SameSize DEF SizeOf
    <3>2. signature[k] \in QTypes
      BY <1>1, CallTypes
    <3>3. LengthOf(call.args[k]) \in Nat
      BY <1>1, CallTypes, LengthOfNat
    <3>4. signature[k] \notin {"LONG", "STRING", "BYTE_ARRAY"} => LengthOf(call.args[k]) = 0
      BY <1>1, CallsAssumption DEF LengthOf, signature
    <3> QED BY <2>2, <3>1, <3>2, <3>3, <3>4 DEF PlainSize, LayoutSize, LONG_TYPE_SIZE, STRING_TYPE_OVERHEAD, INT_TYPE_SIZE
  <2> QED BY <2>1, <2>2
<1> DEFINE v == [k \in 1 .. n |-> SizeOf(k)]
<1>4. /\ v \in [1 .. n -> Nat] /\ \A k \in 1 .. n : v[k] = LayoutSize(k)
      /\ GrowsBy(sizes, 16, n, v)
  BY <1>2, <1>3 DEF GrowsBy
<1> HIDE DEF v
<1>5. EventSize = sizes[n + 1]
  BY <1>1, <1>4, EventSizeReached
<1> QED BY <1>1, <1>2, <1>5

\* The size pass lets only even chains pass, and what it has measured is the size
\* by the layout: what is dropped has an uneven chain or is too large.
Measured ==
  /\ (phase = "sizeNodes" \/ Writing \/ (phase = "size" /\ arg > 1)) => ~UnevenChain
  /\ Writing => needed = EventSize
  /\ phase = "dropped" => UnevenChain \/ EventSize > MAX_EVENT_PAYLOAD

\* What is said of the call stays when the call does.
LEMMA SameEvent ==
  ASSUME call' = call
  PROVE  EventSize' = EventSize /\ UnevenChain' = UnevenChain /\ LongChain' = LongChain
<1>1. signature' = signature /\ tags' = tags /\ uidsLength' = uidsLength
  BY SameCall
<1>2. TagsSize' = TagsSize
  BY <1>1 DEF TagsSize, TagBytes, tagLength
<1>3. EventSize' = EventSize
  BY <1>1, <1>2, SMT DEF EventSize, LayoutSize, FoldLeft, MapThenFoldSet
<1> QED BY <1>1, <1>3 DEF UnevenChain, LongChain

\* Only the first argument is a chain.
LEMMA ChainIsFirst ==
  ASSUME IInv
  PROVE  /\ \A k \in DOMAIN signature : signature[k] = "ATTRIBUTION_CHAIN" => k = 1
         /\ arg \in Nat \ {0} /\ Len(signature) \in Nat /\ DOMAIN signature = 1 .. Len(signature)
<1>1. call \in Calls /\ arg \in 1 .. Len(signature) + 1
  BY DEF IInv, TypeOK
<1> QED BY <1>1, CallTypes

\* Steps that neither end the size pass nor the call.
LEMMA MeasuredStays ==
  ASSUME Measured, call' = call, sizes' = sizes, phase' # "dropped",
         phase = "sizeNodes" \/ Writing \/ (phase = "size" /\ arg > 1),
         Writing' => Writing
  PROVE  Measured'
<1>1. ~UnevenChain' /\ EventSize' = EventSize /\ needed' = needed
  BY SameEvent DEF Measured, needed
<1> QED BY <1>1 DEF Measured

\* Every step keeps the comparison with the layout.
LEMMA MeasuredStep ==
  ASSUME IInv, Measured, [Next]_vars
  PROVE  Measured'
<1>0. /\ \A k \in DOMAIN signature : signature[k] = "ATTRIBUTION_CHAIN" => k = 1
      /\ arg \in Nat \ {0} /\ Len(signature) \in Nat /\ DOMAIN signature = 1 .. Len(signature)
  BY ChainIsFirst
<1>1. CASE SizeValue
  <2>1. /\ phase = "size" /\ phase' = "size" /\ arg' = arg + 1 /\ call' = call
        /\ arg \in DOMAIN signature /\ signature[arg] # "ATTRIBUTION_CHAIN"
    BY <1>0, <1>1 DEF SizeValue, AtValue, AtArgument
  <2>2. ~UnevenChain
    <3>1. CASE arg = 1
      BY <1>0, <2>1, <3>1 DEF UnevenChain
    <3>2. CASE arg # 1
      BY <1>0, <2>1, <3>2 DEF Measured
    <3> QED BY <3>1, <3>2
  <2> QED BY <2>1, <2>2, SameEvent DEF Measured, Writing
<1>2. CASE SizeChain
  <2>1. /\ phase = "size" /\ arg = 1 /\ arg' = arg /\ call' = call
        /\ arg \in DOMAIN signature /\ signature[arg] = "ATTRIBUTION_CHAIN"
    BY <1>0, <1>2 DEF SizeChain, AtChain, AtArgument
  <2>2. CASE uidsLength # Len(tags)
    <3>1. UnevenChain /\ phase' = "dropped"
      BY <1>2, <2>1, <2>2 DEF UnevenChain, SizeChain
    <3> QED BY <2>1, <3>1, SameEvent DEF Measured, Writing
  <2>3. CASE uidsLength = Len(tags)
    <3>1. ~UnevenChain /\ phase' = "sizeNodes"
      BY <1>2, <2>3 DEF UnevenChain, SizeChain
    <3> QED BY <2>1, <3>1, SameEvent DEF Measured, Writing
  <2> QED BY <2>2, <2>3
<1>3. CASE SizeNode
  BY <1>3, MeasuredStays DEF SizeNode, Writing
<1>4. CASE SizeLastNode
  <2>1. phase = "sizeNodes" /\ phase' = "size" /\ call' = call
    BY <1>4 DEF SizeLastNode
  <2> QED BY <2>1, SameEvent DEF Measured, Writing
<1>5. CASE Drop
  <2>1. phase = "size" /\ arg > Len(signature) /\ needed > MAX_EVENT_PAYLOAD /\ phase' = "dropped" /\ call' = call
    BY <1>5 DEF Drop
  <2>2. needed = EventSize
    BY <2>1, NeededIsEventSize
  <2> QED BY <2>1, <2>2, SameEvent DEF Measured, Writing
<1>6. CASE Allocate
  <2>1. /\ phase = "size" /\ arg > Len(signature) /\ phase' = "write"
        /\ call' = call /\ sizes' = sizes
    BY <1>6 DEF Allocate
  <2>2. needed = EventSize /\ needed' = needed
    BY <2>1, NeededIsEventSize DEF needed
  <2>3. ~UnevenChain
    <3>1. CASE arg = 1
      BY <1>0, <2>1, <3>1 DEF UnevenChain
    <3>2. CASE arg # 1
      BY <1>0, <2>1, <3>2 DEF Measured
    <3> QED BY <3>1, <3>2
  <2> QED BY <2>1, <2>2, <2>3, SameEvent DEF Measured
<1>7. CASE WriteValue
  BY <1>7, MeasuredStays DEF WriteValue, AtValue, AtArgument, Writing
<1>8. CASE WriteChain
  BY <1>8, MeasuredStays DEF WriteChain, AtChain, AtArgument, Writing
<1>9. CASE WriteNode
  BY <1>9, MeasuredStays DEF WriteNode, Writing
<1>10. CASE WriteLastNode
  BY <1>10, MeasuredStays DEF WriteLastNode, Writing
<1>11. CASE Send
  BY <1>11, MeasuredStays DEF Send, Writing
<1>12. CASE UNCHANGED vars
  BY <1>12, SameEvent DEF vars, Measured, Writing, needed
<1> QED BY <1>1, <1>2, <1>3, <1>4, <1>5, <1>6, <1>7, <1>8, <1>9, <1>10, <1>11, <1>12
           DEF Next, Returned

\* A call is dropped exactly for an uneven chain or an event larger than a log
\* entry (java_writer_q.cpp:138, :171): one that just fits is sent.
THEOREM SendingCorrect == Spec => []SentWhenItFits
<1>1. Init => Measured
  BY ChainIsFirst, InitIInv DEF Init, Measured, Writing
<1>2. IInv /\ Measured /\ [Next]_vars => Measured'
  BY MeasuredStep
<1>3. IInv /\ Measured => SentWhenItFits
  <2> SUFFICES ASSUME IInv, Measured PROVE SentWhenItFits
    OBVIOUS
  <2>1. MAX_EVENT_PAYLOAD = 4064
    BY DEF MAX_EVENT_PAYLOAD
  <2>2. phase = "sent" => Writing
    BY DEF Writing
  <2>3. Writing => needed <= MAX_EVENT_PAYLOAD
    BY DEF IInv
  <2> QED BY <2>1, <2>2, <2>3 DEF Measured, SentWhenItFits
<1> QED BY <1>1, <1>2, <1>3, PassesAgree, PTL DEF Spec

-----------------------------------------------------------------------------
(* The items after the heads of lists. *)

\* What the first pieces announce stays when others follow.
LEMMA AnnouncedBefore ==
  ASSUME NEW p, NEW q, NEW n \in Nat, \A i \in 1 .. n : q[i] = p[i]
  PROVE  \A k \in 0 .. n : Announced(q, k) = Announced(p, k)
<1> TAKE k \in 0 .. n
<1>1. \A i \in 1 .. k : q[i] = p[i]
  OBVIOUS
<1>2. AnnouncedItems(q, k) = AnnouncedItems(p, k)
  BY <1>1 DEF AnnouncedItems
<1> QED BY <1>2 DEF Announced, AnnouncedItems

\* The pieces q are the n pieces p and e.
OneMore(p, n, e, q) == n = Len(p) /\ q = Append(p, e)

\* One more piece.
LEMMA AnnouncedAppend ==
  ASSUME NEW p \in Seq(Pieces), NEW e \in Pieces, NEW q, NEW n, OneMore(p, n, e, q)
  PROVE  /\ q \in Seq(Pieces) /\ Len(q) = n + 1 /\ n \in Nat
         /\ \A k \in 0 .. n : Announced(q, k) = Announced(p, k)
         /\ Announced(q, n + 1) = Announced(p, n) + e.items
         /\ Announced(p, n) \in Nat
<1>0. n = Len(p) /\ q = Append(p, e)
  BY DEF OneMore
<1>1. q \in Seq(Pieces) /\ Len(q) = n + 1 /\ n \in Nat /\ q[n + 1] = e /\ \A i \in 1 .. n : q[i] = p[i]
  BY <1>0
<1>2. \A k \in 0 .. n : Announced(q, k) = Announced(p, k)
  BY <1>1, AnnouncedBefore
<1>3. n + 1 \in 1 .. Len(q) /\ (n + 1) - 1 = n /\ n \in 0 .. n
  BY <1>1
<1> DEFINE m == n + 1
<1>4. Announced(q, m) = Announced(q, m - 1) + q[m].items
  <2>1. m \in 1 .. Len(q)
    BY <1>3
  <2> HIDE DEF m
  <2>2. \A k \in 1 .. Len(q) : Announced(q, k) = Announced(q, k - 1) + q[k].items
    BY <1>1, AnnouncedStep
  <2> QED BY <2>1, <2>2
<1>5. Announced(p, n) \in Nat
  <2>1. \A k \in 0 .. Len(p) : Announced(p, k) \in Nat
    BY AnnouncedStep
  <2> QED BY <1>0, <1>3, <2>1
<1> QED BY <1>1, <1>2, <1>3, <1>4, <1>5

\* The pieces that a reader still expects after those written.
Outstanding ==
  IF phase = "write" THEN (Len(signature) - arg) + 1
  ELSE IF phase = "writeNodes" THEN (Len(signature) - arg) + ((Len(tags) - node) + 1)
  ELSE 0

HasChainArgument == \E k \in DOMAIN signature : signature[k] = "ATTRIBUTION_CHAIN"

\* What the byte that counts the nodes of a chain has cut off.
Cut ==
  IF HasChainArgument /\ (phase = "writeNodes" \/ arg > 1)
  THEN Len(tags) - (Len(tags) % 256)
  ELSE 0

\* The pieces p announce themselves, without the first, and those left; all but cut.
Balanced(p, left, cut) == Announced(p, Len(p)) + cut = (Len(p) - 1) + left

\* A reader of p is never done before the end.
Sufficient(p) == \A k \in 1 .. Len(p) - 1 : Announced(p, k) >= k

Announcing ==
  Writing => Balanced(pieces, Outstanding, Cut) /\ (~LongChain => Sufficient(pieces))

\* With the items of a piece, what is left and cut off comes to as much as before.
Accounts(e, left, cut, left2, cut2) ==
  /\ left \in Nat /\ cut \in Nat /\ left2 \in Nat /\ cut2 \in Nat
  /\ left + e.items + cut2 = 1 + left2 + cut

\* A reader that has not lost count expects at least one piece more.
Expected(left, cut) == cut = 0 /\ left # 0

\* One more piece, of which a reader that has not lost count expects at least one.
LEMMA OnePiece ==
  ASSUME NEW p \in Seq(Pieces), NEW n, NEW e \in Pieces, NEW q, OneMore(p, n, e, q),
         NEW left, NEW cut, NEW left2, NEW cut2,
         Accounts(e, left, cut, left2, cut2), Balanced(p, left, cut)
  PROVE  /\ q \in Seq(Pieces) /\ Balanced(q, left2, cut2)
         /\ Expected(left, cut) /\ Sufficient(p) => Sufficient(q)
<1> DEFINE m == e.items
           a == Announced(p, n)
           b == Announced(q, n + 1)
<1>0. /\ m \in Nat /\ left + m + cut2 = 1 + left2 + cut
      /\ left \in Nat /\ cut \in Nat /\ left2 \in Nat /\ cut2 \in Nat
  BY DEF Pieces, Accounts
<1>9. n = Len(p)
  BY DEF OneMore
<1>2. a + cut = (n - 1) + left
  BY <1>9 DEF Balanced
<1>1. /\ q \in Seq(Pieces) /\ Len(q) = n + 1 /\ n \in Nat
      /\ \A k \in 0 .. n : Announced(q, k) = Announced(p, k)
      /\ b = a + m /\ a \in Nat
  <2>1. /\ q \in Seq(Pieces) /\ Len(q) = n + 1 /\ n \in Nat
        /\ \A k \in 0 .. n : Announced(q, k) = Announced(p, k)
    BY <1>9, AnnouncedAppend
  <2>2. Announced(q, n + 1) = Announced(p, n) + e.items
    BY <1>9, AnnouncedAppend
  <2>3. Announced(p, n) \in Nat
    BY <1>9, AnnouncedAppend
  <2> QED BY <2>1, <2>2, <2>3
<1> HIDE DEF a, b, m
<1>3. b + cut2 = ((n + 1) - 1) + left2
  BY <1>0, <1>1, <1>2
<1>4. Balanced(q, left2, cut2)
  BY <1>1, <1>3 DEF Balanced, b
<1>5. ASSUME Expected(left, cut), Sufficient(p) PROVE Sufficient(q)
  <2> SUFFICES ASSUME NEW k \in 1 .. n PROVE Announced(q, k) >= k
    BY <1>1 DEF Sufficient
  <2>1. Announced(q, k) = Announced(p, k)
    BY <1>1
  <2>2. CASE k = n
    <3>1. a >= n
      BY <1>0, <1>1, <1>2, <1>5 DEF Expected
    <3> QED BY <2>1, <2>2, <3>1 DEF a
  <2>3. CASE k # n
    BY <1>1, <1>5, <2>1, <1>9, <2>3 DEF Sufficient
  <2> QED BY <2>2, <2>3
<1> QED BY <1>1, <1>4, <1>5

\* What the count of a chain cuts off.
LEMMA CutOff ==
  ASSUME NEW t \in Nat
  PROVE  /\ t % 256 \in Nat /\ t - (t % 256) \in Nat
         /\ t > 255 <=> t - (t % 256) # 0
<1>1. t % 256 \in 0 .. 255
  OBVIOUS
<1>2. t <= 255 => t % 256 = t
  OBVIOUS
<1>3. t % 256 <= t
  OBVIOUS
<1> QED BY <1>1, <1>2, <1>3

\* The state of the write pass.
LEMMA WritePassFacts ==
  ASSUME IInv
  PROVE  /\ call \in Calls /\ Len(signature) \in Nat /\ Len(tags) \in Nat
         /\ arg \in 1 .. Len(signature) + 1 /\ node \in Nat \ {0}
         /\ pieces \in Seq(Pieces) /\ pos \in Nat /\ chainPos \in Nat
         /\ phase = "writeNodes" => /\ arg = 1 /\ arg <= Len(signature) /\ HasChainArgument
                                    /\ node <= Len(tags) + 1
         /\ phase = "sent" => arg = Len(signature) + 1
         /\ Cut \in Nat
         /\ ~LongChain => Cut = 0
         /\ HasChainArgument => Len(signature) >= 1 /\ signature[1] = "ATTRIBUTION_CHAIN"
<1>1. /\ call \in Calls /\ Len(signature) \in Nat /\ Len(tags) \in Nat
      /\ arg \in 1 .. Len(signature) + 1 /\ node \in Nat \ {0}
      /\ pieces \in Seq(Pieces) /\ pos \in Nat /\ chainPos \in Nat
  BY CallTypes, TagsType DEF IInv, TypeOK
<1>2. /\ DOMAIN signature = 1 .. Len(signature)
      /\ \A k \in DOMAIN signature : signature[k] = "ATTRIBUTION_CHAIN" => k = 1
  BY ChainIsFirst
<1>3. phase = "writeNodes" => /\ arg = 1 /\ arg <= Len(signature) /\ HasChainArgument
                              /\ node <= Len(tags) + 1
  <2> SUFFICES ASSUME phase = "writeNodes"
               PROVE  arg = 1 /\ arg <= Len(signature) /\ HasChainArgument /\ node <= Len(tags) + 1
    OBVIOUS
  <2>1. AtChain("writeNodes") /\ node <= Len(attrSizes)
    BY DEF IInv, WriteFollowsSize
  <2>2. arg <= Len(signature) /\ signature[arg] = "ATTRIBUTION_CHAIN" /\ arg \in DOMAIN signature
    BY <1>1, <1>2, <2>1 DEF AtChain, AtArgument
  <2>3. Len(attrSizes) = Len(tags) + 1
    BY <2>2 DEF IInv, NodesRecorded, Writing
  <2> QED BY <1>2, <2>1, <2>2, <2>3 DEF HasChainArgument
<1>4. phase = "sent" => arg = Len(signature) + 1
  BY DEF IInv, WriteFollowsSize
<1>5. Cut \in Nat /\ (~LongChain => Cut = 0)
  BY <1>1, CutOff DEF Cut, LongChain, HasChainArgument
<1>6. HasChainArgument => Len(signature) >= 1 /\ signature[1] = "ATTRIBUTION_CHAIN"
  BY <1>1, <1>2 DEF HasChainArgument
<1> QED BY <1>1, <1>3, <1>4, <1>5, <1>6

\* The header announces the arguments, the timestamp and the atom id.
LEMMA HeaderAnnounced ==
  ASSUME NEW n \in Nat, n = Len(signature)
  PROVE  /\ Header \in Seq(Pieces) /\ Len(Header) = 3
         /\ Announced(Header, 3) = n + 2 /\ Sufficient(Header)
<1>1. /\ Header \in Seq(Pieces) /\ Len(Header) = 3
      /\ Header[1].items = n + 2 /\ Header[2].items = 0 /\ Header[3].items = 0
  BY DEF Header, List, Value, Pieces, LIST_TYPE_OVERHEAD, LONG_TYPE_SIZE, INT_TYPE_SIZE
<1> DEFINE p == Header
<1>2. p \in Seq(Pieces) /\ Len(p) = 3 /\ p[1].items = n + 2 /\ p[2].items = 0 /\ p[3].items = 0
  BY <1>1
<1> HIDE DEF p
<1>3. /\ Announced(p, 0) = 0
      /\ \A k \in 1 .. 3 : Announced(p, k) = Announced(p, k - 1) + p[k].items
  BY <1>2, AnnouncedStep
<1>4. Announced(p, 1) = n + 2
  <2>1. Announced(p, 1) = Announced(p, 1 - 1) + p[1].items
    BY <1>3
  <2> QED BY <1>2, <1>3, <2>1
<1>5. Announced(p, 2) = n + 2
  <2>1. Announced(p, 2) = Announced(p, 2 - 1) + p[2].items
    BY <1>3
  <2> QED BY <1>2, <1>4, <2>1
<1>6. Announced(p, 3) = n + 2
  <2>1. Announced(p, 3) = Announced(p, 3 - 1) + p[3].items
    BY <1>3
  <2> QED BY <1>2, <1>5, <2>1
<1>7. Sufficient(p)
  BY <1>2, <1>4, <1>5 DEF Sufficient
<1> QED BY <1>2, <1>6, <1>7 DEF p

\* After the header a reader expects the arguments.
LEMMA AllocateAnnouncing ==
  ASSUME IInv, Allocate
  PROVE  Announcing'
<1>1. /\ pieces' = Header /\ arg' = 1 /\ phase' = "write" /\ call' = call
  BY DEF Allocate
<1>2. Len(signature) \in Nat /\ signature' = signature /\ tags' = tags
  BY <1>1, WritePassFacts, SameCall
<1>3. Outstanding' = Len(signature) /\ Cut' = 0
  BY <1>1, <1>2 DEF Outstanding, Cut
<1>4. Len(Header) = 3 /\ Announced(Header, 3) = Len(signature) + 2 /\ Sufficient(Header)
  BY <1>2, HeaderAnnounced
<1>5. Balanced(Header, Len(signature), 0)
  BY <1>2, <1>4 DEF Balanced
<1>6. Balanced(pieces', Outstanding', Cut') /\ Sufficient(pieces')
  BY <1>1, <1>3, <1>4, <1>5
<1> QED BY <1>6 DEF Announcing, Balanced, Sufficient

\* A value was expected.
LEMMA WriteValueAnnouncing ==
  ASSUME IInv, Announcing, WriteValue
  PROVE  Announcing'
<1> DEFINE size == WrittenSize(signature[arg], call.args[arg])
           e == Value(pos, size)
           n == Len(signature)
<1>1. /\ phase = "write" /\ arg <= n /\ signature[arg] # "ATTRIBUTION_CHAIN"
      /\ phase' = "write" /\ arg' = arg + 1 /\ call' = call
      /\ pieces' = Append(pieces, e)
  BY DEF WriteValue, AtValue, AtArgument
<1>2. /\ n \in Nat /\ arg \in 1 .. n /\ pieces \in Seq(Pieces) /\ call \in Calls
      /\ Cut \in Nat /\ (~LongChain => Cut = 0) /\ signature' = signature /\ tags' = tags
      /\ (HasChainArgument => signature[1] = "ATTRIBUTION_CHAIN")
      /\ LongChain' = LongChain
  BY <1>1, WritePassFacts, SameCall, SameEvent
<1>3. e \in Pieces /\ e.items = 0
  <2>1. size \in Nat /\ pos \in Nat
    BY <1>2, SameSize, WritePassFacts
  <2> HIDE DEF size
  <2> QED BY <2>1 DEF Value, Pieces
<1> HIDE DEF e, size, n
<1>4. Outstanding = (n - arg) + 1 /\ Outstanding' = n - arg
  BY <1>1, <1>2 DEF Outstanding, n
<1>5. Cut' = Cut
  <2>1. HasChainArgument' <=> HasChainArgument
    BY <1>2 DEF HasChainArgument
  <2>2. HasChainArgument => arg > 1 /\ arg' > 1
    BY <1>1, <1>2
  <2> QED BY <1>1, <1>2, <2>1, <2>2 DEF Cut
<1>6. Balanced(pieces, (n - arg) + 1, Cut) /\ (~LongChain => Sufficient(pieces))
  BY <1>1, <1>4 DEF Announcing, Writing
<1> DEFINE left == (n - arg) + 1
           left2 == n - arg
           cut == Cut
<1>7. Accounts(e, left, cut, left2, cut) /\ left # 0
  BY <1>2, <1>3 DEF Accounts
<1>8. Balanced(pieces, left, cut)
  BY <1>6
<1> HIDE DEF left, left2, cut
<1>9. /\ Balanced(pieces', left2, cut)
      /\ Expected(left, cut) /\ Sufficient(pieces) => Sufficient(pieces')
  <2>1. OneMore(pieces, Len(pieces), e, pieces')
    BY <1>1 DEF OneMore
  <2> QED BY <1>2, <1>3, <1>7, <1>8, <2>1, OnePiece
<1>10. Balanced(pieces', Outstanding', Cut') /\ (~LongChain' => Sufficient(pieces'))
  BY <1>2, <1>4, <1>5, <1>6, <1>7, <1>9 DEF left2, cut, Expected
<1> QED BY <1>10 DEF Announcing, Balanced, Sufficient

\* A chain was expected, and announces its nodes as far as a byte counts them.
LEMMA WriteChainAnnouncing ==
  ASSUME IInv, Announcing, WriteChain
  PROVE  Announcing'
<1> DEFINE n == Len(signature)
           t == Len(tags)
           e == List(pos, t % 256)
<1>1. /\ phase = "write" /\ arg <= n /\ signature[arg] = "ATTRIBUTION_CHAIN"
      /\ phase' = "writeNodes" /\ arg' = arg /\ node' = 1 /\ call' = call
      /\ pieces' = Append(pieces, e)
  BY DEF WriteChain, AtChain, AtArgument
<1>2. /\ n \in Nat /\ arg \in 1 .. n /\ pieces \in Seq(Pieces) /\ t \in Nat /\ pos \in Nat
      /\ (~LongChain => Cut = 0) /\ signature' = signature /\ tags' = tags /\ LongChain' = LongChain
  BY <1>1, WritePassFacts, SameCall, SameEvent
<1>3. arg = 1 /\ HasChainArgument /\ HasChainArgument'
  <2>1. arg \in DOMAIN signature /\ arg = 1
    BY <1>1, <1>2, ChainIsFirst
  <2> QED BY <1>1, <1>2, <2>1 DEF HasChainArgument
<1>4. t % 256 \in Nat /\ t - (t % 256) \in Nat
  BY <1>2, CutOff
<1>5. e \in Pieces /\ e.items = t % 256
  BY <1>2, <1>4 DEF List, Pieces, LIST_TYPE_OVERHEAD
<1> HIDE DEF e
<1>6. Outstanding = n /\ Outstanding' = (n - 1) + t
  <2>1. Outstanding = (n - arg) + 1
    BY <1>1 DEF Outstanding
  <2>2. Outstanding' = (n - arg) + ((t - 1) + 1)
    BY <1>1, <1>2 DEF Outstanding
  <2> HIDE DEF n, t
  <2> QED BY <1>2, <1>3, <2>1, <2>2
<1>7. Cut = 0 /\ Cut' = t - (t % 256)
  <2>1. Cut = 0
    BY <1>1, <1>2, <1>3 DEF Cut
  <2>2. Cut' = t - (t % 256)
    BY <1>1, <1>2, <1>3 DEF Cut
  <2> QED BY <2>1, <2>2
<1>8. Balanced(pieces, n, 0) /\ (~LongChain => Sufficient(pieces))
  BY <1>1, <1>6, <1>7 DEF Announcing, Writing
<1> DEFINE m == t % 256
           cut2 == t - m
           left2 == (n - 1) + t
<1> HIDE DEF n, t, m
<1>9. Accounts(e, n, 0, left2, cut2) /\ n # 0
  BY <1>2, <1>3, <1>4, <1>5 DEF Accounts, m
<1> HIDE DEF left2, cut2
<1>10. /\ Balanced(pieces', left2, cut2)
       /\ Expected(n, 0) /\ Sufficient(pieces) => Sufficient(pieces')
  <2>1. OneMore(pieces, Len(pieces), e, pieces')
    BY <1>1 DEF OneMore
  <2>2. pieces \in Seq(Pieces) /\ e \in Pieces
    BY <1>2, <1>5
  <2> QED BY <1>8, <1>9, <2>1, <2>2, OnePiece
<1>11. Balanced(pieces', Outstanding', Cut') /\ (~LongChain' => Sufficient(pieces'))
  BY <1>2, <1>6, <1>7, <1>8, <1>9, <1>10 DEF left2, cut2, m, Expected
<1> QED BY <1>11 DEF Announcing, Balanced, Sufficient

\* A node was expected, and announces its uid and its tag.
LEMMA WriteNodeAnnouncing ==
  ASSUME IInv, Announcing, WriteNode
  PROVE  Announcing'
<1> DEFINE n == Len(signature)
           t == Len(tags)
           size == STRING_TYPE_OVERHEAD + tagLength(node)
           head == List(chainPos, 2)
           uid  == Value(chainPos + LIST_TYPE_OVERHEAD, INT_TYPE_SIZE)
           tag  == Value(chainPos + LIST_TYPE_OVERHEAD + INT_TYPE_SIZE, size)
<1>1. /\ phase = "writeNodes" /\ node <= t /\ phase' = "writeNodes"
      /\ node' = node + 1 /\ arg' = arg /\ call' = call
      /\ pieces' = pieces \o <<head, uid, tag>>
  BY DEF WriteNode
<1>2. /\ n \in Nat /\ t \in Nat /\ arg = 1 /\ arg <= n /\ node \in 1 .. t /\ pieces \in Seq(Pieces)
      /\ chainPos \in Nat /\ call \in Calls /\ Cut \in Nat /\ (~LongChain => Cut = 0)
      /\ signature' = signature /\ tags' = tags /\ LongChain' = LongChain
  BY <1>1, WritePassFacts, SameCall, SameEvent
<1>3. /\ head \in Pieces /\ head.items = 2
      /\ uid \in Pieces /\ uid.items = 0
      /\ tag \in Pieces /\ tag.items = 0
  <2>1. size \in Nat
    BY <1>2, TagsType DEF STRING_TYPE_OVERHEAD
  <2> HIDE DEF size
  <2> QED BY <1>2, <2>1 DEF List, Value, Pieces, LIST_TYPE_OVERHEAD, INT_TYPE_SIZE
<1>4. Cut' = Cut
  BY <1>1, <1>2 DEF Cut, HasChainArgument
<1>5. /\ Outstanding = (n - arg) + ((t - node) + 1)
      /\ Outstanding' = (n - arg) + ((t - (node + 1)) + 1)
  BY <1>1, <1>2 DEF Outstanding
<1> DEFINE left == (n - arg) + ((t - node) + 1)
           left2 == (n - arg) + ((t - (node + 1)) + 1)
           more == left + 1
           cut == Cut
           p1 == Append(pieces, head)
           p2 == Append(p1, uid)
           p3 == Append(p2, tag)
<1>6. Balanced(pieces, left, cut) /\ (~LongChain => Sufficient(pieces))
  BY <1>1, <1>5 DEF Announcing, Writing
<1>7. pieces' = p3
  <2> HIDE DEF head, uid, tag
  <2> QED BY <1>1, <1>2, <1>3
<1> HIDE DEF n, t, head, uid, tag
<1>8. left \in Nat /\ left # 0 /\ left2 \in Nat /\ left = left2 + 1 /\ cut \in Nat
      /\ more \in Nat /\ more = left + 1
  BY <1>2
<1> HIDE DEF left, left2, more, cut
<1>9. p1 \in Seq(Pieces) /\ Balanced(p1, more, cut)
      /\ (Expected(left, cut) /\ Sufficient(pieces) => Sufficient(p1))
  <2>1. OneMore(pieces, Len(pieces), head, p1)
    BY DEF OneMore
  <2>2. Accounts(head, left, cut, more, cut)
    BY <1>3, <1>8 DEF Accounts
  <2>3. pieces \in Seq(Pieces) /\ head \in Pieces
    BY <1>2, <1>3
  <2> HIDE DEF p1
  <2>4. Balanced(pieces, left, cut) /\ left # 0
    BY <1>6, <1>8
  <2> HIDE DEF head
  <2>5. p1 \in Seq(Pieces) /\ Balanced(p1, more, cut)
    BY <2>1, <2>2, <2>3, <2>4, OnePiece
  <2>6. Expected(left, cut) /\ Sufficient(pieces) => Sufficient(p1)
    BY <2>1, <2>2, <2>3, <2>4, OnePiece
  <2> QED BY <2>5, <2>6
<1> HIDE DEF p1
<1>10. p2 \in Seq(Pieces) /\ Balanced(p2, left, cut)
      /\ (Expected(more, cut) /\ Sufficient(p1) => Sufficient(p2))
  <2>1. OneMore(p1, Len(p1), uid, p2)
    BY DEF OneMore
  <2>2. Accounts(uid, more, cut, left, cut) /\ more # 0
    BY <1>3, <1>8 DEF Accounts
  <2> HIDE DEF p2
  <2>3. p1 \in Seq(Pieces) /\ uid \in Pieces /\ Balanced(p1, more, cut)
    BY <1>3, <1>9
  <2>5. p2 \in Seq(Pieces) /\ Balanced(p2, left, cut)
    BY <2>1, <2>2, <2>3, OnePiece
  <2>6. Expected(more, cut) /\ Sufficient(p1) => Sufficient(p2)
    BY <2>1, <2>2, <2>3, OnePiece
  <2> QED BY <2>5, <2>6
<1> HIDE DEF p2
<1>11. p3 \in Seq(Pieces) /\ Balanced(p3, left2, cut)
      /\ (Expected(left, cut) /\ Sufficient(p2) => Sufficient(p3))
  <2>1. OneMore(p2, Len(p2), tag, p3)
    BY DEF OneMore
  <2>2. Accounts(tag, left, cut, left2, cut)
    BY <1>3, <1>8 DEF Accounts
  <2> HIDE DEF p3
  <2>3. p2 \in Seq(Pieces) /\ tag \in Pieces /\ Balanced(p2, left, cut) /\ left # 0
    BY <1>3, <1>8, <1>10
  <2> QED BY <2>1, <2>2, <2>3, OnePiece
<1> HIDE DEF p3
<1>12. Balanced(pieces', Outstanding', Cut')
  <2>1. Outstanding' = left2 /\ Cut' = cut
    BY <1>4, <1>5 DEF left2, cut
  <2> QED BY <1>7, <1>11, <2>1
<1>13. ~LongChain' => Sufficient(pieces')
  <2>1. ~LongChain => cut = 0
    BY <1>2 DEF cut
  <2>2. Expected(left, 0) /\ Expected(more, 0)
    BY <1>8 DEF Expected
  <2> QED BY <1>2, <1>6, <1>7, <1>9, <1>10, <1>11, <2>1, <2>2
<1> QED BY <1>12, <1>13 DEF Announcing, Balanced, Sufficient

\* With its last node a chain is complete, and the next argument expected.
LEMMA WriteLastNodeAnnouncing ==
  ASSUME IInv, Announcing, WriteLastNode
  PROVE  Announcing'
<1> DEFINE n == Len(signature)
           t == Len(tags)
<1>1. /\ phase = "writeNodes" /\ node > t /\ phase' = "write"
      /\ node' = node /\ arg' = arg + 1 /\ call' = call /\ pieces' = pieces
  BY DEF WriteLastNode
<1>2. /\ n \in Nat /\ t \in Nat /\ arg = 1 /\ arg <= n /\ node \in Nat /\ node <= t + 1 /\ HasChainArgument
      /\ signature' = signature /\ tags' = tags /\ LongChain' = LongChain
  BY <1>1, WritePassFacts, SameCall, SameEvent
<1>3. Cut' = Cut
  BY <1>1, <1>2 DEF Cut, HasChainArgument
<1>4. Outstanding' = Outstanding
  <2>1. /\ Outstanding = (n - arg) + ((t - node) + 1)
        /\ Outstanding' = (n - (arg + 1)) + 1
    BY <1>1, <1>2 DEF Outstanding
  <2> HIDE DEF n, t
  <2>2. node = t + 1
    BY <1>1, <1>2
  <2> QED BY <1>2, <2>1, <2>2
<1>5. Balanced(pieces, Outstanding, Cut) /\ (~LongChain => Sufficient(pieces))
  BY <1>1 DEF Announcing, Writing
<1>6. Balanced(pieces', Outstanding', Cut') /\ (~LongChain' => Sufficient(pieces'))
  BY <1>1, <1>2, <1>3, <1>4, <1>5
<1> QED BY <1>6 DEF Announcing, Balanced, Sufficient

\* After the last argument it expects nothing.
LEMMA SendAnnouncing ==
  ASSUME IInv, Announcing, Send
  PROVE  Announcing'
<1> DEFINE n == Len(signature)
<1>1. /\ phase = "write" /\ arg > n /\ phase' = "sent"
      /\ node' = node /\ arg' = arg /\ call' = call /\ pieces' = pieces
  BY DEF Send
<1>2. /\ n \in Nat /\ arg \in 1 .. n + 1
      /\ signature' = signature /\ tags' = tags /\ LongChain' = LongChain
  BY <1>1, WritePassFacts, SameCall, SameEvent
<1>3. Cut' = Cut
  BY <1>1, <1>2 DEF Cut, HasChainArgument
<1>4. Outstanding = (n - arg) + 1 /\ Outstanding' = 0
  BY <1>1, <1>2 DEF Outstanding
<1>5. Balanced(pieces, Outstanding, Cut) /\ (~LongChain => Sufficient(pieces))
  BY <1>1 DEF Announcing, Writing
<1>6. Outstanding = 0
  <2> HIDE DEF n
  <2> QED BY <1>1, <1>2, <1>4
<1>7. Balanced(pieces', Outstanding', Cut') /\ (~LongChain' => Sufficient(pieces'))
  BY <1>1, <1>2, <1>3, <1>4, <1>5, <1>6
<1> QED BY <1>7 DEF Announcing, Balanced, Sufficient

\* Every step keeps what is announced in balance with what is written.
LEMMA AnnouncingStep ==
  ASSUME IInv, Announcing, [Next]_vars
  PROVE  Announcing'
<1>1. CASE SizeValue \/ SizeChain \/ SizeNode \/ SizeLastNode \/ Drop
  <2>1. ~Writing'
    BY <1>1 DEF SizeValue, SizeChain, SizeNode, SizeLastNode, Drop, AtValue, AtChain, AtArgument, Writing
  <2> QED BY <2>1 DEF Announcing
<1>2. CASE Allocate
  BY <1>2, AllocateAnnouncing
<1>3. CASE WriteValue
  BY <1>3, WriteValueAnnouncing
<1>4. CASE WriteChain
  BY <1>4, WriteChainAnnouncing
<1>5. CASE WriteNode
  BY <1>5, WriteNodeAnnouncing
<1>6. CASE WriteLastNode
  BY <1>6, WriteLastNodeAnnouncing
<1>7. CASE Send
  BY <1>7, SendAnnouncing
<1>8. CASE UNCHANGED vars
  <2>1. /\ call' = call /\ phase' = phase /\ arg' = arg /\ node' = node /\ pieces' = pieces
    BY <1>8 DEF vars
  <2>2. signature' = signature /\ tags' = tags /\ LongChain' = LongChain
    BY <2>1, SameCall, SameEvent
  <2>3. Outstanding' = Outstanding /\ Cut' = Cut
    BY <2>1, <2>2 DEF Outstanding, Cut, HasChainArgument
  <2>4. Writing => Balanced(pieces', Outstanding', Cut') /\ (~LongChain' => Sufficient(pieces'))
    BY <2>1, <2>2, <2>3 DEF Announcing
  <2>5. Writing' <=> Writing
    BY <2>1 DEF Writing
  <2> QED BY <2>4, <2>5 DEF Announcing, Balanced, Sufficient
<1> QED BY <1>1, <1>2, <1>3, <1>4, <1>5, <1>6, <1>7, <1>8 DEF Next, Returned

\* At the end nothing is outstanding, so a reader is done unless something was cut.
LEMMA AnnouncingReadBack ==
  ASSUME IInv, Announcing
  PROVE  ReadBack
<1> SUFFICES ASSUME phase = "sent"
             PROVE  Sufficient(pieces) /\ Announced(pieces, Len(pieces)) = Len(pieces) - 1
                      <=> ~LongChain
  BY DEF ReadBack, Sufficient
<1> DEFINE n == Len(signature)
           a == Announced(pieces, Len(pieces))
           l == Len(pieces)
<1>1. /\ n \in Nat /\ Len(tags) \in Nat /\ arg = n + 1 /\ pieces \in Seq(Pieces)
      /\ Cut \in Nat /\ (~LongChain => Cut = 0) /\ (HasChainArgument => n >= 1)
  BY WritePassFacts
<1>2. Outstanding = 0
  BY DEF Outstanding
<1>3. l \in Nat /\ a \in Nat /\ a + Cut = l - 1
  <2>1. Writing
    BY DEF Writing
  <2>2. a + Cut = (l - 1) + 0
    BY <1>2, <2>1 DEF Announcing, Balanced
  <2>3. l \in Nat /\ l \in 0 .. l
    BY <1>1
  <2>4. a \in Nat
    BY <1>1, <2>3, AnnouncedStep
  <2> HIDE DEF a, l
  <2> QED BY <2>2, <2>3, <2>4
<1>4. CASE LongChain
  <2>1. HasChainArgument /\ Len(tags) > 255
    BY <1>4 DEF LongChain, HasChainArgument
  <2>2. arg > 1
    <3> HIDE DEF n
    <3> QED BY <1>1, <2>1
  <2>3. Cut = Len(tags) - (Len(tags) % 256)
    BY <2>1, <2>2 DEF Cut
  <2>4. Cut # 0
    BY <1>1, <2>1, <2>3, CutOff
  <2>5. a # l - 1
    <3> HIDE DEF a, l
    <3> QED BY <1>1, <1>3, <2>4
  <2> QED BY <1>4, <2>5
<1>5. CASE ~LongChain
  <2>1. Sufficient(pieces)
    BY <1>5 DEF Announcing, Writing
  <2>2. a = l - 1
    <3> HIDE DEF a, l
    <3> QED BY <1>1, <1>3, <1>5
  <2> QED BY <1>5, <2>1, <2>2
<1> QED BY <1>4, <1>5

\* What is sent can be read back by the counts of its lists (java_writer_q.cpp:181),
\* unless a chain has more nodes than its byte counts (:328); then it never can.
THEOREM ReadBackCorrect == Spec => []ReadBack
<1>1. Init => Announcing
  BY DEF Init, Announcing, Writing
<1>2. IInv /\ Announcing /\ [Next]_vars => Announcing'
  BY AnnouncingStep
<1>3. IInv /\ Announcing => ReadBack
  BY AnnouncingReadBack
<1> QED BY <1>1, <1>2, <1>3, PassesAgree, PTL DEF Spec
=============================================================================
