------------------------------ MODULE Decoding ------------------------------
(***************************************************************************)
(* What the host makes of the bytes of a transfer (decode.go), and what    *)
(* they were meant to be (Transfer).                                       *)
(***************************************************************************)
EXTENDS Transfer

\* How many records there can be.
RecordLimit(size) == size \div ValueSize

\* What a decoder has come to: a value or an error, the records that it may still visit,
\* and the ids that it has retained.
Gives(node, left, retained) == [ok |-> TRUE, node |-> node, left |-> left, retained |-> retained]
Fails(left, retained) == [ok |-> FALSE, node |-> None, left |-> left, retained |-> retained]

\* decodeBlock: one record after the other, each one level down.
DecodeItems(block, count, left, below) ==
  LET items[i \in 0 .. count] ==
        IF i = 0 THEN [ok |-> TRUE, nodes |-> <<>>, left |-> left, retained |-> <<>>]
        ELSE LET d == items[i - 1]
                 r == below[<<block + (i - 1) * ValueSize, d.left>>]
             IN  IF ~d.ok THEN d
                 ELSE [ok |-> r.ok, nodes |-> Append(d.nodes, r.node), left |-> r.left,
                       retained |-> d.retained \o r.retained]
  IN  items[count]

\* class: without an address, or with a length that is none, there is no name.
NameSize(d, class) ==
  IF class = 0 \/ At(d.mem, class) <= 0 THEN 0 ELSE At(d.mem, class)

\* decodeAt and decode, of the record at a, with `left` records to visit.  d has the
\* region, what of it is lent, and the ids of the ledger.
DecodeAt(d, a, left, below) ==
  LET kind == At(d.mem, a)
      w1 == At(d.mem, a + Word)
      w2 == At(d.mem, a + 2 * Word)
      count == IF kind = KindDict THEN 2 * w1 ELSE w1
      class == w2 - (w2 % (AttrMask + 1))
      InView(at, n) == InSpan(d.base, d.size, at, n)
  IN  IF a % Word # 0 \/ ~InView(a, ValueSize) \/ left = 0 THEN Fails(left, <<>>)
      ELSE CASE kind = KindNone -> Gives(None, left - 1, <<>>)
             [] kind = KindInt -> Gives(Node(kind, w1, 0, 0, <<>>), left - 1, <<>>)
             [] kind \in {KindStr, KindException} ->
                  IF (w1 # 0 \/ w2 # 0) /\ ~InView(w2, w1) THEN Fails(left - 1, <<>>)
                  ELSE Gives(Node(kind, Text(d.mem, w2, w1), w1, 0, <<>>), left - 1, <<>>)
             [] kind \in {KindTuple, KindList, KindDict} ->
                  IF count = 0 THEN Gives(Node(kind, 0, 0, 0, <<>>), left - 1, <<>>)
                  ELSE IF \/ count < 0 \/ w2 = 0 \/ count > left - 1
                          \/ ~InView(w2, count * ValueSize)
                       THEN Fails(left - 1, <<>>)
                       ELSE LET r == DecodeItems(w2, count, left - 1, below)
                            IN  IF r.ok THEN Gives(Node(kind, 0, 0, 0, r.nodes), r.left, r.retained)
                                ELSE Fails(r.left, r.retained)
             [] kind = KindObject ->
                  IF w1 \notin d.ids THEN Fails(left - 1, <<>>)
                  ELSE IF class # 0 /\ (\/ ~InView(class, ClassHeader)
                                        \/ ~InView(class + ClassHeader, NameSize(d, class)))
                       THEN Fails(left - 1, <<w1>>)
                       ELSE Gives(Object(w1, w2 % (AttrMask + 1),
                                         Text(d.mem, class + ClassHeader, NameSize(d, class)),
                                         NameSize(d, class)),
                                  left - 1, <<w1>>)
             [] OTHER -> Fails(left - 1, <<>>)

\* With n levels to go, by address and records left; with none, the value is nested too
\* deep.
Decoder(d, levels) ==
  LET decode[n \in 0 .. levels] ==
        [x \in Int \X Nat |->
           IF n = 0 THEN Fails(x[2], <<>>) ELSE DecodeAt(d, x[1], x[2], decode[n - 1])]
  IN  decode[levels]

\* Codec.Decode: the node, and the handles that were retained, whatever came of it.  With
\* an unreadable ledger there are none, and nobody gives anything back.
Decode(mem, base, size, maxDepth) ==
  LET refs == ReadRefs(mem, base, size)
      d == [mem |-> mem, base |-> base, size |-> size,
            ids |-> {refs.ids[i] : i \in DOMAIN refs.ids}]
      r == Decoder(d, maxDepth + 1)[<<base, RecordLimit(size)>>]
  IN  IF refs.ok THEN [ok |-> r.ok, node |-> r.node, taken |-> Held(r.retained)]
      ELSE [ok |-> FALSE, node |-> None, taken |-> Held(<<>>)]

\* What is in the region.
Decoded == Decode(region, Base, arena.offset, MaxDepth)

DecodeResult == LET d == Decoded IN ReadResult(d.ok, d.node, d.taken)
DecodeArguments == LET d == Decoded IN ReadArguments(d.ok, d.node, d.taken)

\* A transfer, with the decoder.
DecodingNext ==
  Starting \/ Writing \/ HandleRaise \/ RaiseInCaller
    \/ DecodeResult \/ DecodeArguments \/ RefuseArguments \/ CallGoesOn \/ Settle

DecodingSpec == TransferInit /\ [][DecodingNext]_transferVars

-----------------------------------------------------------------------------
(* Properties.                                                             *)

\* What the walk was asked to write, read off its history: a container inside itself
\* or too deep is a handle, and so is what has no form of its own; all else is whole.
CrossedAsHandle(e) ==
  \/ e.object \in Opaques
  \/ Len(e.path) + (IF purpose = "arguments" THEN 1 ELSE 0) >= MaxDepth
  \/ \E i \in DOMAIN e.path : e.path[i] = e.object

CrossedHandle(o) ==
  Object(o, IF o \in Opaques THEN Attributes[o] ELSE 0, IF Length[o] = 0 THEN 0 ELSE o, Length[o])

\* `nodes` is what is meant by what it holds.
Means(e, nodes) ==
  IF e.object \in Ints THEN Node(KindInt, e.object, 0, 0, <<>>)
  ELSE IF e.object \in Strs THEN Str(IF Length[e.object] = 0 THEN 0 ELSE e.object, Length[e.object])
  ELSE IF CrossedAsHandle(e) THEN CrossedHandle(e.object)
  ELSE Node(KindOf(e.object), 0, 0, 0, nodes)

\* The walks, from the i-th on, of the object o inside `path`, with its record at a.
WalksOf(i, o, path, a) ==
  {k \in i .. Len(log) : log[k].object = o /\ log[k].path = path /\ log[k].at = a}

Lost == Node(KindInvalid, 0, 0, 0, <<>>)

\* What is meant by a block of records, of objects inside `path`, each walked no earlier
\* than the i-th.
MeantItems(meant, i, items, path, block) ==
  [j \in DOMAIN items |->
     LET walks == WalksOf(i, items[j], path, block + (j - 1) * ValueSize)
     IN  IF walks = {} THEN Lost ELSE meant[CHOOSE k \in walks : TRUE]]

Meant ==
  LET meant[i \in DOMAIN log] ==
        Means(log[i], MeantItems(meant, i + 1, log[i].items, Append(log[i].path, log[i].object),
                                 log[i].place))
  IN  meant

\* What was asked for: None, one object, or the tuple of the arguments.
Asked ==
  LET items == MeantItems(Meant, 1, stack[1].items, <<>>, stack[1].block)
  IN  IF purpose = "arguments" THEN Node(KindTuple, 0, 0, 0, items)
      ELSE IF items = <<>> THEN None ELSE items[1]

\* What the host was given is what the guest had: containers as they were at one
\* moment, however Python changes them under the walk; nothing cut short, nothing
\* written over (encode.c, the snapshots; arena.c).
ValueIsWhole ==
  phase \in {"read", "called"} /\ outcome.kind = "value" => outcome.node = Asked

\* The limits of the two sides agree: what the guest says it has written the host can
\* read, at any depth, with any ledger, to the last byte of the region.
WrittenIsReadable == outcome.kind # "unreadable"
=============================================================================
