-------------------------------- MODULE Wire --------------------------------
(***************************************************************************)
(* The records that values cross the boundary as, and how the host reads   *)
(* them (build/abi.h, internal/host/codec/decode.go).                      *)
(*                                                                         *)
(* A region is a function from the numbers of its 32-bit words to what is  *)
(* in them; an address is in bytes.  A text is the word it is filled with, *)
(* the number of the object it belongs to.  A value is read into a node.   *)
(***************************************************************************)
EXTENDS Integers, Sequences, FiniteSets

Word == 4
ValueSize == 12
TransferSize == 20
EntrySize == 4        \* of a ledger
ClassHeader == 4

KindInvalid == 0
KindNone == 2
KindInt == 4
KindStr == 7
KindTuple == 9
KindList == 10
KindDict == 11
KindObject == 13
KindException == 15

AttrMask == 3

Aligned(n) == ((n + Word - 1) \div Word) * Word
Words(n) == Aligned(n) \div Word

\* A region of n bytes at an address, filled with w.
Filled(base, n, w) == [i \in base \div Word .. (base + n) \div Word - 1 |-> w]

\* The region with a sequence of words written to an address.
Put(mem, at, words) ==
  [i \in DOMAIN mem |->
     IF i - at \div Word + 1 \in DOMAIN words THEN words[i - at \div Word + 1] ELSE mem[i]]

PutText(mem, at, n, w) == Put(mem, at, [i \in 1 .. Words(n) |-> w])

At(mem, a) == mem[a \div Word]

Record(kind, w1, w2) == <<kind, w1, w2>>

\* What a record says, once it is read.
Node(kind, word, size, attr, items) ==
  [kind |-> kind, word |-> word, size |-> size, attr |-> attr, items |-> items]

None == Node(KindNone, 0, 0, 0, <<>>)
Str(word, size) == Node(KindStr, word, size, 0, <<>>)

\* A handle has an id, and the name of the class as a text.
Object(id, attr, name, size) == Node(KindObject, id, 0, attr, <<Str(name, size)>>)

-----------------------------------------------------------------------------
(* What decode.go asks of a transfer of `size` bytes at `base` (Decoding   *)
(* has what it makes of the records).                                      *)

\* Arena.View of a span that is lent.
InSpan(base, size, a, n) == a >= base /\ n >= 0 /\ a + n <= base + size

\* A blob is read if it lies in the span; a word that is not its own makes it 0.
Text(mem, a, n) ==
  IF n = 0 THEN 0
  ELSE LET w == At(mem, a)
       IN  IF \A i \in 1 .. Words(n) : At(mem, a + (i - 1) * Word) = w THEN w ELSE 0

\* The ids of the ledger, or an error.
ReadRefs(mem, base, size) ==
  LET refs == At(mem, base + ValueSize)
      count == At(mem, base + ValueSize + Word)
      ids == [i \in 1 .. count |-> At(mem, refs + (i - 1) * EntrySize)]
  IN  IF count = 0 /\ refs = 0 THEN [ok |-> TRUE, ids |-> <<>>]
      ELSE IF \/ count <= 0
              \/ refs % Word # 0
              \/ refs < base + TransferSize
              \/ refs + count * EntrySize > base + size
              \/ \E i \in 1 .. count : ids[i] = 0
           THEN [ok |-> FALSE, ids |-> <<>>]
           ELSE [ok |-> TRUE, ids |-> ids]
=============================================================================
