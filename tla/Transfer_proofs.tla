--------------------------- MODULE Transfer_proofs ---------------------------
(***************************************************************************)
(* That a result which did not fit is told as such, that an acquisition    *)
(* which stands belongs to a Go handle, and that nothing of a transfer is  *)
(* written over (Transfer); that the host can read what was written, and   *)
(* that it is what was asked for (Decoding).                               *)
(***************************************************************************)
EXTENDS Decoding, FiniteSetTheorems, SequenceTheorems, WellFoundedInduction, TLAPS

-----------------------------------------------------------------------------
(* The invariant.                                                          *)

Index == Base \div Word .. (Base + Capacity) \div Word - 1

Frames == [object : Objects \cup {Entry}, items : Seq(Objects), block : Nat, next : Nat \ {0}]

Records == [object : Objects, at : Nat]

Typed ==
  /\ contents \in [Containers -> Seq(Objects)]
  /\ phase \in {"idle", "writing", "committing", "raised", "written", "read", "called",
                "failing", "returned", "answered"}
  /\ region \in [Index -> Int]
  /\ arena \in [offset : 0 .. Capacity, overflowed : BOOLEAN]
  /\ stack \in Seq(Frames)
  /\ pending \in Seq(Records)
  /\ ledger \in Nat
  /\ committed \in 0 .. Len(pending)
  /\ counts \in [Objects -> Int]
  /\ handles \in [Objects -> Nat]

\* A block of n records is the first record of the region, or behind the header.
BlockSound(block, n, end) ==
  /\ block % Word = 0
  /\ block + n * ValueSize <= Base + end
  /\ \/ block = Base /\ n <= 1
     \/ block >= Base + TransferSize

FramesSound(frames, end) ==
  \A i \in DOMAIN frames : BlockSound(frames[i].block, Len(frames[i].items), end)

\* Every handle that is pending has its record below an address.
RecordsBelow(refs, end) ==
  \A i \in DOMAIN refs : refs[i].at % Word = 0 /\ refs[i].at + ValueSize <= end

HeaderSays(mem, refs, count) ==
  /\ At(mem, Base + ValueSize) = refs
  /\ At(mem, Base + ValueSize + Word) = count

\* The ledger lies behind the header in what is used of the region.
LedgerPlaced ==
  /\ ledger % Word = 0
  /\ ledger >= Base + TransferSize
  /\ ledger + Len(pending) * EntrySize <= Base + arena.offset

\* What has been acquired is in the ledger, in the order of the walk.
LedgerFilled ==
  \A i \in 1 .. committed : At(region, ledger + (i - 1) * EntrySize) = pending[i].object

WritingSound ==
  /\ stack # <<>>
  /\ arena.offset >= TransferSize
  /\ FramesSound(stack, arena.offset)
  /\ RecordsBelow(pending, Base + arena.offset)
  /\ HeaderSays(region, 0, 0)
  /\ committed = 0
  /\ ~arena.overflowed

CommittingSound ==
  /\ pending # <<>>
  /\ RecordsBelow(pending, ledger)
  /\ LedgerPlaced
  /\ LedgerFilled
  /\ ~arena.overflowed

WrittenSound ==
  \/ HeaderSays(region, 0, 0) /\ committed = 0
  \/ /\ pending # <<>>
     /\ committed = Len(pending)
     /\ HeaderSays(region, ledger, committed)
     /\ LedgerPlaced
     /\ LedgerFilled
     /\ ~arena.overflowed

\* What the guest has acquired for the transfer, and nobody has given back.
Acquired == Held([i \in 1 .. committed |-> pending[i].object])

Balanced ==
  IF phase \in {"writing", "committing", "raised", "written"}
  THEN counts = Plus(handles, Acquired)
  ELSE counts = handles

Phased ==
  /\ phase = "idle" => pending = <<>> /\ committed = 0
  /\ phase = "writing" => WritingSound
  /\ phase = "committing" => CommittingSound
  /\ phase = "raised" => committed = 0
  /\ phase = "written" => WrittenSound

Flagged ==
  /\ IF phase = "idle" THEN full = FALSE ELSE full = arena.overflowed
  /\ FullIsTold

IInv == Typed /\ Phased /\ Balanced /\ Flagged

-----------------------------------------------------------------------------
(* Words and addresses.                                                    *)

LEMMA AlignedFacts ==
  ASSUME NEW n \in Nat
  PROVE  /\ Aligned(n) \in Nat
         /\ Aligned(n) % Word = 0
         /\ n <= Aligned(n)
         /\ Words(n) \in Nat
BY DEF Aligned, Words, Word

LEMMA RegionFacts ==
  /\ Base \in Nat /\ Capacity \in Nat /\ Base % Word = 0 /\ Capacity % Word = 0
  /\ Capacity >= TransferSize
  /\ Objects \subseteq Nat \ {0}
BY TransferAssumption

\* What a sequence of words is written to.
LEMMA PutType ==
  ASSUME NEW mem \in [Index -> Int], NEW words \in Seq(Int), NEW at \in Nat
  PROVE  Put(mem, at, words) \in [Index -> Int]
<1> DEFINE here(i) == i - at \div Word + 1
<1>1. \A i \in Index : here(i) \in DOMAIN words => words[here(i)] \in Int
  OBVIOUS
<1> QED
  BY <1>1 DEF Put

\* A word in front of what is written, or behind it, is kept.
LEMMA PutElsewhere ==
  ASSUME NEW mem \in [Index -> Int], NEW words \in Seq(Int),
         NEW at \in Nat, at % Word = 0, NEW a \in Nat, a % Word = 0, a \div Word \in Index,
         a < at \/ a >= at + Len(words) * Word
  PROVE  At(Put(mem, at, words), a) = At(mem, a)
<1>1. a \div Word - at \div Word + 1 \notin 1 .. Len(words)
  BY DEF Word
<1> QED
  BY <1>1 DEF Put, At

LEMMA PutHere ==
  ASSUME NEW mem \in [Index -> Int], NEW w \in Int,
         NEW at \in Nat, at \div Word \in Index
  PROVE  At(Put(mem, at, <<w>>), at) = w
<1>1. at \div Word - at \div Word + 1 = 1
  BY DEF Word
<1> QED
  BY <1>1 DEF Put, At

\* An address inside the region is one of its words.
LEMMA InRegion ==
  ASSUME NEW a \in Nat, a % Word = 0, Base <= a, a < Base + Capacity
  PROVE  a \div Word \in Index
BY RegionFacts DEF Index, Word

\* What is written to the first record, or behind the header, leaves the header.
LEMMA PutKeepsHeader ==
  ASSUME NEW mem \in [Index -> Int], NEW words \in Seq(Int),
         NEW at \in Nat, at % Word = 0,
         \/ at = Base /\ Len(words) <= 3
         \/ at >= Base + TransferSize,
         NEW refs, NEW count, HeaderSays(mem, refs, count)
  PROVE  /\ Put(mem, at, words) \in [Index -> Int]
         /\ HeaderSays(Put(mem, at, words), refs, count)
<1>1. /\ Base + ValueSize \in Nat /\ (Base + ValueSize) % Word = 0
      /\ Base + ValueSize + Word \in Nat /\ (Base + ValueSize + Word) % Word = 0
      /\ Base <= Base + ValueSize /\ Base + ValueSize < Base + Capacity
      /\ Base <= Base + ValueSize + Word /\ Base + ValueSize + Word < Base + Capacity
  BY RegionFacts DEF ValueSize, Word, TransferSize
<1>2. (Base + ValueSize) \div Word \in Index /\ (Base + ValueSize + Word) \div Word \in Index
  BY <1>1, InRegion
<1>3. \/ Base + ValueSize < at
      \/ Base + ValueSize >= at + Len(words) * Word
  BY RegionFacts DEF ValueSize, Word, TransferSize
<1>4. \/ Base + ValueSize + Word < at
      \/ Base + ValueSize + Word >= at + Len(words) * Word
  BY RegionFacts DEF ValueSize, Word, TransferSize
<1>5. At(Put(mem, at, words), Base + ValueSize) = At(mem, Base + ValueSize)
  BY <1>1, <1>2, <1>3, PutElsewhere
<1>6. At(Put(mem, at, words), Base + ValueSize + Word) = At(mem, Base + ValueSize + Word)
  BY <1>1, <1>2, <1>4, PutElsewhere
<1> QED
  BY <1>5, <1>6, PutType DEF HeaderSays

\* The header is two words.
LEMMA HeaderPut ==
  ASSUME NEW mem \in [Index -> Int], NEW refs \in Int, NEW count \in Int
  PROVE  /\ Put(mem, Base + ValueSize, <<refs, count>>) \in [Index -> Int]
         /\ HeaderSays(Put(mem, Base + ValueSize, <<refs, count>>), refs, count)
<1>1. PICK b \in Nat : Base = 4 * b
  BY RegionFacts DEF Word
<1>2. /\ (Base + ValueSize) \div Word = b + 3
      /\ (Base + ValueSize + Word) \div Word = b + 4
      /\ b + 3 \in Index /\ b + 4 \in Index
  BY <1>1, RegionFacts DEF Index, Word, ValueSize, TransferSize
<1>3. <<refs, count>> \in Seq(Int) /\ Base + ValueSize \in Nat
  BY RegionFacts DEF ValueSize
<1>4. Put(mem, Base + ValueSize, <<refs, count>>)[b + 3] = refs
  BY <1>2 DEF Put
<1>5. Put(mem, Base + ValueSize, <<refs, count>>)[b + 4] = count
  BY <1>2 DEF Put
<1> QED
  BY <1>2, <1>3, <1>4, <1>5, PutType DEF HeaderSays, At

LEMMA StaleType == Stale(Base, Capacity) \in [Index -> Int]
BY DEF Stale, Filled, Index, KindList

LEMMA HeaderFacts ==
  ASSUME NEW mem \in [Index -> Int]
  PROVE  Header(mem) \in [Index -> Int] /\ HeaderSays(Header(mem), 0, 0)
BY HeaderPut DEF Header

LEMMA RecordType ==
  ASSUME NEW kind \in Int, NEW w1 \in Int, NEW w2 \in Int
  PROVE  Record(kind, w1, w2) \in Seq(Int) /\ Len(Record(kind, w1, w2)) = 3
BY DEF Record

\* A text is written behind the header only.
LEMMA PutTextFacts ==
  ASSUME NEW mem \in [Index -> Int], NEW n \in Nat, NEW w \in Int,
         NEW at \in Nat, at % Word = 0, at >= Base + TransferSize,
         NEW refs, NEW count, HeaderSays(mem, refs, count)
  PROVE  /\ PutText(mem, at, n, w) \in [Index -> Int]
         /\ HeaderSays(PutText(mem, at, n, w), refs, count)
<1> DEFINE words == [i \in 1 .. Words(n) |-> w]
<1>1. words \in Seq(Int)
  <2>1. PICK k \in Nat : k = Words(n)
    BY AlignedFacts
  <2>2. [i \in 1 .. k |-> w] \in Seq(Int)
    OBVIOUS
  <2> QED
    BY <2>1, <2>2
<1> HIDE DEF words
<1>2. Put(mem, at, words) \in [Index -> Int] /\ HeaderSays(Put(mem, at, words), refs, count)
  BY <1>1, PutKeepsHeader
<1> QED
  BY <1>2 DEF PutText, words

\* An allocation that fits is aligned, behind what is used, and inside the region.
LEMMA PlaceFacts ==
  ASSUME NEW a \in [offset : 0 .. Capacity, overflowed : BOOLEAN], NEW n \in Nat,
         Fits(a.offset, n)
  PROVE  /\ Place(a) \in Nat /\ Place(a) % Word = 0
         /\ Place(a) >= Base + a.offset
         /\ Bump(a, n) \in [offset : 0 .. Capacity, overflowed : BOOLEAN]
         /\ Bump(a, n).overflowed = a.overflowed
         /\ Bump(a, n).offset >= a.offset
         /\ Place(a) + n = Base + Bump(a, n).offset
<1>1. a.offset \in Nat /\ a.offset <= Capacity /\ Capacity \in Nat
  BY RegionFacts
<1>2. Aligned(a.offset) \in Nat /\ Aligned(a.offset) % Word = 0 /\ a.offset <= Aligned(a.offset)
  BY <1>1, AlignedFacts
<1>3. Aligned(a.offset) + n \in 0 .. Capacity
  BY <1>1, <1>2 DEF Fits
<1>4. (Base + Aligned(a.offset)) % Word = 0
  BY <1>2, RegionFacts DEF Word
<1> QED
  BY <1>1, <1>2, <1>3, <1>4, RegionFacts DEF Place, Bump

-----------------------------------------------------------------------------
(* What is acquired.                                                       *)

Zero == [o \in Objects |-> 0]

\* No sequence is needed to have acquired nothing.
LEMMA HeldNone == \A f : DOMAIN f = {} => Held(f) = Zero
<1> SUFFICES ASSUME NEW f, DOMAIN f = {}  PROVE Held(f) = Zero
  OBVIOUS
<1>1. \A o \in Objects : {i \in DOMAIN f : f[i] = o} = {}
  OBVIOUS
<1>2. \A o \in Objects : Cardinality({i \in DOMAIN f : f[i] = o}) = 0
  BY <1>1, FS_EmptySet
<1> QED
  BY <1>2 DEF Held, Zero

LEMMA NoneAcquired == committed = 0 => Acquired = Zero
<1> SUFFICES ASSUME committed = 0  PROVE Acquired = Zero
  OBVIOUS
<1>1. DOMAIN [i \in 1 .. committed |-> pending[i].object] = {}
  OBVIOUS
<1> QED
  BY <1>1, HeldNone DEF Acquired

LEMMA PlusZero ==
  ASSUME NEW f \in [Objects -> Int]
  PROVE  Plus(f, Zero) = f /\ Minus(f, Zero) = f
BY DEF Plus, Minus, Zero

LEMMA HeldType ==
  ASSUME NEW n \in Nat, NEW f, DOMAIN f = 1 .. n
  PROVE  Held(f) \in [Objects -> Nat]
<1>1. IsFiniteSet(1 .. n)
  BY FS_Interval
<1>2. ASSUME NEW o \in Objects  PROVE Cardinality({i \in DOMAIN f : f[i] = o}) \in Nat
  <2>1. {i \in DOMAIN f : f[i] = o} \subseteq 1 .. n
    OBVIOUS
  <2>2. IsFiniteSet({i \in DOMAIN f : f[i] = o})
    BY <1>1, <2>1, FS_Subset
  <2> QED
    BY <2>2, FS_CardinalityType
<1> QED
  BY <1>2 DEF Held

\* One more is one more of its object.
LEMMA HeldNext ==
  ASSUME NEW n \in Nat, NEW f, NEW g, DOMAIN f = 1 .. n, DOMAIN g = 1 .. n + 1,
         \A i \in 1 .. n : g[i] = f[i]
  PROVE  Held(g) = [o \in Objects |-> IF o = g[n + 1] THEN Held(f)[o] + 1 ELSE Held(f)[o]]
<1>1. IsFiniteSet(1 .. n)
  BY FS_Interval
<1>2. ASSUME NEW o \in Objects
      PROVE  Held(g)[o] = IF o = g[n + 1] THEN Held(f)[o] + 1 ELSE Held(f)[o]
  <2> DEFINE F == {i \in DOMAIN f : f[i] = o}
             G == {i \in DOMAIN g : g[i] = o}
  <2>1. Held(f)[o] = Cardinality(F) /\ Held(g)[o] = Cardinality(G)
    BY DEF Held
  <2>2. IsFiniteSet(F) /\ n + 1 \notin F
    <3>1. F \subseteq 1 .. n
      OBVIOUS
    <3> QED
      BY <1>1, <3>1, FS_Subset
  <2>3. CASE o = g[n + 1]
    <3>1. G = F \cup {n + 1}
      BY <2>3
    <3>2. Cardinality(F \cup {n + 1}) = Cardinality(F) + 1
      BY <2>2, FS_AddElement
    <3> QED
      BY <2>1, <2>3, <3>1, <3>2
  <2>4. CASE o # g[n + 1]
    <3>1. G = F
      BY <2>4
    <3> QED
      BY <2>1, <2>4, <3>1
  <2> QED
    BY <2>3, <2>4
<1> QED
  BY <1>2 DEF Held

-----------------------------------------------------------------------------
(* The walk.                                                               *)

\* Where the next record goes.
LEMMA WalkFacts ==
  ASSUME IInv, NEW o, Walks(o)
  PROVE  /\ o \in Objects
         /\ WritingSound
         /\ stack # <<>> /\ Top \in Frames
         /\ RecordAt \in Nat /\ RecordAt % Word = 0
         /\ \/ RecordAt = Base
            \/ RecordAt >= Base + TransferSize
         /\ RecordAt + ValueSize <= Base + arena.offset
<1>1. Typed /\ WritingSound /\ phase = "writing"
  BY DEF IInv, Phased, Walks
<1>2. Len(stack) \in DOMAIN stack /\ Top \in Frames
  BY <1>1 DEF Typed, WritingSound, Top
<1>3. BlockSound(Top.block, Len(Top.items), arena.offset)
  BY <1>1, <1>2 DEF WritingSound, FramesSound, Top
<1>4. Top.next \in Nat \ {0} /\ Top.block \in Nat /\ Top.items \in Seq(Objects)
  BY <1>2 DEF Frames
<1>5. Top.next <= Len(Top.items) /\ o = Top.items[Top.next]
  BY DEF Walks, Items
<1>6. o \in Objects
  BY <1>4, <1>5
<1>7. arena.offset \in Nat /\ Len(Top.items) \in Nat
  BY <1>1, <1>4 DEF Typed
<1> DEFINE b == Top.block
           k == Top.next
           n == Len(Top.items)
           end == arena.offset
<1>8. /\ b \in Nat /\ k \in Nat \ {0} /\ n \in Nat /\ end \in Nat /\ k <= n
      /\ BlockSound(b, n, end)
  BY <1>3, <1>4, <1>5, <1>7
<1>9. RecordAt = b + (k - 1) * ValueSize
  BY DEF RecordAt
<1> HIDE DEF b, k, n, end
<1>10. /\ b + (k - 1) * ValueSize \in Nat /\ (b + (k - 1) * ValueSize) % Word = 0
       /\ \/ b + (k - 1) * ValueSize = Base
          \/ b + (k - 1) * ValueSize >= Base + TransferSize
       /\ b + (k - 1) * ValueSize + ValueSize <= Base + end
  BY <1>8, RegionFacts DEF BlockSound, ValueSize, Word, TransferSize
<1> QED
  BY <1>1, <1>2, <1>6, <1>9, <1>10 DEF end, WritingSound

LEMMA ObjectFacts ==
  ASSUME NEW o \in Objects
  PROVE  o \in Int /\ Length[o] \in Nat
BY TransferAssumption

LEMMA AdvancedFacts ==
  ASSUME stack \in Seq(Frames), stack # <<>>, NEW end, FramesSound(stack, end)
  PROVE  Advanced \in Seq(Frames) /\ Advanced # <<>> /\ FramesSound(Advanced, end)
<1>1. Len(stack) \in DOMAIN stack /\ stack[Len(stack)] \in Frames
  OBVIOUS
<1>2. [stack[Len(stack)] EXCEPT !.next = @ + 1] \in Frames
  <2>1. PICK f \in Frames : f = stack[Len(stack)]
    BY <1>1
  <2>2. f.next + 1 \in Nat \ {0}
    BY DEF Frames
  <2>3. [f EXCEPT !.next = f.next + 1] \in Frames
    BY <2>2 DEF Frames
  <2> QED
    BY <2>1, <2>3
<1>3. Advanced \in Seq(Frames) /\ Len(Advanced) = Len(stack)
  BY <1>1, <1>2 DEF Advanced
<1>4. \A i \in DOMAIN stack :
        Advanced[i].block = stack[i].block /\ Advanced[i].items = stack[i].items
  BY <1>1 DEF Advanced, Frames
<1> QED
  BY <1>1, <1>3, <1>4 DEF FramesSound

\* A region that is used further is used as it was.
LEMMA FramesGrow ==
  ASSUME NEW frames \in Seq(Frames), NEW end \in Nat, NEW more \in Nat, end <= more,
         FramesSound(frames, end)
  PROVE  FramesSound(frames, more)
<1> SUFFICES ASSUME NEW i \in DOMAIN frames
             PROVE  BlockSound(frames[i].block, Len(frames[i].items), more)
  BY DEF FramesSound
<1>1. frames[i] \in Frames
  OBVIOUS
<1>2. frames[i].block \in Nat /\ Len(frames[i].items) \in Nat
  BY <1>1 DEF Frames
<1>3. BlockSound(frames[i].block, Len(frames[i].items), end)
  BY DEF FramesSound
<1> QED
  BY <1>2, <1>3, RegionFacts DEF BlockSound, ValueSize

LEMMA RecordsGrow ==
  ASSUME NEW refs \in Seq(Records),
         NEW end \in Nat, NEW more \in Nat, end <= more, RecordsBelow(refs, end)
  PROVE  RecordsBelow(refs, more)
<1>1. ASSUME NEW i \in DOMAIN refs  PROVE refs[i].at \in Nat
  <2>1. refs[i] \in Records
    OBVIOUS
  <2> QED
    BY <2>1 DEF Records
<1> QED
  BY <1>1 DEF RecordsBelow, ValueSize

Unowed == counts = handles

\* While the guest writes, it has acquired nothing.
LEMMA WritingOwesNothing ==
  ASSUME IInv, phase \in {"writing", "raised"}
  PROVE  committed = 0 /\ counts = handles
<1>1. committed = 0
  BY DEF IInv, Phased, WritingSound
<1> QED
  BY <1>1, NoneAcquired, PlusZero DEF IInv, Balanced, Typed

\* What is written next leaves the transfer sound if it leaves the header, the frames
\* and the records alone.
LEMMA WritesOn ==
  ASSUME IInv, phase = "writing", phase' = "writing", full' = full,
         region' \in [Index -> Int], HeaderSays(region', 0, 0),
         arena' \in [offset : 0 .. Capacity, overflowed : BOOLEAN],
         arena'.offset >= arena.offset, arena'.overflowed = arena.overflowed,
         stack' \in Seq(Frames), stack' # <<>>, FramesSound(stack', arena'.offset),
         pending' \in Seq(Records),
         RecordsBelow(pending', Base + arena'.offset),
         contents' \in [Containers -> Seq(Objects)],
         UNCHANGED outside
  PROVE  IInv'
<1>1. /\ committed = 0 /\ counts = handles /\ ~arena.overflowed
      /\ arena.offset >= TransferSize /\ Typed
  BY WritingOwesNothing DEF IInv, Phased, WritingSound
<1>2. committed' = 0 /\ ledger' = ledger /\ counts' = counts /\ handles' = handles
  BY <1>1 DEF outside
<1>3. Typed'
  BY <1>1, <1>2 DEF Typed
<1>4. WritingSound'
  <2>1. arena'.offset >= TransferSize
    BY <1>1 DEF TransferSize, Typed
  <2>2. ~arena'.overflowed
    BY <1>1
  <2> QED
    BY <1>2, <2>1, <2>2 DEF WritingSound, HeaderSays, FramesSound, BlockSound, RecordsBelow
<1>5. Phased'
  BY <1>4 DEF Phased
<1>6. Balanced'
  <2>1. DOMAIN [i \in 1 .. committed' |-> pending'[i].object] = {}
    BY <1>2
  <2>2. Acquired' = Zero
    BY <2>1, HeldNone DEF Acquired
  <2> QED
    BY <1>1, <1>2, <2>2, PlusZero DEF Balanced, Plus, Zero, Typed
<1>7. Flagged'
  BY DEF IInv, Flagged, FullIsTold
<1> QED
  BY <1>3, <1>5, <1>6, <1>7 DEF IInv

\* A raise leaves nothing acquired.
LEMMA RaisesOn ==
  ASSUME IInv, phase = "writing", phase' = "raised",
         \/ arena' = Overflow(arena) /\ full' = TRUE
         \/ arena' = arena /\ full' = full,
         contents' \in [Containers -> Seq(Objects)],
         UNCHANGED <<region, stack, pending, ledger, committed, counts, handles>>
  PROVE  IInv'
<1>1. committed = 0 /\ counts = handles /\ Typed
  BY WritingOwesNothing DEF IInv
<1>2. arena' \in [offset : 0 .. Capacity, overflowed : BOOLEAN]
  BY <1>1 DEF Typed, Overflow
<1>3. Typed'
  BY <1>1, <1>2 DEF Typed
<1>4. Phased'
  BY <1>1 DEF Phased
<1>5. Balanced'
  <2>1. Acquired' = Zero
    BY <1>1, NoneAcquired DEF Acquired
  <2> QED
    BY <1>1, <2>1, PlusZero DEF Balanced, Plus, Zero, Typed
<1>6. Flagged'
  <2>1. CASE arena' = arena /\ full' = full
    BY <2>1 DEF IInv, Flagged, FullIsTold
  <2>2. CASE arena' = Overflow(arena) /\ full' = TRUE
    <3>1. arena'.overflowed = TRUE
      BY <1>1, <2>2 DEF Overflow, Typed
    <3> QED
      BY <2>2, <3>1 DEF Flagged, FullIsTold
  <2> QED
    BY <2>1, <2>2
<1> QED
  BY <1>3, <1>4, <1>5, <1>6 DEF IInv

\* A record of the walk leaves the header.
LEMMA RecordStep ==
  ASSUME IInv, NEW o, Walks(o), NEW kind \in Int, NEW w1 \in Int, NEW w2 \in Int
  PROVE  /\ Put(region, RecordAt, Record(kind, w1, w2)) \in [Index -> Int]
         /\ HeaderSays(Put(region, RecordAt, Record(kind, w1, w2)), 0, 0)
<1>1. /\ RecordAt \in Nat /\ RecordAt % Word = 0
      /\ (RecordAt = Base \/ RecordAt >= Base + TransferSize)
      /\ HeaderSays(region, 0, 0) /\ region \in [Index -> Int]
  BY WalkFacts DEF IInv, Typed, WritingSound
<1>2. PICK rec : rec = Record(kind, w1, w2)
  OBVIOUS
<1>3. rec \in Seq(Int) /\ Len(rec) = 3
  BY <1>2, RecordType
<1>4. \/ RecordAt = Base /\ Len(rec) <= 3
      \/ RecordAt >= Base + TransferSize
  BY <1>1, <1>3
<1>5. Put(region, RecordAt, rec) \in [Index -> Int] /\ HeaderSays(Put(region, RecordAt, rec), 0, 0)
  BY <1>1, <1>3, <1>4, PutKeepsHeader
<1> QED
  BY <1>2, <1>5

LEMMA SameContents ==
  ASSUME IInv, contents' \in Shapes \/ contents' = contents
  PROVE  contents' \in [Containers -> Seq(Objects)]
BY TransferAssumption DEF IInv, Typed

LEMMA KindType == \A o : KindOf(o) \in Int
BY DEF KindOf, KindInt, KindStr, KindList, KindDict, KindTuple, KindObject

\* Where an allocation of the walk goes.
LEMMA WalkPlace ==
  ASSUME IInv, NEW o, Walks(o), NEW n \in Nat, Fits(arena.offset, n)
  PROVE  /\ Place(arena) \in Nat /\ Place(arena) % Word = 0
         /\ Place(arena) >= Base + TransferSize
         /\ Place(arena) + n = Base + Bump(arena, n).offset
         /\ Bump(arena, n) \in [offset : 0 .. Capacity, overflowed : BOOLEAN]
         /\ Bump(arena, n).offset >= arena.offset
         /\ Bump(arena, n).overflowed = arena.overflowed
<1>1. arena \in [offset : 0 .. Capacity, overflowed : BOOLEAN]
  BY DEF IInv, Typed
<1>2. arena.offset \in Nat /\ arena.offset >= TransferSize
  BY <1>1, WalkFacts DEF WritingSound
<1>3. /\ Place(arena) \in Nat /\ Place(arena) % Word = 0
      /\ Place(arena) >= Base + arena.offset
      /\ Bump(arena, n) \in [offset : 0 .. Capacity, overflowed : BOOLEAN]
      /\ Bump(arena, n).overflowed = arena.overflowed
      /\ Bump(arena, n).offset >= arena.offset
      /\ Place(arena) + n = Base + Bump(arena, n).offset
  BY <1>1, PlaceFacts
<1> QED
  BY <1>2, <1>3, RegionFacts DEF TransferSize

\* With the frames and the records that are, in a region that is used further.
LEMMA WalkGrows ==
  ASSUME IInv, NEW o, Walks(o), NEW more \in Nat, more >= arena.offset
  PROVE  /\ stack \in Seq(Frames) /\ stack # <<>>
         /\ FramesSound(stack, more)
         /\ Advanced \in Seq(Frames) /\ Advanced # <<>> /\ FramesSound(Advanced, more)
         /\ pending \in Seq(Records) /\ RecordsBelow(pending, Base + more)
<1>1. /\ stack \in Seq(Frames) /\ stack # <<>> /\ FramesSound(stack, arena.offset)
      /\ pending \in Seq(Records) /\ RecordsBelow(pending, Base + arena.offset)
      /\ arena.offset \in Nat
  BY WalkFacts DEF IInv, Typed, WritingSound
<1>2. FramesSound(stack, more)
  BY <1>1, FramesGrow
<1>3. Base + arena.offset \in Nat /\ Base + more \in Nat /\ Base + arena.offset <= Base + more
  BY <1>1, RegionFacts
<1>4. RecordsBelow(pending, Base + more)
  BY <1>1, <1>3, RecordsGrow
<1> QED
  BY <1>1, <1>2, <1>4, AdvancedFacts

LEMMA FullStep ==
  ASSUME IInv, NEW o, Walks(o), Full, UNCHANGED outside,
         contents' \in [Containers -> Seq(Objects)]
  PROVE  IInv'
<1>1. phase = "writing"
  BY DEF Walks
<1>2. /\ phase' = "raised"
      /\ arena' = Overflow(arena) /\ full' = TRUE
      /\ UNCHANGED <<region, stack, pending, ledger, committed, counts, handles>>
  BY DEF Full, outside
<1> QED
  BY <1>1, <1>2, RaisesOn

LEMMA WriteIntStep ==
  ASSUME IInv, NEW o, WriteInt(o)
  PROVE  IInv'
<1>1. Walks(o) /\ phase = "writing" /\ phase' = "writing" /\ full' = full
  BY DEF WriteInt, Walks, Writes
<1>2. o \in Int
  <2>1. o \in Objects
    BY <1>1, WalkFacts
  <2> QED
    BY <2>1, ObjectFacts
<1>3. region' = Put(region, RecordAt, Record(KindInt, o, 0))
  BY DEF WriteInt, Writes
<1>4. region' \in [Index -> Int] /\ HeaderSays(region', 0, 0)
  <2>1. KindInt \in Int /\ 0 \in Int
    BY DEF KindInt
  <2>2. /\ Put(region, RecordAt, Record(KindInt, o, 0)) \in [Index -> Int]
        /\ HeaderSays(Put(region, RecordAt, Record(KindInt, o, 0)), 0, 0)
    BY <1>1, <1>2, <2>1, RecordStep
  <2> QED
    BY <1>3, <2>2
<1>5. /\ arena' = arena /\ stack' = Advanced /\ pending' = pending /\ contents' = contents
      /\ UNCHANGED outside
  BY DEF WriteInt, Writes
<1>6. arena \in [offset : 0 .. Capacity, overflowed : BOOLEAN] /\ arena.offset \in Nat
  BY DEF IInv, Typed
<1>7. /\ Advanced \in Seq(Frames) /\ Advanced # <<>> /\ FramesSound(Advanced, arena.offset)
      /\ pending \in Seq(Records) /\ RecordsBelow(pending, Base + arena.offset)
  BY <1>1, <1>6, WalkGrows
<1>8. contents' \in [Containers -> Seq(Objects)]
  BY <1>5, SameContents
<1> QED
  BY <1>1, <1>4, <1>5, <1>6, <1>7, <1>8, WritesOn

LEMMA WriteStrStep ==
  ASSUME IInv, NEW o, WriteStr(o)
  PROVE  IInv'
<1>1. Walks(o) /\ phase = "writing" /\ contents' = contents /\ UNCHANGED outside
  BY DEF WriteStr, Walks
<1>2. o \in Objects /\ o \in Int /\ Length[o] \in Nat
  <2>1. o \in Objects
    BY <1>1, WalkFacts
  <2> QED
    BY <2>1, ObjectFacts
<1>3. contents' \in [Containers -> Seq(Objects)]
  BY <1>1, SameContents
<1>4. arena \in [offset : 0 .. Capacity, overflowed : BOOLEAN] /\ arena.offset \in Nat
  BY DEF IInv, Typed
<1>5. KindStr \in Int /\ 0 \in Int
  BY DEF KindStr
<1>6. CASE Length[o] = 0
  <2>1. /\ region' = Put(region, RecordAt, Record(KindStr, 0, 0))
        /\ arena' = arena /\ phase' = phase /\ full' = full
        /\ stack' = Advanced /\ pending' = pending
    BY <1>6 DEF WriteStr, Writes
  <2>2. /\ Put(region, RecordAt, Record(KindStr, 0, 0)) \in [Index -> Int]
        /\ HeaderSays(Put(region, RecordAt, Record(KindStr, 0, 0)), 0, 0)
    BY <1>1, <1>5, RecordStep
  <2>3. /\ Advanced \in Seq(Frames) /\ Advanced # <<>> /\ FramesSound(Advanced, arena.offset)
        /\ pending \in Seq(Records) /\ RecordsBelow(pending, Base + arena.offset)
    BY <1>1, <1>4, WalkGrows
  <2> QED
    BY <1>1, <1>3, <1>4, <2>1, <2>2, <2>3, WritesOn
<1>7. CASE Length[o] # 0 /\ Fits(arena.offset, Length[o])
  <2> DEFINE mem == Put(region, RecordAt, Record(KindStr, Length[o], Place(arena)))
  <2>1. /\ region' = PutText(mem, Place(arena), Length[o], o)
        /\ arena' = Bump(arena, Length[o]) /\ phase' = phase /\ full' = full
        /\ stack' = Advanced /\ pending' = pending
    BY <1>7 DEF WriteStr, Writes
  <2>2. /\ Place(arena) \in Nat /\ Place(arena) % Word = 0
        /\ Place(arena) >= Base + TransferSize
        /\ Bump(arena, Length[o]) \in [offset : 0 .. Capacity, overflowed : BOOLEAN]
        /\ Bump(arena, Length[o]).offset >= arena.offset
        /\ Bump(arena, Length[o]).overflowed = arena.overflowed
    <3>1. PICK n \in Nat : n = Length[o]
      BY <1>2
    <3>2. Fits(arena.offset, n)
      BY <1>7, <3>1
    <3>3. /\ Place(arena) \in Nat /\ Place(arena) % Word = 0
          /\ Place(arena) >= Base + TransferSize
          /\ Bump(arena, n) \in [offset : 0 .. Capacity, overflowed : BOOLEAN]
          /\ Bump(arena, n).offset >= arena.offset
          /\ Bump(arena, n).overflowed = arena.overflowed
      BY <1>1, <3>2, WalkPlace
    <3> QED
      BY <3>1, <3>3
  <2>3. mem \in [Index -> Int] /\ HeaderSays(mem, 0, 0)
    <3>1. Length[o] \in Int /\ Place(arena) \in Int
      BY <1>2, <2>2
    <3> QED
      BY <1>1, <1>5, <3>1, RecordStep
  <2> HIDE DEF mem
  <2>4. region' \in [Index -> Int] /\ HeaderSays(region', 0, 0)
    BY <1>2, <2>1, <2>2, <2>3, PutTextFacts
  <2>5. Bump(arena, Length[o]).offset \in Nat
    BY <2>2
  <2>6. /\ Advanced \in Seq(Frames) /\ Advanced # <<>>
        /\ FramesSound(Advanced, Bump(arena, Length[o]).offset)
        /\ pending \in Seq(Records)
        /\ RecordsBelow(pending, Base + Bump(arena, Length[o]).offset)
    BY <1>1, <2>2, <2>5, WalkGrows
  <2> QED
    BY <1>1, <1>3, <2>1, <2>2, <2>4, <2>6, WritesOn
<1>8. CASE Length[o] # 0 /\ ~Fits(arena.offset, Length[o])
  BY <1>1, <1>3, <1>8, FullStep DEF WriteStr
<1> QED
  BY <1>6, <1>7, <1>8

\* An opaque value, or a container that goes as one.
LEMMA WriteOpaqueStep ==
  ASSUME IInv, NEW o, Walks(o), NEW attr \in Nat, NEW held, WriteOpaque(o, attr, held),
         contents' \in [Containers -> Seq(Objects)], UNCHANGED outside
  PROVE  IInv'
<1> DEFINE n == ClassHeader + Length[o]
           at == Place(arena)
<1>1. phase = "writing"
  BY DEF Walks
<1>2. o \in Objects /\ o \in Int /\ Length[o] \in Nat /\ n \in Nat
  <2>1. o \in Objects
    BY WalkFacts
  <2>2. o \in Int /\ Length[o] \in Nat
    BY <2>1, ObjectFacts
  <2> QED
    BY <2>1, <2>2 DEF ClassHeader
<1>3. CASE Fits(arena.offset, n)
  <2> DEFINE mem1 == Put(region, RecordAt, Record(KindObject, 0, at + attr))
             mem2 == Put(mem1, at, <<Length[o]>>)
             refs == Append(pending, [object |-> o, at |-> RecordAt])
  <2>1. /\ region' = PutText(mem2, at + ClassHeader, Length[o], o)
        /\ arena' = Bump(arena, n) /\ phase' = phase /\ full' = full
        /\ stack' = Advanced /\ pending' = refs
    BY <1>3 DEF WriteOpaque, Writes
  <2>2. /\ at \in Nat /\ at % Word = 0
        /\ at >= Base + TransferSize
        /\ Bump(arena, n) \in [offset : 0 .. Capacity, overflowed : BOOLEAN]
        /\ Bump(arena, n).offset >= arena.offset
        /\ Bump(arena, n).overflowed = arena.overflowed
    BY <1>2, <1>3, WalkPlace
  <2>3. mem1 \in [Index -> Int] /\ HeaderSays(mem1, 0, 0)
    <3>1. KindObject \in Int /\ 0 \in Int /\ at + attr \in Int
      BY <2>2 DEF KindObject
    <3> QED
      BY <3>1, RecordStep
  <2> HIDE DEF mem1
  <2>4. mem2 \in [Index -> Int] /\ HeaderSays(mem2, 0, 0)
    <3>1. <<Length[o]>> \in Seq(Int)
      BY <1>2
    <3> QED
      BY <2>2, <2>3, <3>1, PutKeepsHeader
  <2> HIDE DEF mem2
  <2>5. region' \in [Index -> Int] /\ HeaderSays(region', 0, 0)
    <3>1. /\ at + ClassHeader \in Nat /\ (at + ClassHeader) % Word = 0
          /\ at + ClassHeader >= Base + TransferSize
      BY <2>2, RegionFacts DEF ClassHeader, Word, TransferSize
    <3> QED
      BY <1>2, <2>1, <2>4, <3>1, PutTextFacts
  <2>6. PICK more \in Nat : more = Bump(arena, n).offset
    BY <2>2
  <2>7. /\ Advanced \in Seq(Frames) /\ Advanced # <<>>
        /\ FramesSound(Advanced, more)
        /\ pending \in Seq(Records)
        /\ RecordsBelow(pending, Base + more)
    BY <2>2, <2>6, WalkGrows
  <2>8. refs \in Seq(Records) /\ RecordsBelow(refs, Base + more)
    <3>1. RecordAt \in Nat /\ RecordAt % Word = 0 /\ RecordAt + ValueSize <= Base + arena.offset
      BY WalkFacts
    <3>2. [object |-> o, at |-> RecordAt] \in Records
      BY <1>2, <3>1 DEF Records
    <3>3. RecordAt + ValueSize <= Base + more
      <4>1. arena.offset \in Nat
        BY DEF IInv, Typed
      <4> QED
        BY <2>2, <2>6, <3>1, <4>1, RegionFacts DEF ValueSize
    <3>4. refs \in Seq(Records)
      BY <2>7, <3>2
    <3>5. ASSUME NEW i \in DOMAIN refs
          PROVE  refs[i].at % Word = 0 /\ refs[i].at + ValueSize <= Base + more
      <4>1. CASE i \in DOMAIN pending
        BY <2>7, <4>1 DEF RecordsBelow
      <4>2. CASE i \notin DOMAIN pending
        <5>1. refs[i] = [object |-> o, at |-> RecordAt]
          BY <2>7, <4>2
        <5> QED
          BY <3>1, <3>3, <5>1
      <4> QED
        BY <4>1, <4>2
    <3> QED
      BY <3>4, <3>5 DEF RecordsBelow
  <2> HIDE DEF refs, at, n
  <2> QED
    BY <1>1, <2>1, <2>2, <2>5, <2>6, <2>7, <2>8, WritesOn
<1>4. CASE ~Fits(arena.offset, n)
  BY <1>4, FullStep DEF WriteOpaque
<1> QED
  BY <1>3, <1>4

LEMMA WriteObjectStep ==
  ASSUME IInv, NEW o, WriteObject(o)
  PROVE  IInv'
<1>1. Walks(o) /\ o \in Opaques /\ WriteOpaque(o, Attributes[o], <<>>) /\ UNCHANGED outside
  BY DEF WriteObject
<1>2. Attributes[o] \in Nat
  BY <1>1, TransferAssumption DEF AttrMask
<1>3. contents' \in [Containers -> Seq(Objects)]
  <2>1. contents' \in Shapes
    BY DEF WriteObject, Changed
  <2> QED
    BY <2>1, SameContents
<1> QED
  BY <1>1, <1>2, <1>3, WriteOpaqueStep

LEMMA WriteAsHandleStep ==
  ASSUME IInv, NEW o, WriteAsHandle(o)
  PROVE  IInv'
<1>1. Walks(o) /\ WriteOpaque(o, 0, contents[o]) /\ UNCHANGED outside /\ contents' = contents
  BY DEF WriteAsHandle
<1>2. contents' \in [Containers -> Seq(Objects)]
  BY <1>1, SameContents
<1> QED
  BY <1>1, <1>2, WriteOpaqueStep

\* The records of what a container holds are behind all that is used.
LEMMA WriteContainerStep ==
  ASSUME IInv, NEW o, WriteContainer(o)
  PROVE  IInv'
<1> DEFINE held == contents[o]
           n == Len(held) * ValueSize
           count == IF o \in Dicts THEN Len(held) \div 2 ELSE Len(held)
<1>1. /\ Walks(o) /\ o \in Containers /\ phase = "writing"
      /\ contents' = contents /\ UNCHANGED outside
  BY DEF WriteContainer, Walks
<1>2. held \in Seq(Objects) /\ o \in Objects
  BY <1>1, WalkFacts DEF IInv, Typed
<1>3. Len(held) \in Nat /\ n \in Nat /\ count \in Int
  BY <1>2 DEF ValueSize
<1>4. contents' \in [Containers -> Seq(Objects)]
  BY <1>1, SameContents
<1>5. CASE Fits(arena.offset, n)
  <2> DEFINE frame == [object |-> o, items |-> held, block |-> Place(arena), next |-> 1]
  <2>1. /\ region' = Put(region, RecordAt, Record(KindOf(o), count, Place(arena)))
        /\ arena' = Bump(arena, n) /\ phase' = phase /\ full' = full
        /\ stack' = Append(Advanced, frame) /\ pending' = pending
    BY <1>5 DEF WriteContainer, Writes
  <2>2. /\ Place(arena) \in Nat /\ Place(arena) % Word = 0
        /\ Place(arena) >= Base + TransferSize
        /\ Place(arena) + n = Base + Bump(arena, n).offset
        /\ Bump(arena, n) \in [offset : 0 .. Capacity, overflowed : BOOLEAN]
        /\ Bump(arena, n).offset >= arena.offset
        /\ Bump(arena, n).overflowed = arena.overflowed
    BY <1>1, <1>3, <1>5, WalkPlace
  <2>3. region' \in [Index -> Int] /\ HeaderSays(region', 0, 0)
    <3>1. KindOf(o) \in Int /\ Place(arena) \in Int
      BY <2>2, KindType
    <3> HIDE DEF count
    <3>2. /\ Put(region, RecordAt, Record(KindOf(o), count, Place(arena))) \in [Index -> Int]
          /\ HeaderSays(Put(region, RecordAt, Record(KindOf(o), count, Place(arena))), 0, 0)
      BY <1>1, <1>3, <3>1, RecordStep
    <3> QED
      BY <2>1, <3>2
  <2>4. PICK more \in Nat : more = Bump(arena, n).offset
    BY <2>2
  <2>5. /\ Advanced \in Seq(Frames) /\ Advanced # <<>>
        /\ FramesSound(Advanced, more)
        /\ pending \in Seq(Records)
        /\ RecordsBelow(pending, Base + more)
    BY <1>1, <2>2, <2>4, WalkGrows
  <2>6. frame \in Frames /\ BlockSound(frame.block, Len(frame.items), more)
    <3>1. frame \in Frames
      BY <1>2, <2>2 DEF Frames
    <3>2. Place(arena) + Len(held) * ValueSize <= Base + more
      BY <2>2, <2>4, RegionFacts
    <3>3. BlockSound(Place(arena), Len(held), more)
      BY <2>2, <3>2 DEF BlockSound
    <3> QED
      BY <3>1, <3>3
  <2> HIDE DEF frame
  <2>7. /\ Append(Advanced, frame) \in Seq(Frames) /\ Append(Advanced, frame) # <<>>
        /\ FramesSound(Append(Advanced, frame), more)
    <3>1. PICK s \in Seq(Frames) : s = Advanced
      BY <2>5
    <3>2. ASSUME NEW i \in DOMAIN Append(s, frame)
          PROVE  BlockSound(Append(s, frame)[i].block, Len(Append(s, frame)[i].items), more)
      <4>1. CASE i \in DOMAIN s
        <5>1. Append(s, frame)[i] = s[i]
          BY <4>1
        <5> QED
          BY <2>5, <3>1, <4>1, <5>1 DEF FramesSound
      <4>2. CASE i \notin DOMAIN s
        <5>1. Append(s, frame)[i] = frame
          BY <4>2
        <5> QED
          BY <2>6, <5>1
      <4> QED
        BY <4>1, <4>2
    <3>3. Append(s, frame) \in Seq(Frames) /\ Append(s, frame) # <<>>
      BY <2>6
    <3> QED
      BY <3>1, <3>2, <3>3 DEF FramesSound
  <2> HIDE DEF held, n, count
  <2> QED
    BY <1>1, <1>4, <2>1, <2>2, <2>3, <2>4, <2>5, <2>7, WritesOn
<1>6. CASE ~Fits(arena.offset, n)
  BY <1>1, <1>4, <1>6, FullStep DEF WriteContainer
<1> QED
  BY <1>5, <1>6

LEMMA LeaveContainerStep ==
  ASSUME IInv, LeaveContainer
  PROVE  IInv'
<1>1. /\ phase = "writing" /\ phase' = "writing" /\ Len(stack) > 1
      /\ stack' = SubSeq(stack, 1, Len(stack) - 1)
      /\ UNCHANGED <<contents, region, arena, pending, full, outside>>
  BY DEF LeaveContainer
<1>2. Typed /\ WritingSound
  BY <1>1 DEF IInv, Phased
<1>3. PICK s \in Seq(Frames) : s = stack
  BY <1>2 DEF Typed
<1>4. stack' \in Seq(Frames) /\ stack' # <<>> /\ FramesSound(stack', arena.offset)
  <2>1. Len(s) > 1 /\ stack' = SubSeq(s, 1, Len(s) - 1)
    BY <1>1, <1>3
  <2>2. /\ SubSeq(s, 1, Len(s) - 1) \in Seq(Frames)
        /\ Len(SubSeq(s, 1, Len(s) - 1)) = Len(s) - 1
        /\ \A i \in 1 .. Len(s) - 1 : SubSeq(s, 1, Len(s) - 1)[i] = s[i] /\ i \in DOMAIN s
    BY <2>1
  <2>3. FramesSound(s, arena.offset)
    BY <1>2, <1>3 DEF WritingSound
  <2>4. PICK t \in Seq(Frames) : t = SubSeq(s, 1, Len(s) - 1)
    BY <2>2
  <2>5. Len(t) = Len(s) - 1 /\ \A i \in DOMAIN t : t[i] = s[i] /\ i \in DOMAIN s
    BY <2>2, <2>4
  <2>6. t # <<>> /\ FramesSound(t, arena.offset)
    BY <2>1, <2>3, <2>5 DEF FramesSound
  <2> QED
    BY <2>1, <2>4, <2>6
<1> QED
  BY <1>1, <1>2, <1>4, WritesOn DEF Typed, WritingSound

LEMMA RaisesStep ==
  ASSUME IInv, Raises
  PROVE  IInv'
<1>1. /\ phase = "writing" /\ phase' = "raised"
      /\ UNCHANGED <<contents, region, arena, stack, pending, full, outside>>
  BY DEF Raises
<1>2. UNCHANGED <<region, stack, pending, ledger, committed, counts, handles>>
  BY <1>1 DEF outside
<1>3. contents' \in [Containers -> Seq(Objects)]
  BY <1>1, SameContents
<1> QED
  BY <1>1, <1>2, <1>3, RaisesOn

-----------------------------------------------------------------------------
(* The region is opened.                                                   *)

LEMMA OpenedFacts ==
  /\ Opened \in [offset : 0 .. Capacity, overflowed : BOOLEAN]
  /\ Opened.offset = TransferSize /\ Opened.overflowed = FALSE
BY RegionFacts DEF Opened, TransferSize

\* A frame for what the transfer is of, and its records, and the header.
LEMMA OpensStep ==
  ASSUME IInv, NEW why, NEW items \in Seq(Objects), NEW at \in Nat, NEW mem \in [Index -> Int],
         NEW a \in [offset : 0 .. Capacity, overflowed : BOOLEAN],
         Opens(why, items, at, mem, a),
         HeaderSays(mem, 0, 0), a.offset >= TransferSize, a.overflowed = FALSE,
         BlockSound(at, Len(items), a.offset)
  PROVE  IInv'
<1> DEFINE frame == [object |-> Entry, items |-> items, block |-> at, next |-> 1]
<1>1. Typed /\ phase = "idle" /\ pending = <<>> /\ committed = 0
  BY DEF IInv, Phased, Opens
<1>2. /\ phase' = "writing" /\ region' = mem /\ arena' = a /\ stack' = <<frame>>
      /\ UNCHANGED <<contents, pending, ledger, committed, counts, handles, full>>
  BY DEF Opens
<1>3. frame \in Frames /\ frame.block = at /\ frame.items = items
  BY DEF Frames
<1> HIDE DEF frame
<1>4. /\ stack' \in Seq(Frames) /\ stack' # <<>>
      /\ DOMAIN (stack') = {1} /\ stack'[1] = frame
  BY <1>2, <1>3
<1>5. Typed'
  BY <1>1, <1>2, <1>4 DEF Typed
<1>6. WritingSound'
  <2>1. FramesSound(stack', a.offset)
    BY <1>3, <1>4 DEF FramesSound
  <2>2. RecordsBelow(pending', Base + a.offset)
    BY <1>1, <1>2 DEF RecordsBelow
  <2>3. ~a.overflowed
    OBVIOUS
  <2> QED
    BY <1>1, <1>2, <1>4, <2>1, <2>2, <2>3
       DEF WritingSound, HeaderSays, FramesSound, BlockSound, RecordsBelow
<1>7. Phased'
  BY <1>2, <1>6 DEF Phased
<1>8. Balanced'
  <2>1. counts = handles
    BY <1>1 DEF IInv, Balanced
  <2>2. Acquired' = Zero
    BY <1>1, <1>2, NoneAcquired DEF Acquired
  <2> QED
    BY <1>1, <1>2, <2>1, <2>2, PlusZero DEF Balanced, Plus, Zero, Typed
<1>9. Flagged'
  <2>1. full = FALSE
    BY <1>1 DEF IInv, Flagged
  <2>2. full' = full /\ arena'.overflowed = FALSE /\ phase' = "writing"
    BY <1>2
  <2> QED
    BY <2>1, <2>2 DEF Flagged, FullIsTold
<1> QED
  BY <1>5, <1>7, <1>8, <1>9 DEF IInv

\* The first record is where a result goes.
LEMMA BaseRecord ==
  ASSUME NEW n \in Nat, n <= 1
  PROVE  BlockSound(Base, n, TransferSize)
BY RegionFacts DEF BlockSound, TransferSize, ValueSize

LEMMA StartResultStep ==
  ASSUME IInv, NEW root \in Objects, StartResult(root)
  PROVE  IInv'
<1>1. Header(Stale(Base, Capacity)) \in [Index -> Int] /\ HeaderSays(Header(Stale(Base, Capacity)), 0, 0)
  BY StaleType, HeaderFacts
<1>2. Opens("result", <<root>>, Base, Header(Stale(Base, Capacity)), Opened)
  BY DEF StartResult
<1>3. <<root>> \in Seq(Objects) /\ Len(<<root>>) = 1 /\ Base \in Nat
  BY RegionFacts
<1>4. BlockSound(Base, Len(<<root>>), Opened.offset)
  BY <1>3, BaseRecord, OpenedFacts
<1>5. Opened.offset >= TransferSize
  BY OpenedFacts DEF TransferSize
<1> QED
  BY <1>1, <1>2, <1>3, <1>4, <1>5, OpenedFacts, OpensStep

LEMMA StartNoneStep ==
  ASSUME IInv, StartNone
  PROVE  IInv'
<1> DEFINE mem == Put(Header(Stale(Base, Capacity)), Base, Record(KindNone, 0, 0))
<1>1. Header(Stale(Base, Capacity)) \in [Index -> Int] /\ HeaderSays(Header(Stale(Base, Capacity)), 0, 0)
  BY StaleType, HeaderFacts
<1>2. Opens("result", <<>>, Base, mem, Opened)
  BY DEF StartNone
<1>3. <<>> \in Seq(Objects) /\ Len(<<>>) = 0 /\ Base \in Nat /\ Base % Word = 0
  BY RegionFacts
<1>4. BlockSound(Base, Len(<<>>), Opened.offset)
  BY <1>3, BaseRecord, OpenedFacts
<1>5. Opened.offset >= TransferSize
  BY OpenedFacts DEF TransferSize
<1>6. Record(KindNone, 0, 0) \in Seq(Int) /\ Len(Record(KindNone, 0, 0)) = 3
  BY RecordType DEF KindNone
<1>7. mem \in [Index -> Int] /\ HeaderSays(mem, 0, 0)
  <2>1. PICK rec : rec = Record(KindNone, 0, 0)
    OBVIOUS
  <2>2. rec \in Seq(Int) /\ Len(rec) = 3
    BY <1>6, <2>1
  <2>3. Len(rec) <= 3
    BY <2>2
  <2> QED
    BY <1>1, <1>3, <2>1, <2>2, <2>3, PutKeepsHeader
<1> HIDE DEF mem
<1> QED
  BY <1>2, <1>3, <1>4, <1>5, <1>7, OpenedFacts, OpensStep

\* The records of the arguments are the first thing behind the header.
LEMMA StartArgumentsStep ==
  ASSUME IInv, NEW args \in Seq(Objects), StartArguments(args)
  PROVE  IInv'
<1> DEFINE n == Len(args) * ValueSize
           rec == Record(KindTuple, Len(args), Place(Opened))
           mem == Put(Header(Stale(Base, Capacity)), Base, rec)
<1>1. Header(Stale(Base, Capacity)) \in [Index -> Int] /\ HeaderSays(Header(Stale(Base, Capacity)), 0, 0)
  BY StaleType, HeaderFacts
<1>2. Opens("arguments", args, Place(Opened), mem, Bump(Opened, n))
  BY DEF StartArguments
<1>3. Len(args) \in Nat /\ n \in Nat /\ Fits(Opened.offset, n)
  BY OpenedFacts DEF StartArguments, ValueSize
<1>4. /\ Place(Opened) \in Nat /\ Place(Opened) % Word = 0
      /\ Place(Opened) >= Base + Opened.offset
      /\ Bump(Opened, n) \in [offset : 0 .. Capacity, overflowed : BOOLEAN]
      /\ Bump(Opened, n).overflowed = FALSE
      /\ Bump(Opened, n).offset >= Opened.offset
      /\ Place(Opened) + n = Base + Bump(Opened, n).offset
  BY <1>3, OpenedFacts, PlaceFacts
<1>5. rec \in Seq(Int) /\ Len(rec) = 3
  <2>1. KindTuple \in Int /\ Len(args) \in Int /\ Place(Opened) \in Int
    BY <1>3, <1>4 DEF KindTuple
  <2> QED
    BY <2>1, RecordType
<1> HIDE DEF rec
<1>6. mem \in [Index -> Int] /\ HeaderSays(mem, 0, 0)
  <2>1. Len(rec) <= 3
    BY <1>5
  <2> QED
    BY <1>1, <1>5, <2>1, RegionFacts, PutKeepsHeader
<1> HIDE DEF mem
<1>7. PICK a \in [offset : 0 .. Capacity, overflowed : BOOLEAN] : a = Bump(Opened, n)
  BY <1>4
<1>8. a.offset \in Nat /\ a.offset >= TransferSize /\ a.overflowed = FALSE
  BY <1>4, <1>7, OpenedFacts DEF TransferSize
<1>9. BlockSound(Place(Opened), Len(args), a.offset)
  <2>1. Place(Opened) + Len(args) * ValueSize <= Base + a.offset
    BY <1>3, <1>4, <1>7, <1>8, RegionFacts
  <2>2. Place(Opened) >= Base + TransferSize
    BY <1>4, OpenedFacts
  <2> QED
    BY <1>4, <2>1, <2>2 DEF BlockSound
<1> QED
  BY <1>2, <1>4, <1>6, <1>7, <1>8, <1>9, OpensStep

-----------------------------------------------------------------------------
(* The commit.                                                             *)

LEMMA ReserveLedgerStep ==
  ASSUME IInv, ReserveLedger
  PROVE  IInv'
<1> DEFINE n == Len(pending) * EntrySize
<1>1. /\ phase = "writing"
      /\ UNCHANGED <<contents, region, stack, pending, committed, counts, handles>>
  BY DEF ReserveLedger, Walked
<1>2. Typed /\ WritingSound /\ committed = 0 /\ counts = handles
  BY <1>1, WritingOwesNothing DEF IInv, Phased
<1>3. Len(pending) \in Nat /\ n \in Nat
  BY <1>2 DEF Typed, EntrySize
<1>4. Acquired' = Zero
  BY <1>1, <1>2, NoneAcquired DEF Acquired
<1>5. Balanced'
  BY <1>1, <1>2, <1>4, PlusZero DEF Balanced, Plus, Zero, Typed
<1>6. CASE pending = <<>>
  <2>1. phase' = "written" /\ UNCHANGED <<arena, ledger, full>>
    BY <1>6 DEF ReserveLedger
  <2>2. Typed'
    BY <1>1, <1>2, <2>1 DEF Typed
  <2>3. WrittenSound'
    BY <1>1, <1>2 DEF WrittenSound, WritingSound, HeaderSays
  <2>4. Flagged'
    BY <1>1, <2>1 DEF IInv, Flagged, FullIsTold
  <2> QED
    BY <1>5, <2>1, <2>2, <2>3, <2>4 DEF IInv, Phased
<1>7. CASE pending # <<>> /\ Fits(arena.offset, n)
  <2>1. phase' = "committing" /\ ledger' = Place(arena) /\ arena' = Bump(arena, n) /\ full' = full
    BY <1>7 DEF ReserveLedger
  <2>2. arena \in [offset : 0 .. Capacity, overflowed : BOOLEAN]
    BY <1>2 DEF Typed
  <2>3. /\ Place(arena) \in Nat /\ Place(arena) % Word = 0
        /\ Place(arena) >= Base + arena.offset
        /\ arena' \in [offset : 0 .. Capacity, overflowed : BOOLEAN]
        /\ arena'.overflowed = arena.overflowed
        /\ Place(arena) + n = Base + arena'.offset
    BY <1>3, <1>7, <2>1, <2>2, PlaceFacts
  <2>4. Typed'
    BY <1>1, <1>2, <2>1, <2>3 DEF Typed
  <2>5. arena.offset \in Nat /\ arena.offset >= TransferSize /\ arena'.offset \in Nat
    BY <1>2, <2>2, <2>3 DEF WritingSound
  <2>6. RecordsBelow(pending, Place(arena))
    <3>1. RecordsBelow(pending, Base + arena.offset) /\ pending \in Seq(Records)
      BY <1>2 DEF WritingSound, Typed
    <3>2. Base + arena.offset \in Nat
      BY <2>5, RegionFacts
    <3> QED
      BY <2>3, <3>1, <3>2, RecordsGrow
  <2>7. LedgerPlaced'
    <3>1. Place(arena) >= Base + TransferSize
      BY <2>3, <2>5, RegionFacts DEF TransferSize
    <3>2. Place(arena) + Len(pending) * EntrySize <= Base + arena'.offset
      BY <2>3, <2>5, RegionFacts
    <3> QED
      BY <1>1, <2>1, <2>3, <3>1, <3>2 DEF LedgerPlaced
  <2>8. LedgerFilled'
    BY <1>1, <1>2 DEF LedgerFilled
  <2>9. ~arena'.overflowed
    BY <1>2, <2>3 DEF WritingSound
  <2>10. CommittingSound'
    <3>1. RecordsBelow(pending', ledger')
      BY <1>1, <2>1, <2>6
    <3> QED
      BY <1>1, <1>7, <2>7, <2>8, <2>9, <3>1 DEF CommittingSound, RecordsBelow
  <2>11. Flagged'
    BY <1>1, <2>1, <2>3 DEF IInv, Flagged, FullIsTold
  <2> QED
    BY <1>5, <2>1, <2>4, <2>10, <2>11 DEF IInv, Phased
<1>8. CASE pending # <<>> /\ ~Fits(arena.offset, n)
  <2>1. /\ phase' = "raised" /\ arena' = Overflow(arena) /\ full' = TRUE /\ ledger' = ledger
    BY <1>8 DEF ReserveLedger
  <2>2. contents' \in [Containers -> Seq(Objects)]
    BY <1>1, SameContents
  <2> QED
    BY <1>1, <2>1, <2>2, RaisesOn
<1> QED
  BY <1>6, <1>7, <1>8

\* An acquisition, its entry in the ledger, and the id in its record.
LEMMA AddRefStep ==
  ASSUME IInv, AddRef
  PROVE  IInv'
<1> DEFINE p == pending[committed + 1]
           entry == ledger + committed * EntrySize
           mem == Put(region, entry, <<p.object>>)
<1>1. /\ phase = "committing" /\ committed < Len(pending)
      /\ counts' = [counts EXCEPT ![p.object] = @ + 1]
      /\ region' = Put(mem, p.at + Word, <<p.object>>)
      /\ committed' = committed + 1
      /\ UNCHANGED <<contents, phase, arena, stack, pending, ledger, handles, full>>
      /\ UNCHANGED <<purpose, outcome>>
  BY DEF AddRef
<1>2. Typed /\ CommittingSound
  BY <1>1 DEF IInv, Phased
<1>3. /\ committed \in Nat /\ committed + 1 \in DOMAIN pending /\ Len(pending) \in Nat
      /\ ledger \in Nat /\ arena.offset \in Nat /\ arena.offset <= Capacity
      /\ region \in [Index -> Int]
  BY <1>1, <1>2, RegionFacts DEF Typed
<1>4. p \in Records
  BY <1>2, <1>3 DEF Typed
<1>5. p.object \in Objects /\ p.object \in Int /\ p.at \in Nat
  BY <1>4, ObjectFacts DEF Records
<1>6. p.at % Word = 0 /\ p.at + ValueSize <= ledger
  BY <1>2, <1>3 DEF CommittingSound, RecordsBelow
<1>7. /\ ledger % Word = 0 /\ ledger >= Base + TransferSize
      /\ ledger + Len(pending) * EntrySize <= Base + arena.offset
  BY <1>2 DEF CommittingSound, LedgerPlaced
<1> HIDE DEF p
<1>8. /\ entry \in Nat /\ entry % Word = 0
      /\ p.at + Word \in Nat /\ (p.at + Word) % Word = 0
  BY <1>3, <1>5, <1>6, <1>7 DEF EntrySize, Word
<1>9. <<p.object>> \in Seq(Int) /\ Len(<<p.object>>) = 1
  BY <1>5
<1>10. mem \in [Index -> Int]
  BY <1>3, <1>8, <1>9, PutType
<1>11. region' \in [Index -> Int]
  <2> HIDE DEF mem
  <2> QED
    BY <1>1, <1>8, <1>9, <1>10, PutType
<1>12. ASSUME NEW i \in 1 .. committed + 1
       PROVE  At(region', ledger + (i - 1) * EntrySize) = pending[i].object
  <2> DEFINE a == ledger + (i - 1) * EntrySize
  <2>1. /\ a \in Nat /\ a % Word = 0 /\ Base <= a /\ a < Base + Capacity
        /\ a >= (p.at + Word) + 1 * Word
    <3>1. PICK k \in Nat : i = k + 1 /\ k <= committed
      BY <1>3
    <3>2. a = ledger + 4 * k /\ k + 1 <= Len(pending)
      BY <1>1, <1>3, <3>1 DEF EntrySize
    <3>3. a \in Nat /\ a % Word = 0
      BY <1>3, <1>7, <3>1, <3>2 DEF Word
    <3>4. Base <= a /\ a < Base + Capacity
      BY <1>3, <1>7, <3>1, <3>2, RegionFacts DEF EntrySize, TransferSize
    <3>5. a >= (p.at + Word) + 1 * Word
      BY <1>3, <1>5, <1>6, <3>1, <3>2 DEF Word, ValueSize
    <3> QED
      BY <3>3, <3>4, <3>5
  <2>2. a \div Word \in Index
    BY <2>1, InRegion
  <2>3. At(region', a) = At(mem, a)
    <3> HIDE DEF mem, a
    <3>1. At(Put(mem, p.at + Word, <<p.object>>), a) = At(mem, a)
      BY <1>8, <1>9, <1>10, <2>1, <2>2, PutElsewhere
    <3> QED
      BY <1>1, <3>1
  <2>4. CASE i = committed + 1
    <3>1. a = entry
      BY <1>3, <2>4
    <3>2. At(mem, entry) = p.object
      BY <1>3, <1>5, <1>8, <2>2, <3>1, PutHere
    <3> QED
      BY <2>3, <2>4, <3>1, <3>2 DEF p
  <2>5. CASE i # committed + 1
    <3>1. i \in 1 .. committed /\ a < entry
      BY <1>3, <2>5 DEF EntrySize
    <3>2. At(mem, a) = At(region, a)
      <4>1. PICK words : words = <<p.object>>
        OBVIOUS
      <4>2. words \in Seq(Int)
        BY <1>9, <4>1
      <4> HIDE DEF a, entry
      <4>3. region \in [Index -> Int] /\ entry \in Nat /\ entry % Word = 0
        BY <1>3, <1>8
      <4>4. a \in Nat /\ a % Word = 0 /\ a \div Word \in Index
        BY <2>1, <2>2
      <4>5. a < entry \/ a >= entry + Len(words) * Word
        BY <3>1
      <4>6. At(Put(region, entry, words), a) = At(region, a)
        BY <4>2, <4>3, <4>4, <4>5, PutElsewhere
      <4> QED
        BY <4>1, <4>6 DEF mem
    <3>3. At(region, a) = pending[i].object
      BY <1>2, <3>1 DEF CommittingSound, LedgerFilled
    <3> QED
      BY <2>3, <3>2, <3>3
  <2> QED
    BY <2>4, <2>5
<1> HIDE DEF mem, entry
<1>13. Typed'
  <2>1. counts' \in [Objects -> Int]
    BY <1>1, <1>2, <1>5 DEF Typed
  <2>2. committed' \in 0 .. Len(pending')
    BY <1>1, <1>3
  <2> QED
    BY <1>1, <1>2, <1>11, <2>1, <2>2 DEF Typed
<1>14. CommittingSound'
  <2>1. LedgerFilled'
    BY <1>1, <1>12 DEF LedgerFilled
  <2> QED
    BY <1>1, <1>2, <2>1 DEF CommittingSound, LedgerPlaced, RecordsBelow
<1>15. Balanced'
  <2> DEFINE f == [i \in 1 .. committed |-> pending[i].object]
             g == [i \in 1 .. committed + 1 |-> pending[i].object]
  <2>1. counts = Plus(handles, Held(f))
    BY <1>1 DEF IInv, Balanced, Acquired
  <2>2. Acquired' = Held(g)
    BY <1>1 DEF Acquired
  <2>3. Held(g) = [o \in Objects |-> IF o = p.object THEN Held(f)[o] + 1 ELSE Held(f)[o]]
    <3>1. g[committed + 1] = p.object
      BY <1>3 DEF p
    <3>2. /\ DOMAIN f = 1 .. committed /\ DOMAIN g = 1 .. committed + 1
          /\ \A i \in 1 .. committed : g[i] = f[i]
      BY <1>3
    <3> HIDE DEF f, g
    <3> QED
      BY <1>3, <3>1, <3>2, HeldNext
  <2>4. Held(f) \in [Objects -> Nat]
    <3>1. DOMAIN f = 1 .. committed
      OBVIOUS
    <3> HIDE DEF f
    <3> QED
      BY <1>3, <3>1, HeldType
  <2> HIDE DEF f, g
  <2>5. PICK h \in [Objects -> Nat] : h = Held(f)
    BY <2>4
  <2>6. handles \in [Objects -> Nat]
    BY <1>2 DEF Typed
  <2>7. counts' = [o \in Objects |-> handles[o] + (IF o = p.object THEN h[o] + 1 ELSE h[o])]
    <3>1. counts' = [Plus(handles, h) EXCEPT ![p.object] = @ + 1]
      BY <1>1, <2>1, <2>5
    <3>2. \A o \in Objects : Plus(handles, h)[o] = handles[o] + h[o]
      BY DEF Plus
    <3>3. DOMAIN Plus(handles, h) = Objects
      BY DEF Plus
    <3>4. ASSUME NEW o \in Objects
          PROVE  counts'[o] = handles[o] + (IF o = p.object THEN h[o] + 1 ELSE h[o])
      BY <1>5, <2>5, <2>6, <3>1, <3>2, <3>3
    <3>5. counts' = [o \in Objects |-> counts'[o]]
      BY <3>1, <3>3 DEF Plus
    <3> QED
      BY <3>4, <3>5
  <2>8. counts' = Plus(handles, Held(g))
    BY <2>3, <2>5, <2>7 DEF Plus
  <2> QED
    BY <1>1, <2>2, <2>8 DEF Balanced, Plus
<1>16. Flagged'
  BY <1>1 DEF IInv, Flagged, FullIsTold
<1> QED
  BY <1>1, <1>13, <1>14, <1>15, <1>16 DEF IInv, Phased

LEMMA RefuseRefStep ==
  ASSUME IInv, RefuseRef
  PROVE  IInv'
<1>1. /\ phase = "committing" /\ phase' = "raised" /\ counts' = RolledBack /\ committed' = 0
      /\ UNCHANGED <<contents, region, arena, stack, pending, ledger, handles, full>>
  BY DEF RefuseRef
<1>2. Typed
  BY DEF IInv
<1>3. counts = Plus(handles, Acquired) /\ RolledBack = Minus(counts, Acquired)
  BY <1>1 DEF IInv, Balanced, RolledBack, Acquired
<1>4. Acquired \in [Objects -> Nat]
  <2> DEFINE f == [i \in 1 .. committed |-> pending[i].object]
  <2>1. DOMAIN f = 1 .. committed /\ committed \in Nat
    BY <1>2 DEF Typed
  <2> HIDE DEF f
  <2>2. Held(f) \in [Objects -> Nat]
    BY <2>1, HeldType
  <2> QED
    BY <2>2 DEF f, Acquired
<1>5. handles \in [Objects -> Nat]
  BY <1>2 DEF Typed
<1>6. counts' = handles
  <2>1. PICK h \in [Objects -> Nat] : h = Acquired
    BY <1>4
  <2>2. Minus(Plus(handles, h), h) = handles
    BY <1>5 DEF Minus, Plus
  <2> QED
    BY <1>1, <1>3, <2>1, <2>2
<1>7. Typed'
  <2>1. counts' \in [Objects -> Int]
    BY <1>5, <1>6
  <2>2. committed' \in 0 .. Len(pending')
    BY <1>1, <1>2 DEF Typed
  <2> QED
    BY <1>1, <1>2, <2>1, <2>2 DEF Typed
<1>8. Balanced'
  <2>1. DOMAIN [i \in 1 .. committed' |-> pending'[i].object] = {}
    BY <1>1
  <2>2. Acquired' = Zero
    BY <2>1, HeldNone DEF Acquired
  <2>3. Plus(handles, Zero) = handles
    BY <1>5, PlusZero
  <2> QED
    BY <1>1, <1>6, <2>2, <2>3 DEF Balanced, Plus, Zero
<1>9. Flagged'
  BY <1>1 DEF IInv, Flagged, FullIsTold
<1> QED
  BY <1>1, <1>7, <1>8, <1>9 DEF IInv, Phased

\* The header names the ledger, which no word of it is in.
LEMMA FinishCommitStep ==
  ASSUME IInv, FinishCommit
  PROVE  IInv'
<1>1. /\ phase = "committing" /\ phase' = "written" /\ committed = Len(pending)
      /\ region' = Put(region, Base + ValueSize, <<ledger, committed>>)
      /\ UNCHANGED <<contents, arena, stack, pending, ledger, committed, counts, handles, full>>
  BY DEF FinishCommit
<1>2. Typed /\ CommittingSound
  BY <1>1 DEF IInv, Phased
<1>3. /\ committed \in Nat /\ ledger \in Nat /\ region \in [Index -> Int]
      /\ arena.offset \in Nat /\ arena.offset <= Capacity
  BY <1>1, <1>2, RegionFacts DEF Typed
<1>4. region' \in [Index -> Int] /\ HeaderSays(region', ledger, committed)
  <2>1. ledger \in Int /\ committed \in Int
    BY <1>3
  <2> QED
    BY <1>1, <1>3, <2>1, HeaderPut
<1>5. /\ ledger % Word = 0 /\ ledger >= Base + TransferSize
      /\ ledger + Len(pending) * EntrySize <= Base + arena.offset
  BY <1>2 DEF CommittingSound, LedgerPlaced
<1>6. ASSUME NEW i \in 1 .. committed
      PROVE  At(region', ledger + (i - 1) * EntrySize) = pending[i].object
  <2> DEFINE a == ledger + (i - 1) * EntrySize
             words == <<ledger, committed>>
             at == Base + ValueSize
  <2>1. /\ a \in Nat /\ a % Word = 0 /\ Base <= a /\ a < Base + Capacity
        /\ at \in Nat /\ at % Word = 0 /\ a >= at + 2 * Word
    BY <1>1, <1>3, <1>5, RegionFacts DEF EntrySize, Word, ValueSize, TransferSize
  <2>2. a \div Word \in Index
    BY <2>1, InRegion
  <2>3. words \in Seq(Int) /\ Len(words) = 2
    BY <1>3
  <2>4. At(region, a) = pending[i].object
    BY <1>2 DEF CommittingSound, LedgerFilled
  <2>5. At(Put(region, at, words), a) = At(region, a)
    <3> HIDE DEF a, words, at
    <3> QED
      BY <1>3, <2>1, <2>2, <2>3, PutElsewhere
  <2> QED
    BY <1>1, <2>4, <2>5
<1>7. Typed'
  BY <1>1, <1>2, <1>4 DEF Typed
<1>8. WrittenSound'
  <2>1. LedgerFilled'
    BY <1>1, <1>6 DEF LedgerFilled
  <2>2. HeaderSays(region', ledger', committed')
    BY <1>1, <1>4
  <2> QED
    BY <1>1, <1>2, <2>1, <2>2 DEF WrittenSound, CommittingSound, LedgerPlaced, HeaderSays
<1>9. Balanced'
  BY <1>1 DEF IInv, Balanced, Acquired, Plus, Held
<1>10. Flagged'
  BY <1>1 DEF IInv, Flagged, FullIsTold
<1> QED
  BY <1>1, <1>7, <1>8, <1>9, <1>10 DEF IInv, Phased

-----------------------------------------------------------------------------
(* A raise is handled.                                                     *)

LEMMA ResetFacts ==
  ASSUME NEW a \in [offset : 0 .. Capacity, overflowed : BOOLEAN]
  PROVE  /\ Reset(a) \in [offset : 0 .. Capacity, overflowed : BOOLEAN]
         /\ Reset(a).offset = TransferSize /\ Reset(a).overflowed = a.overflowed
BY RegionFacts DEF Reset, TransferSize

LEMMA OverflowFacts ==
  ASSUME NEW a \in [offset : 0 .. Capacity, overflowed : BOOLEAN]
  PROVE  /\ Overflow(a) \in [offset : 0 .. Capacity, overflowed : BOOLEAN]
         /\ Overflow(a).offset = a.offset /\ Overflow(a).overflowed = TRUE
BY DEF Overflow

\* A text of an exception goes behind a header without a ledger.
LEMMA WithTextFacts ==
  ASSUME NEW a \in [offset : 0 .. Capacity, overflowed : BOOLEAN], a.offset = TransferSize,
         NEW n \in Nat, NEW w \in Int, Fits(a.offset, n),
         NEW mem \in [Index -> Int]
  PROVE  /\ WithText(Header(mem), a, n, w) \in [Index -> Int]
         /\ HeaderSays(WithText(Header(mem), a, n, w), 0, 0)
         /\ Bump(a, n) \in [offset : 0 .. Capacity, overflowed : BOOLEAN]
         /\ Bump(a, n).overflowed = a.overflowed
<1>1. Header(mem) \in [Index -> Int] /\ HeaderSays(Header(mem), 0, 0)
  BY HeaderFacts
<1>2. /\ Place(a) \in Nat /\ Place(a) % Word = 0 /\ Place(a) >= Base + TransferSize
      /\ Bump(a, n) \in [offset : 0 .. Capacity, overflowed : BOOLEAN]
      /\ Bump(a, n).overflowed = a.overflowed
  BY PlaceFacts
<1> DEFINE rec == Record(KindException, n, Place(a))
           mem1 == Put(Header(mem), Base, rec)
<1>3. rec \in Seq(Int) /\ Len(rec) = 3
  <2>1. KindException \in Int /\ n \in Int /\ Place(a) \in Int
    BY <1>2 DEF KindException
  <2> QED
    BY <2>1, RecordType
<1> HIDE DEF rec
<1>4. mem1 \in [Index -> Int] /\ HeaderSays(mem1, 0, 0)
  <2>1. Len(rec) <= 3
    BY <1>3
  <2> QED
    BY <1>1, <1>3, <2>1, RegionFacts, PutKeepsHeader
<1> HIDE DEF mem1
<1>5. /\ PutText(mem1, Place(a), n, w) \in [Index -> Int]
      /\ HeaderSays(PutText(mem1, Place(a), n, w), 0, 0)
  BY <1>2, <1>4, PutTextFacts
<1> QED
  BY <1>2, <1>5 DEF WithText, mem1, rec

\* Whatever is written of an exception, the header has no ledger, and the flag stands.
LEMMA ExceptionWritten ==
  ASSUME Typed, full = arena.overflowed,
         \/ \E n \in ErrorSizes : WriteException(n)
         \/ WriteFallback(TRUE) \/ WriteFallback(FALSE)
  PROVE  /\ region' \in [Index -> Int] /\ HeaderSays(region', 0, 0)
         /\ arena' \in [offset : 0 .. Capacity, overflowed : BOOLEAN]
         /\ full' = arena'.overflowed
<1>1. arena \in [offset : 0 .. Capacity, overflowed : BOOLEAN] /\ region \in [Index -> Int]
  BY DEF Typed
<1>2. /\ Reset(arena) \in [offset : 0 .. Capacity, overflowed : BOOLEAN]
      /\ Reset(arena).offset = TransferSize /\ Reset(arena).overflowed = arena.overflowed
  BY <1>1, ResetFacts
<1>3. ErrorText \in Int /\ FallbackText \in Int /\ FallbackSize \in Nat /\ ErrorSizes \subseteq Nat
  BY TransferAssumption DEF ErrorText, FallbackText
<1>4. ASSUME NEW n \in ErrorSizes, WriteException(n)
      PROVE  /\ region' \in [Index -> Int] /\ HeaderSays(region', 0, 0)
             /\ arena' \in [offset : 0 .. Capacity, overflowed : BOOLEAN]
             /\ full' = arena'.overflowed
  <2>1. /\ Fits(Reset(arena).offset, n)
        /\ region' = WithText(Header(region), Reset(arena), n, ErrorText)
        /\ arena' = Bump(Reset(arena), n) /\ full' = full
    BY <1>4 DEF WriteException
  <2>2. n \in Nat
    BY <1>3
  <2> QED
    BY <1>1, <1>2, <1>3, <2>1, <2>2, WithTextFacts
<1>5. ASSUME NEW overflow \in BOOLEAN, WriteFallback(overflow)
      PROVE  /\ region' \in [Index -> Int] /\ HeaderSays(region', 0, 0)
             /\ arena' \in [offset : 0 .. Capacity, overflowed : BOOLEAN]
             /\ full' = arena'.overflowed
  <2>1. PICK a : a = IF overflow THEN Overflow(Reset(arena)) ELSE Reset(arena)
    OBVIOUS
  <2>2. /\ a \in [offset : 0 .. Capacity, overflowed : BOOLEAN] /\ a.offset = TransferSize
        /\ a.overflowed = (full \/ overflow)
    <3>1. CASE overflow = TRUE
      BY <1>2, <2>1, <3>1, OverflowFacts
    <3>2. CASE overflow = FALSE
      <4>1. full \in BOOLEAN
        BY <1>1
      <4> QED
        BY <1>2, <2>1, <3>2, <4>1
    <3> QED
      BY <3>1, <3>2
  <2>3. CASE Fits(a.offset, FallbackSize)
    <3>1. /\ region' = WithText(Header(region), a, FallbackSize, FallbackText)
          /\ arena' = Bump(a, FallbackSize) /\ full' = (full \/ overflow)
      BY <1>5, <2>1, <2>3 DEF WriteFallback
    <3> QED
      BY <1>1, <1>3, <2>2, <2>3, <3>1, WithTextFacts
  <2>4. CASE ~Fits(a.offset, FallbackSize)
    <3> DEFINE rec == Record(KindException, 0, 0)
    <3>1. /\ region' = Put(Header(region), Base, rec)
          /\ arena' = Overflow(a) /\ full' = TRUE
      BY <1>5, <2>1, <2>4 DEF WriteFallback
    <3>2. Header(region) \in [Index -> Int] /\ HeaderSays(Header(region), 0, 0)
      BY <1>1, HeaderFacts
    <3>3. rec \in Seq(Int) /\ Len(rec) = 3
      BY RecordType DEF KindException
    <3> HIDE DEF rec
    <3>4. Len(rec) <= 3
      BY <3>3
    <3>5. region' \in [Index -> Int] /\ HeaderSays(region', 0, 0)
      BY <3>1, <3>2, <3>3, <3>4, RegionFacts, PutKeepsHeader
    <3> QED
      BY <2>2, <3>1, <3>5, OverflowFacts
  <2> QED
    BY <2>3, <2>4
<1> QED
  BY <1>4, <1>5

LEMMA HandleRaiseStep ==
  ASSUME IInv, HandleRaise
  PROVE  IInv'
<1>1. /\ phase = "raised" /\ phase' = "written" /\ Ended
      /\ UNCHANGED <<contents, counts, handles>>
      /\ \/ \E n \in ErrorSizes : WriteException(n)
         \/ WriteFallback(TRUE) \/ WriteFallback(FALSE)
  BY DEF HandleRaise
<1>2. /\ stack' = <<>> /\ pending' = <<>> /\ ledger' = 0 /\ committed' = 0
  BY <1>1 DEF Ended
<1>3. Typed /\ full = arena.overflowed /\ counts = handles
  BY <1>1, WritingOwesNothing DEF IInv, Flagged
<1>4. /\ region' \in [Index -> Int] /\ HeaderSays(region', 0, 0)
      /\ arena' \in [offset : 0 .. Capacity, overflowed : BOOLEAN]
      /\ full' = arena'.overflowed
  BY <1>1, <1>3, ExceptionWritten
<1>5. Typed'
  BY <1>1, <1>2, <1>3, <1>4 DEF Typed
<1>6. WrittenSound'
  BY <1>2, <1>4 DEF WrittenSound, HeaderSays
<1>7. Balanced'
  <2>1. DOMAIN [i \in 1 .. committed' |-> pending'[i].object] = {}
    BY <1>2
  <2>2. Acquired' = Zero
    BY <2>1, HeldNone DEF Acquired
  <2>3. Plus(handles, Zero) = handles
    BY <1>3, PlusZero DEF Typed
  <2> QED
    BY <1>1, <1>3, <2>2, <2>3 DEF Balanced, Plus, Zero
<1>8. Flagged'
  BY <1>1, <1>4 DEF Flagged, FullIsTold
<1> QED
  BY <1>1, <1>5, <1>6, <1>7, <1>8 DEF IInv, Phased

LEMMA RaiseInCallerStep ==
  ASSUME IInv, RaiseInCaller
  PROVE  IInv'
<1>1. /\ phase = "raised" /\ phase' = "read" /\ purpose = "arguments"
      /\ UNCHANGED <<contents, purpose, region, arena, stack, pending, ledger, committed, counts,
                     handles, full>>
  BY DEF RaiseInCaller
<1>2. Typed /\ counts = handles
  BY <1>1, WritingOwesNothing DEF IInv
<1>3. Typed' /\ Balanced' /\ Phased'
  BY <1>1, <1>2 DEF Typed, Balanced, Phased
<1>4. Flagged'
  BY <1>1 DEF IInv, Flagged, FullIsTold
<1> QED
  BY <1>3, <1>4 DEF IInv

-----------------------------------------------------------------------------
(* The host reads.                                                         *)

\* The ledger of what was written can be read, and is what was acquired.
LedgerIsRead == phase = "written" => Refs.ok /\ Held(Refs.ids) = Acquired

LEMMA LedgerSays ==
  ASSUME IInv, phase = "written"
  PROVE  Refs = [ok |-> TRUE, ids |-> [i \in 1 .. committed |-> pending[i].object]]
<1>1. Typed /\ WrittenSound
  BY DEF IInv, Phased
<1>2. CASE HeaderSays(region, 0, 0) /\ committed = 0
  <2>1. Refs = [ok |-> TRUE, ids |-> <<>>]
    BY <1>2 DEF Refs, ReadRefs, HeaderSays
  <2>2. [i \in 1 .. committed |-> pending[i].object] = <<>>
    <3>1. 1 .. committed = {}
      BY <1>2
    <3> QED
      BY <3>1
  <2> QED
    BY <2>1, <2>2
<1>3. CASE /\ pending # <<>> /\ committed = Len(pending)
           /\ HeaderSays(region, ledger, committed)
           /\ LedgerPlaced /\ LedgerFilled
  <2> DEFINE ids == [i \in 1 .. committed |-> At(region, ledger + (i - 1) * EntrySize)]
             held == [i \in 1 .. committed |-> pending[i].object]
  <2>1. committed \in Nat /\ committed > 0 /\ ledger \in Nat
    BY <1>1, <1>3 DEF Typed
  <2>2. /\ ledger % Word = 0 /\ ledger >= Base + TransferSize
        /\ ledger + committed * EntrySize <= Base + arena.offset
    BY <1>3 DEF LedgerPlaced
  <2>3. ids = held
    BY <1>3 DEF LedgerFilled
  <2>4. ASSUME NEW i \in 1 .. committed  PROVE ids[i] # 0
    <3>1. pending[i] \in Records
      BY <1>1, <1>3 DEF Typed
    <3>2. pending[i].object \in Objects
      BY <3>1 DEF Records
    <3>3. pending[i].object # 0
      BY <3>2, TransferAssumption
    <3> QED
      BY <2>3, <3>3
  <2>5. Refs = [ok |-> TRUE, ids |-> ids]
    <3>1. At(region, Base + ValueSize) = ledger /\ At(region, Base + ValueSize + Word) = committed
      BY <1>3 DEF HeaderSays
    <3>2. ~(committed = 0 /\ ledger = 0) /\ ~(committed <= 0)
      BY <2>1
    <3>3. /\ ~(ledger % Word # 0) /\ ~(ledger < Base + TransferSize)
          /\ ~(ledger + committed * EntrySize > Base + arena.offset)
      <4>1. arena.offset \in Nat
        BY <1>1 DEF Typed
      <4> QED
        BY <2>1, <2>2, <4>1, RegionFacts DEF TransferSize, EntrySize
    <3>4. ~ \E i \in 1 .. committed : ids[i] = 0
      BY <2>4
    <3> HIDE DEF held
    <3> QED
      BY <3>1, <3>2, <3>3, <3>4 DEF Refs, ReadRefs
  <2> QED
    BY <2>3, <2>5
<1> QED
  BY <1>1, <1>2, <1>3 DEF WrittenSound

LEMMA RefsFacts == IInv => LedgerIsRead
<1> SUFFICES ASSUME IInv, phase = "written"  PROVE Refs.ok /\ Held(Refs.ids) = Acquired
  BY DEF LedgerIsRead
<1>1. PICK f : f = [i \in 1 .. committed |-> pending[i].object] /\ Refs = [ok |-> TRUE, ids |-> f]
  BY LedgerSays
<1> QED
  BY <1>1 DEF Acquired

LEMMA AcquiredType ==
  ASSUME Typed
  PROVE  Acquired \in [Objects -> Nat]
<1> DEFINE f == [i \in 1 .. committed |-> pending[i].object]
<1>1. DOMAIN f = 1 .. committed /\ committed \in Nat
  BY DEF Typed
<1> HIDE DEF f
<1>2. Held(f) \in [Objects -> Nat]
  BY <1>1, HeldType
<1> QED
  BY <1>2 DEF f, Acquired

\* What is given back is what was acquired, so what is taken is all that stands.
LEMMA ExchangeFacts ==
  ASSUME IInv, phase = "written", NEW taken \in [Objects -> Nat]
  PROVE  /\ Exchanged(taken) = Plus(handles, taken)
         /\ Plus(handles, taken) \in [Objects -> Nat]
<1>1. Typed /\ counts = Plus(handles, Acquired)
  BY DEF IInv, Balanced
<1>2. Held(Refs.ids) = Acquired
  BY RefsFacts DEF LedgerIsRead
<1>3. PICK h \in [Objects -> Nat] : h = Acquired
  BY <1>1, AcquiredType
<1>4. handles \in [Objects -> Nat]
  BY <1>1 DEF Typed
<1>5. Plus(handles, taken) \in [Objects -> Nat]
  BY <1>4 DEF Plus
<1>6. Exchanged(taken) = Minus(Plus(Plus(handles, h), taken), h)
  BY <1>1, <1>2, <1>3 DEF Exchanged
<1>7. ASSUME NEW o \in Objects
      PROVE  Minus(Plus(Plus(handles, h), taken), h)[o] = Plus(handles, taken)[o]
  <2>1. Minus(Plus(Plus(handles, h), taken), h)[o] = ((handles[o] + h[o]) + taken[o]) - h[o]
    BY DEF Minus, Plus
  <2>2. Plus(handles, taken)[o] = handles[o] + taken[o]
    BY DEF Plus
  <2>3. handles[o] \in Nat /\ h[o] \in Nat /\ taken[o] \in Nat
    BY <1>4
  <2> QED
    BY <2>1, <2>2, <2>3
<1>8. Minus(Plus(Plus(handles, h), taken), h) = Plus(handles, taken)
  <2>1. \A f, g : Minus(f, g) = [o \in Objects |-> Minus(f, g)[o]]
    BY DEF Minus
  <2>2. \A f, g : Plus(f, g) = [o \in Objects |-> Plus(f, g)[o]]
    BY DEF Plus
  <2> QED
    BY <1>7, <2>1, <2>2
<1> QED
  BY <1>5, <1>6, <1>8

LEMMA ReadResultStep ==
  ASSUME IInv, NEW ok \in BOOLEAN, NEW node, NEW taken \in [Objects -> Nat],
         ReadResult(ok, node, taken)
  PROVE  IInv'
<1>1. /\ phase = "written" /\ purpose = "result" /\ phase' = "read"
      /\ UNCHANGED <<contents, purpose, region, arena, stack, pending, ledger, committed, full>>
  BY DEF ReadResult
<1>2. Typed /\ full = arena.overflowed
  BY <1>1 DEF IInv, Flagged
<1>3. arena.overflowed \in BOOLEAN /\ arena.offset \in Nat
  BY <1>2 DEF Typed
<1>4. CASE arena.overflowed
  <2>1. Status(arena) = -2
    BY <1>4 DEF Status
  <2>2. outcome' = Outcome("full", None) /\ UNCHANGED <<counts, handles>>
    BY <2>1 DEF ReadResult
  <2>3. counts = handles
    <3>1. committed = 0
      BY <1>1, <1>4 DEF IInv, Phased, WrittenSound
    <3> QED
      BY <1>1, <1>2, <3>1, NoneAcquired, PlusZero DEF IInv, Balanced, Typed
  <2>4. Typed' /\ Balanced' /\ Phased'
    BY <1>1, <1>2, <2>2, <2>3 DEF Typed, Balanced, Phased
  <2>5. Flagged'
    <3>1. outcome'.kind = "full"
      BY <2>2 DEF Outcome
    <3>2. full' = arena'.overflowed /\ full' = TRUE
      BY <1>1, <1>2, <1>3, <1>4
    <3> QED
      BY <1>1, <3>1, <3>2 DEF Flagged, FullIsTold
  <2> QED
    BY <2>4, <2>5 DEF IInv
<1>5. CASE ~arena.overflowed
  <2>1. Status(arena) # -2
    BY <1>3, <1>5 DEF Status
  <2>2. /\ counts' = Exchanged(taken) /\ handles' = Plus(handles, taken)
        /\ outcome' = IF ~ok THEN Outcome("unreadable", None)
                      ELSE IF node.kind = KindException THEN Outcome("exception", node)
                      ELSE Outcome("value", node)
    BY <2>1 DEF ReadResult
  <2>3. counts' = handles' /\ handles' \in [Objects -> Nat]
    BY <1>1, <2>2, ExchangeFacts
  <2>4. Typed' /\ Balanced' /\ Phased'
    <3>1. counts' \in [Objects -> Int]
      BY <2>3
    <3> QED
      BY <1>1, <1>2, <2>3, <3>1 DEF Typed, Balanced, Phased
  <2>5. Flagged'
    <3>1. outcome'.kind # "full"
      BY <2>2 DEF Outcome
    <3>2. full' = arena'.overflowed /\ full' = FALSE
      BY <1>1, <1>2, <1>3, <1>5
    <3> QED
      BY <1>1, <3>1, <3>2 DEF Flagged, FullIsTold
  <2> QED
    BY <2>4, <2>5 DEF IInv
<1> QED
  BY <1>4, <1>5

LEMMA ReadArgumentsStep ==
  ASSUME IInv, NEW ok \in BOOLEAN, NEW node, NEW taken \in [Objects -> Nat],
         ReadArguments(ok, node, taken)
  PROVE  IInv'
<1>1. /\ phase = "written" /\ purpose = "arguments" /\ phase' \in {"called", "failing"}
      /\ counts' = Exchanged(taken) /\ handles' = Plus(handles, taken)
      /\ UNCHANGED <<contents, purpose, region, arena, stack, pending, ledger, committed, full>>
  BY DEF ReadArguments
<1>2. counts' = handles' /\ handles' \in [Objects -> Nat]
  BY <1>1, ExchangeFacts
<1>3. counts' \in [Objects -> Int]
  BY <1>2
<1>4. Typed' /\ Balanced' /\ Phased'
  BY <1>1, <1>2, <1>3 DEF IInv, Typed, Balanced, Phased
<1>5. Flagged'
  BY <1>1 DEF IInv, Flagged, FullIsTold
<1> QED
  BY <1>4, <1>5 DEF IInv

LEMMA ReadingStep ==
  ASSUME IInv, Reading
  PROVE  IInv'
<1>1. PICK taken \in [Objects -> Nat], ok \in BOOLEAN, node \in {outcome'.node} :
        ReadResult(ok, node, taken) \/ ReadArguments(ok, node, taken)
  <2> DEFINE t == Minus(handles', handles)
  <2>1. t \in [Objects -> Nat]
    BY DEF Reading
  <2>2. PICK ok \in BOOLEAN :
          ReadResult(ok, outcome'.node, t) \/ ReadArguments(ok, outcome'.node, t)
    BY DEF Reading
  <2> HIDE DEF t
  <2> QED
    BY <2>1, <2>2
<1> QED
  BY <1>1, ReadResultStep, ReadArgumentsStep

LEMMA RefuseArgumentsStep ==
  ASSUME IInv, RefuseArguments
  PROVE  IInv'
<1>1. /\ phase = "written" /\ purpose = "arguments" /\ phase' = "failing"
      /\ counts' = Minus(counts, Held(Refs.ids))
      /\ UNCHANGED <<contents, purpose, region, arena, stack, pending, ledger, committed,
                     handles, full>>
  BY DEF RefuseArguments
<1>2. Typed /\ counts = Plus(handles, Acquired) /\ Held(Refs.ids) = Acquired
  BY <1>1, RefsFacts DEF IInv, Balanced, LedgerIsRead
<1>3. counts' = handles'
  <2>1. PICK h \in [Objects -> Nat] : h = Acquired
    BY <1>2, AcquiredType
  <2>2. handles \in [Objects -> Nat]
    BY <1>2 DEF Typed
  <2>3. Minus(Plus(handles, h), h) = handles
    BY <2>2 DEF Minus, Plus
  <2> QED
    BY <1>1, <1>2, <2>1, <2>3
<1>4. Typed' /\ Balanced' /\ Phased'
  <2>1. counts' \in [Objects -> Int]
    BY <1>1, <1>2, <1>3 DEF Typed
  <2> QED
    BY <1>1, <1>2, <1>3, <2>1 DEF Typed, Balanced, Phased
<1>5. Flagged'
  BY <1>1 DEF IInv, Flagged, FullIsTold
<1> QED
  BY <1>4, <1>5 DEF IInv

LEMMA CallGoesOnStep ==
  ASSUME IInv, CallGoesOn
  PROVE  IInv'
<1>1. /\ phase \in {"called", "failing", "returned"}
      /\ phase' \in {"returned", "failing", "answered"}
      /\ UNCHANGED <<contents, purpose, region, arena, stack, pending, ledger, committed, counts,
                     handles, full, outcome>>
  BY DEF CallGoesOn
<1>2. Typed' /\ Balanced' /\ Phased' /\ Flagged'
  BY <1>1 DEF IInv, Typed, Balanced, Phased, Flagged, FullIsTold
<1> QED
  BY <1>2 DEF IInv

LEMMA SettleStep ==
  ASSUME IInv, Settle
  PROVE  IInv'
<1>1. /\ phase \in {"read", "answered"} /\ phase' = "idle"
      /\ region' = Stale(Base, Capacity)
      /\ arena' = [offset |-> 0, overflowed |-> FALSE]
      /\ counts' = Minus(counts, handles) /\ handles' = Zero
      /\ stack' = <<>> /\ pending' = <<>> /\ ledger' = 0 /\ committed' = 0
      /\ full' = FALSE /\ contents' = contents
  BY DEF Settle, Ended, Zero
<1>2. Typed /\ counts = handles
  BY <1>1 DEF IInv, Balanced
<1>3. counts' = Zero
  <2>1. handles \in [Objects -> Nat]
    BY <1>2 DEF Typed
  <2>2. \A o \in Objects : handles[o] - handles[o] = 0
    BY <2>1
  <2> QED
    BY <1>1, <1>2, <2>2 DEF Minus, Zero
<1>4. Typed'
  <2>1. Zero \in [Objects -> Nat] /\ Zero \in [Objects -> Int]
    BY DEF Zero
  <2>2. arena' \in [offset : 0 .. Capacity, overflowed : BOOLEAN]
    BY <1>1, RegionFacts
  <2> QED
    BY <1>1, <1>2, <1>3, <2>1, <2>2, StaleType DEF Typed
<1>5. Balanced' /\ Phased' /\ Flagged'
  BY <1>1, <1>3 DEF Balanced, Phased, Flagged, FullIsTold
<1> QED
  BY <1>4, <1>5 DEF IInv

-----------------------------------------------------------------------------
(* The theorems.                                                           *)

LEMMA InitIInv == TransferInit => IInv
<1> SUFFICES ASSUME TransferInit  PROVE IInv
  OBVIOUS
<1>1. Typed
  <2>1. arena \in [offset : 0 .. Capacity, overflowed : BOOLEAN]
    BY RegionFacts DEF TransferInit
  <2>2. contents \in [Containers -> Seq(Objects)]
    BY TransferAssumption DEF TransferInit
  <2> QED
    BY <2>1, <2>2, StaleType DEF TransferInit, Typed
<1>2. Balanced /\ Phased /\ Flagged
  BY DEF TransferInit, Balanced, Phased, Flagged, FullIsTold
<1> QED
  BY <1>1, <1>2 DEF IInv

LEMMA StepIInv ==
  ASSUME IInv, [TransferNext]_transferVars
  PROVE  IInv'
<1>1. CASE Starting
  <2>1. ASSUME NEW args \in BoundedSeq(Objects, MaxHostArgs)  PROVE args \in Seq(Objects)
    <3>1. PICK m \in 0 .. MaxHostArgs : args \in [1 .. m -> Objects]
      BY DEF BoundedSeq, SeqOf
    <3>2. m \in Nat
      BY TransferAssumption
    <3> QED
      BY <3>1, <3>2
  <2> QED
    BY <1>1, <2>1, StartResultStep, StartNoneStep, StartArgumentsStep DEF Starting
<1>2. CASE Writing
  BY <1>2, WriteIntStep, WriteStrStep, WriteObjectStep, WriteAsHandleStep, WriteContainerStep,
     LeaveContainerStep, RaisesStep, ReserveLedgerStep, AddRefStep, RefuseRefStep,
     FinishCommitStep DEF Writing
<1>3. CASE UNCHANGED transferVars
  BY <1>3 DEF transferVars, IInv, Typed, Phased, Balanced, Flagged, FullIsTold, WritingSound,
     CommittingSound, WrittenSound, FramesSound, BlockSound, RecordsBelow, HeaderSays,
     LedgerPlaced, LedgerFilled, Acquired, Plus, Held
<1> QED
  BY <1>1, <1>2, <1>3, HandleRaiseStep, RaiseInCallerStep, ReadingStep, RefuseArgumentsStep,
     CallGoesOnStep, SettleStep DEF TransferNext

LEMMA TransferInvariant == TransferSpec => []IInv
BY InitIInv, StepIInv, PTL DEF TransferSpec

\* A result that did not fit is told as such, and only then, for all values, in regions
\* of every size (arena.c, output_arena_status; arena.go, ErrArenaFull).
THEOREM TransferFullIsTold == TransferSpec => []FullIsTold
<1>1. IInv => FullIsTold
  BY DEF IInv, Flagged
<1> QED
  BY <1>1, TransferInvariant, PTL

\* Whatever fails, and wherever, an acquisition that stands belongs to a Go handle
\* (encode.c, pending_refs_commit; decode.go, the ledger).
THEOREM TransferNothingOwed == TransferSpec => []NothingOwed
<1>1. IInv => NothingOwed
  BY DEF IInv, Balanced, NothingOwed
<1> QED
  BY <1>1, TransferInvariant, PTL

\* The host can always read the ledger of what the guest has written, and it is all that
\* the guest has acquired: it was not written over, whatever Python did to the containers.
THEOREM TransferLedgerIsRead == TransferSpec => []LedgerIsRead
BY RefsFacts, TransferInvariant, PTL

-----------------------------------------------------------------------------
(* What is written is not written over.                                    *)

Start(f) == f.block + (f.next - 1) * ValueSize  \* of what a frame has still to write
End(f) == f.block + Len(f.items) * ValueSize

FramesApart(frames) == \A i, j \in DOMAIN frames : i < j => End(frames[i]) <= frames[j].block

AllWritten(frames) == \A i \in DOMAIN frames : Start(frames[i]) >= End(frames[i])

\* The record of a handle is none of those to come.
RecordsWritten(refs, frames) ==
  \A k \in DOMAIN refs : \A i \in DOMAIN frames :
    refs[k].at + ValueSize <= Start(frames[i]) \/ refs[k].at >= End(frames[i])

RecordsApart(refs) ==
  \A j, k \in DOMAIN refs : j < k =>
    refs[j].at + ValueSize <= refs[k].at \/ refs[k].at + ValueSize <= refs[j].at

RecordsPlaced(refs) ==
  \A k \in DOMAIN refs : refs[k].at = Base \/ refs[k].at >= Base + TransferSize

Apart ==
  /\ phase \in {"writing", "committing"} => RecordsApart(pending) /\ RecordsPlaced(pending)
  /\ phase = "writing" => FramesApart(stack) /\ RecordsWritten(pending, stack)
  /\ phase = "committing" => AllWritten(stack)

LEMMA FrameFacts ==
  ASSUME NEW f \in Frames
  PROVE  Start(f) \in Nat /\ End(f) \in Nat /\ f.block \in Nat /\ f.block <= Start(f)
<1>1. f.block \in Nat /\ f.next \in Nat \ {0} /\ f.items \in Seq(Objects)
  BY DEF Frames
<1>2. Len(f.items) \in Nat
  BY <1>1
<1>3. PICK b \in Nat, m \in Nat, n \in Nat \ {0} : b = f.block /\ m = Len(f.items) /\ n = f.next
  BY <1>1, <1>2
<1>4. b + (n - 1) * 12 \in Nat /\ b + m * 12 \in Nat /\ b <= b + (n - 1) * 12
  OBVIOUS
<1> QED
  BY <1>3, <1>4 DEF Start, End, ValueSize

LEMMA OpenRecordFacts ==
  ASSUME NEW a
  PROVE  OpenRecord(a) <=> \E i \in DOMAIN stack : Start(stack[i]) <= a /\ a < End(stack[i])
BY DEF OpenRecord, Start, End

\* Only the words at an address are changed by writing there.
LEMMA PutChanges ==
  ASSUME NEW mem \in [Index -> Int], NEW words \in Seq(Int), NEW at \in Nat, at % Word = 0,
         NEW w \in Index, Put(mem, at, words)[w] # mem[w]
  PROVE  at <= w * Word /\ w * Word < at + Len(words) * Word
<1>1. w - at \div Word + 1 \in DOMAIN words
  BY DEF Put
<1>2. PICK k \in Nat : at = 4 * k
  BY DEF Word
<1>3. at \div Word = k
  BY <1>2 DEF Word
<1>4. PICK n \in Nat : n = Len(words) /\ DOMAIN words = 1 .. n
  OBVIOUS
<1>5. w \in Int
  BY RegionFacts DEF Index, Word
<1> QED
  BY <1>1, <1>2, <1>3, <1>4, <1>5 DEF Word

LEMMA PutTextChanges ==
  ASSUME NEW mem \in [Index -> Int], NEW n \in Nat, NEW x \in Int, NEW at \in Nat, at % Word = 0
  PROVE  /\ PutText(mem, at, n, x) \in [Index -> Int]
         /\ \A w \in Index : PutText(mem, at, n, x)[w] # mem[w] =>
              at <= w * Word /\ w * Word < at + n
<1>1. PICK k \in Nat : k = Words(n)
  BY AlignedFacts
<1>2. PICK words \in Seq(Int) : words = [i \in 1 .. k |-> x] /\ Len(words) = k
  <2>1. [i \in 1 .. k |-> x] \in Seq(Int) /\ Len([i \in 1 .. k |-> x]) = k
    OBVIOUS
  <2> QED
    BY <2>1, Zenon
<1>3. PutText(mem, at, n, x) = Put(mem, at, words)
  BY <1>1, <1>2 DEF PutText
<1>4. ASSUME NEW w \in Index, PutText(mem, at, n, x)[w] # mem[w]
      PROVE  at <= w * Word /\ w * Word < at + n
  <2>1. at <= w * Word /\ w * Word < at + k * Word
    BY <1>2, <1>3, <1>4, PutChanges
  <2>2. w \in Int
    BY RegionFacts DEF Index, Word
  <2>3. k * 4 <= n + 3
    BY <1>1 DEF Words, Aligned, Word
  <2>4. PICK b \in Nat : at = 4 * b
    BY DEF Word
  <2>5. 4 * b <= w * 4 /\ w * 4 < 4 * b + k * 4
    BY <2>1, <2>4 DEF Word
  <2>6. w + 1 <= b + k
    BY <2>2, <2>5
  <2>7. w * 4 < 4 * b + n
    BY <2>2, <2>3, <2>6
  <2> QED
    BY <2>4, <2>5, <2>7 DEF Word
<1>5. PutText(mem, at, n, x) \in [Index -> Int]
  <2>1. Put(mem, at, words) \in [Index -> Int]
    BY PutType
  <2> QED
    BY <1>3, <2>1
<1> QED
  BY <1>4, <1>5

\* A step of the walk that succeeds: what it writes is its record and what it allocates,
\* which may be the block of another frame instead.
WalksOn(o) ==
  /\ Walks(o)
  /\ phase' = "writing" /\ committed' = committed
  /\ arena'.offset \in Nat /\ arena'.offset >= arena.offset
  /\ \/ stack' = Advanced
     \/ \E f \in Frames : f.block >= Base + arena.offset /\ stack' = Append(Advanced, f)
  /\ \/ pending' = pending
     \/ \E r \in Records : r.at = RecordAt /\ pending' = Append(pending, r)
  /\ \A w \in Index : region'[w] # region[w] =>
       \/ RecordAt <= w * Word /\ w * Word < RecordAt + ValueSize
       \/ /\ Base + arena.offset <= w * Word /\ w * Word < Base + arena'.offset
          /\ stack' = Advanced

\* A record is three words where the next one goes.
LEMMA RecordChanges ==
  ASSUME IInv, NEW o, Walks(o), NEW kind \in Int, NEW w1 \in Int, NEW w2 \in Int,
         NEW w \in Index, Put(region, RecordAt, Record(kind, w1, w2))[w] # region[w]
  PROVE  RecordAt <= w * Word /\ w * Word < RecordAt + ValueSize
<1>1. RecordAt \in Nat /\ RecordAt % Word = 0 /\ region \in [Index -> Int]
  BY WalkFacts DEF IInv, Typed
<1>2. Record(kind, w1, w2) \in Seq(Int) /\ Len(Record(kind, w1, w2)) = 3
  BY RecordType
<1>3. RecordAt <= w * Word /\ w * Word < RecordAt + 3 * Word
  BY <1>1, <1>2, PutChanges
<1> QED
  BY <1>3 DEF Word, ValueSize

LEMMA WriteIntOn ==
  ASSUME IInv, NEW o, WriteInt(o)
  PROVE  WalksOn(o)
<1>1. /\ Walks(o) /\ o \in Ints /\ phase = "writing" /\ phase' = phase
      /\ region' = Put(region, RecordAt, Record(KindInt, o, 0))
      /\ arena' = arena /\ stack' = Advanced /\ pending' = pending /\ committed' = committed
  BY DEF WriteInt, Walks, Writes, outside
<1>2. o \in Int /\ KindInt \in Int /\ 0 \in Int
  BY <1>1, WalkFacts, ObjectFacts DEF KindInt
<1>3. arena.offset \in Nat
  BY RegionFacts DEF IInv, Typed
<1>4. ASSUME NEW w \in Index, region'[w] # region[w]
      PROVE  RecordAt <= w * Word /\ w * Word < RecordAt + ValueSize
  BY <1>1, <1>2, <1>4, RecordChanges
<1> QED
  BY <1>1, <1>3, <1>4 DEF WalksOn

LEMMA WriteStrOn ==
  ASSUME IInv, NEW o, WriteStr(o), phase' = "writing"
  PROVE  WalksOn(o)
<1> DEFINE n == Length[o]
<1>1. Walks(o) /\ phase = "writing" /\ committed' = committed
  BY DEF WriteStr, Walks, outside
<1>2. /\ arena \in [offset : 0 .. Capacity, overflowed : BOOLEAN] /\ arena.offset \in Nat
      /\ region \in [Index -> Int]
  BY RegionFacts DEF IInv, Typed
<1>3. o \in Int /\ n \in Nat /\ KindStr \in Int /\ 0 \in Int
  BY <1>1, WalkFacts, ObjectFacts DEF KindStr
<1>4. CASE n = 0
  <2>1. /\ region' = Put(region, RecordAt, Record(KindStr, 0, 0))
        /\ arena' = arena /\ stack' = Advanced /\ pending' = pending
    BY <1>4 DEF WriteStr, Writes
  <2>2. ASSUME NEW w \in Index, region'[w] # region[w]
        PROVE  RecordAt <= w * Word /\ w * Word < RecordAt + ValueSize
    BY <1>1, <1>3, <2>1, <2>2, RecordChanges
  <2> QED
    BY <1>1, <1>2, <2>1, <2>2 DEF WalksOn
<1>5. CASE n # 0
  <2> DEFINE mem == Put(region, RecordAt, Record(KindStr, n, Place(arena)))
  <2>1. Fits(arena.offset, n)
    BY <1>5 DEF WriteStr, Full
  <2>2. /\ region' = PutText(mem, Place(arena), n, o)
        /\ arena' = Bump(arena, n) /\ stack' = Advanced /\ pending' = pending
    BY <1>5, <2>1 DEF WriteStr, Writes
  <2>3. /\ Place(arena) \in Nat /\ Place(arena) % Word = 0 /\ Place(arena) >= Base + arena.offset
        /\ Place(arena) + n = Base + Bump(arena, n).offset
        /\ Bump(arena, n).offset >= arena.offset
        /\ Bump(arena, n) \in [offset : 0 .. Capacity, overflowed : BOOLEAN]
    BY <1>2, <1>3, <2>1, PlaceFacts
  <2>4. mem \in [Index -> Int]
    <3>1. PICK p \in Int, m \in Int : p = Place(arena) /\ m = n
      BY <1>3, <2>3
    <3>2. Put(region, RecordAt, Record(KindStr, m, p)) \in [Index -> Int]
      BY <1>1, <1>3, RecordStep
    <3> QED
      BY <3>1, <3>2
  <2>5. ASSUME NEW w \in Index, mem[w] # region[w]
        PROVE  RecordAt <= w * Word /\ w * Word < RecordAt + ValueSize
    BY <1>1, <1>3, <2>3, <2>5, RecordChanges
  <2> HIDE DEF mem, n
  <2>6. ASSUME NEW w \in Index, region'[w] # mem[w]
        PROVE  Place(arena) <= w * Word /\ w * Word < Place(arena) + n
    BY <1>3, <2>2, <2>3, <2>4, <2>6, PutTextChanges
  <2>7. ASSUME NEW w \in Index, region'[w] # region[w]
        PROVE  \/ RecordAt <= w * Word /\ w * Word < RecordAt + ValueSize
               \/ Base + arena.offset <= w * Word /\ w * Word < Base + arena'.offset
    <3>1. CASE mem[w] # region[w]
      BY <2>5, <3>1
    <3>2. CASE region'[w] # mem[w]
      <4>1. Place(arena) <= w * Word /\ w * Word < Place(arena) + n
        BY <2>6, <3>2
      <4>2. w * Word \in Int /\ Base + arena.offset \in Nat
        BY <1>2, RegionFacts DEF Index, Word
      <4> QED
        BY <2>2, <2>3, <4>1, <4>2
    <3> QED
      BY <2>7, <3>1, <3>2
  <2>8. arena'.offset \in Nat /\ arena'.offset >= arena.offset
    BY <2>2, <2>3, RegionFacts
  <2> QED
    BY <1>1, <2>2, <2>7, <2>8 DEF WalksOn
<1> QED
  BY <1>4, <1>5

LEMMA WriteOpaqueOn ==
  ASSUME IInv, NEW o, Walks(o), NEW attr \in Nat, NEW held, WriteOpaque(o, attr, held),
         UNCHANGED outside, phase' = "writing"
  PROVE  WalksOn(o)
<1> DEFINE n == ClassHeader + Length[o]
           at == Place(arena)
           rec == Put(region, RecordAt, Record(KindObject, 0, at + attr))
           mem == Put(rec, at, <<Length[o]>>)
<1>1. Walks(o) /\ phase = "writing" /\ committed' = committed
  BY DEF Walks, outside
<1>2. /\ arena \in [offset : 0 .. Capacity, overflowed : BOOLEAN] /\ arena.offset \in Nat
      /\ region \in [Index -> Int]
  BY RegionFacts DEF IInv, Typed
<1>3. /\ o \in Objects /\ o \in Int /\ Length[o] \in Nat /\ n \in Nat /\ n = 4 + Length[o]
      /\ KindObject \in Int /\ 0 \in Int
  BY <1>1, WalkFacts, ObjectFacts DEF KindObject, ClassHeader
<1>4. Fits(arena.offset, n)
  BY <1>1 DEF WriteOpaque, Full
<1>5. /\ region' = PutText(mem, at + ClassHeader, Length[o], o)
      /\ arena' = Bump(arena, n) /\ stack' = Advanced
      /\ pending' = Append(pending, [object |-> o, at |-> RecordAt])
  BY <1>4 DEF WriteOpaque, Writes
<1>6. /\ at \in Nat /\ at % Word = 0 /\ at >= Base + arena.offset
      /\ at + n = Base + Bump(arena, n).offset
      /\ Bump(arena, n).offset >= arena.offset
      /\ Bump(arena, n) \in [offset : 0 .. Capacity, overflowed : BOOLEAN]
  BY <1>2, <1>3, <1>4, PlaceFacts
<1>7. at + attr \in Int
  BY <1>6
<1>8. rec \in [Index -> Int]
  BY <1>1, <1>3, <1>7, RecordStep
<1>9. ASSUME NEW w \in Index, rec[w] # region[w]
      PROVE  RecordAt <= w * Word /\ w * Word < RecordAt + ValueSize
  BY <1>1, <1>3, <1>7, <1>9, RecordChanges
<1>10. <<Length[o]>> \in Seq(Int) /\ Len(<<Length[o]>>) = 1
  BY <1>3
<1> HIDE DEF rec, at
<1>11. mem \in [Index -> Int]
  BY <1>6, <1>8, <1>10, PutType
<1>12. ASSUME NEW w \in Index, mem[w] # rec[w]
       PROVE  at <= w * Word /\ w * Word < at + 4
  <2>1. at <= w * Word /\ w * Word < at + 1 * Word
    BY <1>6, <1>8, <1>10, <1>12, PutChanges
  <2> QED
    BY <2>1 DEF Word
<1> HIDE DEF mem, n
<1>13. at + ClassHeader \in Nat /\ (at + ClassHeader) % Word = 0 /\ at + ClassHeader = at + 4
  BY <1>6 DEF ClassHeader, Word
<1>14. ASSUME NEW w \in Index, region'[w] # mem[w]
       PROVE  at + 4 <= w * Word /\ w * Word < at + 4 + Length[o]
  BY <1>3, <1>5, <1>11, <1>13, <1>14, PutTextChanges
<1>15. Base + arena'.offset = at + 4 + Length[o]
  <2>1. at + (4 + Length[o]) = Base + arena'.offset
    BY <1>3, <1>5, <1>6
  <2> QED
    BY <1>3, <1>6, <2>1
<1>16. ASSUME NEW w \in Index, region'[w] # region[w]
       PROVE  \/ RecordAt <= w * Word /\ w * Word < RecordAt + ValueSize
              \/ Base + arena.offset <= w * Word /\ w * Word < Base + arena'.offset
  <2>1. CASE rec[w] # region[w]
    BY <1>9, <2>1
  <2>2. w * Word \in Int /\ Base + arena.offset \in Nat
    BY <1>2, RegionFacts DEF Index, Word
  <2>3. CASE mem[w] # rec[w]
    BY <1>3, <1>6, <1>12, <1>15, <2>2, <2>3
  <2>4. CASE region'[w] # mem[w]
    BY <1>3, <1>6, <1>14, <1>15, <2>2, <2>4
  <2> QED
    BY <1>16, <2>1, <2>3, <2>4
<1>17. arena'.offset \in Nat /\ arena'.offset >= arena.offset
  BY <1>5, <1>6, RegionFacts
<1>18. [object |-> o, at |-> RecordAt] \in Records
  BY <1>1, <1>3, WalkFacts DEF Records
<1> QED
  BY <1>1, <1>5, <1>16, <1>17, <1>18 DEF WalksOn

LEMMA WriteContainerOn ==
  ASSUME IInv, NEW o, WriteContainer(o), phase' = "writing"
  PROVE  WalksOn(o)
<1> DEFINE held == contents[o]
           n == Len(held) * ValueSize
           count == IF o \in Dicts THEN Len(held) \div 2 ELSE Len(held)
           frame == [object |-> o, items |-> held, block |-> Place(arena), next |-> 1]
<1>1. Walks(o) /\ o \in Containers /\ phase = "writing" /\ committed' = committed
  BY DEF WriteContainer, Walks, outside
<1>2. /\ arena \in [offset : 0 .. Capacity, overflowed : BOOLEAN] /\ arena.offset \in Nat
      /\ held \in Seq(Objects) /\ o \in Objects
  BY <1>1, WalkFacts, RegionFacts DEF IInv, Typed
<1>3. Len(held) \in Nat /\ n \in Nat /\ count \in Int /\ KindOf(o) \in Int
  BY <1>2, KindType DEF ValueSize
<1>4. Fits(arena.offset, n)
  BY <1>1 DEF WriteContainer, Full
<1>5. /\ region' = Put(region, RecordAt, Record(KindOf(o), count, Place(arena)))
      /\ arena' = Bump(arena, n) /\ stack' = Append(Advanced, frame) /\ pending' = pending
  BY <1>4 DEF WriteContainer, Writes
<1>6. /\ Place(arena) \in Nat /\ Place(arena) >= Base + arena.offset
      /\ Bump(arena, n).offset >= arena.offset
      /\ Bump(arena, n) \in [offset : 0 .. Capacity, overflowed : BOOLEAN]
  BY <1>2, <1>3, <1>4, PlaceFacts
<1>7. frame \in Frames /\ frame.block >= Base + arena.offset
  BY <1>2, <1>6 DEF Frames
<1>8. arena'.offset \in Nat /\ arena'.offset >= arena.offset
  BY <1>5, <1>6, RegionFacts
<1> HIDE DEF count, n, frame
<1>9. ASSUME NEW w \in Index, region'[w] # region[w]
      PROVE  RecordAt <= w * Word /\ w * Word < RecordAt + ValueSize
  BY <1>1, <1>3, <1>5, <1>6, <1>9, RecordChanges
<1> QED
  BY <1>1, <1>5, <1>7, <1>8, <1>9 DEF WalksOn

\* What the walk has under way, before and after a step of it.
LEMMA TopFacts ==
  ASSUME IInv, NEW o, Walks(o)
  PROVE  /\ stack \in Seq(Frames) /\ Len(stack) \in DOMAIN stack
         /\ RecordAt = Start(stack[Len(stack)])
         /\ RecordAt + ValueSize <= End(stack[Len(stack)])
         /\ Advanced \in Seq(Frames) /\ Len(Advanced) = Len(stack)
         /\ \A i \in DOMAIN stack : i # Len(stack) => Advanced[i] = stack[i]
         /\ Advanced[Len(stack)].block = stack[Len(stack)].block
         /\ Start(Advanced[Len(stack)]) = RecordAt + ValueSize
         /\ End(Advanced[Len(stack)]) = End(stack[Len(stack)])
<1>1. stack \in Seq(Frames) /\ stack # <<>>
  BY WalkFacts DEF IInv, Typed
<1>2. PICK top \in DOMAIN stack : top = Len(stack)
  BY <1>1
<1>3. PICK f \in Frames : f = stack[top] /\ f = Top
  BY <1>1, <1>2 DEF Top
<1>4. PICK b \in Nat, m \in Nat, n \in Nat \ {0} : b = f.block /\ m = Len(f.items) /\ n = f.next
  <2>1. f.block \in Nat /\ f.next \in Nat \ {0} /\ f.items \in Seq(Objects)
    BY DEF Frames
  <2> QED
    BY <2>1
<1>5. n <= m
  BY <1>3, <1>4 DEF Walks, Items
<1>6. RecordAt = b + (n - 1) * 12 /\ RecordAt = Start(f)
  BY <1>3, <1>4 DEF RecordAt, Start, ValueSize
<1>7. End(f) = b + m * 12 /\ RecordAt + 12 <= End(f)
  <2>1. End(f) = b + m * 12
    BY <1>4 DEF End, ValueSize
  <2>2. b + (n - 1) * 12 + 12 <= b + m * 12
    BY <1>5
  <2> QED
    BY <1>6, <2>1, <2>2
<1>8. PICK g \in Frames : g = [f EXCEPT !.next = n + 1]
  <2>1. n + 1 \in Nat \ {0}
    OBVIOUS
  <2>2. [f EXCEPT !.next = n + 1] \in Frames
    BY <2>1 DEF Frames
  <2> QED
    BY <2>2
<1>9. g.block = b /\ g.items = f.items /\ g.next = n + 1
  BY <1>4, <1>8 DEF Frames
<1>10. Start(g) = RecordAt + 12 /\ End(g) = End(f)
  <2>1. Start(g) = b + n * 12
    BY <1>9 DEF Start, ValueSize
  <2>2. b + n * 12 = b + (n - 1) * 12 + 12
    OBVIOUS
  <2>3. End(g) = End(f)
    BY <1>4, <1>9 DEF End
  <2> QED
    BY <1>6, <2>1, <2>2, <2>3
<1>11. Advanced = [stack EXCEPT ![top] = g]
  BY <1>2, <1>3, <1>4, <1>8 DEF Advanced
<1>12. /\ Advanced \in Seq(Frames) /\ Len(Advanced) = Len(stack) /\ Advanced[top] = g
       /\ \A i \in DOMAIN stack : i # top => Advanced[i] = stack[i]
  BY <1>1, <1>11
<1> QED
  BY <1>1, <1>2, <1>3, <1>4, <1>6, <1>7, <1>9, <1>10, <1>12 DEF ValueSize

\* Every frame after the step is one there was, the top one a record further on, or new.
LEMMA FramesOn ==
  ASSUME IInv, NEW o, WalksOn(o), NEW i \in DOMAIN stack'
  PROVE  \/ /\ i \in DOMAIN stack /\ i # Len(stack) /\ stack'[i] = stack[i]
         \/ /\ i = Len(stack) /\ stack'[i].block = stack[i].block
            /\ Start(stack'[i]) = RecordAt + ValueSize /\ End(stack'[i]) = End(stack[i])
         \/ /\ i = Len(stack) + 1 /\ stack' # Advanced /\ stack'[i] \in Frames
            /\ stack'[i].block >= Base + arena.offset
<1>1. Walks(o)
  BY DEF WalksOn
<1>2. PICK s \in Seq(Frames), t \in Seq(Frames) :
        /\ s = stack /\ t = Advanced /\ Len(t) = Len(s)
        /\ \A j \in DOMAIN s : j # Len(s) => t[j] = s[j]
  BY <1>1, TopFacts
<1>3. /\ t[Len(s)].block = s[Len(s)].block
      /\ Start(t[Len(s)]) = RecordAt + ValueSize /\ End(t[Len(s)]) = End(s[Len(s)])
  BY <1>1, <1>2, TopFacts
<1>4. ASSUME NEW j \in DOMAIN t
      PROVE  \/ j \in DOMAIN s /\ j # Len(s) /\ t[j] = s[j]
             \/ /\ j = Len(s) /\ t[j].block = s[j].block
                /\ Start(t[j]) = RecordAt + ValueSize /\ End(t[j]) = End(s[j])
  BY <1>2, <1>3
<1>5. CASE stack' = t
  BY <1>2, <1>4, <1>5
<1>6. CASE stack' # t
  <2>1. PICK f \in Frames : f.block >= Base + arena.offset /\ stack' = Append(t, f)
    BY <1>2, <1>6 DEF WalksOn
  <2>2. /\ DOMAIN stack' = 1 .. Len(s) + 1 /\ stack'[Len(s) + 1] = f
        /\ \A j \in DOMAIN t : stack'[j] = t[j]
        /\ DOMAIN t = 1 .. Len(s) /\ Len(s) \in Nat
    BY <1>2, <2>1
  <2>3. CASE i = Len(s) + 1
    BY <1>2, <1>6, <2>1, <2>2, <2>3
  <2>4. CASE i \in DOMAIN t
    BY <1>2, <1>4, <2>2, <2>4
  <2> QED
    BY <2>2, <2>3, <2>4
<1> QED
  BY <1>5, <1>6

LEMMA PendingOn ==
  ASSUME IInv, NEW o, WalksOn(o), NEW k \in DOMAIN pending'
  PROVE  \/ k \in DOMAIN pending /\ pending'[k] = pending[k]
         \/ k = Len(pending) + 1 /\ pending'[k].at = RecordAt
<1>1. PICK p \in Seq(Records) : p = pending
  BY DEF IInv, Typed
<1>2. CASE pending' = p
  BY <1>1, <1>2
<1>3. CASE \E r \in Records : r.at = RecordAt /\ pending' = Append(p, r)
  <2>1. PICK r \in Records : r.at = RecordAt /\ pending' = Append(p, r)
    BY <1>3
  <2>2. k \in 1 .. Len(p) + 1 /\ Len(p) \in Nat /\ DOMAIN p = 1 .. Len(p)
    BY <2>1
  <2> QED
    BY <1>1, <2>1, <2>2
<1> QED
  BY <1>1, <1>2, <1>3 DEF WalksOn

LEMMA FramesUsed ==
  ASSUME IInv, phase = "writing"
  PROVE  \A i \in DOMAIN stack :
           /\ Start(stack[i]) \in Nat /\ End(stack[i]) \in Nat /\ stack[i].block \in Nat
           /\ stack[i].block <= Start(stack[i]) /\ End(stack[i]) <= Base + arena.offset
<1> SUFFICES ASSUME NEW i \in DOMAIN stack
             PROVE  /\ Start(stack[i]) \in Nat /\ End(stack[i]) \in Nat /\ stack[i].block \in Nat
                    /\ stack[i].block <= Start(stack[i]) /\ End(stack[i]) <= Base + arena.offset
  OBVIOUS
<1>1. stack \in Seq(Frames) /\ WritingSound
  BY DEF IInv, Typed, Phased
<1>2. stack[i] \in Frames
  BY <1>1
<1>3. BlockSound(stack[i].block, Len(stack[i].items), arena.offset)
  BY <1>1 DEF WritingSound, FramesSound
<1> QED
  BY <1>2, <1>3, FrameFacts DEF BlockSound, End

LEMMA PendingUsed ==
  ASSUME IInv, phase = "writing"
  PROVE  \A k \in DOMAIN pending :
           pending[k].at \in Nat /\ pending[k].at + 12 <= Base + arena.offset
<1>1. pending \in Seq(Records) /\ RecordsBelow(pending, Base + arena.offset)
  BY DEF IInv, Typed, Phased, WritingSound
<1>2. ASSUME NEW k \in DOMAIN pending  PROVE pending[k].at \in Nat
  <2>1. pending[k] \in Records
    BY <1>1
  <2> QED
    BY <2>1 DEF Records
<1> QED
  BY <1>1, <1>2 DEF RecordsBelow, ValueSize

\* The same of the frames after a step, told by numbers.
LEMMA FramesOnUsed ==
  ASSUME IInv, NEW o, WalksOn(o), NEW i \in DOMAIN stack'
  PROVE  \/ i \in DOMAIN stack /\ i # Len(stack) /\ stack'[i] = stack[i]
         \/ /\ i = Len(stack) /\ stack'[i].block = stack[i].block
            /\ Start(stack'[i]) = RecordAt + ValueSize /\ End(stack'[i]) = End(stack[i])
         \/ /\ i = Len(stack) + 1 /\ stack' # Advanced
            /\ stack'[i].block \in Nat /\ stack'[i].block >= Base + arena.offset
            /\ Start(stack'[i]) \in Nat /\ Start(stack'[i]) >= Base + arena.offset
<1>1. Base + arena.offset \in Nat
  BY RegionFacts DEF IInv, Typed
<1>2. CASE /\ i = Len(stack) + 1 /\ stack' # Advanced /\ stack'[i] \in Frames
           /\ stack'[i].block >= Base + arena.offset
  BY <1>1, <1>2, FrameFacts
<1> QED
  BY <1>2, FramesOn

\* A step of the walk keeps the frames apart, and the records of handles from them.
LEMMA WalksOnApart ==
  ASSUME IInv, Apart, NEW o, WalksOn(o)
  PROVE  Apart'
<1>1. Walks(o) /\ phase = "writing" /\ phase' = "writing"
  BY DEF WalksOn, Walks
<1>2. /\ RecordsApart(pending) /\ RecordsPlaced(pending)
      /\ FramesApart(stack) /\ RecordsWritten(pending, stack)
  BY <1>1 DEF Apart
<1> DEFINE top == Len(stack)
           used == Base + arena.offset
<1>3. /\ top \in DOMAIN stack /\ RecordAt = Start(stack[top])
      /\ RecordAt + 12 <= End(stack[top])
      /\ RecordAt \in Nat /\ (RecordAt = Base \/ RecordAt >= Base + TransferSize)
  BY <1>1, TopFacts, WalkFacts DEF ValueSize
<1>4. \A i \in DOMAIN stack :
        /\ Start(stack[i]) \in Nat /\ End(stack[i]) \in Nat /\ stack[i].block \in Nat
        /\ stack[i].block <= Start(stack[i]) /\ End(stack[i]) <= used
  BY <1>1, FramesUsed
<1>5. used \in Nat
  BY RegionFacts DEF IInv, Typed
<1>6. \A k \in DOMAIN pending : pending[k].at \in Nat /\ pending[k].at + 12 <= used
  BY <1>1, PendingUsed
<1> HIDE DEF top, used
<1>7. ASSUME NEW i \in DOMAIN stack'
      PROVE  \/ i \in DOMAIN stack /\ i # top /\ stack'[i] = stack[i]
             \/ /\ i = top /\ stack'[i].block = stack[i].block
                /\ Start(stack'[i]) = RecordAt + 12 /\ End(stack'[i]) = End(stack[i])
             \/ /\ i = top + 1 /\ stack'[i].block \in Nat /\ stack'[i].block >= used
                /\ Start(stack'[i]) \in Nat /\ Start(stack'[i]) >= used
  BY FramesOnUsed DEF top, used, ValueSize
<1>8. \A i \in DOMAIN stack : i <= top /\ i \in Nat /\ top \in Nat
  BY DEF IInv, Typed, top
<1>9. \A i \in DOMAIN stack : i < top => End(stack[i]) <= RecordAt
  <2> SUFFICES ASSUME NEW i \in DOMAIN stack, i < top  PROVE End(stack[i]) <= RecordAt
    OBVIOUS
  <2>1. End(stack[i]) <= stack[top].block
    BY <1>2, <1>3 DEF FramesApart
  <2> QED
    BY <1>3, <1>4, <2>1
<1>10. FramesApart(stack')
  <2> SUFFICES ASSUME NEW i \in DOMAIN stack', NEW j \in DOMAIN stack', i < j
               PROVE  End(stack'[i]) <= stack'[j].block
    BY DEF FramesApart
  <2>1. i \in DOMAIN stack /\ End(stack'[i]) = End(stack[i])
    <3>1. j <= top + 1 /\ top \in Nat
      BY <1>3, <1>7, <1>8
    <3>2. i # top + 1
      BY <1>3, <1>7, <1>8, <3>1
    <3> QED
      BY <1>3, <1>7, <3>2
  <2>2. CASE j \in DOMAIN stack
    <3>1. stack'[j].block = stack[j].block
      BY <1>7, <1>8, <2>2
    <3> QED
      BY <1>2, <2>1, <2>2, <3>1 DEF FramesApart
  <2>3. CASE j = top + 1 /\ stack'[j].block \in Nat /\ stack'[j].block >= used
    BY <1>4, <1>5, <2>1, <2>3
  <2> QED
    BY <1>3, <1>7, <2>2, <2>3
<1>11. ASSUME NEW k \in DOMAIN pending'
       PROVE  \/ k \in DOMAIN pending /\ pending'[k] = pending[k]
              \/ k = Len(pending) + 1 /\ pending'[k].at = RecordAt
  BY PendingOn
<1>12. RecordsWritten(pending', stack')
  <2> SUFFICES ASSUME NEW k \in DOMAIN pending', NEW i \in DOMAIN stack'
               PROVE  \/ pending'[k].at + 12 <= Start(stack'[i])
                      \/ pending'[k].at >= End(stack'[i])
    BY DEF RecordsWritten, ValueSize
  <2>1. CASE k \in DOMAIN pending /\ pending'[k] = pending[k]
    <3>1. \A j \in DOMAIN stack :
            pending[k].at + 12 <= Start(stack[j]) \/ pending[k].at >= End(stack[j])
      BY <1>2, <2>1 DEF RecordsWritten, ValueSize
    <3>2. pending[k].at \in Nat /\ pending[k].at + 12 <= used
      BY <1>6, <2>1
    <3> QED
      BY <1>3, <1>4, <1>5, <1>7, <2>1, <3>1, <3>2
  <2>2. CASE pending'[k].at = RecordAt
    <3>1. CASE i \in DOMAIN stack /\ i # top /\ stack'[i] = stack[i]
      <4>1. End(stack[i]) <= RecordAt
        BY <1>8, <1>9, <3>1
      <4> QED
        BY <2>2, <3>1, <4>1
    <3>2. CASE Start(stack'[i]) = RecordAt + 12
      BY <1>3, <2>2, <3>2
    <3>3. CASE Start(stack'[i]) \in Nat /\ Start(stack'[i]) >= used
      BY <1>3, <1>4, <1>5, <2>2, <3>3
    <3> QED
      BY <1>7, <3>1, <3>2, <3>3
  <2> QED
    BY <1>11, <2>1, <2>2
<1>13. RecordsApart(pending')
  <2> SUFFICES ASSUME NEW j \in DOMAIN pending', NEW k \in DOMAIN pending', j < k
               PROVE  \/ pending'[j].at + 12 <= pending'[k].at
                      \/ pending'[k].at + 12 <= pending'[j].at
    BY DEF RecordsApart, ValueSize
  <2>1. \A m \in DOMAIN pending : m \in Nat /\ m <= Len(pending) /\ Len(pending) \in Nat
    BY DEF IInv, Typed
  <2>2. j \in DOMAIN pending /\ pending'[j] = pending[j]
    BY <1>11, <2>1
  <2>3. CASE k \in DOMAIN pending /\ pending'[k] = pending[k]
    BY <1>2, <2>2, <2>3 DEF RecordsApart, ValueSize
  <2>4. CASE pending'[k].at = RecordAt
    <3>1. \/ pending[j].at + 12 <= Start(stack[top])
          \/ pending[j].at >= End(stack[top])
      BY <1>2, <1>3, <2>2 DEF RecordsWritten, ValueSize
    <3>2. pending[j].at \in Nat /\ End(stack[top]) \in Nat
      BY <1>3, <1>4, <1>6, <2>2
    <3> QED
      BY <1>3, <2>2, <2>4, <3>1, <3>2
  <2> QED
    BY <1>11, <2>3, <2>4
<1>14. RecordsPlaced(pending')
  BY <1>2, <1>3, <1>11 DEF RecordsPlaced
<1> QED
  BY <1>1, <1>10, <1>12, <1>13, <1>14 DEF Apart

LEMMA WordFacts ==
  ASSUME NEW w \in Index
  PROVE  w * Word \in Nat
BY RegionFacts DEF Index, Word

\* The words of the next record and, if no frame takes them, of what is allocated.
Fresh(w) ==
  \/ RecordAt <= w * Word /\ w * Word < RecordAt + ValueSize
  \/ Base + arena.offset <= w * Word /\ w * Word < Base + arena'.offset /\ stack' = Advanced

\* A step of the walk writes where nothing final is, and what it writes is final, or an id.
LEMMA WalksOnFinal ==
  ASSUME IInv, Apart, NEW o, WalksOn(o)
  PROVE  StepIsFinal /\ \A w \in Index : Fresh(w) /\ ~OpenId(w * Word)' => Final(w)'
<1>1. Walks(o) /\ phase = "writing" /\ phase' = "writing" /\ committed' = committed
  BY DEF WalksOn, Walks
<1>2. RecordsWritten(pending, stack) /\ FramesApart(stack)
  BY <1>1 DEF Apart
<1> DEFINE top == Len(stack)
           used == Base + arena.offset
           more == Base + arena'.offset
<1>3. /\ top \in DOMAIN stack /\ RecordAt = Start(stack[top])
      /\ RecordAt + 12 <= End(stack[top])
      /\ RecordAt \in Nat /\ (RecordAt = Base \/ RecordAt >= Base + 20)
  BY <1>1, TopFacts, WalkFacts DEF ValueSize, TransferSize
<1>4. \A i \in DOMAIN stack :
        /\ Start(stack[i]) \in Nat /\ End(stack[i]) \in Nat /\ stack[i].block \in Nat
        /\ stack[i].block <= Start(stack[i]) /\ End(stack[i]) <= used
  BY <1>1, FramesUsed
<1>5. used \in Nat /\ more \in Nat /\ used <= more /\ used >= Base + 20 /\ Base \in Nat
  <2>1. arena.offset \in Nat /\ arena.offset >= 20 /\ Base \in Nat
    BY <1>1, RegionFacts DEF IInv, Typed, Phased, WritingSound, TransferSize
  <2>2. arena'.offset \in Nat /\ arena'.offset >= arena.offset
    BY DEF WalksOn
  <2> QED
    BY <2>1, <2>2
<1>6. \A k \in DOMAIN pending : pending[k].at \in Nat /\ pending[k].at + 12 <= used
  BY <1>1, PendingUsed
<1>7. \A w \in Index : region'[w] # region[w] =>
        \/ RecordAt <= w * Word /\ w * Word < RecordAt + 12
        \/ used <= w * Word /\ w * Word < more /\ stack' = Advanced
  BY DEF WalksOn, ValueSize
<1> HIDE DEF top, used, more
<1>8. ASSUME NEW i \in DOMAIN stack'
      PROVE  \/ i \in DOMAIN stack /\ i # top /\ stack'[i] = stack[i]
             \/ /\ i = top /\ Start(stack'[i]) = RecordAt + 12 /\ End(stack'[i]) = End(stack[i])
             \/ /\ stack' # Advanced
                /\ Start(stack'[i]) \in Nat /\ Start(stack'[i]) >= used
  BY FramesOnUsed DEF top, used, ValueSize
<1>9. \A i \in DOMAIN stack : i # top => End(stack[i]) <= RecordAt
  <2> SUFFICES ASSUME NEW i \in DOMAIN stack, i # top  PROVE End(stack[i]) <= RecordAt
    OBVIOUS
  <2>1. i < top
    BY DEF IInv, Typed, top
  <2>2. End(stack[i]) <= stack[top].block
    BY <1>2, <1>3, <2>1 DEF FramesApart
  <2> QED
    BY <1>3, <1>4, <2>2
<1>10. DOMAIN region = Index
  BY DEF IInv, Typed
<1> SUFFICES ASSUME NEW w \in Index
             PROVE  /\ Final(w) => Final(w)' /\ region'[w] = region[w]
                    /\ region'[w] # region[w] =>
                         Final(w)' \/ (phase = "writing" /\ OpenId(w * Word)')
                    /\ phase' = "written" /\ w * Word < Base + arena'.offset => Final(w)'
                    /\ Fresh(w) /\ ~OpenId(w * Word)' => Final(w)'
  BY <1>10 DEF StepIsFinal
<1>11. PICK a \in Nat : a = w * Word
  BY WordFacts
<1>12. ~OpenEntry(a)' /\ (OpenHeader(a)' <=> OpenHeader(a))
  BY <1>1 DEF OpenEntry, OpenHeader
<1>13. Final(w)' <=> a < more /\ ~OpenRecord(a)' /\ ~OpenId(a)' /\ ~OpenHeader(a)
  BY <1>11, <1>12 DEF Final, more
<1>14. OpenRecord(a)' <=>
         \E i \in DOMAIN stack' : Start(stack'[i]) <= a /\ a < End(stack'[i])
  BY DEF OpenRecord, Start, End
<1>15. OpenHeader(a) <=> Base + 12 <= a /\ a < Base + 20
  BY <1>1 DEF OpenHeader, ValueSize, TransferSize
<1>16. Final(w) => Final(w)' /\ region'[w] = region[w]
  <2> SUFFICES ASSUME Final(w)  PROVE Final(w)' /\ region'[w] = region[w]
    OBVIOUS
  <2>1. a < used /\ ~OpenRecord(a) /\ ~OpenId(a) /\ ~OpenHeader(a)
    BY <1>11 DEF Final, used
  <2>2. \A i \in DOMAIN stack : a < Start(stack[i]) \/ a >= End(stack[i])
    BY <1>4, <2>1, OpenRecordFacts
  <2>3. a < RecordAt \/ a >= RecordAt + 12
    BY <1>3, <1>4, <2>2
  <2>4. region'[w] = region[w]
    BY <1>3, <1>5, <1>7, <1>11, <2>1, <2>3
  <2>5. ~OpenRecord(a)'
    <3> SUFFICES ASSUME NEW i \in DOMAIN stack', Start(stack'[i]) <= a, a < End(stack'[i])
                 PROVE  FALSE
      BY <1>14
    <3>1. CASE i \in DOMAIN stack /\ i # top /\ stack'[i] = stack[i]
      BY <1>4, <2>2, <3>1
    <3>2. CASE i = top /\ Start(stack'[i]) = RecordAt + 12 /\ End(stack'[i]) = End(stack[i])
      <4>1. a < RecordAt \/ a >= End(stack[top])
        BY <1>3, <2>2
      <4> QED
        BY <1>3, <1>4, <3>2, <4>1
    <3>3. CASE Start(stack'[i]) \in Nat /\ Start(stack'[i]) >= used
      BY <1>5, <2>1, <3>3
    <3> QED
      BY <1>8, <3>1, <3>2, <3>3
  <2>6. ~OpenId(a)'
    <3> SUFFICES ASSUME NEW k \in DOMAIN pending', k > committed, a = pending'[k].at + 4
                 PROVE  FALSE
      BY <1>1 DEF OpenId, Word
    <3>1. CASE k \in DOMAIN pending /\ pending'[k] = pending[k]
      BY <2>1, <3>1 DEF OpenId, Word
    <3>2. CASE pending'[k].at = RecordAt
      BY <1>3, <2>3, <3>2
    <3> QED
      BY <3>1, <3>2, PendingOn
  <2> QED
    BY <1>5, <1>13, <2>1, <2>4, <2>5, <2>6
<1>17. ASSUME Fresh(w), ~OpenId(a)'
       PROVE  Final(w)'
  <2>1. CASE RecordAt <= a /\ a < RecordAt + 12
    <3>1. RecordAt + 12 <= used
      BY <1>3, <1>4, <1>5
    <3>2. a < more
      BY <1>3, <1>5, <2>1, <3>1
    <3>3. ~OpenHeader(a)
      BY <1>3, <1>5, <1>15, <2>1
    <3>4. ~OpenRecord(a)'
      <4> SUFFICES ASSUME NEW i \in DOMAIN stack', Start(stack'[i]) <= a, a < End(stack'[i])
                   PROVE  FALSE
        BY <1>14
      <4>1. CASE i \in DOMAIN stack /\ i # top /\ stack'[i] = stack[i]
        BY <1>3, <1>4, <1>9, <2>1, <4>1
      <4>2. CASE Start(stack'[i]) = RecordAt + 12
        BY <1>3, <2>1, <4>2
      <4>3. CASE Start(stack'[i]) \in Nat /\ Start(stack'[i]) >= used
        BY <1>3, <1>5, <2>1, <3>1, <4>3
      <4> QED
        BY <1>8, <4>1, <4>2, <4>3
    <3> QED
      BY <1>13, <1>17, <3>2, <3>3, <3>4
  <2>2. CASE used <= a /\ a < more /\ stack' = Advanced
    <3>1. ~OpenHeader(a)
      BY <1>5, <1>15, <2>2
    <3>2. ~OpenRecord(a)'
      <4> SUFFICES ASSUME NEW i \in DOMAIN stack', Start(stack'[i]) <= a, a < End(stack'[i])
                   PROVE  FALSE
        BY <1>14
      <4>1. i \in DOMAIN stack /\ End(stack'[i]) = End(stack[i])
        BY <1>3, <1>8, <2>2
      <4> QED
        BY <1>4, <1>5, <2>2, <4>1
    <3> QED
      BY <1>13, <1>17, <2>2, <3>1, <3>2
  <2> QED
    BY <1>11, <1>17, <2>1, <2>2 DEF Fresh, ValueSize, used, more
<1>18. region'[w] # region[w] => Fresh(w)
  BY <1>7 DEF Fresh, ValueSize, used, more
<1> QED
  BY <1>1, <1>11, <1>16, <1>17, <1>18

\* A container that is left has had all its records written; nothing else changes.
LEMMA LeaveContainerApart ==
  ASSUME IInv, Apart, LeaveContainer
  PROVE  Apart' /\ StepIsFinal
<1>1. /\ phase = "writing" /\ phase' = "writing" /\ Len(stack) > 1
      /\ stack' = SubSeq(stack, 1, Len(stack) - 1)
      /\ UNCHANGED <<region, arena, pending, ledger, committed>>
  BY DEF LeaveContainer, outside
<1>2. /\ RecordsApart(pending) /\ RecordsPlaced(pending)
      /\ FramesApart(stack) /\ RecordsWritten(pending, stack)
  BY <1>1 DEF Apart
<1>3. PICK s \in Seq(Frames) : s = stack
  BY DEF IInv, Typed
<1>4. \A i \in DOMAIN stack' : i \in DOMAIN stack /\ stack'[i] = stack[i]
  <2>1. DOMAIN SubSeq(s, 1, Len(s) - 1) = 1 .. Len(s) - 1
    BY <1>1, <1>3
  <2>2. \A i \in 1 .. Len(s) - 1 : SubSeq(s, 1, Len(s) - 1)[i] = s[i] /\ i \in DOMAIN s
    BY <1>1, <1>3
  <2> QED
    BY <1>1, <1>3, <2>1, <2>2
<1>5. Apart'
  BY <1>1, <1>2, <1>4 DEF Apart, FramesApart, RecordsWritten
<1>6. ASSUME NEW w \in DOMAIN region  PROVE Final(w) => Final(w)'
  <2>1. OpenRecord(w * Word)' => OpenRecord(w * Word)
    BY <1>4 DEF OpenRecord
  <2>2. /\ OpenId(w * Word)' <=> OpenId(w * Word)
        /\ OpenEntry(w * Word)' <=> OpenEntry(w * Word)
        /\ OpenHeader(w * Word)' <=> OpenHeader(w * Word)
    BY <1>1 DEF OpenId, OpenEntry, OpenHeader
  <2> QED
    BY <1>1, <2>1, <2>2 DEF Final
<1> QED
  BY <1>1, <1>5, <1>6 DEF StepIsFinal

\* Frames that are finished have nothing open.
LEMMA NothingOpen ==
  ASSUME Typed, AllWritten(stack), NEW a \in Nat
  PROVE  ~OpenRecord(a)
<1>1. ASSUME NEW i \in DOMAIN stack  PROVE Start(stack[i]) \in Nat /\ End(stack[i]) \in Nat
  <2>1. stack[i] \in Frames
    BY DEF Typed
  <2> QED
    BY <2>1, FrameFacts
<1> QED
  BY <1>1, OpenRecordFacts DEF AllWritten

LEMMA WalkedIsWritten ==
  ASSUME Typed, Walked
  PROVE  AllWritten(stack)
<1>1. DOMAIN stack = {1} /\ Top = stack[1] /\ stack[1] \in Frames
  <2>1. PICK s \in Seq(Frames) : s = stack
    BY DEF Typed
  <2>2. Len(s) = 1
    BY <2>1 DEF Walked
  <2>3. DOMAIN s = {1} /\ s[1] \in Frames
    BY <2>2
  <2> QED
    BY <2>1, <2>2, <2>3 DEF Top
<1>2. PICK f \in Frames : f = stack[1]
  BY <1>1
<1>3. PICK b \in Nat, m \in Nat, n \in Nat \ {0} : b = f.block /\ m = Len(f.items) /\ n = f.next
  <2>1. f.block \in Nat /\ f.next \in Nat \ {0} /\ f.items \in Seq(Objects)
    BY DEF Frames
  <2> QED
    BY <2>1
<1>4. n > m
  BY <1>1, <1>2, <1>3 DEF Walked, Items
<1>5. b + (n - 1) * 12 >= b + m * 12
  BY <1>4
<1> QED
  BY <1>1, <1>2, <1>3, <1>5 DEF AllWritten, Start, End, ValueSize

LEMMA ReserveLedgerApart ==
  ASSUME IInv, Apart, ReserveLedger
  PROVE  Apart' /\ StepIsFinal
<1> DEFINE n == Len(pending) * EntrySize
           used == Base + arena.offset
<1>1. Walked /\ phase = "writing" /\ UNCHANGED <<region, stack, pending, committed>>
  BY DEF ReserveLedger, Walked
<1>2. AllWritten(stack)
  BY <1>1, WalkedIsWritten DEF IInv
<1>3. Apart'
  BY <1>1, <1>2 DEF Apart, ReserveLedger
<1>4. /\ committed = 0 /\ arena \in [offset : 0 .. Capacity, overflowed : BOOLEAN]
      /\ n \in Nat /\ used \in Nat /\ DOMAIN region = Index
  BY <1>1, RegionFacts DEF IInv, Typed, Phased, WritingSound, EntrySize
<1> SUFFICES ASSUME NEW w \in Index
             PROVE  /\ Final(w) => Final(w)'
                    /\ phase' = "written" /\ w * Word < Base + arena'.offset => Final(w)'
  BY <1>1, <1>3, <1>4 DEF StepIsFinal
<1>5. PICK a \in Nat : a = w * Word
  BY WordFacts
<1>6. /\ ~OpenRecord(a)' /\ (OpenId(a)' <=> OpenId(a))
      /\ Final(w) => a < used /\ ~OpenId(a) /\ ~OpenHeader(a)
  <2>1. ~OpenRecord(a)
    BY <1>2, NothingOpen DEF IInv
  <2>2. OpenRecord(a)' <=> OpenRecord(a)
    BY <1>1 DEF OpenRecord
  <2>3. OpenId(a)' <=> OpenId(a)
    BY <1>1 DEF OpenId
  <2> QED
    BY <1>5, <2>1, <2>2, <2>3 DEF Final
<1>7. CASE pending = <<>>
  <2>1. phase' = "written" /\ arena' = arena
    BY <1>7 DEF ReserveLedger
  <2>2. ~OpenId(a) /\ ~OpenEntry(a)' /\ ~OpenHeader(a)'
    BY <1>7, <2>1 DEF OpenId, OpenEntry, OpenHeader
  <2> QED
    BY <1>5, <1>6, <2>1, <2>2 DEF Final
<1>8. CASE pending # <<>> /\ Fits(arena.offset, n)
  <2>1. phase' = "committing" /\ ledger' = Place(arena) /\ arena' = Bump(arena, n)
    BY <1>8 DEF ReserveLedger
  <2>2. /\ Place(arena) \in Nat /\ Place(arena) >= used
        /\ Bump(arena, n).offset >= arena.offset
        /\ Bump(arena, n) \in [offset : 0 .. Capacity, overflowed : BOOLEAN]
    BY <1>4, <1>8, PlaceFacts
  <2>3. a < used => a < Base + arena'.offset
    BY <1>4, <2>1, <2>2, RegionFacts
  <2>4. a < used => ~OpenEntry(a)'
    BY <1>1, <1>4, <2>1, <2>2 DEF OpenEntry, EntrySize
  <2>5. OpenHeader(a)' <=> OpenHeader(a)
    BY <1>1, <2>1 DEF OpenHeader
  <2> QED
    BY <1>5, <1>6, <2>1, <2>3, <2>4, <2>5 DEF Final
<1>9. CASE pending # <<>> /\ ~Fits(arena.offset, n)
  <2>1. phase' = "raised" /\ arena' = Overflow(arena)
    BY <1>9 DEF ReserveLedger
  <2>2. arena'.offset = arena.offset
    BY <1>4, <2>1, OverflowFacts
  <2>3. ~OpenEntry(a)' /\ (OpenHeader(a)' <=> OpenHeader(a))
    BY <1>1, <2>1 DEF OpenEntry, OpenHeader
  <2> QED
    BY <1>5, <1>6, <2>1, <2>2, <2>3 DEF Final
<1> QED
  BY <1>7, <1>8, <1>9

LEMMA AddRefApart ==
  ASSUME IInv, Apart, AddRef
  PROVE  Apart' /\ StepIsFinal
<1> DEFINE p == pending[committed + 1]
           entry == ledger + committed * EntrySize
           used == Base + arena.offset
           mem == Put(region, entry, <<p.object>>)
<1>1. /\ phase = "committing" /\ phase' = "committing" /\ committed < Len(pending)
      /\ committed' = committed + 1
      /\ region' = Put(mem, p.at + Word, <<p.object>>)
      /\ UNCHANGED <<arena, stack, pending, ledger>>
  BY DEF AddRef
<1>2. AllWritten(stack) /\ RecordsApart(pending) /\ RecordsPlaced(pending)
  BY <1>1 DEF Apart
<1>3. Apart'
  BY <1>1, <1>2 DEF Apart
<1>4. Typed /\ CommittingSound
  BY <1>1 DEF IInv, Phased
<1>5. /\ committed \in Nat /\ ledger \in Nat /\ used \in Nat /\ Base \in Nat
      /\ ledger % Word = 0 /\ ledger >= Base + 20
      /\ region \in [Index -> Int] /\ DOMAIN region = Index
  BY <1>4, RegionFacts DEF Typed, CommittingSound, LedgerPlaced, TransferSize
<1>6. ledger + Len(pending) * 4 <= used
  BY <1>4 DEF CommittingSound, LedgerPlaced, EntrySize
<1>7. \A k \in DOMAIN pending :
        /\ k \in Nat /\ pending[k].at \in Nat /\ pending[k].at % Word = 0
        /\ pending[k].at + 12 <= ledger /\ pending[k].object \in Int
  <2> SUFFICES ASSUME NEW k \in DOMAIN pending
               PROVE  /\ k \in Nat /\ pending[k].at \in Nat /\ pending[k].at % Word = 0
                      /\ pending[k].at + 12 <= ledger /\ pending[k].object \in Int
    OBVIOUS
  <2>1. pending[k] \in Records /\ k \in Nat
    BY <1>4 DEF Typed
  <2>2. RecordsBelow(pending, ledger)
    BY <1>4 DEF CommittingSound
  <2>3. pending[k].at \in Nat /\ pending[k].object \in Objects
    BY <2>1 DEF Records
  <2>4. pending[k].object \in Int
    <3>1. \A o \in Objects : o \in Nat
      BY RegionFacts
    <3>2. PICK o \in Objects : o = pending[k].object
      BY <2>3
    <3> QED
      BY <3>1, <3>2
  <2>5. pending[k].at % Word = 0 /\ pending[k].at + 12 <= ledger
    BY <2>2 DEF RecordsBelow, ValueSize
  <2> QED
    BY <2>1, <2>3, <2>4, <2>5
<1>8. committed + 1 \in DOMAIN pending
  BY <1>1, <1>4 DEF Typed
<1>9. entry \in Nat /\ entry % Word = 0 /\ entry = ledger + committed * 4 /\ entry + 4 <= used
  <2>1. PICK m \in Nat : m = Len(pending)
    BY <1>4 DEF Typed
  <2>2. committed + 1 <= m
    BY <1>1, <1>5, <2>1
  <2>3. PICK q \in Nat : ledger = 4 * q
    BY <1>5 DEF Word
  <2>4. ledger + committed * 4 = 4 * (q + committed) /\ q + committed \in Nat
    BY <1>5, <2>3
  <2>5. (ledger + committed * 4) % 4 = 0
    BY <2>4
  <2>6. ledger + m * 4 <= used
    BY <1>6, <2>1
  <2> QED
    BY <1>5, <2>2, <2>4, <2>5, <2>6 DEF EntrySize, Word
<1>10. \A w \in Index : region'[w] # region[w] =>
         w * Word = entry \/ w * Word = p.at + 4
  <2> SUFFICES ASSUME NEW w \in Index, region'[w] # region[w]
               PROVE  w * Word = entry \/ w * Word = p.at + 4
    OBVIOUS
  <2>1. PICK x \in Int, y \in Nat : x = p.object /\ y = p.at + Word /\ y % 4 = 0
    BY <1>7, <1>8 DEF Word
  <2>2. <<x>> \in Seq(Int) /\ Len(<<x>>) = 1
    OBVIOUS
  <2>3. mem \in [Index -> Int]
    BY <1>5, <1>9, <2>1, <2>2, PutType
  <2>4. w \in Int
    BY RegionFacts DEF Index, Word
  <2>5. CASE mem[w] # region[w]
    <3>1. mem = Put(region, entry, <<x>>)
      BY <2>1
    <3> HIDE DEF mem, entry
    <3>2. entry <= w * Word /\ w * Word < entry + Len(<<x>>) * Word
      BY <1>5, <1>9, <2>2, <2>5, <3>1, PutChanges
    <3>3. entry <= w * 4 /\ w * 4 < entry + 4
      BY <2>2, <3>2 DEF Word
    <3>4. PICK q \in Nat : entry = 4 * q
      BY <1>9 DEF Word
    <3> QED
      BY <2>4, <3>3, <3>4 DEF Word
  <2>6. CASE region'[w] # mem[w]
    <3> HIDE DEF mem
    <3>0. region' = Put(mem, y, <<x>>) /\ y % Word = 0
      BY <1>1, <2>1 DEF Word
    <3>3. y <= w * Word /\ w * Word < y + Len(<<x>>) * Word
      BY <2>1, <2>2, <2>3, <2>6, <3>0, PutChanges
    <3>1. y <= w * 4 /\ w * 4 < y + 4
      BY <2>2, <3>3 DEF Word
    <3>2. PICK q \in Nat : y = 4 * q
      BY <2>1
    <3> QED
      BY <2>1, <2>4, <3>1, <3>2 DEF Word
  <2> QED
    BY <2>5, <2>6
<1> SUFFICES ASSUME NEW w \in Index
             PROVE  /\ Final(w) => Final(w)' /\ region'[w] = region[w]
                    /\ region'[w] # region[w] => Final(w)'
  BY <1>1, <1>3, <1>5 DEF StepIsFinal
<1>11. PICK a \in Nat : a = w * Word
  BY WordFacts
<1> HIDE DEF mem, entry, used
<1>12. Final(w) <=> a < used /\ ~OpenId(a) /\ ~OpenEntry(a) /\ ~OpenHeader(a)
  BY <1>2, <1>4, <1>11, NothingOpen DEF Final, used
<1>13. Final(w)' <=> a < used /\ ~OpenId(a)' /\ ~OpenEntry(a)' /\ ~OpenHeader(a)
  <2>1. ~OpenRecord(a)
    BY <1>2, <1>4, NothingOpen
  <2>2. (OpenRecord(a)' <=> OpenRecord(a)) /\ (OpenHeader(a)' <=> OpenHeader(a))
    BY <1>1 DEF OpenRecord, OpenHeader
  <2> QED
    BY <1>1, <1>11, <2>1, <2>2 DEF Final, used
<1>14. /\ OpenId(a) <=> \E k \in DOMAIN pending : k > committed /\ a = pending[k].at + 4
       /\ OpenId(a)' <=> \E k \in DOMAIN pending : k > committed + 1 /\ a = pending[k].at + 4
       /\ OpenEntry(a) <=> entry <= a
       /\ OpenEntry(a)' <=> entry + 4 <= a
       /\ OpenHeader(a) <=> Base + 12 <= a /\ a < Base + 20
  <2>1. ledger + (committed + 1) * 4 = entry + 4
    BY <1>5, <1>9
  <2> QED
    BY <1>1, <1>9, <2>1
    DEF OpenId, OpenEntry, OpenHeader, Word, EntrySize, ValueSize, TransferSize
<1>15. ASSUME Final(w)  PROVE Final(w)' /\ region'[w] = region[w]
  <2>1. a # entry /\ a # p.at + 4
    BY <1>5, <1>8, <1>9, <1>12, <1>14, <1>15
  <2>2. region'[w] = region[w]
    BY <1>10, <1>11, <2>1
  <2>3. ~OpenId(a)' /\ ~OpenEntry(a)'
    BY <1>5, <1>7, <1>9, <1>12, <1>14, <1>15
  <2> QED
    BY <1>12, <1>13, <1>15, <2>2, <2>3
<1>16. ASSUME region'[w] # region[w]  PROVE Final(w)'
  <2>1. CASE a = entry
    <3>1. ~OpenId(a)'
      BY <1>5, <1>7, <1>9, <1>14, <2>1
    <3>2. ~OpenEntry(a)' /\ ~OpenHeader(a) /\ a < used
      BY <1>5, <1>9, <1>14, <2>1
    <3> QED
      BY <1>13, <3>1, <3>2
  <2>2. CASE a = p.at + 4
    <3>1. /\ p.at \in Nat /\ p.at + 12 <= ledger
          /\ p.at = Base \/ p.at >= Base + 20
      BY <1>2, <1>7, <1>8 DEF RecordsPlaced, TransferSize
    <3>2. ~OpenHeader(a) /\ ~OpenEntry(a)' /\ a < used
      BY <1>5, <1>9, <1>14, <2>2, <3>1
    <3>3. ~OpenId(a)'
      <4> SUFFICES ASSUME NEW k \in DOMAIN pending, k > committed + 1, a = pending[k].at + 4
                   PROVE  FALSE
        BY <1>14
      <4>1. p.at + 12 <= pending[k].at \/ pending[k].at + 12 <= p.at
        BY <1>2, <1>8 DEF RecordsApart, ValueSize
      <4> QED
        BY <1>7, <2>2, <3>1, <4>1
    <3> QED
      BY <1>13, <3>2, <3>3
  <2> QED
    BY <1>10, <1>11, <1>16, <2>1, <2>2
<1> QED
  BY <1>15, <1>16

\* The last step of a commit writes the header, and then all is written.
LEMMA FinishCommitApart ==
  ASSUME IInv, Apart, FinishCommit
  PROVE  Apart' /\ StepIsFinal
<1> DEFINE used == Base + arena.offset
<1>1. /\ phase = "committing" /\ phase' = "written" /\ committed = Len(pending)
      /\ region' = Put(region, Base + ValueSize, <<ledger, committed>>)
      /\ UNCHANGED <<arena, stack, pending, ledger, committed>>
  BY DEF FinishCommit
<1>2. AllWritten(stack)
  BY <1>1 DEF Apart
<1>3. Apart'
  BY <1>1 DEF Apart
<1>4. Typed /\ CommittingSound
  BY <1>1 DEF IInv, Phased
<1>5. /\ committed \in Nat /\ ledger \in Nat /\ used \in Nat /\ Base \in Nat
      /\ Base % Word = 0
      /\ ledger >= Base + 20 /\ ledger + Len(pending) * 4 <= used /\ Len(pending) \in Nat
      /\ region \in [Index -> Int] /\ DOMAIN region = Index
  BY <1>4, RegionFacts DEF Typed, CommittingSound, LedgerPlaced, TransferSize, EntrySize
<1>6. Base + 20 <= used
  BY <1>5
<1> SUFFICES ASSUME NEW w \in Index
             PROVE  /\ Final(w) => Final(w)' /\ region'[w] = region[w]
                    /\ region'[w] # region[w] => Final(w)'
                    /\ w * Word < used => Final(w)'
  BY <1>1, <1>3, <1>5 DEF StepIsFinal
<1>7. PICK a \in Nat : a = w * Word
  BY WordFacts
<1> HIDE DEF used
<1>8. a < used => Final(w)'
  <2>1. ~OpenRecord(a)
    BY <1>2, <1>4, NothingOpen
  <2>2. OpenRecord(a)' <=> OpenRecord(a)
    BY <1>1 DEF OpenRecord
  <2>3. ~OpenId(a)'
    <3>1. \A k \in DOMAIN pending : k <= Len(pending) /\ k \in Nat
      BY <1>4 DEF Typed
    <3> QED
      BY <1>1, <1>5, <3>1 DEF OpenId
  <2>4. ~OpenEntry(a)' /\ ~OpenHeader(a)'
    BY <1>1 DEF OpenEntry, OpenHeader
  <2> QED
    BY <1>1, <1>7, <2>1, <2>2, <2>3, <2>4 DEF Final, used
<1>9. region'[w] # region[w] => Base + 12 <= a /\ a < Base + 20
  <2> SUFFICES ASSUME region'[w] # region[w]  PROVE Base + 12 <= a /\ a < Base + 20
    OBVIOUS
  <2>1. <<ledger, committed>> \in Seq(Int) /\ Len(<<ledger, committed>>) = 2
    BY <1>5
  <2>2. Base + 12 \in Nat /\ (Base + 12) % Word = 0
    BY <1>5 DEF Word
  <2>3. Base + 12 <= w * Word /\ w * Word < Base + 12 + 2 * Word
    BY <1>1, <1>5, <2>1, <2>2, PutChanges DEF ValueSize
  <2> QED
    BY <1>5, <1>7, <2>3 DEF Word
<1>10. Final(w) => a < used /\ ~(Base + 12 <= a /\ a < Base + 20)
  BY <1>1, <1>7 DEF Final, OpenHeader, ValueSize, TransferSize, used
<1> QED
  BY <1>5, <1>6, <1>7, <1>8, <1>9, <1>10

LEMMA InitApart == TransferInit => Apart
BY DEF TransferInit, Apart

LEMMA StartingApart ==
  ASSUME IInv, Starting
  PROVE  Apart' /\ ~GuestGoesOn
<1>1. PICK items, at :
        /\ phase = "idle" /\ phase' = "writing" /\ pending' = pending
        /\ stack' = <<[object |-> Entry, items |-> items, block |-> at, next |-> 1]>>
  BY DEF Starting, StartResult, StartNone, StartArguments, Opens
<1>2. pending = <<>> /\ pending' = <<>>
  BY <1>1 DEF IInv, Phased
<1>3. DOMAIN stack' = {1}
  BY <1>1
<1> QED
  BY <1>1, <1>2, <1>3
  DEF GuestGoesOn, Apart, RecordsApart, RecordsPlaced, FramesApart, RecordsWritten

\* Every step keeps apart what is to be written, and leaves what is final.
LEMMA StepApart ==
  ASSUME IInv, Apart, [TransferNext]_transferVars
  PROVE  Apart' /\ (GuestGoesOn => StepIsFinal)
<1>1. CASE Starting
  BY <1>1, StartingApart
<1>2. CASE \E o \in Objects : WriteInt(o) \/ WriteStr(o) \/ WriteObject(o) \/ WriteAsHandle(o)
                                 \/ WriteContainer(o)
  <2>1. PICK o \in Objects : WriteInt(o) \/ WriteStr(o) \/ WriteObject(o) \/ WriteAsHandle(o)
                               \/ WriteContainer(o)
    BY <1>2
  <2>2. Walks(o) /\ phase = "writing" /\ phase' \in {"writing", "raised"}
    BY <2>1 DEF WriteInt, WriteStr, WriteObject, WriteAsHandle, WriteContainer, WriteOpaque,
                Writes, Full, Walks
  <2>3. CASE phase' = "raised"
    BY <2>2, <2>3 DEF Apart, GuestGoesOn
  <2>4. CASE phase' = "writing"
    <3>1. CASE WriteInt(o)
      BY <3>1, WriteIntOn, WalksOnApart, WalksOnFinal
    <3>2. CASE WriteStr(o)
      BY <2>4, <3>2, WriteStrOn, WalksOnApart, WalksOnFinal
    <3>3. CASE WriteObject(o)
      <4>1. /\ o \in Opaques /\ WriteOpaque(o, Attributes[o], <<>>) /\ UNCHANGED outside
            /\ Walks(o)
        BY <3>3 DEF WriteObject
      <4>2. Attributes[o] \in Nat
        BY <4>1, TransferAssumption DEF AttrMask
      <4> QED
        BY <2>4, <4>1, <4>2, WriteOpaqueOn, WalksOnApart, WalksOnFinal
    <3>4. CASE WriteAsHandle(o)
      <4>1. WriteOpaque(o, 0, contents[o]) /\ UNCHANGED outside /\ Walks(o)
        BY <3>4 DEF WriteAsHandle
      <4> QED
        BY <2>4, <4>1, WriteOpaqueOn, WalksOnApart, WalksOnFinal
    <3>5. CASE WriteContainer(o)
      BY <2>4, <3>5, WriteContainerOn, WalksOnApart, WalksOnFinal
    <3> QED
      BY <2>1, <3>1, <3>2, <3>3, <3>4, <3>5
  <2> QED
    BY <2>2, <2>3, <2>4
<1>3. CASE LeaveContainer \/ ReserveLedger \/ AddRef \/ FinishCommit
  BY <1>3, LeaveContainerApart, ReserveLedgerApart, AddRefApart, FinishCommitApart
<1>4. CASE Raises \/ RefuseRef \/ HandleRaise \/ RaiseInCaller \/ Reading \/ RefuseArguments
             \/ CallGoesOn \/ Settle
  <2>1. phase' \notin {"writing", "committing"} /\ ~GuestGoesOn
    BY <1>4 DEF Raises, RefuseRef, HandleRaise, RaiseInCaller, Reading, ReadResult,
                ReadArguments, RefuseArguments, CallGoesOn, Settle, GuestGoesOn
  <2> QED
    BY <2>1 DEF Apart
<1>5. CASE UNCHANGED transferVars
  <2>1. Apart'
    BY <1>5 DEF transferVars, Apart
  <2>2. ASSUME GuestGoesOn  PROVE StepIsFinal
    <3>1. phase' # "written"
      BY <1>5, <2>2 DEF transferVars, GuestGoesOn
    <3>2. \A w \in DOMAIN region : Final(w)' <=> Final(w)
      BY <1>5 DEF transferVars, Final, OpenRecord, OpenId, OpenEntry, OpenHeader
    <3> QED
      BY <1>5, <3>1, <3>2 DEF transferVars, StepIsFinal
  <2> QED
    BY <2>1, <2>2
<1> QED
  BY <1>1, <1>2, <1>3, <1>4, <1>5 DEF TransferNext, Writing

LEMMA ApartInvariant == TransferSpec => []Apart
BY InitApart, StepApart, TransferInvariant, PTL DEF TransferSpec

\* Nothing that the guest has written for the host is written over while it goes on, and
\* it does not say that it is done before everything is written, for any value, in
\* regions of every size (encode.c; arena.c, arena_alloc).
THEOREM TransferWrittenOnce == TransferSpec => WrittenOnce
<1>1. IInv /\ Apart /\ [TransferNext]_transferVars => [GuestGoesOn => StepIsFinal]_transferVars
  BY StepApart
<1> QED
  BY <1>1, ApartInvariant, TransferInvariant, PTL DEF TransferSpec, WrittenOnce

-----------------------------------------------------------------------------
(* What was walked, and what of it is in the region.                       *)

Walk == [object : Objects, items : Seq(Objects), path : Seq(Objects), at : Nat, place : Nat]

\* The tuple of arguments is around them all.
Nested == IF purpose = "arguments" THEN 1 ELSE 0

\* A container that is walked, and what takes a place in the ledger instead.
WholeIn(nested, e) ==
  /\ e.object \in Containers
  /\ Len(e.path) + nested < MaxDepth
  /\ \A i \in DOMAIN e.path : e.path[i] # e.object

Whole(e) == WholeIn(Nested, e)
Handled(e) == e.object \in Opaques \cup Containers /\ ~Whole(e)

Attribute(o) == IF o \in Opaques THEN Attributes[o] ELSE 0
Count(e) == IF e.object \in Dicts THEN Len(e.items) \div 2 ELSE Len(e.items)

\* The record of a walk; the id of a handle is known when it is acquired.
Form(e) ==
  IF e.object \in Ints THEN Record(KindInt, e.object, 0)
  ELSE IF e.object \in Strs
  THEN IF Length[e.object] = 0 THEN Record(KindStr, 0, 0) ELSE Record(KindStr, Length[e.object], e.place)
  ELSE IF Handled(e) THEN Record(KindObject, e.object, e.place + Attribute(e.object))
  ELSE Record(KindOf(e.object), Count(e), e.place)

\* What is allocated for it.
Payload(e) ==
  IF e.object \in Ints THEN 0
  ELSE IF e.object \in Strs THEN Length[e.object]
  ELSE IF Handled(e) THEN ClassHeader + Length[e.object]
  ELSE Len(e.items) * ValueSize

\* Where its text is.
TextAt(e) == IF Handled(e) THEN e.place + ClassHeader ELSE e.place

\* A word that stays as it is.
Says(w, x) == w \in Index /\ Final(w) /\ region[w] = x

TextSays(e) ==
  e.object \notin Ints /\ ~Whole(e) =>
    \A i \in 1 .. Words(Length[e.object]) : Says(TextAt(e) \div Word + i - 1, e.object)

RecordSays(e) ==
  /\ Says(e.at \div Word, Form(e)[1])
  /\ ~Handled(e) => Says(e.at \div Word + 1, Form(e)[2])
  /\ Says(e.at \div Word + 2, Form(e)[3])
  /\ Handled(e) => Says(e.place \div Word, Length[e.object])
  /\ TextSays(e)

Placed(e) ==
  /\ e.at % Word = 0 /\ e.at >= Base /\ e.at + ValueSize <= Base + arena.offset
  /\ Payload(e) # 0 \/ Whole(e) =>
       /\ e.place % Word = 0 /\ e.place >= Base + TransferSize
       /\ e.place + Payload(e) <= Base + arena.offset
  /\ e.object \in Dicts => Len(e.items) % 2 = 0

Logged == log \in Seq(Walk)
Distinct == \A k, l \in DOMAIN log : k < l => log[k].at # log[l].at
RecordsKept == \A e \in Range(log) : RecordSays(e) /\ Placed(e)
HandlesPending ==
  \A e \in Range(log) : Handled(e) =>
    \E i \in DOMAIN pending : pending[i].at = e.at /\ pending[i].object = e.object
IdsWritten == \A i \in 1 .. committed : At(region, pending[i].at + Word) = pending[i].object

\* The record of None, and of the tuple of arguments.
RootSays ==
  /\ stack[1].object = Entry /\ stack[1].items \in Seq(Objects)
  /\ IF purpose = "arguments"
     THEN /\ Says(Base \div Word, KindTuple)
          /\ Says(Base \div Word + 1, Len(stack[1].items))
          /\ Says(Base \div Word + 2, Base + TransferSize)
          /\ stack[1].block = Base + TransferSize
     ELSE /\ stack[1].block = Base
          /\ Len(stack[1].items) <= 1
          /\ stack[1].items = <<>> => Says(Base \div Word, KindNone)

\* What a walk holds that is walked too, where, and inside what; number 0 is around them all.
Branch(nested, e) ==
  [items |-> IF WholeIn(nested, e) THEN e.items ELSE <<>>, at |-> e.place,
   inside |-> Append(e.path, e.object)]

Branches(walks, frames, nested) ==
  [i \in 0 .. Len(walks) |->
     IF i = 0 THEN [items |-> frames[1].items, at |-> frames[1].block, inside |-> <<>>]
     ELSE Branch(nested, walks[i])]

\* The j-th of what the i-th holds: it is walked where the one before it ends.
KidSound(b, walks, kid, ends, i, j) ==
  /\ kid[i][j] \in DOMAIN walks
  /\ kid[i][j] >= i + j
  /\ kid[i][j] = (IF j = 1 THEN i + 1 ELSE ends[kid[i][j - 1]])
  /\ j <= Len(b[i].items)
  /\ walks[kid[i][j]].object = b[i].items[j]
  /\ walks[kid[i][j]].path = b[i].inside
  /\ walks[kid[i][j]].at = b[i].at + (j - 1) * ValueSize

\* Where what it holds ends.
EndOf(kid, ends, i) == IF Len(kid[i]) = 0 THEN i + 1 ELSE ends[kid[i][Len(kid[i])]]

\* A walk that is over.
Closed(b, kid, ends, i) ==
  /\ Len(kid[i]) = Len(b[i].items)
  /\ ends[i] = EndOf(kid, ends, i) /\ ends[i] # 0

Path(frames, s) == [i \in 1 .. s - 1 |-> frames[i + 1].object]

\* A frame is a walk under way, and the next frame the last of what it holds so far.
FrameSits(b, frames, kid, ends, open, s) ==
  /\ ends[open[s]] = 0
  /\ Len(kid[open[s]]) + 1 = frames[s].next
  /\ b[open[s]].items = frames[s].items
  /\ b[open[s]].at = frames[s].block
  /\ b[open[s]].inside = Path(frames, s)
  /\ s < Len(frames) =>
       Len(kid[open[s]]) # 0 /\ kid[open[s]][Len(kid[open[s]])] = open[s + 1]

Tree(b, walks, frames, kid, ends, open) ==
  /\ kid \in [0 .. Len(walks) -> Seq(Nat)]
  /\ ends \in [0 .. Len(walks) -> 0 .. Len(walks) + 1]
  /\ open \in [DOMAIN frames -> 0 .. Len(walks)] /\ open[1] = 0
  /\ \A i \in 0 .. Len(walks) : \A j \in DOMAIN kid[i] : KidSound(b, walks, kid, ends, i, j)
  /\ \A s \in DOMAIN frames : FrameSits(b, frames, kid, ends, open, s)
  /\ \A s, t \in DOMAIN frames : s < t => open[s] < open[t]
  /\ EndOf(kid, ends, open[Len(frames)]) = Len(walks) + 1
  /\ \A i \in 0 .. Len(walks) :
       (\A s \in DOMAIN frames : open[s] # i) => Closed(b, kid, ends, i)

Grown(walks, frames, nested) ==
  \E kid, ends, open : Tree(Branches(walks, frames, nested), walks, frames, kid, ends, open)

InTree == Grown(log, stack, Nested)

\* What the frames have still to walk, all in all.
Counts(frames, g) ==
  /\ g \in [DOMAIN frames -> Nat]
  /\ \A s \in DOMAIN frames :
       /\ frames[s].next <= Len(frames[s].items) + 1
       /\ g[s] = (IF s = 1 THEN 0 ELSE g[s - 1]) + Len(frames[s].items) + 1 - frames[s].next

\* Every record that is written or to be written has its room.
RoomFor(n, frames, end) ==
  \E g : Counts(frames, g) /\ (n + g[Len(frames)]) * ValueSize + 8 <= end

Roomy == RoomFor(Len(log) + Nested, stack, arena.offset)

WalkKept ==
  /\ contents \in Shapes
  /\ Logged /\ Distinct /\ RecordsKept /\ HandlesPending /\ IdsWritten /\ RootSays
  /\ InTree /\ Roomy

\* The records of a transfer are there until the host has read them.
Alive == phase \in {"writing", "committing", "written"} /\ stack # <<>>

WalkIsOver == Len(stack) = 1 /\ stack[1].next > Len(stack[1].items)

ExceptionSays ==
  /\ arena.offset >= TransferSize
  /\ purpose = "result"
  /\ HeaderSays(region, 0, 0)
  /\ At(region, Base) = KindException
  /\ ~arena.overflowed =>
       InSpan(Base, arena.offset, At(region, Base + 2 * Word), At(region, Base + Word))

Carried ==
  /\ contents \in Shapes
  /\ phase = "idle" => log = <<>>
  /\ phase = "committing" => stack # <<>>
  /\ Alive => WalkKept
  /\ Alive /\ phase # "writing" => WalkIsOver
  /\ phase = "written" /\ stack # <<>> => committed = Len(pending)
  /\ phase = "written" /\ stack = <<>> => ExceptionSays

-----------------------------------------------------------------------------
(* The tree of the walks.                                                  *)

\* The branches that there are stay when there is a walk more.
LEMMA BranchesGrow ==
  ASSUME NEW walks \in Seq(Walk), NEW e \in Walk, NEW frames, NEW frames2, NEW nested,
         frames2[1].items = frames[1].items, frames2[1].block = frames[1].block
  PROVE  /\ Len(Append(walks, e)) = Len(walks) + 1 /\ Len(walks) \in Nat
         /\ Append(walks, e)[Len(walks) + 1] = e
         /\ \A i \in DOMAIN walks : Append(walks, e)[i] = walks[i]
         /\ DOMAIN walks = 1 .. Len(walks)
         /\ DOMAIN Append(walks, e) = 1 .. Len(walks) + 1
         /\ \A i \in 0 .. Len(walks) :
              Branches(Append(walks, e), frames2, nested)[i] = Branches(walks, frames, nested)[i]
         /\ Branches(Append(walks, e), frames2, nested)[Len(walks) + 1] = Branch(nested, e)
<1>1. PICK n \in Nat : n = Len(walks)
  OBVIOUS
<1>2. PICK more : more = Append(walks, e)
  OBVIOUS
<1>3. /\ Len(more) = n + 1 /\ more[n + 1] = e /\ \A i \in 1 .. n : more[i] = walks[i]
      /\ DOMAIN walks = 1 .. n /\ DOMAIN more = 1 .. n + 1
  BY <1>1, <1>2
<1>4. ASSUME NEW i \in 0 .. n  PROVE Branches(more, frames2, nested)[i] = Branches(walks, frames, nested)[i]
  <2>1. i \in 0 .. n + 1
    BY <1>1
  <2>2. CASE i = 0
    BY <1>1, <1>3, <2>1, <2>2 DEF Branches
  <2>3. CASE i # 0
    <3>1. i \in 1 .. n /\ more[i] = walks[i]
      BY <1>1, <1>3, <2>3
    <3> QED
      BY <1>1, <1>3, <2>1, <2>3, <3>1 DEF Branches
  <2> QED
    BY <2>2, <2>3
<1>5. Branches(more, frames2, nested)[n + 1] = Branch(nested, e)
  <2>1. n + 1 \in 0 .. n + 1 /\ n + 1 # 0
    BY <1>1
  <2> QED
    BY <1>3, <2>1 DEF Branches
<1> QED
  BY <1>1, <1>2, <1>3, <1>4, <1>5

\* The last of the frames is a walk whose next part is walked now.
Grows(frames, e) ==
  /\ frames # <<>>
  /\ frames[Len(frames)].next <= Len(frames[Len(frames)].items)
  /\ e.object = frames[Len(frames)].items[frames[Len(frames)].next]
  /\ e.at = frames[Len(frames)].block + (frames[Len(frames)].next - 1) * ValueSize
  /\ e.path = Path(frames, Len(frames))

\* The n-th walk is the last that the i-th holds, and holds nothing yet.
KidAdded(kid, i, n) ==
  [k \in 0 .. n |-> IF k = i THEN Append(kid[k], n) ELSE IF k = n THEN <<>> ELSE kid[k]]

EndAdded(ends, n, end) == [k \in 0 .. n |-> IF k = n THEN end ELSE ends[k]]

\* The tree has a walk more, which the i-th holds.
Sprouts(b, kid, ends, i, n, b2, walks2, kid2, ends2) ==
  /\ i \in 0 .. n
  /\ kid2 \in [0 .. n + 1 -> Seq(Nat)]
  /\ Len(kid2[i]) = Len(kid[i]) + 1 /\ kid2[i][Len(kid[i]) + 1] = n + 1
  /\ \A k \in 0 .. n + 1 : \A j \in DOMAIN kid2[k] : KidSound(b2, walks2, kid2, ends2, k, j)
  /\ \A k \in 0 .. n : k # i /\ Closed(b, kid, ends, k) => Closed(b2, kid2, ends2, k)

\* What is walked now is a part of the last of the frames: of the others nothing changes.
LEMMA KidsGrow ==
  ASSUME NEW walks \in Seq(Walk), NEW e \in Walk, NEW frames \in Seq(Frames),
         NEW b, NEW b2, NEW kid, NEW ends, NEW open, NEW end \in Nat,
         Tree(b, walks, frames, kid, ends, open),
         Grows(frames, e),
         \A i \in 0 .. Len(walks) : b2[i] = b[i]
  PROVE  Sprouts(b, kid, ends, open[Len(frames)], Len(walks), b2, Append(walks, e),
                 KidAdded(kid, open[Len(frames)], Len(walks) + 1),
                 EndAdded(ends, Len(walks) + 1, end))
<1> PICK top : top = open[Len(frames)]
  OBVIOUS
<1> PICK kid2 : kid2 = KidAdded(kid, top, Len(walks) + 1)
  OBVIOUS
<1> PICK ends2 : ends2 = EndAdded(ends, Len(walks) + 1, end)
  OBVIOUS
<1>1. PICK n \in Nat : n = Len(walks)
  OBVIOUS
<1>2. PICK more : more = Append(walks, e)
  OBVIOUS
<1>3. /\ Len(more) = n + 1 /\ more[n + 1] = e /\ \A i \in 1 .. n : more[i] = walks[i]
      /\ DOMAIN walks = 1 .. n /\ DOMAIN more = 1 .. n + 1
  BY <1>1, <1>2
<1>0. /\ kid2 = [i \in 0 .. n + 1 |-> IF i = top THEN Append(kid[i], n + 1)
                                     ELSE IF i = n + 1 THEN <<>> ELSE kid[i]]
      /\ ends2 = [i \in 0 .. n + 1 |-> IF i = n + 1 THEN end ELSE ends[i]]
  BY <1>1 DEF KidAdded, EndAdded
<1>4. /\ kid \in [0 .. n -> Seq(Nat)] /\ ends \in [0 .. n -> 0 .. n + 1]
      /\ open \in [DOMAIN frames -> 0 .. n]
      /\ \A i \in 0 .. n : \A j \in DOMAIN kid[i] : KidSound(b, walks, kid, ends, i, j)
      /\ \A s \in DOMAIN frames : FrameSits(b, frames, kid, ends, open, s)
      /\ EndOf(kid, ends, top) = n + 1
  BY <1>1 DEF Tree
<1>5. Len(frames) \in DOMAIN frames
  BY DEF Grows
<1>6. PICK f \in Frames : f = frames[Len(frames)]
  BY <1>5
<1>7. top \in 0 .. n /\ kid[top] \in Seq(Nat)
  BY <1>4, <1>5
<1>8. PICK m \in Nat : m = Len(kid[top]) /\ DOMAIN kid[top] = 1 .. m
  <2>1. PICK s \in Seq(Nat) : s = kid[top]
    BY <1>7
  <2>2. Len(s) \in Nat /\ DOMAIN s = 1 .. Len(s)
    OBVIOUS
  <2> QED
    BY <2>1, <2>2
<1>9. /\ m + 1 = f.next /\ b[top].items = f.items /\ b[top].at = f.block
      /\ b[top].inside = Path(frames, Len(frames))
  BY <1>4, <1>5, <1>6, <1>8 DEF FrameSits
<1>10. /\ m + 1 <= Len(f.items) /\ e.object = f.items[m + 1]
       /\ e.at = f.block + m * ValueSize /\ e.path = Path(frames, Len(frames))
  <2>1. f.next - 1 = m
    BY <1>8, <1>9
  <2> QED
    BY <1>6, <1>9, <2>1 DEF Grows
<1>11. /\ kid2[top] = Append(kid[top], n + 1) /\ kid2[n + 1] = <<>>
       /\ \A i \in 0 .. n : i # top => kid2[i] = kid[i]
       /\ ends2[n + 1] = end /\ \A i \in 0 .. n : ends2[i] = ends[i]
  <2>1. 0 .. n + 1 = (0 .. n) \cup {n + 1} /\ n + 1 \notin 0 .. n
    BY <1>1
  <2> QED
    BY <1>0, <1>1, <1>7, <2>1
<1>12. /\ kid2[top] \in Seq(Nat) /\ Len(kid2[top]) = m + 1 /\ kid2[top][m + 1] = n + 1
       /\ \A j \in 1 .. m : kid2[top][j] = kid[top][j]
       /\ DOMAIN kid2[top] = 1 .. m + 1
  <2>1. n + 1 \in Nat
    BY <1>1
  <2>2. PICK s \in Seq(Nat) : s = kid[top]
    BY <1>7
  <2>3. /\ Append(s, n + 1) \in Seq(Nat) /\ Len(Append(s, n + 1)) = m + 1
        /\ Append(s, n + 1)[m + 1] = n + 1 /\ \A j \in 1 .. m : Append(s, n + 1)[j] = s[j]
        /\ DOMAIN Append(s, n + 1) = 1 .. m + 1
    BY <1>8, <2>1, <2>2
  <2> QED
    BY <1>11, <2>2, <2>3
<1>13. kid2 \in [0 .. n + 1 -> Seq(Nat)]
  <2>1. DOMAIN kid2 = 0 .. n + 1
    BY <1>0
  <2>2. ASSUME NEW i \in 0 .. n + 1  PROVE kid2[i] \in Seq(Nat)
    <3>1. CASE i = top
      BY <1>12, <3>1
    <3>2. CASE i = n + 1
      <4>1. <<>> \in Seq(Nat)
        OBVIOUS
      <4>2. kid2[i] = <<>>
        BY <1>11, <3>2
      <4> QED
        BY <4>1, <4>2
    <3>3. CASE i # top /\ i # n + 1
      <4>1. i \in 0 .. n
        BY <3>3
      <4> QED
        BY <1>4, <1>11, <3>3, <4>1
    <3> QED
      BY <3>1, <3>2, <3>3
  <2>3. kid2 = [i \in 0 .. n + 1 |-> kid2[i]]
    BY <1>0
  <2> QED
    BY <2>2, <2>3
<1>14. ASSUME NEW i \in 0 .. n, NEW j \in DOMAIN kid[i]
       PROVE  /\ kid[i][j] \in 1 .. n /\ more[kid[i][j]] = walks[kid[i][j]]
              /\ j # 1 => j - 1 \in DOMAIN kid[i] /\ kid[i][j - 1] \in 0 .. n
              /\ KidSound(b2, more, kid, ends2, i, j)
  <2>1. KidSound(b, walks, kid, ends, i, j)
    BY <1>4
  <2>2. kid[i][j] \in 1 .. n /\ more[kid[i][j]] = walks[kid[i][j]]
    BY <1>3, <2>1 DEF KidSound
  <2>3. j # 1 => j - 1 \in DOMAIN kid[i]
    <3>1. kid[i] \in Seq(Nat)
      BY <1>4
    <3> QED
      BY <3>1
  <2>4. j # 1 => kid[i][j - 1] \in 0 .. n
    <3>1. ASSUME j # 1  PROVE kid[i][j - 1] \in 1 .. n
      BY <1>3, <1>4, <2>3, <3>1 DEF KidSound
    <3> QED
      BY <3>1
  <2>5. kid[i][j] \in DOMAIN more
    BY <1>3, <2>2
  <2>6. b2[i] = b[i]
    BY <1>1
  <2>7. kid[i][j] = (IF j = 1 THEN i + 1 ELSE ends2[kid[i][j - 1]])
    BY <1>11, <2>1, <2>4 DEF KidSound
  <2> QED
    BY <2>1, <2>2, <2>3, <2>4, <2>5, <2>6, <2>7 DEF KidSound
<1>15. ASSUME NEW i \in 0 .. n + 1, NEW j \in DOMAIN kid2[i]
       PROVE  KidSound(b2, more, kid2, ends2, i, j)
  <2>1. CASE i = n + 1
    BY <1>11, <2>1
  <2>2. CASE i \in 0 .. n /\ i # top
    <3>1. kid2[i] = kid[i]
      BY <1>11, <2>2
    <3>2. KidSound(b2, more, kid, ends2, i, j)
      BY <1>14, <2>2, <3>1
    <3> QED
      BY <3>1, <3>2 DEF KidSound
  <2>3. CASE i = top /\ j \in 1 .. m
    <3>1. KidSound(b2, more, kid, ends2, top, j)
      BY <1>7, <1>8, <1>14, <2>3
    <3>2. kid2[top][j] = kid[top][j] /\ (j # 1 => kid2[top][j - 1] = kid[top][j - 1])
      <4>1. j # 1 => j - 1 \in 1 .. m
        BY <1>8, <2>3
      <4> QED
        BY <1>12, <2>3, <4>1
    <3> QED
      BY <2>3, <3>1, <3>2 DEF KidSound
  <2>4. CASE i = top /\ j = m + 1
    <3>1. kid2[top][j] = n + 1 /\ n + 1 \in DOMAIN more /\ more[n + 1] = e
      BY <1>1, <1>3, <1>12, <2>4
    <3>2. b2[top].items = f.items /\ b2[top].at = f.block /\ b2[top].inside = Path(frames, Len(frames))
      BY <1>1, <1>7, <1>9
    <3>3. m # 0 => kid[top][m] \in 1 .. n /\ kid[top][m] >= top + m /\ kid[top][m] = kid2[top][m]
      <4>1. ASSUME m # 0  PROVE kid[top][m] \in 1 .. n /\ kid[top][m] >= top + m /\ kid[top][m] = kid2[top][m]
        <5>1. m \in DOMAIN kid[top] /\ m \in 1 .. m
          BY <1>8, <4>1
        <5>2. KidSound(b, walks, kid, ends, top, m)
          BY <1>4, <1>7, <5>1
        <5> QED
          BY <1>3, <1>12, <5>1, <5>2 DEF KidSound
      <4> QED
        BY <4>1
    <3>4. n + 1 = IF m = 0 THEN top + 1 ELSE ends[kid[top][m]]
      BY <1>4, <1>8 DEF EndOf
    <3>5. n + 1 = IF j = 1 THEN top + 1 ELSE ends2[kid2[top][j - 1]]
      <4>1. CASE m = 0
        BY <2>4, <3>4, <4>1
      <4>2. CASE m # 0
        <5>1. j # 1 /\ j - 1 = m
          BY <1>8, <2>4, <4>2
        <5>2. ends2[kid[top][m]] = ends[kid[top][m]]
          <6>1. PICK k \in 0 .. n : k = kid[top][m]
            BY <3>3, <4>2
          <6> QED
            BY <1>11, <6>1
        <5> QED
          BY <3>3, <3>4, <4>2, <5>1, <5>2
      <4> QED
        BY <4>1, <4>2
    <3>6. n + 1 >= top + j
      <4>1. CASE m = 0
        BY <1>1, <1>7, <2>4, <3>4, <4>1
      <4>2. CASE m # 0
        <5>1. PICK k \in 1 .. n : k >= top + m
          BY <3>3, <4>2
        <5> QED
          BY <1>1, <1>7, <1>8, <2>4, <5>1
      <4> QED
        BY <4>1, <4>2
    <3>7. j <= Len(f.items) /\ e.object = f.items[j] /\ j - 1 = m
      BY <1>8, <1>10, <2>4
    <3> QED
      BY <1>10, <2>4, <3>1, <3>2, <3>5, <3>6, <3>7 DEF KidSound
  <2>5. i \in 0 .. n \/ i = n + 1
    BY <1>1
  <2>6. i = top => j \in 1 .. m \/ j = m + 1
    <3>1. i = top => j \in 1 .. m + 1
      BY <1>12
    <3> QED
      BY <1>8, <3>1
  <2> QED
    BY <2>1, <2>2, <2>3, <2>4, <2>5, <2>6
<1>16. ASSUME NEW i \in 0 .. n, i # top, Closed(b, kid, ends, i)
       PROVE  Closed(b2, kid2, ends2, i)
  <2>1. kid2[i] = kid[i] /\ b2[i] = b[i] /\ ends2[i] = ends[i]
    BY <1>1, <1>11, <1>16
  <2>2. Len(kid[i]) # 0 => Len(kid[i]) \in DOMAIN kid[i]
    BY <1>4
  <2>3. Len(kid[i]) # 0 => ends2[kid[i][Len(kid[i])]] = ends[kid[i][Len(kid[i])]]
    <3>1. ASSUME Len(kid[i]) # 0  PROVE kid[i][Len(kid[i])] \in 0 .. n
      <4>1. Len(kid[i]) \in DOMAIN kid[i] /\ 1 .. n \subseteq 0 .. n
        BY <2>2, <3>1
      <4>2. kid[i][Len(kid[i])] \in 1 .. n
        BY <1>14, <4>1
      <4> QED
        BY <4>1, <4>2
    <3>2. ASSUME Len(kid[i]) # 0  PROVE ends2[kid[i][Len(kid[i])]] = ends[kid[i][Len(kid[i])]]
      <4>1. PICK k \in 0 .. n : k = kid[i][Len(kid[i])]
        BY <3>1, <3>2
      <4> QED
        BY <1>11, <4>1
    <3> QED
      BY <3>2
  <2> QED
    BY <1>16, <2>1, <2>3 DEF Closed, EndOf
<1> QED
  BY <1>1, <1>2, <1>7, <1>8, <1>12, <1>13, <1>15, <1>16 DEF Sprouts

LEMMA SamePath ==
  ASSUME NEW frames, NEW frames2, NEW s \in Nat,
         \A i \in 1 .. s - 1 : frames2[i + 1].object = frames[i + 1].object
  PROVE  Path(frames2, s) = Path(frames, s)
BY DEF Path

Onward(frames) == [frames EXCEPT ![Len(frames)].next = @ + 1]

LEMMA OnwardFacts ==
  ASSUME NEW frames \in Seq(Frames), frames # <<>>
  PROVE  /\ Onward(frames) \in Seq(Frames) /\ Len(Onward(frames)) = Len(frames)
         /\ Len(frames) \in Nat \ {0} /\ DOMAIN frames = 1 .. Len(frames)
         /\ DOMAIN Onward(frames) = 1 .. Len(frames)
         /\ \A i \in 1 .. Len(frames) :
              /\ Onward(frames)[i] \in Frames
              /\ Onward(frames)[i].items = frames[i].items
              /\ Onward(frames)[i].block = frames[i].block
              /\ Onward(frames)[i].object = frames[i].object
              /\ i # Len(frames) => Onward(frames)[i].next = frames[i].next
         /\ Onward(frames)[Len(frames)].next = frames[Len(frames)].next + 1
<1>1. PICK n \in Nat \ {0} : n = Len(frames) /\ DOMAIN frames = 1 .. n
  <2>1. Len(frames) \in Nat /\ Len(frames) # 0 /\ DOMAIN frames = 1 .. Len(frames)
    OBVIOUS
  <2> QED
    BY <2>1
<1>2. PICK f \in Frames : f = frames[n]
  <2>1. n \in 1 .. n
    OBVIOUS
  <2>2. frames[n] \in Frames
    BY <1>1, <2>1
  <2> QED
    BY <2>2
<1>3. PICK g \in Frames : g = [f EXCEPT !.next = f.next + 1]
  <2>1. f.next + 1 \in Nat \ {0}
    BY DEF Frames
  <2>2. [f EXCEPT !.next = f.next + 1] \in Frames
    BY <2>1 DEF Frames
  <2> QED
    BY <2>2
<1>4. /\ g.items = f.items /\ g.block = f.block /\ g.object = f.object
      /\ g.next = f.next + 1
  BY <1>3 DEF Frames
<1>5. Onward(frames) = [frames EXCEPT ![n] = g]
  BY <1>1, <1>2, <1>3 DEF Onward
<1>6. PICK more \in Seq(Frames) : more = Onward(frames) /\ Len(more) = n /\ DOMAIN more = 1 .. n
                                   /\ more[n] = g /\ \A i \in 1 .. n : i # n => more[i] = frames[i]
  <2>1. [frames EXCEPT ![n] = g] \in Seq(Frames) /\ Len([frames EXCEPT ![n] = g]) = n
    BY <1>1
  <2>2. [frames EXCEPT ![n] = g][n] = g /\ DOMAIN [frames EXCEPT ![n] = g] = 1 .. n
        /\ \A i \in 1 .. n : i # n => [frames EXCEPT ![n] = g][i] = frames[i]
    BY <1>1
  <2> QED
    BY <1>5, <2>1, <2>2
<1>7. ASSUME NEW i \in 1 .. n
      PROVE  /\ more[i] \in Frames
             /\ more[i].items = frames[i].items
             /\ more[i].block = frames[i].block
             /\ more[i].object = frames[i].object
             /\ i # n => more[i].next = frames[i].next
  BY <1>2, <1>4, <1>6
<1> QED
  BY <1>1, <1>2, <1>4, <1>6, <1>7

\* What is not walked itself is over at once.
LEMMA TreeLeaf ==
  ASSUME NEW walks \in Seq(Walk), NEW e \in Walk, NEW frames \in Seq(Frames), NEW nested,
         NEW kid, NEW ends, NEW open,
         Tree(Branches(walks, frames, nested), walks, frames, kid, ends, open),
         Grows(frames, e),
         ~WholeIn(nested, e)
  PROVE  Grown(Append(walks, e), Onward(frames), nested)
<1> DEFINE b == Branches(walks, frames, nested)
           b2 == Branches(Append(walks, e), Onward(frames), nested)
<1>1. PICK n \in Nat : n = Len(walks)
  OBVIOUS
<1>2. frames # <<>>
  BY DEF Grows
<1>3. PICK last \in Nat \ {0}, on \in Seq(Frames) :
        /\ on = Onward(frames) /\ last = Len(frames) /\ Len(on) = last
        /\ DOMAIN frames = 1 .. last /\ DOMAIN on = 1 .. last
        /\ \A i \in 1 .. last :
             /\ on[i].items = frames[i].items /\ on[i].block = frames[i].block
             /\ on[i].object = frames[i].object
             /\ i # last => on[i].next = frames[i].next
        /\ on[last].next = frames[last].next + 1
  BY <1>2, OnwardFacts
<1>4. PICK more : more = Append(walks, e)
  OBVIOUS
<1>5. /\ Len(more) = n + 1
      /\ \A i \in 0 .. n : b2[i] = b[i]
      /\ b2[n + 1] = Branch(nested, e)
  <2>1. on[1].items = frames[1].items /\ on[1].block = frames[1].block
    BY <1>3
  <2>2. /\ Len(Append(walks, e)) = Len(walks) + 1
        /\ \A i \in 0 .. Len(walks) :
             Branches(Append(walks, e), on, nested)[i] = Branches(walks, frames, nested)[i]
        /\ Branches(Append(walks, e), on, nested)[Len(walks) + 1] = Branch(nested, e)
    BY <2>1, BranchesGrow
  <2> QED
    BY <1>1, <1>3, <1>4, <2>2
<1>6. b2[n + 1].items = <<>>
  BY <1>5 DEF Branch
<1> HIDE DEF b, b2
<1>7. /\ Tree(b, walks, frames, kid, ends, open)
      /\ Grows(frames, e)
  BY DEF b
<1> DEFINE top == open[last]
           kid2 == KidAdded(kid, top, n + 1)
           ends2 == EndAdded(ends, n + 1, n + 2)
<1>8. /\ kid \in [0 .. n -> Seq(Nat)] /\ ends \in [0 .. n -> 0 .. n + 1]
      /\ open \in [1 .. last -> 0 .. n] /\ open[1] = 0
      /\ \A s \in 1 .. last : FrameSits(b, frames, kid, ends, open, s)
      /\ \A s, t \in 1 .. last : s < t => open[s] < open[t]
      /\ \A i \in 0 .. n : (\A s \in 1 .. last : open[s] # i) => Closed(b, kid, ends, i)
  BY <1>1, <1>3, <1>7 DEF Tree
<1>9. /\ top \in 0 .. n /\ kid2 \in [0 .. n + 1 -> Seq(Nat)]
      /\ Len(kid2[top]) = Len(kid[top]) + 1 /\ kid2[top][Len(kid[top]) + 1] = n + 1
      /\ \A i \in 0 .. n + 1 : \A j \in DOMAIN kid2[i] : KidSound(b2, more, kid2, ends2, i, j)
      /\ \A i \in 0 .. n : i # top /\ Closed(b, kid, ends, i) => Closed(b2, kid2, ends2, i)
  <2>1. PICK v \in Nat : v = n + 2
    OBVIOUS
  <2> HIDE DEF kid2, ends2, top
  <2>2. kid2 = KidAdded(kid, top, Len(walks) + 1) /\ ends2 = EndAdded(ends, Len(walks) + 1, v)
    BY <1>1, <2>1 DEF kid2, ends2
  <2>3. top = open[Len(frames)]
    BY <1>3 DEF top
  <2>4. \A i \in 0 .. Len(walks) : b2[i] = b[i]
    BY <1>1, <1>5
  <2>5. Sprouts(b, kid, ends, top, Len(walks), b2, Append(walks, e), kid2, ends2)
    BY <1>7, <2>2, <2>3, <2>4, KidsGrow
  <2> QED
    BY <1>1, <1>4, <2>5 DEF Sprouts
<1>10. /\ ends2 \in [0 .. n + 1 -> 0 .. n + 2] /\ ends2[n + 1] = n + 2 /\ kid2[n + 1] = <<>>
       /\ \A i \in 0 .. n : ends2[i] = ends[i] /\ (i # top => kid2[i] = kid[i])
  <2>1. top \in 0 .. n /\ n + 1 \notin 0 .. n /\ n + 1 \in 0 .. n + 1
    BY <1>9
  <2> USE DEF KidAdded, EndAdded
  <2>2. ASSUME NEW i \in 0 .. n + 1  PROVE ends2[i] \in 0 .. n + 2
    <3>1. CASE i = n + 1
      BY <3>1
    <3>2. CASE i # n + 1
      <4>1. i \in 0 .. n
        BY <3>2
      <4> QED
        BY <1>8, <3>2, <4>1
    <3> QED
      BY <3>1, <3>2
  <2> QED
    BY <2>1, <2>2
<1> HIDE DEF kid2, ends2
<1>11. ASSUME NEW s \in 1 .. last  PROVE FrameSits(b2, on, kid2, ends2, open, s)
  <2>1. FrameSits(b, frames, kid, ends, open, s)
    BY <1>8
  <2>2. open[s] \in 0 .. n /\ b2[open[s]] = b[open[s]] /\ ends2[open[s]] = ends[open[s]]
    BY <1>5, <1>8, <1>10
  <2>3. Path(on, s) = Path(frames, s)
    <3>1. \A i \in 1 .. s - 1 : i + 1 \in 1 .. last
      OBVIOUS
    <3>2. \A i \in 1 .. s - 1 : on[i + 1].object = frames[i + 1].object
      BY <1>3, <3>1
    <3> QED
      BY <3>2, SamePath
  <2>4. on[s].items = frames[s].items /\ on[s].block = frames[s].block
    BY <1>3
  <2>5. CASE s = last
    <3>1. on[s].next = frames[s].next + 1 /\ Len(kid2[open[s]]) = Len(kid[open[s]]) + 1
      BY <1>3, <1>9, <2>5
    <3>2. Len(kid2[open[s]]) + 1 = on[s].next
      BY <2>1, <3>1 DEF FrameSits
    <3> QED
      BY <1>3, <2>1, <2>2, <2>3, <2>4, <2>5, <3>2 DEF FrameSits
  <2>6. CASE s # last
    <3>1. open[s] # top /\ on[s].next = frames[s].next
      <4>1. s < last /\ last \in 1 .. last
        BY <2>6
      <4>2. open[s] < open[last]
        BY <1>8, <4>1
      <4>3. open[s] # open[last]
        BY <1>8, <2>2, <4>1, <4>2
      <4> QED
        BY <1>3, <2>6, <4>3
    <3>2. kid2[open[s]] = kid[open[s]]
      BY <1>10, <2>2, <3>1
    <3> QED
      BY <1>3, <2>1, <2>2, <2>3, <2>4, <3>1, <3>2 DEF FrameSits
  <2> QED
    BY <2>5, <2>6
<1>12. EndOf(kid2, ends2, open[last]) = n + 2
  <2>1. PICK m \in Nat : m = Len(kid[top])
    <3>1. kid[top] \in Seq(Nat)
      BY <1>8, <1>9
    <3> QED
      BY <3>1
  <2>2. Len(kid2[top]) = m + 1 /\ kid2[top][m + 1] = n + 1 /\ m + 1 # 0
    BY <1>9, <2>1
  <2> QED
    BY <1>10, <2>2 DEF EndOf
<1>13. ASSUME NEW i \in 0 .. n + 1, \A s \in 1 .. last : open[s] # i
       PROVE  Closed(b2, kid2, ends2, i)
  <2>1. CASE i \in 0 .. n
    <3>1. Closed(b, kid, ends, i)
      BY <1>8, <1>13, <2>1
    <3>2. i # top
      <4>1. last \in 1 .. last
        OBVIOUS
      <4> QED
        BY <1>13, <4>1
    <3> QED
      BY <1>9, <2>1, <3>1, <3>2
  <2>2. CASE i = n + 1
    <3>1. Len(kid2[i]) = 0 /\ Len(b2[i].items) = 0
      BY <1>6, <1>10, <2>2
    <3> QED
      BY <1>10, <2>2, <3>1 DEF Closed, EndOf
  <2> QED
    BY <2>1, <2>2
<1>14. open \in [DOMAIN on -> 0 .. n + 1]
  BY <1>3, <1>8
<1>15. Tree(b2, more, on, kid2, ends2, open)
  <2>1. n + 1 + 1 = n + 2
    OBVIOUS
  <2> QED
    BY <1>3, <1>5, <1>8, <1>9, <1>10, <1>11, <1>12, <1>13, <1>14, <2>1 DEF Tree
<1> QED
  BY <1>3, <1>4, <1>15 DEF Grown, b2

\* What is walked itself is the next frame.
LEMMA TreePush ==
  ASSUME NEW walks \in Seq(Walk), NEW e \in Walk, NEW frames \in Seq(Frames), NEW nested,
         NEW kid, NEW ends, NEW open, NEW f \in Frames,
         Tree(Branches(walks, frames, nested), walks, frames, kid, ends, open),
         Grows(frames, e), WholeIn(nested, e),
         f.object = e.object, f.items = e.items, f.block = e.place, f.next = 1
  PROVE  Grown(Append(walks, e), Append(Onward(frames), f), nested)
<1> DEFINE b == Branches(walks, frames, nested)
           b2 == Branches(Append(walks, e), Append(Onward(frames), f), nested)
<1>1. PICK n \in Nat : n = Len(walks)
  OBVIOUS
<1>2. frames # <<>>
  BY DEF Grows
<1>3. PICK last \in Nat \ {0}, up \in Seq(Frames) :
        /\ up = Onward(frames) /\ last = Len(frames) /\ Len(up) = last
        /\ DOMAIN frames = 1 .. last /\ DOMAIN up = 1 .. last
        /\ \A i \in 1 .. last :
             /\ up[i].items = frames[i].items /\ up[i].block = frames[i].block
             /\ up[i].object = frames[i].object
             /\ i # last => up[i].next = frames[i].next
        /\ up[last].next = frames[last].next + 1
  BY <1>2, OnwardFacts
<1>4. PICK on : /\ on = Append(up, f) /\ Len(on) = last + 1 /\ DOMAIN on = 1 .. last + 1
                /\ on[last + 1] = f /\ \A i \in 1 .. last : on[i] = up[i]
  <2>1. /\ Len(Append(up, f)) = last + 1 /\ DOMAIN Append(up, f) = 1 .. last + 1
        /\ Append(up, f)[last + 1] = f /\ \A i \in 1 .. last : Append(up, f)[i] = up[i]
    <3>1. /\ Len(Append(up, f)) = Len(up) + 1 /\ DOMAIN Append(up, f) = 1 .. Len(up) + 1
          /\ Append(up, f)[Len(up) + 1] = f /\ \A i \in 1 .. Len(up) : Append(up, f)[i] = up[i]
      OBVIOUS
    <3> QED
      BY <1>3, <3>1
  <2> QED
    BY <2>1, Zenon
<1>5. PICK more : more = Append(walks, e)
  OBVIOUS
<1>6. /\ Len(more) = n + 1
      /\ \A i \in 0 .. n : b2[i] = b[i]
      /\ b2[n + 1] = Branch(nested, e)
  <2>1. on[1].items = frames[1].items /\ on[1].block = frames[1].block
    BY <1>3, <1>4
  <2>2. /\ Len(Append(walks, e)) = Len(walks) + 1
        /\ \A i \in 0 .. Len(walks) :
             Branches(Append(walks, e), on, nested)[i] = Branches(walks, frames, nested)[i]
        /\ Branches(Append(walks, e), on, nested)[Len(walks) + 1] = Branch(nested, e)
    BY <2>1, BranchesGrow
  <2> QED
    BY <1>1, <1>3, <1>4, <1>5, <2>2
<1>7. b2[n + 1].items = f.items /\ b2[n + 1].at = f.block /\ b2[n + 1].inside = Append(e.path, e.object)
  BY <1>6 DEF Branch
<1> HIDE DEF b, b2
<1>8. Tree(b, walks, frames, kid, ends, open)
  BY DEF b
<1> DEFINE top == open[last]
           kid2 == KidAdded(kid, top, n + 1)
           ends2 == EndAdded(ends, n + 1, 0)
           open2 == [s \in 1 .. last + 1 |-> IF s = last + 1 THEN n + 1 ELSE open[s]]
<1>9. /\ kid \in [0 .. n -> Seq(Nat)] /\ ends \in [0 .. n -> 0 .. n + 1]
      /\ open \in [1 .. last -> 0 .. n] /\ open[1] = 0
      /\ \A s \in 1 .. last : FrameSits(b, frames, kid, ends, open, s)
      /\ \A s, t \in 1 .. last : s < t => open[s] < open[t]
      /\ \A i \in 0 .. n : (\A s \in 1 .. last : open[s] # i) => Closed(b, kid, ends, i)
  BY <1>1, <1>3, <1>8 DEF Tree
<1>10. Sprouts(b, kid, ends, top, n, b2, more, kid2, ends2)
  <2> HIDE DEF kid2, ends2, top
  <2>1. kid2 = KidAdded(kid, top, Len(walks) + 1) /\ ends2 = EndAdded(ends, Len(walks) + 1, 0)
    BY <1>1 DEF kid2, ends2
  <2>2. top = open[Len(frames)]
    BY <1>3 DEF top
  <2>3. \A i \in 0 .. Len(walks) : b2[i] = b[i]
    BY <1>1, <1>6
  <2>4. Sprouts(b, kid, ends, top, Len(walks), b2, Append(walks, e), kid2, ends2)
    <3>1. PICK z \in Nat : z = 0
      OBVIOUS
    <3>2. ends2 = EndAdded(ends, Len(walks) + 1, z)
      BY <2>1, <3>1
    <3> QED
      BY Grows(frames, e), <1>8, <2>1, <2>2, <2>3, <3>2, KidsGrow
  <2> QED
    BY <1>1, <1>5, <2>4
<1>11. /\ ends2 \in [0 .. n + 1 -> 0 .. n + 2] /\ ends2[n + 1] = 0 /\ kid2[n + 1] = <<>>
       /\ \A i \in 0 .. n : ends2[i] = ends[i] /\ (i # top => kid2[i] = kid[i])
  <2>1. top \in 0 .. n /\ n + 1 \notin 0 .. n /\ n + 1 \in 0 .. n + 1
    BY <1>9
  <2> USE DEF KidAdded, EndAdded
  <2>2. ASSUME NEW i \in 0 .. n + 1  PROVE ends2[i] \in 0 .. n + 2
    <3>1. CASE i = n + 1
      BY <3>1
    <3>2. CASE i # n + 1
      <4>1. i \in 0 .. n
        BY <3>2
      <4> QED
        BY <1>9, <3>2, <4>1
    <3> QED
      BY <3>1, <3>2
  <2> QED
    BY <2>1, <2>2
<1>12. /\ open2 \in [1 .. last + 1 -> 0 .. n + 1] /\ open2[last + 1] = n + 1
       /\ \A s \in 1 .. last : open2[s] = open[s]
  BY <1>9
<1> HIDE DEF kid2, ends2, open2
<1>13. PICK m \in Nat : /\ m = Len(kid[top]) /\ m + 1 # 0
                        /\ Len(kid2[top]) = m + 1 /\ kid2[top][m + 1] = n + 1
  <2>1. kid[top] \in Seq(Nat)
    BY <1>9
  <2>2. Len(kid2[top]) = Len(kid[top]) + 1 /\ kid2[top][Len(kid[top]) + 1] = n + 1
    BY <1>10 DEF Sprouts
  <2>3. PICK m \in Nat : m = Len(kid[top])
    BY <2>1
  <2> QED
    BY <2>2, <2>3
<1>14. ASSUME NEW s \in 1 .. last  PROVE FrameSits(b2, on, kid2, ends2, open2, s)
  <2>1. FrameSits(b, frames, kid, ends, open, s)
    BY <1>9
  <2>2. /\ open2[s] = open[s] /\ open[s] \in 0 .. n
        /\ b2[open[s]] = b[open[s]] /\ ends2[open[s]] = ends[open[s]]
    BY <1>6, <1>9, <1>11, <1>12
  <2>3. Path(on, s) = Path(frames, s)
    <3>1. \A i \in 1 .. s - 1 : i + 1 \in 1 .. last
      OBVIOUS
    <3>2. \A i \in 1 .. s - 1 : on[i + 1].object = frames[i + 1].object
      BY <1>3, <1>4, <3>1
    <3> QED
      BY <3>2, SamePath
  <2>4. on[s].items = frames[s].items /\ on[s].block = frames[s].block
    BY <1>3, <1>4
  <2>5. CASE s = last
    <3>1. on[s].next = frames[s].next + 1 /\ Len(kid2[open[s]]) = m + 1 /\ Len(kid[open[s]]) = m
      BY <1>3, <1>4, <1>13, <2>5
    <3>2. Len(kid2[open[s]]) + 1 = on[s].next
      BY <2>1, <3>1 DEF FrameSits
    <3>3. Len(kid2[open[s]]) # 0 /\ kid2[open[s]][Len(kid2[open[s]])] = open2[s + 1]
      BY <1>12, <1>13, <2>5
    <3> QED
      BY <2>1, <2>2, <2>3, <2>4, <3>2, <3>3 DEF FrameSits
  <2>6. CASE s # last
    <3>1. open[s] # top /\ on[s].next = frames[s].next
      <4>1. s < last /\ last \in 1 .. last
        BY <2>6
      <4>2. open[s] < open[last]
        BY <1>9, <4>1
      <4>3. open[s] # open[last]
        BY <1>9, <2>2, <4>1, <4>2
      <4> QED
        BY <1>3, <1>4, <2>6, <4>3
    <3>2. kid2[open[s]] = kid[open[s]]
      BY <1>11, <2>2, <3>1
    <3>3. s < Len(frames) /\ open2[s + 1] = open[s + 1]
      <4>1. s + 1 \in 1 .. last
        BY <2>6
      <4> QED
        BY <1>3, <1>12, <4>1
    <3> QED
      BY <2>1, <2>2, <2>3, <2>4, <3>1, <3>2, <3>3 DEF FrameSits
  <2> QED
    BY <2>5, <2>6
<1>15. FrameSits(b2, on, kid2, ends2, open2, last + 1)
  <2>1. Path(on, last + 1) = Append(e.path, e.object)
    <3>1. e.path = Path(frames, last) /\ e.path \in Seq(Objects)
      BY <1>3 DEF Grows, Walk
    <3>2. PICK p \in Seq(Objects) : p = e.path
      BY <3>1
    <3>3. Len(p) = last - 1 /\ \A i \in 1 .. last - 1 : p[i] = frames[i + 1].object
      <4>1. DOMAIN p = 1 .. last - 1
        BY <3>1, <3>2 DEF Path
      <4>2. Len(p) \in Nat /\ DOMAIN p = 1 .. Len(p)
        OBVIOUS
      <4>3. Len(p) = last - 1
        BY <4>1, <4>2
      <4> QED
        BY <3>1, <3>2, <4>3 DEF Path
    <3>4. Append(p, e.object) = [i \in 1 .. last |-> IF i = last THEN e.object ELSE p[i]]
      <4>1. PICK k \in Nat : k = last - 1
        OBVIOUS
      <4>2. Append(p, e.object) = [i \in 1 .. k + 1 |-> IF i = k + 1 THEN e.object ELSE p[i]]
        BY <3>3, <4>1
      <4> QED
        BY <4>1, <4>2
    <3>5. \A i \in 1 .. last : on[i + 1].object = IF i = last THEN e.object ELSE p[i]
      <4>1. \A i \in 1 .. last : i # last => i + 1 \in 1 .. last /\ i \in 1 .. last - 1
        OBVIOUS
      <4> QED
        BY <1>3, <1>4, <3>3, <4>1
    <3>6. Path(on, last + 1) = [i \in 1 .. last |-> on[i + 1].object]
      BY DEF Path
    <3> QED
      BY <3>2, <3>4, <3>5, <3>6
  <2>2. Len(kid2[n + 1]) = 0
    BY <1>11
  <2>3. PICK k \in 0 .. n + 1 : k = n + 1 /\ open2[last + 1] = k
    BY <1>12
  <2>4. /\ ends2[k] = 0 /\ Len(kid2[k]) + 1 = f.next /\ b2[k].items = f.items
        /\ b2[k].at = f.block /\ b2[k].inside = Path(on, last + 1)
    <3>1. ends2[n + 1] = 0
      BY <1>11
    <3>2. Len(kid2[n + 1]) + 1 = f.next
      BY <2>2
    <3>3. b2[n + 1].inside = Path(on, last + 1)
      BY <1>7, <2>1
    <3> QED
      BY <1>7, <2>3, <3>1, <3>2, <3>3
  <2>5. ~(last + 1 < Len(on)) /\ on[last + 1] = f
    BY <1>4
  <2> QED
    BY <2>3, <2>4, <2>5 DEF FrameSits
<1>16. EndOf(kid2, ends2, n + 1) = n + 2
  <2>1. Len(kid2[n + 1]) = 0
    BY <1>11
  <2> QED
    BY <2>1 DEF EndOf
<1>17. ASSUME NEW i \in 0 .. n + 1, \A s \in 1 .. last + 1 : open2[s] # i
       PROVE  Closed(b2, kid2, ends2, i)
  <2>1. i \in 0 .. n
    BY <1>12, <1>17
  <2>2. \A s \in 1 .. last : s \in 1 .. last + 1 /\ open[s] # i
    BY <1>12, <1>17
  <2>3. Closed(b, kid, ends, i)
    BY <1>9, <2>1, <2>2
  <2>4. i # top
    <3>1. last \in 1 .. last
      OBVIOUS
    <3> QED
      BY <2>2, <3>1
  <2> QED
    BY <1>10, <2>1, <2>3, <2>4 DEF Sprouts
<1>18. \A s, t \in 1 .. last + 1 : s < t => open2[s] < open2[t]
  <2> SUFFICES ASSUME NEW s \in 1 .. last + 1, NEW t \in 1 .. last + 1, s < t
               PROVE  open2[s] < open2[t]
    OBVIOUS
  <2>1. s \in 1 .. last /\ open2[s] = open[s] /\ open[s] \in 0 .. n
    BY <1>9, <1>12
  <2>2. CASE t = last + 1
    BY <1>12, <2>1, <2>2
  <2>3. CASE t # last + 1
    BY <1>9, <1>12, <2>1, <2>3
  <2> QED
    BY <2>2, <2>3
<1>19. \A s \in 1 .. last + 1 : FrameSits(b2, on, kid2, ends2, open2, s)
  BY <1>14, <1>15
<1>20. open2[1] = 0
  BY <1>9, <1>12
<1>21. Tree(b2, more, on, kid2, ends2, open2)
  <2>1. n + 1 + 1 = n + 2 /\ open2[last + 1] = n + 1
    BY <1>12
  <2>2. /\ kid2 \in [0 .. n + 1 -> Seq(Nat)]
        /\ \A k \in 0 .. n + 1 : \A j \in DOMAIN kid2[k] : KidSound(b2, more, kid2, ends2, k, j)
    BY <1>10 DEF Sprouts
  <2> QED
    BY <1>4, <1>6, <1>11, <1>12, <1>16, <1>17, <1>18, <1>19, <1>20, <2>1, <2>2 DEF Tree
<1> QED
  BY <1>3, <1>4, <1>5, <1>21 DEF Grown, b2

\* A frame that is left is over.
LEMMA TreeLeave ==
  ASSUME NEW walks \in Seq(Walk), NEW frames \in Seq(Frames), NEW nested,
         NEW kid, NEW ends, NEW open,
         Tree(Branches(walks, frames, nested), walks, frames, kid, ends, open),
         Len(frames) > 1,
         frames[Len(frames)].next > Len(frames[Len(frames)].items)
  PROVE  Grown(walks, SubSeq(frames, 1, Len(frames) - 1), nested)
<1> DEFINE b == Branches(walks, frames, nested)
<1>1. PICK n \in Nat : n = Len(walks)
  OBVIOUS
<1>2. PICK last \in Nat : last + 1 = Len(frames) /\ last # 0 /\ DOMAIN frames = 1 .. last + 1
  <2>1. Len(frames) \in Nat /\ DOMAIN frames = 1 .. Len(frames) /\ Len(frames) - 1 \in Nat
    OBVIOUS
  <2>2. PICK k \in Nat : k = Len(frames) - 1
    BY <2>1
  <2>3. k + 1 = Len(frames) /\ k # 0
    BY <2>1, <2>2
  <2> QED
    BY <2>1, <2>3
<1>3. PICK on : /\ on = SubSeq(frames, 1, Len(frames) - 1) /\ Len(on) = last /\ DOMAIN on = 1 .. last
                /\ \A i \in 1 .. last : on[i] = frames[i]
  <2>1. Len(frames) - 1 = last /\ last \in 0 .. Len(frames)
    BY <1>2
  <2>2. /\ Len(SubSeq(frames, 1, last)) = last /\ DOMAIN SubSeq(frames, 1, last) = 1 .. last
        /\ \A i \in 1 .. last : SubSeq(frames, 1, last)[i] = frames[i]
    BY <1>2, <2>1
  <2> QED
    BY <2>1, <2>2
<1>4. Branches(walks, on, nested) = b
  <2>1. on[1] = frames[1]
    BY <1>2, <1>3
  <2> QED
    BY <2>1 DEF Branches
<1> HIDE DEF b
<1>5. Tree(b, walks, frames, kid, ends, open)
  BY DEF b
<1>6. /\ kid \in [0 .. n -> Seq(Nat)] /\ ends \in [0 .. n -> 0 .. n + 1]
      /\ open \in [1 .. last + 1 -> 0 .. n] /\ open[1] = 0
      /\ \A i \in 0 .. n : \A j \in DOMAIN kid[i] : KidSound(b, walks, kid, ends, i, j)
      /\ \A s \in 1 .. last + 1 : FrameSits(b, frames, kid, ends, open, s)
      /\ \A s, t \in 1 .. last + 1 : s < t => open[s] < open[t]
      /\ EndOf(kid, ends, open[last + 1]) = n + 1
      /\ \A i \in 0 .. n : (\A s \in 1 .. last + 1 : open[s] # i) => Closed(b, kid, ends, i)
  BY <1>1, <1>2, <1>5 DEF Tree
<1> DEFINE top == open[last + 1]
           ends2 == [i \in 0 .. n |-> IF i = top THEN n + 1 ELSE ends[i]]
           open2 == [s \in 1 .. last |-> open[s]]
<1>7. last + 1 \in 1 .. last + 1 /\ last \in 1 .. last + 1 /\ last \in 1 .. last /\ 1 \in 1 .. last
  BY <1>2
<1>8. top \in 0 .. n /\ ends[top] = 0 /\ FrameSits(b, frames, kid, ends, open, last + 1)
  BY <1>6, <1>7 DEF FrameSits
<1>9. /\ ends2 \in [0 .. n -> 0 .. n + 1] /\ ends2[top] = n + 1
      /\ \A i \in 0 .. n : i # top => ends2[i] = ends[i]
      /\ open2 \in [1 .. last -> 0 .. n] /\ \A s \in 1 .. last : open2[s] = open[s]
  <2>1. top \in 0 .. n
    BY <1>8
  <2>2. ends \in [0 .. n -> 0 .. n + 1] /\ n + 1 \in 0 .. n + 1
    BY <1>6
  <2>3. \A i \in 0 .. n : ends[i] \in 0 .. n + 1
    BY <2>2
  <2>4. ends2 \in [0 .. n -> 0 .. n + 1]
    BY <2>2, <2>3
  <2>5. ends2[top] = n + 1
    BY <2>1
  <2>6. \A i \in 0 .. n : i # top => ends2[i] = ends[i]
    OBVIOUS
  <2>7. \A s \in 1 .. last : s \in 1 .. last + 1
    BY <1>2
  <2>8. open \in [1 .. last + 1 -> 0 .. n]
    BY <1>6
  <2>9. \A s \in 1 .. last : open[s] \in 0 .. n
    BY <2>7, <2>8
  <2>10. open2 \in [1 .. last -> 0 .. n]
    BY <2>9
  <2>11. \A s \in 1 .. last : open2[s] = open[s]
    OBVIOUS
  <2> HIDE DEF ends2, open2, top
  <2> QED
    BY <2>4, <2>5, <2>6, <2>10, <2>11
<1> HIDE DEF ends2, open2
<1>10. ASSUME NEW i \in 0 .. n, NEW j \in DOMAIN kid[i]
       PROVE  /\ kid[i][j] \in 1 .. n
              /\ j # 1 => j - 1 \in DOMAIN kid[i] /\ kid[i][j - 1] # top
  <2>1. DOMAIN walks = 1 .. n
    BY <1>1
  <2>2. KidSound(b, walks, kid, ends, i, j)
    BY <1>6
  <2>3. kid[i][j] \in 1 .. n
    BY <2>1, <2>2 DEF KidSound
  <2>4. j # 1 => j - 1 \in DOMAIN kid[i]
    <3>1. kid[i] \in Seq(Nat)
      BY <1>6
    <3> QED
      BY <3>1
  <2>5. j # 1 => kid[i][j - 1] # top
    <3> SUFFICES ASSUME j # 1, kid[i][j - 1] = top  PROVE FALSE
      OBVIOUS
    <3>1. kid[i][j] = 0
      BY <1>8, <2>2 DEF KidSound
    <3> QED
      BY <2>3, <3>1
  <2> QED
    BY <2>3, <2>4, <2>5
<1>11. ASSUME NEW i \in 0 .. n, NEW j \in DOMAIN kid[i]
       PROVE  KidSound(b, walks, kid, ends2, i, j)
  <2>1. KidSound(b, walks, kid, ends, i, j)
    BY <1>6
  <2>2. j # 1 => ends2[kid[i][j - 1]] = ends[kid[i][j - 1]]
    <3> SUFFICES ASSUME j # 1  PROVE ends2[kid[i][j - 1]] = ends[kid[i][j - 1]]
      OBVIOUS
    <3>1. j - 1 \in DOMAIN kid[i] /\ kid[i][j - 1] # top
      BY <1>10
    <3>2. kid[i][j - 1] \in 1 .. n
      BY <1>10, <3>1
    <3>3. PICK k \in 0 .. n : k = kid[i][j - 1]
      BY <3>2
    <3> QED
      BY <1>9, <3>1, <3>3
  <2> QED
    BY <2>1, <2>2 DEF KidSound
<1>12. ASSUME NEW i \in 0 .. n, Closed(b, kid, ends, i)
       PROVE  Closed(b, kid, ends2, i)
  <2>1. i # top /\ ends2[i] = ends[i]
    BY <1>8, <1>9, <1>12 DEF Closed
  <2>2. CASE Len(kid[i]) = 0
    BY <1>12, <2>1, <2>2 DEF Closed, EndOf
  <2>3. CASE Len(kid[i]) # 0
    <3>1. PICK s \in Seq(Nat) : s = kid[i]
      BY <1>6
    <3>2. Len(s) \in DOMAIN s
      BY <2>3, <3>1
    <3>3. kid[i][Len(kid[i])] \in 1 .. n
      BY <1>10, <3>1, <3>2
    <3>4. ends[i] = ends[kid[i][Len(kid[i])]] /\ ends[i] # 0
      BY <1>12, <2>3 DEF Closed, EndOf
    <3>5. PICK k \in 0 .. n : k = kid[i][Len(kid[i])]
      BY <3>3
    <3>6. k # top /\ ends2[k] = ends[k]
      BY <1>8, <1>9, <3>4, <3>5
    <3> QED
      BY <1>12, <2>1, <2>3, <3>5, <3>6 DEF Closed, EndOf
  <2> QED
    BY <2>2, <2>3
<1>13. Closed(b, kid, ends2, top)
  <2>1. PICK s \in Seq(Nat) : s = kid[top]
    BY <1>6, <1>8
  <2>2. PICK m \in Nat : m = Len(s) /\ DOMAIN s = 1 .. m
    <3>1. Len(s) \in Nat /\ DOMAIN s = 1 .. Len(s)
      OBVIOUS
    <3> QED
      BY <3>1
  <2>3. m + 1 = frames[last + 1].next /\ b[top].items = frames[last + 1].items
    BY <1>8, <2>1, <2>2 DEF FrameSits
  <2>4. PICK l \in Nat : l = Len(frames[last + 1].items)
    <3>1. frames[last + 1] \in Frames
      BY <1>2, <1>7
    <3> QED
      BY <3>1 DEF Frames
  <2>5. m <= l
    <3>1. CASE m = 0
      BY <2>4, <3>1
    <3>2. CASE m # 0
      <4>1. m \in DOMAIN kid[top]
        BY <2>1, <2>2, <3>2
      <4>2. KidSound(b, walks, kid, ends, top, m)
        BY <1>6, <1>8, <4>1
      <4> QED
        BY <2>3, <2>4, <4>2 DEF KidSound
    <3> QED
      BY <3>1, <3>2
  <2>6. Len(kid[top]) = Len(b[top].items)
    <3>1. m + 1 > l
      BY <1>2, <2>3, <2>4
    <3> QED
      BY <2>1, <2>2, <2>3, <2>4, <2>5, <3>1
  <2>7. EndOf(kid, ends2, top) = n + 1
    <3>1. CASE m = 0
      BY <1>6, <2>1, <2>2, <3>1 DEF EndOf
    <3>2. CASE m # 0
      <4>1. m \in DOMAIN kid[top] /\ kid[top][m] \in 1 .. n
        BY <1>8, <1>10, <2>1, <2>2, <3>2
      <4>2. PICK k \in 0 .. n : k = kid[top][m]
        BY <4>1
      <4>3. ends[k] = n + 1
        BY <1>6, <2>1, <2>2, <3>2, <4>2 DEF EndOf
      <4>4. k # top /\ ends2[k] = n + 1
        BY <1>1, <1>8, <1>9, <4>2, <4>3
      <4> QED
        BY <2>1, <2>2, <3>2, <4>2, <4>4 DEF EndOf
    <3> QED
      BY <3>1, <3>2
  <2> QED
    BY <1>1, <1>9, <2>6, <2>7 DEF Closed
<1>14. ASSUME NEW i \in 0 .. n, \A s \in 1 .. last : open2[s] # i
       PROVE  Closed(b, kid, ends2, i)
  <2>1. CASE i = top
    BY <1>13, <2>1
  <2>2. CASE i # top
    <3>1. \A s \in 1 .. last + 1 : open[s] # i
      <4> SUFFICES ASSUME NEW s \in 1 .. last + 1, open[s] = i  PROVE FALSE
        OBVIOUS
      <4>1. s # last + 1
        BY <2>2
      <4>2. s \in 1 .. last
        BY <4>1
      <4> QED
        BY <1>9, <1>14, <4>2
    <3>2. Closed(b, kid, ends, i)
      BY <1>6, <3>1
    <3> QED
      BY <1>12, <3>2
  <2> QED
    BY <2>1, <2>2
<1>15. ASSUME NEW s \in 1 .. last
       PROVE  FrameSits(b, on, kid, ends2, open2, s)
  <2>1. s \in 1 .. last + 1 /\ last + 1 \in 1 .. last + 1 /\ s < last + 1
    OBVIOUS
  <2>2. FrameSits(b, frames, kid, ends, open, s)
    BY <1>6, <2>1
  <2>3. on[s] = frames[s]
    BY <1>3
  <2>4. open2[s] = open[s] /\ open[s] \in 0 .. n /\ open[s] # top
    <3>1. open[s] < open[last + 1]
      BY <1>6, <2>1
    <3>2. open[s] \in 0 .. n
      BY <1>6, <2>1
    <3>3. open[s] # open[last + 1]
      BY <1>8, <3>1, <3>2
    <3> QED
      BY <1>9, <3>2, <3>3
  <2>5. ends2[open[s]] = ends[open[s]]
    BY <1>9, <2>4
  <2>6. Path(on, s) = Path(frames, s)
    <3>1. \A i \in 1 .. s - 1 : i + 1 \in 1 .. last
      OBVIOUS
    <3>2. \A i \in 1 .. s - 1 : on[i + 1].object = frames[i + 1].object
      BY <1>3, <3>1
    <3> QED
      BY <3>2, SamePath
  <2>7. s < Len(on) => s < Len(frames) /\ open2[s + 1] = open[s + 1]
    <3>1. ASSUME s < last  PROVE open2[s + 1] = open[s + 1]
      <4>1. s + 1 \in 1 .. last
        BY <3>1
      <4> QED
        BY <1>9, <4>1
    <3> QED
      BY <1>2, <1>3, <3>1
  <2> QED
    BY <2>2, <2>3, <2>4, <2>5, <2>6, <2>7 DEF FrameSits
<1>16. EndOf(kid, ends2, open2[last]) = n + 1
  <2>1. FrameSits(b, frames, kid, ends, open, last) /\ last < Len(frames)
    BY <1>2, <1>6, <1>7
  <2>2. /\ Len(kid[open[last]]) # 0
        /\ kid[open[last]][Len(kid[open[last]])] = top
    BY <2>1 DEF FrameSits
  <2> QED
    BY <1>7, <1>9, <2>2 DEF EndOf
<1>17. \A s, t \in 1 .. last : s < t => open2[s] < open2[t]
  <2> SUFFICES ASSUME NEW s \in 1 .. last, NEW t \in 1 .. last, s < t
               PROVE  open2[s] < open2[t]
    OBVIOUS
  <2>1. s \in 1 .. last + 1 /\ t \in 1 .. last + 1
    OBVIOUS
  <2> QED
    BY <1>6, <1>9, <2>1
<1>18. Tree(b, walks, on, kid, ends2, open2)
  <2>1. open2[1] = 0
    BY <1>6, <1>7, <1>9
  <2> QED
    BY <1>1, <1>3, <1>6, <1>9, <1>11, <1>14, <1>15, <1>16, <1>17, <2>1 DEF Tree
<1> QED
  BY <1>3, <1>4, <1>18 DEF Grown

\* Before anything is walked there is one frame, around all that will be.
LEMMA TreeStart ==
  ASSUME NEW f \in Frames, f.next = 1, NEW nested
  PROVE  Grown(<<>>, <<f>>, nested)
<1> DEFINE b == Branches(<<>>, <<f>>, nested)
           kid == [i \in 0 .. 0 |-> <<>>]
           ends == [i \in 0 .. 0 |-> 0]
           open == [s \in 1 .. 1 |-> 0]
<1>1. Len(<<>>) = 0 /\ Len(<<f>>) = 1 /\ DOMAIN <<f>> = 1 .. 1 /\ <<f>>[1] = f
  OBVIOUS
<1>2. b[0].items = f.items /\ b[0].at = f.block /\ b[0].inside = <<>>
  BY <1>1 DEF Branches
<1>3. Path(<<f>>, 1) = <<>>
  BY DEF Path
<1> HIDE DEF b
<1>4. /\ 0 .. 0 = {0} /\ 1 .. 1 = {1} /\ kid[0] = <<>> /\ ends[0] = 0 /\ open[1] = 0 /\ DOMAIN kid[0] = {}
      /\ kid \in [0 .. 0 -> Seq(Nat)] /\ ends \in [0 .. 0 -> 0 .. 0 + 1] /\ open \in [1 .. 1 -> 0 .. 0]
  OBVIOUS
<1> HIDE DEF kid, ends, open
<1>5. FrameSits(b, <<f>>, kid, ends, open, 1)
  BY <1>1, <1>2, <1>3, <1>4 DEF FrameSits
<1>6. EndOf(kid, ends, open[1]) = 0 + 1
  BY <1>4 DEF EndOf
<1>7. Tree(b, <<>>, <<f>>, kid, ends, open)
  BY <1>1, <1>4, <1>5, <1>6 DEF Tree
<1> QED
  BY <1>7 DEF Grown, b

-----------------------------------------------------------------------------
(* The room that the records have.                                         *)

LEMMA RoomStart ==
  ASSUME NEW f \in Frames, f.next = 1, NEW n \in Nat, NEW end \in Nat,
         (n + Len(f.items)) * ValueSize + 8 <= end
  PROVE  RoomFor(n, <<f>>, end)
<1>1. PICK m \in Nat : m = Len(f.items)
  BY DEF Frames
<1> DEFINE g == [s \in 1 .. 1 |-> m]
<1>2. Len(<<f>>) = 1 /\ DOMAIN <<f>> = 1 .. 1 /\ <<f>>[1] = f /\ 1 .. 1 = {1}
  OBVIOUS
<1>3. g[1] = m /\ g \in [1 .. 1 -> Nat]
  BY <1>2
<1> HIDE DEF g
<1>4. Counts(<<f>>, g)
  BY <1>1, <1>2, <1>3 DEF Counts
<1>5. (n + g[1]) * ValueSize + 8 <= end
  BY <1>1, <1>3
<1> QED
  BY <1>2, <1>4, <1>5 DEF RoomFor

\* A record that is written has its room from now on.
LEMMA RoomOn ==
  ASSUME NEW frames \in Seq(Frames), frames # <<>>,
         frames[Len(frames)].next <= Len(frames[Len(frames)].items),
         NEW n \in Nat, NEW g, Counts(frames, g)
  PROVE  \E h : Counts(Onward(frames), h) /\ h[Len(frames)] + 1 = g[Len(frames)]
<1>1. PICK last \in Nat \ {0}, on \in Seq(Frames) :
        /\ on = Onward(frames) /\ last = Len(frames) /\ Len(on) = last
        /\ DOMAIN frames = 1 .. last /\ DOMAIN on = 1 .. last
        /\ \A i \in 1 .. last :
             /\ on[i].items = frames[i].items /\ on[i].block = frames[i].block
             /\ on[i].object = frames[i].object
             /\ i # last => on[i].next = frames[i].next
        /\ on[last].next = frames[last].next + 1
  BY OnwardFacts
<1>2. /\ g \in [1 .. last -> Nat]
      /\ \A s \in 1 .. last :
           /\ frames[s].next <= Len(frames[s].items) + 1
           /\ g[s] = (IF s = 1 THEN 0 ELSE g[s - 1]) + Len(frames[s].items) + 1 - frames[s].next
  BY <1>1 DEF Counts
<1>3. last \in 1 .. last
  OBVIOUS
<1>4. PICK m \in Nat, k \in Nat \ {0} : m = Len(frames[last].items) /\ k = frames[last].next
  <2>1. frames[last] \in Frames
    BY <1>1, <1>3
  <2>2. frames[last].next \in Nat \ {0} /\ frames[last].items \in Seq(Objects)
    BY <2>1 DEF Frames
  <2>3. Len(frames[last].items) \in Nat
    BY <2>2
  <2> QED
    BY <2>2, <2>3
<1>5. k <= m
  BY <1>1, <1>4
<1>6. PICK before \in Nat : before = IF last = 1 THEN 0 ELSE g[last - 1]
  <2>1. ASSUME last # 1  PROVE g[last - 1] \in Nat
    <3>1. last - 1 \in 1 .. last
      BY <2>1
    <3> QED
      BY <1>2, <3>1
  <2> QED
    BY <2>1
<1>7. g[last] = before + m + 1 - k
  BY <1>2, <1>3, <1>4, <1>6
<1> DEFINE h == [s \in 1 .. last |-> IF s = last THEN before + m - k ELSE g[s]]
<1>8. h \in [1 .. last -> Nat] /\ h[last] = before + m - k /\ \A s \in 1 .. last : s # last => h[s] = g[s]
  BY <1>2, <1>5
<1> HIDE DEF h
<1>9. ASSUME NEW s \in 1 .. last
      PROVE  /\ on[s].next <= Len(on[s].items) + 1
             /\ h[s] = (IF s = 1 THEN 0 ELSE h[s - 1]) + Len(on[s].items) + 1 - on[s].next
  <2>1. (IF s = 1 THEN 0 ELSE h[s - 1]) = (IF s = 1 THEN 0 ELSE g[s - 1])
    <3>1. s # 1 => s - 1 \in 1 .. last /\ s - 1 # last
      OBVIOUS
    <3> QED
      BY <1>8, <3>1
  <2>2. CASE s = last
    <3>1. on[s].next = k + 1 /\ Len(on[s].items) = m
      BY <1>1, <1>4, <2>2
    <3>2. (IF s = 1 THEN 0 ELSE h[s - 1]) = before
      BY <1>6, <2>1, <2>2
    <3>3. h[s] = before + m - k
      BY <1>8, <2>2
    <3> QED
      BY <1>5, <3>1, <3>2, <3>3
  <2>3. CASE s # last
    BY <1>1, <1>2, <1>8, <2>1, <2>3
  <2> QED
    BY <2>2, <2>3
<1>10. Counts(on, h)
  BY <1>1, <1>8, <1>9 DEF Counts
<1>11. h[last] + 1 = g[last]
  BY <1>7, <1>8
<1> QED
  BY <1>1, <1>10, <1>11

LEMMA RoomLeaf ==
  ASSUME NEW frames \in Seq(Frames), frames # <<>>,
         frames[Len(frames)].next <= Len(frames[Len(frames)].items),
         NEW n \in Nat, NEW end \in Nat, NEW more \in Nat, end <= more, RoomFor(n, frames, end)
  PROVE  RoomFor(n + 1, Onward(frames), more)
<1>1. PICK g : Counts(frames, g) /\ (n + g[Len(frames)]) * ValueSize + 8 <= end
  BY DEF RoomFor
<1>2. PICK h : Counts(Onward(frames), h) /\ h[Len(frames)] + 1 = g[Len(frames)]
  BY <1>1, RoomOn
<1>3. Len(Onward(frames)) = Len(frames) /\ DOMAIN Onward(frames) = 1 .. Len(frames)
  BY OnwardFacts
<1>4. PICK x \in Nat : x = h[Len(frames)]
  <2>1. Len(frames) \in 1 .. Len(frames)
    OBVIOUS
  <2> QED
    BY <1>2, <1>3, <2>1 DEF Counts
<1>5. (n + 1 + x) * ValueSize + 8 <= more
  BY <1>1, <1>2, <1>4 DEF ValueSize
<1> QED
  BY <1>2, <1>3, <1>4, <1>5 DEF RoomFor

LEMMA RoomPush ==
  ASSUME NEW frames \in Seq(Frames), frames # <<>>,
         frames[Len(frames)].next <= Len(frames[Len(frames)].items),
         NEW f \in Frames, f.next = 1,
         NEW n \in Nat, NEW end \in Nat, NEW more \in Nat, end + Len(f.items) * ValueSize <= more,
         RoomFor(n, frames, end)
  PROVE  RoomFor(n + 1, Append(Onward(frames), f), more)
<1>1. PICK g : Counts(frames, g) /\ (n + g[Len(frames)]) * ValueSize + 8 <= end
  BY DEF RoomFor
<1>2. PICK h : Counts(Onward(frames), h) /\ h[Len(frames)] + 1 = g[Len(frames)]
  BY <1>1, RoomOn
<1>3. PICK last \in Nat \ {0}, up \in Seq(Frames) :
        /\ up = Onward(frames) /\ last = Len(frames) /\ Len(up) = last /\ DOMAIN up = 1 .. last
  BY OnwardFacts
<1>4. PICK m \in Nat : m = Len(f.items)
  BY DEF Frames
<1>5. /\ h \in [1 .. last -> Nat]
      /\ \A s \in 1 .. last :
           /\ up[s].next <= Len(up[s].items) + 1
           /\ h[s] = (IF s = 1 THEN 0 ELSE h[s - 1]) + Len(up[s].items) + 1 - up[s].next
  BY <1>2, <1>3 DEF Counts
<1>6. PICK x \in Nat : x = h[last]
  <2>1. last \in 1 .. last
    OBVIOUS
  <2> QED
    BY <1>5, <2>1
<1>7. PICK on : /\ on = Append(up, f) /\ Len(on) = last + 1 /\ DOMAIN on = 1 .. last + 1
                /\ on[last + 1] = f /\ \A i \in 1 .. last : on[i] = up[i]
  <2>1. /\ Len(Append(up, f)) = last + 1 /\ DOMAIN Append(up, f) = 1 .. last + 1
        /\ Append(up, f)[last + 1] = f /\ \A i \in 1 .. last : Append(up, f)[i] = up[i]
    <3>1. /\ Len(Append(up, f)) = Len(up) + 1 /\ DOMAIN Append(up, f) = 1 .. Len(up) + 1
          /\ Append(up, f)[Len(up) + 1] = f /\ \A i \in 1 .. Len(up) : Append(up, f)[i] = up[i]
      OBVIOUS
    <3> QED
      BY <1>3, <3>1
  <2> QED
    BY <2>1, Zenon
<1> DEFINE i == [s \in 1 .. last + 1 |-> IF s = last + 1 THEN x + m ELSE h[s]]
<1>8. i \in [1 .. last + 1 -> Nat] /\ i[last + 1] = x + m /\ \A s \in 1 .. last : i[s] = h[s]
  BY <1>5
<1> HIDE DEF i
<1>9. ASSUME NEW s \in 1 .. last + 1
      PROVE  /\ on[s].next <= Len(on[s].items) + 1
             /\ i[s] = (IF s = 1 THEN 0 ELSE i[s - 1]) + Len(on[s].items) + 1 - on[s].next
  <2>1. CASE s = last + 1
    <3>1. on[s] = f /\ s # 1 /\ s - 1 = last /\ last \in 1 .. last
      BY <1>7, <2>1
    <3>2. i[s] = x + m /\ i[s - 1] = x
      BY <1>6, <1>8, <2>1, <3>1
    <3> QED
      BY <1>4, <3>1, <3>2
  <2>2. CASE s # last + 1
    <3>1. s \in 1 .. last /\ (s # 1 => s - 1 \in 1 .. last)
      BY <2>2
    <3>2. on[s] = up[s] /\ i[s] = h[s] /\ (s # 1 => i[s - 1] = h[s - 1])
      BY <1>7, <1>8, <3>1
    <3> QED
      BY <1>5, <3>1, <3>2
  <2> QED
    BY <2>1, <2>2
<1>10. Counts(on, i)
  BY <1>7, <1>8, <1>9 DEF Counts
<1>11. (n + 1 + i[last + 1]) * ValueSize + 8 <= more
  <2>1. (n + (x + 1)) * 12 + 8 <= end
    BY <1>1, <1>2, <1>3, <1>6 DEF ValueSize
  <2>2. end + m * 12 <= more
    BY <1>4 DEF ValueSize
  <2>3. (n + 1 + (x + m)) * 12 + 8 <= more
    BY <2>1, <2>2
  <2> QED
    BY <1>8, <2>3 DEF ValueSize
<1> QED
  BY <1>3, <1>7, <1>10, <1>11 DEF RoomFor

LEMMA RoomLeave ==
  ASSUME NEW frames \in Seq(Frames), Len(frames) > 1,
         frames[Len(frames)].next > Len(frames[Len(frames)].items),
         NEW n \in Nat, NEW end \in Nat, RoomFor(n, frames, end)
  PROVE  RoomFor(n, SubSeq(frames, 1, Len(frames) - 1), end)
<1>1. PICK g : Counts(frames, g) /\ (n + g[Len(frames)]) * ValueSize + 8 <= end
  BY DEF RoomFor
<1>2. PICK last \in Nat : last + 1 = Len(frames) /\ last # 0 /\ DOMAIN frames = 1 .. last + 1
  <2>1. Len(frames) \in Nat /\ DOMAIN frames = 1 .. Len(frames) /\ Len(frames) - 1 \in Nat
    OBVIOUS
  <2>2. PICK k \in Nat : k = Len(frames) - 1
    BY <2>1
  <2>3. k + 1 = Len(frames) /\ k # 0
    BY <2>1, <2>2
  <2> QED
    BY <2>1, <2>3
<1>3. PICK on : /\ on = SubSeq(frames, 1, Len(frames) - 1) /\ Len(on) = last /\ DOMAIN on = 1 .. last
                /\ \A i \in 1 .. last : on[i] = frames[i]
  <2>1. Len(frames) - 1 = last /\ last \in 0 .. Len(frames)
    BY <1>2
  <2>2. /\ Len(SubSeq(frames, 1, last)) = last /\ DOMAIN SubSeq(frames, 1, last) = 1 .. last
        /\ \A i \in 1 .. last : SubSeq(frames, 1, last)[i] = frames[i]
    BY <1>2, <2>1
  <2> QED
    BY <2>1, <2>2
<1>4. /\ g \in [1 .. last + 1 -> Nat]
      /\ \A s \in 1 .. last + 1 :
           /\ frames[s].next <= Len(frames[s].items) + 1
           /\ g[s] = (IF s = 1 THEN 0 ELSE g[s - 1]) + Len(frames[s].items) + 1 - frames[s].next
  BY <1>1, <1>2 DEF Counts
<1> DEFINE h == [s \in 1 .. last |-> g[s]]
<1>5. h \in [1 .. last -> Nat] /\ \A s \in 1 .. last : h[s] = g[s]
  BY <1>4
<1> HIDE DEF h
<1>6. Counts(on, h)
  <2> SUFFICES ASSUME NEW s \in 1 .. last
               PROVE  /\ on[s].next <= Len(on[s].items) + 1
                      /\ h[s] = (IF s = 1 THEN 0 ELSE h[s - 1]) + Len(on[s].items) + 1 - on[s].next
    BY <1>3, <1>5 DEF Counts
  <2>1. s \in 1 .. last + 1 /\ (s # 1 => s - 1 \in 1 .. last)
    OBVIOUS
  <2>2. on[s] = frames[s] /\ h[s] = g[s] /\ (s # 1 => h[s - 1] = g[s - 1])
    BY <1>3, <1>5, <2>1
  <2> QED
    BY <1>4, <2>1, <2>2
<1>7. g[last + 1] = g[last]
  <2>1. last + 1 \in 1 .. last + 1 /\ last + 1 # 1 /\ last + 1 - 1 = last /\ last \in 1 .. last + 1
    BY <1>2
  <2>2. PICK m \in Nat, k \in Nat \ {0} : m = Len(frames[last + 1].items) /\ k = frames[last + 1].next
    <3>1. frames[last + 1] \in Frames
      BY <1>2, <2>1
    <3>2. frames[last + 1].next \in Nat \ {0} /\ frames[last + 1].items \in Seq(Objects)
      BY <3>1 DEF Frames
    <3>3. Len(frames[last + 1].items) \in Nat
      BY <3>2
    <3> QED
      BY <3>2, <3>3
  <2>3. PICK x \in Nat, y \in Nat : x = g[last] /\ y = g[last + 1]
    <3>1. g[last] \in Nat /\ g[last + 1] \in Nat
      BY <1>4, <2>1
    <3> QED
      BY <3>1
  <2>4. k <= m + 1 /\ y = x + m + 1 - k
    BY <1>4, <2>1, <2>2, <2>3
  <2>5. k > m
    BY <1>2, <2>2
  <2> QED
    BY <2>3, <2>4, <2>5
<1>8. h[last] = g[Len(frames)]
  <2>1. last \in 1 .. last
    BY <1>2
  <2> QED
    BY <1>2, <1>5, <1>7, <2>1
<1> QED
  BY <1>1, <1>3, <1>6, <1>8 DEF RoomFor

LEMMA RoomTold ==
  ASSUME NEW frames \in Seq(Frames), frames # <<>>,
         NEW n \in Nat, NEW end \in Nat, RoomFor(n, frames, end)
  PROVE  /\ n * ValueSize + 8 <= end
         /\ \A more \in Nat : end <= more => RoomFor(n, frames, more)
<1>1. PICK g : Counts(frames, g) /\ (n + g[Len(frames)]) * ValueSize + 8 <= end
  BY DEF RoomFor
<1>2. PICK x \in Nat : x = g[Len(frames)]
  <2>1. Len(frames) \in DOMAIN frames
    OBVIOUS
  <2> QED
    BY <1>1, <2>1 DEF Counts
<1>3. n * 12 + 8 <= end
  BY <1>1, <1>2 DEF ValueSize
<1>4. ASSUME NEW more \in Nat, end <= more  PROVE (n + x) * ValueSize + 8 <= more
  BY <1>1, <1>2, <1>4 DEF ValueSize
<1> QED
  BY <1>1, <1>2, <1>3, <1>4 DEF RoomFor, ValueSize

-----------------------------------------------------------------------------
(* What a step keeps.                                                      *)

LEMMA SamePurpose ==
  ASSUME purpose' = purpose
  PROVE  /\ Nested' = Nested
         /\ \A e : (Whole(e)' <=> Whole(e)) /\ (Handled(e)' <=> Handled(e))
BY DEF Nested, Whole, Handled

LEMMA SaysStays ==
  ASSUME IInv, StepIsFinal
  PROVE  \A w, x : Says(w, x) => Says(w, x)'
<1>1. DOMAIN region = Index
  BY DEF IInv, Typed
<1> SUFFICES ASSUME NEW w, NEW x, Says(w, x)  PROVE Says(w, x)'
  OBVIOUS
<1>2. w \in Index /\ Final(w) /\ region[w] = x
  BY DEF Says
<1>3. Final(w)' /\ region'[w] = region[w]
  BY <1>1, <1>2 DEF StepIsFinal
<1> QED
  BY <1>2, <1>3 DEF Says

\* The record of a walk, and what it takes, stay where they are.
LEMMA RecordStays ==
  ASSUME IInv, StepIsFinal, purpose' = purpose, NEW e \in Walk, RecordSays(e), Placed(e),
         arena'.offset \in Nat, arena'.offset >= arena.offset
  PROVE  RecordSays(e)' /\ Placed(e)'
<1>1. (Whole(e)' <=> Whole(e)) /\ (Handled(e)' <=> Handled(e))
  BY SamePurpose
<1>2. Form(e)' = Form(e) /\ Payload(e)' = Payload(e) /\ TextAt(e)' = TextAt(e)
  BY <1>1 DEF Form, Payload, TextAt
<1>3. \A w, x : Says(w, x) => Says(w, x)'
  BY SaysStays
<1>4. TextSays(e)'
  <2>1. ASSUME e.object \notin Ints, ~Whole(e), NEW i \in 1 .. Words(Length[e.object])
        PROVE  Says(TextAt(e) \div Word + i - 1, e.object)'
    <3>1. Says(TextAt(e) \div Word + i - 1, e.object)
      BY <2>1 DEF RecordSays, TextSays
    <3>2. PICK w : w = TextAt(e) \div Word + i - 1 /\ w = (TextAt(e) \div Word + i - 1)'
      BY <1>2
    <3>3. Says(w, e.object)'
      BY <1>3, <3>1, <3>2
    <3> QED
      BY <3>2, <3>3 DEF Says
  <2> QED
    BY <1>1, <2>1 DEF TextSays
<1>5. RecordSays(e)'
  <2>1. PICK f : f = Form(e) /\ f = Form(e)'
    BY <1>2
  <2>2. /\ Says(e.at \div Word, f[1])
        /\ ~Handled(e) => Says(e.at \div Word + 1, f[2])
        /\ Says(e.at \div Word + 2, f[3])
        /\ Handled(e) => Says(e.place \div Word, Length[e.object])
    BY <2>1 DEF RecordSays
  <2>3. /\ Says(e.at \div Word, f[1])'
        /\ ~Handled(e) => Says(e.at \div Word + 1, f[2])'
        /\ Says(e.at \div Word + 2, f[3])'
        /\ Handled(e) => Says(e.place \div Word, Length[e.object])'
    BY <1>3, <2>2
  <2> QED
    BY <1>1, <1>4, <2>1, <2>3 DEF RecordSays, Says
<1>6. Placed(e)'
  <2>1. PICK p \in Nat : p = Payload(e) /\ p = Payload(e)'
    <3>1. Payload(e) \in Nat
      <4>1. e.object \in Objects /\ e.items \in Seq(Objects)
        BY DEF Walk
      <4>2. Length[e.object] \in Nat /\ Len(e.items) \in Nat
        BY <4>1, ObjectFacts
      <4> QED
        BY <4>2 DEF Payload, ClassHeader, ValueSize
    <3> QED
      BY <1>2, <3>1
  <2>2. e.at \in Nat /\ e.place \in Nat /\ Base \in Nat /\ arena.offset \in Nat
    BY RegionFacts DEF Walk, IInv, Typed
  <2>3. /\ e.at + ValueSize <= Base + arena'.offset
        /\ e.place + p <= Base + arena.offset => e.place + p <= Base + arena'.offset
    BY <2>2 DEF Placed, ValueSize
  <2> QED
    BY <1>1, <2>1, <2>3 DEF Placed
<1> QED
  BY <1>5, <1>6

\* The records that there are stay, and those of the handles have their place in the ledger.
LEMMA RecordsStay ==
  ASSUME IInv, StepIsFinal, purpose' = purpose, Logged, RecordsKept,
         arena'.offset \in Nat, arena'.offset >= arena.offset
  PROVE  \A e \in Range(log) : e \in Walk /\ RecordSays(e)' /\ Placed(e)'
<1> SUFFICES ASSUME NEW e \in Range(log)  PROVE e \in Walk /\ RecordSays(e)' /\ Placed(e)'
  OBVIOUS
<1>1. e \in Walk
  BY DEF Range, Logged
<1>2. RecordSays(e) /\ Placed(e)
  BY DEF RecordsKept
<1> QED
  BY <1>1, <1>2, RecordStays

LEMMA RootStays ==
  ASSUME IInv, StepIsFinal, purpose' = purpose, RootSays, stack # <<>>,
         stack'[1].object = stack[1].object, stack'[1].items = stack[1].items,
         stack'[1].block = stack[1].block
  PROVE  RootSays'
<1>1. \A w, x : Says(w, x) => Says(w, x)'
  BY SaysStays
<1>2. PICK n : n = Len(stack[1].items)
  OBVIOUS
<1>3. n = Len(stack'[1].items)
  BY <1>2
<1>4. CASE purpose = "arguments"
  <2>1. /\ Says(Base \div Word, KindTuple) /\ Says(Base \div Word + 1, n)
        /\ Says(Base \div Word + 2, Base + TransferSize)
    BY <1>2, <1>4 DEF RootSays
  <2>2. /\ Says(Base \div Word, KindTuple)' /\ Says(Base \div Word + 1, n)'
        /\ Says(Base \div Word + 2, Base + TransferSize)'
    BY <1>1, <2>1
  <2>3. Says(Base \div Word + 1, Len(stack[1].items))'
    BY <1>3, <2>2 DEF Says
  <2> QED
    BY <1>4, <2>2, <2>3 DEF RootSays
<1>5. CASE purpose # "arguments"
  <2>1. stack[1].items = <<>> => Says(Base \div Word, KindNone)'
    BY <1>1, <1>5 DEF RootSays
  <2> QED
    BY <1>5, <2>1 DEF RootSays
<1> QED
  BY <1>4, <1>5

\* What a step of the walk writes is final, but for the id of a handle.
LEMMA FreshIsFinal ==
  ASSUME IInv, Apart, NEW o, WalksOn(o), NEW w \in Index,
         \/ w * Word = RecordAt
         \/ w * Word = RecordAt + Word /\ pending' = pending
         \/ w * Word = RecordAt + 2 * Word
         \/ Base + arena.offset <= w * Word /\ w * Word < Base + arena'.offset /\ stack' = Advanced
  PROVE  Final(w)'
<1>1. Walks(o) /\ phase = "writing" /\ phase' = "writing" /\ committed' = committed
  BY DEF WalksOn, Walks
<1>2. RecordsWritten(pending, stack)
  BY <1>1 DEF Apart
<1>3. PICK at \in Nat, end \in Nat, used \in Nat :
        /\ at = RecordAt /\ at + 12 <= end /\ end <= used /\ used = Base + arena.offset
        /\ Start(stack[Len(stack)]) = at /\ End(stack[Len(stack)]) = end /\ Len(stack) \in DOMAIN stack
  <2>1. /\ Len(stack) \in DOMAIN stack
        /\ RecordAt = Start(stack[Len(stack)])
        /\ RecordAt + ValueSize <= End(stack[Len(stack)])
    BY <1>1, TopFacts
  <2>2. /\ Start(stack[Len(stack)]) \in Nat /\ End(stack[Len(stack)]) \in Nat
        /\ End(stack[Len(stack)]) <= Base + arena.offset
    BY <1>1, <2>1, FramesUsed
  <2>3. Base + arena.offset \in Nat
    BY RegionFacts DEF IInv, Typed
  <2> QED
    BY <2>1, <2>2, <2>3 DEF ValueSize
<1>4. \A k \in DOMAIN pending : pending[k].at \in Nat /\ pending[k].at + 12 <= used
  BY <1>1, <1>3, PendingUsed
<1>5. \A k \in DOMAIN pending : pending[k].at + 12 <= at \/ pending[k].at >= end
  BY <1>2, <1>3 DEF RecordsWritten, ValueSize
<1>6. PICK a \in Nat : a = w * Word
  BY WordFacts
<1>7. \/ a = at
      \/ a = at + 4 /\ pending' = pending
      \/ a = at + 8
      \/ used <= a /\ a < Base + arena'.offset /\ stack' = Advanced
  <2>1. CASE w * Word = RecordAt
    BY <1>3, <1>6, <2>1
  <2>2. CASE w * Word = RecordAt + Word /\ pending' = pending
    BY <1>3, <1>6, <2>2 DEF Word
  <2>3. CASE w * Word = RecordAt + 2 * Word
    <3>1. a = at + 2 * 4
      BY <1>3, <1>6, <2>3 DEF Word
    <3> QED
      BY <3>1
  <2>4. CASE Base + arena.offset <= w * Word /\ w * Word < Base + arena'.offset /\ stack' = Advanced
    BY <1>3, <1>6, <2>4
  <2> QED
    BY <2>1, <2>2, <2>3, <2>4
<1>8. ~OpenId(a)'
  <2> SUFFICES ASSUME NEW k \in DOMAIN pending', a = pending'[k].at + 4  PROVE FALSE
    BY DEF OpenId, Word
  <2>1. CASE k \in DOMAIN pending /\ pending'[k] = pending[k]
    <3>1. PICK x \in Nat : x = pending[k].at
      BY <1>4, <2>1
    <3>2. (x + 12 <= at \/ x >= end) /\ x + 12 <= used /\ a = x + 4
      BY <1>4, <1>5, <2>1, <3>1
    <3> QED
      BY <1>3, <1>7, <3>2
  <2>2. CASE k = Len(pending) + 1 /\ pending'[k].at = RecordAt
    <3>1. a = at + 4
      BY <1>3, <2>2
    <3>2. pending' # pending
      <4>1. Len(pending) + 1 \notin DOMAIN pending
        BY DEF IInv, Typed
      <4> QED
        BY <2>2, <4>1
    <3> QED
      BY <1>3, <1>7, <3>1, <3>2
  <2> QED
    BY <2>1, <2>2, PendingOn
<1>9. Fresh(w)
  BY <1>3, <1>6, <1>7 DEF Fresh, ValueSize
<1> QED
  BY <1>6, <1>8, <1>9, WalksOnFinal

-----------------------------------------------------------------------------
(* The words that a step of the walk writes.                               *)

LEMMA PutWords ==
  ASSUME NEW mem \in [Index -> Int], NEW words \in Seq(Int), NEW at \in Nat,
         NEW i \in DOMAIN words, at \div Word + i - 1 \in Index
  PROVE  Put(mem, at, words)[at \div Word + i - 1] = words[i]
<1>1. PICK q \in Int, n \in Nat : q = at \div Word /\ n = i
  BY DEF Word
<1>2. (q + n - 1) - q + 1 = n
  OBVIOUS
<1>3. DOMAIN mem = Index
  OBVIOUS
<1> QED
  BY <1>1, <1>2, <1>3 DEF Put

\* The words of a region that lie before an address stay as they are.
LEMMA PutLeaves ==
  ASSUME NEW mem \in [Index -> Int], NEW words \in Seq(Int), NEW at \in Nat, at % Word = 0,
         NEW w \in Index, w * Word < at
  PROVE  Put(mem, at, words)[w] = mem[w]
<1>1. w * Word \in Nat
  BY WordFacts
<1>2. CASE Put(mem, at, words)[w] # mem[w]
  <2>1. at <= w * Word
    BY <1>2, PutChanges
  <2> QED
    BY <1>1, <2>1
<1> QED
  BY <1>2

LEMMA PutTextWords ==
  ASSUME NEW mem \in [Index -> Int], NEW n \in Nat, NEW x \in Int, NEW at \in Nat, at % Word = 0
  PROVE  /\ PutText(mem, at, n, x) \in [Index -> Int]
         /\ \A i \in 1 .. Words(n) : at \div Word + i - 1 \in Index =>
              PutText(mem, at, n, x)[at \div Word + i - 1] = x
         /\ \A w \in Index : w * Word < at => PutText(mem, at, n, x)[w] = mem[w]
<1>1. PICK k \in Nat : k = Words(n)
  BY AlignedFacts
<1>2. PICK words \in Seq(Int) : words = [i \in 1 .. k |-> x] /\ Len(words) = k
  <2>1. [i \in 1 .. k |-> x] \in Seq(Int) /\ Len([i \in 1 .. k |-> x]) = k
    OBVIOUS
  <2> QED
    BY <2>1, Zenon
<1>3. PutText(mem, at, n, x) = Put(mem, at, words)
  BY <1>1, <1>2 DEF PutText
<1>4. Put(mem, at, words) \in [Index -> Int]
  BY PutType
<1>5. ASSUME NEW i \in 1 .. k, at \div Word + i - 1 \in Index
      PROVE  Put(mem, at, words)[at \div Word + i - 1] = x
  <2>1. i \in DOMAIN words /\ words[i] = x
    BY <1>2
  <2>2. Put(mem, at, words)[at \div Word + i - 1] = words[i]
    BY <1>5, <2>1, PutWords
  <2> QED
    BY <2>1, <2>2
<1>6. ASSUME NEW w \in Index, w * Word < at  PROVE Put(mem, at, words)[w] = mem[w]
  BY <1>6, PutLeaves
<1> QED
  BY <1>1, <1>3, <1>4, <1>5, <1>6

\* The number of the word at an address, and of those that follow.
LEMMA WordAt ==
  ASSUME NEW a \in Nat, a % Word = 0
  PROVE  /\ a \div Word \in Nat
         /\ \A i \in Nat : (a \div Word + i) * Word = a + i * Word
         /\ \A i \in Nat : (a + i * Word) \div Word = a \div Word + i
<1>1. PICK q \in Nat : a = 4 * q
  BY DEF Word
<1>2. a \div 4 = q
  BY <1>1
<1>3. \A i \in Nat : (q + i) * 4 = a + i * 4 /\ (a + i * 4) \div 4 = q + i
  BY <1>1
<1> QED
  BY <1>2, <1>3 DEF Word

LEMMA WordInRegion ==
  ASSUME NEW w \in Nat, Base <= w * Word, w * Word < Base + Capacity
  PROVE  w \in Index
<1>1. PICK b \in Nat : Base = 4 * b
  BY RegionFacts DEF Word
<1>2. PICK c \in Nat : Capacity = 4 * c
  BY RegionFacts DEF Word
<1>3. Base \div 4 = b /\ (Base + Capacity) \div 4 = b + c
  BY <1>1, <1>2
<1>4. b <= w /\ w < b + c
  BY <1>1, <1>2 DEF Word
<1> QED
  BY <1>3, <1>4 DEF Index, Word

\* Where the next record goes, in words.
LEMMA RecordWords ==
  ASSUME IInv, NEW o, Walks(o)
  PROVE  /\ RecordAt \in Nat /\ RecordAt % Word = 0
         /\ RecordAt + ValueSize <= Base + arena.offset
         /\ \A i \in 0 .. 2 : RecordAt \div Word + i \in Index
                              /\ (RecordAt \div Word + i) * Word = RecordAt + i * Word
<1>1. RecordAt \in Nat /\ RecordAt % Word = 0 /\ RecordAt >= Base
  <2>1. RecordAt \in Nat /\ RecordAt % Word = 0 /\ (RecordAt = Base \/ RecordAt >= Base + 20)
    BY WalkFacts DEF TransferSize
  <2> QED
    BY <2>1, RegionFacts
<1>2. RecordAt + 12 <= Base + arena.offset
  <2>1. phase = "writing"
    BY DEF Walks
  <2>2. PICK i \in DOMAIN stack : i = Len(stack)
    BY TopFacts
  <2>3. RecordAt + 12 <= End(stack[i])
    BY <2>2, TopFacts DEF ValueSize
  <2>4. End(stack[i]) \in Nat /\ End(stack[i]) <= Base + arena.offset
    BY <2>1, FramesUsed
  <2>5. Base + arena.offset \in Nat
    BY RegionFacts DEF IInv, Typed
  <2> QED
    BY <1>1, <2>3, <2>4, <2>5
<1>3. arena.offset \in 0 .. Capacity /\ Base \in Nat /\ Capacity \in Nat
  BY RegionFacts DEF IInv, Typed
<1>4. ASSUME NEW i \in 0 .. 2
      PROVE  RecordAt \div Word + i \in Index /\ (RecordAt \div Word + i) * Word = RecordAt + i * Word
  <2>1. /\ RecordAt \div Word \in Nat /\ i \in Nat
        /\ (RecordAt \div Word + i) * Word = RecordAt + i * Word
    BY <1>1, WordAt
  <2>2. PICK w \in Nat : w = RecordAt \div Word + i
    BY <2>1
  <2>3. w * Word = RecordAt + i * 4
    BY <2>1, <2>2 DEF Word
  <2>4. Base <= w * Word /\ w * Word < Base + Capacity
    BY <1>1, <1>2, <1>3, <2>3
  <2>5. w \in Index
    BY <2>4, WordInRegion
  <2> QED
    BY <2>1, <2>2, <2>5
<1> QED
  BY <1>1, <1>2, <1>4 DEF ValueSize

\* The words of the next record.
RecordIn(mem, kind, w1, w2) ==
  /\ mem \in [Index -> Int]
  /\ mem[RecordAt \div Word] = kind
  /\ mem[RecordAt \div Word + 1] = w1
  /\ mem[RecordAt \div Word + 2] = w2

\* A record is there when it is written.
LEMMA RecordPut ==
  ASSUME IInv, NEW o, Walks(o), NEW kind \in Int, NEW w1 \in Int, NEW w2 \in Int
  PROVE  RecordIn(Put(region, RecordAt, Record(kind, w1, w2)), kind, w1, w2)
<1>1. PICK rec \in Seq(Int) : rec = Record(kind, w1, w2) /\ DOMAIN rec = 1 .. 3
                              /\ rec[1] = kind /\ rec[2] = w1 /\ rec[3] = w2
  <2>1. /\ <<kind, w1, w2>> \in Seq(Int) /\ DOMAIN <<kind, w1, w2>> = 1 .. 3
        /\ <<kind, w1, w2>>[1] = kind /\ <<kind, w1, w2>>[2] = w1 /\ <<kind, w1, w2>>[3] = w2
    OBVIOUS
  <2>2. Record(kind, w1, w2) = <<kind, w1, w2>>
    BY DEF Record
  <2> QED
    BY <2>1, <2>2
<1>2. region \in [Index -> Int]
  BY DEF IInv, Typed
<1>3. PICK at \in Nat : at = RecordAt /\ at % Word = 0
  BY RecordWords
<1>4. PICK q \in Nat : q = at \div Word
  BY <1>3, WordAt
<1>5. q \in Index /\ q + 1 \in Index /\ q + 2 \in Index
  <2>1. \A i \in 0 .. 2 : q + i \in Index
    BY <1>3, <1>4, RecordWords
  <2>2. q + 0 \in Index /\ q + 1 \in Index /\ q + 2 \in Index
    BY <2>1
  <2> QED
    BY <2>2
<1>6. ASSUME NEW i \in 1 .. 3, q + i - 1 \in Index
      PROVE  Put(region, at, rec)[q + i - 1] = rec[i]
  <2>1. at \div Word + i - 1 \in Index /\ i \in DOMAIN rec
    BY <1>1, <1>4, <1>6
  <2>2. Put(region, at, rec)[at \div Word + i - 1] = rec[i]
    BY <1>2, <2>1, PutWords
  <2> QED
    BY <1>4, <2>2
<1>7. q + 1 - 1 = q /\ q + 2 - 1 = q + 1 /\ q + 3 - 1 = q + 2
  OBVIOUS
<1>8. Put(region, at, rec)[q] = rec[1] /\ Put(region, at, rec)[q + 1] = rec[2]
      /\ Put(region, at, rec)[q + 2] = rec[3]
  <2>1. Put(region, at, rec)[q + 1 - 1] = rec[1]
    BY <1>5, <1>6, <1>7
  <2>2. Put(region, at, rec)[q + 2 - 1] = rec[2]
    BY <1>5, <1>6, <1>7
  <2>3. Put(region, at, rec)[q + 3 - 1] = rec[3]
    BY <1>5, <1>6, <1>7
  <2> QED
    BY <1>7, <2>1, <2>2, <2>3
<1>9. Put(region, at, rec) \in [Index -> Int]
  BY <1>1, <1>2, <1>3, PutType
<1> QED
  BY <1>1, <1>3, <1>4, <1>8, <1>9 DEF RecordIn

-----------------------------------------------------------------------------
(* What it writes is said for good.                                        *)

LEMMA RecordIsSaid ==
  ASSUME IInv, Apart, NEW o, WalksOn(o), NEW at \in Nat, at = RecordAt, NEW x1, NEW x2, NEW x3,
         region'[at \div Word] = x1,
         pending' = pending => region'[at \div Word + 1] = x2,
         region'[at \div Word + 2] = x3
  PROVE  /\ Says(at \div Word, x1)'
         /\ pending' = pending => Says(at \div Word + 1, x2)'
         /\ Says(at \div Word + 2, x3)'
<1>1. Walks(o)
  BY DEF WalksOn
<1>2. PICK q : q = at \div Word
  OBVIOUS
<1>3. \A i \in 0 .. 2 : q + i \in Index /\ (q + i) * Word = at + i * Word
  BY <1>1, <1>2, RecordWords
<1>4. q \in Nat
  <2>1. at % Word = 0
    BY <1>1, RecordWords
  <2> QED
    BY <1>2, <2>1, WordAt
<1>5. q \in Index /\ q * Word = at
  <2>1. q + 0 \in Index /\ (q + 0) * Word = at + 0 * Word
    BY <1>3
  <2>2. q + 0 = q /\ at + 0 * Word = at
    BY <1>4 DEF Word
  <2> QED
    BY <2>1, <2>2
<1>6. q + 1 \in Index /\ (q + 1) * Word = at + Word
  <2>1. q + 1 \in Index /\ (q + 1) * Word = at + 1 * Word
    BY <1>3
  <2>2. at + 1 * Word = at + Word
    BY DEF Word
  <2> QED
    BY <2>1, <2>2
<1>7. q + 2 \in Index /\ (q + 2) * Word = at + 2 * Word
  BY <1>3
<1>8. Final(q)'
  BY <1>5, FreshIsFinal
<1>9. pending' = pending => Final(q + 1)'
  <2> SUFFICES ASSUME pending' = pending  PROVE Final(q + 1)'
    OBVIOUS
  <2>1. PICK w \in Index : w = q + 1 /\ w * Word = RecordAt + Word
    BY <1>6
  <2>2. Final(w)'
    BY <2>1, FreshIsFinal
  <2> QED
    BY <2>1, <2>2
<1>10. Final(q + 2)'
  <2>1. PICK w \in Index : w = q + 2 /\ w * Word = RecordAt + 2 * Word
    BY <1>7
  <2>2. Final(w)'
    BY <2>1, FreshIsFinal
  <2> QED
    BY <2>1, <2>2
<1> QED
  BY <1>2, <1>5, <1>6, <1>7, <1>8, <1>9, <1>10 DEF Says

LEMMA WordsFit ==
  ASSUME NEW n \in Nat, NEW i \in 1 .. Words(n)
  PROVE  i \in Nat \ {0} /\ (i - 1) * Word < n
<1>1. Words(n) = (n + 3) \div 4
  BY DEF Words, Aligned, Word
<1>2. PICK k \in Nat : k = (n + 3) \div 4
  OBVIOUS
<1>3. i \in Nat \ {0} /\ i <= k
  BY <1>1, <1>2
<1>4. k * 4 <= n + 3
  BY <1>2
<1>5. (i - 1) * 4 < n
  BY <1>3, <1>4
<1> QED
  BY <1>3, <1>5 DEF Word

\* The same of words in what is allocated, if no frame takes it.
LEMMA TextIsSaid ==
  ASSUME IInv, Apart, NEW o, WalksOn(o), stack' = Advanced, arena'.offset \in 0 .. Capacity,
         NEW at \in Nat, at % Word = 0, NEW n \in Nat, NEW x,
         Base + arena.offset <= at, at + n <= Base + arena'.offset,
         \A i \in 1 .. Words(n) : at \div Word + i - 1 \in Index =>
           region'[at \div Word + i - 1] = x
  PROVE  \A i \in 1 .. Words(n) : Says(at \div Word + i - 1, x)'
<1> SUFFICES ASSUME NEW i \in 1 .. Words(n)
             PROVE  Says(at \div Word + i - 1, x)'
  OBVIOUS
<1>1. i \in Nat \ {0} /\ (i - 1) * Word < n
  BY WordsFit
<1>2. PICK j \in Nat : j = i - 1
  BY <1>1
<1>3. PICK q \in Nat : q = at \div Word /\ (q + j) * Word = at + j * Word
  BY WordAt
<1>4. PICK w \in Nat : w = q + j /\ w = at \div Word + i - 1
  BY <1>1, <1>2, <1>3
<1>5. w * Word = at + j * 4 /\ j * 4 < n /\ Base \in Nat /\ Capacity \in Nat /\ arena.offset \in Nat
  BY <1>1, <1>2, <1>3, <1>4, RegionFacts DEF Word, IInv, Typed
<1>6. PICK a \in Nat : a = w * Word
  BY <1>5
<1>7. Base + arena.offset <= a /\ a < Base + arena'.offset
  <2>1. PICK more \in Nat : more = Base + arena'.offset
    BY <1>5
  <2>2. PICK used \in Nat : used = Base + arena.offset
    BY <1>5
  <2>3. used <= at /\ at + n <= more /\ a = at + j * 4
    BY <1>5, <1>6, <2>1, <2>2
  <2>4. used <= a /\ a < more
    BY <1>5, <2>3
  <2> QED
    BY <2>1, <2>2, <2>4
<1>8. Base <= a /\ a < Base + Capacity
  BY <1>5, <1>7
<1>9. w \in Index
  BY <1>6, <1>8, WordInRegion
<1>10. Final(w)'
  BY <1>6, <1>7, <1>9, FreshIsFinal
<1>11. region'[w] = x
  BY <1>4, <1>9
<1> QED
  BY <1>4, <1>9, <1>10, <1>11 DEF Says

\* A step of the walk is written down.
Logs(e, o, held) ==
  /\ e \in Walk
  /\ e.object = o /\ e.items = held /\ e.path = Around
  /\ e.at = RecordAt /\ e.place = Place(arena)
  /\ log' = Append(log, e)

\* The record of the walk, from what it writes there.
LEMMA FormIsSaid ==
  ASSUME IInv, Apart, NEW o, WalksOn(o), purpose' = purpose, NEW e, NEW held, Logs(e, o, held),
         region'[e.at \div Word] = Form(e)[1],
         pending' = pending => region'[e.at \div Word + 1] = Form(e)[2],
         region'[e.at \div Word + 2] = Form(e)[3],
         ~Handled(e) => pending' = pending,
         Handled(e) => Says(e.place \div Word, Length[e.object])',
         TextSays(e)'
  PROVE  RecordSays(e)'
<1>1. (Whole(e)' <=> Whole(e)) /\ (Handled(e)' <=> Handled(e))
  BY SamePurpose
<1>2. PICK f : f = Form(e) /\ f = Form(e)'
  BY <1>1 DEF Form
<1>3. PICK at \in Nat : at = e.at /\ at = RecordAt
  BY DEF Logs, Walk
<1>4. /\ Says(at \div Word, f[1])'
      /\ pending' = pending => Says(at \div Word + 1, f[2])'
      /\ Says(at \div Word + 2, f[3])'
  BY <1>2, <1>3, RecordIsSaid
<1> QED
  BY <1>1, <1>2, <1>3, <1>4 DEF RecordSays, Says

-----------------------------------------------------------------------------
(* What is walked next.                                                    *)

LEMMA AroundFacts ==
  ASSUME IInv, WalkKept, phase = "writing"
  PROVE  /\ Around \in Seq(Objects) /\ Around = Path(stack, Len(stack))
         /\ Len(Around) = Len(stack) - 1
         /\ \A i \in 1 .. Len(stack) - 1 : Around[i] = stack[i + 1].object
<1>1. PICK n \in Nat \ {0} : n = Len(stack) /\ DOMAIN stack = 1 .. n
  <2>1. stack \in Seq(Frames) /\ stack # <<>>
    BY DEF IInv, Typed, Phased, WritingSound
  <2> QED
    BY <2>1
<1>2. Around = [i \in 1 .. n - 1 |-> stack[i + 1].object]
  BY <1>1 DEF Around
<1>3. Around = Path(stack, Len(stack))
  BY <1>1, <1>2 DEF Path
<1>4. Around \in Seq(Objects)
  <2>1. PICK kid, ends, open : Tree(Branches(log, stack, Nested), log, stack, kid, ends, open)
    BY DEF WalkKept, InTree, Grown
  <2>2. /\ open[n] \in 0 .. Len(log)
        /\ Branches(log, stack, Nested)[open[n]].inside = Path(stack, n)
    <3>1. n \in DOMAIN stack /\ open \in [DOMAIN stack -> 0 .. Len(log)]
      BY <1>1, <2>1 DEF Tree
    <3>2. FrameSits(Branches(log, stack, Nested), stack, kid, ends, open, n)
      BY <2>1, <3>1 DEF Tree
    <3> QED
      BY <3>1, <3>2 DEF FrameSits
  <2>3. PICK m \in Nat : m = Len(log) /\ DOMAIN log = 1 .. m
    <3>1. log \in Seq(Walk)
      BY DEF WalkKept, Logged
    <3> QED
      BY <3>1
  <2>4. CASE open[n] = 0
    <3>1. Branches(log, stack, Nested)[0].inside = <<>>
      BY <2>3 DEF Branches
    <3>2. <<>> \in Seq(Objects)
      OBVIOUS
    <3> QED
      BY <1>1, <1>3, <2>2, <2>4, <3>1, <3>2
  <2>5. CASE open[n] # 0
    <3>1. PICK k \in 1 .. m : k = open[n]
      BY <2>2, <2>3, <2>5
    <3>2. log[k] \in Walk
      BY <2>3, <3>1 DEF WalkKept, Logged
    <3>3. Branches(log, stack, Nested)[k].inside = Append(log[k].path, log[k].object)
      BY <2>3, <3>1 DEF Branches, Branch
    <3>4. log[k].path \in Seq(Objects) /\ log[k].object \in Objects
      BY <3>2 DEF Walk
    <3>5. Append(log[k].path, log[k].object) \in Seq(Objects)
      BY <3>4
    <3> QED
      BY <1>1, <1>3, <2>2, <3>1, <3>3, <3>5
  <2> QED
    BY <2>4, <2>5
<1>5. Len(Around) = n - 1
  <2>1. PICK s \in Seq(Objects) : s = Around
    BY <1>4
  <2>2. DOMAIN s = 1 .. n - 1 /\ n - 1 \in Nat
    BY <1>2, <2>1
  <2>3. DOMAIN s = 1 .. Len(s) /\ Len(s) \in Nat
    OBVIOUS
  <2>4. Len(s) = n - 1
    BY <2>2, <2>3
  <2> QED
    BY <2>1, <2>4
<1> QED
  BY <1>1, <1>2, <1>3, <1>4, <1>5

LEMMA LogsHere ==
  ASSUME IInv, WalkKept, NEW o, Walks(o), NEW held \in Seq(Objects), NEW mem, NEW a,
         Writes(o, held, mem, a)
  PROVE  \E e \in Walk : Logs(e, o, held)
<1>1. phase = "writing" /\ o \in Objects /\ RecordAt \in Nat
  BY WalkFacts DEF Walks
<1>2. Around \in Seq(Objects)
  BY <1>1, AroundFacts
<1>3. Place(arena) \in Nat
  <2>1. arena.offset \in Nat /\ Base \in Nat
    BY RegionFacts DEF IInv, Typed
  <2>2. Aligned(arena.offset) \in Nat
    BY <2>1, AlignedFacts
  <2> QED
    BY <2>1, <2>2 DEF Place
<1>4. PICK e \in Walk : e = [object |-> o, items |-> held, path |-> Around, at |-> RecordAt,
                             place |-> Place(arena)]
  BY <1>1, <1>2, <1>3 DEF Walk
<1>5. log' = Append(log, e)
  BY <1>4 DEF Writes
<1> QED
  BY <1>4, <1>5 DEF Logs

\* A container is walked if it is not too deep, and not inside itself.
LEMMA CrossingFacts ==
  ASSUME IInv, WalkKept, NEW o, Walks(o), o \in Containers, NEW e, NEW held, Logs(e, o, held)
  PROVE  Whole(e) <=> ~CrossesAsHandle(o)
<1>1. phase = "writing" /\ o \in Objects
  BY WalkFacts DEF Walks
<1>2. PICK n \in Nat \ {0} : n = Len(stack) /\ DOMAIN stack = 1 .. n
  <2>1. stack \in Seq(Frames) /\ stack # <<>>
    BY <1>1 DEF IInv, Typed, Phased, WritingSound
  <2> QED
    BY <2>1
<1>3. PICK path \in Seq(Objects) : path = e.path /\ path = Around
  BY <1>1, AroundFacts DEF Logs
<1>4. Len(path) = n - 1 /\ DOMAIN path = 1 .. n - 1
      /\ \A i \in 1 .. n - 1 : path[i] = stack[i + 1].object
  <2>1. Len(path) = n - 1 /\ DOMAIN path = 1 .. Len(path)
    BY <1>1, <1>2, <1>3, AroundFacts
  <2>2. \A i \in 1 .. n - 1 : path[i] = stack[i + 1].object
    BY <1>1, <1>2, <1>3, AroundFacts
  <2> QED
    BY <2>1, <2>2
<1>5. stack[1].object = Entry /\ Entry \notin Objects
  BY RegionFacts DEF WalkKept, RootSays, Entry
<1>6. o \in Active <=> \E i \in DOMAIN path : path[i] = o
  <2>1. ASSUME NEW i \in DOMAIN stack, stack[i].object = o  PROVE \E j \in DOMAIN path : path[j] = o
    <3>1. i # 1 /\ i \in 1 .. n
      BY <1>1, <1>2, <1>5, <2>1
    <3>2. i - 1 \in 1 .. n - 1 /\ (i - 1) + 1 = i
      BY <3>1
    <3>3. path[i - 1] = o
      BY <1>4, <2>1, <3>2
    <3> QED
      BY <1>4, <3>2, <3>3
  <2>2. ASSUME NEW j \in DOMAIN path, path[j] = o  PROVE o \in Active
    <3>1. j + 1 \in DOMAIN stack /\ stack[j + 1].object = o
      BY <1>2, <1>4, <2>2
    <3> QED
      BY <3>1 DEF Active
  <2> QED
    BY <2>1, <2>2 DEF Active
<1>7. Depth = n - 1 + Nested /\ Nested \in Nat
  BY <1>2 DEF Depth, Nested
<1>8. MaxDepth \in Nat
  BY TransferAssumption
<1>9. Depth >= MaxDepth <=> ~(Len(path) + Nested < MaxDepth)
  BY <1>4, <1>7, <1>8
<1>10. Whole(e) <=> Len(path) + Nested < MaxDepth /\ \A i \in DOMAIN path : path[i] # o
  BY <1>3 DEF Whole, WholeIn, Logs
<1> QED
  BY <1>6, <1>9, <1>10 DEF CrossesAsHandle

\* It is the next of what the top frame holds.
LEMMA WalkIsNext ==
  ASSUME IInv, WalkKept, NEW o, Walks(o), NEW e, NEW held, Logs(e, o, held)
  PROVE  Grows(stack, e) /\ Advanced = Onward(stack)
<1>1. phase = "writing" /\ stack # <<>>
  BY WalkFacts DEF Walks
<1>2. e.path = Path(stack, Len(stack))
  BY <1>1, AroundFacts DEF Logs
<1>3. /\ stack[Len(stack)].next <= Len(stack[Len(stack)].items)
      /\ o = stack[Len(stack)].items[stack[Len(stack)].next]
  BY DEF Walks, Top, Items
<1>4. e.at = stack[Len(stack)].block + (stack[Len(stack)].next - 1) * ValueSize
  BY DEF Logs, RecordAt, Top
<1> QED
  BY <1>1, <1>2, <1>3, <1>4 DEF Grows, Logs, Advanced, Onward

-----------------------------------------------------------------------------
(* A step of the walk keeps what there is to know of it.                   *)

\* Where the next record goes there is none.
LEMMA NoneThereYet ==
  ASSUME IInv, WalkKept, NEW o, Walks(o), NEW k \in DOMAIN log
  PROVE  log[k].at # RecordAt
<1> SUFFICES ASSUME log[k].at = RecordAt  PROVE FALSE
  OBVIOUS
<1>1. PICK at \in Nat : at = RecordAt /\ at % Word = 0
  BY RecordWords
<1>2. log[k] \in Range(log)
  BY DEF Range
<1>3. Final(at \div Word)
  BY <1>1, <1>2 DEF WalkKept, RecordsKept, RecordSays, Says
<1>4. (at \div Word) * Word = at
  <2>1. (at \div Word + 0) * Word = at + 0 * Word /\ at \div Word \in Nat
    BY <1>1, WordAt
  <2> QED
    BY <2>1 DEF Word
<1>5. ~OpenRecord(at)
  BY <1>3, <1>4 DEF Final
<1>6. PICK i \in DOMAIN stack : i = Len(stack) /\ Start(stack[i]) = at /\ at + 12 <= End(stack[i])
  BY <1>1, TopFacts DEF ValueSize
<1>7. Start(stack[i]) \in Nat /\ End(stack[i]) \in Nat
  <2>1. phase = "writing"
    BY DEF Walks
  <2> QED
    BY <2>1, FramesUsed
<1>8. Start(stack[i]) <= at /\ at < End(stack[i])
  BY <1>6, <1>7
<1> QED
  BY <1>5, <1>8, OpenRecordFacts

\* What was pending is pending still, at its place.
LEMMA PendingStays ==
  ASSUME IInv, NEW o, WalksOn(o), NEW i \in DOMAIN pending
  PROVE  i \in DOMAIN pending' /\ pending'[i] = pending[i]
<1>1. PICK s \in Seq(Records) : s = pending
  BY DEF IInv, Typed
<1>2. CASE pending' = pending
  BY <1>2
<1>3. CASE \E r \in Records : pending' = Append(pending, r)
  <2>1. PICK r \in Records : pending' = Append(s, r)
    BY <1>1, <1>3
  <2>2. i \in DOMAIN s
    BY <1>1
  <2>3. i \in DOMAIN Append(s, r) /\ Append(s, r)[i] = s[i]
    BY <2>2
  <2> QED
    BY <1>1, <2>1, <2>3
<1> QED
  BY <1>2, <1>3 DEF WalksOn

\* The first frame is where it was, with what it holds.
LEMMA RootFrameStays ==
  ASSUME IInv, NEW o, WalksOn(o)
  PROVE  /\ stack # <<>>
         /\ stack'[1].object = stack[1].object
         /\ stack'[1].items = stack[1].items
         /\ stack'[1].block = stack[1].block
<1>1. Walks(o)
  BY DEF WalksOn
<1>2. PICK s \in Seq(Frames) : s = stack /\ s # <<>>
  BY <1>1, WalkFacts DEF IInv, Typed
<1>3. Advanced = Onward(s)
  BY <1>2 DEF Advanced, Onward
<1>4. /\ Onward(s) \in Seq(Frames) /\ Len(s) \in Nat \ {0} /\ DOMAIN Onward(s) = 1 .. Len(s)
      /\ \A i \in 1 .. Len(s) :
           Onward(s)[i].items = s[i].items /\ Onward(s)[i].block = s[i].block
           /\ Onward(s)[i].object = s[i].object
  BY <1>2, OnwardFacts
<1>5. 1 \in 1 .. Len(s)
  BY <1>4
<1>6. stack'[1] = Onward(s)[1]
  <2>1. CASE stack' = Onward(s)
    BY <2>1
  <2>2. CASE \E f \in Frames : stack' = Append(Onward(s), f)
    <3>1. PICK f \in Frames : stack' = Append(Onward(s), f)
      BY <2>2
    <3>2. Append(Onward(s), f)[1] = Onward(s)[1]
      BY <1>4, <1>5
    <3> QED
      BY <3>1, <3>2
  <2> QED
    BY <1>3, <2>1, <2>2 DEF WalksOn
<1> QED
  BY <1>2, <1>4, <1>5, <1>6

\* How the frames go on: past a leaf, or into a container.
FramesGoOn(e) ==
  \/ stack' = Advanced /\ ~Whole(e)
  \/ /\ Whole(e)
     /\ stack' = Append(Advanced, [object |-> e.object, items |-> e.items, block |-> e.place, next |-> 1])
     /\ arena'.offset >= arena.offset + Len(e.items) * ValueSize

LEMMA WalkGrowsOn ==
  ASSUME IInv, WalkKept, NEW o, WalksOn(o), NEW e, NEW held, Logs(e, o, held), FramesGoOn(e)
  PROVE  /\ Grown(log', stack', Nested)
         /\ RoomFor(Len(log) + 1 + Nested, stack', arena'.offset)
<1>1. Walks(o) /\ phase = "writing" /\ arena'.offset \in Nat /\ arena'.offset >= arena.offset
  BY DEF WalksOn, Walks
<1>2. PICK s \in Seq(Frames) : s = stack /\ s # <<>>
  BY <1>1, WalkFacts DEF IInv, Typed
<1>3. Grows(s, e) /\ Advanced = Onward(s)
  BY <1>1, <1>2, WalkIsNext
<1>4. PICK walks \in Seq(Walk) : walks = log
  BY DEF WalkKept, Logged
<1>5. log' = Append(walks, e) /\ e \in Walk
  BY <1>4 DEF Logs
<1>6. PICK nested \in Nat : nested = Nested
  BY DEF Nested
<1>7. PICK kid, ends, open : Tree(Branches(walks, s, nested), walks, s, kid, ends, open)
  BY <1>2, <1>4, <1>6 DEF WalkKept, InTree, Grown
<1>8. PICK n \in Nat : n = Len(walks) + nested /\ n + 1 = Len(log) + 1 + Nested
  <2>1. Len(walks) \in Nat
    OBVIOUS
  <2> QED
    BY <1>4, <1>6, <2>1
<1>9. PICK end \in Nat, more \in Nat : end = arena.offset /\ more = arena'.offset /\ end <= more
  BY <1>1 DEF IInv, Typed
<1>10. RoomFor(n, s, end) /\ s[Len(s)].next <= Len(s[Len(s)].items)
  BY <1>2, <1>3, <1>4, <1>6, <1>8, <1>9 DEF WalkKept, Roomy, Grows
<1>11. CASE stack' = Advanced /\ ~Whole(e)
  <2>1. Grown(Append(walks, e), Onward(s), nested)
    BY <1>3, <1>5, <1>6, <1>7, <1>11, TreeLeaf DEF Whole
  <2>2. RoomFor(n + 1, Onward(s), more)
    BY <1>2, <1>9, <1>10, RoomLeaf
  <2> QED
    BY <1>3, <1>5, <1>6, <1>8, <1>9, <1>11, <2>1, <2>2
<1>12. CASE /\ Whole(e) /\ arena'.offset >= arena.offset + Len(e.items) * ValueSize
            /\ stack' = Append(Advanced, [object |-> e.object, items |-> e.items,
                                          block |-> e.place, next |-> 1])
  <2>1. PICK f \in Frames : f = [object |-> e.object, items |-> e.items, block |-> e.place, next |-> 1]
    <3>1. e.object \in Objects /\ e.items \in Seq(Objects) /\ e.place \in Nat /\ 1 \in Nat \ {0}
      BY <1>5 DEF Walk
    <3>2. [object |-> e.object, items |-> e.items, block |-> e.place, next |-> 1] \in Frames
      BY <3>1 DEF Frames
    <3> QED
      BY <3>2
  <2>2. f.object = e.object /\ f.items = e.items /\ f.block = e.place /\ f.next = 1
    BY <2>1
  <2>3. Grown(Append(walks, e), Append(Onward(s), f), nested)
    BY <1>3, <1>5, <1>6, <1>7, <1>12, <2>2, TreePush DEF Whole
  <2>4. end + Len(f.items) * ValueSize <= more
    <3>1. Len(f.items) \in Nat
      BY DEF Frames
    <3> QED
      BY <1>9, <1>12, <2>2, <3>1 DEF ValueSize
  <2>5. RoomFor(n + 1, Append(Onward(s), f), more)
    BY <1>2, <1>9, <1>10, <2>2, <2>4, RoomPush
  <2> QED
    BY <1>3, <1>5, <1>6, <1>8, <1>9, <1>12, <2>1, <2>3, <2>5
<1> QED
  BY <1>11, <1>12 DEF FramesGoOn

LEMMA WalkKeeps ==
  ASSUME IInv, Apart, WalkKept, NEW o, WalksOn(o), purpose' = purpose, contents' \in Shapes,
         NEW e, NEW held, Logs(e, o, held), RecordSays(e)', Placed(e)', FramesGoOn(e),
         Handled(e) => pending' = Append(pending, [object |-> o, at |-> RecordAt])
  PROVE  WalkKept'
<1>1. Walks(o) /\ phase = "writing" /\ arena'.offset \in Nat /\ arena'.offset >= arena.offset
  BY DEF WalksOn, Walks
<1>2. Nested' = Nested /\ \A x : (Handled(x)' <=> Handled(x))
  BY SamePurpose
<1>3. PICK walks \in Seq(Walk) : walks = log
  BY DEF WalkKept, Logged
<1>4. e \in Walk /\ log' = Append(walks, e)
  BY <1>3 DEF Logs
<1>5. PICK n \in Nat : /\ n = Len(walks) /\ DOMAIN walks = 1 .. n
                       /\ DOMAIN log' = 1 .. n + 1 /\ Len(log') = n + 1 /\ log'[n + 1] = e
                       /\ \A i \in 1 .. n : log'[i] = walks[i]
  <2>1. Len(walks) \in Nat /\ DOMAIN walks = 1 .. Len(walks)
    OBVIOUS
  <2>2. /\ DOMAIN Append(walks, e) = 1 .. Len(walks) + 1 /\ Len(Append(walks, e)) = Len(walks) + 1
        /\ Append(walks, e)[Len(walks) + 1] = e
        /\ \A i \in 1 .. Len(walks) : Append(walks, e)[i] = walks[i]
    BY <1>4
  <2> QED
    BY <1>4, <2>1, <2>2
<1>6. StepIsFinal
  BY WalksOnFinal
<1>7. Logged'
  BY <1>4 DEF Logged
<1>8. Distinct'
  <2> SUFFICES ASSUME NEW k \in 1 .. n + 1, NEW l \in 1 .. n + 1, k < l
               PROVE  log'[k].at # log'[l].at
    BY <1>5 DEF Distinct
  <2>1. k \in 1 .. n
    OBVIOUS
  <2>2. CASE l \in 1 .. n
    <3>1. walks[k].at # walks[l].at
      BY <1>3, <1>5, <2>1, <2>2 DEF WalkKept, Distinct
    <3> QED
      BY <1>5, <2>1, <2>2, <3>1
  <2>3. CASE l = n + 1
    <3>1. walks[k].at # RecordAt
      BY <1>1, <1>3, <1>5, <2>1, NoneThereYet
    <3>2. log'[l].at = RecordAt
      BY <1>5, <2>3 DEF Logs
    <3> QED
      BY <1>5, <2>1, <3>1, <3>2
  <2> QED
    BY <2>2, <2>3
<1>9. \A x \in Range(log') : x \in Range(log) \/ x = e
  <2>1. \A i \in 1 .. n + 1 : i \in 1 .. n \/ i = n + 1
    OBVIOUS
  <2>2. \A i \in DOMAIN log' : log'[i] \in Range(log) \/ log'[i] = e
    BY <1>3, <1>5, <2>1 DEF Range
  <2> QED
    BY <2>2 DEF Range
<1>10. RecordsKept'
  <2>1. \A x \in Range(log) : RecordSays(x)' /\ Placed(x)'
    BY <1>1, <1>6, RecordsStay DEF WalkKept
  <2>2. ASSUME NEW x \in Range(log')  PROVE (RecordSays(x) /\ Placed(x))'
    <3>1. CASE x \in Range(log)
      BY <2>1, <3>1
    <3>2. CASE x = e
      BY <3>2
    <3> QED
      BY <1>9, <2>2, <3>1, <3>2
  <2> QED
    BY <2>2 DEF RecordsKept
<1>11. HandlesPending'
  <2> SUFFICES ASSUME NEW x \in Range(log'), Handled(x)
               PROVE  \E i \in DOMAIN pending' : pending'[i].at = x.at /\ pending'[i].object = x.object
    BY <1>2 DEF HandlesPending
  <2>1. CASE x \in Range(log)
    <3>1. PICK i \in DOMAIN pending : pending[i].at = x.at /\ pending[i].object = x.object
      BY <2>1 DEF WalkKept, HandlesPending
    <3>2. i \in DOMAIN pending' /\ pending'[i] = pending[i]
      BY PendingStays
    <3> QED
      BY <3>1, <3>2
  <2>2. CASE x = e
    <3>1. PICK s \in Seq(Records) : s = pending
      BY DEF IInv, Typed
    <3>2. PICK r \in Records : r.object = o /\ r.at = RecordAt /\ pending' = Append(s, r)
      <4>1. [object |-> o, at |-> RecordAt] \in Records
        BY <1>1, WalkFacts DEF Records
      <4>2. pending' = Append(s, [object |-> o, at |-> RecordAt])
        BY <2>2, <3>1
      <4> QED
        BY <4>1, <4>2
    <3>3. Len(s) + 1 \in DOMAIN Append(s, r) /\ Append(s, r)[Len(s) + 1] = r
      OBVIOUS
    <3> QED
      BY <2>2, <3>2, <3>3 DEF Logs
  <2> QED
    BY <1>9, <2>1, <2>2
<1>12. IdsWritten'
  <2>1. committed' = 0
    BY <1>1 DEF IInv, Phased, WritingSound, WalksOn
  <2> QED
    BY <2>1 DEF IdsWritten
<1>13. RootSays'
  <2>1. /\ stack # <<>> /\ stack'[1].object = stack[1].object
        /\ stack'[1].items = stack[1].items /\ stack'[1].block = stack[1].block
    BY RootFrameStays
  <2> QED
    BY <1>6, <2>1, RootStays DEF WalkKept
<1>14. InTree' /\ Roomy'
  <2>1. Grown(log', stack', Nested) /\ RoomFor(Len(log) + 1 + Nested, stack', arena'.offset)
    BY WalkGrowsOn
  <2>2. Len(log') = Len(log) + 1
    BY <1>3, <1>5
  <2> QED
    BY <1>2, <2>1, <2>2 DEF InTree, Roomy
<1> QED
  BY <1>7, <1>8, <1>10, <1>11, <1>12, <1>13, <1>14 DEF WalkKept

-----------------------------------------------------------------------------
(* The steps of the walk.                                                  *)

LEMMA KindsApart ==
  ASSUME NEW o \in Objects
  PROVE  /\ o \in Ints => o \notin Strs /\ o \notin Opaques /\ o \notin Containers
         /\ o \in Strs => o \notin Ints /\ o \notin Opaques /\ o \notin Containers
         /\ o \in Opaques => o \notin Ints /\ o \notin Strs /\ o \notin Containers
         /\ o \in Containers => o \notin Ints /\ o \notin Strs /\ o \notin Opaques
         /\ o \in Ints \cup Strs \cup Opaques \cup Containers
         /\ o \in Dicts => o \in Containers
BY TransferAssumption DEF Objects, Containers

LEMMA PlacedHere ==
  ASSUME IInv, NEW o, Walks(o), NEW e, NEW held, Logs(e, o, held), purpose' = purpose,
         arena'.offset \in Nat, arena'.offset >= arena.offset,
         Payload(e) # 0 \/ Whole(e) =>
           /\ e.place % Word = 0 /\ e.place >= Base + TransferSize
           /\ e.place + Payload(e) <= Base + arena'.offset,
         o \in Dicts => Len(held) % 2 = 0
  PROVE  Placed(e)'
<1>1. (Whole(e)' <=> Whole(e)) /\ (Handled(e)' <=> Handled(e))
  BY SamePurpose
<1>2. PICK p : p = Payload(e) /\ p = Payload(e)'
  BY <1>1 DEF Payload
<1>3. PICK at \in Nat : at = RecordAt /\ at = e.at /\ at % Word = 0 /\ at >= Base
                        /\ at + 12 <= Base + arena.offset
  <2>1. RecordAt \in Nat /\ RecordAt % Word = 0 /\ (RecordAt = Base \/ RecordAt >= Base + 20)
    BY WalkFacts DEF TransferSize
  <2>2. RecordAt + 12 <= Base + arena.offset
    BY RecordWords DEF ValueSize
  <2>3. RecordAt >= Base
    BY <2>1, RegionFacts
  <2> QED
    BY <2>1, <2>2, <2>3 DEF Logs
<1>4. at + 12 <= Base + arena'.offset
  <2>1. arena.offset \in Nat /\ Base \in Nat
    BY RegionFacts DEF IInv, Typed
  <2> QED
    BY <1>3, <2>1
<1> QED
  BY <1>1, <1>2, <1>3, <1>4 DEF Placed, Logs, ValueSize

LEMMA WriteIntKeeps ==
  ASSUME IInv, Apart, WalkKept, NEW o, WriteInt(o)
  PROVE  WalkKept'
<1>1. /\ Walks(o) /\ o \in Ints /\ UNCHANGED outside
      /\ Writes(o, <<>>, Put(region, RecordAt, Record(KindInt, o, 0)), arena)
      /\ region' = Put(region, RecordAt, Record(KindInt, o, 0))
      /\ arena' = arena /\ stack' = Advanced /\ pending' = pending /\ contents' = contents
  BY DEF WriteInt, Writes
<1>2. WalksOn(o) /\ purpose' = purpose /\ contents' \in Shapes
  BY <1>1, WriteIntOn DEF outside, WalkKept
<1>3. o \in Objects /\ o \in Int /\ <<>> \in Seq(Objects)
  BY <1>1, WalkFacts, ObjectFacts
<1>4. o \notin Strs /\ o \notin Opaques /\ o \notin Containers /\ o \notin Dicts
  BY <1>1, <1>3, KindsApart
<1>5. PICK e \in Walk : Logs(e, o, <<>>)
  BY <1>1, <1>3, LogsHere
<1>6. e.object = o /\ e.at = RecordAt
  BY <1>5 DEF Logs
<1>7. ~Whole(e) /\ ~Handled(e) /\ Payload(e) = 0
  BY <1>1, <1>4, <1>6 DEF Whole, WholeIn, Handled, Payload
<1>8. Form(e)[1] = KindInt /\ Form(e)[2] = o /\ Form(e)[3] = 0
  BY <1>1, <1>6 DEF Form, Record
<1>9. /\ region'[RecordAt \div Word] = KindInt /\ region'[RecordAt \div Word + 1] = o
      /\ region'[RecordAt \div Word + 2] = 0
  <2>1. KindInt \in Int /\ 0 \in Int
    BY DEF KindInt
  <2> QED
    BY <1>1, <1>3, <2>1, RecordPut DEF RecordIn
<1>10. TextSays(e)'
  BY <1>1, <1>6 DEF TextSays
<1>11. RecordSays(e)'
  BY <1>1, <1>2, <1>5, <1>6, <1>7, <1>8, <1>9, <1>10, FormIsSaid
<1>12. Placed(e)'
  <2>1. arena'.offset \in Nat /\ arena'.offset >= arena.offset
    BY <1>2 DEF WalksOn
  <2> QED
    BY <1>1, <1>2, <1>4, <1>5, <1>7, <2>1, PlacedHere
<1>13. FramesGoOn(e)
  BY <1>1, <1>7 DEF FramesGoOn
<1> QED
  BY <1>2, <1>5, <1>7, <1>11, <1>12, <1>13, WalkKeeps

\* What lies before an address is the same.
SameBefore(at, mem2, mem) == \A w \in Index : w * Word < at => mem2[w] = mem[w]

\* What is written behind the record leaves it.
LEMMA RecordLeft ==
  ASSUME IInv, NEW o, Walks(o), NEW at \in Nat, at >= Base + arena.offset, NEW mem, NEW mem2,
         SameBefore(at, mem2, mem)
  PROVE  /\ mem2[RecordAt \div Word] = mem[RecordAt \div Word]
         /\ mem2[RecordAt \div Word + 1] = mem[RecordAt \div Word + 1]
         /\ mem2[RecordAt \div Word + 2] = mem[RecordAt \div Word + 2]
<1>1. \A i \in 0 .. 2 : RecordAt \div Word + i \in Index
                        /\ (RecordAt \div Word + i) * Word = RecordAt + i * Word
  BY RecordWords
<1>2. PICK q \in Nat : q = RecordAt \div Word
  BY RecordWords, WordAt
<1>3. RecordAt \in Nat /\ RecordAt + 12 <= at
  <2>1. Base + arena.offset \in Nat
    BY RegionFacts DEF IInv, Typed
  <2>2. RecordAt \in Nat /\ RecordAt + 12 <= Base + arena.offset
    BY RecordWords DEF ValueSize
  <2> QED
    BY <2>1, <2>2
<1>4. ASSUME NEW i \in 0 .. 2  PROVE mem2[q + i] = mem[q + i]
  <2>1. q + i \in Index /\ (q + i) * Word = RecordAt + i * 4
    BY <1>1, <1>2 DEF Word
  <2>2. (q + i) * Word < at
    BY <1>3, <2>1
  <2> QED
    BY <2>1, <2>2 DEF SameBefore
<1>5. mem2[q + 0] = mem[q + 0] /\ mem2[q + 1] = mem[q + 1] /\ mem2[q + 2] = mem[q + 2]
  BY <1>4
<1>6. q + 0 = q
  OBVIOUS
<1> QED
  BY <1>2, <1>5, <1>6

LEMMA WriteStrKeeps ==
  ASSUME IInv, Apart, WalkKept, NEW o, WriteStr(o), phase' = "writing"
  PROVE  WalkKept'
<1>1. Walks(o) /\ o \in Strs /\ UNCHANGED outside /\ contents' = contents
  BY DEF WriteStr
<1>2. WalksOn(o) /\ purpose' = purpose /\ contents' \in Shapes
  BY <1>1, WriteStrOn DEF outside, WalkKept
<1>3. o \in Objects /\ o \in Int /\ Length[o] \in Nat /\ <<>> \in Seq(Objects)
  BY <1>1, WalkFacts, ObjectFacts
<1>4. o \notin Ints /\ o \notin Opaques /\ o \notin Containers /\ o \notin Dicts
  BY <1>1, <1>3, KindsApart
<1>5. stack' = Advanced /\ pending' = pending
  BY DEF WriteStr, Full
<1>6. PICK e \in Walk : Logs(e, o, <<>>)
  <2>1. CASE Length[o] = 0
    <3>1. Writes(o, <<>>, Put(region, RecordAt, Record(KindStr, 0, 0)), arena)
      BY <2>1 DEF WriteStr
    <3> QED
      BY <1>1, <1>3, <3>1, LogsHere
  <2>2. CASE Length[o] # 0
    <3>1. PICK mem, a : Writes(o, <<>>, mem, a)
      BY <2>2 DEF WriteStr, Full
    <3> QED
      BY <1>1, <1>3, <3>1, LogsHere
  <2> QED
    BY <2>1, <2>2
<1>7. e.object = o /\ e.at = RecordAt /\ e.place = Place(arena)
  BY <1>6 DEF Logs
<1>8. ~Whole(e) /\ ~Handled(e) /\ Payload(e) = Length[o] /\ TextAt(e) = e.place
      /\ ~Handled(e)'
  <2>1. ~Whole(e) /\ ~Handled(e)
    BY <1>4, <1>7 DEF Whole, WholeIn, Handled
  <2>2. ~Handled(e)'
    BY <1>2, <2>1, SamePurpose
  <2> QED
    BY <1>1, <1>4, <1>7, <2>1, <2>2 DEF Payload, TextAt
<1>9. FramesGoOn(e)
  BY <1>5, <1>8 DEF FramesGoOn
<1>10. arena'.offset \in Nat /\ arena'.offset >= arena.offset
  BY <1>2 DEF WalksOn
<1>11. KindStr \in Int /\ 0 \in Int
  BY DEF KindStr
<1>12. CASE Length[o] = 0
  <2>1. region' = Put(region, RecordAt, Record(KindStr, 0, 0))
    BY <1>12 DEF WriteStr, Writes
  <2>2. Form(e)[1] = KindStr /\ Form(e)[2] = 0 /\ Form(e)[3] = 0
    BY <1>1, <1>4, <1>7, <1>12 DEF Form, Record
  <2>3. /\ region'[RecordAt \div Word] = KindStr /\ region'[RecordAt \div Word + 1] = 0
        /\ region'[RecordAt \div Word + 2] = 0
    BY <1>1, <1>11, <2>1, RecordPut DEF RecordIn
  <2>4. TextSays(e)'
    <3>1. Words(Length[o]) = 0
      BY <1>12 DEF Words, Aligned, Word
    <3> QED
      BY <1>7, <3>1 DEF TextSays
  <2>5. RecordSays(e)'
    BY <1>2, <1>5, <1>6, <1>7, <1>8, <2>2, <2>3, <2>4, FormIsSaid
  <2>6. Placed(e)'
    BY <1>1, <1>2, <1>4, <1>6, <1>8, <1>10, <1>12, PlacedHere
  <2> QED
    BY <1>2, <1>6, <1>8, <1>9, <2>5, <2>6, WalkKeeps
<1>13. CASE Length[o] # 0
  <2>1. PICK n \in Nat \ {0} : n = Length[o]
    BY <1>3, <1>13
  <2>2. Fits(arena.offset, n)
    BY <1>13, <2>1 DEF WriteStr, Full
  <2>3. PICK at \in Nat : /\ at = Place(arena) /\ at % Word = 0 /\ at >= Base + TransferSize
                          /\ at + n = Base + Bump(arena, n).offset
                          /\ Bump(arena, n) \in [offset : 0 .. Capacity, overflowed : BOOLEAN]
    BY <1>1, <2>1, <2>2, WalkPlace
  <2>4. at >= Base + arena.offset
    <3>1. arena \in [offset : 0 .. Capacity, overflowed : BOOLEAN]
      BY DEF IInv, Typed
    <3> QED
      BY <2>1, <2>2, <2>3, <3>1, PlaceFacts
  <2>5. PICK mem \in [Index -> Int] :
          /\ mem = Put(region, RecordAt, Record(KindStr, n, at))
          /\ mem[RecordAt \div Word] = KindStr /\ mem[RecordAt \div Word + 1] = n
          /\ mem[RecordAt \div Word + 2] = at
    <3> DEFINE m == Put(region, RecordAt, Record(KindStr, n, at))
    <3>1. n \in Int /\ at \in Int
      BY <2>1, <2>3
    <3>2. /\ m \in [Index -> Int] /\ m[RecordAt \div Word] = KindStr
          /\ m[RecordAt \div Word + 1] = n /\ m[RecordAt \div Word + 2] = at
      BY <1>1, <1>11, <3>1, RecordPut DEF RecordIn
    <3> HIDE DEF m
    <3> QED
      BY <3>2 DEF m
  <2>6. region' = PutText(mem, at, n, o) /\ arena' = Bump(arena, n)
    BY <1>13, <2>1, <2>2, <2>3, <2>5 DEF WriteStr, Writes
  <2>7. /\ \A i \in 1 .. Words(n) : at \div Word + i - 1 \in Index =>
             region'[at \div Word + i - 1] = o
        /\ \A w \in Index : w * Word < at => region'[w] = mem[w]
    BY <1>3, <2>3, <2>6, PutTextWords
  <2>8. Base + arena.offset \in Nat /\ arena'.offset \in 0 .. Capacity
    BY <2>3, <2>6, RegionFacts DEF IInv, Typed
  <2>9. \A i \in 1 .. Words(n) : Says(at \div Word + i - 1, o)'
    <3>1. at + n <= Base + arena'.offset
      BY <2>3, <2>6
    <3> QED
      BY <1>2, <1>5, <2>3, <2>4, <2>7, <2>8, <3>1, TextIsSaid
  <2>10. TextSays(e)'
    <3>1. \A i \in 1 .. Words(Length[e.object]) : Says(e.place \div Word + i - 1, e.object)'
      BY <1>7, <2>1, <2>3, <2>9
    <3>2. PICK t : t = TextAt(e)' /\ t = e.place
      BY <1>8 DEF TextAt
    <3>3. \A i \in 1 .. Words(Length[e.object]) : Says(t \div Word + i - 1, e.object)'
      BY <3>1, <3>2
    <3> QED
      BY <3>2, <3>3 DEF TextSays, Says
  <2>11. /\ region'[RecordAt \div Word] = KindStr /\ region'[RecordAt \div Word + 2] = at
         /\ region'[RecordAt \div Word + 1] = n
    <3>1. SameBefore(at, region', mem)
      BY <2>7 DEF SameBefore
    <3> QED
      BY <1>1, <2>4, <2>5, <3>1, RecordLeft
  <2>12. Form(e)[1] = KindStr /\ Form(e)[2] = n /\ Form(e)[3] = at
    BY <1>1, <1>4, <1>7, <1>13, <2>1, <2>3 DEF Form, Record
  <2>13. RecordSays(e)'
    BY <1>2, <1>5, <1>6, <1>7, <1>8, <2>10, <2>11, <2>12, FormIsSaid
  <2>14. Placed(e)'
    <3>1. /\ e.place % Word = 0 /\ e.place >= Base + TransferSize
          /\ e.place + Payload(e) <= Base + arena'.offset
      BY <1>7, <1>8, <2>1, <2>3, <2>6
    <3> QED
      BY <1>1, <1>2, <1>4, <1>6, <1>10, <3>1, PlacedHere
  <2> QED
    BY <1>2, <1>6, <1>8, <1>9, <2>13, <2>14, WalkKeeps
<1> QED
  BY <1>12, <1>13

\* A walk that ends in a handle.
Crossing(o, held, attr) ==
  /\ WriteOpaque(o, attr, held) /\ phase' = "writing" /\ UNCHANGED outside /\ contents' \in Shapes
  /\ \A e \in Walk : Logs(e, o, held) => Handled(e) /\ Attribute(o) = attr
  /\ o \in Dicts => Len(held) % 2 = 0

LEMMA WriteOpaqueKeeps ==
  ASSUME IInv, Apart, WalkKept, NEW o, Walks(o), NEW held \in Seq(Objects), NEW attr \in Nat,
         Crossing(o, held, attr)
  PROVE  WalkKept'
<1>1. o \in Objects /\ o \in Int
  BY WalkFacts, ObjectFacts
<1>2. PICK n \in Nat : n = Length[o]
  BY <1>1, ObjectFacts
<1>3. PICK m \in Nat : m = ClassHeader + n /\ m = 4 + n
  <2>1. ClassHeader + n = 4 + n /\ 4 + n \in Nat
    BY DEF ClassHeader
  <2> QED
    BY <2>1
<1>4. Fits(arena.offset, m)
  BY <1>2, <1>3 DEF Crossing, WriteOpaque, Full
<1>5. PICK at \in Nat : /\ at = Place(arena) /\ at % Word = 0 /\ at >= Base + TransferSize
                        /\ at + m = Base + Bump(arena, m).offset
                        /\ Bump(arena, m) \in [offset : 0 .. Capacity, overflowed : BOOLEAN]
  BY <1>4, WalkPlace
<1>6. at >= Base + arena.offset
  <2>1. arena \in [offset : 0 .. Capacity, overflowed : BOOLEAN]
    BY DEF IInv, Typed
  <2> QED
    BY <1>4, <1>5, <2>1, PlaceFacts
<1>7. PICK mem \in [Index -> Int] :
        /\ mem = Put(region, RecordAt, Record(KindObject, 0, at + attr))
        /\ mem[RecordAt \div Word] = KindObject
        /\ mem[RecordAt \div Word + 2] = at + attr
  <2>1. PICK c \in Int : c = at + attr
    OBVIOUS
  <2>2. KindObject \in Int /\ 0 \in Int
    BY DEF KindObject
  <2>3. RecordIn(Put(region, RecordAt, Record(KindObject, 0, c)), KindObject, 0, c)
    BY <2>2, RecordPut
  <2> QED
    BY <2>1, <2>3 DEF RecordIn
<1>8. PICK mem2 \in [Index -> Int] :
        /\ mem2 = Put(mem, at, <<n>>)
        /\ at \div Word \in Index => mem2[at \div Word] = n
        /\ \A w \in Index : w * Word < at => mem2[w] = mem[w]
  <2> DEFINE r == Put(mem, at, <<n>>)
  <2>1. <<n>> \in Seq(Int) /\ 1 \in DOMAIN <<n>> /\ <<n>>[1] = n
    OBVIOUS
  <2>2. r \in [Index -> Int]
    BY <1>5, <2>1, PutType
  <2>3. at \div Word \in Index => r[at \div Word] = n
    <3>1. PICK q \in Nat : q = at \div Word /\ q + 1 - 1 = at \div Word
      BY <1>5, WordAt
    <3>2. at \div Word + 1 - 1 \in Index => Put(mem, at, <<n>>)[at \div Word + 1 - 1] = <<n>>[1]
      BY <2>1, PutWords
    <3> QED
      BY <2>1, <3>1, <3>2
  <2>4. \A w \in Index : w * Word < at => r[w] = mem[w]
    BY <1>5, <2>1, PutLeaves
  <2> HIDE DEF r
  <2> QED
    BY <2>2, <2>3, <2>4 DEF r
<1>9. /\ region' = PutText(mem2, at + 4, n, o) /\ arena' = Bump(arena, m)
      /\ stack' = Advanced /\ pending' = Append(pending, [object |-> o, at |-> RecordAt])
      /\ Writes(o, held, region', arena')
  <2>1. WriteOpaque(o, attr, held) /\ Fits(arena.offset, ClassHeader + Length[o])
        /\ ClassHeader = 4
    BY <1>2, <1>3, <1>4 DEF Crossing, ClassHeader
  <2>2. /\ Writes(o, held, PutText(mem2, at + 4, n, o), Bump(arena, m))
        /\ stack' = Advanced /\ pending' = Append(pending, [object |-> o, at |-> RecordAt])
    BY <1>2, <1>3, <1>5, <1>7, <1>8, <2>1 DEF WriteOpaque
  <2>3. region' = PutText(mem2, at + 4, n, o) /\ arena' = Bump(arena, m)
    BY <2>2 DEF Writes
  <2> QED
    BY <2>2, <2>3
<1>10. (at + 4) % Word = 0 /\ at + 4 \in Nat
  <2>1. PICK q \in Nat : at = 4 * q
    BY <1>5 DEF Word
  <2>2. (4 * q + 4) % 4 = 0
    OBVIOUS
  <2> QED
    BY <2>1, <2>2 DEF Word
<1>11. /\ \A i \in 1 .. Words(n) : (at + 4) \div Word + i - 1 \in Index =>
             region'[(at + 4) \div Word + i - 1] = o
       /\ \A w \in Index : w * Word < at + 4 => region'[w] = mem2[w]
  <2>1. PICK p \in Nat : p = at + 4 /\ p % Word = 0
    BY <1>10
  <2>2. PICK r : r = region' /\ r = PutText(mem2, p, n, o)
    BY <1>9, <2>1
  <2>3. /\ \A i \in 1 .. Words(n) : p \div Word + i - 1 \in Index => r[p \div Word + i - 1] = o
        /\ \A w \in Index : w * Word < p => r[w] = mem2[w]
    BY <1>1, <2>1, <2>2, PutTextWords
  <2> QED
    BY <2>1, <2>2, <2>3
<1>12. \A w \in Index : w * Word < at => region'[w] = mem[w]
  <2> SUFFICES ASSUME NEW w \in Index, w * Word < at  PROVE region'[w] = mem[w]
    OBVIOUS
  <2>1. w * Word \in Nat
    BY WordFacts
  <2>2. w * Word < at + 4
    BY <2>1
  <2> QED
    BY <1>8, <1>11, <2>2
<1>13. /\ region'[RecordAt \div Word] = KindObject
       /\ region'[RecordAt \div Word + 2] = at + attr
  <2>1. PICK r : r = region'
    OBVIOUS
  <2>2. SameBefore(at, r, mem)
    BY <1>12, <2>1 DEF SameBefore
  <2>3. /\ r[RecordAt \div Word] = mem[RecordAt \div Word]
        /\ r[RecordAt \div Word + 1] = mem[RecordAt \div Word + 1]
        /\ r[RecordAt \div Word + 2] = mem[RecordAt \div Word + 2]
    BY <1>6, <2>2, RecordLeft
  <2> QED
    BY <1>7, <2>1, <2>3
<1>14. WalksOn(o) /\ purpose' = purpose
  <2>1. WriteOpaque(o, attr, held) /\ UNCHANGED outside /\ phase' = "writing"
    BY DEF Crossing
  <2> QED
    BY <2>1, WriteOpaqueOn DEF outside
<1>15. PICK e \in Walk : Logs(e, o, held)
  BY <1>9, LogsHere
<1>16. e.object = o /\ e.at = RecordAt /\ e.place = at /\ Handled(e) /\ Attribute(e.object) = attr
  BY <1>5, <1>15 DEF Logs, Crossing
<1>17. purpose' = purpose /\ ~Whole(e) /\ Payload(e) = m /\ TextAt(e) = at + 4
  <2>1. o \notin Ints /\ o \notin Strs
    BY <1>1, <1>16, KindsApart DEF Handled
  <2> QED
    BY <1>2, <1>3, <1>14, <1>16, <2>1 DEF Handled, Payload, TextAt, ClassHeader
<1>18. (Whole(e)' <=> Whole(e)) /\ (Handled(e)' <=> Handled(e))
  BY <1>17, SamePurpose
<1>19. Base + arena.offset \in Nat /\ arena'.offset \in 0 .. Capacity
       /\ at + m = Base + arena'.offset /\ at + 4 + n <= Base + arena'.offset
       /\ Base + arena.offset <= at + 4
  <2>1. Base + arena.offset \in Nat
    BY RegionFacts DEF IInv, Typed
  <2>2. arena'.offset \in 0 .. Capacity /\ at + m = Base + arena'.offset
    <3>1. arena' \in [offset : 0 .. Capacity, overflowed : BOOLEAN]
      BY <1>5, <1>9
    <3> QED
      BY <1>5, <1>9, <3>1
  <2>3. at + 4 + n = at + m
    <3>1. m = 4 + n
      BY <1>3
    <3> QED
      BY <3>1
  <2>4. Base + arena.offset <= at + 4
    BY <1>6, <2>1
  <2> QED
    BY <2>1, <2>2, <2>3, <2>4
<1>20. TextSays(e)'
  <2>1. PICK p \in Nat : p = at + 4 /\ p % Word = 0
    BY <1>10
  <2>2. \A i \in 1 .. Words(n) : Says(p \div Word + i - 1, o)'
    BY <1>9, <1>11, <1>14, <1>19, <2>1, TextIsSaid
  <2>3. TextAt(e)' = p
    BY <1>16, <1>17, <1>18, <2>1 DEF TextAt
  <2>4. \A i \in 1 .. Words(Length[e.object]) : Says(p \div Word + i - 1, e.object)'
    BY <1>2, <1>16, <2>2
  <2> QED
    BY <2>3, <2>4 DEF TextSays, Says
<1>21. Says(at \div Word, n)'
  <2>1. PICK w \in Nat : w = at \div Word /\ w * Word = at
    <3>1. (at \div Word + 0) * Word = at + 0 * Word /\ at \div Word \in Nat
      BY <1>5, WordAt
    <3> QED
      BY <3>1 DEF Word
  <2>2. at < Base + arena'.offset /\ Base <= at /\ at < Base + Capacity
    <3>1. m = 4 + n /\ at >= Base + 20 /\ at + m = Base + arena'.offset
      BY <1>3, <1>5, <1>19 DEF TransferSize
    <3>2. arena'.offset \in Nat /\ arena'.offset <= Capacity /\ Base \in Nat /\ Capacity \in Nat
      BY <1>19, RegionFacts
    <3> QED
      BY <3>1, <3>2
  <2>3. w \in Index
    BY <2>1, <2>2, WordInRegion
  <2>4. Final(w)'
    BY <1>6, <1>9, <1>14, <2>1, <2>2, <2>3, FreshIsFinal
  <2>5. region'[w] = n
    <3>1. w * Word < at + 4
      BY <2>1
    <3> QED
      BY <1>8, <1>11, <2>1, <2>3, <3>1
  <2> QED
    BY <2>1, <2>3, <2>4, <2>5 DEF Says
<1>22. RecordSays(e)'
  <2>1. Form(e)[1] = KindObject /\ Form(e)[3] = at + attr
    <3>1. o \notin Ints /\ o \notin Strs
      BY <1>1, <1>16, KindsApart DEF Handled
    <3> QED
      BY <1>16, <3>1 DEF Form, Record
  <2>2. pending' # pending
    <3>1. PICK s \in Seq(Records) : s = pending
      BY DEF IInv, Typed
    <3>2. [object |-> o, at |-> RecordAt] \in Records
      BY <1>1, WalkFacts DEF Records
    <3>3. Len(Append(s, [object |-> o, at |-> RecordAt])) = Len(s) + 1 /\ Len(s) \in Nat
      BY <3>2
    <3> QED
      BY <1>9, <3>1, <3>3
  <2>3. Says(e.place \div Word, Length[e.object])'
    BY <1>2, <1>16, <1>21
  <2> QED
    BY <1>13, <1>14, <1>15, <1>16, <1>17, <1>20, <2>1, <2>2, <2>3, FormIsSaid
<1>23. Placed(e)'
  <2>1. arena'.offset \in Nat /\ arena'.offset >= arena.offset
    BY <1>14 DEF WalksOn
  <2>2. /\ e.place % Word = 0 /\ e.place >= Base + TransferSize
        /\ e.place + Payload(e) <= Base + arena'.offset
    BY <1>5, <1>16, <1>17, <1>19
  <2> QED
    BY <1>15, <1>17, <2>1, <2>2, PlacedHere DEF Crossing
<1>24. FramesGoOn(e)
  BY <1>9, <1>17 DEF FramesGoOn
<1>25. contents' \in Shapes
  BY DEF Crossing
<1> QED
  BY <1>9, <1>14, <1>15, <1>17, <1>22, <1>23, <1>24, <1>25, WalkKeeps

LEMMA WriteObjectKeeps ==
  ASSUME IInv, Apart, WalkKept, NEW o, WriteObject(o), phase' = "writing"
  PROVE  WalkKept'
<1>1. /\ Walks(o) /\ o \in Opaques /\ UNCHANGED outside
      /\ WriteOpaque(o, Attributes[o], <<>>)
      /\ \E m \in Lists \cup Dicts : contents' \in Changed(m)
  BY DEF WriteObject
<1>2. contents' \in Shapes
  BY <1>1 DEF Changed
<1>3. Attributes[o] \in Nat /\ <<>> \in Seq(Objects) /\ Attribute(o) = Attributes[o]
  BY <1>1, TransferAssumption DEF AttrMask, Attribute
<1>4. o \notin Containers /\ o \notin Dicts
  BY <1>1, WalkFacts, KindsApart
<1>5. Crossing(o, <<>>, Attributes[o])
  BY <1>1, <1>2, <1>3, <1>4 DEF Logs, Handled, Whole, WholeIn, Crossing
<1> QED
  BY <1>1, <1>2, <1>3, <1>5, WriteOpaqueKeeps

LEMMA DictsAreEven ==
  ASSUME contents \in Shapes, NEW o \in Dicts
  PROVE  Len(contents[o]) % 2 = 0
BY TransferAssumption

LEMMA WriteAsHandleKeeps ==
  ASSUME IInv, Apart, WalkKept, NEW o, WriteAsHandle(o), phase' = "writing"
  PROVE  WalkKept'
<1>1. /\ Walks(o) /\ o \in Containers /\ CrossesAsHandle(o) /\ UNCHANGED outside
      /\ WriteOpaque(o, 0, contents[o]) /\ contents' = contents
  BY DEF WriteAsHandle
<1>2. contents' \in Shapes /\ contents \in Shapes
  BY <1>1 DEF WalkKept
<1>3. contents[o] \in Seq(Objects)
  BY <1>1 DEF IInv, Typed
<1>4. o \notin Opaques
  BY <1>1, WalkFacts, KindsApart
<1>5. \A e \in Walk : Logs(e, o, contents[o]) => Handled(e) /\ Attribute(o) = 0
  BY <1>1, <1>4, CrossingFacts DEF Logs, Handled, Attribute
<1>6. o \in Dicts => Len(contents[o]) % 2 = 0
  BY <1>2, DictsAreEven
<1>7. Crossing(o, contents[o], 0)
  BY <1>1, <1>2, <1>5, <1>6 DEF Crossing
<1> QED
  BY <1>1, <1>2, <1>3, <1>7, WriteOpaqueKeeps

LEMMA WriteContainerKeeps ==
  ASSUME IInv, Apart, WalkKept, NEW o, WriteContainer(o), phase' = "writing"
  PROVE  WalkKept'
<1>1. Walks(o) /\ o \in Containers /\ ~CrossesAsHandle(o) /\ contents' = contents
      /\ purpose' = purpose
  BY DEF WriteContainer, outside
<1>2. PICK held \in Seq(Objects) : held = contents[o]
  BY <1>1 DEF IInv, Typed
<1>3. PICK n \in Nat, count \in Int, kind \in Int :
        /\ n = Len(held) * ValueSize
        /\ count = (IF o \in Dicts THEN Len(held) \div 2 ELSE Len(held))
        /\ kind = KindOf(o)
  <2>1. PICK l \in Nat : l = Len(held)
    OBVIOUS
  <2>2. l * ValueSize \in Nat /\ l \div 2 \in Int /\ l \in Int /\ KindOf(o) \in Int
    BY KindType DEF ValueSize
  <2> QED
    BY <2>1, <2>2
<1>4. Fits(arena.offset, n)
  BY <1>1, <1>2, <1>3 DEF WriteContainer, Full
<1>5. PICK at \in Nat : /\ at = Place(arena) /\ at % Word = 0 /\ at >= Base + TransferSize
                        /\ at + n = Base + Bump(arena, n).offset
                        /\ Bump(arena, n) \in [offset : 0 .. Capacity, overflowed : BOOLEAN]
  BY <1>1, <1>4, WalkPlace
<1>6. at >= Base + arena.offset
  <2>1. arena \in [offset : 0 .. Capacity, overflowed : BOOLEAN]
    BY DEF IInv, Typed
  <2> QED
    BY <1>4, <1>5, <2>1, PlaceFacts
<1>7. /\ Writes(o, held, Put(region, RecordAt, Record(kind, count, at)), Bump(arena, n))
      /\ stack' = Append(Advanced, [object |-> o, items |-> held, block |-> at, next |-> 1])
      /\ pending' = pending
  BY <1>2, <1>3, <1>4, <1>5 DEF WriteContainer
<1>8. region' = Put(region, RecordAt, Record(kind, count, at)) /\ arena' = Bump(arena, n)
  BY <1>7 DEF Writes
<1>9. RecordIn(region', kind, count, at)
  <2>1. at \in Int
    OBVIOUS
  <2>2. RecordIn(Put(region, RecordAt, Record(kind, count, at)), kind, count, at)
    BY <1>1, <1>3, <2>1, RecordPut
  <2> QED
    BY <1>8, <2>2
<1>10. WalksOn(o)
  BY WriteContainerOn
<1>11. PICK e \in Walk : Logs(e, o, held)
  BY <1>1, <1>7, LogsHere
<1>12. e.object = o /\ e.at = RecordAt /\ e.place = at /\ e.items = held
  BY <1>5, <1>11 DEF Logs
<1>13. Whole(e)
  BY <1>1, <1>11, CrossingFacts
<1>14. Whole(e)' /\ ~Handled(e) /\ o \notin Ints /\ o \notin Strs
  BY <1>1, <1>13, SamePurpose, WalkFacts, KindsApart DEF Handled
<1>15. Form(e)[1] = kind /\ Form(e)[2] = count /\ Form(e)[3] = at /\ Payload(e) = n
  <2>1. Form(e) = Record(KindOf(o), Count(e), at) /\ Payload(e) = n
    BY <1>3, <1>12, <1>14 DEF Form, Payload
  <2>2. Count(e) = count
    BY <1>3, <1>12 DEF Count
  <2> QED
    BY <1>3, <2>1, <2>2 DEF Record
<1>16. TextSays(e)'
  BY <1>14 DEF TextSays
<1>17. RecordSays(e)'
  <2>1. /\ region'[e.at \div Word] = Form(e)[1] /\ region'[e.at \div Word + 1] = Form(e)[2]
        /\ region'[e.at \div Word + 2] = Form(e)[3]
    BY <1>9, <1>12, <1>15 DEF RecordIn
  <2> QED
    BY <1>1, <1>7, <1>10, <1>11, <1>14, <1>16, <2>1, FormIsSaid
<1>18. arena'.offset \in Nat /\ arena'.offset >= arena.offset
  BY <1>10 DEF WalksOn
<1>19. at + n = Base + arena'.offset
  BY <1>5, <1>8
<1>20. Placed(e)'
  <2>1. /\ e.place % Word = 0 /\ e.place >= Base + TransferSize
        /\ e.place + Payload(e) <= Base + arena'.offset
    <3>1. at + n <= Base + arena'.offset
      <4>1. Base + arena'.offset \in Nat
        BY <1>18, RegionFacts
      <4> QED
        BY <1>19, <4>1
    <3> QED
      BY <1>5, <1>12, <1>15, <3>1
  <2>2. o \in Dicts => Len(held) % 2 = 0
    BY <1>2, DictsAreEven DEF WalkKept
  <2> QED
    BY <1>1, <1>11, <1>18, <2>1, <2>2, PlacedHere
<1>21. FramesGoOn(e)
  <2>1. arena'.offset >= arena.offset + n
    <3>1. arena.offset \in Nat /\ Base \in Nat
      BY RegionFacts DEF IInv, Typed
    <3> QED
      BY <1>6, <1>18, <1>19, <3>1
  <2> QED
    BY <1>3, <1>7, <1>12, <1>13, <2>1 DEF FramesGoOn
<1>22. contents' \in Shapes
  BY <1>1 DEF WalkKept
<1> QED
  BY <1>1, <1>10, <1>11, <1>14, <1>17, <1>20, <1>21, <1>22, WalkKeeps

\* What there is of the walk stays, when the frames change and nothing else.
LEMMA LeaveContainerKeeps ==
  ASSUME IInv, Apart, WalkKept, LeaveContainer
  PROVE  WalkKept'
<1>1. /\ phase = "writing" /\ Len(stack) > 1
      /\ stack[Len(stack)].next > Len(stack[Len(stack)].items)
      /\ stack' = SubSeq(stack, 1, Len(stack) - 1)
      /\ UNCHANGED <<contents, phase, region, arena, pending, log, purpose, committed>>
  BY DEF LeaveContainer, outside, Top, Items
<1>2. StepIsFinal
  BY LeaveContainerApart
<1>3. Nested' = Nested /\ \A x : (Handled(x)' <=> Handled(x))
  BY <1>1, SamePurpose
<1>4. PICK s \in Seq(Frames) : s = stack
  BY DEF IInv, Typed
<1>5. /\ stack' # <<>> /\ stack # <<>> /\ stack'[1] = stack[1]
  <2>1. Len(s) \in Nat /\ Len(s) > 1
    BY <1>1, <1>4
  <2>2. SubSeq(s, 1, Len(s) - 1)[1] = s[1] /\ Len(SubSeq(s, 1, Len(s) - 1)) = Len(s) - 1
    BY <2>1
  <2>3. s # <<>> /\ SubSeq(s, 1, Len(s) - 1) # <<>>
    <3>1. PICK l \in Nat : l = Len(s) /\ l > 1
      BY <2>1
    <3>2. l - 1 > 0
      BY <3>1
    <3>3. Len(<<>>) = 0
      OBVIOUS
    <3>4. s # <<>>
      BY <3>1, <3>3
    <3>5. SubSeq(s, 1, Len(s) - 1) # <<>>
      <4>1. PICK t : t = SubSeq(s, 1, Len(s) - 1)
        OBVIOUS
      <4>2. Len(t) > 0
        BY <2>2, <3>1, <3>2, <4>1
      <4>3. t # <<>>
        BY <3>3, <4>2
      <4> QED
        BY <4>1, <4>3
    <3> QED
      BY <3>4, <3>5
  <2> QED
    BY <1>1, <1>4, <2>2, <2>3
<1>6. RootSays'
  BY <1>1, <1>2, <1>5, RootStays DEF WalkKept
<1>7. RecordsKept'
  <2>1. arena'.offset \in Nat /\ arena'.offset >= arena.offset
    BY <1>1 DEF IInv, Typed
  <2>2. \A x \in Range(log) : RecordSays(x)' /\ Placed(x)'
    BY <1>1, <1>2, <2>1, RecordsStay DEF WalkKept
  <2> QED
    BY <1>1, <2>2 DEF RecordsKept
<1>8. Logged' /\ Distinct' /\ HandlesPending' /\ IdsWritten' /\ contents' \in Shapes
  BY <1>1, <1>3 DEF WalkKept, Logged, Distinct, HandlesPending, IdsWritten
<1>9. InTree'
  <2>1. PICK walks \in Seq(Walk) : walks = log
    BY DEF WalkKept, Logged
  <2>2. PICK kid, ends, open : Tree(Branches(walks, s, Nested), walks, s, kid, ends, open)
    BY <1>4, <2>1 DEF WalkKept, InTree, Grown
  <2>3. Grown(walks, SubSeq(s, 1, Len(s) - 1), Nested)
    BY <1>1, <1>4, <2>1, <2>2, TreeLeave
  <2> QED
    BY <1>1, <1>3, <1>4, <2>1, <2>3 DEF InTree
<1>10. Roomy'
  <2>1. PICK n \in Nat : n = Len(log) + Nested
    <3>1. log \in Seq(Walk) /\ Nested \in Nat
      BY DEF WalkKept, Logged, Nested
    <3> QED
      BY <3>1
  <2>2. PICK end \in Nat : end = arena.offset
    BY DEF IInv, Typed
  <2>3. RoomFor(n, s, end)
    BY <1>4, <2>1, <2>2 DEF WalkKept, Roomy
  <2>4. RoomFor(n, SubSeq(s, 1, Len(s) - 1), end)
    BY <1>1, <1>4, <2>3, RoomLeave
  <2> QED
    BY <1>1, <1>3, <1>4, <2>1, <2>2, <2>4 DEF Roomy
<1> QED
  BY <1>6, <1>7, <1>8, <1>9, <1>10 DEF WalkKept

-----------------------------------------------------------------------------
(* The commit.                                                             *)

\* What a step that is none of the walk's leaves alone.
Aside ==
  /\ contents' = contents /\ purpose' = purpose /\ stack' = stack /\ log' = log /\ pending' = pending
  /\ arena'.offset \in Nat /\ arena'.offset >= arena.offset

LEMMA AsideKeeps ==
  ASSUME IInv, WalkKept, stack # <<>>, StepIsFinal, Aside, IdsWritten'
  PROVE  WalkKept'
<1>1. /\ contents' = contents /\ purpose' = purpose /\ stack' = stack /\ log' = log
      /\ pending' = pending /\ arena'.offset \in Nat /\ arena'.offset >= arena.offset
  BY DEF Aside
<1>2. Nested' = Nested /\ \A x : (Handled(x)' <=> Handled(x))
  BY <1>1, SamePurpose
<1>3. RootSays'
  BY <1>1, RootStays DEF WalkKept
<1>4. RecordsKept'
  <2>1. \A x \in Range(log) : RecordSays(x)' /\ Placed(x)'
    BY <1>1, RecordsStay DEF WalkKept
  <2> QED
    BY <1>1, <2>1 DEF RecordsKept
<1>5. Logged' /\ Distinct' /\ HandlesPending' /\ contents' \in Shapes
  BY <1>1, <1>2 DEF WalkKept, Logged, Distinct, HandlesPending
<1>6. InTree'
  BY <1>1, <1>2 DEF WalkKept, InTree
<1>7. Roomy'
  <2>1. PICK n \in Nat : n = Len(log) + Nested
    <3>1. log \in Seq(Walk) /\ Nested \in Nat
      BY DEF WalkKept, Logged, Nested
    <3> QED
      BY <3>1
  <2>2. PICK s \in Seq(Frames), end \in Nat, more \in Nat :
          s = stack /\ end = arena.offset /\ more = arena'.offset /\ end <= more
    BY <1>1 DEF IInv, Typed
  <2>3. RoomFor(n, s, end)
    BY <2>1, <2>2 DEF WalkKept, Roomy
  <2>4. RoomFor(n, s, more)
    BY <2>2, <2>3, RoomTold
  <2> QED
    BY <1>1, <1>2, <2>1, <2>2, <2>4 DEF Roomy
<1> QED
  BY <1>3, <1>4, <1>5, <1>6, <1>7 DEF WalkKept

LEMMA ReserveLedgerKeeps ==
  ASSUME IInv, Apart, WalkKept, ReserveLedger, phase' # "raised"
  PROVE  WalkKept' /\ WalkIsOver' /\ (phase' = "written" => committed' = Len(pending'))
<1> DEFINE n == Len(pending) * EntrySize
<1>1. /\ Walked /\ phase = "writing"
      /\ UNCHANGED <<contents, purpose, region, stack, pending, committed, log>>
  BY DEF ReserveLedger, Walked
<1>2. /\ arena \in [offset : 0 .. Capacity, overflowed : BOOLEAN] /\ n \in Nat
      /\ stack # <<>> /\ committed = 0
  BY <1>1 DEF IInv, Typed, Phased, WritingSound, EntrySize
<1>3. StepIsFinal
  BY ReserveLedgerApart
<1>4. arena'.offset \in Nat /\ arena'.offset >= arena.offset
  <2>1. CASE pending = <<>>
    BY <1>2, <2>1 DEF ReserveLedger
  <2>2. CASE pending # <<>>
    <3>1. Fits(arena.offset, n) /\ arena' = Bump(arena, n)
      BY <1>1, <2>2 DEF ReserveLedger
    <3> HIDE DEF n
    <3>2. /\ Bump(arena, n) \in [offset : 0 .. Capacity, overflowed : BOOLEAN]
          /\ Bump(arena, n).offset >= arena.offset
      BY <1>2, <3>1, PlaceFacts
    <3> QED
      BY <3>1, <3>2
  <2> QED
    BY <2>1, <2>2
<1>5. IdsWritten'
  BY <1>1, <1>2 DEF IdsWritten
<1>6. WalkKept'
  BY <1>1, <1>2, <1>3, <1>4, <1>5, AsideKeeps DEF Aside
<1>7. WalkIsOver'
  BY <1>1 DEF Walked, Top, Items, WalkIsOver
<1>8. phase' = "written" => pending = <<>>
  BY DEF ReserveLedger
<1> QED
  BY <1>1, <1>2, <1>6, <1>7, <1>8

LEMMA LedgerInRegion ==
  ASSUME Typed, CommittingSound
  PROVE  \E base \in Nat, used \in Nat, l \in Nat :
           /\ base = Base /\ used = Base + arena.offset /\ l = ledger
           /\ l <= used /\ used <= Base + Capacity /\ base + 20 <= l
<1>1. PICK base \in Nat, cap \in Nat : base = Base /\ cap = Capacity
  BY RegionFacts
<1>2. PICK off \in Nat : off = arena.offset /\ off <= cap
  <2>1. arena.offset \in 0 .. cap
    BY <1>1 DEF Typed
  <2> QED
    BY <1>1, <2>1
<1>3. PICK l \in Nat, n \in Nat : l = ledger /\ n = Len(pending)
  <2>1. ledger \in Nat /\ pending \in Seq(Records)
    BY DEF Typed
  <2> QED
    BY <2>1
<1>4. ledger >= Base + 20 /\ ledger + Len(pending) * 4 <= Base + arena.offset
  BY DEF CommittingSound, LedgerPlaced, EntrySize, TransferSize
<1>5. l >= base + 20 /\ l + n * 4 <= base + off
  BY <1>1, <1>2, <1>3, <1>4
<1>6. l <= base + off /\ base + 20 <= l /\ base + off <= base + cap /\ base + off \in Nat
  BY <1>1, <1>2, <1>3, <1>5
<1>7. PICK used \in Nat : used = base + off
  BY <1>6
<1> QED
  BY <1>1, <1>2, <1>3, <1>6, <1>7

\* The ids that are written are final.
LEMMA IdsAreFinal ==
  ASSUME IInv, Apart, phase = "committing", NEW i \in 1 .. committed
  PROVE  /\ pending[i].at \in Nat /\ pending[i].at % Word = 0
         /\ pending[i].at \div Word + 1 \in Index
         /\ (pending[i].at + Word) \div Word = pending[i].at \div Word + 1
         /\ Final(pending[i].at \div Word + 1)
<1>1. /\ Typed /\ CommittingSound /\ AllWritten(stack)
      /\ RecordsApart(pending) /\ RecordsPlaced(pending)
  BY DEF IInv, Phased, Apart
<1>2. i \in DOMAIN pending /\ i \in Nat /\ committed \in Nat /\ i <= committed
  BY <1>1 DEF Typed
<1>3. PICK at \in Nat : /\ at = pending[i].at /\ at % Word = 0 /\ at + 12 <= ledger
                        /\ (at = Base \/ at >= Base + 20)
  <2>1. pending[i] \in Records
    BY <1>1, <1>2 DEF Typed
  <2>2. RecordsBelow(pending, ledger)
    BY <1>1 DEF CommittingSound
  <2> QED
    BY <1>1, <1>2, <2>1, <2>2 DEF Records, RecordsBelow, RecordsPlaced, ValueSize, TransferSize
<1>4. PICK base \in Nat, used \in Nat, l \in Nat :
        /\ base = Base /\ used = Base + arena.offset /\ l = ledger
        /\ l <= used /\ used <= Base + Capacity /\ base + 20 <= l
  BY <1>1, LedgerInRegion
<1>5. at + 12 <= l /\ (at = base \/ at >= base + 20)
  BY <1>3, <1>4
<1>6. PICK w \in Nat : w = at \div Word + 1 /\ w * Word = at + 4 /\ (at + Word) \div Word = w
  <2>1. /\ at \div Word \in Nat
        /\ (at \div Word + 1) * Word = at + 1 * Word
        /\ (at + 1 * Word) \div Word = at \div Word + 1
    BY <1>3, WordAt
  <2>2. 1 * Word = 4 /\ 1 * Word = Word
    BY DEF Word
  <2> QED
    BY <2>1, <2>2
<1>7. PICK a \in Nat : a = w * Word /\ a = at + 4
  BY <1>6
<1>8. w \in Index
  <2>1. base <= a /\ a < used
    BY <1>4, <1>5, <1>7
  <2>2. Base <= w * Word /\ w * Word < Base + Capacity
    <3>1. PICK top \in Nat : top = Base + Capacity
      BY RegionFacts
    <3> QED
      BY <1>4, <1>7, <2>1, <3>1
  <2> QED
    BY <2>2, WordInRegion
<1>9. ~OpenRecord(a)
  BY <1>1, NothingOpen
<1>10. ~OpenId(a)
  <2> SUFFICES ASSUME NEW k \in DOMAIN pending, k > committed, a = pending[k].at + 4  PROVE FALSE
    BY DEF OpenId, Word
  <2>1. k \in Nat /\ i < k
    BY <1>1, <1>2 DEF Typed
  <2>2. pending[i].at + 12 <= pending[k].at \/ pending[k].at + 12 <= pending[i].at
    BY <1>1, <1>2, <2>1 DEF RecordsApart, ValueSize
  <2>3. pending[k].at \in Nat
    <3>1. pending[k] \in Records
      BY <1>1 DEF Typed
    <3> QED
      BY <3>1 DEF Records
  <2> QED
    BY <1>3, <1>7, <2>2, <2>3
<1>11. ~OpenEntry(a)
  <2>1. PICK c \in Nat : c = committed
    BY <1>2
  <2>2. ~(l + c * 4 <= a)
    BY <1>5, <1>7, <2>1
  <2> QED
    BY <1>4, <2>1, <2>2 DEF OpenEntry, EntrySize
<1>12. ~OpenHeader(a)
  <2>1. ~(base + 12 <= a /\ a < base + 20)
    BY <1>5, <1>7
  <2> QED
    BY <1>4, <2>1 DEF OpenHeader, ValueSize, TransferSize
<1>13. a < Base + arena.offset
  <2>1. a < used
    BY <1>4, <1>5, <1>7
  <2> QED
    BY <1>4, <2>1
<1>14. Final(w)
  BY <1>7, <1>9, <1>10, <1>11, <1>12, <1>13 DEF Final
<1> QED
  BY <1>3, <1>6, <1>8, <1>14

\* The ids that were written stay.
LEMMA IdsStay ==
  ASSUME IInv, Apart, IdsWritten, phase = "committing", StepIsFinal, NEW i \in 1 .. committed
  PROVE  region'[(pending[i].at + Word) \div Word] = pending[i].object
<1>1. /\ pending[i].at \div Word + 1 \in Index
      /\ (pending[i].at + Word) \div Word = pending[i].at \div Word + 1
      /\ Final(pending[i].at \div Word + 1)
  BY IdsAreFinal
<1>2. DOMAIN region = Index
  BY DEF IInv, Typed
<1>3. PICK w \in Index : w = (pending[i].at + Word) \div Word /\ Final(w)
  BY <1>1
<1>4. region'[w] = region[w]
  BY <1>2, <1>3 DEF StepIsFinal
<1>5. region[w] = pending[i].object
  BY <1>3 DEF IdsWritten, At
<1> QED
  BY <1>3, <1>4, <1>5

LEMMA AddRefKeeps ==
  ASSUME IInv, Apart, WalkKept, stack # <<>>, AddRef
  PROVE  WalkKept'
<1> DEFINE p == pending[committed + 1]
           mem == Put(region, ledger + committed * EntrySize, <<p.object>>)
<1>1. /\ phase = "committing" /\ committed < Len(pending) /\ committed' = committed + 1
      /\ region' = Put(mem, p.at + Word, <<p.object>>)
      /\ UNCHANGED <<contents, purpose, arena, stack, pending, ledger, log>>
  BY DEF AddRef
<1>2. StepIsFinal
  BY AddRefApart
<1>3. Typed /\ CommittingSound
  BY <1>1 DEF IInv, Phased
<1>4. committed \in Nat /\ committed + 1 \in DOMAIN pending /\ arena.offset \in Nat
  BY <1>1, <1>3 DEF Typed
<1>5. PICK at \in Nat, x \in Int : at = p.at /\ x = p.object /\ at % Word = 0
                                  /\ at >= Base /\ at + 12 <= ledger
  <2>1. p \in Records
    BY <1>3, <1>4 DEF Typed
  <2>2. RecordsBelow(pending, ledger) /\ RecordsPlaced(pending)
    BY <1>1, <1>3 DEF CommittingSound, Apart
  <2>3. p.at % Word = 0 /\ p.at + 12 <= ledger /\ (p.at = Base \/ p.at >= Base + 20)
    BY <1>4, <2>2 DEF RecordsBelow, RecordsPlaced, ValueSize, TransferSize
  <2>4. p.object \in Int /\ p.at \in Nat
    <3>1. p.object \in Objects /\ p.at \in Nat
      BY <2>1 DEF Records
    <3>2. PICK o \in Objects : o = p.object
      BY <3>1
    <3> QED
      BY <3>1, <3>2, ObjectFacts
  <2>5. p.at >= Base
    BY <2>3, <2>4, RegionFacts
  <2> QED
    BY <2>3, <2>4, <2>5
<1> HIDE DEF mem, p
<1>6. mem \in [Index -> Int]
  <2>1. <<x>> \in Seq(Int) /\ region \in [Index -> Int] /\ ledger + committed * EntrySize \in Nat
    BY <1>3, <1>4 DEF Typed, EntrySize
  <2> QED
    BY <1>5, <2>1, PutType DEF mem
<1>7. region'[(at + Word) \div Word] = x
  <2>1. PICK b \in Nat : b = at + Word /\ b % Word = 0
    <3>1. PICK q \in Nat : at = 4 * q
      BY <1>5 DEF Word
    <3>2. 4 * q + 4 \in Nat /\ (4 * q + 4) % 4 = 0
      OBVIOUS
    <3> QED
      BY <3>1, <3>2 DEF Word
  <2>2. Base <= b /\ b < Base + Capacity
    <3>1. PICK base \in Nat, used \in Nat, l \in Nat :
            /\ base = Base /\ used = Base + arena.offset /\ l = ledger
            /\ l <= used /\ used <= Base + Capacity /\ base + 20 <= l
      BY <1>3, LedgerInRegion
    <3>2. at + 12 <= l /\ b = at + 4 /\ base <= at
      BY <1>5, <2>1, <3>1 DEF Word
    <3>3. PICK top \in Nat : top = Base + Capacity
      BY RegionFacts
    <3> QED
      BY <3>1, <3>2, <3>3
  <2>3. b \div Word \in Index
    BY <2>1, <2>2, InRegion
  <2>4. At(Put(mem, b, <<x>>), b) = x
    BY <1>6, <2>1, <2>3, PutHere
  <2> QED
    BY <1>1, <1>5, <2>1, <2>4 DEF At
<1>8. IdsWritten'
  <2> SUFFICES ASSUME NEW i \in 1 .. committed + 1
               PROVE  region'[(pending[i].at + Word) \div Word] = pending[i].object
    BY <1>1 DEF IdsWritten, At
  <2>1. CASE i \in 1 .. committed
    BY <1>1, <1>2, <2>1, IdsStay DEF WalkKept
  <2>2. CASE i = committed + 1
    BY <1>5, <1>7, <2>2 DEF p
  <2> QED
    BY <1>4, <2>1, <2>2
<1> QED
  BY <1>1, <1>2, <1>4, <1>8, AsideKeeps DEF Aside

LEMMA FinishCommitKeeps ==
  ASSUME IInv, Apart, WalkKept, stack # <<>>, FinishCommit
  PROVE  WalkKept' /\ committed' = Len(pending')
<1>1. /\ phase = "committing" /\ committed = Len(pending)
      /\ UNCHANGED <<contents, purpose, arena, stack, pending, ledger, committed, log>>
  BY DEF FinishCommit
<1>2. StepIsFinal
  BY FinishCommitApart
<1>3. arena.offset \in Nat
  BY DEF IInv, Typed
<1>4. IdsWritten'
  <2> SUFFICES ASSUME NEW i \in 1 .. committed
               PROVE  region'[(pending[i].at + Word) \div Word] = pending[i].object
    BY <1>1 DEF IdsWritten, At
  <2> QED
    BY <1>1, <1>2, IdsStay DEF WalkKept
<1>5. WalkKept'
  BY <1>1, <1>2, <1>3, <1>4, AsideKeeps DEF Aside
<1> QED
  BY <1>1, <1>5

-----------------------------------------------------------------------------
(* The region is opened.                                                   *)

\* The first words of the region, when nothing else is to be written there.
LEMMA HeadIsFinal ==
  ASSUME phase' = "writing", pending' = <<>>, NEW f \in Frames, stack' = <<f>>, f.next = 1,
         f.items = <<>> \/ f.block >= Base + TransferSize,
         arena'.offset \in Nat, arena'.offset >= TransferSize, NEW i \in 0 .. 2
  PROVE  Final(Base \div Word + i)' /\ Base \div Word + i \in Index
<1>1. PICK base \in Nat, cap \in Nat : base = Base /\ cap = Capacity /\ base % 4 = 0 /\ cap >= 20
  BY RegionFacts DEF Word, TransferSize
<1>2. PICK w \in Nat : w = Base \div Word + i /\ w * Word = base + i * 4
  BY <1>1, WordAt DEF Word
<1>3. PICK off \in Nat : off = arena'.offset /\ off >= 20
  BY DEF TransferSize
<1>4. PICK a \in Nat : a = w * Word /\ a >= base /\ a <= base + 8
  BY <1>1, <1>2
<1>5. f.block \in Nat /\ f.items \in Seq(Objects)
  BY DEF Frames
<1>6. ~OpenRecord(a)'
  <2>1. DOMAIN stack' = {1} /\ stack'[1] = f
    OBVIOUS
  <2>2. ~(f.block + (f.next - 1) * ValueSize <= a /\ a < f.block + Len(f.items) * ValueSize)
    <3>1. PICK b \in Nat, n \in Nat : b = f.block /\ n = Len(f.items)
      BY <1>5
    <3>2. n = 0 \/ b >= base + 20
      BY <1>1, <3>1 DEF TransferSize
    <3>3. ~(b + (1 - 1) * 12 <= a /\ a < b + n * 12)
      BY <1>4, <3>1, <3>2
    <3> QED
      BY <3>1, <3>3 DEF ValueSize
  <2> QED
    BY <2>1, <2>2 DEF OpenRecord
<1>7. ~OpenId(a)' /\ ~OpenEntry(a)'
  BY DEF OpenId, OpenEntry
<1>8. ~OpenHeader(a)'
  BY <1>1, <1>4 DEF OpenHeader, ValueSize
<1>9. a < Base + arena'.offset
  <2>1. a < base + off
    BY <1>3, <1>4
  <2> QED
    BY <1>1, <1>3, <2>1
<1>10. Final(w)'
  BY <1>4, <1>6, <1>7, <1>8, <1>9 DEF Final
<1>11. w \in Index
  <2>1. base <= a /\ a < base + cap
    BY <1>1, <1>4
  <2> QED
    BY <1>1, <1>4, <2>1, WordInRegion
<1> QED
  BY <1>2, <1>10, <1>11

LEMMA NoneAndMore == \A n \in {0, 1} : 0 + n = n
OBVIOUS

\* Nothing has been walked.
LEMMA OpensKeeps ==
  ASSUME IInv, Carried, NEW why, NEW items \in Seq(Objects), NEW at \in Nat, NEW mem,
         NEW a \in [offset : 0 .. Capacity, overflowed : BOOLEAN],
         Opens(why, items, at, mem, a), RootSays',
         NEW n \in {0, 1}, n = Nested', (n + Len(items)) * ValueSize + 8 <= a.offset
  PROVE  Carried'
<1> DEFINE f == [object |-> Entry, items |-> items, block |-> at, next |-> 1]
<1>1. /\ phase = "idle" /\ phase' = "writing" /\ arena' = a /\ stack' = <<f>>
      /\ contents' = contents /\ pending' = pending /\ committed' = committed /\ log' = log
  BY DEF Opens
<1>2. contents \in Shapes /\ log = <<>>
  BY <1>1 DEF Carried
<1>3. pending = <<>> /\ committed = 0
  BY <1>1 DEF IInv, Phased
<1>4. f \in Frames /\ f.next = 1 /\ f.items = items
  BY DEF Frames
<1> HIDE DEF f
<1>5. a.offset \in Nat
  BY RegionFacts
<1>6. Logged' /\ Distinct' /\ RecordsKept' /\ HandlesPending'
  <2>1. log' = <<>> /\ Range(log') = {} /\ DOMAIN log' = {}
    BY <1>1, <1>2 DEF Range
  <2> QED
    BY <2>1 DEF Logged, Distinct, RecordsKept, HandlesPending
<1>7. IdsWritten'
  BY <1>1, <1>3 DEF IdsWritten
<1>8. InTree'
  <2>1. Grown(<<>>, <<f>>, Nested')
    BY <1>4, TreeStart
  <2> QED
    BY <1>1, <1>2, <2>1 DEF InTree
<1>9. Roomy'
  <2>1. (n + Len(f.items)) * ValueSize + 8 <= a.offset
    BY <1>4
  <2>2. RoomFor(n, <<f>>, a.offset)
    <3>1. PICK m \in Nat, end \in Nat, g \in Frames : m = n /\ end = a.offset /\ g = f
      BY <1>4, <1>5
    <3>2. g.next = 1
      BY <1>4, <3>1
    <3>3. (m + Len(g.items)) * ValueSize + 8 <= end
      BY <2>1, <3>1
    <3>4. RoomFor(m, <<g>>, end)
      BY <3>2, <3>3, RoomStart, Zenon
    <3> QED
      BY <3>1, <3>4
  <2>3. Len(log') + Nested' = n
    <3>1. Len(log') = 0
      BY <1>1, <1>2
    <3> QED
      BY <3>1, NoneAndMore, Zenon
  <2> QED
    BY <1>1, <2>2, <2>3 DEF Roomy
<1>10. WalkKept'
  BY <1>1, <1>2, <1>6, <1>7, <1>8, <1>9 DEF WalkKept
<1> QED
  BY <1>1, <1>2, <1>10 DEF Carried

LEMMA StartResultKeeps ==
  ASSUME IInv, Carried, NEW root \in Objects, StartResult(root)
  PROVE  Carried'
<1>1. Opens("result", <<root>>, Base, Header(Stale(Base, Capacity)), Opened)
  BY DEF StartResult
<1>2. <<root>> \in Seq(Objects) /\ Len(<<root>>) = 1 /\ Base \in Nat /\ <<root>> # <<>>
  BY RegionFacts
<1>3. purpose' = "result" /\ Nested' = 0
  BY <1>1 DEF Opens, Nested
<1>4. /\ stack'[1].object = Entry /\ stack'[1].items = <<root>>
      /\ stack'[1].block = Base
  BY <1>1 DEF Opens
<1>5. RootSays'
  BY <1>2, <1>3, <1>4 DEF RootSays
<1>6. (0 + Len(<<root>>)) * ValueSize + 8 <= Opened.offset
  BY <1>2, OpenedFacts DEF ValueSize, TransferSize
<1> QED
  BY <1>1, <1>2, <1>3, <1>5, <1>6, OpenedFacts, OpensKeeps

LEMMA StartNoneKeeps ==
  ASSUME IInv, Carried, StartNone
  PROVE  Carried'
<1> DEFINE mem == Put(Header(Stale(Base, Capacity)), Base, Record(KindNone, 0, 0))
           f == [object |-> Entry, items |-> <<>>, block |-> Base, next |-> 1]
<1>1. Opens("result", <<>>, Base, mem, Opened)
  BY DEF StartNone
<1>2. <<>> \in Seq(Objects) /\ Len(<<>>) = 0 /\ Base \in Nat
  BY RegionFacts
<1>3. /\ purpose' = "result" /\ Nested' = 0 /\ phase' = "writing" /\ stack' = <<f>>
      /\ pending' = <<>> /\ region' = mem /\ arena' = Opened
  BY <1>1 DEF Opens, Nested, IInv, Phased
<1>4. f \in Frames /\ f.items = <<>> /\ f.block = Base /\ f.object = Entry /\ f.next = 1
  BY <1>2 DEF Frames
<1> HIDE DEF f
<1>5. Says(Base \div Word, KindNone)'
  <2>1. Final(Base \div Word + 0)' /\ Base \div Word + 0 \in Index
    BY <1>3, <1>4, OpenedFacts, HeadIsFinal DEF TransferSize
  <2>2. PICK w \in Int : w = Base \div Word
    BY RegionFacts DEF Word
  <2>3. Final(w)' /\ w \in Index
    BY <2>1, <2>2
  <2>4. Record(KindNone, 0, 0) \in Seq(Int) /\ Record(KindNone, 0, 0)[1] = KindNone
        /\ 1 \in DOMAIN Record(KindNone, 0, 0)
    BY DEF Record, KindNone
  <2>5. Header(Stale(Base, Capacity)) \in [Index -> Int]
    BY StaleType, HeaderFacts
  <2>6. Base \div Word + 1 - 1 \in Index
    BY <2>2, <2>3
  <2>7. mem[Base \div Word + 1 - 1] = KindNone
    <3>1. PICK rec \in Seq(Int) : rec = Record(KindNone, 0, 0) /\ 1 \in DOMAIN rec
      BY <2>4
    <3>2. Put(Header(Stale(Base, Capacity)), Base, rec)[Base \div Word + 1 - 1] = rec[1]
      <4>1. PICK old \in [Index -> Int] : old = Header(Stale(Base, Capacity))
        BY <2>5
      <4>2. Put(old, Base, rec)[Base \div Word + 1 - 1] = rec[1]
        BY <1>2, <2>6, <3>1, PutWords, Zenon
      <4> QED
        BY <4>1, <4>2
    <3> QED
      BY <2>4, <3>1, <3>2
  <2>8. mem[w] = KindNone
    BY <2>2, <2>7
  <2> QED
    BY <1>3, <2>2, <2>3, <2>8 DEF Says
<1>6. RootSays'
  <2>1. stack'[1] = f /\ purpose' # "arguments"
    BY <1>3
  <2>2. /\ stack'[1].object = Entry /\ stack'[1].items = <<>> /\ stack'[1].block = Base
        /\ stack'[1].items \in Seq(Objects)
    BY <1>2, <1>4, <2>1
  <2>3. Len(stack'[1].items) <= 1
    BY <1>2, <2>2
  <2> QED
    BY <1>5, <2>1, <2>2, <2>3 DEF RootSays
<1>7. (0 + Len(<<>>)) * ValueSize + 8 <= Opened.offset
  BY <1>2, OpenedFacts DEF ValueSize, TransferSize
<1> HIDE DEF mem
<1> QED
  BY <1>1, <1>2, <1>3, <1>6, <1>7, OpenedFacts, OpensKeeps

LEMMA StartArgumentsKeeps ==
  ASSUME IInv, Carried, NEW args \in Seq(Objects), StartArguments(args)
  PROVE  Carried'
<1> DEFINE n == Len(args) * ValueSize
           rec == Record(KindTuple, Len(args), Place(Opened))
           mem == Put(Header(Stale(Base, Capacity)), Base, rec)
           f == [object |-> Entry, items |-> args, block |-> Place(Opened), next |-> 1]
<1>1. Opens("arguments", args, Place(Opened), mem, Bump(Opened, n))
  BY DEF StartArguments
<1>2. Len(args) \in Nat /\ n \in Nat /\ Fits(Opened.offset, n) /\ Base \in Nat
  BY OpenedFacts, RegionFacts DEF StartArguments, ValueSize
<1>3. /\ Place(Opened) = Base + TransferSize
      /\ Bump(Opened, n) \in [offset : 0 .. Capacity, overflowed : BOOLEAN]
      /\ Place(Opened) + n = Base + Bump(Opened, n).offset
  <2>1. /\ Bump(Opened, n) \in [offset : 0 .. Capacity, overflowed : BOOLEAN]
        /\ Place(Opened) + n = Base + Bump(Opened, n).offset
    BY <1>2, OpenedFacts, PlaceFacts
  <2>2. Aligned(20) = 20
    BY DEF Aligned, Word
  <2> QED
    BY <2>1, <2>2, OpenedFacts DEF Place, TransferSize
<1>4. PICK a \in [offset : 0 .. Capacity, overflowed : BOOLEAN] :
        a = Bump(Opened, n) /\ a.offset = Len(args) * 12 + 20 /\ a.offset \in Nat
  <2>1. PICK a \in [offset : 0 .. Capacity, overflowed : BOOLEAN] : a = Bump(Opened, n)
    BY <1>3
  <2>2. PICK k \in Nat, base \in Nat, off \in Nat : k = Len(args) /\ base = Base /\ off = a.offset
    BY <1>2, RegionFacts
  <2>3. base + 20 + k * 12 = base + off
    BY <1>3, <2>1, <2>2 DEF ValueSize, TransferSize
  <2>4. off = k * 12 + 20
    BY <2>2, <2>3
  <2> QED
    BY <2>1, <2>2, <2>4
<1>5. /\ purpose' = "arguments" /\ Nested' = 1 /\ phase' = "writing" /\ stack' = <<f>>
      /\ pending' = <<>> /\ region' = mem /\ arena' = a
  BY <1>1, <1>4 DEF Opens, Nested, IInv, Phased
<1>6. /\ f \in Frames /\ f.items = args /\ f.block = Base + TransferSize /\ f.object = Entry
      /\ f.next = 1 /\ Base + TransferSize \in Nat
  BY <1>2, <1>3 DEF Frames, TransferSize
<1> HIDE DEF f
<1>7. /\ rec \in Seq(Int) /\ DOMAIN rec = 1 .. 3
      /\ rec[1] = KindTuple /\ rec[2] = Len(args) /\ rec[3] = Base + TransferSize
  <2>1. KindTuple \in Int /\ Len(args) \in Int /\ Place(Opened) \in Int
    BY <1>2, <1>3, <1>6 DEF KindTuple
  <2> QED
    BY <1>3, <2>1, RecordType DEF Record
<1> HIDE DEF rec
<1>8. ASSUME NEW i \in 0 .. 2  PROVE Says(Base \div Word + i, rec[i + 1])'
  <2>1. a.offset \in Nat /\ a.offset >= TransferSize
    BY <1>2, <1>4 DEF TransferSize
  <2>2. Final(Base \div Word + i)' /\ Base \div Word + i \in Index
    <3>1. f.block >= Base + TransferSize
      BY <1>6
    <3> QED
      BY <1>5, <1>6, <2>1, <3>1, HeadIsFinal
  <2>3. PICK w \in Index, b \in Int : w = b + i /\ b = Base \div Word /\ Final(w)'
    BY <2>2, RegionFacts DEF Word
  <2>4. i + 1 \in DOMAIN rec /\ b + (i + 1) - 1 = w /\ w = Base \div Word + (i + 1) - 1
    BY <1>7, <2>3
  <2>5. Header(Stale(Base, Capacity)) \in [Index -> Int]
    BY StaleType, HeaderFacts
  <2>6. mem[w] = rec[i + 1]
    <3>1. mem[Base \div Word + (i + 1) - 1] = rec[i + 1]
      BY <1>2, <1>7, <2>4, <2>5, PutWords
    <3> QED
      BY <2>4, <3>1
  <2> QED
    BY <1>5, <2>3, <2>6 DEF Says
<1>9. RootSays'
  <2>1. stack'[1] = f
    BY <1>5
  <2>2. /\ Says(Base \div Word + 0, rec[0 + 1])' /\ Says(Base \div Word + 1, rec[1 + 1])'
        /\ Says(Base \div Word + 2, rec[2 + 1])'
    BY <1>8
  <2>3. /\ Says(Base \div Word, KindTuple)' /\ Says(Base \div Word + 1, Len(args))'
        /\ Says(Base \div Word + 2, Base + TransferSize)'
    <3>1. Base \div Word + 0 = Base \div Word /\ 0 + 1 = 1 /\ 1 + 1 = 2 /\ 2 + 1 = 3
      BY RegionFacts DEF Word
    <3> QED
      BY <1>7, <2>2, <3>1
  <2> QED
    BY <1>5, <1>6, <2>1, <2>3 DEF RootSays
<1>10. (1 + Len(args)) * ValueSize + 8 <= a.offset
  BY <1>2, <1>4 DEF ValueSize
<1> HIDE DEF mem, n
<1>11. Opens("arguments", args, Base + TransferSize, mem, a)
  BY <1>1, <1>3, <1>4
<1> QED
  BY <1>5, <1>6, <1>9, <1>10, <1>11, OpensKeeps

-----------------------------------------------------------------------------
(* A raise is handled.                                                     *)

\* The words of the first record.
HeadSays(mem, x1, x2, x3) ==
  At(mem, Base) = x1 /\ At(mem, Base + Word) = x2 /\ At(mem, Base + 2 * Word) = x3

LEMMA HeadWords ==
  ASSUME NEW i \in 0 .. 2
  PROVE  \E w \in Index : /\ w = Base \div Word + i /\ w = (Base + i * Word) \div Word
                          /\ w * Word = Base + i * Word
<1>1. PICK base \in Nat, cap \in Nat : base = Base /\ cap = Capacity /\ base % 4 = 0 /\ cap >= 20
  BY RegionFacts DEF Word, TransferSize
<1>2. PICK w \in Nat : /\ w = Base \div Word + i /\ w * Word = base + i * 4
                       /\ w = (Base + i * Word) \div Word
  BY <1>1, WordAt DEF Word
<1>3. base <= w * Word /\ w * Word < base + cap
  BY <1>1, <1>2
<1>4. w \in Index
  BY <1>1, <1>3, WordInRegion
<1> QED
  BY <1>1, <1>2, <1>4 DEF Word

LEMMA HeadPut ==
  ASSUME NEW mem \in [Index -> Int], NEW x1 \in Int, NEW x2 \in Int, NEW x3 \in Int
  PROVE  HeadSays(Put(mem, Base, Record(x1, x2, x3)), x1, x2, x3)
<1>1. PICK rec \in Seq(Int) : /\ rec = Record(x1, x2, x3) /\ DOMAIN rec = 1 .. 3
                              /\ rec[1] = x1 /\ rec[2] = x2 /\ rec[3] = x3
  <2>1. /\ DOMAIN Record(x1, x2, x3) = 1 .. 3 /\ Record(x1, x2, x3)[1] = x1
        /\ Record(x1, x2, x3)[2] = x2 /\ Record(x1, x2, x3)[3] = x3
    BY DEF Record
  <2>2. Record(x1, x2, x3) \in Seq(Int)
    BY RecordType
  <2> QED
    BY <2>1, <2>2
<1>2. ASSUME NEW i \in 0 .. 2  PROVE At(Put(mem, Base, rec), Base + i * Word) = rec[i + 1]
  <2>1. PICK w \in Index : w = Base \div Word + i /\ w = (Base + i * Word) \div Word
    BY HeadWords
  <2>2. PICK k \in DOMAIN rec, b \in Int : k = i + 1 /\ b = Base \div Word /\ b + k - 1 = w
    BY <1>1, <2>1, RegionFacts DEF Word
  <2>3. Base \in Nat /\ Base \div Word + k - 1 \in Index
    BY <2>2, RegionFacts
  <2>4. Put(mem, Base, rec)[Base \div Word + k - 1] = rec[k]
    BY <2>3, PutWords
  <2>5. Put(mem, Base, rec)[w] = rec[k]
    BY <2>2, <2>4
  <2> QED
    BY <2>1, <2>2, <2>5 DEF At
<1>3. /\ At(Put(mem, Base, rec), Base + 0 * Word) = rec[0 + 1]
      /\ At(Put(mem, Base, rec), Base + 1 * Word) = rec[1 + 1]
      /\ At(Put(mem, Base, rec), Base + 2 * Word) = rec[2 + 1]
  BY <1>2
<1>4. /\ Base + 0 * Word = Base /\ Base + 1 * Word = Base + Word
      /\ 0 + 1 = 1 /\ 1 + 1 = 2 /\ 2 + 1 = 3
  BY RegionFacts DEF Word
<1> QED
  BY <1>1, <1>3, <1>4 DEF HeadSays

\* A text leaves what is before it.
LEMMA HeadStays ==
  ASSUME NEW mem \in [Index -> Int], NEW x1, NEW x2, NEW x3, HeadSays(mem, x1, x2, x3),
         NEW n \in Nat, NEW x \in Int, NEW at \in Nat, at % Word = 0, at >= Base + TransferSize
  PROVE  HeadSays(PutText(mem, at, n, x), x1, x2, x3)
<1>1. ASSUME NEW i \in 0 .. 2
      PROVE  At(PutText(mem, at, n, x), Base + i * Word) = At(mem, Base + i * Word)
  <2>1. PICK w \in Index : w = (Base + i * Word) \div Word /\ w * Word = Base + i * Word
    BY HeadWords
  <2>2. w * Word < at
    <3>1. PICK base \in Nat : base = Base
      BY RegionFacts
    <3>2. at >= base + 20 /\ w * Word = base + i * 4
      BY <2>1, <3>1 DEF TransferSize, Word
    <3> QED
      BY <3>1, <3>2
  <2>3. PutText(mem, at, n, x)[w] = mem[w]
    BY <2>2, PutTextWords
  <2> QED
    BY <2>1, <2>3 DEF At
<1>2. /\ At(PutText(mem, at, n, x), Base + 0 * Word) = At(mem, Base + 0 * Word)
      /\ At(PutText(mem, at, n, x), Base + 1 * Word) = At(mem, Base + 1 * Word)
      /\ At(PutText(mem, at, n, x), Base + 2 * Word) = At(mem, Base + 2 * Word)
  BY <1>1
<1>3. Base + 0 * Word = Base /\ Base + 1 * Word = Base + Word
  BY RegionFacts DEF Word
<1> QED
  BY <1>2, <1>3 DEF HeadSays

\* An exception that the host can read, unless it is told that the region was full.
ExceptionIn(mem, a) ==
  /\ a.offset >= TransferSize
  /\ At(mem, Base) = KindException
  /\ ~a.overflowed => InSpan(Base, a.offset, At(mem, Base + 2 * Word), At(mem, Base + Word))

LEMMA WithTextSays ==
  ASSUME NEW a \in [offset : 0 .. Capacity, overflowed : BOOLEAN], a.offset = TransferSize,
         NEW n \in Nat, NEW w \in Int, Fits(a.offset, n),
         NEW mem \in [Index -> Int]
  PROVE  ExceptionIn(WithText(Header(mem), a, n, w), Bump(a, n))
<1>1. Header(mem) \in [Index -> Int]
  BY HeaderFacts
<1>2. PICK at \in Nat : /\ at = Place(a) /\ at % Word = 0 /\ at >= Base + TransferSize
                        /\ at + n = Base + Bump(a, n).offset
  BY PlaceFacts
<1>3. Bump(a, n) \in [offset : 0 .. Capacity, overflowed : BOOLEAN] /\ Bump(a, n).offset >= a.offset
  BY PlaceFacts
<1> DEFINE mem1 == Put(Header(mem), Base, Record(KindException, n, at))
<1>4. HeadSays(mem1, KindException, n, at) /\ mem1 \in [Index -> Int]
  <2>1. KindException \in Int /\ n \in Int /\ at \in Int /\ Base \in Nat
    BY RegionFacts DEF KindException
  <2>2. Record(KindException, n, at) \in Seq(Int)
    BY <2>1, RecordType
  <2> QED
    BY <1>1, <2>1, <2>2, HeadPut, PutType
<1> HIDE DEF mem1
<1>5. HeadSays(PutText(mem1, at, n, w), KindException, n, at)
  BY <1>2, <1>4, HeadStays
<1>6. WithText(Header(mem), a, n, w) = PutText(mem1, at, n, w)
  BY <1>2 DEF WithText, mem1
<1>7. InSpan(Base, Bump(a, n).offset, at, n)
  <2>1. PICK base \in Nat, off \in Nat : base = Base /\ off = Bump(a, n).offset
    BY <1>3, RegionFacts
  <2>2. at >= base + 20 /\ at + n = base + off
    BY <1>2, <2>1 DEF TransferSize
  <2>3. at >= base /\ n >= 0 /\ at + n <= base + off
    BY <2>2
  <2> QED
    BY <2>1, <2>3 DEF InSpan
<1>8. Bump(a, n).offset >= TransferSize
  BY <1>3
<1> QED
  BY <1>5, <1>6, <1>7, <1>8 DEF ExceptionIn, HeadSays

LEMMA ExceptionIsSaid ==
  ASSUME Typed, \/ \E n \in ErrorSizes : WriteException(n)
                \/ WriteFallback(TRUE) \/ WriteFallback(FALSE)
  PROVE  ExceptionIn(region', arena')
<1>1. arena \in [offset : 0 .. Capacity, overflowed : BOOLEAN] /\ region \in [Index -> Int]
  BY DEF Typed
<1>2. /\ Reset(arena) \in [offset : 0 .. Capacity, overflowed : BOOLEAN]
      /\ Reset(arena).offset = TransferSize
  BY <1>1, ResetFacts
<1>3. ErrorText \in Int /\ FallbackText \in Int /\ FallbackSize \in Nat /\ ErrorSizes \subseteq Nat
  BY TransferAssumption DEF ErrorText, FallbackText
<1>4. ASSUME NEW n \in ErrorSizes, WriteException(n)  PROVE ExceptionIn(region', arena')
  <2>1. /\ Fits(Reset(arena).offset, n)
        /\ region' = WithText(Header(region), Reset(arena), n, ErrorText)
        /\ arena' = Bump(Reset(arena), n)
    BY <1>4 DEF WriteException
  <2>2. n \in Nat
    BY <1>3
  <2>3. ExceptionIn(WithText(Header(region), Reset(arena), n, ErrorText), Bump(Reset(arena), n))
    BY <1>1, <1>2, <1>3, <2>1, <2>2, WithTextSays
  <2> QED
    BY <2>1, <2>3
<1>5. ASSUME NEW overflow \in BOOLEAN, WriteFallback(overflow)
      PROVE  ExceptionIn(region', arena')
  <2>1. PICK a : a = IF overflow THEN Overflow(Reset(arena)) ELSE Reset(arena)
    OBVIOUS
  <2>2. a \in [offset : 0 .. Capacity, overflowed : BOOLEAN] /\ a.offset = TransferSize
    BY <1>2, <2>1, OverflowFacts
  <2>3. CASE Fits(a.offset, FallbackSize)
    <3>1. /\ region' = WithText(Header(region), a, FallbackSize, FallbackText)
          /\ arena' = Bump(a, FallbackSize)
      BY <1>5, <2>1, <2>3 DEF WriteFallback
    <3>2. ExceptionIn(WithText(Header(region), a, FallbackSize, FallbackText), Bump(a, FallbackSize))
      BY <1>1, <1>3, <2>2, <2>3, WithTextSays
    <3> QED
      BY <3>1, <3>2
  <2>4. CASE ~Fits(a.offset, FallbackSize)
    <3>1. /\ region' = Put(Header(region), Base, Record(KindException, 0, 0))
          /\ arena' = Overflow(a)
      BY <1>5, <2>1, <2>4 DEF WriteFallback
    <3>2. Header(region) \in [Index -> Int]
      BY <1>1, HeaderFacts
    <3>3. HeadSays(region', KindException, 0, 0)
      BY <3>1, <3>2, HeadPut DEF KindException
    <3>4. Overflow(a).offset = TransferSize /\ Overflow(a).overflowed = TRUE
      BY <2>2, OverflowFacts
    <3>5. arena'.offset >= TransferSize
      BY <3>1, <3>4 DEF TransferSize
    <3> QED
      BY <3>1, <3>3, <3>4, <3>5 DEF ExceptionIn, HeadSays
  <2> QED
    BY <2>3, <2>4
<1> QED
  BY <1>4, <1>5

LEMMA HandleRaiseKeeps ==
  ASSUME IInv, Carried, HandleRaise
  PROVE  Carried'
<1>1. /\ phase = "raised" /\ phase' = "written" /\ Ended /\ purpose = "result"
      /\ UNCHANGED <<contents, purpose>>
      /\ \/ \E n \in ErrorSizes : WriteException(n)
         \/ WriteFallback(TRUE) \/ WriteFallback(FALSE)
  BY DEF HandleRaise
<1>2. stack' = <<>>
  BY <1>1 DEF Ended
<1>3. Typed /\ full = arena.overflowed
  BY <1>1 DEF IInv, Flagged
<1>4. HeaderSays(region', 0, 0)
  BY <1>1, <1>3, ExceptionWritten
<1>5. ExceptionIn(region', arena')
  BY <1>1, <1>3, ExceptionIsSaid
<1>6. ExceptionSays'
  BY <1>1, <1>4, <1>5 DEF ExceptionSays, ExceptionIn, HeaderSays, InSpan
<1> QED
  BY <1>1, <1>2, <1>6 DEF Carried, Alive

-----------------------------------------------------------------------------
(* Every step.                                                             *)

LEMMA InitCarried == TransferInit => Carried
BY DEF TransferInit, Carried, Alive

LEMMA StartingKeeps ==
  ASSUME IInv, Carried, Starting
  PROVE  Carried'
<1>1. ASSUME NEW args \in BoundedSeq(Objects, MaxHostArgs)  PROVE args \in Seq(Objects)
  <2>1. PICK m \in 0 .. MaxHostArgs : args \in [1 .. m -> Objects]
    BY DEF BoundedSeq, SeqOf
  <2>2. m \in Nat
    BY TransferAssumption
  <2> QED
    BY <2>1, <2>2
<1> QED
  BY <1>1, StartResultKeeps, StartNoneKeeps, StartArgumentsKeeps DEF Starting

LEMMA WalkingKeeps ==
  ASSUME IInv, Apart, Carried, NEW o \in Objects,
         WriteInt(o) \/ WriteStr(o) \/ WriteObject(o) \/ WriteAsHandle(o) \/ WriteContainer(o)
  PROVE  Carried'
<1>1. phase = "writing" /\ phase' \in {"writing", "raised"}
  BY DEF WriteInt, WriteStr, WriteObject, WriteAsHandle, WriteContainer, WriteOpaque, Writes,
         Full, Walks
<1>2. WalkKept
  BY <1>1 DEF Carried, Alive, IInv, Phased, WritingSound
<1>3. contents' \in Shapes
  <2>1. contents \in Shapes
    BY DEF Carried
  <2>2. CASE WriteObject(o)
    BY <2>2 DEF WriteObject, Changed
  <2>3. CASE ~WriteObject(o)
    BY <2>1, <2>3 DEF WriteInt, WriteStr, WriteAsHandle, WriteContainer
  <2> QED
    BY <2>2, <2>3
<1>4. phase' = "writing" => WalkKept'
  BY <1>2, WriteIntKeeps, WriteStrKeeps, WriteObjectKeeps, WriteAsHandleKeeps, WriteContainerKeeps
<1> QED
  BY <1>1, <1>3, <1>4 DEF Carried, Alive

LEMMA WalkStepKeeps ==
  ASSUME IInv, Apart, Carried, LeaveContainer \/ ReserveLedger \/ AddRef \/ FinishCommit
  PROVE  Carried'
<1>1. WalkKept /\ stack # <<>> /\ (phase # "writing" => WalkIsOver)
  <2>1. phase \in {"writing", "committing"}
    BY DEF LeaveContainer, ReserveLedger, Walked, AddRef, FinishCommit
  <2>2. stack # <<>>
    BY <2>1 DEF Carried, IInv, Phased, WritingSound
  <2> QED
    BY <2>1, <2>2 DEF Carried, Alive
<1>2. contents' = contents /\ contents \in Shapes
  BY DEF LeaveContainer, ReserveLedger, AddRef, FinishCommit, Carried
<1>3. CASE LeaveContainer
  <2>1. phase' = "writing"
    BY <1>3 DEF LeaveContainer
  <2> QED
    BY <1>1, <1>2, <1>3, <2>1, LeaveContainerKeeps DEF Carried, Alive
<1>4. CASE ReserveLedger
  <2>1. phase' \in {"written", "committing", "raised"} /\ stack' = stack
    BY <1>4 DEF ReserveLedger
  <2>2. phase' # "raised" =>
          WalkKept' /\ WalkIsOver' /\ (phase' = "written" => committed' = Len(pending'))
    BY <1>1, <1>4, ReserveLedgerKeeps
  <2> QED
    BY <1>1, <1>2, <2>1, <2>2 DEF Carried, Alive
<1>5. CASE AddRef
  <2>1. phase = "committing" /\ phase' = "committing" /\ stack' = stack
    BY <1>5 DEF AddRef
  <2>2. WalkIsOver' /\ WalkKept'
    BY <1>1, <1>5, <2>1, AddRefKeeps DEF WalkIsOver
  <2> QED
    BY <1>1, <1>2, <2>1, <2>2 DEF Carried, Alive
<1>6. CASE FinishCommit
  <2>1. phase = "committing" /\ phase' = "written" /\ stack' = stack
    BY <1>6 DEF FinishCommit
  <2>2. WalkIsOver' /\ WalkKept' /\ committed' = Len(pending')
    BY <1>1, <1>6, <2>1, FinishCommitKeeps DEF WalkIsOver
  <2> QED
    BY <1>1, <1>2, <2>1, <2>2 DEF Carried, Alive
<1> QED
  BY <1>3, <1>4, <1>5, <1>6

LEMMA StepCarried ==
  ASSUME IInv, Apart, Carried, [TransferNext]_transferVars
  PROVE  Carried'
<1>1. CASE Writing
  <2>1. CASE Raises \/ RefuseRef
    BY <2>1 DEF Raises, RefuseRef, Carried, Alive
  <2> QED
    BY <1>1, <2>1, WalkingKeeps, WalkStepKeeps DEF Writing
<1>2. CASE RaiseInCaller \/ Reading \/ RefuseArguments \/ CallGoesOn
  <2>1. /\ contents' = contents
        /\ phase' \in {"read", "called", "failing", "returned", "answered"}
    BY <1>2 DEF RaiseInCaller, Reading, ReadResult, ReadArguments, RefuseArguments, CallGoesOn
  <2> QED
    BY <2>1 DEF Carried, Alive
<1>3. CASE Settle
  BY <1>3 DEF Settle, Ended, Carried, Alive
<1>4. CASE UNCHANGED transferVars
  <2>1. /\ contents' = contents /\ phase' = phase /\ purpose' = purpose /\ region' = region
        /\ arena' = arena /\ stack' = stack /\ pending' = pending /\ ledger' = ledger
        /\ committed' = committed /\ log' = log
    BY <1>4 DEF transferVars
  <2>2. phase' = "idle" => log' = <<>>
    BY <2>1 DEF Carried
  <2>3. Alive' <=> Alive
    BY <2>1 DEF Alive
  <2>4. WalkIsOver' <=> WalkIsOver
    BY <2>1 DEF WalkIsOver
  <2>5. ExceptionSays' <=> ExceptionSays
    BY <2>1 DEF ExceptionSays, HeaderSays
  <2>6. WalkKept => WalkKept'
    <3> SUFFICES ASSUME WalkKept  PROVE WalkKept'
      OBVIOUS
    <3>1. Nested' = Nested /\ \A x : (Handled(x)' <=> Handled(x)) /\ (Whole(x)' <=> Whole(x))
      BY <2>1, SamePurpose
    <3>2. \A w, x : Says(w, x)' <=> Says(w, x)
      BY <2>1 DEF Says, Final, OpenRecord, OpenId, OpenEntry, OpenHeader
    <3>3. \A e \in Range(log) : RecordSays(e)' /\ Placed(e)'
      <4> TAKE e \in Range(log)
      <4>1. Form(e)' = Form(e)
        BY <3>1 DEF Form
      <4>2. Payload(e)' = Payload(e) /\ TextAt(e)' = TextAt(e)
        BY <3>1 DEF Payload, TextAt
      <4>3. TextSays(e) => TextSays(e)'
        BY <3>1, <3>2, <4>2 DEF TextSays
      <4>4. RecordSays(e) => RecordSays(e)'
        BY <3>1, <3>2, <4>1, <4>3 DEF RecordSays
      <4>5. Placed(e) => Placed(e)'
        BY <2>1, <3>1, <4>2 DEF Placed
      <4> QED
        BY <4>4, <4>5 DEF WalkKept, RecordsKept
    <3>4. RootSays'
      BY <2>1, <3>2 DEF WalkKept, RootSays
    <3>5. Logged' /\ Distinct' /\ RecordsKept' /\ HandlesPending' /\ IdsWritten'
      BY <2>1, <3>1, <3>3 DEF WalkKept, Logged, Distinct, RecordsKept, HandlesPending, IdsWritten
    <3>6. InTree' /\ Roomy'
      BY <2>1, <3>1 DEF WalkKept, InTree, Roomy
    <3> QED
      BY <2>1, <3>4, <3>5, <3>6 DEF WalkKept
  <2> QED
    BY <2>1, <2>2, <2>3, <2>4, <2>5, <2>6 DEF Carried
<1> QED
  BY <1>1, <1>2, <1>3, <1>4, StartingKeeps, HandleRaiseKeeps DEF TransferNext

LEMMA CarriedInvariant == TransferSpec => []Carried
BY InitCarried, StepCarried, TransferInvariant, ApartInvariant, PTL DEF TransferSpec

-----------------------------------------------------------------------------
(* The functions that are defined by recursion exist.                      *)

\* A set of numbers has a least one: that of those below an element, among all such
\* sets, which are finite.
LEMMA LeastNumber ==
  ASSUME NEW S \in SUBSET Nat, S # {}
  PROVE  \E x \in S : \A y \in S : x <= y
<1> DEFINE Under(x) == {y \in S : y < x}
           T == {Under(x) : x \in S}
<1>1. T \subseteq FiniteSubsetsOf(Nat) /\ T # {}
  <2>1. ASSUME NEW x \in S PROVE IsFiniteSet(Under(x)) /\ Under(x) \in SUBSET Nat
    <3>1. \A y \in Under(x) : y <= x
      OBVIOUS
    <3>2. Under(x) \in SUBSET Nat /\ x \in Nat
      OBVIOUS
    <3> HIDE DEF Under
    <3> QED BY <3>1, <3>2, FS_BoundedSetOfNaturals
  <2> HIDE DEF Under
  <2> QED BY <2>1 DEF FiniteSubsetsOf
<1>2. PICK t \in T : \A u \in T : <<u, t>> \notin StrictSubsetOrdering(Nat)
  <2>1. IsWellFoundedOn(StrictSubsetOrdering(Nat), FiniteSubsetsOf(Nat))
    BY FS_StrictSubsetOrderingWellFounded
  <2> HIDE DEF T
  <2> QED BY <1>1, <2>1, WFMin
<1>3. PICK x \in S : t = Under(x)
  BY <1>2
<1>4. ASSUME NEW y \in S, y < x PROVE FALSE
  <2>1. x \in Nat /\ y \in Nat /\ \A z \in S : z \in Nat
    OBVIOUS
  <2>2. \A z \in Under(y) : z \in S /\ z \in Nat /\ z < y
    BY <2>1
  <2>3. \A z \in Under(y) : z \in S /\ z < x
    BY <1>4, <2>1, <2>2
  <2>4. y \in Under(x) /\ y \notin Under(y)
    BY <1>4, <2>1
  <2>5. Under(y) \subseteq Under(x)
    BY <2>3
  <2>6. Under(y) \in T /\ Under(x) \in SUBSET Nat /\ Under(y) \in SUBSET Nat
    OBVIOUS
  <2>7. <<Under(y), Under(x)>> \notin StrictSubsetOrdering(Nat)
    BY <1>2, <1>3, <2>6
  <2> HIDE DEF T, Under
  <2> QED BY <2>4, <2>5, <2>6, <2>7 DEF StrictSubsetOrdering
<1>5. \A y \in S : x <= y
  BY <1>4
<1> QED BY <1>5

\* What the decoder makes of a record with n levels to go.
Layer(d, n, below) ==
  [x \in Int \X Nat |-> IF n = 0 THEN Fails(x[2], <<>>) ELSE DecodeAt(d, x[1], x[2], below)]

Reads(d, levels, f) ==
  /\ Decoder(d, levels) = f[levels]
  /\ \A n \in 1 .. levels : \A a \in Int, left \in Nat :
       f[n][<<a, left>>] = DecodeAt(d, a, left, f[n - 1])

LEMMA DecoderReads ==
  ASSUME NEW d, NEW levels \in Nat
  PROVE  \E f : Reads(d, levels, f)
<1> DEFINE Is(g) == g = [n \in 0 .. levels |-> Layer(d, n, g[n - 1])]
           w == CHOOSE g : Is(g)
           Upto(m, g) == g = [n \in 0 .. levels |-> g[n]] /\ \A n \in 0 .. m : g[n] = Layer(d, n, g[n - 1])
           Missing == {m \in 0 .. levels : \A g : ~Upto(m, g)}
<1>1. Decoder(d, levels) = w[levels]
  BY DEF Decoder, Layer
<1>2. \A x, y : Layer(d, 0, x) = Layer(d, 0, y)
  BY DEF Layer
<1>3. ASSUME Missing # {}  PROVE FALSE
  <2>1. PICK m \in Missing : \A j \in Missing : m <= j
    <3>1. Missing \in SUBSET Nat
      OBVIOUS
    <3> HIDE DEF Missing
    <3> QED
      BY <1>3, <3>1, LeastNumber
  <2>2. m \in 0 .. levels /\ \A g : ~Upto(m, g)
    OBVIOUS
  <2>3. m # 0
    <3> SUFFICES ASSUME m = 0  PROVE FALSE
      OBVIOUS
    <3> DEFINE g == [n \in 0 .. levels |-> Layer(d, 0, 0)]
    <3>1. g = [n \in 0 .. levels |-> g[n]] /\ g[0] = Layer(d, 0, 0)
      OBVIOUS
    <3> HIDE DEF g
    <3>2. g[0] = Layer(d, 0, g[0 - 1])
      BY <1>2, <3>1
    <3>3. \A n \in 0 .. 0 : n = 0
      OBVIOUS
    <3>4. Upto(0, g)
      BY <3>1, <3>2, <3>3
    <3> QED
      BY <2>2, <3>4
  <2>4. m - 1 \in 0 .. levels /\ ~(m <= m - 1)
    BY <2>2, <2>3
  <2>5. PICK g : Upto(m - 1, g)
    BY <2>1, <2>4
  <2> DEFINE h == [n \in 0 .. levels |-> IF n = m THEN Layer(d, m, g[m - 1]) ELSE g[n]]
  <2>6. h[m] = Layer(d, m, h[m - 1])
    BY <2>2, <2>4
  <2>7. ASSUME NEW n \in 0 .. m - 1  PROVE h[n] = Layer(d, n, h[n - 1])
    <3>1. n \in 0 .. levels /\ n # m
      BY <2>2
    <3>2. h[n] = g[n] /\ g[n] = Layer(d, n, g[n - 1])
      BY <2>5, <3>1
    <3>3. CASE n = 0
      BY <1>2, <3>2, <3>3
    <3>4. CASE n # 0
      <4>1. n - 1 \in 0 .. levels /\ n - 1 # m
        BY <2>2, <3>1, <3>4
      <4>2. h[n - 1] = g[n - 1]
        BY <4>1
      <4> QED
        BY <3>2, <4>2
    <3> QED
      BY <3>3, <3>4
  <2>8. h = [n \in 0 .. levels |-> h[n]]
    OBVIOUS
  <2>9. \A n \in 0 .. m : n \in 0 .. m - 1 \/ n = m
    BY <2>2
  <2> HIDE DEF h
  <2>10. \A n \in 0 .. m : h[n] = Layer(d, n, h[n - 1])
    BY <2>6, <2>7, <2>9
  <2>11. Upto(m, h)
    BY <2>8, <2>10
  <2> QED
    BY <2>2, <2>11
<1>4. PICK g : Upto(levels, g)
  <2>1. levels \in 0 .. levels
    OBVIOUS
  <2> QED
    BY <1>3, <2>1
<1>5. Is(w)
  <2>1. Is(g)
    BY <1>4
  <2> HIDE DEF Is
  <2> QED
    BY <2>1
<1>6. ASSUME NEW n \in 1 .. levels, NEW a \in Int, NEW left \in Nat
      PROVE  w[n][<<a, left>>] = DecodeAt(d, a, left, w[n - 1])
  <2>1. n \in 0 .. levels /\ n # 0
    OBVIOUS
  <2>2. w[n] = Layer(d, n, w[n - 1])
    BY <1>5, <2>1
  <2> HIDE DEF w
  <2> QED
    BY <2>1, <2>2 DEF Layer
<1> HIDE DEF w
<1> QED
  BY <1>1, <1>6 DEF Reads

\* What was decoded of a block of records, before the next is.
Read(block, left, below, i, r) ==
  IF i = 0 THEN [ok |-> TRUE, nodes |-> <<>>, left |-> left, retained |-> <<>>]
  ELSE IF ~r.ok THEN r
  ELSE [ok |-> below[<<block + (i - 1) * ValueSize, r.left>>].ok,
        nodes |-> Append(r.nodes, below[<<block + (i - 1) * ValueSize, r.left>>].node),
        left |-> below[<<block + (i - 1) * ValueSize, r.left>>].left,
        retained |-> r.retained \o below[<<block + (i - 1) * ValueSize, r.left>>].retained]

ReadsItems(block, count, left, below, f) ==
  /\ DecodeItems(block, count, left, below) = f[count]
  /\ \A i \in 0 .. count : f[i] = Read(block, left, below, i, f[i - 1])

LEMMA ItemsAreRead ==
  ASSUME NEW block, NEW count \in Nat, NEW left, NEW below
  PROVE  \E f : ReadsItems(block, count, left, below, f)
<1> DEFINE Is(g) == g = [n \in 0 .. count |-> Read(block, left, below, n, g[n - 1])]
           w == CHOOSE g : Is(g)
           Upto(m, g) == g = [n \in 0 .. count |-> g[n]]
                         /\ \A n \in 0 .. m : g[n] = Read(block, left, below, n, g[n - 1])
           Missing == {m \in 0 .. count : \A g : ~Upto(m, g)}
<1>1. DecodeItems(block, count, left, below) = w[count]
  BY DEF DecodeItems, Read
<1>2. \A x, y : Read(block, left, below, 0, x) = Read(block, left, below, 0, y)
  BY DEF Read
<1>3. ASSUME Missing # {}  PROVE FALSE
  <2>1. PICK m \in Missing : \A j \in Missing : m <= j
    <3>1. Missing \in SUBSET Nat
      OBVIOUS
    <3> HIDE DEF Missing
    <3> QED
      BY <1>3, <3>1, LeastNumber
  <2>2. m \in 0 .. count /\ \A g : ~Upto(m, g)
    OBVIOUS
  <2>3. m # 0
    <3> SUFFICES ASSUME m = 0  PROVE FALSE
      OBVIOUS
    <3> DEFINE g == [n \in 0 .. count |-> Read(block, left, below, 0, 0)]
    <3>1. g = [n \in 0 .. count |-> g[n]] /\ g[0] = Read(block, left, below, 0, 0)
      OBVIOUS
    <3> HIDE DEF g
    <3>2. g[0] = Read(block, left, below, 0, g[0 - 1])
      BY <1>2, <3>1
    <3>3. \A n \in 0 .. 0 : n = 0
      OBVIOUS
    <3>4. Upto(0, g)
      BY <3>1, <3>2, <3>3
    <3> QED
      BY <2>2, <3>4
  <2>4. m - 1 \in 0 .. count /\ ~(m <= m - 1)
    BY <2>2, <2>3
  <2>5. PICK g : Upto(m - 1, g)
    BY <2>1, <2>4
  <2> DEFINE h == [n \in 0 .. count |->
                     IF n = m THEN Read(block, left, below, m, g[m - 1]) ELSE g[n]]
  <2>6. h[m] = Read(block, left, below, m, h[m - 1])
    BY <2>2, <2>4
  <2>7. ASSUME NEW n \in 0 .. m - 1  PROVE h[n] = Read(block, left, below, n, h[n - 1])
    <3>1. n \in 0 .. count /\ n # m
      BY <2>2
    <3>2. h[n] = g[n] /\ g[n] = Read(block, left, below, n, g[n - 1])
      BY <2>5, <3>1
    <3>3. CASE n = 0
      BY <1>2, <3>2, <3>3
    <3>4. CASE n # 0
      <4>1. n - 1 \in 0 .. count /\ n - 1 # m
        BY <2>2, <3>1, <3>4
      <4>2. h[n - 1] = g[n - 1]
        BY <4>1
      <4> QED
        BY <3>2, <4>2
    <3> QED
      BY <3>3, <3>4
  <2>8. h = [n \in 0 .. count |-> h[n]]
    OBVIOUS
  <2>9. \A n \in 0 .. m : n \in 0 .. m - 1 \/ n = m
    BY <2>2
  <2> HIDE DEF h
  <2>10. \A n \in 0 .. m : h[n] = Read(block, left, below, n, h[n - 1])
    BY <2>6, <2>7, <2>9
  <2>11. Upto(m, h)
    BY <2>8, <2>10
  <2> QED
    BY <2>2, <2>11
<1>4. PICK g : Upto(count, g)
  <2>1. count \in 0 .. count
    OBVIOUS
  <2> QED
    BY <1>3, <2>1
<1>5. Is(w)
  <2>1. Is(g)
    BY <1>4
  <2> HIDE DEF Is
  <2> QED
    BY <2>1
<1>6. \A i \in 0 .. count : w[i] = Read(block, left, below, i, w[i - 1])
  BY <1>5
<1> HIDE DEF w
<1> QED
  BY <1>1, <1>6 DEF ReadsItems

-----------------------------------------------------------------------------
(* What is meant by a walk.                                                *)

SameFrom(i, f, g) == \A k \in i .. Len(log) : f[k] = g[k]

LEMMA SameItems ==
  ASSUME NEW i, NEW f, NEW g, SameFrom(i, f, g), NEW items, NEW path, NEW block
  PROVE  MeantItems(f, i, items, path, block) = MeantItems(g, i, items, path, block)
<1>1. ASSUME NEW j \in DOMAIN items,
             WalksOf(i, items[j], path, block + (j - 1) * ValueSize) # {}
      PROVE  LET k == CHOOSE k \in WalksOf(i, items[j], path, block + (j - 1) * ValueSize) : TRUE
             IN  f[k] = g[k]
  <2>1. PICK S : S = WalksOf(i, items[j], path, block + (j - 1) * ValueSize) /\ S # {}
    BY <1>1
  <2>2. (CHOOSE k \in S : TRUE) \in S
    BY <2>1
  <2>3. S \subseteq i .. Len(log)
    BY <2>1 DEF WalksOf
  <2> QED
    BY <2>1, <2>2, <2>3 DEF SameFrom
<1> QED
  BY <1>1 DEF MeantItems

\* What is meant by the i-th walk, by what is meant by those after it.
MeantAt(meant, i) ==
  Means(log[i], MeantItems(meant, i + 1, log[i].items, Append(log[i].path, log[i].object),
                           log[i].place))

LEMMA SameMeaning ==
  ASSUME NEW i, NEW f, NEW g, SameFrom(i + 1, f, g)
  PROVE  MeantAt(f, i) = MeantAt(g, i)
BY SameItems DEF MeantAt

LEMMA MeantIs ==
  ASSUME Logged, NEW i \in DOMAIN log
  PROVE  Meant[i] = MeantAt(Meant, i)
<1> DEFINE Is(g) == g = [k \in DOMAIN log |-> MeantAt(g, k)]
           w == CHOOSE g : Is(g)
           From(m, g) == g = [k \in DOMAIN log |-> g[k]]
                         /\ \A k \in Len(log) + 1 - m .. Len(log) : g[k] = MeantAt(g, k)
           Missing == {m \in 0 .. Len(log) : \A g : ~From(m, g)}
<1>1. Meant = w
  BY DEF Meant, MeantAt
<1>2. PICK n \in Nat : n = Len(log) /\ DOMAIN log = 1 .. n
  BY DEF Logged
<1>3. ASSUME Missing # {}  PROVE FALSE
  <2>1. PICK m \in Missing : \A j \in Missing : m <= j
    <3>1. Missing \in SUBSET Nat
      BY <1>2
    <3> HIDE DEF Missing
    <3> QED
      BY <1>3, <3>1, LeastNumber
  <2>2. m \in 0 .. n /\ \A g : ~From(m, g)
    BY <1>2
  <2>3. m # 0
    <3> SUFFICES ASSUME m = 0  PROVE FALSE
      OBVIOUS
    <3> DEFINE g == [k \in DOMAIN log |-> 0]
    <3>1. g = [k \in DOMAIN log |-> g[k]]
      OBVIOUS
    <3> HIDE DEF g
    <3>2. n + 1 - 0 .. n = {}
      BY <1>2
    <3>3. From(0, g)
      BY <1>2, <3>1, <3>2
    <3> QED
      BY <2>2, <3>3
  <2>4. m - 1 \in 0 .. n /\ ~(m <= m - 1)
    BY <2>2, <2>3
  <2>5. PICK g : From(m - 1, g)
    BY <1>2, <2>1, <2>4
  <2>6. PICK c \in 1 .. n : c = n + 1 - m /\ c + 1 = n + 1 - (m - 1)
    BY <2>2, <2>3
  <2>7. \A k \in c + 1 .. n : g[k] = MeantAt(g, k)
    BY <1>2, <2>5, <2>6
  <2> DEFINE h == [k \in DOMAIN log |-> IF k = c THEN MeantAt(g, c) ELSE g[k]]
  <2>8. h[c] = MeantAt(g, c) /\ \A k \in c + 1 .. n : h[k] = g[k]
    BY <1>2, <2>6
  <2>9. h = [k \in DOMAIN log |-> h[k]]
    OBVIOUS
  <2> HIDE DEF h
  <2>10. ASSUME NEW k \in c .. n  PROVE h[k] = MeantAt(h, k)
    <3>1. SameFrom(k + 1, g, h)
      <4>1. \A l \in k + 1 .. n : l \in c + 1 .. n
        BY <2>6
      <4> QED
        BY <1>2, <2>8, <4>1 DEF SameFrom
    <3>2. MeantAt(g, k) = MeantAt(h, k)
      BY <3>1, SameMeaning
    <3>3. k = c \/ k \in c + 1 .. n
      BY <2>6
    <3> QED
      BY <2>7, <2>8, <3>2, <3>3
  <2>11. From(m, h)
    BY <1>2, <2>6, <2>9, <2>10
  <2> QED
    BY <2>2, <2>11
<1>4. PICK g : From(n, g)
  <2>1. n \in 0 .. Len(log)
    BY <1>2
  <2> QED
    BY <1>3, <2>1
<1>5. Is(w)
  <2>1. n + 1 - n .. n = DOMAIN log
    BY <1>2
  <2>2. \A k \in DOMAIN log : g[k] = MeantAt(g, k)
    BY <1>2, <1>4, <2>1
  <2>3. g = [k \in DOMAIN log |-> g[k]]
    BY <1>4
  <2>4. Is(g)
    BY <2>2, <2>3
  <2> HIDE DEF Is
  <2> QED
    BY <2>4
<1>6. w[i] = MeantAt(w, i)
  BY <1>5
<1> QED
  BY <1>1, <1>6

-----------------------------------------------------------------------------
(* A record is read.                                                       *)

\* What the decoder is given.
Given ==
  [mem |-> region, base |-> Base, size |-> arena.offset,
   ids |-> {Refs.ids[i] : i \in DOMAIN Refs.ids}]

\* The words of a record, where the decoder looks for them.
RecordRead(e) ==
  /\ e.at \in Nat /\ e.at % Word = 0 /\ InSpan(Base, arena.offset, e.at, ValueSize)
  /\ At(region, e.at) = Form(e)[1]
  /\ ~Handled(e) => At(region, e.at + Word) = Form(e)[2]
  /\ At(region, e.at + 2 * Word) = Form(e)[3]

LEMMA RecordIsRead ==
  ASSUME IInv, NEW e \in Walk, RecordSays(e), Placed(e)
  PROVE  RecordRead(e)
<1>1. e.at \in Nat /\ e.at % Word = 0 /\ e.at >= Base /\ e.at + ValueSize <= Base + arena.offset
  BY DEF Walk, Placed
<1>2. PICK a \in Nat : a = e.at
  BY <1>1
<1>3. /\ (a + 1 * Word) \div Word = a \div Word + 1
      /\ (a + 2 * Word) \div Word = a \div Word + 2
  BY <1>1, <1>2, WordAt
<1>4. a + 1 * Word = a + Word
  BY DEF Word
<1>5. InSpan(Base, arena.offset, e.at, ValueSize)
  BY <1>1 DEF InSpan, ValueSize
<1> QED
  BY <1>1, <1>2, <1>3, <1>4, <1>5 DEF RecordRead, RecordSays, Says, At

\* A text is read as what it is filled with.
LEMMA TextIsRead ==
  ASSUME NEW e \in Walk, TextSays(e), e.object \notin Ints, ~Whole(e),
         NEW at \in Nat, at = TextAt(e), at % Word = 0
  PROVE  Text(region, at, Length[e.object]) = IF Length[e.object] = 0 THEN 0 ELSE e.object
<1>1. PICK n \in Nat : n = Length[e.object]
  <2>1. e.object \in Objects
    BY DEF Walk
  <2> QED
    BY <2>1, TransferAssumption
<1>2. CASE n = 0
  BY <1>1, <1>2 DEF Text
<1>3. CASE n # 0
  <2>1. ASSUME NEW i \in 1 .. Words(n)  PROVE At(region, at + (i - 1) * Word) = e.object
    <3>1. i - 1 \in Nat
      BY <1>1, AlignedFacts
    <3>2. (at + (i - 1) * Word) \div Word = at \div Word + (i - 1)
      BY <3>1, WordAt
    <3>3. Says(TextAt(e) \div Word + i - 1, e.object)
      BY <1>1 DEF TextSays
    <3>4. at \div Word + (i - 1) = TextAt(e) \div Word + i - 1
      <4>1. PICK w \in Nat, k \in Int : w = at \div Word /\ k = i
        BY WordAt, <3>1
      <4>2. w + (k - 1) = w + k - 1
        BY <4>1
      <4> QED
        BY <4>1, <4>2
    <3> QED
      BY <3>2, <3>3, <3>4 DEF Says, At
  <2>2. 1 \in 1 .. Words(n)
    <3>1. Words(n) \in Nat /\ Words(n) # 0
      BY <1>3 DEF Words, Aligned, Word
    <3> QED
      BY <3>1
  <2>3. At(region, at + (1 - 1) * Word) = e.object
    BY <2>1, <2>2
  <2>4. At(region, at) = e.object
    <3>1. at + (1 - 1) * Word = at
      BY DEF Word
    <3> QED
      BY <2>3, <3>1
  <2> QED
    BY <1>1, <1>3, <2>1, <2>4 DEF Text
<1> QED
  BY <1>2, <1>3

\* The class of a handle, and what is known of it beside.
LEMMA ClassAndAttributes ==
  ASSUME NEW place \in Nat, place % Word = 0, NEW attr \in 0 .. AttrMask
  PROVE  /\ (place + attr) % (AttrMask + 1) = attr
         /\ (place + attr) - ((place + attr) % (AttrMask + 1)) = place
<1>1. PICK q \in Nat : place = 4 * q
  BY DEF Word
<1>2. (4 * q + attr) % 4 = attr
  BY DEF AttrMask
<1>3. place + attr \in Nat /\ (4 * q + attr) - attr = 4 * q
  BY DEF AttrMask
<1> QED
  BY <1>1, <1>2, <1>3 DEF AttrMask

LEMMA IntIsRead ==
  ASSUME NEW e \in Walk, RecordRead(e), e.object \in Ints, NEW left \in Nat \ {0}, NEW below,
         NEW nodes
  PROVE  DecodeAt(Given, e.at, left, below) = Gives(Means(e, nodes), left - 1, <<>>)
<1>1. e.object \in Objects /\ ~Handled(e)
  BY KindsApart DEF Walk, Handled
<1>2. Form(e) = Record(KindInt, e.object, 0)
  BY DEF Form
<1>3. /\ At(Given.mem, e.at) = KindInt /\ At(Given.mem, e.at + Word) = e.object
      /\ e.at % Word = 0 /\ InSpan(Given.base, Given.size, e.at, ValueSize)
  BY <1>1, <1>2 DEF RecordRead, Given, Record
<1>4. left # 0
  OBVIOUS
<1>5. DecodeAt(Given, e.at, left, below) =
        Gives(Node(KindInt, e.object, 0, 0, <<>>), left - 1, <<>>)
  BY <1>3, <1>4 DEF DecodeAt, KindInt, KindNone, KindStr, KindException, KindTuple,
                        KindList, KindDict, KindObject
<1> QED
  BY <1>5 DEF Means

LEMMA StrIsRead ==
  ASSUME IInv, NEW e \in Walk, RecordSays(e), Placed(e), RecordRead(e), e.object \in Strs,
         NEW left \in Nat \ {0}, NEW below, NEW nodes
  PROVE  DecodeAt(Given, e.at, left, below) = Gives(Means(e, nodes), left - 1, <<>>)
<1>1. e.object \in Objects /\ ~Handled(e) /\ e.object \notin Ints /\ ~Whole(e)
  BY KindsApart DEF Walk, Handled, Whole, WholeIn
<1>2. PICK n \in Nat : n = Length[e.object]
  BY <1>1, TransferAssumption
<1>3. e.place \in Nat
  BY DEF Walk
<1>4. PICK at \in Nat : /\ at = IF n = 0 THEN 0 ELSE e.place
                        /\ Form(e) = Record(KindStr, n, at)
  BY <1>1, <1>2, <1>3 DEF Form
<1>5. /\ At(Given.mem, e.at) = KindStr /\ At(Given.mem, e.at + Word) = n
      /\ At(Given.mem, e.at + 2 * Word) = at
      /\ e.at % Word = 0 /\ InSpan(Given.base, Given.size, e.at, ValueSize)
  BY <1>1, <1>4 DEF RecordRead, Given, Record
<1>6. n # 0 => /\ at % Word = 0 /\ at = TextAt(e) /\ at >= Base + TransferSize
               /\ at + n <= Base + arena.offset
  BY <1>1, <1>2, <1>4 DEF Placed, Payload, TextAt
<1>7. n # 0 => InSpan(Given.base, Given.size, at, n)
  <2> SUFFICES ASSUME n # 0  PROVE InSpan(Base, arena.offset, at, n)
    BY DEF Given
  <2>1. PICK base \in Nat : base = Base
    BY RegionFacts
  <2>2. at >= base
    BY <1>6, <2>1 DEF TransferSize
  <2> QED
    BY <1>6, <2>1, <2>2 DEF InSpan
<1>8. Text(Given.mem, at, n) = IF n = 0 THEN 0 ELSE e.object
  <2>1. CASE n = 0
    BY <2>1 DEF Text
  <2>2. CASE n # 0
    <3>1. Text(region, at, Length[e.object]) = IF Length[e.object] = 0 THEN 0 ELSE e.object
      BY <1>1, <1>6, <2>2, TextIsRead DEF RecordSays
    <3> QED
      BY <1>2, <3>1 DEF Given
  <2> QED
    BY <2>1, <2>2
<1>9. left # 0 /\ ((n # 0 \/ at # 0) => n # 0)
  BY <1>4
<1>10. DecodeAt(Given, e.at, left, below) =
         Gives(Node(KindStr, Text(Given.mem, at, n), n, 0, <<>>), left - 1, <<>>)
  BY <1>5, <1>7, <1>9 DEF DecodeAt, KindInt, KindNone, KindStr, KindException, KindTuple,
                        KindList, KindDict, KindObject
<1> QED
  BY <1>1, <1>2, <1>8, <1>10 DEF Means, Str

\* The ids of the ledger are those of the handles.
LEMMA IdIsGiven ==
  ASSUME IInv, phase = "written", WalkKept, committed = Len(pending),
         NEW e \in Range(log), Handled(e), e.at \in Nat, e.at % Word = 0
  PROVE  At(region, e.at + Word) = e.object /\ e.object \in Given.ids
<1>1. PICK i \in DOMAIN pending : pending[i].at = e.at /\ pending[i].object = e.object
  BY DEF WalkKept, HandlesPending
<1>2. i \in 1 .. committed
  BY DEF IInv, Typed
<1>3. At(region, e.at + Word) = e.object
  BY <1>1, <1>2 DEF WalkKept, IdsWritten
<1>4. Refs.ids = [k \in 1 .. committed |-> pending[k].object]
  BY LedgerSays
<1>5. i \in DOMAIN Refs.ids /\ Refs.ids[i] = e.object
  BY <1>1, <1>2, <1>4
<1> QED
  BY <1>3, <1>5 DEF Given

LEMMA HandleIsRead ==
  ASSUME IInv, phase = "written", WalkKept, committed = Len(pending),
         NEW e \in Walk, e \in Range(log), Handled(e),
         NEW left \in Nat \ {0}, NEW below, NEW nodes
  PROVE  DecodeAt(Given, e.at, left, below) = Gives(Means(e, nodes), left - 1, <<e.object>>)
<1>1. RecordSays(e) /\ Placed(e) /\ RecordRead(e)
  BY RecordIsRead DEF WalkKept, RecordsKept
<1>2. /\ e.object \in Objects /\ e.object \notin Ints /\ e.object \notin Strs /\ ~Whole(e)
      /\ e.place \in Nat
  BY KindsApart DEF Walk, Handled
<1>3. PICK n \in Nat : n = Length[e.object]
  BY <1>2, TransferAssumption
<1>4. PICK attr \in 0 .. AttrMask : attr = Attribute(e.object)
  BY TransferAssumption DEF Attribute, AttrMask
<1>5. PICK at \in Nat : at = e.place
  BY <1>2
<1>6. Form(e) = Record(KindObject, e.object, at + attr) /\ Payload(e) = 4 + n /\ TextAt(e) = at + 4
  BY <1>2, <1>3, <1>4, <1>5 DEF Form, Payload, TextAt, ClassHeader
<1>7. At(region, e.at + Word) = e.object /\ e.object \in Given.ids
  BY <1>1, IdIsGiven DEF RecordRead
<1>8. at % Word = 0 /\ at >= Base + TransferSize /\ at + (4 + n) <= Base + arena.offset
  <2>1. Payload(e) # 0
    BY <1>6
  <2> QED
    BY <1>1, <1>5, <1>6, <2>1 DEF Placed
<1>9. InSpan(Base, arena.offset, at, ClassHeader) /\ InSpan(Base, arena.offset, at + ClassHeader, n)
  <2>1. PICK base \in Nat : base = Base
    BY RegionFacts
  <2>2. arena.offset \in Nat
    BY DEF IInv, Typed
  <2>3. PICK end \in Nat : end = Base + arena.offset
    BY <2>1, <2>2
  <2>4. at >= base /\ at + (4 + n) <= end
    BY <1>8, <2>1, <2>3 DEF TransferSize
  <2>5. /\ at >= base /\ 4 >= 0 /\ at + 4 <= end
        /\ at + 4 >= base /\ n >= 0 /\ (at + 4) + n <= end
    BY <2>4
  <2> QED
    BY <2>1, <2>3, <2>5 DEF InSpan, ClassHeader
<1>10. At(region, at) = n
  BY <1>1, <1>3, <1>5 DEF RecordSays, Says, At
<1>11. /\ (at + attr) % (AttrMask + 1) = attr
       /\ (at + attr) - ((at + attr) % (AttrMask + 1)) = at
  BY <1>8, ClassAndAttributes
<1>12. Text(region, at + ClassHeader, n) = IF n = 0 THEN 0 ELSE e.object
  <2>1. PICK t \in Nat : t = at + ClassHeader /\ t % Word = 0 /\ t = TextAt(e)
    <3>1. PICK q \in Nat : at = 4 * q
      BY <1>8 DEF Word
    <3>2. 4 * q + 4 \in Nat /\ (4 * q + 4) % 4 = 0
      OBVIOUS
    <3> QED
      BY <1>6, <3>1, <3>2 DEF ClassHeader, Word
  <2>2. Text(region, t, Length[e.object]) = IF Length[e.object] = 0 THEN 0 ELSE e.object
    BY <1>1, <1>2, <2>1, TextIsRead DEF RecordSays
  <2> QED
    BY <1>3, <2>1, <2>2
<1>13. PICK x \in Nat : x = at + attr
  BY <1>4 DEF AttrMask
<1>14. /\ At(Given.mem, e.at) = KindObject /\ At(Given.mem, e.at + Word) = e.object
       /\ At(Given.mem, e.at + 2 * Word) = x /\ Given.mem = region
       /\ e.at % Word = 0 /\ InSpan(Given.base, Given.size, e.at, ValueSize)
  BY <1>1, <1>6, <1>7, <1>13 DEF RecordRead, Given, Record
<1>15. /\ x % (AttrMask + 1) = attr /\ x - (x % (AttrMask + 1)) = at
       /\ InSpan(Given.base, Given.size, at, ClassHeader)
       /\ InSpan(Given.base, Given.size, at + ClassHeader, n)
       /\ NameSize(Given, at) = n /\ at # 0
  <2>1. at # 0
    BY <1>8, RegionFacts DEF TransferSize
  <2>2. At(Given.mem, at) = n
    BY <1>10 DEF Given
  <2>3. NameSize(Given, at) = n
    BY <2>1, <2>2 DEF NameSize
  <2> QED
    BY <1>9, <1>11, <1>13, <2>1, <2>3 DEF Given
<1>16. DecodeAt(Given, e.at, left, below) =
         Gives(Object(e.object, attr, Text(Given.mem, at + ClassHeader, n), n),
               left - 1, <<e.object>>)
  <2>1. left # 0
    OBVIOUS
  <2> HIDE DEF Given
  <2> QED
    BY <1>7, <1>14, <1>15, <2>1
       DEF DecodeAt, KindInt, KindNone, KindStr, KindException, KindTuple, KindList, KindDict,
           KindObject
<1>17. Means(e, nodes) = CrossedHandle(e.object)
  <2>1. CrossedAsHandle(e)
    <3>1. e.object \in Opaques \/ e.object \in Containers
      BY DEF Handled
    <3>2. PICK k \in Nat, m \in Nat, max \in Nat : k = Len(e.path) /\ m = Nested /\ max = MaxDepth
      <4>1. e.path \in Seq(Objects)
        BY DEF Walk
      <4>2. Len(e.path) \in Nat
        BY <4>1
      <4> QED
        BY <4>2, TransferAssumption DEF Nested
    <3>3. k + m >= max \/ k + m < max
      BY <3>2
    <3>4. e.object \notin Opaques => e.object \in Containers
      BY <3>1
    <3>5. e.object \in Containers =>
            k + m >= max \/ \E i \in DOMAIN e.path : e.path[i] = e.object
      BY <1>2, <3>2, <3>3 DEF Whole, WholeIn
    <3>6. Nested = IF purpose = "arguments" THEN 1 ELSE 0
      BY DEF Nested
    <3>7. k + m = Len(e.path) + (IF purpose = "arguments" THEN 1 ELSE 0) /\ max = MaxDepth
      BY <3>2, <3>6
    <3> QED
      BY <3>4, <3>5, <3>7 DEF CrossedAsHandle
  <2> QED
    BY <1>2, <2>1 DEF Means
<1>18. CrossedHandle(e.object) = Object(e.object, attr, IF n = 0 THEN 0 ELSE e.object, n)
  BY <1>3, <1>4 DEF CrossedHandle, Attribute
<1> QED
  BY <1>12, <1>14, <1>16, <1>17, <1>18

-----------------------------------------------------------------------------
(* A block of records is read.                                             *)

\* What the walks held that were whole; number 0 is around them all.
Wholes == Branches(log, stack, Nested)

\* The tree of the walks, when all of them are over.
Rooted(kid, ends) ==
  /\ kid \in [0 .. Len(log) -> Seq(Nat)]
  /\ ends \in [0 .. Len(log) -> 0 .. Len(log) + 1]
  /\ \A i \in 0 .. Len(log) :
       /\ Len(kid[i]) = Len(Wholes[i].items)
       /\ \A j \in 1 .. Len(kid[i]) : KidSound(Wholes, log, kid, ends, i, j)
       /\ i # 0 => ends[i] = EndOf(kid, ends, i)

LEMMA WalkIsRooted ==
  ASSUME stack \in Seq(Frames), Logged, InTree, WalkIsOver
  PROVE  \E kid, ends : Rooted(kid, ends)
<1>1. PICK kid, ends, open : Tree(Wholes, log, stack, kid, ends, open)
  BY DEF InTree, Grown, Wholes
<1>2. PICK n \in Nat : n = Len(log)
  BY DEF Logged
<1>3. DOMAIN stack = {1} /\ open[1] = 0 /\ stack[1].next > Len(stack[1].items) /\ 1 \in DOMAIN stack
  BY <1>1 DEF WalkIsOver, Tree
<1>4. kid \in [0 .. n -> Seq(Nat)] /\ ends \in [0 .. n -> 0 .. n + 1]
  BY <1>1, <1>2 DEF Tree
<1>5. \A i \in 0 .. n : \A j \in DOMAIN kid[i] : KidSound(Wholes, log, kid, ends, i, j)
  BY <1>1, <1>2 DEF Tree
<1>6. ASSUME NEW i \in 0 .. n, i # 0
      PROVE  Len(kid[i]) = Len(Wholes[i].items) /\ ends[i] = EndOf(kid, ends, i)
  <2>1. \A s \in DOMAIN stack : open[s] # i
    BY <1>3, <1>6
  <2>2. Closed(Wholes, kid, ends, i)
    BY <1>1, <1>2, <2>1 DEF Tree
  <2> QED
    BY <2>2 DEF Closed
<1>7. Len(kid[0]) = Len(Wholes[0].items)
  <2>1. FrameSits(Wholes, stack, kid, ends, open, 1)
    BY <1>1, <1>3 DEF Tree
  <2>2. Len(kid[0]) + 1 = stack[1].next /\ Wholes[0].items = stack[1].items
    BY <1>3, <2>1 DEF FrameSits
  <2>3. PICK k \in Nat, m \in Nat : k = Len(kid[0]) /\ m = Len(stack[1].items)
    <3>1. kid[0] \in Seq(Nat)
      BY <1>2, <1>4
    <3>2. stack[1].items \in Seq(Objects)
      <4>1. 1 \in DOMAIN stack
        BY <1>3
      <4>2. stack[1] \in Frames
        BY <4>1
      <4> QED
        BY <4>2 DEF Frames
    <3>3. Len(kid[0]) \in Nat /\ Len(stack[1].items) \in Nat
      BY <3>1, <3>2
    <3> QED
      BY <3>3
  <2>4. k >= m
    BY <1>3, <2>2, <2>3
  <2>5. k <= m
    <3> SUFFICES ASSUME k # 0  PROVE k <= m
      BY <2>3
    <3>1. k \in DOMAIN kid[0]
      BY <1>2, <1>4, <2>3
    <3>2. KidSound(Wholes, log, kid, ends, 0, k)
      BY <1>2, <1>5, <3>1
    <3> QED
      BY <2>2, <2>3, <3>2 DEF KidSound
  <2> QED
    BY <2>2, <2>3, <2>4, <2>5
<1>8. ASSUME NEW i \in 0 .. n  PROVE DOMAIN kid[i] = 1 .. Len(kid[i])
  BY <1>4
<1> QED
  BY <1>2, <1>4, <1>5, <1>6, <1>7, <1>8 DEF Rooted

\* Where the decoder is at a depth.
Level(depth) == MaxDepth + 1 - Nested - depth

\* The decoder f has m records to read in all, and those of the walks are so many.
Decodes(f, kid, ends, m) ==
  /\ Rooted(kid, ends) /\ Reads(Given, MaxDepth + 1, f)
  /\ m \in Nat /\ Len(log) <= m

\* The i-th walk is read as what is meant, and so many records are left.
IsRead(f, ends, m, i) ==
  \E retained \in Seq(Objects) :
    f[Level(Len(log[i].path))][<<log[i].at, m - (i - 1)>>] =
      Gives(Meant[i], m - (ends[i] - 1), retained)

\* What was decoded of what the i-th holds, before the j-th of it.
Following(kid, ends, i, j) == IF j = 0 THEN i + 1 ELSE ends[kid[i][j]]

ReadSoFar(kid, ends, m, i, j, r) ==
  \E retained \in Seq(Objects) :
    r = [ok |-> TRUE, nodes |-> [k \in 1 .. j |-> Meant[kid[i][k]]],
         left |-> m - (Following(kid, ends, i, j) - 1), retained |-> retained]

KidsAreRead(f, kid, ends, m, i) == \A j \in 1 .. Len(kid[i]) : IsRead(f, ends, m, kid[i][j])

LEMMA OneMoreIsRead ==
  ASSUME NEW f, NEW kid, NEW ends, NEW m, Decodes(f, kid, ends, m), Logged,
         NEW i \in 0 .. Len(log), KidsAreRead(f, kid, ends, m, i),
         NEW j \in 1 .. Len(kid[i]), NEW r, ReadSoFar(kid, ends, m, i, j - 1, r)
  PROVE  ReadSoFar(kid, ends, m, i, j,
           Read(Wholes[i].at, m - i, f[Level(Len(Wholes[i].inside))], j, r))
<1> DEFINE below == f[Level(Len(Wholes[i].inside))]
           nodes == [k \in 1 .. j - 1 |-> Meant[kid[i][k]]]
<1>1. PICK before \in Seq(Objects) :
        r = [ok |-> TRUE, nodes |-> nodes,
             left |-> m - (Following(kid, ends, i, j - 1) - 1), retained |-> before]
  BY DEF ReadSoFar
<1>2. PICK n \in Nat : n = Len(kid[i])
  BY DEF Decodes, Rooted
<1>3. j \in 1 .. n /\ KidSound(Wholes, log, kid, ends, i, j)
  BY <1>2 DEF Decodes, Rooted
<1>4. PICK k : k = kid[i][j]
  OBVIOUS
<1>5. /\ log[k].path = Wholes[i].inside /\ log[k].at = Wholes[i].at + (j - 1) * ValueSize
      /\ k = Following(kid, ends, i, j - 1)
  <2>1. j = 1 <=> j - 1 = 0
    BY <1>3
  <2> QED
    BY <1>3, <1>4, <2>1 DEF KidSound, Following
<1>6. PICK more \in Seq(Objects) :
        below[<<Wholes[i].at + (j - 1) * ValueSize, m - (k - 1)>>] =
          Gives(Meant[k], m - (ends[k] - 1), more)
  <2>1. IsRead(f, ends, m, k)
    BY <1>4 DEF KidsAreRead
  <2> QED
    BY <1>5, <2>1 DEF IsRead
<1> HIDE DEF below
<1>7. r.ok /\ r.left = m - (k - 1) /\ r.nodes = nodes /\ r.retained = before
  BY <1>1, <1>5
<1>8. j # 0
  BY <1>3
<1>9. Read(Wholes[i].at, m - i, below, j, r) =
        [ok |-> TRUE, nodes |-> Append(nodes, Meant[k]), left |-> m - (ends[k] - 1),
         retained |-> before \o more]
  <2>1. PICK x : x = Wholes[i].at + (j - 1) * ValueSize
    OBVIOUS
  <2>2. PICK y : y = m - (k - 1)
    OBVIOUS
  <2>3. PICK z : z = m - (ends[k] - 1)
    OBVIOUS
  <2>4. below[<<x, r.left>>] = Gives(Meant[k], z, more)
    BY <1>6, <1>7, <2>1, <2>2, <2>3
  <2>5. /\ below[<<x, r.left>>].ok /\ below[<<x, r.left>>].node = Meant[k]
        /\ below[<<x, r.left>>].left = z /\ below[<<x, r.left>>].retained = more
    BY <2>4 DEF Gives
  <2>6. below[<<x, r.left>>].ok = TRUE
    BY <2>4 DEF Gives
  <2> QED
    BY <1>7, <1>8, <2>1, <2>3, <2>5, <2>6, Zenon DEF Read
<1>10. Append(nodes, Meant[k]) = [l \in 1 .. j |-> Meant[kid[i][l]]]
  <2>1. PICK c \in Nat : c = j - 1 /\ c + 1 = j
    BY <1>3
  <2>2. nodes = [l \in 1 .. c |-> Meant[kid[i][l]]]
    BY <2>1
  <2>3. Append([l \in 1 .. c |-> Meant[kid[i][l]]], Meant[kid[i][c + 1]]) =
          [l \in 1 .. c + 1 |-> Meant[kid[i][l]]]
    OBVIOUS
  <2> QED
    BY <1>4, <2>1, <2>2, <2>3
<1>11. before \o more \in Seq(Objects)
  OBVIOUS
<1>12. Following(kid, ends, i, j) = ends[k]
  BY <1>4, <1>8 DEF Following
<1> HIDE DEF nodes
<1> QED
  BY <1>9, <1>10, <1>11, <1>12 DEF ReadSoFar, below

\* What a walk holds is read, and so many records are left as there are behind it.
LEMMA BranchIsRead ==
  ASSUME NEW f, NEW kid, NEW ends, NEW m, Decodes(f, kid, ends, m), Logged,
         NEW i \in 0 .. Len(log), KidsAreRead(f, kid, ends, m, i)
  PROVE  ReadSoFar(kid, ends, m, i, Len(kid[i]),
           DecodeItems(Wholes[i].at, Len(kid[i]), m - i, f[Level(Len(Wholes[i].inside))]))
<1>1. PICK n \in Nat : n = Len(kid[i])
  BY DEF Decodes, Rooted
<1>2. PICK g : ReadsItems(Wholes[i].at, n, m - i, f[Level(Len(Wholes[i].inside))], g)
  BY ItemsAreRead
<1> DEFINE Missing == {j \in 0 .. n : ~ReadSoFar(kid, ends, m, i, j, g[j])}
<1>3. ASSUME Missing # {}  PROVE FALSE
  <2>1. PICK j \in Missing : \A k \in Missing : j <= k
    <3>1. Missing \in SUBSET Nat
      OBVIOUS
    <3> HIDE DEF Missing
    <3> QED
      BY <1>3, <3>1, LeastNumber
  <2>2. j \in 0 .. n /\ ~ReadSoFar(kid, ends, m, i, j, g[j])
    OBVIOUS
  <2>3. j # 0
    <3> SUFFICES ReadSoFar(kid, ends, m, i, 0, g[0])
      BY <2>2
    <3>1. g[0] = [ok |-> TRUE, nodes |-> <<>>, left |-> m - i, retained |-> <<>>]
      <4>1. 0 \in 0 .. n
        OBVIOUS
      <4>2. g[0] = Read(Wholes[i].at, m - i, f[Level(Len(Wholes[i].inside))], 0, g[0 - 1])
        BY <1>2, <4>1 DEF ReadsItems
      <4> QED
        BY <4>2 DEF Read
    <3>2. [k \in 1 .. 0 |-> Meant[kid[i][k]]] = <<>>
      OBVIOUS
    <3>3. m - (Following(kid, ends, i, 0) - 1) = m - i
      <4>1. i \in Nat /\ m \in Nat
        BY DEF Decodes
      <4>2. i + 1 - 1 = i
        BY <4>1
      <4> QED
        BY <4>2 DEF Following
    <3>4. <<>> \in Seq(Objects)
      OBVIOUS
    <3> QED
      BY <3>1, <3>2, <3>3, <3>4 DEF ReadSoFar
  <2>4. PICK c \in 0 .. n : c = j - 1 /\ ~(j <= c) /\ j \in 1 .. n
    BY <2>2, <2>3
  <2>5. ReadSoFar(kid, ends, m, i, j - 1, g[j - 1])
    BY <2>1, <2>4
  <2>6. g[j] = Read(Wholes[i].at, m - i, f[Level(Len(Wholes[i].inside))], j, g[j - 1])
    BY <1>2, <2>2 DEF ReadsItems
  <2>7. j \in 1 .. Len(kid[i])
    BY <1>1, <2>4
  <2>8. ReadSoFar(kid, ends, m, i, j,
          Read(Wholes[i].at, m - i, f[Level(Len(Wholes[i].inside))], j, g[j - 1]))
    BY <2>5, <2>7, OneMoreIsRead
  <2> QED
    BY <2>2, <2>6, <2>8
<1>4. n \in 0 .. n
  OBVIOUS
<1>5. ReadSoFar(kid, ends, m, i, n, g[n])
  BY <1>3, <1>4
<1> QED
  BY <1>1, <1>2, <1>5 DEF ReadsItems

LEMMA WholesType ==
  ASSUME stack \in Seq(Frames), stack # <<>>, Logged, NEW i \in 0 .. Len(log)
  PROVE  /\ Wholes[i].items \in Seq(Objects) /\ Wholes[i].at \in Nat
         /\ Wholes[i].inside \in Seq(Objects)
<1>1. CASE i = 0
  <2>1. stack[1] \in Frames
    <3>1. 1 \in DOMAIN stack
      OBVIOUS
    <3> QED
      BY <3>1
  <2>2. stack[1].items \in Seq(Objects) /\ stack[1].block \in Nat
    BY <2>1 DEF Frames
  <2>3. Wholes[0] = [items |-> stack[1].items, at |-> stack[1].block, inside |-> <<>>]
    BY <1>1 DEF Wholes, Branches
  <2> QED
    BY <1>1, <2>2, <2>3
<1>2. CASE i # 0
  <2>1. i \in DOMAIN log
    BY <1>2 DEF Logged
  <2>2. PICK e \in Walk : e = log[i]
    BY <2>1 DEF Logged
  <2>3. Wholes[i] = Branch(Nested, e)
    BY <1>2, <2>2 DEF Wholes, Branches
  <2>4. /\ e.items \in Seq(Objects) /\ e.path \in Seq(Objects) /\ e.object \in Objects
        /\ e.place \in Nat
    BY DEF Walk
  <2>5. Append(e.path, e.object) \in Seq(Objects)
    BY <2>4
  <2> QED
    BY <2>3, <2>4, <2>5 DEF Branch
<1> QED
  BY <1>1, <1>2

\* What is meant by what a walk holds: the walk of each is found.
LEMMA KidsAreMeant ==
  ASSUME stack \in Seq(Frames), stack # <<>>, Logged, Distinct,
         NEW kid, NEW ends, Rooted(kid, ends), NEW i \in 0 .. Len(log)
  PROVE  MeantItems(Meant, i + 1, Wholes[i].items, Wholes[i].inside, Wholes[i].at) =
           [j \in DOMAIN Wholes[i].items |-> Meant[kid[i][j]]]
<1>1. PICK n \in Nat : n = Len(log) /\ DOMAIN log = 1 .. n
  BY DEF Logged
<1>2. ASSUME NEW j \in DOMAIN Wholes[i].items
      PROVE  WalksOf(i + 1, Wholes[i].items[j], Wholes[i].inside,
                     Wholes[i].at + (j - 1) * ValueSize) = {kid[i][j]}
  <2>1. Len(kid[i]) = Len(Wholes[i].items)
    BY DEF Rooted
  <2>2. j \in 1 .. Len(kid[i])
    <3>1. Wholes[i].items \in Seq(Objects)
      BY WholesType
    <3> QED
      BY <2>1, <3>1
  <2>3. KidSound(Wholes, log, kid, ends, i, j)
    BY <2>2 DEF Rooted
  <2>4. PICK k \in 1 .. n : k = kid[i][j]
    BY <1>1, <2>3 DEF KidSound
  <2>5. /\ log[k].object = Wholes[i].items[j] /\ log[k].path = Wholes[i].inside
        /\ log[k].at = Wholes[i].at + (j - 1) * ValueSize /\ k >= i + j
    BY <2>3, <2>4 DEF KidSound
  <2>6. k \in i + 1 .. n
    BY <1>1, <2>2, <2>4, <2>5
  <2>7. ASSUME NEW l \in i + 1 .. n, log[l].at = log[k].at  PROVE l = k
    <3>1. l \in 1 .. n
      BY <1>1
    <3>2. ~(l < k) /\ ~(k < l)
      BY <1>1, <2>4, <2>7, <3>1 DEF Distinct
    <3> QED
      BY <2>4, <3>1, <3>2
  <2> QED
    BY <1>1, <2>4, <2>5, <2>6, <2>7 DEF WalksOf
<1>3. ASSUME NEW j \in DOMAIN Wholes[i].items
      PROVE  LET walks == WalksOf(i + 1, Wholes[i].items[j], Wholes[i].inside,
                                  Wholes[i].at + (j - 1) * ValueSize)
             IN  (IF walks = {} THEN Lost ELSE Meant[CHOOSE k \in walks : TRUE]) = Meant[kid[i][j]]
  <2>1. PICK x : x = kid[i][j]
    OBVIOUS
  <2>2. (CHOOSE k \in {x} : TRUE) = x /\ {x} # {}
    OBVIOUS
  <2> QED
    BY <1>2, <2>1, <2>2
<1> QED
  BY <1>3, Zenon DEF MeantItems

\* A container, or the tuple of arguments, is what its block is read as.
LEMMA ContainerIsRead ==
  ASSUME NEW a, a % Word = 0, InSpan(Base, arena.offset, a, ValueSize),
         NEW kind \in {KindTuple, KindList, KindDict}, NEW n \in Nat, NEW w1 \in Nat,
         n = IF kind = KindDict THEN 2 * w1 ELSE w1, NEW at \in Nat,
         At(region, a) = kind, At(region, a + Word) = w1, At(region, a + 2 * Word) = at,
         n # 0 => at # 0 /\ InSpan(Base, arena.offset, at, n * ValueSize),
         NEW left \in Nat \ {0}, n <= left - 1, NEW below,
         NEW nodes, NEW last, NEW retained,
         DecodeItems(at, n, left - 1, below) =
           [ok |-> TRUE, nodes |-> nodes, left |-> last, retained |-> retained]
  PROVE  DecodeAt(Given, a, left, below) = Gives(Node(kind, 0, 0, 0, nodes), last, retained)
<1>1. /\ At(Given.mem, a) = kind /\ At(Given.mem, a + Word) = w1
      /\ At(Given.mem, a + 2 * Word) = at
      /\ a % Word = 0 /\ InSpan(Given.base, Given.size, a, ValueSize)
      /\ n # 0 => InSpan(Given.base, Given.size, at, n * ValueSize)
  BY DEF Given
<1>2. left # 0 /\ ~(n < 0) /\ ~(n > left - 1)
  OBVIOUS
<1>3. /\ kind # KindNone /\ kind # KindInt /\ kind \notin {KindStr, KindException}
      /\ kind # KindObject
  BY DEF KindInt, KindNone, KindStr, KindException, KindTuple, KindList, KindDict, KindObject
<1>4. CASE n = 0
  <2>1. PICK g : ReadsItems(at, 0, left - 1, below, g)
    <3>1. 0 \in Nat
      OBVIOUS
    <3> QED
      BY <3>1, ItemsAreRead, Zenon
  <2>2. 0 \in 0 .. 0
    OBVIOUS
  <2>3. DecodeItems(at, 0, left - 1, below) =
          [ok |-> TRUE, nodes |-> <<>>, left |-> left - 1, retained |-> <<>>]
    BY <2>1, <2>2 DEF ReadsItems, Read
  <2>4. nodes = <<>> /\ last = left - 1 /\ retained = <<>>
    BY <1>4, <2>3
  <2>5. DecodeAt(Given, a, left, below) = Gives(Node(kind, 0, 0, 0, <<>>), left - 1, <<>>)
    <3> HIDE DEF Given
    <3> QED
      BY <1>1, <1>2, <1>3, <1>4
         DEF DecodeAt, KindInt, KindNone, KindStr, KindException, KindTuple, KindList, KindDict,
             KindObject
  <2> QED
    BY <2>4, <2>5
<1>5. CASE n # 0
  <2>1. PICK r : /\ r = DecodeItems(at, n, left - 1, below) /\ r.ok = TRUE
                 /\ r.nodes = nodes /\ r.left = last /\ r.retained = retained
    OBVIOUS
  <2>2. DecodeAt(Given, a, left, below) = Gives(Node(kind, 0, 0, 0, r.nodes), r.left, r.retained)
    <3> HIDE DEF Given
    <3> QED
      BY <1>1, <1>2, <1>3, <1>5, <2>1
         DEF DecodeAt, KindInt, KindNone, KindStr, KindException, KindTuple, KindList, KindDict,
             KindObject
  <2> QED
    BY <2>1, <2>2
<1> QED
  BY <1>4, <1>5

\* There is room for as many records as are left to be walked.
LEMMA KidsFit ==
  ASSUME NEW kid, NEW ends, Rooted(kid, ends), Logged, NEW i \in 0 .. Len(log)
  PROVE  Len(kid[i]) \in Nat /\ i + Len(kid[i]) <= Len(log) /\ Len(log) \in Nat
<1>1. PICK n \in Nat : n = Len(log) /\ DOMAIN log = 1 .. n
  BY DEF Logged
<1>2. PICK k \in Nat : k = Len(kid[i])
  BY DEF Rooted
<1>3. CASE k = 0
  BY <1>1, <1>2, <1>3
<1>4. CASE k # 0
  <2>1. k \in 1 .. Len(kid[i])
    BY <1>2, <1>4
  <2>2. KidSound(Wholes, log, kid, ends, i, k)
    BY <2>1 DEF Rooted
  <2>3. PICK l \in 1 .. n : l = kid[i][k] /\ l >= i + k
    BY <1>1, <2>2 DEF KidSound
  <2> QED
    BY <1>1, <1>2, <2>3
<1> QED
  BY <1>3, <1>4

\* A container that was walked.
LEMMA WholeIsRead ==
  ASSUME IInv, Logged, Distinct, stack # <<>>,
         NEW f, NEW kid, NEW ends, NEW m, Decodes(f, kid, ends, m),
         NEW i \in DOMAIN log, RecordSays(log[i]), Placed(log[i]), Whole(log[i]),
         KidsAreRead(f, kid, ends, m, i)
  PROVE  IsRead(f, ends, m, i)
<1>1. PICK e \in Walk : e = log[i]
  BY DEF Logged
<1>2. /\ e.object \in Containers /\ Len(e.path) + Nested < MaxDepth /\ ~Handled(e)
      /\ e.object \notin Ints /\ e.object \notin Strs
  <2>1. e.object \in Containers /\ e.object \in Objects /\ Len(e.path) + Nested < MaxDepth
    BY <1>1 DEF Whole, WholeIn, Walk
  <2>2. ~Handled(e)
    BY <1>1 DEF Handled
  <2> QED
    BY <2>1, <2>2, KindsApart
<1>3. i \in 0 .. Len(log) /\ i # 0 /\ i \in Nat
  BY DEF Logged
<1>4. Wholes[i] = [items |-> e.items, at |-> e.place, inside |-> Append(e.path, e.object)]
  <2>1. Wholes[i] = Branch(Nested, e)
    BY <1>1, <1>3 DEF Wholes, Branches
  <2> QED
    BY <1>1, <2>1 DEF Branch, Whole
<1>5. PICK d \in Nat : d = Len(e.path) /\ Len(Wholes[i].inside) = d + 1
  <2>1. e.path \in Seq(Objects) /\ e.object \in Objects
    BY DEF Walk
  <2>2. Len(e.path) \in Nat /\ Len(Append(e.path, e.object)) = Len(e.path) + 1
    BY <2>1
  <2> QED
    BY <1>4, <2>2
<1>6. /\ Level(d) \in 1 .. MaxDepth + 1 /\ Level(d) - 1 = Level(d + 1)
  <2>1. PICK nested \in Nat, max \in Nat : nested = Nested /\ max = MaxDepth /\ d + nested < max
    BY <1>2, <1>5, TransferAssumption DEF Nested
  <2>2. /\ max + 1 - nested - d \in 1 .. max + 1
        /\ (max + 1 - nested - d) - 1 = max + 1 - nested - (d + 1)
    BY <2>1
  <2> QED
    BY <2>1, <2>2 DEF Level
<1> DEFINE below == f[Level(d + 1)]
<1>7. PICK n \in Nat : /\ n = Len(kid[i]) /\ n = Len(e.items) /\ i + n <= m /\ m \in Nat
  <2>1. PICK n \in Nat, l \in Nat : n = Len(kid[i]) /\ l = Len(log) /\ i + n <= l
    BY <1>3, KidsFit DEF Decodes
  <2>2. n = Len(e.items)
    BY <1>3, <1>4, <2>1 DEF Decodes, Rooted
  <2>3. l <= m /\ m \in Nat
    BY <2>1 DEF Decodes
  <2>4. i + n <= m
    BY <1>3, <2>1, <2>3
  <2> QED
    BY <2>1, <2>2, <2>3, <2>4
<1>8. PICK retained \in Seq(Objects) :
        DecodeItems(e.place, n, m - i, below) =
          [ok |-> TRUE, nodes |-> [j \in 1 .. n |-> Meant[kid[i][j]]],
           left |-> m - (ends[i] - 1), retained |-> retained]
  <2>1. ReadSoFar(kid, ends, m, i, Len(kid[i]),
          DecodeItems(Wholes[i].at, Len(kid[i]), m - i, f[Level(Len(Wholes[i].inside))]))
    BY <1>3, BranchIsRead
  <2>2. ReadSoFar(kid, ends, m, i, n, DecodeItems(e.place, n, m - i, below))
    BY <1>4, <1>5, <1>7, <2>1
  <2>3. Following(kid, ends, i, n) = ends[i]
    BY <1>3, <1>7 DEF Following, Decodes, Rooted, EndOf
  <2> QED
    BY <2>2, <2>3 DEF ReadSoFar
<1> HIDE DEF below
<1>9. PICK left \in Nat \ {0} : left = m - (i - 1) /\ left - 1 = m - i /\ n <= left - 1
  <2>1. m - (i - 1) \in Nat \ {0} /\ m - (i - 1) - 1 = m - i /\ n <= m - i
    BY <1>3, <1>7
  <2> QED
    BY <2>1
<1>10. RecordRead(e)
  BY <1>1, RecordIsRead
<1>11. PICK kind \in {KindTuple, KindList, KindDict} :
         /\ kind = KindOf(e.object) /\ (kind = KindDict <=> e.object \in Dicts)
  <2>1. e.object \in Lists \/ e.object \in Dicts \/ e.object \in Tuples
    BY <1>2 DEF Containers
  <2>2. /\ e.object \in Dicts => e.object \notin Lists
        /\ e.object \in Tuples => e.object \notin Lists /\ e.object \notin Dicts
    BY TransferAssumption
  <2> QED
    BY <1>2, <2>1, <2>2 DEF KindOf, KindTuple, KindList, KindDict
<1>12. PICK w1 \in Nat, at \in Nat :
         /\ w1 = Count(e) /\ at = e.place /\ n = IF kind = KindDict THEN 2 * w1 ELSE w1
  <2>1. e.place \in Nat
    BY DEF Walk
  <2>2. CASE e.object \in Dicts
    <3>1. n % 2 = 0
      BY <1>1, <1>7, <2>2 DEF Placed
    <3>2. n \div 2 \in Nat /\ n = 2 * (n \div 2)
      BY <3>1
    <3> QED
      BY <1>7, <1>11, <2>1, <2>2, <3>2 DEF Count
  <2>3. CASE e.object \notin Dicts
    BY <1>7, <1>11, <2>1, <2>3 DEF Count
  <2> QED
    BY <2>2, <2>3
<1>13. Form(e) = Record(kind, w1, at) /\ Payload(e) = n * ValueSize
  BY <1>2, <1>7, <1>11, <1>12 DEF Form, Payload
<1>14. /\ At(region, e.at) = kind /\ At(region, e.at + Word) = w1
       /\ At(region, e.at + 2 * Word) = at
       /\ e.at \in Nat /\ e.at % Word = 0 /\ InSpan(Base, arena.offset, e.at, ValueSize)
  BY <1>2, <1>10, <1>13 DEF RecordRead, Record
<1>15. at # 0 /\ InSpan(Base, arena.offset, at, n * ValueSize)
  <2>1. at >= Base + TransferSize /\ at + n * ValueSize <= Base + arena.offset
    BY <1>1, <1>12, <1>13 DEF Placed
  <2>2. PICK base \in Nat : base = Base
    BY RegionFacts
  <2>3. at >= base + 20
    BY <2>1, <2>2 DEF TransferSize
  <2>4. at # 0 /\ at >= base /\ n * 12 >= 0
    BY <2>2, <2>3
  <2> QED
    BY <2>1, <2>2, <2>4 DEF InSpan, ValueSize
<1>16. PICK nodes : nodes = [j \in 1 .. n |-> Meant[kid[i][j]]]
  OBVIOUS
<1>17. DecodeAt(Given, e.at, left, below) =
         Gives(Node(kind, 0, 0, 0, nodes), m - (ends[i] - 1), retained)
  <2>1. PICK last : last = m - (ends[i] - 1)
    OBVIOUS
  <2>2. PICK rest : rest = left - 1 /\ rest = m - i
    BY <1>9
  <2>3. DecodeItems(at, n, left - 1, below) =
          [ok |-> TRUE, nodes |-> nodes, left |-> last, retained |-> retained]
    BY <1>8, <1>12, <1>16, <2>1, <2>2
  <2>4. n <= left - 1
    BY <1>9
  <2>5. DecodeAt(Given, e.at, left, below) = Gives(Node(kind, 0, 0, 0, nodes), last, retained)
    BY <1>12, <1>14, <1>15, <2>3, <2>4, ContainerIsRead
  <2> QED
    BY <2>1, <2>5
<1>18. Meant[i] = Node(kind, 0, 0, 0, nodes)
  <2>1. MeantItems(Meant, i + 1, e.items, Append(e.path, e.object), e.place) =
          [j \in DOMAIN e.items |-> Meant[kid[i][j]]]
    <3>1. MeantItems(Meant, i + 1, Wholes[i].items, Wholes[i].inside, Wholes[i].at) =
           [j \in DOMAIN Wholes[i].items |-> Meant[kid[i][j]]]
      <4>1. stack \in Seq(Frames) /\ Rooted(kid, ends)
        BY DEF IInv, Typed, Decodes
      <4> QED
        BY <1>3, <4>1, KidsAreMeant
    <3> QED
      BY <1>4, <3>1
  <2>2. DOMAIN e.items = 1 .. n
    <3>1. e.items \in Seq(Objects)
      BY DEF Walk
    <3> QED
      BY <1>7, <3>1
  <2>3. Meant[i] = Means(e, nodes)
    BY <1>1, <1>16, <2>1, <2>2, MeantIs DEF MeantAt
  <2>4. ~CrossedAsHandle(e)
    <3>1. e.object \notin Opaques
      <4>1. e.object \in Objects
        BY DEF Walk
      <4> QED
        BY <1>2, <4>1, KindsApart
    <3>2. PICK k \in Nat, max \in Nat : k = d + Nested /\ max = MaxDepth /\ k < max
      <4>1. PICK nested \in Nat, max \in Nat : nested = Nested /\ max = MaxDepth
        BY TransferAssumption DEF Nested
      <4>2. d + nested < max /\ d + nested \in Nat
        BY <1>2, <1>5, <4>1
      <4> QED
        BY <4>1, <4>2
    <3>3. ~(k >= max)
      BY <3>2
    <3>4. \A j \in DOMAIN e.path : e.path[j] # e.object
      BY <1>1 DEF Whole, WholeIn
    <3>5. Nested = IF purpose = "arguments" THEN 1 ELSE 0
      BY DEF Nested
    <3>6. Len(e.path) + (IF purpose = "arguments" THEN 1 ELSE 0) = k
      BY <1>5, <3>2, <3>5
    <3> QED
      BY <3>1, <3>2, <3>3, <3>4, <3>6 DEF CrossedAsHandle
  <2> QED
    BY <1>2, <1>11, <2>3, <2>4 DEF Means
<1>19. f[Level(d)][<<e.at, left>>] = DecodeAt(Given, e.at, left, below)
  <2>1. Reads(Given, MaxDepth + 1, f)
    BY DEF Decodes
  <2>2. e.at \in Int
    BY <1>14
  <2> QED
    BY <1>6, <2>1, <2>2 DEF Reads, below
<1>20. f[Level(Len(log[i].path))][<<log[i].at, m - (i - 1)>>] =
         Gives(Meant[i], m - (ends[i] - 1), retained)
  BY <1>1, <1>5, <1>9, <1>17, <1>18, <1>19
<1> QED
  BY <1>20 DEF IsRead

Shallow(i) == Len(log[i].path) + Nested <= MaxDepth

LEMMA LeftFacts ==
  \A i \in Nat \ {0}, m \in Nat : i <= m =>
    m - (i - 1) \in Nat \ {0} /\ m - (i - 1) - 1 = m - (i + 1 - 1)
OBVIOUS

LEMMA LevelFacts ==
  \A d \in Nat, nested \in Nat, max \in Nat : d + nested <= max =>
    max + 1 - nested - d \in 1 .. max + 1
OBVIOUS

\* What is not a container that was walked.
LEMMA LeafIsRead ==
  ASSUME IInv, phase = "written", WalkKept, committed = Len(pending),
         NEW f, NEW kid, NEW ends, NEW m, Decodes(f, kid, ends, m),
         NEW i \in DOMAIN log, ~Whole(log[i]), Shallow(i)
  PROVE  IsRead(f, ends, m, i)
<1>1. PICK e \in Walk : e = log[i] /\ e \in Range(log)
  BY DEF WalkKept, Logged, Range
<1>2. RecordSays(e) /\ Placed(e) /\ RecordRead(e)
  BY <1>1, RecordIsRead DEF WalkKept, RecordsKept
<1>3. PICK n \in Nat : n = Len(log) /\ i \in 1 .. n /\ n <= m /\ m \in Nat
  BY DEF WalkKept, Logged, Decodes
<1>4. ends[i] = i + 1
  <2>1. i \in 0 .. Len(log) /\ i # 0
    BY <1>3
  <2>2. Wholes[i].items = <<>>
    <3>1. Wholes[i] = Branch(Nested, log[i])
      BY <2>1 DEF Wholes, Branches
    <3> QED
      BY <3>1 DEF Branch, Whole
  <2>3. Len(kid[i]) = 0
    BY <2>1, <2>2 DEF Decodes, Rooted
  <2> QED
    BY <2>1, <2>3 DEF Decodes, Rooted, EndOf
<1>5. PICK left \in Nat \ {0} : left = m - (i - 1) /\ left - 1 = m - (ends[i] - 1)
  <2>1. PICK k \in Nat \ {0}, all \in Nat : k = i /\ all = m /\ k <= all
    BY <1>3
  <2>2. PICK left \in Nat \ {0} : left = all - (k - 1) /\ left - 1 = all - (k + 1 - 1)
    <3>1. all - (k - 1) \in Nat \ {0} /\ all - (k - 1) - 1 = all - (k + 1 - 1)
      BY <2>1, LeftFacts, Zenon
    <3> QED
      BY <3>1
  <2> QED
    BY <1>4, <2>1, <2>2
<1>6. PICK level \in 1 .. MaxDepth + 1 : level = Level(Len(log[i].path))
  <2>1. e.path \in Seq(Objects)
    BY DEF Walk
  <2>2. PICK d \in Nat, nested \in Nat, max \in Nat :
          d = Len(e.path) /\ nested = Nested /\ max = MaxDepth
    <3>1. Len(e.path) \in Nat /\ Nested \in Nat /\ MaxDepth \in Nat
      BY <2>1, TransferAssumption DEF Nested
    <3> QED
      BY <3>1
  <2>3. d + nested <= max
    BY <1>1, <2>2 DEF Shallow
  <2>4. max + 1 - nested - d \in 1 .. max + 1
    BY <2>2, <2>3, LevelFacts, Zenon
  <2> QED
    BY <1>1, <2>2, <2>4 DEF Level
<1> DEFINE below == f[level - 1]
           nodes == MeantItems(Meant, i + 1, log[i].items, Append(log[i].path, log[i].object),
                               log[i].place)
<1>7. f[level][<<e.at, left>>] = DecodeAt(Given, e.at, left, below)
  <2>1. Reads(Given, MaxDepth + 1, f)
    BY DEF Decodes
  <2>2. e.at \in Int
    BY <1>2 DEF RecordRead
  <2> QED
    BY <1>6, <2>1, <2>2 DEF Reads
<1>8. Meant[i] = Means(e, nodes)
  BY <1>1, MeantIs DEF MeantAt, WalkKept
<1> HIDE DEF below, nodes
<1>9. PICK retained \in Seq(Objects) :
        DecodeAt(Given, e.at, left, below) = Gives(Means(e, nodes), left - 1, retained)
  <2>1. e.object \in Objects /\ <<>> \in Seq(Objects) /\ <<e.object>> \in Seq(Objects)
    BY DEF Walk
  <2>2. CASE e.object \in Ints
    BY <1>2, <2>1, <2>2, IntIsRead
  <2>3. CASE e.object \in Strs
    BY <1>2, <2>1, <2>3, StrIsRead
  <2>4. CASE Handled(e)
    BY <1>1, <2>1, <2>4, HandleIsRead
  <2>5. e.object \in Ints \/ e.object \in Strs \/ Handled(e)
    BY <1>1, <2>1, KindsApart DEF Handled
  <2> QED
    BY <2>2, <2>3, <2>4, <2>5
<1> QED
  BY <1>1, <1>5, <1>6, <1>7, <1>8, <1>9 DEF IsRead

\* From the last walk to the first, each is read as what is meant.
LEMMA WalksAreRead ==
  ASSUME IInv, phase = "written", WalkKept, committed = Len(pending), stack # <<>>,
         NEW f, NEW kid, NEW ends, NEW m, Decodes(f, kid, ends, m)
  PROVE  \A i \in DOMAIN log : Shallow(i) => IsRead(f, ends, m, i)
<1>1. PICK n \in Nat : n = Len(log) /\ DOMAIN log = 1 .. n
  BY DEF WalkKept, Logged
<1> DEFINE Unread == {k \in 0 .. n : n - k \in 1 .. n /\ Shallow(n - k)
                                     /\ ~IsRead(f, ends, m, n - k)}
<1>2. ASSUME Unread # {}  PROVE FALSE
  <2>1. PICK k \in Unread : \A l \in Unread : k <= l
    <3>1. Unread \in SUBSET Nat
      OBVIOUS
    <3> HIDE DEF Unread
    <3> QED
      BY <1>2, <3>1, LeastNumber
  <2>2. PICK i \in 1 .. n : i = n - k /\ Shallow(i) /\ ~IsRead(f, ends, m, i)
    OBVIOUS
  <2>3. ASSUME NEW j \in i + 1 .. n, Shallow(j)  PROVE IsRead(f, ends, m, j)
    <3> SUFFICES ASSUME ~IsRead(f, ends, m, j)  PROVE FALSE
      OBVIOUS
    <3>1. n - j \in 0 .. n /\ n - (n - j) = j /\ j \in 1 .. n /\ ~(k <= n - j)
      BY <1>1, <2>2
    <3>2. n - j \in Unread
      BY <2>3, <3>1
    <3> QED
      BY <2>1, <3>1, <3>2
  <2> HIDE DEF Unread
  <2>4. i \in DOMAIN log /\ log[i] \in Range(log)
    BY <1>1 DEF Range
  <2>5. Whole(log[i])
    BY <2>2, <2>4, LeafIsRead
  <2>6. RecordSays(log[i]) /\ Placed(log[i])
    BY <2>4 DEF WalkKept, RecordsKept
  <2>7. KidsAreRead(f, kid, ends, m, i)
    <3> SUFFICES ASSUME NEW j \in 1 .. Len(kid[i])  PROVE IsRead(f, ends, m, kid[i][j])
      BY DEF KidsAreRead
    <3>1. i \in 0 .. Len(log) /\ i # 0
      BY <1>1
    <3>2. KidSound(Wholes, log, kid, ends, i, j)
      BY <3>1 DEF Decodes, Rooted
    <3>3. PICK c \in 1 .. n : c = kid[i][j] /\ c >= i + j /\ log[c].path = Wholes[i].inside
      BY <1>1, <3>2 DEF KidSound
    <3>4. c \in i + 1 .. n
      <4>1. Len(kid[i]) \in Nat
        BY <3>1 DEF Decodes, Rooted
      <4> QED
        BY <3>3, <4>1
    <3>5. Shallow(c)
      <4>1. Wholes[i] = Branch(Nested, log[i])
        BY <3>1 DEF Wholes, Branches
      <4>2. log[c].path = Append(log[i].path, log[i].object)
        BY <3>3, <4>1 DEF Branch
      <4>3. log[i].path \in Seq(Objects) /\ log[i].object \in Objects
        <5>1. log[i] \in Walk
          BY <2>4 DEF WalkKept, Logged
        <5> QED
          BY <5>1 DEF Walk
      <4>4. Len(log[c].path) = Len(log[i].path) + 1
        BY <4>2, <4>3
      <4>5. PICK d \in Nat, nested \in Nat, max \in Nat :
              d = Len(log[i].path) /\ nested = Nested /\ max = MaxDepth
        <5>1. Len(log[i].path) \in Nat /\ Nested \in Nat /\ MaxDepth \in Nat
          BY <4>3, TransferAssumption DEF Nested
        <5> QED
          BY <5>1
      <4>6. d + nested < max
        BY <2>5, <4>5 DEF Whole, WholeIn
      <4>7. d + 1 + nested <= max
        BY <4>5, <4>6
      <4> QED
        BY <4>4, <4>5, <4>7 DEF Shallow
    <3> QED
      BY <2>3, <3>3, <3>4, <3>5
  <2>8. IsRead(f, ends, m, i)
    BY <2>4, <2>5, <2>6, <2>7, WholeIsRead DEF WalkKept
  <2> QED
    BY <2>2, <2>8
<1>3. ASSUME NEW i \in 1 .. n, Shallow(i), ~IsRead(f, ends, m, i)  PROVE FALSE
  <2>1. n - i \in 0 .. n /\ n - (n - i) = i
    BY <1>1
  <2>2. n - i \in Unread
    BY <1>3, <2>1
  <2> QED
    BY <1>2, <2>2
<1> QED
  BY <1>1, <1>3

-----------------------------------------------------------------------------
(* The whole of a region is read.                                          *)

\* What was decoded, and what was retained is of the guest's objects.
Comes(node) ==
  \E retained \in Seq(Objects) : Decoded = [ok |-> TRUE, node |-> node, taken |-> Held(retained)]

\* The first record is read.
Begins(f, node) ==
  \E retained \in Seq(Objects) : \E left :
    f[MaxDepth + 1][<<Base, RecordLimit(arena.offset)>>] = Gives(node, left, retained)

LEMMA BeginsComes ==
  ASSUME IInv, phase = "written", NEW f, Reads(Given, MaxDepth + 1, f),
         NEW node, Begins(f, node)
  PROVE  Comes(node)
<1>1. PICK retained \in Seq(Objects) : \E left :
        f[MaxDepth + 1][<<Base, RecordLimit(arena.offset)>>] = Gives(node, left, retained)
  BY DEF Begins
<1> PICK left : f[MaxDepth + 1][<<Base, RecordLimit(arena.offset)>>] = Gives(node, left, retained)
  BY <1>1
<1>2. Decoder(Given, MaxDepth + 1)[<<Base, RecordLimit(arena.offset)>>] =
        Gives(node, left, retained)
  BY DEF Reads
<1>3. Refs.ok = TRUE
  BY LedgerSays
<1>4. PICK r : /\ r = Decoder(Given, MaxDepth + 1)[<<Base, RecordLimit(arena.offset)>>]
               /\ r.ok = TRUE /\ r.node = node /\ r.retained = retained
  BY <1>2 DEF Gives
<1>5. Decoded = [ok |-> r.ok, node |-> r.node, taken |-> Held(r.retained)]
  BY <1>3, <1>4 DEF Decoded, Decode, Refs, Given
<1> QED
  BY <1>4, <1>5 DEF Comes

LEMMA LimitFacts ==
  \A n \in Nat, size \in Nat : n * 12 + 8 <= size =>
    size \div 12 \in Nat /\ n <= size \div 12
OBVIOUS

\* There is room for so many records behind the header.
Behind(size, n) == TransferSize + n * ValueSize <= size

\* There is room for as many records as were walked.
LEMMA RecordsFit ==
  ASSUME IInv, WalkKept, stack # <<>>
  PROVE  /\ RecordLimit(arena.offset) - Nested \in Nat
         /\ Len(log) <= RecordLimit(arena.offset) - Nested
         /\ Nested = 1 => Behind(arena.offset, Len(log))
<1>1. PICK n \in Nat, nested \in {0, 1}, size \in Nat :
        n = Len(log) /\ nested = Nested /\ size = arena.offset
  <2>1. Len(log) \in Nat /\ Nested \in {0, 1} /\ arena.offset \in Nat
    BY DEF WalkKept, Logged, Nested, IInv, Typed
  <2> QED
    BY <2>1
<1>2. n + nested \in Nat /\ (n + nested) * ValueSize + 8 <= size
  <2>1. RoomFor(n + nested, stack, size) /\ n + nested \in Nat /\ stack \in Seq(Frames)
    BY <1>1 DEF WalkKept, Roomy, IInv, Typed
  <2> QED
    BY <2>1, RoomTold
<1>3. (n + nested) * 12 + 8 <= size
  BY <1>2 DEF ValueSize
<1>4. PICK limit \in Nat : limit = size \div 12 /\ n + nested <= limit
  BY <1>2, <1>3, LimitFacts
<1>5. RecordLimit(arena.offset) = limit
  BY <1>1, <1>4 DEF RecordLimit, ValueSize
<1>6. limit - nested \in Nat /\ n <= limit - nested
  BY <1>4
<1>7. nested = 1 => 20 + n * 12 <= size
  BY <1>3
<1> QED
  BY <1>1, <1>5, <1>6, <1>7 DEF Behind, TransferSize, ValueSize

LEMMA OutermostAreRead ==
  ASSUME IInv, phase = "written", WalkKept, committed = Len(pending), stack # <<>>,
         NEW f, NEW kid, NEW ends, NEW m, Decodes(f, kid, ends, m)
  PROVE  KidsAreRead(f, kid, ends, m, 0)
<1> SUFFICES ASSUME NEW j \in 1 .. Len(kid[0])  PROVE IsRead(f, ends, m, kid[0][j])
  BY DEF KidsAreRead
<1>1. 0 \in 0 .. Len(log)
  BY DEF WalkKept, Logged
<1>2. KidSound(Wholes, log, kid, ends, 0, j)
  BY <1>1 DEF Decodes, Rooted
<1>3. PICK c \in DOMAIN log : c = kid[0][j] /\ log[c].path = Wholes[0].inside
  BY <1>2 DEF KidSound
<1>4. Wholes[0].inside = <<>>
  BY <1>1 DEF Wholes, Branches
<1>5. Shallow(c)
  <2>1. Len(log[c].path) = 0
    BY <1>3, <1>4
  <2>2. 0 + Nested <= MaxDepth
    BY TransferAssumption DEF Nested
  <2> QED
    BY <2>1, <2>2 DEF Shallow
<1> QED
  BY <1>3, <1>5, WalksAreRead

\* A region holds its header.
HeaderFits == phase = "written" => arena.offset >= TransferSize

LEMMA BaseIsSaid ==
  ASSUME NEW x, Says(Base \div Word, x)
  PROVE  At(region, Base) = x
BY DEF Says, At

\* The record of the region, as the decoder finds it.
LEMMA BaseFits ==
  ASSUME IInv, HeaderFits, phase = "written"
  PROVE  /\ Base \in Nat /\ Base % Word = 0 /\ InSpan(Base, arena.offset, Base, ValueSize)
         /\ MaxDepth + 1 \in 1 .. MaxDepth + 1 /\ (MaxDepth + 1) - 1 = MaxDepth
         /\ RecordLimit(arena.offset) \in Nat \ {0}
<1>1. Base \in Nat /\ Base % Word = 0 /\ MaxDepth \in Nat
  BY TransferAssumption
<1>2. PICK size \in Nat : size = arena.offset /\ size >= 20
  BY DEF IInv, Typed, HeaderFits, TransferSize
<1>3. PICK base \in Nat, max \in Nat : base = Base /\ max = MaxDepth
  BY <1>1
<1>4. /\ base >= base /\ 12 >= 0 /\ base + 12 <= base + size
      /\ max + 1 \in 1 .. max + 1 /\ (max + 1) - 1 = max
      /\ size \div 12 \in Nat \ {0}
  BY <1>2
<1> QED
  BY <1>1, <1>2, <1>3, <1>4 DEF InSpan, ValueSize, RecordLimit

LEMMA BaseIsRead ==
  ASSUME IInv, HeaderFits, phase = "written", NEW f, Reads(Given, MaxDepth + 1, f)
  PROVE  f[MaxDepth + 1][<<Base, RecordLimit(arena.offset)>>] =
           DecodeAt(Given, Base, RecordLimit(arena.offset), f[MaxDepth])
<1>1. Base \in Int
  BY TransferAssumption
<1> QED
  BY <1>1, BaseFits DEF Reads

\* None, that nothing is walked for.
LEMMA NoneIsRead ==
  ASSUME IInv, HeaderFits, phase = "written", NEW f, Reads(Given, MaxDepth + 1, f),
         At(region, Base) = KindNone
  PROVE  Begins(f, None)
<1>1. PICK limit \in Nat \ {0} : limit = RecordLimit(arena.offset)
  BY BaseFits
<1>2. /\ At(Given.mem, Base) = KindNone /\ Base % Word = 0
      /\ InSpan(Given.base, Given.size, Base, ValueSize)
  BY BaseFits DEF Given
<1>3. limit # 0
  OBVIOUS
<1>4. DecodeAt(Given, Base, limit, f[MaxDepth]) = Gives(None, limit - 1, <<>>)
  <2> HIDE DEF Given
  <2> QED
    BY <1>2, <1>3
       DEF DecodeAt, KindInt, KindNone, KindStr, KindException, KindTuple, KindList, KindDict,
           KindObject
<1>5. f[MaxDepth + 1][<<Base, limit>>] = Gives(None, limit - 1, <<>>)
  BY <1>1, <1>4, BaseIsRead
<1>6. <<>> \in Seq(Objects)
  OBVIOUS
<1> QED
  BY <1>1, <1>5, <1>6 DEF Begins

LEMMA SpanFits ==
  ASSUME NEW base \in Nat, NEW size \in Nat, NEW at, at = base + TransferSize,
         NEW n \in Nat, NEW all \in Nat, n <= all, Behind(size, all)
  PROVE  at # 0 /\ InSpan(base, size, at, n * ValueSize)
<1>1. 20 + all * 12 <= size
  BY DEF Behind, TransferSize, ValueSize
<1>2. at >= base /\ n * 12 >= 0 /\ (base + 20) + n * 12 <= base + size
  BY <1>1 DEF TransferSize
<1> QED
  BY <1>2 DEF InSpan, ValueSize, TransferSize

\* The tuple of the arguments.
LEMMA ArgumentsAreRead ==
  ASSUME IInv, HeaderFits, phase = "written", WalkKept, committed = Len(pending), stack # <<>>,
         purpose = "arguments",
         NEW f, NEW kid, NEW ends,
         Decodes(f, kid, ends, RecordLimit(arena.offset) - Nested)
  PROVE  Begins(f, Node(KindTuple, 0, 0, 0, [j \in DOMAIN stack[1].items |-> Meant[kid[0][j]]]))
<1>1. PICK limit \in Nat \ {0} : limit = RecordLimit(arena.offset)
  BY BaseFits
<1>2. Nested = 1
  BY DEF Nested
<1>3. PICK m \in Nat : m = RecordLimit(arena.offset) - Nested /\ m = limit - 1
  <2>1. limit - 1 \in Nat
    OBVIOUS
  <2> QED
    BY <1>1, <1>2, <2>1
<1>4. 0 \in 0 .. Len(log) /\ Logged
  BY DEF WalkKept, Logged
<1>5. PICK n \in Nat, all \in Nat : n = Len(kid[0]) /\ all = Len(log) /\ n <= all
  <2>1. Rooted(kid, ends)
    BY DEF Decodes
  <2>2. Len(kid[0]) \in Nat /\ 0 + Len(kid[0]) <= Len(log) /\ Len(log) \in Nat
    BY <1>4, <2>1, KidsFit
  <2>3. PICK x \in Nat, y \in Nat : x = Len(kid[0]) /\ y = Len(log) /\ 0 + x <= y
    BY <2>2
  <2>4. x <= y
    BY <2>3
  <2> QED
    BY <2>3, <2>4
<1>6. /\ Wholes[0] = [items |-> stack[1].items, at |-> stack[1].block, inside |-> <<>>]
      /\ n = Len(stack[1].items) /\ stack[1].items \in Seq(Objects)
      /\ stack[1].block = Base + TransferSize
  <2>1. Wholes[0] = [items |-> stack[1].items, at |-> stack[1].block, inside |-> <<>>]
    BY <1>4 DEF Wholes, Branches
  <2>2. Len(kid[0]) = Len(Wholes[0].items)
    BY <1>4 DEF Decodes, Rooted
  <2> QED
    BY <1>5, <2>1, <2>2 DEF WalkKept, RootSays
<1>7. Level(Len(<<>>)) = MaxDepth
  <2>1. PICK max \in Nat : max = MaxDepth
    BY TransferAssumption
  <2>2. max + 1 - 1 - 0 = max /\ Len(<<>>) = 0
    OBVIOUS
  <2> QED
    BY <1>2, <2>1, <2>2 DEF Level
<1>8. PICK at \in Nat : at = Base + TransferSize
  BY RegionFacts DEF TransferSize
<1> DEFINE nodes == [j \in 1 .. n |-> Meant[kid[0][j]]]
<1>9. PICK retained \in Seq(Objects) : \E last :
        DecodeItems(at, n, m, f[MaxDepth]) =
          [ok |-> TRUE, nodes |-> nodes, left |-> last, retained |-> retained]
  <2>1. KidsAreRead(f, kid, ends, m, 0)
    BY <1>3, OutermostAreRead
  <2>2. ReadSoFar(kid, ends, m, 0, Len(kid[0]),
          DecodeItems(Wholes[0].at, Len(kid[0]), m - 0, f[Level(Len(Wholes[0].inside))]))
    BY <1>3, <1>4, <2>1, BranchIsRead
  <2>3. m - 0 = m
    OBVIOUS
  <2>4. ReadSoFar(kid, ends, m, 0, n, DecodeItems(at, n, m, f[MaxDepth]))
    BY <1>5, <1>6, <1>7, <1>8, <2>2, <2>3
  <2> QED
    BY <2>4 DEF ReadSoFar
<1> PICK last :
      DecodeItems(at, n, m, f[MaxDepth]) =
        [ok |-> TRUE, nodes |-> nodes, left |-> last, retained |-> retained]
  BY <1>9
<1> HIDE DEF nodes
<1>10. /\ At(region, Base) = KindTuple /\ At(region, Base + Word) = n
       /\ At(region, Base + 2 * Word) = at
  <2>1. /\ Says(Base \div Word, KindTuple) /\ Says(Base \div Word + 1, n)
        /\ Says(Base \div Word + 2, at)
    BY <1>6, <1>8 DEF WalkKept, RootSays
  <2>2. PICK a \in Nat : a = Base /\ a % Word = 0
    BY TransferAssumption
  <2>3. /\ (a + 1 * Word) \div Word = a \div Word + 1
        /\ (a + 2 * Word) \div Word = a \div Word + 2
    BY <2>2, WordAt
  <2>4. a + 1 * Word = a + Word
    BY DEF Word
  <2> QED
    BY <2>1, <2>2, <2>3, <2>4 DEF Says, At
<1>11. n # 0 => at # 0 /\ InSpan(Base, arena.offset, at, n * ValueSize)
  <2>1. Base \in Nat /\ arena.offset \in Nat
    BY RegionFacts DEF IInv, Typed
  <2>2. Behind(arena.offset, all)
    BY <1>2, <1>5, RecordsFit
  <2>3. at # 0 /\ InSpan(Base, arena.offset, at, n * ValueSize)
    BY <1>5, <1>8, <2>1, <2>2, SpanFits
  <2> QED
    BY <2>3
<1>12. n <= m
  <2>1. all <= m
    BY <1>3, <1>5, RecordsFit
  <2> QED
    BY <1>5, <2>1
<1>13. KindTuple \in {KindTuple, KindList, KindDict} /\ n = (IF KindTuple = KindDict THEN 2 * n ELSE n)
  BY DEF KindTuple, KindDict
<1>14. DecodeAt(Given, Base, limit, f[MaxDepth]) = Gives(Node(KindTuple, 0, 0, 0, nodes), last, retained)
  <2>1. DecodeItems(at, n, limit - 1, f[MaxDepth]) =
          [ok |-> TRUE, nodes |-> nodes, left |-> last, retained |-> retained]
    BY <1>3
  <2>2. n <= limit - 1
    BY <1>3, <1>12
  <2> QED
    BY <1>10, <1>11, <1>13, <2>1, <2>2, BaseFits, ContainerIsRead
<1>15. nodes = [j \in DOMAIN stack[1].items |-> Meant[kid[0][j]]]
  <2>1. DOMAIN stack[1].items = 1 .. n
    BY <1>6
  <2> QED
    BY <2>1 DEF nodes
<1>16. f[MaxDepth + 1][<<Base, RecordLimit(arena.offset)>>] =
         Gives(Node(KindTuple, 0, 0, 0, nodes), last, retained)
  BY <1>1, <1>14, BaseIsRead DEF Decodes
<1> QED
  BY <1>15, <1>16 DEF Begins

\* One object.
LEMMA ResultIsRead ==
  ASSUME IInv, phase = "written", WalkKept, committed = Len(pending), stack # <<>>,
         purpose # "arguments", stack[1].items # <<>>,
         NEW f, NEW kid, NEW ends,
         Decodes(f, kid, ends, RecordLimit(arena.offset) - Nested)
  PROVE  Begins(f, Meant[kid[0][1]])
<1>1. PICK m : m = RecordLimit(arena.offset) - Nested
  OBVIOUS
<1>2. Nested = 0
  BY DEF Nested
<1>3. 0 \in 0 .. Len(log) /\ Logged
  BY DEF WalkKept, Logged
<1>4. /\ Wholes[0] = [items |-> stack[1].items, at |-> stack[1].block, inside |-> <<>>]
      /\ stack[1].items \in Seq(Objects) /\ stack[1].block = Base
  <2>1. Wholes[0] = [items |-> stack[1].items, at |-> stack[1].block, inside |-> <<>>]
    BY <1>3 DEF Wholes, Branches
  <2> QED
    BY <2>1 DEF WalkKept, RootSays
<1>5. 1 \in 1 .. Len(kid[0])
  <2>1. Len(kid[0]) = Len(stack[1].items)
    BY <1>3, <1>4 DEF Decodes, Rooted
  <2>2. Len(stack[1].items) \in Nat \ {0}
    BY <1>4
  <2>3. 1 \in 1 .. Len(stack[1].items)
    BY <2>2
  <2> QED
    BY <2>1, <2>3
<1>6. KidSound(Wholes, log, kid, ends, 0, 1)
  BY <1>3, <1>5 DEF Decodes, Rooted
<1>7. /\ kid[0][1] = 1 /\ log[1].path = <<>> /\ log[1].at = Base
  <2>1. Base + (1 - 1) * ValueSize = Base
    BY RegionFacts DEF ValueSize
  <2>2. 0 + 1 = 1
    OBVIOUS
  <2> QED
    BY <1>4, <1>6, <2>1, <2>2 DEF KidSound
<1>8. IsRead(f, ends, m, 1)
  BY <1>1, <1>5, <1>7, OutermostAreRead DEF KidsAreRead
<1>9. Level(Len(log[1].path)) = MaxDepth + 1
  <2>1. PICK max \in Nat : max = MaxDepth
    BY TransferAssumption
  <2>2. max + 1 - 0 - 0 = max + 1 /\ Len(<<>>) = 0
    OBVIOUS
  <2> QED
    BY <1>2, <1>7, <2>1, <2>2 DEF Level
<1>10. m - (1 - 1) = RecordLimit(arena.offset)
  <2>1. PICK size \in Nat : size = arena.offset
    BY DEF IInv, Typed
  <2>2. PICK limit \in Int : limit = size \div 12
    OBVIOUS
  <2>3. limit - 0 - (1 - 1) = limit
    OBVIOUS
  <2> QED
    BY <1>1, <1>2, <2>1, <2>2, <2>3 DEF RecordLimit, ValueSize
<1>11. PICK retained \in Seq(Objects) :
         f[MaxDepth + 1][<<Base, RecordLimit(arena.offset)>>] =
           Gives(Meant[1], m - (ends[1] - 1), retained)
  BY <1>7, <1>8, <1>9, <1>10 DEF IsRead
<1> QED
  BY <1>7, <1>11 DEF Begins

\* What was asked for is what is read.
LEMMA AskedIsRead ==
  ASSUME IInv, HeaderFits, phase = "written", WalkKept, WalkIsOver, committed = Len(pending),
         stack # <<>>
  PROVE  Comes(Asked)
<1>1. PICK f : Reads(Given, MaxDepth + 1, f)
  <2>1. MaxDepth + 1 \in Nat
    BY TransferAssumption
  <2> QED
    BY <2>1, DecoderReads, Zenon
<1>2. PICK kid, ends : Rooted(kid, ends)
  <2>1. stack \in Seq(Frames) /\ Logged /\ InTree
    BY DEF IInv, Typed, WalkKept
  <2> QED
    BY <2>1, WalkIsRooted
<1>3. Decodes(f, kid, ends, RecordLimit(arena.offset) - Nested)
  BY <1>1, <1>2, RecordsFit DEF Decodes
<1> DEFINE items == MeantItems(Meant, 1, stack[1].items, <<>>, stack[1].block)
<1>4. items = [j \in DOMAIN stack[1].items |-> Meant[kid[0][j]]]
  <2>1. 0 \in 0 .. Len(log) /\ Logged /\ Distinct /\ stack \in Seq(Frames) /\ 0 + 1 = 1
    BY DEF WalkKept, Logged, IInv, Typed
  <2>2. Wholes[0] = [items |-> stack[1].items, at |-> stack[1].block, inside |-> <<>>]
    BY <2>1 DEF Wholes, Branches
  <2>3. MeantItems(Meant, 0 + 1, Wholes[0].items, Wholes[0].inside, Wholes[0].at) =
          [j \in DOMAIN Wholes[0].items |-> Meant[kid[0][j]]]
    BY <1>2, <2>1, KidsAreMeant
  <2> QED
    BY <2>1, <2>2, <2>3
<1>5. Asked = IF purpose = "arguments" THEN Node(KindTuple, 0, 0, 0, items)
              ELSE IF items = <<>> THEN None ELSE items[1]
  BY DEF Asked
<1> HIDE DEF items
<1>6. stack[1].items \in Seq(Objects)
  BY DEF WalkKept, RootSays
<1>7. Begins(f, Asked)
  <2>1. CASE purpose = "arguments"
    BY <1>1, <1>3, <1>4, <1>5, <2>1, ArgumentsAreRead
  <2>2. CASE purpose # "arguments" /\ stack[1].items = <<>>
    <3>1. items = <<>>
      BY <1>4, <2>2
    <3>2. At(region, Base) = KindNone
      BY <2>2, BaseIsSaid DEF WalkKept, RootSays
    <3>3. Begins(f, None)
      BY <1>1, <3>2, NoneIsRead
    <3> QED
      BY <1>5, <2>2, <3>1, <3>3
  <2>3. CASE purpose # "arguments" /\ stack[1].items # <<>>
    <3>1. 1 \in DOMAIN stack[1].items
      BY <1>6, <2>3
    <3>2. items # <<>> /\ items[1] = Meant[kid[0][1]]
      <4>1. 1 \in DOMAIN items /\ items[1] = Meant[kid[0][1]]
        BY <1>4, <3>1
      <4> QED
        BY <4>1
    <3>3. Begins(f, Meant[kid[0][1]])
      BY <1>3, <2>3, ResultIsRead
    <3> QED
      BY <1>5, <2>3, <3>2, <3>3
  <2> QED
    BY <2>1, <2>2, <2>3
<1> QED
  BY <1>1, <1>7, BeginsComes

\* An exception is read as one.
LEMMA ExceptionIsRead ==
  ASSUME IInv, HeaderFits, phase = "written", ExceptionSays, ~arena.overflowed
  PROVE  \E node : Comes(node) /\ node.kind = KindException
<1>1. PICK f : Reads(Given, MaxDepth + 1, f)
  <2>1. MaxDepth + 1 \in Nat
    BY TransferAssumption
  <2> QED
    BY <2>1, DecoderReads, Zenon
<1>2. PICK limit \in Nat \ {0} : limit = RecordLimit(arena.offset)
  BY BaseFits
<1>3. limit # 0
  OBVIOUS
<1>4. /\ At(Given.mem, Base) = KindException /\ Base % Word = 0
      /\ InSpan(Given.base, Given.size, Base, ValueSize)
      /\ InSpan(Given.base, Given.size, At(Given.mem, Base + 2 * Word), At(Given.mem, Base + Word))
  BY BaseFits DEF Given, ExceptionSays
<1> DEFINE node == Node(KindException,
                        Text(Given.mem, At(Given.mem, Base + 2 * Word), At(Given.mem, Base + Word)),
                        At(Given.mem, Base + Word), 0, <<>>)
<1>5. DecodeAt(Given, Base, limit, f[MaxDepth]) = Gives(node, limit - 1, <<>>)
  <2> HIDE DEF Given
  <2> QED
    BY <1>3, <1>4
       DEF DecodeAt, KindInt, KindNone, KindStr, KindException, KindTuple, KindList, KindDict,
           KindObject
<1>6. node.kind = KindException
  BY DEF Node
<1> HIDE DEF node
<1>7. f[MaxDepth + 1][<<Base, limit>>] = Gives(node, limit - 1, <<>>)
  BY <1>1, <1>2, <1>5, BaseIsRead
<1>8. <<>> \in Seq(Objects)
  OBVIOUS
<1>9. Begins(f, node)
  BY <1>2, <1>7, <1>8 DEF Begins
<1> QED
  BY <1>1, <1>6, <1>9, BeginsComes

\* Whatever the host reads, it can read.
LEMMA WrittenComes ==
  ASSUME IInv, Carried, HeaderFits, phase = "written"
  PROVE  \/ Comes(Asked)
         \/ /\ purpose = "result"
            /\ ~arena.overflowed => \E node : Comes(node) /\ node.kind = KindException
<1>1. CASE stack # <<>>
  <2>1. WalkKept /\ WalkIsOver /\ committed = Len(pending)
    BY <1>1 DEF Carried, Alive
  <2> QED
    BY <1>1, <2>1, AskedIsRead
<1>2. CASE stack = <<>>
  <2>1. ExceptionSays
    BY <1>2 DEF Carried
  <2> QED
    BY <2>1, ExceptionIsRead DEF ExceptionSays
<1> QED
  BY <1>1, <1>2

LEMMA HeaderFitsStays ==
  ASSUME IInv, Carried, HeaderFits, [TransferNext]_transferVars, IInv', Carried'
  PROVE  HeaderFits'
<1> SUFFICES ASSUME phase' = "written"  PROVE arena'.offset >= TransferSize
  BY DEF HeaderFits
<1>1. CASE ReserveLedger
  <2>1. phase = "writing" /\ pending = <<>> /\ arena' = arena
    BY <1>1 DEF ReserveLedger, Walked
  <2> QED
    BY <2>1 DEF IInv, Phased, WritingSound
<1>2. CASE FinishCommit
  <2>1. CommittingSound /\ arena' = arena
    BY <1>2 DEF FinishCommit, IInv, Phased
  <2>2. PICK base \in Nat, at \in Nat, n \in Nat, size \in Nat :
          base = Base /\ at = ledger /\ n = Len(pending) /\ size = arena.offset
    <3>1. Base \in Nat /\ ledger \in Nat /\ Len(pending) \in Nat /\ arena.offset \in Nat
      BY RegionFacts DEF IInv, Typed
    <3> QED
      BY <3>1
  <2>3. at >= base + 20 /\ at + n * 4 <= base + size
    BY <2>1, <2>2 DEF CommittingSound, LedgerPlaced, TransferSize, EntrySize
  <2>4. size >= 20
    BY <2>2, <2>3
  <2> QED
    BY <2>1, <2>2, <2>4 DEF TransferSize
<1>3. CASE HandleRaise
  <2>1. stack' = <<>>
    BY <1>3 DEF HandleRaise, Ended
  <2>2. ExceptionSays'
    BY <2>1 DEF Carried
  <2> QED
    BY <2>2 DEF ExceptionSays
<1>4. CASE UNCHANGED transferVars
  <2>1. phase = "written" /\ arena' = arena
    BY <1>4 DEF transferVars
  <2> QED
    BY <2>1 DEF HeaderFits
<1>5. ReserveLedger \/ FinishCommit \/ HandleRaise \/ UNCHANGED transferVars
  <2>1. CASE Starting
    <3>1. phase' = "writing"
      BY <2>1 DEF Starting, StartResult, StartNone, StartArguments, Opens
    <3> QED
      BY <3>1
  <2>2. CASE Writing
    <3>1. ASSUME NEW o \in Objects,
                 WriteInt(o) \/ WriteStr(o) \/ WriteObject(o) \/ WriteAsHandle(o)
                   \/ WriteContainer(o)
          PROVE  FALSE
      BY <3>1 DEF WriteInt, WriteStr, WriteObject, WriteAsHandle, WriteContainer, WriteOpaque,
           Writes, Full, Walks
    <3>2. ~LeaveContainer /\ ~Raises /\ ~AddRef /\ ~RefuseRef
      BY DEF LeaveContainer, Raises, AddRef, RefuseRef
    <3> QED
      BY <2>2, <3>1, <3>2 DEF Writing
  <2>3. ~RaiseInCaller /\ ~Reading /\ ~RefuseArguments /\ ~CallGoesOn /\ ~Settle
    BY DEF RaiseInCaller, Reading, ReadResult, ReadArguments, RefuseArguments, CallGoesOn, Settle
  <2> QED
    BY <2>1, <2>2, <2>3 DEF TransferNext
<1> QED
  BY <1>1, <1>2, <1>3, <1>4, <1>5

-----------------------------------------------------------------------------
(* The decoder.                                                            *)

\* What was asked for stays what it was.
LEMMA AskedStays ==
  ASSUME log' = log, stack' = stack, purpose' = purpose
  PROVE  Asked' = Asked
<1>1. Meant' = Meant
  BY DEF Meant, MeantItems, Means, CrossedAsHandle, WalksOf, CrossedHandle, Lost
<1>2. \A i, items, path, block :
        MeantItems(Meant, i, items, path, block)' = MeantItems(Meant, i, items, path, block)
  BY <1>1 DEF MeantItems, WalksOf, Lost
<1> QED
  BY <1>1, <1>2 DEF Asked

LEMMA ComesFacts ==
  ASSUME NEW node, Comes(node)
  PROVE  Decoded.ok = TRUE /\ Decoded.node = node /\ Decoded.taken \in [Objects -> Nat]
<1>1. PICK retained \in Seq(Objects) :
        Decoded = [ok |-> TRUE, node |-> node, taken |-> Held(retained)]
  BY DEF Comes
<1>2. PICK n \in Nat : n = Len(retained) /\ DOMAIN retained = 1 .. n
  OBVIOUS
<1>3. Held(retained) \in [Objects -> Nat]
  BY <1>2, HeldType
<1> QED
  BY <1>1, <1>3

LEMMA TakenIs ==
  ASSUME handles \in [Objects -> Nat], NEW taken \in [Objects -> Nat]
  PROVE  Minus(Plus(handles, taken), handles) = taken
<1>1. \A o \in Objects : (handles[o] + taken[o]) - handles[o] = taken[o]
  OBVIOUS
<1>2. taken = [o \in Objects |-> taken[o]]
  OBVIOUS
<1> QED
  BY <1>1, <1>2 DEF Minus, Plus

LEMMA NothingTaken ==
  ASSUME handles \in [Objects -> Nat]
  PROVE  Minus(handles, handles) \in [Objects -> Nat]
<1>1. \A o \in Objects : handles[o] - handles[o] = 0
  OBVIOUS
<1> QED
  BY <1>1 DEF Minus

\* To decode is to read, and what is read is what was asked for.
LEMMA DecodeResultReads ==
  ASSUME IInv, Carried, HeaderFits, DecodeResult
  PROVE  /\ Reading
         /\ outcome'.kind = "value" => outcome'.node = Asked
         /\ outcome'.kind # "unreadable"
<1>1. PICK d : d = Decoded /\ ReadResult(d.ok, d.node, d.taken)
  BY DEF DecodeResult
<1>2. phase = "written" /\ purpose = "result" /\ handles \in [Objects -> Nat]
  BY <1>1 DEF ReadResult, IInv, Typed
<1>3. CASE Status(arena) = -2
  <2>1. outcome' = Outcome("full", None) /\ handles' = handles /\ counts' = counts
    BY <1>1, <1>3 DEF ReadResult
  <2>2. outcome'.kind = "full"
    BY <2>1 DEF Outcome
  <2> DEFINE taken == Minus(handles', handles)
  <2>3. taken \in [Objects -> Nat]
    BY <1>2, <2>1, NothingTaken
  <2>4. ReadResult(TRUE, outcome'.node, taken)
    BY <1>1, <1>3 DEF ReadResult
  <2>5. Reading
    BY <2>3, <2>4 DEF Reading
  <2> QED
    BY <2>2, <2>5
<1>4. CASE Status(arena) # -2
  <2>1. ~arena.overflowed
    BY <1>4 DEF Status
  <2>2. PICK node : Comes(node) /\ (node = Asked \/ node.kind = KindException)
    BY <1>2, <2>1, WrittenComes
  <2>3. d.ok = TRUE /\ d.node = node /\ d.taken \in [Objects -> Nat]
    BY <1>1, <2>2, ComesFacts
  <2>4. /\ outcome' = IF node.kind = KindException THEN Outcome("exception", node)
                      ELSE Outcome("value", node)
        /\ counts' = Exchanged(d.taken) /\ handles' = Plus(handles, d.taken)
    BY <1>1, <1>4, <2>3 DEF ReadResult
  <2>5. outcome'.node = node /\ (outcome'.kind = "value" => node.kind # KindException)
        /\ outcome'.kind # "unreadable"
    BY <2>4 DEF Outcome
  <2> DEFINE taken == Minus(handles', handles)
  <2>6. taken = d.taken
    BY <1>2, <2>3, <2>4, TakenIs
  <2>7. ReadResult(TRUE, outcome'.node, taken)
    <3> HIDE DEF taken
    <3> QED
      BY <1>1, <2>3, <2>5, <2>6
  <2>8. Reading
    BY <2>3, <2>6, <2>7 DEF Reading
  <2> QED
    BY <2>2, <2>5, <2>8
<1> QED
  BY <1>3, <1>4

LEMMA DecodeArgumentsReads ==
  ASSUME IInv, Carried, HeaderFits, DecodeArguments
  PROVE  /\ Reading
         /\ outcome'.node = Asked
         /\ outcome'.kind # "unreadable"
<1>1. PICK d : d = Decoded /\ ReadArguments(d.ok, d.node, d.taken)
  BY DEF DecodeArguments
<1>2. phase = "written" /\ purpose = "arguments" /\ handles \in [Objects -> Nat]
  BY <1>1 DEF ReadArguments, IInv, Typed
<1>3. Comes(Asked)
  BY <1>2, WrittenComes
<1>4. d.ok = TRUE /\ d.node = Asked /\ d.taken \in [Objects -> Nat]
  BY <1>1, <1>3, ComesFacts
<1>5. outcome' = Outcome("value", Asked) /\ handles' = Plus(handles, d.taken)
  BY <1>1, <1>4 DEF ReadArguments
<1>6. outcome'.node = Asked /\ outcome'.kind = "value"
  BY <1>5 DEF Outcome
<1> DEFINE taken == Minus(handles', handles)
<1>7. taken = d.taken
  BY <1>2, <1>4, <1>5, TakenIs
<1>8. ReadArguments(TRUE, outcome'.node, taken)
  <2> HIDE DEF taken
  <2> QED
    BY <1>1, <1>4, <1>6, <1>7
<1>9. Reading
  BY <1>4, <1>7, <1>8 DEF Reading
<1> QED
  BY <1>6, <1>9

LEMMA DecodingIsTransfer ==
  ASSUME IInv, Carried, HeaderFits, [DecodingNext]_transferVars
  PROVE  [TransferNext]_transferVars
BY DecodeResultReads, DecodeArgumentsReads DEF DecodingNext, TransferNext

LEMMA WholeStays ==
  ASSUME IInv, Carried, HeaderFits, [DecodingNext]_transferVars, ValueIsWhole
  PROVE  ValueIsWhole'
<1> SUFFICES ASSUME phase' \in {"read", "called"}, outcome'.kind = "value"
             PROVE  outcome'.node = Asked'
  BY DEF ValueIsWhole
<1>1. CASE DecodeResult \/ DecodeArguments
  <2>1. outcome'.node = Asked
    BY <1>1, DecodeResultReads, DecodeArgumentsReads
  <2>2. Asked' = Asked
    BY <1>1, AskedStays DEF DecodeResult, DecodeArguments, ReadResult, ReadArguments
  <2> QED
    BY <2>1, <2>2
<1>2. CASE UNCHANGED transferVars
  <2>1. /\ log' = log /\ stack' = stack /\ purpose' = purpose /\ phase' = phase
        /\ outcome' = outcome
    BY <1>2 DEF transferVars
  <2>2. Asked' = Asked
    BY <2>1, AskedStays
  <2> QED
    BY <2>1, <2>2 DEF ValueIsWhole
<1>3. CASE Starting \/ Writing \/ HandleRaise
  <2>1. ~Starting
    BY DEF Starting, StartResult, StartNone, StartArguments, Opens
  <2>2. ASSUME NEW o \in Objects,
               WriteInt(o) \/ WriteStr(o) \/ WriteObject(o) \/ WriteAsHandle(o)
                 \/ WriteContainer(o)
        PROVE  FALSE
    BY <2>2 DEF WriteInt, WriteStr, WriteObject, WriteAsHandle, WriteContainer, WriteOpaque,
         Writes, Full, Walks
  <2>3. /\ ~LeaveContainer /\ ~Raises /\ ~AddRef /\ ~RefuseRef /\ ~ReserveLedger
        /\ ~FinishCommit /\ ~HandleRaise
    BY DEF LeaveContainer, Raises, AddRef, RefuseRef, ReserveLedger, FinishCommit, HandleRaise
  <2> QED
    BY <1>3, <2>1, <2>2, <2>3 DEF Writing
<1>4. CASE RaiseInCaller
  BY <1>4 DEF RaiseInCaller, Outcome
<1>5. CASE RefuseArguments \/ CallGoesOn \/ Settle
  BY <1>5 DEF RefuseArguments, CallGoesOn, Settle
<1> QED
  BY <1>1, <1>2, <1>3, <1>4, <1>5 DEF DecodingNext

LEMMA ReadableStays ==
  ASSUME IInv, Carried, HeaderFits, [DecodingNext]_transferVars, WrittenIsReadable
  PROVE  WrittenIsReadable'
<1> SUFFICES outcome' # outcome => outcome'.kind # "unreadable"
  BY DEF WrittenIsReadable
<1>1. CASE DecodeResult \/ DecodeArguments
  BY <1>1, DecodeResultReads, DecodeArgumentsReads
<1>2. CASE RaiseInCaller \/ RefuseArguments \/ Settle
  BY <1>2 DEF RaiseInCaller, RefuseArguments, Settle, Outcome, NoOutcome
<1>3. CASE Starting
  BY <1>3 DEF Starting, StartResult, StartNone, StartArguments, Opens
<1>4. CASE Writing
  <2>1. ASSUME NEW o \in Objects,
               WriteInt(o) \/ WriteStr(o) \/ WriteObject(o) \/ WriteAsHandle(o)
                 \/ WriteContainer(o)
        PROVE  outcome' = outcome
    BY <2>1 DEF WriteInt, WriteStr, WriteObject, WriteAsHandle, WriteContainer, outside
  <2>2. \/ LeaveContainer \/ Raises \/ AddRef \/ RefuseRef \/ ReserveLedger \/ FinishCommit
        => outcome' = outcome
    BY DEF LeaveContainer, Raises, AddRef, RefuseRef, ReserveLedger, FinishCommit, outside
  <2> QED
    BY <1>4, <2>1, <2>2 DEF Writing
<1>5. CASE HandleRaise \/ CallGoesOn \/ UNCHANGED transferVars
  BY <1>5 DEF HandleRaise, CallGoesOn, transferVars
<1> QED
  BY <1>1, <1>2, <1>3, <1>4, <1>5 DEF DecodingNext

-----------------------------------------------------------------------------
(* The theorems about what the host makes of a transfer.                   *)

DecodingInv ==
  IInv /\ Apart /\ Carried /\ HeaderFits /\ ValueIsWhole /\ WrittenIsReadable

LEMMA InitDecodingInv == TransferInit => DecodingInv
<1>1. TransferInit => HeaderFits /\ ValueIsWhole /\ WrittenIsReadable
  BY DEF TransferInit, HeaderFits, ValueIsWhole, WrittenIsReadable, NoOutcome
<1> QED
  BY <1>1, InitIInv, InitApart, InitCarried DEF DecodingInv

LEMMA StepDecodingInv ==
  ASSUME DecodingInv, [DecodingNext]_transferVars
  PROVE  DecodingInv' /\ [TransferNext]_transferVars
<1>1. [TransferNext]_transferVars
  BY DecodingIsTransfer DEF DecodingInv
<1>2. IInv' /\ Apart' /\ Carried'
  BY <1>1, StepIInv, StepApart, StepCarried DEF DecodingInv
<1>3. HeaderFits'
  BY <1>1, <1>2, HeaderFitsStays DEF DecodingInv
<1>4. ValueIsWhole' /\ WrittenIsReadable'
  BY WholeStays, ReadableStays DEF DecodingInv
<1> QED
  BY <1>1, <1>2, <1>3, <1>4 DEF DecodingInv

\* With the decoder, a transfer is one in the sense of the theorems above: what it takes is
\* what it makes handles of (decode.go, retain).
THEOREM DecodingIsATransfer == DecodingSpec => TransferSpec
BY InitDecodingInv, StepDecodingInv, PTL DEF DecodingSpec, TransferSpec

\* What the host is given is what the guest had: each container as it was at one moment,
\* each handle for the object it stands for, to the last level, and for regions, texts and
\* depths of any size (encode.c, decode.go).
THEOREM DecodingValueIsWhole == DecodingSpec => []ValueIsWhole
<1>1. DecodingInv => ValueIsWhole
  BY DEF DecodingInv
<1> QED
  BY <1>1, InitDecodingInv, StepDecodingInv, PTL DEF DecodingSpec

\* What the guest says it has written the host can read: no check of the decoder fails on
\* a region that the encoder filled (decode.go, arena.go).
THEOREM DecodingWrittenIsReadable == DecodingSpec => []WrittenIsReadable
<1>1. DecodingInv => WrittenIsReadable
  BY DEF DecodingInv
<1> QED
  BY <1>1, InitDecodingInv, StepDecodingInv, PTL DEF DecodingSpec
=============================================================================
