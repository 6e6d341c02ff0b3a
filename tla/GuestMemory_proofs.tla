------------------------- MODULE GuestMemory_proofs -------------------------
(***************************************************************************)
(* That what an operation is given is its own, and that nothing of it      *)
(* stays (memory.go, arena.go), for any sizes, alignment and bounds.       *)
(*                                                                         *)
(* What an operation spills it takes from an allocator whose state a       *)
(* rewind puts back, so the invariant has to say of every block in the     *)
(* memory whose it is (Blocks), and of the image that it is such a memory  *)
(* between two operations (RewoundTo).                                     *)
(***************************************************************************)
EXTENDS GuestMemory, FiniteSetTheorems, WellFoundedInduction, TLAPS

\* A heap that the allocator can work on.
Sound(m) ==
  /\ m \in Memories
  /\ \A p \in m.heap : 0 < p /\ p < m.pages
  /\ \A b \in m.blocks : b[1] > 0 /\ b[2] > 0 /\ b[1] % Align = 0
  /\ \A b, c \in m.blocks : b # c => Span(b) \cap Span(c) = {}

\* What the interpreter has for itself: Python's heap, at h, and the arena.
Own(h, base) == {<<h, HeapSize>>, <<base, ArenaSize>>}

RewoundTo(m, a) ==
  /\ Sound(m) /\ a \in Arenas
  /\ \E h \in Nat : h # a.base /\ m.blocks = Own(h, a.base)

\* Every block is the interpreter's own or a spill of the operation, and not both.
OwnBlocks(h) ==
  /\ h # arena.base
  /\ Own(h, arena.base) \subseteq mem.blocks
  /\ \A b \in mem.blocks \ Own(h, arena.base) : b[1] \in ptrs
  /\ h \notin ptrs /\ arena.base \notin ptrs

Blocks == Usable => Sound(mem) /\ \E h \in Nat : OwnBlocks(h)

\* A region is a part of the arena below where it is now, or a spill.
Bumped(r) == arena.base <= r[1] /\ r[1] + r[2] <= arena.base + arena.next
Spilled(r) == r \in mem.blocks /\ r[1] \in ptrs

Regions ==
  status = "running" =>
    /\ \A r \in regions : (Bumped(r) \/ Spilled(r)) /\ r[1] % Align = 0
    /\ \A r, q \in regions : r # q => Span(r) \cap Span(q) = {}

Idle == status = "idle" => ptrs = {} /\ regions = {}

Imaged == image = NoImage \/ RewoundTo(image.mem, image.arena)

IInv == TypeOK /\ Blocks /\ Regions /\ Idle /\ Imaged

-----------------------------------------------------------------------------
(* Arithmetic.                                                             *)

LEMMA DivisionFacts ==
  ASSUME NEW n \in Int, NEW d \in Nat \ {0}
  PROVE  /\ n \div d \in Int /\ n % d \in 0 .. d - 1
         /\ n = d * (n \div d) + (n % d)
  OBVIOUS

LEMMA MultiplesAreAligned ==
  ASSUME NEW q \in Int, NEW d \in Nat \ {0}
  PROVE  (q * d) % d = 0
  OBVIOUS

LEMMA SumsAreAligned ==
  ASSUME NEW d \in Nat \ {0}, NEW b \in Nat, b % d = 0, NEW q \in Int
  PROVE  (b + q * d) % d = 0
<1>1. b = d * (b \div d) /\ b \div d \in Int
  BY DivisionFacts
<1>2. b + q * d = ((b \div d) + q) * d /\ (b \div d) + q \in Int
  BY <1>1
<1> QED BY <1>2, MultiplesAreAligned

\* Rounding up to a multiple.
LEMMA RoundedUp ==
  ASSUME NEW n \in Nat, NEW d \in Nat \ {0}
  PROVE  /\ (n + d - 1) \div d \in Nat
         /\ ((n + d - 1) \div d) * d \in Nat
         /\ ((n + d - 1) \div d) * d >= n
  OBVIOUS

LEMMA AlignedFacts ==
  ASSUME NEW n \in Nat, NEW b \in Nat, b % Align = 0
  PROVE  Aligned(n) \in Nat /\ Aligned(n) >= n /\ (b + Aligned(n)) % Align = 0
<1>1. Align \in Nat \ {0}
  BY MemoryAssumption
<1>2. (n + Align - 1) \div Align \in Nat /\ Aligned(n) \in Nat /\ Aligned(n) >= n
  BY <1>1, RoundedUp DEF Aligned
<1>3. PICK q \in Nat : Aligned(n) = q * Align
  BY <1>2 DEF Aligned
<1>4. (b + q * Align) % Align = 0
  <2>1. q \in Int
    OBVIOUS
  <2> QED BY <1>1, <2>1, SumsAreAligned, Zenon
<1> QED BY <1>2, <1>3, <1>4

LEMMA MaxOfTwo ==
  ASSUME NEW x \in Nat, NEW y \in Nat
  PROVE  Max({x, y}) = IF x >= y THEN x ELSE y
<1>1. PICK z \in {x, y} : \A v \in {x, y} : z >= v
  OBVIOUS
<1> QED BY <1>1 DEF Max

\* What Min finds: the set of those below an element has a least one, with respect
\* to inclusion, among all such sets.
LEMMA LeastNatural ==
  ASSUME NEW S \in SUBSET Nat, S # {}
  PROVE  Min(S) \in S /\ \A y \in S : Min(S) <= y
<1> DEFINE Under(x) == {y \in S : y < x}
           T == {Under(x) : x \in S}
<1>1. T \subseteq FiniteSubsetsOf(Nat) /\ T # {}
  <2>1. ASSUME NEW x \in S PROVE IsFiniteSet(Under(x)) /\ Under(x) \in SUBSET Nat
    <3>1. \A y \in Under(x) : y <= x
      OBVIOUS
    <3>2. Under(x) \in SUBSET Nat /\ x \in Nat
      OBVIOUS
    <3> HIDE DEF Under
    <3> QED BY <3>1, <3>2, FS_BoundedSetOfNaturals
  <2> HIDE DEF Under
  <2> QED BY <2>1 DEF FiniteSubsetsOf
<1>2. PICK t \in T : \A u \in T : <<u, t>> \notin StrictSubsetOrdering(Nat)
  <2>1. IsWellFoundedOn(StrictSubsetOrdering(Nat), FiniteSubsetsOf(Nat))
    BY FS_StrictSubsetOrderingWellFounded
  <2> HIDE DEF T
  <2> QED BY <1>1, <2>1, WFMin
<1>3. PICK x \in S : t = Under(x)
  BY <1>2
<1>4. ASSUME NEW y \in S, y < x PROVE FALSE
  <2>1. x \in Nat /\ y \in Nat /\ \A z \in S : z \in Nat
    OBVIOUS
  <2>2. \A z \in Under(y) : z \in S /\ z \in Nat /\ z < y
    BY <2>1
  <2>3. \A z \in Under(y) : z \in S /\ z < x
    BY <1>4, <2>1, <2>2
  <2>4. y \in Under(x) /\ y \notin Under(y)
    BY <1>4, <2>1
  <2>5. Under(y) \subseteq Under(x)
    BY <2>3
  <2>6. Under(y) \in T /\ Under(x) \in SUBSET Nat /\ Under(y) \in SUBSET Nat
    OBVIOUS
  <2>7. <<Under(y), Under(x)>> \notin StrictSubsetOrdering(Nat)
    BY <1>2, <1>3, <2>6
  <2> HIDE DEF T, Under
  <2> QED BY <2>4, <2>5, <2>6, <2>7 DEF StrictSubsetOrdering
<1>5. \A y \in S : x <= y
  BY <1>4
<1> HIDE DEF T, Under
<1> QED BY <1>5 DEF Min

-----------------------------------------------------------------------------
(* The allocator.                                                          *)

\* A block is not empty, so no two of them begin at the same place.
LEMMA BlocksBeginApart ==
  ASSUME NEW m, Sound(m), NEW b \in m.blocks, NEW c \in m.blocks, b[1] = c[1]
  PROVE  b = c
<1>1. b \in Nat \X Nat /\ c \in Nat \X Nat /\ b[2] > 0 /\ c[2] > 0
  BY DEF Sound, Memories
<1>2. b[1] \in Span(b) /\ b[1] \in Span(c)
  BY <1>1 DEF Span
<1> QED BY <1>2 DEF Sound

LEMMA RoomFacts ==
  ASSUME NEW m, Sound(m), NEW n \in Nat
  PROVE  /\ Room(m, n) \in SUBSET Nat
         /\ \A p \in Room(m, n) :
              p > 0 /\ p % Align = 0 /\ \A b \in m.blocks : Span(<<p, n>>) \cap Span(b) = {}
<1>1. PageSize \in Nat \ {0}
  BY MemoryAssumption
<1>2. ASSUME NEW q \in m.heap, NEW o \in 0 .. PageSize - 1
      PROVE  q * PageSize + o \in Nat /\ q * PageSize + o > 0
  <2>1. q \in Nat /\ q > 0
    BY DEF Sound, Memories
  <2>2. q * PageSize \in Nat /\ q * PageSize > 0
    BY <1>1, <2>1
  <2> QED BY <1>1, <2>2
<1>3. ASSUME NEW p \in Room(m, n)
      PROVE  /\ p \in Nat /\ p > 0 /\ p % Align = 0
             /\ Span(<<p, n>>) \cap Taken(m) = {}
  BY <1>2, <1>3 DEF Room
<1>4. \A b \in m.blocks : Span(b) \subseteq Taken(m)
  BY DEF Taken
<1> QED BY <1>3, <1>4

LEMMA GrowFacts ==
  ASSUME NEW m, Sound(m), NEW n \in Nat
  PROVE  Sound(Grow(m, n)) /\ Grow(m, n).blocks = m.blocks
<1> DEFINE delta == (n + PageSize - 1) \div PageSize
           g == [m EXCEPT !.pages = m.pages + delta,
                          !.heap = m.heap \cup (m.pages .. m.pages + delta - 1)]
<1>1. delta \in Nat
  BY RoundedUp, MemoryAssumption
<1> HIDE DEF delta
<1>2. CASE m.pages + delta > MaxPages
  <2>1. Grow(m, n) = m
    BY <1>2 DEF Grow, delta
  <2> QED BY <2>1
<1>3. CASE ~(m.pages + delta > MaxPages)
  <2>1. Grow(m, n) = g
    BY <1>3 DEF Grow, delta
  <2>2. /\ m \in [pages : 1 .. MaxPages, heap : SUBSET (0 .. MaxPages - 1),
                  blocks : SUBSET (Nat \X Nat)]
        /\ m.pages \in 1 .. MaxPages /\ MaxPages \in Nat
    BY MemoryAssumption DEF Sound, Memories
  <2>3. /\ g.pages = m.pages + delta /\ g.blocks = m.blocks
        /\ g.heap = m.heap \cup (m.pages .. m.pages + delta - 1)
        /\ DOMAIN g = DOMAIN m
    BY <2>2
  <2>4. g.pages \in 1 .. MaxPages
    BY <1>1, <1>3, <2>2, <2>3
  <2>5. \A p \in g.heap : p \in 0 .. MaxPages - 1 /\ 0 < p /\ p < g.pages
    <3>1. \A p \in m.heap : p \in 0 .. MaxPages - 1 /\ 0 < p /\ p < m.pages
      BY DEF Sound, Memories
    <3>2. \A p \in m.pages .. m.pages + delta - 1 : p \in 0 .. MaxPages - 1 /\ 0 < p /\ p < g.pages
      BY <1>1, <1>3, <2>2, <2>3
    <3> QED BY <1>1, <2>2, <2>3, <3>1, <3>2
  <2>6. g \in Memories
    BY <2>2, <2>3, <2>4, <2>5 DEF Memories
  <2> HIDE DEF g
  <2>7. Sound(g)
    BY <2>3, <2>5, <2>6 DEF Sound
  <2> QED BY <2>1, <2>3, <2>7
<1> QED BY <1>2, <1>3

\* What an allocation does to the blocks.
Adds(m, r, n) ==
  /\ Sound(r.mem) /\ r.ptr \in Nat
  /\ r.ptr = 0 => r.mem.blocks = m.blocks
  /\ r.ptr # 0 => /\ n > 0 /\ r.ptr % Align = 0
                  /\ r.mem.blocks = m.blocks \cup {<<r.ptr, n>>}
                  /\ \A b \in m.blocks : b[1] # r.ptr /\ Span(<<r.ptr, n>>) \cap Span(b) = {}

LEMMA AddedBlock ==
  ASSUME NEW m, Sound(m), NEW n \in Nat \ {0}, NEW p \in Room(m, n)
  PROVE  Adds(m, [mem |-> [m EXCEPT !.blocks = m.blocks \cup {<<p, n>>}], ptr |-> p], n)
<1> DEFINE g == [m EXCEPT !.blocks = m.blocks \cup {<<p, n>>}]
<1>1. /\ p \in Nat /\ p > 0 /\ p % Align = 0
      /\ \A b \in m.blocks : Span(<<p, n>>) \cap Span(b) = {}
  BY RoomFacts
<1>2. /\ m \in [pages : 1 .. MaxPages, heap : SUBSET (0 .. MaxPages - 1),
                blocks : SUBSET (Nat \X Nat)]
  BY DEF Sound, Memories
<1>3. g.pages = m.pages /\ g.heap = m.heap /\ g.blocks = m.blocks \cup {<<p, n>>}
  BY <1>2
<1>4. g \in Memories
  BY <1>1, <1>2, <1>3 DEF Memories
<1> HIDE DEF g
<1>5. Sound(g)
  BY <1>1, <1>3, <1>4 DEF Sound
<1>6. \A b \in m.blocks : b[1] # p
  <2>1. SUFFICES ASSUME NEW b \in m.blocks, b[1] = p PROVE FALSE
    OBVIOUS
  <2>2. b \in Nat \X Nat /\ b[2] > 0
    BY DEF Sound, Memories
  <2>3. p \in Span(b) /\ p \in Span(<<p, n>>)
    BY <1>1, <2>1, <2>2 DEF Span
  <2> QED BY <1>1, <2>3
<1> DEFINE r == [mem |-> g, ptr |-> p]
<1>7. r.mem = g /\ r.ptr = p
  OBVIOUS
<1> HIDE DEF r
<1>8. Adds(m, r, n)
  BY <1>1, <1>3, <1>5, <1>6, <1>7 DEF Adds
<1> QED BY <1>8 DEF r, g

LEMMA MallocFacts ==
  ASSUME NEW m, Sound(m), NEW n \in Nat \ {0}
  PROVE  Adds(m, Malloc(m, n), n)
<1> DEFINE g == IF Room(m, n) # {} THEN m ELSE Grow(m, n)
<1>1. Sound(g) /\ g.blocks = m.blocks
  BY GrowFacts
<1> HIDE DEF g
<1>2. CASE Room(g, n) = {}
  <2>1. Malloc(m, n) = [mem |-> g, ptr |-> 0]
    BY <1>2 DEF Malloc, g
  <2> QED BY <1>1, <2>1 DEF Adds
<1>3. CASE Room(g, n) # {}
  <2> DEFINE p == Min(Room(g, n))
             r == [mem |-> [g EXCEPT !.blocks = g.blocks \cup {<<p, n>>}], ptr |-> p]
  <2>1. p \in Room(g, n)
    BY <1>1, <1>3, RoomFacts, LeastNatural
  <2>2. Malloc(m, n) = r
    BY <1>3 DEF Malloc, g
  <2>3. Adds(g, r, n)
    BY <1>1, <2>1, AddedBlock
  <2> HIDE DEF r
  <2> QED BY <1>1, <2>2, <2>3 DEF Adds
<1> QED BY <1>2, <1>3

\* Giving blocks back.
LEMMA FreeAllFacts ==
  ASSUME NEW m, Sound(m), NEW ps
  PROVE  /\ Sound(FreeAll(m, ps))
         /\ FreeAll(m, ps).blocks = {b \in m.blocks : b[1] \notin ps}
<1> DEFINE g == [m EXCEPT !.blocks = {b \in m.blocks : b[1] \notin ps}]
<1>1. FreeAll(m, ps) = g
  BY DEF FreeAll
<1>2. /\ m \in [pages : 1 .. MaxPages, heap : SUBSET (0 .. MaxPages - 1),
                blocks : SUBSET (Nat \X Nat)]
  BY DEF Sound, Memories
<1>3. g.pages = m.pages /\ g.heap = m.heap /\ g.blocks = {b \in m.blocks : b[1] \notin ps}
  BY <1>2
<1>4. g \in Memories
  BY <1>2, <1>3 DEF Memories
<1> HIDE DEF g
<1>5. Sound(g)
  BY <1>3, <1>4 DEF Sound
<1> QED BY <1>1, <1>3, <1>5

\* A block that the host cannot see goes back, and only that.
LEMMA AllocFacts ==
  ASSUME NEW m, Sound(m), NEW n \in Nat
  PROVE  Adds(m, Alloc(m, n), n)
<1> DEFINE r == Malloc(m, n)
<1>1. CASE n = 0
  BY <1>1 DEF Alloc, Adds
<1>2. CASE n # 0 /\ r.ptr # 0 /\ ~Viewable(r.mem, r.ptr, n)
  <2>1. Alloc(m, n) = [mem |-> FreeAll(r.mem, {r.ptr}), ptr |-> 0]
    BY <1>2 DEF Alloc
  <2>2. Adds(m, r, n)
    BY <1>2, MallocFacts
  <2> HIDE DEF r
  <2>3. /\ Sound(FreeAll(r.mem, {r.ptr}))
        /\ FreeAll(r.mem, {r.ptr}).blocks = {b \in r.mem.blocks : b[1] \notin {r.ptr}}
    BY <2>2, FreeAllFacts DEF Adds
  <2>4. {b \in r.mem.blocks : b[1] \notin {r.ptr}} = m.blocks
    BY <1>2, <2>2 DEF Adds
  <2>5. /\ Alloc(m, n).mem = FreeAll(r.mem, {r.ptr})
        /\ Alloc(m, n).ptr = 0
    BY <2>1
  <2>6. /\ Sound(Alloc(m, n).mem)
        /\ Alloc(m, n).mem.blocks = m.blocks
    BY <2>3, <2>4, <2>5
  <2> QED BY <2>5, <2>6 DEF Adds
<1>3. CASE n # 0 /\ ~(r.ptr # 0 /\ ~Viewable(r.mem, r.ptr, n))
  <2>1. Alloc(m, n) = r
    BY <1>3 DEF Alloc
  <2>2. Adds(m, r, n)
    BY <1>3, MallocFacts
  <2> QED BY <2>1, <2>2
<1> QED BY <1>1, <1>2, <1>3

\* Load: the heap is the image's, in a memory that is at least as large.
LEMMA LoadFacts ==
  ASSUME NEW m \in Memories, NEW saved, Sound(saved)
  PROVE  Sound(Load(m, saved)) /\ Load(m, saved).blocks = saved.blocks
<1> DEFINE pages == Max({m.pages, saved.pages})
           g == [saved EXCEPT !.pages = pages]
<1>1. Load(m, saved) = g
  BY DEF Load
<1>2. /\ m.pages \in 1 .. MaxPages /\ MaxPages \in Nat
      /\ saved \in [pages : 1 .. MaxPages, heap : SUBSET (0 .. MaxPages - 1),
                    blocks : SUBSET (Nat \X Nat)]
  BY MemoryAssumption DEF Sound, Memories
<1>3. pages \in 1 .. MaxPages /\ pages >= saved.pages
  BY <1>2, MaxOfTwo
<1> HIDE DEF pages
<1>4. g.pages = pages /\ g.heap = saved.heap /\ g.blocks = saved.blocks
  BY <1>2
<1>5. g \in Memories
  BY <1>2, <1>3 DEF Memories
<1> HIDE DEF g
<1>6. \A p \in saved.heap : p \in Nat /\ 0 < p /\ p < saved.pages
  BY DEF Sound, Memories
<1>7. \A p \in g.heap : 0 < p /\ p < g.pages
  BY <1>2, <1>3, <1>4, <1>6
<1>8. Sound(g)
  BY <1>4, <1>5, <1>7 DEF Sound
<1> QED BY <1>1, <1>4, <1>8

LEMMA FreshIsSound == Sound(Fresh) /\ Fresh.blocks = {} /\ Fresh \in Memories
<1>1. Fresh \in Memories
  BY MemoryAssumption DEF Fresh, Memories
<1> QED BY <1>1, MemoryAssumption DEF Fresh, Sound

-----------------------------------------------------------------------------
(* The steps.                                                              *)

LEMMA IInvInit == Init => IInv
<1> SUFFICES ASSUME Init PROVE IInv
  OBVIOUS
<1>1. ArenaSize \in Nat
  BY MemoryAssumption
<1>2. TypeOK
  BY <1>1, FreshIsSound DEF Init, TypeOK, Arenas
<1> QED BY <1>2 DEF Init, IInv, Blocks, Usable, Regions, Idle, Imaged

\* The interpreter is what it is between two operations.
LEMMA RewoundStep ==
  ASSUME IInv, RewoundTo(mem', arena'), status' = "idle", ptrs' = {}, regions' = {},
         mark' \in 0 .. ArenaSize, UNCHANGED image
  PROVE  IInv'
<1>1. PICK h \in Nat : h # arena'.base /\ mem'.blocks = Own(h, arena'.base)
  BY DEF RewoundTo
<1>2. TypeOK'
  BY DEF IInv, TypeOK, RewoundTo, Sound
<1>3. OwnBlocks(h)'
  BY <1>1 DEF OwnBlocks, Own
<1>4. Sound(mem')
  BY DEF RewoundTo
<1>5. Blocks'
  BY <1>3, <1>4 DEF Blocks, Sound, Span, Memories
<1> QED BY <1>2, <1>5 DEF IInv, Regions, Idle, Imaged, RewoundTo, Sound, Span, Memories, Arenas, Own

LEMMA NewModuleStep == IInv /\ NewModule => IInv'
<1> SUFFICES ASSUME IInv, NewModule PROVE IInv'
  OBVIOUS
<1> DEFINE heap == Malloc(Fresh, HeapSize)
           span == Alloc(heap.mem, ArenaSize)
<1>1. /\ heap.ptr # 0 /\ span.ptr # 0
      /\ mem' = span.mem /\ arena' = [base |-> span.ptr, next |-> 0]
      /\ ptrs' = {} /\ regions' = {} /\ status' = "idle" /\ mark' = mark /\ image' = image
  BY DEF NewModule
<1>2. HeapSize \in Nat \ {0} /\ ArenaSize \in Nat \ {0}
  BY MemoryAssumption
<1>3. Adds(Fresh, heap, HeapSize)
  BY <1>2, FreshIsSound, MallocFacts
<1> HIDE DEF heap
<1>4. Sound(heap.mem) /\ heap.ptr \in Nat /\ heap.mem.blocks = {<<heap.ptr, HeapSize>>}
  BY <1>1, <1>3, FreshIsSound DEF Adds
<1>5. Adds(heap.mem, span, ArenaSize)
  BY <1>2, <1>4, AllocFacts
<1> HIDE DEF span
<1>6. /\ Sound(span.mem) /\ span.ptr \in Nat /\ heap.ptr # span.ptr
      /\ span.mem.blocks = Own(heap.ptr, span.ptr)
  BY <1>1, <1>4, <1>5 DEF Adds, Own
<1>7. arena' \in Arenas /\ arena'.base = span.ptr
  BY <1>1, <1>2, <1>6 DEF Arenas
<1>8. RewoundTo(mem', arena')
  BY <1>1, <1>4, <1>6, <1>7 DEF RewoundTo
<1>9. mark' \in 0 .. ArenaSize
  BY <1>1 DEF IInv, TypeOK
<1> QED BY <1>1, <1>8, <1>9, RewoundStep

LEMMA LoadStep ==
  ASSUME IInv, image # NoImage, NEW m \in Memories, mem' = Load(m, image.mem), LoadArena,
         status' = "idle", UNCHANGED <<mark, image>>
  PROVE  IInv'
<1>1. /\ RewoundTo(image.mem, image.arena) /\ mark' \in 0 .. ArenaSize
      /\ arena' = image.arena /\ ptrs' = {} /\ regions' = {} /\ image' = image
  BY DEF IInv, Imaged, TypeOK, LoadArena
<1>2. Sound(mem') /\ mem'.blocks = image.mem.blocks
  BY <1>1, LoadFacts DEF RewoundTo
<1>3. RewoundTo(mem', arena')
  BY <1>1, <1>2 DEF RewoundTo
<1> QED BY <1>1, <1>3, RewoundStep

\* Between two operations there is nothing but what the interpreter owns.
LEMMA IdleIsRewound ==
  ASSUME IInv, status = "idle"
  PROVE  RewoundTo(mem, arena)
<1>1. PICK h \in Nat : OwnBlocks(h)
  BY DEF IInv, Blocks, Usable
<1>2. mem.blocks = Own(h, arena.base)
  BY <1>1 DEF IInv, Idle, OwnBlocks
<1> QED BY <1>1, <1>2 DEF RewoundTo, IInv, TypeOK, Blocks, Usable, OwnBlocks

\* The arena goes back to the mark and the spills to the allocator.
LEMMA ResetRewinds ==
  ASSUME IInv, status = "running", Reset
  PROVE  RewoundTo(mem', arena')
<1>1. PICK h \in Nat : OwnBlocks(h)
  BY DEF IInv, Blocks, Usable
<1>2. Sound(mem)
  BY DEF IInv, Blocks, Usable
<1>3. Sound(mem') /\ mem'.blocks = {b \in mem.blocks : b[1] \notin ptrs}
  BY <1>2, FreeAllFacts DEF Reset
<1>4. arena' = [arena EXCEPT !.next = mark] /\ mark \in 0 .. ArenaSize /\ arena \in Arenas
  BY DEF Reset, IInv, TypeOK
<1>5. arena'.base = arena.base /\ arena' \in Arenas
  BY <1>4 DEF Arenas
<1>6. mem'.blocks = Own(h, arena.base)
  <2>1. \A b \in Own(h, arena.base) : b \in mem.blocks /\ b[1] \notin ptrs
    BY <1>1 DEF OwnBlocks, Own
  <2> QED BY <1>1, <1>3, <2>1 DEF OwnBlocks
<1> QED BY <1>1, <1>3, <1>5, <1>6 DEF RewoundTo, OwnBlocks

\* An operation begins.
LEMMA BeginsStep == IInv /\ Begins => IInv'
<1> SUFFICES ASSUME IInv, Begins PROVE IInv'
  OBVIOUS
<1>1. /\ status = "idle" /\ status' = "running" /\ mark' = arena.next
      /\ mem' = mem /\ arena' = arena /\ ptrs' = ptrs /\ regions' = regions /\ image' = image
      /\ regions = {}
  BY DEF Begins, IInv, Idle
<1>2. TypeOK'
  BY <1>1 DEF IInv, TypeOK, Arenas
<1>3. Blocks'
  BY <1>1 DEF IInv, Blocks, Usable, OwnBlocks, Sound
<1> QED BY <1>1, <1>2, <1>3 DEF IInv, Regions, Idle, Imaged

LEMMA ReturnsStep == IInv /\ Returns => IInv'
<1> SUFFICES ASSUME IInv, Returns PROVE IInv'
  OBVIOUS
<1>1. RewoundTo(mem', arena')
  BY ResetRewinds DEF Returns
<1>2. mark' \in 0 .. ArenaSize
  BY DEF Returns, IInv, TypeOK
<1> QED BY <1>1, <1>2, RewoundStep DEF Returns, Reset

\* An interpreter that cannot be used says nothing of its memory.
LEMMA UnusedStep ==
  ASSUME IInv, status' \in {"none", "trapped"}, mem' \in Memories, arena' \in Arenas,
         ptrs' \subseteq Nat, regions' \subseteq Nat \X Nat, UNCHANGED <<mark, image>>
  PROVE  IInv'
<1>1. TypeOK'
  BY DEF IInv, TypeOK
<1> QED BY <1>1 DEF IInv, Blocks, Usable, Regions, Idle, Imaged

LEMMA TrapsStep == IInv /\ Traps => IInv'
<1> SUFFICES ASSUME IInv, Traps PROVE IInv'
  OBVIOUS
<1>1. CASE Reset
  <2>1. RewoundTo(mem', arena')
    BY <1>1, ResetRewinds DEF Traps
  <2> QED BY <1>1, <2>1, UnusedStep DEF Traps, Reset, RewoundTo, Sound
<1>2. CASE UNCHANGED <<mem, arena, ptrs, regions>>
  BY <1>2, UnusedStep DEF Traps, IInv, TypeOK
<1> QED BY <1>1, <1>2 DEF Traps

LEMMA CloseStep == IInv /\ Close => IInv'
  BY UnusedStep DEF Close, IInv, TypeOK

LEMMA SnapshotStep == IInv /\ Snapshot => IInv'
<1> SUFFICES ASSUME IInv, Snapshot PROVE IInv'
  OBVIOUS
<1>1. /\ status = "idle" /\ image' = [mem |-> mem, arena |-> arena]
      /\ UNCHANGED <<status, mem, arena, mark, ptrs, regions>>
  BY DEF Snapshot
<1>2. RewoundTo(mem, arena)
  BY <1>1, IdleIsRewound
<1>3. image'.mem = mem /\ image'.arena = arena
  BY <1>1
<1>4. Imaged'
  BY <1>2, <1>3 DEF Imaged, RewoundTo, Sound
<1>5. TypeOK'
  BY <1>1 DEF IInv, TypeOK
<1> QED BY <1>1, <1>4, <1>5 DEF IInv, Blocks, Usable, OwnBlocks, Sound, Regions, Bumped, Spilled, Idle

-----------------------------------------------------------------------------
(* An allocation of the operation.                                         *)

\* The arena's own block.
LEMMA ArenaBlock ==
  ASSUME IInv, status = "running"
  PROVE  /\ <<arena.base, ArenaSize>> \in mem.blocks
         /\ arena.base \in Nat /\ arena.base % Align = 0 /\ arena.base \notin ptrs
         /\ arena.next \in Nat
<1>1. PICK h \in Nat : OwnBlocks(h)
  BY DEF IInv, Blocks, Usable
<1>2. <<arena.base, ArenaSize>> \in mem.blocks /\ arena.base \notin ptrs
  BY <1>1 DEF OwnBlocks, Own
<1>3. <<arena.base, ArenaSize>>[1] % Align = 0
  BY <1>2 DEF IInv, Blocks, Usable, Sound
<1> QED BY <1>2, <1>3 DEF IInv, TypeOK, Arenas

\* A part of the arena that ends by `end`, and a region above it or a spill.
LEMMA BumpedApart ==
  ASSUME IInv, status = "running",
         NEW r \in Nat \X Nat, NEW q \in Nat \X Nat,
         arena.base <= r[1], r[1] + r[2] <= arena.base + ArenaSize,
         (Bumped(q) /\ arena.base + arena.next <= r[1]) \/ Spilled(q)
  PROVE  Span(r) \cap Span(q) = {}
<1>1. CASE Bumped(q) /\ arena.base + arena.next <= r[1]
  BY <1>1, ArenaBlock DEF Bumped, Span
<1>2. CASE Spilled(q)
  <2>1. /\ q \in mem.blocks /\ q[1] \in ptrs
        /\ <<arena.base, ArenaSize>> \in mem.blocks /\ arena.base \notin ptrs
    BY <1>2, ArenaBlock DEF Spilled
  <2>2. q # <<arena.base, ArenaSize>>
    BY <2>1
  <2>3. Span(<<arena.base, ArenaSize>>) \cap Span(q) = {}
    BY <2>1, <2>2 DEF IInv, Blocks, Usable, Sound
  <2>4. Span(r) \subseteq Span(<<arena.base, ArenaSize>>)
    <3>1. \A x \in Span(r) : x \in Int /\ arena.base <= x /\ x <= arena.base + ArenaSize - 1
      BY ArenaBlock, MemoryAssumption DEF Span
    <3> QED BY <3>1, ArenaBlock, MemoryAssumption DEF Span
  <2> QED BY <2>3, <2>4
<1> QED BY <1>1, <1>2

LEMMA BumpNewStep ==
  ASSUME IInv, status = "running", NEW n \in Nat, BumpNew(n),
         UNCHANGED <<status, mark, image>>
  PROVE  IInv'
<1> DEFINE at == Aligned(arena.next)
<1>1. /\ FitsSpan(at, n) /\ arena' = [arena EXCEPT !.next = at + n]
      /\ regions' = regions \cup {<<arena.base + at, n>>} /\ mem' = mem /\ ptrs' = ptrs
  BY DEF BumpNew
<1>2. /\ at \in Nat /\ at >= arena.next /\ (arena.base + at) % Align = 0
  BY ArenaBlock, AlignedFacts
<1> HIDE DEF at
<1>3. /\ arena \in Arenas /\ arena.base \in Nat /\ arena.next \in Nat /\ ArenaSize \in Nat
      /\ at + n <= ArenaSize
  BY <1>1, <1>2, ArenaBlock, MemoryAssumption DEF FitsSpan, IInv, TypeOK
<1>4. arena'.base = arena.base /\ arena'.next = at + n /\ arena' \in Arenas
  BY <1>1, <1>2, <1>3 DEF Arenas
<1>5. PICK r \in Nat \X Nat :
        r[1] = arena.base + at /\ r[2] = n /\ regions' = regions \cup {r}
  <2>1. arena.base + at \in Nat
    BY <1>2, <1>3
  <2>2. <<arena.base + at, n>> \in Nat \X Nat
    BY <2>1
  <2> QED BY <1>1, <2>2
<1>6. TypeOK'
  BY <1>1, <1>4, <1>5 DEF IInv, TypeOK
<1>7. Blocks'
  BY <1>1, <1>4 DEF IInv, Blocks, Usable, OwnBlocks, Sound
<1>8. ASSUME NEW q \in regions
      PROVE  /\ (Bumped(q) \/ Spilled(q))' /\ q[1] % Align = 0
             /\ Span(r) \cap Span(q) = {}
  <2>1. q \in Nat \X Nat /\ (Bumped(q) \/ Spilled(q)) /\ q[1] % Align = 0
    BY DEF IInv, TypeOK, Regions
  <2>2. Bumped(q) => Bumped(q)'
    BY <1>2, <1>3, <1>4, <2>1 DEF Bumped
  <2>3. Spilled(q) => Spilled(q)'
    BY <1>1 DEF Spilled
  <2>4. /\ arena.base <= r[1] /\ r[1] + r[2] <= arena.base + ArenaSize
        /\ arena.base + arena.next <= r[1]
    BY <1>2, <1>3, <1>5
  <2> QED BY <1>5, <2>1, <2>2, <2>3, <2>4, BumpedApart
<1>9. Bumped(r)' /\ r[1] % Align = 0
  BY <1>2, <1>3, <1>4, <1>5 DEF Bumped
<1>10. Regions'
  <2>1. \A q \in regions' : (Bumped(q) \/ Spilled(q))' /\ q[1] % Align = 0
    BY <1>5, <1>8, <1>9
  <2>2. ASSUME NEW p \in regions', NEW q \in regions', p # q
        PROVE  Span(p) \cap Span(q) = {}
    <3>1. CASE p \in regions /\ q \in regions
      BY <2>2, <3>1 DEF IInv, Regions
    <3>2. CASE p = r \/ q = r
      BY <1>5, <1>8, <2>2, <3>2
    <3> QED BY <1>5, <3>1, <3>2
  <2> QED BY <2>1, <2>2 DEF Regions, Bumped, Spilled
<1> QED BY <1>6, <1>7, <1>10 DEF IInv, Idle, Imaged

LEMMA SpillNewStep ==
  ASSUME IInv, status = "running", NEW n \in Nat, SpillNew(n),
         UNCHANGED <<status, mark, image>>
  PROVE  IInv'
<1> DEFINE r == Alloc(mem, n)
<1>1. /\ mem' = r.mem /\ arena' = arena
      /\ r.ptr = 0 => ptrs' = ptrs /\ regions' = regions
      /\ r.ptr # 0 => ptrs' = ptrs \cup {r.ptr} /\ regions' = regions \cup {<<r.ptr, n>>}
  BY DEF SpillNew
<1>2. Sound(mem)
  BY DEF IInv, Blocks, Usable
<1>3. Adds(mem, r, n)
  BY <1>2, AllocFacts
<1> HIDE DEF r
<1>4. /\ Sound(mem') /\ r.ptr \in Nat /\ mem.blocks \subseteq mem'.blocks
      /\ \A b \in mem'.blocks \ mem.blocks : r.ptr # 0 /\ b = <<r.ptr, n>>
  BY <1>1, <1>3 DEF Adds
<1>5. /\ ptrs \subseteq ptrs' /\ ptrs' \subseteq Nat
      /\ \A p \in ptrs' \ ptrs : \A b \in mem.blocks : b[1] # p
  BY <1>1, <1>3, <1>4 DEF Adds, IInv, TypeOK
<1>6. PICK h \in Nat : OwnBlocks(h)
  BY DEF IInv, Blocks, Usable
<1>7. OwnBlocks(h)'
  <2>1. Own(h, arena.base) \subseteq mem'.blocks
    BY <1>4, <1>6 DEF OwnBlocks
  <2>2. h \notin ptrs' /\ arena.base \notin ptrs'
    <3>1. <<h, HeapSize>> \in mem.blocks /\ <<arena.base, ArenaSize>> \in mem.blocks
      BY <1>6 DEF OwnBlocks, Own
    <3> QED BY <1>5, <1>6, <3>1 DEF OwnBlocks
  <2>3. \A b \in mem'.blocks \ Own(h, arena.base) : b[1] \in ptrs'
    <3>1. ASSUME NEW b \in mem'.blocks \ Own(h, arena.base) PROVE b[1] \in ptrs'
      <4>1. CASE b \in mem.blocks
        BY <1>5, <1>6, <4>1 DEF OwnBlocks
      <4>2. CASE b \notin mem.blocks
        BY <1>1, <1>4, <4>2
      <4> QED BY <4>1, <4>2
    <3> QED BY <3>1
  <2> QED BY <1>1, <1>6, <2>1, <2>2, <2>3 DEF OwnBlocks
<1>8. TypeOK'
  BY <1>1, <1>4, <1>5 DEF IInv, TypeOK, Sound
<1>9. Blocks'
  BY <1>4, <1>7 DEF Blocks, Sound
<1>10. \A q \in regions : (Bumped(q) \/ Spilled(q))' /\ q[1] % Align = 0
  BY <1>1, <1>4, <1>5 DEF IInv, Regions, Bumped, Spilled
<1>11. CASE r.ptr = 0
  <2>1. Regions'
    BY <1>1, <1>10, <1>11 DEF IInv, Regions, Bumped, Spilled
  <2> QED BY <1>8, <1>9, <2>1 DEF IInv, Idle, Imaged
<1>12. CASE r.ptr # 0
  <2>1. PICK s \in Nat \X Nat :
          /\ s \in mem'.blocks /\ s[1] \in ptrs' /\ s[1] % Align = 0
          /\ regions' = regions \cup {s}
          /\ \A b \in mem.blocks : Span(s) \cap Span(b) = {}
    BY <1>1, <1>3, <1>12 DEF Adds
  <2>2. ASSUME NEW q \in regions PROVE Span(s) \cap Span(q) = {}
    <3>1. q \in Nat \X Nat /\ (Bumped(q) \/ Spilled(q))
      BY DEF IInv, TypeOK, Regions
    <3>2. CASE Spilled(q)
      BY <2>1, <3>2 DEF Spilled
    <3>3. CASE Bumped(q)
      <4>1. Span(q) \subseteq Span(<<arena.base, ArenaSize>>)
        <5>1. arena.next \in 0 .. ArenaSize /\ ArenaSize \in Nat /\ arena.base \in Nat
          BY MemoryAssumption DEF IInv, TypeOK, Arenas
        <5>2. \A x \in Span(q) : x \in Int /\ arena.base <= x /\ x <= arena.base + ArenaSize - 1
          BY <3>1, <3>3, <5>1 DEF Span, Bumped
        <5> QED BY <5>1, <5>2 DEF Span
      <4>2. Span(s) \cap Span(<<arena.base, ArenaSize>>) = {}
        BY <2>1, ArenaBlock
      <4> QED BY <4>1, <4>2
    <3> QED BY <3>1, <3>2, <3>3
  <2>3. Spilled(s)'
    BY <2>1 DEF Spilled
  <2>4. \A p, q \in regions' : p # q => Span(p) \cap Span(q) = {}
    <3>1. ASSUME NEW p \in regions', NEW q \in regions', p # q
          PROVE  Span(p) \cap Span(q) = {}
      <4>1. CASE p \in regions /\ q \in regions
        BY <3>1, <4>1 DEF IInv, Regions
      <4>2. CASE p = s \/ q = s
        BY <2>1, <2>2, <3>1, <4>2
      <4> QED BY <2>1, <4>1, <4>2
    <3> QED BY <3>1
  <2>5. \A q \in regions' : (Bumped(q) \/ Spilled(q))' /\ q[1] % Align = 0
    BY <1>10, <2>1, <2>3
  <2>6. Regions'
    BY <2>4, <2>5 DEF Regions, Bumped, Spilled
  <2> QED BY <1>8, <1>9, <2>6 DEF IInv, Idle, Imaged
<1> QED BY <1>11, <1>12

-----------------------------------------------------------------------------
LEMMA IInvNext == IInv /\ [Next]_vars => IInv'
<1> SUFFICES ASSUME IInv, [Next]_vars PROVE IInv'
  OBVIOUS
<1>1. ASSUME NEW n \in Sizes, New(n) PROVE IInv'
  <2>1. n \in Nat
    BY MemoryAssumption
  <2> QED BY <1>1, <2>1, BumpNewStep, SpillNewStep DEF New
<1>2. CASE Restore
  <2>1. mem \in Memories
    BY DEF IInv, TypeOK
  <2> QED BY <1>2, <2>1, LoadStep DEF Restore
<1>3. CASE Replace
  BY <1>3, FreshIsSound, LoadStep DEF Replace
<1>4. CASE UNCHANGED vars
  BY <1>4 DEF vars, IInv, TypeOK, Blocks, Usable, OwnBlocks, Sound, Regions, Bumped, Spilled, Idle,
              Imaged, RewoundTo
<1> QED
  BY <1>1, <1>2, <1>3, <1>4, NewModuleStep, BeginsStep, ReturnsStep, TrapsStep, SnapshotStep,
     CloseStep DEF Next

LEMMA IInvAlways == Spec => []IInv
<1>1. Init => IInv
  BY IInvInit
<1>2. IInv /\ [Next]_vars => IInv'
  BY IInvNext
<1> QED BY <1>1, <1>2, PTL DEF Spec

\* Memory, arena and image keep their types: what is granted stays within the limits
\* that memory.go and arena.go compare with.
THEOREM GuestMemoryTypeCorrect == Spec => []TypeOK
<1>1. IInv => TypeOK
  BY DEF IInv
<1> QED BY <1>1, IInvAlways, PTL

\* The allocator has no page that the memory has not, whatever was rewound: Load
\* (memory.go) grows the memory to what the image says before it is written.
THEOREM GuestMemoryHeapIsMemory == Spec => []HeapIsMemory
<1>1. IInv => HeapIsMemory
  BY DEF IInv, Blocks, Sound, HeapIsMemory
<1> QED BY <1>1, IInvAlways, PTL

\* No two regions that New (arena.go) has given an operation overlap, and each lies
\* within a block that is the arena or a spill of this operation.
THEOREM GuestMemoryRegionsApart == Spec => []RegionsApart
<1>1. IInv => RegionsApart
  <2> SUFFICES ASSUME IInv, status = "running" PROVE RegionsApart
    BY DEF RegionsApart
  <2>1. ASSUME NEW r \in regions
        PROVE  \E b \in mem.blocks : Span(r) \subseteq Span(b) /\ b[1] \in ptrs \cup {arena.base}
    <3>1. r \in Nat \X Nat /\ (Bumped(r) \/ Spilled(r))
      BY DEF IInv, TypeOK, Regions
    <3>2. CASE Spilled(r)
      BY <3>2 DEF Spilled
    <3>3. CASE Bumped(r)
      <4>1. arena.next \in 0 .. ArenaSize /\ ArenaSize \in Nat /\ arena.base \in Nat
        BY MemoryAssumption DEF IInv, TypeOK, Arenas
      <4>2. \A x \in Span(r) : x \in Int /\ arena.base <= x /\ x <= arena.base + ArenaSize - 1
        BY <3>1, <3>3, <4>1 DEF Span, Bumped
      <4>3. Span(r) \subseteq Span(<<arena.base, ArenaSize>>)
        BY <4>1, <4>2 DEF Span
      <4> QED BY <4>3, ArenaBlock
    <3> QED BY <3>1, <3>2, <3>3
  <2> QED BY <2>1 DEF IInv, Regions, RegionsApart
<1> QED BY <1>1, IInvAlways, PTL

\* When the function that Mark returned has run (arena.go), when a module was made,
\* and when one was rewound or replaced, two blocks are left: Python's heap and the
\* arena.
THEOREM GuestMemoryNothingStays == Spec => []NothingSpilledStays
<1>1. IInv => NothingSpilledStays
  <2> SUFFICES ASSUME IInv, status = "idle" PROVE NothingSpilledStays
    BY DEF NothingSpilledStays
  <2>1. PICK h \in Nat : h # arena.base /\ mem.blocks = Own(h, arena.base)
    BY IdleIsRewound DEF RewoundTo
  <2>2. Cardinality({<<h, HeapSize>>}) = 1 /\ IsFiniteSet({<<h, HeapSize>>})
    BY FS_Singleton
  <2>3. <<arena.base, ArenaSize>> \notin {<<h, HeapSize>>}
    BY <2>1
  <2>4. mem.blocks = {<<h, HeapSize>>} \cup {<<arena.base, ArenaSize>>}
    BY <2>1 DEF Own
  <2>5. Cardinality(mem.blocks) = Cardinality({<<h, HeapSize>>}) + 1
    BY <2>2, <2>3, <2>4, FS_AddElement
  <2>6. Cardinality(mem.blocks) = 2
    BY <2>2, <2>5
  <2> QED BY <2>4, <2>6 DEF NothingSpilledStays, IInv, Idle
<1> QED BY <1>1, IInvAlways, PTL
=============================================================================
