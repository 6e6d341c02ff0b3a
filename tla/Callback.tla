------------------------------ MODULE Callback ------------------------------
(***************************************************************************)
(* Host functions (internal/host/dispatcher.go, host.go, codec/encode.go,  *)
(* build/hostfn.c, build/decode.c), with the transfers that go the other   *)
(* way (Transfer).                                                         *)
(*                                                                         *)
(* The guest lends two regions on its stack: one it has written the        *)
(* arguments into, one for the answer, whose root is marked as never       *)
(* written.  Whatever the Go function does, what Python gets must come out *)
(* of that second region.                                                  *)
(***************************************************************************)
EXTENDS Decoding, GoValues

CONSTANTS
  Answers,     \* Go values that a host function may answer
  AnswerBase   \* where the region for the answer is

ASSUME CallbackAssumption == AnswerBase \in Nat \ {0} /\ AnswerBase % Word = 0

VARIABLES
  answer,  \* the words of the region for the answer
  given,   \* what the host function came to: [kind, value, size]
  got      \* what Python has of it: [kind, node]

vars == <<transferVars, answer, given, got>>

Nothing == [kind |-> "none", value |-> Scalar(None), size |-> 0]
GotNothing == [kind |-> "none", node |-> None]
GotNoObject == [kind |-> "raised", node |-> None]

-----------------------------------------------------------------------------
(* The encoder.  Its state: whether it has failed, the region, the bump    *)
(* pointer of an arena that cannot spill, the depth, and the last record.  *)

\* Seeded fault: the root is not reserved, so what is nested lands on it.
MutRootSize == 0

RootSize == ValueSize

\* returnArena.
ReturnArena(mem) ==
  [ok |-> TRUE, mem |-> mem, next |-> RootSize, depth |-> 0, rec |-> Record(KindInvalid, 0, 0)]

Stops(e) == [e EXCEPT !.ok = FALSE]

\* Arena.New.
Takes(e, n) == [e EXCEPT !.next = Aligned(@) + n]
HasRoom(e, n) == Aligned(e.next) <= Capacity /\ n <= Capacity - Aligned(e.next)

\* refs.Lookup: the handle is of this interpreter, and has not been released.
Lookup(id) == id \in Objects /\ handles[id] > 0

\* encoder.encode, blob, seq, dict and put.
RECURSIVE EncodeAt(_, _), EncodeItems(_, _, _, _)
EncodeAt(v, e) ==
  LET at == AnswerBase + Aligned(e.next)
      n == Len(v.items)
      block == [Takes(e, n * ValueSize) EXCEPT !.depth = @ + 1]
  IN  IF e.depth > HostDepth THEN Stops(e)
      ELSE CASE v.kind \in {KindNone, Unset.kind} -> [e EXCEPT !.rec = Record(KindNone, 0, 0)]
             [] v.kind = KindInt -> [e EXCEPT !.rec = Record(KindInt, v.word, 0)]
             [] v.kind \in {KindStr, KindException} ->
                  IF v.size = 0 THEN [e EXCEPT !.rec = Record(v.kind, 0, 0)]
                  ELSE IF HasRoom(e, v.size)
                  THEN [Takes(e, v.size) EXCEPT !.mem = PutText(@, at, v.size, v.word),
                                                !.rec = Record(v.kind, v.size, at)]
                  ELSE Stops(e)
             [] v.kind \in {KindList, KindTuple, KindDict} ->
                  IF n = 0 THEN [e EXCEPT !.rec = Record(v.kind, 0, 0)]
                  ELSE IF HasRoom(e, n * ValueSize)
                  THEN [EncodeItems(v.items, 1, at, block)
                          EXCEPT !.depth = e.depth,
                                 !.rec = Record(v.kind, IF v.kind = KindDict THEN n \div 2 ELSE n, at)]
                  ELSE Stops(e)
             [] v.kind = KindObject ->
                  IF Lookup(v.word) THEN [e EXCEPT !.rec = Record(KindObject, v.word, 0)] ELSE Stops(e)
             [] OTHER -> Stops(e)

EncodeItems(items, i, at, e) ==
  IF i > Len(items) \/ ~e.ok THEN e
  ELSE LET r == EncodeAt(items[i], e)
       IN  EncodeItems(items, i + 1, at + ValueSize,
                       IF r.ok THEN [r EXCEPT !.mem = Put(@, at, r.rec)] ELSE r)

\* encodeValueInto: the root is written last.
EncodeInto(mem, v) ==
  LET e == EncodeAt(v, ReturnArena(mem))
  IN  IF e.ok THEN [e EXCEPT !.mem = Put(@, AnswerBase, e.rec)] ELSE e

-----------------------------------------------------------------------------
(* obj_from_value: the guest believes what it is given.                    *)

RECURSIVE ReadAt(_, _)
ReadAt(mem, a) ==
  LET kind == At(mem, a)
      w1 == At(mem, a + Word)
      w2 == At(mem, a + 2 * Word)
      n == IF kind = KindDict THEN 2 * w1 ELSE w1
  IN  CASE kind = KindInt -> Integer(w1)
        [] kind \in {KindStr, KindException} -> Node(kind, Text(mem, w2, w1), w1, 0, <<>>)
        [] kind \in {KindList, KindTuple, KindDict} ->
             Seqs(kind, [i \in 1 .. n |-> ReadAt(mem, w2 + (i - 1) * ValueSize)])
        [] kind = KindObject -> Node(kind, w1, 0, 0, <<>>)
        [] OTHER -> Node(kind, 0, 0, 0, <<>>)

-----------------------------------------------------------------------------
(* The steps.                                                              *)

Begins == UNCHANGED <<answer, given, got>>

\* generic_host_invoke: the second region, its root marked.
Lend == Put(Stale(AnswerBase, Capacity), AnswerBase, Record(KindInvalid, 0, 0))

Failed(size) == [kind |-> "error", value |-> Scalar(None), size |-> size]

\* dispatch: the function that has the id is called if its arguments can be read.
HostReads ==
  /\ DecodeArguments
  /\ answer' = Lend
  /\ \/ phase' = "called" /\ UNCHANGED given
     \/ phase' = "failing" /\ \E n \in ErrorSizes : given' = Failed(n)
  /\ UNCHANGED got

HostRefuses ==
  /\ RefuseArguments
  /\ answer' = Lend
  /\ \E n \in ErrorSizes : given' = Failed(n)
  /\ UNCHANGED got

\* dispatch, hostFunc: the function has answered Of(x).
FunctionReturns(x) ==
  LET e == EncodeInto(answer, Of(x))
  IN  /\ phase = "called"
      /\ answer' = e.mem
      /\ phase' = IF e.ok THEN "returned" ELSE "failing"
      /\ \E n \in ErrorSizes : given' = [kind |-> "value", value |-> x, size |-> n]
      /\ UNCHANGED <<contents, purpose, region, arena, stack, pending, ledger, committed, counts,
                     handles, log, full, outcome, got>>

\* It answers one of its arguments, as it came or by way of Export.
FunctionEchoes ==
  \E i \in DOMAIN outcome.node.items :
    LET arg == outcome.node.items[i]
    IN  FunctionReturns(Value(arg)) \/ FunctionReturns(Exported(arg))

\* Seeded fault: what the arguments hold is taken back from the Go program.
MutFunctionFails ==
  /\ phase = "called"
  /\ phase' = "failing"
  /\ counts' = Minus(counts, handles)
  /\ handles' = [o \in Objects |-> 0]
  /\ \E n \in ErrorSizes : given' = Failed(n)
  /\ UNCHANGED <<contents, purpose, region, arena, stack, pending, ledger, committed, log, full,
                 outcome, answer, got>>

\* It fails or panics.
FunctionFails ==
  /\ phase = "called"
  /\ phase' = "failing"
  /\ \E n \in ErrorSizes : given' = Failed(n)
  /\ UNCHANGED <<contents, purpose, region, arena, stack, pending, ledger, committed, counts,
                 handles, log, full, outcome, answer, got>>

Exc(n) == Node(KindException, IF n = 0 THEN 0 ELSE ErrorText, n, 0, <<>>)

\* writeErr: the text, in an arena that starts over, or an exception without one.  The
\* name of an error's class may have the separator in it, and is refused.
WriteError ==
  /\ phase = "failing"
  /\ \E refused \in BOOLEAN :
       LET e == EncodeInto(answer, Exc(given.size))
       IN  /\ answer' = IF e.ok /\ ~refused THEN e.mem
                        ELSE Put(e.mem, AnswerBase, Record(KindException, 0, 0))
           /\ given' = IF refused THEN [given EXCEPT !.size = 0] ELSE given
  /\ phase' = "returned"
  /\ UNCHANGED <<contents, purpose, region, arena, stack, pending, ledger, committed, counts,
                 handles, log, full, outcome, got>>

\* generic_host_invoke, after the trampoline.
GuestReads ==
  /\ phase = "returned"
  /\ phase' = "answered"
  /\ LET node == ReadAt(answer, AnswerBase)
     IN  got' = [kind |-> CASE node.kind = KindInvalid -> "no value"
                            [] node.kind = KindException -> "raised"
                            [] OTHER -> "value",
                 node |-> node]
  /\ UNCHANGED <<contents, purpose, region, arena, stack, pending, ledger, committed, counts,
                 handles, log, full, outcome, answer, given>>

\* Making the objects raises an exception: a stack or a heap that is used up, a key
\* that has no hash.
GuestCannotRead ==
  /\ phase = "returned"
  /\ At(answer, AnswerBase) \notin {KindInvalid, KindNone}
  /\ phase' = "answered"
  /\ got' = GotNoObject
  /\ UNCHANGED <<contents, purpose, region, arena, stack, pending, ledger, committed, counts,
                 handles, log, full, outcome, answer, given>>

Ends ==
  /\ Settle
  /\ answer' = Stale(AnswerBase, Capacity)
  /\ given' = Nothing
  /\ got' = GotNothing

CallbackInit ==
  /\ TransferInit
  /\ answer = Stale(AnswerBase, Capacity)
  /\ given = Nothing
  /\ got = GotNothing

Next ==
  \/ Starting /\ Begins
  \/ Writing /\ Begins
  \/ HandleRaise /\ Begins
  \/ RaiseInCaller /\ Begins
  \/ DecodeResult /\ Begins
  \/ HostReads
  \/ HostRefuses
  \/ \E x \in Answers : FunctionReturns(x)
  \/ phase = "called" /\ FunctionEchoes
  \/ FunctionFails
  \/ WriteError
  \/ GuestReads
  \/ GuestCannotRead
  \/ Ends

Spec == CallbackInit /\ [][Next]_vars

-----------------------------------------------------------------------------
(* Properties.                                                             *)

\* The bytes that what a value holds takes up, and how deep it goes.
RECURSIVE Room(_), Height(_), Handles(_), AsPython(_)
Room(v) ==
  IF v.kind \in {KindStr, KindException} THEN Aligned(v.size)
  ELSE IF v.kind = KindObject THEN 0
  ELSE Len(v.items) * ValueSize
       + FoldLeft(LAMBDA sum, item : sum + Room(item), 0, v.items)

Height(v) ==
  IF v.kind = KindObject THEN 0
  ELSE FoldLeft(LAMBDA most, item : IF Height(item) >= most THEN Height(item) + 1 ELSE most,
                0, v.items)

Handles(v) ==
  IF v.kind = KindObject THEN {v.word} ELSE UNION {Handles(v.items[i]) : i \in DOMAIN v.items}

AsPython(v) ==
  CASE v.kind = KindObject -> Node(KindObject, v.word, 0, 0, <<>>)
    [] OTHER -> [v EXCEPT !.items = [i \in DOMAIN v.items |-> AsPython(v.items[i])]]

Passable(x) ==
  /\ Convertible(x)
  /\ Height(Meaning(x)) <= HostDepth
  /\ RootSize + Room(Meaning(x)) <= Capacity
  /\ \A id \in Handles(Meaning(x)) : Lookup(id)

ErrorRaised ==
  /\ got.kind = "raised"
  /\ got.node = IF RootSize + given.size <= Capacity THEN Exc(given.size) ELSE Exc(0)

\* Python gets all of what the Go function answered, if that can be passed at all and
\* objects made of it, and an exception in every other case; never a part of it, what was left in the region by
\* the attempt that failed, or nothing (dispatcher.go:120-140; docs/USAGE.md, "Values").
AnswerIsWhole ==
  phase = "answered" /\ got # GotNoObject =>
    IF given.kind = "value" /\ Passable(given.value)
    THEN /\ got.node = AsPython(Meaning(given.value))
         /\ got.kind = IF got.node.kind = KindException THEN "raised" ELSE "value"
    ELSE ErrorRaised

\* The same of the Go values that unwrapAny looks into.
AnswerIsTrue == Plain(given.value) => AnswerIsWhole
=============================================================================
