----------------------------- MODULE MCCallback -----------------------------
(***************************************************************************)
(* A guest with a number, a text, an opaque object, a list, a tuple and a  *)
(* dict, which may hold each other, and a host function that may answer    *)
(* anything.  The guest goes one level deeper than the host, as 128 is     *)
(* deeper than 32; the regions overflow with a few records.                *)
(***************************************************************************)
EXTENDS Callback

CONSTANT Awkward  \* whether answers hold Values where nobody looks for them

MCLength == [o \in 1 .. 6 |-> IF o = 2 THEN 5 ELSE 3]
MCAttributes == (3 :> 2)

MCShapes ==
  {(4 :> l) @@ (5 :> t) @@ (6 :> d) :
     l \in {<<>>, <<3, 2>>, <<5>>, <<4, 1>>, <<6>>},
     t \in {<<2>>, <<4>>, <<3, 3>>},
     d \in {<<>>, <<2, 4>>, <<1, 3>>}}

Chars(n) == Node(KindStr, 7, n, 0, <<>>)
Handle(id) == Object(id, 0, id, 3)
Values(items) == Go("slice", None, items)

PlainAnswers ==
  {Value(Chars(5)), Value(Exc(6)), Value(Chars(100)),
   Value(Handle(3)), Value(Handle(9)),
   Value(Seqs(KindTuple, <<Integer(1), Seqs(KindDict, <<Chars(2), None>>)>>)),
   Values(<<Go("nil", None, <<>>), Value(Handle(3))>>),
   Values(<<Values(<<Scalar(Chars(3))>>)>>),
   Values(<<Go("pointer", None, <<Go("unsigned", Integer(MaxInt + 1), <<>>)>>)>>),
   Go("typed", None, <<Go("unsigned", Integer(MaxInt), <<>>), Scalar(Chars(5))>>),
   Go("map", None, <<Scalar(Chars(4)), Value(Unset)>>),
   Go("struct", None, <<Scalar(Chars(4)), Scalar(Integer(2))>>),
   Go("function", None, <<>>)}

AwkwardAnswers ==
  {Value(Unset), Go("typed", None, <<Value(Integer(1))>>), Go("struct", None, <<Scalar(Chars(4)), Value(Handle(3))>>),
   Value(Seqs(KindList, <<Unset>>))}

MCAnswers == IF Awkward THEN AwkwardAnswers ELSE PlainAnswers
=============================================================================
