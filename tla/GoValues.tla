------------------------------ MODULE GoValues ------------------------------
(***************************************************************************)
(* Go values on their way to Python and back: what Value.Export and Of     *)
(* make of them (value.go), and Lower (internal/value/convert.go).         *)
(*                                                                         *)
(* A semantic value is a node of Wire.  A Go value is a record: what it is *)
(* to a type switch, the node of a scalar or of a Value, and the values in *)
(* it.  A list stands for the sets and the arrays, which go the same way.  *)
(***************************************************************************)
EXTENDS Wire

CONSTANTS
  HostDepth,  \* value.MaxDepth
  MaxInt      \* math.MaxInt64

Go(go, node, items) == [go |-> go, node |-> node, items |-> items]

Integer(n) == Node(KindInt, n, 0, 0, <<>>)
Seqs(kind, items) == Node(kind, 0, 0, 0, items)
Invalid == Node(KindInvalid, 0, 0, 0, <<>>)
Unset == Node(-1, 0, 0, 0, <<>>)   \* the zero Value, and a nil value.Value
StringKey == -3                    \* what a key is once it is a string

Scalar(node) == Go("scalar", node, <<>>)
Semantic(node) == Go("semantic", node, <<>>)
Value(node) == Go("value", node, <<>>)

-----------------------------------------------------------------------------

\* unwrapAny: Values become what they hold, as far as []any and the maps go.
RECURSIVE Unwrapped(_)
Unwrapped(x) ==
  CASE x.go = "value" -> Semantic(IF x.node = Unset THEN Invalid ELSE x.node)
    [] x.go \in {"slice", "map"} ->
         [x EXCEPT !.items = [i \in DOMAIN x.items |-> Unwrapped(x.items[i])]]
    [] OTHER -> x

\* fromJSON: a struct comes back as a map, a Value as one without entries.
RECURSIVE Standard(_)
Standard(x) ==
  CASE x.go = "value" -> Go("map", None, <<>>)
    [] x.go \in {"slice", "typed", "tuple", "map", "struct"} ->
         Go(IF x.go \in {"map", "struct"} THEN "map" ELSE "slice", None,
            [i \in DOMAIN x.items |-> Standard(x.items[i])])
    [] x.go = "pointer" -> Standard(x.items[1])
    [] OTHER -> x

Made(node) == [ok |-> TRUE, node |-> node]
Refused == [ok |-> FALSE, node |-> None]

\* lower.  What is semantic already is not looked into.
RECURSIVE LowerAt(_, _)
LowerAt(x, depth) ==
  LET all == [i \in DOMAIN x.items |-> LowerAt(x.items[i], depth + 1)]
      kind == CASE x.go = "tuple" -> KindTuple [] x.go = "map" -> KindDict [] OTHER -> KindList
  IN  IF depth > HostDepth THEN Refused
      ELSE CASE x.go = "nil" -> Made(None)
             [] x.go \in {"semantic", "scalar"} -> Made(x.node)
             [] x.go = "unsigned" -> IF x.node.word > MaxInt THEN Refused ELSE Made(x.node)
             [] x.go = "pointer" -> LowerAt(x.items[1], depth)
             [] x.go \in {"slice", "typed", "tuple", "map"} ->
                  IF \A i \in DOMAIN all : all[i].ok
                  THEN Made(Seqs(kind, [i \in DOMAIN all |-> all[i].node]))
                  ELSE Refused
             [] x.go \in {"struct", "value"} -> LowerAt(Standard(x), depth)
             [] OTHER -> Refused

\* Of.
Of(x) ==
  LET r == LowerAt(Unwrapped(x), 0)
  IN  IF x.go = "value" THEN x.node ELSE IF r.ok THEN r.node ELSE Invalid

-----------------------------------------------------------------------------

\* MapKey: Go maps do not hold slices and maps as keys.
MapKey(x) ==
  IF x.go \in {"slice", "tuple", "map"} THEN Scalar(Str(StringKey, Word)) ELSE x

\* Lift and exported.
RECURSIVE Exported(_)
Exported(node) ==
  LET items == [i \in DOMAIN node.items |-> Exported(node.items[i])]
  IN  CASE node \in {None, Unset} -> Go("nil", None, <<>>)
        [] node.kind = KindObject -> Value(node)
        [] node.kind = KindList -> Go("slice", None, items)
        [] node.kind = KindTuple -> Go("tuple", None, items)
        [] node.kind = KindDict ->
             Go("map", None, [i \in DOMAIN items |-> IF i % 2 = 1 THEN MapKey(items[i]) ELSE items[i]])
        [] OTHER -> Scalar(node)

-----------------------------------------------------------------------------
(* What the documentation says of a Go value (docs/USAGE.md).              *)

\* Nothing in it may be refused: no Value that was never built, no number that is too
\* large, nothing without a form.
RECURSIVE Convertible(_), Valid(_)
Valid(node) ==
  /\ node.kind \notin {KindInvalid, Unset.kind}
  /\ \A i \in DOMAIN node.items : node.kind = KindObject \/ Valid(node.items[i])
Convertible(x) ==
  /\ x.go # "function"
  /\ x.go = "value" => Valid(x.node)
  /\ x.go = "unsigned" => x.node.word <= MaxInt
  /\ \A i \in DOMAIN x.items : Convertible(x.items[i])

\* What it is to Python.
RECURSIVE Meaning(_)
Meaning(x) ==
  LET items == [i \in DOMAIN x.items |-> Meaning(x.items[i])]
  IN  CASE x.go = "nil" -> None
        [] x.go \in {"slice", "typed"} -> Seqs(KindList, items)
        [] x.go = "tuple" -> Seqs(KindTuple, items)
        [] x.go \in {"map", "struct"} -> Seqs(KindDict, items)
        [] x.go = "pointer" -> Meaning(x.items[1])
        [] OTHER -> x.node

\* No Value is where unwrapAny does not look for one.
RECURSIVE HasValue(_), Plain(_)
HasValue(x) == x.go = "value" \/ \E i \in DOMAIN x.items : HasValue(x.items[i])
Plain(x) ==
  IF x.go \in {"slice", "map"} THEN \A i \in DOMAIN x.items : Plain(x.items[i])
  ELSE x.go = "value" \/ ~HasValue(x)
=============================================================================
