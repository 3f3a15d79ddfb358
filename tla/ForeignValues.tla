----------------------------- MODULE ForeignValues -----------------------------
(***************************************************************************)
(* The heap of ForeignHeap, read as ValueStore: the tree a C variable      *)
(* holds is what one finds by following pointers from it.                  *)
(***************************************************************************)
EXTENDS ForeignHeap

(* A value, when f[b] is what lies in b, and what lies in each allocation. *)
Seen(f, v) == [kind |-> v.kind, of |-> {f[r] : r \in v.refs \cap DOMAIN f}]
Contents[b \in Live] == [i \in DOMAIN holds[b] |-> Seen(Contents, holds[b][i])]

(* The tree of a value, and what each variable of the program holds. *)
TreeOf(v) == Seen(Contents, v)
Trees == [x \in Var |-> TreeOf(var[x])]

(* A string or a thing just made; an object, an array or a box around one. *)
Bare(K) == {[kind |-> kind, of |-> IF kind = "scalar" THEN {} ELSE {<<>>}] : kind \in K}
Boxes(kind, M) == {[kind |-> kind, of |-> {m}] : m \in M}
Rows == Boxes("object", {One(k, t) : k \in Key, t \in Bare(Kind)})
Results(t) == [kind |-> "results", of |-> {<<[kind |-> "array", of |-> {<<t>>}],
                                            [kind |-> "string", of |-> {<<>>}]>>}]
GivenTrees ==
    Boxes("value", {<<t>> : t \in Bare(Kind) \cup Boxes("array", {<<>>})})
    \cup Boxes("object", {<<>>})
    \cup {Results(t) : t \in Bare(Kind)}
    \cup {[kind |-> "vec", of |-> {}]} \cup Boxes("vec", {<<t>> : t \in Bare(Kind) \cup Rows})

Abstract == INSTANCE ValueStore WITH
    store <- Trees,
    Given <- GivenTrees,
    Scalar <- Bare({"scalar", "string"})

(* The C program cannot tell the heap from variables that hold values:      *)
(* every insert, push, wrap and conversion copies, every free takes away     *)
(* what it is called on and nothing else.                                   *)
ValueSemantics == Abstract!Spec
================================================================================
