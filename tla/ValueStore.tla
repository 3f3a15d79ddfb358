------------------------------- MODULE ValueStore -------------------------------
(***************************************************************************)
(* What the value API promises a C program that frees what it is told to:  *)
(* its variables behave like variables of a language with value semantics. *)
(* There are no addresses; what a variable holds is a tree, copied when it  *)
(* is stored in another, and nothing but an assignment to a variable or an  *)
(* insert into its object changes it.                                      *)
(***************************************************************************)
EXTENDS Naturals, FiniteSets, Functions, Maps

CONSTANTS Var, Key,
          Given,    \* the trees that constructors and the database return
          Scalar    \* the trees sr_object_insert_str and its like insert

VARIABLE store      \* store[x]: a tree, its kind and what is under it

Tree(kind, of) == [kind |-> kind, of |-> of]
Nothing == Tree("none", {})

(* What lies under a pointer: a function from indexes or keys to trees. *)
Of(t) == CHOOSE m \in t.of : TRUE
Under(x) == Of(store[x])

Init == store = [x \in Var |-> Nothing]

(* The trees t that one call may leave in x; it changes no other variable.   *)
Make(x, t) == store[x] = Nothing /\ t \in Given

Wrap(x, y, t) ==
    /\ store[x] = Nothing /\ store[y].kind = "object"
    /\ t = Tree("value", {<<store[y]>>})

(* What a function can be given for a value: the content of a box, or an     *)
(* element that an object, an array or an array in a result holds.          *)
Lists ==
    {store[x] : x \in {w \in Var : store[w].kind \in {"object", "array"}}}
    \cup {t \in UNION {Range(Under(x)) : x \in {w \in Var : store[w].kind = "results"}} : t.kind = "array"}
Elements ==
    {Under(x)[1] : x \in {w \in Var : store[w].kind = "value"}} \cup UNION {Range(Of(t)) : t \in Lists}

Put(x, k, t) ==
    /\ store[x].kind = "object" /\ t.kind = "object"
    /\ \E e \in Scalar \cup Elements : t.of = {Over(One(k, e), Under(x))}

(* A new array: the old one's elements and at most one more. *)
Push(x, y, t) ==
    /\ store[x] = Nothing /\ t.kind = "array"
    /\ y \in Var => store[y].kind = "array"
    /\ LET old == IF y \in Var THEN Under(y) ELSE <<>>
           end == Cardinality(DOMAIN old) + 1
       IN  t.of = {old} \/ \E e \in Elements : t.of = {Over(One(end, e), old)}

Strings(n) == [i \in 1..n |-> Tree("string", {<<>>})]
Keys(x, y, t) ==
    /\ store[x] = Nothing /\ store[y].kind = "object"
    /\ LET n == Cardinality(DOMAIN Under(y))
       IN  t = Tree("keys", IF n = 0 THEN {} ELSE {Strings(n)})

Free(t) == t = Nothing

MayBecome(x, t) ==
    \/ Make(x, t) \/ Free(t)
    \/ \E y \in Var : Wrap(x, y, t) \/ Keys(x, y, t)
    \/ \E k \in Key : Put(x, k, t)
    \/ \E y \in Var \cup {"null"} : Push(x, y, t)

Next ==
    /\ store' # store
    /\ \E x \in Var :
        LET t == store'[x]
        IN  t # store[x] /\ MayBecome(x, t) /\ store' = [store EXCEPT ![x] = t]

Spec == Init /\ [][Next]_store
================================================================================
