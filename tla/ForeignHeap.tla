------------------------------ MODULE ForeignHeap ------------------------------
(***************************************************************************)
(* The allocations behind the values, objects and arrays that cross the    *)
(* C boundary (types/).                                                     *)
(*                                                                         *)
(* `holds` maps each live allocation to what lies in it: the values of an  *)
(* array by index, of an object by key, the one value of a box, nothing for *)
(* the buffer of a string.  A value is its kind and the allocations it      *)
(* points to.  A C variable holds a value too, of the kind of the pointer:  *)
(*                                                                         *)
(*   "value"   *mut Value, a box        "array"  *mut Array, made by push  *)
(*   "object"  Object, the map itself   "vec"    *mut Value and a length   *)
(*   "keys"    *mut *mut c_char and a length                               *)
(*   "results" *mut ArrayResult and a length: of each result the array, or  *)
(*             the message of an error; the other field owns nothing        *)
(*                                                                         *)
(* An Array is one allocation here, its header and its buffer together.    *)
(* The Rust code drops, clones and converts a value kind by kind; the three *)
(* sets below say for which kinds each reaches the allocation behind it.    *)
(***************************************************************************)
EXTENDS Integers, FiniteSets, Functions, Maps

CONSTANTS Block,    \* addresses
          Var,      \* the variables of the C program
          Key,      \* the keys of its objects
          Kind,     \* the kinds of values it builds and the database returns
          MaxLen    \* bound on the length of its arrays

Leaf == {"scalar", "string", "thing", "bytes", "geometry"}
Nest == {"array", "object"}

ASSUME HeapAssumption ==
    /\ Block \subseteq Nat \ {0} /\ IsFiniteSet(Block)
    /\ Kind \subseteq Leaf
    /\ MaxLen \in Nat /\ MaxLen >= 2
    /\ IsFiniteSet(Key) /\ Cardinality(Key) <= MaxLen

VARIABLES holds, var,
          lent     \* a pointer that sr_object_get or sr_array_get lent to the program:
                   \* an allocation and the place in it, or <<>> for NULL

vars == <<holds, var, lent>>

Ref(kind, refs) == [kind |-> kind, refs |-> refs]
Nothing == Ref("none", {})

(* Variant: a record id whose Clone copies its two pointers. *)
CopiedShallow == {"string", "geometry"} \cup Nest

(* The kinds whose Drop frees, whose Clone copies, and whose conversion to  *)
(* the SDK's type takes over or frees what they point to.  Bytes has neither *)
(* a Drop nor a deep Clone, but into_vec takes its buffer; a geometry is     *)
(* cloned deeply and read through as_slice, and nothing ever frees it.       *)
Dropped == {"string", "thing"} \cup Nest \cup {"value", "vec", "keys", "results"}
Copied == {"string", "thing", "geometry"} \cup Nest
Consumed == {"string", "thing", "bytes"} \cup Nest

(* The allocations of a new value of a kind: the box of a scalar only, one   *)
(* buffer, and a table and an id for a thing.                               *)
Width(kind) == IF kind = "scalar" THEN 0 ELSE IF kind = "thing" THEN 2 ELSE 1

--------------------------------------------------------------------------------
(* Reading the heap. *)

Live == DOMAIN holds

(* What lies in b, as a set of values. *)
Inside(b) == Range(holds[b])

(* What the values point to, through values of `kinds` only: the least set  *)
(* of allocations that holds their own and those of the values inside.      *)
Roots(V, kinds) == UNION {v.refs : v \in {w \in V : w.kind \in kinds}}
Holding(S, R, kinds) ==
    R \subseteq S /\ Roots(UNION {Inside(b) : b \in S}, kinds) \cap Live \subseteq S
Reached(V, kinds) ==
    LET R == Roots(V, kinds) \cap Live
    IN  CHOOSE S \in SUBSET Live :
            Holding(S, R, kinds) /\ \A T \in SUBSET S : Holding(T, R, kinds) => T = S

AnyKind == Dropped \cup Copied \cup Consumed

(* The i-th lowest address of S. *)
Nth(S, i) == CHOOSE b \in S : Cardinality({c \in S : c < b}) = i - 1
Free == Block \ Live
Room(n) == Cardinality(Free) >= n
(* The i-th allocation an operation makes, and its n allocations from i on. *)
New(i) == Nth(Free, i)
News(i, n) == {New(j) : j \in i..(i + n - 1)}
Buffers(i, n) == [b \in News(i, n) |-> <<>>]

(* Frees `dead` and stores `fresh`, over what it replaces. *)
Store(dead, fresh) == holds' = Over(fresh, Only(holds, Live \ dead))

(* Clone: every allocation that is copied gets a new address, from the i-th *)
(* free one on, and a value of a copied kind points to the copy; any other   *)
(* still points to the old.                                                 *)
Deep(V) == Reached(V, Copied)
CopyMap(V, i) == [a \in Deep(V) |-> New(i + Cardinality({c \in Deep(V) : c < a}))]
(* Variant: a copy of the allocation with the values as they were. *)
Verbatim(f, v) == v
Renamed(f, v) == IF v.kind \in Copied THEN Ref(v.kind, {f[r] : r \in v.refs}) ELSE v
Copies(f) ==
    [b \in Range(f) |-> LET a == CHOOSE c \in DOMAIN f : f[c] = b
                        IN  [i \in DOMAIN holds[a] |-> Renamed(f, holds[a][i])]]

Init == holds = <<>> /\ var = [x \in Var |-> Nothing] /\ lent = <<>>

--------------------------------------------------------------------------------
(* Operations of the API, by the C variables they are called with. *)

Is(x, kind) == var[x].kind = kind
At(x) == CHOOSE b \in var[x].refs : TRUE
Assign(x, v) == var' = [var EXCEPT ![x] = v]

(* A value is given by a variable that holds a box, or by the lent pointer. *)
IsValue(z) == IF z = "lent" THEN lent # <<>> ELSE Is(z, "value")
ValueAt(z) == IF z = "lent" THEN holds[lent[1]][lent[2]] ELSE holds[At(z)][1]

(* The program forgets a pointer lent out of what it changes or frees. *)
LetGo(x) ==
    lent' = IF lent # <<>> /\ lent[1] \in Reached({var[x]}, AnyKind) THEN <<>> ELSE lent

(* sr_value_none ... sr_value_decimal: a box with a new value. *)
value_new(x, kind) ==
    LET n == Width(kind) IN
    /\ var[x] = Nothing /\ Room(n + 1)
    /\ Store({}, Over(One(New(n + 1), <<Ref(kind, News(1, n))>>), Buffers(1, n)))
    /\ Assign(x, Ref("value", {New(n + 1)}))

(* sr_value_array: boxed and empty. *)
value_array(x) ==
    /\ var[x] = Nothing /\ Room(2)
    /\ Store({}, Over(One(New(2), <<Ref("array", {New(1)})>>), Buffers(1, 1)))
    /\ Assign(x, Ref("value", {New(2)}))

(* sr_value_object: a box with a clone of the object. *)
value_object(x, y) ==
    /\ var[x] = Nothing /\ Is(y, "object")
    /\ LET f == CopyMap({var[y]}, 1)
           n == Cardinality(Deep({var[y]}))
       IN  /\ Room(n + 1)
           /\ Store({}, Over(One(New(n + 1), <<Renamed(f, var[y])>>), Copies(f)))
           /\ Assign(x, Ref("value", {New(n + 1)}))

(* Variant: no allocation. *)
object_null(x) ==
    var[x] = Nothing /\ Assign(x, Ref("object", {0})) /\ UNCHANGED holds

(* sr_object_new *)
object_new(x) ==
    /\ var[x] = Nothing /\ Room(1)
    /\ Store({}, Buffers(1, 1))
    /\ Assign(x, Ref("object", {New(1)}))

(* Stores v under k in the map of y; BTreeMap::insert drops what was there. *)
PutAt(y, k, v, fresh) ==
    LET old == IF k \in DOMAIN holds[At(y)] THEN {holds[At(y)][k]} ELSE {}
    IN  Store(Reached(old, Dropped), Over(One(At(y), Over(One(k, v), holds[At(y)])), fresh))

(* Variant: the value itself instead of a clone. *)
insert_shared(y, k, z) ==
    /\ Is(y, "object") /\ IsValue(z)
    /\ PutAt(y, k, ValueAt(z), <<>>)
    /\ LetGo(y) /\ UNCHANGED var

(* sr_object_insert: a clone of the value. *)
insert(y, k, z) ==
    /\ Is(y, "object") /\ IsValue(z)
    /\ LET v == ValueAt(z)
           f == CopyMap({v}, 1)
       IN  /\ Room(Cardinality(Deep({v})))
           /\ PutAt(y, k, Renamed(f, v), Copies(f))
    /\ LetGo(y) /\ UNCHANGED var

(* sr_object_insert_str, _int, _float, _double: a temporary value is made,   *)
(* cloned into the map and dropped again.                                   *)
insert_new(y, k, kind) ==
    /\ Is(y, "object") /\ Room(Width(kind))
    /\ PutAt(y, k, Ref(kind, News(1, Width(kind))), Buffers(1, Width(kind)))
    /\ LetGo(y) /\ UNCHANGED var

(* sr_array_push: a new array with clones of the elements of y, if y is an   *)
(* array, and of the value z, if z is one.                                  *)
array_push(x, y, z) ==
    /\ var[x] = Nothing
    /\ (y \in Var => Is(y, "array")) /\ (z # "null" => IsValue(z))
    /\ LET old == IF y \in Var THEN holds[At(y)] ELSE <<>>
           end == Cardinality(DOMAIN old) + 1
           pushed == IF z = "null" THEN {} ELSE {ValueAt(z)}
           m == Cardinality(Deep(Range(old)))
           n == m + Cardinality(Deep(pushed))
           f == CopyMap(Range(old), 1)
           g == CopyMap(pushed, m + 1)
           cloned == [i \in DOMAIN old |-> Renamed(f, old[i])]
       IN  /\ end - 1 + Cardinality(pushed) <= MaxLen /\ Room(n + 1)
           /\ Store({}, Over(One(New(n + 1), IF pushed = {} THEN cloned
                                             ELSE Over(One(end, Renamed(g, ValueAt(z))), cloned)),
                             Over(Copies(f), Copies(g))))
           /\ Assign(x, Ref("array", {New(n + 1)}))

(* sr_object_get: NULL for a key that is not there. *)
object_get(y, k) ==
    /\ Is(y, "object")
    /\ lent' = IF k \in DOMAIN holds[At(y)] THEN <<At(y), k>> ELSE <<>>
    /\ UNCHANGED <<holds, var>>

(* The arrays the program can point at: one of its own, one in its results. *)
Arrays(y) ==
    CASE Is(y, "array")   -> var[y].refs
      [] Is(y, "results") -> Roots(Inside(At(y)), {"array"})
      [] OTHER            -> {}

(* Variant: one index too many. *)
array_get_wide(y, i) ==
    \E b \in Arrays(y) :
        /\ lent' = IF i \in 0..Cardinality(DOMAIN holds[b]) THEN <<b, i + 1>> ELSE <<>>
        /\ UNCHANGED <<holds, var>>

(* sr_array_get: NULL for an index out of bounds; here indexes start at 1.   *)
array_get(y, i) ==
    \E b \in Arrays(y) :
        /\ lent' = IF i >= 0 /\ i < Cardinality(DOMAIN holds[b]) THEN <<b, i + 1>> ELSE <<>>
        /\ UNCHANGED <<holds, var>>

(* sr_object_keys: a buffer of strings, or null for an empty object. *)
object_keys(x, y) ==
    /\ var[x] = Nothing /\ Is(y, "object")
    /\ LET keys == DOMAIN holds[At(y)]
           n == Cardinality(keys)
       IN  IF n = 0
             THEN Assign(x, Ref("keys", {})) /\ UNCHANGED holds
             ELSE /\ Room(n + 1)
                  /\ Store({}, Over(One(New(n + 1), [i \in 1..n |-> Ref("string", {New(i)})]),
                                    Buffers(1, n)))
                  /\ Assign(x, Ref("keys", {New(n + 1)}))

(* A result of the database: nothing, a bare value or a row. *)
receive_empty(x) == var[x] = Nothing /\ Assign(x, Ref("vec", {})) /\ UNCHANGED holds

receive_value(x, kind) ==
    LET n == Width(kind) IN
    /\ var[x] = Nothing /\ Room(n + 1)
    /\ Store({}, Over(One(New(n + 1), <<Ref(kind, News(1, n))>>), Buffers(1, n)))
    /\ Assign(x, Ref("vec", {New(n + 1)}))

receive_row(x, k, kind) ==
    LET n == Width(kind) IN
    /\ var[x] = Nothing /\ Room(n + 2)
    /\ Store({}, Over(One(New(n + 2), <<Ref("object", {New(n + 1)})>>),
                      Over(One(New(n + 1), One(k, Ref(kind, News(1, n)))), Buffers(1, n))))
    /\ Assign(x, Ref("vec", {New(n + 2)}))

(* Of sr_query: a statement that returned an array of one value, then one    *)
(* that failed.                                                             *)
receive_results(x, kind) ==
    LET n == Width(kind) IN
    /\ var[x] = Nothing /\ Room(n + 3)
    /\ Store({}, Over(One(New(n + 3), <<Ref("array", {New(n + 1)}), Ref("string", {New(n + 2)})>>),
                      Over(One(New(n + 1), <<Ref(kind, News(1, n))>>),
                           Over(Buffers(n + 2, 1), Buffers(1, n)))))
    /\ Assign(x, Ref("results", {New(n + 3)}))

(* Variant: the pointer alone. *)
DropShallow(x) == Store(var[x].refs, <<>>) /\ Assign(x, Nothing) /\ LetGo(x)

(* Drop of what x holds: everything behind it that a Drop frees. *)
Drop(x) == Store(Reached({var[x]}, Dropped), <<>>) /\ Assign(x, Nothing) /\ LetGo(x)

value_free(x) == Is(x, "value") /\ Drop(x)
free_object(x) == Is(x, "object") /\ Drop(x)
array_free(x) == Is(x, "array") /\ Drop(x)
free_arr(x) == Is(x, "vec") /\ Drop(x)
free_string_arr(x) == Is(x, "keys") /\ Drop(x)
free_arr_res_arr(x) == Is(x, "results") /\ Drop(x)

(* What an operation can be given; a lent pointer is one to a value. *)
CanPass(x) == IF x = "lent" THEN lent # <<>> ELSE var[x].kind \in {"value", "object", "array"}
Passed(x) == IF x = "lent" THEN ValueAt(x) ELSE var[x]

(* Variant: the conversion is given x itself. *)
pass_consuming(x) ==
    /\ CanPass(x)
    /\ Store(Reached({Passed(x)}, AnyKind), <<>>)
    /\ UNCHANGED <<var, lent>>

(* An operation on a connection takes content, arguments or a value from x:  *)
(* `sdbValue::from(x.clone())`.  Of the clone only the geometries stay;   *)
(* of x itself the buffers go that the clone shares and the conversion takes. *)
pass(x) ==
    /\ CanPass(x)
    /\ LET at == Reached({Passed(x)}, Copied \cup {"value"})
           within == {Passed(x)} \cup UNION {Inside(b) : b \in at}
           kept == Roots(within, Copied \ Consumed)
           taken == Roots(within, Consumed \ Copied)
       IN  /\ Room(Cardinality(kept))
           /\ Store(taken, Buffers(1, Cardinality(kept)))
    /\ UNCHANGED <<var, lent>>

Fill(x) ==
    \/ \E kind \in Kind : value_new(x, kind) \/ receive_value(x, kind) \/ receive_results(x, kind)
    \/ value_array(x) \/ object_new(x) \/ receive_empty(x)
    \/ \E y \in Var : value_object(x, y) \/ object_keys(x, y)
    \/ \E k \in Key, kind \in Kind : receive_row(x, k, kind)
    \/ \E y \in Var \cup {"null"}, z \in Var \cup {"null", "lent"} : array_push(x, y, z)

Next ==
    \/ \E x \in Var : Fill(x) /\ UNCHANGED lent
    \/ \E y \in Var :
        \/ \E k \in Key, z \in Var \cup {"lent"} : insert(y, k, z)
        \/ \E k \in Key, kind \in {"scalar", "string"} : insert_new(y, k, kind)
        \/ \E k \in Key : object_get(y, k)
        \/ \E i \in -1..MaxLen : array_get(y, i)
        \/ value_free(y) \/ free_object(y) \/ array_free(y) \/ free_arr(y)
        \/ free_string_arr(y) \/ free_arr_res_arr(y)
    \/ \E x \in Var \cup {"lent"} : pass(x)

Spec == Init /\ [][Next]_vars

--------------------------------------------------------------------------------
(* Properties *)

Values == [kind : Leaf \cup Nest \cup {"none", "value", "vec", "keys", "results"}, refs : SUBSET Block]

TypeOK ==
    /\ Live \subseteq Block
    /\ \A b \in Live : DOMAIN holds[b] \subseteq Key \cup 1..MaxLen
                       /\ Inside(b) \subseteq Values
    /\ var \in [Var -> Values]
    /\ lent # <<>> => lent \in Block \X (Key \cup 1..MaxLen)

(* Every place a pointer can be: a variable (of the program, at "address" 0), *)
(* or an index or key of an allocation.                                     *)
Places == ({0} \X Var) \cup UNION {{b} \X DOMAIN holds[b] : b \in Live}
In(p) == IF p[1] = 0 THEN var[p[2]] ELSE holds[p[1]][p[2]]

(* No C variable and no value anywhere points to an allocation that was     *)
(* freed, and a lent pointer stays good until the program changes or frees   *)
(* the variable it was lent from, so that no later use or free goes wrong.   *)
NoDangling ==
    /\ \A p \in Places : In(p).refs \subseteq Live
    /\ lent # <<>> => lent[1] \in Live /\ lent[2] \in DOMAIN holds[lent[1]]

(* No two of them point to the same allocation, so that nothing is freed    *)
(* twice and no call changes what another variable holds.                   *)
OneOwner == \A p, q \in Places : p # q => In(p).refs \cap In(q).refs = {}

(* A program that frees each variable with the function the documentation   *)
(* names for it gives every allocation back.                                *)
NoLeak == Live \subseteq Reached(Range(var), AnyKind)

(* A call changes the variable it makes, frees or inserts into, and no       *)
(* other: all but one keep what they hold and everything behind it, also     *)
(* what was made from another variable or put into one.                     *)
Kept(x) ==
    /\ var'[x] = var[x]
    /\ \A b \in {c \in Live : c \notin Live' \/ holds'[c] # holds[c]} :
           b \notin Reached({var[x]}, AnyKind)
OthersKept == [][\A x, y \in {w \in Var : ~Kept(w)} : x = y]_vars
================================================================================
