--------------------------- MODULE ForeignValuesProofs --------------------------
(***************************************************************************)
(* ForeignHeap implements ValueStore.                                      *)
(***************************************************************************)
EXTENDS ForeignValues, ForeignHeapProofs

(* f reads the heap h: it says of each allocation what lies in it, all the   *)
(* way down.                                                                *)
Reads(f, h) == f = [b \in DOMAIN h |-> [i \in DOMAIN h[b] |-> Seen(f, h[b][i])]]

--------------------------------------------------------------------------------
(* A heap has one reading *)

LEMMA ReadsFacts ==
    ASSUME NEW f, NEW h, Reads(f, h)
    PROVE  /\ DOMAIN f = DOMAIN h
           /\ \A b \in DOMAIN h : f[b] = [i \in DOMAIN h[b] |-> Seen(f, h[b][i])]
           /\ \A b \in DOMAIN h : DOMAIN f[b] = DOMAIN h[b]
           /\ \A b \in DOMAIN h : \A i \in DOMAIN h[b] : f[b][i] = Seen(f, h[b][i])
<1>1. f = [b \in DOMAIN h |-> [i \in DOMAIN h[b] |-> Seen(f, h[b][i])]]
  BY DEF Reads
<1> HIDE DEF Seen
<1> QED
  BY <1>1

(* Two functions that say the same of what a value points to show the same. *)
LEMMA SameSeen ==
    ASSUME NEW f, NEW g, NEW v,
           \A r \in v.refs : (r \in DOMAIN f <=> r \in DOMAIN g) /\ (r \in DOMAIN f => f[r] = g[r])
    PROVE  Seen(f, v) = Seen(g, v)
<1>1. {f[r] : r \in v.refs \cap DOMAIN f} = {g[r] : r \in v.refs \cap DOMAIN g}
  OBVIOUS
<1> QED
  BY <1>1 DEF Seen

(* Two readings of a finite heap that is a tree, but for allocations in which *)
(* nothing lies, are equal: where they differ they differ further down, and    *)
(* as no two allocations lead to the same one, those where they differ lead   *)
(* to each other only, and not from the root.                               *)
LEMMA OneReading ==
    ASSUME NEW g, NEW r, NEW h, Tree(g, r), r \notin DOMAIN h, IsFiniteSet(DOMAIN h),
           \A b \in DOMAIN h : (b \in DOMAIN g /\ g[b] = h[b]) \/ DOMAIN h[b] = {},
           NEW f1, NEW f2, Reads(f1, h), Reads(f2, h)
    PROVE  f1 = f2
<1> DEFINE B == {b \in DOMAIN h : f1[b] # f2[b]}
<1>1. /\ DOMAIN f1 = DOMAIN h /\ DOMAIN f2 = DOMAIN h
      /\ f1 = [b \in DOMAIN h |-> f1[b]] /\ f2 = [b \in DOMAIN h |-> f2[b]]
      /\ \A b \in DOMAIN h : f1[b] = [i \in DOMAIN h[b] |-> Seen(f1, h[b][i])]
      /\ \A b \in DOMAIN h : f2[b] = [i \in DOMAIN h[b] |-> Seen(f2, h[b][i])]
  <2>1. f1 = [b \in DOMAIN f1 |-> f1[b]] /\ f2 = [b \in DOMAIN f2 |-> f2[b]]
    BY DEF Reads
  <2> QED
    BY <2>1, ReadsFacts
<1>2. ASSUME NEW b \in B
      PROVE  \E d \in B : \E i \in DOMAIN h[b] : d \in h[b][i].refs
  <2>1. PICK i \in DOMAIN h[b] : Seen(f1, h[b][i]) # Seen(f2, h[b][i])
    <3>1. /\ f1[b] = [i \in DOMAIN h[b] |-> Seen(f1, h[b][i])]
          /\ f2[b] = [i \in DOMAIN h[b] |-> Seen(f2, h[b][i])] /\ f1[b] # f2[b]
      BY <1>1
    <3> QED
      BY ONLY <3>1
  <2>2. PICK d \in h[b][i].refs : d \in DOMAIN h /\ f1[d] # f2[d]
    <3> SUFFICES ASSUME \A d \in h[b][i].refs : d \in DOMAIN h => f1[d] = f2[d] PROVE FALSE
      OBVIOUS
    <3>1. Seen(f1, h[b][i]) = Seen(f2, h[b][i])
      BY <1>1, SameSeen
    <3> QED
      BY <2>1, <3>1
  <2> QED
    BY <2>2
<1> DEFINE next(b) == CHOOSE d \in B : \E i \in DOMAIN h[b] : d \in h[b][i].refs
           child == [b \in B |-> next(b)]
<1>3. \A b \in B : next(b) \in B /\ \E i \in DOMAIN h[b] : next(b) \in h[b][i].refs
  <2> HIDE DEF B
  <2> QED
    BY <1>2
<1>4. \A b \in B : b \in DOMAIN g /\ g[b] = h[b]
  BY <1>2
<1> HIDE DEF next
<1>5. child \in [B -> B] /\ \A b \in B : child[b] \in B /\ \E i \in DOMAIN h[b] : child[b] \in h[b][i].refs
  BY <1>3
<1> HIDE DEF child
<1>6. \A a, b \in B : child[a] = child[b] => a = b
  BY <1>4, <1>5 DEF Tree, OwnedOnce
<1>7. \A d \in B : \E b \in B : child[b] = d
  <2>2. IsFiniteSet(B)
    <3>1. B \in SUBSET DOMAIN h
      OBVIOUS
    <3> HIDE DEF B
    <3> QED
      BY <3>1, FS_Subset
  <2> HIDE DEF B
  <2>3. child \in Injection(B, B)
    BY <1>5, <1>6 DEF Injection, IsInjective
  <2>4. child \in Surjection(B, B)
    BY <2>2, <2>3, FS_Injection
  <2> QED
    BY <2>4 DEF Surjection
<1> DEFINE S == DOMAIN g \ B
<1>8. S \in SUBSET DOMAIN g /\ r \in S
  BY DEF Tree
<1>9. Shut(S, g)
  <2> SUFFICES ASSUME NEW a \in S, NEW k \in DOMAIN g[a], NEW d \in g[a][k].refs, d \in B PROVE FALSE
    BY DEF Shut, Tree
  <2>1. PICK b \in B : child[b] = d
    BY <1>7
  <2>2. PICK i \in DOMAIN h[b] : d \in h[b][i].refs
    BY <1>5, <2>1
  <2>3. b \in DOMAIN g /\ i \in DOMAIN g[b] /\ d \in g[b][i].refs
    BY <1>4, <2>2
  <2> QED
    BY <2>3 DEF Tree, OwnedOnce
<1>10. B = {}
  <2>1. S = DOMAIN g
    BY <1>8, <1>9 DEF Tree
  <2> QED
    BY <1>4, <2>1
<1>11. \A b \in DOMAIN h : f1[b] = f2[b]
  BY <1>10
<1> QED
  BY <1>1, <1>11

--------------------------------------------------------------------------------
(* Reading the heap, before and after a step *)

(* After a step all pointers are live and no allocation has two readings. *)
LEMMA After ==
    ASSUME HeapInv'
    PROVE  /\ Shut(Live', holds') /\ (\A x \in Var : var'[x].refs \subseteq Live')
           /\ \A f1, f2 : Reads(f1, holds') /\ Reads(f2, holds') => f1 = f2
<1>1. PICK M : M = Lost'
  OBVIOUS
<1>2. /\ M \in SUBSET Live' /\ (\A b \in M : DOMAIN holds'[b] = {})
      /\ Tree(Rest(M)', 0)
  <2>1. Rooted(Lost)'
    BY DEF HeapInv
  <2> HIDE DEF Lost
  <2>2. Rest(Lost)' = Rest(M)'
    BY <1>1 DEF Rest
  <2> QED
    BY <1>1, <2>1, <2>2 DEF Rooted
<1>3. 0 \notin Live' /\ IsFiniteSet(Live') /\ Live' = DOMAIN holds'
  <2>1. Live' \in SUBSET Block /\ Live' = DOMAIN holds'
    BY DEF HeapInv, Sound, Live
  <2> QED
    BY <2>1, HereIsFinite, FS_Subset
<1> DEFINE W == Rest(M)'
<1>4. DOMAIN W = (Live' \ M) \cup {0} /\ W[0] = var' /\ (\A b \in Live' \ M : W[b] = holds'[b]) /\ Tree(W, 0)
  BY <1>2, <1>3, RestAfter
<1> HIDE DEF W
<1>5. Shut(Live', holds')
  BY <1>2, <1>3, <1>4 DEF Shut, Tree
<1>6. \A x \in Var : var'[x].refs \subseteq Live'
  BY <1>4 DEF Tree, HeapInv
<1>7. ASSUME NEW f1, NEW f2, Reads(f1, holds'), Reads(f2, holds') PROVE f1 = f2
  <2>1. \A b \in DOMAIN holds' : (b \in DOMAIN W /\ W[b] = holds'[b]) \/ DOMAIN holds'[b] = {}
    BY <1>2, <1>3, <1>4
  <2> QED
    BY <1>3, <1>4, <1>7, <2>1, OneReading
<1> QED
  BY <1>5, <1>6, <1>7

LEMMA Before == ASSUME HeapInv PROVE Shut(Live, holds) /\ \A x \in Var : var[x].refs \subseteq Live
BY WholeFacts, VarFacts DEF Shut, Tree, Owned

LEMMA Stored ==
    ASSUME NEW dead, NEW fresh, Store(dead, fresh)
    PROVE  /\ Live' = DOMAIN fresh \cup (Live \ dead)
           /\ \A a \in DOMAIN fresh : holds'[a] = fresh[a]
           /\ \A a \in Live \ dead : a \notin DOMAIN fresh => holds'[a] = holds[a]
<1>1. DOMAIN holds' = Live'
  BY DEF Live
<1> QED
  BY <1>1, StoreFacts

LEMMA ContentsRead ==
    ASSUME NEW f, Reads(f, holds)
    PROVE  Reads(Contents, holds)
<1>1. Contents = CHOOSE g : Reads(g, holds)
  BY DEF Contents, Reads, Live
<1> QED
  BY <1>1

LEMMA ContentsReadAfter ==
    ASSUME HeapInv', NEW f, Reads(f, holds')
    PROVE  Reads(Contents', holds') /\ Contents' = f
<1>1. Contents' = CHOOSE g : Reads(g, holds')
  BY DEF Contents, Reads, Live
<1>2. Reads(Contents', holds')
  BY <1>1
<1> QED
  BY <1>2, After

(* New allocations h and the content c they are for, which shows m. *)
Shows(c, h, m) ==
    /\ DOMAIN h \subseteq Free /\ Shut(DOMAIN h, h) /\ \A k \in DOMAIN c : c[k].refs \subseteq DOMAIN h
    /\ \E t : Reads(t, h) /\ m = [k \in DOMAIN c |-> Seen(t, c[k])]

(* A step frees some allocations, makes those of h and puts c, that points    *)
(* to them, into b, if b is one.                                            *)
Changed(b, c, h) ==
    /\ DOMAIN h \subseteq Free /\ b \notin DOMAIN h
    /\ DOMAIN h \subseteq Live' /\ Live' \subseteq Live \cup DOMAIN h
    /\ \A a \in DOMAIN h : holds'[a] = h[a]
    /\ \A a \in Live \cap Live' : a # b => holds'[a] = holds[a]
    /\ b \in Live => /\ b \in Live' /\ holds'[b] = Over(c, holds[b])
                     /\ \A a \in Live : \A k \in DOMAIN holds[a] : b \notin holds[a][k].refs

(* Then what lies in b shows m over what it did, and all else the same. *)
LEMMA Reread ==
    ASSUME HeapInv, HeapInv', Reads(Contents, holds), NEW b, NEW c, NEW h, NEW m, Shows(c, h, m), Changed(b, c, h)
    PROVE  /\ Reads(Contents', holds')
           /\ b \in Live => Contents'[b] = Over(m, Contents[b])
           /\ \A v : v.refs \subseteq (Live \cap Live') \ {b} => Seen(Contents', v) = Seen(Contents, v)
           /\ \A k \in DOMAIN c : Seen(Contents', c[k]) = m[k]
<1>1. PICK t : Reads(t, h) /\ m = [k \in DOMAIN c |-> Seen(t, c[k])]
  BY DEF Shows
<1>2. DOMAIN t = DOMAIN h /\ DOMAIN Contents = Live /\ DOMAIN h \cap Live = {}
  BY <1>1, ReadsFacts DEF Changed, Free, Live
<1> DEFINE f == [a \in Live' |-> IF a = b THEN Over(m, Contents[b])
                                 ELSE IF a \in DOMAIN t THEN t[a] ELSE Contents[a]]
<1>3. /\ DOMAIN f = Live'
      /\ \A a \in Live' : a = b => f[a] = Over(m, Contents[b])
      /\ \A a \in DOMAIN t : a \in Live' /\ (a # b => f[a] = t[a])
      /\ \A a \in Live \cap Live' : a # b => f[a] = Contents[a]
  BY <1>2 DEF Changed
<1> HIDE DEF f
<1>4. ASSUME NEW v, v.refs \subseteq DOMAIN h PROVE Seen(f, v) = Seen(t, v)
  <2>1. \A r \in v.refs : r \in DOMAIN f /\ r \in DOMAIN t /\ f[r] = t[r]
    BY <1>2, <1>3, <1>4 DEF Changed
  <2> QED
    BY <2>1, SameSeen
<1>5. ASSUME NEW v, v.refs \subseteq (Live \cap Live') \ {b} PROVE Seen(f, v) = Seen(Contents, v)
  <2>1. \A r \in v.refs : r \in DOMAIN f /\ r \in DOMAIN Contents /\ f[r] = Contents[r]
    BY <1>2, <1>3, <1>5
  <2> QED
    BY <2>1, SameSeen
<1>6. /\ Shut(Live, holds) /\ Shut(Live', holds')
      /\ \A a \in Live : \A k \in DOMAIN holds[a] : b \notin holds[a][k].refs
  <2>1. Shut(Live, holds) /\ Shut(Live', holds')
    BY Before, After
  <2> QED
    BY <2>1 DEF Shut, Changed
<1>7. ASSUME NEW a \in Live' PROVE f[a] = [i \in DOMAIN holds'[a] |-> Seen(f, holds'[a][i])]
  <2>1. CASE a \in DOMAIN h
    <3>1. f[a] = t[a] /\ holds'[a] = h[a] /\ t[a] = [i \in DOMAIN h[a] |-> Seen(t, h[a][i])]
      <4>1. t[a] = [i \in DOMAIN h[a] |-> Seen(t, h[a][i])]
        BY <1>1, <2>1, ReadsFacts
      <4> QED
        BY <1>2, <1>3, <2>1, <4>1 DEF Changed
    <3>2. \A i \in DOMAIN h[a] : Seen(f, h[a][i]) = Seen(t, h[a][i])
      BY <1>4, <2>1 DEF Shows, Shut
    <3> QED
      BY <3>1, <3>2
  <2>2. CASE a \in Live /\ a # b
    <3>1. f[a] = Contents[a] /\ holds'[a] = holds[a]
          /\ Contents[a] = [i \in DOMAIN holds[a] |-> Seen(Contents, holds[a][i])]
      BY <1>3, <2>2, ReadsFacts DEF Changed, Live
    <3>2. \A i \in DOMAIN holds[a] : Seen(f, holds[a][i]) = Seen(Contents, holds[a][i])
      BY <1>5, <1>6, <2>2, <3>1 DEF Shut
    <3> QED
      BY <3>1, <3>2
  <2>3. CASE a \in Live /\ a = b
    <3>1. f[a] = Over(m, Contents[a]) /\ holds'[a] = Over(c, holds[a])
          /\ Contents[a] = [i \in DOMAIN holds[a] |-> Seen(Contents, holds[a][i])]
          /\ m = [k \in DOMAIN c |-> Seen(t, c[k])]
      BY <1>1, <1>3, <2>3, ReadsFacts DEF Changed, Live
    <3>2. /\ DOMAIN holds'[a] = DOMAIN c \cup DOMAIN holds[a]
          /\ \A i \in DOMAIN c : holds'[a][i] = c[i]
          /\ \A i \in DOMAIN holds[a] \ DOMAIN c : holds'[a][i] = holds[a][i]
      BY <3>1 DEF Over
    <3>3. /\ f[a] = [i \in DOMAIN c \cup DOMAIN holds[a] |->
                        IF i \in DOMAIN c THEN Seen(t, c[i]) ELSE Seen(Contents, holds[a][i])]
      BY <3>1 DEF Over
    <3>4. \A i \in DOMAIN c : Seen(f, c[i]) = Seen(t, c[i])
      BY <1>4 DEF Shows
    <3>5. \A i \in DOMAIN holds[a] \ DOMAIN c : Seen(f, holds[a][i]) = Seen(Contents, holds[a][i])
      BY <1>5, <1>6, <2>3, <3>2 DEF Shut
    <3> QED
      BY <3>2, <3>3, <3>4, <3>5
  <2> QED
    BY <2>1, <2>2, <2>3 DEF Changed
<1>8. Reads(f, holds')
  <2>1. f = [a \in Live' |-> [i \in DOMAIN holds'[a] |-> Seen(f, holds'[a][i])]]
    <3>1. f = [a \in Live' |-> f[a]]
      BY <1>3 DEF f
    <3> QED
      BY <1>7, <3>1
  <2> QED
    BY <2>1 DEF Reads, Live
<1>9. Reads(Contents', holds') /\ Contents' = f
  BY <1>8, ContentsReadAfter
<1>10. \A k \in DOMAIN c : Seen(f, c[k]) = m[k]
  BY <1>1, <1>4 DEF Shows
<1> QED
  BY <1>3, <1>5, <1>9, <1>10 DEF Changed

--------------------------------------------------------------------------------
(* The invariant *)

(* The variable y lends the allocation b: an object, or an array, of its own  *)
(* or in its results.                                                       *)
Lends(y, b) == (Is(y, "object") /\ b = At(y)) \/ b \in Arrays(y)

ReadInv ==
    /\ HeapInv /\ Reads(Contents, holds)
    /\ lent # <<>> => \E y \in Var : Lends(y, lent[1])

(* What a variable lends lies below it, and it keeps lending it while what    *)
(* lies there is kept.                                                      *)
LEMMA LendsFacts ==
    ASSUME HeapInv, NEW y \in Var, NEW b, Lends(y, b)
    PROVE  /\ b \in Reached({var[y]}, AnyKind) /\ b \in Live /\ var[y] # Nothing
           /\ Kept(y) => Lends(y, b)'
<1> DEFINE D == Reached({var[y]}, AnyKind)
<1>1. var[y].kind \in {"object", "array", "results"} /\ var[y] # Nothing
  BY DEF Lends, Is, Arrays, Nothing, Ref
<1>2. At(y) \in Owned /\ var[y].refs = {At(y)}
  BY <1>1, AtFacts DEF Nest
<1>3. Below(D, {var[y]}, Whole) /\ D \subseteq Owned
  <2>1. \A v \in {var[y]} : v.refs \subseteq Owned /\ (v.refs # {} => v.kind \in AnyKind)
    BY VarFacts, GrowsFacts
  <2> QED
    BY <2>1, GrowsFacts, ReachedBelow
<1>4. At(y) \in D
  BY <1>2, <1>3 DEF Below
<1>5. b \in D
  <2>1. CASE Is(y, "results") /\ b \in Arrays(y)
    <3>1. PICK v \in Inside(At(y)) : b \in v.refs
      BY <2>1 DEF Arrays, Is, Roots
    <3>2. PICK i \in DOMAIN holds[At(y)] : v = holds[At(y)][i]
      BY <3>1 DEF Inside, Range
    <3>3. v.refs \subseteq D
      BY <1>2, <1>3, <1>4, <3>2, WholeFacts DEF Below, Shut
    <3> QED
      BY <3>1, <3>3
  <2>2. CASE ~(Is(y, "results") /\ b \in Arrays(y))
    BY <1>2, <1>4, <2>2 DEF Lends, Arrays, Is
  <2> QED
    BY <2>1, <2>2
<1>6. ASSUME Kept(y) PROVE Lends(y, b)'
  <2>1. var'[y] = var[y] /\ At(y)' = At(y)
    BY <1>6 DEF Kept, At
  <2>2. holds'[At(y)] = holds[At(y)]
    BY <1>2, <1>4, <1>6 DEF Kept, Owned
  <2>3. Inside(At(y))' = Inside(At(y))
    BY <2>1, <2>2 DEF Inside
  <2> QED
    BY <2>1, <2>3 DEF Lends, Arrays, Is
<1> QED
  BY <1>1, <1>3, <1>5, <1>6 DEF Owned

(* Where a step changes x only and lets go of what it lent, a pointer that is *)
(* still lent is lent by a variable as before.                              *)
LEMMA StillLent ==
    ASSUME ReadInv, NEW x \in Var, \A y \in Var \ {x} : Kept(y),
           (var[x] = Nothing /\ lent' = lent) \/ LetGo(x)
    PROVE  lent' # <<>> => \E y \in Var : Lends(y, lent[1])' /\ lent' = lent
<1> SUFFICES ASSUME lent' # <<>> PROVE \E y \in Var : Lends(y, lent[1])' /\ lent' = lent
  OBVIOUS
<1>1. lent' = lent /\ lent # <<>> /\ (var[x] = Nothing \/ lent[1] \notin Reached({var[x]}, AnyKind))
  BY DEF LetGo
<1>2. PICK y \in Var : Lends(y, lent[1])
  BY <1>1 DEF ReadInv
<1>3. y # x
  BY <1>1, <1>2, LendsFacts DEF ReadInv
<1> QED
  BY <1>1, <1>2, <1>3, LendsFacts DEF ReadInv
--------------------------------------------------------------------------------
(* What a step does to the trees *)

LEMMA TreesFacts == DOMAIN Trees = Var /\ \A x \in Var : Trees[x] = Seen(Contents, var[x])
BY DEF Trees, TreeOf

LEMMA TreesAfter ==
    ASSUME NEW x \in Var, NEW t, Seen(Contents', var'[x]) = t,
           \A y \in Var \ {x} : Seen(Contents', var'[y]) = Seen(Contents, var[y])
    PROVE  Trees' = [Trees EXCEPT ![x] = t]
<1>1. Trees' = [y \in Var |-> Seen(Contents', var'[y])]
  BY DEF Trees, TreeOf
<1>2. Trees = [y \in Var |-> Seen(Contents, var[y])]
  BY DEF Trees, TreeOf
<1> HIDE DEF Trees
<1>3. [Trees EXCEPT ![x] = t] = [y \in Var |-> IF y = x THEN t ELSE Seen(Contents, var[y])]
  BY <1>2
<1>4. \A y \in Var : Seen(Contents', var'[y]) = IF y = x THEN t ELSE Seen(Contents, var[y])
  OBVIOUS
<1> QED
  BY <1>1, <1>3, <1>4

(* A variable becomes what the abstract specification lets it. *)
LEMMA Becomes ==
    ASSUME NEW x \in Var, NEW t, Trees' = [Trees EXCEPT ![x] = t], Abstract!MayBecome(x, t)
    PROVE  Abstract!Next \/ Trees' = Trees
<1>1. CASE t = Trees[x]
  <2>1. Trees' = Trees
    BY <1>1 DEF Trees
  <2> QED
    BY <2>1
<1>2. CASE t # Trees[x]
  <2>1. Trees'[x] = t
    BY TreesFacts
  <2>2. Trees' # Trees
    BY <1>2, <2>1
  <2> QED
    BY <1>2, <2>1, <2>2 DEF Abstract!Next
<1> QED
  BY <1>1, <1>2

(* A step that makes what v points to and assigns v to x. *)
LEMMA FillTree ==
    ASSUME ReadInv, NEW x \in Var, Safe(x), var[x] = Nothing, NEW v, NEW fresh, NEW t,
           Shows(One(x, v), fresh, One(x, t)), Store({}, fresh), Assign(x, v), UNCHANGED lent
    PROVE  ReadInv' /\ Trees' = [Trees EXCEPT ![x] = t]
<1> DEFINE c == One(x, v)
           m == One(x, t)
<1>1. DOMAIN c = {x} /\ c[x] = v /\ m[x] = t
  BY DEF One
<1> HIDE DEF c, m
<1>2. /\ Live' = DOMAIN fresh \cup Live
      /\ \A a \in DOMAIN fresh : holds'[a] = fresh[a]
      /\ \A a \in Live : a \notin DOMAIN fresh => holds'[a] = holds[a]
  <2>1. \A a : a \in Live \ {} <=> a \in Live
    OBVIOUS
  <2> QED
    BY <2>1, Stored
<1>3. 0 \notin Live /\ 0 \notin DOMAIN fresh /\ DOMAIN fresh \subseteq Free
  BY HereIsFinite, WholeFacts DEF Shows, ReadInv
<1>4. Changed(0, c, fresh)
  BY <1>2, <1>3 DEF Changed, Free
<1>5. HeapInv /\ HeapInv' /\ Reads(Contents, holds) /\ Shows(c, fresh, m)
  BY DEF ReadInv, Safe, c, m
<1>6. /\ Reads(Contents', holds')
      /\ \A w : w.refs \subseteq (Live \cap Live') \ {0} => Seen(Contents', w) = Seen(Contents, w)
      /\ \A k \in DOMAIN c : Seen(Contents', c[k]) = m[k]
  BY <1>4, <1>5, Reread
<1>7. var' = [var EXCEPT ![x] = v] /\ DOMAIN var = Var
  BY <1>5 DEF Assign, HeapInv
<1>8. Trees' = [Trees EXCEPT ![x] = t]
  <2>1. Seen(Contents', var'[x]) = t
    BY <1>1, <1>6, <1>7
  <2>2. ASSUME NEW y \in Var \ {x} PROVE Seen(Contents', var'[y]) = Seen(Contents, var[y])
    <3>1. var'[y] = var[y] /\ var[y].refs \subseteq (Live \cap Live') \ {0}
      BY <1>2, <1>3, <1>5, <1>7, Before
    <3> QED
      BY <1>6, <3>1
  <2> QED
    BY <2>1, <2>2, TreesAfter
<1>9. lent' # <<>> => \E y \in Var : Lends(y, lent[1])'
  BY StillLent DEF Safe
<1> QED
  BY <1>5, <1>6, <1>8, <1>9 DEF ReadInv
(* A Drop leaves nothing in x. *)
LEMMA DropTree ==
    ASSUME ReadInv, NEW x \in Var, Safe(x), Drop(x)
    PROVE  ReadInv' /\ Trees' = [Trees EXCEPT ![x] = Abstract!Nothing]
<1> DEFINE none == [b \in {} |-> <<>>]
           dead == Reached({var[x]}, Dropped)
<1>1. Live' = Live \ dead /\ \A a \in Live \ dead : holds'[a] = holds[a]
  <2>1. Store(dead, <<>>) /\ DOMAIN <<>> = {}
    BY DEF Drop
  <2> HIDE DEF dead
  <2> QED
    BY <2>1, Stored
<1>2. 0 \notin Live
  BY WholeFacts DEF ReadInv
<1>3. Changed(0, none, none)
  BY <1>1, <1>2 DEF Changed
<1>4. Shows(none, none, none)
  <2>1. Reads(none, none) /\ none = [k \in DOMAIN none |-> Seen(none, none[k])]
    BY DEF Reads
  <2> QED
    BY <2>1 DEF Shows, Shut
<1> HIDE DEF none, dead
<1>5. HeapInv /\ HeapInv' /\ Reads(Contents, holds)
  BY DEF ReadInv, Safe
<1>6. /\ Reads(Contents', holds')
      /\ \A w : w.refs \subseteq (Live \cap Live') \ {0} => Seen(Contents', w) = Seen(Contents, w)
  BY <1>3, <1>4, <1>5, Reread
<1>7. var' = [var EXCEPT ![x] = Nothing] /\ DOMAIN var = Var
  BY <1>5 DEF Drop, Assign, HeapInv
<1>8. Trees' = [Trees EXCEPT ![x] = Abstract!Nothing]
  <2>1. Seen(Contents', var'[x]) = Abstract!Nothing
    BY <1>7 DEF Seen, Nothing, Ref, Abstract!Nothing, Abstract!Tree
  <2>2. ASSUME NEW y \in Var \ {x} PROVE Seen(Contents', var'[y]) = Seen(Contents, var[y])
    <3>1. var'[y] = var[y] /\ var[y].refs \subseteq Live'
      BY <1>5, <1>7, After
    <3>2. var[y].refs \subseteq (Live \cap Live') \ {0}
      BY <1>1, <1>2, <3>1
    <3> QED
      BY <1>6, <3>1, <3>2
  <2> QED
    BY <2>1, <2>2, TreesAfter
<1>9. lent' # <<>> => \E y \in Var : Lends(y, lent[1])'
  BY StillLent DEF Safe, Drop
<1> QED
  BY <1>5, <1>6, <1>8, <1>9 DEF ReadInv

(* A step that puts v, with what it points to, into the object of y. *)
LEMMA PutTree ==
    ASSUME ReadInv, NEW y \in Var, Safe(y), Is(y, "object"), NEW k, NEW v, NEW fresh, NEW t,
           Shows(One(k, v), fresh, One(k, t)), PutAt(y, k, v, fresh), LetGo(y), UNCHANGED var
    PROVE  /\ ReadInv'
           /\ Trees' = [Trees EXCEPT ![y] = Abstract!Tree("object", {Over(One(k, t), Contents[At(y)])})]
<1> DEFINE c == One(k, v)
           m == One(k, t)
           b == At(y)
           old == IF k \in DOMAIN holds[b] THEN {holds[b][k]} ELSE {}
           dead == Reached(old, Dropped)
           f == Over(One(b, Over(c, holds[b])), fresh)
<1>1. HeapInv /\ HeapInv' /\ Reads(Contents, holds)
  BY DEF ReadInv, Safe
<1>2. b \in Owned /\ b \in Live /\ var[y].refs = {b} /\ var[y].kind = "object"
  BY <1>1, AtFacts DEF Is, Nest
<1>3. /\ Live' = DOMAIN f \cup (Live \ dead)
      /\ \A a \in DOMAIN f : holds'[a] = f[a]
      /\ \A a \in Live \ dead : a \notin DOMAIN f => holds'[a] = holds[a]
  <2>1. Store(dead, f)
    BY DEF PutAt
  <2> HIDE DEF dead, f
  <2> QED
    BY <2>1, Stored
<1>4. DOMAIN fresh \subseteq Free /\ b \notin DOMAIN fresh
  BY <1>2 DEF Shows, Free
<1>5. DOMAIN f = {b} \cup DOMAIN fresh /\ f[b] = Over(c, holds[b])
      /\ \A a \in DOMAIN fresh : f[a] = fresh[a]
  BY <1>4 DEF Over, One
<1> HIDE DEF c, m, b, dead, f
<1>6. ASSUME NEW a \in Live, NEW l \in DOMAIN holds[a] PROVE b \notin holds[a][l].refs
  <2>1. b \in Whole[0][y].refs /\ y \in DOMAIN Whole[0] /\ 0 \in DOMAIN Whole
    BY <1>1, <1>2, WholeFacts DEF HeapInv
  <2>2. a \in DOMAIN Whole /\ a # 0 /\ Whole[a] = holds[a]
    BY <1>1, WholeFacts DEF Owned
  <2> QED
    BY <1>1, <2>1, <2>2, WholeFacts DEF Tree, OwnedOnce
<1>7. Changed(b, c, fresh)
  BY <1>2, <1>3, <1>4, <1>5, <1>6 DEF Changed, Free
<1>8. Shows(c, fresh, m)
  BY DEF c, m
<1>9. /\ Reads(Contents', holds')
      /\ Contents'[b] = Over(m, Contents[b])
      /\ \A w : w.refs \subseteq (Live \cap Live') \ {b} => Seen(Contents', w) = Seen(Contents, w)
  BY <1>1, <1>2, <1>7, <1>8, Reread
<1>10. Trees' = [Trees EXCEPT ![y] = Abstract!Tree("object", {Over(m, Contents[b])})]
  <2>1. Seen(Contents', var'[y]) = Abstract!Tree("object", {Over(m, Contents[b])})
    <3>1. DOMAIN Contents' = Live' /\ b \in Live'
      BY <1>3, <1>5, <1>9, ReadsFacts DEF Live
    <3>2. {Contents'[r] : r \in var'[y].refs \cap DOMAIN Contents'} = {Over(m, Contents[b])}
      BY <1>2, <1>9, <3>1
    <3> QED
      BY <1>2, <3>2 DEF Seen, Abstract!Tree
  <2>2. ASSUME NEW x \in Var \ {y} PROVE Seen(Contents', var'[x]) = Seen(Contents, var[x])
    <3>1. var'[x] = var[x] /\ var[x].refs \subseteq Live' /\ var[x].refs \subseteq Live
      BY <1>1, Before, After
    <3>2. b \notin var[x].refs
      <4>1. x \in DOMAIN Whole[0] /\ y \in DOMAIN Whole[0] /\ 0 \in DOMAIN Whole
            /\ Whole[0] = var /\ Tree(Whole, 0)
        BY <1>1, WholeFacts DEF HeapInv
      <4> QED
        BY <1>2, <4>1 DEF Tree, OwnedOnce
    <3> QED
      BY <1>9, <3>1, <3>2
  <2> QED
    BY <2>1, <2>2, TreesAfter
<1>11. lent' # <<>> => \E x \in Var : Lends(x, lent[1])'
  BY StillLent DEF Safe
<1> QED
  BY <1>1, <1>9, <1>10, <1>11 DEF ReadInv, m, b

--------------------------------------------------------------------------------
(* What operations make shows the trees they are to make *)

LEMMA LeafShows ==
    ASSUME NEW k, NEW kind, NEW N \in SUBSET Free
    PROVE  Shows(One(k, Ref(kind, N)), [b \in N |-> <<>>],
                 One(k, Abstract!Tree(kind, IF N = {} THEN {} ELSE {<<>>})))
<1> DEFINE v == Ref(kind, N)
           c == One(k, v)
           h == [b \in N |-> <<>>]
           m == One(k, Abstract!Tree(kind, IF N = {} THEN {} ELSE {<<>>}))
<1>1. DOMAIN c = {k} /\ c[k] = v /\ v.refs = N /\ v.kind = kind
  BY DEF One, Ref
<1>2. DOMAIN h = N /\ \A b \in N : h[b] = <<>> /\ DOMAIN h[b] = {}
  OBVIOUS
<1>3. Reads(h, h)
  <2>1. \A f : <<>> = [i \in DOMAIN <<>> |-> Seen(f, <<>>[i])]
    OBVIOUS
  <2> HIDE DEF Seen
  <2> QED
    BY <2>1 DEF Reads
<1>4. m = [l \in DOMAIN c |-> Seen(h, c[l])]
  <2>1. {h[r] : r \in N \cap N} = IF N = {} THEN {} ELSE {<<>>}
    BY <1>2
  <2>2. Seen(h, v) = Abstract!Tree(kind, IF N = {} THEN {} ELSE {<<>>})
    BY <1>1, <1>2, <2>1 DEF Seen, Abstract!Tree
  <2> QED
    BY <1>1, <2>2 DEF One
<1> HIDE DEF c, h, v, m
<1>5. Shows(c, h, m)
  BY <1>1, <1>2, <1>3, <1>4 DEF Shows, Shut
<1> QED
  BY <1>5 DEF c, h, v, m

LEMMA BoxShows ==
    ASSUME NEW k, NEW kind, NEW c, NEW h, NEW m, Shows(c, h, m), NEW q \in Free, q \notin DOMAIN h
    PROVE  Shows(One(k, Ref(kind, {q})), Over(One(q, c), h), One(k, Abstract!Tree(kind, {m})))
<1> DEFINE v == Ref(kind, {q})
           d == One(k, v)
           g == Over(One(q, c), h)
           n == One(k, Abstract!Tree(kind, {m}))
<1>1. PICK t : Reads(t, h) /\ m = [i \in DOMAIN c |-> Seen(t, c[i])]
  BY DEF Shows
<1> DEFINE u == Over(One(q, m), t)
<1>2. DOMAIN d = {k} /\ d[k] = v /\ v.refs = {q} /\ v.kind = kind
  BY DEF One, Ref
<1>3. DOMAIN g = DOMAIN h \cup {q} /\ g[q] = c /\ \A b \in DOMAIN h : g[b] = h[b]
  BY DEF Over, One
<1>4. DOMAIN t = DOMAIN h /\ \A b \in DOMAIN h : t[b] = [i \in DOMAIN h[b] |-> Seen(t, h[b][i])]
  BY <1>1, ReadsFacts
<1>5. /\ DOMAIN u = DOMAIN g /\ u[q] = m /\ (\A b \in DOMAIN h : u[b] = t[b])
      /\ u = [b \in DOMAIN g |-> u[b]]
  BY <1>3, <1>4 DEF Over, One
<1> HIDE DEF d, g, u, v
<1>6. ASSUME NEW w, w.refs \subseteq DOMAIN h PROVE Seen(u, w) = Seen(t, w)
  BY <1>3, <1>4, <1>5, <1>6, SameSeen
<1>7. ASSUME NEW b \in DOMAIN g PROVE u[b] = [i \in DOMAIN g[b] |-> Seen(u, g[b][i])]
  <2>1. CASE b = q
    <3>1. \A i \in DOMAIN c : Seen(u, c[i]) = Seen(t, c[i])
      BY <1>6 DEF Shows
    <3> QED
      BY <1>1, <1>3, <1>5, <2>1, <3>1
  <2>2. CASE b \in DOMAIN h
    <3>1. \A i \in DOMAIN h[b] : Seen(u, h[b][i]) = Seen(t, h[b][i])
      BY <1>6, <2>2 DEF Shows, Shut
    <3>2. g[b] = h[b] /\ u[b] = [i \in DOMAIN h[b] |-> Seen(t, h[b][i])]
      BY <1>3, <1>4, <1>5, <2>2
    <3> QED
      BY <3>1, <3>2
  <2> QED
    BY <1>3, <2>1, <2>2
<1>8. Reads(u, g)
  BY <1>5, <1>7 DEF Reads
<1>9. n = [l \in DOMAIN d |-> Seen(u, d[l])]
  <2>1. {u[r] : r \in {q} \cap DOMAIN u} = {m}
    BY <1>3, <1>5
  <2>2. Seen(u, v) = Abstract!Tree(kind, {m})
    BY <1>2, <2>1 DEF Seen, Abstract!Tree
  <2> QED
    BY <1>2, <2>2 DEF One
<1>10. DOMAIN g \subseteq Free /\ Shut(DOMAIN g, g) /\ \A l \in DOMAIN d : d[l].refs \subseteq DOMAIN g
  BY <1>2, <1>3 DEF Shows, Shut
<1> HIDE DEF n
<1>11. Shows(d, g, n)
  BY <1>8, <1>9, <1>10 DEF Shows
<1> QED
  BY <1>11 DEF d, g, n, v

LEMMA BothShow ==
    ASSUME NEW c1, NEW h1, NEW m1, NEW c2, NEW h2, NEW m2, Shows(c1, h1, m1), Shows(c2, h2, m2),
           DOMAIN c1 \cap DOMAIN c2 = {}, DOMAIN h1 \cap DOMAIN h2 = {}
    PROVE  Shows(Over(c1, c2), Over(h1, h2), Over(m1, m2))
<1> DEFINE c == Over(c1, c2)
           h == Over(h1, h2)
           m == Over(m1, m2)
<1>1. PICK t1 : Reads(t1, h1) /\ m1 = [k \in DOMAIN c1 |-> Seen(t1, c1[k])]
  BY DEF Shows
<1>2. PICK t2 : Reads(t2, h2) /\ m2 = [k \in DOMAIN c2 |-> Seen(t2, c2[k])]
  BY DEF Shows
<1> DEFINE t == Over(t1, t2)
<1>3. /\ DOMAIN h = DOMAIN h1 \cup DOMAIN h2
      /\ \A b \in DOMAIN h1 : h[b] = h1[b]
      /\ \A b \in DOMAIN h2 : h[b] = h2[b]
  BY DEF Over
<1>4. /\ DOMAIN c = DOMAIN c1 \cup DOMAIN c2
      /\ \A b \in DOMAIN c1 : c[b] = c1[b]
      /\ \A b \in DOMAIN c2 : c[b] = c2[b]
  BY DEF Over
<1>5. /\ DOMAIN t1 = DOMAIN h1 /\ \A b \in DOMAIN h1 : t1[b] = [i \in DOMAIN h1[b] |-> Seen(t1, h1[b][i])]
      /\ DOMAIN t2 = DOMAIN h2 /\ \A b \in DOMAIN h2 : t2[b] = [i \in DOMAIN h2[b] |-> Seen(t2, h2[b][i])]
  BY <1>1, <1>2, ReadsFacts
<1>6. /\ DOMAIN t = DOMAIN h /\ t = [b \in DOMAIN h |-> t[b]]
      /\ \A b \in DOMAIN h1 : t[b] = t1[b]
      /\ \A b \in DOMAIN h2 : t[b] = t2[b]
  BY <1>3, <1>5 DEF Over
<1> HIDE DEF c, h, t
<1>7. ASSUME NEW w, w.refs \subseteq DOMAIN h1 PROVE Seen(t, w) = Seen(t1, w)
  BY <1>3, <1>5, <1>6, <1>7, SameSeen
<1>8. ASSUME NEW w, w.refs \subseteq DOMAIN h2 PROVE Seen(t, w) = Seen(t2, w)
  BY <1>3, <1>5, <1>6, <1>8, SameSeen
<1>9. ASSUME NEW b \in DOMAIN h PROVE t[b] = [i \in DOMAIN h[b] |-> Seen(t, h[b][i])]
  <2>1. CASE b \in DOMAIN h1
    <3>1. \A i \in DOMAIN h1[b] : Seen(t, h1[b][i]) = Seen(t1, h1[b][i])
      BY <1>7, <2>1 DEF Shows, Shut
    <3>2. h[b] = h1[b] /\ t[b] = [i \in DOMAIN h1[b] |-> Seen(t1, h1[b][i])]
      BY <1>3, <1>5, <1>6, <2>1
    <3> QED
      BY <3>1, <3>2
  <2>2. CASE b \in DOMAIN h2
    <3>1. \A i \in DOMAIN h2[b] : Seen(t, h2[b][i]) = Seen(t2, h2[b][i])
      BY <1>8, <2>2 DEF Shows, Shut
    <3>2. h[b] = h2[b] /\ t[b] = [i \in DOMAIN h2[b] |-> Seen(t2, h2[b][i])]
      BY <1>3, <1>5, <1>6, <2>2
    <3> QED
      BY <3>1, <3>2
  <2> QED
    BY <1>3, <2>1, <2>2
<1>10. Reads(t, h)
  BY <1>6, <1>9 DEF Reads
<1>11. m = [k \in DOMAIN c |-> Seen(t, c[k])]
  <2>1. m = [k \in DOMAIN c1 \cup DOMAIN c2 |-> IF k \in DOMAIN c1 THEN Seen(t1, c1[k]) ELSE Seen(t2, c2[k])]
    BY <1>1, <1>2 DEF Over
  <2>2. \A k \in DOMAIN c1 : Seen(t, c[k]) = Seen(t1, c1[k])
    BY <1>4, <1>7 DEF Shows
  <2>3. \A k \in DOMAIN c2 : Seen(t, c[k]) = Seen(t2, c2[k])
    BY <1>4, <1>8 DEF Shows
  <2> QED
    BY <1>4, <2>1, <2>2, <2>3
<1>12. DOMAIN h \subseteq Free /\ Shut(DOMAIN h, h) /\ \A k \in DOMAIN c : c[k].refs \subseteq DOMAIN h
  BY <1>3, <1>4 DEF Shows, Shut
<1> HIDE DEF m
<1>13. Shows(c, h, m)
  BY <1>10, <1>11, <1>12 DEF Shows
<1> QED
  BY <1>13 DEF c, h, m

(* A faithful copy shows what the original does. *)
LEMMA CopyShows ==
    ASSUME Reads(Contents, holds), NEW s, NEW c, NEW h, Faithful(s, c, h), DOMAIN h \subseteq Free
    PROVE  Shows(c, h, [i \in DOMAIN s |-> Seen(Contents, s[i])])
<1> DEFINE m == [i \in DOMAIN s |-> Seen(Contents, s[i])]
<1>1. PICK f, D :
        /\ D \in SUBSET Live /\ Shut(D, holds) /\ \A i \in DOMAIN s : s[i].refs \subseteq D
        /\ \A a, d \in D : f[a] = f[d] => a = d
        /\ CopiedTo(f, holds, D, s, c, h)
        /\ \A a \in D : \A k \in DOMAIN holds[a] : h[f[a]][k].kind = holds[a][k].kind
        /\ \A i \in DOMAIN s : c[i].kind = s[i].kind
  BY DEF Faithful
<1>2. /\ DOMAIN h = {f[a] : a \in D}
      /\ \A a \in D : DOMAIN h[f[a]] = DOMAIN holds[a]
      /\ \A a \in D : \A k \in DOMAIN holds[a] : h[f[a]][k].refs = {f[d] : d \in holds[a][k].refs}
      /\ DOMAIN c = DOMAIN s
      /\ \A i \in DOMAIN s : c[i].refs = {f[d] : d \in s[i].refs}
  BY <1>1 DEF CopiedTo
<1> DEFINE from(e) == CHOOSE a \in D : f[a] = e
           t == [e \in DOMAIN h |-> Contents[from(e)]]
<1>3. \A a \in D : from(f[a]) = a
  BY <1>1
<1> HIDE DEF from
<1>4. DOMAIN t = DOMAIN h /\ (\A a \in D : t[f[a]] = Contents[a]) /\ t = [e \in DOMAIN h |-> t[e]]
  BY <1>2, <1>3
<1>5. DOMAIN Contents = Live /\ \A a \in Live : Contents[a] = [i \in DOMAIN holds[a] |-> Seen(Contents, holds[a][i])]
  BY ReadsFacts DEF Live
<1> HIDE DEF t
<1>6. ASSUME NEW v, NEW w, v.refs \subseteq D, w.refs = {f[d] : d \in v.refs}, w.kind = v.kind
      PROVE  Seen(t, w) = Seen(Contents, v)
  <2>1. w.refs \cap DOMAIN t = w.refs /\ v.refs \cap DOMAIN Contents = v.refs
    BY <1>1, <1>2, <1>4, <1>5, <1>6
  <2>2. {t[r] : r \in w.refs} = {Contents[r] : r \in v.refs}
    BY <1>4, <1>6
  <2> QED
    BY <1>6, <2>1, <2>2 DEF Seen
<1>7. ASSUME NEW e \in DOMAIN h PROVE t[e] = [i \in DOMAIN h[e] |-> Seen(t, h[e][i])]
  <2>1. PICK a \in D : e = f[a]
    BY <1>2
  <2>2. \A i \in DOMAIN holds[a] : Seen(t, h[e][i]) = Seen(Contents, holds[a][i])
    BY <1>1, <1>2, <1>6, <2>1 DEF Shut
  <2>3. DOMAIN h[e] = DOMAIN holds[a] /\ t[e] = [i \in DOMAIN holds[a] |-> Seen(Contents, holds[a][i])]
    BY <1>1, <1>2, <1>4, <1>5, <2>1
  <2> QED
    BY <2>2, <2>3
<1>8. Reads(t, h)
  BY <1>4, <1>7 DEF Reads
<1>9. m = [i \in DOMAIN c |-> Seen(t, c[i])]
  BY <1>1, <1>2, <1>6
<1>10. Shut(DOMAIN h, h) /\ \A i \in DOMAIN c : c[i].refs \subseteq DOMAIN h
  <2>1. \A a \in D : \A k \in DOMAIN holds[a] : holds[a][k].refs \subseteq D
    BY <1>1 DEF Shut
  <2>2. \A e \in DOMAIN h : \E a \in D : e = f[a]
    BY <1>2
  <2>3. ASSUME NEW e \in DOMAIN h, NEW k \in DOMAIN h[e] PROVE h[e][k].refs \subseteq DOMAIN h
    BY <1>2, <2>1, <2>2
  <2>4. ASSUME NEW i \in DOMAIN c PROVE c[i].refs \subseteq DOMAIN h
    BY <1>1, <1>2
  <2> QED
    BY <2>3, <2>4 DEF Shut
<1> QED
  BY <1>8, <1>9, <1>10 DEF Shows

--------------------------------------------------------------------------------
(* What operations are given *)

LEMMA SeenOne ==
    ASSUME Reads(Contents, holds), NEW v, NEW b \in Live, v.refs = {b}
    PROVE  /\ Seen(Contents, v) = Abstract!Tree(v.kind, {Contents[b]})
           /\ Abstract!Of(Seen(Contents, v)) = Contents[b]
<1>1. b \in DOMAIN Contents
  BY ReadsFacts DEF Live
<1>2. {Contents[r] : r \in {b} \cap DOMAIN Contents} = {Contents[b]}
  BY <1>1
<1>3. Seen(Contents, v) = Abstract!Tree(v.kind, {Contents[b]})
  BY <1>2 DEF Seen, Abstract!Tree
<1> QED
  BY <1>3 DEF Abstract!Of, Abstract!Tree

LEMMA UnderFacts ==
    ASSUME ReadInv, NEW y \in Var, var[y].kind \in {"value", "results"} \cup Nest
    PROVE  /\ Trees[y] = Abstract!Tree(var[y].kind, {Contents[At(y)]}) /\ Trees[y].kind = var[y].kind
           /\ Abstract!Under(y) = Contents[At(y)]
           /\ At(y) \in Live
           /\ DOMAIN Contents[At(y)] = DOMAIN holds[At(y)]
           /\ \A i \in DOMAIN holds[At(y)] : Contents[At(y)][i] = Seen(Contents, holds[At(y)][i])
<1>1. HeapInv /\ Reads(Contents, holds)
  BY DEF ReadInv
<1>2. At(y) \in Live /\ var[y].refs = {At(y)}
  BY <1>1, AtFacts
<1>3. Trees[y] = Abstract!Tree(var[y].kind, {Contents[At(y)]}) /\ Abstract!Of(Trees[y]) = Contents[At(y)]
  BY <1>1, <1>2, TreesFacts, SeenOne
<1>4. /\ DOMAIN Contents[At(y)] = DOMAIN holds[At(y)]
      /\ \A i \in DOMAIN holds[At(y)] : Contents[At(y)][i] = Seen(Contents, holds[At(y)][i])
  BY <1>1, <1>2, ReadsFacts DEF Live
<1> QED
  BY <1>2, <1>3, <1>4 DEF Abstract!Under, Abstract!Tree

(* What a box holds, and what is lent, is an element the program can name. *)
LEMMA ElementShown ==
    ASSUME ReadInv, NEW z \in Var \cup {"lent"}, IsValue(z)
    PROVE  Seen(Contents, ValueAt(z)) \in Abstract!Elements
<1>1. HeapInv /\ Reads(Contents, holds)
  BY DEF ReadInv
<1>2. CASE z # "lent"
  <2>1. z \in Var /\ var[z].kind = "value" /\ ValueAt(z) = holds[At(z)][1]
    BY <1>2 DEF IsValue, Is, ValueAt
  <2>2. 1 \in DOMAIN holds[At(z)]
    BY <1>1, <2>1, AtFacts DEF Form
  <2>3. Abstract!Under(z)[1] = Seen(Contents, ValueAt(z)) /\ Trees[z].kind = "value"
    BY <2>1, <2>2, UnderFacts
  <2> QED
    BY <2>1, <2>3 DEF Abstract!Elements
<1>3. CASE z = "lent"
  <2>1. PICK b \in Live : \E k \in DOMAIN holds[b] : lent = <<b, k>>
    BY <1>3 DEF IsValue, ReadInv, HeapInv
  <2>2. PICK k \in DOMAIN holds[b] : lent = <<b, k>>
    BY <2>1
  <2>3. ValueAt(z) = holds[b][k] /\ lent[1] = b /\ lent # <<>>
    BY <1>3, <2>2 DEF ValueAt
  <2>4. PICK y \in Var : Lends(y, b)
    BY <2>3 DEF ReadInv
  <2>5. Seen(Contents, ValueAt(z)) \in Abstract!Range(Contents[b])
    <3>1. k \in DOMAIN Contents[b] /\ Contents[b][k] = Seen(Contents, holds[b][k])
      BY <1>1, ReadsFacts DEF Live
    <3> QED
      BY <2>3, <3>1 DEF Abstract!Range
  <2>6. \E t \in Abstract!Lists : Abstract!Of(t) = Contents[b]
    <3>1. CASE Is(y, "object") \/ Is(y, "array")
      <4>1. b = At(y)
        BY <1>1, <2>4, <3>1, AtFacts DEF Lends, Arrays, Is, Nest
      <4>2. Trees[y].kind \in {"object", "array"} /\ Abstract!Of(Trees[y]) = Contents[b]
        BY <3>1, <4>1, UnderFacts DEF Is, Nest, Abstract!Under
      <4> QED
        BY <4>2 DEF Abstract!Lists
    <3>2. CASE Is(y, "results")
      <4>1. PICK v \in Inside(At(y)) : v.kind = "array" /\ b \in v.refs
        BY <2>4, <3>2 DEF Lends, Arrays, Is, Roots
      <4>2. PICK i \in DOMAIN holds[At(y)] : v = holds[At(y)][i]
        BY <4>1 DEF Inside, Range
      <4>3. At(y) \in Owned
        BY <1>1, <3>2, AtFacts DEF Is
      <4>4. v.refs = {b}
        <5>1. Lies(v)
          BY <4>2, <4>3 DEF Lies
        <5>2. \E d \in DOMAIN holds : v.refs = {d}
          BY <1>1, <4>1, <5>1, LiesFacts DEF Fits, Nest
        <5> QED
          BY <4>1, <5>2
      <4>5. Seen(Contents, v).kind = "array" /\ Abstract!Of(Seen(Contents, v)) = Contents[b]
        BY <1>1, <4>1, <4>4, SeenOne DEF Abstract!Tree
      <4>6. /\ Trees[y].kind = "results" /\ i \in DOMAIN Abstract!Under(y)
            /\ Abstract!Under(y)[i] = Seen(Contents, v)
        BY <3>2, <4>2, UnderFacts DEF Is
      <4>7. Seen(Contents, v) \in Abstract!Range(Abstract!Under(y))
        BY <4>6 DEF Abstract!Range
      <4> QED
        BY <4>5, <4>6, <4>7 DEF Abstract!Lists
    <3> QED
      BY <2>4, <3>1, <3>2 DEF Lends, Arrays
  <2> QED
    BY <2>5, <2>6 DEF Abstract!Elements
<1> QED
  BY <1>2, <1>3

--------------------------------------------------------------------------------
(* Operations *)

(* A step that keeps the invariant and is one of the abstract specification, *)
(* or none.                                                                 *)
Matched == ReadInv' /\ (Abstract!Next \/ Trees' = Trees)

LEMMA NothingShown == ASSUME NEW x \in Var, var[x] = Nothing PROVE Trees[x] = Abstract!Nothing
BY TreesFacts DEF Seen, Nothing, Ref, Abstract!Nothing, Abstract!Tree

LEMMA FillMatched ==
    ASSUME ReadInv, NEW x \in Var, Safe(x), var[x] = Nothing, NEW v, NEW fresh, NEW t,
           Shows(One(x, v), fresh, One(x, t)), Store({}, fresh), Assign(x, v), UNCHANGED lent,
           Abstract!MayBecome(x, t)
    PROVE  Matched
BY FillTree, Becomes DEF Matched

(* A box around one new value. *)
LEMMA BoxMatched ==
    ASSUME ReadInv, NEW x \in Var, Safe(x), var[x] = Nothing, NEW kind, NEW u, NEW h, NEW e,
           Shows(One(1, u), h, One(1, e)), NEW q \in Free, q \notin DOMAIN h,
           Store({}, Over(One(q, <<u>>), h)), Assign(x, Ref(kind, {q})), UNCHANGED lent,
           Abstract!MayBecome(x, Abstract!Tree(kind, {<<e>>}))
    PROVE  Matched
<1>1. Shows(<<u>>, h, <<e>>)
  BY Tuple1
<1>2. Shows(One(x, Ref(kind, {q})), Over(One(q, <<u>>), h), One(x, Abstract!Tree(kind, {<<e>>})))
  BY <1>1, BoxShows
<1> QED
  BY <1>2, FillMatched

(* The tree of a value of a kind that holds no others. *)
BareTree(kind) == [kind |-> kind, of |-> IF kind = "scalar" THEN {} ELSE {<<>>}]

LEMMA BareShows ==
    ASSUME NEW kind \in Plain \ Nest, NEW k, NEW n \in Nat, Room(n), Width(kind) <= n
    PROVE  /\ Shows(One(k, Ref(kind, News(1, Width(kind)))), Buffers(1, Width(kind)), One(k, BareTree(kind)))
           /\ \A j \in 1..n : j > Width(kind) => New(j) \notin DOMAIN Buffers(1, Width(kind)) /\ New(j) \in Free
<1> DEFINE w == Width(kind)
           N == News(1, w)
<1>1. w \in Nat /\ 1 + w - 1 <= n /\ w <= n /\ (w = 0 <=> kind = "scalar")
  BY DEF Width
<1> HIDE DEF w
<1>2. /\ N \in SUBSET Free /\ (w = 0 => N = {}) /\ DOMAIN Buffers(1, w) = N
      /\ \A j \in 1..n : New(j) \in N <=> j \in 1..(1 + w - 1)
  BY <1>1, NewsFacts
<1>3. N = {} <=> kind = "scalar"
  <2>1. w # 0 => 1 \in 1..n /\ 1 \in 1..(1 + w - 1)
    BY <1>1
  <2> HIDE DEF N
  <2> QED
    BY <1>1, <1>2, <2>1
<1>4. \A j \in 1..n : New(j) \in Free
  BY NewFacts
<1>5. \A j \in 1..n : j > w => j \notin 1..(1 + w - 1)
  BY <1>1
<1> HIDE DEF N
<1>6. Shows(One(k, Ref(kind, N)), [b \in N |-> <<>>], One(k, Abstract!Tree(kind, IF N = {} THEN {} ELSE {<<>>})))
  BY <1>2, LeafShows
<1>7. Abstract!Tree(kind, IF N = {} THEN {} ELSE {<<>>}) = BareTree(kind)
  BY <1>3 DEF Abstract!Tree, BareTree
<1>8. Buffers(1, w) = [b \in N |-> <<>>]
  BY DEF Buffers, N
<1> QED
  BY <1>2, <1>4, <1>5, <1>6, <1>7, <1>8 DEF w, N

(* The trees that constructors and the database return. *)
LEMMA GivenFacts ==
    /\ \A kind \in Kind : /\ Abstract!Tree("value", {<<BareTree(kind)>>}) \in GivenTrees
                          /\ Abstract!Tree("vec", {<<BareTree(kind)>>}) \in GivenTrees
                          /\ Results(BareTree(kind)) \in GivenTrees
                          /\ \A k \in Key :
                                Abstract!Tree("vec", {<<Abstract!Tree("object", {One(k, BareTree(kind))})>>})
                                    \in GivenTrees
    /\ Abstract!Tree("value", {<<Abstract!Tree("array", {<<>>})>>}) \in GivenTrees
    /\ Abstract!Tree("object", {<<>>}) \in GivenTrees
    /\ Abstract!Tree("vec", {}) \in GivenTrees
<1>1. \A kind \in Kind : BareTree(kind) \in Bare(Kind)
  BY DEF BareTree, Bare
<1>2. \A K, M : \A m \in M : Abstract!Tree(K, {m}) \in Boxes(K, M)
  BY DEF Abstract!Tree, Boxes
<1>3. \A kind \in Kind : \A k \in Key : Abstract!Tree("object", {One(k, BareTree(kind))}) \in Rows
  BY <1>1, <1>2 DEF Rows
<1>4. Abstract!Tree("vec", {}) = [kind |-> "vec", of |-> {}]
  BY DEF Abstract!Tree
<1> QED
  BY <1>1, <1>2, <1>3, <1>4 DEF GivenTrees

LEMMA GivenMatches ==
    ASSUME NEW x \in Var, var[x] = Nothing, NEW t \in GivenTrees
    PROVE  Abstract!MayBecome(x, t)
BY NothingShown DEF Abstract!MayBecome, Abstract!Make

LEMMA ValueNewMatched ==
    ASSUME ReadInv, NoBytes, NEW x \in Var, NEW kind \in Kind, UNCHANGED lent,
           value_new(x, kind) \/ receive_value(x, kind)
    PROVE  Matched
<1> DEFINE n == Width(kind)
           u == Ref(kind, News(1, n))
           e == BareTree(kind)
<1>1. n \in Nat /\ Room(n + 1) /\ var[x] = Nothing /\ kind \in Plain \ Nest
  BY KindFacts DEF value_new, receive_value
<1>2. Safe(x)
  BY ValueNewStep DEF ReadInv
<1>3. Shows(One(1, u), Buffers(1, n), One(1, e)) /\ New(n + 1) \in Free /\ New(n + 1) \notin DOMAIN Buffers(1, n)
  <2>1. n + 1 \in Nat /\ n <= n + 1 /\ n + 1 \in 1..(n + 1) /\ n + 1 > n
    BY <1>1
  <2> QED
    BY <1>1, <2>1, BareShows
<1>4. \E k \in {"value", "vec"} :
        Store({}, Over(One(New(n + 1), <<u>>), Buffers(1, n))) /\ Assign(x, Ref(k, {New(n + 1)}))
  BY DEF value_new, receive_value
<1>5. \A k \in {"value", "vec"} : Abstract!MayBecome(x, Abstract!Tree(k, {<<e>>}))
  BY <1>1, GivenFacts, GivenMatches
<1> HIDE DEF n, u, e
<1> QED
  BY <1>1, <1>2, <1>3, <1>4, <1>5, BoxMatched

LEMMA ValueArrayMatched ==
    ASSUME ReadInv, NEW x \in Var, value_array(x), UNCHANGED lent
    PROVE  Matched
<1> DEFINE u == Ref("array", {New(1)})
           e == Abstract!Tree("array", {<<>>})
<1>1. /\ var[x] = Nothing /\ Room(2) /\ Store({}, Over(One(New(2), <<u>>), Buffers(1, 1)))
      /\ Assign(x, Ref("value", {New(2)}))
  BY DEF value_array
<1>2. News(1, 1) \in SUBSET Free /\ News(1, 1) = {New(1)} /\ DOMAIN Buffers(1, 1) = {New(1)} /\ Buffers(1, 1) = [b \in News(1, 1) |-> <<>>]
  BY <1>1, NewsFacts DEF Buffers
<1>3. New(2) \in Free /\ New(2) # New(1)
  BY <1>1, NewFacts
<1>4. Shows(One(1, u), Buffers(1, 1), One(1, e))
  <2>1. Shows(One(1, Ref("array", News(1, 1))), [b \in News(1, 1) |-> <<>>],
              One(1, Abstract!Tree("array", IF News(1, 1) = {} THEN {} ELSE {<<>>})))
    BY <1>2, LeafShows
  <2>2. News(1, 1) # {}
    BY <1>2
  <2> QED
    BY <1>2, <2>1, <2>2
<1>5. Safe(x)
  BY ValueArrayStep DEF ReadInv
<1>6. Abstract!MayBecome(x, Abstract!Tree("value", {<<e>>}))
  BY <1>1, GivenFacts, GivenMatches
<1> HIDE DEF u, e
<1> QED
  BY <1>1, <1>2, <1>3, <1>4, <1>5, <1>6, BoxMatched

LEMMA ObjectNewMatched ==
    ASSUME ReadInv, NEW x \in Var, object_new(x), UNCHANGED lent
    PROVE  Matched
<1> DEFINE u == Ref("object", {New(1)})
           e == Abstract!Tree("object", {<<>>})
<1>1. var[x] = Nothing /\ Room(1) /\ Store({}, Buffers(1, 1)) /\ Assign(x, u)
  BY DEF object_new
<1>2. News(1, 1) \in SUBSET Free /\ News(1, 1) = {New(1)} /\ Buffers(1, 1) = [b \in News(1, 1) |-> <<>>]
  BY <1>1, NewsFacts DEF Buffers
<1>3. Shows(One(x, u), Buffers(1, 1), One(x, e))
  <2>1. Shows(One(x, Ref("object", News(1, 1))), [b \in News(1, 1) |-> <<>>],
              One(x, Abstract!Tree("object", IF News(1, 1) = {} THEN {} ELSE {<<>>})))
    BY <1>2, LeafShows
  <2>2. News(1, 1) # {}
    BY <1>2
  <2> QED
    BY <1>2, <2>1, <2>2
<1>4. Safe(x)
  BY ObjectNewStep DEF ReadInv
<1>5. Abstract!MayBecome(x, e)
  BY <1>1, GivenFacts, GivenMatches
<1> HIDE DEF u, e
<1> QED
  BY <1>1, <1>3, <1>4, <1>5, FillMatched

LEMMA EmptyMatched ==
    ASSUME ReadInv, NEW x \in Var, var[x] = Nothing, NEW kind \in {"vec", "keys"},
           Assign(x, Ref(kind, {})), UNCHANGED <<holds, lent>>,
           Abstract!MayBecome(x, Abstract!Tree(kind, {}))
    PROVE  Matched
<1> DEFINE none == [b \in {} |-> <<>>]
<1>1. Store({}, none)
  <2>1. DOMAIN Only(holds, Live \ {}) = Live /\ \A b \in Live : Only(holds, Live \ {})[b] = holds[b]
    BY DEF Only, Live
  <2>2. Over(none, Only(holds, Live \ {})) = [b \in Live |-> holds[b]]
    BY <2>1 DEF Over
  <2> QED
    BY <2>2 DEF Store, ReadInv, HeapInv, Live
<1>2. Shows(One(x, Ref(kind, {})), none, One(x, Abstract!Tree(kind, {})))
  <2>1. Shows(One(x, Ref(kind, {})), [b \in {} |-> <<>>],
              One(x, Abstract!Tree(kind, IF {} = {} THEN {} ELSE {<<>>})))
    BY LeafShows
  <2> QED
    BY <2>1
<1>3. Safe(x)
  BY EmptyStep DEF ReadInv
<1> HIDE DEF none
<1> QED
  BY <1>1, <1>2, <1>3, FillMatched

LEMMA ReceiveRowMatched ==
    ASSUME ReadInv, NoBytes, NEW x \in Var, NEW k \in Key, NEW kind \in Kind, receive_row(x, k, kind), UNCHANGED lent
    PROVE  Matched
<1> DEFINE n == Width(kind)
           u == Ref(kind, News(1, n))
           e == BareTree(kind)
           h == Over(One(New(n + 1), One(k, u)), Buffers(1, n))
           w == Ref("object", {New(n + 1)})
           row == Abstract!Tree("object", {One(k, e)})
<1>1. n \in Nat /\ Room(n + 2) /\ var[x] = Nothing /\ kind \in Plain \ Nest
      /\ Store({}, Over(One(New(n + 2), <<w>>), h)) /\ Assign(x, Ref("vec", {New(n + 2)}))
  BY KindFacts DEF receive_row
<1>2. n + 2 \in Nat /\ n <= n + 2 /\ n + 1 \in 1..(n + 2) /\ n + 2 \in 1..(n + 2) /\ n + 1 > n /\ n + 2 > n /\ n + 1 # n + 2
  BY <1>1
<1>3. Shows(One(k, u), Buffers(1, n), One(k, e))
      /\ New(n + 1) \notin DOMAIN Buffers(1, n) /\ New(n + 2) \notin DOMAIN Buffers(1, n)
      /\ New(n + 1) \in Free /\ New(n + 2) \in Free
  BY <1>1, <1>2, BareShows
<1>4. New(n + 1) # New(n + 2)
  BY <1>1, <1>2, NewFacts
<1>5. Safe(x)
  BY ReceiveRowStep DEF ReadInv
<1>6. Abstract!MayBecome(x, Abstract!Tree("vec", {<<row>>}))
  BY <1>1, GivenFacts, GivenMatches
<1> HIDE DEF n, u, e
<1>7. Shows(One(1, w), h, One(1, row))
  BY <1>3, BoxShows
<1>8. New(n + 2) \notin DOMAIN h
  BY <1>3, <1>4 DEF Over, One
<1> HIDE DEF w, h, row
<1> QED
  BY <1>1, <1>3, <1>5, <1>6, <1>7, <1>8, BoxMatched

LEMMA ReceiveResultsMatched ==
    ASSUME ReadInv, NoBytes, NEW x \in Var, NEW kind \in Kind, receive_results(x, kind), UNCHANGED lent
    PROVE  Matched
<1> DEFINE n == Width(kind)
           u == Ref(kind, News(1, n))
           e == BareTree(kind)
           leaf == Buffers(1, n)
           text == Buffers(n + 2, 1)
           A == Over(One(New(n + 1), <<u>>), leaf)
           a == Ref("array", {New(n + 1)})
           t == Ref("string", {New(n + 2)})
           h == Over(One(New(n + 1), <<u>>), Over(text, leaf))
           ta == Abstract!Tree("array", {<<e>>})
           tt == Abstract!Tree("string", {<<>>})
<1>1. n \in Nat /\ Room(n + 3) /\ var[x] = Nothing /\ kind \in Plain \ Nest
      /\ Store({}, Over(One(New(n + 3), <<a, t>>), h)) /\ Assign(x, Ref("results", {New(n + 3)}))
  BY KindFacts DEF receive_results
<1>2. /\ n + 3 \in Nat /\ n <= n + 3 /\ n + 2 \in Nat \ {0} /\ (n + 2) + 1 - 1 <= n + 3
      /\ \A j \in {n + 1, n + 2, n + 3} : j \in 1..(n + 3) /\ j > n
      /\ n + 1 # n + 2 /\ n + 1 # n + 3 /\ n + 2 # n + 3
  BY <1>1
<1>3. /\ Shows(One(1, u), leaf, One(1, e))
      /\ \A j \in {n + 1, n + 2, n + 3} : New(j) \notin DOMAIN leaf /\ New(j) \in Free
  BY <1>1, <1>2, BareShows
<1>4. New(n + 1) # New(n + 2) /\ New(n + 1) # New(n + 3) /\ New(n + 2) # New(n + 3)
  BY <1>1, <1>2, NewFacts
<1>5. News(n + 2, 1) = {New(n + 2)} /\ DOMAIN text = {New(n + 2)} /\ text = [b \in News(n + 2, 1) |-> <<>>]
      /\ News(n + 2, 1) \in SUBSET Free
  BY <1>1, <1>2, NewsFacts DEF Buffers
<1>6. Safe(x)
  BY ReceiveResultsStep DEF ReadInv
<1>7. Abstract!MayBecome(x, Abstract!Tree("results", {<<ta, tt>>}))
  <2>1. Abstract!Tree("results", {<<ta, tt>>}) = Results(e)
    BY DEF Abstract!Tree, Results
  <2> HIDE DEF ta, tt, e
  <2>2. Results(e) \in GivenTrees
    BY GivenFacts DEF e
  <2> QED
    BY <1>1, <2>1, <2>2, GivenMatches
<1> HIDE DEF n, u, e, leaf, text
<1>8. Shows(One(1, a), A, One(1, ta))
  <2>1. Shows(<<u>>, leaf, <<e>>)
    BY <1>3, Tuple1
  <2> QED
    BY <1>3, <2>1, BoxShows
<1>9. Shows(One(2, t), text, One(2, tt))
  <2>1. Shows(One(2, Ref("string", News(n + 2, 1))), [b \in News(n + 2, 1) |-> <<>>],
              One(2, Abstract!Tree("string", IF News(n + 2, 1) = {} THEN {} ELSE {<<>>})))
    BY <1>5, LeafShows
  <2>2. News(n + 2, 1) # {}
    BY <1>5
  <2> QED
    BY <1>5, <2>1, <2>2
<1>10. DOMAIN A = {New(n + 1)} \cup DOMAIN leaf
  BY DEF Over, One
<1>11. Over(A, text) = h
  <2>1. DOMAIN A \cap DOMAIN text = {} /\ DOMAIN leaf \cap DOMAIN text = {}
    BY <1>3, <1>4, <1>5, <1>10
  <2> QED
    BY <2>1 DEF Over, One
<1>12. <<a, t>> = Over(One(1, a), One(2, t)) /\ <<ta, tt>> = Over(One(1, ta), One(2, tt))
  BY Tuple2
<1>13. Shows(<<a, t>>, h, <<ta, tt>>)
  <2>1. DOMAIN A \cap DOMAIN text = {}
    BY <1>3, <1>4, <1>5, <1>10
  <2>2. DOMAIN One(1, a) \cap DOMAIN One(2, t) = {}
    BY DEF One
  <2> HIDE DEF a, t, A, h, ta, tt
  <2> QED
    BY <1>8, <1>9, <1>11, <1>12, <2>1, <2>2, BothShow
<1>14. New(n + 3) \notin DOMAIN h
  BY <1>3, <1>4, <1>5 DEF Over, One
<1> HIDE DEF a, t, h, ta, tt
<1>15. Shows(One(x, Ref("results", {New(n + 3)})), Over(One(New(n + 3), <<a, t>>), h),
             One(x, Abstract!Tree("results", {<<ta, tt>>})))
  BY <1>3, <1>13, <1>14, BoxShows
<1> QED
  BY <1>1, <1>6, <1>7, <1>15, FillMatched

(* The instance has its own copies of library operators. *)
LEMMA SameCount == \A S : Abstract!Cardinality(S) = Cardinality(S)
BY DEF Abstract!Cardinality, Cardinality, Abstract!IsFiniteSet, IsFiniteSet

LEMMA SameMaps == (\A f, g : Abstract!Over(f, g) = Over(f, g)) /\ (\A k, v : Abstract!One(k, v) = One(k, v))
BY DEF Abstract!Over, Over, Abstract!One, One

LEMMA ObjectKeysMatched ==
    ASSUME ReadInv, NEW x \in Var, NEW y \in Var, object_keys(x, y), UNCHANGED lent
    PROVE  Matched
<1> DEFINE keys == DOMAIN holds[At(y)]
           n == Cardinality(keys)
           c == [i \in 1..n |-> Ref("string", {New(i)})]
           h == Buffers(1, n)
<1>1. var[x] = Nothing /\ var[y].kind = "object" /\ HeapInv /\ keys \in SUBSET Key
  BY AtFacts DEF object_keys, Is, Nest, Form, ReadInv
<1>2. n \in Nat
  <2>1. IsFiniteSet(keys)
    BY <1>1, HeapAssumption, FS_Subset
  <2> QED
    BY <2>1, FS_CardinalityType
<1>3. Abstract!Under(y) = Contents[At(y)] /\ Trees[y].kind = "object" /\ DOMAIN Abstract!Under(y) = keys
  BY <1>1, UnderFacts DEF Nest
<1>4. Abstract!MayBecome(x, Abstract!Tree("keys", IF n = 0 THEN {} ELSE {Abstract!Strings(n)}))
  <2>1. Abstract!Keys(x, y, Abstract!Tree("keys", IF n = 0 THEN {} ELSE {Abstract!Strings(n)}))
    <3> HIDE DEF keys
    <3> QED
      BY <1>1, <1>3, NothingShown, SameCount DEF Abstract!Keys
  <2> QED
    BY <2>1 DEF Abstract!MayBecome
<1>5. Safe(x)
  BY <1>1, ObjectKeysStep
<1>6. CASE n = 0
  <2>1. Assign(x, Ref("keys", {})) /\ UNCHANGED holds
    BY <1>6 DEF object_keys
  <2> HIDE DEF keys
  <2> QED
    BY <1>1, <1>4, <1>6, <2>1, EmptyMatched
<1>7. CASE n # 0
  <2>1. Room(n + 1) /\ Store({}, Over(One(New(n + 1), c), h)) /\ Assign(x, Ref("keys", {New(n + 1)}))
    BY <1>7 DEF object_keys
  <2> DEFINE m == Abstract!Strings(n)
  <2> HIDE DEF n
  <2>2. /\ n + 1 \in 1..(n + 1) /\ 1..n \subseteq 1..(n + 1) /\ n + 1 \notin 1..n /\ n + 1 \in Nat
    BY <1>2
  <2>3. /\ \A i \in 1..(n + 1) : New(i) \in Free
        /\ \A i, j \in 1..(n + 1) : New(i) = New(j) => i = j
    BY <2>1, <2>2, NewFacts
  <2>4. DOMAIN h = {New(i) : i \in 1..n} /\ (\A b \in DOMAIN h : h[b] = <<>> /\ DOMAIN h[b] = {})
        /\ h = [b \in DOMAIN h |-> <<>>]
    <3>1. 1..(1 + n - 1) = 1..n
      BY <1>2
    <3>2. h = [b \in {New(i) : i \in 1..n} |-> <<>>]
      BY <3>1 DEF Buffers, News
    <3> HIDE DEF h
    <3> QED
      BY <3>2
  <2>5. DOMAIN c = 1..n /\ \A i \in 1..n : c[i].kind = "string" /\ c[i].refs = {New(i)}
    BY DEF Ref
  <2> HIDE DEF c, h
  <2>6. DOMAIN h \subseteq Free /\ New(n + 1) \notin DOMAIN h /\ New(n + 1) \in Free
    BY <2>2, <2>3, <2>4
  <2>7. Reads(h, h)
    <3>1. \A f : <<>> = [i \in DOMAIN <<>> |-> Seen(f, <<>>[i])]
      OBVIOUS
    <3> HIDE DEF Seen
    <3>2. \A b \in DOMAIN h : h[b] = [i \in DOMAIN h[b] |-> Seen(h, h[b][i])]
      BY <2>4, <3>1
    <3>3. h = [b \in DOMAIN h |-> h[b]]
      BY <2>4
    <3> QED
      BY <3>2, <3>3 DEF Reads
  <2>8. m = [i \in DOMAIN c |-> Seen(h, c[i])]
    <3>1. ASSUME NEW i \in 1..n PROVE Seen(h, c[i]) = Abstract!Tree("string", {<<>>})
      <4>1. New(i) \in DOMAIN h /\ h[New(i)] = <<>>
        BY <2>4
      <4>2. {h[r] : r \in c[i].refs \cap DOMAIN h} = {<<>>}
        BY <2>5, <4>1
      <4> QED
        BY <2>5, <4>2 DEF Seen, Abstract!Tree
    <3> QED
      BY <2>5, <3>1 DEF Abstract!Strings
  <2>9. Shut(DOMAIN h, h) /\ \A i \in DOMAIN c : c[i].refs \subseteq DOMAIN h
    BY <2>4, <2>5 DEF Shut
  <2> HIDE DEF m
  <2>10. Shows(c, h, m)
    BY <2>6, <2>7, <2>8, <2>9 DEF Shows
  <2>11. Shows(One(x, Ref("keys", {New(n + 1)})), Over(One(New(n + 1), c), h), One(x, Abstract!Tree("keys", {m})))
    BY <2>6, <2>10, BoxShows
  <2>12. Abstract!MayBecome(x, Abstract!Tree("keys", {m}))
    BY <1>4, <1>7 DEF m
  <2> QED
    BY <1>1, <1>5, <2>1, <2>11, <2>12, FillMatched
<1> QED
  BY <1>6, <1>7

LEMMA ReceiveEmptyMatched ==
    ASSUME ReadInv, NEW x \in Var, receive_empty(x), UNCHANGED lent
    PROVE  Matched
<1>1. var[x] = Nothing /\ Assign(x, Ref("vec", {})) /\ UNCHANGED holds
  BY DEF receive_empty
<1>2. Abstract!MayBecome(x, Abstract!Tree("vec", {}))
  BY <1>1, GivenFacts, GivenMatches
<1> QED
  BY <1>1, <1>2, EmptyMatched

(* The copy of one value. *)
LEMMA OneCopyShows ==
    ASSUME Reads(Contents, holds), NEW k, NEW v, NEW u, NEW h, Faithful(One(k, v), One(k, u), h), DOMAIN h \subseteq Free
    PROVE  Shows(One(k, u), h, One(k, Seen(Contents, v)))
<1>1. DOMAIN One(k, v) = {k} /\ One(k, v)[k] = v
  BY DEF One
<1>2. Shows(One(k, u), h, [i \in DOMAIN One(k, v) |-> Seen(Contents, One(k, v)[i])])
  BY CopyShows
<1>3. [i \in DOMAIN One(k, v) |-> Seen(Contents, One(k, v)[i])] = [i \in {k} |-> Seen(Contents, v)]
  BY <1>1
<1> QED
  BY <1>2, <1>3 DEF One

LEMMA ValueObjectMatched ==
    ASSUME ReadInv, NEW x \in Var, NEW y \in Var, value_object(x, y), UNCHANGED lent
    PROVE  Matched
<1>1. HeapInv /\ Reads(Contents, holds)
  BY DEF ReadInv
<1>2. PICK u, h : \E q \in Free :
        /\ Made(One(1, u), h) /\ Faithful(One(1, var[y]), One(1, u), h)
        /\ q \notin DOMAIN h /\ Store({}, Over(One(q, <<u>>), h)) /\ Assign(x, Ref("value", {q}))
  BY <1>1, ValueObjectFacts
<1>3. var[x] = Nothing /\ var[y].kind = "object"
  BY <1>1, ValueObjectFacts
<1>4. Shows(One(1, u), h, One(1, Trees[y]))
  <2>1. DOMAIN h \subseteq Free
    BY <1>2 DEF Made
  <2>2. Trees[y] = Seen(Contents, var[y])
    BY TreesFacts
  <2> QED
    BY <1>1, <1>2, <2>1, <2>2, OneCopyShows
<1>5. Safe(x)
  BY <1>1, ValueObjectStep
<1>6. Abstract!MayBecome(x, Abstract!Tree("value", {<<Trees[y]>>}))
  <2>1. Trees[y].kind = "object"
    BY <1>3, UnderFacts DEF Nest
  <2>2. Abstract!Wrap(x, y, Abstract!Tree("value", {<<Trees[y]>>}))
    BY <1>3, <2>1, NothingShown DEF Abstract!Wrap
  <2> QED
    BY <2>2 DEF Abstract!MayBecome
<1> QED
  BY <1>2, <1>3, <1>4, <1>5, <1>6, BoxMatched

(* What is put into an object is of those that may be. *)
LEMMA PutMatched ==
    ASSUME ReadInv, NEW y \in Var, Safe(y), Is(y, "object"), NEW k \in Key, NEW v, NEW fresh, NEW t,
           Shows(One(k, v), fresh, One(k, t)), PutAt(y, k, v, fresh), LetGo(y), UNCHANGED var,
           t \in Bare({"scalar", "string"}) \cup Abstract!Elements
    PROVE  Matched
<1> DEFINE new == Abstract!Tree("object", {Over(One(k, t), Contents[At(y)])})
<1>1. ReadInv' /\ Trees' = [Trees EXCEPT ![y] = new]
  BY PutTree
<1>2. var[y].kind = "object"
  BY DEF Is
<1>3. Trees[y].kind = "object" /\ Abstract!Under(y) = Contents[At(y)]
  BY <1>2, UnderFacts DEF Nest
<1>4. new.kind = "object" /\ new.of = {Over(One(k, t), Contents[At(y)])}
  BY DEF Abstract!Tree
<1> HIDE DEF new
<1>5. Abstract!Put(y, k, new)
  BY <1>3, <1>4, SameMaps DEF Abstract!Put
<1>6. Abstract!MayBecome(y, new)
  BY <1>5 DEF Abstract!MayBecome
<1> QED
  BY <1>1, <1>6, Becomes DEF Matched

LEMMA InsertMatched ==
    ASSUME ReadInv, NEW y \in Var, NEW k \in Key, NEW z \in Var \cup {"lent"}, insert(y, k, z)
    PROVE  Matched
<1>1. HeapInv /\ Reads(Contents, holds)
  BY DEF ReadInv
<1>2. Is(y, "object") /\ IsValue(z)
  BY <1>1, InsertFacts
<1>3. PICK u, h : /\ Made(One(k, u), h) /\ Faithful(One(k, ValueAt(z)), One(k, u), h)
                  /\ PutAt(y, k, u, h) /\ LetGo(y) /\ UNCHANGED var
  BY <1>1, InsertFacts
<1>4. Shows(One(k, u), h, One(k, Seen(Contents, ValueAt(z))))
  <2>1. DOMAIN h \subseteq Free
    BY <1>3 DEF Made
  <2> QED
    BY <1>1, <1>3, <2>1, OneCopyShows
<1>5. Seen(Contents, ValueAt(z)) \in Abstract!Elements
  BY <1>2, ElementShown
<1>6. Safe(y)
  BY <1>1, InsertStep
<1> QED
  BY <1>2, <1>3, <1>4, <1>5, <1>6, PutMatched

LEMMA InsertNewMatched ==
    ASSUME ReadInv, NEW y \in Var, NEW k \in Key, NEW kind \in {"scalar", "string"}, insert_new(y, k, kind)
    PROVE  Matched
<1> DEFINE n == Width(kind)
           u == Ref(kind, News(1, n))
<1>1. Is(y, "object") /\ Room(n) /\ PutAt(y, k, u, Buffers(1, n)) /\ LetGo(y) /\ UNCHANGED var
  BY DEF insert_new
<1>2. n \in Nat /\ kind \in Plain \ Nest
  BY DEF Width, Plain, Nest
<1>3. Shows(One(k, u), Buffers(1, n), One(k, BareTree(kind)))
  <2>1. n <= n
    BY <1>2
  <2> QED
    BY <1>1, <1>2, <2>1, BareShows
<1>4. BareTree(kind) \in Bare({"scalar", "string"})
  BY DEF BareTree, Bare
<1>5. Safe(y)
  BY InsertNewStep DEF ReadInv
<1> HIDE DEF n, u
<1> QED
  BY <1>1, <1>3, <1>4, <1>5, PutMatched

LEMMA DropMatched ==
    ASSUME ReadInv, NEW x \in Var, Drop(x)
    PROVE  Matched
<1>1. Safe(x)
  BY DropStep DEF ReadInv
<1>2. ReadInv' /\ Trees' = [Trees EXCEPT ![x] = Abstract!Nothing]
  BY <1>1, DropTree
<1>3. Abstract!MayBecome(x, Abstract!Nothing)
  BY DEF Abstract!MayBecome, Abstract!Free
<1> QED
  BY <1>2, <1>3, Becomes DEF Matched

(* The same heap shows the same trees. *)
LEMMA SameMatched ==
    ASSUME ReadInv, HeapInv', UNCHANGED <<holds, var>>, lent' # <<>> => \E y \in Var : Lends(y, lent'[1])
    PROVE  Matched
<1>1. Contents' = Contents /\ holds' = holds /\ Reads(Contents, holds)
  BY DEF Contents, Live, ReadInv
<1>2. Trees' = Trees
  BY <1>1 DEF Trees, TreeOf, Seen
<1>3. \A y, b : Lends(y, b)' <=> Lends(y, b)
  BY DEF Lends, Arrays, Is, At, Inside
<1>4. lent' # <<>> => \E y \in Var : Lends(y, lent[1])'
  BY <1>3
<1> QED
  BY <1>1, <1>2, <1>4 DEF Matched, ReadInv

LEMMA GetMatched ==
    ASSUME ReadInv, NEW y \in Var,
           \/ \E k \in Key : object_get(y, k)
           \/ \E i \in -1..MaxLen : array_get(y, i)
    PROVE  Matched
<1>1. HeapInv'
  BY GetStep DEF ReadInv, SafeForAll
<1>2. UNCHANGED <<holds, var>> /\ (lent' # <<>> => Lends(y, lent'[1]))
  <2>1. ASSUME NEW k \in Key, object_get(y, k)
        PROVE  UNCHANGED <<holds, var>> /\ (lent' # <<>> => Lends(y, lent'[1]))
    BY <2>1 DEF object_get, Lends
  <2>2. ASSUME NEW i \in -1..MaxLen, array_get(y, i)
        PROVE  UNCHANGED <<holds, var>> /\ (lent' # <<>> => Lends(y, lent'[1]))
    BY <2>2 DEF array_get, Lends
  <2> QED
    BY <2>1, <2>2
<1> QED
  BY <1>1, <1>2, SameMatched

LEMMA PassMatched ==
    ASSUME ReadInv, NoBytes, NEW x \in Var \cup {"lent"}, pass(x)
    PROVE  Matched
<1>1. HeapInv /\ Reads(Contents, holds) /\ HeapInv' /\ (\A y \in Var : Kept(y))
  <2>1. HeapInv
    BY DEF ReadInv
  <2> QED
    BY <2>1, PassStep DEF ReadInv, SafeForAll
<1>2. UNCHANGED <<var, lent>>
  BY <1>1, PassFacts
<1>3. PICK N \in SUBSET Free :
        /\ DOMAIN holds' = N \cup Live
        /\ \A b \in N : holds'[b] = <<>>
        /\ \A b \in Live : holds'[b] = holds[b]
  BY <1>1, PassFacts
<1> DEFINE h == [b \in N |-> <<>>]
           c == One(0, Ref("none", N))
           m == One(0, Abstract!Tree("none", IF N = {} THEN {} ELSE {<<>>}))
<1>4. Shows(c, h, m)
  BY LeafShows
<1>5. 0 \notin Live /\ 0 \notin N
  BY <1>1, HereIsFinite, WholeFacts
<1>6. Live' = N \cup Live
  BY <1>3 DEF Live
<1>7. DOMAIN h = N /\ \A b \in N : h[b] = <<>>
  OBVIOUS
<1> HIDE DEF c, h, m
<1>8. Changed(0, c, h)
  BY <1>3, <1>5, <1>6, <1>7 DEF Changed
<1>9. /\ Reads(Contents', holds')
      /\ \A v : v.refs \subseteq (Live \cap Live') \ {0} => Seen(Contents', v) = Seen(Contents, v)
  BY <1>1, <1>4, <1>8, Reread
<1>10. Trees' = Trees
  <2>1. \A y \in Var : Seen(Contents', var[y]) = Seen(Contents, var[y])
    BY <1>1, <1>5, <1>6, <1>9, Before
  <2>2. Trees' = [y \in Var |-> Seen(Contents', var[y])]
    BY <1>2 DEF Trees, TreeOf
  <2>3. Trees = [y \in Var |-> Seen(Contents, var[y])]
    BY DEF Trees, TreeOf
  <2> QED
    BY <2>1, <2>2, <2>3
<1>11. lent' # <<>> => \E y \in Var : Lends(y, lent[1])'
  BY <1>1, <1>2, LendsFacts DEF ReadInv
<1> QED
  BY <1>1, <1>9, <1>10, <1>11 DEF Matched, ReadInv

LEMMA ArrayPushMatched ==
    ASSUME ReadInv, NEW x \in Var, NEW y \in Var \cup {"null"}, NEW z \in Var \cup {"null", "lent"},
           array_push(x, y, z), UNCHANGED lent
    PROVE  Matched
<1> DEFINE s == Elems(y)
           m == [i \in DOMAIN s |-> Seen(Contents, s[i])]
           e == Seen(Contents, ValueAt(z))
           tree(t) == Abstract!Tree("array", {t})
<1>1. HeapInv /\ Reads(Contents, holds)
  BY DEF ReadInv
<1>2. var[x] = Nothing /\ (y \in Var => var[y].kind = "array") /\ (z # "null" => IsValue(z)) /\ Safe(x)
  BY <1>1, PushFacts, ArrayPushStep
<1>3. PICK l \in 0..MaxLen : \E c, h, q : Pushes(x, y, z, l, c, h, q)
  BY <1>1, PushFacts
<1>4. PICK c, h, q : Pushes(x, y, z, l, c, h, q)
  BY <1>3
<1>5. /\ DOMAIN s = 1..l /\ Cardinality(DOMAIN s) = l /\ l \in Nat /\ l + 1 \notin 1..l
      /\ Faithful(s, c, h) /\ DOMAIN h \subseteq Free /\ DOMAIN c = 1..l
      /\ q \in Free /\ q \notin DOMAIN h /\ Assign(x, Ref("array", {q}))
  <2>1. l \in Nat /\ l + 1 \notin 1..l
    BY HeapAssumption
  <2> QED
    BY <1>4, <2>1 DEF Pushes, Made
<1>6. Shows(c, h, m)
  BY <1>1, <1>5, CopyShows
<1>7. (IF y \in Var THEN Abstract!Under(y) ELSE <<>>) = m
  <2>1. CASE y \in Var
    <3>1. var[y].kind \in Nest
      BY <1>2, <2>1 DEF Nest
    <3>2. At(y) \in Live /\ Abstract!Under(y) = Contents[At(y)]
      BY <2>1, <3>1, UnderFacts
    <3>3. Contents[At(y)] = [i \in DOMAIN holds[At(y)] |-> Seen(Contents, holds[At(y)][i])]
      BY <1>1, <3>2, ReadsFacts DEF Live
    <3> QED
      BY <2>1, <3>2, <3>3 DEF Elems
  <2>2. CASE y \notin Var
    <3>1. s = <<>>
      BY <2>2 DEF Elems
    <3> QED
      BY <2>2, <3>1
  <2> QED
    BY <2>1, <2>2
<1>8. DOMAIN m = DOMAIN s
  OBVIOUS
<1> HIDE DEF s, m
<1>9. ASSUME NEW t, t = m \/ \E a \in Abstract!Elements : t = Over(One(l + 1, a), m)
      PROVE  Abstract!MayBecome(x, tree(t))
  <2>1. tree(t).kind = "array" /\ tree(t).of = {t} /\ Trees[x] = Abstract!Nothing
    BY <1>2, NothingShown DEF Abstract!Tree
  <2>2. y \in Var => Trees[y].kind = "array"
    BY <1>2, UnderFacts DEF Nest
  <2>3. Abstract!Cardinality(DOMAIN m) + 1 = l + 1
    BY <1>5, <1>8, SameCount
  <2> HIDE DEF tree
  <2>4. tree(t).of = {m} \/ \E a \in Abstract!Elements : tree(t).of = {Abstract!Over(Abstract!One(l + 1, a), m)}
    BY <1>9, <2>1, SameMaps
  <2>5. Abstract!Push(x, y, tree(t))
    BY <1>7, <2>1, <2>2, <2>3, <2>4 DEF Abstract!Push
  <2> QED
    BY <2>5 DEF Abstract!MayBecome
<1>10. ASSUME NEW all, NEW H, NEW t, Shows(all, H, t), q \notin DOMAIN H, Store({}, Over(One(q, all), H)),
              Abstract!MayBecome(x, tree(t))
       PROVE  Matched
  <2>1. Shows(One(x, Ref("array", {q})), Over(One(q, all), H), One(x, tree(t)))
    BY <1>5, <1>10, BoxShows
  <2> HIDE DEF tree
  <2> QED
    BY <1>2, <1>5, <1>10, <2>1, FillMatched
<1> HIDE DEF tree
<1>11. CASE Store({}, Over(One(q, c), h))
  BY <1>5, <1>6, <1>9, <1>10, <1>11
<1>12. ASSUME NEW u, NEW g, AddsTo(z, l, c, h, q, u, g) PROVE Matched
  <2> DEFINE one == One(l + 1, u)
             all == Over(one, c)
             t == Over(One(l + 1, e), m)
  <2>1. /\ z # "null" /\ Made(one, g) /\ Faithful(One(l + 1, ValueAt(z)), one, g)
        /\ DOMAIN h \cap DOMAIN g = {} /\ q \notin DOMAIN g
        /\ Store({}, Over(One(q, all), Over(h, g)))
    BY <1>12 DEF AddsTo
  <2>2. Shows(one, g, One(l + 1, e))
    <3>1. DOMAIN g \subseteq Free
      BY <2>1 DEF Made
    <3> QED
      BY <1>1, <2>1, <3>1, OneCopyShows
  <2>3. e \in Abstract!Elements
    BY <1>2, <2>1, ElementShown
  <2>4. DOMAIN one \cap DOMAIN c = {}
    BY <1>5 DEF One
  <2> HIDE DEF one, e
  <2>5. Shows(all, Over(h, g), t)
    <3>1. Shows(Over(one, c), Over(g, h), Over(One(l + 1, e), m))
      BY <1>6, <2>1, <2>2, <2>4, BothShow
    <3>2. Over(g, h) = Over(h, g)
      BY <2>1, OverEither
    <3> QED
      BY <3>1, <3>2
  <2>6. q \notin DOMAIN Over(h, g)
    BY <1>5, <2>1 DEF Over
  <2>7. Abstract!MayBecome(x, tree(t))
    BY <1>9, <2>3
  <2> HIDE DEF all, t
  <2> QED
    BY <1>10, <2>1, <2>5, <2>6, <2>7
<1> QED
  BY <1>4, <1>11, <1>12 DEF Pushes

--------------------------------------------------------------------------------
(* The abstract specification is implemented *)

LEMMA ReadInvInit == Init => ReadInv /\ Abstract!Init
<1> SUFFICES ASSUME Init PROVE ReadInv /\ Abstract!Init
  OBVIOUS
<1>1. holds = <<>> /\ var = [x \in Var |-> Nothing] /\ lent = <<>>
  BY DEF Init
<1>2. Reads(Contents, holds)
  <2> DEFINE none == [b \in {} |-> <<>>]
  <2>1. none = [b \in DOMAIN holds |-> [i \in DOMAIN holds[b] |-> Seen(none, holds[b][i])]]
    BY <1>1
  <2> HIDE DEF none
  <2>2. Reads(none, holds)
    BY <2>1 DEF Reads
  <2> QED
    BY <2>2, ContentsRead
<1>3. Trees = [x \in Var |-> Abstract!Nothing]
  <2>1. \A x \in Var : Seen(Contents, var[x]) = Abstract!Nothing
    BY <1>1 DEF Seen, Nothing, Ref, Abstract!Nothing, Abstract!Tree
  <2> QED
    BY <2>1 DEF Trees, TreeOf
<1> QED
  BY <1>1, <1>2, <1>3, HeapInvInit DEF ReadInv, Abstract!Init

LEMMA EveryStepMatched == NoBytes /\ ReadInv /\ [Next]_vars => Matched
<1> SUFFICES ASSUME NoBytes, ReadInv, [Next]_vars PROVE Matched
  OBVIOUS
<1>1. ASSUME NEW x \in Var, Fill(x), UNCHANGED lent PROVE Matched
  <2>1. ASSUME NEW kind \in Kind, value_new(x, kind) \/ receive_value(x, kind) \/ receive_results(x, kind)
        PROVE  Matched
    BY <1>1, <2>1, ValueNewMatched, ReceiveResultsMatched
  <2>2. CASE value_array(x) \/ object_new(x)
    BY <1>1, <2>2, ValueArrayMatched, ObjectNewMatched
  <2>3. CASE receive_empty(x)
    BY <1>1, <2>3, ReceiveEmptyMatched
  <2>4. ASSUME NEW y \in Var, value_object(x, y) \/ object_keys(x, y) PROVE Matched
    BY <1>1, <2>4, ValueObjectMatched, ObjectKeysMatched
  <2>5. ASSUME NEW k \in Key, NEW kind \in Kind, receive_row(x, k, kind) PROVE Matched
    BY <1>1, <2>5, ReceiveRowMatched
  <2>6. ASSUME NEW y \in Var \cup {"null"}, NEW z \in Var \cup {"null", "lent"}, array_push(x, y, z)
        PROVE  Matched
    BY <1>1, <2>6, ArrayPushMatched
  <2> QED
    BY <1>1, <2>1, <2>2, <2>3, <2>4, <2>5, <2>6 DEF Fill
<1>2. ASSUME NEW y \in Var, NEW k \in Key, NEW z \in Var \cup {"lent"}, insert(y, k, z) PROVE Matched
  BY <1>2, InsertMatched
<1>3. ASSUME NEW y \in Var, NEW k \in Key, NEW kind \in {"scalar", "string"}, insert_new(y, k, kind)
      PROVE  Matched
  BY <1>3, InsertNewMatched
<1>4. ASSUME NEW y \in Var, (\E k \in Key : object_get(y, k)) \/ (\E i \in -1..MaxLen : array_get(y, i))
      PROVE  Matched
  BY <1>4, GetMatched
<1>5. ASSUME NEW y \in Var, \/ value_free(y) \/ free_object(y) \/ array_free(y) \/ free_arr(y)
                            \/ free_string_arr(y) \/ free_arr_res_arr(y)
      PROVE  Matched
  BY <1>5, DropMatched DEF value_free, free_object, array_free, free_arr, free_string_arr, free_arr_res_arr
<1>6. ASSUME NEW x \in Var \cup {"lent"}, pass(x) PROVE Matched
  BY <1>6, PassMatched
<1>7. CASE UNCHANGED vars
  <2>1. UNCHANGED <<holds, var>> /\ lent' = lent
    BY <1>7 DEF vars
  <2>2. HeapInv'
    <3>1. HeapInv /\ (lent' # <<>> => \E b \in Live : \E k \in DOMAIN holds[b] : lent' = <<b, k>>)
      BY <2>1 DEF ReadInv, HeapInv
    <3> QED
      BY <2>1, <3>1, SameHeap DEF SafeForAll
  <2>3. lent' # <<>> => \E y \in Var : Lends(y, lent'[1])
    BY <2>1 DEF ReadInv
  <2> QED
    BY <2>1, <2>2, <2>3, SameMatched
<1> QED
  BY <1>1, <1>2, <1>3, <1>4, <1>5, <1>6, <1>7 DEF Next

(* Whatever a program does with the value API, its variables hold what       *)
(* variables with value semantics would: what is inserted, pushed, wrapped,   *)
(* converted or passed on is copied, all the way down, and no later insert    *)
(* or free is seen through another variable (no bytes: a clone shares them).  *)
THEOREM ValuesAreCopied == ASSUME NoBytes PROVE Spec => ValueSemantics
<1>1. ReadInv /\ [Next]_vars => ReadInv' /\ [Abstract!Next]_Trees
  BY EveryStepMatched DEF Matched
<1> QED
  BY <1>1, ReadInvInit, PTL DEF Spec, ValueSemantics, Abstract!Spec
================================================================================
