---------------------------- MODULE ForeignHeapProofs ---------------------------
(***************************************************************************)
(* Theorems about ForeignHeap.                                             *)
(***************************************************************************)
EXTENDS ForeignHeap, TreeLemmas, FiniteSetTheorems

(* What lies in allocations, and what the variables of the program hold. *)
Plain == {"scalar", "string", "thing"} \cup (Kind \cap {"geometry"}) \cup Nest
Outer == {"none", "value", "vec", "keys", "results"} \cup Nest

(* What an allocation that a value of this kind points to looks like. *)
Form(kind, c) ==
    /\ kind = "array" => \E n \in 0..MaxLen : DOMAIN c = 1..n
    /\ kind = "object" => DOMAIN c \subseteq Key
    /\ kind = "value" => DOMAIN c = {1}
    /\ kind = "geometry" => DOMAIN c = {}

Fits(v, h) ==
    /\ v \in Values
    /\ v.kind \in {"none", "scalar"} => v.refs = {}
    /\ v.kind \in {"value", "results", "geometry"} \cup Nest =>
            \E b \in DOMAIN h : v.refs = {b} /\ Form(v.kind, h[b])

Sound(h) ==
    /\ DOMAIN h \subseteq Block
    /\ \A b \in DOMAIN h :
        /\ DOMAIN h[b] \subseteq Key \cup 1..MaxLen
        /\ \A k \in DOMAIN h[b] : h[b][k].kind \in Plain /\ Fits(h[b][k], h)

(* The allocations but for L, with the variables as allocation 0. *)
Rest(L) == Over(One(0, var), Only(holds, Live \ L))

(* The coordinates L of geometries, which nothing frees, are out of reach;   *)
(* the variables own all the rest, each allocation once.                    *)
Rooted(L) ==
    /\ L \in SUBSET Live
    /\ \A b \in L : DOMAIN holds[b] = {}
    /\ L # {} => "geometry" \in Kind
    /\ Tree(Rest(L), 0)

Lost == CHOOSE L \in SUBSET Live : Rooted(L)
Owned == Live \ Lost
Whole == Rest(Lost)

HeapInv ==
    /\ holds = [b \in DOMAIN holds |-> holds[b]]
    /\ Sound(holds)
    /\ var \in [Var -> Values]
    /\ \A x \in Var : var[x].kind \in Outer /\ Fits(var[x], holds)
    /\ Rooted(Lost)
    /\ lent # <<>> => \E b \in Live : \E k \in DOMAIN holds[b] : lent = <<b, k>>

--------------------------------------------------------------------------------
(* New addresses *)

(* How many numbers of a finite set are below one of it tells it from others. *)
LEMMA RankFacts ==
    ASSUME NEW S \in SUBSET Nat, IsFiniteSet(S)
    PROVE  /\ Cardinality(S) \in Nat
           /\ \A b \in S : Cardinality({c \in S : c < b}) \in 0..(Cardinality(S) - 1)
           /\ \A a, b \in S : Cardinality({c \in S : c < a}) = Cardinality({c \in S : c < b}) => a = b
<1> DEFINE below(b) == {c \in S : c < b}
<1>1. Cardinality(S) \in Nat
  BY FS_CardinalityType
<1>2. ASSUME NEW b \in S
      PROVE  IsFiniteSet(below(b)) /\ Cardinality(below(b)) \in 0..(Cardinality(S) - 1)
  <2>1. below(b) \in SUBSET S /\ b \notin below(b)
    OBVIOUS
  <2>2. IsFiniteSet(below(b)) /\ Cardinality(below(b)) <= Cardinality(S)
    BY <2>1, FS_Subset
  <2>3. Cardinality(below(b)) # Cardinality(S)
    BY <2>1, FS_Subset
  <2>4. Cardinality(below(b)) \in Nat
    BY <2>2, FS_CardinalityType
  <2> QED
    BY <1>1, <2>2, <2>3, <2>4
<1>3. ASSUME NEW a \in S, NEW b \in S, a < b PROVE Cardinality(below(a)) # Cardinality(below(b))
  <2>1. below(a) \in SUBSET below(b) /\ a \in below(b) /\ a \notin below(a)
    <3>1. \A c \in S : c \in Int
      OBVIOUS
    <3>2. \A c \in S : c < a => c < b
      BY <1>3, <3>1
    <3>3. ~(a < a)
      BY <3>1
    <3> QED
      BY <1>3, <3>2, <3>3
  <2>2. IsFiniteSet(below(b))
    BY <1>2
  <2> HIDE DEF below
  <2> QED
    BY <2>1, <2>2, FS_Subset
<1>4. ASSUME NEW a \in S, NEW b \in S, a # b PROVE Cardinality(below(a)) # Cardinality(below(b))
  <2>1. a < b \/ b < a
    BY <1>4
  <2> HIDE DEF below
  <2> QED
    BY <1>3, <2>1
<1> QED
  BY <1>1, <1>2, <1>4

(* The i-th lowest number of a set is one of it, and i - 1 are below it. *)
LEMMA NthFacts ==
    ASSUME NEW S \in SUBSET Nat, IsFiniteSet(S), NEW i \in 1..Cardinality(S)
    PROVE  Nth(S, i) \in S /\ Cardinality({c \in S : c < Nth(S, i)}) = i - 1
<1> DEFINE rank == [b \in S |-> Cardinality({c \in S : c < b})]
           T == 0..(Cardinality(S) - 1)
<1>1. Cardinality(S) \in Nat /\ i - 1 \in T
  BY RankFacts
<1>2. rank \in [S -> T] /\ \A a, b \in S : rank[a] = rank[b] => a = b
  BY RankFacts
<1>3. IsFiniteSet(T) /\ Cardinality(T) = Cardinality(S)
  <2>1. PICK n \in Nat : n + 1 = Cardinality(S) /\ T = 0..n
    <3>1. Cardinality(S) - 1 \in Nat /\ (Cardinality(S) - 1) + 1 = Cardinality(S)
      BY <1>1
    <3> QED
      BY <3>1
  <2>2. IsFiniteSet(0..n) /\ Cardinality(0..n) = IF 0 > n THEN 0 ELSE n - 0 + 1
    <3>1. 0 \in Int /\ n \in Int
      OBVIOUS
    <3> HIDE DEF T, rank
    <3> QED
      BY ONLY <3>1, FS_Interval
  <2> HIDE DEF T, rank
  <2> QED
    BY <2>1, <2>2
<1>4. PICK b \in S : rank[b] = i - 1
  <2> HIDE DEF rank, T
  <2>1. rank \in Injection(S, T)
    BY <1>2 DEF Injection, IsInjective
  <2>2. rank \in Surjection(S, T)
    BY <1>3, <2>1, FS_Injection
  <2> QED
    BY <1>1, <2>2 DEF Surjection
<1> QED
  BY <1>4 DEF Nth

LEMMA HereIsFinite == Block \subseteq Nat \ {0} /\ IsFiniteSet(Block) /\ IsFiniteSet(Free) /\ Free \subseteq Block
BY HeapAssumption, FS_Subset DEF Free

(* With room for n, there are n different free addresses. *)
LEMMA NewFacts ==
    ASSUME NEW n \in Nat, Room(n)
    PROVE  /\ \A i \in 1..n : New(i) \in Free
           /\ \A i, j \in 1..n : New(i) = New(j) => i = j
<1>1. Free \in SUBSET Nat /\ IsFiniteSet(Free) /\ Cardinality(Free) \in Nat
  BY HereIsFinite, FS_CardinalityType
<1>2. ASSUME NEW i \in 1..n
      PROVE  New(i) \in Free /\ Cardinality({c \in Free : c < New(i)}) = i - 1
  <2>1. i \in 1..Cardinality(Free)
    BY <1>1 DEF Room
  <2> QED
    BY <1>1, <2>1, NthFacts DEF New
<1>3. ASSUME NEW i \in 1..n, NEW j \in 1..n, New(i) = New(j) PROVE i = j
  <2>1. i - 1 = j - 1
    BY <1>2, <1>3
  <2> QED
    BY <2>1
<1> QED
  BY <1>2, <1>3

--------------------------------------------------------------------------------
(* Reaching *)

(* Reached is the least set of allocations that holds the roots and is closed. *)
LEMMA ReachedFacts ==
    ASSUME NEW V, NEW kinds
    PROVE  LET R == Roots(V, kinds) \cap Live
               D == Reached(V, kinds)
           IN  /\ D \in SUBSET Live /\ Holding(D, R, kinds)
               /\ \A S \in SUBSET Live : Holding(S, R, kinds) => D \subseteq S
<1> DEFINE R == Roots(V, kinds) \cap Live
           D == Reached(V, kinds)
           H(S) == Holding(S, R, kinds)
           I == {b \in Live : \A S \in SUBSET Live : H(S) => b \in S}
<1>1. ASSUME NEW S \in SUBSET Live, NEW T \in SUBSET Live, S \subseteq T
      PROVE  Roots(UNION {Inside(b) : b \in S}, kinds) \subseteq Roots(UNION {Inside(b) : b \in T}, kinds)
  <2>1. UNION {Inside(b) : b \in S} \subseteq UNION {Inside(b) : b \in T}
    BY <1>1
  <2> QED
    BY <2>1 DEF Roots
<1>2. \A S \in SUBSET Live : H(S) => I \subseteq S
  OBVIOUS
<1>3. H(I)
  <2>1. R \subseteq I
    BY DEF Holding
  <2>2. ASSUME NEW S \in SUBSET Live, H(S)
        PROVE  Roots(UNION {Inside(b) : b \in I}, kinds) \cap Live \subseteq S
    <3>1. I \subseteq S
      BY <2>2
    <3>2. Roots(UNION {Inside(b) : b \in I}, kinds) \subseteq Roots(UNION {Inside(b) : b \in S}, kinds)
      BY <1>1, <3>1
    <3> QED
      BY <2>2, <3>2 DEF Holding
  <2>3. Roots(UNION {Inside(b) : b \in I}, kinds) \cap Live \subseteq I
    BY <2>2
  <2> QED
    BY <2>1, <2>3 DEF Holding
<1>4. I \in SUBSET Live /\ \A T \in SUBSET I : H(T) => T = I
  BY <1>2
<1>5. D \in SUBSET Live /\ H(D) /\ \A T \in SUBSET D : H(T) => T = D
  <2> HIDE DEF I
  <2> QED
    BY <1>3, <1>4 DEF Reached
<1>6. D = I
  <2>1. I \subseteq D
    BY <1>2, <1>5
  <2> HIDE DEF I, D, H
  <2> QED
    BY <1>3, <1>5, <2>1
<1> QED
  BY <1>2, <1>5, <1>6

Grows == {"string", "thing", "geometry"} \cup Nest

LEMMA GrowsFacts ==
    /\ Grows \subseteq Copied /\ Grows \subseteq AnyKind /\ Grows \ {"geometry"} \subseteq Dropped
    /\ Outer \subseteq Dropped \cup {"none"} /\ Outer \subseteq AnyKind \cup {"none"}
    /\ Plain \subseteq Grows \cup {"scalar"}
    /\ "geometry" \in Plain \cup Outer => "geometry" \in Kind
    /\ "geometry" \notin Dropped
BY DEF Grows, Copied, Dropped, AnyKind, Consumed, Outer, Plain, Nest

LEMMA RestFacts ==
    ASSUME 0 \notin Live, NEW L
    PROVE  /\ DOMAIN Rest(L) = (Live \ L) \cup {0}
           /\ Rest(L)[0] = var
           /\ \A b \in Live \ L : Rest(L)[b] = holds[b]
BY DEF Rest, Over, One, Only, Live

LEMMA WholeFacts ==
    ASSUME HeapInv
    PROVE  /\ 0 \notin Live
           /\ DOMAIN Whole = Owned \cup {0}
           /\ Whole[0] = var
           /\ \A b \in Owned : Whole[b] = holds[b]
           /\ Lost \in SUBSET Live /\ (\A b \in Lost : DOMAIN holds[b] = {})
           /\ (Lost # {} => "geometry" \in Kind)
           /\ Tree(Whole, 0)
<1>1. 0 \notin Live
  BY HereIsFinite DEF HeapInv, Sound, Live
<1>2. Rooted(Lost)
  BY DEF HeapInv
<1> HIDE DEF Lost
<1> QED
  BY <1>1, <1>2, RestFacts DEF Whole, Owned, Rooted

(* In a sound heap what is reached through kinds that own is all there is    *)
(* below.                                                                   *)
LEMMA ReachedBelow ==
    ASSUME HeapInv, NEW kinds, Grows \subseteq kinds,
           NEW V, \A v \in V : v.refs \subseteq Owned /\ (v.refs # {} => v.kind \in kinds)
    PROVE  Below(Reached(V, kinds), V, Whole) /\ Reached(V, kinds) \subseteq Owned
<1> DEFINE D == Reached(V, kinds)
           R == Roots(V, kinds) \cap Live
<1>1. /\ D \in SUBSET Live /\ Holding(D, R, kinds)
      /\ \A S \in SUBSET Live : Holding(S, R, kinds) => D \subseteq S
  BY ReachedFacts
<1> HIDE DEF D
<1>2. ASSUME NEW b \in Live, NEW k \in DOMAIN holds[b]
      PROVE  /\ b \in Owned /\ holds[b][k].refs \subseteq Owned
             /\ (holds[b][k].refs # {} => holds[b][k].kind \in kinds)
  <2>1. b \in Owned
    BY WholeFacts DEF Owned
  <2>2. holds[b][k].refs \subseteq Owned
    BY <2>1, WholeFacts DEF Tree
  <2>3. holds[b][k].kind \in Plain /\ Fits(holds[b][k], holds)
    BY DEF HeapInv, Sound, Live
  <2> QED
    BY <2>1, <2>2, <2>3, GrowsFacts DEF Fits
<1>3. \A W, d : d \in Roots(W, kinds) <=> \E v \in W : v.kind \in kinds /\ d \in v.refs
  BY DEF Roots
<1>4. ASSUME NEW S \in SUBSET Live
      PROVE  Holding(S, R, kinds) <=> (\A v \in V : v.refs \subseteq S) /\ Shut(S, holds)
  <2> DEFINE W == UNION {Inside(b) : b \in S}
  <2>1. \A v : v \in W <=> \E b \in S : \E k \in DOMAIN holds[b] : v = holds[b][k]
    BY DEF Inside, Range
  <2> HIDE DEF W
  <2>2. R \subseteq S <=> \A v \in V : v.refs \subseteq S
    BY <1>3 DEF Owned
  <2>3. Roots(W, kinds) \cap Live \subseteq S <=> Shut(S, holds)
    <3>1. ASSUME Shut(S, holds) PROVE Roots(W, kinds) \cap Live \subseteq S
      BY <1>3, <2>1, <3>1 DEF Shut
    <3>2. ASSUME Roots(W, kinds) \cap Live \subseteq S, NEW b \in S, NEW k \in DOMAIN holds[b]
          PROVE  holds[b][k].refs \subseteq S
      <4> SUFFICES ASSUME NEW d \in holds[b][k].refs PROVE d \in S
        OBVIOUS
      <4>1. d \in Live /\ holds[b][k].kind \in kinds
        BY <1>2 DEF Owned
      <4>2. d \in Roots(W, kinds)
        BY <1>3, <2>1, <4>1
      <4> QED
        BY <3>2, <4>1, <4>2
    <3> QED
      BY <3>1, <3>2 DEF Shut
  <2> QED
    BY <2>2, <2>3 DEF Holding, W
<1> HIDE DEF R
<1>5. (\A v \in V : v.refs \subseteq D) /\ Shut(D, holds)
  BY <1>1, <1>4
<1>6. ASSUME NEW S \in SUBSET DOMAIN Whole, \A v \in V : v.refs \subseteq S, Shut(S, Whole)
      PROVE  D \subseteq S /\ D \subseteq Owned
  <2> DEFINE T == S \cap Owned
  <2>1. T \in SUBSET Live /\ \A v \in V : v.refs \subseteq T
    BY <1>6 DEF Owned
  <2>2. Shut(T, holds)
    BY <1>2, <1>6, WholeFacts DEF Shut, Owned
  <2>3. D \subseteq T
    BY <1>1, <1>4, <2>1, <2>2
  <2> QED
    BY <2>3
<1>7. D \subseteq Owned
  <2>1. Owned \in SUBSET DOMAIN Whole /\ Shut(Owned, Whole)
    BY WholeFacts DEF Shut, Tree
  <2> QED
    BY <1>6, <2>1
<1>8. D \subseteq DOMAIN Whole /\ Shut(D, Whole)
  BY <1>5, <1>7, WholeFacts DEF Shut
<1> QED
  BY <1>5, <1>6, <1>7, <1>8 DEF Below, D

(* A value that lies in an allocation of the heap. *)
Lies(v) == \E b \in Owned : \E k \in DOMAIN holds[b] : v = holds[b][k]

LEMMA LiesFacts ==
    ASSUME HeapInv, NEW v, Lies(v)
    PROVE  v \in Values /\ v.kind \in Plain /\ Fits(v, holds) /\ v.refs \subseteq Owned
           /\ (v.refs # {} => v.kind \in Grows)
<1>1. PICK b \in Owned : \E k \in DOMAIN holds[b] : v = holds[b][k]
  BY DEF Lies
<1>2. PICK k \in DOMAIN holds[b] : v = holds[b][k]
  BY <1>1
<1>3. v.kind \in Plain /\ Fits(v, holds)
  BY <1>2 DEF HeapInv, Sound, Live, Owned
<1>4. v.refs \subseteq Owned
  BY <1>2, WholeFacts DEF Tree
<1> QED
  BY <1>3, <1>4, GrowsFacts DEF Fits

LEMMA VarFacts ==
    ASSUME HeapInv, NEW x \in Var
    PROVE  /\ var[x] \in Values /\ var[x].kind \in Outer /\ Fits(var[x], holds)
           /\ var[x].refs \subseteq Owned
           /\ (var[x].refs # {} => var[x].kind # "none")
<1>1. var[x] \in Values /\ var[x].kind \in Outer /\ Fits(var[x], holds) /\ DOMAIN var = Var
  BY DEF HeapInv
<1>2. var[x].refs \subseteq Owned
  BY <1>1, WholeFacts DEF Tree
<1> QED
  BY <1>1, <1>2 DEF Fits

(* A Drop frees all there is below, but for coordinates: those it leaves     *)
(* behind are in nobody's reach.                                            *)
LEMMA DropBelow ==
    ASSUME HeapInv, NEW V,
           \A v \in V : v.refs \subseteq Owned /\ Fits(v, holds) /\ (v.refs # {} => v.kind \in Dropped \cup {"geometry"}),
           \A v \in V : v.kind \in Plain \cup Outer
    PROVE  /\ Below(Reached(V, AnyKind), V, Whole) /\ Reached(V, AnyKind) \subseteq Owned
           /\ Reached(V, Dropped) \subseteq Reached(V, AnyKind)
           /\ \A b \in Reached(V, AnyKind) \ Reached(V, Dropped) : DOMAIN holds[b] = {}
           /\ Reached(V, AnyKind) # Reached(V, Dropped) => "geometry" \in Kind
<1> DEFINE D == Reached(V, AnyKind)
           dead == Reached(V, Dropped)
           R == Roots(V, Dropped) \cap Live
<1>1. Below(D, V, Whole) /\ D \subseteq Owned
  <2>1. \A v \in V : v.refs \subseteq Owned /\ (v.refs # {} => v.kind \in AnyKind)
    BY DEF Dropped, AnyKind, Copied
  <2> QED
    BY <2>1, GrowsFacts, ReachedBelow
<1>2. /\ dead \in SUBSET Live /\ Holding(dead, R, Dropped)
      /\ \A S \in SUBSET Live : Holding(S, R, Dropped) => dead \subseteq S
  BY ReachedFacts
<1>3. \A W, d : d \in Roots(W, Dropped) <=> \E v \in W : v.kind \in Dropped /\ d \in v.refs
  BY DEF Roots
<1> HIDE DEF D, dead
<1>4. \A S, v : v \in UNION {Inside(b) : b \in S} <=> \E b \in S : \E k \in DOMAIN holds[b] : v = holds[b][k]
  BY DEF Inside, Range
<1>5. D \in SUBSET Live /\ (\A v \in V : v.refs \subseteq D)
      /\ \A b \in D : \A k \in DOMAIN holds[b] : holds[b][k].refs \subseteq D
  BY <1>1, WholeFacts DEF Below, Shut, Owned
<1>6. dead \subseteq D
  <2>1. R \subseteq D
    BY <1>3, <1>5
  <2>2. Roots(UNION {Inside(b) : b \in D}, Dropped) \subseteq D
    BY <1>3, <1>4, <1>5
  <2> QED
    BY <1>2, <1>5, <2>1, <2>2 DEF Holding
(* The coordinates of geometries below. *)
<1> DEFINE Of(v) == v.kind = "geometry" /\ v.refs \subseteq Live /\ Fits(v, holds)
           G == {d \in D : \E v : Of(v) /\ d \in v.refs /\ (v \in V \/ Lies(v))}
           S == dead \cup G
<1>7. \A b \in G : DOMAIN holds[b] = {}
  BY DEF Fits, Form, Live
<1>8. ASSUME NEW v, v \in V \/ Lies(v), v.refs \subseteq D, v.kind \in Dropped => v.refs \subseteq dead
      PROVE  v.refs \subseteq S
  <2>1. v.refs # {} => v.kind \in Dropped \cup {"geometry"}
    BY <1>8, LiesFacts, GrowsFacts
  <2>2. CASE v.kind = "geometry"
    <3>1. Of(v)
      BY <1>5, <1>8, <2>2, LiesFacts DEF Owned
    <3> QED
      BY <1>8, <3>1
  <2>3. CASE v.kind \in Dropped
    BY <1>8, <2>3
  <2> QED
    BY <2>1, <2>2, <2>3
<1>9. S \in SUBSET DOMAIN Whole /\ \A v \in V : v.refs \subseteq S
  <2>1. ASSUME NEW v \in V, v.kind \in Dropped PROVE v.refs \subseteq dead
    BY <1>2, <1>3, <1>5, <2>1 DEF Holding
  <2>2. S \subseteq Owned
    BY <1>1, <1>6
  <2> HIDE DEF S
  <2> QED
    BY <1>5, <1>8, <2>1, <2>2, WholeFacts
<1>10. Shut(S, Whole)
  <2> SUFFICES ASSUME NEW b \in S, NEW k \in DOMAIN Whole[b] PROVE Whole[b][k].refs \subseteq S
    BY DEF Shut
  <2>1. b \in D /\ b \in Owned /\ Whole[b] = holds[b]
    BY <1>1, <1>6, WholeFacts
  <2>2. b \in dead
    BY <1>7, <2>1
  <2>3. Lies(holds[b][k]) /\ holds[b][k].refs \subseteq D
    BY <1>5, <2>1 DEF Lies
  <2>4. holds[b][k].kind \in Dropped => holds[b][k].refs \subseteq dead
    <3> SUFFICES ASSUME holds[b][k].kind \in Dropped, NEW d \in holds[b][k].refs PROVE d \in dead
      OBVIOUS
    <3>1. d \in Roots(UNION {Inside(a) : a \in dead}, Dropped)
      BY <1>3, <1>4, <2>1, <2>2
    <3>2. d \in Live
      BY <1>5, <2>3
    <3> QED
      BY <1>2, <3>1, <3>2 DEF Holding
  <2> HIDE DEF S
  <2> QED
    BY <1>8, <2>1, <2>3, <2>4
<1>11. D \subseteq S
  <2> HIDE DEF S
  <2> QED
    BY <1>1, <1>9, <1>10 DEF Below
<1>12. \A b \in D \ dead : DOMAIN holds[b] = {}
  BY <1>7, <1>11
<1>13. D # dead => "geometry" \in Kind
  <2> SUFFICES ASSUME NEW v, Of(v), v \in V \/ Lies(v) PROVE "geometry" \in Kind
    BY <1>6, <1>11
  <2> QED
    BY LiesFacts, GrowsFacts
<1> QED
  BY <1>1, <1>6, <1>12, <1>13 DEF D, dead

(* What two variables lead to has nothing in common. *)
LEMMA Apart ==
    ASSUME HeapInv, NEW x \in Var, NEW y \in Var \ {x}
    PROVE  Reached({var[x]}, AnyKind) \cap Reached({var[y]}, AnyKind) = {}
<1> DEFINE D(z) == Reached({var[z]}, AnyKind)
<1>1. \A z \in Var : Below(D(z), {var[z]}, Whole) /\ D(z) \subseteq Owned
  <2> SUFFICES ASSUME NEW z \in Var PROVE Below(D(z), {var[z]}, Whole) /\ D(z) \subseteq Owned
    OBVIOUS
  <2>1. \A v \in {var[z]} : v.refs \subseteq Owned /\ (v.refs # {} => v.kind \in AnyKind)
    BY VarFacts, GrowsFacts
  <2> QED
    BY <2>1, GrowsFacts, ReachedBelow
<1> HIDE DEF D
<1>2. DOMAIN Whole[0] = Var /\ Whole[0] = var /\ 0 \in DOMAIN Whole /\ Tree(Whole, 0)
  BY WholeFacts DEF HeapInv
<1>3. \A c \in DOMAIN Whole \ D(x) : \A l \in DOMAIN Whole[c] :
          c # 0 \/ l \notin {x} => Whole[c][l].refs \cap D(x) = {}
  <2> DEFINE K == {x}
             E == D(x)
  <2>1. K \in SUBSET DOMAIN Whole[0] /\ Below(E, {Whole[0][k] : k \in K}, Whole)
    <3>1. {Whole[0][k] : k \in K} = {var[x]}
      BY <1>2
    <3> QED
      BY <1>1, <1>2, <3>1
  <2> HIDE DEF K, E
  <2>2. \A c \in DOMAIN Whole \ E : \A l \in DOMAIN Whole[c] :
            c # 0 \/ l \notin K => Whole[c][l].refs \cap E = {}
    BY <1>2, <2>1, Acyclic
  <2> QED
    BY <2>2 DEF K, E
<1> DEFINE S == D(y) \ D(x)
<1>4. S \in SUBSET DOMAIN Whole /\ \A v \in {var[y]} : v.refs \subseteq S
  <2>1. 0 \notin D(x) /\ 0 \in DOMAIN Whole
    BY <1>1, <1>2, WholeFacts DEF Owned
  <2>2. var[y].refs \cap D(x) = {}
    BY <1>2, <1>3, <2>1
  <2> QED
    BY <1>1, <2>2 DEF Below
<1>5. Shut(S, Whole)
  <2> SUFFICES ASSUME NEW b \in S, NEW k \in DOMAIN Whole[b] PROVE Whole[b][k].refs \subseteq S
    BY DEF Shut
  <2>1. b \in DOMAIN Whole /\ b # 0 /\ Whole[b][k].refs \subseteq D(y)
    BY <1>1, WholeFacts DEF Below, Shut, Owned
  <2> QED
    BY <1>3, <2>1
<1>6. D(y) \subseteq S
  BY <1>1, <1>4, <1>5 DEF Below
<1> QED
  BY <1>6 DEF D

--------------------------------------------------------------------------------
(* Steps *)

(* New allocations h, with the content c they are for. *)
Made(c, h) ==
    /\ Bush(c, h) /\ Sound(h) /\ DOMAIN h \subseteq Free
    /\ \A k \in DOMAIN c : Fits(c[k], h)

LEMMA FitsOn ==
    ASSUME NEW v, NEW h, NEW g, Fits(v, h), v.refs \subseteq DOMAIN g,
           \A b \in DOMAIN h \cap DOMAIN g : b \in v.refs => g[b] = h[b]
    PROVE  Fits(v, g)
BY DEF Fits

LEMMA StoreFacts ==
    ASSUME NEW dead, NEW fresh, Store(dead, fresh)
    PROVE  /\ DOMAIN holds' = DOMAIN fresh \cup (Live \ dead)
           /\ \A b \in DOMAIN fresh : holds'[b] = fresh[b]
           /\ \A b \in Live \ dead : b \notin DOMAIN fresh => holds'[b] = holds[b]
           /\ holds' = [b \in DOMAIN holds' |-> holds'[b]]
<1>1. holds' = [b \in DOMAIN fresh \cup DOMAIN Only(holds, Live \ dead) |->
                    IF b \in DOMAIN fresh THEN fresh[b] ELSE Only(holds, Live \ dead)[b]]
  BY DEF Store, Over
<1>2. DOMAIN Only(holds, Live \ dead) = Live \ dead
      /\ \A b \in Live \ dead : Only(holds, Live \ dead)[b] = holds[b]
  BY DEF Only, Live
<1> QED
  BY <1>1, <1>2

LEMMA RestAfter ==
    ASSUME 0 \notin Live', NEW L
    PROVE  /\ DOMAIN Rest(L)' = (Live' \ L) \cup {0}
           /\ Rest(L)'[0] = var'
           /\ \A b \in Live' \ L : Rest(L)'[b] = holds'[b]
BY DEF Rest, Over, One, Only, Live

LEMMA RootedAfter == ASSUME NEW L, Rooted(L)' PROVE Rooted(Lost)'
BY DEF Lost, Rooted

(* A step that changes x and keeps the other variables. *)
Safe(x) == HeapInv' /\ \A y \in Var \ {x} : Kept(y)

LEMMA KeptFacts ==
    ASSUME NEW y, var'[y] = var[y],
           \A b \in Reached({var[y]}, AnyKind) : b \in Live' /\ holds'[b] = holds[b]
    PROVE  Kept(y)
BY DEF Kept

(* A variable that held nothing is assigned a value with new allocations. *)
LEMMA FillStep ==
    ASSUME HeapInv, NEW x \in Var, NEW v, NEW fresh, var[x] = Nothing, v.kind \in Outer,
           Made(One(x, v), fresh), Store({}, fresh), Assign(x, v), UNCHANGED lent
    PROVE  Safe(x)
<1> DEFINE c == One(x, v)
<1>1. /\ DOMAIN holds' = DOMAIN fresh \cup Live
      /\ \A b \in DOMAIN fresh : holds'[b] = fresh[b]
      /\ \A b \in Live : b \notin DOMAIN fresh => holds'[b] = holds[b]
      /\ holds' = [b \in DOMAIN holds' |-> holds'[b]]
  <2>1. /\ DOMAIN holds' = DOMAIN fresh \cup (Live \ {})
        /\ \A b \in DOMAIN fresh : holds'[b] = fresh[b]
        /\ \A b \in Live \ {} : b \notin DOMAIN fresh => holds'[b] = holds[b]
        /\ holds' = [b \in DOMAIN holds' |-> holds'[b]]
    BY StoreFacts
  <2> QED
    BY <2>1
<1>2. DOMAIN fresh \cap Live = {} /\ DOMAIN fresh \subseteq Block \ Live /\ 0 \notin DOMAIN fresh
  BY HereIsFinite DEF Made, Free
<1>3. DOMAIN c = {x} /\ c[x] = v /\ Bush(c, fresh) /\ Fits(v, fresh) /\ v \in Values
  BY DEF One, Made, Fits
<1>4. var' = [var EXCEPT ![x] = v] /\ DOMAIN var = Var /\ var' \in [Var -> Values]
  BY <1>3 DEF Assign, HeapInv
<1>5. PICK M : M = Lost
  OBVIOUS
<1>6. 0 \notin Live' /\ Live' = DOMAIN fresh \cup Live /\ M \in SUBSET Live
  BY <1>1, <1>2, <1>5, WholeFacts DEF Live
<1>7. Tree(Rest(M)', 0)
  <2> DEFINE W == Rest(M)'
  <2>1. DOMAIN W = (Live' \ M) \cup {0} /\ W[0] = var' /\ \A a \in Live' \ M : W[a] = holds'[a]
    BY <1>6, RestAfter
  <2>2. Over(c, var) = var'
    <3> HIDE DEF c
    <3> QED
      BY <1>3, <1>4 DEF Over, HeapInv
  <2> HIDE DEF c, W
  <2>3. Grown(Whole, W, 0, c, {}, fresh)
    BY <1>1, <1>2, <1>5, <1>6, <2>1, <2>2, WholeFacts DEF Grown, Owned
  <2>4. Below({}, {var[x]}, Whole) /\ var[x].refs = {}
    BY DEF Below, Shut, Nothing, Ref
  <2>5. {Whole[0][k] : k \in DOMAIN c \cap DOMAIN Whole[0]} = {var[x]}
    BY <1>3, <1>4, WholeFacts
  <2>6. Tree(Whole, 0) /\ 0 \in DOMAIN Whole /\ DOMAIN fresh \cap DOMAIN Whole = {}
    BY <1>2, WholeFacts DEF Owned
  <2>7. Tree(W, 0)
    BY <1>3, <2>3, <2>4, <2>5, <2>6, Replaced
  <2> QED
    BY <2>7 DEF W
<1>8. Rooted(Lost)'
  <2>1. \A a \in M : DOMAIN holds'[a] = {}
    BY <1>1, <1>2, <1>5, <1>6, WholeFacts
  <2>2. M \in SUBSET Live' /\ (M # {} => "geometry" \in Kind)
    BY <1>5, <1>6, WholeFacts
  <2>3. Rooted(M)'
    BY <1>7, <2>1, <2>2 DEF Rooted
  <2> QED
    BY <2>3, RootedAfter
<1>9. ASSUME NEW y \in Var \ {x} PROVE Kept(y)
  <2>1. Reached({var[y]}, AnyKind) \in SUBSET Live
    BY ReachedFacts
  <2> QED
    BY <1>1, <1>2, <1>4, <1>6, <2>1, KeptFacts
<1>10. ASSUME NEW w, Fits(w, holds), w.refs \subseteq Live PROVE Fits(w, holds')
  BY <1>1, <1>2, <1>10, FitsOn DEF Live
<1>11. ASSUME NEW w, Fits(w, fresh), w.refs \subseteq DOMAIN fresh PROVE Fits(w, holds')
  BY <1>1, <1>11, FitsOn
<1>12. Sound(holds')
  <2>1. DOMAIN holds' \subseteq Block
    BY <1>1, <1>2 DEF HeapInv, Sound, Live
  <2>2. ASSUME NEW b \in DOMAIN fresh
        PROVE  /\ DOMAIN holds'[b] \subseteq Key \cup 1..MaxLen
               /\ \A k \in DOMAIN holds'[b] : holds'[b][k].kind \in Plain /\ Fits(holds'[b][k], holds')
    BY <1>1, <1>3, <1>11 DEF Made, Sound, Bush, Shut
  <2>3. ASSUME NEW b \in Live
        PROVE  /\ DOMAIN holds'[b] \subseteq Key \cup 1..MaxLen
               /\ \A k \in DOMAIN holds'[b] : holds'[b][k].kind \in Plain /\ Fits(holds'[b][k], holds')
    <3>1. holds'[b] = holds[b] /\ DOMAIN holds[b] \subseteq Key \cup 1..MaxLen
      BY <1>1, <1>2 DEF HeapInv, Sound, Live
    <3>2. ASSUME NEW k \in DOMAIN holds[b] PROVE holds[b][k].kind \in Plain /\ Fits(holds[b][k], holds')
      <4>1. Lies(holds[b][k])
        BY WholeFacts DEF Lies, Owned
      <4> QED
        BY <1>10, <4>1, LiesFacts DEF Owned
    <3> QED
      BY <3>1, <3>2
  <2> QED
    BY <1>1, <2>1, <2>2, <2>3 DEF Sound
<1>13. ASSUME NEW y \in Var PROVE var'[y].kind \in Outer /\ Fits(var'[y], holds')
  <2>1. CASE y = x
    BY <1>3, <1>4, <1>11, <2>1 DEF Bush
  <2>2. CASE y # x
    BY <1>4, <1>10, <2>2, VarFacts DEF Owned
  <2> QED
    BY <2>1, <2>2
<1>14. lent' # <<>> => \E b \in Live' : \E k \in DOMAIN holds'[b] : lent' = <<b, k>>
  BY <1>1, <1>2 DEF HeapInv, Live
<1> QED
  BY <1>1, <1>4, <1>8, <1>9, <1>12, <1>13, <1>14 DEF HeapInv, Safe

(* What a variable holds is dropped, and every pointer lent out of it goes. *)
LEMMA DropStep ==
    ASSUME HeapInv, NEW x \in Var, Drop(x)
    PROVE  Safe(x)
<1> DEFINE D == Reached({var[x]}, AnyKind)
           dead == Reached({var[x]}, Dropped)
           none == [b \in {} |-> <<>>]
           c == One(x, Nothing)
<1>1. /\ Below(D, {var[x]}, Whole) /\ D \subseteq Owned /\ dead \subseteq D
      /\ (\A b \in D \ dead : DOMAIN holds[b] = {}) /\ (D # dead => "geometry" \in Kind)
  <2>1. \A v \in {var[x]} :
            /\ v.refs \subseteq Owned /\ Fits(v, holds) /\ (v.refs # {} => v.kind \in Dropped \cup {"geometry"})
            /\ v.kind \in Plain \cup Outer
    BY GrowsFacts, VarFacts
  <2> QED
    BY <2>1, DropBelow
<1>2. /\ DOMAIN holds' = Live \ dead
      /\ \A b \in Live \ dead : holds'[b] = holds[b]
      /\ holds' = [b \in DOMAIN holds' |-> holds'[b]]
  <2>1. Store(dead, <<>>) /\ DOMAIN <<>> = {}
    BY DEF Drop
  <2> HIDE DEF dead, D, none, c
  <2>2. /\ DOMAIN holds' = DOMAIN <<>> \cup (Live \ dead)
        /\ \A b \in Live \ dead : b \notin DOMAIN <<>> => holds'[b] = holds[b]
        /\ holds' = [b \in DOMAIN holds' |-> holds'[b]]
    BY ONLY <2>1, StoreFacts
  <2> QED
    BY ONLY <2>1, <2>2
<1>3. lent' # <<>> => lent' = lent /\ lent[1] \notin D
  BY DEF Drop, LetGo
<1>4. ASSUME NEW y \in Var \ {x} PROVE Reached({var[y]}, AnyKind) \subseteq Live \ dead
  BY <1>1, Apart, ReachedFacts
<1> HIDE DEF D, dead
<1>5. DOMAIN c = {x} /\ c[x] = Nothing /\ Nothing \in Values /\ Nothing.refs = {} /\ Nothing.kind = "none"
  BY DEF One, Nothing, Ref, Values
<1>6. var' = [var EXCEPT ![x] = Nothing] /\ DOMAIN var = Var /\ var' \in [Var -> Values]
  BY <1>5 DEF Drop, Assign, HeapInv
<1>7. PICK M : M = Lost \cup (D \ dead)
  OBVIOUS
<1>8. 0 \notin Live' /\ Live' = Live \ dead /\ M \in SUBSET Live' /\ Live' \ M = Owned \ D
  <2>1. Lost \subseteq Live /\ Lost \cap D = {}
    BY <1>1, WholeFacts DEF Owned
  <2>2. Live' = Live \ dead
    BY <1>2 DEF Live
  <2> QED
    BY <1>1, <1>7, <2>1, <2>2, WholeFacts DEF Owned
<1>9. Tree(Rest(M)', 0) /\ DOMAIN Rest(M)' = (Live' \ M) \cup {0} /\ Rest(M)'[0] = var'
      /\ \A a \in Live' \ M : Rest(M)'[a] = holds'[a]
  <2> DEFINE W == Rest(M)'
  <2>1. DOMAIN W = (Live' \ M) \cup {0} /\ W[0] = var' /\ \A a \in Live' \ M : W[a] = holds'[a]
    BY <1>8, RestAfter
  <2>2. Over(c, var) = var'
    <3> HIDE DEF c
    <3> QED
      BY <1>5, <1>6 DEF Over, HeapInv
  <2>3. Bush(c, none) /\ DOMAIN none = {}
    BY <1>5 DEF Bush, Shut, OwnedOnce
  <2> HIDE DEF c, none, W
  <2>4. Grown(Whole, W, 0, c, D, none)
    BY <1>1, <1>2, <1>8, <2>1, <2>2, <2>3, WholeFacts DEF Grown, Owned
  <2>5. {Whole[0][k] : k \in DOMAIN c \cap DOMAIN Whole[0]} = {var[x]}
    BY <1>5, <1>6, WholeFacts
  <2>6. Tree(Whole, 0) /\ 0 \in DOMAIN Whole /\ DOMAIN none \cap DOMAIN Whole = {}
    BY <2>3, WholeFacts
  <2>7. Tree(W, 0)
    BY <1>1, <2>3, <2>4, <2>5, <2>6, Replaced
  <2> QED
    BY <2>1, <2>7 DEF W
<1>10. Rooted(Lost)'
  <2>1. \A a \in M : DOMAIN holds'[a] = {}
    BY <1>1, <1>2, <1>7, <1>8, WholeFacts
  <2>2. M # {} => "geometry" \in Kind
    BY <1>1, <1>7, WholeFacts
  <2>3. Rooted(M)'
    BY <1>8, <1>9, <2>1, <2>2 DEF Rooted
  <2> QED
    BY <2>3, RootedAfter
<1>11. ASSUME NEW w, Fits(w, holds), w.refs \subseteq Live' PROVE Fits(w, holds')
  BY <1>2, <1>11, FitsOn DEF Live
<1>12. ASSUME NEW b \in DOMAIN holds', NEW k \in DOMAIN holds'[b]
       PROVE  holds'[b][k].kind \in Plain /\ Fits(holds'[b][k], holds')
  <2>1. b \in Live /\ b \notin M /\ holds'[b] = holds[b] /\ k \in DOMAIN holds[b]
    BY <1>1, <1>2, <1>7, WholeFacts
  <2>2. holds[b][k].refs \subseteq Live'
    BY <1>8, <1>9, <2>1 DEF Tree, Live
  <2>3. Lies(holds[b][k])
    BY <2>1, WholeFacts DEF Lies, Owned
  <2> QED
    BY <1>11, <2>1, <2>2, <2>3, LiesFacts
<1>13. Sound(holds')
  <2>1. ASSUME NEW b \in DOMAIN holds' PROVE b \in Block /\ DOMAIN holds'[b] \subseteq Key \cup 1..MaxLen
    BY <1>2 DEF HeapInv, Sound, Live
  <2> QED
    BY <1>12, <2>1 DEF Sound
<1>14. ASSUME NEW y \in Var PROVE var'[y].kind \in Outer /\ Fits(var'[y], holds')
  <2>1. CASE y = x
    BY <1>5, <1>6, <2>1 DEF Fits, Outer, Nest
  <2>2. CASE y # x
    <3>1. var'[y] = var[y] /\ var'[y].refs \subseteq Live'
      BY <1>6, <1>8, <1>9, <2>2 DEF Tree
    <3> QED
      BY <1>11, <3>1, VarFacts
  <2> QED
    BY <2>1, <2>2
<1>15. lent' # <<>> => \E b \in Live' : \E k \in DOMAIN holds'[b] : lent' = <<b, k>>
  <2> SUFFICES ASSUME lent' # <<>> PROVE \E b \in Live' : \E k \in DOMAIN holds'[b] : lent' = <<b, k>>
    OBVIOUS
  <2>1. PICK b \in Live : \E k \in DOMAIN holds[b] : lent = <<b, k>>
    BY <1>3 DEF HeapInv
  <2>2. b \in Live' /\ holds'[b] = holds[b]
    BY <1>1, <1>2, <1>3, <1>8, <2>1
  <2> QED
    BY <1>3, <2>1, <2>2
<1>16. ASSUME NEW y \in Var \ {x} PROVE Kept(y)
  <2>1. \A b \in Reached({var[y]}, AnyKind) : b \in Live' /\ holds'[b] = holds[b]
    BY <1>2, <1>4, <1>8
  <2> QED
    BY <1>6, <2>1, KeptFacts
<1> QED
  BY <1>2, <1>6, <1>10, <1>13, <1>14, <1>15, <1>16 DEF HeapInv, Safe

LEMMA AtFacts ==
    ASSUME HeapInv, NEW y \in Var, var[y].kind \in {"value", "results"} \cup Nest
    PROVE  /\ At(y) \in Owned /\ At(y) \in Live
           /\ var[y].refs = {At(y)} /\ Form(var[y].kind, holds[At(y)])
<1>1. PICK b \in Live : var[y].refs = {b} /\ Form(var[y].kind, holds[b])
  BY VarFacts DEF Fits, Live
<1>2. At(y) = b /\ b \in Owned
  BY <1>1, VarFacts DEF At
<1> QED
  BY <1>1, <1>2

(* A value with new allocations is put into an object, over what was there. *)
LEMMA PutStep ==
    ASSUME HeapInv, NEW y \in Var, NEW k \in Key, NEW v, NEW fresh, Is(y, "object"), v.kind \in Plain,
           Made(One(k, v), fresh), PutAt(y, k, v, fresh), LetGo(y), UNCHANGED var
    PROVE  Safe(y)
<1> DEFINE b == At(y)
           old == IF k \in DOMAIN holds[b] THEN {holds[b][k]} ELSE {}
           D == Reached(old, AnyKind)
           dead == Reached(old, Dropped)
           c == One(k, v)
           E == Reached({var[y]}, AnyKind)
<1>1. b \in Owned /\ b \in Live /\ var[y].refs = {b} /\ DOMAIN holds[b] \subseteq Key /\ b \in Block
  BY AtFacts DEF Is, Nest, Form, HeapInv, Sound, Live
<1>2. /\ Below(D, old, Whole) /\ D \subseteq Owned /\ dead \subseteq D
      /\ (\A a \in D \ dead : DOMAIN holds[a] = {}) /\ (D # dead => "geometry" \in Kind)
  <2>1. \A w \in old : Lies(w)
    BY <1>1 DEF Lies
  <2>2. \A w \in old :
            /\ w.refs \subseteq Owned /\ Fits(w, holds) /\ (w.refs # {} => w.kind \in Dropped \cup {"geometry"})
            /\ w.kind \in Plain \cup Outer
    BY <2>1, LiesFacts, GrowsFacts
  <2> HIDE DEF old
  <2> QED
    BY <2>2, DropBelow
<1>3. b \in E /\ D \subseteq E
  <2>1. Below(E, {var[y]}, Whole) /\ E \subseteq Owned
    <3>1. \A w \in {var[y]} : w.refs \subseteq Owned /\ (w.refs # {} => w.kind \in AnyKind)
      BY VarFacts, GrowsFacts
    <3> QED
      BY <3>1, GrowsFacts, ReachedBelow
  <2>2. b \in E
    BY <1>1, <2>1 DEF Below
  <2>3. \A w \in old : w.refs \subseteq E
    <3>1. Shut(E, Whole) /\ Whole[b] = holds[b]
      BY <1>1, <2>1, WholeFacts DEF Below
    <3> HIDE DEF E, b
    <3>2. \A l \in DOMAIN holds[b] : holds[b][l].refs \subseteq E
      BY <2>2, <3>1 DEF Shut
    <3> QED
      BY <3>2
  <2> HIDE DEF old, E
  <2> QED
    BY <1>2, <2>1, <2>2, <2>3 DEF Below
<1>4. {Whole[b][l] : l \in DOMAIN c \cap DOMAIN Whole[b]} = old
  BY <1>1, WholeFacts DEF One
<1>5. Tree(Whole, 0) /\ b \in DOMAIN Whole /\ DOMAIN Whole[b] = DOMAIN holds[b]
  BY <1>1, WholeFacts
<1>6. b \notin D
  <2> DEFINE K == DOMAIN c \cap DOMAIN Whole[b]
  <2>1. K \in SUBSET DOMAIN Whole[b] /\ Below(D, {Whole[b][l] : l \in K}, Whole)
    BY <1>2, <1>4
  <2> HIDE DEF K, D
  <2> QED
    BY <1>5, <2>1, Acyclic
<1>7. DOMAIN fresh \cap Live = {} /\ DOMAIN fresh \subseteq Block /\ 0 \notin DOMAIN fresh
  BY HereIsFinite DEF Made, Free
<1>8. DOMAIN c = {k} /\ c[k] = v /\ Bush(c, fresh) /\ Fits(v, fresh) /\ v \in Values
  BY DEF One, Made, Fits
<1>9. /\ DOMAIN holds' = DOMAIN fresh \cup (Live \ dead)
      /\ holds'[b] = Over(c, holds[b])
      /\ \A a \in DOMAIN fresh : holds'[a] = fresh[a]
      /\ \A a \in Live \ dead : a # b => holds'[a] = holds[a]
      /\ holds' = [a \in DOMAIN holds' |-> holds'[a]]
  <2> DEFINE f == Over(One(b, Over(c, holds[b])), fresh)
  <2>1. Store(dead, f)
    BY DEF PutAt
  <2>2. DOMAIN f = {b} \cup DOMAIN fresh /\ f[b] = Over(c, holds[b])
        /\ \A a \in DOMAIN fresh : a # b => f[a] = fresh[a]
    BY DEF Over, One
  <2>3. b \notin DOMAIN fresh
    BY <1>1, <1>7
  <2> HIDE DEF D, dead, f, c, b
  <2>4. /\ DOMAIN holds' = DOMAIN f \cup (Live \ dead)
        /\ \A a \in DOMAIN f : holds'[a] = f[a]
        /\ \A a \in Live \ dead : a \notin DOMAIN f => holds'[a] = holds[a]
        /\ holds' = [a \in DOMAIN holds' |-> holds'[a]]
    BY <2>1, StoreFacts
  <2>5. DOMAIN holds' = DOMAIN fresh \cup (Live \ dead)
    BY <1>1, <1>2, <1>6, <2>2, <2>4
  <2>6. ASSUME NEW a \in Live \ dead, a # b PROVE holds'[a] = holds[a]
    BY <1>7, <2>2, <2>4, <2>6
  <2>7. holds'[b] = Over(c, holds[b]) /\ \A a \in DOMAIN fresh : holds'[a] = fresh[a]
    BY <2>2, <2>3, <2>4
  <2> QED
    BY <2>4, <2>5, <2>6, <2>7
<1>10. ASSUME NEW z \in Var \ {y} PROVE Reached({var[z]}, AnyKind) \subseteq Live \ E
  BY Apart, ReachedFacts
<1> HIDE DEF D, dead, E, old, b
<1>11. PICK M : M = Lost \cup (D \ dead)
  OBVIOUS
<1>12. /\ 0 \notin Live' /\ Live' = DOMAIN fresh \cup (Live \ dead) /\ M \in SUBSET Live'
       /\ Live' \ M = DOMAIN fresh \cup (Owned \ D)
  <2>1. Lost \subseteq Live /\ Lost \cap D = {}
    BY <1>2, WholeFacts DEF Owned
  <2>2. Live' = DOMAIN fresh \cup (Live \ dead)
    BY <1>9 DEF Live
  <2> QED
    BY <1>2, <1>7, <1>11, <2>1, <2>2, WholeFacts DEF Owned
<1>13. DOMAIN Rest(M)' = (Live' \ M) \cup {0} /\ Rest(M)'[0] = var
       /\ \A a \in Live' \ M : Rest(M)'[a] = holds'[a]
  BY <1>12, RestAfter
<1>14. Tree(Rest(M)', 0)
  <2> DEFINE W == Rest(M)'
  <2>1. DOMAIN W = (Live' \ M) \cup {0} /\ W[0] = var /\ \A a \in Live' \ M : W[a] = holds'[a]
    BY <1>13
  <2> HIDE DEF W, c
  <2>2. Grown(Whole, W, b, c, D, fresh)
    BY <1>1, <1>2, <1>6, <1>7, <1>9, <1>12, <2>1, WholeFacts DEF Grown, Owned
  <2>3. DOMAIN fresh \cap DOMAIN Whole = {}
    BY <1>7, WholeFacts DEF Owned
  <2>4. Tree(W, 0)
    BY <1>2, <1>4, <1>5, <1>8, <2>2, <2>3, Replaced
  <2> QED
    BY <2>4 DEF W
<1>15. Rooted(Lost)'
  <2>1. b \notin M
    BY <1>1, <1>6, <1>11 DEF Owned
  <2>2. \A a \in M : DOMAIN holds'[a] = {}
    BY <1>2, <1>7, <1>9, <1>11, <1>12, <2>1, WholeFacts
  <2>3. M # {} => "geometry" \in Kind
    BY <1>2, <1>11, WholeFacts
  <2>4. Rooted(M)'
    BY <1>12, <1>14, <2>2, <2>3 DEF Rooted
  <2> QED
    BY <2>4, RootedAfter
<1>16. ASSUME NEW w, Fits(w, holds), w.refs \subseteq Live', b \notin w.refs PROVE Fits(w, holds')
  BY <1>7, <1>9, <1>16, FitsOn DEF Live
<1>17. ASSUME NEW w, Fits(w, fresh), w.refs \subseteq DOMAIN fresh PROVE Fits(w, holds')
  BY <1>9, <1>17, FitsOn
<1>18. DOMAIN holds'[b] = {k} \cup DOMAIN holds[b] /\ holds'[b][k] = v
       /\ \A l \in DOMAIN holds[b] : l # k => holds'[b][l] = holds[b][l]
  <2> HIDE DEF c
  <2> QED
    BY <1>8, <1>9 DEF Over
<1>19. ASSUME NEW a \in Owned, NEW l \in DOMAIN holds[a] PROVE b \notin holds[a][l].refs
  <2>1. b \in Whole[0][y].refs /\ y \in DOMAIN Whole[0]
    BY <1>1, WholeFacts DEF HeapInv
  <2>2. 0 \in DOMAIN Whole /\ a \in DOMAIN Whole /\ a # 0 /\ Whole[a] = holds[a]
    BY WholeFacts DEF Owned
  <2> QED
    BY <1>5, <2>1, <2>2 DEF Tree, OwnedOnce
<1>20. Sound(holds')
  <2>1. DOMAIN holds' \subseteq Block
    BY <1>7, <1>9 DEF HeapInv, Sound, Live
  <2>2. ASSUME NEW a \in DOMAIN fresh
        PROVE  /\ DOMAIN holds'[a] \subseteq Key \cup 1..MaxLen
               /\ \A l \in DOMAIN holds'[a] : holds'[a][l].kind \in Plain /\ Fits(holds'[a][l], holds')
    BY <1>8, <1>9, <1>17 DEF Made, Sound, Bush, Shut
  <2>3. ASSUME NEW a \in Owned, NEW l \in DOMAIN holds[a], holds[a][l].refs \subseteq Live'
        PROVE  holds[a][l].kind \in Plain /\ Fits(holds[a][l], holds')
    BY <1>16, <1>19, <2>3, LiesFacts DEF Lies
  <2>4. ASSUME NEW a \in Owned \ D
        PROVE  /\ DOMAIN holds'[a] \subseteq Key \cup 1..MaxLen
               /\ \A l \in DOMAIN holds'[a] : holds'[a][l].kind \in Plain /\ Fits(holds'[a][l], holds')
    <3>1. a \in Live \ dead /\ a \in Owned /\ \A l \in DOMAIN holds'[a] : holds'[a][l].refs \subseteq Live'
      BY <1>2, <1>12, <1>13, <1>14 DEF Tree, Owned
    <3>2. CASE a = b
      <4>1. Fits(v, holds')
        BY <1>8, <1>17 DEF Bush
      <4> QED
        BY <1>1, <1>18, <2>3, <3>1, <3>2, <4>1
    <3>3. CASE a # b
      <4>1. holds'[a] = holds[a] /\ DOMAIN holds[a] \subseteq Key \cup 1..MaxLen
        BY <1>9, <3>1, <3>3 DEF HeapInv, Sound, Live
      <4> QED
        BY <2>3, <3>1, <4>1
    <3> QED
      BY <3>2, <3>3
  <2>5. ASSUME NEW a \in M PROVE DOMAIN holds'[a] = {}
    <3>1. a # b /\ a \in Live' /\ DOMAIN holds[a] = {} /\ a \in Live
      BY <1>1, <1>2, <1>6, <1>11, <1>12, WholeFacts DEF Owned
    <3> QED
      BY <1>7, <1>9, <1>12, <3>1
  <2> QED
    BY <1>9, <1>12, <2>1, <2>2, <2>4, <2>5 DEF Sound, Live
<1>21. ASSUME NEW z \in Var PROVE var[z].kind \in Outer /\ Fits(var[z], holds')
  <2>1. var[z].refs \subseteq Live' /\ z \in DOMAIN Whole[0] /\ y \in DOMAIN Whole[0]
    BY <1>13, <1>14, WholeFacts DEF Tree, HeapInv
  <2>2. CASE z = y
    <3>1. b \in DOMAIN holds' /\ DOMAIN holds'[b] \subseteq Key
      BY <1>1, <1>2, <1>6, <1>9, <1>18
    <3> QED
      BY <1>1, <2>2, <3>1, VarFacts DEF Is, Fits, Form
  <2>3. CASE z # y
    <3>1. b \notin var[z].refs
      BY <1>1, <1>5, <2>1, <2>3, WholeFacts DEF Tree, OwnedOnce
    <3> QED
      BY <1>16, <2>1, <3>1, VarFacts
  <2> QED
    BY <2>2, <2>3
<1>22. lent' # <<>> => \E a \in Live' : \E l \in DOMAIN holds'[a] : lent' = <<a, l>>
  <2> SUFFICES ASSUME lent' # <<>> PROVE \E a \in Live' : \E l \in DOMAIN holds'[a] : lent' = <<a, l>>
    OBVIOUS
  <2>1. lent' = lent /\ lent # <<>> /\ lent[1] \notin E
    BY DEF LetGo, E
  <2>2. PICK a \in Live : \E l \in DOMAIN holds[a] : lent = <<a, l>>
    BY <2>1 DEF HeapInv
  <2>3. a \in Live' /\ holds'[a] = holds[a]
    BY <1>2, <1>3, <1>9, <1>12, <2>1, <2>2
  <2> QED
    BY <2>1, <2>2, <2>3
<1>23. ASSUME NEW z \in Var \ {y} PROVE Kept(z)
  <2>1. \A a \in Reached({var[z]}, AnyKind) : a \in Live' /\ holds'[a] = holds[a]
    BY <1>2, <1>3, <1>9, <1>10, <1>12
  <2> QED
    BY <2>1, KeptFacts
<1> QED
  BY <1>9, <1>15, <1>20, <1>21, <1>22, <1>23 DEF HeapInv, Safe

--------------------------------------------------------------------------------
(* What operations make *)

LEMMA Tuple1 == ASSUME NEW u PROVE <<u>> = One(1, u)
BY DEF One

LEMMA Tuple2 == ASSUME NEW u, NEW v PROVE <<u, v>> = Over(One(1, u), One(2, v))
BY DEF One, Over

(* A value that points to nothing, and one with empty buffers. *)
LEMMA LeafMade ==
    ASSUME NEW k, NEW kind \in Plain \cup Outer, NEW N \in SUBSET Free,
           kind \in {"none", "scalar"} => N = {},
           kind \in Nest \cup {"geometry"} => \E b \in N : N = {b},
           kind \notin {"value", "results"}
    PROVE  Made(One(k, Ref(kind, N)), [b \in N |-> <<>>])
<1> DEFINE v == Ref(kind, N)
           c == One(k, v)
           h == [b \in N |-> <<>>]
<1>1. DOMAIN c = {k} /\ c[k] = v /\ v.refs = N /\ v.kind = kind
  BY DEF One, Ref
<1>2. N \subseteq Block
  BY HereIsFinite
<1>3. v \in Values
  BY <1>2 DEF Values, Ref, Plain, Outer, Nest, Leaf
<1>4. DOMAIN h = N /\ \A b \in N : DOMAIN h[b] = {}
  OBVIOUS
<1> HIDE DEF c, h, v
<1>5. Bush(c, h)
  BY <1>1, <1>4, Leaves
<1>6. Sound(h)
  BY <1>2, <1>4 DEF Sound
<1>7. Fits(v, h)
  <2>1. 0 \in 0..MaxLen /\ 1..0 = {}
    BY HeapAssumption
  <2>2. ASSUME NEW b \in N, kind \in Nest \cup {"geometry"} PROVE Form(kind, h[b])
    BY <1>4, <2>1, <2>2 DEF Form, Nest
  <2> QED
    BY <1>1, <1>3, <1>4, <2>2 DEF Fits
<1> QED
  BY <1>1, <1>4, <1>5, <1>6, <1>7 DEF Made, c, h, v

(* A new allocation for what was made, and a value that points to it. *)
LEMMA BoxMade ==
    ASSUME NEW k, NEW kind \in {"value", "results", "vec", "keys"} \cup Nest, NEW c, NEW h, NEW q \in Free,
           Made(c, h), q \notin DOMAIN h, DOMAIN c \subseteq Key \cup 1..MaxLen,
           \A i \in DOMAIN c : c[i].kind \in Plain, Form(kind, c)
    PROVE  Made(One(k, Ref(kind, {q})), Over(One(q, c), h))
<1> DEFINE v == Ref(kind, {q})
           d == One(k, v)
           g == Over(One(q, c), h)
<1>1. DOMAIN d = {k} /\ d[k] = v /\ v.refs = {q} /\ v.kind = kind
  BY DEF One, Ref
<1>2. q \in Block
  BY HereIsFinite
<1>3. v \in Values
  BY <1>2 DEF Values, Ref, Nest, Leaf
<1>4. DOMAIN g = DOMAIN h \cup {q} /\ g[q] = c /\ \A b \in DOMAIN h : g[b] = h[b]
  BY DEF Over, One
<1>5. Bush(d, g)
  <2> HIDE DEF d, v
  <2> QED
    BY <1>1, Boxed DEF Made
<1> HIDE DEF d, g, v
<1>6. ASSUME NEW w, Fits(w, h), w.refs \subseteq DOMAIN h PROVE Fits(w, g)
  BY <1>4, <1>6, FitsOn
<1>7. Sound(g)
  <2>1. \A i \in DOMAIN c : Fits(c[i], g)
    BY <1>6 DEF Made, Bush
  <2>2. \A b \in DOMAIN h : \A i \in DOMAIN h[b] : Fits(h[b][i], g)
    BY <1>6 DEF Made, Bush, Shut, Sound
  <2> QED
    BY <1>2, <1>4, <2>1, <2>2 DEF Made, Sound
<1>8. Fits(v, g)
  BY <1>1, <1>3, <1>4 DEF Fits, Nest
<1> QED
  BY <1>1, <1>4, <1>5, <1>7, <1>8 DEF Made, d, g, v

LEMMA BothMade ==
    ASSUME NEW c1, NEW h1, NEW c2, NEW h2, Made(c1, h1), Made(c2, h2),
           DOMAIN c1 \cap DOMAIN c2 = {}, DOMAIN h1 \cap DOMAIN h2 = {}
    PROVE  Made(Over(c1, c2), Over(h1, h2))
<1> DEFINE c == Over(c1, c2)
           h == Over(h1, h2)
<1>1. /\ DOMAIN h = DOMAIN h1 \cup DOMAIN h2
      /\ \A b \in DOMAIN h1 : h[b] = h1[b]
      /\ \A b \in DOMAIN h2 : h[b] = h2[b]
  BY DEF Over
<1>2. /\ DOMAIN c = DOMAIN c1 \cup DOMAIN c2
      /\ \A b \in DOMAIN c1 : c[b] = c1[b]
      /\ \A b \in DOMAIN c2 : c[b] = c2[b]
  BY DEF Over
<1>3. Bush(c, h)
  BY Joined DEF Made
<1> HIDE DEF c, h
<1>4. ASSUME NEW w, \/ Fits(w, h1) /\ w.refs \subseteq DOMAIN h1
                    \/ Fits(w, h2) /\ w.refs \subseteq DOMAIN h2
      PROVE  Fits(w, h)
  BY <1>1, <1>4, FitsOn
<1>5. \A k \in DOMAIN c : Fits(c[k], h)
  BY <1>2, <1>4 DEF Made, Bush
<1>6. ASSUME NEW b \in DOMAIN h
      PROVE  /\ b \in Block /\ DOMAIN h[b] \subseteq Key \cup 1..MaxLen
             /\ \A k \in DOMAIN h[b] : h[b][k].kind \in Plain /\ Fits(h[b][k], h)
  <2>1. CASE b \in DOMAIN h1
    BY <1>1, <1>4, <2>1 DEF Made, Sound, Bush, Shut
  <2>2. CASE b \in DOMAIN h2
    BY <1>1, <1>4, <2>2 DEF Made, Sound, Bush, Shut
  <2> QED
    BY <1>1, <2>1, <2>2
<1> QED
  BY <1>1, <1>3, <1>5, <1>6 DEF Made, Sound, c, h

(* The content c is made of clones of the values s, which lie in one          *)
(* allocation or are a variable's; they go to the new addresses from the     *)
(* first on, of n.                                                          *)
Cloned(c, s, V, first, n) ==
    /\ \E b \in DOMAIN Whole : \A i \in DOMAIN s : \E k \in DOMAIN Whole[b] : s[i] = Whole[b][k]
    /\ \A i, j \in DOMAIN s : \A d \in s[i].refs : d \in s[j].refs => i = j
    /\ \A i \in DOMAIN s : s[i].kind \in Plain
    /\ V = {s[i] : i \in DOMAIN s}
    /\ first \in Nat \ {0} /\ n \in Nat /\ first + Cardinality(Deep(V)) - 1 <= n /\ Room(n)
    /\ DOMAIN c = DOMAIN s /\ \A i \in DOMAIN s : c[i] = Renamed(CopyMap(V, first), s[i])

(* h copies all that the values s lead to, kind by kind, and c the values. *)
Faithful(s, c, h) ==
    \E f, D :
        /\ D \in SUBSET Live /\ Shut(D, holds) /\ \A i \in DOMAIN s : s[i].refs \subseteq D
        /\ \A a, d \in D : f[a] = f[d] => a = d
        /\ CopiedTo(f, holds, D, s, c, h)
        /\ \A a \in D : \A k \in DOMAIN holds[a] : h[f[a]][k].kind = holds[a][k].kind
        /\ \A i \in DOMAIN s : c[i].kind = s[i].kind

(* Such clones and their allocations own each other. *)
LEMMA CloneMade ==
    ASSUME HeapInv, NEW c, NEW s, NEW V, NEW first, NEW n, Cloned(c, s, V, first, n)
    PROVE  /\ Made(c, Copies(CopyMap(V, first)))
           /\ \A i \in DOMAIN s : c[i].kind = s[i].kind
           /\ DOMAIN Copies(CopyMap(V, first)) \subseteq {New(j) : j \in first..(first + Cardinality(Deep(V)) - 1)}
           /\ Faithful(s, c, Copies(CopyMap(V, first)))
<1>1. PICK b \in DOMAIN Whole : \A i \in DOMAIN s : \E k \in DOMAIN Whole[b] : s[i] = Whole[b][k]
  BY DEF Cloned
<1>2. /\ \A i, j \in DOMAIN s : \A d \in s[i].refs : d \in s[j].refs => i = j
      /\ \A i \in DOMAIN s : s[i].kind \in Plain
      /\ V = {s[i] : i \in DOMAIN s}
      /\ first \in Nat \ {0} /\ n \in Nat /\ first + Cardinality(Deep(V)) - 1 <= n /\ Room(n)
      /\ DOMAIN c = DOMAIN s /\ \A i \in DOMAIN s : c[i] = Renamed(CopyMap(V, first), s[i])
  BY DEF Cloned
<1> USE <1>1, <1>2
<1> DEFINE D == Deep(V)
           m == Cardinality(D)
           f == CopyMap(V, first)
           h == Copies(f)
<1>3. ASSUME NEW i \in DOMAIN s
      PROVE  /\ s[i].refs \subseteq Owned /\ Fits(s[i], holds)
             /\ (s[i].refs # {} => s[i].kind \in Grows) /\ (s[i].kind \notin Copied => s[i].refs = {})
  <2>1. PICK k \in DOMAIN Whole[b] : s[i] = Whole[b][k]
    OBVIOUS
  <2>2. CASE b = 0
    BY <2>1, <2>2, VarFacts, WholeFacts, GrowsFacts DEF HeapInv, Fits
  <2>3. CASE b # 0
    <3>1. Lies(s[i])
      BY <2>1, <2>3, WholeFacts DEF Lies
    <3> QED
      BY <3>1, LiesFacts, GrowsFacts
  <2> QED
    BY <2>2, <2>3
<1>4. Below(D, V, Whole) /\ D \subseteq Owned
  <2>1. \A v \in V : v.refs \subseteq Owned /\ (v.refs # {} => v.kind \in Copied)
    BY <1>3, GrowsFacts
  <2> QED
    BY <2>1, GrowsFacts, ReachedBelow DEF Deep
<1>5. D \in SUBSET Nat /\ IsFiniteSet(D) /\ m \in Nat
  <2>1. D \in SUBSET Block
    BY <1>4 DEF HeapInv, Sound, Live, Owned
  <2> HIDE DEF D
  <2> QED
    BY <2>1, HereIsFinite, FS_Subset, FS_CardinalityType
<1> DEFINE rank(a) == Cardinality({e \in D : e < a})
<1>6. /\ \A a \in D : rank(a) \in 0..(m - 1)
      /\ \A a, d \in D : rank(a) = rank(d) => a = d
  <2> HIDE DEF D
  <2> QED
    BY <1>5, RankFacts
<1>7. /\ DOMAIN f = D /\ \A a \in D : f[a] = New(first + rank(a))
  BY DEF CopyMap
<1> HIDE DEF D, f, rank
<1>8. \A a \in D : first + rank(a) \in first..(first + m - 1) /\ first + rank(a) \in 1..n
  BY <1>5, <1>6 DEF m, D
<1>9. \A a, d \in D : f[a] = f[d] => a = d
  <2> SUFFICES ASSUME NEW a \in D, NEW d \in D, f[a] = f[d] PROVE a = d
    OBVIOUS
  <2>1. first + rank(a) = first + rank(d)
    BY <1>7, <1>8, NewFacts
  <2> QED
    BY <1>5, <1>6, <2>1
<1>10. ASSUME NEW a \in D PROVE f[a] \in Free /\ f[a] \in {New(j) : j \in first..(first + m - 1)}
  BY <1>7, <1>8, NewFacts
<1>11. /\ DOMAIN h = {f[a] : a \in D}
       /\ \A a \in D : DOMAIN h[f[a]] = DOMAIN holds[a]
                       /\ \A k \in DOMAIN holds[a] : h[f[a]][k] = Renamed(f, holds[a][k])
  <2>1. DOMAIN h = {f[a] : a \in D}
    BY <1>7 DEF Copies, Range
  <2>2. ASSUME NEW a \in D
        PROVE  h[f[a]] = [k \in DOMAIN holds[a] |-> Renamed(f, holds[a][k])]
    <3> DEFINE from(x) == CHOOSE e \in DOMAIN f : f[e] = x
    <3>1. h = [x \in Range(f) |-> [k \in DOMAIN holds[from(x)] |-> Renamed(f, holds[from(x)][k])]]
      BY Zenon DEF Copies
    <3>2. from(f[a]) = a
      BY <1>7, <1>9
    <3>3. f[a] \in Range(f)
      BY <1>7 DEF Range
    <3> HIDE DEF from, h
    <3> QED
      BY <3>1, <3>2, <3>3
  <2> HIDE DEF h, f, D
  <2>3. \A a \in D : DOMAIN h[f[a]] = DOMAIN holds[a]
                    /\ \A k \in DOMAIN holds[a] : h[f[a]][k] = Renamed(f, holds[a][k])
    BY ONLY <2>2
  <2> QED
    BY ONLY <2>1, <2>3
<1> HIDE DEF h
<1>12. ASSUME NEW v, v.kind \notin Copied => v.refs = {}, v \in Values
       PROVE  Renamed(f, v).kind = v.kind /\ Renamed(f, v).refs = {f[d] : d \in v.refs}
  BY <1>12 DEF Renamed, Ref
<1>13. ASSUME NEW a \in D, NEW k \in DOMAIN holds[a]
       PROVE  /\ holds[a][k].kind \in Plain /\ Fits(holds[a][k], holds) /\ holds[a][k] \in Values
              /\ (holds[a][k].kind \notin Copied => holds[a][k].refs = {})
              /\ holds[a][k].refs \subseteq D
  <2>1. Lies(holds[a][k])
    BY <1>4 DEF Lies
  <2>2. holds[a][k].refs \subseteq D
    BY <1>4, WholeFacts DEF Below, Shut
  <2> QED
    BY <2>1, <2>2, LiesFacts, GrowsFacts
<1>14. ASSUME NEW v, Fits(v, holds), v.refs \subseteq D, v.kind \in Plain, v.kind \notin Copied => v.refs = {}
       PROVE  Fits(Renamed(f, v), h)
  <2>1. Renamed(f, v).kind = v.kind /\ Renamed(f, v).refs = {f[d] : d \in v.refs}
    BY <1>12, <1>14 DEF Fits
  <2>2. Renamed(f, v) \in Values
    <3>1. {f[d] : d \in v.refs} \subseteq Block
      BY <1>10, <1>14, HereIsFinite
    <3> QED
      BY <1>14, <3>1 DEF Renamed, Ref, Fits, Values
  <2>3. ASSUME v.kind \in {"value", "results", "geometry"} \cup Nest
        PROVE  \E a \in DOMAIN h : Renamed(f, v).refs = {a} /\ Form(v.kind, h[a])
    <3>1. PICK d \in DOMAIN holds : v.refs = {d} /\ Form(v.kind, holds[d])
      BY <1>14, <2>3 DEF Fits
    <3>2. d \in D /\ f[d] \in DOMAIN h /\ Renamed(f, v).refs = {f[d]} /\ DOMAIN h[f[d]] = DOMAIN holds[d]
      BY <1>11, <1>14, <2>1, <3>1
    <3> QED
      BY <3>1, <3>2 DEF Form
  <2>4. v.kind \in {"none", "scalar"} => Renamed(f, v).refs = {}
    BY <1>14, <2>1 DEF Fits
  <2> QED
    BY <2>1, <2>2, <2>3, <2>4 DEF Fits
<1>15. \A i \in DOMAIN s : s[i].refs \subseteq D
  BY <1>4 DEF Below
<1>16. \A i \in DOMAIN c : /\ c[i].kind = s[i].kind /\ c[i].refs = {f[d] : d \in s[i].refs}
                           /\ Fits(c[i], h)
  <2>1. \A i \in DOMAIN c : i \in DOMAIN s /\ c[i] = Renamed(f, s[i])
    BY DEF f
  <2> QED
    BY <1>3, <1>12, <1>14, <1>15, <2>1 DEF Fits
<1>17. Bush(c, h)
  <2>1. CopiedTo(f, Whole, D, s, c, h)
    <3>1. \A a \in D : Whole[a] = holds[a]
      BY <1>4, WholeFacts
    <3> QED
      BY <1>11, <1>12, <1>13, <1>16, <3>1 DEF CopiedTo
  <2>2. Tree(Whole, 0)
    BY WholeFacts
  <2> QED
    BY <1>4, <1>9, <2>1, <2>2, CopyIsBush
<1>18. Sound(h)
  <2> SUFFICES ASSUME NEW a \in D
               PROVE  /\ f[a] \in Block /\ DOMAIN h[f[a]] \subseteq Key \cup 1..MaxLen
                      /\ \A k \in DOMAIN h[f[a]] : h[f[a]][k].kind \in Plain /\ Fits(h[f[a]][k], h)
    BY <1>11 DEF Sound
  <2>1. f[a] \in Block
    BY <1>10, HereIsFinite
  <2>2. DOMAIN holds[a] \subseteq Key \cup 1..MaxLen
    BY <1>4 DEF HeapInv, Sound, Live, Owned
  <2>3. ASSUME NEW k \in DOMAIN holds[a] PROVE h[f[a]][k].kind \in Plain /\ Fits(h[f[a]][k], h)
    BY <1>11, <1>12, <1>13, <1>14
  <2> QED
    BY <1>11, <2>1, <2>2, <2>3
<1>19. DOMAIN h \subseteq Free /\ DOMAIN h \subseteq {New(j) : j \in first..(first + m - 1)}
  BY <1>10, <1>11
<1>20. Faithful(s, c, h)
  <2>1. D \in SUBSET Live /\ Shut(D, holds)
    BY <1>4, <1>13 DEF Shut, Owned
  <2>2. CopiedTo(f, holds, D, s, c, h)
    BY <1>11, <1>12, <1>13, <1>16 DEF CopiedTo
  <2>3. \A a \in D : \A k \in DOMAIN holds[a] : h[f[a]][k].kind = holds[a][k].kind
    BY <1>11, <1>12, <1>13
  <2> QED
    BY <1>9, <1>15, <1>16, <2>1, <2>2, <2>3 DEF Faithful
<1> QED
  BY <1>5, <1>16, <1>17, <1>18, <1>19, <1>20 DEF Made, h, f, D

--------------------------------------------------------------------------------
(* Operations *)

(* The program builds, and the database returns, no bytes. *)
NoBytes == "bytes" \notin Kind

LEMMA KindFacts ==
    ASSUME NoBytes, NEW kind \in Kind
    PROVE  kind \in Plain \ Nest /\ Width(kind) \in 0..2 /\ (kind = "scalar" => Width(kind) = 0)
BY HeapAssumption DEF NoBytes, Plain, Nest, Leaf, Width

(* Some of n new allocations, and a value with the empty ones among them. *)
LEMMA NewsFacts ==
    ASSUME NEW n \in Nat, Room(n), NEW i \in Nat \ {0}, NEW w \in Nat, i + w - 1 <= n
    PROVE  /\ News(i, w) \in SUBSET Free
           /\ \A j \in 1..n : New(j) \in News(i, w) <=> j \in i..(i + w - 1)
           /\ w = 0 => News(i, w) = {}
           /\ w = 1 => News(i, w) = {New(i)}
           /\ DOMAIN Buffers(i, w) = News(i, w)
<1>1. i..(i + w - 1) \subseteq 1..n
  OBVIOUS
<1>2. News(i, w) = {New(j) : j \in i..(i + w - 1)}
  BY DEF News
<1>3. w = 0 => i..(i + w - 1) = {}
  OBVIOUS
<1>4. w = 1 => i..(i + w - 1) = {i}
  OBVIOUS
<1>5. News(i, w) \in SUBSET Free
  BY <1>1, <1>2, NewFacts
<1>6. \A j \in 1..n : New(j) \in News(i, w) <=> j \in i..(i + w - 1)
  BY <1>1, <1>2, NewFacts
<1>7. DOMAIN Buffers(i, w) = News(i, w)
  BY DEF Buffers
<1> QED
  BY <1>2, <1>3, <1>4, <1>5, <1>6, <1>7

LEMMA NewLeaf ==
    ASSUME NEW kind \in Plain \ Nest, Width(kind) \in 0..2, kind = "scalar" => Width(kind) = 0, NEW k,
           NEW n \in Nat, Room(n), Width(kind) <= n
    PROVE  /\ Made(One(k, Ref(kind, News(1, Width(kind)))), Buffers(1, Width(kind)))
           /\ \A j \in 1..n : j > Width(kind) => New(j) \notin DOMAIN Buffers(1, Width(kind))
           /\ \A j \in 1..n : New(j) \in Free
           /\ Ref(kind, News(1, Width(kind))).kind \in Plain
<1> DEFINE w == Width(kind)
           N == News(1, w)
<1>1. w \in Nat /\ 1 + w - 1 <= n
  OBVIOUS
<1> HIDE DEF w
<1>2. /\ N \in SUBSET Free /\ (w = 0 => N = {}) /\ (w = 1 => N = {New(1)}) /\ DOMAIN Buffers(1, w) = N
      /\ \A j \in 1..n : New(j) \in N <=> j \in 1..(1 + w - 1)
  BY <1>1, NewsFacts
<1>3. Made(One(k, Ref(kind, N)), [b \in N |-> <<>>])
  <2>1. kind \in {"none", "scalar"} => N = {}
    BY <1>2 DEF Plain, Nest, w
  <2>2. kind \notin {"value", "results"} /\ kind \notin Nest /\ (kind = "geometry" => w = 1)
    BY DEF Plain, Nest, Width, w
  <2>3. kind \in Nest \cup {"geometry"} => \E b \in N : N = {b}
    BY <1>2, <2>2
  <2> HIDE DEF N
  <2> QED
    BY <1>2, <2>1, <2>2, <2>3, LeafMade
<1>4. Made(One(k, Ref(kind, N)), Buffers(1, w))
  BY <1>3 DEF Buffers
<1>5. \A j \in 1..n : j > w => New(j) \notin DOMAIN Buffers(1, w)
  BY <1>1, <1>2
<1> QED
  BY <1>4, <1>5, NewFacts DEF w, Ref

LEMMA Form1 ==
    ASSUME NEW u, NEW kind \in {"value", "array", "vec"}
    PROVE  Form(kind, <<u>>) /\ DOMAIN <<u>> = {1} /\ <<u>>[1] = u /\ {1} \subseteq 1..MaxLen
<1>1. DOMAIN <<u>> = {1} /\ <<u>>[1] = u /\ 1 \in 0..MaxLen /\ 1..1 = {1} /\ {1} \subseteq 1..MaxLen
  BY HeapAssumption
<1> QED
  BY <1>1 DEF Form

(* A box around one new value, under a variable. *)
LEMMA BoxStep ==
    ASSUME HeapInv, NEW x \in Var, var[x] = Nothing, NEW kind \in {"value", "vec"}, NEW u, u.kind \in Plain,
           NEW h, Made(One(1, u), h), NEW q \in Free, q \notin DOMAIN h,
           Store({}, Over(One(q, <<u>>), h)), Assign(x, Ref(kind, {q})), UNCHANGED lent
    PROVE  Safe(x)
<1>1. Made(<<u>>, h)
  BY Tuple1
<1>2. Made(One(x, Ref(kind, {q})), Over(One(q, <<u>>), h))
  <2>1. Form(kind, <<u>>) /\ DOMAIN <<u>> \subseteq Key \cup 1..MaxLen /\ \A i \in DOMAIN <<u>> : <<u>>[i].kind \in Plain
    BY Form1
  <2> QED
    BY <1>1, <2>1, BoxMade
<1>3. Ref(kind, {q}).kind \in Outer
  BY DEF Ref, Outer
<1> QED
  BY <1>2, <1>3, FillStep

LEMMA ValueNewStep ==
    ASSUME HeapInv, NoBytes, NEW x \in Var, NEW kind \in Kind, UNCHANGED lent,
           value_new(x, kind) \/ receive_value(x, kind)
    PROVE  Safe(x)
<1> DEFINE n == Width(kind)
           u == Ref(kind, News(1, n))
<1>1. n \in Nat /\ Room(n + 1) /\ var[x] = Nothing /\ kind \in Plain \ Nest /\ n \in 0..2 /\ (kind = "scalar" => n = 0)
  BY KindFacts DEF value_new, receive_value
<1>2. Made(One(1, u), Buffers(1, n)) /\ New(n + 1) \in Free /\ New(n + 1) \notin DOMAIN Buffers(1, n) /\ u.kind \in Plain
  <2>1. n + 1 \in Nat /\ n <= n + 1 /\ n + 1 \in 1..(n + 1) /\ n + 1 > n
    BY <1>1
  <2> QED
    BY <1>1, <2>1, NewLeaf
<1>3. \E k \in {"value", "vec"} :
        Store({}, Over(One(New(n + 1), <<u>>), Buffers(1, n))) /\ Assign(x, Ref(k, {New(n + 1)}))
  BY DEF value_new, receive_value
<1> HIDE DEF n, u
<1> QED
  BY <1>1, <1>2, <1>3, BoxStep

LEMMA ValueArrayStep ==
    ASSUME HeapInv, NEW x \in Var, value_array(x), UNCHANGED lent
    PROVE  Safe(x)
<1> DEFINE u == Ref("array", {New(1)})
<1>1. var[x] = Nothing /\ Room(2) /\ Store({}, Over(One(New(2), <<u>>), Buffers(1, 1))) /\ Assign(x, Ref("value", {New(2)}))
  BY DEF value_array
<1>2. News(1, 1) \in SUBSET Free /\ News(1, 1) = {New(1)} /\ DOMAIN Buffers(1, 1) = {New(1)} /\ Buffers(1, 1) = [b \in News(1, 1) |-> <<>>]
  BY <1>1, NewsFacts DEF Buffers
<1>3. New(2) \in Free /\ New(2) # New(1)
  BY <1>1, NewFacts
<1>4. Made(One(1, u), Buffers(1, 1))
  BY <1>2, LeafMade DEF Plain, Nest
<1>5. u.kind \in Plain
  BY DEF Ref, Plain, Nest
<1> HIDE DEF u
<1> QED
  BY <1>1, <1>2, <1>3, <1>4, <1>5, BoxStep

LEMMA ObjectNewStep ==
    ASSUME HeapInv, NEW x \in Var, object_new(x), UNCHANGED lent
    PROVE  Safe(x)
<1> DEFINE u == Ref("object", {New(1)})
<1>1. var[x] = Nothing /\ Room(1) /\ Store({}, Buffers(1, 1)) /\ Assign(x, u)
  BY DEF object_new
<1>2. News(1, 1) \in SUBSET Free /\ News(1, 1) = {New(1)} /\ Buffers(1, 1) = [b \in News(1, 1) |-> <<>>]
  BY <1>1, NewsFacts DEF Buffers
<1>3. Made(One(x, u), Buffers(1, 1))
  <2>1. Made(One(x, Ref("object", News(1, 1))), [b \in News(1, 1) |-> <<>>])
    BY <1>2, LeafMade DEF Plain, Nest
  <2> QED
    BY <1>2, <2>1
<1>4. u.kind \in Outer
  BY DEF Ref, Outer, Nest
<1> HIDE DEF u
<1> QED
  BY <1>1, <1>3, <1>4, FillStep

(* An empty result. *)
LEMMA EmptyStep ==
    ASSUME HeapInv, NEW x \in Var, var[x] = Nothing, NEW kind \in {"vec", "keys"},
           Assign(x, Ref(kind, {})), UNCHANGED <<holds, lent>>
    PROVE  Safe(x)
<1> DEFINE none == [b \in {} |-> <<>>]
<1>1. Store({}, none)
  <2>1. DOMAIN Only(holds, Live \ {}) = Live /\ \A b \in Live : Only(holds, Live \ {})[b] = holds[b]
    BY DEF Only, Live
  <2>2. Over(none, Only(holds, Live \ {})) = [b \in Live |-> holds[b]]
    BY <2>1 DEF Over
  <2> QED
    BY <2>2 DEF Store, HeapInv, Live
<1>2. Made(One(x, Ref(kind, {})), none)
  BY LeafMade DEF Outer, Nest
<1>3. Ref(kind, {}).kind \in Outer
  BY DEF Ref, Outer
<1> HIDE DEF none
<1> QED
  BY <1>1, <1>2, <1>3, FillStep

(* Two maps with nothing in common, in either order. *)
LEMMA OverEither ==
    ASSUME NEW g, NEW h, DOMAIN g \cap DOMAIN h = {}
    PROVE  Over(g, h) = Over(h, g)
BY DEF Over

LEMMA ReceiveRowStep ==
    ASSUME HeapInv, NoBytes, NEW x \in Var, NEW k \in Key, NEW kind \in Kind, receive_row(x, k, kind), UNCHANGED lent
    PROVE  Safe(x)
<1> DEFINE n == Width(kind)
           u == Ref(kind, News(1, n))
           row == One(k, u)
           h == Over(One(New(n + 1), row), Buffers(1, n))
           w == Ref("object", {New(n + 1)})
<1>1. n \in Nat /\ Room(n + 2) /\ var[x] = Nothing /\ kind \in Plain \ Nest /\ n \in 0..2 /\ (kind = "scalar" => n = 0)
      /\ Store({}, Over(One(New(n + 2), <<w>>), h)) /\ Assign(x, Ref("vec", {New(n + 2)}))
  BY KindFacts DEF receive_row
<1>2. n + 2 \in Nat /\ n <= n + 2 /\ n + 1 \in 1..(n + 2) /\ n + 2 \in 1..(n + 2) /\ n + 1 > n /\ n + 2 > n /\ n + 1 # n + 2
  BY <1>1
<1>3. Made(row, Buffers(1, n)) /\ u.kind \in Plain
      /\ New(n + 1) \notin DOMAIN Buffers(1, n) /\ New(n + 2) \notin DOMAIN Buffers(1, n)
      /\ New(n + 1) \in Free /\ New(n + 2) \in Free
  BY <1>1, <1>2, NewLeaf
<1>4. New(n + 1) # New(n + 2)
  BY <1>1, <1>2, NewFacts
<1>5. DOMAIN row = {k} /\ row[k] = u /\ Form("object", row)
  BY DEF One, Form
<1> HIDE DEF n, u, row
<1>6. Made(One(1, w), h)
  BY <1>3, <1>5, BoxMade DEF Nest
<1>7. New(n + 2) \notin DOMAIN h
  BY <1>3, <1>4 DEF Over, One
<1>8. w.kind \in Plain
  BY DEF Ref, Plain, Nest
<1> HIDE DEF w, h
<1> QED
  BY <1>1, <1>3, <1>6, <1>7, <1>8, BoxStep

LEMMA ReceiveResultsStep ==
    ASSUME HeapInv, NoBytes, NEW x \in Var, NEW kind \in Kind, receive_results(x, kind), UNCHANGED lent
    PROVE  Safe(x)
<1> DEFINE n == Width(kind)
           u == Ref(kind, News(1, n))
           leaf == Buffers(1, n)
           text == Buffers(n + 2, 1)
           A == Over(One(New(n + 1), <<u>>), leaf)
           a == Ref("array", {New(n + 1)})
           t == Ref("string", {New(n + 2)})
           h == Over(One(New(n + 1), <<u>>), Over(text, leaf))
<1>1. n \in Nat /\ Room(n + 3) /\ var[x] = Nothing /\ kind \in Plain \ Nest /\ n \in 0..2 /\ (kind = "scalar" => n = 0)
      /\ Store({}, Over(One(New(n + 3), <<a, t>>), h)) /\ Assign(x, Ref("results", {New(n + 3)}))
  BY KindFacts DEF receive_results
<1>2. /\ n + 3 \in Nat /\ n <= n + 3 /\ n + 2 \in Nat \ {0} /\ (n + 2) + 1 - 1 <= n + 3
      /\ \A j \in {n + 1, n + 2, n + 3} : j \in 1..(n + 3) /\ j > n
      /\ n + 1 # n + 2 /\ n + 1 # n + 3 /\ n + 2 # n + 3
  BY <1>1
<1>3. /\ Made(One(1, u), leaf) /\ u.kind \in Plain
      /\ \A j \in {n + 1, n + 2, n + 3} : New(j) \notin DOMAIN leaf /\ New(j) \in Free
  BY <1>1, <1>2, NewLeaf
<1>4. New(n + 1) # New(n + 2) /\ New(n + 1) # New(n + 3) /\ New(n + 2) # New(n + 3)
  BY <1>1, <1>2, NewFacts
<1>5. News(n + 2, 1) = {New(n + 2)} /\ DOMAIN text = {New(n + 2)} /\ text = [b \in News(n + 2, 1) |-> <<>>]
  BY <1>1, <1>2, NewsFacts DEF Buffers
<1> HIDE DEF n, u, leaf, text
<1>6. Made(One(1, a), A)
  <2>1. Made(<<u>>, leaf)
    BY <1>3, Tuple1
  <2>2. Form("array", <<u>>) /\ DOMAIN <<u>> \subseteq Key \cup 1..MaxLen /\ \A i \in DOMAIN <<u>> : <<u>>[i].kind \in Plain
    BY <1>3, Form1
  <2> QED
    BY <1>3, <2>1, <2>2, BoxMade DEF Nest
<1>7. Made(One(2, t), text)
  <2>1. Made(One(2, Ref("string", News(n + 2, 1))), [b \in News(n + 2, 1) |-> <<>>])
    BY <1>3, <1>5, LeafMade DEF Plain, Nest
  <2> QED
    BY <1>5, <2>1
<1>8. DOMAIN A = {New(n + 1)} \cup DOMAIN leaf
  BY DEF Over, One
<1>9. Over(A, text) = h
  <2>1. DOMAIN A \cap DOMAIN text = {} /\ DOMAIN leaf \cap DOMAIN text = {}
    BY <1>3, <1>4, <1>5, <1>8
  <2> QED
    BY <2>1 DEF Over, One
<1>10. <<a, t>> = Over(One(1, a), One(2, t))
  BY Tuple2
<1>11. Made(<<a, t>>, h)
  <2>1. DOMAIN A \cap DOMAIN text = {}
    BY <1>3, <1>4, <1>5, <1>8
  <2>2. DOMAIN One(1, a) \cap DOMAIN One(2, t) = {}
    BY DEF One
  <2> HIDE DEF a, t, A, h
  <2> QED
    BY <1>6, <1>7, <1>9, <1>10, <2>1, <2>2, BothMade
<1>12. New(n + 3) \notin DOMAIN h
  BY <1>3, <1>4, <1>5 DEF Over, One
<1>13. /\ DOMAIN <<a, t>> \subseteq Key \cup 1..MaxLen
       /\ \A i \in DOMAIN <<a, t>> : <<a, t>>[i].kind \in Plain
       /\ Form("results", <<a, t>>)
  <2>1. DOMAIN <<a, t>> = {1, 2} /\ {1, 2} \subseteq 1..MaxLen
    BY HeapAssumption
  <2>2. a.kind \in Plain /\ t.kind \in Plain
    BY DEF Ref, Plain, Nest
  <2>3. Form("results", <<a, t>>)
    BY DEF Form
  <2> QED
    BY <2>1, <2>2, <2>3
<1> HIDE DEF a, t, h
<1>14. Made(One(x, Ref("results", {New(n + 3)})), Over(One(New(n + 3), <<a, t>>), h))
  BY <1>3, <1>11, <1>12, <1>13, BoxMade
<1>15. Ref("results", {New(n + 3)}).kind \in Outer
  BY DEF Ref, Outer
<1> QED
  BY <1>1, <1>14, <1>15, FillStep

LEMMA ObjectKeysStep ==
    ASSUME HeapInv, NEW x \in Var, NEW y \in Var, object_keys(x, y), UNCHANGED lent
    PROVE  Safe(x)
<1> DEFINE keys == DOMAIN holds[At(y)]
           n == Cardinality(keys)
           c == [i \in 1..n |-> Ref("string", {New(i)})]
           h == Buffers(1, n)
<1>1. keys \in SUBSET Key
  BY AtFacts DEF object_keys, Is, Nest, Form
<1>2. n \in Nat /\ n <= MaxLen /\ MaxLen \in Nat
  <2>1. IsFiniteSet(Key) /\ Cardinality(Key) <= MaxLen /\ MaxLen \in Nat
    BY HeapAssumption
  <2>2. IsFiniteSet(keys) /\ n <= Cardinality(Key)
    BY <1>1, <2>1, FS_Subset
  <2> QED
    BY <2>1, <2>2, FS_CardinalityType
<1> HIDE DEF keys
<1>3. CASE n = 0
  BY <1>3, EmptyStep DEF object_keys, keys
<1>4. CASE n # 0
  <2>1. /\ var[x] = Nothing /\ Room(n + 1) /\ Store({}, Over(One(New(n + 1), c), h))
        /\ Assign(x, Ref("keys", {New(n + 1)}))
    BY <1>4 DEF object_keys, keys
  <2> HIDE DEF n
  <2>2. /\ n + 1 \in 1..(n + 1) /\ 1..n \subseteq 1..(n + 1) /\ n + 1 \notin 1..n /\ n + 1 \in Nat
    BY <1>2
  <2>3. /\ \A i \in 1..(n + 1) : New(i) \in Free
        /\ \A i, j \in 1..(n + 1) : New(i) = New(j) => i = j
    BY <2>1, <2>2, NewFacts
  <2>4. DOMAIN h = {New(i) : i \in 1..n} /\ \A b \in DOMAIN h : DOMAIN h[b] = {}
    <3>1. 1..(1 + n - 1) = 1..n
      BY <1>2
    <3>2. h = [b \in {New(i) : i \in 1..n} |-> <<>>]
      BY <3>1 DEF Buffers, News
    <3> HIDE DEF h
    <3> QED
      BY <3>2
  <2>5. DOMAIN c = 1..n /\ \A i \in 1..n : c[i].kind = "string" /\ c[i].refs = {New(i)} /\ c[i] \in Values
    <3>1. \A i \in 1..n : {New(i)} \in SUBSET Block
      <4> TAKE i \in 1..n
      <4>1. i \in 1..(n + 1)
        BY <2>2
      <4>2. New(i) \in Block
        BY <2>3, <4>1, HereIsFinite
      <4> QED
        BY <4>2
    <3> QED
      BY <3>1 DEF Ref, Values, Leaf
  <2> HIDE DEF c, h
  <2>6. DOMAIN h \subseteq Free /\ New(n + 1) \notin DOMAIN h
    BY <2>2, <2>3, <2>4
  <2>7. Bush(c, h)
    <3>1. \A i, j \in 1..n : New(i) = New(j) => i = j
      BY <2>2, <2>3
    <3>2. \A i, j \in DOMAIN c : \A d \in c[i].refs : d \in c[j].refs => i = j
      BY <2>5, <3>1
    <3>3. (\A i \in DOMAIN c : c[i].refs \subseteq DOMAIN h) /\ \A b \in DOMAIN h : \E i \in DOMAIN c : b \in c[i].refs
      BY <2>4, <2>5
    <3> QED
      BY <2>4, <3>2, <3>3, Leaves
  <2>8. Made(c, h)
    <3>1. Sound(h)
      BY <2>4, <2>6, HereIsFinite DEF Sound
    <3>2. \A i \in DOMAIN c : Fits(c[i], h)
      BY <2>5 DEF Fits, Nest
    <3> QED
      BY <2>6, <2>7, <3>1, <3>2 DEF Made
  <2>9. /\ DOMAIN c \subseteq Key \cup 1..MaxLen /\ Form("keys", c)
        /\ \A i \in DOMAIN c : c[i].kind \in Plain
    BY <1>2, <2>5 DEF Form, Plain
  <2>10. New(n + 1) \in Free
    BY <2>2, <2>3
  <2>11. Made(One(x, Ref("keys", {New(n + 1)})), Over(One(New(n + 1), c), h))
    BY <2>6, <2>8, <2>9, <2>10, BoxMade
  <2>12. Ref("keys", {New(n + 1)}).kind \in Outer
    BY DEF Ref, Outer
  <2> QED
    BY <2>1, <2>11, <2>12, FillStep
<1> QED
  BY <1>3, <1>4

LEMMA DeepIsFinite == ASSUME HeapInv, NEW V PROVE Cardinality(Deep(V)) \in Nat
<1>1. Deep(V) \in SUBSET Block
  BY ReachedFacts DEF Deep, HeapInv, Sound, Live
<1> HIDE DEF Deep
<1> QED
  BY <1>1, HereIsFinite, FS_Subset, FS_CardinalityType

(* What a value is read from, a box or a lent place, is in the heap. *)
LEMMA ValueLies ==
    ASSUME HeapInv, NEW z \in Var \cup {"lent"}, IsValue(z)
    PROVE  Lies(ValueAt(z))
<1>1. CASE z = "lent"
  <2>1. PICK b \in Live : \E k \in DOMAIN holds[b] : lent = <<b, k>>
    BY <1>1 DEF IsValue, HeapInv
  <2>2. PICK k \in DOMAIN holds[b] : lent = <<b, k>>
    BY <2>1
  <2>3. ValueAt(z) = holds[b][k]
    BY <1>1, <2>2 DEF ValueAt
  <2>4. b \in Owned
    BY <2>2, WholeFacts DEF Owned
  <2> QED
    BY <2>3, <2>4 DEF Lies
<1>2. CASE z # "lent"
  <2>1. z \in Var /\ var[z].kind = "value" /\ ValueAt(z) = holds[At(z)][1]
    BY <1>2 DEF IsValue, Is, ValueAt
  <2>2. At(z) \in Owned /\ 1 \in DOMAIN holds[At(z)]
    BY <2>1, AtFacts DEF Form
  <2> QED
    BY <2>1, <2>2 DEF Lies
<1> QED
  BY <1>1, <1>2

(* The clone of one value v, at the place k. *)
LEMMA OneClone ==
    ASSUME HeapInv, NEW v, v.kind \in Plain, Lies(v) \/ \E x \in Var : v = var[x],
           NEW first \in Nat \ {0}, NEW n \in Nat, first + Cardinality(Deep({v})) - 1 <= n, Room(n), NEW k
    PROVE  /\ Made(One(k, Renamed(CopyMap({v}, first), v)), Copies(CopyMap({v}, first)))
           /\ Renamed(CopyMap({v}, first), v).kind = v.kind
           /\ DOMAIN Copies(CopyMap({v}, first)) \subseteq {New(j) : j \in first..(first + Cardinality(Deep({v})) - 1)}
           /\ Faithful(One(k, v), One(k, Renamed(CopyMap({v}, first), v)), Copies(CopyMap({v}, first)))
<1> DEFINE s == One(k, v)
           c == One(k, Renamed(CopyMap({v}, first), v))
<1>1. PICK b \in DOMAIN Whole : \E l \in DOMAIN Whole[b] : v = Whole[b][l]
  BY WholeFacts DEF Lies, HeapInv
<1>2. DOMAIN s = {k} /\ s[k] = v /\ DOMAIN c = {k} /\ c[k] = Renamed(CopyMap({v}, first), v)
  BY DEF One
<1>3. {v} = {s[i] : i \in DOMAIN s}
  BY <1>2
<1> HIDE DEF s, c
<1>4. Cloned(c, s, {v}, first, n)
  BY <1>1, <1>2, <1>3 DEF Cloned
<1>5. /\ Made(c, Copies(CopyMap({v}, first)))
      /\ \A i \in DOMAIN s : c[i].kind = s[i].kind
      /\ DOMAIN Copies(CopyMap({v}, first)) \subseteq {New(j) : j \in first..(first + Cardinality(Deep({v})) - 1)}
      /\ Faithful(s, c, Copies(CopyMap({v}, first)))
  BY <1>4, CloneMade
<1> QED
  BY <1>2, <1>5 DEF c, s

LEMMA ValueObjectFacts ==
    ASSUME HeapInv, NEW x \in Var, NEW y \in Var, value_object(x, y)
    PROVE  /\ var[x] = Nothing /\ var[y].kind = "object"
           /\ \E u, h : \E q \in Free :
                /\ Made(One(1, u), h) /\ Faithful(One(1, var[y]), One(1, u), h) /\ u.kind = "object"
                /\ q \notin DOMAIN h /\ Store({}, Over(One(q, <<u>>), h)) /\ Assign(x, Ref("value", {q}))
<1> DEFINE v == var[y]
           f == CopyMap({v}, 1)
           n == Cardinality(Deep({v}))
           u == Renamed(f, v)
<1>1. /\ var[x] = Nothing /\ v.kind = "object" /\ Room(n + 1)
      /\ Store({}, Over(One(New(n + 1), <<u>>), Copies(f))) /\ Assign(x, Ref("value", {New(n + 1)}))
  BY DEF value_object, Is
<1>2. n \in Nat
  BY DeepIsFinite
<1>3. v.kind \in Plain
  BY <1>1 DEF Plain, Nest
<1>4. \E z \in Var : v = var[z]
  OBVIOUS
<1> HIDE DEF v
<1>5. /\ Made(One(1, u), Copies(f)) /\ u.kind = v.kind /\ Faithful(One(1, v), One(1, u), Copies(f))
      /\ DOMAIN Copies(f) \subseteq {New(j) : j \in 1..(1 + n - 1)}
  <2>1. n + 1 \in Nat /\ 1 \in Nat \ {0} /\ 1 + Cardinality(Deep({v})) - 1 <= n + 1
    BY <1>2
  <2> QED
    BY <1>1, <1>3, <1>4, <2>1, OneClone
<1> HIDE DEF f, u, n
<1>6. New(n + 1) \in Free /\ New(n + 1) \notin DOMAIN Copies(f)
  <2>1. n + 1 \in 1..(n + 1) /\ \A j \in 1..(1 + n - 1) : j \in 1..(n + 1) /\ j # n + 1
    BY <1>2
  <2>2. \A j \in 1..(1 + n - 1) : New(j) # New(n + 1)
    BY <1>1, <1>2, <2>1, NewFacts
  <2> QED
    BY <1>1, <1>2, <1>5, <2>1, <2>2, NewFacts
<1> QED
  BY <1>1, <1>5, <1>6 DEF v

LEMMA ValueObjectStep ==
    ASSUME HeapInv, NEW x \in Var, NEW y \in Var, value_object(x, y), UNCHANGED lent
    PROVE  Safe(x)
<1>1. PICK u, h : \E q \in Free :
        /\ Made(One(1, u), h) /\ u.kind = "object" /\ var[x] = Nothing
        /\ q \notin DOMAIN h /\ Store({}, Over(One(q, <<u>>), h)) /\ Assign(x, Ref("value", {q}))
  BY ValueObjectFacts
<1>2. u.kind \in Plain
  BY <1>1 DEF Plain, Nest
<1> QED
  BY <1>1, <1>2, BoxStep

LEMMA InsertFacts ==
    ASSUME HeapInv, NEW y \in Var, NEW k \in Key, NEW z \in Var \cup {"lent"}, insert(y, k, z)
    PROVE  /\ Is(y, "object") /\ IsValue(z)
           /\ \E u, h :
                /\ Made(One(k, u), h) /\ Faithful(One(k, ValueAt(z)), One(k, u), h) /\ u.kind \in Plain
                /\ PutAt(y, k, u, h) /\ LetGo(y) /\ UNCHANGED var
<1> DEFINE v == ValueAt(z)
           f == CopyMap({v}, 1)
           n == Cardinality(Deep({v}))
           u == Renamed(f, v)
<1>1. /\ Is(y, "object") /\ IsValue(z) /\ Room(n) /\ PutAt(y, k, u, Copies(f))
      /\ LetGo(y) /\ UNCHANGED var
  BY DEF insert
<1>2. n \in Nat
  BY DeepIsFinite
<1>3. Lies(v) /\ v.kind \in Plain
  BY <1>1, ValueLies, LiesFacts
<1> HIDE DEF v
<1>4. Made(One(k, u), Copies(f)) /\ u.kind \in Plain /\ Faithful(One(k, v), One(k, u), Copies(f))
  <2>1. 1 \in Nat \ {0} /\ 1 + Cardinality(Deep({v})) - 1 <= n
    BY <1>2
  <2> QED
    BY <1>1, <1>2, <1>3, <2>1, OneClone
<1> HIDE DEF f, u
<1> QED
  BY <1>1, <1>4 DEF v

LEMMA InsertStep ==
    ASSUME HeapInv, NEW y \in Var, NEW k \in Key, NEW z \in Var \cup {"lent"}, insert(y, k, z)
    PROVE  Safe(y)
<1>1. PICK u, h : /\ Is(y, "object") /\ Made(One(k, u), h) /\ u.kind \in Plain
                  /\ PutAt(y, k, u, h) /\ LetGo(y) /\ UNCHANGED var
  BY InsertFacts
<1> QED
  BY <1>1, PutStep

LEMMA InsertNewStep ==
    ASSUME HeapInv, NEW y \in Var, NEW k \in Key, NEW kind \in {"scalar", "string"}, insert_new(y, k, kind)
    PROVE  Safe(y)
<1> DEFINE n == Width(kind)
           u == Ref(kind, News(1, n))
<1>1. Is(y, "object") /\ Room(n) /\ PutAt(y, k, u, Buffers(1, n)) /\ LetGo(y) /\ UNCHANGED var
  BY DEF insert_new
<1>2. n \in Nat /\ n \in 0..2 /\ (kind = "scalar" => n = 0) /\ kind \in Plain \ Nest
  BY DEF Width, Plain, Nest
<1>3. Made(One(k, u), Buffers(1, n)) /\ u.kind \in Plain
  BY <1>1, <1>2, NewLeaf
<1> HIDE DEF u, n
<1> QED
  BY <1>1, <1>3, PutStep

(* A step that keeps the heap, and all variables. *)
SafeForAll == HeapInv' /\ \A y \in Var : Kept(y)

LEMMA SameHeap ==
    ASSUME HeapInv, UNCHANGED <<holds, var>>,
           lent' # <<>> => \E b \in Live : \E k \in DOMAIN holds[b] : lent' = <<b, k>>
    PROVE  SafeForAll
<1>1. PICK M : M = Lost
  OBVIOUS
<1>2. Live' = Live /\ Rest(M)' = Rest(M)
  BY DEF Live, Rest, Only
<1>3. Rooted(M)
  BY <1>1 DEF HeapInv
<1>4. Rooted(M)'
  BY <1>2, <1>3 DEF Rooted
<1>5. Rooted(Lost)'
  BY <1>4, RootedAfter
<1>6. \A y \in Var : Kept(y)
  BY ReachedFacts, KeptFacts, <1>2
<1>7. Sound(holds') /\ \A x \in Var : var'[x].kind \in Outer /\ Fits(var'[x], holds')
  BY DEF HeapInv
<1> QED
  BY <1>2, <1>5, <1>6, <1>7 DEF HeapInv, SafeForAll

LEMMA GetStep ==
    ASSUME HeapInv, NEW y \in Var,
           \/ \E k \in Key : object_get(y, k)
           \/ \E i \in -1..MaxLen : array_get(y, i)
    PROVE  SafeForAll
<1> SUFFICES UNCHANGED <<holds, var>> /\ (lent' # <<>> => \E b \in Live : \E k \in DOMAIN holds[b] : lent' = <<b, k>>)
  BY SameHeap
<1>1. ASSUME NEW k \in Key, object_get(y, k)
      PROVE  UNCHANGED <<holds, var>> /\ (lent' # <<>> => \E b \in Live : \E l \in DOMAIN holds[b] : lent' = <<b, l>>)
  <2>1. At(y) \in Live
    BY <1>1, AtFacts DEF object_get, Is, Nest
  <2> QED
    BY <1>1, <2>1 DEF object_get
<1>2. ASSUME NEW i \in -1..MaxLen, array_get(y, i)
      PROVE  UNCHANGED <<holds, var>> /\ (lent' # <<>> => \E b \in Live : \E l \in DOMAIN holds[b] : lent' = <<b, l>>)
  <2>1. PICK b \in Arrays(y) :
            /\ lent' = IF i >= 0 /\ i < Cardinality(DOMAIN holds[b]) THEN <<b, i + 1>> ELSE <<>>
            /\ UNCHANGED <<holds, var>>
    BY <1>2 DEF array_get
  <2>2. b \in Live /\ \E n \in 0..MaxLen : DOMAIN holds[b] = 1..n
    <3>1. CASE Is(y, "array")
      <4>1. b = At(y)
        BY <3>1, AtFacts DEF Arrays, Is, Nest
      <4> QED
        BY <3>1, <4>1, AtFacts DEF Is, Nest, Form
    <3>2. CASE Is(y, "results")
      <4>1. At(y) \in Owned
        BY <3>2, AtFacts DEF Is
      <4>2. PICK v \in Inside(At(y)) : v.kind = "array" /\ b \in v.refs
        BY <3>2 DEF Arrays, Is, Roots
      <4>3. Lies(v)
        BY <4>1, <4>2 DEF Inside, Range, Lies
      <4>4. PICK a \in Live : v.refs = {a} /\ Form("array", holds[a])
        BY <4>2, <4>3, LiesFacts DEF Fits, Nest, Live
      <4> QED
        BY <4>2, <4>4 DEF Form
    <3> QED
      BY <3>1, <3>2 DEF Arrays
  <2>3. PICK n \in 0..MaxLen : DOMAIN holds[b] = 1..n
    BY <2>2
  <2>4. Cardinality(DOMAIN holds[b]) = n
    <3>1. 1 \in Int /\ n \in Int /\ n >= 0
      BY <2>3
    <3>2. Cardinality(1..n) = IF 1 > n THEN 0 ELSE n - 1 + 1
      BY <3>1, FS_Interval
    <3> QED
      BY <2>3, <3>1, <3>2
  <2>5. i >= 0 /\ i < n => i + 1 \in DOMAIN holds[b]
    BY <2>3
  <2> QED
    BY <2>1, <2>2, <2>4, <2>5
<1> QED
  BY <1>1, <1>2

(* Of what these values lead to, a conversion takes nothing and keeps the     *)
(* coordinates of geometries, copied where nobody frees them.               *)
LEMMA PassFacts ==
    ASSUME NoBytes, HeapInv, NEW x \in Var \cup {"lent"}, pass(x)
    PROVE  /\ UNCHANGED <<var, lent>>
           /\ \E N \in SUBSET Free :
                /\ N # {} => "geometry" \in Kind
                /\ DOMAIN holds' = N \cup Live
                /\ \A b \in N : holds'[b] = <<>>
                /\ \A b \in Live : holds'[b] = holds[b]
                /\ holds' = [b \in DOMAIN holds' |-> holds'[b]]
<1> DEFINE at == Reached({Passed(x)}, Copied \cup {"value"})
           within == {Passed(x)} \cup UNION {Inside(b) : b \in at}
           kept == Roots(within, Copied \ Consumed)
           taken == Roots(within, Consumed \ Copied)
           n == Cardinality(kept)
           N == News(1, n)
<1>1. CanPass(x) /\ Room(n) /\ Store(taken, Buffers(1, n)) /\ UNCHANGED <<var, lent>>
  BY DEF pass
<1>2. at \in SUBSET Live
  BY ReachedFacts
<1>3. Passed(x).kind \in Plain \cup Outer /\ Passed(x).refs \subseteq Live
  <2>1. CASE x = "lent"
    <3>1. Lies(ValueAt("lent"))
      BY <1>1, <2>1, ValueLies DEF CanPass, IsValue
    <3> QED
      BY <2>1, <3>1, LiesFacts DEF Passed, Owned
  <2>2. CASE x # "lent"
    BY <2>2, VarFacts DEF Passed, Owned
  <2> QED
    BY <2>1, <2>2
<1> HIDE DEF at
<1>4. \A w \in within : w.kind \in Plain \cup Outer /\ w.refs \subseteq Live
  <2> SUFFICES ASSUME NEW b \in at, NEW k \in DOMAIN holds[b]
               PROVE  holds[b][k].kind \in Plain /\ holds[b][k].refs \subseteq Live
    BY <1>3 DEF Inside, Range
  <2>1. Lies(holds[b][k])
    BY <1>2, WholeFacts DEF Lies, Owned
  <2> QED
    BY <2>1, LiesFacts DEF Owned
<1> HIDE DEF within
<1>5. taken = {} /\ kept \in SUBSET Live /\ (kept # {} => "geometry" \in Kind)
  <2>1. \A w \in within : w.kind \notin Consumed \ Copied
    BY <1>4 DEF Plain, Outer, Nest, Consumed, Copied
  <2>2. \A w \in within : w.kind \in Copied \ Consumed => "geometry" \in Kind
    BY <1>4 DEF Plain, Outer, Nest, Consumed, Copied
  <2> QED
    BY <1>4, <2>1, <2>2 DEF Roots
<1> HIDE DEF taken, kept
<1>6. n \in Nat /\ (n # 0 => "geometry" \in Kind)
  <2>1. kept \in SUBSET Block
    BY <1>5 DEF HeapInv, Sound, Live
  <2>2. n \in Nat /\ (kept = {} => n = 0)
    BY <2>1, HereIsFinite, FS_Subset, FS_CardinalityType, FS_EmptySet
  <2> QED
    BY <1>5, <2>2
<1>7. N \in SUBSET Free /\ (n = 0 => N = {}) /\ DOMAIN Buffers(1, n) = N /\ \A b \in N : Buffers(1, n)[b] = <<>>
  <2>1. 1 + n - 1 <= n /\ 1 \in Nat \ {0}
    BY <1>6
  <2> HIDE DEF n
  <2>2. N \in SUBSET Free /\ (n = 0 => N = {}) /\ DOMAIN Buffers(1, n) = N
    BY <1>1, <1>6, <2>1, NewsFacts
  <2> QED
    BY <2>2 DEF Buffers
<1> HIDE DEF n, N
<1>8. /\ DOMAIN holds' = N \cup Live
      /\ \A b \in N : holds'[b] = <<>>
      /\ \A b \in Live : holds'[b] = holds[b]
      /\ holds' = [b \in DOMAIN holds' |-> holds'[b]]
  <2> DEFINE h == Buffers(1, n)
  <2>1. Store({}, h) /\ DOMAIN h = N /\ \A b \in N : h[b] = <<>>
    BY <1>1, <1>5, <1>7
  <2> HIDE DEF h
  <2>2. /\ DOMAIN holds' = DOMAIN h \cup (Live \ {})
        /\ \A b \in DOMAIN h : holds'[b] = h[b]
        /\ \A b \in Live \ {} : b \notin DOMAIN h => holds'[b] = holds[b]
        /\ holds' = [b \in DOMAIN holds' |-> holds'[b]]
    BY <2>1, StoreFacts
  <2> QED
    BY <1>7, <2>1, <2>2 DEF Free
<1> QED
  BY <1>1, <1>6, <1>7, <1>8

LEMMA PassStep ==
    ASSUME NoBytes, HeapInv, NEW x \in Var \cup {"lent"}, pass(x)
    PROVE  SafeForAll
<1>1. UNCHANGED <<var, lent>>
  BY PassFacts
<1>2. PICK N \in SUBSET Free :
        /\ N # {} => "geometry" \in Kind
        /\ DOMAIN holds' = N \cup Live
        /\ \A b \in N : holds'[b] = <<>>
        /\ \A b \in Live : holds'[b] = holds[b]
        /\ holds' = [b \in DOMAIN holds' |-> holds'[b]]
  BY PassFacts
<1>3. PICK M : M = Lost \cup N
  OBVIOUS
<1>4. 0 \notin Live' /\ Live' = Live \cup N /\ M \in SUBSET Live' /\ Live' \ M = Owned
  BY <1>2, <1>3, HereIsFinite, WholeFacts DEF Live, Free, Owned
<1>5. Rest(M)' = Whole
  <2>1. Rest(M)' = [b \in Owned \cup {0} |-> IF b = 0 THEN var ELSE holds[b]]
    <3>1. Only(holds', Live' \ M) = [b \in Owned |-> holds[b]]
      BY <1>2, <1>4 DEF Only, Live, Owned
    <3> QED
      BY <1>1, <1>4, <3>1 DEF Rest, Over, One
  <2>2. Whole = [b \in Owned \cup {0} |-> IF b = 0 THEN var ELSE holds[b]]
    <3>1. Only(holds, Live \ Lost) = [b \in Owned |-> holds[b]]
      BY DEF Only, Live, Owned
    <3> HIDE DEF Lost
    <3> QED
      BY <3>1 DEF Whole, Rest, Over, One
  <2> QED
    BY <2>1, <2>2
<1>6. Rooted(Lost)'
  <2>1. \A a \in M : DOMAIN holds'[a] = {}
    BY <1>2, <1>3, WholeFacts
  <2>2. M # {} => "geometry" \in Kind
    BY <1>2, <1>3, WholeFacts
  <2>3. Rooted(M)'
    BY <1>4, <1>5, <2>1, <2>2, WholeFacts DEF Rooted
  <2> QED
    BY <2>3, RootedAfter
<1>7. ASSUME NEW w, Fits(w, holds), w.refs \subseteq Live PROVE Fits(w, holds')
  BY <1>2, <1>7, FitsOn DEF Live
<1>8. Sound(holds')
  <2>1. ASSUME NEW b \in Live, NEW k \in DOMAIN holds[b]
        PROVE  holds[b][k].kind \in Plain /\ Fits(holds[b][k], holds')
    <3>1. Lies(holds[b][k])
      BY <2>1, WholeFacts DEF Lies, Owned
    <3> QED
      BY <1>7, <3>1, LiesFacts DEF Owned
  <2>2. \A b \in Live : b \in Block /\ DOMAIN holds[b] \subseteq Key \cup 1..MaxLen
    BY DEF HeapInv, Sound, Live
  <2>3. N \subseteq Block
    BY <1>2, HereIsFinite
  <2> QED
    BY <1>2, <2>1, <2>2, <2>3 DEF Sound
<1>9. \A y \in Var : var'[y].kind \in Outer /\ Fits(var'[y], holds')
  BY <1>1, <1>7, VarFacts DEF Owned
<1>10. \A y \in Var : Kept(y)
  <2> SUFFICES ASSUME NEW y \in Var PROVE Kept(y)
    OBVIOUS
  <2>1. Reached({var[y]}, AnyKind) \in SUBSET Live
    BY ReachedFacts
  <2> QED
    BY <1>1, <1>2, <1>4, <2>1, KeptFacts
<1>11. lent' # <<>> => \E b \in Live' : \E k \in DOMAIN holds'[b] : lent' = <<b, k>>
  BY <1>1, <1>2, <1>4 DEF HeapInv
<1>12. var' \in [Var -> Values]
  BY <1>1 DEF HeapInv
<1> QED
  BY <1>2, <1>6, <1>8, <1>9, <1>10, <1>11, <1>12 DEF HeapInv, SafeForAll

(* A push clones the elements of y with c and h, and the value of z after the *)
(* last of them.                                                            *)
Elems(y) == IF y \in Var THEN holds[At(y)] ELSE <<>>
AddsTo(z, l, c, h, q, u, g) ==
    /\ z # "null" /\ l + 1 <= MaxLen /\ u.kind \in Plain
    /\ Made(One(l + 1, u), g) /\ Faithful(One(l + 1, ValueAt(z)), One(l + 1, u), g)
    /\ DOMAIN h \cap DOMAIN g = {} /\ q \notin DOMAIN g
    /\ Store({}, Over(One(q, Over(One(l + 1, u), c)), Over(h, g)))
Pushes(x, y, z, l, c, h, q) ==
    /\ DOMAIN Elems(y) = 1..l /\ Cardinality(DOMAIN Elems(y)) = l
    /\ Made(c, h) /\ Faithful(Elems(y), c, h)
    /\ DOMAIN c = 1..l /\ \A i \in 1..l : c[i].kind \in Plain
    /\ q \in Free /\ q \notin DOMAIN h /\ Assign(x, Ref("array", {q}))
    /\ \/ z = "null" /\ Store({}, Over(One(q, c), h))
       \/ \E u, g : AddsTo(z, l, c, h, q, u, g)

LEMMA PushFacts ==
    ASSUME HeapInv, NEW x \in Var, NEW y \in Var \cup {"null"}, NEW z \in Var \cup {"null", "lent"},
           array_push(x, y, z)
    PROVE  /\ var[x] = Nothing /\ (y \in Var => var[y].kind = "array") /\ (z # "null" => IsValue(z))
           /\ \E l \in 0..MaxLen : \E c, h, q : Pushes(x, y, z, l, c, h, q)
<1> DEFINE old == Elems(y)
           end == Cardinality(DOMAIN old) + 1
           pushed == IF z = "null" THEN {} ELSE {ValueAt(z)}
           m == Cardinality(Deep(Range(old)))
           p == Cardinality(Deep(pushed))
           n == m + p
           f == CopyMap(Range(old), 1)
           g == CopyMap(pushed, m + 1)
           cloned == [i \in DOMAIN old |-> Renamed(f, old[i])]
           one == One(end, Renamed(g, ValueAt(z)))
           all == IF pushed = {} THEN cloned ELSE Over(one, cloned)
           q == New(n + 1)
           h == Over(Copies(f), Copies(g))
<1>1. /\ var[x] = Nothing /\ (y \in Var => var[y].kind = "array") /\ (z # "null" => IsValue(z))
      /\ end - 1 + Cardinality(pushed) <= MaxLen /\ Room(n + 1)
      /\ Store({}, Over(One(q, all), h)) /\ Assign(x, Ref("array", {q}))
  BY DEF array_push, Is, Elems
<1>2. m \in Nat /\ p \in Nat /\ n = m + p /\ n \in Nat
  <2>1. m \in Nat /\ p \in Nat
    BY DeepIsFinite
  <2> HIDE DEF m, p
  <2> QED
    BY <2>1
<1>3. PICK l \in 0..MaxLen : DOMAIN old = 1..l
  <2>1. CASE y \in Var
    BY <1>1, <2>1, AtFacts DEF Nest, Form, Elems
  <2>2. CASE y \notin Var
    <3>1. 0 \in 0..MaxLen /\ 1..0 = {}
      BY HeapAssumption
    <3> QED
      BY <2>2, <3>1 DEF Elems
  <2> QED
    BY <2>1, <2>2
<1>4. Cardinality(DOMAIN old) = l /\ end = l + 1 /\ l \in Nat /\ l <= MaxLen /\ MaxLen \in Nat
  <2>1. 1 \in Int /\ l \in Int /\ l >= 0 /\ l <= MaxLen /\ MaxLen \in Nat
    BY HeapAssumption
  <2>2. Cardinality(1..l) = IF 1 > l THEN 0 ELSE l - 1 + 1
    BY <2>1, FS_Interval
  <2> QED
    BY <1>3, <2>1, <2>2
<1>5. Cloned(cloned, old, Range(old), 1, n + 1)
  <2>1. PICK b \in DOMAIN Whole : \A i \in DOMAIN old : i \in DOMAIN Whole[b] /\ old[i] = Whole[b][i]
    <3>1. CASE y \in Var
      <4>1. At(y) \in Owned
        BY <1>1, <3>1, AtFacts DEF Nest
      <4> QED
        BY <3>1, <4>1, WholeFacts DEF Elems
    <3>2. CASE y \notin Var
      BY <3>2, WholeFacts DEF Elems
    <3> QED
      BY <3>1, <3>2
  <2>2. \A i, j \in DOMAIN old : \A d \in old[i].refs : d \in old[j].refs => i = j
    BY <2>1, WholeFacts DEF Tree, OwnedOnce
  <2>3. \A i \in DOMAIN old : old[i].kind \in Plain
    <3>1. CASE y \in Var
      <4>1. At(y) \in Owned
        BY <1>1, <3>1, AtFacts DEF Nest
      <4> QED
        BY <3>1, <4>1, LiesFacts DEF Lies, Elems
    <3>2. CASE y \notin Var
      BY <3>2 DEF Elems
    <3> QED
      BY <3>1, <3>2
  <2>4. Range(old) = {old[i] : i \in DOMAIN old}
    BY DEF Range
  <2>5. 1 \in Nat \ {0} /\ n + 1 \in Nat /\ 1 + m - 1 <= n + 1
    <3> HIDE DEF m, p
    <3> QED
      BY <1>2
  <2>6. DOMAIN cloned = DOMAIN old /\ \A i \in DOMAIN old : cloned[i] = Renamed(f, old[i])
    OBVIOUS
  <2> HIDE DEF old, cloned, n
  <2> QED
    BY <1>1, <2>1, <2>2, <2>3, <2>4, <2>5, <2>6 DEF Cloned
<1>6. /\ Made(cloned, Copies(f)) /\ DOMAIN cloned = 1..l /\ Faithful(old, cloned, Copies(f))
      /\ \A i \in 1..l : cloned[i].kind \in Plain
      /\ DOMAIN Copies(f) \subseteq {New(j) : j \in 1..(1 + m - 1)}
  <2>1. DOMAIN cloned = DOMAIN old
    OBVIOUS
  <2>2. \A i \in DOMAIN old : old[i].kind \in Plain
    <3> HIDE DEF cloned, old, n
    <3> QED
      BY <1>5 DEF Cloned
  <2>3. /\ Made(cloned, Copies(f)) /\ Faithful(old, cloned, Copies(f))
        /\ \A i \in DOMAIN old : cloned[i].kind = old[i].kind
        /\ DOMAIN Copies(f) \subseteq {New(j) : j \in 1..(1 + m - 1)}
    <3> HIDE DEF cloned, old, n
    <3> QED
      BY <1>5, CloneMade
  <2> HIDE DEF cloned, old, f, m
  <2> QED
    BY <1>3, <2>1, <2>2, <2>3
<1>7. \A i \in 1..(n + 1) : New(i) \in Free
  BY <1>1, <1>2, NewFacts
<1>8. \A i, j \in 1..(n + 1) : New(i) = New(j) => i = j
  BY <1>1, <1>2, NewFacts
<1>9. q \in Free /\ q \notin DOMAIN Copies(f)
  <2>1. n + 1 \in 1..(n + 1) /\ \A j \in 1..(1 + m - 1) : j \in 1..(n + 1) /\ j # n + 1
    <3> HIDE DEF m, p, n
    <3> QED
      BY <1>2
  <2> HIDE DEF m, n, f
  <2> QED
    BY <1>6, <1>7, <1>8, <2>1
<1>10. CASE z = "null"
  <2>1. pushed = {} /\ all = cloned
    BY <1>10
  <2> DEFINE nil == [i \in {} |-> Nothing]
  <2>2. Cloned(nil, nil, pushed, m + 1, n + 1)
    <3>1. m + 1 \in Nat \ {0} /\ n + 1 \in Nat /\ m + 1 + p - 1 <= n + 1
      <4> HIDE DEF m, p, n
      <4> QED
        BY <1>2
    <3>2. 0 \in DOMAIN Whole
      BY WholeFacts
    <3> HIDE DEF n, m
    <3> QED
      BY <1>1, <2>1, <3>1, <3>2 DEF Cloned
  <2>3. Made(nil, Copies(g))
    BY <2>2, CloneMade
  <2>4. DOMAIN Copies(g) = {}
    <3>1. Shut({}, Copies(g)) /\ DOMAIN nil = {}
      BY DEF Shut
    <3> HIDE DEF nil, g
    <3> QED
      BY <2>3, <3>1 DEF Made, Bush
  <2>5. h = Copies(f)
    <3>1. Copies(f) = [a \in DOMAIN Copies(f) |-> Copies(f)[a]]
      BY DEF Copies
    <3> HIDE DEF f, g
    <3> QED
      BY <2>4, <3>1 DEF Over
  <2> HIDE DEF cloned, h, all, q, f, old
  <2> QED
    BY <1>1, <1>3, <1>4, <1>6, <1>9, <1>10, <2>1, <2>5 DEF Pushes, old
<1>11. CASE z # "null"
  <2> DEFINE v == ValueAt(z)
  <2>1. pushed = {v} /\ all = Over(one, cloned)
    BY <1>11
  <2>2. Lies(v) /\ v.kind \in Plain
    BY <1>1, <1>11, ValueLies, LiesFacts
  <2>3. Cardinality(pushed) = 1
    BY <2>1, FS_Singleton
  <2>4. l + 1 <= MaxLen
    BY <1>1, <1>4, <2>3
  <2>5. /\ Made(one, Copies(g)) /\ one[end].kind \in Plain /\ Faithful(One(end, v), one, Copies(g))
        /\ DOMAIN Copies(g) \subseteq {New(j) : j \in (m + 1)..(m + 1 + p - 1)}
    <3>1. m + 1 \in Nat \ {0} /\ n + 1 \in Nat /\ m + 1 + p - 1 <= n + 1
      <4> HIDE DEF m, p, n
      <4> QED
        BY <1>2
    <3>2. g = CopyMap({v}, m + 1) /\ p = Cardinality(Deep({v}))
      BY <2>1
    <3>3. one = One(end, Renamed(g, v))
      OBVIOUS
    <3>4. one[end] = Renamed(g, v)
      BY DEF One
    <3> HIDE DEF v, g, p, n, m, end, one
    <3> QED
      BY <1>1, <2>2, <3>1, <3>2, <3>3, <3>4, OneClone
  <2>6. /\ \A j \in 1..(1 + m - 1), i \in (m + 1)..(m + 1 + p - 1) : New(i) # New(j)
        /\ \A i \in (m + 1)..(m + 1 + p - 1) : New(i) # q
    <3>1. /\ \A j \in 1..(1 + m - 1), i \in (m + 1)..(m + 1 + p - 1) : i \in 1..(n + 1) /\ j \in 1..(n + 1) /\ i # j
          /\ \A i \in (m + 1)..(m + 1 + p - 1) : i \in 1..(n + 1) /\ i # n + 1
          /\ n + 1 \in 1..(n + 1)
      <4> HIDE DEF m, p, n
      <4> QED
        BY <1>2
    <3> HIDE DEF n, m, p
    <3> QED
      BY <1>8, <3>1
  <2>7. DOMAIN Copies(f) \cap DOMAIN Copies(g) = {} /\ q \notin DOMAIN Copies(g)
    BY <1>6, <2>5, <2>6
  <2> DEFINE u == Renamed(g, v)
  <2>8. one = One(l + 1, u) /\ one[end] = u
    BY <1>4 DEF One
  <2> HIDE DEF u, one, cloned, f, g, q, h, all, old, end
  <2>9. AddsTo(z, l, cloned, Copies(f), q, u, Copies(g))
    BY <1>1, <1>4, <1>11, <2>1, <2>4, <2>5, <2>7, <2>8 DEF AddsTo, h
  <2> QED
    BY <1>1, <1>3, <1>4, <1>6, <1>9, <2>9 DEF Pushes, old
<1> QED
  BY <1>1, <1>10, <1>11

LEMMA ArrayPushStep ==
    ASSUME HeapInv, NEW x \in Var, NEW y \in Var \cup {"null"}, NEW z \in Var \cup {"null", "lent"},
           array_push(x, y, z), UNCHANGED lent
    PROVE  Safe(x)
<1>1. var[x] = Nothing /\ MaxLen \in Nat
  BY PushFacts, HeapAssumption
<1>2. PICK l \in 0..MaxLen : \E c, h, q : Pushes(x, y, z, l, c, h, q)
  BY PushFacts
<1>3. PICK c, h, q : Pushes(x, y, z, l, c, h, q)
  BY <1>2
<1>4. /\ Made(c, h) /\ DOMAIN c = 1..l /\ \A i \in 1..l : c[i].kind \in Plain
      /\ q \in Free /\ q \notin DOMAIN h /\ Assign(x, Ref("array", {q}))
  BY <1>3 DEF Pushes
<1>5. Ref("array", {q}).kind \in Outer
  BY DEF Ref, Outer, Nest
<1>6. ASSUME NEW all, NEW k \in 0..MaxLen, DOMAIN all = 1..k, \A i \in 1..k : all[i].kind \in Plain,
             NEW H, Made(all, H), q \notin DOMAIN H, Store({}, Over(One(q, all), H))
      PROVE  Safe(x)
  <2>1. 1..k \subseteq 1..MaxLen
    BY <1>1
  <2>2. Form("array", all) /\ DOMAIN all \subseteq Key \cup 1..MaxLen
    BY <1>6, <2>1 DEF Form
  <2>3. Made(One(x, Ref("array", {q})), Over(One(q, all), H))
    BY <1>4, <1>6, <2>2, BoxMade DEF Nest
  <2> QED
    BY <1>1, <1>4, <1>5, <1>6, <2>3, FillStep
<1>7. CASE Store({}, Over(One(q, c), h))
  BY <1>4, <1>6, <1>7
<1>8. ASSUME NEW u, NEW g, AddsTo(z, l, c, h, q, u, g) PROVE Safe(x)
  <2> DEFINE one == One(l + 1, u)
             all == Over(one, c)
  <2>1. /\ l + 1 <= MaxLen /\ u.kind \in Plain /\ Made(one, g) /\ DOMAIN h \cap DOMAIN g = {}
        /\ q \notin DOMAIN g /\ Store({}, Over(One(q, all), Over(h, g)))
    BY <1>8 DEF AddsTo
  <2>2. l + 1 \in 0..MaxLen /\ {l + 1} \cup 1..l = 1..(l + 1) /\ l + 1 \notin 1..l
    BY <1>1, <2>1
  <2>3. DOMAIN one = {l + 1} /\ one[l + 1] = u
    BY DEF One
  <2> HIDE DEF one
  <2>4. DOMAIN all = 1..(l + 1) /\ \A i \in 1..(l + 1) : all[i].kind \in Plain
    <3>1. DOMAIN all = {l + 1} \cup 1..l
      BY <1>4, <2>3 DEF Over
    <3>2. \A i \in DOMAIN all : all[i] = IF i = l + 1 THEN u ELSE c[i]
      BY <1>4, <2>3 DEF Over
    <3> QED
      BY <1>4, <2>1, <2>2, <3>1, <3>2
  <2>5. Made(all, Over(h, g)) /\ q \notin DOMAIN Over(h, g)
    <3>1. Made(all, Over(g, h))
      BY <1>4, <2>1, <2>2, <2>3, BothMade
    <3>2. Over(g, h) = Over(h, g)
      BY <2>1, OverEither
    <3> QED
      BY <1>4, <2>1, <3>1, <3>2 DEF Over
  <2> HIDE DEF all
  <2> QED
    BY <1>6, <2>1, <2>2, <2>4, <2>5
<1> QED
  BY <1>3, <1>7, <1>8 DEF Pushes

--------------------------------------------------------------------------------
(* The invariant and what follows from it *)

LEMMA HeapInvInit == Init => HeapInv
<1> SUFFICES ASSUME Init PROVE HeapInv
  OBVIOUS
<1>1. holds = <<>> /\ var = [x \in Var |-> Nothing] /\ lent = <<>>
  BY DEF Init
<1>2. Nothing \in Values /\ Nothing.refs = {} /\ Nothing.kind = "none"
  BY DEF Nothing, Ref, Values
<1>3. DOMAIN holds = {} /\ Live = {} /\ holds = [b \in DOMAIN holds |-> holds[b]]
  BY <1>1 DEF Live
<1>4. DOMAIN Rest({}) = {0} /\ Rest({})[0] = var
  BY <1>3, RestFacts
<1>5. \A k \in DOMAIN Rest({})[0] : Rest({})[0][k].refs = {}
  BY <1>1, <1>2, <1>4
<1>6. Tree(Rest({}), 0)
  BY <1>4, <1>5 DEF Tree, Shut, OwnedOnce
<1>7. Rooted(Lost)
  <2>1. Rooted({})
    BY <1>6 DEF Rooted
  <2> QED
    BY <2>1 DEF Lost, Rooted
<1>8. Sound(holds)
  BY <1>3 DEF Sound
<1>9. \A x \in Var : var[x].kind \in Outer /\ Fits(var[x], holds)
  BY <1>1, <1>2 DEF Outer, Fits, Nest
<1> QED
  BY <1>1, <1>2, <1>3, <1>7, <1>8, <1>9 DEF HeapInv

LEMMA EveryStepSafe ==
    NoBytes /\ HeapInv /\ [Next]_vars => SafeForAll \/ \E x \in Var : Safe(x)
<1> SUFFICES ASSUME NoBytes, HeapInv, [Next]_vars PROVE SafeForAll \/ \E x \in Var : Safe(x)
  OBVIOUS
<1>1. ASSUME NEW x \in Var, Fill(x), UNCHANGED lent PROVE Safe(x)
  <2>1. ASSUME NEW kind \in Kind, value_new(x, kind) \/ receive_value(x, kind) \/ receive_results(x, kind)
        PROVE  Safe(x)
    BY <1>1, <2>1, ValueNewStep, ReceiveResultsStep
  <2>2. CASE value_array(x) \/ object_new(x)
    BY <1>1, <2>2, ValueArrayStep, ObjectNewStep
  <2>3. CASE receive_empty(x)
    BY <1>1, <2>3, EmptyStep DEF receive_empty
  <2>4. ASSUME NEW y \in Var, value_object(x, y) \/ object_keys(x, y) PROVE Safe(x)
    BY <1>1, <2>4, ValueObjectStep, ObjectKeysStep
  <2>5. ASSUME NEW k \in Key, NEW kind \in Kind, receive_row(x, k, kind) PROVE Safe(x)
    BY <1>1, <2>5, ReceiveRowStep
  <2>6. ASSUME NEW y \in Var \cup {"null"}, NEW z \in Var \cup {"null", "lent"}, array_push(x, y, z)
        PROVE  Safe(x)
    BY <1>1, <2>6, ArrayPushStep
  <2> QED
    BY <1>1, <2>1, <2>2, <2>3, <2>4, <2>5, <2>6 DEF Fill
<1>2. ASSUME NEW y \in Var, NEW k \in Key, NEW z \in Var \cup {"lent"}, insert(y, k, z) PROVE Safe(y)
  BY <1>2, InsertStep
<1>3. ASSUME NEW y \in Var, NEW k \in Key, NEW kind \in {"scalar", "string"}, insert_new(y, k, kind)
      PROVE  Safe(y)
  BY <1>3, InsertNewStep
<1>4. ASSUME NEW y \in Var, (\E k \in Key : object_get(y, k)) \/ (\E i \in -1..MaxLen : array_get(y, i))
      PROVE  SafeForAll
  BY <1>4, GetStep
<1>5. ASSUME NEW y \in Var, \/ value_free(y) \/ free_object(y) \/ array_free(y) \/ free_arr(y)
                            \/ free_string_arr(y) \/ free_arr_res_arr(y)
      PROVE  Safe(y)
  BY <1>5, DropStep DEF value_free, free_object, array_free, free_arr, free_string_arr, free_arr_res_arr
<1>6. ASSUME NEW x \in Var \cup {"lent"}, pass(x) PROVE SafeForAll
  BY <1>6, PassStep
<1>7. CASE UNCHANGED vars
  <2>1. UNCHANGED <<holds, var>> /\ lent' = lent
    BY <1>7 DEF vars
  <2>2. lent' # <<>> => \E b \in Live : \E k \in DOMAIN holds[b] : lent' = <<b, k>>
    BY <2>1 DEF HeapInv
  <2> QED
    BY <2>1, <2>2, SameHeap
<1> QED
  BY <1>1, <1>2, <1>3, <1>4, <1>5, <1>6, <1>7 DEF Next

LEMMA HeapInvHolds == ASSUME NoBytes PROVE Spec => []HeapInv
<1>1. HeapInv /\ [Next]_vars => HeapInv'
  BY EveryStepSafe DEF Safe, SafeForAll
<1> QED
  BY <1>1, HeapInvInit, PTL DEF Spec

LEMMA HeapInvType == HeapInv => TypeOK
<1> SUFFICES ASSUME HeapInv PROVE TypeOK
  OBVIOUS
<1>1. Live \subseteq Block
  BY DEF HeapInv, Sound, Live
<1>2. ASSUME NEW b \in Live
      PROVE  DOMAIN holds[b] \subseteq Key \cup 1..MaxLen /\ Inside(b) \subseteq Values
  <2>1. /\ DOMAIN holds[b] \subseteq Key \cup 1..MaxLen
        /\ \A k \in DOMAIN holds[b] : holds[b][k] \in Values
    BY DEF HeapInv, Sound, Live, Fits
  <2> QED
    BY <2>1 DEF Inside, Range
<1>3. lent # <<>> => lent \in Block \X (Key \cup 1..MaxLen)
  <2> SUFFICES ASSUME lent # <<>> PROVE lent \in Block \X (Key \cup 1..MaxLen)
    OBVIOUS
  <2>1. PICK b \in Live : \E k \in DOMAIN holds[b] : lent = <<b, k>>
    BY DEF HeapInv
  <2> QED
    BY <1>1, <1>2, <2>1
<1> QED
  BY <1>1, <1>2, <1>3 DEF HeapInv, TypeOK

(* A place is one of the heap in reach, and what is in it the value there. *)
LEMMA PlaceFacts ==
    ASSUME HeapInv, NEW p \in Places
    PROVE  /\ p = <<p[1], p[2]>> /\ p[1] \in DOMAIN Whole /\ p[2] \in DOMAIN Whole[p[1]]
           /\ In(p) = Whole[p[1]][p[2]]
<1>1. CASE p \in {0} \X Var
  <2>1. p = <<p[1], p[2]>> /\ p[1] = 0 /\ p[2] \in Var /\ DOMAIN var = Var
    BY <1>1 DEF HeapInv
  <2> QED
    BY <2>1, WholeFacts DEF In
<1>2. CASE p \in UNION {{b} \X DOMAIN holds[b] : b \in Live}
  <2>1. PICK b \in Live : p \in {b} \X DOMAIN holds[b]
    BY <1>2
  <2>2. p = <<p[1], p[2]>> /\ p[1] = b /\ p[2] \in DOMAIN holds[b] /\ b # 0
    BY <2>1, WholeFacts
  <2>3. b \in Owned
    BY <2>2, WholeFacts DEF Owned
  <2> QED
    BY <2>2, <2>3, WholeFacts DEF In
<1> QED
  BY <1>1, <1>2 DEF Places

LEMMA HeapInvDangling == HeapInv => NoDangling
<1> SUFFICES ASSUME HeapInv PROVE NoDangling
  OBVIOUS
<1>1. ASSUME NEW p \in Places PROVE In(p).refs \subseteq Live
  <2>1. p[1] \in DOMAIN Whole /\ p[2] \in DOMAIN Whole[p[1]] /\ In(p) = Whole[p[1]][p[2]]
    BY PlaceFacts
  <2>2. Whole[p[1]][p[2]].refs \subseteq DOMAIN Whole \ {0}
    BY <2>1, WholeFacts DEF Tree
  <2> QED
    BY <2>1, <2>2, WholeFacts DEF Owned
<1>2. lent # <<>> => lent[1] \in Live /\ lent[2] \in DOMAIN holds[lent[1]]
  BY DEF HeapInv
<1> QED
  BY <1>1, <1>2 DEF NoDangling

LEMMA HeapInvOwner == HeapInv => OneOwner
<1> SUFFICES ASSUME HeapInv, NEW p \in Places, NEW q \in Places, NEW d \in In(p).refs, d \in In(q).refs
             PROVE  p = q
  BY DEF OneOwner
<1>1. /\ p = <<p[1], p[2]>> /\ p[1] \in DOMAIN Whole /\ p[2] \in DOMAIN Whole[p[1]]
      /\ d \in Whole[p[1]][p[2]].refs
  BY PlaceFacts
<1>2. /\ q = <<q[1], q[2]>> /\ q[1] \in DOMAIN Whole /\ q[2] \in DOMAIN Whole[q[1]]
      /\ d \in Whole[q[1]][q[2]].refs
  BY PlaceFacts
<1>3. p[1] = q[1] /\ p[2] = q[2]
  BY <1>1, <1>2, WholeFacts DEF Tree, OwnedOnce
<1> QED
  BY <1>1, <1>2, <1>3

LEMMA HeapInvLeak == HeapInv /\ "geometry" \notin Kind => NoLeak
<1> SUFFICES ASSUME HeapInv, "geometry" \notin Kind PROVE NoLeak
  OBVIOUS
<1> DEFINE V == Range(var)
           D == Reached(V, AnyKind)
           S == {0} \cup D
<1>1. V = {var[x] : x \in Var}
  BY DEF HeapInv, Range
<1>2. \A v \in V : v.refs \subseteq Owned /\ (v.refs # {} => v.kind \in AnyKind)
  BY <1>1, VarFacts, GrowsFacts
<1>3. Below(D, V, Whole) /\ D \subseteq Owned
  <2> HIDE DEF V
  <2> QED
    BY <1>2, GrowsFacts, ReachedBelow
<1> HIDE DEF V, D
<1>4. S \in SUBSET DOMAIN Whole
  BY <1>3, WholeFacts
<1>5. Shut(S, Whole)
  <2> SUFFICES ASSUME NEW b \in S, NEW k \in DOMAIN Whole[b] PROVE Whole[b][k].refs \subseteq S
    BY DEF Shut
  <2>1. CASE b = 0
    <3>1. Whole[b][k] \in V
      BY <1>1, <2>1, WholeFacts DEF HeapInv
    <3> QED
      BY <1>3, <3>1 DEF Below
  <2>2. CASE b \in D
    BY <1>3, <2>2 DEF Below, Shut
  <2> QED
    BY <2>1, <2>2
<1>6. S = DOMAIN Whole
  BY <1>4, <1>5, WholeFacts DEF Tree
<1>7. Live \subseteq D
  BY <1>6, WholeFacts DEF Owned
<1> QED
  BY <1>7 DEF NoLeak, V, D

(* Every value, allocation and lent pointer keeps the form that the types of *)
(* types/ give it.                                                          *)
THEOREM HeapTypeCorrect == ASSUME NoBytes PROVE Spec => []TypeOK
BY HeapInvHolds, HeapInvType, PTL

(* In whatever order a program calls the functions of types/ and the         *)
(* operations that take or return values: no pointer that it or the library  *)
(* still has leads to freed memory.                                         *)
THEOREM NeverDangling == ASSUME NoBytes PROVE Spec => []NoDangling
BY HeapInvHolds, HeapInvDangling, PTL

(* Each allocation is pointed to from one place at most: whatever two values *)
(* would share is copied, and nothing is freed twice.                       *)
THEOREM EachOwnedOnce == ASSUME NoBytes PROVE Spec => []OneOwner
BY HeapInvHolds, HeapInvOwner, PTL

(* A constructor, an insert, a push, a conversion or a free leaves every     *)
(* variable but the one it is for as it was, with all that lies behind it.   *)
THEOREM OthersUntouched == ASSUME NoBytes PROVE Spec => OthersKept
<1>1. HeapInv /\ [Next]_vars => [\A x, y \in {w \in Var : ~Kept(w)} : x = y]_vars
  BY EveryStepSafe DEF Safe, SafeForAll
<1> QED
  BY <1>1, HeapInvHolds, PTL DEF Spec, OthersKept

(* All that the functions of types/ and the operations allocate, but for      *)
(* geometries, can be reached from a variable of the program, so that        *)
(* freeing each variable with its function frees everything.                *)
THEOREM NothingLeaks == ASSUME NoBytes, "geometry" \notin Kind PROVE Spec => []NoLeak
BY HeapInvHolds, HeapInvLeak, PTL
================================================================================
