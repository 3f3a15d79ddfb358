------------------------------- MODULE TreeLemmas -------------------------------
(***************************************************************************)
(* What one can know of a heap in which every allocation has one owner.     *)
(* A heap maps addresses to contents, a content maps places to values, and   *)
(* a value's field `refs` is the set of addresses it points to.             *)
(***************************************************************************)
EXTENDS Maps, TLAPS

(* S is closed under what its allocations point to in g. *)
Shut(S, g) == \A b \in S : \A k \in DOMAIN g[b] : g[b][k].refs \subseteq S

(* Of two places that point to the same address one is the other. *)
OwnedOnce(g) ==
    \A b, c \in DOMAIN g : \A k \in DOMAIN g[b], l \in DOMAIN g[c] :
        \A d \in g[b][k].refs : d \in g[c][l].refs => b = c /\ k = l

(* Every allocation of g is r or owned once, by one that r leads to. *)
Tree(g, r) ==
    /\ r \in DOMAIN g
    /\ \A b \in DOMAIN g : \A k \in DOMAIN g[b] : g[b][k].refs \subseteq DOMAIN g \ {r}
    /\ OwnedOnce(g)
    /\ \A S \in SUBSET DOMAIN g : r \in S /\ Shut(S, g) => S = DOMAIN g

(* The content c and the allocations h own all of h, once each. *)
Bush(c, h) ==
    /\ \A k \in DOMAIN c : c[k].refs \subseteq DOMAIN h
    /\ Shut(DOMAIN h, h)
    /\ \A k, l \in DOMAIN c : \A d \in c[k].refs : d \in c[l].refs => k = l
    /\ \A k \in DOMAIN c, b \in DOMAIN h : \A l \in DOMAIN h[b] : c[k].refs \cap h[b][l].refs = {}
    /\ OwnedOnce(h)
    /\ \A S \in SUBSET DOMAIN h :
        (\A k \in DOMAIN c : c[k].refs \subseteq S) /\ Shut(S, h) => S = DOMAIN h

(* D is what the values V lead to in g. *)
Below(D, V, g) ==
    /\ D \subseteq DOMAIN g
    /\ \A v \in V : v.refs \subseteq D
    /\ Shut(D, g)
    /\ \A S \in SUBSET DOMAIN g : (\A v \in V : v.refs \subseteq S) /\ Shut(S, g) => D \subseteq S

--------------------------------------------------------------------------------
(* Reaching *)

(* Whatever V leads to, a value of V or an allocation below points to. *)
LEMMA Supported ==
    ASSUME NEW g, NEW D, NEW V, Below(D, V, g), NEW d \in D
    PROVE  \/ \E v \in V : d \in v.refs
           \/ \E b \in D : \E k \in DOMAIN g[b] : d \in g[b][k].refs
<1> SUFFICES ASSUME \A v \in V : d \notin v.refs,
                    \A b \in D : \A k \in DOMAIN g[b] : d \notin g[b][k].refs
             PROVE  FALSE
  OBVIOUS
<1> DEFINE S == D \ {d}
<1>1. S \in SUBSET DOMAIN g /\ (\A v \in V : v.refs \subseteq S)
  BY DEF Below
<1>2. Shut(S, g)
  BY DEF Below, Shut
<1>3. D \subseteq S
  BY <1>1, <1>2 DEF Below
<1> QED
  BY <1>3

(* In a tree, what some places of b lead to does not include b, nor the      *)
(* root, and nothing else points into it.                                   *)
LEMMA Acyclic ==
    ASSUME NEW g, NEW r, Tree(g, r), NEW b \in DOMAIN g, NEW K \in SUBSET DOMAIN g[b],
           NEW D, Below(D, {g[b][k] : k \in K}, g)
    PROVE  /\ b \notin D /\ r \notin D
           /\ \A c \in DOMAIN g \ D : \A l \in DOMAIN g[c] :
                c # b \/ l \notin K => g[c][l].refs \cap D = {}
<1> DEFINE V == {g[b][k] : k \in K}
<1>1. D \subseteq DOMAIN g
  BY DEF Below
<1>2. r \notin D
  <2> SUFFICES ASSUME r \in D PROVE FALSE
    OBVIOUS
  <2>1. (\E v \in V : r \in v.refs) \/ (\E c \in D : \E k \in DOMAIN g[c] : r \in g[c][k].refs)
    BY Supported
  <2> QED
    BY <1>1, <2>1 DEF Tree
<1>3. ASSUME NEW c \in DOMAIN g \ D, NEW l \in DOMAIN g[c], c # b \/ l \notin K
      PROVE  g[c][l].refs \cap D = {}
  <2> SUFFICES ASSUME NEW d \in D, d \in g[c][l].refs PROVE FALSE
    OBVIOUS
  <2>1. (\E v \in V : d \in v.refs) \/ (\E e \in D : \E k \in DOMAIN g[e] : d \in g[e][k].refs)
    BY Supported
  <2>2. ASSUME NEW k \in K, d \in g[b][k].refs PROVE FALSE
    BY <1>3, <2>2 DEF Tree, OwnedOnce
  <2>3. ASSUME NEW e \in D, NEW k \in DOMAIN g[e], d \in g[e][k].refs PROVE FALSE
    BY <1>1, <2>3 DEF Tree, OwnedOnce
  <2> QED
    BY <2>1, <2>2, <2>3
<1>4. b \notin D
  <2> SUFFICES ASSUME b \in D PROVE FALSE
    OBVIOUS
  <2> DEFINE S == DOMAIN g \ D
  <2>1. r \in S
    BY <1>2 DEF Tree
  <2>2. Shut(S, g)
    <3> SUFFICES ASSUME NEW c \in S, NEW l \in DOMAIN g[c] PROVE g[c][l].refs \subseteq S
      BY DEF Shut
    <3>1. g[c][l].refs \cap D = {}
      BY <1>3
    <3> QED
      BY <3>1 DEF Tree
  <2>3. S = DOMAIN g
    BY <2>1, <2>2 DEF Tree
  <2> QED
    BY <2>3
<1> QED
  BY <1>2, <1>3, <1>4

--------------------------------------------------------------------------------
(* Changing a tree *)

(* g2 is g with c put into b over what was there, without D, and with the    *)
(* new allocations h.                                                       *)
Grown(g, g2, b, c, D, h) ==
    /\ DOMAIN g2 = (DOMAIN g \ D) \cup DOMAIN h
    /\ \A a \in DOMAIN h : g2[a] = h[a]
    /\ \A a \in DOMAIN g \ D : a # b => g2[a] = g[a]
    /\ g2[b] = Over(c, g[b])

(* Replacing what lies in some places of a tree, with all it leads to, by    *)
(* values with allocations of their own leaves a tree.                      *)
LEMMA Replaced ==
    ASSUME NEW g, NEW g2, NEW r, NEW b \in DOMAIN g, NEW c, NEW h, NEW D,
           Tree(g, r), Bush(c, h), DOMAIN h \cap DOMAIN g = {},
           Below(D, {g[b][k] : k \in DOMAIN c \cap DOMAIN g[b]}, g),
           Grown(g, g2, b, c, D, h)
    PROVE  Tree(g2, r)
<1> DEFINE K == DOMAIN c \cap DOMAIN g[b]
           New(a, k) == a \in DOMAIN h \/ (a = b /\ k \in DOMAIN c)
<1>1. /\ b \notin D /\ r \notin D
      /\ \A a \in DOMAIN g \ D : \A l \in DOMAIN g[a] : a # b \/ l \notin K => g[a][l].refs \cap D = {}
  <2>1. K \in SUBSET DOMAIN g[b] /\ Below(D, {g[b][k] : k \in K}, g)
    OBVIOUS
  <2> HIDE DEF K
  <2> QED
    BY <2>1, Acyclic
<1>2. /\ D \subseteq DOMAIN g /\ b \in DOMAIN g2 /\ b \notin DOMAIN h
      /\ DOMAIN g2[b] = DOMAIN c \cup DOMAIN g[b]
      /\ \A k \in DOMAIN g2[b] : g2[b][k] = IF k \in DOMAIN c THEN c[k] ELSE g[b][k]
  BY <1>1 DEF Below, Grown, Over
<1>3. ASSUME NEW a \in DOMAIN g2, NEW k \in DOMAIN g2[a], New(a, k)
      PROVE  /\ g2[a][k].refs \subseteq DOMAIN h
             /\ \/ a = b /\ k \in DOMAIN c /\ g2[a][k] = c[k]
                \/ a \in DOMAIN h /\ k \in DOMAIN h[a] /\ g2[a][k] = h[a][k]
  BY <1>2, <1>3 DEF Grown, Bush, Shut
<1>4. ASSUME NEW a \in DOMAIN g2, NEW k \in DOMAIN g2[a], ~New(a, k)
      PROVE  /\ a \in DOMAIN g \ D /\ k \in DOMAIN g[a] /\ g2[a][k] = g[a][k]
             /\ g2[a][k].refs \subseteq (DOMAIN g \ {r}) \ D
  <2>1. a \in DOMAIN g \ D /\ k \in DOMAIN g[a] /\ g2[a][k] = g[a][k] /\ (a # b \/ k \notin K)
    BY <1>2, <1>4 DEF Grown
  <2>2. g[a][k].refs \cap D = {}
    BY <1>1, <2>1
  <2> QED
    BY <2>1, <2>2 DEF Tree
<1>5. r \in DOMAIN g2 /\ r \notin DOMAIN h
  BY <1>1 DEF Tree, Grown
<1>6. \A a \in DOMAIN g2 : \A k \in DOMAIN g2[a] : g2[a][k].refs \subseteq DOMAIN g2 \ {r}
  <2> SUFFICES ASSUME NEW a \in DOMAIN g2, NEW k \in DOMAIN g2[a]
               PROVE  g2[a][k].refs \subseteq DOMAIN g2 \ {r}
    OBVIOUS
  <2>1. CASE New(a, k)
    BY <1>3, <1>5, <2>1 DEF Grown
  <2>2. CASE ~New(a, k)
    BY <1>4, <2>2 DEF Grown
  <2> QED
    BY <2>1, <2>2
<1>7. OwnedOnce(g2)
  <2> SUFFICES ASSUME NEW a \in DOMAIN g2, NEW e \in DOMAIN g2, NEW k \in DOMAIN g2[a], NEW l \in DOMAIN g2[e],
                      NEW d, d \in g2[a][k].refs, d \in g2[e][l].refs
               PROVE  a = e /\ k = l
    BY DEF OwnedOnce
  <2>1. CASE New(a, k) /\ New(e, l)
    BY <1>2, <1>3, <2>1 DEF Bush, OwnedOnce
  <2>2. CASE ~New(a, k) /\ ~New(e, l)
    BY <1>4, <2>2 DEF Tree, OwnedOnce
  <2>3. CASE New(a, k) /\ ~New(e, l)
    BY <1>3, <1>4, <2>3
  <2>4. CASE ~New(a, k) /\ New(e, l)
    BY <1>3, <1>4, <2>4
  <2> QED
    BY <2>1, <2>2, <2>3, <2>4
<1>8. ASSUME NEW S \in SUBSET DOMAIN g2, r \in S, Shut(S, g2)
      PROVE  S = DOMAIN g2
  <2> DEFINE T == (S \cap DOMAIN g) \cup D
  <2>1. T \in SUBSET DOMAIN g /\ r \in T
    BY <1>2, <1>8 DEF Tree
  <2>2. Shut(T, g)
    <3> SUFFICES ASSUME NEW a \in T, NEW k \in DOMAIN g[a], NEW d \in g[a][k].refs PROVE d \in T
      BY DEF Shut
    <3>1. CASE a \in D
      BY <3>1 DEF Below, Shut
    <3>2. CASE a \notin D /\ a = b /\ k \in K
      BY <3>2 DEF Below
    <3>3. CASE a \notin D /\ ~(a = b /\ k \in K)
      <4>1. a \in S /\ a \in DOMAIN g \ D /\ a \notin DOMAIN h
        BY <3>3 DEF Grown
      <4>2. k \in DOMAIN g2[a] /\ g2[a][k] = g[a][k]
        BY <1>2, <3>3, <4>1 DEF Grown
      <4>3. d \in S
        BY <1>8, <4>1, <4>2 DEF Shut
      <4> QED
        BY <4>1, <4>3 DEF Tree
    <3> QED
      BY <3>1, <3>2, <3>3
  <2>3. DOMAIN g \ D \subseteq S
    BY <2>1, <2>2 DEF Tree
  <2> DEFINE U == S \cap DOMAIN h
  <2>4. \A k \in DOMAIN c : c[k].refs \subseteq U
    <3> SUFFICES ASSUME NEW k \in DOMAIN c PROVE c[k].refs \subseteq U
      OBVIOUS
    <3>1. b \in S /\ k \in DOMAIN g2[b] /\ g2[b][k] = c[k]
      BY <1>1, <1>2, <2>3
    <3> QED
      BY <1>8, <3>1 DEF Shut, Bush
  <2>5. Shut(U, h)
    <3> SUFFICES ASSUME NEW a \in U, NEW k \in DOMAIN h[a] PROVE h[a][k].refs \subseteq U
      BY DEF Shut
    <3>1. g2[a] = h[a]
      BY DEF Grown
    <3> QED
      BY <1>8, <3>1 DEF Shut, Bush
  <2>6. U = DOMAIN h
    BY <2>4, <2>5 DEF Bush
  <2> QED
    BY <2>3, <2>6 DEF Grown
<1> QED
  BY <1>5, <1>6, <1>7, <1>8 DEF Tree

--------------------------------------------------------------------------------
(* Making bushes *)

(* A value with empty allocations. *)
LEMMA Leaves ==
    ASSUME NEW c, NEW h, \A b \in DOMAIN h : DOMAIN h[b] = {},
           \A k, l \in DOMAIN c : \A d \in c[k].refs : d \in c[l].refs => k = l,
           \A k \in DOMAIN c : c[k].refs \subseteq DOMAIN h,
           \A b \in DOMAIN h : \E k \in DOMAIN c : b \in c[k].refs
    PROVE  Bush(c, h)
BY DEF Bush, Shut, OwnedOnce

(* An allocation q for the content of a bush, and a value that points to it. *)
LEMMA Boxed ==
    ASSUME NEW c, NEW h, Bush(c, h), NEW q, q \notin DOMAIN h,
           NEW d, NEW k, DOMAIN d = {k}, d[k].refs = {q}
    PROVE  Bush(d, Over(One(q, c), h))
<1> DEFINE h2 == Over(One(q, c), h)
<1>1. /\ DOMAIN h2 = DOMAIN h \cup {q} /\ h2[q] = c
      /\ \A b \in DOMAIN h : h2[b] = h[b]
  BY DEF Over, One
<1> HIDE DEF h2
<1>2. Shut(DOMAIN h2, h2)
  BY <1>1 DEF Bush, Shut
<1>3. OwnedOnce(h2)
  BY <1>1 DEF Bush, OwnedOnce
<1>4. \A b \in DOMAIN h2 : \A l \in DOMAIN h2[b] : q \notin h2[b][l].refs
  BY <1>1 DEF Bush, Shut
<1>5. ASSUME NEW S \in SUBSET DOMAIN h2, q \in S, Shut(S, h2) PROVE S = DOMAIN h2
  <2> DEFINE T == S \cap DOMAIN h
  <2>1. \A l \in DOMAIN c : c[l].refs \subseteq T
    BY <1>1, <1>5 DEF Bush, Shut
  <2>2. Shut(T, h)
    BY <1>1, <1>5 DEF Bush, Shut
  <2>3. T = DOMAIN h
    BY <2>1, <2>2 DEF Bush
  <2> QED
    BY <1>1, <1>5, <2>3
<1> QED
  BY <1>1, <1>2, <1>3, <1>4, <1>5 DEF Bush, h2

(* Two bushes side by side. *)
LEMMA Joined ==
    ASSUME NEW c1, NEW h1, NEW c2, NEW h2, Bush(c1, h1), Bush(c2, h2),
           DOMAIN c1 \cap DOMAIN c2 = {}, DOMAIN h1 \cap DOMAIN h2 = {}
    PROVE  Bush(Over(c1, c2), Over(h1, h2))
<1> DEFINE c == Over(c1, c2)
           h == Over(h1, h2)
<1>1. /\ DOMAIN h = DOMAIN h1 \cup DOMAIN h2
      /\ \A b \in DOMAIN h1 : h[b] = h1[b]
      /\ \A b \in DOMAIN h2 : h[b] = h2[b]
  BY DEF Over
<1>2. /\ DOMAIN c = DOMAIN c1 \cup DOMAIN c2
      /\ \A b \in DOMAIN c1 : c[b] = c1[b]
      /\ \A b \in DOMAIN c2 : c[b] = c2[b]
  BY DEF Over
<1> HIDE DEF c, h
<1>3. \A k \in DOMAIN c : c[k].refs \subseteq DOMAIN h
  BY <1>1, <1>2 DEF Bush
<1>4. Shut(DOMAIN h, h)
  BY <1>1 DEF Bush, Shut
<1>5. \A k, l \in DOMAIN c : \A d \in c[k].refs : d \in c[l].refs => k = l
  BY <1>1, <1>2 DEF Bush
<1>6. \A k \in DOMAIN c, b \in DOMAIN h : \A l \in DOMAIN h[b] : c[k].refs \cap h[b][l].refs = {}
  BY <1>1, <1>2 DEF Bush, Shut
<1>7. OwnedOnce(h)
  BY <1>1 DEF Bush, Shut, OwnedOnce
<1>8. ASSUME NEW S \in SUBSET DOMAIN h, \A k \in DOMAIN c : c[k].refs \subseteq S, Shut(S, h)
      PROVE  S = DOMAIN h
  <2> DEFINE S1 == S \cap DOMAIN h1
             S2 == S \cap DOMAIN h2
  <2>1. S1 = DOMAIN h1
    <3>1. \A k \in DOMAIN c1 : c1[k].refs \subseteq S1
      BY <1>2, <1>8 DEF Bush
    <3>2. Shut(S1, h1)
      BY <1>1, <1>8 DEF Bush, Shut
    <3> QED
      BY <3>1, <3>2 DEF Bush
  <2>2. S2 = DOMAIN h2
    <3>1. \A k \in DOMAIN c2 : c2[k].refs \subseteq S2
      BY <1>2, <1>8 DEF Bush
    <3>2. Shut(S2, h2)
      BY <1>1, <1>8 DEF Bush, Shut
    <3> QED
      BY <3>1, <3>2 DEF Bush
  <2> QED
    BY <1>1, <2>1, <2>2
<1> QED
  BY <1>3, <1>4, <1>5, <1>6, <1>7, <1>8 DEF Bush, c, h

(* h copies the allocations D of g to the addresses f gives them, and c the  *)
(* values s.                                                                *)
CopiedTo(f, g, D, s, c, h) ==
    /\ DOMAIN h = {f[a] : a \in D}
    /\ \A a \in D : DOMAIN h[f[a]] = DOMAIN g[a]
    /\ \A a \in D : \A k \in DOMAIN g[a] : h[f[a]][k].refs = {f[d] : d \in g[a][k].refs}
    /\ DOMAIN c = DOMAIN s
    /\ \A i \in DOMAIN s : c[i].refs = {f[d] : d \in s[i].refs}

(* A copy of values that lie in one allocation of a tree, with all they lead *)
(* to, is a bush.                                                           *)
LEMMA CopyIsBush ==
    ASSUME NEW g, NEW r, Tree(g, r), NEW b \in DOMAIN g,
           NEW s, \A i \in DOMAIN s : \E k \in DOMAIN g[b] : s[i] = g[b][k],
           \A i, j \in DOMAIN s : \A d \in s[i].refs : d \in s[j].refs => i = j,
           NEW D, Below(D, {s[i] : i \in DOMAIN s}, g),
           NEW f, \A a, d \in D : f[a] = f[d] => a = d,
           NEW c, NEW h, CopiedTo(f, g, D, s, c, h)
    PROVE  Bush(c, h)
<1> DEFINE K == {k \in DOMAIN g[b] : \E i \in DOMAIN s : s[i] = g[b][k]}
<1>1. b \notin D
  <2>1. K \in SUBSET DOMAIN g[b] /\ {s[i] : i \in DOMAIN s} = {g[b][k] : k \in K}
    OBVIOUS
  <2> HIDE DEF K
  <2> QED
    BY <2>1, Acyclic
<1>2. D \subseteq DOMAIN g /\ (\A i \in DOMAIN s : s[i].refs \subseteq D)
      /\ \A a \in D : \A k \in DOMAIN g[a] : g[a][k].refs \subseteq D
  BY DEF Below, Shut
<1>3. ASSUME NEW e \in DOMAIN h
      PROVE  \E a \in D : e = f[a] /\ DOMAIN h[e] = DOMAIN g[a]
                /\ \A k \in DOMAIN g[a] : h[e][k].refs = {f[d] : d \in g[a][k].refs}
  BY DEF CopiedTo
<1>4. DOMAIN c = DOMAIN s /\ \A i \in DOMAIN s : c[i].refs = {f[d] : d \in s[i].refs}
  BY DEF CopiedTo
<1>5. \A i \in DOMAIN c : c[i].refs \subseteq DOMAIN h
  BY <1>2, <1>4 DEF CopiedTo
<1>6. Shut(DOMAIN h, h)
  <2> SUFFICES ASSUME NEW e \in DOMAIN h, NEW k \in DOMAIN h[e] PROVE h[e][k].refs \subseteq DOMAIN h
    BY DEF Shut
  <2>1. PICK a \in D : DOMAIN h[e] = DOMAIN g[a] /\ h[e][k].refs = {f[d] : d \in g[a][k].refs}
    BY <1>3
  <2> QED
    BY <1>2, <2>1 DEF CopiedTo
<1>7. \A i, j \in DOMAIN c : \A x \in c[i].refs : x \in c[j].refs => i = j
  <2> SUFFICES ASSUME NEW i \in DOMAIN s, NEW j \in DOMAIN s, NEW x, x \in c[i].refs, x \in c[j].refs
               PROVE  i = j
    BY <1>4
  <2>1. PICK d \in s[i].refs : x = f[d]
    BY <1>4
  <2>2. PICK e \in s[j].refs : x = f[e]
    BY <1>4
  <2>3. d = e
    BY <1>2, <2>1, <2>2
  <2> QED
    BY <2>3
<1>8. ASSUME NEW i \in DOMAIN c, NEW e \in DOMAIN h, NEW l \in DOMAIN h[e], NEW x,
             x \in c[i].refs, x \in h[e][l].refs
      PROVE  FALSE
  <2>1. PICK a \in D : DOMAIN h[e] = DOMAIN g[a] /\ h[e][l].refs = {f[d] : d \in g[a][l].refs}
    BY <1>3
  <2>2. PICK d \in s[i].refs : x = f[d]
    BY <1>4, <1>8
  <2>3. PICK y \in g[a][l].refs : x = f[y]
    BY <1>8, <2>1
  <2>4. d = y
    BY <1>2, <1>4, <2>1, <2>2, <2>3
  <2>5. PICK k \in DOMAIN g[b] : s[i] = g[b][k]
    BY <1>4
  <2> QED
    BY <1>1, <1>2, <2>1, <2>4, <2>5 DEF Tree, OwnedOnce
<1>9. OwnedOnce(h)
  <2> SUFFICES ASSUME NEW e \in DOMAIN h, NEW y \in DOMAIN h, NEW k \in DOMAIN h[e], NEW l \in DOMAIN h[y],
                      NEW x, x \in h[e][k].refs, x \in h[y][l].refs
               PROVE  e = y /\ k = l
    BY DEF OwnedOnce
  <2>1. PICK a \in D : e = f[a] /\ DOMAIN h[e] = DOMAIN g[a] /\ h[e][k].refs = {f[d] : d \in g[a][k].refs}
    BY <1>3
  <2>2. PICK z \in D : y = f[z] /\ DOMAIN h[y] = DOMAIN g[z] /\ h[y][l].refs = {f[d] : d \in g[z][l].refs}
    BY <1>3
  <2>3. PICK d \in g[a][k].refs : x = f[d]
    BY <2>1
  <2>4. PICK w \in g[z][l].refs : x = f[w]
    BY <2>2
  <2>5. d = w
    BY <1>2, <2>1, <2>2, <2>3, <2>4
  <2> QED
    BY <1>2, <2>1, <2>2, <2>5 DEF Tree, OwnedOnce
<1>10. ASSUME NEW S \in SUBSET DOMAIN h, \A i \in DOMAIN c : c[i].refs \subseteq S, Shut(S, h)
       PROVE  S = DOMAIN h
  <2> DEFINE P == {a \in D : f[a] \in S}
  <2>1. \A i \in DOMAIN s : s[i].refs \subseteq P
    BY <1>2, <1>4, <1>10
  <2>2. Shut(P, g)
    <3> SUFFICES ASSUME NEW a \in P, NEW k \in DOMAIN g[a], NEW d \in g[a][k].refs PROVE f[d] \in S
      BY <1>2 DEF Shut
    <3>1. f[a] \in S /\ k \in DOMAIN h[f[a]] /\ f[d] \in h[f[a]][k].refs
      BY DEF CopiedTo
    <3> QED
      BY <1>10, <3>1 DEF Shut
  <2>3. D \subseteq P
    BY <1>2, <2>1, <2>2 DEF Below
  <2> QED
    BY <2>3 DEF CopiedTo
<1> QED
  BY <1>5, <1>6, <1>7, <1>8, <1>9, <1>10 DEF Bush
================================================================================
