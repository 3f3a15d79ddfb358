----------------------------- MODULE RecordsProofs -----------------------------
(* Theorems about Records, for any names, contents and conversions. *)
EXTENDS Records, FiniteSetTheorems, TLAPS

LEMMA BoundType == MaxRecords \in Nat
BY NamesAssumption

PlaceType == [table : STRING, key : KeyType]

(* What a name can be made to stand for. *)
Read(n) == {parse_resource(n), WholeTable(n)} \cup Spliced(n)

(* A new record lies at a place that can be. *)
LEMMA FreePlaceTypes ==
    ASSUME NEW n \in Names, NEW r \in Read(n), NEW p \in FreePlaces(r)
    PROVE  p \in PlaceType /\ p \notin DOMAIN db
<1> USE NamesAssumption DEF KeyType, PlaceType
<1>1. n.text \in STRING /\ n.table \in STRING /\ n.id \in STRING
  OBVIOUS
<1>2. Key("string", n.id) \in KeyType
  BY <1>1 DEF Key
<1>3. r = Table(n.text) \/ \E k \in KeyType : r = Record(n.table, k)
  <2>1. \A k \in Reads(n.id) : k \in KeyType
    OBVIOUS
  <2> QED
    BY <1>2, <2>1 DEF Read, parse_resource, Spliced, WholeTable
<1>5. CASE r = Table(n.text)
  <2>1. p \in {Place(n.text, Key("string", id)) : id \in Random} \ DOMAIN db
    BY <1>5 DEF Table, FreePlaces
  <2>2. PICK id \in Random : p = Place(n.text, Key("string", id))
    BY <2>1
  <2>3. id \in STRING
    OBVIOUS
  <2>4. Key("string", id) \in KeyType
    BY <2>3 DEF Key
  <2> QED
    BY <1>1, <2>1, <2>2, <2>4 DEF Place
<1>6. ASSUME NEW k \in KeyType, r = Record(n.table, k) PROVE p \in PlaceType /\ p \notin DOMAIN db
  <2>1. p \in {Place(n.table, k)} \ DOMAIN db
    BY <1>6 DEF Record, FreePlaces
  <2>2. p = [table |-> n.table, key |-> k]
    BY <2>1 DEF Place
  <2> QED
    BY <1>1, <2>1, <2>2
<1> QED
  BY <1>3, <1>5, <1>6

(* One more record, or one less, is no more than finitely many. *)
LEMMA OneMore ==
    ASSUME NEW m, NEW p, NEW v, IsFiniteSet(DOMAIN m)
    PROVE  /\ DOMAIN Over(One(p, v), m) = DOMAIN m \cup {p}
           /\ IsFiniteSet(DOMAIN m \cup {p})
           /\ Cardinality(DOMAIN m) \in Nat
           /\ p \notin DOMAIN m => Cardinality(DOMAIN m \cup {p}) = Cardinality(DOMAIN m) + 1
BY FS_AddElement, FS_CardinalityType DEF Over, One

LEMMA SomeLess ==
    ASSUME NEW m, NEW S, IsFiniteSet(DOMAIN m), Cardinality(DOMAIN m) <= MaxRecords
    PROVE  /\ DOMAIN Only(m, S) \subseteq DOMAIN m /\ IsFiniteSet(DOMAIN Only(m, S))
           /\ Cardinality(DOMAIN Only(m, S)) <= MaxRecords
<1>1. DOMAIN Only(m, S) \subseteq DOMAIN m
  BY DEF Only
<1>2. IsFiniteSet(DOMAIN Only(m, S)) /\ Cardinality(DOMAIN Only(m, S)) <= Cardinality(DOMAIN m)
  BY <1>1, FS_Subset
<1>3. Cardinality(DOMAIN Only(m, S)) \in Nat /\ Cardinality(DOMAIN m) \in Nat
  BY <1>2, FS_CardinalityType
<1>4. \A a, b, c \in Int : a <= b /\ b <= c => a <= c
  OBVIOUS
<1> QED
  BY <1>1, <1>2, <1>3, <1>4, BoundType

(* What the database may hold, and what an answer may be. *)
Shelved == /\ \A p \in DOMAIN db : p \in PlaceType
           /\ IsFiniteSet(DOMAIN db) /\ Cardinality(DOMAIN db) <= MaxRecords
Answered == /\ answer.is \in {"none", "ok", "error", "fatal"} /\ answer.of \in Names
            /\ answer.is # "ok" => answer.rows = <<>>

LEMMA TypeInductive ==
    ASSUME TypeOK, [Next]_vars
    PROVE  TypeOK'
<1>0. Shelved /\ Answered
  BY DEF TypeOK, Shelved, Answered, PlaceType, KeyType
<1> SUFFICES Shelved' /\ Answered'
  BY DEF TypeOK, Shelved, Answered, PlaceType, KeyType
<1>1. ASSUME UNCHANGED db PROVE Shelved'
  BY <1>0, <1>1 DEF Shelved
<1>2. ASSUME UNCHANGED vars PROVE Shelved' /\ Answered'
  BY <1>0, <1>2 DEF vars, Shelved, Answered
<1>3. ASSUME NEW n \in Names, NEW rows, Tell(n, rows) \/ Unheard(n) PROVE Answered'
  BY <1>3 DEF Tell, Unheard, Answered
<1>4. ASSUME NEW n \in Names, NEW is \in {"error", "fatal"}, Fails(n, is)
      PROVE  Shelved' /\ Answered'
  BY <1>1, <1>4 DEF Fails, Answered
<1>5. ASSUME NEW n \in Names, NEW r \in Read(n), NEW c,
             Add(n, r, c)
      PROVE  Shelved' /\ Answered'
  <2>1. PICK p \in FreePlaces(r) : Write(n, One(p, c))
    BY <1>5 DEF Add
  <2>2. p \in PlaceType /\ p \notin DOMAIN db
    BY FreePlaceTypes
  <2>3. db' = Over(One(p, c), db) /\ Cardinality(DOMAIN db) < MaxRecords
    BY <1>5, <2>1 DEF Write, Add
  <2>4. IsFiniteSet(DOMAIN db)
    BY <1>0 DEF Shelved
  <2>5. /\ DOMAIN db' = DOMAIN db \cup {p} /\ IsFiniteSet(DOMAIN db \cup {p})
        /\ Cardinality(DOMAIN db \cup {p}) = Cardinality(DOMAIN db) + 1
        /\ Cardinality(DOMAIN db) \in Nat
    BY <2>2, <2>3, <2>4, OneMore
  <2>6. Cardinality(DOMAIN db \cup {p}) <= MaxRecords
    BY <2>3, <2>5, BoundType
  <2>7. Shelved'
    BY <1>0, <2>2, <2>5, <2>6 DEF Shelved
  <2> QED
    BY <1>3, <2>1, <2>7 DEF Write
(* Records that are there get other contents. *)
<1>6. ASSUME NEW n \in Names, NEW rows, DOMAIN rows \subseteq DOMAIN db, Write(n, rows)
      PROVE  Shelved' /\ Answered'
  <2>1. DOMAIN db' = DOMAIN db
    BY <1>6 DEF Write, Over
  <2>2. Shelved'
    BY <1>0, <2>1 DEF Shelved
  <2> QED
    BY <1>3, <1>6, <2>2 DEF Write
<1>7. ASSUME NEW n \in Names, NEW c \in Contents,
             \/ create(n, c) \/ insert(n, c) \/ insert_relation(n, c) \/ upsert(n, c)
             \/ update(n, c) \/ merge(n, c) \/ \E k \in Fields : patch(n, k, c)
      PROVE  Shelved' /\ Answered'
  <2>0. parse_resource(n) \in Read(n) /\ WholeTable(n) \in Read(n) /\ Spliced(n) \subseteq Read(n)
    BY DEF Read
  <2>1. \A r : Addressed(r) \subseteq DOMAIN db
    BY DEF Addressed
  <2>2. CASE create(n, c) \/ insert(n, c) \/ insert_relation(n, c)
    BY <1>5, <2>0, <2>2 DEF create, insert, insert_relation
  <2>3. CASE upsert(n, c)
    BY <1>5, <1>6, <2>0, <2>1, <2>3 DEF upsert, Rewrite
  <2>4. CASE update(n, c) \/ merge(n, c) \/ \E k \in Fields : patch(n, k, c)
    BY <1>6, <2>1, <2>4 DEF update, merge, patch, Rewrite
  <2> QED
    BY <1>7, <2>2, <2>3, <2>4
<1>8. ASSUME NEW n \in Names, NEW k, patch_remove(n, k)
      PROVE  Shelved' /\ Answered'
  <2>1. Addressed(parse_resource(n)) \subseteq DOMAIN db
    BY DEF Addressed
  <2> QED
    BY <1>6, <1>8, <2>1 DEF patch_remove, Rewrite
<1>9. ASSUME NEW n \in Names, delete(n) \/ select(n)
      PROVE  Shelved' /\ Answered'
  <2>1. CASE select(n)
    BY <1>1, <1>3, <2>1 DEF select
  <2>2. CASE delete(n)
    <3>1. PICK S : db' = Only(db, S)
      BY <2>2 DEF delete
    <3>2. Shelved'
      BY <1>0, <3>1, SomeLess DEF Shelved
    <3> QED
      BY <1>3, <2>2, <3>2 DEF delete
  <2> QED
    BY <1>9, <2>1, <2>2
<1>10. ASSUME NEW n \in Names, NEW from \in Names, NEW to \in Names, NEW c, relate(from, n, to, c)
       PROVE  Shelved' /\ Answered'
  BY <1>5, <1>10 DEF relate, Read
<1>11. ASSUME NEW n \in Names, NEW records, Elsewhere(n, records),
              DOMAIN records \subseteq DOMAIN db \cup {NamedPlace(n)},
              IsFiniteSet(DOMAIN records)
       PROVE  Shelved' /\ Answered'
  <2>1. NamedPlace(n) \in PlaceType
    BY NamesAssumption DEF NamedPlace, Place, Key, PlaceType, KeyType
  <2>2. Shelved'
    BY <1>0, <1>11, <2>1 DEF Elsewhere, Shelved
  <2>3. Answered'
    BY <1>0, <1>11 DEF Elsewhere, Answered
  <2> QED
    BY <2>2, <2>3
<1>12. ASSUME NEW n \in Names,
              \/ remove(n) \/ (\E q \in Requests : execute(n, q)) \/ (\E s \in Others : write(n, s))
       PROVE  Shelved' /\ Answered'
  <2>1. IsFiniteSet(DOMAIN db)
    BY <1>0 DEF Shelved
  <2>2. ASSUME NEW v, Elsewhere(n, Over(One(NamedPlace(n), v), db))
        PROVE  Shelved' /\ Answered'
    <3>1. PICK records : records = Over(One(NamedPlace(n), v), db)
      OBVIOUS
    <3>2. DOMAIN records \subseteq DOMAIN db \cup {NamedPlace(n)} /\ IsFiniteSet(DOMAIN records)
      BY <2>1, <3>1, OneMore
    <3> QED
      BY <1>11, <2>2, <3>1, <3>2
  <2>3. CASE remove(n)
    BY <1>0, <1>11, <2>3, SomeLess DEF remove, Shelved
  <2> QED
    BY <1>12, <2>2, <2>3 DEF execute, write
<1> QED
  <2>1. ASSUME NEW n \in Names, Refused(n) \/ \E c \in Contents : Panicked(n, c)
        PROVE  Shelved' /\ Answered'
    BY <1>4, <2>1 DEF Refused, Panicked
  <2> HIDE DEF Shelved, Answered
  <2>2. ASSUME Next PROVE Shelved' /\ Answered'
    <3>1. PICK n \in Names :
            \/ Refused(n) \/ \E c \in Contents : Panicked(n, c)
            \/ select(n) \/ delete(n)
            \/ remove(n) \/ (\E q \in Requests : execute(n, q)) \/ (\E s \in Others : write(n, s))
            \/ \E k \in Fields : patch_remove(n, k)
            \/ \E c \in Contents :
                  \/ create(n, c) \/ insert(n, c) \/ upsert(n, c)
                  \/ parse_resource(n).is = "table" /\ insert_relation(n, c)
                  \/ update(n, c) \/ merge(n, c) \/ \E k \in Fields : patch(n, k, c)
            \/ \E from, to \in Names, c \in EdgeContents : relate(from, n, to, c)
      BY <2>2, Zenon DEF Next
    <3>2. CASE \E from, to \in Names, c \in EdgeContents : relate(from, n, to, c)
      BY <1>10, <3>2
    <3>3. CASE \E c \in Contents :
                  \/ create(n, c) \/ insert(n, c) \/ upsert(n, c)
                  \/ parse_resource(n).is = "table" /\ insert_relation(n, c)
                  \/ update(n, c) \/ merge(n, c) \/ \E k \in Fields : patch(n, k, c)
      BY <1>7, <3>3
    <3>4. CASE \/ select(n) \/ delete(n) \/ \E k \in Fields : patch_remove(n, k)
      BY <1>8, <1>9, <3>4
    <3>5. CASE remove(n) \/ (\E q \in Requests : execute(n, q)) \/ (\E s \in Others : write(n, s))
      <4>1. CASE \E q \in Requests : execute(n, q)
        BY <1>12, <4>1
      <4>2. CASE \E s \in Others : write(n, s)
        BY <1>12, <4>2
      <4>3. CASE remove(n)
        BY <1>12, <4>3
      <4> QED
        BY <3>5, <4>1, <4>2, <4>3
    <3>6. CASE Refused(n) \/ \E c \in Contents : Panicked(n, c)
      BY <2>1, <3>6
    <3> QED
      BY <3>1, <3>2, <3>3, <3>4, <3>5, <3>6
  <2> QED
    BY <1>2, <2>2

(* Every reachable state is well typed; a failed call hands over no rows. *)
THEOREM RecordsTypeCorrect == Spec => []TypeOK
<1>1. Init => TypeOK
  <2> SUFFICES ASSUME Init PROVE TypeOK
    OBVIOUS
  <2>1. DOMAIN db = {}
    BY DEF Init
  <2>2. IsFiniteSet(DOMAIN db) /\ Cardinality(DOMAIN db) <= MaxRecords
    <3>1. Cardinality(DOMAIN db) = 0
      BY <2>1, FS_EmptySet
    <3> QED
      BY <2>1, <3>1, FS_EmptySet, BoundType
  <2>3. Answered
    BY DEF Init, Answered
  <2> QED
    BY <2>1, <2>2, <2>3 DEF TypeOK, Answered
<1> QED
  BY <1>1, TypeInductive, PTL DEF Spec

--------------------------------------------------------------------------------
(* Names as ids.  When a statement takes no id for anything but the string   *)
(* it is, the statement and parse_resource mean the same record.            *)

Named == DOMAIN db \subseteq NamedPlaces

(* What a name stands for, and where a call under it may put a new record. *)
LEMMA Agreement ==
    ASSUME Named, \A n \in Names : Reads(n.id) \subseteq {Key("string", n.id)}, NEW n \in Names
    PROVE  /\ Addressed(parse_resource(n)) = Meant(n) \cap DOMAIN db
           /\ \A r \in {parse_resource(n)} \cup Spliced(n) : FreePlaces(r) \subseteq Meant(n)
           /\ parse_resource(n).is = "table" => WholeTable(n) = parse_resource(n)
           /\ parse_resource(n).is = "record" => NamedPlace(n) \in Meant(n)
           /\ Meant(n) \subseteq NamedPlaces
<1> USE NamesAssumption
<1>0. PlacesOf(n) \subseteq NamedPlaces
  BY Zenon DEF NamedPlaces
<1>2. CASE NamesRecord(n)
  <2> DEFINE r == Record(n.table, Key("string", n.id))
  <2>1. parse_resource(n) = r /\ Spliced(n) \subseteq {r}
    BY <1>2 DEF NamesRecord, parse_resource, Spliced
  <2>2. Meant(n) = {NamedPlace(n)}
    BY <1>2 DEF Meant, NamedPlace
  <2>3. \A p \in NamedPlaces : p = Place(p.table, p.key)
    <3>0. \A t, k : Place(t, k) = Place(Place(t, k).table, Place(t, k).key)
      BY DEF Place
    <3>1. ASSUME NEW m \in Names, NEW p \in PlacesOf(m) PROVE p = Place(p.table, p.key)
      <4>1. \E t, k : p = Place(t, k)
        BY <3>1, Zenon DEF PlacesOf
      <4> QED
        BY <3>0, <4>1, Zenon
    <3> QED
      BY <3>1, Zenon DEF NamedPlaces
  <2>4. Addressed(r) = Meant(n) \cap DOMAIN db
    BY <2>2, <2>3 DEF Named, Addressed, StandsFor, Record, NamedPlace, Place
  <2>5. FreePlaces(r) \subseteq Meant(n)
    BY <2>2 DEF FreePlaces, Record, NamedPlace
  <2>6. NamedPlace(n) \in NamedPlaces
    BY <1>0, <1>2 DEF NamedPlace, PlacesOf
  <2>7. r.is = "record"
    BY DEF Record
  <2> QED
    BY <2>1, <2>2, <2>4, <2>5, <2>6, <2>7
<1>3. CASE ~NamesRecord(n)
  <2> DEFINE r == Table(n.text)
  <2>1. parse_resource(n) = r /\ WholeTable(n) = r
    BY <1>3 DEF NamesRecord, parse_resource, WholeTable
  <2>2. Spliced(n) \subseteq {r}
    BY <1>3 DEF NamesRecord, Spliced, WholeTable
  <2>3. Meant(n) = {p \in NamedPlaces : p.table = n.text}
    BY <1>3 DEF Meant
  <2>4. Addressed(r) = Meant(n) \cap DOMAIN db
    BY <2>3 DEF Named, Addressed, StandsFor, Table
  <2>5. FreePlaces(r) \subseteq Meant(n)
    <3>1. FreePlaces(r) \subseteq {Place(n.text, Key("string", id)) : id \in Random}
      BY DEF FreePlaces, Table
    <3>2. \A id \in Random : Place(n.text, Key("string", id)) \in NamedPlaces
      BY <1>0, <1>3 DEF PlacesOf
    <3>3. \A id \in Random : Place(n.text, Key("string", id)).table = n.text
      BY DEF Place
    <3>4. {Place(n.text, Key("string", id)) : id \in Random} \subseteq Meant(n)
      BY <2>3, <3>2, <3>3
    <3> QED
      BY <3>1, <3>4
  <2>6. r.is = "table"
    BY DEF Table
  <2> QED
    BY <2>1, <2>2, <2>3, <2>4, <2>5, <2>6
<1> QED
  BY <1>2, <1>3

(* One step of the program or of another client, as one of the store's. *)
LEMMA StoreStep ==
    ASSUME TypeOK, Named, \A n \in Names : Reads(n.id) \subseteq {Key("string", n.id)}, [Next]_vars
    PROVE  Named' /\ [Store!Next]_Store!vars
<1> DEFINE Abstract == Named' /\ [Store!Next]_Store!vars
<1>1. ASSUME UNCHANGED vars PROVE Abstract
  BY <1>1 DEF vars, Named, Store!vars
<1>2. ASSUME NEW n \in Names
      PROVE  /\ Addressed(parse_resource(n)) = Meant(n) \cap DOMAIN db
             /\ \A r \in {parse_resource(n)} \cup Spliced(n) : FreePlaces(r) \subseteq Meant(n)
             /\ parse_resource(n).is = "table" => WholeTable(n) = parse_resource(n)
             /\ parse_resource(n).is = "record" => NamedPlace(n) \in Meant(n)
             /\ Meant(n) \subseteq NamedPlaces
  BY Agreement
<1>3. ASSUME NEW n \in Names, answer'.of = n, Store!Call(n), Named' PROVE Abstract
  BY <1>3 DEF Store!Next
<1>4. ASSUME NEW n \in Names, NEW is \in {"error", "fatal"}, Fails(n, is)
      PROVE  Abstract
  <2>1. answer'.of = n /\ Named'
    BY <1>4 DEF Fails, Named
  <2>2. Store!Fail(n)
    BY <1>4 DEF Fails, Store!Fail, Store!Nothing
  <2> QED
    BY <1>3, <2>1, <2>2 DEF Store!Call
<1>5. ASSUME NEW n \in Names, NEW r \in {parse_resource(n)} \cup Spliced(n),
             NEW c \in Offered, Add(n, r, c)
      PROVE  Abstract
  <2>1. PICK p \in FreePlaces(r) : Write(n, One(p, c))
    BY <1>5 DEF Add
  <2>2. p \in Meant(n) /\ p \in NamedPlaces
    BY <1>2
  <2>3. db' = Over(One(p, c), db) /\ (Tell(n, One(p, c)) \/ Unheard(n))
    BY <2>1 DEF Write
  <2>4. db'[p] = c /\ DOMAIN db' = DOMAIN db \cup {p}
    BY <2>3 DEF Over, One
  <2>5. answer'.of = n /\ Named'
    BY <2>2, <2>3, <2>4 DEF Tell, Unheard, Named
  <2>6. Store!Changes(n, One(p, c))
    BY <2>3 DEF Store!Changes, Tell, Unheard, Store!Found, Store!Nothing, One
  <2>7. Store!Put(n, p)
    BY <2>2, <2>3, <2>4, <2>6 DEF Store!Put, One, Store!One, Over, Store!Over
  <2> QED
    BY <1>3, <2>2, <2>4, <2>5, <2>7 DEF Store!Call
<1>6. ASSUME NEW n \in Names, NEW rows, DOMAIN rows \subseteq DOMAIN db, Write(n, rows)
      PROVE  answer'.of = n /\ Named'
  BY <1>6 DEF Write, Tell, Unheard, Over, Named
(* All the records that a name stands for get other contents. *)
<1>7. ASSUME NEW n \in Names, Store!Change(n), Named', answer'.of = n
      PROVE  Abstract
  BY <1>3, <1>7 DEF Store!Call
<1>8. ASSUME NEW n \in Names, NEW c \in Contents, ~Fatal(c)
      PROVE  Stored(c) \in Offered /\ DOMAIN Stored(c) = DOMAIN c
  BY <1>8, ContentsAssumption DEF Offered
<1>9. ASSUME NEW n \in Names, NEW c \in Offered,
             Rewrite(n, Meant(n) \cap DOMAIN db, LAMBDA old : c)
      PROVE  Abstract
  <2>1. Store!Changed(n, LAMBDA old : c)
    BY <1>9 DEF Rewrite, Write, Tell, Unheard, Store!Changed, Store!Changes, Store!Found,
                 Store!Nothing, Over, Store!Over, One, Store!One, Only, Store!Only
  <2>2. answer'.of = n /\ Named'
    BY <1>6, <1>9 DEF Rewrite
  <2> QED
    BY <1>7, <2>1, <2>2 DEF Store!Change, Over, Store!Over, One, Store!One, Only, Store!Only
<1>10. ASSUME NEW n \in Names, NEW c \in Offered,
              Rewrite(n, Meant(n) \cap DOMAIN db, LAMBDA old : Over(c, old))
       PROVE  Abstract
  <2>1. Store!Changed(n, LAMBDA old : Over(c, old))
    BY <1>10 DEF Rewrite, Write, Tell, Unheard, Store!Changed, Store!Changes, Store!Found,
                 Store!Nothing, Over, Store!Over, One, Store!One, Only, Store!Only
  <2>2. answer'.of = n /\ Named'
    BY <1>6, <1>10 DEF Rewrite
  <2> QED
    BY <1>7, <2>1, <2>2 DEF Store!Change, Over, Store!Over, One, Store!One, Only, Store!Only
<1>11. ASSUME NEW n \in Names, NEW c \in Offered, NEW k \in Fields \cap DOMAIN c,
              Rewrite(n, Meant(n) \cap DOMAIN db, LAMBDA old : Over(One(k, c[k]), old))
       PROVE  Abstract
  <2>1. Store!Changed(n, LAMBDA old : Over(One(k, c[k]), old))
    BY <1>11 DEF Rewrite, Write, Tell, Unheard, Store!Changed, Store!Changes, Store!Found,
                 Store!Nothing, Over, Store!Over, One, Store!One, Only, Store!Only
  <2>2. answer'.of = n /\ Named'
    BY <1>6, <1>11 DEF Rewrite
  <2> QED
    BY <1>7, <2>1, <2>2 DEF Store!Change, Over, Store!Over, One, Store!One, Only, Store!Only
<1>12. ASSUME NEW n \in Names, NEW k \in Fields, patch_remove(n, k)
       PROVE  Abstract
  <2>1. Rewrite(n, Meant(n) \cap DOMAIN db, LAMBDA old : Only(old, DOMAIN old \ {k}))
    BY <1>2, <1>12 DEF patch_remove
  <2>2. Store!Changed(n, LAMBDA old : Only(old, DOMAIN old \ {k}))
    BY <2>1 DEF Rewrite, Write, Tell, Unheard, Store!Changed, Store!Changes, Store!Found,
                 Store!Nothing, Over, Store!Over, One, Store!One, Only, Store!Only
  <2>3. answer'.of = n /\ Named'
    BY <1>6, <2>1 DEF Rewrite
  <2> QED
    BY <1>7, <2>2, <2>3 DEF Store!Change, Over, Store!Over, One, Store!One, Only, Store!Only
<1>13. ASSUME NEW n \in Names, NEW c \in Contents, update(n, c) \/ merge(n, c) \/ \E k \in Fields : patch(n, k, c)
       PROVE  Abstract
  <2>1. CASE update(n, c)
    BY <1>2, <1>8, <1>9, <2>1 DEF update
  <2>2. CASE merge(n, c)
    BY <1>2, <1>8, <1>10, <2>2 DEF merge
  <2>3. ASSUME NEW k \in Fields, patch(n, k, c) PROVE Abstract
    BY <1>2, <1>8, <1>11, <2>3 DEF patch
  <2> QED
    BY <1>13, <2>1, <2>2, <2>3
<1>14. ASSUME NEW n \in Names, NEW c \in Contents,
              \/ create(n, c) \/ insert(n, c) \/ upsert(n, c)
              \/ parse_resource(n).is = "table" /\ insert_relation(n, c)
       PROVE  Abstract
  <2>1. CASE create(n, c) \/ insert(n, c)
    BY <1>5, <1>8, <2>1 DEF create, insert
  <2>3. CASE parse_resource(n).is = "table" /\ insert_relation(n, c)
    BY <1>2, <1>5, <1>8, <2>3 DEF insert_relation
  <2>2. CASE upsert(n, c)
    BY <1>2, <1>5, <1>8, <1>9, <2>2 DEF upsert
  <2> QED
    BY <1>14, <2>1, <2>2, <2>3
<1>15. ASSUME NEW n \in Names, NEW from \in Names, NEW to \in Names, NEW c \in EdgeContents,
              relate(from, n, to, c)
       PROVE  Abstract
  <2>1. PICK a \in Spliced(from), b \in Spliced(to), r \in Spliced(n) :
          /\ a.is = "record" /\ b.is = "record"
          /\ Add(n, r, Edge(a, b, Stored(c)))
    BY <1>15 DEF relate
  <2>2. a \in Ends /\ b \in Ends
    BY <2>1 DEF Ends
  <2>3. Edge(a, b, Stored(c)) \in Offered
    BY <1>15, <2>2 DEF relate, Offered
  <2> QED
    BY <1>5, <2>1, <2>3
<1>16. ASSUME NEW n \in Names, select(n)
       PROVE  Abstract
  <2>1. Store!Look(n)
    <3>1. Only(db, Addressed(parse_resource(n))) = Only(db, Meant(n))
      BY <1>2 DEF Only
    <3> QED
      BY <1>16, <3>1 DEF select, Tell, Store!Look, Store!Found, Only, Store!Only
  <2>2. answer'.of = n /\ Named'
    BY <1>16 DEF select, Tell, Named
  <2> QED
    BY <1>3, <2>1, <2>2 DEF Store!Call
<1>17. ASSUME NEW n \in Names, delete(n)
       PROVE  Abstract
  <2>1. Store!Remove(n)
    <3>1. Only(db, Addressed(parse_resource(n))) = Only(db, Meant(n))
      BY <1>2 DEF Only
    <3>2. DOMAIN db \ Addressed(parse_resource(n)) = DOMAIN db \ Meant(n)
      BY <1>2
    <3> QED
      BY <1>17, <3>1, <3>2 DEF delete, Tell, Unheard, Store!Remove, Store!Changes, Store!Found,
                                 Store!Nothing, Only, Store!Only
  <2>2. answer'.of = n /\ Named'
    BY <1>17 DEF delete, Tell, Unheard, Named, Only
  <2> QED
    BY <1>3, <2>1, <2>2 DEF Store!Call
<1>18. ASSUME NEW n \in Names, NEW records, Elsewhere(n, records),
              DOMAIN records \subseteq DOMAIN db \cup {NamedPlace(n)},
              Only(records, DOMAIN records \ {NamedPlace(n)}) = Only(db, DOMAIN db \ {NamedPlace(n)})
       PROVE  Abstract
  <2>1. NamedPlace(n) \in Meant(n) /\ NamedPlace(n) \in NamedPlaces
    BY <1>2, <1>18 DEF Elsewhere
  <2>2. Named'
    BY <1>18, <2>1 DEF Elsewhere, Named
  <2>3. Store!Elsewhere(NamedPlace(n))
    BY <1>18 DEF Elsewhere, Store!Elsewhere, Only, Store!Only
  <2> QED
    BY <2>1, <2>2, <2>3 DEF Store!Next
<1>19. ASSUME NEW n \in Names,
              \/ remove(n) \/ (\E q \in Requests : execute(n, q)) \/ (\E s \in Others : write(n, s))
       PROVE  Abstract
  <2>1. ASSUME NEW v, Elsewhere(n, Over(One(NamedPlace(n), v), db))
        PROVE  Abstract
    <3>1. PICK records : records = Over(One(NamedPlace(n), v), db)
      OBVIOUS
    <3>2. DOMAIN records = DOMAIN db \cup {NamedPlace(n)}
      BY <3>1 DEF Over, One
    <3>3. Only(records, DOMAIN records \ {NamedPlace(n)}) = Only(db, DOMAIN db \ {NamedPlace(n)})
      BY <3>1, <3>2 DEF Only, Over, One
    <3> QED
      BY <1>18, <2>1, <3>1, <3>2, <3>3
  <2>2. CASE remove(n)
    <3>1. PICK records : records = Only(db, DOMAIN db \ {NamedPlace(n)})
      OBVIOUS
    <3>2. DOMAIN records = DOMAIN db \ {NamedPlace(n)}
      BY <3>1 DEF Only
    <3>3. Only(records, DOMAIN records \ {NamedPlace(n)}) = Only(db, DOMAIN db \ {NamedPlace(n)})
      BY <3>1, <3>2 DEF Only
    <3> QED
      BY <1>18, <2>2, <3>1, <3>2, <3>3 DEF remove
  <2>3. CASE \E q \in Requests : execute(n, q)
    BY <2>1, <2>3 DEF execute
  <2>4. CASE \E s \in Others : write(n, s)
    BY <2>1, <2>4 DEF write
  <2> QED
    BY <1>19, <2>2, <2>3, <2>4
<1> SUFFICES Abstract
  OBVIOUS
<1> HIDE DEF Abstract
<1>20. CASE Next
  <2>1. PICK n \in Names :
          \/ Refused(n) \/ \E c \in Contents : Panicked(n, c)
          \/ select(n) \/ delete(n)
          \/ remove(n) \/ (\E q \in Requests : execute(n, q)) \/ (\E s \in Others : write(n, s))
          \/ \E k \in Fields : patch_remove(n, k)
          \/ \E c \in Contents :
                \/ create(n, c) \/ insert(n, c) \/ upsert(n, c)
                \/ parse_resource(n).is = "table" /\ insert_relation(n, c)
                \/ update(n, c) \/ merge(n, c) \/ \E k \in Fields : patch(n, k, c)
          \/ \E from, to \in Names, c \in EdgeContents : relate(from, n, to, c)
    BY <1>20, Zenon DEF Next
  <2>2. CASE \E from, to \in Names, c \in EdgeContents : relate(from, n, to, c)
    BY <1>15, <2>2
  <2>3. CASE \E c \in Contents :
                \/ create(n, c) \/ insert(n, c) \/ upsert(n, c)
                \/ parse_resource(n).is = "table" /\ insert_relation(n, c)
                \/ update(n, c) \/ merge(n, c) \/ \E k \in Fields : patch(n, k, c)
    BY <1>13, <1>14, <2>3
  <2>4. CASE \/ select(n) \/ delete(n) \/ \E k \in Fields : patch_remove(n, k)
    BY <1>12, <1>16, <1>17, <2>4
  <2>5. CASE \E q \in Requests : execute(n, q)
    BY <1>19, <2>5
  <2>6. CASE \E s \in Others : write(n, s)
    BY <1>19, <2>6
  <2>7. CASE remove(n)
    BY <1>19, <2>7
  <2>8. CASE Refused(n) \/ \E c \in Contents : Panicked(n, c)
    BY <1>4, <2>8 DEF Refused, Panicked
  <2> QED
    BY <2>1, <2>2, <2>3, <2>4, <2>5, <2>6, <2>7, <2>8
<1> QED
  BY <1>1, <1>20

(* For any names whose ids a statement takes for the strings they are or     *)
(* refuses, whatever conversions and database do and whichever replies are    *)
(* lost: what is put under a name is found under it by every function, a call *)
(* that panics has left the database as it was, and one that fails has done   *)
(* all of what it was asked for or nothing.                                  *)
THEOREM StoreKept ==
    ASSUME \A n \in Names : Reads(n.id) \subseteq {Key("string", n.id)}
    PROVE  Spec => KeepsStore
<1>1. Init => Store!Init /\ Named
  BY DEF Init, Store!Init, Store!Nothing, Named
<1>2. TypeOK /\ Named /\ [Next]_vars => Named' /\ [Store!Next]_Store!vars
  BY StoreStep
<1> QED
  BY <1>1, <1>2, RecordsTypeCorrect, PTL DEF Spec, KeepsStore, Store!Spec
================================================================================
