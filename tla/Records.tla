--------------------------------- MODULE Records ---------------------------------
(***************************************************************************)
(* The records a C program works on by name (sr_create ... sr_upsert of     *)
(* lib.rs), beside a client of the same database that speaks CBOR (rpc.rs). *)
(*                                                                         *)
(* A name is a C string with the parts its first colon cuts it into; a name  *)
(* without one is an identifier.  Most functions hand it to parse_resource;   *)
(* sr_create and sr_relate splice it into the text of a statement, whose     *)
(* syntax is the parameter Reads.  A record lives at a place, a table and a   *)
(* key; the key is a number, a string or something else, and 1 and "1" are   *)
(* two keys.  What a value becomes on its way is left to other parameters,    *)
(* the conversions of the code.                                             *)
(*                                                                         *)
(* Each step is what a call does inside the harness, from the conversion of  *)
(* its arguments to the rows it writes.                                     *)
(***************************************************************************)
EXTENDS Integers, FiniteSets, Maps

CONSTANTS Names,         \* the names the program uses
          Random,        \* the ids the database makes up
          Fields,        \* the fields that patches name
          Contents,      \* what the program writes: functions from field names to C values
          EdgeContents,  \* what it relates records with, <<>> for a null pointer
          Requests,      \* what a client sends over RPC
          Others,        \* contents that other clients write
          MaxRecords,    \* bound on the records in the database
          Stored(_), Shown(_), Fatal(_),   \* C content to the SDK's, back, and whether it panics
          Received(_),                     \* the SDK's content of a request, or <<>>
          Reads(_)       \* the keys a statement may take an id for, none if it is refused

KeyType == [is : {"number", "string", "other"}, id : STRING]

ASSUME NamesAssumption ==
    /\ \A n \in Names :
          /\ n \in [text : STRING, table : STRING, colon : BOOLEAN, id : STRING]
          /\ n.id = "" => Reads(n.id) = {}
          /\ Reads(n.id) \subseteq KeyType
    /\ \A id \in Random : id \in STRING
    /\ MaxRecords \in Nat

(* A conversion keeps the fields of a content. *)
ASSUME ContentsAssumption == \A c \in Contents : ~Fatal(c) => DOMAIN Stored(c) = DOMAIN c

VARIABLES db,       \* from the places in use to the SDK's contents
          answer    \* what the program's last call told it, of which name

vars == <<db, answer>>

Key(is, id) == [is |-> is, id |-> id]
Place(table, key) == [table |-> table, key |-> key]

(* A resource: one record, or all records of a table. *)
Record(table, key) == [is |-> "record", table |-> table, key |-> key]
Table(table) == [is |-> "table", table |-> table]

(* Resource::from: the whole text is a table, with a colon in it or not. *)
WholeTable(n) == Table(n.text)

(* Variant: the table is what stands before the colon, whatever follows. *)
parse_resource_lax(n) ==
    IF n.colon /\ n.id # "" THEN Record(n.table, Key("string", n.id))
    ELSE Table(n.table)

parse_resource(n) ==
    IF n.colon /\ n.table # "" /\ n.id # "" THEN Record(n.table, Key("string", n.id))
    ELSE WholeTable(n)

(* What a statement may take the name for; nothing if it refuses it. *)
Spliced(n) ==
    IF n.colon THEN {Record(n.table, k) : k \in {q \in Reads(n.id) : n.table # ""}}
               ELSE {WholeTable(n)}

(* The places a resource stands for: those in use, and those free for a new record. *)
StandsFor(r, p) == p.table = r.table /\ (r.is = "record" => p.key = r.key)

Addressed(r) == {p \in DOMAIN db : StandsFor(r, p)}

FreePlaces(r) ==
    (IF r.is = "record" THEN {Place(r.table, r.key)}
                        ELSE {Place(r.table, Key("string", id)) : id \in Random}) \ DOMAIN db

Init == db = <<>> /\ answer \in {[is |-> "none", of |-> n, rows |-> <<>>] : n \in Names}

--------------------------------------------------------------------------------
(* How a call ends *)

(* Rows are converted back for the program; a single value that is no array  *)
(* is wrapped into one.                                                     *)
Tell(n, rows) == answer' = [is |-> "ok", of |-> n, rows |-> [p \in DOMAIN rows |-> Shown(rows[p])]]

(* The call fails although the database did what was asked: the reply of a   *)
(* remote engine was lost, or sr_create found no object in it.              *)
Unheard(n) == answer' = [is |-> "error", of |-> n, rows |-> <<>>]

Write(n, rows) == db' = Over(rows, db) /\ (Tell(n, rows) \/ Unheard(n))
Rewrite(n, places, New(_)) == Write(n, [p \in places |-> New(db[p])])

(* Variant: the rows of the last call are handed over again. *)
FailsWithRows(n, is) == answer' = [answer EXCEPT !.is = is, !.of = n] /\ UNCHANGED db

Fails(n, is) == answer' = [is |-> is, of |-> n, rows |-> <<>>] /\ UNCHANGED db

(* The database refuses: a text that is no name, a record that is there      *)
(* already, whatever else.                                                  *)
Refused(n) == Fails(n, "error")

(* The content is converted before the request is made. *)
Panicked(n, c) == Fatal(c) /\ Fails(n, "fatal")

(* One new record. *)
Add(n, r, c) ==
    /\ Cardinality(DOMAIN db) < MaxRecords
    /\ \E p \in FreePlaces(r) : Write(n, One(p, c))

--------------------------------------------------------------------------------
create(n, c) == ~Fatal(c) /\ \E r \in Spliced(n) : Add(n, r, Stored(c))

insert(n, c) == ~Fatal(c) /\ Add(n, parse_resource(n), Stored(c))

update(n, c) ==
    ~Fatal(c) /\ Rewrite(n, Addressed(parse_resource(n)), LAMBDA old : Stored(c))

(* A record is written in any case, a table gets a new one. *)
upsert(n, c) ==
    LET r == parse_resource(n)
    IN  /\ ~Fatal(c)
        /\ IF r.is = "record" /\ Addressed(r) # {}
           THEN Rewrite(n, Addressed(r), LAMBDA old : Stored(c))
           ELSE Add(n, r, Stored(c))

merge(n, c) ==
    ~Fatal(c) /\ Rewrite(n, Addressed(parse_resource(n)), LAMBDA old : Over(Stored(c), old))

(* sr_patch_add and sr_patch_replace, of one field of the content. *)
patch(n, k, c) ==
    /\ k \in DOMAIN c /\ ~Fatal(c)
    /\ Rewrite(n, Addressed(parse_resource(n)), LAMBDA old : Over(One(k, Stored(c)[k]), old))

patch_remove(n, k) ==
    Rewrite(n, Addressed(parse_resource(n)), LAMBDA old : Only(old, DOMAIN old \ {k}))

delete(n) ==
    LET gone == Addressed(parse_resource(n))
    IN  /\ db' = Only(db, DOMAIN db \ gone)
        /\ Tell(n, Only(db, gone)) \/ Unheard(n)

select(n) == Tell(n, Only(db, Addressed(parse_resource(n)))) /\ UNCHANGED db

(* An edge names its two ends; a key is given by its text. *)
End(r) == [kind |-> "thing", table |-> r.table,
           key |-> [kind |-> IF r.key.is = "string" THEN "strand" ELSE r.key.is, text |-> r.key.id]]
Edge(from, to, c) == Over([in |-> End(from), out |-> End(to)], c)

(* RELATE from->n->to *)
relate(from, n, to, c) ==
    /\ ~Fatal(c)
    /\ \E a \in Spliced(from), b \in Spliced(to), r \in Spliced(n) :
          /\ a.is = "record" /\ b.is = "record"
          /\ Add(n, r, Edge(a, b, Stored(c)))

(* The ends are in the content. *)
insert_relation(n, c) ==
    /\ ~Fatal(c) /\ {"in", "out"} \subseteq DOMAIN c
    /\ Add(n, WholeTable(n), Stored(c))

(* Another client writes or removes a record; the program's answer is past.  *)
NamedPlace(n) == Place(n.table, Key("string", n.id))
Elsewhere(n, records) ==
    /\ parse_resource(n).is = "record"
    /\ Cardinality(DOMAIN records) <= MaxRecords
    /\ db' = records
    /\ answer' = [answer EXCEPT !.is = "none", !.rows = <<>>]

(* sr_surreal_rpc_execute, of a request that carries a content. *)
execute(n, q) == Received(q) # <<>> /\ Elsewhere(n, Over(One(NamedPlace(n), Received(q)), db))
write(n, s) == Elsewhere(n, Over(One(NamedPlace(n), s), db))
remove(n) == Elsewhere(n, Only(db, DOMAIN db \ {NamedPlace(n)}))

--------------------------------------------------------------------------------
Next ==
    \E n \in Names :
        \/ Refused(n) \/ select(n) \/ delete(n) \/ remove(n)
        \/ \E q \in Requests : execute(n, q)
        \/ \E s \in Others : write(n, s)
        \/ \E k \in Fields : patch_remove(n, k)
        \/ \E c \in Contents :
            \/ Panicked(n, c)
            \/ create(n, c) \/ insert(n, c) \/ update(n, c) \/ upsert(n, c) \/ merge(n, c)
            \* its argument is the name of a table
            \/ parse_resource(n).is = "table" /\ insert_relation(n, c)
            \/ \E k \in Fields : patch(n, k, c)
        \/ \E from, to \in Names, c \in EdgeContents : relate(from, n, to, c)

Spec == Init /\ [][Next]_vars

--------------------------------------------------------------------------------
(* Places that some name stands for: a table, a colon and an id are one      *)
(* record; any other name stands for all of the table with that name.       *)
NamesRecord(n) == n.colon /\ n.table # "" /\ n.id # ""
PlacesOf(n) ==
    IF NamesRecord(n) THEN {Place(n.table, Key("string", n.id))}
                      ELSE {Place(n.text, Key("string", id)) : id \in Random}
NamedPlaces == UNION {PlacesOf(n) : n \in Names}
Meant(n) ==
    IF NamesRecord(n) THEN {Place(n.table, Key("string", n.id))}
                      ELSE {p \in NamedPlaces : p.table = n.text}

TypeOK ==
    /\ \A p \in DOMAIN db : p \in [table : STRING, key : KeyType]
    /\ IsFiniteSet(DOMAIN db) /\ Cardinality(DOMAIN db) <= MaxRecords
    /\ answer.is \in {"none", "ok", "error", "fatal"} /\ answer.of \in Names
    /\ answer.is # "ok" => answer.rows = <<>>

(* Properties *)

(* Names mean records: sr_create and sr_relate, which splice the name into a *)
(* statement, and all the functions that hand it to parse_resource agree on  *)
(* the record it stands for; a panicking call leaves the database as it was,  *)
(* a failing one has done all of what it was asked for or nothing, and any    *)
(* other answers with what it found or left.                                *)
Ends == {r \in UNION {Spliced(n) : n \in Names} : r.is = "record"}
Offered ==
    {Stored(c) : c \in {d \in Contents : ~Fatal(d)}}
    \cup {Edge(a, b, Stored(c)) : a, b \in Ends, c \in {d \in EdgeContents : ~Fatal(d)}}

Store == INSTANCE NamedStore WITH
    Name <- Names, Means <- Meant, Field <- Fields, Offer <- Offered, store <- db

KeepsStore == Store!Spec

(* A record created under a name is one that sr_select finds under it        *)
(* ("or a specific record ID (e.g., "user:john")", lib.rs).                  *)
FoundByName ==
    [][\A n \in Names, c \in Contents :
           create(n, c) => \A p \in DOMAIN db' \ DOMAIN db : StandsFor(parse_resource(n), p)]_vars
================================================================================
