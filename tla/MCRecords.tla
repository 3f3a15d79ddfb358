-------------------------------- MODULE MCRecords --------------------------------
(* Instances of RecordValues for TLC. *)
EXTENDS RecordValues

Strand(text) == [kind |-> "strand", text |-> text]
Num(n) == [kind |-> "int", int |-> n]
Dur(secs, nanos) == [kind |-> "duration", secs |-> secs, nanos |-> nanos]
Geo(g) == [kind |-> "geometry", geo |-> g]
Ring(points) == [shape |-> "polygon", points |-> points]
Arr(seq) == [kind |-> "array", seq |-> seq]
Thing(table, key) == [kind |-> "thing", table |-> table, key |-> key]

Text(table, colon, id) ==
    [text |-> table \o (IF colon THEN ":" ELSE "") \o id, table |-> table, colon |-> colon, id |-> id]
WordNames == {Text("t", FALSE, ""), Text("t", TRUE, "a"), Text("t", TRUE, "a:b"),
              Text("t", TRUE, ""), Text("", TRUE, "a")}
AnyNames == {Text("t", FALSE, ""), Text("t", TRUE, "a"), Text("t", TRUE, "1"),
             Text("t", TRUE, "rand()"), Text("t", TRUE, "[1]")}

(* SurrealQL: digits are a number, a word is a string, a call is what it      *)
(* returns, brackets are an array, two colons are no record id.             *)
SurrealQL(id) ==
    CASE id = "a"      -> {Key("string", "a")}
      [] id = "1"      -> {Key("number", "1")}
      [] id = "rand()" -> {Key("string", r) : r \in Random}
      [] id = "[1]"    -> {Key("other", "[1]")}
      [] OTHER         -> {}

K(v) == [k |-> v]

(* Contents with each way a C value can meet its conversion; one panics. *)
AllContents ==
    {K(v) : v \in {Num(1), Dur(1, 3),
                   Arr(<<Strand("ill-formed"), Num(-2)>>),
                   Arr(<<[kind |-> "decimal", text |-> "+1.5"], [kind |-> "decimal", text |-> "1e3"],
                         [kind |-> "datetime", text |-> "14h +02:00"], [kind |-> "datetime", text |-> "none"]>>),
                   Geo([shape |-> "collection", parts |-> <<Ring(<<"p", "q">>), [shape |-> "unimplemented"]>>]),
                   Arr(<<Arr(<<>>), Object([j |-> Dur(0, 2)]), Dur(0, 1), Dur(0, 3),
                         [kind |-> "bytes", bytes |-> <<0>>]>>)}}
    \cup {[in |-> Thing("t", Strand("a")), out |-> Thing("t", Strand("ill-formed"))]}

(* Contents that no C program writes. *)
AllOthers ==
    {K(v) : v \in {Arr(<<Strand("a-NUL-b"), [kind |-> "datetime", moment |-> "year 10000"], [kind |-> "newer"]>>),
                   Thing("t", [kind |-> "uuid"]),
                   Geo([shape |-> "collection", parts |-> <<[shape |-> "newer"], Ring(<<"p", "q", "p">>)>>])}}

Pair(name, val) == [name |-> name, val |-> val]
CborMap(pairs) == [kind |-> "map", pairs |-> pairs]
Method == Pair(Strand("method"), Strand("upsert"))
Params(v) == Pair(Strand("params"), Arr(<<Strand("t:a"), v>>))

(* Requests with their entries in either order, and some that are not whole. *)
AllRequests ==
    {<<Method, Params(CborMap(<<Pair(Strand("k"), v)>>))>> :
         v \in {Num(2), Num(-3), [kind |-> "tag"], Arr(<<Num(1), [kind |-> "null"]>>)}}
    \cup {<<Params(CborMap(<<Pair(Strand("k"), [kind |-> "null"]), Pair(Num(0), Num(1)), Pair(Strand("k"), Num(0))>>)), Method>>,
          <<Pair(Strand("params"), Num(0)), Method, Pair(Num(0), Num(0)), Params(CborMap(<<Pair(Strand("k"), Num(1))>>))>>,
          <<Params(Num(0)), Method>>, <<Method>>}

OneEdge == {<<>>, K(Dur(1, 3))}

(* At most one record holds something else than the one plain content. *)
OneOfAKind == Cardinality({p \in DOMAIN db : db[p] # K(Num(1))}) <= 1

FewContents == {K(Num(1))}
================================================================================
