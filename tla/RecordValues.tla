------------------------------- MODULE RecordValues -------------------------------
(***************************************************************************)
(* Records with the conversions of the code: what becomes of the contents   *)
(* that a C program and a client that speaks CBOR write and read in turn.   *)
(***************************************************************************)
EXTENDS Records, Conversions

Object(map) == [kind |-> "object", map |-> map]

StoredContent(c) == ToSdk(Object(c)).map
ShownContent(s) == ToC(Object(s)).map
FatalContent(c) == Panics(Object(c))

(* A request to write: the last of its parameters is the content. *)
ReceivedContent(entries) ==
    LET call == parse_cbor_request(entries)
    IN  IF call.method = "upsert" /\ call.params # <<>> /\ Last(call.params).kind = "object"
        THEN Last(call.params).map ELSE <<>>

(* What C has no way to say: a NUL inside a text, a year of five digits,     *)
(* kinds of a newer SurrealDB.                                              *)
RECURSIVE OldShape(_)
OldShape(g) ==
    CASE g.shape = "newer"      -> FALSE
      [] g.shape = "collection" -> \A i \in DOMAIN g.parts : OldShape(g.parts[i])
      [] OTHER                  -> TRUE

Expressible(v) ==
    \A x \in Within(v) :
        CASE x.kind = "strand"   -> x.text # "a-NUL-b"
          [] x.kind = "datetime" -> x.moment # "year 10000"
          [] x.kind = "geometry" -> OldShape(x.geo)
          [] x.kind = "thing"    -> x.table # "a-NUL-b" /\ x.key.kind # "uuid"
          [] OTHER               -> x.kind # "newer"

--------------------------------------------------------------------------------
(* Properties *)

(* A program that writes back what it was shown of a record leaves it as it  *)
(* is, but for what C has no way to say; the call never panics, and writing  *)
(* back a second time changes nothing.                                      *)
WriteBackKeeps ==
    \A p \in DOMAIN db :
        LET shown == Shown(db[p])
        IN  /\ ~Fatal(shown)
            /\ Expressible(Object(db[p])) => Stored(shown) = db[p]
            /\ Stored(Shown(Stored(shown))) = Stored(shown)

(* Whoever reads a record over RPC and writes back what was read changes     *)
(* only what CBOR has no kind for, and that only the first time.             *)
RpcWriteBackSettles ==
    \A p \in DOMAIN db :
        LET once  == cbor_to_value(value_to_cbor(Object(db[p])))
            twice == cbor_to_value(value_to_cbor(once))
            plain == \A x \in Within(Object(db[p])) :
                         x.kind \in {"null", "bool", "int", "float", "strand", "array", "object"}
        IN  /\ once.kind = "object" /\ twice = once
            /\ plain => once.map = db[p]
================================================================================
