------------------------------ MODULE Conversions ------------------------------
(***************************************************************************)
(* What becomes of a value on its way between C, the SDK and CBOR           *)
(* (types/value.rs and the modules it uses, rpc.rs).  A value is a record   *)
(* whose `kind` says which field holds its content; arrays and objects hold *)
(* values, a record identifier holds a value as its key.                    *)
(*                                                                         *)
(* A text, a moment, a shape's point is a word.  The tables below say what  *)
(* the parsers and printers of the code make of the words that matter.      *)
(***************************************************************************)
EXTENDS Integers, Sequences, SequencesExt, FiniteSetsExt

CONSTANTS NanosPerSec, MaxSecs,   \* 10^9 and 2^64 - 1, scaled down
          IntRange                \* half the number of values of an i64, scaled down

ASSUME ScaleAssumption == NanosPerSec \in Nat \ {0} /\ MaxSecs \in Nat /\ IntRange \in Nat \ {0}

--------------------------------------------------------------------------------
(* Words *)

(* CString::new refuses an interior NUL, and the empty string stands in. *)
CText(text) == IF text = "a-NUL-b" THEN "" ELSE text

(* to_string_lossy, on what a C program wrote. *)
Utf8(text) == IF text = "ill-formed" THEN "replaced" ELSE text

(* Decimal's parser; what it refuses is read as a float, or is 0. *)
ReadDecimal(text) ==
    IF text \in {"1.5", "+1.5"} THEN [kind |-> "decimal", text |-> "1.5"]
    ELSE [kind |-> "float", float |-> IF text = "1e3" THEN "1000" ELSE "0"]

(* DateTime::parse_from_rfc3339: any offset, years of four digits; what it  *)
(* refuses is the epoch.                                                    *)
ReadDatetime(text) == IF text \in {"noon UTC", "14h +02:00"} THEN "noon" ELSE "1970"

(* Variant: printed without its offset. *)
WrittenNaive(moment) == IF moment = "1970" THEN "1970 UTC" ELSE moment

WrittenDatetime(moment) == CASE moment = "noon" -> "noon UTC"
                             [] moment = "1970" -> "1970 UTC"
                             [] moment = "year 10000" -> "+10000 UTC"

(* Polygon::new closes its rings. *)
Closed(ring) == IF ring = <<>> \/ Head(ring) = Last(ring) THEN ring ELSE Append(ring, Head(ring))

(* Variant: `as u64` *)
WrapNat(n) == n % (2 * IntRange)

(* `as i64` *)
WrapInt(n) == ((n + IntRange) % (2 * IntRange)) - IntRange

--------------------------------------------------------------------------------
(* The values inside a value, and the value rebuilt from converted ones. *)
Inside(v) ==
    CASE v.kind = "array"  -> ToSet(v.seq)
      [] v.kind = "object" -> {v.map[k] : k \in DOMAIN v.map}
      [] v.kind = "thing"  -> {v.key}
      [] OTHER             -> {}

Rebuilt(F(_), v) ==
    CASE v.kind = "array"  -> [v EXCEPT !.seq = [i \in DOMAIN v.seq |-> F(v.seq[i])]]
      [] v.kind = "object" -> [v EXCEPT !.map = [k \in DOMAIN v.map |-> F(v.map[k])]]
      [] v.kind = "thing"  -> [v EXCEPT !.key = F(v.key)]
      [] OTHER             -> v

RECURSIVE Within(_)
Within(v) == {v} \cup UNION {Within(x) : x \in Inside(v)}

--------------------------------------------------------------------------------
(* Geometry: only rings and what this version does not know are changed. *)
RECURSIVE ShapeToSdk(_)
ShapeToSdk(g) ==
    CASE g.shape = "polygon"       -> [g EXCEPT !.points = Closed(@)]
      [] g.shape = "collection"    -> [g EXCEPT !.parts = [i \in DOMAIN g.parts |-> ShapeToSdk(g.parts[i])]]
      [] g.shape = "unimplemented" -> [shape |-> "point", points |-> <<"0">>]
      [] OTHER                     -> g

RECURSIVE ShapeToC(_)
ShapeToC(g) ==
    CASE g.shape = "collection" -> [g EXCEPT !.parts = [i \in DOMAIN g.parts |-> ShapeToC(g.parts[i])]]
      [] g.shape = "newer"      -> [shape |-> "unimplemented"]
      [] OTHER                  -> g

--------------------------------------------------------------------------------
(* Duration::new carries the nanoseconds over into the seconds and panics    *)
(* when they do not fit.                                                    *)
Overflows(v) == v.secs + v.nanos \div NanosPerSec > MaxSecs

DurationNew(v) == [v EXCEPT !.secs = @ + v.nanos \div NanosPerSec, !.nanos = @ % NanosPerSec]

Panics(v) == \E x \in Within(v) : x.kind = "duration" /\ Overflows(x)

(* A record identifier, with its key converted.  A key of a kind that C does *)
(* not have is printed.                                                     *)
ThingToSdk(v, key) == [v EXCEPT !.table = Utf8(@), !.key = key]

ThingToC(v, key) ==
    [v EXCEPT !.table = CText(@),
              !.key = IF v.key.kind = "uuid" THEN [kind |-> "strand", text |-> "Uuid(..)"] ELSE key]

(* Value -> sdbValue, for a value that does not panic. *)
RECURSIVE ToSdk(_)
ToSdk(v) ==
    CASE v.kind = "decimal"  -> ReadDecimal(v.text)
      [] v.kind = "strand"   -> [v EXCEPT !.text = Utf8(@)]
      [] v.kind = "datetime" -> [kind |-> "datetime", moment |-> ReadDatetime(v.text)]
      [] v.kind = "duration" -> DurationNew(v)
      [] v.kind = "geometry" -> [v EXCEPT !.geo = ShapeToSdk(@)]
      [] v.kind = "thing"    -> ThingToSdk(v, ToSdk(v.key))
      [] OTHER               -> Rebuilt(ToSdk, v)

(* sdbValue -> Value *)
RECURSIVE ToC(_)
ToC(v) ==
    CASE v.kind = "strand"   -> [v EXCEPT !.text = CText(@)]
      [] v.kind = "datetime" -> [kind |-> "datetime", text |-> WrittenDatetime(v.moment)]
      [] v.kind = "geometry" -> [v EXCEPT !.geo = ShapeToC(@)]
      [] v.kind = "thing"    -> ThingToC(v, ToC(v.key))
      [] v.kind = "newer"    -> [kind |-> "none"]
      [] OTHER               -> Rebuilt(ToC, v)

--------------------------------------------------------------------------------
(* cbor_to_value: pairs with a key that is no text are skipped, a later pair *)
(* replaces an earlier one with its key, tags are dropped.                  *)
RECURSIVE cbor_to_value(_)
cbor_to_value(v) ==
    LET Keys == {p.name.text : p \in {q \in ToSet(v.pairs) : q.name.kind = "strand"}}
        At(k) == v.pairs[Max({i \in DOMAIN v.pairs :
                                 v.pairs[i].name = [kind |-> "strand", text |-> k]})].val
    IN  CASE v.kind = "int" -> [v EXCEPT !.int = WrapInt(@)]
          [] v.kind = "map" -> [kind |-> "object", map |-> [k \in Keys |-> cbor_to_value(At(k))]]
          [] v.kind = "tag" -> [kind |-> "none"]
          [] OTHER          -> Rebuilt(cbor_to_value, v)

(* value_to_cbor: what CBOR has no kind for is printed. *)
RECURSIVE value_to_cbor(_)
value_to_cbor(v) ==
    CASE v.kind = "none"    -> [kind |-> "null"]
      [] v.kind = "decimal" -> [kind |-> "strand", text |-> v.text]
      [] v.kind = "object"  ->
             LET ks == SetToSeq(DOMAIN v.map)
             IN  [kind |-> "map",
                  pairs |-> [i \in DOMAIN ks |-> [name |-> [kind |-> "strand", text |-> ks[i]],
                                                  val  |-> value_to_cbor(v.map[ks[i]])]]]
      [] v.kind \in {"null", "bool", "int", "float", "strand", "array"} -> Rebuilt(value_to_cbor, v)
      [] OTHER              -> [kind |-> "strand", text |-> "printed"]

(* parse_cbor_request, of the entries of a CBOR map: the last method counts, *)
(* the parameters add up, everything else is passed over.                   *)
parse_cbor_request(entries) ==
    LET Values(k) == [i \in DOMAIN entries |-> IF entries[i].name = [kind |-> "strand", text |-> k]
                                               THEN <<entries[i].val>> ELSE <<>>]
        methods == FlattenSeq(Values("method"))
        lists   == SelectSeq(FlattenSeq(Values("params")), LAMBDA p : p.kind = "array")
    IN  [method |-> IF methods = <<>> \/ Last(methods).kind # "strand" THEN "" ELSE Last(methods).text,
         params |-> FlattenSeq([i \in DOMAIN lists |-> cbor_to_value(lists[i]).seq])]
================================================================================
