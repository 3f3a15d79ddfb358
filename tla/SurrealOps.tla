------------------------------- MODULE SurrealOps -------------------------------
(***************************************************************************)
(* The operations of a Surreal handle (lib.rs), each reduced to what the   *)
(* call harness and the caller can tell apart:                             *)
(*                                                                         *)
(*   checked  the pointers check_null! refuses when they are null          *)
(*   outptr   the pointer the result is written through ("" if none);      *)
(*            where it is not in `checked`, null discards the result       *)
(*   out      what is written: nothing, an array ("array", empty when the  *)
(*            code is 0), one allocation ("boxed") or the JWT ("token")    *)
(*   codes    the values Ok returns                                        *)
(*   verdict  "reported"  Ok only when the request was carried out         *)
(*            "late"      also when an answer came that does not fit       *)
(*            "piecemeal" the request is carried out in parts              *)
(*            "swallowed" Ok although the statement itself failed          *)
(***************************************************************************)
EXTENDS Integers

CONSTANT MaxLen    \* bound on the number of records or statements of a result

ASSUME MaxLenAssumption == MaxLen \in Nat \ {0}

Unit(checked) ==
    [checked |-> checked, outptr |-> "", out |-> "none", codes |-> {0}, verdict |-> "reported"]
Records(checked) ==
    [checked |-> {"res_ptr"} \cup checked, outptr |-> "res_ptr", out |-> "array",
     codes |-> 0..MaxLen, verdict |-> "reported"]
Boxed(checked, ptr, codes) ==
    [checked |-> checked, outptr |-> ptr, out |-> "boxed", codes |-> codes, verdict |-> "reported"]

(* db.query(..).await without looking at the statement's own result. *)
Statement(checked) == [Unit(checked) EXCEPT !.verdict = "swallowed"]

(* Several statements, or a file, one part after the other: a failure leaves *)
(* the parts before it done.                                                *)
InParts(row) == [row EXCEPT !.verdict = "piecemeal"]

(* The token is optional and assigned, not written. *)
Login == [Unit({}) EXCEPT !.outptr = "token_ptr", !.out = "token"]

authenticate    == Unit({"token"})
begin           == Statement({})
cancel          == Statement({})
commit          == Statement({})
(* create accepts a null res_ptr, runs the statement and only then looks    *)
(* whether an object came back.                                             *)
create          == [Boxed({"resource", "content"}, "res_ptr", {1}) EXCEPT !.verdict = "late"]
delete          == Records({"resource"})
export          == InParts(Unit({"file_path"}))
health          == Unit({})
import          == InParts(Unit({"file_path"}))
insert          == Records({"resource", "content"})
insert_relation == Records({"table", "content"})
run             == Records({"function_name"})
relate          == Records({"from", "relation", "to"})
invalidate      == Unit({})
kill            == Statement({"query_id"})
select_live     == Boxed({"stream_ptr", "resource"}, "stream_ptr", {1})
merge           == Records({"resource", "content"})
patch_add       == Records({"resource", "path", "value"})
patch_remove    == Records({"resource", "path"})
patch_replace   == Records({"resource", "path", "value"})
(* One ArrayResult per statement, each with its own error. *)
query           == InParts(Records({"query"}))
select          == Records({"resource"})
set             == Unit({"key", "value"})
signin          == Login
signup          == Login
unset           == Unit({"key"})
update          == Records({"resource", "content"})
upsert          == Records({"resource", "content"})
use_db          == Unit({"db_name"})
use_ns          == Unit({"ns_name"})
(* The code is the length of the version string. *)
version         == Boxed({"res_ptr"}, "res_ptr", 1..MaxLen)

Row == [authenticate |-> authenticate, begin |-> begin, cancel |-> cancel,
        commit |-> commit, create |-> create, delete |-> delete, export |-> export,
        health |-> health, import |-> import, insert |-> insert,
        insert_relation |-> insert_relation, run |-> run, relate |-> relate,
        invalidate |-> invalidate, kill |-> kill, select_live |-> select_live,
        merge |-> merge, patch_add |-> patch_add, patch_remove |-> patch_remove,
        patch_replace |-> patch_replace, query |-> query, select |-> select,
        set |-> set, signin |-> signin, signup |-> signup, unset |-> unset,
        update |-> update, upsert |-> upsert, use_db |-> use_db, use_ns |-> use_ns,
        version |-> version]

(* The pointers a caller may pass as null. *)
Nullable(o) == Row[o].checked \cup ({Row[o].outptr} \ {""})

(* Variant: one more than the length. *)
CodesPlusOne(o, want) == {n + 1 : n \in Row[o].codes}

(* The code of a successful call; without a result to write create returns 0. *)
Codes(o, want) ==
    IF o = "create" /\ ~want THEN {0} ELSE Row[o].codes
================================================================================
