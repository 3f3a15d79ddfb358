------------------------------- MODULE NamedStore -------------------------------
(***************************************************************************)
(* What the record functions promise a C program: a store of records that   *)
(* names stand for, one or those of a table, each holding a content, a       *)
(* function from field names.  What is put under a name is found under it    *)
(* by every function until it is changed or removed under a name that        *)
(* stands for it.  A function answers with the records it found or left.     *)
(* One that panics left all as it was; one that fails did all it was asked   *)
(* for or nothing, and never a part or something else.                      *)
(***************************************************************************)
EXTENDS Maps

CONSTANTS Name,       \* the names the program uses
          Means(_),   \* the records a name stands for, in use or not
          Field,      \* the names of fields
          Offer,      \* the contents offered to the store
          Shown(_)    \* what the program sees of a content

VARIABLES store,    \* from the records in use to their contents
          answer    \* the last answer, and the name it was asked about

vars == <<store, answer>>

Nothing(is, n) == [is |-> is, of |-> n, rows |-> <<>>]
Found(n, s) == [is |-> "ok", of |-> n, rows |-> [r \in DOMAIN s |-> Shown(s[r])]]

(* A change answers with the records it left, or its reply is lost. *)
Changes(n, s) == answer' \in {Found(n, s), Nothing("error", n)}

Init == store = <<>> /\ answer \in {Nothing("none", n) : n \in Name}

Look(n) == answer' = Found(n, Only(store, Means(n))) /\ UNCHANGED store

Put(n, r) ==
    /\ r \in Means(n)
    /\ store'[r] \in Offer
    /\ store' = Over(One(r, store'[r]), store)
    /\ Changes(n, One(r, store'[r]))

Changed(n, New(_)) ==
    LET s == [r \in Means(n) \cap DOMAIN store |-> New(store[r])]
    IN  store' = Over(s, store) /\ Changes(n, s)

Change(n) ==
    \/ \E c \in Offer :
          \/ Changed(n, LAMBDA old : c) \/ Changed(n, LAMBDA old : Over(c, old))
          \/ \E k \in Field \cap DOMAIN c : Changed(n, LAMBDA old : Over(One(k, c[k]), old))
    \/ \E k \in Field : Changed(n, LAMBDA old : Only(old, DOMAIN old \ {k}))

Remove(n) ==
    /\ store' = Only(store, DOMAIN store \ Means(n))
    /\ Changes(n, Only(store, Means(n)))

Fail(n) == (\E is \in {"error", "fatal"} : answer' = Nothing(is, n)) /\ UNCHANGED store

(* Another client of the database writes or removes a record. *)
Elsewhere(r) ==
    /\ answer' = [answer EXCEPT !.is = "none", !.rows = <<>>]
    /\ Only(store', DOMAIN store' \ {r}) = Only(store, DOMAIN store \ {r})

Call(n) ==
    \/ Fail(n) \/ Look(n) \/ Remove(n)
    \/ \E r \in Means(n) \cap DOMAIN store' : Put(n, r)
    \/ Change(n)

Next ==
    \/ \E n \in Name : answer'.of = n /\ Call(n)
    \/ \E n \in Name : \E r \in Means(n) : Elsewhere(r)

Spec == Init /\ [][Next]_vars
================================================================================
