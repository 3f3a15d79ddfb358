----------------------------- MODULE NotificationFeed -----------------------------
(***************************************************************************)
(* What a feed of notifications promises its readers.  Notifications are   *)
(* numbered in the order they entered the feed.  Each goes to one reader;   *)
(* readers get them in order; one that is bad when it enters is an error to *)
(* the reader whose turn it is, and no other is; a reader is told that the   *)
(* feed is closed only when there is none left and none to come.  All       *)
(* notification streams of an RPC context are one feed, every live query    *)
(* stream is one of its own.                                                *)
(***************************************************************************)
EXTENDS Naturals

CONSTANTS Reader, Feed

VARIABLES open,     \* open[f]: more may come
          sent,     \* sent[f]: how many entered the feed
          bad,      \* bad[f]: the numbers of those, not given away yet, that are bad
          taken,    \* taken[f]: how many of them were given to a reader
          asks,     \* asks[r]: the feed the reader is asking, or "none"
          told      \* told[r]: what the reader is told, a piece of News

News(is, no) == [is |-> is, no |-> no]
Nothing == News("nothing", 0)

vars == <<open, sent, bad, taken, asks, told>>

Init ==
    /\ open = [f \in Feed |-> FALSE]
    /\ sent = [f \in Feed |-> 0]
    /\ bad = [f \in Feed |-> {}]
    /\ taken = [f \in Feed |-> 0]
    /\ asks = [r \in Reader |-> "none"]
    /\ told = [r \in Reader |-> Nothing]

Open(f) == open' = [open EXCEPT ![f] = TRUE] /\ UNCHANGED <<sent, bad, taken, asks, told>>
Close(F) ==
    /\ open' = [f \in Feed |-> open[f] /\ f \notin F]
    /\ UNCHANGED <<sent, bad, taken, asks, told>>

(* A feed that nobody is asking is given up, with what is left in it; its    *)
(* place is taken by another.                                               *)
Renew(f) ==
    /\ \A r \in Reader : asks[r] # f
    /\ open' = [open EXCEPT ![f] = FALSE]
    /\ sent' = [sent EXCEPT ![f] = 0]
    /\ bad' = [bad EXCEPT ![f] = {}]
    /\ taken' = [taken EXCEPT ![f] = 0]
    /\ UNCHANGED <<asks, told>>

Send(f) ==
    /\ open[f]
    /\ sent' = [sent EXCEPT ![f] = @ + 1]
    /\ \/ UNCHANGED bad
       \/ bad' = [bad EXCEPT ![f] = @ \cup {sent'[f]}]
    /\ UNCHANGED <<open, taken, asks, told>>

Ask(r, f) ==
    /\ asks[r] = "none"
    /\ asks' = [asks EXCEPT ![r] = f]
    /\ UNCHANGED <<open, sent, bad, taken, told>>

(* The next one nobody was given, or an error in its place if it is bad. *)
Tell(r) ==
    /\ asks[r] # "none" /\ told[r] = Nothing
    /\ LET f == asks[r]
           n == taken[f] + 1
       IN  /\ n <= sent[f]
           /\ taken' = [taken EXCEPT ![f] = n]
           /\ bad' = [bad EXCEPT ![f] = @ \ {n}]
           /\ told' = [told EXCEPT ![r] =
                           News(IF n \in bad[f] THEN "error" ELSE "notification", n)]
    /\ UNCHANGED <<open, sent, asks>>

(* It could not be encoded, and is lost. *)
Spoil(r) ==
    /\ told[r].is = "notification"
    /\ told' = [told EXCEPT ![r] = News("error", @.no)]
    /\ UNCHANGED <<open, sent, bad, taken, asks>>

End(r) ==
    /\ asks[r] # "none" /\ told[r] = Nothing
    /\ ~open[asks[r]] /\ taken[asks[r]] = sent[asks[r]]
    /\ told' = [told EXCEPT ![r] = News("closed", 0)]
    /\ UNCHANGED <<open, sent, bad, taken, asks>>

Done(r) ==
    /\ told[r] # Nothing
    /\ asks' = [asks EXCEPT ![r] = "none"]
    /\ told' = [told EXCEPT ![r] = Nothing]
    /\ UNCHANGED <<open, sent, bad, taken>>

Next ==
    \/ \E f \in Feed : Open(f) \/ Renew(f) \/ Send(f)
    \/ \E F \in SUBSET Feed : Close(F)
    \/ \E r \in Reader : \/ Tell(r) \/ Spoil(r) \/ End(r) \/ Done(r)
                         \/ \E f \in Feed : Ask(r, f)

Spec == Init /\ [][Next]_vars
================================================================================
