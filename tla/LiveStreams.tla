------------------------------ MODULE LiveStreams ------------------------------
(***************************************************************************)
(* Live query streams (types/stream.rs, sr_select_live) beside the calls of *)
(* a C program.  A thread that got a stream from sr_select_live either      *)
(* kills it at once or hands it to a listener, a C thread that only calls   *)
(* sr_stream_next and sr_stream_kill on the one stream it holds.            *)
(*                                                                         *)
(* These two functions run outside the call harness: no flag, no            *)
(* catch_unwind, no err_ptr.  A Stream keeps a tokio Handle of its own, so  *)
(* it may outlive the connection; the queue behind it is the SDK's, and its *)
(* sending end lives in tasks of the connection's runtime.                  *)
(***************************************************************************)
EXTENDS Surreal, Sequences

CONSTANTS Listener,    \* the threads that listen
          MaxNotes     \* bound on what a live query sends

ASSUME ListenerAssumption ==
    MaxNotes \in Nat /\ Thread \cap Listener = {} /\ "none" \notin Handle \cup Listener

VARIABLES source,    \* source[l]: the handle the listener's stream came from, or "none"
          feeding,   \* feeding[l]: the sending end of the stream exists
          sent,      \* sent[l]: how many items ever entered it
          queue,     \* queue[l]: the items not read yet, each with its number and
                     \* whether the SDK decoded it
          hears      \* hears[l]: what sr_stream_next does in the listener, and the
                     \* number of the item it got

streamVars == <<source, feeding, sent, queue, hears>>
liveVars == <<vars, streamVars>>

Item(no, decoded) == [no |-> no, decoded |-> decoded]
Items == [no : 1..MaxNotes, decoded : BOOLEAN]
Hearing(pc_, ret, no) == [pc |-> pc_, ret |-> ret, no |-> no]
Quiet == Hearing("idle", 0, 0)
Listens(l, stage) == process = "running" /\ hears[l].pc = stage

LiveInit ==
    /\ Init
    /\ source = [l \in Listener |-> "none"]
    /\ feeding = [l \in Listener |-> FALSE]
    /\ sent = [l \in Listener |-> 0]
    /\ queue = [l \in Listener |-> <<>>]
    /\ hears = [l \in Listener |-> Quiet]

--------------------------------------------------------------------------------
(* The thread that made the stream gives it away; its variable owns it no more. *)
hand_over(t, l) ==
    /\ Running(t, "returned")
    /\ call[t].op = "select_live" /\ FreesOut(call[t])
    /\ source[l] = "none"
    /\ process' = IF out[t] = "owned" THEN "running" ELSE "faulted"
    /\ source' = [source EXCEPT ![l] = call[t].h]
    /\ feeding' = [feeding EXCEPT ![l] = TRUE]
    /\ out' = [out EXCEPT ![t] = "stale"]
    /\ call' = [call EXCEPT ![t] = NoCall]
    /\ UNCHANGED <<life, ps, fatal, err, lost, tok, sent, queue, hears>>

(* Variant: a stream keeps the runtime of its connection running. *)
disconnect_alone(t, h) == disconnect(t, h) /\ UNCHANGED streamVars

(* sr_surreal_disconnect drops the runtime, and with its tasks the sending   *)
(* ends of every stream of the connection, listened to or not.              *)
disconnect_feeds(t, h) ==
    /\ disconnect(t, h)
    /\ feeding' = [l \in Listener |-> feeding[l] /\ source[l] # h]
    /\ UNCHANGED <<source, sent, queue, hears>>

(* The live query matched something, or the SDK failed to decode it. *)
Send(l) ==
    /\ process = "running"
    /\ feeding[l] /\ sent[l] < MaxNotes
    /\ sent' = [sent EXCEPT ![l] = @ + 1]
    /\ \E decoded \in BOOLEAN : 
          queue' = [queue EXCEPT ![l] = Append(@, Item(sent'[l], decoded))]
    /\ UNCHANGED <<vars, source, feeding, hears>>

(* The query ends in the database: sr_kill, or the connection broke. *)
QueryEnds(l) ==
    /\ process = "running"
    /\ feeding[l]
    /\ feeding' = [feeding EXCEPT ![l] = FALSE]
    /\ UNCHANGED <<vars, source, sent, queue, hears>>

--------------------------------------------------------------------------------
(* sr_stream_next: `rt.block_on(inner.next())`. *)
stream_next(l) ==
    /\ Listens(l, "idle") /\ source[l] # "none"
    /\ hears' = [hears EXCEPT ![l] = Hearing("waiting", 0, 0)]
    /\ UNCHANGED <<vars, source, feeding, sent, queue>>

Reply(l, ret, no) == hears' = [hears EXCEPT ![l] = Hearing("told", ret, no)]
Outcome(item) == IF item.decoded THEN 1 ELSE SR_ERROR

(* Variant: the newest item is taken. *)
NextNewest(l) ==
    LET newest == queue[l][Len(queue[l])] IN
    /\ Listens(l, "waiting")
    /\ queue[l] # <<>>
    /\ queue' = [queue EXCEPT ![l] = SubSeq(@, 1, Len(@) - 1)]
    /\ Reply(l, Outcome(newest), newest.no)
    /\ UNCHANGED <<vars, source, feeding, sent>>

(* Some(Ok): the notification is written and 1 returned; Some(Err): SR_ERROR. *)
NextItem(l) ==
    /\ Listens(l, "waiting")
    /\ queue[l] # <<>>
    /\ queue' = [queue EXCEPT ![l] = Tail(@)]
    /\ Reply(l, Outcome(Head(queue[l])), Head(queue[l]).no)
    /\ UNCHANGED <<vars, source, feeding, sent>>

(* None: SR_NONE. *)
NoItemEver(l) ==
    /\ Listens(l, "waiting")
    /\ queue[l] = <<>> /\ ~feeding[l]
    /\ Reply(l, SR_NONE, 0)
    /\ UNCHANGED <<vars, source, feeding, sent, queue>>

(* The listener is done with the answer. *)
Heard(l) ==
    /\ Listens(l, "told")
    /\ hears' = [hears EXCEPT ![l] = Quiet]
    /\ UNCHANGED <<vars, source, feeding, sent, queue>>

(* Variant: what the stream still held stays behind. *)
stream_kill_keeping(l) ==
    /\ Listens(l, "idle") /\ source[l] # "none"
    /\ source' = [source EXCEPT ![l] = "none"]
    /\ UNCHANGED <<vars, feeding, sent, queue, hears>>

(* sr_stream_kill: the box is dropped inside block_on on the stream's own    *)
(* handle, also when the connection is gone.                                *)
stream_kill(l) ==
    /\ Listens(l, "idle") /\ source[l] # "none"
    /\ source' = [source EXCEPT ![l] = "none"]
    /\ feeding' = [feeding EXCEPT ![l] = FALSE]
    /\ sent' = [sent EXCEPT ![l] = 0]
    /\ queue' = [queue EXCEPT ![l] = <<>>]
    /\ UNCHANGED <<vars, hears>>

--------------------------------------------------------------------------------
StreamStep(l) == NextItem(l) \/ NoItemEver(l) \/ Heard(l)

LiveNext ==
    \/ \E t \in Thread :
        \/ \E h \in Handle : \/ connect(t, h) /\ UNCHANGED streamVars
                             \/ disconnect_feeds(t, h)
        \/ \E h \in Handle, o \in Op : Start(t, h, o) /\ UNCHANGED streamVars
        \/ Step(t) /\ UNCHANGED streamVars
        \/ \E l \in Listener : hand_over(t, l)
    \/ \E l \in Listener :
        \/ Send(l) \/ QueryEnds(l)
        \/ stream_next(l) \/ stream_kill(l)
        \/ StreamStep(l)

(* Threads are scheduled.  Nothing is assumed of when a query sends or ends. *)
LiveFairness == \A l \in Listener : WF_liveVars(StreamStep(l))

LiveSpec == LiveInit /\ [][LiveNext]_liveVars
FairLiveSpec == LiveSpec /\ LiveFairness

--------------------------------------------------------------------------------
StreamTypeOK ==
    /\ source \in [Listener -> Handle \cup {"none"}]
    /\ feeding \in [Listener -> BOOLEAN]
    /\ sent \in [Listener -> 0..MaxNotes]
    /\ queue \in [Listener -> Seq(Items)]
    /\ \A l \in Listener :
          /\ Len(queue[l]) <= sent[l]
          /\ feeding[l] \/ sent[l] > 0 => source[l] # "none"
    /\ hears \in [Listener -> [pc : {"idle", "waiting", "told"},
                               ret : {1, SR_NONE, SR_ERROR}, no : 0..MaxNotes]]

(* Properties *)

(* How a stream and its listener look as a feed. *)
Taken(l) == sent[l] - Len(queue[l])
Asked(l) == IF hears[l].pc = "idle" THEN "none" ELSE l
News(l) ==
    IF hears[l].pc # "told" THEN "nothing"
    ELSE IF hears[l].ret = SR_NONE THEN "closed"
    ELSE IF hears[l].ret = SR_ERROR THEN "error" ELSE "notification"
Heed(l) == [is |-> News(l), no |-> hears[l].no]
Undecoded(l) == {queue[l][i].no : i \in {j \in 1..Len(queue[l]) : ~queue[l][j].decoded}}

(* Each stream is a feed of its own: its listener gets every notification   *)
(* once and in the order sent, an error in the place of each that was not    *)
(* decoded and of no other, and SR_NONE only when the stream is drained and its sending end  *)
(* gone, whatever the other threads do to the connection meanwhile.         *)
StreamFeed == INSTANCE NotificationFeed WITH
    Reader <- Listener,
    Feed   <- Listener,
    open   <- feeding,
    bad    <- [l \in Listener |-> Undecoded(l)],
    taken  <- [l \in Listener |-> Taken(l)],
    asks   <- [l \in Listener |-> Asked(l)],
    told   <- [l \in Listener |-> Heed(l)]

StreamKeepsFeed == StreamFeed!Spec

(* A listener blocked in sr_stream_next when the connection is dropped under *)
(* it gets an answer: the stream does not keep the runtime alive.           *)
ListenersWake ==
    \A l \in Listener :
        hears[l].pc = "waiting" /\ source[l] \in Handle /\ life[source[l]] = "freed"
            ~> hears[l].pc # "waiting"
================================================================================
