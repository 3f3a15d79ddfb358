------------------------------- MODULE RpcContext -------------------------------
(***************************************************************************)
(* RPC contexts (rpc.rs) and their notification streams (stream.rs), used  *)
(* by several C threads.                                                    *)
(*                                                                         *)
(* The requests of a context run in the harness, whose `with_async` is the *)
(* text of CallHarness.  A stream is a receiver of the one notification     *)
(* channel of the context's datastore; sr_rpc_stream_next runs outside the  *)
(* harness, without err_ptr, poison flag or catch_unwind, and also after    *)
(* the context was freed.                                                   *)
(*                                                                         *)
(* A handle names one context: it is opened once.  Each thread has one      *)
(* stream variable.  `owed` are the notifications that requests gave rise   *)
(* to and the datastore has yet to send; the datastore is external.         *)
(***************************************************************************)
EXTENDS CallHarness, Sequences

CONSTANTS Capacity,   \* of the channel
          MaxNotes    \* bound on the notifications of a context

ASSUME RpcAssumption ==
    /\ Op = {"execute", "notifications", "next"}
    /\ Capacity \in Nat \ {0} /\ MaxNotes \in Nat
    /\ "none" \notin Handle /\ Thread \cap Handle = {}

VARIABLES owed,       \* owed[h]: notifications not in the channel yet
          sent,       \* sent[h]: how many ever entered it, which numbers them
          chan,       \* chan[h]: the channel
          stream,     \* stream[t]: the context of the thread's stream, or "none"
          note        \* note[t]: the notification sr_rpc_stream_next took, or 0

feedVars == <<owed, sent, chan, note>>
vars == <<harnessVars, feedVars, stream>>

Init ==
    /\ HarnessInit
    /\ owed = [h \in Handle |-> 0]
    /\ sent = [h \in Handle |-> 0]
    /\ chan = [h \in Handle |-> <<>>]
    /\ stream = [t \in Thread |-> "none"]
    /\ note = [t \in Thread |-> 0]

--------------------------------------------------------------------------------
(* The context. *)

(* sr_surreal_rpc_new, which checks no pointer. *)
new(t, h) ==
    /\ life[h] = "absent"
    /\ \E ep \in ErrPtr : Connect(t, h, ep)
    /\ UNCHANGED <<feedVars, stream>>

(* sr_surreal_rpc_execute; res_ptr and ptr are checked. *)
execute(t, h) ==
    /\ Usable(h)
    /\ \E ep \in ErrPtr : Invoke(t, h, "execute", ep, TRUE) \/ check_null(t, h, "execute", ep)
    /\ UNCHANGED <<feedVars, stream>>

(* sr_surreal_rpc_notifications; stream_ptr is checked.  The result goes to *)
(* the stream variable.                                                     *)
notifications(t, h) ==
    /\ Usable(h) /\ stream[t] = "none"
    /\ \E ep \in ErrPtr : \/ Invoke(t, h, "notifications", ep, FALSE)
                          \/ check_null(t, h, "notifications", ep)
    /\ UNCHANGED <<feedVars, stream>>

(* sr_surreal_rpc_free: drops the datastore with the sending end, and the    *)
(* runtime with what the datastore still had to send.  The program has no    *)
(* request running; threads inside sr_rpc_stream_next do not matter.        *)
rpc_free(t, h) ==
    /\ Running(t, "idle")
    /\ life[h] = "open"
    /\ \A u \in Thread : call[u].h = h /\ pc(u) # "idle" => call[u].op = "next"
    /\ life' = [life EXCEPT ![h] = "freed"]
    /\ owed' = [owed EXCEPT ![h] = 0]
    /\ UNCHANGED <<process, ps, fatal, call, err, out, lost, sent, chan, note, stream>>

--------------------------------------------------------------------------------
(* Requests, in the harness. *)

InHarness(t) == call[t].op # "next"
Request(t) == call[t].op = "execute"

(* The datastore carries out the request, which concerns `n` live queries. *)
Serve(t) ==
    LET h == call[t].h IN
    /\ InHarness(t)
    /\ call[t].done = "nothing" /\ TakeEffect(t, "all")
    /\ \E n \in (IF Request(t) THEN 0..(MaxNotes - sent[h] - owed[h]) ELSE {0}) :
           owed' = [owed EXCEPT ![h] = @ + n]
    /\ UNCHANGED <<sent, chan, note, stream>>

Resolve(t) == InHarness(t) /\ call[t].done = "all" /\ FutureOk(t)

(* The answer is not a DbResult::Other, or cannot be encoded. *)
Unimplemented(t) == Request(t) /\ LateErr(t) /\ UNCHANGED <<feedVars, stream>>

Respond(t) ==
    /\ Request(t)
    /\ \E len \in 1..MaxCode : Succeed(t, len, "owned")
    /\ UNCHANGED <<feedVars, stream>>

HandStream(t) ==
    /\ call[t].op = "notifications"
    /\ Succeed(t, 1, "owned")
    /\ stream' = [stream EXCEPT ![t] = call[t].h]
    /\ UNCHANGED feedVars

(* The datastore sends a notification when the channel has room. *)
Notify(h) ==
    /\ owed[h] > 0 /\ Len(chan[h]) < Capacity
    /\ owed' = [owed EXCEPT ![h] = @ - 1]
    /\ sent' = [sent EXCEPT ![h] = @ + 1]
    /\ chan' = [chan EXCEPT ![h] = Append(@, sent'[h])]
    /\ UNCHANGED <<harnessVars, note, stream>>

--------------------------------------------------------------------------------
(* sr_rpc_stream_next and sr_rpc_stream_free. *)

next(t) ==
    /\ Running(t, "idle")
    /\ stream[t] # "none"
    /\ call' = [call EXCEPT ![t] = NewCall("block_on", "next", stream[t], "null", TRUE, 0)]
    /\ UNCHANGED <<process, life, ps, fatal, err, out, lost, feedVars, stream>>

(* A thread inside next is at `stage`. *)
Receiving(t, stage) == Running(t, stage) /\ call[t].op = "next"

(* recv_blocking takes the oldest notification. *)
Receive(t) ==
    LET h == call[t].h IN
    /\ Receiving(t, "block_on")
    /\ chan[h] # <<>>
    /\ note' = [note EXCEPT ![t] = Head(chan[h])]
    /\ chan' = [chan EXCEPT ![h] = Tail(@)]
    /\ Goto(t, "resolved")
    /\ UNCHANGED <<process, life, ps, fatal, err, out, lost, owed, sent, stream>>

(* Variants: what is left in the channel is given up; its close wakes nobody. *)
GoneAtOnce(h) == life[h] = "freed"
GoneUnnoticed(h) == FALSE

(* The sending end was dropped and what it sent is taken. *)
Gone(h) == life[h] = "freed" /\ chan[h] = <<>>

(* recv_blocking fails: SR_CLOSED. *)
Closed(t) ==
    /\ Receiving(t, "block_on")
    /\ Gone(call[t].h)
    /\ ReturnCode(t, SR_CLOSED)
    /\ UNCHANGED <<process, life, ps, fatal, err, out, lost, feedVars, stream>>

(* Variant: the length counts a terminator. *)
EncodedTerminated(t) ==
    /\ Receiving(t, "resolved")
    /\ \E len \in 1..MaxCode : Succeed(t, len + 1, "owned")
    /\ UNCHANGED <<feedVars, stream>>

(* The bytes are written through res_ptr and their length is the code. *)
Encoded(t) ==
    /\ Receiving(t, "resolved")
    /\ \E len \in 1..MaxCode : Succeed(t, len, "owned")
    /\ UNCHANGED <<feedVars, stream>>

(* Variants: the bytes are written first; the error is not looked at. *)
NotEncodedButWritten(t) ==
    /\ Receiving(t, "resolved")
    /\ ReturnCode(t, SR_ERROR)
    /\ out' = [out EXCEPT ![t] = "owned"]
    /\ lost' = (lost \/ out[t] = "owned")
    /\ UNCHANGED <<process, life, ps, fatal, err, feedVars, stream>>
NotEncodedUnnoticed(t) ==
    /\ Receiving(t, "resolved")
    /\ ReturnCode(t, 1)
    /\ UNCHANGED <<process, life, ps, fatal, err, out, lost, feedVars, stream>>

(* The encoding fails: SR_ERROR, and the notification is dropped. *)
NotEncoded(t) ==
    /\ Receiving(t, "resolved")
    /\ ReturnCode(t, SR_ERROR)
    /\ UNCHANGED <<process, life, ps, fatal, err, out, lost, feedVars, stream>>

stream_free(t) ==
    /\ Running(t, "idle")
    /\ stream[t] # "none"
    /\ stream' = [stream EXCEPT ![t] = "none"]
    /\ UNCHANGED <<harnessVars, feedVars>>

(* The program is done with what a call handed over. *)
GiveBack(t) ==
    /\ Collect(t)
    /\ note' = [note EXCEPT ![t] = 0]
    /\ UNCHANGED <<owed, sent, chan, stream>>

--------------------------------------------------------------------------------
Quietly(A) == A /\ UNCHANGED <<feedVars, stream>>

Step(t) ==
    \/ Quietly(Enter(t))
    \/ Serve(t)
    \/ Quietly(Resolve(t))
    \/ Quietly(InHarness(t) /\ (FutureErr(t) \/ Panic(t)))
    \/ Unimplemented(t)
    \/ Respond(t) \/ HandStream(t) \/ Quietly(Connected(t))
    \/ Quietly(Report(t))
    \/ Receive(t) \/ Closed(t) \/ Encoded(t) \/ NotEncoded(t)
    \/ GiveBack(t)

Next ==
    \/ \E t \in Thread :
        \/ \E h \in Handle : new(t, h) \/ execute(t, h) \/ notifications(t, h) \/ rpc_free(t, h)
        \/ next(t) \/ stream_free(t)
        \/ Step(t)
    \/ \E h \in Handle : Notify(h)

(* Threads are scheduled, the datastore's futures resolve.  Nothing is       *)
(* assumed of the program or of when the datastore sends.                   *)
Fairness == \A t \in Thread : WF_vars(Step(t))

Spec == Init /\ [][Next]_vars
FairSpec == Spec /\ Fairness

--------------------------------------------------------------------------------
TypeOK ==
    /\ HarnessTypeOK
    /\ owed \in [Handle -> 0..MaxNotes]
    /\ sent \in [Handle -> 0..MaxNotes]
    /\ chan \in [Handle -> Seq(1..MaxNotes)]
    /\ \A h \in Handle : Len(chan[h]) <= Capacity /\ owed[h] + sent[h] <= MaxNotes
    /\ stream \in [Thread -> Handle \cup {"none"}]
    /\ note \in [Thread -> 0..MaxNotes]

(* Properties *)

(* A program that frees what the code of each call says it got, bytes of    *)
(* execute and of next alike in one variable, never frees what it does not   *)
(* own, also when contexts are freed under threads that wait on streams.    *)
MemorySafe == process = "running"

(* Nor does a call overwrite bytes or an error string still to be freed. *)
NothingLost == ~lost

(* How a context and its readers look as a feed. *)
Taken(h) == sent[h] - Len(chan[h])
Asked(t) == IF call[t].op = "next" THEN call[t].h ELSE "none"
News(t) ==
    IF call[t].op # "next" \/ pc(t) = "block_on" THEN "nothing"
    ELSE IF call[t].ret = SR_CLOSED THEN "closed"
    ELSE IF call[t].ret = SR_ERROR THEN "error" ELSE "notification"
Told(t) ==
    [is |-> News(t), no |-> IF News(t) \in {"notification", "error"} THEN note[t] ELSE 0]

(* All streams of a context together are one feed: threads that wait on     *)
(* different streams never get the same notification, each gets them in the *)
(* order they were sent, only an encoding error loses one, and SR_CLOSED     *)
(* comes only after the context was freed and the last one was taken.       *)
Feed == INSTANCE NotificationFeed WITH
    Reader <- Thread,
    Feed   <- Handle,
    open   <- [h \in Handle |-> life[h] = "open"],
    bad    <- [h \in Handle |-> {}],
    taken  <- [h \in Handle |-> Taken(h)],
    asks   <- [t \in Thread |-> Asked(t)],
    told   <- [t \in Thread |-> Told(t)]

KeepsFeed == Feed!Spec

(* Once a context is freed, every thread that waits on one of its streams   *)
(* gets an answer, however many wait.                                       *)
ReadersWake ==
    \A t \in Thread :
        Receiving(t, "block_on") /\ life[call[t].h] = "freed" ~> ~Receiving(t, "block_on")
================================================================================
