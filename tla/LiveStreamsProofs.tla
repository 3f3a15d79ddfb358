--------------------------- MODULE LiveStreamsProofs ---------------------------
(* Theorems about LiveStreams, for any threads, listeners, handles and bounds. *)
EXTENDS LiveStreams, SurrealProofs, SequenceTheorems

(* A step of the program and its streams is a step of the program, the       *)
(* handing over of a stream, or no step of the program.                     *)
LEMMA LiveStepShape ==
    ASSUME [LiveNext]_liveVars
    PROVE  [Next]_vars \/ \E t \in Thread, l \in Listener : hand_over(t, l)
<1>1. ASSUME NEW l \in Listener,
             Send(l) \/ QueryEnds(l) \/ stream_next(l) \/ stream_kill(l) \/ StreamStep(l)
      PROVE  UNCHANGED vars
  BY <1>1 DEF Send, QueryEnds, stream_next, stream_kill, StreamStep, NextItem, NoItemEver, Heard
<1>2. ASSUME NEW t \in Thread, NEW h \in Handle, connect(t, h) \/ disconnect_feeds(t, h)
      PROVE  Next
  BY <1>2 DEF disconnect_feeds, Next
<1>3. ASSUME NEW t \in Thread, NEW h \in Handle, NEW o \in Op, Start(t, h, o)
      PROVE  Next
  BY <1>3 DEF Next
<1>4. ASSUME NEW t \in Thread, Step(t)
      PROVE  Next
  BY <1>4 DEF Next
<1>5. CASE UNCHANGED liveVars
  BY <1>5 DEF liveVars
<1> QED
  BY <1>1, <1>2, <1>3, <1>4, <1>5 DEF LiveNext

(* Types. *)
LEMMA LiveTypeInductive ==
    ASSUME TypeOK, [LiveNext]_liveVars
    PROVE  TypeOK'
<1>1. ASSUME NEW t \in Thread, NEW l \in Listener, hand_over(t, l)
      PROVE  TypeOK'
  BY <1>1, NoCallShape DEF hand_over, TypeOK, HarnessTypeOK, Cell
<1> QED
  BY <1>1, LiveStepShape, TypeInductive

LEMMA StreamTypeInductive ==
    ASSUME TypeOK, StreamTypeOK, [LiveNext]_liveVars
    PROVE  StreamTypeOK'
<1> USE ListenerAssumption DEF StreamTypeOK
<1>0. CASE UNCHANGED streamVars
  BY <1>0 DEF streamVars
<1>1. ASSUME NEW t \in Thread, NEW l \in Listener, hand_over(t, l)
      PROVE  StreamTypeOK'
  <2>1. call[t].h \in Handle /\ call[t].h # "none"
    BY DEF TypeOK, HarnessTypeOK, Calls
  <2> QED
    BY <1>1, <2>1 DEF hand_over
<1>2. ASSUME NEW t \in Thread, NEW h \in Handle, disconnect_feeds(t, h)
      PROVE  StreamTypeOK'
  BY <1>2 DEF disconnect_feeds
<1>3. ASSUME NEW l \in Listener, Send(l)
      PROVE  StreamTypeOK'
  <2>4. sent' = [sent EXCEPT ![l] = @ + 1] /\ sent[l] < MaxNotes /\ UNCHANGED <<source, feeding, hears>>
        /\ feeding[l]
    BY <1>3 DEF Send
  <2>0. sent'[l] \in 1..MaxNotes
    BY <2>4
  <2>1. PICK item \in Items : queue' = [queue EXCEPT ![l] = Append(@, item)]
    BY <1>3, <2>0 DEF Send, Item, Items
  <2>2. PICK more : more = Append(queue[l], item)
    OBVIOUS
  <2>3. more \in Seq(Items) /\ Len(more) = Len(queue[l]) + 1 /\ Len(queue[l]) \in Nat
    BY <2>2
  <2>5. sent' \in [Listener -> 0..MaxNotes] /\ queue' \in [Listener -> Seq(Items)]
    BY <2>1, <2>2, <2>3, <2>4
  <2>6. \A k \in Listener : Len(queue'[k]) <= sent'[k]
    BY <2>1, <2>2, <2>3, <2>4
  <2> QED
    BY <2>4, <2>5, <2>6
<1>4. ASSUME NEW l \in Listener, QueryEnds(l) \/ stream_next(l) \/ Heard(l) \/ NoItemEver(l)
      PROVE  StreamTypeOK'
  <2>1. CASE QueryEnds(l)
    BY <2>1 DEF QueryEnds
  <2>2. CASE stream_next(l) \/ Heard(l) \/ NoItemEver(l)
    <3>1. PICK stage \in {"idle", "waiting", "told"}, ret \in {1, SR_NONE, SR_ERROR} :
            hears' = [hears EXCEPT ![l] = Hearing(stage, ret, 0)]
      BY <2>2 DEF stream_next, Heard, NoItemEver, Reply, Quiet, SR_NONE
    <3>2. UNCHANGED <<source, feeding, sent, queue>>
      BY <2>2 DEF stream_next, Heard, NoItemEver
    <3> QED
      BY <3>1, <3>2 DEF Hearing
  <2> QED
    BY <1>4, <2>1, <2>2
<1>5. ASSUME NEW l \in Listener, NextItem(l)
      PROVE  StreamTypeOK'
  <2>1. PICK rest : rest = Tail(queue[l])
    OBVIOUS
  <2>2. queue[l] # <<>> /\ queue' = [queue EXCEPT ![l] = rest] /\ UNCHANGED <<source, feeding, sent>>
    BY <1>5, <2>1 DEF NextItem
  <2>3. rest \in Seq(Items) /\ Len(rest) = Len(queue[l]) - 1 /\ Len(queue[l]) \in Nat
    BY <2>1, <2>2
  <2>0. Head(queue[l]) \in Items
    BY <2>2
  <2>4. hears' \in [Listener -> [pc : {"idle", "waiting", "told"},
                                 ret : {1, SR_NONE, SR_ERROR}, no : 0..MaxNotes]]
    BY <1>5, <2>0 DEF NextItem, Reply, Hearing, Outcome, Items
  <2>5. queue' \in [Listener -> Seq(Items)] /\ \A k \in Listener : Len(queue'[k]) <= sent[k]
    BY <2>2, <2>3
  <2> QED
    BY <2>2, <2>4, <2>5
<1>6. ASSUME NEW l \in Listener, stream_kill(l)
      PROVE  StreamTypeOK'
  BY <1>6 DEF stream_kill
<1> QED
  BY <1>0, <1>1, <1>2, <1>3, <1>4, <1>5, <1>6 DEF LiveNext, StreamStep, liveVars, streamVars

(* Every reachable state is well typed; in particular a stream that nobody   *)
(* has is fed by nothing and holds nothing.                                 *)
THEOREM StreamTypeCorrect == LiveSpec => [](TypeOK /\ StreamTypeOK)
<1>1. LiveInit => TypeOK
  <2> SUFFICES ASSUME LiveInit PROVE TypeOK
    OBVIOUS
  <2>1. HarnessTypeOK
    BY HarnessTypeInit DEF LiveInit, Init
  <2> QED
    BY <2>1 DEF LiveInit, Init, NoToken, TypeOK, Cell
<1>2. LiveInit => StreamTypeOK
  BY ListenerAssumption DEF LiveInit, StreamTypeOK, Quiet, Hearing, SR_NONE, SR_ERROR
<1>3. TypeOK /\ StreamTypeOK /\ [LiveNext]_liveVars => TypeOK' /\ StreamTypeOK'
  BY LiveTypeInductive, StreamTypeInductive
<1> QED
  BY <1>1, <1>2, <1>3, PTL DEF LiveSpec

--------------------------------------------------------------------------------
(* The memory of the callers. *)

(* A stream is an allocation, never the empty array: what may be handed over *)
(* is there.                                                                *)
StreamIsBoxed ==
    \A t \in Thread : pc(t) = "returned" /\ call[t].op = "select_live" => out[t] # "empty"

LEMMA StreamIsBoxedInductive ==
    ASSUME TypeOK, CallerMemory, StreamIsBoxed, [LiveNext]_liveVars
    PROVE  StreamIsBoxed'
<1> USE DEF TypeOK, HarnessTypeOK
<1> DEFINE Boxed1(t) == pc(t) = "returned" /\ call[t].op = "select_live" => out[t] # "empty"
<1>a. ASSUME NEW t \in Thread, \A u \in Thread \ {t} : call'[u] = call[u] /\ out'[u] = out[u],
             Boxed1(t)'
      PROVE  StreamIsBoxed'
  BY <1>a DEF StreamIsBoxed, pc
<1>b. ASSUME NEW t \in Thread
      PROVE  call[t] \in Calls /\ OwnedByCaller(t) /\ Boxed1(t)
  BY DEF CallerMemory, StreamIsBoxed
<1>0. CASE UNCHANGED <<call, out>>
  BY <1>0 DEF StreamIsBoxed, pc
(* A thread whose call has not handed over a stream. *)
<1>1. ASSUME NEW t \in Thread, \A u \in Thread \ {t} : call'[u] = call[u] /\ out'[u] = out[u],
             call'[t].op # "select_live" \/ call'[t].pc # "returned" \/ out'[t] # "empty"
      PROVE  StreamIsBoxed'
  BY <1>1, <1>a DEF pc
<1> HIDE DEF Boxed1
<1>2. ASSUME NEW t \in Thread, NEW h \in Handle, NEW o \in Op \cup {"connect"}, NEW ep, check_null(t, h, o, ep)
      PROVE  StreamIsBoxed'
  <2>1. out'[t] # "empty" /\ \A u \in Thread \ {t} : call'[u] = call[u] /\ out'[u] = out[u]
    BY <1>2, <1>b DEF check_null, Running, OwnedByCaller, Handed
  <2> QED
    BY <1>1, <2>1
<1>3. ASSUME NEW t \in Thread, NEW h \in Handle, NEW o, NEW ep, NEW w,
             Connect(t, h, ep) \/ Invoke(t, h, o, ep, w)
      PROVE  StreamIsBoxed'
  BY <1>1, <1>3 DEF Connect, Invoke, NewCall
<1>4. ASSUME NEW t \in Thread,
             Enter(t) \/ Serve(t) \/ FutureErr(t) \/ LateErr(t) \/ Panic(t) \/ Resolve(t)
      PROVE  StreamIsBoxed'
  <2>1. out' = out /\ pc(t) # "returned"
    BY <1>4 DEF Enter, Serve, TakeEffect, FutureErr, LateErr, Panic, Resolve, FutureOk, Running
  <2>2. out'[t] # "empty"
    BY <1>b, <2>1 DEF OwnedByCaller, Handed
  <2>3. \A u \in Thread \ {t} : call'[u] = call[u]
    BY <1>4 DEF Enter, Serve, TakeEffect, FutureErr, LateErr, Panic, Resolve, FutureOk, Goto
  <2> QED
    BY <1>1, <2>1, <2>2, <2>3
<1>5. ASSUME NEW t \in Thread, AssignToken(t) \/ Connected(t) \/ Report(t)
      PROVE  StreamIsBoxed'
  <2>1. out' = out /\ pc(t) # "returned"
    BY <1>5 DEF AssignToken, Connected, Report, Running
  <2>2. out'[t] # "empty"
    BY <1>b, <2>1 DEF OwnedByCaller, Handed
  <2>3. \A u \in Thread \ {t} : call'[u] = call[u]
    BY <1>5 DEF AssignToken, Connected, Report, ReturnCode
  <2> QED
    BY <1>1, <2>1, <2>2, <2>3
<1>6. ASSUME NEW t \in Thread, NEW code \in Codes(call[t].op, call[t].want), call[t].op \in Op,
             Succeed(t, code, Content(call[t].op, code))
      PROVE  StreamIsBoxed'
  <2>1. /\ pc(t) # "returned" /\ \A u \in Thread \ {t} : call'[u] = call[u] /\ out'[u] = out[u]
        /\ out'[t] = IF call[t].want THEN Content(call[t].op, code) ELSE out[t]
    BY <1>6 DEF Succeed, Running, ReturnCode
  <2>2. code \in Int
    BY <1>6, <1>b, RowCodes, HarnessAssumption DEF Calls
  <2>3. call'[t].op = call[t].op
    BY <1>6, <2>2, Returned DEF Succeed
  <2>4. Row["select_live"].out = "boxed"
    BY DEF Row, select_live, Boxed
  <2>5. call[t].op = "select_live" => Content(call[t].op, code) = "owned"
    BY <2>4 DEF Content
  <2>6. out[t] # "empty"
    BY <1>b, <2>1 DEF OwnedByCaller, Handed
  <2> QED
    BY <1>1, <2>1, <2>3, <2>5, <2>6
<1>7. ASSUME NEW t \in Thread, Answer(t)
      PROVE  StreamIsBoxed'
  BY <1>4, <1>5, <1>6, <1>7 DEF Answer, Misfit
<1>8. ASSUME NEW t \in Thread, GiveBack(t) \/ \E l \in Listener : hand_over(t, l)
      PROVE  StreamIsBoxed'
  <2>1. call' = [call EXCEPT ![t] = NoCall] /\ \A u \in Thread \ {t} : out'[u] = out[u]
    BY <1>8 DEF GiveBack, CollectToken, Collect, hand_over
  <2>2. call'[t].op = "none"
    BY <2>1 DEF NoCall, NewCall
  <2> QED
    BY <1>1, <2>1, <2>2
<1>9. ASSUME NEW t \in Thread, NEW h \in Handle, connect(t, h) \/ disconnect(t, h)
      PROVE  StreamIsBoxed'
  BY <1>0, <1>2, <1>3, <1>9 DEF connect, disconnect, Disconnect
<1>10. ASSUME NEW t \in Thread, NEW h \in Handle, NEW o \in Op, Start(t, h, o)
       PROVE  StreamIsBoxed'
  BY <1>2, <1>3, <1>10 DEF Start
<1>11. ASSUME NEW t \in Thread, Step(t)
       PROVE  StreamIsBoxed'
  BY <1>4, <1>5, <1>7, <1>8, <1>11 DEF Step
<1>12. CASE Next
  BY <1>9, <1>10, <1>11, <1>12 DEF Next
<1>13. CASE UNCHANGED vars
  BY <1>0, <1>13 DEF vars, harnessVars
<1> QED
  BY <1>8, <1>12, <1>13, LiveStepShape

(* Handing a stream to a listener leaves the thread owning nothing. *)
LEMMA LiveCallerMemoryInductive ==
    ASSUME TypeOK, ErrPtr = {"valid"}, TidyToken = TRUE, CallerMemory, StreamIsBoxed,
           [LiveNext]_liveVars
    PROVE  CallerMemory'
<1>1. ASSUME NEW t \in Thread, NEW l \in Listener, hand_over(t, l)
      PROVE  CallerMemory'
  <2> USE DEF TypeOK, HarnessTypeOK
  <2>1. /\ pc(t) = "returned" /\ call[t].op = "select_live" /\ FreesOut(call[t])
        /\ call' = [call EXCEPT ![t] = NoCall] /\ out' = [out EXCEPT ![t] = "stale"]
        /\ UNCHANGED <<ps, err, lost, tok>>
    BY <1>1 DEF hand_over, Running
  <2>2. OwnedByCaller(t) /\ ~IsLogin(call[t].op)
    BY <2>1 DEF CallerMemory, IsLogin
  <2>3. out[t] = "owned"
    BY <2>1, <2>2 DEF OwnedByCaller, Handed, StreamIsBoxed
  <2>4. process' = "running"
    BY <1>1, <2>3 DEF hand_over
  <2>5. err[t] # "owned" /\ tok[t] = "null"
    <3>1. call[t].ret \in Int /\ call[t].ret >= 0
      BY <2>1, HarnessAssumption DEF FreesOut, Calls, SR_FATAL
    <3>2. ~(call[t].ret < 0)
      BY <3>1
    <3>3. err[t] # "owned"
      BY <2>2, <3>2, Zenon DEF OwnedByCaller
    <3>4. tok[t] = "null"
      BY <2>2, Zenon DEF OwnedByCaller
    <3> QED
      BY <3>3, <3>4
  <2>6. OwnedByCaller(t)'
    BY <2>1, <2>5 DEF OwnedByCaller, Handed, pc, NoCall, NewCall, FreesOut, IsLogin
  <2>7. ASSUME NEW u \in Thread, u # t PROVE OwnedByCaller(u)'
    BY <2>1, <2>7, OthersKeep DEF CallerMemory
  <2> QED
    BY <2>1, <2>4, <2>6, <2>7 DEF CallerMemory, MemorySafe
<1> QED
  BY <1>1, LiveStepShape, CallerMemoryInductive

(* What CallersNeverMisfree says of the calls holds with streams beside them: *)
(* a stream that one thread makes and another kills is owned by one of them.  *)
THEOREM StreamCallersNeverMisfree ==
    ASSUME ErrPtr = {"valid"}, TidyToken = TRUE
    PROVE  LiveSpec => [](MemorySafe /\ NothingLost /\ AnswersAgree)
<1>1. LiveInit => CallerMemory /\ StreamIsBoxed
  <2>1. LiveInit => CallerMemory
    BY CallerMemoryInit DEF LiveInit
  <2>2. LiveInit => StreamIsBoxed
    BY DEF LiveInit, Init, HarnessInit, StreamIsBoxed
  <2> QED
    BY <2>1, <2>2
<1>2. TypeOK /\ CallerMemory /\ StreamIsBoxed /\ [LiveNext]_liveVars => CallerMemory' /\ StreamIsBoxed'
  BY LiveCallerMemoryInductive, StreamIsBoxedInductive
<1>3. CallerMemory => MemorySafe /\ NothingLost /\ AnswersAgree
  BY DEF CallerMemory, MemorySafe, NothingLost, AnswersAgree, Delivered,
         OwnedByCaller, Handed, FreesOut
<1> QED
  BY <1>1, <1>2, <1>3, StreamTypeCorrect, PTL DEF LiveSpec

--------------------------------------------------------------------------------
(* The feeds. *)

(* The items not read yet carry the numbers that come next, in order, and a   *)
(* listener holds a number only while it is told of an item.                *)
QueueInOrder(l) == \A i \in 1..Len(queue[l]) : queue[l][i].no = Taken(l) + i
NumberOfItem(l) == hears[l].pc # "told" \/ hears[l].ret = SR_NONE => hears[l].no = 0

StreamOrder == \A l \in Listener : QueueInOrder(l) /\ NumberOfItem(l)

Bad(q) == {q[i].no : i \in {j \in 1..Len(q) : ~q[j].decoded}}

(* What an item that comes adds to the undecoded ones, *)
LEMMA BadAppended ==
    ASSUME NEW S, NEW q \in Seq(S), NEW item \in S
    PROVE  Bad(Append(q, item)) = Bad(q) \cup (IF item.decoded THEN {} ELSE {item.no})
<1> DEFINE more == Append(q, item)
<1>1. Len(q) \in Nat /\ Len(more) = Len(q) + 1 /\ more[Len(q) + 1] = item
  OBVIOUS
<1>2. \A i \in 1..Len(q) : more[i] = q[i]
  OBVIOUS
<1> HIDE DEF more
<1>3. 1..Len(more) = 1..Len(q) \cup {Len(q) + 1} /\ Len(q) + 1 \in 1..Len(more)
  BY <1>1
<1>4. ASSUME NEW n, n \in Bad(more)
      PROVE  n \in Bad(q) \cup (IF item.decoded THEN {} ELSE {item.no})
  <2>1. PICK i \in 1..Len(more) : ~more[i].decoded /\ n = more[i].no
    BY <1>4 DEF Bad
  <2>2. CASE i \in 1..Len(q)
    BY <1>2, <2>1, <2>2 DEF Bad
  <2>3. CASE i = Len(q) + 1
    BY <1>1, <2>1, <2>3
  <2> QED
    BY <1>3, <2>2, <2>3
<1>5. ASSUME NEW n, n \in Bad(q) PROVE n \in Bad(more)
  <2>1. PICK i \in 1..Len(q) : ~q[i].decoded /\ n = q[i].no
    BY <1>5 DEF Bad
  <2> QED
    BY <1>2, <1>3, <2>1 DEF Bad
<1>6. ~item.decoded => item.no \in Bad(more)
  BY <1>1, <1>3 DEF Bad
<1> QED
  BY <1>4, <1>5, <1>6 DEF more

(* and what the first one takes away when they are in order.                *)
LEMMA BadTaken ==
    ASSUME NEW S, NEW q \in Seq(S), q # <<>>, NEW k \in Nat,
           \A i \in 1..Len(q) : q[i].no = k + i
    PROVE  /\ Head(q).no = k + 1
           /\ \A i \in 1..Len(Tail(q)) : Tail(q)[i].no = k + 1 + i
           /\ k + 1 \in Bad(q) <=> ~Head(q).decoded
           /\ Bad(Tail(q)) = Bad(q) \ {k + 1}
<1> DEFINE rest == Tail(q)
<1>1. PICK n \in Nat : n = Len(q) /\ n > 0 /\ Len(rest) = n - 1 /\ Head(q) = q[1]
  OBVIOUS
<1>2. \A i \in 1..Len(rest) : rest[i] = q[i + 1]
  OBVIOUS
<1> HIDE DEF rest
<1>3. Head(q).no = k + 1
  BY <1>1
<1>4. \A i \in 1..(n - 1) : i + 1 \in 1..n /\ rest[i] = q[i + 1] /\ rest[i].no = k + 1 + i
  <2>1. ASSUME NEW i \in 1..(n - 1)
        PROVE  i + 1 \in 1..n /\ rest[i] = q[i + 1] /\ rest[i].no = k + 1 + i
    <3>1. i + 1 \in 1..n /\ k + (i + 1) = k + 1 + i
      OBVIOUS
    <3>2. rest[i] = q[i + 1]
      BY <1>1, <1>2
    <3>3. q[i + 1].no = k + (i + 1)
      BY <1>1, <3>1
    <3> QED
      BY <3>1, <3>2, <3>3
  <2> QED
    BY <2>1
<1>5. k + 1 \in Bad(q) <=> ~Head(q).decoded
  <2>1. ASSUME k + 1 \in Bad(q) PROVE ~Head(q).decoded
    <3>1. PICK i \in 1..n : ~q[i].decoded /\ k + 1 = q[i].no
      BY <1>1, <2>1 DEF Bad
    <3>2. q[i].no = k + i
      BY <1>1
    <3>3. i = 1
      BY <3>1, <3>2
    <3> QED
      BY <1>1, <3>1, <3>3
  <2>2. ASSUME ~Head(q).decoded PROVE k + 1 \in Bad(q)
    <3>1. 1 \in 1..n
      BY <1>1
    <3> QED
      BY <1>1, <1>3, <2>2, <3>1 DEF Bad
  <2> QED
    BY <2>1, <2>2
<1>6. ASSUME NEW m, m \in Bad(rest) PROVE m \in Bad(q) /\ m # k + 1
  <2>1. PICK i \in 1..(n - 1) : ~rest[i].decoded /\ m = rest[i].no
    BY <1>1, <1>6 DEF Bad
  <2>2. i + 1 \in 1..n /\ rest[i] = q[i + 1] /\ m = k + 1 + i
    BY <1>4, <2>1
  <2>3. m \in Bad(q)
    BY <1>1, <2>1, <2>2 DEF Bad
  <2> QED
    BY <2>2, <2>3
<1>7. ASSUME NEW m, m \in Bad(q), m # k + 1 PROVE m \in Bad(rest)
  <2>1. PICK i \in 1..n : ~q[i].decoded /\ m = q[i].no
    BY <1>1, <1>7 DEF Bad
  <2>2. q[i].no = k + i
    BY <1>1
  <2>3. i # 1
    BY <1>7, <2>1, <2>2
  <2>4. PICK j \in 1..(n - 1) : i = j + 1
    <3>1. i - 1 \in 1..(n - 1) /\ i = (i - 1) + 1
      BY <2>3
    <3> QED
      BY <3>1
  <2>5. rest[j] = q[i]
    BY <1>4, <2>4
  <2> QED
    BY <1>1, <2>1, <2>4, <2>5 DEF Bad
<1>8. Bad(rest) = Bad(q) \ {k + 1}
  BY <1>6, <1>7
<1>9. \A i \in 1..Len(rest) : rest[i].no = k + 1 + i
  BY <1>1, <1>4
<1> QED
  BY <1>3, <1>5, <1>8, <1>9 DEF rest

(* No step of a listener, a stream or the program takes items out of order.  *)
LEMMA StreamOrderInductive ==
    ASSUME StreamTypeOK, StreamOrder, [LiveNext]_liveVars
    PROVE  StreamOrder'
<1> USE ListenerAssumption DEF StreamTypeOK
<1>a. ASSUME NEW l \in Listener
      PROVE  /\ queue[l] \in Seq(Items) /\ Len(queue[l]) \in Nat /\ sent[l] \in Nat
             /\ Len(queue[l]) <= sent[l] /\ QueueInOrder(l) /\ NumberOfItem(l)
  BY DEF StreamOrder
<1>0. ASSUME NEW l \in Listener, sent'[l] = sent[l], queue'[l] = queue[l], hears'[l] = hears[l]
      PROVE  QueueInOrder(l)' /\ NumberOfItem(l)'
  BY <1>0, <1>a DEF QueueInOrder, NumberOfItem, Taken
<1>1. ASSUME UNCHANGED <<sent, queue, hears>> PROVE StreamOrder'
  BY <1>0, <1>1 DEF StreamOrder
<1>2. ASSUME NEW l \in Listener, QueueInOrder(l)' /\ NumberOfItem(l)',
             \A k \in Listener \ {l} :
                sent'[k] = sent[k] /\ queue'[k] = queue[k] /\ hears'[k] = hears[k]
      PROVE  StreamOrder'
  <2>1. ASSUME NEW k \in Listener PROVE QueueInOrder(k)' /\ NumberOfItem(k)'
    <3>1. CASE k = l
      BY <1>2, <3>1
    <3>2. CASE k # l
      BY <1>0, <1>2, <3>2
    <3> QED
      BY <3>1, <3>2
  <2> QED
    BY <2>1 DEF StreamOrder
<1>3. ASSUME NEW l \in Listener, Send(l) PROVE StreamOrder'
  <2>2. /\ sent' = [sent EXCEPT ![l] = @ + 1] /\ hears' = hears
        /\ sent'[l] = sent[l] + 1
    BY <1>3 DEF Send
  <2>0. PICK d \in BOOLEAN : queue' = [queue EXCEPT ![l] = Append(@, Item(sent'[l], d))]
    BY <1>3 DEF Send
  <2>a. PICK item : item = Item(sent'[l], d)
    OBVIOUS
  <2>1. queue' = [queue EXCEPT ![l] = Append(@, item)] /\ item.no = sent[l] + 1
    BY <2>0, <2>2, <2>a DEF Item
  <2>3. PICK n \in Nat, k \in Nat : n = Len(queue[l]) /\ k = sent[l] /\ n <= k
    BY <1>a
  <2>4. PICK more : more = Append(queue[l], item)
    OBVIOUS
  <2>5. /\ Len(more) = n + 1 /\ more[n + 1] = item
        /\ \A i \in 1..n : more[i] = queue[l][i]
    BY <1>a, <2>3, <2>4
  <2>6. queue'[l] = more /\ sent'[l] = k + 1
    BY <2>1, <2>2, <2>3, <2>4
  <2>7. ASSUME NEW i \in 1..(n + 1) PROVE more[i].no = (k + 1 - (n + 1)) + i
    <3>1. CASE i = n + 1
      BY <2>1, <2>3, <2>5, <3>1
    <3>2. CASE i # n + 1
      <4>1. i \in 1..n /\ (k + 1 - (n + 1)) + i = (k - n) + i
        BY <3>2
      <4>2. queue[l][i].no = (k - n) + i
        BY <1>a, <2>3, <4>1 DEF QueueInOrder, Taken
      <4> QED
        BY <2>5, <4>1, <4>2
    <3> QED
      BY <3>1, <3>2
  <2>8. QueueInOrder(l)'
    BY <2>5, <2>6, <2>7 DEF QueueInOrder, Taken
  <2>9. NumberOfItem(l)'
    BY <1>a, <2>2 DEF NumberOfItem
  <2> QED
    BY <1>2, <2>1, <2>2, <2>8, <2>9
<1>4. ASSUME NEW l \in Listener, stream_next(l) \/ Heard(l) \/ NoItemEver(l)
      PROVE  StreamOrder'
  <2>1. PICK stage, ret : /\ hears' = [hears EXCEPT ![l] = Hearing(stage, ret, 0)]
                          /\ UNCHANGED <<sent, queue>>
    BY <1>4 DEF stream_next, Heard, Quiet, NoItemEver, Reply
  <2>2. QueueInOrder(l)' /\ NumberOfItem(l)'
    BY <1>a, <2>1 DEF QueueInOrder, NumberOfItem, Taken, Hearing
  <2> QED
    BY <1>2, <2>1, <2>2
<1>5. ASSUME NEW l \in Listener, NextItem(l)
      PROVE  StreamOrder'
  <2>1. /\ queue[l] # <<>> /\ queue' = [queue EXCEPT ![l] = Tail(@)] /\ sent' = sent
        /\ hears' = [hears EXCEPT ![l] =
                        Hearing("told", Outcome(Head(queue[l])), Head(queue[l]).no)]
    BY <1>5 DEF NextItem, Reply
  <2>2. PICK k \in Nat : k = Taken(l)
    BY <1>a DEF Taken
  <2>3. \A i \in 1..Len(Tail(queue[l])) : Tail(queue[l])[i].no = k + 1 + i
    BY <1>a, <2>1, <2>2, BadTaken DEF QueueInOrder
  <2>4. Len(Tail(queue[l])) = Len(queue[l]) - 1
    BY <1>a, <2>1
  <2>5. QueueInOrder(l)'
    <3>1. Taken(l)' = k + 1
      BY <1>a, <2>1, <2>2, <2>4 DEF Taken
    <3> QED
      BY <2>1, <2>3, <3>1 DEF QueueInOrder
  <2>6. NumberOfItem(l)'
    BY <2>1 DEF NumberOfItem, Hearing, Outcome, SR_NONE, SR_ERROR
  <2> QED
    BY <1>2, <2>1, <2>5, <2>6
<1>6. ASSUME NEW l \in Listener, stream_kill(l)
      PROVE  StreamOrder'
  <2>1. /\ hears' = hears /\ sent' = [sent EXCEPT ![l] = 0]
        /\ queue' = [queue EXCEPT ![l] = <<>>]
    BY <1>6 DEF stream_kill
  <2>2. QueueInOrder(l)' /\ NumberOfItem(l)'
    BY <1>a, <2>1 DEF QueueInOrder, NumberOfItem
  <2> QED
    BY <1>2, <2>1, <2>2
<1>7. ASSUME NEW l \in Listener, QueryEnds(l) PROVE StreamOrder'
  BY <1>1, <1>7 DEF QueryEnds
<1>8. ASSUME NEW t \in Thread, NEW h, NEW l,
             disconnect_feeds(t, h) \/ hand_over(t, l)
      PROVE  StreamOrder'
  BY <1>1, <1>8 DEF disconnect_feeds, hand_over
<1>9. CASE UNCHANGED streamVars
  BY <1>1, <1>9 DEF streamVars
<1> QED
  BY <1>3, <1>4, <1>5, <1>6, <1>7, <1>8, <1>9 DEF LiveNext, StreamStep, liveVars, streamVars

LEMMA StreamFeedStep ==
    ASSUME TypeOK, StreamTypeOK, StreamOrder, StreamOrder', [LiveNext]_liveVars
    PROVE  [StreamFeed!Next]_StreamFeed!vars
<1> USE ListenerAssumption DEF StreamTypeOK
<1> DEFINE Abstract == [StreamFeed!Next]_StreamFeed!vars
           taken == [l \in Listener |-> Taken(l)]
           asks == [l \in Listener |-> Asked(l)]
           told == [l \in Listener |-> Heed(l)]
           bad == [l \in Listener |-> Undecoded(l)]
<1>q. ASSUME NEW l \in Listener
      PROVE  /\ queue[l] \in Seq(Items) /\ Len(queue[l]) \in Nat /\ sent[l] \in Nat
             /\ Len(queue[l]) <= sent[l] /\ QueueInOrder(l)
             /\ NumberOfItem(l) /\ NumberOfItem(l)'
             /\ Undecoded(l) = Bad(queue[l]) /\ Undecoded(l)' = Bad(queue'[l])
  BY <1>q DEF StreamOrder, Undecoded, Bad
<1>0. ASSUME UNCHANGED streamVars PROVE Abstract
  <2>1. taken' = taken /\ asks' = asks /\ told' = told /\ bad' = bad
    BY <1>0 DEF streamVars, Taken, Asked, Heed, News, Undecoded
  <2> QED
    BY <1>0, <2>1 DEF streamVars, StreamFeed!vars
<1>1. ASSUME UNCHANGED <<sent, queue, hears>>
      PROVE  taken' = taken /\ asks' = asks /\ told' = told /\ bad' = bad
  BY <1>1 DEF Taken, Asked, Heed, News, Undecoded
<1>u. ASSUME queue' = queue PROVE bad' = bad
  BY <1>u DEF Undecoded
<1>2. ASSUME NEW t \in Thread, NEW l \in Listener, hand_over(t, l)
      PROVE  Abstract
  <2>1. StreamFeed!Open(l)
    BY <1>1, <1>2 DEF hand_over, StreamFeed!Open
  <2> QED
    BY <2>1 DEF StreamFeed!Next
<1>3. ASSUME NEW t \in Thread, NEW h \in Handle, disconnect_feeds(t, h)
      PROVE  Abstract
  <2>1. PICK F \in SUBSET Listener : F = {l \in Listener : source[l] = h}
    OBVIOUS
  <2>2. feeding' = [l \in Listener |-> feeding[l] /\ l \notin F] /\ UNCHANGED <<sent, queue, hears>>
    BY <1>3, <2>1 DEF disconnect_feeds
  <2>3. StreamFeed!Close(F)
    BY <1>1, <2>2 DEF StreamFeed!Close
  <2> QED
    BY <2>3 DEF StreamFeed!Next
<1>4. ASSUME NEW l \in Listener, QueryEnds(l)
      PROVE  Abstract
  <2>1. feeding' = [k \in Listener |-> feeding[k] /\ k \notin {l}] /\ UNCHANGED <<sent, queue, hears>>
    BY <1>4 DEF QueryEnds
  <2>2. StreamFeed!Close({l})
    BY <1>1, <2>1 DEF StreamFeed!Close
  <2> QED
    BY <2>2 DEF StreamFeed!Next
<1>5. ASSUME NEW l \in Listener, Send(l)
      PROVE  Abstract
  <2>4. /\ sent' = [sent EXCEPT ![l] = @ + 1] /\ feeding[l] /\ sent[l] < MaxNotes
        /\ UNCHANGED <<feeding, hears>>
    BY <1>5 DEF Send
  <2>0. PICK d \in BOOLEAN : queue' = [queue EXCEPT ![l] = Append(@, Item(sent'[l], d))]
    BY <1>5 DEF Send
  <2>a. PICK item : item = Item(sent'[l], d)
    OBVIOUS
  <2>e. sent'[l] \in 1..MaxNotes
    BY <1>q, <2>4
  <2>1. /\ queue' = [queue EXCEPT ![l] = Append(@, item)] /\ item \in Items
        /\ item.no = sent'[l]
    BY <2>0, <2>a, <2>e DEF Item, Items
  <2>2. PICK more : more = Append(queue[l], item)
    OBVIOUS
  <2>3. Len(more) = Len(queue[l]) + 1
    BY <1>q, <2>2
  <2>5. ASSUME NEW k \in Listener PROVE Taken(k)' = Taken(k)
    <3>1. CASE k = l
      BY <1>q, <2>1, <2>2, <2>3, <2>4, <3>1 DEF Taken
    <3>2. CASE k # l
      BY <2>1, <2>4, <3>2 DEF Taken
    <3> QED
      BY <3>1, <3>2
  <2>6. taken' = taken /\ asks' = asks /\ told' = told
    BY <2>4, <2>5 DEF Asked, Heed, News
  <2>b. Undecoded(l)' = Undecoded(l) \/ Undecoded(l)' = Undecoded(l) \cup {sent'[l]}
    <3>1. Undecoded(l)' = Bad(Append(queue[l], item)) /\ Undecoded(l) = Bad(queue[l])
      BY <1>q, <2>1
    <3>2. Bad(Append(queue[l], item))
             = Bad(queue[l]) \cup (IF item.decoded THEN {} ELSE {item.no})
      BY <1>q, <2>1, BadAppended
    <3> QED
      BY <2>1, <3>1, <3>2
  <2>c. \A k \in Listener \ {l} : Undecoded(k)' = Undecoded(k)
    BY <2>1 DEF Undecoded
  <2>d. \/ bad' = bad
        \/ bad' = [bad EXCEPT ![l] = @ \cup {sent'[l]}]
    <3>1. bad' = [bad EXCEPT ![l] = Undecoded(l)']
      BY <2>c, Zenon
    <3>2. bad[l] = Undecoded(l) /\ bad = [bad EXCEPT ![l] = Undecoded(l)]
      BY Zenon
    <3> HIDE DEF bad
    <3> QED
      BY <2>b, <3>1, <3>2
  <2>7. StreamFeed!Send(l)
    BY <2>4, <2>6, <2>d DEF StreamFeed!Send
  <2> QED
    BY <2>7 DEF StreamFeed!Next
(* A step of one listener that only answers or asks. *)
<1>6. ASSUME NEW l \in Listener,
             \A k \in Listener \ {l} : hears'[k] = hears[k] /\ Taken(k)' = Taken(k)
      PROVE  /\ asks' = [asks EXCEPT ![l] = Asked(l)']
             /\ told' = [told EXCEPT ![l] = Heed(l)']
  <2>1. \A k \in Listener \ {l} : Asked(k)' = Asked(k) /\ News(k)' = News(k)
    BY <1>6 DEF Asked, News
  <2>2. \A k \in Listener \ {l} : Heed(k)' = Heed(k)
    BY <1>6, <2>1, Zenon DEF Heed
  <2> QED
    BY <2>1, <2>2, Zenon
<1>w. ASSUME NEW l \in Listener,
             \A k \in Listener \ {l} : hears'[k] = hears[k] /\ Taken(k)' = Taken(k)
      PROVE  /\ Asked(l)' = Asked(l) => asks' = asks
             /\ Heed(l)' = Heed(l) => told' = told
  BY <1>6, <1>w
<1>7. ASSUME NEW l \in Listener, stream_next(l)
      PROVE  Abstract
  <2>1. /\ hears' = [hears EXCEPT ![l] = Hearing("waiting", 0, 0)] /\ hears[l].pc = "idle"
        /\ UNCHANGED <<feeding, sent, queue>>
    BY <1>7 DEF stream_next, Listens
  <2>2. taken' = taken /\ bad' = bad
    BY <1>u, <2>1 DEF Taken
  <2>3. Asked(l) = "none" /\ Asked(l)' = l /\ Heed(l)' = Heed(l)
    BY <1>q, <2>1 DEF Hearing, Asked, Heed, News, NumberOfItem
  <2>o. \A k \in Listener \ {l} : hears'[k] = hears[k] /\ Taken(k)' = Taken(k)
    BY <2>1 DEF Taken
  <2>4. asks' = [asks EXCEPT ![l] = l] /\ told' = told
    BY <1>6, <1>w, <2>3, <2>o
  <2>5. StreamFeed!Ask(l, l)
    BY <2>1, <2>2, <2>3, <2>4 DEF StreamFeed!Ask
  <2> QED
    BY <2>5 DEF StreamFeed!Next
<1>8. ASSUME NEW l \in Listener, NextItem(l)
      PROVE  Abstract
  <2>0. PICK item : item = Head(queue[l])
    OBVIOUS
  <2>1. hears' = [hears EXCEPT ![l] = Hearing("told", Outcome(item), item.no)]
    BY <1>8, <2>0 DEF NextItem, Reply
  <2>2. /\ hears[l].pc = "waiting" /\ UNCHANGED <<feeding, sent>> /\ queue[l] # <<>>
        /\ queue' = [queue EXCEPT ![l] = Tail(@)]
    BY <1>8 DEF NextItem, Listens
  <2>3. Len(Tail(queue[l])) = Len(queue[l]) - 1 /\ Len(queue[l]) > 0
    BY <1>q, <2>2
  <2>4. Taken(l)' = Taken(l) + 1 /\ Taken(l) < sent[l]
    BY <1>q, <2>2, <2>3 DEF Taken
  <2>5. \A k \in Listener \ {l} : hears'[k] = hears[k] /\ Taken(k)' = Taken(k)
    BY <2>1, <2>2 DEF Taken
  <2>6. taken' = [taken EXCEPT ![l] = @ + 1]
    BY <2>4, <2>5
  <2>7. hears'[l].pc = "told" /\ hears'[l].ret = Outcome(item) /\ hears'[l].no = item.no
    BY <2>1 DEF Hearing
  <2>8. Asked(l) = l /\ Asked(l)' = l /\ Heed(l) = StreamFeed!Nothing
    BY <1>q, <2>2, <2>7 DEF Asked, Heed, News, NumberOfItem, StreamFeed!Nothing, StreamFeed!News
  <2>b. PICK n \in Nat : n = Taken(l)
    BY <1>q DEF Taken
  <2>c. /\ item.no = n + 1
        /\ (n + 1 \in Undecoded(l)) <=> ~item.decoded
        /\ Undecoded(l)' = Undecoded(l) \ {n + 1}
    <3>1. \A i \in 1..Len(queue[l]) : queue[l][i].no = n + i
      BY <1>q, <2>b DEF QueueInOrder
    <3>2. /\ Head(queue[l]).no = n + 1
          /\ n + 1 \in Bad(queue[l]) <=> ~Head(queue[l]).decoded
          /\ Bad(Tail(queue[l])) = Bad(queue[l]) \ {n + 1}
      BY <1>q, <2>2, <3>1, BadTaken
    <3>3. Undecoded(l)' = Bad(Tail(queue[l])) /\ Undecoded(l) = Bad(queue[l])
      BY <1>q, <2>2
    <3> QED
      BY <2>0, <3>2, <3>3
  <2>d. \A k \in Listener \ {l} : Undecoded(k)' = Undecoded(k)
    BY <2>2 DEF Undecoded
  <2>e. bad' = [bad EXCEPT ![l] = @ \ {n + 1}] /\ bad[l] = Undecoded(l)
    BY <2>c, <2>d, Zenon
  <2>9. Heed(l)' = StreamFeed!News(IF n + 1 \in bad[l] THEN "error" ELSE "notification", n + 1)
    BY <2>7, <2>c, <2>e DEF Heed, News, Outcome, SR_ERROR, SR_NONE, StreamFeed!News
  <2>10. asks' = asks /\ told' = [told EXCEPT ![l] = Heed(l)']
    BY <1>6, <1>w, <2>5, <2>8
  <2>11. l # "none"
    BY DEF StreamTypeOK
  <2>12. StreamFeed!Tell(l)
    BY <1>q, <2>2, <2>4, <2>6, <2>8, <2>9, <2>10, <2>11, <2>b, <2>e DEF StreamFeed!Tell
  <2> QED
    BY <2>12 DEF StreamFeed!Next
<1>9. ASSUME NEW l \in Listener, NoItemEver(l)
      PROVE  Abstract
  <2>1. /\ hears' = [hears EXCEPT ![l] = Hearing("told", SR_NONE, 0)] /\ hears[l].pc = "waiting"
        /\ queue[l] = <<>> /\ ~feeding[l] /\ UNCHANGED <<feeding, sent, queue>>
    BY <1>9 DEF NoItemEver, Reply, Listens
  <2>2. taken' = taken /\ bad' = bad
    BY <1>u, <2>1 DEF Taken
  <2>3. hears'[l].pc = "told" /\ hears'[l].ret = SR_NONE /\ hears'[l].no = 0
    BY <2>1 DEF Hearing
  <2>4. Asked(l) = l /\ Asked(l)' = l /\ Heed(l) = StreamFeed!Nothing
    BY <1>q, <2>1, <2>3
    DEF Asked, Heed, News, NumberOfItem, StreamFeed!Nothing, StreamFeed!News
  <2>5. Heed(l)' = StreamFeed!News("closed", 0)
    BY <2>3 DEF Heed, News, StreamFeed!News
  <2>o. \A k \in Listener \ {l} : hears'[k] = hears[k] /\ Taken(k)' = Taken(k)
    BY <2>1 DEF Taken
  <2>6. asks' = asks /\ told' = [told EXCEPT ![l] = StreamFeed!News("closed", 0)]
    BY <1>6, <1>w, <2>4, <2>5, <2>o
  <2>7. Taken(l) = sent[l] /\ l # "none"
    <3>1. Len(queue[l]) = 0
      BY <2>1
    <3> QED
      BY <1>q, <3>1 DEF Taken
  <2>8. StreamFeed!End(l)
    BY <2>1, <2>2, <2>4, <2>6, <2>7 DEF StreamFeed!End
  <2> QED
    BY <2>8 DEF StreamFeed!Next
<1>10. ASSUME NEW l \in Listener, Heard(l)
       PROVE  Abstract
  <2>1. /\ hears' = [hears EXCEPT ![l] = Hearing("idle", 0, 0)] /\ hears[l].pc = "told"
        /\ UNCHANGED <<feeding, sent, queue>>
    BY <1>10 DEF Heard, Quiet, Listens
  <2>2. taken' = taken /\ bad' = bad
    BY <1>u, <2>1 DEF Taken
  <2>3. Asked(l)' = "none" /\ Heed(l)' = StreamFeed!Nothing /\ Heed(l) # StreamFeed!Nothing
    BY <2>1 DEF Hearing, Asked, Heed, News, StreamFeed!Nothing, StreamFeed!News
  <2>o. \A k \in Listener \ {l} : hears'[k] = hears[k] /\ Taken(k)' = Taken(k)
    BY <2>1 DEF Taken
  <2>4. asks' = [asks EXCEPT ![l] = "none"] /\ told' = [told EXCEPT ![l] = StreamFeed!Nothing]
    BY <1>6, <2>3, <2>o
  <2>5. StreamFeed!Done(l)
    BY <2>1, <2>2, <2>3, <2>4 DEF StreamFeed!Done
  <2> QED
    BY <2>5 DEF StreamFeed!Next
<1>11. ASSUME NEW l \in Listener, stream_kill(l)
       PROVE  Abstract
  <2>1. /\ hears[l].pc = "idle" /\ hears' = hears /\ feeding' = [feeding EXCEPT ![l] = FALSE]
        /\ sent' = [sent EXCEPT ![l] = 0] /\ queue' = [queue EXCEPT ![l] = <<>>]
    BY <1>11 DEF stream_kill, Listens
  <2>2. Taken(l)' = 0 /\ \A k \in Listener \ {l} : Taken(k)' = Taken(k)
    BY <2>1 DEF Taken
  <2>3. taken' = [taken EXCEPT ![l] = 0]
    BY <2>2
  <2>b. Undecoded(l)' = {} /\ \A k \in Listener \ {l} : Undecoded(k)' = Undecoded(k)
    BY <2>1 DEF Undecoded
  <2>c. bad' = [bad EXCEPT ![l] = {}]
    BY <2>b, Zenon
  <2>4. \A k \in Listener : Asked(k)' = Asked(k) /\ News(k)' = News(k)
    BY <2>1 DEF Asked, News
  <2>6. \A k \in Listener : Heed(k)' = Heed(k)
    BY <2>1, <2>4, Zenon DEF Heed
  <2>7. asks' = asks /\ told' = told
    BY <2>4, <2>6
  <2>8. \A k \in Listener : Asked(k) # l
    BY <2>1 DEF Asked
  <2>9. StreamFeed!Renew(l)
    BY <2>1, <2>3, <2>7, <2>8, <2>c DEF StreamFeed!Renew
  <2> QED
    BY <2>9 DEF StreamFeed!Next
<1>12. ASSUME UNCHANGED liveVars PROVE Abstract
  BY <1>0, <1>12 DEF liveVars
<1> SUFFICES Abstract
  OBVIOUS
<1> HIDE DEF Abstract, taken, asks, told, bad
<1> QED
  BY <1>0, <1>2, <1>3, <1>4, <1>5, <1>7, <1>8, <1>9, <1>10, <1>11, <1>12 DEF LiveNext, StreamStep

(* For any number of listeners and connections, whenever these are dropped:  *)
(* every stream is a feed of its own, which hands its items over once each,  *)
(* in the order they came, with an error for those not decoded.             *)
THEOREM StreamFeedKept == LiveSpec => StreamKeepsFeed
<1>1. LiveInit => StreamFeed!Init
  <2> SUFFICES ASSUME LiveInit PROVE StreamFeed!Init
    OBVIOUS
  <2>1. \A l \in Listener : /\ Taken(l) = 0 /\ Undecoded(l) = {}
                            /\ hears[l].pc = "idle" /\ hears[l].no = 0
    BY DEF LiveInit, Taken, Undecoded, Quiet, Hearing
  <2>2. \A l \in Listener : Asked(l) = "none" /\ Heed(l) = StreamFeed!Nothing
    BY <2>1 DEF Asked, Heed, News, StreamFeed!Nothing, StreamFeed!News
  <2>3. feeding = [l \in Listener |-> FALSE] /\ sent = [l \in Listener |-> 0]
    BY DEF LiveInit
  <2> QED
    BY <2>1, <2>2, <2>3, Zenon DEF StreamFeed!Init
<1>2. LiveInit => StreamOrder
  BY DEF LiveInit, StreamOrder, QueueInOrder, NumberOfItem, Quiet, Hearing
<1>3. StreamTypeOK /\ StreamOrder /\ [LiveNext]_liveVars => StreamOrder'
  BY StreamOrderInductive
<1>4. /\ TypeOK /\ StreamTypeOK /\ StreamOrder /\ StreamOrder' /\ [LiveNext]_liveVars
      => [StreamFeed!Next]_StreamFeed!vars
  BY StreamFeedStep
<1> QED
  BY <1>1, <1>2, <1>3, <1>4, StreamTypeCorrect, PTL
  DEF LiveSpec, StreamKeepsFeed, StreamFeed!Spec
================================================================================
