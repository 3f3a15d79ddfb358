---------------------------- MODULE RpcContextProofs ----------------------------
(* Theorems about RpcContext, for any threads, contexts, capacity and bounds. *)
EXTENDS RpcContext, CallHarnessProofs, SequenceTheorems

(* The variables of the model keep their types. *)
LEMMA TypeInductive ==
    ASSUME TypeOK, [Next]_vars
    PROVE  TypeOK'
<1> USE RpcAssumption DEF TypeOK
<1>0. CASE UNCHANGED vars
  BY <1>0 DEF vars, feedVars, harnessVars, HarnessTypeOK
<1>1. ASSUME NEW t \in Thread, NEW h \in Handle,
             new(t, h) \/ execute(t, h) \/ notifications(t, h)
      PROVE  TypeOK'
  <2>1. PICK ep \in ErrPtr, o \in Op \cup {"connect"}, w \in BOOLEAN :
          check_null(t, h, o, ep) \/ Invoke(t, h, o, ep, w) \/ Connect(t, h, ep)
    BY <1>1 DEF new, execute, notifications
  <2> QED
    BY <1>1, <2>1, CallTypes DEF new, execute, notifications, feedVars
<1>2. ASSUME NEW t \in Thread, NEW h \in Handle, rpc_free(t, h)
      PROVE  TypeOK'
  BY <1>2 DEF rpc_free, HarnessTypeOK, Life
<1>3. ASSUME NEW t \in Thread, next(t)
      PROVE  TypeOK'
  <2>1. NewCall("block_on", "next", stream[t], "null", TRUE, 0) \in Calls
    BY <1>3, PlainCalls DEF next
  <2> QED
    BY <1>3, <2>1 DEF next, feedVars, HarnessTypeOK
<1>4. ASSUME NEW t \in Thread, stream_free(t)
      PROVE  TypeOK'
  BY <1>4 DEF stream_free, harnessVars, feedVars, HarnessTypeOK
<1>5. ASSUME NEW t \in Thread, Serve(t)
      PROVE  TypeOK'
  <2>1. call[t].h \in Handle
    BY DEF HarnessTypeOK, Calls
  <2>2. /\ owed' \in [Handle -> 0..MaxNotes]
        /\ \A h \in Handle : owed'[h] + sent[h] <= MaxNotes
    <3>1. PICK h \in Handle : h = call[t].h
      BY <2>1
    <3>2. PICK n \in 0..(MaxNotes - sent[h] - owed[h]) : owed' = [owed EXCEPT ![h] = @ + n]
      <4>1. 0 \in 0..(MaxNotes - sent[h] - owed[h])
        OBVIOUS
      <4>2. \E n \in (IF Request(t) THEN 0..(MaxNotes - sent[h] - owed[h]) ELSE {0}) :
               owed' = [owed EXCEPT ![h] = @ + n]
        BY <1>5, <3>1, Zenon DEF Serve
      <4> QED
        BY <4>1, <4>2
    <3>3. owed[h] + n \in 0..MaxNotes /\ owed[h] + n + sent[h] <= MaxNotes
      BY <3>2
    <3> QED
      BY <3>2, <3>3
  <2> QED
    BY <1>5, <2>2, FutureTypes DEF Serve, Extent
<1>6. ASSUME NEW t \in Thread, UNCHANGED <<feedVars, stream>>,
             \/ Enter(t) \/ FutureOk(t) \/ FutureErr(t) \/ LateErr(t) \/ Panic(t)
             \/ Connected(t) \/ Report(t)
      PROVE  TypeOK'
  BY <1>6, FutureTypes, AnswerTypes DEF feedVars
<1>7. ASSUME NEW t \in Thread, NEW len \in 0..MaxCode, Succeed(t, len, "owned"), UNCHANGED feedVars,
             stream' = stream \/ stream' = [stream EXCEPT ![t] = call[t].h]
      PROVE  TypeOK'
  <2>1. HarnessTypeOK'
    BY <1>7, AnswerTypes DEF Cell
  <2>2. call[t].h \in Handle
    BY DEF HarnessTypeOK, Calls
  <2> QED
    BY <1>7, <2>1, <2>2 DEF feedVars
<1>8. ASSUME NEW t \in Thread, Receive(t)
      PROVE  TypeOK'
  <2>1. call[t].h \in Handle
    BY DEF HarnessTypeOK, Calls
  <2>2. HarnessTypeOK'
    BY <1>8, MovedCall DEF Receive, HarnessTypeOK, Stage
  <2>3. PICK h \in Handle : h = call[t].h
    BY <2>1
  <2>4. PICK rest : rest = Tail(chan[h])
    OBVIOUS
  <2>5. /\ chan[h] \in Seq(1..MaxNotes) /\ chan[h] # <<>>
        /\ chan' = [chan EXCEPT ![h] = rest] /\ note' = [note EXCEPT ![t] = Head(chan[h])]
    BY <1>8, <2>3, <2>4 DEF Receive
  <2>6. /\ Head(chan[h]) \in 1..MaxNotes /\ rest \in Seq(1..MaxNotes)
        /\ Len(rest) = Len(chan[h]) - 1 /\ Len(chan[h]) \in Nat
    BY <2>4, <2>5
  <2>7. /\ chan' \in [Handle -> Seq(1..MaxNotes)]
        /\ \A g \in Handle : Len(chan'[g]) <= Capacity
    BY <2>5, <2>6
  <2>8. note' \in [Thread -> 0..MaxNotes]
    BY <2>5, <2>6
  <2> QED
    BY <1>8, <2>2, <2>7, <2>8 DEF Receive
<1>9. ASSUME NEW t \in Thread, Closed(t) \/ NotEncoded(t)
      PROVE  TypeOK'
  <2>1. SR_CLOSED \in SR_FATAL..MaxCode /\ SR_ERROR \in SR_FATAL..MaxCode
    BY HarnessAssumption DEF SR_CLOSED, SR_ERROR, SR_FATAL
  <2>2. call' \in [Thread -> Calls]
    BY <1>9, <2>1, ReturnedCall DEF Closed, NotEncoded, HarnessTypeOK
  <2> QED
    BY <1>9, <2>2 DEF Closed, NotEncoded, feedVars, HarnessTypeOK
<1>10. ASSUME NEW t \in Thread, GiveBack(t)
       PROVE  TypeOK'
  BY <1>10, AnswerTypes DEF GiveBack
<1>11. ASSUME NEW h \in Handle, Notify(h)
       PROVE  TypeOK'
  <2>1. owed' \in [Handle -> 0..MaxNotes] /\ sent' \in [Handle -> 0..MaxNotes]
    BY <1>11 DEF Notify
  <2>2. sent'[h] \in 1..MaxNotes
    BY <1>11 DEF Notify
  <2>3. PICK more : more = Append(chan[h], sent'[h])
    OBVIOUS
  <2>4. more \in Seq(1..MaxNotes) /\ Len(more) = Len(chan[h]) + 1 /\ Len(chan[h]) \in Nat
    BY <2>2, <2>3
  <2>5. chan' = [chan EXCEPT ![h] = more] /\ Len(chan[h]) < Capacity
    BY <1>11, <2>3 DEF Notify
  <2>6. /\ chan' \in [Handle -> Seq(1..MaxNotes)]
        /\ \A g \in Handle : Len(chan'[g]) <= Capacity
    BY <2>4, <2>5
  <2>7. \A g \in Handle : owed'[g] + sent'[g] <= MaxNotes
    BY <1>11 DEF Notify
  <2> QED
    BY <1>11, <2>1, <2>6, <2>7 DEF Notify, harnessVars, HarnessTypeOK
<1>12. ASSUME NEW t \in Thread, Step(t)
       PROVE  TypeOK'
  <2>1. CASE Respond(t) \/ HandStream(t) \/ Encoded(t)
    <3>1. PICK len \in 1..MaxCode : Succeed(t, len, "owned")
      BY <2>1, HarnessAssumption DEF Respond, HandStream, Encoded
    <3> QED
      BY <2>1, <3>1, <1>7 DEF Respond, HandStream, Encoded
  <2> QED
    BY <1>12, <2>1, <1>5, <1>6, <1>8, <1>9, <1>10 DEF Step, Quietly, Resolve, Unimplemented
<1> QED
  BY <1>0, <1>1, <1>2, <1>3, <1>4, <1>11, <1>12 DEF Next

(* Every reachable state is well typed. *)
THEOREM RpcTypeCorrect == Spec => []TypeOK
<1>1. Init => TypeOK
  BY HarnessTypeInit, RpcAssumption DEF Init, TypeOK
<1> QED
  BY <1>1, TypeInductive, PTL DEF Spec

--------------------------------------------------------------------------------
(* The inductive invariant behind MemorySafe and NothingLost: what the C     *)
(* variables of a thread own is what the call it is in has handed over;      *)
(* sr_rpc_stream_next never gets into the arms of the harness.              *)
OwnedByCaller(t) ==
    LET c == call[t] IN
    /\ c.op = "next" => pc(t) \in {"block_on", "resolved", "returned"}
    /\ c.ep = "valid" <=> c.op # "next"
    /\ c.op = "connect" => ~c.want
    /\ (err[t] = "owned") <=> (pc(t) = "returned" /\ c.ret < 0 /\ c.op # "next")
    /\ (out[t] \in {"owned", "empty"}) <=> (pc(t) = "returned" /\ FreesOut(c))

CallerMemory ==
    /\ MemorySafe /\ lost = FALSE
    /\ \A h \in Handle : ps[h] = FALSE
    /\ \A t \in Thread : OwnedByCaller(t)

(* And behind KeepsFeed: a context stays open while a request runs on it,    *)
(* nothing is owed by one that is not open, and the channel holds the last   *)
(* notifications that entered it, in order.                                 *)
Opening(t) == call[t].op = "connect" /\ pc(t) # "returned"

Attended(t) ==
    LET c == call[t] IN
    /\ pc(t) = "idle" <=> c.op = "none"
    /\ c.op = "next" /\ pc(t) \in {"block_on", "resolved"} => c.ret = 0
    /\ c.op \in {"execute", "notifications"} => life[c.h] = "open"
    /\ Opening(t) => life[c.h] = "opening"

(* The thread that opens a context is the only one. *)
OpensAlone(t, u) == t # u /\ Opening(t) /\ Opening(u) => call[t].h # call[u].h

InOrder(h) ==
    /\ owed[h] > 0 => life[h] = "open"
    /\ Len(chan[h]) <= sent[h]
    /\ \A i \in 1..Len(chan[h]) : chan[h][i] = sent[h] - Len(chan[h]) + i

FeedOrder ==
    /\ \A t \in Thread : Attended(t)
    /\ \A t, u \in Thread : OpensAlone(t, u)
    /\ \A h \in Handle : InOrder(h)

(* Nothing is owned or owed at first. *)
LEMMA CallerMemoryInit ==
    ASSUME Init
    PROVE  CallerMemory
BY DEF Init, HarnessInit, CallerMemory, MemorySafe, OwnedByCaller, pc, NoCall, NewCall, FreesOut

(* No step hands over, frees or overwrites what the code does not say. *)
LEMMA CallerMemoryInductive ==
    ASSUME TypeOK, ErrPtr = {"valid"}, CallerMemory, [Next]_vars
    PROVE  CallerMemory'
<1> USE DEF TypeOK, HarnessTypeOK
<1> DEFINE Others(t) == \A u \in Thread \ {t} :
              call'[u] = call[u] /\ err'[u] = err[u] /\ out'[u] = out[u]
           Sound == process' = "running" /\ lost' = FALSE /\ ps' = ps
<1>a. ASSUME NEW t \in Thread, Others(t), Sound, OwnedByCaller(t)'
      PROVE  CallerMemory'
  <2>1. ASSUME NEW u \in Thread, u # t PROVE OwnedByCaller(u)'
    BY <1>a, <2>1 DEF CallerMemory, OwnedByCaller, pc, FreesOut
  <2> QED
    BY <1>a, <2>1 DEF CallerMemory, MemorySafe
<1>b. ASSUME NEW t \in Thread
      PROVE  /\ OwnedByCaller(t) /\ process = "running" /\ lost = FALSE
             /\ call[t] \in Calls /\ ps[call[t].h] = FALSE
  BY DEF CallerMemory, MemorySafe, Calls
<1>c. ASSUME NEW t \in Thread, OwnedByCaller(t),
             call'[t].pc = "returned", call'[t].op = call[t].op,
             call'[t].ep = call[t].ep, call'[t].want = call[t].want,
             (err'[t] = "owned") <=> (call'[t].ret < 0 /\ call[t].op # "next"),
             (out'[t] \in {"owned", "empty"}) <=> (call'[t].ret >= 0 /\ call[t].want = TRUE)
      PROVE  OwnedByCaller(t)'
  <2>1. pc(t)' = "returned" /\ (FreesOut(call[t])' <=> (call'[t].ret >= 0 /\ call[t].want = TRUE))
    BY <1>c DEF pc, FreesOut
  <2> QED
    BY <1>c, <2>1 DEF OwnedByCaller
<1> HIDE DEF Others, Sound
<1>0. ASSUME UNCHANGED <<process, ps, call, err, out, lost>>
      PROVE  CallerMemory'
  BY <1>0 DEF CallerMemory, MemorySafe, OwnedByCaller, pc, FreesOut
<1>1. ASSUME NEW t \in Thread, NEW h \in Handle, NEW o \in {"execute", "notifications"},
             NEW ep \in ErrPtr, check_null(t, h, o, ep)
      PROVE  CallerMemory'
  <2>1. ep = "valid" /\ pc(t) = "idle"
    BY <1>1 DEF check_null, Running
  <2>2. Others(t) /\ Sound
    BY <1>1, <1>b, <2>1 DEF Others, Sound, check_null, write_error, OverwriteErr, OwnedByCaller
  <2>3. OwnedByCaller(t)'
    <3>1. /\ call'[t].pc = "returned" /\ call'[t].op = o /\ call'[t].ep = "valid"
          /\ call'[t].want = FALSE /\ call'[t].ret < 0
      BY <1>1, <2>1 DEF check_null, NewCall, SR_ERROR
    <3>2. err'[t] = "owned" /\ out'[t] \notin {"owned", "empty"}
      BY <1>1, <1>b, <2>1 DEF check_null, write_error, OverwriteErr, OwnedByCaller
    <3> QED
      BY <3>1, <3>2 DEF OwnedByCaller, pc, FreesOut
  <2> QED
    BY <1>a, <2>2, <2>3
<1>2. ASSUME NEW t \in Thread, NEW stage \in {"gate", "block_on"},
             NEW o \in {"connect", "execute", "notifications", "next"}, NEW h \in Handle, NEW ep, NEW w,
             Running(t, "idle"), call' = [call EXCEPT ![t] = NewCall(stage, o, h, ep, w, 0)],
             o = "next" => stage = "block_on", ep = "valid" <=> o # "next", o = "connect" => ~w,
             UNCHANGED <<process, ps, err, out, lost>>
      PROVE  CallerMemory'
  <2>1. Others(t) /\ Sound
    BY <1>2, <1>b DEF Others, Sound
  <2>2. OwnedByCaller(t)'
    BY <1>2, <1>b DEF NewCall, Running, OwnedByCaller, pc, FreesOut
  <2> QED
    BY <1>a, <2>1, <2>2
<1>3. ASSUME NEW t \in Thread, NEW h \in Handle,
             new(t, h) \/ execute(t, h) \/ notifications(t, h)
      PROVE  CallerMemory'
  <2>1. CASE new(t, h)
    BY <1>2, <2>1 DEF new, Connect
  <2>2. ASSUME NEW o \in {"execute", "notifications"}, NEW ep \in ErrPtr, NEW w,
               Invoke(t, h, o, ep, w)
        PROVE  CallerMemory'
    BY <1>2, <2>2 DEF Invoke
  <2> QED
    BY <1>1, <1>3, <2>1, <2>2 DEF execute, notifications
<1>4. ASSUME NEW t \in Thread, next(t)
      PROVE  CallerMemory'
  <2>1. stream[t] \in Handle
    BY <1>4 DEF next
  <2> QED
    <3>1. /\ Running(t, "idle") /\ UNCHANGED <<process, ps, err, out, lost>>
          /\ call' = [call EXCEPT ![t] = NewCall("block_on", "next", stream[t], "null", TRUE, 0)]
      BY <1>4 DEF next
    <3>2. "null" # "valid" /\ "next" # "connect"
      OBVIOUS
    <3> QED
      BY <1>2, <2>1, <3>1, <3>2
<1>5. ASSUME NEW t, NEW h, rpc_free(t, h) \/ stream_free(t) \/ Notify(h)
      PROVE  CallerMemory'
  BY <1>0, <1>5 DEF rpc_free, stream_free, Notify, harnessVars
<1>6. ASSUME NEW t \in Thread, NEW stage \in Stage, Goto(t, stage), stage # "returned",
             pc(t) # "returned", call[t].op = "next" => stage = "resolved",
             UNCHANGED <<process, ps, err, out, lost>>
      PROVE  CallerMemory'
  <2>1. Others(t) /\ Sound
    BY <1>6, <1>b DEF Others, Sound, Goto
  <2>2. /\ call'[t].pc = stage /\ call'[t].op = call[t].op
        /\ call'[t].ep = call[t].ep /\ call'[t].want = call[t].want
    BY <1>6, <1>b DEF Goto, Calls
  <2>3. OwnedByCaller(t)'
    BY <1>6, <1>b, <2>2 DEF OwnedByCaller, pc
  <2> QED
    BY <1>a, <2>1, <2>3
<1>7. ASSUME NEW t \in Thread,
             \/ Enter(t)
             \/ LateErr(t) /\ Request(t)
             \/ InHarness(t) /\ (FutureOk(t) \/ FutureErr(t) \/ Panic(t))
      PROVE  CallerMemory'
  BY <1>6, <1>7, <1>b DEF Enter, LateErr, FutureOk, FutureErr, Panic, InHarness, Request, Running, Stage,
                          OwnedByCaller
<1>8. ASSUME NEW t \in Thread, Receive(t)
      PROVE  CallerMemory'
  BY <1>6, <1>8 DEF Receive, Receiving, Running, Stage
<1>9. ASSUME NEW t \in Thread, Serve(t)
      PROVE  CallerMemory'
  <2>0. TakeEffect(t, "all") /\ call[t].op # "next"
    BY <1>9 DEF Serve, InHarness
  <2>1. Others(t) /\ Sound
    BY <2>0, <1>b DEF TakeEffect, Running, Others, Sound
  <2>2. OwnedByCaller(t)'
    <3>1. call'[t].pc = call[t].pc /\ pc(t) = "block_on"
      BY <2>0, Effected DEF TakeEffect, Running
    <3>2. /\ call'[t].op = call[t].op
          /\ call'[t].ep = call[t].ep /\ call'[t].want = call[t].want
          /\ err' = err /\ out' = out
      BY <2>0, Effected DEF TakeEffect
    <3> QED
      BY <1>b, <3>1, <3>2 DEF OwnedByCaller, pc
  <2> QED
    BY <1>a, <2>1, <2>2
<1>10. ASSUME NEW t \in Thread, NEW code \in 0..MaxCode, Succeed(t, code, "owned")
       PROVE  CallerMemory'
  <2>1. Others(t) /\ Sound
    BY <1>10, <1>b DEF Succeed, ReturnCode, Others, Sound, Running, OwnedByCaller
  <2>2. OwnedByCaller(t)'
    <3>1. /\ code >= 0 /\ code \in Int /\ ReturnCode(t, code) /\ err' = err
          /\ out'[t] = IF call[t].want THEN "owned" ELSE out[t]
      BY <1>10, HarnessAssumption DEF Succeed
    <3>2. err[t] # "owned" /\ out[t] \notin {"owned", "empty"}
      BY <1>10, <1>b DEF Succeed, Running, OwnedByCaller
    <3>3. /\ call'[t].pc = "returned" /\ call'[t].ret = code /\ call'[t].op = call[t].op
          /\ call'[t].ep = call[t].ep /\ call'[t].want = call[t].want
      BY <3>1, Returned
    <3>4. (err'[t] = "owned") <=> (call'[t].ret < 0 /\ call[t].op # "next")
      BY <3>1, <3>2, <3>3
    <3>5. (out'[t] \in {"owned", "empty"}) <=> (call'[t].ret >= 0 /\ call[t].want = TRUE)
      BY <3>1, <3>2, <3>3
    <3>6. OwnedByCaller(t)
      BY <1>b
    <3> QED
      BY <1>c, <3>3, <3>4, <3>5, <3>6
  <2> QED
    BY <1>a, <2>1, <2>2
<1>11. ASSUME NEW t \in Thread, Respond(t) \/ HandStream(t) \/ Encoded(t)
       PROVE  CallerMemory'
  <2>1. \E code \in 0..MaxCode : Succeed(t, code, "owned")
    BY <1>11, HarnessAssumption DEF Respond, HandStream, Encoded
  <2> QED
    BY <1>10, <2>1
<1>12. ASSUME NEW t \in Thread, Connected(t)
       PROVE  CallerMemory'
  <2>1. Others(t) /\ process' = "running" /\ lost' = FALSE /\ \A h \in Handle : ps'[h] = FALSE
    BY <1>12, <1>b DEF Connected, ReturnCode, Others, CallerMemory
  <2>2. OwnedByCaller(t)'
    <3>1. ReturnCode(t, 1) /\ err' = err /\ out' = out
      BY <1>12 DEF Connected
    <3>2. err[t] # "owned" /\ out[t] \notin {"owned", "empty"} /\ ~call[t].want
      BY <1>12, <1>b DEF Connected, Running, OwnedByCaller
    <3>3. /\ call'[t].pc = "returned" /\ call'[t].ret = 1 /\ call'[t].op = call[t].op
          /\ call'[t].ep = call[t].ep /\ call'[t].want = call[t].want
      BY <3>1, Returned
    <3>4. (err'[t] = "owned") <=> (call'[t].ret < 0 /\ call[t].op # "next")
      BY <3>1, <3>2, <3>3
    <3>5. (out'[t] \in {"owned", "empty"}) <=> (call'[t].ret >= 0 /\ call[t].want = TRUE)
      BY <3>1, <3>2, <3>3
    <3>6. OwnedByCaller(t)
      BY <1>b
    <3> QED
      BY <1>c, <3>3, <3>4, <3>5, <3>6
  <2>3. ps' = ps
    BY <1>12 DEF Connected, CallerMemory
  <2> QED
    BY <1>a, <2>1, <2>2, <2>3 DEF Sound
<1>13. ASSUME NEW t \in Thread, Closed(t) \/ NotEncoded(t)
       PROVE  CallerMemory'
  <2>1. Others(t) /\ Sound
    BY <1>13, <1>b DEF Closed, NotEncoded, ReturnCode, Others, Sound
  <2>2. PICK code \in {SR_CLOSED, SR_ERROR} : ReturnCode(t, code)
    BY <1>13 DEF Closed, NotEncoded
  <2>3. code \in Int /\ code < 0
    BY DEF SR_CLOSED, SR_ERROR
  <2>4. OwnedByCaller(t)'
    <3>1. /\ err' = err /\ out' = out /\ call[t].op = "next"
          /\ pc(t) # "returned"
      BY <1>13 DEF Closed, NotEncoded, Receiving, Running
    <3>2. err[t] # "owned" /\ out[t] \notin {"owned", "empty"}
      BY <1>b, <3>1 DEF OwnedByCaller
    <3>3. /\ call'[t].pc = "returned" /\ call'[t].ret = code /\ call'[t].op = call[t].op
          /\ call'[t].ep = call[t].ep /\ call'[t].want = call[t].want
      BY <2>2, <2>3, Returned
    <3>4. (err'[t] = "owned") <=> (call'[t].ret < 0 /\ call[t].op # "next")
      BY <2>3, <3>1, <3>2, <3>3
    <3>5. (out'[t] \in {"owned", "empty"}) <=> (call'[t].ret >= 0 /\ call[t].want = TRUE)
      BY <2>3, <3>1, <3>2, <3>3
    <3>6. OwnedByCaller(t)
      BY <1>b
    <3> QED
      BY <1>c, <3>3, <3>4, <3>5, <3>6
  <2> QED
    BY <1>a, <2>1, <2>4
<1>14. ASSUME NEW t \in Thread, Report(t)
       PROVE  CallerMemory'
  <2>1. call[t].op # "next" /\ call[t].ep = "valid" /\ err[t] # "owned"
    BY <1>14, <1>b DEF Report, Running, OwnedByCaller
  <2>2. Others(t) /\ Sound
    BY <1>14, <1>b, <2>1 DEF Report, OverwriteErr, ReturnCode, Others, Sound
  <2>3. PICK code \in {SR_ERROR, SR_FATAL} : ReturnCode(t, code)
    BY <1>14, <2>1 DEF Report
  <2>4. code \in Int /\ code < 0
    BY <2>3 DEF SR_FATAL, SR_ERROR
  <2>5. err'[t] = "owned" /\ out' = out
    BY <1>14, <2>1 DEF Report, OverwriteErr
  <2>6. out[t] \notin {"owned", "empty"}
    BY <1>14, <1>b DEF Report, Running, OwnedByCaller
  <2>7. OwnedByCaller(t)'
    <3>1. /\ call'[t].pc = "returned" /\ call'[t].ret = code /\ call'[t].op = call[t].op
          /\ call'[t].ep = call[t].ep /\ call'[t].want = call[t].want
      BY <2>3, <2>4, Returned
    <3>4. (err'[t] = "owned") <=> (call'[t].ret < 0 /\ call[t].op # "next")
      BY <2>1, <2>4, <2>5, <3>1
    <3>5. (out'[t] \in {"owned", "empty"}) <=> (call'[t].ret >= 0 /\ call[t].want = TRUE)
      BY <2>4, <2>5, <2>6, <3>1
    <3>6. OwnedByCaller(t)
      BY <1>b
    <3> QED
      BY <1>c, <3>1, <3>4, <3>5, <3>6
  <2> QED
    BY <1>a, <2>2, <2>7
<1>15. ASSUME NEW t \in Thread, GiveBack(t)
       PROVE  CallerMemory'
  <2>1. Collect(t) /\ Running(t, "returned") /\ call' = [call EXCEPT ![t] = NoCall]
    BY <1>15 DEF GiveBack, Collect
  <2>2. (FreesErr(call[t]) <=> err[t] = "owned") /\ (FreesOut(call[t]) <=> out[t] \in {"owned", "empty"})
    BY <1>b, <2>1 DEF OwnedByCaller, FreesErr, Running
  <2>3. Others(t) /\ Sound
    BY <1>b, <2>1, <2>2 DEF Collect, Others, Sound
  <2>4. OwnedByCaller(t)'
    BY <2>1, <2>2 DEF Collect, NoCall, NewCall, OwnedByCaller, pc, FreesOut
  <2> QED
    BY <1>a, <2>3, <2>4
<1>16. CASE UNCHANGED vars
  BY <1>0, <1>16 DEF vars, harnessVars
<1>17. ASSUME NEW t \in Thread, Step(t)
       PROVE  CallerMemory'
  <2>1. CASE Respond(t) \/ HandStream(t) \/ Receive(t) \/ Closed(t) \/ Encoded(t) \/ NotEncoded(t)
    BY <1>8, <1>11, <1>13, <2>1
  <2>2. CASE Serve(t) \/ GiveBack(t)
    BY <1>9, <1>15, <2>2
  <2>3. CASE Quietly(Connected(t)) \/ Quietly(Report(t))
    BY <1>12, <1>14, <2>3 DEF Quietly
  <2>4. CASE Quietly(Enter(t)) \/ Unimplemented(t)
    BY <1>7, <2>4 DEF Quietly, Unimplemented
  <2>5. CASE Quietly(Resolve(t)) \/ Quietly(InHarness(t) /\ (FutureErr(t) \/ Panic(t)))
    BY <1>7, <2>5 DEF Quietly, Resolve
  <2> QED
    BY <1>17, <2>1, <2>2, <2>3, <2>4, <2>5 DEF Step
<1> QED
  BY <1>3, <1>4, <1>5, <1>16, <1>17 DEF Next

(* A program that passes an err_ptr never frees what it does not own and     *)
(* never loses what it owns, whoever frees contexts under its readers.       *)
THEOREM RpcCallersNeverMisfree ==
    ASSUME ErrPtr = {"valid"}
    PROVE  Spec => [](MemorySafe /\ NothingLost)
<1>1. Init => CallerMemory
  BY CallerMemoryInit
<1>2. TypeOK /\ CallerMemory /\ [Next]_vars => CallerMemory'
  BY CallerMemoryInductive
<1>3. CallerMemory => MemorySafe /\ NothingLost
  BY DEF CallerMemory, NothingLost
<1> QED
  BY <1>1, <1>2, <1>3, RpcTypeCorrect, PTL DEF Spec

--------------------------------------------------------------------------------
(* The feed. *)

(* No context exists at first. *)
LEMMA FeedOrderInit ==
    ASSUME Init
    PROVE  FeedOrder
BY DEF Init, HarnessInit, FeedOrder, Attended, Opening, OpensAlone, InOrder, pc, NoCall, NewCall

(* A notification that enters the channel is the next after those in it; one *)
(* that leaves it leaves the others in order.                               *)
LEMMA ChannelOrder ==
    ASSUME TypeOK, NEW h \in Handle, InOrder(h)
    PROVE  /\ \A g \in Handle : Notify(g) => InOrder(h)'
           /\ \A t \in Thread : Receive(t) /\ life' = life => InOrder(h)'
<1> USE DEF TypeOK
<1>0. ASSUME owed'[h] = owed[h], sent'[h] = sent[h], chan'[h] = chan[h], life' = life
      PROVE  InOrder(h)'
  BY <1>0 DEF InOrder
<1>1. ASSUME NEW g \in Handle, Notify(g) PROVE InOrder(h)'
  <2>1. CASE g # h
    BY <1>0, <1>1, <2>1 DEF Notify, harnessVars
  <2>2. CASE g = h
    <3>1. PICK more : more = Append(chan[h], sent'[h])
      OBVIOUS
    <3>2. /\ chan'[h] = more /\ sent'[h] = sent[h] + 1 /\ owed'[h] = owed[h] - 1
          /\ owed[h] > 0 /\ life' = life
      BY <1>1, <2>2, <3>1 DEF Notify, harnessVars
    <3>3. /\ Len(chan[h]) \in Nat /\ sent[h] \in Nat /\ Len(more) = Len(chan[h]) + 1
          /\ \A i \in 1..Len(chan[h]) : more[i] = chan[h][i]
          /\ more[Len(more)] = sent[h] + 1
      BY <3>1, <3>2
    <3>4. \A i \in 1..Len(more) : more[i] = sent'[h] - Len(more) + i
      <4>1. PICK n \in Nat : n = Len(chan[h]) /\ Len(more) = n + 1
        BY <3>3
      <4>2. PICK k \in Nat : k = sent[h] /\ sent'[h] = k + 1
        BY <3>2, <3>3
      <4>3. \A i \in 1..n : more[i] = k - n + i
        BY <3>3, <4>1, <4>2 DEF InOrder
      <4>4. more[n + 1] = k + 1
        BY <3>3, <4>1, <4>2
      <4>5. \A i \in 1..(n + 1) : more[i] = k + 1 - (n + 1) + i
        <5>1. ASSUME NEW i \in 1..(n + 1) PROVE more[i] = k + 1 - (n + 1) + i
          <6>1. CASE i = n + 1
            BY <4>4, <6>1
          <6>2. CASE i # n + 1
            <7>1. i \in 1..n /\ k + 1 - (n + 1) + i = k - n + i
              BY <6>2
            <7> QED
              BY <4>3, <7>1
          <6> QED
            BY <6>1, <6>2
        <5> QED
          BY <5>1
      <4> QED
        BY <4>1, <4>2, <4>5
    <3>5. Len(more) <= sent'[h] /\ (owed'[h] > 0 => life'[h] = "open")
      BY <3>2, <3>3 DEF InOrder
    <3> QED
      BY <3>2, <3>4, <3>5, Zenon DEF InOrder
  <2> QED
    BY <2>1, <2>2
<1>2. ASSUME NEW t \in Thread, Receive(t), life' = life PROVE InOrder(h)'
  <2>1. CASE call[t].h # h
    BY <1>0, <1>2, <2>1 DEF Receive, HarnessTypeOK, Calls
  <2>2. CASE call[t].h = h
    <3>1. PICK rest : rest = Tail(chan[h])
      OBVIOUS
    <3>2. /\ chan'[h] = rest /\ sent'[h] = sent[h] /\ owed'[h] = owed[h]
          /\ chan[h] # <<>>
      BY <1>2, <2>2, <3>1 DEF Receive
    <3>3. /\ Len(chan[h]) \in Nat /\ sent[h] \in Nat /\ Len(rest) = Len(chan[h]) - 1
          /\ \A i \in 1..Len(rest) : rest[i] = chan[h][i + 1]
      BY <3>1, <3>2
    <3>4. \A i \in 1..Len(rest) : rest[i] = sent'[h] - Len(rest) + i
      <4>1. PICK n \in Nat : n = Len(chan[h]) /\ Len(rest) = n - 1
        BY <3>3
      <4>2. PICK k \in Nat : k = sent[h] /\ sent'[h] = k
        BY <3>2, <3>3
      <4>3. \A i \in 1..n : chan[h][i] = k - n + i
        BY <4>1, <4>2 DEF InOrder
      <4>4. \A i \in 1..(n - 1) : rest[i] = k - (n - 1) + i
        <5>1. ASSUME NEW i \in 1..(n - 1) PROVE rest[i] = k - (n - 1) + i
          <6>1. i + 1 \in 1..n /\ k - n + (i + 1) = k - (n - 1) + i
            OBVIOUS
          <6>2. rest[i] = chan[h][i + 1]
            BY <3>3, <4>1
          <6> QED
            BY <4>3, <6>1, <6>2
        <5> QED
          BY <5>1
      <4> QED
        BY <4>1, <4>2, <4>4
    <3>5. Len(rest) <= sent'[h] /\ (owed'[h] > 0 => life'[h] = "open")
      BY <1>2, <3>2, <3>3 DEF InOrder
    <3> QED
      BY <3>2, <3>4, <3>5, Zenon DEF InOrder
  <2> QED
    BY <2>1, <2>2
<1> QED
  BY <1>1, <1>2

(* The life of the contexts changes only where nobody else depends on it.    *)
LEMMA FeedOrderInductive ==
    ASSUME TypeOK, CallerMemory, FeedOrder, [Next]_vars
    PROVE  FeedOrder'
<1> USE DEF TypeOK, HarnessTypeOK
<1> DEFINE Others(t) == \A u \in Thread \ {t} : call'[u] = call[u]
           Channels == UNCHANGED <<owed, sent, chan>>
           Same(t) == call'[t].op = call[t].op /\ call'[t].h = call[t].h
<1>b. ASSUME NEW t \in Thread
      PROVE  /\ call[t] \in Calls /\ call[t].h \in Handle /\ OwnedByCaller(t) /\ Attended(t)
             /\ \A u \in Thread : OpensAlone(t, u)
  BY DEF CallerMemory, FeedOrder, Calls
<1>c. ASSUME NEW h \in Handle
      PROVE  InOrder(h) /\ owed[h] \in Nat /\ (life[h] # "open" => owed[h] = 0)
  <2>1. InOrder(h) /\ owed[h] \in 0..MaxNotes
    BY DEF FeedOrder
  <2>2. owed[h] > 0 => life[h] = "open"
    BY <2>1 DEF InOrder
  <2> QED
    BY <2>1, <2>2, RpcAssumption
(* A step of thread t that leaves the contexts alone. *)
<1>1. ASSUME NEW t \in Thread, Others(t), life' = life, Attended(t)', Opening(t)' => Opening(t) /\ Same(t),
             \A h \in Handle : InOrder(h)'
      PROVE  FeedOrder'
  <2>1. \A u \in Thread : Attended(u)'
    <3>1. ASSUME NEW u \in Thread \ {t} PROVE Attended(u)'
      <4>1. Attended(u) /\ call'[u] = call[u] /\ life' = life
        BY <1>1, <1>b
      <4> QED
        BY <4>1 DEF Attended, Opening, pc
    <3> QED
      BY <1>1, <3>1
  <2>2. \A u \in Thread \ {t} : Opening(u)' = Opening(u)
    BY <1>1 DEF Opening, pc
  <2>3. \A u, w \in Thread : OpensAlone(u, w)'
    BY <1>1, <1>b, <2>2 DEF OpensAlone
  <2> QED
    BY <1>1, <2>1, <2>3 DEF FeedOrder
(* A step of thread t that changes the life of h, which no other call needs. *)
<1>2. ASSUME NEW t \in Thread, NEW h \in Handle, Others(t), UNCHANGED <<sent, chan>>,
             \A g \in Handle \ {h} : life'[g] = life[g] /\ owed'[g] = owed[g],
             life'[h] # "open" => owed'[h] = 0, owed'[h] \in {0, owed[h]},
             Attended(t)', Opening(t)' => call'[t].h = h,
             \A u \in Thread \ {t} :
                 call[u].h = h => call[u].op \in {"none", "next"} \/ (call[u].op = "connect" /\ pc(u) = "returned")
      PROVE  FeedOrder'
  <2>1. ASSUME NEW u \in Thread \ {t} PROVE Attended(u)' /\ (Opening(u)' = Opening(u))
    <3>1. life'[call[u].h] = life[call[u].h] \/ call[u].h = h
      BY <1>2, <1>b
    <3> QED
      BY <1>2, <1>b, <3>1 DEF Attended, Opening, pc
  <2>2. \A u, w \in Thread : OpensAlone(u, w)'
    <3>1. ASSUME NEW u \in Thread \ {t}, Opening(u), Opening(t)' PROVE call'[t].h # call'[u].h
      <4>1. call'[u] = call[u] /\ call'[t].h = h /\ Opening(u)
        BY <1>2, <3>1
      <4> QED
        BY <1>2, <4>1 DEF Opening
    <3>2. ASSUME NEW u \in Thread \ {t}, NEW w \in Thread \ {t} PROVE OpensAlone(u, w)'
      <4>1. OpensAlone(u, w) /\ call'[u] = call[u] /\ call'[w] = call[w]
        BY <1>2, <1>b
      <4> QED
        BY <4>1 DEF OpensAlone, Opening, pc
    <3>3. \A u \in Thread \ {t} : OpensAlone(u, t)' /\ OpensAlone(t, u)'
      BY <2>1, <3>1 DEF OpensAlone
    <3>4. OpensAlone(t, t)'
      BY DEF OpensAlone
    <3> QED
      BY <3>2, <3>3, <3>4
  <2>3. \A g \in Handle : InOrder(g)'
    <3>1. ASSUME NEW g \in Handle
          PROVE  /\ sent'[g] = sent[g] /\ chan'[g] = chan[g]
                 /\ owed'[g] > 0 => life'[g] = "open"
      <4>1. CASE g = h
        BY <1>2, <1>c, <4>1
      <4>2. CASE g # h
        BY <1>2, <1>c, <4>2
      <4> QED
        BY <1>2, <4>1, <4>2
    <3> QED
      BY <1>c, <3>1 DEF InOrder
  <2> QED
    BY <1>2, <2>1, <2>2, <2>3 DEF FeedOrder
<1>3. ASSUME Channels, life' = life PROVE \A h \in Handle : InOrder(h)'
  BY <1>3, <1>c DEF InOrder
<1> HIDE DEF Others, Channels, Same
<1>0. ASSUME UNCHANGED <<life, call>>, Channels
      PROVE  FeedOrder'
  BY <1>0, <1>3 DEF FeedOrder, Attended, Opening, OpensAlone, pc, Channels
<1>4. ASSUME NEW t \in Thread, NEW h \in Handle, execute(t, h) \/ notifications(t, h)
      PROVE  FeedOrder'
  <2>1. PICK stage \in {"returned", "gate"}, o \in {"execute", "notifications"},
            ep \in ErrPtr, w \in BOOLEAN, ret \in {0, SR_ERROR} :
          call' = [call EXCEPT ![t] = NewCall(stage, o, h, ep, w, ret)]
    BY <1>4 DEF execute, notifications, check_null, Invoke
  <2>2. life' = life /\ Channels /\ life[h] = "open"
    BY <1>4 DEF execute, notifications, check_null, Invoke, Usable, feedVars, Channels
  <2>3. Others(t) /\ Attended(t)' /\ ~Opening(t)'
    BY <2>1, <2>2 DEF Others, Attended, Opening, pc, NewCall
  <2> QED
    BY <1>1, <1>3, <2>2, <2>3
<1>5. ASSUME NEW t \in Thread, NEW h \in Handle, new(t, h)
      PROVE  FeedOrder'
  <2>1. PICK ep \in ErrPtr : Connect(t, h, ep)
    BY <1>5 DEF new
  <2>2. /\ life' = [life EXCEPT ![h] = "opening"] /\ life[h] = "absent"
        /\ UNCHANGED <<owed, sent, chan>> /\ Others(t)
        /\ call'[t] = NewCall("block_on", "connect", h, ep, FALSE, 0)
    BY <1>5, <2>1 DEF new, Connect, feedVars, Others
  <2>3. owed[h] = 0
    BY <1>c, <2>2
  <2>4. Attended(t)' /\ call'[t].h = h
    BY <2>2 DEF Attended, Opening, pc, NewCall
  <2>5. \A u \in Thread \ {t} :
           call[u].h = h => call[u].op \in {"none", "next"} \/ (call[u].op = "connect" /\ pc(u) = "returned")
    BY <1>b, <2>2, RpcAssumption DEF Attended, Opening, Calls
  <2> QED
    BY <1>2, <2>2, <2>3, <2>4, <2>5
<1>6. ASSUME NEW t \in Thread, NEW h \in Handle, rpc_free(t, h)
      PROVE  FeedOrder'
  <2>1. /\ life' = [life EXCEPT ![h] = "freed"] /\ life[h] = "open"
        /\ UNCHANGED <<call, sent, chan>> /\ owed' = [owed EXCEPT ![h] = 0] /\ pc(t) = "idle"
    BY <1>6 DEF rpc_free, Running
  <2>2. Others(t) /\ Attended(t)' /\ ~Opening(t)'
    BY <1>b, <2>1 DEF Others, Attended, Opening, pc
  <2>3. \A u \in Thread : call[u].h = h => call[u].op \in {"none", "next"}
    BY <1>6, <1>b DEF rpc_free, Attended
  <2> QED
    BY <1>2, <2>1, <2>2, <2>3
<1>7. ASSUME NEW t \in Thread, next(t)
      PROVE  FeedOrder'
  <2>1. /\ call'[t] = NewCall("block_on", "next", stream[t], "null", TRUE, 0)
        /\ Others(t) /\ life' = life /\ Channels
    BY <1>7 DEF next, Others, Channels, feedVars
  <2>2. Attended(t)' /\ ~Opening(t)'
    BY <2>1 DEF Attended, Opening, pc, NewCall
  <2> QED
    BY <1>1, <1>3, <2>1, <2>2
<1>8. ASSUME NEW t \in Thread, NEW stage \in Stage, Goto(t, stage), pc(t) \notin {"idle", "returned"},
             stage \notin {"idle", "returned"}, call[t].op # "next", life' = life, Channels
      PROVE  FeedOrder'
  <2>1. call'[t].pc = stage /\ Same(t) /\ Others(t)
    BY <1>8, <1>b, Moved DEF Same, Others, Goto
  <2>2. Attended(t)' /\ (Opening(t)' => Opening(t))
    BY <1>8, <1>b, <2>1 DEF Attended, Opening, pc, Same
  <2> QED
    BY <1>1, <1>3, <1>8, <2>1, <2>2
<1>9. ASSUME NEW t \in Thread, UNCHANGED feedVars,
             \/ Enter(t)
             \/ LateErr(t) /\ Request(t)
             \/ InHarness(t) /\ (FutureOk(t) \/ FutureErr(t) \/ Panic(t))
      PROVE  FeedOrder'
  <2>1. life' = life /\ Channels
    BY <1>9 DEF Enter, LateErr, FutureOk, FutureErr, Panic, feedVars, Channels
  <2>2. call[t].op # "next"
    BY <1>9, <1>b DEF Enter, Request, InHarness, Running, OwnedByCaller
  <2> QED
    BY <1>0, <1>8, <1>9, <2>1, <2>2 DEF Enter, LateErr, FutureOk, FutureErr, Panic, Running, Stage
<1>10. ASSUME NEW t \in Thread, Receive(t)
       PROVE  FeedOrder'
  <2>1. life' = life /\ Goto(t, "resolved") /\ call[t].op = "next" /\ pc(t) = "block_on"
    BY <1>10 DEF Receive, Receiving, Running
  <2>2. call'[t].pc = "resolved" /\ Same(t) /\ Others(t) /\ call'[t].ret = call[t].ret
    BY <2>1, Moved DEF Same, Others, Goto, Stage
  <2>3. call[t].ret = 0
    BY <1>b, <2>1 DEF Attended
  <2>4. Attended(t)' /\ ~Opening(t)'
    BY <2>1, <2>2, <2>3 DEF Attended, Opening, pc, Same
  <2> QED
    BY <1>1, <1>10, <1>c, <2>1, <2>2, <2>4, ChannelOrder
<1>11. ASSUME NEW t \in Thread, Serve(t)
       PROVE  FeedOrder'
  <2>1. PICK h \in Handle : h = call[t].h
    BY <1>b
  <2>2. /\ TakeEffect(t, "all") /\ UNCHANGED <<sent, chan>> /\ InHarness(t)
    BY <1>11 DEF Serve
  <2>a. PICK n : /\ owed' = [owed EXCEPT ![h] = @ + n]
                 /\ ~Request(t) => n = 0
    BY <1>11, <2>1, Zenon DEF Serve
  <2>3. life[h] # "open" => owed'[h] = owed[h]
    <3>1. life[h] # "open" => n = 0
      BY <1>b, <2>1, <2>a DEF Request, Attended
    <3> QED
      BY <1>c, <2>a, <3>1
  <2>b. pc(t) = "block_on" /\ life' = life /\ Others(t)
    BY <2>2 DEF TakeEffect, Running, Others
  <2>4. /\ call'[t].pc = "block_on" /\ Same(t) /\ Others(t) /\ life' = life /\ pc(t) = "block_on"
        /\ call'[t].ret = call[t].ret
    BY <2>2, <2>b, Effected DEF Same, pc
  <2>5. Attended(t)' /\ (Opening(t)' => Opening(t))
    BY <1>b, <2>2, <2>4 DEF Attended, Opening, pc, Same, InHarness
  <2>6. \A g \in Handle : InOrder(g)'
    <3>1. ASSUME NEW g \in Handle
          PROVE  sent'[g] = sent[g] /\ chan'[g] = chan[g] /\ (owed'[g] = owed[g] \/ life[g] = "open")
      BY <2>2, <2>3, <2>a
    <3> QED
      BY <1>c, <2>4, <3>1 DEF InOrder
  <2> QED
    BY <1>1, <2>4, <2>5, <2>6
<1>12. ASSUME NEW t \in Thread, NEW code \in Int, ReturnCode(t, code), life' = life, Channels,
              pc(t) # "idle"
       PROVE  FeedOrder'
  <2>1. call'[t].pc = "returned" /\ Same(t) /\ Others(t)
    BY <1>12, Returned DEF Same, Others, ReturnCode
  <2>2. Attended(t)' /\ ~Opening(t)'
    BY <1>12, <1>b, <2>1 DEF Attended, Opening, pc, Same
  <2> QED
    BY <1>1, <1>3, <1>12, <2>1, <2>2
<1>13. ASSUME NEW t \in Thread,
              Respond(t) \/ HandStream(t) \/ Encoded(t) \/ Closed(t) \/ NotEncoded(t)
       PROVE  FeedOrder'
  <2>1. life' = life /\ Channels /\ pc(t) # "idle"
    BY <1>13 DEF Respond, HandStream, Encoded, Closed, NotEncoded, Succeed, Receiving, Running,
                 feedVars, Channels
  <2>2. PICK code \in Int : ReturnCode(t, code)
    BY <1>13, HarnessAssumption DEF Respond, HandStream, Encoded, Closed, NotEncoded, Succeed,
                 SR_CLOSED, SR_ERROR
  <2> QED
    BY <1>12, <2>1, <2>2
<1>14. ASSUME NEW t \in Thread, NEW code \in Int, call[t].op = "connect", pc(t) # "returned",
              ReturnCode(t, code), Channels, \A g \in Handle : g # call[t].h => life'[g] = life[g]
       PROVE  FeedOrder'
  <2>1. PICK h \in Handle : h = call[t].h
    BY <1>b
  <2>2. call'[t].pc = "returned" /\ Same(t) /\ Others(t)
    BY <1>14, Returned DEF Same, Others, ReturnCode
  <2>3. life[h] = "opening" /\ owed[h] = 0
    <3>1. life[h] = "opening"
      BY <1>14, <1>b, <2>1 DEF Attended, Opening
    <3> QED
      BY <1>c, <3>1
  <2>4. Attended(t)' /\ ~Opening(t)'
    BY <1>14, <2>2 DEF Attended, Opening, pc, Same
  <2>5. \A u \in Thread \ {t} :
           call[u].h = h => call[u].op \in {"none", "next"} \/ (call[u].op = "connect" /\ pc(u) = "returned")
    BY <1>14, <1>b, <2>1, <2>3, RpcAssumption DEF Attended, Opening, OpensAlone, Calls
  <2> QED
    <3>1. UNCHANGED <<owed, sent, chan>> /\ \A g \in Handle \ {h} : life'[g] = life[g]
      BY <1>14, <2>1 DEF Channels
    <3> QED
      BY <1>2, <2>2, <2>3, <2>4, <2>5, <3>1
<1>15. ASSUME NEW t \in Thread, UNCHANGED feedVars, Connected(t) \/ Report(t)
       PROVE  FeedOrder'
  <2>0. Channels
    BY <1>15 DEF feedVars, Channels
  <2>1. CASE Connected(t)
    <3>1. /\ call[t].op = "connect" /\ pc(t) # "returned" /\ ReturnCode(t, 1)
          /\ life' = [life EXCEPT ![call[t].h] = "open"]
      BY <2>1 DEF Connected, Running
    <3> QED
      BY <1>14, <2>0, <3>1
  <2>2. CASE Report(t) /\ call[t].op # "connect"
    <3>1. life' = life /\ pc(t) # "idle"
      BY <2>2 DEF Report, NotOpened, Running
    <3>2. UNCHANGED call \/ ReturnCode(t, SR_ERROR) \/ ReturnCode(t, SR_FATAL)
      BY <2>2 DEF Report
    <3> QED
      BY <1>0, <1>12, <2>0, <3>1, <3>2 DEF SR_ERROR, SR_FATAL
  <2>3. CASE Report(t) /\ call[t].op = "connect"
    <3>1. (UNCHANGED call /\ life' = life) \/ life' = [life EXCEPT ![call[t].h] = "absent"]
      BY <2>3 DEF Report, NotOpened
    <3>2. pc(t) # "returned" /\ (UNCHANGED <<call, life>> \/ ReturnCode(t, SR_ERROR) \/ ReturnCode(t, SR_FATAL))
      BY <2>3 DEF Report, Running
    <3>3. UNCHANGED <<call, life>>
            \/ (life' = [life EXCEPT ![call[t].h] = "absent"] /\ \E code \in Int : ReturnCode(t, code))
      BY <2>3 DEF Report, NotOpened, SR_ERROR, SR_FATAL
    <3> QED
      BY <1>0, <1>14, <2>0, <2>3, <3>2, <3>3
  <2> QED
    BY <1>15, <2>1, <2>2, <2>3
<1>16. ASSUME NEW t \in Thread, GiveBack(t)
       PROVE  FeedOrder'
  <2>1. /\ life' = life /\ Channels /\ Others(t) /\ call'[t] = NoCall
    BY <1>16 DEF GiveBack, Collect, Channels, Others
  <2>2. Attended(t)' /\ ~Opening(t)'
    BY <2>1 DEF Attended, Opening, pc, NoCall, NewCall
  <2> QED
    BY <1>1, <1>3, <2>1, <2>2
<1>17. ASSUME NEW h \in Handle, Notify(h)
       PROVE  FeedOrder'
  <2>1. UNCHANGED <<call, life>>
    BY <1>17 DEF Notify, harnessVars
  <2>2. \A g \in Handle : InOrder(g)'
    BY <1>17, <1>c, ChannelOrder
  <2> QED
    BY <2>1, <2>2 DEF FeedOrder, Attended, Opening, OpensAlone, pc
<1>18. ASSUME NEW t \in Thread, stream_free(t)
       PROVE  FeedOrder'
  BY <1>0, <1>18 DEF stream_free, harnessVars, feedVars, Channels
<1>19. CASE UNCHANGED vars
  BY <1>0, <1>19 DEF vars, harnessVars, feedVars, Channels
<1>20. ASSUME NEW t \in Thread, Step(t)
       PROVE  FeedOrder'
  <2>1. CASE Respond(t) \/ HandStream(t) \/ Receive(t) \/ Closed(t) \/ Encoded(t) \/ NotEncoded(t)
    BY <1>10, <1>13, <2>1
  <2>2. CASE Serve(t) \/ GiveBack(t)
    BY <1>11, <1>16, <2>2
  <2>3. CASE Quietly(Connected(t)) \/ Quietly(Report(t))
    BY <1>15, <2>3 DEF Quietly
  <2>4. CASE Quietly(Enter(t)) \/ Unimplemented(t)
    BY <1>9, <2>4 DEF Quietly, Unimplemented
  <2>5. CASE Quietly(Resolve(t)) \/ Quietly(InHarness(t) /\ (FutureErr(t) \/ Panic(t)))
    BY <1>9, <2>5 DEF Quietly, Resolve
  <2> QED
    BY <1>20, <2>1, <2>2, <2>3, <2>4, <2>5 DEF Step
<1> QED
  BY <1>4, <1>5, <1>6, <1>7, <1>17, <1>18, <1>19, <1>20 DEF Next

(* What the feed sees of a thread changes only with its own call.           *)
LEMMA ReaderView ==
    ASSUME NEW t \in Thread, \A u \in Thread \ {t} : call'[u] = call[u] /\ note'[u] = note[u]
    PROVE  /\ [u \in Thread |-> Asked(u)]' = [[u \in Thread |-> Asked(u)] EXCEPT ![t] = Asked(t)']
           /\ [u \in Thread |-> Told(u)]' = [[u \in Thread |-> Told(u)] EXCEPT ![t] = Told(t)']
<1>1. \A u \in Thread \ {t} : Asked(u)' = Asked(u) /\ News(u)' = News(u)
  BY DEF Asked, News, pc
<1>2. \A u \in Thread \ {t} : Told(u)' = Told(u)
  BY <1>1, Zenon DEF Told
<1> QED
  BY <1>1, <1>2, Zenon

(* Every step of contexts and readers is a step of the feed, or a stutter.  *)
LEMMA FeedStep ==
    ASSUME TypeOK, CallerMemory, FeedOrder, FeedOrder', [Next]_vars
    PROVE  [Feed!Next]_Feed!vars
<1> USE DEF TypeOK, HarnessTypeOK
<1> DEFINE Abstract == [Feed!Next]_Feed!vars
           open == [h \in Handle |-> life[h] = "open"]
           taken == [h \in Handle |-> Taken(h)]
           asks == [t \in Thread |-> Asked(t)]
           told == [t \in Thread |-> Told(t)]
           Others(t) == \A u \in Thread \ {t} : call'[u] = call[u] /\ note'[u] = note[u]
           bad == [h \in Handle |-> {}]
           Contexts == UNCHANGED <<open, sent, taken, bad>>
<1>b. ASSUME NEW t \in Thread
      PROVE  /\ call[t] \in Calls /\ call[t].h \in Handle /\ OwnedByCaller(t) /\ Attended(t)
             /\ Attended(t)'
  BY DEF CallerMemory, FeedOrder, Calls
<1>c. ASSUME life' = life, sent' = sent, chan' = chan PROVE Contexts
  BY <1>c DEF Taken
<1>d. ASSUME NEW t \in Thread, call[t].op # "next" PROVE Asked(t) = "none" /\ Told(t) = Feed!Nothing
  BY <1>d DEF Asked, Told, News, Feed!Nothing, Feed!News
<1>e. ASSUME NEW t \in Thread, call'[t].op # "next"
      PROVE  Asked(t)' = "none" /\ Told(t)' = Feed!Nothing
  BY <1>e DEF Asked, Told, News, Feed!Nothing, Feed!News
<1>v. ASSUME NEW t \in Thread, Others(t)
      PROVE  asks' = [asks EXCEPT ![t] = Asked(t)'] /\ told' = [told EXCEPT ![t] = Told(t)']
  BY <1>v, ReaderView
<1>w. ASSUME NEW t \in Thread, Others(t)
      PROVE  /\ Asked(t)' = Asked(t) => asks' = asks
             /\ Told(t)' = Told(t) => told' = told
  BY <1>v, <1>w
<1>1. ASSUME NEW t \in Thread, Others(t), Contexts, Asked(t)' = Asked(t), Told(t)' = Told(t)
      PROVE  Abstract
  <2>1. asks' = asks /\ told' = told
    BY <1>1, <1>v
  <2> QED
    BY <1>1, <2>1 DEF Feed!vars
<1>2. ASSUME NEW t \in Thread, Others(t), Contexts, call[t].op # "next", call'[t].op # "next"
      PROVE  Abstract
  BY <1>1, <1>2, <1>d, <1>e
<1>3. ASSUME NEW t \in Thread, NEW h \in Handle,
             new(t, h) \/ execute(t, h) \/ notifications(t, h)
      PROVE  Abstract
  <2>1. /\ Others(t) /\ call[t].op # "next" /\ call'[t].op # "next" /\ UNCHANGED <<sent, chan>>
    <3>1. PICK stage \in {"gate", "block_on", "returned"}, o \in {"connect", "execute", "notifications"},
               ep \in ErrPtr, w \in BOOLEAN, ret \in {0, SR_ERROR} :
            call' = [call EXCEPT ![t] = NewCall(stage, o, h, ep, w, ret)]
      BY <1>3 DEF new, execute, notifications, Connect, Invoke, check_null
    <3>2. pc(t) = "idle" /\ UNCHANGED <<sent, chan, note>>
      BY <1>3 DEF new, execute, notifications, Connect, Invoke, check_null, Running, feedVars
    <3>3. call[t].op # "next"
      BY <1>b, <3>2 DEF OwnedByCaller
    <3>4. call'[t].op = o
      BY <3>1 DEF NewCall
    <3> QED
      BY <3>1, <3>2, <3>3, <3>4
  <2>2. \A g \in Handle : (life'[g] = "open") = (life[g] = "open")
    BY <1>3 DEF new, execute, notifications, Connect, Invoke, check_null
  <2>3. Contexts
    BY <2>1, <2>2 DEF Taken
  <2> QED
    BY <1>2, <2>1, <2>3
<1>4. ASSUME NEW t \in Thread, NEW h \in Handle, rpc_free(t, h)
      PROVE  Abstract
  <2>1. UNCHANGED <<call, sent, chan, note>> /\ life' = [life EXCEPT ![h] = "freed"]
    BY <1>4 DEF rpc_free
  <2>2. asks' = asks /\ told' = told /\ taken' = taken
    BY <2>1 DEF Asked, Told, News, pc, Taken
  <2>3. open' = [f \in Handle |-> open[f] /\ f \notin {h}]
    BY <2>1
  <2>4. Feed!Close({h})
    BY <2>1, <2>2, <2>3, Zenon DEF Feed!Close
  <2> QED
    BY <2>4 DEF Feed!Next
<1>5. ASSUME NEW t \in Thread, next(t)
      PROVE  Abstract
  <2>1. /\ stream[t] \in Handle /\ Others(t) /\ UNCHANGED <<life, sent, chan>>
        /\ call'[t] = NewCall("block_on", "next", stream[t], "null", TRUE, 0)
        /\ call[t].op # "next"
    BY <1>5, <1>b DEF next, Running, OwnedByCaller, feedVars
  <2>2. Asked(t)' = stream[t] /\ Told(t)' = Feed!Nothing
    BY <2>1 DEF NewCall, Asked, Told, News, pc, Feed!Nothing, Feed!News
  <2>3. Asked(t) = "none" /\ Told(t) = Feed!Nothing
    BY <1>d, <2>1
  <2>4. asks' = [asks EXCEPT ![t] = stream[t]] /\ told' = told /\ asks[t] = "none"
    BY <1>v, <1>w, <2>1, <2>2, <2>3
  <2>5. Feed!Ask(t, stream[t])
    BY <1>c, <2>1, <2>4 DEF Feed!Ask
  <2> QED
    BY <2>1, <2>5 DEF Feed!Next
<1>6. ASSUME NEW h \in Handle, Notify(h)
      PROVE  Abstract
  <2>1. /\ UNCHANGED <<call, life, note>> /\ sent' = [sent EXCEPT ![h] = @ + 1]
        /\ owed[h] > 0 /\ chan' = [chan EXCEPT ![h] = Append(@, sent'[h])]
    BY <1>6 DEF Notify, harnessVars
  <2>2. asks' = asks /\ told' = told /\ open' = open
    BY <2>1 DEF Asked, Told, News, pc
  <2>3. ASSUME NEW g \in Handle PROVE Taken(g)' = Taken(g)
    <3>1. CASE g = h
      <4>1. PICK more : more = Append(chan[h], sent'[h])
        OBVIOUS
      <4>2. Len(more) = Len(chan[h]) + 1 /\ Len(chan[h]) \in Nat /\ sent[h] \in Nat
        BY <4>1
      <4> QED
        BY <2>1, <3>1, <4>1, <4>2 DEF Taken
    <3>2. CASE g # h
      BY <2>1, <3>2 DEF Taken
    <3> QED
      BY <3>1, <3>2
  <2>4. taken' = taken
    BY <2>3
  <2>5. open[h]
    BY <2>1 DEF FeedOrder, InOrder
  <2>6. Feed!Send(h)
    BY <2>1, <2>2, <2>4, <2>5 DEF Feed!Send
  <2> QED
    BY <2>6 DEF Feed!Next
<1>7. ASSUME NEW t \in Thread, UNCHANGED feedVars,
             \/ Enter(t)
             \/ LateErr(t) /\ Request(t)
             \/ InHarness(t) /\ (FutureOk(t) \/ FutureErr(t) \/ Panic(t))
      PROVE  Abstract
  <2>1. PICK stage \in Stage : Goto(t, stage) \/ UNCHANGED call
    BY <1>7 DEF Enter, LateErr, FutureOk, FutureErr, Panic, Stage
  <2>2. call[t].op # "next" /\ UNCHANGED <<life, sent, chan, note>>
    BY <1>7, <1>b DEF Enter, LateErr, FutureOk, FutureErr, Panic, Request, InHarness, Running,
                      OwnedByCaller, feedVars
  <2>3. Others(t) /\ call'[t].op # "next"
    BY <2>1, <2>2, Moved DEF Goto
  <2> QED
    BY <1>2, <1>c, <2>2, <2>3
<1>8. ASSUME NEW t \in Thread, Serve(t)
      PROVE  Abstract
  <2>1. TakeEffect(t, "all") /\ call[t].op # "next" /\ UNCHANGED <<sent, chan, note>>
    BY <1>8 DEF Serve, InHarness
  <2>2. Others(t) /\ call'[t].op # "next" /\ life' = life
    BY <2>1, Effected DEF TakeEffect
  <2> QED
    BY <1>2, <1>c, <2>1, <2>2
<1>9. ASSUME NEW t \in Thread, NEW code \in Int, ReturnCode(t, code), call[t].op # "next",
             UNCHANGED <<sent, chan, note>>, \A h \in Handle : (life'[h] = "open") = (life[h] = "open")
      PROVE  Abstract
  <2>1. Others(t) /\ call'[t].op # "next"
    BY <1>9, Returned DEF ReturnCode
  <2>2. Contexts
    BY <1>9 DEF Taken
  <2> QED
    BY <1>2, <1>9, <2>1, <2>2
<1>10. ASSUME NEW t \in Thread, Respond(t) \/ HandStream(t)
       PROVE  Abstract
  <2>1. PICK code \in Int : ReturnCode(t, code)
    BY <1>10, HarnessAssumption DEF Respond, HandStream, Succeed
  <2>2. call[t].op # "next" /\ UNCHANGED <<sent, chan, note, life>>
    BY <1>10 DEF Respond, HandStream, Request, Succeed, feedVars
  <2> QED
    BY <1>9, <2>1, <2>2
<1>11. ASSUME NEW t \in Thread, Connected(t), UNCHANGED feedVars
       PROVE  Abstract
  <2>1. PICK h \in Handle : h = call[t].h
    BY <1>b
  <2>2. /\ ReturnCode(t, 1) /\ call[t].op = "connect" /\ UNCHANGED <<sent, chan, note>>
        /\ life' = [life EXCEPT ![h] = "open"]
    BY <1>11, <2>1 DEF Connected, feedVars
  <2>3. Others(t) /\ call'[t].op = "connect"
    <3>1. call'[t].op = call[t].op
      BY <2>2, Returned
    <3> QED
      BY <2>2, <3>1 DEF ReturnCode
  <2>4. asks' = asks /\ told' = told
    BY <1>d, <1>e, <1>w, <2>2, <2>3
  <2>5. open' = [open EXCEPT ![h] = TRUE] /\ taken' = taken
    BY <2>2 DEF Taken
  <2>6. Feed!Open(h)
    BY <2>2, <2>4, <2>5 DEF Feed!Open
  <2> QED
    BY <2>6 DEF Feed!Next
<1>12. ASSUME NEW t \in Thread, Report(t), UNCHANGED feedVars
       PROVE  Abstract
  <2>1. call[t].op # "next" /\ UNCHANGED <<sent, chan, note>>
    BY <1>12, <1>b DEF Report, Running, OwnedByCaller, feedVars
  <2>2. \A h \in Handle : (life'[h] = "open") = (life[h] = "open")
    <3>1. PICK h \in Handle : h = call[t].h
      BY <1>b
    <3>2. /\ pc(t) # "returned"
          /\ life' = life \/ life' = [life EXCEPT ![h] = IF call[t].op = "connect" THEN "absent" ELSE @]
      BY <1>12, <3>1 DEF Report, NotOpened, Running
    <3>3. call[t].op = "connect" => life[h] = "opening"
      BY <1>b, <3>1, <3>2 DEF Attended, Opening
    <3> QED
      BY <3>2, <3>3
  <2>3. CASE UNCHANGED call
    <3>1. Others(t) /\ call'[t].op # "next" /\ Contexts
      BY <2>1, <2>2, <2>3 DEF Taken
    <3> QED
      BY <1>2, <2>1, <3>1
  <2>4. CASE ReturnCode(t, SR_ERROR) \/ ReturnCode(t, SR_FATAL)
    BY <1>9, <2>1, <2>2, <2>4 DEF SR_ERROR, SR_FATAL
  <2> QED
    BY <1>12, <2>3, <2>4 DEF Report
<1>13. ASSUME NEW t \in Thread, Receive(t)
       PROVE  Abstract
  <2>1. PICK h \in Handle : h = call[t].h
    BY <1>b
  <2>2. /\ call[t].op = "next" /\ pc(t) = "block_on" /\ Goto(t, "resolved") /\ UNCHANGED <<life, sent>>
        /\ chan[h] # <<>> /\ note' = [note EXCEPT ![t] = Head(chan[h])]
        /\ chan' = [chan EXCEPT ![h] = Tail(@)]
    BY <1>13, <2>1 DEF Receive, Receiving, Running
  <2>3. /\ call'[t].pc = "resolved" /\ call'[t].op = "next" /\ call'[t].h = h
        /\ call'[t].ret = 0 /\ Others(t)
    BY <1>b, <2>1, <2>2, Moved DEF Goto, Stage, Attended
  <2>4. /\ Len(chan[h]) \in Nat /\ Len(chan[h]) > 0 /\ Len(Tail(chan[h])) = Len(chan[h]) - 1
        /\ Head(chan[h]) = chan[h][1] /\ sent[h] \in Nat /\ Len(chan[h]) <= sent[h]
    BY <2>2 DEF FeedOrder, InOrder
  <2>5. Head(chan[h]) = Taken(h) + 1
    <3>1. chan[h][1] = sent[h] - Len(chan[h]) + 1
      BY <2>4 DEF FeedOrder, InOrder
    <3> QED
      BY <2>4, <3>1 DEF Taken
  <2>6. taken' = [taken EXCEPT ![h] = @ + 1]
    <3>1. Taken(h)' = Taken(h) + 1
      BY <2>2, <2>4 DEF Taken
    <3>2. \A g \in Handle \ {h} : Taken(g)' = Taken(g)
      BY <2>2 DEF Taken
    <3> QED
      BY <3>1, <3>2
  <2>7. Asked(t) = h /\ Asked(t)' = h /\ h # "none" /\ Told(t) = Feed!Nothing
    BY <2>1, <2>2, <2>3, RpcAssumption DEF Asked, Told, News, Feed!Nothing, Feed!News
  <2>8. Told(t)' = Feed!News("notification", taken'[h])
    <3>1. News(t)' = "notification"
      BY <2>3 DEF News, pc, SR_CLOSED, SR_ERROR
    <3>2. note'[t] = taken'[h]
      BY <2>2, <2>5, <2>6
    <3> QED
      BY <3>1, <3>2 DEF Told, Feed!News
  <2>9. asks' = asks /\ told' = [told EXCEPT ![t] = Feed!News("notification", taken'[h])]
    BY <1>v, <1>w, <2>3, <2>7, <2>8
  <2>10. /\ asks[t] = h /\ told[t] = Feed!Nothing /\ taken[h] + 1 <= sent[h] /\ open' = open
    <3>1. Taken(h) + 1 <= sent[h]
      BY <2>4 DEF Taken
    <3> QED
      BY <2>2, <2>7, <3>1
  <2>12. bad[h] = {} /\ bad' = [bad EXCEPT ![h] = @ \ {taken[h] + 1}]
    BY Zenon
  <2>11. Feed!Tell(t)
    BY <2>2, <2>6, <2>7, <2>9, <2>10, <2>12 DEF Feed!Tell
  <2> QED
    BY <2>11 DEF Feed!Next
<1>14. ASSUME NEW t \in Thread, Closed(t)
       PROVE  Abstract
  <2>1. PICK h \in Handle : h = call[t].h
    BY <1>b
  <2>2. /\ call[t].op = "next" /\ pc(t) = "block_on" /\ ReturnCode(t, SR_CLOSED)
        /\ life[h] = "freed" /\ chan[h] = <<>> /\ UNCHANGED <<life, sent, chan, note>>
    BY <1>14, <2>1 DEF Closed, Gone, Receiving, Running, feedVars
  <2>3. /\ call'[t].pc = "returned" /\ call'[t].op = "next" /\ call'[t].h = h
        /\ call'[t].ret = SR_CLOSED /\ Others(t)
    <3>1. SR_CLOSED \in Int
      BY DEF SR_CLOSED
    <3>2. /\ call'[t].pc = "returned" /\ call'[t].op = call[t].op /\ call'[t].h = call[t].h
          /\ call'[t].ret = SR_CLOSED
      BY <2>2, <3>1, Returned
    <3>3. Others(t)
      BY <2>2 DEF ReturnCode
    <3> QED
      BY <2>1, <2>2, <3>2, <3>3
  <2>4. Asked(t) = h /\ Asked(t)' = h /\ h # "none" /\ Told(t) = Feed!Nothing
    BY <2>1, <2>2, <2>3, RpcAssumption DEF Asked, Told, News, Feed!Nothing, Feed!News
  <2>5. Told(t)' = Feed!News("closed", 0)
    BY <2>3 DEF Told, News, pc, Feed!News
  <2>6. asks' = asks /\ told' = [told EXCEPT ![t] = Feed!News("closed", 0)]
    BY <1>v, <1>w, <2>3, <2>4, <2>5
  <2>7. asks[t] = h /\ told[t] = Feed!Nothing /\ ~open[h] /\ taken[h] = sent[h]
    <3>1. Len(chan[h]) = 0 /\ sent[h] \in Nat
      BY <2>2
    <3> QED
      <4>1. Taken(h) = sent[h]
        BY <3>1 DEF Taken
      <4>2. ~open[h] /\ asks[t] = h /\ told[t] = Feed!Nothing
        BY <2>2, <2>4
      <4> QED
        BY <4>1, <4>2
  <2>8. Feed!End(t)
    BY <1>c, <2>2, <2>4, <2>6, <2>7 DEF Feed!End
  <2> QED
    BY <2>8 DEF Feed!Next
<1>15. ASSUME NEW t \in Thread, NEW code \in Int, Receiving(t, "resolved"), ReturnCode(t, code),
              UNCHANGED <<life, sent, chan, note>>
       PROVE  /\ Others(t) /\ Contexts /\ Asked(t)' = Asked(t)
              /\ call'[t].pc = "returned" /\ call'[t].op = "next" /\ call'[t].ret = code
              /\ call[t].op = "next" /\ News(t) = "notification"
  <2>1. call[t].op = "next" /\ pc(t) = "resolved" /\ call[t].ret = 0
    BY <1>15, <1>b DEF Receiving, Running, Attended
  <2>2. /\ call'[t].pc = "returned" /\ call'[t].op = "next" /\ call'[t].h = call[t].h
        /\ call'[t].ret = code /\ Others(t)
    BY <1>15, <2>1, Returned DEF ReturnCode
  <2>3. Asked(t)' = Asked(t)
    BY <2>1, <2>2 DEF Asked
  <2>4. News(t) = "notification"
    BY <2>1 DEF News, SR_CLOSED, SR_ERROR
  <2> QED
    BY <1>15, <1>c, <2>1, <2>2, <2>3, <2>4
<1>16. ASSUME NEW t \in Thread, Encoded(t)
       PROVE  Abstract
  <2>1. PICK len \in 1..MaxCode : Succeed(t, len, "owned")
    BY <1>16 DEF Encoded
  <2>2. /\ len \in Int /\ len > 0 /\ Receiving(t, "resolved") /\ ReturnCode(t, len)
        /\ UNCHANGED <<life, sent, chan, note>>
    BY <1>16, <2>1, HarnessAssumption DEF Encoded, Succeed, feedVars
  <2>3. /\ Others(t) /\ Contexts /\ Asked(t)' = Asked(t) /\ News(t) = "notification"
        /\ call'[t].pc = "returned" /\ call'[t].op = "next" /\ call'[t].ret = len
    BY <1>15, <2>2
  <2>4. News(t)' = "notification"
    BY <2>2, <2>3 DEF News, pc, SR_CLOSED, SR_ERROR
  <2>5. Told(t)' = Told(t)
    BY <2>2, <2>3, <2>4 DEF Told
  <2> QED
    BY <1>1, <2>3, <2>5
<1>17. ASSUME NEW t \in Thread, NotEncoded(t)
       PROVE  Abstract
  <2>1. SR_ERROR \in Int /\ Receiving(t, "resolved") /\ ReturnCode(t, SR_ERROR)
        /\ UNCHANGED <<life, sent, chan, note>>
    BY <1>17 DEF NotEncoded, feedVars, SR_ERROR
  <2>2. /\ Others(t) /\ Contexts /\ Asked(t)' = Asked(t) /\ News(t) = "notification"
        /\ call'[t].pc = "returned" /\ call'[t].op = "next" /\ call'[t].ret = SR_ERROR
    BY <1>15, <2>1
  <2>3. /\ Told(t)' = Feed!News("error", Told(t).no) /\ Told(t).is = "notification"
    BY <2>1, <2>2 DEF Told, News, pc, SR_CLOSED, SR_ERROR, Feed!News
  <2>4. asks' = asks /\ told' = [told EXCEPT ![t] = Feed!News("error", Told(t).no)]
    BY <1>v, <1>w, <2>2, <2>3
  <2>5. told[t].is = "notification" /\ told[t] = Told(t)
    BY <2>3
  <2>6. Feed!Spoil(t)
    BY <2>2, <2>4, <2>5 DEF Feed!Spoil
  <2> QED
    BY <2>6 DEF Feed!Next
<1>18. ASSUME NEW t \in Thread, GiveBack(t)
       PROVE  Abstract
  <2>1. /\ pc(t) = "returned" /\ call'[t].op = "none" /\ Others(t) /\ UNCHANGED <<life, sent, chan>>
    BY <1>18 DEF GiveBack, Collect, Running, NoCall, NewCall
  <2>2. Contexts
    BY <1>c, <2>1
  <2>3. CASE call[t].op # "next"
    BY <1>2, <2>1, <2>2, <2>3
  <2>4. CASE call[t].op = "next"
    <3>1. Asked(t)' = "none" /\ Told(t)' = Feed!Nothing
      BY <1>e, <2>1
    <3>2. asks' = [asks EXCEPT ![t] = "none"] /\ told' = [told EXCEPT ![t] = Feed!Nothing]
      BY <1>v, <2>1, <3>1
    <3>3. told[t] # Feed!Nothing
      BY <2>1, <2>4 DEF Told, News, Feed!Nothing, Feed!News
    <3>4. Feed!Done(t)
      BY <2>2, <3>2, <3>3 DEF Feed!Done
    <3> QED
      BY <3>4 DEF Feed!Next
  <2> QED
    BY <2>3, <2>4
<1>19. ASSUME UNCHANGED <<call, life, sent, chan, note>>
       PROVE  Abstract
  <2>1. asks' = asks /\ told' = told
    BY <1>19 DEF Asked, Told, News, pc
  <2> QED
    BY <1>19, <1>c, <2>1 DEF Feed!vars
<1>20. ASSUME NEW t \in Thread, stream_free(t)
       PROVE  Abstract
  BY <1>19, <1>20 DEF stream_free, harnessVars, feedVars
<1>21. ASSUME UNCHANGED vars
       PROVE  Abstract
  BY <1>19, <1>21 DEF vars, harnessVars, feedVars
<1> SUFFICES Abstract
  OBVIOUS
<1> HIDE DEF Abstract, open, taken, asks, told, bad, Others, Contexts
<1>22. ASSUME NEW t \in Thread, Step(t)
       PROVE  Abstract
  <2>1. CASE Respond(t) \/ HandStream(t) \/ Receive(t) \/ Closed(t) \/ Encoded(t) \/ NotEncoded(t)
    BY <1>10, <1>13, <1>14, <1>16, <1>17, <2>1
  <2>2. CASE Serve(t) \/ GiveBack(t)
    BY <1>8, <1>18, <2>2
  <2>3. CASE Quietly(Connected(t)) \/ Quietly(Report(t))
    BY <1>11, <1>12, <2>3 DEF Quietly
  <2>4. CASE Quietly(Enter(t)) \/ Unimplemented(t)
    BY <1>7, <2>4 DEF Quietly, Unimplemented
  <2>5. CASE Quietly(Resolve(t)) \/ Quietly(InHarness(t) /\ (FutureErr(t) \/ Panic(t)))
    BY <1>7, <2>5 DEF Quietly, Resolve
  <2> QED
    BY <1>22, <2>1, <2>2, <2>3, <2>4, <2>5 DEF Step
<1>23. CASE Next
  <2>1. ASSUME NEW t \in Thread, NEW h \in Handle,
               new(t, h) \/ execute(t, h) \/ notifications(t, h) \/ rpc_free(t, h)
        PROVE  Abstract
    BY <1>3, <1>4, <2>1
  <2>2. ASSUME NEW t \in Thread, next(t) \/ stream_free(t) \/ Step(t)
        PROVE  Abstract
    BY <1>5, <1>20, <1>22, <2>2
  <2> QED
    BY <1>6, <1>23, <2>1, <2>2 DEF Next
<1> QED
  BY <1>21, <1>23

(* For any number of readers, contexts and streams: the streams of a context *)
(* together are one feed.                                                   *)
THEOREM FeedKept ==
    ASSUME ErrPtr = {"valid"}
    PROVE  Spec => KeepsFeed
<1>1. Init => Feed!Init
  <2> SUFFICES ASSUME Init PROVE Feed!Init
    OBVIOUS
  <2>1. \A h \in Handle : ~(life[h] = "open") /\ Taken(h) = 0 /\ sent[h] = 0
    BY DEF Init, HarnessInit, Taken
  <2>2. \A t \in Thread : call[t].op = "none"
    BY DEF Init, HarnessInit, NoCall, NewCall
  <2>3. \A t \in Thread : Asked(t) = "none" /\ Told(t) = Feed!Nothing
    BY <2>2 DEF Asked, Told, News, Feed!Nothing, Feed!News
  <2>4. sent = [h \in Handle |-> 0]
    BY DEF Init
  <2> QED
    BY <2>1, <2>3, <2>4, Zenon DEF Feed!Init
<1>2. Init => CallerMemory /\ FeedOrder
  BY CallerMemoryInit, FeedOrderInit
<1>3. TypeOK /\ CallerMemory /\ FeedOrder /\ [Next]_vars => CallerMemory' /\ FeedOrder'
  BY CallerMemoryInductive, FeedOrderInductive
<1>4. TypeOK /\ CallerMemory /\ FeedOrder /\ [Next]_vars /\ FeedOrder' => [Feed!Next]_Feed!vars
  BY FeedStep
<1> QED
  BY <1>1, <1>2, <1>3, <1>4, RpcTypeCorrect, PTL DEF Spec, KeepsFeed, Feed!Spec
================================================================================
