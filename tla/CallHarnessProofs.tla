--------------------------- MODULE CallHarnessProofs ---------------------------
(* Lemmas about the harness, for both kinds of handle. *)
EXTENDS CallHarness, TLAPS

(* A call record with fields of the right types is a call. *)
LEMMA PlainCalls ==
    ASSUME NEW o \in Op \cup {"connect", "none"}, NEW h \in Handle, NEW ep \in {"valid", "null"}
    PROVE  /\ NewCall("returned", o, h, ep, FALSE, SR_ERROR) \in Calls
           /\ NewCall("block_on", o, h, ep, FALSE, 0) \in Calls
           /\ NewCall("block_on", o, h, ep, TRUE, 0) \in Calls
           /\ NewCall("idle", o, h, ep, FALSE, 0) \in Calls
           /\ \A w \in BOOLEAN : NewCall("gate", o, h, ep, w, 0) \in Calls
BY HarnessAssumption DEF NewCall, Calls, Stage, Extent, SR_ERROR, SR_FATAL

(* A call that moves on stays well typed. *)
LEMMA MovedCall ==
    ASSUME call \in [Thread -> Calls], NEW t \in Thread, NEW stage \in Stage, Goto(t, stage)
    PROVE  call' \in [Thread -> Calls]
<1>1. [call[t] EXCEPT !.pc = stage] \in Calls
  BY DEF Calls
<1> QED
  BY <1>1 DEF Goto

(* So does one that returns a code. *)
LEMMA ReturnedCall ==
    ASSUME call \in [Thread -> Calls], NEW t \in Thread, NEW code \in SR_FATAL..MaxCode,
           ReturnCode(t, code)
    PROVE  call' \in [Thread -> Calls]
<1>1. [call[t] EXCEPT !.pc = "returned", !.ret = code] \in Calls
  BY DEF Calls, Stage
<1> QED
  BY <1>1 DEF ReturnCode

(* And the call of a thread that is in none. *)
LEMMA NoCallShape == NoCall \in Calls
<1>1. AnyHandle \in Handle
  BY HarnessAssumption DEF AnyHandle
<1> QED
  BY <1>1, PlainCalls DEF NoCall

(* What moving on and returning a code leave of the call. *)
LEMMA Moved ==
    ASSUME call \in [Thread -> Calls], NEW t \in Thread, NEW stage \in Stage, Goto(t, stage)
    PROVE  /\ call'[t].pc = stage /\ call'[t].ret = call[t].ret
           /\ call'[t].op = call[t].op /\ call'[t].done = call[t].done
           /\ call'[t].h = call[t].h /\ call'[t].want = call[t].want
BY DEF Goto, Calls

(* And what the database's work leaves of it. *)
LEMMA Effected ==
    ASSUME call \in [Thread -> Calls], NEW t \in Thread, NEW how, TakeEffect(t, how)
    PROVE  /\ call'[t].pc = call[t].pc /\ call'[t].ret = call[t].ret
           /\ call'[t].op = call[t].op /\ call'[t].done = how
           /\ call'[t].h = call[t].h /\ call'[t].ep = call[t].ep
           /\ call'[t].want = call[t].want
BY DEF TakeEffect, Calls

(* The same for a call that returns. *)
LEMMA Returned ==
    ASSUME call \in [Thread -> Calls], NEW t \in Thread, NEW code \in Int, ReturnCode(t, code)
    PROVE  /\ call'[t].pc = "returned" /\ call'[t].ret = code /\ call'[t].op = call[t].op
           /\ call'[t].ep = call[t].ep /\ call'[t].want = call[t].want
           /\ call'[t].done = call[t].done /\ call'[t].h = call[t].h
BY DEF ReturnCode, Calls

--------------------------------------------------------------------------------
(* The harness keeps its types: at first, *)
LEMMA HarnessTypeInit ==
    ASSUME HarnessInit
    PROVE  HarnessTypeOK
BY NoCallShape, Zenon DEF HarnessInit, HarnessTypeOK, Life, Cell

(* when the program makes a call, *)
LEMMA CallTypes ==
    ASSUME HarnessTypeOK, NEW t \in Thread, NEW h \in Handle, NEW ep \in ErrPtr,
           NEW o \in Op \cup {"connect"}, NEW w \in BOOLEAN,
           check_null(t, h, o, ep) \/ Invoke(t, h, o, ep, w) \/ Connect(t, h, ep)
              \/ Disconnect(t, h)
    PROVE  HarnessTypeOK'
<1> USE HarnessAssumption DEF HarnessTypeOK, Life, Cell
<1>1. CASE check_null(t, h, o, ep)
  <2>1. NewCall("returned", o, h, ep, FALSE, SR_ERROR) \in Calls
    BY PlainCalls
  <2> QED
    BY <1>1, <2>1 DEF check_null, write_error, OverwriteErr
<1>2. CASE Invoke(t, h, o, ep, w)
  <2>1. NewCall("gate", o, h, ep, w, 0) \in Calls
    BY PlainCalls
  <2> QED
    BY <1>2, <2>1 DEF Invoke
<1>3. CASE Connect(t, h, ep)
  <2>1. NewCall("block_on", "connect", h, ep, FALSE, 0) \in Calls
    BY PlainCalls
  <2> QED
    BY <1>3, <2>1 DEF Connect
<1>4. CASE Disconnect(t, h)
  BY <1>4 DEF Disconnect
<1> QED
  BY <1>1, <1>2, <1>3, <1>4

(* while the call is in the future, *)
LEMMA FutureTypes ==
    ASSUME HarnessTypeOK, NEW t \in Thread,
           Enter(t) \/ FutureOk(t) \/ FutureErr(t) \/ LateErr(t) \/ Panic(t)
              \/ \E how \in Extent : TakeEffect(t, how)
    PROVE  HarnessTypeOK'
<1> USE DEF HarnessTypeOK
<1>1. CASE Enter(t) \/ FutureOk(t) \/ FutureErr(t) \/ LateErr(t) \/ Panic(t)
  BY <1>1, MovedCall DEF Enter, FutureOk, FutureErr, LateErr, Panic, Stage
<1>2. ASSUME NEW how \in Extent, TakeEffect(t, how) PROVE HarnessTypeOK'
  <2>1. [call[t] EXCEPT !.done = how] \in Calls
    BY DEF Calls
  <2>2. call' \in [Thread -> Calls]
    BY <1>2, <2>1 DEF TakeEffect
  <2> QED
    BY <1>2, <2>2 DEF TakeEffect
<1> QED
  BY <1>1, <1>2

(* and when it ends. *)
LEMMA AnswerTypes ==
    ASSUME HarnessTypeOK, NEW t \in Thread,
           Connected(t) \/ Report(t) \/ Collect(t)
              \/ \E code \in 0..MaxCode, content \in Cell : Succeed(t, code, content)
    PROVE  HarnessTypeOK'
<1> USE HarnessAssumption DEF HarnessTypeOK, SR_FATAL, SR_ERROR
<1>1. CASE Connected(t)
  <2>1. call' \in [Thread -> Calls]
    BY <1>1, ReturnedCall, 1 \in SR_FATAL..MaxCode DEF Connected
  <2> QED
    BY <1>1, <2>1 DEF Connected, Life
<1>2. CASE Report(t)
  <2>1. call' \in [Thread -> Calls]
    BY <1>2, ReturnedCall DEF Report
  <2>2. fatal' \in [Handle -> BOOLEAN] /\ lost' \in BOOLEAN
    BY <1>2, Zenon DEF Report, OverwriteErr
  <2>3. life' \in [Handle -> Life] /\ err' \in [Thread -> Cell]
    BY <1>2 DEF Report, OverwriteErr, NotOpened, Life, Cell
  <2> QED
    BY <1>2, <2>1, <2>2, <2>3 DEF Report
<1>3. CASE Collect(t)
  BY <1>3, NoCallShape DEF Collect, Cell
<1>4. ASSUME NEW code \in 0..MaxCode, NEW content \in Cell, Succeed(t, code, content)
      PROVE  HarnessTypeOK'
  <2>1. call' \in [Thread -> Calls]
    BY <1>4, ReturnedCall DEF Succeed
  <2>2. lost' \in BOOLEAN
    BY <1>4 DEF Succeed
  <2> QED
    BY <1>4, <2>1, <2>2 DEF Succeed
<1> QED
  BY <1>1, <1>2, <1>3, <1>4
================================================================================
