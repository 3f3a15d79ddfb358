----------------------------- MODULE SurrealProofs -----------------------------
(* Theorems about Surreal, for any threads, handles and bounds. *)
EXTENDS Surreal, CallHarnessProofs

(* A successful operation returns a length or a small non-negative code. *)
LEMMA RowCodes == \A o \in Op, w \in BOOLEAN : Codes(o, w) \subseteq 0..MaxCode
<1> DEFINE Small(r) == r.codes \subseteq 0..MaxLen
<1>1. /\ \A c : Small(Unit(c)) /\ Small(Records(c)) /\ Small(Statement(c))
      /\ \A c, p : Small(Boxed(c, p, {1})) /\ Small(Boxed(c, p, 1..MaxLen))
      /\ Small(Login)
      /\ \A c : Small(InParts(Unit(c))) /\ Small(InParts(Records(c)))
  BY MaxLenAssumption DEF Unit, Records, Boxed, Statement, Login, InParts
<1>2. Small(create)
  BY MaxLenAssumption DEF create, Boxed
<1> HIDE DEF Small
<1>3. /\ Small(authenticate) /\ Small(begin) /\ Small(cancel) /\ Small(commit)
      /\ Small(delete) /\ Small(export) /\ Small(health) /\ Small(import)
      /\ Small(insert) /\ Small(insert_relation) /\ Small(run) /\ Small(relate)
      /\ Small(invalidate) /\ Small(kill) /\ Small(select_live) /\ Small(merge)
      /\ Small(patch_add) /\ Small(patch_remove) /\ Small(patch_replace)
      /\ Small(query) /\ Small(select) /\ Small(set) /\ Small(signin)
      /\ Small(signup) /\ Small(unset) /\ Small(update) /\ Small(upsert)
      /\ Small(use_db) /\ Small(use_ns) /\ Small(version)
  BY <1>1 DEF authenticate, begin, cancel,
         commit, delete, export, health, import, insert, insert_relation,
         run, relate, invalidate, kill, select_live, merge, patch_add, patch_remove,
         patch_replace, query, select, set, signin, signup, unset, update, upsert,
         use_db, use_ns, version
<1>4. \A o \in DOMAIN Row : Small(Row[o])
  BY <1>2, <1>3 DEF Row
<1> QED
  BY <1>4, OpAssumption, MaxLenAssumption, HarnessAssumption DEF Codes, Small

(* The variables of the model keep their types. *)
LEMMA TypeInductive ==
    ASSUME TypeOK, [Next]_vars
    PROVE  TypeOK'
<1> USE DEF TypeOK
<1>0. CASE UNCHANGED vars
  BY <1>0 DEF vars, harnessVars, HarnessTypeOK
<1>1. ASSUME NEW t \in Thread, NEW h \in Handle, connect(t, h) \/ disconnect(t, h)
      PROVE  TypeOK'
  <2>1. CASE connect(t, h)
    <3>1. PICK ep \in ErrPtr : Connect(t, h, ep) \/ check_null(t, h, "connect", ep)
      BY <2>1 DEF connect
    <3> QED
      BY <2>1, <3>1, CallTypes DEF connect
  <2>2. CASE disconnect(t, h)
    BY <2>2 DEF disconnect, Disconnect, HarnessTypeOK, Life
  <2> QED
    BY <1>1, <2>1, <2>2
<1>2. ASSUME NEW t \in Thread, NEW h \in Handle, NEW o \in Op, Start(t, h, o)
      PROVE  TypeOK'
  <2>1. PICK ep \in ErrPtr, nulls \in {{}} \cup {{p} : p \in Nullable(o)} :
          IF nulls \cap Row[o].checked # {}
            THEN check_null(t, h, o, ep)
            ELSE Invoke(t, h, o, ep, Row[o].out # "none" /\ Row[o].outptr \notin nulls)
    BY <1>2 DEF Start
  <2>2. (Row[o].out # "none" /\ Row[o].outptr \notin nulls) \in BOOLEAN
    OBVIOUS
  <2> QED
    BY <1>2, <2>1, <2>2, CallTypes DEF Start
<1>3. ASSUME NEW t \in Thread, Enter(t) \/ FutureErr(t) \/ LateErr(t) \/ Panic(t) \/ Report(t),
             UNCHANGED tok
      PROVE  TypeOK'
  BY <1>3, FutureTypes, AnswerTypes
<1>4. ASSUME NEW t \in Thread, Serve(t) \/ Resolve(t)
      PROVE  TypeOK'
  BY <1>4, FutureTypes DEF Serve, Resolve, Extent
<1>5. ASSUME NEW t \in Thread, Answer(t)
      PROVE  TypeOK'
  <2>1. CASE AssignToken(t)
    <3>1. call' \in [Thread -> Calls]
      BY <2>1, HarnessAssumption, ReturnedCall, 0 \in SR_FATAL..MaxCode
      DEF AssignToken, HarnessTypeOK, SR_FATAL
    <3> QED
      BY <2>1, <3>1 DEF AssignToken, HarnessTypeOK, Cell
  <2>2. CASE Connected(t) /\ UNCHANGED tok
    BY <2>2, AnswerTypes
  <2>3. ASSUME NEW code \in Codes(call[t].op, call[t].want), call[t].op \in Op, UNCHANGED tok,
               Succeed(t, code, Content(call[t].op, code))
        PROVE  TypeOK'
    <3>1. code \in 0..MaxCode
      BY <2>3, RowCodes DEF HarnessTypeOK, Calls
    <3>2. Content(call[t].op, code) \in Cell
      BY DEF Content, Cell
    <3> QED
      BY <2>3, <3>1, <3>2, AnswerTypes
  <2> QED
    BY <1>3, <1>5, <2>1, <2>2, <2>3 DEF Answer, Misfit
<1>6. ASSUME NEW t \in Thread, GiveBack(t)
      PROVE  TypeOK'
  <2>1. CASE CollectToken(t)
    BY <2>1, NoCallShape DEF CollectToken, HarnessTypeOK, Cell
  <2> QED
    BY <1>6, <2>1, AnswerTypes DEF GiveBack
<1> QED
  BY <1>0, <1>1, <1>2, <1>3, <1>4, <1>5, <1>6 DEF Next, Step

(* Every reachable state is well typed. *)
THEOREM TypeCorrect == Spec => []TypeOK
<1>1. Init => TypeOK
  <2> SUFFICES ASSUME Init PROVE TypeOK
    OBVIOUS
  <2>1. HarnessTypeOK
    BY HarnessTypeInit DEF Init
  <2>2. tok \in [Thread -> Cell \cup {"null"}]
    BY DEF Init, NoToken, Cell
  <2> QED
    BY <2>1, <2>2 DEF TypeOK
<1> QED
  BY <1>1, TypeInductive, PTL DEF Spec

(* The row of facts each action of the composition keeps for the threads it  *)
(* does not belong to.                                                      *)
LEMMA OthersKeep ==
    ASSUME NEW t \in Thread, NEW u \in Thread, u # t, OwnedByCaller(u),
           call'[u] = call[u], err'[u] = err[u], out'[u] = out[u], tok'[u] = tok[u]
    PROVE  OwnedByCaller(u)'
BY DEF OwnedByCaller, Handed, pc, FreesOut, IsLogin

(* Moving on inside a call hands nothing over. *)
LEMMA StillInside ==
    ASSUME call \in [Thread -> Calls], NEW t \in Thread, NEW stage \in Stage,
           stage # "returned", pc(t) # "returned", Goto(t, stage), OwnedByCaller(t),
           UNCHANGED <<err, out, tok>>
    PROVE  OwnedByCaller(t)'
<1>1. /\ call'[t].pc = stage /\ call'[t].op = call[t].op
      /\ call'[t].ep = call[t].ep /\ call'[t].want = call[t].want
  BY DEF Goto, Calls
<1> QED
  BY <1>1 DEF OwnedByCaller, Handed, pc

(* Nothing is owned or owed at first. *)
LEMMA CallerMemoryInit ==
    ASSUME TidyToken = TRUE, Init
    PROVE  CallerMemory
BY DEF Init, HarnessInit, NoToken, CallerMemory, MemorySafe, OwnedByCaller, Handed,
       pc, NoCall, NewCall, FreesOut

(* No step hands over, frees or overwrites what the code does not say. *)
LEMMA CallerMemoryInductive ==
    ASSUME TypeOK, ErrPtr = {"valid"}, TidyToken = TRUE, CallerMemory, [Next]_vars
    PROVE  CallerMemory'
<1> USE DEF TypeOK, HarnessTypeOK
<1> DEFINE Others(t) == \A u \in Thread \ {t} :
              /\ call'[u] = call[u] /\ err'[u] = err[u]
              /\ out'[u] = out[u] /\ tok'[u] = tok[u]
           Quiet == process' = "running" /\ lost' = FALSE /\ ps' = ps
<1>a. ASSUME NEW t \in Thread, Others(t), Quiet, OwnedByCaller(t)'
      PROVE  CallerMemory'
  <2>1. \A u \in Thread : OwnedByCaller(u)'
    BY <1>a, OthersKeep DEF CallerMemory
  <2> QED
    BY <1>a, <2>1 DEF CallerMemory, MemorySafe
<1>b. ASSUME NEW t \in Thread PROVE OwnedByCaller(t)
  BY <1>b DEF CallerMemory
<1> HIDE DEF Others, Quiet
<1>0. CASE UNCHANGED vars
  BY <1>0 DEF vars, harnessVars, CallerMemory, MemorySafe, OwnedByCaller, Handed,
              pc,
              FreesOut, IsLogin
<1>1. ASSUME NEW t \in Thread, NEW h \in Handle, NEW o \in Op \cup {"connect"},
             NEW ep \in ErrPtr, check_null(t, h, o, ep), UNCHANGED tok
      PROVE  CallerMemory'
  <2>1. call[t].pc = "idle" /\ ep = "valid" /\ OwnedByCaller(t)
    BY <1>1, <1>b DEF check_null, Running, pc
  <2>2. Others(t) /\ Quiet
    BY <1>1, <2>1 DEF Others, Quiet, check_null, write_error, OverwriteErr,
                      CallerMemory, MemorySafe,
                      OwnedByCaller, Handed, pc
  <2>3. OwnedByCaller(t)'
    BY <1>1, <2>1 DEF check_null, write_error, OverwriteErr, NewCall, SR_ERROR,
                      OwnedByCaller, Handed, pc, FreesOut, IsLogin
  <2> QED
    BY <1>a, <2>2, <2>3
<1>2. ASSUME NEW t \in Thread, NEW h \in Handle, NEW ep \in ErrPtr, Connect(t, h, ep), UNCHANGED tok
      PROVE  CallerMemory'
  <2>1. OwnedByCaller(t)
    BY <1>b
  <2>2. Others(t) /\ Quiet
    BY <1>2, <2>1 DEF Others, Quiet, Connect, NewCall, Running, CallerMemory,
                      MemorySafe, OwnedByCaller, Handed, pc
  <2>3. OwnedByCaller(t)'
    BY <1>2, <2>1 DEF Connect, NewCall, Running, OwnedByCaller, Handed, pc,
                      FreesOut, IsLogin
  <2> QED
    BY <1>a, <2>2, <2>3
<1>3. ASSUME NEW t \in Thread, NEW h \in Handle, disconnect(t, h)
      PROVE  CallerMemory'
  <2>1. OwnedByCaller(t)
    BY <1>b
  <2>2. Others(t) /\ Quiet
    BY <1>3, <2>1 DEF Others, Quiet, disconnect, Disconnect, Running, CallerMemory,
                      MemorySafe, OwnedByCaller, Handed, pc
  <2>3. OwnedByCaller(t)'
    BY <1>3, <2>1 DEF disconnect, Disconnect, Running, OwnedByCaller, Handed, pc,
                      FreesOut, IsLogin
  <2> QED
    BY <1>a, <2>2, <2>3
<1>4. ASSUME NEW t \in Thread, NEW h \in Handle, NEW o \in Op, NEW ep \in ErrPtr, NEW w \in BOOLEAN,
             Invoke(t, h, o, ep, w), UNCHANGED tok
      PROVE  CallerMemory'
  <2>1. OwnedByCaller(t)
    BY <1>b
  <2>2. Others(t) /\ Quiet
    BY <1>4, <2>1 DEF Others, Quiet, Invoke, NewCall, Running, CallerMemory,
                      MemorySafe, OwnedByCaller, Handed, pc
  <2>3. OwnedByCaller(t)'
    BY <1>4, <2>1, HarnessAssumption DEF Invoke, NewCall, Running, OwnedByCaller, Handed, pc, FreesOut,
                      IsLogin
  <2> QED
    BY <1>a, <2>2, <2>3
<1>5. ASSUME NEW t \in Thread, Enter(t), UNCHANGED tok
      PROVE  CallerMemory'
  <2>0. call[t].h \in Handle /\ ps[call[t].h] = FALSE
    BY DEF Calls, CallerMemory
  <2>1. OwnedByCaller(t)
    BY <1>b
  <2>2. Others(t) /\ Quiet
    BY <1>5, <2>0, <2>1 DEF Others, Quiet, Enter, Goto, Running, CallerMemory, MemorySafe,
                      OwnedByCaller, Handed, pc
  <2>3. OwnedByCaller(t)'
    BY <1>5, <2>0, <2>1, StillInside DEF Enter, Running, Stage
  <2> QED
    BY <1>a, <2>2, <2>3
<1>6. ASSUME NEW t \in Thread, Serve(t)
      PROVE  CallerMemory'
  <2>0. PICK how : TakeEffect(t, how) /\ UNCHANGED tok
    BY <1>6 DEF Serve
  <2>1. OwnedByCaller(t)
    BY <1>b
  <2>2. Others(t) /\ Quiet
    BY <2>0, <2>1 DEF Others, Quiet, TakeEffect, Running, CallerMemory, MemorySafe,
                      OwnedByCaller, Handed, pc
  <2>3. OwnedByCaller(t)'
    BY <2>0, <2>1, Effected DEF TakeEffect, Running, OwnedByCaller, Handed, pc, FreesOut,
                      IsLogin
  <2> QED
    BY <1>a, <2>2, <2>3
<1>7. ASSUME NEW t \in Thread, UNCHANGED tok,
             FutureOk(t) \/ FutureErr(t) \/ LateErr(t) \/ Panic(t)
      PROVE  CallerMemory'
  <2>1. OwnedByCaller(t)
    BY <1>b
  <2>2. Others(t) /\ Quiet
    BY <1>7, <2>1 DEF Others, Quiet, FutureOk, FutureErr, LateErr, Panic, Goto, Running,
                      CallerMemory, MemorySafe, OwnedByCaller, Handed, pc
  <2>3. OwnedByCaller(t)'
    BY <1>7, <2>1, StillInside DEF FutureOk, FutureErr, LateErr, Panic, Running, Stage
  <2> QED
    BY <1>a, <2>2, <2>3
<1>8. ASSUME NEW t \in Thread, AssignToken(t), IsLogin(call[t].op), call[t].want
      PROVE  CallerMemory'
  <2>1. OwnedByCaller(t)
    BY <1>b
  <2>2. Others(t) /\ Quiet
    BY <1>8, <2>1 DEF Others, Quiet, AssignToken, ReturnCode, Running, CallerMemory,
                      MemorySafe, OwnedByCaller, Handed, pc
  <2>3. OwnedByCaller(t)'
    BY <1>8, <2>1 DEF AssignToken, ReturnCode, Running, OwnedByCaller, Handed, pc,
                      FreesOut, IsLogin
  <2> QED
    BY <1>a, <2>2, <2>3
<1>9. ASSUME NEW t \in Thread, Connected(t), UNCHANGED tok
      PROVE  CallerMemory'
  <2>1. OwnedByCaller(t)
    BY <1>b
  <2>2. Others(t) /\ Quiet
    BY <1>9, <2>1 DEF Others, Quiet, Connected, ReturnCode, Running, CallerMemory,
                      MemorySafe, OwnedByCaller, Handed, pc
  <2>3. OwnedByCaller(t)'
    BY <1>9, <2>1 DEF Connected, ReturnCode, Running, OwnedByCaller, Handed, pc,
                      FreesOut, IsLogin
  <2> QED
    BY <1>a, <2>2, <2>3
<1>10. ASSUME NEW t \in Thread, NEW code \in Codes(call[t].op, call[t].want), call[t].op \in Op,
             ~(IsLogin(call[t].op) /\ call[t].want), UNCHANGED tok,
             Succeed(t, code, Content(call[t].op, code))
      PROVE  CallerMemory'
  <2>1. OwnedByCaller(t)
    BY <1>b
  <2>2. Others(t) /\ Quiet
    BY <1>10, <2>1 DEF Others, Quiet, Succeed, ReturnCode, Content, Running,
                       CallerMemory, MemorySafe, OwnedByCaller, Handed, pc
  <2>3. code \in 0..MaxCode
    BY <1>10, RowCodes DEF Calls
  <2>4. OwnedByCaller(t)'
    BY <1>10, <2>1, <2>3, Returned DEF Succeed, Content, Running, OwnedByCaller, Handed,
                                       pc, FreesOut, IsLogin
  <2> QED
    BY <1>a, <2>2, <2>4
<1>11. ASSUME NEW t \in Thread, Report(t), UNCHANGED tok
      PROVE  CallerMemory'
  <2>1. OwnedByCaller(t)
    BY <1>b
  <2>2. Others(t) /\ Quiet
    BY <1>11, <2>1 DEF Others, Quiet, Report, OverwriteErr, ReturnCode, SR_ERROR,
                       SR_FATAL, Running, CallerMemory, MemorySafe, OwnedByCaller,
                       Handed, pc
  <2>3. OwnedByCaller(t)'
    BY <1>11, <2>1, Returned DEF Report, OverwriteErr, SR_ERROR, SR_FATAL, Running,
                                OwnedByCaller, Handed, pc, FreesOut, IsLogin
  <2> QED
    BY <1>a, <2>2, <2>3
<1>12. ASSUME NEW t \in Thread, IsLogin(call[t].op), FreesOut(call[t]), CollectToken(t)
      PROVE  CallerMemory'
  <2>1. OwnedByCaller(t)
    BY <1>b
  <2>2. Others(t) /\ Quiet
    BY <1>12, <2>1 DEF Others, Quiet, CollectToken, NoCall, NewCall, FreesOut,
                       Running, CallerMemory, MemorySafe, OwnedByCaller, Handed, pc
  <2>3. OwnedByCaller(t)'
    BY <1>12, <2>1 DEF CollectToken, NoCall, NewCall, FreesOut, Running,
                       OwnedByCaller, Handed, pc, IsLogin
  <2> QED
    BY <1>a, <2>2, <2>3
<1>13. ASSUME NEW t \in Thread, ~(IsLogin(call[t].op) /\ FreesOut(call[t])), Collect(t), UNCHANGED tok
      PROVE  CallerMemory'
  <2>1. OwnedByCaller(t)
    BY <1>b
  <2>2. Others(t) /\ Quiet
    BY <1>13, <2>1 DEF Others, Quiet, Collect, FreesErr, NoCall, NewCall, FreesOut,
                       Running, CallerMemory, MemorySafe, OwnedByCaller, Handed, pc
  <2>3. OwnedByCaller(t)'
    BY <1>13, <2>1 DEF Collect, FreesErr, NoCall, NewCall, FreesOut, Running,
                       OwnedByCaller, Handed, pc, IsLogin
  <2> QED
    BY <1>a, <2>2, <2>3
<1>14. ASSUME NEW t \in Thread, NEW h \in Handle, NEW o \in Op, Start(t, h, o)
       PROVE  CallerMemory'
  <2>1. PICK ep \in ErrPtr, nulls \in {{}} \cup {{p} : p \in Nullable(o)} :
          IF nulls \cap Row[o].checked # {}
            THEN check_null(t, h, o, ep)
            ELSE Invoke(t, h, o, ep, Row[o].out # "none" /\ Row[o].outptr \notin nulls)
    BY <1>14 DEF Start
  <2>2. UNCHANGED tok
    BY <1>14 DEF Start
  <2>3. (Row[o].out # "none" /\ Row[o].outptr \notin nulls) \in BOOLEAN
    OBVIOUS
  <2> QED
    BY <1>1, <1>4, <2>1, <2>2, <2>3
<1>15. ASSUME NEW t \in Thread, Resolve(t)
       PROVE  CallerMemory'
  BY <1>7, <1>15 DEF Resolve
<1>16. ASSUME NEW t \in Thread, Answer(t)
       PROVE  CallerMemory'
  BY <1>7, <1>8, <1>9, <1>10, <1>16 DEF Answer, Misfit
<1>17. ASSUME NEW t \in Thread, GiveBack(t)
       PROVE  CallerMemory'
  BY <1>12, <1>13, <1>17 DEF GiveBack
<1> QED
  BY <1>0, <1>1, <1>2, <1>3, <1>5, <1>6, <1>7, <1>11, <1>14, <1>15, <1>16, <1>17
  DEF Next, Step, connect

(* At every step of a call its thread's variables own what the call has      *)
(* handed over so far and the program has not freed yet, and nothing else,   *)
(* whatever the other threads do.                                           *)
THEOREM MemoryAccounted ==
    ASSUME ErrPtr = {"valid"}, TidyToken = TRUE
    PROVE  Spec => []CallerMemory
<1>1. Init => CallerMemory
  BY CallerMemoryInit
<1>2. TypeOK /\ CallerMemory /\ [Next]_vars => CallerMemory'
  BY CallerMemoryInductive
<1> QED
  BY <1>1, <1>2, TypeCorrect, PTL DEF Spec

(* No thread of a program that passes an err_ptr and keeps its token        *)
(* variable NULL ever frees what it does not own or loses what it owns, and  *)
(* what it may free always agrees with the code it got.                     *)
THEOREM CallersNeverMisfree ==
    ASSUME ErrPtr = {"valid"}, TidyToken = TRUE
    PROVE  Spec => [](MemorySafe /\ NothingLost /\ AnswersAgree)
<1>1. CallerMemory => MemorySafe /\ NothingLost /\ AnswersAgree
  BY DEF CallerMemory, MemorySafe, NothingLost, AnswersAgree, Delivered,
         OwnedByCaller,
         Handed, FreesOut
<1> QED
  BY <1>1, MemoryAccounted, PTL

--------------------------------------------------------------------------------
(* The contract. *)

(* A future that is Ok although its request was not carried out to the end is *)
(* that of an operation that does not look.                                 *)
Looked == \A t \in Thread : pc(t) = "resolved" /\ Looks(call[t].op) => call[t].done = "all"

LEMMA LookedInductive ==
    ASSUME TypeOK, Looked, [Next]_vars
    PROVE  Looked'
<1> USE DEF TypeOK, HarnessTypeOK
<1>0. CASE UNCHANGED vars
  BY <1>0 DEF vars, harnessVars, Looked, pc
<1>1. ASSUME NEW t \in Thread, \A u \in Thread \ {t} : call'[u] = call[u],
             \/ call'[t].pc # "resolved"
             \/ call'[t].pc = call[t].pc /\ call[t].pc # "resolved"
             \/ call'[t].op = call[t].op /\ call'[t].done = call[t].done
                   /\ (Looks(call[t].op) => call[t].done = "all")
      PROVE  Looked'
  BY <1>1 DEF Looked, pc
<1>2. ASSUME NEW t \in Thread, NEW stage \in Stage \ {"resolved"}, NEW o, NEW h, NEW ep, NEW w,
             NEW code, call' = [call EXCEPT ![t] = NewCall(stage, o, h, ep, w, code)]
      PROVE  Looked'
  BY <1>1, <1>2 DEF NewCall
<1>3. ASSUME NEW t \in Thread, NEW stage \in Stage \ {"resolved"}, Goto(t, stage)
      PROVE  Looked'
  BY <1>1, <1>3, Moved DEF Goto
<1>4. ASSUME NEW t \in Thread, NEW code \in Int, ReturnCode(t, code)
      PROVE  Looked'
  BY <1>1, <1>4, Returned DEF ReturnCode
<1>5. ASSUME UNCHANGED call PROVE Looked'
  BY <1>5 DEF Looked, pc
<1>6. ASSUME NEW t \in Thread, Serve(t) PROVE Looked'
  <2>1. PICK how : TakeEffect(t, how)
    BY <1>6 DEF Serve
  <2>2. call'[t].pc = call[t].pc /\ call[t].pc # "resolved"
    BY <2>1, Effected DEF TakeEffect, Running, pc
  <2> QED
    BY <1>1, <2>1, <2>2 DEF TakeEffect
<1>7. ASSUME NEW t \in Thread, Resolve(t) PROVE Looked'
  BY <1>1, <1>7, Moved DEF Resolve, FutureOk, Goto, Stage
<1>8. ASSUME NEW t \in Thread, Enter(t) \/ FutureErr(t) \/ Panic(t) \/ LateErr(t)
      PROVE  Looked'
  BY <1>3, <1>5, <1>8 DEF Enter, FutureErr, Panic, LateErr, Stage
<1>9. ASSUME NEW t \in Thread, Answer(t) PROVE Looked'
  <2>1. CASE AssignToken(t) \/ Connected(t)
    BY <1>4, <2>1 DEF AssignToken, Connected
  <2>2. ASSUME NEW code \in Codes(call[t].op, call[t].want), call[t].op \in Op,
               Succeed(t, code, Content(call[t].op, code))
        PROVE  Looked'
    <3>1. code \in Int
      BY <2>2, RowCodes, HarnessAssumption DEF Calls
    <3> QED
      BY <1>4, <2>2, <3>1 DEF Succeed
  <2> QED
    BY <1>8, <1>9, <2>1, <2>2 DEF Answer, Misfit
<1>10. ASSUME NEW t \in Thread, Report(t) PROVE Looked'
  BY <1>4, <1>5, <1>10 DEF Report, SR_ERROR, SR_FATAL
<1>11. ASSUME NEW t \in Thread, GiveBack(t) PROVE Looked'
  <2>1. call' = [call EXCEPT ![t] = NewCall("idle", "none", AnyHandle, "valid", FALSE, 0)]
    BY <1>11 DEF GiveBack, CollectToken, Collect, NoCall
  <2> QED
    BY <1>2, <2>1 DEF Stage
<1>12. ASSUME NEW t \in Thread, NEW h, NEW o, NEW ep, NEW w,
              \/ check_null(t, h, o, ep) \/ Connect(t, h, ep) \/ Invoke(t, h, o, ep, w)
       PROVE  Looked'
  <2>1. CASE check_null(t, h, o, ep)
    BY <1>2, <2>1 DEF check_null, Stage
  <2>2. CASE Connect(t, h, ep)
    BY <1>2, <2>2 DEF Connect, Stage
  <2>3. CASE Invoke(t, h, o, ep, w)
    BY <1>2, <2>3 DEF Invoke, Stage
  <2> QED
    BY <1>12, <2>1, <2>2, <2>3
<1>13. ASSUME NEW t \in Thread, NEW h \in Handle, connect(t, h) \/ disconnect(t, h)
       PROVE  Looked'
  BY <1>5, <1>12, <1>13 DEF connect, disconnect, Disconnect
<1>14. ASSUME NEW t \in Thread, NEW h \in Handle, NEW o \in Op, Start(t, h, o)
       PROVE  Looked'
  BY <1>12, <1>14 DEF Start
<1> QED
  BY <1>0, <1>6, <1>7, <1>8, <1>9, <1>10, <1>11, <1>13, <1>14 DEF Next, Step

(* What a thread may free follows from what its call asked for and was told: *)
(* the tie between the C variables and the contract.                        *)
Fits == \A t \in Thread :
    Owed(t) = IF Told(t) = "none" THEN {} ELSE Contract!Due(Told(t), Requested(t))

LEMMA OwnedFits ==
    ASSUME TypeOK, CallerMemory
    PROVE  Fits
<1> SUFFICES ASSUME NEW t \in Thread
             PROVE  Owed(t) = IF Told(t) = "none" THEN {}
                              ELSE Contract!Due(Told(t), Requested(t))
  BY DEF Fits
<1>1. OwnedByCaller(t) /\ call[t].want \in BOOLEAN /\ call[t].ret \in Int
  BY HarnessAssumption DEF TypeOK, HarnessTypeOK, CallerMemory, Calls, SR_FATAL
<1>2. Owed(t) = IF pc(t) # "returned" THEN {}
                ELSE IF call[t].ret < 0 THEN {"message"}
                ELSE IF call[t].want THEN {"result"} ELSE {}
  BY <1>1 DEF Owed, OwnedByCaller, Handed, FreesOut
<1> QED
  BY <1>1, <1>2 DEF Told, Requested, Contract!Due, SR_ERROR

(* What CallContract sees of a thread changes only with its own call.       *)
LEMMA OthersUnseen ==
    ASSUME Fits, Fits', NEW u \in Thread, call'[u] = call[u]
    PROVE  /\ Promised(u)' = Promised(u) /\ Told(u)' = Told(u)
           /\ Requested(u)' = Requested(u) /\ Owed(u)' = Owed(u)
<1>1. /\ Promised(u)' = Promised(u) /\ Told(u)' = Told(u)
      /\ Requested(u)' = Requested(u)
  BY DEF Promised, Told, Requested, pc
<1> QED
  BY <1>1 DEF Fits

LEMMA ContractView ==
    ASSUME Fits, Fits', NEW t \in Thread, \A u \in Thread \ {t} : call'[u] = call[u]
    PROVE  /\ [u \in Thread |-> Promised(u)]'
                 = [[u \in Thread |-> Promised(u)] EXCEPT ![t] = Promised(t)']
           /\ [u \in Thread |-> Requested(u)]'
                 = [[u \in Thread |-> Requested(u)] EXCEPT ![t] = Requested(t)']
           /\ [u \in Thread |-> Told(u)]'
                 = [[u \in Thread |-> Told(u)] EXCEPT ![t] = Told(t)']
           /\ [u \in Thread |-> Owed(u)]'
                 = [[u \in Thread |-> Owed(u)] EXCEPT ![t] = Owed(t)']
<1>1. \A u \in Thread \ {t} : /\ Promised(u)' = Promised(u) /\ Told(u)' = Told(u)
                              /\ Requested(u)' = Requested(u) /\ Owed(u)' = Owed(u)
  BY OthersUnseen
<1> QED
  BY <1>1, Zenon

(* A view that stays what it is. *)
LEMMA ContractStays ==
    ASSUME Fits, Fits',
           \A u \in Thread : /\ Promised(u)' = Promised(u) /\ Told(u)' = Told(u)
                             /\ Requested(u)' = Requested(u)
    PROVE  UNCHANGED Contract!vars
<1>1. \A u \in Thread : Owed(u)' = Owed(u)
  BY DEF Fits
<1> QED
  BY <1>1, Zenon DEF Contract!vars

(* Every step of the calls is a step CallContract allows, or a stutter.     *)
LEMMA ContractStep ==
    ASSUME ErrPtr = {"valid"}, TypeOK, TypeOK', CallerMemory, Looked, Fits, Fits',
           [Next]_vars
    PROVE  [Contract!Next]_Contract!vars
<1> USE DEF TypeOK, HarnessTypeOK
<1> DEFINE Others(t) == \A u \in Thread \ {t} : call'[u] = call[u]
           Abstract == [Contract!Next]_Contract!vars
           Now(t, s, a) == Promised(t) = s /\ Told(t) = a
           Then(t, s, a) == Promised(t)' = s /\ Told(t)' = a
           SameRequest(t) == Requested(t)' = Requested(t)
<1>a. ASSUME NEW t \in Thread PROVE
          /\ call[t] \in Calls /\ OwnedByCaller(t)
          /\ Requested(t)' \in Contract!Request
          /\ Owed(t) = IF Told(t) = "none" THEN {}
                       ELSE Contract!Due(Told(t), Requested(t))
          /\ Owed(t)' = IF Told(t)' = "none" THEN {}
                        ELSE Contract!Due(Told(t)', Requested(t)')
  BY DEF CallerMemory, Fits, Requested, Looks, Contract!Request, Calls
<1>0. ASSUME call' = call PROVE Abstract
  BY <1>0, ContractStays DEF Promised, Told, Requested, pc
<1>1. ASSUME NEW t \in Thread, Others(t), Now(t, "idle", "none"), Then(t, "called", "none")
      PROVE  Abstract
  <2>1. Owed(t)' = Owed(t)
    BY <1>1, <1>a
  <2>2. \A u \in Thread : Told(u)' = Told(u) /\ Owed(u)' = Owed(u)
    BY <1>1, <2>1, OthersUnseen
  <2>4. UNCHANGED <<[u \in Thread |-> Told(u)], [u \in Thread |-> Owed(u)]>>
    BY <2>2, Zenon
  <2>3. Contract!Call(t)
    BY <1>1, <1>a, <2>4, ContractView DEF Contract!Call
  <2> QED
    BY <2>3 DEF Contract!Next
<1>2. ASSUME NEW t \in Thread, Others(t), Now(t, "called", "none"),
             Then(t, "served", "none"), SameRequest(t)
      PROVE  Abstract
  <2>1. Owed(t)' = Owed(t)
    BY <1>2, <1>a
  <2>2. \A u \in Thread : /\ Requested(u)' = Requested(u)
                          /\ Told(u)' = Told(u) /\ Owed(u)' = Owed(u)
    BY <1>2, <2>1, OthersUnseen
  <2>4. UNCHANGED <<[u \in Thread |-> Requested(u)], [u \in Thread |-> Told(u)],
                    [u \in Thread |-> Owed(u)]>>
    BY <2>2, Zenon
  <2>3. Contract!Serve(t)
    BY <1>2, <2>4, ContractView DEF Contract!Serve
  <2> QED
    BY <2>3 DEF Contract!Next
<1>3. ASSUME NEW t \in Thread, Others(t), Now(t, "idle", "none"), Then(t, "answered", "error")
      PROVE  Abstract
  <2>1. Owed(t)' = {"message"}
    BY <1>3, <1>a DEF Contract!Due
  <2>2. Contract!Refuse(t)
    BY <1>3, <1>a, <2>1, ContractView DEF Contract!Refuse
  <2> QED
    BY <2>2 DEF Contract!Next
<1>4. ASSUME NEW t \in Thread, NEW a \in {"ok", "error", "fatal"}, Others(t),
             Now(t, "called", "none") \/ Now(t, "served", "none"),
             Then(t, "answered", a), SameRequest(t),
             a = "ok" /\ Requested(t).looks => Promised(t) = "served"
      PROVE  Abstract
  <2>1. Owed(t)' = Contract!Due(a, Requested(t))
    BY <1>4, <1>a
  <2>2. UNCHANGED [u \in Thread |-> Requested(u)]
    BY <1>4, ContractView, Zenon
  <2>3. Contract!Answer(t, a)
    BY <1>4, <2>1, <2>2, ContractView DEF Contract!Answer
  <2> QED
    BY <2>3 DEF Contract!Next
<1>5. ASSUME NEW t \in Thread, Others(t), Promised(t) = "answered", Then(t, "idle", "none"),
             Requested(t)' = Contract!NoRequest
      PROVE  Abstract
  <2>1. Owed(t)' = {}
    BY <1>5, <1>a
  <2>2. Contract!Collect(t)
    BY <1>5, <2>1, ContractView DEF Contract!Collect
  <2> QED
    BY <2>2 DEF Contract!Next
<1>6. ASSUME NEW t \in Thread, Others(t), Promised(t)' = Promised(t), Told(t)' = Told(t),
             SameRequest(t)
      PROVE  Abstract
  <2>1. \A u \in Thread : /\ Promised(u)' = Promised(u) /\ Told(u)' = Told(u)
                          /\ Requested(u)' = Requested(u)
    BY <1>6 DEF Promised, Told, Requested, pc
  <2> QED
    BY <2>1, ContractStays
<1> SUFFICES Abstract
  OBVIOUS
<1> HIDE DEF Abstract
<1>9. CASE UNCHANGED vars
  BY <1>0, <1>9 DEF vars, harnessVars
<1>10. ASSUME NEW t \in Thread, NEW h, NEW o, NEW ep, check_null(t, h, o, ep)
       PROVE  Abstract
  <2>1. Others(t) /\ Now(t, "idle", "none")
    BY <1>10 DEF check_null, Running, Promised, Told
  <2>2. Then(t, "answered", "error")
    BY <1>10, <1>a DEF check_null, NewCall, SR_ERROR, Promised, Told, pc
  <2> QED
    BY <1>3, <2>1, <2>2
<1>11. ASSUME NEW t \in Thread, NEW h, NEW ep, Connect(t, h, ep)
       PROVE  Abstract
  <2>1. Others(t) /\ Now(t, "idle", "none")
    BY <1>11 DEF Connect, Running, Promised, Told
  <2>2. Then(t, "called", "none")
    BY <1>11, <1>a DEF Connect, NewCall, Promised, Told, pc
  <2> QED
    BY <1>1, <2>1, <2>2
<1>12. ASSUME NEW t \in Thread, NEW h, NEW o, NEW ep, NEW w, Invoke(t, h, o, ep, w)
       PROVE  Abstract
  <2>1. Others(t) /\ Now(t, "idle", "none")
    BY <1>12 DEF Invoke, Running, Promised, Told
  <2>2. Then(t, "called", "none")
    BY <1>12, <1>a DEF Invoke, NewCall, Promised, Told, pc
  <2> QED
    BY <1>1, <2>1, <2>2
<1>13. ASSUME NEW t \in Thread, Enter(t) \/ FutureOk(t) \/ FutureErr(t) \/ LateErr(t) \/ Panic(t)
       PROVE  Abstract
  <2>1. CASE call' = call
    BY <1>0, <2>1
  <2>2. CASE \E stage \in Stage \ {"idle", "returned"} : Goto(t, stage)
    <3>1. pc(t) \notin {"idle", "returned"} /\ Others(t)
      BY <1>13, <2>2 DEF Enter, FutureOk, FutureErr, LateErr, Panic, Goto, Running
    <3>2. /\ call'[t].pc \notin {"idle", "returned"} /\ call'[t].done = call[t].done
          /\ call'[t].op = call[t].op /\ call'[t].want = call[t].want
      BY <2>2, Moved
    <3>3. Promised(t)' = Promised(t) /\ Told(t)' = Told(t) /\ SameRequest(t)
      BY <3>1, <3>2 DEF Promised, Told, Requested, pc
    <3> QED
      BY <1>6, <3>1, <3>3
  <2> QED
    BY <1>13, <2>1, <2>2 DEF Enter, FutureOk, FutureErr, LateErr, Panic, Stage
<1>14. ASSUME NEW t \in Thread, Serve(t)
       PROVE  Abstract
  <2>1. PICK how \in {"part", "all"} :
            TakeEffect(t, how) /\ (how = "all" => call[t].done # "all")
                               /\ (how = "part" => call[t].done = "nothing")
    BY <1>14 DEF Serve
  <2>2. Others(t) /\ pc(t) = "block_on"
    BY <2>1 DEF TakeEffect, Running
  <2>3. /\ call'[t].pc = "block_on" /\ call'[t].done = how
        /\ call'[t].op = call[t].op /\ call'[t].want = call[t].want
    BY <2>1, <2>2, Effected DEF pc
  <2>4. SameRequest(t) /\ Now(t, "called", "none")
    BY <2>1, <2>2, <2>3 DEF Requested, Promised, Told
  <2>5. CASE how = "all"
    <3>1. Then(t, "served", "none")
      BY <2>3, <2>5 DEF Promised, Told, pc
    <3> QED
      BY <1>2, <2>2, <2>4, <3>1
  <2>6. CASE how = "part"
    <3>1. Then(t, "called", "none")
      BY <2>3, <2>6 DEF Promised, Told, pc
    <3> QED
      BY <1>6, <2>2, <2>4, <3>1
  <2> QED
    BY <2>5, <2>6
<1>15. ASSUME NEW t \in Thread, NEW code \in SR_FATAL..MaxCode, ReturnCode(t, code),
              \/ Running(t, "resolved") /\ code \in 0..MaxCode
              \/ Running(t, "failed") /\ code = SR_ERROR
              \/ Running(t, "panicked") /\ code = SR_FATAL
       PROVE  Abstract
  <2>1. Others(t) /\ (Now(t, "called", "none") \/ Now(t, "served", "none"))
    BY <1>15 DEF ReturnCode, Running, Promised, Told
  <2>2. /\ call'[t].pc = "returned" /\ call'[t].ret = code
        /\ call'[t].op = call[t].op /\ call'[t].want = call[t].want
    BY <1>15, Returned, HarnessAssumption DEF SR_FATAL
  <2>3. SameRequest(t)
    BY <2>2 DEF Requested
  <2>4. CASE Running(t, "resolved") /\ code \in 0..MaxCode
    <3>1. Then(t, "answered", "ok")
      BY <2>2, <2>4, HarnessAssumption DEF Promised, Told, pc
    <3>2. Requested(t).looks => Promised(t) = "served"
      BY <2>4 DEF Looked, Requested, Promised, Running
    <3> QED
      BY <1>4, <2>1, <2>3, <3>1, <3>2
  <2>5. CASE code = SR_ERROR
    <3>1. Then(t, "answered", "error")
      BY <2>2, <2>5 DEF Promised, Told, pc, SR_ERROR
    <3> QED
      BY <1>4, <2>1, <2>3, <3>1
  <2>6. CASE code = SR_FATAL
    <3>1. Then(t, "answered", "fatal")
      BY <2>2, <2>6 DEF Promised, Told, pc, SR_ERROR, SR_FATAL
    <3> QED
      BY <1>4, <2>1, <2>3, <3>1
  <2> QED
    BY <1>15, <2>4, <2>5, <2>6
<1>16. ASSUME NEW t \in Thread, Answer(t)
       PROVE  Abstract
  <2>0. 0..MaxCode \subseteq SR_FATAL..MaxCode /\ {0, 1} \subseteq 0..MaxCode
    BY HarnessAssumption DEF SR_FATAL
  <2>1. CASE AssignToken(t)
    BY <1>15, <2>0, <2>1 DEF AssignToken
  <2>2. CASE Connected(t)
    BY <1>15, <2>0, <2>2 DEF Connected
  <2>3. ASSUME NEW code \in Codes(call[t].op, call[t].want), call[t].op \in Op,
               Succeed(t, code, Content(call[t].op, code))
        PROVE  Abstract
    <3>1. code \in 0..MaxCode
      BY <1>a, <2>3, RowCodes DEF Calls
    <3> QED
      BY <1>15, <2>0, <2>3, <3>1 DEF Succeed
  <2> QED
    BY <1>13, <1>16, <2>1, <2>2, <2>3 DEF Answer, Misfit
<1>17. ASSUME NEW t \in Thread, Report(t)
       PROVE  Abstract
  <2>1. SR_ERROR \in SR_FATAL..MaxCode /\ SR_FATAL \in SR_FATAL..MaxCode
    BY HarnessAssumption DEF SR_ERROR, SR_FATAL
  <2>2. CASE pc(t) = "failed" /\ ReturnCode(t, SR_ERROR)
    BY <1>15, <1>17, <2>1, <2>2 DEF Report, Running
  <2>3. CASE pc(t) # "failed" /\ ReturnCode(t, SR_FATAL)
    BY <1>15, <1>17, <2>1, <2>3 DEF Report, Running
  <2> QED
    BY <1>0, <1>17, <2>2, <2>3 DEF Report
<1>18. ASSUME NEW t \in Thread, GiveBack(t)
       PROVE  Abstract
  <2>1. Running(t, "returned") /\ call' = [call EXCEPT ![t] = NoCall]
    BY <1>18 DEF GiveBack, CollectToken, Collect
  <2>2. Others(t) /\ Promised(t) = "answered"
    BY <2>1 DEF Running, Promised
  <2>3. Then(t, "idle", "none") /\ Requested(t)' = Contract!NoRequest
    BY <2>1, <1>a, HarnessAssumption
    DEF NoCall, NewCall, Promised, Told, Requested, Looks, Contract!NoRequest, pc
  <2> QED
    BY <1>5, <2>2, <2>3
<1>19. ASSUME NEW t \in Thread, NEW h \in Handle, connect(t, h) \/ disconnect(t, h)
       PROVE  Abstract
  BY <1>0, <1>10, <1>11, <1>19 DEF connect, disconnect, Disconnect
<1>20. ASSUME NEW t \in Thread, NEW h \in Handle, NEW o \in Op, Start(t, h, o)
       PROVE  Abstract
  BY <1>10, <1>12, <1>20 DEF Start
<1> QED
  BY <1>9, <1>13, <1>14, <1>16, <1>17, <1>18, <1>19, <1>20 DEF Next, Step, Resolve

(* The calls implement CallContract, whatever operations the program uses.   *)
THEOREM ContractKept ==
    ASSUME ErrPtr = {"valid"}, TidyToken = TRUE
    PROVE  Spec => KeepsContract
<1>1. Init => Contract!Init
  <2> SUFFICES ASSUME Init PROVE Contract!Init
    OBVIOUS
  <2>1. \A t \in Thread : /\ call[t].pc = "idle" /\ call[t].op = "none"
                          /\ call[t].want = FALSE
                          /\ err[t] = "unset" /\ out[t] = "unset" /\ tok[t] = "null"
    BY DEF Init, HarnessInit, NoCall, NewCall, NoToken
  <2>2. \A t \in Thread : Promised(t) = "idle" /\ Told(t) = "none" /\ Owed(t) = {}
    BY <2>1 DEF Promised, Told, Owed, pc
  <2>3. \A t \in Thread : Requested(t) = Contract!NoRequest
    BY <2>1, HarnessAssumption DEF Requested, Looks, Contract!NoRequest
  <2> QED
    BY <2>2, <2>3, Zenon DEF Contract!Init
<1>2. Init => CallerMemory /\ Looked
  <2>1. Init => Looked
    BY DEF Init, HarnessInit, NoCall, NewCall, Looked, pc
  <2> QED
    BY <2>1, CallerMemoryInit
<1>3. TypeOK /\ CallerMemory /\ Looked /\ [Next]_vars => CallerMemory' /\ Looked'
  BY CallerMemoryInductive, LookedInductive
<1>4. TypeOK /\ CallerMemory => Fits
  BY OwnedFits
<1>5. /\ TypeOK /\ CallerMemory /\ Looked /\ Fits /\ [Next]_vars
      /\ TypeOK' /\ Fits'
      => [Contract!Next]_Contract!vars
  BY ContractStep
<1> QED
  BY <1>1, <1>2, <1>3, <1>4, <1>5, TypeCorrect, PTL DEF Spec, KeepsContract, Contract!Spec
================================================================================
