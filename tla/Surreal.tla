-------------------------------- MODULE Surreal --------------------------------
(***************************************************************************)
(* A program of several C threads that use Surreal connections: connect,   *)
(* any of the operations of lib.rs, free what came back, disconnect.       *)
(* The operations differ in their row of SurrealOps; the steps of a call    *)
(* are those of CallHarness.  A third C variable per thread, `tok`, is the  *)
(* one token_ptr points to: signin and signup assign it instead of writing  *)
(* it, so its old content is dropped.                                       *)
(***************************************************************************)
EXTENDS CallHarness, SurrealOps

CONSTANT TidyToken   \* the program keeps its token variable NULL while it owns nothing

ASSUME OpAssumption == Op \subseteq DOMAIN Row /\ TidyToken \in BOOLEAN /\ MaxLen <= MaxCode

VARIABLE tok         \* tok[t]: "null" or a Cell

vars == <<harnessVars, tok>>

NoToken == IF TidyToken THEN "null" ELSE "unset"

Init == HarnessInit /\ tok = [t \in Thread |-> NoToken]

--------------------------------------------------------------------------------
IsLogin(o) == o \in {"signin", "signup"}

(* sr_connect: both pointers are checked. *)
connect(t, h) ==
    /\ \E ep \in ErrPtr : Connect(t, h, ep) \/ check_null(t, h, "connect", ep)
    /\ UNCHANGED tok

(* sr_surreal_disconnect. *)
disconnect(t, h) == Disconnect(t, h) /\ UNCHANGED tok

(* The program calls operation o with at most one of its pointers null. *)
Start(t, h, o) ==
    /\ Usable(h)
    /\ \E ep \in ErrPtr, nulls \in {{}} \cup {{p} : p \in Nullable(o)} :
          IF nulls \cap Row[o].checked # {}
            THEN check_null(t, h, o, ep)
            ELSE Invoke(t, h, o, ep, Row[o].out # "none" /\ Row[o].outptr \notin nulls)
    /\ UNCHANGED tok

(* The database carries out the request, one that has parts perhaps only a   *)
(* part of it.                                                              *)
Serve(t) ==
    /\ \/ call[t].done # "all" /\ TakeEffect(t, "all")
       \/ /\ call[t].op \in Op
          /\ Row[call[t].op].verdict = "piecemeal"
          /\ call[t].done = "nothing" /\ TakeEffect(t, "part")
    /\ UNCHANGED tok

(* The operation looks at the outcome of its statement. *)
Looks(o) == o \in Op => Row[o].verdict # "swallowed"

(* Variant: no operation does. *)
ResolveUnlooked(t) == FutureOk(t) /\ UNCHANGED tok

(* The future is Ok when all of the request was carried out, or when it is a *)
(* statement whose outcome nobody looks at.                                 *)
Resolve(t) ==
    /\ Looks(call[t].op) => call[t].done = "all"
    /\ FutureOk(t)
    /\ UNCHANGED tok

(* create finds something else than an object in the answer. *)
Misfit(t) ==
    /\ call[t].op \in Op
    /\ Row[call[t].op].verdict = "late"
    /\ LateErr(t)
    /\ UNCHANGED tok

(* Variant: the token is only assigned to a variable that holds one. *)
AssignTokenIfSet(t) ==
    /\ Running(t, "resolved")
    /\ ReturnCode(t, 0)
    /\ tok' = [tok EXCEPT ![t] = IF @ = "null" THEN @ ELSE "owned"]
    /\ UNCHANGED <<process, life, ps, fatal, err, out, lost>>

(* `*token_ptr = token`: the old content is dropped first. *)
AssignToken(t) ==
    /\ Running(t, "resolved")
    /\ ReturnCode(t, 0)
    /\ IF tok[t] \in {"unset", "stale"}
         THEN process' = "faulted" /\ UNCHANGED tok
         ELSE tok' = [tok EXCEPT ![t] = "owned"] /\ UNCHANGED process
    /\ UNCHANGED <<life, ps, fatal, err, out, lost>>

(* What Ok leaves in the result variable. *)
Content(o, code) == IF Row[o].out = "array" /\ code = 0 THEN "empty" ELSE "owned"

(* What the closure makes of the answer of the SDK. *)
Answer(t) ==
    IF IsLogin(call[t].op) /\ call[t].want
      THEN AssignToken(t)
      ELSE \/ Misfit(t)
           \/ /\ \/ Connected(t)
                 \/ /\ call[t].op \in Op
                    /\ \E code \in Codes(call[t].op, call[t].want) :
                          Succeed(t, code, Content(call[t].op, code))
              /\ UNCHANGED tok

(* sr_free_string(token), and NULL again in a tidy program. *)
CollectToken(t) ==
    /\ Running(t, "returned")
    /\ process' = IF call[t].ret = 0 /\ tok[t] # "owned" THEN "faulted" ELSE "running"
    /\ tok' = [tok EXCEPT ![t] = IF TidyToken THEN "null" ELSE "stale"]
    /\ call' = [call EXCEPT ![t] = NoCall]
    /\ UNCHANGED <<life, ps, fatal, err, out, lost>>

GiveBack(t) ==
    IF IsLogin(call[t].op) /\ FreesOut(call[t])
      THEN CollectToken(t)
      ELSE Collect(t) /\ UNCHANGED tok

--------------------------------------------------------------------------------
(* The steps a call takes by itself once the program has made it. *)
Step(t) ==
    \/ Enter(t) /\ UNCHANGED tok
    \/ Serve(t)
    \/ Resolve(t)
    \/ FutureErr(t) /\ UNCHANGED tok
    \/ Panic(t) /\ UNCHANGED tok
    \/ Answer(t)
    \/ Report(t) /\ UNCHANGED tok
    \/ GiveBack(t)

Next ==
    \E t \in Thread :
        \/ \E h \in Handle : connect(t, h) \/ disconnect(t, h)
        \/ \E h \in Handle, o \in Op : Start(t, h, o)
        \/ Step(t)

(* Operating system threads are scheduled, and the SDK's futures resolve. *)
Fairness == \A t \in Thread : WF_vars(Step(t))

Spec == Init /\ [][Next]_vars
FairSpec == Spec /\ Fairness

--------------------------------------------------------------------------------
TypeOK == HarnessTypeOK /\ tok \in [Thread -> Cell \cup {"null"}]

(* Properties *)

(* No sequence of calls, by a program that frees an error string exactly   *)
(* after a negative code and a result exactly after any other, frees a      *)
(* variable that owns nothing, writes through null or aborts: what each     *)
(* path of the harness and of the operations leaves in the caller's         *)
(* variables always agrees with the code it returns.                        *)
MemorySafe == process = "running"

(* Nor does it overwrite an error string, a result or a token that has not *)
(* been freed.                                                              *)
NothingLost == ~lost

(* A returned call left an error string exactly when its code is negative  *)
(* and an err_ptr was given, and a result exactly when it is not negative    *)
(* and a result was asked for; never both.                                  *)
Delivered(t) ==
    LET c == call[t] IN
    /\ (err[t] = "owned") <=> (c.ret < 0 /\ c.ep = "valid")
    /\ (out[t] \in {"owned", "empty"} \/ tok[t] = "owned") <=> (c.ret >= 0 /\ c.want)

AnswersAgree == \A t \in Thread : pc(t) = "returned" => Delivered(t)

(* The inductive invariant behind the three: for every thread, what its C   *)
(* variables own is exactly what the call it is in has handed over.  It      *)
(* needs callers that pass an err_ptr and keep their token variable NULL.   *)
Handed(t) == pc(t) = "returned"

OwnedByCaller(t) ==
    LET c == call[t] IN
    /\ c.ep = "valid"
    /\ c.op = "connect" => ~c.want
    /\ (err[t] = "owned") <=> (Handed(t) /\ c.ret < 0)
    /\ (out[t] \in {"owned", "empty"}) <=> (Handed(t) /\ FreesOut(c) /\ ~IsLogin(c.op))
    /\ tok[t] = IF Handed(t) /\ FreesOut(c) /\ IsLogin(c.op) THEN "owned" ELSE "null"
    /\ Handed(t) /\ FreesOut(c) /\ IsLogin(c.op) => c.ret = 0

CallerMemory ==
    /\ MemorySafe /\ lost = FALSE
    /\ \A h \in Handle : ps[h] = FALSE
    /\ \A t \in Thread : OwnedByCaller(t)

(* The promise of CallContract, kept by every operation under every          *)
(* interleaving of the threads: a call that says ok was carried out to the    *)
(* end, unless it is one that does not look, and what the caller may free     *)
(* fits the answer; after an error or a panic the caller knows nothing.       *)
Promised(t) ==
    IF pc(t) = "idle" THEN "idle"
    ELSE IF pc(t) = "returned" THEN "answered"
    ELSE IF call[t].done = "all" THEN "served" ELSE "called"

Told(t) ==
    IF pc(t) # "returned" THEN "none"
    ELSE IF call[t].ret >= 0 THEN "ok"
    ELSE IF call[t].ret = SR_ERROR THEN "error" ELSE "fatal"

Requested(t) == [looks |-> Looks(call[t].op), wants |-> call[t].want]

Owed(t) ==
    {x \in {"message", "result"} :
        IF x = "message" THEN err[t] = "owned"
                         ELSE out[t] \in {"owned", "empty"} \/ tok[t] = "owned"}

Contract == INSTANCE CallContract WITH
    status  <- [t \in Thread |-> Promised(t)],
    request <- [t \in Thread |-> Requested(t)],
    answer  <- [t \in Thread |-> Told(t)],
    owed    <- [t \in Thread |-> Owed(t)]

KeepsContract == Contract!Spec

(* Every call returns and is collected, whatever the other threads do and   *)
(* also when a call of theirs on the same handle panicked.                  *)
CallsReturn == \A t \in Thread : pc(t) # "idle" ~> pc(t) = "idle"
--------------------------------------------------------------------------------
(* What the documentation says and the code does not do; each is the subject *)
(* of a run that finds the counterexample.                                  *)

(* lib.rs:76: after SR_FATAL on any thread, use of the handle aborts: no     *)
(* call gets past the load of the poison flag.                              *)
PoisonedUseAborts ==
    [][\A t \in Thread : pc(t) = "gate" /\ pc(t)' = "block_on" => ~fatal[call[t].h]]_vars

(* lib.rs:94: a null err_ptr means that errors are ignored. *)
NullErrIgnored == process # "crashed"

(* lib.rs:1285: signin returns the token through token_ptr; in the example   *)
(* the variable it points to holds nothing before the call.                 *)
TokenIsOutput == process # "faulted"

(* lib.rs:797: sr_kill terminates the live query; the example and the tests  *)
(* take a negative code for the sign that it did not.                       *)
KillReported == \A t \in Thread :
    pc(t) = "returned" /\ call[t].op = "kill" /\ call[t].ret >= 0 => call[t].done = "all"
================================================================================
