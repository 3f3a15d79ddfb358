------------------------------ MODULE CallHarness ------------------------------
(***************************************************************************)
(* The harness that every blocking entry point of surrealdb.c runs in.     *)
(*                                                                         *)
(* A C thread calls an exported function with a connection handle and      *)
(* pointers to its own variables.  The function checks some of the         *)
(* pointers, loads the poison flag of the handle, blocks on a future inside *)
(* catch_unwind and turns the outcome into a return code, an error string  *)
(* written through err_ptr, or a result written through its out pointer.   *)
(* `with_surreal_async` (lib.rs) and `with_async` (rpc.rs) are the same    *)
(* text, so both handle types compose this module with their operations.   *)
(*                                                                         *)
(* A C variable (`err` and `out`, one of each per thread) is abstracted to *)
(* what it holds: "unset" (indeterminate), "owned" (an allocation nobody   *)
(* freed yet), "empty" (the pointer of an empty array, nothing allocated)  *)
(* or "stale" (an allocation already freed).                               *)
(***************************************************************************)
EXTENDS Integers

CONSTANTS Thread,      \* the threads of the C program
          Handle,      \* the C variables that hold a connection handle
          Op,          \* names of the operations on a handle ("connect" aside)
          ErrPtr,      \* what callers pass as err_ptr: a subset of {"valid", "null"}
          Obedient,    \* callers stop using a handle once it returned SR_FATAL
          MaxCode      \* bound on the lengths returned as a code

ASSUME HarnessAssumption ==
    /\ ErrPtr \subseteq {"valid", "null"}
    /\ Obedient \in BOOLEAN
    /\ MaxCode \in Nat \ {0}
    /\ "connect" \notin Op /\ "none" \notin Op
    /\ Handle # {}

SR_NONE   == 0
SR_CLOSED == -1
SR_ERROR  == -2
SR_FATAL  == -3

VARIABLES process,     \* "running", "aborted", "crashed" (null write), "faulted" (bad free)
          life,        \* life[h]: the Box<Surreal> behind the handle
          ps,          \* ps[h]: the poison flag of the handle
          fatal,       \* fatal[h]: an operation on the handle returned SR_FATAL
          call,        \* call[t]: the call the thread is in
          err, out,    \* err[t], out[t]: the C variables err_ptr and res_ptr point to
          lost         \* an allocation was overwritten before it was freed

harnessVars == <<process, life, ps, fatal, call, err, out, lost>>

Life == {"absent", "opening", "open", "freed"}
Stage == {"idle", "gate", "block_on", "resolved", "failed", "panicked", "returned"}
Cell == {"unset", "owned", "empty", "stale"}

(* How much of what a call asks for was carried out so far. *)
Extent == {"nothing", "part", "all"}

AnyHandle == CHOOSE h \in Handle : TRUE
NewCall(stage, o, h, ep, want, code) ==
    [pc |-> stage, op |-> o, h |-> h, ep |-> ep, want |-> want, done |-> "nothing",
     ret |-> code]
NoCall == NewCall("idle", "none", AnyHandle, "valid", FALSE, 0)

Calls == [pc : Stage, op : Op \cup {"connect", "none"}, h : Handle,
          ep : {"valid", "null"}, want : BOOLEAN, done : Extent,
          ret : SR_FATAL..MaxCode]

pc(t) == call[t].pc
Running(t, stage) == process = "running" /\ pc(t) = stage

HarnessInit ==
    /\ process = "running"
    /\ life = [h \in Handle |-> "absent"]
    /\ ps = [h \in Handle |-> FALSE]
    /\ fatal = [h \in Handle |-> FALSE]
    /\ call = [t \in Thread |-> NoCall]
    /\ err = [t \in Thread |-> "unset"]
    /\ out = [t \in Thread |-> "unset"]
    /\ lost = FALSE

--------------------------------------------------------------------------------
(* Writing through the caller's pointers. *)

(* ptr::write: the old content of the C variable is overwritten, not dropped. *)
OverwriteErr(t) ==
    /\ err' = [err EXCEPT ![t] = "owned"]
    /\ lost' = (lost \/ err[t] = "owned")

(* Variant: the code without the string. *)
write_no_error(t, ep) == UNCHANGED <<err, lost>>

(* write_error: silent when err_ptr is null. *)
write_error(t, ep) ==
    IF ep = "null" THEN UNCHANGED <<err, lost>> ELSE OverwriteErr(t)

Goto(t, stage) == call' = [call EXCEPT ![t].pc = stage]
ReturnCode(t, code) == call' = [call EXCEPT ![t].pc = "returned", ![t].ret = code]

--------------------------------------------------------------------------------
(* Before the future. *)

(* The C program only passes a handle that is open, and a program that     *)
(* follows the documentation not one that returned SR_FATAL.                *)
Usable(h) == life[h] = "open" /\ (Obedient => ~fatal[h])

(* check_null!: a pointer the function checks is null. *)
check_null(t, h, o, ep) ==
    /\ Running(t, "idle")
    /\ call' = [call EXCEPT ![t] = NewCall("returned", o, h, ep, FALSE, SR_ERROR)]
    /\ write_error(t, ep)
    /\ UNCHANGED <<process, life, ps, fatal, out>>

(* The checks passed. *)
Invoke(t, h, o, ep, want) ==
    /\ Running(t, "idle")
    /\ Usable(h)
    /\ call' = [call EXCEPT ![t] = NewCall("gate", o, h, ep, want, 0)]
    /\ UNCHANGED <<process, life, ps, fatal, err, out, lost>>

(* db.ps.load(Acquire), then rt.enter() and block_on. *)
Enter(t) ==
    /\ Running(t, "gate")
    /\ IF ps[call[t].h]
         THEN process' = "aborted" /\ UNCHANGED call
         ELSE Goto(t, "block_on") /\ UNCHANGED process
    /\ UNCHANGED <<life, ps, fatal, err, out, lost>>

(* connect runs its own catch_unwind with the same arms; it has no flag to load. *)
Connect(t, h, ep) ==
    /\ Running(t, "idle")
    /\ life[h] \in {"absent", "freed"}
    /\ life' = [life EXCEPT ![h] = "opening"]
    /\ call' = [call EXCEPT ![t] = NewCall("block_on", "connect", h, ep, FALSE, 0)]
    /\ UNCHANGED <<process, ps, fatal, err, out, lost>>

--------------------------------------------------------------------------------
(* Inside the closure. *)

(* The database carries out what was asked for, or `how` much of it, while   *)
(* the call waits.                                                          *)
TakeEffect(t, how) ==
    /\ Running(t, "block_on")
    /\ call' = [call EXCEPT ![t].done = how]
    /\ UNCHANGED <<process, life, ps, fatal, err, out, lost>>

(* The future resolves to Ok. *)
FutureOk(t) ==
    /\ Running(t, "block_on")
    /\ Goto(t, "resolved")
    /\ UNCHANGED <<process, life, ps, fatal, err, out, lost>>

(* The closure returns Err: an argument is not UTF-8, credentials are        *)
(* incomplete, the database refused, or the answer to a request that was     *)
(* carried out, or begun, never came back (a remote engine).  `done` is what  *)
(* it is: every Err of the SDK becomes the same SR_ERROR.                    *)
FutureErr(t) ==
    /\ Running(t, "block_on")
    /\ Goto(t, "failed")
    /\ UNCHANGED <<process, life, ps, fatal, err, out, lost>>

(* Variant: the result is written before the closure fails. *)
LateErrWithResult(t) ==
    /\ Running(t, "resolved")
    /\ Goto(t, "failed")
    /\ out' = IF call[t].want THEN [out EXCEPT ![t] = "owned"] ELSE out
    /\ lost' = (lost \/ (call[t].want /\ out[t] = "owned"))
    /\ UNCHANGED <<process, life, ps, fatal, err>>

(* The closure returns Err although the future resolved. *)
LateErr(t) ==
    /\ Running(t, "resolved")
    /\ Goto(t, "failed")
    /\ UNCHANGED <<process, life, ps, fatal, err, out, lost>>

(* A panic unwinds out of block_on. *)
Panic(t) ==
    /\ Running(t, "block_on") \/ (Running(t, "resolved") /\ call[t].op # "connect")
    /\ Goto(t, "panicked")
    /\ UNCHANGED <<process, life, ps, fatal, err, out, lost>>

(* Variant: nothing is written for an empty result. *)
SucceedUnlessEmpty(t, code, content) ==
    /\ Running(t, "resolved")
    /\ call[t].op # "connect"
    /\ ReturnCode(t, code)
    /\ out' = IF call[t].want /\ code > 0 THEN [out EXCEPT ![t] = content] ELSE out
    /\ UNCHANGED <<process, life, ps, fatal, err, lost>>

(* The closure writes its result through the out pointer (ptr::write) and  *)
(* returns Ok(code); the harness returns the code.                          *)
Succeed(t, code, content) ==
    /\ Running(t, "resolved")
    /\ call[t].op # "connect"
    /\ ReturnCode(t, code)
    /\ IF call[t].want
         THEN /\ out' = [out EXCEPT ![t] = content]
              /\ lost' = (lost \/ out[t] = "owned")
         ELSE UNCHANGED <<out, lost>>
    /\ UNCHANGED <<process, life, ps, fatal, err>>

(* connect leaks the Box and writes the handle. *)
Connected(t) ==
    /\ Running(t, "resolved")
    /\ call[t].op = "connect"
    /\ ReturnCode(t, 1)
    /\ life' = [life EXCEPT ![call[t].h] = "open"]
    /\ ps' = [ps EXCEPT ![call[t].h] = FALSE]
    /\ fatal' = [fatal EXCEPT ![call[t].h] = FALSE]
    /\ UNCHANGED <<process, err, out, lost>>

--------------------------------------------------------------------------------
(* After the future. *)

NotOpened(c) == [life EXCEPT ![c.h] = IF c.op = "connect" THEN "absent" ELSE @]

(* Variant: a panic is not turned into a code. *)
ReportErrorsOnly(t) ==
    /\ Running(t, "failed")
    /\ life' = NotOpened(call[t])
    /\ OverwriteErr(t)
    /\ ReturnCode(t, SR_ERROR)
    /\ UNCHANGED <<process, ps, fatal, out>>

(* The match on the outcome of block_on: err_ptr.write without a null check, *)
(* then SR_ERROR for an Err and SR_FATAL for a panic.  ps is not stored to.  *)
Report(t) ==
    /\ Running(t, "failed") \/ Running(t, "panicked")
    /\ IF call[t].ep = "null"
         THEN process' = "crashed" /\ UNCHANGED <<life, fatal, call, err, lost>>
         ELSE /\ OverwriteErr(t)
              /\ life' = NotOpened(call[t])
              /\ IF pc(t) = "failed"
                   THEN ReturnCode(t, SR_ERROR) /\ UNCHANGED fatal
                   ELSE /\ ReturnCode(t, SR_FATAL)
                        /\ fatal' = [fatal EXCEPT ![call[t].h] = (call[t].op # "connect")]
              /\ UNCHANGED process
    /\ UNCHANGED <<ps, out>>

--------------------------------------------------------------------------------
(* The C side. *)

FreesErr(c) == c.ret < 0 /\ c.ep = "valid"
FreesOut(c) == c.ret >= 0 /\ c.want

(* What the tests and examples do with a returned call: on a negative code  *)
(* print and free err, otherwise use and free the result.  Freeing a        *)
(* variable that owns nothing is undefined.                                 *)
Collect(t) ==
    /\ Running(t, "returned")
    /\ process' = IF \/ FreesErr(call[t]) /\ err[t] # "owned"
                     \/ FreesOut(call[t]) /\ out[t] \notin {"owned", "empty"}
                    THEN "faulted" ELSE "running"
    /\ err' = IF FreesErr(call[t]) THEN [err EXCEPT ![t] = "stale"] ELSE err
    /\ out' = IF FreesOut(call[t]) THEN [out EXCEPT ![t] = "stale"] ELSE out
    /\ call' = [call EXCEPT ![t] = NoCall]
    /\ UNCHANGED <<life, ps, fatal, lost>>

(* disconnect: Box::from_raw and drop, any panic swallowed.  The caller     *)
(* makes sure no other thread is inside a call on the handle.               *)
Disconnect(t, h) ==
    /\ Running(t, "idle")
    /\ life[h] = "open"
    /\ \A u \in Thread : call[u].h = h => pc(u) = "idle"
    /\ life' = [life EXCEPT ![h] = "freed"]
    /\ UNCHANGED <<process, ps, fatal, call, err, out, lost>>

HarnessTypeOK ==
    /\ process \in {"running", "aborted", "crashed", "faulted"}
    /\ life \in [Handle -> Life]
    /\ ps \in [Handle -> BOOLEAN]
    /\ fatal \in [Handle -> BOOLEAN]
    /\ call \in [Thread -> Calls]
    /\ err \in [Thread -> Cell]
    /\ out \in [Thread -> Cell]
    /\ lost \in BOOLEAN
================================================================================
