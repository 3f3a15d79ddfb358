------------------------------ MODULE CallContract ------------------------------
(***************************************************************************)
(* What a call on a connection promises to the thread that makes it.       *)
(*                                                                         *)
(* The request is carried out at most once, between the call and its       *)
(* return.  The call then answers in one of three ways and hands over what *)
(* the caller is to free: "ok" with the result if the caller wants one,     *)
(* "error" or "fatal" with a message.  "ok" says that the request was       *)
(* carried out to the end, if it is one whose outcome is looked at.         *)
(* "error" and "fatal" do not say whether it was: a caller who repeats the  *)
(* call may have it carried out twice.                                      *)
(***************************************************************************)
CONSTANT Thread

VARIABLES status,    \* status[t] in "idle", "called", "served", "answered"
          request,   \* request[t]: whether its outcome is looked at, and a result wanted
          answer,    \* answer[t] in "none", "ok", "error", "fatal"
          owed       \* owed[t]: what the caller is to free, of {"message", "result"}

vars == <<status, request, answer, owed>>

Request == [looks : BOOLEAN, wants : BOOLEAN]
NoRequest == [looks |-> TRUE, wants |-> FALSE]

Init ==
    /\ status = [t \in Thread |-> "idle"]
    /\ request = [t \in Thread |-> NoRequest]
    /\ answer = [t \in Thread |-> "none"]
    /\ owed = [t \in Thread |-> {}]

Call(t) ==
    /\ status[t] = "idle"
    /\ status' = [status EXCEPT ![t] = "called"]
    /\ \E r \in Request : request' = [request EXCEPT ![t] = r]
    /\ UNCHANGED <<answer, owed>>

(* All of the request is carried out. *)
Serve(t) ==
    /\ status[t] = "called"
    /\ status' = [status EXCEPT ![t] = "served"]
    /\ UNCHANGED <<request, answer, owed>>

Due(a, r) == IF a # "ok" THEN {"message"} ELSE IF r.wants THEN {"result"} ELSE {}

Answer(t, a) ==
    /\ status[t] \in {"called", "served"}
    /\ a = "ok" /\ request[t].looks => status[t] = "served"
    /\ status' = [status EXCEPT ![t] = "answered"]
    /\ answer' = [answer EXCEPT ![t] = a]
    /\ owed' = [owed EXCEPT ![t] = Due(a, request[t])]
    /\ UNCHANGED request

(* A call with a null argument is refused on the spot. *)
Refuse(t) ==
    /\ status[t] = "idle"
    /\ status' = [status EXCEPT ![t] = "answered"]
    /\ \E r \in Request : request' = [request EXCEPT ![t] = r]
    /\ answer' = [answer EXCEPT ![t] = "error"]
    /\ owed' = [owed EXCEPT ![t] = {"message"}]

Collect(t) ==
    /\ status[t] = "answered"
    /\ status' = [status EXCEPT ![t] = "idle"]
    /\ request' = [request EXCEPT ![t] = NoRequest]
    /\ answer' = [answer EXCEPT ![t] = "none"]
    /\ owed' = [owed EXCEPT ![t] = {}]

Next == \E t \in Thread :
    \/ Call(t) \/ Serve(t) \/ Refuse(t) \/ Collect(t)
    \/ \E a \in {"ok", "error", "fatal"} : Answer(t, a)

Spec == Init /\ [][Next]_vars
================================================================================
