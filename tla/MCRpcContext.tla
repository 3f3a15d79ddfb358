------------------------------ MODULE MCRpcContext ------------------------------
(* Instances of RpcContext for TLC. *)
EXTENDS RpcContext

RpcOps == {"execute", "notifications", "next"}
================================================================================
