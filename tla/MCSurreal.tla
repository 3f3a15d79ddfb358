------------------------------- MODULE MCSurreal -------------------------------
(* Instances of Surreal for TLC. *)
EXTENDS Surreal

(* One operation of each shape: no result, array, box with an optional       *)
(* pointer, token, unlooked-at statement.                                   *)
ShapeOps == {"use_ns", "select", "create", "signin", "kill"}

(* And one that is carried out in parts. *)
ContractOps == ShapeOps \cup {"import"}
================================================================================
