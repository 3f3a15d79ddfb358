----------------------------- MODULE MCLiveStreams -----------------------------
(* Instances of LiveStreams for TLC. *)
EXTENDS LiveStreams

AllOps == DOMAIN Row
================================================================================
