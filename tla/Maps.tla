---------------------------------- MODULE Maps ----------------------------------
(* Functions used as maps: those of module TLC have no definition that a     *)
(* proof could use.                                                         *)

One(x, v) == [y \in {x} |-> v]

(* What f says, and g elsewhere. *)
Over(f, g) == [x \in DOMAIN f \cup DOMAIN g |-> IF x \in DOMAIN f THEN f[x] ELSE g[x]]

Only(f, S) == [x \in S \cap DOMAIN f |-> f[x]]
================================================================================
