--------------------------- MODULE MCContainment ---------------------------
(* Instances of Containment: trees of up to three processes, with sockets  *)
(* of the kinds a containment pins, cuts and refuses.                      *)
EXTENDS Containment

CONSTANTS s1, s2, s3

MCFamily ==
  [s \in Sock |-> CASE s = s1 -> "listener" [] s = s2 -> "flow" [] OTHER -> "packet"]
=============================================================================
