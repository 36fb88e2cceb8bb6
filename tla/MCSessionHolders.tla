--------------------------- MODULE MCSessionHolders ---------------------------
(***************************************************************************)
(* Instances of SessionHolders for model checking: two holders of one      *)
(* address, two loopback ports.                                            *)
(***************************************************************************)
EXTENDS SessionHolders

\* Every holder on one address.
OneAddress == [p \in Holder |-> "a"]

\* Any port for every holder, or a port of its own for each.
AnyPort == [p \in Holder |-> Port]
OwnPort == [p \in Holder |-> {10 + p}]
=============================================================================
