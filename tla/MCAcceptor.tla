----------------------------- MODULE MCAcceptor -----------------------------
(* An instance of Acceptor: a member that comes and goes, another that     *)
(* shares its /64, and a stranger let in by --accept-from.                 *)
EXTENDS Acceptor

CONSTANTS m1, m2, s1, here, there
MCNetOf == [s \in Source |-> IF s = s1 THEN there ELSE here]
MCFleets == {{m1}, {m2}}
=============================================================================
