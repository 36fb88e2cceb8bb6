--------------------------- MODULE MCDirectPeers ---------------------------
(* Instances of DirectPeers: an agent that comes back under a new key, and *)
(* candidate lists that grow, shrink and change.                           *)
EXTENDS DirectPeers, TLC

CONSTANTS k1, k2, a1, e1, e2, e3

Listed(cands) == [addr |-> a1, cands |-> cands]
MCMaps == {<<>>, k1 :> Listed(<<e1, e2>>), k1 :> Listed(<<e2>>), k1 :> Listed(<<e3>>), k2 :> Listed(<<e1>>),
           k2 :> Listed(<<e1, e3>>)}

\* Nothing can be sent to the third endpoint.
MCRefused == {Listed(<<e3>>)}
MCUnrouted == {Listed(<<e1, e3>>)}


\* One peer, whose list of endpoints is changed and nothing else.
OnePeer == {k1 :> Listed(<<e1, e2>>), k1 :> Listed(<<e2>>)}

\* The first key's path comes and goes at either endpoint, the second's stays.
MCReach == [k \in Key |-> IF k = k1 THEN {{}, {e1}, {e2}} ELSE {{e1}}]
=============================================================================
