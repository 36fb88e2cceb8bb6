------------------------------- MODULE KeyLog -------------------------------
(***************************************************************************)
(* What a host promises about an identity whose key it holds: the service  *)
(* keeps a log of the keys the identity has had, which only grows, and the *)
(* key this host proves the identity with is one of the log's, moves       *)
(* towards its end and never back.  KeyMoves implements it.                *)
(***************************************************************************)
EXTENDS Integers, Sequences

CONSTANT Key   \* keys, 0 for none

VARIABLES
  log,  \* the identity's key events: the key each introduces, the next it commits to
  at    \* how far along it this host's key is, 0 while the host holds none of its keys

Last == log[Len(log)]
Used == {log[i].key : i \in 1 .. Len(log)}

Init == /\ \E k \in Key, n \in Key \cup {0} : log = <<[key |-> k, next |-> n]>>
        /\ at \in {0, 1}

\* A sealed log takes a commitment by the key it ends with.
Commit(n) ==
  /\ Last.next = 0
  /\ log' = Append(log, [key |-> Last.key, next |-> n])
  /\ UNCHANGED at

\* A committed one moves to the key it committed to.
Rotate(n) ==
  /\ Last.next # 0
  /\ log' = Append(log, [key |-> Last.next, next |-> n])
  /\ UNCHANGED at

\* The owner moves either to a key the log has not seen.
Recover(k, n) ==
  /\ k \notin Used
  /\ log' = Append(log, [key |-> k, next |-> n])
  /\ UNCHANGED at

\* The host comes to prove a key further along.
Learn ==
  /\ at' \in {i \in 1 .. Len(log) : i > at}
  /\ UNCHANGED log

Next == \/ \E n \in Key : Commit(n) \/ Rotate(n)
        \/ \E k, n \in Key : Recover(k, n)
        \/ Learn

Spec == Init /\ [][Next]_<<log, at>>
=============================================================================
