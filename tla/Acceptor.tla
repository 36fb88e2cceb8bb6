------------------------------ MODULE Acceptor ------------------------------
(***************************************************************************)
(* What `whisper connect --accept` opens on a node's /128                  *)
(* (internal/wgtun/accept.go): one accept loop per port, a goroutine per   *)
(* connection it admits, the fleet that says who is admitted               *)
(* (internal/cli/whale_serve.go, connect_accept.go) with its refresh, and  *)
(* the Close that takes everything down with the tunnel.                   *)
(*                                                                         *)
(* An admission asks the fleet twice without the acceptor's lock, then     *)
(* decides and counts under it; a refresh replaces the fleet and asks it   *)
(* about every connection that is open; a Close marks, then closes.  Each  *)
(* of these is a step, so that they meet in every order.                   *)
(***************************************************************************)
EXTENDS Integers, FiniteSets, Functions

CONSTANTS
  Listener,      \* the accept loops, one per rule
  Conn,          \* inbound connections, each used again once it is gone
  Source,        \* the addresses callers come from
  NetOf,         \* the /64 of each
  Extra,         \* sources --accept-from admits besides the fleet
  MaxConns,      \* AcceptOptions.MaxConns
  MaxPerSource,  \* AcceptOptions.MaxPerSource
  Fleets,        \* what a fleet refresh may answer, none of them empty
  Nobody         \* no connection, for a loop that waits

\* What a limit counts: an address of its own, or a /64.
Bucket == [kind : {"addr"}, of : Source] \cup [kind : {"net"}, of : Range(NetOf)]

ASSUME AcceptAssumption ==
  /\ IsFiniteSet(Conn) /\ Source # {}
  /\ NetOf \in [Source -> Range(NetOf)]
  /\ Extra \subseteq Source /\ Fleets \subseteq SUBSET Source
  /\ MaxConns \in Nat \ {0} /\ MaxPerSource \in Nat \ {0}
  /\ Nobody \notin Conn

VARIABLES
  loop,       \* the connection each accept loop is admitting, "ended" once it returned
  conn,       \* every connection: where its admission or its splice is
  members,    \* fleetGate.members
  perSrc,     \* acceptor.perSrc
  strangers,  \* acceptor.strangers
  closing,    \* Close: its progress, and the connections it found open
  check       \* revalidate: the open connections it found, and those it will close

vars == <<loop, conn, members, perSrc, strangers, closing, check>>

-----------------------------------------------------------------------------
(* pc: `none` is no connection; arrived, permitted, known are within       *)
(* admit; dial, splice, leave within carry.  `shut` are the halves, of the *)
(* caller and of the local service, that were closed from this side.       *)

PC == {"none", "arrived", "permitted", "known", "dial", "splice", "leave"}
Half == {"caller", "local"}

\* A connection that is not there.
Gone == [pc |-> "none", src |-> CHOOSE s \in Source : TRUE, individual |-> FALSE, shut |-> {}]

\* acceptor.callers: the inbound halves admitted and not released.
Callers == {c \in Conn : conn[c].pc \in {"dial", "splice", "leave"}}

\* fleetGate.permit, and acceptPlan.member.
Permit(s) == s \in members \/ s \in Extra
Member(s) == s \in members

\* bucketFor, with the answer of Individual the slot keeps.
BucketFor(s, individual) ==
  IF individual THEN [kind |-> "addr", of |-> s] ELSE [kind |-> "net", of |-> NetOf[s]]
BucketOf(c) == BucketFor(conn[c].src, conn[c].individual)

\* strangerCap: all but a quarter, and all but one where there are two.
StrangerCap ==
  LET keep == IF MaxConns \div 4 = 0 /\ MaxConns > 1 THEN 1 ELSE MaxConns \div 4
  IN MaxConns - keep

IsClosed == closing.pc # "open"          \* acceptor.closed

\* Mutant: the listeners are closed after the wait.
CancelledLast == closing.pc = "done"

Cancelled == closing.pc \in {"conns", "wait", "done"}   \* listeners closed, life cancelled

-----------------------------------------------------------------------------
(* serve and admit.                                                        *)

Accept(l, c) ==
  /\ loop[l] = Nobody /\ ~Cancelled /\ conn[c].pc = "none"
  /\ \E s \in Source : conn' = [conn EXCEPT ![c] = [Gone EXCEPT !.pc = "arrived", !.src = s]]
  /\ loop' = [loop EXCEPT ![l] = c]
  /\ UNCHANGED <<members, perSrc, strangers, closing, check>>

\* The loop goes on; the connection is not kept.
TurnedAway(l, c) ==
  /\ conn' = [conn EXCEPT ![c] = Gone]
  /\ loop' = [loop EXCEPT ![l] = Nobody]
  /\ UNCHANGED <<members, perSrc, strangers, closing, check>>

Refused(l, c) ==
  /\ loop[l] = c /\ conn[c].pc = "arrived" /\ ~Permit(conn[c].src)
  /\ TurnedAway(l, c)

Permitted(l, c) ==
  /\ loop[l] = c /\ conn[c].pc = "arrived" /\ Permit(conn[c].src)
  /\ conn' = [conn EXCEPT ![c].pc = "permitted"]
  /\ UNCHANGED <<loop, members, perSrc, strangers, closing, check>>

\* One answer of Individual, for the bucket and for the reserve.
Known(l, c) ==
  /\ loop[l] = c /\ conn[c].pc = "permitted"
  /\ conn' = [conn EXCEPT ![c].pc = "known", ![c].individual = Member(conn[c].src)]
  /\ UNCHANGED <<loop, members, perSrc, strangers, closing, check>>

\* admit under the lock: closed, then the limits in their order.
Limited(c) ==
  \/ Cardinality(Callers) >= MaxConns
  \/ ~conn[c].individual /\ strangers >= StrangerCap
  \/ perSrc[BucketOf(c)] >= MaxPerSource

NotEntered(l, c) ==
  /\ loop[l] = c /\ conn[c].pc = "known"
  /\ IsClosed \/ Limited(c)
  /\ TurnedAway(l, c)

Enter(l, c) ==
  /\ loop[l] = c /\ conn[c].pc = "known"
  /\ ~IsClosed /\ ~Limited(c)
  /\ conn' = [conn EXCEPT ![c].pc = "dial"]
  /\ perSrc' = [perSrc EXCEPT ![BucketOf(c)] = @ + 1]
  /\ strangers' = IF conn[c].individual THEN strangers ELSE strangers + 1
  /\ loop' = [loop EXCEPT ![l] = Nobody]
  /\ UNCHANGED <<members, closing, check>>

\* A closed listener ends its loop.
LoopEnds(l) ==
  /\ loop[l] = Nobody /\ Cancelled
  /\ loop' = [loop EXCEPT ![l] = "ended"]
  /\ UNCHANGED <<conn, members, perSrc, strangers, closing, check>>

-----------------------------------------------------------------------------
(* carry, with its deferred release.                                       *)

\* Whatever carry leaves by, both halves are closed.
Goes(c, pc) ==
  /\ conn' = [conn EXCEPT ![c].pc = pc, ![c].shut = IF pc = "leave" THEN Half ELSE @]
  /\ UNCHANGED <<loop, members, perSrc, strangers, closing, check>>

\* Mutant: nobody looks whether Close came while the service was dialled.
DialledLate(c) ==
  /\ conn[c].pc = "dial" /\ ~Cancelled
  /\ Goes(c, "splice")

\* The local service answers; a Close in between takes both halves.
Dialled(c) ==
  /\ conn[c].pc = "dial" /\ ~Cancelled
  /\ Goes(c, IF IsClosed THEN "leave" ELSE "splice")

\* It does not, within DialTimeout, or the acceptor's life has ended.
NotDialled(c) ==
  /\ conn[c].pc = "dial"
  /\ Goes(c, "leave")

\* Splice, when the service's half is closed under it.
Torn(c) ==
  /\ conn[c].pc = "splice" /\ "local" \in conn[c].shut
  /\ Goes(c, "leave")

\* Splice, when only the caller's half is: that reads as the end of what the
\* caller sends, is passed on, and the service has until IdleTimeout to end too.
Idles(c) ==
  /\ conn[c].pc = "splice" /\ "caller" \in conn[c].shut
  /\ Goes(c, "leave")

\* Splice, when the two ends are done, one failed, or nothing moved for long.
EndsItself(c) ==
  /\ conn[c].pc = "splice"
  /\ Goes(c, "leave")

\* Mutant: the slot goes back to the bucket the caller has by now.
ReleaseAsked(c) ==
  LET member == Member(conn[c].src)
  IN /\ conn[c].pc = "leave"
     /\ perSrc' = [perSrc EXCEPT ![BucketFor(conn[c].src, member)] = IF @ <= 1 THEN 0 ELSE @ - 1]
     /\ strangers' = IF conn[c].individual THEN strangers ELSE strangers - 1
     /\ conn' = [conn EXCEPT ![c] = Gone]
     /\ check' = [check EXCEPT !.open = @ \ {c}]
     /\ closing' = [closing EXCEPT !.halves = @ \ ({c} \X Half)]
     /\ UNCHANGED <<loop, members>>

\* Mutant: every release counts as a stranger's.
ReleaseAlike(c) ==
  /\ conn[c].pc = "leave"
  /\ perSrc' = [perSrc EXCEPT ![BucketOf(c)] = IF @ <= 1 THEN 0 ELSE @ - 1]
  /\ strangers' = strangers - 1
  /\ conn' = [conn EXCEPT ![c] = Gone]
  /\ check' = [check EXCEPT !.open = @ \ {c}]
  /\ closing' = [closing EXCEPT !.halves = @ \ ({c} \X Half)]
  /\ UNCHANGED <<loop, members>>

\* release: the slot goes back to the bucket it was counted under.
Release(c) ==
  /\ conn[c].pc = "leave"
  /\ perSrc' = [perSrc EXCEPT ![BucketOf(c)] = IF @ <= 1 THEN 0 ELSE @ - 1]
  /\ strangers' = IF conn[c].individual THEN strangers ELSE strangers - 1
  /\ conn' = [conn EXCEPT ![c] = Gone]
  \* The close of a connection that is gone is a close of nothing.
  /\ check' = [check EXCEPT !.open = @ \ {c}]
  /\ closing' = [closing EXCEPT !.halves = @ \ ({c} \X Half)]
  /\ UNCHANGED <<loop, members>>

-----------------------------------------------------------------------------
(* The fleet and its refresh.                                              *)

\* fleetGate.refresh that succeeds; its hook is revalidate, which begins with
\* the connections that are open now.
RefreshFleet ==
  /\ check.pc = "idle"
  /\ members' \in Fleets
  /\ check' = [check EXCEPT !.pc = "look"]
  /\ UNCHANGED <<loop, conn, perSrc, strangers, closing>>

Look ==
  /\ check.pc = "look"
  /\ check' = [pc |-> "ask", open |-> Callers]
  /\ UNCHANGED <<loop, conn, members, perSrc, strangers, closing>>

\* Mutant: only those who came in as members are asked about.
RevalidateMembers(c) ==
  /\ check.pc = "ask" /\ c \in check.open
  /\ conn' = [conn EXCEPT ![c].shut = IF Permit(conn[c].src) \/ ~conn[c].individual THEN @
                                                       ELSE @ \cup {"caller"}]
  /\ check' = [check EXCEPT !.open = @ \ {c}]
  /\ UNCHANGED <<loop, members, perSrc, strangers, closing>>

\* Permit is asked with the lock released and the refused are closed.
Revalidate(c) ==
  /\ check.pc = "ask" /\ c \in check.open
  /\ conn' = [conn EXCEPT ![c].shut = IF Permit(conn[c].src) THEN @ ELSE @ \cup {"caller"}]
  /\ check' = [check EXCEPT !.open = @ \ {c}]
  /\ UNCHANGED <<loop, members, perSrc, strangers, closing>>

Revalidated ==
  /\ check.pc = "ask" /\ check.open = {}
  /\ check' = [check EXCEPT !.pc = "idle"]
  /\ UNCHANGED <<loop, conn, members, perSrc, strangers, closing>>

-----------------------------------------------------------------------------
(* Close, from Tunnel.Stop.                                                *)

\* acceptor.open: the callers' halves, and the service's once it is dialled.
Open == (Callers \X {"caller"}) \cup ({c \in Conn : conn[c].pc = "splice"} \X {"local"})

MarkClosed ==
  /\ closing.pc = "open"
  /\ closing' = [pc |-> "marked", halves |-> Open]
  /\ UNCHANGED <<loop, conn, members, perSrc, strangers, check>>

CloseListeners ==
  /\ closing.pc = "marked"
  /\ closing' = [closing EXCEPT !.pc = "conns"]
  /\ UNCHANGED <<loop, conn, members, perSrc, strangers, check>>

CloseConns ==
  /\ closing.pc = "conns"
  /\ conn' = [c \in Conn |-> [conn[c] EXCEPT !.shut = @ \cup {h \in Half : <<c, h>> \in closing.halves}]]
  /\ closing' = [pc |-> "wait", halves |-> {}]
  /\ UNCHANGED <<loop, members, perSrc, strangers, check>>

\* wg.Wait: every loop has returned, every carry has released.
Waited ==
  /\ closing.pc = "wait"
  /\ \A l \in Listener : loop[l] = "ended"
  /\ Callers = {}
  /\ closing' = [closing EXCEPT !.pc = "done"]
  /\ UNCHANGED <<loop, conn, members, perSrc, strangers, check>>

-----------------------------------------------------------------------------
\* The fleet may not have been read yet: then nobody is admitted.
Init ==
  /\ loop = [l \in Listener |-> Nobody]
  /\ conn = [c \in Conn |-> Gone]
  /\ members \in Fleets \cup {{}}
  /\ perSrc = [b \in Bucket |-> 0] /\ strangers = 0
  /\ closing = [pc |-> "open", halves |-> {}]
  /\ check = [pc |-> "idle", open |-> {}]

Admit(l, c) == Refused(l, c) \/ Permitted(l, c) \/ Known(l, c) \/ NotEntered(l, c) \/ Enter(l, c)

\* What a goroutine of an admitted connection does by itself.
Carry(c) == NotDialled(c) \/ Torn(c) \/ Idles(c) \/ Release(c)

Checking == Look \/ Revalidated \/ \E c \in Conn : Revalidate(c)
Closing == CloseListeners \/ CloseConns \/ Waited

Next ==
  \/ \E l \in Listener : LoopEnds(l) \/ \E c \in Conn : Accept(l, c) \/ Admit(l, c)
  \/ \E c \in Conn : Carry(c) \/ Dialled(c) \/ EndsItself(c)
  \/ RefreshFleet \/ Checking \/ MarkClosed \/ Closing

Spec == Init /\ [][Next]_vars

\* Goroutines run, a dial answers or times out, the refresh ticks.  Nothing says
\* that callers come, that they go, or that the tunnel stops.
FairSpec ==
  /\ Spec
  /\ \A l \in Listener : WF_vars(LoopEnds(l)) /\ WF_vars(\E c \in Conn : Admit(l, c))
  /\ \A c \in Conn : WF_vars(Carry(c) \/ Dialled(c))
  /\ WF_vars(RefreshFleet) /\ WF_vars(Checking) /\ WF_vars(Closing)

-----------------------------------------------------------------------------
TypeOK ==
  /\ loop \in [Listener -> Conn \cup {Nobody, "ended"}]
  /\ conn \in [Conn -> [pc : PC, src : Source, individual : BOOLEAN, shut : SUBSET Half]]
  /\ members \subseteq Source
  /\ perSrc \in [Bucket -> Nat] /\ strangers \in Nat
  /\ closing \in [pc : {"open", "marked", "conns", "wait", "done"}, halves : SUBSET (Conn \X Half)]
  /\ check \in [pc : {"idle", "look", "ask"}, open : SUBSET Conn]

\* The counts the limits are held against are the connections they stand for, in
\* every order of admissions, releases and fleet changes.
CountsAreTrue ==
  /\ strangers = Cardinality({c \in Callers : ~conn[c].individual})
  /\ \A b \in Bucket : perSrc[b] = Cardinality({c \in Callers : BucketOf(c) = b})

\* No limit is passed, and the fleet's share is kept: when every slot is taken,
\* callers admitted as members hold what is reserved for them.
LimitsHold ==
  /\ Cardinality(Callers) <= MaxConns
  /\ Cardinality({c \in Callers : ~conn[c].individual}) <= StrangerCap
  /\ \A b \in Bucket : Cardinality({c \in Callers : BucketOf(c) = b}) <= MaxPerSource

\* After Close nothing is open, and what Close waits for ends by itself: a dial
\* that its end cancels, a release, or a splice whose service's half is closed,
\* never one that is left to its idle timeout.
ClosedIsEmpty ==
  /\ closing.pc = "done" => Callers = {}
  /\ closing.pc = "wait" => \A c \in Callers : conn[c].pc = "splice" => "local" \in conn[c].shut

\* Close ends, however slow a local service and whatever callers do.
CloseEnds == closing.pc = "marked" ~> closing.pc = "done"

\* A caller the fleet drops for good loses the connections it has, also one whose
\* admission was under way.
RevokedIsCutOff ==
  \A s \in Source : <>[](~Permit(s)) => <>[](\A c \in Callers : conn[c].src # s)

\* What revalidate promises of the moment it returns: no connection is open whose
\* caller is not permitted.
RevalidatedMeansPermitted ==
  [][check.pc = "ask" /\ check'.pc = "idle" =>
       \A c \in Callers : conn[c].pc = "splice" /\ conn[c].shut = {} => Permit(conn[c].src)]_vars
=============================================================================
