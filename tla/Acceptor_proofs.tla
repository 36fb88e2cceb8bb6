--------------------------- MODULE Acceptor_proofs ---------------------------
(***************************************************************************)
(* Theorems about Acceptor, for every finite set of connections, every set *)
(* of loops and sources, every fleet and both limits.                      *)
(***************************************************************************)
EXTENDS Acceptor, FiniteSetTheorems, TLAPS

\* The callers a bucket counts, and those that are no members of the fleet.
CountedUnder(b) == {c \in Callers : BucketOf(c) = b}
NoMembers == {c \in Callers : ~conn[c].individual}

\* What the limits mean for a Close: whatever it left open is on its list, then
\* closed, then gone.
CloseFindsAll ==
  /\ closing.pc \in {"marked", "conns"} =>
       \A c \in Conn : conn[c].pc = "splice" => <<c, "local">> \in closing.halves
  /\ closing.pc = "wait" => \A c \in Conn : conn[c].pc = "splice" => "local" \in conn[c].shut
  /\ closing.pc = "done" => Callers = {}

IInv == TypeOK /\ CountsAreTrue /\ LimitsHold /\ CloseFindsAll

-----------------------------------------------------------------------------
(* What the helpers return.                                                *)

\* The fleet's share never takes more than there is (AcceptOptions.strangerCap).
LEMMA CapBounds == StrangerCap \in 0..MaxConns
<1> DEFINE q == MaxConns \div 4
<1>1. q \in Nat /\ q <= MaxConns
  BY AcceptAssumption, SMT
<1>2. MaxConns \in Nat \ {0}
  BY AcceptAssumption
<1> HIDE DEF q
<1>3. (IF q = 0 /\ MaxConns > 1 THEN 1 ELSE q) \in 0..MaxConns
  BY <1>1, <1>2
<1>4. \A k \in 0..MaxConns : MaxConns - k \in 0..MaxConns
  BY <1>2
<1> QED  BY <1>3, <1>4 DEF StrangerCap, q

\* A connection is counted under a bucket there is (acceptor.bucketFor).
LEMMA BucketTyped ==
  ASSUME TypeOK, NEW c \in Conn
  PROVE  BucketOf(c) \in Bucket
<1>1. conn[c].src \in Source /\ conn[c].individual \in BOOLEAN
  BY DEF TypeOK
<1>2. NetOf[conn[c].src] \in Range(NetOf)
  BY <1>1, AcceptAssumption
<1> QED  BY <1>1, <1>2 DEF BucketOf, BucketFor, Bucket

LEMMA GoneTyped == Gone \in [pc : PC, src : Source, individual : BOOLEAN, shut : SUBSET Half]
<1>1. (CHOOSE s \in Source : TRUE) \in Source
  BY AcceptAssumption
<1> QED  BY <1>1 DEF Gone, PC

\* What the limits count is finite.
LEMMA CountsFinite ==
  /\ IsFiniteSet(Callers) /\ Cardinality(Callers) \in Nat
  /\ IsFiniteSet(NoMembers) /\ Cardinality(NoMembers) \in Nat
  /\ \A b \in Bucket : IsFiniteSet(CountedUnder(b)) /\ Cardinality(CountedUnder(b)) \in Nat
<1>1. IsFiniteSet(Conn)
  BY AcceptAssumption
<1>2. \A S : S \subseteq Conn => IsFiniteSet(S) /\ Cardinality(S) \in Nat
  BY <1>1, FS_Subset, FS_CardinalityType
<1>3. Callers \subseteq Conn /\ NoMembers \subseteq Conn
  BY DEF Callers, NoMembers
<1>4. \A b \in Bucket : CountedUnder(b) \subseteq Conn
  BY DEF Callers, CountedUnder
<1> QED  BY <1>2, <1>3, <1>4

\* Whatever leaves the callers and their buckets alone leaves the counts true.
LEMMA SameCallers ==
  ASSUME CountsAreTrue, LimitsHold, Callers' = Callers, UNCHANGED <<perSrc, strangers>>,
         \A c \in Callers : conn'[c].src = conn[c].src /\ conn'[c].individual = conn[c].individual
  PROVE  CountsAreTrue' /\ LimitsHold'
<1>1. NoMembers' = NoMembers
  BY DEF NoMembers
<1>2. \A b \in Bucket : CountedUnder(b)' = CountedUnder(b)
  BY DEF CountedUnder, BucketOf
<1>3. CountsAreTrue <=> /\ strangers = Cardinality(NoMembers)
                        /\ \A b \in Bucket : perSrc[b] = Cardinality(CountedUnder(b))
  BY DEF CountsAreTrue, NoMembers, CountedUnder
<1>4. CountsAreTrue' <=> /\ strangers' = Cardinality(NoMembers')
                         /\ \A b \in Bucket : perSrc'[b] = Cardinality(CountedUnder(b)')
  BY DEF CountsAreTrue, NoMembers, CountedUnder
<1>5. LimitsHold <=> /\ Cardinality(Callers) <= MaxConns
                     /\ Cardinality(NoMembers) <= StrangerCap
                     /\ \A b \in Bucket : Cardinality(CountedUnder(b)) <= MaxPerSource
  BY DEF LimitsHold, NoMembers, CountedUnder
<1>6. LimitsHold' <=> /\ Cardinality(Callers') <= MaxConns
                      /\ Cardinality(NoMembers') <= StrangerCap
                      /\ \A b \in Bucket : Cardinality(CountedUnder(b)') <= MaxPerSource
  BY DEF LimitsHold, NoMembers, CountedUnder
<1>7. CountsAreTrue'
  BY <1>1, <1>2, <1>3, <1>4
<1>8. LimitsHold'
  BY <1>1, <1>2, <1>5, <1>6
<1> QED  BY <1>7, <1>8

-----------------------------------------------------------------------------
(* Each action leaves the types as they are.                               *)

LEMMA InitTyped == Init => TypeOK
<1>1. [c \in Conn |-> Gone] \in [Conn -> [pc : PC, src : Source, individual : BOOLEAN, shut : SUBSET Half]]
  BY GoneTyped
<1>2. \A m \in Fleets \cup {{}} : m \subseteq Source
  BY AcceptAssumption
<1> QED  BY <1>1, <1>2 DEF Init, TypeOK

LEMMA AdmitTyped ==
  ASSUME TypeOK, NEW l \in Listener, NEW c \in Conn, Accept(l, c) \/ Admit(l, c)
  PROVE  TypeOK'
<1> DEFINE State == [pc : PC, src : Source, individual : BOOLEAN, shut : SUBSET Half]
<1>1. conn[c] \in State /\ Gone \in State
  BY GoneTyped DEF TypeOK
<1>2. CASE Accept(l, c)
  <2>1. PICK s \in Source : conn' = [conn EXCEPT ![c] = [Gone EXCEPT !.pc = "arrived", !.src = s]]
    BY <1>2 DEF Accept
  <2>2. [Gone EXCEPT !.pc = "arrived", !.src = s] \in State
    BY <1>1 DEF PC
  <2> QED  BY <1>2, <2>1, <2>2 DEF Accept, TypeOK
<1>3. CASE Refused(l, c) \/ NotEntered(l, c)
  BY <1>1, <1>3 DEF Refused, NotEntered, TurnedAway, TypeOK
<1>4. CASE Permitted(l, c)
  <2>1. [conn[c] EXCEPT !.pc = "permitted"] \in State
    BY <1>1 DEF PC
  <2> QED  BY <1>4, <2>1 DEF Permitted, TypeOK
<1>5. CASE Known(l, c)
  <2> DEFINE yes == Member(conn[c].src)
  <2>1. yes \in BOOLEAN
    BY DEF Member
  <2>2. conn' = [conn EXCEPT ![c].pc = "known", ![c].individual = yes]
    BY <1>5 DEF Known
  <2> HIDE DEF yes
  <2>3. [conn[c] EXCEPT !.pc = "known", !.individual = yes] \in State
    BY <1>1, <2>1 DEF PC
  <2>4. UNCHANGED <<loop, members, perSrc, strangers, closing, check>>
    BY <1>5 DEF Known
  <2> QED  BY <2>2, <2>3, <2>4 DEF TypeOK
<1>6. CASE Enter(l, c)
  <2>1. [conn[c] EXCEPT !.pc = "dial"] \in State
    BY <1>1 DEF PC
  <2>2. perSrc' \in [Bucket -> Nat] /\ strangers' \in Nat
    BY <1>6, BucketTyped DEF Enter, TypeOK
  <2> QED  BY <1>6, <2>1, <2>2 DEF Enter, TypeOK
<1> QED  BY <1>2, <1>3, <1>4, <1>5, <1>6 DEF Admit

\* A release counts down no further than zero, as it finds what it gives back.
LEMMA CarryTyped ==
  ASSUME TypeOK, CountsAreTrue, NEW c \in Conn, Carry(c) \/ Dialled(c) \/ EndsItself(c)
  PROVE  TypeOK'
<1> DEFINE State == [pc : PC, src : Source, individual : BOOLEAN, shut : SUBSET Half]
<1>1. conn[c] \in State /\ Gone \in State
  BY GoneTyped DEF TypeOK
<1>2. ASSUME NEW pc \in PC, Goes(c, pc)
      PROVE  TypeOK'
  <2>1. [conn[c] EXCEPT !.pc = pc, !.shut = IF pc = "leave" THEN Half ELSE @] \in State
    BY <1>1
  <2> QED  BY <1>2, <2>1 DEF Goes, TypeOK
<1>3. CASE Release(c)
  <2>1. strangers' \in Nat
    <3>1. CASE conn[c].individual
      BY <1>3, <3>1 DEF Release, TypeOK
    <3>2. CASE ~conn[c].individual
      <4>1. c \in NoMembers
        BY <1>3, <3>2 DEF Release, NoMembers, Callers
      <4>2. strangers = Cardinality(NoMembers)
        BY DEF CountsAreTrue, NoMembers
      <4>3. Cardinality(NoMembers) # 0
        BY <4>1, CountsFinite, FS_EmptySet
      <4> QED  BY <1>3, <3>2, <4>2, <4>3, CountsFinite DEF Release
    <3> QED  BY <3>1, <3>2
  <2>2. perSrc' \in [Bucket -> Nat]
    BY <1>3, BucketTyped DEF Release, TypeOK
  <2> QED  BY <1>1, <1>3, <2>1, <2>2 DEF Release, TypeOK
<1>4. "leave" \in PC /\ "splice" \in PC
  BY DEF PC
<1> QED  BY <1>2, <1>3, <1>4 DEF Carry, Dialled, NotDialled, Torn, Idles, EndsItself

LEMMA OthersTyped ==
  ASSUME TypeOK,
         \/ \E l \in Listener : LoopEnds(l)
         \/ RefreshFleet \/ Checking \/ MarkClosed \/ Closing
  PROVE  TypeOK'
<1> DEFINE State == [pc : PC, src : Source, individual : BOOLEAN, shut : SUBSET Half]
<1>1. CASE \E l \in Listener : LoopEnds(l)
  BY <1>1 DEF LoopEnds, TypeOK
<1>2. CASE RefreshFleet
  BY <1>2, AcceptAssumption DEF RefreshFleet, TypeOK
<1>3. CASE Look \/ Revalidated
  <2>1. Callers \subseteq Conn
    BY DEF Callers
  <2> QED  BY <1>3, <2>1 DEF Look, Revalidated, TypeOK
<1>4. ASSUME NEW c \in Conn, Revalidate(c)
      PROVE  TypeOK'
  <2>1. conn[c] \in State
    BY DEF TypeOK
  <2>2. [conn[c] EXCEPT !.shut = IF Permit(conn[c].src) THEN @ ELSE @ \cup {"caller"}] \in State
    BY <2>1 DEF Half
  <2> QED  BY <1>4, <2>2 DEF Revalidate, TypeOK
<1>5. CASE MarkClosed
  <2>1. Open \subseteq Conn \X Half
    BY DEF Open, Callers, Half
  <2> QED  BY <1>5, <2>1 DEF MarkClosed, TypeOK
<1>6. CASE CloseListeners \/ Waited
  BY <1>6 DEF CloseListeners, Waited, TypeOK
<1>7. CASE CloseConns
  <2>1. \A c \in Conn : [conn[c] EXCEPT !.shut = @ \cup {x \in Half : <<c, x>> \in closing.halves}] \in State
    BY DEF TypeOK
  <2> QED  BY <1>7, <2>1 DEF CloseConns, TypeOK
<1> QED  BY <1>1, <1>2, <1>3, <1>4, <1>5, <1>6, <1>7 DEF Checking, Closing

-----------------------------------------------------------------------------
(* The counts and the limits.                                              *)

\* An admission takes one more of what it was measured against (admit).
LEMMA EnterCounts ==
  ASSUME TypeOK, CountsAreTrue, LimitsHold, NEW l \in Listener, NEW c \in Conn, Enter(l, c)
  PROVE  CountsAreTrue' /\ LimitsHold'
<1> DEFINE B == BucketOf(c)
<1>1. /\ conn[c].pc = "known" /\ ~Limited(c)
      /\ conn' = [conn EXCEPT ![c].pc = "dial"]
      /\ perSrc' = [perSrc EXCEPT ![B] = @ + 1]
      /\ strangers' = IF conn[c].individual THEN strangers ELSE strangers + 1
  BY DEF Enter
<1>2. c \notin Callers /\ Callers' = Callers \cup {c}
  BY <1>1 DEF Callers, TypeOK
<1>3. \A d \in Conn : conn'[d].src = conn[d].src /\ conn'[d].individual = conn[d].individual
  BY <1>1 DEF TypeOK
<1>4. \A d \in Conn : BucketOf(d)' = BucketOf(d)
  BY <1>3 DEF BucketOf
<1>5. NoMembers' = IF conn[c].individual THEN NoMembers ELSE NoMembers \cup {c}
  BY <1>2, <1>3 DEF NoMembers, Callers
<1>6. \A b \in Bucket : CountedUnder(b)' = IF b = B THEN CountedUnder(b) \cup {c} ELSE CountedUnder(b)
  BY <1>2, <1>4 DEF CountedUnder, Callers
<1>7. c \notin NoMembers /\ \A b \in Bucket : c \notin CountedUnder(b)
  BY <1>2 DEF NoMembers, CountedUnder
<1>8. /\ Cardinality(Callers') = Cardinality(Callers) + 1
      /\ Cardinality(NoMembers \cup {c}) = Cardinality(NoMembers) + 1
      /\ \A b \in Bucket : Cardinality(CountedUnder(b) \cup {c}) = Cardinality(CountedUnder(b)) + 1
  BY <1>2, <1>7, CountsFinite, FS_AddElement
<1>9. B \in Bucket
  BY BucketTyped
<1>10. /\ strangers = Cardinality(NoMembers)
       /\ \A b \in Bucket : perSrc[b] = Cardinality(CountedUnder(b))
  BY DEF CountsAreTrue, NoMembers, CountedUnder
<1>11. /\ strangers' = Cardinality(NoMembers')
       /\ \A b \in Bucket : perSrc'[b] = Cardinality(CountedUnder(b)')
  <2>1. strangers' = Cardinality(NoMembers')
    BY <1>1, <1>5, <1>8, <1>10
  <2>2. \A b \in Bucket : perSrc'[b] = Cardinality(CountedUnder(b)')
    <3> TAKE b \in Bucket
    <3>1. perSrc \in [Bucket -> Nat]
      BY DEF TypeOK
    <3> HIDE DEF B
    <3>2. CASE b = B
      BY <3>1, <3>2, <1>1, <1>6, <1>8, <1>10
    <3>3. CASE b # B
      BY <3>1, <3>3, <1>1, <1>6, <1>10
    <3> QED  BY <3>2, <3>3
  <2> QED  BY <2>1, <2>2
<1>12. /\ Cardinality(Callers) < MaxConns
       /\ ~conn[c].individual => Cardinality(NoMembers) < StrangerCap
       /\ Cardinality(CountedUnder(B)) < MaxPerSource
  <2>1. perSrc[B] \in Nat /\ strangers \in Nat
    BY <1>9 DEF TypeOK
  <2> QED
    BY <1>1, <1>9, <1>10, <2>1, CountsFinite, CapBounds, AcceptAssumption DEF Limited
<1>13. /\ Cardinality(Callers) <= MaxConns
       /\ Cardinality(NoMembers) <= StrangerCap
       /\ \A b \in Bucket : Cardinality(CountedUnder(b)) <= MaxPerSource
  BY DEF LimitsHold, NoMembers, CountedUnder
<1>14. /\ Cardinality(Callers') <= MaxConns
       /\ Cardinality(NoMembers') <= StrangerCap
       /\ \A b \in Bucket : Cardinality(CountedUnder(b)') <= MaxPerSource
  <2> HIDE DEF B
  <2>1. MaxConns \in Nat /\ MaxPerSource \in Nat /\ StrangerCap \in Nat
    BY AcceptAssumption, CapBounds
  <2>2. Cardinality(Callers') <= MaxConns
    BY <2>1, <1>8, <1>12, CountsFinite
  <2>3. Cardinality(NoMembers') <= StrangerCap
    BY <2>1, <1>5, <1>8, <1>12, <1>13, CountsFinite
  <2>4. \A b \in Bucket : Cardinality(CountedUnder(b)') <= MaxPerSource
    BY <2>1, <1>6, <1>8, <1>12, <1>13, CountsFinite
  <2> QED  BY <2>2, <2>3, <2>4
<1>15. CountsAreTrue'
  BY <1>11 DEF CountsAreTrue, NoMembers, CountedUnder
<1>16. LimitsHold'
  BY <1>14 DEF LimitsHold, NoMembers, CountedUnder
<1> QED  BY <1>15, <1>16

\* A release gives back what was taken, whatever the fleet says by now.
LEMMA ReleaseCounts ==
  ASSUME TypeOK, CountsAreTrue, LimitsHold, NEW c \in Conn, Release(c)
  PROVE  CountsAreTrue' /\ LimitsHold'
<1> DEFINE B == BucketOf(c)
<1>1. /\ conn[c].pc = "leave"
      /\ conn' = [conn EXCEPT ![c] = Gone]
      /\ perSrc' = [perSrc EXCEPT ![B] = IF @ <= 1 THEN 0 ELSE @ - 1]
      /\ strangers' = IF conn[c].individual THEN strangers ELSE strangers - 1
  BY DEF Release
<1>2. c \in Callers /\ Callers' = Callers \ {c}
  BY <1>1, GoneTyped DEF Callers, TypeOK, Gone
<1>3. \A d \in Conn \ {c} : conn'[d] = conn[d]
  BY <1>1 DEF TypeOK
<1>4. \A d \in Conn \ {c} : BucketOf(d)' = BucketOf(d)
  BY <1>3 DEF BucketOf
<1>5. NoMembers' = IF conn[c].individual THEN NoMembers ELSE NoMembers \ {c}
  BY <1>2, <1>3 DEF NoMembers, Callers
<1>6. \A b \in Bucket : CountedUnder(b)' = IF b = B THEN CountedUnder(b) \ {c} ELSE CountedUnder(b)
  BY <1>2, <1>4 DEF CountedUnder, Callers
<1>7. (~conn[c].individual => c \in NoMembers) /\ c \in CountedUnder(B)
  BY <1>2 DEF NoMembers, CountedUnder
<1>8. B \in Bucket
  BY BucketTyped
<1>9. /\ Cardinality(Callers') = Cardinality(Callers) - 1
      /\ ~conn[c].individual => Cardinality(NoMembers \ {c}) = Cardinality(NoMembers) - 1
      /\ Cardinality(CountedUnder(B) \ {c}) = Cardinality(CountedUnder(B)) - 1
  BY <1>2, <1>7, <1>8, CountsFinite, FS_RemoveElement
<1>10. /\ strangers = Cardinality(NoMembers)
       /\ \A b \in Bucket : perSrc[b] = Cardinality(CountedUnder(b))
  BY DEF CountsAreTrue, NoMembers, CountedUnder
<1>11. Cardinality(CountedUnder(B)) # 0
  BY <1>7, <1>8, CountsFinite, FS_EmptySet
<1>12. /\ strangers' = Cardinality(NoMembers')
       /\ \A b \in Bucket : perSrc'[b] = Cardinality(CountedUnder(b)')
  <2>1. strangers' = Cardinality(NoMembers')
    BY <1>1, <1>5, <1>9, <1>10
  <2>2. \A b \in Bucket : perSrc'[b] = Cardinality(CountedUnder(b)')
    <3> TAKE b \in Bucket
    <3>1. perSrc \in [Bucket -> Nat]
      BY DEF TypeOK
    <3> HIDE DEF B
    <3>2. CASE b = B
      BY <3>1, <3>2, <1>1, <1>6, <1>8, <1>9, <1>10, <1>11, CountsFinite
    <3>3. CASE b # B
      BY <3>1, <3>3, <1>1, <1>6, <1>10
    <3> QED  BY <3>2, <3>3
  <2> QED  BY <2>1, <2>2
<1>13. /\ Cardinality(Callers) <= MaxConns
       /\ Cardinality(NoMembers) <= StrangerCap
       /\ \A b \in Bucket : Cardinality(CountedUnder(b)) <= MaxPerSource
  BY DEF LimitsHold, NoMembers, CountedUnder
<1>14. /\ Cardinality(Callers') <= MaxConns
       /\ Cardinality(NoMembers') <= StrangerCap
       /\ \A b \in Bucket : Cardinality(CountedUnder(b)') <= MaxPerSource
  <2> HIDE DEF B
  <2>1. MaxConns \in Nat /\ MaxPerSource \in Nat /\ StrangerCap \in Nat
    BY AcceptAssumption, CapBounds
  <2>2. Cardinality(Callers') <= MaxConns
    BY <2>1, <1>9, <1>13, CountsFinite
  <2>3. Cardinality(NoMembers') <= StrangerCap
    BY <2>1, <1>5, <1>9, <1>13, CountsFinite
  <2>4. \A b \in Bucket : Cardinality(CountedUnder(b)') <= MaxPerSource
    <3> TAKE b \in Bucket
    <3>1. Cardinality(CountedUnder(b)) \in Nat
      BY CountsFinite
    <3>2. Cardinality(CountedUnder(b)) <= MaxPerSource
      BY <1>13
    <3>3. CASE b = B
      BY <3>1, <3>2, <3>3, <2>1, <1>6, <1>9
    <3>4. CASE b # B
      BY <3>2, <3>4, <1>6
    <3> QED  BY <3>3, <3>4
  <2> QED  BY <2>2, <2>3, <2>4
<1>15. CountsAreTrue'
  BY <1>12 DEF CountsAreTrue, NoMembers, CountedUnder
<1>16. LimitsHold'
  BY <1>14 DEF LimitsHold, NoMembers, CountedUnder
<1> QED  BY <1>15, <1>16

\* An admission under way is of one connection, and no caller yet.
LEMMA AdmittedAlone ==
  ASSUME TypeOK, NEW l \in Listener, NEW c \in Conn, Accept(l, c) \/ Admit(l, c)
  PROVE  /\ conn'[c].pc \in {"none", "arrived", "permitted", "known"} \/ Enter(l, c)
         /\ conn'[c].pc # "splice"
         /\ \A d \in Conn \ {c} : conn'[d] = conn[d]
<1>1. CASE Accept(l, c)
  <2>1. PICK s \in Source : conn' = [conn EXCEPT ![c] = [Gone EXCEPT !.pc = "arrived", !.src = s]]
    BY <1>1 DEF Accept
  <2>2. [Gone EXCEPT !.pc = "arrived", !.src = s].pc = "arrived"
    BY DEF Gone
  <2> QED  BY <2>1, <2>2 DEF TypeOK
<1>2. CASE Refused(l, c) \/ NotEntered(l, c)
  BY <1>2 DEF Refused, NotEntered, TurnedAway, Gone, TypeOK
<1>3. CASE Permitted(l, c)
  BY <1>3 DEF Permitted, TypeOK
<1>4. CASE Known(l, c)
  <2> DEFINE yes == Member(conn[c].src)
  <2>1. conn' = [conn EXCEPT ![c].pc = "known", ![c].individual = yes]
    BY <1>4 DEF Known
  <2> HIDE DEF yes
  <2> QED  BY <2>1 DEF TypeOK
<1>5. CASE Enter(l, c)
  BY <1>5 DEF Enter, TypeOK
<1> QED  BY <1>1, <1>2, <1>3, <1>4, <1>5 DEF Admit

\* Nothing else admits or releases.
LEMMA OthersCount ==
  ASSUME TypeOK, CountsAreTrue, LimitsHold, [Next]_vars,
         ~\E l \in Listener, c \in Conn : Enter(l, c),
         ~\E c \in Conn : Release(c)
  PROVE  CountsAreTrue' /\ LimitsHold'
<1>1. CASE UNCHANGED vars
  BY <1>1, SameCallers DEF vars, Callers
<1>2. ASSUME NEW l \in Listener, NEW c \in Conn, Accept(l, c) \/ Admit(l, c)
      PROVE  CountsAreTrue' /\ LimitsHold'
  <2> ~Enter(l, c)
    OBVIOUS
  <2>1. UNCHANGED <<perSrc, strangers>> /\ c \notin Callers
    BY <1>2 DEF Accept, Admit, Refused, Permitted, Known, NotEntered, TurnedAway, Callers
  <2>2. conn'[c].pc \in {"none", "arrived", "permitted", "known"}
    BY <1>2, AdmittedAlone
  <2>3. \A d \in Conn \ {c} : conn'[d] = conn[d]
    BY <1>2, AdmittedAlone
  <2>4. Callers' = Callers
    BY <2>1, <2>2, <2>3 DEF Callers
  <2>5. \A d \in Callers : conn'[d].src = conn[d].src /\ conn'[d].individual = conn[d].individual
    BY <2>1, <2>3 DEF Callers
  <2> QED  BY <2>1, <2>4, <2>5, SameCallers
<1>3. ASSUME NEW c \in Conn, NEW pc \in {"splice", "leave"}, Goes(c, pc), c \in Callers
      PROVE  CountsAreTrue' /\ LimitsHold'
  <2>1. UNCHANGED <<perSrc, strangers>> /\ Callers' = Callers
    BY <1>3 DEF Goes, Callers, TypeOK
  <2>2. \A d \in Callers : conn'[d].src = conn[d].src /\ conn'[d].individual = conn[d].individual
    BY <1>3 DEF Goes, Callers, TypeOK
  <2> QED  BY <2>1, <2>2, SameCallers
<1>4. ASSUME NEW c \in Conn, Carry(c) \/ Dialled(c) \/ EndsItself(c)
      PROVE  CountsAreTrue' /\ LimitsHold'
  <2>1. c \in Callers
    BY <1>4 DEF Carry, NotDialled, Torn, Idles, Dialled, EndsItself, Callers
  <2>2. Goes(c, "leave") \/ Goes(c, "splice")
    BY <1>4 DEF Carry, NotDialled, Torn, Idles, Dialled, EndsItself
  <2> QED  BY <1>3, <2>1, <2>2
<1>5. CASE (\E c \in Conn : Revalidate(c)) \/ CloseConns
  <2>1. UNCHANGED <<perSrc, strangers>>
    BY <1>5 DEF Revalidate, CloseConns
  <2>2. \A d \in Conn : /\ conn'[d].pc = conn[d].pc /\ conn'[d].src = conn[d].src
                        /\ conn'[d].individual = conn[d].individual
    BY <1>5 DEF Revalidate, CloseConns, TypeOK
  <2>3. Callers' = Callers
    BY <2>2 DEF Callers
  <2> QED  BY <2>1, <2>2, <2>3, SameCallers DEF Callers
<1>6. CASE \/ \E l \in Listener : LoopEnds(l)
           \/ RefreshFleet \/ Look \/ Revalidated \/ MarkClosed \/ CloseListeners \/ Waited
  <2>1. UNCHANGED <<conn, perSrc, strangers>>
    BY <1>6 DEF LoopEnds, RefreshFleet, Look, Revalidated, MarkClosed, CloseListeners, Waited
  <2> QED  BY <2>1, SameCallers DEF Callers
<1> QED  BY <1>1, <1>2, <1>4, <1>5, <1>6 DEF Next, Checking, Closing

-----------------------------------------------------------------------------
(* What a Close finds.                                                     *)

LEMMA CloseFinds ==
  ASSUME TypeOK, CloseFindsAll, [Next]_vars
  PROVE  CloseFindsAll'
<1>1. CASE UNCHANGED vars
  BY <1>1 DEF vars, CloseFindsAll, Callers
<1>2. ASSUME NEW l \in Listener, NEW c \in Conn, Accept(l, c) \/ Admit(l, c)
      PROVE  CloseFindsAll'
  <2>1. \A d \in Conn : conn'[d].pc = "splice" => conn'[d] = conn[d]
    BY <1>2, AdmittedAlone
  <2>2. UNCHANGED closing
    BY <1>2 DEF Accept, Admit, Refused, Permitted, Known, NotEntered, TurnedAway, Enter
  <2>3. closing.pc = "done" => Callers' \subseteq Callers
    <3> SUFFICES ASSUME closing.pc = "done"  PROVE Callers' \subseteq Callers
      OBVIOUS
    <3>1. ~Enter(l, c)
      BY DEF Enter, IsClosed
    <3> QED  BY <1>2, <3>1, AdmittedAlone DEF Callers
  <2> QED  BY <2>1, <2>2, <2>3 DEF CloseFindsAll
<1>3. ASSUME NEW c \in Conn, Carry(c) \/ Dialled(c) \/ EndsItself(c)
      PROVE  CloseFindsAll'
  <2>1. CASE Release(c)
    <3>1. conn' = [conn EXCEPT ![c] = Gone] /\ closing' = [closing EXCEPT !.halves = @ \ ({c} \X Half)]
      BY <2>1 DEF Release
    <3>2. \A d \in Conn : conn'[d].pc = "splice" => d # c /\ conn'[d] = conn[d]
      BY <3>1 DEF Gone, TypeOK
    <3>3. closing'.pc = closing.pc /\ closing'.halves = closing.halves \ ({c} \X Half)
      BY <3>1 DEF TypeOK
    <3>4. Callers' \subseteq Callers
      BY <3>1 DEF Callers, Gone, TypeOK
    <3> QED  BY <3>2, <3>3, <3>4 DEF CloseFindsAll
  <2>2. CASE Goes(c, "leave")
    <3>1. \A d \in Conn : conn'[d].pc = "splice" => conn'[d] = conn[d]
      BY <2>2 DEF Goes, TypeOK
    <3>2. c \in Callers
      BY <1>3 DEF Carry, NotDialled, Torn, Idles, Release, Dialled, EndsItself, Callers
    <3>3. UNCHANGED closing /\ Callers' \subseteq Callers
      BY <2>2, <3>2 DEF Goes, Callers, TypeOK
    <3> QED  BY <3>1, <3>3 DEF CloseFindsAll
  <2>3. CASE Dialled(c) /\ ~IsClosed
    BY <2>3 DEF Dialled, Goes, IsClosed, CloseFindsAll
  <2> QED  BY <1>3, <2>1, <2>2, <2>3 DEF Carry, NotDialled, Torn, Idles, Dialled, EndsItself
<1>4. CASE \E c \in Conn : Revalidate(c)
  <2>1. UNCHANGED closing
    BY <1>4 DEF Revalidate
  <2>2. \A d \in Conn : conn'[d].pc = conn[d].pc /\ conn[d].shut \subseteq conn'[d].shut
    BY <1>4 DEF Revalidate, TypeOK
  <2> QED  BY <2>1, <2>2 DEF CloseFindsAll, Callers
<1>5. CASE MarkClosed
  <2>1. UNCHANGED conn /\ closing' = [pc |-> "marked", halves |-> Open]
    BY <1>5 DEF MarkClosed
  <2> QED  BY <2>1 DEF CloseFindsAll, Open, Callers
<1>6. CASE CloseListeners
  BY <1>6 DEF CloseListeners, CloseFindsAll, Callers, TypeOK
<1>7. CASE CloseConns
  <2>1. \A d \in Conn : conn[d].pc = "splice" => <<d, "local">> \in closing.halves
    BY <1>7 DEF CloseConns, CloseFindsAll
  <2>2. \A d \in Conn : /\ conn'[d].pc = conn[d].pc
                        /\ <<d, "local">> \in closing.halves => "local" \in conn'[d].shut
    BY <1>7 DEF CloseConns, TypeOK, Half
  <2>3. closing'.pc = "wait"
    BY <1>7 DEF CloseConns
  <2> QED  BY <2>1, <2>2, <2>3 DEF CloseFindsAll
<1>8. CASE Waited
  BY <1>8 DEF Waited, CloseFindsAll, Callers, TypeOK
<1>9. CASE (\E l \in Listener : LoopEnds(l)) \/ RefreshFleet \/ Look \/ Revalidated
  BY <1>9 DEF LoopEnds, RefreshFleet, Look, Revalidated, CloseFindsAll, Callers
<1> QED  BY <1>1, <1>2, <1>3, <1>4, <1>5, <1>6, <1>7, <1>8, <1>9 DEF Next, Checking, Closing

-----------------------------------------------------------------------------
(* The theorems.                                                           *)

LEMMA InitHolds == Init => IInv
<1> SUFFICES ASSUME Init  PROVE IInv
  OBVIOUS
<1>1. Callers = {}
  BY DEF Init, Callers, Gone
<1>2. NoMembers = {} /\ \A b \in Bucket : CountedUnder(b) = {}
  BY <1>1 DEF NoMembers, CountedUnder
<1>3. CountsAreTrue
  BY <1>2, FS_EmptySet DEF CountsAreTrue, NoMembers, CountedUnder, Init
<1>4. Cardinality({}) = 0
  BY FS_EmptySet
<1>5. 0 <= MaxConns /\ 0 <= MaxPerSource /\ 0 <= StrangerCap
  BY AcceptAssumption, CapBounds
<1>6. LimitsHold
  BY <1>1, <1>2, <1>4, <1>5 DEF LimitsHold, NoMembers, CountedUnder
<1>7. CloseFindsAll
  BY DEF Init, CloseFindsAll
<1> QED  BY <1>3, <1>6, <1>7, InitTyped DEF IInv

LEMMA StepKeeps == IInv /\ [Next]_vars => IInv'
<1> SUFFICES ASSUME IInv, [Next]_vars  PROVE IInv'
  OBVIOUS
<1> USE DEF IInv
<1>1. TypeOK'
  <2>1. CASE UNCHANGED vars
    BY <2>1 DEF vars, TypeOK
  <2> QED  BY <2>1, AdmitTyped, CarryTyped, OthersTyped DEF Next
<1>2. CountsAreTrue' /\ LimitsHold'
  BY EnterCounts, ReleaseCounts, OthersCount
<1>3. CloseFindsAll'
  BY CloseFinds
<1> QED  BY <1>1, <1>2, <1>3

\* The acceptor's types.
THEOREM AcceptorTyped == Spec => []TypeOK
<1>1. IInv => TypeOK
  BY DEF IInv
<1> QED  BY InitHolds, StepKeeps, <1>1, PTL DEF Spec

\* The counts admit measures against are the connections they stand for
\* (acceptor.admit, release).
THEOREM CountsTrue == Spec => []CountsAreTrue
<1>1. IInv => CountsAreTrue
  BY DEF IInv
<1> QED  BY InitHolds, StepKeeps, <1>1, PTL DEF Spec

\* None of the three limits is passed, and the fleet's share is kept.
THEOREM LimitsKept == Spec => []LimitsHold
<1>1. IInv => LimitsHold
  BY DEF IInv
<1> QED  BY InitHolds, StepKeeps, <1>1, PTL DEF Spec

\* Close leaves nothing open, and waits for no splice it has not closed
\* (acceptor.Close, carry).
THEOREM ClosedEmpty == Spec => []ClosedIsEmpty
<1>1. IInv => ClosedIsEmpty
  BY DEF IInv, CloseFindsAll, ClosedIsEmpty, Callers
<1> QED  BY InitHolds, StepKeeps, <1>1, PTL DEF Spec
=============================================================================
