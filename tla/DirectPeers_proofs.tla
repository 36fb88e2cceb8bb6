-------------------------- MODULE DirectPeers_proofs --------------------------
(***************************************************************************)
(* Theorems about DirectPeers, for every set of keys, addresses, endpoints *)
(* and maps, and every length of the waits.                                *)
(***************************************************************************)
EXTENDS DirectPeers, TLAPS

\* What a pass has left to write.
Todo == [key : Key, what : {"promote", "winner", "demote", "punch"}, row : Row, aim : Endpoint]

NoMap == [k \in {} |-> k]

Table ==
  /\ tracked \subseteq Key /\ entry \in [Key -> Entry \cup {Blank}]
  /\ \A k \in Key : IF k \in tracked THEN entry[k] \in Entry ELSE entry[k] = Blank

Device == [peers : SUBSET Key, aim : [Key -> Endpoint \cup {NoEndpoint}],
           route : [Address -> Key \cup {Box}],
           ever : [Key -> BOOLEAN], news : [Key -> SUBSET {"hs", "rx"}],
           counted : [Key -> BOOLEAN]]

RefreshState ==
  [pc : {"idle", "write"}, map : Maps \cup {NoMap}, remove : SUBSET Key,
   rearm : SUBSET Key, arm : SUBSET Key, ready : SUBSET Key, recent : BOOLEAN]

PassState == [pc : {"idle", "read", "write"}, ever : [Key -> BOOLEAN],
              news : [Key -> SUBSET {"hs", "rx"}], todo : SUBSET Todo]

Typed == Table /\ dev \in Device /\ refresh \in RefreshState /\ pass \in PassState
         /\ up \in [Key -> SUBSET Endpoint]

\* The device follows the table: what it has more than the table is on one of
\* the refresher's lists, and nothing on the list of removals is wanted.
InStep ==
  /\ tracked \cup refresh.remove \cup refresh.ready \subseteq dev.peers
  /\ dev.peers \subseteq tracked \cup refresh.remove \cup InArm
  /\ tracked \cup InArm \subseteq Wanted /\ refresh.remove \cap Wanted = {}
  /\ \A j, k \in refresh.ready : j = k
  \* A row the device took once it takes again: what is tracked is not refused.
  /\ \A k \in refresh.ready \cup (tracked \cap (refresh.rearm \cup refresh.arm)) :
       refresh.map[k] \notin Refused
  /\ refresh.pc = "idle" => refresh.remove = {} /\ InArm = {}
  /\ refresh.pc = "write" => refresh.recent

\* A peer that is gone from the device and stays away until the pass has ended.
Barred(k) ==
  /\ k \notin dev.peers /\ refresh.recent /\ k \notin refresh.ready
  /\ k \in refresh.rearm \cup refresh.arm => refresh.map[k] \in Refused

\* Whatever counts as evidence of a peer is about the peer the device has now.
Evidence ==
  /\ \A k \in Key : dev.news[k] # {} => dev.ever[k]
  /\ \A k \in Key : pass.news[k] # {} => pass.ever[k]
  /\ \A k \in tracked : entry[k].fresh > 0 => dev.ever[k]
  /\ \A k \in Key : pass.ever[k] \/ k \in Pending("promote") => dev.ever[k] \/ Barred(k)
  /\ pass.pc # "write" => pass.todo = {}

IInv == Typed /\ InStep /\ Evidence /\ RouteNeedsHandshake

-----------------------------------------------------------------------------
(* What the helpers return.                                                *)

\* The map being written has rows for the keys it lists.
LEMMA RowsWanted ==
  ASSUME Typed
  PROVE  Wanted \subseteq Key /\ \A k \in Wanted : refresh.map[k] \in Row
<1>1. refresh.map \in Maps \cup {NoMap}
  BY DEF Typed, RefreshState
<1>2. CASE refresh.map = NoMap
  BY <1>2 DEF NoMap, Wanted
<1>3. CASE refresh.map \in Maps
  BY <1>3, PeerAssumption DEF Wanted
<1> QED  BY <1>1, <1>2, <1>3

\* A row names at least one endpoint, and the train goes round among them
\* (punchTrain.due).
LEMMA AimTyped ==
  ASSUME NEW d \in Entry
  PROVE  Aim(d) \in Endpoint /\ Head(d.row.cands) \in Endpoint
<1>1. d.row.cands \in Seq(Endpoint) /\ d.row.cands # <<>> /\ d.next \in Nat
  BY DEF Entry, Row
<1> DEFINE n == Len(d.row.cands)
<1>2. n \in Nat \ {0} /\ \A i \in 1..n : d.row.cands[i] \in Endpoint
  BY <1>1
<1> HIDE DEF n
<1>3. (d.next % n) + 1 \in 1..n
  BY <1>1, <1>2
<1>4. d.row.cands[(d.next % n) + 1] \in Endpoint
  BY <1>2, <1>3
<1> QED  BY <1>1, <1>4 DEF Aim, n

\* An entry with one of its marks set.
LEMMA EntrySet ==
  ASSUME NEW d \in Entry
  PROVE  /\ \A b \in BOOLEAN : [d EXCEPT !.promoted = b] \in Entry
         /\ \A b \in BOOLEAN, n \in 0..RearmAfter :
              [d EXCEPT !.promoted = b, !.rest = n] \in Entry
         /\ \A e \in Endpoint \cup {NoEndpoint} : [d EXCEPT !.winner = e] \in Entry
         /\ \A f \in 0..DeadAfter, b \in BOOLEAN, n \in 0..RearmAfter :
              [d EXCEPT !.fresh = f, !.blank = b, !.rest = n] \in Entry
         /\ \A row \in Row, n \in Nat : [d EXCEPT !.row = row, !.next = n] \in Entry
BY DEF Entry

\* punchTrain.restart keeps the entry well formed and forgets no evidence.
LEMMA RestartTyped ==
  ASSUME NEW d \in Entry
  PROVE  /\ Restart(d) \in Entry
         /\ Restart(d).fresh = d.fresh /\ Restart(d).row = d.row
<1> DEFINE at == CHOOSE i \in 1..Len(d.row.cands) : d.row.cands[i] = d.winner
           n == IF Contains(d.row.cands, d.winner) THEN at - 1 ELSE 0
<1>1. d.row.cands \in Seq(Endpoint)
  BY DEF Entry, Row
<1>2. n \in Nat
  <2>1. CASE Contains(d.row.cands, d.winner)
    <3>1. \E i \in 1..Len(d.row.cands) : d.row.cands[i] = d.winner
      BY <2>1 DEF Contains
    <3>2. at \in 1..Len(d.row.cands)
      BY <3>1
    <3> QED  BY <1>1, <2>1, <3>2
  <2>2. CASE ~Contains(d.row.cands, d.winner)
    BY <2>2
  <2> QED  BY <2>1, <2>2
<1>3. Restart(d) = [d EXCEPT !.attempts = 0, !.gaveUp = FALSE, !.next = n]
  BY DEF Restart
<1>4. 0 \in 0..Attempts
  BY PeerAssumption
<1> HIDE DEF n
<1>5. [d EXCEPT !.attempts = 0, !.gaveUp = FALSE, !.next = n] \in Entry
  BY <1>2, <1>4 DEF Entry
<1>6. Restart(d).fresh = d.fresh /\ Restart(d).row = d.row
  BY <1>3 DEF Entry
<1> QED  BY <1>3, <1>5, <1>6

\* A pass takes as evidence only what the device said of the peer, now or before.
LEMMA ObservedTyped ==
  ASSUME Typed, Evidence, NEW k \in tracked
  PROVE  /\ Observed(k) \in Entry
         /\ Observed(k).fresh > 0 => pass.ever[k] \/ entry[k].fresh > 0
<1> DEFINE d == entry[k]
           alive == NewHandshake(k) \/ (d.promoted /\ "rx" \in pass.news[k])
           f == IF alive THEN DeadAfter ELSE IF d.fresh > 0 THEN d.fresh - 1 ELSE 0
           b == d.blank /\ ~pass.ever[k]
           n == IF d.rest > 0 THEN d.rest - 1 ELSE 0
<1>1. k \in Key /\ d \in Entry
  BY DEF Typed, Table
<1>2. alive => pass.ever[k]
  BY <1>1 DEF NewHandshake, Evidence
<1>3. f \in 0..DeadAfter /\ (f > 0 => pass.ever[k] \/ d.fresh > 0)
  <2>1. DeadAfter \in Nat \ {0} /\ d.fresh \in 0..DeadAfter
    BY <1>1, PeerAssumption DEF Entry
  <2>2. CASE alive
    BY <1>2, <2>1, <2>2
  <2>3. CASE ~alive
    <3> HIDE DEF alive
    <3> QED  BY <2>1, <2>3
  <2> QED  BY <2>2, <2>3
<1>4. b \in BOOLEAN
  OBVIOUS
<1>5. n \in 0..RearmAfter
  <2>1. d.rest \in 0..RearmAfter /\ RearmAfter \in Nat
    BY <1>1, PeerAssumption DEF Entry
  <2> QED  BY <2>1
<1>6. Observed(k) = [d EXCEPT !.fresh = f, !.blank = b, !.rest = n]
  BY Zenon DEF Observed
<1> HIDE DEF f, b, n
<1>7. [d EXCEPT !.fresh = f, !.blank = b, !.rest = n] \in Entry
  BY <1>1, <1>3, <1>4, <1>5, EntrySet
<1>8. Observed(k).fresh = f
  BY <1>1, <1>6 DEF Entry
<1> QED  BY <1>3, <1>6, <1>7, <1>8

\* What a pass decides is well formed, and it promotes on evidence alone
\* (reconcileDirectPeers).
LEMMA DecisionTyped ==
  ASSUME Typed, Evidence, NEW k \in tracked
  PROVE  /\ Decision(k).d \in Entry /\ Decision(k).todo \subseteq Todo
         /\ Decision(k).d.fresh = Observed(k).fresh
         /\ \A x \in Decision(k).todo : x.key = k /\ (x.what = "promote" => Observed(k).fresh > 0)
<1>a. PICK d : d = Observed(k)
  OBVIOUS
<1>b. PICK t : t = IF d.gaveUp /\ d.rest = 0 THEN Restart(d) ELSE d
  OBVIOUS
<1>1. d \in Entry /\ k \in Key
  BY <1>a, ObservedTyped DEF Typed, Table
<1>2. t \in Entry /\ t.fresh = d.fresh
  BY <1>b, <1>1, RestartTyped
<1>3. d.fresh \in Nat /\ d.promoted \in BOOLEAN
  BY <1>1, PeerAssumption DEF Entry
<1>4. ASSUME NEW e \in Entry, NEW what \in {"promote", "demote", "punch"}
      PROVE  Action(k, what, e) \in Todo /\ Action(k, what, e).key = k /\ Action(k, what, e).what = what
  <2>1. Aim(e) \in Endpoint /\ e.row \in Row
    BY <1>4, AimTyped DEF Entry
  <2> HIDE DEF Aim
  <2> QED  BY <1>1, <2>1 DEF Action, Todo
<1>c. ASSUME NEW e \in Entry, NEW S, e.fresh = d.fresh, Decision(k) = [d |-> e, todo |-> S],
             \A x \in S : x \in Todo /\ x.key = k /\ (x.what = "promote" => d.fresh > 0)
      PROVE  /\ Decision(k).d \in Entry /\ Decision(k).todo \subseteq Todo
             /\ Decision(k).d.fresh = Observed(k).fresh
             /\ \A x \in Decision(k).todo : x.key = k /\ (x.what = "promote" => Observed(k).fresh > 0)
  BY <1>a, <1>c
<1>5. CASE d.fresh > 0 /\ ~d.promoted
  <2>r. PICK r : r = [d EXCEPT !.promoted = TRUE]
    OBVIOUS
  <2>1. Decision(k) = [d |-> r, todo |-> {Action(k, "promote", d)}]
    BY <1>a, <1>3, <1>5, <2>r DEF Decision
  <2>2. r \in Entry /\ r.fresh = d.fresh
    <3>1. r \in Entry
      BY <1>1, <2>r DEF Entry
    <3>2. r.fresh = d.fresh
      BY <1>1, <2>r DEF Entry
    <3> QED  BY <3>1, <3>2
  <2>3. \A x \in {Action(k, "promote", d)} : x \in Todo /\ x.key = k /\ (x.what = "promote" => d.fresh > 0)
    BY <1>1, <1>4, <1>5
  <2> QED  BY <1>c, <2>1, <2>2, <2>3
<1>6. CASE d.fresh = 0 /\ d.promoted
  <2>r. PICK r : r = [d EXCEPT !.promoted = FALSE, !.rest = RearmAfter]
    OBVIOUS
  <2>1. Decision(k) = [d |-> Restart(r), todo |-> {Action(k, "demote", d)}]
    BY <1>a, <1>3, <1>6, <2>r DEF Decision
  <2>2. r \in Entry /\ r.fresh = d.fresh
    <3>1. FALSE \in BOOLEAN /\ RearmAfter \in 0..RearmAfter
      BY PeerAssumption
    <3>2. r \in Entry
      BY <1>1, <2>r, <3>1 DEF Entry
    <3>3. r.fresh = d.fresh
      BY <1>1, <2>r DEF Entry
    <3> QED  BY <3>2, <3>3
  <2>3. Restart(r) \in Entry /\ Restart(r).fresh = d.fresh
    BY <2>2, RestartTyped
  <2>4. \A x \in {Action(k, "demote", d)} : x \in Todo /\ x.key = k /\ (x.what = "promote" => d.fresh > 0)
    BY <1>1, <1>4
  <2> QED  BY <1>c, <2>1, <2>3, <2>4
<1>7. CASE d.fresh = 0 /\ ~d.promoted /\ Due(t)
  <2>1. Decision(k) = [d |-> Attempted(t), todo |-> {Action(k, "punch", t)}]
    BY <1>a, <1>b, <1>3, <1>7 DEF Decision
  <2>2. Attempted(t) \in Entry /\ Attempted(t).fresh = t.fresh
    <3>a. PICK e : e = Aim(t)
      OBVIOUS
    <3>1. e \in Endpoint
      BY <1>2, <3>a, AimTyped
    <3>2. t.attempts + 1 \in 0..Attempts
      <4>1. t.attempts \in 0..Attempts /\ Attempts \in Nat
        BY <1>2, PeerAssumption DEF Entry
      <4>2. t.attempts < Attempts
        BY <1>7 DEF Due
      <4> QED  BY <4>1, <4>2
    <3>3. RearmAfter \in 0..RearmAfter
      BY PeerAssumption
    <3>b. PICK n, m : n = t.next + 1 /\ m = t.attempts + 1
      OBVIOUS
    <3>4. Attempted(t) = [t EXCEPT !.next = n, !.attempts = m, !.lastEP = e, !.rest = RearmAfter]
      BY <3>a, <3>b DEF Attempted
    <3>5. n \in Nat /\ m \in 0..Attempts
      BY <1>2, <3>2, <3>b DEF Entry
    <3>6. [t EXCEPT !.next = n, !.attempts = m, !.lastEP = e, !.rest = RearmAfter] \in Entry
      BY <1>2, <3>1, <3>3, <3>5 DEF Entry
    <3>7. Attempted(t).fresh = t.fresh
      BY <1>2, <3>4 DEF Entry
    <3> QED  BY <3>4, <3>6, <3>7
  <2>3. \A x \in {Action(k, "punch", t)} : x \in Todo /\ x.key = k /\ (x.what = "promote" => d.fresh > 0)
    BY <1>2, <1>4
  <2> QED  BY <1>c, <1>2, <2>1, <2>2, <2>3
<1>8. CASE d.fresh = 0 /\ ~d.promoted /\ ~Due(t)
  <2>1. Decision(k) = [d |-> Spent(t), todo |-> {}]
    BY <1>a, <1>b, <1>3, <1>8 DEF Decision
  <2>g. PICK g \in BOOLEAN : g = (t.gaveUp \/ t.attempts >= Attempts)
    OBVIOUS
  <2>2. Spent(t) = [t EXCEPT !.gaveUp = g]
    BY <2>g, Zenon DEF Spent
  <2>3. Spent(t) \in Entry /\ Spent(t).fresh = t.fresh
    BY <1>2, <2>2 DEF Entry
  <2> QED  BY <1>c, <1>2, <2>1, <2>3
<1>9. CASE d.fresh > 0 /\ d.promoted
  <2>1. Decision(k) = [d |-> d, todo |-> {}]
    BY <1>a, <1>b, <1>3, <1>9 DEF Decision
  <2> QED  BY <1>c, <1>1, <2>1
<1>10. d.fresh = 0 \/ d.fresh > 0
  <2> QED  BY <1>3
<1> QED  BY <1>a, <1>3, <1>5, <1>6, <1>7, <1>8, <1>9, <1>10

\* An allowed-ip has one peer: the one it is written to, the one it had, or the
\* box again.
LEMMA ReplacedTyped ==
  ASSUME Typed, NEW k \in Key, NEW S
  PROVE  /\ Replaced(k, S) \in [Address -> Key \cup {Box}]
         /\ \A a \in Address : \/ Replaced(k, S)[a] = Box
                               \/ Replaced(k, S)[a] = k /\ a \in S
                               \/ Replaced(k, S)[a] = dev.route[a] /\ dev.route[a] # k
<1>1. dev.route \in [Address -> Key \cup {Box}]
  BY DEF Typed, Device
<1> QED  BY <1>1 DEF Replaced, RoutesOf

\* What a removal leaves of the device.
LEMMA DeviceRemoved ==
  ASSUME Typed, NEW k \in Key, DeviceRemove(k)
  PROVE  /\ dev' \in Device /\ dev'.peers = dev.peers \ {k} /\ dev'.route = Replaced(k, {})
         /\ dev'.ever = [dev.ever EXCEPT ![k] = FALSE] /\ dev'.news = [dev.news EXCEPT ![k] = {}]
<1> DEFINE r == Replaced(k, {})
           a == [dev.aim EXCEPT ![k] = NoEndpoint]
           v == [dev.ever EXCEPT ![k] = FALSE]
           n == [dev.news EXCEPT ![k] = {}]
           u == [dev.counted EXCEPT ![k] = FALSE]
           t == dev.peers \ {k}
<1>1. dev \in Device
  BY DEF Typed
<1>2. r \in [Address -> Key \cup {Box}]
  BY ReplacedTyped
<1>3. dev' = [dev EXCEPT !.peers = t, !.aim = a, !.ever = v, !.news = n, !.counted = u, !.route = r]
  BY Zenon DEF DeviceRemove
<1>4. /\ a \in [Key -> Endpoint \cup {NoEndpoint}] /\ v \in [Key -> BOOLEAN]
      /\ n \in [Key -> SUBSET {"hs", "rx"}] /\ u \in [Key -> BOOLEAN] /\ t \in SUBSET Key
  BY <1>1 DEF Device
<1> HIDE DEF a, v, n, u, t, r
<1>5. /\ dev' \in Device
      /\ dev'.peers = t /\ dev'.route = r /\ dev'.ever = v /\ dev'.news = n
  BY <1>1, <1>2, <1>3, <1>4 DEF Device
<1> QED
  BY <1>5 DEF r, v, n, t

\* What a write leaves of the device, field by field.
LEMMA DeviceWrites ==
  ASSUME Typed, NEW k \in Key, NEW row \in Row, NEW addr \in Address, NEW e \in Endpoint
  PROVE  /\ DeviceArm(k, row) \/ DeviceRemove(k) \/ DevicePromote(k, addr) \/ DeviceDemote(k)
              \/ DevicePunch(k, e) => dev' \in Device
         /\ DeviceArm(k, row) =>
              /\ dev'.peers = dev.peers \cup {k} /\ dev'.route = Replaced(k, {})
              /\ dev'.ever = dev.ever /\ dev'.news = dev.news
         /\ DeviceRemove(k) =>
              /\ dev'.peers = dev.peers \ {k} /\ dev'.route = Replaced(k, {})
              /\ dev'.ever = [dev.ever EXCEPT ![k] = FALSE] /\ dev'.news = [dev.news EXCEPT ![k] = {}]
         /\ DevicePromote(k, addr) =>
              /\ dev'.peers = dev.peers /\ dev'.ever = dev.ever /\ dev'.news = dev.news
              /\ dev'.route = IF k \in dev.peers THEN Replaced(k, {addr}) ELSE dev.route
         /\ DeviceDemote(k) =>
              /\ dev'.peers = dev.peers /\ dev'.ever = dev.ever /\ dev'.news = dev.news
              /\ dev'.route = IF k \in dev.peers THEN Replaced(k, {}) ELSE dev.route
         /\ DevicePunch(k, e) =>
              /\ dev'.peers = dev.peers /\ dev'.ever = dev.ever /\ dev'.news = dev.news
              /\ dev'.route = dev.route
<1>1. dev \in Device
  BY DEF Typed
<1>2. Replaced(k, {}) \in [Address -> Key \cup {Box}]
      /\ Replaced(k, {addr}) \in [Address -> Key \cup {Box}]
  BY ReplacedTyped
<1>3. ASSUME DeviceArm(k, row)
      PROVE  /\ dev' \in Device /\ dev'.peers = dev.peers \cup {k} /\ dev'.route = Replaced(k, {})
             /\ dev'.ever = dev.ever /\ dev'.news = dev.news
  <2>a. PICK h : h = Head(row.cands)
    OBVIOUS
  <2>1. h \in Endpoint
    <3>1. row.cands \in Seq(Endpoint) /\ row.cands # <<>>
      BY DEF Row
    <3> QED  BY <2>a, <3>1
  <2>2. dev' = [dev EXCEPT !.peers = @ \cup {k}, !.aim[k] = h, !.route = Replaced(k, {})]
    BY <1>3, <2>a DEF DeviceArm
  <2> QED  BY <1>1, <1>2, <2>1, <2>2 DEF Device
<1>4. ASSUME DeviceRemove(k)
      PROVE  /\ dev' \in Device /\ dev'.peers = dev.peers \ {k} /\ dev'.route = Replaced(k, {})
             /\ dev'.ever = [dev.ever EXCEPT ![k] = FALSE] /\ dev'.news = [dev.news EXCEPT ![k] = {}]
  BY <1>4, DeviceRemoved
<1>5. ASSUME NEW S, Replaced(k, S) \in [Address -> Key \cup {Box}],
             dev' = IF k \in dev.peers THEN [dev EXCEPT !.route = Replaced(k, S)] ELSE dev
      PROVE  /\ dev' \in Device
             /\ dev'.peers = dev.peers /\ dev'.ever = dev.ever /\ dev'.news = dev.news
             /\ dev'.route = IF k \in dev.peers THEN Replaced(k, S) ELSE dev.route
  BY <1>1, <1>5 DEF Device
<1>6. ASSUME DevicePunch(k, e)
      PROVE  /\ dev' \in Device
             /\ dev'.peers = dev.peers /\ dev'.ever = dev.ever /\ dev'.news = dev.news
             /\ dev'.route = dev.route
  BY <1>1, <1>6 DEF DevicePunch, Device
<1>7. DevicePromote(k, addr) =>
        /\ dev' \in Device
        /\ dev'.peers = dev.peers /\ dev'.ever = dev.ever /\ dev'.news = dev.news
        /\ dev'.route = IF k \in dev.peers THEN Replaced(k, {addr}) ELSE dev.route
  BY <1>2, <1>5 DEF DevicePromote
<1>8. DeviceDemote(k) =>
        /\ dev' \in Device
        /\ dev'.peers = dev.peers /\ dev'.ever = dev.ever /\ dev'.news = dev.news
        /\ dev'.route = IF k \in dev.peers THEN Replaced(k, {}) ELSE dev.route
  BY <1>2, <1>5 DEF DeviceDemote
<1> QED  BY <1>3, <1>4, <1>6, <1>7, <1>8

-----------------------------------------------------------------------------
(* Each action leaves the types as they are.                               *)

LEMMA RefreshTyped ==
  ASSUME Typed, Refresh
  PROVE  Typed'
<1>1. PICK f \in Maps :
        LET gone == tracked \ DOMAIN f
            changed == {k \in tracked \ gone : Changed(k, f)}
            kept == (tracked \ gone) \ changed
        IN /\ tracked' = kept
           /\ entry' = [k \in Key |-> IF k \in kept THEN Adopt(entry[k], f[k]) ELSE Blank]
           /\ refresh' = [pc |-> "write", map |-> f, remove |-> gone, rearm |-> changed,
                          arm |-> DOMAIN f \ kept, ready |-> {}, recent |-> TRUE]
  BY DEF Refresh
<1>2. Table /\ DOMAIN f \subseteq Key /\ \A k \in DOMAIN f : f[k] \in Row
  BY PeerAssumption DEF Typed, Table
<1>3. ASSUME NEW d \in Entry, NEW row \in Row
      PROVE  Adopt(d, row) \in Entry
  <2>1. (IF d.next >= Len(row.cands) THEN 0 ELSE d.next) \in Nat
    BY DEF Entry
  <2>2. PICK n \in Nat : n = IF d.next >= Len(row.cands) THEN 0 ELSE d.next
    BY <2>1
  <2>3. Adopt(d, row) = [d EXCEPT !.row = row, !.next = n]
    BY <2>2 DEF Adopt
  <2>4. [d EXCEPT !.row = row, !.next = n] \in Entry
    BY <1>3, <2>2, EntrySet
  <2> QED  BY <2>3, <2>4
<1>4. \A k \in tracked' : k \in tracked /\ k \in DOMAIN f
  BY <1>1
<1>5. \A k \in tracked' : Adopt(entry[k], f[k]) \in Entry
  BY <1>2, <1>3, <1>4 DEF Table
<1>6. Table'
  <2>1. entry' = [k \in Key |-> IF k \in tracked' THEN Adopt(entry[k], f[k]) ELSE Blank]
    BY <1>1
  <2>2. entry' \in [Key -> Entry \cup {Blank}]
    BY <1>5, <2>1
  <2>3. \A k \in Key : IF k \in tracked' THEN entry'[k] \in Entry ELSE entry'[k] = Blank
    BY <1>5, <2>1
  <2>4. tracked' \subseteq Key
    BY <1>2, <1>4 DEF Table
  <2> QED  BY <2>2, <2>3, <2>4 DEF Table
<1>7. refresh' \in RefreshState
  BY <1>1, <1>2 DEF RefreshState, Table
<1>8. UNCHANGED <<dev, pass, up>>
  BY DEF Refresh
<1> QED  BY <1>6, <1>7, <1>8 DEF Typed

LEMMA RefresherTyped ==
  ASSUME Typed, InStep, Refresher
  PROVE  Typed'
<1>1. Table /\ refresh \in RefreshState /\ Wanted \subseteq Key /\ \A k \in Wanted : refresh.map[k] \in Row
  BY RowsWanted DEF Typed
<1>2. ASSUME NEW k \in Key, WriteRemove(k) \/ WriteArm(k) \/ ArmFailed(k)
      PROVE  Typed'
  <2>1. dev' \in Device
    <3>1. k \in Wanted \/ DeviceRemove(k)
      BY <1>2 DEF WriteRemove, WriteArm, ArmFailed, Arming, InStep, InArm
    <3>2. k \in Wanted => refresh.map[k] \in Row
      BY <1>1
    <3>3. WriteArm(k) => DeviceArm(k, refresh.map[k])
      BY DEF WriteArm
    <3>4. CASE DeviceRemove(k)
      BY <3>4, DeviceRemoved
    <3>5. CASE WriteArm(k)
      <4>1. refresh.map[k] \in Row
        BY <3>5, <1>1 DEF WriteArm, Arming, InStep, InArm
      <4>2. PICK a, e : a \in Address /\ e \in Endpoint
        <5>1. refresh.map[k].addr \in Address /\ refresh.map[k].cands \in Seq(Endpoint) /\ refresh.map[k].cands # <<>>
          BY <4>1 DEF Row
        <5> QED  BY <5>1
      <4> QED  BY <3>3, <3>5, <4>1, <4>2, DeviceWrites
    <3> QED  BY <1>2, <3>4, <3>5 DEF WriteRemove, ArmFailed
  <2>2. refresh' \in RefreshState
    <3>1. CASE WriteRemove(k)
      BY <1>1, <3>1 DEF WriteRemove, RefreshState
    <3>2. CASE WriteArm(k)
      <4>1. \/ refresh' = [[refresh EXCEPT !.ready = {k}] EXCEPT !.rearm = @ \ {k}]
            \/ refresh' = [[refresh EXCEPT !.ready = {k}] EXCEPT !.arm = @ \ {k}]
        BY <3>2 DEF WriteArm, Arming
      <4>2. PICK r \in RefreshState : r = [refresh EXCEPT !.ready = {k}]
        BY <1>1 DEF RefreshState
      <4>3. [r EXCEPT !.rearm = @ \ {k}] \in RefreshState /\ [r EXCEPT !.arm = @ \ {k}] \in RefreshState
        BY <4>2 DEF RefreshState
      <4> QED  BY <4>1, <4>2, <4>3
    <3>3. CASE ArmFailed(k)
      <4>1. \/ refresh' = [refresh EXCEPT !.rearm = @ \ {k}]
            \/ refresh' = [refresh EXCEPT !.arm = @ \ {k}]
        BY <3>3 DEF ArmFailed, Arming
      <4> QED  BY <1>1, <4>1 DEF RefreshState
    <3> QED  BY <1>2, <3>1, <3>2, <3>3
  <2>3. UNCHANGED <<tracked, entry, pass, up>>
    BY <1>2 DEF WriteRemove, WriteArm, ArmFailed
  <2> QED  BY <2>1, <2>2, <2>3 DEF Typed, Table
<1>3. ASSUME NEW k \in Key, Track(k)
      PROVE  Typed'
  <2>1. refresh.map[k] \in Row
    BY <1>1, <1>3 DEF Track, InStep, InArm
  <2>2. NewEntry(refresh.map[k]) \in Entry
    BY <2>1, PeerAssumption DEF NewEntry, Entry
  <2>3. Table'
    <3>1. PICK d \in Entry : d = NewEntry(refresh.map[k])
      BY <2>2
    <3>2. tracked' = tracked \cup {k} /\ entry' = [entry EXCEPT ![k] = d]
      BY <1>3, <3>1 DEF Track
    <3>3. \A j \in Key : entry'[j] = IF j = k THEN d ELSE entry[j]
      BY <1>1, <3>2 DEF Table
    <3>4. entry' \in [Key -> Entry \cup {Blank}]
      BY <1>1, <3>1, <3>2 DEF Table
    <3> QED  BY <1>1, <3>1, <3>2, <3>3, <3>4 DEF Table
  <2>4. refresh' \in RefreshState
    BY <1>1, <1>3 DEF Track, RefreshState
  <2>5. UNCHANGED <<dev, pass, up>>
    BY <1>3 DEF Track
  <2> QED  BY <2>3, <2>4, <2>5 DEF Typed
<1>4. CASE Refreshed
  <2>1. refresh' \in RefreshState
    BY <1>1, <1>4 DEF Refreshed, RefreshState
  <2>2. UNCHANGED <<tracked, entry, dev, pass, up>>
    BY <1>4 DEF Refreshed
  <2> QED  BY <2>1, <2>2 DEF Typed, Table
<1> QED  BY <1>2, <1>3, <1>4 DEF Refresher

\* What a pass has to write names a key and a row there is.
LEMMA TodoTyped ==
  ASSUME Typed, NEW x \in pass.todo
  PROVE  /\ x \in Todo /\ x.key \in Key /\ x.row \in Row /\ x.row.addr \in Address
         /\ x.aim \in Endpoint
<1>1. x \in Todo
  BY DEF Typed, PassState
<1>2. \A row \in Row : row.addr \in Address
  BY DEF Row
<1> QED  BY <1>1, <1>2 DEF Todo

LEMMA MonitorTyped ==
  ASSUME Typed, Evidence, Monitor
  PROVE  Typed'
<1>1. Table /\ dev \in Device /\ refresh \in RefreshState /\ pass \in PassState
  BY DEF Typed
<1>2. CASE ReadDevice
  <2>1. dev' \in Device /\ pass' \in PassState
    BY <1>1, <1>2 DEF ReadDevice, Device, PassState
  <2>2. refresh' \in RefreshState
    <3>1. PICK b \in BOOLEAN : b = (refresh.recent /\ refresh.pc # "idle")
      OBVIOUS
    <3>2. refresh' = [refresh EXCEPT !.recent = b]
      BY <1>2, <3>1, Zenon DEF ReadDevice
    <3> QED  BY <1>1, <3>2 DEF RefreshState
  <2>3. UNCHANGED <<tracked, entry, up>>
    BY <1>2 DEF ReadDevice
  <2> QED  BY <2>1, <2>2, <2>3 DEF Typed, Table
<1>3. CASE Decide
  <2>1. \A k \in tracked : Decision(k).d \in Entry /\ Decision(k).todo \subseteq Todo
    BY DecisionTyped
  <2>2. entry' = [k \in Key |-> IF k \in tracked THEN Decision(k).d ELSE entry[k]] /\ UNCHANGED <<tracked, refresh, up>>
    BY <1>3 DEF Decide
  <2>3. Table'
    <3>1. entry' \in [Key -> Entry \cup {Blank}]
      BY <1>1, <2>1, <2>2 DEF Table
    <3>2. \A k \in Key : IF k \in tracked' THEN entry'[k] \in Entry ELSE entry'[k] = Blank
      BY <1>1, <2>1, <2>2 DEF Table
    <3> QED  BY <1>1, <2>2, <3>1, <3>2 DEF Table
  <2>4. pass' \in PassState
    <3>1. PICK T : T = UNION {Decision(k).todo : k \in tracked}
      OBVIOUS
    <3>2. T \subseteq Todo
      BY <2>1, <3>1
    <3>3. pass' = [pass EXCEPT !.pc = "write", !.todo = T,
                               !.ever = [k \in Key |-> FALSE], !.news = [k \in Key |-> {}]]
      BY <1>3, <3>1 DEF Decide
    <3> QED  BY <1>1, <3>2, <3>3 DEF PassState
  <2>5. dev' \in Device
    <3>1. PICK C \in [Key -> BOOLEAN] : dev' = [dev EXCEPT !.counted = C]
      <4>1. [k \in Key |-> dev.counted[k] \/ (k \in tracked /\ pass.ever[k] /\ "hs" \notin dev.news[k])]
              \in [Key -> BOOLEAN]
        OBVIOUS
      <4>2. dev' = [dev EXCEPT !.counted = [k \in Key |->
                      dev.counted[k] \/ (k \in tracked /\ pass.ever[k] /\ "hs" \notin dev.news[k])]]
        BY <1>3, Zenon DEF Decide
      <4> QED  BY <4>1, <4>2, Zenon
    <3> QED  BY <1>1, <3>1 DEF Device
  <2> QED  BY <2>2, <2>3, <2>4, <2>5 DEF Typed
<1>4. CASE EndPass
  <2>1. pass' \in PassState
    BY <1>1, <1>4 DEF EndPass, PassState
  <2>2. UNCHANGED <<tracked, entry, dev, refresh, up>>
    BY <1>4 DEF EndPass
  <2> QED  BY <2>1, <2>2 DEF Typed, Table
<1>5. ASSUME NEW x \in pass.todo, Write(x)
      PROVE  Typed'
  <2>1. x \in Todo /\ x.key \in Key /\ x.row \in Row /\ x.row.addr \in Address /\ x.aim \in Endpoint
    BY TodoTyped
  <2>2. ASSUME Done(x)
        PROVE  pass' \in PassState
    BY <1>1, <2>2 DEF Done, PassState
  <2>3. CASE WritePromote(x)
    <3>1. dev' \in Device
      BY <2>1, <2>3, DeviceWrites DEF WritePromote
    <3>2. [x EXCEPT !.what = "winner"] \in Todo
      BY <2>1 DEF Todo
    <3>3. pass' \in PassState
      BY <1>1, <2>3, <3>2 DEF WritePromote, PassState
    <3>4. UNCHANGED <<tracked, entry, refresh, up>>
      BY <2>3 DEF WritePromote
    <3> QED  BY <3>1, <3>3, <3>4 DEF Typed, Table
  <2>4. CASE PromoteFailed(x)
    <3>1. UNCHANGED <<tracked, dev, refresh, up>> /\ Done(x)
      BY <2>4 DEF PromoteFailed
    <3>2. CASE x.key \in tracked
      <4>1. entry[x.key] \in Entry
        BY <1>1, <2>1, <3>2 DEF Table
      <4>2. PICK d \in Entry : d = [entry[x.key] EXCEPT !.promoted = FALSE]
        BY <4>1, EntrySet
      <4>3. entry' = [entry EXCEPT ![x.key] = d]
        BY <2>4, <3>2, <4>2 DEF PromoteFailed
      <4>4. Table'
        BY <1>1, <2>1, <3>1, <3>2, <4>3 DEF Table
      <4> QED  BY <2>2, <3>1, <4>4 DEF Typed
    <3>3. CASE x.key \notin tracked
      BY <2>2, <2>4, <3>1, <3>3 DEF Typed, Table, PromoteFailed
    <3> QED  BY <3>2, <3>3
  <2>5. CASE NoteWinner(x)
    <3>1. UNCHANGED <<tracked, dev, refresh, up>> /\ Done(x)
      BY <2>5 DEF NoteWinner
    <3>2. CASE x.key \in tracked
      <4>1. entry[x.key] \in Entry
        BY <1>1, <2>1, <3>2 DEF Table
      <4>2. PICK e : e = IF dev.aim[x.key] = NoEndpoint THEN entry[x.key].lastEP ELSE dev.aim[x.key]
        OBVIOUS
      <4>3. e \in Endpoint \cup {NoEndpoint}
        BY <1>1, <2>1, <4>1, <4>2 DEF Device, Entry
      <4>4. PICK d \in Entry : d = [entry[x.key] EXCEPT !.winner = e]
        BY <4>1, <4>3, EntrySet
      <4>5. entry' = [entry EXCEPT ![x.key] = d]
        BY <2>5, <3>2, <4>2, <4>4 DEF NoteWinner
      <4>6. Table'
        BY <1>1, <2>1, <3>1, <3>2, <4>5 DEF Table
      <4> QED  BY <2>2, <3>1, <4>6 DEF Typed
    <3>3. CASE x.key \notin tracked
      BY <2>2, <2>5, <3>1, <3>3 DEF Typed, Table, NoteWinner
    <3> QED  BY <3>2, <3>3
  <2>6. CASE WriteDemote(x) \/ WritePunch(x)
    <3>1. dev' \in Device
      BY <2>1, <2>6, DeviceWrites DEF WriteDemote, WritePunch
    <3>2. UNCHANGED <<tracked, entry, refresh, up>> /\ Done(x)
      BY <2>6 DEF WriteDemote, WritePunch
    <3> QED  BY <2>2, <3>1, <3>2 DEF Typed, Table
  <2> QED  BY <1>5, <2>3, <2>4, <2>5, <2>6 DEF Write
<1> QED  BY <1>2, <1>3, <1>4, <1>5 DEF Monitor

LEMMA NetworkTyped ==
  ASSUME Typed, Network
  PROVE  Typed'
<1>1. dev \in Device /\ up \in [Key -> SUBSET Endpoint]
  BY DEF Typed
<1>2. PICK k \in Key : Handshake(k) \/ Roam(k) \/ Keepalive(k) \/ PathChanges(k)
  BY DEF Network
<1>3. CASE Handshake(k) \/ Keepalive(k)
  <2>1. dev' \in Device
    <3>1. CASE Handshake(k)
      BY <1>1, <3>1 DEF Handshake, Device
    <3>2. CASE Keepalive(k)
      <4>1. dev.news[k] \cup {"rx"} \in SUBSET {"hs", "rx"}
        BY <1>1 DEF Device
      <4>2. dev' = [dev EXCEPT !.news[k] = dev.news[k] \cup {"rx"}]
        BY <3>2 DEF Keepalive
      <4> QED  BY <1>1, <4>1, <4>2 DEF Device
    <3> QED  BY <1>3, <3>1, <3>2
  <2> QED  BY <1>3, <2>1 DEF Handshake, Keepalive, Typed, Table
<1>4. CASE Roam(k)
  <2>1. PICK e \in up[k] : dev' = [dev EXCEPT !.aim[k] = e, !.ever[k] = TRUE, !.counted[k] = FALSE,
                                              !.news[k] = {"hs", "rx"}]
    BY <1>4 DEF Roam
  <2>2. e \in Endpoint
    BY <1>1, <2>1
  <2>3. dev' \in Device
    BY <1>1, <2>1, <2>2 DEF Device
  <2> QED  BY <1>4, <2>3 DEF Roam, Typed, Table
<1>5. CASE PathChanges(k)
  <2>1. up' \in [Key -> SUBSET Endpoint]
    <3>1. \A S \in Reach[k] : S \subseteq Endpoint
      BY PeerAssumption
    <3> QED  BY <1>1, <1>5, <3>1 DEF PathChanges
  <2> QED  BY <1>5, <2>1 DEF PathChanges, Typed, Table
<1> QED  BY <1>2, <1>3, <1>4, <1>5

-----------------------------------------------------------------------------
(* The device follows the table.                                           *)

\* What an arming leaves of the lists.
LEMMA ArmingSplit ==
  ASSUME Typed, InStep, NEW k \in Key, NEW left \in RefreshState, Arming(k, left),
         left.pc = refresh.pc, left.map = refresh.map, left.remove = refresh.remove,
         left.rearm = refresh.rearm, left.arm = refresh.arm, left.recent = refresh.recent
  PROVE  /\ refresh.pc = "write" /\ refresh.remove = {} /\ refresh.ready = {}
         /\ k \in refresh.rearm \cup refresh.arm /\ k \in Wanted
         /\ refresh'.pc = refresh.pc /\ refresh'.map = refresh.map /\ refresh'.remove = {}
         /\ refresh'.ready = left.ready /\ refresh'.recent = refresh.recent
         /\ refresh'.rearm \cup refresh'.arm \subseteq refresh.rearm \cup refresh.arm
         /\ refresh.rearm \cup refresh.arm \subseteq refresh'.rearm \cup refresh'.arm \cup {k}
<1>1. \/ k \in refresh.rearm /\ refresh' = [left EXCEPT !.rearm = @ \ {k}]
      \/ k \in refresh.arm /\ refresh' = [left EXCEPT !.arm = @ \ {k}]
  BY DEF Arming
<1>2. refresh.pc = "write" /\ refresh.remove = {} /\ refresh.ready = {}
  BY DEF Arming
<1>3. k \in Wanted
  BY <1>1 DEF InStep, InArm
<1> QED  BY <1>1, <1>2, <1>3 DEF RefreshState

\* The steps of an arming, with the lists as the lemma leaves them.
LEMMA WriteArmSplit ==
  ASSUME Typed, InStep, NEW k \in Key, WriteArm(k)
  PROVE  /\ refresh.pc = "write" /\ refresh.remove = {} /\ refresh.ready = {}
         /\ k \in refresh.rearm \cup refresh.arm /\ k \in Wanted
         /\ refresh'.pc = refresh.pc /\ refresh'.map = refresh.map /\ refresh'.remove = {}
         /\ refresh'.ready = {k} /\ refresh'.recent = refresh.recent
         /\ refresh'.rearm \cup refresh'.arm \subseteq refresh.rearm \cup refresh.arm
         /\ refresh.rearm \cup refresh.arm \subseteq refresh'.rearm \cup refresh'.arm \cup {k}
<1>1. PICK left : left = [refresh EXCEPT !.ready = {k}]
  OBVIOUS
<1>2. /\ left \in RefreshState /\ left.pc = refresh.pc /\ left.map = refresh.map
      /\ left.remove = refresh.remove /\ left.rearm = refresh.rearm /\ left.arm = refresh.arm
      /\ left.recent = refresh.recent /\ left.ready = {k}
  BY <1>1 DEF Typed, RefreshState
<1>3. Arming(k, left)
  BY <1>1 DEF WriteArm
<1> QED  BY <1>2, <1>3, ArmingSplit

LEMMA ArmFailedSplit ==
  ASSUME Typed, InStep, NEW k \in Key, ArmFailed(k)
  PROVE  /\ refresh.pc = "write" /\ refresh.remove = {} /\ refresh.ready = {}
         /\ k \in refresh.rearm \cup refresh.arm /\ k \in Wanted
         /\ refresh'.pc = refresh.pc /\ refresh'.map = refresh.map /\ refresh'.remove = {}
         /\ refresh'.ready = {} /\ refresh'.recent = refresh.recent
         /\ refresh'.rearm \cup refresh'.arm \subseteq refresh.rearm \cup refresh.arm
         /\ refresh.rearm \cup refresh.arm \subseteq refresh'.rearm \cup refresh'.arm \cup {k}
<1>1. refresh \in RefreshState /\ Arming(k, refresh)
  BY DEF ArmFailed, Typed
<1>2. refresh.ready = {}
  BY <1>1 DEF Arming
<1> QED  BY <1>1, <1>2, ArmingSplit

LEMMA InStepKept ==
  ASSUME Typed, InStep, [Next]_vars
  PROVE  InStep'
<1>1. refresh \in RefreshState /\ dev \in Device
  BY DEF Typed
<1>2. CASE Refresh
  <2>1. PICK f \in Maps :
          LET gone == tracked \ DOMAIN f
              changed == {k \in tracked \ gone : Changed(k, f)}
              kept == (tracked \ gone) \ changed
          IN /\ tracked' = kept
             /\ entry' = [k \in Key |-> IF k \in kept THEN Adopt(entry[k], f[k]) ELSE Blank]
             /\ refresh' = [pc |-> "write", map |-> f, remove |-> gone, rearm |-> changed,
                            arm |-> DOMAIN f \ kept, ready |-> {}, recent |-> TRUE]
    BY <1>2 DEF Refresh
  <2> DEFINE gone == tracked \ DOMAIN f
             changed == {k \in tracked \ gone : Changed(k, f)}
             kept == (tracked \ gone) \ changed
  <2>2. changed \subseteq tracked /\ changed \subseteq DOMAIN f
    OBVIOUS
  <2>3. /\ tracked' = kept /\ refresh'.pc = "write" /\ refresh'.map = f /\ refresh'.remove = gone
        /\ refresh'.rearm = changed /\ refresh'.arm = DOMAIN f \ kept /\ refresh'.ready = {}
        /\ refresh'.recent = TRUE
    BY <2>1
  <2>4. dev.peers = tracked /\ UNCHANGED dev
    BY <1>2 DEF Refresh, InStep
  <2> HIDE DEF changed
  <2> QED  BY <2>2, <2>3, <2>4 DEF InStep, InArm, Wanted
<1>3. ASSUME NEW k \in Key, WriteRemove(k)
      PROVE  InStep'
  <2>1. dev'.peers = dev.peers \ {k} /\ k \in refresh.remove /\ refresh.pc = "write" /\ UNCHANGED tracked
    BY <1>1, <1>3 DEF WriteRemove, DeviceRemove, Device
  <2>2. /\ refresh'.pc = refresh.pc /\ refresh'.map = refresh.map /\ refresh'.remove = refresh.remove \ {k}
        /\ refresh'.rearm = refresh.rearm /\ refresh'.arm = refresh.arm /\ refresh'.ready = refresh.ready
        /\ refresh'.recent = refresh.recent
    BY <1>1, <1>3 DEF WriteRemove, RefreshState
  <2> QED  BY <2>1, <2>2 DEF InStep, InArm, Wanted
<1>4. ASSUME NEW k \in Key, WriteArm(k)
      PROVE  InStep'
  <2>1. dev'.peers = dev.peers \cup {k} /\ UNCHANGED tracked /\ refresh.map[k] \notin Refused
    BY <1>1, <1>4 DEF WriteArm, DeviceArm, Device
  <2> QED  BY <1>4, <2>1, WriteArmSplit DEF InStep, InArm, Wanted
<1>5. ASSUME NEW k \in Key, ArmFailed(k)
      PROVE  InStep'
  <2>1. dev'.peers = dev.peers \ {k} /\ UNCHANGED tracked /\ refresh.map[k] \in Refused
    BY <1>1, <1>5 DEF ArmFailed, DeviceRemove, Device
  <2> QED  BY <1>5, <2>1, ArmFailedSplit DEF InStep, InArm, Wanted
<1>6. ASSUME NEW k \in Key, Track(k)
      PROVE  InStep'
  <2>1. /\ k \in refresh.ready /\ tracked' = tracked \cup {k} /\ UNCHANGED dev /\ refresh.pc = "write"
        /\ refresh' = [refresh EXCEPT !.ready = {}]
    BY <1>6 DEF Track
  <2>2. /\ refresh'.pc = refresh.pc /\ refresh'.map = refresh.map /\ refresh'.remove = refresh.remove
        /\ refresh'.rearm = refresh.rearm /\ refresh'.arm = refresh.arm /\ refresh'.ready = {}
        /\ refresh'.recent = refresh.recent
    BY <1>1, <2>1 DEF RefreshState
  <2>3. refresh.ready = {k}
    BY <2>1 DEF InStep
  <2> QED  BY <2>1, <2>2, <2>3 DEF InStep, InArm, Wanted
<1>7. CASE Refreshed
  <2>1. /\ refresh' = [refresh EXCEPT !.pc = "idle"] /\ UNCHANGED <<tracked, dev>>
        /\ refresh.remove = {} /\ InArm = {}
    BY <1>7 DEF Refreshed, InArm
  <2>2. /\ refresh'.pc = "idle" /\ refresh'.map = refresh.map /\ refresh'.remove = refresh.remove
        /\ refresh'.rearm = refresh.rearm /\ refresh'.arm = refresh.arm /\ refresh'.ready = refresh.ready
        /\ refresh'.recent = refresh.recent
    BY <1>1, <2>1 DEF RefreshState
  <2> QED  BY <2>1, <2>2 DEF InStep, InArm, Wanted
<1>8. CASE ReadDevice
  <2>1. dev'.peers = dev.peers /\ UNCHANGED tracked
    BY <1>1, <1>8 DEF ReadDevice, Device
  <2>2. /\ refresh'.pc = refresh.pc /\ refresh'.map = refresh.map /\ refresh'.remove = refresh.remove
        /\ refresh'.rearm = refresh.rearm /\ refresh'.arm = refresh.arm /\ refresh'.ready = refresh.ready
    BY <1>1, <1>8 DEF ReadDevice, RefreshState
  <2>3. refresh.pc = "write" => refresh'.recent
    <3>1. refresh'.recent = (refresh.recent /\ refresh.pc # "idle")
      <4>1. refresh' = [refresh EXCEPT !.recent = refresh.recent /\ refresh.pc # "idle"]
        BY <1>8 DEF ReadDevice
      <4> QED  BY <1>1, <4>1 DEF RefreshState
    <3> QED  BY <3>1 DEF InStep
  <2> QED  BY <2>1, <2>2, <2>3 DEF InStep, InArm, Wanted
<1>9. ASSUME dev'.peers = dev.peers, UNCHANGED <<tracked, refresh>>
      PROVE  InStep'
  BY <1>9 DEF InStep, InArm, Wanted
<1>10. CASE Decide \/ EndPass \/ Network \/ UNCHANGED vars
  <2>1. dev'.peers = dev.peers
    BY <1>1, <1>10 DEF Decide, EndPass, Network, Handshake, Roam, Keepalive, PathChanges, vars, Device
  <2> QED  BY <1>9, <1>10, <2>1 DEF Decide, EndPass, Network, Handshake, Roam, Keepalive, PathChanges, vars
<1>11. ASSUME NEW x \in pass.todo, Write(x)
       PROVE  InStep'
  <2>1. x.key \in Key /\ x.row \in Row /\ x.row.addr \in Address /\ x.aim \in Endpoint
    BY TodoTyped
  <2>2. \/ DevicePromote(x.key, x.row.addr) \/ DeviceDemote(x.key) \/ DevicePunch(x.key, x.aim)
        \/ UNCHANGED dev
    BY <1>11 DEF Write, WritePromote, PromoteFailed, NoteWinner, WriteDemote, WritePunch
  <2>3. dev'.peers = dev.peers
    BY <2>1, <2>2, DeviceWrites
  <2>4. UNCHANGED <<tracked, refresh>>
    BY <1>11 DEF Write, WritePromote, PromoteFailed, NoteWinner, WriteDemote, WritePunch
  <2> QED  BY <1>9, <2>3, <2>4
<1> QED
  BY <1>2, <1>3, <1>4, <1>5, <1>6, <1>7, <1>8, <1>10, <1>11 DEF Next, Refresher, Monitor

-----------------------------------------------------------------------------
(* Evidence is about the peer the device has now.                          *)

\* A peer taken off the device: nothing is known of it, and it stays away.
LEMMA RemovedForgotten ==
  ASSUME IInv, NEW k \in Key, DeviceRemove(k), UNCHANGED <<tracked, entry, pass>>, k \notin tracked,
         refresh'.recent, refresh'.map = refresh.map, refresh'.ready \subseteq refresh.ready,
         refresh'.rearm \cup refresh'.arm \subseteq refresh.rearm \cup refresh.arm,
         k \notin refresh.ready,
         k \in refresh.rearm \cup refresh.arm => refresh.map[k] \in Refused
  PROVE  Evidence' /\ RouteNeedsHandshake'
<1>2. dev \in Device /\ Replaced(k, {}) \in [Address -> Key \cup {Box}]
  BY ReplacedTyped DEF IInv, Typed
<1>3. /\ dev'.peers = dev.peers \ {k} /\ dev'.route = Replaced(k, {})
      /\ dev'.ever = [dev.ever EXCEPT ![k] = FALSE] /\ dev'.news = [dev.news EXCEPT ![k] = {}]
  BY <1>2 DEF DeviceRemove, Device
<1>4. \A j \in Key \ {k} : dev'.ever[j] = dev.ever[j] /\ dev'.news[j] = dev.news[j]
  BY <1>2, <1>3 DEF Device
<1>5. dev'.news[k] = {} /\ Barred(k)'
  BY <1>2, <1>3 DEF Device, Barred
<1>6. \A j \in Key \ {k} : Barred(j) => Barred(j)'
  BY <1>3 DEF Barred
<1>7. Pending("promote")' = Pending("promote")
  BY DEF Pending
<1>8. \A j \in Key : pass'.ever[j] \/ j \in Pending("promote")' => dev'.ever[j] \/ Barred(j)'
  BY <1>4, <1>5, <1>6, <1>7 DEF IInv, Evidence
<1>9. Evidence'
  <2>1. \A j \in Key : dev'.news[j] # {} => dev'.ever[j]
    BY <1>4, <1>5 DEF IInv, Evidence
  <2>2. \A j \in tracked' : entry'[j].fresh > 0 => dev'.ever[j]
    BY <1>4 DEF IInv, Evidence, Typed, Table
  <2> QED  BY <1>8, <2>1, <2>2 DEF IInv, Evidence
<1>10. RouteNeedsHandshake'
  <2> SUFFICES ASSUME NEW a \in Address, dev'.route[a] # Box  PROVE dev'.ever[dev'.route[a]]
    BY DEF RouteNeedsHandshake
  <2>1. dev'.route[a] = dev.route[a] /\ dev.route[a] # k
    BY <1>3, ReplacedTyped DEF IInv
  <2>2. dev.route[a] \in Key
    BY <1>2, <2>1 DEF Device
  <2> QED  BY <1>4, <2>1, <2>2 DEF IInv, RouteNeedsHandshake
<1> QED  BY <1>9, <1>10

LEMMA EvidenceKept ==
  ASSUME IInv, [Next]_vars
  PROVE  Evidence' /\ RouteNeedsHandshake'
<1> USE DEF IInv
<1>1. Table /\ dev \in Device /\ refresh \in RefreshState /\ pass \in PassState
  BY DEF Typed
<1>2. CASE Refresh
  <2>1. UNCHANGED <<dev, pass>> /\ ~refresh.recent
    BY <1>2 DEF Refresh
  <2>2. \A k \in Key : ~Barred(k)
    BY <2>1 DEF Barred
  <2>3. \A k \in tracked' : k \in tracked /\ entry'[k].fresh = entry[k].fresh
    <3>1. PICK f \in Maps :
            /\ tracked' \subseteq tracked
            /\ entry' = [k \in Key |-> IF k \in tracked' THEN Adopt(entry[k], f[k]) ELSE Blank]
      BY <1>2 DEF Refresh
    <3>2. \A k \in tracked' : k \in Key /\ entry[k] \in Entry
      BY <1>1, <3>1 DEF Table
    <3>3. \A d \in Entry : \A row : Adopt(d, row).fresh = d.fresh
      BY DEF Adopt, Entry
    <3> QED  BY <3>1, <3>2, <3>3
  <2> QED  BY <2>1, <2>2, <2>3 DEF Evidence, RouteNeedsHandshake, Pending
<1>3. ASSUME NEW k \in Key, WriteRemove(k)
      PROVE  Evidence' /\ RouteNeedsHandshake'
  <2>1. DeviceRemove(k) /\ UNCHANGED <<tracked, entry, pass>> /\ k \in refresh.remove /\ refresh.pc = "write"
    BY <1>3 DEF WriteRemove
  <2>2. /\ refresh'.map = refresh.map
        /\ refresh'.rearm = refresh.rearm /\ refresh'.arm = refresh.arm /\ refresh'.ready = refresh.ready
        /\ refresh'.recent = refresh.recent
    BY <1>1, <1>3 DEF WriteRemove, RefreshState
  <2>3. k \notin tracked /\ k \notin refresh.ready /\ k \notin refresh.rearm \cup refresh.arm /\ refresh.recent
    BY <2>1 DEF InStep, InArm
  <2> QED  BY <2>1, <2>2, <2>3, RemovedForgotten
<1>4. ASSUME NEW k \in Key, ArmFailed(k)
      PROVE  Evidence' /\ RouteNeedsHandshake'
  <2>1. DeviceRemove(k) /\ UNCHANGED <<tracked, entry, pass>> /\ refresh.map[k] \in Refused
    BY <1>4 DEF ArmFailed
  <2>2. k \notin tracked /\ k \notin refresh.ready /\ refresh.recent
    BY <1>4, <2>1, ArmFailedSplit DEF InStep
  <2>3. /\ refresh'.recent /\ refresh'.map = refresh.map /\ refresh'.ready \subseteq refresh.ready
        /\ refresh'.rearm \cup refresh'.arm \subseteq refresh.rearm \cup refresh.arm
    BY <1>4, <2>2, ArmFailedSplit
  <2> QED  BY <2>1, <2>2, <2>3, RemovedForgotten
<1>5. ASSUME NEW k \in Key, WriteArm(k)
      PROVE  Evidence' /\ RouteNeedsHandshake'
  <2>1. DeviceArm(k, refresh.map[k]) /\ UNCHANGED <<tracked, entry, pass>> /\ refresh.map[k] \notin Refused
    BY <1>5 DEF WriteArm
  <2>2. /\ dev'.peers = dev.peers \cup {k} /\ dev'.route = Replaced(k, {})
        /\ dev'.ever = dev.ever /\ dev'.news = dev.news
    BY <1>1, <2>1 DEF DeviceArm, Device
  <2>3. k \in refresh.rearm \cup refresh.arm
        /\ refresh'.map = refresh.map /\ refresh'.ready = {k} /\ refresh'.recent = refresh.recent
        /\ refresh'.rearm \cup refresh'.arm \subseteq refresh.rearm \cup refresh.arm
    BY <1>5, WriteArmSplit
  <2>4. ~Barred(k)
    BY <2>1, <2>3 DEF Barred
  <2>5. \A j \in Key \ {k} : Barred(j) => Barred(j)'
    BY <2>2, <2>3 DEF Barred
  <2>6. Evidence'
    BY <2>1, <2>2, <2>4, <2>5 DEF Evidence, Pending
  <2>7. RouteNeedsHandshake'
    BY <2>2, ReplacedTyped DEF RouteNeedsHandshake
  <2> QED  BY <2>6, <2>7
<1>6. ASSUME NEW k \in Key, Track(k)
      PROVE  Evidence' /\ RouteNeedsHandshake'
  <2>1. /\ UNCHANGED <<dev, pass>> /\ k \in refresh.ready /\ tracked' = tracked \cup {k}
        /\ entry' = [entry EXCEPT ![k] = NewEntry(refresh.map[k])]
        /\ refresh' = [refresh EXCEPT !.ready = {}]
    BY <1>6 DEF Track
  <2>2. /\ refresh'.map = refresh.map /\ refresh'.recent = refresh.recent
        /\ refresh'.rearm = refresh.rearm /\ refresh'.arm = refresh.arm /\ refresh'.ready = {}
    BY <1>1, <2>1 DEF RefreshState
  <2>3. \A j \in Key : Barred(j) => Barred(j)'
    BY <2>1, <2>2 DEF Barred
  <2>4. \A j \in tracked' : entry'[j].fresh > 0 => j \in tracked /\ entry[j].fresh > 0
    <3>1. NewEntry(refresh.map[k]).fresh = 0
      BY DEF NewEntry
    <3> QED  BY <1>1, <2>1, <3>1 DEF Table
  <2> QED  BY <2>1, <2>3, <2>4 DEF Evidence, RouteNeedsHandshake, Pending
<1>7. CASE Refreshed
  <2>1. /\ UNCHANGED <<tracked, entry, dev, pass>> /\ refresh' = [refresh EXCEPT !.pc = "idle"]
    BY <1>7 DEF Refreshed
  <2>2. /\ refresh'.map = refresh.map /\ refresh'.recent = refresh.recent
        /\ refresh'.rearm = refresh.rearm /\ refresh'.arm = refresh.arm /\ refresh'.ready = refresh.ready
    BY <1>1, <2>1 DEF RefreshState
  <2>3. \A j \in Key : Barred(j) => Barred(j)'
    BY <2>1, <2>2 DEF Barred
  <2> QED  BY <2>1, <2>3 DEF Evidence, RouteNeedsHandshake, Pending
<1>8. CASE ReadDevice
  <2>1. /\ pass.pc = "idle" /\ UNCHANGED <<tracked, entry>>
        /\ pass'.pc = "read" /\ pass'.ever = dev.ever /\ pass'.news = dev.news /\ pass'.todo = pass.todo
    BY <1>1, <1>8 DEF ReadDevice, PassState
  <2>2. /\ dev'.ever = dev.ever /\ dev'.route = dev.route /\ dev'.news = [k \in Key |-> {}]
    BY <1>1, <1>8 DEF ReadDevice, Device
  <2>3. pass'.todo = {}
    BY <2>1 DEF Evidence
  <2> QED  BY <2>1, <2>2, <2>3 DEF Evidence, RouteNeedsHandshake, Pending
<1>9. CASE Decide
  <2>1. UNCHANGED <<tracked, refresh>> /\ dev'.peers = dev.peers /\ dev'.ever = dev.ever
        /\ dev'.news = dev.news /\ dev'.route = dev.route
    BY <1>1, <1>9 DEF Decide, Device
  <2>2. /\ pass'.pc = "write" /\ pass'.ever = [k \in Key |-> FALSE] /\ pass'.news = [k \in Key |-> {}]
        /\ pass'.todo = UNION {Decision(k).todo : k \in tracked}
    BY <1>1, <1>9 DEF Decide, PassState
  <2>3. \A k \in tracked : Observed(k).fresh > 0 => dev.ever[k]
    <3> TAKE k \in tracked
    <3> HAVE Observed(k).fresh > 0
    <3>1. pass.ever[k] \/ entry[k].fresh > 0
      BY ObservedTyped
    <3>2. k \in Key /\ ~Barred(k)
      BY <1>1 DEF Table, Barred, InStep
    <3> QED  BY <3>1, <3>2 DEF Evidence
  <2>4. \A k \in tracked : entry'[k].fresh > 0 => dev.ever[k]
    <3>1. \A k \in tracked : entry'[k] = Decision(k).d
      BY <1>1, <1>9 DEF Decide, Table
    <3> QED  BY <2>3, <3>1, DecisionTyped
  <2>5. \A k \in Key : k \in Pending("promote")' => dev.ever[k]
    <3> TAKE k \in Key
    <3> HAVE k \in Pending("promote")'
    <3>1. PICK x \in pass'.todo : x.what = "promote" /\ x.key = k
      BY DEF Pending
    <3>2. PICK j \in tracked : x \in Decision(j).todo
      BY <2>2, <3>1
    <3> QED  BY <2>3, <3>1, <3>2, DecisionTyped
  <2> QED  BY <2>1, <2>2, <2>4, <2>5 DEF Evidence, RouteNeedsHandshake
<1>10. CASE EndPass
  <2>1. UNCHANGED <<tracked, entry, dev, refresh>> /\ pass.todo = {}
        /\ pass'.ever = pass.ever /\ pass'.news = pass.news /\ pass'.todo = pass.todo
    BY <1>1, <1>10 DEF EndPass, PassState
  <2> QED  BY <2>1 DEF Evidence, RouteNeedsHandshake, Pending, Barred
<1>11. ASSUME NEW x \in pass.todo, Write(x)
       PROVE  Evidence' /\ RouteNeedsHandshake'
  <2>1. x.key \in Key /\ x.row \in Row /\ x.row.addr \in Address /\ x.aim \in Endpoint
    BY TodoTyped
  <2>2. UNCHANGED <<tracked, refresh>> /\ pass.pc = "write"
    BY <1>11 DEF Write, WritePromote, PromoteFailed, NoteWinner, WriteDemote, WritePunch
  <2>3. /\ pass'.pc = pass.pc /\ pass'.ever = pass.ever /\ pass'.news = pass.news
        /\ \A y \in pass'.todo : y.what = "promote" => y \in pass.todo
    <3>1. CASE Done(x)
      BY <1>1, <3>1 DEF Done, PassState
    <3>2. CASE WritePromote(x)
      <4>1. PICK y : y = [x EXCEPT !.what = "winner"]
        OBVIOUS
      <4>2. y.what = "winner"
        BY <4>1, TodoTyped DEF Todo
      <4>3. pass' = [pass EXCEPT !.todo = (@ \ {x}) \cup {y}]
        BY <3>2, <4>1 DEF WritePromote
      <4> QED  BY <1>1, <4>2, <4>3 DEF PassState
    <3> QED  BY <1>11, <3>1, <3>2 DEF Write, PromoteFailed, NoteWinner, WriteDemote, WritePunch
  <2>4. dev'.peers = dev.peers /\ dev'.ever = dev.ever /\ dev'.news = dev.news
    <3>1. \/ DevicePromote(x.key, x.row.addr) \/ DeviceDemote(x.key) \/ DevicePunch(x.key, x.aim)
          \/ UNCHANGED dev
      BY <1>11 DEF Write, WritePromote, PromoteFailed, NoteWinner, WriteDemote, WritePunch
    <3> QED  BY <2>1, <3>1, DeviceWrites
  <2>5. \A k \in tracked : entry'[k].fresh = entry[k].fresh
    <3>1. CASE UNCHANGED entry
      BY <3>1
    <3>2. CASE PromoteFailed(x) \/ NoteWinner(x)
      <4>1. \A k \in tracked : k \in Key /\ entry[k] \in Entry
        BY <1>1 DEF Table
      <4> QED  BY <1>1, <3>2, <4>1 DEF PromoteFailed, NoteWinner, Table, Entry
    <3> QED  BY <1>11, <3>1, <3>2 DEF Write, WritePromote, WriteDemote, WritePunch
  <2>6. Pending("promote")' \subseteq Pending("promote") /\ \A k \in Key : Barred(k)' <=> Barred(k)
    BY <2>2, <2>3, <2>4 DEF Pending, Barred
  <2>7. Evidence'
    BY <2>2, <2>3, <2>4, <2>5, <2>6 DEF Evidence
  <2>8. RouteNeedsHandshake'
    <3>1. CASE UNCHANGED dev
      BY <3>1 DEF RouteNeedsHandshake
    <3>2. CASE WritePromote(x) /\ x.key \in dev.peers
      <4>1. dev'.route = Replaced(x.key, {x.row.addr})
        BY <2>1, <3>2, DeviceWrites DEF WritePromote
      <4>2. dev.ever[x.key]
        <5>1. x.key \in Pending("promote") /\ ~Barred(x.key)
          BY <1>11, <3>2 DEF WritePromote, Pending, Barred
        <5> QED  BY <2>1, <5>1 DEF Evidence
      <4> QED  BY <2>1, <2>4, <4>1, <4>2, ReplacedTyped DEF RouteNeedsHandshake
    <3>3. CASE WritePromote(x) /\ x.key \notin dev.peers
      BY <3>1, <3>3 DEF WritePromote, DevicePromote
    <3>4. CASE WriteDemote(x)
      <4>1. dev'.route = dev.route \/ dev'.route = Replaced(x.key, {})
        BY <2>1, <3>4, DeviceWrites DEF WriteDemote
      <4> QED  BY <2>1, <2>4, <4>1, ReplacedTyped DEF RouteNeedsHandshake
    <3>5. CASE WritePunch(x)
      <4>1. dev'.route = dev.route
        BY <2>1, <3>5, DeviceWrites DEF WritePunch
      <4> QED  BY <2>4, <4>1 DEF RouteNeedsHandshake
    <3> QED  BY <1>11, <3>1, <3>2, <3>3, <3>4, <3>5 DEF Write, PromoteFailed, NoteWinner
  <2> QED  BY <2>7, <2>8
<1>12. CASE Network
  <2>1. PICK k \in Key : Handshake(k) \/ Roam(k) \/ Keepalive(k) \/ PathChanges(k)
    BY <1>12 DEF Network
  <2>2. UNCHANGED <<tracked, entry, refresh, pass>>
    BY <2>1 DEF Handshake, Roam, Keepalive, PathChanges
  <2>3. /\ dev'.peers = dev.peers /\ dev'.route = dev.route
        /\ \A j \in Key : dev.ever[j] => dev'.ever[j]
        /\ \A j \in Key \ {k} : dev'.ever[j] = dev.ever[j] /\ dev'.news[j] = dev.news[j]
        /\ dev'.ever[k] \/ (dev'.news[k] = dev.news[k] /\ dev'.ever[k] = dev.ever[k])
    <3>1. CASE Handshake(k)
      BY <1>1, <3>1 DEF Handshake, Device
    <3>2. CASE Roam(k)
      <4>1. /\ dev'.peers = dev.peers /\ dev'.route = dev.route
            /\ dev'.ever = [dev.ever EXCEPT ![k] = TRUE]
            /\ dev'.news = [dev.news EXCEPT ![k] = {"hs", "rx"}]
        BY <1>1, <3>2 DEF Roam, Device
      <4>2. dev.ever \in [Key -> BOOLEAN] /\ dev.news \in [Key -> SUBSET {"hs", "rx"}]
        BY <1>1 DEF Device
      <4> QED  BY <4>1, <4>2
    <3>3. CASE Keepalive(k)
      BY <1>1, <3>3 DEF Keepalive, Device
    <3>4. CASE PathChanges(k)
      BY <3>4 DEF PathChanges
    <3> QED  BY <2>1, <3>1, <3>2, <3>3, <3>4
  <2>4. \A a \in Address : dev.route[a] # Box => dev.route[a] \in Key
    BY <1>1 DEF Device
  <2> QED  BY <1>1, <2>2, <2>3, <2>4 DEF Evidence, RouteNeedsHandshake, Pending, Barred, Table
<1>13. CASE UNCHANGED vars
  BY <1>13 DEF vars, Evidence, RouteNeedsHandshake, Pending, Barred
<1> QED
  BY <1>2, <1>3, <1>4, <1>5, <1>6, <1>7, <1>8, <1>9, <1>10, <1>11, <1>12, <1>13
     DEF Next, Refresher, Monitor

-----------------------------------------------------------------------------
(* The routes and the table.  SetDirectPeers tells the rows of an answer   *)
(* apart by key alone, so that what follows is for a control plane that    *)
(* lists a key with one address, in all its answers, and no two keys of an *)
(* answer with the same.                                                   *)

\* The address a key is listed with.
Home(k) == CHOOSE a \in Address : \E f \in Maps : k \in DOMAIN f /\ f[k].addr = a

AddressesKept ==
  \A f \in Maps : /\ \A k \in DOMAIN f : f[k].addr = Home(k)
                  /\ \A j, k \in DOMAIN f : Home(j) = Home(k) => j = k

Owns(k) == \E a \in Address : dev.route[a] = k

\* Only a peer that is on the device has a route, and only to its own address; a
\* peer that is tracked shares it with none that is being removed.
AtHome ==
  /\ \A k \in tracked : entry[k].row.addr = Home(k)
  /\ \A x \in pass.todo : x.row.addr = Home(x.key)
  /\ \A a \in Address : dev.route[a] # Box => a = Home(dev.route[a]) /\ dev.route[a] \in dev.peers
  /\ \A j \in tracked, k \in refresh.remove : Home(j) # Home(k)
  /\ refresh.ready # {} => refresh.remove = {}

\* What an entry says of itself, and of the row that is being written for it.
Marks ==
  /\ \A k \in tracked : entry[k].promoted \/ entry[k].fresh > 0 => ~entry[k].blank
  /\ \A k \in tracked \cap InArm : entry[k].row = refresh.map[k]
  /\ \A k \in refresh.ready \ tracked : ~Owns(k)

\* A promotion that is still to be written is of an entry that says promoted, or
\* of one made anew from the same row, or of a peer that is gone for this pass;
\* and one that will fail is of a peer that has no route.
Promise(x) ==
  /\ x.key \in InArm => x.key \in tracked /\ x.row = refresh.map[x.key]
  /\ IF x.key \in tracked
     THEN entry[x.key].promoted \/ (entry[x.key].blank /\ refresh.recent /\ entry[x.key].row = x.row)
     ELSE refresh.recent
  /\ Owns(x.key) => x.row \notin Unrouted

Promises ==
  /\ \A x, y \in pass.todo : x.key = y.key => x = y
  /\ \A x \in pass.todo : x.what = "promote" => Promise(x)
  /\ \A x \in pass.todo : x.what = "demote" /\ x.key \in tracked => ~entry[x.key].promoted

\* Why a peer has its route.
Owed(k) ==
  \/ k \in tracked /\ entry[k].promoted
  \/ k \in tracked /\ entry[k].blank /\ dev.ever[k]
  \/ k \in Pending("demote") \cup refresh.remove \cup (InArm \ tracked)

Owing ==
  /\ \A k \in Key : Owns(k) => Owed(k)
  /\ \A k \in tracked : Owns(k) /\ (k \in InArm \/ entry[k].blank) => entry[k].row \notin Unrouted
  /\ \A k \in tracked \ (Pending("promote") \cup InArm) : entry[k].promoted => dev.route[Home(k)] = k

Truthful == AtHome /\ Marks /\ Promises /\ Owing

\* The rows of the map being written.
LEMMA RowsAtHome ==
  ASSUME Typed, AddressesKept
  PROVE  /\ \A k \in Wanted : refresh.map[k].addr = Home(k)
         /\ \A j, k \in Wanted : Home(j) = Home(k) => j = k
<1>1. refresh.map \in Maps \cup {NoMap}
  BY DEF Typed, RefreshState
<1>2. CASE refresh.map = NoMap
  BY <1>2 DEF NoMap, Wanted
<1>3. CASE refresh.map \in Maps
  BY <1>3 DEF Wanted, AddressesKept
<1> QED  BY <1>1, <1>2, <1>3

\* A write that takes a peer its route and no other peer anything.
LEMMA Cleared ==
  ASSUME Typed, NEW k \in Key, dev'.route = Replaced(k, {})
  PROVE  /\ ~Owns(k)'
         /\ \A a \in Address : dev'.route[a] # Box => dev'.route[a] = dev.route[a] /\ dev.route[a] # k
         /\ \A a \in Address : dev.route[a] # k => dev'.route[a] = dev.route[a]
         /\ \A j \in Key : Owns(j)' => Owns(j)
<1>1. dev.route \in [Address -> Key \cup {Box}] /\ Box \notin Key
  BY PeerAssumption DEF Typed, Device
<1>2. \A a \in Address : dev'.route[a] = IF dev.route[a] = k THEN Box ELSE dev.route[a]
  BY <1>1 DEF Replaced, RoutesOf
<1>3. \A j \in Key : Owns(j)' => Owns(j) /\ j # k
  BY <1>1, <1>2 DEF Owns
<1> QED  BY <1>1, <1>2, <1>3

\* The address of a peer that is tracked is its row's.
LEMMA TrackedHome ==
  ASSUME Typed, AtHome, NEW k \in tracked
  PROVE  k \in Key /\ Home(k) \in Address /\ entry[k] \in Entry /\ entry[k].row.addr = Home(k)
<1>1. k \in Key /\ entry[k] \in Entry
  BY DEF Typed, Table
<1>2. entry[k].row.addr \in Address
  BY <1>1 DEF Entry, Row
<1> QED  BY <1>1, <1>2 DEF AtHome

\* The device loses what it had of one peer, or only its route, and nothing else
\* changes but the refresher's lists (WriteRemove, WriteArm, ArmFailed).
LEMMA ClearedTruthful ==
  ASSUME IInv, Truthful, NEW k \in Key, dev'.route = Replaced(k, {}), UNCHANGED <<tracked, entry, pass>>,
         dev.peers \ {k} \subseteq dev'.peers, \A j \in Key \ {k} : dev'.ever[j] = dev.ever[j],
         refresh'.map = refresh.map, refresh'.recent = refresh.recent,
         refresh'.remove \subseteq refresh.remove, refresh.remove \subseteq refresh'.remove \cup {k},
         InArm' \subseteq InArm, InArm \subseteq InArm' \cup {k},
         refresh'.ready \subseteq refresh.ready \cup {k}, refresh'.ready # {} => refresh'.remove = {},
         k \in tracked => k \in InArm'
  PROVE  Truthful'
<1>1. Typed /\ tracked \subseteq Key
  BY DEF IInv, Typed, Table
<1>2. AtHome'
  BY <1>1, Cleared DEF Truthful, AtHome
<1>3. Marks'
  <2>1. \A j \in tracked \cap InArm' : entry[j].row = refresh.map[j]
    BY DEF Truthful, Marks
  <2>2. ASSUME NEW j \in refresh'.ready \ tracked  PROVE ~Owns(j)'
    <3>1. j \in Key /\ (j = k \/ j \in refresh.ready \ tracked)
      BY <1>1 DEF Typed, RefreshState
    <3> QED  BY <1>1, <3>1, Cleared DEF Truthful, Marks
  <2> QED  BY <2>1, <2>2 DEF Truthful, Marks
<1>4. \A x \in pass.todo : x.key \in Key
  BY <1>1, TodoTyped
<1>5. Promises'
  <2>1. ASSUME NEW x \in pass.todo, Promise(x)  PROVE Promise(x)'
    BY <1>1, <1>4, <2>1, Cleared DEF Promise
  <2> QED  BY <2>1 DEF Truthful, Promises
<1>6. Pending("promote")' = Pending("promote") /\ Pending("demote")' = Pending("demote")
  BY DEF Pending
<1>7. ASSUME NEW j \in Key, Owns(j)'  PROVE Owed(j)'
  <2>1. Owns(j) /\ j # k
    BY <1>1, <1>7, Cleared
  <2> QED  BY <1>6, <2>1 DEF Truthful, Owing, Owed
<1>8. ASSUME NEW j \in tracked, Owns(j)', j \in InArm' \/ entry[j].blank  PROVE entry[j].row \notin Unrouted
  BY <1>1, <1>8, Cleared DEF Truthful, Owing
<1>9. ASSUME NEW j \in tracked \ (Pending("promote") \cup InArm'), entry[j].promoted
      PROVE  dev'.route[Home(j)] = j
  <2>1. j # k /\ dev.route[Home(j)] = j
    BY <1>9 DEF Truthful, Owing
  <2>2. Home(j) \in Address
    BY <1>1, <1>9, TrackedHome DEF Truthful
  <2> QED  BY <1>1, <2>1, <2>2, Cleared
<1>10. Owing'
  BY <1>6, <1>7, <1>8, <1>9 DEF Owing
<1> QED  BY <1>2, <1>3, <1>5, <1>10 DEF Truthful

\* Nothing of the table, the routes or the refresher's lists changes
\* (Refreshed, ReadDevice, EndPass, the network).
LEMMA QuietTruthful ==
  ASSUME IInv, Truthful, UNCHANGED <<tracked, entry>>, dev'.route = dev.route, dev'.peers = dev.peers,
         \A j \in Key : dev.ever[j] => dev'.ever[j], pass'.todo = pass.todo,
         refresh'.map = refresh.map, refresh'.remove = refresh.remove, refresh'.rearm = refresh.rearm,
         refresh'.arm = refresh.arm, refresh'.ready = refresh.ready,
         pass.todo = {} \/ refresh'.recent = refresh.recent
  PROVE  Truthful'
<1>1. InArm' = InArm /\ \A k : Owns(k)' <=> Owns(k)
  BY DEF InArm, Owns
<1>2. AtHome' /\ Marks'
  BY <1>1 DEF Truthful, AtHome, Marks
<1>3. Promises'
  <2>1. ASSUME NEW x \in pass.todo, Promise(x)  PROVE Promise(x)'
    BY <1>1, <2>1 DEF Promise
  <2> QED  BY <2>1 DEF Truthful, Promises
<1>4. Pending("promote")' = Pending("promote") /\ Pending("demote")' = Pending("demote")
  BY DEF Pending
<1>5. \A k \in Key : Owed(k) => Owed(k)'
  BY <1>1, <1>4 DEF Owed
<1>6. Owing'
  BY <1>1, <1>4, <1>5 DEF Truthful, Owing
<1> QED  BY <1>2, <1>3, <1>6 DEF Truthful

\* A peer that is armed gets its entry, made anew if it had one (the second of
\* the two times SetDirectPeers lists it).
LEMMA TrackTruthful ==
  ASSUME IInv, Truthful, AddressesKept, NEW k \in Key, Track(k)
  PROVE  Truthful'
<1>1. Table /\ dev \in Device /\ refresh \in RefreshState /\ Typed
  BY DEF IInv, Typed
<1>2. PICK d : d = NewEntry(refresh.map[k])
  OBVIOUS
<1>3. d.row = refresh.map[k] /\ ~d.promoted /\ d.fresh = 0 /\ d.blank
  BY <1>2 DEF NewEntry
<1>4. /\ k \in refresh.ready /\ k \in Wanted /\ refresh.pc = "write" /\ refresh.recent
      /\ tracked' = tracked \cup {k} /\ UNCHANGED <<dev, pass>>
      /\ \A j \in Key : entry'[j] = IF j = k THEN d ELSE entry[j]
  BY <1>1, <1>2 DEF Track, Table, IInv, InStep, InArm
<1>5. /\ refresh'.map = refresh.map /\ refresh'.remove = refresh.remove /\ refresh'.recent = refresh.recent
      /\ refresh'.rearm = refresh.rearm /\ refresh'.arm = refresh.arm /\ refresh'.ready = {}
  BY <1>1 DEF Track, RefreshState
<1>6. InArm' \subseteq InArm /\ InArm \subseteq InArm' \cup {k} /\ k \in InArm
  <2>1. refresh.ready = {k}
    BY <1>4 DEF IInv, InStep
  <2> QED  BY <1>5, <2>1 DEF InArm
<1>7. refresh.map[k].addr = Home(k) /\ tracked \subseteq Wanted /\ tracked \subseteq Key
  BY <1>1, <1>4, RowsAtHome DEF IInv, InStep, Table
<1>8. Pending("promote")' = Pending("promote") /\ Pending("demote")' = Pending("demote")
      /\ \A j : Owns(j)' <=> Owns(j)
  BY <1>4 DEF Pending, Owns
<1>9. AtHome'
  <2>1. \A j \in refresh.remove : Home(j) # Home(k)
    \* Every removal is written before the first peer is armed.
    <3>1. refresh.remove = {}
      BY <1>4 DEF Truthful, AtHome
    <3> QED  BY <3>1
  <2> QED  BY <1>3, <1>4, <1>5, <1>7, <2>1 DEF Truthful, AtHome
<1>10. Marks'
  BY <1>3, <1>4, <1>5, <1>6, <1>7, <1>8 DEF Truthful, Marks
<1>11. Promises'
  <2>1. ASSUME NEW x \in pass.todo, Promise(x)  PROVE Promise(x)'
    <3>1. x.key \in Key
      BY <1>1, TodoTyped
    <3>2. CASE x.key = k
      <4>1. x.row = refresh.map[k] /\ k \in tracked /\ k \in tracked'
        BY <1>4, <1>6, <2>1, <3>2 DEF Promise
      <4>2. entry'[k].blank /\ refresh'.recent /\ entry'[k].row = x.row
        BY <1>3, <1>4, <1>5, <4>1
      <4> QED  BY <1>5, <1>8, <2>1, <3>2, <4>1, <4>2 DEF Promise
    <3>3. CASE x.key # k
      <4>1. entry'[x.key] = entry[x.key] /\ (x.key \in tracked' <=> x.key \in tracked)
            /\ (x.key \in InArm' <=> x.key \in InArm)
        BY <1>4, <1>6, <3>1, <3>3
      <4> QED  BY <1>5, <1>8, <2>1, <4>1 DEF Promise
    <3> QED  BY <3>2, <3>3
  <2>2. ASSUME NEW x \in pass.todo, x.what = "demote", x.key \in tracked'  PROVE ~entry'[x.key].promoted
    BY <1>1, <1>3, <1>4, <2>2, TodoTyped DEF Truthful, Promises
  <2> QED  BY <1>4, <2>1, <2>2 DEF Truthful, Promises
<1>12. Owns(k) => d.row \notin Unrouted /\ dev.ever[k]
  <2>1. Owns(k) => dev.ever[k]
    BY PeerAssumption DEF IInv, RouteNeedsHandshake, Owns
  <2>2. Owns(k) => k \in tracked
    BY <1>4 DEF Truthful, Marks
  <2> QED  BY <1>3, <1>6, <2>1, <2>2 DEF Truthful, Marks, Owing
<1>13. ASSUME NEW j \in Key, Owns(j)'  PROVE Owed(j)'
  <2>1. CASE j = k
    BY <1>3, <1>4, <1>8, <1>12, <1>13, <2>1 DEF Owed
  <2>2. CASE j # k
    <3>1. Owed(j)
      BY <1>8, <1>13 DEF Truthful, Owing
    <3> QED  BY <1>4, <1>5, <1>6, <1>8, <2>2, <3>1 DEF Owed
  <2> QED  BY <2>1, <2>2
<1>14. Owing'
  <2>1. ASSUME NEW j \in tracked', Owns(j)', j \in InArm' \/ entry'[j].blank  PROVE entry'[j].row \notin Unrouted
    <3>1. CASE j = k
      BY <1>4, <1>8, <1>12, <2>1, <3>1
    <3>2. CASE j # k
      BY <1>4, <1>6, <1>7, <1>8, <2>1, <3>2 DEF Truthful, Owing
    <3> QED  BY <3>1, <3>2
  <2>2. ASSUME NEW j \in tracked' \ (Pending("promote") \cup InArm'), entry'[j].promoted
        PROVE  dev.route[Home(j)] = j
    <3>1. j # k /\ j \in tracked /\ entry[j].promoted
      BY <1>3, <1>4, <1>7, <2>2
    <3> QED  BY <1>6, <2>2, <3>1 DEF Truthful, Owing
  <2> QED  BY <1>4, <1>8, <1>13, <2>1, <2>2 DEF Owing
<1> QED  BY <1>9, <1>10, <1>11, <1>14 DEF Truthful

\* The refresh of the table: entries that stay keep their marks, and what leaves
\* the table is on a list of what is still to be written (SetDirectPeers).
LEMMA RefreshTruthful ==
  ASSUME IInv, Truthful, AddressesKept, Refresh
  PROVE  Truthful'
<1>1. Table /\ Typed
  BY DEF IInv, Typed
<1>2. PICK f \in Maps :
        LET gone == tracked \ DOMAIN f
            changed == {k \in tracked \ gone : Changed(k, f)}
            kept == (tracked \ gone) \ changed
        IN /\ tracked' = kept
           /\ entry' = [k \in Key |-> IF k \in kept THEN Adopt(entry[k], f[k]) ELSE Blank]
           /\ refresh' = [pc |-> "write", map |-> f, remove |-> gone, rearm |-> changed,
                          arm |-> DOMAIN f \ kept, ready |-> {}, recent |-> TRUE]
  BY DEF Refresh
<1>3. /\ refresh.pc = "idle" /\ ~refresh.recent /\ UNCHANGED <<dev, pass>>
      /\ refresh.remove = {} /\ InArm = {}
  BY DEF Refresh, IInv, InStep
<1>4. /\ tracked' \subseteq tracked /\ tracked' \subseteq DOMAIN f
      /\ \A k \in tracked : k \in refresh'.remove <=> k \notin DOMAIN f
      /\ refresh'.remove \subseteq tracked
      /\ InArm' = DOMAIN f \ tracked'
      /\ \A k \in tracked : k \in tracked' <=> k \in DOMAIN f /\ ~Changed(k, f)
      /\ refresh'.recent /\ refresh'.ready = {} /\ refresh'.map = f
  <2>1. /\ refresh'.remove = tracked \ DOMAIN f
        /\ refresh'.rearm = {k \in tracked \cap DOMAIN f : Changed(k, f)}
        /\ tracked' = {k \in tracked \cap DOMAIN f : ~Changed(k, f)}
        /\ refresh'.arm = DOMAIN f \ tracked' /\ refresh'.ready = {} /\ refresh'.recent = TRUE
        /\ refresh'.map = f
    BY <1>2
  <2> QED  BY <2>1 DEF InArm
<1>5. /\ \A k \in DOMAIN f : f[k] \in Row /\ f[k].addr = Home(k)
      /\ \A j, k \in tracked : Home(j) = Home(k) => j = k
  BY <1>1, RowsAtHome, PeerAssumption DEF AddressesKept, IInv, InStep
<1>6. \A k \in tracked' : /\ entry'[k].row = f[k] /\ entry'[k].promoted = entry[k].promoted
                          /\ entry'[k].fresh = entry[k].fresh /\ entry'[k].blank = entry[k].blank
  <2> TAKE k \in tracked'
  <2>1. k \in Key /\ entry'[k] = Adopt(entry[k], f[k]) /\ entry[k] \in Entry
    BY <1>1, <1>2, <1>4 DEF Table
  <2>2. ASSUME NEW d \in Entry, NEW row
        PROVE  /\ Adopt(d, row).row = row /\ Adopt(d, row).promoted = d.promoted
               /\ Adopt(d, row).fresh = d.fresh /\ Adopt(d, row).blank = d.blank
    BY <2>2 DEF Adopt, Entry
  <2> QED  BY <2>1, <2>2
\* An entry that stays and was never promoted has the row it had.
<1>7. \A k \in tracked' : ~entry[k].promoted => f[k] = entry[k].row
  <2> TAKE k \in tracked'
  <2> HAVE ~entry[k].promoted
  <2>1. f[k].addr = entry[k].row.addr /\ f[k].cands = entry[k].row.cands
    BY <1>4 DEF Changed
  <2>2. f[k] \in Row /\ entry[k].row \in Row
    BY <1>1, <1>4, <1>5 DEF Table, Entry
  <2> QED  BY <2>1, <2>2 DEF Row
<1>8. Pending("promote")' = Pending("promote") /\ Pending("demote")' = Pending("demote")
      /\ \A j : Owns(j)' <=> Owns(j)
  BY <1>3 DEF Pending, Owns
<1>9. AtHome'
  <2>1. \A j \in tracked', k \in refresh'.remove : Home(j) # Home(k)
    BY <1>4, <1>5
  <2> QED  BY <1>3, <1>4, <1>5, <1>6, <2>1 DEF Truthful, AtHome
<1>10. Marks'
  BY <1>4, <1>6, <1>8 DEF Truthful, Marks
<1>11. Promises'
  <2>1. ASSUME NEW x \in pass.todo, Promise(x)  PROVE Promise(x)'
    <3>1. x.key \in tracked /\ entry[x.key].promoted
      BY <1>3, <2>1 DEF Promise
    <3>2. ~Changed(x.key, f) \/ x.key \notin DOMAIN f
      BY <1>5, <3>1 DEF Changed, Truthful, AtHome
    <3>3. x.key \notin InArm' /\ (x.key \in tracked' => entry'[x.key].promoted)
      BY <1>4, <1>6, <3>1, <3>2
    <3> QED  BY <1>4, <1>8, <2>1, <3>3 DEF Promise
  <2>2. ASSUME NEW x \in pass.todo, x.what = "demote", x.key \in tracked'  PROVE ~entry'[x.key].promoted
    BY <1>4, <1>6, <2>2 DEF Truthful, Promises
  <2> QED  BY <1>3, <2>1, <2>2 DEF Truthful, Promises
<1>12. ASSUME NEW j \in Key, Owns(j)'  PROVE Owed(j)'
  <2>1. Owed(j) /\ j \notin refresh.remove /\ j \notin InArm
    BY <1>3, <1>8, <1>12 DEF Truthful, Owing
  <2>2. CASE j \in Pending("demote")
    BY <1>8, <2>2 DEF Owed
  <2>3. CASE j \in tracked /\ (entry[j].promoted \/ (entry[j].blank /\ dev.ever[j]))
    <3>1. CASE j \in tracked'
      BY <1>3, <1>6, <2>3, <3>1 DEF Owed
    <3>2. CASE j \notin tracked'
      BY <1>4, <2>3, <3>2 DEF Owed
    <3> QED  BY <3>1, <3>2
  <2> QED  BY <2>1, <2>2, <2>3 DEF Owed
<1>13. Owing'
  <2>1. ASSUME NEW j \in tracked', Owns(j)', j \in InArm' \/ entry'[j].blank  PROVE entry'[j].row \notin Unrouted
    <3>1. j \in tracked /\ entry[j].blank
      BY <1>4, <1>6, <2>1
    <3>2. entry'[j].row = entry[j].row
      BY <1>6, <1>7, <3>1 DEF Truthful, Marks
    <3> QED  BY <1>8, <2>1, <3>1, <3>2 DEF Truthful, Owing
  <2>2. ASSUME NEW j \in tracked' \ (Pending("promote") \cup InArm'), entry'[j].promoted
        PROVE  dev.route[Home(j)] = j
    BY <1>3, <1>4, <1>6, <2>2 DEF Truthful, Owing
  <2> QED  BY <1>3, <1>8, <1>12, <2>1, <2>2 DEF Owing
<1> QED  BY <1>9, <1>10, <1>11, <1>13 DEF Truthful

\* punchTrain.restart leaves what the entry says of the path alone.
LEMMA RestartMarks ==
  ASSUME NEW d \in Entry
  PROVE  /\ Restart(d) \in Entry /\ Restart(d).row = d.row
         /\ Restart(d).blank = d.blank /\ Restart(d).promoted = d.promoted
<1>1. PICK n : Restart(d) = [d EXCEPT !.attempts = 0, !.gaveUp = FALSE, !.next = n]
  BY DEF Restart
<1> QED  BY <1>1, RestartTyped DEF Entry

\* What is written for a peer is of the row its entry has, once, and agrees with
\* what the entry says from then on (reconcileDirectPeers).
LEMMA DecisionMarks ==
  ASSUME Typed, Evidence, Marks, NEW k \in tracked
  PROVE  /\ Decision(k).d.row = entry[k].row
         /\ Decision(k).d.blank = (entry[k].blank /\ ~pass.ever[k])
         /\ Decision(k).d.promoted \/ Decision(k).d.fresh > 0 => ~Decision(k).d.blank
         /\ entry[k].blank /\ pass.ever[k] => Decision(k).d.promoted
         /\ \A x, y \in Decision(k).todo : x = y
         /\ \A x \in Decision(k).todo :
              /\ x.key = k /\ x.row = entry[k].row
              /\ x.what = "promote" => ~entry[k].promoted /\ Decision(k).d.promoted
              /\ x.what = "demote" => ~Decision(k).d.promoted
         /\ Decision(k).d.promoted /\ ~entry[k].promoted => \E x \in Decision(k).todo : x.what = "promote"
         /\ ~Decision(k).d.promoted /\ entry[k].promoted => \E x \in Decision(k).todo : x.what = "demote"
<1> DEFINE alive == NewHandshake(k) \/ (entry[k].promoted /\ "rx" \in pass.news[k])
           f == IF alive THEN DeadAfter ELSE IF entry[k].fresh > 0 THEN entry[k].fresh - 1 ELSE 0
           n == IF entry[k].rest > 0 THEN entry[k].rest - 1 ELSE 0
<1>1. k \in Key /\ entry[k] \in Entry
  BY DEF Typed, Table
<1>a. PICK d : d = Observed(k)
  OBVIOUS
<1>b. PICK t : t = IF d.gaveUp /\ d.rest = 0 THEN Restart(d) ELSE d
  OBVIOUS
<1>2. /\ d \in Entry /\ d.row = entry[k].row /\ d.promoted = entry[k].promoted
      /\ d.blank = (entry[k].blank /\ ~pass.ever[k]) /\ d.fresh = f
  <2>1. PICK b \in BOOLEAN : b = (entry[k].blank /\ ~pass.ever[k])
    OBVIOUS
  <2>2. d = [entry[k] EXCEPT !.fresh = f, !.blank = b, !.rest = n]
    BY <1>a, <2>1, Zenon DEF Observed
  <2> HIDE DEF f, n
  <2>3. d \in Entry
    BY <1>a, ObservedTyped
  <2> QED  BY <1>1, <2>1, <2>2, <2>3 DEF Entry
<1>3. d.fresh \in Nat /\ d.promoted \in BOOLEAN /\ DeadAfter \in Nat \ {0}
  BY <1>2, PeerAssumption DEF Entry
\* Evidence is of a handshake the pass has read, or that one before it has read.
<1>4. /\ alive => pass.ever[k]
      /\ d.promoted \/ d.fresh > 0 => ~d.blank
      /\ entry[k].blank /\ pass.ever[k] => d.fresh > 0 /\ ~d.promoted
  <2>1. entry[k].promoted \/ entry[k].fresh > 0 => ~entry[k].blank
    BY DEF Marks
  <2>2. alive => pass.ever[k]
    BY <1>1 DEF NewHandshake, Evidence
  <2>3. entry[k].blank /\ pass.ever[k] => alive
    BY DEF NewHandshake
  <2>4. entry[k].fresh \in Nat
    BY <1>1, PeerAssumption DEF Entry
  <2> HIDE DEF alive
  <2>5. f > 0 => alive \/ entry[k].fresh > 0
    BY <2>4
  <2>6. alive => f > 0
    BY <1>3
  <2> HIDE DEF f
  <2> QED  BY <1>2, <2>1, <2>2, <2>3, <2>5, <2>6
<1> HIDE DEF alive, f, n
<1>5. t \in Entry /\ t.row = d.row /\ t.blank = d.blank /\ t.promoted = d.promoted
  BY <1>b, <1>2, RestartMarks
<1>6. ASSUME NEW what, NEW e, e.row = entry[k].row
      PROVE  Action(k, what, e).key = k /\ Action(k, what, e).what = what /\ Action(k, what, e).row = entry[k].row
  BY <1>6 DEF Action
<1>7. CASE d.fresh > 0 /\ ~d.promoted
  <2>r. PICK r : r = [d EXCEPT !.promoted = TRUE]
    OBVIOUS
  <2>1. Decision(k) = [d |-> r, todo |-> {Action(k, "promote", d)}]
    BY <1>a, <1>3, <1>7, <2>r DEF Decision
  <2>2. r.row = d.row /\ r.blank = d.blank /\ r.promoted
    BY <1>2, <2>r DEF Entry
  <2> QED  BY <1>2, <1>4, <1>6, <1>7, <2>1, <2>2
<1>8. CASE d.fresh = 0 /\ d.promoted
  <2>r. PICK r : r = [d EXCEPT !.promoted = FALSE, !.rest = RearmAfter]
    OBVIOUS
  <2>1. Decision(k) = [d |-> Restart(r), todo |-> {Action(k, "demote", d)}]
    BY <1>a, <1>3, <1>8, <2>r DEF Decision
  <2>2. r \in Entry /\ r.row = d.row /\ r.blank = d.blank /\ ~r.promoted
    <3>1. RearmAfter \in 0..RearmAfter
      BY PeerAssumption
    <3>2. r \in Entry
      BY <1>2, <2>r, <3>1, EntrySet
    <3> QED  BY <1>2, <2>r, <3>2 DEF Entry
  <2>3. Restart(r).row = r.row /\ Restart(r).blank = r.blank /\ Restart(r).promoted = r.promoted
    BY <2>2, RestartMarks
  <2> QED  BY <1>2, <1>4, <1>6, <1>8, <2>1, <2>2, <2>3
<1>9. CASE d.fresh = 0 /\ ~d.promoted /\ Due(t)
  <2>1. Decision(k) = [d |-> Attempted(t), todo |-> {Action(k, "punch", t)}]
    BY <1>a, <1>b, <1>3, <1>9 DEF Decision
  <2>2. Attempted(t).row = t.row /\ Attempted(t).blank = t.blank /\ Attempted(t).promoted = t.promoted
        /\ Attempted(t).fresh = t.fresh
    BY <1>5 DEF Attempted, Entry
  <2>3. Decision(k).d.fresh = d.fresh
    BY <1>a, DecisionTyped
  <2> QED  BY <1>2, <1>4, <1>5, <1>6, <1>9, <2>1, <2>2, <2>3
<1>10. CASE d.fresh = 0 /\ ~d.promoted /\ ~Due(t)
  <2>1. Decision(k) = [d |-> Spent(t), todo |-> {}]
    BY <1>a, <1>b, <1>3, <1>10 DEF Decision
  <2>2. Spent(t).row = t.row /\ Spent(t).blank = t.blank /\ Spent(t).promoted = t.promoted
    BY <1>5 DEF Spent, Entry
  <2>3. Decision(k).d.fresh = d.fresh
    BY <1>a, DecisionTyped
  <2> QED  BY <1>2, <1>4, <1>5, <1>10, <2>1, <2>2, <2>3
<1>11. CASE d.fresh > 0 /\ d.promoted
  <2>1. Decision(k) = [d |-> d, todo |-> {}]
    BY <1>a, <1>b, <1>3, <1>11 DEF Decision
  <2> QED  BY <1>2, <1>4, <1>11, <2>1
<1>12. d.fresh = 0 \/ d.fresh > 0
  BY <1>3
<1> QED  BY <1>3, <1>7, <1>8, <1>9, <1>10, <1>11, <1>12

\* The decisions of a pass, under the lock: what an entry says and what is left
\* to write for it change in the same step.
LEMMA DecideTruthful ==
  ASSUME IInv, Truthful, Decide
  PROVE  Truthful'
<1>1. Table /\ Typed /\ dev \in Device /\ pass \in PassState /\ tracked \subseteq Key
  BY DEF IInv, Typed, Table
<1>2. /\ UNCHANGED <<tracked, refresh>> /\ pass.todo = {} /\ InArm' = InArm
      /\ pass'.todo = UNION {Decision(k).todo : k \in tracked}
      /\ \A k \in tracked : entry'[k] = Decision(k).d
  BY <1>1 DEF Decide, PassState, IInv, Evidence, Table, InArm
<1>3. dev'.route = dev.route /\ dev'.peers = dev.peers /\ dev'.ever = dev.ever /\ \A j : Owns(j)' <=> Owns(j)
  BY <1>1 DEF Decide, Device, Owns
<1>4. \A k \in tracked : Home(k) \in Address /\ entry[k].row.addr = Home(k)
  BY <1>1, TrackedHome DEF Truthful
<1>5. ASSUME NEW k \in tracked
      PROVE  /\ entry'[k].row = entry[k].row /\ entry'[k].blank = (entry[k].blank /\ ~pass.ever[k])
             /\ entry'[k].promoted \/ entry'[k].fresh > 0 => ~entry'[k].blank
             /\ entry[k].blank /\ pass.ever[k] => entry'[k].promoted
  BY <1>2, DecisionMarks DEF IInv, Truthful
<1>6. ASSUME NEW x \in pass'.todo
      PROVE  /\ x.key \in tracked /\ x \in Decision(x.key).todo /\ x.row = entry[x.key].row
             /\ x.what = "promote" => ~entry[x.key].promoted /\ entry'[x.key].promoted
             /\ x.what = "demote" => ~entry'[x.key].promoted
  <2>1. PICK k \in tracked : x \in Decision(k).todo
    BY <1>2
  <2> QED  BY <1>2, <2>1, DecisionMarks DEF IInv, Truthful
<1>7. ASSUME NEW k \in tracked
      PROVE  /\ entry'[k].promoted /\ ~entry[k].promoted => k \in Pending("promote")'
             /\ ~entry'[k].promoted /\ entry[k].promoted => k \in Pending("demote")'
  <2>1. \A x \in Decision(k).todo : x \in pass'.todo /\ x.key = k
    BY <1>2, DecisionMarks DEF IInv, Truthful
  <2> QED  BY <1>2, <2>1, DecisionMarks DEF IInv, Truthful, Pending
\* With nothing left to write, a peer that has its route is tracked and says so,
\* or is new, or is about to be removed or armed.
<1>8. ASSUME NEW k \in tracked, Owns(k)
      PROVE  entry[k].promoted \/ (entry[k].blank /\ dev.ever[k] /\ entry[k].row \notin Unrouted)
             \/ k \in refresh.remove
  <2>1. Owed(k) /\ k \notin Pending("demote")
    BY <1>1, <1>2, <1>8 DEF Truthful, Owing, Pending
  <2> QED  BY <1>1, <1>8, <2>1 DEF Truthful, Owing, Owed
<1>9. \A k \in tracked : k \notin refresh.remove
  BY DEF IInv, InStep
<1>10. AtHome'
  <2>1. \A x \in pass'.todo : x.row.addr = Home(x.key)
    BY <1>4, <1>6
  <2>2. \A k \in tracked : entry'[k].row.addr = Home(k)
    BY <1>4, <1>5
  <2> QED  BY <1>2, <1>3, <2>1, <2>2 DEF Truthful, AtHome
<1>11. Marks'
  <2>1. \A k \in tracked : entry'[k].promoted \/ entry'[k].fresh > 0 => ~entry'[k].blank
    BY <1>5
  <2>2. \A k \in tracked \cap InArm : entry'[k].row = refresh.map[k]
    BY <1>5 DEF Truthful, Marks
  <2> QED  BY <1>2, <1>3, <2>1, <2>2 DEF Truthful, Marks
<1>12. Promises'
  <2>1. ASSUME NEW x \in pass'.todo, NEW y \in pass'.todo, x.key = y.key  PROVE x = y
    BY <1>6, <2>1, DecisionMarks DEF IInv, Truthful
  <2>2. ASSUME NEW x \in pass'.todo, x.what = "promote"  PROVE Promise(x)'
    <3>1. x.key \in tracked /\ x.row = entry[x.key].row /\ ~entry[x.key].promoted /\ entry'[x.key].promoted
      BY <1>6, <2>2
    <3>2. x.key \in InArm' => x.row = refresh'.map[x.key]
      BY <1>2, <3>1 DEF Truthful, Marks
    <3>3. Owns(x.key)' => x.row \notin Unrouted
      BY <1>3, <1>8, <1>9, <3>1
    <3> QED  BY <1>2, <3>1, <3>2, <3>3 DEF Promise
  <2>3. ASSUME NEW x \in pass'.todo, x.what = "demote", x.key \in tracked'  PROVE ~entry'[x.key].promoted
    BY <1>6, <2>3
  <2> QED  BY <2>1, <2>2, <2>3 DEF Promises
<1>13. ASSUME NEW k \in Key, Owns(k)'  PROVE Owed(k)'
  <2>1. Owns(k) /\ Owed(k)
    BY <1>3, <1>13 DEF Truthful, Owing
  <2>2. CASE k \in tracked
    <3>1. CASE entry[k].promoted
      BY <1>2, <1>7, <2>2, <3>1 DEF Owed
    <3>2. CASE entry[k].blank /\ dev.ever[k]
      BY <1>2, <1>3, <1>5, <2>2, <3>2 DEF Owed
    <3> QED  BY <1>8, <1>9, <2>1, <2>2, <3>1, <3>2
  <2>3. CASE k \notin tracked
    <3>1. k \notin Pending("demote")
      BY <1>2 DEF Pending
    <3> QED  BY <1>2, <2>1, <2>3, <3>1 DEF Owed
  <2> QED  BY <2>2, <2>3
<1>14. Owing'
  <2>1. ASSUME NEW k \in tracked, Owns(k)', k \in InArm \/ entry'[k].blank  PROVE entry'[k].row \notin Unrouted
    BY <1>3, <1>5, <2>1 DEF Truthful, Owing
  <2>2. ASSUME NEW k \in tracked \ (Pending("promote")' \cup InArm), entry'[k].promoted
        PROVE  dev'.route[Home(k)] = k
    <3>1. entry[k].promoted /\ k \notin Pending("promote")
      BY <1>2, <1>7, <2>2 DEF Pending
    <3> QED  BY <1>3, <2>2, <3>1 DEF Truthful, Owing
  <2> QED  BY <1>2, <1>13, <2>1, <2>2 DEF Owing
<1> QED  BY <1>10, <1>11, <1>12, <1>14 DEF Truthful

\* The promotion of a peer that the device still has gives it its route, and takes
\* it from none that says promoted; of one that is gone, nothing.
LEMMA WritePromoteTruthful ==
  ASSUME IInv, Truthful, AddressesKept, NEW x \in pass.todo, WritePromote(x)
  PROVE  Truthful'
<1> DEFINE k == x.key
<1>1. Table /\ Typed /\ dev \in Device /\ pass \in PassState /\ tracked \subseteq Key
  BY DEF IInv, Typed, Table
<1>2. x.what = "promote" /\ x.row \notin Unrouted /\ UNCHANGED <<tracked, entry, refresh>> /\ InArm' = InArm
  BY DEF WritePromote, InArm
<1>3. x \in Todo /\ k \in Key /\ x.row \in Row /\ x.row.addr \in Address /\ x.aim \in Endpoint
  BY <1>1, TodoTyped
<1>4. dev'.peers = dev.peers /\ dev'.ever = dev.ever
      /\ dev'.route = IF k \in dev.peers THEN Replaced(k, {Home(k)}) ELSE dev.route
  <2>1. DevicePromote(k, x.row.addr) /\ x.row.addr = Home(k)
    BY DEF WritePromote, Truthful, AtHome
  <2> HIDE DEF k
  <2>2. Typed /\ k \in Key /\ x.row \in Row /\ x.row.addr \in Address /\ x.aim \in Endpoint
    BY <1>1, <1>3 DEF k
  <2>3. dev'.peers = dev.peers /\ dev'.ever = dev.ever
        /\ dev'.route = IF k \in dev.peers THEN Replaced(k, {x.row.addr}) ELSE dev.route
    BY <2>1, <2>2, DeviceWrites
  <2> QED  BY <2>1, <2>3
<1>5. PICK y : y = [x EXCEPT !.what = "winner"]
  OBVIOUS
<1>6. y.key = k /\ y.what = "winner" /\ y.row = x.row
  BY <1>3, <1>5 DEF Todo
<1>7. pass'.todo = (pass.todo \ {x}) \cup {y}
  BY <1>1, <1>5 DEF WritePromote, PassState
<1>8. Promise(x) /\ \A z \in pass.todo : z.key = k => z = x
  BY <1>2 DEF Truthful, Promises
<1>9. /\ Pending("demote")' = Pending("demote") /\ Pending("promote")' \subseteq Pending("promote")
      /\ Pending("promote") \subseteq Pending("promote")' \cup {k}
  BY <1>2, <1>6, <1>7 DEF Pending
<1>10. Home(k) \in Address
  BY <1>3 DEF Truthful, AtHome
<1>11. dev.route \in [Address -> Key \cup {Box}] /\ Box \notin Key
  BY <1>1, PeerAssumption DEF Device
<1>12. \A a \in Address : IF k \in dev.peers /\ a = Home(k) THEN dev'.route[a] = k ELSE dev'.route[a] = dev.route[a]
  <2>1. \A a \in Address : dev.route[a] = k => a = Home(k)
    BY <1>3, <1>11 DEF Truthful, AtHome
  <2> QED  BY <1>4, <1>11, <2>1 DEF Replaced, RoutesOf
<1>13. \A j \in Key : Owns(j)' => Owns(j) \/ (j = k /\ k \in dev.peers)
  BY <1>12 DEF Owns
\* A peer the device still has, and has a promotion for, is tracked or listed
\* for removal: it is on no list of what is to be armed.
<1>14. k \in dev.peers =>
         /\ k \in tracked \/ k \in refresh.remove
         /\ k \in tracked => entry[k].promoted \/ (entry[k].blank /\ entry[k].row = x.row)
         /\ k \in tracked \cap InArm => entry[k].row = x.row
         /\ dev.ever[k]
  <2>1. k \in dev.peers => k \in tracked \cup refresh.remove \cup InArm
    BY DEF IInv, InStep
  <2>2. k \in dev.peers => dev.ever[k]
    <3>1. k \in Pending("promote")
      BY <1>2 DEF Pending
    <3> QED  BY <1>3, <3>1 DEF IInv, Evidence, Barred
  <2> QED  BY <1>8, <2>1, <2>2 DEF Promise, Truthful, Marks
<1>15. AtHome'
  <2>1. \A z \in pass'.todo : z.row.addr = Home(z.key)
    BY <1>6, <1>7 DEF Truthful, AtHome
  <2> QED  BY <1>2, <1>4, <1>12, <2>1 DEF Truthful, AtHome
<1>16. Marks'
  <2>1. \A j \in refresh.ready \ tracked : j \in Key /\ j \in InArm /\ ~Owns(j)
    BY <1>1 DEF Truthful, Marks, InArm, Typed, RefreshState
  <2>2. k \notin refresh.ready \ tracked
    BY <1>8, <2>1 DEF Promise
  <2>3. \A j \in refresh.ready \ tracked : ~Owns(j)'
    BY <1>13, <2>1, <2>2
  <2> QED  BY <1>2, <2>3 DEF Truthful, Marks
<1>17. Promises'
  <2>1. \A z \in pass'.todo : z = y \/ (z \in pass.todo /\ z.key # k)
    BY <1>7, <1>8
  <2>2. ASSUME NEW z \in pass'.todo, z.what = "promote"  PROVE Promise(z)'
    <3>1. z \in pass.todo /\ z.key # k /\ Promise(z)
      BY <1>6, <2>1, <2>2 DEF Truthful, Promises
    <3>2. z.key \in Key
      BY <1>1, <3>1, TodoTyped
    <3> QED  BY <1>2, <1>13, <3>1, <3>2 DEF Promise
  <2> QED  BY <1>2, <1>6, <2>1, <2>2 DEF Truthful, Promises
<1>18. ASSUME NEW j \in Key, Owns(j)'  PROVE Owed(j)'
  <2>1. CASE j = k /\ k \in dev.peers
    <3>1. dev'.ever[k]
      BY <1>4, <1>14, <2>1
    <3>2. CASE k \in tracked
      BY <1>2, <1>14, <2>1, <3>1, <3>2 DEF Owed
    <3>3. CASE k \in refresh.remove
      BY <1>2, <2>1, <3>3 DEF Owed
    <3> QED  BY <1>14, <2>1, <3>2, <3>3
  <2>2. CASE Owns(j)
    BY <1>2, <1>4, <1>9, <2>2 DEF Truthful, Owing, Owed
  <2> QED  BY <1>13, <1>18, <2>1, <2>2
<1>19. Owing'
  <2>1. ASSUME NEW j \in tracked, Owns(j)', j \in InArm \/ entry[j].blank  PROVE entry[j].row \notin Unrouted
    <3>1. CASE j = k /\ k \in dev.peers
      <4>1. entry[k].row = x.row
        BY <1>14, <2>1, <3>1 DEF Truthful, Marks
      <4> QED  BY <1>2, <3>1, <4>1
    <3>2. CASE Owns(j)
      BY <2>1, <3>2 DEF Truthful, Owing
    <3> QED  BY <1>1, <1>13, <2>1, <3>1, <3>2
  <2>2. ASSUME NEW j \in tracked \ (Pending("promote")' \cup InArm), entry[j].promoted
        PROVE  dev'.route[Home(j)] = j
    <3>1. Home(j) \in Address /\ j \in Wanted /\ j \in dev.peers
      BY <1>1, TrackedHome DEF Truthful, IInv, InStep
    <3>2. CASE j = k
      BY <1>10, <1>12, <3>1, <3>2
    <3>3. CASE j # k
      <4>1. dev.route[Home(j)] = j
        BY <1>9, <2>2, <3>3 DEF Truthful, Owing
      <4>2. k \in dev.peers => Home(j) # Home(k)
        BY <1>1, <1>14, <3>1, <3>3, RowsAtHome DEF IInv, InStep, Truthful, AtHome
      <4> QED  BY <1>12, <3>1, <4>1, <4>2
    <3> QED  BY <3>2, <3>3
  <2> QED  BY <1>2, <1>18, <2>1, <2>2 DEF Owing
<1> QED  BY <1>15, <1>16, <1>17, <1>19 DEF Truthful

\* The other writes: a promotion that failed, a demotion, a punch, and the note of
\* where the peer answered.
LEMMA WriteTruthful ==
  ASSUME IInv, Truthful, NEW x \in pass.todo,
         PromoteFailed(x) \/ NoteWinner(x) \/ WriteDemote(x) \/ WritePunch(x)
  PROVE  Truthful'
<1> DEFINE k == x.key
<1>1. Table /\ Typed /\ dev \in Device /\ pass \in PassState /\ tracked \subseteq Key
  BY DEF IInv, Typed, Table
<1>2. UNCHANGED <<tracked, refresh>> /\ InArm' = InArm
  BY DEF PromoteFailed, NoteWinner, WriteDemote, WritePunch, InArm
<1>3. x \in Todo /\ k \in Key /\ x.row \in Row /\ x.row.addr \in Address /\ x.aim \in Endpoint
  BY <1>1, TodoTyped
<1>4. pass'.todo = pass.todo \ {x}
  BY <1>1 DEF PromoteFailed, NoteWinner, WriteDemote, WritePunch, Done, PassState
<1>5. ASSUME NEW j \in tracked
      PROVE  /\ entry'[j].row = entry[j].row /\ entry'[j].blank = entry[j].blank
             /\ entry'[j].fresh = entry[j].fresh
             /\ IF PromoteFailed(x) /\ j = k THEN ~entry'[j].promoted ELSE entry'[j].promoted = entry[j].promoted
  <2>1. \A i \in tracked : i \in Key /\ entry[i] \in Entry
    BY <1>1 DEF Table
  <2>2. x.what = "promote" \/ ~PromoteFailed(x)
    BY DEF PromoteFailed
  <2>3. CASE PromoteFailed(x)
    BY <1>1, <1>5, <2>1, <2>3 DEF PromoteFailed, Table, Entry
  <2>4. CASE NoteWinner(x)
    <3>1. ~PromoteFailed(x)
      BY <2>4 DEF PromoteFailed, NoteWinner
    <3>2. PICK w : entry' = IF k \in tracked THEN [entry EXCEPT ![k].winner = w] ELSE entry
      BY <2>4, Zenon DEF NoteWinner
    <3> QED  BY <1>1, <1>5, <2>1, <3>1, <3>2 DEF Table, Entry
  <2>5. CASE WriteDemote(x) \/ WritePunch(x)
    BY <2>5 DEF PromoteFailed, WriteDemote, WritePunch
  <2> QED  BY <2>3, <2>4, <2>5
<1>6. /\ dev'.peers = dev.peers /\ dev'.ever = dev.ever
      /\ \/ dev'.route = dev.route
         \/ dev'.route = Replaced(k, {}) /\ WriteDemote(x)
      /\ WriteDemote(x) /\ k \in dev.peers => dev'.route = Replaced(k, {})
  <2>1. CASE PromoteFailed(x) \/ NoteWinner(x)
    BY <2>1 DEF PromoteFailed, NoteWinner, WriteDemote
  <2>2. CASE WriteDemote(x)
    BY <1>1, <1>3, <2>2, DeviceWrites DEF WriteDemote
  <2>3. CASE WritePunch(x)
    BY <1>1, <1>3, <2>3, DeviceWrites DEF WritePunch, WriteDemote
  <2> QED  BY <2>1, <2>2, <2>3
<1>7. \A j \in Key : Owns(j)' => Owns(j)
  BY <1>1, <1>3, <1>6, Cleared DEF Owns
<1>8. \A a \in Address : /\ dev'.route[a] # Box => dev'.route[a] = dev.route[a]
                         /\ dev.route[a] # k => dev'.route[a] = dev.route[a]
  BY <1>1, <1>3, <1>6, Cleared
<1>9. x.what = "promote" => PromoteFailed(x)
  BY DEF NoteWinner, WriteDemote, WritePunch
<1>10. \A z \in pass'.todo : z \in pass.todo /\ z.key # k
  BY <1>4 DEF Truthful, Promises
<1>11. /\ Pending("promote")' \subseteq Pending("promote") /\ Pending("demote")' \subseteq Pending("demote")
       /\ \A j \in Pending("promote") : (j = k /\ x.what = "promote") \/ j \in Pending("promote")'
       /\ \A j \in Pending("demote") : (j = k /\ x.what = "demote") \/ j \in Pending("demote")'
  BY <1>4 DEF Pending
\* A promotion fails for a peer that has no route.
<1>12. PromoteFailed(x) => ~Owns(k)
  BY DEF PromoteFailed, Truthful, Promises, Promise
\* A demotion leaves the peer no route: one that is not on the device has none.
<1>13. x.what = "demote" => ~Owns(k)'
  <2>1. CASE k \in dev.peers /\ x.what = "demote"
    <3>1. WriteDemote(x)
      BY <2>1 DEF PromoteFailed, NoteWinner, WritePunch
    <3> QED  BY <1>1, <1>3, <1>6, <2>1, <3>1, Cleared
  <2>2. CASE k \notin dev.peers
    <3>1. ~Owns(k)
      BY <1>3, <2>2, PeerAssumption DEF Owns, Truthful, AtHome
    <3> QED  BY <1>3, <1>7, <3>1
  <2> QED  BY <2>1, <2>2
<1>14. AtHome'
  <2>1. \A j \in tracked : entry'[j].row.addr = Home(j)
    BY <1>5 DEF Truthful, AtHome
  <2> QED  BY <1>2, <1>6, <1>8, <1>10, <2>1 DEF Truthful, AtHome
<1>15. Marks'
  <2>1. \A j \in tracked : entry'[j].promoted \/ entry'[j].fresh > 0 => ~entry'[j].blank
    BY <1>5 DEF Truthful, Marks
  <2>2. \A j \in tracked \cap InArm : entry'[j].row = refresh.map[j]
    BY <1>5 DEF Truthful, Marks
  <2>3. \A j \in refresh.ready \ tracked : ~Owns(j)'
    BY <1>1, <1>7 DEF Truthful, Marks, Typed, RefreshState
  <2> QED  BY <1>2, <2>1, <2>2, <2>3 DEF Marks
<1>16. Promises'
  <2>1. ASSUME NEW z \in pass'.todo, z.what = "promote"  PROVE Promise(z)'
    <3>1. z \in pass.todo /\ z.key # k /\ Promise(z) /\ z.key \in Key
      BY <1>1, <1>10, <2>1, TodoTyped DEF Truthful, Promises
    <3>2. z.key \in tracked => /\ entry'[z.key].promoted = entry[z.key].promoted
                              /\ entry'[z.key].blank = entry[z.key].blank /\ entry'[z.key].row = entry[z.key].row
      BY <1>5, <3>1
    <3> QED  BY <1>2, <1>7, <3>1, <3>2 DEF Promise
  <2>2. ASSUME NEW z \in pass'.todo, z.what = "demote", z.key \in tracked'  PROVE ~entry'[z.key].promoted
    BY <1>2, <1>5, <1>10, <2>2 DEF Truthful, Promises
  <2> QED  BY <1>10, <2>1, <2>2 DEF Truthful, Promises
<1>17. ASSUME NEW j \in Key, Owns(j)'  PROVE Owed(j)'
  <2>1. Owns(j) /\ Owed(j)
    BY <1>7, <1>17 DEF Truthful, Owing
  <2>2. j \in tracked => entry'[j].promoted = entry[j].promoted /\ entry'[j].blank = entry[j].blank
    BY <1>5, <1>12, <2>1
  <2>3. j \in Pending("demote") => j \in Pending("demote")'
    BY <1>11, <1>13, <1>17
  <2> QED  BY <1>2, <1>6, <2>1, <2>2, <2>3 DEF Owed
<1>18. Owing'
  <2>1. ASSUME NEW j \in tracked, Owns(j)', j \in InArm \/ entry'[j].blank  PROVE entry'[j].row \notin Unrouted
    BY <1>1, <1>5, <1>7, <2>1 DEF Truthful, Owing
  <2>2. ASSUME NEW j \in tracked \ (Pending("promote")' \cup InArm), entry'[j].promoted
        PROVE  dev'.route[Home(j)] = j
    <3>1. entry[j].promoted /\ j \notin Pending("promote")
      BY <1>5, <1>9, <1>11, <2>2
    <3>2. dev.route[Home(j)] = j /\ Home(j) \in Address
      BY <1>1, <2>2, <3>1, TrackedHome DEF Truthful, Owing
    <3>3. CASE j # k
      BY <1>8, <3>2, <3>3
    <3>4. CASE j = k
      <4>1. ~WriteDemote(x)
        BY <2>2, <3>1, <3>4 DEF WriteDemote, Truthful, Promises
      <4> QED  BY <1>6, <3>2, <4>1
    <3> QED  BY <3>3, <3>4
  <2> QED  BY <1>2, <1>17, <2>1, <2>2 DEF Owing
<1> QED  BY <1>14, <1>15, <1>16, <1>18 DEF Truthful

\* What the network leaves of the device.
LEMMA NetworkDevice ==
  ASSUME Typed, NEW k \in Key, Handshake(k) \/ Roam(k) \/ Keepalive(k) \/ PathChanges(k)
  PROVE  dev'.peers = dev.peers /\ dev'.route = dev.route /\ \A j \in Key : dev.ever[j] => dev'.ever[j]
<1>1. dev \in Device
  BY DEF Typed
<1>2. CASE Handshake(k)
  BY <1>1, <1>2 DEF Handshake, Device
<1>3. CASE Roam(k)
  <2>1. dev'.peers = dev.peers /\ dev'.route = dev.route /\ dev'.ever = [dev.ever EXCEPT ![k] = TRUE]
    BY <1>1, <1>3 DEF Roam, Device
  <2> QED  BY <1>1, <2>1 DEF Device
<1>4. CASE Keepalive(k)
  BY <1>1, <1>4 DEF Keepalive, Device
<1>5. CASE PathChanges(k)
  BY <1>5 DEF PathChanges
<1> QED  BY <1>2, <1>3, <1>4, <1>5

LEMMA InitTruthful == Init => Truthful
<1> SUFFICES ASSUME Init  PROVE Truthful
  OBVIOUS
<1>1. \A k \in Key : ~Owns(k)
  BY PeerAssumption DEF Init, Owns
<1>2. tracked = {} /\ pass.todo = {} /\ refresh.ready = {} /\ refresh.remove = {}
      /\ \A a \in Address : dev.route[a] = Box
  BY DEF Init
<1> QED  BY <1>1, <1>2 DEF Truthful, AtHome, Marks, Promises, Owing

LEMMA StepTruthful ==
  ASSUME AddressesKept
  PROVE  IInv /\ Truthful /\ [Next]_vars => Truthful'
<1> SUFFICES ASSUME IInv, Truthful, [Next]_vars  PROVE Truthful'
  OBVIOUS
<1>1. Typed /\ dev \in Device /\ refresh \in RefreshState /\ pass \in PassState /\ tracked \subseteq Key
  BY DEF IInv, Typed, Table
<1>2. ASSUME NEW k \in Key, WriteRemove(k)  PROVE Truthful'
  <2>1. UNCHANGED <<tracked, entry, pass>> /\ DeviceRemove(k) /\ k \in refresh.remove
    BY <1>2 DEF WriteRemove
  <2>2. /\ refresh'.map = refresh.map /\ refresh'.recent = refresh.recent /\ refresh'.remove = refresh.remove \ {k}
        /\ refresh'.rearm = refresh.rearm /\ refresh'.arm = refresh.arm /\ refresh'.ready = refresh.ready
    BY <1>1, <1>2 DEF WriteRemove, RefreshState
  <2>3. k \notin tracked /\ InArm' = InArm
    BY <2>1, <2>2 DEF IInv, InStep, InArm
  <2>4. dev'.peers = dev.peers \ {k} /\ dev'.route = Replaced(k, {}) /\ dev'.ever = [dev.ever EXCEPT ![k] = FALSE]
    BY <1>1, <2>1, DeviceRemoved
  <2>5. \A j \in Key \ {k} : dev'.ever[j] = dev.ever[j]
    BY <1>1, <2>4 DEF Device
  <2>6. refresh'.ready # {} => refresh'.remove = {}
    BY <2>2 DEF Truthful, AtHome
  <2> QED  BY <2>1, <2>2, <2>3, <2>4, <2>5, <2>6, ClearedTruthful
<1>3. ASSUME NEW k \in Key, WriteArm(k)  PROVE Truthful'
  <2>1. UNCHANGED <<tracked, entry, pass>> /\ DeviceArm(k, refresh.map[k])
    BY <1>3 DEF WriteArm
  <2>2. dev'.peers = dev.peers \cup {k} /\ dev'.route = Replaced(k, {}) /\ dev'.ever = dev.ever
    BY <1>1, <2>1 DEF DeviceArm, Device
  <2>3. InArm' \subseteq InArm /\ InArm \subseteq InArm' \cup {k} /\ k \in InArm'
    BY <1>1, <1>3, WriteArmSplit DEF IInv, InArm
  <2> QED  BY <1>1, <1>3, <2>1, <2>2, <2>3, WriteArmSplit, ClearedTruthful DEF IInv
<1>4. ASSUME NEW k \in Key, ArmFailed(k)  PROVE Truthful'
  <2>1. UNCHANGED <<tracked, entry, pass>> /\ DeviceRemove(k) /\ refresh.map[k] \in Refused
    BY <1>4 DEF ArmFailed
  <2>2. dev'.peers = dev.peers \ {k} /\ dev'.route = Replaced(k, {}) /\ dev'.ever = [dev.ever EXCEPT ![k] = FALSE]
    BY <1>1, <2>1, DeviceRemoved
  <2>3. \A j \in Key \ {k} : dev'.ever[j] = dev.ever[j]
    BY <1>1, <2>2 DEF Device
  <2>4. k \notin tracked
    BY <1>4, <2>1, ArmFailedSplit DEF IInv, InStep
  <2>5. InArm' \subseteq InArm /\ InArm \subseteq InArm' \cup {k}
    BY <1>4, ArmFailedSplit DEF IInv, InArm
  <2> QED  BY <1>4, <2>1, <2>2, <2>3, <2>4, <2>5, ArmFailedSplit, ClearedTruthful DEF IInv
<1>5. CASE Refreshed
  <2>1. UNCHANGED <<tracked, entry, dev, pass>> /\ refresh' = [refresh EXCEPT !.pc = "idle"]
    BY <1>5 DEF Refreshed
  <2>2. /\ refresh'.map = refresh.map /\ refresh'.recent = refresh.recent /\ refresh'.remove = refresh.remove
        /\ refresh'.rearm = refresh.rearm /\ refresh'.arm = refresh.arm /\ refresh'.ready = refresh.ready
    BY <1>1, <2>1 DEF RefreshState
  <2> QED  BY <2>1, <2>2, QuietTruthful
<1>6. CASE ReadDevice
  <2>1. /\ UNCHANGED <<tracked, entry>> /\ pass'.todo = pass.todo /\ pass.todo = {}
    BY <1>1, <1>6 DEF ReadDevice, PassState, IInv, Evidence
  <2>2. dev'.route = dev.route /\ dev'.peers = dev.peers /\ dev'.ever = dev.ever
    BY <1>1, <1>6 DEF ReadDevice, Device
  <2>3. /\ refresh'.map = refresh.map /\ refresh'.remove = refresh.remove
        /\ refresh'.rearm = refresh.rearm /\ refresh'.arm = refresh.arm /\ refresh'.ready = refresh.ready
    BY <1>1, <1>6 DEF ReadDevice, RefreshState
  <2> QED  BY <2>1, <2>2, <2>3, QuietTruthful
<1>7. CASE EndPass
  <2>1. UNCHANGED <<tracked, entry, dev, refresh>> /\ pass'.todo = pass.todo
    BY <1>1, <1>7 DEF EndPass, PassState
  <2> QED  BY <2>1, QuietTruthful
<1>8. CASE Network
  <2>1. PICK k \in Key : Handshake(k) \/ Roam(k) \/ Keepalive(k) \/ PathChanges(k)
    BY <1>8 DEF Network
  <2>2. UNCHANGED <<tracked, entry, refresh, pass>>
    BY <2>1 DEF Handshake, Roam, Keepalive, PathChanges
  <2>3. dev'.peers = dev.peers /\ dev'.route = dev.route /\ \A j \in Key : dev.ever[j] => dev'.ever[j]
    BY <1>1, <2>1, NetworkDevice
  <2> QED  BY <2>2, <2>3, QuietTruthful
<1>9. ASSUME NEW x \in pass.todo, Write(x)  PROVE Truthful'
  BY <1>9, WritePromoteTruthful, WriteTruthful DEF Write
<1>10. CASE UNCHANGED vars
  BY <1>10, QuietTruthful DEF vars
<1> QED
  BY <1>2, <1>3, <1>4, <1>5, <1>6, <1>7, <1>8, <1>9, <1>10, RefreshTruthful, TrackTruthful, DecideTruthful
     DEF Next, Refresher, Monitor

-----------------------------------------------------------------------------
(* The theorems.                                                           *)

LEMMA InitHolds == Init => IInv
<1> SUFFICES ASSUME Init  PROVE IInv
  OBVIOUS
<1>1. Table
  BY DEF Init, Table
<1>2. dev \in Device /\ refresh \in RefreshState
  BY DEF Init, Device, RefreshState, NoMap
<1>3. pass \in PassState
  BY DEF Init, PassState
<1>4. up \in [Key -> SUBSET Endpoint]
  BY DEF Init
<1>5. InStep
  BY DEF Init, InStep, InArm, Wanted
<1>6. Evidence
  BY DEF Init, Evidence, Pending
<1>7. RouteNeedsHandshake
  BY DEF Init, RouteNeedsHandshake
<1> QED  BY <1>1, <1>2, <1>3, <1>4, <1>5, <1>6, <1>7 DEF IInv, Typed

LEMMA StepKeeps == IInv /\ [Next]_vars => IInv'
<1> SUFFICES ASSUME IInv, [Next]_vars  PROVE IInv'
  OBVIOUS
<1>1. Typed'
  <2>1. CASE UNCHANGED vars
    BY <2>1 DEF vars, IInv, Typed, Table
  <2> QED  BY <2>1, RefreshTyped, RefresherTyped, MonitorTyped, NetworkTyped DEF Next, IInv
<1>2. InStep'
  BY InStepKept DEF IInv
<1>3. Evidence' /\ RouteNeedsHandshake'
  BY EvidenceKept
<1> QED  BY <1>1, <1>2, <1>3 DEF IInv

\* The types of the table, the device and the two goroutines.
THEOREM PeersTyped == Spec => []TypeOK
<1>1. IInv => TypeOK
  BY DEF IInv, Typed, Table, Device, RefreshState, PassState, TypeOK
<1> QED  BY InitHolds, StepKeeps, <1>1, PTL DEF Spec

\* A refresh leaves on the device the peers that are tracked and no other, none
\* that the map does not list (SetDirectPeers against reconcileDirectPeers).
THEOREM RevokedGone == Spec => []RevokedIsGone
<1>1. IInv => RevokedIsGone
  BY DEF IInv, InStep, RevokedIsGone, InArm
<1> QED  BY InitHolds, StepKeeps, <1>1, PTL DEF Spec

\* No /128 is routed to a peer that has not answered since the device has it,
\* though a pass decides on what it read and promotes later (reconcileDirectPeers).
THEOREM RoutesAnswered == Spec => []RouteNeedsHandshake
<1>1. IInv => RouteNeedsHandshake
  BY DEF IInv
<1> QED  BY InitHolds, StepKeeps, <1>1, PTL DEF Spec

\* The table and the device agree but for what is about to be written: who has a
\* route is promoted, or is about to lose it or to be promoted again, and who is
\* promoted has its route, whatever SetDirectPeers changes between the decision
\* of a pass and its write (reconcileDirectPeers).  It is so under a control plane
\* that keeps a key's address and gives an address to one key of an answer.
THEOREM RoutesPromoted == AddressesKept => (Spec => []RouteIsPromoted)
<1> SUFFICES ASSUME AddressesKept  PROVE Spec => []RouteIsPromoted
  OBVIOUS
<1>1. IInv /\ Truthful => RouteIsPromoted
  <2> SUFFICES ASSUME IInv, Truthful  PROVE RouteIsPromoted
    OBVIOUS
  <2>1. Typed /\ dev.route \in [Address -> Key \cup {Box}] /\ \A k \in tracked : entry[k].row.addr = Home(k)
    BY DEF IInv, Typed, Device, Truthful, AtHome
  <2>2. ASSUME NEW a \in Address, dev.route[a] # Box  PROVE Owed(dev.route[a]) /\ a = Home(dev.route[a])
    BY <2>1, <2>2 DEF Truthful, AtHome, Owing, Owns
  <2> QED  BY <2>1, <2>2 DEF RouteIsPromoted, Owed, Truthful, Owing
<1>2. Init => Truthful
  BY InitTruthful
<1>3. IInv /\ Truthful /\ [Next]_vars => Truthful'
  BY StepTruthful
<1> QED  BY InitHolds, StepKeeps, <1>1, <1>2, <1>3, PTL DEF Spec
=============================================================================
