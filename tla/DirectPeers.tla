---------------------------- MODULE DirectPeers ----------------------------
(***************************************************************************)
(* The direct paths of a tunnel (internal/wgtun/peers.go, punch.go): a     *)
(* second WireGuard peer per pair of nodes that can reach each other, with *)
(* the box as the fallback.                                                *)
(*                                                                         *)
(* Two goroutines share a table under t.mu and write to the device outside *)
(* it: the refresher, which installs the map the control plane answers     *)
(* with (SetDirectPeers), and the health monitor, which reads the device   *)
(* once per pass and decides from what it read who is promoted, demoted or *)
(* punched (reconcileDirectPeers).  A step here is what one of them does   *)
(* between two points where the other can come in between: the part under  *)
(* the lock, or one write to the device.                                   *)
(*                                                                         *)
(* Time is counted in passes of the monitor, and kept as what is left of a *)
(* wait.  The period of a punch is the monitor's own, so that every pass   *)
(* finds the next attempt due (punch.go grants a tenth of slack for that). *)
(***************************************************************************)
EXTENDS Naturals, Sequences, FiniteSets, SequencesExt

CONSTANTS
  Key,          \* public keys of peers
  Address,      \* overlay addresses, each a /128
  Endpoint,     \* underlay endpoints a handshake can be aimed at
  Maps,         \* the peer maps the control plane may answer with
  Reach,        \* for each peer, the sets of endpoints it may answer at
  Box,          \* the box's peer, which has the default route
  NoEndpoint,   \* "" where an endpoint may stand
  DeadAfter,    \* directDeadAfter, in passes
  RearmAfter,   \* directRearmAfter, in passes
  Attempts,     \* punchTrainAttempts
  Refused,      \* the rows the device does not take as a peer
  Unrouted      \* the rows whose address it does not take

Row == [addr : Address, cands : Seq(Endpoint) \ {<<>>}]

ASSUME PeerAssumption ==
  /\ Box \notin Key /\ NoEndpoint \notin Endpoint
  /\ \A f \in Maps : DOMAIN f \subseteq Key /\ \A k \in DOMAIN f : f[k] \in Row
  /\ Reach \in [Key -> SUBSET SUBSET Endpoint]
  /\ Refused \subseteq Row /\ Unrouted \subseteq Row
  /\ DeadAfter \in Nat \ {0} /\ RearmAfter \in Nat /\ Attempts \in Nat \ {0}

VARIABLES
  tracked,   \* the keys t.direct has an entry for
  entry,     \* the entries, Blank for a key that has none
  dev,       \* the device: its peers, its routes, and what it heard from whom;
             \* `counted`, that a pass has seen the last handshake, is history
  refresh,   \* SetDirectPeers: the map it installs and what is left to write
  pass,      \* reconcileDirectPeers: what it read and what is left to write
  up         \* the endpoints at which each peer answers, the network's choice

vars == <<tracked, entry, dev, refresh, pass, up>>

-----------------------------------------------------------------------------
(* An entry of the table.  `fresh` is what is left of the time for which   *)
(* the last evidence counts, `blank` that no handshake was ever read for   *)
(* this entry (lastHS is the zero time), `rest` what is left of the wait   *)
(* for the next train.                                                     *)

Entry == [row : Row, promoted : BOOLEAN, fresh : 0..DeadAfter, blank : BOOLEAN,
          rest : 0..RearmAfter, next : Nat, attempts : 0..Attempts,
          gaveUp : BOOLEAN, lastEP : Endpoint \cup {NoEndpoint},
          winner : Endpoint \cup {NoEndpoint}]

Blank == [promoted |-> FALSE]

\* newPunchTrain, in the entry SetDirectPeers makes for a peer it has armed.
NewEntry(row) ==
  [row |-> row, promoted |-> FALSE, fresh |-> 0, blank |-> TRUE,
   rest |-> RearmAfter, next |-> 0, attempts |-> 0, gaveUp |-> FALSE,
   lastEP |-> NoEndpoint, winner |-> NoEndpoint]

\* Mutant: a train that gave up is not started anew.
RestartSpent(d) == [d EXCEPT !.attempts = 0]

\* punchTrain.restart: a new train, from the endpoint that carried the path.
Restart(d) ==
  LET at(c) == CHOOSE i \in 1..Len(c) : c[i] = d.winner
  IN [d EXCEPT !.attempts = 0, !.gaveUp = FALSE,
               !.next = IF Contains(d.row.cands, d.winner)
                        THEN at(d.row.cands) - 1 ELSE 0]

\* Mutant: one attempt too many.
DueOnceMore(d) == ~d.gaveUp /\ d.attempts <= Attempts

\* punchTrain.due, the candidate it returns and what it leaves.
Due(d) == ~d.gaveUp /\ d.attempts < Attempts
Aim(d) == d.row.cands[(d.next % Len(d.row.cands)) + 1]
Attempted(d) ==
  [d EXCEPT !.next = @ + 1, !.attempts = @ + 1, !.lastEP = Aim(d), !.rest = RearmAfter]
Spent(d) == [d EXCEPT !.gaveUp = @ \/ d.attempts >= Attempts]

\* punchTrain.adopt, in the refresh of an entry that is left alone.
Adopt(d, row) ==
  [d EXCEPT !.row = row, !.next = IF @ >= Len(row.cands) THEN 0 ELSE @]

-----------------------------------------------------------------------------
(* The device.  A write is one IpcSet; `update_only` makes a write to a    *)
(* peer that is gone a write to nothing.                                   *)

RoutesOf(k) == {a \in Address : dev.route[a] = k}

\* The routes with peer k's allowed-ips replaced by S.
Replaced(k, S) ==
  [a \in Address |-> IF a \in S THEN k ELSE IF a \in RoutesOf(k) THEN Box ELSE dev.route[a]]

\* armDirectPeer: the peer with an endpoint and no allowed-ips.
DeviceArm(k, row) ==
  dev' = [dev EXCEPT !.peers = @ \cup {k}, !.aim[k] = Head(row.cands),
                     !.route = Replaced(k, {})]

\* remove=true: all the device knew of the peer goes with it.
DeviceRemove(k) ==
  dev' = [dev EXCEPT !.peers = @ \ {k}, !.aim[k] = NoEndpoint, !.ever[k] = FALSE,
                     !.news[k] = {}, !.counted[k] = FALSE, !.route = Replaced(k, {})]

\* Mutant: the promotion of a peer that is gone puts it back.
DevicePromoteAdding(k, addr) ==
  dev' = [dev EXCEPT !.peers = @ \cup {k}, !.route = Replaced(k, {addr})]

\* Mutant: a demotion that replaces nothing.
DeviceDemoteUnreplaced(k) == dev' = dev

\* promoteDirectPeer and demoteDirectPeer.
DevicePromote(k, addr) ==
  dev' = IF k \in dev.peers THEN [dev EXCEPT !.route = Replaced(k, {addr})] ELSE dev
DeviceDemote(k) ==
  dev' = IF k \in dev.peers THEN [dev EXCEPT !.route = Replaced(k, {})] ELSE dev

\* punchAt: where the next handshake goes, and nothing else.
DevicePunch(k, e) ==
  dev' = IF k \in dev.peers THEN [dev EXCEPT !.aim[k] = e] ELSE dev

-----------------------------------------------------------------------------
(* The refresher.                                                          *)

Wanted == DOMAIN refresh.map

\* The entries SetDirectPeers takes down to arm anew: another address, or a
\* candidate list that changed while nothing was established.
Changed(k, f) ==
  \/ f[k].addr # entry[k].row.addr
  \/ ~entry[k].promoted /\ f[k].cands # entry[k].row.cands

\* SetDirectPeers under the lock.  Two answers are a PeerRefresh apart, which
\* a pass of the monitor never takes: one has read the device in between.
Refresh ==
  /\ refresh.pc = "idle" /\ ~refresh.recent
  /\ \E f \in Maps :
       LET gone == tracked \ DOMAIN f
           changed == {k \in tracked \ gone : Changed(k, f)}
           kept == (tracked \ gone) \ changed
       IN /\ tracked' = kept
          /\ entry' = [k \in Key |-> IF k \in kept THEN Adopt(entry[k], f[k]) ELSE Blank]
          /\ refresh' = [pc |-> "write", map |-> f, remove |-> gone, rearm |-> changed,
                         arm |-> DOMAIN f \ kept, ready |-> {}, recent |-> TRUE]
  /\ UNCHANGED <<dev, pass, up>>

\* Every removal is written before the first peer is armed.
WriteRemove(k) ==
  /\ refresh.pc = "write" /\ k \in refresh.remove
  /\ DeviceRemove(k)
  /\ refresh' = [refresh EXCEPT !.remove = @ \ {k}]
  /\ UNCHANGED <<tracked, entry, pass, up>>

\* The next of the list to arm.  A changed entry is in it twice: as changed,
\* and, since that deletes the entry, as one of those that have none.
Arming(k, left) ==
  /\ refresh.pc = "write" /\ refresh.remove = {} /\ refresh.ready = {}
  /\ IF refresh.rearm # {}
     THEN k \in refresh.rearm /\ refresh' = [left EXCEPT !.rearm = @ \ {k}]
     ELSE k \in refresh.arm /\ refresh' = [left EXCEPT !.arm = @ \ {k}]

WriteArm(k) ==
  /\ Arming(k, [refresh EXCEPT !.ready = {k}])
  /\ refresh.map[k] \notin Refused
  /\ DeviceArm(k, refresh.map[k])
  /\ UNCHANGED <<tracked, entry, pass, up>>

\* A peer whose row the device refuses is taken off the device again.
ArmFailed(k) ==
  /\ Arming(k, refresh)
  /\ refresh.map[k] \in Refused
  /\ DeviceRemove(k)
  /\ UNCHANGED <<tracked, entry, pass, up>>

\* Under the lock again: the entry of a peer that is armed.
Track(k) ==
  /\ refresh.pc = "write" /\ k \in refresh.ready
  /\ tracked' = tracked \cup {k}
  /\ entry' = [entry EXCEPT ![k] = NewEntry(refresh.map[k])]
  /\ refresh' = [refresh EXCEPT !.ready = {}]
  /\ UNCHANGED <<dev, pass, up>>

Refreshed ==
  /\ refresh.pc = "write"
  /\ refresh.remove \cup refresh.rearm \cup refresh.arm \cup refresh.ready = {}
  /\ refresh' = [refresh EXCEPT !.pc = "idle"]
  /\ UNCHANGED <<tracked, entry, dev, pass, up>>

Refresher ==
  \/ Refreshed
  \/ \E k \in Key : WriteRemove(k) \/ WriteArm(k) \/ ArmFailed(k) \/ Track(k)

-----------------------------------------------------------------------------
(* The monitor.                                                            *)

\* readPeers: one dump gives every peer's handshake and received bytes.
ReadDevice ==
  /\ pass.pc = "idle"
  /\ pass' = [pass EXCEPT !.pc = "read", !.ever = dev.ever, !.news = dev.news]
  /\ dev' = [dev EXCEPT !.news = [k \in Key |-> {}]]
  /\ refresh' = [refresh EXCEPT !.recent = @ /\ refresh.pc # "idle"]
  /\ UNCHANGED <<tracked, entry, up>>

\* Mutant: the handshake a peer once made counts for ever.
NewHandshakeEver(k) == pass.ever[k]

\* A handshake newer than the one this entry saw last: a new one, or any at all
\* for an entry that has seen none.
NewHandshake(k) == "hs" \in pass.news[k] \/ (entry[k].blank /\ pass.ever[k])

\* What a pass makes of the evidence for k, before it decides.
Observed(k) ==
  LET d == entry[k]
      alive == NewHandshake(k) \/ (d.promoted /\ "rx" \in pass.news[k])
  IN [d EXCEPT !.fresh = IF alive THEN DeadAfter ELSE IF @ > 0 THEN @ - 1 ELSE 0,
               !.blank = @ /\ ~pass.ever[k],
               !.rest = IF @ > 0 THEN @ - 1 ELSE 0]

\* The decision about one entry: the entry it leaves and what is to be written.
Action(k, what, d) == [key |-> k, what |-> what, row |-> d.row, aim |-> Aim(d)]

Decision(k) ==
  LET d == Observed(k)
      \* A spent train is started anew after RearmAfter.
      t == IF d.gaveUp /\ d.rest = 0 THEN Restart(d) ELSE d
  IN CASE d.fresh > 0 /\ ~d.promoted ->
            [d |-> [d EXCEPT !.promoted = TRUE], todo |-> {Action(k, "promote", d)}]
       [] d.fresh = 0 /\ d.promoted ->
            [d |-> Restart([d EXCEPT !.promoted = FALSE, !.rest = RearmAfter]),
             todo |-> {Action(k, "demote", d)}]
       [] d.fresh = 0 /\ ~d.promoted /\ Due(t) ->
            [d |-> Attempted(t), todo |-> {Action(k, "punch", t)}]
       [] d.fresh = 0 /\ ~d.promoted /\ ~Due(t) -> [d |-> Spent(t), todo |-> {}]
       [] d.fresh > 0 /\ d.promoted -> [d |-> d, todo |-> {}]

\* reconcileDirectPeers under the lock.
Decide ==
  /\ pass.pc = "read"
  /\ entry' = [k \in Key |-> IF k \in tracked THEN Decision(k).d ELSE entry[k]]
  /\ pass' = [pass EXCEPT !.pc = "write",
                          !.todo = UNION {Decision(k).todo : k \in tracked},
                          !.ever = [k \in Key |-> FALSE], !.news = [k \in Key |-> {}]]
  /\ dev' = [dev EXCEPT !.counted = [k \in Key |->
                @[k] \/ (k \in tracked /\ pass.ever[k] /\ "hs" \notin dev.news[k])]]
  /\ UNCHANGED <<tracked, refresh, up>>

Done(x) == pass' = [pass EXCEPT !.todo = @ \ {x}]

WritePromote(x) ==
  /\ x.what = "promote" /\ x.row \notin Unrouted
  /\ DevicePromote(x.key, x.row.addr)
  /\ pass' = [pass EXCEPT !.todo = (@ \ {x}) \cup {[x EXCEPT !.what = "winner"]}]
  /\ UNCHANGED <<tracked, entry, refresh, up>>

PromoteFailed(x) ==
  /\ x.what = "promote" /\ x.row \in Unrouted
  /\ entry' = IF x.key \in tracked THEN [entry EXCEPT ![x.key].promoted = FALSE] ELSE entry
  /\ Done(x)
  /\ UNCHANGED <<tracked, dev, refresh, up>>

\* Where the device says the promoted peer is, read back and kept.
NoteWinner(x) ==
  /\ x.what = "winner"
  /\ entry' = IF x.key \in tracked
              THEN [entry EXCEPT ![x.key].winner =
                      IF dev.aim[x.key] = NoEndpoint THEN entry[x.key].lastEP ELSE dev.aim[x.key]]
              ELSE entry
  /\ Done(x)
  /\ UNCHANGED <<tracked, dev, refresh, up>>

WriteDemote(x) ==
  /\ x.what = "demote"
  /\ DeviceDemote(x.key)
  /\ Done(x)
  /\ UNCHANGED <<tracked, entry, refresh, up>>

WritePunch(x) ==
  /\ x.what = "punch"
  /\ DevicePunch(x.key, x.aim)
  /\ Done(x)
  /\ UNCHANGED <<tracked, entry, refresh, up>>

EndPass ==
  /\ pass.pc = "write" /\ pass.todo = {}
  /\ pass' = [pass EXCEPT !.pc = "idle"]
  /\ UNCHANGED <<tracked, entry, dev, refresh, up>>

Write(x) ==
  /\ pass.pc = "write"
  /\ WritePromote(x) \/ PromoteFailed(x) \/ NoteWinner(x) \/ WriteDemote(x) \/ WritePunch(x)

Monitor == ReadDevice \/ Decide \/ EndPass \/ \E x \in pass.todo : Write(x)

-----------------------------------------------------------------------------
(* The network and the peers.                                              *)

\* The handshake that an armed peer answers where the device aims at it.
Handshake(k) ==
  /\ k \in dev.peers /\ dev.aim[k] \in up[k]
  /\ "hs" \notin dev.news[k]
  /\ dev' = [dev EXCEPT !.ever[k] = TRUE, !.counted[k] = FALSE,
                           !.news[k] = {"hs", "rx"}]
  /\ UNCHANGED <<tracked, entry, refresh, pass, up>>

\* The peer's own handshake arrives: the device roams to where it came from.
Roam(k) ==
  /\ k \in dev.peers
  /\ \E e \in up[k] \ {dev.aim[k]} :
       dev' = [dev EXCEPT !.aim[k] = e, !.ever[k] = TRUE, !.counted[k] = FALSE,
                           !.news[k] = {"hs", "rx"}]
  /\ UNCHANGED <<tracked, entry, refresh, pass, up>>

\* A keepalive of an established session.
Keepalive(k) ==
  /\ k \in dev.peers /\ dev.ever[k] /\ dev.aim[k] \in up[k]
  /\ "rx" \notin dev.news[k]
  /\ dev' = [dev EXCEPT !.news[k] = @ \cup {"rx"}]
  /\ UNCHANGED <<tracked, entry, refresh, pass, up>>

\* A path comes up or goes down.
PathChanges(k) ==
  /\ \E S \in Reach[k] : S # up[k] /\ up' = [up EXCEPT ![k] = S]
  /\ UNCHANGED <<tracked, entry, dev, refresh, pass>>

-----------------------------------------------------------------------------
Init ==
  /\ tracked = {} /\ entry = [k \in Key |-> Blank]
  /\ dev = [peers |-> {}, aim |-> [k \in Key |-> NoEndpoint],
            route |-> [a \in Address |-> Box],
            ever |-> [k \in Key |-> FALSE], news |-> [k \in Key |-> {}],
            counted |-> [k \in Key |-> FALSE]]
  /\ refresh = [pc |-> "idle", map |-> [k \in {} |-> k], remove |-> {}, rearm |-> {},
                arm |-> {}, ready |-> {}, recent |-> FALSE]
  /\ pass = [pc |-> "idle", ever |-> [k \in Key |-> FALSE],
             news |-> [k \in Key |-> {}], todo |-> {}]
  /\ up \in [Key -> SUBSET Endpoint] /\ \A k \in Key : up[k] \in Reach[k]

Network == \E k \in Key : Handshake(k) \/ Roam(k) \/ Keepalive(k) \/ PathChanges(k)

Next == Refresh \/ Refresher \/ Monitor \/ Network

Spec == Init /\ [][Next]_vars

\* Both goroutines run; a handshake aimed at a peer that answers there completes
\* if it is aimed there again and again.
FairSpec ==
  /\ Spec
  /\ WF_vars(Refresh) /\ WF_vars(Refresher) /\ WF_vars(Monitor)
  /\ \A k \in Key : SF_vars(Handshake(k))

-----------------------------------------------------------------------------
TypeOK ==
  /\ tracked \subseteq Key
  /\ entry \in [Key -> Entry \cup {Blank}]
  /\ \A k \in Key : IF k \in tracked THEN entry[k] \in Entry ELSE entry[k] = Blank
  /\ dev \in [peers : SUBSET Key, aim : [Key -> Endpoint \cup {NoEndpoint}],
              route : [Address -> Key \cup {Box}],
              ever : [Key -> BOOLEAN], news : [Key -> SUBSET {"hs", "rx"}],
              counted : [Key -> BOOLEAN]]
  /\ refresh.pc \in {"idle", "write"}
  /\ pass.pc \in {"idle", "read", "write"}

\* The keys the monitor has decided to demote and not yet demoted.
Pending(what) == {x.key : x \in {y \in pass.todo : y.what = what}}

\* Once the map of a refresh is written, the device has exactly the peers that
\* are tracked, and none the map does not list: whatever the monitor was writing
\* meanwhile, no revoked peer stays, none is there that nothing will remove, and
\* none is tracked that is not there.
RevokedIsGone ==
  refresh.pc = "idle" => dev.peers = tracked /\ tracked \subseteq Wanted

\* The table tells the truth about the device, but for what is about to be
\* written.  An address goes to a peer only while its entry says promoted, or the
\* peer is being armed again, or was between the decision to promote it and its
\* write: then its new entry has yet to see the handshake that will promote it.
\* And a peer whose entry says promoted has its address.
InArm == refresh.rearm \cup refresh.arm \cup refresh.ready

RouteIsPromoted ==
  /\ \A a \in Address : LET k == dev.route[a] IN k # Box =>
       \/ k \in tracked /\ entry[k].promoted /\ entry[k].row.addr = a
       \/ k \in tracked /\ entry[k].blank /\ dev.ever[k]
       \/ k \in Pending("demote") \cup refresh.remove \cup InArm
  /\ \A k \in tracked \ (Pending("promote") \cup InArm) :
       entry[k].promoted => dev.route[entry[k].row.addr] = k

\* No address is sent to a peer that has never answered since it was installed.
RouteNeedsHandshake == \A a \in Address : dev.route[a] # Box => dev.ever[dev.route[a]]

\* What the code says of the promotion rule: it takes a handshake newer than any
\* a pass has seen of the peer before.
PromotedOnNewHandshake ==
  [][\A k \in Key : entry'[k].promoted /\ ~entry[k].promoted
       => "hs" \in pass.news[k] \/ ~dev.counted[k]]_vars

\* A peer that answers nowhere any more does not keep its address.
FallsBack ==
  \A k \in Key : <>[](up[k] = {}) => \A a \in Address : []<>(dev.route[a] # k)

\* A peer that stays listed and answers at one of its candidates is used.
PathIsUsed ==
  \A f \in Maps : \A k \in {j \in DOMAIN f : f[j] \notin Refused \cup Unrouted} : \A e \in ToSet(f[k].cands) :
    <>[](refresh.map = f /\ e \in up[k]) => []<>(dev.route[f[k].addr] = k)
=============================================================================
