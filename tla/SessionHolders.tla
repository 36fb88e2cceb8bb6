---------------------------- MODULE SessionHolders ----------------------------
(***************************************************************************)
(* The long-lived holders of `whisper connect`: processes that each hold   *)
(* one egress session for one /128 and replace it when its tunnel dies     *)
(* (internal/cli/session_renew.go), and the on-disk session registry they  *)
(* share with each other and with one-shot commands                        *)
(* (internal/cli/session_registry.go).                                     *)
(*                                                                         *)
(*   h       one record per holder process: where its supervisor is (pc),  *)
(*           the loopback port its proxy serves (sess, 0 for none), the    *)
(*           tunnel monitor's reading, and the supervisor's own fields     *)
(*   reg     the registry: one file per (address, port), pid 0 = no file   *)
(*   box     the gateway: which holder's peer an address is bound to       *)
(*   sweep   a one-shot half way through discarding a dead record          *)
(*   strangers  pids of dead holders that now name an unrelated process    *)
(*                                                                         *)
(* Time is counted in ticks of renewBaseBackoff. Instants are kept         *)
(* relative to the present and clamped: `due` is nextTry with NowDue       *)
(* standing for the present and 0 for "holderStaleAfter ago or earlier",   *)
(* which is also how Go's zero time reads.                                 *)
(***************************************************************************)
EXTENDS Integers, FiniteSets

CONSTANTS
  Holder,      \* the pids of the holder processes
  Sweeper,     \* one-shot commands that sweep dead records
  Address,     \* the /128s held on this host
  Port,        \* loopback ports
  AddrOf,      \* the /128 each holder holds
  PortsOf,     \* the ports each holder's first connect may land on
  Supervised,  \* holders run by the installed service
  Negotiated,  \* holders that may fall back to an egress tier
  Stoppable,   \* holders that may be asked to stop
  Mortal,      \* holders that may be killed without cleanup
  Faults,      \* what may go wrong with a connect or a bring-up
  Droppable,   \* addresses whose peer the box may forget
  MaxBackoff,  \* the longest transient retry wait, in ticks
  RefusalWait, \* the wait after a refusal (renewMaxBackoff), in ticks
  StaleAfter,  \* holderStaleAfter, in ticks
  PhaseTicks,  \* the deadline of a register or of a bring-up, in ticks
  SilentTicks, \* from the first silence of a tunnel to its request, in ticks
  Sleeps,      \* whether the host may be suspended
  MaxCheckIns  \* a bound on the check-ins one hold makes

ASSUME HolderAssumption ==
  /\ Holder \subseteq Nat \ {0}
  /\ Port \subseteq Nat \ {0}
  /\ AddrOf \in [Holder -> Address]
  /\ PortsOf \in [Holder -> SUBSET Port]
  /\ Supervised \subseteq Holder
  /\ Negotiated \subseteq Holder
  /\ Stoppable \subseteq Holder
  /\ Mortal \subseteq Holder
  /\ Faults \subseteq {"refused", "failed", "lost", "unreached", "wrong", "bringup"}
  /\ Droppable \subseteq Address

ASSUME TimeAssumption ==
  /\ MaxBackoff \in Nat \ {0}
  /\ RefusalWait \in Nat \ {0}
  /\ MaxBackoff <= RefusalWait
  /\ PhaseTicks \in Nat
  /\ StaleAfter \in Nat
  /\ StaleAfter > 2 * PhaseTicks
  /\ SilentTicks \in Nat
  /\ Sleeps \in BOOLEAN
  /\ MaxCheckIns \in Nat

VARIABLES h, reg, box, sweep, strangers

vars == <<h, reg, box, sweep, strangers>>

NowDue == StaleAfter
MaxDue == NowDue + RefusalWait

PC == {"new", "watch", "register", "swap", "letgo", "bringup", "verify",
       "closing", "unlink", "gone", "killed"}

HolderState ==
  [pc : PC, sess : Port \cup {0}, tier : {"wireguard", "egress"},
   health : {"up", "silent", "stuck"}, listen : Port \cup {0},
   pinned : Port \cup {0}, endpoint : Port \cup {0}, due : 0..MaxDue,
   refused : BOOLEAN, reask : 0..RefusalWait, latched : BOOLEAN,
   unreached : BOOLEAN, left : 0..PhaseTicks, quiet : 0..SilentTicks,
   checkIns : 0..MaxCheckIns]

\* A process that does not run has no supervisor.
Off(pc) ==
  [pc |-> pc, sess |-> 0, tier |-> "wireguard", health |-> "up", listen |-> 0,
   pinned |-> 0, endpoint |-> 0, due |-> 0, refused |-> FALSE, reask |-> 0,
   latched |-> FALSE, unreached |-> FALSE, left |-> 0, quiet |-> 0, checkIns |-> 0]

Record ==
  [pid : Holder \cup {0}, state : {"", "up", "down", "refused"},
   wg : BOOLEAN, noProxy : BOOLEAN, fresh : 0..MaxDue]

NoRecord == [pid |-> 0, state |-> "", wg |-> FALSE, noProxy |-> FALSE, fresh |-> 0]

Path == Address \X Port

SweepState == [stage : {"idle", "probe", "unlink"}, path : Path \cup {<<>>}]
Idle == [stage |-> "idle", path |-> <<>>]

TypeOK ==
  /\ h \in [Holder -> HolderState]
  /\ reg \in [Path -> Record]
  /\ box \in [Address -> Holder \cup {0}]
  /\ sweep \in [Sweeper -> SweepState]
  /\ strangers \subseteq Holder

-----------------------------------------------------------------------------
(* Reading the world.                                                      *)

Running(p) == h[p].pc \notin {"new", "gone", "killed"}

\* probeWhisperProxy: some proxy completes a SOCKS5 greeting on the port.
Answers(port) == \E q \in Holder : h[q].sess = port

\* holderAlive: a pid alone may be a stranger's.
HolderAlive(p) == Running(p) \/ p \in strangers

\* Mutant: a live pid is enough.
HeldByAnyPid(rec) == rec.noProxy /\ HolderAlive(rec.pid)

\* heldWithoutProxy: a live holder between two sessions, by its record.
HeldWithoutProxy(rec) == rec.noProxy /\ rec.fresh > 0 /\ HolderAlive(rec.pid)

\* The box carries this holder's tunnel.
Carries(p) == h[p].sess # 0 /\ h[p].tier = "wireguard" /\ box[AddrOf[p]] = p

\* The file of the endpoint a holder names (recordPath).
OwnPath(p) == <<AddrOf[p], h[p].endpoint>>

\* The record another session of the same address left on disk asks p to wait.
YieldsTo(p, k) ==
  LET rec == reg[k] IN
  /\ k[1] = AddrOf[p]
  /\ rec.pid \notin {0, p}
  /\ rec.wg
  /\ \/ rec.state = "up" /\ Answers(k[2])
     \/ /\ rec.state = "down"
        /\ Answers(k[2]) \/ HeldWithoutProxy(rec)
        /\ rec.pid < p
        /\ HolderAlive(rec.pid)

\* Mutant: nobody yields.
NeverYield(p) == FALSE

YieldToAnotherHolder(p) == \E k \in Path : YieldsTo(p, k)

\* Another holder's record says it serves p's address on the port.
PortServesOurAddress(p, port) ==
  LET rec == reg[<<AddrOf[p], port>>] IN rec.pid \notin {0, p} /\ ~rec.noProxy

-----------------------------------------------------------------------------
(* Writing the registry.                                                   *)

\* publish: the held session's own record, and no other's.
Publish(p, state) ==
  IF reg[OwnPath(p)].pid = p
    THEN [reg EXCEPT ![OwnPath(p)] =
            [@ EXCEPT !.state = state, !.noProxy = FALSE, !.fresh = 0]]
    ELSE reg

\* Mutants: a foreign file is overwritten; a missing one is not written again.
PublishHolderOverForeign(p, state, due) ==
  [reg EXCEPT ![OwnPath(p)] =
     [pid |-> p, state |-> state, wg |-> h[p].tier = "wireguard", noProxy |-> TRUE, fresh |-> due]]

PublishHolderOwnOnly(p, state, due) ==
  IF reg[OwnPath(p)].pid = p
    THEN [reg EXCEPT ![OwnPath(p)] =
            [@ EXCEPT !.state = state, !.noProxy = TRUE, !.fresh = due]]
    ELSE reg

\* publishHolder: alive with no proxy, next try at `due`. Written over its own
\* record or where there is none; another process's file is left alone.
PublishHolder(p, state, due) ==
  IF reg[OwnPath(p)].pid \in {0, p}
    THEN [reg EXCEPT ![OwnPath(p)] =
            [pid |-> p, state |-> state, wg |-> h[p].tier = "wireguard",
             noProxy |-> TRUE, fresh |-> due]]
    ELSE reg

\* holderState.
StateOf(p) == IF h[p].refused THEN "refused" ELSE "down"

Set(p, s) == h' = [h EXCEPT ![p] = s]

\* The hold is over: what is left to do is stop the proxy and remove the record.
Closing(p) ==
  [Off("closing") EXCEPT !.sess = h[p].sess, !.endpoint = h[p].endpoint]

\* Mutant: the refusal's wait is added to every other one.
AfterRefusal(p, due) == IF h[p].refused THEN due + RefusalWait ELSE due

\* notBeforeRefusal: a standing refusal's slow re-ask is never brought forward.
NotBeforeRefusal(p, due) ==
  IF h[p].refused /\ due < NowDue + h[p].reask THEN NowDue + h[p].reask ELSE due

\* scheduleRetry: every wait the doubling, jittered backoff can give.
RetryDues(p, unreached) ==
  {NotBeforeRefusal(p, NowDue + w) : w \in 1..(IF unreached THEN 1 ELSE MaxBackoff)}

\* A tunnel that re-opened its socket after a failure to reach the control
\* plane has its next try cleared (the head of step).
RebindDues(p) == {h[p].due} \cup (IF h[p].unreached THEN {0} ELSE {})

-----------------------------------------------------------------------------
(* Starting a hold, and the tunnel below it.                               *)

\* A verified connect on a free port whose record has been written; the
\* newest connect for an address takes its peer at the box.
Start(p) ==
  /\ h[p].pc = "new"
  /\ \E q \in PortsOf[p] :
       /\ ~Answers(q)
       /\ Set(p, [h[p] EXCEPT !.pc = "watch", !.sess = q, !.listen = q,
                              !.pinned = q, !.endpoint = q, !.checkIns = MaxCheckIns])
       /\ reg' = [reg EXCEPT ![<<AddrOf[p], q>>] =
                    [pid |-> p, state |-> "", wg |-> TRUE, noProxy |-> FALSE, fresh |-> 0]]
       /\ box' = [box EXCEPT ![AddrOf[p]] = p]
  /\ UNCHANGED <<sweep, strangers>>

\* What the tunnel's monitor reports: handshakes while the box carries the
\* peer, silence when it does not, and a request for a fresh session once the
\* silence has lasted (renewAfterSilence).
Monitored(p) == h[p].pc \in {"watch", "register"} /\ h[p].sess # 0 /\ h[p].tier = "wireguard"

MonitorUp(p) ==
  /\ Monitored(p) /\ Carries(p)
  /\ Set(p, [h[p] EXCEPT !.health = "up", !.quiet = 0])
  /\ UNCHANGED <<reg, box, sweep, strangers>>

MonitorSilent(p) ==
  /\ Monitored(p) /\ ~Carries(p) /\ h[p].health = "up"
  /\ Set(p, [h[p] EXCEPT !.health = "silent", !.quiet = SilentTicks])
  /\ UNCHANGED <<reg, box, sweep, strangers>>

MonitorStuck(p) ==
  /\ Monitored(p) /\ ~Carries(p) /\ h[p].health = "silent" /\ h[p].quiet = 0
  /\ Set(p, [h[p] EXCEPT !.health = "stuck"])
  /\ UNCHANGED <<reg, box, sweep, strangers>>

Monitor(p) == MonitorUp(p) \/ MonitorSilent(p) \/ MonitorStuck(p)

\* A re-key or a restart at the box forgets the peer.
BoxDrop(a) ==
  /\ a \in Droppable
  /\ box[a] # 0
  /\ box' = [box EXCEPT ![a] = 0]
  /\ UNCHANGED <<h, reg, sweep, strangers>>

-----------------------------------------------------------------------------
(* step, with a tunnel held.                                               *)

Watching(p) == h[p].pc = "watch" /\ h[p].sess # 0 /\ h[p].tier = "wireguard"

\* A healthy tunnel ends the outage; once settled its next try is cleared.
StepHealthy(p) ==
  /\ Watching(p) /\ h[p].health = "up"
  /\ \E d \in RebindDues(p) \cup {0} :
       Set(p, [h[p] EXCEPT !.due = d, !.latched = FALSE, !.refused = FALSE, !.reask = 0])
  /\ reg' = Publish(p, "up")
  /\ UNCHANGED <<box, sweep, strangers>>

\* A healthy look that also makes the periodic signed connect (checkIn). An
\* answer from another box starts a renewal; one for another address is not
\* used, and puts off the next try.
CheckIn(p) ==
  /\ Watching(p) /\ h[p].health = "up" /\ h[p].checkIns > 0
  /\ \E d \in RebindDues(p) \cup {0} :
       LET healthy == [h[p] EXCEPT !.due = d, !.latched = FALSE, !.refused = FALSE,
                                   !.reask = 0, !.checkIns = @ - 1]
       IN \/ /\ box' = [box EXCEPT ![AddrOf[p]] = p]
             /\ \/ Set(p, healthy)
                \/ Set(p, [healthy EXCEPT !.pc = "register", !.left = PhaseTicks])
          \/ /\ "wrong" \in Faults
             /\ \E w \in 1..MaxBackoff :
                  Set(p, [healthy EXCEPT !.due = NowDue + w, !.unreached = FALSE])
             /\ UNCHANGED box
  /\ reg' = Publish(p, "up")
  /\ UNCHANGED <<sweep, strangers>>

\* The tunnel is silent, or has just been: the record says so.
StepSilent(p) ==
  /\ Watching(p) /\ h[p].health = "silent"
  /\ \E d \in RebindDues(p) : Set(p, [h[p] EXCEPT !.due = d])
  /\ reg' = Publish(p, "down")
  /\ UNCHANGED <<box, sweep, strangers>>

\* When a tunnel that asks may be replaced: the first look of an outage adds
\* the fleet jitter.
LatchedDues(p) ==
  IF h[p].latched
    THEN RebindDues(p)
    ELSE {IF d < NowDue + j THEN NowDue + j ELSE d : d \in RebindDues(p), j \in {0, 1}}

\* The tunnel asks for a fresh session: not yet, or another holder should.
StepWait(p) ==
  /\ Watching(p) /\ h[p].health = "stuck"
  /\ \E d \in LatchedDues(p) :
       /\ d > NowDue \/ YieldToAnotherHolder(p)
       /\ Set(p, [h[p] EXCEPT !.due = d, !.latched = TRUE])
  /\ reg' = Publish(p, "down")
  /\ UNCHANGED <<box, sweep, strangers>>

StepRenew(p) ==
  /\ Watching(p) /\ h[p].health = "stuck"
  /\ ~YieldToAnotherHolder(p)
  /\ \E d \in LatchedDues(p) :
       /\ d <= NowDue
       /\ Set(p, [h[p] EXCEPT !.pc = "register", !.left = PhaseTicks,
                              !.due = d, !.latched = TRUE])
  /\ reg' = Publish(p, "down")
  /\ UNCHANGED <<box, sweep, strangers>>

\* The loop has something to do about a tunnel that asks.
RenewDue(p) ==
  /\ Watching(p) /\ h[p].health = "stuck"
  /\ h[p].latched => h[p].due <= NowDue /\ ~YieldToAnotherHolder(p)

-----------------------------------------------------------------------------
(* step, with nothing serving. The try is due: the record says "now" first. *)

IdleDue(p) == h[p].pc = "watch" /\ h[p].sess = 0 /\ h[p].due <= NowDue

PortTaken(p) == h[p].listen # 0 /\ Answers(h[p].listen)

\* portTaken: another holder serves this address on this port.
StandDown(p) ==
  /\ IdleDue(p) /\ PortTaken(p) /\ p \notin Supervised
  /\ PortServesOurAddress(p, h[p].listen)
  /\ Set(p, Closing(p))
  /\ reg' = PublishHolder(p, StateOf(p), NowDue)
  /\ UNCHANGED <<box, sweep, strangers>>

\* portTaken: some other proxy is on the port.
WaitForPort(p) ==
  /\ IdleDue(p) /\ PortTaken(p) /\ p \notin Supervised
  /\ ~PortServesOurAddress(p, h[p].listen)
  /\ \E d \in RetryDues(p, FALSE) :
       /\ Set(p, [h[p] EXCEPT !.due = d, !.unreached = FALSE])
       /\ reg' = PublishHolder(p, StateOf(p), d)
  /\ UNCHANGED <<box, sweep, strangers>>

\* A service whose port is taken moves to a free one.
ListenNow(p) == IF PortTaken(p) THEN 0 ELSE h[p].listen

YieldIdle(p) ==
  /\ IdleDue(p) /\ (PortTaken(p) => p \in Supervised)
  /\ YieldToAnotherHolder(p)
  /\ LET d == NotBeforeRefusal(p, NowDue + 1) IN
       /\ Set(p, [h[p] EXCEPT !.due = d, !.listen = ListenNow(p)])
       /\ reg' = PublishHolder(p, StateOf(p), d)
  /\ UNCHANGED <<box, sweep, strangers>>

RenewIdle(p) ==
  /\ IdleDue(p) /\ (PortTaken(p) => p \in Supervised)
  /\ ~YieldToAnotherHolder(p)
  /\ Set(p, [h[p] EXCEPT !.pc = "register", !.left = PhaseTicks,
                         !.due = NowDue, !.listen = ListenNow(p)])
  /\ reg' = PublishHolder(p, StateOf(p), NowDue)
  /\ UNCHANGED <<box, sweep, strangers>>

-----------------------------------------------------------------------------
(* renewNow, first half: the signed connect.                               *)

Registering(p) == h[p].pc = "register"

\* The box takes this holder's peer for the address. While an old tunnel is
\* still held, its record says "nothing serves" before its proxy goes.
RegisterOk(p) ==
  /\ Registering(p)
  /\ box' = [box EXCEPT ![AddrOf[p]] = p]
  /\ Set(p, [h[p] EXCEPT !.pc = "swap", !.left = 0])
  /\ reg' = IF h[p].sess # 0 THEN PublishHolder(p, "down", h[p].due) ELSE reg
  /\ UNCHANGED <<sweep, strangers>>

\* registerFailed, transiently. One that never reached the control plane
\* keeps the base wait; one whose answer was lost has moved the peer.
RegisterFailed(p) ==
  /\ Registering(p)
  /\ \E fault \in Faults \cap {"failed", "lost", "unreached"} :
       \E d \in RetryDues(p, fault = "unreached") :
         /\ Set(p, [h[p] EXCEPT !.pc = "watch", !.left = 0, !.due = d,
                                !.unreached = fault = "unreached"])
         /\ reg' = IF h[p].sess = 0 THEN PublishHolder(p, StateOf(p), d) ELSE reg
         /\ box' = IF fault = "lost" THEN [box EXCEPT ![AddrOf[p]] = p] ELSE box
  /\ UNCHANGED <<sweep, strangers>>

\* Mutant: a refusal is asked again as soon as any failure.
RegisterRefusedSoon(p) ==
  /\ Registering(p) /\ "refused" \in Faults
  /\ Set(p, [h[p] EXCEPT !.pc = "letgo", !.left = 0, !.refused = TRUE,
                         !.due = NowDue + MaxBackoff, !.reask = RefusalWait])
  /\ reg' = PublishHolder(p, "refused", NowDue + MaxBackoff)
  /\ UNCHANGED <<box, sweep, strangers>>

\* registerFailed, renewFinal: published as refused, then the tunnel is let go.
RegisterRefused(p) ==
  /\ Registering(p) /\ "refused" \in Faults
  /\ Set(p, [h[p] EXCEPT !.pc = "letgo", !.left = 0, !.refused = TRUE,
                         !.due = NowDue + RefusalWait, !.reask = RefusalWait])
  /\ reg' = PublishHolder(p, "refused", NowDue + RefusalWait)
  /\ UNCHANGED <<box, sweep, strangers>>

LetGo(p) ==
  /\ h[p].pc = "letgo"
  /\ Set(p, [h[p] EXCEPT !.pc = "watch", !.sess = 0, !.health = "up", !.quiet = 0])
  /\ UNCHANGED <<reg, box, sweep, strangers>>

\* The retry every failure of a renewal ends in, once nothing serves.
RetryIdle(p, state) ==
  \E d \in RetryDues(p, FALSE) :
    /\ Set(p, [h[p] EXCEPT !.pc = "watch", !.left = 0, !.sess = 0,
                           !.due = d, !.unreached = FALSE])
    /\ reg' = PublishHolder(p, state, d)

\* wrongAddress: an answer for another /128 is never used.
WrongAddress(p) ==
  /\ h[p].pc \in {"register", "verify"} /\ "wrong" \in Faults
  /\ IF h[p].pc = "register" /\ h[p].sess # 0
       THEN /\ \E d \in RetryDues(p, FALSE) :
                 Set(p, [h[p] EXCEPT !.pc = "watch", !.left = 0, !.due = d, !.unreached = FALSE])
            /\ UNCHANGED reg
       ELSE RetryIdle(p, "down")
  /\ UNCHANGED <<box, sweep, strangers>>

-----------------------------------------------------------------------------
(* renewNow, second half: the old tunnel goes and a new one is verified.   *)

\* A service off its pinned port goes back to it once it is free.
PortToBind(p) ==
  IF /\ p \in Supervised
     /\ h[p].listen \notin {0, h[p].pinned}
     /\ \A q \in Holder \ {p} : h[q].sess # h[p].pinned
    THEN h[p].pinned
    ELSE h[p].listen

\* The old tunnel stops.
Swap(p) ==
  /\ h[p].pc = "swap"
  /\ Set(p, [h[p] EXCEPT !.pc = "bringup", !.left = PhaseTicks, !.sess = 0,
                         !.health = "up", !.quiet = 0, !.listen = PortToBind(p)])
  /\ UNCHANGED <<reg, box, sweep, strangers>>

\* The new proxy binds; its egress is not verified yet.
Bind(p) ==
  /\ h[p].pc = "bringup"
  /\ \E q \in Port :
       /\ h[p].listen \in {0, q}
       /\ ~Answers(q)
       /\ Set(p, [h[p] EXCEPT !.pc = "verify", !.sess = q])
  /\ UNCHANGED <<reg, box, sweep, strangers>>

\* Mutant: the record of the port it left stays.
AdoptKeepingTheOld(p, q, tier) ==
  /\ Set(p, [h[p] EXCEPT !.pc = "watch", !.left = 0, !.sess = q, !.tier = tier,
                         !.health = "up", !.latched = FALSE, !.unreached = FALSE,
                         !.refused = FALSE, !.reask = 0, !.endpoint = q, !.listen = q])
  /\ reg' = [reg EXCEPT ![<<AddrOf[p], q>>] =
       [pid |-> p, state |-> IF tier = "wireguard" THEN "up" ELSE "",
        wg |-> tier = "wireguard", noProxy |-> FALSE, fresh |-> 0]]

\* adopt: the verified session is the held one and the registry names it. A
\* session on another port takes its old record with it.
Adopt(p, q, tier) ==
  /\ Set(p, [h[p] EXCEPT !.pc = "watch", !.left = 0, !.sess = q, !.tier = tier,
                         !.health = "up", !.latched = FALSE, !.unreached = FALSE,
                         !.refused = FALSE, !.reask = 0, !.endpoint = q, !.listen = q])
  /\ reg' = [k \in Path |->
       IF k = <<AddrOf[p], q>>
         THEN [pid |-> p, state |-> IF tier = "wireguard" THEN "up" ELSE "",
               wg |-> tier = "wireguard", noProxy |-> FALSE, fresh |-> 0]
         ELSE IF k = OwnPath(p) /\ reg[k].pid = p THEN NoRecord ELSE reg[k]]

VerifyOk(p) ==
  /\ h[p].pc = "verify"
  /\ box[AddrOf[p]] = p
  /\ Adopt(p, h[p].sess, "wireguard")
  /\ UNCHANGED <<box, sweep, strangers>>

\* The bring-up failed for a reason other than its port: always, once another
\* connect has taken the peer.
BringUpFailed(p) ==
  /\ h[p].pc \in {"bringup", "verify"}
  /\ "bringup" \in Faults \/ box[AddrOf[p]] # p \/ \A q \in Port : Answers(q)
  /\ RetryIdle(p, "down")
  /\ UNCHANGED <<box, sweep, strangers>>

\* A session that negotiated its tier lands on an egress tier instead, on the
\* same port. Nothing watches it from then on.
FallBack(p) ==
  /\ h[p].pc \in {"bringup", "verify"} /\ p \in Negotiated
  /\ \E q \in Port :
       /\ h[p].listen \in {0, q}
       /\ \A r \in Holder \ {p} : h[r].sess # q
       /\ Adopt(p, q, "egress")
  /\ UNCHANGED <<box, sweep, strangers>>

\* The port was taken meanwhile: the same decision as before a connect.
BindFailed(p) ==
  /\ h[p].pc = "bringup" /\ PortTaken(p)
  /\ IF p \notin Supervised /\ PortServesOurAddress(p, h[p].listen)
       THEN /\ Set(p, Closing(p))
            /\ UNCHANGED reg
       ELSE \E d \in RetryDues(p, FALSE) :
            /\ Set(p, [h[p] EXCEPT !.pc = "watch", !.left = 0, !.due = d, !.unreached = FALSE,
                                   !.listen = IF p \in Supervised THEN 0 ELSE @])
            /\ reg' = PublishHolder(p, IF p \in Supervised THEN "down" ELSE StateOf(p), d)
  /\ UNCHANGED <<box, sweep, strangers>>

-----------------------------------------------------------------------------
(* Ending a hold.                                                          *)

\* SIGINT, SIGTERM or the service manager: a renewal in flight is cancelled.
Signal(p) ==
  /\ p \in Stoppable
  /\ Running(p) /\ h[p].pc \notin {"closing", "unlink"}
  /\ Set(p, Closing(p))
  /\ UNCHANGED <<reg, box, sweep, strangers>>

\* close: the proxy stops, then the record is removed if it is still ours.
CloseStop(p) ==
  /\ h[p].pc = "closing" /\ h[p].sess # 0
  /\ Set(p, [h[p] EXCEPT !.sess = 0])
  /\ UNCHANGED <<reg, box, sweep, strangers>>

\* ownsSessionRecord.
CloseCheck(p) ==
  /\ h[p].pc = "closing" /\ h[p].sess = 0
  /\ Set(p, IF reg[OwnPath(p)].pid = p THEN [h[p] EXCEPT !.pc = "unlink"] ELSE Off("gone"))
  /\ UNCHANGED <<reg, box, sweep, strangers>>

\* removeSessionRecordAt.
CloseUnlink(p) ==
  /\ h[p].pc = "unlink"
  /\ Set(p, Off("gone"))
  /\ reg' = [reg EXCEPT ![OwnPath(p)] = NoRecord]
  /\ UNCHANGED <<box, sweep, strangers>>

\* Killed with no cleanup; the pid may come to name a stranger.
Kill(p) ==
  /\ p \in Mortal /\ Running(p)
  /\ Set(p, Off("killed"))
  /\ strangers' \in {strangers, strangers \cup {p}}
  /\ UNCHANGED <<reg, box, sweep>>

-----------------------------------------------------------------------------
(* One-shots: findLiveSession, findProvenSession, status and the sweep     *)
(* before a spawn read a record, probe its port, and unlink the file.      *)

SweepRead(w, k) ==
  /\ sweep[w].stage = "idle"
  /\ reg[k].pid # 0
  /\ ~HeldWithoutProxy(reg[k])
  /\ sweep' = [sweep EXCEPT ![w] = [stage |-> "probe", path |-> k]]
  /\ UNCHANGED <<h, reg, box, strangers>>

SweepProbe(w) ==
  /\ sweep[w].stage = "probe"
  /\ sweep' = [sweep EXCEPT ![w] =
       IF Answers(@.path[2]) THEN Idle ELSE [@ EXCEPT !.stage = "unlink"]]
  /\ UNCHANGED <<h, reg, box, strangers>>

SweepUnlink(w) ==
  /\ sweep[w].stage = "unlink"
  /\ reg' = [reg EXCEPT ![sweep[w].path] = NoRecord]
  /\ sweep' = [sweep EXCEPT ![w] = Idle]
  /\ UNCHANGED <<h, box, strangers>>

-----------------------------------------------------------------------------
(* Time. A phase with a deadline ends by it; what the supervisor does      *)
(* between two waits takes no time. A suspended host ticks on while its    *)
(* holders watch; on one that is awake the loop looks often enough to see  *)
(* every try when it is due (superviseEvery).                              *)

Down(n) == IF n = 0 THEN 0 ELSE n - 1

Urgent(p) ==
  \/ h[p].pc \in {"swap", "letgo", "closing", "unlink"}
  \/ h[p].pc \in {"register", "bringup", "verify"} /\ h[p].left = 0
  \/ ~Sleeps /\ IdleDue(p)
  \/ ~Sleeps /\ RenewDue(p)

Tick ==
  /\ \A p \in Holder : ~Urgent(p)
  /\ \A w \in Sweeper : sweep[w].stage = "idle"
  /\ h' = [p \in Holder |->
       [h[p] EXCEPT !.due = Down(@), !.reask = Down(@), !.left = Down(@),
                   !.quiet = Down(@)]]
  /\ reg' = [k \in Path |-> [reg[k] EXCEPT !.fresh = Down(@)]]
  /\ UNCHANGED <<box, sweep, strangers>>

-----------------------------------------------------------------------------

Init ==
  /\ h = [p \in Holder |-> Off("new")]
  /\ reg = [k \in Path |-> NoRecord]
  /\ box = [a \in Address |-> 0]
  /\ sweep = [w \in Sweeper |-> Idle]
  /\ strangers = {}

\* What the supervisor's own loop does next.
Step(p) ==
  \/ StepHealthy(p) \/ StepSilent(p) \/ StepWait(p) \/ StepRenew(p)
  \/ StandDown(p) \/ WaitForPort(p) \/ YieldIdle(p) \/ RenewIdle(p)
  \/ LetGo(p) \/ Swap(p) \/ Bind(p) \/ BindFailed(p)
  \/ CloseStop(p) \/ CloseCheck(p) \/ CloseUnlink(p)

\* What the control plane, the network and the box answer.
Answer(p) ==
  \/ RegisterOk(p) \/ RegisterFailed(p) \/ RegisterRefused(p) \/ WrongAddress(p)
  \/ VerifyOk(p) \/ BringUpFailed(p) \/ FallBack(p)

Sweep(w) ==
  \/ \E k \in Path : SweepRead(w, k)
  \/ SweepProbe(w) \/ SweepUnlink(w)

Next ==
  \/ \E p \in Holder :
       Start(p) \/ Step(p) \/ CheckIn(p) \/ Answer(p) \/ Monitor(p) \/ Signal(p) \/ Kill(p)
  \/ \E w \in Sweeper : Sweep(w)
  \/ \E a \in Address : BoxDrop(a)
  \/ Tick

Spec == Init /\ [][Next]_vars

\* The loop runs (superviseTicker), the monitor runs, time passes, a phase
\* ends by its deadline, and a holder that keeps asking is now and then
\* given a session: the last is the environment's.
Fairness ==
  /\ SF_vars(Tick)
  /\ \A p \in Holder :
       /\ WF_vars(Step(p)) /\ WF_vars(Monitor(p)) /\ WF_vars(Answer(p))
       /\ SF_vars(RegisterOk(p)) /\ SF_vars(Bind(p)) /\ SF_vars(VerifyOk(p))

FairSpec == Spec /\ Fairness

\* Somebody runs a one-shot now and then, and it looks at every record.
SweepFairness ==
  \A w \in Sweeper :
    /\ WF_vars(SweepProbe(w)) /\ WF_vars(SweepUnlink(w))
    /\ \A k \in Path : SF_vars(SweepRead(w, k))

SweptSpec == FairSpec /\ SweepFairness

-----------------------------------------------------------------------------
(* Properties.                                                             *)

\* While a refusal stands, no connect is sent before the re-ask it scheduled,
\* whatever else asked for a try meanwhile (notBeforeRefusal).
RefusalKept ==
  [][\A p \in Holder :
       /\ h[p].pc # "register" /\ h'[p].pc = "register"
       /\ h[p].refused
       => h[p].reask = 0]_vars

\* Whoever reads the registry is told the truth about a holder at rest: it
\* owns at most the file of the endpoint it names, and the file says there is
\* no proxy exactly when it serves none (publish, publishHolder, adopt).
RecordsTellTheTruth ==
  \A p \in Holder, k \in Path :
    reg[k].pid = p /\ h[p].pc = "watch"
      => /\ k = OwnPath(p)
         /\ reg[k].noProxy <=> h[p].sess = 0

\* The records r seen from a holder p in state s: a running holder names an
\* endpoint, has no proxy before it binds and one while it verifies, a file
\* with its pid is that endpoint's, and from the moment a connect has been
\* accepted until a session is adopted the file says there is no proxy.
Follows(p, s, r) ==
  /\ s.pc \notin {"new", "gone", "killed"} => s.endpoint \in Port
  /\ s.pc = "bringup" => s.sess = 0
  /\ s.pc = "verify" => s.sess \in Port
  /\ \A k \in Path :
       r[k].pid = p /\ s.pc # "killed"
         => /\ s.pc \notin {"new", "gone"}
            /\ k = <<AddrOf[p], s.endpoint>>
            /\ s.pc \in {"watch", "register"} => (r[k].noProxy <=> s.sess = 0)
            /\ s.pc \in {"letgo", "swap", "bringup", "verify"} => r[k].noProxy

\* Why the registry tells the truth, over every step of a hold: inductive.
RecordsFollowTheHold == \A p \in Holder : Follows(p, h[p], reg)

\* A serving holder is listed at the port it serves, whatever moves, stand
\* downs and failed renewals came before (adopt, writeSessionRecord). Holds
\* where nothing is swept and nobody is closing a hold at the same time.
ServingIsListed ==
  \A p \in Holder :
    h[p].pc = "watch" /\ h[p].sess # 0
      => LET rec == reg[<<AddrOf[p], h[p].sess>>] IN rec.pid = p /\ ~rec.noProxy

\* A service's hold ends only when its service manager stops it, whatever it
\* finds on its port (portTaken). Stated for a service nobody stops.
ServiceHolds == \A p \in Supervised : h[p].pc \notin {"closing", "unlink", "gone"}

\* A connect made with nothing serving runs under a record that still reads
\* as a live holder's, even on a host that slept through its due time.
IdleConnectIsVisible ==
  \A p \in Holder :
    h[p].pc = "register" /\ h[p].sess = 0 /\ reg[OwnPath(p)].pid = p
      => HeldWithoutProxy(reg[OwnPath(p)])

\* The same for the bring-up of every renewal: nothing may mistake this
\* holder for a crashed one and delete its record (renewNow).
BringUpIsVisible ==
  \A p \in Holder :
    h[p].pc = "bringup" /\ reg[OwnPath(p)].pid = p
      => HeldWithoutProxy(reg[OwnPath(p)])

\* A sweep removes the records of dead holders only. TLC refutes it: a probe and
\* the unlink after it are two steps (liveStatusSessions).
SweepSparesTheLiving ==
  [][\A w \in Sweeper :
       /\ sweep[w].stage = "unlink"
       /\ sweep'[w].stage = "idle"
       => LET p == reg[sweep[w].path].pid IN p = 0 \/ ~Running(p)]_vars

\* The clean-up of a hold removes only the record that hold wrote.
CleanUpSparesOthers ==
  [][\A p \in Holder : CloseUnlink(p) => reg[OwnPath(p)].pid \in {0, p}]_vars

Served(a) ==
  \E p \in Holder : AddrOf[p] = a /\ (Carries(p) \/ (h[p].sess # 0 /\ h[p].tier = "egress"))

Abandoned(a) == \A p \in Holder : AddrOf[p] = a => ~Running(p)

\* As long as some holder of an address runs, its connects are sometimes
\* accepted and the box keeps the peer it was given, the address is served
\* again: no set of holders waits for each other, or for a record nobody
\* stands behind, for ever.
Recovers ==
  \A a \in Address :
    <>[][~BoxDrop(a)]_box => []<>(Served(a) \/ Abandoned(a))

\* The record of a dead holder goes, even one that says its holder is between
\* two sessions, and even once its pid names another process: its next try is
\* long past (heldWithoutProxy).
DeadRecordsGo ==
  \A p \in Holder, k \in Path :
    (h[p].pc = "killed" /\ reg[k].pid = p) ~> (reg[k].pid # p)

\* A holder between two sessions whose record a sweep has taken lists itself
\* again (publishHolder).
IdleIsListedAgain ==
  \A p \in Holder :
    (h[p].pc = "watch" /\ h[p].sess = 0 /\ reg[OwnPath(p)].pid = 0)
      ~> (~Running(p) \/ h[p].sess # 0 \/ reg[OwnPath(p)].pid # 0)

\* Holders of one address stop taking its peer from each other.
FightsEnd == <>[][box' = box]_box
=============================================================================
