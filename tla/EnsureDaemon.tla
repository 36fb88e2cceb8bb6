------------------------------ MODULE EnsureDaemon ------------------------------
(***************************************************************************)
(* `whisper connect --ensure` and the detached daemons it spawns           *)
(* (internal/cli/ensure.go, daemon.go), for one project: one /128, one     *)
(* pinned loopback port, one pidfile.                                      *)
(*                                                                         *)
(*   e        one record per --ensure: where it is, and what it has seen   *)
(*   d        one record per daemon: rootless, or the installed service's  *)
(*   bound    who holds the pinned port (a daemon, a foreign listener, 0)  *)
(*   reg      the registry's file for the pinned port, pid 0 = no file     *)
(*   pidfile  the pid in .whisper/connect.pid, 0 = no file                 *)
(*                                                                         *)
(* A daemon binds its port before it verifies its egress, and writes its   *)
(* record after: an --ensure says "up" on a probe and a record together.   *)
(* The supervision of a hold is SessionHolders; here a hold serves, or is  *)
(* between two sessions. A port other than the pinned one, and the record  *)
(* of a session on it, concern no --ensure and are left out.               *)
(***************************************************************************)
EXTENDS Integers, FiniteSets

CONSTANTS
  Ensurer,     \* runs of --ensure
  Daemon,      \* pids of daemons
  Supervised,  \* the ones a service manager starts
  Mortal,      \* the ones that may be killed
  Stoppable,   \* the ones that may be asked to stop
  Dropping,    \* the ones whose session may be lost during the hold
  Foreign,     \* listeners that are no Whisper proxy
  Faults,      \* what may go wrong: "agent", "local", "connect", "refused", "verify"
  Retries,     \* len(daemonRetryBackoff)
  Rounds       \* a bound on how often an --ensure is run

ASSUME EnsureAssumption ==
  /\ Daemon \subseteq Nat \ {0}
  /\ Foreign \subseteq Nat \ {0}
  /\ Daemon \cap Foreign = {}
  /\ Supervised \subseteq Daemon
  /\ Mortal \subseteq Daemon
  /\ Stoppable \subseteq Daemon
  /\ Dropping \subseteq Daemon
  /\ Faults \subseteq {"agent", "local", "connect", "refused", "verify"}
  /\ Retries \in Nat
  /\ Rounds \in Nat

VARIABLES e, d, bound, reg, pidfile

vars == <<e, d, bound, reg, pidfile>>

Record == [pid : Daemon \cup {0}, state : {"", "up", "down", "refused"}, noProxy : BOOLEAN]
NoRecord == [pid |-> 0, state |-> "", noProxy |-> FALSE]

EnsurerPC ==
  {"done", "probe", "check", "sweep", "unlink", "spawn", "pidfile", "wait", "verified",
   "up", "failed"}

EnsurerState ==
  [pc : EnsurerPC, seen : Daemon \cup {0}, rec : Record,
   child : Daemon \cup {0}, rounds : 0..Rounds]

DaemonPC ==
  {"off", "start", "busy", "agent", "connect", "bind", "verify", "stop", "failed",
   "backoff", "refused", "down", "holdcheck", "holdunlink", "mark", "record",
   "hold", "drop", "idle", "closing", "closecheck", "unlink", "pidread", "piddel",
   "gone", "killed"}

\* pinned: its endpoint, and so its record, is the pinned port's. listen: its
\* next bring-up asks for the pinned port. home: its hold started there.
DaemonState ==
  [pc : DaemonPC, pinned : BOOLEAN, listen : BOOLEAN, home : BOOLEAN, attempt : 0..Retries, resolved : BOOLEAN, final : BOOLEAN,
   verified : BOOLEAN, holding : BOOLEAN, stopped : BOOLEAN, ensured : BOOLEAN]

NewEnsurer == [pc |-> "done", seen |-> 0, rec |-> NoRecord, child |-> 0, rounds |-> 0]

\* A pid no process has had yet.
NewDaemon ==
  [pc |-> "off", pinned |-> TRUE, listen |-> TRUE, home |-> TRUE, attempt |-> 0,
   resolved |-> FALSE, final |-> FALSE, verified |-> FALSE, holding |-> FALSE, stopped |-> FALSE, ensured |-> FALSE]

TypeOK ==
  /\ e \in [Ensurer -> EnsurerState]
  /\ d \in [Daemon -> DaemonState]
  /\ bound \in Daemon \cup Foreign \cup {0}
  /\ reg \in Record
  /\ pidfile \in Daemon \cup {0}

-----------------------------------------------------------------------------

\* probeWhisperProxy on the pinned port.
Answers == bound \in Daemon

Alive(p) == p # 0 /\ d[p].pc \notin {"off", "gone", "killed"}

\* heldWithoutProxy: a live holder that serves nothing now, and has not said
\* so for longer than a renewal takes.
HeldWithoutProxy(rec, overdue) == rec.noProxy /\ ~overdue /\ Alive(rec.pid)

\* Mutant: a proxy that answers is enough.
AnyAnswerIsUp == TRUE

\* verifiedSessionOnPort: some session is on record for the port.
VerifiedSessionOnPort == reg.pid # 0 /\ ~reg.noProxy /\ reg.state # "refused"

SetE(w, s) == e' = [e EXCEPT ![w] = s]
SetD(p, s) == d' = [d EXCEPT ![p] = s]
GoTo(p, pc) == SetD(p, [d[p] EXCEPT !.pc = pc])
Unbind(p) == bound' = IF bound = p THEN 0 ELSE bound

-----------------------------------------------------------------------------
(* ensureDaemon.                                                           *)

\* Another run of --ensure: a hook runs it at every session's start.
Ensure(w) ==
  /\ e[w].pc \in {"done", "up", "failed"}
  /\ e[w].rounds < Rounds
  /\ SetE(w, [NewEnsurer EXCEPT !.pc = "probe", !.rounds = e[w].rounds + 1])
  /\ UNCHANGED <<d, bound, reg, pidfile>>

\* The first probe: something answers, or the port's stale records are swept.
Probe(w) ==
  /\ e[w].pc = "probe"
  /\ SetE(w, IF Answers
               THEN [e[w] EXCEPT !.pc = "check", !.seen = bound]
               ELSE [e[w] EXCEPT !.pc = "sweep", !.rec = reg])
  /\ UNCHANGED <<d, bound, reg, pidfile>>

\* A proxy that answers with a verified session on record is already up.
Check(w) ==
  /\ e[w].pc \in {"check", "verified"}
  /\ SetE(w, [e[w] EXCEPT !.pc = IF VerifiedSessionOnPort THEN "up" ELSE "wait"])
  /\ UNCHANGED <<d, bound, reg, pidfile>>

\* sweepStaleSessionRecordsForPort, of the record read before.
SweepSpares(rec, overdue) ==
  rec.pid = 0 \/ Answers \/ HeldWithoutProxy(rec, overdue)

SweepProbe(w) ==
  /\ e[w].pc = "sweep"
  /\ \E overdue \in BOOLEAN :
       SetE(w, [e[w] EXCEPT !.pc = IF SweepSpares(e[w].rec, overdue) THEN "spawn" ELSE "unlink"])
  /\ UNCHANGED <<d, bound, reg, pidfile>>

SweepUnlink(w) ==
  /\ e[w].pc = "unlink"
  /\ SetE(w, [e[w] EXCEPT !.pc = "spawn"])
  /\ reg' = NoRecord
  /\ UNCHANGED <<d, bound, pidfile>>

\* spawnConnectDaemon: the child runs before its pid is on file.
Spawn(w) ==
  /\ e[w].pc = "spawn"
  /\ \E p \in Daemon \ Supervised :
       /\ d[p].pc = "off"
       /\ GoTo(p, "start")
       /\ SetE(w, [e[w] EXCEPT !.pc = "pidfile", !.child = p])
  /\ UNCHANGED <<bound, reg, pidfile>>

WritePid(w) ==
  /\ e[w].pc = "pidfile"
  /\ pidfile' = e[w].child
  /\ SetE(w, [e[w] EXCEPT !.pc = "wait"])
  /\ UNCHANGED <<d, bound, reg>>

\* waitForVerifiedProxy, until the budget is spent.
WaitProbe(w) ==
  /\ e[w].pc = "wait" /\ Answers
  /\ SetE(w, [e[w] EXCEPT !.pc = "verified", !.seen = bound])
  /\ UNCHANGED <<d, bound, reg, pidfile>>

GiveUp(w) ==
  /\ e[w].pc = "wait"
  /\ SetE(w, [e[w] EXCEPT !.pc = "failed"])
  /\ UNCHANGED <<d, bound, reg, pidfile>>

-----------------------------------------------------------------------------
(* runConnectDaemon, up to its first attempt.                              *)

\* A service manager starts the service, one process at a time.
Launch(p) ==
  /\ p \in Supervised /\ d[p].pc = "off"
  /\ \A q \in Supervised : ~Alive(q)
  /\ GoTo(p, "start")
  /\ UNCHANGED <<e, bound, reg, pidfile>>

\* resolveDaemonPort: the guard's listen, and the probe of what holds the port.
TryPort(p) ==
  /\ d[p].pc = "start"
  /\ SetD(p, [d[p] EXCEPT !.pc = IF bound = 0 THEN "agent" ELSE "busy"])
  /\ UNCHANGED <<e, bound, reg, pidfile>>

PortBusy(p) ==
  /\ d[p].pc = "busy"
  /\ SetD(p, IF Answers /\ p \notin Supervised
               THEN [d[p] EXCEPT !.pc = "gone", !.ensured = TRUE]
               ELSE [d[p] EXCEPT !.pc = "agent", !.pinned = FALSE, !.listen = FALSE,
                                 !.home = FALSE])
  /\ UNCHANGED <<e, bound, reg, pidfile>>

\* resolveAgentArg.
ResolveAgent(p) ==
  /\ d[p].pc = "agent"
  /\ SetD(p, [d[p] EXCEPT !.pc = "connect", !.resolved = TRUE])
  /\ UNCHANGED <<e, bound, reg, pidfile>>

\* publishHolderRecord: written over whatever is there, but for no free port.
PublishHolderRecord(p, state) ==
  reg' = IF d[p].pinned THEN [pid |-> p, state |-> state, noProxy |-> TRUE] ELSE reg

\* holdRefused, holdDown: the service says why, and waits.
Hold(p, state) ==
  /\ GoTo(p, state)
  /\ PublishHolderRecord(p, state)

AgentFailed(p) ==
  /\ d[p].pc = "agent" /\ "agent" \in Faults
  /\ IF p \in Supervised
       THEN Hold(p, "down") \/ Hold(p, "refused")
       ELSE GoTo(p, "gone") /\ UNCHANGED reg
  /\ UNCHANGED <<e, bound, pidfile>>

\* No client, no keys, or an enforced run that has the agent's lock: the
\* process ends, supervised or not.
LocalFailed(p) ==
  /\ d[p].pc = "agent" /\ "local" \in Faults
  /\ GoTo(p, "gone")
  /\ UNCHANGED <<e, bound, reg, pidfile>>

-----------------------------------------------------------------------------
(* daemonConnectAttempt: op:connect, bind, verify.                         *)

Connect(p) ==
  /\ d[p].pc = "connect"
  /\ \/ GoTo(p, "bind")
     \/ \E final \in BOOLEAN :
          /\ (IF final THEN "refused" ELSE "connect") \in Faults
          /\ SetD(p, [d[p] EXCEPT !.pc = "failed", !.final = final])
  /\ UNCHANGED <<e, bound, reg, pidfile>>

\* The proxy binds its port before anything is verified, or not at all.
BindPort(p) ==
  /\ d[p].pc = "bind"
  /\ IF d[p].pinned /\ bound # 0
       THEN /\ SetD(p, [d[p] EXCEPT !.pc = "failed", !.final = FALSE])
            /\ UNCHANGED bound
       ELSE /\ SetD(p, [d[p] EXCEPT !.pc = "verify", !.verified = FALSE])
            /\ bound' = IF d[p].pinned THEN p ELSE bound
  /\ UNCHANGED <<e, reg, pidfile>>

VerifyOk(p) ==
  /\ d[p].pc = "verify" /\ ~d[p].holding
  /\ SetD(p, [d[p] EXCEPT !.pc = "mark", !.verified = TRUE])
  /\ UNCHANGED <<e, bound, reg, pidfile>>

VerifyFailed(p) ==
  /\ d[p].pc = "verify" /\ "verify" \in Faults
  /\ GoTo(p, "stop")
  /\ UNCHANGED <<e, bound, reg, pidfile>>

\* A failed verify tears its proxy down.
StopFailed(p) ==
  /\ d[p].pc = "stop" /\ ~d[p].holding
  /\ SetD(p, [d[p] EXCEPT !.pc = "failed", !.final = FALSE])
  /\ Unbind(p)
  /\ UNCHANGED <<e, reg, pidfile>>

-----------------------------------------------------------------------------
(* After a failed attempt.                                                 *)

\* Mutants: the attempts are not counted; a service gives up like a rootless
\* daemon; the last attempt is one too many.
RetryForEver(p) ==
  /\ d[p].pc = "failed"
  /\ GoTo(p, "backoff")
  /\ UNCHANGED <<e, bound, reg, pidfile>>

GiveUpToo(p) ==
  /\ d[p].pc = "failed"
  /\ SetD(p, IF d[p].attempt < Retries
               THEN [d[p] EXCEPT !.pc = "backoff", !.attempt = @ + 1]
               ELSE [d[p] EXCEPT !.pc = "gone"])
  /\ UNCHANGED <<e, bound, reg, pidfile>>

OneMoreAttempt(p) ==
  /\ d[p].pc = "failed"
  /\ SetD(p, [d[p] EXCEPT !.pc = IF d[p].attempt > Retries THEN "gone" ELSE "backoff",
                          !.attempt = @ + 1])
  /\ UNCHANGED <<e, bound, reg, pidfile>>

\* A service publishes a refusal at once; anything else is tried again on the
\* quick schedule, after which a rootless daemon gives up.
AttemptFailed(p) ==
  /\ d[p].pc = "failed"
  /\ \/ /\ p \in Supervised /\ d[p].final
        /\ Hold(p, "refused")
     \/ /\ ~(p \in Supervised /\ d[p].final)
        /\ d[p].attempt < Retries
        /\ SetD(p, [d[p] EXCEPT !.pc = "backoff", !.attempt = @ + 1])
        /\ UNCHANGED reg
     \/ /\ ~(p \in Supervised /\ d[p].final)
        /\ d[p].attempt = Retries
        /\ IF p \in Supervised
             THEN Hold(p, "down")
             ELSE GoTo(p, "gone") /\ UNCHANGED reg
  /\ UNCHANGED <<e, bound, pidfile>>

\* Another daemon's proxy on the pinned port ends this one.
BackoffOver(p) ==
  /\ d[p].pc = "backoff"
  /\ SetD(p, IF d[p].pinned /\ Answers
               THEN [d[p] EXCEPT !.pc = "gone", !.ensured = TRUE]
               ELSE [d[p] EXCEPT !.pc = "connect"])
  /\ UNCHANGED <<e, bound, reg, pidfile>>

\* holdState: the wait is over, or a stop ends it; its record is removed if it
\* is still ours.
HoldOver(p) ==
  /\ d[p].pc \in {"refused", "down"}
  /\ SetD(p, [d[p] EXCEPT !.pc = "holdcheck", !.final = d[p].pc = "refused"])
  /\ UNCHANGED <<e, bound, reg, pidfile>>

\* Where the loop goes on: a refused connect starts its attempts afresh, a
\* failed one looks at the port first (with the last attempt left).
AfterHold(p) ==
  IF d[p].stopped THEN [d[p] EXCEPT !.pc = "gone"]
  ELSE IF ~d[p].resolved THEN [d[p] EXCEPT !.pc = "agent"]
  ELSE IF d[p].final THEN [d[p] EXCEPT !.pc = "connect", !.attempt = 0]
  ELSE [d[p] EXCEPT !.pc = "backoff"]

HoldCheck(p) ==
  /\ d[p].pc = "holdcheck"
  /\ SetD(p, IF reg.pid = p /\ d[p].pinned
               THEN [d[p] EXCEPT !.pc = "holdunlink"]
               ELSE AfterHold(p))
  /\ UNCHANGED <<e, bound, reg, pidfile>>

HoldUnlink(p) ==
  /\ d[p].pc = "holdunlink"
  /\ SetD(p, AfterHold(p))
  /\ reg' = NoRecord
  /\ UNCHANGED <<e, bound, pidfile>>

-----------------------------------------------------------------------------
(* holdDaemonUntilSignalLive.                                              *)

\* The pidfile gets this daemon's own pid.
Mark(p) ==
  /\ d[p].pc = "mark"
  /\ pidfile' = p
  /\ GoTo(p, "record")
  /\ UNCHANGED <<e, bound, reg>>

\* writeSessionRecord: over whatever is on file for the port.
WriteRecord(p) ==
  /\ d[p].pc = "record"
  /\ SetD(p, [d[p] EXCEPT !.pc = "hold", !.holding = TRUE])
  /\ reg' = IF d[p].pinned THEN [pid |-> p, state |-> "up", noProxy |-> FALSE] ELSE reg
  /\ UNCHANGED <<e, bound, pidfile>>

\* Mutant: only a missing record is written.
PublishHolderMissing(p) ==
  reg' = IF d[p].pinned /\ reg.pid = 0
           THEN [pid |-> p, state |-> "down", noProxy |-> TRUE]
           ELSE reg

\* publishHolder, of a holder between two sessions.
PublishHolder(p) ==
  reg' = IF d[p].pinned /\ reg.pid \in {0, p}
           THEN [pid |-> p, state |-> "down", noProxy |-> TRUE]
           ELSE reg

\* A renewal, or a refusal of one: the record goes first, then the proxy.
Drop(p) ==
  /\ d[p].pc = "hold" /\ p \in Dropping
  /\ GoTo(p, "drop")
  /\ PublishHolder(p)
  /\ UNCHANGED <<e, bound, pidfile>>

Dropped(p) ==
  /\ d[p].pc = "drop"
  /\ GoTo(p, "idle")
  /\ Unbind(p)
  /\ UNCHANGED <<e, reg, pidfile>>

\* Every try of a holder with nothing serving keeps its record fresh.
Announce(p) ==
  /\ d[p].pc = "idle"
  /\ PublishHolder(p)
  /\ UNCHANGED <<e, d, bound, pidfile>>

\* The renewal's bring-up: bound, then verified and recorded, or given up. A
\* service that has moved goes back to its pinned port when that is free,
\* unless it has just lost the port it had moved to as well.
Rebind(p) ==
  /\ d[p].pc = "idle"
  /\ \E back \in BOOLEAN :
       LET listen == d[p].listen \/ back IN
       /\ back => p \in Supervised /\ d[p].home /\ ~d[p].pinned
       /\ listen => bound = 0
       /\ SetD(p, [d[p] EXCEPT !.pc = "verify", !.verified = FALSE, !.listen = listen])
       /\ bound' = IF listen THEN p ELSE bound
  /\ UNCHANGED <<e, reg, pidfile>>

\* adopt: a session that has moved takes its old record along.
Adopt(p) ==
  /\ d[p].pc = "verify" /\ d[p].holding
  /\ SetD(p, [d[p] EXCEPT !.pc = "hold", !.verified = TRUE, !.pinned = d[p].listen])
  /\ reg' = IF d[p].listen THEN [pid |-> p, state |-> "up", noProxy |-> FALSE]
            ELSE IF d[p].pinned /\ reg.pid = p THEN NoRecord ELSE reg
  /\ UNCHANGED <<e, bound, pidfile>>

RebindFailed(p) ==
  /\ d[p].pc = "stop" /\ d[p].holding
  /\ GoTo(p, "idle")
  /\ Unbind(p)
  /\ PublishHolder(p)
  /\ UNCHANGED <<e, pidfile>>

\* portTaken: a service moves, another stands down for one that serves its
\* address.
PortTaken(p) ==
  /\ d[p].pc = "idle" /\ d[p].listen /\ Answers
  /\ \/ /\ p \in Supervised
        /\ SetD(p, [d[p] EXCEPT !.listen = FALSE])
     \/ /\ p \notin Supervised
        /\ reg.pid \notin {0, p} /\ ~reg.noProxy
        /\ GoTo(p, "closing")
  /\ UNCHANGED <<e, bound, reg, pidfile>>

\* A stop is seen by a hold (a renewal in flight is cancelled) and by
\* holdState. Anywhere else it ends the process.
Stop(p) ==
  /\ p \in Stoppable /\ Alive(p) /\ ~d[p].stopped
  /\ \/ /\ d[p].holding /\ d[p].pc \in {"hold", "drop", "idle", "verify", "stop"}
        /\ SetD(p, [d[p] EXCEPT !.pc = "closing", !.stopped = TRUE])
        /\ UNCHANGED bound
     \/ /\ d[p].pc \in {"refused", "down"}
        /\ SetD(p, [d[p] EXCEPT !.pc = "holdcheck", !.stopped = TRUE])
        /\ UNCHANGED bound
     \/ /\ ~d[p].holding /\ d[p].pc \notin {"refused", "down"}
        /\ SetD(p, [d[p] EXCEPT !.pc = "killed", !.stopped = TRUE])
        /\ Unbind(p)
  /\ UNCHANGED <<e, reg, pidfile>>

\* close: the proxy stops, then the record goes if it is still ours.
CloseStop(p) ==
  /\ d[p].pc = "closing"
  /\ GoTo(p, "closecheck")
  /\ Unbind(p)
  /\ UNCHANGED <<e, reg, pidfile>>

CloseCheck(p) ==
  /\ d[p].pc = "closecheck"
  /\ GoTo(p, IF reg.pid = p /\ d[p].pinned THEN "unlink" ELSE "pidread")
  /\ UNCHANGED <<e, bound, reg, pidfile>>

CloseUnlink(p) ==
  /\ d[p].pc = "unlink"
  /\ GoTo(p, "pidread")
  /\ reg' = NoRecord
  /\ UNCHANGED <<e, bound, pidfile>>

\* removeOwnPIDFile: read, then remove.
PidRead(p) ==
  /\ d[p].pc = "pidread"
  /\ GoTo(p, IF pidfile = p THEN "piddel" ELSE "gone")
  /\ UNCHANGED <<e, bound, reg, pidfile>>

PidRemove(p) ==
  /\ d[p].pc = "piddel"
  /\ GoTo(p, "gone")
  /\ pidfile' = 0
  /\ UNCHANGED <<e, bound, reg>>

Kill(p) ==
  /\ p \in Mortal /\ Alive(p)
  /\ GoTo(p, "killed")
  /\ Unbind(p)
  /\ UNCHANGED <<e, reg, pidfile>>

ForeignLeaves ==
  /\ bound \in Foreign
  /\ bound' = 0
  /\ UNCHANGED <<e, d, reg, pidfile>>

-----------------------------------------------------------------------------

Init ==
  /\ e = [w \in Ensurer |-> NewEnsurer]
  /\ d = [p \in Daemon |-> NewDaemon]
  /\ bound \in Foreign \cup {0}
  /\ reg = NoRecord
  /\ pidfile = 0

EnsureStep(w) ==
  \/ Probe(w) \/ Check(w) \/ SweepProbe(w) \/ SweepUnlink(w)
  \/ Spawn(w) \/ WritePid(w) \/ WaitProbe(w) \/ GiveUp(w)

DaemonStep(p) ==
  \/ TryPort(p) \/ PortBusy(p) \/ ResolveAgent(p) \/ AgentFailed(p) \/ LocalFailed(p)
  \/ Connect(p) \/ BindPort(p) \/ VerifyOk(p) \/ VerifyFailed(p) \/ StopFailed(p)
  \/ AttemptFailed(p) \/ BackoffOver(p) \/ HoldOver(p) \/ HoldCheck(p) \/ HoldUnlink(p)
  \/ Mark(p) \/ WriteRecord(p) \/ Dropped(p) \/ Announce(p) \/ Rebind(p)
  \/ Adopt(p) \/ RebindFailed(p) \/ PortTaken(p) \/ CloseStop(p) \/ CloseCheck(p) \/ CloseUnlink(p)
  \/ PidRead(p) \/ PidRemove(p)

Next ==
  \/ \E w \in Ensurer : Ensure(w) \/ EnsureStep(w)
  \/ \E p \in Daemon : Launch(p) \/ DaemonStep(p) \/ Drop(p) \/ Stop(p) \/ Kill(p)
  \/ ForeignLeaves

Spec == Init /\ [][Next]_vars

\* Processes run.
RunningSpec ==
  /\ Spec
  /\ \A w \in Ensurer : WF_vars(EnsureStep(w))
  /\ \A p \in Daemon : WF_vars(DaemonStep(p))

\* Of the environment: a control plane that is asked again and again is now
\* and then reached, and an egress now and then verifies.
FairSpec ==
  /\ RunningSpec
  /\ \A p \in Daemon :
       /\ SF_vars(ResolveAgent(p)) /\ SF_vars(Connect(p) /\ d'[p].pc = "bind")
       /\ SF_vars(VerifyOk(p)) /\ SF_vars(Adopt(p))

-----------------------------------------------------------------------------
(* Properties.                                                             *)

\* The verified gate: an --ensure says "up" only when the proxy that answered,
\* or the one there now, has its egress verified: never of one that is still
\* in a verify that may fail (ensureDaemon, waitForVerifiedProxy).
UpMeansVerified ==
  [][\A w \in Ensurer :
       e[w].pc # "up" /\ e'[w].pc = "up"
         => \E p \in {e[w].seen, bound} \cap Daemon : d[p].verified]_vars

\* The verified marker: a live daemon's record that names a serving session is
\* of a hold whose present proxy has passed its verify, through every renewal,
\* refusal and move (writeSessionRecord, publishHolder, publishHolderRecord).
RecordMeansVerified ==
  \A p \in Daemon :
    reg.pid = p /\ Alive(p) /\ ~reg.noProxy => d[p].verified /\ d[p].holding

\* A rootless daemon ends: it comes to hold a session or is gone, however its
\* attempts fail and whoever takes its port meanwhile (runConnectDaemon).
Settles ==
  \A p \in Daemon \ Supervised :
    d[p].pc = "start" ~> d[p].pc \in {"hold", "gone", "killed"}

\* A service that is not stopped comes up in the end, whatever it was first
\* told and whoever holds its port (runConnectDaemon).
ServiceComesUp ==
  \A p \in Supervised :
    d[p].pc = "start" ~> d[p].pc = "hold" \/ d[p].stopped

\* For a service a busy port is never "already ensured": it does not exit
\* because another proxy is there.
ServiceIsNeverEnsured == \A p \in Supervised : ~d[p].ensured

\* A refused service says so in the registry while it waits (holdRefused). TLC
\* refutes it: a service that moved off its pinned port has no file to write.
RefusalIsPublished ==
  \A p \in Supervised : d[p].pc = "refused" => reg.pid = p

\* A duplicate daemon cannot survive: one rootless daemon holds the session.
NoDuplicateSurvives ==
  \A p, q \in Daemon \ Supervised :
    d[p].pc = "hold" /\ d[q].pc = "hold" => p = q

\* A daemon that ends takes only its own pid off file (removeOwnPIDFile). TLC
\* refutes it: the file is read, and then removed by name.
PidfileSparesOthers ==
  [][\A p \in Daemon : PidRemove(p) => pidfile \in {0, p}]_vars
=============================================================================
