------------------------------ MODULE AgentLock ------------------------------
(***************************************************************************)
(* Who may connect one agent on one host. The box binds one peer per /128, *)
(* so an enforced run (`whisper run --enforce`, internal/cli/              *)
(* run_enforce*.go) and the connects of the same agent keep out of each    *)
(* other's way with an flock and a holder file beside it                   *)
(* (internal/enforce/agentlock_unix.go), and every op:connect asks the     *)
(* holder file first (client.RefuseIfEnforced).                            *)
(*                                                                         *)
(*   p       one record per process, run or connect, of the agent          *)
(*   flock   the kernel's lock table for the agent's lock file             *)
(*   holder  the pid in the holder file, Nobody for no file                *)
(*   box     whose peer the box binds, and whether it is marked exclusive  *)
(*   overtaken  runs that lost their peer since the box last answered      *)
(*           them or their tunnel last carried a probe (a history variable)*)
(***************************************************************************)
EXTENDS FiniteSets

CONSTANTS
  Run,        \* enforced runs; each is root
  Connect,    \* interactive connects and resident daemons
  Root,       \* the connects that run as root and may open the lock file
  ByName,     \* processes whose name of the agent resolves only inside op:connect
  Mortal,     \* processes that may be killed without cleanup
  Marks,      \* what the box may answer in the exclusive column
  Forgets,    \* whether the box may forget a peer, and another host take it
  Nobody,
  Elsewhere   \* any process of another host

Proc == Run \cup Connect

ASSUME ProcAssumption ==
  /\ Run \cap Connect = {}
  /\ Root \subseteq Connect
  /\ ByName \subseteq Proc
  /\ Mortal \subseteq Proc
  /\ Marks \subseteq BOOLEAN
  /\ Forgets \in BOOLEAN
  /\ Nobody \notin Proc
  /\ Elsewhere \notin Proc \cup {Nobody}

VARIABLES p, flock, holder, box, overtaken

vars == <<p, flock, holder, box, overtaken>>

PC == {"new", "lock", "publish", "look", "ask", "request", "verify", "run",
       "serve", "probe", "stop", "decide", "unlink", "unlock", "gone", "killed"}

\* `held` is a run's enforcedHold, or a connect's session, once it has one;
\* `flight` is the box's answer to a renewal that the run has not read yet.
ProcState ==
  [pc : PC, held : BOOLEAN, ran : BOOLEAN, granted : BOOLEAN,
   replaced : BOOLEAN, confirmed : BOOLEAN,
   flight : {"none", "marked", "unmarked", "exclusive"}]

Fresh == [pc |-> "new", held |-> FALSE, ran |-> FALSE, granted |-> FALSE,
          replaced |-> FALSE, confirmed |-> FALSE, flight |-> "none"]

TypeOK ==
  /\ p \in [Proc -> ProcState]
  /\ flock \in [Proc -> {"none", "shared", "exclusive"}]
  /\ holder \in Run \cup {Nobody}
  /\ box \in [peer : Proc \cup {Nobody, Elsewhere}, exclusive : BOOLEAN]
  /\ overtaken \subseteq Run

-----------------------------------------------------------------------------
(* The lock file, the holder file and the box.                             *)

Running(x) == p[x].pc \notin {"new", "gone", "killed"}

ExclusiveFlockHeld == \E r \in Proc : flock[r] = "exclusive"

\* Mutant: a reader that cannot signal the run takes it for dead.
LiveHolderBySignal(listed) ==
  IF holder # Nobody /\ listed /\ ExclusiveFlockHeld /\ Running(holder)
  THEN holder ELSE Nobody

\* The lock table confirms a holder and never rules one out: `listed` is
\* whether this reader's table shows the lock. Otherwise the pid must name a
\* live process that started when the file says.
LiveHolder(listed) ==
  IF holder # Nobody /\ ((listed /\ ExclusiveFlockHeld) \/ Running(holder))
  THEN holder ELSE Nobody

EnforcedHolder(x, listed) ==
  IF LiveHolder(listed) = x THEN Nobody ELSE LiveHolder(listed)

\* A first connect by name has no /128 to ask about.
NotRefused(x, listed) ==
  (x \in ByName /\ ~p[x].held) \/ EnforcedHolder(x, listed) = Nobody

Goes(x, pc) == p' = [p EXCEPT ![x].pc = pc]
Locks(x, mode) == flock' = [flock EXCEPT ![x] = mode]

\* Mutant: the agent inherits the lock's descriptor and outlives its run.
EndsButTheAgent(x, pc) ==
  /\ p' = [p EXCEPT ![x] = [Fresh EXCEPT !.pc = pc]]
  /\ IF pc = "killed" /\ p[x].ran THEN UNCHANGED flock ELSE Locks(x, "none")

\* A process that ends closes its descriptors: the kernel drops its flock.
Ends(x, pc) == p' = [p EXCEPT ![x] = [Fresh EXCEPT !.pc = pc]] /\ Locks(x, "none")

BoxRefuses(x) == box.exclusive /\ box.peer # x

\* op:connect replaces whatever peer the box holds for the /128.
Takes(x, mark) ==
  /\ ~BoxRefuses(x)
  /\ box' = [peer |-> x, exclusive |-> mark]

Replaced(x) == ({box.peer} \ {x}) \cap Run

-----------------------------------------------------------------------------
(* Up to the connect.                                                      *)

Start(x) ==
  /\ p[x].pc = "new"
  /\ Goes(x, IF x \notin ByName THEN "lock" ELSE IF x \in Run THEN "look" ELSE "ask")
  /\ UNCHANGED <<flock, holder, box, overtaken>>

\* A run gives up before it has a hold: the lock goes, published or not.
Abandon(r) ==
  IF flock[r] = "exclusive"
  THEN Goes(r, "unlink") /\ UNCHANGED flock
  ELSE Ends(r, "gone")

\* A run that has a hold lets it go; its tunnel may never have been started.
GiveUp(r) == IF p[r].held THEN Goes(r, "probe") /\ Locks(r, "none") ELSE Ends(r, "gone")

LockExclusive(r) ==
  /\ p[r].pc = "lock"
  /\ \A x \in Proc : flock[x] = "none"
  /\ Goes(r, "publish")
  /\ Locks(r, "exclusive")
  /\ UNCHANGED <<holder, box, overtaken>>

\* Another command holds the lock, or its directory cannot be used.
LockRefused(r) ==
  /\ p[r].pc = "lock"
  /\ GiveUp(r)
  /\ UNCHANGED <<holder, box, overtaken>>

WriteHolder(r) ==
  /\ p[r].pc = "publish"
  /\ holder' = r
  /\ Goes(r, IF p[r].held THEN "verify" ELSE "look")
  /\ UNCHANGED <<flock, box, overtaken>>

WriteHolderFailed(r) ==
  /\ p[r].pc = "publish"
  /\ GiveUp(r)
  /\ UNCHANGED <<holder, box, overtaken>>

\* findLiveSession: a connect whose proxy answers, in a registry root reads.
Look(r) ==
  /\ p[r].pc = "look"
  /\ \E found \in BOOLEAN :
       /\ found => \E x \in Connect : p[x].held
       /\ IF found THEN Abandon(r) ELSE Goes(r, "ask") /\ UNCHANGED flock
  /\ UNCHANGED <<holder, box, overtaken>>

\* Mutants: a root connect looks at the lock and does not take it; a shared
\* lock publishes its holder as an exclusive one does.
LockSharedUnheld(x) ==
  /\ p[x].pc = "lock"
  /\ ~ExclusiveFlockHeld
  /\ Goes(x, IF p[x].held THEN "serve" ELSE "ask")
  /\ UNCHANGED <<flock, holder, box, overtaken>>

LockSharedPublished(x) ==
  /\ p[x].pc = "lock"
  /\ ~ExclusiveFlockHeld
  /\ Locks(x, "shared")
  /\ holder' = x
  /\ Goes(x, IF p[x].held THEN "serve" ELSE "ask")
  /\ UNCHANGED <<box, overtaken>>

LockShared(x) ==
  /\ p[x].pc = "lock"
  /\ \E listed \in BOOLEAN :
       IF x \in Root
       THEN /\ ~ExclusiveFlockHeld
            /\ Locks(x, "shared")
       ELSE LiveHolder(listed) = Nobody /\ UNCHANGED flock
  /\ Goes(x, IF p[x].held THEN "serve" ELSE "ask")
  /\ UNCHANGED <<holder, box, overtaken>>

SharedRefused(x) ==
  /\ p[x].pc = "lock"
  /\ IF x \in Root THEN ExclusiveFlockHeld
     ELSE \E listed \in BOOLEAN : LiveHolder(listed) # Nobody
  /\ Ends(x, "gone")
  /\ UNCHANGED <<holder, box, overtaken>>

\* What a connect that got no answer does: a held one keeps its hold.
Unanswered(x) ==
  IF x \in Run THEN Abandon(x)
  ELSE IF p[x].held THEN Goes(x, "serve") /\ UNCHANGED flock ELSE Ends(x, "gone")

\* RefuseIfEnforced, read before the request leaves this host.
Ask(x) ==
  /\ p[x].pc = "ask"
  /\ \E listed \in BOOLEAN :
       IF NotRefused(x, listed)
       THEN Goes(x, "request") /\ UNCHANGED flock
       ELSE Unanswered(x)
  /\ UNCHANGED <<holder, box, overtaken>>

\* Refused by the box, or never there.
RequestFailed(x) ==
  /\ p[x].pc = "request"
  /\ Unanswered(x)
  /\ UNCHANGED <<holder, box, overtaken>>

RequestLost(x) ==
  /\ p[x].pc = "request"
  /\ \E mark \in IF x \in Run THEN Marks ELSE {FALSE} : Takes(x, mark)
  /\ overtaken' = overtaken \cup Replaced(x)
  /\ Unanswered(x)
  /\ UNCHANGED holder

RunConnected(r) ==
  /\ p[r].pc = "request"
  /\ \E mark \in Marks :
       /\ Takes(r, mark)
       /\ p' = [p EXCEPT ![r].held = TRUE, ![r].granted = mark,
                         ![r].pc = IF flock[r] = "exclusive" THEN "verify" ELSE "lock"]
  /\ overtaken' = (overtaken \cup Replaced(r)) \ {r}
  /\ UNCHANGED <<flock, holder>>

Connected(x) ==
  /\ p[x].pc = "request"
  /\ Takes(x, FALSE)
  /\ p' = [p EXCEPT ![x].held = TRUE,
                    ![x].pc = IF p[x].held \/ flock[x] = "shared" THEN "serve" ELSE "lock"]
  /\ overtaken' = overtaken \cup Replaced(x)
  /\ UNCHANGED <<flock, holder>>

-----------------------------------------------------------------------------
(* While it serves.                                                        *)

\* A holder whose tunnel died, or that checks in, connects again.
RenewHeld(x) ==
  /\ p[x].pc = "serve"
  /\ Goes(x, "ask")
  /\ UNCHANGED <<flock, holder, box, overtaken>>

Close(x) ==
  /\ p[x].pc = "serve"
  /\ Ends(x, "gone")
  /\ UNCHANGED <<holder, box, overtaken>>

Verified(r) ==
  /\ p[r].pc = "verify"
  /\ p' = [p EXCEPT ![r].pc = "run", ![r].ran = TRUE]
  /\ UNCHANGED <<flock, holder, box, overtaken>>

NotVerified(r) ==
  /\ p[r].pc = "verify"
  /\ Goes(r, "probe")
  /\ UNCHANGED <<flock, holder, box, overtaken>>

\* The tunnel's own goroutine renews until the tunnel is stopped.
Renew(r) ==
  /\ p[r].pc \in {"run", "probe", "stop"}
  /\ p[r].ran
  /\ p[r].flight = "none"
  /\ \E listed \in BOOLEAN : NotRefused(r, listed)
  /\ \/ /\ BoxRefuses(r)
        /\ p' = [p EXCEPT ![r].flight = "exclusive"]
        /\ overtaken' = overtaken \ {r}
        /\ UNCHANGED box
     \/ \E mark \in Marks :
          /\ Takes(r, mark)
          /\ p' = [p EXCEPT ![r].flight = IF mark THEN "marked" ELSE "unmarked"]
          /\ overtaken' = (overtaken \cup Replaced(r)) \ {r}
     \/ \E mark \in Marks :   \* the answer is lost
          /\ Takes(r, mark)
          /\ overtaken' = overtaken \cup Replaced(r)
          /\ UNCHANGED p
  /\ UNCHANGED <<flock, holder>>

RenewAnswered(r) ==
  /\ p[r].flight # "none"
  /\ p' = [p EXCEPT ![r].flight = "none",
                    ![r].replaced = p[r].flight = "exclusive",
                    ![r].granted = IF p[r].flight = "exclusive" THEN @ ELSE p[r].flight = "marked"]
  /\ UNCHANGED <<flock, holder, box, overtaken>>

-----------------------------------------------------------------------------
(* Letting go: the /128 at the box, then the lock.                         *)

RunEnded(r) ==
  /\ p[r].pc = "run"
  /\ Goes(r, "probe")
  /\ UNCHANGED <<flock, holder, box, overtaken>>

\* Only a run whose agent has run asks through its tunnel; a probe can fail.
Probe(r) ==
  /\ p[r].pc = "probe"
  /\ \E confirmed \in BOOLEAN :
       /\ confirmed => ~p[r].ran \/ box.peer = r
       /\ confirmed \/ p[r].ran
       /\ p' = [p EXCEPT ![r].pc = "stop", ![r].confirmed = confirmed]
       /\ overtaken' = IF confirmed /\ p[r].ran THEN overtaken \ {r} ELSE overtaken
  /\ UNCHANGED <<flock, holder, box>>

StopTunnel(r) ==
  /\ p[r].pc = "stop"
  /\ p[r].flight = "none"
  /\ Goes(r, "decide")
  /\ UNCHANGED <<flock, holder, box, overtaken>>

\* Mutant: what the box said of a takeover is not looked at.
KeepReasonUntold(r) == ~p[r].granted \/ ~p[r].confirmed

KeepReason(r) == p[r].replaced \/ ~p[r].granted \/ ~p[r].confirmed

\* The main path of a run exits there and then; every other path lets the
\* lock go too, if it has it.
Leave(r) == Abandon(r) \/ (p[r].ran /\ Ends(r, "gone"))

Keep(r) ==
  /\ p[r].pc = "decide"
  /\ KeepReason(r)
  /\ Leave(r)
  /\ UNCHANGED <<holder, box, overtaken>>

\* It tears down every peer on the /128.
Disconnect(r) ==
  /\ p[r].pc = "decide"
  /\ ~KeepReason(r)
  /\ box' = [peer |-> Nobody, exclusive |-> FALSE]
  /\ overtaken' = overtaken \cup Replaced(r)
  /\ Leave(r)
  /\ UNCHANGED holder

DisconnectFailed(r) ==
  /\ p[r].pc = "decide"
  /\ ~KeepReason(r)
  /\ Leave(r)
  /\ UNCHANGED <<holder, box, overtaken>>

Unlink(r) ==
  /\ p[r].pc = "unlink"
  /\ holder' \in {holder, Nobody}
  /\ Goes(r, "unlock")
  /\ UNCHANGED <<flock, box, overtaken>>

\* Mutant: a second Release removes the holder file again.
UnlockTwice(r) ==
  /\ p[r].pc \in {"unlock", "gone"}
  /\ Ends(r, "gone")
  /\ holder' = Nobody
  /\ UNCHANGED <<box, overtaken>>

Unlock(r) ==
  /\ p[r].pc = "unlock"
  /\ Ends(r, "gone")
  /\ UNCHANGED <<holder, box, overtaken>>

Kill(x) ==
  /\ Running(x)
  /\ Ends(x, "killed")
  /\ UNCHANGED <<holder, box, overtaken>>

-----------------------------------------------------------------------------
(* The box: it forgets a peer when it restarts or reaps it, and serves     *)
(* other hosts.                                                            *)

BoxForgets ==
  /\ Forgets
  /\ box.peer # Nobody
  /\ box' = [peer |-> Nobody, exclusive |-> FALSE]
  /\ overtaken' = overtaken \cup ({box.peer} \cap Run)
  /\ UNCHANGED <<p, flock, holder>>

TakenElsewhere ==
  /\ Forgets
  /\ \E mark \in Marks : Takes(Elsewhere, mark)
  /\ overtaken' = overtaken \cup Replaced(Elsewhere)
  /\ UNCHANGED <<p, flock, holder>>

-----------------------------------------------------------------------------

Init ==
  /\ p = [x \in Proc |-> Fresh]
  /\ flock = [x \in Proc |-> "none"]
  /\ holder = Nobody
  /\ box = [peer |-> Nobody, exclusive |-> FALSE]
  /\ overtaken = {}

RunStep(r) ==
  \/ Start(r) \/ LockExclusive(r) \/ LockRefused(r) \/ WriteHolder(r)
  \/ WriteHolderFailed(r) \/ Look(r) \/ Ask(r) \/ RequestFailed(r)
  \/ RequestLost(r) \/ RunConnected(r) \/ Verified(r) \/ NotVerified(r)
  \/ Renew(r) \/ RenewAnswered(r) \/ RunEnded(r) \/ Probe(r) \/ StopTunnel(r)
  \/ Keep(r) \/ Disconnect(r) \/ DisconnectFailed(r) \/ Unlink(r) \/ Unlock(r)

ConnectStep(x) ==
  \/ Start(x) \/ LockShared(x) \/ SharedRefused(x) \/ Ask(x)
  \/ RequestFailed(x) \/ RequestLost(x) \/ Connected(x) \/ RenewHeld(x) \/ Close(x)

Next ==
  \/ \E r \in Run : RunStep(r)
  \/ \E x \in Connect : ConnectStep(x)
  \/ \E x \in Mortal : Kill(x)
  \/ BoxForgets
  \/ TakenElsewhere

Spec == Init /\ [][Next]_vars

-----------------------------------------------------------------------------
(* Properties.                                                             *)

\* A run that other commands are to find: it has published, and has not
\* begun to let its lock go.
Published(r) == flock[r] = "exclusive" /\ p[r].pc \notin {"publish", "unlock"}

\* The holder file names a published run, whatever runs and crashes came
\* before it: AgentLock.Release removes the file before it unlocks, so it can
\* only ever remove its own (agentlock_unix.go).
HolderNamesTheRun == \A r \in Run : Published(r) => holder = r

\* A run or connect that names its /128 never leaves this host with a request
\* while another run is published, whichever account asks and whatever the
\* lock table shows it (RefuseIfEnforced over liveHolder).
AskedBeforePublished ==
  [][\A x \in Proc, r \in Run :
       /\ x # r /\ Published(r)
       /\ x \notin ByName \/ p[x].held
       /\ p[x].pc = "ask"
       => p'[x].pc # "request"]_vars

\* Nothing of root's that names its /128 ever takes a published run's peer, at
\* a box that marks no peer exclusive either: the flock is held from before the
\* request until after the session. The holder file alone leaves a moment
\* between the question and the request, which only other accounts live with.
RunKeepsItsPeer ==
  [][\A r \in Run : \A x \in (Run \cup Root) \ (ByName \cup {r}) :
       Published(r) /\ box.peer = r => box'.peer # x]_vars

\* A run's disconnect tears down every peer on the /128, so it is sent only
\* when the last answer or probe said the peer was this run's
\* (enforcedHold.release, keepReason).
ReleaseSparesOthers ==
  [][\A r \in Run :
       Disconnect(r) => box.peer \in {r, Nobody} \/ r \in overtaken]_vars

\* Nothing is refused on behalf of a run that is gone: a crash leaves a holder
\* file behind and never a lock.
NobodyHeldByTheDead ==
  \A listed \in BOOLEAN :
    LiveHolder(listed) # Nobody => \E r \in Run : Running(r) /\ (holder = r \/ flock[r] = "exclusive")

\* A holder that is named is alive (the comment of liveHolder). TLC refutes it:
\* a killed run's file stands until the next run, locked already, writes its own.
NamesTheLiving ==
  \A listed \in BOOLEAN : LiveHolder(listed) # Nobody => Running(LiveHolder(listed))
=============================================================================
