---------------------------- MODULE Containment ----------------------------
(***************************************************************************)
(* `whisper contain <pid>` and `whisper contain --release <pid>` for one   *)
(* agent (internal/enforce/contain_linux.go, contain.go; internal/cli/     *)
(* contain_linux.go): a process that runs already is moved with its        *)
(* children into a cgroup whose two programs steer what it opens from then *)
(* on, and what it opened before is cut or pinned to the tunnel's device.  *)
(*                                                                         *)
(* The processes run, fork, exit, and open and close sockets between any   *)
(* two steps of a command; freezing one takes effect some time after it is *)
(* asked for.  A command may be killed: the kernel then keeps the cgroup,  *)
(* its programs and its freezer, and takes the device away.                *)
(*                                                                         *)
(* External: the kernel's cgroup, freezer and sockets, as the code uses    *)
(* them.  One agent has one cgroup, one record and one lock, so that two   *)
(* containments do not run at once (AgentLock); --release takes no lock.   *)
(***************************************************************************)
EXTENDS Naturals, Sequences, FiniteSets

CONSTANTS
  Proc,        \* pids; a child's is larger than its parent's
  Sock,        \* sockets
  Contain,     \* runs of `whisper contain`
  Release,     \* runs of `whisper contain --release`
  Scope,       \* the cgroups processes are in
  Inside,      \* the containment's cgroup
  Top,         \* the hierarchy's root
  None,        \* no cgroup, no device, no record
  Device,      \* devices of the host a program may have bound a socket to
  Family,      \* what each socket is: see Action
  Privileged,  \* processes that could undo a containment
  Mortal,      \* processes that may exit, or close what they hold
  Killable,    \* the points at which a command may be killed
  Careless,    \* whether --release is run beside a command that is not dead
  Rounds       \* settleRounds

Command == Contain \cup Release
Place == Scope \cup {Inside, Top}
Binding == Device \cup Contain \cup {None}

PC == {"idle", "make", "attach", "scan", "move", "frozen", "check", "reach", "act", "thaw",
       "hold", "undo", "restore", "out", "moveout", "unfreeze", "detach", "remove", "close",
       "done", "killed"}

ASSUME ContainAssumption ==
  /\ Proc \subseteq Nat \ {0} /\ IsFiniteSet(Proc)
  /\ Contain \cap Release = {}
  /\ Inside \notin Scope /\ Top \notin Scope /\ Inside # Top
  /\ None \notin Place \cup Device \cup Contain
  /\ Device \cap Contain = {}
  /\ Family \in [Sock -> {"flow", "listener", "loopback", "packet"}]
  /\ Privileged \subseteq Proc /\ Mortal \subseteq Proc
  /\ Killable \subseteq PC /\ Careless \in BOOLEAN
  \* Every round of a move takes a process further, and there are no more.
  /\ Rounds \in Nat \ {0} /\ Cardinality(Proc) =< Rounds

VARIABLES
  proc,     \* the processes; `home`, history: where each was when moved in
  frozen,   \* those that have stopped
  scopes,   \* the cgroups that are still there: an empty one may go
  sock,     \* the sockets; `own`, `under`, history: the binding its program
            \* gave it, and the process it was last pinned under
  cg,       \* the containment's cgroup: there, freezer on, programs attached
  record,   \* what is under /run/whisper/contain
  cmd       \* the commands; `held`, `found`, history: whether it came to hold
            \* its containment, and who was in the cgroup when it began

vars == <<proc, frozen, scopes, sock, cg, record, cmd>>

Process == [life : {"unborn", "alive", "dead"}, parent : Proc \cup {0},
            at : Place, home : Scope \cup {Top, None}]
Socket == [by : SUBSET Proc, made : BOOLEAN, inside : BOOLEAN, bind : Binding,
           own : Device \cup {None}, under : Proc \cup {0}, shut : BOOLEAN]
Origins == [Proc -> Scope \cup {Top, None}]
Pin == [by : Proc, sock : Sock, was : Binding]
CommandState ==
  [pc : PC, pid : Proc \cup {0}, origin : Origins, pinned : Seq(Pin), want : SUBSET Proc,
   moved : BOOLEAN, second : BOOLEAN, round : 0..Rounds, work : SUBSET (Proc \X Sock),
   held : BOOLEAN, found : SUBSET Proc]

Absent(life) == [life |-> life, parent |-> 0, at |-> Top, home |-> None]
Unmade == [by |-> {}, made |-> FALSE, inside |-> FALSE, bind |-> None, own |-> None, under |-> 0,
           shut |-> FALSE]
Closed == [Unmade EXCEPT !.made = TRUE]
NoOrigin == [p \in Proc |-> None]
NoRecord == [there |-> FALSE, origin |-> NoOrigin, pinned |-> <<>>]
NewCommand ==
  [pc |-> "idle", pid |-> 0, origin |-> NoOrigin, pinned |-> <<>>, want |-> {}, moved |-> FALSE,
   second |-> FALSE, round |-> 0, work |-> {}, held |-> FALSE, found |-> {}]

TypeOK ==
  /\ proc \in [Proc -> Process]
  /\ frozen \in SUBSET Proc
  /\ scopes \in SUBSET Scope
  /\ sock \in [Sock -> Socket]
  /\ cg \in [there : BOOLEAN, freeze : BOOLEAN, gate : BOOLEAN]
  /\ record \in [there : BOOLEAN, origin : Origins, pinned : Seq(Pin)]
  /\ cmd \in [Command -> CommandState]

-----------------------------------------------------------------------------
Alive(p) == proc[p].life = "alive"
Live(c) == cmd[c].pc \notin {"idle", "killed", "done"}
AtWork(c) == Live(c) /\ cmd[c].pc \notin {"make", "close"}

\* members: the cgroup's own list.
Members == {p \in Proc : Alive(p) /\ proc[p].at = Inside}

\* descendants, over the parents as /proc shows them at one moment.
Descendants(t) ==
  {p \in Proc \ {t} : \A S \in SUBSET Proc :
     t \in S /\ (\A q \in Proc : proc[q].parent \in S => q \in S) => p \in S}

\* Mutant: a listener only answers.
ListenerKept(s) ==
  CASE Family[s] \in {"loopback", "listener"} -> "keep"
    [] Family[s] = "flow" -> "cut"
    [] OTHER -> "refuse"

\* classifySocket: kept, pinned, cut, or a reason to refuse.
Action(s) ==
  CASE Family[s] = "loopback" -> "keep"
    [] Family[s] = "listener" -> "pin"
    [] Family[s] = "flow" -> "cut"
    [] OTHER -> "refuse"

\* SO_BINDTODEVICE read back: a device that is gone has no name.
ReadBinding(s) ==
  IF sock[s].bind \in Contain /\ ~Live(sock[s].bind) THEN None ELSE sock[s].bind

-----------------------------------------------------------------------------
(* The processes.                                                          *)

Inherits(by, p, q) == IF p \in by THEN by \cup {q} ELSE by

\* A child is born where its parent is, with all its descriptors or, when it
\* executes another program at once, none of them.
Fork(p, q) ==
  /\ Alive(p) /\ p \notin frozen
  /\ proc[q].life = "unborn" /\ p < q
  /\ proc' = [proc EXCEPT ![q] = [life |-> "alive", parent |-> p, at |-> proc[p].at, home |-> None]]
  /\ \/ sock' = [s \in Sock |-> [sock[s] EXCEPT !.by = Inherits(@, p, q)]]
     \/ UNCHANGED sock
  /\ UNCHANGED <<frozen, scopes, cg, record, cmd>>

Drops(x, p) == IF x.by = {p} THEN Closed ELSE [x EXCEPT !.by = @ \ {p}]

\* A frozen process can be killed.
Exit(p) ==
  /\ Alive(p) /\ p \in Mortal
  /\ proc' = [q \in Proc |-> IF q = p THEN Absent("dead")
                             ELSE IF proc[q].parent = p THEN [proc[q] EXCEPT !.parent = 0]
                             ELSE proc[q]]
  /\ frozen' = frozen \ {p}
  /\ sock' = [s \in Sock |-> Drops(sock[s], p)]
  /\ UNCHANGED <<scopes, cg, record, cmd>>

\* markSpec and gateSpec see a socket made inside, and no other.
Open(p, s) ==
  /\ Alive(p) /\ p \notin frozen
  /\ ~sock[s].made
  /\ sock' = [sock EXCEPT ![s] =
       [Unmade EXCEPT !.by = {p}, !.made = TRUE, !.inside = proc[p].at = Inside /\ cg.gate]]
  /\ UNCHANGED <<proc, frozen, scopes, cg, record, cmd>>

CloseSocket(p, s) ==
  /\ p \in sock[s].by /\ p \in Mortal \ frozen
  /\ sock' = [sock EXCEPT ![s] = Drops(@, p)]
  /\ UNCHANGED <<proc, frozen, scopes, cg, record, cmd>>

Freezes(p) ==
  /\ p \in Members \ frozen /\ cg.freeze
  /\ frozen' = frozen \cup {p}
  /\ UNCHANGED <<proc, scopes, sock, cg, record, cmd>>

\* A scope removes itself once it is empty.
ScopeGoes(x) ==
  /\ x \in scopes /\ \A p \in Proc : proc[p].at # x
  /\ scopes' = scopes \ {x}
  /\ UNCHANGED <<proc, frozen, sock, cg, record, cmd>>

-----------------------------------------------------------------------------
(* A command's steps.                                                      *)

Goes(c, pc) == cmd' = [cmd EXCEPT ![c].pc = pc]
Ends(c, pc) == cmd' = [cmd EXCEPT ![c] = [NewCommand EXCEPT !.pc = pc]]

\* Contain's deferred undo, when it fails after makeCgroup.
Fails(c) == cmd' = [cmd EXCEPT ![c].pc = "undo", ![c].want = {}, ![c].work = {}, ![c].round = 0]

\* Preflight, the agent's lock, the tunnel.
StartContain(c, t) ==
  /\ cmd[c].pc = "idle" /\ c \in Contain
  /\ Alive(t) /\ t \notin Privileged
  /\ \A o \in Contain : ~Live(o)
  /\ Careless \/ \A o \in Release : ~Live(o)
  /\ cmd' = [cmd EXCEPT ![c].pc = "make", ![c].pid = t]
  /\ UNCHANGED <<proc, frozen, scopes, sock, cg, record>>

\* Preflight once more, with the tunnel up.
PreflightFails(c) ==
  /\ cmd[c].pc = "make" /\ ~Alive(cmd[c].pid)
  /\ Goes(c, "close")
  /\ UNCHANGED <<proc, frozen, scopes, sock, cg, record>>

\* makeCgroup: a killed one's cgroup is taken over, with its record.
MakeCgroup(c) ==
  /\ cmd[c].pc = "make" /\ Alive(cmd[c].pid)
  /\ cg' = [cg EXCEPT !.there = TRUE, !.freeze = TRUE]
  /\ cmd' = [cmd EXCEPT ![c].pc = "attach", ![c].found = Members,
                        ![c].origin = record.origin, ![c].pinned = record.pinned]
  /\ UNCHANGED <<proc, frozen, scopes, sock, record>>

Attach(c) ==
  /\ cmd[c].pc = "attach"
  /\ IF cg.there THEN cg' = [cg EXCEPT !.gate = TRUE] /\ Goes(c, "scan")
                 ELSE Fails(c) /\ UNCHANGED cg
  /\ UNCHANGED <<proc, frozen, scopes, sock, record>>

\* A pass of moveTree: who is to be inside, from one reading of /proc.
Scan(c) ==
  /\ cmd[c].pc = "scan"
  /\ cmd' = [cmd EXCEPT ![c].pc = "move", ![c].moved = FALSE,
                        ![c].want = {cmd[c].pid} \cup Descendants(cmd[c].pid)]
  /\ UNCHANGED <<proc, frozen, scopes, sock, cg, record>>

\* moveTree takes parents before their children.
NextToMove(c, p) == p \in cmd[c].want /\ proc[p].parent \notin cmd[c].want

\* One process of the pass. An origin is noted once; one that is gone is none.
Move(c, p) ==
  /\ cmd[c].pc = "move" /\ NextToMove(c, p)
  /\ \/ /\ p \in Members /\ cg.there
        /\ cmd' = [cmd EXCEPT ![c].want = @ \ {p}]
        /\ UNCHANGED <<proc, frozen>>
     \/ /\ Alive(p) /\ p \notin Members /\ cg.there
        /\ cmd' = [cmd EXCEPT ![c].want = @ \ {p}, ![c].moved = TRUE,
                              ![c].origin[p] = IF @ = None THEN proc[p].at ELSE @]
        /\ proc' = [proc EXCEPT ![p].at = Inside, ![p].home = proc[p].at]
        /\ UNCHANGED frozen
     \/ /\ ~Alive(p) /\ p # cmd[c].pid /\ cg.there
        /\ cmd' = [cmd EXCEPT ![c].want = @ \ {p}, ![c].origin[p] = None]
        /\ UNCHANGED <<proc, frozen>>
     \/ /\ (~Alive(p) /\ p = cmd[c].pid) \/ ~cg.there
        /\ Fails(c)
        /\ UNCHANGED <<proc, frozen>>
  /\ UNCHANGED <<scopes, sock, cg, record>>

\* Mutant: one pass is taken for the tree.
OnePass(c) == FALSE

\* Whether moveTree goes round again.
AnotherPass(c) == cmd[c].moved

\* The end of a pass: another, until one moves nobody.
EndPass(c) ==
  /\ cmd[c].pc = "move" /\ cmd[c].want = {}
  /\ IF ~AnotherPass(c)
     THEN cmd' = [cmd EXCEPT ![c].pc = IF cmd[c].second THEN "check" ELSE "frozen",
                             ![c].second = TRUE, ![c].round = 0]
     ELSE IF cmd[c].round + 1 < Rounds
     THEN cmd' = [cmd EXCEPT ![c].pc = "scan", ![c].round = @ + 1]
     ELSE Fails(c)
  /\ UNCHANGED <<proc, frozen, scopes, sock, cg, record>>

Frozen(c) ==
  /\ cmd[c].pc = "frozen" /\ cg.freeze /\ Members \subseteq frozen
  /\ Goes(c, "scan")
  /\ UNCHANGED <<proc, frozen, scopes, sock, cg, record>>

\* waitFrozen's deadline.
NotFrozen(c) ==
  /\ cmd[c].pc = "frozen" /\ ~(cg.freeze /\ Members \subseteq frozen)
  /\ Fails(c)
  /\ UNCHANGED <<proc, frozen, scopes, sock, cg, record>>

\* Each socket of a member once, under the first that holds it.
MembersSockets ==
  {w \in Proc \X Sock :
     LET holders == sock[w[2]].by \cap Members
     IN w[1] \in holders /\ \A q \in holders : w[1] =< q}

\* checkMembers, and the first half of sockets: the members' open files.
CheckMembers(c) ==
  /\ cmd[c].pc = "check"
  /\ IF Members = {} \/ Members \cap Privileged # {} THEN Fails(c)
     ELSE cmd' = [cmd EXCEPT ![c].pc = "reach", ![c].work = MembersSockets]
  /\ UNCHANGED <<proc, frozen, scopes, sock, cg, record>>

\* getfd for each: one whose member has gone is left. Decided for all before
\* acting on any.
Reach(c) ==
  /\ cmd[c].pc = "reach"
  /\ LET held == {w \in cmd[c].work : w[1] \in sock[w[2]].by}
     IN IF \E w \in held : Action(w[2]) = "refuse" THEN Fails(c)
        ELSE cmd' = [cmd EXCEPT ![c].pc = "act",
                                ![c].work = {w \in held : Action(w[2]) # "keep"}]
  /\ UNCHANGED <<proc, frozen, scopes, sock, cg, record>>

Act(c, w) ==
  /\ cmd[c].pc = "act" /\ w \in cmd[c].work
  /\ IF Action(w[2]) = "cut"
     THEN /\ sock' = [sock EXCEPT ![w[2]].bind = c, ![w[2]].shut = TRUE]
          /\ cmd' = [cmd EXCEPT ![c].work = @ \ {w}]
     ELSE /\ sock' = [sock EXCEPT ![w[2]].bind = c, ![w[2]].under = w[1]]
          /\ cmd' = [cmd EXCEPT ![c].work = @ \ {w}, ![c].pinned =
               Append(@, [by |-> w[1], sock |-> w[2], was |-> ReadBinding(w[2])])]
  /\ UNCHANGED <<proc, frozen, scopes, cg, record>>

ActFails(c) ==
  /\ cmd[c].pc = "act" /\ cmd[c].work # {}
  /\ Fails(c)
  /\ UNCHANGED <<proc, frozen, scopes, sock, cg, record>>

\* Mutant: the record says who came from where, and no more.
RecordWithoutPins(c) ==
  /\ cmd[c].pc = "act" /\ cmd[c].work = {}
  /\ record' = [there |-> TRUE, origin |-> cmd[c].origin, pinned |-> <<>>]
  /\ Goes(c, "thaw")
  /\ UNCHANGED <<proc, frozen, scopes, sock, cg>>

\* writeRecord: last, when all it says is known.
WriteRecord(c) ==
  /\ cmd[c].pc = "act" /\ cmd[c].work = {}
  /\ record' = [there |-> TRUE, origin |-> cmd[c].origin, pinned |-> cmd[c].pinned]
  /\ Goes(c, "thaw")
  /\ UNCHANGED <<proc, frozen, scopes, sock, cg>>

Thaw(c) ==
  /\ cmd[c].pc = "thaw"
  /\ IF cg.there
     THEN /\ cg' = [cg EXCEPT !.freeze = FALSE] /\ frozen' = {}
          /\ cmd' = [cmd EXCEPT ![c].pc = "hold", ![c].held = TRUE]
     ELSE Fails(c) /\ UNCHANGED <<cg, frozen>>
  /\ UNCHANGED <<proc, scopes, sock, record>>

\* A signal; or Populated says that nobody is left.
Signal(c) ==
  /\ cmd[c].pc = "hold"
  /\ Goes(c, "undo")
  /\ UNCHANGED <<proc, frozen, scopes, sock, cg, record>>

Emptied(c) ==
  /\ cmd[c].pc = "hold" /\ Members = {}
  /\ Goes(c, "undo")
  /\ UNCHANGED <<proc, frozen, scopes, sock, cg, record>>

\* ReleaseStale, by the pid of a member.
StartRelease(c, p) ==
  /\ cmd[c].pc = "idle" /\ c \in Release
  /\ p \in Members /\ cg.there
  /\ Careless \/ \A o \in Contain : ~Live(o)
  /\ cmd' = [cmd EXCEPT ![c].pc = "undo", ![c].pid = p,
                        ![c].origin = record.origin, ![c].pinned = record.pinned]
  /\ UNCHANGED <<proc, frozen, scopes, sock, cg, record>>

-----------------------------------------------------------------------------
(* undo: a release, and a containment that failed.                         *)

Undo(c) ==
  /\ cmd[c].pc = "undo"
  /\ cg' = [cg EXCEPT !.freeze = cg.there]
  /\ Goes(c, "restore")
  /\ UNCHANGED <<proc, frozen, scopes, sock, record>>

\* restorePin for the next, found by the pid it was pinned under.
Restore(c) ==
  /\ cmd[c].pc = "restore"
  /\ IF cmd[c].pinned = <<>> THEN Goes(c, "out") /\ UNCHANGED sock
     ELSE LET s == Head(cmd[c].pinned) IN
          /\ sock' = IF s.by \in sock[s.sock].by THEN [sock EXCEPT ![s.sock].bind = s.was] ELSE sock
          /\ cmd' = [cmd EXCEPT ![c].pinned = Tail(@)]
  /\ UNCHANGED <<proc, frozen, scopes, cg, record>>

\* Mutant: one round is taken to move them all.
OneRound(c) ==
  /\ cmd[c].pc = "out"
  /\ cmd' = IF cmd[c].round = 0 /\ Members # {}
            THEN [cmd EXCEPT ![c].pc = "moveout", ![c].want = Members, ![c].round = @ + 1]
            ELSE [cmd EXCEPT ![c].pc = "unfreeze"]
  /\ UNCHANGED <<proc, frozen, scopes, sock, cg, record>>

\* A round over the members of the moment, until there are none.
Round(c) ==
  /\ cmd[c].pc = "out"
  /\ cmd' = IF cmd[c].round < Rounds /\ Members # {}
            THEN [cmd EXCEPT ![c].pc = "moveout", ![c].want = Members, ![c].round = @ + 1]
            ELSE [cmd EXCEPT ![c].pc = "unfreeze"]
  /\ UNCHANGED <<proc, frozen, scopes, sock, cg, record>>

\* Mutant: an origin is used as it stands.
OriginAsNoted(c, p) == cmd[c].origin[p]

\* moveOut's destination: the origin, or the root's, or the hierarchy's root.
PlaceFor(c, p) ==
  LET o == IF cmd[c].origin[p] # None THEN cmd[c].origin[p] ELSE cmd[c].origin[cmd[c].pid]
  IN IF o \in scopes THEN o ELSE Top

MoveOut(c, p) ==
  /\ cmd[c].pc = "moveout" /\ p \in cmd[c].want
  /\ proc' = IF Alive(p) THEN [proc EXCEPT ![p].at = PlaceFor(c, p)] ELSE proc
  /\ frozen' = frozen \ {p}
  /\ cmd' = [cmd EXCEPT ![c].want = @ \ {p}]
  /\ UNCHANGED <<scopes, sock, cg, record>>

EndRound(c) ==
  /\ cmd[c].pc = "moveout" /\ cmd[c].want = {}
  /\ Goes(c, "out")
  /\ UNCHANGED <<proc, frozen, scopes, sock, cg, record>>

Unfreeze(c) ==
  /\ cmd[c].pc = "unfreeze"
  /\ cg' = [cg EXCEPT !.freeze = FALSE] /\ frozen' = {}
  /\ Goes(c, "detach")
  /\ UNCHANGED <<proc, scopes, sock, record>>

Detach(c) ==
  /\ cmd[c].pc = "detach"
  /\ cg' = [cg EXCEPT !.gate = FALSE]
  /\ Goes(c, "remove")
  /\ UNCHANGED <<proc, frozen, scopes, sock, record>>

\* The cgroup, when nobody is in it, and the record.
Remove(c) ==
  /\ cmd[c].pc = "remove"
  /\ cg' = [cg EXCEPT !.there = @ /\ Members # {}]
  /\ record' = NoRecord
  /\ Goes(c, "close")
  /\ UNCHANGED <<proc, frozen, scopes, sock>>

\* The tunnel goes last, and its device and the agent's lock with it.
Close(c) ==
  /\ cmd[c].pc = "close"
  /\ Ends(c, "done")
  /\ UNCHANGED <<proc, frozen, scopes, sock, cg, record>>

Killed(c) ==
  /\ Live(c) /\ cmd[c].pc \in Killable
  /\ Ends(c, "killed")
  /\ UNCHANGED <<proc, frozen, scopes, sock, cg, record>>

-----------------------------------------------------------------------------
\* What a containment may find: processes in their scopes, and the sockets that
\* they opened, bound to a device of the host or not.
Found == [life : {"alive"}, parent : Proc \cup {0}, at : Scope, home : {None}]
Held(P, d) == [Unmade EXCEPT !.by = P, !.made = TRUE, !.bind = d, !.own = d]
Holders == (SUBSET {p \in Proc : Alive(p)}) \ {{}}

Init ==
  /\ proc \in [Proc -> {Absent("unborn")} \cup Found]
  /\ \A p \in Proc : proc[p].parent \in {0} \cup {q \in Proc : q < p /\ Alive(q)}
  /\ frozen = {}
  /\ scopes = Scope
  /\ sock \in [Sock -> {Unmade} \cup {Held(P, d) : P \in Holders, d \in Device \cup {None}}]
  /\ cg = [there |-> FALSE, freeze |-> FALSE, gate |-> FALSE]
  /\ record = NoRecord
  /\ cmd = [c \in Command |-> NewCommand]

Processes ==
  \/ \E p, q \in Proc : Fork(p, q)
  \/ \E p \in Proc : Exit(p) \/ Freezes(p)
  \/ \E p \in Proc, s \in Sock : Open(p, s) \/ CloseSocket(p, s)
  \/ \E x \in Scope : ScopeGoes(x)

\* What a command does by itself, once it is begun.
Step(c) ==
  \/ PreflightFails(c) \/ MakeCgroup(c) \/ Attach(c) \/ Scan(c)
  \/ \E p \in Proc : Move(c, p) \/ MoveOut(c, p)
  \/ EndPass(c) \/ Frozen(c) \/ NotFrozen(c) \/ CheckMembers(c) \/ Reach(c)
  \/ \E w \in cmd[c].work : Act(c, w)
  \/ ActFails(c) \/ WriteRecord(c) \/ Thaw(c) \/ Emptied(c)
  \/ Undo(c) \/ Restore(c) \/ Round(c) \/ EndRound(c) \/ Unfreeze(c)
  \/ Detach(c) \/ Remove(c) \/ Close(c)

Next ==
  \/ Processes
  \/ \E c \in Command : Step(c) \/ Signal(c) \/ Killed(c)
  \/ \E c \in Command, p \in Proc : StartContain(c, p) \/ StartRelease(c, p)

Spec == Init /\ [][Next]_vars

FairSpec == Spec /\ \A c \in Command : WF_vars(Step(c))

-----------------------------------------------------------------------------
(* Properties.                                                             *)

\* Contain (contain_linux.go:170): "The order never leaves a window". Nobody
\* is in the cgroup without its programs, whoever else is killed or released.
SteeredInside == Members # {} => cg.gate

\* A socket through which its holder sends past the tunnel.
Free(s) ==
  /\ Family[s] # "loopback"
  /\ ~sock[s].inside /\ ~sock[s].shut /\ sock[s].bind \notin Contain

\* What a member that runs again, or still, after its containment was made
\* holds: nothing that goes past the tunnel, whenever and by whom it was made.
NoWayAround ==
  ~cg.freeze => \A p \in Members : \A s \in Sock : p \in sock[s].by => ~Free(s)

\* moveTree: what it holds is the whole tree, however it grew meanwhile.
TreeIsInside ==
  \A c \in Contain : cmd[c].pc \in {"check", "reach", "act", "thaw", "hold"} =>
    \A p \in Descendants(cmd[c].pid) : Alive(p) => p \in Members

\* Release (:555): "every member is moved back to the cgroup it came from (or
\* the hierarchy's root, when that one is gone)".
MembersPutBack ==
  ~cg.there => \A p \in Proc : Alive(p) /\ proc[p].home # None =>
    proc[p].at = IF proc[p].home \in scopes THEN proc[p].home ELSE Top

\* pinnedSock (:66): "on release its device binding is put back as it was".
PinsPutBack ==
  ~cg.there => \A s \in Sock : sock[s].by # {} /\ ~sock[s].shut => sock[s].bind = sock[s].own

\* A release, and a containment that failed, leave nobody moved, and nothing
\* pinned that the process it was pinned under still holds.
PutBack ==
  /\ MembersPutBack
  /\ ~cg.there => \A s \in Sock :
       sock[s].under \in sock[s].by /\ ~sock[s].shut => sock[s].bind = sock[s].own

\* contain.go:31: "If this command is killed the process stays cut off, never
\* uncontained": a later command that comes to hold nothing lets nobody go whom
\* it found cut off.
FailureKeepsOthers ==
  [][\A p \in Proc, c \in Contain :
       MoveOut(c, p) /\ p \in Members => cmd[c].held \/ p \notin cmd[c].found]_vars

\* What a command that is at work finds or leaves frozen runs again, unless it
\* is killed: every wait has an end, and every failure its undo.
ThawsAgain ==
  \A c \in Command, p \in Proc :
    (AtWork(c) /\ p \in frozen) ~> (p \notin frozen \/ cmd[c].pc = "killed")
=============================================================================
