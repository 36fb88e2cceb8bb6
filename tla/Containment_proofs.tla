------------------------- MODULE Containment_proofs -------------------------
(***************************************************************************)
(* That nobody is in the cgroup without its programs, for any tree of      *)
(* processes, any sockets and any number of commands, killed anywhere.     *)
(***************************************************************************)
EXTENDS Containment, FiniteSetTheorems, TLAPS

\* Those inside, those that are or were, and those of them that are not inside.
MembersOf(ps) == {p \in Proc : ps[p].life = "alive" /\ ps[p].at = Inside}
BornOf(ps) == {p \in Proc : ps[p].life # "unborn"}
OutersOf(ps) == BornOf(ps) \ MembersOf(ps)

SetUp == {"make", "attach", "scan", "move", "frozen", "check", "reach", "act", "thaw", "hold"}
Steered == SetUp \ {"make", "attach"}
Unrounded == {"idle", "check", "reach", "act", "thaw", "hold", "undo", "restore"}
Emptying == {"unfreeze", "detach", "remove"}

\* Where a command with the state s may be, with the processes ps and the
\* cgroup g. A round of undo takes someone out for good.
Local(c, s, ps, g) ==
  /\ s.pc \in SetUp => c \in Contain /\ s.pid \in Proc
  /\ s.pc \in Steered => g.there /\ g.gate
  /\ s.pc \in Unrounded => s.round = 0
  /\ s.pc \in Emptying => MembersOf(ps) = {}
  /\ s.pc = "out" => s.round =< Cardinality(OutersOf(ps))
  /\ s.pc = "moveout" =>
       s.want \subseteq BornOf(ps) /\ s.round =< Cardinality(OutersOf(ps) \cup s.want)

\* A containment is alone at work.
Alone == \A c \in Contain : Live(c) => \A o \in Command \ {c} : ~Live(o)

Inv ==
  /\ TypeOK
  /\ SteeredInside
  /\ \A c \in Command : Local(c, cmd[c], proc, cg)
  /\ Alone

\* What is not a command's own.
World ==
  /\ proc \in [Proc -> Process]
  /\ frozen \in SUBSET Proc
  /\ scopes \in SUBSET Scope
  /\ sock \in [Sock -> Socket]
  /\ cg \in [there : BOOLEAN, freeze : BOOLEAN, gate : BOOLEAN]
  /\ record \in [there : BOOLEAN, origin : Origins, pinned : Seq(Pin)]

\* The step of one command.
Turns(c, s) == s \in CommandState /\ cmd' = [cmd EXCEPT ![c] = s]

-----------------------------------------------------------------------------
(* A command's state, field by field.                                      *)

LEMMA Fields ==
  ASSUME NEW s \in CommandState
  PROVE  /\ \A v \in PC : [s EXCEPT !.pc = v] \in CommandState
         /\ \A v \in Proc \cup {0} : [s EXCEPT !.pid = v] \in CommandState
         /\ \A v \in Origins : [s EXCEPT !.origin = v] \in CommandState
         /\ \A v \in Seq(Pin) : [s EXCEPT !.pinned = v] \in CommandState
         /\ \A v \in SUBSET Proc : [s EXCEPT !.want = v] \in CommandState
         /\ \A v \in BOOLEAN : [s EXCEPT !.moved = v] \in CommandState
         /\ \A v \in BOOLEAN : [s EXCEPT !.second = v] \in CommandState
         /\ \A v \in 0..Rounds : [s EXCEPT !.round = v] \in CommandState
         /\ \A v \in SUBSET (Proc \X Sock) : [s EXCEPT !.work = v] \in CommandState
         /\ \A v \in BOOLEAN : [s EXCEPT !.held = v] \in CommandState
         /\ \A v \in SUBSET Proc : [s EXCEPT !.found = v] \in CommandState
BY DEF CommandState

LEMMA Typed ==
  TypeOK <=> World /\ cmd \in [Command -> CommandState]
BY Zenon DEF TypeOK, World

LEMMA TypedNext ==
  ASSUME TypeOK, World', NEW c \in Command, NEW s, Turns(c, s)
  PROVE  /\ TypeOK'
         /\ cmd'[c] = s
         /\ \A o \in Command \ {c} : cmd'[o] = cmd[o]
<1>1. cmd \in [Command -> CommandState]
  BY Typed
<1>2. cmd' \in [Command -> CommandState] /\ cmd'[c] = s /\ \A o \in Command \ {c} : cmd'[o] = cmd[o]
  BY <1>1 DEF Turns
<1>3. TypeOK'
  BY <1>2, Zenon DEF TypeOK, World
<1> QED
  BY <1>2, <1>3

LEMMA GoesTurns ==
  ASSUME TypeOK, NEW c \in Command, NEW pc \in PC, Goes(c, pc)
  PROVE  \E s : /\ Turns(c, s) /\ s.pc = pc
              /\ s.pid = cmd[c].pid /\ s.round = cmd[c].round /\ s.want = cmd[c].want
<1>1. cmd[c] \in CommandState
  BY Typed
<1> DEFINE s == [cmd[c] EXCEPT !.pc = pc]
<1>2. s \in CommandState
  BY <1>1, Fields
<1>3. cmd' = [cmd EXCEPT ![c] = s]
  BY Zenon DEF Goes
<1>4. s.pc = pc /\ s.pid = cmd[c].pid /\ s.round = cmd[c].round /\ s.want = cmd[c].want
  BY <1>1 DEF CommandState
<1> HIDE DEF s
<1> QED
  BY <1>2, <1>3, <1>4, Zenon DEF Turns

LEMMA EndsTurns ==
  ASSUME TypeOK, NEW c \in Command, NEW pc \in PC, Ends(c, pc)
  PROVE  \E s : Turns(c, s) /\ s.pc = pc
<1> DEFINE s == [NewCommand EXCEPT !.pc = pc]
<1>1. NewCommand \in CommandState
  BY ContainAssumption DEF NewCommand, CommandState, NoOrigin, Origins, PC
<1>2. s \in CommandState
  BY <1>1, Fields
<1>4. s.pc = pc
  BY <1>1 DEF CommandState
<1>3. cmd' = [cmd EXCEPT ![c] = s]
  BY Zenon DEF Ends
<1> HIDE DEF s
<1> QED
  BY <1>2, <1>3, <1>4, Zenon DEF Turns

LEMMA FailsTurns ==
  ASSUME TypeOK, NEW c \in Command, Fails(c)
  PROVE  \E s : Turns(c, s) /\ s.pc = "undo" /\ s.round = 0
<1>1. cmd[c] \in CommandState
  BY Typed
<1> DEFINE s1 == [cmd[c] EXCEPT !.pc = "undo"]
           s2 == [s1 EXCEPT !.want = {}]
           s3 == [s2 EXCEPT !.work = {}]
           s == [s3 EXCEPT !.round = 0]
<1>2. s1 \in CommandState
  BY <1>1, Fields DEF PC
<1>3. s2 \in CommandState
  BY <1>2, Fields
<1>4. s3 \in CommandState
  BY <1>3, Fields
<1>a. 0 \in 0..Rounds
  BY ContainAssumption
<1>5. s \in CommandState
  BY <1>4, <1>a, Fields
<1>6. cmd' = [cmd EXCEPT ![c] = s]
  BY Zenon DEF Fails
<1>7. s.pc = "undo" /\ s.round = 0
  BY <1>1 DEF CommandState
<1> HIDE DEF s
<1> QED
  BY <1>5, <1>6, <1>7, Zenon DEF Turns

-----------------------------------------------------------------------------
(* Steps and what they leave true.                                         *)

LEMMA MoreOuters ==
  ASSUME NEW S, NEW T \in SUBSET Proc, S \subseteq T
  PROVE  Cardinality(S) \in Nat /\ Cardinality(T) \in Nat /\ Cardinality(S) =< Cardinality(T)
<1>1. IsFiniteSet(T)
  BY ContainAssumption, FS_Subset
<1> QED
  BY <1>1, FS_Subset, FS_CardinalityType

\* The processes of ps1, after a step: nobody is unborn again or comes in.
Leaves(ps, ps1) ==
  /\ BornOf(ps) \subseteq BornOf(ps1)
  /\ OutersOf(ps) \subseteq OutersOf(ps1)

LEMMA LocalStays ==
  ASSUME NEW c, NEW s \in CommandState, NEW ps, NEW ps1, NEW g, NEW g1,
         Local(c, s, ps, g), Leaves(ps, ps1),
         s.pc \in Steered => g1.there /\ g1.gate,
         s.pc \in Emptying => MembersOf(ps1) = {}
  PROVE  Local(c, s, ps1, g1)
<1>1. s.round \in Nat
  BY ContainAssumption DEF CommandState
<1>2. s.pc = "out" => s.round =< Cardinality(OutersOf(ps1))
  <2>1. Cardinality(OutersOf(ps)) \in Nat /\ Cardinality(OutersOf(ps1)) \in Nat
        /\ Cardinality(OutersOf(ps)) =< Cardinality(OutersOf(ps1))
    BY MoreOuters DEF Leaves, OutersOf, BornOf
  <2> QED
    BY <1>1, <2>1 DEF Local
<1>3. s.pc = "moveout" => s.want \subseteq BornOf(ps1) /\ s.round =< Cardinality(OutersOf(ps1) \cup s.want)
  <2>1. SUFFICES ASSUME s.pc = "moveout"
                 PROVE  s.want \subseteq BornOf(ps1) /\ s.round =< Cardinality(OutersOf(ps1) \cup s.want)
    OBVIOUS
  <2>2. s.want \subseteq BornOf(ps) /\ s.round =< Cardinality(OutersOf(ps) \cup s.want)
    BY <2>1 DEF Local
  <2>3. OutersOf(ps1) \cup s.want \in SUBSET Proc
        /\ OutersOf(ps) \cup s.want \subseteq OutersOf(ps1) \cup s.want
    BY <2>2 DEF Leaves, OutersOf, BornOf
  <2>4. Cardinality(OutersOf(ps) \cup s.want) \in Nat /\ Cardinality(OutersOf(ps1) \cup s.want) \in Nat
        /\ Cardinality(OutersOf(ps) \cup s.want) =< Cardinality(OutersOf(ps1) \cup s.want)
    BY <2>3, MoreOuters
  <2> QED
    BY <1>1, <2>2, <2>4 DEF Leaves
<1> QED
  BY <1>2, <1>3 DEF Local

LEMMA MembersAre ==
  Members = MembersOf(proc)
BY DEF Members, MembersOf, Alive

\* A step of the processes themselves.
LEMMA ProcessStep ==
  ASSUME Inv, World', UNCHANGED <<cmd, cg>>, Leaves(proc, proc'),
         MembersOf(proc) = {} => MembersOf(proc') = {}
  PROVE  Inv'
<1>0. TypeOK /\ SteeredInside /\ Alone /\ cmd \in [Command -> CommandState]
  BY Typed, Zenon DEF Inv
<1>1. TypeOK'
  BY <1>0, Zenon DEF TypeOK, World
<1>2. SteeredInside'
  BY <1>0 DEF SteeredInside, Members, MembersOf, Alive
<1>3. ASSUME NEW c \in Command PROVE Local(c, cmd[c], proc, cg)'
  <2>1. Local(c, cmd[c], proc, cg) /\ cmd[c] \in CommandState
    BY <1>0, Zenon DEF Inv
  <2>2. Local(c, cmd[c], proc', cg)
    <3>1. /\ cmd[c].pc \in Steered => cg.there /\ cg.gate
          /\ cmd[c].pc \in Emptying => MembersOf(proc') = {}
      BY <2>1 DEF Local
    <3> HIDE DEF Leaves
    <3> QED
      BY <2>1, <3>1, LocalStays
  <2> QED
    BY <2>2
<1>4. Alone'
  BY <1>0 DEF Alone, Live
<1> QED
  BY <1>1, <1>2, <1>3, <1>4 DEF Inv

\* A step of a command at work. The others are releases, unless it is one.
LEMMA CommandStep ==
  ASSUME Inv, World', NEW c \in Command, NEW s, Turns(c, s), Live(c),
         Leaves(proc, proc') \/ c \in Contain,
         c \in Release /\ MembersOf(proc) = {} => MembersOf(proc') = {},
         Local(c, s, proc', cg'), SteeredInside'
  PROVE  Inv'
<1>0. TypeOK /\ Alone /\ cmd \in [Command -> CommandState]
      /\ \A o \in Command : Local(o, cmd[o], proc, cg)
  BY Typed, Zenon DEF Inv
<1>1. TypeOK' /\ cmd'[c] = s /\ \A o \in Command \ {c} : cmd'[o] = cmd[o]
  BY <1>0, TypedNext
<1>2. ASSUME NEW o \in Command PROVE Local(o, cmd[o], proc, cg)'
  <2>1. CASE o = c
    BY <2>1, <1>1
  <2>2. CASE o # c
    <3>1. cmd[o] \in CommandState /\ Local(o, cmd[o], proc, cg)
      BY <1>0, Zenon
    <3>2. CASE c \in Contain
      <4>1. ~Live(o)
        BY <1>0, <2>2, <3>2 DEF Alone
      <4>2. cmd[o].pc \in {"idle", "killed", "done"}
        BY <4>1 DEF Live
      <4>3. Local(o, cmd[o], proc', cg')
        BY <4>2, <3>1 DEF Local, SetUp, Steered, Unrounded, Emptying
      <4> QED
        BY <4>3, <1>1, <2>2
    <3>3. CASE c \in Release
      <4>1. cmd[o].pc \notin Steered
        <5>1. CASE o \in Contain
          BY <1>0, <2>2, <3>3, <5>1, ContainAssumption DEF Alone, Command, Live, Steered, SetUp
        <5>2. CASE o \notin Contain
          BY <3>1, <5>2 DEF Local, Steered, SetUp
        <5> QED
          BY <5>1, <5>2
      <4>2. Leaves(proc, proc')
        BY <3>3, ContainAssumption
      <4>3. cmd[o].pc \in Emptying => MembersOf(proc') = {}
        BY <3>1, <3>3 DEF Local
      <4>4. Local(o, cmd[o], proc', cg')
        <5> HIDE DEF Leaves
        <5> QED
          BY <3>1, <4>1, <4>2, <4>3, LocalStays
      <4> QED
        BY <4>4, <1>1, <2>2
    <3> QED
      BY <3>2, <3>3 DEF Command
  <2> QED
    BY <2>1, <2>2
<1>3. Alone'
  <2>1. \A o \in Command : Live(o)' => Live(o)
    BY <1>1 DEF Live
  <2> QED
    BY <2>1, <1>0 DEF Alone, Command
<1> QED
  BY <1>1, <1>2, <1>3 DEF Inv

-----------------------------------------------------------------------------
(* The processes' own steps.                                               *)

LEMMA ForkStep ==
  ASSUME Inv, NEW p \in Proc, NEW q \in Proc, Fork(p, q)
  PROVE  Inv'
<1>1. World
  BY Typed, Zenon DEF Inv
<1>2. proc' = [proc EXCEPT ![q] = [life |-> "alive", parent |-> p, at |-> proc[p].at, home |-> None]]
      /\ proc[p].life = "alive" /\ proc[q].life = "unborn" /\ UNCHANGED <<frozen, scopes, cg, record, cmd>>
  BY DEF Fork, Alive
<1>3. [life |-> "alive", parent |-> p, at |-> proc[p].at, home |-> None] \in Process
  BY <1>1 DEF World, Process
<1>4. proc' \in [Proc -> Process]
  BY <1>1, <1>2, <1>3 DEF World
<1>5. sock' \in [Sock -> Socket]
  <2>1. CASE UNCHANGED sock
    BY <1>1, <2>1 DEF World
  <2>2. CASE sock' = [x \in Sock |-> [sock[x] EXCEPT !.by = Inherits(sock[x].by, p, q)]]
    <3>1. ASSUME NEW x \in Sock PROVE [sock[x] EXCEPT !.by = Inherits(sock[x].by, p, q)] \in Socket
      <4>1. sock[x] \in Socket
        BY <1>1 DEF World
      <4>2. Inherits(sock[x].by, p, q) \in SUBSET Proc
        BY <4>1 DEF Socket, Inherits
      <4> QED
        BY <4>1, <4>2 DEF Socket
    <3> QED
      BY <2>2, <3>1
  <2> QED
    BY <2>1, <2>2 DEF Fork
<1>6. World'
  BY <1>1, <1>2, <1>4, <1>5 DEF World
<1>7. Leaves(proc, proc') /\ (MembersOf(proc) = {} => MembersOf(proc') = {})
  BY <1>1, <1>2 DEF Leaves, OutersOf, BornOf, MembersOf, World, Process
<1> QED
  BY <1>2, <1>6, <1>7, ProcessStep

LEMMA ExitStep ==
  ASSUME Inv, NEW p \in Proc, Exit(p)
  PROVE  Inv'
<1>1. World
  BY Typed, Zenon DEF Inv
<1>2. proc' = [q \in Proc |-> IF q = p THEN Absent("dead")
                             ELSE IF proc[q].parent = p THEN [proc[q] EXCEPT !.parent = 0]
                             ELSE proc[q]]
      /\ frozen' = frozen \ {p} /\ sock' = [x \in Sock |-> Drops(sock[x], p)]
      /\ UNCHANGED <<scopes, cg, record, cmd>>
  BY DEF Exit
<1>3. proc' \in [Proc -> Process]
  <2>1. Absent("dead") \in Process
    BY DEF Process, Absent, Place
  <2>2. ASSUME NEW q \in Proc PROVE proc[q] \in Process /\ [proc[q] EXCEPT !.parent = 0] \in Process
    <3>1. proc[q] \in Process
      BY <1>1 DEF World
    <3> QED
      BY <3>1 DEF Process
  <2> HIDE DEF Process
  <2> QED
    BY <1>2, <2>1, <2>2, Zenon
<1>4. \A x \in Sock : Drops(sock[x], p) \in Socket
  BY <1>1 DEF World, Socket, Drops, Closed, Unmade, Binding
<1>5. World'
  BY <1>1, <1>2, <1>3, <1>4 DEF World
<1>6. \A q \in Proc : q # p => proc'[q].life = proc[q].life /\ proc'[q].at = proc[q].at
  BY <1>1, <1>2 DEF World, Process
<1>7. proc'[p].life = "dead"
  BY <1>2 DEF Absent
<1>8. Leaves(proc, proc') /\ (MembersOf(proc) = {} => MembersOf(proc') = {})
  BY <1>6, <1>7 DEF Leaves, OutersOf, BornOf, MembersOf
<1> QED
  BY <1>2, <1>5, <1>8, ProcessStep

\* Sockets that are opened and closed, tasks that freeze, scopes that go.
LEMMA OtherProcessSteps ==
  ASSUME Inv,
         \/ \E p \in Proc : Freezes(p)
         \/ \E p \in Proc, x \in Sock : Open(p, x) \/ CloseSocket(p, x)
         \/ \E x \in Scope : ScopeGoes(x)
  PROVE  Inv'
<1>1. World
  BY Typed, Zenon DEF Inv
<1>2. UNCHANGED <<proc, cg, cmd>>
  <2>1. ASSUME NEW p \in Proc, Freezes(p) PROVE UNCHANGED <<proc, cg, cmd>>
    BY <2>1 DEF Freezes
  <2>2. ASSUME NEW p \in Proc, NEW x \in Sock, Open(p, x) \/ CloseSocket(p, x) PROVE UNCHANGED <<proc, cg, cmd>>
    BY <2>2 DEF Open, CloseSocket
  <2>3. ASSUME NEW x \in Scope, ScopeGoes(x) PROVE UNCHANGED <<proc, cg, cmd>>
    BY <2>3 DEF ScopeGoes
  <2> QED
    BY <2>1, <2>2, <2>3
<1>3. World'
  <2>1. CASE \E p \in Proc : Freezes(p)
    BY <1>1, <2>1 DEF World, Freezes
  <2>2. ASSUME NEW p \in Proc, NEW x \in Sock, Open(p, x) PROVE World'
    <3>1. [Unmade EXCEPT !.by = {p}, !.made = TRUE, !.inside = proc[p].at = Inside /\ cg.gate] \in Socket
      BY <1>1 DEF World, Unmade, Socket, Binding
    <3> QED
      BY <1>1, <2>2, <3>1 DEF World, Open
  <2>3. ASSUME NEW p \in Proc, NEW x \in Sock, CloseSocket(p, x) PROVE World'
    <3>1. Drops(sock[x], p) \in Socket
      BY <1>1 DEF World, Socket, Drops, Closed, Unmade, Binding
    <3> QED
      BY <1>1, <2>3, <3>1 DEF World, CloseSocket
  <2>4. CASE \E x \in Scope : ScopeGoes(x)
    BY <1>1, <2>4 DEF World, ScopeGoes
  <2> QED
    BY <2>1, <2>2, <2>3, <2>4
<1>4. Leaves(proc, proc') /\ (MembersOf(proc) = {} => MembersOf(proc') = {})
  BY <1>2 DEF Leaves
<1> QED
  BY <1>2, <1>3, <1>4, ProcessStep

-----------------------------------------------------------------------------
(* A command's steps that leave the processes and the cgroup alone.        *)

LEMMA WorldStays ==
  ASSUME Inv, UNCHANGED <<proc, frozen, scopes, sock, cg, record>>
  PROVE  World'
<1>1. World
  BY Typed, Zenon DEF Inv
<1> QED
  BY <1>1 DEF World

LEMMA QuietStep ==
  ASSUME Inv, World', UNCHANGED <<proc, cg>>, NEW c \in Command, NEW s, Turns(c, s), Live(c),
         Local(c, s, proc, cg)
  PROVE  Inv'
<1>1. Leaves(proc, proc')
  BY DEF Leaves
<1>2. Local(c, s, proc', cg')
  BY Zenon
<1>3. SteeredInside'
  BY DEF Inv, SteeredInside, Members, Alive
<1> QED
  BY <1>1, <1>2, <1>3, CommandStep

\* From one place of Contain to another, or into its undo.
LEMMA SetUpStep ==
  ASSUME Inv, World', UNCHANGED <<proc, cg>>, NEW c \in Command, NEW s, Turns(c, s),
         cmd[c].pc \in Steered, s.pc \in Steered \cup {"undo"}, s.pid = cmd[c].pid,
         s.pc \in Unrounded => s.round = 0
  PROVE  Inv'
<1>1. Local(c, cmd[c], proc, cg)
  BY DEF Inv
<1>2. Local(c, s, proc, cg)
  BY <1>1 DEF Local, SetUp, Steered, Unrounded, Emptying
<1>3. Live(c)
  BY DEF Live, Steered, SetUp
<1> QED
  BY <1>2, <1>3, QuietStep

LEMMA FailStep ==
  ASSUME Inv, World', UNCHANGED <<proc, cg>>, NEW c \in Command, Fails(c), Live(c)
  PROVE  Inv'
<1>1. TypeOK
  BY DEF Inv
<1>2. PICK s : Turns(c, s) /\ s.pc = "undo" /\ s.round = 0
  BY <1>1, FailsTurns
<1>3. Local(c, s, proc, cg)
  BY <1>2 DEF Local, SetUp, Steered, Unrounded, Emptying
<1> QED
  BY <1>2, <1>3, QuietStep

-----------------------------------------------------------------------------
(* A command begins. A release is of a containment that was killed.        *)

LEMMA BeginStep ==
  ASSUME Inv, World', UNCHANGED <<proc, cg>>, NEW c \in Command, NEW s, Turns(c, s),
         Local(c, s, proc, cg),
         c \in Contain => \A o \in Command \ {c} : ~Live(o),
         \A o \in Contain \ {c} : ~Live(o)
  PROVE  Inv'
<1>1. TypeOK /\ SteeredInside /\ \A o \in Command : Local(o, cmd[o], proc, cg)
  BY Zenon DEF Inv
<1>2. TypeOK' /\ cmd'[c] = s /\ \A o \in Command \ {c} : cmd'[o] = cmd[o]
  BY <1>1, TypedNext
<1>3. SteeredInside'
  BY <1>1 DEF SteeredInside, Members, Alive
<1>4. ASSUME NEW o \in Command PROVE Local(o, cmd'[o], proc', cg')
  BY <1>1, <1>2, Zenon
<1>5. Alone'
  BY <1>2 DEF Alone, Live, Command
<1> QED
  BY <1>2, <1>3, <1>4, <1>5 DEF Inv

LEMMA StartContainStep ==
  ASSUME Inv, ~Careless, NEW c \in Command, NEW t \in Proc, StartContain(c, t)
  PROVE  Inv'
<1>1. cmd[c] \in CommandState
  BY Typed, Zenon DEF Inv
<1> DEFINE s1 == [cmd[c] EXCEPT !.pc = "make"]
           s == [s1 EXCEPT !.pid = t]
<1>2. s1 \in CommandState
  BY <1>1, Fields DEF PC
<1>3. s \in CommandState
  BY <1>2, Fields
<1>4. cmd' = [cmd EXCEPT ![c] = s]
  BY Zenon DEF StartContain
<1>5. s.pc = "make" /\ s.pid = t
  BY <1>1 DEF CommandState
<1>6. UNCHANGED <<proc, frozen, scopes, sock, cg, record>> /\ c \in Contain
      /\ (\A o \in Contain : ~Live(o)) /\ (\A o \in Release : ~Live(o))
  BY DEF StartContain
<1>7. World'
  BY <1>6, WorldStays
<1> HIDE DEF s
<1>8. Local(c, s, proc, cg)
  BY <1>5, <1>6 DEF Local, Steered, SetUp, Unrounded, Emptying
<1>9. Turns(c, s)
  BY <1>3, <1>4, Zenon DEF Turns
<1> QED
  BY <1>6, <1>7, <1>8, <1>9, BeginStep DEF Command

LEMMA StartReleaseStep ==
  ASSUME Inv, ~Careless, NEW c \in Command, NEW p \in Proc, StartRelease(c, p)
  PROVE  Inv'
<1>1. cmd[c] \in CommandState /\ World
  BY Typed, Zenon DEF Inv
<1> DEFINE s1 == [cmd[c] EXCEPT !.pc = "undo"]
           s2 == [s1 EXCEPT !.pid = p]
           s3 == [s2 EXCEPT !.origin = record.origin]
           s == [s3 EXCEPT !.pinned = record.pinned]
<1>2. record.origin \in Origins /\ record.pinned \in Seq(Pin)
  BY <1>1 DEF World
<1>3. s1 \in CommandState
  BY <1>1, Fields DEF PC
<1>4. s2 \in CommandState
  BY <1>3, Fields
<1>5. s3 \in CommandState
  BY <1>2, <1>4, Fields
<1>6. s \in CommandState
  BY <1>2, <1>5, Fields
<1>7. cmd' = [cmd EXCEPT ![c] = s]
  BY Zenon DEF StartRelease
<1>8. s.pc = "undo" /\ s.round = cmd[c].round
  BY <1>1 DEF CommandState
<1>9. UNCHANGED <<proc, frozen, scopes, sock, cg, record>> /\ c \in Release /\ cmd[c].pc = "idle"
      /\ (\A o \in Contain : ~Live(o))
  BY DEF StartRelease
<1>10. World'
  BY <1>9, WorldStays
<1>11. Local(c, cmd[c], proc, cg)
  BY Zenon DEF Inv
<1> HIDE DEF s
<1>12. Local(c, s, proc, cg)
  BY <1>8, <1>9, <1>11 DEF Local, Steered, SetUp, Unrounded, Emptying
<1>13. Turns(c, s)
  BY <1>6, <1>7, Zenon DEF Turns
<1>14. c \notin Contain
  BY <1>9, ContainAssumption
<1> QED
  BY <1>9, <1>10, <1>12, <1>13, <1>14, BeginStep

-----------------------------------------------------------------------------
(* Contain's own steps.                                                    *)

LEMMA PreflightFailsStep ==
  ASSUME Inv, NEW c \in Command, PreflightFails(c)
  PROVE  Inv'
<1>1. TypeOK /\ Goes(c, "close") /\ "close" \in PC /\ Live(c)
      /\ UNCHANGED <<proc, frozen, scopes, sock, cg, record>>
  BY DEF Inv, PreflightFails, PC, Live
<1>2. PICK s : Turns(c, s) /\ s.pc = "close"
  BY <1>1, GoesTurns
<1>3. Local(c, s, proc, cg)
  BY <1>2 DEF Local, SetUp, Steered, Unrounded, Emptying
<1>4. World'
  BY <1>1, WorldStays
<1> QED
  BY <1>1, <1>2, <1>3, <1>4, QuietStep

LEMMA MakeCgroupStep ==
  ASSUME Inv, NEW c \in Command, MakeCgroup(c)
  PROVE  Inv'
<1>1. cmd[c] \in CommandState /\ World /\ SteeredInside
  BY Typed, Zenon DEF Inv
<1> DEFINE s1 == [cmd[c] EXCEPT !.pc = "attach"]
           s2 == [s1 EXCEPT !.found = Members]
           s3 == [s2 EXCEPT !.origin = record.origin]
           s == [s3 EXCEPT !.pinned = record.pinned]
<1>2. record.origin \in Origins /\ record.pinned \in Seq(Pin) /\ Members \in SUBSET Proc
  BY <1>1 DEF World, Members
<1>3. s1 \in CommandState
  BY <1>1, Fields DEF PC
<1>4. s2 \in CommandState
  BY <1>2, <1>3, Fields
<1>5. s3 \in CommandState
  BY <1>2, <1>4, Fields
<1>6. s \in CommandState
  BY <1>2, <1>5, Fields
<1>7. cmd' = [cmd EXCEPT ![c] = s]
  BY Zenon DEF MakeCgroup
<1>8. s.pc = "attach" /\ s.pid = cmd[c].pid
  BY <1>1 DEF CommandState
<1>9. UNCHANGED <<proc, frozen, scopes, sock, record>> /\ cmd[c].pc = "make"
      /\ cg' = [cg EXCEPT !.there = TRUE, !.freeze = TRUE]
  BY DEF MakeCgroup
<1>10. World' /\ cg'.gate = cg.gate
  BY <1>1, <1>9 DEF World
<1>11. Local(c, cmd[c], proc, cg)
  BY Zenon DEF Inv
<1>12. c \in Contain /\ cmd[c].pid \in Proc /\ Live(c)
  BY <1>9, <1>11 DEF Local, SetUp, Live
<1> HIDE DEF s
<1>13. Local(c, s, proc', cg')
  BY <1>8, <1>12 DEF Local, Steered, SetUp, Unrounded, Emptying
<1>14. Turns(c, s)
  BY <1>6, <1>7, Zenon DEF Turns
<1>15. SteeredInside'
  BY <1>1, <1>9, <1>10 DEF SteeredInside, Members, Alive
<1>16. c \notin Release
  BY <1>12, ContainAssumption
<1> QED
  BY <1>10, <1>12, <1>13, <1>14, <1>15, <1>16, CommandStep

LEMMA AttachStep ==
  ASSUME Inv, NEW c \in Command, Attach(c)
  PROVE  Inv'
<1>1. TypeOK /\ World /\ SteeredInside /\ Local(c, cmd[c], proc, cg)
  BY Typed, Zenon DEF Inv
<1>2. cmd[c].pc = "attach" /\ UNCHANGED <<proc, frozen, scopes, sock, record>>
  BY DEF Attach
<1>3. c \in Contain /\ cmd[c].pid \in Proc /\ c \notin Release /\ Live(c)
  BY <1>1, <1>2, ContainAssumption DEF Local, SetUp, Live
<1>4. CASE cg.there
  <2>1. cg' = [cg EXCEPT !.gate = TRUE] /\ Goes(c, "scan") /\ "scan" \in PC
    BY <1>4 DEF Attach, PC
  <2>2. World' /\ cg'.gate /\ cg'.there
    BY <1>1, <1>2, <1>4, <2>1 DEF World
  <2>3. PICK s : Turns(c, s) /\ s.pc = "scan" /\ s.pid = cmd[c].pid
    BY <1>1, <2>1, GoesTurns
  <2>4. Local(c, s, proc', cg')
    BY <1>3, <2>2, <2>3 DEF Local, Steered, SetUp, Unrounded, Emptying
  <2>5. SteeredInside'
    BY <2>2 DEF SteeredInside
  <2> QED
    BY <1>3, <2>2, <2>3, <2>4, <2>5, CommandStep
<1>5. CASE ~cg.there
  <2>1. Fails(c) /\ UNCHANGED <<proc, frozen, scopes, sock, cg, record>>
    BY <1>2, <1>5 DEF Attach
  <2>2. World'
    BY <2>1, WorldStays
  <2> QED
    BY <1>3, <2>1, <2>2, FailStep
<1> QED
  BY <1>4, <1>5

LEMMA ScanStep ==
  ASSUME Inv, NEW c \in Command, Scan(c)
  PROVE  Inv'
<1>1. cmd[c] \in CommandState /\ Local(c, cmd[c], proc, cg)
  BY Typed, Zenon DEF Inv
<1>2. cmd[c].pc = "move" \/ cmd[c].pc = "scan"
  BY DEF Scan
<1>3. cmd[c].pc \in Steered /\ UNCHANGED <<proc, frozen, scopes, sock, cg, record>>
  BY <1>2 DEF Scan, Steered, SetUp
<1> DEFINE w == {cmd[c].pid} \cup Descendants(cmd[c].pid)
           s1 == [cmd[c] EXCEPT !.pc = "move"]
           s2 == [s1 EXCEPT !.moved = FALSE]
           s == [s2 EXCEPT !.want = w]
<1>4. w \in SUBSET Proc
  BY <1>1, <1>3 DEF Local, Steered, Descendants
<1>5. s1 \in CommandState
  BY <1>1, Fields DEF PC
<1>6. s2 \in CommandState
  BY <1>5, Fields
<1>7. s \in CommandState
  BY <1>4, <1>6, Fields
<1>8. cmd' = [cmd EXCEPT ![c] = s]
  BY Zenon DEF Scan
<1>9. s.pc = "move" /\ s.pid = cmd[c].pid
  BY <1>1 DEF CommandState
<1> HIDE DEF s
<1>10. Turns(c, s)
  BY <1>7, <1>8, Zenon DEF Turns
<1>11. World'
  BY <1>3, WorldStays
<1> QED
  BY <1>3, <1>9, <1>10, <1>11, SetUpStep DEF Steered, SetUp, Unrounded

\* A member is left as it is; a process that is gone has no origin.
LEMMA MoveNobody ==
  ASSUME Inv, NEW c \in Command, NEW p \in Proc, cmd[c].pc = "move",
         \/ cmd' = [cmd EXCEPT ![c].want = @ \ {p}]
         \/ cmd' = [cmd EXCEPT ![c].want = @ \ {p}, ![c].origin[p] = None],
         UNCHANGED <<proc, frozen, scopes, sock, cg, record>>
  PROVE  Inv'
<1>1. cmd[c] \in CommandState
  BY Typed, Zenon DEF Inv
<1>2. World' /\ cmd[c].pc \in Steered
  BY WorldStays DEF Steered, SetUp
<1> DEFINE s1 == [cmd[c] EXCEPT !.want = cmd[c].want \ {p}]
           s2 == [s1 EXCEPT !.origin = [cmd[c].origin EXCEPT ![p] = None]]
<1>3. cmd[c].want \ {p} \in SUBSET Proc /\ [cmd[c].origin EXCEPT ![p] = None] \in Origins
  BY <1>1 DEF CommandState, Origins
<1>4. s1 \in CommandState
  BY <1>1, <1>3, Fields
<1>5. s2 \in CommandState
  BY <1>3, <1>4, Fields
<1>6. /\ s1.pc = "move" /\ s1.pid = cmd[c].pid
      /\ s2.pc = "move" /\ s2.pid = cmd[c].pid
  BY <1>1 DEF CommandState
<1>7. cmd' = [cmd EXCEPT ![c] = s1] \/ cmd' = [cmd EXCEPT ![c] = s2]
  <2>1. CASE cmd' = [cmd EXCEPT ![c].want = @ \ {p}]
    BY <2>1, Zenon
  <2>2. CASE cmd' = [cmd EXCEPT ![c].want = @ \ {p}, ![c].origin[p] = None]
    <3>1. s1.origin = cmd[c].origin
      BY <1>1 DEF CommandState
    <3>2. cmd' = [cmd EXCEPT ![c] = [s1 EXCEPT !.origin = [s1.origin EXCEPT ![p] = None]]]
      BY <1>1, <2>2, Zenon
    <3> QED
      BY <3>1, <3>2, Zenon
  <2> QED
    BY <2>1, <2>2
<1> HIDE DEF s1, s2
<1>8. Turns(c, s1) \/ Turns(c, s2)
  BY <1>4, <1>5, <1>7, Zenon DEF Turns
<1> QED
  BY <1>2, <1>6, <1>8, SetUpStep DEF Steered, SetUp, Unrounded

\* A process is moved in: the programs are there, and it is the first or not.
LEMMA MoveIn ==
  ASSUME Inv, NEW c \in Command, NEW p \in Proc, cmd[c].pc = "move", Alive(p), p \notin Members,
         cmd' = [cmd EXCEPT ![c].want = @ \ {p}, ![c].moved = TRUE,
                            ![c].origin[p] = IF @ = None THEN proc[p].at ELSE @],
         proc' = [proc EXCEPT ![p].at = Inside, ![p].home = proc[p].at],
         UNCHANGED <<frozen, scopes, sock, cg, record>>
  PROVE  Inv'
<1>1. cmd[c] \in CommandState /\ World /\ Local(c, cmd[c], proc, cg)
  BY Typed, Zenon DEF Inv
<1>2. c \in Contain /\ cmd[c].pid \in Proc /\ cg.there /\ cg.gate /\ Live(c) /\ c \notin Release
  BY <1>1, ContainAssumption DEF Local, SetUp, Steered, Live
<1>3. proc[p] \in Process /\ proc[p].at \in Scope \cup {Top}
  BY <1>1 DEF World, Process, Place, Alive, Members
<1>4. proc' \in [Proc -> Process]
  <2>1. [[proc[p] EXCEPT !.at = Inside] EXCEPT !.home = proc[p].at] \in Process
    BY <1>3 DEF Process, Place
  <2>2. proc' = [proc EXCEPT ![p] = [[proc[p] EXCEPT !.at = Inside] EXCEPT !.home = proc[p].at]]
    BY Zenon
  <2> QED
    BY <1>1, <2>1, <2>2 DEF World
<1>5. World'
  BY <1>1, <1>4 DEF World
<1> DEFINE o == [cmd[c].origin EXCEPT ![p] = IF cmd[c].origin[p] = None THEN proc[p].at ELSE cmd[c].origin[p]]
           s1 == [cmd[c] EXCEPT !.want = cmd[c].want \ {p}]
           s2 == [s1 EXCEPT !.moved = TRUE]
           s == [s2 EXCEPT !.origin = o]
<1>6. cmd[c].want \ {p} \in SUBSET Proc /\ o \in Origins
  BY <1>1, <1>3 DEF CommandState, Origins
<1>7. s1 \in CommandState
  BY <1>1, <1>6, Fields
<1>8. s2 \in CommandState
  BY <1>7, Fields
<1>9. s \in CommandState
  BY <1>6, <1>8, Fields
<1>10. s.pc = "move" /\ s.pid = cmd[c].pid
  BY <1>1 DEF CommandState
<1>11. cmd' = [cmd EXCEPT ![c] = s]
  <2>1. s2.origin = cmd[c].origin
    BY <1>1 DEF CommandState
  <2> DEFINE v(x) == [x EXCEPT ![p] = IF x[p] = None THEN proc[p].at ELSE x[p]]
  <2>2. cmd' = [cmd EXCEPT ![c] = [s2 EXCEPT !.origin = v(s2.origin)]]
    BY Zenon
  <2> QED
    BY <2>1, <2>2, Zenon
<1> HIDE DEF s
<1>12. Turns(c, s)
  BY <1>9, <1>11, Zenon DEF Turns
<1>13. Local(c, s, proc', cg')
  BY <1>2, <1>10 DEF Local, SetUp, Steered, Unrounded, Emptying
<1>14. SteeredInside'
  BY <1>2 DEF SteeredInside
<1> QED
  BY <1>2, <1>5, <1>12, <1>13, <1>14, CommandStep

LEMMA MoveStep ==
  ASSUME Inv, NEW c \in Command, NEW p \in Proc, Move(c, p)
  PROVE  Inv'
<1>1. cmd[c].pc = "move" /\ UNCHANGED <<scopes, sock, cg, record>> /\ Live(c)
  BY DEF Move, Live
<1>2. CASE /\ p \in Members /\ cg.there
           /\ cmd' = [cmd EXCEPT ![c].want = @ \ {p}]
           /\ UNCHANGED <<proc, frozen>>
  BY <1>1, <1>2, MoveNobody
<1>3. CASE /\ Alive(p) /\ p \notin Members /\ cg.there
           /\ cmd' = [cmd EXCEPT ![c].want = @ \ {p}, ![c].moved = TRUE,
                                 ![c].origin[p] = IF @ = None THEN proc[p].at ELSE @]
           /\ proc' = [proc EXCEPT ![p].at = Inside, ![p].home = proc[p].at]
           /\ UNCHANGED frozen
  BY <1>1, <1>3, MoveIn
<1>4. CASE /\ ~Alive(p) /\ p # cmd[c].pid /\ cg.there
           /\ cmd' = [cmd EXCEPT ![c].want = @ \ {p}, ![c].origin[p] = None]
           /\ UNCHANGED <<proc, frozen>>
  BY <1>1, <1>4, MoveNobody
<1>5. CASE Fails(c) /\ UNCHANGED <<proc, frozen>>
  <2>1. UNCHANGED <<proc, frozen, scopes, sock, cg, record>>
    BY <1>1, <1>5
  <2>2. World'
    BY <2>1, WorldStays
  <2> QED
    BY <1>1, <1>5, <2>1, <2>2, FailStep
<1> QED
  BY <1>2, <1>3, <1>4, <1>5, Zenon DEF Move

LEMMA EndPassStep ==
  ASSUME Inv, NEW c \in Command, EndPass(c)
  PROVE  Inv'
<1>1. cmd[c] \in CommandState
  BY Typed, Zenon DEF Inv
<1>2. cmd[c].pc = "move" /\ UNCHANGED <<proc, frozen, scopes, sock, cg, record>>
  BY DEF EndPass
<1>3. World' /\ Live(c) /\ cmd[c].pc \in Steered
  BY <1>2, WorldStays DEF Live, Steered, SetUp
<1>4. CASE ~AnotherPass(c)
  <2> DEFINE next == IF cmd[c].second THEN "check" ELSE "frozen"
             s1 == [cmd[c] EXCEPT !.pc = next]
             s2 == [s1 EXCEPT !.second = TRUE]
             s == [s2 EXCEPT !.round = 0]
  <2>1. next \in PC /\ next \in {"check", "frozen"} /\ 0 \in 0..Rounds
    BY ContainAssumption DEF PC
  <2> HIDE DEF next
  <2>2. s1 \in CommandState
    BY <1>1, <2>1, Fields
  <2>3. s2 \in CommandState
    BY <2>2, Fields
  <2>4. s \in CommandState
    BY <2>1, <2>3, Fields
  <2>5. s.pc = next /\ s.pid = cmd[c].pid /\ s.round = 0
    BY <1>1 DEF CommandState
  <2>6. cmd' = [cmd EXCEPT ![c] = s]
    BY <1>4, Zenon DEF EndPass, next
  <2> HIDE DEF s
  <2>7. Turns(c, s)
    BY <2>4, <2>6, Zenon DEF Turns
  <2> QED
    BY <1>2, <1>3, <2>1, <2>5, <2>7, SetUpStep DEF Steered, SetUp
<1>5. CASE AnotherPass(c) /\ cmd[c].round + 1 < Rounds
  <2> DEFINE s1 == [cmd[c] EXCEPT !.pc = "scan"]
             s == [s1 EXCEPT !.round = cmd[c].round + 1]
  <2>1. "scan" \in PC /\ cmd[c].round + 1 \in 0..Rounds
    BY <1>1, <1>5, ContainAssumption DEF PC, CommandState
  <2>2. s1 \in CommandState
    BY <1>1, <2>1, Fields
  <2>3. s \in CommandState
    BY <2>1, <2>2, Fields
  <2>4. s.pc = "scan" /\ s.pid = cmd[c].pid
    BY <1>1 DEF CommandState
  <2>5. cmd' = [cmd EXCEPT ![c] = s]
    BY <1>5, Zenon DEF EndPass
  <2> HIDE DEF s
  <2>6. Turns(c, s)
    BY <2>3, <2>5, Zenon DEF Turns
  <2> QED
    BY <1>2, <1>3, <2>4, <2>6, SetUpStep DEF Steered, SetUp, Unrounded
<1>6. CASE AnotherPass(c) /\ ~(cmd[c].round + 1 < Rounds)
  <2>1. Fails(c)
    BY <1>6, Zenon DEF EndPass
  <2> QED
    BY <1>2, <1>3, <2>1, FailStep
<1> QED
  BY <1>4, <1>5, <1>6

LEMMA FrozenStep ==
  ASSUME Inv, NEW c \in Command, Frozen(c) \/ NotFrozen(c)
  PROVE  Inv'
<1>1. cmd[c].pc = "frozen" /\ UNCHANGED <<proc, frozen, scopes, sock, cg, record>>
      /\ (Goes(c, "scan") \/ Fails(c))
  BY DEF Frozen, NotFrozen
<1>2. World' /\ Live(c) /\ cmd[c].pc \in Steered /\ "scan" \in PC /\ TypeOK
  BY <1>1, WorldStays DEF Live, Steered, SetUp, PC, Inv
<1>3. CASE Goes(c, "scan")
  <2>1. PICK s : Turns(c, s) /\ s.pc = "scan" /\ s.pid = cmd[c].pid
    BY <1>2, <1>3, GoesTurns
  <2> QED
    BY <1>1, <1>2, <2>1, SetUpStep DEF Steered, SetUp, Unrounded
<1>4. CASE Fails(c)
  BY <1>1, <1>2, <1>4, FailStep
<1> QED
  BY <1>1, <1>3, <1>4

\* The same for the places of Contain that read members and sockets.
LEMMA ReadStep ==
  ASSUME Inv, NEW c \in Command, CheckMembers(c) \/ Reach(c)
  PROVE  Inv'
<1>1. cmd[c] \in CommandState /\ World /\ Local(c, cmd[c], proc, cg)
  BY Typed, Zenon DEF Inv
<1>2. cmd[c].pc \in {"check", "reach"} /\ UNCHANGED <<proc, frozen, scopes, sock, cg, record>>
  BY DEF CheckMembers, Reach
<1>3. World' /\ Live(c) /\ cmd[c].pc \in Steered /\ cmd[c].round = 0
  BY <1>1, <1>2, WorldStays DEF Live, Steered, SetUp, Unrounded, Local
<1>4. CASE Fails(c)
  BY <1>2, <1>3, <1>4, FailStep
<1>5. ASSUME NEW pc \in {"reach", "act"}, NEW w \in SUBSET (Proc \X Sock),
             cmd' = [cmd EXCEPT ![c].pc = pc, ![c].work = w]
      PROVE  Inv'
  <2> DEFINE s1 == [cmd[c] EXCEPT !.pc = pc]
             s == [s1 EXCEPT !.work = w]
  <2>1. s1 \in CommandState
    BY <1>1, Fields DEF PC
  <2>2. s \in CommandState
    BY <2>1, Fields
  <2>3. s.pc = pc /\ s.pid = cmd[c].pid /\ s.round = 0
    BY <1>1, <1>3 DEF CommandState
  <2>4. cmd' = [cmd EXCEPT ![c] = s]
    BY <1>5, Zenon
  <2> HIDE DEF s
  <2>5. Turns(c, s)
    BY <2>2, <2>4, Zenon DEF Turns
  <2> QED
    BY <1>2, <1>3, <2>3, <2>5, SetUpStep DEF Steered, SetUp
<1>6. CASE CheckMembers(c)
  <2>1. MembersSockets \in SUBSET (Proc \X Sock)
    BY DEF MembersSockets
  <2>2. Fails(c) \/ cmd' = [cmd EXCEPT ![c].pc = "reach", ![c].work = MembersSockets]
    BY <1>6 DEF CheckMembers
  <2> HIDE DEF MembersSockets
  <2> QED
    BY <1>4, <1>5, <2>1, <2>2
<1>7. CASE Reach(c)
  <2> DEFINE held == {w \in cmd[c].work : w[1] \in sock[w[2]].by}
             kept == {w \in held : Action(w[2]) # "keep"}
  <2>1. kept \in SUBSET (Proc \X Sock)
    BY <1>1 DEF CommandState
  <2>2. Fails(c) \/ cmd' = [cmd EXCEPT ![c].pc = "act", ![c].work = kept]
    BY <1>7, Zenon DEF Reach
  <2> HIDE DEF kept
  <2> QED
    BY <1>4, <1>5, <2>1, <2>2
<1> QED
  BY <1>6, <1>7

LEMMA ActStep ==
  ASSUME Inv, NEW c \in Command, NEW w \in cmd[c].work, Act(c, w)
  PROVE  Inv'
<1>1. cmd[c] \in CommandState /\ World /\ Local(c, cmd[c], proc, cg)
  BY Typed, Zenon DEF Inv
<1>2. cmd[c].pc = "act" /\ UNCHANGED <<proc, frozen, scopes, cg, record>>
  BY DEF Act
<1>3. cmd[c].pc \in Steered /\ cmd[c].round = 0 /\ c \in Contain
  BY <1>1, <1>2 DEF Steered, SetUp, Unrounded, Local
<1>4. w[1] \in Proc /\ w[2] \in Sock /\ sock[w[2]] \in Socket
  BY <1>1 DEF CommandState, World
<1>5. cmd[c].work \ {w} \in SUBSET (Proc \X Sock)
  BY <1>1 DEF CommandState
<1> DEFINE s1 == [cmd[c] EXCEPT !.work = cmd[c].work \ {w}]
<1>6. s1 \in CommandState
  BY <1>1, <1>5, Fields
<1>7. CASE Action(w[2]) = "cut"
  <2> DEFINE x1 == [sock[w[2]] EXCEPT !.bind = c]
             x == [x1 EXCEPT !.shut = TRUE]
  <2>1. x \in Socket
    BY <1>3, <1>4 DEF Socket, Binding
  <2>2. sock' = [sock EXCEPT ![w[2]] = x] /\ cmd' = [cmd EXCEPT ![c] = s1]
    BY <1>7, Zenon DEF Act
  <2>3. World'
    BY <1>1, <1>2, <2>1, <2>2 DEF World
  <2>4. s1.pc = "act" /\ s1.pid = cmd[c].pid /\ s1.round = 0
    BY <1>1, <1>2, <1>3 DEF CommandState
  <2> HIDE DEF s1
  <2>5. Turns(c, s1)
    BY <1>6, <2>2, Zenon DEF Turns
  <2> QED
    BY <1>2, <1>3, <2>3, <2>4, <2>5, SetUpStep DEF Steered, SetUp
<1>8. CASE Action(w[2]) # "cut"
  <2> DEFINE x1 == [sock[w[2]] EXCEPT !.bind = c]
             x == [x1 EXCEPT !.under = w[1]]
             pin == [by |-> w[1], sock |-> w[2], was |-> ReadBinding(w[2])]
             s == [s1 EXCEPT !.pinned = Append(cmd[c].pinned, pin)]
  <2>1. x \in Socket
    BY <1>3, <1>4 DEF Socket, Binding
  <2>2. pin \in Pin
    BY <1>4 DEF Pin, ReadBinding, Socket, Binding
  <2>3. Append(cmd[c].pinned, pin) \in Seq(Pin)
    <3>1. cmd[c].pinned \in Seq(Pin)
      BY <1>1 DEF CommandState
    <3> HIDE DEF pin
    <3> QED
      BY <2>2, <3>1
  <2>4. s \in CommandState
    BY <1>6, <2>3, Fields
  <2>5. s.pc = "act" /\ s.pid = cmd[c].pid /\ s.round = 0
    BY <1>1, <1>2, <1>3 DEF CommandState
  <2>6. sock' = [sock EXCEPT ![w[2]] = x]
    BY <1>8, Zenon DEF Act
  <2>7. cmd' = [cmd EXCEPT ![c] = s]
    <3>1. s1.pinned = cmd[c].pinned
      BY <1>1 DEF CommandState
    <3>2. cmd' = [cmd EXCEPT ![c].work = @ \ {w}, ![c].pinned = Append(@, pin)]
      BY <1>8, Zenon DEF Act
    <3>3. cmd' = [cmd EXCEPT ![c] = [s1 EXCEPT !.pinned = Append(s1.pinned, pin)]]
      BY <3>2, Zenon
    <3> QED
      BY <3>1, <3>3, Zenon
  <2>8. World'
    BY <1>1, <1>2, <2>1, <2>6 DEF World
  <2> HIDE DEF s
  <2>9. Turns(c, s)
    BY <2>4, <2>7, Zenon DEF Turns
  <2> QED
    BY <1>2, <1>3, <2>5, <2>8, <2>9, SetUpStep DEF Steered, SetUp
<1> QED
  BY <1>7, <1>8

\* ActFails, WriteRecord and what ends a hold.
LEMMA LaterStep ==
  ASSUME Inv, NEW c \in Command, ActFails(c) \/ WriteRecord(c) \/ Signal(c) \/ Emptied(c)
  PROVE  Inv'
<1>1. cmd[c] \in CommandState /\ World /\ TypeOK /\ Local(c, cmd[c], proc, cg)
  BY Typed, Zenon DEF Inv
<1>2. cmd[c].pc \in {"act", "hold"} /\ UNCHANGED <<proc, frozen, scopes, sock, cg>>
  BY DEF ActFails, WriteRecord, Signal, Emptied
<1>3. cmd[c].pc \in Steered /\ cmd[c].round = 0 /\ Live(c)
  BY <1>1, <1>2 DEF Steered, SetUp, Unrounded, Local, Live
<1>4. World'
  <2>1. CASE UNCHANGED record
    BY <1>2, <2>1, WorldStays
  <2>2. CASE record' = [there |-> TRUE, origin |-> cmd[c].origin, pinned |-> cmd[c].pinned]
    BY <1>1, <1>2, <2>2 DEF World, CommandState
  <2> QED
    BY <2>1, <2>2 DEF ActFails, WriteRecord, Signal, Emptied
<1>5. CASE ActFails(c)
  BY <1>2, <1>3, <1>4, <1>5, FailStep DEF ActFails
<1>6. ASSUME NEW pc \in {"thaw", "undo"}, Goes(c, pc) PROVE Inv'
  <2>1. PICK s : Turns(c, s) /\ s.pc = pc /\ s.pid = cmd[c].pid /\ s.round = cmd[c].round
    BY <1>1, <1>6, GoesTurns DEF PC
  <2> QED
    BY <1>2, <1>3, <1>4, <2>1, SetUpStep DEF Steered, SetUp
<1> QED
  BY <1>5, <1>6 DEF WriteRecord, Signal, Emptied

LEMMA ThawStep ==
  ASSUME Inv, NEW c \in Command, Thaw(c)
  PROVE  Inv'
<1>1. cmd[c] \in CommandState /\ World /\ SteeredInside /\ Local(c, cmd[c], proc, cg)
  BY Typed, Zenon DEF Inv
<1>2. cmd[c].pc = "thaw" /\ UNCHANGED <<proc, scopes, sock, record>>
  BY DEF Thaw
<1>3. c \in Contain /\ cmd[c].pid \in Proc /\ c \notin Release /\ cg.there /\ cg.gate /\ cmd[c].round = 0 /\ Live(c)
  BY <1>1, <1>2, ContainAssumption DEF Local, SetUp, Steered, Unrounded, Live
<1>4. cg' = [cg EXCEPT !.freeze = FALSE] /\ frozen' = {}
      /\ cmd' = [cmd EXCEPT ![c].pc = "hold", ![c].held = TRUE]
  BY <1>3 DEF Thaw
<1>5. World' /\ cg'.there /\ cg'.gate
  BY <1>1, <1>2, <1>3, <1>4 DEF World
<1> DEFINE s1 == [cmd[c] EXCEPT !.pc = "hold"]
           s == [s1 EXCEPT !.held = TRUE]
<1>6. s1 \in CommandState
  BY <1>1, Fields DEF PC
<1>7. s \in CommandState
  BY <1>6, Fields
<1>8. s.pc = "hold" /\ s.pid = cmd[c].pid /\ s.round = 0
  BY <1>1, <1>3 DEF CommandState
<1>9. cmd' = [cmd EXCEPT ![c] = s]
  BY <1>4, Zenon
<1> HIDE DEF s
<1>10. Turns(c, s)
  BY <1>7, <1>9, Zenon DEF Turns
<1>11. Local(c, s, proc', cg')
  BY <1>3, <1>5, <1>8 DEF Local, SetUp, Steered, Unrounded, Emptying
<1>12. SteeredInside'
  BY <1>5 DEF SteeredInside
<1> QED
  BY <1>3, <1>5, <1>10, <1>11, <1>12, CommandStep

-----------------------------------------------------------------------------
(* undo, of a containment or of a release beside others of its kind.       *)

\* A step of undo that moves nobody, and what it may do to the cgroup.
LEMMA UndoneStep ==
  ASSUME Inv, World', UNCHANGED proc, NEW c \in Command, NEW s, Turns(c, s), Live(c),
         Local(c, s, proc, cg), s.pc \notin Steered,
         cg'.gate = cg.gate \/ MembersOf(proc) = {}
  PROVE  Inv'
<1>1. Leaves(proc, proc')
  BY DEF Leaves
<1>2. Local(c, s, proc', cg')
  BY DEF Local
<1>3. SteeredInside'
  BY DEF Inv, SteeredInside, Members, MembersOf, Alive
<1> QED
  BY <1>1, <1>2, <1>3, CommandStep

LEMMA UndoStep ==
  ASSUME Inv, NEW c \in Command, Undo(c)
  PROVE  Inv'
<1>1. TypeOK /\ World /\ Local(c, cmd[c], proc, cg)
  BY Typed, Zenon DEF Inv
<1>2. cmd[c].pc = "undo" /\ UNCHANGED <<proc, frozen, scopes, sock, record>> /\ Goes(c, "restore")
      /\ cg' = [cg EXCEPT !.freeze = cg.there] /\ "restore" \in PC
  BY DEF Undo, PC
<1>3. World' /\ cg'.gate = cg.gate
  BY <1>1, <1>2 DEF World
<1>4. cmd[c].round = 0 /\ Live(c)
  BY <1>1, <1>2 DEF Local, Unrounded, Live
<1>5. PICK s : Turns(c, s) /\ s.pc = "restore" /\ s.round = 0
  BY <1>1, <1>2, <1>4, GoesTurns
<1>6. Local(c, s, proc, cg) /\ s.pc \notin Steered
  BY <1>5 DEF Local, SetUp, Steered, Unrounded, Emptying
<1> QED
  BY <1>2, <1>3, <1>4, <1>5, <1>6, UndoneStep

LEMMA RestoreStep ==
  ASSUME Inv, NEW c \in Command, Restore(c)
  PROVE  Inv'
<1>1. cmd[c] \in CommandState /\ TypeOK /\ World /\ Local(c, cmd[c], proc, cg)
  BY Typed, Zenon DEF Inv
<1>2. cmd[c].pc = "restore" /\ UNCHANGED <<proc, frozen, scopes, cg, record>>
  BY DEF Restore
<1>3. cmd[c].round = 0 /\ Live(c)
  BY <1>1, <1>2 DEF Local, Unrounded, Live
<1>4. CASE cmd[c].pinned = <<>>
  <2>1. UNCHANGED sock /\ Goes(c, "out") /\ "out" \in PC
    BY <1>4 DEF Restore, PC
  <2>2. PICK s : Turns(c, s) /\ s.pc = "out" /\ s.round = 0
    BY <1>1, <1>3, <2>1, GoesTurns
  <2>3. Cardinality(OutersOf(proc)) \in Nat
    BY MoreOuters DEF OutersOf, BornOf
  <2>4. Local(c, s, proc, cg) /\ s.pc \notin Steered
    BY <2>2, <2>3 DEF Local, SetUp, Steered, Unrounded, Emptying
  <2>5. World'
    BY <1>2, <2>1, WorldStays
  <2> QED
    BY <1>2, <1>3, <2>2, <2>4, <2>5, UndoneStep
<1>5. CASE cmd[c].pinned # <<>>
  <2>1. cmd[c].pinned \in Seq(Pin)
    BY <1>1 DEF CommandState
  <2>2. Head(cmd[c].pinned) \in Pin /\ Tail(cmd[c].pinned) \in Seq(Pin)
    BY <1>5, <2>1
  <2> DEFINE x == Head(cmd[c].pinned)
             s == [cmd[c] EXCEPT !.pinned = Tail(cmd[c].pinned)]
  <2>3. sock' = (IF x.by \in sock[x.sock].by THEN [sock EXCEPT ![x.sock].bind = x.was] ELSE sock)
        /\ cmd' = [cmd EXCEPT ![c] = s]
    BY <1>5, Zenon DEF Restore
  <2>4. x.sock \in Sock /\ x.was \in Binding
    BY <2>2 DEF Pin
  <2>5. sock' \in [Sock -> Socket]
    <3> HIDE DEF x
    <3>0. sock[x.sock] \in Socket
      BY <1>1, <2>4 DEF World
    <3>1. [sock[x.sock] EXCEPT !.bind = x.was] \in Socket
      BY <2>4, <3>0 DEF Socket
    <3> QED
      BY <1>1, <2>3, <2>4, <3>1 DEF World
  <2>6. World'
    BY <1>1, <1>2, <2>5 DEF World
  <2>7. s \in CommandState
    BY <1>1, <2>2, Fields
  <2>8. s.pc = "restore" /\ s.round = 0
    BY <1>1, <1>2, <1>3 DEF CommandState
  <2> HIDE DEF s
  <2>9. Turns(c, s)
    BY <2>3, <2>7, Zenon DEF Turns
  <2>10. Local(c, s, proc, cg) /\ s.pc \notin Steered
    BY <2>8 DEF Local, SetUp, Steered, Unrounded, Emptying
  <2> QED
    BY <1>2, <1>3, <2>6, <2>9, <2>10, UndoneStep
<1> QED
  BY <1>4, <1>5

\* A round begins with somebody inside, who is one more than those outside.
LEMMA OneMoreOut ==
  ASSUME NEW n \in Nat, n =< Cardinality(OutersOf(proc)), Members # {}
  PROVE  /\ Members \subseteq BornOf(proc)
         /\ n + 1 =< Cardinality(OutersOf(proc) \cup Members)
<1>1. PICK m : m \in MembersOf(proc)
  BY MembersAre
<1>2. m \in Proc /\ m \notin OutersOf(proc) /\ Members \in SUBSET Proc /\ Members \subseteq BornOf(proc)
  BY <1>1, MembersAre DEF OutersOf, MembersOf, BornOf
<1>3. IsFiniteSet(OutersOf(proc))
  BY ContainAssumption, FS_Subset DEF OutersOf, BornOf
<1>4. Cardinality(OutersOf(proc) \cup {m}) = Cardinality(OutersOf(proc)) + 1
  BY <1>2, <1>3, FS_AddElement
<1>5. OutersOf(proc) \cup Members \in SUBSET Proc /\ OutersOf(proc) \cup {m} \subseteq OutersOf(proc) \cup Members
  BY <1>1, <1>2, MembersAre DEF OutersOf, BornOf
<1>6. Cardinality(OutersOf(proc) \cup Members) \in Nat /\ Cardinality(OutersOf(proc)) \in Nat
      /\ Cardinality(OutersOf(proc) \cup {m}) =< Cardinality(OutersOf(proc) \cup Members)
  BY <1>5, <1>3, MoreOuters, FS_CardinalityType
<1> QED
  BY <1>2, <1>4, <1>6

\* When there were as many rounds as there can be processes, all are outside.
LEMMA AllOut ==
  ASSUME Rounds =< Cardinality(OutersOf(proc))
  PROVE  Members = {}
<1>1. IsFiniteSet(Proc) /\ OutersOf(proc) \subseteq Proc /\ Cardinality(Proc) =< Rounds /\ Rounds \in Nat
  BY ContainAssumption DEF OutersOf, BornOf
<1>2. Cardinality(OutersOf(proc)) = Cardinality(Proc)
  BY <1>1, FS_Subset, FS_CardinalityType
<1>3. OutersOf(proc) = Proc
  BY <1>1, <1>2, FS_Subset
<1> QED
  BY <1>3, MembersAre DEF OutersOf, MembersOf

LEMMA RoundStep ==
  ASSUME Inv, NEW c \in Command, Round(c)
  PROVE  Inv'
<1>1. cmd[c] \in CommandState /\ World /\ Local(c, cmd[c], proc, cg)
  BY Typed, Zenon DEF Inv
<1>2. cmd[c].pc = "out" /\ UNCHANGED <<proc, frozen, scopes, sock, cg, record>>
  BY DEF Round
<1>3. World' /\ Live(c) /\ cmd[c].round \in 0..Rounds /\ cmd[c].round =< Cardinality(OutersOf(proc))
  BY <1>1, <1>2, WorldStays DEF Local, Live, CommandState
<1>4. CASE cmd[c].round < Rounds /\ Members # {}
  <2> DEFINE s1 == [cmd[c] EXCEPT !.pc = "moveout"]
             s2 == [s1 EXCEPT !.want = Members]
             s == [s2 EXCEPT !.round = cmd[c].round + 1]
  <2>1. "moveout" \in PC /\ Members \in SUBSET Proc
    BY DEF PC, Members
  <2>2. cmd[c].round + 1 \in 0..Rounds /\ cmd[c].round \in Nat
    BY <1>3, <1>4, ContainAssumption
  <2>3. s1 \in CommandState
    BY <1>1, <2>1, Fields
  <2>4. s2 \in CommandState
    BY <2>1, <2>3, Fields
  <2>5. s \in CommandState
    BY <2>2, <2>4, Fields
  <2>6. s.pc = "moveout" /\ s.want = Members /\ s.round = cmd[c].round + 1
    BY <1>1 DEF CommandState
  <2>7. cmd' = [cmd EXCEPT ![c] = s]
    BY <1>4, Zenon DEF Round
  <2> HIDE DEF s
  <2>8. Turns(c, s)
    BY <2>5, <2>7, Zenon DEF Turns
  <2>9. Members \subseteq BornOf(proc) /\ cmd[c].round + 1 =< Cardinality(OutersOf(proc) \cup Members)
    BY <1>3, <1>4, <2>2, OneMoreOut
  <2>10. Local(c, s, proc, cg)
    BY <2>6, <2>9 DEF Local, SetUp, Steered, Unrounded, Emptying
  <2> QED
    BY <1>2, <1>3, <2>8, <2>10, QuietStep
<1>5. CASE ~(cmd[c].round < Rounds /\ Members # {})
  <2> DEFINE s == [cmd[c] EXCEPT !.pc = "unfreeze"]
  <2>1. s \in CommandState
    BY <1>1, Fields DEF PC
  <2>2. s.pc = "unfreeze"
    BY <1>1 DEF CommandState
  <2>3. cmd' = [cmd EXCEPT ![c] = s]
    BY <1>5, Zenon DEF Round
  <2> HIDE DEF s
  <2>4. Turns(c, s)
    BY <2>1, <2>3, Zenon DEF Turns
  <2>5. Members = {}
    <3>1. CASE cmd[c].round < Rounds
      BY <1>5, <3>1
    <3>2. CASE ~(cmd[c].round < Rounds)
      <4>1. Cardinality(OutersOf(proc)) \in Nat
        BY MoreOuters DEF OutersOf, BornOf
      <4>2. Rounds =< Cardinality(OutersOf(proc))
        BY <1>3, <3>2, <4>1, ContainAssumption
      <4> QED
        BY <4>2, AllOut
    <3> QED
      BY <3>1, <3>2
  <2>6. Local(c, s, proc, cg)
    BY <2>2, <2>5, MembersAre DEF Local, SetUp, Steered, Unrounded, Emptying
  <2> QED
    BY <1>2, <1>3, <2>4, <2>6, QuietStep
<1> QED
  BY <1>4, <1>5

\* Whoever is moved out, or has exited meanwhile, is outside for good.
LEMMA MoveOutStep ==
  ASSUME Inv, NEW c \in Command, NEW p \in Proc, MoveOut(c, p)
  PROVE  Inv'
<1>1. cmd[c] \in CommandState /\ World /\ SteeredInside /\ Local(c, cmd[c], proc, cg)
  BY Typed, Zenon DEF Inv
<1>2. cmd[c].pc = "moveout" /\ p \in cmd[c].want /\ UNCHANGED <<scopes, sock, cg, record>>
      /\ frozen' = frozen \ {p} /\ Live(c)
  BY DEF MoveOut, Live
<1>3. cmd[c].want \subseteq BornOf(proc) /\ cmd[c].round =< Cardinality(OutersOf(proc) \cup cmd[c].want)
      /\ cmd[c].round \in Nat
  BY <1>1, <1>2, ContainAssumption DEF Local, CommandState
<1>4. PlaceFor(c, p) \in Scope \cup {Top}
  <2> DEFINE o == IF cmd[c].origin[p] # None THEN cmd[c].origin[p] ELSE cmd[c].origin[cmd[c].pid]
  <2>1. PlaceFor(c, p) = IF o \in scopes THEN o ELSE Top
    BY Zenon DEF PlaceFor
  <2> HIDE DEF o
  <2> QED
    BY <1>1, <2>1 DEF World
<1>5. proc' = (IF Alive(p) THEN [proc EXCEPT ![p].at = PlaceFor(c, p)] ELSE proc)
  BY DEF MoveOut
<1> HIDE DEF PlaceFor
<1>6. proc' \in [Proc -> Process]
  BY <1>1, <1>4, <1>5 DEF World, Process, Place
<1>7. World'
  BY <1>1, <1>2, <1>6 DEF World
<1>8. /\ \A q \in Proc : proc'[q].life = proc[q].life
      /\ \A q \in Proc \ {p} : proc'[q].at = proc[q].at
      /\ proc'[p].life = "alive" => proc'[p].at \in Scope \cup {Top}
  BY <1>1, <1>4, <1>5 DEF World, Process, Alive
<1>9. /\ BornOf(proc') = BornOf(proc)
      /\ MembersOf(proc') = MembersOf(proc) \ {p}
      /\ OutersOf(proc') = OutersOf(proc) \cup {p}
  <2>1. Inside \notin Scope \cup {Top} /\ p \in BornOf(proc)
    BY <1>2, <1>3, ContainAssumption
  <2>2. BornOf(proc') = BornOf(proc)
    BY <1>8 DEF BornOf
  <2>3. MembersOf(proc') = MembersOf(proc) \ {p}
    BY <1>8, <2>1 DEF MembersOf
  <2> QED
    BY <2>1, <2>2, <2>3 DEF OutersOf
<1> DEFINE s == [cmd[c] EXCEPT !.want = cmd[c].want \ {p}]
<1>10. s \in CommandState
  <2>1. cmd[c].want \ {p} \in SUBSET Proc
    BY <1>1 DEF CommandState
  <2> QED
    BY <1>1, <2>1, Fields
<1>11. s.pc = "moveout" /\ s.want = cmd[c].want \ {p} /\ s.round = cmd[c].round
  BY <1>1, <1>2 DEF CommandState
<1>12. cmd' = [cmd EXCEPT ![c] = s]
  BY Zenon DEF MoveOut
<1> HIDE DEF s
<1>13. Turns(c, s)
  BY <1>10, <1>12, Zenon DEF Turns
<1>14. OutersOf(proc) \cup cmd[c].want = OutersOf(proc') \cup s.want
  BY <1>2, <1>9, <1>11
<1>15. Local(c, s, proc', cg')
  BY <1>3, <1>9, <1>11, <1>14 DEF Local, SetUp, Steered, Unrounded, Emptying
<1>16. SteeredInside'
  <2>1. MembersOf(proc') # {} => cg'.gate
    BY <1>1, <1>2, <1>9, MembersAre DEF SteeredInside
  <2> QED
    BY <2>1 DEF SteeredInside, Members, MembersOf, Alive
<1>17. Leaves(proc, proc') /\ (MembersOf(proc) = {} => MembersOf(proc') = {})
  BY <1>9 DEF Leaves
<1> QED
  BY <1>2, <1>7, <1>13, <1>15, <1>16, <1>17, CommandStep

LEMMA EndRoundStep ==
  ASSUME Inv, NEW c \in Command, EndRound(c)
  PROVE  Inv'
<1>1. cmd[c] \in CommandState /\ TypeOK /\ Local(c, cmd[c], proc, cg)
  BY Typed, Zenon DEF Inv
<1>2. cmd[c].pc = "moveout" /\ cmd[c].want = {} /\ Goes(c, "out") /\ "out" \in PC /\ Live(c)
      /\ UNCHANGED <<proc, frozen, scopes, sock, cg, record>>
  BY DEF EndRound, PC, Live
<1>3. PICK s : Turns(c, s) /\ s.pc = "out" /\ s.round = cmd[c].round
  BY <1>1, <1>2, GoesTurns
<1>4. cmd[c].round =< Cardinality(OutersOf(proc))
  <2>1. OutersOf(proc) \cup cmd[c].want = OutersOf(proc)
    BY <1>2
  <2> QED
    BY <1>1, <1>2, <2>1 DEF Local
<1>5. Local(c, s, proc, cg)
  BY <1>3, <1>4 DEF Local, SetUp, Steered, Unrounded, Emptying
<1>6. World'
  BY <1>2, WorldStays
<1> QED
  BY <1>2, <1>3, <1>5, <1>6, QuietStep

\* The freezer is let go, the programs, and the cgroup: nobody is inside.
LEMMA EmptiedSteps ==
  ASSUME Inv, NEW c \in Command, Unfreeze(c) \/ Detach(c) \/ Remove(c)
  PROVE  Inv'
<1>1. cmd[c] \in CommandState /\ TypeOK /\ World /\ Local(c, cmd[c], proc, cg)
  BY Typed, Zenon DEF Inv
<1>2. cmd[c].pc \in Emptying /\ UNCHANGED <<proc, scopes, sock>>
  BY DEF Unfreeze, Detach, Remove, Emptying
<1>3. MembersOf(proc) = {} /\ Live(c)
  BY <1>1, <1>2 DEF Local, Emptying, Live
<1>4. World'
  <2>1. CASE Unfreeze(c)
    BY <1>1, <1>2, <2>1 DEF World, Unfreeze
  <2>2. CASE Detach(c)
    BY <1>1, <1>2, <2>2 DEF World, Detach
  <2>3. CASE Remove(c)
    <3>1. NoRecord \in [there : BOOLEAN, origin : Origins, pinned : Seq(Pin)]
      BY DEF NoRecord, NoOrigin, Origins
    <3>2. cg' = [cg EXCEPT !.there = cg.there /\ Members # {}] /\ record' = NoRecord /\ frozen' = frozen
      BY <2>3 DEF Remove
    <3>3. cg' \in [there : BOOLEAN, freeze : BOOLEAN, gate : BOOLEAN]
      BY <1>1, <3>2 DEF World
    <3> QED
      BY <1>1, <1>2, <3>1, <3>2, <3>3 DEF World
  <2> QED
    BY <2>1, <2>2, <2>3
<1>5. PICK pc \in {"detach", "remove", "close"} : Goes(c, pc)
  BY DEF Unfreeze, Detach, Remove
<1>6. PICK s : Turns(c, s) /\ s.pc = pc
  BY <1>1, <1>5, GoesTurns DEF PC
<1>7. Local(c, s, proc, cg) /\ s.pc \notin Steered
  BY <1>3, <1>5, <1>6 DEF Local, SetUp, Steered, Unrounded, Emptying
<1> QED
  BY <1>2, <1>3, <1>4, <1>6, <1>7, UndoneStep

LEMMA EndStep ==
  ASSUME Inv, NEW c \in Command, Close(c) \/ Killed(c)
  PROVE  Inv'
<1>1. TypeOK /\ UNCHANGED <<proc, frozen, scopes, sock, cg, record>> /\ Live(c)
  BY DEF Inv, Close, Killed, Live
<1>2. PICK pc \in {"done", "killed"} : Ends(c, pc)
  BY DEF Close, Killed
<1>3. PICK s : Turns(c, s) /\ s.pc = pc
  BY <1>1, <1>2, EndsTurns DEF PC
<1>4. Local(c, s, proc, cg)
  BY <1>2, <1>3 DEF Local, SetUp, Steered, Unrounded, Emptying
<1>5. World'
  BY <1>1, WorldStays
<1> QED
  BY <1>1, <1>3, <1>4, <1>5, QuietStep

-----------------------------------------------------------------------------
LEMMA InitInv ==
  Init => Inv
<1> SUFFICES ASSUME Init PROVE Inv
  OBVIOUS
<1>1. NewCommand \in CommandState /\ NewCommand.pc = "idle" /\ NewCommand.round = 0
  BY ContainAssumption DEF NewCommand, CommandState, NoOrigin, Origins, PC
<1>2. NoRecord \in [there : BOOLEAN, origin : Origins, pinned : Seq(Pin)]
  BY DEF NoRecord, NoOrigin, Origins
<1>3. proc \in [Proc -> Process]
  <2>1. Absent("unborn") \in Process
    BY DEF Absent, Process, Place
  <2>2. Found \subseteq Process
    BY DEF Found, Process, Place
  <2> QED
    BY <2>1, <2>2 DEF Init
<1>4. sock \in [Sock -> Socket]
  <2>1. ASSUME NEW P \in SUBSET Proc, NEW d \in Device \cup {None}
        PROVE  Held(P, d) \in Socket
    BY DEF Held, Unmade, Socket, Binding
  <2>2. Unmade \in Socket
    BY DEF Unmade, Socket, Binding
  <2>3. Holders \subseteq SUBSET Proc
    BY DEF Holders
  <2> QED
    BY <2>1, <2>2, <2>3 DEF Init
<1>5. World /\ cmd = [c \in Command |-> NewCommand] /\ MembersOf(proc) = {}
  <2>1. ASSUME NEW p \in Proc PROVE proc[p].life # "alive" \/ proc[p].at # Inside
    <3>1. proc[p] \in {Absent("unborn")} \cup Found
      BY DEF Init
    <3>2. Absent("unborn").life = "unborn"
      BY DEF Absent
    <3>3. ASSUME NEW x \in Found PROVE x.at # Inside
      BY ContainAssumption DEF Found
    <3> QED
      BY <3>1, <3>2, <3>3
  <2>2. MembersOf(proc) = {}
    BY <2>1 DEF MembersOf
  <2>3. frozen = {} /\ scopes = Scope /\ cg = [there |-> FALSE, freeze |-> FALSE, gate |-> FALSE]
        /\ record = NoRecord /\ cmd = [c \in Command |-> NewCommand]
    BY Zenon DEF Init
  <2>4. World
    BY <1>2, <1>3, <1>4, <2>3 DEF World
  <2> QED
    BY <2>2, <2>3, <2>4
<1>6. TypeOK
  BY <1>1, <1>5, Typed
<1>7. SteeredInside
  BY <1>5, MembersAre DEF SteeredInside
<1>8. \A c \in Command : Local(c, cmd[c], proc, cg)
  BY <1>1, <1>5 DEF Local, SetUp, Steered, Unrounded, Emptying
<1>9. Alone
  BY <1>1, <1>5 DEF Alone, Live, Command
<1> QED
  BY <1>6, <1>7, <1>8, <1>9 DEF Inv

LEMMA NextInv ==
  ASSUME Inv, ~Careless, [Next]_vars
  PROVE  Inv'
<1>1. CASE Processes
  BY <1>1, ForkStep, ExitStep, OtherProcessSteps DEF Processes
<1>2. ASSUME NEW c \in Command, Step(c) PROVE Inv'
  <2>1. CASE \E p \in Proc : Move(c, p) \/ MoveOut(c, p)
    BY <2>1, MoveStep, MoveOutStep
  <2>2. CASE \E w \in cmd[c].work : Act(c, w)
    BY <2>2, ActStep
  <2>3. CASE PreflightFails(c) \/ MakeCgroup(c) \/ Attach(c) \/ Scan(c) \/ EndPass(c)
    BY <2>3, PreflightFailsStep, MakeCgroupStep, AttachStep, ScanStep, EndPassStep
  <2>4. CASE Frozen(c) \/ NotFrozen(c) \/ CheckMembers(c) \/ Reach(c)
    BY <2>4, FrozenStep, ReadStep
  <2>5. CASE ActFails(c) \/ WriteRecord(c) \/ Thaw(c) \/ Emptied(c)
    BY <2>5, LaterStep, ThawStep
  <2>6. CASE Undo(c) \/ Restore(c) \/ Round(c) \/ EndRound(c)
    BY <2>6, UndoStep, RestoreStep, RoundStep, EndRoundStep
  <2>7. CASE Unfreeze(c) \/ Detach(c) \/ Remove(c) \/ Close(c)
    BY <2>7, EmptiedSteps, EndStep
  <2> QED
    BY <1>2, <2>1, <2>2, <2>3, <2>4, <2>5, <2>6, <2>7, Zenon DEF Step
<1>3. ASSUME NEW c \in Command, Signal(c) \/ Killed(c) PROVE Inv'
  BY <1>3, LaterStep, EndStep
<1>4. ASSUME NEW c \in Command, NEW p \in Proc, StartContain(c, p) \/ StartRelease(c, p) PROVE Inv'
  BY <1>4, StartContainStep, StartReleaseStep
<1>5. CASE UNCHANGED vars
  <2>1. UNCHANGED <<proc, frozen, scopes, sock, cg, record, cmd>>
    BY <1>5, Zenon DEF vars
  <2>2. World' /\ Leaves(proc, proc')
    BY <2>1, WorldStays DEF Leaves
  <2> QED
    BY <2>1, <2>2, ProcessStep
<1> QED
  BY <1>1, <1>2, <1>3, <1>4, <1>5, Zenon DEF Next

\* Every state of a host on which --release waits for a command to be dead is
\* well typed: every process and socket, the cgroup, the record, each command.
THEOREM ContainTyped ==
  ASSUME ~Careless
  PROVE  Spec => []TypeOK
<1>1. Init => Inv
  BY InitInv
<1>2. Inv /\ [Next]_vars => Inv'
  BY NextInv
<1>3. Inv => TypeOK
  BY DEF Inv
<1> QED
  BY <1>1, <1>2, <1>3, PTL DEF Spec

\* Contain's promise of no window (contain_linux.go:170-174): whatever is
\* forked, exits or is killed, the programs are there before the first process
\* enters the cgroup and go after the last has left it.
THEOREM NeverAWindow ==
  ASSUME ~Careless
  PROVE  Spec => []SteeredInside
<1>1. Init => Inv
  BY InitInv
<1>2. Inv /\ [Next]_vars => Inv'
  BY NextInv
<1>3. Inv => SteeredInside
  BY DEF Inv
<1> QED
  BY <1>1, <1>2, <1>3, PTL DEF Spec

=============================================================================
