----------------------- MODULE Containment_held_proofs -----------------------
(***************************************************************************)
(* What a containment holds: the whole tree of its process, and every way  *)
(* out of it, for any tree, any sockets and any number of commands.        *)
(***************************************************************************)
EXTENDS Containment_proofs

Settled == {"check", "reach", "act", "thaw", "hold"}

-----------------------------------------------------------------------------
(* The steps of a command, field by field.                                 *)

LEMMA OthersStay ==
  ASSUME TypeOK, NEW c \in Command, Step(c) \/ Signal(c) \/ Killed(c)
  PROVE  \A o \in Command \ {c} : cmd'[o] = cmd[o]
<1>1. cmd \in [Command -> CommandState]
  BY Typed
<1>2. CASE Signal(c) \/ Killed(c)
  BY <1>1, <1>2 DEF Signal, Killed, Goes, Ends
<1>3. CASE Step(c)
  <2>1. CASE PreflightFails(c) \/ MakeCgroup(c) \/ Attach(c) \/ Scan(c)
    BY <1>1, <2>1 DEF PreflightFails, MakeCgroup, Attach, Scan, Goes, Fails
  <2>2. ASSUME NEW p \in Proc, Move(c, p) \/ MoveOut(c, p)
        PROVE  \A o \in Command \ {c} : cmd'[o] = cmd[o]
    BY <1>1, <2>2 DEF Move, MoveOut, Fails
  <2>3. CASE EndPass(c) \/ Frozen(c) \/ NotFrozen(c) \/ CheckMembers(c) \/ Reach(c)
    <3>1. CASE EndPass(c)
      BY <1>1, <3>1 DEF EndPass, Fails
    <3>2. CASE Frozen(c) \/ NotFrozen(c)
      BY <1>1, <3>2 DEF Frozen, NotFrozen, Goes, Fails
    <3>3. CASE CheckMembers(c)
      BY <1>1, <3>3 DEF CheckMembers, Fails
    <3>4. CASE Reach(c)
      BY <1>1, <3>4 DEF Reach, Fails
    <3> QED  BY <2>3, <3>1, <3>2, <3>3, <3>4
  <2>4. ASSUME NEW w \in cmd[c].work, Act(c, w)
        PROVE  \A o \in Command \ {c} : cmd'[o] = cmd[o]
    BY <1>1, <2>4 DEF Act
  <2>5. CASE ActFails(c) \/ WriteRecord(c) \/ Thaw(c) \/ Emptied(c)
    BY <1>1, <2>5 DEF ActFails, WriteRecord, Thaw, Emptied, Goes, Fails
  <2>6. CASE Undo(c) \/ Restore(c) \/ Round(c) \/ EndRound(c) \/ Unfreeze(c)
    BY <1>1, <2>6 DEF Undo, Restore, Round, EndRound, Unfreeze, Goes
  <2>7. CASE Detach(c) \/ Remove(c) \/ Close(c)
    BY <1>1, <2>7 DEF Detach, Remove, Close, Goes, Ends
  <2> QED  BY <1>3, <2>1, <2>2, <2>3, <2>4, <2>5, <2>6, <2>7 DEF Step
<1> QED  BY <1>2, <1>3

\* What a command that takes no process and reads no tree does to itself.
LEMMA GoesFields ==
  ASSUME TypeOK, NEW c \in Command, NEW pc, Goes(c, pc)
  PROVE  cmd'[c].pc = pc /\ cmd'[c].pid = cmd[c].pid /\ cmd'[c].work = cmd[c].work
         /\ cmd'[c].want = cmd[c].want /\ cmd'[c].moved = cmd[c].moved
<1>1. cmd \in [Command -> CommandState] /\ cmd[c] \in CommandState
  BY Typed
<1> QED  BY <1>1 DEF Goes, CommandState

LEMMA FailsFields ==
  ASSUME TypeOK, NEW c \in Command, Fails(c)
  PROVE  cmd'[c].pc = "undo"
<1>1. cmd \in [Command -> CommandState] /\ cmd[c] \in CommandState
  BY Typed
<1> QED  BY <1>1 DEF Fails, CommandState

LEMMA EndsFields ==
  ASSUME TypeOK, NEW c \in Command, NEW pc, Ends(c, pc)
  PROVE  cmd'[c].pc = pc
<1>1. cmd \in [Command -> CommandState]
  BY Typed
<1> QED  BY <1>1 DEF Ends, NewCommand

-----------------------------------------------------------------------------
(* The tree: a process and its descendants, among the processes ps.        *)

Lives(ps, p) == ps[p].life = "alive"

KinOf(ps, t) ==
  {t} \cup {p \in Proc \ {t} : \A S \in SUBSET Proc :
              t \in S /\ (\A q \in Proc : ps[q].parent \in S => q \in S) => p \in S}

\* A parent is alive: the children of one that exits are another's.
ParentsOf(ps) ==
  \A p \in Proc : /\ ps[p].parent # 0 => Lives(ps, ps[p].parent)
                  /\ ~Lives(ps, p) => ps[p].parent = 0

\* A pass that has moved nobody so far: whom it has passed by is inside, with
\* every child it may have had since.
Passed(s, ps) ==
  /\ s.pid \notin s.want /\ Lives(ps, s.pid) => s.pid \in MembersOf(ps)
  /\ \A p \in KinOf(ps, s.pid) \ (s.want \cup {s.pid}) :
       ps[p].parent \in MembersOf(ps) => p \in MembersOf(ps)

Whole(s, ps) == \A p \in KinOf(ps, s.pid) : Lives(ps, p) => p \in MembersOf(ps)

Grasp(s, ps) ==
  /\ s.pc \in SetUp => s.pid \in Proc /\ ps[s.pid].life # "unborn"
  /\ s.pc = "move" /\ ~s.moved => Passed(s, ps)
  /\ s.pc \in Settled => Whole(s, ps)

TreeHeld == ParentsOf(proc) /\ \A c \in Contain : Grasp(cmd[c], proc)

LEMMA KinLeast ==
  ASSUME NEW ps, NEW t, NEW S \in SUBSET Proc, t \in S,
         \A q \in Proc : ps[q].parent \in S => q \in S
  PROVE  KinOf(ps, t) \subseteq S
BY DEF KinOf

LEMMA KinClosed ==
  ASSUME NEW ps, NEW t \in Proc
  PROVE  /\ t \in KinOf(ps, t) /\ KinOf(ps, t) \subseteq Proc
         /\ \A q \in Proc : ps[q].parent \in KinOf(ps, t) => q \in KinOf(ps, t)
<1>1. ASSUME NEW q \in Proc, ps[q].parent \in KinOf(ps, t), q # t,
             NEW S \in SUBSET Proc, t \in S, \A x \in Proc : ps[x].parent \in S => x \in S
      PROVE  q \in S
  <2>1. ps[q].parent \in S
    BY <1>1, KinLeast
  <2> QED  BY <1>1, <2>1
<1> QED  BY <1>1, Zenon DEF KinOf

LEMMA KinIs ==
  ASSUME NEW t
  PROVE  Descendants(t) \subseteq KinOf(proc, t)
BY DEF Descendants, KinOf

\* What a process that is born or exits does to a tree.
LEMMA ForkGrasp ==
  ASSUME TypeOK, ParentsOf(proc), NEW p \in Proc, NEW q \in Proc, Fork(p, q)
  PROVE  /\ ParentsOf(proc')
         /\ \A s \in CommandState : Grasp(s, proc) => Grasp(s, proc')
<1>0. proc \in [Proc -> Process]
  BY Typed DEF World
<1>1. PICK child : child = [life |-> "alive", parent |-> p, at |-> proc[p].at, home |-> None]
  OBVIOUS
<1>2. child.life = "alive" /\ child.parent = p /\ child.at = proc[p].at
  BY <1>1
<1>3. /\ Lives(proc, p) /\ proc[q].life = "unborn" /\ p # q
      /\ proc'[q] = child /\ \A x \in Proc \ {q} : proc'[x] = proc[x]
  BY <1>0, <1>1 DEF Fork, Alive, Lives
<1>4. ~Lives(proc, q) /\ proc[q].parent = 0 /\ 0 \notin Proc
  BY <1>3, ContainAssumption DEF Lives, ParentsOf
<1>5. \A x \in Proc : proc[x].parent # q
  BY <1>4, ContainAssumption DEF ParentsOf
<1>6. \A x \in Proc : (x \in MembersOf(proc') <=> IF x = q THEN p \in MembersOf(proc) ELSE x \in MembersOf(proc))
  BY <1>2, <1>3 DEF MembersOf, Lives
<1>7. \A x \in Proc \ {q} : Lives(proc', x) <=> Lives(proc, x)
  BY <1>3 DEF Lives
<1>8. ParentsOf(proc')
  <2> SUFFICES ASSUME NEW x \in Proc
               PROVE  /\ proc'[x].parent # 0 => Lives(proc', proc'[x].parent)
                      /\ ~Lives(proc', x) => proc'[x].parent = 0
    BY DEF ParentsOf
  <2>1. CASE x = q
    BY <1>2, <1>3, <1>7, <2>1 DEF Lives
  <2>2. CASE x # q
    <3>1. proc'[x].parent = proc[x].parent /\ proc[x].parent \in Proc \cup {0}
      BY <1>0, <1>3, <2>2 DEF Process
    <3> QED  BY <1>3, <1>5, <1>7, <2>2, <3>1 DEF ParentsOf, Lives
  <2> QED  BY <2>1, <2>2
<1>9. ASSUME NEW s \in CommandState, Grasp(s, proc)
      PROVE  Grasp(s, proc')
  <2>1. CASE s.pc \notin SetUp
    BY <2>1 DEF Grasp, SetUp, Settled
  <2>2. CASE s.pc \in SetUp
    <3> DEFINE t == s.pid
               K == KinOf(proc, t)
               S == (K \ {q}) \cup (IF p \in K THEN {q} ELSE {})
    <3>1. t \in Proc /\ t # q /\ proc'[t].life # "unborn"
      BY <1>3, <1>9, <2>2 DEF Grasp
    <3>2. K \subseteq Proc /\ t \in K /\ \A x \in Proc : proc[x].parent \in K => x \in K
      BY <3>1, KinClosed
    <3> HIDE DEF K
    <3>3. KinOf(proc', t) \subseteq S
      <4>1. S \in SUBSET Proc /\ t \in S
        BY <3>1, <3>2
      <4>2. ASSUME NEW x \in Proc, proc'[x].parent \in S  PROVE x \in S
        <5>1. CASE x = q
          BY <1>2, <1>3, <4>2, <5>1
        <5>2. CASE x # q
          BY <1>3, <1>5, <3>2, <4>2, <5>2
        <5> QED  BY <5>1, <5>2
      <4>3. \A x \in Proc : proc'[x].parent \in S => x \in S
        BY <4>2
      <4> HIDE DEF S
      <4> QED  BY <4>1, <4>3, KinLeast
    <3>4. s.pc = "move" /\ ~s.moved => Passed(s, proc')
      <4> SUFFICES ASSUME s.pc = "move", ~s.moved  PROVE Passed(s, proc')
        OBVIOUS
      <4>1. Passed(s, proc)
        BY <1>9 DEF Grasp
      <4>2. s.pid \notin s.want /\ Lives(proc', s.pid) => s.pid \in MembersOf(proc')
        BY <1>6, <1>7, <3>1, <4>1 DEF Passed
      <4>3. ASSUME NEW x \in KinOf(proc', t) \ (s.want \cup {t}), proc'[x].parent \in MembersOf(proc')
            PROVE  x \in MembersOf(proc')
        <5>1. x \in Proc
          BY <3>2, <3>3, <4>3
        <5>2. CASE x = q
          BY <1>2, <1>3, <1>6, <4>3, <5>2
        <5>3. CASE x # q
          <6>1. x \in K /\ proc'[x].parent = proc[x].parent /\ proc[x].parent # q
            BY <1>3, <1>5, <3>3, <4>3, <5>1, <5>3
          <6>2. proc[x].parent \in MembersOf(proc)
            <7>1. proc[x].parent \in Proc
              BY <4>3, <6>1 DEF MembersOf
            <7> QED  BY <1>6, <4>3, <6>1, <7>1
          <6> QED  BY <1>6, <4>1, <4>3, <5>1, <5>3, <6>1, <6>2 DEF Passed, K
        <5> QED  BY <5>2, <5>3
      <4> QED  BY <4>2, <4>3 DEF Passed
    <3>5. s.pc \in Settled => Whole(s, proc')
      <4> SUFFICES ASSUME s.pc \in Settled, NEW x \in KinOf(proc', t), Lives(proc', x)
                   PROVE  x \in MembersOf(proc')
        BY DEF Whole
      <4>1. \A y \in K : Lives(proc, y) => y \in MembersOf(proc)
        BY <1>9 DEF Grasp, Whole, K
      <4>2. CASE x = q
        BY <1>3, <1>6, <3>3, <4>1, <4>2
      <4>3. CASE x # q
        BY <1>6, <1>7, <3>2, <3>3, <4>1, <4>3
      <4> QED  BY <4>2, <4>3
    <3> QED  BY <2>2, <3>1, <3>4, <3>5 DEF Grasp
  <2> QED  BY <2>1, <2>2
<1> QED  BY <1>8, <1>9

LEMMA ExitGrasp ==
  ASSUME TypeOK, ParentsOf(proc), NEW p \in Proc, Exit(p)
  PROVE  /\ ParentsOf(proc')
         /\ \A s \in CommandState : Grasp(s, proc) => Grasp(s, proc')
<1>0. proc \in [Proc -> Process]
  BY Typed DEF World
<1>1. /\ proc'[p].life = "dead" /\ proc'[p].parent = 0
      /\ \A x \in Proc \ {p} : /\ proc'[x].life = proc[x].life /\ proc'[x].at = proc[x].at
                               /\ proc'[x].parent = IF proc[x].parent = p THEN 0 ELSE proc[x].parent
  <2>1. proc' = [q \in Proc |-> IF q = p THEN Absent("dead")
                                ELSE IF proc[q].parent = p THEN [proc[q] EXCEPT !.parent = 0]
                                ELSE proc[q]]
    BY DEF Exit
  <2> QED  BY <1>0, <2>1 DEF Absent, Process
<1>2. 0 \notin Proc
  BY ContainAssumption
<1>3. MembersOf(proc') = MembersOf(proc) \ {p}
  BY <1>1 DEF MembersOf
<1>4. \A x \in Proc \ {p} : Lives(proc', x) <=> Lives(proc, x)
  BY <1>1 DEF Lives
<1>5. ~Lives(proc', p)
  BY <1>1 DEF Lives
<1>6. ParentsOf(proc')
  <2> SUFFICES ASSUME NEW x \in Proc
               PROVE  /\ proc'[x].parent # 0 => Lives(proc', proc'[x].parent)
                      /\ ~Lives(proc', x) => proc'[x].parent = 0
    BY DEF ParentsOf
  <2>1. proc[x].parent \in Proc \cup {0}
    BY <1>0 DEF Process
  <2>2. CASE x = p
    BY <1>1, <2>2
  <2>3. CASE x # p
    BY <1>1, <1>4, <2>1, <2>3 DEF ParentsOf
  <2> QED  BY <2>2, <2>3
<1>7. ASSUME NEW s \in CommandState, Grasp(s, proc)
      PROVE  Grasp(s, proc')
  <2>1. CASE s.pc \notin SetUp
    BY <2>1 DEF Grasp, SetUp, Settled
  <2>2. CASE s.pc \in SetUp
    <3> DEFINE t == s.pid
               K == KinOf(proc, t)
    <3>1. t \in Proc /\ proc'[t].life # "unborn"
      BY <1>1, <1>7, <2>2 DEF Grasp
    <3>2. K \subseteq Proc /\ t \in K /\ \A x \in Proc : proc[x].parent \in K => x \in K
      BY <3>1, KinClosed
    <3> HIDE DEF K
    <3>3. KinOf(proc', t) \subseteq K
      <4>1. ASSUME NEW x \in Proc, proc'[x].parent \in K  PROVE x \in K
        BY <1>1, <1>2, <3>2, <4>1
      <4> QED  BY <3>2, <4>1, KinLeast
    <3>4. s.pc = "move" /\ ~s.moved => Passed(s, proc')
      <4> SUFFICES ASSUME s.pc = "move", ~s.moved  PROVE Passed(s, proc')
        OBVIOUS
      <4>1. Passed(s, proc)
        BY <1>7 DEF Grasp
      <4>2. s.pid \notin s.want /\ Lives(proc', s.pid) => s.pid \in MembersOf(proc')
        BY <1>3, <1>4, <1>5, <3>1, <4>1 DEF Passed
      <4>3. ASSUME NEW x \in KinOf(proc', t) \ (s.want \cup {t}), proc'[x].parent \in MembersOf(proc')
            PROVE  x \in MembersOf(proc')
        <5>1. x \in K /\ x \in Proc /\ proc'[x].parent \in Proc /\ proc'[x].parent \in MembersOf(proc)
          BY <1>3, <3>2, <3>3, <4>3 DEF MembersOf
        <5>2. x # p /\ proc[x].parent = proc'[x].parent
          BY <1>1, <1>2, <5>1
        <5> QED  BY <1>3, <4>1, <4>3, <5>1, <5>2 DEF Passed, K
      <4> QED  BY <4>2, <4>3 DEF Passed
    <3>5. s.pc \in Settled => Whole(s, proc')
      <4> SUFFICES ASSUME s.pc \in Settled, NEW x \in KinOf(proc', t), Lives(proc', x)
                   PROVE  x \in MembersOf(proc')
        BY DEF Whole
      <4>1. \A y \in K : Lives(proc, y) => y \in MembersOf(proc)
        BY <1>7 DEF Grasp, Whole, K
      <4> QED  BY <1>3, <1>4, <1>5, <3>2, <3>3, <4>1
    <3> QED  BY <2>2, <3>1, <3>4, <3>5 DEF Grasp
  <2> QED  BY <2>1, <2>2
<1> QED  BY <1>6, <1>7

\* A pass moves on: whom it finds inside, or gone, it has passed by; after one that
\* it moves it goes round again.
LEMMA MoveGrasp ==
  ASSUME Inv, TreeHeld, NEW c \in Command, NEW p \in Proc, Move(c, p)
  PROVE  TreeHeld'
<1>0. /\ TypeOK /\ proc \in [Proc -> Process] /\ cmd \in [Command -> CommandState]
      /\ cmd[c] \in CommandState /\ cmd[c].pc = "move" /\ p \in cmd[c].want
  BY Typed DEF Inv, World, Move, NextToMove
<1>1. c \in Contain /\ Grasp(cmd[c], proc) /\ ParentsOf(proc)
  BY <1>0 DEF Inv, Local, SetUp, TreeHeld
<1>2. ASSUME NEW o \in Contain \ {c}
      PROVE  cmd'[o] = cmd[o] /\ cmd[o].pc \notin SetUp
  <2>1. ~Live(o)
    BY <1>0, <1>1 DEF Inv, Alone, Live, Command
  <2>2. cmd'[o] = cmd[o]
    BY <1>0, OthersStay DEF Command, Step
  <2> QED  BY <2>1, <2>2 DEF Live, SetUp
<1>3. CASE Fails(c)
  <2>1. cmd'[c].pc = "undo"
    BY <1>0, <1>3, FailsFields
  <2>2. proc' = proc
    <3>1. \/ UNCHANGED proc
          \/ Alive(p) /\ cmd' = [cmd EXCEPT ![c].want = @ \ {p}, ![c].moved = TRUE,
                                           ![c].origin[p] = IF @ = None THEN proc[p].at ELSE @]
      BY DEF Move
    <3>2. CASE cmd' = [cmd EXCEPT ![c].want = @ \ {p}, ![c].moved = TRUE,
                                  ![c].origin[p] = IF @ = None THEN proc[p].at ELSE @]
      <4>1. cmd'[c].pc = "move"
        BY <1>0, <3>2 DEF CommandState
      <4> QED  BY <2>1, <4>1
    <3> QED  BY <3>1, <3>2
  <2> QED  BY <1>1, <1>2, <2>1, <2>2 DEF TreeHeld, Grasp, SetUp, Settled
<1>4. CASE /\ Alive(p)
           /\ cmd' = [cmd EXCEPT ![c].want = @ \ {p}, ![c].moved = TRUE,
                                 ![c].origin[p] = IF @ = None THEN proc[p].at ELSE @]
           /\ proc' = [proc EXCEPT ![p].at = Inside, ![p].home = proc[p].at]
  <2>1. cmd'[c].pc = "move" /\ cmd'[c].moved /\ cmd'[c].pid = cmd[c].pid
    BY <1>0, <1>4 DEF CommandState
  <2>2. \A x \in Proc : proc'[x].life = proc[x].life /\ proc'[x].parent = proc[x].parent
    BY <1>0, <1>4 DEF Process
  <2>3. ParentsOf(proc')
    <3>1. \A x \in Proc : proc[x].parent # 0 => proc[x].parent \in Proc
      BY <1>0 DEF Process
    <3> QED  BY <1>1, <2>2, <3>1 DEF ParentsOf, Lives
  <2>4. Grasp(cmd'[c], proc')
    BY <1>0, <1>1, <2>1, <2>2 DEF Grasp, SetUp, Settled
  <2> QED  BY <1>2, <2>3, <2>4 DEF TreeHeld, Grasp, SetUp, Settled
<1>5. CASE /\ UNCHANGED proc
           /\ p \in Members \/ (~Alive(p) /\ p # cmd[c].pid)
           /\ \/ cmd' = [cmd EXCEPT ![c].want = @ \ {p}]
              \/ cmd' = [cmd EXCEPT ![c].want = @ \ {p}, ![c].origin[p] = None]
  <2>1. /\ cmd'[c].pc = "move" /\ cmd'[c].moved = cmd[c].moved /\ cmd'[c].pid = cmd[c].pid
        /\ cmd'[c].want = cmd[c].want \ {p}
    BY <1>0, <1>5 DEF CommandState
  <2>2. p \in MembersOf(proc) \/ (~Lives(proc, p) /\ p # cmd[c].pid)
    BY <1>5 DEF Members, MembersOf, Alive, Lives
  <2>3. ~Lives(proc, p) => proc[p].parent \notin MembersOf(proc)
    BY <1>1, ContainAssumption DEF ParentsOf, MembersOf
  <2>4. ~cmd[c].moved => Passed(cmd'[c], proc)
    <3> SUFFICES ASSUME ~cmd[c].moved  PROVE Passed(cmd'[c], proc)
      OBVIOUS
    <3>1. Passed(cmd[c], proc)
      BY <1>0, <1>1 DEF Grasp
    <3> QED  BY <2>1, <2>2, <2>3, <3>1 DEF Passed
  <2>5. Grasp(cmd'[c], proc')
    BY <1>0, <1>1, <1>5, <2>1, <2>4 DEF Grasp, SetUp, Settled
  <2> QED  BY <1>1, <1>2, <1>5, <2>5 DEF TreeHeld
<1> QED  BY <1>3, <1>4, <1>5 DEF Move

\* A pass that moved nobody has seen the whole tree inside.
LEMMA EndPassGrasp ==
  ASSUME Inv, TreeHeld, NEW c \in Command, EndPass(c)
  PROVE  TreeHeld'
<1>0. /\ TypeOK /\ proc \in [Proc -> Process] /\ cmd \in [Command -> CommandState]
      /\ cmd[c] \in CommandState /\ cmd[c].pc = "move" /\ cmd[c].want = {} /\ UNCHANGED proc
  BY Typed DEF Inv, World, EndPass
<1>1. c \in Contain /\ Grasp(cmd[c], proc) /\ ParentsOf(proc) /\ cmd[c].pid \in Proc
  BY <1>0 DEF Inv, Local, SetUp, TreeHeld
<1>2. \A o \in Contain \ {c} : cmd'[o] = cmd[o]
  BY <1>0, OthersStay DEF Command, Step
<1>3. /\ cmd'[c].pc \in {"check", "frozen", "scan", "undo"}
      /\ cmd'[c].pc # "undo" => cmd'[c].pid = cmd[c].pid
      /\ cmd'[c].pc = "check" => ~cmd[c].moved
  <2>1. CASE ~cmd[c].moved
    <3>1. cmd' = [cmd EXCEPT ![c].pc = IF cmd[c].second THEN "check" ELSE "frozen",
                             ![c].second = TRUE, ![c].round = 0]
      BY <2>1 DEF EndPass, AnotherPass
    <3> QED  BY <1>0, <2>1, <3>1 DEF CommandState
  <2>2. CASE cmd[c].moved /\ cmd' = [cmd EXCEPT ![c].pc = "scan", ![c].round = @ + 1]
    BY <1>0, <2>2 DEF CommandState
  <2>3. CASE Fails(c)
    BY <1>0, <2>3, FailsFields
  <2> QED  BY <2>1, <2>2, <2>3 DEF EndPass, AnotherPass
<1>4. ~cmd[c].moved => Whole(cmd[c], proc)
  <2> SUFFICES ASSUME ~cmd[c].moved  PROVE Whole(cmd[c], proc)
    OBVIOUS
  <2> DEFINE t == cmd[c].pid
             K == KinOf(proc, t)
             S == {x \in K : Lives(proc, x) => x \in MembersOf(proc)}
  <2>1. Passed(cmd[c], proc)
    BY <1>0, <1>1 DEF Grasp
  <2>2. K \subseteq Proc /\ t \in K /\ \A x \in Proc : proc[x].parent \in K => x \in K
    BY <1>1, KinClosed
  <2>3. S \in SUBSET Proc /\ t \in S
    BY <1>0, <2>1, <2>2 DEF Passed
  <2>4. \A x \in Proc : proc[x].parent \in S => x \in S
    <3> TAKE x \in Proc
    <3> HAVE proc[x].parent \in S
    <3>1. x \in K /\ proc[x].parent \in Proc
      BY <2>2
    <3>2. proc[x].parent \in MembersOf(proc)
      BY <1>1, <3>1, ContainAssumption DEF ParentsOf
    <3>3. x = t \/ x \in MembersOf(proc)
      BY <1>0, <2>1, <3>1, <3>2 DEF Passed
    <3> QED  BY <2>3, <3>1, <3>3
  <2> HIDE DEF S
  <2>5. K \subseteq S
    BY <2>3, <2>4, KinLeast
  <2> QED  BY <2>5 DEF Whole, S
<1>5. Grasp(cmd'[c], proc)
  BY <1>0, <1>1, <1>3, <1>4 DEF Grasp, Whole, SetUp, Settled
<1> QED  BY <1>0, <1>1, <1>2, <1>5 DEF TreeHeld

\* What a command goes from and to, but for the moves and the passes.
Plain(c) ==
  \/ PreflightFails(c) \/ MakeCgroup(c) \/ Attach(c) \/ Scan(c) \/ Frozen(c) \/ NotFrozen(c)
  \/ CheckMembers(c) \/ Reach(c) \/ (\E w \in cmd[c].work : Act(c, w)) \/ ActFails(c)
  \/ WriteRecord(c) \/ Thaw(c) \/ Emptied(c) \/ Undo(c) \/ Restore(c) \/ Round(c)
  \/ EndRound(c) \/ Unfreeze(c) \/ Detach(c) \/ Remove(c) \/ Close(c) \/ Signal(c) \/ Killed(c)

LEMMA PlainStep ==
  ASSUME TypeOK, NEW c \in Command, Plain(c)
  PROVE  /\ UNCHANGED proc
         /\ cmd'[c].pc \in SetUp => cmd[c].pc \in SetUp /\ cmd'[c].pid = cmd[c].pid
         /\ cmd'[c].pc \in Settled => cmd[c].pc \in Settled
         /\ cmd'[c].pc = "move" => cmd'[c].want = {cmd[c].pid} \cup Descendants(cmd[c].pid)
<1> USE DEF SetUp, Settled
<1>0. cmd \in [Command -> CommandState] /\ cmd[c] \in CommandState
  BY Typed
<1>1. CASE PreflightFails(c)
  BY <1>1, GoesFields DEF PreflightFails
<1>2. CASE MakeCgroup(c)
  BY <1>0, <1>2 DEF MakeCgroup, CommandState
<1>3. CASE Attach(c)
  BY <1>3, GoesFields, FailsFields DEF Attach
<1>4. CASE Scan(c)
  BY <1>0, <1>4 DEF Scan, CommandState
<1>5. CASE Frozen(c) \/ NotFrozen(c) \/ ActFails(c)
  BY <1>5, GoesFields, FailsFields DEF Frozen, NotFrozen, ActFails
<1>6. CASE CheckMembers(c)
  <2>1. CASE Fails(c)
    BY <1>6, <2>1, FailsFields DEF CheckMembers
  <2>2. CASE cmd' = [cmd EXCEPT ![c].pc = "reach", ![c].work = MembersSockets]
    BY <1>0, <1>6, <2>2 DEF CheckMembers, CommandState
  <2> QED  BY <1>6, <2>1, <2>2 DEF CheckMembers
<1>7. CASE Reach(c)
  <2>1. CASE Fails(c)
    BY <1>7, <2>1, FailsFields DEF Reach
  <2>2. CASE \E W : cmd' = [cmd EXCEPT ![c].pc = "act", ![c].work = W]
    BY <1>0, <1>7, <2>2 DEF Reach, CommandState
  <2> QED  BY <1>7, <2>1, <2>2, Zenon DEF Reach
<1>8. ASSUME NEW w \in cmd[c].work, Act(c, w)
      PROVE  UNCHANGED proc /\ cmd'[c].pc = cmd[c].pc /\ cmd'[c].pid = cmd[c].pid /\ cmd[c].pc = "act"
  BY <1>0, <1>8 DEF Act, CommandState
<1>9. CASE WriteRecord(c) \/ Emptied(c) \/ Undo(c) \/ EndRound(c) \/ Signal(c)
  BY <1>9, GoesFields DEF WriteRecord, Emptied, Undo, EndRound, Signal
<1>10. CASE Unfreeze(c) \/ Detach(c) \/ Remove(c)
  BY <1>10, GoesFields DEF Unfreeze, Detach, Remove
<1>11. CASE Thaw(c)
  <2>1. CASE Fails(c)
    BY <1>11, <2>1, FailsFields DEF Thaw
  <2>2. CASE cmd' = [cmd EXCEPT ![c].pc = "hold", ![c].held = TRUE]
    BY <1>0, <1>11, <2>2 DEF Thaw, CommandState
  <2> QED  BY <1>11, <2>1, <2>2 DEF Thaw
<1>12. CASE Restore(c)
  <2>1. CASE Goes(c, "out")
    BY <1>12, <2>1, GoesFields DEF Restore
  <2>2. CASE cmd' = [cmd EXCEPT ![c].pinned = Tail(@)]
    BY <1>0, <1>12, <2>2 DEF Restore, CommandState
  <2> QED  BY <1>12, <2>1, <2>2 DEF Restore
<1>13. CASE Round(c)
  BY <1>0, <1>13 DEF Round, CommandState
<1>14. CASE Close(c) \/ Killed(c)
  BY <1>14, EndsFields DEF Close, Killed
<1> QED
  BY <1>1, <1>2, <1>3, <1>4, <1>5, <1>6, <1>7, <1>8, <1>9, <1>10, <1>11, <1>12, <1>13, <1>14
     DEF Plain

LEMMA PlainGrasp ==
  ASSUME Inv, TreeHeld, NEW c \in Command, Plain(c)
  PROVE  TreeHeld'
<1>0. /\ TypeOK /\ ParentsOf(proc) /\ UNCHANGED proc
      /\ \A o \in Contain : Grasp(cmd[o], proc)
  BY PlainStep DEF Inv, TreeHeld
<1>1. \A o \in Command \ {c} : cmd'[o] = cmd[o]
  <2>1. Step(c) \/ Signal(c) \/ Killed(c)
    BY DEF Plain, Step
  <2> QED  BY <1>0, <2>1, OthersStay
<1>2. ASSUME c \in Contain
      PROVE  Grasp(cmd'[c], proc)
  <2>1. cmd'[c].pc \in SetUp => cmd[c].pc \in SetUp /\ cmd'[c].pid = cmd[c].pid
    BY <1>0, PlainStep
  <2>2. cmd'[c].pc \in Settled => cmd[c].pc \in Settled /\ cmd'[c].pid = cmd[c].pid
    BY <1>0, <2>1, PlainStep DEF Settled, SetUp
  <2>3. CASE cmd'[c].pc = "move"
    <3>1. cmd'[c].want = {cmd[c].pid} \cup Descendants(cmd[c].pid) /\ cmd'[c].pid = cmd[c].pid
      BY <1>0, <2>1, <2>3, PlainStep DEF SetUp
    <3>2. KinOf(proc, cmd[c].pid) = {cmd[c].pid} \cup Descendants(cmd[c].pid)
      BY DEF KinOf, Descendants
    <3>3. Passed(cmd'[c], proc)
      BY <3>1, <3>2 DEF Passed
    <3> QED  BY <1>0, <1>2, <2>1, <2>3, <3>3 DEF Grasp, Settled
  <2>4. CASE cmd'[c].pc # "move"
    BY <1>0, <1>2, <2>1, <2>2, <2>4 DEF Grasp, Whole
  <2> QED  BY <2>3, <2>4
<1> QED  BY <1>0, <1>1, <1>2 DEF TreeHeld, Command

\* Nobody is put back from under a containment that holds him.
LEMMA MoveOutGrasp ==
  ASSUME Inv, TreeHeld, NEW c \in Command, NEW p \in Proc, MoveOut(c, p)
  PROVE  TreeHeld'
<1>0. /\ TypeOK /\ proc \in [Proc -> Process] /\ cmd \in [Command -> CommandState]
      /\ cmd[c] \in CommandState /\ cmd[c].pc = "moveout" /\ ParentsOf(proc)
  BY Typed DEF Inv, World, MoveOut, TreeHeld
<1>1. \A o \in Contain \ {c} : cmd'[o] = cmd[o] /\ cmd[o].pc \notin SetUp
  <2>1. \A o \in Contain \ {c} : cmd'[o] = cmd[o]
    BY <1>0, OthersStay DEF Command, Step
  <2>2. \A o \in Contain \ {c} : ~Live(o)
    BY <1>0 DEF Inv, Alone, Live, Command
  <2> QED  BY <2>1, <2>2 DEF Live, SetUp
<1>2. cmd'[c].pc \notin SetUp
  BY <1>0 DEF MoveOut, CommandState, SetUp
<1>3. \A x \in Proc : proc'[x].life = proc[x].life /\ proc'[x].parent = proc[x].parent
  <2>1. CASE Alive(p)
    BY <1>0, <2>1 DEF MoveOut, Process
  <2>2. CASE ~Alive(p)
    BY <1>0, <2>2 DEF MoveOut
  <2> QED  BY <2>1, <2>2
<1>4. ParentsOf(proc')
  <2>1. \A x \in Proc : proc[x].parent # 0 => proc[x].parent \in Proc
    BY <1>0 DEF Process
  <2> QED  BY <1>0, <1>3, <2>1 DEF ParentsOf, Lives
<1> QED  BY <1>1, <1>2, <1>4 DEF TreeHeld, Grasp, SetUp, Settled

LEMMA BeginGrasp ==
  ASSUME Inv, TreeHeld, NEW c \in Command, NEW p \in Proc, StartContain(c, p) \/ StartRelease(c, p)
  PROVE  TreeHeld'
<1>0. /\ TypeOK /\ cmd \in [Command -> CommandState] /\ cmd[c] \in CommandState
      /\ \A o \in Contain : Grasp(cmd[o], proc)
  BY Typed DEF Inv, TreeHeld
<1>1. UNCHANGED proc /\ \A o \in Command \ {c} : cmd'[o] = cmd[o]
  BY <1>0 DEF StartContain, StartRelease
<1>2. CASE StartContain(c, p)
  <2>1. cmd'[c].pc = "make" /\ cmd'[c].pid = p /\ proc[p].life = "alive"
    BY <1>0, <1>2 DEF StartContain, CommandState, Alive
  <2>2. Grasp(cmd'[c], proc)
    BY <2>1 DEF Grasp, Settled
  <2> QED  BY <1>0, <1>1, <2>2 DEF TreeHeld, Command
<1>3. CASE StartRelease(c, p)
  <2>1. c \notin Contain
    BY <1>3, ContainAssumption DEF StartRelease
  <2> QED  BY <1>0, <1>1, <2>1 DEF TreeHeld, Command
<1> QED  BY <1>2, <1>3

LEMMA InitTree ==
  ASSUME Init
  PROVE  TreeHeld
<1>1. ParentsOf(proc)
  <2> SUFFICES ASSUME NEW p \in Proc
               PROVE  /\ proc[p].parent # 0 => Lives(proc, proc[p].parent)
                      /\ ~Lives(proc, p) => proc[p].parent = 0
    BY DEF ParentsOf
  <2>1. proc[p] \in {Absent("unborn")} \cup Found /\ proc[p].parent \in {0} \cup {q \in Proc : q < p /\ Alive(q)}
    BY DEF Init
  <2> QED  BY <2>1 DEF Absent, Found, Lives, Alive
<1>2. \A c \in Contain : cmd[c].pc = "idle"
  BY DEF Init, NewCommand, Command
<1> QED  BY <1>1, <1>2 DEF TreeHeld, Grasp, SetUp, Settled

LEMMA NextTree ==
  ASSUME Inv, TreeHeld, [Next]_vars
  PROVE  TreeHeld'
<1>0. /\ TypeOK /\ ParentsOf(proc) /\ cmd \in [Command -> CommandState]
      /\ \A c \in Contain : cmd[c] \in CommandState /\ Grasp(cmd[c], proc)
  BY Typed DEF Inv, TreeHeld, Command
<1>1. ASSUME NEW p \in Proc, NEW q \in Proc, Fork(p, q)
      PROVE  TreeHeld'
  <2>1. UNCHANGED cmd
    BY <1>1 DEF Fork
  <2> QED  BY <1>0, <1>1, <2>1, ForkGrasp DEF TreeHeld
<1>2. ASSUME NEW p \in Proc, Exit(p)
      PROVE  TreeHeld'
  <2>1. UNCHANGED cmd
    BY <1>2 DEF Exit
  <2> QED  BY <1>0, <1>2, <2>1, ExitGrasp DEF TreeHeld
<1>3. CASE UNCHANGED <<proc, cmd>>
  BY <1>3 DEF TreeHeld
<1>4. ASSUME Processes
      PROVE  TreeHeld'
  <2>1. CASE \E p \in Proc : Freezes(p)
    BY <1>3, <2>1 DEF Freezes
  <2>2. CASE \E p \in Proc, s \in Sock : Open(p, s) \/ CloseSocket(p, s)
    BY <1>3, <2>2 DEF Open, CloseSocket
  <2>3. CASE \E x \in Scope : ScopeGoes(x)
    BY <1>3, <2>3 DEF ScopeGoes
  <2> QED  BY <1>1, <1>2, <1>4, <2>1, <2>2, <2>3 DEF Processes
<1>5. ASSUME NEW c \in Command, Step(c) \/ Signal(c) \/ Killed(c)
      PROVE  TreeHeld'
  <2>1. \/ Plain(c)
        \/ \E p \in Proc : Move(c, p) \/ MoveOut(c, p)
        \/ EndPass(c)
    BY <1>5 DEF Step, Plain
  <2> QED  BY <2>1, PlainGrasp, MoveGrasp, MoveOutGrasp, EndPassGrasp
<1>6. ASSUME NEW c \in Command, NEW p \in Proc, StartContain(c, p) \/ StartRelease(c, p)
      PROVE  TreeHeld'
  BY <1>6, BeginGrasp
<1>7. CASE UNCHANGED vars
  BY <1>3, <1>7 DEF vars
<1> QED  BY <1>4, <1>5, <1>6, <1>7 DEF Next

LEMMA TreeIn ==
  ASSUME Inv, TreeHeld
  PROVE  TreeIsInside
<1> SUFFICES ASSUME NEW c \in Contain, cmd[c].pc \in Settled,
                    NEW p \in Descendants(cmd[c].pid), Alive(p)
             PROVE  p \in Members
  BY DEF TreeIsInside, Settled
<1>1. p \in KinOf(proc, cmd[c].pid)
  BY KinIs
<1>2. Whole(cmd[c], proc)
  BY DEF TreeHeld, Grasp
<1> QED  BY <1>1, <1>2, MembersAre DEF Whole, Alive, Lives

\* moveTree (internal/enforce/contain_linux.go): from the time its members are
\* checked, and for as long as it holds them, every descendant of the contained
\* process is inside, however many were forked, adopted or gone between two readings.
THEOREM TreeTaken ==
  ASSUME ~Careless
  PROVE  Spec => []TreeIsInside
<1>1. Init => Inv /\ TreeHeld
  BY InitInv, InitTree
<1>2. Inv /\ TreeHeld /\ [Next]_vars => (Inv /\ TreeHeld)'
  BY NextInv, NextTree
<1>3. Inv /\ TreeHeld => TreeIsInside
  BY TreeIn
<1> QED  BY <1>1, <1>2, <1>3, PTL DEF Spec

-----------------------------------------------------------------------------
(* The sockets: what a member may send through past the tunnel, and which  *)
(* command will still see to it.                                           *)

FreeIn(x, sk) ==
  Family[x] # "loopback" /\ ~sk[x].inside /\ ~sk[x].shut /\ sk[x].bind \notin Contain

Loose(x, sk, ps) == sk[x].by \cap MembersOf(ps) # {} /\ FreeIn(x, sk)

Freezing == {"attach", "scan", "move", "frozen", "check", "reach", "act", "thaw"}
Undoing == {"restore", "out", "moveout"}

\* A command in the state s has asked for the freezer while it must, and has a
\* socket that is loose on its list from the moment it makes one.
Faces(s, sk, ps, g) ==
  /\ s.pc \in Freezing => g.freeze
  /\ s.pc \in Undoing => g.freeze \/ MembersOf(ps) = {}
  /\ \A x \in Sock : Loose(x, sk, ps) =>
       /\ s.pc = "reach" => \E w \in s.work : w[2] = x /\ w[1] \in sk[x].by
       /\ s.pc = "act" => \E w \in s.work : w[2] = x
       /\ s.pc # "thaw"

CutHeld ==
  /\ MembersOf(proc) # {} => cg.there
  /\ ~cg.freeze => \A x \in Sock : ~Loose(x, sock, proc)
  /\ \A c \in Command : Faces(cmd[c], sock, proc, cg)

\* What the theorem below excludes: a process that exits, or closes the socket,
\* after it was listed as its holder and before its descriptor was taken, while
\* another member holds the socket too.
HolderStays ==
  \A c \in Contain : cmd[c].pc = "reach" =>
    \A w \in cmd[c].work : w[1] \in sock[w[2]].by =>
      w[1] \in sock'[w[2]].by \/ sock'[w[2]].by \cap Members' = {}

\* A step of the processes themselves.
LEMMA WorldCut ==
  ASSUME TypeOK, CutHeld, HolderStays, UNCHANGED <<cg, cmd>>,
         MembersOf(proc) = {} => MembersOf(proc') = {},
         \A c \in Command : cmd[c].pc \in SetUp => c \in Contain,
         \A x \in Sock : Loose(x, sock', proc') => Loose(x, sock, proc)
  PROVE  CutHeld'
<1>1. cmd \in [Command -> CommandState]
  BY Typed
<1>2. ASSUME NEW c \in Command
      PROVE  Faces(cmd[c], sock', proc', cg)
  <2>1. Faces(cmd[c], sock, proc, cg) /\ cmd[c] \in CommandState
    BY <1>1 DEF CutHeld
  <2>2. ASSUME NEW x \in Sock, Loose(x, sock', proc'), cmd[c].pc = "reach"
        PROVE  \E w \in cmd[c].work : w[2] = x /\ w[1] \in sock'[x].by
    <3>1. PICK w \in cmd[c].work : w[2] = x /\ w[1] \in sock[x].by
      BY <2>1, <2>2 DEF Faces
    <3>2. c \in Contain
      BY <2>2 DEF SetUp
    <3>3. Members' = MembersOf(proc')
      BY DEF Members, MembersOf, Alive
    <3>4. w[1] \in sock'[x].by \/ sock'[x].by \cap MembersOf(proc') = {}
      BY <2>2, <3>1, <3>2, <3>3 DEF HolderStays
    <3> QED  BY <2>2, <3>1, <3>4 DEF Loose
  <2> QED  BY <2>1, <2>2 DEF Faces
<1> QED  BY <1>2 DEF CutHeld

\* A step of a command that changes nothing but itself.
LEMMA QuietCut ==
  ASSUME CutHeld, UNCHANGED <<proc, sock, cg>>, NEW c \in Command,
         \A o \in Command \ {c} : cmd'[o] = cmd[o],
         Faces(cmd'[c], sock, proc, cg)
  PROVE  CutHeld'
<1>1. \A o \in Command : Faces(cmd'[o], sock, proc, cg)
  BY DEF CutHeld
<1> QED  BY <1>1 DEF CutHeld

\* A step of a command that changes something beside: the others are releases,
\* or not at work.
LEMMA TurnCut ==
  ASSUME Inv, CutHeld, NEW c \in Command, Live(c),
         \A o \in Command \ {c} : cmd'[o] = cmd[o],
         MembersOf(proc') # {} => cg'.there,
         ~cg'.freeze => \A x \in Sock : ~Loose(x, sock', proc'),
         c \in Contain \/ MembersOf(proc') = {}
           \/ ((cg.freeze => cg'.freeze) /\ MembersOf(proc) # {}),
         Faces(cmd'[c], sock', proc', cg')
  PROVE  CutHeld'
<1>1. ASSUME NEW o \in Command \ {c}
      PROVE  Faces(cmd[o], sock', proc', cg')
  <2>1. o \in Contain => ~Live(o)
    BY DEF Inv, Alone, Command
  <2>2. c \in Contain => ~Live(o)
    BY DEF Inv, Alone, Command
  <2>3. cmd[o].pc \in SetUp => o \in Contain
    BY DEF Inv, Local
  <2>4. cmd[o].pc \notin SetUp
    BY <2>1, <2>3 DEF Live, SetUp
  <2>5. CASE cmd[o].pc \notin Undoing
    BY <2>4, <2>5 DEF Faces, Freezing, SetUp
  <2>6. CASE cmd[o].pc \in Undoing
    <3>1. Live(o) /\ c \notin Contain
      BY <2>2, <2>6 DEF Live, Undoing
    <3>2. cg.freeze \/ MembersOf(proc) = {}
      BY <2>6 DEF CutHeld, Faces
    <3>3. cg'.freeze \/ MembersOf(proc') = {}
      BY <3>1, <3>2
    <3> QED  BY <2>4, <3>3 DEF Faces, Freezing, SetUp
  <2> QED  BY <2>5, <2>6
<1> QED  BY <1>1 DEF CutHeld

\* Only who is alive holds a socket.
Owned == \A x \in Sock : \A p \in sock[x].by : Lives(proc, p)

LEMMA ForkCut ==
  ASSUME Inv, Owned, NEW p \in Proc, NEW q \in Proc, Fork(p, q)
  PROVE  /\ Owned'
         /\ MembersOf(proc) = {} => MembersOf(proc') = {}
         /\ \A x \in Sock : Loose(x, sock', proc') => Loose(x, sock, proc)
<1>0. proc \in [Proc -> Process] /\ sock \in [Sock -> Socket]
  BY Typed DEF Inv, World
<1>1. PICK child : child = [life |-> "alive", parent |-> p, at |-> proc[p].at, home |-> None]
  OBVIOUS
<1>2. child.life = "alive" /\ child.at = proc[p].at
  BY <1>1
<1>3. /\ Lives(proc, p) /\ ~Lives(proc, q) /\ p # q
      /\ proc'[q] = child /\ \A x \in Proc \ {q} : proc'[x] = proc[x]
  BY <1>0, <1>1 DEF Fork, Alive, Lives
<1>4. \A x \in Proc : (x \in MembersOf(proc') <=> IF x = q THEN p \in MembersOf(proc) ELSE x \in MembersOf(proc))
  BY <1>2, <1>3 DEF MembersOf, Lives
<1>5. ASSUME NEW x \in Sock
      PROVE  /\ sock'[x].by = sock[x].by \/ (p \in sock[x].by /\ sock'[x].by = sock[x].by \cup {q})
             /\ FreeIn(x, sock') = FreeIn(x, sock)
  <2>1. sock[x] \in Socket
    BY <1>0
  <2>2. CASE UNCHANGED sock
    BY <2>2 DEF FreeIn
  <2>3. CASE sock' = [s \in Sock |-> [sock[s] EXCEPT !.by = Inherits(@, p, q)]]
    <3>1. sock'[x] = [sock[x] EXCEPT !.by = Inherits(@, p, q)]
      BY <2>3
    <3> QED  BY <2>1, <3>1 DEF Socket, Inherits, FreeIn
  <2> QED  BY <2>2, <2>3 DEF Fork
<1>6. Owned'
  <2> SUFFICES ASSUME NEW x \in Sock, NEW m \in sock'[x].by  PROVE Lives(proc', m)
    BY DEF Owned
  <2>1. m = q \/ m \in sock[x].by
    BY <1>5
  <2>2. sock[x].by \subseteq Proc
    BY <1>0 DEF Socket
  <2>3. CASE m = q
    BY <1>2, <1>3, <2>3 DEF Lives
  <2>4. CASE m # q
    <3>1. m \in Proc \ {q} /\ Lives(proc, m)
      BY <2>1, <2>2, <2>4 DEF Owned
    <3> QED  BY <1>3, <3>1 DEF Lives
  <2> QED  BY <2>3, <2>4
<1>7. ASSUME NEW x \in Sock, Loose(x, sock', proc')
      PROVE  Loose(x, sock, proc)
  <2>1. PICK m \in Proc : m \in sock'[x].by /\ m \in MembersOf(proc')
    BY <1>7 DEF Loose, MembersOf
  <2>2. q \notin sock[x].by
    BY <1>3 DEF Owned
  <2>3. CASE m = q
    BY <1>4, <1>5, <1>7, <2>1, <2>2, <2>3 DEF Loose
  <2>4. CASE m # q
    BY <1>4, <1>5, <1>7, <2>1, <2>4 DEF Loose
  <2> QED  BY <2>3, <2>4
<1>8. MembersOf(proc) = {} => MembersOf(proc') = {}
  BY <1>4 DEF MembersOf
<1> QED  BY <1>6, <1>7, <1>8

\* One that no longer holds a socket, or holds it no longer with others.
LEMMA DropsLess ==
  ASSUME NEW y \in Socket, NEW p
  PROVE  /\ Drops(y, p).by = y.by \ {p}
         /\ \/ Drops(y, p).by = {}
            \/ /\ Drops(y, p).inside = y.inside /\ Drops(y, p).shut = y.shut
               /\ Drops(y, p).bind = y.bind
<1>1. CASE y.by = {p}
  BY <1>1 DEF Drops, Closed, Unmade
<1>2. CASE y.by # {p}
  BY <1>2 DEF Drops, Socket
<1> QED  BY <1>1, <1>2

LEMMA ExitCut ==
  ASSUME Inv, Owned, NEW p \in Proc, Exit(p)
  PROVE  /\ Owned'
         /\ MembersOf(proc) = {} => MembersOf(proc') = {}
         /\ \A x \in Sock : Loose(x, sock', proc') => Loose(x, sock, proc)
<1>0. proc \in [Proc -> Process] /\ sock \in [Sock -> Socket]
  BY Typed DEF Inv, World
<1>1. /\ proc'[p].life = "dead"
      /\ \A x \in Proc \ {p} : proc'[x].life = proc[x].life /\ proc'[x].at = proc[x].at
  <2>1. proc' = [q \in Proc |-> IF q = p THEN Absent("dead")
                                ELSE IF proc[q].parent = p THEN [proc[q] EXCEPT !.parent = 0]
                                ELSE proc[q]]
    BY DEF Exit
  <2> QED  BY <1>0, <2>1 DEF Absent, Process
<1>2. \A x \in Sock : sock'[x] = Drops(sock[x], p)
  BY DEF Exit
<1>3. MembersOf(proc') \subseteq MembersOf(proc)
  BY <1>1 DEF MembersOf
<1>4. \A x \in Sock : Loose(x, sock', proc') => Loose(x, sock, proc)
  BY <1>0, <1>2, <1>3, DropsLess DEF Loose, FreeIn
<1>5. Owned'
  <2> SUFFICES ASSUME NEW x \in Sock, NEW m \in sock'[x].by  PROVE Lives(proc', m)
    BY DEF Owned
  <2>1. m \in sock[x].by /\ m # p /\ m \in Proc
    BY <1>0, <1>2, DropsLess DEF Socket
  <2> QED  BY <1>1, <2>1 DEF Owned, Lives
<1> QED  BY <1>3, <1>4, <1>5

LEMMA SocketCut ==
  ASSUME Inv, Owned, NEW p \in Proc, NEW s \in Sock, Open(p, s) \/ CloseSocket(p, s)
  PROVE  /\ Owned'
         /\ \A x \in Sock : Loose(x, sock', proc') => Loose(x, sock, proc)
<1>0. sock \in [Sock -> Socket] /\ UNCHANGED proc
  BY Typed DEF Inv, World, Open, CloseSocket
<1>1. \A x \in Sock \ {s} : sock'[x] = sock[x]
  BY <1>0 DEF Open, CloseSocket
<1>2. CASE Open(p, s)
  <2>1. PICK new : new = [Unmade EXCEPT !.by = {p}, !.made = TRUE, !.inside = proc[p].at = Inside /\ cg.gate]
    OBVIOUS
  <2>2. new.by = {p} /\ new.inside = (proc[p].at = Inside /\ cg.gate)
    BY <2>1 DEF Unmade
  <2>3. sock'[s] = new /\ Lives(proc, p)
    BY <1>0, <1>2, <2>1 DEF Open, Alive, Lives
  <2>4. ~Loose(s, sock', proc')
    <3>1. p \in MembersOf(proc) => new.inside
      BY <2>2, MembersAre DEF Inv, SteeredInside, MembersOf
    <3> QED  BY <1>0, <2>2, <2>3, <3>1 DEF Loose, FreeIn
  <2> QED  BY <1>0, <1>1, <2>2, <2>3, <2>4 DEF Owned, Loose, FreeIn
<1>3. CASE CloseSocket(p, s)
  <2>1. sock'[s] = Drops(sock[s], p)
    BY <1>0, <1>3 DEF CloseSocket
  <2> QED  BY <1>0, <1>1, <2>1, DropsLess DEF Owned, Loose, FreeIn
<1> QED  BY <1>2, <1>3

LEMMA AwayFaces ==
  ASSUME NEW s, NEW sk, NEW ps, NEW g,
         \/ s.pc \notin Freezing \cup Undoing
         \/ g.freeze /\ s.pc \in Freezing \ {"reach", "act", "thaw"}
  PROVE  Faces(s, sk, ps, g)
BY DEF Faces, Freezing, Undoing

\* The least of a member's holders is who a socket is listed under.
LEMMA LeastHolder ==
  ASSUME NEW S \in SUBSET Proc, S # {}
  PROVE  \E p \in S : \A q \in S : p =< q
<1>1. S \subseteq Nat
  BY ContainAssumption
<1>2. PICK p \in S : \A q \in S : ~(<<q, p>> \in OpToRel(<, Nat))
  BY <1>1, NatLessThanWellFounded, WFMin, Zenon
<1>3. \A q \in S : ~(q < p)
  BY <1>1, <1>2, Zenon DEF OpToRel
<1> QED  BY <1>1, <1>3

LEMMA ListedAll ==
  ASSUME TypeOK, NEW x \in Sock, Loose(x, sock, proc)
  PROVE  \E w \in MembersSockets : w[2] = x /\ w[1] \in sock[x].by
<1> DEFINE S == sock[x].by \cap Members
<1>1. S # {} /\ S \in SUBSET Proc
  BY MembersAre DEF Loose, Members
<1> HIDE DEF S
<1>2. PICK p \in S : \A q \in S : p =< q
  BY <1>1, LeastHolder
<1>3. <<p, x>> \in MembersSockets
  BY <1>1, <1>2 DEF MembersSockets, S
<1> QED  BY <1>2, <1>3 DEF S

\* The steps that change the command and no more, or the record with it.
Quiet(c) ==
  \/ PreflightFails(c) \/ Scan(c) \/ EndPass(c) \/ Frozen(c) \/ NotFrozen(c) \/ CheckMembers(c)
  \/ Reach(c) \/ ActFails(c) \/ WriteRecord(c) \/ Signal(c) \/ Emptied(c) \/ Round(c)
  \/ EndRound(c) \/ Close(c) \/ Killed(c)

LEMMA QuietFaces ==
  ASSUME Inv, CutHeld, NEW c \in Command, Quiet(c)
  PROVE  /\ UNCHANGED <<proc, sock, cg>>
         /\ Faces(cmd'[c], sock, proc, cg)
<1>0. /\ cmd \in [Command -> CommandState] /\ cmd[c] \in CommandState /\ TypeOK
      /\ Faces(cmd[c], sock, proc, cg)
  BY Typed DEF Inv, CutHeld
<1> USE DEF Freezing, Undoing
<1>1. CASE PreflightFails(c)
  BY <1>0, <1>1, GoesFields, AwayFaces DEF PreflightFails
<1>2. CASE Scan(c)
  <2>1. cmd'[c].pc = "move" /\ cg.freeze /\ UNCHANGED <<proc, sock, cg>>
    BY <1>0, <1>2 DEF Scan, CommandState, Faces
  <2> QED  BY <2>1, AwayFaces
<1>3. CASE EndPass(c)
  <2>1. CASE cmd' = [cmd EXCEPT ![c].pc = IF cmd[c].second THEN "check" ELSE "frozen",
                                ![c].second = TRUE, ![c].round = 0]
    BY <1>0, <1>3, <2>1, AwayFaces DEF EndPass, CommandState, Faces
  <2>2. CASE cmd' = [cmd EXCEPT ![c].pc = "scan", ![c].round = @ + 1]
    BY <1>0, <1>3, <2>2, AwayFaces DEF EndPass, CommandState, Faces
  <2>3. CASE Fails(c)
    BY <1>0, <1>3, <2>3, FailsFields, AwayFaces DEF EndPass
  <2> QED  BY <1>3, <2>1, <2>2, <2>3 DEF EndPass
<1>4. CASE Frozen(c) \/ NotFrozen(c) \/ ActFails(c)
  <2>1. cmd'[c].pc = "undo" \/ (cmd'[c].pc = "scan" /\ cg.freeze)
    BY <1>0, <1>4, GoesFields, FailsFields DEF Frozen, NotFrozen, ActFails
  <2> QED  BY <1>4, <2>1, AwayFaces DEF Frozen, NotFrozen, ActFails
<1>5. CASE CheckMembers(c)
  <2>1. CASE Fails(c)
    BY <1>0, <1>5, <2>1, FailsFields, AwayFaces DEF CheckMembers
  <2>2. CASE cmd' = [cmd EXCEPT ![c].pc = "reach", ![c].work = MembersSockets]
    <3>1. cmd'[c].pc = "reach" /\ cmd'[c].work = MembersSockets /\ cg.freeze
      BY <1>0, <1>5, <2>2 DEF CheckMembers, CommandState, Faces
    <3>2. Faces(cmd'[c], sock, proc, cg)
      BY <1>0, <3>1, ListedAll DEF Faces
    <3> QED  BY <1>5, <3>2 DEF CheckMembers
  <2> QED  BY <1>5, <2>1, <2>2 DEF CheckMembers
<1>6. CASE Reach(c)
  <2>1. CASE Fails(c)
    BY <1>0, <1>6, <2>1, FailsFields, AwayFaces DEF Reach
  <2>2. CASE cmd' = [cmd EXCEPT ![c].pc = "act",
               ![c].work = {w \in {w \in cmd[c].work : w[1] \in sock[w[2]].by} : Action(w[2]) # "keep"}]
    <3>1. /\ cmd'[c].pc = "act" /\ cmd[c].pc = "reach" /\ cg.freeze
          /\ cmd'[c].work = {w \in {w \in cmd[c].work : w[1] \in sock[w[2]].by} : Action(w[2]) # "keep"}
      BY <1>0, <1>6, <2>2 DEF Reach, CommandState, Faces
    <3>2. \A x \in Sock : Family[x] # "loopback" => Action(x) # "keep"
      BY ContainAssumption DEF Action
    <3>3. ASSUME NEW x \in Sock, Loose(x, sock, proc)
          PROVE  \E w \in cmd'[c].work : w[2] = x
      <4>1. PICK w \in cmd[c].work : w[2] = x /\ w[1] \in sock[x].by
        BY <1>0, <3>1, <3>3 DEF Faces
      <4> QED  BY <3>1, <3>2, <3>3, <4>1 DEF Loose, FreeIn
    <3>4. Faces(cmd'[c], sock, proc, cg)
      BY <3>1, <3>3 DEF Faces
    <3> QED  BY <1>6, <3>4 DEF Reach
  <2> QED  BY <1>6, <2>1, <2>2 DEF Reach
<1>7. CASE WriteRecord(c)
  <2>1. cmd'[c].pc = "thaw" /\ cmd[c].pc = "act" /\ cmd[c].work = {}
    BY <1>0, <1>7, GoesFields DEF WriteRecord
  <2>2. Faces(cmd'[c], sock, proc, cg)
    BY <1>0, <2>1 DEF Faces
  <2> QED  BY <1>7, <2>2 DEF WriteRecord
<1>8. CASE Signal(c) \/ Emptied(c)
  BY <1>0, <1>8, GoesFields, AwayFaces DEF Signal, Emptied
<1>9. CASE Round(c) \/ EndRound(c)
  <2>1. cmd'[c].pc \in Undoing \cup {"unfreeze"} /\ cmd[c].pc \in Undoing
    <3>1. CASE Round(c)
      BY <1>0, <3>1 DEF Round, CommandState
    <3>2. CASE EndRound(c)
      BY <1>0, <3>2, GoesFields DEF EndRound
    <3> QED  BY <1>9, <3>1, <3>2
  <2>2. Faces(cmd'[c], sock, proc, cg)
    BY <1>0, <2>1 DEF Faces
  <2> QED  BY <1>9, <2>2 DEF Round, EndRound
<1>10. CASE Close(c) \/ Killed(c)
  BY <1>0, <1>10, EndsFields, AwayFaces DEF Close, Killed
<1> QED  BY <1>1, <1>2, <1>3, <1>4, <1>5, <1>6, <1>7, <1>8, <1>9, <1>10 DEF Quiet

\* A command that changes the cgroup, and neither a process nor a socket.
LEMMA CgroupCut ==
  ASSUME Inv, CutHeld, NEW c \in Command,
         MakeCgroup(c) \/ Attach(c) \/ Thaw(c) \/ Undo(c) \/ Unfreeze(c) \/ Detach(c) \/ Remove(c)
  PROVE  CutHeld' /\ UNCHANGED <<proc, sock>>
<1>0. /\ cmd \in [Command -> CommandState] /\ cmd[c] \in CommandState /\ TypeOK
      /\ cg \in [there : BOOLEAN, freeze : BOOLEAN, gate : BOOLEAN]
      /\ Faces(cmd[c], sock, proc, cg) /\ Local(c, cmd[c], proc, cg)
      /\ Members = MembersOf(proc)
  BY Typed, MembersAre DEF Inv, World, CutHeld
<1>1. \A o \in Command \ {c} : cmd'[o] = cmd[o]
  BY <1>0, OthersStay, Zenon DEF Step
<1>2. UNCHANGED <<proc, sock>> /\ Live(c)
  <2>1. CASE MakeCgroup(c) \/ Attach(c) \/ Thaw(c) \/ Undo(c)
    BY <2>1 DEF MakeCgroup, Attach, Thaw, Undo, Live
  <2>2. CASE Unfreeze(c) \/ Detach(c) \/ Remove(c)
    BY <2>2 DEF Unfreeze, Detach, Remove, Live
  <2> QED  BY <2>1, <2>2
<1> USE DEF Freezing, Undoing
<1>3. CASE MakeCgroup(c)
  <2>1. cg'.there /\ cg'.freeze /\ cmd'[c].pc = "attach"
    BY <1>0, <1>3 DEF MakeCgroup, CommandState
  <2>2. c \in Contain
    BY <1>0, <1>3 DEF Local, MakeCgroup, SetUp
  <2> QED  BY <1>1, <1>2, <2>1, <2>2, AwayFaces, TurnCut
<1>4. CASE Attach(c)
  <2>1. cg'.there = cg.there /\ cg'.freeze = cg.freeze /\ cg.freeze
    BY <1>0, <1>4 DEF Attach, Faces
  <2>2. cmd'[c].pc \in {"scan", "undo"}
    BY <1>0, <1>4, GoesFields, FailsFields DEF Attach
  <2>3. c \in Contain
    BY <1>0, <1>4 DEF Local, Attach, SetUp
  <2> QED  BY <1>1, <1>2, <2>1, <2>2, <2>3, AwayFaces, TurnCut DEF CutHeld
<1>5. CASE Thaw(c)
  <2>1. c \in Contain /\ \A x \in Sock : ~Loose(x, sock, proc)
    BY <1>0, <1>5 DEF Local, Thaw, SetUp, Faces
  <2>2. cg'.there = cg.there /\ cmd'[c].pc \in {"hold", "undo"}
    <3>1. CASE cg.there
      <4>1. cmd' = [cmd EXCEPT ![c].pc = "hold", ![c].held = TRUE] /\ cg' = [cg EXCEPT !.freeze = FALSE]
        BY <1>5, <3>1 DEF Thaw
      <4>2. cmd'[c].pc = "hold"
        BY <1>0, <4>1 DEF CommandState
      <4>3. cg'.there = cg.there
        BY <1>0, <4>1
      <4> QED  BY <4>2, <4>3
    <3>2. CASE ~cg.there
      BY <1>0, <1>5, <3>2, FailsFields DEF Thaw
    <3> QED  BY <3>1, <3>2
  <2> QED  BY <1>1, <1>2, <2>1, <2>2, AwayFaces, TurnCut DEF CutHeld
<1>6. CASE Undo(c)
  <2>1. cg'.there = cg.there /\ cg'.freeze = cg.there /\ cmd'[c].pc = "restore"
    BY <1>0, <1>6, GoesFields DEF Undo
  <2>2. MembersOf(proc) # {} => cg'.freeze /\ cg'.there
    BY <2>1 DEF CutHeld
  <2>3. Faces(cmd'[c], sock', proc', cg')
    BY <1>2, <2>1, <2>2 DEF Faces
  <2>4. ~cg'.freeze => \A x \in Sock : ~Loose(x, sock', proc')
    BY <1>2, <2>2 DEF Loose
  <2> QED  BY <1>1, <1>2, <2>2, <2>3, <2>4, TurnCut
<1>7. CASE Unfreeze(c) \/ Detach(c) \/ Remove(c)
  <2>1. MembersOf(proc) = {}
    BY <1>0, <1>7 DEF Local, Emptying, Unfreeze, Detach, Remove
  <2>2. cmd'[c].pc \in {"detach", "remove", "close"}
    BY <1>0, <1>7, GoesFields DEF Unfreeze, Detach, Remove
  <2>3. \A x \in Sock : ~Loose(x, sock', proc')
    BY <1>2, <2>1 DEF Loose
  <2> QED  BY <1>1, <1>2, <2>1, <2>2, <2>3, AwayFaces, TurnCut
<1> QED  BY <1>2, <1>3, <1>4, <1>5, <1>6, <1>7

\* Who is moved in brings what he holds with him; the freezer is on.
LEMMA MoveCut ==
  ASSUME Inv, CutHeld, Owned, NEW c \in Command, NEW p \in Proc, Move(c, p)
  PROVE  CutHeld' /\ Owned'
<1>0. /\ cmd \in [Command -> CommandState] /\ cmd[c] \in CommandState /\ TypeOK
      /\ proc \in [Proc -> Process] /\ sock \in [Sock -> Socket]
      /\ cmd[c].pc = "move" /\ cg.freeze /\ cg.there /\ c \in Contain /\ UNCHANGED <<sock, cg>>
  BY Typed DEF Inv, World, Move, CutHeld, Faces, Freezing, Local, SetUp, Steered
<1>1. \A o \in Command \ {c} : cmd'[o] = cmd[o]
  BY <1>0, OthersStay, Zenon DEF Step
<1>2. \A x \in Proc : proc'[x].life = proc[x].life
  BY <1>0 DEF Move, Process
<1>3. cmd'[c].pc \in {"move", "undo"}
  <2>1. CASE cmd' = [cmd EXCEPT ![c].want = @ \ {p}]
    BY <1>0, <2>1 DEF CommandState
  <2>2. CASE cmd' = [cmd EXCEPT ![c].want = @ \ {p}, ![c].moved = TRUE,
                                ![c].origin[p] = IF @ = None THEN proc[p].at ELSE @]
    BY <1>0, <2>2 DEF CommandState
  <2>3. CASE cmd' = [cmd EXCEPT ![c].want = @ \ {p}, ![c].origin[p] = None]
    BY <1>0, <2>3 DEF CommandState
  <2>4. CASE Fails(c)
    BY <1>0, <2>4, FailsFields
  <2> QED  BY <2>1, <2>2, <2>3, <2>4 DEF Move
<1>4. CutHeld'
  <2>1. Faces(cmd'[c], sock', proc', cg')
    BY <1>0, <1>3, AwayFaces DEF Freezing, Undoing
  <2>2. Live(c) /\ cg'.there /\ cg'.freeze
    BY <1>0 DEF Live
  <2> QED  BY <1>0, <1>1, <2>1, <2>2, TurnCut
<1>5. Owned'
  BY <1>0, <1>2 DEF Owned, Lives, Socket
<1> QED  BY <1>4, <1>5

\* What is cut, and what is pinned, goes by the tunnel or nowhere.
LEMMA ActCut ==
  ASSUME Inv, CutHeld, Owned, NEW c \in Command, NEW w \in cmd[c].work, Act(c, w)
  PROVE  CutHeld' /\ Owned'
<1>0. /\ cmd \in [Command -> CommandState] /\ cmd[c] \in CommandState /\ TypeOK
      /\ sock \in [Sock -> Socket] /\ cmd[c].pc = "act" /\ cg.freeze /\ cg.there
      /\ c \in Contain /\ UNCHANGED <<proc, cg>> /\ Faces(cmd[c], sock, proc, cg)
  BY Typed DEF Inv, World, Act, CutHeld, Faces, Freezing, Local, SetUp, Steered
<1>1. \A o \in Command \ {c} : cmd'[o] = cmd[o]
  BY <1>0, OthersStay, Zenon DEF Step
<1>2. w[2] \in Sock
  BY <1>0 DEF CommandState
<1>3. /\ \A x \in Sock : sock'[x].by = sock[x].by
      /\ \A x \in Sock \ {w[2]} : sock'[x] = sock[x]
      /\ sock'[w[2]].bind = c
  <2>1. PICK y : y = [sock[w[2]] EXCEPT !.bind = c, !.shut = TRUE]
    OBVIOUS
  <2>2. PICK z : z = [sock[w[2]] EXCEPT !.bind = c, !.under = w[1]]
    OBVIOUS
  <2>3. sock[w[2]] \in Socket
    BY <1>0, <1>2
  <2>4. y.by = sock[w[2]].by /\ y.bind = c /\ z.by = sock[w[2]].by /\ z.bind = c
    BY <2>1, <2>2, <2>3 DEF Socket
  <2>5. sock' = [sock EXCEPT ![w[2]] = y] \/ sock' = [sock EXCEPT ![w[2]] = z]
    <3>1. CASE Action(w[2]) = "cut"
      BY <1>0, <1>2, <2>1, <2>3, <3>1 DEF Act, Socket
    <3>2. CASE Action(w[2]) # "cut"
      BY <1>0, <1>2, <2>2, <2>3, <3>2 DEF Act, Socket
    <3> QED  BY <3>1, <3>2
  <2> QED  BY <1>0, <1>2, <2>4, <2>5
<1>4. cmd'[c].pc = "act" /\ cmd'[c].work = cmd[c].work \ {w}
  <2>1. CASE cmd' = [cmd EXCEPT ![c].work = @ \ {w}]
    BY <1>0, <2>1 DEF CommandState
  <2>2. CASE cmd' = [cmd EXCEPT ![c].work = @ \ {w}, ![c].pinned =
               Append(@, [by |-> w[1], sock |-> w[2], was |-> ReadBinding(w[2])])]
    BY <1>0, <2>2 DEF CommandState
  <2> QED  BY <2>1, <2>2 DEF Act
<1>5. ASSUME NEW x \in Sock, Loose(x, sock', proc')
      PROVE  \E v \in cmd'[c].work : v[2] = x
  <2>1. x # w[2]
    BY <1>0, <1>3, <1>5 DEF Loose, FreeIn
  <2>2. Loose(x, sock, proc)
    BY <1>0, <1>3, <1>5, <2>1 DEF Loose, FreeIn
  <2>3. PICK v \in cmd[c].work : v[2] = x
    BY <1>0, <2>2 DEF Faces
  <2> QED  BY <1>4, <2>1, <2>3
<1>6. Faces(cmd'[c], sock', proc', cg')
  BY <1>0, <1>4, <1>5 DEF Faces, Undoing
<1>7. CutHeld'
  BY <1>0, <1>1, <1>6, TurnCut DEF Live
<1>8. Owned'
  BY <1>0, <1>3 DEF Owned
<1> QED  BY <1>7, <1>8

\* A binding is put back while the freezer is on, or nobody is left to use it.
LEMMA RestoreCut ==
  ASSUME Inv, CutHeld, Owned, NEW c \in Command, Restore(c)
  PROVE  CutHeld' /\ Owned'
<1>0. /\ cmd \in [Command -> CommandState] /\ cmd[c] \in CommandState /\ TypeOK
      /\ sock \in [Sock -> Socket] /\ cmd[c].pc = "restore"
      /\ UNCHANGED <<proc, cg>> /\ (cg.freeze \/ MembersOf(proc) = {})
  BY Typed DEF Inv, World, Restore, CutHeld, Faces, Undoing
<1>1. \A o \in Command \ {c} : cmd'[o] = cmd[o]
  BY <1>0, OthersStay, Zenon DEF Step
<1>2. cmd'[c].pc \in {"restore", "out"}
  <2>1. CASE Goes(c, "out")
    BY <1>0, <2>1, GoesFields
  <2>2. CASE cmd' = [cmd EXCEPT ![c].pinned = Tail(@)]
    BY <1>0, <2>2 DEF CommandState
  <2> QED  BY <2>1, <2>2 DEF Restore
<1>3. \A x \in Sock : sock'[x].by = sock[x].by
  <2>1. CASE UNCHANGED sock
    BY <2>1
  <2>2. CASE ~UNCHANGED sock
    <3> DEFINE h == Head(cmd[c].pinned)
    <3>1. sock' = [sock EXCEPT ![h.sock].bind = h.was]
      BY <2>2 DEF Restore
    <3> HIDE DEF h
    <3> QED  BY <1>0, <3>1 DEF Socket
  <2> QED  BY <2>1, <2>2
<1>4. CutHeld'
  <2>1. Faces(cmd'[c], sock', proc', cg')
    BY <1>0, <1>2 DEF Faces, Freezing
  <2>2. Live(c) /\ (MembersOf(proc') # {} => cg'.there)
    BY <1>0 DEF Live, CutHeld
  <2>3. ~cg'.freeze => \A x \in Sock : ~Loose(x, sock', proc')
    BY <1>0 DEF Loose
  <2> QED  BY <1>0, <1>1, <2>1, <2>2, <2>3, TurnCut
<1>5. Owned'
  BY <1>0, <1>3 DEF Owned
<1> QED  BY <1>4, <1>5

LEMMA MoveOutCut ==
  ASSUME Inv, CutHeld, Owned, NEW c \in Command, NEW p \in Proc, MoveOut(c, p)
  PROVE  CutHeld' /\ Owned'
<1>0. /\ cmd \in [Command -> CommandState] /\ cmd[c] \in CommandState /\ TypeOK
      /\ proc \in [Proc -> Process] /\ sock \in [Sock -> Socket] /\ scopes \subseteq Scope
      /\ cmd[c].pc = "moveout" /\ UNCHANGED <<sock, cg>> /\ (cg.freeze \/ MembersOf(proc) = {})
  BY Typed DEF Inv, World, MoveOut, CutHeld, Faces, Undoing
<1>1. \A o \in Command \ {c} : cmd'[o] = cmd[o]
  BY <1>0, OthersStay, Zenon DEF Step
<1>2. cmd'[c].pc = "moveout"
  BY <1>0 DEF MoveOut, CommandState
<1>3. PlaceFor(c, p) # Inside
  BY <1>0, ContainAssumption DEF PlaceFor
<1>4. /\ \A x \in Proc : proc'[x].life = proc[x].life
      /\ MembersOf(proc') \subseteq MembersOf(proc)
  <2>1. CASE Alive(p)
    BY <1>0, <1>3, <2>1 DEF MoveOut, Process, MembersOf
  <2>2. CASE ~Alive(p)
    BY <1>0, <2>2 DEF MoveOut
  <2> QED  BY <2>1, <2>2
<1>5. CutHeld'
  <2>1. Faces(cmd'[c], sock', proc', cg')
    BY <1>0, <1>2, <1>4 DEF Faces, Freezing
  <2>2. Live(c) /\ (MembersOf(proc') # {} => cg'.there)
    BY <1>0, <1>4 DEF Live, CutHeld
  <2>3. ~cg'.freeze => \A x \in Sock : ~Loose(x, sock', proc')
    BY <1>0, <1>4 DEF Loose
  <2> QED  BY <1>0, <1>1, <1>4, <2>1, <2>2, <2>3, TurnCut
<1>6. Owned'
  BY <1>0, <1>4 DEF Owned, Lives, Socket
<1> QED  BY <1>5, <1>6

LEMMA BeginCut ==
  ASSUME Inv, CutHeld, NEW c \in Command, NEW p \in Proc, StartContain(c, p) \/ StartRelease(c, p)
  PROVE  CutHeld' /\ UNCHANGED <<proc, sock>>
<1>0. cmd \in [Command -> CommandState] /\ cmd[c] \in CommandState
  BY Typed DEF Inv
<1>1. /\ UNCHANGED <<proc, sock, cg>> /\ cmd'[c].pc \in {"make", "undo"}
      /\ \A o \in Command \ {c} : cmd'[o] = cmd[o]
  BY <1>0 DEF StartContain, StartRelease, CommandState
<1>2. Faces(cmd'[c], sock, proc, cg)
  BY <1>1, AwayFaces DEF Freezing, Undoing
<1> QED  BY <1>1, <1>2, QuietCut

LEMMA InitCut ==
  ASSUME Init
  PROVE  CutHeld /\ Owned
<1>1. MembersOf(proc) = {}
  <2>1. \A p \in Proc : proc[p].at \in Scope \cup {Top}
    BY DEF Init, Absent, Found
  <2> QED  BY <2>1, ContainAssumption DEF MembersOf
<1>2. \A c \in Command : Faces(cmd[c], sock, proc, cg)
  <2>1. \A c \in Command : cmd[c].pc = "idle"
    BY DEF Init, NewCommand
  <2> QED  BY <2>1, AwayFaces DEF Freezing, Undoing
<1>3. Owned
  <2> SUFFICES ASSUME NEW x \in Sock, NEW p \in sock[x].by  PROVE Lives(proc, p)
    BY DEF Owned
  <2>1. sock[x] \in {Unmade} \cup {Held(P, d) : P \in Holders, d \in Device \cup {None}}
    BY DEF Init
  <2>2. PICK P \in Holders, d \in Device \cup {None} : sock[x] = Held(P, d)
    BY <2>1 DEF Unmade
  <2>3. p \in P
    BY <2>2 DEF Held, Unmade
  <2> QED  BY <2>3 DEF Holders, Alive, Lives
<1> QED  BY <1>1, <1>2, <1>3 DEF CutHeld, Loose

LEMMA NextCut ==
  ASSUME Inv, CutHeld, Owned, [Next]_vars, HolderStays
  PROVE  CutHeld' /\ Owned'
<1>0. TypeOK /\ (\A c \in Command : cmd[c].pc \in SetUp => c \in Contain)
  BY DEF Inv, Local
<1>1. ASSUME NEW p \in Proc, NEW q \in Proc, Fork(p, q)
      PROVE  CutHeld' /\ Owned'
  <2>1. UNCHANGED <<cg, cmd>>
    BY <1>1 DEF Fork
  <2> QED  BY <1>0, <1>1, <2>1, ForkCut, WorldCut
<1>2. ASSUME NEW p \in Proc, Exit(p)
      PROVE  CutHeld' /\ Owned'
  <2>1. UNCHANGED <<cg, cmd>>
    BY <1>2 DEF Exit
  <2> QED  BY <1>0, <1>2, <2>1, ExitCut, WorldCut
<1>3. ASSUME NEW p \in Proc, NEW s \in Sock, Open(p, s) \/ CloseSocket(p, s)
      PROVE  CutHeld' /\ Owned'
  <2>1. UNCHANGED <<proc, cg, cmd>>
    BY <1>3 DEF Open, CloseSocket
  <2> QED  BY <1>0, <1>3, <2>1, SocketCut, WorldCut
<1>4. CASE UNCHANGED <<proc, sock, cg, cmd>>
  BY <1>0, <1>4 DEF CutHeld, Owned
<1>5. ASSUME Processes
      PROVE  CutHeld' /\ Owned'
  <2>1. CASE \E p \in Proc : Freezes(p)
    BY <1>4, <2>1 DEF Freezes
  <2>2. CASE \E x \in Scope : ScopeGoes(x)
    BY <1>4, <2>2 DEF ScopeGoes
  <2> QED  BY <1>1, <1>2, <1>3, <1>5, <2>1, <2>2 DEF Processes
<1>6. ASSUME NEW c \in Command, Quiet(c)
      PROVE  CutHeld' /\ Owned'
  <2>1. Step(c) \/ Signal(c) \/ Killed(c)
    BY <1>6 DEF Quiet, Step
  <2>2. \A o \in Command \ {c} : cmd'[o] = cmd[o]
    BY <1>0, <2>1, OthersStay
  <2>3. UNCHANGED <<proc, sock, cg>> /\ Faces(cmd'[c], sock, proc, cg)
    BY <1>6, QuietFaces
  <2> QED  BY <2>2, <2>3, QuietCut DEF Owned
<1>7. ASSUME NEW c \in Command,
             MakeCgroup(c) \/ Attach(c) \/ Thaw(c) \/ Undo(c) \/ Unfreeze(c) \/ Detach(c) \/ Remove(c)
      PROVE  CutHeld' /\ Owned'
  BY <1>7, CgroupCut DEF Owned
<1>8. ASSUME NEW c \in Command, NEW p \in Proc, StartContain(c, p) \/ StartRelease(c, p)
      PROVE  CutHeld' /\ Owned'
  BY <1>8, BeginCut DEF Owned
<1>9. ASSUME NEW c \in Command, Step(c) \/ Signal(c) \/ Killed(c)
      PROVE  CutHeld' /\ Owned'
  <2>1. CASE \E p \in Proc : Move(c, p) \/ MoveOut(c, p)
    BY <2>1, MoveCut, MoveOutCut
  <2>2. CASE \E w \in cmd[c].work : Act(c, w)
    BY <2>2, ActCut
  <2>3. CASE Restore(c)
    BY <2>3, RestoreCut
  <2> QED  BY <1>6, <1>7, <1>9, <2>1, <2>2, <2>3 DEF Step, Quiet
<1>10. CASE UNCHANGED vars
  BY <1>4, <1>10 DEF vars
<1> QED  BY <1>5, <1>8, <1>9, <1>10 DEF Next

LEMMA CutNoWay ==
  ASSUME Inv, CutHeld
  PROVE  NoWayAround
<1> SUFFICES ASSUME ~cg.freeze, NEW p \in Members, NEW s \in Sock, p \in sock[s].by
             PROVE  ~Free(s)
  BY DEF NoWayAround
<1>1. ~Loose(s, sock, proc)
  BY DEF CutHeld
<1> QED  BY <1>1, MembersAre DEF Loose, FreeIn, Free

\* Contain (internal/enforce/contain_linux.go): from the time the tree is thawed,
\* for as long as anyone is in the cgroup, no member holds a socket by which it
\* sends past the tunnel, one it opened before, inherited or brought along. Only
\* so long as a socket's listed holder still has it when its descriptor is taken,
\* or takes its sharers along.
THEOREM NoWayLeft ==
  ASSUME ~Careless
  PROVE  Spec /\ [][HolderStays]_vars => []NoWayAround
<1>1. Init => Inv /\ CutHeld /\ Owned
  BY InitInv, InitCut
<1>2. Inv /\ CutHeld /\ Owned /\ [Next]_vars /\ [HolderStays]_vars => (Inv /\ CutHeld /\ Owned)'
  <2> SUFFICES ASSUME Inv, CutHeld, Owned, [Next]_vars, [HolderStays]_vars
               PROVE  (Inv /\ CutHeld /\ Owned)'
    OBVIOUS
  <2>1. Inv'
    BY NextInv
  <2>2. CASE HolderStays
    BY <2>1, <2>2, NextCut
  <2>3. CASE UNCHANGED vars
    <3>1. UNCHANGED <<proc, sock, cg, cmd>>
      BY <2>3 DEF vars
    <3> QED  BY <2>1, <3>1 DEF CutHeld, Owned
  <2> QED  BY <2>2, <2>3
<1>3. Inv /\ CutHeld => NoWayAround
  BY CutNoWay
<1> QED  BY <1>1, <1>2, <1>3, PTL DEF Spec

-----------------------------------------------------------------------------
(* Where everyone is put back: what is noted of the members' origins, by   *)
(* the commands and in the record.                                         *)

Making == {"attach", "scan", "move", "frozen", "check", "reach", "act"}
Holding == Making \cup {"thaw", "hold"}
PuttingBack == {"undo", "restore", "out", "moveout"}

\* Where a command may be killed and leave a record that says all.
Recorded == {"make", "thaw", "hold", "close"}

HomeOf(h, sc) == IF h \in sc THEN h ELSE Top

\* Who was inside, and is no longer, is where he came from.
Placed(ps, sc) ==
  \A p \in Proc \ MembersOf(ps) :
    Lives(ps, p) /\ ps[p].home # None => ps[p].at = HomeOf(ps[p].home, sc)

\* An origin for all in S that were moved in, and none for anyone outside.
Noted(o, S, ps) == \A p \in S : ps[p].home # None => o[p] = ps[p].home
Clean(o, ps) == \A p \in Proc \ MembersOf(ps) : ps[p].life # "dead" => o[p] = None

\* Those of S a command is to move out, in the round it is in.
Leaving(s) == IF s.pc = "moveout" THEN s.want ELSE {}

Remembers(s, ps) ==
  /\ s.pc \in Holding \cup PuttingBack => Noted(s.origin, MembersOf(ps) \cup Leaving(s), ps)
  /\ s.pc \in Holding => Clean(s.origin, ps)

BackHeld ==
  /\ Placed(proc, scopes)
  /\ \A c \in Command : Remembers(cmd[c], proc)
  /\ (\A c \in Command : cmd[c].pc \notin PuttingBack \cup Emptying) => Clean(record.origin, proc)
  /\ (\A c \in Contain : cmd[c].pc \notin Making \cup PuttingBack) =>
       Noted(record.origin, MembersOf(proc), proc)

\* What a step of the processes may do to them.
Drifts(ps, ps1) ==
  \A p \in Proc :
    \/ ps1[p].life = "dead" /\ ps1[p].home = None
    \/ /\ ps1[p].life = ps[p].life /\ ps1[p].at = ps[p].at /\ ps1[p].home = ps[p].home
    \/ ps[p].life = "unborn" /\ ps1[p].home = None

LEMMA DriftKeeps ==
  ASSUME NEW ps, NEW ps1, Drifts(ps, ps1)
  PROVE  /\ \A sc : Placed(ps, sc) => Placed(ps1, sc)
         /\ \A o : Clean(o, ps) => Clean(o, ps1)
         /\ \A s \in CommandState : Noted(s.origin, MembersOf(ps) \cup Leaving(s), ps) =>
              Noted(s.origin, MembersOf(ps1) \cup Leaving(s), ps1)
         /\ \A o : Noted(o, MembersOf(ps), ps) => Noted(o, MembersOf(ps1), ps1)
<1>1. ASSUME NEW sc, Placed(ps, sc)
      PROVE  Placed(ps1, sc)
  BY <1>1 DEF Placed, Drifts, MembersOf, Lives
<1>2. ASSUME NEW o, Clean(o, ps)
      PROVE  Clean(o, ps1)
  BY <1>2 DEF Clean, Drifts, MembersOf
<1>3. ASSUME NEW o, NEW S \in SUBSET Proc, Noted(o, MembersOf(ps) \cup S, ps)
      PROVE  Noted(o, MembersOf(ps1) \cup S, ps1)
  BY <1>3 DEF Noted, Drifts, MembersOf
<1>4. \A s \in CommandState : Leaving(s) \in SUBSET Proc
  BY DEF Leaving, CommandState
<1>5. ASSUME NEW o, Noted(o, MembersOf(ps), ps)
      PROVE  Noted(o, MembersOf(ps1), ps1)
  BY <1>5 DEF Noted, Drifts, MembersOf
<1> QED  BY <1>1, <1>2, <1>3, <1>4, <1>5

LEMMA ProcessDrifts ==
  ASSUME TypeOK, Processes
  PROVE  Drifts(proc, proc') /\ UNCHANGED <<cg, record, cmd>>
<1>0. proc \in [Proc -> Process]
  BY Typed DEF World
<1>1. ASSUME NEW p \in Proc, NEW q \in Proc, Fork(p, q)
      PROVE  Drifts(proc, proc')
  <2>1. PICK child : child = [life |-> "alive", parent |-> p, at |-> proc[p].at, home |-> None]
    OBVIOUS
  <2>2. child.home = None
    BY <2>1
  <2>3. proc[q].life = "unborn" /\ proc'[q] = child /\ \A x \in Proc \ {q} : proc'[x] = proc[x]
    BY <1>0, <1>1, <2>1 DEF Fork
  <2> QED  BY <2>2, <2>3 DEF Drifts
<1>2. ASSUME NEW p \in Proc, Exit(p)
      PROVE  Drifts(proc, proc')
  <2>1. proc' = [q \in Proc |-> IF q = p THEN Absent("dead")
                                ELSE IF proc[q].parent = p THEN [proc[q] EXCEPT !.parent = 0]
                                ELSE proc[q]]
    BY <1>2 DEF Exit
  <2>2. ASSUME NEW x \in Proc
        PROVE  \/ proc'[x].life = "dead" /\ proc'[x].home = None
               \/ proc'[x].life = proc[x].life /\ proc'[x].at = proc[x].at /\ proc'[x].home = proc[x].home
    <3>1. CASE x = p
      BY <2>1, <3>1 DEF Absent
    <3>2. CASE x # p
      BY <1>0, <2>1, <3>2 DEF Process
    <3> QED  BY <3>1, <3>2
  <2> QED  BY <2>2 DEF Drifts
<1>3. UNCHANGED proc => Drifts(proc, proc')
  BY DEF Drifts
<1>4. ASSUME \/ \E p \in Proc : Freezes(p)
             \/ \E p \in Proc, s \in Sock : Open(p, s) \/ CloseSocket(p, s)
             \/ \E x \in Scope : ScopeGoes(x)
      PROVE  Drifts(proc, proc')
  BY <1>3, <1>4 DEF Freezes, Open, CloseSocket, ScopeGoes
<1>5. UNCHANGED <<cg, record, cmd>>
  BY DEF Processes, Fork, Exit, Freezes, Open, CloseSocket, ScopeGoes
<1>6. Drifts(proc, proc')
  <2>1. \/ \E p, q \in Proc : Fork(p, q)
        \/ \E p \in Proc : Exit(p)
        \/ \E p \in Proc : Freezes(p)
        \/ \E p \in Proc, s \in Sock : Open(p, s) \/ CloseSocket(p, s)
        \/ \E x \in Scope : ScopeGoes(x)
    BY Zenon DEF Processes
  <2> QED  BY <1>1, <1>2, <1>4, <2>1
<1> QED  BY <1>5, <1>6

\* A cgroup that goes was nobody's place.
LEMMA ScopesKeep ==
  ASSUME TypeOK, Processes, Placed(proc', scopes)
  PROVE  Placed(proc', scopes')
<1>1. CASE UNCHANGED scopes
  BY <1>1
<1>2. ASSUME NEW x \in Scope, ScopeGoes(x)
      PROVE  Placed(proc', scopes')
  <2>1. /\ scopes' = scopes \ {x} /\ UNCHANGED proc /\ x # Top
        /\ \A p \in Proc : proc[p].at # x
    BY <1>2, ContainAssumption DEF ScopeGoes
  <2> QED  BY <2>1 DEF Placed, HomeOf
<1> QED  BY <1>1, <1>2 DEF Processes, Fork, Exit, Freezes, Open, CloseSocket

LEMMA ProcessBack ==
  ASSUME TypeOK, BackHeld, Processes
  PROVE  BackHeld'
<1>1. /\ Drifts(proc, proc') /\ UNCHANGED <<record, cmd>>
      /\ \A c \in Command : cmd[c] \in CommandState
  BY ProcessDrifts, Typed
<1>2. Placed(proc', scopes')
  BY <1>1, DriftKeeps, ScopesKeep DEF BackHeld
<1>3. \A c \in Command : Remembers(cmd[c], proc')
  BY <1>1, DriftKeeps DEF BackHeld, Remembers
<1>4. /\ Clean(record.origin, proc) => Clean(record.origin, proc')
      /\ Noted(record.origin, MembersOf(proc), proc) => Noted(record.origin, MembersOf(proc'), proc')
  BY <1>1, DriftKeeps
<1> QED  BY <1>1, <1>2, <1>3, <1>4 DEF BackHeld

\* A step of a command that moves nobody.
LEMMA TurnBack ==
  ASSUME BackHeld, NEW c \in Command, UNCHANGED <<proc, scopes>>,
         \A o \in Command \ {c} : cmd'[o] = cmd[o],
         Remembers(cmd'[c], proc),
         \/ Clean(record'.origin, proc)
         \/ UNCHANGED record /\ (cmd[c].pc \in PuttingBack \cup Emptying => cmd'[c].pc \in PuttingBack \cup Emptying),
         \/ Noted(record'.origin, MembersOf(proc), proc)
         \/ UNCHANGED record /\ (c \in Contain /\ cmd[c].pc \in Making \cup PuttingBack =>
                                   cmd'[c].pc \in Making \cup PuttingBack)
  PROVE  BackHeld'
<1>1. \A o \in Command : Remembers(cmd'[o], proc)
  BY DEF BackHeld
<1>2. (\A o \in Command : cmd'[o].pc \notin PuttingBack \cup Emptying) => Clean(record'.origin, proc)
  BY DEF BackHeld
<1>3. (\A o \in Contain : cmd'[o].pc \notin Making \cup PuttingBack) => Noted(record'.origin, MembersOf(proc), proc)
  <2> SUFFICES ASSUME \A o \in Contain : cmd'[o].pc \notin Making \cup PuttingBack,
                      ~Noted(record'.origin, MembersOf(proc), proc)
               PROVE  FALSE
    OBVIOUS
  <2>1. \A o \in Contain : cmd[o].pc \notin Making \cup PuttingBack
    BY DEF Command
  <2> QED  BY <2>1 DEF BackHeld
<1> QED  BY <1>1, <1>2, <1>3 DEF BackHeld

\* The steps that leave the origins and the record as they are.
Keeping(c) ==
  \/ PreflightFails(c) \/ Attach(c) \/ Scan(c) \/ EndPass(c) \/ Frozen(c) \/ NotFrozen(c)
  \/ CheckMembers(c) \/ Reach(c) \/ (\E w \in cmd[c].work : Act(c, w)) \/ ActFails(c) \/ Thaw(c)
  \/ Emptied(c) \/ Signal(c) \/ Undo(c) \/ Restore(c) \/ Round(c) \/ EndRound(c) \/ Unfreeze(c)
  \/ Detach(c) \/ Close(c)

Onward(pc, to) ==
  \/ pc \in Making /\ to \in Making \cup {"undo"}
  \/ pc \in {"thaw", "hold"} /\ to \in {"hold", "undo"}
  \/ pc \in PuttingBack /\ to \in PuttingBack \cup {"unfreeze"}
  \/ pc \in {"unfreeze", "detach"} /\ to \in {"detach", "remove"}
  \/ pc \in {"make", "close"} /\ to \in {"close", "done"}

LEMMA GoesOrigin ==
  ASSUME TypeOK, NEW c \in Command, Fails(c) \/ (\E pc : Goes(c, pc))
  PROVE  cmd'[c].origin = cmd[c].origin
<1>1. cmd \in [Command -> CommandState] /\ cmd[c] \in CommandState
  BY Typed
<1> QED  BY <1>1 DEF Goes, Fails, CommandState

LEMMA KeepingSteps ==
  ASSUME TypeOK, NEW c \in Command, Keeping(c)
  PROVE  /\ UNCHANGED <<proc, scopes, record>>
         /\ Onward(cmd[c].pc, cmd'[c].pc)
         /\ cmd'[c].origin = cmd[c].origin \/ cmd'[c].pc = "done"
         /\ cmd'[c].pc = "moveout" => cmd'[c].want = Members
<1> USE DEF Making, PuttingBack
<1>0. cmd \in [Command -> CommandState] /\ cmd[c] \in CommandState
  BY Typed
<1>1. CASE PreflightFails(c) \/ Frozen(c) \/ NotFrozen(c) \/ ActFails(c)
  BY <1>1, GoesFields, FailsFields, GoesOrigin DEF PreflightFails, Frozen, NotFrozen, ActFails, Onward
<1>2. CASE Attach(c)
  BY <1>2, GoesFields, FailsFields, GoesOrigin DEF Attach, Onward
<1>3. CASE Scan(c)
  <2>1. cmd'[c].pc = "move" /\ cmd'[c].origin = cmd[c].origin
    BY <1>0, <1>3 DEF Scan, CommandState
  <2> QED  BY <1>3, <2>1 DEF Scan, Onward
<1>4. CASE EndPass(c)
  <2>1. CASE cmd' = [cmd EXCEPT ![c].pc = IF cmd[c].second THEN "check" ELSE "frozen",
                                ![c].second = TRUE, ![c].round = 0]
    <3>1. cmd'[c].pc \in {"check", "frozen"} /\ cmd'[c].origin = cmd[c].origin
      BY <1>0, <2>1 DEF CommandState
    <3> QED  BY <1>4, <3>1 DEF EndPass, Onward
  <2>2. CASE cmd' = [cmd EXCEPT ![c].pc = "scan", ![c].round = @ + 1]
    <3>1. cmd'[c].pc = "scan" /\ cmd'[c].origin = cmd[c].origin
      BY <1>0, <2>2 DEF CommandState
    <3> QED  BY <1>4, <3>1 DEF EndPass, Onward
  <2>3. CASE Fails(c)
    BY <1>4, <2>3, FailsFields, GoesOrigin DEF EndPass, Onward
  <2> QED  BY <1>4, <2>1, <2>2, <2>3 DEF EndPass
<1>5. CASE CheckMembers(c)
  <2>1. CASE Fails(c)
    BY <1>5, <2>1, FailsFields, GoesOrigin DEF CheckMembers, Onward
  <2>2. CASE cmd' = [cmd EXCEPT ![c].pc = "reach", ![c].work = MembersSockets]
    <3>1. cmd'[c].pc = "reach" /\ cmd'[c].origin = cmd[c].origin
      BY <1>0, <2>2 DEF CommandState
    <3> QED  BY <1>5, <3>1 DEF CheckMembers, Onward
  <2> QED  BY <1>5, <2>1, <2>2 DEF CheckMembers
<1>6. CASE Reach(c)
  <2>1. CASE Fails(c)
    BY <1>6, <2>1, FailsFields, GoesOrigin DEF Reach, Onward
  <2>2. CASE \E W : cmd' = [cmd EXCEPT ![c].pc = "act", ![c].work = W]
    <3>1. cmd'[c].pc = "act" /\ cmd'[c].origin = cmd[c].origin
      BY <1>0, <2>2 DEF CommandState
    <3> QED  BY <1>6, <3>1 DEF Reach, Onward
  <2> QED  BY <1>6, <2>1, <2>2, Zenon DEF Reach
<1>7. ASSUME NEW w \in cmd[c].work, Act(c, w)
      PROVE  UNCHANGED <<proc, scopes, record>> /\ cmd[c].pc = "act" /\ cmd'[c].pc = "act"
             /\ cmd'[c].origin = cmd[c].origin
  BY <1>0, <1>7 DEF Act, CommandState
<1>8. CASE Thaw(c)
  <2>1. CASE Fails(c)
    BY <1>8, <2>1, FailsFields, GoesOrigin DEF Thaw, Onward
  <2>2. CASE cmd' = [cmd EXCEPT ![c].pc = "hold", ![c].held = TRUE]
    <3>1. cmd'[c].pc = "hold" /\ cmd'[c].origin = cmd[c].origin
      BY <1>0, <2>2 DEF CommandState
    <3> QED  BY <1>8, <3>1 DEF Thaw, Onward
  <2> QED  BY <1>8, <2>1, <2>2 DEF Thaw
<1>9. CASE Emptied(c) \/ Signal(c) \/ Undo(c) \/ EndRound(c)
  BY <1>9, GoesFields, GoesOrigin DEF Emptied, Signal, Undo, EndRound, Onward
<1>10. CASE Restore(c)
  <2>1. CASE Goes(c, "out")
    BY <1>10, <2>1, GoesFields, GoesOrigin DEF Restore, Onward
  <2>2. CASE cmd' = [cmd EXCEPT ![c].pinned = Tail(@)]
    <3>1. cmd'[c].pc = cmd[c].pc /\ cmd'[c].origin = cmd[c].origin
      BY <1>0, <2>2 DEF CommandState
    <3> QED  BY <1>10, <3>1 DEF Restore, Onward
  <2> QED  BY <1>10, <2>1, <2>2 DEF Restore
<1>11. CASE Round(c)
  <2>1. /\ cmd'[c].pc \in {"moveout", "unfreeze"} /\ cmd'[c].origin = cmd[c].origin
        /\ cmd'[c].pc = "moveout" => cmd'[c].want = Members
    BY <1>0, <1>11 DEF Round, CommandState
  <2> QED  BY <1>11, <2>1 DEF Round, Onward
<1>12. CASE Unfreeze(c) \/ Detach(c)
  BY <1>12, GoesFields, GoesOrigin DEF Unfreeze, Detach, Onward
<1>13. CASE Close(c)
  BY <1>13, EndsFields DEF Close, Onward
<1> QED
  BY <1>1, <1>2, <1>3, <1>4, <1>5, <1>6, <1>7, <1>8, <1>9, <1>10, <1>11, <1>12, <1>13
     DEF Keeping, Onward

LEMMA KeepingBack ==
  ASSUME Inv, Inv', BackHeld, NEW c \in Command, Keeping(c)
  PROVE  BackHeld'
<1>0. /\ TypeOK /\ Remembers(cmd[c], proc) /\ UNCHANGED <<proc, scopes, record>>
      /\ Onward(cmd[c].pc, cmd'[c].pc)
      /\ cmd'[c].origin = cmd[c].origin \/ cmd'[c].pc = "done"
      /\ cmd'[c].pc = "moveout" => cmd'[c].want = Members
  BY KeepingSteps DEF Inv, BackHeld
<1>1. \A o \in Command \ {c} : cmd'[o] = cmd[o]
  <2>1. Step(c) \/ Signal(c) \/ Killed(c)
    BY DEF Keeping, Step
  <2> QED  BY <1>0, <2>1, OthersStay
<1> USE DEF Making, Holding, PuttingBack
<1>2. Remembers(cmd'[c], proc)
  <2>1. ASSUME cmd'[c].pc \in Holding \cup PuttingBack
        PROVE  Noted(cmd'[c].origin, MembersOf(proc) \cup Leaving(cmd'[c]), proc)
    <3>1. cmd[c].pc \in Holding \cup PuttingBack /\ cmd'[c].origin = cmd[c].origin
      BY <1>0, <2>1 DEF Onward
    <3>2. Leaving(cmd'[c]) \subseteq MembersOf(proc)
      BY <1>0, MembersAre DEF Leaving
    <3> QED  BY <1>0, <3>1, <3>2 DEF Remembers, Noted
  <2>2. ASSUME cmd'[c].pc \in Holding
        PROVE  Clean(cmd'[c].origin, proc)
    BY <1>0, <2>2 DEF Onward, Remembers
  <2> QED  BY <2>1, <2>2 DEF Remembers
<1>3. cmd[c].pc \in PuttingBack \cup Emptying => cmd'[c].pc \in PuttingBack \cup Emptying
  BY <1>0 DEF Onward, Emptying
<1>4. \/ Noted(record'.origin, MembersOf(proc), proc)
      \/ cmd[c].pc \in Making \cup PuttingBack => cmd'[c].pc \in Making \cup PuttingBack
  <2>1. CASE cmd'[c].pc = "unfreeze"
    <3>1. MembersOf(proc') = {}
      BY <2>1 DEF Inv, Local, Emptying
    <3> QED  BY <1>0, <3>1 DEF Noted
  <2>2. CASE cmd'[c].pc # "unfreeze"
    BY <1>0, <2>2 DEF Onward
  <2> QED  BY <2>1, <2>2
<1> QED  BY <1>0, <1>1, <1>2, <1>3, <1>4, TurnBack

LEMMA MakeCgroupBack ==
  ASSUME Inv, BackHeld, NEW c \in Command, MakeCgroup(c)
  PROVE  BackHeld'
<1>0. /\ TypeOK /\ cmd \in [Command -> CommandState] /\ cmd[c] \in CommandState
      /\ UNCHANGED <<proc, scopes, record>> /\ cmd[c].pc = "make"
      /\ cmd'[c].pc = "attach" /\ cmd'[c].origin = record.origin
  BY Typed DEF Inv, MakeCgroup, CommandState
<1>1. \A o \in Command \ {c} : cmd'[o] = cmd[o]
  BY <1>0, OthersStay, Zenon DEF Step
<1> USE DEF Making, Holding, PuttingBack
<1>2. c \in Contain /\ Live(c) /\ \A o \in Command \ {c} : ~Live(o)
  BY <1>0 DEF Inv, Local, SetUp, Alone, Live
<1>3. \A o \in Command : cmd[o].pc \notin Making \cup PuttingBack \cup Emptying
  BY <1>0, <1>2 DEF Live, Emptying
<1>4. Clean(record.origin, proc) /\ Noted(record.origin, MembersOf(proc), proc)
  BY <1>3 DEF BackHeld, Command
<1>5. Remembers(cmd'[c], proc)
  BY <1>0, <1>4 DEF Remembers, Leaving
<1> QED  BY <1>0, <1>1, <1>4, <1>5, TurnBack

LEMMA RecordBack ==
  ASSUME Inv, BackHeld, NEW c \in Command, WriteRecord(c) \/ Remove(c)
  PROVE  BackHeld'
<1>0. TypeOK /\ UNCHANGED <<proc, scopes>> /\ cmd \in [Command -> CommandState]
  BY Typed DEF Inv, WriteRecord, Remove
<1>1. \A o \in Command \ {c} : cmd'[o] = cmd[o]
  BY <1>0, OthersStay, Zenon DEF Step
<1> USE DEF Making, Holding, PuttingBack
<1>2. CASE WriteRecord(c)
  <2>1. /\ record'.origin = cmd[c].origin /\ cmd[c].pc = "act" /\ cmd'[c].pc = "thaw"
        /\ cmd'[c].origin = cmd[c].origin
    BY <1>0, <1>2, GoesFields, GoesOrigin DEF WriteRecord
  <2>2. Noted(cmd[c].origin, MembersOf(proc), proc) /\ Clean(cmd[c].origin, proc)
    BY <2>1 DEF BackHeld, Remembers, Noted
  <2>3. Remembers(cmd'[c], proc)
    BY <2>1, <2>2 DEF Remembers, Leaving
  <2> QED  BY <1>0, <1>1, <2>1, <2>2, <2>3, TurnBack
<1>3. CASE Remove(c)
  <2>1. record' = NoRecord /\ cmd[c].pc = "remove" /\ cmd'[c].pc = "close"
    BY <1>0, <1>3, GoesFields DEF Remove
  <2>2. MembersOf(proc) = {}
    BY <2>1 DEF Inv, Local, Emptying
  <2>3. Clean(record'.origin, proc) /\ Noted(record'.origin, MembersOf(proc), proc)
    BY <2>1, <2>2 DEF NoRecord, NoOrigin, Clean, Noted
  <2>4. Remembers(cmd'[c], proc)
    BY <2>1 DEF Remembers
  <2> QED  BY <1>0, <1>1, <2>3, <2>4, TurnBack
<1> QED  BY <1>2, <1>3

LEMMA KilledBack ==
  ASSUME Inv, BackHeld, Killable \subseteq Recorded, NEW c \in Command, Killed(c)
  PROVE  BackHeld'
<1>0. /\ TypeOK /\ UNCHANGED <<proc, scopes, record>>
      /\ cmd[c].pc \in Recorded /\ cmd'[c].pc = "killed"
  BY EndsFields DEF Inv, Killed
<1>1. \A o \in Command \ {c} : cmd'[o] = cmd[o]
  BY <1>0, OthersStay
<1>2. Remembers(cmd'[c], proc)
  BY <1>0 DEF Remembers, Making, Holding, PuttingBack
<1> QED  BY <1>0, <1>1, <1>2, TurnBack DEF Recorded, Making, PuttingBack, Emptying

\* The place of one who is moved in is noted at the time.
LEMMA MoveBack ==
  ASSUME Inv, BackHeld, NEW c \in Command, NEW p \in Proc, Move(c, p)
  PROVE  BackHeld'
<1>0. /\ TypeOK /\ proc \in [Proc -> Process] /\ cmd \in [Command -> CommandState]
      /\ cmd[c] \in CommandState /\ cmd[c].pc = "move" /\ UNCHANGED <<scopes, record>>
      /\ c \in Contain /\ Remembers(cmd[c], proc)
  BY Typed DEF Inv, World, Move, Local, SetUp, BackHeld
<1>1. \A o \in Command \ {c} : cmd'[o] = cmd[o]
  BY <1>0, OthersStay, Zenon DEF Step
<1> USE DEF Making, Holding, PuttingBack
<1>2. Noted(cmd[c].origin, MembersOf(proc), proc) /\ Clean(cmd[c].origin, proc)
  BY <1>0 DEF Remembers, Noted
<1>3. cmd[c].origin \in [Proc -> Scope \cup {Top, None}]
  BY <1>0 DEF CommandState, Origins
<1>4. CASE cmd' = [cmd EXCEPT ![c].want = @ \ {p}] /\ UNCHANGED proc
  <2>1. cmd'[c].pc = "move" /\ cmd'[c].origin = cmd[c].origin
    BY <1>0, <1>4 DEF CommandState
  <2>2. Remembers(cmd'[c], proc)
    BY <1>2, <2>1 DEF Remembers, Leaving
  <2> QED  BY <1>0, <1>1, <1>4, <2>1, <2>2, TurnBack DEF Emptying
<1>5. CASE cmd' = [cmd EXCEPT ![c].want = @ \ {p}, ![c].origin[p] = None] /\ UNCHANGED proc /\ ~Alive(p)
  <2>1. cmd'[c].pc = "move" /\ cmd'[c].origin = [cmd[c].origin EXCEPT ![p] = None]
    BY <1>0, <1>5 DEF CommandState
  <2>2. p \notin MembersOf(proc)
    BY <1>5 DEF Alive, MembersOf
  <2>3. Remembers(cmd'[c], proc)
    BY <1>2, <1>3, <2>1, <2>2 DEF Remembers, Leaving, Noted, Clean, MembersOf
  <2> QED  BY <1>0, <1>1, <1>5, <2>1, <2>3, TurnBack DEF Emptying
<1>6. CASE Fails(c) /\ UNCHANGED proc
  <2>1. cmd'[c].pc = "undo" /\ cmd'[c].origin = cmd[c].origin
    BY <1>0, <1>6, FailsFields, GoesOrigin
  <2>2. Remembers(cmd'[c], proc)
    BY <1>2, <2>1 DEF Remembers, Leaving
  <2> QED  BY <1>0, <1>1, <1>6, <2>1, <2>2, TurnBack DEF Emptying
<1>7. CASE /\ Alive(p) /\ p \notin Members
           /\ cmd' = [cmd EXCEPT ![c].want = @ \ {p}, ![c].moved = TRUE,
                                 ![c].origin[p] = IF @ = None THEN proc[p].at ELSE @]
           /\ proc' = [proc EXCEPT ![p].at = Inside, ![p].home = proc[p].at]
  <2>1. /\ cmd'[c].pc = "move"
        /\ cmd'[c].origin = [cmd[c].origin EXCEPT ![p] = IF @ = None THEN proc[p].at ELSE @]
    BY <1>0, <1>7 DEF CommandState
  <2>2. /\ \A x \in Proc \ {p} : proc'[x] = proc[x]
        /\ proc'[p].life = "alive" /\ proc[p].life = "alive"
        /\ proc'[p].at = Inside /\ proc'[p].home = proc[p].at
    BY <1>0, <1>7 DEF Process, Alive
  <2>3. p \notin MembersOf(proc) /\ MembersOf(proc') = MembersOf(proc) \cup {p}
    BY <1>7, <2>2, MembersAre DEF MembersOf
  <2>4. cmd[c].origin[p] = None
    BY <1>2, <2>2, <2>3 DEF Clean
  <2>5. cmd'[c].origin[p] = proc[p].at /\ \A x \in Proc \ {p} : cmd'[c].origin[x] = cmd[c].origin[x]
    BY <1>3, <2>1, <2>4
  <2>6. Remembers(cmd'[c], proc')
    <3>1. Noted(cmd'[c].origin, MembersOf(proc'), proc')
      BY <1>2, <2>2, <2>3, <2>5 DEF Noted, MembersOf
    <3>2. Clean(cmd'[c].origin, proc')
      BY <1>2, <2>2, <2>3, <2>5 DEF Clean
    <3> QED  BY <2>1, <3>1, <3>2 DEF Remembers, Leaving
  <2>7. ASSUME NEW o \in Command \ {c}
        PROVE  Remembers(cmd'[o], proc')
    <3>1. ~Live(o)
      BY <1>0 DEF Inv, Alone, Live
    <3> QED  BY <1>1, <3>1 DEF Live, Remembers
  <2>8. Placed(proc', scopes)
    BY <2>2, <2>3 DEF BackHeld, Placed, Lives
  <2>9. (\A o \in Command : cmd'[o].pc \notin PuttingBack \cup Emptying) => Clean(record.origin, proc')
    <3> SUFFICES ASSUME \A o \in Command : cmd'[o].pc \notin PuttingBack \cup Emptying
                 PROVE  Clean(record.origin, proc')
      OBVIOUS
    <3>1. \A o \in Command : cmd[o].pc \notin PuttingBack \cup Emptying
      BY <1>0, <1>1 DEF Emptying
    <3>2. Clean(record.origin, proc)
      BY <3>1 DEF BackHeld
    <3> QED  BY <2>2, <2>3, <3>2 DEF Clean
  <2> QED  BY <1>0, <2>1, <2>6, <2>7, <2>8, <2>9 DEF BackHeld
<1> QED  BY <1>4, <1>5, <1>6, <1>7 DEF Move

\* Who is moved out goes where he came from.
LEMMA MoveOutBack ==
  ASSUME Inv, BackHeld, NEW c \in Command, NEW p \in Proc, MoveOut(c, p)
  PROVE  BackHeld'
<1>0. /\ TypeOK /\ proc \in [Proc -> Process] /\ cmd \in [Command -> CommandState]
      /\ cmd[c] \in CommandState /\ cmd[c].pc = "moveout" /\ UNCHANGED <<scopes, record>>
      /\ scopes \subseteq Scope /\ Remembers(cmd[c], proc) /\ p \in cmd[c].want
  BY Typed DEF Inv, World, MoveOut, BackHeld
<1>1. \A o \in Command \ {c} : cmd'[o] = cmd[o]
  BY <1>0, OthersStay, Zenon DEF Step
<1>2. /\ cmd'[c].pc = "moveout" /\ cmd'[c].origin = cmd[c].origin /\ cmd'[c].want \subseteq cmd[c].want
  BY <1>0 DEF MoveOut, CommandState
<1> USE DEF Making, Holding, PuttingBack
<1>3. Noted(cmd[c].origin, MembersOf(proc) \cup cmd[c].want, proc)
  BY <1>0 DEF Remembers, Leaving
<1>4. PlaceFor(c, p) # Inside
  BY <1>0, ContainAssumption DEF PlaceFor
<1>5. /\ \A x \in Proc : proc'[x].life = proc[x].life /\ proc'[x].home = proc[x].home
      /\ \A x \in Proc \ {p} : proc'[x].at = proc[x].at
      /\ Alive(p) => proc'[p].at = PlaceFor(c, p)
  <2>1. CASE Alive(p)
    BY <1>0, <2>1 DEF MoveOut, Process
  <2>2. CASE ~Alive(p)
    BY <1>0, <2>2 DEF MoveOut
  <2> QED  BY <2>1, <2>2
<1>6. MembersOf(proc') = MembersOf(proc) \ {p}
  BY <1>4, <1>5 DEF MembersOf, Alive
<1>7. Placed(proc', scopes)
  <2> SUFFICES ASSUME NEW x \in Proc \ MembersOf(proc'), Lives(proc', x), proc'[x].home # None
               PROVE  proc'[x].at = HomeOf(proc'[x].home, scopes)
    BY DEF Placed
  <2>1. CASE x = p
    <3>1. Alive(p) /\ cmd[c].origin[p] = proc[p].home /\ proc[p].home # None
      BY <1>0, <1>3, <1>5, <2>1 DEF Noted, Lives, Alive
    <3> QED  BY <1>5, <2>1, <3>1 DEF PlaceFor, HomeOf
  <2>2. CASE x # p
    BY <1>5, <1>6, <2>2 DEF BackHeld, Placed, Lives
  <2> QED  BY <2>1, <2>2
<1>8. \A S, T \in SUBSET Proc : \A o : S \subseteq T /\ Noted(o, T, proc) => Noted(o, S, proc')
  BY <1>5 DEF Noted
<1>9. \A o \in Command : Leaving(cmd'[o]) \subseteq Leaving(cmd[o]) /\ Leaving(cmd[o]) \in SUBSET Proc
  BY <1>0, <1>1, <1>2 DEF Leaving, CommandState
<1>10. ASSUME NEW o \in Command
       PROVE  Remembers(cmd'[o], proc')
  <2>1. cmd'[o].pc = cmd[o].pc /\ cmd'[o].origin = cmd[o].origin
    BY <1>0, <1>1, <1>2
  <2>2. cmd[o].pc \notin Holding
    <3>1. CASE o = c
      BY <1>0, <3>1
    <3>2. CASE o # c
      <4>1. cmd[o].pc \in SetUp => o \in Contain
        BY DEF Inv, Local
      <4>2. o \in Contain => ~Live(o)
        BY <1>0, <3>2 DEF Inv, Alone, Live, Command
      <4> QED  BY <4>1, <4>2 DEF SetUp, Live
    <3> QED  BY <3>1, <3>2
  <2>3. cmd[o].pc \in PuttingBack => Noted(cmd[o].origin, MembersOf(proc) \cup Leaving(cmd[o]), proc)
    BY DEF BackHeld, Remembers
  <2>4. /\ MembersOf(proc') \cup Leaving(cmd'[o]) \in SUBSET Proc
        /\ MembersOf(proc) \cup Leaving(cmd[o]) \in SUBSET Proc
        /\ MembersOf(proc') \cup Leaving(cmd'[o]) \subseteq MembersOf(proc) \cup Leaving(cmd[o])
    BY <1>6, <1>9 DEF MembersOf
  <2>5. cmd[o].pc \in PuttingBack => Noted(cmd[o].origin, MembersOf(proc') \cup Leaving(cmd'[o]), proc')
    BY <1>8, <2>3, <2>4
  <2> QED  BY <2>1, <2>2, <2>5 DEF Remembers
<1>11. (\A o \in Contain : cmd'[o].pc \notin Making \cup PuttingBack) => Noted(record.origin, MembersOf(proc'), proc')
  <2>1. \A o \in Contain : cmd'[o].pc = cmd[o].pc
    BY <1>0, <1>1, <1>2 DEF Command
  <2>2. MembersOf(proc') \in SUBSET Proc /\ MembersOf(proc) \in SUBSET Proc
    BY DEF MembersOf
  <2> QED  BY <1>6, <1>8, <2>1, <2>2 DEF BackHeld
<1> QED  BY <1>0, <1>2, <1>7, <1>10, <1>11 DEF BackHeld

LEMMA BeginBack ==
  ASSUME Inv, ~Careless, BackHeld, NEW c \in Command, NEW p \in Proc,
         StartContain(c, p) \/ StartRelease(c, p)
  PROVE  BackHeld'
<1>0. cmd \in [Command -> CommandState] /\ cmd[c] \in CommandState
  BY Typed DEF Inv
<1>1. /\ UNCHANGED <<proc, scopes, record>> /\ cmd[c].pc = "idle"
      /\ \A o \in Command \ {c} : cmd'[o] = cmd[o]
  BY <1>0 DEF StartContain, StartRelease
<1> USE DEF Making, Holding, PuttingBack
<1>2. CASE StartContain(c, p)
  <2>1. cmd'[c].pc = "make"
    BY <1>0, <1>2 DEF StartContain, CommandState
  <2>2. Remembers(cmd'[c], proc)
    BY <2>1 DEF Remembers
  <2> QED  BY <1>1, <2>2, TurnBack DEF Emptying
<1>3. CASE StartRelease(c, p)
  <2>1. cmd'[c].pc = "undo" /\ cmd'[c].origin = record.origin
    BY <1>0, <1>3 DEF StartRelease, CommandState
  <2>2. \A o \in Contain : cmd[o].pc \notin Making \cup PuttingBack
    BY <1>3 DEF StartRelease, Live
  <2>3. Noted(record.origin, MembersOf(proc), proc)
    BY <2>2 DEF BackHeld
  <2>4. Remembers(cmd'[c], proc)
    BY <2>1, <2>3 DEF Remembers, Leaving
  <2> QED  BY <1>1, <2>4, TurnBack DEF Emptying
<1> QED  BY <1>2, <1>3

LEMMA InitBack ==
  ASSUME Init
  PROVE  BackHeld
<1>1. \A c \in Command : cmd[c].pc = "idle"
  BY DEF Init, NewCommand
<1>2. \A p \in Proc : proc[p].home = None
  BY DEF Init, Absent, Found
<1>3. record.origin = NoOrigin
  BY DEF Init, NoRecord
<1>4. \A c \in Command : Remembers(cmd[c], proc)
  BY <1>1 DEF Remembers, Making, Holding, PuttingBack
<1>5. Placed(proc, scopes)
  BY <1>2 DEF Placed
<1>6. Clean(record.origin, proc)
  BY <1>3 DEF Clean, NoOrigin
<1>7. Noted(record.origin, MembersOf(proc), proc)
  BY <1>2 DEF Noted, MembersOf
<1> QED  BY <1>4, <1>5, <1>6, <1>7 DEF BackHeld

LEMMA NextBack ==
  ASSUME Inv, Inv', BackHeld, ~Careless, Killable \subseteq Recorded, [Next]_vars
  PROVE  BackHeld'
<1>1. CASE Processes
  BY <1>1, ProcessBack DEF Inv
<1>2. ASSUME NEW c \in Command, Step(c) \/ Signal(c) \/ Killed(c)
      PROVE  BackHeld'
  <2>1. \/ Keeping(c) \/ MakeCgroup(c) \/ WriteRecord(c) \/ Remove(c) \/ Killed(c)
        \/ \E p \in Proc : Move(c, p) \/ MoveOut(c, p)
    BY <1>2 DEF Step, Keeping
  <2> QED  BY <2>1, KeepingBack, MakeCgroupBack, RecordBack, KilledBack, MoveBack, MoveOutBack
<1>3. ASSUME NEW c \in Command, NEW p \in Proc, StartContain(c, p) \/ StartRelease(c, p)
      PROVE  BackHeld'
  BY <1>3, BeginBack
<1>4. CASE UNCHANGED vars
  BY <1>4 DEF vars, BackHeld
<1> QED  BY <1>1, <1>2, <1>3, <1>4 DEF Next

-----------------------------------------------------------------------------
(* The bindings: what was pinned, by the commands and in the record.  On a *)
(* host whose programs bind no socket to a device, the device a pin        *)
(* replaces is none, or one that has gone with its command.                *)

Early == Making \ {"reach", "act"}
Past == {"out", "moveout"} \cup Emptying

Pinned(x, sk) == sk[x].bind # sk[x].own /\ ~sk[x].shut /\ sk[x].under \in sk[x].by

\* All that is pinned is on the list.
Covers(pins, sk) ==
  \A x \in Sock : Pinned(x, sk) =>
    \E i \in DOMAIN pins : pins[i].sock = x /\ pins[i].by = sk[x].under

Bare(pins) == \A i \in DOMAIN pins : pins[i].was = None

Born(p, ps) == ps[p].life # "unborn"

Tracks(s, ps, sk) ==
  /\ Bare(s.pinned)
  /\ s.pc \in Holding \cup {"undo", "restore"} => Covers(s.pinned, sk)
  /\ s.pc \in Past => \A x \in Sock : ~Pinned(x, sk)
  /\ \A w \in s.work : Born(w[1], ps)
  /\ s.pc \in {"reach", "act"} => \A v, w \in s.work : v[2] = w[2] => v = w

\* No socket is bound to the device of a command that has yet to pin it.
Unbound(c, s, sk) ==
  /\ s.pc \in {"idle", "make", "reach"} \cup Early => \A x \in Sock : sk[x].bind # c
  /\ s.pc = "act" => \A w \in s.work : sk[w[2]].bind # c

PinsHeld ==
  /\ \A c \in Command : Tracks(cmd[c], proc, sock)
  /\ \A c \in Contain : Unbound(c, cmd[c], sock)
  /\ Bare(record.pinned)
  /\ (\A c \in Contain : cmd[c].pc \notin Making \cup {"undo", "restore"}) => Covers(record.pinned, sock)
  /\ \A x \in Sock : sock[x].own = None /\ (sock[x].under = 0 \/ Born(sock[x].under, proc))
  /\ ~cg.there => \A x \in Sock : ~Pinned(x, sock)

\* A step that pins nothing.
Loosens(sk, sk1) ==
  \A x \in Sock :
    /\ Pinned(x, sk1) => Pinned(x, sk) /\ sk1[x].under = sk[x].under
    /\ sk1[x].bind \in {sk[x].bind, None} /\ sk1[x].own \in {sk[x].own, None}
    /\ sk1[x].under \in {sk[x].under, 0}

Ages(ps, ps1) == \A p \in Proc : Born(p, ps) => Born(p, ps1)

LEMMA LoosensKeeps ==
  ASSUME NEW sk, NEW sk1, NEW ps, NEW ps1, Loosens(sk, sk1), Ages(ps, ps1)
  PROVE  /\ \A pins : Covers(pins, sk) => Covers(pins, sk1)
         /\ \A s \in CommandState : Tracks(s, ps, sk) => Tracks(s, ps1, sk1)
         /\ \A c \in Contain, s \in CommandState : Unbound(c, s, sk) => Unbound(c, s, sk1)
<1>1. ASSUME NEW pins, Covers(pins, sk)
      PROVE  Covers(pins, sk1)
  BY <1>1 DEF Covers, Loosens
<1>2. ASSUME NEW s \in CommandState, Tracks(s, ps, sk)
      PROVE  Tracks(s, ps1, sk1)
  <2>1. \A w \in s.work : w[1] \in Proc
    BY DEF CommandState
  <2> QED  BY <1>1, <1>2, <2>1 DEF Tracks, Loosens, Ages
<1>3. ASSUME NEW c \in Contain, NEW s \in CommandState, Unbound(c, s, sk)
      PROVE  Unbound(c, s, sk1)
  <2>1. None # c /\ \A w \in s.work : w[2] \in Sock
    BY ContainAssumption DEF CommandState
  <2> QED  BY <1>3, <2>1 DEF Unbound, Loosens
<1> QED  BY <1>1, <1>2, <1>3

LEMMA ProcessLoosens ==
  ASSUME TypeOK, PinsHeld, Processes
  PROVE  /\ Loosens(sock, sock') /\ Ages(proc, proc') /\ UNCHANGED <<cg, record, cmd>>
         /\ \A x \in Sock : sock'[x].own = None
<1>0. sock \in [Sock -> Socket] /\ proc \in [Proc -> Process] /\ 0 \notin Proc
  BY Typed, ContainAssumption DEF World
<1>1. Drifts(proc, proc') /\ UNCHANGED <<cg, record, cmd>>
  BY ProcessDrifts
<1>2. Ages(proc, proc')
  <2> SUFFICES ASSUME NEW p \in Proc, Born(p, proc)  PROVE Born(p, proc')
    BY DEF Ages
  <2> QED  BY <1>1 DEF Drifts, Born
<1>3. \A x \in Sock : sock[x].own = None /\ sock[x] \in Socket
  BY <1>0 DEF PinsHeld
<1>4. ASSUME NEW p \in Proc, NEW q \in Proc, Fork(p, q)
      PROVE  Loosens(sock, sock')
  <2>1. CASE UNCHANGED sock
    BY <2>1 DEF Loosens
  <2>2. CASE sock' = [s \in Sock |-> [sock[s] EXCEPT !.by = Inherits(@, p, q)]]
    <3> SUFFICES ASSUME NEW x \in Sock
                 PROVE  /\ Pinned(x, sock') => Pinned(x, sock)
                        /\ sock'[x].bind = sock[x].bind /\ sock'[x].own = sock[x].own
                        /\ sock'[x].under = sock[x].under
      BY DEF Loosens
    <3>1. sock'[x] = [sock[x] EXCEPT !.by = Inherits(@, p, q)]
      BY <2>2
    <3>2. /\ sock'[x].bind = sock[x].bind /\ sock'[x].own = sock[x].own /\ sock'[x].shut = sock[x].shut
          /\ sock'[x].under = sock[x].under /\ sock'[x].by \subseteq sock[x].by \cup {q}
      BY <1>3, <3>1 DEF Socket, Inherits
    <3>3. sock[x].under # q
      <4>1. ~Born(q, proc)
        BY <1>4 DEF Fork, Born
      <4> QED  BY <1>0, <4>1 DEF PinsHeld
    <3> QED  BY <3>2, <3>3 DEF Pinned
  <2> QED  BY <1>4, <2>1, <2>2 DEF Fork
<1>5. ASSUME NEW y \in Socket, NEW p, y.own = None
      PROVE  /\ Drops(y, p).own = None
             /\ \/ Drops(y, p).bind = None /\ Drops(y, p).under = 0
                \/ /\ Drops(y, p).bind = y.bind /\ Drops(y, p).under = y.under
                   /\ Drops(y, p).shut = y.shut /\ Drops(y, p).by \subseteq y.by
  <2>1. CASE y.by = {p}
    BY <2>1 DEF Drops, Closed, Unmade
  <2>2. CASE y.by # {p}
    BY <1>5, <2>2 DEF Drops, Socket
  <2> QED  BY <2>1, <2>2
<1>6. ASSUME NEW p, \A x \in Sock : sock'[x] \in {sock[x], Drops(sock[x], p)}
      PROVE  Loosens(sock, sock') /\ \A x \in Sock : sock'[x].own = None
  BY <1>3, <1>5, <1>6 DEF Loosens, Pinned
<1>7. ASSUME NEW p \in Proc, Exit(p)
      PROVE  Loosens(sock, sock') /\ \A x \in Sock : sock'[x].own = None
  BY <1>6, <1>7 DEF Exit
<1>8. ASSUME NEW p \in Proc, NEW s \in Sock, CloseSocket(p, s)
      PROVE  Loosens(sock, sock') /\ \A x \in Sock : sock'[x].own = None
  BY <1>0, <1>6, <1>8 DEF CloseSocket
<1>9. ASSUME NEW p \in Proc, NEW s \in Sock, Open(p, s)
      PROVE  Loosens(sock, sock') /\ \A x \in Sock : sock'[x].own = None
  <2>1. PICK new : new = [Unmade EXCEPT !.by = {p}, !.made = TRUE, !.inside = proc[p].at = Inside /\ cg.gate]
    OBVIOUS
  <2>2. new.bind = None /\ new.own = None /\ new.under = 0
    BY <2>1 DEF Unmade
  <2>3. sock'[s] = new /\ \A x \in Sock \ {s} : sock'[x] = sock[x]
    BY <1>0, <1>9, <2>1 DEF Open
  <2> QED  BY <1>3, <2>2, <2>3 DEF Loosens, Pinned
<1>10. UNCHANGED sock => Loosens(sock, sock') /\ \A x \in Sock : sock'[x].own = None
  BY <1>3 DEF Loosens
<1>11. ASSUME NEW p \in Proc, NEW q \in Proc, Fork(p, q)
       PROVE  \A x \in Sock : sock'[x].own = None
  <2> TAKE x \in Sock
  <2>1. sock'[x].own \in {sock[x].own, None}
    BY <1>4, <1>11 DEF Loosens
  <2> QED  BY <1>3, <2>1
<1>12. Loosens(sock, sock') /\ \A x \in Sock : sock'[x].own = None
  <2>1. \/ \E p, q \in Proc : Fork(p, q)
        \/ \E p \in Proc : Exit(p)
        \/ \E p \in Proc : Freezes(p)
        \/ \E p \in Proc, s \in Sock : Open(p, s) \/ CloseSocket(p, s)
        \/ \E x \in Scope : ScopeGoes(x)
    BY Zenon DEF Processes
  <2>2. CASE (\E p \in Proc : Freezes(p)) \/ (\E x \in Scope : ScopeGoes(x))
    <3>1. UNCHANGED sock
      BY <2>2 DEF Freezes, ScopeGoes
    <3> QED  BY <1>10, <3>1
  <2> QED  BY <1>4, <1>7, <1>8, <1>9, <1>11, <2>1, <2>2
<1> QED  BY <1>1, <1>2, <1>12

LEMMA ProcessPins ==
  ASSUME TypeOK, PinsHeld, Processes
  PROVE  PinsHeld'
<1>1. /\ Loosens(sock, sock') /\ Ages(proc, proc') /\ UNCHANGED <<cg, record, cmd>>
      /\ \A x \in Sock : sock'[x].own = None
      /\ \A c \in Command : cmd[c] \in CommandState
      /\ sock \in [Sock -> Socket]
  BY ProcessLoosens, Typed DEF World
<1>2. \A c \in Command : Tracks(cmd[c], proc', sock')
  BY <1>1, LoosensKeeps DEF PinsHeld
<1>3. \A c \in Contain : Unbound(c, cmd[c], sock')
  BY <1>1, LoosensKeeps DEF PinsHeld, Command
<1>4. Covers(record.pinned, sock) => Covers(record.pinned, sock')
  BY <1>1, LoosensKeeps
<1>5. ASSUME NEW x \in Sock
      PROVE  sock'[x].under = 0 \/ Born(sock'[x].under, proc')
  <2>1. sock[x].under \in Proc \cup {0}
    BY <1>1 DEF Socket
  <2> QED  BY <1>1, <2>1 DEF PinsHeld, Loosens, Ages
<1>6. \A x \in Sock : Pinned(x, sock') => Pinned(x, sock)
  BY <1>1 DEF Loosens
<1> QED  BY <1>1, <1>2, <1>3, <1>4, <1>5, <1>6 DEF PinsHeld

\* A step of a command that pins nothing.
LEMMA TurnPins ==
  ASSUME TypeOK, PinsHeld, NEW c \in Command, \A o \in Command \ {c} : cmd'[o] = cmd[o],
         Loosens(sock, sock'), Ages(proc, proc'),
         Tracks(cmd'[c], proc', sock'), c \in Contain => Unbound(c, cmd'[c], sock'),
         Bare(record'.pinned),
         \/ Covers(record'.pinned, sock')
         \/ UNCHANGED record /\ (c \in Contain /\ cmd[c].pc \in Making \cup {"undo", "restore"} =>
                                   cmd'[c].pc \in Making \cup {"undo", "restore"}),
         (cg.there => cg'.there) \/ \A x \in Sock : ~Pinned(x, sock')
  PROVE  PinsHeld'
<1>0. cmd \in [Command -> CommandState] /\ sock \in [Sock -> Socket] /\ 0 \notin Proc
  BY Typed, ContainAssumption DEF World
<1>1. \A o \in Command : Tracks(cmd'[o], proc', sock')
  BY <1>0, LoosensKeeps DEF PinsHeld
<1>2. \A o \in Contain : Unbound(o, cmd'[o], sock')
  BY <1>0, LoosensKeeps DEF PinsHeld, Command
<1>3. (\A o \in Contain : cmd'[o].pc \notin Making \cup {"undo", "restore"}) => Covers(record'.pinned, sock')
  <2> SUFFICES ASSUME \A o \in Contain : cmd'[o].pc \notin Making \cup {"undo", "restore"},
                      ~Covers(record'.pinned, sock')
               PROVE  FALSE
    OBVIOUS
  <2>1. \A o \in Contain : cmd[o].pc \notin Making \cup {"undo", "restore"}
    BY DEF Command
  <2>2. Covers(record.pinned, sock)
    BY <2>1 DEF PinsHeld
  <2> QED  BY <2>2, LoosensKeeps
<1>4. ASSUME NEW x \in Sock
      PROVE  sock'[x].own = None /\ (sock'[x].under = 0 \/ Born(sock'[x].under, proc'))
  <2>1. sock[x].under \in Proc \cup {0}
    BY <1>0 DEF Socket
  <2> QED  BY <2>1 DEF PinsHeld, Loosens, Ages
<1>5. \A x \in Sock : Pinned(x, sock') => Pinned(x, sock)
  BY DEF Loosens
<1> QED  BY <1>1, <1>2, <1>3, <1>4, <1>5 DEF PinsHeld

LEMMA GoesPins ==
  ASSUME TypeOK, NEW c \in Command, Fails(c) \/ (\E pc : Goes(c, pc))
  PROVE  cmd'[c].pinned = cmd[c].pinned /\ cmd'[c].work \subseteq cmd[c].work
<1>1. cmd \in [Command -> CommandState] /\ cmd[c] \in CommandState
  BY Typed
<1>2. CASE Fails(c)
  BY <1>1, <1>2 DEF Fails, CommandState
<1>3. ASSUME NEW pc, Goes(c, pc)
      PROVE  cmd'[c].pinned = cmd[c].pinned /\ cmd'[c].work \subseteq cmd[c].work
  BY <1>1, <1>3 DEF Goes, CommandState
<1> QED  BY <1>2, <1>3

LEMMA EndsPins ==
  ASSUME TypeOK, NEW c \in Command, NEW pc, Ends(c, pc)
  PROVE  cmd'[c].pinned = <<>> /\ cmd'[c].work = {}
<1>1. cmd \in [Command -> CommandState]
  BY Typed
<1> QED  BY <1>1 DEF Ends, NewCommand

\* The steps that neither look at a socket nor touch one.
Handless(c) ==
  \/ PreflightFails(c) \/ Attach(c) \/ Scan(c) \/ (\E p \in Proc : Move(c, p) \/ MoveOut(c, p))
  \/ EndPass(c) \/ Frozen(c) \/ NotFrozen(c) \/ ActFails(c) \/ Thaw(c) \/ Emptied(c) \/ Signal(c)
  \/ Undo(c) \/ Round(c) \/ EndRound(c) \/ Unfreeze(c) \/ Detach(c) \/ Close(c)

Carried(s, t) ==
  \/ t.pc = "done" /\ t.pinned = <<>> /\ t.work = {}
  \/ t.pinned = s.pinned /\ t.work \subseteq s.work

\* From which place to which, as the pins see it.
Beside(pc, to) ==
  \/ pc \in Early /\ to \in Early \cup {"undo"}
  \/ pc = "act" /\ to = "undo"
  \/ pc \in {"thaw", "hold"} /\ to \in {"hold", "undo"}
  \/ pc = "undo" /\ to = "restore"
  \/ pc \in Past /\ to \in Past
  \/ pc \in {"make", "close"} /\ to \in {"close", "done"}

LEMMA HandlessSteps ==
  ASSUME TypeOK, NEW c \in Command, Handless(c)
  PROVE  /\ UNCHANGED <<sock, record>> /\ cg'.there = cg.there
         /\ Carried(cmd[c], cmd'[c]) /\ Beside(cmd[c].pc, cmd'[c].pc)
<1> USE DEF Making, Early, Past, Emptying
<1>0. /\ cmd \in [Command -> CommandState] /\ cmd[c] \in CommandState
      /\ cg \in [there : BOOLEAN, freeze : BOOLEAN, gate : BOOLEAN]
  BY Typed DEF World
<1>1. CASE PreflightFails(c) \/ Frozen(c) \/ NotFrozen(c) \/ ActFails(c)
  BY <1>1, GoesFields, FailsFields, GoesPins DEF PreflightFails, Frozen, NotFrozen, ActFails, Beside, Carried
<1>2. CASE Attach(c)
  <2>1. cg'.there = cg.there
    BY <1>0, <1>2 DEF Attach
  <2> QED  BY <1>2, <2>1, GoesFields, FailsFields, GoesPins DEF Attach, Beside, Carried
<1>3. CASE Scan(c)
  <2>1. cmd'[c].pc = "move" /\ cmd'[c].pinned = cmd[c].pinned /\ cmd'[c].work = cmd[c].work
    BY <1>0, <1>3 DEF Scan, CommandState
  <2> QED  BY <1>3, <2>1 DEF Scan, Beside, Carried
<1>4. ASSUME NEW p \in Proc, Move(c, p)
      PROVE  /\ UNCHANGED <<sock, record, cg>> /\ cmd[c].pc = "move" /\ cmd'[c].pc \in {"move", "undo"}
             /\ cmd'[c].pinned = cmd[c].pinned /\ cmd'[c].work \subseteq cmd[c].work
  <2>1. CASE cmd' = [cmd EXCEPT ![c].want = @ \ {p}]
    BY <1>0, <1>4, <2>1 DEF Move, CommandState
  <2>2. CASE cmd' = [cmd EXCEPT ![c].want = @ \ {p}, ![c].moved = TRUE,
                                ![c].origin[p] = IF @ = None THEN proc[p].at ELSE @]
    BY <1>0, <1>4, <2>2 DEF Move, CommandState
  <2>3. CASE cmd' = [cmd EXCEPT ![c].want = @ \ {p}, ![c].origin[p] = None]
    BY <1>0, <1>4, <2>3 DEF Move, CommandState
  <2>4. CASE Fails(c)
    BY <1>4, <2>4, FailsFields, GoesPins DEF Move
  <2> QED  BY <1>4, <2>1, <2>2, <2>3, <2>4 DEF Move
<1>5. ASSUME NEW p \in Proc, MoveOut(c, p)
      PROVE  /\ UNCHANGED <<sock, record, cg>> /\ cmd[c].pc = "moveout" /\ cmd'[c].pc = "moveout"
             /\ cmd'[c].pinned = cmd[c].pinned /\ cmd'[c].work = cmd[c].work
  BY <1>0, <1>5 DEF MoveOut, CommandState
<1>6. CASE EndPass(c)
  <2>1. CASE cmd' = [cmd EXCEPT ![c].pc = IF cmd[c].second THEN "check" ELSE "frozen",
                                ![c].second = TRUE, ![c].round = 0]
    <3>1. cmd'[c].pc \in {"check", "frozen"} /\ cmd'[c].pinned = cmd[c].pinned /\ cmd'[c].work = cmd[c].work
      BY <1>0, <2>1 DEF CommandState
    <3> QED  BY <1>6, <3>1 DEF EndPass, Beside, Carried
  <2>2. CASE cmd' = [cmd EXCEPT ![c].pc = "scan", ![c].round = @ + 1]
    <3>1. cmd'[c].pc = "scan" /\ cmd'[c].pinned = cmd[c].pinned /\ cmd'[c].work = cmd[c].work
      BY <1>0, <2>2 DEF CommandState
    <3> QED  BY <1>6, <3>1 DEF EndPass, Beside, Carried
  <2>3. CASE Fails(c)
    BY <1>6, <2>3, FailsFields, GoesPins DEF EndPass, Beside, Carried
  <2> QED  BY <1>6, <2>1, <2>2, <2>3 DEF EndPass
<1>7. CASE Thaw(c)
  <2>1. CASE cg.there
    <3>1. cmd' = [cmd EXCEPT ![c].pc = "hold", ![c].held = TRUE] /\ cg' = [cg EXCEPT !.freeze = FALSE]
      BY <1>7, <2>1 DEF Thaw
    <3>2. cmd'[c].pc = "hold" /\ cmd'[c].pinned = cmd[c].pinned /\ cmd'[c].work = cmd[c].work
      BY <1>0, <3>1 DEF CommandState
    <3>3. cg'.there = cg.there
      BY <1>0, <3>1
    <3> QED  BY <1>7, <3>2, <3>3 DEF Thaw, Beside, Carried
  <2>2. CASE ~cg.there
    BY <1>7, <2>2, FailsFields, GoesPins DEF Thaw, Beside, Carried
  <2> QED  BY <2>1, <2>2
<1>8. CASE Emptied(c) \/ Signal(c) \/ EndRound(c)
  BY <1>8, GoesFields, GoesPins DEF Emptied, Signal, EndRound, Beside, Carried
<1>9. CASE Undo(c) \/ Unfreeze(c) \/ Detach(c)
  <2>1. cg'.there = cg.there
    BY <1>0, <1>9 DEF Undo, Unfreeze, Detach
  <2> QED  BY <1>9, <2>1, GoesFields, GoesPins DEF Undo, Unfreeze, Detach, Beside, Carried
<1>10. CASE Round(c)
  <2>1. /\ cmd'[c].pc \in {"moveout", "unfreeze"} /\ cmd'[c].pinned = cmd[c].pinned
        /\ cmd'[c].work = cmd[c].work
    BY <1>0, <1>10 DEF Round, CommandState
  <2> QED  BY <1>10, <2>1 DEF Round, Beside, Carried
<1>11. CASE Close(c)
  BY <1>11, EndsFields, EndsPins DEF Close, Beside, Carried
<1> QED
  BY <1>1, <1>2, <1>3, <1>4, <1>5, <1>6, <1>7, <1>8, <1>9, <1>10, <1>11
     DEF Handless, Beside, Carried

LEMMA HandlessStill ==
  ASSUME NEW c \in Command, Handless(c)
  PROVE  (\E p \in Proc : Move(c, p) \/ MoveOut(c, p)) \/ UNCHANGED proc
<1>1. CASE \/ PreflightFails(c) \/ Attach(c) \/ Scan(c) \/ EndPass(c) \/ Frozen(c) \/ NotFrozen(c)
           \/ ActFails(c) \/ Thaw(c)
  BY <1>1 DEF PreflightFails, Attach, Scan, EndPass, Frozen, NotFrozen, ActFails, Thaw
<1>2. CASE \/ Emptied(c) \/ Signal(c) \/ Undo(c) \/ Round(c) \/ EndRound(c) \/ Unfreeze(c)
           \/ Detach(c) \/ Close(c)
  BY <1>2 DEF Emptied, Signal, Undo, Round, EndRound, Unfreeze, Detach, Close
<1> QED  BY <1>1, <1>2 DEF Handless

LEMMA StaysLoose ==
  ASSUME PinsHeld, UNCHANGED sock
  PROVE  Loosens(sock, sock') /\ Bare(<<>>)
BY DEF Loosens, Bare

LEMMA HandlessPins ==
  ASSUME Inv, PinsHeld, NEW c \in Command, Handless(c)
  PROVE  PinsHeld'
<1>0. /\ TypeOK /\ UNCHANGED <<sock, record>> /\ cg'.there = cg.there
      /\ Carried(cmd[c], cmd'[c]) /\ Beside(cmd[c].pc, cmd'[c].pc)
      /\ proc \in [Proc -> Process] /\ cmd[c] \in CommandState
      /\ Tracks(cmd[c], proc, sock) /\ (c \in Contain => Unbound(c, cmd[c], sock))
  BY HandlessSteps, Typed DEF Inv, World, PinsHeld
<1>1. \A o \in Command \ {c} : cmd'[o] = cmd[o]
  <2>1. Step(c) \/ Signal(c) \/ Killed(c)
    BY DEF Handless, Step
  <2> QED  BY <1>0, <2>1, OthersStay
<1>2. Ages(proc, proc')
  <2>1. ASSUME NEW p \in Proc, Move(c, p) \/ MoveOut(c, p)
        PROVE  \A x \in Proc : proc'[x].life = proc[x].life
    <3>1. CASE Move(c, p)
      BY <1>0, <3>1 DEF Move, Process
    <3>2. CASE MoveOut(c, p)
      BY <1>0, <3>2 DEF MoveOut, Process
    <3> QED  BY <2>1, <3>1, <3>2
  <2>2. (\E p \in Proc : Move(c, p) \/ MoveOut(c, p)) \/ UNCHANGED proc
    BY HandlessStill
  <2> QED  BY <2>1, <2>2 DEF Ages, Born
<1> USE DEF Making, Holding, Early, Past, Emptying
<1>3. Bare(<<>>) /\ Loosens(sock, sock')
  BY <1>0, StaysLoose
<1>4. \A w \in cmd[c].work : Born(w[1], proc')
  <2>1. \A w \in cmd[c].work : w[1] \in Proc
    BY <1>0 DEF CommandState
  <2> QED  BY <1>0, <1>2, <2>1 DEF Tracks, Ages
<1>5. Tracks(cmd'[c], proc', sock')
  <2>1. Bare(cmd'[c].pinned) /\ \A w \in cmd'[c].work : Born(w[1], proc')
    BY <1>0, <1>3, <1>4 DEF Carried, Tracks
  <2>2. cmd'[c].pc \in Holding \cup {"undo", "restore"} =>
          cmd[c].pc \in Holding \cup {"undo"} /\ cmd'[c].pinned = cmd[c].pinned
    BY <1>0 DEF Carried, Beside
  <2>3. cmd'[c].pc \in Past => cmd[c].pc \in Past
    BY <1>0 DEF Beside
  <2>4. cmd'[c].pc \notin {"reach", "act"}
    BY <1>0 DEF Beside
  <2> QED  BY <1>0, <2>1, <2>2, <2>3, <2>4 DEF Tracks
<1>6. ASSUME c \in Contain
      PROVE  Unbound(c, cmd'[c], sock')
  <2>1. /\ cmd'[c].pc \in {"idle", "make", "reach"} \cup Early => cmd[c].pc \in Early
        /\ cmd'[c].pc # "act"
    BY <1>0 DEF Beside
  <2> QED  BY <1>0, <1>6, <2>1 DEF Unbound
<1>7. cmd[c].pc \in Making \cup {"undo", "restore"} => cmd'[c].pc \in Making \cup {"undo", "restore"}
  BY <1>0 DEF Beside
<1>8. Bare(record'.pinned)
  BY <1>0 DEF PinsHeld
<1> HIDE DEF Making, Holding, Early, Past, Emptying
<1> QED  BY <1>0, <1>1, <1>2, <1>3, <1>5, <1>6, <1>7, <1>8, TurnPins

\* Who holds what is listed once for each socket.
LEMMA ReadPins ==
  ASSUME Inv, PinsHeld, NEW c \in Command, CheckMembers(c) \/ Reach(c)
  PROVE  PinsHeld'
<1>0. /\ TypeOK /\ cmd \in [Command -> CommandState] /\ cmd[c] \in CommandState
      /\ UNCHANGED <<proc, sock, cg, record>>
      /\ Tracks(cmd[c], proc, sock) /\ (c \in Contain => Unbound(c, cmd[c], sock))
      /\ Loosens(sock, sock') /\ Ages(proc, proc')
  <2>1. UNCHANGED <<proc, sock, cg, record>>
    BY DEF CheckMembers, Reach
  <2> QED  BY <2>1, Typed, StaysLoose DEF Inv, PinsHeld, Ages
<1>1. \A o \in Command \ {c} : cmd'[o] = cmd[o]
  BY <1>0, OthersStay, Zenon DEF Step
<1> USE DEF Making, Holding, Early, Past, Emptying
<1>2. ASSUME Fails(c), cmd[c].pc \in {"check", "reach"}
      PROVE  PinsHeld'
  <2>1. cmd'[c].pc = "undo" /\ cmd'[c].pinned = cmd[c].pinned /\ cmd'[c].work \subseteq cmd[c].work
    BY <1>0, <1>2, FailsFields, GoesPins
  <2>2. Tracks(cmd'[c], proc', sock') /\ Unbound(c, cmd'[c], sock')
    BY <1>0, <1>2, <2>1 DEF Tracks, Unbound
  <2>3. Bare(record'.pinned)
    BY <1>0 DEF PinsHeld
  <2> QED  BY <1>0, <1>1, <1>2, <2>1, <2>2, <2>3, TurnPins
<1>3. CASE CheckMembers(c) /\ cmd' = [cmd EXCEPT ![c].pc = "reach", ![c].work = MembersSockets]
  <2>1. /\ cmd'[c].pc = "reach" /\ cmd'[c].pinned = cmd[c].pinned /\ cmd[c].pc = "check"
        /\ cmd'[c].work = MembersSockets
    BY <1>0, <1>3 DEF CheckMembers, CommandState
  <2>2. \A w \in MembersSockets : w[1] \in Proc /\ w[1] \in Members /\ w[2] \in Sock
    BY DEF MembersSockets
  <2>3. \A w \in MembersSockets : Born(w[1], proc)
    BY <2>2 DEF Members, Alive, Born
  <2>4. ASSUME NEW v \in MembersSockets, NEW w \in MembersSockets, v[2] = w[2]
        PROVE  v = w
    <3>1. v[1] =< w[1] /\ w[1] =< v[1] /\ v[1] \in Nat /\ w[1] \in Nat
      BY <2>4, ContainAssumption DEF MembersSockets
    <3>2. v = <<v[1], v[2]>> /\ w = <<w[1], w[2]>>
      BY DEF MembersSockets
    <3> QED  BY <2>4, <3>1, <3>2
  <2>5. Tracks(cmd'[c], proc', sock')
    BY <1>0, <2>1, <2>3, <2>4 DEF Tracks
  <2>6. c \in Contain => Unbound(c, cmd'[c], sock')
    BY <1>0, <2>1 DEF Unbound
  <2>7. Bare(record'.pinned)
    BY <1>0 DEF PinsHeld
  <2> QED  BY <1>0, <1>1, <2>1, <2>5, <2>6, <2>7, TurnPins
<1>4. CASE Reach(c) /\ cmd' = [cmd EXCEPT ![c].pc = "act",
            ![c].work = {w \in {w \in cmd[c].work : w[1] \in sock[w[2]].by} : Action(w[2]) # "keep"}]
  <2>1. /\ cmd'[c].pc = "act" /\ cmd'[c].pinned = cmd[c].pinned /\ cmd[c].pc = "reach"
        /\ cmd'[c].work \subseteq cmd[c].work
    BY <1>0, <1>4 DEF Reach, CommandState
  <2>2. Tracks(cmd'[c], proc', sock')
    BY <1>0, <2>1 DEF Tracks
  <2>3. \A w \in cmd[c].work : w[2] \in Sock
    BY <1>0 DEF CommandState
  <2>4. c \in Contain => Unbound(c, cmd'[c], sock')
    BY <1>0, <2>1, <2>3 DEF Unbound
  <2>5. Bare(record'.pinned)
    BY <1>0 DEF PinsHeld
  <2> QED  BY <1>0, <1>1, <2>1, <2>2, <2>4, <2>5, TurnPins
<1> QED  BY <1>2, <1>3, <1>4 DEF CheckMembers, Reach

LEMMA PinsMore ==
  ASSUME NEW s \in Seq(Pin), NEW pin \in Pin, pin.was = None, Bare(s)
  PROVE  /\ Bare(Append(s, pin))
         /\ \A i \in DOMAIN s : i \in DOMAIN Append(s, pin) /\ Append(s, pin)[i] = s[i]
         /\ \E i \in DOMAIN Append(s, pin) : Append(s, pin)[i] = pin
<1>1. /\ DOMAIN s = 1..Len(s) /\ Len(s) \in Nat
      /\ Append(s, pin) \in Seq(Pin) /\ DOMAIN Append(s, pin) = 1..(Len(s) + 1)
      /\ \A i \in 1..Len(s) : Append(s, pin)[i] = s[i]
      /\ Append(s, pin)[Len(s) + 1] = pin
  OBVIOUS
<1> QED  BY <1>1 DEF Bare

LEMMA PinsLess ==
  ASSUME NEW s \in Seq(Pin), s # <<>>, Bare(s)
  PROVE  /\ Bare(Tail(s)) /\ Head(s) \in Pin /\ Head(s).was = None
         /\ \A i \in DOMAIN s : s[i] = Head(s) \/ \E j \in DOMAIN Tail(s) : Tail(s)[j] = s[i]
<1>1. /\ DOMAIN s = 1..Len(s) /\ Len(s) \in Nat /\ Len(s) # 0 /\ Head(s) = s[1]
      /\ DOMAIN Tail(s) = 1..(Len(s) - 1)
      /\ \A i \in 1..(Len(s) - 1) : Tail(s)[i] = s[i + 1]
  OBVIOUS
<1>2. \A i \in 1..Len(s) : i = 1 \/ (i - 1 \in 1..(Len(s) - 1) /\ Tail(s)[i - 1] = s[i])
  BY <1>1
<1>3. Bare(Tail(s))
  BY <1>1 DEF Bare
<1>4. Head(s) \in Pin /\ Head(s).was = None
  BY <1>1 DEF Bare
<1> QED  BY <1>1, <1>2, <1>3, <1>4

\* What is pinned goes on the list, with a binding that was none.
LEMMA ActPins ==
  ASSUME Inv, Device = {}, PinsHeld, NEW c \in Command, NEW w \in cmd[c].work, Act(c, w)
  PROVE  PinsHeld'
<1>0. /\ TypeOK /\ cmd \in [Command -> CommandState] /\ cmd[c] \in CommandState
      /\ sock \in [Sock -> Socket] /\ cmd[c].pc = "act" /\ cg.there
      /\ c \in Contain /\ UNCHANGED <<proc, cg, record>>
      /\ Tracks(cmd[c], proc, sock) /\ Unbound(c, cmd[c], sock)
  BY Typed DEF Inv, World, Act, Local, SetUp, Steered, PinsHeld
<1>1. \A o \in Command \ {c} : cmd'[o] = cmd[o] /\ ~Live(o)
  <2>1. \A o \in Command \ {c} : cmd'[o] = cmd[o]
    BY <1>0, OthersStay, Zenon DEF Step
  <2> QED  BY <1>0, <2>1 DEF Inv, Alone, Live
<1> DEFINE x == w[2]
           pin == [by |-> w[1], sock |-> x, was |-> ReadBinding(x)]
<1>2. w = <<w[1], x>> /\ w[1] \in Proc /\ x \in Sock /\ sock[x] \in Socket
  BY <1>0 DEF CommandState
<1>3. ReadBinding(x) = None
  <2>1. sock[x].bind \in Contain \cup {None} /\ sock[x].bind # c
    BY <1>0, <1>2 DEF Socket, Binding, Unbound
  <2> QED  BY <1>1, <2>1 DEF ReadBinding, Command
<1>4. pin \in Pin /\ pin.was = None /\ pin.sock = x /\ pin.by = w[1]
  BY <1>2, <1>3 DEF Pin, Binding
<1> HIDE DEF pin, x
<1>5. /\ \A y \in Sock \ {x} : sock'[y] = sock[y]
      /\ sock'[x].bind = c /\ sock'[x].own = sock[x].own
      /\ \/ sock'[x].shut /\ sock'[x].under = sock[x].under /\ cmd'[c].pinned = cmd[c].pinned
         \/ sock'[x].under = w[1] /\ cmd'[c].pinned = Append(cmd[c].pinned, pin)
      /\ cmd'[c].pc = "act" /\ cmd'[c].work = cmd[c].work \ {w}
  <2>1. CASE Action(x) = "cut"
    <3>1. /\ sock' = [sock EXCEPT ![x].bind = c, ![x].shut = TRUE]
          /\ cmd' = [cmd EXCEPT ![c].work = @ \ {w}]
      BY <2>1 DEF Act, x
    <3>2. /\ \A y \in Sock \ {x} : sock'[y] = sock[y]
          /\ sock'[x].bind = c /\ sock'[x].own = sock[x].own
          /\ sock'[x].shut /\ sock'[x].under = sock[x].under
      BY <1>0, <1>2, <3>1 DEF Socket
    <3>3. cmd'[c].pinned = cmd[c].pinned /\ cmd'[c].pc = "act" /\ cmd'[c].work = cmd[c].work \ {w}
      BY <1>0, <3>1 DEF CommandState
    <3> QED  BY <3>2, <3>3
  <2>2. CASE Action(x) # "cut"
    <3>1. /\ sock' = [sock EXCEPT ![x].bind = c, ![x].under = w[1]]
          /\ cmd' = [cmd EXCEPT ![c].work = @ \ {w}, ![c].pinned = Append(@, pin)]
      BY <2>2 DEF Act, x, pin
    <3>2. /\ \A y \in Sock \ {x} : sock'[y] = sock[y]
          /\ sock'[x].bind = c /\ sock'[x].own = sock[x].own /\ sock'[x].under = w[1]
      BY <1>0, <1>2, <3>1 DEF Socket
    <3>3. /\ cmd'[c].pinned = Append(cmd[c].pinned, pin) /\ cmd'[c].pc = "act"
          /\ cmd'[c].work = cmd[c].work \ {w}
      BY <1>0, <3>1 DEF CommandState
    <3> QED  BY <3>2, <3>3
  <2> QED  BY <2>1, <2>2
<1>6. /\ Bare(cmd'[c].pinned)
      /\ \A i \in DOMAIN cmd[c].pinned : i \in DOMAIN cmd'[c].pinned /\ cmd'[c].pinned[i] = cmd[c].pinned[i]
      /\ sock'[x].shut \/ \E i \in DOMAIN cmd'[c].pinned : cmd'[c].pinned[i] = pin
  <2>1. cmd[c].pinned \in Seq(Pin) /\ Bare(cmd[c].pinned)
    BY <1>0 DEF CommandState, Tracks
  <2>2. CASE sock'[x].shut /\ cmd'[c].pinned = cmd[c].pinned
    BY <2>1, <2>2
  <2>3. CASE cmd'[c].pinned = Append(cmd[c].pinned, pin)
    <3> DEFINE ps == cmd[c].pinned
               qs == Append(ps, pin)
    <3>1. /\ Bare(qs)
          /\ \A i \in DOMAIN ps : i \in DOMAIN qs /\ qs[i] = ps[i]
          /\ \E i \in DOMAIN qs : qs[i] = pin
      <4> HIDE DEF ps
      <4>1. ps \in Seq(Pin) /\ Bare(ps)
        BY <2>1 DEF ps
      <4> QED  BY <1>4, <4>1, PinsMore
    <3>2. cmd'[c].pinned = qs
      BY <2>3
    <3> HIDE DEF qs
    <3> QED  BY <3>1, <3>2
  <2> QED  BY <1>5, <2>2, <2>3
<1>7. Covers(cmd'[c].pinned, sock')
  <2> SUFFICES ASSUME NEW y \in Sock, Pinned(y, sock')
               PROVE  \E i \in DOMAIN cmd'[c].pinned :
                        cmd'[c].pinned[i].sock = y /\ cmd'[c].pinned[i].by = sock'[y].under
    BY DEF Covers
  <2>1. CASE y = x
    BY <1>4, <1>5, <1>6, <2>1 DEF Pinned
  <2>2. CASE y # x
    <3>1. Pinned(y, sock) /\ sock'[y].under = sock[y].under
      BY <1>5, <2>2 DEF Pinned
    <3>2. PICK i \in DOMAIN cmd[c].pinned : cmd[c].pinned[i].sock = y /\ cmd[c].pinned[i].by = sock[y].under
      BY <1>0, <3>1 DEF Tracks, Covers, Holding, Making
    <3> QED  BY <1>6, <3>1, <3>2
  <2> QED  BY <2>1, <2>2
<1> USE DEF Making, Holding, Early, Past, Emptying
<1>8. Tracks(cmd'[c], proc', sock')
  BY <1>0, <1>5, <1>6, <1>7 DEF Tracks
<1>9. Unbound(c, cmd'[c], sock')
  <2>1. \A v \in cmd'[c].work : v[2] \in Sock /\ v[2] # x /\ sock[v[2]].bind # c
    BY <1>0, <1>5 DEF Tracks, Unbound, CommandState, x
  <2> QED  BY <1>5, <2>1 DEF Unbound
<1>10. \A o \in Command \ {c} : Tracks(cmd'[o], proc', sock')
  BY <1>0, <1>1 DEF PinsHeld, Tracks, Live
<1>11. ASSUME NEW o \in Contain \ {c}
       PROVE  Unbound(o, cmd'[o], sock')
  <2>1. cmd'[o] = cmd[o] /\ ~Live(o) /\ Unbound(o, cmd[o], sock)
    BY <1>1 DEF PinsHeld, Command
  <2>2. \A y \in Sock : sock'[y].bind = sock[y].bind \/ sock'[y].bind = c
    BY <1>5
  <2> QED  BY <2>1, <2>2 DEF Unbound, Live
<1>12. ASSUME NEW y \in Sock
       PROVE  sock'[y].own = None /\ (sock'[y].under = 0 \/ Born(sock'[y].under, proc'))
  BY <1>0, <1>5 DEF PinsHeld, Tracks
<1> QED  BY <1>0, <1>5, <1>8, <1>9, <1>10, <1>11, <1>12 DEF PinsHeld

\* What comes off the list is pinned no more, or not under him it was found under.
LEMMA RestorePins ==
  ASSUME Inv, PinsHeld, NEW c \in Command, Restore(c)
  PROVE  PinsHeld'
<1>0. /\ TypeOK /\ cmd \in [Command -> CommandState] /\ cmd[c] \in CommandState
      /\ sock \in [Sock -> Socket] /\ cmd[c].pc = "restore"
      /\ UNCHANGED <<proc, cg, record>> /\ Bare(record'.pinned)
      /\ Tracks(cmd[c], proc, sock) /\ Ages(proc, proc')
      /\ \A x \in Sock : sock[x].own = None
  BY Typed DEF Inv, World, Restore, PinsHeld, Ages
<1>1. \A o \in Command \ {c} : cmd'[o] = cmd[o]
  BY <1>0, OthersStay, Zenon DEF Step
<1> USE DEF Making, Holding, Early, Past, Emptying
<1>2. Covers(cmd[c].pinned, sock)
  BY <1>0 DEF Tracks
<1>3. CASE cmd[c].pinned = <<>>
  <2>1. Goes(c, "out") /\ UNCHANGED sock
    BY <1>3 DEF Restore
  <2>2. cmd'[c].pc = "out" /\ cmd'[c].pinned = cmd[c].pinned /\ cmd'[c].work \subseteq cmd[c].work
    BY <1>0, <2>1, GoesFields, GoesPins
  <2>3. \A x \in Sock : ~Pinned(x, sock)
    BY <1>2, <1>3 DEF Covers
  <2>4. Tracks(cmd'[c], proc', sock') /\ Unbound(c, cmd'[c], sock') /\ Covers(record'.pinned, sock')
    BY <1>0, <2>1, <2>2, <2>3 DEF Tracks, Unbound, Covers, Pinned
  <2>5. Loosens(sock, sock')
    BY <2>1, StaysLoose
  <2> QED  BY <1>0, <1>1, <2>4, <2>5, TurnPins
<1>4. CASE cmd[c].pinned # <<>>
  <2> DEFINE ps == cmd[c].pinned
             h == Head(ps)
  <2>1. ps \in Seq(Pin) /\ ps # <<>> /\ Bare(ps) /\ Covers(ps, sock)
    BY <1>0, <1>2, <1>4 DEF CommandState, Tracks
  <2>2. /\ sock' = IF h.by \in sock[h.sock].by THEN [sock EXCEPT ![h.sock].bind = h.was] ELSE sock
        /\ cmd' = [cmd EXCEPT ![c].pinned = Tail(@)]
    BY <1>4 DEF Restore
  <2>3. cmd'[c].pc = "restore" /\ cmd'[c].pinned = Tail(ps) /\ cmd'[c].work = cmd[c].work
    BY <1>0, <2>2 DEF CommandState
  <2> HIDE DEF ps
  <2>4. /\ Bare(Tail(ps)) /\ h \in Pin /\ h.was = None
        /\ \A i \in DOMAIN ps : ps[i] = h \/ \E j \in DOMAIN Tail(ps) : Tail(ps)[j] = ps[i]
    BY <2>1, PinsLess
  <2> HIDE DEF h
  <2>5. h.sock \in Sock /\ h.by \in Proc
    BY <2>4 DEF Pin
  <2>6. /\ \A y \in Sock : /\ sock'[y].own = sock[y].own /\ sock'[y].shut = sock[y].shut
                           /\ sock'[y].under = sock[y].under /\ sock'[y].by = sock[y].by
                           /\ sock'[y].bind \in {sock[y].bind, None}
        /\ h.by \in sock[h.sock].by => sock'[h.sock].bind = None
    <3>1. CASE h.by \in sock[h.sock].by
      <4>1. sock' = [sock EXCEPT ![h.sock].bind = None]
        BY <2>2, <2>4, <3>1
      <4> QED  BY <1>0, <2>5, <4>1 DEF Socket
    <3>2. CASE h.by \notin sock[h.sock].by
      BY <2>2, <3>2
    <3> QED  BY <3>1, <3>2
  <2>7. Loosens(sock, sock')
    BY <1>0, <2>6 DEF Loosens, Pinned
  <2>8. Covers(Tail(ps), sock')
    <3> SUFFICES ASSUME NEW y \in Sock, Pinned(y, sock')
                 PROVE  \E j \in DOMAIN Tail(ps) : Tail(ps)[j].sock = y /\ Tail(ps)[j].by = sock'[y].under
      BY DEF Covers
    <3>1. Pinned(y, sock) /\ sock'[y].under = sock[y].under
      BY <2>7 DEF Loosens
    <3>2. PICK i \in DOMAIN ps : ps[i].sock = y /\ ps[i].by = sock[y].under
      BY <2>1, <3>1 DEF Covers
    <3>3. ps[i] # h
      BY <1>0, <2>6, <3>1, <3>2 DEF Pinned
    <3> QED  BY <2>4, <3>1, <3>2, <3>3
  <2>9. Tracks(cmd'[c], proc', sock') /\ Unbound(c, cmd'[c], sock')
    BY <1>0, <2>3, <2>4, <2>8 DEF Tracks, Unbound
  <2> QED  BY <1>0, <1>1, <2>3, <2>7, <2>9, TurnPins
<1> QED  BY <1>3, <1>4

LEMMA MakeCgroupPins ==
  ASSUME Inv, PinsHeld, NEW c \in Command, MakeCgroup(c)
  PROVE  PinsHeld'
<1>0. /\ TypeOK /\ cmd \in [Command -> CommandState] /\ cmd[c] \in CommandState
      /\ cg \in [there : BOOLEAN, freeze : BOOLEAN, gate : BOOLEAN]
      /\ UNCHANGED <<proc, sock, record>> /\ cmd[c].pc = "make" /\ Bare(record'.pinned)
      /\ Tracks(cmd[c], proc, sock) /\ Ages(proc, proc')
      /\ cg' = [cg EXCEPT !.there = TRUE, !.freeze = TRUE]
      /\ cmd' = [cmd EXCEPT ![c].pc = "attach", ![c].found = Members,
                            ![c].origin = record.origin, ![c].pinned = record.pinned]
  BY Typed DEF Inv, World, MakeCgroup, PinsHeld, Ages
<1>1. \A o \in Command \ {c} : cmd'[o] = cmd[o]
  BY <1>0, OthersStay, Zenon DEF Step
<1>2. cmd'[c].pc = "attach" /\ cmd'[c].pinned = record.pinned /\ cmd'[c].work = cmd[c].work
  BY <1>0 DEF CommandState
<1>3. cg'.there
  BY <1>0
<1> USE DEF Making, Holding, Early, Past, Emptying
<1>4. c \in Contain /\ Live(c) /\ \A o \in Command \ {c} : ~Live(o)
  BY <1>0 DEF Inv, Local, SetUp, Alone, Live
<1>5. Covers(record.pinned, sock)
  <2>1. \A o \in Contain : cmd[o].pc \notin Making \cup {"undo", "restore"}
    BY <1>0, <1>4 DEF Live, Command
  <2> QED  BY <2>1 DEF PinsHeld
<1>6. Tracks(cmd'[c], proc', sock')
  BY <1>0, <1>2, <1>5 DEF Tracks
<1>7. Unbound(c, cmd'[c], sock')
  BY <1>0, <1>2, <1>4 DEF PinsHeld, Unbound
<1>8. Loosens(sock, sock')
  BY <1>0, StaysLoose
<1> HIDE DEF Making, Holding, Early, Past, Emptying
<1> QED  BY <1>0, <1>1, <1>3, <1>5, <1>6, <1>7, <1>8, TurnPins

LEMMA RecordPins ==
  ASSUME Inv, PinsHeld, NEW c \in Command, WriteRecord(c) \/ Remove(c)
  PROVE  PinsHeld'
<1>0. /\ TypeOK /\ cmd \in [Command -> CommandState] /\ cmd[c] \in CommandState
      /\ UNCHANGED <<proc, sock>> /\ Tracks(cmd[c], proc, sock)
      /\ Loosens(sock, sock') /\ Ages(proc, proc') /\ Bare(<<>>)
  <2>1. UNCHANGED <<proc, sock>>
    BY DEF WriteRecord, Remove
  <2> QED  BY <2>1, Typed, StaysLoose DEF Inv, PinsHeld, Ages
<1>1. \A o \in Command \ {c} : cmd'[o] = cmd[o]
  BY <1>0, OthersStay, Zenon DEF Step
<1> USE DEF Making, Holding, Early, Past, Emptying
<1>2. CASE WriteRecord(c)
  <2>1. /\ record' = [there |-> TRUE, origin |-> cmd[c].origin, pinned |-> cmd[c].pinned]
        /\ UNCHANGED cg /\ cmd[c].pc = "act" /\ Goes(c, "thaw")
    BY <1>2 DEF WriteRecord
  <2>2. cmd'[c].pc = "thaw" /\ cmd'[c].pinned = cmd[c].pinned /\ cmd'[c].work \subseteq cmd[c].work
    BY <1>0, <2>1, GoesFields, GoesPins
  <2>3. Tracks(cmd'[c], proc', sock') /\ Unbound(c, cmd'[c], sock')
    BY <1>0, <2>1, <2>2 DEF Tracks, Unbound
  <2>4. Bare(record'.pinned) /\ Covers(record'.pinned, sock')
    BY <1>0, <2>1 DEF Tracks
  <2> QED  BY <1>0, <1>1, <2>1, <2>3, <2>4, TurnPins
<1>3. CASE Remove(c)
  <2>1. record'.pinned = <<>> /\ cmd[c].pc = "remove" /\ Goes(c, "close")
    BY <1>3 DEF Remove, NoRecord
  <2>2. cmd'[c].pc = "close" /\ cmd'[c].pinned = cmd[c].pinned /\ cmd'[c].work \subseteq cmd[c].work
    BY <1>0, <2>1, GoesFields, GoesPins
  <2>3. \A x \in Sock : ~Pinned(x, sock')
    BY <1>0, <2>1 DEF Tracks, Pinned
  <2>4. Tracks(cmd'[c], proc', sock') /\ Unbound(c, cmd'[c], sock')
    BY <1>0, <2>1, <2>2 DEF Tracks, Unbound
  <2>5. Bare(record'.pinned) /\ Covers(record'.pinned, sock')
    BY <1>0, <2>1, <2>3 DEF Covers
  <2> QED  BY <1>0, <1>1, <2>1, <2>3, <2>4, <2>5, TurnPins
<1> QED  BY <1>2, <1>3

\* Killed where its record says all that it has pinned.
LEMMA KilledPins ==
  ASSUME Inv, PinsHeld, Killable \subseteq Recorded, NEW c \in Command, Killed(c)
  PROVE  PinsHeld'
<1>0. /\ TypeOK /\ UNCHANGED <<proc, sock, cg, record>> /\ Bare(record'.pinned)
      /\ cmd[c].pc \in Recorded /\ Ends(c, "killed")
      /\ Loosens(sock, sock') /\ Ages(proc, proc') /\ Bare(<<>>)
  <2>1. UNCHANGED <<proc, sock, cg, record>>
    BY DEF Killed
  <2> QED  BY <2>1, StaysLoose DEF Inv, Killed, PinsHeld, Ages
<1>1. \A o \in Command \ {c} : cmd'[o] = cmd[o]
  BY <1>0, OthersStay
<1>2. cmd'[c].pc = "killed" /\ cmd'[c].pinned = <<>> /\ cmd'[c].work = {}
  BY <1>0, EndsFields, EndsPins
<1>3. Tracks(cmd'[c], proc', sock') /\ Unbound(c, cmd'[c], sock')
  BY <1>0, <1>2 DEF Tracks, Unbound, Making, Holding, Early, Past, Emptying
<1>4. cmd[c].pc \notin Making \cup {"undo", "restore"}
  BY <1>0 DEF Recorded, Making
<1> QED  BY <1>0, <1>1, <1>3, <1>4, TurnPins

LEMMA BeginPins ==
  ASSUME Inv, ~Careless, PinsHeld, NEW c \in Command, NEW p \in Proc,
         StartContain(c, p) \/ StartRelease(c, p)
  PROVE  PinsHeld'
<1>0. /\ TypeOK /\ cmd \in [Command -> CommandState] /\ cmd[c] \in CommandState
      /\ UNCHANGED <<proc, sock, cg, record>> /\ cmd[c].pc = "idle" /\ Bare(record'.pinned)
      /\ Tracks(cmd[c], proc, sock) /\ (c \in Contain => Unbound(c, cmd[c], sock))
      /\ Loosens(sock, sock') /\ Ages(proc, proc')
  <2>1. UNCHANGED <<proc, sock, cg, record>> /\ cmd[c].pc = "idle"
    BY DEF StartContain, StartRelease
  <2> QED  BY <2>1, Typed, StaysLoose DEF Inv, PinsHeld, Ages
<1>1. \A o \in Command \ {c} : cmd'[o] = cmd[o]
  BY <1>0 DEF StartContain, StartRelease
<1> USE DEF Making, Holding, Early, Past, Emptying
<1>2. CASE StartContain(c, p)
  <2>1. cmd'[c].pc = "make" /\ cmd'[c].pinned = cmd[c].pinned /\ cmd'[c].work = cmd[c].work
    BY <1>0, <1>2 DEF StartContain, CommandState
  <2>2. Tracks(cmd'[c], proc', sock')
    BY <1>0, <2>1 DEF Tracks
  <2>3. c \in Contain => Unbound(c, cmd'[c], sock')
    BY <1>0, <2>1 DEF Unbound
  <2> QED  BY <1>0, <1>1, <2>2, <2>3, TurnPins
<1>3. CASE StartRelease(c, p)
  <2>1. cmd'[c].pc = "undo" /\ cmd'[c].pinned = record.pinned /\ cmd'[c].work = cmd[c].work
    BY <1>0, <1>3 DEF StartRelease, CommandState
  <2>2. \A o \in Contain : cmd[o].pc \notin Making \cup {"undo", "restore"}
    BY <1>3 DEF StartRelease, Live
  <2>3. Covers(record.pinned, sock)
    BY <2>2 DEF PinsHeld
  <2>4. Tracks(cmd'[c], proc', sock')
    BY <1>0, <2>1, <2>3 DEF Tracks
  <2>5. c \in Contain => Unbound(c, cmd'[c], sock')
    BY <2>1 DEF Unbound
  <2> QED  BY <1>0, <1>1, <2>4, <2>5, TurnPins
<1> QED  BY <1>2, <1>3

LEMMA InitPins ==
  ASSUME Init, Device = {}
  PROVE  PinsHeld
<1>1. \A x \in Sock : sock[x].bind = None /\ sock[x].own = None /\ sock[x].under = 0
  <2> TAKE x \in Sock
  <2>1. sock[x] \in {Unmade} \cup {Held(P, d) : P \in Holders, d \in {None}}
    BY DEF Init
  <2>2. \A P : Held(P, None).bind = None /\ Held(P, None).own = None /\ Held(P, None).under = 0
    BY DEF Held, Unmade
  <2> QED  BY <2>1, <2>2 DEF Unmade
<1>2. \A x \in Sock : ~Pinned(x, sock)
  BY <1>1 DEF Pinned
<1>3. \A c \in Command : cmd[c].pc = "idle" /\ cmd[c].pinned = <<>> /\ cmd[c].work = {}
  BY DEF Init, NewCommand
<1>4. \A c \in Command : Tracks(cmd[c], proc, sock)
  BY <1>3 DEF Tracks, Bare, Making, Holding, Past, Emptying
<1>5. \A c \in Contain : Unbound(c, cmd[c], sock)
  BY <1>1, <1>3, ContainAssumption DEF Unbound, Command
<1>6. Bare(record.pinned) /\ Covers(record.pinned, sock)
  BY <1>2 DEF Init, NoRecord, Bare, Covers
<1> QED  BY <1>1, <1>2, <1>4, <1>5, <1>6 DEF PinsHeld

LEMMA NextPins ==
  ASSUME Inv, PinsHeld, ~Careless, Killable \subseteq Recorded, Device = {}, [Next]_vars
  PROVE  PinsHeld'
<1>1. CASE Processes
  BY <1>1, ProcessPins DEF Inv
<1>2. ASSUME NEW c \in Command, Step(c) \/ Signal(c) \/ Killed(c)
      PROVE  PinsHeld'
  <2>1. \/ Handless(c) \/ CheckMembers(c) \/ Reach(c) \/ (\E w \in cmd[c].work : Act(c, w))
        \/ Restore(c) \/ MakeCgroup(c) \/ WriteRecord(c) \/ Remove(c) \/ Killed(c)
    BY <1>2 DEF Step, Handless
  <2> QED  BY <2>1, HandlessPins, ReadPins, ActPins, RestorePins, MakeCgroupPins, RecordPins, KilledPins
<1>3. ASSUME NEW c \in Command, NEW p \in Proc, StartContain(c, p) \/ StartRelease(c, p)
      PROVE  PinsHeld'
  BY <1>3, BeginPins
<1>4. CASE UNCHANGED vars
  BY <1>4 DEF vars, PinsHeld
<1> QED  BY <1>1, <1>2, <1>3, <1>4 DEF Next

-----------------------------------------------------------------------------
(* A cgroup with members is there: rmdir refuses it.                       *)

Housed == MembersOf(proc) # {} => cg.there

LEMMA NextHoused ==
  ASSUME Inv, Housed, [Next]_vars
  PROVE  Housed'
<1>0. /\ TypeOK /\ proc \in [Proc -> Process] /\ scopes \subseteq Scope
      /\ cg \in [there : BOOLEAN, freeze : BOOLEAN, gate : BOOLEAN]
  BY Typed DEF Inv, World
<1> SUFFICES ASSUME MembersOf(proc') # {}  PROVE cg'.there
  BY DEF Housed
<1>1. ASSUME MembersOf(proc') \subseteq MembersOf(proc), cg'.there = cg.there
      PROVE  cg'.there
  BY <1>1 DEF Housed
<1>2. CASE Processes
  <2>1. UNCHANGED cg
    BY <1>0, <1>2, ProcessDrifts
  <2>2. ASSUME NEW p \in Proc, NEW q \in Proc, Fork(p, q)
        PROVE  cg'.there
    <3>1. PICK new : new = [life |-> "alive", parent |-> p, at |-> proc[p].at, home |-> None]
      OBVIOUS
    <3>2. proc' = [proc EXCEPT ![q] = new] /\ proc[p].life = "alive"
      BY <2>2, <3>1 DEF Fork, Alive
    <3>3. \A x \in Proc \ {q} : proc'[x] = proc[x]
      BY <1>0, <3>2
    <3>4. q \in MembersOf(proc') => p \in MembersOf(proc)
      BY <1>0, <3>1, <3>2 DEF MembersOf
    <3> QED  BY <2>1, <3>3, <3>4 DEF Housed, MembersOf
  <2>3. ASSUME NEW p \in Proc, Exit(p)
        PROVE  cg'.there
    <3>1. \A x \in Proc : proc'[x].life = "alive" => proc'[x].at = proc[x].at /\ proc[x].life = "alive"
      BY <1>0, <2>3 DEF Exit, Absent, Process
    <3> QED  BY <1>1, <2>1, <3>1 DEF MembersOf
  <2>4. CASE UNCHANGED proc
    BY <1>1, <2>1, <2>4
  <2> QED  BY <1>2, <2>2, <2>3, <2>4 DEF Processes, Freezes, Open, CloseSocket, ScopeGoes
<1>3. ASSUME NEW c \in Command, Handless(c)
      PROVE  cg'.there
  <2>1. cg'.there = cg.there
    BY <1>0, <1>3, HandlessSteps
  <2>2. ASSUME NEW p \in Proc, Move(c, p)
        PROVE  cg'.there
    <3>1. cg.there \/ UNCHANGED proc
      BY <2>2 DEF Move
    <3> QED  BY <1>1, <2>1, <3>1
  <2>3. ASSUME NEW p \in Proc, MoveOut(c, p)
        PROVE  cg'.there
    <3>1. PlaceFor(c, p) # Inside
      BY <1>0, ContainAssumption DEF PlaceFor
    <3>2. \A x \in Proc : proc'[x].life = proc[x].life /\ (x # p => proc'[x].at = proc[x].at)
                          /\ proc'[p].at \in {proc[p].at, PlaceFor(c, p)}
      BY <1>0, <2>3 DEF MoveOut, Process
    <3>3. proc'[p].at = Inside => proc[p].at = Inside
      BY <3>1, <3>2
    <3> QED  BY <1>1, <2>1, <3>2, <3>3 DEF MembersOf
  <2>4. (\E p \in Proc : Move(c, p) \/ MoveOut(c, p)) \/ UNCHANGED proc
    BY <1>3, HandlessStill
  <2> QED  BY <1>1, <2>1, <2>2, <2>3, <2>4
<1>4. ASSUME NEW c \in Command, MakeCgroup(c)
      PROVE  cg'.there
  BY <1>0, <1>4 DEF MakeCgroup
<1>5. ASSUME NEW c \in Command, Remove(c)
      PROVE  cg'.there
  <2>1. UNCHANGED proc /\ cg' = [cg EXCEPT !.there = @ /\ Members # {}]
    BY <1>5 DEF Remove
  <2> QED  BY <1>0, <2>1, MembersAre DEF Housed
<1>6. ASSUME NEW c \in Command,
             \/ CheckMembers(c) \/ Reach(c) \/ (\E w \in cmd[c].work : Act(c, w))
             \/ Restore(c) \/ WriteRecord(c) \/ Killed(c)
             \/ \E p \in Proc : StartContain(c, p) \/ StartRelease(c, p)
      PROVE  cg'.there
  <2>1. UNCHANGED <<proc, cg>>
    BY <1>6 DEF CheckMembers, Reach, Act, Restore, WriteRecord, Killed, StartContain, StartRelease
  <2> QED  BY <1>1, <2>1
<1>7. CASE UNCHANGED vars
  BY <1>1, <1>7 DEF vars
<1>8. ASSUME NEW c \in Command, Step(c) \/ Signal(c) \/ Killed(c)
      PROVE  \/ Handless(c) \/ CheckMembers(c) \/ Reach(c) \/ (\E w \in cmd[c].work : Act(c, w))
             \/ Restore(c) \/ MakeCgroup(c) \/ WriteRecord(c) \/ Remove(c) \/ Killed(c)
  BY <1>8 DEF Step, Handless
<1> QED  BY <1>2, <1>3, <1>4, <1>5, <1>6, <1>7, <1>8 DEF Next

LEMMA HeldPutBack ==
  ASSUME BackHeld, PinsHeld, Housed
  PROVE  PutBack
<1>1. CASE cg.there
  BY <1>1 DEF PutBack, MembersPutBack
<1>2. CASE ~cg.there
  <2>1. MembersOf(proc) = {}
    BY <1>2 DEF Housed
  <2>2. MembersPutBack
    BY <2>1 DEF BackHeld, Placed, Lives, HomeOf, MembersPutBack, Alive
  <2>3. \A x \in Sock : ~Pinned(x, sock)
    BY <1>2 DEF PinsHeld
  <2> QED  BY <2>2, <2>3 DEF PutBack, Pinned
<1> QED  BY <1>1, <1>2

\* Release (contain_linux.go:555) and pinnedSock (:66), for every tree, whatever
\* forks, exits, opens and closes meanwhile: once the cgroup is gone, everybody
\* moved in is back where he came from, or at the root's when that place is gone,
\* and what is still held under who held it is bound as it was. A command may be
\* killed wherever the record says what it did: before makeCgroup, from
\* writeRecord (:216) on, and as the tunnel closes. On a host with programs that
\* bind to a device, a take-over puts back less (README, "Where code and comments part").
THEOREM AllPutBack ==
  ASSUME ~Careless, Killable \subseteq Recorded, Device = {}
  PROVE  Spec => []PutBack
<1>1. Init => Inv /\ BackHeld /\ PinsHeld /\ Housed
  <2> SUFFICES ASSUME Init  PROVE Inv /\ BackHeld /\ PinsHeld /\ Housed
    OBVIOUS
  <2>1. \A p \in Proc : proc[p] \in {Absent("unborn")} \cup Found
    BY DEF Init
  <2>2. \A p \in Proc : proc[p].life = "alive" => proc[p].at # Inside
    BY <2>1, ContainAssumption DEF Absent, Found
  <2>3. MembersOf(proc) = {}
    BY <2>2 DEF MembersOf
  <2> QED  BY <2>3, InitInv, InitBack, InitPins DEF Housed
<1>2. Inv /\ BackHeld /\ PinsHeld /\ Housed /\ [Next]_vars
        => Inv' /\ BackHeld' /\ PinsHeld' /\ Housed'
  <2> SUFFICES ASSUME Inv, BackHeld, PinsHeld, Housed, [Next]_vars
               PROVE  Inv' /\ BackHeld' /\ PinsHeld' /\ Housed'
    OBVIOUS
  <2>1. Inv'
    BY NextInv
  <2> QED  BY <2>1, NextBack, NextPins, NextHoused
<1>3. BackHeld /\ PinsHeld /\ Housed => PutBack
  BY HeldPutBack
<1> QED  BY <1>1, <1>2, <1>3, PTL DEF Spec
=============================================================================
