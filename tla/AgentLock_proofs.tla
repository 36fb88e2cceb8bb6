--------------------------- MODULE AgentLock_proofs ---------------------------
(***************************************************************************)
(* Theorems about AgentLock, for any number of runs and connects, any mix  *)
(* of accounts and selectors, and a box that marks peers or does not.      *)
(***************************************************************************)
EXTENDS AgentLock, TLAPS

Modes == {"none", "shared", "exclusive"}

\* Where a process with the lock mode f may be. A process that names its /128
\* has its lock from before it asks, and an agent runs only behind one.
Place(x, s, f) ==
  /\ f = "exclusive" => x \in Run /\ s.pc \notin {"new", "gone", "killed"}
  /\ s.pc \in {"publish", "verify", "run", "unlink", "unlock"} => f = "exclusive"
  /\ s.pc = "run" => s.ran
  /\ s.ran => f = "exclusive" /\ s.pc \in {"run", "probe", "stop", "decide", "unlink", "unlock"}
  /\ x \in Run \ ByName /\ s.pc \in {"look", "ask", "request"} => f = "exclusive"
  /\ x \in Root \ ByName /\ s.pc \in {"ask", "request", "serve"} => f = "shared"

\* An exclusive lock is alone.
Alone == \A x, y \in Proc : flock[x] = "exclusive" /\ y # x => flock[y] = "none"

\* A run that would disconnect: it has a hold its tunnel has not belied.
Believes(s) ==
  /\ s.held
  /\ \/ ~s.ran /\ s.pc \in {"lock", "publish", "verify", "probe"}
     \/ s.confirmed /\ s.pc \in {"stop", "decide"}

\* What such a run may know of the box: the peer is its own, or it was lost
\* since the last answer, or the box has said so.
Knows(r, s, peer, lost) ==
  /\ s.pc \in {"verify", "run", "probe", "stop", "decide"} => s.held
  /\ s.pc = "new" => ~s.held
  /\ ~s.ran => s.flight = "none"
  /\ s.pc = "decide" => s.flight = "none"
  /\ Believes(s) =>
       \/ peer = r
       \/ r \in lost
       \/ s.flight = "exclusive"
       \/ s.flight = "none" /\ s.replaced

Inv ==
  /\ TypeOK
  /\ \A x \in Proc : Place(x, p[x], flock[x])
  /\ Alone
  /\ HolderNamesTheRun
  /\ \A r \in Run : Knows(r, p[r], box.peer, overtaken)

\* A step of x, or of the box, leaves what the other runs know of it true.
BoxStep(x) ==
  /\ box' \in [peer : Proc \cup {Nobody, Elsewhere}, exclusive : BOOLEAN]
  /\ overtaken' \subseteq Run
  /\ \A r \in Run \ {x} :
       box.peer = r \/ r \in overtaken => box'.peer = r \/ r \in overtaken'

-----------------------------------------------------------------------------

\* The step of one process: where it goes and the lock it takes fit each other,
\* it takes the lock as flock(2) lets it, and it writes the holder file only
\* while it is alone with the lock.
LEMMA Moves ==
  ASSUME Inv, NEW x \in Proc, NEW s \in ProcState, NEW f \in Modes,
         p' = [p EXCEPT ![x] = s], flock' = [flock EXCEPT ![x] = f],
         Place(x, s, f),
         f = "exclusive" /\ flock[x] # f => \A y \in Proc : flock[y] = "none",
         f = "shared" /\ flock[x] # f => \A y \in Proc : flock[y] # "exclusive",
         holder' = holder \/ (flock[x] = "exclusive" /\ holder' \in {x, Nobody}),
         f = "exclusive" /\ s.pc \notin {"publish", "unlock"} => holder' = x,
         BoxStep(x),
         x \in Run => Knows(x, s, box'.peer, overtaken')
  PROVE  Inv'
<1>0. /\ TypeOK /\ Alone /\ HolderNamesTheRun
      /\ \A y \in Proc : Place(y, p[y], flock[y])
      /\ \A r \in Run : Knows(r, p[r], box.peer, overtaken)
  BY DEF Inv
<1>1. /\ p'[x] = s /\ flock'[x] = f
      /\ \A y \in Proc \ {x} : p'[y] = p[y] /\ flock'[y] = flock[y]
  BY <1>0 DEF TypeOK
<1>2. TypeOK'
  <2>1. holder' \in Run \cup {Nobody}
    BY <1>0 DEF TypeOK, Place
  <2> QED  BY <1>0, <2>1 DEF TypeOK, BoxStep, Modes
<1>3. \A y \in Proc : Place(y, p'[y], flock'[y])
  BY <1>0, <1>1
<1>4. Alone'
  BY <1>0, <1>1 DEF Alone, Modes
<1>5. HolderNamesTheRun'
  <2> SUFFICES ASSUME NEW r \in Run, Published(r)'
               PROVE  holder' = r
    BY DEF HolderNamesTheRun
  <2>1. CASE r = x
    BY <1>1, <2>1 DEF Published
  <2>2. CASE r # x
    <3>1. r \in Proc
      BY DEF Proc
    <3>2. Published(r) /\ flock[r] = "exclusive"
      BY <1>1, <2>2, <3>1 DEF Published
    <3>3. flock[x] = "none"
      BY <1>0, <2>2, <3>1, <3>2 DEF Alone
    <3> QED  BY <1>0, <3>2, <3>3 DEF HolderNamesTheRun
  <2> QED  BY <2>1, <2>2
<1>6. \A r \in Run : Knows(r, p'[r], box'.peer, overtaken')
  <2> TAKE r \in Run
  <2>1. r \in Proc
    BY DEF Proc
  <2>2. CASE r = x
    BY <1>1, <2>2
  <2>3. CASE r # x
    BY <1>0, <1>1, <2>1, <2>3 DEF Knows, BoxStep
  <2> QED  BY <2>2, <2>3
<1> QED  BY <1>2, <1>3, <1>4, <1>5, <1>6 DEF Inv

\* A step that only takes a process to another place.
LEMMA GoesOn ==
  ASSUME Inv, NEW x \in Proc, NEW pc \in PC, Goes(x, pc), flock' = flock, holder' = holder,
         Place(x, [p[x] EXCEPT !.pc = pc], flock[x]),
         p[x].pc \in {"publish", "unlock"} => pc \in {"publish", "unlock"},
         BoxStep(x),
         x \in Run => Knows(x, [p[x] EXCEPT !.pc = pc], box'.peer, overtaken')
  PROVE  Inv'
<1> DEFINE s == [p[x] EXCEPT !.pc = pc]
<1>1. p[x] \in ProcState /\ flock[x] \in Modes /\ flock = [flock EXCEPT ![x] = flock[x]]
  BY DEF Inv, TypeOK, Modes
<1>2. s \in ProcState /\ s.pc = pc
  BY <1>1 DEF ProcState
<1>3. p' = [p EXCEPT ![x] = s]
  BY DEF Goes
<1>4. Place(x, s, flock[x]) /\ (x \in Run => Knows(x, s, box'.peer, overtaken'))
  OBVIOUS
<1>5. flock[x] = "exclusive" /\ pc \notin {"publish", "unlock"} => holder' = x
  BY DEF Inv, HolderNamesTheRun, Published, Place
<1>6. flock' = [flock EXCEPT ![x] = flock[x]]
  BY <1>1
<1> HIDE DEF s
<1> QED  BY <1>1, <1>2, <1>3, <1>4, <1>5, <1>6, Moves

\* A process that ends.
LEMMA EndsWell ==
  ASSUME Inv, NEW x \in Proc, NEW pc \in {"gone", "killed"}, Ends(x, pc), holder' = holder, BoxStep(x)
  PROVE  Inv'
<1> DEFINE s == [Fresh EXCEPT !.pc = pc]
<1>1. s \in ProcState /\ "none" \in Modes
  BY DEF Fresh, ProcState, PC, Modes
<1>2. p' = [p EXCEPT ![x] = s] /\ flock' = [flock EXCEPT ![x] = "none"]
  BY DEF Ends, Locks
<1>3. Place(x, s, "none") /\ Knows(x, s, box'.peer, overtaken')
  BY DEF Fresh, Place, Knows, Believes
<1> HIDE DEF s
<1> QED  BY <1>1, <1>2, <1>3, Moves

\* A step that does not touch the box.
LEMMA BoxUntouched ==
  ASSUME TypeOK, NEW x, box' = box, overtaken' = overtaken
  PROVE  BoxStep(x)
BY DEF TypeOK, BoxStep

\* A request the box accepts, whose answer arrives or is lost.
LEMMA BoxTaken ==
  ASSUME TypeOK, NEW x \in Proc, NEW mark \in BOOLEAN, Takes(x, mark),
         overtaken' \in {overtaken \cup Replaced(x), (overtaken \cup Replaced(x)) \ {x}}
  PROVE  BoxStep(x) /\ box'.peer = x
BY DEF TypeOK, BoxStep, Takes, Replaced

\* Abandon lets an unpublished or a published lock go.
LEMMA Abandons ==
  ASSUME Inv, NEW r \in Run, Abandon(r), holder' = holder, BoxStep(r),
         p[r].pc \in {"look", "ask", "request", "decide"}
  PROVE  Inv'
<1>0. r \in Proc /\ p[r] \in ProcState /\ Place(r, p[r], flock[r]) /\ Knows(r, p[r], box.peer, overtaken)
  BY DEF Inv, TypeOK, Proc
<1>1. CASE flock[r] = "exclusive"
  <2>1. Goes(r, "unlink") /\ flock' = flock
    BY <1>1 DEF Abandon
  <2>2. /\ Place(r, [p[r] EXCEPT !.pc = "unlink"], flock[r])
        /\ Knows(r, [p[r] EXCEPT !.pc = "unlink"], box'.peer, overtaken')
    BY <1>0, <1>1, ProcAssumption DEF ProcState, Place, Knows, Believes
  <2> QED  BY <1>0, <2>1, <2>2, GoesOn DEF PC
<1>2. CASE flock[r] # "exclusive"
  BY <1>0, <1>2, EndsWell DEF Abandon
<1> QED  BY <1>1, <1>2

\* A run that cannot have the lock gives up; what it holds, it goes to let go.
LEMMA GivesUp ==
  ASSUME Inv, NEW r \in Run, GiveUp(r), holder' = holder, box' = box, overtaken' = overtaken,
         p[r].pc \in {"lock", "publish"}
  PROVE  Inv'
<1>0. /\ r \in Proc /\ p[r] \in ProcState /\ BoxStep(r)
      /\ Place(r, p[r], flock[r]) /\ Knows(r, p[r], box.peer, overtaken)
  BY BoxUntouched DEF Inv, TypeOK, Proc
<1>1. CASE p[r].held
  <2> DEFINE s == [p[r] EXCEPT !.pc = "probe"]
  <2>1. s \in ProcState /\ "none" \in Modes
    BY <1>0 DEF ProcState, PC, Modes
  <2>2. p' = [p EXCEPT ![r] = s] /\ flock' = [flock EXCEPT ![r] = "none"]
    BY <1>1 DEF GiveUp, Goes, Locks
  <2>3. Place(r, s, "none") /\ Knows(r, s, box'.peer, overtaken')
    BY <1>0, <1>1, ProcAssumption DEF ProcState, Place, Knows, Believes
  <2> HIDE DEF s
  <2> QED  BY <1>0, <2>1, <2>2, <2>3, Moves
<1>2. CASE ~p[r].held
  BY <1>0, <1>2, EndsWell DEF GiveUp
<1> QED  BY <1>1, <1>2

\* A connect, or a run, that gets no answer.
LEMMA NoAnswer ==
  ASSUME Inv, NEW x \in Proc, Unanswered(x), holder' = holder, BoxStep(x),
         p[x].pc \in {"ask", "request"}
  PROVE  Inv'
<1>1. CASE x \in Run
  BY <1>1, Abandons DEF Unanswered
<1>2. CASE x \notin Run /\ p[x].held
  <2>1. p[x] \in ProcState /\ Place(x, p[x], flock[x]) /\ Goes(x, "serve") /\ flock' = flock
    BY <1>2 DEF Inv, TypeOK, Unanswered
  <2>2. Place(x, [p[x] EXCEPT !.pc = "serve"], flock[x])
    BY <1>2, <2>1 DEF ProcState, Place
  <2> QED  BY <1>2, <2>1, <2>2, GoesOn DEF PC
<1>3. CASE x \notin Run /\ ~p[x].held
  BY <1>3, EndsWell DEF Unanswered
<1> QED  BY <1>1, <1>2, <1>3

\* What the steps of a connect and of a run have in common.
LEMMA CommonSteps ==
  ASSUME Inv, NEW x \in Proc, Start(x) \/ Ask(x) \/ RequestFailed(x) \/ RequestLost(x)
  PROVE  Inv'
<1>0. /\ p[x] \in ProcState /\ Place(x, p[x], flock[x])
      /\ x \in Run => Knows(x, p[x], box.peer, overtaken)
      /\ TypeOK
  BY DEF Inv, TypeOK
<1>1. CASE Start(x)
  <2> DEFINE pc == IF x \notin ByName THEN "lock" ELSE IF x \in Run THEN "look" ELSE "ask"
  <2>1. pc \in PC /\ Goes(x, pc) /\ flock' = flock /\ holder' = holder /\ BoxStep(x)
    BY <1>0, <1>1, BoxUntouched DEF Start, PC
  <2>2. /\ Place(x, [p[x] EXCEPT !.pc = pc], flock[x])
        /\ x \in Run => Knows(x, [p[x] EXCEPT !.pc = pc], box'.peer, overtaken')
    BY <1>0, <1>1 DEF Start, ProcState, Place, Knows, Believes
  <2>3. p[x].pc \in {"publish", "unlock"} => pc \in {"publish", "unlock"}
    BY <1>1 DEF Start
  <2> HIDE DEF pc
  <2> QED  BY <2>1, <2>2, <2>3, GoesOn
<1>2. CASE Ask(x)
  <2>0. BoxStep(x) /\ holder' = holder /\ p[x].pc = "ask"
    BY <1>0, <1>2, BoxUntouched DEF Ask
  <2>1. CASE Goes(x, "request") /\ flock' = flock
    <3>1. /\ Place(x, [p[x] EXCEPT !.pc = "request"], flock[x])
          /\ x \in Run => Knows(x, [p[x] EXCEPT !.pc = "request"], box'.peer, overtaken')
      BY <1>0, <2>0 DEF ProcState, Place, Knows, Believes
    <3> QED  BY <2>0, <2>1, <3>1, GoesOn DEF PC
  <2>2. CASE Unanswered(x)
    BY <2>0, <2>2, NoAnswer
  <2> QED  BY <1>2, <2>1, <2>2 DEF Ask
<1>3. CASE RequestFailed(x)
  BY <1>0, <1>3, BoxUntouched, NoAnswer DEF RequestFailed
<1>4. CASE RequestLost(x)
  <2>1. PICK mark \in BOOLEAN : Takes(x, mark)
    BY <1>4, ProcAssumption DEF RequestLost
  <2>2. BoxStep(x)
    BY <1>0, <1>4, <2>1, BoxTaken DEF RequestLost
  <2> QED  BY <1>4, <2>2, NoAnswer DEF RequestLost
<1> QED  BY <1>1, <1>2, <1>3, <1>4

\* Every step of a connect keeps the invariant.
LEMMA ConnectSteps ==
  ASSUME Inv, NEW x \in Connect, ConnectStep(x)
  PROVE  Inv'
<1>0. /\ x \in Proc /\ x \notin Run /\ TypeOK
      /\ p[x] \in ProcState /\ flock[x] \in Modes /\ Place(x, p[x], flock[x])
  BY ProcAssumption DEF Inv, TypeOK, Proc, Modes
<1>1. CASE Start(x) \/ Ask(x) \/ RequestFailed(x) \/ RequestLost(x)
  BY <1>0, <1>1, CommonSteps
<1>2. CASE LockShared(x)
  <2> DEFINE s == [p[x] EXCEPT !.pc = IF p[x].held THEN "serve" ELSE "ask"]
             f == IF x \in Root THEN "shared" ELSE flock[x]
  <2>1. s \in ProcState /\ f \in Modes
    BY <1>0 DEF ProcState, PC, Modes
  <2>2. p' = [p EXCEPT ![x] = s] /\ flock' = [flock EXCEPT ![x] = f]
    BY <1>0, <1>2 DEF LockShared, Goes, Locks, TypeOK
  <2>3. Place(x, s, f)
    BY <1>0, <1>2 DEF LockShared, ProcState, Place, Modes
  <2>4. f = "shared" /\ flock[x] # f => \A y \in Proc : flock[y] # "exclusive"
    BY <1>2 DEF LockShared, ExclusiveFlockHeld
  <2>5. BoxStep(x) /\ holder' = holder /\ f # "exclusive"
    BY <1>0, <1>2, BoxUntouched DEF LockShared, Place
  <2> HIDE DEF s, f
  <2> QED  BY <1>0, <2>1, <2>2, <2>3, <2>4, <2>5, Moves
<1>3. CASE SharedRefused(x) \/ Close(x)
  BY <1>0, <1>3, BoxUntouched, EndsWell DEF SharedRefused, Close
<1>4. CASE Connected(x)
  <2> DEFINE s == [p[x] EXCEPT !.held = TRUE,
                     !.pc = IF p[x].held \/ flock[x] = "shared" THEN "serve" ELSE "lock"]
  <2>1. s \in ProcState
    BY <1>0 DEF ProcState, PC
  <2>2. p' = [p EXCEPT ![x] = s] /\ flock' = [flock EXCEPT ![x] = flock[x]]
    BY <1>0, <1>4 DEF Connected, TypeOK
  <2>3. Place(x, s, flock[x])
    BY <1>0, <1>4 DEF Connected, ProcState, Place
  <2>4. BoxStep(x) /\ holder' = holder /\ flock[x] # "exclusive"
    BY <1>0, <1>4, BoxTaken DEF Connected, Place
  <2> HIDE DEF s
  <2> QED  BY <1>0, <2>1, <2>2, <2>3, <2>4, Moves
<1>5. CASE RenewHeld(x)
  <2>1. Goes(x, "ask") /\ flock' = flock /\ holder' = holder /\ BoxStep(x) /\ p[x].pc = "serve"
    BY <1>0, <1>5, BoxUntouched DEF RenewHeld
  <2>2. Place(x, [p[x] EXCEPT !.pc = "ask"], flock[x])
    BY <1>0, <2>1 DEF ProcState, Place
  <2> QED  BY <1>0, <2>1, <2>2, GoesOn DEF PC
<1> QED  BY <1>1, <1>2, <1>3, <1>4, <1>5 DEF ConnectStep

\* What a run does up to its connect keeps the invariant.
LEMMA RunStarts ==
  ASSUME Inv, NEW r \in Run,
         \/ LockExclusive(r) \/ LockRefused(r) \/ WriteHolder(r) \/ WriteHolderFailed(r)
         \/ Look(r) \/ RunConnected(r)
  PROVE  Inv'
<1>0. /\ r \in Proc /\ r \notin Root /\ TypeOK
      /\ p[r] \in ProcState /\ flock[r] \in Modes
      /\ Place(r, p[r], flock[r]) /\ Knows(r, p[r], box.peer, overtaken)
  BY ProcAssumption DEF Inv, TypeOK, Proc, Modes
<1>1. CASE LockExclusive(r)
  <2> DEFINE s == [p[r] EXCEPT !.pc = "publish"]
  <2>1. s \in ProcState /\ "exclusive" \in Modes
    BY <1>0 DEF ProcState, PC, Modes
  <2>2. p' = [p EXCEPT ![r] = s] /\ flock' = [flock EXCEPT ![r] = "exclusive"]
    BY <1>1 DEF LockExclusive, Goes, Locks
  <2>3. Place(r, s, "exclusive") /\ Knows(r, s, box'.peer, overtaken') /\ s.pc = "publish"
    BY <1>0, <1>1 DEF LockExclusive, ProcState, Place, Knows, Believes
  <2>4. BoxStep(r) /\ holder' = holder /\ \A y \in Proc : flock[y] = "none"
    BY <1>0, <1>1, BoxUntouched DEF LockExclusive
  <2> HIDE DEF s
  <2> QED  BY <1>0, <2>1, <2>2, <2>3, <2>4, Moves
<1>2. CASE LockRefused(r) \/ WriteHolderFailed(r)
  BY <1>2, GivesUp DEF LockRefused, WriteHolderFailed
<1>3. CASE WriteHolder(r)
  <2> DEFINE s == [p[r] EXCEPT !.pc = IF p[r].held THEN "verify" ELSE "look"]
  <2>1. s \in ProcState
    BY <1>0 DEF ProcState, PC
  <2>2. p' = [p EXCEPT ![r] = s] /\ flock' = [flock EXCEPT ![r] = flock[r]]
    BY <1>0, <1>3 DEF WriteHolder, Goes, TypeOK
  <2>3. Place(r, s, flock[r]) /\ Knows(r, s, box'.peer, overtaken') /\ flock[r] = "exclusive"
    BY <1>0, <1>3 DEF WriteHolder, ProcState, Place, Knows, Believes
  <2>4. BoxStep(r) /\ holder' = r
    BY <1>0, <1>3, BoxUntouched DEF WriteHolder
  <2> HIDE DEF s
  <2> QED  BY <1>0, <2>1, <2>2, <2>3, <2>4, Moves
<1>4. CASE Look(r)
  <2>0. BoxStep(r) /\ holder' = holder /\ p[r].pc = "look"
    BY <1>0, <1>4, BoxUntouched DEF Look
  <2>1. CASE Abandon(r)
    BY <2>0, <2>1, Abandons
  <2>2. CASE Goes(r, "ask") /\ flock' = flock
    <3>1. /\ Place(r, [p[r] EXCEPT !.pc = "ask"], flock[r])
          /\ Knows(r, [p[r] EXCEPT !.pc = "ask"], box'.peer, overtaken')
      BY <1>0, <2>0 DEF ProcState, Place, Knows, Believes
    <3> QED  BY <1>0, <2>0, <2>2, <3>1, GoesOn DEF PC
  <2> QED  BY <1>4, <2>1, <2>2 DEF Look
<1>5. CASE RunConnected(r)
  <2>1. PICK mark \in Marks :
          /\ Takes(r, mark)
          /\ p' = [p EXCEPT ![r].held = TRUE, ![r].granted = mark,
                            ![r].pc = IF flock[r] = "exclusive" THEN "verify" ELSE "lock"]
    BY <1>5 DEF RunConnected
  <2> DEFINE s == [p[r] EXCEPT !.held = TRUE, !.granted = mark,
                     !.pc = IF flock[r] = "exclusive" THEN "verify" ELSE "lock"]
  <2>2. mark \in BOOLEAN
    BY ProcAssumption
  <2>3. s \in ProcState
    BY <1>0, <2>2 DEF ProcState, PC
  <2>4. p' = [p EXCEPT ![r] = s] /\ flock' = [flock EXCEPT ![r] = flock[r]]
    BY <1>0, <1>5, <2>1 DEF RunConnected, TypeOK
  <2>5. BoxStep(r) /\ box'.peer = r /\ holder' = holder /\ p[r].pc = "request"
    BY <1>0, <1>5, <2>1, <2>2, BoxTaken DEF RunConnected
  <2>6. Place(r, s, flock[r])
    BY <1>0, <2>5 DEF ProcState, Place
  <2>7. Knows(r, s, box'.peer, overtaken')
    BY <1>0, <2>5 DEF ProcState, Place, Knows, Believes
  <2>8. flock[r] = "exclusive" => holder = r
    BY <2>5 DEF Inv, HolderNamesTheRun, Published
  <2> HIDE DEF s
  <2> QED  BY <1>0, <2>3, <2>4, <2>5, <2>6, <2>7, <2>8, Moves
<1> QED  BY <1>1, <1>2, <1>3, <1>4, <1>5

\* What a run does while its agent runs keeps the invariant.
LEMMA RunHolds ==
  ASSUME Inv, NEW r \in Run,
         Verified(r) \/ NotVerified(r) \/ Renew(r) \/ RenewAnswered(r) \/ RunEnded(r)
  PROVE  Inv'
<1>0. /\ r \in Proc /\ r \notin Root /\ TypeOK
      /\ p[r] \in ProcState /\ flock[r] \in Modes /\ flock = [flock EXCEPT ![r] = flock[r]]
      /\ Place(r, p[r], flock[r]) /\ Knows(r, p[r], box.peer, overtaken)
      /\ flock[r] = "exclusive" /\ p[r].pc \notin {"publish", "unlock"} => holder = r
  BY ProcAssumption DEF Inv, TypeOK, Proc, Modes, HolderNamesTheRun, Published
<1>1. CASE Verified(r)
  <2> DEFINE s == [p[r] EXCEPT !.pc = "run", !.ran = TRUE]
  <2>1. s \in ProcState
    BY <1>0 DEF ProcState, PC
  <2>2. p' = [p EXCEPT ![r] = s] /\ flock' = [flock EXCEPT ![r] = flock[r]]
    BY <1>0, <1>1 DEF Verified, TypeOK
  <2>3. Place(r, s, flock[r]) /\ Knows(r, s, box'.peer, overtaken')
    BY <1>0, <1>1 DEF Verified, ProcState, Place, Knows, Believes
  <2>4. BoxStep(r) /\ holder' = holder /\ (flock[r] = "exclusive" => holder = r)
    BY <1>0, <1>1, BoxUntouched DEF Verified
  <2> HIDE DEF s
  <2> QED  BY <1>0, <2>1, <2>2, <2>3, <2>4, Moves
<1>2. CASE NotVerified(r) \/ RunEnded(r)
  <2>1. /\ Goes(r, "probe") /\ flock' = flock /\ holder' = holder
        /\ box' = box /\ overtaken' = overtaken /\ p[r].pc \in {"verify", "run"}
    BY <1>2 DEF NotVerified, RunEnded
  <2>2. /\ Place(r, [p[r] EXCEPT !.pc = "probe"], flock[r])
        /\ Knows(r, [p[r] EXCEPT !.pc = "probe"], box'.peer, overtaken')
    BY <1>0, <2>1 DEF ProcState, Place, Knows, Believes
  <2> QED  BY <1>0, <2>1, <2>2, BoxUntouched, GoesOn DEF PC
<1>3. CASE Renew(r)
  <2>0. /\ flock' = flock /\ holder' = holder /\ p[r].ran /\ p[r].flight = "none"
        /\ p[r].pc \in {"run", "probe", "stop"}
    BY <1>3 DEF Renew
  <2> DEFINE s(a) == [p[r] EXCEPT !.flight = a]
  <2>1. \A a \in {"none", "marked", "unmarked", "exclusive"} :
          /\ s(a) \in ProcState /\ s(a).pc = p[r].pc /\ s(a).flight = a
          /\ Place(r, s(a), flock[r])
    BY <1>0, <2>0 DEF ProcState, Place
  <2>2. CASE /\ BoxRefuses(r) /\ p' = [p EXCEPT ![r].flight = "exclusive"]
             /\ overtaken' = overtaken \ {r} /\ box' = box
    <3>1. p' = [p EXCEPT ![r] = s("exclusive")] /\ flock' = [flock EXCEPT ![r] = flock[r]]
      BY <1>0, <2>0, <2>2 DEF TypeOK
    <3>2. BoxStep(r)
      BY <1>0, <2>2 DEF BoxStep, TypeOK
    <3>3. Knows(r, s("exclusive"), box'.peer, overtaken')
      BY <1>0, <2>0 DEF ProcState, Knows, Believes
    <3> HIDE DEF s
    <3> QED  BY <1>0, <2>0, <2>1, <3>1, <3>2, <3>3, Moves
  <2>3. ASSUME NEW mark \in Marks, Takes(r, mark),
               p' = [p EXCEPT ![r].flight = IF mark THEN "marked" ELSE "unmarked"],
               overtaken' = (overtaken \cup Replaced(r)) \ {r}
        PROVE  Inv'
    <3> DEFINE a == IF mark THEN "marked" ELSE "unmarked"
    <3>1. p' = [p EXCEPT ![r] = s(a)] /\ flock' = [flock EXCEPT ![r] = flock[r]]
      BY <1>0, <2>0, <2>3 DEF TypeOK
    <3>2. BoxStep(r) /\ box'.peer = r /\ a \in {"marked", "unmarked"}
      BY <1>0, <2>3, BoxTaken, ProcAssumption
    <3>3. Knows(r, s(a), box'.peer, overtaken')
      BY <1>0, <2>0, <3>2 DEF ProcState, Knows, Believes
    <3> HIDE DEF s, a
    <3> QED  BY <1>0, <2>0, <2>1, <3>1, <3>2, <3>3, Moves
  <2>4. ASSUME NEW mark \in Marks, Takes(r, mark),
               overtaken' = overtaken \cup Replaced(r), p' = p
        PROVE  Inv'
    <3>1. p' = [p EXCEPT ![r] = p[r]] /\ flock' = [flock EXCEPT ![r] = flock[r]]
      BY <1>0, <2>0, <2>4 DEF TypeOK
    <3>2. BoxStep(r) /\ box'.peer = r
      BY <1>0, <2>4, BoxTaken, ProcAssumption
    <3>3. Knows(r, p[r], box'.peer, overtaken')
      BY <1>0, <2>0, <3>2 DEF Knows, Believes
    <3> QED  BY <1>0, <2>0, <3>1, <3>2, <3>3, Moves
  <2> QED  BY <1>3, <2>2, <2>3, <2>4 DEF Renew
<1>4. CASE RenewAnswered(r)
  <2> DEFINE s == [p[r] EXCEPT !.flight = "none",
                     !.replaced = p[r].flight = "exclusive",
                     !.granted = IF p[r].flight = "exclusive" THEN @ ELSE p[r].flight = "marked"]
  <2>1. s \in ProcState /\ s.pc = p[r].pc
    BY <1>0 DEF ProcState
  <2>2. p' = [p EXCEPT ![r] = s] /\ flock' = [flock EXCEPT ![r] = flock[r]]
    BY <1>0, <1>4 DEF RenewAnswered, TypeOK
  <2>3. BoxStep(r) /\ holder' = holder /\ box' = box /\ overtaken' = overtaken
    BY <1>0, <1>4, BoxUntouched DEF RenewAnswered
  <2>4. Place(r, s, flock[r])
    BY <1>0 DEF ProcState, Place
  <2>5. Knows(r, s, box'.peer, overtaken')
    <3>1. s.held = p[r].held /\ s.ran = p[r].ran /\ s.confirmed = p[r].confirmed /\ s.pc = p[r].pc
      BY <1>0 DEF ProcState
    <3>2. s.flight = "none" /\ s.replaced = (p[r].flight = "exclusive")
      BY <1>0 DEF ProcState
    <3>3. Believes(s) = Believes(p[r])
      BY <3>1 DEF Believes
    <3>4. p[r].flight # "none"
      BY <1>4 DEF RenewAnswered
    <3> HIDE DEF s
    <3> QED  BY <1>0, <2>3, <3>1, <3>2, <3>3, <3>4 DEF Knows
  <2> HIDE DEF s
  <2> QED  BY <1>0, <2>1, <2>2, <2>3, <2>4, <2>5, Moves
<1> QED  BY <1>1, <1>2, <1>3, <1>4

\* A run that lets go of what it has either unlocks after it removed its
\* file, or exits with it.
LEMMA Leaves ==
  ASSUME Inv, NEW r \in Run, Leave(r), p[r].pc = "decide", holder' = holder, BoxStep(r)
  PROVE  Inv'
<1>1. CASE Abandon(r)
  BY <1>1, Abandons
<1>2. CASE Ends(r, "gone")
  BY <1>2, EndsWell DEF Proc
<1> QED  BY <1>1, <1>2 DEF Leave

\* What a run does from its end keeps the invariant.
LEMMA RunEnds ==
  ASSUME Inv, NEW r \in Run,
         \/ Probe(r) \/ StopTunnel(r) \/ Keep(r) \/ Disconnect(r) \/ DisconnectFailed(r)
         \/ Unlink(r) \/ Unlock(r)
  PROVE  Inv'
<1>0. /\ r \in Proc /\ r \notin Root /\ TypeOK
      /\ p[r] \in ProcState /\ flock[r] \in Modes /\ flock = [flock EXCEPT ![r] = flock[r]]
      /\ Place(r, p[r], flock[r]) /\ Knows(r, p[r], box.peer, overtaken)
      /\ flock[r] = "exclusive" /\ p[r].pc \notin {"publish", "unlock"} => holder = r
  BY ProcAssumption DEF Inv, TypeOK, Proc, Modes, HolderNamesTheRun, Published
<1>1. CASE Probe(r)
  <2>1. PICK confirmed \in BOOLEAN :
          /\ confirmed => ~p[r].ran \/ box.peer = r
          /\ p' = [p EXCEPT ![r].pc = "stop", ![r].confirmed = confirmed]
          /\ overtaken' = IF confirmed /\ p[r].ran THEN overtaken \ {r} ELSE overtaken
    BY <1>1 DEF Probe
  <2> DEFINE s == [p[r] EXCEPT !.pc = "stop", !.confirmed = confirmed]
  <2>2. s \in ProcState /\ s.pc = "stop"
    BY <1>0 DEF ProcState, PC
  <2>3. p' = [p EXCEPT ![r] = s] /\ flock' = [flock EXCEPT ![r] = flock[r]]
    BY <1>0, <1>1, <2>1 DEF Probe, TypeOK
  <2>4. box' = box /\ holder' = holder /\ p[r].pc = "probe"
    BY <1>1 DEF Probe
  <2>5. BoxStep(r)
    BY <1>0, <2>1, <2>4 DEF BoxStep, TypeOK
  <2>6. Place(r, s, flock[r])
    BY <1>0, <2>4 DEF ProcState, Place
  <2>7. Knows(r, s, box'.peer, overtaken')
    BY <1>0, <2>1, <2>4 DEF ProcState, Knows, Believes
  <2> HIDE DEF s
  <2> QED  BY <1>0, <2>2, <2>3, <2>4, <2>5, <2>6, <2>7, Moves
<1>2. CASE StopTunnel(r)
  <2>1. /\ Goes(r, "decide") /\ flock' = flock /\ holder' = holder
        /\ box' = box /\ overtaken' = overtaken /\ p[r].pc = "stop" /\ p[r].flight = "none"
    BY <1>2 DEF StopTunnel
  <2>2. /\ Place(r, [p[r] EXCEPT !.pc = "decide"], flock[r])
        /\ Knows(r, [p[r] EXCEPT !.pc = "decide"], box'.peer, overtaken')
    BY <1>0, <2>1 DEF ProcState, Place, Knows, Believes
  <2> QED  BY <1>0, <2>1, <2>2, BoxUntouched, GoesOn DEF PC
<1>3. CASE Keep(r) \/ DisconnectFailed(r)
  BY <1>0, <1>3, BoxUntouched, Leaves DEF Keep, DisconnectFailed
<1>4. CASE Disconnect(r)
  <2>1. BoxStep(r)
    BY <1>0, <1>4 DEF Disconnect, BoxStep, TypeOK, Replaced
  <2> QED  BY <1>4, <2>1, Leaves DEF Disconnect
<1>5. CASE Unlink(r)
  <2> DEFINE s == [p[r] EXCEPT !.pc = "unlock"]
  <2>1. s \in ProcState /\ s.pc = "unlock"
    BY <1>0 DEF ProcState, PC
  <2>2. p' = [p EXCEPT ![r] = s] /\ flock' = [flock EXCEPT ![r] = flock[r]]
    BY <1>0, <1>5 DEF Unlink, Goes, TypeOK
  <2>3. Place(r, s, flock[r]) /\ Knows(r, s, box'.peer, overtaken') /\ flock[r] = "exclusive"
    BY <1>0, <1>5 DEF Unlink, ProcState, Place, Knows, Believes
  <2>4. BoxStep(r) /\ holder' \in {r, Nobody}
    BY <1>0, <1>5, <2>3, BoxUntouched DEF Unlink
  <2> HIDE DEF s
  <2> QED  BY <1>0, <2>1, <2>2, <2>3, <2>4, Moves
<1>6. CASE Unlock(r)
  BY <1>0, <1>6, BoxUntouched, EndsWell DEF Unlock
<1> QED  BY <1>1, <1>2, <1>3, <1>4, <1>5, <1>6

\* What the box does of itself keeps the invariant.
LEMMA BoxSteps ==
  ASSUME Inv, BoxForgets \/ TakenElsewhere
  PROVE  Inv'
<1>0. TypeOK /\ p' = p /\ flock' = flock /\ holder' = holder
  BY DEF Inv, BoxForgets, TakenElsewhere
<1>1. /\ box' \in [peer : Proc \cup {Nobody, Elsewhere}, exclusive : BOOLEAN]
      /\ overtaken' \subseteq Run /\ overtaken \subseteq overtaken'
      /\ \A r \in Run : box.peer = r => r \in overtaken'
  <2>1. CASE BoxForgets
    BY <1>0, <2>1 DEF BoxForgets, TypeOK
  <2>2. CASE TakenElsewhere
    <3>1. PICK mark \in BOOLEAN : Takes(Elsewhere, mark)
      BY <2>2, ProcAssumption DEF TakenElsewhere
    <3>2. box' \in [peer : Proc \cup {Nobody, Elsewhere}, exclusive : BOOLEAN]
      BY <3>1 DEF Takes
    <3>3. Elsewhere \notin Run
      BY ProcAssumption DEF Proc
    <3> QED  BY <1>0, <2>2, <3>2, <3>3 DEF TakenElsewhere, TypeOK, Replaced
  <2> QED  BY <2>1, <2>2
<1>2. TypeOK'
  BY <1>0, <1>1 DEF TypeOK
<1>3. \A r \in Run : Knows(r, p'[r], box'.peer, overtaken')
  BY <1>0, <1>1 DEF Inv, Knows
<1>4. Alone' /\ HolderNamesTheRun' /\ \A x \in Proc : Place(x, p'[x], flock'[x])
  BY <1>0 DEF Inv, Alone, HolderNamesTheRun, Published
<1> QED  BY <1>2, <1>3, <1>4 DEF Inv

-----------------------------------------------------------------------------

\* The invariant holds at first.
LEMMA InitInv == Init => Inv
<1> SUFFICES ASSUME Init PROVE Inv
  OBVIOUS
<1>1. TypeOK
  BY DEF Init, TypeOK, Fresh, ProcState, PC
<1>2. \A x \in Proc : Place(x, p[x], flock[x]) /\ flock[x] = "none"
  BY DEF Init, Fresh, Place
<1>3. \A r \in Run : Knows(r, p[r], box.peer, overtaken) /\ flock[r] = "none"
  BY DEF Init, Fresh, Knows, Believes, Proc
<1> QED  BY <1>1, <1>2, <1>3 DEF Inv, Alone, HolderNamesTheRun, Published

LEMMA NextInv == Inv /\ [Next]_vars => Inv'
<1> SUFFICES ASSUME Inv, [Next]_vars PROVE Inv'
  OBVIOUS
<1>1. ASSUME NEW r \in Run, RunStep(r) PROVE Inv'
  <2>1. r \in Proc
    BY DEF Proc
  <2> QED  BY <1>1, <2>1, CommonSteps, RunStarts, RunHolds, RunEnds DEF RunStep
<1>2. ASSUME NEW x \in Connect, ConnectStep(x) PROVE Inv'
  BY <1>2, ConnectSteps
<1>3. ASSUME NEW x \in Mortal, Kill(x) PROVE Inv'
  BY <1>3, ProcAssumption, BoxUntouched, EndsWell DEF Kill, Inv
<1>4. CASE BoxForgets \/ TakenElsewhere
  BY <1>4, BoxSteps
<1>5. CASE UNCHANGED vars
  BY <1>5 DEF vars, Inv, TypeOK, Alone, HolderNamesTheRun, Published
<1> QED  BY <1>1, <1>2, <1>3, <1>4, <1>5 DEF Next

\* Every reachable state is well typed; only a run's pid is ever on file.
THEOREM LockTypeCorrect == Spec => []TypeOK
<1>1. Inv => TypeOK
  BY DEF Inv
<1> QED  BY <1>1, InitInv, NextInv, PTL DEF Spec

\* The holder file names a published run, for any history of runs, failures
\* and crashes: Release removes the file before it unlocks.
THEOREM HolderFileIsTrue == Spec => []HolderNamesTheRun
<1>1. Inv => HolderNamesTheRun
  BY DEF Inv
<1> QED  BY <1>1, InitInv, NextInv, PTL DEF Spec

\* No refusal in the name of a run that is gone: whoever holds the flock lives.
THEOREM TheDeadHoldNothing == Spec => []NobodyHeldByTheDead
<1>1. Inv => NobodyHeldByTheDead
  <2> SUFFICES ASSUME Inv, NEW listed \in BOOLEAN, LiveHolder(listed) # Nobody
               PROVE  \E r \in Run : Running(r) /\ (holder = r \/ flock[r] = "exclusive")
    BY DEF NobodyHeldByTheDead
  <2>1. holder \in Run /\ (ExclusiveFlockHeld \/ Running(holder))
    BY DEF LiveHolder, Inv, TypeOK
  <2>2. \A r \in Proc : flock[r] = "exclusive" => r \in Run /\ Running(r)
    BY DEF Inv, Place, Running
  <2> QED  BY <2>1, <2>2 DEF ExclusiveFlockHeld
<1> QED  BY <1>1, InitInv, NextInv, PTL DEF Spec

\* A step is of one process, and leaves the others where they are.
LEMMA OthersStay ==
  ASSUME TypeOK, NEW y \in Proc, NEW x \in Proc, x # y,
         \/ y \in Run /\ RunStep(y)
         \/ y \in Connect /\ ConnectStep(y)
         \/ Kill(y)
  PROVE  p'[x] = p[x]
<1>0. p \in [Proc -> ProcState]
  BY DEF TypeOK
<1>1. \A pc : Goes(y, pc) => p'[x] = p[x]
  BY <1>0 DEF Goes
<1>2. \A pc : Ends(y, pc) => p'[x] = p[x]
  BY <1>0 DEF Ends
<1>3. Abandon(y) \/ GiveUp(y) \/ Unanswered(y) \/ Leave(y) => p'[x] = p[x]
  BY <1>1, <1>2 DEF Abandon, GiveUp, Unanswered, Leave
<1>4. CASE y \in Connect /\ ConnectStep(y)
  <2>1. CASE Start(y) \/ LockShared(y) \/ RenewHeld(y)
    BY <1>1, <2>1 DEF Start, LockShared, RenewHeld
  <2>2. CASE SharedRefused(y) \/ Close(y)
    BY <1>2, <2>2 DEF SharedRefused, Close
  <2>3. CASE Ask(y) \/ RequestFailed(y) \/ RequestLost(y)
    BY <1>1, <1>3, <2>3 DEF Ask, RequestFailed, RequestLost
  <2>4. CASE Connected(y)
    BY <1>0, <2>4 DEF Connected
  <2> QED  BY <1>4, <2>1, <2>2, <2>3, <2>4 DEF ConnectStep
<1>5. CASE y \in Run /\ RunStep(y)
  <2>1. CASE \/ Start(y) \/ LockExclusive(y) \/ WriteHolder(y) \/ NotVerified(y)
             \/ RunEnded(y) \/ StopTunnel(y) \/ Unlink(y)
    BY <1>1, <2>1 DEF Start, LockExclusive, WriteHolder, NotVerified, RunEnded, StopTunnel, Unlink
  <2>2. CASE \/ LockRefused(y) \/ WriteHolderFailed(y) \/ Look(y) \/ Ask(y)
             \/ RequestFailed(y) \/ RequestLost(y)
    BY <1>1, <1>3, <2>2 DEF LockRefused, WriteHolderFailed, Look, Ask, RequestFailed, RequestLost
  <2>3. CASE Keep(y) \/ Disconnect(y) \/ DisconnectFailed(y) \/ Unlock(y)
    BY <1>2, <1>3, <2>3 DEF Keep, Disconnect, DisconnectFailed, Unlock
  <2>4. CASE RunConnected(y) \/ Verified(y) \/ Renew(y) \/ RenewAnswered(y) \/ Probe(y)
    BY <1>0, <2>4 DEF RunConnected, Verified, Renew, RenewAnswered, Probe
  <2> QED  BY <1>5, <2>1, <2>2, <2>3, <2>4 DEF RunStep
<1>6. CASE Kill(y)
  BY <1>2, <1>6 DEF Kill
<1> QED  BY <1>4, <1>5, <1>6

\* Only its own question takes a process to its request.
LEMMA OnlyAsking ==
  ASSUME TypeOK, NEW x \in Proc, p[x].pc = "ask", p'[x].pc = "request",
         \/ x \in Run /\ RunStep(x)
         \/ x \in Connect /\ ConnectStep(x)
         \/ Kill(x)
  PROVE  Ask(x)
<1>0. p \in [Proc -> ProcState] /\ p[x] \in ProcState
  BY DEF TypeOK
<1>1. \A pc : Ends(x, pc) => p'[x].pc = pc
  BY <1>0 DEF Ends, Fresh
<1>2. ~RenewAnswered(x) /\ ~Kill(x)
  BY <1>0, <1>1 DEF RenewAnswered, Kill, ProcState
<1>3. CASE x \in Run /\ RunStep(x)
  BY <1>2, <1>3 DEF RunStep, Start, LockExclusive, LockRefused, WriteHolder, WriteHolderFailed,
     Look, RequestFailed, RequestLost, RunConnected, Verified, NotVerified, Renew, RunEnded,
     Probe, StopTunnel, Keep, Disconnect, DisconnectFailed, Unlink, Unlock
<1>4. CASE x \in Connect /\ ConnectStep(x)
  BY <1>4 DEF ConnectStep, Start, LockShared, SharedRefused, RequestFailed, RequestLost,
     Connected, RenewHeld, Close
<1> QED  BY <1>2, <1>3, <1>4

\* Whoever takes the peer is in its request, or renews what its agent runs on.
LEMMA Takers ==
  ASSUME Inv, [Next]_vars, NEW x \in Proc, box'.peer = x, box.peer # x
  PROVE  p[x].pc = "request" \/ p[x].ran
<1>0. Nobody # x /\ Elsewhere # x /\ box' # box
  BY ProcAssumption
<1>1. \A y, mark : Takes(y, mark) => y = x
  BY DEF Takes
<1>2. ASSUME NEW y \in Run, RunStep(y) PROVE p[x].pc = "request" \/ p[x].ran
  <2>1. RequestLost(y) \/ RunConnected(y) \/ Renew(y)
    BY <1>0, <1>2 DEF RunStep, Start, LockExclusive, LockRefused, WriteHolder, WriteHolderFailed,
       Look, Ask, RequestFailed, Verified, NotVerified, RenewAnswered, RunEnded,
       Probe, StopTunnel, Keep, Disconnect, DisconnectFailed, Unlink, Unlock
  <2> QED  BY <1>0, <1>1, <2>1 DEF RequestLost, RunConnected, Renew
<1>3. ASSUME NEW y \in Connect, ConnectStep(y) PROVE p[x].pc = "request" \/ p[x].ran
  <2>1. RequestLost(y) \/ Connected(y)
    BY <1>0, <1>3 DEF ConnectStep, Start, LockShared, SharedRefused, Ask, RequestFailed,
       RenewHeld, Close
  <2> QED  BY <1>1, <2>1 DEF RequestLost, Connected
<1>4. ~BoxForgets /\ ~TakenElsewhere /\ ~UNCHANGED vars /\ \A y \in Mortal : ~Kill(y)
  BY <1>0, <1>1 DEF BoxForgets, TakenElsewhere, vars, Kill
<1> QED  BY <1>2, <1>3, <1>4 DEF Next

\* Nobody who names the /128 asks the box for it while another's run is
\* published, whatever its lock table shows: the file names a live run.
THEOREM NobodyAsksPastARun == Spec => AskedBeforePublished
<1>1. ASSUME Inv, [Next]_vars, NEW x \in Proc, NEW r \in Run, x # r, Published(r),
             x \notin ByName \/ p[x].held, p[x].pc = "ask", p'[x].pc = "request"
      PROVE  FALSE
  <2>1. TypeOK /\ r \in Proc /\ p'[x] # p[x]
    BY <1>1 DEF Inv, Proc
  <2>2. Ask(x)
    <3>1. CASE \E y \in Run : RunStep(y)
      BY <1>1, <2>1, <3>1, OthersStay, OnlyAsking DEF Proc
    <3>2. CASE \E y \in Connect : ConnectStep(y)
      BY <1>1, <2>1, <3>2, OthersStay, OnlyAsking DEF Proc
    <3>3. CASE \E y \in Mortal : Kill(y)
      BY <1>1, <2>1, <3>3, OthersStay, OnlyAsking, ProcAssumption
    <3>4. CASE BoxForgets \/ TakenElsewhere \/ UNCHANGED vars
      BY <2>1, <3>4 DEF BoxForgets, TakenElsewhere, vars
    <3> QED  BY <1>1, <3>1, <3>2, <3>3, <3>4 DEF Next
  <2>3. p[x] \in ProcState /\ p \in [Proc -> ProcState]
    BY <2>1 DEF TypeOK
  <2>4. ~Unanswered(x)
    <3>1. \A pc : Goes(x, pc) \/ Ends(x, pc) => p'[x].pc = pc
      BY <2>3 DEF Goes, Ends, Fresh, ProcState
    <3> QED  BY <1>1, <3>1 DEF Unanswered, Abandon
  <2>5. PICK listed \in BOOLEAN : NotRefused(x, listed)
    BY <2>2, <2>4 DEF Ask
  <2>6. holder = r /\ Running(r)
    BY <1>1, <2>1 DEF Inv, HolderNamesTheRun, Published, Place, Running
  <2>7. LiveHolder(listed) = r /\ r # Nobody
    BY <2>1, <2>6, ProcAssumption DEF LiveHolder
  <2> QED  BY <1>1, <2>5, <2>7 DEF NotRefused, EnforcedHolder
<1>2. Inv /\ [Next]_vars =>
        [\A x \in Proc, r \in Run :
           /\ x # r /\ Published(r)
           /\ x \notin ByName \/ p[x].held
           /\ p[x].pc = "ask"
           => p'[x].pc # "request"]_vars
  BY <1>1
<1> QED  BY <1>2, InitInv, NextInv, PTL DEF Spec, AskedBeforePublished

\* Nothing of root's that names its /128 takes a published run's peer: the lock
\* it holds while it asks, or while its agent runs, is the run's to exclude.
THEOREM RootNeverCutsARun == Spec => RunKeepsItsPeer
<1>1. ASSUME Inv, [Next]_vars, NEW r \in Run, NEW x \in (Run \cup Root) \ (ByName \cup {r}),
             Published(r), box.peer = r, box'.peer = x
      PROVE  FALSE
  <2>1. x \in Proc /\ r \in Proc /\ x # r
    BY ProcAssumption DEF Proc
  <2>2. p[x].pc = "request" \/ p[x].ran
    BY <1>1, <2>1, Takers
  <2>3. flock[x] # "none"
    BY <1>1, <2>1, <2>2 DEF Inv, Place
  <2> QED  BY <1>1, <2>1, <2>3 DEF Inv, Alone, Published
<1>2. Inv /\ [Next]_vars =>
        [\A r \in Run : \A x \in (Run \cup Root) \ (ByName \cup {r}) :
           Published(r) /\ box.peer = r => box'.peer # x]_vars
  BY <1>1
<1> QED  BY <1>2, InitInv, NextInv, PTL DEF Spec, RunKeepsItsPeer

\* A run disconnects only a peer it has reason to take for its own.
THEOREM DisconnectIsOfItsOwn == Spec => ReleaseSparesOthers
<1>1. ASSUME Inv, NEW r \in Run, Disconnect(r)
      PROVE  box.peer \in {r, Nobody} \/ r \in overtaken
  BY <1>1 DEF Inv, Disconnect, KeepReason, Knows, Believes
<1>2. Inv /\ [Next]_vars =>
        [\A r \in Run : Disconnect(r) => box.peer \in {r, Nobody} \/ r \in overtaken]_vars
  BY <1>1
<1> QED  BY <1>2, InitInv, NextInv, PTL DEF Spec, ReleaseSparesOthers
=============================================================================
