-------------------------- MODULE EnsureDaemon_proofs --------------------------
(***************************************************************************)
(* Theorems about EnsureDaemon, for every number of --ensures, daemons,    *)
(* retries and rounds: its states are well typed, a live daemon's record   *)
(* that names a serving session is of a verified one, and "up" is said of  *)
(* a verified proxy alone.                                                 *)
(***************************************************************************)
EXTENDS EnsureDaemon, TLAPS

\* What the file r says of the daemon s whose pid is in it: the daemon has been
\* started, and if a session is said to serve, s holds it on the pinned port,
\* verified, and has not begun to let it go. RecordMeansVerified alone is not
\* inductive: a renewal clears `verified` long after the record was written,
\* and only where the hold has got to tells that the record was changed first.
Lists(s, r) ==
  s.pc \notin {"gone", "killed"}
    => /\ s.pc # "off"
       /\ \/ r.noProxy
          \/ /\ s.pinned /\ s.verified /\ s.holding
             /\ s.pc \in {"hold", "closing", "closecheck", "unlink", "pidread", "piddel"}

\* A daemon about to write its first record has verified.
Marker ==
  \A p \in Daemon :
    /\ reg.pid = p => Lists(d[p], reg)
    /\ d[p].pc \in {"mark", "record"} => d[p].verified

Inv == TypeOK /\ Marker

\* What the steps of one --ensure, and those of one daemon, leave as it is.
EnsurerFrame(w, s) ==
  /\ SetE(w, s) /\ d' = d /\ bound' = bound
  /\ reg' \in {reg, NoRecord} /\ pidfile' \in Daemon \cup {0}

DaemonFrame(p, s) ==
  SetD(p, s) /\ e' = e /\ bound' \in {bound, p, 0} /\ pidfile' \in {pidfile, p, 0}

-----------------------------------------------------------------------------

\* The constant records of the model are well typed.
LEMMA ConstantsTyped ==
  /\ NoRecord \in Record
  /\ NewDaemon \in DaemonState
  /\ \A p \in Daemon, state \in {"", "up", "down", "refused"}, np \in BOOLEAN :
       [pid |-> p, state |-> state, noProxy |-> np] \in Record
BY EnsureAssumption DEF NoRecord, Record, NewDaemon, DaemonState, DaemonPC

\* The counters stay within their bounds.
LEMMA Bounds ==
  /\ 0 \in 0..Retries /\ \A a \in 0..Retries : a < Retries => a + 1 \in 0..Retries
  /\ 0 \in 0..Rounds /\ \A a \in 0..Rounds : a < Rounds => a + 1 \in 0..Rounds
BY EnsureAssumption

\* A process that only goes on to another place stays well typed.
LEMMA PlacesTyped ==
  ASSUME TypeOK
  PROVE  /\ \A w \in Ensurer, pc \in EnsurerPC : [e[w] EXCEPT !.pc = pc] \in EnsurerState
         /\ \A p \in Daemon, pc \in DaemonPC : [d[p] EXCEPT !.pc = pc] \in DaemonState
BY DEF TypeOK, EnsurerState, DaemonState

\* Where a wait of the service goes on.
LEMMA AfterHoldTyped ==
  ASSUME TypeOK, NEW p \in Daemon
  PROVE  AfterHold(p) \in DaemonState
<1>1. d[p] \in DaemonState
  BY DEF TypeOK
<1>2. /\ [d[p] EXCEPT !.pc = "gone"] \in DaemonState
      /\ [d[p] EXCEPT !.pc = "agent"] \in DaemonState
      /\ [d[p] EXCEPT !.pc = "backoff"] \in DaemonState
  BY PlacesTyped DEF DaemonPC
<1>3. [d[p] EXCEPT !.pc = "connect", !.attempt = 0] \in DaemonState
  BY <1>1, Bounds DEF DaemonState, DaemonPC
<1> QED  BY <1>2, <1>3 DEF AfterHold

\* A step of one --ensure that may sweep the file.
LEMMA EnsurerMoves ==
  ASSUME Inv, NEW w \in Ensurer, NEW s \in EnsurerState, EnsurerFrame(w, s)
  PROVE  Inv'
<1>1. e' \in [Ensurer -> EnsurerState] /\ reg' \in Record
  BY ConstantsTyped DEF Inv, TypeOK, SetE, EnsurerFrame
<1>2. Marker'
  <2> SUFFICES ASSUME NEW q \in Daemon
               PROVE  /\ reg'.pid = q => Lists(d'[q], reg')
                      /\ d'[q].pc \in {"mark", "record"} => d'[q].verified
    BY DEF Marker
  <2>1. reg'.pid = q => reg' = reg
    <3>1. q # 0 /\ NoRecord.pid = 0
      BY EnsureAssumption DEF NoRecord
    <3> QED  BY <3>1 DEF EnsurerFrame
  <2>2. d'[q] = d[q]
    BY DEF EnsurerFrame
  <2> QED  BY <2>1, <2>2 DEF Inv, Marker
<1> QED  BY <1>1, <1>2 DEF Inv, TypeOK, EnsurerFrame

\* A step of one daemon leaves the other daemons alone, and may only take the
\* file off or put its own pid in it.
LEMMA DaemonMoves ==
  ASSUME Inv, NEW p \in Daemon, NEW s \in DaemonState, SetD(p, s),
         e' \in [Ensurer -> EnsurerState], bound' \in {bound, p, 0},
         pidfile' \in {pidfile, p, 0}, reg' \in Record, reg' = reg \/ reg'.pid \in {0, p},
         reg'.pid = p => Lists(s, reg'),
         s.pc \in {"mark", "record"} => s.verified
  PROVE  Inv'
<1>1. TypeOK'
  BY DEF Inv, TypeOK, SetD
<1>2. Marker'
  <2> SUFFICES ASSUME NEW q \in Daemon
               PROVE  /\ reg'.pid = q => Lists(d'[q], reg')
                      /\ d'[q].pc \in {"mark", "record"} => d'[q].verified
    BY DEF Marker
  <2>1. CASE q = p
    BY <2>1 DEF Inv, TypeOK, SetD
  <2>2. CASE q # p
    <3>1. d'[q] = d[q] /\ (reg'.pid = q => reg' = reg)
      BY <2>2, EnsureAssumption DEF Inv, TypeOK, SetD
    <3> QED  BY <3>1 DEF Inv, Marker
  <2> QED  BY <2>1, <2>2
<1> QED  BY <1>1, <1>2 DEF Inv

\* Every step of an --ensure, but for the spawn, keeps the invariant.
LEMMA EnsurerSteps ==
  ASSUME Inv, NEW w \in Ensurer,
         Ensure(w) \/ (EnsureStep(w) /\ ~Spawn(w))
  PROVE  Inv'
<1>0. /\ e[w] \in EnsurerState /\ reg \in Record
      /\ bound \in Daemon \cup Foreign \cup {0} /\ pidfile \in Daemon \cup {0}
  BY DEF Inv, TypeOK
<1>1. CASE Ensure(w)
  <2> DEFINE s == [NewEnsurer EXCEPT !.pc = "probe", !.rounds = e[w].rounds + 1]
  <2>1. s \in EnsurerState
    BY <1>0, <1>1, ConstantsTyped, Bounds DEF Ensure, EnsurerState, EnsurerPC, NewEnsurer
  <2>2. EnsurerFrame(w, s)
    BY <1>0, <1>1 DEF EnsurerFrame, Ensure
  <2> HIDE DEF s
  <2> QED  BY <2>1, <2>2, EnsurerMoves
<1>2. CASE Probe(w)
  <2> DEFINE s == IF Answers THEN [e[w] EXCEPT !.pc = "check", !.seen = bound]
                       ELSE [e[w] EXCEPT !.pc = "sweep", !.rec = reg]
  <2>1. s \in EnsurerState
    BY <1>0, <1>2 DEF Probe, EnsurerState, EnsurerPC, Answers
  <2>2. EnsurerFrame(w, s)
    BY <1>0, <1>2 DEF EnsurerFrame, Probe
  <2> HIDE DEF s
  <2> QED  BY <2>1, <2>2, EnsurerMoves
<1>3. CASE Check(w)
  <2> DEFINE s == [e[w] EXCEPT !.pc = IF VerifiedSessionOnPort THEN "up" ELSE "wait"]
  <2>1. s \in EnsurerState
    BY <1>0, <1>3 DEF Check, EnsurerState, EnsurerPC
  <2>2. EnsurerFrame(w, s)
    BY <1>0, <1>3 DEF EnsurerFrame, Check
  <2> HIDE DEF s
  <2> QED  BY <2>1, <2>2, EnsurerMoves
<1>4. CASE SweepUnlink(w)
  <2> DEFINE s == [e[w] EXCEPT !.pc = "spawn"]
  <2>1. s \in EnsurerState
    BY <1>0, <1>4 DEF SweepUnlink, EnsurerState, EnsurerPC
  <2>2. EnsurerFrame(w, s)
    BY <1>0, <1>4 DEF EnsurerFrame, SweepUnlink
  <2> HIDE DEF s
  <2> QED  BY <2>1, <2>2, EnsurerMoves
<1>5. CASE WritePid(w)
  <2> DEFINE s == [e[w] EXCEPT !.pc = "wait"]
  <2>1. s \in EnsurerState
    BY <1>0, <1>5 DEF WritePid, EnsurerState, EnsurerPC
  <2>2. EnsurerFrame(w, s)
    BY <1>0, <1>5 DEF EnsurerFrame, WritePid, EnsurerState
  <2> HIDE DEF s
  <2> QED  BY <2>1, <2>2, EnsurerMoves
<1>6. CASE WaitProbe(w)
  <2> DEFINE s == [e[w] EXCEPT !.pc = "verified", !.seen = bound]
  <2>1. s \in EnsurerState
    BY <1>0, <1>6 DEF WaitProbe, EnsurerState, EnsurerPC, Answers
  <2>2. EnsurerFrame(w, s)
    BY <1>0, <1>6 DEF EnsurerFrame, WaitProbe
  <2> HIDE DEF s
  <2> QED  BY <2>1, <2>2, EnsurerMoves
<1>7. CASE GiveUp(w)
  <2> DEFINE s == [e[w] EXCEPT !.pc = "failed"]
  <2>1. s \in EnsurerState
    BY <1>0, <1>7 DEF GiveUp, EnsurerState, EnsurerPC
  <2>2. EnsurerFrame(w, s)
    BY <1>0, <1>7 DEF EnsurerFrame, GiveUp
  <2> HIDE DEF s
  <2> QED  BY <2>1, <2>2, EnsurerMoves
<1>8. CASE SweepProbe(w)
  <2>1. PICK overdue \in BOOLEAN :
          SetE(w, [e[w] EXCEPT !.pc = IF SweepSpares(e[w].rec, overdue) THEN "spawn" ELSE "unlink"])
    BY <1>8 DEF SweepProbe
  <2> DEFINE s == [e[w] EXCEPT !.pc = IF SweepSpares(e[w].rec, overdue) THEN "spawn" ELSE "unlink"]
  <2>2. s \in EnsurerState
    BY <1>0 DEF EnsurerState, EnsurerPC
  <2>3. EnsurerFrame(w, s)
    BY <1>0, <1>8, <2>1 DEF EnsurerFrame, SweepProbe
  <2> HIDE DEF s
  <2> QED  BY <2>2, <2>3, EnsurerMoves
<1> QED  BY <1>1, <1>2, <1>3, <1>4, <1>5, <1>6, <1>7, <1>8 DEF EnsureStep

\* Every step of a daemon keeps the invariant.
LEMMA DaemonSteps ==
  ASSUME Inv, NEW p \in Daemon,
         Launch(p) \/ DaemonStep(p) \/ Drop(p) \/ Stop(p) \/ Kill(p)
  PROVE  Inv'
<1>0. /\ d[p] \in DaemonState /\ reg \in Record /\ e \in [Ensurer -> EnsurerState]
      /\ reg.pid = p => Lists(d[p], reg)
      /\ d[p].pc \in {"mark", "record"} => d[p].verified
      /\ p # 0 /\ AfterHold(p) \in DaemonState
  BY EnsureAssumption, AfterHoldTyped DEF Inv, TypeOK, Marker
<1>1. CASE Launch(p)
  <2> DEFINE s == [d[p] EXCEPT !.pc = "start"]
  <2>1. s \in DaemonState
    BY <1>0, <1>1 DEF Launch, GoTo, DaemonState, DaemonPC
  <2>2. DaemonFrame(p, s)
    BY <1>1 DEF DaemonFrame, Launch, GoTo
  <2>3. /\ reg' \in Record /\ (reg' = reg \/ reg'.pid \in {0, p})
        /\ reg'.pid = p => Lists(s, reg')
        /\ s.pc \in {"mark", "record"} => s.verified
    BY <1>0, <1>1, ConstantsTyped DEF Launch, GoTo, Lists, NoRecord, DaemonState, Alive
  <2> HIDE DEF s
  <2> QED  BY <1>0, <2>1, <2>2, <2>3, DaemonMoves DEF DaemonFrame
<1>2. CASE TryPort(p)
  <2> DEFINE s == [d[p] EXCEPT !.pc = IF bound = 0 THEN "agent" ELSE "busy"]
  <2>1. s \in DaemonState
    BY <1>0, <1>2 DEF TryPort, DaemonState, DaemonPC
  <2>2. DaemonFrame(p, s)
    BY <1>2 DEF DaemonFrame, TryPort
  <2>3. /\ reg' \in Record /\ (reg' = reg \/ reg'.pid \in {0, p})
        /\ reg'.pid = p => Lists(s, reg')
        /\ s.pc \in {"mark", "record"} => s.verified
    BY <1>0, <1>2, ConstantsTyped DEF TryPort, Lists, NoRecord, DaemonState, Alive
  <2> HIDE DEF s
  <2> QED  BY <1>0, <2>1, <2>2, <2>3, DaemonMoves DEF DaemonFrame
<1>3. CASE PortBusy(p)
  <2> DEFINE s == IF Answers /\ p \notin Supervised THEN [d[p] EXCEPT !.pc = "gone", !.ensured = TRUE]
                                         ELSE [d[p] EXCEPT !.pc = "agent", !.pinned = FALSE, !.listen = FALSE, !.home = FALSE]
  <2>1. s \in DaemonState
    <3>1. [d[p] EXCEPT !.pc = "gone", !.ensured = TRUE] \in DaemonState
      BY <1>0 DEF DaemonState, DaemonPC
    <3>2. [d[p] EXCEPT !.pc = "agent", !.pinned = FALSE, !.listen = FALSE, !.home = FALSE] \in DaemonState
      BY <1>0 DEF DaemonState, DaemonPC
    <3> QED  BY <3>1, <3>2
  <2>2. DaemonFrame(p, s)
    BY <1>3 DEF DaemonFrame, PortBusy
  <2>3. /\ reg' \in Record /\ (reg' = reg \/ reg'.pid \in {0, p})
        /\ reg'.pid = p => Lists(s, reg')
        /\ s.pc \in {"mark", "record"} => s.verified
    BY <1>0, <1>3, ConstantsTyped DEF PortBusy, Lists, NoRecord, DaemonState, Alive
  <2> HIDE DEF s
  <2> QED  BY <1>0, <2>1, <2>2, <2>3, DaemonMoves DEF DaemonFrame
<1>4. CASE ResolveAgent(p)
  <2> DEFINE s == [d[p] EXCEPT !.pc = "connect", !.resolved = TRUE]
  <2>1. s \in DaemonState
    BY <1>0, <1>4 DEF ResolveAgent, DaemonState, DaemonPC
  <2>2. DaemonFrame(p, s)
    BY <1>4 DEF DaemonFrame, ResolveAgent
  <2>3. /\ reg' \in Record /\ (reg' = reg \/ reg'.pid \in {0, p})
        /\ reg'.pid = p => Lists(s, reg')
        /\ s.pc \in {"mark", "record"} => s.verified
    BY <1>0, <1>4, ConstantsTyped DEF ResolveAgent, Lists, NoRecord, DaemonState, Alive
  <2> HIDE DEF s
  <2> QED  BY <1>0, <2>1, <2>2, <2>3, DaemonMoves DEF DaemonFrame
<1>5. CASE LocalFailed(p)
  <2> DEFINE s == [d[p] EXCEPT !.pc = "gone"]
  <2>1. s \in DaemonState
    BY <1>0, <1>5 DEF LocalFailed, GoTo, DaemonState, DaemonPC
  <2>2. DaemonFrame(p, s)
    BY <1>5 DEF DaemonFrame, LocalFailed, GoTo
  <2>3. /\ reg' \in Record /\ (reg' = reg \/ reg'.pid \in {0, p})
        /\ reg'.pid = p => Lists(s, reg')
        /\ s.pc \in {"mark", "record"} => s.verified
    BY <1>0, <1>5, ConstantsTyped DEF LocalFailed, GoTo, Lists, NoRecord, DaemonState, Alive
  <2> HIDE DEF s
  <2> QED  BY <1>0, <2>1, <2>2, <2>3, DaemonMoves DEF DaemonFrame
<1>6. CASE BindPort(p)
  <2> DEFINE s == IF d[p].pinned /\ bound # 0 THEN [d[p] EXCEPT !.pc = "failed", !.final = FALSE]
                                   ELSE [d[p] EXCEPT !.pc = "verify", !.verified = FALSE]
  <2>1. s \in DaemonState
    <3>1. CASE d[p].pinned /\ bound # 0
      BY <1>0, <3>1 DEF DaemonState, DaemonPC
    <3>2. CASE ~(d[p].pinned /\ bound # 0)
      BY <1>0, <3>2 DEF DaemonState, DaemonPC
    <3> QED  BY <3>1, <3>2
  <2>2. DaemonFrame(p, s)
    BY <1>6 DEF DaemonFrame, BindPort
  <2>3. /\ reg' \in Record /\ (reg' = reg \/ reg'.pid \in {0, p})
        /\ reg'.pid = p => Lists(s, reg')
        /\ s.pc \in {"mark", "record"} => s.verified
    BY <1>0, <1>6, ConstantsTyped DEF BindPort, Lists, NoRecord, DaemonState, Alive
  <2> HIDE DEF s
  <2> QED  BY <1>0, <2>1, <2>2, <2>3, DaemonMoves DEF DaemonFrame
<1>7. CASE VerifyOk(p)
  <2> DEFINE s == [d[p] EXCEPT !.pc = "mark", !.verified = TRUE]
  <2>1. s \in DaemonState
    BY <1>0, <1>7 DEF VerifyOk, DaemonState, DaemonPC
  <2>2. DaemonFrame(p, s)
    BY <1>7 DEF DaemonFrame, VerifyOk
  <2>3. /\ reg' \in Record /\ (reg' = reg \/ reg'.pid \in {0, p})
        /\ reg'.pid = p => Lists(s, reg')
        /\ s.pc \in {"mark", "record"} => s.verified
    BY <1>0, <1>7, ConstantsTyped DEF VerifyOk, Lists, NoRecord, DaemonState, Alive
  <2> HIDE DEF s
  <2> QED  BY <1>0, <2>1, <2>2, <2>3, DaemonMoves DEF DaemonFrame
<1>8. CASE VerifyFailed(p)
  <2> DEFINE s == [d[p] EXCEPT !.pc = "stop"]
  <2>1. s \in DaemonState
    BY <1>0, <1>8 DEF VerifyFailed, GoTo, DaemonState, DaemonPC
  <2>2. DaemonFrame(p, s)
    BY <1>8 DEF DaemonFrame, VerifyFailed, GoTo
  <2>3. /\ reg' \in Record /\ (reg' = reg \/ reg'.pid \in {0, p})
        /\ reg'.pid = p => Lists(s, reg')
        /\ s.pc \in {"mark", "record"} => s.verified
    BY <1>0, <1>8, ConstantsTyped DEF VerifyFailed, GoTo, Lists, NoRecord, DaemonState, Alive
  <2> HIDE DEF s
  <2> QED  BY <1>0, <2>1, <2>2, <2>3, DaemonMoves DEF DaemonFrame
<1>9. CASE StopFailed(p)
  <2> DEFINE s == [d[p] EXCEPT !.pc = "failed", !.final = FALSE]
  <2>1. s \in DaemonState
    BY <1>0, <1>9 DEF StopFailed, Unbind, DaemonState, DaemonPC
  <2>2. DaemonFrame(p, s)
    BY <1>9 DEF DaemonFrame, StopFailed, Unbind
  <2>3. /\ reg' \in Record /\ (reg' = reg \/ reg'.pid \in {0, p})
        /\ reg'.pid = p => Lists(s, reg')
        /\ s.pc \in {"mark", "record"} => s.verified
    BY <1>0, <1>9, ConstantsTyped DEF StopFailed, Unbind, Lists, NoRecord, DaemonState, Alive
  <2> HIDE DEF s
  <2> QED  BY <1>0, <2>1, <2>2, <2>3, DaemonMoves DEF DaemonFrame
<1>10. CASE BackoffOver(p)
  <2> DEFINE s == IF d[p].pinned /\ Answers THEN [d[p] EXCEPT !.pc = "gone", !.ensured = TRUE]
                                 ELSE [d[p] EXCEPT !.pc = "connect"]
  <2>1. s \in DaemonState
    BY <1>0, <1>10 DEF BackoffOver, DaemonState, DaemonPC
  <2>2. DaemonFrame(p, s)
    BY <1>10 DEF DaemonFrame, BackoffOver
  <2>3. /\ reg' \in Record /\ (reg' = reg \/ reg'.pid \in {0, p})
        /\ reg'.pid = p => Lists(s, reg')
        /\ s.pc \in {"mark", "record"} => s.verified
    BY <1>0, <1>10, ConstantsTyped DEF BackoffOver, Lists, NoRecord, DaemonState, Alive
  <2> HIDE DEF s
  <2> QED  BY <1>0, <2>1, <2>2, <2>3, DaemonMoves DEF DaemonFrame
<1>11. CASE HoldOver(p)
  <2> DEFINE s == [d[p] EXCEPT !.pc = "holdcheck", !.final = d[p].pc = "refused"]
  <2>1. s \in DaemonState
    BY <1>0, <1>11 DEF HoldOver, DaemonState, DaemonPC
  <2>2. DaemonFrame(p, s)
    BY <1>11 DEF DaemonFrame, HoldOver
  <2>3. /\ reg' \in Record /\ (reg' = reg \/ reg'.pid \in {0, p})
        /\ reg'.pid = p => Lists(s, reg')
        /\ s.pc \in {"mark", "record"} => s.verified
    BY <1>0, <1>11, ConstantsTyped DEF HoldOver, Lists, NoRecord, DaemonState, Alive
  <2> HIDE DEF s
  <2> QED  BY <1>0, <2>1, <2>2, <2>3, DaemonMoves DEF DaemonFrame
<1>12. CASE HoldCheck(p)
  <2> DEFINE s == IF reg.pid = p /\ d[p].pinned THEN [d[p] EXCEPT !.pc = "holdunlink"] ELSE AfterHold(p)
  <2>1. s \in DaemonState
    BY <1>0, <1>12 DEF HoldCheck, AfterHold, DaemonState, DaemonPC
  <2>2. DaemonFrame(p, s)
    BY <1>12 DEF DaemonFrame, HoldCheck, AfterHold
  <2>3. /\ reg' \in Record /\ (reg' = reg \/ reg'.pid \in {0, p})
        /\ reg'.pid = p => Lists(s, reg')
        /\ s.pc \in {"mark", "record"} => s.verified
    BY <1>0, <1>12, ConstantsTyped DEF HoldCheck, AfterHold, Lists, NoRecord, DaemonState, Alive
  <2> HIDE DEF s
  <2> QED  BY <1>0, <2>1, <2>2, <2>3, DaemonMoves DEF DaemonFrame
<1>13. CASE HoldUnlink(p)
  <2> DEFINE s == AfterHold(p)
  <2>1. s \in DaemonState
    BY <1>0, <1>13 DEF HoldUnlink, AfterHold, DaemonState, DaemonPC
  <2>2. DaemonFrame(p, s)
    BY <1>13 DEF DaemonFrame, HoldUnlink, AfterHold
  <2>3. /\ reg' \in Record /\ (reg' = reg \/ reg'.pid \in {0, p})
        /\ reg'.pid = p => Lists(s, reg')
        /\ s.pc \in {"mark", "record"} => s.verified
    BY <1>0, <1>13, ConstantsTyped DEF HoldUnlink, AfterHold, Lists, NoRecord, DaemonState, Alive
  <2> HIDE DEF s
  <2> QED  BY <1>0, <2>1, <2>2, <2>3, DaemonMoves DEF DaemonFrame
<1>14. CASE Mark(p)
  <2> DEFINE s == [d[p] EXCEPT !.pc = "record"]
  <2>1. s \in DaemonState
    BY <1>0, <1>14 DEF Mark, GoTo, DaemonState, DaemonPC
  <2>2. DaemonFrame(p, s)
    BY <1>14 DEF DaemonFrame, Mark, GoTo
  <2>3. /\ reg' \in Record /\ (reg' = reg \/ reg'.pid \in {0, p})
        /\ reg'.pid = p => Lists(s, reg')
        /\ s.pc \in {"mark", "record"} => s.verified
    BY <1>0, <1>14, ConstantsTyped DEF Mark, GoTo, Lists, NoRecord, DaemonState, Alive
  <2> HIDE DEF s
  <2> QED  BY <1>0, <2>1, <2>2, <2>3, DaemonMoves DEF DaemonFrame
<1>15. CASE WriteRecord(p)
  <2> DEFINE s == [d[p] EXCEPT !.pc = "hold", !.holding = TRUE]
  <2>1. s \in DaemonState
    BY <1>0, <1>15 DEF WriteRecord, DaemonState, DaemonPC
  <2>2. DaemonFrame(p, s)
    BY <1>15 DEF DaemonFrame, WriteRecord
  <2>3. /\ reg' \in Record /\ (reg' = reg \/ reg'.pid \in {0, p})
        /\ reg'.pid = p => Lists(s, reg')
        /\ s.pc \in {"mark", "record"} => s.verified
    BY <1>0, <1>15, ConstantsTyped DEF WriteRecord, Lists, NoRecord, DaemonState, Alive
  <2> HIDE DEF s
  <2> QED  BY <1>0, <2>1, <2>2, <2>3, DaemonMoves DEF DaemonFrame
<1>16. CASE Drop(p)
  <2> DEFINE s == [d[p] EXCEPT !.pc = "drop"]
  <2>1. s \in DaemonState
    BY <1>0, <1>16 DEF Drop, GoTo, PublishHolder, DaemonState, DaemonPC
  <2>2. DaemonFrame(p, s)
    BY <1>16 DEF DaemonFrame, Drop, GoTo, PublishHolder
  <2>3. /\ reg' \in Record /\ (reg' = reg \/ reg'.pid \in {0, p})
        /\ reg'.pid = p => Lists(s, reg')
        /\ s.pc \in {"mark", "record"} => s.verified
    BY <1>0, <1>16, ConstantsTyped DEF Drop, GoTo, PublishHolder, Lists, NoRecord, DaemonState, Alive
  <2> HIDE DEF s
  <2> QED  BY <1>0, <2>1, <2>2, <2>3, DaemonMoves DEF DaemonFrame
<1>17. CASE Dropped(p)
  <2> DEFINE s == [d[p] EXCEPT !.pc = "idle"]
  <2>1. s \in DaemonState
    BY <1>0, <1>17 DEF Dropped, GoTo, Unbind, DaemonState, DaemonPC
  <2>2. DaemonFrame(p, s)
    BY <1>17 DEF DaemonFrame, Dropped, GoTo, Unbind
  <2>3. /\ reg' \in Record /\ (reg' = reg \/ reg'.pid \in {0, p})
        /\ reg'.pid = p => Lists(s, reg')
        /\ s.pc \in {"mark", "record"} => s.verified
    BY <1>0, <1>17, ConstantsTyped DEF Dropped, GoTo, Unbind, Lists, NoRecord, DaemonState, Alive
  <2> HIDE DEF s
  <2> QED  BY <1>0, <2>1, <2>2, <2>3, DaemonMoves DEF DaemonFrame
<1>18. CASE Adopt(p)
  <2> DEFINE s == [d[p] EXCEPT !.pc = "hold", !.verified = TRUE, !.pinned = d[p].listen]
  <2>1. s \in DaemonState
    BY <1>0, <1>18 DEF Adopt, DaemonState, DaemonPC
  <2>2. DaemonFrame(p, s)
    BY <1>18 DEF DaemonFrame, Adopt
  <2>3. /\ reg' \in Record /\ (reg' = reg \/ reg'.pid \in {0, p})
        /\ reg'.pid = p => Lists(s, reg')
        /\ s.pc \in {"mark", "record"} => s.verified
    BY <1>0, <1>18, ConstantsTyped DEF Adopt, Lists, NoRecord, DaemonState, Alive
  <2> HIDE DEF s
  <2> QED  BY <1>0, <2>1, <2>2, <2>3, DaemonMoves DEF DaemonFrame
<1>19. CASE RebindFailed(p)
  <2> DEFINE s == [d[p] EXCEPT !.pc = "idle"]
  <2>1. s \in DaemonState
    BY <1>0, <1>19 DEF RebindFailed, GoTo, Unbind, PublishHolder, DaemonState, DaemonPC
  <2>2. DaemonFrame(p, s)
    BY <1>19 DEF DaemonFrame, RebindFailed, GoTo, Unbind, PublishHolder
  <2>3. /\ reg' \in Record /\ (reg' = reg \/ reg'.pid \in {0, p})
        /\ reg'.pid = p => Lists(s, reg')
        /\ s.pc \in {"mark", "record"} => s.verified
    BY <1>0, <1>19, ConstantsTyped DEF RebindFailed, GoTo, Unbind, PublishHolder, Lists, NoRecord, DaemonState, Alive
  <2> HIDE DEF s
  <2> QED  BY <1>0, <2>1, <2>2, <2>3, DaemonMoves DEF DaemonFrame
<1>20. CASE CloseStop(p)
  <2> DEFINE s == [d[p] EXCEPT !.pc = "closecheck"]
  <2>1. s \in DaemonState
    BY <1>0, <1>20 DEF CloseStop, GoTo, Unbind, DaemonState, DaemonPC
  <2>2. DaemonFrame(p, s)
    BY <1>20 DEF DaemonFrame, CloseStop, GoTo, Unbind
  <2>3. /\ reg' \in Record /\ (reg' = reg \/ reg'.pid \in {0, p})
        /\ reg'.pid = p => Lists(s, reg')
        /\ s.pc \in {"mark", "record"} => s.verified
    BY <1>0, <1>20, ConstantsTyped DEF CloseStop, GoTo, Unbind, Lists, NoRecord, DaemonState, Alive
  <2> HIDE DEF s
  <2> QED  BY <1>0, <2>1, <2>2, <2>3, DaemonMoves DEF DaemonFrame
<1>21. CASE CloseCheck(p)
  <2> DEFINE s == [d[p] EXCEPT !.pc = IF reg.pid = p /\ d[p].pinned THEN "unlink" ELSE "pidread"]
  <2>1. s \in DaemonState
    BY <1>0, <1>21 DEF CloseCheck, GoTo, DaemonState, DaemonPC
  <2>2. DaemonFrame(p, s)
    BY <1>21 DEF DaemonFrame, CloseCheck, GoTo
  <2>3. /\ reg' \in Record /\ (reg' = reg \/ reg'.pid \in {0, p})
        /\ reg'.pid = p => Lists(s, reg')
        /\ s.pc \in {"mark", "record"} => s.verified
    BY <1>0, <1>21, ConstantsTyped DEF CloseCheck, GoTo, Lists, NoRecord, DaemonState, Alive
  <2> HIDE DEF s
  <2> QED  BY <1>0, <2>1, <2>2, <2>3, DaemonMoves DEF DaemonFrame
<1>22. CASE CloseUnlink(p)
  <2> DEFINE s == [d[p] EXCEPT !.pc = "pidread"]
  <2>1. s \in DaemonState
    BY <1>0, <1>22 DEF CloseUnlink, GoTo, DaemonState, DaemonPC
  <2>2. DaemonFrame(p, s)
    BY <1>22 DEF DaemonFrame, CloseUnlink, GoTo
  <2>3. /\ reg' \in Record /\ (reg' = reg \/ reg'.pid \in {0, p})
        /\ reg'.pid = p => Lists(s, reg')
        /\ s.pc \in {"mark", "record"} => s.verified
    BY <1>0, <1>22, ConstantsTyped DEF CloseUnlink, GoTo, Lists, NoRecord, DaemonState, Alive
  <2> HIDE DEF s
  <2> QED  BY <1>0, <2>1, <2>2, <2>3, DaemonMoves DEF DaemonFrame
<1>23. CASE PidRead(p)
  <2> DEFINE s == [d[p] EXCEPT !.pc = IF pidfile = p THEN "piddel" ELSE "gone"]
  <2>1. s \in DaemonState
    BY <1>0, <1>23 DEF PidRead, GoTo, DaemonState, DaemonPC
  <2>2. DaemonFrame(p, s)
    BY <1>23 DEF DaemonFrame, PidRead, GoTo
  <2>3. /\ reg' \in Record /\ (reg' = reg \/ reg'.pid \in {0, p})
        /\ reg'.pid = p => Lists(s, reg')
        /\ s.pc \in {"mark", "record"} => s.verified
    BY <1>0, <1>23, ConstantsTyped DEF PidRead, GoTo, Lists, NoRecord, DaemonState, Alive
  <2> HIDE DEF s
  <2> QED  BY <1>0, <2>1, <2>2, <2>3, DaemonMoves DEF DaemonFrame
<1>24. CASE PidRemove(p)
  <2> DEFINE s == [d[p] EXCEPT !.pc = "gone"]
  <2>1. s \in DaemonState
    BY <1>0, <1>24 DEF PidRemove, GoTo, DaemonState, DaemonPC
  <2>2. DaemonFrame(p, s)
    BY <1>24 DEF DaemonFrame, PidRemove, GoTo
  <2>3. /\ reg' \in Record /\ (reg' = reg \/ reg'.pid \in {0, p})
        /\ reg'.pid = p => Lists(s, reg')
        /\ s.pc \in {"mark", "record"} => s.verified
    BY <1>0, <1>24, ConstantsTyped DEF PidRemove, GoTo, Lists, NoRecord, DaemonState, Alive
  <2> HIDE DEF s
  <2> QED  BY <1>0, <2>1, <2>2, <2>3, DaemonMoves DEF DaemonFrame
<1>25. CASE Kill(p)
  <2> DEFINE s == [d[p] EXCEPT !.pc = "killed"]
  <2>1. s \in DaemonState
    BY <1>0, <1>25 DEF Kill, GoTo, Unbind, DaemonState, DaemonPC
  <2>2. DaemonFrame(p, s)
    BY <1>25 DEF DaemonFrame, Kill, GoTo, Unbind
  <2>3. /\ reg' \in Record /\ (reg' = reg \/ reg'.pid \in {0, p})
        /\ reg'.pid = p => Lists(s, reg')
        /\ s.pc \in {"mark", "record"} => s.verified
    BY <1>0, <1>25, ConstantsTyped DEF Kill, GoTo, Unbind, Lists, NoRecord, DaemonState, Alive
  <2> HIDE DEF s
  <2> QED  BY <1>0, <2>1, <2>2, <2>3, DaemonMoves DEF DaemonFrame
<1>26. CASE Announce(p)
  <2>1. SetD(p, d[p])
    BY <1>26 DEF Announce, SetD, Inv, TypeOK
  <2>2. e' = e /\ bound' = bound /\ pidfile' = pidfile
    BY <1>26 DEF Announce
  <2>3. /\ reg' \in Record /\ (reg' = reg \/ reg'.pid \in {0, p})
        /\ reg'.pid = p => Lists(d[p], reg')
    BY <1>0, <1>26, ConstantsTyped DEF Announce, PublishHolder, Lists, DaemonState
  <2> QED  BY <1>0, <2>1, <2>2, <2>3, DaemonMoves
<1>27. CASE AgentFailed(p)
  <2>1. CASE p \in Supervised /\ Hold(p, "down")
    <3> DEFINE s == [d[p] EXCEPT !.pc = "down"]
    <3>1. s \in DaemonState
      BY <1>0, <1>27, <2>1 DEF AgentFailed, Hold, PublishHolderRecord, GoTo, DaemonState, DaemonPC
    <3>2. DaemonFrame(p, s)
      BY <1>27, <2>1 DEF DaemonFrame, AgentFailed, Hold, PublishHolderRecord, GoTo
    <3>3. /\ reg' \in Record /\ (reg' = reg \/ reg'.pid \in {0, p})
          /\ reg'.pid = p => Lists(s, reg')
          /\ s.pc \in {"mark", "record"} => s.verified
      BY <1>0, <1>27, <2>1, ConstantsTyped DEF AgentFailed, Hold, PublishHolderRecord, GoTo, Lists, NoRecord, DaemonState, Alive
    <3> HIDE DEF s
    <3> QED  BY <1>0, <3>1, <3>2, <3>3, DaemonMoves DEF DaemonFrame
  <2>2. CASE p \in Supervised /\ Hold(p, "refused")
    <3> DEFINE s == [d[p] EXCEPT !.pc = "refused"]
    <3>1. s \in DaemonState
      BY <1>0, <1>27, <2>2 DEF AgentFailed, Hold, PublishHolderRecord, GoTo, DaemonState, DaemonPC
    <3>2. DaemonFrame(p, s)
      BY <1>27, <2>2 DEF DaemonFrame, AgentFailed, Hold, PublishHolderRecord, GoTo
    <3>3. /\ reg' \in Record /\ (reg' = reg \/ reg'.pid \in {0, p})
          /\ reg'.pid = p => Lists(s, reg')
          /\ s.pc \in {"mark", "record"} => s.verified
      BY <1>0, <1>27, <2>2, ConstantsTyped DEF AgentFailed, Hold, PublishHolderRecord, GoTo, Lists, NoRecord, DaemonState, Alive
    <3> HIDE DEF s
    <3> QED  BY <1>0, <3>1, <3>2, <3>3, DaemonMoves DEF DaemonFrame
  <2>3. CASE p \notin Supervised
    <3> DEFINE s == [d[p] EXCEPT !.pc = "gone"]
    <3>1. s \in DaemonState
      BY <1>0, <1>27, <2>3 DEF AgentFailed, GoTo, DaemonState, DaemonPC
    <3>2. DaemonFrame(p, s)
      BY <1>27, <2>3 DEF DaemonFrame, AgentFailed, GoTo
    <3>3. /\ reg' \in Record /\ (reg' = reg \/ reg'.pid \in {0, p})
          /\ reg'.pid = p => Lists(s, reg')
          /\ s.pc \in {"mark", "record"} => s.verified
      BY <1>0, <1>27, <2>3, ConstantsTyped DEF AgentFailed, GoTo, Lists, NoRecord, DaemonState, Alive
    <3> HIDE DEF s
    <3> QED  BY <1>0, <3>1, <3>2, <3>3, DaemonMoves DEF DaemonFrame
  <2> QED  BY <1>27, <2>1, <2>2, <2>3 DEF AgentFailed
<1>28. CASE Connect(p)
  <2>1. CASE GoTo(p, "bind")
    <3> DEFINE s == [d[p] EXCEPT !.pc = "bind"]
    <3>1. s \in DaemonState
      BY <1>0, <1>28, <2>1 DEF Connect, GoTo, DaemonState, DaemonPC
    <3>2. DaemonFrame(p, s)
      BY <1>28, <2>1 DEF DaemonFrame, Connect, GoTo
    <3>3. /\ reg' \in Record /\ (reg' = reg \/ reg'.pid \in {0, p})
          /\ reg'.pid = p => Lists(s, reg')
          /\ s.pc \in {"mark", "record"} => s.verified
      BY <1>0, <1>28, <2>1, ConstantsTyped DEF Connect, GoTo, Lists, NoRecord, DaemonState, Alive
    <3> HIDE DEF s
    <3> QED  BY <1>0, <3>1, <3>2, <3>3, DaemonMoves DEF DaemonFrame
  <2>2. CASE SetD(p, [d[p] EXCEPT !.pc = "failed", !.final = FALSE])
    <3> DEFINE s == [d[p] EXCEPT !.pc = "failed", !.final = FALSE]
    <3>1. s \in DaemonState
      BY <1>0, <1>28, <2>2 DEF Connect, DaemonState, DaemonPC
    <3>2. DaemonFrame(p, s)
      BY <1>28, <2>2 DEF DaemonFrame, Connect
    <3>3. /\ reg' \in Record /\ (reg' = reg \/ reg'.pid \in {0, p})
          /\ reg'.pid = p => Lists(s, reg')
          /\ s.pc \in {"mark", "record"} => s.verified
      BY <1>0, <1>28, <2>2, ConstantsTyped DEF Connect, Lists, NoRecord, DaemonState, Alive
    <3> HIDE DEF s
    <3> QED  BY <1>0, <3>1, <3>2, <3>3, DaemonMoves DEF DaemonFrame
  <2>3. CASE SetD(p, [d[p] EXCEPT !.pc = "failed", !.final = TRUE])
    <3> DEFINE s == [d[p] EXCEPT !.pc = "failed", !.final = TRUE]
    <3>1. s \in DaemonState
      BY <1>0, <1>28, <2>3 DEF Connect, DaemonState, DaemonPC
    <3>2. DaemonFrame(p, s)
      BY <1>28, <2>3 DEF DaemonFrame, Connect
    <3>3. /\ reg' \in Record /\ (reg' = reg \/ reg'.pid \in {0, p})
          /\ reg'.pid = p => Lists(s, reg')
          /\ s.pc \in {"mark", "record"} => s.verified
      BY <1>0, <1>28, <2>3, ConstantsTyped DEF Connect, Lists, NoRecord, DaemonState, Alive
    <3> HIDE DEF s
    <3> QED  BY <1>0, <3>1, <3>2, <3>3, DaemonMoves DEF DaemonFrame
  <2> QED  BY <1>28, <2>1, <2>2, <2>3 DEF Connect
<1>29. CASE Rebind(p)
  <2>1. CASE SetD(p, [d[p] EXCEPT !.pc = "verify", !.verified = FALSE, !.listen = TRUE]) /\ bound' = p
    <3> DEFINE s == [d[p] EXCEPT !.pc = "verify", !.verified = FALSE, !.listen = TRUE]
    <3>1. s \in DaemonState
      BY <1>0, <1>29, <2>1 DEF Rebind, DaemonState, DaemonPC
    <3>2. DaemonFrame(p, s)
      BY <1>29, <2>1 DEF DaemonFrame, Rebind
    <3>3. /\ reg' \in Record /\ (reg' = reg \/ reg'.pid \in {0, p})
          /\ reg'.pid = p => Lists(s, reg')
          /\ s.pc \in {"mark", "record"} => s.verified
      BY <1>0, <1>29, <2>1, ConstantsTyped DEF Rebind, Lists, NoRecord, DaemonState, Alive
    <3> HIDE DEF s
    <3> QED  BY <1>0, <3>1, <3>2, <3>3, DaemonMoves DEF DaemonFrame
  <2>2. CASE SetD(p, [d[p] EXCEPT !.pc = "verify", !.verified = FALSE, !.listen = FALSE]) /\ bound' = bound
    <3> DEFINE s == [d[p] EXCEPT !.pc = "verify", !.verified = FALSE, !.listen = FALSE]
    <3>1. s \in DaemonState
      BY <1>0, <1>29, <2>2 DEF Rebind, DaemonState, DaemonPC
    <3>2. DaemonFrame(p, s)
      BY <1>29, <2>2 DEF DaemonFrame, Rebind
    <3>3. /\ reg' \in Record /\ (reg' = reg \/ reg'.pid \in {0, p})
          /\ reg'.pid = p => Lists(s, reg')
          /\ s.pc \in {"mark", "record"} => s.verified
      BY <1>0, <1>29, <2>2, ConstantsTyped DEF Rebind, Lists, NoRecord, DaemonState, Alive
    <3> HIDE DEF s
    <3> QED  BY <1>0, <3>1, <3>2, <3>3, DaemonMoves DEF DaemonFrame
  <2> QED  BY <1>29, <2>1, <2>2, <1>0 DEF Rebind, DaemonState
<1>30. CASE AttemptFailed(p)
  <2>1. CASE Hold(p, "refused")
    <3> DEFINE s == [d[p] EXCEPT !.pc = "refused"]
    <3>1. s \in DaemonState
      BY <1>0, <1>30, <2>1 DEF AttemptFailed, Hold, PublishHolderRecord, GoTo, DaemonState, DaemonPC
    <3>2. DaemonFrame(p, s)
      BY <1>30, <2>1 DEF DaemonFrame, AttemptFailed, Hold, PublishHolderRecord, GoTo
    <3>3. /\ reg' \in Record /\ (reg' = reg \/ reg'.pid \in {0, p})
          /\ reg'.pid = p => Lists(s, reg')
          /\ s.pc \in {"mark", "record"} => s.verified
      BY <1>0, <1>30, <2>1, ConstantsTyped DEF AttemptFailed, Hold, PublishHolderRecord, GoTo, Lists, NoRecord, DaemonState, Alive
    <3> HIDE DEF s
    <3> QED  BY <1>0, <3>1, <3>2, <3>3, DaemonMoves DEF DaemonFrame
  <2>2. CASE d[p].attempt < Retries /\ SetD(p, [d[p] EXCEPT !.pc = "backoff", !.attempt = @ + 1]) /\ reg' = reg
    <3> DEFINE s == [d[p] EXCEPT !.pc = "backoff", !.attempt = @ + 1]
    <3>1. s \in DaemonState
      BY <1>0, <1>30, <2>2, Bounds DEF AttemptFailed, DaemonState, DaemonPC
    <3>2. DaemonFrame(p, s)
      BY <1>30, <2>2, Bounds DEF DaemonFrame, AttemptFailed
    <3>3. /\ reg' \in Record /\ (reg' = reg \/ reg'.pid \in {0, p})
          /\ reg'.pid = p => Lists(s, reg')
          /\ s.pc \in {"mark", "record"} => s.verified
      BY <1>0, <1>30, <2>2, Bounds, ConstantsTyped DEF AttemptFailed, Lists, NoRecord, DaemonState, Alive
    <3> HIDE DEF s
    <3> QED  BY <1>0, <3>1, <3>2, <3>3, DaemonMoves DEF DaemonFrame
  <2>3. CASE Hold(p, "down")
    <3> DEFINE s == [d[p] EXCEPT !.pc = "down"]
    <3>1. s \in DaemonState
      BY <1>0, <1>30, <2>3 DEF AttemptFailed, Hold, PublishHolderRecord, GoTo, DaemonState, DaemonPC
    <3>2. DaemonFrame(p, s)
      BY <1>30, <2>3 DEF DaemonFrame, AttemptFailed, Hold, PublishHolderRecord, GoTo
    <3>3. /\ reg' \in Record /\ (reg' = reg \/ reg'.pid \in {0, p})
          /\ reg'.pid = p => Lists(s, reg')
          /\ s.pc \in {"mark", "record"} => s.verified
      BY <1>0, <1>30, <2>3, ConstantsTyped DEF AttemptFailed, Hold, PublishHolderRecord, GoTo, Lists, NoRecord, DaemonState, Alive
    <3> HIDE DEF s
    <3> QED  BY <1>0, <3>1, <3>2, <3>3, DaemonMoves DEF DaemonFrame
  <2>4. CASE GoTo(p, "gone") /\ reg' = reg
    <3> DEFINE s == [d[p] EXCEPT !.pc = "gone"]
    <3>1. s \in DaemonState
      BY <1>0, <1>30, <2>4 DEF AttemptFailed, GoTo, DaemonState, DaemonPC
    <3>2. DaemonFrame(p, s)
      BY <1>30, <2>4 DEF DaemonFrame, AttemptFailed, GoTo
    <3>3. /\ reg' \in Record /\ (reg' = reg \/ reg'.pid \in {0, p})
          /\ reg'.pid = p => Lists(s, reg')
          /\ s.pc \in {"mark", "record"} => s.verified
      BY <1>0, <1>30, <2>4, ConstantsTyped DEF AttemptFailed, GoTo, Lists, NoRecord, DaemonState, Alive
    <3> HIDE DEF s
    <3> QED  BY <1>0, <3>1, <3>2, <3>3, DaemonMoves DEF DaemonFrame
  <2> QED  BY <1>30, <2>1, <2>2, <2>3, <2>4, <1>0 DEF AttemptFailed, DaemonState
<1>31. CASE PortTaken(p)
  <2>1. CASE SetD(p, [d[p] EXCEPT !.listen = FALSE])
    <3> DEFINE s == [d[p] EXCEPT !.listen = FALSE]
    <3>1. s \in DaemonState
      BY <1>0, <1>31, <2>1 DEF PortTaken, DaemonState, DaemonPC
    <3>2. DaemonFrame(p, s)
      BY <1>31, <2>1 DEF DaemonFrame, PortTaken
    <3>3. /\ reg' \in Record /\ (reg' = reg \/ reg'.pid \in {0, p})
          /\ reg'.pid = p => Lists(s, reg')
          /\ s.pc \in {"mark", "record"} => s.verified
      BY <1>0, <1>31, <2>1, ConstantsTyped DEF PortTaken, Lists, NoRecord, DaemonState, Alive
    <3> HIDE DEF s
    <3> QED  BY <1>0, <3>1, <3>2, <3>3, DaemonMoves DEF DaemonFrame
  <2>2. CASE reg.pid # p /\ GoTo(p, "closing")
    <3> DEFINE s == [d[p] EXCEPT !.pc = "closing"]
    <3>1. s \in DaemonState
      BY <1>0, <1>31, <2>2 DEF PortTaken, GoTo, DaemonState, DaemonPC
    <3>2. DaemonFrame(p, s)
      BY <1>31, <2>2 DEF DaemonFrame, PortTaken, GoTo
    <3>3. /\ reg' \in Record /\ (reg' = reg \/ reg'.pid \in {0, p})
          /\ reg'.pid = p => Lists(s, reg')
          /\ s.pc \in {"mark", "record"} => s.verified
      BY <1>0, <1>31, <2>2, ConstantsTyped DEF PortTaken, GoTo, Lists, NoRecord, DaemonState, Alive
    <3> HIDE DEF s
    <3> QED  BY <1>0, <3>1, <3>2, <3>3, DaemonMoves DEF DaemonFrame
  <2> QED  BY <1>31, <2>1, <2>2 DEF PortTaken
<1>32. CASE Stop(p)
  <2>1. CASE SetD(p, [d[p] EXCEPT !.pc = "closing", !.stopped = TRUE]) /\ d[p].pc \in {"hold", "drop", "idle", "verify", "stop"} /\ bound' = bound
    <3> DEFINE s == [d[p] EXCEPT !.pc = "closing", !.stopped = TRUE]
    <3>1. s \in DaemonState
      BY <1>0, <1>32, <2>1 DEF Stop, DaemonState, DaemonPC
    <3>2. DaemonFrame(p, s)
      BY <1>32, <2>1 DEF DaemonFrame, Stop
    <3>3. /\ reg' \in Record /\ (reg' = reg \/ reg'.pid \in {0, p})
          /\ reg'.pid = p => Lists(s, reg')
          /\ s.pc \in {"mark", "record"} => s.verified
      BY <1>0, <1>32, <2>1, ConstantsTyped DEF Stop, Lists, NoRecord, DaemonState, Alive
    <3> HIDE DEF s
    <3> QED  BY <1>0, <3>1, <3>2, <3>3, DaemonMoves DEF DaemonFrame
  <2>2. CASE SetD(p, [d[p] EXCEPT !.pc = "holdcheck", !.stopped = TRUE]) /\ d[p].pc \in {"refused", "down"} /\ bound' = bound
    <3> DEFINE s == [d[p] EXCEPT !.pc = "holdcheck", !.stopped = TRUE]
    <3>1. s \in DaemonState
      BY <1>0, <1>32, <2>2 DEF Stop, DaemonState, DaemonPC
    <3>2. DaemonFrame(p, s)
      BY <1>32, <2>2 DEF DaemonFrame, Stop
    <3>3. /\ reg' \in Record /\ (reg' = reg \/ reg'.pid \in {0, p})
          /\ reg'.pid = p => Lists(s, reg')
          /\ s.pc \in {"mark", "record"} => s.verified
      BY <1>0, <1>32, <2>2, ConstantsTyped DEF Stop, Lists, NoRecord, DaemonState, Alive
    <3> HIDE DEF s
    <3> QED  BY <1>0, <3>1, <3>2, <3>3, DaemonMoves DEF DaemonFrame
  <2>3. CASE SetD(p, [d[p] EXCEPT !.pc = "killed", !.stopped = TRUE]) /\ Unbind(p)
    <3> DEFINE s == [d[p] EXCEPT !.pc = "killed", !.stopped = TRUE]
    <3>1. s \in DaemonState
      BY <1>0, <1>32, <2>3 DEF Stop, Unbind, DaemonState, DaemonPC
    <3>2. DaemonFrame(p, s)
      BY <1>32, <2>3 DEF DaemonFrame, Stop, Unbind
    <3>3. /\ reg' \in Record /\ (reg' = reg \/ reg'.pid \in {0, p})
          /\ reg'.pid = p => Lists(s, reg')
          /\ s.pc \in {"mark", "record"} => s.verified
      BY <1>0, <1>32, <2>3, ConstantsTyped DEF Stop, Unbind, Lists, NoRecord, DaemonState, Alive
    <3> HIDE DEF s
    <3> QED  BY <1>0, <3>1, <3>2, <3>3, DaemonMoves DEF DaemonFrame
  <2> QED  BY <1>32, <2>1, <2>2, <2>3 DEF Stop
<1> QED  BY <1>1, <1>2, <1>3, <1>4, <1>5, <1>6, <1>7, <1>8, <1>9, <1>10, <1>11, <1>12, <1>13, <1>14, <1>15, <1>16, <1>17, <1>18, <1>19, <1>20, <1>21, <1>22, <1>23, <1>24, <1>25, <1>26, <1>27, <1>28, <1>29, <1>30, <1>31, <1>32 DEF DaemonStep

\* A spawn starts a daemon that has no record yet.
LEMMA SpawnStep ==
  ASSUME Inv, NEW w \in Ensurer, Spawn(w)
  PROVE  Inv'
<1>1. PICK p \in Daemon :
        /\ d[p].pc = "off"
        /\ GoTo(p, "start")
        /\ SetE(w, [e[w] EXCEPT !.pc = "pidfile", !.child = p])
        /\ UNCHANGED <<bound, reg, pidfile>>
  BY DEF Spawn
<1>2. /\ d[p] \in DaemonState /\ e[w] \in EnsurerState /\ reg \in Record
      /\ e \in [Ensurer -> EnsurerState]
      /\ reg.pid = p => Lists(d[p], reg)
  BY DEF Inv, TypeOK, Marker
<1> DEFINE s == [d[p] EXCEPT !.pc = "start"]
<1>3. s \in DaemonState
  BY <1>2, PlacesTyped DEF Inv, DaemonPC
<1>4. [e[w] EXCEPT !.pc = "pidfile", !.child = p] \in EnsurerState
  BY <1>2 DEF EnsurerState, EnsurerPC
<1>5. e' \in [Ensurer -> EnsurerState]
  BY <1>1, <1>2, <1>4 DEF SetE
<1>6. reg.pid # p /\ s.pc = "start"
  BY <1>1, <1>2 DEF Lists, DaemonState
<1>7. SetD(p, s) /\ reg' = reg /\ bound' = bound /\ pidfile' = pidfile
  BY <1>1 DEF GoTo
<1> HIDE DEF s
<1> QED  BY <1>2, <1>3, <1>5, <1>6, <1>7, DaemonMoves

\* The invariant holds at first.
LEMMA InitInv == Init => Inv
<1> SUFFICES ASSUME Init PROVE Inv
  OBVIOUS
<1>1. \A w \in Ensurer : e[w] \in EnsurerState
  BY ConstantsTyped, Bounds DEF Init, NewEnsurer, EnsurerState, EnsurerPC
<1>2. TypeOK
  BY <1>1, ConstantsTyped DEF Init, TypeOK
<1>3. Marker
  <2>1. \A p \in Daemon : p # 0 /\ d[p] = NewDaemon
    BY EnsureAssumption DEF Init
  <2>2. reg.pid = 0 /\ NewDaemon.pc = "off"
    BY DEF Init, NoRecord, NewDaemon
  <2> QED  BY <2>1, <2>2 DEF Marker
<1> QED  BY <1>2, <1>3 DEF Inv

LEMMA NextInv == Inv /\ [Next]_vars => Inv'
<1> SUFFICES ASSUME Inv, [Next]_vars PROVE Inv'
  OBVIOUS
<1>1. CASE \E w \in Ensurer : Ensure(w) \/ EnsureStep(w)
  BY <1>1, EnsurerSteps, SpawnStep
<1>2. CASE \E p \in Daemon : Launch(p) \/ DaemonStep(p) \/ Drop(p) \/ Stop(p) \/ Kill(p)
  BY <1>2, DaemonSteps
<1>3. CASE ForeignLeaves
  BY <1>3 DEF ForeignLeaves, Inv, TypeOK, Marker
<1>4. CASE UNCHANGED vars
  BY <1>4 DEF vars, Inv, TypeOK, Marker
<1> QED  BY <1>1, <1>2, <1>3, <1>4 DEF Next

\* Every reachable state is well typed: no daemon makes more attempts than its
\* schedule has, and only a daemon's pid is ever on file.
THEOREM EnsureTypeCorrect == Spec => []TypeOK
<1>1. Inv => TypeOK
  BY DEF Inv
<1> QED  BY <1>1, InitInv, NextInv, PTL DEF Spec

\* The verified marker is what verifiedSessionOnPort takes it for, as long as
\* its daemon lives: a record that names a serving session is of a hold whose
\* present proxy has passed its verify.
THEOREM RecordIsAVerifiedMarker == Spec => []RecordMeansVerified
<1>1. Inv => RecordMeansVerified
  BY DEF Inv, Marker, Lists, RecordMeansVerified, Alive
<1> QED  BY <1>1, InitInv, NextInv, PTL DEF Spec

-----------------------------------------------------------------------------
(* The verified gate: "up" means a verified proxy.                         *)

\* Where a daemon is before it holds its first session.
Before ==
  {"off", "start", "busy", "agent", "connect", "bind", "failed", "backoff", "refused", "down",
   "holdcheck", "holdunlink", "mark", "record"}

\* Daemon p in state s, with b on the port and r on file: from the bind to the
\* end of a hold its endpoint's port is its own, whoever else tries it; and a
\* file that says its session serves is there only while it holds one.
Stands(p, s, b, r) ==
  /\ s.pc \in Before => ~s.holding
  /\ s.pc \in {"hold", "drop", "idle"} => s.holding
  /\ s.pc \in {"mark", "record", "hold"} => s.verified
  /\ s.pinned /\ (s.pc \in {"mark", "record", "hold"} \/ (s.pc = "verify" /\ ~s.holding)) => b = p
  /\ s.pc = "verify" /\ s.holding /\ s.listen => b = p
  /\ r.pid = p /\ ~r.noProxy => s.pc = "hold" /\ s.pinned

AllStand == \A p \in Daemon : Stands(p, d[p], bound, reg)

\* A serving hold ends only by a renewal of its own: no kill and no stop.
HoldStays(p) == d[p].pc = "hold" => d'[p].pc \in {"hold", "drop"}

\* A step of one daemon takes no other's port, and no other's file but to
\* write its own or none.
LEMMA StandMoves ==
  ASSUME Inv, AllStand, NEW p \in Daemon, NEW s, SetD(p, s), e' = e,
         bound' = bound \/ bound \in {0, p},
         reg' = reg \/ reg'.pid \in {0, p},
         Stands(p, s, bound', reg')
  PROVE  AllStand' /\ e' = e
<1> SUFFICES ASSUME NEW q \in Daemon
             PROVE  Stands(q, d'[q], bound', reg')
  BY DEF AllStand, Stands, Before
<1>1. CASE q = p
  BY <1>1 DEF SetD, Inv, TypeOK
<1>2. CASE q # p
  <2>1. d'[q] = d[q] /\ q # 0
    BY <1>2, EnsureAssumption DEF SetD, Inv, TypeOK
  <2>2. (bound = q => bound' = q) /\ (reg'.pid = q => reg' = reg)
    BY <1>2, <2>1
  <2> QED  BY <2>1, <2>2 DEF AllStand, Stands
<1> QED  BY <1>1, <1>2

\* Every step of a daemon keeps its port, its marker and the others'.
LEMMA DaemonStands ==
  ASSUME Inv, AllStand, NEW p \in Daemon, HoldStays(p),
         Launch(p) \/ DaemonStep(p) \/ Drop(p) \/ Stop(p) \/ Kill(p)
  PROVE  AllStand' /\ e' = e
<1>0. /\ d[p] \in DaemonState /\ reg \in Record /\ d \in [Daemon -> DaemonState]
      /\ Stands(p, d[p], bound, reg)
      /\ d[p].pc = "hold" => d'[p].pc \in {"hold", "drop"}
      /\ p # 0 /\ bound \in Daemon \cup Foreign \cup {0}
  BY EnsureAssumption DEF Inv, TypeOK, AllStand, HoldStays
<1>1. CASE Launch(p)
  <2> DEFINE s == [d[p] EXCEPT !.pc = "start"]
  <2>1. DaemonFrame(p, s)
    BY <1>1 DEF DaemonFrame, Launch, GoTo
  <2>2. /\ reg' = reg \/ reg'.pid \in {0, p}
        /\ bound' = bound \/ bound \in {0, p}
        /\ Stands(p, s, bound', reg')
    BY <1>0, <1>1, ConstantsTyped DEF Launch, GoTo, Stands, Before, NoRecord, DaemonState
  <2> HIDE DEF s
  <2> QED  BY <1>0, <2>1, <2>2, StandMoves DEF DaemonFrame
<1>2. CASE TryPort(p)
  <2> DEFINE s == [d[p] EXCEPT !.pc = IF bound = 0 THEN "agent" ELSE "busy"]
  <2>1. DaemonFrame(p, s)
    BY <1>2 DEF DaemonFrame, TryPort
  <2>2. /\ reg' = reg \/ reg'.pid \in {0, p}
        /\ bound' = bound \/ bound \in {0, p}
        /\ Stands(p, s, bound', reg')
    BY <1>0, <1>2, ConstantsTyped DEF TryPort, Stands, Before, NoRecord, DaemonState
  <2> HIDE DEF s
  <2> QED  BY <1>0, <2>1, <2>2, StandMoves DEF DaemonFrame
<1>3. CASE PortBusy(p)
  <2> DEFINE s == IF Answers /\ p \notin Supervised THEN [d[p] EXCEPT !.pc = "gone", !.ensured = TRUE]
                                         ELSE [d[p] EXCEPT !.pc = "agent", !.pinned = FALSE, !.listen = FALSE, !.home = FALSE]
  <2>1. DaemonFrame(p, s)
    BY <1>3 DEF DaemonFrame, PortBusy
  <2>2. /\ reg' = reg \/ reg'.pid \in {0, p}
        /\ bound' = bound \/ bound \in {0, p}
        /\ Stands(p, s, bound', reg')
    BY <1>0, <1>3, ConstantsTyped DEF PortBusy, Stands, Before, NoRecord, DaemonState
  <2> HIDE DEF s
  <2> QED  BY <1>0, <2>1, <2>2, StandMoves DEF DaemonFrame
<1>4. CASE ResolveAgent(p)
  <2> DEFINE s == [d[p] EXCEPT !.pc = "connect", !.resolved = TRUE]
  <2>1. DaemonFrame(p, s)
    BY <1>4 DEF DaemonFrame, ResolveAgent
  <2>2. /\ reg' = reg \/ reg'.pid \in {0, p}
        /\ bound' = bound \/ bound \in {0, p}
        /\ Stands(p, s, bound', reg')
    BY <1>0, <1>4, ConstantsTyped DEF ResolveAgent, Stands, Before, NoRecord, DaemonState
  <2> HIDE DEF s
  <2> QED  BY <1>0, <2>1, <2>2, StandMoves DEF DaemonFrame
<1>5. CASE LocalFailed(p)
  <2> DEFINE s == [d[p] EXCEPT !.pc = "gone"]
  <2>1. DaemonFrame(p, s)
    BY <1>5 DEF DaemonFrame, LocalFailed, GoTo
  <2>2. /\ reg' = reg \/ reg'.pid \in {0, p}
        /\ bound' = bound \/ bound \in {0, p}
        /\ Stands(p, s, bound', reg')
    BY <1>0, <1>5, ConstantsTyped DEF LocalFailed, GoTo, Stands, Before, NoRecord, DaemonState
  <2> HIDE DEF s
  <2> QED  BY <1>0, <2>1, <2>2, StandMoves DEF DaemonFrame
<1>6. CASE BindPort(p)
  <2> DEFINE s == IF d[p].pinned /\ bound # 0 THEN [d[p] EXCEPT !.pc = "failed", !.final = FALSE]
                                   ELSE [d[p] EXCEPT !.pc = "verify", !.verified = FALSE]
  <2>1. DaemonFrame(p, s)
    BY <1>6 DEF DaemonFrame, BindPort
  <2>2. /\ reg' = reg \/ reg'.pid \in {0, p}
        /\ bound' = bound \/ bound \in {0, p}
        /\ Stands(p, s, bound', reg')
    BY <1>0, <1>6, ConstantsTyped DEF BindPort, Stands, Before, NoRecord, DaemonState
  <2> HIDE DEF s
  <2> QED  BY <1>0, <2>1, <2>2, StandMoves DEF DaemonFrame
<1>7. CASE VerifyOk(p)
  <2> DEFINE s == [d[p] EXCEPT !.pc = "mark", !.verified = TRUE]
  <2>1. DaemonFrame(p, s)
    BY <1>7 DEF DaemonFrame, VerifyOk
  <2>2. /\ reg' = reg \/ reg'.pid \in {0, p}
        /\ bound' = bound \/ bound \in {0, p}
        /\ Stands(p, s, bound', reg')
    BY <1>0, <1>7, ConstantsTyped DEF VerifyOk, Stands, Before, NoRecord, DaemonState
  <2> HIDE DEF s
  <2> QED  BY <1>0, <2>1, <2>2, StandMoves DEF DaemonFrame
<1>8. CASE VerifyFailed(p)
  <2> DEFINE s == [d[p] EXCEPT !.pc = "stop"]
  <2>1. DaemonFrame(p, s)
    BY <1>8 DEF DaemonFrame, VerifyFailed, GoTo
  <2>2. /\ reg' = reg \/ reg'.pid \in {0, p}
        /\ bound' = bound \/ bound \in {0, p}
        /\ Stands(p, s, bound', reg')
    BY <1>0, <1>8, ConstantsTyped DEF VerifyFailed, GoTo, Stands, Before, NoRecord, DaemonState
  <2> HIDE DEF s
  <2> QED  BY <1>0, <2>1, <2>2, StandMoves DEF DaemonFrame
<1>9. CASE StopFailed(p)
  <2> DEFINE s == [d[p] EXCEPT !.pc = "failed", !.final = FALSE]
  <2>1. DaemonFrame(p, s)
    BY <1>9 DEF DaemonFrame, StopFailed, Unbind
  <2>2. /\ reg' = reg \/ reg'.pid \in {0, p}
        /\ bound' = bound \/ bound \in {0, p}
        /\ Stands(p, s, bound', reg')
    BY <1>0, <1>9, ConstantsTyped DEF StopFailed, Unbind, Stands, Before, NoRecord, DaemonState
  <2> HIDE DEF s
  <2> QED  BY <1>0, <2>1, <2>2, StandMoves DEF DaemonFrame
<1>10. CASE BackoffOver(p)
  <2> DEFINE s == IF d[p].pinned /\ Answers THEN [d[p] EXCEPT !.pc = "gone", !.ensured = TRUE]
                                 ELSE [d[p] EXCEPT !.pc = "connect"]
  <2>1. DaemonFrame(p, s)
    BY <1>10 DEF DaemonFrame, BackoffOver
  <2>2. /\ reg' = reg \/ reg'.pid \in {0, p}
        /\ bound' = bound \/ bound \in {0, p}
        /\ Stands(p, s, bound', reg')
    BY <1>0, <1>10, ConstantsTyped DEF BackoffOver, Stands, Before, NoRecord, DaemonState
  <2> HIDE DEF s
  <2> QED  BY <1>0, <2>1, <2>2, StandMoves DEF DaemonFrame
<1>11. CASE HoldOver(p)
  <2> DEFINE s == [d[p] EXCEPT !.pc = "holdcheck", !.final = d[p].pc = "refused"]
  <2>1. DaemonFrame(p, s)
    BY <1>11 DEF DaemonFrame, HoldOver
  <2>2. /\ reg' = reg \/ reg'.pid \in {0, p}
        /\ bound' = bound \/ bound \in {0, p}
        /\ Stands(p, s, bound', reg')
    BY <1>0, <1>11, ConstantsTyped DEF HoldOver, Stands, Before, NoRecord, DaemonState
  <2> HIDE DEF s
  <2> QED  BY <1>0, <2>1, <2>2, StandMoves DEF DaemonFrame
<1>12. CASE HoldCheck(p)
  <2> DEFINE s == IF reg.pid = p /\ d[p].pinned THEN [d[p] EXCEPT !.pc = "holdunlink"] ELSE AfterHold(p)
  <2>1. DaemonFrame(p, s)
    BY <1>12 DEF DaemonFrame, HoldCheck, AfterHold
  <2>2. /\ reg' = reg \/ reg'.pid \in {0, p}
        /\ bound' = bound \/ bound \in {0, p}
        /\ Stands(p, s, bound', reg')
    BY <1>0, <1>12, ConstantsTyped DEF HoldCheck, AfterHold, Stands, Before, NoRecord, DaemonState
  <2> HIDE DEF s
  <2> QED  BY <1>0, <2>1, <2>2, StandMoves DEF DaemonFrame
<1>13. CASE HoldUnlink(p)
  <2> DEFINE s == AfterHold(p)
  <2>1. DaemonFrame(p, s)
    BY <1>13 DEF DaemonFrame, HoldUnlink, AfterHold
  <2>2. /\ reg' = reg \/ reg'.pid \in {0, p}
        /\ bound' = bound \/ bound \in {0, p}
        /\ Stands(p, s, bound', reg')
    BY <1>0, <1>13, ConstantsTyped DEF HoldUnlink, AfterHold, Stands, Before, NoRecord, DaemonState
  <2> HIDE DEF s
  <2> QED  BY <1>0, <2>1, <2>2, StandMoves DEF DaemonFrame
<1>14. CASE Mark(p)
  <2> DEFINE s == [d[p] EXCEPT !.pc = "record"]
  <2>1. DaemonFrame(p, s)
    BY <1>14 DEF DaemonFrame, Mark, GoTo
  <2>2. /\ reg' = reg \/ reg'.pid \in {0, p}
        /\ bound' = bound \/ bound \in {0, p}
        /\ Stands(p, s, bound', reg')
    BY <1>0, <1>14, ConstantsTyped DEF Mark, GoTo, Stands, Before, NoRecord, DaemonState
  <2> HIDE DEF s
  <2> QED  BY <1>0, <2>1, <2>2, StandMoves DEF DaemonFrame
<1>15. CASE WriteRecord(p)
  <2> DEFINE s == [d[p] EXCEPT !.pc = "hold", !.holding = TRUE]
  <2>1. DaemonFrame(p, s)
    BY <1>15 DEF DaemonFrame, WriteRecord
  <2>2. /\ reg' = reg \/ reg'.pid \in {0, p}
        /\ bound' = bound \/ bound \in {0, p}
        /\ Stands(p, s, bound', reg')
    BY <1>0, <1>15, ConstantsTyped DEF WriteRecord, Stands, Before, NoRecord, DaemonState
  <2> HIDE DEF s
  <2> QED  BY <1>0, <2>1, <2>2, StandMoves DEF DaemonFrame
<1>16. CASE Drop(p)
  <2> DEFINE s == [d[p] EXCEPT !.pc = "drop"]
  <2>1. DaemonFrame(p, s)
    BY <1>16 DEF DaemonFrame, Drop, GoTo, PublishHolder
  <2>2. /\ reg' = reg \/ reg'.pid \in {0, p}
        /\ bound' = bound \/ bound \in {0, p}
        /\ Stands(p, s, bound', reg')
    BY <1>0, <1>16, ConstantsTyped DEF Drop, GoTo, PublishHolder, Stands, Before, NoRecord, DaemonState
  <2> HIDE DEF s
  <2> QED  BY <1>0, <2>1, <2>2, StandMoves DEF DaemonFrame
<1>17. CASE Dropped(p)
  <2> DEFINE s == [d[p] EXCEPT !.pc = "idle"]
  <2>1. DaemonFrame(p, s)
    BY <1>17 DEF DaemonFrame, Dropped, GoTo, Unbind
  <2>2. /\ reg' = reg \/ reg'.pid \in {0, p}
        /\ bound' = bound \/ bound \in {0, p}
        /\ Stands(p, s, bound', reg')
    BY <1>0, <1>17, ConstantsTyped DEF Dropped, GoTo, Unbind, Stands, Before, NoRecord, DaemonState
  <2> HIDE DEF s
  <2> QED  BY <1>0, <2>1, <2>2, StandMoves DEF DaemonFrame
<1>18. CASE Adopt(p)
  <2> DEFINE s == [d[p] EXCEPT !.pc = "hold", !.verified = TRUE, !.pinned = d[p].listen]
  <2>1. DaemonFrame(p, s)
    BY <1>18 DEF DaemonFrame, Adopt
  <2>2. /\ reg' = reg \/ reg'.pid \in {0, p}
        /\ bound' = bound \/ bound \in {0, p}
        /\ Stands(p, s, bound', reg')
    BY <1>0, <1>18, ConstantsTyped DEF Adopt, Stands, Before, NoRecord, DaemonState
  <2> HIDE DEF s
  <2> QED  BY <1>0, <2>1, <2>2, StandMoves DEF DaemonFrame
<1>19. CASE RebindFailed(p)
  <2> DEFINE s == [d[p] EXCEPT !.pc = "idle"]
  <2>1. DaemonFrame(p, s)
    BY <1>19 DEF DaemonFrame, RebindFailed, GoTo, Unbind, PublishHolder
  <2>2. /\ reg' = reg \/ reg'.pid \in {0, p}
        /\ bound' = bound \/ bound \in {0, p}
        /\ Stands(p, s, bound', reg')
    BY <1>0, <1>19, ConstantsTyped DEF RebindFailed, GoTo, Unbind, PublishHolder, Stands, Before, NoRecord, DaemonState
  <2> HIDE DEF s
  <2> QED  BY <1>0, <2>1, <2>2, StandMoves DEF DaemonFrame
<1>20. CASE CloseStop(p)
  <2> DEFINE s == [d[p] EXCEPT !.pc = "closecheck"]
  <2>1. DaemonFrame(p, s)
    BY <1>20 DEF DaemonFrame, CloseStop, GoTo, Unbind
  <2>2. /\ reg' = reg \/ reg'.pid \in {0, p}
        /\ bound' = bound \/ bound \in {0, p}
        /\ Stands(p, s, bound', reg')
    BY <1>0, <1>20, ConstantsTyped DEF CloseStop, GoTo, Unbind, Stands, Before, NoRecord, DaemonState
  <2> HIDE DEF s
  <2> QED  BY <1>0, <2>1, <2>2, StandMoves DEF DaemonFrame
<1>21. CASE CloseCheck(p)
  <2> DEFINE s == [d[p] EXCEPT !.pc = IF reg.pid = p /\ d[p].pinned THEN "unlink" ELSE "pidread"]
  <2>1. DaemonFrame(p, s)
    BY <1>21 DEF DaemonFrame, CloseCheck, GoTo
  <2>2. /\ reg' = reg \/ reg'.pid \in {0, p}
        /\ bound' = bound \/ bound \in {0, p}
        /\ Stands(p, s, bound', reg')
    BY <1>0, <1>21, ConstantsTyped DEF CloseCheck, GoTo, Stands, Before, NoRecord, DaemonState
  <2> HIDE DEF s
  <2> QED  BY <1>0, <2>1, <2>2, StandMoves DEF DaemonFrame
<1>22. CASE CloseUnlink(p)
  <2> DEFINE s == [d[p] EXCEPT !.pc = "pidread"]
  <2>1. DaemonFrame(p, s)
    BY <1>22 DEF DaemonFrame, CloseUnlink, GoTo
  <2>2. /\ reg' = reg \/ reg'.pid \in {0, p}
        /\ bound' = bound \/ bound \in {0, p}
        /\ Stands(p, s, bound', reg')
    BY <1>0, <1>22, ConstantsTyped DEF CloseUnlink, GoTo, Stands, Before, NoRecord, DaemonState
  <2> HIDE DEF s
  <2> QED  BY <1>0, <2>1, <2>2, StandMoves DEF DaemonFrame
<1>23. CASE PidRead(p)
  <2> DEFINE s == [d[p] EXCEPT !.pc = IF pidfile = p THEN "piddel" ELSE "gone"]
  <2>1. DaemonFrame(p, s)
    BY <1>23 DEF DaemonFrame, PidRead, GoTo
  <2>2. /\ reg' = reg \/ reg'.pid \in {0, p}
        /\ bound' = bound \/ bound \in {0, p}
        /\ Stands(p, s, bound', reg')
    BY <1>0, <1>23, ConstantsTyped DEF PidRead, GoTo, Stands, Before, NoRecord, DaemonState
  <2> HIDE DEF s
  <2> QED  BY <1>0, <2>1, <2>2, StandMoves DEF DaemonFrame
<1>24. CASE PidRemove(p)
  <2> DEFINE s == [d[p] EXCEPT !.pc = "gone"]
  <2>1. DaemonFrame(p, s)
    BY <1>24 DEF DaemonFrame, PidRemove, GoTo
  <2>2. /\ reg' = reg \/ reg'.pid \in {0, p}
        /\ bound' = bound \/ bound \in {0, p}
        /\ Stands(p, s, bound', reg')
    BY <1>0, <1>24, ConstantsTyped DEF PidRemove, GoTo, Stands, Before, NoRecord, DaemonState
  <2> HIDE DEF s
  <2> QED  BY <1>0, <2>1, <2>2, StandMoves DEF DaemonFrame
<1>25. CASE Kill(p)
  <2>0. d[p].pc # "hold"
    BY <1>0, <1>25 DEF Kill, GoTo, SetD, DaemonState
  <2> DEFINE s == [d[p] EXCEPT !.pc = "killed"]
  <2>1. DaemonFrame(p, s)
    BY <1>25 DEF DaemonFrame, Kill, GoTo, Unbind
  <2>2. /\ reg' = reg \/ reg'.pid \in {0, p}
        /\ bound' = bound \/ bound \in {0, p}
        /\ Stands(p, s, bound', reg')
    BY <1>0, <1>25, <2>0, ConstantsTyped DEF Kill, GoTo, Unbind, Stands, Before, NoRecord, DaemonState
  <2> HIDE DEF s
  <2> QED  BY <1>0, <2>1, <2>2, StandMoves DEF DaemonFrame
<1>26. CASE Announce(p)
  <2>1. SetD(p, d[p])
    BY <1>26 DEF Announce, SetD, Inv, TypeOK
  <2>2. e' = e /\ bound' = bound /\ pidfile' = pidfile
    BY <1>26 DEF Announce
  <2>3. /\ reg' = reg \/ reg'.pid \in {0, p}
        /\ bound' = bound \/ bound \in {0, p}
        /\ Stands(p, d[p], bound', reg')
    BY <1>0, <1>26, ConstantsTyped DEF Announce, PublishHolder, Stands, Before, DaemonState
  <2> QED  BY <1>0, <2>1, <2>2, <2>3, StandMoves
<1>27. CASE AgentFailed(p)
  <2>1. CASE p \in Supervised /\ Hold(p, "down")
    <3> DEFINE s == [d[p] EXCEPT !.pc = "down"]
    <3>1. DaemonFrame(p, s)
      BY <1>27, <2>1 DEF DaemonFrame, AgentFailed, Hold, PublishHolderRecord, GoTo
    <3>2. /\ reg' = reg \/ reg'.pid \in {0, p}
          /\ bound' = bound \/ bound \in {0, p}
          /\ Stands(p, s, bound', reg')
      BY <1>0, <1>27, <2>1, ConstantsTyped DEF AgentFailed, Hold, PublishHolderRecord, GoTo, Stands, Before, NoRecord, DaemonState
    <3> HIDE DEF s
    <3> QED  BY <1>0, <3>1, <3>2, StandMoves DEF DaemonFrame
  <2>2. CASE p \in Supervised /\ Hold(p, "refused")
    <3> DEFINE s == [d[p] EXCEPT !.pc = "refused"]
    <3>1. DaemonFrame(p, s)
      BY <1>27, <2>2 DEF DaemonFrame, AgentFailed, Hold, PublishHolderRecord, GoTo
    <3>2. /\ reg' = reg \/ reg'.pid \in {0, p}
          /\ bound' = bound \/ bound \in {0, p}
          /\ Stands(p, s, bound', reg')
      BY <1>0, <1>27, <2>2, ConstantsTyped DEF AgentFailed, Hold, PublishHolderRecord, GoTo, Stands, Before, NoRecord, DaemonState
    <3> HIDE DEF s
    <3> QED  BY <1>0, <3>1, <3>2, StandMoves DEF DaemonFrame
  <2>3. CASE p \notin Supervised
    <3> DEFINE s == [d[p] EXCEPT !.pc = "gone"]
    <3>1. DaemonFrame(p, s)
      BY <1>27, <2>3 DEF DaemonFrame, AgentFailed, GoTo
    <3>2. /\ reg' = reg \/ reg'.pid \in {0, p}
          /\ bound' = bound \/ bound \in {0, p}
          /\ Stands(p, s, bound', reg')
      BY <1>0, <1>27, <2>3, ConstantsTyped DEF AgentFailed, GoTo, Stands, Before, NoRecord, DaemonState
    <3> HIDE DEF s
    <3> QED  BY <1>0, <3>1, <3>2, StandMoves DEF DaemonFrame
  <2> QED  BY <1>27, <2>1, <2>2, <2>3 DEF AgentFailed
<1>28. CASE Connect(p)
  <2>1. CASE GoTo(p, "bind")
    <3> DEFINE s == [d[p] EXCEPT !.pc = "bind"]
    <3>1. DaemonFrame(p, s)
      BY <1>28, <2>1 DEF DaemonFrame, Connect, GoTo
    <3>2. /\ reg' = reg \/ reg'.pid \in {0, p}
          /\ bound' = bound \/ bound \in {0, p}
          /\ Stands(p, s, bound', reg')
      BY <1>0, <1>28, <2>1, ConstantsTyped DEF Connect, GoTo, Stands, Before, NoRecord, DaemonState
    <3> HIDE DEF s
    <3> QED  BY <1>0, <3>1, <3>2, StandMoves DEF DaemonFrame
  <2>2. CASE SetD(p, [d[p] EXCEPT !.pc = "failed", !.final = FALSE])
    <3> DEFINE s == [d[p] EXCEPT !.pc = "failed", !.final = FALSE]
    <3>1. DaemonFrame(p, s)
      BY <1>28, <2>2 DEF DaemonFrame, Connect
    <3>2. /\ reg' = reg \/ reg'.pid \in {0, p}
          /\ bound' = bound \/ bound \in {0, p}
          /\ Stands(p, s, bound', reg')
      BY <1>0, <1>28, <2>2, ConstantsTyped DEF Connect, Stands, Before, NoRecord, DaemonState
    <3> HIDE DEF s
    <3> QED  BY <1>0, <3>1, <3>2, StandMoves DEF DaemonFrame
  <2>3. CASE SetD(p, [d[p] EXCEPT !.pc = "failed", !.final = TRUE])
    <3> DEFINE s == [d[p] EXCEPT !.pc = "failed", !.final = TRUE]
    <3>1. DaemonFrame(p, s)
      BY <1>28, <2>3 DEF DaemonFrame, Connect
    <3>2. /\ reg' = reg \/ reg'.pid \in {0, p}
          /\ bound' = bound \/ bound \in {0, p}
          /\ Stands(p, s, bound', reg')
      BY <1>0, <1>28, <2>3, ConstantsTyped DEF Connect, Stands, Before, NoRecord, DaemonState
    <3> HIDE DEF s
    <3> QED  BY <1>0, <3>1, <3>2, StandMoves DEF DaemonFrame
  <2> QED  BY <1>28, <2>1, <2>2, <2>3 DEF Connect
<1>29. CASE Rebind(p)
  <2>1. CASE SetD(p, [d[p] EXCEPT !.pc = "verify", !.verified = FALSE, !.listen = TRUE]) /\ bound' = p
    <3> DEFINE s == [d[p] EXCEPT !.pc = "verify", !.verified = FALSE, !.listen = TRUE]
    <3>1. DaemonFrame(p, s)
      BY <1>29, <2>1 DEF DaemonFrame, Rebind
    <3>2. /\ reg' = reg \/ reg'.pid \in {0, p}
          /\ bound' = bound \/ bound \in {0, p}
          /\ Stands(p, s, bound', reg')
      BY <1>0, <1>29, <2>1, ConstantsTyped DEF Rebind, Stands, Before, NoRecord, DaemonState
    <3> HIDE DEF s
    <3> QED  BY <1>0, <3>1, <3>2, StandMoves DEF DaemonFrame
  <2>2. CASE SetD(p, [d[p] EXCEPT !.pc = "verify", !.verified = FALSE, !.listen = FALSE]) /\ bound' = bound
    <3> DEFINE s == [d[p] EXCEPT !.pc = "verify", !.verified = FALSE, !.listen = FALSE]
    <3>1. DaemonFrame(p, s)
      BY <1>29, <2>2 DEF DaemonFrame, Rebind
    <3>2. /\ reg' = reg \/ reg'.pid \in {0, p}
          /\ bound' = bound \/ bound \in {0, p}
          /\ Stands(p, s, bound', reg')
      BY <1>0, <1>29, <2>2, ConstantsTyped DEF Rebind, Stands, Before, NoRecord, DaemonState
    <3> HIDE DEF s
    <3> QED  BY <1>0, <3>1, <3>2, StandMoves DEF DaemonFrame
  <2> QED  BY <1>29, <2>1, <2>2, <1>0 DEF Rebind, DaemonState
<1>30. CASE AttemptFailed(p)
  <2>1. CASE Hold(p, "refused")
    <3> DEFINE s == [d[p] EXCEPT !.pc = "refused"]
    <3>1. DaemonFrame(p, s)
      BY <1>30, <2>1 DEF DaemonFrame, AttemptFailed, Hold, PublishHolderRecord, GoTo
    <3>2. /\ reg' = reg \/ reg'.pid \in {0, p}
          /\ bound' = bound \/ bound \in {0, p}
          /\ Stands(p, s, bound', reg')
      BY <1>0, <1>30, <2>1, ConstantsTyped DEF AttemptFailed, Hold, PublishHolderRecord, GoTo, Stands, Before, NoRecord, DaemonState
    <3> HIDE DEF s
    <3> QED  BY <1>0, <3>1, <3>2, StandMoves DEF DaemonFrame
  <2>2. CASE d[p].attempt < Retries /\ SetD(p, [d[p] EXCEPT !.pc = "backoff", !.attempt = @ + 1]) /\ reg' = reg
    <3> DEFINE s == [d[p] EXCEPT !.pc = "backoff", !.attempt = @ + 1]
    <3>1. DaemonFrame(p, s)
      BY <1>30, <2>2, Bounds DEF DaemonFrame, AttemptFailed
    <3>2. /\ reg' = reg \/ reg'.pid \in {0, p}
          /\ bound' = bound \/ bound \in {0, p}
          /\ Stands(p, s, bound', reg')
      BY <1>0, <1>30, <2>2, Bounds, ConstantsTyped DEF AttemptFailed, Stands, Before, NoRecord, DaemonState
    <3> HIDE DEF s
    <3> QED  BY <1>0, <3>1, <3>2, StandMoves DEF DaemonFrame
  <2>3. CASE Hold(p, "down")
    <3> DEFINE s == [d[p] EXCEPT !.pc = "down"]
    <3>1. DaemonFrame(p, s)
      BY <1>30, <2>3 DEF DaemonFrame, AttemptFailed, Hold, PublishHolderRecord, GoTo
    <3>2. /\ reg' = reg \/ reg'.pid \in {0, p}
          /\ bound' = bound \/ bound \in {0, p}
          /\ Stands(p, s, bound', reg')
      BY <1>0, <1>30, <2>3, ConstantsTyped DEF AttemptFailed, Hold, PublishHolderRecord, GoTo, Stands, Before, NoRecord, DaemonState
    <3> HIDE DEF s
    <3> QED  BY <1>0, <3>1, <3>2, StandMoves DEF DaemonFrame
  <2>4. CASE GoTo(p, "gone") /\ reg' = reg
    <3> DEFINE s == [d[p] EXCEPT !.pc = "gone"]
    <3>1. DaemonFrame(p, s)
      BY <1>30, <2>4 DEF DaemonFrame, AttemptFailed, GoTo
    <3>2. /\ reg' = reg \/ reg'.pid \in {0, p}
          /\ bound' = bound \/ bound \in {0, p}
          /\ Stands(p, s, bound', reg')
      BY <1>0, <1>30, <2>4, ConstantsTyped DEF AttemptFailed, GoTo, Stands, Before, NoRecord, DaemonState
    <3> HIDE DEF s
    <3> QED  BY <1>0, <3>1, <3>2, StandMoves DEF DaemonFrame
  <2> QED  BY <1>30, <2>1, <2>2, <2>3, <2>4, <1>0 DEF AttemptFailed, DaemonState
<1>31. CASE PortTaken(p)
  <2>1. CASE SetD(p, [d[p] EXCEPT !.listen = FALSE])
    <3> DEFINE s == [d[p] EXCEPT !.listen = FALSE]
    <3>1. DaemonFrame(p, s)
      BY <1>31, <2>1 DEF DaemonFrame, PortTaken
    <3>2. /\ reg' = reg \/ reg'.pid \in {0, p}
          /\ bound' = bound \/ bound \in {0, p}
          /\ Stands(p, s, bound', reg')
      BY <1>0, <1>31, <2>1, ConstantsTyped DEF PortTaken, Stands, Before, NoRecord, DaemonState
    <3> HIDE DEF s
    <3> QED  BY <1>0, <3>1, <3>2, StandMoves DEF DaemonFrame
  <2>2. CASE reg.pid # p /\ GoTo(p, "closing")
    <3> DEFINE s == [d[p] EXCEPT !.pc = "closing"]
    <3>1. DaemonFrame(p, s)
      BY <1>31, <2>2 DEF DaemonFrame, PortTaken, GoTo
    <3>2. /\ reg' = reg \/ reg'.pid \in {0, p}
          /\ bound' = bound \/ bound \in {0, p}
          /\ Stands(p, s, bound', reg')
      BY <1>0, <1>31, <2>2, ConstantsTyped DEF PortTaken, GoTo, Stands, Before, NoRecord, DaemonState
    <3> HIDE DEF s
    <3> QED  BY <1>0, <3>1, <3>2, StandMoves DEF DaemonFrame
  <2> QED  BY <1>31, <2>1, <2>2 DEF PortTaken
<1>32. CASE Stop(p)
  <2>0. d[p].pc # "hold"
    <3>1. \A x : SetD(p, x) => d'[p] = x
      BY <1>0 DEF SetD
    <3>2. \/ d'[p] = [d[p] EXCEPT !.pc = "closing", !.stopped = TRUE]
          \/ d'[p] = [d[p] EXCEPT !.pc = "holdcheck", !.stopped = TRUE]
          \/ d'[p] = [d[p] EXCEPT !.pc = "killed", !.stopped = TRUE]
      BY <1>32, <3>1, Zenon DEF Stop
    <3>3. d'[p].pc \in {"closing", "holdcheck", "killed"}
      BY <1>0, <3>2 DEF DaemonState
    <3> QED  BY <1>0, <3>3
  <2>1. CASE SetD(p, [d[p] EXCEPT !.pc = "closing", !.stopped = TRUE]) /\ d[p].pc \in {"hold", "drop", "idle", "verify", "stop"} /\ bound' = bound
    <3> DEFINE s == [d[p] EXCEPT !.pc = "closing", !.stopped = TRUE]
    <3>1. DaemonFrame(p, s)
      BY <1>32, <2>1 DEF DaemonFrame, Stop
    <3>2. /\ reg' = reg \/ reg'.pid \in {0, p}
          /\ bound' = bound \/ bound \in {0, p}
          /\ Stands(p, s, bound', reg')
      BY <1>0, <1>32, <2>0, <2>1, ConstantsTyped DEF Stop, Stands, Before, NoRecord, DaemonState
    <3> HIDE DEF s
    <3> QED  BY <1>0, <3>1, <3>2, StandMoves DEF DaemonFrame
  <2>2. CASE SetD(p, [d[p] EXCEPT !.pc = "holdcheck", !.stopped = TRUE]) /\ d[p].pc \in {"refused", "down"} /\ bound' = bound
    <3> DEFINE s == [d[p] EXCEPT !.pc = "holdcheck", !.stopped = TRUE]
    <3>1. DaemonFrame(p, s)
      BY <1>32, <2>2 DEF DaemonFrame, Stop
    <3>2. /\ reg' = reg \/ reg'.pid \in {0, p}
          /\ bound' = bound \/ bound \in {0, p}
          /\ Stands(p, s, bound', reg')
      BY <1>0, <1>32, <2>0, <2>2, ConstantsTyped DEF Stop, Stands, Before, NoRecord, DaemonState
    <3> HIDE DEF s
    <3> QED  BY <1>0, <3>1, <3>2, StandMoves DEF DaemonFrame
  <2>3. CASE SetD(p, [d[p] EXCEPT !.pc = "killed", !.stopped = TRUE]) /\ Unbind(p)
    <3> DEFINE s == [d[p] EXCEPT !.pc = "killed", !.stopped = TRUE]
    <3>1. DaemonFrame(p, s)
      BY <1>32, <2>3 DEF DaemonFrame, Stop, Unbind
    <3>2. /\ reg' = reg \/ reg'.pid \in {0, p}
          /\ bound' = bound \/ bound \in {0, p}
          /\ Stands(p, s, bound', reg')
      BY <1>0, <1>32, <2>0, <2>3, ConstantsTyped DEF Stop, Unbind, Stands, Before, NoRecord, DaemonState
    <3> HIDE DEF s
    <3> QED  BY <1>0, <3>1, <3>2, StandMoves DEF DaemonFrame
  <2> QED  BY <1>32, <2>1, <2>2, <2>3 DEF Stop
<1> QED  BY <1>1, <1>2, <1>3, <1>4, <1>5, <1>6, <1>7, <1>8, <1>9, <1>10, <1>11, <1>12, <1>13, <1>14, <1>15, <1>16, <1>17, <1>18, <1>19, <1>20, <1>21, <1>22, <1>23, <1>24, <1>25, <1>26, <1>27, <1>28, <1>29, <1>30, <1>31, <1>32 DEF DaemonStep

\* An --ensure says "up" only past the gate.
GateKept ==
  \A w \in Ensurer :
    e[w].pc # "up" /\ e'[w].pc = "up"
      => \E p \in {e[w].seen, bound} \cap Daemon : d[p].verified

\* An --ensure touches no daemon but the one it starts, takes a file off or
\* leaves it, and says "up" only of the record of a hold that has the port.
LEMMA EnsurerStands ==
  ASSUME Inv, AllStand, NEW w \in Ensurer, Ensure(w) \/ EnsureStep(w)
  PROVE  AllStand' /\ GateKept
<1>0. /\ e \in [Ensurer -> EnsurerState] /\ e[w] \in EnsurerState /\ 0 \notin Daemon
      /\ NoRecord.pid = 0 /\ reg \in Record /\ d \in [Daemon -> DaemonState]
  BY EnsureAssumption DEF Inv, TypeOK, NoRecord
<1>1. CASE ~Spawn(w)
  <2>1. d' = d /\ bound' = bound /\ reg' \in {reg, NoRecord}
    BY <1>1 DEF Ensure, EnsureStep, Probe, Check, SweepProbe, SweepUnlink, WritePid, WaitProbe, GiveUp
  <2>2. AllStand'
    BY <1>0, <2>1 DEF AllStand, Stands, Before
  <2>3. ASSUME NEW v \in Ensurer, e[v].pc # "up", e'[v].pc = "up"
        PROVE  \E p \in {e[v].seen, bound} \cap Daemon : d[p].verified
    <3>0. v = w
      <4>1. PICK s : SetE(w, s)
        BY <1>1, Zenon DEF Ensure, EnsureStep, Probe, Check, SweepProbe, SweepUnlink, WritePid,
           WaitProbe, GiveUp
      <4> QED  BY <1>0, <2>3, <4>1 DEF SetE
    <3>1. Check(w)
      <4>0. \A x : SetE(w, x) => e'[w] = x
        BY <1>0 DEF SetE
      <4>1. ~Ensure(w)
        <5>1. Ensure(w) => e'[w] = [NewEnsurer EXCEPT !.pc = "probe", !.rounds = e[w].rounds + 1]
          BY <4>0, Zenon DEF Ensure
        <5>2. [NewEnsurer EXCEPT !.pc = "probe", !.rounds = e[w].rounds + 1].pc = "probe"
          BY DEF NewEnsurer
        <5> QED  BY <2>3, <3>0, <5>1, <5>2
      <4>2. ~Probe(w)
        <5> SUFFICES ASSUME Probe(w) PROVE FALSE
          OBVIOUS
        <5>1. \/ e'[w] = [e[w] EXCEPT !.pc = "check", !.seen = bound]
              \/ e'[w] = [e[w] EXCEPT !.pc = "sweep", !.rec = reg]
          BY <1>0 DEF Probe, SetE
        <5> QED  BY <1>0, <2>3, <3>0, <5>1 DEF EnsurerState
      <4>3. ~SweepProbe(w)
        BY <1>0, <2>3, <3>0, <4>0 DEF SweepProbe, EnsurerState
      <4>4. ~(SweepUnlink(w) \/ WritePid(w) \/ WaitProbe(w) \/ GiveUp(w))
        <5>2. ~SweepUnlink(w)
          BY <1>0, <2>3, <3>0, <4>0 DEF SweepUnlink, EnsurerState
        <5>3. ~WritePid(w)
          BY <1>0, <2>3, <3>0, <4>0 DEF WritePid, EnsurerState
        <5>4. ~WaitProbe(w)
          BY <1>0, <2>3, <3>0, <4>0 DEF WaitProbe, EnsurerState
        <5>5. ~GiveUp(w)
          BY <1>0, <2>3, <3>0, <4>0 DEF GiveUp, EnsurerState
        <5> QED  BY <5>2, <5>3, <5>4, <5>5
      <4> QED  BY <1>1, <4>1, <4>2, <4>3, <4>4 DEF EnsureStep
    <3>2. VerifiedSessionOnPort
      <4>1. e'[w] = [e[w] EXCEPT !.pc = IF VerifiedSessionOnPort THEN "up" ELSE "wait"]
        BY <1>0, <3>1 DEF Check, SetE
      <4>2. e'[w].pc = IF VerifiedSessionOnPort THEN "up" ELSE "wait"
        BY <1>0, <4>1 DEF EnsurerState
      <4> QED  BY <2>3, <3>0, <4>2
    <3>3. reg.pid \in Daemon /\ ~reg.noProxy
      <4>1. \A rec \in Record : rec.pid \in Daemon \cup {0}
        BY DEF Record
      <4> QED  BY <1>0, <3>2, <4>1 DEF VerifiedSessionOnPort
    <3>4. d[reg.pid].verified /\ bound = reg.pid
      BY <3>3 DEF AllStand, Stands
    <3> QED  BY <3>3, <3>4
  <2> QED  BY <2>2, <2>3 DEF GateKept
<1>2. CASE Spawn(w)
  <2>1. PICK p \in Daemon :
          /\ d[p].pc = "off"
          /\ GoTo(p, "start")
          /\ SetE(w, [e[w] EXCEPT !.pc = "pidfile", !.child = p])
          /\ UNCHANGED <<bound, reg, pidfile>>
    BY <1>2, Zenon DEF Spawn
  <2>2. d[p] \in DaemonState /\ Stands(p, d[p], bound, reg)
    BY DEF Inv, TypeOK, AllStand
  <2> DEFINE s == [d[p] EXCEPT !.pc = "start"]
  <2>3. Stands(p, s, bound, reg)
    BY <2>1, <2>2 DEF Stands, Before, DaemonState
  <2>4. SetD(p, s) /\ bound' = bound /\ reg' = reg
    BY <2>1 DEF GoTo
  <2> HIDE DEF s
  <2>5. \A q \in Daemon : Stands(q, d'[q], bound', reg')
    <3> TAKE q \in Daemon
    <3>1. CASE q = p
      BY <1>0, <2>3, <2>4, <3>1 DEF SetD
    <3>2. CASE q # p
      BY <1>0, <2>4, <3>2 DEF SetD, AllStand
    <3> QED  BY <3>1, <3>2
  <2>6. AllStand'
    BY <2>5 DEF AllStand, Stands, Before
  <2>7. \A v \in Ensurer : e'[v].pc = "up" => e[v].pc = "up"
    BY <1>0, <2>1 DEF SetE, EnsurerState
  <2> QED  BY <2>6, <2>7 DEF GateKept
<1> QED  BY <1>1, <1>2

LEMMA NextStands ==
  ASSUME Inv, AllStand, [Next]_vars, [\A p \in Daemon : HoldStays(p)]_vars
  PROVE  AllStand' /\ [GateKept]_vars
<1>1. CASE UNCHANGED vars
  BY <1>1 DEF vars, AllStand, Stands, Before
<1>2. CASE \E w \in Ensurer : Ensure(w) \/ EnsureStep(w)
  BY <1>2, EnsurerStands
<1>3. CASE \E p \in Daemon : Launch(p) \/ DaemonStep(p) \/ Drop(p) \/ Stop(p) \/ Kill(p)
  <2>1. CASE UNCHANGED vars
    BY <1>1, <2>1
  <2>2. CASE ~UNCHANGED vars
    <3>1. AllStand' /\ e' = e
      BY <1>3, <2>2, DaemonStands
    <3> QED  BY <3>1 DEF GateKept
  <2> QED  BY <2>1, <2>2
<1>4. CASE ForeignLeaves
  <2>1. /\ d' = d /\ e' = e /\ reg' = reg
        /\ \A p \in Daemon : bound # p
    BY <1>4, EnsureAssumption DEF ForeignLeaves
  <2>2. AllStand'
    BY <2>1 DEF AllStand, Stands, Before
  <2> QED  BY <2>1, <2>2 DEF GateKept
<1> QED  BY <1>1, <1>2, <1>3, <1>4 DEF Next

\* The verified gate, whatever fails: in every run in which no serving hold is
\* killed or stopped, an --ensure says "up" only of a proxy that has passed its
\* verify, never of one that has the port and is still in a verify, however
\* many daemons, services, --ensures, sweeps and renewals race for the port.
THEOREM UpIsVerified ==
  Spec /\ [][\A p \in Daemon : HoldStays(p)]_vars => UpMeansVerified
<1>1. Init => Inv /\ AllStand
  <2> SUFFICES ASSUME Init PROVE AllStand
    BY InitInv
  <2>1. NewDaemon.pc = "off" /\ ~NewDaemon.holding /\ reg.pid = 0
    BY DEF NewDaemon, Init, NoRecord
  <2> QED  BY <2>1, EnsureAssumption DEF Init, AllStand, Stands, Before
<1>2. Inv /\ AllStand /\ [Next]_vars /\ [\A p \in Daemon : HoldStays(p)]_vars
        => Inv' /\ AllStand' /\ [GateKept]_vars
  BY NextInv, NextStands
<1>3. [][GateKept]_vars => UpMeansVerified
  <2>1. [GateKept]_vars
          => [\A w \in Ensurer :
                e[w].pc # "up" /\ e'[w].pc = "up"
                  => \E p \in {e[w].seen, bound} \cap Daemon : d[p].verified]_vars
    BY DEF GateKept
  <2> QED  BY <2>1, PTL DEF UpMeansVerified
<1> QED  BY <1>1, <1>2, <1>3, PTL DEF Spec
=============================================================================
