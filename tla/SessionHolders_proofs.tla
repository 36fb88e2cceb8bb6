------------------------ MODULE SessionHolders_proofs -------------------------
(***************************************************************************)
(* Theorems about SessionHolders, for every set of holders, addresses and  *)
(* ports and every length of the waits: the files of the registry follow   *)
(* their holders, a standing refusal's wait is kept, and who serves is on  *)
(* file.                                                                   *)
(***************************************************************************)
EXTENDS SessionHolders, TLAPS

-----------------------------------------------------------------------------
(* What the helpers return.                                                *)

\* Every wait the code can schedule is an instant the model can hold
\* (notBeforeRefusal, scheduleRetry, the rebind and the latch of step).
LEMMA DuesTyped ==
  ASSUME TypeOK, NEW p \in Holder
  PROVE  /\ NowDue \in 0..MaxDue
         /\ NowDue + RefusalWait \in 0..MaxDue
         /\ NowDue + MaxBackoff \in 0..MaxDue
         /\ NotBeforeRefusal(p, NowDue + 1) \in 0..MaxDue
         /\ \A unreached \in BOOLEAN : RetryDues(p, unreached) \subseteq 0..MaxDue
         /\ RebindDues(p) \subseteq 0..MaxDue
         /\ LatchedDues(p) \subseteq 0..MaxDue
<1> USE TimeAssumption DEF NowDue, MaxDue
<1>1. h[p].due \in 0..MaxDue /\ h[p].reask \in 0..RefusalWait
  BY DEF TypeOK, HolderState
<1>2. \A d \in 0..MaxDue : NotBeforeRefusal(p, d) \in 0..MaxDue
  BY <1>1 DEF NotBeforeRefusal
<1>3. \A unreached \in BOOLEAN : RetryDues(p, unreached) \subseteq 0..MaxDue
  <2> TAKE unreached \in BOOLEAN
  <2> SUFFICES ASSUME NEW w \in 1..MaxBackoff
               PROVE  NotBeforeRefusal(p, NowDue + w) \in 0..MaxDue
    BY DEF RetryDues
  <2> QED  BY <1>2
<1>4. RebindDues(p) \subseteq 0..MaxDue
  BY <1>1 DEF RebindDues
<1>5. LatchedDues(p) \subseteq 0..MaxDue
  BY <1>4 DEF LatchedDues
<1> QED  BY <1>2, <1>3, <1>4, <1>5

\* The supervisor writes well formed records (publish).
LEMMA PublishTyped ==
  ASSUME TypeOK, NEW p \in Holder, NEW state \in {"up", "down"}
  PROVE  Publish(p, state) \in [Path -> Record]
<1>1. CASE reg[OwnPath(p)].pid = p /\ OwnPath(p) \in Path
  <2>1. reg[OwnPath(p)] \in Record
    BY <1>1 DEF TypeOK
  <2>2. 0 \in 0..MaxDue
    BY TimeAssumption DEF MaxDue, NowDue
  <2>3. [reg[OwnPath(p)] EXCEPT !.state = state, !.noProxy = FALSE, !.fresh = 0] \in Record
    BY <2>1, <2>2 DEF Record
  <2> QED  BY <1>1, <2>3 DEF Publish, TypeOK
<1>2. CASE reg[OwnPath(p)].pid = p /\ OwnPath(p) \notin Path
  BY <1>2 DEF Publish, TypeOK
<1>3. CASE reg[OwnPath(p)].pid # p
  BY <1>3 DEF Publish, TypeOK
<1> QED  BY <1>1, <1>2, <1>3

LEMMA PublishHolderTyped ==
  ASSUME TypeOK, NEW p \in Holder, NEW state \in {"down", "refused"}, NEW due \in 0..MaxDue
  PROVE  PublishHolder(p, state, due) \in [Path -> Record]
<1> DEFINE rec == [pid |-> p, state |-> state, wg |-> h[p].tier = "wireguard",
                   noProxy |-> TRUE, fresh |-> due]
<1>1. rec \in Record
  BY DEF Record
<1> QED  BY <1>1 DEF PublishHolder, TypeOK

LEMMA StateOfTyped == \A p \in Holder : StateOf(p) \in {"down", "refused"}
BY DEF StateOf

LEMMA NoRecordTyped == NoRecord \in Record
BY TimeAssumption DEF NoRecord, Record, MaxDue, NowDue

LEMMA OffTyped ==
  ASSUME NEW pc \in PC
  PROVE  Off(pc) \in HolderState
BY TimeAssumption DEF Off, HolderState, PC, MaxDue, NowDue

LEMMA ClosingTyped ==
  ASSUME TypeOK, NEW p \in Holder
  PROVE  Closing(p) \in HolderState
<1>1. h[p] \in HolderState /\ Off("closing") \in HolderState
  BY OffTyped DEF TypeOK, PC
<1> QED  BY <1>1 DEF Closing, HolderState

\* A step of one holder leaves the others as they are.
LEMMA SetTyped ==
  ASSUME TypeOK, NEW p \in Holder, NEW s \in HolderState, Set(p, s)
  PROVE  h' \in [Holder -> HolderState]
BY DEF Set, TypeOK

\* adopt writes well formed records and a well formed supervisor.
LEMMA AdoptTyped ==
  ASSUME TypeOK, NEW p \in Holder, NEW q \in Port \cup {0}, NEW tier \in {"wireguard", "egress"},
         Adopt(p, q, tier)
  PROVE  h' \in [Holder -> HolderState] /\ reg' \in [Path -> Record]
<1>1. h[p] \in HolderState
  BY DEF TypeOK
<1>2. 0 \in 0..PhaseTicks /\ 0 \in 0..RefusalWait /\ 0 \in 0..MaxDue
  BY TimeAssumption DEF MaxDue, NowDue
<1>3. [h[p] EXCEPT !.pc = "watch", !.left = 0, !.sess = q, !.tier = tier,
                   !.health = "up", !.latched = FALSE, !.unreached = FALSE,
                   !.refused = FALSE, !.reask = 0, !.endpoint = q, !.listen = q]
        \in HolderState
  BY <1>1, <1>2 DEF HolderState, PC
<1>4. h' \in [Holder -> HolderState]
  BY <1>3, SetTyped DEF Adopt
<1> DEFINE rec == [pid |-> p, state |-> IF tier = "wireguard" THEN "up" ELSE "",
                   wg |-> tier = "wireguard", noProxy |-> FALSE, fresh |-> 0]
<1>5. rec \in Record
  BY <1>2 DEF Record
<1>6. reg' = [k \in Path |->
         IF k = <<AddrOf[p], q>> THEN rec
         ELSE IF k = OwnPath(p) /\ reg[k].pid = p THEN NoRecord ELSE reg[k]]
  BY DEF Adopt
<1>7. \A k \in Path : reg[k] \in Record
  BY DEF TypeOK
<1> HIDE DEF rec
<1> QED  BY <1>4, <1>5, <1>6, <1>7, NoRecordTyped

\* The retry every failed renewal ends in.
LEMMA RetryIdleTyped ==
  ASSUME TypeOK, NEW p \in Holder, NEW state \in {"down", "refused"}, RetryIdle(p, state)
  PROVE  h' \in [Holder -> HolderState] /\ reg' \in [Path -> Record]
<1>1. PICK d \in RetryDues(p, FALSE) :
        /\ Set(p, [h[p] EXCEPT !.pc = "watch", !.left = 0, !.sess = 0,
                               !.due = d, !.unreached = FALSE])
        /\ reg' = PublishHolder(p, state, d)
  BY DEF RetryIdle
<1>2. d \in 0..MaxDue
  BY DuesTyped
<1>3. h[p] \in HolderState /\ 0 \in 0..PhaseTicks
  BY TimeAssumption DEF TypeOK
<1>4. [h[p] EXCEPT !.pc = "watch", !.left = 0, !.sess = 0, !.due = d, !.unreached = FALSE]
        \in HolderState
  BY <1>2, <1>3 DEF HolderState, PC
<1> QED  BY <1>1, <1>2, <1>4, SetTyped, PublishHolderTyped
-----------------------------------------------------------------------------
(* Type correctness.                                                       *)

\* The states of the supervisor and of the registry keep their types in every
\* step of a holder.
LEMMA HolderStepTyped ==
  ASSUME TypeOK, NEW p \in Holder,
         \/ Start(p) \/ Step(p) \/ CheckIn(p) \/ Answer(p) \/ Monitor(p) \/ Signal(p) \/ Kill(p)
  PROVE  TypeOK'
<1>h. h[p] \in HolderState /\ AddrOf[p] \in Address
  BY HolderAssumption DEF TypeOK
<1>z. /\ 0 \in 0..MaxDue /\ 0 \in 0..RefusalWait /\ 0 \in 0..PhaseTicks /\ PhaseTicks \in 0..PhaseTicks
      /\ 0 \in 0..SilentTicks /\ SilentTicks \in 0..SilentTicks
      /\ 0 \in 0..MaxCheckIns /\ MaxCheckIns \in 0..MaxCheckIns
      /\ RefusalWait \in 0..RefusalWait
  BY TimeAssumption DEF MaxDue, NowDue
<1>d. /\ NowDue \in 0..MaxDue
      /\ NowDue + RefusalWait \in 0..MaxDue
      /\ NotBeforeRefusal(p, NowDue + 1) \in 0..MaxDue
      /\ RetryDues(p, FALSE) \subseteq 0..MaxDue
      /\ RetryDues(p, TRUE) \subseteq 0..MaxDue
      /\ RebindDues(p) \subseteq 0..MaxDue
      /\ LatchedDues(p) \subseteq 0..MaxDue
      /\ \A w \in 1..MaxBackoff : NowDue + w \in 0..MaxDue
  <2>1. \A w \in 1..MaxBackoff : NowDue + w \in 0..MaxDue
    BY TimeAssumption DEF NowDue, MaxDue
  <2>2. RetryDues(p, FALSE) \subseteq 0..MaxDue /\ RetryDues(p, TRUE) \subseteq 0..MaxDue
    BY DuesTyped, Zenon
  <2> QED  BY <2>1, <2>2, DuesTyped
<1>p. /\ Publish(p, "up") \in [Path -> Record] /\ Publish(p, "down") \in [Path -> Record]
      /\ \A d \in 0..MaxDue : /\ PublishHolder(p, "down", d) \in [Path -> Record]
                              /\ PublishHolder(p, "refused", d) \in [Path -> Record]
                              /\ PublishHolder(p, StateOf(p), d) \in [Path -> Record]
  BY PublishTyped, PublishHolderTyped, StateOfTyped
<1>b. [box EXCEPT ![AddrOf[p]] = p] \in [Address -> Holder \cup {0}]
  BY <1>h DEF TypeOK
<1>l. ListenNow(p) \in Port \cup {0}
  BY <1>h DEF ListenNow, HolderState
<1>t. PortToBind(p) \in Port \cup {0}
  BY <1>h DEF PortToBind, HolderState
<1>c. CASE Start(p)
  <2>1. PICK q \in PortsOf[p] :
          /\ Set(p, [h[p] EXCEPT !.pc = "watch", !.sess = q, !.listen = q,
                                 !.pinned = q, !.endpoint = q, !.checkIns = MaxCheckIns])
          /\ reg' = [reg EXCEPT ![<<AddrOf[p], q>>] =
                       [pid |-> p, state |-> "", wg |-> TRUE, noProxy |-> FALSE, fresh |-> 0]]
    BY <1>c DEF Start
  <2>2. q \in Port
    BY HolderAssumption
  <2>3. [h[p] EXCEPT !.pc = "watch", !.sess = q, !.listen = q,
                     !.pinned = q, !.endpoint = q, !.checkIns = MaxCheckIns] \in HolderState
    BY <1>h, <1>z, <2>2 DEF HolderState, PC
  <2>4. h' \in [Holder -> HolderState]
    BY <2>1, <2>3, SetTyped
  <2>5. reg' \in [Path -> Record]
    BY <1>z, <2>1, <2>2, <1>h DEF TypeOK, Record, Path
  <2> QED  BY <1>c, <1>b, <2>4, <2>5 DEF Start, TypeOK
<1>1. CASE StepHealthy(p)
  <2>1. PICK d \in RebindDues(p) \cup {0} :
          /\ Set(p, [h[p] EXCEPT !.due = d, !.latched = FALSE, !.refused = FALSE, !.reask = 0])
          /\ reg' = Publish(p, "up")
    BY <1>1, <1>d DEF StepHealthy
  <2>2. [h[p] EXCEPT !.due = d, !.latched = FALSE, !.refused = FALSE, !.reask = 0] \in HolderState
    BY <1>h, <1>z, <1>d DEF HolderState, PC
  <2>3. h' \in [Holder -> HolderState]
    BY <2>1, <2>2, SetTyped
  <2>4. reg' \in [Path -> Record]
    BY <1>p, <1>d, <2>1
  <2> QED  BY <1>1, <2>3, <2>4 DEF StepHealthy, TypeOK
<1>2. CASE StepSilent(p)
  <2>1. PICK d \in RebindDues(p) :
          /\ Set(p, [h[p] EXCEPT !.due = d])
          /\ reg' = Publish(p, "down")
    BY <1>2, <1>d DEF StepSilent
  <2>2. [h[p] EXCEPT !.due = d] \in HolderState
    BY <1>h, <1>z, <1>d DEF HolderState, PC
  <2>3. h' \in [Holder -> HolderState]
    BY <2>1, <2>2, SetTyped
  <2>4. reg' \in [Path -> Record]
    BY <1>p, <1>d, <2>1
  <2> QED  BY <1>2, <2>3, <2>4 DEF StepSilent, TypeOK
<1>3. CASE StepWait(p)
  <2>1. PICK d \in LatchedDues(p) :
          /\ Set(p, [h[p] EXCEPT !.due = d, !.latched = TRUE])
          /\ reg' = Publish(p, "down")
    BY <1>3, <1>d DEF StepWait
  <2>2. [h[p] EXCEPT !.due = d, !.latched = TRUE] \in HolderState
    BY <1>h, <1>z, <1>d DEF HolderState, PC
  <2>3. h' \in [Holder -> HolderState]
    BY <2>1, <2>2, SetTyped
  <2>4. reg' \in [Path -> Record]
    BY <1>p, <1>d, <2>1
  <2> QED  BY <1>3, <2>3, <2>4 DEF StepWait, TypeOK
<1>4. CASE StepRenew(p)
  <2>1. PICK d \in LatchedDues(p) :
          /\ Set(p, [h[p] EXCEPT !.pc = "register", !.left = PhaseTicks, !.due = d, !.latched = TRUE])
          /\ reg' = Publish(p, "down")
    BY <1>4, <1>d DEF StepRenew
  <2>2. [h[p] EXCEPT !.pc = "register", !.left = PhaseTicks, !.due = d, !.latched = TRUE] \in HolderState
    BY <1>h, <1>z, <1>d DEF HolderState, PC
  <2>3. h' \in [Holder -> HolderState]
    BY <2>1, <2>2, SetTyped
  <2>4. reg' \in [Path -> Record]
    BY <1>p, <1>d, <2>1
  <2> QED  BY <1>4, <2>3, <2>4 DEF StepRenew, TypeOK
<1>5. CASE StandDown(p)
  <2>1. /\ Set(p, Closing(p))
        /\ reg' = PublishHolder(p, StateOf(p), NowDue)
    BY <1>5 DEF StandDown
  <2>2. Closing(p) \in HolderState
    BY <1>h, <1>z, <1>d, ClosingTyped DEF HolderState, PC
  <2>3. h' \in [Holder -> HolderState]
    BY <2>1, <2>2, SetTyped
  <2>4. reg' \in [Path -> Record]
    BY <1>p, <1>d, <2>1
  <2> QED  BY <1>5, <2>3, <2>4 DEF StandDown, TypeOK
<1>6. CASE WaitForPort(p)
  <2>1. PICK d \in RetryDues(p, FALSE) :
          /\ Set(p, [h[p] EXCEPT !.due = d, !.unreached = FALSE])
          /\ reg' = PublishHolder(p, StateOf(p), d)
    BY <1>6, <1>d DEF WaitForPort
  <2>2. [h[p] EXCEPT !.due = d, !.unreached = FALSE] \in HolderState
    BY <1>h, <1>z, <1>d DEF HolderState, PC
  <2>3. h' \in [Holder -> HolderState]
    BY <2>1, <2>2, SetTyped
  <2>4. reg' \in [Path -> Record]
    BY <1>p, <1>d, <2>1
  <2> QED  BY <1>6, <2>3, <2>4 DEF WaitForPort, TypeOK
<1>7. CASE YieldIdle(p)
  <2> DEFINE d == NotBeforeRefusal(p, NowDue + 1)
  <2>1. /\ Set(p, [h[p] EXCEPT !.due = d, !.listen = ListenNow(p)])
        /\ reg' = PublishHolder(p, StateOf(p), d)
    BY <1>7 DEF YieldIdle
  <2>2. d \in 0..MaxDue
    BY <1>d
  <2> HIDE DEF d
  <2>3. [h[p] EXCEPT !.due = d, !.listen = ListenNow(p)] \in HolderState
    BY <1>h, <1>l, <2>2 DEF HolderState
  <2>4. h' \in [Holder -> HolderState] /\ reg' \in [Path -> Record]
    BY <1>p, <2>1, <2>2, <2>3, SetTyped
  <2> QED  BY <1>7, <2>4 DEF YieldIdle, TypeOK
<1>8. CASE RenewIdle(p)
  <2>1. /\ Set(p, [h[p] EXCEPT !.pc = "register", !.left = PhaseTicks, !.due = NowDue, !.listen = ListenNow(p)])
        /\ reg' = PublishHolder(p, StateOf(p), NowDue)
    BY <1>8 DEF RenewIdle
  <2>2. [h[p] EXCEPT !.pc = "register", !.left = PhaseTicks, !.due = NowDue, !.listen = ListenNow(p)] \in HolderState
    BY <1>h, <1>z, <1>d, <1>l DEF HolderState, PC
  <2>3. h' \in [Holder -> HolderState]
    BY <2>1, <2>2, SetTyped
  <2>4. reg' \in [Path -> Record]
    BY <1>p, <1>d, <2>1
  <2> QED  BY <1>8, <2>3, <2>4 DEF RenewIdle, TypeOK
<1>9. CASE LetGo(p)
  <2>1. Set(p, [h[p] EXCEPT !.pc = "watch", !.sess = 0, !.health = "up", !.quiet = 0])
    BY <1>9 DEF LetGo
  <2>2. [h[p] EXCEPT !.pc = "watch", !.sess = 0, !.health = "up", !.quiet = 0] \in HolderState
    BY <1>h, <1>z, <1>d DEF HolderState, PC
  <2>3. h' \in [Holder -> HolderState]
    BY <2>1, <2>2, SetTyped
  <2> QED  BY <1>9, <2>3 DEF LetGo, TypeOK
<1>10. CASE Swap(p)
  <2>1. Set(p, [h[p] EXCEPT !.pc = "bringup", !.left = PhaseTicks, !.sess = 0,
                     !.health = "up", !.quiet = 0, !.listen = PortToBind(p)])
    BY <1>10 DEF Swap
  <2>2. [h[p] EXCEPT !.pc = "bringup", !.left = PhaseTicks, !.sess = 0,
                     !.health = "up", !.quiet = 0, !.listen = PortToBind(p)] \in HolderState
    BY <1>h, <1>z, <1>d, <1>t DEF HolderState, PC
  <2>3. h' \in [Holder -> HolderState]
    BY <2>1, <2>2, SetTyped
  <2> QED  BY <1>10, <2>3 DEF Swap, TypeOK
<1>11. CASE Bind(p)
  <2>1. PICK q \in Port :
          Set(p, [h[p] EXCEPT !.pc = "verify", !.sess = q])
    BY <1>11, <1>d DEF Bind
  <2>2. [h[p] EXCEPT !.pc = "verify", !.sess = q] \in HolderState
    BY <1>h, <1>z, <1>d DEF HolderState, PC
  <2>3. h' \in [Holder -> HolderState]
    BY <2>1, <2>2, SetTyped
  <2> QED  BY <1>11, <2>3 DEF Bind, TypeOK
<1>12. CASE BindFailed(p)
  <2>1. /\ h' \in [Holder -> HolderState]
        /\ reg' \in [Path -> Record]
    <3>1. CASE Set(p, Closing(p)) /\ UNCHANGED reg
      BY <3>1, ClosingTyped, SetTyped DEF TypeOK
    <3>2. CASE \E d \in RetryDues(p, FALSE) :
                 /\ Set(p, [h[p] EXCEPT !.pc = "watch", !.left = 0, !.due = d, !.unreached = FALSE,
                                        !.listen = IF p \in Supervised THEN 0 ELSE @])
                 /\ reg' = PublishHolder(p, IF p \in Supervised THEN "down" ELSE StateOf(p), d)
      <4>1. PICK d \in RetryDues(p, FALSE) :
              /\ Set(p, [h[p] EXCEPT !.pc = "watch", !.left = 0, !.due = d, !.unreached = FALSE,
                                     !.listen = IF p \in Supervised THEN 0 ELSE @])
              /\ reg' = PublishHolder(p, IF p \in Supervised THEN "down" ELSE StateOf(p), d)
        BY <3>2
      <4>2. d \in 0..MaxDue
        BY <1>d
      <4>3. [h[p] EXCEPT !.pc = "watch", !.left = 0, !.due = d, !.unreached = FALSE,
                         !.listen = IF p \in Supervised THEN 0 ELSE @] \in HolderState
        <5> DEFINE l == IF p \in Supervised THEN 0 ELSE h[p].listen
        <5>1. [h[p] EXCEPT !.listen = l] \in HolderState
          BY <1>h, <1>z DEF HolderState
        <5> HIDE DEF l
        <5>2. [h[p] EXCEPT !.pc = "watch", !.left = 0, !.due = d, !.unreached = FALSE,
                           !.listen = l] \in HolderState
          BY <1>h, <1>z, <4>2, <5>1 DEF HolderState, PC
        <5> QED  BY <5>2 DEF l
      <4>4. reg' \in [Path -> Record]
        BY <1>p, <4>1, <4>2
      <4> QED  BY <4>1, <4>3, <4>4, SetTyped
    <3> QED  BY <1>12, <3>1, <3>2 DEF BindFailed
  <2> QED  BY <1>12, <2>1 DEF BindFailed, TypeOK
<1>13. CASE CloseStop(p)
  <2>1. Set(p, [h[p] EXCEPT !.sess = 0])
    BY <1>13 DEF CloseStop
  <2>2. [h[p] EXCEPT !.sess = 0] \in HolderState
    BY <1>h, <1>z, <1>d DEF HolderState, PC
  <2>3. h' \in [Holder -> HolderState]
    BY <2>1, <2>2, SetTyped
  <2> QED  BY <1>13, <2>3 DEF CloseStop, TypeOK
<1>14. CASE CloseCheck(p)
  <2>1. [h[p] EXCEPT !.pc = "unlink"] \in HolderState /\ Off("gone") \in HolderState
    BY <1>h, OffTyped DEF HolderState, PC
  <2>2. h' \in [Holder -> HolderState]
    BY <1>14, <2>1, SetTyped DEF CloseCheck
  <2> QED  BY <1>14, <2>2 DEF CloseCheck, TypeOK
<1>15. CASE CloseUnlink(p)
  <2>1. h' \in [Holder -> HolderState]
    BY <1>15, OffTyped, SetTyped DEF CloseUnlink, PC
  <2>2. reg' \in [Path -> Record]
    BY <1>15, NoRecordTyped DEF CloseUnlink, TypeOK
  <2> QED  BY <1>15, <2>1, <2>2 DEF CloseUnlink, TypeOK
<1>16. CASE CheckIn(p)
  <2>1. PICK d \in RebindDues(p) \cup {0} :
          LET healthy == [h[p] EXCEPT !.due = d, !.latched = FALSE, !.refused = FALSE,
                                      !.reask = 0, !.checkIns = @ - 1]
          IN \/ Set(p, healthy)
             \/ Set(p, [healthy EXCEPT !.pc = "register", !.left = PhaseTicks])
             \/ \E w \in 1..MaxBackoff :
                  Set(p, [healthy EXCEPT !.due = NowDue + w, !.unreached = FALSE])
    BY <1>16 DEF CheckIn
  <2> DEFINE healthy == [h[p] EXCEPT !.due = d, !.latched = FALSE, !.refused = FALSE,
                                     !.reask = 0, !.checkIns = @ - 1]
  <2>2. h[p].checkIns - 1 \in 0..MaxCheckIns
    <3>1. h[p].checkIns \in 0..MaxCheckIns /\ h[p].checkIns > 0
      BY <1>16, <1>h DEF CheckIn, HolderState
    <3> QED  BY <3>1, TimeAssumption
  <2>3. healthy \in HolderState
    BY <1>h, <1>z, <1>d, <2>2 DEF HolderState
  <2> HIDE DEF healthy
  <2>4. [healthy EXCEPT !.pc = "register", !.left = PhaseTicks] \in HolderState
    BY <1>z, <2>3 DEF HolderState, PC
  <2>5. \A w \in 1..MaxBackoff :
          [healthy EXCEPT !.due = NowDue + w, !.unreached = FALSE] \in HolderState
    BY <1>d, <2>3 DEF HolderState
  <2>6. h' \in [Holder -> HolderState]
    BY <2>1, <2>3, <2>4, <2>5, SetTyped DEF healthy
  <2>7. box' \in [Address -> Holder \cup {0}]
    BY <1>16, <1>b DEF CheckIn, TypeOK
  <2> QED  BY <1>16, <1>p, <2>6, <2>7 DEF CheckIn, TypeOK
<1>17. CASE RegisterOk(p)
  <2>1. [h[p] EXCEPT !.pc = "swap", !.left = 0] \in HolderState
    BY <1>h, <1>z DEF HolderState, PC
  <2>2. h' \in [Holder -> HolderState]
    BY <1>17, <2>1, SetTyped DEF RegisterOk
  <2>3. h[p].due \in 0..MaxDue
    BY <1>h DEF HolderState
  <2>4. reg' \in [Path -> Record]
    BY <1>17, <1>p, <2>3 DEF RegisterOk, TypeOK
  <2> QED  BY <1>17, <1>b, <2>2, <2>4 DEF RegisterOk, TypeOK
<1>18. CASE RegisterFailed(p)
  <2>1. PICK d \in 0..MaxDue, unreached \in BOOLEAN :
          /\ Set(p, [h[p] EXCEPT !.pc = "watch", !.left = 0, !.due = d, !.unreached = unreached])
          /\ reg' = IF h[p].sess = 0 THEN PublishHolder(p, StateOf(p), d) ELSE reg
    BY <1>18, <1>d DEF RegisterFailed
  <2>2. [h[p] EXCEPT !.pc = "watch", !.left = 0, !.due = d, !.unreached = unreached]
          \in HolderState
    BY <1>h, <1>z DEF HolderState, PC
  <2>3. h' \in [Holder -> HolderState] /\ reg' \in [Path -> Record]
    BY <1>p, <2>1, <2>2, SetTyped DEF TypeOK
  <2>4. box' \in [Address -> Holder \cup {0}]
    BY <1>18, <1>b DEF RegisterFailed, TypeOK
  <2> QED  BY <1>18, <2>3, <2>4 DEF RegisterFailed, TypeOK
<1>19. CASE RegisterRefused(p)
  <2>1. /\ Set(p, [h[p] EXCEPT !.pc = "letgo", !.left = 0, !.refused = TRUE,
                      !.due = NowDue + RefusalWait, !.reask = RefusalWait])
        /\ reg' = PublishHolder(p, "refused", NowDue + RefusalWait)
    BY <1>19 DEF RegisterRefused
  <2>2. [h[p] EXCEPT !.pc = "letgo", !.left = 0, !.refused = TRUE,
                      !.due = NowDue + RefusalWait, !.reask = RefusalWait] \in HolderState
    BY <1>h, <1>z, <1>d DEF HolderState, PC
  <2>3. h' \in [Holder -> HolderState]
    BY <2>1, <2>2, SetTyped
  <2>4. reg' \in [Path -> Record]
    BY <1>p, <1>d, <2>1
  <2> QED  BY <1>19, <2>3, <2>4 DEF RegisterRefused, TypeOK
<1>20. CASE WrongAddress(p)
  <2>1. /\ h' \in [Holder -> HolderState]
        /\ reg' \in [Path -> Record]
    <3>1. CASE RetryIdle(p, "down")
      BY <3>1, RetryIdleTyped
    <3>2. CASE ~RetryIdle(p, "down")
      <4>1. PICK d \in RetryDues(p, FALSE) :
              Set(p, [h[p] EXCEPT !.pc = "watch", !.left = 0, !.due = d, !.unreached = FALSE])
        BY <1>20, <3>2 DEF WrongAddress
      <4>2. [h[p] EXCEPT !.pc = "watch", !.left = 0, !.due = d, !.unreached = FALSE]
              \in HolderState
        BY <1>h, <1>z, <1>d DEF HolderState, PC
      <4> QED  BY <1>20, <3>2, <4>1, <4>2, SetTyped DEF WrongAddress, TypeOK
    <3> QED  BY <3>1, <3>2
  <2> QED  BY <1>20, <2>1 DEF WrongAddress, TypeOK
<1>21. CASE VerifyOk(p)
  <2>1. h[p].sess \in Port \cup {0}
    BY <1>h DEF HolderState
  <2> QED  BY <1>21, <2>1, AdoptTyped DEF VerifyOk, TypeOK
<1>22. CASE BringUpFailed(p)
  BY <1>22, RetryIdleTyped DEF BringUpFailed, TypeOK
<1>23. CASE FallBack(p)
  BY <1>23, AdoptTyped DEF FallBack, TypeOK
<1>24. CASE MonitorUp(p)
  <2>1. [h[p] EXCEPT !.health = "up", !.quiet = 0] \in HolderState
    BY <1>h, <1>z DEF HolderState
  <2> QED  BY <1>24, <2>1, SetTyped DEF MonitorUp, TypeOK
<1>25. CASE MonitorSilent(p)
  <2>1. [h[p] EXCEPT !.health = "silent", !.quiet = SilentTicks] \in HolderState
    BY <1>h, <1>z DEF HolderState
  <2> QED  BY <1>25, <2>1, SetTyped DEF MonitorSilent, TypeOK
<1>26. CASE MonitorStuck(p)
  <2>1. [h[p] EXCEPT !.health = "stuck"] \in HolderState
    BY <1>h DEF HolderState
  <2> QED  BY <1>26, <2>1, SetTyped DEF MonitorStuck, TypeOK
<1>27. CASE Signal(p)
  BY <1>27, ClosingTyped, SetTyped DEF Signal, TypeOK
<1>28. CASE Kill(p)
  <2>1. h' \in [Holder -> HolderState]
    BY <1>28, OffTyped, SetTyped DEF Kill, PC
  <2> QED  BY <1>28, <2>1 DEF Kill, TypeOK
<1> QED
  BY <1>c, <1>1, <1>2, <1>3, <1>4, <1>5, <1>6, <1>7, <1>8, <1>9, <1>10, <1>11, <1>12, <1>13,
     <1>14, <1>15, <1>16, <1>17, <1>18, <1>19, <1>20, <1>21, <1>22, <1>23, <1>24, <1>25, <1>26,
     <1>27, <1>28 DEF Step, Answer, Monitor

\* One-shots only touch the file they read.
LEMMA SweepTyped ==
  ASSUME TypeOK, NEW w \in Sweeper, Sweep(w)
  PROVE  TypeOK'
<1>1. Idle \in SweepState
  BY DEF Idle, SweepState
<1>2. sweep[w] \in SweepState
  BY DEF TypeOK
<1>3. CASE \E k \in Path : SweepRead(w, k)
  <2>1. PICK k \in Path : SweepRead(w, k)
    BY <1>3
  <2>2. [stage |-> "probe", path |-> k] \in SweepState
    BY DEF SweepState
  <2> QED  BY <2>1, <2>2 DEF SweepRead, TypeOK
<1>4. CASE SweepProbe(w)
  <2>1. [sweep[w] EXCEPT !.stage = "unlink"] \in SweepState
    BY <1>2 DEF SweepState
  <2>2. sweep' \in [Sweeper -> SweepState]
    BY <1>1, <1>4, <2>1 DEF SweepProbe, TypeOK
  <2> QED  BY <1>4, <2>2 DEF SweepProbe, TypeOK
<1>5. CASE SweepUnlink(w)
  BY <1>1, <1>5, NoRecordTyped DEF SweepUnlink, TypeOK
<1> QED  BY <1>3, <1>4, <1>5 DEF Sweep

\* Time keeps every countdown in its range.
LEMMA TickTyped ==
  ASSUME TypeOK, Tick
  PROVE  TypeOK'
<1>1. \A n \in Nat : \A i \in 0..n : Down(i) \in 0..n
  BY DEF Down
<1>2. /\ MaxDue \in Nat /\ RefusalWait \in Nat /\ PhaseTicks \in Nat /\ SilentTicks \in Nat
  BY TimeAssumption DEF MaxDue, NowDue
<1>3. ASSUME NEW p \in Holder
      PROVE  [h[p] EXCEPT !.due = Down(@), !.reask = Down(@), !.left = Down(@),
                          !.quiet = Down(@)] \in HolderState
  <2>1. h[p] \in HolderState
    BY DEF TypeOK
  <2>2. /\ Down(h[p].due) \in 0..MaxDue /\ Down(h[p].reask) \in 0..RefusalWait
        /\ Down(h[p].left) \in 0..PhaseTicks /\ Down(h[p].quiet) \in 0..SilentTicks
    BY <1>1, <1>2, <2>1 DEF HolderState
  <2> QED  BY <2>1, <2>2 DEF HolderState
<1>4. ASSUME NEW k \in Path
      PROVE  [reg[k] EXCEPT !.fresh = Down(@)] \in Record
  <2>1. reg[k] \in Record
    BY DEF TypeOK
  <2>2. Down(reg[k].fresh) \in 0..MaxDue
    BY <1>1, <1>2, <2>1 DEF Record
  <2> QED  BY <2>1, <2>2 DEF Record
<1>5. h' \in [Holder -> HolderState]
  BY <1>3 DEF Tick
<1>6. reg' \in [Path -> Record]
  BY <1>4 DEF Tick
<1> QED  BY <1>5, <1>6 DEF Tick, TypeOK

LEMMA InitTyped == Init => TypeOK
<1> SUFFICES ASSUME Init PROVE TypeOK
  OBVIOUS
<1>1. Off("new") \in HolderState
  BY OffTyped DEF PC
<1>2. Idle \in SweepState
  BY DEF Idle, SweepState
<1> QED  BY <1>1, <1>2, NoRecordTyped DEF Init, TypeOK

LEMMA NextTyped == TypeOK /\ [Next]_vars => TypeOK'
<1> SUFFICES ASSUME TypeOK, [Next]_vars PROVE TypeOK'
  OBVIOUS
<1>1. CASE \E p \in Holder :
             Start(p) \/ Step(p) \/ CheckIn(p) \/ Answer(p) \/ Monitor(p) \/ Signal(p) \/ Kill(p)
  BY <1>1, HolderStepTyped
<1>2. CASE \E w \in Sweeper : Sweep(w)
  BY <1>2, SweepTyped
<1>3. CASE \E a \in Address : BoxDrop(a)
  BY <1>3 DEF BoxDrop, TypeOK
<1>4. CASE Tick
  BY <1>4, TickTyped
<1>5. CASE UNCHANGED vars
  BY <1>5 DEF vars, TypeOK
<1> QED  BY <1>1, <1>2, <1>3, <1>4, <1>5 DEF Next

\* Every state a set of holders, one-shots and a box can reach is well formed:
\* no wait, deadline or freshness ever leaves its range, and the box binds an
\* address to one of its holders.
THEOREM TypeCorrect == Spec => []TypeOK
BY InitTyped, NextTyped, PTL DEF Spec

-----------------------------------------------------------------------------
(* The registry tells the truth about every holder.                        *)

Inv == TypeOK /\ RecordsFollowTheHold

\* publish touches the holder's own record only, and leaves it serving.
LEMMA PublishEffect ==
  ASSUME TypeOK, NEW p \in Holder, NEW state, NEW k \in Path
  PROVE  /\ Publish(p, state)[k].pid = reg[k].pid
         /\ Publish(p, state)[k].pid # p => Publish(p, state)[k] = reg[k]
         /\ Publish(p, state)[k].pid = p /\ k = OwnPath(p) => ~Publish(p, state)[k].noProxy
         /\ k # OwnPath(p) => Publish(p, state)[k] = reg[k]
<1>1. reg[k] \in Record /\ reg \in [Path -> Record]
  BY DEF TypeOK
<1> QED  BY <1>1 DEF Publish, Record

\* publishHolder touches the file of its endpoint only, never another's
\* record, and what it writes says there is no proxy.
LEMMA PublishHolderEffect ==
  ASSUME TypeOK, NEW p \in Holder, NEW state, NEW due, NEW k \in Path
  PROVE  /\ PublishHolder(p, state, due)[k].pid # p => PublishHolder(p, state, due)[k] = reg[k]
         /\ PublishHolder(p, state, due)[k].pid = p /\ k = OwnPath(p)
              => PublishHolder(p, state, due)[k].noProxy
         /\ k # OwnPath(p) => PublishHolder(p, state, due)[k] = reg[k]
<1>1. reg[k] \in Record /\ reg \in [Path -> Record]
  BY DEF TypeOK
<1> QED  BY <1>1 DEF PublishHolder, Record

\* A step of p that leaves the records of others alone, or takes them over.
LEMMA StepKeepsOthers ==
  ASSUME Inv, NEW p \in Holder, NEW s, Set(p, s),
         \A k \in Path : reg'[k].pid # p => reg'[k].pid = 0 \/ reg'[k] = reg[k],
         Follows(p, s, reg')
  PROVE  RecordsFollowTheHold'
<1>1. ASSUME NEW q \in Holder, q # p
      PROVE  Follows(q, h[q], reg')
  <2>1. Follows(q, h[q], reg)
    BY DEF Inv, RecordsFollowTheHold
  <2>2. q # 0
    BY HolderAssumption
  <2>3. \A k \in Path : reg'[k].pid = q => reg'[k] = reg[k]
    BY <1>1, <2>2
  <2> QED  BY <2>1, <2>3 DEF Follows
<1>2. h'[p] = s /\ \A q \in Holder \ {p} : h'[q] = h[q]
  BY DEF Set, Inv, TypeOK
<1>3. \A q \in Holder : Follows(q, h'[q], reg')
  BY <1>1, <1>2
<1> QED  BY <1>3 DEF RecordsFollowTheHold, Follows, Path

\* The three ways a step of a running holder treats the registry. It says
\* that nothing serves:
LEMMA PublishHolderStep ==
  ASSUME Inv, NEW p \in Holder, Running(p), NEW s, NEW state, NEW due,
         Set(p, s), reg' = PublishHolder(p, state, due),
         s.endpoint = h[p].endpoint,
         \/ s.pc \in {"letgo", "swap", "closing"}
         \/ s.pc \in {"watch", "register"} /\ s.sess = 0
  PROVE  RecordsFollowTheHold'
<1>1. Follows(p, h[p], reg) /\ TypeOK
  BY DEF Inv, RecordsFollowTheHold
<1>2. \A k \in Path : reg'[k].pid # p => reg'[k] = reg[k]
  BY <1>1, PublishHolderEffect
<1>3. Follows(p, s, reg')
  <2>1. s.endpoint \in Port
    BY <1>1 DEF Follows, Running
  <2>2. ASSUME NEW k \in Path, reg'[k].pid = p
        PROVE  k = OwnPath(p) /\ reg'[k].noProxy
    <3>1. k = OwnPath(p)
      BY <1>1, <2>2, PublishHolderEffect DEF Follows, Running, OwnPath
    <3> QED  BY <1>1, <2>2, <3>1, PublishHolderEffect
  <2> QED  BY <2>1, <2>2 DEF Follows, OwnPath
<1> QED  BY <1>2, <1>3, StepKeepsOthers

\* It says what the tunnel it holds does:
LEMMA PublishStep ==
  ASSUME Inv, NEW p \in Holder, Running(p), NEW s, NEW state,
         Set(p, s), reg' = Publish(p, state),
         s.endpoint = h[p].endpoint, s.pc \in {"watch", "register"}, s.sess # 0
  PROVE  RecordsFollowTheHold'
<1>1. Follows(p, h[p], reg) /\ TypeOK
  BY DEF Inv, RecordsFollowTheHold
<1>2. \A k \in Path : reg'[k].pid # p => reg'[k] = reg[k]
  BY <1>1, PublishEffect
<1>3. Follows(p, s, reg')
  <2>1. s.endpoint \in Port
    BY <1>1 DEF Follows, Running
  <2>2. ASSUME NEW k \in Path, reg'[k].pid = p
        PROVE  k = OwnPath(p) /\ ~reg'[k].noProxy
    <3>1. k = OwnPath(p)
      BY <1>1, <2>2, PublishEffect DEF Follows, Running, OwnPath
    <3> QED  BY <1>1, <2>2, <3>1, PublishEffect
  <2> QED  BY <2>1, <2>2 DEF Follows, OwnPath
<1> QED  BY <1>2, <1>3, StepKeepsOthers

\* Or it leaves the registry alone, and what the file said stays true:
LEMMA SilentStep ==
  ASSUME Inv, NEW p \in Holder, Running(p), NEW s, Set(p, s), reg' = reg,
         s.endpoint = h[p].endpoint, s.pc \notin {"new", "gone", "killed"},
         s.pc = "bringup" => s.sess = 0, s.pc = "verify" => s.sess \in Port,
         s.pc \in {"watch", "register"} =>
           \/ h[p].pc \in {"watch", "register"} /\ (s.sess = 0 <=> h[p].sess = 0)
           \/ h[p].pc \in {"letgo", "swap", "bringup", "verify"} /\ s.sess = 0,
         s.pc \in {"letgo", "swap", "bringup", "verify"} =>
           \/ h[p].pc \in {"letgo", "swap", "bringup", "verify"}
           \/ h[p].pc \in {"watch", "register"} /\ h[p].sess = 0
  PROVE  RecordsFollowTheHold'
<1>1. Follows(p, h[p], reg)
  BY DEF Inv, RecordsFollowTheHold
<1>2. Follows(p, s, reg')
  BY <1>1 DEF Follows, Running
<1> QED  BY <1>2, StepKeepsOthers

\* adopt lists the new session and drops the record of the port it left.
LEMMA AdoptStep ==
  ASSUME Inv, NEW p \in Holder, Running(p), NEW q \in Port, NEW tier, Adopt(p, q, tier)
  PROVE  RecordsFollowTheHold'
<1> DEFINE s == [h[p] EXCEPT !.pc = "watch", !.left = 0, !.sess = q, !.tier = tier,
                   !.health = "up", !.latched = FALSE, !.unreached = FALSE,
                   !.refused = FALSE, !.reask = 0, !.endpoint = q, !.listen = q]
           rec == [pid |-> p, state |-> IF tier = "wireguard" THEN "up" ELSE "",
                   wg |-> tier = "wireguard", noProxy |-> FALSE, fresh |-> 0]
<1>1. Follows(p, h[p], reg) /\ h[p] \in HolderState /\ p # 0 /\ q # 0
  BY HolderAssumption DEF Inv, RecordsFollowTheHold, TypeOK
<1>2. s.pc = "watch" /\ s.sess = q /\ s.endpoint = q
  BY <1>1 DEF HolderState
<1>3. Set(p, s)
  BY DEF Adopt
<1>4. \A k \in Path : reg'[k] = IF k = <<AddrOf[p], q>> THEN rec
                               ELSE IF k = OwnPath(p) /\ reg[k].pid = p THEN NoRecord ELSE reg[k]
  BY DEF Adopt
<1>5. rec.pid = p /\ ~rec.noProxy /\ NoRecord.pid = 0
  BY DEF NoRecord
<1> HIDE DEF s, rec
<1>6. \A k \in Path : reg'[k].pid # p => reg'[k].pid = 0 \/ reg'[k] = reg[k]
  BY <1>4, <1>5
<1>7. ASSUME NEW k \in Path, reg'[k].pid = p
      PROVE  k = <<AddrOf[p], q>> /\ ~reg'[k].noProxy
  BY <1>1, <1>4, <1>5, <1>7 DEF Follows, Running, OwnPath
<1>8. Follows(p, s, reg')
  BY <1>1, <1>2, <1>7 DEF Follows
<1> QED  BY <1>3, <1>6, <1>8, StepKeepsOthers

\* The retry every failed renewal ends in.
LEMMA RetryIdleStep ==
  ASSUME Inv, NEW p \in Holder, Running(p), NEW state, RetryIdle(p, state)
  PROVE  RecordsFollowTheHold'
<1>1. PICK d \in RetryDues(p, FALSE) :
        /\ Set(p, [h[p] EXCEPT !.pc = "watch", !.left = 0, !.sess = 0,
                               !.due = d, !.unreached = FALSE])
        /\ reg' = PublishHolder(p, state, d)
  BY DEF RetryIdle
<1> DEFINE s == [h[p] EXCEPT !.pc = "watch", !.left = 0, !.sess = 0, !.due = d,
                             !.unreached = FALSE]
<1>2. s.pc = "watch" /\ s.sess = 0 /\ s.endpoint = h[p].endpoint
  BY DEF Inv, TypeOK, HolderState
<1> HIDE DEF s
<1>3. Set(p, s)
  BY <1>1 DEF s
<1> QED  BY <1>1, <1>2, <1>3, PublishHolderStep

LEMMA HolderStepFollows ==
  ASSUME Inv, NEW p \in Holder,
         \/ Start(p) \/ Step(p) \/ CheckIn(p) \/ Answer(p) \/ Monitor(p) \/ Signal(p) \/ Kill(p)
  PROVE  RecordsFollowTheHold'
<1>h. h[p] \in HolderState /\ Follows(p, h[p], reg) /\ TypeOK
  BY DEF Inv, TypeOK, RecordsFollowTheHold
<1>1. CASE StepHealthy(p)
  <2>1. PICK d \in RebindDues(p) \cup {0} :
        /\ Set(p, [h[p] EXCEPT !.due = d, !.latched = FALSE, !.refused = FALSE, !.reask = 0])
        /\ reg' = Publish(p, "up")
    BY <1>1 DEF StepHealthy
  <2> DEFINE s == [h[p] EXCEPT !.due = d, !.latched = FALSE, !.refused = FALSE, !.reask = 0]
  <2>2. s.pc = "watch" /\ s.endpoint = h[p].endpoint /\ s.sess # 0
    BY <1>1, <1>h DEF StepHealthy, HolderState, Watching
  <2>3. Running(p)
    BY <1>1 DEF StepHealthy, Running, Watching
  <2> HIDE DEF s
  <2>4. Set(p, s)
    BY <2>1 DEF s
  <2> QED  BY <2>1, <2>2, <2>3, <2>4, PublishStep
<1>2. CASE StepSilent(p)
  <2>1. PICK d \in RebindDues(p) :
        /\ Set(p, [h[p] EXCEPT !.due = d])
        /\ reg' = Publish(p, "down")
    BY <1>2 DEF StepSilent
  <2> DEFINE s == [h[p] EXCEPT !.due = d]
  <2>2. s.pc = "watch" /\ s.endpoint = h[p].endpoint /\ s.sess # 0
    BY <1>2, <1>h DEF StepSilent, HolderState, Watching
  <2>3. Running(p)
    BY <1>2 DEF StepSilent, Running, Watching
  <2> HIDE DEF s
  <2>4. Set(p, s)
    BY <2>1 DEF s
  <2> QED  BY <2>1, <2>2, <2>3, <2>4, PublishStep
<1>3. CASE StepWait(p)
  <2>1. PICK d \in LatchedDues(p) :
        /\ Set(p, [h[p] EXCEPT !.due = d, !.latched = TRUE])
        /\ reg' = Publish(p, "down")
    BY <1>3 DEF StepWait
  <2> DEFINE s == [h[p] EXCEPT !.due = d, !.latched = TRUE]
  <2>2. s.pc = "watch" /\ s.endpoint = h[p].endpoint /\ s.sess # 0
    BY <1>3, <1>h DEF StepWait, HolderState, Watching
  <2>3. Running(p)
    BY <1>3 DEF StepWait, Running, Watching
  <2> HIDE DEF s
  <2>4. Set(p, s)
    BY <2>1 DEF s
  <2> QED  BY <2>1, <2>2, <2>3, <2>4, PublishStep
<1>4. CASE StepRenew(p)
  <2>1. PICK d \in LatchedDues(p) :
        /\ Set(p, [h[p] EXCEPT !.pc = "register", !.left = PhaseTicks, !.due = d, !.latched = TRUE])
        /\ reg' = Publish(p, "down")
    BY <1>4 DEF StepRenew
  <2> DEFINE s == [h[p] EXCEPT !.pc = "register", !.left = PhaseTicks, !.due = d, !.latched = TRUE]
  <2>2. s.pc = "register" /\ s.endpoint = h[p].endpoint /\ s.sess # 0
    BY <1>4, <1>h DEF StepRenew, HolderState, Watching
  <2>3. Running(p)
    BY <1>4 DEF StepRenew, Running, Watching
  <2> HIDE DEF s
  <2>4. Set(p, s)
    BY <2>1 DEF s
  <2> QED  BY <2>1, <2>2, <2>3, <2>4, PublishStep
<1>5. CASE StandDown(p)
  <2>1. /\ Set(p, Closing(p))
        /\ reg' = PublishHolder(p, StateOf(p), NowDue)
    BY <1>5 DEF StandDown
  <2> DEFINE s == Closing(p)
  <2>2. s.pc = "closing" /\ s.endpoint = h[p].endpoint
    BY <1>5, <1>h DEF StandDown, HolderState, IdleDue, Closing, Off
  <2>3. Running(p)
    BY <1>5 DEF StandDown, Running, IdleDue, Closing, Off
  <2> HIDE DEF s
  <2>4. Set(p, s)
    BY <2>1 DEF s
  <2> QED  BY <2>1, <2>2, <2>3, <2>4, PublishHolderStep
<1>6. CASE WaitForPort(p)
  <2>1. PICK d \in RetryDues(p, FALSE) :
        /\ Set(p, [h[p] EXCEPT !.due = d, !.unreached = FALSE])
        /\ reg' = PublishHolder(p, StateOf(p), d)
    BY <1>6 DEF WaitForPort
  <2> DEFINE s == [h[p] EXCEPT !.due = d, !.unreached = FALSE]
  <2>2. s.pc = "watch" /\ s.endpoint = h[p].endpoint /\ s.sess = 0
    BY <1>6, <1>h DEF WaitForPort, HolderState, IdleDue
  <2>3. Running(p)
    BY <1>6 DEF WaitForPort, Running, IdleDue
  <2> HIDE DEF s
  <2>4. Set(p, s)
    BY <2>1 DEF s
  <2> QED  BY <2>1, <2>2, <2>3, <2>4, PublishHolderStep
<1>7. CASE YieldIdle(p)
  <2>1. /\ Set(p, [h[p] EXCEPT !.due = NotBeforeRefusal(p, NowDue + 1),
                             !.listen = ListenNow(p)])
        /\ reg' = PublishHolder(p, StateOf(p), NotBeforeRefusal(p, NowDue + 1))
    BY <1>7 DEF YieldIdle
  <2> DEFINE s == [h[p] EXCEPT !.due = NotBeforeRefusal(p, NowDue + 1),
                             !.listen = ListenNow(p)]
  <2>2. s.pc = "watch" /\ s.endpoint = h[p].endpoint /\ s.sess = 0
    BY <1>7, <1>h DEF YieldIdle, HolderState, IdleDue
  <2>3. Running(p)
    BY <1>7 DEF YieldIdle, Running, IdleDue
  <2> HIDE DEF s
  <2>4. Set(p, s)
    BY <2>1 DEF s
  <2> QED  BY <2>1, <2>2, <2>3, <2>4, PublishHolderStep
<1>8. CASE RenewIdle(p)
  <2>1. /\ Set(p, [h[p] EXCEPT !.pc = "register", !.left = PhaseTicks, !.due = NowDue,
                             !.listen = ListenNow(p)])
        /\ reg' = PublishHolder(p, StateOf(p), NowDue)
    BY <1>8 DEF RenewIdle
  <2> DEFINE s == [h[p] EXCEPT !.pc = "register", !.left = PhaseTicks, !.due = NowDue,
                             !.listen = ListenNow(p)]
  <2>2. s.pc = "register" /\ s.endpoint = h[p].endpoint /\ s.sess = 0
    BY <1>8, <1>h DEF RenewIdle, HolderState, IdleDue
  <2>3. Running(p)
    BY <1>8 DEF RenewIdle, Running, IdleDue
  <2> HIDE DEF s
  <2>4. Set(p, s)
    BY <2>1 DEF s
  <2> QED  BY <2>1, <2>2, <2>3, <2>4, PublishHolderStep
<1>9. CASE LetGo(p)
  <2>1. Set(p, [h[p] EXCEPT !.pc = "watch", !.sess = 0, !.health = "up", !.quiet = 0])
    BY <1>9 DEF LetGo
  <2> DEFINE s == [h[p] EXCEPT !.pc = "watch", !.sess = 0, !.health = "up", !.quiet = 0]
  <2>2. s.pc = "watch" /\ s.endpoint = h[p].endpoint /\ s.sess = 0 /\ h[p].pc = "letgo"
    BY <1>9, <1>h DEF LetGo, HolderState
  <2>3. Running(p)
    BY <1>9 DEF LetGo, Running
  <2> HIDE DEF s
  <2>4. Set(p, s)
    BY <2>1 DEF s
  <2> QED  BY <1>9, <2>1, <2>2, <2>3, <2>4, SilentStep DEF LetGo
<1>10. CASE Swap(p)
  <2>1. Set(p, [h[p] EXCEPT !.pc = "bringup", !.left = PhaseTicks, !.sess = 0,
                             !.health = "up", !.quiet = 0, !.listen = PortToBind(p)])
    BY <1>10 DEF Swap
  <2> DEFINE s == [h[p] EXCEPT !.pc = "bringup", !.left = PhaseTicks, !.sess = 0,
                             !.health = "up", !.quiet = 0, !.listen = PortToBind(p)]
  <2>2. /\ s.pc = "bringup" /\ s.endpoint = h[p].endpoint /\ s.sess = 0
        /\ h[p].pc = "swap"
    BY <1>10, <1>h DEF Swap, HolderState
  <2>3. Running(p)
    BY <1>10 DEF Swap, Running
  <2> HIDE DEF s
  <2>4. Set(p, s)
    BY <2>1 DEF s
  <2> QED  BY <1>10, <2>1, <2>2, <2>3, <2>4, SilentStep DEF Swap
<1>11. CASE Bind(p)
  <2>1. PICK q \in Port :
        Set(p, [h[p] EXCEPT !.pc = "verify", !.sess = q])
    BY <1>11 DEF Bind
  <2> DEFINE s == [h[p] EXCEPT !.pc = "verify", !.sess = q]
  <2>2. /\ s.pc = "verify" /\ s.endpoint = h[p].endpoint /\ s.sess = q
        /\ h[p].pc = "bringup"
    BY <1>11, <1>h DEF Bind, HolderState
  <2>3. Running(p)
    BY <1>11 DEF Bind, Running
  <2> HIDE DEF s
  <2>4. Set(p, s)
    BY <2>1 DEF s
  <2> QED  BY <1>11, <2>1, <2>2, <2>3, <2>4, SilentStep DEF Bind
<1>12. CASE BindFailed(p)
  <2>1. h[p].pc = "bringup" /\ h[p].sess = 0 /\ Running(p)
    BY <1>12, <1>h DEF BindFailed, Follows, Running
  <2>2. CASE Set(p, Closing(p)) /\ UNCHANGED reg
    <3> DEFINE s == Closing(p)
    <3>1. s.pc = "closing" /\ s.endpoint = h[p].endpoint
      BY DEF Closing, Off
    <3> HIDE DEF s
    <3>2. Set(p, s) /\ reg' = reg
      BY <2>2 DEF s
    <3> QED  BY <2>1, <3>1, <3>2, SilentStep
  <2>3. CASE \E d \in RetryDues(p, FALSE) :
               /\ Set(p, [h[p] EXCEPT !.pc = "watch", !.left = 0, !.due = d, !.unreached = FALSE,
                                      !.listen = IF p \in Supervised THEN 0 ELSE @])
               /\ reg' = PublishHolder(p, IF p \in Supervised THEN "down" ELSE StateOf(p), d)
    <3>1. PICK d \in RetryDues(p, FALSE) :
            /\ Set(p, [h[p] EXCEPT !.pc = "watch", !.left = 0, !.due = d, !.unreached = FALSE,
                                   !.listen = IF p \in Supervised THEN 0 ELSE @])
            /\ reg' = PublishHolder(p, IF p \in Supervised THEN "down" ELSE StateOf(p), d)
      BY <2>3
    <3> DEFINE s == [h[p] EXCEPT !.pc = "watch", !.left = 0, !.due = d, !.unreached = FALSE,
                                 !.listen = IF p \in Supervised THEN 0 ELSE @]
    <3>2. s.pc = "watch" /\ s.endpoint = h[p].endpoint /\ s.sess = 0
      BY <1>h, <2>1 DEF HolderState
    <3> HIDE DEF s
    <3>3. Set(p, s)
      BY <3>1 DEF s
    <3> QED  BY <2>1, <3>1, <3>2, <3>3, PublishHolderStep
  <2> QED  BY <1>12, <2>2, <2>3 DEF BindFailed
<1>13. CASE CloseStop(p)
  <2>1. Set(p, [h[p] EXCEPT !.sess = 0])
    BY <1>13 DEF CloseStop
  <2> DEFINE s == [h[p] EXCEPT !.sess = 0]
  <2>2. s.pc = "closing" /\ s.endpoint = h[p].endpoint
    BY <1>13, <1>h DEF CloseStop, HolderState
  <2>3. Running(p)
    BY <1>13 DEF CloseStop, Running
  <2> HIDE DEF s
  <2>4. Set(p, s)
    BY <2>1 DEF s
  <2> QED  BY <1>13, <2>1, <2>2, <2>3, <2>4, SilentStep DEF CloseStop
<1>14. CASE CloseCheck(p)
  <2>1. Running(p) /\ reg' = reg
    BY <1>14 DEF CloseCheck, Running
  <2>2. CASE reg[OwnPath(p)].pid = p
    <3> DEFINE s == [h[p] EXCEPT !.pc = "unlink"]
    <3>1. s.pc = "unlink" /\ s.endpoint = h[p].endpoint
      BY <1>h DEF HolderState
    <3> HIDE DEF s
    <3>2. Set(p, s)
      BY <1>14, <2>2 DEF CloseCheck, s
    <3> QED  BY <2>1, <3>1, <3>2, SilentStep
  <2>3. CASE reg[OwnPath(p)].pid # p
    <3> DEFINE s == Off("gone")
    <3>1. s.pc = "gone"
      BY DEF Off
    <3> HIDE DEF s
    <3>2. Set(p, s)
      BY <1>14, <2>3 DEF CloseCheck, s
    <3>3. \A k \in Path : reg[k].pid # p
      BY <1>h, <2>1, <2>3 DEF Follows, Running, OwnPath
    <3>4. Follows(p, s, reg')
      BY <2>1, <3>1, <3>3 DEF Follows
    <3> QED  BY <2>1, <3>2, <3>4, StepKeepsOthers
  <2> QED  BY <2>2, <2>3
<1>15. CASE CloseUnlink(p)
  <2>1. Running(p) /\ reg' = [reg EXCEPT ![OwnPath(p)] = NoRecord]
    BY <1>15 DEF CloseUnlink, Running
  <2> DEFINE s == Off("gone")
  <2>2. s.pc = "gone"
    BY DEF Off
  <2> HIDE DEF s
  <2>3. Set(p, s)
    BY <1>15 DEF CloseUnlink, s
  <2>4. \A k \in Path : reg'[k] = IF k = OwnPath(p) THEN NoRecord ELSE reg[k]
    BY <1>h, <2>1 DEF TypeOK
  <2>5. NoRecord.pid = 0 /\ p # 0
    BY HolderAssumption DEF NoRecord
  <2>6. \A k \in Path : reg'[k].pid # p
    BY <1>h, <2>1, <2>4, <2>5 DEF Follows, Running, OwnPath
  <2>7. Follows(p, s, reg')
    BY <2>2, <2>6 DEF Follows
  <2> QED  BY <2>3, <2>4, <2>5, <2>7, StepKeepsOthers
<1>16. CASE CheckIn(p)
  <2>1. PICK d \in RebindDues(p) \cup {0} :
          LET healthy == [h[p] EXCEPT !.due = d, !.latched = FALSE, !.refused = FALSE,
                                      !.reask = 0, !.checkIns = @ - 1]
          IN \/ Set(p, healthy)
             \/ Set(p, [healthy EXCEPT !.pc = "register", !.left = PhaseTicks])
             \/ \E w \in 1..MaxBackoff :
                  Set(p, [healthy EXCEPT !.due = NowDue + w, !.unreached = FALSE])
    BY <1>16 DEF CheckIn
  <2> DEFINE healthy == [h[p] EXCEPT !.due = d, !.latched = FALSE, !.refused = FALSE,
                                     !.reask = 0, !.checkIns = @ - 1]
  <2>2. /\ healthy.pc = "watch" /\ healthy.endpoint = h[p].endpoint
        /\ healthy.sess = h[p].sess /\ h[p].sess # 0
    BY <1>16, <1>h DEF CheckIn, Watching, HolderState
  <2>3. reg' = Publish(p, "up") /\ Running(p)
    BY <1>16 DEF CheckIn, Watching, Running
  <2>4. \/ Set(p, healthy)
        \/ Set(p, [healthy EXCEPT !.pc = "register", !.left = PhaseTicks])
        \/ \E w \in 1..MaxBackoff :
             Set(p, [healthy EXCEPT !.due = NowDue + w, !.unreached = FALSE])
    BY <2>1
  <2>5. \A v : LET r == [healthy EXCEPT !.pc = "register", !.left = v]
                   e == [healthy EXCEPT !.due = v, !.unreached = FALSE]
               IN /\ r.pc = "register" /\ r.endpoint = h[p].endpoint /\ r.sess = h[p].sess
                  /\ e.pc = "watch" /\ e.endpoint = h[p].endpoint /\ e.sess = h[p].sess
    BY <1>16, <1>h DEF CheckIn, Watching, HolderState
  <2> HIDE DEF healthy
  <2>6. CASE Set(p, healthy)
    BY <2>2, <2>3, <2>6, PublishStep
  <2>7. CASE Set(p, [healthy EXCEPT !.pc = "register", !.left = PhaseTicks])
    BY <2>2, <2>3, <2>5, <2>7, PublishStep
  <2>8. CASE \E w \in 1..MaxBackoff :
               Set(p, [healthy EXCEPT !.due = NowDue + w, !.unreached = FALSE])
    BY <2>2, <2>3, <2>5, <2>8, PublishStep
  <2> QED  BY <2>4, <2>6, <2>7, <2>8
<1>17. CASE RegisterOk(p)
  <2> DEFINE s == [h[p] EXCEPT !.pc = "swap", !.left = 0]
  <2>1. s.pc = "swap" /\ s.endpoint = h[p].endpoint /\ h[p].pc = "register" /\ Running(p)
    BY <1>17, <1>h DEF RegisterOk, Registering, HolderState, Running
  <2> HIDE DEF s
  <2>2. Set(p, s)
    BY <1>17 DEF RegisterOk, s
  <2>3. CASE h[p].sess # 0
    <3>1. reg' = PublishHolder(p, "down", h[p].due)
      BY <1>17, <2>3 DEF RegisterOk
    <3> QED  BY <2>1, <2>2, <3>1, PublishHolderStep
  <2>4. CASE h[p].sess = 0
    <3>1. reg' = reg
      BY <1>17, <2>4 DEF RegisterOk
    <3> QED  BY <2>1, <2>2, <2>4, <3>1, SilentStep
  <2> QED  BY <2>3, <2>4
<1>18. CASE RegisterFailed(p)
  <2>1. PICK d, unreached :
          /\ Set(p, [h[p] EXCEPT !.pc = "watch", !.left = 0, !.due = d, !.unreached = unreached])
          /\ reg' = IF h[p].sess = 0 THEN PublishHolder(p, StateOf(p), d) ELSE reg
    BY <1>18 DEF RegisterFailed
  <2> DEFINE s == [h[p] EXCEPT !.pc = "watch", !.left = 0, !.due = d, !.unreached = unreached]
  <2>2. /\ s.pc = "watch" /\ s.endpoint = h[p].endpoint /\ s.sess = h[p].sess
        /\ h[p].pc = "register" /\ Running(p)
    BY <1>18, <1>h DEF RegisterFailed, Registering, HolderState, Running
  <2> HIDE DEF s
  <2>3. Set(p, s)
    BY <2>1 DEF s
  <2>4. CASE h[p].sess = 0
    BY <2>1, <2>2, <2>3, <2>4, PublishHolderStep
  <2>5. CASE h[p].sess # 0
    BY <2>1, <2>2, <2>3, <2>5, SilentStep
  <2> QED  BY <2>4, <2>5
<1>19. CASE RegisterRefused(p)
  <2>1. /\ Set(p, [h[p] EXCEPT !.pc = "letgo", !.left = 0, !.refused = TRUE,
                             !.due = NowDue + RefusalWait, !.reask = RefusalWait])
        /\ reg' = PublishHolder(p, "refused", NowDue + RefusalWait)
    BY <1>19 DEF RegisterRefused
  <2> DEFINE s == [h[p] EXCEPT !.pc = "letgo", !.left = 0, !.refused = TRUE,
                             !.due = NowDue + RefusalWait, !.reask = RefusalWait]
  <2>2. s.pc = "letgo" /\ s.endpoint = h[p].endpoint
    BY <1>19, <1>h DEF RegisterRefused, HolderState, Registering
  <2>3. Running(p)
    BY <1>19 DEF RegisterRefused, Running, Registering
  <2> HIDE DEF s
  <2>4. Set(p, s)
    BY <2>1 DEF s
  <2> QED  BY <2>1, <2>2, <2>3, <2>4, PublishHolderStep
<1>20. CASE WrongAddress(p)
  <2>1. Running(p)
    BY <1>20 DEF WrongAddress, Running
  <2>2. CASE RetryIdle(p, "down")
    BY <2>1, <2>2, RetryIdleStep
  <2>3. CASE ~RetryIdle(p, "down")
    <3>1. PICK d \in RetryDues(p, FALSE) :
            Set(p, [h[p] EXCEPT !.pc = "watch", !.left = 0, !.due = d, !.unreached = FALSE])
      BY <1>20, <2>3 DEF WrongAddress
    <3> DEFINE s == [h[p] EXCEPT !.pc = "watch", !.left = 0, !.due = d, !.unreached = FALSE]
    <3>2. /\ s.pc = "watch" /\ s.endpoint = h[p].endpoint /\ s.sess = h[p].sess
          /\ h[p].pc = "register" /\ reg' = reg
      BY <1>20, <1>h, <2>3 DEF WrongAddress, HolderState
    <3> HIDE DEF s
    <3>3. Set(p, s)
      BY <3>1 DEF s
    <3> QED  BY <2>1, <3>2, <3>3, SilentStep
  <2> QED  BY <2>2, <2>3
<1>21. CASE VerifyOk(p)
  BY <1>21, <1>h, AdoptStep DEF VerifyOk, Running, Follows
<1>22. CASE BringUpFailed(p)
  BY <1>22, RetryIdleStep DEF BringUpFailed, Running
<1>23. CASE FallBack(p)
  BY <1>23, AdoptStep DEF FallBack, Running
<1>24. CASE MonitorUp(p)
  <2>1. Set(p, [h[p] EXCEPT !.health = "up", !.quiet = 0])
    BY <1>24 DEF MonitorUp
  <2> DEFINE s == [h[p] EXCEPT !.health = "up", !.quiet = 0]
  <2>2. /\ s.pc = h[p].pc /\ s.endpoint = h[p].endpoint /\ s.sess = h[p].sess
        /\ h[p].pc \in {"watch", "register"}
    BY <1>24, <1>h DEF MonitorUp, HolderState, Monitored
  <2>3. Running(p)
    BY <1>24 DEF MonitorUp, Running, Monitored
  <2> HIDE DEF s
  <2>4. Set(p, s)
    BY <2>1 DEF s
  <2> QED  BY <1>24, <2>1, <2>2, <2>3, <2>4, SilentStep DEF MonitorUp
<1>25. CASE MonitorSilent(p)
  <2>1. Set(p, [h[p] EXCEPT !.health = "silent", !.quiet = SilentTicks])
    BY <1>25 DEF MonitorSilent
  <2> DEFINE s == [h[p] EXCEPT !.health = "silent", !.quiet = SilentTicks]
  <2>2. /\ s.pc = h[p].pc /\ s.endpoint = h[p].endpoint /\ s.sess = h[p].sess
        /\ h[p].pc \in {"watch", "register"}
    BY <1>25, <1>h DEF MonitorSilent, HolderState, Monitored
  <2>3. Running(p)
    BY <1>25 DEF MonitorSilent, Running, Monitored
  <2> HIDE DEF s
  <2>4. Set(p, s)
    BY <2>1 DEF s
  <2> QED  BY <1>25, <2>1, <2>2, <2>3, <2>4, SilentStep DEF MonitorSilent
<1>26. CASE MonitorStuck(p)
  <2>1. Set(p, [h[p] EXCEPT !.health = "stuck"])
    BY <1>26 DEF MonitorStuck
  <2> DEFINE s == [h[p] EXCEPT !.health = "stuck"]
  <2>2. /\ s.pc = h[p].pc /\ s.endpoint = h[p].endpoint /\ s.sess = h[p].sess
        /\ h[p].pc \in {"watch", "register"}
    BY <1>26, <1>h DEF MonitorStuck, HolderState, Monitored
  <2>3. Running(p)
    BY <1>26 DEF MonitorStuck, Running, Monitored
  <2> HIDE DEF s
  <2>4. Set(p, s)
    BY <2>1 DEF s
  <2> QED  BY <1>26, <2>1, <2>2, <2>3, <2>4, SilentStep DEF MonitorStuck
<1>27. CASE Signal(p)
  <2>1. Set(p, Closing(p))
    BY <1>27 DEF Signal
  <2> DEFINE s == Closing(p)
  <2>2. s.pc = "closing" /\ s.endpoint = h[p].endpoint
    BY <1>27, <1>h DEF Signal, HolderState, Closing, Off
  <2>3. Running(p)
    BY <1>27 DEF Signal, Running, Closing, Off
  <2> HIDE DEF s
  <2>4. Set(p, s)
    BY <2>1 DEF s
  <2> QED  BY <1>27, <2>1, <2>2, <2>3, <2>4, SilentStep DEF Signal
<1>28. CASE Kill(p)
  <2> DEFINE s == Off("killed")
  <2>1. s.pc = "killed" /\ reg' = reg
    BY <1>28 DEF Kill, Off
  <2> HIDE DEF s
  <2>2. Set(p, s)
    BY <1>28 DEF Kill, s
  <2>3. Follows(p, s, reg')
    BY <2>1 DEF Follows
  <2> QED  BY <2>1, <2>2, <2>3, StepKeepsOthers
<1>29. CASE Start(p)
  <2>1. PICK q \in PortsOf[p] :
          /\ Set(p, [h[p] EXCEPT !.pc = "watch", !.sess = q, !.listen = q,
                                 !.pinned = q, !.endpoint = q, !.checkIns = MaxCheckIns])
          /\ reg' = [reg EXCEPT ![<<AddrOf[p], q>>] =
                       [pid |-> p, state |-> "", wg |-> TRUE, noProxy |-> FALSE, fresh |-> 0]]
    BY <1>29 DEF Start
  <2> DEFINE s == [h[p] EXCEPT !.pc = "watch", !.sess = q, !.listen = q,
                               !.pinned = q, !.endpoint = q, !.checkIns = MaxCheckIns]
             rec == [pid |-> p, state |-> "", wg |-> TRUE, noProxy |-> FALSE, fresh |-> 0]
  <2>2. s.pc = "watch" /\ s.endpoint = q /\ s.sess = q /\ rec.pid = p /\ ~rec.noProxy
    BY <1>h DEF HolderState
  <2>3. q \in Port /\ q # 0 /\ h[p].pc = "new"
    BY <1>29, HolderAssumption DEF Start
  <2> HIDE DEF s, rec
  <2>4. Set(p, s) /\ reg' = [reg EXCEPT ![<<AddrOf[p], q>>] = rec]
    BY <2>1 DEF s, rec
  <2>5. \A k \in Path : reg'[k] = IF k = <<AddrOf[p], q>> THEN rec ELSE reg[k]
    BY <1>h, <2>4 DEF TypeOK
  <2>6. \A k \in Path : reg[k].pid # p
    BY <1>h, <2>3 DEF Follows
  <2>7. Follows(p, s, reg')
    BY <2>2, <2>3, <2>5, <2>6 DEF Follows
  <2>8. \A k \in Path : reg'[k].pid # p => reg'[k] = reg[k]
    BY <2>2, <2>5
  <2> QED  BY <2>4, <2>7, <2>8, StepKeepsOthers
<1> QED
  BY <1>1, <1>2, <1>3, <1>4, <1>5, <1>6, <1>7, <1>8, <1>9, <1>10, <1>11, <1>12, <1>13, <1>14,
     <1>15, <1>16, <1>17, <1>18, <1>19, <1>20, <1>21, <1>22, <1>23, <1>24, <1>25,
     <1>26, <1>27, <1>28, <1>29
  DEF Step, Answer, Monitor

\* A sweep only takes records away.
LEMMA SweepFollows ==
  ASSUME Inv, NEW w \in Sweeper, Sweep(w)
  PROVE  RecordsFollowTheHold'
<1>1. h' = h
  BY DEF Sweep, SweepRead, SweepProbe, SweepUnlink
<1>2. \A k \in Path : reg'[k] = reg[k] \/ reg'[k] = NoRecord
  BY DEF Sweep, SweepRead, SweepProbe, SweepUnlink, Inv, TypeOK
<1>3. NoRecord.pid = 0 /\ 0 \notin Holder
  BY HolderAssumption DEF NoRecord
<1> QED  BY <1>1, <1>2, <1>3 DEF Inv, RecordsFollowTheHold, Follows, Path

\* Time changes no pid, no port and no state.
LEMMA TickFollows ==
  ASSUME Inv, Tick
  PROVE  RecordsFollowTheHold'
<1>1. TypeOK /\ RecordsFollowTheHold
  BY DEF Inv
<1>2. ASSUME NEW p \in Holder
      PROVE  /\ h'[p].pc = h[p].pc /\ h'[p].sess = h[p].sess
             /\ h'[p].endpoint = h[p].endpoint
  <2>1. h[p] \in HolderState
    BY <1>1 DEF TypeOK
  <2>2. h'[p] = [h[p] EXCEPT !.due = Down(h[p].due), !.reask = Down(h[p].reask),
                             !.left = Down(h[p].left), !.quiet = Down(h[p].quiet)]
    BY DEF Tick
  <2> HIDE DEF Down
  <2> QED  BY <2>1, <2>2 DEF HolderState
<1>3. \A k \in Path : reg'[k].pid = reg[k].pid /\ reg'[k].noProxy = reg[k].noProxy
  BY <1>1 DEF Tick, TypeOK, Record
<1> QED  BY <1>1, <1>2, <1>3 DEF RecordsFollowTheHold, Follows, Path

LEMMA InitFollows == Init => RecordsFollowTheHold
<1> SUFFICES ASSUME Init, NEW p \in Holder
             PROVE  Follows(p, h[p], reg)
  BY DEF RecordsFollowTheHold
<1>1. h[p].pc = "new"
  BY DEF Init, Off
<1>2. \A k \in Path : reg[k].pid = 0
  BY DEF Init, NoRecord
<1>3. p # 0
  BY HolderAssumption
<1> QED  BY <1>1, <1>2, <1>3 DEF Follows

LEMMA NextFollows == Inv /\ [Next]_vars => RecordsFollowTheHold'
<1> SUFFICES ASSUME Inv, [Next]_vars PROVE RecordsFollowTheHold'
  OBVIOUS
<1>1. CASE \E p \in Holder :
             Start(p) \/ Step(p) \/ CheckIn(p) \/ Answer(p) \/ Monitor(p) \/ Signal(p) \/ Kill(p)
  BY <1>1, HolderStepFollows
<1>2. CASE \E w \in Sweeper : Sweep(w)
  BY <1>2, SweepFollows
<1>3. CASE \E a \in Address : BoxDrop(a)
  BY <1>3 DEF BoxDrop, Inv, RecordsFollowTheHold, Follows, Path
<1>4. CASE Tick
  BY <1>4, TickFollows
<1>5. CASE UNCHANGED vars
  BY <1>5 DEF vars, Inv, RecordsFollowTheHold, Follows, Path
<1> QED  BY <1>1, <1>2, <1>3, <1>4, <1>5 DEF Next

\* However many holders, one-shots, stops, kills and failures there are, the
\* files with a running holder's pid are that holder's one file, and they say
\* there is no proxy over the whole of a renewal's bring-up.
THEOREM RecordsFollow == Spec => []RecordsFollowTheHold
<1>1. Init => Inv
  BY InitTyped, InitFollows DEF Inv
<1>2. Inv /\ [Next]_vars => Inv'
  BY NextTyped, NextFollows DEF Inv
<1>3. Inv => RecordsFollowTheHold
  BY DEF Inv
<1> QED  BY <1>1, <1>2, <1>3, PTL DEF Spec

\* Whoever reads the registry is told the truth about a holder at rest.
THEOREM RegistryTellsTheTruth == Spec => []RecordsTellTheTruth
<1>1. RecordsFollowTheHold => RecordsTellTheTruth
  BY DEF RecordsFollowTheHold, Follows, RecordsTellTheTruth, OwnPath
<1> QED  BY <1>1, RecordsFollow, PTL

-----------------------------------------------------------------------------
(* A refusal's wait is kept.                                               *)

\* The supervisor s of a holder that was refused holds no session when it
\* watches or connects, and its next try is not before the re-ask.
Waits(s) ==
  s.refused =>
    /\ s.pc # "new"
    /\ s.pc \in {"watch", "register"} => s.sess = 0
    /\ s.reask > 0 => s.due >= NowDue + s.reask

WaitsKept == \A p \in Holder : Waits(h[p])

\* The step from supervisor s to t asks no refused question early.
Refrains(s, t) ==
  s.pc # "register" /\ t.pc = "register" /\ s.refused => s.reask = 0

\* Every wait the doubling backoff gives a refused holder spares the re-ask.
LEMMA DuesWait ==
  ASSUME TypeOK, NEW p \in Holder
  PROVE  /\ \A d \in RetryDues(p, TRUE) \cup RetryDues(p, FALSE)
                       \cup {NotBeforeRefusal(p, NowDue + 1)} :
              d \in Nat /\ (h[p].refused => d >= NowDue + h[p].reask)
         /\ h[p].due \in Nat /\ h[p].reask \in Nat
         /\ NowDue \in Nat /\ RefusalWait \in Nat /\ MaxBackoff \in Nat
<1>1. h[p].due \in Nat /\ h[p].reask \in Nat
  BY DuesTyped, TimeAssumption DEF TypeOK, HolderState, MaxDue, NowDue
<1>2. NowDue \in Nat /\ RefusalWait \in Nat /\ MaxBackoff \in Nat
  BY TimeAssumption DEF NowDue
<1>3. \A w \in Nat : LET d == NotBeforeRefusal(p, NowDue + w) IN
                     d \in Nat /\ (h[p].refused => d >= NowDue + h[p].reask)
  BY <1>1, <1>2 DEF NotBeforeRefusal
<1>4. \A u \in BOOLEAN : \A d \in RetryDues(p, u) : \E w \in Nat : d = NotBeforeRefusal(p, NowDue + w)
  BY <1>2 DEF RetryDues
<1> QED  BY <1>1, <1>2, <1>3, <1>4

\* Whatever a holder does, its refusal's wait stands, and it connects only
\* once the wait is over.
LEMMA HolderWaits ==
  ASSUME Inv, NEW p \in Holder, Waits(h[p]),
         \/ Start(p) \/ Step(p) \/ CheckIn(p) \/ Answer(p) \/ Monitor(p) \/ Signal(p) \/ Kill(p)
  PROVE  Waits(h'[p]) /\ Refrains(h[p], h'[p])
<1>h. h[p] \in HolderState /\ h \in [Holder -> HolderState]
  BY DEF Inv, TypeOK
<1>r. /\ h[p].due \in Nat /\ h[p].reask \in Nat /\ NowDue \in Nat /\ RefusalWait \in Nat
      /\ \A d \in RetryDues(p, TRUE) \cup RetryDues(p, FALSE)
                    \cup {NotBeforeRefusal(p, NowDue + 1)} :
           d \in Nat /\ (h[p].refused => d >= NowDue + h[p].reask)
  BY DuesWait DEF Inv
<1>1. CASE StepHealthy(p)
  <2>1. PICK d \in RebindDues(p) \cup {0} :
          Set(p, [h[p] EXCEPT !.due = d, !.latched = FALSE, !.refused = FALSE, !.reask = 0])
    BY <1>1 DEF StepHealthy
  <2>2. h'[p] = [h[p] EXCEPT !.due = d, !.latched = FALSE, !.refused = FALSE, !.reask = 0]
    BY <1>h, <2>1 DEF Set
  <2> QED  BY <1>h, <1>r, <1>1, <2>1, <2>2 DEF StepHealthy, Watching, HolderState, Waits, Refrains
<1>2. CASE StepSilent(p)
  <2>1. PICK d \in RebindDues(p) :
          Set(p, [h[p] EXCEPT !.due = d])
    BY <1>2 DEF StepSilent
  <2>2. h'[p] = [h[p] EXCEPT !.due = d]
    BY <1>h, <2>1 DEF Set
  <2> QED  BY <1>h, <1>r, <1>2, <2>1, <2>2 DEF StepSilent, Watching, HolderState, Waits, Refrains
<1>3. CASE StepWait(p)
  <2>1. PICK d \in LatchedDues(p) :
          Set(p, [h[p] EXCEPT !.due = d, !.latched = TRUE])
    BY <1>3 DEF StepWait
  <2>2. h'[p] = [h[p] EXCEPT !.due = d, !.latched = TRUE]
    BY <1>h, <2>1 DEF Set
  <2> QED  BY <1>h, <1>r, <1>3, <2>1, <2>2 DEF StepWait, Watching, HolderState, Waits, Refrains
<1>4. CASE StepRenew(p)
  <2>1. PICK d \in LatchedDues(p) :
          Set(p, [h[p] EXCEPT !.pc = "register", !.left = PhaseTicks, !.due = d, !.latched = TRUE])
    BY <1>4 DEF StepRenew
  <2>2. h'[p] = [h[p] EXCEPT !.pc = "register", !.left = PhaseTicks, !.due = d, !.latched = TRUE]
    BY <1>h, <2>1 DEF Set
  <2> QED  BY <1>h, <1>r, <1>4, <2>1, <2>2 DEF StepRenew, Watching, HolderState, Waits, Refrains
<1>5. CASE WaitForPort(p)
  <2>1. PICK d \in RetryDues(p, FALSE) :
          Set(p, [h[p] EXCEPT !.due = d, !.unreached = FALSE])
    BY <1>5 DEF WaitForPort
  <2>2. h'[p] = [h[p] EXCEPT !.due = d, !.unreached = FALSE]
    BY <1>h, <2>1 DEF Set
  <2> QED  BY <1>h, <1>r, <1>5, <2>1, <2>2 DEF WaitForPort, IdleDue, HolderState, Waits, Refrains
<1>6. CASE YieldIdle(p)
  <2>2. h'[p] = [h[p] EXCEPT !.due = NotBeforeRefusal(p, NowDue + 1), !.listen = ListenNow(p)]
    BY <1>h, <1>6 DEF YieldIdle, Set
  <2> QED  BY <1>h, <1>r, <1>6, <2>2 DEF YieldIdle, IdleDue, HolderState, Waits, Refrains
<1>7. CASE RenewIdle(p)
  <2>2. h'[p] = [h[p] EXCEPT !.pc = "register", !.left = PhaseTicks, !.due = NowDue,
             !.listen = ListenNow(p)]
    BY <1>h, <1>7 DEF RenewIdle, Set
  <2> QED  BY <1>h, <1>r, <1>7, <2>2 DEF RenewIdle, IdleDue, HolderState, Waits, Refrains
<1>8. CASE LetGo(p)
  <2>2. h'[p] = [h[p] EXCEPT !.pc = "watch", !.sess = 0, !.health = "up", !.quiet = 0]
    BY <1>h, <1>8 DEF LetGo, Set
  <2> QED  BY <1>h, <1>r, <1>8, <2>2 DEF LetGo, HolderState, Waits, Refrains
<1>9. CASE Swap(p)
  <2>2. h'[p] = [h[p] EXCEPT !.pc = "bringup", !.left = PhaseTicks, !.sess = 0, !.health = "up",
             !.quiet = 0, !.listen = PortToBind(p)]
    BY <1>h, <1>9 DEF Swap, Set
  <2> QED  BY <1>h, <1>r, <1>9, <2>2 DEF Swap, HolderState, Waits, Refrains
<1>10. CASE Bind(p)
  <2>1. PICK q \in Port :
          Set(p, [h[p] EXCEPT !.pc = "verify", !.sess = q])
    BY <1>10 DEF Bind
  <2>2. h'[p] = [h[p] EXCEPT !.pc = "verify", !.sess = q]
    BY <1>h, <2>1 DEF Set
  <2> QED  BY <1>h, <1>r, <1>10, <2>1, <2>2 DEF Bind, HolderState, Waits, Refrains
<1>11. CASE CloseStop(p)
  <2>2. h'[p] = [h[p] EXCEPT !.sess = 0]
    BY <1>h, <1>11 DEF CloseStop, Set
  <2> QED  BY <1>h, <1>r, <1>11, <2>2 DEF CloseStop, HolderState, Waits, Refrains
<1>12. CASE RegisterOk(p)
  <2>2. h'[p] = [h[p] EXCEPT !.pc = "swap", !.left = 0]
    BY <1>h, <1>12 DEF RegisterOk, Set
  <2> QED  BY <1>h, <1>r, <1>12, <2>2 DEF RegisterOk, Registering, HolderState, Waits, Refrains
<1>13. CASE RegisterRefused(p)
  <2>2. h'[p] = [h[p] EXCEPT !.pc = "letgo", !.left = 0, !.refused = TRUE,
             !.due = NowDue + RefusalWait, !.reask = RefusalWait]
    BY <1>h, <1>13 DEF RegisterRefused, Set
  <2> QED  BY <1>h, <1>r, <1>13, <2>2 DEF RegisterRefused, Registering, HolderState, Waits, Refrains
<1>14. CASE MonitorUp(p)
  <2>2. h'[p] = [h[p] EXCEPT !.health = "up", !.quiet = 0]
    BY <1>h, <1>14 DEF MonitorUp, Set
  <2> QED  BY <1>h, <1>r, <1>14, <2>2 DEF MonitorUp, Monitored, HolderState, Waits, Refrains
<1>15. CASE MonitorSilent(p)
  <2>2. h'[p] = [h[p] EXCEPT !.health = "silent", !.quiet = SilentTicks]
    BY <1>h, <1>15 DEF MonitorSilent, Set
  <2> QED  BY <1>h, <1>r, <1>15, <2>2 DEF MonitorSilent, Monitored, HolderState, Waits, Refrains
<1>16. CASE MonitorStuck(p)
  <2>2. h'[p] = [h[p] EXCEPT !.health = "stuck"]
    BY <1>h, <1>16 DEF MonitorStuck, Set
  <2> QED  BY <1>h, <1>r, <1>16, <2>2 DEF MonitorStuck, Monitored, HolderState, Waits, Refrains
<1>17. CASE Start(p)
  <2>1. PICK q \in PortsOf[p] :
          Set(p, [h[p] EXCEPT !.pc = "watch", !.sess = q, !.listen = q, !.pinned = q,
             !.endpoint = q, !.checkIns = MaxCheckIns])
    BY <1>17 DEF Start
  <2>2. h'[p] = [h[p] EXCEPT !.pc = "watch", !.sess = q, !.listen = q, !.pinned = q,
             !.endpoint = q, !.checkIns = MaxCheckIns]
    BY <1>h, <2>1 DEF Set
  <2> QED  BY <1>h, <1>r, <1>17, <2>1, <2>2 DEF Start, HolderState, Waits, Refrains
<1>18. CASE StandDown(p) \/ Signal(p)
  <2>1. h'[p] = Closing(p)
    BY <1>h, <1>18 DEF StandDown, Signal, Set
  <2> QED  BY <2>1 DEF Closing, Off, Waits, Refrains
<1>19. CASE CloseCheck(p) \/ CloseUnlink(p) \/ Kill(p)
  <2>1. h'[p] = [h[p] EXCEPT !.pc = "unlink"] \/ h'[p] = Off("gone") \/ h'[p] = Off("killed")
    BY <1>h, <1>19 DEF CloseCheck, CloseUnlink, Kill, Set
  <2> QED  BY <1>h, <1>r, <2>1 DEF Off, Waits, Refrains, HolderState
<1>20. CASE CheckIn(p)
  <2>1. h[p].pc = "watch" /\ h[p].sess # 0
    BY <1>20 DEF CheckIn, Watching
  <2>2. ~h[p].refused
    BY <1>h, <2>1 DEF Waits, HolderState
  <2>3. PICK d, c, w :
          LET healthy == [h[p] EXCEPT !.due = d, !.latched = FALSE, !.refused = FALSE,
                                      !.reask = 0, !.checkIns = c]
          IN \/ Set(p, healthy)
             \/ Set(p, [healthy EXCEPT !.pc = "register", !.left = PhaseTicks])
             \/ Set(p, [healthy EXCEPT !.due = w, !.unreached = FALSE])
    BY <1>20 DEF CheckIn
  <2>4. h'[p].refused = FALSE
    BY <1>h, <2>3 DEF Set, HolderState
  <2> QED  BY <2>2, <2>4 DEF Waits, Refrains
<1>21. CASE RegisterFailed(p)
  <2>0. PICK u \in BOOLEAN : \E d \in RetryDues(p, u) :
          Set(p, [h[p] EXCEPT !.pc = "watch", !.left = 0, !.due = d, !.unreached = u])
    BY <1>21 DEF RegisterFailed
  <2>1. PICK d \in RetryDues(p, u) :
          Set(p, [h[p] EXCEPT !.pc = "watch", !.left = 0, !.due = d, !.unreached = u])
    BY <2>0
  <2>2. h'[p] = [h[p] EXCEPT !.pc = "watch", !.left = 0, !.due = d, !.unreached = u]
    BY <1>h, <2>1 DEF Set
  <2>3. d \in Nat /\ (h[p].refused => d >= NowDue + h[p].reask)
    BY <1>r, <2>1
  <2> QED
    BY <1>h, <1>r, <1>21, <2>2, <2>3 DEF RegisterFailed, Registering, HolderState, Waits, Refrains
<1>22. ASSUME \E d \in RetryDues(p, FALSE) :
                /\ h'[p].due = d
                /\ h'[p].refused = h[p].refused /\ h'[p].reask = h[p].reask
                /\ h'[p].pc = "watch" /\ (h[p].refused => h'[p].sess = 0)
       PROVE  Waits(h'[p]) /\ Refrains(h[p], h'[p])
  BY <1>r, <1>22 DEF Waits, Refrains
<1>23. CASE RetryIdle(p, "down")
  <2>1. PICK d \in RetryDues(p, FALSE) :
          Set(p, [h[p] EXCEPT !.pc = "watch", !.left = 0, !.sess = 0, !.due = d,
                              !.unreached = FALSE])
    BY <1>23 DEF RetryIdle
  <2>2. h'[p] = [h[p] EXCEPT !.pc = "watch", !.left = 0, !.sess = 0, !.due = d,
                             !.unreached = FALSE]
    BY <1>h, <2>1 DEF Set
  <2> QED  BY <1>h, <1>22, <2>2 DEF HolderState
<1>24. CASE WrongAddress(p)
  <2>1. CASE h[p].pc = "register" /\ h[p].sess # 0
    <3>1. PICK d \in RetryDues(p, FALSE) :
            Set(p, [h[p] EXCEPT !.pc = "watch", !.left = 0, !.due = d, !.unreached = FALSE])
      BY <1>24, <2>1 DEF WrongAddress
    <3>2. h'[p] = [h[p] EXCEPT !.pc = "watch", !.left = 0, !.due = d, !.unreached = FALSE]
      BY <1>h, <3>1 DEF Set
    <3> QED  BY <1>h, <1>22, <2>1, <3>2 DEF HolderState, Waits
  <2> QED  BY <1>23, <1>24, <2>1 DEF WrongAddress
<1>25. CASE BringUpFailed(p)
  BY <1>23, <1>25 DEF BringUpFailed
<1>26. CASE BindFailed(p)
  <2>1. CASE Set(p, Closing(p))
    <3>1. h'[p] = Closing(p)
      BY <1>h, <2>1 DEF Set
    <3> QED  BY <3>1 DEF Closing, Off, Waits, Refrains
  <2>2. CASE ~Set(p, Closing(p))
    <3>1. PICK d, l :
            /\ d \in RetryDues(p, FALSE)
            /\ Set(p, [h[p] EXCEPT !.pc = "watch", !.left = 0, !.due = d, !.unreached = FALSE,
                                   !.listen = l])
      BY <1>26, <2>2 DEF BindFailed
    <3>2. h'[p] = [h[p] EXCEPT !.pc = "watch", !.left = 0, !.due = d, !.unreached = FALSE,
                               !.listen = l]
      BY <1>h, <3>1 DEF Set
    <3>3. h[p].pc = "bringup"
      BY <1>26 DEF BindFailed
    <3>4. h[p].sess = 0
      BY <3>3 DEF Inv, Follows, RecordsFollowTheHold
    <3> QED  BY <1>h, <1>22, <3>1, <3>2, <3>4 DEF HolderState
  <2> QED  BY <2>1, <2>2
<1>27. CASE VerifyOk(p) \/ FallBack(p)
  <2>1. PICK q, tier : Adopt(p, q, tier)
    BY <1>27 DEF VerifyOk, FallBack
  <2>2. h'[p] = [h[p] EXCEPT !.pc = "watch", !.left = 0, !.sess = q, !.tier = tier,
             !.health = "up", !.latched = FALSE, !.unreached = FALSE,
             !.refused = FALSE, !.reask = 0, !.endpoint = q, !.listen = q]
    BY <1>h, <2>1 DEF Adopt, Set
  <2> QED  BY <1>h, <2>2 DEF HolderState, Waits, Refrains
<1> QED
  BY <1>1, <1>2, <1>3, <1>4, <1>5, <1>6, <1>7, <1>8, <1>9, <1>10, <1>11, <1>12, <1>13, <1>14,
     <1>15, <1>16, <1>17, <1>18, <1>19, <1>20, <1>21, <1>24, <1>25, <1>26, <1>27
  DEF Step, Answer, Monitor

\* A holder's step is no other holder's.
LEMMA HolderMovesAlone ==
  ASSUME TypeOK, NEW p \in Holder, NEW q \in Holder \ {p},
         \/ Start(p) \/ Step(p) \/ CheckIn(p) \/ Answer(p) \/ Monitor(p) \/ Signal(p) \/ Kill(p)
  PROVE  h'[q] = h[q]
<1>1. \E s : Set(p, s)
  <2>1. CASE Start(p) \/ CheckIn(p) \/ Monitor(p) \/ Signal(p) \/ Kill(p)
    BY <2>1, Zenon DEF Start, CheckIn, Monitor, MonitorUp, MonitorSilent, MonitorStuck, Signal, Kill
  <2>2. CASE Step(p)
    BY <2>2, Zenon DEF Step, StepHealthy, StepSilent, StepWait, StepRenew, StandDown, WaitForPort,
         YieldIdle, RenewIdle, LetGo, Swap, Bind, BindFailed, CloseStop, CloseCheck, CloseUnlink
  <2>3. CASE Answer(p)
    BY <2>3, Zenon DEF Answer, RegisterOk, RegisterFailed, RegisterRefused, WrongAddress, VerifyOk,
         BringUpFailed, FallBack, Adopt, RetryIdle
  <2> QED  BY <2>1, <2>2, <2>3
<1> QED  BY <1>1 DEF Set, TypeOK

LEMMA NextWaits ==
  ASSUME Inv, WaitsKept, [Next]_vars
  PROVE  WaitsKept' /\ \A p \in Holder : Refrains(h[p], h'[p])
<1>i. TypeOK
  BY DEF Inv
<1> SUFFICES ASSUME NEW p \in Holder
             PROVE  Waits(h'[p]) /\ Refrains(h[p], h'[p])
  BY DEF WaitsKept, Waits, NowDue
<1>w. Waits(h[p])
  BY DEF WaitsKept
<1>s. ASSUME h'[p] = h[p]
      PROVE  Waits(h'[p]) /\ Refrains(h[p], h'[p])
  BY <1>w, <1>s DEF Refrains
<1>1. CASE \E q \in Holder :
             Start(q) \/ Step(q) \/ CheckIn(q) \/ Answer(q) \/ Monitor(q) \/ Signal(q) \/ Kill(q)
  <2>1. PICK q \in Holder :
          Start(q) \/ Step(q) \/ CheckIn(q) \/ Answer(q) \/ Monitor(q) \/ Signal(q) \/ Kill(q)
    BY <1>1
  <2>2. CASE q = p
    BY <1>w, <2>1, <2>2, HolderWaits DEF Inv
  <2>3. CASE q # p
    BY <1>i, <1>s, <2>1, <2>3, HolderMovesAlone
  <2> QED  BY <2>2, <2>3
<1>2. CASE (\E w \in Sweeper : Sweep(w)) \/ (\E a \in Address : BoxDrop(a)) \/ UNCHANGED vars
  <2>1. h' = h
    BY <1>2 DEF Sweep, SweepRead, SweepProbe, SweepUnlink, BoxDrop, vars
  <2> QED  BY <1>s, <2>1
<1>3. CASE Tick
  <2>1. h'[p] = [h[p] EXCEPT !.due = Down(h[p].due), !.reask = Down(h[p].reask),
                             !.left = Down(h[p].left), !.quiet = Down(h[p].quiet)]
    BY <1>3 DEF Tick
  <2>2. h[p] \in HolderState /\ h[p].due \in Nat /\ h[p].reask \in Nat /\ NowDue \in Nat
    BY <1>i, DuesWait DEF TypeOK
  <2>3. /\ h'[p].pc = h[p].pc /\ h'[p].sess = h[p].sess /\ h'[p].refused = h[p].refused
        /\ h'[p].due = Down(h[p].due) /\ h'[p].reask = Down(h[p].reask)
    BY <2>1, <2>2 DEF HolderState
  <2>4. h[p].reask > 0 /\ h[p].due >= NowDue + h[p].reask /\ Down(h[p].reask) > 0
          => Down(h[p].due) >= NowDue + Down(h[p].reask)
    BY <2>2 DEF Down
  <2>5. Down(h[p].reask) > 0 => h[p].reask > 0
    BY <2>2 DEF Down
  <2> QED  BY <1>w, <2>3, <2>4, <2>5 DEF Waits, Refrains
<1> QED  BY <1>1, <1>2, <1>3 DEF Next

\* While a refusal stands, no holder sends a connect before the re-ask it
\* scheduled: not for a yield, a port it waits for, a suspended host that
\* wakes, nor a tunnel that rebinds (notBeforeRefusal).
THEOREM RefusalsKept == Spec => RefusalKept
<1>1. Init => Inv /\ WaitsKept
  BY InitTyped, InitFollows DEF Inv, Init, WaitsKept, Waits, Off
<1>2. Inv /\ WaitsKept /\ [Next]_vars => Inv' /\ WaitsKept'
  BY NextTyped, NextFollows, NextWaits DEF Inv
<1>3. Inv /\ WaitsKept /\ [Next]_vars
        => [\A p \in Holder :
              /\ h[p].pc # "register" /\ h'[p].pc = "register"
              /\ h[p].refused
              => h[p].reask = 0]_vars
  BY NextWaits DEF Refrains
<1> QED  BY <1>1, <1>2, <1>3, PTL DEF Spec, RefusalKept

-----------------------------------------------------------------------------
(* A holder that serves is on file.                                        *)

\* What the file of the port a holder in state s serves says in registry r.
ListedBy(p, s, r) ==
  s.pc \in {"watch", "register"} /\ s.sess # 0
    => LET rec == r[<<AddrOf[p], s.sess>>] IN rec.pid = p /\ ~rec.noProxy

\* No two holders serve one port, and the file of a port served at rest, or
\* over a renewal's connect, is its holder's.
Shown ==
  /\ \A p, q \in Holder : h[p].sess # 0 /\ h[p].sess = h[q].sess => p = q
  /\ \A p \in Holder : ListedBy(p, h[p], reg)

\* A step of p that leaves the other holders' files alone, but for the port p
\* serves now, keeps every other holder on file.
LEMMA StepLists ==
  ASSUME Inv, Shown, NEW p \in Holder,
         \A q \in Holder \ {p} : h'[q] = h[q],
         \/ h'[p].sess \in {0, h[p].sess}
         \/ \A q \in Holder \ {p} : h[q].sess # h'[p].sess,
         \A k \in Path : \/ reg[k].pid \in {0, p}
                         \/ reg'[k] = reg[k]
                         \/ h'[p].sess # 0 /\ k[2] = h'[p].sess,
         ListedBy(p, h'[p], reg')
  PROVE  Shown'
<1>1. ASSUME NEW q \in Holder, NEW r \in Holder, h'[q].sess # 0, h'[q].sess = h'[r].sess
      PROVE  q = r
  BY <1>1 DEF Shown
<1>2. ASSUME NEW q \in Holder \ {p}
      PROVE  ListedBy(q, h'[q], reg')
  <2> SUFFICES ASSUME h[q].pc \in {"watch", "register"}, h[q].sess # 0
               PROVE  LET rec == reg'[<<AddrOf[q], h[q].sess>>] IN rec.pid = q /\ ~rec.noProxy
    BY <1>2 DEF ListedBy
  <2> DEFINE k == <<AddrOf[q], h[q].sess>>
  <2>1. k \in Path /\ k[2] = h[q].sess
    BY HolderAssumption DEF Inv, TypeOK, HolderState, Path
  <2>2. reg[k].pid = q /\ ~reg[k].noProxy
    BY DEF Shown, ListedBy
  <2>3. q \notin {0, p}
    BY <1>2, HolderAssumption
  <2>4. h'[p].sess # 0 => k[2] # h'[p].sess
    BY <1>2, <2>1, <1>1 DEF Shown
  <2> HIDE DEF k
  <2>5. reg'[k] = reg[k]
    BY <2>1, <2>2, <2>3, <2>4
  <2> QED  BY <2>2, <2>5 DEF k
<1>3. \A q \in Holder : ListedBy(q, h'[q], reg')
  BY <1>2
<1> QED  BY <1>1, <1>3 DEF Shown, ListedBy

\* A record says what its tunnel does:
LEMMA PublishLists ==
  ASSUME Inv, Shown, NEW p \in Holder, \A q \in Holder \ {p} : h'[q] = h[q],
         NEW state, reg' = Publish(p, state),
         h[p].pc = "watch", h'[p].sess = h[p].sess
  PROVE  Shown'
<1>1. TypeOK /\ ListedBy(p, h[p], reg)
  BY DEF Inv, Shown
<1>2. \A k \in Path : reg[k].pid \in {0, p} \/ reg'[k] = reg[k]
  BY <1>1, PublishEffect
<1>3. ListedBy(p, h'[p], reg')
  <2> SUFFICES ASSUME h[p].sess # 0
               PROVE  LET rec == reg'[<<AddrOf[p], h[p].sess>>] IN rec.pid = p /\ ~rec.noProxy
    BY DEF ListedBy
  <2> DEFINE k == <<AddrOf[p], h[p].sess>>
  <2>1. k \in Path
    BY <1>1, HolderAssumption DEF TypeOK, HolderState, Path
  <2>2. reg[k].pid = p /\ ~reg[k].noProxy
    BY <1>1 DEF ListedBy
  <2> HIDE DEF k
  <2>3. reg'[k].pid = p /\ ~reg'[k].noProxy
    BY <1>1, <2>1, <2>2, PublishEffect
  <2> QED  BY <2>3 DEF k
<1> QED  BY <1>2, <1>3, StepLists

\* Nothing is served, and the record says so:
LEMMA PublishHolderLists ==
  ASSUME Inv, Shown, NEW p \in Holder, \A q \in Holder \ {p} : h'[q] = h[q],
         NEW state, NEW due, reg' = PublishHolder(p, state, due),
         h'[p].sess \in {0, h[p].sess},
         h'[p].pc \in {"watch", "register"} => h'[p].sess = 0
  PROVE  Shown'
<1>1. \A k \in Path : reg[k].pid \in {0, p} \/ reg'[k] = reg[k]
  BY DEF PublishHolder, Inv, TypeOK
<1>2. ListedBy(p, h'[p], reg')
  BY DEF ListedBy
<1> QED  BY <1>1, <1>2, StepLists

\* The registry is left alone:
LEMMA QuietLists ==
  ASSUME Inv, Shown, NEW p \in Holder, \A q \in Holder \ {p} : h'[q] = h[q], reg' = reg,
         \/ h'[p].sess \in {0, h[p].sess}
         \/ \A q \in Holder \ {p} : h[q].sess # h'[p].sess,
         h'[p].pc \in {"watch", "register"} /\ h'[p].sess # 0
           => h[p].pc \in {"watch", "register"} /\ h'[p].sess = h[p].sess
  PROVE  Shown'
<1>1. ListedBy(p, h'[p], reg')
  BY DEF ListedBy, Shown
<1> QED  BY <1>1, StepLists

\* A new session takes the file of its port, which no other holder serves:
LEMMA AdoptLists ==
  ASSUME Inv, Shown, NEW p \in Holder, \A q \in Holder \ {p} : h'[q] = h[q],
         NEW port \in Port, NEW tier, Adopt(p, port, tier),
         \A q \in Holder \ {p} : h[q].sess # port
  PROVE  Shown'
<1> DEFINE rec == [pid |-> p, state |-> IF tier = "wireguard" THEN "up" ELSE "",
                   wg |-> tier = "wireguard", noProxy |-> FALSE, fresh |-> 0]
<1>1. h[p] \in HolderState /\ h \in [Holder -> HolderState] /\ AddrOf[p] \in Address /\ port # 0
  BY HolderAssumption DEF Inv, TypeOK
<1>2. h'[p] = [h[p] EXCEPT !.pc = "watch", !.left = 0, !.sess = port, !.tier = tier,
             !.health = "up", !.latched = FALSE, !.unreached = FALSE,
             !.refused = FALSE, !.reask = 0, !.endpoint = port, !.listen = port]
  BY <1>1 DEF Adopt, Set
<1>3. h'[p].sess = port
  BY <1>1, <1>2 DEF HolderState
<1>4. \A k \in Path : reg'[k] = IF k = <<AddrOf[p], port>> THEN rec
                               ELSE IF k = OwnPath(p) /\ reg[k].pid = p THEN NoRecord ELSE reg[k]
  BY DEF Adopt
<1>5. rec.pid = p /\ ~rec.noProxy /\ <<AddrOf[p], port>> \in Path
  BY <1>1 DEF Path
<1> HIDE DEF rec
<1>6. \A k \in Path : reg[k].pid \in {0, p} \/ reg'[k] = reg[k] \/ k[2] = h'[p].sess
  BY <1>3, <1>4
<1>7. ListedBy(p, h'[p], reg')
  BY <1>3, <1>4, <1>5 DEF ListedBy
<1> QED  BY <1>1, <1>3, <1>6, <1>7, StepLists

\* A clean-up removes no other holder's record.
CleanUpSpares(p) == CloseUnlink(p) => reg[OwnPath(p)].pid \in {0, p}

LEMMA HolderLists ==
  ASSUME Inv, Shown, NEW p \in Holder, CleanUpSpares(p),
         \/ Start(p) \/ Step(p) \/ CheckIn(p) \/ Answer(p) \/ Monitor(p) \/ Signal(p) \/ Kill(p)
  PROVE  Shown'
<1>h. h[p] \in HolderState /\ h \in [Holder -> HolderState]
  BY DEF Inv, TypeOK
<1>a. \A q \in Holder \ {p} : h'[q] = h[q]
  BY HolderMovesAlone DEF Inv
<1>1. CASE StepHealthy(p)
  <2>1. PICK d \in RebindDues(p) \cup {0} :
          /\ Set(p, [h[p] EXCEPT !.due = d, !.latched = FALSE, !.refused = FALSE, !.reask = 0])
          /\ reg' = Publish(p, "up")
    BY <1>1 DEF StepHealthy
  <2>2. h'[p] = [h[p] EXCEPT !.due = d, !.latched = FALSE, !.refused = FALSE, !.reask = 0]
    BY <1>h, <2>1 DEF Set
  <2>3. h[p].pc = "watch" /\ h'[p].sess = h[p].sess
    BY <1>h, <1>1, <2>2 DEF StepHealthy, Watching, HolderState
  <2> QED  BY <1>a, <2>1, <2>3, PublishLists
<1>2. CASE StepSilent(p)
  <2>1. PICK d \in RebindDues(p) :
          /\ Set(p, [h[p] EXCEPT !.due = d])
          /\ reg' = Publish(p, "down")
    BY <1>2 DEF StepSilent
  <2>2. h'[p] = [h[p] EXCEPT !.due = d]
    BY <1>h, <2>1 DEF Set
  <2>3. h[p].pc = "watch" /\ h'[p].sess = h[p].sess
    BY <1>h, <1>2, <2>2 DEF StepSilent, Watching, HolderState
  <2> QED  BY <1>a, <2>1, <2>3, PublishLists
<1>3. CASE StepWait(p)
  <2>1. PICK d \in LatchedDues(p) :
          /\ Set(p, [h[p] EXCEPT !.due = d, !.latched = TRUE])
          /\ reg' = Publish(p, "down")
    BY <1>3 DEF StepWait
  <2>2. h'[p] = [h[p] EXCEPT !.due = d, !.latched = TRUE]
    BY <1>h, <2>1 DEF Set
  <2>3. h[p].pc = "watch" /\ h'[p].sess = h[p].sess
    BY <1>h, <1>3, <2>2 DEF StepWait, Watching, HolderState
  <2> QED  BY <1>a, <2>1, <2>3, PublishLists
<1>4. CASE StepRenew(p)
  <2>1. PICK d \in LatchedDues(p) :
          /\ Set(p, [h[p] EXCEPT !.pc = "register", !.left = PhaseTicks, !.due = d, !.latched = TRUE])
          /\ reg' = Publish(p, "down")
    BY <1>4 DEF StepRenew
  <2>2. h'[p] = [h[p] EXCEPT !.pc = "register", !.left = PhaseTicks, !.due = d, !.latched = TRUE]
    BY <1>h, <2>1 DEF Set
  <2>3. h[p].pc = "watch" /\ h'[p].sess = h[p].sess
    BY <1>h, <1>4, <2>2 DEF StepRenew, Watching, HolderState
  <2> QED  BY <1>a, <2>1, <2>3, PublishLists
<1>5. CASE WaitForPort(p)
  <2>1. PICK d \in RetryDues(p, FALSE) :
          /\ Set(p, [h[p] EXCEPT !.due = d, !.unreached = FALSE])
          /\ reg' = PublishHolder(p, StateOf(p), d)
    BY <1>5 DEF WaitForPort
  <2>2. h'[p] = [h[p] EXCEPT !.due = d, !.unreached = FALSE]
    BY <1>h, <2>1 DEF Set
  <2>3. h'[p].sess \in {0, h[p].sess} /\ (h'[p].pc \in {"watch", "register"} => h'[p].sess = 0)
    BY <1>h, <1>5, <2>2 DEF WaitForPort, IdleDue, HolderState
  <2> QED  BY <1>a, <2>1, <2>3, PublishHolderLists
<1>6. CASE YieldIdle(p)
  <2>1. reg' = PublishHolder(p, StateOf(p), NotBeforeRefusal(p, NowDue + 1))
    BY <1>6 DEF YieldIdle
  <2>2. h'[p] = [h[p] EXCEPT !.due = NotBeforeRefusal(p, NowDue + 1), !.listen = ListenNow(p)]
    BY <1>h, <1>6 DEF YieldIdle, Set
  <2>3. h'[p].sess \in {0, h[p].sess} /\ (h'[p].pc \in {"watch", "register"} => h'[p].sess = 0)
    BY <1>h, <1>6, <2>2 DEF YieldIdle, IdleDue, HolderState
  <2> QED  BY <1>a, <2>1, <2>3, PublishHolderLists
<1>7. CASE RenewIdle(p)
  <2>1. reg' = PublishHolder(p, StateOf(p), NowDue)
    BY <1>7 DEF RenewIdle
  <2>2. h'[p] = [h[p] EXCEPT !.pc = "register", !.left = PhaseTicks, !.due = NowDue,
             !.listen = ListenNow(p)]
    BY <1>h, <1>7 DEF RenewIdle, Set
  <2>3. h'[p].sess \in {0, h[p].sess} /\ (h'[p].pc \in {"watch", "register"} => h'[p].sess = 0)
    BY <1>h, <1>7, <2>2 DEF RenewIdle, IdleDue, HolderState
  <2> QED  BY <1>a, <2>1, <2>3, PublishHolderLists
<1>8. CASE RegisterRefused(p)
  <2>1. reg' = PublishHolder(p, "refused", NowDue + RefusalWait)
    BY <1>8 DEF RegisterRefused
  <2>2. h'[p] = [h[p] EXCEPT !.pc = "letgo", !.left = 0, !.refused = TRUE,
             !.due = NowDue + RefusalWait, !.reask = RefusalWait]
    BY <1>h, <1>8 DEF RegisterRefused, Set
  <2>3. h'[p].sess \in {0, h[p].sess} /\ (h'[p].pc \in {"watch", "register"} => h'[p].sess = 0)
    BY <1>h, <1>8, <2>2 DEF RegisterRefused, Registering, HolderState
  <2> QED  BY <1>a, <2>1, <2>3, PublishHolderLists
<1>9. CASE LetGo(p)
  <2>1. reg' = reg
    BY <1>9 DEF LetGo
  <2>2. h'[p] = [h[p] EXCEPT !.pc = "watch", !.sess = 0, !.health = "up", !.quiet = 0]
    BY <1>h, <1>9 DEF LetGo, Set
  <2>3. /\ h'[p].sess \in {0, h[p].sess}
        /\ h'[p].pc \in {"watch", "register"} /\ h'[p].sess # 0 => h'[p].pc = h[p].pc
    BY <1>h, <1>9, <2>2 DEF LetGo, HolderState
  <2> QED  BY <1>a, <2>1, <2>3, QuietLists
<1>10. CASE Swap(p)
  <2>1. reg' = reg
    BY <1>10 DEF Swap
  <2>2. h'[p] = [h[p] EXCEPT !.pc = "bringup", !.left = PhaseTicks, !.sess = 0, !.health = "up",
             !.quiet = 0, !.listen = PortToBind(p)]
    BY <1>h, <1>10 DEF Swap, Set
  <2>3. /\ h'[p].sess \in {0, h[p].sess}
        /\ h'[p].pc \in {"watch", "register"} /\ h'[p].sess # 0 => h'[p].pc = h[p].pc
    BY <1>h, <1>10, <2>2 DEF Swap, HolderState
  <2> QED  BY <1>a, <2>1, <2>3, QuietLists
<1>11. CASE Bind(p)
  <2>1. PICK q \in Port :
          /\ Set(p, [h[p] EXCEPT !.pc = "verify", !.sess = q])
          /\ ~Answers(q)
          /\ reg' = reg
    BY <1>11 DEF Bind
  <2>2. h'[p] = [h[p] EXCEPT !.pc = "verify", !.sess = q]
    BY <1>h, <2>1 DEF Set
  <2>3. h'[p].sess = q /\ h'[p].pc = "verify"
    BY <1>h, <1>11, <2>2 DEF Bind, HolderState
  <2> QED  BY <1>a, <2>1, <2>3, QuietLists DEF Answers
<1>12. CASE CloseStop(p)
  <2>1. reg' = reg
    BY <1>12 DEF CloseStop
  <2>2. h'[p] = [h[p] EXCEPT !.sess = 0]
    BY <1>h, <1>12 DEF CloseStop, Set
  <2>3. /\ h'[p].sess \in {0, h[p].sess}
        /\ h'[p].pc \in {"watch", "register"} /\ h'[p].sess # 0 => h'[p].pc = h[p].pc
    BY <1>h, <1>12, <2>2 DEF CloseStop, HolderState
  <2> QED  BY <1>a, <2>1, <2>3, QuietLists
<1>13. CASE MonitorUp(p)
  <2>1. reg' = reg
    BY <1>13 DEF MonitorUp
  <2>2. h'[p] = [h[p] EXCEPT !.health = "up", !.quiet = 0]
    BY <1>h, <1>13 DEF MonitorUp, Set
  <2>3. /\ h'[p].sess \in {0, h[p].sess}
        /\ h'[p].pc \in {"watch", "register"} /\ h'[p].sess # 0 => h'[p].pc = h[p].pc
    BY <1>h, <1>13, <2>2 DEF MonitorUp, Monitored, HolderState
  <2> QED  BY <1>a, <2>1, <2>3, QuietLists
<1>14. CASE MonitorSilent(p)
  <2>1. reg' = reg
    BY <1>14 DEF MonitorSilent
  <2>2. h'[p] = [h[p] EXCEPT !.health = "silent", !.quiet = SilentTicks]
    BY <1>h, <1>14 DEF MonitorSilent, Set
  <2>3. /\ h'[p].sess \in {0, h[p].sess}
        /\ h'[p].pc \in {"watch", "register"} /\ h'[p].sess # 0 => h'[p].pc = h[p].pc
    BY <1>h, <1>14, <2>2 DEF MonitorSilent, Monitored, HolderState
  <2> QED  BY <1>a, <2>1, <2>3, QuietLists
<1>15. CASE MonitorStuck(p)
  <2>1. reg' = reg
    BY <1>15 DEF MonitorStuck
  <2>2. h'[p] = [h[p] EXCEPT !.health = "stuck"]
    BY <1>h, <1>15 DEF MonitorStuck, Set
  <2>3. /\ h'[p].sess \in {0, h[p].sess}
        /\ h'[p].pc \in {"watch", "register"} /\ h'[p].sess # 0 => h'[p].pc = h[p].pc
    BY <1>h, <1>15, <2>2 DEF MonitorStuck, Monitored, HolderState
  <2> QED  BY <1>a, <2>1, <2>3, QuietLists
<1>16. CASE StandDown(p)
  <2>1. h'[p] = Closing(p) /\ reg' = PublishHolder(p, StateOf(p), NowDue)
    BY <1>h, <1>16 DEF StandDown, Set
  <2>2. h'[p].sess \in {0, h[p].sess} /\ h'[p].pc = "closing"
    BY <2>1 DEF Closing, Off
  <2> QED  BY <1>a, <2>1, <2>2, PublishHolderLists
<1>17. CASE Signal(p)
  <2>1. h'[p] = Closing(p) /\ reg' = reg
    BY <1>h, <1>17 DEF Signal, Set
  <2>2. h'[p].sess \in {0, h[p].sess} /\ h'[p].pc = "closing"
    BY <2>1 DEF Closing, Off
  <2> QED  BY <1>a, <2>1, <2>2, QuietLists
<1>18. CASE CloseCheck(p) \/ Kill(p)
  <2>1. /\ h'[p] = [h[p] EXCEPT !.pc = "unlink"] \/ h'[p] = Off("gone") \/ h'[p] = Off("killed")
        /\ reg' = reg
    BY <1>h, <1>18 DEF CloseCheck, Kill, Set
  <2>2. h'[p].sess \in {0, h[p].sess} /\ h'[p].pc \notin {"watch", "register"}
    BY <1>h, <2>1 DEF Off, HolderState
  <2> QED  BY <1>a, <2>1, <2>2, QuietLists
<1>19. CASE CloseUnlink(p)
  <2>1. h'[p] = Off("gone") /\ reg' = [reg EXCEPT ![OwnPath(p)] = NoRecord]
    BY <1>h, <1>19 DEF CloseUnlink, Set
  <2>2. h'[p].sess = 0 /\ reg[OwnPath(p)].pid \in {0, p}
    BY <1>19, <2>1 DEF Off, CleanUpSpares
  <2>3. \A k \in Path : reg[k].pid \in {0, p} \/ reg'[k] = reg[k]
    BY <2>1, <2>2 DEF Inv, TypeOK
  <2>4. ListedBy(p, h'[p], reg')
    BY <2>2 DEF ListedBy
  <2> QED  BY <1>a, <2>2, <2>3, <2>4, StepLists
<1>20. CASE CheckIn(p)
  <2>1. PICK d, c, w :
          LET healthy == [h[p] EXCEPT !.due = d, !.latched = FALSE, !.refused = FALSE,
                                      !.reask = 0, !.checkIns = c]
          IN \/ Set(p, healthy)
             \/ Set(p, [healthy EXCEPT !.pc = "register", !.left = PhaseTicks])
             \/ Set(p, [healthy EXCEPT !.due = w, !.unreached = FALSE])
    BY <1>20, Zenon DEF CheckIn
  <2>2. h'[p].sess = h[p].sess
    <3> DEFINE healthy == [h[p] EXCEPT !.due = d, !.latched = FALSE, !.refused = FALSE,
                                       !.reask = 0, !.checkIns = c]
    <3>1. \A x : Set(p, x) => h'[p] = x
      BY <1>h DEF Set
    <3>2. \/ h'[p] = healthy
          \/ h'[p] = [healthy EXCEPT !.pc = "register", !.left = PhaseTicks]
          \/ h'[p] = [healthy EXCEPT !.due = w, !.unreached = FALSE]
      BY <2>1, <3>1, Zenon
    <3>3. "sess" \in DOMAIN h[p]
      BY <1>h DEF HolderState
    <3>4. "sess" \in DOMAIN healthy /\ healthy.sess = h[p].sess
      BY <3>3
    <3> HIDE DEF healthy
    <3> QED  BY <3>2, <3>4
  <2>3. h[p].pc = "watch" /\ reg' = Publish(p, "up")
    BY <1>20, Zenon DEF CheckIn, Watching
  <2> QED  BY <1>a, <2>2, <2>3, PublishLists
<1>21. CASE RegisterOk(p)
  <2>1. h'[p] = [h[p] EXCEPT !.pc = "swap", !.left = 0]
    BY <1>h, <1>21 DEF RegisterOk, Set
  <2>2. h'[p].sess = h[p].sess /\ h'[p].pc = "swap"
    BY <1>h, <2>1 DEF HolderState
  <2>3. reg' = PublishHolder(p, "down", h[p].due) \/ reg' = reg
    BY <1>21 DEF RegisterOk
  <2> QED  BY <1>a, <2>2, <2>3, PublishHolderLists, QuietLists
<1>22. CASE RegisterFailed(p)
  <2>1. PICK d, u :
          /\ Set(p, [h[p] EXCEPT !.pc = "watch", !.left = 0, !.due = d, !.unreached = u])
          /\ reg' = IF h[p].sess = 0 THEN PublishHolder(p, StateOf(p), d) ELSE reg
    BY <1>22 DEF RegisterFailed
  <2>2. h'[p] = [h[p] EXCEPT !.pc = "watch", !.left = 0, !.due = d, !.unreached = u]
    BY <1>h, <2>1 DEF Set
  <2>3. h'[p].sess = h[p].sess /\ h[p].pc = "register"
    BY <1>h, <1>22, <2>2 DEF RegisterFailed, Registering, HolderState
  <2>4. CASE h[p].sess = 0
    BY <1>a, <2>1, <2>3, <2>4, PublishHolderLists
  <2>5. CASE h[p].sess # 0
    BY <1>a, <2>1, <2>3, <2>5, QuietLists
  <2> QED  BY <2>4, <2>5
<1>23. CASE RetryIdle(p, "down")
  <2>1. PICK d \in RetryDues(p, FALSE) :
          /\ Set(p, [h[p] EXCEPT !.pc = "watch", !.left = 0, !.sess = 0, !.due = d,
                                 !.unreached = FALSE])
          /\ reg' = PublishHolder(p, "down", d)
    BY <1>23 DEF RetryIdle
  <2>2. h'[p] = [h[p] EXCEPT !.pc = "watch", !.left = 0, !.sess = 0, !.due = d,
                             !.unreached = FALSE]
    BY <1>h, <2>1 DEF Set
  <2>3. h'[p].sess = 0
    BY <1>h, <2>2 DEF HolderState
  <2> QED  BY <1>a, <2>1, <2>3, PublishHolderLists
<1>24. CASE WrongAddress(p)
  <2>1. CASE h[p].pc = "register" /\ h[p].sess # 0
    <3>1. PICK d \in RetryDues(p, FALSE) :
            Set(p, [h[p] EXCEPT !.pc = "watch", !.left = 0, !.due = d, !.unreached = FALSE])
      BY <1>24, <2>1 DEF WrongAddress
    <3>2. h'[p] = [h[p] EXCEPT !.pc = "watch", !.left = 0, !.due = d, !.unreached = FALSE]
      BY <1>h, <3>1 DEF Set
    <3>3. h'[p].sess = h[p].sess /\ reg' = reg
      BY <1>h, <1>24, <2>1, <3>2 DEF WrongAddress, HolderState
    <3> QED  BY <1>a, <2>1, <3>3, QuietLists
  <2> QED  BY <1>23, <1>24, <2>1 DEF WrongAddress
<1>25. CASE BringUpFailed(p)
  BY <1>23, <1>25 DEF BringUpFailed
<1>26. CASE BindFailed(p)
  <2>0. h[p].pc = "bringup" /\ h[p].sess = 0
    BY <1>26 DEF BindFailed, Inv, Follows, RecordsFollowTheHold
  <2>1. CASE Set(p, Closing(p)) /\ UNCHANGED reg
    <3>1. h'[p] = Closing(p) /\ reg' = reg
      BY <1>h, <2>1 DEF Set
    <3>2. h'[p].sess = h[p].sess /\ h'[p].pc = "closing"
      BY <3>1 DEF Closing, Off
    <3> QED  BY <1>a, <3>1, <3>2, QuietLists
  <2>2. CASE ~(Set(p, Closing(p)) /\ UNCHANGED reg)
    <3>1. PICK d, l, state :
            /\ Set(p, [h[p] EXCEPT !.pc = "watch", !.left = 0, !.due = d, !.unreached = FALSE,
                                   !.listen = l])
            /\ reg' = PublishHolder(p, state, d)
      BY <1>26, <2>2 DEF BindFailed
    <3>2. h'[p] = [h[p] EXCEPT !.pc = "watch", !.left = 0, !.due = d, !.unreached = FALSE,
                               !.listen = l]
      BY <1>h, <3>1 DEF Set
    <3>3. h'[p].sess = 0
      BY <1>h, <2>0, <3>2 DEF HolderState
    <3> QED  BY <1>a, <3>1, <3>3, PublishHolderLists
  <2> QED  BY <2>1, <2>2
<1>27. CASE VerifyOk(p)
  <2>1. h[p].sess \in Port
    BY <1>27 DEF VerifyOk, Inv, Follows, RecordsFollowTheHold
  <2>2. \A q \in Holder \ {p} : h[q].sess # h[p].sess
    BY <2>1, HolderAssumption DEF Shown
  <2> QED  BY <1>a, <1>27, <2>1, <2>2, AdoptLists DEF VerifyOk
<1>28. CASE FallBack(p)
  BY <1>a, <1>28, AdoptLists DEF FallBack
<1>29. CASE Start(p)
  <2>1. PICK q \in PortsOf[p] :
          /\ ~Answers(q)
          /\ Set(p, [h[p] EXCEPT !.pc = "watch", !.sess = q, !.listen = q,
                                 !.pinned = q, !.endpoint = q, !.checkIns = MaxCheckIns])
          /\ reg' = [reg EXCEPT ![<<AddrOf[p], q>>] =
                       [pid |-> p, state |-> "", wg |-> TRUE, noProxy |-> FALSE, fresh |-> 0]]
    BY <1>29 DEF Start
  <2> DEFINE rec == [pid |-> p, state |-> "", wg |-> TRUE, noProxy |-> FALSE, fresh |-> 0]
  <2>2. h'[p] = [h[p] EXCEPT !.pc = "watch", !.sess = q, !.listen = q,
                             !.pinned = q, !.endpoint = q, !.checkIns = MaxCheckIns]
    BY <1>h, <2>1 DEF Set
  <2>3. h'[p].sess = q /\ q \in Port /\ q # 0 /\ AddrOf[p] \in Address
    BY <1>h, <2>2, HolderAssumption DEF HolderState
  <2>4. rec.pid = p /\ ~rec.noProxy /\ <<AddrOf[p], q>> \in Path
    BY <2>3 DEF Path
  <2>5. \A r \in Holder : h[r].sess # q
    BY <2>1 DEF Answers
  <2> HIDE DEF rec
  <2>6. \A k \in Path : reg'[k] = IF k = <<AddrOf[p], q>> THEN rec ELSE reg[k]
    BY <2>1 DEF rec, Inv, TypeOK
  <2>7. ListedBy(p, h'[p], reg')
    BY <2>3, <2>4, <2>6 DEF ListedBy
  <2>8. \A k \in Path : reg'[k] = reg[k] \/ k[2] = h'[p].sess
    BY <2>3, <2>6
  <2> QED  BY <1>a, <2>3, <2>5, <2>7, <2>8, StepLists
<1> QED
  BY <1>1, <1>2, <1>3, <1>4, <1>5, <1>6, <1>7, <1>8, <1>9, <1>10, <1>11, <1>12, <1>13, <1>14,
     <1>15, <1>16, <1>17, <1>18, <1>19, <1>20, <1>21, <1>22, <1>24, <1>25, <1>26, <1>27,
     <1>28, <1>29
  DEF Step, Answer, Monitor

\* A sweep unlinks no running holder's record.
SweepSpares(w) ==
  /\ sweep[w].stage = "unlink"
  /\ sweep'[w].stage = "idle"
  => LET p == reg[sweep[w].path].pid IN p = 0 \/ ~Running(p)

LEMMA SweepLists ==
  ASSUME Inv, Shown, NEW w \in Sweeper, SweepSpares(w), Sweep(w)
  PROVE  Shown'
<1>1. h' = h
  BY DEF Sweep, SweepRead, SweepProbe, SweepUnlink
<1>2. CASE reg' = reg
  BY <1>1, <1>2 DEF Shown, ListedBy
<1>3. CASE SweepUnlink(w)
  <2>1. sweep'[w] = Idle /\ reg' = [reg EXCEPT ![sweep[w].path] = NoRecord]
    BY <1>3 DEF SweepUnlink, Inv, TypeOK
  <2>2. LET p == reg[sweep[w].path].pid IN p = 0 \/ ~Running(p)
    BY <1>3, <2>1 DEF SweepUnlink, SweepSpares, Idle
  <2>3. ASSUME NEW p \in Holder, h[p].pc \in {"watch", "register"}, h[p].sess # 0
        PROVE  reg'[<<AddrOf[p], h[p].sess>>] = reg[<<AddrOf[p], h[p].sess>>]
    <3> DEFINE k == <<AddrOf[p], h[p].sess>>
    <3>1. reg[k].pid = p /\ Running(p) /\ p # 0
      BY <2>3, HolderAssumption DEF Shown, ListedBy, Running
    <3> HIDE DEF k
    <3>2. k # sweep[w].path
      BY <2>2, <3>1
    <3>3. reg'[k] = reg[k]
      BY <2>1, <3>2 DEF Inv, TypeOK
    <3> QED  BY <3>3 DEF k
  <2> QED  BY <1>1, <2>3 DEF Shown, ListedBy
<1> QED  BY <1>2, <1>3 DEF Sweep, SweepRead, SweepProbe

LEMMA NextLists ==
  ASSUME Inv, Shown, [Next]_vars,
         [\A w \in Sweeper : SweepSpares(w)]_vars, [\A p \in Holder : CleanUpSpares(p)]_vars
  PROVE  Shown'
<1>1. CASE UNCHANGED vars
  BY <1>1 DEF vars, Shown, ListedBy
<1>2. CASE \E p \in Holder :
             Start(p) \/ Step(p) \/ CheckIn(p) \/ Answer(p) \/ Monitor(p) \/ Signal(p) \/ Kill(p)
  BY <1>1, <1>2, HolderLists
<1>3. CASE \E w \in Sweeper : Sweep(w)
  BY <1>1, <1>3, SweepLists
<1>4. CASE \E a \in Address : BoxDrop(a)
  BY <1>4 DEF BoxDrop, Shown, ListedBy
<1>5. CASE Tick
  <2>1. \A p \in Holder : h'[p].pc = h[p].pc /\ h'[p].sess = h[p].sess
    <3> TAKE p \in Holder
    <3>1. h[p] \in HolderState
      BY DEF Inv, TypeOK
    <3>2. h'[p] = [h[p] EXCEPT !.due = Down(h[p].due), !.reask = Down(h[p].reask),
                               !.left = Down(h[p].left), !.quiet = Down(h[p].quiet)]
      BY <1>5 DEF Tick
    <3> HIDE DEF Down
    <3> QED  BY <3>1, <3>2 DEF HolderState
  <2>2. \A k \in Path : reg'[k].pid = reg[k].pid /\ reg'[k].noProxy = reg[k].noProxy
    BY <1>5 DEF Tick, Inv, TypeOK, Record
  <2>3. \A p \in Holder : h[p].sess # 0 => <<AddrOf[p], h[p].sess>> \in Path
    BY HolderAssumption DEF Inv, TypeOK, HolderState, Path
  <2> QED  BY <2>1, <2>2, <2>3 DEF Shown, ListedBy
<1> QED  BY <1>1, <1>2, <1>3, <1>4, <1>5 DEF Next

\* A serving holder is listed at the port it serves, in every run in which no
\* sweep unlinks a running holder's record and no clean-up another's: nothing
\* else takes a serving holder off file, not a start on the same address, a
\* renewal, a fall-back, a stand-down or a kill (adopt, publishHolder).
THEOREM ServingListed ==
  Spec /\ SweepSparesTheLiving /\ CleanUpSparesOthers => []ServingIsListed
<1>1. Init => Inv /\ Shown
  BY InitTyped, InitFollows DEF Inv, Init, Shown, ListedBy, Off
<1>2. Inv /\ Shown /\ [Next]_vars
        /\ [\A w \in Sweeper : SweepSpares(w)]_vars
        /\ [\A p \in Holder : CleanUpSpares(p)]_vars
        => Inv' /\ Shown'
  BY NextTyped, NextFollows, NextLists DEF Inv
<1>3. Shown => ServingIsListed
  BY DEF Shown, ListedBy, ServingIsListed
<1>4. SweepSparesTheLiving => [][\A w \in Sweeper : SweepSpares(w)]_vars
  <2>1. [\A w \in Sweeper :
           /\ sweep[w].stage = "unlink"
           /\ sweep'[w].stage = "idle"
           => LET p == reg[sweep[w].path].pid IN p = 0 \/ ~Running(p)]_vars
          => [\A w \in Sweeper : SweepSpares(w)]_vars
    BY DEF SweepSpares
  <2> QED  BY <2>1, PTL DEF SweepSparesTheLiving
<1>5. CleanUpSparesOthers => [][\A p \in Holder : CleanUpSpares(p)]_vars
  <2>1. [\A p \in Holder : CloseUnlink(p) => reg[OwnPath(p)].pid \in {0, p}]_vars
          => [\A p \in Holder : CleanUpSpares(p)]_vars
    BY DEF CleanUpSpares
  <2> QED  BY <2>1, PTL DEF CleanUpSparesOthers
<1> QED  BY <1>1, <1>2, <1>3, <1>4, <1>5, PTL DEF Spec
=============================================================================
