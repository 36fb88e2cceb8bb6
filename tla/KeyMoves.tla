------------------------------ MODULE KeyMoves ------------------------------
(***************************************************************************)
(* An identity's key as it moves, between the service's key-event log and  *)
(* the files of the host that holds the key (internal/idkey/chain.go):     *)
(* `whisper identity rotate`, `recover` and `cancel` (cli/identity_kel.go) *)
(* and what every connect does about a move whose answer was lost          *)
(* (cli/kel_moves.go).                                                     *)
(*                                                                         *)
(* A run of one of them is a sequence of requests and of file writes, and  *)
(* may stop after any: it is killed, or its request's answer is lost once  *)
(* the service has acted.  Every other run goes on from what is on disk.   *)
(* Keys are numbers in the order they are minted, 0 is none.               *)
(***************************************************************************)
EXTENDS Integers, Sequences, FiniteSets, Functions

CONSTANTS
  Run,      \* command invocations on this host, each used again once it ends
  Jobs,     \* what each may be
  Renewer,  \* the one whose connects the supervisor repeats for good
  Spared,   \* bound: places at which no run is stopped
  MaxKey,   \* bound: keys ever minted
  MaxLen    \* bound: events of the log

Key == 1 .. MaxKey
Job == {"rotate", "recover", "cancel", "connect"}

ASSUME KeyAssumption ==
  /\ MaxKey \in Nat \ {0, 1} /\ MaxLen \in Nat \ {0}
  /\ Jobs \in [Run -> SUBSET Job]
  /\ Renewer \in Run

VARIABLES
  log,       \* the service: the events of the identity's chain, [key, next], next 0 seals
  offer,     \* the service: a recovery waiting out its window
  minted,    \* the last key minted
  linked,    \* the key in the handle's file, 0 for no file
  stored,    \* the keys under their own digest, kel/<digest>.pem
  nextOf,    \* kel/<digest>.next.pem
  moved,     \* kel/<digest>.moved
  rotating,  \* the keys with a kel/<digest>.rotating
  pointer,   \* kel/<digest>.recovery, and at 0 the handle's
  run        \* the invocations

files == <<minted, linked, stored, nextOf, moved, rotating, pointer>>
vars == <<log, offer, files, run>>

-----------------------------------------------------------------------------
(* The service, as identity_kel_test.go stands in for it and the comments  *)
(* of chain.go describe it.                                                *)

None == [key |-> 0, next |-> 0]
Event == [key : Key, next : Key \cup {0}]
Last == log[Len(log)]

\* A node serves the whole log, or one that has not caught up all but its last event.
View == {n \in 1 .. Len(log) : n >= Len(log) - 1}

\* The statement of e over the first n events is a step that is in the log already.
Landed(n, e) == n < Len(log) /\ log[n + 1] = e

\* It is a step over the log's head, and the log has room in this model.
Fits(n) == n = Len(log) /\ n < MaxLen

Appended(e) == log' = Append(log, e) /\ offer' = None

\* A recovery's window ends.
TakeEffect ==
  /\ offer # None /\ Len(log) < MaxLen
  /\ Appended(offer)
  /\ UNCHANGED <<files, run>>

-----------------------------------------------------------------------------
(* The host's store.                                                       *)

\* maxMoves, which is even too and more than any chain has.
MaxMoves == 2 * MaxKey

\* follow: from a key along the recorded moves, while the key moved to is stored.
Follow(k) ==
  LET onward == [c \in Key \cup {0} |-> IF c # 0 /\ moved[c] \in stored THEN moved[c] ELSE c]
      after[i \in 0 .. MaxMoves] == IF i = 0 THEN k ELSE onward[after[i - 1]]
  IN after[MaxMoves]

\* Load: the key this host proves the identity with, 0 when it holds none.
Cur == Follow(linked)

\* Mutant: it mints without a look at what is kept.
EnsureNextAnew(k) ==
  /\ minted < MaxKey
  /\ minted' = minted + 1
  /\ nextOf' = [nextOf EXCEPT ![k] = minted + 1]

\* EnsureNextKey: the key kept for after k, minted and kept first if there is none.
EnsureNext(k) ==
  IF nextOf[k] # 0 THEN UNCHANGED <<minted, nextOf>>
  ELSE /\ minted < MaxKey
       /\ minted' = minted + 1
       /\ nextOf' = [nextOf EXCEPT ![k] = minted + 1]

\* Successors: the next key once its rotation was marked, and a pending recovery's.
Successors(k) ==
  ({nextOf[j] : j \in rotating \cap {k}} \cup ({pointer[k]} \cap stored)) \ {0}

-----------------------------------------------------------------------------
(* Runs.  cur is the key it loaded, key the one it moves to, base the      *)
(* number of events its statement stands on, landed whether it found its   *)
(* step in the log, tries how often it read the log before, again the same *)
(* of commitSealed, look the pointer FinishRecovery is at.                 *)

PC == {"idle", "read", "keep", "mark", "send", "pem", "move",
       "seal", "commit", "reread",
       "pick", "name", "next", "head", "ask", "link", "finish", "drop",
       "withdraw", "forget", "prove", "offer", "log"}

Rest == [pc |-> "idle", job |-> "connect", cur |-> 0, key |-> 0, base |-> 0,
         landed |-> FALSE, tries |-> 0, again |-> 0, look |-> 0]

First == [rotate |-> "read", recover |-> "pick", cancel |-> "withdraw", connect |-> "prove"]

Start(r, j) ==
  /\ run[r].pc = "idle" /\ j \in Jobs[r]
  /\ Cur = 0 => j \in {"recover", "cancel"}
  /\ run' = [run EXCEPT ![r] = [Rest EXCEPT !.pc = First[j], !.job = j, !.cur = Cur]]
  /\ UNCHANGED <<log, offer, files>>

At(r, pc) == run[r].pc = pc
Goto(r, pc) == run' = [run EXCEPT ![r].pc = pc]
Ends(r) == run' = [run EXCEPT ![r] = Rest]

\* Killed, refused on the way, or the answer never came.
Stop(r) ==
  /\ run[r].pc \notin {"idle"} \cup Spared
  /\ Ends(r)
  /\ UNCHANGED <<log, offer, files>>

-----------------------------------------------------------------------------
(* rotate                                                                  *)

\* readHistory, and what rotateIdentity makes of it.
Read(r, n) ==
  LET cur == run[r].cur
      next == nextOf[cur]
      landed == next # 0 /\ log[n].key = next /\ n > 1
      base == IF landed THEN n - 1 ELSE n
      mine == landed \/ log[base].key = cur
      sealed == log[base].next = 0
      on(pc) == run' = [run EXCEPT ![r] =
                          [@ EXCEPT !.pc = pc, !.key = next, !.base = base, !.landed = landed]]
  IN /\ At(r, "read") /\ n \in View
     /\ \/ mine /\ sealed /\ on("seal")
        \/ mine /\ ~sealed /\ next = log[base].next /\ on("keep")
        \/ ~mine /\ Ends(r)
        \/ mine /\ ~sealed /\ next # log[base].next /\ Ends(r)
     /\ UNCHANGED <<log, offer, files>>

\* The key after next is kept, MarkRotating, and the statement is sent.
Keep(r) ==
  /\ At(r, "keep")
  /\ EnsureNext(run[r].key)
  /\ Goto(r, "mark")
  /\ UNCHANGED <<log, offer, linked, stored, moved, rotating, pointer>>

Mark(r) ==
  /\ At(r, "mark")
  /\ rotating' = rotating \cup {run[r].cur}
  /\ Goto(r, "send")
  /\ UNCHANGED <<log, offer, minted, linked, stored, nextOf, moved, pointer>>

Send(r) ==
  LET e == [key |-> run[r].key, next |-> nextOf[run[r].key]]
      n == run[r].base
  IN /\ At(r, "send")
     /\ \/ /\ Landed(n, e)
           /\ IF Last.key = e.key THEN Goto(r, "pem") ELSE Ends(r)
           /\ UNCHANGED <<log, offer>>
        \/ /\ ~Landed(n, e) /\ Fits(n) /\ Last.next = e.key
           /\ Appended(e)
           /\ Goto(r, "pem")
        \/ /\ ~Landed(n, e) /\ n < Len(log)
           /\ IF run[r].tries = 0 /\ ~run[r].landed
                THEN run' = [run EXCEPT ![r] = [@ EXCEPT !.pc = "read", !.tries = 1]]
                ELSE Ends(r)
           /\ UNCHANGED <<log, offer>>
     /\ UNCHANGED files

\* RecordMove: the key's file, then the record.
RecordKey(r) ==
  /\ At(r, "pem")
  /\ stored' = stored \cup {run[r].key}
  /\ Goto(r, "move")
  /\ UNCHANGED <<log, offer, minted, linked, nextOf, moved, rotating, pointer>>

RecordMove(r) ==
  LET cur == run[r].cur
      key == run[r].key
  IN /\ At(r, "move")
     /\ moved' = IF moved[cur] = 0 THEN [moved EXCEPT ![cur] = key] ELSE moved
     /\ IF moved[cur] \in {0, key} /\ run[r].job = "recover" THEN Goto(r, "finish") ELSE Ends(r)
     /\ UNCHANGED <<log, offer, minted, linked, stored, nextOf, rotating, pointer>>

-----------------------------------------------------------------------------
(* commitSealed, of a rotation and of a connect's settleChain              *)

Seal(r) ==
  /\ At(r, "seal")
  /\ EnsureNext(run[r].cur)
  /\ Goto(r, "commit")
  /\ UNCHANGED <<log, offer, linked, stored, moved, rotating, pointer>>

\* Mutant: every commitment is followed by another attempt.
CommittedAnew(r) ==
  IF run[r].job = "rotate"
    THEN run' = [run EXCEPT ![r] = [@ EXCEPT !.pc = "read", !.tries = @ + 1]]
    ELSE Ends(r)

\* A rotation goes on with its second attempt, a connect is done.
Committed(r) ==
  IF run[r].job = "rotate" /\ run[r].tries = 0
    THEN run' = [run EXCEPT ![r] = [@ EXCEPT !.pc = "read", !.tries = 1]]
    ELSE Ends(r)

SendCommit(r) ==
  LET e == [key |-> run[r].cur, next |-> nextOf[run[r].cur]]
      n == run[r].base
  IN /\ At(r, "commit")
     /\ \/ Landed(n, e) /\ Committed(r) /\ UNCHANGED <<log, offer>>
        \/ ~Landed(n, e) /\ Fits(n) /\ Appended(e) /\ Committed(r)
        \/ /\ ~Landed(n, e) /\ n < Len(log)
           /\ IF run[r].again = 0 THEN Goto(r, "reread") ELSE Ends(r)
           /\ UNCHANGED <<log, offer>>
     /\ UNCHANGED files

Reread(r, n) ==
  LET cur == run[r].cur
  IN /\ At(r, "reread") /\ n \in View
     /\ \/ log[n].next # 0 /\ log[n].next = nextOf[cur] /\ Committed(r)
        \/ /\ log[n].next = 0 /\ log[n].key = cur
           /\ run' = [run EXCEPT ![r] = [@ EXCEPT !.pc = "commit", !.base = n, !.again = 1]]
        \/ /\ log[n].next \notin {0, nextOf[cur]} \/ (log[n].next = 0 /\ log[n].key # cur)
           /\ Ends(r)
     /\ UNCHANGED <<log, offer, files>>

-----------------------------------------------------------------------------
(* recover                                                                 *)

\* RecoveryKey: the key a pointer names, the held key's before the handle's.
Kept(cur) ==
  IF pointer[cur] \in stored THEN pointer[cur]
  ELSE IF pointer[0] \in stored THEN pointer[0] ELSE 0

\* Or a fresh one, stored, and only then named.
Pick(r) ==
  LET kept == Kept(run[r].cur)
  IN /\ At(r, "pick")
     /\ \/ /\ kept # 0
           /\ run' = [run EXCEPT ![r] = [@ EXCEPT !.pc = "next", !.key = kept]]
           /\ UNCHANGED <<minted, stored>>
        \/ /\ kept = 0 /\ minted < MaxKey
           /\ minted' = minted + 1 /\ stored' = stored \cup {minted + 1}
           /\ run' = [run EXCEPT ![r] = [@ EXCEPT !.pc = "name", !.key = minted + 1]]
     /\ UNCHANGED <<log, offer, linked, nextOf, moved, rotating, pointer>>

Name(r) ==
  /\ At(r, "name")
  /\ pointer' = [pointer EXCEPT ![run[r].cur] = run[r].key]
  /\ Goto(r, "next")
  /\ UNCHANGED <<log, offer, minted, linked, stored, nextOf, moved, rotating>>

KeepNext(r) ==
  /\ At(r, "next")
  /\ EnsureNext(run[r].key)
  /\ Goto(r, "head")
  /\ UNCHANGED <<log, offer, linked, stored, moved, rotating, pointer>>

\* keepRecovered: a link on a host that held no key, or this one; else a move.
Recovered(r) == Goto(r, IF run[r].cur \in {0, run[r].key} THEN "link" ELSE "pem")

ReadHead(r, n) ==
  /\ At(r, "head") /\ n \in View
  /\ IF log[n].key = run[r].key THEN Recovered(r)
     ELSE run' = [run EXCEPT ![r] = [@ EXCEPT !.pc = "ask", !.base = n]]
  /\ UNCHANGED <<log, offer, files>>

\* Mutant: a recovery the service took is counted as in effect.
AskTaken(r) ==
  LET e == [key |-> run[r].key, next |-> nextOf[run[r].key]]
      n == run[r].base
  IN /\ At(r, "ask") /\ Fits(n)
     /\ IF Last.next = 0 THEN Appended(e) ELSE offer' = e /\ UNCHANGED log
     /\ Recovered(r)
     /\ UNCHANGED files

\* At once on a sealed chain, after its window on a committed one.  What the service says of a
\* second recovery is not this repository's: it may take its place or be refused.
Ask(r) ==
  LET e == [key |-> run[r].key, next |-> nextOf[run[r].key]]
      n == run[r].base
      used == e.key \in {log[i].key : i \in 1 .. Len(log)}
  IN /\ At(r, "ask")
     /\ \/ /\ Landed(n, e)
           /\ IF Last.key = e.key THEN Recovered(r) ELSE Ends(r)
           /\ UNCHANGED <<log, offer>>
        \/ /\ Fits(n) /\ ~used /\ Last.next = 0
           /\ Appended(e)
           /\ Recovered(r)
        \/ /\ Fits(n) /\ ~used /\ Last.next # 0
           /\ offer' \in {e} \cup ({offer} \ {None})
           /\ Ends(r) /\ UNCHANGED log
        \/ ~Landed(n, e) /\ (n < Len(log) \/ used) /\ Ends(r) /\ UNCHANGED <<log, offer>>
     /\ UNCHANGED files

\* Link never replaces a file: it is success only if what is there leads to this key.
Link(r) ==
  /\ At(r, "link")
  /\ linked' = IF linked = 0 THEN run[r].key ELSE linked
  /\ IF linked = 0 \/ run[r].key \in {linked, Cur} THEN Goto(r, "finish") ELSE Ends(r)
  /\ UNCHANGED <<log, offer, minted, stored, nextOf, moved, rotating, pointer>>

\* FinishRecovery: the handle's pointer and then the held key's, read and, if it names this
\* recovery's key, removed by name.
Looked(r) ==
  IF run[r].look = run[r].cur THEN Ends(r)
  ELSE run' = [run EXCEPT ![r] = [@ EXCEPT !.pc = "finish", !.look = run[r].cur]]

Finish(r) ==
  /\ At(r, "finish")
  /\ IF pointer[run[r].look] = run[r].key THEN Goto(r, "drop") ELSE Looked(r)
  /\ UNCHANGED <<log, offer, files>>

Drop(r) ==
  /\ At(r, "drop")
  /\ pointer' = [pointer EXCEPT ![run[r].look] = 0]
  /\ Looked(r)
  /\ UNCHANGED <<log, offer, minted, linked, stored, nextOf, moved, rotating>>

-----------------------------------------------------------------------------
(* cancel                                                                  *)

Withdraw(r) ==
  /\ At(r, "withdraw")
  /\ offer' = None
  /\ Goto(r, "forget")
  /\ UNCHANGED <<log, files>>

\* forgetRecovery loads the key again.
Forget(r) ==
  /\ At(r, "forget")
  /\ pointer' = [pointer EXCEPT ![Cur] = 0, ![0] = 0]
  /\ Ends(r)
  /\ UNCHANGED <<log, offer, minted, linked, stored, nextOf, moved, rotating>>

-----------------------------------------------------------------------------
(* connect                                                                 *)

\* Mutant: a refused proof is the end of it.
ProveOnce(r, n) ==
  /\ At(r, "prove") /\ n \in View
  /\ \/ Ends(r)
     \/ /\ log[n].key = run[r].cur /\ log[n].next = 0
        /\ run' = [run EXCEPT ![r] = [@ EXCEPT !.pc = "seal", !.base = n]]
  /\ UNCHANGED <<log, offer, files>>

\* The proof by the key it loaded is taken, and a sealed chain may be committed (settleChain,
\* once a process); or it is refused, and the successors are tried.
Prove(r, n) ==
  /\ At(r, "prove") /\ n \in View
  /\ \/ log[n].key = run[r].cur /\ Ends(r)
     \/ /\ log[n].key = run[r].cur /\ log[n].next = 0
        /\ run' = [run EXCEPT ![r] = [@ EXCEPT !.pc = "seal", !.base = n]]
     \/ log[n].key # run[r].cur /\ Goto(r, "offer")
  /\ UNCHANGED <<log, offer, files>>

\* An answer may name any key it was offered, from a node that lags or lies.
Offer(r, k) ==
  /\ At(r, "offer") /\ k \in Successors(run[r].cur)
  /\ run' = [run EXCEPT ![r] = [@ EXCEPT !.pc = "log", !.key = k]]
  /\ UNCHANGED <<log, offer, files>>

\* Mutant: the answer is believed.
InAnswer(n, from, to) == from # to

\* moveInLog: the history ends at this key and has the held one before.
InLog(n, from, to) ==
  log[n].key = to /\ \E i \in 1 .. n - 1 : log[i].key = from

CheckLog(r, n) ==
  /\ At(r, "log") /\ n \in View
  /\ IF InLog(n, run[r].cur, run[r].key) THEN Goto(r, "pem") ELSE Ends(r)
  /\ UNCHANGED <<log, offer, files>>

-----------------------------------------------------------------------------
\* The identity is committed or sealed, and its key is this host's or another's, of which this
\* one has no file.
Init ==
  /\ \E here, sealed \in BOOLEAN :
       /\ log = <<[key |-> 1, next |-> IF sealed THEN 0 ELSE 2]>>
       /\ minted = IF sealed THEN 1 ELSE 2
       /\ linked = IF here THEN 1 ELSE 0
       /\ nextOf = [k \in Key |-> IF here /\ ~sealed /\ k = 1 THEN 2 ELSE 0]
  /\ offer = None
  /\ stored = {} /\ rotating = {}
  /\ moved = [k \in Key |-> 0]
  /\ pointer = [k \in Key \cup {0} |-> 0]
  /\ run = [r \in Run |-> Rest]

Rotate(r) == (\E n \in View : Read(r, n)) \/ Keep(r) \/ Mark(r) \/ Send(r)
Record(r) == RecordKey(r) \/ RecordMove(r)
CommitSealed(r) == Seal(r) \/ SendCommit(r) \/ (\E n \in View : Reread(r, n))
Recover(r) ==
  \/ Pick(r) \/ Name(r) \/ KeepNext(r) \/ (\E n \in View : ReadHead(r, n)) \/ Ask(r)
  \/ Link(r) \/ Finish(r) \/ Drop(r)
Cancel(r) == Withdraw(r) \/ Forget(r)
Connect(r) ==
  \/ \E n \in View : Prove(r, n) \/ CheckLog(r, n)
  \/ \E k \in Key : Offer(r, k)

Next ==
  \/ TakeEffect
  \/ \E r \in Run :
       \/ \E j \in Job : Start(r, j)
       \/ Rotate(r) \/ Record(r) \/ CommitSealed(r) \/ Recover(r) \/ Cancel(r) \/ Connect(r)
       \/ Stop(r)

\* The supervisor connects for good, a request of a run ends, by its answer or its timeout, and the
\* answers to one renewal after another are not all lost nor all from a node that lags or lies.
Fairness ==
  /\ WF_vars(Start(Renewer, "connect"))
  /\ WF_vars(Stop(Renewer))
  /\ SF_vars(Prove(Renewer, Len(log)))
  /\ SF_vars(Offer(Renewer, Last.key))
  /\ SF_vars(run[Renewer].key = Last.key /\ CheckLog(Renewer, Len(log)))
  /\ SF_vars(RecordKey(Renewer))
  /\ SF_vars(RecordMove(Renewer))

Spec == Init /\ [][Next]_vars
FairSpec == Spec /\ Fairness

-----------------------------------------------------------------------------
\* What each variable may hold.
TypeOK ==
  /\ log \in Seq(Event) /\ Len(log) \in 1 .. MaxLen
  /\ offer \in Event \cup {None}
  /\ minted \in Key
  /\ linked \in Key \cup {0}
  /\ stored \subseteq Key /\ rotating \subseteq Key
  /\ nextOf \in [Key -> Key \cup {0}]
  /\ moved \in [Key -> Key \cup {0}]
  /\ pointer \in [Key \cup {0} -> Key \cup {0}]
  /\ run \in [Run -> [pc : PC, job : Job, cur : Key \cup {0}, key : Key \cup {0},
                      base : 0 .. MaxLen, landed : BOOLEAN, tries : 0 .. 1, again : 0 .. 1,
                      look : Key \cup {0}]]

\* The keys whose private half is in a file of this host.
Held == ({linked} \cup stored \cup Range(nextOf)) \ {0}

\* "A recovery that lands is never pinned to a key nobody holds", and "a commitment to it is never
\* sent for a key a crash could lose": the key an identity of this host ends up with, the one a
\* pending recovery moves it to and the one either commits to are on its disk, whatever stopped where.
KeysAreHeld ==
  /\ linked # 0 \/ Len(log) > 1 => Last.key \in Held
  /\ offer # None => offer.key \in Held /\ nextOf[offer.key] = offer.next
  /\ Last.key \in Held /\ Last.next # 0 => nextOf[Last.key] = Last.next

\* The n-th event is a rotation: it introduces the key the one before committed to.
Rotated(n) == n > 1 /\ log[n].key = log[n - 1].next

\* A rotation whose answer was lost is found again: the service refuses the key this host proves,
\* and among those a connect offers next is the one it rotated to.
RotationIsFound ==
  linked # 0 /\ Rotated(Len(log)) => Last.key \in {Cur} \cup Successors(Cur)

\* A recovery that waits at the service is named on this host, unless its owner just withdrew it:
\* a later `recover` or `cancel`, or a connect, has where to find it.  (Recoveries do not overlap.)
RecoveryIsNamed == offer # None => offer.key \in Range(pointer)

\* "A connect refused once it takes effect offers it (Successors)": a recovery that has taken
\* effect is found as a rotation is.
RecoveryIsFound ==
  linked # 0 /\ Len(log) > 1 => Last.key \in {Cur} \cup Successors(Cur)

\* "An answer alone (a lagging or rolled-back node, or a hostile one) never moves this host's key
\* for good": a move on record is one the log has made, from an earlier key to a later one.
MovesAreInLog ==
  \A k \in Key : moved[k] # 0 =>
    \E i, j \in 1 .. Len(log) : i < j /\ log[i].key = k /\ log[j].key = moved[k]

\* How far along the log this host's key is.
Position ==
  LET at == {i \in 1 .. Len(log) : log[i].key = Cur}
  IN IF at = {} THEN 0 ELSE CHOOSE i \in at : \A j \in at : i <= j

\* The log grows by the steps its rules allow, and the host's key follows it and never goes back.
Abstract == INSTANCE KeyLog WITH at <- Position
FollowsLog == Abstract!Spec

\* A rotation is learnt from the connects a held agent makes by itself, if its command never was
\* answered: the host comes to prove the key it moved to, unless the identity has moved on.
RotationIsLearnt ==
  \A n \in 2 .. MaxLen :
    (Len(log) = n /\ linked # 0 /\ Rotated(n)) ~> (Position >= n \/ Len(log) > n)
=============================================================================
