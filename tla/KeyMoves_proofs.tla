--------------------------- MODULE KeyMoves_proofs ---------------------------
(***************************************************************************)
(* That no key is lost, for any commands under way at once, stopped        *)
(* anywhere, and any number of keys and events; that a pending recovery is *)
(* named, as long as one run of the host recovers and cancels; and that    *)
(* the host's key then moves along the log as KeyLog has it.               *)
(***************************************************************************)
EXTENDS KeyMoves, NaturalsInduction, WellFoundedInduction, TLAPS

-----------------------------------------------------------------------------
(* Follow is defined by recursion over 0 .. MaxMoves.  That such a         *)
(* definition has a value, and what kind of value, is shown by the least   *)
(* number for which it fails.                                              *)

LEMMA LeastNumber ==
  ASSUME NEW S \in SUBSET Nat, S # {}
  PROVE  \E m \in S : \A k \in S : ~(k < m)
<1>1. PICK m \in S : \A k \in S : <<k, m>> \notin OpToRel(<, Nat)
  BY WFMin, NatLessThanWellFounded, Zenon
<1>2. \A k \in S : k \in Nat /\ m \in Nat
  OBVIOUS
<1> QED
  BY <1>1, <1>2, Zenon DEF OpToRel

\* n steps from k, each where go leads.
IsWalk(f, T, k, go, n) ==
  f \in [0 .. n -> T] /\ f[0] = k /\ \A i \in 1 .. n : f[i] = go[f[i - 1]]

LEMMA WalkExists ==
  ASSUME NEW T, NEW k \in T, NEW go \in [T -> T], NEW n \in Nat
  PROVE  \E f : IsWalk(f, T, k, go, n)
<1> DEFINE Walks(m) == \E f \in [0 .. m -> T] : f[0] = k /\ \A i \in 1 .. m : f[i] = go[f[i - 1]]
           Bad == {m \in Nat : ~Walks(m)}
<1>1. SUFFICES ASSUME Bad # {} PROVE FALSE
  BY DEF IsWalk
<1>2. PICK m \in Bad : \A j \in Bad : ~(j < m)
  <2>1. Bad \in SUBSET Nat
    OBVIOUS
  <2> QED
    BY <1>1, <2>1, LeastNumber
<1>3. m # 0
  <2>1. Walks(0)
    <3> DEFINE f == [i \in 0 .. 0 |-> k]
    <3>1. f \in [0 .. 0 -> T] /\ f[0] = k /\ \A i \in 1 .. 0 : f[i] = go[f[i - 1]]
      OBVIOUS
    <3> QED
      BY <3>1
  <2> QED
    BY <2>1, <1>2
<1>4. Walks(m - 1)
  <2>1. m - 1 \in Nat /\ m - 1 < m
    BY <1>2, <1>3
  <2> QED
    BY <2>1, <1>2
<1>5. PICK g \in [0 .. m - 1 -> T] : g[0] = k /\ \A i \in 1 .. m - 1 : g[i] = go[g[i - 1]]
  BY <1>4
<1> DEFINE h == [i \in 0 .. m |-> IF i = m THEN go[g[m - 1]] ELSE g[i]]
<1>6. m \in Nat /\ m >= 1
  BY <1>2, <1>3
<1>7. h \in [0 .. m -> T]
  BY <1>5, <1>6
<1>8. h[0] = k
  BY <1>5, <1>6
<1>9. \A i \in 1 .. m : h[i] = go[h[i - 1]]
  <2>1. TAKE i \in 1 .. m
  <2>2. i - 1 \in 0 .. m /\ i - 1 # m /\ h[i - 1] = g[i - 1]
    BY <1>6, <2>1
  <2>3. CASE i = m
    BY <2>2, <2>3, <1>6
  <2>4. CASE i # m
    BY <2>2, <2>4, <1>5, <1>6
  <2> QED
    BY <2>3, <2>4
<1>10. Walks(m)
  BY <1>7, <1>8, <1>9
<1> QED
  BY <1>10, <1>2

LEMMA MaxMovesNat == MaxMoves \in Nat
  BY KeyAssumption DEF MaxMoves

\* Load: what it leads to is the handle's own key or a stored one.
LEMMA FollowIn ==
  ASSUME moved \in [Key -> Key \cup {0}], stored \subseteq Key, NEW k \in Key \cup {0}
  PROVE  Follow(k) \in {k} \cup stored
<1> DEFINE T == {k} \cup stored
           onward == [c \in Key \cup {0} |-> IF c # 0 /\ moved[c] \in stored THEN moved[c] ELSE c]
           Walk(f) == f = [i \in 0 .. MaxMoves |-> IF i = 0 THEN k ELSE onward[f[i - 1]]]
           go == [c \in T |-> onward[c]]
           after == CHOOSE f : Walk(f)
<1>0. MaxMoves \in Nat
  BY MaxMovesNat
<1>1. T \subseteq Key \cup {0} /\ k \in T
  OBVIOUS
<1>2. \A c \in T : onward[c] \in T
  BY <1>1
<1>3. go \in [T -> T]
  <2> HIDE DEF T, onward
  <2> QED
    BY <1>2
<1>4. PICK f : IsWalk(f, T, k, go, MaxMoves)
  <2>1. k \in T /\ go \in [T -> T] /\ MaxMoves \in Nat
    BY <1>0, <1>1, <1>3
  <2> HIDE DEF T, go
  <2> QED
    BY <2>1, WalkExists
<1>5. Walk(f)
  <2>1. \A i \in 0 .. MaxMoves : f[i] = IF i = 0 THEN k ELSE onward[f[i - 1]]
    <3>1. TAKE i \in 0 .. MaxMoves
    <3>2. CASE i = 0
      BY <3>2, <1>4 DEF IsWalk
    <3>3. CASE i # 0
      <4>1. i \in 1 .. MaxMoves /\ i - 1 \in 0 .. MaxMoves
        BY <1>0, <3>1, <3>3
      <4>2. f[i] = go[f[i - 1]] /\ f[i - 1] \in T
        BY <1>4, <4>1 DEF IsWalk
      <4> QED
        BY <4>2, <3>3
    <3> QED
      BY <3>2, <3>3
  <2>2. f = [i \in 0 .. MaxMoves |-> f[i]]
    BY <1>4 DEF IsWalk
  <2> HIDE DEF onward
  <2> QED
    BY <2>1, <2>2
<1>6. Walk(after)
  <2> HIDE DEF Walk
  <2> QED
    BY <1>5
<1>7. \A i \in 0 .. MaxMoves : after[i] \in T
  <2> DEFINE Bad == {i \in 0 .. MaxMoves : after[i] \notin T}
  <2> HIDE DEF after
  <2>1. SUFFICES ASSUME Bad # {} PROVE FALSE
    OBVIOUS
  <2>2. Bad \in SUBSET Nat
    BY <1>0
  <2>3. PICK m \in Bad : \A j \in Bad : ~(j < m)
    <3> HIDE DEF Bad
    <3> QED
      BY <2>1, <2>2, LeastNumber
  <2>4. m \in 0 .. MaxMoves /\ after[m] \notin T
    BY <2>3
  <2>5. after[m] = IF m = 0 THEN k ELSE onward[after[m - 1]]
    <3> HIDE DEF onward
    <3> QED
      BY <1>6, <2>4
  <2>6. m # 0
    BY <2>4, <2>5, <1>1
  <2>7. m - 1 \in 0 .. MaxMoves /\ m - 1 < m
    BY <1>0, <2>4, <2>6
  <2>8. after[m - 1] \in T
    BY <2>3, <2>7
  <2> QED
    BY <2>4, <2>5, <2>6, <2>8, <1>2
<1>8. Follow(k) = after[MaxMoves]
  BY DEF Follow
<1>9. after[MaxMoves] \in T
  <2> HIDE DEF after, T
  <2> QED
    BY <1>0, <1>7
<1> QED
  BY <1>8, <1>9

LEMMA CurIn ==
  ASSUME TypeOK
  PROVE  /\ Cur \in Key \cup {0} /\ Cur \in {linked} \cup stored
         /\ Cur # 0 => Cur \in Held
<1>1. moved \in [Key -> Key \cup {0}] /\ stored \subseteq Key /\ linked \in Key \cup {0}
  BY DEF TypeOK
<1>2. Cur \in {linked} \cup stored
  BY <1>1, FollowIn DEF Cur
<1> QED
  BY <1>1, <1>2 DEF Held

-----------------------------------------------------------------------------
(* The invariant.  Every key a run has loaded or moves to is on disk, and  *)
(* what it is about to commit to is kept.                                  *)

Placed == [pc : PC, job : Job, cur : Key \cup {0}, key : Key \cup {0}, base : 0 .. MaxLen,
           landed : BOOLEAN, tries : 0 .. 1, again : 0 .. 1, look : Key \cup {0}]

\* The places of a run that has loaded a key, of one that has a key to move to, and of those that
\* have kept the one after it.
Loaded == {"read", "keep", "mark", "send", "pem", "move", "seal", "commit", "reread",
           "prove", "offer", "log"}
Moving == {"keep", "mark", "send", "pem", "move", "name", "next", "head", "ask", "link", "log"}
Ready  == {"mark", "send", "head", "ask"}

InUse == {log[i].key : i \in 1 .. Len(log)}

Sound(x) ==
  /\ x.cur # 0 => x.cur \in Held
  /\ x.key # 0 => x.key \in Held
  /\ x.pc \in Loaded => x.cur # 0
  /\ x.pc \in Moving => x.key # 0
  /\ x.pc \in Ready => nextOf[x.key] # 0
  /\ x.pc \in {"commit", "reread"} => nextOf[x.cur] # 0
  /\ x.pc = "link" => x.key \in InUse

\* A number is a key of this host's once it is minted.
Minted ==
  /\ \A k \in Held : k <= minted
  /\ Last.key <= minted

\* As KeysAreHeld has it of the offer, and that it commits to a key.
OfferKept == offer # None => offer.next # 0

AllSound == \A p \in Run : \A x \in Placed : run[p] = x => Sound(x)

IInv == TypeOK /\ KeysAreHeld /\ Minted /\ OfferKept /\ AllSound

LEMMA HeldTyped ==
  ASSUME TypeOK
  PROVE  Held \subseteq Key
BY DEF TypeOK, Held, Range

LEMMA LastTyped ==
  ASSUME TypeOK
  PROVE  Len(log) \in Nat \ {0} /\ Last \in Event /\ \A i \in 1 .. Len(log) : log[i] \in Event
BY KeyAssumption DEF TypeOK, Last

\* What a run has does not go when the log grows, files are added or a next key is kept.
LEMMA SoundStays ==
  ASSUME TypeOK, NEW x \in Placed, Sound(x),
         Held \subseteq Held',
         \A k \in Key : nextOf[k] # 0 => nextOf'[k] = nextOf[k],
         InUse \subseteq InUse'
  PROVE  Sound(x)'
<1>1. x.cur \in Key \cup {0} /\ x.key \in Key \cup {0}
  BY DEF Placed
<1>2. x.pc \in {"commit", "reread"} => x.cur \in Key
  BY <1>1 DEF Sound, Loaded
<1>3. x.pc \in Moving => x.key \in Key
  BY <1>1 DEF Sound
<1> QED
  BY <1>1, <1>2, <1>3 DEF Sound, Ready, Moving

\* A step of one run that changes neither the log nor what is held or committed to.
LEMMA Quiet ==
  ASSUME IInv, NEW r \in Run, NEW x \in Placed, Sound(x),
         run' = [run EXCEPT ![r] = x],
         UNCHANGED <<log, offer, minted, linked, stored, nextOf>>,
         moved' \in [Key -> Key \cup {0}], rotating' \subseteq Key,
         pointer' \in [Key \cup {0} -> Key \cup {0}]
  PROVE  IInv'
<1>1. TypeOK'
  <2>1. run' \in [Run -> Placed]
    BY DEF IInv, TypeOK, Placed
  <2> QED
    BY <2>1 DEF IInv, TypeOK, Placed
<1>2. Held' = Held /\ InUse' = InUse
  BY DEF Held, InUse
<1>3. Last' = Last
  BY DEF Last
<1>4. KeysAreHeld' /\ Minted' /\ OfferKept'
  BY <1>2, <1>3 DEF IInv, KeysAreHeld, Minted, OfferKept
<1>5. ASSUME NEW y \in Placed, Sound(y) PROVE Sound(y)'
  BY <1>2, <1>5 DEF Sound
<1>6. AllSound'
  <2>1. SUFFICES ASSUME NEW p \in Run, NEW y \in Placed, run'[p] = y PROVE Sound(y)'
    BY DEF AllSound
  <2>2. y = run[p] \/ y = x
    BY <2>1 DEF IInv, TypeOK
  <2> QED
    BY <1>5, <2>2 DEF IInv, AllSound
<1> QED
  BY <1>1, <1>4, <1>6 DEF IInv

\* The service takes a statement about a key this host has.
LEMMA Appends ==
  ASSUME IInv, NEW e \in Event, e.next # 0, e.key \in Held, nextOf[e.key] = e.next,
         Len(log) < MaxLen, Appended(e), UNCHANGED files,
         run' \in [Run -> Placed],
         \A p \in Run : \A x \in Placed : run'[p] = x => run[p] = x \/ Sound(x) \/ Sound(x)'
  PROVE  IInv'
<1>0. e.key \in Key
  BY DEF Event
<1>1. log' \in Seq(Event) /\ Len(log') = Len(log) + 1 /\ Len(log) \in 1 .. MaxLen
  BY DEF IInv, TypeOK, Appended
<1>2. Last' = e
  BY <1>1 DEF Last, Appended, IInv, TypeOK
<1>3. TypeOK'
  BY <1>1, KeyAssumption DEF IInv, TypeOK, Appended, files, Placed
<1>4. Held' = Held
  BY DEF Held, files
<1>5. KeysAreHeld' /\ Minted' /\ OfferKept'
  BY <1>0, <1>2, <1>4 DEF IInv, KeysAreHeld, Minted, OfferKept, Appended, files
<1>6. InUse \subseteq InUse'
  <2>1. \A i \in 1 .. Len(log) : i \in 1 .. Len(log') /\ log'[i] = log[i]
    BY <1>1 DEF Appended, IInv, TypeOK
  <2> QED
    BY <2>1 DEF InUse
<1>7. AllSound'
  <2>1. SUFFICES ASSUME NEW p \in Run, NEW x \in Placed, run'[p] = x PROVE Sound(x)'
    BY DEF AllSound
  <2>2. run[p] = x => Sound(x)
    BY DEF IInv, AllSound
  <2>3. Sound(x) => Sound(x)'
    BY <1>4, <1>6, SoundStays DEF IInv, files
  <2> QED
    BY <2>1, <2>2, <2>3
<1> QED
  BY <1>3, <1>5, <1>7 DEF IInv

\* A run adds files: none is changed but one that was not there, and the only new key is the next
\* one minted.
LEMMA Adds ==
  ASSUME IInv, NEW r \in Run, NEW x \in Placed, Sound(x)', run' = [run EXCEPT ![r] = x],
         UNCHANGED <<log, offer, moved, rotating>>,
         pointer' \in [Key \cup {0} -> Key \cup {0}],
         minted' \in Key, minted' >= minted,
         linked' \in Key \cup {0}, linked # 0 => linked' = linked,
         linked' # 0 => linked # 0 \/ Last.key \in Held,
         stored \subseteq stored', stored' \subseteq Key,
         nextOf' \in [Key -> Key \cup {0}], \A k \in Key : nextOf[k] # 0 => nextOf'[k] = nextOf[k],
         \A k \in Held' : k \in Held \/ (k > minted /\ k <= minted')
  PROVE  IInv'
<1>1. TypeOK'
  <2>1. run' \in [Run -> Placed]
    BY DEF IInv, TypeOK, Placed
  <2> QED
    BY <2>1 DEF IInv, TypeOK, Placed
<1>2. Held \subseteq Held'
  <2>1. Range(nextOf) \ {0} \subseteq Range(nextOf')
    BY DEF Range, IInv, TypeOK
  <2> QED
    BY <2>1 DEF Held
<1>3. InUse' = InUse
  BY DEF InUse
<1>4. Last' = Last /\ Last.key \in Key /\ Last.next \in Key \cup {0}
  BY LastTyped DEF Last, IInv, Event
<1>5. minted \in Nat /\ minted' \in Nat /\ \A k \in Key : k \in Nat
  BY KeyAssumption DEF IInv, TypeOK, Key
<1>6. Minted'
  <2>1. Held' \subseteq Key /\ Held \subseteq Key
    BY <1>1, HeldTyped DEF IInv, TypeOK, Held, Range
  <2>2. ASSUME NEW k \in Held' PROVE k <= minted'
    <3>1. k \in Nat /\ (k \in Held => k <= minted)
      BY <2>1, <1>5 DEF IInv, Minted
    <3> QED
      BY <3>1, <1>5
  <2>3. Last.key <= minted
    BY DEF IInv, Minted
  <2>4. Last'.key <= minted'
    <3>1. Last.key \in Nat
      BY <1>4, <1>5
    <3>2. Last.key <= minted'
      BY <2>3, <3>1, <1>5
    <3> QED
      BY <3>2, <1>4
  <2> QED
    BY <2>2, <2>4 DEF Minted
<1>7. Last.key \in Held' => Last.key \in Held
  <2>1. Last.key <= minted /\ Last.key \in Nat
    BY <1>4, <1>5 DEF IInv, Minted
  <2> QED
    BY <2>1, <1>5
<1>8. KeysAreHeld'
  <2>1. (linked # 0 \/ Len(log) > 1 => Last.key \in Held)'
    BY <1>2, <1>4 DEF IInv, KeysAreHeld
  <2>2. (offer # None => offer.key \in Held /\ nextOf[offer.key] = offer.next)'
    <3>1. offer # None => offer.key \in Key /\ offer.next # 0
      BY DEF IInv, TypeOK, OfferKept, Event
    <3> QED
      BY <3>1, <1>2 DEF IInv, KeysAreHeld, None
  <2>3. (Last.key \in Held /\ Last.next # 0 => nextOf[Last.key] = Last.next)'
    BY <1>4, <1>7 DEF IInv, KeysAreHeld
  <2> QED
    BY <2>1, <2>2, <2>3 DEF KeysAreHeld
<1>9. AllSound'
  <2>1. SUFFICES ASSUME NEW p \in Run, NEW y \in Placed, run'[p] = y PROVE Sound(y)'
    BY DEF AllSound
  <2>2. run[p] = y \/ y = x
    BY <2>1 DEF IInv, TypeOK
  <2>3. Sound(y) => Sound(y)'
    BY <1>2, <1>3, SoundStays DEF IInv
  <2> QED
    BY <2>2, <2>3 DEF IInv, AllSound
<1>10. OfferKept'
  BY DEF IInv, OfferKept, None
<1> QED
  BY <1>1, <1>6, <1>8, <1>9, <1>10 DEF IInv

LEMMA Ensured ==
  ASSUME IInv, NEW k \in Key, EnsureNext(k), UNCHANGED <<linked, stored>>
  PROVE  /\ nextOf'[k] # 0
         /\ minted' \in Key /\ minted' >= minted
         /\ nextOf' \in [Key -> Key \cup {0}]
         /\ \A j \in Key : nextOf[j] # 0 => nextOf'[j] = nextOf[j]
         /\ Held \subseteq Held'
         /\ \A j \in Held' : j \in Held \/ (j > minted /\ j <= minted')
<1>1. minted \in Key /\ nextOf \in [Key -> Key \cup {0}] /\ minted \in Nat /\ \A j \in Key : j \in Nat
  BY KeyAssumption DEF IInv, TypeOK, Key
<1>2. CASE nextOf[k] # 0
  <2>1. UNCHANGED <<minted, nextOf>>
    BY <1>2 DEF EnsureNext
  <2> QED
    BY <2>1, <1>1, <1>2 DEF Held
<1>3. CASE nextOf[k] = 0
  <2>1. minted < MaxKey /\ minted' = minted + 1 /\ nextOf' = [nextOf EXCEPT ![k] = minted + 1]
    BY <1>3 DEF EnsureNext
  <2>2. minted + 1 \in Key /\ minted + 1 # 0
    BY <2>1, <1>1, KeyAssumption DEF Key
  <2>3. \A j \in Key : nextOf'[j] = IF j = k THEN minted + 1 ELSE nextOf[j]
    BY <2>1, <1>1
  <2>4. nextOf' \in [Key -> Key \cup {0}]
    BY <2>1, <2>2, <1>1
  <2>5. Held \subseteq Held'
    <3>1. Range(nextOf) \ {0} \subseteq Range(nextOf')
      BY <2>3, <2>4, <1>1, <1>3 DEF Range
    <3> QED
      BY <3>1 DEF Held
  <2>6. \A j \in Held' : j \in Held \/ j = minted + 1
    <3>1. Range(nextOf') \subseteq Range(nextOf) \cup {minted + 1}
      BY <2>3, <2>4, <1>1 DEF Range
    <3> QED
      BY <3>1 DEF Held
  <2> QED
    BY <2>1, <2>2, <2>3, <2>4, <2>5, <2>6, <1>1, <1>3
<1> QED
  BY <1>2, <1>3

\* A step of one run that changes what is pending at the service.
LEMMA Offers ==
  ASSUME IInv, NEW r \in Run, NEW x \in Placed, Sound(x),
         run' = [run EXCEPT ![r] = x], UNCHANGED <<log, files>>,
         offer' \in Event \cup {None},
         offer' # None =>
           offer'.next # 0 /\ offer'.key \in Held /\ nextOf[offer'.key] = offer'.next
  PROVE  IInv'
<1>1. TypeOK'
  <2>1. run' \in [Run -> Placed]
    BY DEF IInv, TypeOK, Placed
  <2> QED
    BY <2>1 DEF IInv, TypeOK, Placed, files, None, Event
<1>2. Held' = Held /\ InUse' = InUse /\ Last' = Last
  BY DEF Held, InUse, Last, files
<1>3. KeysAreHeld' /\ Minted' /\ OfferKept'
  BY <1>2 DEF IInv, KeysAreHeld, Minted, OfferKept, files, None
<1>4. ASSUME NEW y \in Placed, Sound(y) PROVE Sound(y)'
  BY <1>2, <1>4 DEF Sound, files
<1>5. AllSound'
  <2>1. SUFFICES ASSUME NEW p \in Run, NEW y \in Placed, run'[p] = y PROVE Sound(y)'
    BY DEF AllSound
  <2>2. y = run[p] \/ y = x
    BY <2>1 DEF IInv, TypeOK
  <2> QED
    BY <1>4, <2>2 DEF IInv, AllSound
<1> QED
  BY <1>1, <1>3, <1>5 DEF IInv

\* A run sees to it that the key after k is kept, and goes on.
LEMMA Keeps ==
  ASSUME IInv, NEW k \in Key, EnsureNext(k), NEW r \in Run, NEW y \in Placed, run[r] = y,
         NEW x \in Placed, run' = [run EXCEPT ![r] = x],
         Sound(y)' /\ nextOf'[k] # 0 => Sound(x)',
         UNCHANGED <<log, offer, linked, stored, moved, rotating, pointer>>
  PROVE  IInv'
<1>1. Sound(y)
  BY DEF IInv, AllSound
<1>2. InUse' = InUse
  BY DEF InUse
<1>3. Sound(y)'
  BY <1>1, <1>2, Ensured, SoundStays DEF IInv
<1>4. Sound(x)'
  BY <1>3, Ensured
<1>5. /\ pointer' \in [Key \cup {0} -> Key \cup {0}] /\ linked' \in Key \cup {0}
      /\ linked # 0 => linked' = linked
      /\ linked' # 0 => linked # 0
      /\ stored \subseteq stored' /\ stored' \subseteq Key
  BY DEF IInv, TypeOK
<1> QED
  BY <1>4, <1>5, Ensured, Adds

\* The run whose step it is.
LEMMA Mine ==
  ASSUME IInv, NEW r \in Run
  PROVE  \E y \in Placed : y = run[r] /\ Sound(y)
BY DEF IInv, TypeOK, Placed, AllSound

LEMMA RestSound == Rest \in Placed /\ Sound(Rest)
BY KeyAssumption DEF Rest, Placed, PC, Job, Sound, Loaded, Moving, Ready

\* A run's second attempt.
LEMMA AttemptTyped ==
  ASSUME NEW y \in Placed, NEW pc \in PC
  PROVE  [y EXCEPT !.pc = pc, !.tries = 1] \in Placed
<1>1. [y EXCEPT !.pc = pc] \in Placed
  BY DEF Placed
<1>2. \A z \in Placed : [z EXCEPT !.tries = 1] \in Placed
  BY DEF Placed
<1>3. [y EXCEPT !.pc = pc, !.tries = 1] = [[y EXCEPT !.pc = pc] EXCEPT !.tries = 1]
  BY DEF Placed
<1> QED
  BY <1>1, <1>2, <1>3, Zenon

LEMMA CommitTyped ==
  ASSUME NEW y \in Placed, NEW pc \in PC, NEW n \in 0 .. MaxLen
  PROVE  [y EXCEPT !.pc = pc, !.base = n, !.again = 1] \in Placed
<1>1. [y EXCEPT !.pc = pc, !.base = n] \in Placed
  BY DEF Placed
<1>2. \A z \in Placed : [z EXCEPT !.again = 1] \in Placed
  BY DEF Placed
<1>3. [y EXCEPT !.pc = pc, !.base = n, !.again = 1]
        = [[y EXCEPT !.pc = pc, !.base = n] EXCEPT !.again = 1]
  BY DEF Placed
<1> QED
  BY <1>1, <1>2, <1>3, Zenon

LEMMA EndsSound ==
  ASSUME IInv, NEW r \in Run, Ends(r),
         UNCHANGED <<log, offer, minted, linked, stored, nextOf>>,
         moved' \in [Key -> Key \cup {0}], rotating' \subseteq Key,
         pointer' \in [Key \cup {0} -> Key \cup {0}]
  PROVE  IInv'
BY RestSound, Quiet DEF Ends

-----------------------------------------------------------------------------
(* The steps.                                                              *)

LEMMA StartSound == ASSUME IInv, NEW r \in Run, NEW j \in Job, Start(r, j) PROVE IInv'
<1> DEFINE x == [Rest EXCEPT !.pc = First[j], !.job = j, !.cur = Cur]
<1>1. Cur \in Key \cup {0} /\ (Cur # 0 => Cur \in Held)
  BY CurIn DEF IInv
<1>2. x \in Placed /\ Sound(x)
  <2>1. First[j] \in {"read", "pick", "withdraw", "prove"}
        /\ (First[j] \in {"read", "prove"} => j \notin {"recover", "cancel"})
    BY DEF First, Job
  <2> QED
    BY <1>1, <2>1, RestSound DEF Start, Rest, Placed, PC, Sound, Loaded, Moving, Ready
<1>3. run' = [run EXCEPT ![r] = x]
  BY DEF Start
<1> QED
  <2> HIDE DEF x
  <2> QED
    BY <1>2, <1>3, Quiet DEF Start, files, IInv, TypeOK

LEMMA StopSound == ASSUME IInv, NEW r \in Run, Stop(r) PROVE IInv'
BY EndsSound DEF Stop, files, IInv, TypeOK

LEMMA ReadSound == ASSUME IInv, NEW r \in Run, NEW n \in View, Read(r, n) PROVE IInv'
<1>1. PICK y \in Placed : y = run[r] /\ Sound(y)
  BY Mine
<1>2. y.pc = "read" /\ y.cur \in Key
  BY <1>1 DEF Read, At, Sound, Loaded, Placed
<1>3. n \in 1 .. Len(log) /\ Len(log) \in 1 .. MaxLen /\ \A i \in 1 .. Len(log) : log[i] \in Event
  BY LastTyped DEF View, IInv, TypeOK
<1> DEFINE next == nextOf[y.cur]
           landed == next # 0 /\ log[n].key = next /\ n > 1
           base == IF landed THEN n - 1 ELSE n
           x(pc) == [y EXCEPT !.pc = pc, !.key = next, !.base = base, !.landed = landed]
<1>4. next \in Key \cup {0} /\ (next # 0 => next \in Held)
  BY <1>2 DEF IInv, TypeOK, Held, Range
<1>5. base \in 1 .. Len(log) /\ base \in 0 .. MaxLen /\ landed \in BOOLEAN
  BY <1>3, KeyAssumption
<1>6. CASE run' = [run EXCEPT ![r] = x("seal")] /\ UNCHANGED <<log, offer, files>>
  <2>1. x("seal") \in Placed /\ Sound(x("seal"))
    <3> HIDE DEF next, landed, base
    <3> QED
      BY <1>1, <1>2, <1>4, <1>5 DEF Placed, PC, Sound, Loaded, Moving, Ready
  <2> HIDE DEF x
  <2> QED
    BY <1>6, <2>1, Quiet DEF files, IInv, TypeOK
<1>7. CASE run' = [run EXCEPT ![r] = x("keep")] /\ next # 0 /\ UNCHANGED <<log, offer, files>>
  <2>1. x("keep") \in Placed /\ Sound(x("keep"))
    <3> HIDE DEF next, landed, base
    <3> QED
      BY <1>1, <1>2, <1>4, <1>5, <1>7 DEF Placed, PC, Sound, Loaded, Moving, Ready
  <2> HIDE DEF x
  <2> QED
    BY <1>7, <2>1, Quiet DEF files, IInv, TypeOK
<1>8. CASE Ends(r) /\ UNCHANGED <<log, offer, files>>
  BY <1>8, EndsSound DEF files, IInv, TypeOK
<1> QED
  BY <1>1, <1>6, <1>7, <1>8 DEF Read

LEMMA KeepSound == ASSUME IInv, NEW r \in Run, Keep(r) PROVE IInv'
<1>1. PICK y \in Placed : y = run[r] /\ Sound(y)
  BY Mine
<1> DEFINE x == [y EXCEPT !.pc = "mark"]
<1>2. y.pc = "keep" /\ y.key \in Key /\ EnsureNext(y.key) /\ run' = [run EXCEPT ![r] = x]
  BY <1>1 DEF Keep, At, Goto, Sound, Moving, Placed
<1>3. x \in Placed
  BY DEF Placed, PC
<1>4. Sound(y)' /\ nextOf'[y.key] # 0 => Sound(x)'
  BY <1>2 DEF Sound, Loaded, Moving, Ready, Placed
<1> QED
  <2> HIDE DEF x
  <2> QED
    BY <1>1, <1>2, <1>3, <1>4, Keeps DEF Keep

LEMMA KeepNextSound == ASSUME IInv, NEW r \in Run, KeepNext(r) PROVE IInv'
<1>1. PICK y \in Placed : y = run[r] /\ Sound(y)
  BY Mine
<1> DEFINE x == [y EXCEPT !.pc = "head"]
<1>2. y.pc = "next" /\ y.key \in Key /\ EnsureNext(y.key) /\ run' = [run EXCEPT ![r] = x]
  BY <1>1 DEF KeepNext, At, Goto, Sound, Moving, Placed
<1>3. x \in Placed
  BY DEF Placed, PC
<1>4. Sound(y)' /\ nextOf'[y.key] # 0 => Sound(x)'
  BY <1>2 DEF Sound, Loaded, Moving, Ready, Placed
<1> QED
  <2> HIDE DEF x
  <2> QED
    BY <1>1, <1>2, <1>3, <1>4, Keeps DEF KeepNext

LEMMA SealSound == ASSUME IInv, NEW r \in Run, Seal(r) PROVE IInv'
<1>1. PICK y \in Placed : y = run[r] /\ Sound(y)
  BY Mine
<1> DEFINE x == [y EXCEPT !.pc = "commit"]
<1>2. y.pc = "seal" /\ y.cur \in Key /\ EnsureNext(y.cur) /\ run' = [run EXCEPT ![r] = x]
  BY <1>1 DEF Seal, At, Goto, Sound, Loaded, Placed
<1>3. x \in Placed
  BY DEF Placed, PC
<1>4. Sound(y)' /\ nextOf'[y.cur] # 0 => Sound(x)'
  BY <1>2 DEF Sound, Loaded, Moving, Ready, Placed
<1> QED
  <2> HIDE DEF x
  <2> QED
    BY <1>1, <1>2, <1>3, <1>4, Keeps DEF Seal

LEMMA MarkSound == ASSUME IInv, NEW r \in Run, Mark(r) PROVE IInv'
<1>1. PICK y \in Placed : y = run[r] /\ Sound(y)
  BY Mine
<1> DEFINE x == [y EXCEPT !.pc = "send"]
<1>2. y.pc = "mark" /\ y.cur \in Key /\ run' = [run EXCEPT ![r] = x]
  BY <1>1 DEF Mark, At, Goto, Sound, Loaded, Placed
<1>3. x \in Placed /\ Sound(x)
  BY <1>1, <1>2 DEF Placed, PC, Sound, Loaded, Moving, Ready
<1> QED
  <2> HIDE DEF x
  <2> QED
    BY <1>1, <1>2, <1>3, Quiet DEF Mark, IInv, TypeOK

LEMMA SendSound == ASSUME IInv, NEW r \in Run, Send(r) PROVE IInv'
<1>1. PICK y \in Placed : y = run[r] /\ Sound(y)
  BY Mine
<1> DEFINE e == [key |-> y.key, next |-> nextOf[y.key]]
           x == [y EXCEPT !.pc = "pem"]
           z == [y EXCEPT !.pc = "read", !.tries = 1]
<1>2. y.pc = "send" /\ y.key \in Key /\ nextOf[y.key] \in Key /\ y.key \in Held
  BY <1>1 DEF Send, At, IInv, TypeOK, Placed, PC, Sound, Loaded, Moving, Ready
<1>3. /\ x \in Placed /\ Sound(x)
      /\ z \in Placed /\ Sound(z)
  <2>1. x \in Placed /\ Sound(x)
    BY <1>1, <1>2 DEF Placed, PC, Sound, Loaded, Moving, Ready
  <2>2. z \in Placed /\ Sound(z)
    <3>1. z \in Placed
      BY AttemptTyped DEF PC
    <3>2. Sound(z)
      BY <1>1, <1>2 DEF Placed, Sound, Loaded, Moving, Ready
    <3> QED
      BY <3>1, <3>2
  <2> QED
    BY <2>1, <2>2
<1>4. e \in Event /\ e.next # 0 /\ e.key \in Held /\ nextOf[e.key] = e.next
  BY <1>2, KeyAssumption DEF Event, Key
<1> HIDE DEF x, z, e
<1>5. CASE run' = [run EXCEPT ![r] = x] /\ UNCHANGED <<log, offer, files>>
  BY <1>3, <1>5, Quiet DEF files, IInv, TypeOK
<1>6. CASE run' = [run EXCEPT ![r] = z] /\ UNCHANGED <<log, offer, files>>
  BY <1>3, <1>6, Quiet DEF files, IInv, TypeOK
<1>7. CASE Ends(r) /\ UNCHANGED <<log, offer, files>>
  BY <1>7, EndsSound DEF files, IInv, TypeOK
<1>8. CASE Appended(e) /\ Len(log) < MaxLen /\ run' = [run EXCEPT ![r] = x] /\ UNCHANGED files
  <2>1. run' \in [Run -> Placed]
        /\ \A p \in Run : \A w \in Placed : run'[p] = w => run[p] = w \/ Sound(w)
    BY <1>3, <1>8 DEF IInv, TypeOK, Placed
  <2> QED
    BY <1>4, <1>8, <2>1, Appends
<1>9. \/ run' = [run EXCEPT ![r] = x] /\ UNCHANGED <<log, offer, files>>
      \/ run' = [run EXCEPT ![r] = z] /\ UNCHANGED <<log, offer, files>>
      \/ Ends(r) /\ UNCHANGED <<log, offer, files>>
      \/ Appended(e) /\ Len(log) < MaxLen /\ run' = [run EXCEPT ![r] = x] /\ UNCHANGED files
  BY <1>1 DEF Send, Goto, Fits, x, z, e
<1> QED
  BY <1>5, <1>6, <1>7, <1>8, <1>9

LEMMA RecordKeySound == ASSUME IInv, NEW r \in Run, RecordKey(r) PROVE IInv'
<1>1. PICK y \in Placed : y = run[r] /\ Sound(y)
  BY Mine
<1> DEFINE x == [y EXCEPT !.pc = "move"]
<1>2. y.pc = "pem" /\ y.key \in Key /\ y.key \in Held /\ run' = [run EXCEPT ![r] = x]
      /\ stored' = stored \cup {y.key}
  BY <1>1 DEF RecordKey, At, Goto, Sound, Moving, Placed
<1>3. Held' = Held
  BY <1>2 DEF RecordKey, Held
<1>4. x \in Placed /\ Sound(x)'
  BY <1>1, <1>2, <1>3 DEF RecordKey, Placed, PC, Sound, Loaded, Moving, Ready
<1>5. minted' >= minted
  BY DEF RecordKey, IInv, TypeOK, Key
<1> QED
  <2> HIDE DEF x
  <2> QED
    BY <1>2, <1>3, <1>4, <1>5, Adds DEF RecordKey, IInv, TypeOK

LEMMA RecordMoveSound == ASSUME IInv, NEW r \in Run, RecordMove(r) PROVE IInv'
<1>1. PICK y \in Placed : y = run[r] /\ Sound(y)
  BY Mine
<1> DEFINE x == [y EXCEPT !.pc = "finish"]
<1>2. y.pc = "move" /\ y.key \in Key /\ y.cur \in Key
  BY <1>1 DEF RecordMove, At, Sound, Loaded, Moving, Placed
<1>3. x \in Placed /\ Sound(x)
  BY <1>1, <1>2 DEF Placed, PC, Sound, Loaded, Moving, Ready
<1>4. moved' \in [Key -> Key \cup {0}]
  BY <1>1, <1>2 DEF RecordMove, IInv, TypeOK
<1>5. run' = [run EXCEPT ![r] = x] \/ Ends(r)
  BY <1>1 DEF RecordMove, Goto
<1> QED
  <2> HIDE DEF x
  <2> QED
    BY <1>3, <1>4, <1>5, Quiet, EndsSound DEF RecordMove, IInv, TypeOK

LEMMA SendCommitSound == ASSUME IInv, NEW r \in Run, SendCommit(r) PROVE IInv'
<1>1. PICK y \in Placed : y = run[r] /\ Sound(y)
  BY Mine
<1> DEFINE e == [key |-> y.cur, next |-> nextOf[y.cur]]
           x == [y EXCEPT !.pc = "read", !.tries = 1]
           z == [y EXCEPT !.pc = "reread"]
<1>2. y.pc = "commit" /\ y.cur \in Key /\ nextOf[y.cur] \in Key /\ y.cur \in Held
  BY <1>1 DEF SendCommit, At, IInv, TypeOK, Placed, PC, Sound, Loaded, Moving, Ready
<1>3. /\ x \in Placed /\ Sound(x)
      /\ z \in Placed /\ Sound(z)
  <2>1. x \in Placed /\ Sound(x)
    <3>1. x \in Placed
      BY AttemptTyped DEF PC
    <3>2. Sound(x)
      BY <1>1, <1>2 DEF Placed, Sound, Loaded, Moving, Ready
    <3> QED
      BY <3>1, <3>2
  <2>2. z \in Placed /\ Sound(z)
    BY <1>1, <1>2 DEF Placed, PC, Sound, Loaded, Moving, Ready
  <2> QED
    BY <2>1, <2>2
<1>4. e \in Event /\ e.next # 0 /\ e.key \in Held /\ nextOf[e.key] = e.next
  BY <1>2, KeyAssumption DEF Event, Key
<1>5. Committed(r) => run' = [run EXCEPT ![r] = x] \/ Ends(r)
  BY <1>1 DEF Committed
<1>6. \/ run' = [run EXCEPT ![r] = x] \/ run' = [run EXCEPT ![r] = z] \/ Ends(r)
  BY <1>1, <1>5 DEF SendCommit, Goto
<1>7. \/ UNCHANGED <<log, offer, files>>
      \/ Appended(e) /\ Len(log) < MaxLen /\ Committed(r) /\ UNCHANGED files
  BY <1>1 DEF SendCommit, Fits
<1> HIDE DEF x, z, e
<1>8. CASE UNCHANGED <<log, offer, files>>
  BY <1>3, <1>6, <1>8, Quiet, EndsSound DEF files, IInv, TypeOK
<1>9. CASE Appended(e) /\ Len(log) < MaxLen /\ Committed(r) /\ UNCHANGED files
  <2>1. CASE run' = [run EXCEPT ![r] = x]
    <3>1. run' \in [Run -> Placed]
          /\ \A p \in Run : \A w \in Placed : run'[p] = w => run[p] = w \/ Sound(w)
      BY <1>3, <2>1 DEF IInv, TypeOK, Placed
    <3> QED
      BY <1>4, <1>9, <3>1, Appends
  <2>2. CASE Ends(r)
    <3>1. run' \in [Run -> Placed]
          /\ \A p \in Run : \A w \in Placed : run'[p] = w => run[p] = w \/ Sound(w)
      BY RestSound, <2>2 DEF Ends, IInv, TypeOK, Placed
    <3> QED
      BY <1>4, <1>9, <3>1, Appends
  <2> QED
    BY <1>5, <1>9, <2>1, <2>2
<1> QED
  BY <1>7, <1>8, <1>9

LEMMA RereadSound == ASSUME IInv, NEW r \in Run, NEW n \in View, Reread(r, n) PROVE IInv'
<1>1. PICK y \in Placed : y = run[r] /\ Sound(y)
  BY Mine
<1> DEFINE x == [y EXCEPT !.pc = "read", !.tries = 1]
           z == [y EXCEPT !.pc = "commit", !.base = n, !.again = 1]
<1>2. y.pc = "reread" /\ y.cur \in Key /\ nextOf[y.cur] # 0
  BY <1>1 DEF Reread, At, Sound, Loaded, Placed
<1>3. n \in 0 .. MaxLen
  BY KeyAssumption DEF View, IInv, TypeOK
<1>4. /\ x \in Placed /\ Sound(x)
      /\ z \in Placed /\ Sound(z)
  <2>1. x \in Placed /\ Sound(x)
    <3>1. x \in Placed
      BY AttemptTyped DEF PC
    <3>2. Sound(x)
      BY <1>1, <1>2 DEF Placed, Sound, Loaded, Moving, Ready
    <3> QED
      BY <3>1, <3>2
  <2>2. z \in Placed /\ Sound(z)
    <3>1. z \in Placed
      BY <1>3, CommitTyped DEF PC
    <3>2. Sound(z)
      BY <1>1, <1>2, <1>3 DEF Placed, Sound, Loaded, Moving, Ready
    <3> QED
      BY <3>1, <3>2
  <2> QED
    BY <2>1, <2>2
<1>5. \/ run' = [run EXCEPT ![r] = x] \/ run' = [run EXCEPT ![r] = z] \/ Ends(r)
  BY <1>1 DEF Reread, Committed
<1> HIDE DEF x, z
<1> QED
  BY <1>4, <1>5, Quiet, EndsSound DEF Reread, files, IInv, TypeOK

LEMMA PickSound == ASSUME IInv, NEW r \in Run, Pick(r) PROVE IInv'
<1>1. PICK y \in Placed : y = run[r] /\ Sound(y)
  BY Mine
<1> DEFINE kept == Kept(y.cur)
           x == [y EXCEPT !.pc = "next", !.key = kept]
           z(k) == [y EXCEPT !.pc = "name", !.key = k]
<1>2. y.pc = "pick"
  BY <1>1 DEF Pick, At
<1>3. 0 \notin Key /\ stored \subseteq Key /\ stored \subseteq Held /\ minted \in Key
  BY DEF Key, Held, IInv, TypeOK
<1>4. CASE kept # 0 /\ run' = [run EXCEPT ![r] = x] /\ UNCHANGED <<minted, stored>>
  <2>1. kept \in stored
    BY <1>4 DEF Kept
  <2>2. x \in Placed /\ Sound(x)
    <3> HIDE DEF kept
    <3> QED
      BY <1>1, <1>2, <1>3, <2>1 DEF Placed, PC, Sound, Loaded, Moving, Ready
  <2> HIDE DEF x
  <2> QED
    BY <1>4, <2>2, Quiet DEF Pick, IInv, TypeOK
<1>5. CASE /\ minted < MaxKey /\ minted' = minted + 1 /\ stored' = stored \cup {minted + 1}
           /\ run' = [run EXCEPT ![r] = z(minted + 1)]
  <2>1. PICK k \in Key : k = minted + 1 /\ k # 0 /\ minted' = k /\ k > minted
    BY <1>5, <1>3, KeyAssumption DEF Key
  <2>2. Held' = Held \cup {k}
    BY <1>5, <2>1 DEF Pick, Held
  <2>3. z(k) \in Placed
    BY <2>1 DEF Placed, PC
  <2>4. Sound(z(k))'
    BY <1>1, <1>2, <2>1, <2>2 DEF Placed, Sound, Loaded, Moving, Ready
  <2>5. \A j \in Held' : j \in Held \/ (j > minted /\ j <= minted')
    BY <2>1, <2>2 DEF Key
  <2>6. minted' \in Key /\ minted' >= minted /\ stored \subseteq stored' /\ stored' \subseteq Key
    BY <1>5, <1>3, <2>1 DEF Key
  <2>7. run' = [run EXCEPT ![r] = z(k)]
    BY <1>5, <2>1
  <2> HIDE DEF z
  <2> QED
    BY <2>3, <2>4, <2>5, <2>6, <2>7, Adds DEF Pick, IInv, TypeOK
<1> QED
  BY <1>1, <1>4, <1>5 DEF Pick

LEMMA NameSound == ASSUME IInv, NEW r \in Run, Name(r) PROVE IInv'
<1>1. PICK y \in Placed : y = run[r] /\ Sound(y)
  BY Mine
<1> DEFINE x == [y EXCEPT !.pc = "next"]
<1>2. y.pc = "name" /\ run' = [run EXCEPT ![r] = x]
  BY <1>1 DEF Name, At, Goto
<1>3. x \in Placed /\ Sound(x)
  BY <1>1, <1>2 DEF Placed, PC, Sound, Loaded, Moving, Ready
<1>4. pointer' \in [Key \cup {0} -> Key \cup {0}]
  BY <1>1 DEF Name, Placed, IInv, TypeOK
<1> QED
  <2> HIDE DEF x
  <2> QED
    BY <1>2, <1>3, <1>4, Quiet DEF Name, IInv, TypeOK

\* Where a recovery in effect goes on.
LEMMA RecoveredPlace ==
  ASSUME IInv, NEW r \in Run, NEW y \in Placed, y = run[r], Sound(y), y.pc \in {"head", "ask"},
         Recovered(r)
  PROVE  \E x \in Placed :
           /\ run' = [run EXCEPT ![r] = x] /\ x.key = y.key
           /\ y.key \in InUse => Sound(x)
           /\ UNCHANGED files /\ InUse \subseteq InUse' /\ y.key \in InUse' => Sound(x)'
<1> DEFINE x == [y EXCEPT !.pc = IF y.cur \in {0, y.key} THEN "link" ELSE "pem"]
<1>1. run' = [run EXCEPT ![r] = x] /\ x \in Placed /\ x.key = y.key
  BY DEF Recovered, Goto, Placed, PC
<1>2. y.key \in InUse => Sound(x)
  BY DEF Placed, Sound, Loaded, Moving, Ready
<1>3. UNCHANGED files /\ InUse \subseteq InUse' /\ y.key \in InUse' => Sound(x)'
  <2>1. SUFFICES ASSUME UNCHANGED files, y.key \in InUse' PROVE Sound(x)'
    OBVIOUS
  <2>2. Held' = Held
    BY <2>1 DEF files, Held
  <2> QED
    BY <2>1, <2>2 DEF files, Placed, Sound, Loaded, Moving, Ready
<1> QED
  <2> HIDE DEF x
  <2> QED
    BY <1>1, <1>2, <1>3

LEMMA ReadHeadSound == ASSUME IInv, NEW r \in Run, NEW n \in View, ReadHead(r, n) PROVE IInv'
<1>1. PICK y \in Placed : y = run[r] /\ Sound(y)
  BY Mine
<1> DEFINE z == [y EXCEPT !.pc = "ask", !.base = n]
<1>2. y.pc = "head" /\ n \in 1 .. Len(log) /\ n \in 0 .. MaxLen
  BY <1>1, KeyAssumption DEF ReadHead, At, View, IInv, TypeOK
<1>3. z \in Placed /\ Sound(z)
  BY <1>1, <1>2 DEF Placed, PC, Sound, Loaded, Moving, Ready
<1>4. UNCHANGED <<log, offer, files>>
  BY DEF ReadHead
<1>5. CASE log[n].key = y.key /\ Recovered(r)
  <2>1. y.key \in InUse
    BY <1>2, <1>5 DEF InUse
  <2>2. PICK x \in Placed : run' = [run EXCEPT ![r] = x] /\ Sound(x)
    BY <1>1, <1>2, <1>5, <2>1, RecoveredPlace
  <2> QED
    BY <1>4, <2>2, Quiet DEF files, IInv, TypeOK
<1>6. CASE run' = [run EXCEPT ![r] = z]
  <2> HIDE DEF z
  <2> QED
    BY <1>3, <1>4, <1>6, Quiet DEF files, IInv, TypeOK
<1> QED
  BY <1>1, <1>5, <1>6 DEF ReadHead

LEMMA AskSound == ASSUME IInv, NEW r \in Run, Ask(r) PROVE IInv'
<1>1. PICK y \in Placed : y = run[r] /\ Sound(y)
  BY Mine
<1> DEFINE e == [key |-> y.key, next |-> nextOf[y.key]]
<1>2. y.pc = "ask" /\ y.key \in Key /\ nextOf[y.key] \in Key /\ y.key \in Held
  BY <1>1 DEF Ask, At, IInv, TypeOK, Placed, PC, Sound, Loaded, Moving, Ready
<1>3. e \in Event /\ e.key = y.key /\ e.next # 0 /\ e.key \in Held /\ nextOf[e.key] = e.next
  BY <1>2, KeyAssumption DEF Event, Key
<1>4. UNCHANGED files
  BY DEF Ask
<1>5. \/ Last.key = e.key /\ Recovered(r) /\ UNCHANGED <<log, offer>>
      \/ Len(log) < MaxLen /\ Appended(e) /\ Recovered(r)
      \/ offer' \in {e, offer} /\ Ends(r) /\ UNCHANGED log
  BY <1>1 DEF Ask, Fits
<1> HIDE DEF e
<1>6. CASE Last.key = e.key /\ Recovered(r) /\ UNCHANGED <<log, offer>>
  <2>1. y.key \in InUse
    BY <1>3, <1>6, LastTyped DEF InUse, Last, IInv
  <2>2. PICK x \in Placed : run' = [run EXCEPT ![r] = x] /\ Sound(x)
    BY <1>1, <1>2, <1>6, <2>1, RecoveredPlace
  <2> QED
    BY <1>4, <1>6, <2>2, Quiet DEF files, IInv, TypeOK
<1>7. CASE Len(log) < MaxLen /\ Appended(e) /\ Recovered(r)
  <2>1. y.key \in InUse' /\ InUse \subseteq InUse'
    <3>1. log \in Seq(Event) /\ log' = Append(log, e) /\ Len(log) \in Nat
      BY <1>7 DEF Appended, IInv, TypeOK
    <3>2. Len(log') = Len(log) + 1 /\ log'[Len(log) + 1] = e
          /\ \A i \in 1 .. Len(log) : i \in 1 .. Len(log') /\ log'[i] = log[i]
      BY <1>3, <3>1
    <3>3. Len(log) + 1 \in 1 .. Len(log')
      BY <3>1, <3>2
    <3> QED
      BY <1>3, <3>2, <3>3 DEF InUse
  <2>2. PICK x \in Placed : run' = [run EXCEPT ![r] = x] /\ Sound(x)'
    BY <1>1, <1>2, <1>4, <1>7, <2>1, RecoveredPlace
  <2>3. run' \in [Run -> Placed]
        /\ \A p \in Run : \A w \in Placed : run'[p] = w => run[p] = w \/ w = x
    BY <2>2 DEF IInv, TypeOK, Placed
  <2>4. \A p \in Run : \A w \in Placed : run'[p] = w => run[p] = w \/ Sound(w) \/ Sound(w)'
    BY <2>2, <2>3
  <2> QED
    BY <1>3, <1>4, <1>7, <2>3, <2>4, Appends
<1>8. CASE offer' \in {e, offer} /\ Ends(r) /\ UNCHANGED log
  <2>1. offer' \in Event \cup {None}
    BY <1>3, <1>8 DEF IInv, TypeOK
  <2>2. offer' # None =>
          offer'.next # 0 /\ offer'.key \in Held /\ nextOf[offer'.key] = offer'.next
    BY <1>3, <1>8 DEF IInv, KeysAreHeld, OfferKept
  <2> QED
    BY <1>4, <1>8, <2>1, <2>2, RestSound, Offers DEF Ends
<1> QED
  BY <1>5, <1>6, <1>7, <1>8

\* What is linked is on disk already: it adds no key.
LEMMA LinkSound == ASSUME IInv, NEW r \in Run, Link(r) PROVE IInv'
<1>1. PICK y \in Placed : y = run[r] /\ Sound(y)
  BY Mine
<1> DEFINE x == [y EXCEPT !.pc = "finish"]
<1>2. y.pc = "link" /\ y.key \in Key /\ y.key \in Held /\ y.key \in InUse
      /\ linked' = IF linked = 0 THEN y.key ELSE linked
  BY <1>1 DEF Link, At, Sound, Moving, Placed
<1>3. Held' = Held /\ InUse' = InUse
  BY <1>2 DEF Link, Held, InUse
<1>4. x \in Placed /\ Sound(x)'
  BY <1>1, <1>2, <1>3 DEF Link, Placed, PC, Sound, Loaded, Moving, Ready
<1>5. Rest \in Placed /\ Sound(Rest)'
  BY RestSound, KeyAssumption DEF Rest, Sound, Loaded, Moving, Ready
<1>6. run' = [run EXCEPT ![r] = x] \/ run' = [run EXCEPT ![r] = Rest]
  BY <1>1 DEF Link, Goto, Ends
<1>7. linked' # 0 => linked # 0 \/ Last.key \in Held
  <2>1. CASE Len(log) > 1
    BY <2>1 DEF IInv, KeysAreHeld
  <2>2. CASE ~(Len(log) > 1)
    <3>1. Len(log) = 1
      <4>1. PICK n \in Nat \ {0} : n = Len(log)
        BY LastTyped DEF IInv
      <4>2. ~(n > 1)
        BY <2>2, <4>1
      <4>3. n = 1
        BY <4>2
      <4> QED
        BY <4>1, <4>3
    <3>2. \A i \in 1 .. Len(log) : log[i] = Last
      BY <3>1 DEF Last
    <3> QED
      BY <1>2, <3>2 DEF InUse
  <2> QED
    BY <2>1, <2>2
<1>8. /\ pointer' \in [Key \cup {0} -> Key \cup {0}] /\ minted' \in Key /\ minted' >= minted
      /\ linked' \in Key \cup {0} /\ (linked # 0 => linked' = linked)
      /\ stored \subseteq stored' /\ stored' \subseteq Key
      /\ nextOf' \in [Key -> Key \cup {0}] /\ \A k \in Key : nextOf[k] # 0 => nextOf'[k] = nextOf[k]
  BY <1>2 DEF Link, IInv, TypeOK, Key
<1>9. \A k \in Held' : k \in Held \/ (k > minted /\ k <= minted')
  BY <1>3
<1> QED
  <2> HIDE DEF x
  <2> QED
    BY <1>4, <1>5, <1>6, <1>7, <1>8, <1>9, Adds DEF Link

\* Where a recovery that looks at one pointer after the other goes on.
LEMMA LookedSound ==
  ASSUME IInv, NEW r \in Run, run[r].pc \in {"finish", "drop"}, Looked(r),
         UNCHANGED <<log, offer, minted, linked, stored, nextOf, moved, rotating>>,
         pointer' \in [Key \cup {0} -> Key \cup {0}]
  PROVE  IInv'
<1>1. PICK y \in Placed : y = run[r] /\ Sound(y)
  BY Mine
<1> DEFINE x == [y EXCEPT !.pc = "finish", !.look = y.cur]
<1>2. x \in Placed /\ Sound(x)
  BY <1>1 DEF Placed, PC, Sound, Loaded, Moving, Ready
<1>3. run' = [run EXCEPT ![r] = x] \/ Ends(r)
  BY <1>1 DEF Looked
<1> HIDE DEF x
<1> QED
  BY <1>2, <1>3, Quiet, EndsSound DEF IInv, TypeOK

LEMMA FinishSound == ASSUME IInv, NEW r \in Run, Finish(r) PROVE IInv'
<1>1. PICK y \in Placed : y = run[r] /\ Sound(y)
  BY Mine
<1> DEFINE x == [y EXCEPT !.pc = "drop"]
<1>2. CASE Looked(r)
  BY <1>2, LookedSound DEF Finish, At, files, IInv, TypeOK
<1>3. CASE Goto(r, "drop")
  <2>1. x \in Placed /\ Sound(x)
    BY <1>1 DEF Placed, PC, Sound, Loaded, Moving, Ready
  <2>2. run' = [run EXCEPT ![r] = x]
    BY <1>1, <1>3 DEF Goto
  <2> HIDE DEF x
  <2> QED
    BY <2>1, <2>2, Quiet DEF Finish, files, IInv, TypeOK
<1> QED
  BY <1>2, <1>3 DEF Finish

LEMMA DropSound == ASSUME IInv, NEW r \in Run, Drop(r) PROVE IInv'
<1>1. pointer' \in [Key \cup {0} -> Key \cup {0}]
  BY DEF Drop, IInv, TypeOK
<1> QED
  BY <1>1, LookedSound DEF Drop, At

LEMMA WithdrawSound == ASSUME IInv, NEW r \in Run, Withdraw(r) PROVE IInv'
<1>1. PICK y \in Placed : y = run[r] /\ Sound(y)
  BY Mine
<1> DEFINE x == [y EXCEPT !.pc = "forget"]
<1>2. x \in Placed /\ Sound(x)
  BY <1>1 DEF Placed, PC, Sound, Loaded, Moving, Ready
<1>3. run' = [run EXCEPT ![r] = x]
  BY <1>1 DEF Withdraw, Goto
<1> QED
  <2> HIDE DEF x
  <2> QED
    BY <1>2, <1>3, Offers DEF Withdraw

LEMMA ForgetSound == ASSUME IInv, NEW r \in Run, Forget(r) PROVE IInv'
<1>1. pointer' \in [Key \cup {0} -> Key \cup {0}]
  BY DEF Forget, IInv, TypeOK
<1> QED
  BY <1>1, EndsSound DEF Forget, IInv, TypeOK

LEMMA ProveSound == ASSUME IInv, NEW r \in Run, NEW n \in View, Prove(r, n) PROVE IInv'
<1>1. PICK y \in Placed : y = run[r] /\ Sound(y)
  BY Mine
<1> DEFINE x == [y EXCEPT !.pc = "seal", !.base = n]
           z == [y EXCEPT !.pc = "offer"]
<1>2. y.pc = "prove" /\ n \in 0 .. MaxLen
  BY <1>1, KeyAssumption DEF Prove, At, View, IInv, TypeOK
<1>3. x \in Placed /\ Sound(x)
  BY <1>1, <1>2 DEF Placed, PC, Sound, Loaded, Moving, Ready
<1>4. z \in Placed /\ Sound(z)
  BY <1>1, <1>2 DEF Placed, PC, Sound, Loaded, Moving, Ready
<1>5. Ends(r) \/ run' = [run EXCEPT ![r] = x] \/ run' = [run EXCEPT ![r] = z]
  BY <1>1 DEF Prove, Goto
<1> QED
  <2> HIDE DEF x, z
  <2> QED
    BY <1>3, <1>4, <1>5, Quiet, EndsSound DEF Prove, files, IInv, TypeOK

LEMMA OfferSound == ASSUME IInv, NEW r \in Run, NEW k \in Key, Offer(r, k) PROVE IInv'
<1>1. PICK y \in Placed : y = run[r] /\ Sound(y)
  BY Mine
<1> DEFINE x == [y EXCEPT !.pc = "log", !.key = k]
<1>2. y.pc = "offer" /\ k \in Successors(y.cur) /\ run' = [run EXCEPT ![r] = x]
  BY <1>1 DEF Offer, At
<1>3. k \in Held /\ k # 0
  <2>1. rotating \subseteq Key /\ stored \subseteq Held /\ k # 0
    BY DEF IInv, TypeOK, Held, Key
  <2>2. \A j \in Key : nextOf[j] # 0 => nextOf[j] \in Held
    BY DEF IInv, TypeOK, Held, Range
  <2> QED
    BY <1>2, <2>1, <2>2 DEF Successors
<1>4. x \in Placed /\ Sound(x)
  BY <1>1, <1>2, <1>3 DEF Placed, PC, Sound, Loaded, Moving, Ready
<1> QED
  <2> HIDE DEF x
  <2> QED
    BY <1>2, <1>4, Quiet DEF Offer, files, IInv, TypeOK

LEMMA CheckLogSound == ASSUME IInv, NEW r \in Run, NEW n \in View, CheckLog(r, n) PROVE IInv'
<1>1. PICK y \in Placed : y = run[r] /\ Sound(y)
  BY Mine
<1> DEFINE x == [y EXCEPT !.pc = "pem"]
<1>2. y.pc = "log" /\ (Ends(r) \/ run' = [run EXCEPT ![r] = x])
  BY <1>1 DEF CheckLog, At, Goto
<1>3. x \in Placed /\ Sound(x)
  BY <1>1, <1>2 DEF Placed, PC, Sound, Loaded, Moving, Ready
<1> QED
  <2> HIDE DEF x
  <2> QED
    BY <1>2, <1>3, Quiet, EndsSound DEF CheckLog, files, IInv, TypeOK

LEMMA TakeEffectSound == ASSUME IInv, TakeEffect PROVE IInv'
<1>1. offer \in Event /\ offer.next # 0 /\ offer.key \in Held /\ nextOf[offer.key] = offer.next
  BY DEF TakeEffect, IInv, TypeOK, KeysAreHeld, OfferKept
<1>2. run' \in [Run -> Placed] /\ \A p \in Run : \A x \in Placed : run'[p] = x => run[p] = x
  BY DEF TakeEffect, IInv, TypeOK, Placed
<1> QED
  BY <1>1, <1>2, Appends DEF TakeEffect

-----------------------------------------------------------------------------
\* At first the only key of the log is this host's or another's.
LEMMA InitSound == ASSUME Init PROVE IInv
<1>1. PICK here \in BOOLEAN, sealed \in BOOLEAN :
        /\ log = <<[key |-> 1, next |-> IF sealed THEN 0 ELSE 2]>>
        /\ minted = IF sealed THEN 1 ELSE 2
        /\ linked = IF here THEN 1 ELSE 0
        /\ nextOf = [k \in Key |-> IF here /\ ~sealed /\ k = 1 THEN 2 ELSE 0]
  BY DEF Init
<1>2. 1 \in Key /\ 2 \in Key /\ 0 \notin Key
  BY KeyAssumption DEF Key
<1>3. Last = [key |-> 1, next |-> IF sealed THEN 0 ELSE 2] /\ Last \in Event /\ Len(log) = 1
  BY <1>1, <1>2 DEF Last, Event
<1>4. Held = IF here THEN IF sealed THEN {1} ELSE {1, 2} ELSE {}
  <2>1. stored = {}
    BY DEF Init
  <2>2. Range(nextOf) \ {0} = IF here /\ ~sealed THEN {2} ELSE {}
    BY <1>1, <1>2 DEF Range
  <2> QED
    <3>1. Held = ({linked} \ {0}) \cup (Range(nextOf) \ {0})
      BY <2>1 DEF Held
    <3>2. linked = IF here THEN 1 ELSE 0
      BY <1>1
    <3>3. CASE here
      BY <2>2, <3>1, <3>2, <3>3
    <3>4. CASE ~here
      BY <2>2, <3>1, <3>2, <3>4
    <3> QED
      BY <3>3, <3>4
<1>5. TypeOK
  <2>1. log \in Seq(Event) /\ Len(log) \in 1 .. MaxLen
    BY <1>1, <1>2, KeyAssumption DEF Event
  <2>2. run \in [Run -> Placed]
    BY RestSound DEF Init
  <2> QED
    BY <1>1, <1>2, <2>1, <2>2 DEF TypeOK, Init, Placed
<1>6. KeysAreHeld
  BY <1>1, <1>2, <1>3, <1>4 DEF KeysAreHeld, Init
<1>7. Minted /\ OfferKept
  BY <1>1, <1>3, <1>4 DEF Minted, OfferKept, Init
<1>8. AllSound
  BY RestSound DEF AllSound, Init
<1> QED
  BY <1>5, <1>6, <1>7, <1>8 DEF IInv

LEMMA NextSound == ASSUME IInv, [Next]_vars PROVE IInv'
<1>1. CASE TakeEffect
  BY <1>1, TakeEffectSound
<1>2. ASSUME NEW r \in Run, NEW j \in Job, Start(r, j) PROVE IInv'
  BY <1>2, StartSound
<1>3. ASSUME NEW r \in Run, Rotate(r) PROVE IInv'
  BY <1>3, ReadSound, KeepSound, MarkSound, SendSound DEF Rotate
<1>4. ASSUME NEW r \in Run, Record(r) PROVE IInv'
  BY <1>4, RecordKeySound, RecordMoveSound DEF Record
<1>5. ASSUME NEW r \in Run, CommitSealed(r) PROVE IInv'
  BY <1>5, SealSound, SendCommitSound, RereadSound DEF CommitSealed
<1>6. ASSUME NEW r \in Run, Recover(r) PROVE IInv'
  BY <1>6, PickSound, NameSound, KeepNextSound, ReadHeadSound, AskSound, LinkSound, FinishSound,
     DropSound DEF Recover
<1>7. ASSUME NEW r \in Run, Cancel(r) PROVE IInv'
  BY <1>7, WithdrawSound, ForgetSound DEF Cancel
<1>8. ASSUME NEW r \in Run, Connect(r) PROVE IInv'
  BY <1>8, ProveSound, CheckLogSound, OfferSound DEF Connect
<1>9. ASSUME NEW r \in Run, Stop(r) PROVE IInv'
  BY <1>9, StopSound
<1>10. CASE UNCHANGED vars
  <2>1. Held' = Held /\ InUse' = InUse /\ Last' = Last
    BY <1>10 DEF vars, files, Held, InUse, Last
  <2>2. \A x : Sound(x) => Sound(x)'
    BY <1>10, <2>1 DEF vars, files, Sound
  <2>3. AllSound'
    BY <1>10, <2>2 DEF vars, IInv, AllSound
  <2> QED
    BY <1>10, <2>1, <2>3 DEF vars, files, IInv, TypeOK, KeysAreHeld, Minted, OfferKept, None
<1> QED
  BY <1>1, <1>2, <1>3, <1>4, <1>5, <1>6, <1>7, <1>8, <1>9, <1>10 DEF Next

LEMMA Inductive == Spec => []IInv
BY InitSound, NextSound, PTL DEF Spec

\* The log, the files of the host and every command under way have the form of their types,
\* however the commands interleave and wherever they are stopped.
THEOREM KeysTyped == Spec => []TypeOK
<1>1. IInv => TypeOK
  BY DEF IInv
<1> QED
  BY Inductive, <1>1, PTL

\* "A recovery that lands is never pinned to a key nobody holds": the keys the log, a pending
\* recovery and either's commitment name are on this host's disk when they are its own.
THEOREM KeysHeld == Spec => []KeysAreHeld
<1>1. IInv => KeysAreHeld
  BY DEF IInv
<1> QED
  BY Inductive, <1>1, PTL

-----------------------------------------------------------------------------
(* What a pending recovery is found by.  The owner of the identity recovers *)
(* and cancels from one terminal: one run of this host does either, beside  *)
(* any number that rotate and connect.                                      *)

Recovering == {"pick", "name", "next", "head", "ask", "link", "finish", "drop"}
Withdrawing == {"withdraw", "forget"}

OneOwner == \A p, q \in Run : p # q => Jobs[p] \cap {"recover", "cancel"} = {}
                                      \/ Jobs[q] \cap {"recover", "cancel"} = {}

\* A recovery's key is named before the service hears of it, and its name goes
\* only when the log has it; a cancel forgets only what it withdrew.
Course(r, x) ==
  /\ x.pc # "idle" => x.job \in Jobs[r]
  /\ x.pc \in Recovering => x.job = "recover"
  /\ x.job = "recover" => x.pc \in Recovering \cup {"pem", "move"}
  /\ x.pc \in Withdrawing => x.job = "cancel"
  /\ x.pc = "name" => pointer[x.cur] = 0 /\ x.key \in stored
  /\ x.pc \in {"next", "head", "ask"} => x.key \in Range(pointer)
  /\ x.job = "recover" /\ x.pc \in {"pem", "move", "link", "finish", "drop"} => x.key \in InUse
  /\ x.pc = "drop" => pointer[x.look] = x.key
  /\ x.pc = "forget" => offer = None

Pending == offer # None => offer.key \in Range(pointer) \ InUse
NamesStored == Range(pointer) \subseteq stored \cup {0}

NamedInv == (\A r \in Run : Course(r, run[r])) /\ Pending /\ NamesStored

\* A step of the run r, which alone may touch the pointers and what is pending.
LEMMA TurnNamed ==
  ASSUME IInv, NamedInv, OneOwner, NEW r \in Run, \A p \in Run \ {r} : run'[p] = run[p],
         stored \subseteq stored', InUse \subseteq InUse',
         \/ UNCHANGED pointer /\ offer' \in {offer, None}
         \/ run[r].pc \in Recovering \cup Withdrawing,
         Course(r, run[r])', Pending', NamesStored'
  PROVE  NamedInv'
<1> SUFFICES ASSUME NEW p \in Run  PROVE Course(p, run[p])'
  BY DEF NamedInv
<1>1. CASE p = r
  BY <1>1
<1>2. CASE p # r /\ UNCHANGED pointer /\ offer' \in {offer, None}
  <2>1. run'[p] = run[p] /\ Course(p, run[p])
    BY <1>2 DEF NamedInv
  <2> QED  BY <1>2, <2>1 DEF Course
<1>3. CASE p # r /\ run[r].pc \in Recovering \cup Withdrawing
  <2>1. run'[p] = run[p] /\ Course(p, run[p]) /\ Course(r, run[r])
    BY <1>3 DEF NamedInv
  <2>2. Jobs[r] \cap {"recover", "cancel"} # {}
    BY <1>3, <2>1 DEF Course, Recovering, Withdrawing
  <2>3. Jobs[p] \cap {"recover", "cancel"} = {}
    BY <1>3, <2>2 DEF OneOwner
  <2>4. run[p].pc \notin Recovering \cup Withdrawing /\ run[p].job # "recover"
    BY <2>1, <2>3 DEF Course, Recovering, Withdrawing
  <2> QED  BY <2>1, <2>4 DEF Course, Recovering, Withdrawing
<1> QED  BY <1>1, <1>2, <1>3

\* The places at which a run neither recovers nor withdraws.
Elsewhere == {"read", "keep", "mark", "send", "seal", "commit", "reread", "prove", "offer", "log"}

\* A rotation or a connect, and what becomes of one that is stopped.
LEMMA ElsewhereNamed ==
  ASSUME IInv, NamedInv, OneOwner, NEW r \in Run, \A p \in Run \ {r} : run'[p] = run[p],
         UNCHANGED <<pointer, stored>>, UNCHANGED <<log, offer>> \/ \E e \in Event : Appended(e),
         \/ run'[r] = Rest
         \/ run[r].pc \in Elsewhere /\ run'[r].pc \in Elsewhere \cup {"pem"} /\ run'[r].job = run[r].job
  PROVE  NamedInv'
<1>1. InUse \subseteq InUse' /\ offer' \in {offer, None} /\ Pending'
  <2>1. CASE UNCHANGED <<log, offer>>
    BY <2>1 DEF InUse, NamedInv, Pending, None
  <2>2. ASSUME NEW e \in Event, Appended(e)
        PROVE  InUse \subseteq InUse' /\ offer' \in {offer, None} /\ Pending'
    <3>1. log \in Seq(Event) /\ log' = Append(log, e) /\ offer' = None
      BY <2>2 DEF Appended, IInv, TypeOK
    <3>2. \A i \in 1 .. Len(log) : i \in 1 .. Len(log') /\ log'[i] = log[i]
      BY <3>1
    <3> QED  BY <3>1, <3>2 DEF InUse, Pending, None
  <2> QED  BY <2>1, <2>2
<1>2. NamesStored'
  BY DEF NamedInv, NamesStored
<1>3. Course(r, run[r])'
  <2>1. CASE run'[r] = Rest
    BY <2>1 DEF Course, Rest, Recovering, Withdrawing
  <2>2. CASE /\ run[r].pc \in Elsewhere /\ run'[r].pc \in Elsewhere \cup {"pem"}
             /\ run'[r].job = run[r].job
    <3>1. Course(r, run[r])
      BY DEF NamedInv
    <3>2. run[r].job # "recover" /\ run[r].job \in Jobs[r]
      BY <2>2, <3>1 DEF Course, Recovering, Withdrawing, Elsewhere
    <3> QED  BY <2>2, <3>2 DEF Course, Recovering, Withdrawing, Elsewhere
  <2> QED  BY <2>1, <2>2
<1> QED  BY <1>1, <1>2, <1>3, TurnNamed

LEMMA EndsNamed ==
  ASSUME IInv, NamedInv, OneOwner, NEW r \in Run, Ends(r), UNCHANGED <<pointer, stored, log, offer>>
  PROVE  NamedInv'
<1>1. run'[r] = Rest /\ \A p \in Run \ {r} : run'[p] = run[p]
  BY DEF Ends, IInv, TypeOK
<1> QED  BY <1>1, ElsewhereNamed

LEMMA PlainNamed ==
  ASSUME IInv, NamedInv, OneOwner, NEW r \in Run,
         \/ Rotate(r) \/ CommitSealed(r) \/ Connect(r) \/ Stop(r)
  PROVE  NamedInv'
<1>0. run \in [Run -> Placed] /\ run[r] \in Placed
  BY DEF IInv, TypeOK, Placed
<1>1. ASSUME NEW pc, run[r].pc \in Elsewhere, pc \in Elsewhere \cup {"pem"}, Goto(r, pc),
             UNCHANGED <<pointer, stored>>, UNCHANGED <<log, offer>> \/ \E e \in Event : Appended(e)
      PROVE  NamedInv'
  <2>1. run'[r].pc = pc /\ run'[r].job = run[r].job /\ \A p \in Run \ {r} : run'[p] = run[p]
    BY <1>0, <1>1 DEF Goto, Placed
  <2> QED  BY <1>1, <2>1, ElsewhereNamed
<1>2. ASSUME Ends(r), UNCHANGED <<pointer, stored>>, UNCHANGED <<log, offer>> \/ \E e \in Event : Appended(e)
      PROVE  NamedInv'
  <2>1. run'[r] = Rest /\ \A p \in Run \ {r} : run'[p] = run[p]
    BY <1>0, <1>2 DEF Ends
  <2> QED  BY <1>2, <2>1, ElsewhereNamed
<1>3. ASSUME run[r].pc \in Elsewhere, run'[r].pc \in Elsewhere, run'[r].job = run[r].job,
             \A p \in Run \ {r} : run'[p] = run[p], UNCHANGED <<pointer, stored, log, offer>>
      PROVE  NamedInv'
  BY <1>3, ElsewhereNamed
<1>4. ASSUME run[r].pc \in Elsewhere,
             run' = [run EXCEPT ![r] = [@ EXCEPT !.pc = "read", !.tries = 1]],
             UNCHANGED <<pointer, stored>>, UNCHANGED <<log, offer>> \/ \E e \in Event : Appended(e)
      PROVE  NamedInv'
  <2>1. run'[r].pc = "read" /\ run'[r].job = run[r].job /\ \A p \in Run \ {r} : run'[p] = run[p]
    BY <1>0, <1>4 DEF Placed
  <2> QED  BY <1>4, <2>1, ElsewhereNamed DEF Elsewhere
<1>5. ASSUME NEW n \in View, Read(r, n)
      PROVE  NamedInv'
  <2>1. run[r].pc = "read" /\ UNCHANGED <<log, offer, stored, pointer>>
    BY <1>5 DEF Read, At, files
  <2> DEFINE next == nextOf[run[r].cur]
             landed == next # 0 /\ log[n].key = next /\ n > 1
             base == IF landed THEN n - 1 ELSE n
             x(pc) == [run[r] EXCEPT !.pc = pc, !.key = next, !.base = base, !.landed = landed]
  <2>2. Ends(r) \/ run' = [run EXCEPT ![r] = x("seal")] \/ run' = [run EXCEPT ![r] = x("keep")]
    BY <1>5 DEF Read
  <2>3. \A pc : x(pc).pc = pc /\ x(pc).job = run[r].job
    <3> HIDE DEF next, landed, base
    <3> QED  BY <1>0 DEF Placed
  <2> HIDE DEF x
  <2>4. Ends(r) \/ /\ run'[r].pc \in {"seal", "keep"} /\ run'[r].job = run[r].job
                   /\ \A p \in Run \ {r} : run'[p] = run[p]
    BY <1>0, <2>2, <2>3
  <2> QED  BY <1>2, <1>3, <2>1, <2>4 DEF Elsewhere
<1>6. CASE Keep(r) \/ Mark(r) \/ Seal(r)
  <2>1. /\ run[r].pc \in {"keep", "mark", "seal"} /\ UNCHANGED <<log, offer, stored, pointer>>
        /\ \E pc \in {"mark", "send", "commit"} : Goto(r, pc)
    BY <1>6 DEF Keep, Mark, Seal, At
  <2> QED  BY <1>1, <2>1 DEF Elsewhere
<1>7. CASE Send(r)
  <2> DEFINE e == [key |-> run[r].key, next |-> nextOf[run[r].key]]
  <2>1. run[r].pc = "send" /\ UNCHANGED <<stored, pointer>>
    BY <1>7 DEF Send, At, files
  <2>2. e \in Event
    <3>1. run[r].key \in Key
      BY <1>0, <2>1, Mine DEF Sound, Moving, Placed
    <3> QED  BY <3>1 DEF IInv, TypeOK, Event
  <2>3. /\ UNCHANGED <<log, offer>> \/ Appended(e)
        /\ \/ Goto(r, "pem") \/ Ends(r)
           \/ run' = [run EXCEPT ![r] = [@ EXCEPT !.pc = "read", !.tries = 1]]
    BY <1>7 DEF Send
  <2> HIDE DEF e
  <2> QED  BY <1>1, <1>2, <1>4, <2>1, <2>2, <2>3 DEF Elsewhere
<1>8. CASE SendCommit(r)
  <2> DEFINE e == [key |-> run[r].cur, next |-> nextOf[run[r].cur]]
  <2>1. run[r].pc = "commit" /\ UNCHANGED <<stored, pointer>>
    BY <1>8 DEF SendCommit, At, files
  <2>2. e \in Event
    <3>1. run[r].cur \in Key
      BY <1>0, <2>1, Mine DEF Sound, Loaded, Placed
    <3> QED  BY <3>1 DEF IInv, TypeOK, Event
  <2>3. /\ UNCHANGED <<log, offer>> \/ Appended(e)
        /\ \/ Goto(r, "reread") \/ Ends(r)
           \/ run' = [run EXCEPT ![r] = [@ EXCEPT !.pc = "read", !.tries = 1]]
    BY <1>8 DEF SendCommit, Committed
  <2> HIDE DEF e
  <2> QED  BY <1>1, <1>2, <1>4, <2>1, <2>2, <2>3 DEF Elsewhere
<1>9. ASSUME NEW n \in View, Reread(r, n)
      PROVE  NamedInv'
  <2>1. run[r].pc = "reread" /\ UNCHANGED <<log, offer, stored, pointer>>
    BY <1>9 DEF Reread, At, files
  <2>2. \/ Ends(r) \/ run' = [run EXCEPT ![r] = [@ EXCEPT !.pc = "read", !.tries = 1]]
        \/ run' = [run EXCEPT ![r] = [@ EXCEPT !.pc = "commit", !.base = n, !.again = 1]]
    BY <1>9 DEF Reread, Committed
  <2>3. ASSUME run' = [run EXCEPT ![r] = [@ EXCEPT !.pc = "commit", !.base = n, !.again = 1]]
        PROVE  NamedInv'
    <3>1. run'[r].pc = "commit" /\ run'[r].job = run[r].job /\ \A p \in Run \ {r} : run'[p] = run[p]
      BY <1>0, <2>3 DEF Placed
    <3> QED  BY <2>1, <3>1, ElsewhereNamed DEF Elsewhere
  <2> QED  BY <1>2, <1>4, <2>1, <2>2, <2>3 DEF Elsewhere
<1>10. ASSUME NEW n \in View, Prove(r, n) \/ CheckLog(r, n)
       PROVE  NamedInv'
  <2>1. run[r].pc \in {"prove", "log"} /\ UNCHANGED <<log, offer, stored, pointer>>
    BY <1>10 DEF Prove, CheckLog, At, files
  <2>2. \/ Ends(r) \/ Goto(r, "offer") \/ Goto(r, "pem")
        \/ run' = [run EXCEPT ![r] = [@ EXCEPT !.pc = "seal", !.base = n]]
    BY <1>10 DEF Prove, CheckLog
  <2>3. ASSUME run' = [run EXCEPT ![r] = [@ EXCEPT !.pc = "seal", !.base = n]]
        PROVE  NamedInv'
    <3>1. run'[r].pc = "seal" /\ run'[r].job = run[r].job /\ \A p \in Run \ {r} : run'[p] = run[p]
      BY <1>0, <2>3 DEF Placed
    <3> QED  BY <2>1, <3>1, ElsewhereNamed DEF Elsewhere
  <2> QED  BY <1>1, <1>2, <2>1, <2>2, <2>3 DEF Elsewhere
<1>11. ASSUME NEW k \in Key, Offer(r, k)
       PROVE  NamedInv'
  <2>1. /\ run[r].pc = "offer" /\ UNCHANGED <<log, offer, stored, pointer>>
        /\ run' = [run EXCEPT ![r] = [@ EXCEPT !.pc = "log", !.key = k]]
    BY <1>11 DEF Offer, At, files
  <2>2. run'[r].pc = "log" /\ run'[r].job = run[r].job /\ \A p \in Run \ {r} : run'[p] = run[p]
    BY <1>0, <2>1 DEF Placed
  <2> QED  BY <2>1, <2>2, ElsewhereNamed DEF Elsewhere
<1>12. CASE Stop(r)
  <2>1. Ends(r) /\ UNCHANGED <<log, offer, stored, pointer>>
    BY <1>12 DEF Stop, files
  <2> QED  BY <1>2, <2>1
<1> QED
  BY <1>5, <1>6, <1>7, <1>8, <1>9, <1>10, <1>11, <1>12 DEF Rotate, CommitSealed, Connect

\* What a run is told by where it is.
LEMMA Told ==
  ASSUME IInv, NamedInv, NEW r \in Run
  PROVE  /\ run \in [Run -> Placed] /\ run[r] \in Placed /\ Sound(run[r]) /\ Course(r, run[r])
         /\ pointer \in [Key \cup {0} -> Key \cup {0}] /\ stored \subseteq Key
         /\ offer \in Event \cup {None} /\ log \in Seq(Event) /\ Len(log) \in 1 .. MaxLen
BY Mine DEF IInv, TypeOK, Placed, NamedInv

\* The same log, the same pending recovery.
LEMMA LogStays ==
  ASSUME NamedInv, UNCHANGED <<log, offer>>
  PROVE  InUse' = InUse /\ (UNCHANGED pointer => Pending')
BY DEF InUse, NamedInv, Pending, None

LEMMA StartNamed ==
  ASSUME IInv, NamedInv, OneOwner, NEW r \in Run, NEW j \in Job, Start(r, j)
  PROVE  NamedInv'
<1>0. run \in [Run -> Placed]
  BY Told
<1> DEFINE x == [Rest EXCEPT !.pc = First[j], !.job = j, !.cur = Cur]
<1>1. run' = [run EXCEPT ![r] = x] /\ UNCHANGED <<log, offer, stored, pointer>> /\ j \in Jobs[r]
  BY DEF Start, files
<1>2. x.pc = First[j] /\ x.job = j
  BY DEF Rest
<1> HIDE DEF x
<1>3. run'[r].pc = First[j] /\ run'[r].job = j /\ \A p \in Run \ {r} : run'[p] = run[p]
  BY <1>0, <1>1, <1>2
<1>4. \/ j = "rotate" /\ First[j] = "read"
      \/ j = "recover" /\ First[j] = "pick"
      \/ j = "cancel" /\ First[j] = "withdraw"
      \/ j = "connect" /\ First[j] = "prove"
  BY DEF First, Job
<1>5. Course(r, run[r])'
  BY <1>1, <1>3, <1>4 DEF Course, Recovering, Withdrawing
<1>6. NamesStored'
  BY <1>1 DEF NamedInv, NamesStored
<1> QED  BY <1>1, <1>3, <1>5, <1>6, LogStays, TurnNamed

LEMMA RecordNamed ==
  ASSUME IInv, NamedInv, OneOwner, NEW r \in Run, Record(r)
  PROVE  NamedInv'
<1>0. run \in [Run -> Placed] /\ run[r] \in Placed /\ Course(r, run[r])
  BY Told
<1>1. /\ UNCHANGED <<log, offer, pointer>> /\ run[r].pc \in {"pem", "move"}
      /\ Goto(r, "move") \/ Ends(r) \/ (Goto(r, "finish") /\ run[r].job = "recover")
      /\ stored \subseteq stored'
  BY DEF Record, RecordKey, RecordMove, At, files
<1>2. InUse' = InUse /\ Pending'
  BY <1>1, LogStays
<1>3. NamesStored'
  BY <1>1 DEF NamedInv, NamesStored
<1>4. \A p \in Run \ {r} : run'[p] = run[p]
  BY <1>0, <1>1 DEF Goto, Ends
<1>5. \/ run'[r] = Rest
      \/ /\ run'[r].job = run[r].job /\ run'[r].key = run[r].key
         /\ run'[r].pc = "move" \/ (run'[r].pc = "finish" /\ run[r].job = "recover")
  BY <1>0, <1>1 DEF Goto, Ends, Placed
<1>6. Course(r, run[r])'
  BY <1>0, <1>1, <1>2, <1>5 DEF Course, Recovering, Withdrawing, Rest
<1> QED  BY <1>1, <1>2, <1>3, <1>4, <1>6, TurnNamed

LEMMA PickNamed ==
  ASSUME IInv, NamedInv, OneOwner, NEW r \in Run, Pick(r) \/ KeepNext(r)
  PROVE  NamedInv'
<1>0. /\ run \in [Run -> Placed] /\ run[r] \in Placed /\ Course(r, run[r])
      /\ pointer \in [Key \cup {0} -> Key \cup {0}]
      /\ Range(pointer) \subseteq stored \cup {0}
  BY Told DEF NamedInv, NamesStored
<1>1. UNCHANGED <<log, offer, pointer>> /\ stored \subseteq stored' /\ run[r].pc \in {"pick", "next"}
  BY DEF Pick, KeepNext, At
<1>2. InUse' = InUse /\ Pending' /\ NamesStored'
  BY <1>1, LogStays DEF NamedInv, NamesStored
<1>3. CASE Pick(r)
  <2> DEFINE kept == Kept(run[r].cur)
  <2>1. CASE kept # 0 /\ run' = [run EXCEPT ![r] = [@ EXCEPT !.pc = "next", !.key = kept]]
    <3>1. kept \in Range(pointer)
      BY <1>0, <2>1 DEF Kept, Range, Placed
    <3> HIDE DEF kept
    <3>2. /\ run'[r].pc = "next" /\ run'[r].key = kept /\ run'[r].job = run[r].job
          /\ \A p \in Run \ {r} : run'[p] = run[p]
      BY <1>0, <2>1 DEF Placed
    <3>3. Course(r, run[r])'
      BY <1>0, <1>1, <1>3, <3>1, <3>2 DEF Course, Pick, At, Recovering, Withdrawing
    <3> QED  BY <1>1, <1>2, <3>2, <3>3, TurnNamed
  <2>2. CASE /\ kept = 0 /\ minted < MaxKey
             /\ minted' = minted + 1 /\ stored' = stored \cup {minted + 1}
             /\ run' = [run EXCEPT ![r] = [@ EXCEPT !.pc = "name", !.key = minted + 1]]
    <3>1. pointer[run[r].cur] = 0
      <4>1. pointer[run[r].cur] \in stored \cup {0} /\ 0 \notin Key /\ stored \subseteq Key
        BY <1>0, Told DEF Range, Placed, Key
      <4> QED  BY <2>2, <4>1 DEF Kept
    <3>2. /\ run'[r].pc = "name" /\ run'[r].key = minted + 1 /\ run'[r].job = run[r].job
          /\ run'[r].cur = run[r].cur /\ \A p \in Run \ {r} : run'[p] = run[p]
      BY <1>0, <2>2 DEF Placed
    <3>3. Course(r, run[r])'
      BY <1>0, <1>1, <1>3, <2>2, <3>1, <3>2 DEF Course, Pick, At, Recovering, Withdrawing
    <3> QED  BY <1>1, <1>2, <3>2, <3>3, TurnNamed
  <2> QED  BY <1>3, <2>1, <2>2 DEF Pick
<1>4. CASE KeepNext(r)
  <2>1. Goto(r, "head") /\ run[r].pc = "next"
    BY <1>4 DEF KeepNext, At
  <2>2. /\ run'[r].pc = "head" /\ run'[r].key = run[r].key /\ run'[r].job = run[r].job
        /\ \A p \in Run \ {r} : run'[p] = run[p]
    BY <1>0, <2>1 DEF Goto, Placed
  <2>3. Course(r, run[r])'
    BY <1>0, <1>1, <2>1, <2>2 DEF Course, Recovering, Withdrawing
  <2> QED  BY <1>1, <1>2, <2>2, <2>3, TurnNamed
<1> QED  BY <1>3, <1>4

\* The name it takes the place of was none.
LEMMA NameNamed ==
  ASSUME IInv, NamedInv, OneOwner, NEW r \in Run, Name(r)
  PROVE  NamedInv'
<1>0. /\ run \in [Run -> Placed] /\ run[r] \in Placed /\ Course(r, run[r])
      /\ pointer \in [Key \cup {0} -> Key \cup {0}] /\ offer \in Event \cup {None}
      /\ run[r].pc = "name" /\ Goto(r, "next") /\ UNCHANGED <<log, offer, stored>>
      /\ pointer' = [pointer EXCEPT ![run[r].cur] = run[r].key]
  BY Told DEF Name, At
<1>a. run[r].cur \in Key \cup {0} /\ run[r].key \in Key \cup {0} /\ 0 \notin Key
  BY <1>0 DEF Placed, Key
<1>1. pointer[run[r].cur] = 0 /\ run[r].key \in stored
  BY <1>0, <1>a DEF Course
<1>2. /\ run[r].key \in Range(pointer')
      /\ \A k \in Range(pointer) : k # 0 => k \in Range(pointer')
      /\ Range(pointer') \subseteq Range(pointer) \cup {run[r].key}
  BY <1>0, <1>a, <1>1 DEF Range
<1>3. InUse' = InUse
  BY <1>0, <1>a, LogStays
<1>4. Pending'
  BY <1>0, <1>a, <1>2, <1>3 DEF NamedInv, Pending, Event, None
<1>5. NamesStored'
  BY <1>0, <1>a, <1>1, <1>2 DEF NamedInv, NamesStored
<1>6. /\ run'[r].pc = "next" /\ run'[r].key = run[r].key /\ run'[r].job = run[r].job
      /\ \A p \in Run \ {r} : run'[p] = run[p]
  BY <1>0, <1>a DEF Goto, Placed
<1>7. Course(r, run[r])'
  BY <1>0, <1>a, <1>2, <1>6 DEF Course, Recovering, Withdrawing
<1> QED  BY <1>0, <1>a, <1>3, <1>4, <1>5, <1>6, <1>7, TurnNamed DEF Recovering

\* Its key is the log's: its name may go.
LEMMA RecoveredNamed ==
  ASSUME IInv, NamedInv, OneOwner, NEW r \in Run, Recovered(r), run[r].pc \in {"head", "ask"},
         UNCHANGED <<pointer, stored>>, InUse \subseteq InUse', Pending', run[r].key \in InUse'
  PROVE  NamedInv'
<1>0. run \in [Run -> Placed] /\ run[r] \in Placed /\ Course(r, run[r])
  BY Told
<1>1. /\ run'[r].pc \in {"link", "pem"} /\ run'[r].key = run[r].key /\ run'[r].job = run[r].job
      /\ \A p \in Run \ {r} : run'[p] = run[p]
  BY <1>0 DEF Recovered, Goto, Placed
<1>2. Course(r, run[r])'
  BY <1>0, <1>1 DEF Course, Recovering, Withdrawing
<1>3. NamesStored'
  BY DEF NamedInv, NamesStored
<1> QED  BY <1>1, <1>2, <1>3, TurnNamed DEF Recovering

LEMMA ReadHeadNamed ==
  ASSUME IInv, NamedInv, OneOwner, NEW r \in Run, NEW n \in View, ReadHead(r, n)
  PROVE  NamedInv'
<1>0. /\ run \in [Run -> Placed] /\ run[r] \in Placed /\ Course(r, run[r])
      /\ run[r].pc = "head" /\ UNCHANGED <<log, offer, pointer, stored>>
  BY Told DEF ReadHead, At, files
<1>1. InUse' = InUse /\ Pending'
  BY <1>0, LogStays
<1>2. CASE log[n].key = run[r].key
  <2>1. run[r].key \in InUse
    BY <1>2 DEF View, InUse
  <2> QED  BY <1>0, <1>1, <1>2, <2>1, RecoveredNamed DEF ReadHead
<1>3. CASE run' = [run EXCEPT ![r] = [@ EXCEPT !.pc = "ask", !.base = n]]
  <2>1. /\ run'[r].pc = "ask" /\ run'[r].key = run[r].key /\ run'[r].job = run[r].job
        /\ \A p \in Run \ {r} : run'[p] = run[p]
    BY <1>0, <1>3 DEF Placed
  <2>2. Course(r, run[r])'
    BY <1>0, <2>1 DEF Course, Recovering, Withdrawing
  <2>3. NamesStored'
    BY <1>0 DEF NamedInv, NamesStored
  <2> QED  BY <1>0, <1>1, <2>1, <2>2, <2>3, TurnNamed
<1> QED  BY <1>2, <1>3 DEF ReadHead

LEMMA AskNamed ==
  ASSUME IInv, NamedInv, OneOwner, NEW r \in Run, Ask(r)
  PROVE  NamedInv'
<1>0. /\ run \in [Run -> Placed] /\ run[r] \in Placed /\ Course(r, run[r]) /\ Sound(run[r])
      /\ log \in Seq(Event) /\ Len(log) \in 1 .. MaxLen
      /\ run[r].pc = "ask" /\ UNCHANGED <<pointer, stored>>
  BY Told DEF Ask, At, files
<1> DEFINE e == [key |-> run[r].key, next |-> nextOf[run[r].key]]
<1>1. e.key = run[r].key /\ e \in Event
  <2>1. run[r].key \in Key
    BY <1>0 DEF Sound, Moving, Placed
  <2> QED  BY <2>1 DEF IInv, TypeOK, Event
<1>2. \/ Last.key = e.key /\ Recovered(r) /\ UNCHANGED <<log, offer>>
      \/ Appended(e) /\ Recovered(r)
      \/ e.key \notin InUse /\ offer' \in {e, offer} /\ Ends(r) /\ UNCHANGED log
      \/ Ends(r) /\ UNCHANGED <<log, offer>>
  BY DEF Ask, InUse
<1> HIDE DEF e
<1>3. CASE Last.key = e.key /\ Recovered(r) /\ UNCHANGED <<log, offer>>
  <2>1. run[r].key \in InUse /\ InUse' = InUse /\ Pending'
    BY <1>0, <1>1, <1>3, LogStays DEF InUse, Last
  <2> QED  BY <1>0, <1>3, <2>1, RecoveredNamed
<1>4. CASE Appended(e) /\ Recovered(r)
  <2>1. log' = Append(log, e) /\ offer' = None
    BY <1>4 DEF Appended
  <2>2. Len(log') = Len(log) + 1 /\ log'[Len(log) + 1] = e
        /\ \A i \in 1 .. Len(log) : i \in 1 .. Len(log') /\ log'[i] = log[i]
    BY <1>0, <1>1, <2>1
  <2>3. Len(log) + 1 \in 1 .. Len(log')
    BY <1>0, <2>2, KeyAssumption
  <2>4. run[r].key \in InUse' /\ InUse \subseteq InUse' /\ Pending'
    BY <1>1, <2>1, <2>2, <2>3 DEF InUse, Pending, None
  <2> QED  BY <1>0, <1>4, <2>4, RecoveredNamed
<1>5. CASE e.key \notin InUse /\ offer' \in {e, offer} /\ Ends(r) /\ UNCHANGED log
  <2>1. run[r].key \in Range(pointer)
    BY <1>0 DEF Course
  <2>2. InUse' = InUse
    BY <1>5 DEF InUse
  <2>3. Pending'
    BY <1>0, <1>1, <1>5, <2>1, <2>2 DEF NamedInv, Pending, None
  <2>4. run'[r] = Rest /\ \A p \in Run \ {r} : run'[p] = run[p]
    BY <1>0, <1>5 DEF Ends
  <2>5. Course(r, run[r])'
    BY <2>4 DEF Course, Rest, Recovering, Withdrawing
  <2>6. NamesStored'
    BY <1>0 DEF NamedInv, NamesStored
  <2> QED  BY <1>0, <2>2, <2>3, <2>4, <2>5, <2>6, TurnNamed DEF Recovering
<1>6. CASE Ends(r) /\ UNCHANGED <<log, offer>>
  BY <1>0, <1>6, EndsNamed
<1> QED  BY <1>2, <1>3, <1>4, <1>5, <1>6

LEMMA LookedNamed ==
  ASSUME IInv, NamedInv, OneOwner, NEW r \in Run, Looked(r), run[r].pc \in {"finish", "drop"},
         UNCHANGED <<log, offer, stored>>, Pending', NamesStored'
  PROVE  NamedInv'
<1>0. run \in [Run -> Placed] /\ run[r] \in Placed /\ Course(r, run[r])
  BY Told
<1>1. \/ run'[r] = Rest
      \/ run'[r].pc = "finish" /\ run'[r].key = run[r].key /\ run'[r].job = run[r].job
  <2>1. CASE Ends(r)
    BY <1>0, <2>1 DEF Ends
  <2>2. CASE run' = [run EXCEPT ![r] = [@ EXCEPT !.pc = "finish", !.look = run[r].cur]]
    <3>1. run'[r] = [run[r] EXCEPT !.pc = "finish", !.look = run[r].cur]
      BY <1>0, <2>2
    <3> QED  BY <1>0, <3>1 DEF Placed
  <2> QED  BY <2>1, <2>2 DEF Looked
<1>2. \A p \in Run \ {r} : run'[p] = run[p]
  BY <1>0 DEF Looked, Ends
<1>3. InUse' = InUse
  BY LogStays
<1>4. Course(r, run[r])'
  BY <1>0, <1>1, <1>3 DEF Course, Rest, Recovering, Withdrawing
<1> QED  BY <1>2, <1>3, <1>4, TurnNamed DEF Recovering

LEMMA FinishNamed ==
  ASSUME IInv, NamedInv, OneOwner, NEW r \in Run, Link(r) \/ Finish(r)
  PROVE  NamedInv'
<1>0. /\ run \in [Run -> Placed] /\ run[r] \in Placed /\ Course(r, run[r])
      /\ run[r].pc \in {"link", "finish"} /\ UNCHANGED <<log, offer, pointer, stored>>
  BY Told DEF Link, Finish, At, files
<1>1. InUse' = InUse /\ Pending' /\ NamesStored'
  BY <1>0, LogStays DEF NamedInv, NamesStored
<1>2. CASE Ends(r)
  BY <1>0, <1>2, EndsNamed
<1>3. CASE Looked(r) /\ Finish(r)
  BY <1>0, <1>1, <1>3, LookedNamed DEF Finish, At
<1>4. CASE \/ Goto(r, "finish")
           \/ Goto(r, "drop") /\ pointer[run[r].look] = run[r].key
  <2>1. /\ run'[r].pc \in {"finish", "drop"} /\ run'[r].key = run[r].key /\ run'[r].job = run[r].job
        /\ run'[r].look = run[r].look /\ \A p \in Run \ {r} : run'[p] = run[p]
        /\ run'[r].pc = "drop" => pointer[run[r].look] = run[r].key
    BY <1>0, <1>4 DEF Goto, Placed
  <2>2. Course(r, run[r])'
    BY <1>0, <1>1, <2>1 DEF Course, Recovering, Withdrawing
  <2> QED  BY <1>0, <1>1, <2>1, <2>2, TurnNamed
<1> QED  BY <1>2, <1>3, <1>4 DEF Link, Finish

\* What it takes away names a key of the log, which nothing pending is for.
LEMMA DropNamed ==
  ASSUME IInv, NamedInv, OneOwner, NEW r \in Run, Drop(r)
  PROVE  NamedInv'
<1>0. /\ run \in [Run -> Placed] /\ run[r] \in Placed /\ Course(r, run[r])
      /\ run[r].pc = "drop" /\ UNCHANGED <<log, offer, stored>> /\ Looked(r)
      /\ pointer' = [pointer EXCEPT ![run[r].look] = 0]
      /\ pointer \in [Key \cup {0} -> Key \cup {0}] /\ run[r].look \in Key \cup {0}
  BY Told DEF Drop, At, Placed
<1>1. pointer[run[r].look] = run[r].key /\ run[r].key \in InUse
  BY <1>0 DEF Course, Recovering
<1>2. /\ \A k \in Range(pointer) : k # run[r].key => k \in Range(pointer')
      /\ Range(pointer') \subseteq Range(pointer) \cup {0}
  BY <1>0, <1>1 DEF Range
<1>3. InUse' = InUse
  BY <1>0, LogStays
<1>4. Pending' /\ NamesStored'
  BY <1>0, <1>1, <1>2, <1>3 DEF NamedInv, Pending, NamesStored, None
<1> QED  BY <1>0, <1>4, LookedNamed

LEMMA CancelNamed ==
  ASSUME IInv, NamedInv, OneOwner, NEW r \in Run, Cancel(r)
  PROVE  NamedInv'
<1>0. /\ run \in [Run -> Placed] /\ run[r] \in Placed /\ Course(r, run[r])
      /\ pointer \in [Key \cup {0} -> Key \cup {0}]
      /\ run[r].pc \in {"withdraw", "forget"} /\ UNCHANGED <<log, stored>>
      /\ offer' = None
  BY Told DEF Cancel, Withdraw, Forget, At, files, Course
<1>1. InUse' = InUse /\ Pending'
  BY <1>0 DEF InUse, Pending, None
<1>2. \A p \in Run \ {r} : run'[p] = run[p]
  BY <1>0 DEF Cancel, Withdraw, Forget, Goto, Ends
<1>3. Range(pointer') \subseteq Range(pointer) \cup {0}
  BY <1>0 DEF Cancel, Withdraw, Forget, Range, files
<1>4. NamesStored'
  BY <1>0, <1>3 DEF NamedInv, NamesStored
<1>5. run'[r] = Rest \/ (run'[r].pc = "forget" /\ run'[r].job = run[r].job /\ run[r].pc = "withdraw")
  BY <1>0 DEF Cancel, Withdraw, Forget, Goto, Ends, At, Placed
<1>6. Course(r, run[r])'
  BY <1>0, <1>5 DEF Course, Rest, Recovering, Withdrawing
<1> QED  BY <1>0, <1>1, <1>2, <1>4, <1>6, TurnNamed DEF Withdrawing

LEMMA TakeEffectNamed ==
  ASSUME IInv, NamedInv, TakeEffect
  PROVE  NamedInv'
<1>1. /\ log \in Seq(Event) /\ offer \in Event /\ log' = Append(log, offer) /\ offer' = None
      /\ UNCHANGED <<pointer, stored, run>>
  BY DEF TakeEffect, Appended, files, IInv, TypeOK
<1>2. \A i \in 1 .. Len(log) : i \in 1 .. Len(log') /\ log'[i] = log[i]
  BY <1>1
<1>3. InUse \subseteq InUse'
  BY <1>2 DEF InUse
<1> QED  BY <1>1, <1>3 DEF NamedInv, Course, Pending, NamesStored, None

LEMMA InitNamed ==
  ASSUME Init
  PROVE  NamedInv
<1>1. \A r \in Run : Course(r, run[r])
  BY DEF Init, Course, Rest, Recovering, Withdrawing
<1>2. Pending /\ NamesStored
  BY DEF Init, Pending, NamesStored, Range
<1> QED  BY <1>1, <1>2 DEF NamedInv

LEMMA NextNamed ==
  ASSUME IInv, NamedInv, OneOwner, [Next]_vars
  PROVE  NamedInv'
<1>1. CASE UNCHANGED vars
  <2>1. InUse' = InUse
    BY <1>1 DEF vars, InUse
  <2> QED  BY <1>1, <2>1 DEF vars, files, NamedInv, Course, Pending, NamesStored, None
<1>2. ASSUME NEW r \in Run,
             \/ \E j \in Job : Start(r, j)
             \/ Rotate(r) \/ Record(r) \/ CommitSealed(r) \/ Recover(r) \/ Cancel(r) \/ Connect(r)
             \/ Stop(r)
      PROVE  NamedInv'
  <2>1. CASE Recover(r)
    BY <2>1, PickNamed, NameNamed, ReadHeadNamed, AskNamed, FinishNamed, DropNamed DEF Recover
  <2> QED  BY <1>2, <2>1, StartNamed, PlainNamed, RecordNamed, CancelNamed
<1> QED  BY <1>1, <1>2, TakeEffectNamed DEF Next

\* RecoveryKey (idkey/chain.go:318), FinishRecovery and forgetRecovery: however
\* recoveries, cancels, rotations and connects interleave and wherever they are
\* stopped, a recovery that waits at the service is named on this host, as long as
\* one run of it recovers and cancels.
THEOREM RecoveryNamed ==
  ASSUME OneOwner
  PROVE  Spec => []RecoveryIsNamed
<1>1. Init => IInv /\ NamedInv
  BY InitSound, InitNamed
<1>2. IInv /\ NamedInv /\ [Next]_vars => IInv' /\ NamedInv'
  BY NextSound, NextNamed
<1>3. NamedInv => RecoveryIsNamed
  BY DEF NamedInv, Pending, RecoveryIsNamed
<1> QED  BY <1>1, <1>2, <1>3, PTL DEF Spec
-----------------------------------------------------------------------------
(* That the host's key follows the log.  A record of a move turns one key   *)
(* at which Follow would have stopped into one it goes on from; how far the *)
(* two walks come apart is a matter of where each step of them leads.       *)

LEMMA WalkStays ==
  ASSUME NEW T, NEW k, NEW go, NEW n \in Nat, NEW f, IsWalk(f, T, k, go, n),
         NEW C, k \in C, \A c \in C : go[c] \in C
  PROVE  f[n] \in C
<1> DEFINE Bad == {i \in 0 .. n : f[i] \notin C}
<1> SUFFICES ASSUME Bad # {} PROVE FALSE
  OBVIOUS
<1>1. PICK m \in Bad : \A j \in Bad : ~(j < m)
  <2>1. Bad \in SUBSET Nat
    OBVIOUS
  <2> HIDE DEF Bad
  <2> QED  BY <2>1, LeastNumber
<1>2. m \in 0 .. n /\ m # 0
  BY DEF IsWalk
<1>3. m - 1 \in 0 .. n /\ m - 1 < m /\ m \in 1 .. n
  BY <1>2
<1>4. f[m - 1] \in C
  BY <1>1, <1>3
<1> QED  BY <1>3, <1>4 DEF IsWalk

\* Two walks from one key, of which the second goes on from places where the first one rests.
LEMMA WalksApart ==
  ASSUME NEW T, NEW k \in T, NEW go \in [T -> T], NEW on \in [T -> T], NEW n \in Nat,
         NEW f, IsWalk(f, T, k, go, n), NEW g, IsWalk(g, T, k, on, n),
         NEW R, \A c \in T : <<c, c>> \in R,
         \A a, b, c \in T : <<a, b>> \in R /\ <<b, c>> \in R => <<a, c>> \in R,
         \A c \in T : on[c] = go[c] \/ go[c] = c,
         \A c \in T : <<c, on[c]>> \in R
  PROVE  <<f[n], g[n]>> \in R
<1> DEFINE Good(i) == g[i] = f[i] \/ (go[f[i]] = f[i] /\ <<f[i], g[i]>> \in R)
           Bad == {i \in 0 .. n : ~Good(i)}
<1>0. \A i \in 0 .. n : f[i] \in T /\ g[i] \in T
  BY DEF IsWalk
<1>1. Bad = {}
  <2> SUFFICES ASSUME Bad # {} PROVE FALSE
    OBVIOUS
  <2>1. PICK m \in Bad : \A j \in Bad : ~(j < m)
    <3>1. Bad \in SUBSET Nat
      OBVIOUS
    <3> HIDE DEF Bad
    <3> QED  BY <3>1, LeastNumber
  <2>2. m \in 0 .. n /\ m # 0
    BY DEF IsWalk
  <2>3. m - 1 \in 0 .. n /\ m - 1 < m /\ m \in 1 .. n
    BY <2>2
  <2>4. Good(m - 1)
    BY <2>1, <2>3
  <2> DEFINE a == f[m - 1]
             b == g[m - 1]
  <2>5. f[m] = go[a] /\ g[m] = on[b] /\ a \in T /\ b \in T
    BY <1>0, <2>3 DEF IsWalk
  <2>6. Good(m)
    <3> HIDE DEF a, b
    <3>1. CASE a = b
      BY <2>5, <3>1
    <3>2. CASE go[a] = a /\ <<a, b>> \in R
      <4>1. <<a, on[b]>> \in R
        BY <2>5, <3>2
      <4> QED  BY <2>5, <3>2, <4>1
    <3> QED  BY <2>4, <3>1, <3>2 DEF a, b
  <2> QED  BY <2>1, <2>6
<1>2. n \in 0 .. n /\ Good(n)
  BY <1>1
<1> QED  BY <1>0, <1>2

\* Where a key is said to have moved to, if that one is stored.
Onward(mv, st) == [c \in Key \cup {0} |-> IF c # 0 /\ mv[c] \in st THEN mv[c] ELSE c]

\* Follow, of any records and any stored keys.
Walked(mv, st, k) ==
  LET onward == [c \in Key \cup {0} |-> IF c # 0 /\ mv[c] \in st THEN mv[c] ELSE c]
      after[i \in 0 .. MaxMoves] == IF i = 0 THEN k ELSE onward[after[i - 1]]
  IN after[MaxMoves]

LEMMA WalkedIs ==
  ASSUME NEW mv \in [Key -> Key \cup {0}], NEW st \in SUBSET Key, NEW k \in Key \cup {0}
  PROVE  /\ Onward(mv, st) \in [Key \cup {0} -> Key \cup {0}]
         /\ \E f : IsWalk(f, Key \cup {0}, k, Onward(mv, st), MaxMoves) /\ Walked(mv, st, k) = f[MaxMoves]
<1> DEFINE T == Key \cup {0}
           onward == [c \in Key \cup {0} |-> IF c # 0 /\ mv[c] \in st THEN mv[c] ELSE c]
           Walk(f) == f = [i \in 0 .. MaxMoves |-> IF i = 0 THEN k ELSE onward[f[i - 1]]]
           after == CHOOSE f : Walk(f)
<1>0. MaxMoves \in Nat
  BY MaxMovesNat
<1>1. onward \in [T -> T] /\ onward = Onward(mv, st)
  BY DEF Onward
<1>2. PICK f : IsWalk(f, T, k, onward, MaxMoves)
  <2>1. k \in T
    OBVIOUS
  <2> HIDE DEF T, onward
  <2> QED  BY <1>0, <1>1, <2>1, WalkExists
<1>3. Walk(f)
  <2>1. \A i \in 0 .. MaxMoves : f[i] = IF i = 0 THEN k ELSE onward[f[i - 1]]
    <3> HIDE DEF onward
    <3> QED  BY <1>0, <1>2 DEF IsWalk
  <2>2. f = [i \in 0 .. MaxMoves |-> f[i]]
    BY <1>2 DEF IsWalk
  <2> HIDE DEF onward
  <2> QED  BY <2>1, <2>2
<1>4. Walk(after)
  <2> HIDE DEF Walk
  <2> QED  BY <1>3
<1>5. \A i \in 0 .. MaxMoves : after[i] = f[i]
  <2> DEFINE Bad == {i \in 0 .. MaxMoves : after[i] # f[i]}
  <2> HIDE DEF after
  <2> SUFFICES ASSUME Bad # {} PROVE FALSE
    OBVIOUS
  <2>1. PICK m \in Bad : \A j \in Bad : ~(j < m)
    <3>1. Bad \in SUBSET Nat
      BY <1>0
    <3> HIDE DEF Bad
    <3> QED  BY <3>1, LeastNumber
  <2>2. m \in 0 .. MaxMoves /\ after[m] # f[m]
    BY <2>1
  <2>3. \A i \in 0 .. MaxMoves : /\ after[i] = IF i = 0 THEN k ELSE onward[after[i - 1]]
                                 /\ f[i] = IF i = 0 THEN k ELSE onward[f[i - 1]]
    <3> HIDE DEF onward
    <3> QED  BY <1>3, <1>4
  <2>4. m # 0
    BY <2>2, <2>3
  <2>5. m - 1 \in 0 .. MaxMoves /\ m - 1 < m
    BY <1>0, <2>2, <2>4
  <2>6. after[m - 1] = f[m - 1]
    BY <2>1, <2>5
  <2> HIDE DEF onward
  <2> QED  BY <2>2, <2>3, <2>4, <2>6
<1>6. Walked(mv, st, k) = after[MaxMoves]
  BY DEF Walked
<1>7. Walked(mv, st, k) = f[MaxMoves]
  <2>1. MaxMoves \in 0 .. MaxMoves
    BY <1>0
  <2> HIDE DEF after
  <2> QED  BY <1>5, <1>6, <2>1
<1> QED
  <2> HIDE DEF onward
  <2> QED  BY <1>1, <1>2, <1>7
-----------------------------------------------------------------------------
(* The order of the log, and the invariant.                                *)

KeysOf(l) == {l[i].key : i \in 1 .. Len(l)}

\* Wherever m stands in l, k stands before it.
Before(l, k, m) == \A j \in 1 .. Len(l) : l[j].key = m => \E i \in 1 .. j - 1 : l[i].key = k

\* k is in l, and m, if it is or ever will be, after it.
Leads(l, k, m) == k \in KeysOf(l) /\ Before(l, k, m)

\* The places of a recovery that has its key and has not heard that it took effect.
Asking == {"name", "next", "head", "ask"}

\* What a run moves to is later in the log than what it loaded; what it commits to is the
\* head's; a recovery on a host without a key is the only one to link one.
Paced(x) ==
  /\ x.cur # 0 => x.cur \in InUse /\ linked # 0
  /\ x.pc \in {"keep", "mark", "send"} => x.key = nextOf[x.cur]
  /\ x.pc \in {"log", "pem", "move"} => Leads(log, x.cur, x.key)
  /\ x.pc \in {"pem", "move"} => x.key \in InUse
  /\ x.pc \in Asking => x.key \notin Range(nextOf)
  /\ x.pc \in Asking /\ x.cur # 0 => Leads(log, x.cur, x.key)
  /\ x.pc \in {"seal", "commit"} =>
       /\ x.base \in 1 .. Len(log)
       /\ x.base = Len(log) => Last.key = x.cur /\ Last.next = 0
  /\ x.pc \in {"pick", "link"} \cup Asking => x.look = 0
  /\ x.pc \in {"pick", "link"} \cup Asking /\ x.cur = 0 => linked = 0
  /\ x.pc \in {"next", "head", "ask", "link"} /\ x.cur = 0 => pointer[0] = x.key
  /\ x.pc = "link" => x.cur = 0

\* The files name moves forwards only: from a key of the log to one that is not before it.
Forward ==
  /\ \A c \in Key : nextOf[c] # 0 => Before(log, c, nextOf[c])
  /\ \A a, b \in Key : nextOf[a] # 0 /\ nextOf[a] = nextOf[b] => a = b
  /\ \A k \in Range(pointer) : k # 0 => k \notin Range(nextOf)
  /\ \A k \in InUse : k <= minted
  /\ linked \in InUse \cup {0}
  /\ \A k \in Key : moved[k] # 0 => moved[k] \in InUse /\ Leads(log, k, moved[k])
  /\ \A c \in Key : pointer[c] # 0 => Leads(log, c, pointer[c])

\* The recovery x that linked this host's key has still to drop the handle's pointer.
Dropping(x) == x.pc \in {"finish", "drop"} /\ x.cur = 0 /\ x.look = 0 /\ x.key = pointer[0]

AllPaced == \A p \in Run : \A x \in Placed : run[p] = x => Paced(x)
Cleared == linked # 0 /\ pointer[0] # 0 => \E p \in Run : Dropping(run[p])

PaceInv == AllPaced /\ Forward /\ Cleared

LEMMA KeysAppend ==
  ASSUME NEW l \in Seq(Event), NEW e \in Event
  PROVE  /\ Append(l, e) \in Seq(Event) /\ Len(Append(l, e)) = Len(l) + 1
         /\ Append(l, e)[Len(l) + 1] = e /\ \A i \in 1 .. Len(l) : Append(l, e)[i] = l[i]
         /\ KeysOf(Append(l, e)) = KeysOf(l) \cup {e.key}
         /\ \A k, m : Before(l, k, m) /\ (e.key = m => k \in KeysOf(l)) => Before(Append(l, e), k, m)
         /\ \A k, m : Leads(l, k, m) => Leads(Append(l, e), k, m)
<1> DEFINE n == Append(l, e)
<1>1. n \in Seq(Event) /\ Len(n) = Len(l) + 1 /\ Len(l) \in Nat /\ n[Len(l) + 1] = e
      /\ \A i \in 1 .. Len(l) : n[i] = l[i]
  OBVIOUS
<1>2. 1 .. Len(n) = 1 .. Len(l) \cup {Len(l) + 1}
  BY <1>1
<1> HIDE DEF n
<1>3. KeysOf(n) = KeysOf(l) \cup {e.key}
  BY <1>1, <1>2 DEF KeysOf
<1>4. ASSUME NEW k, NEW m, Before(l, k, m), e.key = m => k \in KeysOf(l)  PROVE Before(n, k, m)
  <2> SUFFICES ASSUME NEW j \in 1 .. Len(n), n[j].key = m  PROVE \E i \in 1 .. j - 1 : n[i].key = k
    BY DEF Before
  <2>1. CASE j \in 1 .. Len(l)
    <3>1. PICK i \in 1 .. j - 1 : l[i].key = k
      BY <1>1, <1>4, <2>1 DEF Before
    <3>2. i \in 1 .. Len(l)
      BY <1>1, <2>1, <3>1
    <3> QED  BY <1>1, <3>1, <3>2
  <2>2. CASE j = Len(l) + 1
    <3>1. PICK i \in 1 .. Len(l) : l[i].key = k
      BY <1>1, <1>4, <2>2 DEF KeysOf
    <3>2. i \in 1 .. j - 1
      BY <1>1, <2>2, <3>1
    <3> QED  BY <1>1, <3>1, <3>2
  <2> QED  BY <1>2, <2>1, <2>2
<1> QED  BY <1>1, <1>3, <1>4 DEF Leads, n

\* Follow never leaves the keys that records name, and leads nowhere from no key.
LEMMA WalkedIn ==
  ASSUME NEW mv \in [Key -> Key \cup {0}], NEW st \in SUBSET Key, NEW k \in Key \cup {0},
         NEW C \in SUBSET Key, \A c \in Key : mv[c] # 0 => mv[c] \in C
  PROVE  /\ k \in C => Walked(mv, st, k) \in C
         /\ k = 0 => Walked(mv, st, k) = 0
<1>1. PICK f : IsWalk(f, Key \cup {0}, k, Onward(mv, st), MaxMoves) /\ Walked(mv, st, k) = f[MaxMoves]
  BY WalkedIs
<1>2. 0 \notin Key /\ MaxMoves \in Nat
  BY MaxMovesNat DEF Key
<1>3. \A c \in C : Onward(mv, st)[c] \in C
  BY <1>2 DEF Onward
<1>4. \A c \in {0} : Onward(mv, st)[c] \in {0}
  BY DEF Onward
<1> DEFINE go == Onward(mv, st)
           T == Key \cup {0}
<1> HIDE DEF go, T
<1>5. k \in C => f[MaxMoves] \in C
  BY <1>1, <1>2, <1>3, WalkStays DEF go, T
<1>6. k \in {0} => f[MaxMoves] \in {0}
  BY <1>1, <1>2, <1>4, WalkStays DEF go, T
<1> QED  BY <1>1, <1>5, <1>6

LEMMA InUseTyped ==
  ASSUME TypeOK
  PROVE  InUse = KeysOf(log) /\ InUse \in SUBSET Key /\ 0 \notin Key
<1>1. \A i \in 1 .. Len(log) : log[i] \in Event
  BY DEF TypeOK
<1> QED  BY <1>1 DEF InUse, KeysOf, Event, Key

LEMMA CurAlong ==
  ASSUME TypeOK, Forward
  PROVE  (linked = 0 => Cur = 0) /\ (linked # 0 => Cur \in InUse)
<1>1. Cur = Walked(moved, stored, linked)
  BY DEF Cur, Follow, Walked
<1>2. moved \in [Key -> Key \cup {0}] /\ stored \in SUBSET Key /\ linked \in Key \cup {0}
      /\ \A c \in Key : moved[c] # 0 => moved[c] \in InUse
  BY DEF TypeOK, Forward
<1>3. InUse \in SUBSET Key
  BY InUseTyped
<1>4. /\ linked \in InUse => Walked(moved, stored, linked) \in InUse
      /\ linked = 0 => Walked(moved, stored, linked) = 0
  BY <1>2, <1>3, WalkedIn
<1> QED  BY <1>1, <1>4 DEF Forward

-----------------------------------------------------------------------------
(* Position.                                                               *)

PosOf(l, k) ==
  LET at == {i \in 1 .. Len(l) : l[i].key = k}
  IN IF at = {} THEN 0 ELSE CHOOSE i \in at : \A j \in at : i <= j

LEMMA PosIs ==
  ASSUME NEW l \in Seq(Event), NEW k
  PROVE  /\ k \notin KeysOf(l) => PosOf(l, k) = 0
         /\ k \in KeysOf(l) => /\ PosOf(l, k) \in 1 .. Len(l) /\ l[PosOf(l, k)].key = k
                               /\ \A j \in 1 .. Len(l) : l[j].key = k => PosOf(l, k) <= j
<1> DEFINE at == {i \in 1 .. Len(l) : l[i].key = k}
<1>1. CASE k \notin KeysOf(l)
  BY <1>1 DEF KeysOf, PosOf
<1>2. CASE k \in KeysOf(l)
  <2>1. at # {} /\ at \in SUBSET Nat
    BY <1>2 DEF KeysOf
  <2> DEFINE least(i) == \A j \in at : i <= j
  <2>2. PICK m \in at : \A j \in at : ~(j < m)
    <3> HIDE DEF at
    <3> QED  BY <2>1, LeastNumber
  <2>3. m \in at /\ least(m)
    BY <2>1, <2>2
  <2>4. (CHOOSE i \in at : least(i)) \in at /\ least(CHOOSE i \in at : least(i))
    <3> HIDE DEF at, least
    <3> QED  BY <2>3
  <2>5. PosOf(l, k) = CHOOSE i \in at : least(i)
    BY <2>1 DEF PosOf
  <2> QED  BY <1>2, <2>4, <2>5
<1> QED  BY <1>1, <1>2

\* A log that grows by a key other than k, or has k already, leaves k where it was.
LEMMA PosStays ==
  ASSUME NEW l \in Seq(Event), NEW e \in Event, NEW k, k \in KeysOf(l) \/ k = 0
  PROVE  PosOf(Append(l, e), k) = PosOf(l, k)
<1> DEFINE n == Append(l, e)
<1>1. /\ n \in Seq(Event) /\ Len(n) = Len(l) + 1 /\ n[Len(l) + 1] = e
      /\ \A i \in 1 .. Len(l) : n[i] = l[i]
      /\ KeysOf(n) = KeysOf(l) \cup {e.key} /\ Len(l) \in Nat
  BY KeysAppend
<1> HIDE DEF n
<1>2. CASE k \in KeysOf(l)
  <2>1. /\ PosOf(l, k) \in 1 .. Len(l) /\ l[PosOf(l, k)].key = k
        /\ \A j \in 1 .. Len(l) : l[j].key = k => PosOf(l, k) <= j
    BY <1>2, PosIs
  <2>2. /\ PosOf(n, k) \in 1 .. Len(n) /\ n[PosOf(n, k)].key = k
        /\ \A j \in 1 .. Len(n) : n[j].key = k => PosOf(n, k) <= j
    BY <1>1, <1>2, PosIs
  <2>3. PosOf(n, k) <= PosOf(l, k)
    BY <1>1, <2>1, <2>2
  <2>4. PosOf(n, k) \in 1 .. Len(l)
    BY <1>1, <2>1, <2>2, <2>3
  <2>5. PosOf(l, k) <= PosOf(n, k)
    BY <1>1, <2>1, <2>2, <2>4
  <2> QED  BY <2>1, <2>3, <2>4, <2>5 DEF n
<1>3. CASE k = 0 /\ k \notin KeysOf(l)
  <2>1. e.key \in Key /\ 0 \notin Key
    BY DEF Event, Key
  <2>2. k \notin KeysOf(n)
    BY <1>1, <1>3, <2>1
  <2> QED  BY <1>1, <1>3, <2>2, PosIs DEF n
<1> QED  BY <1>2, <1>3

-----------------------------------------------------------------------------
(* The steps of KeyLog.                                                    *)

\* Wherever m stands in l, k stands there or before.
NotPast(l, k, m) == \A j \in 1 .. Len(l) : l[j].key = m => \E i \in 1 .. j : l[i].key = k

\* The files that say which key is the host's only ever say more.
FilesGrow ==
  /\ linked # 0 => linked' = linked
  /\ stored \subseteq stored'
  /\ \A k \in Key : moved[k] # 0 => moved'[k] = moved[k]

LEMMA HostLearns ==
  ASSUME TypeOK, TypeOK', Forward, Forward', log' = log, FilesGrow
  PROVE  Position' = Position \/ Position' \in {i \in 1 .. Len(log) : i > Position}
<1> DEFINE T == Key \cup {0}
           R == {x \in T \X T : NotPast(log, x[1], x[2])}
           go == Onward(moved, stored)
           on == Onward(moved', stored')
<1>0. /\ moved \in [Key -> T] /\ stored \in SUBSET Key /\ linked \in T
      /\ moved' \in [Key -> T] /\ stored' \in SUBSET Key /\ linked' \in T
      /\ log \in Seq(Event) /\ Len(log) \in Nat /\ 0 \notin Key
      /\ InUse = KeysOf(log) /\ InUse \in SUBSET Key /\ InUse' = InUse
  BY InUseTyped DEF TypeOK, InUse
<1>a. /\ moved \in [Key -> Key \cup {0}] /\ stored \in SUBSET Key /\ linked \in Key \cup {0}
      /\ moved' \in [Key -> Key \cup {0}] /\ stored' \in SUBSET Key
  BY <1>0
<1>1. /\ Cur = Walked(moved, stored, linked) /\ Cur' = Walked(moved', stored', linked')
      /\ Position = PosOf(log, Cur) /\ Position' = PosOf(log, Cur')
  BY DEF Cur, Follow, Walked, Position, PosOf
<1>2. (linked = 0 => Cur = 0) /\ (linked # 0 => Cur \in InUse)
  BY CurAlong
<1>3. (linked' = 0 => Cur' = 0) /\ (linked' # 0 => Cur' \in InUse)
  <2>1. \A c \in Key : moved'[c] # 0 => moved'[c] \in InUse
    BY <1>0 DEF Forward
  <2>2. /\ linked' \in InUse => Walked(moved', stored', linked') \in InUse
        /\ linked' = 0 => Walked(moved', stored', linked') = 0
    <3> HIDE DEF T
    <3> QED  BY <1>0, <2>1, WalkedIn DEF T
  <2>3. linked' \in InUse \cup {0}
    BY <1>0 DEF Forward
  <2> QED  BY <1>1, <2>2, <2>3
<1>4. CASE linked = 0
  <2>1. Position = 0
    BY <1>0, <1>1, <1>2, <1>4, PosIs
  <2>2. CASE linked' = 0
    BY <1>0, <1>1, <1>3, <2>1, <2>2, PosIs
  <2>3. CASE linked' # 0
    <3>1. PosOf(log, Cur') \in 1 .. Len(log)
      BY <1>0, <1>3, <2>3, PosIs
    <3> QED  BY <1>0, <1>1, <2>1, <3>1
  <2> QED  BY <2>2, <2>3
<1>5. CASE linked # 0
  <2>0. linked' = linked
    BY <1>5 DEF FilesGrow
  <2>1. go \in [T -> T] /\ on \in [T -> T]
    BY <1>0, WalkedIs
  <2>2. PICK f : IsWalk(f, T, linked, go, MaxMoves) /\ Cur = f[MaxMoves]
    <3>1. \E f : IsWalk(f, T, linked, go, MaxMoves) /\ Walked(moved, stored, linked) = f[MaxMoves]
      BY <1>a, WalkedIs, Zenon
    <3> QED  BY <1>1, <3>1, Zenon
  <2>3. PICK g : IsWalk(g, T, linked, on, MaxMoves) /\ Cur' = g[MaxMoves]
    <3>1. \E g : IsWalk(g, T, linked, on, MaxMoves) /\ Walked(moved', stored', linked) = g[MaxMoves]
      BY <1>a, WalkedIs, Zenon
    <3> QED  BY <1>1, <2>0, <3>1, Zenon
  <2>4. \A c \in T : <<c, c>> \in R
    BY <1>0 DEF NotPast
  <2>5. \A a, b, c \in T : <<a, b>> \in R /\ <<b, c>> \in R => <<a, c>> \in R
    <3> SUFFICES ASSUME NEW a \in T, NEW b \in T, NEW c \in T,
                        NotPast(log, a, b), NotPast(log, b, c)
                 PROVE  NotPast(log, a, c)
      OBVIOUS
    <3> SUFFICES ASSUME NEW j \in 1 .. Len(log), log[j].key = c
                 PROVE  \E i \in 1 .. j : log[i].key = a
      BY DEF NotPast
    <3>1. PICK m \in 1 .. j : log[m].key = b
      BY DEF NotPast
    <3>2. m \in 1 .. Len(log)
      BY <1>0
    <3>3. PICK i \in 1 .. m : log[i].key = a
      BY <3>1, <3>2 DEF NotPast
    <3>4. i \in 1 .. j
      OBVIOUS
    <3> QED  BY <3>3, <3>4
  <2>6. \A c \in T : on[c] = go[c] \/ go[c] = c
    <3> TAKE c \in T
    <3>1. CASE c # 0 /\ moved[c] \in stored
      <4>1. moved'[c] = moved[c] /\ moved'[c] \in stored'
        BY <1>0, <3>1 DEF FilesGrow
      <4> QED  BY <3>1, <4>1 DEF Onward
    <3>2. CASE ~(c # 0 /\ moved[c] \in stored)
      BY <3>2 DEF Onward
    <3> QED  BY <3>1, <3>2
  <2>7. \A c \in T : <<c, on[c]>> \in R
    <3> SUFFICES ASSUME NEW c \in T  PROVE NotPast(log, c, on[c])
      BY <2>1
    <3>1. CASE c # 0 /\ moved'[c] \in stored'
      <4>1. on[c] = moved'[c] /\ moved'[c] # 0
        BY <1>0, <3>1 DEF Onward
      <4>2. Before(log, c, moved'[c])
        BY <1>0, <3>1, <4>1 DEF Forward, Leads
      <4>3. \A j \in 1 .. Len(log) : log[j].key = moved'[c] => \E i \in 1 .. j : log[i].key = c
        BY <1>0, <4>2 DEF Before
      <4> QED  BY <4>1, <4>3 DEF NotPast
    <3>2. CASE ~(c # 0 /\ moved'[c] \in stored')
      <4>1. on[c] = c
        BY <3>2 DEF Onward
      <4> QED  BY <2>4, <4>1
    <3> QED  BY <3>1, <3>2
  <2>8. <<Cur, Cur'>> \in R
    <3>1. linked \in T
      BY <1>0
    <3> HIDE DEF T, R, go, on
    <3>2. <<f[MaxMoves], g[MaxMoves]>> \in R
      BY <2>1, <2>2, <2>3, <2>4, <2>5, <2>6, <2>7, <3>1, MaxMovesNat, WalksApart
    <3> QED  BY <2>2, <2>3, <3>2
  <2>9. NotPast(log, Cur, Cur') /\ Cur \in InUse /\ Cur' \in InUse
    BY <1>2, <1>3, <1>5, <2>0, <2>8
  <2>10. /\ Position \in 1 .. Len(log) /\ \A j \in 1 .. Len(log) : log[j].key = Cur => Position <= j
         /\ Position' \in 1 .. Len(log) /\ log[Position'].key = Cur'
    BY <1>0, <1>1, <2>9, PosIs
  <2>11. PICK i \in 1 .. Position' : log[i].key = Cur
    BY <2>9, <2>10 DEF NotPast
  <2> QED  BY <1>0, <2>10, <2>11
<1> QED  BY <1>4, <1>5

\* The key a step of the service adds.
Entered(e) ==
  \/ Last.next = 0 /\ e.key = Last.key
  \/ Last.next # 0 /\ e.key = Last.next
  \/ e.key \notin InUse

LEMMA LogSteps ==
  ASSUME IInv, NamedInv, PaceInv, [Next]_vars
  PROVE  \/ log' = log /\ FilesGrow
         \/ UNCHANGED files /\ \E e \in Event : log' = Append(log, e) /\ e.next # 0 /\ Entered(e)
<1>0. /\ stored \subseteq Key /\ 0 \notin Key /\ linked \in Key \cup {0} /\ moved \in [Key -> Key \cup {0}]
      /\ offer \in Event \cup {None} /\ nextOf \in [Key -> Key \cup {0}]
  BY DEF IInv, TypeOK, Key
<1>1. CASE UNCHANGED vars
  BY <1>1 DEF vars, files, FilesGrow
<1>2. CASE TakeEffect
  <2>1. offer \in Event /\ offer.next # 0 /\ offer.key \notin InUse
    BY <1>0, <1>2 DEF TakeEffect, IInv, OfferKept, NamedInv, Pending
  <2> QED  BY <1>2, <2>1 DEF TakeEffect, Appended, Entered
<1>3. ASSUME NEW r \in Run, Send(r) \/ SendCommit(r) \/ Ask(r)
      PROVE  \/ log' = log /\ FilesGrow
             \/ UNCHANGED files /\ \E e \in Event : log' = Append(log, e) /\ e.next # 0 /\ Entered(e)
  <2>1. PICK x \in Placed : x = run[r] /\ Sound(x)
    BY Mine
  <2>2. Paced(x)
    BY <2>1 DEF PaceInv, AllPaced
  <2>3. UNCHANGED files
    BY <1>3 DEF Send, SendCommit, Ask
  <2>4. CASE log' = log
    BY <2>3, <2>4 DEF files, FilesGrow
  <2>5. CASE Send(r) /\ log' # log
    <3> DEFINE e == [key |-> x.key, next |-> nextOf[x.key]]
    <3>1. x.key \in Key /\ nextOf[x.key] \in Key
      BY <1>0, <2>1, <2>5 DEF Send, At, Sound, Moving, Ready, Placed
    <3>2. log' = Append(log, e) /\ Last.next = e.key
      BY <2>1, <2>5, Zenon DEF Send, Appended
    <3>3. e \in Event /\ e.next # 0 /\ Entered(e)
      BY <1>0, <3>1, <3>2 DEF Event, Entered
    <3> HIDE DEF e
    <3> QED  BY <2>3, <3>2, <3>3
  <2>6. CASE SendCommit(r) /\ log' # log
    <3> DEFINE e == [key |-> x.cur, next |-> nextOf[x.cur]]
    <3>1. x.pc = "commit" /\ x.cur \in Key /\ nextOf[x.cur] \in Key
      BY <1>0, <2>1, <2>6 DEF SendCommit, At, Sound, Loaded, Placed
    <3>2. log' = Append(log, e) /\ Fits(x.base)
      BY <2>1, <2>6, Zenon DEF SendCommit, Appended
    <3>3. Last.key = x.cur /\ Last.next = 0
      BY <2>2, <3>1, <3>2 DEF Fits, Paced
    <3>4. e \in Event /\ e.next # 0 /\ Entered(e)
      BY <1>0, <3>1, <3>3 DEF Event, Entered
    <3> HIDE DEF e
    <3> QED  BY <2>3, <3>2, <3>4
  <2>7. CASE Ask(r) /\ log' # log
    <3> DEFINE e == [key |-> x.key, next |-> nextOf[x.key]]
    <3>1. x.key \in Key /\ nextOf[x.key] \in Key
      BY <1>0, <2>1, <2>7 DEF Ask, At, Sound, Moving, Ready, Placed
    <3>2. log' = Append(log, e) /\ e.key \notin {log[i].key : i \in 1 .. Len(log)}
      BY <2>1, <2>7, Zenon DEF Ask, Appended
    <3>3. e \in Event /\ e.next # 0 /\ Entered(e)
      BY <1>0, <3>1, <3>2 DEF Event, Entered, InUse
    <3> HIDE DEF e
    <3> QED  BY <2>3, <3>2, <3>3
  <2> QED  BY <1>3, <2>4, <2>5, <2>6, <2>7
<1>4. ASSUME NEW r \in Run, Pick(r) \/ RecordKey(r) \/ RecordMove(r) \/ Link(r)
      PROVE  log' = log /\ FilesGrow
  <2>1. run[r].cur \in Key \cup {0}
    BY Mine DEF Placed
  <2>2. CASE Pick(r) \/ RecordKey(r)
    BY <2>2 DEF Pick, RecordKey, FilesGrow
  <2>3. CASE RecordMove(r)
    BY <1>0, <2>1, <2>3 DEF RecordMove, FilesGrow
  <2>4. CASE Link(r)
    BY <2>4 DEF Link, FilesGrow
  <2> QED  BY <1>4, <2>2, <2>3, <2>4
<1>5. ASSUME NEW r \in Run,
             \/ \E j \in Job : Start(r, j)
             \/ \E n \in View : Read(r, n) \/ Reread(r, n) \/ ReadHead(r, n) \/ Prove(r, n) \/ CheckLog(r, n)
             \/ Keep(r) \/ Mark(r) \/ Seal(r) \/ Name(r) \/ KeepNext(r) \/ Finish(r) \/ Drop(r)
             \/ Cancel(r) \/ (\E k \in Key : Offer(r, k)) \/ Stop(r)
      PROVE  log' = log /\ FilesGrow
  <2>1. UNCHANGED <<log, linked, stored, moved>>
    BY <1>5, Zenon DEF Start, Read, Reread, ReadHead, Prove, CheckLog, Keep, Mark, Seal, Name, KeepNext, Finish,
       Drop, Cancel, Withdraw, Forget, Offer, Stop, files
  <2> QED  BY <2>1 DEF FilesGrow
<1> QED
  BY <1>1, <1>2, <1>3, <1>4, <1>5, Zenon DEF Next, Rotate, Record, CommitSealed, Recover, Connect

\* Every step is a step of KeyLog, or none.
LEMMA StepFollows ==
  ASSUME IInv, NamedInv, PaceInv, [Next]_vars, IInv', PaceInv'
  PROVE  [Abstract!Next]_<<log, Position>>
<1>0. /\ TypeOK /\ TypeOK' /\ Forward /\ Forward' /\ log \in Seq(Event)
      /\ InUse = KeysOf(log) /\ Last \in Event /\ 0 \notin Key
  BY InUseTyped, LastTyped DEF IInv, PaceInv, TypeOK
<1>1. CASE log' = log /\ FilesGrow
  <2>1. Position' = Position \/ Position' \in {i \in 1 .. Len(log) : i > Position}
    BY <1>0, <1>1, HostLearns
  <2>2. CASE Position' = Position
    BY <1>1, <2>2
  <2>3. CASE Position' \in {i \in 1 .. Len(log) : i > Position}
    <3>1. Abstract!Learn
      BY <1>1, <2>3 DEF Abstract!Learn
    <3> QED  BY <3>1 DEF Abstract!Next
  <2> QED  BY <2>1, <2>2, <2>3
<1>2. ASSUME UNCHANGED files, NEW e \in Event, log' = Append(log, e), e.next # 0, Entered(e)
      PROVE  Abstract!Next
  <2>1. Position' = Position
    <3>1. Cur' = Cur
      BY <1>2 DEF files, Cur, Follow
    <3>2. Position = PosOf(log, Cur) /\ Position' = PosOf(log', Cur')
      BY DEF Position, PosOf
    <3>3. Cur \in KeysOf(log) \/ Cur = 0
      BY <1>0, CurAlong
    <3> QED  BY <1>0, <1>2, <3>1, <3>2, <3>3, PosStays
  <2>2. e.next \in Key /\ e.key \in Key /\ e = [key |-> e.key, next |-> e.next]
    BY <1>2 DEF Event
  <2>3. CASE Last.next = 0 /\ e.key = Last.key
    <3>1. Abstract!Commit(e.next)
      BY <1>2, <2>1, <2>2, <2>3 DEF Abstract!Commit, Abstract!Last, Last
    <3> QED  BY <2>2, <3>1 DEF Abstract!Next
  <2>4. CASE Last.next # 0 /\ e.key = Last.next
    <3>1. Abstract!Rotate(e.next)
      BY <1>2, <2>1, <2>2, <2>4 DEF Abstract!Rotate, Abstract!Last, Last
    <3> QED  BY <2>2, <3>1 DEF Abstract!Next
  <2>5. CASE e.key \notin InUse
    <3>1. Abstract!Recover(e.key, e.next)
      BY <1>2, <2>1, <2>2, <2>5 DEF Abstract!Recover, Abstract!Used, InUse
    <3> QED  BY <2>2, <3>1 DEF Abstract!Next
  <2> QED  BY <1>2, <2>3, <2>4, <2>5 DEF Entered
<1> QED  BY <1>1, <1>2, LogSteps

-----------------------------------------------------------------------------
(* The invariant is kept.                                                  *)

LEMMA OnlyOne ==
  ASSUME NamedInv, OneOwner, NEW p \in Run, NEW q \in Run,
         run[p].pc \in Recovering \cup Withdrawing, run[q].pc \in Recovering \cup Withdrawing
  PROVE  p = q
<1>1. Course(p, run[p]) /\ Course(q, run[q])
  BY DEF NamedInv
<1>2. Jobs[p] \cap {"recover", "cancel"} # {} /\ Jobs[q] \cap {"recover", "cancel"} # {}
  BY <1>1 DEF Course, Recovering, Withdrawing
<1> QED  BY <1>2 DEF OneOwner

LEMMA LeadsNotItself ==
  ASSUME NEW l \in Seq(Event), NEW k
  PROVE  ~Leads(l, k, k)
<1> SUFFICES ASSUME k \in KeysOf(l), Before(l, k, k)  PROVE FALSE
  BY DEF Leads
<1>1. /\ PosOf(l, k) \in 1 .. Len(l) /\ l[PosOf(l, k)].key = k
      /\ \A j \in 1 .. Len(l) : l[j].key = k => PosOf(l, k) <= j
  BY PosIs
<1> DEFINE m == PosOf(l, k)
<1> HIDE DEF m
<1>2. PICK i \in 1 .. m - 1 : l[i].key = k
  BY <1>1 DEF Before, m
<1>3. i \in 1 .. Len(l) /\ ~(m <= i)
  BY <1>1, <1>2 DEF m
<1> QED  BY <1>1, <1>2, <1>3 DEF m

\* What changes when anything does: the log grows, next keys are kept, the handle is linked.
Grows ==
  /\ log' = log \/ \E e \in Event : log' = Append(log, e)
  /\ \A k \in Key : nextOf[k] # 0 => nextOf'[k] = nextOf[k]
  /\ \A k \in Range(nextOf') : k \in Range(nextOf) \/ k > minted
  /\ linked # 0 => linked' = linked

LEMMA LogGrown ==
  ASSUME TypeOK, Grows
  PROVE  /\ InUse \subseteq InUse' /\ \A k, m : Leads(log, k, m) => Leads(log', k, m)
         /\ log' = log \/ Len(log') = Len(log) + 1
         /\ Len(log) \in Nat
<1>1. log \in Seq(Event) /\ InUse = KeysOf(log) /\ InUse' = KeysOf(log')
  BY DEF TypeOK, InUse, KeysOf
<1>2. CASE log' = log
  BY <1>1, <1>2
<1>3. ASSUME NEW e \in Event, log' = Append(log, e)
      PROVE  /\ InUse \subseteq InUse' /\ \A k, m : Leads(log, k, m) => Leads(log', k, m)
             /\ Len(log') = Len(log) + 1
  BY <1>1, <1>3, KeysAppend
<1> QED  BY <1>1, <1>2, <1>3 DEF Grows

\* What is said of a run stays true while others go on.
LEMMA PacedStays ==
  ASSUME IInv, NEW x \in Placed, Sound(x), Paced(x), Grows,
         (linked' = linked /\ pointer'[0] = pointer[0]) \/ x.pc \notin {"pick", "link"} \cup Asking
  PROVE  Paced(x)'
<1>1. /\ InUse \subseteq InUse' /\ \A k, m : Leads(log, k, m) => Leads(log', k, m)
      /\ log' = log \/ Len(log') = Len(log) + 1
      /\ Len(log) \in Nat /\ 0 \notin Key
      /\ x.cur \in Key \cup {0} /\ x.key \in Key \cup {0} /\ x.base \in 0 .. MaxLen
  BY LogGrown DEF IInv, Placed, Key
<1>2. x.cur # 0 => x.cur \in InUse' /\ linked' # 0
  BY <1>1 DEF Paced, Grows
<1>3. x.pc \in {"keep", "mark", "send"} => x.key = nextOf'[x.cur]
  BY <1>1 DEF Paced, Sound, Moving, Loaded, Grows
<1>4. x.pc \in Asking => x.key \notin Range(nextOf')
  <2> SUFFICES ASSUME x.pc \in Asking  PROVE x.key \notin Range(nextOf')
    OBVIOUS
  <2>1. x.key \notin Range(nextOf) /\ x.key \in Held
    BY DEF Paced, Sound, Asking, Moving
  <2>2. x.key <= minted /\ x.key \in Nat /\ minted \in Nat
    BY <1>1, <2>1 DEF IInv, Minted, TypeOK, Key
  <2> QED  BY <2>1, <2>2 DEF Grows
<1>5. x.pc \in {"seal", "commit"} =>
        x.base \in 1 .. Len(log') /\ (x.base = Len(log') => Last'.key = x.cur /\ Last'.next = 0)
  <2>1. CASE log' = log
    BY <2>1 DEF Paced, Last
  <2>2. CASE Len(log') = Len(log) + 1
    BY <1>1, <2>2 DEF Paced
  <2> QED  BY <1>1, <2>1, <2>2
<1>6. /\ x.pc \in {"log", "pem", "move"} => Leads(log', x.cur, x.key)
      /\ x.pc \in {"pem", "move"} => x.key \in InUse'
      /\ x.pc \in Asking /\ x.cur # 0 => Leads(log', x.cur, x.key)
      /\ x.pc \in {"pick", "link"} \cup Asking => x.look = 0
      /\ x.pc \in {"pick", "link"} \cup Asking /\ x.cur = 0 => linked' = 0
      /\ x.pc \in {"next", "head", "ask", "link"} /\ x.cur = 0 => pointer'[0] = x.key
      /\ x.pc = "link" => x.cur = 0
  BY <1>1 DEF Paced, Asking
<1> QED  BY <1>2, <1>3, <1>4, <1>5, <1>6 DEF Paced

\* A step of the run r.
LEMMA TurnPaces ==
  ASSUME IInv, NamedInv, OneOwner, PaceInv, NEW r \in Run, NEW y \in Placed, y = run[r],
         NEW x \in Placed, run' = [run EXCEPT ![r] = x], Paced(x)', Grows,
         (linked' = linked /\ pointer'[0] = pointer[0]) \/ y.pc \in Recovering \cup Withdrawing,
         Forward', Cleared'
  PROVE  PaceInv'
<1> SUFFICES ASSUME NEW p \in Run, NEW z \in Placed, run'[p] = z  PROVE Paced(z)'
  BY DEF PaceInv, AllPaced
<1>0. run \in [Run -> Placed]
  BY DEF IInv, TypeOK, Placed
<1>1. CASE p = r
  <2>1. z = x
    BY <1>0, <1>1
  <2> QED  BY <2>1
<1>2. CASE p # r
  <2>1. run[p] = z
    BY <1>0, <1>2
  <2>2. Sound(z) /\ Paced(z)
    BY <2>1 DEF IInv, AllSound, PaceInv, AllPaced
  <2>3. (linked' = linked /\ pointer'[0] = pointer[0]) \/ z.pc \notin {"pick", "link"} \cup Asking
    BY <1>2, <2>1, OnlyOne DEF Asking, Recovering
  <2> QED  BY <2>2, <2>3, PacedStays
<1> QED  BY <1>1, <1>2

\* Unless it is the recovery that has still to drop the handle's pointer.
LEMMA ClearedTurn ==
  ASSUME TypeOK, Cleared, NEW r \in Run, NEW y \in Placed, y = run[r],
         NEW x \in Placed, run' = [run EXCEPT ![r] = x],
         linked' = linked, pointer'[0] = pointer[0], Dropping(y) => Dropping(x)'
  PROVE  Cleared'
<1> SUFFICES ASSUME linked # 0, pointer[0] # 0  PROVE \E p \in Run : Dropping(run[p])'
  BY DEF Cleared
<1>1. PICK p \in Run : Dropping(run[p])
  BY DEF Cleared
<1>2. run \in [Run -> Placed]
  BY DEF TypeOK, Placed
<1>3. CASE p = r
  <2>1. Dropping(y)
    BY <1>1, <1>3
  <2>2. Dropping(x)' /\ run'[r] = x
    BY <1>2, <2>1
  <2> QED  BY <2>2 DEF Dropping
<1>4. CASE p # r
  <2>1. run'[p] = run[p]
    BY <1>2, <1>4
  <2> QED  BY <1>1, <2>1 DEF Dropping
<1> QED  BY <1>3, <1>4

\* A step that changes at most what a run knows, and which keys are stored.
LEMMA QuietPaces ==
  ASSUME IInv, NamedInv, OneOwner, PaceInv, NEW r \in Run, NEW y \in Placed, y = run[r],
         NEW x \in Placed, run' = [run EXCEPT ![r] = x], Paced(x),
         UNCHANGED <<log, minted, linked, nextOf, moved, pointer>>, Dropping(y) => Dropping(x)
  PROVE  PaceInv'
<1>1. InUse' = InUse /\ Last' = Last
  BY DEF InUse, Last
<1>2. Paced(x)'
  BY <1>1 DEF Paced
<1>3. Forward'
  BY <1>1 DEF PaceInv, Forward
<1>4. Cleared'
  BY ClearedTurn DEF PaceInv, IInv, Dropping
<1>5. Grows
  BY DEF Grows
<1> QED  BY <1>2, <1>3, <1>4, <1>5, TurnPaces

LEMMA RestPaced == Rest \in Placed /\ Paced(Rest) /\ Paced(Rest)'
<1>1. Rest.cur = 0 /\ Rest.pc = "idle"
  BY DEF Rest
<1> QED  BY <1>1, RestSound DEF Paced, Asking

LEMMA EndsPaces ==
  ASSUME IInv, NamedInv, OneOwner, PaceInv, NEW r \in Run, Ends(r), ~Dropping(run[r]),
         UNCHANGED <<log, minted, linked, nextOf, moved, pointer>>
  PROVE  PaceInv'
<1>1. PICK y \in Placed : y = run[r]
  BY Mine
<1> QED  BY <1>1, RestPaced, QuietPaces DEF Ends

\* The service takes a statement.
LEMMA ForwardAppend ==
  ASSUME IInv, Forward, NEW e \in Event, log' = Append(log, e), UNCHANGED files, e.key \in Held,
         \A c \in Key : nextOf[c] = e.key => c \in InUse
  PROVE  Forward'
<1>1. /\ log \in Seq(Event) /\ InUse = KeysOf(log) /\ InUse' = KeysOf(log') /\ InUse' = InUse \cup {e.key}
      /\ \A k, m : Before(log, k, m) /\ (e.key = m => k \in KeysOf(log)) => Before(log', k, m)
      /\ \A k, m : Leads(log, k, m) => Leads(log', k, m)
  <2>1. log \in Seq(Event) /\ InUse = KeysOf(log) /\ InUse' = KeysOf(log')
    BY DEF IInv, TypeOK, InUse, KeysOf
  <2> QED  BY <2>1, KeysAppend
<1>2. \A c \in Key : nextOf[c] # 0 => Before(log', c, nextOf[c])
  BY <1>1 DEF Forward
<1>3. \A k \in InUse' : k <= minted
  BY <1>1 DEF Forward, IInv, Minted
<1> QED  BY <1>1, <1>2, <1>3 DEF Forward, files

LEMMA AppendPaces ==
  ASSUME IInv, NamedInv, OneOwner, PaceInv, NEW r \in Run, NEW y \in Placed, y = run[r],
         NEW x \in Placed, run' = [run EXCEPT ![r] = x],
         NEW e \in Event, log' = Append(log, e), UNCHANGED files, e.key \in Held,
         \A c \in Key : nextOf[c] = e.key => c \in InUse,
         Dropping(y) => Dropping(x),
         Paced(y)' /\ Forward' /\ e.key \in InUse' => Paced(x)'
  PROVE  PaceInv'
<1>1. Forward'
  BY ForwardAppend DEF PaceInv
<1>2. Grows
  BY DEF Grows, files
<1>3. Sound(y) /\ Paced(y)
  BY DEF IInv, AllSound, PaceInv, AllPaced
<1>4. Paced(y)'
  BY <1>2, <1>3, PacedStays DEF files
<1>5. e.key \in InUse'
  <2>1. log \in Seq(Event) /\ InUse' = KeysOf(log')
    BY DEF IInv, TypeOK, InUse, KeysOf
  <2> QED  BY <2>1, KeysAppend
<1>6. Cleared'
  BY ClearedTurn DEF PaceInv, IInv, Dropping, files
<1> QED  BY <1>1, <1>2, <1>4, <1>5, <1>6, TurnPaces DEF files

\* A next key that is minted is in no log, behind no pointer and after one key only.
LEMMA ForwardEnsured ==
  ASSUME IInv, NamedInv, Forward, NEW k \in Key, EnsureNext(k), UNCHANGED <<log, linked, stored, moved, pointer>>
  PROVE  Forward' /\ Grows
<1>0. /\ nextOf \in [Key -> Key \cup {0}] /\ minted \in Nat /\ minted \in Key /\ 0 \notin Key
      /\ \A j \in Key : j \in Nat
      /\ InUse' = InUse
  BY DEF IInv, TypeOK, Key, InUse
<1>1. CASE UNCHANGED <<minted, nextOf>>
  BY <1>0, <1>1 DEF Forward, Grows
<1>2. CASE minted' = minted + 1 /\ nextOf' = [nextOf EXCEPT ![k] = minted + 1]
  <2>1. \A c \in Key : nextOf'[c] = IF c = k THEN minted + 1 ELSE nextOf[c]
    BY <1>0, <1>2
  <2>2. \A c \in Key : nextOf[c] # 0 => nextOf[c] <= minted /\ nextOf[c] \in Nat
    BY <1>0 DEF IInv, Minted, Held, Range
  <2>3. Range(nextOf') \subseteq Range(nextOf) \cup {minted + 1}
    BY <1>0, <1>2 DEF Range
  <2>4. nextOf[k] # 0 => UNCHANGED nextOf
    BY DEF EnsureNext
  <2>5. Grows
    <3>1. \A j \in Key : nextOf[j] # 0 => nextOf'[j] = nextOf[j]
      BY <2>1, <2>4
    <3>2. minted + 1 > minted
      BY <1>0
    <3> QED  BY <2>3, <3>1, <3>2 DEF Grows
  <2>6. \A j \in InUse : j <= minted /\ j \in Nat
    BY <1>0, InUseTyped DEF Forward, IInv
  <2>7. \A c \in Key : nextOf'[c] # 0 => Before(log, c, nextOf'[c])
    <3> SUFFICES ASSUME NEW c \in Key, nextOf'[c] # 0  PROVE Before(log, c, nextOf'[c])
      OBVIOUS
    <3>1. CASE c # k
      BY <2>1, <3>1 DEF Forward
    <3>2. CASE c = k
      <4>1. minted + 1 \notin InUse
        BY <1>0, <2>6
      <4> QED  BY <2>1, <3>2, <4>1 DEF Before, InUse
    <3> QED  BY <3>1, <3>2
  <2>8. \A a, b \in Key : nextOf'[a] # 0 /\ nextOf'[a] = nextOf'[b] => a = b
    <3> SUFFICES ASSUME NEW a \in Key, NEW b \in Key, nextOf'[a] # 0, nextOf'[a] = nextOf'[b]  PROVE a = b
      OBVIOUS
    <3>1. nextOf[a] # minted + 1 /\ nextOf[b] # minted + 1
      BY <1>0, <2>2
    <3>2. CASE a # k /\ b # k
      BY <2>1, <3>2 DEF Forward
    <3> QED  BY <2>1, <3>1, <3>2
  <2>9. \A j \in Range(pointer) : j # 0 => j \notin Range(nextOf')
    <3> SUFFICES ASSUME NEW j \in Range(pointer), j # 0  PROVE j \notin Range(nextOf')
      OBVIOUS
    <3>1. j \in Held /\ j \in Key
      BY DEF NamedInv, NamesStored, Held, IInv, TypeOK
    <3>2. j # minted + 1
      BY <1>0, <3>1 DEF IInv, Minted
    <3> QED  BY <2>3, <3>2 DEF Forward
  <2>10. \A j \in InUse : j <= minted'
    BY <1>0, <1>2, <2>6
  <2> QED  BY <1>0, <2>5, <2>7, <2>8, <2>9, <2>10 DEF Forward
<1> QED  BY <1>1, <1>2 DEF EnsureNext

LEMMA EnsurePaces ==
  ASSUME IInv, NamedInv, OneOwner, PaceInv, NEW r \in Run, Keep(r) \/ KeepNext(r) \/ Seal(r)
  PROVE  PaceInv'
<1>1. PICK y \in Placed : y = run[r] /\ Sound(y)
  BY Mine
<1>2. Paced(y)
  BY <1>1 DEF PaceInv, AllPaced
<1>3. /\ UNCHANGED <<log, linked, stored, moved, pointer>>
      /\ \E k \in Key : EnsureNext(k)
  BY <1>1 DEF Keep, KeepNext, Seal, At, Sound, Moving, Loaded, Placed
<1>4. Forward' /\ Grows
  BY <1>3, ForwardEnsured DEF PaceInv
<1>5. Paced(y)'
  BY <1>1, <1>2, <1>3, <1>4, PacedStays
<1>6. ASSUME NEW pc \in PC, Goto(r, pc),
             \/ y.pc = "keep" /\ pc = "mark"
             \/ y.pc = "next" /\ pc = "head"
             \/ y.pc = "seal" /\ pc = "commit"
      PROVE  PaceInv'
  <2> DEFINE x == [y EXCEPT !.pc = pc]
  <2>1. /\ x \in Placed /\ x.pc = pc /\ x.cur = y.cur /\ x.key = y.key /\ x.base = y.base /\ x.look = y.look
        /\ run' = [run EXCEPT ![r] = x]
    BY <1>1, <1>6 DEF Placed, Goto
  <2> HIDE DEF x
  <2>2. Paced(x)' /\ ~Dropping(y)
    BY <1>5, <1>6, <2>1 DEF Paced, Asking, Dropping
  <2>3. Cleared'
    BY <1>1, <1>3, <2>1, <2>2, ClearedTurn DEF PaceInv, IInv
  <2> QED  BY <1>1, <1>3, <1>4, <2>1, <2>2, <2>3, TurnPaces
<1> QED  BY <1>1, <1>6 DEF Keep, KeepNext, Seal, At, PC

-----------------------------------------------------------------------------
(* Its actions.                                                            *)

LEMMA StartPaces ==
  ASSUME IInv, NamedInv, OneOwner, PaceInv, NEW r \in Run, NEW j \in Job, Start(r, j)
  PROVE  PaceInv'
<1>1. PICK y \in Placed : y = run[r]
  BY Mine
<1> DEFINE x == [Rest EXCEPT !.pc = First[j], !.job = j, !.cur = Cur]
<1>2. Cur \in Key \cup {0} /\ (linked = 0 => Cur = 0) /\ (linked # 0 => Cur \in InUse) /\ 0 \notin InUse
  BY CurIn, CurAlong, InUseTyped DEF IInv, PaceInv
<1>3. First[j] \in {"read", "pick", "withdraw", "prove"}
  BY DEF First, Job
<1>4. /\ x.pc = First[j] /\ x.cur = Cur /\ x.look = 0 /\ run' = [run EXCEPT ![r] = x]
      /\ x \in Placed
  <2>1. x.pc = First[j] /\ x.cur = Cur /\ x.look = 0
    BY DEF Rest
  <2>2. run' = [run EXCEPT ![r] = x]
    BY DEF Start
  <2>3. x \in Placed
    <3>1. First[j] \in PC
      BY <1>3 DEF PC
    <3> QED  BY <1>2, <3>1, RestSound DEF Placed
  <2> QED  BY <2>1, <2>2, <2>3
<1> HIDE DEF x
<1>5. Paced(x) /\ ~Dropping(y)
  BY <1>1, <1>2, <1>3, <1>4 DEF Paced, Asking, Dropping, Start
<1> QED  BY <1>1, <1>4, <1>5, QuietPaces DEF Start, files

LEMMA StopPaces ==
  ASSUME IInv, NamedInv, OneOwner, {"finish", "drop"} \subseteq Spared, PaceInv, NEW r \in Run, Stop(r)
  PROVE  PaceInv'
BY EndsPaces DEF Stop, Dropping, files

LEMMA ReadPaces ==
  ASSUME IInv, NamedInv, OneOwner, PaceInv, NEW r \in Run, NEW n \in View, Read(r, n)
  PROVE  PaceInv'
<1>1. PICK y \in Placed : y = run[r] /\ Sound(y)
  BY Mine
<1>2. y.pc = "read" /\ UNCHANGED <<log, offer, files>> /\ Paced(y)
  BY <1>1 DEF Read, At, PaceInv, AllPaced
<1>3. n \in 1 .. Len(log) /\ Len(log) \in 1 .. MaxLen /\ y.cur \in Key /\ nextOf \in [Key -> Key \cup {0}]
  BY <1>1, <1>2, LastTyped DEF View, IInv, TypeOK, Sound, Loaded, Placed
<1> DEFINE next == nextOf[y.cur]
           landed == next # 0 /\ log[n].key = next /\ n > 1
           base == IF landed THEN n - 1 ELSE n
           x(pc) == [y EXCEPT !.pc = pc, !.key = next, !.base = base, !.landed = landed]
<1>4. base \in 1 .. Len(log) /\ base \in 0 .. MaxLen /\ landed \in BOOLEAN /\ (landed => base < Len(log))
  BY <1>3, KeyAssumption
<1>5. \/ Ends(r)
      \/ run' = [run EXCEPT ![r] = x("keep")]
      \/ run' = [run EXCEPT ![r] = x("seal")] /\ (landed \/ log[base].key = y.cur) /\ log[base].next = 0
  BY <1>1 DEF Read
<1>6. CASE Ends(r)
  BY <1>1, <1>2, <1>6, EndsPaces DEF Dropping, files
<1>7. \A pc \in PC : /\ x(pc) \in Placed /\ x(pc).pc = pc /\ x(pc).cur = y.cur
                     /\ x(pc).key = next /\ x(pc).base = base /\ x(pc).look = y.look
  <2>1. next \in Key \cup {0}
    BY <1>3
  <2> HIDE DEF next, base, landed
  <2> QED  BY <1>4, <2>1 DEF Placed
<1>8. CASE run' = [run EXCEPT ![r] = x("keep")]
  <2>1. x("keep") \in Placed /\ Paced(x("keep")) /\ ~Dropping(y)
    <3> HIDE DEF x
    <3>1. "keep" \in PC
      BY DEF PC
    <3> QED  BY <1>2, <1>7, <3>1 DEF Paced, Asking, Dropping
  <2> HIDE DEF x
  <2> QED  BY <1>1, <1>2, <1>8, <2>1, QuietPaces DEF files
<1>9. CASE run' = [run EXCEPT ![r] = x("seal")] /\ (landed \/ log[base].key = y.cur) /\ log[base].next = 0
  <2>1. x("seal") \in Placed /\ Paced(x("seal")) /\ ~Dropping(y)
    <3>1. "seal" \in PC
      BY DEF PC
    <3>2. base = Len(log) => Last.key = y.cur /\ Last.next = 0
      BY <1>3, <1>4, <1>9 DEF Last
    <3> HIDE DEF x, base, landed, next
    <3> QED  BY <1>2, <1>4, <1>7, <3>1, <3>2 DEF Paced, Asking, Dropping
  <2> HIDE DEF x
  <2> QED  BY <1>1, <1>2, <1>9, <2>1, QuietPaces DEF files
<1> QED  BY <1>5, <1>6, <1>8, <1>9

\* A run that goes on from where it is, and knows what it knew.
LEMMA GotoPaces ==
  ASSUME IInv, NamedInv, OneOwner, PaceInv, NEW r \in Run, NEW pc \in PC, Goto(r, pc),
         \/ run[r].pc = "mark" /\ pc = "send"
         \/ run[r].pc = "pem" /\ pc = "move"
         \/ run[r].pc = "prove" /\ pc = "offer"
         \/ run[r].pc = "withdraw" /\ pc = "forget"
         \/ run[r].pc = "commit" /\ pc = "reread"
         \/ run[r].pc = "finish" /\ pc = "drop"
         \/ run[r].pc = "log" /\ pc = "pem" /\ run[r].key \in InUse,
         UNCHANGED <<log, minted, linked, nextOf, moved, pointer>>
  PROVE  PaceInv'
<1>1. PICK y \in Placed : y = run[r] /\ Sound(y)
  BY Mine
<1>2. Paced(y)
  BY <1>1 DEF PaceInv, AllPaced
<1> DEFINE x == [y EXCEPT !.pc = pc]
<1>3. /\ x \in Placed /\ x.pc = pc /\ x.cur = y.cur /\ x.key = y.key /\ x.base = y.base /\ x.look = y.look
      /\ run' = [run EXCEPT ![r] = x]
  BY <1>1 DEF Placed, Goto
<1> HIDE DEF x
<1>4. Paced(x) /\ (Dropping(y) => Dropping(x))
  BY <1>1, <1>2, <1>3 DEF Paced, Asking, Dropping
<1> QED  BY <1>1, <1>3, <1>4, QuietPaces

\* A run's second attempt.
LEMMA AgainPaces ==
  ASSUME IInv, NamedInv, OneOwner, PaceInv, NEW r \in Run, run[r].pc \notin {"finish", "drop"},
         run' = [run EXCEPT ![r] = [@ EXCEPT !.pc = "read", !.tries = 1]],
         UNCHANGED <<log, minted, linked, nextOf, moved, pointer>>
  PROVE  PaceInv'
<1>1. PICK y \in Placed : y = run[r] /\ Sound(y)
  BY Mine
<1>2. Paced(y)
  BY <1>1 DEF PaceInv, AllPaced
<1> DEFINE x == [y EXCEPT !.pc = "read", !.tries = 1]
<1>3. x \in Placed /\ x.pc = "read" /\ x.cur = y.cur /\ run' = [run EXCEPT ![r] = x]
  <2>1. x \in Placed
    <3>1. "read" \in PC
      BY DEF PC
    <3> QED  BY <3>1, AttemptTyped
  <2>2. x.pc = "read" /\ x.cur = y.cur
    BY DEF Placed
  <2> QED  BY <1>1, <2>1, <2>2
<1> HIDE DEF x
<1>4. Paced(x) /\ ~Dropping(y)
  BY <1>1, <1>2, <1>3 DEF Paced, Asking, Dropping
<1> QED  BY <1>1, <1>3, <1>4, QuietPaces

LEMMA SendPaces ==
  ASSUME IInv, NamedInv, OneOwner, PaceInv, NEW r \in Run, Send(r)
  PROVE  PaceInv'
<1>1. PICK y \in Placed : y = run[r] /\ Sound(y)
  BY Mine
<1>2. y.pc = "send" /\ UNCHANGED files /\ Paced(y)
  BY <1>1 DEF Send, At, PaceInv, AllPaced
<1> DEFINE e == [key |-> y.key, next |-> nextOf[y.key]]
           x == [y EXCEPT !.pc = "pem"]
<1>3. y.key \in Key /\ nextOf[y.key] \in Key /\ y.key \in Held /\ y.cur \in Key /\ y.cur \in InUse
      /\ y.key = nextOf[y.cur] /\ 0 \notin Key
  BY <1>1, <1>2 DEF IInv, TypeOK, Placed, Sound, Loaded, Moving, Ready, Paced, Key
<1>4. e \in Event /\ e.key = y.key
  BY <1>3 DEF Event
<1>5. /\ x \in Placed /\ x.pc = "pem" /\ x.cur = y.cur /\ x.key = y.key /\ x.look = y.look
  BY DEF Placed, PC
<1>6. \/ run' = [run EXCEPT ![r] = x] /\ log' = log /\ Last.key = y.key
      \/ run' = [run EXCEPT ![r] = [@ EXCEPT !.pc = "read", !.tries = 1]] /\ log' = log
      \/ Ends(r) /\ log' = log
      \/ run' = [run EXCEPT ![r] = x] /\ log' = Append(log, e)
  BY <1>1, <1>4 DEF Send, Goto, Appended
<1> HIDE DEF e, x
<1>7. CASE run' = [run EXCEPT ![r] = x] /\ log' = log /\ Last.key = y.key
  <2>1. y.key \in InUse
    BY <1>7, LastTyped DEF InUse, Last, IInv
  <2>2. Before(log, y.cur, y.key)
    BY <1>3 DEF PaceInv, Forward
  <2>3. Leads(log, y.cur, y.key)
    BY <1>3, <2>2 DEF Leads, InUse, KeysOf
  <2>4. Paced(x) /\ ~Dropping(y)
    BY <1>2, <1>5, <2>1, <2>3 DEF Paced, Asking, Dropping
  <2> QED  BY <1>1, <1>2, <1>5, <1>7, <2>4, QuietPaces DEF files
<1>8. CASE run' = [run EXCEPT ![r] = [@ EXCEPT !.pc = "read", !.tries = 1]] /\ log' = log
  BY <1>1, <1>2, <1>8, AgainPaces DEF files
<1>9. CASE Ends(r) /\ log' = log
  BY <1>1, <1>2, <1>9, EndsPaces DEF files, Dropping
<1>10. CASE run' = [run EXCEPT ![r] = x] /\ log' = Append(log, e)
  <2>1. \A c \in Key : nextOf[c] = e.key => c \in InUse
    BY <1>3, <1>4 DEF PaceInv, Forward
  <2>2. Paced(y)' /\ Forward' /\ e.key \in InUse' => Paced(x)'
    <3> SUFFICES ASSUME Paced(y)', Forward', e.key \in InUse'  PROVE Paced(x)'
      OBVIOUS
    <3>1. Before(log', y.cur, y.key)
      BY <1>2, <1>3 DEF Forward, files
    <3>2. y.cur \in InUse' /\ InUse' = KeysOf(log') /\ linked' # 0
      BY <1>3 DEF Paced, InUse, KeysOf
    <3>3. Leads(log', y.cur, y.key)
      BY <3>1, <3>2 DEF Leads
    <3> QED  BY <1>4, <1>5, <3>2, <3>3 DEF Paced, Asking
  <2>3. ~Dropping(y)
    BY <1>2 DEF Dropping
  <2> QED  BY <1>1, <1>2, <1>3, <1>4, <1>5, <1>10, <2>1, <2>2, <2>3, AppendPaces
<1> QED  BY <1>6, <1>7, <1>8, <1>9, <1>10

\* A run on the one that may drop the handle's pointer, and is not about to.
LEMMA NoneDrops ==
  ASSUME NamedInv, OneOwner, Cleared, NEW r \in Run, run[r].pc \in Recovering \cup Withdrawing,
         ~Dropping(run[r])
  PROVE  linked = 0 \/ pointer[0] = 0
<1> SUFFICES ASSUME linked # 0, pointer[0] # 0  PROVE FALSE
  OBVIOUS
<1>1. PICK p \in Run : Dropping(run[p])
  BY DEF Cleared
<1>2. p = r
  BY <1>1, OnlyOne DEF Dropping, Recovering
<1> QED  BY <1>1, <1>2

LEMMA RecordPaces ==
  ASSUME IInv, NamedInv, OneOwner, PaceInv, NEW r \in Run, Mark(r) \/ Record(r)
  PROVE  PaceInv'
<1>1. PICK y \in Placed : y = run[r] /\ Sound(y)
  BY Mine
<1>2. Paced(y)
  BY <1>1 DEF PaceInv, AllPaced
<1>3. CASE Mark(r) \/ RecordKey(r)
  BY <1>3, GotoPaces DEF Mark, RecordKey, At, PC
<1>4. CASE RecordMove(r)
  <2> DEFINE x == [y EXCEPT !.pc = "finish"]
  <2>1. /\ y.pc = "move" /\ y.cur \in Key /\ y.key \in InUse /\ Leads(log, y.cur, y.key)
        /\ moved \in [Key -> Key \cup {0}]
    BY <1>1, <1>2, <1>4 DEF RecordMove, At, Sound, Loaded, Placed, Paced, IInv, TypeOK
  <2>2. UNCHANGED <<log, minted, linked, nextOf, pointer>> /\ InUse' = InUse
    BY <1>4 DEF RecordMove, InUse
  <2>3. \A k \in Key : moved'[k] = moved[k] \/ (k = y.cur /\ moved'[k] = y.key)
    BY <1>1, <1>4, <2>1 DEF RecordMove
  <2>4. Forward'
    BY <2>1, <2>2, <2>3 DEF PaceInv, Forward
  <2>5. Grows
    BY <2>2 DEF Grows
  <2>6. x \in Placed /\ x.pc = "finish" /\ x.cur = y.cur
    BY DEF Placed, PC
  <2>7. run' = [run EXCEPT ![r] = x] \/ Ends(r)
    BY <1>1, <1>4 DEF RecordMove, Goto
  <2> HIDE DEF x
  <2>8. Paced(x)' /\ ~Dropping(y)
    BY <1>2, <2>1, <2>2, <2>6 DEF Paced, Asking, Dropping
  <2>9. ASSUME NEW z \in Placed, run' = [run EXCEPT ![r] = z], Paced(z)'  PROVE PaceInv'
    <3>1. Cleared'
      BY <1>1, <2>2, <2>8, <2>9, ClearedTurn DEF PaceInv, IInv
    <3> QED  BY <1>1, <2>2, <2>4, <2>5, <2>9, <3>1, TurnPaces
  <2> QED  BY <2>6, <2>7, <2>8, <2>9, RestPaced DEF Ends
<1> QED  BY <1>3, <1>4 DEF Record

LEMMA CommittedPaces ==
  ASSUME IInv, NamedInv, OneOwner, PaceInv, NEW r \in Run, Committed(r), run[r].pc \in {"commit", "reread"},
         UNCHANGED <<log, minted, linked, nextOf, moved, pointer>>
  PROVE  PaceInv'
<1>1. CASE Ends(r)
  BY <1>1, EndsPaces DEF Dropping
<1>2. CASE run' = [run EXCEPT ![r] = [@ EXCEPT !.pc = "read", !.tries = 1]]
  BY <1>2, AgainPaces
<1> QED  BY <1>1, <1>2 DEF Committed

LEMMA SendCommitPaces ==
  ASSUME IInv, NamedInv, OneOwner, PaceInv, NEW r \in Run, SendCommit(r)
  PROVE  PaceInv'
<1>1. PICK y \in Placed : y = run[r] /\ Sound(y)
  BY Mine
<1>2. y.pc = "commit" /\ UNCHANGED files /\ Paced(y)
  BY <1>1 DEF SendCommit, At, PaceInv, AllPaced
<1> DEFINE e == [key |-> y.cur, next |-> nextOf[y.cur]]
<1>3. y.cur \in Key /\ nextOf[y.cur] \in Key /\ y.cur \in Held /\ y.cur \in InUse /\ 0 \notin Key
  BY <1>1, <1>2 DEF IInv, TypeOK, Placed, Sound, Loaded, Paced, Key
<1>4. e \in Event /\ e.key = y.cur
  BY <1>3 DEF Event
<1>5. \/ Committed(r) /\ UNCHANGED log
      \/ Committed(r) /\ log' = Append(log, e)
      \/ Goto(r, "reread") /\ UNCHANGED log
      \/ Ends(r) /\ UNCHANGED log
  BY <1>1, Zenon DEF SendCommit, Appended
<1> HIDE DEF e
<1>6. CASE Committed(r) /\ UNCHANGED log
  BY <1>1, <1>2, <1>6, CommittedPaces DEF files
<1>7. CASE Goto(r, "reread") /\ UNCHANGED log
  BY <1>1, <1>2, <1>7, GotoPaces DEF files, PC
<1>8. CASE Ends(r) /\ UNCHANGED log
  BY <1>1, <1>2, <1>8, EndsPaces DEF files, Dropping
<1>9. CASE Committed(r) /\ log' = Append(log, e)
  <2>1. \A c \in Key : nextOf[c] = e.key => c \in InUse
    <3> SUFFICES ASSUME NEW c \in Key, nextOf[c] = y.cur  PROVE c \in InUse
      BY <1>4
    <3>1. Before(log, c, y.cur)
      BY <1>3 DEF PaceInv, Forward
    <3>2. PICK j \in 1 .. Len(log) : log[j].key = y.cur
      BY <1>3 DEF InUse
    <3>3. PICK i \in 1 .. j - 1 : log[i].key = c
      BY <3>1, <3>2 DEF Before
    <3>4. i \in 1 .. Len(log)
      BY LastTyped DEF IInv
    <3> QED  BY <3>3, <3>4 DEF InUse
  <2> DEFINE x == [y EXCEPT !.pc = "read", !.tries = 1]
  <2>2. x \in Placed
    <3>1. "read" \in PC
      BY DEF PC
    <3> QED  BY <3>1, AttemptTyped
  <2>3. x.pc = "read" /\ x.cur = y.cur
    BY DEF Placed
  <2>4. run' = [run EXCEPT ![r] = x] \/ run' = [run EXCEPT ![r] = Rest]
    BY <1>1, <1>9 DEF Committed, Ends
  <2> HIDE DEF x
  <2>5. Paced(y)' => Paced(x)'
    BY <2>3 DEF Paced, Asking
  <2>6. ~Dropping(y)
    BY <1>2 DEF Dropping
  <2>7. CASE run' = [run EXCEPT ![r] = x]
    BY <1>1, <1>2, <1>3, <1>4, <1>9, <2>1, <2>2, <2>5, <2>6, <2>7, AppendPaces
  <2>8. CASE run' = [run EXCEPT ![r] = Rest]
    BY <1>1, <1>2, <1>3, <1>4, <1>9, <2>1, <2>6, <2>8, RestPaced, AppendPaces
  <2> QED  BY <2>4, <2>7, <2>8
<1> QED  BY <1>5, <1>6, <1>7, <1>8, <1>9

LEMMA RereadPaces ==
  ASSUME IInv, NamedInv, OneOwner, PaceInv, NEW r \in Run, NEW n \in View, Reread(r, n)
  PROVE  PaceInv'
<1>1. PICK y \in Placed : y = run[r] /\ Sound(y)
  BY Mine
<1>2. y.pc = "reread" /\ UNCHANGED <<log, offer, files>> /\ Paced(y)
  BY <1>1 DEF Reread, At, PaceInv, AllPaced
<1>3. n \in 1 .. Len(log) /\ n \in 0 .. MaxLen
  BY KeyAssumption DEF View, IInv, TypeOK
<1> DEFINE x == [y EXCEPT !.pc = "commit", !.base = n, !.again = 1]
<1>4. CASE Committed(r)
  BY <1>1, <1>2, <1>4, CommittedPaces DEF files
<1>5. CASE Ends(r)
  BY <1>1, <1>2, <1>5, EndsPaces DEF files, Dropping
<1>6. CASE log[n].next = 0 /\ log[n].key = y.cur /\ run' = [run EXCEPT ![r] = x]
  <2>1. x \in Placed
    <3>1. "commit" \in PC
      BY DEF PC
    <3> QED  BY <1>3, <3>1, CommitTyped
  <2>2. x.pc = "commit" /\ x.cur = y.cur /\ x.base = n
    BY DEF Placed
  <2> HIDE DEF x
  <2>3. Paced(x) /\ ~Dropping(y)
    BY <1>2, <1>3, <1>6, <2>2 DEF Paced, Asking, Dropping, Last
  <2> QED  BY <1>1, <1>2, <1>6, <2>1, <2>3, QuietPaces DEF files
<1> QED  BY <1>1, <1>4, <1>5, <1>6 DEF Reread

LEMMA ProvePaces ==
  ASSUME IInv, NamedInv, OneOwner, PaceInv, NEW r \in Run, NEW n \in View, Prove(r, n)
  PROVE  PaceInv'
<1>1. PICK y \in Placed : y = run[r] /\ Sound(y)
  BY Mine
<1>2. y.pc = "prove" /\ UNCHANGED <<log, offer, files>> /\ Paced(y)
  BY <1>1 DEF Prove, At, PaceInv, AllPaced
<1>3. n \in 1 .. Len(log) /\ n \in 0 .. MaxLen
  BY KeyAssumption DEF View, IInv, TypeOK
<1> DEFINE x == [y EXCEPT !.pc = "seal", !.base = n]
<1>4. CASE Goto(r, "offer")
  BY <1>1, <1>2, <1>4, GotoPaces DEF files, PC
<1>5. CASE Ends(r)
  BY <1>1, <1>2, <1>5, EndsPaces DEF files, Dropping
<1>6. CASE log[n].next = 0 /\ log[n].key = y.cur /\ run' = [run EXCEPT ![r] = x]
  <2>1. x \in Placed /\ x.pc = "seal" /\ x.cur = y.cur /\ x.base = n
    BY <1>3 DEF Placed, PC
  <2> HIDE DEF x
  <2>3. Paced(x) /\ ~Dropping(y)
    BY <1>2, <1>3, <1>6, <2>1 DEF Paced, Asking, Dropping, Last
  <2> QED  BY <1>1, <1>2, <1>6, <2>1, <2>3, QuietPaces DEF files
<1> QED  BY <1>1, <1>4, <1>5, <1>6 DEF Prove

LEMMA OfferPaces ==
  ASSUME IInv, NamedInv, OneOwner, PaceInv, NEW r \in Run, NEW k \in Key, Offer(r, k)
  PROVE  PaceInv'
<1>1. PICK y \in Placed : y = run[r] /\ Sound(y)
  BY Mine
<1> DEFINE x == [y EXCEPT !.pc = "log", !.key = k]
<1>2. /\ y.pc = "offer" /\ UNCHANGED <<log, offer, files>> /\ Paced(y)
      /\ k \in Successors(y.cur) /\ run' = [run EXCEPT ![r] = x]
  BY <1>1 DEF Offer, At, PaceInv, AllPaced
<1>3. y.cur \in Key /\ y.cur \in InUse /\ 0 \notin Key /\ InUse = KeysOf(log)
  BY <1>1, <1>2, InUseTyped DEF Sound, Loaded, Placed, Paced, IInv, Key
<1>4. k \in {nextOf[y.cur], pointer[y.cur]} /\ k # 0
  BY <1>2 DEF Successors
<1>5. Leads(log, y.cur, k)
  BY <1>3, <1>4 DEF PaceInv, Forward, Leads
<1>6. x \in Placed /\ x.pc = "log" /\ x.cur = y.cur /\ x.key = k
  BY DEF Placed, PC
<1> HIDE DEF x
<1>7. Paced(x) /\ ~Dropping(y)
  BY <1>2, <1>5, <1>6 DEF Paced, Asking, Dropping
<1> QED  BY <1>1, <1>2, <1>6, <1>7, QuietPaces DEF files

LEMMA CheckLogPaces ==
  ASSUME IInv, NamedInv, OneOwner, PaceInv, NEW r \in Run, NEW n \in View, CheckLog(r, n)
  PROVE  PaceInv'
<1>1. run[r].pc = "log" /\ UNCHANGED <<log, offer, files>>
  BY DEF CheckLog, At
<1>2. CASE InLog(n, run[r].cur, run[r].key) /\ Goto(r, "pem")
  <2>1. run[r].key \in InUse
    BY <1>2 DEF InLog, View, InUse
  <2> QED  BY <1>1, <1>2, <2>1, GotoPaces DEF files, PC
<1>3. CASE Ends(r)
  BY <1>1, <1>3, EndsPaces DEF files, Dropping
<1> QED  BY <1>2, <1>3 DEF CheckLog

LEMMA PickPaces ==
  ASSUME IInv, NamedInv, OneOwner, PaceInv, NEW r \in Run, Pick(r)
  PROVE  PaceInv'
<1>1. PICK y \in Placed : y = run[r] /\ Sound(y)
  BY Mine
<1>2. y.pc = "pick" /\ Paced(y) /\ UNCHANGED <<log, linked, nextOf, moved, pointer>>
  BY <1>1 DEF Pick, At, PaceInv, AllPaced
<1>3. /\ y.cur \in Key \cup {0} /\ 0 \notin Key /\ ~Dropping(y)
      /\ pointer \in [Key \cup {0} -> Key \cup {0}] /\ nextOf \in [Key -> Key \cup {0}]
      /\ stored \subseteq Key /\ InUse = KeysOf(log) /\ minted \in Nat
  BY <1>2, InUseTyped DEF Placed, Key, IInv, TypeOK, Dropping
<1>4. linked = 0 \/ pointer[0] = 0
  BY <1>1, <1>2, <1>3, NoneDrops DEF PaceInv, Recovering
<1> DEFINE kept == Kept(y.cur)
           x == [y EXCEPT !.pc = "next", !.key = kept]
           z(k) == [y EXCEPT !.pc = "name", !.key = k]
<1>5. CASE kept # 0 /\ run' = [run EXCEPT ![r] = x] /\ UNCHANGED <<minted, stored>>
  <2>1. kept = pointer[y.cur] /\ kept \in Key
    <3>1. CASE y.cur = 0
      BY <1>3, <1>5, <3>1 DEF Kept
    <3>2. CASE y.cur # 0
      <4>1. pointer[0] = 0
        BY <1>2, <1>4, <3>2 DEF Paced
      <4> QED  BY <1>3, <1>5, <4>1 DEF Kept
    <3> QED  BY <3>1, <3>2
  <2>2. kept \notin Range(nextOf)
    <3>1. kept \in Range(pointer)
      BY <1>3, <2>1 DEF Range
    <3> QED  BY <1>5, <3>1 DEF PaceInv, Forward
  <2>3. y.cur # 0 => Leads(log, y.cur, kept)
    BY <1>3, <1>5, <2>1 DEF PaceInv, Forward
  <2>4. x \in Placed /\ x.pc = "next" /\ x.cur = y.cur /\ x.key = kept /\ x.look = y.look
    <3> HIDE DEF kept
    <3> QED  BY <2>1 DEF Placed, PC
  <2> HIDE DEF x
  <2>5. Paced(x)
    <3> HIDE DEF kept
    <3> QED  BY <1>2, <2>1, <2>2, <2>3, <2>4 DEF Paced, Asking
  <2> QED  BY <1>1, <1>2, <1>3, <1>5, <2>4, <2>5, QuietPaces
<1>6. CASE run' = [run EXCEPT ![r] = z(minted + 1)] /\ minted < MaxKey /\ minted' = minted + 1
  <2>1. PICK k \in Key : k = minted + 1 /\ k # 0 /\ minted' = k /\ ~(k <= minted)
    BY <1>3, <1>6, KeyAssumption DEF Key
  <2> DEFINE w == z(k)
  <2>2. /\ w \in Placed /\ w.pc = "name" /\ w.cur = y.cur /\ w.key = k /\ w.look = y.look
        /\ run' = [run EXCEPT ![r] = w]
    BY <1>6, <2>1 DEF Placed, PC
  <2> HIDE DEF w
  <2>3. k \notin Range(nextOf)
    <3> SUFFICES ASSUME k \in Range(nextOf)  PROVE FALSE
      OBVIOUS
    <3>1. k \in Held
      BY <2>1 DEF Held
    <3> QED  BY <2>1, <3>1 DEF IInv, Minted
  <2>4. k \notin InUse /\ \A j \in InUse : j <= minted'
    <3>1. \A j \in InUse : j <= minted /\ j \in Nat
      BY InUseTyped DEF PaceInv, Forward, IInv, Key
    <3> QED  BY <1>3, <1>6, <2>1, <3>1
  <2>5. Before(log, y.cur, k)
    BY <2>4 DEF Before, InUse
  <2>6. y.cur # 0 => Leads(log, y.cur, k)
    BY <1>2, <1>3, <2>5 DEF Leads, Paced
  <2>7. InUse' = InUse
    BY <1>2 DEF InUse
  <2>8. Paced(w)'
    BY <1>2, <2>2, <2>3, <2>6, <2>7 DEF Paced, Asking
  <2>9. Forward'
    BY <1>2, <2>4, <2>7 DEF PaceInv, Forward
  <2>10. Grows
    BY <1>2 DEF Grows
  <2>11. Cleared'
    BY <1>2, <1>4 DEF Cleared
  <2> QED  BY <1>1, <1>2, <2>2, <2>8, <2>9, <2>10, <2>11, TurnPaces
<1> QED  BY <1>1, <1>5, <1>6 DEF Pick

LEMMA NamePaces ==
  ASSUME IInv, NamedInv, OneOwner, PaceInv, NEW r \in Run, Name(r)
  PROVE  PaceInv'
<1>1. PICK y \in Placed : y = run[r] /\ Sound(y)
  BY Mine
<1> DEFINE x == [y EXCEPT !.pc = "next"]
<1>2. /\ y.pc = "name" /\ Paced(y) /\ UNCHANGED <<log, minted, linked, nextOf, moved>>
      /\ pointer' = [pointer EXCEPT ![y.cur] = y.key] /\ run' = [run EXCEPT ![r] = x]
  BY <1>1 DEF Name, At, Goto, PaceInv, AllPaced
<1>3. /\ y.cur \in Key \cup {0} /\ ~Dropping(y) /\ InUse' = InUse
      /\ pointer \in [Key \cup {0} -> Key \cup {0}]
  BY <1>2 DEF Placed, IInv, TypeOK, Dropping, InUse
<1>4. x \in Placed /\ x.pc = "next" /\ x.cur = y.cur /\ x.key = y.key /\ x.look = y.look
  BY DEF Placed, PC
<1> HIDE DEF x
<1>5. linked = 0 \/ pointer[0] = 0
  BY <1>1, <1>2, <1>3, NoneDrops DEF PaceInv, Recovering
<1>6. \A c \in Key \cup {0} : pointer'[c] = IF c = y.cur THEN y.key ELSE pointer[c]
  BY <1>2, <1>3
<1>7. Range(pointer') \subseteq Range(pointer) \cup {y.key}
  BY <1>2, <1>3 DEF Range
<1>8. y.key \notin Range(nextOf) /\ (y.cur # 0 => Leads(log, y.cur, y.key))
  BY <1>2 DEF Paced, Asking
<1>9. Paced(x)'
  BY <1>2, <1>3, <1>4, <1>6 DEF Paced, Asking
<1>10. Forward'
  <2>1. \A k \in Range(pointer') : k # 0 => k \notin Range(nextOf')
    BY <1>2, <1>7, <1>8 DEF PaceInv, Forward
  <2>2. \A c \in Key : pointer'[c] # 0 => Leads(log', c, pointer'[c])
    <3> SUFFICES ASSUME NEW c \in Key, pointer'[c] # 0  PROVE Leads(log, c, pointer'[c])
      BY <1>2
    <3>1. CASE c = y.cur
      <4>1. c # 0
        BY DEF Key
      <4> QED  BY <1>6, <1>8, <3>1, <4>1
    <3>2. CASE c # y.cur
      BY <1>6, <3>2 DEF PaceInv, Forward
    <3> QED  BY <3>1, <3>2
  <2> QED  BY <1>2, <1>3, <2>1, <2>2 DEF PaceInv, Forward
<1>11. Grows
  BY <1>2 DEF Grows
<1>12. Cleared'
  <2>1. linked' = 0 \/ pointer'[0] = 0
    BY <1>2, <1>5, <1>6 DEF Paced, Asking
  <2> QED  BY <2>1 DEF Cleared
<1> QED  BY <1>1, <1>2, <1>4, <1>9, <1>10, <1>11, <1>12, TurnPaces DEF Recovering

\* A recovery in effect goes on to record a move it may make, or to link the host's first key.
LEMMA RecoveredPaced ==
  ASSUME IInv, NEW r \in Run, NEW y \in Placed, y = run[r], Sound(y), Paced(y), y.pc \in {"head", "ask"},
         Recovered(r)
  PROVE  \E x \in Placed :
           /\ run' = [run EXCEPT ![r] = x]
           /\ y.key \in InUse => Paced(x)
           /\ log' \in Seq(Event) /\ Paced(y)' /\ y.key \in InUse' => Paced(x)'
<1> DEFINE x == [y EXCEPT !.pc = IF y.cur \in {0, y.key} THEN "link" ELSE "pem"]
<1>1. /\ run' = [run EXCEPT ![r] = x] /\ x \in Placed /\ x.cur = y.cur /\ x.key = y.key /\ x.look = y.look
      /\ x.pc = IF y.cur \in {0, y.key} THEN "link" ELSE "pem"
  BY DEF Recovered, Goto, Placed, PC
<1> HIDE DEF x
<1>2. y.key # 0 /\ log \in Seq(Event)
  BY DEF Sound, Moving, IInv, TypeOK
<1>3. y.cur = y.key => FALSE
  BY <1>2, LeadsNotItself DEF Paced, Asking
<1>4. y.key \in InUse => Paced(x)
  BY <1>1, <1>2, <1>3 DEF Paced, Asking
<1>5. Paced(y)' /\ y.key \in InUse' => Paced(x)'
  BY <1>1, <1>2, <1>3 DEF Paced, Asking
<1> QED  BY <1>1, <1>4, <1>5

LEMMA ReadHeadPaces ==
  ASSUME IInv, NamedInv, OneOwner, PaceInv, NEW r \in Run, NEW n \in View, ReadHead(r, n)
  PROVE  PaceInv'
<1>1. PICK y \in Placed : y = run[r] /\ Sound(y)
  BY Mine
<1>2. y.pc = "head" /\ UNCHANGED <<log, offer, files>> /\ Paced(y) /\ ~Dropping(y)
  BY <1>1 DEF ReadHead, At, PaceInv, AllPaced, Dropping
<1>3. n \in 1 .. Len(log) /\ n \in 0 .. MaxLen
  BY KeyAssumption DEF View, IInv, TypeOK
<1> DEFINE z == [y EXCEPT !.pc = "ask", !.base = n]
<1>4. CASE log[n].key = y.key /\ Recovered(r)
  <2>1. y.key \in InUse
    BY <1>3, <1>4 DEF InUse
  <2>2. PICK x \in Placed : run' = [run EXCEPT ![r] = x] /\ Paced(x)
    BY <1>1, <1>2, <1>4, <2>1, RecoveredPaced
  <2> QED  BY <1>1, <1>2, <2>2, QuietPaces DEF files
<1>5. CASE run' = [run EXCEPT ![r] = z]
  <2>1. z \in Placed /\ z.pc = "ask" /\ z.cur = y.cur /\ z.key = y.key /\ z.look = y.look
    BY <1>3 DEF Placed, PC
  <2> HIDE DEF z
  <2>2. Paced(z)
    BY <1>2, <2>1 DEF Paced, Asking
  <2> QED  BY <1>1, <1>2, <1>5, <2>1, <2>2, QuietPaces DEF files
<1> QED  BY <1>1, <1>4, <1>5 DEF ReadHead

LEMMA AskPaces ==
  ASSUME IInv, NamedInv, OneOwner, PaceInv, NEW r \in Run, Ask(r)
  PROVE  PaceInv'
<1>1. PICK y \in Placed : y = run[r] /\ Sound(y)
  BY Mine
<1>2. y.pc = "ask" /\ UNCHANGED files /\ Paced(y) /\ ~Dropping(y)
  BY <1>1 DEF Ask, At, PaceInv, AllPaced, Dropping
<1> DEFINE e == [key |-> y.key, next |-> nextOf[y.key]]
<1>3. y.key \in Key /\ nextOf[y.key] \in Key /\ y.key \in Held
  BY <1>1, <1>2 DEF IInv, TypeOK, Placed, Sound, Moving, Ready
<1>4. e \in Event /\ e.key = y.key
  BY <1>3 DEF Event
<1>5. \/ Last.key = e.key /\ Recovered(r) /\ UNCHANGED log
      \/ Recovered(r) /\ log' = Append(log, e)
      \/ Ends(r) /\ UNCHANGED log
  BY <1>1, Zenon DEF Ask, Appended
<1> HIDE DEF e
<1>6. CASE Last.key = e.key /\ Recovered(r) /\ UNCHANGED log
  <2>1. y.key \in InUse
    BY <1>4, <1>6, LastTyped DEF InUse, Last, IInv
  <2>2. PICK x \in Placed : run' = [run EXCEPT ![r] = x] /\ Paced(x)
    BY <1>1, <1>2, <1>6, <2>1, RecoveredPaced
  <2> QED  BY <1>1, <1>2, <1>6, <2>2, QuietPaces DEF files
<1>7. CASE Ends(r) /\ UNCHANGED log
  BY <1>1, <1>2, <1>7, EndsPaces DEF files
<1>8. CASE Recovered(r) /\ log' = Append(log, e)
  <2>1. log' \in Seq(Event)
    BY <1>4, <1>8 DEF IInv, TypeOK
  <2>2. PICK x \in Placed :
          /\ run' = [run EXCEPT ![r] = x]
          /\ Paced(y)' /\ y.key \in InUse' => Paced(x)'
    BY <1>1, <1>2, <1>8, <2>1, RecoveredPaced
  <2>3. \A c \in Key : nextOf[c] # e.key
    BY <1>2, <1>4 DEF Paced, Asking, Range, IInv, TypeOK
  <2> QED  BY <1>1, <1>2, <1>3, <1>4, <1>8, <2>2, <2>3, AppendPaces
<1> QED  BY <1>5, <1>6, <1>7, <1>8

\* The key it links is the one the handle's pointer names, which it goes on to drop.
LEMMA LinkPaces ==
  ASSUME IInv, NamedInv, OneOwner, PaceInv, NEW r \in Run, Link(r)
  PROVE  PaceInv'
<1>1. PICK y \in Placed : y = run[r] /\ Sound(y)
  BY Mine
<1> DEFINE x == [y EXCEPT !.pc = "finish"]
<1>2. /\ y.pc = "link" /\ Paced(y) /\ UNCHANGED <<log, minted, stored, nextOf, moved, pointer>>
      /\ y.cur = 0 /\ linked = 0 /\ y.look = 0 /\ y.key = pointer[0] /\ y.key \in InUse
  BY <1>1 DEF Link, At, PaceInv, AllPaced, Paced, Sound
<1>3. linked' = y.key /\ run' = [run EXCEPT ![r] = x]
  BY <1>1, <1>2 DEF Link, Goto
<1>4. x \in Placed /\ x.pc = "finish" /\ x.cur = 0 /\ x.key = y.key /\ x.look = 0
  BY <1>2 DEF Placed, PC
<1> HIDE DEF x
<1>5. InUse' = InUse
  BY <1>2 DEF InUse
<1>6. Paced(x)'
  BY <1>4 DEF Paced, Asking
<1>7. Forward'
  BY <1>2, <1>3, <1>5 DEF PaceInv, Forward
<1>8. Grows
  BY <1>2 DEF Grows
<1>9. Cleared'
  <2>1. run'[r] = x
    BY <1>1, <1>3 DEF IInv, TypeOK
  <2>2. Dropping(run[r])'
    BY <1>2, <1>4, <2>1 DEF Dropping
  <2> QED  BY <2>2 DEF Cleared
<1> QED  BY <1>1, <1>2, <1>3, <1>4, <1>6, <1>7, <1>8, <1>9, TurnPaces DEF Recovering

\* Pointers that go take nothing with them.
LEMMA ForwardFewer ==
  ASSUME Forward, UNCHANGED <<log, minted, linked, nextOf, moved>>,
         pointer \in [Key \cup {0} -> Key \cup {0}], pointer' \in [Key \cup {0} -> Key \cup {0}],
         \A c \in Key \cup {0} : pointer'[c] \in {0, pointer[c]}
  PROVE  Forward' /\ Grows
<1>1. InUse' = InUse
  BY DEF InUse
<1>2. Range(pointer') \subseteq Range(pointer) \cup {0}
  BY DEF Range
<1>3. \A k \in Range(pointer') : k # 0 => k \notin Range(nextOf')
  BY <1>2 DEF Forward
<1>4. \A c \in Key : pointer'[c] # 0 => Leads(log', c, pointer'[c])
  BY DEF Forward
<1>5. Forward'
  BY <1>1, <1>3, <1>4 DEF Forward
<1> QED  BY <1>5 DEF Grows

LEMMA FinishPaces ==
  ASSUME IInv, NamedInv, OneOwner, PaceInv, NEW r \in Run, Finish(r) \/ Drop(r)
  PROVE  PaceInv'
<1>1. PICK y \in Placed : y = run[r] /\ Sound(y)
  BY Mine
<1> DEFINE x == [y EXCEPT !.pc = "finish", !.look = y.cur]
<1>2. /\ y.pc \in {"finish", "drop"} /\ Paced(y) /\ UNCHANGED <<log, minted, linked, nextOf, moved>>
      /\ pointer \in [Key \cup {0} -> Key \cup {0}] /\ y.look \in Key \cup {0} /\ y.cur \in Key \cup {0}
  BY <1>1 DEF Finish, Drop, At, files, PaceInv, AllPaced, IInv, TypeOK, Placed
<1>3. x \in Placed /\ x.pc = "finish" /\ x.cur = y.cur
  BY DEF Placed, PC
<1>4. Looked(r) => run' = [run EXCEPT ![r] = x] \/ run' = [run EXCEPT ![r] = Rest]
  BY <1>1 DEF Looked, Ends
<1> HIDE DEF x
<1>5. Paced(x) /\ Paced(Rest) /\ Rest \in Placed
  BY <1>2, <1>3, RestPaced DEF Paced, Asking
<1>6. CASE Finish(r) /\ pointer[y.look] = y.key
  BY <1>1, <1>6, GotoPaces DEF Finish, At, files, PC
<1>7. CASE Finish(r) /\ pointer[y.look] # y.key
  <2>1. ~Dropping(y)
    BY <1>7 DEF Dropping
  <2>2. Looked(r) /\ UNCHANGED pointer
    BY <1>1, <1>7 DEF Finish, files
  <2> QED  BY <1>1, <1>2, <1>3, <1>4, <1>5, <2>1, <2>2, QuietPaces
<1>8. CASE Drop(r)
  <2>1. Looked(r) /\ pointer' = [pointer EXCEPT ![y.look] = 0]
    BY <1>1, <1>8 DEF Drop
  <2>2. /\ \A c \in Key \cup {0} : pointer'[c] = IF c = y.look THEN 0 ELSE pointer[c]
        /\ pointer' \in [Key \cup {0} -> Key \cup {0}]
    BY <1>2, <2>1
  <2>3. Forward' /\ Grows
    BY <1>2, <2>2, ForwardFewer DEF PaceInv
  <2>4. Cleared'
    <3>1. linked' = 0 \/ pointer'[0] = 0
      <4>1. CASE y.look = 0
        BY <2>2, <4>1
      <4>2. CASE y.look # 0
        <5>1. ~Dropping(y)
          BY <4>2 DEF Dropping
        <5>2. linked = 0 \/ pointer[0] = 0
          BY <1>1, <1>2, <5>1, NoneDrops DEF PaceInv, Recovering
        <5> QED  BY <1>2, <2>2, <4>2, <5>2
      <4> QED  BY <4>1, <4>2
    <3> QED  BY <3>1 DEF Cleared
  <2>5. ASSUME NEW z \in Placed, z.pc \in {"finish", "idle"}, Paced(z)  PROVE Paced(z)'
    BY <1>2, <2>5 DEF Paced, Asking, InUse
  <2>6. Rest.pc = "idle"
    BY DEF Rest
  <2> QED  BY <1>1, <1>2, <1>3, <1>4, <1>5, <2>1, <2>3, <2>4, <2>5, <2>6, TurnPaces DEF Recovering
<1> QED  BY <1>6, <1>7, <1>8

LEMMA CancelPaces ==
  ASSUME IInv, NamedInv, OneOwner, PaceInv, NEW r \in Run, Cancel(r)
  PROVE  PaceInv'
<1>1. PICK y \in Placed : y = run[r] /\ Sound(y)
  BY Mine
<1>2. CASE Withdraw(r)
  BY <1>2, GotoPaces DEF Withdraw, At, files, PC
<1>3. CASE Forget(r)
  <2>1. /\ y.pc = "forget" /\ UNCHANGED <<log, minted, linked, nextOf, moved>>
        /\ run' = [run EXCEPT ![r] = Rest]
        /\ pointer' = [pointer EXCEPT ![Cur] = 0, ![0] = 0]
        /\ pointer \in [Key \cup {0} -> Key \cup {0}]
    BY <1>1, <1>3 DEF Forget, At, Ends, IInv, TypeOK
  <2>2. /\ \A c \in Key \cup {0} : pointer'[c] \in {0, pointer[c]}
        /\ pointer' \in [Key \cup {0} -> Key \cup {0}] /\ pointer'[0] = 0
    <3> DEFINE k == Cur
    <3>1. pointer' = [pointer EXCEPT ![k] = 0, ![0] = 0]
      BY <2>1
    <3> HIDE DEF k
    <3> QED  BY <2>1, <3>1
  <2>3. Forward' /\ Grows
    BY <2>1, <2>2, ForwardFewer DEF PaceInv
  <2>4. Cleared'
    BY <2>2 DEF Cleared
  <2> QED  BY <1>1, <2>1, <2>3, <2>4, RestPaced, TurnPaces DEF Withdrawing
<1> QED  BY <1>2, <1>3 DEF Cancel

LEMMA TakeEffectPaces ==
  ASSUME IInv, NamedInv, OneOwner, PaceInv, TakeEffect
  PROVE  PaceInv'
<1>1. PICK y \in Placed : y = run[Renewer]
  BY Mine, KeyAssumption
<1>2. /\ offer \in Event /\ log' = Append(log, offer) /\ UNCHANGED files /\ offer.key \in Held
      /\ offer.key \in Range(pointer) /\ offer.key # 0
  BY DEF TakeEffect, Appended, IInv, TypeOK, KeysAreHeld, NamedInv, Pending, Event, Key
<1>3. \A c \in Key : nextOf[c] # offer.key
  <2>1. offer.key \notin Range(nextOf)
    BY <1>2 DEF PaceInv, Forward
  <2> QED  BY <2>1 DEF Range, IInv, TypeOK
<1>4. run' = [run EXCEPT ![Renewer] = y]
  <2>1. run' = run /\ run \in [Run -> Placed]
    BY DEF TakeEffect, IInv, TypeOK, Placed
  <2> QED  BY <1>1, <2>1
<1> QED  BY <1>1, <1>2, <1>3, <1>4, AppendPaces, KeyAssumption

LEMMA InitPaces ==
  ASSUME Init
  PROVE  PaceInv
<1>1. PICK here \in BOOLEAN, sealed \in BOOLEAN :
        /\ log = <<[key |-> 1, next |-> IF sealed THEN 0 ELSE 2]>>
        /\ minted = IF sealed THEN 1 ELSE 2
        /\ linked = IF here THEN 1 ELSE 0
        /\ nextOf = [k \in Key |-> IF here /\ ~sealed /\ k = 1 THEN 2 ELSE 0]
  BY DEF Init
<1>2. /\ moved = [k \in Key |-> 0] /\ pointer = [k \in Key \cup {0} |-> 0] /\ run = [r \in Run |-> Rest]
      /\ 1 \in Key /\ 0 \notin Key
  BY KeyAssumption DEF Init, Key
<1>3. Len(log) = 1 /\ log[1].key = 1 /\ InUse = {1}
  <2>1. Len(log) = 1 /\ log[1].key = 1
    BY <1>1
  <2> QED  BY <2>1 DEF InUse
<1>4. AllPaced
  BY <1>2, RestPaced DEF AllPaced
<1>5. Cleared
  BY <1>2 DEF Cleared
<1>6. Forward
  <2>1. \A c \in Key : nextOf[c] # 0 => c = 1 /\ nextOf[c] = 2
    BY <1>1
  <2>2. Before(log, 1, 2)
    BY <1>3 DEF Before
  <2>3. \A k \in Range(pointer) : k = 0
    BY <1>2 DEF Range
  <2>4. (\A k \in InUse : k <= minted) /\ linked \in InUse \cup {0}
    BY <1>1, <1>3
  <2>5. \A k \in Key : moved[k] = 0 /\ pointer[k] = 0
    BY <1>2
  <2> QED  BY <2>1, <2>2, <2>3, <2>4, <2>5 DEF Forward
<1> QED  BY <1>4, <1>5, <1>6 DEF PaceInv

LEMMA NextPaces ==
  ASSUME IInv, NamedInv, OneOwner, {"finish", "drop"} \subseteq Spared, PaceInv, [Next]_vars
  PROVE  PaceInv'
<1>1. CASE UNCHANGED vars
  <2>1. InUse' = InUse /\ Last' = Last /\ UNCHANGED <<log, minted, linked, nextOf, moved, pointer, run>>
    BY <1>1 DEF vars, files, InUse, Last
  <2>2. \A x : Paced(x) => Paced(x)'
    BY <2>1 DEF Paced
  <2>3. AllPaced'
    BY <2>1, <2>2 DEF PaceInv, AllPaced
  <2>4. Forward' /\ Cleared'
    BY <2>1 DEF PaceInv, Forward, Cleared, Dropping
  <2> QED  BY <2>3, <2>4 DEF PaceInv
<1>2. ASSUME NEW r \in Run, Rotate(r)  PROVE PaceInv'
  BY <1>2, ReadPaces, EnsurePaces, RecordPaces, SendPaces DEF Rotate
<1>3. ASSUME NEW r \in Run, CommitSealed(r)  PROVE PaceInv'
  BY <1>3, EnsurePaces, SendCommitPaces, RereadPaces DEF CommitSealed
<1>4. ASSUME NEW r \in Run, Recover(r)  PROVE PaceInv'
  BY <1>4, PickPaces, NamePaces, EnsurePaces, ReadHeadPaces, AskPaces, LinkPaces, FinishPaces DEF Recover
<1>5. ASSUME NEW r \in Run, Connect(r)  PROVE PaceInv'
  BY <1>5, ProvePaces, CheckLogPaces, OfferPaces DEF Connect
<1>6. ASSUME NEW r \in Run, (\E j \in Job : Start(r, j)) \/ Record(r) \/ Cancel(r) \/ Stop(r)  PROVE PaceInv'
  BY <1>6, StartPaces, RecordPaces, CancelPaces, StopPaces
<1> QED  BY <1>1, <1>2, <1>3, <1>4, <1>5, <1>6, TakeEffectPaces DEF Next

\* At first the log has one key, the host's or another's.
LEMMA InitFollows ==
  ASSUME Init
  PROVE  Abstract!Init
<1>1. PICK here \in BOOLEAN, sealed \in BOOLEAN :
        log = <<[key |-> 1, next |-> IF sealed THEN 0 ELSE 2]>>
  BY DEF Init
<1>2. 1 \in Key /\ 2 \in Key
  BY KeyAssumption DEF Key
<1>3. Position \in {0, 1}
  <2>1. Position = PosOf(log, Cur)
    BY DEF Position, PosOf
  <2>2. log \in Seq(Event) /\ Len(log) = 1
    BY <1>1, InitSound DEF IInv, TypeOK
  <2> QED  BY <2>1, <2>2, PosIs
<1>4. \E n \in Key \cup {0} : log = <<[key |-> 1, next |-> n]>>
  BY <1>1, <1>2
<1> QED  BY <1>2, <1>3, <1>4 DEF Abstract!Init

\* Load and follow (idkey/chain.go), RecordMove, FinishRecovery and Link: the files of
\* a host implement KeyLog.  Whatever is stopped, lost, late or made up in an answer,
\* every event of the log is one its rules allow and the key this host proves only
\* ever moves to a later key of the log, as long as one run of the host recovers and
\* cancels, and is not stopped between its link and the end of its recovery.
THEOREM FollowsKeyLog ==
  ASSUME OneOwner, {"finish", "drop"} \subseteq Spared
  PROVE  Spec => FollowsLog
<1>1. Init => IInv /\ NamedInv /\ PaceInv /\ Abstract!Init
  BY InitSound, InitNamed, InitPaces, InitFollows
<1>2. IInv /\ NamedInv /\ PaceInv /\ [Next]_vars => IInv' /\ NamedInv' /\ PaceInv'
  BY NextSound, NextNamed, NextPaces
<1>3. IInv /\ NamedInv /\ PaceInv /\ [Next]_vars /\ IInv' /\ PaceInv' => [Abstract!Next]_<<log, Position>>
  BY StepFollows
<1> QED  BY <1>1, <1>2, <1>3, PTL DEF Spec, FollowsLog, Abstract!Spec
=============================================================================
