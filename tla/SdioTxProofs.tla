---------------------------- MODULE SdioTxProofs ----------------------------
(***************************************************************************)
(* Theorems about SdioTx, for every number of places, spare blocks and     *)
(* senders: every place of the driver and every block of the pool is       *)
(* accounted for, whatever is refused and in whichever order tasks run.    *)
(***************************************************************************)
EXTENDS SdioTx, FunctionTheorems, FiniteSetTheorems,
        SequenceTheorems, TLAPS

Carrying == {"take", "queue", "give", "free"}
InPlace == {"queue", "give"}

\* The types without the bound of the semaphore, which follows from the sum.
Shape ==
  /\ free \in Seq(Blocks) /\ queued \in Seq(Blocks) /\ finished \in Seq(Blocks)
  /\ sdio_send_queue_sem \in Nat
  /\ pc \in [Tasks -> Labels]
  /\ held \in [Tasks -> Blocks \cup {NoBlock}]
  /\ leaked \in Nat
  /\ failures \in 0 .. MaxFailures

Booleans ==
  /\ state \in {"DEACTIVE", "ACTIVE"}
  /\ datapath \in BOOLEAN /\ host_reset_sem \in BOOLEAN /\ alert \in BOOLEAN
  /\ aborted \in BOOLEAN /\ owed \in BOOLEAN

\* A task has a block in its hands exactly from getting it to passing it on.
Hands == \A t \in Tasks : held[t] # NoBlock <=> pc[t] \in Carrying

Inv == Shape /\ Booleans /\ Hands /\ PlacesAccounted /\ BlockHasOneOwner

Hand == Blocks \cup {NoBlock}
One(x, S) == IF x \in S THEN 1 ELSE 0
Occurs(s, b) == Cardinality({i \in DOMAIN s : s[i] = b})
Holders(h, b) == Cardinality({t \in Tasks : h[t] = b})
Placed(p) == Cardinality({t \in Tasks : p[t] \in InPlace})

-----------------------------------------------------------------------------
(* Constants and sequences.                                                *)

LEMMA Constants ==
  /\ TxQ \in Nat /\ Spare \in Nat /\ MaxFailures \in Nat
  /\ IsFiniteSet(Tasks)
  /\ Resetter \in Tasks /\ TxDone \in Tasks /\ Writers \subseteq Tasks
  /\ NoBlock \notin Blocks
<1>1. IsFiniteSet(Writers \cup {Resetter})
  BY SdioTxAssumption, FS_AddElement
<1>2. IsFiniteSet(Writers \cup {Resetter} \cup {TxDone})
  BY <1>1, FS_AddElement
<1>3. QED
  BY <1>2, SdioTxAssumption DEF Tasks, Senders

LEMMA AppendFacts ==
  ASSUME NEW S, NEW s \in Seq(S), NEW e \in S
  PROVE  /\ Len(s) \in Nat /\ DOMAIN s = 1 .. Len(s)
         /\ Append(s, e) \in Seq(S) /\ Len(Append(s, e)) = Len(s) + 1
         /\ DOMAIN Append(s, e) = 1 .. Len(s) + 1
         /\ \A i \in 1 .. Len(s) : Append(s, e)[i] = s[i]
         /\ Append(s, e)[Len(s) + 1] = e
  OBVIOUS

LEMMA PushFacts ==
  ASSUME NEW S, NEW s \in Seq(S), NEW e \in S
  PROVE  /\ <<e>> \o s \in Seq(S)
         /\ Len(<<e>> \o s) = Len(s) + 1
         /\ (<<e>> \o s)[1] = e
         /\ \A i \in 1 .. Len(s) : (<<e>> \o s)[i + 1] = s[i]
<1>1. <<e>> \in Seq(S) /\ Len(<<e>>) = 1 /\ <<e>>[1] = e /\ Len(s) \in Nat
  OBVIOUS
<1>2. /\ <<e>> \o s \in Seq(S) /\ Len(<<e>> \o s) = 1 + Len(s)
      /\ \A i \in 1 .. 1 + Len(s) :
           (<<e>> \o s)[i] = IF i <= 1 THEN <<e>>[i] ELSE s[i - 1]
  BY <1>1, ConcatProperties
<1> DEFINE r == <<e>> \o s
           p == <<e>>
<1> HIDE DEF r, p
<1>3. Len(r) = Len(s) + 1 /\ p[1] = e
  BY <1>1, <1>2 DEF r, p
<1>4. \A i \in 1 .. 1 + Len(s) : r[i] = IF i <= 1 THEN p[i] ELSE s[i - 1]
  BY <1>2 DEF r, p
<1>5. r[1] = e
  BY <1>1, <1>3, <1>4
<1>6. \A i \in 1 .. Len(s) : r[i + 1] = s[i]
  <2>1. SUFFICES ASSUME NEW i \in 1 .. Len(s) PROVE r[i + 1] = s[i]
    OBVIOUS
  <2>2. i + 1 \in 1 .. 1 + Len(s) /\ ~ (i + 1 <= 1) /\ (i + 1) - 1 = i
    BY <1>1
  <2>3. QED
    BY <1>4, <2>2
<1>7. QED
  BY <1>2, <1>3, <1>5, <1>6 DEF r

LEMMA TailFacts ==
  ASSUME NEW S, NEW s \in Seq(S), s # <<>>
  PROVE  /\ Tail(s) \in Seq(S) /\ Len(Tail(s)) \in Nat
         /\ Head(s) \in S /\ Len(s) = Len(Tail(s)) + 1
  OBVIOUS

\* The places of a value in a sequence are finitely many.
LEMMA OccursFinite ==
  ASSUME NEW s \in Seq(Blocks), NEW b
  PROVE  /\ IsFiniteSet({i \in DOMAIN s : s[i] = b})
         /\ Occurs(s, b) \in Nat
<1>1. Len(s) \in Nat /\ DOMAIN s = 1 .. Len(s)
  OBVIOUS
<1>2. IsFiniteSet(1 .. Len(s))
  BY <1>1, FS_Interval
<1>3. IsFiniteSet({i \in DOMAIN s : s[i] = b})
  BY <1>1, <1>2, FS_Subset
<1>4. QED
  BY <1>3, FS_CardinalityType DEF Occurs

LEMMA OccursAppend ==
  ASSUME NEW s \in Seq(Blocks), NEW e \in Blocks, NEW b
  PROVE  Occurs(Append(s, e), b) = Occurs(s, b) + One(e, {b})
<1> DEFINE D == {i \in DOMAIN s : s[i] = b}
           A == {i \in DOMAIN Append(s, e) : Append(s, e)[i] = b}
           n == Len(s) + 1
<1>1. IsFiniteSet(D) /\ n \notin D
  <2>1. DOMAIN s = 1 .. Len(s) /\ Len(s) \in Nat
    OBVIOUS
  <2>2. n \notin D
    BY <2>1
  <2>3. QED
    BY <2>2, OccursFinite
<1>2. A = IF e = b THEN D \cup {n} ELSE D
  <2>1. /\ D = {i \in 1 .. Len(s) : s[i] = b}
        /\ A = {i \in 1 .. n : Append(s, e)[i] = b}
    BY AppendFacts
  <2>2. /\ Len(s) \in Nat
        /\ \A i \in 1 .. Len(s) : Append(s, e)[i] = s[i]
        /\ Append(s, e)[n] = e
    BY AppendFacts
  <2>3. \A i : i \in 1 .. n <=> i \in 1 .. Len(s) \/ i = n
    BY <2>2
  <2>4. QED
    BY <2>1, <2>2, <2>3
<1>3. Cardinality(D \cup {n}) = Cardinality(D) + 1 /\ Cardinality(D) \in Nat
  BY <1>1, FS_AddElement, FS_CardinalityType
<1> HIDE DEF D, A, n
<1>4. Cardinality(A) = Cardinality(D) + One(e, {b})
  BY <1>2, <1>3 DEF One
<1>5. QED
  BY <1>4 DEF Occurs, A, D

\* One sequence is the other behind a new first element.
LEMMA OccursShift ==
  ASSUME NEW s \in Seq(Blocks), NEW r \in Seq(Blocks), NEW b,
         Len(r) = Len(s) + 1, \A i \in 1 .. Len(s) : r[i + 1] = s[i]
  PROVE  Occurs(r, b) = Occurs(s, b) + One(r[1], {b})
<1> DEFINE D == {i \in DOMAIN r : r[i] = b}
           T == {i \in DOMAIN s : s[i] = b}
           f == [i \in T |-> i + 1]
<1>1. IsFiniteSet(D) /\ IsFiniteSet(T)
  BY OccursFinite
<1>2. Len(s) \in Nat /\ DOMAIN s = 1 .. Len(s) /\ DOMAIN r = 1 .. Len(s) + 1
  OBVIOUS
<1>3. \A i \in T : i \in Nat /\ i + 1 \in D \ {1}
  BY <1>2
<1>4. \A j \in D \ {1} : j \in Int /\ j - 1 \in T /\ (j - 1) + 1 = j
  <2>1. SUFFICES ASSUME NEW j \in D \ {1} PROVE j \in Int /\ j - 1 \in T /\ (j - 1) + 1 = j
    OBVIOUS
  <2>2. j \in Int /\ j - 1 \in 1 .. Len(s) /\ (j - 1) + 1 = j /\ r[j] = b
    BY <1>2
  <2>3. QED
    BY <1>2, <2>2
<1>5. f \in Bijection(T, D \ {1})
  <2>1. f \in [T -> D \ {1}]
    BY <1>3
  <2>2. \A i, k \in T : f[i] = f[k] => i = k
    BY <1>3
  <2>3. \A j \in D \ {1} : \E i \in T : f[i] = j
    BY <1>4
  <2> HIDE DEF D, T, f
  <2>4. QED
    BY <2>1, <2>2, <2>3, Fun_IsBij
<1>6. Cardinality(D \ {1}) = Cardinality(T)
  <2> HIDE DEF D, T, f
  <2>1. QED
    BY <1>1, <1>5, FS_Bijection, FS_RemoveElement DEF ExistsBijection
<1>7. Cardinality(D \ {1}) = IF 1 \in D THEN Cardinality(D) - 1 ELSE Cardinality(D)
  BY <1>1, FS_RemoveElement
<1>8. 1 \in D <=> r[1] = b
  BY <1>2
<1>9. Cardinality(D) \in Nat /\ Cardinality(T) \in Nat
  BY <1>1, FS_CardinalityType
<1> HIDE DEF D, T, f
<1>10. Cardinality(D) = Cardinality(T) + One(r[1], {b})
  BY <1>6, <1>7, <1>8, <1>9 DEF One
<1>11. QED
  BY <1>10 DEF Occurs, D, T

LEMMA OccursTail ==
  ASSUME NEW s \in Seq(Blocks), s # <<>>, NEW b
  PROVE  Occurs(s, b) = Occurs(Tail(s), b) + One(Head(s), {b})
<1> DEFINE t == Tail(s)
<1>1. /\ t \in Seq(Blocks) /\ Head(s) = s[1] /\ Len(s) = Len(t) + 1
      /\ \A i \in 1 .. Len(t) : s[i + 1] = t[i]
  OBVIOUS
<1> HIDE DEF t
<1>2. Occurs(s, b) = Occurs(t, b) + One(s[1], {b})
  BY <1>1, OccursShift
<1>3. QED
  BY <1>1, <1>2 DEF t

LEMMA OccursPush ==
  ASSUME NEW s \in Seq(Blocks), NEW e \in Blocks, NEW b
  PROVE  Occurs(<<e>> \o s, b) = Occurs(s, b) + One(e, {b})
<1> DEFINE r == <<e>> \o s
<1>1. /\ r \in Seq(Blocks) /\ Len(r) = Len(s) + 1 /\ r[1] = e
      /\ \A i \in 1 .. Len(s) : r[i + 1] = s[i]
  BY PushFacts
<1> HIDE DEF r
<1>2. Occurs(r, b) = Occurs(s, b) + One(r[1], {b})
  BY <1>1, OccursShift
<1>3. QED
  BY <1>1, <1>2 DEF r

-----------------------------------------------------------------------------
(* What one task does to the sums over all tasks.                          *)

\* One member of a finite set joins or leaves another.
LEMMA OneMoves ==
  ASSUME NEW A, NEW B, IsFiniteSet(A), IsFiniteSet(B), NEW t,
         A \ {t} = B \ {t}
  PROVE  /\ Cardinality(A) \in Nat /\ Cardinality(B) \in Nat
         /\ Cardinality(B) + One(t, A) = Cardinality(A) + One(t, B)
<1>1. Cardinality(A) \in Nat /\ Cardinality(B) \in Nat
  BY FS_CardinalityType
<1>2. Cardinality(A \ {t}) = IF t \in A THEN Cardinality(A) - 1 ELSE Cardinality(A)
  BY FS_RemoveElement
<1>3. Cardinality(B \ {t}) = IF t \in B THEN Cardinality(B) - 1 ELSE Cardinality(B)
  BY FS_RemoveElement
<1> DEFINE m == Cardinality(A)
           n == Cardinality(B)
<1>4. m \in Nat /\ n \in Nat
      /\ (IF t \in A THEN m - 1 ELSE m) = (IF t \in B THEN n - 1 ELSE n)
  BY <1>1, <1>2, <1>3
<1> HIDE DEF m, n
<1>5. n + One(t, A) = m + One(t, B)
  BY <1>4 DEF One
<1>6. QED
  BY <1>1, <1>5 DEF m, n

\* Who holds block b changes only with the task that takes or passes a block.
LEMMA Grip ==
  ASSUME NEW h \in [Tasks -> Hand], NEW t \in Tasks,
         NEW x \in Hand,
         NEW g \in [Tasks -> Hand], NEW b \in Blocks,
         g[t] = x, \A u \in Tasks \ {t} : g[u] = h[u]
  PROVE  /\ Holders(h, b) \in Nat /\ Holders(g, b) \in Nat
         /\ Holders(g, b) + One(h[t], {b}) = Holders(h, b) + One(x, {b})
<1> DEFINE A == {u \in Tasks : h[u] = b}
           B == {u \in Tasks : g[u] = b}
<1>1. A \subseteq Tasks /\ B \subseteq Tasks
  OBVIOUS
<1>2. IsFiniteSet(A) /\ IsFiniteSet(B)
  BY <1>1, Constants, FS_Subset
<1>3. A \ {t} = B \ {t} /\ (t \in A <=> h[t] = b) /\ (t \in B <=> x = b)
  OBVIOUS
<1> HIDE DEF A, B
<1>5. /\ Cardinality(A) \in Nat /\ Cardinality(B) \in Nat
      /\ Cardinality(B) + One(t, A) = Cardinality(A) + One(t, B)
  BY <1>2, <1>3, OneMoves
<1>6. One(t, A) = One(h[t], {b}) /\ One(t, B) = One(x, {b})
  BY <1>3 DEF One
<1>7. QED
  BY <1>5, <1>6 DEF A, B, Holders

\* The tasks with a place change only with the task that moves on.
LEMMA Moves ==
  ASSUME NEW p \in [Tasks -> Labels], NEW t \in Tasks, NEW l \in Labels,
         NEW q \in [Tasks -> Labels],
         q[t] = l, \A u \in Tasks \ {t} : q[u] = p[u]
  PROVE  /\ Placed(p) \in Nat /\ Placed(q) \in Nat
         /\ Placed(q) + One(p[t], InPlace) = Placed(p) + One(l, InPlace)
<1> DEFINE A == {u \in Tasks : p[u] \in InPlace}
           B == {u \in Tasks : q[u] \in InPlace}
<1>1. A \subseteq Tasks /\ B \subseteq Tasks
  OBVIOUS
<1>2. IsFiniteSet(A) /\ IsFiniteSet(B)
  BY <1>1, Constants, FS_Subset
<1>3. /\ A \ {t} = B \ {t} /\ (t \in A <=> p[t] \in InPlace)
      /\ (t \in B <=> l \in InPlace)
  OBVIOUS
<1> HIDE DEF A, B
<1>5. /\ Cardinality(A) \in Nat /\ Cardinality(B) \in Nat
      /\ Cardinality(B) + One(t, A) = Cardinality(A) + One(t, B)
  BY <1>2, <1>3, OneMoves
<1>6. One(t, A) = One(p[t], InPlace) /\ One(t, B) = One(l, InPlace)
  BY <1>3 DEF One
<1>7. QED
  BY <1>5, <1>6 DEF A, B, Placed

Goes(t, x) == held' = [held EXCEPT ![t] = x]

LEMMA Gripped ==
  ASSUME held \in [Tasks -> Blocks \cup {NoBlock}], NEW t \in Tasks,
         NEW x \in Blocks \cup {NoBlock}, Goes(t, x), NEW b \in Blocks
  PROVE  /\ Holders(held, b) \in Nat /\ Holders(held', b) \in Nat
         /\ Holders(held', b) + One(held[t], {b}) = Holders(held, b) + One(x, {b})
<1>1. /\ held' \in [Tasks -> Blocks \cup {NoBlock}] /\ held'[t] = x
      /\ \A u \in Tasks \ {t} : held'[u] = held[u]
  BY DEF Goes
<1>2. held \in [Tasks -> Hand] /\ held' \in [Tasks -> Hand] /\ x \in Hand
  BY <1>1 DEF Hand
<1>3. QED
  BY SMTT(30), <1>1, <1>2, Grip

LEMMA Moved ==
  ASSUME pc \in [Tasks -> Labels], NEW t \in Tasks, NEW l \in Labels, Goto(t, l)
  PROVE  /\ Placed(pc) \in Nat /\ Placed(pc') \in Nat
         /\ Placed(pc') + One(pc[t], InPlace) = Placed(pc) + One(l, InPlace)
<1>1. /\ pc' \in [Tasks -> Labels] /\ pc'[t] = l
      /\ \A u \in Tasks \ {t} : pc'[u] = pc[u]
  BY DEF Goto
<1>2. QED
  BY <1>1, Moves

-----------------------------------------------------------------------------
(* What a step does to Hands and to the two sums.                          *)

Counts == queued \in Seq(Blocks) /\ finished \in Seq(Blocks)
          /\ sdio_send_queue_sem \in Nat /\ leaked \in Nat

LEMMA HandsMove ==
  ASSUME Shape, Hands, NEW t \in Tasks, NEW l \in Labels,
         NEW x \in Blocks \cup {NoBlock}, Goto(t, l), Goes(t, x),
         x # NoBlock <=> l \in Carrying
  PROVE  /\ pc' \in [Tasks -> Labels] /\ held' \in [Tasks -> Blocks \cup {NoBlock}]
         /\ Hands'
<1>1. /\ pc' \in [Tasks -> Labels] /\ pc'[t] = l
      /\ \A u \in Tasks \ {t} : pc'[u] = pc[u]
  BY DEF Shape, Goto
<1>2. /\ held' \in [Tasks -> Blocks \cup {NoBlock}] /\ held'[t] = x
      /\ \A u \in Tasks \ {t} : held'[u] = held[u]
  BY DEF Shape, Goes
<1>3. QED
  BY <1>1, <1>2 DEF Hands

\* The task's own share of the places counts with the rest.
LEMMA PlacesMove ==
  ASSUME Shape, PlacesAccounted, Counts', NEW t \in Tasks, NEW l \in Labels, Goto(t, l),
         sdio_send_queue_sem' + Len(queued') + Len(finished') + leaked'
             + One(l, InPlace)
           = sdio_send_queue_sem + Len(queued) + Len(finished) + leaked
               + One(pc[t], InPlace)
  PROVE  PlacesAccounted'
<1> DEFINE c == Placed(pc)
           d == Placed(pc')
           a == One(pc[t], InPlace)
           e == One(l, InPlace)
           m == sdio_send_queue_sem + Len(queued) + Len(finished) + leaked
           n == sdio_send_queue_sem' + Len(queued') + Len(finished') + leaked'
<1>1. c \in Nat /\ d \in Nat /\ d + a = c + e
  BY Moved DEF Shape
<1>2. a \in Nat /\ e \in Nat /\ m \in Nat /\ n \in Nat /\ TxQ \in Nat
  BY Constants DEF One, Shape, Counts
<1>3. m + c = TxQ /\ n + e = m + a
  BY DEF PlacesAccounted, Placed, InPlace
<1>4. PlacesAccounted' <=> n + d = TxQ
  BY DEF PlacesAccounted, Placed, InPlace
<1> HIDE DEF a, c, d, e, m, n
<1>5. n + d = TxQ
  BY <1>1, <1>2, <1>3
<1>6. QED
  BY <1>4, <1>5

LEMMA PlacesStay ==
  ASSUME Shape, PlacesAccounted, Counts', NEW t \in Tasks, NEW l \in Labels, Goto(t, l),
         UNCHANGED <<queued, finished, sdio_send_queue_sem, leaked>>,
         One(l, InPlace) = One(pc[t], InPlace)
  PROVE  PlacesAccounted'
<1>1. sdio_send_queue_sem' + Len(queued') + Len(finished') + leaked' + One(l, InPlace)
        = sdio_send_queue_sem + Len(queued) + Len(finished) + leaked
            + One(pc[t], InPlace)
  OBVIOUS
<1>2. QED
  BY <1>1, PlacesMove

Outside(b) == Occurs(free, b) + Occurs(queued, b) + Occurs(finished, b)

LEMMA OutsideNat ==
  ASSUME Shape, NEW b
  PROVE  /\ Occurs(free, b) \in Nat /\ Occurs(queued, b) \in Nat
         /\ Occurs(finished, b) \in Nat /\ Outside(b) \in Nat
<1>1. free \in Seq(Blocks) /\ queued \in Seq(Blocks) /\ finished \in Seq(Blocks)
  BY DEF Shape
<1>2. /\ Occurs(free, b) \in Nat /\ Occurs(queued, b) \in Nat
      /\ Occurs(finished, b) \in Nat
  BY <1>1, OccursFinite
<1>3. QED
  BY <1>2 DEF Outside

\* What leaves the three sequences comes into the task's hands, or the reverse.
LEMMA BlocksMove ==
  ASSUME Shape, Shape', BlockHasOneOwner, NEW t \in Tasks,
         NEW x \in Blocks \cup {NoBlock}, Goes(t, x),
         \A b \in Blocks : Outside(b)' + One(x, {b}) = Outside(b) + One(held[t], {b})
  PROVE  BlockHasOneOwner'
<1> SUFFICES ASSUME NEW b \in Blocks
             PROVE  Places(b)' = 1
  BY DEF BlockHasOneOwner
<1> DEFINE h == Holders(held, b)
           k == Holders(held', b)
           o == Outside(b)
           n == Outside(b)'
           a == One(x, {b})
           e == One(held[t], {b})
<1>1. h \in Nat /\ k \in Nat /\ k + e = h + a
  BY Gripped DEF Shape
<1>2. o \in Nat
  BY OutsideNat
<1>3. n \in Nat
  <2>1. free' \in Seq(Blocks) /\ queued' \in Seq(Blocks) /\ finished' \in Seq(Blocks)
    BY DEF Shape
  <2>2. /\ Occurs(free', b) \in Nat /\ Occurs(queued', b) \in Nat
        /\ Occurs(finished', b) \in Nat
    BY <2>1, OccursFinite
  <2>3. QED
    BY <2>2 DEF Outside
<1>4. a \in Nat /\ e \in Nat
  BY DEF One
<1>5. n + a = o + e
  OBVIOUS
<1>6. o + h = 1
  BY DEF BlockHasOneOwner, Places, Outside, Occurs, Holders
<1>7. Places(b)' = n + k
  BY DEF Places, Outside, Occurs, Holders
<1> HIDE DEF h, k, o, n, a, e
<1>8. n + k = 1
  BY <1>1, <1>2, <1>3, <1>4, <1>5, <1>6
<1>9. QED
  BY <1>7, <1>8

-----------------------------------------------------------------------------
(* The steps.                                                              *)

Kept == Shape' /\ Hands' /\ PlacesAccounted' /\ BlockHasOneOwner'

\* Nothing of the pool, the driver or the tasks changes.
LEMMA NothingMoves ==
  ASSUME Inv, UNCHANGED <<free, queued, finished, held, pc, sdio_send_queue_sem,
                          leaked, failures>>
  PROVE  Kept
  BY DEF Inv, Kept, Shape, Hands, PlacesAccounted, BlockHasOneOwner, Places

\* A task goes on with what it has: only places change hands.
LEMMA TaskMoves ==
  ASSUME Inv, NEW t \in Tasks, NEW l \in Labels,
         Goto(t, l), pc[t] \in Carrying <=> l \in Carrying,
         UNCHANGED <<free, queued, finished, held>>,
         sdio_send_queue_sem' \in Nat, leaked' \in Nat, failures' \in 0 .. MaxFailures,
         sdio_send_queue_sem' + leaked' + One(l, InPlace)
           = sdio_send_queue_sem + leaked + One(pc[t], InPlace)
  PROVE  Kept
<1>1. Shape /\ Hands /\ PlacesAccounted /\ BlockHasOneOwner
  BY DEF Inv
<1>2. held[t] \in Blocks \cup {NoBlock} /\ Goes(t, held[t])
  BY <1>1 DEF Shape, Goes
<1>3. held[t] # NoBlock <=> l \in Carrying
  BY <1>1 DEF Hands
<1>4. pc' \in [Tasks -> Labels] /\ held' \in [Tasks -> Blocks \cup {NoBlock}] /\ Hands'
  BY <1>1, <1>2, <1>3, HandsMove
<1>5. Shape'
  BY <1>1, <1>4 DEF Shape
<1>6. PlacesAccounted'
  <2> DEFINE n == Len(queued)
             m == Len(finished)
             s == sdio_send_queue_sem
             x == sdio_send_queue_sem'
             r == leaked
             y == leaked'
             a == One(pc[t], InPlace)
             e == One(l, InPlace)
  <2>1. /\ n \in Nat /\ m \in Nat /\ s \in Nat /\ x \in Nat /\ r \in Nat /\ y \in Nat
        /\ a \in Nat /\ e \in Nat
    BY <1>1 DEF Shape, One
  <2>0. x + y + e = s + r + a /\ Len(queued') = n /\ Len(finished') = m
    OBVIOUS
  <2> HIDE DEF n, m, s, x, r, y, a, e
  <2>2. x + n + m + y + e = s + n + m + r + a
    BY <2>0, <2>1
  <2>3. Counts'
    BY <1>5 DEF Shape, Counts
  <2>4. sdio_send_queue_sem' + Len(queued') + Len(finished') + leaked' + One(l, InPlace)
          = sdio_send_queue_sem + Len(queued) + Len(finished) + leaked
              + One(pc[t], InPlace)
    BY <2>0, <2>2 DEF n, m, s, x, r, y, a, e
  <2>5. QED
    BY <1>1, <2>3, <2>4, PlacesMove
<1>7. BlockHasOneOwner'
  BY <1>1 DEF BlockHasOneOwner, Places
<1>8. QED
  BY <1>4, <1>5, <1>6, <1>7 DEF Kept

Gets(t) ==
  /\ pc[t] \in {"write", "event"}
  /\ Get(t)
  /\ Goto(t, "take")
  /\ UNCHANGED <<queued, finished, sdio_send_queue_sem, leaked, failures>>

\* os_memblock_get: from the pool into a task's hands.
LEMMA BlockTaken ==
  ASSUME Inv, NEW t \in Tasks, Gets(t)
  PROVE  Kept
<1>1. Shape /\ Hands /\ PlacesAccounted /\ BlockHasOneOwner
  BY DEF Inv
<1> DEFINE e == Head(free)
<1>2. /\ free # <<>> /\ free' = Tail(free) /\ Goes(t, e) /\ Goto(t, "take")
      /\ UNCHANGED <<queued, finished, sdio_send_queue_sem, leaked, failures>>
  BY DEF Gets, Get, Goes
<1>3. e \in Blocks /\ free' \in Seq(Blocks) /\ free \in Seq(Blocks)
  BY <1>1, <1>2 DEF Shape
<1>4. held[t] = NoBlock /\ e # NoBlock
  BY <1>1, <1>3, Constants DEF Gets, Hands, Carrying
<1> HIDE DEF e
<1>5. pc' \in [Tasks -> Labels] /\ held' \in [Tasks -> Blocks \cup {NoBlock}] /\ Hands'
  BY <1>1, <1>2, <1>3, <1>4, HandsMove DEF Labels, Carrying
<1>6. Shape'
  BY <1>1, <1>2, <1>3, <1>5 DEF Shape
<1>7. PlacesAccounted'
  <2>1. Counts' /\ "take" \in Labels /\ One("take", InPlace) = One(pc[t], InPlace)
    BY <1>2, <1>6 DEF Gets, Shape, Counts, One, InPlace, Labels
  <2>2. QED
    BY <1>1, <1>2, <2>1, PlacesStay
<1>8. ASSUME NEW b \in Blocks
      PROVE  Outside(b)' + One(e, {b}) = Outside(b) + One(held[t], {b})
  <2>1. Occurs(free, b) = Occurs(free', b) + One(e, {b})
    BY <1>2, <1>3, OccursTail DEF e
  <2>2. One(held[t], {b}) = 0
    BY <1>4, Constants DEF One
  <2>3. /\ Occurs(free, b) \in Nat /\ Occurs(free', b) \in Nat /\ Occurs(queued, b) \in Nat
        /\ Occurs(finished, b) \in Nat /\ One(e, {b}) \in Nat
    BY <1>1, <1>3, OutsideNat, OccursFinite DEF One
  <2>4. Outside(b)' = Occurs(free', b) + Occurs(queued, b) + Occurs(finished, b)
    BY <1>2 DEF Outside
  <2>5. QED
    BY <2>1, <2>2, <2>3, <2>4 DEF Outside
<1>9. BlockHasOneOwner'
  BY <1>1, <1>2, <1>3, <1>6, <1>8, BlocksMove
<1>10. QED
  BY <1>5, <1>6, <1>7, <1>9 DEF Kept

\* os_memblock_put: from a task's hands back into the pool.
LEMMA BlockFreed ==
  ASSUME Inv, NEW t \in Tasks, FreeBlock(t)
  PROVE  Kept
<1>1. Shape /\ Hands /\ PlacesAccounted /\ BlockHasOneOwner
  BY DEF Inv
<1> DEFINE e == held[t]
<1>2. /\ free' = <<e>> \o free /\ Goes(t, NoBlock) /\ Goto(t, "idle")
      /\ UNCHANGED <<queued, finished, sdio_send_queue_sem, leaked, failures>>
  BY DEF FreeBlock, Put, Goes, driver, history
<1>3. pc[t] = "free" /\ e \in Blocks
  BY <1>1 DEF FreeBlock, Hands, Carrying, Shape
<1> HIDE DEF e
<1>4. free' \in Seq(Blocks) /\ free \in Seq(Blocks)
  BY <1>1, <1>2, <1>3, PushFacts DEF Shape
<1>5. pc' \in [Tasks -> Labels] /\ held' \in [Tasks -> Blocks \cup {NoBlock}] /\ Hands'
  BY <1>1, <1>2, HandsMove DEF Labels, Carrying
<1>6. Shape'
  BY <1>1, <1>2, <1>4, <1>5 DEF Shape
<1>7. PlacesAccounted'
  <2>1. Counts' /\ "idle" \in Labels /\ One("idle", InPlace) = One(pc[t], InPlace)
    BY <1>3, <1>6 DEF Shape, Counts, One, InPlace, Labels
  <2>2. QED
    BY <1>1, <1>2, <2>1, PlacesStay
<1>8. ASSUME NEW b \in Blocks
      PROVE  Outside(b)' + One(NoBlock, {b}) = Outside(b) + One(held[t], {b})
  <2>1. Occurs(free', b) = Occurs(free, b) + One(e, {b})
    BY <1>2, <1>3, <1>4, OccursPush
  <2>2. One(NoBlock, {b}) = 0
    BY Constants DEF One
  <2>3. /\ Occurs(free, b) \in Nat /\ Occurs(free', b) \in Nat /\ Occurs(queued, b) \in Nat
        /\ Occurs(finished, b) \in Nat /\ One(e, {b}) \in Nat
    BY <1>1, <1>4, OutsideNat, OccursFinite DEF One
  <2>4. Outside(b)' = Occurs(free', b) + Occurs(queued, b) + Occurs(finished, b)
    BY <1>2 DEF Outside
  <2>5. One(held[t], {b}) = One(e, {b})
    BY DEF e
  <2>6. QED
    BY <2>1, <2>2, <2>3, <2>4, <2>5 DEF Outside
<1>9. BlockHasOneOwner'
  BY <1>1, <1>2, <1>6, <1>8, BlocksMove
<1>10. QED
  BY <1>5, <1>6, <1>7, <1>9 DEF Kept

\* sdio_slave_send_queue: from a task's hands into the driver, with its place.
LEMMA BlockQueued ==
  ASSUME Inv, NEW t \in Tasks, Queue(t)
  PROVE  Kept
<1>1. Shape /\ Hands /\ PlacesAccounted /\ BlockHasOneOwner
  BY DEF Inv
<1> DEFINE e == held[t]
<1>2. /\ queued' = Append(queued, e) /\ Goes(t, NoBlock) /\ Goto(t, "idle")
      /\ UNCHANGED <<free, finished, sdio_send_queue_sem, leaked, failures>>
  BY DEF Queue, Goes
<1>3. pc[t] = "queue" /\ e \in Blocks
  BY <1>1 DEF Queue, Hands, Carrying, Shape
<1> HIDE DEF e
<1>4. /\ queued' \in Seq(Blocks) /\ queued \in Seq(Blocks)
      /\ Len(queued) \in Nat /\ Len(queued') = Len(queued) + 1
  <2>1. queued \in Seq(Blocks)
    BY <1>1 DEF Shape
  <2>2. QED
    BY <2>1, <1>2, <1>3, AppendFacts
<1>5. pc' \in [Tasks -> Labels] /\ held' \in [Tasks -> Blocks \cup {NoBlock}] /\ Hands'
  BY <1>1, <1>2, HandsMove DEF Labels, Carrying
<1>6. Shape'
  BY <1>1, <1>2, <1>4, <1>5 DEF Shape
<1>7. PlacesAccounted'
  <2>1. /\ Counts' /\ "idle" \in Labels
        /\ One("idle", InPlace) = 0 /\ One(pc[t], InPlace) = 1
    BY <1>3, <1>6 DEF Shape, Counts, One, InPlace, Labels
  <2>2. sdio_send_queue_sem \in Nat /\ Len(finished) \in Nat /\ leaked \in Nat
    BY <1>1 DEF Shape
  <2>3. sdio_send_queue_sem' + Len(queued') + Len(finished') + leaked' + One("idle", InPlace)
          = sdio_send_queue_sem + Len(queued) + Len(finished) + leaked
              + One(pc[t], InPlace)
    BY <1>2, <1>4, <2>1, <2>2
  <2>4. QED
    BY <1>1, <1>2, <2>1, <2>3, PlacesMove
<1>8. ASSUME NEW b \in Blocks
      PROVE  Outside(b)' + One(NoBlock, {b}) = Outside(b) + One(held[t], {b})
  <2>1. Occurs(queued', b) = Occurs(queued, b) + One(e, {b})
    BY <1>2, <1>3, <1>4, OccursAppend
  <2>2. One(NoBlock, {b}) = 0
    BY Constants DEF One
  <2>3. /\ Occurs(free, b) \in Nat /\ Occurs(queued, b) \in Nat /\ Occurs(queued', b) \in Nat
        /\ Occurs(finished, b) \in Nat /\ One(e, {b}) \in Nat
    BY <1>1, <1>4, OutsideNat, OccursFinite DEF One
  <2>4. Outside(b)' = Occurs(free, b) + Occurs(queued', b) + Occurs(finished, b)
    BY <1>2 DEF Outside
  <2>5. One(held[t], {b}) = One(e, {b})
    BY DEF e
  <2>6. QED
    BY <2>1, <2>2, <2>3, <2>4, <2>5 DEF Outside
<1>9. BlockHasOneOwner'
  BY <1>1, <1>2, <1>6, <1>8, BlocksMove
<1>10. QED
  BY <1>5, <1>6, <1>7, <1>9 DEF Kept

\* The host reads a block: it goes from one queue of the driver to the other.
LEMMA BlockRead ==
  ASSUME Inv, HostReads
  PROVE  Kept
<1>1. Shape /\ Hands /\ PlacesAccounted /\ BlockHasOneOwner
  BY DEF Inv
<1> DEFINE e == Head(queued)
<1>2. /\ queued # <<>> /\ queued' = Tail(queued) /\ finished' = Append(finished, e)
      /\ UNCHANGED <<free, sdio_send_queue_sem, pc, held, leaked, failures>>
  BY DEF HostReads, history
<1>3. queued \in Seq(Blocks) /\ finished \in Seq(Blocks)
  BY <1>1 DEF Shape
<1>4. /\ queued' \in Seq(Blocks) /\ e \in Blocks
      /\ Len(queued') \in Nat /\ Len(queued) = Len(queued') + 1
  BY <1>2, <1>3, TailFacts
<1> HIDE DEF e
<1>5. /\ finished' \in Seq(Blocks)
      /\ Len(finished) \in Nat /\ Len(finished') = Len(finished) + 1
  BY <1>2, <1>3, <1>4, AppendFacts
<1>6. Shape' /\ Hands'
  BY <1>1, <1>2, <1>4, <1>5 DEF Shape, Hands
<1>7. PlacesAccounted'
  <2>1. Placed(pc) \in Nat /\ Placed(pc') = Placed(pc)
    <3>1. {t \in Tasks : pc[t] \in InPlace} \subseteq Tasks
      OBVIOUS
    <3>2. IsFiniteSet({t \in Tasks : pc[t] \in InPlace})
      BY <3>1, Constants, FS_Subset
    <3>3. QED
      BY <1>2, <3>2, FS_CardinalityType DEF Placed
  <2> DEFINE c == Placed(pc)
  <2>2. sdio_send_queue_sem + Len(queued) + Len(finished) + leaked + c = TxQ
    BY <1>1 DEF PlacesAccounted, Placed, InPlace
  <2>3. sdio_send_queue_sem \in Nat /\ leaked \in Nat
    BY <1>1 DEF Shape
  <2> HIDE DEF c
  <2>4. sdio_send_queue_sem' + Len(queued') + Len(finished') + leaked' + c = TxQ
    BY <1>2, <1>4, <1>5, <2>1, <2>2, <2>3 DEF c
  <2>5. QED
    BY <2>1, <2>4 DEF PlacesAccounted, Placed, InPlace, c
<1>8. ASSUME NEW b \in Blocks
      PROVE  Places(b)' = Places(b)
  <2>1. Occurs(finished', b) = Occurs(finished, b) + One(e, {b})
    BY <1>2, <1>3, <1>4, OccursAppend
  <2>2. Occurs(queued, b) = Occurs(queued', b) + One(e, {b})
    BY <1>2, <1>3, OccursTail DEF e
  <2>3. /\ Occurs(free, b) \in Nat /\ Occurs(queued, b) \in Nat /\ Occurs(queued', b) \in Nat
        /\ Occurs(finished, b) \in Nat /\ One(e, {b}) \in Nat
    BY <1>1, <1>4, OutsideNat, OccursFinite DEF One
  <2> DEFINE h == Holders(held, b)
  <2>4. Places(b)' = Occurs(free, b) + Occurs(queued', b) + Occurs(finished', b) + h
    BY <1>2 DEF Places, Occurs, Holders
  <2>5. Places(b) = Occurs(free, b) + Occurs(queued, b) + Occurs(finished, b) + h
    BY DEF Places, Occurs, Holders
  <2>6. h \in Nat
    <3>1. {t \in Tasks : held[t] = b} \subseteq Tasks
      OBVIOUS
    <3>2. QED
      BY <3>1, Constants, FS_Subset, FS_CardinalityType DEF Holders
  <2> HIDE DEF h
  <2>7. QED
    BY <2>1, <2>2, <2>3, <2>4, <2>5, <2>6
<1>9. BlockHasOneOwner'
  BY <1>1, <1>8 DEF BlockHasOneOwner
<1>10. QED
  BY <1>6, <1>7, <1>9 DEF Kept

\* sdio_tx_done_task takes back a block that the host has read, with its place.
LEMMA BlockReturned ==
  ASSUME Inv, GetFinished
  PROVE  Kept
<1>1. Shape /\ Hands /\ PlacesAccounted /\ BlockHasOneOwner
  BY DEF Inv
<1> DEFINE e == Head(finished)
<1>2. /\ finished # <<>> /\ finished' = Tail(finished)
      /\ Goes(TxDone, e) /\ Goto(TxDone, "give")
      /\ UNCHANGED <<free, queued, sdio_send_queue_sem, leaked, failures>>
  BY DEF GetFinished, Goes, history
<1>3. finished \in Seq(Blocks) /\ TxDone \in Tasks
  BY <1>1, Constants DEF Shape
<1>4. /\ finished' \in Seq(Blocks) /\ e \in Blocks
      /\ Len(finished') \in Nat /\ Len(finished) = Len(finished') + 1
  BY <1>2, <1>3, TailFacts
<1>5. pc[TxDone] = "idle" /\ held[TxDone] = NoBlock /\ e # NoBlock
  BY <1>1, <1>3, <1>4, Constants DEF GetFinished, Hands, Carrying
<1> HIDE DEF e
<1>6. pc' \in [Tasks -> Labels] /\ held' \in [Tasks -> Blocks \cup {NoBlock}] /\ Hands'
  BY <1>1, <1>2, <1>3, <1>4, <1>5, HandsMove DEF Labels, Carrying
<1>7. Shape'
  BY <1>1, <1>2, <1>4, <1>6 DEF Shape
<1>8. PlacesAccounted'
  <2>1. /\ Counts' /\ "give" \in Labels
        /\ One("give", InPlace) = 1 /\ One(pc[TxDone], InPlace) = 0
    BY <1>5, <1>7 DEF Shape, Counts, One, InPlace, Labels
  <2>2. sdio_send_queue_sem \in Nat /\ Len(queued) \in Nat /\ leaked \in Nat
    BY <1>1 DEF Shape
  <2>3. sdio_send_queue_sem' + Len(queued') + Len(finished') + leaked' + One("give", InPlace)
          = sdio_send_queue_sem + Len(queued) + Len(finished) + leaked
              + One(pc[TxDone], InPlace)
    BY <1>2, <1>4, <2>1, <2>2
  <2>4. QED
    BY <1>1, <1>2, <1>3, <2>1, <2>3, PlacesMove
<1>9. ASSUME NEW b \in Blocks
      PROVE  Outside(b)' + One(e, {b}) = Outside(b) + One(held[TxDone], {b})
  <2>1. Occurs(finished, b) = Occurs(finished', b) + One(e, {b})
    BY <1>2, <1>3, OccursTail DEF e
  <2>2. One(held[TxDone], {b}) = 0
    BY <1>5, Constants DEF One
  <2>3. /\ Occurs(free, b) \in Nat /\ Occurs(queued, b) \in Nat /\ Occurs(finished, b) \in Nat
        /\ Occurs(finished', b) \in Nat /\ One(e, {b}) \in Nat
    BY <1>1, <1>4, OutsideNat, OccursFinite DEF One
  <2>4. Outside(b)' = Occurs(free, b) + Occurs(queued, b) + Occurs(finished', b)
    BY <1>2 DEF Outside
  <2>5. QED
    BY <2>1, <2>2, <2>3, <2>4 DEF Outside
<1>10. BlockHasOneOwner'
  BY <1>1, <1>2, <1>3, <1>4, <1>7, <1>9, BlocksMove
<1>11. QED
  BY <1>6, <1>7, <1>8, <1>10 DEF Kept

LEMMA Continues ==
  ASSUME Inv, NEW t \in Tasks
  PROVE  /\ t \in Senders /\ Take(t) => Kept
         /\ GiveBack(t) => Kept
         /\ Forward(t) => Kept
         /\ DropPacket(t) => Kept
         /\ PacketRefused(t) => Kept
<1>1. /\ sdio_send_queue_sem \in Nat /\ leaked \in Nat /\ failures \in 0 .. MaxFailures
      /\ MaxFailures \in Nat
  BY Constants DEF Inv, Shape
<1>2. ASSUME Take(t) PROVE Kept
  <2>1. /\ pc[t] = "take" /\ Goto(t, "queue") /\ "queue" \in Labels
        /\ UNCHANGED <<free, queued, finished, held, leaked, failures>>
    BY <1>2 DEF Take, driver, history, Labels
  <2>2. /\ sdio_send_queue_sem' \in Nat /\ sdio_send_queue_sem' = sdio_send_queue_sem - 1
        /\ One(pc[t], InPlace) = 0 /\ One("queue", InPlace) = 1
    BY <1>1, <1>2, <2>1 DEF Take, One, InPlace
  <2>3. QED
    BY <1>1, <2>1, <2>2, TaskMoves DEF Carrying
<1>3. ASSUME GiveBack(t) PROVE Kept
  <2>1. /\ pc[t] = "give" /\ Goto(t, "free") /\ "free" \in Labels
        /\ UNCHANGED <<free, queued, finished, held, leaked, failures>>
    BY <1>3 DEF GiveBack, driver, history, Labels
  <2>2. /\ sdio_send_queue_sem' \in Nat /\ sdio_send_queue_sem' = sdio_send_queue_sem + 1
        /\ One(pc[t], InPlace) = 1 /\ One("free", InPlace) = 0
    BY <1>1, <1>3, <2>1 DEF GiveBack, One, InPlace
  <2>3. QED
    BY <1>1, <2>1, <2>2, TaskMoves DEF Carrying
<1>4. ASSUME Forward(t) PROVE Kept
  <2>1. /\ pc[t] = "idle" /\ Goto(t, "write") /\ "write" \in Labels
        /\ UNCHANGED <<free, queued, finished, held, leaked, failures, sdio_send_queue_sem>>
    BY <1>4 DEF Forward, driver, history, Labels
  <2>2. One(pc[t], InPlace) = 0 /\ One("write", InPlace) = 0
    BY <2>1 DEF One, InPlace
  <2>3. QED
    BY <1>1, <2>1, <2>2, TaskMoves DEF Carrying
<1>5. ASSUME DropPacket(t) PROVE Kept
  <2>1. /\ pc[t] = "write" /\ Goto(t, "idle") /\ "idle" \in Labels
        /\ UNCHANGED <<free, queued, finished, held, leaked, failures, sdio_send_queue_sem>>
    BY <1>5 DEF DropPacket, driver, history, Labels
  <2>2. One(pc[t], InPlace) = 0 /\ One("idle", InPlace) = 0
    BY <2>1 DEF One, InPlace
  <2>3. QED
    BY <1>1, <2>1, <2>2, TaskMoves DEF Carrying
<1>6. ASSUME PacketRefused(t) PROVE Kept
  <2>1. /\ pc[t] = "queue" /\ Goto(t, "give") /\ "give" \in Labels
        /\ UNCHANGED <<free, queued, finished, held, leaked, sdio_send_queue_sem>>
    BY <1>6 DEF PacketRefused, driver, Labels
  <2>2. One(pc[t], InPlace) = 1 /\ One("give", InPlace) = 1
    BY <2>1 DEF One, InPlace
  <2>3. failures' \in 0 .. MaxFailures
    BY <1>1, <1>6 DEF PacketRefused
  <2>4. QED
    BY <1>1, <2>1, <2>2, <2>3, TaskMoves DEF Carrying
<1>7. QED
  BY <1>2, <1>3, <1>4, <1>5, <1>6

LEMMA ResetContinues ==
  ASSUME Inv
  PROVE  /\ ResetBegin => Kept
         /\ EventRefused => Kept
<1>1. /\ sdio_send_queue_sem \in Nat /\ leaked \in Nat /\ failures \in 0 .. MaxFailures
      /\ MaxFailures \in Nat /\ Resetter \in Tasks
  BY Constants DEF Inv, Shape
<1>2. ASSUME ResetBegin PROVE Kept
  <2>1. /\ pc[Resetter] = "idle" /\ Goto(Resetter, "event") /\ "event" \in Labels
        /\ UNCHANGED <<free, queued, finished, held, leaked, failures, sdio_send_queue_sem>>
    BY <1>2 DEF ResetBegin, driver, history, Labels
  <2>2. One(pc[Resetter], InPlace) = 0 /\ One("event", InPlace) = 0
    BY <2>1 DEF One, InPlace
  <2>3. QED
    BY <1>1, <2>1, <2>2, TaskMoves DEF Carrying
<1>3. ASSUME EventRefused PROVE Kept
  <2>1. /\ pc[Resetter] = "queue" /\ Goto(Resetter, "free") /\ "free" \in Labels
        /\ UNCHANGED <<free, queued, finished, held, sdio_send_queue_sem>>
    BY <1>3 DEF EventRefused, driver, Labels
  <2>2. /\ leaked' \in Nat /\ leaked' = leaked + 1
        /\ One(pc[Resetter], InPlace) = 1 /\ One("free", InPlace) = 0
    BY <1>1, <1>3, <2>1 DEF EventRefused, One, InPlace
  <2>3. failures' \in 0 .. MaxFailures
    BY <1>1, <1>3 DEF EventRefused
  <2>4. QED
    BY <1>1, <2>1, <2>2, <2>3, TaskMoves DEF Carrying
<1>4. QED
  BY <1>2, <1>3

-----------------------------------------------------------------------------
(* The invariant.                                                          *)

LEMMA StepBooleans ==
  ASSUME Booleans, [Next]_vars
  PROVE  Booleans'
<1> USE DEF Booleans
<1>1. CASE Host
  BY <1>1 DEF Host, OpenDataPath, CloseDataPath, PowerSaveOff, HostReads, link, history
<1>2. CASE AlertGives
  BY <1>2 DEF AlertGives, history
<1>3. ASSUME NEW w \in Writers, Write(w) PROVE Booleans'
  <2>1. CASE Forward(w) \/ DropPacket(w) \/ AllocPacket(w) \/ PacketRefused(w)
    BY <2>1 DEF Forward, DropPacket, AllocPacket, PacketRefused, link, history
  <2>2. CASE Take(w) \/ GiveBack(w) \/ FreeBlock(w)
    BY <2>2 DEF Take, GiveBack, FreeBlock, link, history
  <2>3. CASE Queue(w)
    BY <2>3 DEF Queue, link
  <2>4. QED
    BY <1>3, <2>1, <2>2, <2>3 DEF Write, WriteOn
<1>4. CASE HostReset
  <2>1. CASE ResetBegin \/ AllocEvent \/ AllocAborts \/ EventRefused
    BY <2>1 DEF ResetBegin, AllocEvent, AllocAborts, EventRefused, link, history
  <2>2. CASE Take(Resetter) \/ FreeBlock(Resetter)
    BY <2>2 DEF Take, FreeBlock, link, history
  <2>3. CASE Queue(Resetter)
    BY <2>3 DEF Queue, link
  <2>4. QED
    BY <1>4, <2>1, <2>2, <2>3 DEF HostReset
<1>5. CASE SendDone
  BY <1>5 DEF SendDone, GetFinished, GiveBack, FreeBlock, link, history
<1>6. CASE UNCHANGED vars
  BY <1>6 DEF vars, link, history
<1>7. QED
  BY <1>1, <1>2, <1>3, <1>4, <1>5, <1>6 DEF Next

LEMMA StepKeeps ==
  ASSUME Inv, [Next]_vars
  PROVE  Kept
<1>1. CASE Host
  <2>1. CASE OpenDataPath \/ CloseDataPath \/ PowerSaveOff
    BY <2>1, NothingMoves
       DEF OpenDataPath, CloseDataPath, PowerSaveOff, driver, history
  <2>2. QED
    BY <1>1, <2>1, BlockRead DEF Host
<1>2. CASE AlertGives
  BY <1>2, NothingMoves DEF AlertGives, driver, history
<1>3. ASSUME NEW w \in Writers, Write(w) PROVE Kept
  <2>1. w \in Tasks /\ w \in Senders
    BY Constants DEF Senders
  <2>2. AllocPacket(w) => Gets(w)
    BY DEF AllocPacket, Gets, driver, history
  <2>3. QED
    BY <1>3, <2>1, <2>2, Continues, BlockTaken, BlockQueued, BlockFreed
       DEF Write, WriteOn
<1>4. CASE HostReset
  <2>1. Resetter \in Tasks /\ Resetter \in Senders
    BY Constants DEF Senders
  <2>2. AllocEvent => Gets(Resetter)
    BY DEF AllocEvent, Gets, driver, history
  <2>3. AllocAborts => Kept
    BY NothingMoves DEF AllocAborts, driver, history
  <2>4. QED
    BY <1>4, <2>1, <2>2, <2>3, Continues, ResetContinues, BlockTaken, BlockQueued,
       BlockFreed DEF HostReset
<1>5. CASE SendDone
  BY <1>5, Constants, BlockReturned, Continues, BlockFreed DEF SendDone
<1>6. CASE UNCHANGED vars
  BY <1>6, NothingMoves DEF vars, driver, history
<1>7. QED
  BY <1>1, <1>2, <1>3, <1>4, <1>5, <1>6 DEF Next

LEMMA InitInv == Init => Inv
<1> SUFFICES ASSUME Init
             PROVE  Inv
  OBVIOUS
<1>1. Booleans
  BY DEF Init, Booleans
<1>2. TxQ \in Nat /\ Spare \in Nat /\ MaxFailures \in Nat /\ NoBlock \notin Blocks
  BY Constants
<1>3. free \in Seq(Blocks) /\ free = [i \in Blocks |-> i]
  BY <1>2 DEF Init, Blocks
<1>4. Shape
  BY <1>2, <1>3 DEF Init, Shape, Labels
<1>5. Hands
  BY DEF Init, Hands, Carrying
<1>6. PlacesAccounted
  <2>1. {t \in Tasks : pc[t] \in {"queue", "give"}} = {}
    BY DEF Init
  <2>2. QED
    BY <1>2, <2>1, FS_EmptySet DEF Init, PlacesAccounted
<1>7. ASSUME NEW b \in Blocks PROVE Places(b) = 1
  <2>1. {i \in DOMAIN free : free[i] = b} = {b}
    BY <1>3
  <2>2. {i \in DOMAIN queued : queued[i] = b} = {}
    BY DEF Init
  <2>3. {i \in DOMAIN finished : finished[i] = b} = {}
    BY DEF Init
  <2>4. {t \in Tasks : held[t] = b} = {}
    BY <1>2 DEF Init
  <2>5. Cardinality({b}) = 1 /\ Cardinality({}) = 0
    BY FS_Singleton, FS_EmptySet
  <2>6. QED
    BY <2>1, <2>2, <2>3, <2>4, <2>5 DEF Places
<1>8. QED
  BY <1>1, <1>4, <1>5, <1>6, <1>7 DEF Inv, BlockHasOneOwner

THEOREM Invariance == Spec => []Inv
<1>1. Inv /\ [Next]_vars => Inv'
  BY StepKeeps, StepBooleans DEF Inv, Kept
<1>2. QED
  BY InitInv, <1>1, PTL DEF Spec

\* Every place of the driver is in the semaphore, in use, with a task, or
\* leaked by a start-up event that the driver refused.
THEOREM PlacesAreAccounted == Spec => []PlacesAccounted
<1>1. Inv => PlacesAccounted
  BY DEF Inv
<1>2. QED
  BY Invariance, <1>1, PTL

\* However many tasks send, and whatever the driver refuses, a block of the
\* pool always has exactly one owner: none is lost, none is in use twice.
THEOREM BlocksHaveOneOwner == Spec => []BlockHasOneOwner
<1>1. Inv => BlockHasOneOwner
  BY DEF Inv
<1>2. QED
  BY Invariance, <1>1, PTL

\* Type correctness; that xSemaphoreGive never passes the count with which the
\* semaphore was made follows from the sum of the places.
THEOREM TypeCorrect == Spec => []TypeOK
<1>1. Inv => TypeOK
  <2> SUFFICES ASSUME Inv
               PROVE  TypeOK
    OBVIOUS
  <2>1. sdio_send_queue_sem \in 0 .. TxQ
    <3> DEFINE c == Placed(pc)
               n == Len(queued)
               m == Len(finished)
    <3>1. {t \in Tasks : pc[t] \in InPlace} \subseteq Tasks
      OBVIOUS
    <3>2. c \in Nat
      BY <3>1, Constants, FS_Subset, FS_CardinalityType DEF Placed
    <3>3. /\ sdio_send_queue_sem \in Nat /\ n \in Nat /\ m \in Nat /\ leaked \in Nat
          /\ TxQ \in Nat
      BY Constants DEF Inv, Shape
    <3>4. sdio_send_queue_sem + n + m + leaked + c = TxQ
      BY DEF Inv, PlacesAccounted, Placed, InPlace
    <3> HIDE DEF c, n, m
    <3>5. QED
      BY <3>2, <3>3, <3>4
  <2>2. {datapath, host_reset_sem, alert, aborted, owed} \subseteq BOOLEAN
        /\ state \in {"DEACTIVE", "ACTIVE"}
    BY DEF Inv, Booleans
  <2>3. QED
    BY <2>1, <2>2 DEF TypeOK, Inv, Shape
<1>2. QED
  BY Invariance, <1>1, PTL
=============================================================================
