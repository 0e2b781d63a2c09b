--------------------------- MODULE DeliveryProofs ---------------------------
(***************************************************************************)
(* Proofs about the bus of Process: every event reaches its subscribers,   *)
(* for any files, however many events wait and however long a process      *)
(* runs.                                                                   *)
(*                                                                         *)
(* What is owed is the concatenation of a sequence of sequences, which the *)
(* library defines by a recursive function: the lemmas about it need       *)
(* induction over the length of the sequence.                              *)
(***************************************************************************)
EXTENDS ProcessProofs, FiniteSetTheorems

-----------------------------------------------------------------------------
(* Induction over the numbers from 1 on.                                   *)

LEMMA LeastNumber ==
  ASSUME NEW B \in SUBSET Nat, B # {}
  PROVE  \E m \in B : \A k \in B : m <= k
<1> DEFINE T == {0 .. n : n \in B}
           R == StrictSubsetOrdering(Nat)
<1>1. T \subseteq FiniteSubsetsOf(Nat)
  <2>1. \A n \in B : IsFiniteSet(0 .. n)
    BY FS_Interval
  <2> QED
    BY <2>1 DEF FiniteSubsetsOf
<1>2. T # {}
  OBVIOUS
<1>3. PICK x \in T : \A y \in T : <<y, x>> \notin R
  <2> HIDE DEF T, R
  <2>1. IsWellFoundedOn(R, FiniteSubsetsOf(Nat))
    BY FS_StrictSubsetOrderingWellFounded DEF R
  <2> QED
    BY <1>1, <1>2, <2>1, WFMin
<1>4. PICK m \in B : x = 0 .. m
  OBVIOUS
<1>5. ASSUME NEW k \in B, k < m
      PROVE  FALSE
  <2>1. /\ 0 .. k \in T
        /\ 0 .. k \subseteq 0 .. m
        /\ 0 .. k # 0 .. m
    BY <1>5
  <2>2. <<0 .. k, 0 .. m>> \in R
    BY <2>1 DEF StrictSubsetOrdering
  <2> QED
    BY <1>3, <1>4, <2>1, <2>2
<1> QED
  BY <1>5

LEMMA CountingUp ==
  ASSUME NEW S, 1 \in S, \A n \in Nat \ {0} : n \in S => n + 1 \in S
  PROVE  Nat \ {0} \subseteq S
<1> SUFFICES ASSUME (Nat \ {0}) \ S # {} PROVE FALSE
  OBVIOUS
<1> DEFINE B == (Nat \ {0}) \ S
<1>1. PICK m \in B : \A k \in B : m <= k
  <2>1. B \in SUBSET Nat /\ B # {}
    OBVIOUS
  <2> HIDE DEF B
  <2> QED
    BY <2>1, LeastNumber
<1>2. m # 1 /\ m - 1 \in Nat \ {0} /\ m - 1 < m
  OBVIOUS
<1>3. m - 1 \in S
  BY <1>1, <1>2
<1> QED
  BY <1>2, <1>3

LEMMA ConcatIsAssociative ==
  ASSUME NEW X, NEW a \in Seq(X), NEW b \in Seq(X), NEW c \in Seq(X)
  PROVE  a \o (b \o c) = (a \o b) \o c
BY ConcatAssociative, SMTT(60)

LEMMA TailOfConcat ==
  ASSUME NEW X, NEW s \in Seq(X), NEW t \in Seq(X), s # <<>>
  PROVE  Tail(s \o t) = Tail(s) \o t
<1>1. /\ Len(s) \in Nat \ {0} /\ Len(t) \in Nat
      /\ s \o t \in Seq(X) /\ s \o t # <<>>
      /\ Len(s \o t) = Len(s) + Len(t)
      /\ Tail(s) \in Seq(X) /\ Len(Tail(s)) = Len(s) - 1
  BY EmptySeq, LenProperties, ConcatProperties, HeadTailProperties
<1>2. /\ Tail(s \o t) \in Seq(X)
      /\ Len(Tail(s \o t)) = Len(s) + Len(t) - 1
      /\ Tail(s) \o t \in Seq(X)
      /\ Len(Tail(s) \o t) = Len(s) + Len(t) - 1
  BY <1>1, ConcatProperties, HeadTailProperties
<1>3. ASSUME NEW i \in 1 .. Len(s) + Len(t) - 1
      PROVE  Tail(s \o t)[i] = (Tail(s) \o t)[i]
  <2>1. Tail(s \o t)[i] = (s \o t)[i + 1]
    BY <1>1, <1>2, HeadTailProperties
  <2>2. (s \o t)[i + 1] = IF i < Len(s) THEN s[i + 1] ELSE t[i + 1 - Len(s)]
    BY <1>1, ConcatProperties
  <2>3. (Tail(s) \o t)[i] = IF i < Len(s) THEN Tail(s)[i]
                            ELSE t[i - (Len(s) - 1)]
    BY <1>1, ConcatProperties
  <2>4. i < Len(s) => Tail(s)[i] = s[i + 1]
    BY <1>1, HeadTailProperties
  <2>5. i + 1 - Len(s) = i - (Len(s) - 1)
    BY <1>1
  <2> QED
    BY <2>1, <2>2, <2>3, <2>4, <2>5
<1> QED
  BY <1>1, <1>2, <1>3, SeqEqual

Flattens(f, seqs) ==
  f = [i \in 1 .. Len(seqs) |->
         IF i = 1 THEN seqs[i] ELSE f[i - 1] \o seqs[i]]

LEMMA FlattenIs ==
  ASSUME NEW X, NEW seqs \in Seq(X), seqs # <<>>,
         NEW f, Flattens(f, seqs)
  PROVE  FlattenSeq(seqs) = f[Len(seqs)]
<1> DEFINE g == CHOOSE h : Flattens(h, seqs)
           S == {n \in Nat : n \in 1 .. Len(seqs) => g[n] = f[n]}
<1>1. Flattens(g, seqs)
  OBVIOUS
<1>2. FlattenSeq(seqs) = g[Len(seqs)]
  <2>1. Len(seqs) # 0
    BY EmptySeq
  <2> QED
    BY <2>1 DEF FlattenSeq, Flattens
<1>3. Len(seqs) \in Nat \ {0}
  BY EmptySeq
<1> HIDE DEF g
<1>4. 1 \in S
  BY <1>1, <1>3 DEF Flattens
<1>5. ASSUME NEW n \in Nat \ {0}, n \in S
      PROVE  n + 1 \in S
  <2> SUFFICES ASSUME n + 1 \in 1 .. Len(seqs) PROVE g[n + 1] = f[n + 1]
    OBVIOUS
  <2>1. g[n] = f[n] /\ n + 1 # 1 /\ (n + 1) - 1 = n
    BY <1>3, <1>5
  <2>2. g[n + 1] = g[(n + 1) - 1] \o seqs[n + 1]
    BY <1>1, <2>1 DEF Flattens
  <2>3. f[n + 1] = f[(n + 1) - 1] \o seqs[n + 1]
    BY <2>1 DEF Flattens
  <2> QED
    BY <2>1, <2>2, <2>3
<1>6. Nat \ {0} \subseteq S
  <2> HIDE DEF S
  <2> QED
    BY <1>4, <1>5, CountingUp
<1> QED
  BY <1>2, <1>3, <1>6

FlatUpTo(f, seqs, n) ==
  \A i \in 1 .. n : f[i] = IF i = 1 THEN seqs[i] ELSE f[i - 1] \o seqs[i]

IsFlat(seqs, X, n) ==
  n <= Len(seqs) => \E f \in [1 .. n -> Seq(X)] : FlatUpTo(f, seqs, n)

LEMMA FlattenExists ==
  ASSUME NEW X, NEW seqs \in Seq(Seq(X)), seqs # <<>>
  PROVE  \E f \in [1 .. Len(seqs) -> Seq(X)] : Flattens(f, seqs)
<1> DEFINE S == {n \in Nat \ {0} : IsFlat(seqs, X, n)}
<1>1. /\ Len(seqs) \in Nat \ {0}
      /\ \A i \in 1 .. Len(seqs) : seqs[i] \in Seq(X)
  BY EmptySeq, ElementOfSeq
<1>2. IsFlat(seqs, X, 1)
  <2>1. [i \in 1 .. 1 |-> seqs[1]] \in [1 .. 1 -> Seq(X)]
    BY <1>1
  <2>2. FlatUpTo([i \in 1 .. 1 |-> seqs[1]], seqs, 1)
    BY DEF FlatUpTo
  <2> QED
    BY <2>1, <2>2 DEF IsFlat
<1>3. ASSUME NEW n \in Nat \ {0}, IsFlat(seqs, X, n)
      PROVE  IsFlat(seqs, X, n + 1)
  <2> SUFFICES ASSUME n + 1 <= Len(seqs)
               PROVE  \E f \in [1 .. n + 1 -> Seq(X)] :
                        FlatUpTo(f, seqs, n + 1)
    BY DEF IsFlat
  <2>1. PICK f \in [1 .. n -> Seq(X)] : FlatUpTo(f, seqs, n)
    BY <1>1, <1>3 DEF IsFlat
  <2> DEFINE g == [i \in 1 .. n + 1 |->
                     IF i <= n THEN f[i] ELSE f[n] \o seqs[n + 1]]
  <2>2. f[n] \o seqs[n + 1] \in Seq(X)
    BY <1>1, ConcatProperties
  <2>3. g \in [1 .. n + 1 -> Seq(X)]
    BY <2>2
  <2>4. ASSUME NEW i \in 1 .. n + 1
        PROVE  g[i] = IF i = 1 THEN seqs[i] ELSE g[i - 1] \o seqs[i]
    <3>1. CASE i <= n
      <4>1. g[i] = f[i] /\ (i # 1 => g[i - 1] = f[i - 1])
        BY <3>1
      <4>2. f[i] = IF i = 1 THEN seqs[i] ELSE f[i - 1] \o seqs[i]
        <5>1. i \in 1 .. n
          BY <3>1
        <5> HIDE DEF g
        <5> QED
          BY <2>1, <5>1 DEF FlatUpTo
      <4> HIDE DEF g
      <4> QED
        BY <4>1, <4>2
    <3>2. CASE i = n + 1
      <4>1. g[n + 1] = f[n] \o seqs[n + 1]
        <5>1. n + 1 \in 1 .. n + 1 /\ ~(n + 1 <= n)
          OBVIOUS
        <5> QED
          BY <5>1
      <4>2. g[n] = f[n]
        <5>1. n \in 1 .. n + 1 /\ n <= n
          OBVIOUS
        <5> QED
          BY <5>1
      <4>3. n + 1 # 1 /\ (n + 1) - 1 = n
        OBVIOUS
      <4> HIDE DEF g
      <4> QED
        BY <3>2, <4>1, <4>2, <4>3
    <3> QED
      BY <3>1, <3>2
  <2>5. FlatUpTo(g, seqs, n + 1)
    <3> HIDE DEF g
    <3> QED
      BY <2>4 DEF FlatUpTo
  <2> QED
    BY <2>3, <2>5
<1>4. IsFlat(seqs, X, Len(seqs))
  <2>1. 1 \in S /\ \A n \in Nat \ {0} : n \in S => n + 1 \in S
    BY <1>2, <1>3
  <2>2. Nat \ {0} \subseteq S
    <3> HIDE DEF S
    <3> QED
      BY <2>1, CountingUp
  <2> QED
    BY <1>1, <2>2
<1>5. PICK f \in [1 .. Len(seqs) -> Seq(X)] : FlatUpTo(f, seqs, Len(seqs))
  BY <1>1, <1>4 DEF IsFlat
<1>6. f = [i \in 1 .. Len(seqs) |-> f[i]]
  OBVIOUS
<1>7. Flattens(f, seqs)
  BY <1>5, <1>6 DEF Flattens, FlatUpTo
<1> QED
  BY <1>7

LEMMA FlattenAppend ==
  ASSUME NEW X, NEW seqs \in Seq(Seq(X)), NEW s \in Seq(X)
  PROVE  FlattenSeq(Append(seqs, s)) = FlattenSeq(seqs) \o s
<1> DEFINE longer == Append(seqs, s)
           L == Len(seqs)
<1>1. /\ longer \in Seq(Seq(X)) /\ longer # <<>>
      /\ Len(longer) = L + 1 /\ L \in Nat
      /\ \A i \in 1 .. L : longer[i] = seqs[i]
      /\ longer[L + 1] = s
  BY AppendProperties, LenProperties
<1> HIDE DEF longer
<1>2. CASE seqs = <<>>
  <2>1. L = 0
    BY <1>2, EmptySeq
  <2>2. FlattenSeq(seqs) = <<>>
    BY <1>2, <2>1 DEF FlattenSeq
  <2> DEFINE g == [i \in 1 .. 1 |-> s]
  <2>3. Flattens(g, longer)
    BY <1>1, <2>1 DEF Flattens
  <2>4. FlattenSeq(longer) = g[Len(longer)]
    <3> HIDE DEF g
    <3> QED
      BY <1>1, <2>3, FlattenIs
  <2>5. FlattenSeq(longer) = s
    BY <1>1, <2>1, <2>4
  <2> QED
    BY <2>2, <2>5, ConcatEmptySeq DEF longer
<1>3. CASE seqs # <<>>
  <2>1. PICK f \in [1 .. L -> Seq(X)] : Flattens(f, seqs)
    BY <1>3, FlattenExists
  <2>2. FlattenSeq(seqs) = f[L] /\ L # 0
    BY <1>3, <2>1, FlattenIs, EmptySeq
  <2> DEFINE g == [i \in 1 .. L + 1 |-> IF i <= L THEN f[i] ELSE f[L] \o s]
  <2>3. ASSUME NEW i \in 1 .. L + 1
        PROVE  g[i] = IF i = 1 THEN longer[i] ELSE g[i - 1] \o longer[i]
    <3>1. CASE i <= L
      <4>1. g[i] = f[i] /\ (i # 1 => g[i - 1] = f[i - 1])
        <5> HIDE DEF L
        <5> QED
          BY <1>1, <3>1
      <4>2. f[i] = IF i = 1 THEN seqs[i] ELSE f[i - 1] \o seqs[i]
        <5>1. i \in 1 .. Len(seqs)
          BY <1>1, <3>1
        <5> HIDE DEF g
        <5> QED
          BY <2>1, <5>1 DEF Flattens
      <4>3. longer[i] = seqs[i]
        BY <1>1, <3>1
      <4> HIDE DEF g
      <4> QED
        BY <4>1, <4>2, <4>3
    <3>2. CASE i = L + 1
      <4>1. g[L + 1] = f[L] \o s
        <5>1. L + 1 \in 1 .. L + 1 /\ ~(L + 1 <= L)
          BY <1>1
        <5> HIDE DEF L
        <5> QED
          BY <5>1
      <4>2. g[L] = f[L]
        <5>1. L \in 1 .. L + 1 /\ L <= L
          BY <1>1, <2>2
        <5> HIDE DEF L
        <5> QED
          BY <5>1
      <4>3. L + 1 # 1 /\ (L + 1) - 1 = L
        BY <1>1, <2>2
      <4> HIDE DEF g, L
      <4> QED
        BY <1>1, <3>2, <4>1, <4>2, <4>3
    <3> QED
      BY <1>1, <3>1, <3>2
  <2>4. Flattens(g, longer)
    BY <1>1, <2>3 DEF Flattens
  <2>5. FlattenSeq(longer) = g[L + 1]
    <3> HIDE DEF g
    <3> QED
      BY <1>1, <2>4, FlattenIs
  <2> QED
    BY <1>1, <2>2, <2>5 DEF longer
<1> QED
  BY <1>2, <1>3

LEMMA FlattenTail ==
  ASSUME NEW X, NEW seqs \in Seq(Seq(X)), seqs # <<>>
  PROVE  FlattenSeq(seqs) = Head(seqs) \o FlattenSeq(Tail(seqs))
<1> DEFINE rest == Tail(seqs)
           L == Len(seqs)
<1>1. /\ L \in Nat \ {0}
      /\ rest \in Seq(Seq(X)) /\ Len(rest) = L - 1
      /\ Head(seqs) = seqs[1]
      /\ \A i \in 1 .. L : seqs[i] \in Seq(X)
      /\ \A i \in 1 .. L - 1 : rest[i] = seqs[i + 1]
  BY HeadTailProperties, EmptySeq, ElementOfSeq
<1> HIDE DEF rest
<1>2. CASE rest = <<>>
  <2>1. L = 1
    BY <1>1, <1>2, EmptySeq
  <2>2. FlattenSeq(rest) = <<>>
    BY <1>1, <1>2, <2>1 DEF FlattenSeq
  <2> DEFINE g == [i \in 1 .. 1 |-> seqs[1]]
  <2>3. Flattens(g, seqs)
    BY <2>1 DEF Flattens
  <2>4. FlattenSeq(seqs) = g[L]
    <3> HIDE DEF g
    <3> QED
      BY <2>3, FlattenIs
  <2>5. FlattenSeq(seqs) = seqs[1] /\ seqs[1] \in Seq(X)
    BY <1>1, <2>1, <2>4
  <2> QED
    BY <1>1, <2>2, <2>5, ConcatEmptySeq DEF rest
<1>3. CASE rest # <<>>
  <2>1. PICK h \in [1 .. Len(rest) -> Seq(X)] : Flattens(h, rest)
    BY <1>1, <1>3, FlattenExists
  <2>2. Len(rest) \in Nat \ {0} /\ L > 1
    <3>1. Len(rest) # 0
      BY <1>1, <1>3, EmptySeq
    <3> HIDE DEF L
    <3> QED
      BY <1>1, <3>1
  <2>6. FlattenSeq(rest) = h[L - 1]
    <3>1. FlattenSeq(rest) = h[Len(rest)]
      <4> HIDE DEF L
      <4> QED
        BY <1>1, <1>3, <2>1, FlattenIs
    <3> QED
      BY <1>1, <3>1
  <2> DEFINE g == [i \in 1 .. L |-> IF i = 1 THEN seqs[1]
                                    ELSE seqs[1] \o h[i - 1]]
  <2>3. ASSUME NEW i \in 1 .. L
        PROVE  g[i] = IF i = 1 THEN seqs[i] ELSE g[i - 1] \o seqs[i]
    <3>1. CASE i = 1
      BY <3>1
    <3>2. CASE i = 2
      <4>1. g[i] = seqs[1] \o h[1] /\ g[i - 1] = seqs[1]
        BY <1>1, <3>2
      <4>2. h[1] = rest[1] /\ rest[1] = seqs[i]
        BY <1>1, <2>1, <2>2, <3>2 DEF Flattens
      <4> HIDE DEF g
      <4> QED
        BY <3>2, <4>1, <4>2
    <3>3. CASE i > 2
      <4>1. g[i] = seqs[1] \o h[i - 1] /\ g[i - 1] = seqs[1] \o h[i - 2]
        <5>1. i - 1 \in 1 .. L /\ i # 1 /\ i - 1 # 1 /\ (i - 1) - 1 = i - 2
          BY <1>1, <3>3
        <5> QED
          BY <5>1
      <4>2. h[i - 1] = h[i - 2] \o seqs[i]
        <5>1. /\ i - 1 \in 1 .. Len(rest) /\ i - 1 # 1
              /\ (i - 1) - 1 = i - 2 /\ (i - 1) + 1 = i
          BY <1>1, <3>3
        <5>2. h[i - 1] = h[(i - 1) - 1] \o rest[i - 1]
          <6> HIDE DEF g, L
          <6> QED
            BY <2>1, <5>1 DEF Flattens
        <5>3. rest[i - 1] = seqs[i]
          BY <1>1, <5>1
        <5> QED
          BY <5>1, <5>2, <5>3
      <4>3. h[i - 2] \in Seq(X) /\ seqs[i] \in Seq(X) /\ seqs[1] \in Seq(X)
        <5>1. i - 2 \in 1 .. Len(rest) /\ 1 \in 1 .. L
          BY <1>1, <3>3
        <5> HIDE DEF g, L
        <5> QED
          BY <1>1, <2>1, <5>1
      <4> HIDE DEF g, L
      <4>5. seqs[1] \o (h[i - 2] \o seqs[i]) = (seqs[1] \o h[i - 2]) \o seqs[i]
        <5> DEFINE u == seqs[1]
                   v == h[i - 2]
                   w == seqs[i]
        <5>1. u \in Seq(X) /\ v \in Seq(X) /\ w \in Seq(X)
          BY <4>3
        <5> HIDE DEF u, v, w
        <5>2. u \o (v \o w) = (u \o v) \o w
          BY ONLY <5>1, ConcatIsAssociative, SMTT(60)
        <5> QED
          BY <5>2 DEF u, v, w
      <4>6. i # 1
        BY <3>3
      <4> QED
        BY <4>1, <4>2, <4>5, <4>6
    <3> QED
      BY <1>1, <3>1, <3>2, <3>3
  <2>4. Flattens(g, seqs)
    BY <2>3 DEF Flattens
  <2>5. FlattenSeq(seqs) = g[L]
    <3> HIDE DEF g
    <3> QED
      BY <2>4, FlattenIs
  <2>7. g[L] = seqs[1] \o h[L - 1]
    <3>1. L \in 1 .. L /\ L # 1
      BY <1>1, <2>2
    <3> HIDE DEF L
    <3> QED
      BY <3>1
  <2> QED
    <3> HIDE DEF g, L
    <3> QED
      BY <1>1, <2>5, <2>6, <2>7 DEF rest
<1> QED
  BY <1>2, <1>3

-----------------------------------------------------------------------------
(* The events of the bus.                                                  *)

(* Who is to hear the events that are still on the bus, event by event.    *)
Waiting == [n \in DOMAIN bus |-> Callees(bus[n])]

(* Subscribers are added only before there are events.                     *)
QuietWhileLoading ==
  pc \in Boot \cup {"down"} => bus = <<>> /\ hearing = <<>>

DeliveryInv == IInv /\ QuietWhileLoading /\ EventsReachSubscribers

LEMMA FlatIsFlat ==
  ASSUME NEW X, NEW seqs \in Seq(Seq(X))
  PROVE  FlattenSeq(seqs) \in Seq(X)
<1>1. CASE seqs = <<>>
  <2>1. FlattenSeq(seqs) = <<>>
    BY <1>1, EmptySeq DEF FlattenSeq
  <2> QED
    BY <2>1, EmptySeq
<1>2. CASE seqs # <<>>
  <2>1. PICK f \in [1 .. Len(seqs) -> Seq(X)] : Flattens(f, seqs)
    BY <1>2, FlattenExists
  <2>2. Len(seqs) \in 1 .. Len(seqs)
    BY <1>2, EmptySeq
  <2>3. FlattenSeq(seqs) = f[Len(seqs)]
    BY <1>2, <2>1, FlattenIs
  <2> QED
    BY <2>1, <2>2, <2>3
<1> QED
  BY <1>1, <1>2

LEMMA WaitingIsSequence ==
  ASSUME TypeOK
  PROVE  /\ Waiting \in Seq(Seq(FileNumbers))
         /\ Len(Waiting) = Len(bus)
         /\ (Waiting = <<>>) <=> (bus = <<>>)
<1>1. /\ bus \in Seq(Events)
      /\ Len(bus) \in Nat
      /\ DOMAIN bus = 1 .. Len(bus)
      /\ \A n \in 1 .. Len(bus) : bus[n] \in Events
  BY LenProperties, ElementOfSeq DEF TypeOK
<1>2. Waiting \in [1 .. Len(bus) -> Seq(FileNumbers)]
  BY <1>1, CalleesAreFiles DEF Waiting
<1>3. Waiting \in Seq(Seq(FileNumbers)) /\ Len(Waiting) = Len(bus)
  BY <1>1, <1>2, SeqDef, LenProperties
<1> QED
  BY <1>1, <1>3, EmptySeq

(* A process that has ended owes nothing.                                  *)
LEMMA NothingIsOwed ==
  ASSUME bus = <<>>, hearing = <<>>, owed = <<>>
  PROVE  EventsReachSubscribers
<1>1. [n \in DOMAIN bus |-> Callees(bus[n])] = <<>>
  OBVIOUS
<1>2. FlattenSeq(<<>>) = <<>>
  BY DEF FlattenSeq
<1>3. <<>> \o <<>> = <<>>
  OBVIOUS
<1> QED
  BY <1>1, <1>2, <1>3 DEF EventsReachSubscribers

LEMMA WaitingStays ==
  ASSUME IInv, EventsReachSubscribers,
         UNCHANGED <<deliveryVars, subscribers>>
  PROVE  EventsReachSubscribers'
BY DEF EventsReachSubscribers, deliveryVars, Callees

(* publish: those who subscribed hear the event after all that waits.      *)
LEMMA PublishingOwes ==
  ASSUME IInv, EventsReachSubscribers, NEW event \in Events,
         Announce(event), UNCHANGED registryVars
  PROVE  EventsReachSubscribers'
<1> DEFINE callees == Callees(event)
           flat == FlattenSeq(Waiting)
<1>1. TypeOK
  BY DEF IInv
<1>2. /\ bus \in Seq(Events) /\ Len(bus) \in Nat
      /\ DOMAIN bus = 1 .. Len(bus)
      /\ bus' = Append(bus, event)
      /\ DOMAIN bus' = 1 .. Len(bus) + 1
      /\ \A n \in 1 .. Len(bus) : bus'[n] = bus[n]
      /\ bus'[Len(bus) + 1] = event
  BY <1>1, LenProperties, AppendProperties DEF TypeOK, Announce, Publish
<1>4. callees \in Seq(FileNumbers) /\ Waiting \in Seq(Seq(FileNumbers))
  BY <1>1, CalleesAreFiles, WaitingIsSequence
<1>5. [n \in DOMAIN bus' |-> Callees(bus'[n])] = Append(Waiting, callees)
  <2>1. /\ Len(Waiting) = Len(bus)
        /\ Append(Waiting, callees) \in Seq(Seq(FileNumbers))
        /\ Len(Append(Waiting, callees)) = Len(bus) + 1
        /\ \A n \in 1 .. Len(bus) :
             Append(Waiting, callees)[n] = Waiting[n]
        /\ Append(Waiting, callees)[Len(bus) + 1] = callees
    BY <1>1, <1>4, WaitingIsSequence, AppendProperties
  <2>2. \A n \in 1 .. Len(bus) : Waiting[n] = Callees(bus[n])
    BY <1>2 DEF Waiting
  <2>3. ASSUME NEW n \in 1 .. Len(bus) + 1
        PROVE  Callees(bus'[n]) = Append(Waiting, callees)[n]
    <3>1. CASE n \in 1 .. Len(bus)
      <4>1. bus[n] \in Events
        BY <1>2, <3>1, ElementOfSeq
      <4> QED
        BY <1>2, <2>1, <2>2, <3>1, <4>1
    <3>2. CASE n = Len(bus) + 1
      BY <1>2, <2>1, <3>2
    <3>3. n \in 1 .. Len(bus) \/ n = Len(bus) + 1
      BY <1>2
    <3> QED
      BY <3>1, <3>2, <3>3
  <2>4. Append(Waiting, callees)
          = [n \in 1 .. Len(bus) + 1 |-> Append(Waiting, callees)[n]]
    BY <1>2, <2>1, LenProperties
  <2> HIDE DEF callees
  <2> QED
    BY <1>2, <2>3, <2>4
<1>6. FlattenSeq(Append(Waiting, callees)) = flat \o callees
  BY <1>4, FlattenAppend
<1>7. hearing \in Seq(FileNumbers) /\ flat \in Seq(FileNumbers)
  BY <1>1, <1>4, FlatIsFlat DEF TypeOK
<1>8. owed = hearing \o flat
  BY DEF EventsReachSubscribers, Waiting
<1>9. owed' = owed \o callees /\ hearing' = hearing
  BY DEF Announce
<1> HIDE DEF callees, flat
<1>10. (hearing \o flat) \o callees = hearing \o (flat \o callees)
  BY <1>4, <1>7, ConcatIsAssociative, SMTT(60)
<1>11. owed' = hearing' \o FlattenSeq([n \in DOMAIN bus' |->
                                          Callees(bus'[n])])
  BY <1>5, <1>6, <1>8, <1>9, <1>10
<1> QED
  BY <1>11 DEF EventsReachSubscribers, Callees, registryVars

(* drain: the next event is taken when the one before it has been heard.   *)
LEMMA TakingKeepsOwing ==
  ASSUME IInv, EventsReachSubscribers, TakeEvent, UNCHANGED registryVars
  PROVE  EventsReachSubscribers'
<1>1. TypeOK
  BY DEF IInv
<1>2. /\ bus # <<>> /\ bus' = Tail(bus) /\ hearing = <<>>
      /\ hearing' = Callees(Head(bus)) /\ owed' = owed
  BY DEF TakeEvent, Take
<1>3. /\ bus \in Seq(Events) /\ Len(bus) \in Nat \ {0}
      /\ Head(bus) = bus[1]
      /\ DOMAIN bus = 1 .. Len(bus)
      /\ DOMAIN bus' = 1 .. Len(bus) - 1
      /\ \A n \in 1 .. Len(bus) - 1 : bus'[n] = bus[n + 1]
      /\ \A n \in 1 .. Len(bus) : bus[n] \in Events
  BY <1>1, <1>2, EmptySeq, LenProperties, HeadTailProperties, ElementOfSeq
  DEF TypeOK
<1>5. /\ Waiting \in Seq(Seq(FileNumbers)) /\ Waiting # <<>>
      /\ Len(Waiting) = Len(bus)
      /\ \A n \in 1 .. Len(bus) : Waiting[n] = Callees(bus[n])
  BY <1>1, <1>2, <1>3, WaitingIsSequence DEF Waiting
<1>6. /\ Head(Waiting) = Callees(Head(bus))
      /\ Tail(Waiting) \in Seq(Seq(FileNumbers))
      /\ Len(Tail(Waiting)) = Len(bus) - 1
      /\ \A n \in 1 .. Len(bus) - 1 : Tail(Waiting)[n] = Waiting[n + 1]
  BY <1>3, <1>5, HeadTailProperties
<1>7. [n \in DOMAIN bus' |-> Callees(bus'[n])] = Tail(Waiting)
  <2>1. ASSUME NEW n \in 1 .. Len(bus) - 1
        PROVE  Callees(bus'[n]) = Tail(Waiting)[n]
    <3>1. n + 1 \in 1 .. Len(bus)
      BY <1>3
    <3> QED
      BY <1>3, <1>5, <1>6, <3>1
  <2>2. Tail(Waiting) = [n \in 1 .. Len(bus) - 1 |-> Tail(Waiting)[n]]
    BY <1>6, LenProperties
  <2> QED
    BY <1>3, <2>1, <2>2
<1>8. FlattenSeq(Waiting) = Head(Waiting) \o FlattenSeq(Tail(Waiting))
  BY <1>5, FlattenTail
<1>9. owed = hearing \o FlattenSeq(Waiting)
  BY DEF EventsReachSubscribers, Waiting
<1>10. <<>> \o FlattenSeq(Waiting) = FlattenSeq(Waiting)
  BY <1>5, FlatIsFlat, ConcatEmptySeq
<1>11. owed' = hearing' \o FlattenSeq([n \in DOMAIN bus' |->
                                          Callees(bus'[n])])
  BY <1>2, <1>6, <1>7, <1>8, <1>9, <1>10
<1> QED
  BY <1>11 DEF EventsReachSubscribers, Callees, registryVars

(* drain: the first of those who have yet to hear the event hears it.      *)
LEMMA HearingPaysOff ==
  ASSUME IInv, EventsReachSubscribers, CallHandler,
         UNCHANGED <<registryVars, bus>>
  PROVE  EventsReachSubscribers'
<1> DEFINE flat == FlattenSeq(Waiting)
<1>1. TypeOK
  BY DEF IInv
<1>2. /\ hearing # <<>> /\ hearing' = Tail(hearing)
      /\ owed' = SubSeq(owed, 2, Len(owed))
  BY DEF CallHandler
<1>3. /\ hearing \in Seq(FileNumbers) /\ flat \in Seq(FileNumbers)
      /\ owed = hearing \o flat
  BY <1>1, WaitingIsSequence, FlatIsFlat
  DEF TypeOK, EventsReachSubscribers, Waiting
<1> HIDE DEF flat
<1>4. owed \in Seq(FileNumbers) /\ owed # <<>>
  BY <1>2, <1>3, ConcatProperties, EmptySeq
<1>5. SubSeq(owed, 2, Len(owed)) = Tail(owed)
  BY <1>4, TailIsSubSeq
<1>6. Tail(hearing \o flat) = Tail(hearing) \o flat
  BY <1>2, <1>3, TailOfConcat
<1>7. owed' = hearing' \o flat
  BY <1>2, <1>3, <1>5, <1>6
<1>8. flat = FlattenSeq([n \in DOMAIN bus' |-> Callees(bus'[n])])
  BY DEF flat, Waiting
<1> QED
  BY <1>7, <1>8 DEF EventsReachSubscribers, Callees, registryVars

LEMMA StaysQuietWhileLoading ==
  ASSUME DeliveryInv, [Next]_vars
  PROVE  QuietWhileLoading'
<1> USE DEF DeliveryInv, QuietWhileLoading
<1>1. CASE Dies
  BY <1>1 DEF Dies, End, ForgetPlugins
<1>2. CASE /\ UNCHANGED <<bus, hearing>>
           /\ pc' \in Boot \cup {"down"} => pc \in Boot \cup {"down"}
  BY <1>2
<1>3. CASE Moves \/ MovesWithNews \/ Opens \/ Observes \/ Around
  <2>1. CASE MovesWithNews
    BY <2>1 DEF MovesWithNews, MoveWithNews, Boot
  <2>2. CASE Moves \/ Opens \/ Observes \/ Around
    BY <1>2, <2>2 DEF Moves, Move, Opens, Observes, AskNext, ProbeAnswers,
         ProbeTimesOut, Probing, EndObservation, Abort, Around, pluginVars,
         deliveryVars, Boot
  <2> QED
    BY <1>3, <2>1, <2>2
<1>4. CASE Calls \/ LoopEnds
  BY <1>2, <1>4 DEF Calls, BeginLoad, BeginStart, BeginTick, BeginHandle,
       BeginStopHook, Call, LoopEnds, AllLoaded, AllStarted, AllTicked,
       AllStopped, AllCalled, pluginVars, deliveryVars, Boot
<1>5. CASE \/ EndLoad \/ EndStart \/ EndUnloadHook \/ EndStopHook
           \/ EndHandle \/ EndTick \/ Plan \/ ExecuteAtOnce \/ EndCycle
           \/ \E p \in FileNumbers : BeginTask(p) \/ EndTask(p)
  BY <1>2, <1>5 DEF EndLoad, EndStart, EndUnloadHook, EndCall, EndStopHook,
       EndHandle, EndTick, Abort, Plan, ExecuteAtOnce, Move, EndCycle,
       BeginTask, EndTask, pluginVars, deliveryVars, Boot
<1>6. CASE NextEvent \/ BeginHear
  BY <1>6 DEF NextEvent, BeginHear, Draining, Boot
<1>7. CASE EndHear
  BY <1>2, <1>7 DEF EndHear, StillHearing
<1> QED
  BY StepShapes, <1>1, <1>3, <1>4, <1>5, <1>6, <1>7 DEF IInv, TypeOK

LEMMA EventsStayOwed ==
  ASSUME DeliveryInv, [Next]_vars
  PROVE  EventsReachSubscribers'
<1> USE DEF DeliveryInv
<1>1. CASE Dies
  <2>1. bus' = <<>> /\ hearing' = <<>> /\ owed' = <<>>
    BY <1>1 DEF Dies, End, ForgetPlugins
  <2>2. (bus = <<>> /\ hearing = <<>> /\ owed = <<>>
           => EventsReachSubscribers)'
    BY NothingIsOwed, PTL
  <2> QED
    BY <2>1, <2>2
<1>2. CASE EndLoad
  <2>1. pc = "load"
    BY <1>2 DEF EndLoad, In, IInv, HookFitsStage
  <2>2. bus = <<>> /\ hearing = <<>>
    BY <2>1 DEF QuietWhileLoading, Boot
  <2>3. owed = <<>>
    <3>1. [n \in DOMAIN bus |-> Callees(bus[n])] = <<>>
      BY <2>2
    <3>2. FlattenSeq(<<>>) = <<>>
      BY DEF FlattenSeq
    <3>3. <<>> \o <<>> = <<>>
      OBVIOUS
    <3> QED
      BY <2>2, <3>1, <3>2, <3>3 DEF EventsReachSubscribers
  <2>4. bus' = <<>> /\ hearing' = <<>> /\ owed' = <<>>
    BY <1>2, <2>2, <2>3 DEF EndLoad, deliveryVars
  <2>5. (bus = <<>> /\ hearing = <<>> /\ owed = <<>>
           => EventsReachSubscribers)'
    BY NothingIsOwed, PTL
  <2> QED
    BY <2>4, <2>5
<1>3. CASE MovesWithNews
  BY <1>3, PublishingOwes DEF MovesWithNews, MoveWithNews
<1>4. CASE NextEvent
  BY <1>4, TakingKeepsOwing DEF NextEvent
<1>5. CASE BeginHear
  BY <1>5, HearingPaysOff DEF BeginHear, CallHandler
<1>6. CASE \/ Moves \/ Opens \/ Calls \/ LoopEnds \/ Observes \/ Around
  BY <1>6, WaitingStays DEF Moves, Move, Opens, Calls, BeginLoad,
       BeginStart, BeginTick, BeginHandle, BeginStopHook, Call, LoopEnds,
       AllLoaded, AllStarted, AllTicked, AllStopped, AllCalled, Observes,
       AskNext, ProbeAnswers, ProbeTimesOut, Probing, EndObservation, Around,
       pluginVars, registryVars
<1>7. CASE \/ EndStart \/ EndUnloadHook \/ EndStopHook \/ EndHandle
           \/ EndTick \/ Plan \/ ExecuteAtOnce \/ EndHear \/ EndCycle
           \/ \E p \in FileNumbers : BeginTask(p) \/ EndTask(p)
  BY <1>7, WaitingStays DEF EndStart, EndUnloadHook, EndCall, EndStopHook,
       EndHandle, EndTick, Plan, ExecuteAtOnce, Move, EndHear, StillHearing,
       EndCycle, BeginTask, EndTask, pluginVars, registryVars, deliveryVars
<1> QED
  BY StepShapes, <1>1, <1>2, <1>3, <1>4, <1>5, <1>6, <1>7 DEF IInv, TypeOK

(* While the process lives no event skips a subscriber, reaches one twice  *)
(* or overtakes another, whatever handlers raise, and however many cycles  *)
(* are aborted before they drain the bus (publish, drain).                 *)
THEOREM EventsReachAll == Spec => []EventsReachSubscribers
<1>1. Init => QuietWhileLoading /\ EventsReachSubscribers
  BY NothingIsOwed DEF Init, EmptyRegistry, QuietWhileLoading
<1>2. /\ IInv /\ QuietWhileLoading /\ EventsReachSubscribers
      /\ [Next]_vars
      => QuietWhileLoading' /\ EventsReachSubscribers'
  BY StaysQuietWhileLoading, EventsStayOwed DEF DeliveryInv
<1> QED
  BY <1>1, <1>2, InductiveInvariant, PTL DEF Spec
=============================================================================
