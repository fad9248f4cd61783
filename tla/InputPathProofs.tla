---------------------------- MODULE InputPathProofs ----------------------------
(***************************************************************************)
(* Proofs about the way of a touch.  That every variable keeps its range   *)
(* and that the key of a stylus button is released is proved for any       *)
(* number of pointers; the agreements of the tablet, the adapter, the palm *)
(* guard, the injector and Windows for two, which is when Android's ids    *)
(* have one wire id (with three the codec's collision breaks them), and    *)
(* for any numbers of events, presses, rotations and batches on their way. *)
(*                                                                         *)
(* A batch is adapted, and a frame injected, in a loop over its samples:   *)
(* such a loop is a FoldLeft, which is unfolded here to its turns          *)
(* ("Stages") by an induction over the naturals that rests on their being  *)
(* well-founded; what the turns keep, the loop keeps ("Loop").  What is on *)
(* its way is described from its end: the last batch that says something   *)
(* of a matter says the truth.                                             *)
(***************************************************************************)
EXTENDS InputPath, WellFoundedInduction, TLAPS

\* What a frame holds.
PenSamples == [phase : Actions, key : BOOLEAN]
TouchSamples == [id : WireIds, phase : Actions]

\* A set of numbers that has 0, and with each number the next, has all of them.
LEMMA NumbersReached ==
    ASSUME NEW S, 0 \in S, \A n \in Nat : n \in S => n + 1 \in S
    PROVE  Nat \subseteq S
<1> DEFINE T == Nat \ S
<1>1. SUFFICES ASSUME T # {} PROVE FALSE
    OBVIOUS
<1>2. T \subseteq Nat
    OBVIOUS
<1> HIDE DEF T
<1>3. \E x \in T : \A y \in T : ~ (<<y, x>> \in OpToRel(<, Nat))
    BY <1>1, <1>2, WFMin, NatLessThanWellFounded, Zenon
<1>4. PICK x \in T : \A y \in T : ~ (<<y, x>> \in OpToRel(<, Nat))
    BY <1>3
<1>5. \A y \in T : ~ (y < x)
    BY <1>4, <1>2 DEF OpToRel
<1> QED
    BY <1>2, <1>5 DEF T

\* Numbers below a bound have a largest one.
LEMMA MaxOfNumbers ==
    ASSUME NEW n \in Nat, NEW s \in SUBSET (1..n), s # {}
    PROVE  Max(s) \in s /\ \A y \in s : y <= Max(s)
<1> DEFINE P == {m \in Nat : \A t \in SUBSET (1..m) : t # {} => \E x \in t : \A y \in t : y <= x}
<1>1. 0 \in P
    <2>1. 1..0 = {}
        OBVIOUS
    <2>2. \A t \in SUBSET (1..0) : t = {}
        BY <2>1
    <2> QED
        BY <2>2
<1>2. ASSUME NEW m \in Nat, m \in P PROVE m + 1 \in P
    <2> SUFFICES ASSUME NEW t \in SUBSET (1..(m + 1)), t # {}
                 PROVE  \E x \in t : \A y \in t : y <= x
        BY <1>2
    <2>1. CASE m + 1 \in t
        BY <2>1
    <2>2. CASE m + 1 \notin t
        <3>1. t \in SUBSET (1..m)
            BY <2>2
        <3> QED
            BY <3>1, <1>2
    <2> QED
        BY <2>1, <2>2
<1>3. n \in P
    <2> HIDE DEF P
    <2> QED
        BY <1>1, <1>2, NumbersReached
<1>4. \E x \in s : \A y \in s : y <= x
    BY <1>3
<1> QED
    BY <1>4 DEF Max

\* The first k numbers, as a fold meets them.
LEMMA FirstNumbers ==
    ASSUME NEW n \in Nat, NEW k \in 1..n
    PROVE  Max(1..k) = k /\ (1..k) \ {k} = 1..(k - 1) /\ 1..k \in SUBSET (1..n) /\ 1..k # {}
<1>1. k \in Nat /\ 1..k \in SUBSET (1..k) /\ 1..k # {} /\ k \in 1..k
    OBVIOUS
<1>2. Max(1..k) \in 1..k /\ k <= Max(1..k)
    BY <1>1, MaxOfNumbers
<1>3. Max(1..k) = k
    BY <1>2
<1> QED
    BY <1>1, <1>3

\* What the library's folds choose: for each set of positions of a sequence, the
\* result of the loop over those positions.  F is a turn of the loop.
Folds(iter, V, base, F, n) ==
    /\ iter \in [SUBSET (1..n) -> V]
    /\ \A s \in SUBSET (1..n) :
          iter[s] = IF s = {} THEN base ELSE F[<<iter[s \ {Max(s)}], Max(s)>>]

\* There is such a function, whatever the turns do.
LEMMA FoldExists ==
    ASSUME NEW V, NEW base \in V, NEW F, NEW N \in Nat,
           \A v \in V : \A k \in 1..N : F[<<v, k>>] \in V
    PROVE  \E iter : Folds(iter, V, base, F, N)
<1> DEFINE P == {n \in Nat : n <= N => \E iter : Folds(iter, V, base, F, n)}
<1>1. 0 \in P
    <2> DEFINE iter == [s \in SUBSET (1..0) |-> base]
    <2>1. Folds(iter, V, base, F, 0)
        BY DEF Folds
    <2> QED
        BY <2>1
<1>2. ASSUME NEW n \in Nat, n \in P PROVE n + 1 \in P
    <2> SUFFICES ASSUME n + 1 <= N PROVE \E iter : Folds(iter, V, base, F, n + 1)
        OBVIOUS
    <2>1. PICK old : Folds(old, V, base, F, n)
        BY <1>2
    <2> DEFINE new == [s \in SUBSET (1..(n + 1)) |->
                          IF n + 1 \in s THEN F[<<old[s \ {n + 1}], n + 1>>] ELSE old[s]]
    <2>2. ASSUME NEW s \in SUBSET (1..(n + 1))
          PROVE  /\ s \ {n + 1} \in SUBSET (1..n)
                 /\ new[s \ {n + 1}] = old[s \ {n + 1}]
                 /\ n + 1 \in s => Max(s) = n + 1
                 /\ n + 1 \notin s => s \in SUBSET (1..n)
        <3>1. s \ {n + 1} \in SUBSET (1..n)
            OBVIOUS
        <3>2. s \ {n + 1} \in SUBSET (1..(n + 1))
            OBVIOUS
        <3>3. n + 1 \in s => Max(s) = n + 1
            <4> SUFFICES ASSUME n + 1 \in s PROVE Max(s) = n + 1
                OBVIOUS
            <4>1. Max(s) \in s /\ n + 1 <= Max(s)
                BY MaxOfNumbers, n + 1 \in Nat
            <4> HIDE DEF new
            <4>2. Max(s) \in 1..(n + 1)
                BY <4>1
            <4> QED
                BY <4>1, <4>2
        <3>4. n + 1 \notin s => s \in SUBSET (1..n)
            OBVIOUS
        <3> QED
            BY <3>1, <3>2, <3>3, <3>4
    <2>3. new \in [SUBSET (1..(n + 1)) -> V]
        <3> SUFFICES ASSUME NEW s \in SUBSET (1..(n + 1)) PROVE new[s] \in V
            OBVIOUS
        <3> QED
            BY <2>1, <2>2 DEF Folds
    <2>4. ASSUME NEW s \in SUBSET (1..(n + 1))
          PROVE  new[s] = IF s = {} THEN base ELSE F[<<new[s \ {Max(s)}], Max(s)>>]
        <3>1. CASE n + 1 \in s
            BY <3>1, <2>2
        <3>2. CASE n + 1 \notin s
            <4>1. s \in SUBSET (1..n) /\ new[s] = old[s]
                BY <3>2, <2>2
            <4>2. CASE s = {}
                BY <4>1, <4>2, <2>1 DEF Folds
            <4>3. CASE s # {}
                <5>1. s \ {Max(s)} \in SUBSET (1..n)
                    BY <4>1
                <5>2. new[s \ {Max(s)}] = old[s \ {Max(s)}]
                    BY <5>1
                <5> QED
                    BY <4>1, <4>3, <5>2, <2>1 DEF Folds
            <4> QED
                BY <4>2, <4>3
        <3> QED
            BY <3>1, <3>2
    <2> HIDE DEF new
    <2>5. Folds(new, V, base, F, n + 1)
        BY <2>3, <2>4 DEF Folds
    <2> QED
        BY <2>5
<1>3. N \in P
    <2> HIDE DEF P
    <2> QED
        BY <1>1, <1>2, NumbersReached
<1> QED
    BY <1>3

\* What holds before a loop and is kept by each turn holds after it.
LEMMA StagesKeep ==
    ASSUME NEW n \in Nat, NEW g, NEW I, <<0, g[0]>> \in I,
           \A k \in 1..n : <<k - 1, g[k - 1]>> \in I => <<k, g[k]>> \in I
    PROVE  <<n, g[n]>> \in I
<1> DEFINE P == {k \in Nat : k <= n => <<k, g[k]>> \in I}
<1>1. 0 \in P
    OBVIOUS
<1>2. ASSUME NEW k \in Nat, k \in P PROVE k + 1 \in P
    <2> SUFFICES ASSUME k + 1 <= n PROVE <<k + 1, g[k + 1]>> \in I
        OBVIOUS
    <2>1. k + 1 \in 1..n /\ (k + 1) - 1 = k /\ <<k, g[k]>> \in I
        BY <1>2
    <2> QED
        BY <2>1
<1> HIDE DEF P
<1>3. n \in P
    BY <1>1, <1>2, NumbersReached
<1> QED
    BY <1>3 DEF P

\* The adapter's loop over a batch, turn by turn.
LEMMA AdaptStages ==
    ASSUME NEW seq \in Seq(Samples), NEW V, NEW base \in V,
           \A v \in V : \A x \in Samples : AdaptSample(v, x) \in V
    PROVE  \E g :
              /\ g[0] = base
              /\ \A k \in 1..Len(seq) : g[k] = AdaptSample(g[k - 1], seq[k])
              /\ FoldLeft(AdaptSample, base, seq) = g[Len(seq)]
<1> DEFINE D == DOMAIN seq
           n == Len(seq)
           F == [x \in V \X (1..n) |-> AdaptSample(x[1], seq[x[2]])]
           Iter(h) == h = [s \in SUBSET D |-> IF s = {} THEN base
                                   ELSE AdaptSample(h[s \ {Max(s)}], seq[Max(s)])]
           iter == CHOOSE h : Iter(h)
           g == [k \in 0..n |-> iter[1..k]]
<1>1. FoldLeft(AdaptSample, base, seq) = iter[D]
    BY Zenon DEF FoldLeft, MapThenFoldSet
<1>2. D = 1..n /\ n \in Nat /\ \A k \in 1..n : seq[k] \in Samples
    OBVIOUS
<1>3. \E h : Folds(h, V, base, F, n)
    <2>1. \A v \in V : \A k \in 1..n : F[<<v, k>>] \in V
        BY <1>2
    <2> HIDE DEF F, n
    <2> QED
        BY <2>1, <1>2, FoldExists
<1>4. ASSUME NEW h, Folds(h, V, base, F, n) PROVE Iter(h)
    <2> SUFFICES ASSUME NEW s \in SUBSET D, s # {}
                 PROVE  h[s] = AdaptSample(h[s \ {Max(s)}], seq[Max(s)])
        BY <1>2, <1>4 DEF Folds
    <2>1. Max(s) \in 1..n
        BY <1>2, MaxOfNumbers
    <2> QED
        BY <2>1, <1>2, <1>4 DEF Folds
<1>5. Iter(iter)
    BY <1>3, <1>4
<1> HIDE DEF iter, n
<1>6. g[0] = base
    <2>1. 1..0 = {} /\ 0 \in 0..n
        BY <1>2
    <2> QED
        BY <2>1, <1>5, <1>2
<1>7. ASSUME NEW k \in 1..n PROVE g[k] = AdaptSample(g[k - 1], seq[k])
    <2>1. Max(1..k) = k /\ (1..k) \ {k} = 1..(k - 1) /\ 1..k \in SUBSET D /\ 1..k # {}
        BY <1>2, FirstNumbers
    <2>2. iter[1..k] = AdaptSample(iter[(1..k) \ {Max(1..k)}], seq[Max(1..k)])
        BY <1>5, <2>1
    <2>3. g[k] = iter[1..k] /\ g[k - 1] = iter[1..(k - 1)]
        BY <1>2
    <2> QED
        BY <2>1, <2>2, <2>3
<1>8. iter[D] = g[n]
    BY <1>2
<1> HIDE DEF g
<1> QED
    BY <1>1, <1>6, <1>7, <1>8 DEF n

\* What the adapter's loop keeps.
LEMMA AdaptLoop ==
    ASSUME NEW seq \in Seq(Samples), NEW V, NEW base \in V,
           \A v \in V : \A x \in Samples : AdaptSample(v, x) \in V,
           NEW I, <<0, base>> \in I,
           \A k \in 1..Len(seq) : \A v \in V :
               <<k - 1, v>> \in I => <<k, AdaptSample(v, seq[k])>> \in I
    PROVE  /\ FoldLeft(AdaptSample, base, seq) \in V
           /\ <<Len(seq), FoldLeft(AdaptSample, base, seq)>> \in I
<1> DEFINE J == {x \in I : x[2] \in V}
           n == Len(seq)
<1>1. PICK g : /\ g[0] = base
               /\ \A k \in 1..Len(seq) : g[k] = AdaptSample(g[k - 1], seq[k])
               /\ FoldLeft(AdaptSample, base, seq) = g[Len(seq)]
    BY AdaptStages
<1>2. <<0, g[0]>> \in J
    BY <1>1
<1>3. ASSUME NEW k \in 1..n, <<k - 1, g[k - 1]>> \in J PROVE <<k, g[k]>> \in J
    <2>1. g[k - 1] \in V /\ <<k - 1, g[k - 1]>> \in I /\ seq[k] \in Samples
        BY <1>3
    <2> QED
        BY <1>1, <2>1
<1> HIDE DEF J
<1>4. <<n, g[n]>> \in J
    <2>1. n \in Nat
        OBVIOUS
    <2> HIDE DEF n
    <2> QED
        BY <1>2, <1>3, <2>1, StagesKeep
<1> QED
    BY <1>1, <1>4 DEF J

\* The loop over the pen samples of a frame, turn by turn.
LEMMA PenStages ==
    ASSUME NEW seq \in Seq(PenSamples), NEW V, NEW base \in V,
           \A v \in V : \A x \in PenSamples : ProcessPen(v, x) \in V
    PROVE  \E g :
              /\ g[0] = base
              /\ \A k \in 1..Len(seq) : g[k] = ProcessPen(g[k - 1], seq[k])
              /\ FoldLeft(ProcessPen, base, seq) = g[Len(seq)]
<1> DEFINE D == DOMAIN seq
           n == Len(seq)
           F == [x \in V \X (1..n) |-> ProcessPen(x[1], seq[x[2]])]
           Iter(h) == h = [s \in SUBSET D |-> IF s = {} THEN base
                                   ELSE ProcessPen(h[s \ {Max(s)}], seq[Max(s)])]
           iter == CHOOSE h : Iter(h)
           g == [k \in 0..n |-> iter[1..k]]
<1>1. FoldLeft(ProcessPen, base, seq) = iter[D]
    BY Zenon DEF FoldLeft, MapThenFoldSet
<1>2. D = 1..n /\ n \in Nat /\ \A k \in 1..n : seq[k] \in PenSamples
    OBVIOUS
<1>3. \E h : Folds(h, V, base, F, n)
    <2>1. \A v \in V : \A k \in 1..n : F[<<v, k>>] \in V
        BY <1>2
    <2> HIDE DEF F, n
    <2> QED
        BY <2>1, <1>2, FoldExists
<1>4. ASSUME NEW h, Folds(h, V, base, F, n) PROVE Iter(h)
    <2> SUFFICES ASSUME NEW s \in SUBSET D, s # {}
                 PROVE  h[s] = ProcessPen(h[s \ {Max(s)}], seq[Max(s)])
        BY <1>2, <1>4 DEF Folds
    <2>1. Max(s) \in 1..n
        BY <1>2, MaxOfNumbers
    <2> QED
        BY <2>1, <1>2, <1>4 DEF Folds
<1>5. Iter(iter)
    BY <1>3, <1>4
<1> HIDE DEF iter, n
<1>6. g[0] = base
    <2>1. 1..0 = {} /\ 0 \in 0..n
        BY <1>2
    <2> QED
        BY <2>1, <1>5, <1>2
<1>7. ASSUME NEW k \in 1..n PROVE g[k] = ProcessPen(g[k - 1], seq[k])
    <2>1. Max(1..k) = k /\ (1..k) \ {k} = 1..(k - 1) /\ 1..k \in SUBSET D /\ 1..k # {}
        BY <1>2, FirstNumbers
    <2>2. iter[1..k] = ProcessPen(iter[(1..k) \ {Max(1..k)}], seq[Max(1..k)])
        BY <1>5, <2>1
    <2>3. g[k] = iter[1..k] /\ g[k - 1] = iter[1..(k - 1)]
        BY <1>2
    <2> QED
        BY <2>1, <2>2, <2>3
<1>8. iter[D] = g[n]
    BY <1>2
<1> HIDE DEF g
<1> QED
    BY <1>1, <1>6, <1>7, <1>8 DEF n

\* What the loop over pen samples keeps.
LEMMA PenLoop ==
    ASSUME NEW seq \in Seq(PenSamples), NEW V, NEW base \in V,
           \A v \in V : \A x \in PenSamples : ProcessPen(v, x) \in V,
           NEW I, <<0, base>> \in I,
           \A k \in 1..Len(seq) : \A v \in V :
               <<k - 1, v>> \in I => <<k, ProcessPen(v, seq[k])>> \in I
    PROVE  /\ FoldLeft(ProcessPen, base, seq) \in V
           /\ <<Len(seq), FoldLeft(ProcessPen, base, seq)>> \in I
<1> DEFINE J == {x \in I : x[2] \in V}
           n == Len(seq)
<1>1. PICK g : /\ g[0] = base
               /\ \A k \in 1..Len(seq) : g[k] = ProcessPen(g[k - 1], seq[k])
               /\ FoldLeft(ProcessPen, base, seq) = g[Len(seq)]
    BY PenStages
<1>2. <<0, g[0]>> \in J
    BY <1>1
<1>3. ASSUME NEW k \in 1..n, <<k - 1, g[k - 1]>> \in J PROVE <<k, g[k]>> \in J
    <2>1. g[k - 1] \in V /\ <<k - 1, g[k - 1]>> \in I /\ seq[k] \in PenSamples
        BY <1>3
    <2> QED
        BY <1>1, <2>1
<1> HIDE DEF J
<1>4. <<n, g[n]>> \in J
    <2>1. n \in Nat
        OBVIOUS
    <2> HIDE DEF n
    <2> QED
        BY <1>2, <1>3, <2>1, StagesKeep
<1> QED
    BY <1>1, <1>4 DEF J

\* The grouping of touches, turn by turn.
LEMMA GroupStages ==
    ASSUME NEW seq \in Seq(TouchSamples), NEW V, NEW base \in V,
           \A v \in V : \A x \in TouchSamples : AddToGroup(v, x) \in V
    PROVE  \E g :
              /\ g[0] = base
              /\ \A k \in 1..Len(seq) : g[k] = AddToGroup(g[k - 1], seq[k])
              /\ FoldLeft(AddToGroup, base, seq) = g[Len(seq)]
<1> DEFINE D == DOMAIN seq
           n == Len(seq)
           F == [x \in V \X (1..n) |-> AddToGroup(x[1], seq[x[2]])]
           Iter(h) == h = [s \in SUBSET D |-> IF s = {} THEN base
                                   ELSE AddToGroup(h[s \ {Max(s)}], seq[Max(s)])]
           iter == CHOOSE h : Iter(h)
           g == [k \in 0..n |-> iter[1..k]]
<1>1. FoldLeft(AddToGroup, base, seq) = iter[D]
    BY Zenon DEF FoldLeft, MapThenFoldSet
<1>2. D = 1..n /\ n \in Nat /\ \A k \in 1..n : seq[k] \in TouchSamples
    OBVIOUS
<1>3. \E h : Folds(h, V, base, F, n)
    <2>1. \A v \in V : \A k \in 1..n : F[<<v, k>>] \in V
        BY <1>2
    <2> HIDE DEF F, n
    <2> QED
        BY <2>1, <1>2, FoldExists
<1>4. ASSUME NEW h, Folds(h, V, base, F, n) PROVE Iter(h)
    <2> SUFFICES ASSUME NEW s \in SUBSET D, s # {}
                 PROVE  h[s] = AddToGroup(h[s \ {Max(s)}], seq[Max(s)])
        BY <1>2, <1>4 DEF Folds
    <2>1. Max(s) \in 1..n
        BY <1>2, MaxOfNumbers
    <2> QED
        BY <2>1, <1>2, <1>4 DEF Folds
<1>5. Iter(iter)
    BY <1>3, <1>4
<1> HIDE DEF iter, n
<1>6. g[0] = base
    <2>1. 1..0 = {} /\ 0 \in 0..n
        BY <1>2
    <2> QED
        BY <2>1, <1>5, <1>2
<1>7. ASSUME NEW k \in 1..n PROVE g[k] = AddToGroup(g[k - 1], seq[k])
    <2>1. Max(1..k) = k /\ (1..k) \ {k} = 1..(k - 1) /\ 1..k \in SUBSET D /\ 1..k # {}
        BY <1>2, FirstNumbers
    <2>2. iter[1..k] = AddToGroup(iter[(1..k) \ {Max(1..k)}], seq[Max(1..k)])
        BY <1>5, <2>1
    <2>3. g[k] = iter[1..k] /\ g[k - 1] = iter[1..(k - 1)]
        BY <1>2
    <2> QED
        BY <2>1, <2>2, <2>3
<1>8. iter[D] = g[n]
    BY <1>2
<1> HIDE DEF g
<1> QED
    BY <1>1, <1>6, <1>7, <1>8 DEF n

\* What the grouping keeps.
LEMMA GroupLoop ==
    ASSUME NEW seq \in Seq(TouchSamples), NEW V, NEW base \in V,
           \A v \in V : \A x \in TouchSamples : AddToGroup(v, x) \in V,
           NEW I, <<0, base>> \in I,
           \A k \in 1..Len(seq) : \A v \in V :
               <<k - 1, v>> \in I => <<k, AddToGroup(v, seq[k])>> \in I
    PROVE  /\ FoldLeft(AddToGroup, base, seq) \in V
           /\ <<Len(seq), FoldLeft(AddToGroup, base, seq)>> \in I
<1> DEFINE J == {x \in I : x[2] \in V}
           n == Len(seq)
<1>1. PICK g : /\ g[0] = base
               /\ \A k \in 1..Len(seq) : g[k] = AddToGroup(g[k - 1], seq[k])
               /\ FoldLeft(AddToGroup, base, seq) = g[Len(seq)]
    BY GroupStages
<1>2. <<0, g[0]>> \in J
    BY <1>1
<1>3. ASSUME NEW k \in 1..n, <<k - 1, g[k - 1]>> \in J PROVE <<k, g[k]>> \in J
    <2>1. g[k - 1] \in V /\ <<k - 1, g[k - 1]>> \in I /\ seq[k] \in TouchSamples
        BY <1>3
    <2> QED
        BY <1>1, <2>1
<1> HIDE DEF J
<1>4. <<n, g[n]>> \in J
    <2>1. n \in Nat
        OBVIOUS
    <2> HIDE DEF n
    <2> QED
        BY <1>2, <1>3, <2>1, StagesKeep
<1> QED
    BY <1>1, <1>4 DEF J

\* The injections of a frame's touches, turn by turn.
LEMMA InjectStages ==
    ASSUME NEW seq \in Seq(SUBSET TouchSamples), NEW V, NEW base \in V,
           \A v \in V : \A x \in SUBSET TouchSamples : InjectTouches(v, x) \in V
    PROVE  \E g :
              /\ g[0] = base
              /\ \A k \in 1..Len(seq) : g[k] = InjectTouches(g[k - 1], seq[k])
              /\ FoldLeft(InjectTouches, base, seq) = g[Len(seq)]
<1> DEFINE D == DOMAIN seq
           n == Len(seq)
           F == [x \in V \X (1..n) |-> InjectTouches(x[1], seq[x[2]])]
           Iter(h) == h = [s \in SUBSET D |-> IF s = {} THEN base
                                   ELSE InjectTouches(h[s \ {Max(s)}], seq[Max(s)])]
           iter == CHOOSE h : Iter(h)
           g == [k \in 0..n |-> iter[1..k]]
<1>1. FoldLeft(InjectTouches, base, seq) = iter[D]
    BY Zenon DEF FoldLeft, MapThenFoldSet
<1>2. D = 1..n /\ n \in Nat /\ \A k \in 1..n : seq[k] \in SUBSET TouchSamples
    OBVIOUS
<1>3. \E h : Folds(h, V, base, F, n)
    <2>1. \A v \in V : \A k \in 1..n : F[<<v, k>>] \in V
        BY <1>2
    <2> HIDE DEF F, n
    <2> QED
        BY <2>1, <1>2, FoldExists
<1>4. ASSUME NEW h, Folds(h, V, base, F, n) PROVE Iter(h)
    <2> SUFFICES ASSUME NEW s \in SUBSET D, s # {}
                 PROVE  h[s] = InjectTouches(h[s \ {Max(s)}], seq[Max(s)])
        BY <1>2, <1>4 DEF Folds
    <2>1. Max(s) \in 1..n
        BY <1>2, MaxOfNumbers
    <2> QED
        BY <2>1, <1>2, <1>4 DEF Folds
<1>5. Iter(iter)
    BY <1>3, <1>4
<1> HIDE DEF iter, n
<1>6. g[0] = base
    <2>1. 1..0 = {} /\ 0 \in 0..n
        BY <1>2
    <2> QED
        BY <2>1, <1>5, <1>2
<1>7. ASSUME NEW k \in 1..n PROVE g[k] = InjectTouches(g[k - 1], seq[k])
    <2>1. Max(1..k) = k /\ (1..k) \ {k} = 1..(k - 1) /\ 1..k \in SUBSET D /\ 1..k # {}
        BY <1>2, FirstNumbers
    <2>2. iter[1..k] = InjectTouches(iter[(1..k) \ {Max(1..k)}], seq[Max(1..k)])
        BY <1>5, <2>1
    <2>3. g[k] = iter[1..k] /\ g[k - 1] = iter[1..(k - 1)]
        BY <1>2
    <2> QED
        BY <2>1, <2>2, <2>3
<1>8. iter[D] = g[n]
    BY <1>2
<1> HIDE DEF g
<1> QED
    BY <1>1, <1>6, <1>7, <1>8 DEF n

\* What the injections keep.
LEMMA InjectLoop ==
    ASSUME NEW seq \in Seq(SUBSET TouchSamples), NEW V, NEW base \in V,
           \A v \in V : \A x \in SUBSET TouchSamples : InjectTouches(v, x) \in V,
           NEW I, <<0, base>> \in I,
           \A k \in 1..Len(seq) : \A v \in V :
               <<k - 1, v>> \in I => <<k, InjectTouches(v, seq[k])>> \in I
    PROVE  /\ FoldLeft(InjectTouches, base, seq) \in V
           /\ <<Len(seq), FoldLeft(InjectTouches, base, seq)>> \in I
<1> DEFINE J == {x \in I : x[2] \in V}
           n == Len(seq)
<1>1. PICK g : /\ g[0] = base
               /\ \A k \in 1..Len(seq) : g[k] = InjectTouches(g[k - 1], seq[k])
               /\ FoldLeft(InjectTouches, base, seq) = g[Len(seq)]
    BY InjectStages
<1>2. <<0, g[0]>> \in J
    BY <1>1
<1>3. ASSUME NEW k \in 1..n, <<k - 1, g[k - 1]>> \in J PROVE <<k, g[k]>> \in J
    <2>1. g[k - 1] \in V /\ <<k - 1, g[k - 1]>> \in I /\ seq[k] \in SUBSET TouchSamples
        BY <1>3
    <2> QED
        BY <1>1, <2>1
<1> HIDE DEF J
<1>4. <<n, g[n]>> \in J
    <2>1. n \in Nat
        OBVIOUS
    <2> HIDE DEF n
    <2> QED
        BY <1>2, <1>3, <2>1, StagesKeep
<1> QED
    BY <1>1, <1>4 DEF J

\* The samples of some pointers, in the order of their ids, are those samples.
LEMMA OrderedHas ==
    ASSUME NEW S, NEW samples, DOMAIN samples \subseteq Ids,
           \A i \in DOMAIN samples : samples[i] \in S
    PROVE  /\ Ordered(samples) \in Seq(S)
           /\ \A k \in DOMAIN Ordered(samples) : \E i \in DOMAIN samples : Ordered(samples)[k] = samples[i]
           /\ \A i \in DOMAIN samples : \E k \in DOMAIN Ordered(samples) : Ordered(samples)[k] = samples[i]
<1> DEFINE D == DOMAIN samples
           Step(f, i) == IF i - 1 \in D THEN Append(f[i - 1], samples[i - 1]) ELSE f[i - 1]
           Upto(f, n) == /\ f \in [0..n -> Seq(S)] /\ f[0] = <<>>
                         /\ \A i \in 1..n : f[i] = Step(f, i)
           Recur(f) == f = [i \in 0..MaxPointer + 1 |->
                               IF i = 0 THEN <<>>
                               ELSE IF i - 1 \in D THEN Append(f[i - 1], samples[i - 1])
                               ELSE f[i - 1]]
           below == CHOOSE f : Recur(f)
           P == {n \in Nat : \E f : Upto(f, n)}
<1>1. MaxPointer \in Nat /\ MaxPointer + 1 \in Nat
    BY BoundAssumption
<1>2. 0 \in P
    <2>1. Upto([i \in 0..0 |-> <<>>], 0)
        OBVIOUS
    <2> QED
        BY <2>1
<1>3. ASSUME NEW n \in Nat, n \in P PROVE n + 1 \in P
    <2>1. PICK f : Upto(f, n)
        BY <1>3
    <2> DEFINE new == IF n \in D THEN Append(f[n], samples[n]) ELSE f[n]
               h == [i \in 0..(n + 1) |-> IF i = n + 1 THEN new ELSE f[i]]
    <2>2. new \in Seq(S)
        BY <2>1
    <2>3. h \in [0..(n + 1) -> Seq(S)] /\ h[0] = <<>>
        BY <2>1, <2>2
    <2>4. ASSUME NEW i \in 1..(n + 1) PROVE h[i] = Step(h, i)
        <3>1. CASE i = n + 1
            <4>1. i - 1 = n /\ h[n] = f[n] /\ h[i] = new
                BY <3>1
            <4> QED
                BY <4>1
        <3>2. CASE i # n + 1
            <4>1. i \in 1..n /\ i - 1 \in 0..n /\ h[i] = f[i] /\ h[i - 1] = f[i - 1]
                BY <3>2
            <4> QED
                BY <2>1, <4>1
        <3> QED
            BY <3>1, <3>2
    <2> HIDE DEF h
    <2>5. Upto(h, n + 1)
        BY <2>3, <2>4
    <2> HIDE DEF Upto
    <2> QED
        BY <2>5
<1>4. \E f : Upto(f, MaxPointer + 1)
    <2> HIDE DEF P
    <2>1. MaxPointer + 1 \in P
        BY <1>1, <1>2, <1>3, NumbersReached
    <2> QED
        BY <2>1 DEF P
<1>5. ASSUME NEW f, Upto(f, MaxPointer + 1) PROVE Recur(f)
    <2> DEFINE N == MaxPointer + 1
    <2>1. f \in [0..N -> Seq(S)] /\ f[0] = <<>> /\ \A i \in 1..N : f[i] = Step(f, i)
        BY <1>5
    <2>2. N \in Nat
        BY <1>1
    <2> DEFINE e(i) == IF i = 0 THEN <<>>
                       ELSE IF i - 1 \in D THEN Append(f[i - 1], samples[i - 1])
                       ELSE f[i - 1]
    <2> HIDE DEF N, D
    <2>3. ASSUME NEW i \in 0..N PROVE f[i] = e(i)
        <3>1. CASE i = 0
            BY <2>1, <3>1
        <3>2. CASE i # 0
            <4>1. i \in 1..N
                BY <2>2, <3>2
            <4> QED
                BY <2>1, <3>2, <4>1
        <3> QED
            BY <3>1, <3>2
    <2> HIDE DEF e
    <2>4. f = [i \in 0..N |-> e(i)]
        BY <2>1, <2>3
    <2> QED
        BY <2>4 DEF N, e
<1>6. Recur(below)
    <2> HIDE DEF Upto, Recur
    <2> QED
        BY <1>4, <1>5
<1>7. Ordered(samples) = below[MaxPointer + 1]
    BY DEF Ordered
<1> HIDE DEF below
<1>8. below[0] = <<>> /\ \A i \in 1..MaxPointer + 1 : below[i] = Step(below, i)
    <2> HIDE DEF D
    <2>1. 0 \in 0..MaxPointer + 1 /\ \A i \in 1..MaxPointer + 1 : i \in 0..MaxPointer + 1 /\ i # 0
        BY <1>1
    <2> QED
        BY <1>6, <2>1
<1>80. D \subseteq Nat
    BY DEF Ids
<1> DEFINE Good(i, b) ==
        /\ b \in Seq(S)
        /\ \A k \in DOMAIN b : \E j \in D : b[k] = samples[j]
        /\ \A j \in D : j < i => \E k \in DOMAIN b : b[k] = samples[j]
    I == {x \in Nat \X Seq(S) : Good(x[1], x[2])}
<1>9. <<MaxPointer + 1, below[MaxPointer + 1]>> \in I
    <2>1. <<0, below[0]>> \in I
        <3>1. Good(0, <<>>)
            BY <1>80
        <3>2. below[0] = <<>> /\ <<>> \in Seq(S) /\ 0 \in Nat
            BY <1>8
        <3> HIDE DEF Good
        <3> QED
            BY <3>1, <3>2
    <2>2. ASSUME NEW k \in 1..MaxPointer + 1, <<k - 1, below[k - 1]>> \in I
          PROVE  <<k, below[k]>> \in I
        <3> DEFINE b == below[k - 1]
        <3>1. b \in Seq(S) /\ Good(k - 1, b)
            BY <2>2
        <3>2. below[k] = Step(below, k)
            BY <1>8
        <3>3. D \subseteq Nat /\ k \in Nat /\ k - 1 \in Nat
            BY <1>1 DEF Ids
        <3>4. CASE k - 1 \notin D
            <4>1. below[k] = b
                BY <3>2, <3>4
            <4>2. Good(k, b)
                BY <3>1, <3>3, <3>4
            <4> QED
                BY <3>1, <3>3, <4>1, <4>2
        <3>5. CASE k - 1 \in D
            <4> DEFINE x == samples[k - 1]
                       c == Append(b, x)
            <4>1. below[k] = c
                BY <3>2, <3>5
            <4>2. x \in S
                BY <3>5
            <4> HIDE DEF b, x
            <4>3. /\ c \in Seq(S) /\ Len(c) = Len(b) + 1 /\ c[Len(b) + 1] = x
                  /\ \A m \in DOMAIN b : m \in DOMAIN c /\ c[m] = b[m]
                  /\ \A m \in DOMAIN c : m \in DOMAIN b \/ m = Len(b) + 1
                  /\ Len(b) + 1 \in DOMAIN c
                BY <3>1, <4>2
            <4> HIDE DEF c
            <4>4. \A m \in DOMAIN c : \E j \in D : c[m] = samples[j]
                <5> SUFFICES ASSUME NEW m \in DOMAIN c PROVE \E j \in D : c[m] = samples[j]
                    OBVIOUS
                <5>1. CASE m \in DOMAIN b
                    BY <3>1, <4>3, <5>1
                <5>2. CASE m = Len(b) + 1
                    BY <3>5, <4>3, <5>2 DEF x
                <5> QED
                    BY <4>3, <5>1, <5>2
            <4>5. \A j \in D : j < k => \E m \in DOMAIN c : c[m] = samples[j]
                <5> SUFFICES ASSUME NEW j \in D, j < k PROVE \E m \in DOMAIN c : c[m] = samples[j]
                    OBVIOUS
                <5>1. CASE j = k - 1
                    BY <4>3, <5>1 DEF x
                <5>2. CASE j # k - 1
                    <6>1. j < k - 1
                        BY <3>3, <5>2
                    <6>2. PICK m \in DOMAIN b : b[m] = samples[j]
                        BY <3>1, <6>1
                    <6> QED
                        BY <4>3, <6>2
                <5> QED
                    BY <5>1, <5>2
            <4>6. Good(k, c)
                BY <4>3, <4>4, <4>5
            <4> QED
                BY <3>3, <4>1, <4>3, <4>6
        <3> QED
            BY <3>4, <3>5
    <2> HIDE DEF I
    <2> QED
        BY <1>1, <2>1, <2>2, StagesKeep
<1>10. \A j \in D : j < MaxPointer + 1
    BY <1>1 DEF Ids
<1> HIDE DEF D
<1>11. Good(MaxPointer + 1, below[MaxPointer + 1])
    BY <1>9
<1> QED
    BY <1>7, <1>10, <1>11 DEF D

\* The kinds of the host's records: InputSystem with its injector, what is adapted
\* and not yet processed, and the adapter's state within a batch.
Inputs == [guarded : BOOLEAN, tip : BOOLEAN, suppressed : BOOLEAN, mask : SUBSET WireIds,
           pen : BOOLEAN, held : BOOLEAN, penDown : BOOLEAN, touching : SUBSET WireIds]
Frames == [pens : Seq(PenSamples), touches : Seq(TouchSamples), current : BOOLEAN]
Adaptations == [contacts : SUBSET (Tools \X WireIds), pens : Seq(PenSamples),
                touches : Seq(TouchSamples)]

\* TypeOK, with the shape of the records, and two facts that it rests on: there is
\* one stylus, and a rotation that is on its way has been counted.
TabletTypes ==
    /\ glass \in [Ids -> Tools \cup {Nothing}]
    /\ button \in BOOLEAN /\ tipping \in BOOLEAN /\ pressed \in BOOLEAN
    /\ tracked \in [Ids -> Samples \cup {NoSample}]
    /\ stylus \in {{}} \cup {{i} : i \in Ids}

OnePen == \A i, j \in Ids : glass[i] = "pen" /\ glass[j] = "pen" => i = j

Left == [events : 0..MaxEvents, presses : 0..MaxPresses, rotations : 0..MaxRotations]

WayTypes ==
    /\ batches \in Seq(Seq(Samples)) /\ Len(batches) <= MaxUnderway
    /\ turns \in Nat /\ turns + left.rotations <= MaxRotations
    /\ left \in Left

HostTypes ==
    /\ contacts \in SUBSET (Tools \X WireIds)
    /\ frame \in Frames
    /\ turning \in BOOLEAN
    /\ input \in Inputs

\* All of them.
Types == TabletTypes /\ OnePen /\ WayTypes /\ HostTypes

\* The bounds are numbers.
LEMMA Bounds ==
    /\ MaxPointer \in Nat /\ MaxEvents \in Nat /\ MaxPresses \in Nat /\ MaxRotations \in Nat
    /\ MaxUnderway \in Nat
BY BoundAssumption

\* What is spent is no longer allowed.
LEMMA Spent ==
    ASSUME left \in Left
    PROVE  /\ left.events > 0 => [left EXCEPT !.events = @ - 1] \in Left
           /\ left.presses > 0 => [left EXCEPT !.presses = @ - 1] \in Left
           /\ left.rotations > 0 => [left EXCEPT !.rotations = @ - 1] \in Left
           /\ left.rotations \in Nat
           /\ [left EXCEPT !.events = @ - 1].rotations = left.rotations
           /\ [left EXCEPT !.presses = @ - 1].rotations = left.rotations
           /\ [left EXCEPT !.rotations = @ - 1].rotations = left.rotations - 1
BY Bounds DEF Left

\* A wire id is one.
LEMMA WireIdTyped == \A i \in Ids : WireId(i) \in WireIds
BY BoundAssumption DEF Ids, WireIds, WireId

\* The records are of the kinds that TypeOK names.
LEMMA TypesInShape == Types => TypeOK
<1> SUFFICES ASSUME Types PROVE TypeOK
    OBVIOUS
<1>1. TabletTypes /\ WayTypes /\ HostTypes
    BY DEF Types
<1>2. {button, tipping, pressed, turning} \subseteq BOOLEAN
    BY <1>1, Zenon DEF TabletTypes, HostTypes
<1>3. \A i \in Ids : tracked[i] \in Samples \cup {NoSample}
    BY <1>1 DEF TabletTypes
<1>4. turns \in 0..MaxRotations
    <2>1. turns \in Nat /\ turns + left.rotations <= MaxRotations /\ left.rotations \in Nat
        BY <1>1, Spent DEF WayTypes
    <2> QED
        BY <2>1, Bounds
<1>5. /\ contacts \subseteq Tools \X WireIds /\ frame.current \in BOOLEAN
      /\ frame.pens \in Seq([phase : Actions, key : BOOLEAN])
      /\ frame.touches \in Seq([id : WireIds, phase : Actions])
    BY <1>1 DEF HostTypes, Frames, PenSamples, TouchSamples
<1>6. input \in [guarded : BOOLEAN, tip : BOOLEAN, suppressed : BOOLEAN, mask : SUBSET WireIds,
                 pen : BOOLEAN, held : BOOLEAN, penDown : BOOLEAN, touching : SUBSET WireIds]
    BY <1>1 DEF HostTypes, Inputs
<1> QED
    BY <1>1, <1>2, <1>3, <1>4, <1>5, <1>6 DEF TypeOK, TabletTypes, WayTypes, Left

\* The calls of the injector and of InputSystem keep the record's kind.
LEMMA InjectPenTyped ==
    ASSUME NEW s \in Inputs, NEW phase PROVE InjectPen(s, phase) \in Inputs
<1> DEFINE ok == Legal(phase, s.penDown)
           shown == ok /\ phase \notin {"up", "cancel"}
           down == IF ok THEN Tip(phase) ELSE s.penDown
<1>1. InjectPen(s, phase) = [s EXCEPT !.pen = shown, !.penDown = down]
    BY Zenon DEF InjectPen
<1>2. shown \in BOOLEAN /\ s.penDown \in BOOLEAN /\ Tip(phase) \in BOOLEAN
    BY DEF Inputs, Tip
<1>3. down \in BOOLEAN
    BY <1>2
<1> HIDE DEF shown, down
<1> QED
    BY <1>1, <1>2, <1>3 DEF Inputs

\* So does a release of touches.
LEMMA ReleaseTouchesTyped ==
    ASSUME NEW s \in Inputs PROVE ReleaseTouches(s) \in Inputs
BY DEF ReleaseTouches, Inputs

\* So does ReleaseAll.
LEMMA ReleaseEverythingTyped ==
    ASSUME NEW s \in Inputs PROVE ReleaseEverything(s) \in Inputs
<1> DEFINE penned == IF s.pen THEN InjectPen(s, "cancel") ELSE s
           lifted == ReleaseTouches(penned)
<1>1. lifted \in Inputs
    BY InjectPenTyped, ReleaseTouchesTyped
<1>2. ReleaseEverything(s) =
          [lifted EXCEPT !.pen = FALSE, !.held = FALSE, !.tip = FALSE, !.suppressed = FALSE]
    BY DEF ReleaseEverything
<1> HIDE DEF lifted
<1> QED
    BY <1>1, <1>2 DEF Inputs

\* So does a pen sample.
LEMMA ProcessPenTyped ==
    ASSUME NEW s \in Inputs, NEW sample \in PenSamples PROVE ProcessPen(s, sample) \in Inputs
<1> DEFINE tip == Tip(sample.phase)
           blocked == s.guarded /\ tip
           lifted == IF blocked /\ ~s.suppressed THEN ReleaseTouches(s) ELSE s
           marked == [lifted EXCEPT !.tip = tip, !.held = sample.key,
                                    !.suppressed = @ \/ blocked]
<1>1. lifted \in Inputs
    BY ReleaseTouchesTyped
<1>2. ProcessPen(s, sample) = InjectPen(marked, sample.phase)
    BY Zenon DEF ProcessPen
<1>3. tip \in BOOLEAN /\ blocked \in BOOLEAN /\ sample.key \in BOOLEAN
    BY DEF Tip, PenSamples
<1>4. (lifted.suppressed \/ blocked) \in BOOLEAN
    OBVIOUS
<1> HIDE DEF lifted, tip, blocked
<1>5. marked \in Inputs
    BY <1>1, <1>3, <1>4 DEF Inputs
<1> QED
    BY <1>2, <1>5, InjectPenTyped

\* So does a group of touches.
LEMMA InjectTouchesTyped ==
    ASSUME NEW s \in Inputs, NEW group \in SUBSET TouchSamples
    PROVE  InjectTouches(s, group) \in Inputs
<1> DEFINE holding == {t.id : t \in {u \in group : Tip(u.phase)}}
           lifting == {t.id : t \in group} \ holding
           ok == \A t \in group : Legal(t.phase, t.id \in s.touching)
<1>1. holding \in SUBSET WireIds /\ lifting \in SUBSET WireIds
    BY DEF TouchSamples
<1>2. InjectTouches(s, group) =
          [s EXCEPT !.mask = (@ \ lifting) \cup holding,
                    !.touching = IF ok THEN (@ \ lifting) \cup holding ELSE @]
    BY Zenon DEF InjectTouches
<1> HIDE DEF holding, lifting, ok
<1> QED
    BY <1>1, <1>2 DEF Inputs

\* What all pen samples of a frame do, and all touches.
LEMMA PensTyped ==
    ASSUME NEW s \in Inputs, NEW pens \in Seq(PenSamples)
    PROVE  FoldLeft(ProcessPen, s, pens) \in Inputs
<1> DEFINE I == Nat \X Inputs
<1>1. \A v \in Inputs : \A x \in PenSamples : ProcessPen(v, x) \in Inputs
    BY ProcessPenTyped
<1>2. <<0, s>> \in I
    OBVIOUS
<1>3. \A k \in 1..Len(pens) : \A v \in Inputs :
          <<k - 1, v>> \in I => <<k, ProcessPen(v, pens[k])>> \in I
    BY <1>1
<1> HIDE DEF I
<1> QED
    BY <1>1, <1>2, <1>3, PenLoop

\* A group is a set of touches.
LEMMA GroupsTyped ==
    ASSUME NEW touches \in Seq(TouchSamples)
    PROVE  FoldLeft(AddToGroup, <<>>, touches) \in Seq(SUBSET TouchSamples)
<1> DEFINE V == Seq(SUBSET TouchSamples)
           I == Nat \X V
<1>1. ASSUME NEW groups \in V, NEW t \in TouchSamples PROVE AddToGroup(groups, t) \in V
    <2>1. Append(groups, {t}) \in V
        OBVIOUS
    <2>2. CASE groups # <<>>
        <3>1. Len(groups) \in DOMAIN groups /\ groups[Len(groups)] \in SUBSET TouchSamples
            BY <2>2
        <3>2. [groups EXCEPT ![Len(groups)] = groups[Len(groups)] \cup {t}] \in V
            BY <3>1
        <3> QED
            BY <2>1, <3>2 DEF AddToGroup
    <2>3. CASE groups = <<>>
        BY <2>1, <2>3 DEF AddToGroup
    <2> QED
        BY <2>2, <2>3
<1>20. <<>> \in V
    OBVIOUS
<1> HIDE DEF V
<1>2. <<>> \in V /\ <<0, <<>>>> \in I
    BY <1>20
<1>3. \A k \in 1..Len(touches) : \A v \in V :
          <<k - 1, v>> \in I => <<k, AddToGroup(v, touches[k])>> \in I
    BY <1>1
<1> HIDE DEF I
<1> QED
    BY <1>1, <1>2, <1>3, GroupLoop DEF V

\* Nor does the injection of all groups change the kind.
LEMMA TouchesTyped ==
    ASSUME NEW s \in Inputs, NEW groups \in Seq(SUBSET TouchSamples)
    PROVE  FoldLeft(InjectTouches, s, groups) \in Inputs
<1> DEFINE I == Nat \X Inputs
<1>1. \A v \in Inputs : \A x \in SUBSET TouchSamples : InjectTouches(v, x) \in Inputs
    BY InjectTouchesTyped
<1>2. <<0, s>> \in I
    OBVIOUS
<1>3. \A k \in 1..Len(groups) : \A v \in Inputs :
          <<k - 1, v>> \in I => <<k, InjectTouches(v, groups[k])>> \in I
    BY <1>1
<1> HIDE DEF I
<1> QED
    BY <1>1, <1>2, <1>3, InjectLoop

\* So does a frame's touches.
LEMMA ProcessTouchesTyped ==
    ASSUME NEW s \in Inputs, NEW touches \in Seq(TouchSamples)
    PROVE  ProcessTouches(s, touches) \in Inputs
<1> DEFINE free == [s EXCEPT !.suppressed = FALSE]
           barred == [s EXCEPT !.suppressed = TRUE]
           groups == FoldLeft(AddToGroup, <<>>, touches)
<1>1. free \in Inputs /\ barred \in Inputs
    BY DEF Inputs
<1>2. groups \in Seq(SUBSET TouchSamples)
    BY GroupsTyped
<1> HIDE DEF free, groups
<1>3. FoldLeft(InjectTouches, free, groups) \in Inputs
    BY <1>1, <1>2, TouchesTyped
<1>4. ProcessTouches(s, touches) =
          IF touches = <<>> THEN s
          ELSE IF s.guarded /\ s.tip THEN barred
          ELSE FoldLeft(InjectTouches, free, groups)
    BY DEF ProcessTouches, free, barred, groups
<1> HIDE DEF barred
<1> QED
    BY <1>1, <1>3, <1>4

\* A phase is one.
LEMMA PhaseTyped ==
    ASSUME NEW action \in Actions, NEW was
    PROVE  PhaseFor(action, was) \in Actions
BY DEF PhaseFor, Actions, Tip

\* A sample keeps the kind of the adapter's state.
LEMMA AdaptSampleTyped ==
    ASSUME NEW a \in Adaptations, NEW sample \in Samples
    PROVE  AdaptSample(a, sample) \in Adaptations
<1> DEFINE key == <<sample.tool, sample.id>>
           phase == PhaseFor(sample.action, key \in a.contacts)
           held == IF Tip(sample.action) THEN a.contacts \cup {key} ELSE a.contacts \ {key}
           p == [phase |-> phase, key |-> sample.key]
           t == [id |-> sample.id, phase |-> phase]
           pens == IF sample.tool = "pen" THEN Append(a.pens, p) ELSE a.pens
           touches == IF sample.tool = "touch" /\ phase # "hover" THEN Append(a.touches, t)
                      ELSE a.touches
<1>1. /\ sample.tool \in Tools /\ sample.id \in WireIds /\ sample.action \in Actions
      /\ sample.key \in BOOLEAN /\ a.contacts \in SUBSET (Tools \X WireIds)
      /\ a.pens \in Seq(PenSamples) /\ a.touches \in Seq(TouchSamples)
    BY DEF Samples, Adaptations
<1>2. AdaptSample(a, sample) = [contacts |-> held, pens |-> pens, touches |-> touches]
    BY Zenon DEF AdaptSample
<1>3. phase \in Actions
    BY <1>1, PhaseTyped
<1>4. key \in Tools \X WireIds
    BY <1>1
<1> HIDE DEF phase, key
<1>5. held \in SUBSET (Tools \X WireIds)
    BY <1>1, <1>4
<1>6. p \in PenSamples /\ t \in TouchSamples
    BY <1>1, <1>3 DEF PenSamples, TouchSamples
<1> HIDE DEF p, t
<1>7. pens \in Seq(PenSamples) /\ touches \in Seq(TouchSamples)
    BY <1>1, <1>6
<1> HIDE DEF pens, touches, held
<1> QED
    BY <1>2, <1>5, <1>7 DEF Adaptations

\* A batch does too.
LEMMA AdaptTyped ==
    ASSUME NEW a \in Adaptations, NEW b \in Seq(Samples)
    PROVE  FoldLeft(AdaptSample, a, b) \in Adaptations
<1> DEFINE I == Nat \X Adaptations
<1>1. \A v \in Adaptations : \A x \in Samples : AdaptSample(v, x) \in Adaptations
    BY AdaptSampleTyped
<1>2. <<0, a>> \in I
    OBVIOUS
<1>3. \A k \in 1..Len(b) : \A v \in Adaptations :
          <<k - 1, v>> \in I => <<k, AdaptSample(v, b[k])>> \in I
    BY <1>1
<1> HIDE DEF I
<1> QED
    BY <1>1, <1>2, <1>3, AdaptLoop

-----------------------------------------------------------------------------
(* What a MotionEvent does. *)

\* The pens of a motion; whether a tip is down after some of them; the sample of a
\* pointer; and the pointers that are not dropped.
PensOf(motion, tools) == {i \in DOMAIN motion : tools[i] = "pen"}
Tipped(ids, motion) == IF ids = {} THEN tipping ELSE \E p \in ids : Tip(motion[p])
SampleOf(motion, tools, i) ==
    [tool |-> tools[i], id |-> WireId(i), action |-> motion[i], key |-> tools[i] = "pen" /\ pressed]
SeenOf(motion, tools) ==
    {i \in DOMAIN motion :
        tools[i] = "touch" => ~Tipped({p \in PensOf(motion, tools) : p < i}, motion)}

\* Pointers that Android can report: one stylus at most.
Motion(motion, tools) ==
    /\ DOMAIN motion \subseteq Ids
    /\ \A i \in DOMAIN motion : motion[i] \in Actions /\ tools[i] \in Tools
    /\ \A i, j \in DOMAIN motion : tools[i] = "pen" /\ tools[j] = "pen" => i = j

\* Capture, in these names.
LEMMA Captured ==
    ASSUME NEW motion, NEW tools, Capture(motion, tools)
    PROVE  /\ tipping' = Tipped(PensOf(motion, tools), motion)
           /\ stylus' = IF PensOf(motion, tools) = {} THEN stylus ELSE PensOf(motion, tools)
           /\ tracked' = [i \in Ids |->
                             IF i \notin SeenOf(motion, tools) THEN tracked[i]
                             ELSE IF motion[i] \in {"up", "cancel"} THEN NoSample
                             ELSE SampleOf(motion, tools, i)]
           /\ Send(Ordered([i \in SeenOf(motion, tools) |-> SampleOf(motion, tools, i)]))
BY Zenon DEF Capture, Tipped, PensOf, SeenOf, SampleOf

\* What is sent are the samples of the pointers that are seen.
LEMMA CaptureSends ==
    ASSUME NEW motion, NEW tools, Motion(motion, tools), pressed \in BOOLEAN,
           Capture(motion, tools)
    PROVE  \E b \in Seq(Samples) :
              /\ Send(b)
              /\ \A k \in DOMAIN b : \E i \in SeenOf(motion, tools) : b[k] = SampleOf(motion, tools, i)
              /\ \A i \in SeenOf(motion, tools) : \E k \in DOMAIN b : b[k] = SampleOf(motion, tools, i)
<1> DEFINE seen == SeenOf(motion, tools)
           samples == [i \in seen |-> SampleOf(motion, tools, i)]
<1>1. seen \subseteq DOMAIN motion
    BY DEF SeenOf
<1>2. \A i \in seen : SampleOf(motion, tools, i) \in Samples
    <2> SUFFICES ASSUME NEW i \in seen PROVE SampleOf(motion, tools, i) \in Samples
        OBVIOUS
    <2>1. tools[i] \in Tools /\ WireId(i) \in WireIds /\ motion[i] \in Actions
        BY <1>1, WireIdTyped DEF Motion
    <2>2. (tools[i] = "pen" /\ pressed) \in BOOLEAN
        OBVIOUS
    <2> QED
        BY <2>1, <2>2, Zenon DEF SampleOf, Samples
<1> HIDE DEF seen
<1>3. DOMAIN samples \subseteq Ids /\ \A i \in DOMAIN samples : samples[i] \in Samples
    BY <1>1, <1>2 DEF Motion
<1>4. Send(Ordered(samples))
    BY Captured DEF seen
<1>5. DOMAIN samples = seen /\ \A i \in seen : samples[i] = SampleOf(motion, tools, i)
    OBVIOUS
<1> HIDE DEF samples
<1>6. /\ Ordered(samples) \in Seq(Samples)
      /\ \A k \in DOMAIN Ordered(samples) : \E i \in DOMAIN samples : Ordered(samples)[k] = samples[i]
      /\ \A i \in DOMAIN samples : \E k \in DOMAIN Ordered(samples) : Ordered(samples)[k] = samples[i]
    BY <1>3, OrderedHas
<1>7. /\ \A k \in DOMAIN Ordered(samples) : \E i \in seen : Ordered(samples)[k] = SampleOf(motion, tools, i)
      /\ \A i \in seen : \E k \in DOMAIN Ordered(samples) : Ordered(samples)[k] = SampleOf(motion, tools, i)
    BY <1>5, <1>6
<1> QED
    BY <1>4, <1>6, <1>7 DEF seen

\* A batch that is sent is one more on the way, or nothing.
LEMMA SendTyped ==
    ASSUME WayTypes, Room, NEW b \in Seq(Samples), Send(b)
    PROVE  batches' \in Seq(Seq(Samples)) /\ Len(batches') <= MaxUnderway
<1>1. MaxUnderway \in Nat /\ batches \in Seq(Seq(Samples)) /\ Len(batches) < MaxUnderway
    BY BoundAssumption DEF WayTypes, Room
<1>2. batches' = batches \/ batches' = Append(batches, b)
    BY DEF Send
<1> DEFINE Batches == Seq(Samples)
<1>3. batches \in Seq(Batches) /\ b \in Batches
    BY <1>1
<1> HIDE DEF Batches
<1>4. Append(batches, b) \in Seq(Batches) /\ Len(Append(batches, b)) = Len(batches) + 1
      /\ Len(batches) \in Nat
    BY <1>3
<1>5. batches' \in Seq(Batches) /\ Len(batches') <= MaxUnderway
    BY <1>1, <1>2, <1>3, <1>4
<1> QED
    BY <1>5 DEF Batches

\* The event leaves everything in its range.
LEMMA CaptureTyped ==
    ASSUME Types, NEW motion, NEW tools, Motion(motion, tools), Event,
           Capture(motion, tools)
    PROVE  /\ tipping' \in BOOLEAN
           /\ tracked' \in [Ids -> Samples \cup {NoSample}]
           /\ stylus' \in {{}} \cup {{i} : i \in Ids}
           /\ WayTypes' /\ HostTypes'
<1>1. TabletTypes /\ WayTypes /\ HostTypes
    BY DEF Types
<1>2. tipping' \in BOOLEAN
    <2>1. Tipped(PensOf(motion, tools), motion) \in BOOLEAN
        BY <1>1 DEF Tipped, TabletTypes
    <2> QED
        BY <2>1, Captured
<1>3. stylus' \in {{}} \cup {{i} : i \in Ids}
    <2>1. CASE PensOf(motion, tools) = {}
        BY <1>1, <2>1, Captured DEF TabletTypes
    <2>2. CASE PensOf(motion, tools) # {}
        <3>1. PICK i \in PensOf(motion, tools) : TRUE
            BY <2>2
        <3>2. PensOf(motion, tools) = {i} /\ i \in Ids
            BY <3>1 DEF PensOf, Motion
        <3> QED
            BY <2>2, <3>2, Captured
    <2> QED
        BY <2>1, <2>2
<1>4. tracked' \in [Ids -> Samples \cup {NoSample}]
    <2>1. ASSUME NEW i \in SeenOf(motion, tools) PROVE SampleOf(motion, tools, i) \in Samples
        <3>1. tools[i] \in Tools /\ WireId(i) \in WireIds /\ motion[i] \in Actions
            BY WireIdTyped DEF Motion, SeenOf
        <3>2. (tools[i] = "pen" /\ pressed) \in BOOLEAN
            OBVIOUS
        <3> QED
            BY <3>1, <3>2, Zenon DEF SampleOf, Samples
    <2>2. ASSUME NEW i \in Ids
          PROVE  (IF i \notin SeenOf(motion, tools) THEN tracked[i]
                  ELSE IF motion[i] \in {"up", "cancel"} THEN NoSample
                  ELSE SampleOf(motion, tools, i)) \in Samples \cup {NoSample}
        BY <1>1, <2>1 DEF TabletTypes
    <2> DEFINE e(i) == IF i \notin SeenOf(motion, tools) THEN tracked[i]
                       ELSE IF motion[i] \in {"up", "cancel"} THEN NoSample
                       ELSE SampleOf(motion, tools, i)
    <2>3. \A i \in Ids : e(i) \in Samples \cup {NoSample}
        BY <2>2
    <2>4. tracked' = [i \in Ids |-> e(i)]
        BY Captured
    <2> HIDE DEF e
    <2> QED
        BY <2>3, <2>4
<1>5. WayTypes'
    <2>1. pressed \in BOOLEAN
        BY <1>1 DEF TabletTypes
    <2>2. batches' \in Seq(Seq(Samples)) /\ Len(batches') <= MaxUnderway
        <3>1. PICK b \in Seq(Samples) : Send(b)
            BY <2>1, CaptureSends
        <3> QED
            BY <1>1, <3>1, SendTyped DEF Event
    <2>3. /\ turns' = turns /\ left'.rotations = left.rotations
          /\ left' \in Left
        <3>1. left \in Left /\ left.events > 0 /\ left' = [left EXCEPT !.events = @ - 1]
            BY <1>1 DEF Event, WayTypes
        <3>2. turns' = turns
            BY DEF Event
        <3> QED
            BY <3>1, <3>2, Spent
    <2> QED
        BY <1>1, <2>2, <2>3 DEF WayTypes
<1>6. HostTypes'
    BY <1>1 DEF Event, host, HostTypes
<1> QED
    BY <1>2, <1>3, <1>4, <1>5, <1>6

\* The events of Android are such motions.
LEMMA Motions ==
    ASSUME Types
    PROVE  /\ \A tool \in Tools : \A i \in Ids \ OnGlass :
                 (tool = "pen" => \A j \in Ids : glass[j] # "pen") =>
                 Motion([j \in OnGlass \cup {i} |-> IF j = i THEN "down" ELSE "move"],
                        [glass EXCEPT ![i] = tool])
           /\ Motion([j \in OnGlass |-> "move"], glass)
           /\ \A i \in OnGlass : Motion([j \in OnGlass |-> IF j = i THEN "up" ELSE "move"], glass)
           /\ Motion([j \in OnGlass |-> "cancel"], glass)
           /\ Motion([j \in {0} |-> "hover"], [j \in {0} |-> "pen"])
<1>1. glass \in [Ids -> Tools \cup {Nothing}] /\ OnePen
    BY DEF Types, TabletTypes
<1>2. OnGlass \subseteq Ids /\ \A i \in OnGlass : glass[i] \in Tools
    BY <1>1 DEF OnGlass
<1>3. {"down", "move", "up", "cancel", "hover"} = Actions /\ 0 \in Ids
    BY BoundAssumption DEF Actions, Ids
<1>4. ASSUME NEW tool \in Tools, NEW i \in Ids \ OnGlass,
             tool = "pen" => \A j \in Ids : glass[j] # "pen"
      PROVE  Motion([j \in OnGlass \cup {i} |-> IF j = i THEN "down" ELSE "move"],
                    [glass EXCEPT ![i] = tool])
    <2> DEFINE m == [j \in OnGlass \cup {i} |-> IF j = i THEN "down" ELSE "move"]
               t == [glass EXCEPT ![i] = tool]
    <2>1. DOMAIN m = OnGlass \cup {i} /\ \A j \in DOMAIN m : m[j] \in Actions
        BY <1>3
    <2>2. \A j \in Ids : t[j] = IF j = i THEN tool ELSE glass[j]
        BY <1>1
    <2> HIDE DEF m, t
    <2>3. \A j, l \in DOMAIN m : t[j] = "pen" /\ t[l] = "pen" => j = l
        BY <1>1, <1>2, <1>4, <2>1, <2>2 DEF OnePen
    <2>4. \A j \in DOMAIN m : t[j] \in Tools
        BY <1>2, <2>1, <2>2
    <2>5. Motion(m, t)
        BY <1>2, <2>1, <2>3, <2>4 DEF Motion
    <2> QED
        BY <2>5 DEF m, t
<1>5. Motion([j \in OnGlass |-> "move"], glass)
    BY <1>1, <1>2, <1>3 DEF Motion, OnePen
<1>6. ASSUME NEW i \in OnGlass
      PROVE  Motion([j \in OnGlass |-> IF j = i THEN "up" ELSE "move"], glass)
    BY <1>1, <1>2, <1>3 DEF Motion, OnePen
<1>7. Motion([j \in OnGlass |-> "cancel"], glass)
    BY <1>1, <1>2, <1>3 DEF Motion, OnePen
<1>8. Motion([j \in {0} |-> "hover"], [j \in {0} |-> "pen"])
    BY <1>3 DEF Motion, Tools
<1> QED
    BY <1>4, <1>5, <1>6, <1>7, <1>8

-----------------------------------------------------------------------------
(* Every variable keeps its range. *)

\* The first state is in range.
LEMMA TypesStart == Init => Types
<1> SUFFICES ASSUME Init PROVE Types
    OBVIOUS
<1>1. TabletTypes /\ OnePen
    BY DEF Init, TabletTypes, OnePen, Nothing, Tools
<1>2. WayTypes
    BY Bounds DEF Init, WayTypes, Left
<1>3. HostTypes
    <2>1. frame \in Frames
        BY DEF Init, NoFrame, Frames
    <2>2. input \in Inputs
        BY DEF Init, Inputs
    <2> QED
        BY <2>1, <2>2 DEF Init, HostTypes
<1> QED
    BY <1>1, <1>2, <1>3 DEF Types

\* A MotionEvent, with what it does to the glass.
LEMMA EventTypes ==
    ASSUME Types, NEW motion, NEW tools, Motion(motion, tools), Event,
           Capture(motion, tools),
           glass' \in [Ids -> Tools \cup {Nothing}], OnePen',
           UNCHANGED <<button, pressed>>
    PROVE  Types'
<1>1. button' \in BOOLEAN /\ pressed' \in BOOLEAN
    BY DEF Types, TabletTypes
<1> QED
    BY <1>1, CaptureTyped DEF Types, TabletTypes

\* Every event of the glass keeps the ranges.
LEMMA PointerTypes ==
    ASSUME Types, (\E tool \in Tools : PointerDown(tool)) \/ PointersMove \/ GestureCancelled
                  \/ StylusHovers \/ \E i \in Ids : PointerUp(i)
    PROVE  Types'
<1>1. glass \in [Ids -> Tools \cup {Nothing}] /\ OnePen
    BY DEF Types, TabletTypes
<1>2. ASSUME NEW tool \in Tools, PointerDown(tool) PROVE Types'
    <2>1. PICK i \in Ids \ OnGlass :
              /\ tool = "pen" => \A j \in Ids : glass[j] # "pen"
              /\ Event
              /\ glass' = [glass EXCEPT ![i] = tool]
              /\ Capture([j \in OnGlass \cup {i} |-> IF j = i THEN "down" ELSE "move"], glass')
              /\ UNCHANGED <<button, pressed>>
        BY <1>2 DEF PointerDown
    <2>2. Motion([j \in OnGlass \cup {i} |-> IF j = i THEN "down" ELSE "move"], glass')
        BY <2>1, Motions
    <2>3. glass' \in [Ids -> Tools \cup {Nothing}]
        BY <1>1, <2>1
    <2>4. OnePen'
        BY <1>1, <2>1 DEF OnePen
    <2> QED
        BY <2>1, <2>2, <2>3, <2>4, EventTypes
<1>3. CASE PointersMove
    <2>1. glass' \in [Ids -> Tools \cup {Nothing}] /\ OnePen'
        BY <1>1, <1>3 DEF PointersMove, OnePen
    <2> QED
        BY <1>3, <2>1, EventTypes, Motions DEF PointersMove
<1>4. CASE GestureCancelled
    <2>1. glass' \in [Ids -> Tools \cup {Nothing}] /\ OnePen'
        BY <1>4 DEF GestureCancelled, OnePen, Nothing
    <2> QED
        BY <1>4, <2>1, EventTypes, Motions DEF GestureCancelled
<1>5. CASE StylusHovers
    <2>1. glass' \in [Ids -> Tools \cup {Nothing}] /\ OnePen'
        BY <1>1, <1>5 DEF StylusHovers, OnePen
    <2> QED
        BY <1>5, <2>1, EventTypes, Motions DEF StylusHovers
<1>6. ASSUME NEW i \in Ids, PointerUp(i) PROVE Types'
    <2>1. glass' \in [Ids -> Tools \cup {Nothing}] /\ OnePen'
        BY <1>1, <1>6 DEF PointerUp, OnePen, Nothing
    <2> QED
        BY <1>6, <2>1, EventTypes, Motions DEF PointerUp
<1> QED
    BY <1>2, <1>3, <1>4, <1>5, <1>6

\* What a key of the stylus sends: its last sample as a move, if there is one.
LEMMA KeySends ==
    ASSUME Types, NEW held \in BOOLEAN, EmitButtonState(held)
    PROVE  /\ tracked' \in [Ids -> Samples \cup {NoSample}]
           /\ \E b \in Seq(Samples) :
                 /\ Send(b)
                 /\ stylus # {} => b # <<>>
                 /\ \A k \in DOMAIN b : /\ b[k].tool = "pen" /\ b[k].action = "move" /\ b[k].key = held
                                        /\ \E i \in Ids : b[k].id = WireId(i)
                 /\ stylus = {} => b = <<>>
<1> DEFINE sample(i) == [tool |-> "pen", id |-> WireId(i), action |-> "move", key |-> held]
           samples == [i \in stylus |-> sample(i)]
<1>1. stylus \subseteq Ids /\ tracked \in [Ids -> Samples \cup {NoSample}]
    BY DEF Types, TabletTypes
<1>2. \A i \in Ids : sample(i) \in Samples
    BY WireIdTyped DEF Samples, Tools, Actions
<1>3. /\ \A i : /\ sample(i).tool = "pen" /\ sample(i).action = "move" /\ sample(i).key = held
                /\ sample(i).id = WireId(i)
    OBVIOUS
<1>4. /\ tracked' = [i \in Ids |-> IF i \in stylus THEN sample(i) ELSE tracked[i]]
      /\ Send(Ordered(samples))
    BY Zenon DEF EmitButtonState
<1> HIDE DEF sample
<1>5. tracked' \in [Ids -> Samples \cup {NoSample}]
    BY <1>1, <1>2, <1>4
<1>6. DOMAIN samples = stylus /\ \A i \in stylus : samples[i] = sample(i)
    OBVIOUS
<1>7. DOMAIN samples \subseteq Ids /\ \A i \in DOMAIN samples : samples[i] \in Samples
    BY <1>1, <1>2, <1>6
<1> HIDE DEF samples
<1> DEFINE b == Ordered(samples)
<1>8. /\ b \in Seq(Samples)
      /\ \A k \in DOMAIN b : \E i \in DOMAIN samples : b[k] = samples[i]
      /\ \A i \in DOMAIN samples : \E k \in DOMAIN b : b[k] = samples[i]
    BY <1>7, OrderedHas
<1> HIDE DEF b
<1>9. stylus # {} => b # <<>>
    BY <1>6, <1>8
<1>10. stylus = {} => b = <<>>
    BY <1>6, <1>8
<1>11. \A k \in DOMAIN b : /\ b[k].tool = "pen" /\ b[k].action = "move" /\ b[k].key = held
                           /\ \E i \in Ids : b[k].id = WireId(i)
    BY <1>1, <1>3, <1>6, <1>8
<1>12. Send(b)
    BY <1>4 DEF b
<1> QED
    BY <1>5, <1>8, <1>9, <1>10, <1>11, <1>12

\* So does a key of the stylus.
LEMMA KeyTypes ==
    ASSUME Types, KeyDown \/ KeyUp
    PROVE  Types'
<1>1. TabletTypes /\ WayTypes /\ HostTypes
    BY DEF Types
<1>2. PICK held \in BOOLEAN : EmitButtonState(held) /\ Room /\ UNCHANGED <<glass, stylus, tipping, turns, host>>
    <2>1. TRUE \in BOOLEAN /\ FALSE \in BOOLEAN
        OBVIOUS
    <2> QED
        BY <2>1 DEF KeyDown, KeyUp
<1>3. PICK b \in Seq(Samples) : Send(b)
    BY <1>2, KeySends
<1>4. batches' \in Seq(Seq(Samples)) /\ Len(batches') <= MaxUnderway
    BY <1>1, <1>2, <1>3, SendTyped
<1>5. tracked' \in [Ids -> Samples \cup {NoSample}]
    BY <1>2, KeySends
<1>6. left' \in Left /\ left'.rotations = left.rotations
    <2>1. left \in Left
        BY <1>1 DEF WayTypes
    <2>2. left' = left \/ (left.presses > 0 /\ left' = [left EXCEPT !.presses = @ - 1])
        BY DEF KeyDown, KeyUp
    <2> QED
        BY <2>1, <2>2, Spent
<1>7. button' \in BOOLEAN /\ pressed' \in BOOLEAN
    BY DEF KeyDown, KeyUp
<1>8. TabletTypes' /\ OnePen'
    BY <1>1, <1>2, <1>5, <1>7 DEF TabletTypes, OnePen, Types
<1>9. WayTypes'
    BY <1>1, <1>2, <1>4, <1>6 DEF WayTypes
<1>10. HostTypes'
    BY <1>1, <1>2 DEF host, HostTypes
<1> QED
    BY <1>8, <1>9, <1>10 DEF Types

\* What a rotation sends: a cancel for each pointer that is tracked.
LEMMA RotateSends ==
    ASSUME Types, Rotate
    PROVE  \E b \in Seq(Samples) :
              /\ Send(b)
              /\ \A k \in DOMAIN b : /\ b[k].action = "cancel"
                                     /\ \E i \in Ids : tracked[i] # NoSample /\ b[k].id = tracked[i].id
<1> DEFINE T == {j \in Ids : tracked[j] # NoSample}
           samples == [i \in T |-> [tracked[i] EXCEPT !.action = "cancel"]]
           b == Ordered(samples)
<1>1. \A i \in T : tracked[i] \in Samples
    BY DEF Types, TabletTypes
<1>2. \A i \in T : /\ samples[i] \in Samples /\ samples[i].action = "cancel"
                   /\ samples[i].id = tracked[i].id
    BY <1>1 DEF Samples, Actions
<1>3. Send(b)
    BY Zenon DEF Rotate
<1>4. DOMAIN samples = T /\ T \subseteq Ids
    OBVIOUS
<1> HIDE DEF samples
<1>5. /\ b \in Seq(Samples)
      /\ \A k \in DOMAIN b : \E i \in DOMAIN samples : b[k] = samples[i]
    <2>1. DOMAIN samples \subseteq Ids /\ \A i \in DOMAIN samples : samples[i] \in Samples
        BY <1>2, <1>4
    <2> QED
        BY ZenonT(30), <2>1, OrderedHas
<1> HIDE DEF b
<1>6. \A k \in DOMAIN b : /\ b[k].action = "cancel"
                          /\ \E i \in Ids : tracked[i] # NoSample /\ b[k].id = tracked[i].id
    BY <1>2, <1>4, <1>5
<1> QED
    BY <1>3, <1>5, <1>6

\* So does a rotation.
LEMMA RotateTypes ==
    ASSUME Types, Rotate
    PROVE  Types'
<1>1. TabletTypes /\ WayTypes /\ HostTypes
    BY DEF Types
<1>2. PICK b \in Seq(Samples) : Send(b)
    BY RotateSends
<1>3. Room /\ UNCHANGED <<glass, button, host>>
    BY DEF Rotate
<1>4. batches' \in Seq(Seq(Samples)) /\ Len(batches') <= MaxUnderway
    BY <1>1, <1>2, <1>3, SendTyped
<1>5. tracked' \in [Ids -> Samples \cup {NoSample}]
    BY DEF Rotate
<1>6. tipping' \in BOOLEAN /\ pressed' \in BOOLEAN /\ stylus' = {}
    BY DEF Rotate
<1>7. TabletTypes' /\ OnePen'
    BY <1>1, <1>3, <1>5, <1>6 DEF TabletTypes, OnePen, Types
<1>8. left' \in Left /\ turns' \in Nat /\ turns' + left'.rotations <= MaxRotations
    <2>1. left \in Left /\ turns \in Nat /\ turns + left.rotations <= MaxRotations
        BY <1>1 DEF WayTypes
    <2>2. turns' = turns + 1 /\ left.rotations > 0 /\ left' = [left EXCEPT !.rotations = @ - 1]
        BY DEF Rotate
    <2> QED
        BY <2>1, <2>2, Spent, Bounds
<1>9. WayTypes'
    BY <1>4, <1>8 DEF WayTypes
<1>10. HostTypes'
    BY <1>1, <1>3 DEF host, HostTypes
<1> QED
    BY <1>7, <1>9, <1>10 DEF Types

\* So does the adapter.
LEMMA AdaptTypes ==
    ASSUME Types, Adapt
    PROVE  Types'
<1>1. TabletTypes /\ OnePen /\ WayTypes /\ HostTypes
    BY DEF Types
<1> DEFINE start == [contacts |-> contacts, pens |-> <<>>, touches |-> <<>>]
           adapted == FoldLeft(AdaptSample, start, Head(batches))
           Batches == Seq(Samples)
<1>2. batches \in Seq(Batches) /\ batches # <<>> /\ batches' = Tail(batches)
    BY <1>1 DEF WayTypes, Adapt
<1>3. /\ contacts' = adapted.contacts
      /\ frame' = IF adapted.pens = <<>> /\ adapted.touches = <<>> THEN NoFrame
                  ELSE [pens |-> adapted.pens, touches |-> adapted.touches, current |-> ~turning]
      /\ UNCHANGED <<tablet, turns, turning, input, left>>
    BY Zenon DEF Adapt
<1> HIDE DEF Batches
<1>4. Head(batches) \in Batches /\ batches' \in Seq(Batches) /\ Len(batches') <= Len(batches)
    BY <1>2
<1>5. start \in Adaptations
    BY <1>1 DEF Adaptations, HostTypes
<1> HIDE DEF start
<1>6. adapted \in Adaptations
    BY <1>4, <1>5, AdaptTyped DEF Batches
<1> HIDE DEF adapted
<1>7. frame' \in Frames
    BY <1>1, <1>3, <1>6 DEF Adaptations, Frames, NoFrame, HostTypes
<1>8. contacts' \in SUBSET (Tools \X WireIds)
    BY <1>3, <1>6 DEF Adaptations
<1>9. HostTypes'
    BY <1>1, <1>3, <1>7, <1>8 DEF HostTypes
<1>10. WayTypes'
    <2>1. Len(batches') <= MaxUnderway
        BY <1>1, <1>2, <1>4, BoundAssumption DEF WayTypes
    <2> QED
        BY <1>1, <1>3, <1>4, <2>1 DEF WayTypes, Batches
<1>11. TabletTypes' /\ OnePen'
    BY <1>1, <1>3 DEF tablet, TabletTypes, OnePen
<1> QED
    BY <1>9, <1>10, <1>11 DEF Types

\* So do the input loop and the control loop.
LEMMA HostStepTypes ==
    ASSUME Types, Process \/ OnOrientationChange \/ SetOrientationEpoch
    PROVE  Types'
<1>1. TabletTypes /\ OnePen /\ WayTypes /\ HostTypes
    BY DEF Types
<1>2. frame.pens \in Seq(PenSamples) /\ frame.touches \in Seq(TouchSamples) /\ input \in Inputs
    BY <1>1 DEF HostTypes, Frames
<1>3. TabletTypes' /\ OnePen' /\ batches' = batches /\ left' = left
    BY <1>1 DEF Process, OnOrientationChange, SetOrientationEpoch, tablet, TabletTypes, OnePen
<1>4. turns' \in Nat /\ turns' <= turns
    BY <1>1 DEF Process, OnOrientationChange, SetOrientationEpoch, WayTypes
<1>5. WayTypes'
    <2>1. turns \in Nat /\ turns + left.rotations <= MaxRotations /\ left.rotations \in Nat
        BY <1>1, Spent DEF WayTypes
    <2>2. turns' + left.rotations <= MaxRotations
        BY <1>4, <2>1, Bounds
    <2> QED
        BY <1>1, <1>3, <1>4, <2>2 DEF WayTypes
<1>6. input' \in Inputs
    <2> DEFINE penned == FoldLeft(ProcessPen, input, frame.pens)
    <2>1. penned \in Inputs
        BY <1>2, PensTyped
    <2> HIDE DEF penned
    <2>2. ProcessTouches(penned, frame.touches) \in Inputs
        BY <1>2, <2>1, ProcessTouchesTyped
    <2>3. ReleaseEverything(input) \in Inputs /\ ReleaseTouches(input) \in Inputs
        BY <1>2, ReleaseEverythingTyped, ReleaseTouchesTyped
    <2>4. \/ input' = ProcessTouches(penned, frame.touches)
          \/ input' = ReleaseEverything(input) \/ input' = ReleaseTouches(input)
          \/ input' = input
        BY Zenon DEF Process, OnOrientationChange, SetOrientationEpoch, penned
    <2> QED
        BY <1>2, <2>2, <2>3, <2>4
<1>7. frame' \in Frames
    <2>1. frame \in Frames /\ [frame EXCEPT !.current = FALSE] \in Frames /\ NoFrame \in Frames
        <3>1. frame \in Frames
            BY <1>1 DEF HostTypes
        <3>2. NoFrame \in Frames
            BY DEF Frames, NoFrame
        <3> DEFINE P == Seq(PenSamples)
                   T == Seq(TouchSamples)
        <3>3. Frames = [pens : P, touches : T, current : BOOLEAN]
            BY DEF Frames
        <3> HIDE DEF P, T
        <3> QED
            BY <3>1, <3>2, <3>3
    <2> QED
        BY <2>1 DEF Process, OnOrientationChange, SetOrientationEpoch
<1>8. contacts' \in SUBSET (Tools \X WireIds) /\ turning' \in BOOLEAN
    BY <1>1 DEF Process, OnOrientationChange, SetOrientationEpoch, HostTypes
<1>9. HostTypes'
    BY <1>6, <1>7, <1>8 DEF HostTypes
<1> QED
    BY <1>3, <1>5, <1>9 DEF Types

\* So does every step.
LEMMA StepTypes == Types /\ [Next]_vars => Types'
<1> SUFFICES ASSUME Types, [Next]_vars PROVE Types'
    OBVIOUS
<1>1. CASE Tablet
    BY <1>1, PointerTypes, KeyTypes, RotateTypes DEF Tablet
<1>2. CASE UNCHANGED vars
    BY <1>2 DEF vars, tablet, host, Types, TabletTypes, OnePen, WayTypes, HostTypes
<1> QED
    BY <1>1, <1>2, AdaptTypes, HostStepTypes DEF Next

\* The ranges hold always.
LEMMA TypesAlways == Spec => []Types
BY TypesStart, StepTypes, PTL DEF Spec

\* Every variable keeps its range (every record that InputCaptureView, PdbCodec,
\* InputBatchAdapter and InputSystem keep), for any number of pointers.
THEOREM InputTyped == Spec => []TypeOK
BY TypesAlways, TypesInShape, PTL

-----------------------------------------------------------------------------
(* What is on its way: a batch of C with none but batches of Q behind it, or *)
(* none but batches of Q.                                                     *)

Sometime(way, C, Q) ==
    \E n \in DOMAIN way : way[n] \in C /\ \A m \in DOMAIN way : m > n => way[m] \in Q
Only(way, Q) == \A m \in DOMAIN way : way[m] \in Q

\* A batch that is sent.
LEMMA WayGrows ==
    ASSUME NEW S, NEW way \in Seq(S), NEW b \in S, NEW C, NEW Q
    PROVE  /\ b \in C => Sometime(Append(way, b), C, Q)
           /\ b \in Q /\ Sometime(way, C, Q) => Sometime(Append(way, b), C, Q)
           /\ b \in Q /\ Only(way, Q) => Only(Append(way, b), Q)
<1> DEFINE more == Append(way, b)
           n == Len(way)
<1>1. /\ more \in Seq(S) /\ n \in Nat /\ DOMAIN way = 1..n /\ DOMAIN more = 1..(n + 1)
      /\ more[n + 1] = b /\ \A m \in 1..n : more[m] = way[m]
    OBVIOUS
<1> HIDE DEF more, n
<1>2. ASSUME b \in C PROVE Sometime(more, C, Q)
    <2>1. n + 1 \in DOMAIN more /\ \A m \in DOMAIN more : ~ (m > n + 1)
        BY <1>1
    <2> QED
        BY <1>1, <1>2, <2>1 DEF Sometime
<1>3. ASSUME b \in Q, Sometime(way, C, Q) PROVE Sometime(more, C, Q)
    <2>1. PICK k \in DOMAIN way : way[k] \in C /\ \A m \in DOMAIN way : m > k => way[m] \in Q
        BY <1>3 DEF Sometime
    <2>2. k \in DOMAIN more /\ more[k] \in C
        BY <1>1, <2>1
    <2>3. \A m \in DOMAIN more : m > k => more[m] \in Q
        BY <1>1, <1>3, <2>1
    <2> QED
        BY <2>2, <2>3 DEF Sometime
<1>4. ASSUME b \in Q, Only(way, Q) PROVE Only(more, Q)
    BY <1>1, <1>4 DEF Only
<1> QED
    BY <1>2, <1>3, <1>4 DEF more

\* A batch that is taken.
LEMMA WayShrinks ==
    ASSUME NEW S, NEW way \in Seq(S), way # <<>>, NEW C, NEW Q
    PROVE  /\ Sometime(way, C, Q) =>
                 Sometime(Tail(way), C, Q) \/ (Head(way) \in C /\ Only(Tail(way), Q))
           /\ Only(way, Q) => Head(way) \in Q /\ Only(Tail(way), Q)
<1> DEFINE less == Tail(way)
           n == Len(way)
<1>1. /\ less \in Seq(S) /\ n \in Nat /\ n > 0 /\ DOMAIN way = 1..n /\ DOMAIN less = 1..(n - 1)
      /\ Head(way) = way[1] /\ \A m \in 1..(n - 1) : less[m] = way[m + 1]
    OBVIOUS
<1> HIDE DEF less, n
<1>2. ASSUME Sometime(way, C, Q) PROVE Sometime(less, C, Q) \/ (Head(way) \in C /\ Only(less, Q))
    <2>1. PICK k \in DOMAIN way : way[k] \in C /\ \A m \in DOMAIN way : m > k => way[m] \in Q
        BY <1>2 DEF Sometime
    <2>2. CASE k = 1
        <3>1. \A m \in DOMAIN less : m + 1 \in DOMAIN way /\ m + 1 > k
            BY <1>1, <2>2
        <3> QED
            BY <1>1, <2>1, <2>2, <3>1 DEF Only
    <2>3. CASE k # 1
        <3>1. k - 1 \in DOMAIN less /\ less[k - 1] = way[k]
            BY <1>1, <2>3
        <3>2. \A m \in DOMAIN less : m > k - 1 => m + 1 \in DOMAIN way /\ m + 1 > k
            BY <1>1, <2>3
        <3>3. \A m \in DOMAIN less : m > k - 1 => less[m] \in Q
            BY <1>1, <2>1, <3>2
        <3> QED
            BY <2>1, <3>1, <3>3 DEF Sometime
    <2> QED
        BY <2>2, <2>3
<1>3. ASSUME Only(way, Q) PROVE Head(way) \in Q /\ Only(less, Q)
    <2>1. 1 \in DOMAIN way /\ \A m \in DOMAIN less : m + 1 \in DOMAIN way
        BY <1>1
    <2> QED
        BY <1>1, <1>3, <2>1 DEF Only
<1> QED
    BY <1>2, <1>3 DEF less

\* What is sent joins what is on its way, unless it is empty.
LEMMA SentOrNot ==
    ASSUME batches \in Seq(Seq(Samples)), NEW b \in Seq(Samples), Send(b), NEW C, NEW Q
    PROVE  /\ b # <<>> /\ b \in C => Sometime(batches', C, Q)
           /\ b = <<>> \/ b \in Q => /\ Sometime(batches, C, Q) => Sometime(batches', C, Q)
                                     /\ Only(batches, Q) => Only(batches', Q)
<1> DEFINE S == Seq(Samples)
<1>1. batches \in Seq(S) /\ b \in S
    OBVIOUS
<1>2. batches' = IF b = <<>> THEN batches ELSE Append(batches, b)
    BY DEF Send
<1> HIDE DEF S
<1> QED
    BY <1>1, <1>2, WayGrows

-----------------------------------------------------------------------------
(* What the adapter makes of a batch. *)

\* A phase is a contact when the sample is; a hover never ends one.
LEMMA TipKept ==
    ASSUME NEW action \in Actions, NEW was
    PROVE  /\ Tip(PhaseFor(action, was)) <=> Tip(action)
           /\ PhaseFor(action, was) = "hover" => ~was
BY DEF PhaseFor, Actions, Tip

\* One sample, field by field.
LEMMA AdaptSampleDoes ==
    ASSUME NEW a \in Adaptations, NEW sample \in Samples
    PROVE  LET key == <<sample.tool, sample.id>>
               phase == PhaseFor(sample.action, key \in a.contacts)
               r == AdaptSample(a, sample)
           IN  /\ r.contacts = IF Tip(sample.action) THEN a.contacts \cup {key} ELSE a.contacts \ {key}
               /\ r.pens = IF sample.tool = "pen"
                           THEN Append(a.pens, [phase |-> phase, key |-> sample.key]) ELSE a.pens
               /\ r.touches = IF sample.tool = "touch" /\ phase # "hover"
                              THEN Append(a.touches, [id |-> sample.id, phase |-> phase])
                              ELSE a.touches
BY DEF AdaptSample

\* The pen samples and the touches of a frame, up to sample k of a batch.
PensFrom(pens, b, k) ==
    /\ \A m \in DOMAIN pens : \E l \in 1..k : /\ b[l].tool = "pen" /\ pens[m].key = b[l].key
                                              /\ Tip(pens[m].phase) <=> Tip(b[l].action)
    /\ \A l \in 1..k : b[l].tool = "pen" => pens # <<>>
TouchesFrom(touches, b, k) ==
    \A m \in DOMAIN touches : /\ touches[m].phase # "hover"
                              /\ \E l \in 1..k : /\ b[l].tool = "touch" /\ touches[m].id = b[l].id
                                                 /\ Tip(touches[m].phase) <=> Tip(b[l].action)

\* A sequence with one more element.
LEMMA Appended ==
    ASSUME NEW S, NEW s \in Seq(S), NEW x \in S
    PROVE  /\ Append(s, x) \in Seq(S) /\ Append(s, x) # <<>>
           /\ \A m \in DOMAIN Append(s, x) : (m \in DOMAIN s /\ Append(s, x)[m] = s[m])
                                             \/ Append(s, x)[m] = x
           /\ Len(Append(s, x)) = Len(s) + 1 /\ Append(s, x)[Len(s) + 1] = x
           /\ \A m \in DOMAIN s : m \in DOMAIN Append(s, x) /\ Append(s, x)[m] = s[m]
           /\ \A m \in DOMAIN Append(s, x) : m \in DOMAIN s \/ m = Len(s) + 1
OBVIOUS

\* A sequence without elements is empty.
LEMMA NoneIn ==
    ASSUME NEW S, NEW s \in Seq(S), \A m \in DOMAIN s : FALSE
    PROVE  s = <<>>
<1>1. Len(s) \in Nat /\ DOMAIN s = 1..Len(s)
    OBVIOUS
<1>2. Len(s) = 0
    <2>1. Len(s) # 0 => 1 \in DOMAIN s
        BY <1>1
    <2> QED
        BY <2>1
<1> QED
    BY <1>2

\* A frame has the batch's pen samples, and its touches that say something.
LEMMA AdaptedFrom ==
    ASSUME NEW held \in SUBSET (Tools \X WireIds), NEW b \in Seq(Samples)
    PROVE  LET r == FoldLeft(AdaptSample, [contacts |-> held, pens |-> <<>>, touches |-> <<>>], b)
           IN  PensFrom(r.pens, b, Len(b)) /\ TouchesFrom(r.touches, b, Len(b))
<1> DEFINE a0 == [contacts |-> held, pens |-> <<>>, touches |-> <<>>]
           I == {x \in Nat \X Adaptations :
                    PensFrom(x[2].pens, b, x[1]) /\ TouchesFrom(x[2].touches, b, x[1])}
<1>1. a0 \in Adaptations
    BY DEF Adaptations
<1>2. <<0, a0>> \in I
    BY <1>1 DEF PensFrom, TouchesFrom
<1>3. ASSUME NEW k \in 1..Len(b), NEW v \in Adaptations, <<k - 1, v>> \in I
      PROVE  <<k, AdaptSample(v, b[k])>> \in I
    <2> DEFINE s == b[k]
               key == <<s.tool, s.id>>
               phase == PhaseFor(s.action, key \in v.contacts)
               r == AdaptSample(v, s)
               p == [phase |-> phase, key |-> s.key]
               t == [id |-> s.id, phase |-> phase]
    <2>1. s \in Samples /\ s.action \in Actions /\ s.key \in BOOLEAN /\ s.id \in WireIds
        <3>1. s \in Samples
            OBVIOUS
        <3> QED
            BY <3>1 DEF Samples
    <2>2. r \in Adaptations /\ k \in Nat /\ k - 1 \in Nat
        BY <2>1, AdaptSampleTyped
    <2>3. /\ r.pens = IF s.tool = "pen" THEN Append(v.pens, p) ELSE v.pens
          /\ r.touches = IF s.tool = "touch" /\ phase # "hover" THEN Append(v.touches, t) ELSE v.touches
        BY <2>1, AdaptSampleDoes
    <2>4. Tip(phase) <=> Tip(s.action)
        BY <2>1, TipKept
    <2>5. phase \in Actions
        BY <2>1, PhaseTyped
    <2>6. /\ p \in PenSamples /\ p.key = s.key /\ p.phase = phase
          /\ t \in TouchSamples /\ t.id = s.id /\ t.phase = phase
        BY <2>1, <2>5 DEF PenSamples, TouchSamples
    <2>7. v.pens \in Seq(PenSamples) /\ v.touches \in Seq(TouchSamples)
        BY DEF Adaptations
    <2>8. PensFrom(v.pens, b, k - 1) /\ TouchesFrom(v.touches, b, k - 1)
        BY <1>3
    <2>9. \A l \in 1..(k - 1) : l \in 1..k
        BY <2>2
    <2>90. \A l \in 1..k : l \in 1..(k - 1) \/ l = k
        BY <2>2
    <2>91. k \in 1..k
        BY <2>2
    <2> HIDE DEF phase, p, t, r
    <2>10. PensFrom(r.pens, b, k)
        <3>1. CASE s.tool = "pen"
            <4>1. r.pens = Append(v.pens, p)
                BY <2>3, <3>1
            <4>2. /\ r.pens # <<>>
                  /\ \A m \in DOMAIN r.pens : (m \in DOMAIN v.pens /\ r.pens[m] = v.pens[m]) \/ r.pens[m] = p
                BY <2>6, <2>7, <4>1, Appended
            <4> SUFFICES ASSUME NEW m \in DOMAIN r.pens
                         PROVE  \E l \in 1..k : /\ b[l].tool = "pen" /\ r.pens[m].key = b[l].key
                                                /\ Tip(r.pens[m].phase) <=> Tip(b[l].action)
                BY <4>2 DEF PensFrom
            <4>3. CASE m \in DOMAIN v.pens /\ r.pens[m] = v.pens[m]
                BY <4>3, <2>8, <2>9 DEF PensFrom
            <4>4. CASE r.pens[m] = p
                BY <4>4, <3>1, <2>4, <2>6, <2>91
            <4> QED
                BY <4>2, <4>3, <4>4
        <3>2. CASE s.tool # "pen"
            BY <3>2, <2>3, <2>8, <2>9, <2>90 DEF PensFrom
        <3> QED
            BY <3>1, <3>2
    <2>11. TouchesFrom(r.touches, b, k)
        <3>1. CASE s.tool = "touch" /\ phase # "hover"
            <4>1. r.touches = Append(v.touches, t)
                BY <2>3, <3>1
            <4>2. \A m \in DOMAIN r.touches :
                      (m \in DOMAIN v.touches /\ r.touches[m] = v.touches[m]) \/ r.touches[m] = t
                BY <2>6, <2>7, <4>1, Appended
            <4> SUFFICES ASSUME NEW m \in DOMAIN r.touches
                         PROVE  /\ r.touches[m].phase # "hover"
                                /\ \E l \in 1..k : /\ b[l].tool = "touch" /\ r.touches[m].id = b[l].id
                                                   /\ Tip(r.touches[m].phase) <=> Tip(b[l].action)
                BY DEF TouchesFrom
            <4>3. CASE m \in DOMAIN v.touches /\ r.touches[m] = v.touches[m]
                BY <4>3, <2>8, <2>9 DEF TouchesFrom
            <4>4. CASE r.touches[m] = t
                BY <4>4, <3>1, <2>4, <2>6, <2>91
            <4> QED
                BY <4>2, <4>3, <4>4
        <3>2. CASE ~ (s.tool = "touch" /\ phase # "hover")
            <4>1. r.touches = v.touches
                BY <2>3, <3>2
            <4> QED
                BY <4>1, <2>8, <2>9 DEF TouchesFrom
        <3> QED
            BY <3>1, <3>2
    <2> QED
        BY <2>2, <2>10, <2>11 DEF r
<1> DEFINE r == FoldLeft(AdaptSample, a0, b)
<1>4. <<Len(b), r>> \in I
    <2> HIDE DEF I, a0
    <2>1. \A v \in Adaptations : \A x \in Samples : AdaptSample(v, x) \in Adaptations
        BY AdaptSampleTyped
    <2> QED
        BY <1>1, <1>2, <1>3, <2>1, AdaptLoop
<1> HIDE DEF r
<1>5. PensFrom(r.pens, b, Len(b)) /\ TouchesFrom(r.touches, b, Len(b))
    BY <1>4
<1> QED
    BY <1>5 DEF r

-----------------------------------------------------------------------------
(* What the input system does, field by field. *)

\* InjectPen, field by field.
LEMMA InjectPenDoes ==
    ASSUME NEW s \in Inputs, NEW phase
    PROVE  LET r == InjectPen(s, phase)
           IN  /\ r.guarded = s.guarded /\ r.tip = s.tip /\ r.suppressed = s.suppressed
               /\ r.held = s.held /\ r.mask = s.mask /\ r.touching = s.touching
               /\ Legal(phase, s.penDown) => /\ r.penDown <=> Tip(phase)
                                             /\ r.pen <=> phase \notin {"up", "cancel"}
               /\ ~Legal(phase, s.penDown) => (r.penDown <=> s.penDown) /\ ~r.pen
<1> DEFINE ok == Legal(phase, s.penDown)
           shown == ok /\ phase \notin {"up", "cancel"}
           down == IF ok THEN Tip(phase) ELSE s.penDown
           r == [s EXCEPT !.pen = shown, !.penDown = down]
<1>1. InjectPen(s, phase) = r
    BY Zenon DEF InjectPen
<1> HIDE DEF shown, down
<1>2. /\ r.guarded = s.guarded /\ r.tip = s.tip /\ r.suppressed = s.suppressed
      /\ r.held = s.held /\ r.mask = s.mask /\ r.touching = s.touching
      /\ r.pen = shown /\ r.penDown = down
    BY DEF Inputs
<1> HIDE DEF r
<1>3. ok => (down <=> Tip(phase)) /\ (shown <=> phase \notin {"up", "cancel"})
    BY DEF shown, down
<1>4. ~ok => (down <=> s.penDown) /\ ~shown
    BY DEF shown, down
<1> QED
    BY <1>1, <1>2, <1>3, <1>4

\* ReleaseTouches, field by field.
LEMMA ReleaseTouchesDoes ==
    ASSUME NEW s \in Inputs
    PROVE  LET r == ReleaseTouches(s)
           IN  /\ r.guarded = s.guarded /\ r.tip = s.tip /\ r.suppressed = s.suppressed
               /\ r.held = s.held /\ r.pen = s.pen /\ r.penDown = s.penDown /\ r.mask = {}
               /\ r.touching = IF s.mask \subseteq s.touching THEN s.touching \ s.mask ELSE s.touching
BY DEF ReleaseTouches, Inputs

\* ProcessPen in its two steps.
LEMMA ProcessPenDoes ==
    ASSUME NEW s \in Inputs, NEW sample \in PenSamples
    PROVE  LET r == ProcessPen(s, sample)
               lifts == s.guarded /\ Tip(sample.phase) /\ ~s.suppressed
           IN  /\ r.guarded = s.guarded /\ (r.tip <=> Tip(sample.phase)) /\ r.held = sample.key
               /\ r.suppressed <=> (s.suppressed \/ (s.guarded /\ Tip(sample.phase)))
               /\ r.mask = IF lifts THEN ReleaseTouches(s).mask ELSE s.mask
               /\ r.touching = IF lifts THEN ReleaseTouches(s).touching ELSE s.touching
               /\ Legal(sample.phase, s.penDown) =>
                    /\ r.penDown <=> Tip(sample.phase)
                    /\ r.pen <=> sample.phase \notin {"up", "cancel"}
               /\ ~Legal(sample.phase, s.penDown) => (r.penDown <=> s.penDown) /\ ~r.pen
<1> DEFINE tip == Tip(sample.phase)
           blocked == s.guarded /\ tip
           lifts == blocked /\ ~s.suppressed
           lifted == IF lifts THEN ReleaseTouches(s) ELSE s
           suppressed == lifted.suppressed \/ blocked
           marked == [lifted EXCEPT !.tip = tip, !.held = sample.key, !.suppressed = suppressed]
           r == InjectPen(marked, sample.phase)
<1>1. ProcessPen(s, sample) = r
    BY Zenon DEF ProcessPen
<1>2. lifted \in Inputs
    BY ReleaseTouchesTyped
<1>3. /\ lifted.guarded = s.guarded /\ lifted.suppressed = s.suppressed /\ lifted.penDown = s.penDown
      /\ lifted.mask = IF lifts THEN ReleaseTouches(s).mask ELSE s.mask
      /\ lifted.touching = IF lifts THEN ReleaseTouches(s).touching ELSE s.touching
    BY ReleaseTouchesDoes
<1>4. tip \in BOOLEAN /\ suppressed \in BOOLEAN /\ sample.key \in BOOLEAN
    BY DEF Tip, PenSamples
<1>5. suppressed <=> (s.suppressed \/ blocked)
    BY <1>3
<1> HIDE DEF tip, suppressed, lifted
<1>6. /\ marked \in Inputs /\ marked.guarded = lifted.guarded /\ marked.tip = tip
      /\ marked.held = sample.key /\ marked.suppressed = suppressed
      /\ marked.mask = lifted.mask /\ marked.touching = lifted.touching
      /\ marked.penDown = lifted.penDown
    BY <1>2, <1>4 DEF Inputs
<1> HIDE DEF marked
<1>7. /\ r.guarded = marked.guarded /\ r.tip = marked.tip /\ r.suppressed = marked.suppressed
      /\ r.held = marked.held /\ r.mask = marked.mask /\ r.touching = marked.touching
      /\ Legal(sample.phase, marked.penDown) =>
           /\ r.penDown <=> Tip(sample.phase)
           /\ r.pen <=> sample.phase \notin {"up", "cancel"}
      /\ ~Legal(sample.phase, marked.penDown) => (r.penDown <=> marked.penDown) /\ ~r.pen
    BY <1>6, InjectPenDoes
<1> HIDE DEF r
<1>8. /\ r.guarded = s.guarded /\ (r.tip <=> Tip(sample.phase)) /\ r.held = sample.key
      /\ r.suppressed <=> (s.suppressed \/ (s.guarded /\ Tip(sample.phase)))
    BY <1>3, <1>5, <1>6, <1>7 DEF tip
<1>9. /\ r.mask = IF lifts THEN ReleaseTouches(s).mask ELSE s.mask
      /\ r.touching = IF lifts THEN ReleaseTouches(s).touching ELSE s.touching
    BY <1>3, <1>6, <1>7
<1>10. marked.penDown = s.penDown
    BY <1>3, <1>6
<1> QED
    BY <1>1, <1>7, <1>8, <1>9, <1>10 DEF tip

\* Injecting touches changes nothing of the pen.
SamePen(r, s) ==
    /\ r.guarded = s.guarded /\ r.tip = s.tip /\ r.held = s.held
    /\ r.pen = s.pen /\ r.penDown = s.penDown

\* InjectTouches, field by field.
LEMMA InjectTouchesDoes ==
    ASSUME NEW s \in Inputs, NEW group \in SUBSET TouchSamples
    PROVE  LET r == InjectTouches(s, group)
               holding == {t.id : t \in {u \in group : Tip(u.phase)}}
               lifting == {t.id : t \in group} \ holding
           IN  /\ SamePen(r, s) /\ r.suppressed = s.suppressed
               /\ r.mask = (s.mask \ lifting) \cup holding
               /\ r.touching = IF \A t \in group : Legal(t.phase, t.id \in s.touching)
                               THEN (s.touching \ lifting) \cup holding ELSE s.touching
<1> DEFINE holding == {t.id : t \in {u \in group : Tip(u.phase)}}
           lifting == {t.id : t \in group} \ holding
           ok == \A t \in group : Legal(t.phase, t.id \in s.touching)
<1>1. InjectTouches(s, group) =
          [s EXCEPT !.mask = (@ \ lifting) \cup holding,
                    !.touching = IF ok THEN (@ \ lifting) \cup holding ELSE @]
    BY Zenon DEF InjectTouches
<1> HIDE DEF holding, lifting, ok
<1>2. LET r == InjectTouches(s, group)
      IN  /\ SamePen(r, s) /\ r.suppressed = s.suppressed
          /\ r.mask = (s.mask \ lifting) \cup holding
          /\ r.touching = IF ok THEN (s.touching \ lifting) \cup holding ELSE s.touching
    BY <1>1 DEF Inputs, SamePen
<1> QED
    BY <1>2 DEF holding, lifting, ok

\* Nor do the touches of a frame.
LEMMA ProcessTouchesSamePen ==
    ASSUME NEW s \in Inputs, NEW touches \in Seq(TouchSamples)
    PROVE  SamePen(ProcessTouches(s, touches), s)
<1> DEFINE free == [s EXCEPT !.suppressed = FALSE]
           barred == [s EXCEPT !.suppressed = TRUE]
           groups == FoldLeft(AddToGroup, <<>>, touches)
           r == FoldLeft(InjectTouches, free, groups)
           I == {x \in Nat \X Inputs : SamePen(x[2], s)}
<1>1. /\ free \in Inputs /\ SamePen(free, s) /\ barred \in Inputs /\ SamePen(barred, s) /\ SamePen(s, s)
    BY DEF Inputs, SamePen
<1>2. groups \in Seq(SUBSET TouchSamples)
    BY GroupsTyped
<1> HIDE DEF free, groups, barred
<1>3. <<0, free>> \in I
    BY <1>1
<1>4. ASSUME NEW k \in 1..Len(groups), NEW v \in Inputs, <<k - 1, v>> \in I
      PROVE  <<k, InjectTouches(v, groups[k])>> \in I
    <2>1. groups[k] \in SUBSET TouchSamples /\ k \in Nat
        BY <1>2
    <2>2. SamePen(v, s)
        BY <1>4
    <2>3. InjectTouches(v, groups[k]) \in Inputs
        BY <2>1, InjectTouchesTyped
    <2>4. SamePen(InjectTouches(v, groups[k]), v)
        BY <2>1, InjectTouchesDoes
    <2>5. SamePen(InjectTouches(v, groups[k]), s)
        BY <2>2, <2>4 DEF SamePen
    <2> QED
        BY <2>1, <2>3, <2>5
<1>5. \A v \in Inputs : \A x \in SUBSET TouchSamples : InjectTouches(v, x) \in Inputs
    BY InjectTouchesTyped
<1> HIDE DEF I
<1>6. <<Len(groups), r>> \in I
    BY <1>1, <1>2, <1>3, <1>4, <1>5, InjectLoop
<1>7. SamePen(r, s)
    BY <1>6 DEF I
<1>8. ProcessTouches(s, touches) =
          IF touches = <<>> THEN s
          ELSE IF s.guarded /\ s.tip THEN barred ELSE r
    BY DEF ProcessTouches, free, barred, groups
<1> HIDE DEF r
<1> QED
    BY <1>1, <1>7, <1>8

\* After the pen samples the key is that of the last one.
LEMMA PensHold ==
    ASSUME NEW s \in Inputs, NEW pens \in Seq(PenSamples), NEW v,
           \A k \in DOMAIN pens : pens[k].key = v
    PROVE  LET r == FoldLeft(ProcessPen, s, pens)
           IN  r.held = (IF pens = <<>> THEN s.held ELSE v) /\ r.guarded = s.guarded
<1> DEFINE r == FoldLeft(ProcessPen, s, pens)
           I == {x \in Nat \X Inputs : /\ x[2].held = (IF x[1] = 0 THEN s.held ELSE v)
                                       /\ x[2].guarded = s.guarded}
<1>1. <<0, s>> \in I
    OBVIOUS
<1>2. ASSUME NEW k \in 1..Len(pens), NEW u \in Inputs, <<k - 1, u>> \in I
      PROVE  <<k, ProcessPen(u, pens[k])>> \in I
    <2>1. pens[k] \in PenSamples /\ k \in DOMAIN pens /\ k \in Nat /\ k # 0
        OBVIOUS
    <2>2. ProcessPen(u, pens[k]) \in Inputs
        BY <2>1, ProcessPenTyped
    <2>3. /\ ProcessPen(u, pens[k]).held = pens[k].key
          /\ ProcessPen(u, pens[k]).guarded = u.guarded
        BY <2>1, ProcessPenDoes
    <2>4. u.guarded = s.guarded
        BY <1>2
    <2> QED
        BY <2>1, <2>2, <2>3, <2>4
<1>3. \A u \in Inputs : \A x \in PenSamples : ProcessPen(u, x) \in Inputs
    BY ProcessPenTyped
<1> HIDE DEF I
<1>4. <<Len(pens), r>> \in I
    BY <1>1, <1>2, <1>3, PenLoop
<1> HIDE DEF r
<1>5. r.held = (IF Len(pens) = 0 THEN s.held ELSE v) /\ r.guarded = s.guarded
    BY <1>4 DEF I
<1>6. Len(pens) = 0 <=> pens = <<>>
    OBVIOUS
<1> QED
    BY <1>5, <1>6 DEF r

-----------------------------------------------------------------------------
(* A stylus button that is released is released in Windows.  Of the batches  *)
(* on their way, the last with a pen sample has the key as it is; or none    *)
(* has a pen sample, and the frame has the key as it is; or the injector has. *)

\* Batches without a pen sample; batches whose pen samples have a key; a frame, or
\* without one the injector, that has the key as it is.
Penless == {b \in Seq(Samples) : \A k \in DOMAIN b : b[k].tool # "pen"}
Keyed(v) == {b \in Seq(Samples) :
                /\ \E k \in DOMAIN b : b[k].tool = "pen"
                /\ \A k \in DOMAIN b : b[k].tool = "pen" => b[k].key = v}
HeldKey ==
    /\ \A k \in DOMAIN frame.pens : frame.pens[k].key = button
    /\ frame.pens = <<>> => input.held = button

\* The invariant.
KeyOnItsWay ==
    left.rotations = MaxRotations =>
        /\ turns = 0 /\ ~turning /\ (frame # NoFrame => frame.current) /\ pressed = button
        /\ stylus = {} => Only(batches, Penless) /\ frame.pens = <<>> /\ input.held = FALSE
        /\ stylus # {} => \/ Sometime(batches, Keyed(button), Penless)
                          \/ Only(batches, Penless) /\ HeldKey

\* A motion with the stylus sends its key, one without it sends no pen sample.
LEMMA MotionKey ==
    ASSUME Types, NEW motion, NEW tools, Motion(motion, tools), Capture(motion, tools)
    PROVE  \E b \in Seq(Samples) :
              /\ Send(b)
              /\ PensOf(motion, tools) = {} => b \in Penless
              /\ PensOf(motion, tools) # {} => b \in Keyed(pressed) /\ b # <<>>
<1>1. PICK b \in Seq(Samples) :
          /\ Send(b)
          /\ \A k \in DOMAIN b : \E i \in SeenOf(motion, tools) : b[k] = SampleOf(motion, tools, i)
          /\ \A i \in SeenOf(motion, tools) : \E k \in DOMAIN b : b[k] = SampleOf(motion, tools, i)
    <2>1. pressed \in BOOLEAN
        BY DEF Types, TabletTypes
    <2> QED
        BY <2>1, CaptureSends
<1>2. \A i : /\ SampleOf(motion, tools, i).tool = tools[i]
             /\ tools[i] = "pen" => SampleOf(motion, tools, i).key = (TRUE /\ pressed)
    BY DEF SampleOf
<1>3. pressed \in BOOLEAN /\ (TRUE /\ pressed) = pressed
    BY DEF Types, TabletTypes
<1>4. \A i : i \in SeenOf(motion, tools) /\ tools[i] = "pen" <=> i \in PensOf(motion, tools)
    BY DEF SeenOf, PensOf
<1>5. \A k \in DOMAIN b : b[k].tool = "pen" => PensOf(motion, tools) # {} /\ b[k].key = pressed
    BY <1>1, <1>2, <1>3, <1>4
<1>6. ASSUME PensOf(motion, tools) # {}
      PROVE  \E k \in DOMAIN b : b[k].tool = "pen"
    BY <1>1, <1>2, <1>4, <1>6
<1>7. PensOf(motion, tools) # {} => b # <<>>
    BY <1>6
<1> QED
    BY <1>1, <1>5, <1>6, <1>7 DEF Penless, Keyed

\* Every event of the tablet's glass is a motion that is captured.
LEMMA EveryEvent ==
    ASSUME Types, (\E tool \in Tools : PointerDown(tool)) \/ PointersMove \/ GestureCancelled
                  \/ StylusHovers \/ \E i \in Ids : PointerUp(i)
    PROVE  /\ Event /\ UNCHANGED <<button, pressed>>
           /\ \E motion, tools : Motion(motion, tools) /\ Capture(motion, tools)
<1>1. ASSUME NEW tool \in Tools, PointerDown(tool)
      PROVE  /\ Event /\ UNCHANGED <<button, pressed>>
             /\ \E motion, tools : Motion(motion, tools) /\ Capture(motion, tools)
    <2>1. PICK i \in Ids \ OnGlass :
              /\ tool = "pen" => \A j \in Ids : glass[j] # "pen"
              /\ Event
              /\ glass' = [glass EXCEPT ![i] = tool]
              /\ Capture([j \in OnGlass \cup {i} |-> IF j = i THEN "down" ELSE "move"], glass')
              /\ UNCHANGED <<button, pressed>>
        BY <1>1 DEF PointerDown
    <2>2. Motion([j \in OnGlass \cup {i} |-> IF j = i THEN "down" ELSE "move"], glass')
        BY <2>1, Motions
    <2> QED
        BY <2>1, <2>2
<1>2. ASSUME NEW i \in Ids, PointerUp(i)
      PROVE  /\ Event /\ UNCHANGED <<button, pressed>>
             /\ \E motion, tools : Motion(motion, tools) /\ Capture(motion, tools)
    BY <1>2, Motions DEF PointerUp
<1>3. CASE PointersMove
    BY <1>3, Motions DEF PointersMove
<1>4. CASE GestureCancelled
    BY <1>4, Motions DEF GestureCancelled
<1>5. CASE StylusHovers
    BY <1>5, Motions DEF StylusHovers
<1> QED
    BY <1>1, <1>2, <1>3, <1>4, <1>5

\* An event of the glass keeps it.
LEMMA EventKey ==
    ASSUME Types, KeyOnItsWay, Event, UNCHANGED <<button, pressed>>,
           NEW motion, NEW tools, Motion(motion, tools), Capture(motion, tools)
    PROVE  KeyOnItsWay'
<1>1. /\ left'.rotations = left.rotations /\ turns' = turns
      /\ UNCHANGED <<contacts, frame, turning, input, button, pressed>>
    <2>1. left \in Left /\ left.events > 0 /\ left' = [left EXCEPT !.events = @ - 1]
        BY DEF Types, WayTypes, Event
    <2> QED
        BY <2>1, Spent DEF Event, host
<1> SUFFICES ASSUME left.rotations = MaxRotations PROVE KeyOnItsWay'
    BY <1>1 DEF KeyOnItsWay
<1>2. PICK b \in Seq(Samples) :
          /\ Send(b)
          /\ PensOf(motion, tools) = {} => b \in Penless
          /\ PensOf(motion, tools) # {} => b \in Keyed(pressed) /\ b # <<>>
    BY MotionKey
<1>3. batches \in Seq(Seq(Samples))
    BY DEF Types, WayTypes
<1>4. stylus' = IF PensOf(motion, tools) = {} THEN stylus ELSE PensOf(motion, tools)
    BY Captured
<1>5. turns = 0 /\ ~turning /\ (frame # NoFrame => frame.current) /\ pressed = button
    BY DEF KeyOnItsWay
<1>6. CASE PensOf(motion, tools) = {}
    <2>1. /\ Only(batches, Penless) => Only(batches', Penless)
          /\ Sometime(batches, Keyed(button), Penless) => Sometime(batches', Keyed(button), Penless)
        BY <1>2, <1>3, <1>6, SentOrNot
    <2> QED
        BY <1>1, <1>4, <1>5, <1>6, <2>1 DEF KeyOnItsWay, HeldKey
<1>7. CASE PensOf(motion, tools) # {}
    <2>1. Sometime(batches', Keyed(pressed), Penless)
        BY <1>2, <1>3, <1>7, SentOrNot
    <2> QED
        BY <1>1, <1>4, <1>5, <1>7, <2>1 DEF KeyOnItsWay
<1> QED
    BY <1>6, <1>7

\* So does the button itself, whose sample has its new state.
LEMMA KeyKey ==
    ASSUME Types, KeyOnItsWay, KeyDown \/ KeyUp
    PROVE  KeyOnItsWay'
<1>1. /\ left'.rotations = left.rotations /\ pressed' = button'
      /\ UNCHANGED <<turns, frame, turning, input, stylus>>
      /\ button' \in BOOLEAN /\ EmitButtonState(button')
    <2>1. CASE KeyDown
        <3>1. left \in Left /\ left.presses > 0 /\ left' = [left EXCEPT !.presses = @ - 1]
            BY <2>1 DEF Types, WayTypes, KeyDown
        <3> QED
            BY <2>1, <3>1, Spent DEF KeyDown, host
    <2>2. CASE KeyUp
        BY <2>2 DEF KeyUp, host
    <2> QED
        BY <2>1, <2>2
<1> SUFFICES ASSUME left.rotations = MaxRotations PROVE KeyOnItsWay'
    BY <1>1 DEF KeyOnItsWay
<1>2. batches \in Seq(Seq(Samples))
    BY DEF Types, WayTypes
<1>3. PICK b \in Seq(Samples) :
          /\ Send(b)
          /\ stylus # {} => b # <<>>
          /\ \A k \in DOMAIN b : b[k].tool = "pen" /\ b[k].key = button'
          /\ stylus = {} => b = <<>>
    BY <1>1, KeySends
<1>4. CASE stylus = {}
    <2>1. batches' = batches
        BY <1>3, <1>4 DEF Send
    <2> QED
        BY <1>1, <1>4, <2>1 DEF KeyOnItsWay
<1>5. CASE stylus # {}
    <2>1. 1 \in DOMAIN b /\ b # <<>>
        BY <1>3, <1>5
    <2>2. b \in Keyed(button')
        BY <1>3, <2>1 DEF Keyed
    <2>3. Sometime(batches', Keyed(button'), Penless)
        BY <1>2, <1>3, <2>1, <2>2, SentOrNot
    <2> QED
        BY <1>1, <1>5, <2>3 DEF KeyOnItsWay
<1> QED
    BY <1>4, <1>5

\* What Adapt does, with its loop named.
LEMMA AdaptDoes ==
    ASSUME Types, Adapt
    PROVE  /\ frame = NoFrame /\ batches \in Seq(Seq(Samples)) /\ batches # <<>>
           /\ Head(batches) \in Seq(Samples) /\ batches' = Tail(batches)
           /\ UNCHANGED <<tablet, turns, turning, input, left>>
           /\ \E r \in Adaptations :
                 /\ r = FoldLeft(AdaptSample, [contacts |-> contacts, pens |-> <<>>, touches |-> <<>>],
                                 Head(batches))
                 /\ PensFrom(r.pens, Head(batches), Len(Head(batches)))
                 /\ TouchesFrom(r.touches, Head(batches), Len(Head(batches)))
                 /\ contacts' = r.contacts
                 /\ frame'.pens = r.pens /\ frame'.touches = r.touches
                 /\ r.pens = <<>> /\ r.touches = <<>> => frame' = NoFrame
                 /\ ~ (r.pens = <<>> /\ r.touches = <<>>) =>
                        frame' # NoFrame /\ (frame'.current <=> ~turning)
<1> DEFINE start == [contacts |-> contacts, pens |-> <<>>, touches |-> <<>>]
           r == FoldLeft(AdaptSample, start, Head(batches))
           S == Seq(Samples)
<1>1. /\ contacts \in SUBSET (Tools \X WireIds) /\ turning \in BOOLEAN
      /\ batches \in Seq(S) /\ batches # <<>> /\ frame = NoFrame
      /\ batches' = Tail(batches) /\ UNCHANGED <<tablet, turns, turning, input, left>>
    BY DEF Types, HostTypes, WayTypes, Adapt
<1>2. /\ contacts' = r.contacts
      /\ frame' = IF r.pens = <<>> /\ r.touches = <<>> THEN NoFrame
                  ELSE [pens |-> r.pens, touches |-> r.touches, current |-> ~turning]
    BY Zenon DEF Adapt
<1> HIDE DEF S
<1>3. Head(batches) \in S
    BY <1>1
<1>4. start \in Adaptations
    BY <1>1 DEF Adaptations
<1>5. /\ PensFrom(r.pens, Head(batches), Len(Head(batches)))
      /\ TouchesFrom(r.touches, Head(batches), Len(Head(batches)))
    BY <1>1, <1>3, AdaptedFrom DEF S
<1> HIDE DEF start
<1>6. r \in Adaptations
    BY <1>3, <1>4, AdaptTyped DEF S
<1> HIDE DEF r
<1>7. /\ frame'.pens = r.pens /\ frame'.touches = r.touches
      /\ r.pens = <<>> /\ r.touches = <<>> => frame' = NoFrame
    BY <1>2 DEF NoFrame
<1>8. ASSUME ~ (r.pens = <<>> /\ r.touches = <<>>)
      PROVE  frame' # NoFrame /\ (frame'.current <=> ~turning)
    BY <1>1, <1>2, <1>8 DEF NoFrame
<1> QED
    BY <1>1, <1>2, <1>3, <1>5, <1>6, <1>7, <1>8, Zenon DEF r, start, S

\* So does the adapter: the frame takes the place of the batch.
LEMMA AdaptKey ==
    ASSUME Types, KeyOnItsWay, Adapt
    PROVE  KeyOnItsWay'
<1> DEFINE b == Head(batches)
<1>1. /\ frame = NoFrame /\ batches \in Seq(Seq(Samples)) /\ batches # <<>>
      /\ b \in Seq(Samples) /\ batches' = Tail(batches)
      /\ UNCHANGED <<tablet, turns, turning, input, left>>
    BY AdaptDoes
<1>2. PICK r \in Adaptations :
          /\ PensFrom(r.pens, b, Len(b))
          /\ frame'.pens = r.pens
          /\ r.pens = <<>> /\ r.touches = <<>> => frame' = NoFrame
          /\ ~ (r.pens = <<>> /\ r.touches = <<>>) =>
                 frame' # NoFrame /\ (frame'.current <=> ~turning)
    BY AdaptDoes
<1> HIDE DEF b
<1> SUFFICES ASSUME left.rotations = MaxRotations PROVE KeyOnItsWay'
    BY <1>1 DEF KeyOnItsWay
<1>3. /\ turns = 0 /\ ~turning /\ pressed = button /\ UNCHANGED <<button, pressed, stylus>>
      /\ NoFrame.pens = <<>>
    BY <1>1 DEF KeyOnItsWay, tablet, NoFrame
<1>4. frame' # NoFrame => frame'.current
    BY <1>2, <1>3
<1>5. /\ \A l \in 1..Len(b) : l \in DOMAIN b
      /\ \A l \in DOMAIN b : l \in 1..Len(b)
    BY <1>1
<1>6. ASSUME b \in Penless PROVE frame'.pens = <<>>
    <2>1. \A m \in DOMAIN r.pens : FALSE
        BY <1>2, <1>5, <1>6 DEF PensFrom, Penless
    <2>2. r.pens \in Seq(PenSamples)
        BY DEF Adaptations
    <2> QED
        BY <1>2, <2>1, <2>2, NoneIn
<1>7. ASSUME NEW v, b \in Keyed(v)
      PROVE  frame'.pens # <<>> /\ \A m \in DOMAIN frame'.pens : frame'.pens[m].key = v
    BY <1>2, <1>5, <1>7 DEF PensFrom, Keyed
<1>8. /\ Sometime(batches, Keyed(button), Penless) =>
            Sometime(batches', Keyed(button), Penless) \/ (b \in Keyed(button) /\ Only(batches', Penless))
      /\ Only(batches, Penless) => b \in Penless /\ Only(batches', Penless)
    BY <1>1, WayShrinks DEF b
<1>9. CASE stylus = {}
    BY <1>1, <1>3, <1>4, <1>6, <1>8, <1>9 DEF KeyOnItsWay
<1>10. CASE stylus # {}
    <2>1. CASE Sometime(batches, Keyed(button), Penless)
        <3>1. CASE Sometime(batches', Keyed(button), Penless)
            BY <1>1, <1>3, <1>4, <1>10, <3>1 DEF KeyOnItsWay
        <3>2. CASE b \in Keyed(button) /\ Only(batches', Penless)
            <4>1. HeldKey'
                BY <1>3, <1>7, <3>2 DEF HeldKey
            <4> QED
                BY <1>1, <1>3, <1>4, <1>10, <3>2, <4>1 DEF KeyOnItsWay
        <3> QED
            BY <1>8, <2>1, <3>1, <3>2
    <2>2. CASE Only(batches, Penless) /\ HeldKey
        <3>1. frame'.pens = <<>> /\ input' = input /\ input.held = button
            BY <1>1, <1>3, <1>6, <1>8, <2>2 DEF HeldKey
        <3>2. HeldKey'
            BY <1>3, <3>1 DEF HeldKey
        <3> QED
            BY <1>1, <1>3, <1>4, <1>8, <1>10, <2>2, <3>2 DEF KeyOnItsWay
    <2> QED
        BY <1>10, <2>1, <2>2 DEF KeyOnItsWay
<1> QED
    BY <1>9, <1>10

\* So does the input system: the injector takes the place of the frame.
LEMMA ProcessKey ==
    ASSUME Types, KeyOnItsWay, Process
    PROVE  KeyOnItsWay'
<1>1. frame # NoFrame /\ frame' = NoFrame /\ UNCHANGED <<tablet, batches, turns, contacts, turning, left>>
    BY DEF Process
<1> SUFFICES ASSUME left.rotations = MaxRotations PROVE KeyOnItsWay'
    BY <1>1 DEF KeyOnItsWay
<1>2. /\ turns = 0 /\ ~turning /\ pressed = button /\ frame.current
      /\ UNCHANGED <<button, pressed, stylus>> /\ frame'.pens = <<>>
    BY <1>1 DEF KeyOnItsWay, tablet, NoFrame
<1>3. frame.pens \in Seq(PenSamples) /\ frame.touches \in Seq(TouchSamples) /\ input \in Inputs
    BY DEF Types, HostTypes, Frames
<1> DEFINE penned == FoldLeft(ProcessPen, input, frame.pens)
<1>4. input' = ProcessTouches(penned, frame.touches)
    BY <1>2 DEF Process
<1>5. penned \in Inputs
    BY <1>3, PensTyped
<1> HIDE DEF penned
<1>6. input'.held = penned.held
    BY <1>3, <1>4, <1>5, ProcessTouchesSamePen DEF SamePen
<1>7. ASSUME HeldKey PROVE HeldKey'
    <2>1. penned.held = (IF frame.pens = <<>> THEN input.held ELSE button)
        BY <1>3, <1>7, PensHold DEF penned, HeldKey
    <2>2. input'.held = button
        BY <1>6, <1>7, <2>1 DEF HeldKey
    <2> QED
        BY <1>2, <2>2 DEF HeldKey
<1>8. ASSUME frame.pens = <<>> PROVE input'.held = input.held
    <2>1. \A k \in DOMAIN frame.pens : frame.pens[k].key = input.held
        BY <1>8
    <2>2. penned.held = (IF frame.pens = <<>> THEN input.held ELSE input.held)
        BY <1>3, <2>1, PensHold DEF penned
    <2> QED
        BY <1>6, <2>2
<1> QED
    BY <1>1, <1>2, <1>7, <1>8 DEF KeyOnItsWay

\* A rotation ends the promise.
LEMMA RotationKey ==
    ASSUME Types, KeyOnItsWay, Rotate \/ OnOrientationChange \/ SetOrientationEpoch
    PROVE  KeyOnItsWay'
<1>1. CASE Rotate
    <2>1. left \in Left /\ left.rotations > 0 /\ left' = [left EXCEPT !.rotations = @ - 1]
        BY <1>1 DEF Types, WayTypes, Rotate
    <2>2. left.rotations \in 0..MaxRotations
        BY <2>1 DEF Left
    <2>3. left'.rotations # MaxRotations
        BY <2>1, <2>2, Spent, Bounds
    <2> QED
        BY <2>3 DEF KeyOnItsWay
<1>2. CASE OnOrientationChange
    BY <1>2 DEF KeyOnItsWay, OnOrientationChange
<1>3. CASE SetOrientationEpoch
    BY <1>3 DEF KeyOnItsWay, SetOrientationEpoch
<1> QED
    BY <1>1, <1>2, <1>3

\* At first no key is held.
LEMMA KeyStarts == Init => KeyOnItsWay
<1> SUFFICES ASSUME Init PROVE KeyOnItsWay
    OBVIOUS
<1>1. frame = NoFrame /\ NoFrame.pens = <<>> /\ batches = <<>> /\ input.held = FALSE
    BY DEF Init, NoFrame
<1>2. Only(batches, Penless)
    BY <1>1 DEF Only
<1> QED
    BY <1>1, <1>2 DEF Init, KeyOnItsWay

\* Every step keeps it.
LEMMA KeyStep == Types /\ KeyOnItsWay /\ [Next]_vars => KeyOnItsWay'
<1> SUFFICES ASSUME Types, KeyOnItsWay, [Next]_vars PROVE KeyOnItsWay'
    OBVIOUS
<1>1. CASE Tablet
    <2>1. CASE \/ \E tool \in Tools : PointerDown(tool)
               \/ PointersMove \/ GestureCancelled \/ StylusHovers \/ \E i \in Ids : PointerUp(i)
        BY <2>1, EveryEvent, EventKey
    <2> QED
        BY <1>1, <2>1, KeyKey, RotationKey DEF Tablet
<1>2. CASE UNCHANGED vars
    BY <1>2 DEF vars, tablet, host, KeyOnItsWay, HeldKey
<1> QED
    BY <1>1, <1>2, AdaptKey, ProcessKey, RotationKey DEF Next

\* It holds always.
LEMMA KeyAlways == Spec => []KeyOnItsWay
BY TypesAlways, KeyStarts, KeyStep, PTL DEF Spec

\* The key that a stylus button stands for is released with the button
\* (emitButtonStateSample, InputSystem::Process), whatever the stylus does
\* meanwhile, for any number of pointers, events and batches on their way.
THEOREM KeySafety == Spec => []KeyReleased
<1>1. Types /\ KeyOnItsWay => KeyReleased
    <2> SUFFICES ASSUME Types, KeyOnItsWay, Delivered, ~button, left.rotations = MaxRotations
                 PROVE  ~input.held
        BY DEF KeyReleased
    <2>1. batches = <<>> /\ frame.pens = <<>> /\ button = FALSE
        BY DEF Delivered, NoFrame, Types, TabletTypes
    <2>2. ~Sometime(batches, Keyed(button), Penless)
        BY <2>1 DEF Sometime
    <2> QED
        BY <2>1, <2>2 DEF KeyOnItsWay, HeldKey
<1> QED
    BY KeyAlways, TypesAlways, <1>1, PTL

-----------------------------------------------------------------------------
(* With two pointers at most there is one wire id, 1.  What is down in       *)
(* Windows is then known to the injector, to the palm guard and to the        *)
(* adapter.                                                                   *)

\* The wire id of both pointers.
LEMMA OneWire ==
    ASSUME MaxPointer <= 1, NEW i \in Ids
    PROVE  WireId(i) = 1
BY Bounds DEF Ids, WireId

\* The injector and the palm guard are in order.
Sound(s) ==
    /\ s.mask \subseteq {1} /\ s.touching \subseteq s.mask
    /\ s.suppressed => s.touching = {}
    /\ s.guarded /\ s.tip => s.suppressed
    /\ s.tip <=> s.penDown
    /\ s.penDown => s.pen

\* A release of touches releases all.
LEMMA ReleaseTouchesSound ==
    ASSUME NEW s \in Inputs, Sound(s)
    PROVE  /\ Sound(ReleaseTouches(s)) /\ ReleaseTouches(s).touching = {}
           /\ ReleaseTouches(s).penDown = s.penDown /\ ReleaseTouches(s).guarded = s.guarded
<1> DEFINE r == ReleaseTouches(s)
<1>1. /\ r.guarded = s.guarded /\ r.tip = s.tip /\ r.suppressed = s.suppressed
      /\ r.held = s.held /\ r.pen = s.pen /\ r.penDown = s.penDown /\ r.mask = {}
      /\ r.touching = IF s.mask \subseteq s.touching THEN s.touching \ s.mask ELSE s.touching
    BY ReleaseTouchesDoes
<1> HIDE DEF r
<1>2. r.touching = {}
    BY <1>1 DEF Sound
<1>3. Sound(r)
    BY <1>1, <1>2 DEF Sound
<1> QED
    BY <1>1, <1>2, <1>3 DEF r

\* ReleaseAll releases all.
LEMMA ReleaseEverythingSound ==
    ASSUME NEW s \in Inputs, Sound(s)
    PROVE  /\ Sound(ReleaseEverything(s)) /\ ReleaseEverything(s).touching = {}
           /\ ~ReleaseEverything(s).penDown /\ ReleaseEverything(s).guarded = s.guarded
<1> DEFINE penned == IF s.pen THEN InjectPen(s, "cancel") ELSE s
           lifted == ReleaseTouches(penned)
           r == [lifted EXCEPT !.pen = FALSE, !.held = FALSE, !.tip = FALSE, !.suppressed = FALSE]
<1>1. penned \in Inputs
    BY InjectPenTyped
<1>2. /\ penned.mask = s.mask /\ penned.touching = s.touching /\ penned.guarded = s.guarded
      /\ ~penned.penDown
    <2>1. CASE s.pen
        BY <2>1, InjectPenDoes DEF Legal, Tip
    <2>2. CASE ~s.pen
        BY <2>2 DEF Sound
    <2> QED
        BY <2>1, <2>2
<1> HIDE DEF penned
<1>3. lifted \in Inputs
    BY <1>1, ReleaseTouchesTyped
<1>4. /\ lifted.mask = {} /\ lifted.guarded = penned.guarded /\ lifted.penDown = penned.penDown
      /\ lifted.touching = IF penned.mask \subseteq penned.touching THEN penned.touching \ penned.mask
                           ELSE penned.touching
    BY <1>1, ReleaseTouchesDoes
<1>5. lifted.touching = {} /\ ~lifted.penDown /\ lifted.guarded = s.guarded
    BY <1>2, <1>4 DEF Sound
<1> HIDE DEF lifted
<1>6. ReleaseEverything(s) = r
    BY Zenon DEF ReleaseEverything, lifted, penned
<1>7. /\ r.pen = FALSE /\ r.held = FALSE /\ r.tip = FALSE /\ r.suppressed = FALSE
      /\ r.mask = lifted.mask /\ r.touching = lifted.touching
      /\ r.penDown = lifted.penDown /\ r.guarded = lifted.guarded
    BY <1>3 DEF Inputs
<1> HIDE DEF r
<1>8. Sound(r)
    BY <1>4, <1>5, <1>7 DEF Sound
<1> QED
    BY <1>5, <1>6, <1>7, <1>8

\* Is the pen down after k samples, if it was before?
WasDown(pens, before, k) == IF k = 0 THEN before ELSE Tip(pens[k].phase)

\* Each sample says what the pen can do.
PenChain(pens, before) ==
    \A k \in DOMAIN pens :
        pens[k].phase = "cancel" \/ (pens[k].phase \in {"move", "up"} <=> WasDown(pens, before, k - 1))

\* A pen sample that says what the pen can do is injected, and lifts the fingers
\* when the guard begins to suppress.
LEMMA ProcessPenSound ==
    ASSUME NEW s \in Inputs, Sound(s), NEW sample \in PenSamples,
           sample.phase = "cancel" \/ (sample.phase \in {"move", "up"} <=> s.penDown)
    PROVE  LET r == ProcessPen(s, sample)
           IN  /\ Sound(r) /\ r.guarded = s.guarded
               /\ r.penDown <=> Tip(sample.phase)
               /\ s.touching = {} => r.touching = {}
<1> DEFINE r == ProcessPen(s, sample)
           lifts == s.guarded /\ Tip(sample.phase) /\ ~s.suppressed
<1>1. /\ r.guarded = s.guarded /\ (r.tip <=> Tip(sample.phase))
      /\ r.suppressed <=> (s.suppressed \/ (s.guarded /\ Tip(sample.phase)))
      /\ r.mask = IF lifts THEN ReleaseTouches(s).mask ELSE s.mask
      /\ r.touching = IF lifts THEN ReleaseTouches(s).touching ELSE s.touching
      /\ Legal(sample.phase, s.penDown) =>
           /\ r.penDown <=> Tip(sample.phase)
           /\ r.pen <=> sample.phase \notin {"up", "cancel"}
      /\ ~Legal(sample.phase, s.penDown) => (r.penDown <=> s.penDown) /\ ~r.pen
    BY ProcessPenDoes
<1> HIDE DEF r
<1>2. ReleaseTouches(s).touching = {} /\ ReleaseTouches(s).mask = {}
    BY ReleaseTouchesSound, ReleaseTouchesDoes
<1>3. sample.phase \in Actions
    BY DEF PenSamples
<1>4. (r.penDown <=> Tip(sample.phase)) /\ (r.penDown => r.pen)
    BY <1>1, <1>3 DEF Legal, Tip, Actions
<1>5. /\ r.mask \subseteq {1} /\ r.touching \subseteq r.mask
      /\ s.touching = {} => r.touching = {}
      /\ r.suppressed => r.touching = {}
    BY <1>1, <1>2 DEF Sound
<1>6. Sound(r)
    BY <1>1, <1>4, <1>5 DEF Sound
<1> QED
    BY <1>1, <1>4, <1>5, <1>6 DEF r

\* All pen samples of a frame.
LEMMA PensSound ==
    ASSUME NEW s \in Inputs, Sound(s), NEW pens \in Seq(PenSamples), PenChain(pens, s.penDown)
    PROVE  LET r == FoldLeft(ProcessPen, s, pens)
           IN  /\ Sound(r) /\ r.guarded = s.guarded
               /\ r.penDown <=> WasDown(pens, s.penDown, Len(pens))
               /\ s.touching = {} => r.touching = {}
<1> DEFINE r == FoldLeft(ProcessPen, s, pens)
           Good(k, u) == /\ Sound(u) /\ u.guarded = s.guarded
                         /\ u.penDown <=> WasDown(pens, s.penDown, k)
                         /\ s.touching = {} => u.touching = {}
           I == {x \in Nat \X Inputs : Good(x[1], x[2])}
<1>1. <<0, s>> \in I
    BY DEF WasDown
<1>2. ASSUME NEW k \in 1..Len(pens), NEW u \in Inputs, <<k - 1, u>> \in I
      PROVE  <<k, ProcessPen(u, pens[k])>> \in I
    <2> DEFINE v == ProcessPen(u, pens[k])
    <2>1. pens[k] \in PenSamples /\ k \in DOMAIN pens /\ k \in Nat /\ k # 0
        OBVIOUS
    <2>2. Good(k - 1, u)
        BY <1>2
    <2>3. pens[k].phase = "cancel" \/ (pens[k].phase \in {"move", "up"} <=> u.penDown)
        BY <2>1, <2>2 DEF PenChain
    <2>4. v \in Inputs
        BY <2>1, ProcessPenTyped
    <2>5. /\ Sound(v) /\ v.guarded = u.guarded
          /\ v.penDown <=> Tip(pens[k].phase)
          /\ u.touching = {} => v.touching = {}
        BY <2>1, <2>2, <2>3, ProcessPenSound
    <2> HIDE DEF v
    <2>6. Good(k, v)
        BY <2>1, <2>2, <2>5 DEF WasDown
    <2> HIDE DEF Good
    <2> QED
        BY <2>1, <2>4, <2>6 DEF v
<1>3. \A u \in Inputs : \A x \in PenSamples : ProcessPen(u, x) \in Inputs
    BY ProcessPenTyped
<1> HIDE DEF I
<1>4. <<Len(pens), r>> \in I
    BY <1>1, <1>2, <1>3, PenLoop
<1> HIDE DEF r
<1>5. Good(Len(pens), r)
    BY <1>4 DEF I
<1> QED
    BY <1>5 DEF r

\* Touches of one pointer that has something to say.
OneTouch(touches) == \A k \in DOMAIN touches : touches[k].id = 1 /\ touches[k].phase # "hover"

\* They are injected one by one.
LEMMA GroupsOfOne ==
    ASSUME NEW touches \in Seq(TouchSamples), OneTouch(touches)
    PROVE  LET groups == FoldLeft(AddToGroup, <<>>, touches)
           IN  /\ groups \in Seq(SUBSET TouchSamples) /\ Len(groups) = Len(touches)
               /\ \A k \in 1..Len(touches) : groups[k] = {touches[k]}
<1> DEFINE G == Seq(SUBSET TouchSamples)
           Good(k, g) == Len(g) = k /\ \A m \in 1..k : g[m] = {touches[m]}
           I == {x \in Nat \X G : Good(x[1], x[2])}
           groups == FoldLeft(AddToGroup, <<>>, touches)
<1>1. ASSUME NEW g \in G, NEW t \in TouchSamples
      PROVE  /\ Append(g, {t}) \in G /\ Len(Append(g, {t})) = Len(g) + 1
             /\ Append(g, {t})[Len(g) + 1] = {t}
             /\ \A m \in 1..Len(g) : Append(g, {t})[m] = g[m]
             /\ Len(g) \in Nat /\ (g # <<>> => Len(g) \in 1..Len(g))
    OBVIOUS
<1>2. ASSUME NEW g \in G, NEW t \in TouchSamples PROVE AddToGroup(g, t) \in G
    <2>1. CASE g # <<>>
        <3>1. Len(g) \in DOMAIN g /\ g[Len(g)] \in SUBSET TouchSamples
            BY <2>1
        <3>2. [g EXCEPT ![Len(g)] = g[Len(g)] \cup {t}] \in G
            BY <3>1
        <3> HIDE DEF G
        <3> QED
            BY <1>1, <3>2 DEF AddToGroup
    <2>2. CASE g = <<>>
        <3> HIDE DEF G
        <3> QED
            BY <1>1, <2>2 DEF AddToGroup
    <2> QED
        BY <2>1, <2>2
<1>3. <<>> \in G /\ Len(<<>>) = 0
    OBVIOUS
<1> HIDE DEF G
<1>4. <<0, <<>>>> \in I
    BY <1>3
<1>5. ASSUME NEW k \in 1..Len(touches), NEW g \in G, <<k - 1, g>> \in I
      PROVE  <<k, AddToGroup(g, touches[k])>> \in I
    <2> DEFINE t == touches[k]
    <2>1. t \in TouchSamples /\ t.id = 1 /\ k \in Nat
        BY DEF OneTouch
    <2>2. Good(k - 1, g)
        BY <1>5
    <2>4. AddToGroup(g, t) = Append(g, {t})
        <3>1. CASE g # <<>>
            <4>1. k - 1 \in 1..(k - 1) /\ Len(g) = k - 1 /\ k - 1 \in 1..Len(touches) /\ k - 1 \in DOMAIN touches
                BY <1>1, <2>1, <2>2, <3>1
            <4>2. g[Len(g)] = {touches[k - 1]} /\ touches[k - 1].id = 1
                BY <2>2, <4>1 DEF OneTouch
            <4>3. t.id \in {u.id : u \in g[Len(g)]}
                BY <2>1, <4>2
            <4> QED
                BY <4>3 DEF AddToGroup, Last
        <3>2. CASE g = <<>>
            BY <3>2 DEF AddToGroup
        <3> QED
            BY <3>1, <3>2
    <2> HIDE DEF t
    <2>5. Good(k, Append(g, {t}))
        <3>1. \A m \in 1..k : m \in 1..(k - 1) \/ m = k
            BY <2>1
        <3>2. Len(g) = k - 1 /\ (k - 1) + 1 = k
            BY <2>1, <2>2
        <3> QED
            BY <1>1, <2>1, <2>2, <3>1, <3>2 DEF t
    <2> HIDE DEF Good
    <2> QED
        BY <1>1, <2>1, <2>4, <2>5 DEF t
<1> HIDE DEF I
<1>6. groups \in G /\ <<Len(touches), groups>> \in I
    BY <1>2, <1>3, <1>4, <1>5, GroupLoop
<1> HIDE DEF groups
<1>7. Good(Len(touches), groups)
    BY <1>6 DEF I
<1> QED
    BY <1>6, <1>7 DEF groups, G

\* A touch is injected; a mask that is not empty stays one of what may be down.
LEMMA InjectOneSound ==
    ASSUME NEW s \in Inputs, Sound(s), ~s.suppressed,
           NEW t \in TouchSamples, t.id = 1, t.phase # "hover"
    PROVE  LET r == InjectTouches(s, {t})
           IN  /\ Sound(r) /\ ~r.suppressed
               /\ ~Tip(t.phase) => r.touching = {}
<1> DEFINE r == InjectTouches(s, {t})
           group == {t}
           holding == {u.id : u \in {w \in group : Tip(w.phase)}}
           lifting == {u.id : u \in group} \ holding
           ok == \A u \in group : Legal(u.phase, u.id \in s.touching)
<1>1. /\ SamePen(r, s) /\ r.suppressed = s.suppressed
      /\ r.mask = (s.mask \ lifting) \cup holding
      /\ r.touching = IF ok THEN (s.touching \ lifting) \cup holding ELSE s.touching
    BY InjectTouchesDoes
<1> HIDE DEF r
<1>2. CASE Tip(t.phase)
    <2>1. holding = {1} /\ lifting = {}
        BY <1>2
    <2>2. r.mask \subseteq {1} /\ r.touching \subseteq r.mask
        BY <1>1, <2>1 DEF Sound
    <2> QED
        BY <1>1, <1>2, <2>2 DEF Sound, SamePen, r
<1>3. CASE ~Tip(t.phase)
    <2>1. holding = {} /\ lifting = {1}
        BY <1>3
    <2>2. t.phase \in {"up", "cancel"}
        BY <1>3 DEF TouchSamples, Actions, Tip
    <2>3. ok <=> 1 \in s.touching
        BY <2>2 DEF Legal
    <2>4. r.touching = {} /\ r.mask \subseteq {1}
        BY <1>1, <2>1, <2>3 DEF Sound
    <2> QED
        BY <1>1, <2>4 DEF Sound, SamePen, r
<1> QED
    BY <1>2, <1>3

\* The touches of a frame: none is left when the guard suppresses them, or when
\* the last of them lifts.
LEMMA ProcessTouchesSound ==
    ASSUME NEW s \in Inputs, Sound(s), NEW touches \in Seq(TouchSamples), OneTouch(touches)
    PROVE  LET r == ProcessTouches(s, touches)
           IN  /\ Sound(r)
               /\ touches = <<>> => r.touching = s.touching
               /\ s.guarded /\ s.tip => r.touching = {}
               /\ touches # <<>> /\ ~Tip(touches[Len(touches)].phase) => r.touching = {}
<1> DEFINE free == [s EXCEPT !.suppressed = FALSE]
           barred == [s EXCEPT !.suppressed = TRUE]
           groups == FoldLeft(AddToGroup, <<>>, touches)
           n == Len(touches)
           r == FoldLeft(InjectTouches, free, groups)
           Good(k, u) == /\ Sound(u) /\ ~u.suppressed
                         /\ k # 0 => (~Tip(touches[k].phase) => u.touching = {})
           I == {x \in Nat \X Inputs : Good(x[1], x[2])}
<1>1. /\ groups \in Seq(SUBSET TouchSamples) /\ Len(groups) = n
      /\ \A k \in 1..n : groups[k] = {touches[k]}
    BY GroupsOfOne
<1>2. ProcessTouches(s, touches) =
          IF touches = <<>> THEN s
          ELSE IF s.guarded /\ s.tip THEN barred ELSE r
    BY DEF ProcessTouches
<1>3. /\ free \in Inputs /\ free.suppressed = FALSE /\ SamePen(free, s)
      /\ free.mask = s.mask /\ free.touching = s.touching
      /\ barred.suppressed = TRUE /\ SamePen(barred, s)
      /\ barred.mask = s.mask /\ barred.touching = s.touching
    BY DEF Inputs, SamePen
<1> HIDE DEF free, barred, groups
<1>4. s.guarded /\ s.tip => s.touching = {}
    BY DEF Sound
<1>5. CASE touches = <<>>
    BY <1>2, <1>4, <1>5
<1>6. CASE touches # <<>> /\ s.guarded /\ s.tip
    <2>1. Sound(barred) /\ barred.touching = {}
        BY <1>3, <1>4, <1>6 DEF Sound, SamePen
    <2> QED
        BY <1>2, <1>6, <2>1
<1>7. CASE touches # <<>> /\ ~ (s.guarded /\ s.tip)
    <2>1. Sound(free)
        BY <1>3, <1>7 DEF Sound, SamePen
    <2>2. <<0, free>> \in I
        BY <1>3, <2>1
    <2>3. ASSUME NEW k \in 1..Len(groups), NEW u \in Inputs, <<k - 1, u>> \in I
          PROVE  <<k, InjectTouches(u, groups[k])>> \in I
        <3> DEFINE v == InjectTouches(u, {touches[k]})
        <3>1. /\ groups[k] = {touches[k]} /\ touches[k] \in TouchSamples /\ k \in Nat
              /\ touches[k].id = 1 /\ touches[k].phase # "hover"
            BY <1>1 DEF OneTouch
        <3>2. Good(k - 1, u)
            BY <2>3
        <3>3. v \in Inputs
            BY <3>1, InjectTouchesTyped
        <3>4. Sound(v) /\ ~v.suppressed /\ (~Tip(touches[k].phase) => v.touching = {})
            BY <3>1, <3>2, InjectOneSound
        <3> HIDE DEF v
        <3>5. Good(k, v)
            BY <3>4
        <3> HIDE DEF Good
        <3> QED
            BY <3>1, <3>3, <3>5 DEF v
    <2>4. \A u \in Inputs : \A x \in SUBSET TouchSamples : InjectTouches(u, x) \in Inputs
        BY InjectTouchesTyped
    <2> HIDE DEF I
    <2>5. <<Len(groups), r>> \in I
        BY <1>1, <1>3, <2>2, <2>3, <2>4, InjectLoop
    <2> HIDE DEF r
    <2>6. Good(n, r)
        BY <1>1, <2>5 DEF I
    <2>7. n # 0
        BY <1>7
    <2>8. Sound(r) /\ (~Tip(touches[n].phase) => r.touching = {})
        BY <2>6, <2>7
    <2> QED
        BY <1>2, <1>7, <2>8
<1> QED
    BY <1>5, <1>6, <1>7

-----------------------------------------------------------------------------
(* The adapter, which derives phases from flags, stays in step with Windows. *)

\* Batches of the one wire id.
Ones == {b \in Seq(Samples) : \A k \in DOMAIN b : b[k].id = 1}

\* The last touch of a frame lifts, if there is one; else there was no contact.
TouchEnds(touches, before) ==
    IF touches = <<>> THEN ~before ELSE ~Tip(touches[Len(touches)].phase)

\* The adapter within a batch, which it began with the contacts "held".
AdaptedInStep(a, held) ==
    /\ a.contacts \subseteq Tools \X {1}
    /\ PenChain(a.pens, <<"pen", 1>> \in held)
    /\ <<"pen", 1>> \in a.contacts <=> WasDown(a.pens, <<"pen", 1>> \in held, Len(a.pens))
    /\ OneTouch(a.touches)
    /\ <<"touch", 1>> \notin a.contacts => TouchEnds(a.touches, <<"touch", 1>> \in held)

\* A sample of the pen.
LEMMA AdaptPenInStep ==
    ASSUME NEW held, NEW a \in Adaptations, AdaptedInStep(a, held),
           NEW sample \in Samples, sample.id = 1, sample.tool = "pen"
    PROVE  AdaptedInStep(AdaptSample(a, sample), held)
<1> DEFINE key == <<"pen", 1>>
           before == key \in held
           was == key \in a.contacts
           phase == PhaseFor(sample.action, was)
           p == [phase |-> phase, key |-> sample.key]
           r == AdaptSample(a, sample)
           n == Len(a.pens)
<1>1. /\ r.contacts = IF Tip(sample.action) THEN a.contacts \cup {key} ELSE a.contacts \ {key}
      /\ r.pens = Append(a.pens, p) /\ r.touches = a.touches
    BY ZenonT(30), AdaptSampleDoes
<1>2. sample.action \in Actions /\ sample.key \in BOOLEAN /\ a.pens \in Seq(PenSamples)
    BY DEF Samples, Adaptations
<1>3. /\ phase \in Actions /\ (Tip(phase) <=> Tip(sample.action))
      /\ phase = "cancel" \/ (phase \in {"move", "up"} <=> was)
    BY <1>2 DEF PhaseFor, Actions, Tip
<1> HIDE DEF phase, r
<1>4. p \in PenSamples /\ p.phase = phase
    BY <1>2, <1>3 DEF PenSamples
<1> HIDE DEF p
<1>5. /\ Len(r.pens) = n + 1 /\ r.pens[n + 1] = p /\ n \in Nat /\ DOMAIN a.pens = 1..n
      /\ \A m \in DOMAIN a.pens : m \in DOMAIN r.pens /\ r.pens[m] = a.pens[m]
      /\ \A m \in DOMAIN r.pens : m \in DOMAIN a.pens \/ m = n + 1
    BY <1>1, <1>2, <1>4, Appended
<1>6. key \in r.contacts <=> Tip(phase)
    BY <1>1, <1>3
<1>7. PenChain(r.pens, before)
    <2> SUFFICES ASSUME NEW k \in DOMAIN r.pens
                 PROVE  r.pens[k].phase = "cancel"
                        \/ (r.pens[k].phase \in {"move", "up"} <=> WasDown(r.pens, before, k - 1))
        BY DEF PenChain
    <2>1. CASE k \in DOMAIN a.pens
        <3>1. /\ r.pens[k] = a.pens[k] /\ k - 1 \in Nat
              /\ k - 1 # 0 => k - 1 \in DOMAIN a.pens /\ r.pens[k - 1] = a.pens[k - 1]
            BY <1>5, <2>1
        <3>2. WasDown(r.pens, before, k - 1) <=> WasDown(a.pens, before, k - 1)
            BY <3>1 DEF WasDown
        <3> HIDE DEF before, key
        <3> QED
            BY <2>1, <3>1, <3>2 DEF AdaptedInStep, PenChain, before, key
    <2>2. CASE k = n + 1
        <3>1. k - 1 = n /\ r.pens[k].phase = phase
            BY <1>4, <1>5, <2>2
        <3>2. n # 0 => n \in DOMAIN a.pens /\ r.pens[n] = a.pens[n]
            BY <1>5
        <3>3. WasDown(r.pens, before, n) <=> WasDown(a.pens, before, n)
            BY <3>2 DEF WasDown
        <3>4. WasDown(a.pens, before, n) <=> was
            BY DEF AdaptedInStep
        <3> QED
            BY <1>3, <3>1, <3>3, <3>4
    <2> QED
        BY <1>5, <2>1, <2>2
<1>8. key \in r.contacts <=> WasDown(r.pens, before, Len(r.pens))
    BY <1>4, <1>5, <1>6 DEF WasDown
<1>9. r.contacts \subseteq Tools \X {1}
    BY <1>1 DEF AdaptedInStep, Tools
<1>10. <<"touch", 1>> \in r.contacts <=> <<"touch", 1>> \in a.contacts
    BY <1>1
<1>11. OneTouch(r.touches) /\ (<<"touch", 1>> \notin r.contacts => TouchEnds(r.touches, <<"touch", 1>> \in held))
    BY <1>1, <1>10 DEF AdaptedInStep
<1> QED
    BY <1>7, <1>8, <1>9, <1>11 DEF AdaptedInStep, r

\* A sample of a finger.
LEMMA AdaptTouchInStep ==
    ASSUME NEW held, NEW a \in Adaptations, AdaptedInStep(a, held),
           NEW sample \in Samples, sample.id = 1, sample.tool = "touch"
    PROVE  AdaptedInStep(AdaptSample(a, sample), held)
<1> DEFINE key == <<"touch", 1>>
           was == key \in a.contacts
           phase == PhaseFor(sample.action, was)
           t == [id |-> sample.id, phase |-> phase]
           r == AdaptSample(a, sample)
<1>1. /\ r.contacts = IF Tip(sample.action) THEN a.contacts \cup {key} ELSE a.contacts \ {key}
      /\ r.pens = a.pens
      /\ r.touches = IF phase # "hover" THEN Append(a.touches, t) ELSE a.touches
    BY ZenonT(30), AdaptSampleDoes
<1>2. sample.action \in Actions /\ a.touches \in Seq(TouchSamples) /\ sample.id \in WireIds
    BY DEF Samples, Adaptations
<1>3. /\ phase \in Actions /\ (Tip(phase) <=> Tip(sample.action))
      /\ phase = "hover" => ~was
    BY <1>2, PhaseTyped, TipKept
<1> HIDE DEF phase, r
<1>4. t \in TouchSamples /\ t.id = 1 /\ t.phase = phase
    BY <1>2, <1>3 DEF TouchSamples
<1> HIDE DEF t
<1>5. r.contacts \subseteq Tools \X {1}
    BY <1>1 DEF AdaptedInStep, Tools
<1>6. <<"pen", 1>> \in r.contacts <=> <<"pen", 1>> \in a.contacts
    BY <1>1
<1>7. CASE phase = "hover"
    <2>1. r.touches = a.touches /\ (key \in r.contacts <=> was)
        BY <1>1, <1>3, <1>7 DEF Tip
    <2> QED
        BY <1>1, <1>5, <1>6, <2>1 DEF AdaptedInStep, r
<1>8. CASE phase # "hover"
    <2>1. r.touches = Append(a.touches, t)
        BY <1>1, <1>8
    <2>2. /\ r.touches # <<>> /\ r.touches[Len(r.touches)] = t
          /\ \A m \in DOMAIN r.touches : (m \in DOMAIN a.touches /\ r.touches[m] = a.touches[m])
                                         \/ r.touches[m] = t
        BY <1>2, <1>4, <2>1, Appended
    <2>3. OneTouch(r.touches)
        BY <1>4, <1>8, <2>2 DEF OneTouch, AdaptedInStep
    <2>4. key \notin r.contacts => TouchEnds(r.touches, key \in held)
        BY <1>1, <1>3, <1>4, <2>2 DEF TouchEnds
    <2> QED
        BY <1>1, <1>5, <1>6, <2>3, <2>4 DEF AdaptedInStep, r
<1> QED
    BY <1>7, <1>8

\* A batch is adapted to phases that continue from what was held.
LEMMA AdaptedChain ==
    ASSUME NEW held \in SUBSET (Tools \X {1}), 1 \in WireIds, NEW b \in Ones
    PROVE  AdaptedInStep(FoldLeft(AdaptSample, [contacts |-> held, pens |-> <<>>, touches |-> <<>>], b), held)
<1> DEFINE a0 == [contacts |-> held, pens |-> <<>>, touches |-> <<>>]
           I == {x \in Nat \X Adaptations : AdaptedInStep(x[2], held)}
           r == FoldLeft(AdaptSample, a0, b)
<1>1. a0 \in Adaptations
    BY DEF Adaptations
<1>2. AdaptedInStep(a0, held)
    <2>1. a0.contacts = held /\ a0.pens = <<>> /\ a0.touches = <<>>
        OBVIOUS
    <2> HIDE DEF a0
    <2> QED
        BY <2>1 DEF AdaptedInStep, PenChain, WasDown, OneTouch, TouchEnds
<1> HIDE DEF a0
<1>3. <<0, a0>> \in I
    BY <1>1, <1>2
<1>4. b \in Seq(Samples) /\ \A k \in DOMAIN b : b[k].id = 1
    BY DEF Ones
<1>5. ASSUME NEW k \in 1..Len(b), NEW v \in Adaptations, <<k - 1, v>> \in I
      PROVE  <<k, AdaptSample(v, b[k])>> \in I
    <2>1. b[k] \in Samples /\ b[k].id = 1 /\ k \in Nat
        BY <1>4
    <2>2. b[k].tool = "pen" \/ b[k].tool = "touch"
        BY <2>1 DEF Samples, Tools
    <2>3. AdaptedInStep(v, held)
        BY <1>5
    <2>4. AdaptedInStep(AdaptSample(v, b[k]), held)
        BY <2>1, <2>2, <2>3, AdaptPenInStep, AdaptTouchInStep
    <2> QED
        BY <2>1, <2>4, AdaptSampleTyped
<1>6. \A v \in Adaptations : \A x \in Samples : AdaptSample(v, x) \in Adaptations
    BY AdaptSampleTyped
<1> HIDE DEF I
<1>7. <<Len(b), r>> \in I
    BY <1>1, <1>3, <1>4, <1>5, <1>6, AdaptLoop
<1> HIDE DEF r
<1>8. AdaptedInStep(r, held)
    BY <1>7 DEF I
<1> QED
    BY <1>8 DEF r, a0

\* A frame of an old orientation, and the two contacts of the adapter.
Stale == frame # NoFrame /\ ~frame.current
PenContact == <<"pen", 1>> \in contacts
TouchContact == <<"touch", 1>> \in contacts

\* Every sample has the one wire id.
OneId ==
    /\ Only(batches, Ones)
    /\ \A i \in Ids : tracked[i] # NoSample => tracked[i].id = 1

\* A frame of this orientation continues from what is down in Windows, and the
\* adapter is where it ends; between frames the adapter is where Windows is; and
\* while an orientation is changing nothing is down.
InStep ==
    /\ contacts \subseteq Tools \X {1} /\ OneTouch(frame.touches)
    /\ frame.current =>
          /\ ~turning /\ PenChain(frame.pens, input.penDown)
          /\ PenContact <=> WasDown(frame.pens, input.penDown, Len(frame.pens))
          /\ ~TouchContact => TouchEnds(frame.touches, input.touching # {})
    /\ frame = NoFrame /\ ~turning => (PenContact <=> input.penDown)
    /\ frame = NoFrame /\ ~TouchContact => input.touching = {}
    /\ turning \/ Stale => ~input.penDown /\ input.touching = {}
    /\ ~turning /\ Stale => contacts = {}

\* The host's part of the inductive invariant.
HostInOrder == Sound(input) /\ InStep

\* Every step keeps the one wire id.
LEMMA OneIdKept ==
    ASSUME MaxPointer <= 1, Types, OneId, [Next]_vars
    PROVE  OneId'
<1> USE DEF Ones
<1>1. batches \in Seq(Seq(Samples)) /\ pressed \in BOOLEAN
    BY DEF Types, WayTypes, TabletTypes
<1>2. ASSUME NEW b \in Seq(Samples), Send(b), \A k \in DOMAIN b : b[k].id = 1
      PROVE  Only(batches', Ones)
    BY <1>1, <1>2, SentOrNot DEF OneId
<1>3. CASE \/ \E tool \in Tools : PointerDown(tool)
           \/ PointersMove \/ GestureCancelled \/ StylusHovers \/ \E i \in Ids : PointerUp(i)
    <2>1. PICK motion, tools : Motion(motion, tools) /\ Capture(motion, tools)
        BY <1>3, EveryEvent
    <2>2. \A i \in SeenOf(motion, tools) : SampleOf(motion, tools, i).id = 1
        <3>1. SeenOf(motion, tools) \subseteq Ids
            BY <2>1 DEF SeenOf, Motion
        <3> QED
            BY <3>1, OneWire DEF SampleOf
    <2>3. Only(batches', Ones)
        <3>1. PICK b \in Seq(Samples) :
                  /\ Send(b)
                  /\ \A k \in DOMAIN b : \E i \in SeenOf(motion, tools) : b[k] = SampleOf(motion, tools, i)
            BY <1>1, <2>1, CaptureSends
        <3> QED
            BY <1>2, <2>2, <3>1
    <2>4. \A i \in Ids : tracked'[i] # NoSample => tracked'[i].id = 1
        <3> SUFFICES ASSUME NEW i \in Ids, tracked'[i] # NoSample PROVE tracked'[i].id = 1
            OBVIOUS
        <3>1. tracked'[i] = tracked[i] \/ tracked'[i] = NoSample
              \/ (i \in SeenOf(motion, tools) /\ tracked'[i] = SampleOf(motion, tools, i))
            <4> DEFINE e(j) == IF j \notin SeenOf(motion, tools) THEN tracked[j]
                               ELSE IF motion[j] \in {"up", "cancel"} THEN NoSample
                               ELSE SampleOf(motion, tools, j)
            <4>1. tracked' = [j \in Ids |-> e(j)]
                BY <2>1, Captured
            <4> HIDE DEF e
            <4>2. tracked'[i] = e(i)
                BY <4>1
            <4> QED
                BY <4>2 DEF e
        <3> QED
            BY <2>2, <3>1 DEF OneId
    <2> QED
        BY <2>3, <2>4 DEF OneId
<1>4. CASE KeyDown \/ KeyUp
    <2>1. PICK held \in BOOLEAN : EmitButtonState(held)
        <3>1. TRUE \in BOOLEAN /\ FALSE \in BOOLEAN
            OBVIOUS
        <3> QED
            BY <1>4, <3>1 DEF KeyDown, KeyUp
    <2>2. PICK b \in Seq(Samples) :
              Send(b) /\ \A k \in DOMAIN b : \E i \in Ids : b[k].id = WireId(i)
        BY <2>1, KeySends
    <2>3. Only(batches', Ones)
        BY <1>2, <2>2, OneWire
    <2>4. \A i \in Ids : tracked'[i] = tracked[i] \/ tracked'[i].id = WireId(i)
        BY <2>1 DEF EmitButtonState
    <2> QED
        BY <2>3, <2>4, OneWire DEF OneId
<1>5. CASE Rotate
    <2>1. PICK b \in Seq(Samples) :
              /\ Send(b)
              /\ \A k \in DOMAIN b : \E i \in Ids : tracked[i] # NoSample /\ b[k].id = tracked[i].id
        BY <1>5, RotateSends
    <2>2. Only(batches', Ones)
        BY <1>2, <2>1 DEF OneId
    <2>3. \A i \in Ids : tracked'[i] = NoSample
        BY <1>5 DEF Rotate
    <2> QED
        BY <2>2, <2>3 DEF OneId
<1>6. CASE Adapt
    <2>1. batches # <<>> /\ batches' = Tail(batches) /\ tracked' = tracked
        BY <1>6 DEF Adapt, tablet
    <2>2. Only(batches', Ones)
        BY <1>1, <2>1, WayShrinks DEF OneId
    <2> QED
        BY <2>1, <2>2 DEF OneId
<1>7. CASE Process \/ OnOrientationChange \/ SetOrientationEpoch \/ UNCHANGED vars
    BY <1>7 DEF OneId, Process, OnOrientationChange, SetOrientationEpoch, vars, tablet
<1> QED
    BY <1>3, <1>4, <1>5, <1>6, <1>7 DEF Next, Tablet

\* The adapter continues from what is down in Windows.
LEMMA AdaptInOrder ==
    ASSUME Types, OneId, HostInOrder, Adapt
    PROVE  HostInOrder'
<1> DEFINE b == Head(batches)
<1>1. /\ frame = NoFrame /\ batches \in Seq(Seq(Samples)) /\ batches # <<>>
      /\ input' = input /\ turning' = turning /\ turning \in BOOLEAN
      /\ frame.current = FALSE /\ ~Stale
    BY AdaptDoes DEF NoFrame, Stale, Types, HostTypes
<1>2. PICK r \in Adaptations :
          /\ r = FoldLeft(AdaptSample, [contacts |-> contacts, pens |-> <<>>, touches |-> <<>>], b)
          /\ contacts' = r.contacts
          /\ frame'.pens = r.pens /\ frame'.touches = r.touches
          /\ r.pens = <<>> /\ r.touches = <<>> => frame' = NoFrame
          /\ ~ (r.pens = <<>> /\ r.touches = <<>>) =>
                 frame' # NoFrame /\ (frame'.current <=> ~turning)
    BY AdaptDoes
<1>3. contacts \in SUBSET (Tools \X {1}) /\ 1 \in WireIds
    BY Bounds DEF HostInOrder, InStep, WireIds
<1>4. b \in Ones
    BY <1>1, WayShrinks DEF OneId
<1> HIDE DEF b
<1>5. AdaptedInStep(r, contacts)
    BY <1>2, <1>3, <1>4, AdaptedChain
<1>6. /\ contacts' \subseteq Tools \X {1} /\ OneTouch(frame'.touches)
      /\ PenChain(frame'.pens, PenContact)
      /\ PenContact' <=> WasDown(frame'.pens, PenContact, Len(frame'.pens))
      /\ ~TouchContact' => TouchEnds(frame'.touches, TouchContact)
    BY <1>2, <1>5, Zenon DEF AdaptedInStep, PenContact, TouchContact
<1>7. CASE turning
    <2>1. ~input.penDown /\ input.touching = {}
        BY <1>7 DEF HostInOrder, InStep
    <2>2. ~frame'.current
        BY <1>2, <1>7 DEF NoFrame
    <2> QED
        BY <1>1, <1>6, <1>7, <2>1, <2>2 DEF HostInOrder, InStep
<1>8. CASE ~turning
    <2>1. /\ PenContact <=> input.penDown
          /\ ~TouchContact => input.touching = {}
        BY <1>1, <1>8 DEF HostInOrder, InStep
    <2>2. CASE r.pens = <<>> /\ r.touches = <<>>
        <3>1. frame' = NoFrame /\ ~frame'.current /\ ~Stale'
            BY <1>2, <2>2 DEF NoFrame, Stale
        <3>2. (PenContact' <=> input.penDown) /\ (~TouchContact' => input.touching = {})
            BY <1>2, <1>6, <2>1, <2>2 DEF WasDown, TouchEnds
        <3> QED
            BY <1>1, <1>6, <1>8, <3>1, <3>2 DEF HostInOrder, InStep
    <2>3. CASE ~ (r.pens = <<>> /\ r.touches = <<>>)
        <3>1. frame' # NoFrame /\ frame'.current /\ ~Stale'
            BY <1>2, <1>8, <2>3 DEF Stale
        <3>2. /\ PenChain(frame'.pens, input.penDown)
              /\ PenContact' <=> WasDown(frame'.pens, input.penDown, Len(frame'.pens))
            BY <1>6, <2>1 DEF PenChain, WasDown
        <3>3. ~TouchContact' => TouchEnds(frame'.touches, input.touching # {})
            BY <1>6, <2>1 DEF TouchEnds
        <3> QED
            BY <1>1, <1>6, <1>8, <3>1, <3>2, <3>3 DEF HostInOrder, InStep
    <2> QED
        BY <2>2, <2>3
<1> QED
    BY <1>7, <1>8

\* Windows follows the adapter.
LEMMA ProcessInOrder ==
    ASSUME Types, HostInOrder, Process
    PROVE  HostInOrder'
<1>1. /\ frame # NoFrame /\ frame' = NoFrame /\ contacts' = contacts /\ turning' = turning
      /\ frame' = NoFrame /\ ~frame'.current /\ frame'.touches = <<>> /\ ~Stale'
    BY DEF Process, NoFrame, Stale
<1>2. /\ frame.pens \in Seq(PenSamples) /\ frame.touches \in Seq(TouchSamples)
      /\ input \in Inputs /\ Sound(input) /\ turning \in BOOLEAN
    BY DEF Types, HostTypes, Frames, HostInOrder
<1>3. contacts \subseteq Tools \X {1} /\ OneTouch(frame.touches) /\ OneTouch(frame'.touches)
    BY <1>1 DEF HostInOrder, InStep, OneTouch
<1>4. CASE frame.current
    <2> DEFINE s == FoldLeft(ProcessPen, input, frame.pens)
               r == ProcessTouches(s, frame.touches)
    <2>1. /\ ~turning /\ PenChain(frame.pens, input.penDown)
          /\ PenContact <=> WasDown(frame.pens, input.penDown, Len(frame.pens))
          /\ ~TouchContact => TouchEnds(frame.touches, input.touching # {})
        BY <1>4 DEF HostInOrder, InStep
    <2>2. /\ s \in Inputs /\ Sound(s) /\ s.guarded = input.guarded
          /\ s.penDown <=> WasDown(frame.pens, input.penDown, Len(frame.pens))
          /\ input.touching = {} => s.touching = {}
        BY <1>2, <2>1, PensTyped, PensSound
    <2>3. input' = r
        BY <1>4 DEF Process
    <2> HIDE DEF s
    <2>4. /\ Sound(r) /\ r.penDown = s.penDown
          /\ frame.touches = <<>> => r.touching = s.touching
          /\ s.guarded /\ s.tip => r.touching = {}
          /\ frame.touches # <<>> /\ ~Tip(frame.touches[Len(frame.touches)].phase) => r.touching = {}
        BY <1>2, <1>3, <2>2, ProcessTouchesSound, ProcessTouchesSamePen DEF SamePen
    <2> HIDE DEF r
    <2>5. PenContact <=> r.penDown
        BY <2>1, <2>2, <2>4
    <2>6. ~TouchContact => r.touching = {}
        BY <2>1, <2>2, <2>4 DEF TouchEnds
    <2> QED
        BY <1>1, <1>3, <2>1, <2>3, <2>4, <2>5, <2>6
        DEF HostInOrder, InStep, PenContact, TouchContact
<1>5. CASE ~frame.current
    <2>1. /\ ~input.penDown /\ input.touching = {}
          /\ ~turning => contacts = {}
        BY <1>1, <1>5 DEF HostInOrder, InStep, Stale
    <2>2. Sound(input') /\ ~input'.penDown /\ input'.touching = {}
        <3>1. input' = ReleaseEverything(input) \/ input' = ReleaseTouches(input)
            BY <1>5 DEF Process
        <3> QED
            BY <1>2, <2>1, <3>1, ReleaseEverythingSound, ReleaseTouchesSound
    <2> QED
        BY <1>1, <1>3, <2>1, <2>2 DEF HostInOrder, InStep, PenContact, TouchContact
<1> QED
    BY <1>4, <1>5

\* A change of the orientation releases everything on both sides.
LEMMA TurnInOrder ==
    ASSUME Types, HostInOrder, OnOrientationChange \/ SetOrientationEpoch
    PROVE  HostInOrder'
<1>1. input \in Inputs /\ Sound(input) /\ turning \in BOOLEAN /\ frame \in Frames
    BY DEF Types, HostTypes, HostInOrder
<1>2. CASE OnOrientationChange
    <2>1. /\ turning' = TRUE /\ contacts' = contacts /\ input' = ReleaseEverything(input)
          /\ frame' = [frame EXCEPT !.current = FALSE]
        BY <1>2 DEF OnOrientationChange
    <2>2. Sound(input') /\ ~input'.penDown /\ input'.touching = {}
        BY <1>1, <2>1, ReleaseEverythingSound
    <2>3. frame'.current = FALSE /\ frame'.touches = frame.touches
        BY <1>1, <2>1 DEF Frames
    <2> QED
        BY <2>1, <2>2, <2>3 DEF HostInOrder, InStep
<1>3. CASE SetOrientationEpoch
    <2>1. /\ turning' = FALSE /\ contacts' = {} /\ input' = input /\ frame' = frame /\ turning
        BY <1>3 DEF SetOrientationEpoch
    <2>2. ~input.penDown /\ input.touching = {} /\ ~frame.current /\ OneTouch(frame.touches)
        BY <2>1 DEF HostInOrder, InStep
    <2> QED
        BY <1>1, <2>1, <2>2 DEF HostInOrder, InStep, PenContact, TouchContact
<1> QED
    BY <1>2, <1>3

\* At first nothing is down.
LEMMA OrderStarts == Init => OneId /\ HostInOrder
<1> SUFFICES ASSUME Init PROVE OneId /\ HostInOrder
    OBVIOUS
<1>1. /\ frame = NoFrame /\ frame.touches = <<>> /\ frame.current = FALSE /\ contacts = {}
      /\ batches = <<>> /\ turning = FALSE /\ \A i \in Ids : tracked[i] = NoSample
    BY DEF Init, NoFrame
<1>2. /\ input.mask = {} /\ input.touching = {} /\ input.suppressed = FALSE /\ input.tip = FALSE
      /\ input.penDown = FALSE /\ input.pen = FALSE
    BY DEF Init
<1>3. Sound(input)
    BY <1>2 DEF Sound
<1>4. InStep
    BY <1>1, <1>2 DEF InStep, OneTouch, PenContact, TouchContact, Stale
<1>5. OneId
    BY <1>1 DEF OneId, Only
<1> QED
    BY <1>3, <1>4, <1>5 DEF HostInOrder

\* Every step keeps the host in order.
LEMMA OrderStep ==
    ASSUME Types, OneId, HostInOrder, [Next]_vars
    PROVE  HostInOrder'
<1>1. CASE Tablet \/ UNCHANGED vars
    <2>1. UNCHANGED host
        BY <1>1 DEF Tablet, PointerDown, PointersMove, GestureCancelled, StylusHovers, PointerUp,
                    KeyDown, KeyUp, Rotate, Event, vars
    <2> QED
        BY <2>1 DEF host, HostInOrder, InStep, Sound, PenContact, TouchContact, Stale
<1> QED
    BY <1>1, AdaptInOrder, ProcessInOrder, TurnInOrder DEF Next

\* It holds always, for two pointers.
LEMMA OrderAlways ==
    ASSUME MaxPointer <= 1
    PROVE  Spec => [](OneId /\ HostInOrder)
<1>1. Types /\ (OneId /\ HostInOrder) /\ [Next]_vars => (OneId /\ HostInOrder)'
    BY OneIdKept, OrderStep
<1> QED
    BY TypesAlways, OrderStarts, <1>1, PTL DEF Spec

\* While the pen draws no finger is down in Windows (PalmGuard, InputSystem::Process),
\* in whatever order the fingers came and whatever a rotation has reset, for two
\* pointers and any numbers of events, presses, rotations and batches.
THEOREM PalmSafety ==
    ASSUME MaxPointer <= 1
    PROVE  Spec => []PalmRejected
<1>1. HostInOrder => PalmRejected
    BY DEF HostInOrder, Sound, PalmRejected
<1> QED
    BY OrderAlways, <1>1, PTL

\* The host's records agree with Windows: touchActiveMask_ covers what is down, a
\* suppressed touch is lifted, the adapter knows whether the pen is down, and the
\* key is released; for two pointers and any numbers of the rest.
THEOREM AgreementSafety ==
    ASSUME MaxPointer <= 1
    PROVE  Spec => []PathAgrees
<1>1. HostInOrder => MaskCovers /\ SuppressedMeansLifted
    BY DEF HostInOrder, Sound, MaskCovers, SuppressedMeansLifted
<1>2. HostInOrder => PenAgrees
    <2> SUFFICES ASSUME HostInOrder, frame = NoFrame, ~turning
                 PROVE  input.penDown <=> \E key \in contacts : key[1] = "pen"
        BY DEF PenAgrees
    <2>1. contacts \subseteq Tools \X {1} /\ (PenContact <=> input.penDown)
        BY DEF HostInOrder, InStep
    <2>2. (\E key \in contacts : key[1] = "pen") <=> <<"pen", 1>> \in contacts
        <3>1. \A key \in contacts : key[1] = "pen" => key = <<"pen", 1>>
            BY <2>1
        <3> QED
            BY <3>1
    <2> QED
        BY <2>1, <2>2 DEF PenContact
<1>3. HostInOrder /\ KeyReleased => PathAgrees
    BY <1>1, <1>2 DEF PathAgrees
<1> QED
    BY OrderAlways, KeySafety, <1>3, PTL

-----------------------------------------------------------------------------
(* Nothing stays stuck.  When no finger is on the glass, or the tablet hides  *)
(* them from the host because the stylus draws, the last batch on its way     *)
(* that says something of touches lifts them; when the stylus is gone, the    *)
(* last batch with a pen sample lifts the pen.                                *)

\* Batches that lift the pen, and a frame that does.
PenUps == {b \in Seq(Samples) :
              /\ \E k \in DOMAIN b : b[k].tool = "pen"
              /\ \A k \in DOMAIN b : b[k].tool = "pen" => ~Tip(b[k].action)}
PenUpFrame ==
    /\ \A k \in DOMAIN frame.pens : ~Tip(frame.pens[k].phase)
    /\ frame.pens = <<>> => ~input.penDown

\* The invariant of the pen.
PenUpOnItsWay ==
    left.presses = MaxPresses =>
        /\ ~button
        /\ Pens = {} => \/ Sometime(batches, PenUps, Penless)
                        \/ Only(batches, Penless) /\ PenUpFrame

\* A batch that holds no finger down; and one that lifts all fingers, by its own
\* touches or because the pen comes down.
Quiet == {b \in Seq(Samples) : \A k \in DOMAIN b : b[k].tool = "touch" => ~Tip(b[k].action)}
PenDowns == {b \in Seq(Samples) :
                /\ \E k \in DOMAIN b : b[k].tool = "pen"
                /\ \A k \in DOMAIN b : b[k].tool = "pen" => Tip(b[k].action)}
Lifts == {b \in Quiet : \E k \in DOMAIN b : b[k].tool = "touch"}
Clearing == PenDowns \cup Lifts
\* A frame that leaves no finger down.
ClearFrame ==
    \/ Stale
    \/ frame.pens # <<>> /\ \A k \in DOMAIN frame.pens : Tip(frame.pens[k].phase)
    \/ /\ \A k \in DOMAIN frame.touches : ~Tip(frame.touches[k].phase)
       /\ frame.touches = <<>> => input.touching = {}

\* The invariant of the fingers.
LiftOnItsWay ==
    /\ tipping => Pens # {}
    /\ input.guarded /\ (Fingers = {} \/ tipping) =>
           \/ Sometime(batches, Clearing, Quiet)
           \/ Only(batches, Quiet) /\ ClearFrame

\* The pointers of a motion are those on the glass, and none that is down in it
\* has left the glass.
OfGlass(motion, tools) ==
    /\ Pens \subseteq PensOf(motion, tools)
    /\ Fingers \subseteq {i \in DOMAIN motion : tools[i] = "touch"}
    /\ Pens' = {} => \A p \in PensOf(motion, tools) : ~Tip(motion[p])
    /\ Fingers' = {} => \A i \in DOMAIN motion : tools[i] = "touch" => ~Tip(motion[i])

\* So are all events of the glass.
LEMMA EveryEventOfGlass ==
    ASSUME Types, (\E tool \in Tools : PointerDown(tool)) \/ PointersMove \/ GestureCancelled
                  \/ StylusHovers \/ \E i \in Ids : PointerUp(i)
    PROVE  \E motion, tools : Motion(motion, tools) /\ Capture(motion, tools) /\ OfGlass(motion, tools)
<1>0. /\ glass \in [Ids -> Tools \cup {Nothing}] /\ OnGlass \subseteq Ids
      /\ \A i, j \in Ids : glass[i] = "pen" /\ glass[j] = "pen" => i = j
      /\ Pens \subseteq OnGlass /\ Fingers \subseteq OnGlass
    BY DEF Types, TabletTypes, OnePen, OnGlass, Pens, Fingers, Nothing
<1>1. ASSUME NEW tool \in Tools, PointerDown(tool)
      PROVE  \E motion, tools : Motion(motion, tools) /\ Capture(motion, tools) /\ OfGlass(motion, tools)
    <2>1. PICK i \in Ids \ OnGlass :
              /\ tool = "pen" => \A j \in Ids : glass[j] # "pen"
              /\ glass' = [glass EXCEPT ![i] = tool]
              /\ Capture([j \in OnGlass \cup {i} |-> IF j = i THEN "down" ELSE "move"], glass')
        BY <1>1 DEF PointerDown
    <2> DEFINE m == [j \in OnGlass \cup {i} |-> IF j = i THEN "down" ELSE "move"]
    <2>2. Motion(m, glass')
        BY <2>1, Motions
    <2>3. DOMAIN m = OnGlass \cup {i}
        OBVIOUS
    <2>4. \A j \in Ids : glass'[j] = IF j = i THEN tool ELSE glass[j]
        BY <1>0, <2>1
    <2>5. Pens' = {j \in Ids : glass'[j] = "pen"} /\ Fingers' = {j \in Ids : glass'[j] = "touch"}
        BY DEF Pens, Fingers, Ids
    <2> HIDE DEF m
    <2>6. OfGlass(m, glass')
        BY <1>0, <2>1, <2>3, <2>4, <2>5 DEF OfGlass, PensOf, Pens, Fingers
    <2> QED
        BY <2>1, <2>2, <2>6 DEF m
<1>2. ASSUME NEW i \in Ids, PointerUp(i)
      PROVE  \E motion, tools : Motion(motion, tools) /\ Capture(motion, tools) /\ OfGlass(motion, tools)
    <2> DEFINE m == [j \in OnGlass |-> IF j = i THEN "up" ELSE "move"]
    <2>1. i \in OnGlass /\ glass' = [glass EXCEPT ![i] = Nothing] /\ Capture(m, glass)
        BY <1>2 DEF PointerUp
    <2>2. Motion(m, glass)
        BY <2>1, Motions
    <2>3. DOMAIN m = OnGlass /\ \A j \in OnGlass : m[j] = IF j = i THEN "up" ELSE "move"
        OBVIOUS
    <2>4. \A j \in Ids : glass'[j] = IF j = i THEN Nothing ELSE glass[j]
        BY <1>0, <2>1
    <2>5. Pens' = {j \in Ids : glass'[j] = "pen"} /\ Fingers' = {j \in Ids : glass'[j] = "touch"}
        BY DEF Pens, Fingers, Ids
    <2> HIDE DEF m
    <2>6. OfGlass(m, glass)
        <3>1. Pens \subseteq PensOf(m, glass) /\ Fingers \subseteq {j \in DOMAIN m : glass[j] = "touch"}
            BY <1>0, <2>3 DEF PensOf, Pens, Fingers
        <3>2. ASSUME Pens' = {}, NEW p \in PensOf(m, glass) PROVE ~Tip(m[p])
            <4>1. p \in Ids /\ p \in OnGlass /\ glass[p] = "pen" /\ glass'[p] # "pen"
                BY <1>0, <2>3, <2>5, <3>2 DEF PensOf
            <4>2. p = i
                BY <2>4, <4>1
            <4> QED
                BY <2>3, <4>1, <4>2 DEF Tip
        <3>3. ASSUME Fingers' = {}, NEW j \in DOMAIN m, glass[j] = "touch" PROVE ~Tip(m[j])
            <4>1. j \in Ids /\ j \in OnGlass /\ glass'[j] # "touch"
                BY <1>0, <2>3, <2>5, <3>3
            <4>2. j = i
                BY <2>4, <3>3, <4>1
            <4> QED
                BY <2>3, <4>1, <4>2 DEF Tip
        <3> QED
            BY <3>1, <3>2, <3>3 DEF OfGlass
    <2> QED
        BY <2>1, <2>2, <2>6 DEF m
<1>3. CASE PointersMove
    <2> DEFINE m == [j \in OnGlass |-> "move"]
    <2>1. Capture(m, glass) /\ glass' = glass /\ Motion(m, glass)
        BY <1>3, Motions DEF PointersMove
    <2>2. DOMAIN m = OnGlass /\ Pens' = Pens /\ Fingers' = Fingers
        BY <2>1 DEF Pens, Fingers, Ids
    <2> HIDE DEF m
    <2>3. OfGlass(m, glass)
        BY <1>0, <2>2 DEF OfGlass, PensOf, Pens, Fingers
    <2> QED
        BY <2>1, <2>3
<1>4. CASE GestureCancelled
    <2> DEFINE m == [j \in OnGlass |-> "cancel"]
    <2>1. Capture(m, glass) /\ Motion(m, glass)
        BY <1>4, Motions DEF GestureCancelled
    <2>2. DOMAIN m = OnGlass /\ \A j \in OnGlass : m[j] = "cancel"
        OBVIOUS
    <2> HIDE DEF m
    <2>3. OfGlass(m, glass)
        BY <1>0, <2>2 DEF OfGlass, PensOf, Pens, Fingers, Tip
    <2> QED
        BY <2>1, <2>3
<1>5. CASE StylusHovers
    <2> DEFINE m == [j \in {0} |-> "hover"]
               t == [j \in {0} |-> "pen"]
    <2>1. Capture(m, t) /\ Motion(m, t) /\ OnGlass = {}
        BY <1>5, Motions DEF StylusHovers
    <2>2. DOMAIN m = {0} /\ m[0] = "hover" /\ t[0] = "pen"
        OBVIOUS
    <2> HIDE DEF m, t
    <2>3. OfGlass(m, t)
        BY <1>0, <2>1, <2>2 DEF OfGlass, PensOf, Tip
    <2> QED
        BY <2>1, <2>3
<1> QED
    BY <1>1, <1>2, <1>3, <1>4, <1>5

\* The stylus: an event that has it leave the glass says so.
LEMMA EventLiftsPen ==
    ASSUME Types, PenUpOnItsWay, Event, UNCHANGED <<button, pressed>>, NEW motion, NEW tools,
           Motion(motion, tools), Capture(motion, tools), OfGlass(motion, tools)
    PROVE  PenUpOnItsWay'
<1>1. left'.presses = left.presses /\ UNCHANGED <<frame, input, button>>
    <2>1. left \in Left /\ left.events > 0 /\ left' = [left EXCEPT !.events = @ - 1]
        BY DEF Types, WayTypes, Event
    <2> QED
        BY <2>1 DEF Event, host, Left
<1> SUFFICES ASSUME left.presses = MaxPresses, Pens' = {}
             PROVE  Sometime(batches, PenUps, Penless)' \/ (Only(batches, Penless)' /\ PenUpFrame')
    BY <1>1 DEF PenUpOnItsWay
<1>2. pressed \in BOOLEAN /\ batches \in Seq(Seq(Samples))
    BY DEF Types, TabletTypes, WayTypes
<1>3. PICK b \in Seq(Samples) :
          /\ Send(b)
          /\ \A k \in DOMAIN b : \E i \in SeenOf(motion, tools) : b[k] = SampleOf(motion, tools, i)
          /\ \A i \in SeenOf(motion, tools) : \E k \in DOMAIN b : b[k] = SampleOf(motion, tools, i)
    BY <1>2, CaptureSends
<1>4. \A i : /\ SampleOf(motion, tools, i).tool = tools[i]
             /\ SampleOf(motion, tools, i).action = motion[i]
    BY DEF SampleOf
<1>5. /\ \A i \in SeenOf(motion, tools) : tools[i] = "pen" => i \in PensOf(motion, tools)
      /\ \A i \in PensOf(motion, tools) : i \in SeenOf(motion, tools) /\ tools[i] = "pen"
    BY DEF SeenOf, PensOf
<1>6. CASE PensOf(motion, tools) = {}
    <2>1. b \in Penless
        BY <1>3, <1>4, <1>5, <1>6 DEF Penless
    <2>2. Pens = {}
        BY <1>6 DEF OfGlass
    <2>3. Sometime(batches, PenUps, Penless) \/ (Only(batches, Penless) /\ PenUpFrame)
        BY <2>2 DEF PenUpOnItsWay
    <2>4. /\ Sometime(batches, PenUps, Penless) => Sometime(batches', PenUps, Penless)
          /\ Only(batches, Penless) => Only(batches', Penless)
        BY <1>2, <1>3, <2>1, SentOrNot
    <2> QED
        BY <1>1, <2>3, <2>4 DEF PenUpFrame, Sometime, Only, PenUps, Penless, Samples, WireIds
<1>7. CASE PensOf(motion, tools) # {}
    <2>1. \A p \in PensOf(motion, tools) : ~Tip(motion[p])
        BY DEF OfGlass
    <2>2. \E k \in DOMAIN b : b[k].tool = "pen"
        BY <1>3, <1>4, <1>5, <1>7
    <2>3. \A k \in DOMAIN b : b[k].tool = "pen" => ~Tip(b[k].action)
        BY <1>3, <1>4, <1>5, <2>1
    <2>4. b \in PenUps /\ b # <<>>
        BY <2>2, <2>3 DEF PenUps
    <2>5. Sometime(batches', PenUps, Penless)
        BY <1>2, <1>3, <2>4, SentOrNot
    <2> QED
        BY <2>5 DEF Sometime, PenUps, Penless, Samples, WireIds
<1> QED
    BY <1>6, <1>7

\* The fingers: what an event hides or lifts is lifted by what is sent.
LEMMA EventLiftsTouches ==
    ASSUME Types, LiftOnItsWay, Event, NEW motion, NEW tools,
           Motion(motion, tools), Capture(motion, tools), OfGlass(motion, tools)
    PROVE  LiftOnItsWay'
<1> DEFINE pens == PensOf(motion, tools)
           seen == SeenOf(motion, tools)
<1>1. UNCHANGED <<frame, input>>
    BY DEF Event, host
<1>2. pressed \in BOOLEAN /\ batches \in Seq(Seq(Samples)) /\ tipping \in BOOLEAN
    BY DEF Types, TabletTypes, WayTypes
<1>3. PICK b \in Seq(Samples) :
          /\ Send(b)
          /\ \A k \in DOMAIN b : \E i \in seen : b[k] = SampleOf(motion, tools, i)
          /\ \A i \in seen : \E k \in DOMAIN b : b[k] = SampleOf(motion, tools, i)
    BY <1>2, CaptureSends
<1>4. \A i : /\ SampleOf(motion, tools, i).tool = tools[i]
             /\ SampleOf(motion, tools, i).action = motion[i]
    BY DEF SampleOf
<1>5. tipping' = IF pens = {} THEN tipping ELSE \E p \in pens : Tip(motion[p])
    BY Captured DEF Tipped
<1>6. /\ seen \subseteq DOMAIN motion /\ pens \subseteq seen
      /\ \A i \in DOMAIN motion : i \in pens <=> tools[i] = "pen"
      /\ \A p, q \in pens : p = q
      /\ \A i \in seen : tools[i] = "pen" \/ tools[i] = "touch"
    BY DEF SeenOf, PensOf, Motion, Tools
<1>7. ASSUME NEW i \in DOMAIN motion, tools[i] = "touch", i \notin seen
      PROVE  (\E p \in pens : Tip(motion[p])) \/ tipping
    <2>1. Tipped({p \in pens : p < i}, motion)
        BY <1>7 DEF SeenOf
    <2> QED
        BY <2>1 DEF Tipped
<1>8. ASSUME NEW i \in seen, tools[i] = "touch", tipping
      PROVE  \E p \in pens : ~Tip(motion[p])
    <2>1. ~Tipped({p \in pens : p < i}, motion)
        BY <1>8 DEF SeenOf
    <2> QED
        BY <1>8, <2>1 DEF Tipped
<1> HIDE DEF pens, seen
<1>9. tipping' => Pens' # {}
    <2>1. CASE pens = {}
        BY <1>5, <2>1 DEF OfGlass, LiftOnItsWay, pens
    <2>2. CASE pens # {}
        BY <1>5, <2>2 DEF OfGlass, pens
    <2> QED
        BY <2>1, <2>2
<1>10. ASSUME input.guarded, (Fingers = {} \/ tipping), b = <<>> \/ b \in Quiet
       PROVE  Sometime(batches', Clearing, Quiet) \/ (Only(batches', Quiet) /\ ClearFrame)
    <2>1. Sometime(batches, Clearing, Quiet) \/ (Only(batches, Quiet) /\ ClearFrame)
        BY <1>10 DEF LiftOnItsWay
    <2> QED
        BY <1>2, <1>3, <1>10, <2>1, SentOrNot
<1>11. ASSUME b \in Clearing
       PROVE  Sometime(batches', Clearing, Quiet)
    <2>1. b # <<>>
        BY <1>11 DEF Clearing, PenDowns, Lifts
    <2> QED
        BY <1>2, <1>3, <1>11, <2>1, SentOrNot
<1>12. ASSUME input.guarded, Fingers' = {} \/ tipping'
       PROVE  Sometime(batches', Clearing, Quiet) \/ (Only(batches', Quiet) /\ ClearFrame)
    <2>1. CASE tipping' /\ pens # {}
        <3>1. \A p \in pens : Tip(motion[p])
            BY <1>5, <1>6, <2>1
        <3>2. \A k \in DOMAIN b : b[k].tool = "pen" => Tip(b[k].action)
            BY <1>3, <1>4, <1>6, <3>1
        <3>3. \E k \in DOMAIN b : b[k].tool = "pen"
            BY <1>3, <1>4, <1>6, <2>1
        <3>4. b \in Clearing
            BY <3>2, <3>3 DEF Clearing, PenDowns
        <3> QED
            BY <1>11, <3>4
    <2>2. CASE tipping' /\ pens = {}
        <3>1. tipping
            BY <1>5, <2>2
        <3>2. \A i \in seen : FALSE
            BY <1>6, <1>8, <2>2, <3>1
        <3>3. b = <<>>
            <4>1. \A k \in DOMAIN b : FALSE
                BY <1>3, <3>2
            <4> QED
                BY <4>1, NoneIn
        <3> QED
            BY <1>10, <1>12, <3>1, <3>3
    <2>3. CASE ~tipping'
        <3>1. Fingers' = {}
            BY <1>12, <2>3
        <3>2. \A i \in DOMAIN motion : tools[i] = "touch" => ~Tip(motion[i])
            BY <3>1 DEF OfGlass
        <3>3. \A k \in DOMAIN b : b[k].tool = "touch" => ~Tip(b[k].action)
            BY <1>3, <1>4, <1>6, <3>2
        <3>4. b \in Quiet
            BY <3>3 DEF Quiet
        <3>5. CASE \E i \in seen : tools[i] = "touch"
            <4>1. \E k \in DOMAIN b : b[k].tool = "touch"
                BY <1>3, <1>4, <3>5
            <4>2. b \in Clearing
                BY <3>4, <4>1 DEF Clearing, Lifts
            <4> QED
                BY <1>11, <4>2
        <3>6. CASE \A i \in seen : tools[i] # "touch"
            <4>1. CASE \E i \in DOMAIN motion : tools[i] = "touch"
                <5>1. PICK i \in DOMAIN motion : tools[i] = "touch"
                    BY <4>1
                <5>2. tipping
                    BY <1>5, <1>7, <2>3, <3>6, <5>1
                <5> QED
                    BY <1>10, <1>12, <3>4, <5>2
            <4>2. CASE \A i \in DOMAIN motion : tools[i] # "touch"
                <5>1. Fingers = {}
                    BY <4>2 DEF OfGlass
                <5> QED
                    BY <1>10, <1>12, <3>4, <5>1
            <4> QED
                BY <4>1, <4>2
        <3> QED
            BY <3>5, <3>6
    <2> QED
        BY <1>2, <2>1, <2>2, <2>3
<1>13. (input.guarded /\ (Fingers = {} \/ tipping))' =>
           Sometime(batches', Clearing, Quiet) \/ (Only(batches', Quiet) /\ ClearFrame')
    BY <1>1, <1>12 DEF ClearFrame, Stale
<1> QED
    BY <1>9, <1>13 DEF LiftOnItsWay, Sometime, Only, Clearing, Quiet, PenDowns, Lifts, Samples, WireIds

\* The button and the rotation.
LEMMA OthersLift ==
    ASSUME Types, PenUpOnItsWay, LiftOnItsWay, KeyDown \/ KeyUp \/ Rotate
    PROVE  PenUpOnItsWay' /\ LiftOnItsWay'
<1> USE DEF Samples, WireIds
<1>1. batches \in Seq(Seq(Samples)) /\ left \in Left
    BY DEF Types, WayTypes
<1>2. UNCHANGED <<glass, frame, input>> /\ (tipping' => tipping)
    <2>1. UNCHANGED <<glass, frame, input>>
        BY DEF KeyDown, KeyUp, Rotate, host
    <2>2. tipping' => tipping
        <3>1. KeyDown \/ KeyUp => tipping' = tipping
            BY Zenon DEF KeyDown, KeyUp
        <3>2. Rotate => ~tipping'
            BY Zenon DEF Rotate
        <3> QED
            BY <3>1, <3>2
    <2> QED
        BY <2>1, <2>2
<1>3. Pens' = Pens /\ Fingers' = Fingers
    BY <1>2 DEF Pens, Fingers, Ids
<1>4. PICK b \in Seq(Samples) :
          /\ Send(b)
          /\ \A k \in DOMAIN b : b[k].tool = "pen" \/ b[k].action = "cancel"
          /\ Rotate => \A k \in DOMAIN b : b[k].action = "cancel"
    <2>1. CASE Rotate
        BY <2>1, RotateSends
    <2>2. CASE ~Rotate
        <3>1. PICK held \in BOOLEAN : EmitButtonState(held)
            <4>1. TRUE \in BOOLEAN /\ FALSE \in BOOLEAN
                OBVIOUS
            <4> QED
                BY <2>2, <4>1 DEF KeyDown, KeyUp
        <3> QED
            BY <2>2, <3>1, KeySends
    <2> QED
        BY <2>1, <2>2
<1>5. b \in Quiet
    BY <1>4 DEF Quiet, Tip, Samples, Tools
<1>6. LiftOnItsWay'
    <2>1. /\ Sometime(batches, Clearing, Quiet) => Sometime(batches', Clearing, Quiet)
          /\ Only(batches, Quiet) => Only(batches', Quiet)
        BY <1>1, <1>4, <1>5, SentOrNot
    <2>2. ClearFrame => ClearFrame'
        BY <1>2 DEF ClearFrame, Stale
    <2>3. input'.guarded /\ (Fingers' = {} \/ tipping') =>
              Sometime(batches', Clearing, Quiet) \/ (Only(batches', Quiet) /\ ClearFrame')
        BY <1>2, <1>3, <2>1, <2>2 DEF LiftOnItsWay
    <2>4. tipping' => Pens' # {}
        BY <1>2, <1>3 DEF LiftOnItsWay
    <2> QED
        BY <2>3, <2>4 DEF LiftOnItsWay, Sometime, Only, Clearing, Quiet, PenDowns, Lifts
<1>7. PenUpOnItsWay'
    <2>1. CASE KeyDown
        <3>1. left'.presses # MaxPresses
            BY <1>1, <2>1, Bounds DEF KeyDown, Left
        <3> QED
            BY <3>1 DEF PenUpOnItsWay
    <2>2. CASE KeyUp
        <3>1. button /\ left' = left
            BY <2>2 DEF KeyUp
        <3> QED
            BY <3>1 DEF PenUpOnItsWay
    <2>3. CASE Rotate
        <3>1. left'.presses = left.presses /\ button' = button
            BY <1>1, <2>3 DEF Rotate, Left
        <3>2. \A k \in DOMAIN b : ~Tip(b[k].action)
            BY <1>4, <2>3 DEF Tip
        <3>3. b = <<>> \/ (b \in PenUps /\ b # <<>>) \/ b \in Penless
            BY <3>2 DEF PenUps, Penless
        <3>4. /\ Sometime(batches, PenUps, Penless) => Sometime(batches', PenUps, Penless)
              /\ Only(batches, Penless) => Sometime(batches', PenUps, Penless) \/ Only(batches', Penless)
            BY <1>1, <1>4, <3>3, SentOrNot
        <3> QED
            BY <1>2, <1>3, <3>1, <3>4 DEF PenUpOnItsWay, PenUpFrame, Sometime, Only, PenUps, Penless
    <2> QED
        BY <2>1, <2>2, <2>3
<1> QED
    BY <1>6, <1>7

\* A batch with a touch that holds none leaves no contact.
LEMMA LiftsLeaveNone ==
    ASSUME NEW held \in SUBSET (Tools \X WireIds), NEW b \in Lifts, b \in Ones
    PROVE  LET r == FoldLeft(AdaptSample, [contacts |-> held, pens |-> <<>>, touches |-> <<>>], b)
           IN  <<"touch", 1>> \notin r.contacts
<1> DEFINE a0 == [contacts |-> held, pens |-> <<>>, touches |-> <<>>]
           key == <<"touch", 1>>
           I == {x \in Nat \X Adaptations :
                    (\E l \in 1..x[1] : b[l].tool = "touch") => key \notin x[2].contacts}
           r == FoldLeft(AdaptSample, a0, b)
<1>1. a0 \in Adaptations
    BY DEF Adaptations
<1> HIDE DEF a0
<1>2. <<0, a0>> \in I
    BY <1>1
<1>3. /\ b \in Seq(Samples) /\ \A k \in DOMAIN b : b[k].id = 1
      /\ \A k \in DOMAIN b : b[k].tool = "touch" => ~Tip(b[k].action)
      /\ \E k \in DOMAIN b : b[k].tool = "touch"
    BY DEF Ones, Lifts, Quiet
<1>4. ASSUME NEW k \in 1..Len(b), NEW v \in Adaptations, <<k - 1, v>> \in I
      PROVE  <<k, AdaptSample(v, b[k])>> \in I
    <2> DEFINE s == b[k]
               u == AdaptSample(v, s)
    <2>1. s \in Samples /\ k \in Nat /\ s.id = 1 /\ (s.tool = "touch" => ~Tip(s.action))
        BY <1>3
    <2>2. u \in Adaptations
        BY <2>1, AdaptSampleTyped
    <2>3. u.contacts = IF Tip(s.action) THEN v.contacts \cup {<<s.tool, s.id>>}
                       ELSE v.contacts \ {<<s.tool, s.id>>}
        BY <2>1, AdaptSampleDoes
    <2>4. (\E l \in 1..(k - 1) : b[l].tool = "touch") => key \notin v.contacts
        BY <1>4
    <2>5. \A l \in 1..k : l \in 1..(k - 1) \/ l = k
        BY <2>1
    <2> HIDE DEF u
    <2>6. (\E l \in 1..k : b[l].tool = "touch") => key \notin u.contacts
        <3>1. CASE s.tool = "touch"
            BY <2>1, <2>3, <3>1
        <3>2. CASE s.tool # "touch"
            BY <2>3, <2>4, <2>5, <3>2
        <3> QED
            BY <3>1, <3>2
    <2> QED
        BY <2>1, <2>2, <2>6 DEF u
<1>5. \A v \in Adaptations : \A x \in Samples : AdaptSample(v, x) \in Adaptations
    BY AdaptSampleTyped
<1> HIDE DEF I
<1>6. <<Len(b), r>> \in I
    BY <1>1, <1>2, <1>3, <1>4, <1>5, AdaptLoop
<1> HIDE DEF r
<1>7. (\E l \in 1..Len(b) : b[l].tool = "touch") => key \notin r.contacts
    BY <1>6 DEF I
<1>8. \E l \in 1..Len(b) : b[l].tool = "touch"
    BY <1>3
<1> QED
    BY <1>7, <1>8 DEF r, a0

\* The adapter: the frame takes the place of the batch.
LEMMA AdaptLifts ==
    ASSUME Types, OneId, HostInOrder, HostInOrder', PenUpOnItsWay, LiftOnItsWay, Adapt
    PROVE  PenUpOnItsWay' /\ LiftOnItsWay'
<1> DEFINE b == Head(batches)
<1>1. /\ frame = NoFrame /\ batches \in Seq(Seq(Samples)) /\ batches # <<>>
      /\ b \in Seq(Samples) /\ batches' = Tail(batches)
      /\ UNCHANGED <<tablet, turns, turning, input, left>>
    BY AdaptDoes
<1>2. PICK r \in Adaptations :
          /\ r = FoldLeft(AdaptSample, [contacts |-> contacts, pens |-> <<>>, touches |-> <<>>], b)
          /\ PensFrom(r.pens, b, Len(b)) /\ TouchesFrom(r.touches, b, Len(b))
          /\ contacts' = r.contacts /\ frame'.pens = r.pens /\ frame'.touches = r.touches
          /\ r.pens = <<>> /\ r.touches = <<>> => frame' = NoFrame
    BY AdaptDoes
<1>3. b \in Ones
    BY <1>1, WayShrinks DEF OneId
<1>4. ASSUME NEW C, NEW Q
      PROVE  /\ Sometime(batches, C, Q) => Sometime(batches', C, Q) \/ (b \in C /\ Only(batches', Q))
             /\ Only(batches, Q) => b \in Q /\ Only(batches', Q)
    BY <1>1, WayShrinks
<1> HIDE DEF b
<1>5. /\ UNCHANGED <<glass, button, tipping>> /\ NoFrame.pens = <<>> /\ NoFrame.touches = <<>>
      /\ Pens' = Pens /\ Fingers' = Fingers
    BY <1>1 DEF tablet, NoFrame, Pens, Fingers, Ids
<1>6. /\ \A l \in 1..Len(b) : l \in DOMAIN b
      /\ \A l \in DOMAIN b : l \in 1..Len(b)
    BY <1>1
<1>7. PenUpOnItsWay'
    <2> SUFFICES ASSUME left.presses = MaxPresses, Pens = {}
                 PROVE  Sometime(batches', PenUps, Penless) \/ (Only(batches', Penless) /\ PenUpFrame')
        BY <1>1, <1>5 DEF PenUpOnItsWay, Sometime, Only, PenUps, Penless, Samples, WireIds
    <2>1. ASSUME b \in PenUps PROVE PenUpFrame'
        BY <1>2, <1>6, <2>1 DEF PenUps, PenUpFrame, PensFrom
    <2>2. ASSUME b \in Penless, PenUpFrame PROVE PenUpFrame'
        <3>1. \A m \in DOMAIN r.pens : FALSE
            BY <1>2, <1>6, <2>2 DEF PensFrom, Penless
        <3> QED
            BY <1>1, <1>2, <1>5, <2>2, <3>1 DEF PenUpFrame
    <2>3. Sometime(batches, PenUps, Penless) \/ (Only(batches, Penless) /\ PenUpFrame)
        BY DEF PenUpOnItsWay
    <2> QED
        BY <1>4, <2>1, <2>2, <2>3
<1>8. LiftOnItsWay'
    <2>1. ASSUME b \in PenDowns PROVE ClearFrame'
        BY <1>2, <1>6, <2>1 DEF PenDowns, ClearFrame, PensFrom
    <2>2. ASSUME b \in Quiet PROVE \A k \in DOMAIN frame'.touches : ~Tip(frame'.touches[k].phase)
        BY <1>2, <1>6, <2>2 DEF Quiet, TouchesFrom
    <2>3. ASSUME b \in Lifts PROVE ClearFrame'
        <3>1. ~TouchContact'
            <4>1. contacts \in SUBSET (Tools \X WireIds)
                BY DEF Types, HostTypes
            <4> QED
                BY <1>2, <1>3, <2>3, <4>1, LiftsLeaveNone DEF TouchContact
        <3>2. frame'.touches = <<>> => input'.touching = {}
            <4>1. contacts \in SUBSET (Tools \X {1}) /\ 1 \in WireIds
                BY Bounds DEF HostInOrder, InStep, WireIds
            <4>2. AdaptedInStep(r, contacts)
                BY <1>2, <1>3, <4>1, AdaptedChain
            <4>3. TouchEnds(frame'.touches, TouchContact)
                BY <1>2, <3>1, <4>2 DEF AdaptedInStep, TouchContact
            <4>4. ~TouchContact => input.touching = {}
                BY <1>1 DEF HostInOrder, InStep
            <4> QED
                BY <1>1, <4>3, <4>4 DEF TouchEnds
        <3>3. b \in Quiet
            BY <2>3 DEF Lifts
        <3> QED
            BY <2>2, <3>2, <3>3 DEF ClearFrame
    <2>4. ASSUME b \in Quiet, ClearFrame PROVE ClearFrame'
        <3>1. input'.touching = {}
            BY <1>1, <1>5, <2>4 DEF ClearFrame, Stale
        <3> QED
            BY <2>2, <2>4, <3>1 DEF ClearFrame
    <2>5. ASSUME input.guarded, Fingers = {} \/ tipping
          PROVE  Sometime(batches', Clearing, Quiet) \/ (Only(batches', Quiet) /\ ClearFrame')
        <3>1. Sometime(batches, Clearing, Quiet) \/ (Only(batches, Quiet) /\ ClearFrame)
            BY <2>5 DEF LiftOnItsWay
        <3>2. b \in Clearing => ClearFrame'
            BY <2>1, <2>3 DEF Clearing
        <3> QED
            BY <1>4, <2>4, <3>1, <3>2
    <2>6. input'.guarded /\ (Fingers' = {} \/ tipping') =>
              Sometime(batches', Clearing, Quiet) \/ (Only(batches', Quiet) /\ ClearFrame')
        BY <1>1, <1>5, <2>5
    <2>7. tipping' => Pens' # {}
        BY <1>5 DEF LiftOnItsWay
    <2> QED
        BY <2>6, <2>7
        DEF LiftOnItsWay, Sometime, Only, Clearing, Quiet, PenDowns, Lifts, Samples, WireIds
<1> QED
    BY <1>7, <1>8

\* The guard does not change, the pen ends where the frame has it, and a frame
\* that clears leaves no finger.
LEMMA ProcessClears ==
    ASSUME Types, HostInOrder, HostInOrder', Process
    PROVE  /\ input'.guarded = input.guarded
           /\ PenUpFrame => ~input'.penDown
           /\ input.guarded /\ ClearFrame => input'.touching = {}
<1>1. /\ frame # NoFrame /\ frame' = NoFrame /\ contacts' = contacts /\ turning' = turning
    BY DEF Process
<1>2. /\ frame.pens \in Seq(PenSamples) /\ frame.touches \in Seq(TouchSamples)
      /\ input \in Inputs /\ Sound(input) /\ turning \in BOOLEAN /\ OneTouch(frame.touches)
    BY DEF Types, HostTypes, Frames, HostInOrder, InStep
<1> DEFINE n == Len(frame.pens)
<1>3. n \in Nat /\ DOMAIN frame.pens = 1..n /\ (frame.pens # <<>> => n # 0 /\ n \in DOMAIN frame.pens)
      /\ (frame.pens = <<>> => n = 0)
    BY <1>2
<1>4. CASE frame.current
    <2> DEFINE s == FoldLeft(ProcessPen, input, frame.pens)
               r == ProcessTouches(s, frame.touches)
               m == Len(frame.touches)
    <2>1. ~turning /\ PenChain(frame.pens, input.penDown)
        BY <1>4 DEF HostInOrder, InStep
    <2>2. /\ s \in Inputs /\ Sound(s) /\ s.guarded = input.guarded
          /\ s.penDown <=> WasDown(frame.pens, input.penDown, n)
          /\ input.touching = {} => s.touching = {}
        BY <1>2, <2>1, PensTyped, PensSound
    <2>3. input' = r
        BY <1>4 DEF Process
    <2> HIDE DEF s
    <2>4. /\ r.penDown = s.penDown /\ r.guarded = s.guarded
          /\ frame.touches = <<>> => r.touching = s.touching
          /\ s.guarded /\ s.tip => r.touching = {}
          /\ frame.touches # <<>> /\ ~Tip(frame.touches[m].phase) => r.touching = {}
        BY <1>2, <2>2, ProcessTouchesSound, ProcessTouchesSamePen DEF SamePen
    <2> HIDE DEF r
    <2>5. PenUpFrame => ~r.penDown
        BY <1>3, <2>2, <2>4 DEF PenUpFrame, WasDown
    <2>6. ASSUME input.guarded, ClearFrame PROVE r.touching = {}
        <3>1. CASE frame.pens # <<>> /\ \A k \in DOMAIN frame.pens : Tip(frame.pens[k].phase)
            <4>1. s.guarded /\ s.tip
                BY <1>3, <2>2, <2>6, <3>1 DEF WasDown, Sound
            <4> QED
                BY <2>4, <4>1
        <3>2. CASE /\ \A k \in DOMAIN frame.touches : ~Tip(frame.touches[k].phase)
                   /\ frame.touches = <<>> => input.touching = {}
            <4>1. frame.touches # <<>> => m \in DOMAIN frame.touches
                BY <1>2
            <4> QED
                BY <2>2, <2>4, <3>2, <4>1
        <3> QED
            BY <1>4, <2>6, <3>1, <3>2 DEF ClearFrame, Stale
    <2> QED
        BY <2>2, <2>3, <2>4, <2>5, <2>6
<1>5. CASE ~frame.current
    <2>1. input' = ReleaseEverything(input) \/ input' = ReleaseTouches(input)
        BY <1>5 DEF Process
    <2>2. ~input.penDown
        BY <1>1, <1>5 DEF HostInOrder, InStep, Stale
    <2> QED
        BY <1>2, <2>1, <2>2, ReleaseEverythingSound, ReleaseTouchesSound
<1> QED
    BY <1>4, <1>5

\* A step that touches no batch changes nothing that is said of them.
LEMMA WayKept ==
    ASSUME batches' = batches
    PROVE  /\ Sometime(batches, PenUps, Penless)' <=> Sometime(batches, PenUps, Penless)
           /\ Only(batches, Penless)' <=> Only(batches, Penless)
           /\ Sometime(batches, Clearing, Quiet)' <=> Sometime(batches, Clearing, Quiet)
           /\ Only(batches, Quiet)' <=> Only(batches, Quiet)
<1>1. Samples' = Samples
    BY DEF Samples, WireIds
<1>2. PenUps' = PenUps /\ Penless' = Penless
    BY <1>1 DEF PenUps, Penless
<1>3. Quiet' = Quiet
    BY <1>1 DEF Quiet
<1>4. Clearing' = Clearing
    <2>1. PenDowns' = PenDowns
        BY <1>1 DEF PenDowns
    <2>2. Lifts' = Lifts
        BY <1>3 DEF Lifts
    <2> QED
        BY <2>1, <2>2 DEF Clearing
<1> QED
    BY <1>2, <1>3, <1>4 DEF Sometime, Only

\* The host: Windows takes the place of the frame.
LEMMA HostLifts ==
    ASSUME Types, HostInOrder, HostInOrder', PenUpOnItsWay, LiftOnItsWay,
           Process \/ OnOrientationChange \/ SetOrientationEpoch
    PROVE  PenUpOnItsWay' /\ LiftOnItsWay'
<1>1. UNCHANGED <<glass, button, tipping, batches, left>>
    BY DEF Process, OnOrientationChange, SetOrientationEpoch, tablet
<1>2. Pens' = Pens /\ Fingers' = Fingers
    BY <1>1 DEF Pens, Fingers, Ids
<1>3. /\ input'.guarded = input.guarded
      /\ PenUpFrame => PenUpFrame'
      /\ input.guarded /\ ClearFrame => ClearFrame'
    <2>1. CASE Process
        <3>1. frame'.pens = <<>> /\ frame'.touches = <<>>
            BY <2>1 DEF Process, NoFrame
        <3> QED
            BY <2>1, <3>1, ProcessClears DEF PenUpFrame, ClearFrame
    <2>2. CASE OnOrientationChange
        <3>1. /\ turning' = TRUE /\ input' = ReleaseEverything(input)
              /\ frame' = [frame EXCEPT !.current = FALSE]
            BY <2>2 DEF OnOrientationChange
        <3>2. input \in Inputs /\ Sound(input) /\ frame \in Frames
            BY DEF Types, HostTypes, HostInOrder
        <3>3. input'.guarded = input.guarded /\ ~input'.penDown /\ input'.touching = {}
            BY <3>1, <3>2, ReleaseEverythingSound
        <3>4. frame'.current = FALSE /\ frame'.pens = frame.pens
            BY <3>1, <3>2 DEF Frames
        <3>5. ClearFrame'
            <4>1. CASE frame' = NoFrame
                BY <3>3, <4>1 DEF ClearFrame, NoFrame
            <4>2. CASE frame' # NoFrame
                BY <3>4, <4>2 DEF ClearFrame, Stale
            <4> QED
                BY <4>1, <4>2
        <3> QED
            BY <3>3, <3>4, <3>5 DEF PenUpFrame
    <2>3. CASE SetOrientationEpoch
        BY <2>3 DEF SetOrientationEpoch, PenUpFrame, ClearFrame, Stale
    <2> QED
        BY <2>1, <2>2, <2>3
<1>4. PenUpOnItsWay'
    BY <1>1, <1>2, <1>3, WayKept DEF PenUpOnItsWay
<1>5. LiftOnItsWay'
    BY <1>1, <1>2, <1>3, WayKept DEF LiftOnItsWay
<1> QED
    BY <1>4, <1>5

\* At first nothing is down.
LEMMA LiftStarts == Init => PenUpOnItsWay /\ LiftOnItsWay
<1> SUFFICES ASSUME Init PROVE PenUpOnItsWay /\ LiftOnItsWay
    OBVIOUS
<1>1. /\ frame = NoFrame /\ NoFrame.pens = <<>> /\ NoFrame.touches = <<>> /\ batches = <<>>
      /\ button = FALSE /\ tipping = FALSE /\ input.penDown = FALSE /\ input.touching = {}
    BY DEF Init, NoFrame
<1>2. ASSUME NEW Q PROVE Only(batches, Q)
    BY <1>1 DEF Only
<1>3. PenUpFrame /\ ClearFrame
    BY <1>1 DEF PenUpFrame, ClearFrame
<1> QED
    BY <1>1, <1>2, <1>3 DEF PenUpOnItsWay, LiftOnItsWay

\* Every step keeps both.
LEMMA LiftStep ==
    ASSUME Types, OneId, HostInOrder, HostInOrder', PenUpOnItsWay, LiftOnItsWay, [Next]_vars
    PROVE  PenUpOnItsWay' /\ LiftOnItsWay'
<1>1. CASE \/ \E tool \in Tools : PointerDown(tool)
           \/ PointersMove \/ GestureCancelled \/ StylusHovers \/ \E i \in Ids : PointerUp(i)
    <2>1. Event /\ UNCHANGED <<button, pressed>>
        BY <1>1, EveryEvent
    <2>2. PICK motion, tools : Motion(motion, tools) /\ Capture(motion, tools) /\ OfGlass(motion, tools)
        BY <1>1, EveryEventOfGlass
    <2> QED
        BY <2>1, <2>2, EventLiftsPen, EventLiftsTouches
<1>2. CASE UNCHANGED vars
    <2>1. UNCHANGED <<glass, button, tipping, batches, left, frame, input>>
        BY <1>2 DEF vars, tablet, host
    <2>2. Pens' = Pens /\ Fingers' = Fingers
        BY <2>1 DEF Pens, Fingers, Ids
    <2>3. PenUpFrame' = PenUpFrame /\ ClearFrame' = ClearFrame
        BY <2>1 DEF PenUpFrame, ClearFrame, Stale, NoFrame
    <2> QED
        BY <2>1, <2>2, <2>3, WayKept DEF PenUpOnItsWay, LiftOnItsWay
<1>3. CASE KeyDown \/ KeyUp \/ Rotate
    BY <1>3, OthersLift
<1>4. CASE Adapt
    BY <1>4, AdaptLifts
<1>5. CASE Process \/ OnOrientationChange \/ SetOrientationEpoch
    BY <1>5, HostLifts
<1> QED
    BY <1>1, <1>2, <1>3, <1>4, <1>5 DEF Next, Tablet

\* Nothing stays down in Windows that has left the glass, although the tablet hides
\* the fingers beside a drawing pen (PalmRejectionPolicy) and the host must lift
\* them; for two pointers and any numbers of the rest.
THEOREM StuckSafety ==
    ASSUME MaxPointer <= 1
    PROVE  Spec => []NothingStuck
<1> DEFINE IInv == PenUpOnItsWay /\ LiftOnItsWay
<1>1. Types /\ (OneId /\ HostInOrder) /\ (OneId /\ HostInOrder)' /\ IInv /\ [Next]_vars => IInv'
    BY LiftStep
<1>2. IInv => NothingStuck
    <2> SUFFICES ASSUME IInv, Delivered, input.guarded
                 PROVE  /\ input.touching # {} => Fingers # {}
                        /\ input.penDown /\ left.presses = MaxPresses => Pens # {}
        BY DEF NothingStuck
    <2>1. /\ frame = NoFrame /\ NoFrame.pens = <<>> /\ NoFrame.touches = <<>>
          /\ \A C, Q : ~Sometime(batches, C, Q)
        BY DEF Delivered, NoFrame, Sometime
    <2> QED
        BY <2>1 DEF LiftOnItsWay, PenUpOnItsWay, ClearFrame, PenUpFrame, Stale
<1> HIDE DEF IInv
<1>3. Init => IInv
    BY LiftStarts DEF IInv
<1> QED
    BY TypesAlways, OrderAlways, <1>1, <1>2, <1>3, PTL DEF Spec
================================================================================
