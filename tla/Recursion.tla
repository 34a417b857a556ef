------------------------------ MODULE Recursion ------------------------------
(***************************************************************************)
(* Induction over the natural numbers and recursive definitions, stated for  *)
(* sets and functions: a set of numbers instead of a predicate, a function    *)
(* instead of a rule, so that each use is an instance.                        *)
(***************************************************************************)
EXTENDS Selection, SequenceTheorems, WellFoundedInduction, FiniteSetTheorems, TLAPS

(* A set of natural numbers that is not empty has a least member.             *)
LEMMA LeastNatural ==
  ASSUME NEW T \in SUBSET Nat, T # {}
  PROVE  \E m \in T : \A k \in T : m <= k
<1> DEFINE Less == {ss \in Nat \X Nat : ss[1] < ss[2]}
<1>1. IsWellFoundedOn(OpToRel(<, Nat), Nat)
  BY NatLessThanWellFounded
<1>2. OpToRel(<, Nat) = Less
  BY DEF OpToRel
<1>3. IsWellFoundedOn(Less, Nat)
  BY <1>1, <1>2, Zenon
<1> HIDE DEF Less
<1>4. PICK m \in T : \A k \in T : ~(<<k, m>> \in Less)
  BY <1>3, WFMin
<1>5. \A k \in T : ~(k < m)
  BY <1>4 DEF Less
<1> QED
  BY <1>5

(* Induction: a set with 0 in it and with each number the next one has them all. *)
LEMMA Induction ==
  ASSUME NEW S, 0 \in S, \A n \in Nat : n \in S => n + 1 \in S
  PROVE  \A n \in Nat : n \in S
<1> SUFFICES ASSUME Nat \ S # {}
             PROVE  FALSE
  OBVIOUS
<1>1. PICK m \in Nat \ S : \A k \in Nat \ S : m <= k
  BY LeastNatural
<1>2. m # 0 /\ m - 1 \in Nat /\ m - 1 \in S
  BY <1>1
<1> QED
  BY <1>2

\* A function of the natural numbers by its first value and its steps.
ByRecursion(f, V, base, step) ==
  /\ f \in [Nat -> V]
  /\ f[0] = base
  /\ \A n \in Nat : f[n + 1] = step[n][f[n]]

(* A function of the natural numbers may be given by its first value and a step   *)
(* from each value to the next.                                                 *)
LEMMA RecursionDefines ==
  ASSUME NEW V, NEW base \in V, NEW step \in [Nat -> [V -> V]]
  PROVE  \E f : ByRecursion(f, V, base, step)
<1> DEFINE Begins(g, n) == g[0] = base /\ \A i \in 0 .. n - 1 : g[i + 1] = step[i][g[i]]
           Begun == {n \in Nat : \E g \in [0 .. n -> V] : Begins(g, n)}
<1>1. \A n \in Nat : n \in Begun
  <2>1. 0 \in Begun
    <3>1. [i \in 0 .. 0 |-> base] \in [0 .. 0 -> V] /\ Begins([i \in 0 .. 0 |-> base], 0)
      OBVIOUS
    <3> QED
      BY <3>1
  <2>2. ASSUME NEW n \in Nat, n \in Begun
        PROVE  n + 1 \in Begun
    <3>1. PICK g \in [0 .. n -> V] : Begins(g, n)
      BY <2>2
    <3> DEFINE h == [i \in 0 .. n + 1 |-> IF i = n + 1 THEN step[n][g[n]] ELSE g[i]]
    <3>2. g[n] \in V /\ step[n] \in [V -> V]
      OBVIOUS
    <3>3. h \in [0 .. n + 1 -> V]
      BY <3>2
    <3>4. h[0] = base
      BY <3>1
    <3>5. ASSUME NEW i \in 0 .. n
          PROVE  h[i + 1] = step[i][h[i]]
      <4>1. CASE i = n
        BY <4>1
      <4>2. CASE i # n
        BY <3>1, <4>2
      <4> QED
        BY <4>1, <4>2
    <3> HIDE DEF h
    <3>6. Begins(h, n + 1)
      BY <3>4, <3>5
    <3> QED
      BY <3>3, <3>6
  <2> HIDE DEF Begun
  <2> QED
    BY <2>1, <2>2, Induction
<1>2. ASSUME NEW n \in Nat, NEW m \in Nat, n <= m,
             NEW g \in [0 .. n -> V], Begins(g, n), NEW h \in [0 .. m -> V], Begins(h, m)
      PROVE  \A i \in 0 .. n : g[i] = h[i]
  <2> DEFINE Same == {i \in Nat : i <= n => g[i] = h[i]}
  <2>1. 0 \in Same
    BY <1>2
  <2>2. ASSUME NEW i \in Nat, i \in Same
        PROVE  i + 1 \in Same
    BY <1>2, <2>2
  <2> HIDE DEF Same
  <2>3. \A i \in Nat : i \in Same
    BY <2>1, <2>2, Induction
  <2> QED
    BY <2>3 DEF Same
<1> DEFINE G(n) == CHOOSE g \in [0 .. n -> V] : Begins(g, n)
           f == [n \in Nat |-> G(n)[n]]
<1>3. ASSUME NEW n \in Nat
      PROVE  G(n) \in [0 .. n -> V] /\ Begins(G(n), n)
  <2>1. \E g \in [0 .. n -> V] : Begins(g, n)
    BY <1>1
  <2> HIDE DEF Begins
  <2> QED
    BY <2>1
<1>4. f \in [Nat -> V] /\ f[0] = base
  <2>1. ASSUME NEW n \in Nat PROVE G(n)[n] \in V
    <3> HIDE DEF G
    <3> QED BY <1>3
  <2>2. G(0)[0] = base
    BY <1>3
  <2> HIDE DEF G
  <2> QED
    BY <2>1, <2>2
<1>5. ASSUME NEW n \in Nat
      PROVE  f[n + 1] = step[n][f[n]]
  <2> HIDE DEF G
  <2>1. f[n + 1] = G(n + 1)[n + 1] /\ f[n] = G(n)[n]
    OBVIOUS
  <2>2. G(n + 1)[n + 1] = step[n][G(n + 1)[n]]
    BY <1>3
  <2>3. G(n)[n] = G(n + 1)[n]
    <3> HIDE DEF Begins
    <3>1. n + 1 \in Nat /\ n <= n + 1 /\ n \in 0 .. n
      OBVIOUS
    <3>2. /\ G(n) \in [0 .. n -> V] /\ Begins(G(n), n)
          /\ G(n + 1) \in [0 .. n + 1 -> V] /\ Begins(G(n + 1), n + 1)
      BY <1>3, <3>1
    <3>3. \A i \in 0 .. n : G(n)[i] = G(n + 1)[i]
      BY <1>2, <3>1, <3>2, Zenon
    <3> QED
      BY <3>1, <3>3
  <2> QED
    BY <2>1, <2>2, <2>3
<1> HIDE DEF f
<1> QED
  BY <1>4, <1>5 DEF ByRecursion

\* A fold over the subsets of D by its value of the empty set and its steps, the
\* members being taken in the order of ch.
ByFolding(f, D, ch, V, base, step) ==
  /\ f \in [SUBSET D -> V]
  /\ \A s \in SUBSET D : f[s] = IF s = {} THEN base ELSE step[ch[s]][f[s \ {ch[s]}]]

(* A fold over the subsets of a finite set, one chosen member at a time.          *)
LEMMA FoldDefines ==
  ASSUME NEW D, IsFiniteSet(D), NEW ch, \A s \in SUBSET D : s # {} => ch[s] \in s,
         NEW V, NEW base \in V, NEW g \in [D -> [V -> V]]
  PROVE  \E f : ByFolding(f, D, ch, V, base, g)
<1> DEFINE F == [SUBSET D -> V]
           more == [n \in Nat |-> [f \in F |->
                      [s \in SUBSET D |-> IF s = {} THEN base
                                          ELSE g[ch[s]][f[s \ {ch[s]}]]]]]
           none == [s \in SUBSET D |-> base]
<1>1. more \in [Nat -> [F -> F]] /\ none \in F
  OBVIOUS
<1>2. PICK G \in [Nat -> F] : G[0] = none /\ \A n \in Nat : G[n + 1] = more[n][G[n]]
  <2> HIDE DEF F, more, none
  <2>1. \E G : ByRecursion(G, F, none, more)
    BY <1>1, RecursionDefines, Zenon
  <2> QED
    BY <2>1, Zenon DEF ByRecursion
<1>3. \A n \in Nat, s \in SUBSET D :
        G[n + 1][s] = IF s = {} THEN base ELSE g[ch[s]][G[n][s \ {ch[s]}]]
  <2> TAKE n \in Nat, s \in SUBSET D
  <2>1. G[n] \in F /\ G[n + 1] = more[n][G[n]]
    BY <1>2
  <2> QED
    BY <2>1
<1> DEFINE f == [s \in SUBSET D |-> G[Cardinality(s)][s]]
<1>4. \A s \in SUBSET D : Cardinality(s) \in Nat /\ IsFiniteSet(s)
  BY FS_Subset, FS_CardinalityType
<1>5. f \in [SUBSET D -> V]
  BY <1>2, <1>4
<1>6. ASSUME NEW s \in SUBSET D
      PROVE  f[s] = IF s = {} THEN base ELSE g[ch[s]][f[s \ {ch[s]}]]
  <2>1. CASE s = {}
    <3>1. Cardinality(s) = 0
      BY <2>1, FS_EmptySet
    <3> QED
      BY <1>2, <2>1, <3>1
  <2>2. CASE s # {}
    <3>1. ch[s] \in s
      BY <2>2
    <3>2. Cardinality(s \ {ch[s]}) = Cardinality(s) - 1
      BY <1>4, <3>1, FS_RemoveElement
    <3>3. Cardinality(s) \in Nat /\ Cardinality(s) - 1 \in Nat
      BY <1>4, <3>1, <3>2
    <3> DEFINE n == Cardinality(s) - 1
    <3>4. n \in Nat /\ Cardinality(s) = n + 1
      BY <3>3
    <3>5. G[n + 1][s] = g[ch[s]][G[n][s \ {ch[s]}]]
      BY <1>3, <2>2, <3>4
    <3>6. f[s] = G[n + 1][s] /\ f[s \ {ch[s]}] = G[n][s \ {ch[s]}]
      BY <3>2, <3>4
    <3> QED
      BY <2>2, <3>5, <3>6
  <2> QED
    BY <2>1, <2>2
<1> HIDE DEF f
<1> QED
  BY <1>5, <1>6 DEF ByFolding

(* Induction over the subsets of a finite set: a set of subsets with the empty one  *)
(* in it, and with every one that is in it when a chosen member is left out.       *)
LEMMA SubsetInduction ==
  ASSUME NEW D, IsFiniteSet(D), NEW ch, \A s \in SUBSET D : s # {} => ch[s] \in s,
         NEW Good, {} \in Good,
         \A s \in SUBSET D : s # {} /\ s \ {ch[s]} \in Good => s \in Good
  PROVE  \A s \in SUBSET D : s \in Good
<1> DEFINE Sizes == {n \in Nat : \A s \in SUBSET D : Cardinality(s) = n => s \in Good}
<1>1. \A s \in SUBSET D : Cardinality(s) \in Nat /\ IsFiniteSet(s)
  BY FS_Subset, FS_CardinalityType
<1>2. 0 \in Sizes
  BY <1>1, FS_EmptySet
<1>3. ASSUME NEW n \in Nat, n \in Sizes
      PROVE  n + 1 \in Sizes
  <2> SUFFICES ASSUME NEW s \in SUBSET D, Cardinality(s) = n + 1
               PROVE  s \in Good
    OBVIOUS
  <2>1. s # {} /\ ch[s] \in s
    BY <1>1, FS_EmptySet
  <2>2. Cardinality(s \ {ch[s]}) = Cardinality(s) - 1
    BY <1>1, <2>1, FS_RemoveElement
  <2>3. Cardinality(s \ {ch[s]}) = n
    BY <2>2
  <2> QED
    BY <1>3, <2>1, <2>3
<1> HIDE DEF Sizes
<1>4. \A n \in Nat : n \in Sizes
  BY <1>2, <1>3, Induction
<1> QED
  BY <1>1, <1>4 DEF Sizes
-----------------------------------------------------------------------------
(* The places of a sequence, and those before the last of them.                   *)
LEMMA LastPlace ==
  ASSUME NEW n \in Nat
  PROVE  /\ Max(1 .. n + 1) = n + 1
         /\ (1 .. n + 1) \ {n + 1} = 1 .. n
         /\ 1 .. n + 1 # {}
<1>1. \A x \in 1 .. n + 1 : (\A y \in 1 .. n + 1 : x >= y) <=> x = n + 1
  OBVIOUS
<1>2. Max(1 .. n + 1) = n + 1
  BY <1>1 DEF Max
<1> QED
  BY <1>2

\* A set of indices that is not empty has its maximum in it.
LEMMA MaxIsMember ==
  ASSUME NEW n \in Nat, NEW s \in SUBSET (1 .. n), s # {}
  PROVE  Max(s) \in s
<1> DEFINE Distances == {n - i : i \in s}
<1>0. \A i \in s : i \in 1 .. n
  OBVIOUS
<1>1. Distances \in SUBSET Nat /\ Distances # {}
  <2>1. \A i \in s : n - i \in Nat
    BY <1>0
  <2>2. \A d \in Distances : d \in Nat
    BY <2>1
  <2>3. PICK i \in s : TRUE
    OBVIOUS
  <2>4. n - i \in Distances
    BY <2>3
  <2> QED
    BY <2>2, <2>4
<1>2. PICK m \in Distances : \A k \in Distances : m <= k
  <2> HIDE DEF Distances
  <2> QED
    BY <1>1, LeastNatural
<1>3. PICK x \in s : \A y \in s : x >= y
  <2>1. PICK x \in s : m = n - x
    BY <1>2
  <2>2. \A y \in s : m <= n - y
    BY <1>2
  <2>3. \A y \in s : x \in Int /\ y \in Int
    BY <1>0
  <2> QED
    BY <2>1, <2>2, <2>3
<1> QED
  BY <1>3 DEF Max

\* A sequence over a set is one over any wider set.
LEMMA WiderSeq ==
  ASSUME NEW S, NEW T, S \subseteq T, NEW seq \in Seq(S)
  PROVE  seq \in Seq(T)
<1>1. Len(seq) \in Nat /\ seq \in [1 .. Len(seq) -> S]
  OBVIOUS
<1>2. seq \in [1 .. Len(seq) -> T]
  BY <1>1
<1> QED
  BY <1>1, <1>2

(* Induction over sequences: a set with the empty sequence in it, and with each      *)
(* sequence those with one more member.                                            *)
LEMMA SequenceInduction ==
  ASSUME NEW S, NEW Good, <<>> \in Good,
         \A s \in Seq(S), x \in S : s \in Good => Append(s, x) \in Good
  PROVE  \A s \in Seq(S) : s \in Good
<1> DEFINE Lengths == {n \in Nat : \A s \in Seq(S) : Len(s) = n => s \in Good}
<1>1. 0 \in Lengths
  BY EmptySeq
<1>2. ASSUME NEW n \in Nat, n \in Lengths
      PROVE  n + 1 \in Lengths
  <2> SUFFICES ASSUME NEW s \in Seq(S), Len(s) = n + 1
               PROVE  s \in Good
    OBVIOUS
  <2> DEFINE front == SubSeq(s, 1, n)
  <2>1. front \in Seq(S) /\ Len(front) = n /\ s[n + 1] \in S
    OBVIOUS
  <2>2. s = Append(front, s[n + 1])
    OBVIOUS
  <2> HIDE DEF front
  <2>3. front \in Good
    BY <1>2, <2>1
  <2> QED
    BY <2>1, <2>2, <2>3
<1> HIDE DEF Lengths
<1>3. \A n \in Nat : n \in Lengths
  BY <1>1, <1>2, Induction
<1> QED
  BY <1>3 DEF Lengths

\* How a selection is made, place by place.
Selecting(f, seq, wanted) ==
  f = [s \in SUBSET DOMAIN seq |->
         IF s = {} THEN <<>>
         ELSE LET i == Max(s)
              IN IF seq[i] \in wanted THEN Append(f[s \ {i}], seq[i]) ELSE f[s \ {i}]]
Selector(seq, wanted) == CHOOSE f : Selecting(f, seq, wanted)

\* The selector satisfies the recursion it is chosen by.
LEMMA SelectingIsDefined ==
  ASSUME NEW S, NEW seq \in Seq(S), NEW wanted
  PROVE  Selecting(Selector(seq, wanted), seq, wanted)
<1> DEFINE D == DOMAIN seq
           ch == [s \in SUBSET D |-> Max(s)]
           step == [i \in D |-> [some \in Seq(S) |->
                      IF seq[i] \in wanted THEN Append(some, seq[i]) ELSE some]]
<1>0. D = 1 .. Len(seq) /\ Len(seq) \in Nat /\ IsFiniteSet(D)
  BY FS_Interval
<1>1. \A s \in SUBSET D : s # {} => ch[s] \in s
  BY <1>0, MaxIsMember
<1>2. step \in [D -> [Seq(S) -> Seq(S)]]
  OBVIOUS
<1>3. PICK f : ByFolding(f, D, ch, Seq(S), <<>>, step)
  <2>1. <<>> \in Seq(S)
    OBVIOUS
  <2> HIDE DEF ch, step, D
  <2> QED
    BY <1>0, <1>1, <1>2, <2>1, FoldDefines, Zenon
<1>4. ASSUME NEW s \in SUBSET D
      PROVE  f[s] = IF s = {} THEN <<>>
                    ELSE LET i == Max(s)
                         IN IF seq[i] \in wanted THEN Append(f[s \ {i}], seq[i]) ELSE f[s \ {i}]
  <2>1. f[s] = IF s = {} THEN <<>> ELSE step[ch[s]][f[s \ {ch[s]}]]
    BY <1>3 DEF ByFolding
  <2>2. f[s \ {ch[s]}] \in Seq(S)
    BY <1>3 DEF ByFolding
  <2>3. s # {} => ch[s] \in D
    BY <1>1
  <2>4. ch[s] = Max(s)
    OBVIOUS
  <2> HIDE DEF ch, D
  <2> QED
    BY <2>1, <2>2, <2>3, <2>4
<1>5. f \in [SUBSET D -> Seq(S)]
  BY <1>3 DEF ByFolding
<1>6. Selecting(f, seq, wanted)
  BY <1>4, <1>5 DEF Selecting
<1> QED
  BY <1>6, Zenon DEF Selector

\* The fold of a selection is the last value of its selector.
LEMMA SelectedBySelector ==
  ASSUME NEW seq, NEW wanted
  PROVE  Selected(seq, wanted) = Selector(seq, wanted)[DOMAIN seq]
BY Zenon DEF Selected, FoldLeft, MapThenFoldSet, Selector, Selecting

\* One step of a selection.
LEMMA SelectingAt ==
  ASSUME NEW f, NEW seq, NEW wanted, Selecting(f, seq, wanted)
  PROVE  \A s \in SUBSET DOMAIN seq : s # {} =>
           f[s] = IF seq[Max(s)] \in wanted
                    THEN Append(f[s \ {Max(s)}], seq[Max(s)]) ELSE f[s \ {Max(s)}]
<1> TAKE s \in SUBSET DOMAIN seq
<1> HAVE s # {}
<1> DEFINE rule == [t \in SUBSET DOMAIN seq |->
                      IF t = {} THEN <<>>
                      ELSE IF seq[Max(t)] \in wanted
                        THEN Append(f[t \ {Max(t)}], seq[Max(t)]) ELSE f[t \ {Max(t)}]]
<1>1. f = rule
  BY DEF Selecting
<1>2. rule[s] = IF seq[Max(s)] \in wanted
                  THEN Append(f[s \ {Max(s)}], seq[Max(s)]) ELSE f[s \ {Max(s)}]
  OBVIOUS
<1> HIDE DEF rule
<1> QED
  BY <1>1, <1>2

(* What a selection is of the empty sequence, and what one more member does to it.   *)
LEMMA SelectedFromNone ==
  ASSUME NEW wanted
  PROVE  Selected(<<>>, wanted) = <<>>
<1>1. <<>> \in Seq({}) /\ DOMAIN <<>> = {}
  OBVIOUS
<1>2. Selecting(Selector(<<>>, wanted), <<>>, wanted)
  BY <1>1, SelectingIsDefined
<1>3. Selector(<<>>, wanted)[{}] = <<>>
  BY <1>1, <1>2 DEF Selecting
<1> QED
  BY <1>1, <1>3, SelectedBySelector

\* One more element is appended to the selection or left out.
LEMMA SelectedWithOneMore ==
  ASSUME NEW S, NEW seq \in Seq(S), NEW x \in S, NEW wanted
  PROVE  Selected(Append(seq, x), wanted) =
           IF x \in wanted THEN Append(Selected(seq, wanted), x) ELSE Selected(seq, wanted)
<1> DEFINE n == Len(seq)
           more == Append(seq, x)
           f == Selector(seq, wanted)
           g == Selector(more, wanted)
           Same == {k \in Nat : k <= n => f[1 .. k] = g[1 .. k]}
           Step(h, places, k) == h[1 .. k + 1] =
             IF places[k + 1] \in wanted THEN Append(h[1 .. k], places[k + 1]) ELSE h[1 .. k]
<1>1. /\ n \in Nat /\ DOMAIN seq = 1 .. n
      /\ more \in Seq(S) /\ DOMAIN more = 1 .. n + 1
      /\ \A i \in 1 .. n : more[i] = seq[i]
      /\ more[n + 1] = x
  OBVIOUS
<1>2. Selecting(f, seq, wanted) /\ Selecting(g, more, wanted)
  BY <1>1, SelectingIsDefined
<1>3. ASSUME NEW h, NEW places, Selecting(h, places, wanted),
             NEW k \in Nat, 1 .. k + 1 \in SUBSET DOMAIN places
      PROVE  Step(h, places, k)
  <2>1. Max(1 .. k + 1) = k + 1 /\ (1 .. k + 1) \ {k + 1} = 1 .. k /\ 1 .. k + 1 # {}
    BY LastPlace
  <2>2. \A s \in SUBSET DOMAIN places : s # {} =>
          h[s] = IF places[Max(s)] \in wanted
                   THEN Append(h[s \ {Max(s)}], places[Max(s)]) ELSE h[s \ {Max(s)}]
    BY <1>3, SelectingAt, Zenon
  <2> QED
    BY <1>3, <2>1, <2>2, Zenon
<1> HIDE DEF f, g, more, n
<1>4. 0 \in Same
  <2>1. f[{}] = <<>> /\ g[{}] = <<>>
    BY <1>1, <1>2 DEF Selecting
  <2> QED
    BY <2>1
<1>5. ASSUME NEW k \in Nat, k \in Same
      PROVE  k + 1 \in Same
  <2> SUFFICES ASSUME k + 1 <= n
               PROVE  f[1 .. k + 1] = g[1 .. k + 1]
    OBVIOUS
  <2>1. 1 .. k + 1 \in SUBSET DOMAIN seq /\ 1 .. k + 1 \in SUBSET DOMAIN more
    BY <1>1
  <2>2. Step(f, seq, k) /\ Step(g, more, k)
    BY <1>2, <1>3, <2>1, Zenon
  <2>3. f[1 .. k] = g[1 .. k] /\ seq[k + 1] = more[k + 1]
    BY <1>1, <1>5
  <2> QED
    BY <2>2, <2>3
<1> HIDE DEF Same
<1>6. \A k \in Nat : k \in Same
  BY <1>4, <1>5, Induction
<1>7. f[1 .. n] = g[1 .. n]
  BY <1>1, <1>6 DEF Same
<1>8. Step(g, more, n)
  <2>1. 1 .. n + 1 \in SUBSET DOMAIN more
    BY <1>1
  <2> QED
    BY <1>1, <1>2, <1>3, <2>1, Zenon
<1>9. Selected(seq, wanted) = f[1 .. n] /\ Selected(more, wanted) = g[1 .. n + 1]
  BY <1>1, SelectedBySelector DEF f, g
<1> QED
  BY <1>1, <1>7, <1>8, <1>9 DEF more

(* A set of natural numbers that is not empty has its least member as its minimum.  *)
LEMMA MinIsMember ==
  ASSUME NEW T \in SUBSET Nat, T # {}
  PROVE  Min(T) \in T /\ \A k \in T : Min(T) <= k
<1>1. PICK m \in T : \A k \in T : m <= k
  BY LeastNatural
<1> QED
  BY <1>1 DEF Min

(* What one more member does to the set of a sequence's members, and to their being   *)
(* all different.                                                                  *)
LEMMA OneMore ==
  ASSUME NEW S, NEW seq \in Seq(S), NEW x \in S
  PROVE  /\ ToSet(Append(seq, x)) = ToSet(seq) \cup {x}
         /\ IsInjective(Append(seq, x)) <=> IsInjective(seq) /\ x \notin ToSet(seq)
<1> DEFINE n == Len(seq)
           more == Append(seq, x)
<1>1. /\ n \in Nat /\ DOMAIN seq = 1 .. n /\ DOMAIN more = 1 .. n + 1
      /\ \A i \in 1 .. n : more[i] = seq[i]
      /\ more[n + 1] = x
  OBVIOUS
<1> HIDE DEF n, more
<1>2. \A i \in 1 .. n + 1 : i \in 1 .. n \/ i = n + 1
  BY <1>1
<1>3. n + 1 \in 1 .. n + 1 /\ n + 1 \notin 1 .. n /\ \A i \in 1 .. n : i \in 1 .. n + 1
  BY <1>1
<1>4. ToSet(more) = ToSet(seq) \cup {x}
  BY <1>1, <1>2, <1>3 DEF ToSet
<1>5. IsInjective(more) <=> IsInjective(seq) /\ x \notin ToSet(seq)
  BY <1>1, <1>2, <1>3 DEF IsInjective, ToSet
<1> QED
  BY <1>4, <1>5 DEF more

(* A selection has the wanted members, each as often as the sequence it is made of.   *)
LEMMA SelectedMembers ==
  ASSUME NEW S, NEW seq \in Seq(S), NEW wanted
  PROVE  /\ Selected(seq, wanted) \in Seq(S)
         /\ ToSet(Selected(seq, wanted)) = ToSet(seq) \cap wanted
         /\ IsInjective(seq) => IsInjective(Selected(seq, wanted))
<1> DEFINE Right(s) == /\ Selected(s, wanted) \in Seq(S)
                       /\ ToSet(Selected(s, wanted)) = ToSet(s) \cap wanted
                       /\ IsInjective(s) => IsInjective(Selected(s, wanted))
           Good == {s \in Seq(S) : Right(s)}
<1>1. <<>> \in Good
  <2>1. ToSet(<<>>) = {} /\ <<>> \in Seq(S)
    BY DEF ToSet
  <2> QED
    BY <2>1, SelectedFromNone
<1>2. ASSUME NEW s \in Seq(S), NEW x \in S, s \in Good
      PROVE  Append(s, x) \in Good
  <2>1. /\ Selected(s, wanted) \in Seq(S)
        /\ ToSet(Selected(s, wanted)) = ToSet(s) \cap wanted
        /\ IsInjective(s) => IsInjective(Selected(s, wanted))
    BY <1>2
  <2>2. /\ ToSet(Append(s, x)) = ToSet(s) \cup {x}
        /\ IsInjective(Append(s, x)) <=> IsInjective(s) /\ x \notin ToSet(s)
    BY OneMore
  <2>3. Append(s, x) \in Seq(S)
    OBVIOUS
  <2>4. CASE x \in wanted
    <3>1. Selected(Append(s, x), wanted) = Append(Selected(s, wanted), x)
      BY <2>4, SelectedWithOneMore
    <3>2. /\ ToSet(Append(Selected(s, wanted), x)) = ToSet(Selected(s, wanted)) \cup {x}
          /\ IsInjective(Append(Selected(s, wanted), x)) <=>
               IsInjective(Selected(s, wanted)) /\ x \notin ToSet(Selected(s, wanted))
      BY <2>1, OneMore
    <3>3. Append(Selected(s, wanted), x) \in Seq(S)
      BY <2>1
    <3> QED
      BY <2>1, <2>2, <2>3, <2>4, <3>1, <3>2, <3>3
  <2>5. CASE x \notin wanted
    <3>1. Selected(Append(s, x), wanted) = Selected(s, wanted)
      BY <2>5, SelectedWithOneMore
    <3> QED
      BY <2>1, <2>2, <2>3, <2>5, <3>1
  <2> QED
    BY <2>4, <2>5
<1> HIDE DEF Good
<1>3. \A s \in Seq(S) : s \in Good
  BY <1>1, <1>2, SequenceInduction
<1> QED
  BY <1>3 DEF Good

(* A finite set as a sequence: each member once.                                     *)
LEMMA SetAsSequence ==
  ASSUME NEW S, IsFiniteSet(S)
  PROVE  /\ SetToSeq(S) \in Seq(S)
         /\ Len(SetToSeq(S)) = Cardinality(S)
         /\ IsInjective(SetToSeq(S))
         /\ ToSet(SetToSeq(S)) = S
<1> DEFINE n == Cardinality(S)
           f == SetToSeq(S)
<1>1. n \in Nat /\ ExistsBijection(1 .. n, S)
  BY FS_CardinalityType
<1>2. \E g \in [1 .. n -> S] : IsInjective(g)
  BY <1>1 DEF ExistsBijection, Bijection, Injection, IsInjective
<1>3. f \in [1 .. n -> S] /\ IsInjective(f)
  BY <1>2 DEF SetToSeq
<1> HIDE DEF f, n
<1>4. f \in Seq(S) /\ Len(f) = n
  BY <1>1, <1>3
<1>5. IsFiniteSet(1 .. n) /\ Cardinality(1 .. n) = n
  BY <1>1, FS_Interval
<1>6. f \in Injection(1 .. n, S)
  BY <1>3 DEF Injection, IsInjective
<1>7. f \in Surjection(1 .. n, S)
  BY <1>5, <1>6, FS_Injection DEF n
<1>8. ToSet(f) = S
  BY <1>3, <1>7 DEF Surjection, ToSet
<1> QED
  BY <1>3, <1>4, <1>8 DEF f, n

(* A sequence without repetitions has as many members as places.                     *)
LEMMA InjectiveLength ==
  ASSUME NEW S, NEW seq \in Seq(S), IsInjective(seq)
  PROVE  IsFiniteSet(ToSet(seq)) /\ Cardinality(ToSet(seq)) = Len(seq)
<1> DEFINE D == 1 .. Len(seq)
<1>1. IsFiniteSet(D) /\ Cardinality(D) = Len(seq) /\ DOMAIN seq = D
  <2>1. Len(seq) \in Nat /\ DOMAIN seq = 1 .. Len(seq)
    OBVIOUS
  <2> QED
    BY <2>1, FS_Interval
<1>2. seq \in [D -> ToSet(seq)]
  BY DEF ToSet
<1>3. seq \in Bijection(D, ToSet(seq))
  BY <1>1, <1>2 DEF Bijection, Injection, Surjection, IsInjective, ToSet
<1> QED
  BY <1>1, <1>3, FS_Bijection DEF ExistsBijection

(* Two sequences without repetitions and without a member in common make one.        *)
LEMMA Joined ==
  ASSUME NEW S, NEW s \in Seq(S), NEW t \in Seq(S)
  PROVE  /\ s \o t \in Seq(S)
         /\ ToSet(s \o t) = ToSet(s) \cup ToSet(t)
         /\ IsInjective(s) /\ IsInjective(t) /\ ToSet(s) \cap ToSet(t) = {} => IsInjective(s \o t)
<1> DEFINE m == Len(s)
           n == Len(t)
           both == s \o t
<1>1. /\ m \in Nat /\ n \in Nat
      /\ DOMAIN s = 1 .. m /\ DOMAIN t = 1 .. n /\ DOMAIN both = 1 .. m + n
      /\ \A i \in 1 .. m : both[i] = s[i]
      /\ \A i \in 1 .. n : both[m + i] = t[i]
      /\ both \in Seq(S)
  OBVIOUS
<1> HIDE DEF m, n, both
<1>2. \A i \in 1 .. m + n : \/ i \in 1 .. m
                            \/ i - m \in 1 .. n /\ i = m + (i - m)
  BY <1>1
<1>3. (\A i \in 1 .. m : i \in 1 .. m + n) /\ (\A i \in 1 .. n : m + i \in 1 .. m + n)
  BY <1>1
<1>4. ToSet(both) = ToSet(s) \cup ToSet(t)
  <2>1. ASSUME NEW i \in 1 .. m + n
        PROVE  both[i] \in ToSet(s) \cup ToSet(t)
    <3>1. CASE i \in 1 .. m
      BY <1>1, <3>1 DEF ToSet
    <3>2. CASE i - m \in 1 .. n /\ i = m + (i - m)
      <4>1. both[i] = t[i - m]
        BY <1>1, <3>2
      <4> QED
        BY <1>1, <3>2, <4>1 DEF ToSet
    <3> QED
      BY <1>2, <3>1, <3>2
  <2>2. \A i \in 1 .. m : s[i] \in ToSet(both)
    BY <1>1, <1>3 DEF ToSet
  <2>3. \A i \in 1 .. n : t[i] \in ToSet(both)
    BY <1>1, <1>3 DEF ToSet
  <2>4. ToSet(s) \subseteq ToSet(both) /\ ToSet(t) \subseteq ToSet(both)
    BY <1>1, <2>2, <2>3 DEF ToSet
  <2>5. ToSet(both) \subseteq ToSet(s) \cup ToSet(t)
    BY <1>1, <2>1 DEF ToSet
  <2> QED
    BY <2>4, <2>5
<1>5. ASSUME IsInjective(s), IsInjective(t), ToSet(s) \cap ToSet(t) = {}
      PROVE  IsInjective(both)
  <2> SUFFICES ASSUME NEW i \in 1 .. m + n, NEW j \in 1 .. m + n, both[i] = both[j]
               PROVE  i = j
    BY <1>1 DEF IsInjective
  <2>1. \A k \in 1 .. m : s[k] \in ToSet(s)
    BY <1>1 DEF ToSet
  <2>2. \A k \in 1 .. n : t[k] \in ToSet(t)
    BY <1>1 DEF ToSet
  <2>3. CASE i \in 1 .. m /\ j \in 1 .. m
    BY <1>1, <1>5, <2>3 DEF IsInjective
  <2>4. CASE i - m \in 1 .. n /\ j - m \in 1 .. n
    <3>1. both[i] = t[i - m] /\ both[j] = t[j - m]
      BY <1>1, <2>4
    <3>2. i - m = j - m
      BY <1>1, <1>5, <2>4, <3>1 DEF IsInjective
    <3> QED
      BY <1>1, <3>2
  <2>5. CASE i \in 1 .. m /\ j - m \in 1 .. n
    <3>1. both[i] = s[i] /\ both[j] = t[j - m]
      BY <1>1, <2>5
    <3> QED
      BY <1>5, <2>1, <2>2, <2>5, <3>1
  <2>6. CASE i - m \in 1 .. n /\ j \in 1 .. m
    <3>1. both[i] = t[i - m] /\ both[j] = s[j]
      BY <1>1, <2>6
    <3> QED
      BY <1>5, <2>1, <2>2, <2>6, <3>1
  <2> QED
    BY <1>2, <2>3, <2>4, <2>5, <2>6
<1> QED
  BY <1>1, <1>4, <1>5 DEF both
-----------------------------------------------------------------------------
\* How sequences are strung together, one by one.
Flattening(f, seqs) ==
  f = [i \in 1 .. Len(seqs) |-> IF i = 1 THEN seqs[i] ELSE f[i - 1] \o seqs[i]]

\* Flattening is the last value of the function it is chosen by.
LEMMA FlattenIs ==
  ASSUME NEW seqs, Len(seqs) # 0
  PROVE  FlattenSeq(seqs) = (CHOOSE f : Flattening(f, seqs))[Len(seqs)]
  BY Zenon DEF FlattenSeq, Flattening

(* The members of sequences that are strung together are members of theirs.          *)
LEMMA FlattenType ==
  ASSUME NEW S, NEW seqs \in Seq(Seq(S))
  PROVE  FlattenSeq(seqs) \in Seq(S)
<1> DEFINE n == Len(seqs)
           f == CHOOSE h : Flattening(h, seqs)
           step == [k \in Nat |-> [all \in Seq(S) |->
                      IF k + 1 \in 1 .. n THEN all \o seqs[k + 1] ELSE all]]
<1>1. n \in Nat /\ \A i \in 1 .. n : seqs[i] \in Seq(S)
  OBVIOUS
<1>2. CASE n = 0
  <2>1. seqs = <<>>
    BY <1>2
  <2>2. FlattenSeq(seqs) = seqs
    BY <1>2 DEF FlattenSeq
  <2>3. <<>> \in Seq(S)
    OBVIOUS
  <2> QED
    BY <2>1, <2>2, <2>3, Zenon
<1>3. CASE n # 0
  <2>1. step \in [Nat -> [Seq(S) -> Seq(S)]]
    <3>1. \A k \in Nat, all \in Seq(S) :
            (IF k + 1 \in 1 .. n THEN all \o seqs[k + 1] ELSE all) \in Seq(S)
      <4> HIDE DEF n
      <4> QED
        BY <1>1
    <3> QED
      BY <3>1
  <2>2. PICK g : ByRecursion(g, Seq(S), <<>>, step)
    <3>1. <<>> \in Seq(S)
      OBVIOUS
    <3> HIDE DEF step
    <3> QED
      BY <2>1, <3>1, RecursionDefines, Zenon
  <2>3. /\ g \in [Nat -> Seq(S)] /\ g[0] = <<>>
        /\ \A k \in Nat : g[k + 1] = step[k][g[k]]
    BY <2>2 DEF ByRecursion
  <2>4. \A k \in Nat : k + 1 \in 1 .. n => g[k + 1] = g[k] \o seqs[k + 1]
    BY <2>3
  <2> HIDE DEF n, step
  <2> DEFINE h == [i \in 1 .. n |-> g[i]]
  <2>5. ASSUME NEW i \in 1 .. n
        PROVE  h[i] = IF i = 1 THEN seqs[i] ELSE h[i - 1] \o seqs[i]
    <3>1. i - 1 \in Nat /\ (i - 1) + 1 = i
      BY <1>1
    <3>2. g[i] = g[i - 1] \o seqs[i]
      BY <2>4, <3>1
    <3>3. seqs[i] \in Seq(S) /\ <<>> \o seqs[i] = seqs[i]
      BY <1>1
    <3>4. CASE i = 1
      <4>1. g[i - 1] = <<>>
        BY <2>3, <3>4
      <4>2. h[i] = seqs[i]
        BY <3>2, <3>3, <4>1
      <4> HIDE DEF h
      <4> QED
        BY <3>4, <4>2
    <3>5. CASE i # 1
      <4>1. i - 1 \in 1 .. n
        BY <1>1, <3>5
      <4>2. h[i - 1] = g[i - 1] /\ h[i] = g[i]
        BY <4>1
      <4> QED
        BY <3>2, <3>5, <4>2
    <3> QED
      BY <3>4, <3>5
  <2>6. Flattening(h, seqs)
    BY <2>5 DEF Flattening, n
  <2>7. Flattening(f, seqs)
    BY <2>6, Zenon
  <2>8. \A i \in 1 .. n : f[i] = IF i = 1 THEN seqs[i] ELSE f[i - 1] \o seqs[i]
    BY <2>7 DEF Flattening, n
  <2> HIDE DEF f, h
  <2> DEFINE Good == {k \in Nat : k + 1 \in 1 .. n => f[k + 1] \in Seq(S)}
  <2>9. 0 \in Good
    BY <1>1, <2>8
  <2>10. ASSUME NEW k \in Nat, k \in Good
         PROVE  k + 1 \in Good
    <3> SUFFICES ASSUME (k + 1) + 1 \in 1 .. n
                 PROVE  f[(k + 1) + 1] \in Seq(S)
      OBVIOUS
    <3>1. f[k + 1] \in Seq(S)
      BY <1>1, <2>10
    <3>2. f[(k + 1) + 1] = f[k + 1] \o seqs[(k + 1) + 1]
      <4>1. (k + 1) + 1 # 1 /\ ((k + 1) + 1) - 1 = k + 1
        OBVIOUS
      <4> QED
        BY <2>8, <4>1
    <3>3. seqs[(k + 1) + 1] \in Seq(S)
      BY <1>1
    <3> QED
      BY <3>1, <3>2, <3>3
  <2> HIDE DEF Good
  <2>11. \A k \in Nat : k \in Good
    BY <2>9, <2>10, Induction
  <2>12. f[n] \in Seq(S)
    <3>1. n - 1 \in Nat /\ (n - 1) + 1 = n /\ n \in 1 .. n
      BY <1>1, <1>3
    <3>2. n - 1 \in Good
      BY <2>11, <3>1
    <3> QED
      BY <3>1, <3>2 DEF Good
  <2>13. FlattenSeq(seqs) = f[n]
    BY <1>3, FlattenIs DEF f, n
  <2> QED
    BY <2>12, <2>13
<1> QED
  BY <1>2, <1>3
-----------------------------------------------------------------------------
(* The sequences strung together one after the other: the last of what is reached so.  *)
LEMMA FlattenSteps ==
  ASSUME NEW S, NEW seqs \in Seq(Seq(S)), NEW g \in [Nat -> Seq(S)], g[0] = <<>>,
         \A k \in Nat : k + 1 \in 1 .. Len(seqs) => g[k + 1] = g[k] \o seqs[k + 1]
  PROVE  FlattenSeq(seqs) = g[Len(seqs)]
<1> DEFINE n == Len(seqs)
           f == CHOOSE h : Flattening(h, seqs)
           h == [i \in 1 .. n |-> g[i]]
<1>1. n \in Nat /\ \A i \in 1 .. n : seqs[i] \in Seq(S)
  OBVIOUS
<1>2. CASE n = 0
  <2>1. seqs = <<>> /\ g[Len(seqs)] = <<>>
    BY <1>2
  <2>2. FlattenSeq(seqs) = seqs
    BY <1>2 DEF FlattenSeq
  <2> QED
    BY <2>1, <2>2, Zenon
<1>3. CASE n # 0
  <2>1. ASSUME NEW i \in 1 .. n
        PROVE  h[i] = IF i = 1 THEN seqs[i] ELSE h[i - 1] \o seqs[i]
    <3>1. i - 1 \in Nat /\ (i - 1) + 1 = i
      BY <1>1
    <3>2. g[i] = g[i - 1] \o seqs[i]
      BY <3>1
    <3>3. seqs[i] \in Seq(S) /\ <<>> \o seqs[i] = seqs[i]
      BY <1>1
    <3>4. CASE i = 1
      <4>1. g[i - 1] = <<>>
        BY <3>4
      <4>2. h[i] = seqs[i]
        BY <3>2, <3>3, <4>1
      <4> HIDE DEF h
      <4> QED
        BY <3>4, <4>2
    <3>5. CASE i # 1
      <4>1. i - 1 \in 1 .. n
        BY <1>1, <3>5
      <4>2. h[i - 1] = g[i - 1] /\ h[i] = g[i]
        BY <4>1
      <4> QED
        BY <3>2, <3>5, <4>2
    <3> QED
      BY <3>4, <3>5
  <2>2. Flattening(h, seqs)
    BY <2>1 DEF Flattening
  <2>3. Flattening(f, seqs)
    BY <2>2, Zenon
  <2>4. \A i \in 1 .. n : f[i] = IF i = 1 THEN seqs[i] ELSE f[i - 1] \o seqs[i]
    BY <2>3 DEF Flattening
  <2> HIDE DEF f, h
  <2> DEFINE Good == {k \in Nat : k + 1 \in 1 .. n => f[k + 1] = g[k + 1]}
  <2>5. 0 \in Good
    <3>1. 1 \in 1 .. n /\ 0 + 1 = 1
      BY <1>1, <1>3
    <3>2. f[1] = seqs[1] /\ seqs[1] \in Seq(S)
      BY <1>1, <2>4, <3>1, Zenon
    <3>3. g[0 + 1] = g[0] \o seqs[0 + 1]
      BY <3>1
    <3>4. g[1] = <<>> \o seqs[1]
      BY <3>1, <3>3
    <3>5. <<>> \o seqs[1] = seqs[1]
      BY <3>2
    <3> QED
      BY <3>1, <3>2, <3>4, <3>5
  <2>6. ASSUME NEW k \in Nat, k \in Good PROVE k + 1 \in Good
    <3> SUFFICES ASSUME (k + 1) + 1 \in 1 .. n
                 PROVE  f[(k + 1) + 1] = g[(k + 1) + 1]
      OBVIOUS
    <3>1. f[k + 1] = g[k + 1]
      BY <1>1, <2>6
    <3>2. f[(k + 1) + 1] = f[k + 1] \o seqs[(k + 1) + 1]
      <4>1. (k + 1) + 1 # 1 /\ ((k + 1) + 1) - 1 = k + 1
        OBVIOUS
      <4> QED
        BY <2>4, <4>1
    <3>3. g[(k + 1) + 1] = g[k + 1] \o seqs[(k + 1) + 1]
      <4>1. k + 1 \in Nat
        OBVIOUS
      <4> QED
        BY <4>1, Zenon
    <3> QED
      BY <3>1, <3>2, <3>3, Zenon
  <2> HIDE DEF Good
  <2>7. \A k \in Nat : k \in Good
    BY <2>5, <2>6, Induction
  <2>8. f[n] = g[n]
    <3>1. n - 1 \in Nat /\ (n - 1) + 1 = n /\ n \in 1 .. n
      BY <1>1, <1>3
    <3>2. n - 1 \in Good
      BY <2>7, <3>1
    <3> QED
      BY <3>1, <3>2 DEF Good
  <2>9. FlattenSeq(seqs) = f[n]
    BY <1>3, FlattenIs DEF f
  <2> QED
    BY <2>8, <2>9
<1> QED
  BY <1>2, <1>3

(* There are such steps.                                                             *)
LEMMA FlattenReached ==
  ASSUME NEW S, NEW seqs \in Seq(Seq(S))
  PROVE  \E g \in [Nat -> Seq(S)] :
           /\ g[0] = <<>>
           /\ \A k \in Nat : k + 1 \in 1 .. Len(seqs) => g[k + 1] = g[k] \o seqs[k + 1]
<1> DEFINE n == Len(seqs)
           step == [k \in Nat |-> [all \in Seq(S) |->
                      IF k + 1 \in 1 .. n THEN all \o seqs[k + 1] ELSE all]]
<1>1. n \in Nat /\ \A i \in 1 .. n : seqs[i] \in Seq(S)
  OBVIOUS
<1>2. step \in [Nat -> [Seq(S) -> Seq(S)]]
  <2>1. \A k \in Nat, all \in Seq(S) :
          (IF k + 1 \in 1 .. n THEN all \o seqs[k + 1] ELSE all) \in Seq(S)
    <3> HIDE DEF n
    <3> QED
      BY <1>1
  <2> QED
    BY <2>1
<1>3. PICK g : ByRecursion(g, Seq(S), <<>>, step)
  <2>1. <<>> \in Seq(S)
    OBVIOUS
  <2> HIDE DEF step
  <2> QED
    BY <1>2, <2>1, RecursionDefines, Zenon
<1>4. /\ g \in [Nat -> Seq(S)] /\ g[0] = <<>>
      /\ \A k \in Nat : g[k + 1] = step[k][g[k]]
  BY <1>3 DEF ByRecursion
<1>5. \A k \in Nat : k + 1 \in 1 .. n => g[k + 1] = g[k] \o seqs[k + 1]
  BY <1>4
<1> QED
  BY <1>4, <1>5

(* One more sequence is strung behind the others.                                    *)
LEMMA FlattenMore ==
  ASSUME NEW S, NEW seqs \in Seq(Seq(S)), NEW x \in Seq(S)
  PROVE  FlattenSeq(Append(seqs, x)) = FlattenSeq(seqs) \o x
<1> DEFINE n == Len(seqs)
           more == Append(seqs, x)
<1>1. more \in Seq(Seq(S)) /\ Len(more) = n + 1 /\ n \in Nat /\ more[n + 1] = x
      /\ \A i \in 1 .. n : more[i] = seqs[i]
  OBVIOUS
<1> HIDE DEF more
<1>2. PICK g \in [Nat -> Seq(S)] :
        /\ g[0] = <<>>
        /\ \A k \in Nat : k + 1 \in 1 .. Len(more) => g[k + 1] = g[k] \o more[k + 1]
  BY <1>1, FlattenReached
<1>3. FlattenSeq(more) = g[n + 1]
  BY <1>1, <1>2, FlattenSteps
<1>4. ASSUME NEW k \in Nat, k + 1 \in 1 .. n PROVE g[k + 1] = g[k] \o seqs[k + 1]
  <2>1. k + 1 \in 1 .. Len(more) /\ more[k + 1] = seqs[k + 1]
    BY <1>1, <1>4
  <2>2. g[k + 1] = g[k] \o more[k + 1]
    BY <1>2, <2>1, Zenon
  <2> QED
    BY <2>1, <2>2, Zenon
<1>5. FlattenSeq(seqs) = g[n]
  BY <1>2, <1>4, FlattenSteps
<1>6. g[n + 1] = g[n] \o x
  <2>1. n \in Nat /\ n + 1 \in 1 .. Len(more)
    BY <1>1
  <2>2. g[n + 1] = g[n] \o more[n + 1]
    BY <1>2, <2>1, Zenon
  <2> QED
    BY <1>1, <2>2, Zenon
<1> QED
  BY <1>3, <1>5, <1>6 DEF more

\* What each member of a sequence stands for, one after the other.
Spread(g, s) == FlattenSeq([i \in DOMAIN s |-> g[s[i]]])

(* Nothing stands for nothing, and one member more for what it stands for.           *)
LEMMA SpreadMore ==
  ASSUME NEW S, NEW T, NEW g \in [S -> Seq(T)]
  PROVE  /\ Spread(g, <<>>) = <<>>
         /\ \A s \in Seq(S), x \in S : /\ Spread(g, s) \in Seq(T)
                                       /\ Spread(g, Append(s, x)) = Spread(g, s) \o g[x]
<1>1. Spread(g, <<>>) = <<>>
  <2>1. [i \in DOMAIN <<>> |-> g[<<>>[i]]] = <<>>
    OBVIOUS
  <2>2. FlattenSeq(<<>>) = <<>>
    BY DEF FlattenSeq
  <2> QED
    BY <2>1, <2>2, Zenon DEF Spread
<1>2. ASSUME NEW s \in Seq(S), NEW x \in S
      PROVE  Spread(g, s) \in Seq(T) /\ Spread(g, Append(s, x)) = Spread(g, s) \o g[x]
  <2> DEFINE parts == [i \in DOMAIN s |-> g[s[i]]]
  <2>1. parts \in Seq(Seq(T)) /\ g[x] \in Seq(T)
    <3>1. \A i \in DOMAIN s : s[i] \in S
      OBVIOUS
    <3> QED
      BY <3>1
  <2>2. [i \in DOMAIN Append(s, x) |-> g[Append(s, x)[i]]] = Append(parts, g[x])
    <3> DEFINE left == [i \in DOMAIN Append(s, x) |-> g[Append(s, x)[i]]]
               right == Append(parts, g[x])
    <3>1. DOMAIN left = 1 .. Len(s) + 1 /\ DOMAIN right = 1 .. Len(s) + 1
      BY <2>1
    <3>2. \A i \in 1 .. Len(s) + 1 : left[i] = right[i]
      BY <2>1
    <3>3. left = [i \in 1 .. Len(s) + 1 |-> left[i]] /\ right = [i \in 1 .. Len(s) + 1 |-> right[i]]
      BY <2>1, <3>1
    <3> HIDE DEF left, right
    <3> QED
      BY <3>2, <3>3 DEF left, right
  <2>3. FlattenSeq(Append(parts, g[x])) = FlattenSeq(parts) \o g[x]
    <3> HIDE DEF parts
    <3> QED
      BY <2>1, FlattenMore
  <2>4. FlattenSeq(parts) \in Seq(T)
    <3> HIDE DEF parts
    <3> QED
      BY <2>1, FlattenType
  <2> QED
    BY <2>2, <2>3, <2>4, Zenon DEF Spread
<1> QED
  BY <1>1, <1>2

(* Two sequences one behind the other stand for what they stand for, one behind the    *)
(* other.                                                                            *)
LEMMA SpreadJoined ==
  ASSUME NEW S, NEW T, NEW g \in [S -> Seq(T)], NEW s \in Seq(S)
  PROVE  \A t \in Seq(S) : Spread(g, s \o t) = Spread(g, s) \o Spread(g, t)
<1> DEFINE Good == {t \in Seq(S) : Spread(g, s \o t) = Spread(g, s) \o Spread(g, t)}
<1>0. /\ Spread(g, <<>>) = <<>>
      /\ \A u \in Seq(S), x \in S : /\ Spread(g, u) \in Seq(T) /\ g[x] \in Seq(T)
                                    /\ Spread(g, Append(u, x)) = Spread(g, u) \o g[x]
  BY SpreadMore
<1>1. <<>> \in Good
  <2>1. s \o <<>> = s /\ <<>> \in Seq(S)
    OBVIOUS
  <2>2. Spread(g, s) \in Seq(T)
    BY SpreadMore
  <2>3. Spread(g, s) \o <<>> = Spread(g, s)
    BY <2>2
  <2> QED
    BY <2>1, <2>3, SpreadMore
<1>2. ASSUME NEW t \in Seq(S), NEW x \in S, t \in Good PROVE Append(t, x) \in Good
  <2>1. s \o Append(t, x) = Append(s \o t, x) /\ s \o t \in Seq(S) /\ Append(t, x) \in Seq(S)
    OBVIOUS
  <2>2. Spread(g, Append(s \o t, x)) = Spread(g, s \o t) \o g[x]
    BY <1>0, <2>1, Zenon
  <2>3. Spread(g, Append(t, x)) = Spread(g, t) \o g[x]
    BY <1>0, Zenon
  <2>4. Spread(g, s \o t) = Spread(g, s) \o Spread(g, t)
    BY <1>2
  <2>5. Spread(g, s) \in Seq(T) /\ Spread(g, t) \in Seq(T) /\ g[x] \in Seq(T)
    BY <1>0, Zenon
  <2>6. (Spread(g, s) \o Spread(g, t)) \o g[x] = Spread(g, s) \o (Spread(g, t) \o g[x])
    <3> DEFINE left == Spread(g, s)
               right == Spread(g, t)
    <3> HIDE DEF left, right
    <3>1. left \in Seq(T) /\ right \in Seq(T) /\ g[x] \in Seq(T)
      BY <2>5 DEF left, right
    <3>2. (left \o right) \o g[x] = left \o (right \o g[x])
      BY <3>1
    <3> QED
      BY <3>2 DEF left, right
  <2>7. Spread(g, s \o Append(t, x)) = Spread(g, s) \o Spread(g, Append(t, x))
    BY <2>1, <2>2, <2>3, <2>4, <2>6, Zenon
  <2> QED
    BY <2>1, <2>7
<1> HIDE DEF Good
<1>3. \A t \in Seq(S) : t \in Good
  BY <1>1, <1>2, SequenceInduction
<1> QED
  BY <1>3 DEF Good

(* A single member stands for what it stands for.                                     *)
LEMMA SpreadOne ==
  ASSUME NEW S, NEW T, NEW g \in [S -> Seq(T)], NEW x \in S
  PROVE  Spread(g, <<x>>) = g[x]
<1>0. /\ Spread(g, <<>>) = <<>>
      /\ \A s \in Seq(S), y \in S : Spread(g, Append(s, y)) = Spread(g, s) \o g[y]
  BY SpreadMore
<1>1. <<x>> = Append(<<>>, x) /\ <<>> \in Seq(S)
  OBVIOUS
<1>2. Spread(g, Append(<<>>, x)) = Spread(g, <<>>) \o g[x]
  BY <1>0, <1>1, Zenon
<1>3. <<>> \o g[x] = g[x]
  OBVIOUS
<1> QED
  BY <1>0, <1>1, <1>2, <1>3, Zenon

\* A prefix stays one when the sequence grows.
LEMMA PrefixOfMore ==
  ASSUME NEW S, NEW s \in Seq(S), NEW t \in Seq(S), IsPrefix(s, t), NEW x \in S
  PROVE  IsPrefix(s, Append(t, x))
<1>1. Len(s) <= Len(t) /\ SubSeq(s, 1, Len(s)) = SubSeq(t, 1, Len(s))
  BY DEF IsPrefix
<1>2. SubSeq(Append(t, x), 1, Len(s)) = SubSeq(t, 1, Len(s))
  BY <1>1
<1>3. Len(s) <= Len(Append(t, x))
  BY <1>1
<1> QED
  BY <1>1, <1>2, <1>3 DEF IsPrefix

(* A selection of a beginning is the beginning of the selection.                     *)
LEMMA SelectedFromBeginning ==
  ASSUME NEW S, NEW seq \in Seq(S), NEW wanted
  PROVE  \A k \in 0 .. Len(seq) :
           IsPrefix(Selected(SubSeq(seq, 1, k), wanted), Selected(seq, wanted))
<1> DEFINE Good == {s \in Seq(S) : \A k \in 0 .. Len(s) :
                      IsPrefix(Selected(SubSeq(s, 1, k), wanted), Selected(s, wanted))}
<1>0. \A s \in Seq(S) : Selected(s, wanted) \in Seq(S)
  BY SelectedMembers
<1>1. \A s \in Seq(S) : IsPrefix(s, s)
  BY DEF IsPrefix
<1>2. <<>> \in Good
  <2>1. \A k \in 0 .. Len(<<>>) : SubSeq(<<>>, 1, k) = <<>>
    OBVIOUS
  <2>2. <<>> \in Seq(S)
    OBVIOUS
  <2>3. IsPrefix(Selected(<<>>, wanted), Selected(<<>>, wanted))
    BY <1>0, <1>1, <2>2
  <2> QED
    BY <2>1, <2>2, <2>3
<1>3. ASSUME NEW s \in Seq(S), NEW x \in S, s \in Good
      PROVE  Append(s, x) \in Good
  <2> DEFINE more == Append(s, x)
  <2>1. more \in Seq(S) /\ Len(more) = Len(s) + 1 /\ SubSeq(more, 1, Len(s) + 1) = more
    OBVIOUS
  <2>2. \A k \in 0 .. Len(s) : SubSeq(more, 1, k) = SubSeq(s, 1, k)
    OBVIOUS
  <2>3. \A k \in 0 .. Len(s) + 1 : k \in 0 .. Len(s) \/ k = Len(s) + 1
    OBVIOUS
  <2>4. Selected(more, wanted) = IF x \in wanted THEN Append(Selected(s, wanted), x)
                                 ELSE Selected(s, wanted)
    BY SelectedWithOneMore
  <2> HIDE DEF more
  <2>5. ASSUME NEW k \in 0 .. Len(s)
        PROVE  IsPrefix(Selected(SubSeq(more, 1, k), wanted), Selected(more, wanted))
    <3>1. SubSeq(s, 1, k) \in Seq(S)
      OBVIOUS
    <3>2. Selected(SubSeq(s, 1, k), wanted) \in Seq(S) /\ Selected(s, wanted) \in Seq(S)
      BY <1>0, <3>1
    <3>3. IsPrefix(Selected(SubSeq(s, 1, k), wanted), Selected(s, wanted))
      BY <1>3
    <3>4. IsPrefix(Selected(SubSeq(s, 1, k), wanted), Append(Selected(s, wanted), x))
      BY <3>2, <3>3, PrefixOfMore
    <3> QED
      BY <2>2, <2>4, <3>3, <3>4
  <2>6. IsPrefix(Selected(SubSeq(more, 1, Len(s) + 1), wanted), Selected(more, wanted))
    BY <1>0, <1>1, <2>1
  <2>7. \A k \in 0 .. Len(more) :
          IsPrefix(Selected(SubSeq(more, 1, k), wanted), Selected(more, wanted))
    BY <2>1, <2>3, <2>5, <2>6
  <2> QED
    BY <2>1, <2>7 DEF more
<1> HIDE DEF Good
<1>4. \A s \in Seq(S) : s \in Good
  BY <1>2, <1>3, SequenceInduction
<1> QED
  BY <1>4 DEF Good
=============================================================================
