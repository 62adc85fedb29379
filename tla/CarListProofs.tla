---------------------------- MODULE CarListProofs ----------------------------
(***************************************************************************)
(* What the operators of CarList compute, for lists of any length: that    *)
(* the bubble sort of list_order_by_year ends with the same cars in stable *)
(* order, what the other operations find and take out, and how many cars   *)
(* of each model they leave.                                               *)
(*                                                                         *)
(* The walk, the sort and list_get_by_year are recursive functions.  That  *)
(* each is what its definition says (that there is such a function) is     *)
(* proved first, then what it computes, both by induction over numbers     *)
(* (NumbersByInduction).                                                   *)
(***************************************************************************)
EXTENDS CarList, FiniteSetTheorems, SequenceTheorems, WellFoundedInduction,
        TLAPS

(* A set of numbers that is not empty has a least one. *)
LEMMA LeastNumber ==
  ASSUME NEW T \in SUBSET Nat, T # {}
  PROVE  \E m \in T : \A n \in T : m <= n
<1>1. IsWellFoundedOn(OpToRel(<, Nat), Nat)
  BY NatLessThanWellFounded
<1>2. PICK m \in T : \A n \in T : ~ (<<n, m>> \in OpToRel(<, Nat))
  BY <1>1, WFMin
<1>3. \A n \in T : ~ (n < m)
  BY <1>2 DEF OpToRel
<1> QED BY <1>3

(* Induction over the numbers, for a set of numbers. *)
LEMMA NumbersByInduction ==
  ASSUME NEW T, 0 \in T, \A n \in Nat : n \in T => n + 1 \in T
  PROVE  Nat \subseteq T
<1> SUFFICES ASSUME Nat \ T # {} PROVE FALSE
  OBVIOUS
<1>1. PICK m \in Nat \ T : \A n \in Nat \ T : m <= n
  BY LeastNumber
<1>2. m - 1 \in Nat /\ m - 1 \notin Nat \ T
  BY <1>1
<1> QED BY <1>1, <1>2

(* The same up to a bound. *)
LEMMA UpToByInduction ==
  ASSUME NEW n \in Nat, NEW T, 0 \in T, \A i \in 0 .. n - 1 : i \in T => i + 1 \in T
  PROVE  0 .. n \subseteq T
<1> DEFINE U == {i \in Nat : i <= n => i \in T}
<1>1. 0 \in U /\ \A i \in Nat : i \in U => i + 1 \in U
  OBVIOUS
<1>2. Nat \subseteq U
  <2> HIDE DEF U
  <2> QED BY <1>1, NumbersByInduction
<1> QED BY <1>2

(* The function inside Walk: the list, as the walk has left it at each     *)
(* node.                                                                   *)
Walked(s) ==
  CHOOSE w : w = [i \in 0 .. Len(s) |->
                    IF i < 2 THEN s ELSE Exchange(w[i - 1], i - 1)]

(* A walk ends with what Walked has at the last node. *)
LEMMA WalkIsWalked == \A s : Walk(s) = Walked(s)[Len(s)]
  BY DEF Walk, Walked

(* The function that Walked chooses exists: the list at a node is          *)
(* determined by the list at the node before.                              *)
LEMMA WalkedDef ==
  ASSUME NEW S, NEW s \in Seq(S)
  PROVE  LET w == Walked(s)
         IN  w = [i \in 0 .. Len(s) |->
                    IF i < 2 THEN s ELSE Exchange(w[i - 1], i - 1)]
<1> DEFINE Is(w, n) ==
      w = [i \in 0 .. n |-> IF i < 2 THEN s ELSE Exchange(w[i - 1], i - 1)]
<1> DEFINE T == {n \in Nat : \E w : Is(w, n)}
<1>1. 0 \in T
  <2>1. Is([i \in 0 .. 0 |-> s], 0)
    OBVIOUS
  <2> QED BY <2>1
<1>2. ASSUME NEW n \in Nat, n \in T PROVE n + 1 \in T
  <2>1. PICK w : Is(w, n)
    BY <1>2
  <2> DEFINE v == [i \in 0 .. n + 1 |-> IF i <= n THEN w[i] ELSE
                     IF i < 2 THEN s ELSE Exchange(w[i - 1], i - 1)]
  <2>2. \A i \in 0 .. n : w[i] = IF i < 2 THEN s ELSE Exchange(w[i - 1], i - 1)
    BY <2>1
  <2>3. \A i \in 0 .. n + 1 : v[i] = IF i < 2 THEN s ELSE Exchange(v[i - 1], i - 1)
    <3> SUFFICES ASSUME NEW i \in 0 .. n + 1
                 PROVE  v[i] = IF i < 2 THEN s ELSE Exchange(v[i - 1], i - 1)
      OBVIOUS
    <3>1. CASE i < 2
      BY <3>1, <2>2
    <3>2. CASE ~ (i < 2)
      <4>1. i - 1 \in 0 .. n /\ v[i - 1] = w[i - 1]
        BY <3>2
      <4> QED BY <4>1, <3>2, <2>2
    <3> QED BY <3>1, <3>2
  <2>4. Is(v, n + 1)
    BY <2>3
  <2> HIDE DEF v, Is
  <2>5. \E x : Is(x, n + 1)
    BY <2>4
  <2> QED BY <2>5
<1>3. Len(s) \in T
  <2> HIDE DEF T
  <2>1. Nat \subseteq T
    BY <1>1, <1>2, NumbersByInduction
  <2> QED BY <2>1
<1> QED BY <1>3 DEF Walked

(* InPlace(s, m): from position m + 1 on, no car has a newer one before it. *)
InPlace(s, m) ==
  \A k \in m + 1 .. Len(s) : \A j \in 1 .. k : s[j].ano <= s[k].ano

(* The elements have a year, as cars do. *)
HaveYears(S) == \A car \in S : car.ano \in Int

(* One step of the walk: where each car goes. *)
LEMMA ExchangeAt ==
  ASSUME NEW S, HaveYears(S), NEW s \in Seq(S), NEW i \in 1 .. Len(s) - 1
  PROVE  LET t == Exchange(s, i)
         IN  /\ t \in Seq(S) /\ Len(t) = Len(s)
             /\ s[i] \in S /\ s[i + 1] \in S
             /\ t[i].ano <= t[i + 1].ano
             /\ s[i].ano <= s[i + 1].ano => t = s
             /\ s[i].ano > s[i + 1].ano => t[i] = s[i + 1] /\ t[i + 1] = s[i]
             /\ \A j \in 1 .. Len(s) : j # i /\ j # i + 1 => t[j] = s[j]
<1>1. Len(s) \in Nat /\ i \in 1 .. Len(s) /\ i + 1 \in 1 .. Len(s) /\ i # i + 1
  OBVIOUS
<1>2. s[i] \in S /\ s[i + 1] \in S
  BY <1>1
<1>3. s[i].ano \in Int /\ s[i + 1].ano \in Int
  BY <1>2 DEF HaveYears
<1>4. CASE s[i].ano > s[i + 1].ano
  <2> DEFINE u == [s EXCEPT ![i] = s[i + 1]]
  <2> DEFINE t == [u EXCEPT ![i + 1] = s[i]]
  <2>1. u \in Seq(S) /\ Len(u) = Len(s)
        /\ \A j \in 1 .. Len(s) : u[j] = IF j = i THEN s[i + 1] ELSE s[j]
    BY <1>1, <1>2, ExceptSeq
  <2>2. t \in Seq(S) /\ Len(t) = Len(u)
        /\ \A j \in 1 .. Len(u) : t[j] = IF j = i + 1 THEN s[i] ELSE u[j]
    <3> HIDE DEF u
    <3> QED BY <2>1, <1>1, <1>2, ExceptSeq
  <2>3. Exchange(s, i) = t
    BY <1>4 DEF Exchange
  <2> HIDE DEF u, t
  <2> QED BY <1>1, <1>2, <1>3, <1>4, <2>1, <2>2, <2>3
<1>5. CASE ~ (s[i].ano > s[i + 1].ano)
  BY <1>1, <1>2, <1>3, <1>5 DEF Exchange
<1> QED BY <1>4, <1>5

(* Leaving a list alone is a stable shuffle of it, *)
LEMMA ShuffleSelf ==
  ASSUME NEW S, NEW s \in Seq(S)
  PROVE  StableShuffle(s, s)
<1> DEFINE at == [i \in DOMAIN s |-> i]
<1>1. at \in [DOMAIN s -> DOMAIN s] /\ \A i \in DOMAIN s : at[i] = i
  OBVIOUS
<1>2. DOMAIN s = 1 .. Len(s) /\ Len(s) \in Nat
  OBVIOUS
<1> HIDE DEF at
<1> QED BY <1>1, <1>2 DEF StableShuffle

(* a stable shuffle of a stable shuffle is one, *)
LEMMA ShuffleTransitive ==
  ASSUME NEW S, NEW r \in Seq(S), NEW s \in Seq(S), NEW t \in Seq(S),
         StableShuffle(r, s), StableShuffle(s, t)
  PROVE  StableShuffle(r, t)
<1>1. PICK p \in [DOMAIN s -> DOMAIN r] :
        /\ \A i \in DOMAIN s : s[i] = r[p[i]]
        /\ \A k \in DOMAIN r : \E i \in DOMAIN s : p[i] = k
        /\ \A i, j \in DOMAIN s :
             i < j => p[i] # p[j] /\ (s[i].ano = s[j].ano => p[i] < p[j])
  BY DEF StableShuffle
<1>2. PICK q \in [DOMAIN t -> DOMAIN s] :
        /\ \A i \in DOMAIN t : t[i] = s[q[i]]
        /\ \A k \in DOMAIN s : \E i \in DOMAIN t : q[i] = k
        /\ \A i, j \in DOMAIN t :
             i < j => q[i] # q[j] /\ (t[i].ano = t[j].ano => q[i] < q[j])
  BY DEF StableShuffle
<1> DEFINE at == [i \in DOMAIN t |-> p[q[i]]]
<1>3. at \in [DOMAIN t -> DOMAIN r] /\ \A i \in DOMAIN t : at[i] = p[q[i]]
  BY <1>1, <1>2
<1> HIDE DEF at
<1>4. \A i \in DOMAIN t : t[i] = r[at[i]]
  BY <1>1, <1>2, <1>3
<1>5. \A k \in DOMAIN r : \E i \in DOMAIN t : at[i] = k
  BY <1>1, <1>2, <1>3
<1>6. ASSUME NEW i \in DOMAIN t, NEW j \in DOMAIN t, i < j
      PROVE  at[i] # at[j] /\ (t[i].ano = t[j].ano => at[i] < at[j])
  <2>1. q[i] \in DOMAIN s /\ q[j] \in DOMAIN s /\ q[i] # q[j]
    BY <1>2, <1>6
  <2>2. q[i] \in Nat /\ q[j] \in Nat
    BY <2>1
  <2>3. p[q[i]] # p[q[j]]
    BY <1>1, <2>1, <2>2
  <2>4. ASSUME t[i].ano = t[j].ano PROVE at[i] < at[j]
    BY <1>1, <1>2, <1>3, <1>6, <2>1, <2>4
  <2> QED BY <2>3, <2>4, <1>3
<1>7. Len(t) = Len(r)
  BY DEF StableShuffle
<1> QED BY <1>3, <1>4, <1>5, <1>6, <1>7 DEF StableShuffle

(* and so is an exchange of neighbours, which have different years. *)
LEMMA ShuffleExchange ==
  ASSUME NEW S, HaveYears(S), NEW s \in Seq(S), NEW k \in 1 .. Len(s) - 1
  PROVE  StableShuffle(s, Exchange(s, k))
<1> DEFINE t == Exchange(s, k)
<1>1. /\ t \in Seq(S) /\ Len(t) = Len(s)
      /\ s[k].ano <= s[k + 1].ano => t = s
      /\ s[k].ano > s[k + 1].ano => t[k] = s[k + 1] /\ t[k + 1] = s[k]
      /\ \A j \in 1 .. Len(s) : j # k /\ j # k + 1 => t[j] = s[j]
      /\ s[k].ano \in Int /\ s[k + 1].ano \in Int
  BY ExchangeAt DEF HaveYears
<1>2. DOMAIN t = 1 .. Len(s) /\ DOMAIN s = 1 .. Len(s) /\ Len(s) \in Nat
  BY <1>1
<1> HIDE DEF t
<1>3. CASE s[k].ano <= s[k + 1].ano
  BY <1>1, <1>3, ShuffleSelf DEF t
<1>4. CASE s[k].ano > s[k + 1].ano
  <2> DEFINE at == [i \in 1 .. Len(s) |->
                      IF i = k THEN k + 1 ELSE IF i = k + 1 THEN k ELSE i]
  <2>1. at \in [1 .. Len(s) -> 1 .. Len(s)]
    BY <1>2
  <2>2. at[k] = k + 1 /\ at[k + 1] = k
        /\ \A i \in 1 .. Len(s) : i # k /\ i # k + 1 => at[i] = i
    BY <1>2
  <2> HIDE DEF at
  <2>3. \A i \in 1 .. Len(s) : t[i] = s[at[i]]
    BY <1>1, <1>2, <1>4, <2>2
  <2>4. \A j \in 1 .. Len(s) : \E i \in 1 .. Len(s) : at[i] = j
    BY <1>2, <2>2
  <2>5. ASSUME NEW i \in 1 .. Len(s), NEW j \in 1 .. Len(s), i < j
        PROVE  at[i] # at[j] /\ (t[i].ano = t[j].ano => at[i] < at[j])
    <3>1. CASE i = k /\ j = k + 1
      BY <1>1, <1>4, <2>2, <3>1
    <3>2. CASE ~ (i = k /\ j = k + 1)
      BY <1>2, <2>2, <2>5, <3>2
    <3> QED BY <3>1, <3>2
  <2>6. \E f \in [DOMAIN t -> DOMAIN s] :
          /\ \A i \in DOMAIN t : t[i] = s[f[i]]
          /\ \A j \in DOMAIN s : \E i \in DOMAIN t : f[i] = j
          /\ \A i, j \in DOMAIN t :
               i < j => f[i] # f[j] /\ (t[i].ano = t[j].ano => f[i] < f[j])
    BY <1>2, <2>1, <2>3, <2>4, <2>5
  <2> QED BY <1>1, <2>6 DEF StableShuffle, t
<1> QED BY <1>1, <1>3, <1>4

(* When the walk has come to node i, the car there is the newest so far,   *)
(* unless the walk has passed the cars that are out of place.              *)
Placed(w, m, i) ==
  /\ InPlace(w, m + 1)
  /\ IF i <= m THEN \A j \in 1 .. i : w[j].ano <= w[i].ano
               ELSE InPlace(w, m)

(* An exchange takes Placed from one node to the next. *)
LEMMA WalkStep ==
  ASSUME NEW S, HaveYears(S), NEW s \in Seq(S), NEW w \in Seq(S),
         Len(w) = Len(s), NEW m \in Nat, NEW i \in 1 .. Len(s) - 1,
         Placed(w, m, i)
  PROVE  Placed(Exchange(w, i), m, i + 1)
<1> USE DEF Placed
<1> DEFINE v == Exchange(w, i)
<1>1. /\ v \in Seq(S) /\ Len(v) = Len(w)
      /\ w[i] \in S /\ w[i + 1] \in S
      /\ v[i].ano <= v[i + 1].ano
      /\ w[i].ano <= w[i + 1].ano => v = w
      /\ w[i].ano > w[i + 1].ano => v[i] = w[i + 1] /\ v[i + 1] = w[i]
      /\ \A j \in 1 .. Len(w) : j # i /\ j # i + 1 => v[j] = w[j]
  BY ExchangeAt
<1>2. \A j \in 1 .. Len(w) : w[j].ano \in Int /\ v[j].ano \in Int
  BY <1>1 DEF HaveYears
<1>3. Len(w) \in Nat
  OBVIOUS
<1> HIDE DEF v
<1>4. CASE w[i].ano <= w[i + 1].ano
  <2>1. v = w
    BY <1>1, <1>4
  <2>2. CASE i <= m
    <3>1. \A j \in 1 .. i + 1 : w[j].ano <= w[i + 1].ano
      BY <1>2, <1>3, <1>4, <2>2
    <3>2. i + 1 > m => InPlace(w, m)
      BY <1>3, <2>2, <3>1 DEF InPlace
    <3> QED BY <2>1, <3>1, <3>2 DEF v
  <2>3. CASE i > m
    BY <2>1, <2>3 DEF v
  <2> QED BY <2>2, <2>3
<1>5. CASE w[i].ano > w[i + 1].ano
  <2>1. i <= m
    <3> SUFFICES ASSUME i > m PROVE FALSE
      OBVIOUS
    <3>1. InPlace(w, m) /\ i + 1 \in m + 1 .. Len(w) /\ i \in 1 .. i + 1
      BY <1>3
    <3> QED BY <3>1, <1>5, <1>2, <1>3 DEF InPlace
  <2>2. \A j \in 1 .. i + 1 : v[j].ano <= v[i + 1].ano
    BY <1>1, <1>2, <1>3, <1>5, <2>1
  <2>3. InPlace(v, m + 1)
    <3> SUFFICES ASSUME NEW k \in m + 1 + 1 .. Len(v), NEW j \in 1 .. k
                 PROVE  v[j].ano <= v[k].ano
      BY DEF InPlace
    <3>1. k \in 1 .. Len(w) /\ k # i /\ k # i + 1 /\ i \in 1 .. k /\ i + 1 \in 1 .. k
      BY <1>1, <1>3, <2>1
    <3>2. v[k] = w[k]
      BY <1>1, <3>1
    <3>3. \A l \in 1 .. k : w[l].ano <= w[k].ano
      BY <1>1 DEF InPlace
    <3>4. v[j] = w[j] \/ v[j] = w[i] \/ v[j] = w[i + 1]
      BY <1>1, <1>3, <1>5, <3>1
    <3> QED BY <3>1, <3>2, <3>3, <3>4
  <2>4. i + 1 > m => InPlace(v, m)
    <3> SUFFICES ASSUME i + 1 > m, NEW k \in m + 1 .. Len(v), NEW j \in 1 .. k
                 PROVE  v[j].ano <= v[k].ano
      BY DEF InPlace
    <3>1. CASE k = m + 1
      BY <2>1, <2>2, <3>1
    <3>2. CASE k # m + 1
      BY <2>3, <3>2, <1>1, <1>3 DEF InPlace
    <3> QED BY <3>1, <3>2
  <2> QED BY <2>2, <2>3, <2>4 DEF v
<1> QED BY <1>1, <1>2, <1>4, <1>5

(* Along the walk the list is a stable shuffle of what it was, *)
LEMMA WalkedShuffles ==
  ASSUME NEW S, HaveYears(S), NEW s \in Seq(S), NEW i \in 0 .. Len(s)
  PROVE  /\ Walked(s)[i] \in Seq(S) /\ Len(Walked(s)[i]) = Len(s)
         /\ StableShuffle(s, Walked(s)[i])
<1> DEFINE w == Walked(s)
<1>1. \A k \in 0 .. Len(s) : w[k] = IF k < 2 THEN s ELSE Exchange(w[k - 1], k - 1)
  BY WalkedDef
<1>2. Len(s) \in Nat
  OBVIOUS
<1> HIDE DEF w
<1> DEFINE T == {k \in Nat : /\ w[k] \in Seq(S) /\ Len(w[k]) = Len(s)
                            /\ StableShuffle(s, w[k])}
<1>3. 0 \in T
  BY <1>1, <1>2, ShuffleSelf
<1>4. ASSUME NEW k \in 0 .. Len(s) - 1, k \in T PROVE k + 1 \in T
  <2>1. CASE k = 0
    BY <1>1, <1>2, <2>1, ShuffleSelf
  <2>2. CASE k # 0
    <3>1. w[k + 1] = Exchange(w[k], k) /\ w[k] \in Seq(S) /\ k \in 1 .. Len(w[k]) - 1
      BY <1>1, <1>2, <1>4, <2>2
    <3>2. w[k + 1] \in Seq(S) /\ Len(w[k + 1]) = Len(s)
      BY <3>1, <1>4, ExchangeAt
    <3>3. StableShuffle(w[k], w[k + 1])
      BY <3>1, ShuffleExchange
    <3> QED BY <3>1, <3>2, <3>3, <1>4, ShuffleTransitive
  <2> QED BY <2>1, <2>2
<1>5. i \in T
  <2> HIDE DEF T
  <2> QED BY <1>2, <1>3, <1>4, UpToByInduction
<1> QED BY <1>5 DEF w

(* and so it is after the walk. *)
LEMMA WalkShuffles ==
  ASSUME NEW S, HaveYears(S), NEW s \in Seq(S)
  PROVE  Walk(s) \in Seq(S) /\ Len(Walk(s)) = Len(s) /\ StableShuffle(s, Walk(s))
<1>1. Len(s) \in 0 .. Len(s)
  OBVIOUS
<1> QED BY <1>1, WalkedShuffles, WalkIsWalked

(* A walk puts one more car into its place, the newest of those that are   *)
(* not in theirs.                                                          *)
LEMMA WalkSorts ==
  ASSUME NEW S, HaveYears(S), NEW s \in Seq(S), NEW m \in 0 .. Len(s) - 1,
         InPlace(s, m + 1)
  PROVE  InPlace(Walk(s), m)
<1> DEFINE w == Walked(s)
<1>1. \A i \in 0 .. Len(s) : w[i] = IF i < 2 THEN s ELSE Exchange(w[i - 1], i - 1)
  BY WalkedDef
<1>2. Len(s) \in Nat /\ 1 <= Len(s)
  OBVIOUS
<1>3. \A i \in 0 .. Len(s) : w[i] \in Seq(S) /\ Len(w[i]) = Len(s)
  BY WalkedShuffles
<1> HIDE DEF w
<1> DEFINE T == {i \in Nat : Placed(w[i + 1], m, i + 1)}
<1>4. 0 \in T
  <2>1. w[0 + 1] = s
    BY <1>1, <1>2
  <2>2. s[1].ano <= s[1].ano
    BY <1>2 DEF HaveYears
  <2>3. m = 0 => InPlace(s, m)
    BY <1>2, <2>2 DEF InPlace
  <2> QED BY <2>1, <2>2, <2>3, <1>2 DEF Placed
<1>5. ASSUME NEW i \in 0 .. Len(s) - 1 - 1, i \in T PROVE i + 1 \in T
  <2>1. w[i + 1 + 1] = Exchange(w[i + 1], i + 1)
    BY <1>1, <1>2
  <2>2. i + 1 \in 1 .. Len(s) - 1 /\ w[i + 1] \in Seq(S) /\ Len(w[i + 1]) = Len(s)
    BY <1>2, <1>3
  <2>3. Placed(w[i + 1 + 1], m, i + 1 + 1)
    BY <2>1, <2>2, <1>5, WalkStep
  <2> QED BY <2>3
<1>6. Len(s) - 1 \in T
  <2> HIDE DEF T
  <2>1. Len(s) - 1 \in Nat
    BY <1>2
  <2>2. 0 .. Len(s) - 1 \subseteq T
    BY <2>1, <1>4, <1>5, UpToByInduction
  <2> QED BY <2>1, <2>2
<1>7. Placed(w[Len(s)], m, Len(s))
  BY <1>2, <1>6
<1> QED BY <1>2, <1>7, WalkIsWalked DEF w, Placed

(* A walk along a sorted list exchanges nothing. *)
LEMMA WalkKeepsSorted ==
  ASSUME NEW S, HaveYears(S), NEW s \in Seq(S), InPlace(s, 0)
  PROVE  Walk(s) = s
<1> DEFINE w == Walked(s)
<1>1. \A i \in 0 .. Len(s) : w[i] = IF i < 2 THEN s ELSE Exchange(w[i - 1], i - 1)
  BY WalkedDef
<1>2. Len(s) \in Nat
  OBVIOUS
<1> HIDE DEF w
<1> DEFINE T == {i \in Nat : w[i] = s}
<1>3. 0 \in T
  BY <1>1, <1>2
<1>4. ASSUME NEW i \in 0 .. Len(s) - 1, i \in T PROVE i + 1 \in T
  <2>1. CASE i = 0
    BY <1>1, <1>2, <2>1
  <2>2. CASE i # 0
    <3>1. w[i + 1] = Exchange(s, i) /\ i \in 1 .. Len(s) - 1
      BY <1>1, <1>2, <1>4, <2>2
    <3>2. s[i].ano <= s[i + 1].ano
      BY <3>1 DEF InPlace
    <3> QED BY <3>1, <3>2, ExchangeAt
  <2> QED BY <2>1, <2>2
<1>5. Len(s) \in T
  <2> HIDE DEF T
  <2>1. 0 .. Len(s) \subseteq T
    BY <1>2, <1>3, <1>4, UpToByInduction
  <2> QED BY <1>2, <2>1
<1> QED BY <1>5, WalkIsWalked DEF w

(***************************************************************************)
(* The loop around the walks has a result: what further walks no longer    *)
(* change and can be reached by walks (is in every set that has the list   *)
(* and, with a list, the list after one more walk).                        *)
(***************************************************************************)
Reached(s, U) ==
  {t \in U : \A C \in SUBSET U :
     s \in C /\ (\A x \in C : Walk(x) \in C) => t \in C}

Results(s, U) == {t \in Reached(s, U) : Walk(t) = t}

(* The function inside SortByYear, on a set of lists that walks do not     *)
(* leave.                                                                  *)
SortedBy(U) ==
  CHOOSE f : f = [s \in U |-> IF Walk(s) = s THEN s ELSE f[Walk(s)]]

(* The sort of a list is SortedBy on the lists of its own cars. *)
LEMMA SortIsSortedBy == \A s : SortByYear(s) = SortedBy(Seq(ToSet(s)))[s]
  BY DEF SortByYear, SortedBy

(* The function that SortedBy chooses exists, whether or not the walks     *)
(* from a list come to an end: choose one of the Results of each list.     *)
LEMMA SortedByDef ==
  ASSUME NEW U, \A s \in U : Walk(s) \in U
  PROVE  LET f == SortedBy(U)
         IN  f = [s \in U |-> IF Walk(s) = s THEN s ELSE f[Walk(s)]]
<1> DEFINE g == [s \in U |-> CHOOSE t : t \in Results(s, U)]
<1>1. ASSUME NEW s \in U
      PROVE  g[s] = IF Walk(s) = s THEN s ELSE g[Walk(s)]
  <2>1. CASE Walk(s) = s
    <3>1. {s} \in SUBSET U /\ \A x \in {s} : Walk(x) \in {s}
      BY <2>1
    <3>2. Results(s, U) = {s}
      BY <2>1, <3>1 DEF Results, Reached
    <3> QED BY <2>1, <3>2
  <2>2. CASE Walk(s) # s
    <3>1. ASSUME NEW t \in Results(s, U) PROVE t \in Results(Walk(s), U)
      <4> SUFFICES ASSUME NEW C \in SUBSET U, Walk(s) \in C,
                          \A x \in C : Walk(x) \in C
                   PROVE  t \in C
        BY <3>1 DEF Results, Reached
      <4>1. C \cup {s} \in SUBSET U /\ \A x \in C \cup {s} : Walk(x) \in C \cup {s}
        OBVIOUS
      <4>2. t \in C \cup {s}
        BY <3>1, <4>1 DEF Results, Reached
      <4>3. t # s
        BY <3>1, <2>2 DEF Results
      <4> QED BY <4>2, <4>3
    <3>2. ASSUME NEW t \in Results(Walk(s), U) PROVE t \in Results(s, U)
      BY <3>2 DEF Results, Reached
    <3>3. Results(s, U) = Results(Walk(s), U)
      BY <3>1, <3>2
    <3> QED BY <2>2, <3>3
  <2> QED BY <2>1, <2>2
<1> HIDE DEF g
<1>2. g = [s \in U |-> IF Walk(s) = s THEN s ELSE g[Walk(s)]]
  <2>1. g = [s \in U |-> g[s]]
    BY DEF g
  <2> QED BY <1>1, <2>1
<1>3. \E f : f = [s \in U |-> IF Walk(s) = s THEN s ELSE f[Walk(s)]]
  BY <1>2
<1> QED BY <1>3 DEF SortedBy

(***************************************************************************)
(* The bubble sort of list_order_by_year ends, and with the same cars,     *)
(* oldest first, those of one year in the order they had.                  *)
(***************************************************************************)
THEOREM SortByYearSorts ==
  ASSUME NEW S, HaveYears(S), NEW s \in Seq(S)
  PROVE  LET t == SortByYear(s)
         IN  t \in Seq(S) /\ Len(t) = Len(s) /\ StablySorted(s, t)
<1> DEFINE R == ToSet(s)
           U == Seq(R)
           f == SortedBy(U)
<1>1. R \subseteq S /\ s \in U /\ HaveYears(R)
  <2>1. DOMAIN s = 1 .. Len(s) /\ Len(s) \in Nat /\ \A i \in DOMAIN s : s[i] \in S
    OBVIOUS
  <2>2. R \subseteq S /\ \A i \in 1 .. Len(s) : s[i] \in R
    BY <2>1 DEF ToSet
  <2> QED BY <2>1, <2>2 DEF HaveYears
<1> HIDE DEF R
<1>2. \A x \in U : Walk(x) \in U /\ Len(Walk(x)) = Len(x) /\ StableShuffle(x, Walk(x))
  BY <1>1, WalkShuffles
<1>3. \A x \in U : f[x] = IF Walk(x) = x THEN x ELSE f[Walk(x)]
  <2>1. f = [x \in U |-> IF Walk(x) = x THEN x ELSE f[Walk(x)]]
    BY <1>2, SortedByDef
  <2> QED BY <2>1
<1> HIDE DEF f
<1> DEFINE Sorts(x) == /\ f[x] \in U /\ Len(f[x]) = Len(x)
                       /\ StableShuffle(x, f[x]) /\ InPlace(f[x], 0)
<1> DEFINE T == {m \in Nat : \A x \in U : InPlace(x, m) => Sorts(x)}
<1>4. 0 \in T
  BY <1>1, <1>3, WalkKeepsSorted, ShuffleSelf
<1>5. ASSUME NEW m \in Nat, m \in T PROVE m + 1 \in T
  <2> SUFFICES ASSUME NEW x \in U, InPlace(x, m + 1) PROVE Sorts(x)
    OBVIOUS
  <2>1. CASE m < Len(x)
    <3>1. InPlace(Walk(x), m)
      BY <2>1, <1>1, WalkSorts
    <3>2. Sorts(Walk(x))
      BY <1>2, <1>5, <3>1
    <3>3. f[x] = f[Walk(x)]
      BY <1>3
    <3> HIDE DEF U
    <3> QED BY <3>2, <3>3, <1>2, ShuffleTransitive DEF U
  <2>2. CASE ~ (m < Len(x))
    <3>1. InPlace(x, m)
      BY <2>2 DEF InPlace
    <3> QED BY <1>5, <3>1
  <2> QED BY <2>1, <2>2
<1>6. Len(s) \in T
  <2> HIDE DEF T
  <2> QED BY <1>4, <1>5, NumbersByInduction
<1>7. Sorts(s)
  <2>1. InPlace(s, Len(s))
    BY DEF InPlace
  <2> QED BY <1>1, <1>6, <2>1
<1>8. \A i, j \in DOMAIN f[s] : i < j => f[s][i].ano <= f[s][j].ano
  BY <1>7 DEF InPlace
<1>9. f[s] \in Seq(S)
  BY <1>1, <1>7, SeqMonotonic
<1>10. SortByYear(s) = f[s]
  BY SortIsSortedBy DEF f, R
<1> QED BY <1>7, <1>8, <1>9, <1>10 DEF StablySorted

-----------------------------------------------------------------------------
(* The other operations. *)

(* The array that list_get_by_year fills, node by node. *)
ArrayOf(s, ano) ==
  CHOOSE a : a = [i \in 0 .. Len(s) |->
                    IF i = 0 THEN <<>> ELSE Collect(a[i - 1], s[i], ano)]

(* list_get_by_year returns what ArrayOf has at the last node. *)
LEMMA GetByYearIsArray ==
  \A list, ano : list_get_by_year(list, ano) = ArrayOf(list.cars, ano)[Len(list.cars)]
  BY DEF list_get_by_year, ArrayOf

(* The function that ArrayOf chooses exists, as for the walk. *)
LEMMA ArrayDef ==
  ASSUME NEW S, NEW s \in Seq(S), NEW ano
  PROVE  LET a == ArrayOf(s, ano)
         IN  a = [i \in 0 .. Len(s) |->
                    IF i = 0 THEN <<>> ELSE Collect(a[i - 1], s[i], ano)]
<1> DEFINE Is(a, n) ==
      a = [i \in 0 .. n |-> IF i = 0 THEN <<>> ELSE Collect(a[i - 1], s[i], ano)]
<1> DEFINE T == {n \in Nat : \E a : Is(a, n)}
<1>1. 0 \in T
  <2>1. Is([i \in 0 .. 0 |-> <<>>], 0)
    OBVIOUS
  <2> QED BY <2>1
<1>2. ASSUME NEW n \in Nat, n \in T PROVE n + 1 \in T
  <2>1. PICK a : Is(a, n)
    BY <1>2
  <2> DEFINE b == [i \in 0 .. n + 1 |-> IF i <= n THEN a[i] ELSE
                     IF i = 0 THEN <<>> ELSE Collect(a[i - 1], s[i], ano)]
  <2>2. \A i \in 0 .. n : a[i] = IF i = 0 THEN <<>> ELSE Collect(a[i - 1], s[i], ano)
    BY <2>1
  <2>3. \A i \in 0 .. n + 1 : b[i] = IF i = 0 THEN <<>> ELSE Collect(b[i - 1], s[i], ano)
    <3> SUFFICES ASSUME NEW i \in 0 .. n + 1
                 PROVE  b[i] = IF i = 0 THEN <<>> ELSE Collect(b[i - 1], s[i], ano)
      OBVIOUS
    <3>1. CASE i = 0
      BY <3>1, <2>2
    <3>2. CASE i # 0
      <4>1. i - 1 \in 0 .. n /\ b[i - 1] = a[i - 1]
        BY <3>2
      <4> QED BY <4>1, <3>2, <2>2
    <3> QED BY <3>1, <3>2
  <2>4. Is(b, n + 1)
    BY <2>3
  <2> HIDE DEF b, Is
  <2>5. \E x : Is(x, n + 1)
    BY <2>4
  <2> QED BY <2>5
<1>3. Len(s) \in T
  <2> HIDE DEF T
  <2>1. Nat \subseteq T
    BY <1>1, <1>2, NumbersByInduction
  <2> QED BY <2>1
<1> QED BY <1>3 DEF ArrayOf

(* a has the cars of that year among the first n of s, in list order. *)
FoundUpTo(s, n, a, ano) ==
  \E at \in [1 .. Len(a) -> 1 .. n] :
    /\ \A i, j \in 1 .. Len(a) : i < j => at[i] < at[j]
    /\ \A i \in 1 .. Len(a) : a[i] = s[at[i]]
    /\ \A k \in 1 .. n : s[k].ano = ano <=> \E i \in 1 .. Len(a) : at[i] = k

(* One more node: its car is added if it is of that year. *)
LEMMA CollectNext ==
  ASSUME NEW S, NEW s \in Seq(S), NEW ano, NEW n \in 0 .. Len(s) - 1,
         NEW a \in Seq(S), FoundUpTo(s, n, a, ano)
  PROVE  FoundUpTo(s, n + 1, Collect(a, s[n + 1], ano), ano)
<1>1. n \in Nat /\ n + 1 \in 1 .. Len(s) /\ s[n + 1] \in S /\ Len(a) \in Nat
  OBVIOUS
<1>2. PICK at \in [1 .. Len(a) -> 1 .. n] :
        /\ \A i, j \in 1 .. Len(a) : i < j => at[i] < at[j]
        /\ \A i \in 1 .. Len(a) : a[i] = s[at[i]]
        /\ \A k \in 1 .. n : s[k].ano = ano <=> \E i \in 1 .. Len(a) : at[i] = k
  BY DEF FoundUpTo
<1>3. CASE s[n + 1].ano = ano
  <2> DEFINE b == Append(a, s[n + 1])
             bt == [i \in 1 .. Len(a) + 1 |-> IF i <= Len(a) THEN at[i] ELSE n + 1]
  <2>1. /\ Len(b) = Len(a) + 1 /\ \A i \in 1 .. Len(a) : b[i] = a[i]
        /\ b[Len(a) + 1] = s[n + 1]
    BY <1>1, AppendProperties
  <2>2. bt \in [1 .. Len(a) + 1 -> 1 .. n + 1]
    BY <1>1
  <2>3. /\ \A i \in 1 .. Len(a) : bt[i] = at[i] /\ at[i] \in 1 .. n
        /\ bt[Len(a) + 1] = n + 1
    BY <1>1
  <2> HIDE DEF b, bt
  <2>4. \A i, j \in 1 .. Len(a) + 1 : i < j => bt[i] < bt[j]
    <3> SUFFICES ASSUME NEW i \in 1 .. Len(a) + 1, NEW j \in 1 .. Len(a) + 1, i < j
                 PROVE  bt[i] < bt[j]
      OBVIOUS
    <3>1. i \in 1 .. Len(a) /\ bt[i] = at[i] /\ at[i] \in 1 .. n
      BY <1>1, <2>3
    <3>2. CASE j = Len(a) + 1
      BY <1>1, <2>3, <3>1, <3>2
    <3>3. CASE j # Len(a) + 1
      <4>1. j \in 1 .. Len(a)
        BY <1>1, <3>3
      <4>2. at[i] < at[j] /\ bt[j] = at[j]
        BY <1>2, <2>3, <3>1, <4>1
      <4> QED BY <3>1, <4>2
    <3> QED BY <3>2, <3>3
  <2>5. \A i \in 1 .. Len(a) + 1 : b[i] = s[bt[i]]
    <3> SUFFICES ASSUME NEW i \in 1 .. Len(a) + 1 PROVE b[i] = s[bt[i]]
      OBVIOUS
    <3>1. CASE i = Len(a) + 1
      BY <2>1, <2>3, <3>1
    <3>2. CASE i # Len(a) + 1
      <4>1. i \in 1 .. Len(a)
        BY <1>1, <3>2
      <4> QED BY <1>2, <2>1, <2>3, <4>1
    <3> QED BY <3>1, <3>2
  <2>6. \A k \in 1 .. n + 1 : s[k].ano = ano <=> \E i \in 1 .. Len(a) + 1 : bt[i] = k
    <3> SUFFICES ASSUME NEW k \in 1 .. n + 1
                 PROVE  s[k].ano = ano <=> \E i \in 1 .. Len(a) + 1 : bt[i] = k
      OBVIOUS
    <3>1. CASE k = n + 1
      <4>1. Len(a) + 1 \in 1 .. Len(a) + 1
        BY <1>1
      <4> QED BY <1>3, <2>3, <3>1, <4>1
    <3>2. CASE k # n + 1
      <4>1. k \in 1 .. n
        BY <1>1, <3>2
      <4>2. ASSUME NEW i \in 1 .. Len(a), at[i] = k
            PROVE  \E l \in 1 .. Len(a) + 1 : bt[l] = k
        <5>1. i \in 1 .. Len(a) + 1 /\ bt[i] = k
          BY <1>1, <2>3, <4>2
        <5> QED BY <5>1
      <4>3. ASSUME NEW i \in 1 .. Len(a) + 1, bt[i] = k
            PROVE  \E l \in 1 .. Len(a) : at[l] = k
        <5>1. i \in 1 .. Len(a)
          BY <1>1, <2>3, <3>2, <4>3
        <5> QED BY <2>3, <4>3, <5>1
      <4> QED BY <1>2, <4>1, <4>2, <4>3
    <3> QED BY <3>1, <3>2
  <2>7. 1 .. Len(b) = 1 .. Len(a) + 1
    BY <2>1
  <2>8. FoundUpTo(s, n + 1, b, ano)
    <3>1. bt \in [1 .. Len(b) -> 1 .. n + 1]
      BY <2>2, <2>7
    <3>2. /\ \A i, j \in 1 .. Len(b) : i < j => bt[i] < bt[j]
          /\ \A i \in 1 .. Len(b) : b[i] = s[bt[i]]
          /\ \A k \in 1 .. n + 1 :
               s[k].ano = ano <=> \E i \in 1 .. Len(b) : bt[i] = k
      BY <2>4, <2>5, <2>6, <2>7
    <3> QED BY <3>1, <3>2 DEF FoundUpTo
  <2> QED BY <1>3, <2>8 DEF b, Collect
<1>4. CASE s[n + 1].ano # ano
  <2>1. at \in [1 .. Len(a) -> 1 .. n + 1] /\ \A i \in 1 .. Len(a) : at[i] # n + 1
    BY <1>1
  <2>2. \A k \in 1 .. n + 1 : s[k].ano = ano <=> \E i \in 1 .. Len(a) : at[i] = k
    <3> SUFFICES ASSUME NEW k \in 1 .. n + 1
                 PROVE  s[k].ano = ano <=> \E i \in 1 .. Len(a) : at[i] = k
      OBVIOUS
    <3>1. CASE k = n + 1
      BY <1>4, <2>1, <3>1
    <3>2. CASE k # n + 1
      BY <1>1, <1>2, <3>2
    <3> QED BY <3>1, <3>2
  <2>3. FoundUpTo(s, n + 1, a, ano)
    BY <1>2, <2>1, <2>2 DEF FoundUpTo
  <2> QED BY <1>4, <2>3 DEF Collect
<1> QED BY <1>3, <1>4

(* list_get_by_year returns the cars of that year, in list order. *)
LEMMA GetByYearFinds ==
  ASSUME NEW S, NEW list, list.cars \in Seq(S), NEW ano
  PROVE  /\ list_get_by_year(list, ano) \in Seq(S)
         /\ CarsOfYear(list.cars, list_get_by_year(list, ano), ano)
<1> DEFINE s == list.cars
           a == ArrayOf(s, ano)
<1>1. Len(s) \in Nat
  OBVIOUS
<1>2. \A i \in 0 .. Len(s) : a[i] = IF i = 0 THEN <<>> ELSE Collect(a[i - 1], s[i], ano)
  <2>1. a = [i \in 0 .. Len(s) |-> IF i = 0 THEN <<>> ELSE Collect(a[i - 1], s[i], ano)]
    BY ArrayDef
  <2> HIDE DEF a
  <2> QED BY <2>1
<1> HIDE DEF a
<1> DEFINE T == {n \in Nat : a[n] \in Seq(S) /\ FoundUpTo(s, n, a[n], ano)}
<1>3. 0 \in T
  <2>1. a[0] = <<>> /\ <<>> \in Seq(S) /\ Len(<<>>) = 0
    BY <1>1, <1>2
  <2>2. <<>> \in [1 .. 0 -> 1 .. 0] /\ 1 .. 0 = {}
    OBVIOUS
  <2>3. FoundUpTo(s, 0, <<>>, ano)
    BY <2>1, <2>2 DEF FoundUpTo
  <2> QED BY <2>1, <2>3
<1>4. ASSUME NEW n \in 0 .. Len(s) - 1, n \in T PROVE n + 1 \in T
  <2>1. a[n + 1] = Collect(a[n], s[n + 1], ano)
    BY <1>1, <1>2
  <2>2. a[n] \in Seq(S) /\ s[n + 1] \in S /\ FoundUpTo(s, n, a[n], ano)
    BY <1>4
  <2>3. a[n + 1] \in Seq(S)
    BY <2>1, <2>2 DEF Collect
  <2>4. FoundUpTo(s, n + 1, a[n + 1], ano)
    BY <2>1, <2>2, CollectNext
  <2>5. n + 1 \in Nat
    BY <1>1
  <2> QED BY <2>3, <2>4, <2>5
<1>5. Len(s) \in T
  <2> HIDE DEF T
  <2>1. 0 .. Len(s) \subseteq T
    BY <1>1, <1>3, <1>4, UpToByInduction
  <2> QED BY <1>1, <2>1
<1> DEFINE r == a[Len(s)]
<1>6. r \in Seq(S) /\ FoundUpTo(s, Len(s), r, ano)
  BY <1>5
<1>7. list_get_by_year(list, ano) = r
  BY GetByYearIsArray DEF a
<1> HIDE DEF r
<1>8. DOMAIN r = 1 .. Len(r) /\ DOMAIN s = 1 .. Len(s)
  BY <1>6
<1>9. CarsOfYear(s, r, ano)
  <2>1. PICK at \in [1 .. Len(r) -> 1 .. Len(s)] :
          /\ \A i, j \in 1 .. Len(r) : i < j => at[i] < at[j]
          /\ \A i \in 1 .. Len(r) : r[i] = s[at[i]]
          /\ \A k \in 1 .. Len(s) :
               s[k].ano = ano <=> \E i \in 1 .. Len(r) : at[i] = k
    BY <1>6 DEF FoundUpTo
  <2>2. at \in [DOMAIN r -> DOMAIN s]
    BY <1>8
  <2>3. /\ \A i, j \in DOMAIN r : i < j => at[i] < at[j]
        /\ \A i \in DOMAIN r : r[i] = s[at[i]]
        /\ \A k \in DOMAIN s : s[k].ano = ano <=> \E i \in DOMAIN r : at[i] = k
    BY <1>8, <2>1
  <2> QED BY <2>2, <2>3 DEF CarsOfYear
<1> QED BY <1>6, <1>7, <1>9

(* Removing what is at a position leaves the rest in order. *)
LEMMA RemoveAtPosition ==
  ASSUME NEW S, NEW s \in Seq(S), NEW i \in 1 .. Len(s)
  PROVE  RemoveAt(s, i) \in Seq(S) /\ WithoutPosition(s, RemoveAt(s, i), i)
<1> DEFINE l == SubSeq(s, 1, i - 1)
           r == SubSeq(s, i + 1, Len(s))
<1>1. /\ l \in Seq(S) /\ Len(l) = i - 1 /\ \A j \in 1 .. i - 1 : l[j] = s[j]
      /\ r \in Seq(S) /\ Len(r) = Len(s) - i
      /\ \A j \in 1 .. Len(s) - i : r[j] = s[j + i]
  OBVIOUS
<1> HIDE DEF l, r
<1>2. /\ l \o r \in Seq(S) /\ Len(l \o r) = Len(s) - 1
      /\ \A j \in 1 .. Len(s) - 1 : (l \o r)[j] = IF j < i THEN s[j] ELSE s[j + 1]
  <2>1. /\ l \o r \in Seq(S) /\ Len(l \o r) = Len(l) + Len(r)
        /\ \A j \in 1 .. Len(l) + Len(r) :
             (l \o r)[j] = IF j <= Len(l) THEN l[j] ELSE r[j - Len(l)]
    BY <1>1, ConcatProperties
  <2> QED BY <1>1, <2>1
<1>3. RemoveAt(s, i) = l \o r
  BY DEF RemoveAt, l, r
<1> HIDE DEF RemoveAt
<1>4. DOMAIN (l \o r) = 1 .. Len(s) - 1
  BY <1>2
<1> QED BY <1>2, <1>3, <1>4 DEF WithoutPosition

(* The least position of a set of positions, or 0. *)
LEMMA FirstPosition ==
  ASSUME NEW n \in Nat, NEW I \in SUBSET (1 .. n)
  PROVE  IF I # {} THEN Min(I) \in I /\ \A j \in I : Min(I) <= j ELSE I = {}
<1> SUFFICES ASSUME I # {} PROVE \E m \in I : \A j \in I : m <= j
  BY DEF Min
<1> QED BY LeastNumber

(* Position i has the first car of that model (FirstSuch, for a model). *)
FirstOfModel(s, modelo, i) ==
  /\ i \in DOMAIN s /\ s[i].modelo = modelo
  /\ \A j \in DOMAIN s : j < i => ~ (s[j].modelo = modelo)

(* list_remove_by_model takes out the first car of that model, and reports *)
(* that there is none by leaving the list alone.                           *)
LEMMA RemoveByModel ==
  ASSUME NEW S, NEW list, list.cars \in Seq(S), NEW modelo,
         NEW done, done = list_remove_by_model(list, modelo)
  PROVE  \/ /\ done.rc = 1 /\ done.list = list
            /\ \A i \in DOMAIN list.cars : ~ (list.cars[i].modelo = modelo)
         \/ /\ done.rc = 0
            /\ \E i \in DOMAIN list.cars :
                 /\ FirstOfModel(list.cars, modelo, i)
                 /\ done.list = [size |-> list.size - 1,
                                 cars |-> RemoveAt(list.cars, i)]
<1> DEFINE s == list.cars
           I == {i \in 1 .. Len(s) : s[i].modelo = modelo}
           at == SelectInSeq(s, LAMBDA car : car.modelo = modelo)
<1>1. at = IF I # {} THEN Min(I) ELSE 0
  BY DEF SelectInSeq
<1>2. DOMAIN s = 1 .. Len(s) /\ Len(s) \in Nat
  OBVIOUS
<1>3. IF I # {} THEN Min(I) \in I /\ \A j \in I : Min(I) <= j ELSE I = {}
  BY <1>2, FirstPosition
<1>4. list_remove_by_model(list, modelo) =
        IF at = 0 THEN [rc |-> 1, list |-> list]
        ELSE [rc |-> 0, list |-> [size |-> list.size - 1, cars |-> RemoveAt(s, at)]]
  BY DEF list_remove_by_model
<1>5. CASE I = {}
  <2>1. at = 0 /\ \A i \in 1 .. Len(s) : s[i].modelo # modelo
    BY <1>1, <1>5
  <2> HIDE DEF at
  <2>2. list_remove_by_model(list, modelo) = [rc |-> 1, list |-> list]
    BY <1>4, <2>1
  <2> QED BY <1>2, <2>1, <2>2
<1>6. CASE I # {}
  <2>1. at \in I /\ \A j \in I : at <= j
    BY <1>1, <1>3, <1>6
  <2> HIDE DEF at
  <2>2. at \in 1 .. Len(s) /\ at # 0 /\ s[at].modelo = modelo
        /\ \A j \in 1 .. Len(s) : j < at => s[j].modelo # modelo
    BY <1>2, <2>1
  <2> QED BY <1>2, <1>4, <2>2 DEF FirstOfModel
<1> QED BY <1>5, <1>6

(* list_get_by_marca returns the first car of that marca, or NULL. *)
LEMMA GetByMarca ==
  ASSUME NEW S, NEW list, list.cars \in Seq(S), NEW marca
  PROVE  LET P(car) == car.marca = marca
             car    == list_get_by_marca(list, marca)
         IN  \/ car = NULL
             \/ car \in S /\ \E i \in DOMAIN list.cars :
                                 FirstSuch(list.cars, P, i) /\ car = list.cars[i]
<1> DEFINE s == list.cars
           I == {i \in 1 .. Len(s) : s[i].marca = marca}
           at == SelectInSeq(s, LAMBDA car : car.marca = marca)
<1>1. at = IF I # {} THEN Min(I) ELSE 0
  BY DEF SelectInSeq
<1>2. DOMAIN s = 1 .. Len(s) /\ Len(s) \in Nat /\ \A i \in 1 .. Len(s) : s[i] \in S
  OBVIOUS
<1>3. IF I # {} THEN Min(I) \in I /\ \A j \in I : Min(I) <= j ELSE I = {}
  BY <1>2, FirstPosition
<1>4. list_get_by_marca(list, marca) = IF at = 0 THEN NULL ELSE s[at]
  BY DEF list_get_by_marca
<1>5. CASE I = {}
  BY <1>1, <1>2, <1>4, <1>5
<1>6. CASE I # {}
  <2>1. at \in I /\ \A j \in I : at <= j
    BY <1>1, <1>3, <1>6
  <2> HIDE DEF at
  <2>2. at \in 1 .. Len(s) /\ at # 0 /\ s[at].marca = marca
        /\ \A j \in 1 .. Len(s) : j < at => s[j].marca # marca
    BY <1>2, <2>1
  <2> QED BY <1>2, <1>4, <2>2 DEF FirstSuch
<1> QED BY <1>5, <1>6
-----------------------------------------------------------------------------
(* Two lists with as many cars of every model.  A sort leaves as many, and *)
(* a remove that finds a car of a model takes one, wherever it stands.     *)

(* The positions of the cars of a model, and how many there are. *)
Positions(s, modelo) == {i \in 1 .. Len(s) : s[i].modelo = modelo}

HowMany(s, modelo) == Cardinality(Positions(s, modelo))

(* As many cars of every model in one list as in the other. *)
SameModels(s, t) == \A modelo : HowMany(s, modelo) = HowMany(t, modelo)

(* A model is counted by a number, which is 0 when no car is of it. *)
LEMMA HowManyIs ==
  ASSUME NEW S, NEW s \in Seq(S), NEW modelo
  PROVE  /\ IsFiniteSet(Positions(s, modelo)) /\ HowMany(s, modelo) \in Nat
         /\ HowMany(s, modelo) = 0 <=>
              \A i \in DOMAIN s : s[i].modelo # modelo
<1>1. IsFiniteSet(1 .. Len(s))
  BY FS_Interval
<1>2. IsFiniteSet(Positions(s, modelo))
  BY <1>1, FS_Subset DEF Positions
<1>3. HowMany(s, modelo) \in Nat
  BY <1>2, FS_CardinalityType DEF HowMany
<1>4. HowMany(s, modelo) = 0 <=> Positions(s, modelo) = {}
  BY <1>2, FS_EmptySet DEF HowMany
<1>5. DOMAIN s = 1 .. Len(s)
  OBVIOUS
<1>6. Positions(s, modelo) = {} <=> \A i \in DOMAIN s : s[i].modelo # modelo
  BY <1>5 DEF Positions
<1> QED BY <1>2, <1>3, <1>4, <1>6

(* Places that correspond one to one are as many. *)
LEMMA AsMany ==
  ASSUME NEW A, NEW B, NEW f \in [A -> B], IsFiniteSet(A),
         \A i, j \in A : f[i] = f[j] => i = j,
         \A k \in B : \E i \in A : f[i] = k
  PROVE  Cardinality(A) = Cardinality(B)
<1>1. f \in Bijection(A, B)
  BY DEF Bijection, Injection, Surjection, IsInjective
<1>2. ExistsBijection(A, B)
  BY <1>1 DEF ExistsBijection
<1> QED BY <1>2, FS_Bijection

(* A car at the end adds one to its model. *)
LEMMA AppendCounts ==
  ASSUME NEW S, NEW s \in Seq(S), NEW car \in S, NEW modelo
  PROVE  HowMany(Append(s, car), modelo) =
           IF car.modelo = modelo THEN HowMany(s, modelo) + 1
                                  ELSE HowMany(s, modelo)
<1> DEFINE t == Append(s, car)
           n == Len(s) + 1
<1>1. /\ Len(t) = n /\ t[n] = car /\ \A i \in 1 .. Len(s) : t[i] = s[i]
      /\ Len(s) \in Nat
  OBVIOUS
<1> HIDE DEF t
<1>2. CASE car.modelo = modelo
  <2>1. Positions(t, modelo) = Positions(s, modelo) \cup {n}
    BY <1>1, <1>2 DEF Positions
  <2>2. n \notin Positions(s, modelo)
    BY <1>1 DEF Positions
  <2>3. IsFiniteSet(Positions(s, modelo))
    BY HowManyIs
  <2> HIDE DEF n
  <2>4. Cardinality(Positions(t, modelo)) = Cardinality(Positions(s, modelo)) + 1
    BY <2>1, <2>2, <2>3, FS_AddElement
  <2> QED BY <1>2, <2>4 DEF HowMany, t
<1>3. CASE car.modelo # modelo
  <2>1. Positions(t, modelo) = Positions(s, modelo)
    BY <1>1, <1>3 DEF Positions
  <2> QED BY <1>3, <2>1 DEF HowMany, t
<1> QED BY <1>2, <1>3

(* Taking a car out takes one from its model. *)
LEMMA WithoutCounts ==
  ASSUME NEW S, NEW s \in Seq(S), NEW t \in Seq(S), NEW i \in DOMAIN s,
         WithoutPosition(s, t, i), NEW modelo
  PROVE  HowMany(t, modelo) =
           IF s[i].modelo = modelo THEN HowMany(s, modelo) - 1
                                   ELSE HowMany(s, modelo)
<1> DEFINE A == Positions(t, modelo)
           B == Positions(s, modelo) \ {i}
           f == [j \in A |-> IF j < i THEN j ELSE j + 1]
<1>1. /\ Len(s) \in Nat /\ i \in 1 .. Len(s) /\ Len(t) = Len(s) - 1
      /\ \A j \in 1 .. Len(t) : t[j] = s[IF j < i THEN j ELSE j + 1]
  BY DEF WithoutPosition
<1>2. ASSUME NEW j \in A PROVE f[j] \in B
  <2>1. /\ j \in 1 .. Len(s) - 1 /\ t[j].modelo = modelo
        /\ f[j] = IF j < i THEN j ELSE j + 1
    BY <1>1 DEF Positions
  <2> HIDE DEF f
  <2>2. /\ f[j] \in 1 .. Len(s) /\ f[j] # i /\ s[f[j]] = t[j]
    BY <1>1, <2>1
  <2> QED BY <2>1, <2>2 DEF Positions
<1>3. \A j, k \in A : f[j] = f[k] => j = k
  BY <1>1 DEF Positions
<1>4. ASSUME NEW k \in B PROVE \E j \in A : f[j] = k
  <2>1. k \in 1 .. Len(s) /\ k # i /\ s[k].modelo = modelo
    BY DEF Positions
  <2>2. PICK j \in Int : j = IF k < i THEN k ELSE k - 1
    BY <2>1
  <2>3. j \in 1 .. Len(t) /\ (IF j < i THEN j ELSE j + 1) = k
    BY <1>1, <2>1, <2>2
  <2>4. t[j] = s[k]
    BY <1>1, <2>3
  <2>5. j \in A
    BY <2>1, <2>3, <2>4 DEF Positions
  <2> QED BY <2>3, <2>5
<1>5. f \in [A -> B]
  BY <1>2
<1>6. IsFiniteSet(A) /\ IsFiniteSet(Positions(s, modelo))
  BY HowManyIs
<1> HIDE DEF f
<1>7. Cardinality(A) = Cardinality(B)
  <2> HIDE DEF A, B
  <2> QED BY <1>3, <1>4, <1>5, <1>6, AsMany
<1>8. i \in Positions(s, modelo) <=> s[i].modelo = modelo
  BY <1>1 DEF Positions
<1> QED BY <1>6, <1>7, <1>8, FS_RemoveElement DEF HowMany

(* A list that is rearranged has as many cars of every model. *)
LEMMA ShuffleCounts ==
  ASSUME NEW S, NEW s \in Seq(S), NEW t \in Seq(S), StableShuffle(s, t)
  PROVE  SameModels(t, s)
<1>1. PICK at \in [DOMAIN t -> DOMAIN s] :
        /\ \A i \in DOMAIN t : t[i] = s[at[i]]
        /\ \A k \in DOMAIN s : \E i \in DOMAIN t : at[i] = k
        /\ \A i, j \in DOMAIN t : i < j => at[i] # at[j]
  BY DEF StableShuffle
<1>2. DOMAIN s = 1 .. Len(s) /\ DOMAIN t = 1 .. Len(t)
  OBVIOUS
<1> SUFFICES ASSUME NEW modelo PROVE HowMany(t, modelo) = HowMany(s, modelo)
  BY DEF SameModels
<1> DEFINE A == Positions(t, modelo)
           B == Positions(s, modelo)
           f == [i \in A |-> at[i]]
<1>3. A \subseteq DOMAIN t /\ B \subseteq DOMAIN s
  BY <1>2 DEF Positions
<1>4. ASSUME NEW i \in A PROVE f[i] \in B /\ f[i] = at[i]
  <2>1. i \in DOMAIN t /\ t[i].modelo = modelo
    BY <1>3 DEF Positions
  <2> QED BY <1>1, <1>2, <2>1 DEF Positions
<1>5. \A i, j \in A : f[i] = f[j] => i = j
  <2>1. \A i, j \in DOMAIN t : at[i] = at[j] => i = j
    <3>1. \A i, j \in 1 .. Len(t) : i = j \/ i < j \/ j < i
      OBVIOUS
    <3> QED BY <1>1, <1>2, <3>1
  <2> QED BY <1>3, <1>4, <2>1
<1>6. ASSUME NEW k \in B PROVE \E i \in A : f[i] = k
  <2>1. k \in DOMAIN s /\ s[k].modelo = modelo
    BY <1>3 DEF Positions
  <2>2. PICK i \in DOMAIN t : at[i] = k
    BY <1>1, <2>1
  <2>3. i \in A
    BY <1>1, <1>2, <2>1, <2>2 DEF Positions
  <2> QED BY <1>4, <2>2, <2>3
<1>7. f \in [A -> B] /\ IsFiniteSet(A)
  BY <1>4, HowManyIs
<1> HIDE DEF f, A, B
<1>8. Cardinality(A) = Cardinality(B)
  BY <1>5, <1>6, <1>7, AsMany
<1> QED BY <1>8 DEF HowMany, A, B
=============================================================================
