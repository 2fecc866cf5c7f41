-------------------------------- MODULE Loops --------------------------------
(***************************************************************************)
(* Lemmas about sequences and about loops over them, for any elements.     *)
(*                                                                         *)
(* A loop is written as a recursive function of the number of rounds made. *)
(* Such a function exists and stays in the type of its body, and what it   *)
(* has computed is shown by induction over the rounds.                     *)
(***************************************************************************)
EXTENDS Integers, SequencesExt, SequenceTheorems, WellFoundedInduction, TLAPS

-----------------------------------------------------------------------------
(* Induction over the natural numbers, for the elements of a set.          *)
LEMMA SetInduction ==
    ASSUME NEW S, 0 \in S, \A n \in Nat : n \in S => n + 1 \in S
    PROVE  Nat \subseteq S
<1> SUFFICES ASSUME Nat \ S # {} PROVE FALSE
  OBVIOUS
<1>1. PICK m \in Nat \ S : \A k \in Nat \ S : <<k, m>> \notin OpToRel(<, Nat)
  BY WFMin, NatLessThanWellFounded
<1>2. m \in Nat /\ m # 0
  OBVIOUS
<1>3. m - 1 \in Nat /\ m - 1 < m /\ (m - 1) + 1 = m
  BY <1>2
<1>4. <<m - 1, m>> \in OpToRel(<, Nat)
  BY <1>2, <1>3 DEF OpToRel
<1>5. m - 1 \in S
  BY <1>1, <1>3, <1>4
<1>6. QED BY <1>3, <1>5

(* Induction over the n rounds of a loop.                                  *)
LEMMA RoundInduction ==
    ASSUME NEW n \in Nat, NEW T, 0 \in T,
           \A i \in 1 .. n : i - 1 \in T => i \in T
    PROVE  \A i \in 0 .. n : i \in T
<1> SUFFICES ASSUME NEW j \in 0 .. n, j \notin T PROVE FALSE
  OBVIOUS
<1> DEFINE Bad == {i \in Nat : i <= n /\ i \notin T}
<1>1. Bad \subseteq Nat /\ Bad # {}
  OBVIOUS
<1>2. PICK m \in Bad : \A k \in Bad : <<k, m>> \notin OpToRel(<, Nat)
  BY <1>1, WFMin, NatLessThanWellFounded
<1>3. m \in 1 .. n /\ m \notin T
  OBVIOUS
<1>4. m - 1 \in Bad
  BY <1>3
<1>5. <<m - 1, m>> \in OpToRel(<, Nat)
  BY <1>3 DEF OpToRel
<1>6. QED BY <1>2, <1>4, <1>5

(* The first of some places.                                               *)
LEMMA LeastExists ==
    ASSUME NEW S \in SUBSET Nat, S # {}
    PROVE  \E m \in S : \A k \in S : m <= k
<1>1. PICK m \in S : \A k \in S : <<k, m>> \notin OpToRel(<, Nat)
  BY WFMin, NatLessThanWellFounded
<1>2. ASSUME NEW k \in S PROVE m <= k
  <2>1. k \in Nat /\ m \in Nat
    OBVIOUS
  <2>2. ~(k < m)
    BY <1>1, <2>1 DEF OpToRel
  <2>3. QED BY <2>1, <2>2
<1>3. QED BY <1>2

(* A loop of n rounds, from base, by the steps of G.                       *)
Loop(n, base, G, f) ==
    /\ f[0] = base
    /\ \A i \in 1 .. n : f[i] = G[<<i, f[i - 1]>>]

LEMMA LoopExists ==
    ASSUME NEW n \in Nat, NEW S, NEW base \in S, NEW G \in [(1 .. n) \X S -> S]
    PROVE  \E f \in [0 .. n -> S] : Loop(n, base, G, f)
<1> DEFINE T == {m \in Nat : \E f \in [0 .. m -> S] : Loop(m, base, G, f)}
<1>1. 0 \in T
  <2>1. [i \in 0 .. 0 |-> base] \in [0 .. 0 -> S]
    OBVIOUS
  <2>2. Loop(0, base, G, [i \in 0 .. 0 |-> base])
    BY DEF Loop
  <2>3. QED BY <2>1, <2>2
<1>2. ASSUME NEW m \in 1 .. n, m - 1 \in T PROVE m \in T
  <2>1. PICK f \in [0 .. m - 1 -> S] : Loop(m - 1, base, G, f)
    BY <1>2
  <2> DEFINE g == [i \in 0 .. m |-> IF i = m THEN G[<<m, f[m - 1]>>] ELSE f[i]]
  <2>2. G[<<m, f[m - 1]>>] \in S
    OBVIOUS
  <2>3. g \in [0 .. m -> S]
    BY <2>2
  <2>4. ASSUME NEW i \in 1 .. m PROVE g[i] = G[<<i, g[i - 1]>>]
    <3>1. g[i - 1] = f[i - 1]
      OBVIOUS
    <3>2. CASE i = m
      <4>1. g[m] = G[<<m, f[m - 1]>>]
        OBVIOUS
      <4>2. QED BY <3>1, <3>2, <4>1
    <3>3. CASE i # m
      <4>1. i \in 1 .. m - 1
        BY <3>3
      <4>2. g[i] = f[i]
        BY <3>3
      <4>3. f[i] = G[<<i, f[i - 1]>>]
        BY <2>1, <4>1 DEF Loop
      <4>4. QED BY <3>1, <4>2, <4>3
    <3>4. QED BY <3>2, <3>3
  <2>5. g[0] = base
    BY <2>1 DEF Loop
  <2> HIDE DEF g
  <2>6. Loop(m, base, G, g)
    BY <2>4, <2>5 DEF Loop
  <2>7. QED BY <2>3, <2>6
<1>3. \A i \in 0 .. n : i \in T
  <2> HIDE DEF T
  <2>1. QED BY <1>1, <1>2, RoundInduction
<1>4. QED BY <1>3

(* Any function that goes by the steps of G stays in the type of G.        *)
LEMMA LoopStays ==
    ASSUME NEW n \in Nat, NEW S, NEW base \in S, NEW G \in [(1 .. n) \X S -> S],
           NEW f, f[0] = base,
           \A i \in 1 .. n : f[i - 1] \in S => f[i] = G[<<i, f[i - 1]>>]
    PROVE  \A i \in 0 .. n : f[i] \in S
<1> DEFINE T == {i \in 0 .. n : f[i] \in S}
<1>1. 0 \in T
  OBVIOUS
<1>2. ASSUME NEW i \in 1 .. n, i - 1 \in T PROVE i \in T
  <2>1. f[i - 1] \in S /\ f[i] = G[<<i, f[i - 1]>>]
    BY <1>2
  <2>2. G[<<i, f[i - 1]>>] \in S
    BY <2>1
  <2>3. QED BY <2>1, <2>2
<1>3. \A i \in 0 .. n : i \in T
  <2> HIDE DEF T
  <2>1. QED BY <1>1, <1>2, RoundInduction
<1>4. QED BY <1>3

-----------------------------------------------------------------------------
(* Adding to a sequence.                                                   *)
LEMMA AppendOne ==
    ASSUME NEW T, NEW s \in Seq(T), NEW e \in T
    PROVE  /\ Append(s, e) \in Seq(T)
           /\ Len(s) \in Nat /\ DOMAIN s = 1 .. Len(s)
           /\ Len(Append(s, e)) = Len(s) + 1
           /\ DOMAIN Append(s, e) = 1 .. Len(s) + 1
           /\ \A i \in 1 .. Len(s) : Append(s, e)[i] = s[i] /\ i # Len(s) + 1
           /\ Append(s, e)[Len(s) + 1] = e
           /\ \A i : i \in 1 .. Len(s) + 1 <=> i \in 1 .. Len(s) \/ i = Len(s) + 1
<1>1. /\ Append(s, e) \in Seq(T)
      /\ Len(s) \in Nat /\ DOMAIN s = 1 .. Len(s)
      /\ Len(Append(s, e)) = Len(s) + 1
      /\ \A i \in 1 .. Len(s) : Append(s, e)[i] = s[i]
      /\ Append(s, e)[Len(s) + 1] = e
  BY AppendProperties, LenProperties
<1>2. DOMAIN Append(s, e) = 1 .. Len(s) + 1
  BY <1>1, LenProperties
<1>3. \A i : i \in 1 .. Len(s) + 1 <=> i \in 1 .. Len(s) \/ i = Len(s) + 1
  BY <1>1
<1>4. QED BY <1>1, <1>2, <1>3

LEMMA AppendSet ==
    ASSUME NEW T, NEW s \in Seq(T), NEW e \in T
    PROVE  /\ ToSet(Append(s, e)) = ToSet(s) \cup {e}
           /\ IsInjective(s) /\ e \notin ToSet(s) => IsInjective(Append(s, e))
<1> DEFINE n == Len(s)
           t == Append(s, e)
<1>1. /\ n \in Nat /\ DOMAIN s = 1 .. n /\ DOMAIN t = 1 .. n + 1
      /\ \A i \in 1 .. n : t[i] = s[i]
      /\ t[n + 1] = e
      /\ \A i : i \in 1 .. n + 1 <=> i \in 1 .. n \/ i = n + 1
  BY AppendOne
<1> HIDE DEF n, t
<1>2. ToSet(t) = {t[i] : i \in 1 .. n + 1} /\ ToSet(s) = {s[i] : i \in 1 .. n}
  BY <1>1 DEF ToSet
<1>3. ToSet(t) = ToSet(s) \cup {e}
  BY <1>1, <1>2
<1>4. ASSUME IsInjective(s), e \notin ToSet(s) PROVE IsInjective(t)
  <2>1. \A i, j \in 1 .. n : s[i] = s[j] => i = j
    BY <1>1, <1>4 DEF IsInjective
  <2>2. \A i \in 1 .. n : s[i] # e
    BY <1>2, <1>4
  <2>3. \A i, j \in 1 .. n + 1 : t[i] = t[j] => i = j
    BY <1>1, <2>1, <2>2
  <2>4. QED BY <1>1, <2>3 DEF IsInjective
<1>5. QED BY <1>3, <1>4 DEF t

(* Erasing a position of a sequence (list::erase at next(begin, i)) keeps  *)
(* the other elements in their order.                                      *)
LEMMA RemoveAtProperties ==
    ASSUME NEW S, NEW s \in Seq(S), NEW i \in 1 .. Len(s)
    PROVE  /\ RemoveAt(s, i) \in Seq(S)
           /\ Len(RemoveAt(s, i)) = Len(s) - 1
           /\ DOMAIN RemoveAt(s, i) = 1 .. Len(s) - 1
           /\ \A j \in 1 .. Len(s) - 1 :
                 RemoveAt(s, i)[j] = IF j < i THEN s[j] ELSE s[j + 1]
<1> DEFINE front == SubSeq(s, 1, i - 1)
           back == SubSeq(s, i + 1, Len(s))
<1>1. Len(s) \in Nat /\ \A j \in 1 .. Len(s) : s[j] \in S
  BY LenProperties, ElementOfSeq
<1>2. /\ front \in Seq(S)
      /\ Len(front) = i - 1
      /\ \A j \in 1 .. i - 1 : front[j] = s[j]
  <2>1. i - 1 \in Int /\ \A j \in 1 .. i - 1 : s[j] \in S
    BY <1>1
  <2>2. /\ front \in Seq(S)
        /\ Len(front) = IF 1 <= i - 1 THEN (i - 1) - 1 + 1 ELSE 0
        /\ \A j \in 1 .. (i - 1) - 1 + 1 : front[j] = s[1 + j - 1]
    BY <2>1, SubSeqProperties
  <2>3. QED BY <1>1, <2>2
<1>3. /\ back \in Seq(S)
      /\ Len(back) = Len(s) - i
      /\ \A j \in 1 .. Len(s) - i : back[j] = s[i + j]
  <2>1. i + 1 \in Int /\ Len(s) \in Int /\ \A j \in i + 1 .. Len(s) : s[j] \in S
    BY <1>1
  <2>2. /\ back \in Seq(S)
        /\ Len(back) = IF i + 1 <= Len(s) THEN Len(s) - (i + 1) + 1 ELSE 0
        /\ \A j \in 1 .. Len(s) - (i + 1) + 1 : back[j] = s[(i + 1) + j - 1]
    BY <2>1, SubSeqProperties
  <2>3. QED BY <1>1, <2>2
<1>4. /\ front \o back \in Seq(S)
      /\ Len(front \o back) = Len(front) + Len(back)
      /\ \A j \in 1 .. Len(front) + Len(back) :
            (front \o back)[j] = IF j <= Len(front) THEN front[j]
                                 ELSE back[j - Len(front)]
  BY <1>2, <1>3, ConcatProperties
<1>5. RemoveAt(s, i) = front \o back
  BY DEF RemoveAt
<1> HIDE DEF front, back
<1>6. \A j \in 1 .. Len(s) - 1 :
         (front \o back)[j] = IF j < i THEN s[j] ELSE s[j + 1]
  <2> TAKE j \in 1 .. Len(s) - 1
  <2>1. Len(s) \in Nat /\ i \in 1 .. Len(s) /\ j \in 1 .. Len(s) - 1
    BY <1>1
  <2>2. CASE j < i
    <3>1. j \in 1 .. i - 1 /\ j \in 1 .. Len(front) + Len(back) /\ j <= Len(front)
      BY <1>2, <1>3, <2>1, <2>2
    <3>2. (front \o back)[j] = front[j]
      BY <1>4, <3>1
    <3>3. QED BY <1>2, <2>2, <3>1, <3>2
  <2>3. CASE ~(j < i)
    <3> DEFINE k == j - (i - 1)
    <3>1. /\ k \in 1 .. Len(s) - i
          /\ j \in 1 .. Len(front) + Len(back)
          /\ ~(j <= Len(front))
          /\ j - Len(front) = k
          /\ i + k = j + 1
      BY <1>2, <1>3, <2>1, <2>3
    <3>2. (front \o back)[j] = back[k]
      BY <1>4, <3>1
    <3>3. back[k] = s[i + k]
      BY <1>3, <3>1
    <3>4. QED BY <2>3, <3>1, <3>2, <3>3
  <2>4. QED BY <2>2, <2>3
<1>7. DOMAIN (front \o back) = 1 .. Len(s) - 1
  BY <1>1, <1>2, <1>3, <1>4, LenProperties
<1>8. QED BY <1>1, <1>2, <1>3, <1>4, <1>5, <1>6, <1>7

(* The elements of two sequences together.                                 *)
LEMMA ToSetConcat ==
    ASSUME NEW S, NEW s \in Seq(S), NEW t \in Seq(S)
    PROVE  s \o t \in Seq(S) /\ ToSet(s \o t) = ToSet(s) \cup ToSet(t)
<1> DEFINE m == Len(s)
           n == Len(t)
           u == s \o t
<1>1. /\ m \in Nat /\ DOMAIN s = 1 .. m
      /\ n \in Nat /\ DOMAIN t = 1 .. n
      /\ u \in Seq(S) /\ Len(u) = m + n
      /\ \A i \in 1 .. m + n : u[i] = IF i <= m THEN s[i] ELSE t[i - m]
  BY LenProperties, ConcatProperties
<1>2. DOMAIN u = 1 .. m + n
  BY <1>1, LenProperties
<1> HIDE DEF m, n, u
<1>3. ASSUME NEW i \in 1 .. m PROVE i \in 1 .. m + n /\ u[i] = s[i]
  BY <1>1
<1>4. ASSUME NEW i \in 1 .. n PROVE m + i \in 1 .. m + n /\ u[m + i] = t[i]
  <2>1. m + i \in 1 .. m + n /\ ~(m + i <= m) /\ (m + i) - m = i
    BY <1>1
  <2>2. QED BY <1>1, <2>1
<1>5. ASSUME NEW i \in 1 .. m + n
      PROVE  (i \in 1 .. m /\ u[i] = s[i]) \/ (i - m \in 1 .. n /\ u[i] = t[i - m])
  BY <1>1
<1>6. /\ ToSet(u) = {u[i] : i \in 1 .. m + n}
      /\ ToSet(s) = {s[i] : i \in 1 .. m}
      /\ ToSet(t) = {t[i] : i \in 1 .. n}
  BY <1>1, <1>2 DEF ToSet
<1>7. ToSet(u) \subseteq ToSet(s) \cup ToSet(t)
  BY <1>5, <1>6
<1>8. ToSet(s) \cup ToSet(t) \subseteq ToSet(u)
  BY <1>3, <1>4, <1>6
<1>9. QED BY <1>1, <1>7, <1>8 DEF u

(* Flattening (the loop over destinations around a loop over receivers):   *)
(* the recursive function it is defined with exists.                       *)
LEMMA FlattenExists ==
    ASSUME NEW ss
    PROVE  \A n \in Nat : \E f :
               f = [i \in 1 .. n |-> IF i = 1 THEN ss[i] ELSE f[i - 1] \o ss[i]]
<1> DEFINE Is(f, n) == f = [i \in 1 .. n |-> IF i = 1 THEN ss[i] ELSE f[i - 1] \o ss[i]]
           S == {n \in Nat : \E f : Is(f, n)}
<1>1. 0 \in S
  <2>1. Is([i \in 1 .. 0 |-> ss[i]], 0)
    OBVIOUS
  <2>2. QED BY <2>1
<1>2. ASSUME NEW n \in Nat, NEW f, Is(f, n)
      PROVE  \E g : Is(g, n + 1)
  <2> DEFINE last == IF n = 0 THEN ss[n + 1] ELSE f[n] \o ss[n + 1]
             g == [i \in 1 .. n + 1 |-> IF i = n + 1 THEN last ELSE f[i]]
             h == [i \in 1 .. n + 1 |-> IF i = 1 THEN ss[i] ELSE g[i - 1] \o ss[i]]
  <2>1. ASSUME NEW i \in 1 .. n + 1 PROVE g[i] = h[i]
    <3>1. CASE i = n + 1
      <4>1. CASE n = 0
        BY <3>1, <4>1
      <4>2. CASE n # 0
        <5>1. i # 1 /\ i - 1 = n /\ i - 1 \in 1 .. n + 1 /\ i - 1 # n + 1
          BY <3>1, <4>2
        <5>2. g[i - 1] = f[n]
          BY <5>1
        <5>3. QED BY <3>1, <4>2, <5>1, <5>2
      <4>3. QED BY <4>1, <4>2
    <3>2. CASE i # n + 1
      <4>1. i \in 1 .. n /\ g[i] = f[i]
        BY <3>2
      <4>2. f[i] = IF i = 1 THEN ss[i] ELSE f[i - 1] \o ss[i]
        BY <1>2, <4>1
      <4>3. i # 1 => i - 1 \in 1 .. n + 1 /\ i - 1 # n + 1
        BY <4>1
      <4>4. i # 1 => g[i - 1] = f[i - 1]
        BY <4>3
      <4>5. QED BY <4>1, <4>2, <4>4
    <3>3. QED BY <3>1, <3>2
  <2>2. g = h
    BY <2>1
  <2>3. Is(g, n + 1)
    BY <2>2
  <2>4. QED BY <2>3
<1> HIDE DEF Is
<1>3. \A n \in Nat : n \in S => n + 1 \in S
  BY <1>2
<1>4. Nat \subseteq S
  BY <1>1, <1>3, SetInduction
<1>5. \A n \in Nat : \E f : Is(f, n)
  BY <1>4
<1>6. QED BY <1>5 DEF Is

LEMMA FlattenByParts ==
    ASSUME NEW T, NEW ss \in Seq(Seq(T)), Len(ss) # 0
    PROVE  \E f : /\ f = [i \in 1 .. Len(ss) |->
                             IF i = 1 THEN ss[i] ELSE f[i - 1] \o ss[i]]
                  /\ FlattenSeq(ss) = f[Len(ss)]
<1> DEFINE Is(f) == f = [i \in 1 .. Len(ss) |->
                             IF i = 1 THEN ss[i] ELSE f[i - 1] \o ss[i]]
           F == CHOOSE f : Is(f)
<1>1. Len(ss) \in Nat
  BY LenProperties
<1>2. \E f : Is(f)
  BY <1>1, FlattenExists
<1>3. Is(F)
  <2> HIDE DEF Is
  <2>1. QED BY <1>2
<1>4. FlattenSeq(ss) = F[Len(ss)]
  BY Zenon DEF FlattenSeq
<1>5. QED BY <1>3, <1>4

(* Sequences without duplicates and without a common element have none     *)
(* together.                                                               *)
LEMMA ConcatInjective ==
    ASSUME NEW T, NEW s \in Seq(T), NEW t \in Seq(T),
           IsInjective(s), IsInjective(t), ToSet(s) \cap ToSet(t) = {}
    PROVE  IsInjective(s \o t)
<1> DEFINE m == Len(s)
           n == Len(t)
           u == s \o t
<1>1. /\ m \in Nat /\ DOMAIN s = 1 .. m
      /\ n \in Nat /\ DOMAIN t = 1 .. n
      /\ u \in Seq(T) /\ Len(u) = m + n
      /\ \A i \in 1 .. m + n : u[i] = IF i <= m THEN s[i] ELSE t[i - m]
  BY LenProperties, ConcatProperties
<1>2. DOMAIN u = 1 .. m + n
  BY <1>1, LenProperties
<1>3. /\ \A i, j \in 1 .. m : s[i] = s[j] => i = j
      /\ \A i, j \in 1 .. n : t[i] = t[j] => i = j
      /\ \A i \in 1 .. m : \A j \in 1 .. n : s[i] # t[j]
  <2>1. \A i \in 1 .. m : \A j \in 1 .. n : s[i] \in ToSet(s) /\ t[j] \in ToSet(t)
    BY <1>1 DEF ToSet
  <2>2. QED BY <1>1, <2>1 DEF IsInjective
<1> HIDE DEF m, n, u
<1>4. \A i \in 1 .. m + n : (i <= m /\ i \in 1 .. m) \/ (~(i <= m) /\ i - m \in 1 .. n)
  BY <1>1
<1>5. ASSUME NEW i \in 1 .. m + n, NEW j \in 1 .. m + n, u[i] = u[j]
      PROVE  i = j
  <2>1. CASE i <= m /\ j <= m
    BY <1>1, <1>3, <1>4, <1>5, <2>1
  <2>2. CASE ~(i <= m) /\ ~(j <= m)
    <3>1. i - m = j - m
      BY <1>1, <1>3, <1>4, <1>5, <2>2
    <3>2. QED BY <1>1, <3>1
  <2>3. CASE i <= m /\ ~(j <= m)
    BY <1>1, <1>3, <1>4, <1>5, <2>3
  <2>4. CASE ~(i <= m) /\ j <= m
    BY <1>1, <1>3, <1>4, <1>5, <2>4
  <2>5. QED BY <2>1, <2>2, <2>3, <2>4
<1>6. QED BY <1>2, <1>5 DEF IsInjective, u

(* Parts without duplicates, no two of which have a common element.        *)
Disjoint(ss) ==
    /\ \A i \in DOMAIN ss : IsInjective(ss[i])
    /\ \A i, j \in DOMAIN ss : i # j => ToSet(ss[i]) \cap ToSet(ss[j]) = {}

(* What a flattened sequence holds: the elements of its parts, each once   *)
(* when no two parts share one.                                            *)
LEMMA FlattenProperties ==
    ASSUME NEW T, NEW ss \in Seq(Seq(T))
    PROVE  /\ FlattenSeq(ss) \in Seq(T)
           /\ ToSet(FlattenSeq(ss)) = UNION {ToSet(ss[i]) : i \in DOMAIN ss}
           /\ Disjoint(ss) => IsInjective(FlattenSeq(ss))
<1> DEFINE n == Len(ss)
<1>1. n \in Nat /\ DOMAIN ss = 1 .. n /\ \A i \in 1 .. n : ss[i] \in Seq(T)
  BY LenProperties, ElementOfSeq
<1>2. CASE n = 0
  <2>1. FlattenSeq(ss) = ss /\ ss = <<>> /\ DOMAIN ss = {}
    BY <1>1, <1>2, EmptySeq DEF FlattenSeq
  <2>2. ss \in Seq(T) /\ ToSet(ss) = {} /\ IsInjective(ss)
    BY <2>1, EmptySeq DEF ToSet, IsInjective
  <2>3. QED BY <2>1, <2>2
<1>3. CASE n # 0
  <2>1. PICK f : /\ f = [i \in 1 .. n |-> IF i = 1 THEN ss[i] ELSE f[i - 1] \o ss[i]]
                 /\ FlattenSeq(ss) = f[n]
    BY <1>3, FlattenByParts
  <2> DEFINE Good(i) == /\ f[i] \in Seq(T)
                        /\ ToSet(f[i]) = UNION {ToSet(ss[j]) : j \in 1 .. i}
                        /\ Disjoint(ss) => IsInjective(f[i])
             S == {i \in Nat : i \in 1 .. n => Good(i)}
  <2>2. \A i \in 1 .. n : f[i] = IF i = 1 THEN ss[i] ELSE f[i - 1] \o ss[i]
    BY <2>1
  <2>3. 0 \in S
    OBVIOUS
  <2>4. ASSUME NEW i \in Nat, i \in S, i + 1 \in 1 .. n
        PROVE  Good(i + 1)
    <3>1. CASE i = 0
      <4>1. f[1] = ss[1] /\ 1 \in 1 .. n
        BY <2>2, <2>4, <3>1, SMTT(20)
      <4>2. UNION {ToSet(ss[j]) : j \in 1 .. 1} = ToSet(ss[1])
        OBVIOUS
      <4>3. Good(1)
        BY <1>1, <4>1, <4>2 DEF Disjoint
      <4>4. QED BY <3>1, <4>3
    <3>2. CASE i # 0
      <4>1. i \in 1 .. n /\ i + 1 # 1 /\ (i + 1) - 1 = i
        BY <1>1, <2>4, <3>2
      <4>2. f[i + 1] = f[i] \o ss[i + 1]
        BY <2>2, <2>4, <4>1
      <4>3. Good(i) /\ ss[i + 1] \in Seq(T)
        BY <1>1, <2>4, <4>1
      <4>4. /\ f[i + 1] \in Seq(T)
            /\ ToSet(f[i + 1]) = ToSet(f[i]) \cup ToSet(ss[i + 1])
        BY <4>2, <4>3, ToSetConcat
      <4>5. ToSet(f[i + 1]) = UNION {ToSet(ss[j]) : j \in 1 .. i + 1}
        <5>1. \A j : j \in 1 .. i + 1 <=> j \in 1 .. i \/ j = i + 1
          OBVIOUS
        <5>2. QED BY <4>3, <4>4, <5>1
      <4>6. ASSUME Disjoint(ss) PROVE IsInjective(f[i + 1])
        <5>1. IsInjective(ss[i + 1])
          BY <1>1, <2>4, <4>6 DEF Disjoint
        <5>2. \A j \in 1 .. i : j \in DOMAIN ss /\ j # i + 1
          BY <1>1, <4>1
        <5>3. \A j \in 1 .. i : ToSet(ss[j]) \cap ToSet(ss[i + 1]) = {}
          BY <1>1, <2>4, <4>6, <5>2 DEF Disjoint
        <5>4. ToSet(f[i]) \cap ToSet(ss[i + 1]) = {}
          BY <4>3, <5>3
        <5>5. QED BY <4>2, <4>3, <4>6, <5>1, <5>4, ConcatInjective
      <4>7. QED BY <4>4, <4>5, <4>6
    <3>3. QED BY <3>1, <3>2
  <2> HIDE DEF Good
  <2>5. ASSUME NEW i \in Nat, i \in S PROVE i + 1 \in S
    <3>1. i + 1 \in 1 .. n => Good(i + 1)
      BY <2>4, <2>5
    <3>2. i + 1 \in Nat
      OBVIOUS
    <3>3. QED BY <3>1, <3>2
  <2>6. Nat \subseteq S
    <3> HIDE DEF S
    <3>1. QED BY <2>3, <2>5, SetInduction
  <2>7. Good(n)
    BY <1>1, <1>3, <2>6
  <2>8. QED BY <1>1, <2>1, <2>7 DEF Good
<1>4. QED BY <1>2, <1>3
=============================================================================
