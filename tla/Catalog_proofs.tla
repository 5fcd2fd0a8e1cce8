-------------------------- MODULE Catalog_proofs --------------------------
(***************************************************************************)
(* Theorems about Catalog, for any servers, backends and configurations,   *)
(* and any limit on the pages drained.                                     *)
(***************************************************************************)
EXTENDS Catalog, MeshNames_proofs, WellFoundedInduction, TLAPS

(***************************************************************************)
(* Sequences.                                                              *)
(***************************************************************************)
\* A set of numbers that holds 0 and with each the next holds them all.
LEMMA NatSetInduction ==
  ASSUME NEW S, 0 \in S, \A n \in Nat : n \in S => n + 1 \in S
  PROVE  Nat \subseteq S
<1> DEFINE T == Nat \ S
           R == OpToRel(<, Nat)
<1> SUFFICES ASSUME T # {} PROVE FALSE
  OBVIOUS
<1>1. \A x, y \in Nat : x < y => <<x, y>> \in R
  BY DEF OpToRel
<1>2. IsWellFoundedOn(R, Nat)
  BY NatLessThanWellFounded, Zenon
<1>3. T \subseteq Nat
  OBVIOUS
<1> HIDE DEF R, T
<1>4. PICK x \in T : \A y \in T : ~ (<<y, x>> \in R)
  BY <1>2, <1>3, WFMin
<1>5. x \in Nat /\ x # 0 /\ x \notin S
  BY <1>4 DEF T
<1>6. x - 1 \in Nat /\ x - 1 < x /\ (x - 1) + 1 = x
  BY <1>5
<1>7. x - 1 \in S
  BY <1>1, <1>4, <1>5, <1>6 DEF T
<1> QED BY <1>5, <1>6, <1>7

\* A set of sequences that holds the empty one and with each those that are one longer
\* holds them all.
LEMMA SeqSetInduction ==
  ASSUME NEW T, NEW P, <<>> \in P,
         \A s \in Seq(T), x \in T : s \in P => Append(s, x) \in P
  PROVE  Seq(T) \subseteq P
<1> DEFINE S == {n \in Nat : \A s \in Seq(T) : Len(s) = n => s \in P}
<1>1. 0 \in S
  OBVIOUS
<1>2. ASSUME NEW n \in Nat, n \in S PROVE n + 1 \in S
  <2>1. ASSUME NEW s \in Seq(T), Len(s) = n + 1 PROVE s \in P
    <3> DEFINE front == SubSeq(s, 1, n)
    <3>1. front \in Seq(T) /\ Len(front) = n /\ s[n + 1] \in T
      BY <2>1
    <3>2. s = Append(front, s[n + 1])
      BY <2>1
    <3> HIDE DEF front
    <3>3. front \in P
      BY <1>2, <3>1
    <3>4. Append(front, s[n + 1]) \in P
      BY <3>1, <3>3
    <3> QED BY <3>2, <3>4
  <2> QED BY <2>1
<1> HIDE DEF S
<1>3. Nat \subseteq S
  BY <1>1, <1>2, NatSetInduction
<1> QED BY <1>3 DEF S

(***************************************************************************)
(* Flattening.                                                             *)
(***************************************************************************)
Flattens(f, pp, n) == f = [i \in 1 .. n |-> IF i = 1 THEN pp[i] ELSE f[i - 1] \o pp[i]]

\* One step of a flattening.
LEMMA FlattensAt ==
  ASSUME NEW f, NEW pp, NEW n \in Nat, Flattens(f, pp, n), NEW k \in Nat, k + 1 <= n
  PROVE  f[k + 1] = IF k = 0 THEN pp[k + 1] ELSE f[k] \o pp[k + 1]
<1>1. PICK i \in 1 .. n : i = k + 1
  OBVIOUS
<1>2. i - 1 = k /\ (i = 1 <=> k = 0)
  BY <1>1
<1>3. f[i] = IF i = 1 THEN pp[i] ELSE f[i - 1] \o pp[i]
  BY Zenon DEF Flattens
<1> QED BY <1>1, <1>2, <1>3, Zenon

\* The function that FlattenSeq names exists.
LEMMA FlattensExists ==
  ASSUME NEW pp, NEW m \in Nat
  PROVE  \E f : Flattens(f, pp, m)
<1> DEFINE S == {n \in Nat : \E f : Flattens(f, pp, n)}
<1>1. 0 \in S
  <2>1. Flattens([i \in 1 .. 0 |-> 0], pp, 0)
    BY DEF Flattens
  <2> QED BY <2>1
<1>2. ASSUME NEW n \in Nat, n \in S PROVE n + 1 \in S
  <2>1. PICK f : Flattens(f, pp, n)
    BY <1>2
  <2> DEFINE g == [i \in 1 .. (n + 1) |-> IF i = n + 1
                     THEN (IF n = 0 THEN pp[i] ELSE f[n] \o pp[i]) ELSE f[i]]
  <2>2. \A i \in 1 .. n : f[i] = IF i = 1 THEN pp[i] ELSE f[i - 1] \o pp[i]
    BY <2>1 DEF Flattens
  <2>3. \A i \in 1 .. (n + 1) : g[i] = IF i = 1 THEN pp[i] ELSE g[i - 1] \o pp[i]
    BY <2>2
  <2>4. g = [i \in 1 .. (n + 1) |-> g[i]]
    OBVIOUS
  <2> HIDE DEF g
  <2>5. Flattens(g, pp, n + 1)
    BY <2>3, <2>4 DEF Flattens
  <2> QED BY <2>5
<1> HIDE DEF S
<1>3. Nat \subseteq S
  BY <1>1, <1>2, NatSetInduction
<1> QED BY <1>3 DEF S

Agree(f, g, n) == \A i \in 1 .. n : f[i] = g[i]

\* What is flattened first does not depend on what comes after.
LEMMA FlattensSame ==
  ASSUME NEW pp, NEW qq, NEW m \in Nat, NEW n \in Nat, m <= n, Agree(pp, qq, m),
         NEW f, Flattens(f, pp, m), NEW g, Flattens(g, qq, n)
  PROVE  Agree(f, g, m)
<1> USE DEF Agree
<1> DEFINE S == {k \in Nat : k \in 1 .. m => g[k] = f[k]}
<1>1. 0 \in S
  OBVIOUS
<1>2. ASSUME NEW k \in Nat, k \in S PROVE k + 1 \in S
  <2>1. ASSUME k + 1 \in 1 .. m PROVE g[k + 1] = f[k + 1]
    <3>1. k + 1 <= m /\ k + 1 <= n
      BY <2>1
    <3>2. f[k + 1] = IF k = 0 THEN pp[k + 1] ELSE f[k] \o pp[k + 1]
      BY <3>1, FlattensAt
    <3>3. g[k + 1] = IF k = 0 THEN qq[k + 1] ELSE g[k] \o qq[k + 1]
      BY <3>1, FlattensAt
    <3>4. qq[k + 1] = pp[k + 1] /\ (k # 0 => g[k] = f[k])
      BY <1>2, <2>1
    <3> QED BY <3>2, <3>3, <3>4, Zenon
  <2> QED BY <2>1
<1> HIDE DEF S
<1>3. Nat \subseteq S
  BY <1>1, <1>2, NatSetInduction
<1> QED BY <1>3 DEF S

\* So what FlattenSeq returns is its last value.
LEMMA FlatIs ==
  ASSUME NEW pp, Len(pp) \in Nat, Len(pp) # 0
  PROVE  \E f : Flattens(f, pp, Len(pp)) /\ FlattenSeq(pp) = f[Len(pp)]
<1> DEFINE f == CHOOSE f : f = [i \in 1 .. Len(pp) |->
                                  IF i = 1 THEN pp[i] ELSE f[i - 1] \o pp[i]]
<1>1. \E g : Flattens(g, pp, Len(pp))
  BY FlattensExists
<1>2. Flattens(f, pp, Len(pp))
  BY <1>1 DEF Flattens
<1>3. FlattenSeq(pp) = f[Len(pp)]
  BY DEF FlattenSeq
<1> HIDE DEF f
<1> QED BY <1>2, <1>3

\* Nothing, flattened.
LEMMA FlatEmpty == FlattenSeq(<<>>) = <<>>
BY DEF FlattenSeq

\* One more part.
LEMMA FlatOneMore ==
  ASSUME NEW T, NEW pp \in Seq(Seq(T)), NEW p \in Seq(T), FlattenSeq(pp) \in Seq(T)
  PROVE  FlattenSeq(Append(pp, p)) = FlattenSeq(pp) \o p
<1> DEFINE qq == Append(pp, p)
           n == Len(pp)
<1>1. n \in Nat /\ Len(qq) = n + 1 /\ qq[n + 1] = p /\ \A i \in 1 .. n : qq[i] = pp[i]
  OBVIOUS
<1> HIDE DEF qq
<1>2. PICK g : Flattens(g, qq, n + 1) /\ FlattenSeq(qq) = g[n + 1]
  BY <1>1, FlatIs
<1>3. g[n + 1] = IF n = 0 THEN p ELSE g[n] \o p
  <2>1. n + 1 \in Nat /\ n + 1 <= n + 1
    BY <1>1
  <2>2. g[n + 1] = IF n = 0 THEN qq[n + 1] ELSE g[n] \o qq[n + 1]
    BY <1>1, <1>2, <2>1, FlattensAt
  <2> QED BY <1>1, <2>2, Zenon
<1>4. CASE n = 0
  <2>1. pp = <<>>
    BY <1>4
  <2>2. FlattenSeq(pp) = <<>>
    BY <2>1, FlatEmpty
  <2>3. <<>> \o p = p
    OBVIOUS
  <2> QED BY <1>2, <1>3, <1>4, <2>2, <2>3 DEF qq
<1>5. CASE n # 0
  <2>1. PICK f : Flattens(f, pp, n) /\ FlattenSeq(pp) = f[n]
    BY <1>1, <1>5, FlatIs
  <2>2. Agree(f, g, n)
    <3>1. PICK m \in Nat : m = n + 1 /\ n <= m
      BY <1>1
    <3>2. n \in Nat /\ Agree(pp, qq, n)
      BY <1>1 DEF Agree
    <3>3. Flattens(g, qq, m)
      BY <1>2, <3>1
    <3> HIDE DEF n
    <3> QED BY ONLY <2>1, <3>1, <3>2, <3>3, FlattensSame
  <2>3. g[n] = f[n]
    BY <1>1, <1>5, <2>2 DEF Agree
  <2> QED BY <1>2, <1>3, <1>5, <2>1, <2>3 DEF qq
<1> QED BY <1>4, <1>5

\* A flattened sequence has the elements of its parts.
LEMMA FlatType ==
  ASSUME NEW T, NEW pp \in Seq(Seq(T))
  PROVE  FlattenSeq(pp) \in Seq(T)
<1> DEFINE P == {qq \in Seq(Seq(T)) : FlattenSeq(qq) \in Seq(T)}
<1>1. <<>> \in P
  <2>1. <<>> \in Seq(Seq(T)) /\ <<>> \in Seq(T)
    OBVIOUS
  <2> QED BY <2>1, FlatEmpty, Zenon
<1>2. ASSUME NEW qq \in Seq(Seq(T)), NEW p \in Seq(T), qq \in P PROVE Append(qq, p) \in P
  <2>1. FlattenSeq(Append(qq, p)) = FlattenSeq(qq) \o p
    BY <1>2, FlatOneMore
  <2>2. PICK flat \in Seq(T) : flat = FlattenSeq(qq)
    BY <1>2
  <2>3. flat \o p \in Seq(T) /\ Append(qq, p) \in Seq(Seq(T))
    OBVIOUS
  <2> QED BY <2>1, <2>2, <2>3
<1> HIDE DEF P
<1>3. Seq(Seq(T)) \subseteq P
  BY <1>1, <1>2, SeqSetInduction
<1> QED BY <1>3 DEF P

\* The same without its premise.
LEMMA FlatAppend ==
  ASSUME NEW T, NEW pp \in Seq(Seq(T)), NEW p \in Seq(T)
  PROVE  FlattenSeq(Append(pp, p)) = FlattenSeq(pp) \o p
BY FlatType, FlatOneMore

\* One part, flattened.
LEMMA FlatOne ==
  ASSUME NEW T, NEW p \in Seq(T)
  PROVE  FlattenSeq(<<p>>) = p
<1>1. <<>> \in Seq(Seq(T)) /\ Append(<<>>, p) = <<p>> /\ <<>> \o p = p
  OBVIOUS
<1>2. FlattenSeq(Append(<<>>, p)) = FlattenSeq(<<>>) \o p
  BY <1>1, FlatAppend
<1> QED BY <1>1, <1>2, FlatEmpty, Zenon

\* Concatenation.
LEMMA Regroup ==
  ASSUME NEW T, NEW a \in Seq(T), NEW b \in Seq(T), NEW c \in Seq(T)
  PROVE  (a \o b) \o c = a \o (b \o c)
OBVIOUS

\* The type and the length of two sequences in a row.
LEMMA Longer ==
  ASSUME NEW T, NEW a \in Seq(T), NEW b \in Seq(T)
  PROVE  a \o b \in Seq(T) /\ Len(a \o b) = Len(a) + Len(b)
OBVIOUS

\* Appending, as concatenation.
LEMMA AppendTo ==
  ASSUME NEW T, NEW a \in Seq(T), NEW b \in Seq(T), NEW x \in T
  PROVE  /\ a \o Append(b, x) = Append(a \o b, x) /\ Append(b, x) = b \o <<x>>
         /\ a \o <<>> = a /\ <<>> \o a = a /\ a \o b \in Seq(T) /\ Append(b, x) \in Seq(T)
         /\ <<x>> \in Seq(T)
OBVIOUS

\* Flattening goes part by part.
LEMMA FlatConcat ==
  ASSUME NEW T, NEW pp \in Seq(Seq(T)), NEW qq \in Seq(Seq(T))
  PROVE  FlattenSeq(pp \o qq) = FlattenSeq(pp) \o FlattenSeq(qq)
<1> DEFINE P == {rr \in Seq(Seq(T)) : FlattenSeq(pp \o rr) = FlattenSeq(pp) \o FlattenSeq(rr)}
<1>1. <<>> \in P
  <2>1. pp \o <<>> = pp /\ <<>> \in Seq(Seq(T))
    OBVIOUS
  <2>2. PICK flat \in Seq(T) : flat = FlattenSeq(pp)
    BY FlatType
  <2>3. flat \o <<>> = flat
    OBVIOUS
  <2> QED BY <2>1, <2>2, <2>3, FlatEmpty, Zenon
<1>2. ASSUME NEW rr \in Seq(Seq(T)), NEW p \in Seq(T), rr \in P PROVE Append(rr, p) \in P
  <2>1. /\ pp \o Append(rr, p) = Append(pp \o rr, p) /\ pp \o rr \in Seq(Seq(T))
        /\ Append(rr, p) \in Seq(Seq(T))
    BY AppendTo
  <2>2. FlattenSeq(Append(pp \o rr, p)) = FlattenSeq(pp \o rr) \o p
    BY <2>1, FlatAppend
  <2>3. FlattenSeq(Append(rr, p)) = FlattenSeq(rr) \o p
    BY FlatAppend
  <2>4. FlattenSeq(pp) \in Seq(T) /\ FlattenSeq(rr) \in Seq(T)
    BY FlatType
  <2>5. (FlattenSeq(pp) \o FlattenSeq(rr)) \o p = FlattenSeq(pp) \o (FlattenSeq(rr) \o p)
    BY <2>4, Regroup
  <2>6. FlattenSeq(pp \o rr) = FlattenSeq(pp) \o FlattenSeq(rr)
    BY <1>2
  <2>7. FlattenSeq(pp \o Append(rr, p)) = FlattenSeq(pp) \o FlattenSeq(Append(rr, p))
    BY <2>1, <2>2, <2>3, <2>5, <2>6, Zenon
  <2> QED BY <2>1, <2>7
<1> HIDE DEF P
<1>3. Seq(Seq(T)) \subseteq P
  BY <1>1, <1>2, SeqSetInduction
<1> QED BY <1>3 DEF P

(***************************************************************************)
(* Filtering.                                                              *)
(***************************************************************************)
Parts(s, S) == [i \in DOMAIN s |-> IF s[i] \in S THEN <<>> ELSE <<s[i]>>]

\* The parts a filter leaves.
LEMMA PartsType ==
  ASSUME NEW T, NEW s \in Seq(T), NEW S
  PROVE  Parts(s, S) \in Seq(Seq(T \ S))
<1>1. ASSUME NEW i \in 1 .. Len(s)
      PROVE  (IF s[i] \in S THEN <<>> ELSE <<s[i]>>) \in Seq(T \ S)
  <2>1. CASE s[i] \in S
    BY <2>1
  <2>2. CASE s[i] \notin S
    <3>1. PICK x \in T \ S : x = s[i]
      BY <2>2
    <3>2. <<x>> \in Seq(T \ S)
      OBVIOUS
    <3> QED BY <2>2, <3>1, <3>2
  <2> QED BY <2>1, <2>2
<1>2. Len(s) \in Nat /\ DOMAIN s = 1 .. Len(s)
  OBVIOUS
<1>3. Parts(s, S) \in [1 .. Len(s) -> Seq(T \ S)]
  BY <1>1, <1>2, Zenon DEF Parts
<1> QED BY <1>2, <1>3

\* What is left has no element of S.
LEMMA WithoutType ==
  ASSUME NEW T, NEW s \in Seq(T), NEW S
  PROVE  Without(s, S) \in Seq(T \ S)
BY PartsType, FlatType DEF Without, Parts

\* A filter adds nothing.
LEMMA WithoutKeeps ==
  ASSUME NEW T, NEW s \in Seq(T), NEW S
  PROVE  Without(s, S) \in Seq(T)
<1>1. Without(s, S) \in Seq(T \ S)
  BY WithoutType
<1> QED BY <1>1

\* Nothing, filtered.
LEMMA WithoutEmpty ==
  ASSUME NEW S
  PROVE  Without(<<>>, S) = <<>>
<1>1. Parts(<<>>, S) = <<>>
  BY DEF Parts
<1> QED BY <1>1, FlatEmpty, Zenon DEF Without, Parts

\* A filter goes part by part.
LEMMA WithoutConcat ==
  ASSUME NEW T, NEW s \in Seq(T), NEW t \in Seq(T), NEW S
  PROVE  Without(s \o t, S) = Without(s, S) \o Without(t, S)
<1>1. Parts(s \o t, S) = Parts(s, S) \o Parts(t, S)
  <2>1. s \o t \in Seq(T) /\ Len(s \o t) = Len(s) + Len(t)
    BY Longer
  <2>2. /\ Parts(s \o t, S) \in Seq(Seq(T \ S)) /\ Parts(s, S) \in Seq(Seq(T \ S))
        /\ Parts(t, S) \in Seq(Seq(T \ S))
    BY <2>1, PartsType, Zenon
  <2>3. /\ Len(Parts(s \o t, S)) = Len(s) + Len(t) /\ Len(Parts(s, S)) = Len(s)
        /\ Len(Parts(t, S)) = Len(t)
    BY <2>1, <2>2 DEF Parts
  <2>4. \A i \in 1 .. (Len(s) + Len(t)) :
          Parts(s \o t, S)[i] = (Parts(s, S) \o Parts(t, S))[i]
    BY DEF Parts
  <2> DEFINE both == Parts(s, S) \o Parts(t, S)
  <2>5. both \in Seq(Seq(T \ S)) /\ Len(both) = Len(s) + Len(t)
    <3>1. both \in Seq(Seq(T \ S)) /\ Len(both) = Len(Parts(s, S)) + Len(Parts(t, S))
      BY <2>2, Longer, Zenon
    <3> QED BY <2>3, <3>1, Zenon
  <2>6. \A i \in 1 .. Len(Parts(s \o t, S)) : Parts(s \o t, S)[i] = both[i]
    BY <2>3, <2>4
  <2> HIDE DEF both
  <2>7. Parts(s \o t, S) = both
    BY <2>2, <2>3, <2>5, <2>6, SameSequence
  <2> QED BY <2>7 DEF both
<1>2. Parts(s, S) \in Seq(Seq(T \ S)) /\ Parts(t, S) \in Seq(Seq(T \ S))
  BY PartsType
<1>3. FlattenSeq(Parts(s, S) \o Parts(t, S)) = FlattenSeq(Parts(s, S)) \o FlattenSeq(Parts(t, S))
  BY <1>2, FlatConcat
<1> QED BY <1>1, <1>3, Zenon DEF Without, Parts

\* A filter goes element by element.
LEMMA WithoutAppend ==
  ASSUME NEW T, NEW s \in Seq(T), NEW x \in T, NEW S
  PROVE  Without(Append(s, x), S) =
           IF x \in S THEN Without(s, S) ELSE Append(Without(s, S), x)
<1> DEFINE part == IF x \in S THEN <<>> ELSE <<x>>
<1>1. part \in Seq(T)
  OBVIOUS
<1>2. Without(<<x>>, S) = part
  <2>1. Parts(<<x>>, S) = <<part>>
    BY DEF Parts
  <2>2. FlattenSeq(<<part>>) = part
    BY <1>1, FlatOne
  <2> QED BY <2>1, <2>2, Zenon DEF Without, Parts
<1>3. <<x>> \in Seq(T) /\ Append(s, x) = s \o <<x>>
  OBVIOUS
<1>4. Without(s \o <<x>>, S) = Without(s, S) \o part
  <2>1. PICK t \in Seq(T) : t = <<x>>
    BY <1>3
  <2>2. Without(s \o t, S) = Without(s, S) \o Without(t, S)
    BY WithoutConcat
  <2> QED BY <1>2, <2>1, <2>2, Zenon
<1>5. Without(s, S) \in Seq(T)
  BY WithoutKeeps
<1>6. Without(s, S) \o part = IF x \in S THEN Without(s, S) ELSE Append(Without(s, S), x)
  BY <1>5
<1> QED BY <1>3, <1>4, <1>6, Zenon

\* Only elements of the sequence matter.
LEMMA WithoutOnly ==
  ASSUME NEW T, NEW s \in Seq(T), NEW S, NEW R, \A x \in ToSet(s) : x \in S <=> x \in R
  PROVE  Without(s, S) = Without(s, R)
<1>1. Parts(s, S) = Parts(s, R)
  BY DEF Parts, ToSet
<1> QED BY <1>1, Zenon DEF Without, Parts

\* An element that is there once is there at most once afterwards.
Once(s, S) == \A i, j \in DOMAIN s : s[i] = s[j] /\ s[i] \in S => i = j

\* So it is with a filter.
LEMMA WithoutOnce ==
  ASSUME NEW T, NEW S, NEW R, NEW t \in Seq(T), Once(t, R)
  PROVE  Once(Without(t, S), R)
<1> DEFINE P == {s \in Seq(T) : Once(s, R) =>
                   ToSet(Without(s, S)) \subseteq ToSet(s) /\ Once(Without(s, S), R)}
<1>1. <<>> \in P
  <2>2. Without(<<>>, S) = <<>>
    BY WithoutEmpty
  <2>3. <<>> \in Seq(T) /\ Once(<<>>, R)
    BY DEF Once
  <2> QED BY <2>2, <2>3, Zenon
<1>2. ASSUME NEW s \in Seq(T), NEW x \in T, s \in P PROVE Append(s, x) \in P
  <2> DEFINE w == Without(s, S)
             v == Append(s, x)
  <2>1. w \in Seq(T)
    BY WithoutKeeps
  <2>2. Without(v, S) = IF x \in S THEN w ELSE Append(w, x)
    BY WithoutAppend
  <2> HIDE DEF w
  <2>3. ASSUME Once(v, R) PROVE ToSet(Without(v, S)) \subseteq ToSet(v) /\ Once(Without(v, S), R)
    <3>1. /\ v \in Seq(T) /\ Len(v) = Len(s) + 1 /\ v[Len(s) + 1] = x
          /\ \A i \in DOMAIN s : v[i] = s[i] /\ i \in 1 .. Len(s)
      OBVIOUS
    <3> HIDE DEF v
    <3>2. Once(s, R) /\ ToSet(s) \subseteq ToSet(v) /\ x \in ToSet(v)
      BY <2>3, <3>1 DEF Once, ToSet
    <3>3. ToSet(w) \subseteq ToSet(s) /\ Once(w, R)
      BY <1>2, <3>2 DEF w
    <3>4. x \in R => x \notin ToSet(s)
      <4>1. ASSUME x \in R, NEW i \in DOMAIN s, s[i] = x PROVE FALSE
        <5>1. i \in DOMAIN v /\ Len(s) + 1 \in DOMAIN v /\ v[i] = v[Len(s) + 1] /\ i # Len(s) + 1
          BY <3>1, <4>1
        <5> QED BY <2>3, <3>1, <4>1, <5>1 DEF Once
      <4> QED BY <4>1 DEF ToSet
    <3>5. CASE x \in S
      BY <2>2, <3>2, <3>3, <3>5
    <3>6. CASE x \notin S
      <4>1. Without(v, S) = Append(w, x)
        BY <2>2, <3>6
      <4>2. PICK u \in Seq(T) : u = Append(w, x)
        BY <2>1, AppendTo, Zenon
      <4>3. /\ Len(u) = Len(w) + 1 /\ u[Len(w) + 1] = x
            /\ \A i \in 1 .. Len(w) : u[i] = w[i] /\ i \in DOMAIN w
        BY <2>1, <4>2
      <4>4. ToSet(u) \subseteq ToSet(v)
        <5>1. \A i \in DOMAIN u : i \in 1 .. Len(w) \/ i = Len(w) + 1
          BY <2>1, <4>3
        <5>2. \A i \in DOMAIN u : u[i] = x \/ u[i] \in ToSet(w)
          BY <4>3, <5>1 DEF ToSet
        <5>3. \A y \in ToSet(u) : y = x \/ y \in ToSet(w)
          BY <5>2 DEF ToSet
        <5> QED BY <3>2, <3>3, <5>3
      <4>5. x \in R => x \notin ToSet(w)
        BY <3>3, <3>4
      <4>6. Once(u, R)
        BY <2>1, <3>3, <4>3, <4>5 DEF Once, ToSet
      <4> QED BY <4>1, <4>2, <4>4, <4>6
    <3> QED BY <3>5, <3>6
  <2>4. v \in Seq(T)
    OBVIOUS
  <2> QED BY <2>3, <2>4
<1> HIDE DEF P
<1>3. Seq(T) \subseteq P
  BY <1>1, <1>2, SeqSetInduction
<1> QED BY <1>3 DEF P

---------------------------------------------------------------------------
(***************************************************************************)
(* The inductive invariant.                                                *)
(***************************************************************************)
Open == {s \in Server : status[s] = "open"}
OnBus(b) == b \in Entries /\ Subscribes(b)

\* An open server is an active member of the bus of every backend it subscribes to, and
\* any other server has left or never joined.
Members ==
  /\ status \in [Server -> {"new", "open", "closed"}]
  /\ member \in [Server -> [Backend -> {None} \cup [bus : Nat, active : BOOLEAN]]]
  /\ \A s \in Server, b \in Backend :
       IF OnBus(b) /\ status[s] = "open"
       THEN member[s][b] = [bus |-> bus[b], active |-> TRUE]
       ELSE member[s][b] # None => member[s][b].active = FALSE

\* The newest bus of a backend holds the open servers; it is in the map of the buses while
\* there are any, and its number there is right.
Buses ==
  /\ servers \in [Backend -> Seq(SUBSET Server)]
  /\ bus \in [Backend -> Nat]
  /\ \A b \in Backend :
       /\ OnBus(b) => /\ Listening(b) = Open
                       /\ bus[b] = IF Open = {} THEN 0 ELSE Handler(b)
       /\ ~OnBus(b) => bus[b] = 0

\* A backend that is being read has pages left; its listing has a place for each backend.
Reading ==
  \A s \in Server : progress[s] # None =>
    \A b \in ServingSet :
      /\ b \in DOMAIN progress[s]
      /\ progress[s][b].status \in {"reading", "done", "failed"}
      /\ progress[s][b].page \in Nat
      /\ config.mesh => progress[s][b].page <= MaxPages
      /\ config.mesh /\ progress[s][b].status = "reading" => progress[s][b].page < MaxPages

Upstreams ==
  /\ config \in Configuration
  /\ catalog \in [Backend -> config.catalogs]
  /\ notice \in [Backend -> BOOLEAN]
  /\ changes \in 0..config.maxChanges

Clients ==
  /\ closings \in [Server -> 0..2]
  /\ stale \in [Server -> BOOLEAN]
  /\ moved \in [Server -> SUBSET Backend]
  /\ DOMAIN progress = Server

IInv == Upstreams /\ Members /\ Buses /\ Reading /\ Clients

---------------------------------------------------------------------------
(***************************************************************************)
(* The buses.                                                              *)
(***************************************************************************)
\* A bus in the map is the newest of its backend.
LEMMA BusNumber ==
  ASSUME Buses, NEW b \in Backend, OnBus(b), Open # {}
  PROVE  /\ bus[b] = Len(servers[b]) /\ bus[b] \in DOMAIN servers[b]
         /\ servers[b][bus[b]] = Open
<1>1. servers[b] \in Seq(SUBSET Server) /\ Len(servers[b]) \in Nat
  BY DEF Buses
<1>2. Listening(b) = Open /\ bus[b] = Handler(b)
  BY DEF Buses
<1>3. Handler(b) # 0
  BY <1>2 DEF Listening
<1> QED BY <1>1, <1>2, <1>3 DEF Listening, Handler

\* An active membership.
LEMMA ActiveMember ==
  ASSUME NEW n \in Nat, NEW m, m = [bus |-> n, active |-> TRUE]
  PROVE  m # None /\ m.active = TRUE /\ m.bus = n
<1>1. m \in [bus : Nat, active : BOOLEAN]
  OBVIOUS
<1>2. m # None
  BY ONLY <1>1, NoneIsNew
<1>3. m.active = TRUE
  BY Zenon
<1>4. m.bus = n
  OBVIOUS
<1> QED BY <1>2, <1>3, <1>4

\* What is left of a membership.
LEMMA LeftMember ==
  ASSUME NEW m \in [bus : Nat, active : BOOLEAN]
  PROVE  /\ [m EXCEPT !.active = FALSE] \in [bus : Nat, active : BOOLEAN]
         /\ [m EXCEPT !.active = FALSE].active = FALSE
OBVIOUS

\* A new server joins the newest bus of every backend, or makes one.
LEMMA CreateStep ==
  ASSUME Members, Buses, NEW s \in Server, CreateServer(s)
  PROVE  Members' /\ Buses'
<1> DEFINE number(b) == IF bus[b] = 0 THEN Len(servers[b]) + 1 ELSE bus[b]
<1>1. /\ status[s] = "new" /\ config' = config
      /\ status' = [status EXCEPT ![s] = "open"]
      /\ bus' = [b \in Backend |-> IF OnBus(b) THEN number(b) ELSE bus[b]]
      /\ servers' = [b \in Backend |->
           IF ~OnBus(b) THEN servers[b]
           ELSE IF bus[b] = 0 THEN Append(servers[b], {s})
           ELSE [servers[b] EXCEPT ![bus[b]] = @ \cup {s}]]
      /\ member' = [member EXCEPT ![s] = [b \in Backend |->
           IF OnBus(b) THEN [bus |-> number(b), active |-> TRUE] ELSE None]]
  BY DEF CreateServer, OnBus
<1> HIDE DEF number
<1>2. Open' = Open \cup {s} /\ Open' # {}
  BY <1>1 DEF Open, Members
<1>3. \A b \in Backend : OnBus(b)' <=> OnBus(b)
  BY <1>1 DEF OnBus, Entries, Subscribes
<1>4. \A b \in Backend : bus[b] \in Nat /\ Len(servers[b]) \in Nat /\ number(b) \in Nat
  BY DEF Buses, number
<1>5. ASSUME NEW b \in Backend, OnBus(b)
      PROVE  /\ servers'[b] \in Seq(SUBSET Server)
             /\ bus'[b] = Len(servers'[b]) /\ bus'[b] # 0
             /\ servers'[b][Len(servers'[b])] = Open'
             /\ Open # {} => bus'[b] = bus[b]
  <2>1. servers[b] \in Seq(SUBSET Server)
    BY DEF Buses
  <2>2. CASE Open = {}
    <3>1. bus[b] = 0
      BY <1>5, <2>2 DEF Buses
    <3>2. servers'[b] = Append(servers[b], {s}) /\ bus'[b] = Len(servers[b]) + 1
      BY <1>1, <1>5, <3>1 DEF number
    <3> QED BY <1>2, <1>4, <2>1, <2>2, <3>2
  <2>3. CASE Open # {}
    <3>1. /\ bus[b] = Len(servers[b]) /\ bus[b] \in DOMAIN servers[b]
          /\ servers[b][bus[b]] = Open
      BY <1>5, <2>3, BusNumber
    <3>2. bus[b] # 0
      BY <2>1, <3>1
    <3>3. servers'[b] = [servers[b] EXCEPT ![bus[b]] = @ \cup {s}] /\ bus'[b] = bus[b]
      BY <1>1, <1>5, <3>2 DEF number
    <3> QED BY <1>2, <2>1, <3>1, <3>2, <3>3
  <2> QED BY <2>2, <2>3
<1>6. Buses'
  <2>1. servers' \in [Backend -> Seq(SUBSET Server)] /\ bus' \in [Backend -> Nat]
    BY <1>1, <1>4, <1>5 DEF Buses
  <2>2. ASSUME NEW b \in Backend, OnBus(b)
        PROVE  Listening(b)' = Open' /\ bus'[b] = Handler(b)'
    BY <1>5, <2>2 DEF Listening, Handler
  <2>3. ASSUME NEW b \in Backend, ~OnBus(b) PROVE bus'[b] = 0
    BY <1>1, <2>3 DEF Buses
  <2> QED BY <1>2, <1>3, <2>1, <2>2, <2>3 DEF Buses
<1>7. Members'
  <2>1. status' \in [Server -> {"new", "open", "closed"}]
    BY <1>1 DEF Members
  <2>2. member' \in [Server -> [Backend -> {None} \cup [bus : Nat, active : BOOLEAN]]]
    BY <1>1, <1>4 DEF Members
  <2>3. ASSUME NEW t \in Server, NEW b \in Backend, OnBus(b), status'[t] = "open"
        PROVE  member'[t][b] = [bus |-> bus'[b], active |-> TRUE]
    <3>1. CASE t = s
      BY <1>1, <2>3, <3>1 DEF Members
    <3>2. CASE t # s
      <4>1. status[t] = "open" /\ member'[t] = member[t]
        BY <1>1, <2>3, <3>2 DEF Members
      <4>2. bus'[b] = bus[b]
        BY <1>5, <2>3, <4>1 DEF Open
      <4> QED BY <2>3, <4>1, <4>2 DEF Members
    <3> QED BY <3>1, <3>2
  <2>4. ASSUME NEW t \in Server, NEW b \in Backend, ~(OnBus(b) /\ status'[t] = "open"),
               member'[t][b] # None
        PROVE  member'[t][b].active = FALSE
    <3>1. CASE t = s
      BY <1>1, <2>4, <3>1 DEF Members
    <3>2. CASE t # s
      BY <1>1, <2>4, <3>2 DEF Members
    <3> QED BY <3>1, <3>2
  <2> QED BY <1>3, <2>1, <2>2, <2>3, <2>4 DEF Members
<1> QED BY <1>6, <1>7

\* An open server leaves every bus it is on; what has left before has nothing to leave.
LEMMA CloseStep ==
  ASSUME Members, Buses, NEW s \in Server, CloseServer(s)
  PROVE  Members' /\ Buses'
<1> DEFINE leaving == {b \in Backend : member[s][b] # None /\ member[s][b].active}
           left(b) == [servers[b] EXCEPT ![member[s][b].bus] = @ \ {s}]
<1>1. /\ status[s] # "new" /\ config' = config
      /\ status' = [status EXCEPT ![s] = "closed"]
      /\ servers' = [b \in Backend |-> IF b \in leaving THEN left(b) ELSE servers[b]]
      /\ bus' = [b \in Backend |->
           IF b \in leaving /\ left(b)[member[s][b].bus] = {} THEN 0 ELSE bus[b]]
      /\ member' = [member EXCEPT ![s] = [b \in Backend |->
           IF b \in leaving THEN [member[s][b] EXCEPT !.active = FALSE] ELSE member[s][b]]]
  BY DEF CloseServer, LeaveBuses, Leave
<1>2. \A b \in Backend : b \in leaving <=> OnBus(b) /\ status[s] = "open"
  <2>1. ASSUME NEW b \in Backend, OnBus(b), status[s] = "open"
        PROVE  member[s][b] # None /\ member[s][b].active = TRUE
    <3>1. member[s][b] = [bus |-> bus[b], active |-> TRUE] /\ bus[b] \in Nat
      BY <2>1 DEF Members, Buses
    <3> QED BY <3>1, ActiveMember
  <2>2. ASSUME NEW b \in Backend, ~(OnBus(b) /\ status[s] = "open"), member[s][b] # None
        PROVE  member[s][b].active = FALSE
    BY <2>2 DEF Members
  <2> QED BY <2>1, <2>2
<1> HIDE DEF leaving, left
<1>3. Open' = Open \ {s}
  BY <1>1 DEF Open, Members
<1>4. \A b \in Backend : OnBus(b)' <=> OnBus(b)
  BY <1>1 DEF OnBus, Entries, Subscribes
<1>5. \A b \in Backend : bus[b] \in Nat /\ servers[b] \in Seq(SUBSET Server)
  BY DEF Buses
<1>6. ASSUME NEW b \in Backend, b \in leaving
      PROVE  /\ servers'[b] \in Seq(SUBSET Server)
             /\ Len(servers'[b]) # 0 /\ servers'[b][Len(servers'[b])] = Open'
             /\ bus'[b] = IF Open' = {} THEN 0 ELSE Len(servers'[b])
             /\ Open' # {} => bus'[b] = bus[b]
  <2>1. OnBus(b) /\ status[s] = "open" /\ s \in Open
    BY <1>2, <1>6 DEF Open
  <2>2. /\ bus[b] = Len(servers[b]) /\ bus[b] \in DOMAIN servers[b]
        /\ servers[b][bus[b]] = Open
    BY <2>1, BusNumber
  <2>3. member[s][b].bus = bus[b]
    <3>1. member[s][b] = [bus |-> bus[b], active |-> TRUE]
      BY <2>1 DEF Members
    <3> QED BY <1>5, <3>1, ActiveMember
  <2>4. left(b) = [servers[b] EXCEPT ![bus[b]] = @ \ {s}]
    BY <2>3 DEF left
  <2>5. /\ left(b) \in Seq(SUBSET Server) /\ Len(left(b)) = Len(servers[b])
        /\ left(b)[bus[b]] = Open'
    BY <1>3, <1>5, <2>2, <2>4
  <2>6. servers'[b] = left(b) /\ bus'[b] = IF Open' = {} THEN 0 ELSE bus[b]
    BY <1>1, <1>6, <2>3, <2>5
  <2> QED BY <1>5, <2>2, <2>5, <2>6
<1>7. ASSUME NEW b \in Backend, b \notin leaving
      PROVE  servers'[b] = servers[b] /\ bus'[b] = bus[b]
  BY <1>1, <1>7
<1>8. Buses'
  <2>1. servers' \in [Backend -> Seq(SUBSET Server)]
    BY <1>1, <1>5, <1>6, <1>7
  <2>2. bus' \in [Backend -> Nat]
    BY <1>1, <1>5
  <2>3. ASSUME NEW b \in Backend, OnBus(b)
        PROVE  Listening(b)' = Open' /\ bus'[b] = IF Open' = {} THEN 0 ELSE Handler(b)'
    <3>1. CASE b \in leaving
      BY <1>6, <3>1 DEF Listening, Handler
    <3>2. CASE b \notin leaving
      <4>1. Open' = Open
        BY <1>2, <1>3, <2>3, <3>2 DEF Open
      <4>2. Listening(b)' = Listening(b) /\ Handler(b)' = Handler(b)
        BY <1>7, <3>2 DEF Listening, Handler
      <4> QED BY <1>7, <2>3, <3>2, <4>1, <4>2 DEF Buses
    <3> QED BY <3>1, <3>2
  <2>4. ASSUME NEW b \in Backend, ~OnBus(b) PROVE bus'[b] = 0
    BY <1>2, <1>7, <2>4 DEF Buses
  <2> QED BY <1>4, <2>1, <2>2, <2>3, <2>4 DEF Buses
<1>9. Members'
  <2>1. status' \in [Server -> {"new", "open", "closed"}]
    BY <1>1 DEF Members
  <2>2. member' \in [Server -> [Backend -> {None} \cup [bus : Nat, active : BOOLEAN]]]
    <3>1. ASSUME NEW b \in Backend
          PROVE  (IF b \in leaving THEN [member[s][b] EXCEPT !.active = FALSE]
                                   ELSE member[s][b])
                   \in {None} \cup [bus : Nat, active : BOOLEAN]
      <4>1. CASE b \in leaving
        <5>1. member[s][b] \in [bus : Nat, active : BOOLEAN]
          BY <4>1 DEF Members, leaving
        <5> QED BY <4>1, <5>1, LeftMember
      <4>2. CASE b \notin leaving
        BY <4>2 DEF Members
      <4> QED BY <4>1, <4>2
    <3> QED BY <1>1, <3>1 DEF Members
  <2>3. ASSUME NEW t \in Server, NEW b \in Backend, OnBus(b), status'[t] = "open"
        PROVE  member'[t][b] = [bus |-> bus'[b], active |-> TRUE]
    <3>1. t # s /\ status[t] = "open" /\ member'[t] = member[t]
      BY <1>1, <2>3 DEF Members
    <3>2. t \in Open'
      BY <2>3 DEF Open
    <3>3. bus'[b] = bus[b]
      BY <1>6, <1>7, <3>2
    <3> QED BY <2>3, <3>1, <3>3 DEF Members
  <2>4. ASSUME NEW t \in Server, NEW b \in Backend, ~(OnBus(b) /\ status'[t] = "open"),
               member'[t][b] # None
        PROVE  member'[t][b].active = FALSE
    <3>1. CASE t # s
      BY <1>1, <2>4, <3>1 DEF Members
    <3>2. CASE t = s /\ b \in leaving
      <4>1. member[s][b] \in [bus : Nat, active : BOOLEAN]
        BY <3>2 DEF Members, leaving
      <4>2. member'[t][b] = [member[s][b] EXCEPT !.active = FALSE]
        BY <1>1, <3>2 DEF Members
      <4> QED BY <4>1, <4>2, LeftMember
    <3>3. CASE t = s /\ b \notin leaving
      BY <1>1, <1>2, <2>4, <3>3 DEF Members
    <3> QED BY <3>1, <3>2, <3>3
  <2> QED BY <1>4, <2>1, <2>2, <2>3, <2>4 DEF Members
<1> QED BY <1>8, <1>9

---------------------------------------------------------------------------
(***************************************************************************)
(* Every step.                                                             *)
(***************************************************************************)
\* The options never change, and only servers that come and go change the buses.
LEMMA ConfigStep ==
  ASSUME [Next]_vars
  PROVE  config' = config
BY DEF Next, CreateServer, CloseServer, UpstreamChanges, Notify, Listing, StartList,
       FetchPage, BackendFails, FinishList, vars

\* Every other step leaves the buses.
LEMMA BusesStep ==
  ASSUME Members, Buses, [Next]_vars
  PROVE  Members' /\ Buses'
<1>1. CASE UNCHANGED <<config, busVars>>
  <2> USE <1>1 DEF busVars
  <2>1. Members'
    BY DEF Members, OnBus, Entries, Subscribes
  <2>2. Buses'
    BY DEF Buses, OnBus, Entries, Subscribes, Listening, Handler, Open
  <2> QED BY <2>1, <2>2
<1>2. ASSUME NEW s \in Server, CreateServer(s) PROVE Members' /\ Buses'
  BY <1>2, CreateStep
<1>3. ASSUME NEW s \in Server, CloseServer(s) PROVE Members' /\ Buses'
  BY <1>3, CloseStep
<1>4. ASSUME NEW b \in Backend, UpstreamChanges(b) \/ Notify(b)
      PROVE  UNCHANGED <<config, busVars>>
  BY <1>4 DEF UpstreamChanges, Notify
<1>5. ASSUME NEW s \in Lister, Listing(s) PROVE UNCHANGED <<config, busVars>>
  BY <1>5 DEF Listing, StartList, FetchPage, BackendFails, FinishList
<1>6. CASE UNCHANGED vars
  BY <1>1, <1>6 DEF vars
<1> QED BY <1>1, <1>2, <1>3, <1>4, <1>5, <1>6 DEF Next

\* What a page or a failure leaves of the listing of one backend.
Place(p) ==
  /\ p.status \in {"reading", "done", "failed"}
  /\ p.page \in Nat
  /\ config.mesh => p.page <= MaxPages
  /\ config.mesh /\ p.status = "reading" => p.page < MaxPages

\* A step of one drain leaves the others.
LEMMA PlaceStep ==
  ASSUME Reading, DOMAIN progress = Server, UNCHANGED config,
         NEW s \in Server, NEW b \in ServingSet, progress[s] # None, NEW p,
         progress' = [progress EXCEPT ![s] = [progress[s] EXCEPT ![b] = p]],
         Place(p)
  PROVE  Reading'
<1>1. ServingSet' = ServingSet
  BY DEF ServingSet, Entries
<1>2. ASSUME NEW t \in Server, progress'[t] # None, NEW c \in ServingSet
      PROVE  c \in DOMAIN progress'[t] /\ Place(progress'[t][c])
  <2>1. CASE t # s
    BY <1>2, <2>1 DEF Reading, Place
  <2>2. CASE t = s /\ c # b
    BY <1>2, <2>2 DEF Reading, Place
  <2>3. CASE t = s /\ c = b
    BY <1>2, <2>3 DEF Reading
  <2> QED BY <2>1, <2>2, <2>3
<1> QED BY <1>1, <1>2 DEF Reading, Place

\* A drain goes on while the backend has pages, and in a mesh at most to MaxPages.
LEMMA ReadingStep ==
  ASSUME Reading, Clients, [Next]_vars
  PROVE  Reading' /\ DOMAIN progress' = Server
<1>1. UNCHANGED config
  BY ConfigStep
<1>2. ServingSet' = ServingSet
  BY <1>1 DEF ServingSet, Entries
<1>3. DOMAIN progress = Server
  BY DEF Clients
<1>4. ASSUME UNCHANGED progress PROVE Reading' /\ DOMAIN progress' = Server
  BY <1>1, <1>2, <1>3, <1>4 DEF Reading
<1>5. ASSUME NEW s \in Server, progress' = [progress EXCEPT ![s] = None]
      PROVE  Reading' /\ DOMAIN progress' = Server
  BY <1>1, <1>2, <1>3, <1>5 DEF Reading
<1>6. ASSUME NEW s \in Server, StartList(s)
      PROVE  Reading' /\ DOMAIN progress' = Server
  <2>1. progress' = [progress EXCEPT ![s] =
          [b \in ServingSet |-> [status |-> "reading", page |-> 0, items |-> <<>>]]]
    BY <1>6 DEF StartList
  <2> QED BY <1>1, <1>2, <1>3, <2>1, SomePages DEF Reading
<1>7. ASSUME NEW s \in Server, NEW b \in ServingSet, FetchPage(s, b)
      PROVE  Reading' /\ DOMAIN progress' = Server
  <2> DEFINE page == progress[s][b].page + 1
             more == catalog[b].endless \/ page < Len(catalog[b].pages)
             next == IF ~more THEN "done"
                     ELSE IF GivesUpAfter(page) THEN "failed" ELSE "reading"
  <2>1. PICK items :
          progress' = [progress EXCEPT ![s] = [progress[s] EXCEPT
                         ![b] = [status |-> next, page |-> page, items |-> items]]]
    BY <1>7 DEF FetchPage
  <2>2. progress[s] # None /\ progress[s][b].status = "reading"
    BY <1>7 DEF FetchPage
  <2>3. progress[s][b].page \in Nat /\ (config.mesh => progress[s][b].page < MaxPages)
    BY <2>2 DEF Reading
  <2>4. page \in Nat /\ (config.mesh => page <= MaxPages)
    BY <2>3, SomePages
  <2>5. config.mesh /\ next = "reading" => page # MaxPages
    BY DEF GivesUpAfter
  <2>6. next \in {"done", "failed", "reading"}
    OBVIOUS
  <2> HIDE DEF next, page
  <2>7. Place([status |-> next, page |-> page, items |-> items])
    BY <2>4, <2>5, <2>6, SomePages DEF Place
  <2> QED BY <1>1, <1>3, <2>1, <2>2, <2>7, PlaceStep
<1>8. ASSUME NEW s \in Server, NEW b \in ServingSet, BackendFails(s, b)
      PROVE  Reading' /\ DOMAIN progress' = Server
  <2> DEFINE p == [progress[s][b] EXCEPT !.status = "failed"]
  <2>1. progress' = [progress EXCEPT ![s] = [progress[s] EXCEPT ![b] = p]]
    BY <1>8 DEF BackendFails
  <2>2. progress[s] # None /\ progress[s][b].status = "reading"
    BY <1>8 DEF BackendFails
  <2>3. Place(p)
    BY <2>2 DEF Reading, Place
  <2> HIDE DEF p
  <2> QED BY <1>1, <1>3, <2>1, <2>2, <2>3, PlaceStep
<1>9. ASSUME NEW s \in Server, CreateServer(s) PROVE UNCHANGED progress
  BY <1>9 DEF CreateServer, listVars
<1>10. ASSUME NEW s \in Server, CloseServer(s) \/ FinishList(s)
       PROVE  progress' = [progress EXCEPT ![s] = None]
  BY <1>10 DEF CloseServer, FinishList
<1>11. ASSUME NEW b \in Backend, UpstreamChanges(b) \/ Notify(b) PROVE UNCHANGED progress
  BY <1>11 DEF UpstreamChanges, Notify
<1>12. CASE UNCHANGED vars
  BY <1>4, <1>12 DEF vars, listVars
<1> QED BY <1>4, <1>5, <1>6, <1>7, <1>8, <1>9, <1>10, <1>11, <1>12, SomeServers
        DEF Next, Listing

\* The catalogs keep their types, and change no more often than the bound says.
LEMMA UpstreamsStep ==
  ASSUME Upstreams, [Next]_vars
  PROVE  Upstreams'
<1>1. UNCHANGED config
  BY ConfigStep
<1>2. ASSUME UNCHANGED upstreamVars PROVE Upstreams'
  BY <1>1, <1>2 DEF Upstreams, upstreamVars
<1>3. ASSUME NEW b \in Backend, UpstreamChanges(b) PROVE Upstreams'
  <2>1. config.maxChanges \in Nat
    BY KnownBackends DEF Upstreams
  <2>2. changes' \in 0..config.maxChanges
    BY <1>3, <2>1 DEF UpstreamChanges, Upstreams
  <2>3. notice' \in [Backend -> BOOLEAN]
    BY <1>3 DEF UpstreamChanges, Upstreams
  <2>4. catalog' \in [Backend -> config.catalogs]
    BY <1>3 DEF UpstreamChanges, Upstreams
  <2> QED BY <1>1, <2>2, <2>3, <2>4 DEF Upstreams
<1>4. ASSUME NEW b \in Backend, Notify(b) PROVE Upstreams'
  BY <1>1, <1>4 DEF Notify, Upstreams
<1>5. ASSUME NEW s \in Server, CreateServer(s) \/ CloseServer(s) PROVE UNCHANGED upstreamVars
  BY <1>5 DEF CreateServer, CloseServer
<1>6. ASSUME NEW s \in Server, Listing(s) PROVE UNCHANGED upstreamVars
  BY <1>6 DEF Listing, StartList, FetchPage, BackendFails, FinishList
<1> QED BY <1>2, <1>3, <1>4, <1>5, <1>6, SomeServers DEF Next, vars

\* The clients keep their types.
LEMMA ClientsStep ==
  ASSUME Reading, Clients, [Next]_vars
  PROVE  Clients'
<1>1. DOMAIN progress' = Server
  BY ReadingStep
<1> DEFINE Kept == /\ closings' \in [Server -> 0..2]
                   /\ stale' \in [Server -> BOOLEAN]
                   /\ moved' \in [Server -> SUBSET Backend]
<1>2. ASSUME NEW s \in Server, CreateServer(s) \/ CloseServer(s) PROVE Kept
  <2>1. CASE CreateServer(s)
    BY <2>1 DEF CreateServer, Clients, listVars
  <2>2. CASE CloseServer(s)
    <3>1. closings[s] \in 0..2 /\ closings[s] < 2
      BY <2>2 DEF CloseServer, Clients
    <3>2. /\ closings' = [closings EXCEPT ![s] = closings[s] + 1]
          /\ stale' = [stale EXCEPT ![s] = FALSE]
          /\ moved' = [moved EXCEPT ![s] = {}]
      BY <2>2 DEF CloseServer
    <3>3. closings' \in [Server -> 0..2]
      BY <3>1, <3>2 DEF Clients
    <3>4. stale' \in [Server -> BOOLEAN]
      BY <3>2 DEF Clients
    <3>5. moved' \in [Server -> SUBSET Backend]
      BY <3>2 DEF Clients
    <3> QED BY <3>3, <3>4, <3>5
  <2> QED BY <1>2, <2>1, <2>2
<1>3. ASSUME NEW b \in Backend, UpstreamChanges(b) PROVE Kept
  BY <1>3 DEF UpstreamChanges, Clients, busVars
<1>4. ASSUME NEW b \in Backend, Notify(b) PROVE Kept
  BY <1>4 DEF Notify, Clients, busVars
<1>5. ASSUME NEW s \in Server, Listing(s) PROVE Kept
  BY <1>5 DEF Listing, StartList, FetchPage, BackendFails, FinishList, Clients, busVars
<1>6. CASE UNCHANGED vars
  BY <1>6 DEF vars, busVars, listVars, Clients
<1> QED BY <1>1, <1>2, <1>3, <1>4, <1>5, <1>6, SomeServers DEF Next, Clients

---------------------------------------------------------------------------
(***************************************************************************)
(* The theorems.                                                           *)
(***************************************************************************)
LEMMA IInvInit == Init => IInv
<1> SUFFICES ASSUME Init PROVE IInv
  OBVIOUS
<1>1. config \in Configuration /\ config.maxChanges \in Nat
  BY KnownBackends DEF Init
<1>2. Upstreams
  BY <1>1 DEF Init, Upstreams
<1>3. Open = {}
  BY DEF Init, Open
<1>4. Members
  BY DEF Init, Members
<1>5. Buses
  BY <1>3 DEF Init, Buses, Listening, Handler
<1>6. Reading /\ Clients
  BY DEF Init, Reading, Clients
<1> QED BY <1>2, <1>4, <1>5, <1>6 DEF IInv

\* Every step keeps the invariant.
LEMMA IInvStep == IInv /\ [Next]_vars => IInv'
BY UpstreamsStep, BusesStep, ReadingStep, ClientsStep DEF IInv

\* The invariant holds, for any servers, backends and configurations.
THEOREM IInvHolds == Spec => []IInv
BY IInvInit, IInvStep, PTL DEF Spec

\* Every variable keeps its type, and a mesh drains no backend beyond MAX_PAGES_PER_BACKEND
\* (drainBackend).
THEOREM TypeCorrect == Spec => []TypeOK
<1>1. IInv => TypeOK
  <2> SUFFICES ASSUME IInv PROVE TypeOK
    OBVIOUS
  <2>1. ASSUME NEW b \in Backend
        PROVE  /\ bus[b] \in 0..Len(servers[b])
               /\ \A i \in DOMAIN servers[b] : servers[b][i] \subseteq Server
    <3>1. servers[b] \in Seq(SUBSET Server) /\ Len(servers[b]) \in Nat
      BY DEF IInv, Buses
    <3>2. bus[b] \in {0, Len(servers[b])}
      BY DEF IInv, Buses, Handler
    <3> QED BY <3>1, <3>2
  <2>2. \A s \in Server : progress[s] # None =>
          \A b \in ServingSet :
            /\ progress[s][b].status \in {"reading", "done", "failed"}
            /\ config.mesh => progress[s][b].page \in 0..MaxPages
    BY SomePages DEF IInv, Reading
  <2> QED BY <2>1, <2>2 DEF IInv, Upstreams, Members, Clients, TypeOK
<1> QED BY <1>1, IInvHolds, PTL

\* A backend's notification reaches exactly the open servers, however many servers come
\* and go and however often a server's onclose runs (registerListChangedForwarders).
THEOREM FanOutExactHolds == Spec => []FanOutExact
<1>1. IInv => FanOutExact
  <2> SUFFICES ASSUME IInv, NEW b \in Entries, Subscribes(b) PROVE Listening(b) = Open
    BY DEF FanOutExact, Open
  <2>1. b \in Backend
    BY KnownBackends DEF IInv, Upstreams, Entries, ToSet
  <2> QED BY <2>1 DEF IInv, Buses, OnBus
<1> QED BY <1>1, IInvHolds, PTL

---------------------------------------------------------------------------
(***************************************************************************)
(* Names that lead back.                                                   *)
(***************************************************************************)
\* A hypothesis of the theorems about listings.  Of the options the constructors accept, a
\* mesh whose backends serve an empty name, or name tools or prompts under a key that ends
\* in an underscore (Apart), shows what cannot be called: routeNamespaced refuses the first
\* and finds the separator of the second one place early.
Callable ==
  \A c \in Configuration : AcceptedOptions(c) /\ c.mesh =>
    /\ \A served \in c.catalogs : served.pages \in Seq(Seq(Character) \ {<<>>})
    /\ c.surface # "resources" => \A i \in DOMAIN c.entries : Apart(c.keys[c.entries[i]])

Name == IF config.mesh THEN Seq(Character) \ {<<>>} ELSE Seq(Character)

Options == config \in Configuration /\ AcceptedOptions(config)

Route(key, name) == [key |-> key, name |-> name]

\* A route is not `undefined`, and has the key and the name it was made of.
LEMMA RouteIs ==
  ASSUME NEW key \in Seq(Character), NEW name \in Seq(Character)
  PROVE  Route(key, name) # None /\ Route(key, name).key = key /\ Route(key, name).name = name
<1>1. Route(key, name) \in [key : Seq(Character), name : Seq(Character)]
  BY DEF Route
<1>2. None \notin [key : Seq(Character), name : Seq(Character)]
  BY KnownNames, Zenon
<1> QED BY <1>1, <1>2 DEF Route

\* The entries of a configuration, and their keys.
LEMMA EntryIs ==
  ASSUME Options, NEW i \in DOMAIN config.entries
  PROVE  /\ config.entries[i] \in Backend /\ config.entries[i] \in Entries
         /\ config.keys[config.entries[i]] \in Seq(Character)
         /\ Len(config.entries) \in Nat /\ DOMAIN config.entries = 1 .. Len(config.entries)
<1>1. config.entries \in Seq(Backend)
  BY KnownBackends DEF Options
<1>2. config.keys \in [Backend -> Seq(Character)]
  BY KnownNames, Zenon DEF Options
<1> QED BY <1>1, <1>2 DEF Entries, ToSet

\* Different backends have different keys.
LEMMA EntriesApart ==
  ASSUME Options, NEW b \in Entries, NEW c \in Entries, b # c
  PROVE  config.keys[b] # config.keys[c]
<1>1. PICK i \in DOMAIN config.entries, j \in DOMAIN config.entries :
        b = config.entries[i] /\ c = config.entries[j]
  BY Zenon DEF Entries, ToSet
<1>2. i # j
  BY <1>1
<1>3. config.keys[config.entries[i]] # config.keys[config.entries[j]]
  BY <1>2, KnownNames, Zenon DEF Options
<1> QED BY <1>1, <1>3

\* The characters a separator is made of.
LEMMA CharactersIn == "_" \in Character /\ "/" \in Character /\ Scheme \in Character
BY KnownNames, Zenon

\* An exposed name is a sequence of characters.
LEMMA NameType ==
  ASSUME NEW C, "_" \in C, NEW key \in Seq(C), NEW name \in Seq(C)
  PROVE  NamespaceName(key, name) \in Seq(C)
BY JoinedByPair, Zenon DEF NamespaceName, Separator, Halves

\* So is an exposed URI.
LEMMA UriType ==
  ASSUME NEW C, "/" \in C, Scheme \in C, NEW key \in Seq(C), NEW uri \in Seq(C)
  PROVE  NamespaceUri(key, uri) \in Seq(C)
<1>1. PICK u \in C : u = "/"
  OBVIOUS
<1>2. <<Scheme>> \in Seq(C) /\ <<u>> \in Seq(C)
  OBVIOUS
<1>3. <<Scheme>> \o key \in Seq(C)
  BY <1>2, Longer, Zenon
<1>4. <<Scheme>> \o key \o <<u>> \in Seq(C)
  BY <1>2, <1>3, Longer, Zenon
<1>5. <<Scheme>> \o key \o <<u>> \o uri \in Seq(C)
  BY <1>4, Longer, Zenon
<1> QED BY <1>1, <1>5, Zenon DEF NamespaceUri

\* What a backend serves is called under its exposed name.
LEMMA LeadsBack ==
  ASSUME Options, Callable, NEW b \in Entries, NEW name \in Name
  PROVE  /\ Expose(b, name) \in Seq(Character) /\ name \in Seq(Character)
         /\ config.keys[b] \in Seq(Character)
         /\ b \in ServingSet => LeadsTo(Expose(b, name)) = Route(config.keys[b], name)
<1> DEFINE key == config.keys[b]
<1>1. PICK i \in DOMAIN config.entries : b = config.entries[i]
  BY Zenon DEF Entries, ToSet
<1>2. b \in Backend /\ key \in Seq(Character) /\ name \in Seq(Character)
  BY <1>1, EntryIs DEF Name
<1>3. CASE ~config.mesh
  <2>1. Expose(b, name) = name
    BY <1>3 DEF Expose
  <2>2. Len(config.entries) = 1
    BY <1>3, KnownNames, Zenon DEF Options
  <2>3. i = 1
    BY <1>1, <2>2, EntryIs
  <2>4. LeadsTo(Expose(b, name)) = Route(key, name)
    BY <1>1, <1>3, <2>1, <2>3, Zenon DEF LeadsTo, Route
  <2> QED BY <1>2, <2>1, <2>4
<1>4. CASE config.mesh
  <2>1. name # <<>>
    BY <1>4 DEF Name
  <2>2. AcceptedKey(key)
    BY <1>1, <1>4, Zenon DEF Options, AcceptedOptions
  <2>3. b \in ServingSet => key \in Keys
    BY DEF Keys
  <2>4. CASE config.surface = "resources"
    <3>1. Expose(b, name) = NamespaceUri(key, name)
      BY <1>4, <2>4, Zenon DEF Expose
    <3>2. NamespaceUri(key, name) \in Seq(Character)
      BY <1>2, CharactersIn, UriType, Zenon
    <3>3. b \in ServingSet =>
            RouteResourceUri(NamespaceUri(key, name), Keys) = [key |-> key, name |-> name]
      BY <1>2, <2>1, <2>2, <2>3, CharactersIn, UriInverse, Zenon
    <3>4. b \in ServingSet => LeadsTo(Expose(b, name)) = Route(key, name)
      BY <1>4, <2>4, <3>1, <3>3, Zenon DEF LeadsTo, Route
    <3> QED BY <1>2, <3>1, <3>2, <3>4, Zenon
  <2>5. CASE config.surface # "resources"
    <3>1. Expose(b, name) = NamespaceName(key, name)
      BY <1>4, <2>5, Zenon DEF Expose
    <3>2. NamespaceName(key, name) \in Seq(Character)
      BY <1>2, CharactersIn, NameType, Zenon
    <3>3. Apart(key)
      BY <1>1, <1>4, <2>5, Zenon DEF Callable, Options
    <3>4. b \in ServingSet =>
            RouteNamespaced(NamespaceName(key, name), Keys) = [key |-> key, name |-> name]
      BY <1>2, <2>1, <2>2, <2>3, <3>3, CharactersIn, RouteInverse, Zenon
    <3>5. b \in ServingSet => LeadsTo(Expose(b, name)) = Route(key, name)
      BY <1>4, <2>5, <3>1, <3>4, Zenon DEF LeadsTo, Route
    <3> QED BY <1>2, <3>1, <3>2, <3>5, Zenon
  <2> QED BY <2>4, <2>5
<1> QED BY <1>3, <1>4

\* It is that backend's and no other's.
LEMMA IsOfOne ==
  ASSUME Options, Callable, NEW b \in ServingSet, NEW c \in ServingSet, NEW name \in Name
  PROVE  IsOf(c, Expose(b, name)) <=> c = b /\ Expose(b, name) \notin Locals
<1>1. b \in Entries /\ c \in Entries
  BY DEF ServingSet
<1>2. /\ LeadsTo(Expose(b, name)) = Route(config.keys[b], name)
      /\ config.keys[b] \in Seq(Character) /\ name \in Seq(Character)
  BY <1>1, LeadsBack
<1>3. LeadsTo(Expose(b, name)) # None /\ LeadsTo(Expose(b, name)).key = config.keys[b]
  BY <1>2, RouteIs
<1>4. config.keys[b] = config.keys[c] <=> c = b
  BY <1>1, EntriesApart
<1> QED BY <1>3, <1>4, Zenon DEF IsOf

(***************************************************************************)
(* What of a listing is a backend's.                                       *)
(***************************************************************************)
NameParts(b, entries) ==
  [i \in DOMAIN entries |-> IF IsOf(b, entries[i]) THEN <<LeadsTo(entries[i]).name>> ELSE <<>>]

\* The names, one part per entry.
LEMMA NamePartsType ==
  ASSUME NEW T, NEW entries \in Seq(T), NEW b, NEW N,
         \A x \in T : IsOf(b, x) => LeadsTo(x).name \in N
  PROVE  NameParts(b, entries) \in Seq(Seq(N))
<1> DEFINE part(x) == IF IsOf(b, x) THEN <<LeadsTo(x).name>> ELSE <<>>
<1>1. ASSUME NEW x \in T PROVE part(x) \in Seq(N)
  <2>1. CASE IsOf(b, x)
    <3>1. PICK n \in N : n = LeadsTo(x).name
      BY <2>1
    <3>2. <<n>> \in Seq(N)
      OBVIOUS
    <3> QED BY <2>1, <3>1, <3>2
  <2>2. CASE ~IsOf(b, x)
    BY <2>2
  <2> QED BY <2>1, <2>2
<1>2. Len(entries) \in Nat /\ DOMAIN entries = 1 .. Len(entries)
  OBVIOUS
<1>3. \A i \in 1 .. Len(entries) : entries[i] \in T
  OBVIOUS
<1>4. NameParts(b, entries) = [i \in 1 .. Len(entries) |-> part(entries[i])]
  BY <1>2, Zenon DEF NameParts
<1> HIDE DEF part
<1>5. NameParts(b, entries) \in [1 .. Len(entries) -> Seq(N)]
  BY <1>1, <1>3, <1>4
<1> QED BY <1>2, <1>5

\* The names of a backend are those its entries lead to.
LEMMA NamesType ==
  ASSUME NEW T, NEW entries \in Seq(T), NEW b, NEW N,
         \A x \in T : IsOf(b, x) => LeadsTo(x).name \in N
  PROVE  NamesOf(b, entries) \in Seq(N)
<1>1. NameParts(b, entries) \in Seq(Seq(N))
  BY NamePartsType, Zenon
<1>2. FlattenSeq(NameParts(b, entries)) \in Seq(N)
  BY <1>1, FlatType
<1> QED BY <1>2, Zenon DEF NamesOf, NameParts

\* Entries of others have none.
LEMMA NamesNone ==
  ASSUME NEW T, NEW entries \in Seq(T), NEW b, \A x \in T : ~IsOf(b, x)
  PROVE  NamesOf(b, entries) = <<>>
<1>1. NamesOf(b, entries) \in Seq({})
  BY NamesType, Zenon
<1>2. \A s \in Seq({}) : s = <<>>
  OBVIOUS
<1> QED BY <1>1, <1>2

\* No entries have none.
LEMMA NamesEmpty ==
  ASSUME NEW b
  PROVE  NamesOf(b, <<>>) = <<>>
<1>1. NameParts(b, <<>>) = <<>>
  BY DEF NameParts
<1> QED BY <1>1, FlatEmpty, Zenon DEF NamesOf, NameParts

\* Names are found entry by entry.
LEMMA NamesConcat ==
  ASSUME NEW T, NEW s \in Seq(T), NEW t \in Seq(T), NEW b
  PROVE  NamesOf(b, s \o t) = NamesOf(b, s) \o NamesOf(b, t)
<1> DEFINE N == {LeadsTo(x).name : x \in T}
           both == NameParts(b, s) \o NameParts(b, t)
<1>1. \A x \in T : IsOf(b, x) => LeadsTo(x).name \in N
  BY Zenon
<1>2. s \o t \in Seq(T) /\ Len(s \o t) = Len(s) + Len(t)
  BY Longer
<1> HIDE DEF N
<1>3. /\ NameParts(b, s \o t) \in Seq(Seq(N)) /\ NameParts(b, s) \in Seq(Seq(N))
      /\ NameParts(b, t) \in Seq(Seq(N))
  BY <1>1, <1>2, NamePartsType, Zenon
<1>4. /\ Len(NameParts(b, s \o t)) = Len(s) + Len(t) /\ Len(NameParts(b, s)) = Len(s)
      /\ Len(NameParts(b, t)) = Len(t)
  BY <1>2, <1>3 DEF NameParts
<1>5. both \in Seq(Seq(N)) /\ Len(both) = Len(s) + Len(t)
  <2>1. both \in Seq(Seq(N)) /\ Len(both) = Len(NameParts(b, s)) + Len(NameParts(b, t))
    BY <1>3, Longer, Zenon
  <2> QED BY <1>4, <2>1, Zenon
<1>6. \A i \in 1 .. (Len(s) + Len(t)) : NameParts(b, s \o t)[i] = both[i]
  <2>1. ASSUME NEW i \in 1 .. Len(s) PROVE NameParts(b, s \o t)[i] = NameParts(b, s)[i]
    BY DEF NameParts
  <2>2. ASSUME NEW i \in 1 .. Len(t)
        PROVE  NameParts(b, s \o t)[Len(s) + i] = NameParts(b, t)[i]
    BY DEF NameParts
  <2>3. /\ \A i \in 1 .. Len(s) : both[i] = NameParts(b, s)[i]
        /\ \A i \in 1 .. Len(t) : both[Len(s) + i] = NameParts(b, t)[i]
    <3>1. PICK p \in Seq(Seq(N)) : p = NameParts(b, s)
      BY <1>3
    <3>2. PICK q \in Seq(Seq(N)) : q = NameParts(b, t)
      BY <1>3
    <3>3. /\ \A i \in 1 .. Len(p) : (p \o q)[i] = p[i]
          /\ \A i \in 1 .. Len(q) : (p \o q)[Len(p) + i] = q[i]
      OBVIOUS
    <3> QED BY <1>4, <3>1, <3>2, <3>3, Zenon
  <2>5. ASSUME NEW i \in 1 .. (Len(s) + Len(t)), i \notin 1 .. Len(s)
        PROVE  \E j \in 1 .. Len(t) : i = Len(s) + j
    <3>1. i - Len(s) \in 1 .. Len(t) /\ i = Len(s) + (i - Len(s))
      BY <2>5
    <3> QED BY <3>1
  <2> HIDE DEF both
  <2> QED BY <2>1, <2>2, <2>3, <2>5, Zenon
<1> HIDE DEF both
<1>7. NameParts(b, s \o t) = both
  BY <1>3, <1>4, <1>5, <1>6, SameSequence
<1>8. FlattenSeq(both) = FlattenSeq(NameParts(b, s)) \o FlattenSeq(NameParts(b, t))
  BY <1>3, FlatConcat DEF both
<1> QED BY <1>7, <1>8, Zenon DEF NamesOf, NameParts

\* The name of one entry.
LEMMA NamesOfOne ==
  ASSUME NEW b, NEW x
  PROVE  NamesOf(b, <<x>>) = IF IsOf(b, x) THEN <<LeadsTo(x).name>> ELSE <<>>
<1> DEFINE part == IF IsOf(b, x) THEN <<LeadsTo(x).name>> ELSE <<>>
<1>1. NameParts(b, <<x>>) = <<part>>
  BY DEF NameParts
<1>2. part \in Seq({LeadsTo(x).name})
  <2>1. PICK n : n = LeadsTo(x).name
    OBVIOUS
  <2>2. <<>> \in Seq({n}) /\ <<n>> \in Seq({n})
    OBVIOUS
  <2> QED BY <2>1, <2>2, Zenon
<1> HIDE DEF part
<1>3. FlattenSeq(<<part>>) = part
  BY <1>2, FlatOne
<1> QED BY <1>1, <1>3, Zenon DEF NamesOf, NameParts, part

\* What remains of u behind the local tools and the filter.
Behind(u) == Without(Without(u, Locals), config.hidden)
Seen(b, u) == NamesOf(b, Behind(u))

\* Overlay and filter add nothing.
LEMMA BehindType ==
  ASSUME NEW T, NEW u \in Seq(T)
  PROVE  Behind(u) \in Seq(T)
<1>1. Without(u, Locals) \in Seq(T)
  BY WithoutKeeps
<1> QED BY <1>1, WithoutKeeps DEF Behind

\* Of entries of others nothing is seen.
LEMMA SeenNone ==
  ASSUME NEW T, NEW u \in Seq(T), NEW b, \A x \in T : ~IsOf(b, x)
  PROVE  Seen(b, u) = <<>>
BY BehindType, NamesNone DEF Seen

\* Overlay and filter go entry by entry.
LEMMA BehindConcat ==
  ASSUME NEW T, NEW u \in Seq(T), NEW v \in Seq(T)
  PROVE  Behind(u \o v) = Behind(u) \o Behind(v)
<1>1. Without(u, Locals) \in Seq(T) /\ Without(v, Locals) \in Seq(T)
  BY WithoutKeeps
<1>2. Without(u \o v, Locals) = Without(u, Locals) \o Without(v, Locals)
  BY WithoutConcat
<1>3. Without(Without(u, Locals) \o Without(v, Locals), config.hidden) = Behind(u) \o Behind(v)
  <2>1. PICK p \in Seq(T) : p = Without(u, Locals)
    BY <1>1
  <2>2. PICK q \in Seq(T) : q = Without(v, Locals)
    BY <1>1
  <2>3. Without(p \o q, config.hidden) = Without(p, config.hidden) \o Without(q, config.hidden)
    BY WithoutConcat
  <2> QED BY <2>1, <2>2, <2>3, Zenon DEF Behind
<1> QED BY <1>2, <1>3, Zenon DEF Behind

\* And so does what is seen.
LEMMA SeenConcat ==
  ASSUME NEW T, NEW u \in Seq(T), NEW v \in Seq(T), NEW b
  PROVE  Seen(b, u \o v) = Seen(b, u) \o Seen(b, v)
<1>1. Behind(u) \in Seq(T) /\ Behind(v) \in Seq(T)
  BY BehindType
<1>2. NamesOf(b, Behind(u) \o Behind(v)) = NamesOf(b, Behind(u)) \o NamesOf(b, Behind(v))
  BY <1>1, NamesConcat
<1>3. Behind(u \o v) = Behind(u) \o Behind(v)
  BY BehindConcat
<1> QED BY <1>2, <1>3, Zenon DEF Seen

\* What is seen is a sequence.
LEMMA SeenType ==
  ASSUME NEW C, NEW u \in Seq(C), NEW b
  PROVE  \E T : Seen(b, u) \in Seq(T)
<1> DEFINE T == {LeadsTo(x).name : x \in C}
<1>1. \A x \in C : IsOf(b, x) => LeadsTo(x).name \in T
  BY Zenon
<1> HIDE DEF T
<1>2. Seen(b, u) \in Seq(T)
  BY <1>1, BehindType, NamesType, Zenon DEF Seen
<1> QED BY <1>2

\* One element, filtered.
LEMMA WithoutOne ==
  ASSUME NEW x, NEW S
  PROVE  Without(<<x>>, S) = IF x \in S THEN <<>> ELSE <<x>>
<1>1. x \in {x} /\ <<>> \in Seq({x}) /\ Append(<<>>, x) = <<x>>
  OBVIOUS
<1>2. Without(Append(<<>>, x), S) =
        IF x \in S THEN Without(<<>>, S) ELSE Append(Without(<<>>, S), x)
  BY <1>1, WithoutAppend, Zenon
<1>3. Without(<<>>, S) = <<>>
  BY WithoutEmpty
<1> QED BY <1>1, <1>2, <1>3, Zenon

\* One entry, behind the local tools and the filter.
LEMMA BehindOne ==
  ASSUME NEW x
  PROVE  Behind(<<x>>) = IF x \in Locals \cup config.hidden THEN <<>> ELSE <<x>>
<1>1. CASE x \in Locals
  BY <1>1, WithoutOne, WithoutEmpty, Zenon DEF Behind
<1>2. CASE x \notin Locals
  BY <1>2, WithoutOne, Zenon DEF Behind
<1> QED BY <1>1, <1>2

\* The names under which what backend b serves would be covered.
CoveredNames(b) == {name \in Name : Expose(b, name) \in Locals \cup config.hidden}

\* One name a backend serves.
LEMMA SeenOne ==
  ASSUME Options, Callable, NEW b \in ServingSet, NEW name \in Name
  PROVE  Seen(b, <<Expose(b, name)>>) = Without(<<name>>, CoveredNames(b))
<1> DEFINE x == Expose(b, name)
<1>1. Without(<<name>>, CoveredNames(b)) =
        IF x \in Locals \cup config.hidden THEN <<>> ELSE <<name>>
  <2>1. name \in CoveredNames(b) <=> x \in Locals \cup config.hidden
    BY DEF CoveredNames
  <2>2. Without(<<name>>, CoveredNames(b)) =
          IF name \in CoveredNames(b) THEN <<>> ELSE <<name>>
    BY WithoutOne, Zenon
  <2> QED BY <2>1, <2>2, Zenon
<1>2. CASE x \in Locals \cup config.hidden
  <2>1. Behind(<<x>>) = <<>>
    BY <1>2, BehindOne, Zenon
  <2>2. NamesOf(b, <<>>) = <<>>
    BY NamesEmpty
  <2> QED BY <1>1, <1>2, <2>1, <2>2, Zenon DEF Seen
<1>3. CASE x \notin Locals \cup config.hidden
  <2>1. Behind(<<x>>) = <<x>>
    BY <1>3, BehindOne, Zenon
  <2>2. IsOf(b, x)
    BY <1>3, IsOfOne
  <2>3. LeadsTo(x).name = name
    <3>1. b \in Entries
      BY DEF ServingSet
    <3>2. /\ LeadsTo(x) = Route(config.keys[b], name)
          /\ config.keys[b] \in Seq(Character) /\ name \in Seq(Character)
      BY <3>1, LeadsBack
    <3> QED BY <3>2, RouteIs
  <2>4. NamesOf(b, <<x>>) = <<name>>
    BY <2>2, <2>3, NamesOfOne, Zenon
  <2> QED BY <1>1, <1>3, <2>1, <2>4, Zenon DEF Seen
<1> QED BY <1>2, <1>3

\* What a backend serves, under its exposed names.
LEMMA ExposedType ==
  ASSUME NEW b, NEW items \in Seq(Name), NEW T, \A n \in Name : Expose(b, n) \in T
  PROVE  Exposed(b, items) \in Seq(T)
<1>1. /\ Len(items) \in Nat /\ DOMAIN items = 1 .. Len(items)
      /\ \A i \in 1 .. Len(items) : items[i] \in Name
  OBVIOUS
<1>2. Exposed(b, items) \in [1 .. Len(items) -> T]
  BY <1>1, Zenon DEF Exposed
<1> QED BY <1>1, <1>2

\* All the names a backend serves.
LEMMA ExposedMore ==
  ASSUME NEW b, NEW items \in Seq(Name), NEW name \in Name
  PROVE  Exposed(b, Append(items, name)) = Append(Exposed(b, items), Expose(b, name))
<1> DEFINE x(n) == Expose(b, n)
           T == {x(n) : n \in Name}
<1>1. PICK more : more = Append(items, name)
  OBVIOUS
<1>2. /\ Len(items) \in Nat /\ DOMAIN items = 1 .. Len(items)
      /\ DOMAIN more = 1 .. (Len(items) + 1) /\ Len(items) + 1 \in Nat
      /\ more[Len(items) + 1] = name
      /\ \A i \in 1 .. Len(items) : more[i] = items[i] /\ items[i] \in Name
      /\ \A i \in 1 .. (Len(items) + 1) : i \in 1 .. Len(items) \/ i = Len(items) + 1
  BY <1>1
<1>3. /\ Exposed(b, items) = [i \in 1 .. Len(items) |-> x(items[i])]
      /\ Exposed(b, more) = [i \in 1 .. (Len(items) + 1) |-> x(more[i])]
  BY <1>2, Zenon DEF Exposed
<1>4. \A n \in Name : x(n) \in T
  OBVIOUS
<1> HIDE DEF x, T
<1>5. PICK e \in Seq(T) : /\ e = Exposed(b, items) /\ Len(e) = Len(items)
                          /\ \A i \in 1 .. Len(items) : e[i] = x(items[i])
  BY <1>2, <1>3, <1>4
<1>6. PICK y \in T : y = x(name)
  BY <1>4
<1>7. PICK f \in Seq(T) : f = Exposed(b, more)
  <2>1. more \in Seq(Name)
    BY <1>1, AppendTo, Zenon
  <2>2. Exposed(b, more) \in Seq(T)
    BY <1>4, <2>1, ExposedType DEF x
  <2> QED BY <2>2
<1>8. Len(f) = Len(items) + 1 /\ \A i \in 1 .. Len(f) : f[i] = x(more[i])
  BY <1>2, <1>3, <1>7
<1>9. /\ Append(e, y) \in Seq(T) /\ Len(Append(e, y)) = Len(items) + 1
      /\ Append(e, y)[Len(items) + 1] = y
      /\ \A i \in 1 .. Len(items) : Append(e, y)[i] = e[i]
  BY <1>5
<1>10. \A i \in 1 .. Len(f) : f[i] = Append(e, y)[i]
  BY <1>2, <1>5, <1>6, <1>8, <1>9, Zenon
<1>11. f = Append(e, y)
  BY <1>8, <1>9, <1>10, SameSequence
<1> QED BY <1>1, <1>5, <1>6, <1>7, <1>11, Zenon DEF x

\* A backend's own block is seen as what it serves, but for what is covered.
LEMMA SeenOwn ==
  ASSUME Options, Callable, NEW b \in ServingSet, NEW served \in Seq(Name)
  PROVE  Seen(b, Exposed(b, served)) = Without(served, CoveredNames(b))
<1> DEFINE P == {items \in Seq(Name) :
                   Seen(b, Exposed(b, items)) = Without(items, CoveredNames(b))}
<1>1. <<>> \in P
  <2>1. Exposed(b, <<>>) = <<>>
    BY DEF Exposed
  <2>2. Seen(b, <<>>) = <<>>
    BY WithoutEmpty, NamesEmpty, Zenon DEF Seen, Behind
  <2>3. <<>> \in Seq(Name)
    OBVIOUS
  <2> QED BY <2>1, <2>2, <2>3, WithoutEmpty, Zenon
<1>2. ASSUME NEW items \in Seq(Name), NEW name \in Name, items \in P
      PROVE  Append(items, name) \in P
  <2>1. b \in Entries
    BY DEF ServingSet
  <2>2. \A n \in Name : Expose(b, n) \in Seq(Character)
    BY <2>1, LeadsBack
  <2>3. PICK e \in Seq(Seq(Character)) : e = Exposed(b, items)
    BY <2>2, ExposedType
  <2>4. PICK x \in Seq(Character) : x = Expose(b, name)
    BY <2>2
  <2>5. Exposed(b, Append(items, name)) = Append(e, x)
    BY <2>3, <2>4, ExposedMore, Zenon
  <2>6. Append(e, x) = e \o <<x>> /\ <<x>> \in Seq(Seq(Character))
    BY AppendTo
  <2>7. Seen(b, e \o <<x>>) = Seen(b, e) \o Seen(b, <<x>>)
    BY <2>6, SeenConcat, Zenon
  <2>8. Append(items, name) = items \o <<name>> /\ <<name>> \in Seq(Name)
        /\ Append(items, name) \in Seq(Name)
    BY AppendTo
  <2>9. Without(items \o <<name>>, CoveredNames(b)) =
          Without(items, CoveredNames(b)) \o Without(<<name>>, CoveredNames(b))
    <3>1. PICK t \in Seq(Name) : t = <<name>>
      BY <2>8
    <3>2. Without(items \o t, CoveredNames(b)) =
            Without(items, CoveredNames(b)) \o Without(t, CoveredNames(b))
      BY WithoutConcat
    <3> QED BY <3>1, <3>2, Zenon
  <2>10. Seen(b, <<x>>) = Without(<<name>>, CoveredNames(b))
    BY <2>4, SeenOne, Zenon
  <2>11. Seen(b, e) = Without(items, CoveredNames(b))
    BY <1>2, <2>3, Zenon
  <2>12. Seen(b, Exposed(b, Append(items, name))) = Without(Append(items, name), CoveredNames(b))
    BY <2>5, <2>6, <2>7, <2>8, <2>9, <2>10, <2>11, Zenon
  <2> QED BY <2>8, <2>12
<1> HIDE DEF P
<1>3. Seq(Name) \subseteq P
  BY <1>1, <1>2, SeqSetInduction
<1> QED BY <1>3 DEF P

\* A sequence, cut at one of its elements.
LEMMA PutTogether ==
  ASSUME NEW T, NEW s \in Seq(T), NEW a \in Seq(T), NEW b \in Seq(T), NEW c \in Seq(T),
         Len(b) = 1, Len(s) = Len(a) + 1 + Len(c),
         \A k \in 1 .. Len(a) : a[k] = s[k],
         b[1] = s[Len(a) + 1],
         \A k \in 1 .. Len(c) : c[k] = s[Len(a) + 1 + k]
  PROVE  s = a \o b \o c
<1>1. PICK u : u = a \o b \o c
  OBVIOUS
<1>2. /\ u \in Seq(T) /\ Len(u) = Len(a) + Len(b) + Len(c)
      /\ \A k \in 1 .. Len(a) : u[k] = a[k]
      /\ \A k \in 1 .. Len(b) : u[Len(a) + k] = b[k]
      /\ \A k \in 1 .. Len(c) : u[Len(a) + Len(b) + k] = c[k]
  <2>1. a \in Seq(T) /\ b \in Seq(T) /\ c \in Seq(T)
    OBVIOUS
  <2> QED BY ONLY <1>1, <2>1, Joined
<1>3. ASSUME NEW k \in 1 .. Len(s) PROVE s[k] = u[k]
  <2>1. CASE k <= Len(a)
    BY <1>2, <2>1
  <2>2. CASE k = Len(a) + 1
    BY <1>2, <2>2
  <2>3. CASE k > Len(a) + 1
    <3>1. /\ k - (Len(a) + 1) \in 1 .. Len(c)
          /\ Len(a) + Len(b) + (k - (Len(a) + 1)) = k /\ Len(a) + 1 + (k - (Len(a) + 1)) = k
      BY <2>3
    <3>2. PICK m \in 1 .. Len(c) : m = k - (Len(a) + 1)
      BY <3>1
    <3>3. u[Len(a) + Len(b) + m] = c[m] /\ c[m] = s[Len(a) + 1 + m]
      BY <1>2
    <3> QED BY <3>1, <3>2, <3>3
  <2> QED BY <2>1, <2>2, <2>3
<1>4. s = u
  BY <1>2, <1>3, SameSequence
<1> QED BY <1>1, <1>4

\* What is before it and what is after it.
LEMMA Cut ==
  ASSUME NEW T, NEW s \in Seq(T), NEW i \in 1 .. Len(s)
  PROVE  /\ SubSeq(s, 1, i - 1) \in Seq(T) /\ SubSeq(s, i + 1, Len(s)) \in Seq(T)
         /\ s = SubSeq(s, 1, i - 1) \o <<s[i]>> \o SubSeq(s, i + 1, Len(s))
<1> DEFINE a == SubSeq(s, 1, i - 1)
           c == SubSeq(s, i + 1, Len(s))
<1>1. a \in Seq(T) /\ Len(a) = i - 1 /\ \A k \in 1 .. (i - 1) : a[k] = s[k]
  OBVIOUS
<1>2. c \in Seq(T) /\ Len(c) = Len(s) - i /\ \A k \in 1 .. (Len(s) - i) : c[k] = s[i + k]
  OBVIOUS
<1> HIDE DEF a, c
<1>3. PICK x \in T : x = s[i]
  OBVIOUS
<1>4. <<x>> \in Seq(T) /\ Len(<<x>>) = 1 /\ <<x>>[1] = x
  OBVIOUS
<1>5. PICK b \in Seq(T) : b = <<x>> /\ Len(b) = 1 /\ b[1] = x
  BY <1>4, Zenon
<1>6. /\ Len(s) = Len(a) + 1 + Len(c) /\ b[1] = s[Len(a) + 1]
      /\ \A k \in 1 .. Len(a) : a[k] = s[k]
      /\ \A k \in 1 .. Len(c) : c[k] = s[Len(a) + 1 + k]
  <2>1. Len(a) + 1 = i
    BY <1>1
  <2> QED BY <1>1, <1>2, <1>3, <1>5, <2>1
<1>7. s = a \o b \o c
  <2>1. s \in Seq(T) /\ a \in Seq(T) /\ b \in Seq(T) /\ c \in Seq(T) /\ Len(b) = 1
    BY <1>1, <1>2, <1>5
  <2> QED BY ONLY <1>6, <2>1, PutTogether
<1> QED BY <1>1, <1>2, <1>3, <1>5, <1>7, Zenon DEF a, c

\* What comes of the blocks of the others is not the backend's.
Block(s, i) ==
  LET b == config.entries[i]
  IN IF b \in ServingSet THEN Exposed(b, Contributes(progress[s][b])) ELSE <<>>

Others(b) == {x \in Seq(Character) : ~IsOf(b, x)}

Drained(s) == \A b \in ServingSet : Contributes(progress[s][b]) \in Seq(Name)

\* Where the names of a block are.
LEMMA BlockIn ==
  ASSUME NEW s, Drained(s), NEW T, NEW i \in DOMAIN config.entries,
         \A c \in ServingSet, name \in Name : c = config.entries[i] => Expose(c, name) \in T
  PROVE  Block(s, i) \in Seq(T)
<1> DEFINE b == config.entries[i]
<1>1. CASE b \in ServingSet
  <2>1. \A name \in Name : Expose(b, name) \in T
    BY <1>1
  <2>2. Contributes(progress[s][b]) \in Seq(Name)
    BY <1>1 DEF Drained
  <2>3. Exposed(b, Contributes(progress[s][b])) \in Seq(T)
    BY <2>1, <2>2, ExposedType, Zenon
  <2> QED BY <1>1, <2>3 DEF Block
<1>2. CASE b \notin ServingSet
  BY <1>2 DEF Block
<1> QED BY <1>1, <1>2

\* The block of another backend has none of this one's.
LEMMA OtherBlock ==
  ASSUME Options, Callable, NEW s, Drained(s), NEW i \in DOMAIN config.entries,
         NEW b \in ServingSet, config.entries[i] # b
  PROVE  Block(s, i) \in Seq(Others(b))
<1>1. ASSUME NEW c \in ServingSet, NEW name \in Name, c = config.entries[i]
      PROVE  Expose(c, name) \in Others(b)
  <2>1. c \in Entries
    BY DEF ServingSet
  <2>2. Expose(c, name) \in Seq(Character)
    BY <2>1, LeadsBack
  <2>3. ~IsOf(b, Expose(c, name))
    BY <1>1, IsOfOne
  <2> QED BY <2>2, <2>3 DEF Others
<1> QED BY <1>1, BlockIn, Zenon

Leading == {x \in Seq(Character) : LeadsTo(x) # None}

\* Every name that comes of a backend leads back.
LEMMA ExposedLeads ==
  ASSUME Options, Callable, NEW b \in ServingSet, NEW name \in Name
  PROVE  Expose(b, name) \in Leading
<1>1. b \in Entries
  BY DEF ServingSet
<1>2. /\ LeadsTo(Expose(b, name)) = Route(config.keys[b], name)
      /\ config.keys[b] \in Seq(Character) /\ name \in Seq(Character)
      /\ Expose(b, name) \in Seq(Character)
  BY <1>1, LeadsBack
<1>3. LeadsTo(Expose(b, name)) # None
  BY <1>2, RouteIs
<1> QED BY <1>2, <1>3 DEF Leading

\* What comes from upstream are the blocks, flattened.
LEMMA OpenBlocks ==
  ASSUME Options, NEW s, NEW T, \A i \in DOMAIN config.entries : Block(s, i) \in Seq(T)
  PROVE  /\ [i \in DOMAIN config.entries |-> Block(s, i)] \in Seq(Seq(T))
         /\ Upstream(s) = FlattenSeq([i \in DOMAIN config.entries |-> Block(s, i)])
         /\ Len([i \in DOMAIN config.entries |-> Block(s, i)]) = Len(config.entries)
         /\ Len(config.entries) \in Nat /\ DOMAIN config.entries = 1 .. Len(config.entries)
<1>1. config.entries \in Seq(Backend)
  BY KnownBackends DEF Options
<1>2. Len(config.entries) \in Nat /\ DOMAIN config.entries = 1 .. Len(config.entries)
  BY <1>1
<1>3. /\ [i \in DOMAIN config.entries |-> Block(s, i)] \in Seq(Seq(T))
      /\ Len([i \in DOMAIN config.entries |-> Block(s, i)]) = Len(config.entries)
  BY <1>2
<1>4. Upstream(s) = FlattenSeq([i \in DOMAIN config.entries |-> Block(s, i)])
  BY Zenon DEF Upstream, Block
<1> QED BY <1>2, <1>3, <1>4, Zenon

\* What all backends together contribute can be called.
LEMMA UpstreamLeads ==
  ASSUME Options, Callable, NEW s, Drained(s)
  PROVE  Upstream(s) \in Seq(Leading)
<1>1. \A i \in DOMAIN config.entries : Block(s, i) \in Seq(Leading)
  BY ExposedLeads, BlockIn, Zenon
<1>2. /\ [i \in DOMAIN config.entries |-> Block(s, i)] \in Seq(Seq(Leading))
      /\ Upstream(s) = FlattenSeq([i \in DOMAIN config.entries |-> Block(s, i)])
  BY <1>1, OpenBlocks, Zenon
<1> QED BY <1>2, FlatType, Zenon

\* A sequence of one.
LEMMA Single ==
  ASSUME NEW T, NEW x \in T
  PROVE  <<x>> \in Seq(T)
OBVIOUS

\* All but one element of a sequence.
LEMMA CutTypes ==
  ASSUME NEW T, NEW s \in Seq(T), NEW i \in 1 .. Len(s), NEW R,
         \A k \in 1 .. Len(s) : k # i => s[k] \in R
  PROVE  SubSeq(s, 1, i - 1) \in Seq(R) /\ SubSeq(s, i + 1, Len(s)) \in Seq(R)
<1>1. \A k \in 1 .. (i - 1) : k \in 1 .. Len(s) /\ k # i
  OBVIOUS
<1>2. \A k \in 1 .. (Len(s) - i) : i + k \in 1 .. Len(s) /\ i + k # i
  OBVIOUS
<1>3. SubSeq(s, 1, i - 1) = [k \in 1 .. (i - 1) |-> s[k]] /\ i - 1 \in Nat
  OBVIOUS
<1>4. SubSeq(s, i + 1, Len(s)) = [k \in 1 .. (Len(s) - i) |-> s[i + k]] /\ Len(s) - i \in Nat
  OBVIOUS
<1>5. [k \in 1 .. (i - 1) |-> s[k]] \in Seq(R)
  BY <1>1, <1>3
<1>6. [k \in 1 .. (Len(s) - i) |-> s[i + k]] \in Seq(R)
  BY <1>2, <1>4
<1> QED BY <1>3, <1>4, <1>5, <1>6, Zenon

\* Of the blocks of all backends, only the backend's own is seen as its.
LEMMA SeenUpstream ==
  ASSUME Options, Callable, NEW s, Drained(s), NEW b \in ServingSet
  PROVE  Seen(b, Upstream(s)) = Without(Contributes(progress[s][b]), CoveredNames(b))
<1> DEFINE C == Seq(Character)
           blocks == [k \in DOMAIN config.entries |-> Block(s, k)]
<1>1. \A k \in DOMAIN config.entries : Block(s, k) \in Seq(C)
  <2>1. ASSUME NEW c \in ServingSet, NEW name \in Name PROVE Expose(c, name) \in C
    <3>1. c \in Entries
      BY DEF ServingSet
    <3> QED BY <3>1, LeadsBack
  <2> QED BY <2>1, BlockIn, Zenon
<1> HIDE DEF C
<1>2. /\ blocks \in Seq(Seq(C)) /\ Upstream(s) = FlattenSeq(blocks)
      /\ Len(blocks) = Len(config.entries)
      /\ Len(config.entries) \in Nat /\ DOMAIN config.entries = 1 .. Len(config.entries)
  BY <1>1, OpenBlocks, Zenon
<1>3. PICK i \in DOMAIN config.entries : b = config.entries[i]
  BY Zenon DEF ServingSet, Entries, ToSet
<1>4. i \in 1 .. Len(blocks)
  BY <1>2, <1>3
<1>5. \A k \in 1 .. Len(blocks) : k # i => blocks[k] \in Seq(Others(b))
  <2>1. ASSUME NEW k \in DOMAIN config.entries, k # i
        PROVE  blocks[k] \in Seq(Others(b))
    <3>1. config.entries[k] # b
      BY <1>3, <2>1, KnownNames, Zenon DEF Options
    <3>2. Block(s, k) \in Seq(Others(b))
      BY <3>1, OtherBlock
    <3> QED BY <3>2
  <2> QED BY <1>2, <2>1, Zenon
<1>6. blocks[i] = Exposed(b, Contributes(progress[s][b]))
  BY <1>3, Zenon DEF Block
<1>7. blocks[i] \in Seq(C)
  BY <1>1, <1>3
<1> HIDE DEF blocks
<1> DEFINE pre == SubSeq(blocks, 1, i - 1)
           post == SubSeq(blocks, i + 1, Len(blocks))
<1>8. /\ pre \in Seq(Seq(C)) /\ post \in Seq(Seq(C))
      /\ pre \in Seq(Seq(Others(b))) /\ post \in Seq(Seq(Others(b)))
      /\ blocks = pre \o <<blocks[i]>> \o post
  <2>1. /\ pre \in Seq(Seq(C)) /\ post \in Seq(Seq(C))
        /\ blocks = pre \o <<blocks[i]>> \o post
    BY <1>2, <1>4, Cut, Zenon
  <2>2. pre \in Seq(Seq(Others(b))) /\ post \in Seq(Seq(Others(b)))
    BY <1>2, <1>4, <1>5, CutTypes, Zenon
  <2> QED BY <2>1, <2>2
<1> HIDE DEF pre, post
<1>9. PICK own \in Seq(C) : own = blocks[i]
  BY <1>7
<1>15. \A x \in Others(b) : ~IsOf(b, x)
  BY DEF Others
<1>10. PICK before \in Seq(C) : before = FlattenSeq(pre) /\ Seen(b, before) = <<>>
  <2>1. FlattenSeq(pre) \in Seq(C) /\ FlattenSeq(pre) \in Seq(Others(b))
    BY <1>8, FlatType
  <2>2. Seen(b, FlattenSeq(pre)) = <<>>
    BY <1>15, <2>1, SeenNone, Zenon
  <2> QED BY <2>1, <2>2
<1>11. PICK after \in Seq(C) : after = FlattenSeq(post) /\ Seen(b, after) = <<>>
  <2>1. FlattenSeq(post) \in Seq(C) /\ FlattenSeq(post) \in Seq(Others(b))
    BY <1>8, FlatType
  <2>2. Seen(b, FlattenSeq(post)) = <<>>
    BY <1>15, <2>1, SeenNone, Zenon
  <2> QED BY <2>1, <2>2
<1>12. Upstream(s) = before \o own \o after
  <2>1. PICK mid \in Seq(Seq(C)) : mid = <<own>>
    <3>1. <<own>> \in Seq(Seq(C))
      BY Single
    <3> QED BY <3>1, Zenon
  <2>2. FlattenSeq(mid) = own
    BY <2>1, FlatOne, Zenon
  <2>3. pre \o mid \in Seq(Seq(C))
    BY <1>8, AppendTo, Longer, Zenon
  <2>4. FlattenSeq(pre \o mid) = FlattenSeq(pre) \o FlattenSeq(mid)
    BY <1>8, FlatConcat, Zenon
  <2>5. FlattenSeq((pre \o mid) \o post) = FlattenSeq(pre \o mid) \o FlattenSeq(post)
    BY <1>8, <2>3, FlatConcat, Zenon
  <2> QED BY <1>2, <1>8, <1>9, <1>10, <1>11, <2>1, <2>2, <2>4, <2>5, Zenon
<1>13. Seen(b, before \o own \o after) = Seen(b, own)
  <2>1. before \o own \in Seq(C)
    BY Longer, Zenon
  <2>2. Seen(b, (before \o own) \o after) = Seen(b, before \o own) \o Seen(b, after)
    BY <2>1, SeenConcat, Zenon
  <2>3. Seen(b, before \o own) = Seen(b, before) \o Seen(b, own)
    BY SeenConcat, Zenon
  <2>4. PICK T : Seen(b, own) \in Seq(T)
    BY SeenType
  <2>5. <<>> \o Seen(b, own) = Seen(b, own) /\ Seen(b, own) \o <<>> = Seen(b, own)
    BY <2>4
  <2> QED BY <1>10, <1>11, <2>2, <2>3, <2>5, Zenon
<1>14. Seen(b, own) = Without(Contributes(progress[s][b]), CoveredNames(b))
  <2>1. Contributes(progress[s][b]) \in Seq(Name)
    BY DEF Drained
  <2>2. Seen(b, Exposed(b, Contributes(progress[s][b]))) =
          Without(Contributes(progress[s][b]), CoveredNames(b))
    BY <2>1, SeenOwn
  <2> QED BY <1>6, <1>9, <2>2, Zenon
<1> QED BY <1>12, <1>13, <1>14, Zenon

(***************************************************************************)
(* Drains.                                                                 *)
(***************************************************************************)
\* items are what the first pages hold.
FirstPages(items, page, pages) ==
  /\ Len(items) = IF page <= Len(pages) THEN page ELSE Len(pages)
  /\ \A i \in 1 .. Len(items) : items[i] = pages[i]

SoFar(p, pages) ==
  /\ FirstPages(p.items, p.page, pages)
  /\ p.status = "done" => Len(pages) <= p.page

Drain == [status : {"reading", "done", "failed"}, page : Nat, items : Seq(Name)]

GoodDrain(s, b, p) == p \in Drain /\ (b \notin moved[s] => SoFar(p, catalog[b].pages))

\* What was read of a backend that has not changed is what it serves on the pages read.
Drains ==
  \A s \in Server : progress[s] # None =>
    progress[s] \in [ServingSet -> Drain]
    /\ \A b \in ServingSet : GoodDrain(s, b, progress[s][b])

\* What is shown can be called, and a local tool is shown once.
Shows ==
  \A s \in Server : shown[s] # None =>
    /\ shown[s].entries \in Seq((Leading \cup Locals) \ config.hidden)
    /\ Once(shown[s].entries, Locals)

\* What a step relies on in every state.  ListingComplete is not inductive by itself: a
\* listing is as good as the drains it is put together from, and the names in it lead
\* back because all came from Expose or are local.
LInv ==
  /\ IInv /\ AcceptedOptions(config) /\ DOMAIN shown = Server
  /\ Drains /\ Shows /\ ListingComplete

\* What a backend serves are names.
LEMMA PagesAre ==
  ASSUME Options, Callable, catalog \in [Backend -> config.catalogs], NEW b \in Backend
  PROVE  catalog[b].pages \in Seq(Name)
<1>1. catalog[b] \in config.catalogs
  OBVIOUS
<1>2. catalog[b].pages \in Seq(Seq(Character))
  BY <1>1, KnownNames, Zenon DEF Options
<1>3. CASE config.mesh
  <2>1. catalog[b].pages \in Seq(Seq(Character) \ {<<>>})
    BY <1>1, <1>3, Zenon DEF Callable, Options
  <2> QED BY <1>3, <2>1, Zenon DEF Name
<1>4. CASE ~config.mesh
  BY <1>2, <1>4, Zenon DEF Name
<1> QED BY <1>3, <1>4

\* One page more.
LEMMA FetchMore ==
  ASSUME NEW N, NEW pages \in Seq(N), NEW items \in Seq(N), NEW page \in Nat, NEW more,
         more = items \o (IF page + 1 \in DOMAIN pages THEN <<pages[page + 1]>> ELSE <<>>)
  PROVE  /\ more \in Seq(N)
         /\ FirstPages(items, page, pages) => FirstPages(more, page + 1, pages)
<1>1. CASE page + 1 \in DOMAIN pages
  <2>1. PICK x \in N : x = pages[page + 1]
    BY <1>1
  <2>2. more = Append(items, x)
    BY <1>1, <2>1
  <2>3. /\ more \in Seq(N) /\ Len(more) = Len(items) + 1 /\ more[Len(items) + 1] = x
        /\ \A i \in 1 .. Len(items) : more[i] = items[i]
    BY <2>2
  <2> QED BY <1>1, <2>1, <2>3 DEF FirstPages
<1>2. CASE page + 1 \notin DOMAIN pages
  <2>1. more = items
    BY <1>2
  <2>2. Len(pages) <= page
    BY <1>2
  <2>3. Len(pages) \in Nat /\ ~(page + 1 <= Len(pages))
    BY <2>2
  <2>4. ASSUME FirstPages(items, page, pages) PROVE FirstPages(items, page + 1, pages)
    <3>1. Len(items) = Len(pages)
      BY <2>2, <2>3, <2>4 DEF FirstPages
    <3> QED BY <2>3, <2>4, <3>1 DEF FirstPages
  <2> QED BY <2>1, <2>4
<1> QED BY <1>1, <1>2

\* The backends of the options.
LEMMA EntriesKnown ==
  ASSUME Options
  PROVE  Entries \subseteq Backend
<1>1. config.entries \in Seq(Backend)
  BY KnownBackends DEF Options
<1> QED BY <1>1 DEF Entries, ToSet

\* A drain is not taken for none.
LEMMA DrainIsSome ==
  ASSUME Options, NEW drain \in [ServingSet -> Drain]
  PROVE  drain # None
<1> DEFINE All == [status : {"reading", "done", "failed"}, page : Nat,
                   items : Seq(Seq(Character))]
<1>1. Name \subseteq Seq(Character)
  BY DEF Name
<1>2. Seq(Name) \subseteq Seq(Seq(Character))
  BY <1>1
<1>3. Drain \subseteq All
  BY <1>2 DEF Drain
<1>4. drain \in [ServingSet -> All]
  <2> HIDE DEF All
  <2> QED BY <1>3
<1>5. ServingSet \in SUBSET Backend
  BY EntriesKnown DEF ServingSet
<1>6. None \notin [ServingSet -> All]
  BY <1>5, KnownNames, Zenon
<1> QED BY <1>4, <1>6

\* A step of the drain of one backend leaves those of the others.
LEMMA DrainStep ==
  ASSUME Options, Drains, DOMAIN progress = Server, UNCHANGED <<config, catalog, moved>>,
         NEW s \in Server, NEW b \in ServingSet, progress[s] # None, NEW p, GoodDrain(s, b, p),
         progress' = [progress EXCEPT ![s] = [progress[s] EXCEPT ![b] = p]]
  PROVE  Drains' /\ progress'[s] # None
<1>1. ServingSet' = ServingSet /\ Drain' = Drain
  BY DEF ServingSet, Entries, Drain, Name
<1>2. \A t, c, q : GoodDrain(t, c, q)' <=> GoodDrain(t, c, q)
  BY <1>1 DEF GoodDrain
<1>3. p \in Drain
  BY DEF GoodDrain
<1>4. progress[s] \in [ServingSet -> Drain]
  BY DEF Drains
<1>5. /\ progress'[s] = [progress[s] EXCEPT ![b] = p]
      /\ \A t \in Server \ {s} : progress'[t] = progress[t]
  OBVIOUS
<1>6. progress'[s] \in [ServingSet -> Drain]
  BY <1>3, <1>4, <1>5
<1>7. \A c \in ServingSet : GoodDrain(s, c, progress'[s][c])
  <2>1. ASSUME NEW c \in ServingSet PROVE GoodDrain(s, c, progress'[s][c])
    <3>1. CASE c = b
      BY <1>4, <1>5, <3>1
    <3>2. CASE c # b
      <4>1. progress'[s][c] = progress[s][c]
        BY <1>4, <1>5, <3>2
      <4> QED BY <4>1 DEF Drains
    <3> QED BY <3>1, <3>2
  <2> QED BY <2>1
<1>8. Drains'
  <2>1. ASSUME NEW t \in Server, progress'[t] # None
        PROVE  progress'[t] \in [ServingSet -> Drain]
               /\ \A c \in ServingSet : GoodDrain(t, c, progress'[t][c])
    <3>1. CASE t = s
      BY <1>6, <1>7, <3>1
    <3>2. CASE t # s
      BY <1>5, <2>1, <3>2 DEF Drains
    <3> QED BY <3>1, <3>2
  <2> QED BY <1>1, <1>2, <2>1 DEF Drains
<1>9. progress'[s] # None
  BY <1>6, DrainIsSome
<1> QED BY <1>8, <1>9

\* A page, or a failure, is one more step of a drain.
LEMMA FetchStep ==
  ASSUME Callable, LInv, NEW s \in Server, NEW b \in ServingSet, FetchPage(s, b)
  PROVE  Drains' /\ progress'[s] # None
<1> DEFINE page == progress[s][b].page + 1
           pages == catalog[b].pages
           ended == ~(catalog[b].endless \/ page < Len(pages))
           next == IF ended THEN "done"
                   ELSE IF GivesUpAfter(page) THEN "failed" ELSE "reading"
           more == progress[s][b].items \o
                     (IF page \in DOMAIN pages THEN <<pages[page]>> ELSE <<>>)
           p == [status |-> next, page |-> page, items |-> more]
<1>1. progress' = [progress EXCEPT ![s] = [progress[s] EXCEPT ![b] = p]]
  BY DEF FetchPage
<1>2. progress[s] # None /\ UNCHANGED <<config, catalog, moved>>
  BY DEF FetchPage, upstreamVars
<1>3. Options /\ Drains /\ DOMAIN progress = Server /\ catalog \in [Backend -> config.catalogs]
  BY DEF LInv, IInv, Upstreams, Clients, Options
<1>4. pages \in Seq(Name)
  <2>1. b \in Backend
    BY <1>3, EntriesKnown DEF ServingSet
  <2> QED BY <1>3, <2>1, PagesAre
<1>5. progress[s][b] \in Drain /\ GoodDrain(s, b, progress[s][b])
  BY <1>2 DEF Drains, LInv
<1>6. PICK old \in Nat : old = progress[s][b].page
  BY <1>5 DEF Drain
<1>7. PICK items \in Seq(Name) : items = progress[s][b].items
  BY <1>5 DEF Drain
<1>8. page = old + 1
  BY <1>6
<1>9. next \in {"reading", "done", "failed"} /\ (next = "done" => ~(page < Len(pages)))
  OBVIOUS
<1>10. /\ more \in Seq(Name)
       /\ FirstPages(items, old, pages) => FirstPages(more, page, pages)
  <2>1. more = items \o (IF old + 1 \in DOMAIN pages THEN <<pages[old + 1]>> ELSE <<>>)
    BY <1>7, <1>8
  <2> HIDE DEF more, page, pages
  <2> QED BY <1>4, <1>6, <1>7, <1>8, <2>1, FetchMore
<1> HIDE DEF next, more, page, pages
<1>11. p \in Drain /\ p.status = next /\ p.page = page /\ p.items = more
  BY <1>6, <1>8, <1>9, <1>10 DEF Drain
<1>12. b \notin moved[s] => SoFar(p, pages)
  <2> SUFFICES ASSUME b \notin moved[s] PROVE SoFar(p, pages)
    OBVIOUS
  <2>1. FirstPages(items, old, pages)
    BY <1>5, <1>6, <1>7 DEF GoodDrain, SoFar, pages
  <2>2. next = "done" => Len(pages) <= page
    BY <1>4, <1>6, <1>8, <1>9
  <2> QED BY <1>10, <1>11, <2>1, <2>2 DEF SoFar
<1>13. GoodDrain(s, b, p)
  BY <1>11, <1>12 DEF GoodDrain, pages
<1> HIDE DEF p
<1> QED BY <1>1, <1>2, <1>3, <1>13, DrainStep

\* A failure ends a drain.
LEMMA FailStep ==
  ASSUME Callable, LInv, NEW s \in Server, NEW b \in ServingSet, BackendFails(s, b)
  PROVE  Drains' /\ progress'[s] # None
<1> DEFINE p == [progress[s][b] EXCEPT !.status = "failed"]
<1>1. /\ progress' = [progress EXCEPT ![s] = [progress[s] EXCEPT ![b] = p]]
      /\ progress[s] # None /\ UNCHANGED <<config, catalog, moved>>
  BY DEF BackendFails, upstreamVars
<1>2. Options /\ Drains /\ DOMAIN progress = Server
  BY DEF LInv, IInv, Upstreams, Clients, Options
<1>3. progress[s][b] \in Drain /\ GoodDrain(s, b, progress[s][b])
  BY <1>1 DEF Drains, LInv
<1>4. p \in Drain /\ p.status = "failed" /\ p.page = progress[s][b].page
      /\ p.items = progress[s][b].items
  BY <1>3 DEF Drain
<1> HIDE DEF p
<1>5. GoodDrain(s, b, p)
  <2>1. p.status # "done"
    BY <1>4
  <2> QED BY <1>3, <1>4, <2>1, Zenon DEF GoodDrain, SoFar
<1> QED BY <1>1, <1>2, <1>5, DrainStep

\* A listing begins with nothing read.
LEMMA StartStep ==
  ASSUME Callable, LInv, NEW s \in Server, StartList(s)
  PROVE  Drains' /\ progress'[s] # None
<1> DEFINE p == [status |-> "reading", page |-> 0, items |-> <<>>]
           drain == [b \in ServingSet |-> p]
<1>1. /\ progress' = [progress EXCEPT ![s] = drain]
      /\ moved' = [moved EXCEPT ![s] = {}] /\ UNCHANGED <<config, catalog>>
  BY DEF StartList, upstreamVars
<1>2. /\ Options /\ Drains /\ DOMAIN progress = Server /\ DOMAIN moved = Server
      /\ catalog \in [Backend -> config.catalogs]
  BY DEF LInv, IInv, Upstreams, Clients, Options
<1>3. ServingSet' = ServingSet /\ Drain' = Drain
  BY <1>1 DEF ServingSet, Entries, Drain, Name
<1>4. p \in Drain
  BY DEF Drain
<1>5. drain \in [ServingSet -> Drain] /\ \A b \in ServingSet : drain[b] = p
  BY <1>4
<1>6. \A b \in ServingSet : SoFar(p, catalog[b].pages)
  <2>1. ASSUME NEW b \in ServingSet PROVE SoFar(p, catalog[b].pages)
    <3>1. b \in Backend
      BY <1>2, EntriesKnown DEF ServingSet
    <3>2. PICK pages \in Seq(Name) : pages = catalog[b].pages
      BY <1>2, <3>1, PagesAre
    <3>3. FirstPages(<<>>, 0, pages)
      BY DEF FirstPages
    <3>4. p.status # "done" /\ p.page = 0 /\ p.items = <<>>
      OBVIOUS
    <3> QED BY <3>2, <3>3, <3>4, Zenon DEF SoFar
  <2> QED BY <2>1
<1> HIDE DEF p, drain
<1>7. ASSUME NEW t \in Server, progress'[t] # None
      PROVE  progress'[t] \in [ServingSet -> Drain]
             /\ \A b \in ServingSet : GoodDrain(t, b, progress[t][b])'
  <2>1. CASE t = s
    BY <1>1, <1>2, <1>3, <1>4, <1>5, <1>6, <2>1 DEF GoodDrain
  <2>2. CASE t # s
    <3>1. progress'[t] = progress[t] /\ moved'[t] = moved[t]
      BY <1>1, <1>2, <2>2
    <3> QED BY <1>1, <1>3, <1>7, <3>1 DEF Drains, LInv, GoodDrain
  <2> QED BY <2>1, <2>2
<1>8. Drains'
  BY <1>3, <1>7 DEF Drains
<1>9. progress'[s] = drain
  BY <1>1, <1>2
<1> QED BY <1>2, <1>5, <1>8, <1>9, DrainIsSome

\* A drain that ends, and one that goes on.
LEMMA EndStep ==
  ASSUME LInv, UNCHANGED <<config, catalog>>, NEW s \in Server,
         progress' = [progress EXCEPT ![s] = None],
         \A t \in Server \ {s} : moved'[t] = moved[t]
  PROVE  Drains'
<1>1. ServingSet' = ServingSet /\ Drain' = Drain
  BY DEF ServingSet, Entries, Drain, Name
<1>2. DOMAIN progress = Server
  BY DEF LInv, IInv, Clients
<1>3. ASSUME NEW t \in Server, progress'[t] # None
      PROVE  progress'[t] \in [ServingSet -> Drain]
             /\ \A b \in ServingSet : GoodDrain(t, b, progress[t][b])'
  <2>1. t # s /\ progress'[t] = progress[t] /\ moved'[t] = moved[t]
    BY <1>2, <1>3
  <2> QED BY <1>1, <1>3, <2>1 DEF Drains, LInv, GoodDrain
<1> QED BY <1>1, <1>3 DEF Drains

\* A step that changes no drain, and marks the backends it changes.
LEMMA DrainsKept ==
  ASSUME LInv, UNCHANGED <<config, progress>>,
         \A s \in Server, b \in Backend :
           progress[s] # None /\ b \notin moved'[s] => b \notin moved[s] /\ catalog'[b] = catalog[b]
  PROVE  Drains'
<1>1. ServingSet' = ServingSet /\ Drain' = Drain
  BY DEF ServingSet, Entries, Drain, Name
<1>2. ServingSet \subseteq Backend
  <2>1. Options
    BY DEF LInv, IInv, Upstreams, Options
  <2> QED BY <2>1, EntriesKnown DEF ServingSet
<1>3. ASSUME NEW t \in Server, progress[t] # None
      PROVE  progress[t] \in [ServingSet -> Drain]
             /\ \A b \in ServingSet : GoodDrain(t, b, progress[t][b])'
  BY <1>1, <1>2, <1>3 DEF Drains, LInv, GoodDrain
<1> QED BY <1>1, <1>3 DEF Drains

(***************************************************************************)
(* The listing.                                                            *)
(***************************************************************************)
LEMMA LocalsAre ==
  ASSUME Options
  PROVE  /\ config.local \in Seq(Seq(Character)) /\ config.local \in Seq(Locals)
         /\ Locals \subseteq Seq(Character) /\ Once(config.local, Locals)
<1>1. PICK local \in Seq(Seq(Character)) : local = config.local
  BY KnownNames, Zenon DEF Options
<1>2. Locals = {local[i] : i \in DOMAIN local}
  BY <1>1, Zenon DEF Locals, ToSet
<1>3. \A i, j \in DOMAIN local : i # j => local[i] # local[j]
  BY <1>1, Zenon DEF Options, AcceptedOptions
<1>4. local \in Seq(Locals) /\ Locals \subseteq Seq(Character)
  BY <1>2
<1>5. Once(local, Locals)
  BY <1>3 DEF Once
<1> QED BY <1>1, <1>4, <1>5

\* Local tools shadow those upstream, and what is hidden is left out of both.
LEMMA OverlaidShows ==
  ASSUME Options, NEW u \in Seq(Leading)
  PROVE  /\ Overlaid(u) \in Seq((Leading \cup Locals) \ config.hidden)
         /\ Once(Overlaid(u), Locals)
<1> DEFINE T == Leading \cup Locals
<1>1. PICK p \in Seq(Leading \ Locals) : p = Without(u, Locals)
  BY WithoutType
<1>2. PICK local \in Seq(Locals) : local = config.local /\ Once(local, Locals)
  BY LocalsAre
<1>3. PICK all \in Seq(T) : all = p \o local
  <2>1. p \in Seq(T) /\ local \in Seq(T)
    BY <1>1, <1>2
  <2> HIDE DEF T
  <2>2. p \o local \in Seq(T)
    BY <2>1, Longer
  <2> QED BY <2>2
<1>4. Once(all, Locals)
  <2>1. /\ Len(all) = Len(p) + Len(local) /\ DOMAIN all = 1 .. Len(all)
        /\ \A i \in 1 .. Len(p) : all[i] = p[i]
        /\ \A i \in 1 .. Len(local) : all[Len(p) + i] = local[i]
    BY <1>3
  <2>2. \A i \in 1 .. Len(p) : p[i] \notin Locals
    BY <1>1
  <2>3. ASSUME NEW i \in DOMAIN all, all[i] \in Locals
        PROVE  \E k \in 1 .. Len(local) : i = Len(p) + k /\ all[i] = local[k]
    <3>1. i \in 1 .. (Len(p) + Len(local)) /\ i \notin 1 .. Len(p)
      BY <2>1, <2>2, <2>3
    <3>2. i - Len(p) \in 1 .. Len(local) /\ i = Len(p) + (i - Len(p))
      BY <3>1
    <3> QED BY <2>1, <3>2
  <2>4. ASSUME NEW i \in DOMAIN all, NEW j \in DOMAIN all, all[i] = all[j], all[i] \in Locals
        PROVE  i = j
    <3>1. PICK k \in 1 .. Len(local) : i = Len(p) + k /\ all[i] = local[k]
      BY <2>3, <2>4
    <3>2. PICK m \in 1 .. Len(local) : j = Len(p) + m /\ all[j] = local[m]
      BY <2>3, <2>4
    <3>3. k = m
      BY <1>2, <2>4, <3>1, <3>2 DEF Once
    <3> QED BY <3>1, <3>2, <3>3
  <2> QED BY <2>4 DEF Once
<1>5. Overlaid(u) = Without(all, config.hidden)
  BY <1>1, <1>2, <1>3, Zenon DEF Overlaid
<1> HIDE DEF T
<1>6. Without(all, config.hidden) \in Seq(T \ config.hidden)
  BY WithoutType
<1>7. Once(Without(all, config.hidden), Locals)
  BY <1>4, WithoutOnce
<1> QED BY <1>5, <1>6, <1>7, Zenon DEF T

\* No local tool is taken for a backend's.
LEMMA OverlaidSeen ==
  ASSUME Options, NEW u \in Seq(Seq(Character)), NEW b
  PROVE  NamesOf(b, Overlaid(u)) = Seen(b, u)
<1> DEFINE C == Seq(Character)
<1>1. PICK p \in Seq(C) : p = Without(u, Locals)
  BY WithoutKeeps
<1>2. PICK local \in Seq(C) : local = config.local /\ local \in Seq(Locals)
  BY LocalsAre
<1> HIDE DEF C
<1>3. Without(p \o local, config.hidden) =
        Without(p, config.hidden) \o Without(local, config.hidden)
  BY WithoutConcat
<1>4. PICK q \in Seq(C) : q = Without(p, config.hidden)
  BY WithoutKeeps
<1>5. PICK r \in Seq(C) : r = Without(local, config.hidden)
  BY WithoutKeeps
<1>6. NamesOf(b, q \o r) = NamesOf(b, q) \o NamesOf(b, r)
  BY NamesConcat
<1>7. NamesOf(b, r) = <<>>
  <2>1. r \in Seq(Locals)
    BY <1>2, <1>5, WithoutKeeps
  <2>2. \A x \in Locals : ~IsOf(b, x)
    BY DEF IsOf
  <2> QED BY <2>1, <2>2, NamesNone, Zenon
<1>8. NamesOf(b, q) \o <<>> = NamesOf(b, q)
  <2>1. Seen(b, u) = NamesOf(b, q)
    BY <1>1, <1>4, Zenon DEF Seen, Behind
  <2>2. PICK T : Seen(b, u) \in Seq(T)
    BY SeenType
  <2>3. PICK names \in Seq(T) : names = Seen(b, u)
    BY <2>2
  <2>4. names \o <<>> = names
    OBVIOUS
  <2> QED BY <2>1, <2>3, <2>4, Zenon
<1> QED BY <1>1, <1>2, <1>3, <1>4, <1>5, <1>6, <1>7, <1>8, Zenon DEF Overlaid, Seen, Behind

\* A drain that ended of a backend that did not change has what the backend serves.
LEMMA AllItems ==
  ASSUME NEW N, NEW pages \in Seq(N), NEW items \in Seq(N), NEW page \in Nat,
         FirstPages(items, page, pages), Len(pages) <= page
  PROVE  items = pages
<1>1. Len(items) = Len(pages)
  BY DEF FirstPages
<1>2. \A i \in 1 .. Len(items) : items[i] = pages[i]
  BY DEF FirstPages
<1> QED BY <1>1, <1>2, SameSequence

\* What a listing shows of each backend when it ends.
LEMMA Finished ==
  ASSUME Callable, LInv, NEW s \in Server, progress[s] # None,
         \A b \in ServingSet : progress[s][b].status # "reading"
  PROVE  /\ Overlaid(Upstream(s)) \in Seq((Leading \cup Locals) \ config.hidden)
         /\ Once(Overlaid(Upstream(s)), Locals)
         /\ \A b \in ServingSet :
              IF progress[s][b].status = "failed" THEN NamesOf(b, Overlaid(Upstream(s))) = <<>>
              ELSE b \notin moved[s] => NamesOf(b, Overlaid(Upstream(s))) = Visible(b)
<1>1. Options /\ catalog \in [Backend -> config.catalogs]
  BY DEF LInv, IInv, Upstreams, Options
<1>2. \A b \in ServingSet : progress[s][b] \in Drain /\ GoodDrain(s, b, progress[s][b])
  BY DEF LInv, Drains
<1>3. Drained(s)
  <2>1. ASSUME NEW b \in ServingSet PROVE Contributes(progress[s][b]) \in Seq(Name)
    <3>1. progress[s][b].items \in Seq(Name)
      BY <1>2 DEF Drain
    <3> QED BY <3>1 DEF Contributes
  <2> QED BY <2>1 DEF Drained
<1>4. PICK u \in Seq(Leading) : u = Upstream(s)
  BY <1>1, <1>3, UpstreamLeads
<1>5. u \in Seq(Seq(Character))
  BY <1>4 DEF Leading
<1>6. ASSUME NEW b \in ServingSet
      PROVE  NamesOf(b, Overlaid(u)) = Without(Contributes(progress[s][b]), CoveredNames(b))
  <2>1. NamesOf(b, Overlaid(u)) = Seen(b, u)
    BY <1>1, <1>5, OverlaidSeen
  <2>2. Seen(b, Upstream(s)) = Without(Contributes(progress[s][b]), CoveredNames(b))
    BY <1>1, <1>3, SeenUpstream
  <2> QED BY <1>4, <2>1, <2>2, Zenon
<1>7. ASSUME NEW b \in ServingSet, progress[s][b].status = "failed"
      PROVE  NamesOf(b, Overlaid(u)) = <<>>
  <2>1. Contributes(progress[s][b]) = <<>>
    BY <1>7 DEF Contributes
  <2> QED BY <1>6, <2>1, WithoutEmpty, Zenon
<1>8. ASSUME NEW b \in ServingSet, progress[s][b].status # "failed", b \notin moved[s]
      PROVE  NamesOf(b, Overlaid(u)) = Visible(b)
  <2>1. progress[s][b].status = "done"
    BY <1>2, <1>8 DEF Drain
  <2>2. b \in Backend
    BY <1>1, EntriesKnown DEF ServingSet
  <2>3. PICK pages \in Seq(Name) : pages = catalog[b].pages
    BY <1>1, <2>2, PagesAre
  <2>4. progress[s][b].items = pages
    <3>1. PICK items \in Seq(Name), page \in Nat :
            items = progress[s][b].items /\ page = progress[s][b].page
      BY <1>2 DEF Drain
    <3>2. FirstPages(items, page, pages) /\ Len(pages) <= page
      BY <1>2, <1>8, <2>1, <2>3, <3>1, Zenon DEF GoodDrain, SoFar
    <3> QED BY <3>1, <3>2, AllItems
  <2>5. Contributes(progress[s][b]) = pages
    BY <2>1, <2>4, Zenon DEF Contributes
  <2>6. \A name \in ToSet(pages) : name \in CoveredNames(b) <=> name \in Covered(b)
    <3>1. \A name \in ToSet(pages) : name \in Name
      BY DEF ToSet
    <3> QED BY <2>3, <3>1, Zenon DEF CoveredNames, Covered
  <2>7. Without(pages, CoveredNames(b)) = Without(pages, Covered(b))
    BY <2>6, WithoutOnly
  <2> QED BY <1>6, <2>3, <2>5, <2>7, Zenon DEF Visible
<1>9. /\ Overlaid(u) \in Seq((Leading \cup Locals) \ config.hidden)
      /\ Once(Overlaid(u), Locals)
  BY <1>1, OverlaidShows
<1> QED BY <1>4, <1>7, <1>8, <1>9, Zenon

(***************************************************************************)
(* Every step keeps what is listed.                                        *)
(***************************************************************************)
\* Where names lead depends on the options only.
LEMMA SameNames ==
  ASSUME config' = config
  PROVE  /\ ServingSet' = ServingSet /\ Locals' = Locals /\ Leading' = Leading
         /\ \A b, entries : NamesOf(b, entries)' = NamesOf(b, entries)
         /\ \A b \in Backend : catalog'[b] = catalog[b] => Visible(b)' = Visible(b)
<1>1. ServingSet' = ServingSet /\ Locals' = Locals /\ Keys' = Keys
  BY DEF ServingSet, Entries, Locals, Keys
<1>2. \A x : LeadsTo(x)' = LeadsTo(x)
  BY <1>1, Zenon DEF LeadsTo
<1>3. \A b, x : IsOf(b, x)' <=> IsOf(b, x)
  BY <1>1, <1>2, Zenon DEF IsOf
<1>4. \A b, entries : NamesOf(b, entries)' = NamesOf(b, entries)
  BY <1>2, <1>3, Zenon DEF NamesOf
<1>5. \A b, name : Expose(b, name)' = Expose(b, name)
  BY Zenon DEF Expose
<1>6. ASSUME NEW b \in Backend, catalog'[b] = catalog[b] PROVE Visible(b)' = Visible(b)
  BY <1>1, <1>5, <1>6, Zenon DEF Visible, Covered
<1>7. Leading' = Leading
  BY <1>2, Zenon DEF Leading
<1> QED BY <1>1, <1>4, <1>6, <1>7, Zenon

CompleteAt(s) ==
  shown[s] # None /\ progress[s] = None =>
    \A b \in ServingSet :
      IF b \in shown[s].degraded THEN ShownOf(shown[s], b) = <<>>
      ELSE b \notin moved[s] => ShownOf(shown[s], b) = Visible(b)

ShowsAt(s) ==
  shown[s] # None =>
    /\ shown[s].entries \in Seq((Leading \cup Locals) \ config.hidden)
    /\ Once(shown[s].entries, Locals)

\* The invariants, client by client.
LEMMA AtEach ==
  /\ ListingComplete <=> \A s \in Server : CompleteAt(s)
  /\ Shows <=> \A s \in Server : ShowsAt(s)
BY Zenon DEF ListingComplete, CompleteAt, Shows, ShowsAt

\* A client whose listing stays as it was.
LEMMA KeptAt ==
  ASSUME LInv, config' = config, NEW s \in Server, shown'[s] = shown[s],
         /\ progress'[s] = None => progress[s] = None
         /\ \A b \in Backend :
              shown[s] # None /\ b \notin moved'[s] => b \notin moved[s] /\ catalog'[b] = catalog[b]
  PROVE  CompleteAt(s)' /\ ShowsAt(s)'
<1>1. CompleteAt(s) /\ ShowsAt(s)
  BY AtEach DEF LInv
<1>2. ShowsAt(s)'
  BY <1>1, SameNames, Zenon DEF ShowsAt, Once
<1>3. ServingSet \subseteq Backend
  <2>1. Options
    BY DEF LInv, IInv, Upstreams, Options
  <2> QED BY <2>1, EntriesKnown DEF ServingSet
<1>4. CompleteAt(s)'
  <2> SUFFICES ASSUME shown'[s] # None, progress'[s] = None, NEW b \in ServingSet
               PROVE  IF b \in shown'[s].degraded THEN ShownOf(shown[s], b)' = <<>>
                      ELSE b \notin moved'[s] => ShownOf(shown[s], b)' = Visible(b)'
    BY SameNames, Zenon DEF CompleteAt
  <2>1. b \in Backend /\ shown[s] # None /\ progress[s] = None
    BY <1>3
  <2>2. ShownOf(shown[s], b)' = ShownOf(shown[s], b)
    BY SameNames, Zenon DEF ShownOf
  <2>3. b \notin moved'[s] => b \notin moved[s] /\ Visible(b)' = Visible(b)
    BY <2>1, SameNames, Zenon
  <2> QED BY <1>1, <2>1, <2>2, <2>3, Zenon DEF CompleteAt
<1> QED BY <1>2, <1>4

\* One whose listing begins, goes on or is dropped.
LEMMA BusyAt ==
  ASSUME LInv, config' = config, NEW s \in Server,
         \/ shown'[s] = None
         \/ shown'[s] = shown[s] /\ progress'[s] # None
  PROVE  CompleteAt(s)' /\ ShowsAt(s)'
<1>1. ShowsAt(s)
  BY AtEach DEF LInv
<1>2. ShowsAt(s)'
  BY <1>1, SameNames, Zenon DEF ShowsAt, Once
<1>3. CompleteAt(s)'
  BY Zenon DEF CompleteAt
<1> QED BY <1>2, <1>3

\* One whose listing ends.
LEMMA FinishAt ==
  ASSUME Callable, LInv, NEW s \in Server, FinishList(s)
  PROVE  CompleteAt(s)' /\ ShowsAt(s)'
<1> DEFINE entries == Overlaid(Upstream(s))
           degraded == {b \in ServingSet : progress[s][b].status = "failed"}
           listing == [entries |-> entries, degraded |-> degraded]
<1>1. /\ shown' = [shown EXCEPT ![s] = listing] /\ progress[s] # None
      /\ \A b \in ServingSet : progress[s][b].status # "reading"
      /\ UNCHANGED <<config, catalog, moved>>
  BY DEF FinishList, upstreamVars
<1>2. /\ entries \in Seq((Leading \cup Locals) \ config.hidden) /\ Once(entries, Locals)
      /\ \A b \in ServingSet :
           IF progress[s][b].status = "failed" THEN NamesOf(b, entries) = <<>>
           ELSE b \notin moved[s] => NamesOf(b, entries) = Visible(b)
  BY <1>1, Finished
<1>3. \A b \in ServingSet : b \in degraded <=> progress[s][b].status = "failed"
  OBVIOUS
<1> HIDE DEF entries, degraded
<1>4. shown'[s].entries = entries /\ shown'[s].degraded = degraded
  <2>1. shown'[s] = listing
    BY <1>1 DEF LInv
  <2> QED BY <2>1
<1>5. ShowsAt(s)'
  BY <1>1, <1>2, <1>4, SameNames, Zenon DEF ShowsAt, Once
<1>6. ServingSet \subseteq Backend
  <2>1. Options
    BY DEF LInv, IInv, Upstreams, Options
  <2> QED BY <2>1, EntriesKnown DEF ServingSet
<1>7. CompleteAt(s)'
  <2> SUFFICES ASSUME NEW b \in ServingSet
               PROVE  IF b \in shown'[s].degraded THEN ShownOf(shown[s], b)' = <<>>
                      ELSE b \notin moved'[s] => ShownOf(shown[s], b)' = Visible(b)'
    BY <1>1, SameNames, Zenon DEF CompleteAt
  <2>1. ShownOf(shown[s], b)' = NamesOf(b, entries)
    BY <1>1, <1>4, SameNames, Zenon DEF ShownOf
  <2>2. Visible(b)' = Visible(b)
    BY <1>1, <1>6, SameNames, Zenon
  <2> QED BY <1>1, <1>2, <1>3, <1>4, <2>1, <2>2, Zenon
<1> QED BY <1>5, <1>7

\* And back.
LEMMA AtAll ==
  ASSUME \A s \in Server : CompleteAt(s)' /\ ShowsAt(s)'
  PROVE  ListingComplete' /\ Shows'
BY Zenon DEF ListingComplete, CompleteAt, Shows, ShowsAt

\* Nothing is listed at first.
LEMMA LInvInit == Init => LInv
<1> SUFFICES ASSUME Init PROVE LInv
  OBVIOUS
<1>1. IInv /\ AcceptedOptions(config)
  BY IInvInit DEF Init
<1>2. /\ DOMAIN shown = Server /\ \A s \in Server : progress[s] = None /\ shown[s] = None
  BY DEF Init
<1>3. Drains /\ Shows /\ ListingComplete
  BY <1>2, Zenon DEF Drains, Shows, ListingComplete
<1> QED BY <1>1, <1>2, <1>3 DEF LInv

\* A server that is created or closed, and one that is told.
LEMMA ServerListings ==
  ASSUME LInv, NEW s \in Server, CreateServer(s) \/ CloseServer(s)
  PROVE  Drains' /\ Shows' /\ ListingComplete'
<1>1. DOMAIN progress = Server /\ DOMAIN shown = Server /\ DOMAIN moved = Server
  BY DEF LInv, IInv, Clients
<1>2. CASE CreateServer(s)
  <2>1. UNCHANGED <<config, catalog, progress, shown, moved>>
    BY <1>2 DEF CreateServer, upstreamVars, listVars
  <2>2. Drains'
    BY <2>1, DrainsKept
  <2>3. \A t \in Server : CompleteAt(t)' /\ ShowsAt(t)'
    BY <2>1, KeptAt
  <2> QED BY <2>2, <2>3, AtAll
<1>3. CASE CloseServer(s)
  <2>1. /\ progress' = [progress EXCEPT ![s] = None] /\ shown' = [shown EXCEPT ![s] = None]
        /\ moved' = [moved EXCEPT ![s] = {}] /\ UNCHANGED <<config, catalog>>
    BY <1>3 DEF CloseServer, upstreamVars
  <2>2. Drains'
    <3>1. \A t \in Server \ {s} : moved'[t] = moved[t]
      BY <1>1, <2>1
    <3> QED BY <2>1, <3>1, EndStep
  <2>3. ASSUME NEW t \in Server PROVE CompleteAt(t)' /\ ShowsAt(t)'
    <3>1. CASE t = s
      <4>1. shown'[t] = None
        BY <1>1, <2>1, <3>1
      <4> QED BY <2>1, <4>1, BusyAt
    <3>2. CASE t # s
      <4>1. shown'[t] = shown[t] /\ progress'[t] = progress[t] /\ moved'[t] = moved[t]
        BY <1>1, <2>1, <3>2
      <4> QED BY <2>1, <4>1, KeptAt
    <3> QED BY <3>1, <3>2
  <2> QED BY <2>2, <2>3, AtAll
<1> QED BY <1>2, <1>3

\* A backend that changes, or tells of it.
LEMMA BackendListings ==
  ASSUME LInv, NEW b \in Backend, UpstreamChanges(b) \/ Notify(b)
  PROVE  Drains' /\ Shows' /\ ListingComplete'
<1>1. UNCHANGED <<config, progress, shown>>
  BY DEF UpstreamChanges, Notify
<1>2. ASSUME NEW s \in Server, NEW c \in Backend, progress[s] # None \/ shown[s] # None,
             c \notin moved'[s]
      PROVE  c \notin moved[s] /\ catalog'[c] = catalog[c]
  <2>1. CASE UpstreamChanges(b)
    <3>1. moved'[s] = moved[s] \cup {b}
      BY <1>2, <2>1 DEF UpstreamChanges
    <3>2. c # b /\ c \notin moved[s]
      BY <1>2, <3>1
    <3>3. PICK serves : catalog' = [catalog EXCEPT ![b] = serves]
      BY <2>1 DEF UpstreamChanges
    <3>4. DOMAIN catalog = Backend
      BY DEF LInv, IInv, Upstreams
    <3> QED BY <3>2, <3>3, <3>4
  <2>2. CASE Notify(b)
    BY <1>2, <2>2 DEF Notify
  <2> QED BY <2>1, <2>2
<1>3. Drains'
  BY <1>1, <1>2, DrainsKept
<1>4. \A t \in Server : CompleteAt(t)' /\ ShowsAt(t)'
  BY <1>1, <1>2, KeptAt
<1> QED BY <1>3, <1>4, AtAll

\* A step of a client's listing.
LEMMA ListerListings ==
  ASSUME Callable, LInv, NEW s \in Server, Listing(s)
  PROVE  Drains' /\ Shows' /\ ListingComplete'
<1>1. DOMAIN progress = Server /\ DOMAIN shown = Server /\ DOMAIN moved = Server
  BY DEF LInv, IInv, Clients
<1>2. UNCHANGED <<config, catalog>>
  BY DEF Listing, StartList, FetchPage, BackendFails, FinishList, upstreamVars
<1>3. \A t \in Server \ {s} : /\ shown'[t] = shown[t] /\ progress'[t] = progress[t]
                              /\ moved'[t] = moved[t]
  BY <1>1 DEF Listing, StartList, FetchPage, BackendFails, FinishList
<1>4. \A t \in Server \ {s} : CompleteAt(t)' /\ ShowsAt(t)'
  BY <1>2, <1>3, KeptAt
<1>5. ASSUME Drains' /\ progress'[s] # None, UNCHANGED shown
      PROVE  Drains' /\ Shows' /\ ListingComplete'
  <2>1. CompleteAt(s)' /\ ShowsAt(s)'
    BY <1>2, <1>5, BusyAt
  <2> QED BY <1>4, <1>5, <2>1, AtAll
<1>6. CASE StartList(s)
  <2>1. UNCHANGED shown
    BY <1>6 DEF StartList
  <2> QED BY <1>5, <1>6, <2>1, StartStep
<1>7. ASSUME NEW b \in ServingSet, FetchPage(s, b) \/ BackendFails(s, b)
      PROVE  Drains' /\ Shows' /\ ListingComplete'
  <2>1. UNCHANGED shown
    BY <1>7 DEF FetchPage, BackendFails
  <2> QED BY <1>5, <1>7, <2>1, FetchStep, FailStep
<1>8. CASE FinishList(s)
  <2>1. progress' = [progress EXCEPT ![s] = None]
    BY <1>8 DEF FinishList
  <2>2. Drains'
    BY <1>2, <1>3, <2>1, EndStep
  <2>3. CompleteAt(s)' /\ ShowsAt(s)'
    BY <1>8, FinishAt
  <2> QED BY <1>4, <2>2, <2>3, AtAll
<1> QED BY <1>6, <1>7, <1>8 DEF Listing

\* Every step keeps the invariant.
LEMMA LInvStep ==
  ASSUME Callable
  PROVE  LInv /\ [Next]_vars => LInv'
<1> SUFFICES ASSUME LInv, [Next]_vars PROVE LInv'
  OBVIOUS
<1>1. IInv'
  BY IInvStep DEF LInv
<1>2. AcceptedOptions(config)'
  <2>1. config' = config
    BY ConfigStep
  <2> QED BY <2>1 DEF LInv, AcceptedOptions
<1>3. DOMAIN shown' = Server
  BY SomeServers DEF LInv, Next, CreateServer, CloseServer, UpstreamChanges, Notify, Listing,
     StartList, FetchPage, BackendFails, FinishList, vars, listVars
<1>4. ASSUME UNCHANGED vars PROVE Drains' /\ Shows' /\ ListingComplete'
  <2>1. UNCHANGED <<config, catalog, progress, shown, moved>>
    BY <1>4 DEF vars, upstreamVars, listVars
  <2>2. Drains'
    BY <2>1, DrainsKept
  <2>3. \A t \in Server : CompleteAt(t)' /\ ShowsAt(t)'
    BY <2>1, KeptAt
  <2> QED BY <2>2, <2>3, AtAll
<1>5. Drains' /\ Shows' /\ ListingComplete'
  BY <1>4, ServerListings, BackendListings, ListerListings, SomeServers DEF Next
<1> QED BY <1>1, <1>2, <1>3, <1>5 DEF LInv

\* Every name in a client's listing can be called, whatever was drained, failed and changed
\* on the way to it: it is a local tool's and is there once, or routeNamespaced (the URI's
\* way back for resources) leads it to a backend that serves the surface; and the filter
\* left none that is hidden.
THEOREM ListedRoutesHolds ==
  ASSUME Callable
  PROVE  Spec => []ListedRoutes
<1>1. LInv => ListedRoutes
  <2> SUFFICES ASSUME LInv, NEW s \in Server, shown[s] # None,
                      NEW i \in DOMAIN shown[s].entries
               PROVE  /\ shown[s].entries[i] \notin config.hidden
                      /\ IF shown[s].entries[i] \in Locals
                         THEN \A j \in DOMAIN shown[s].entries :
                                shown[s].entries[j] = shown[s].entries[i] => i = j
                         ELSE LeadsTo(shown[s].entries[i]) # None
    BY Zenon DEF ListedRoutes
  <2>1. /\ shown[s].entries \in Seq((Leading \cup Locals) \ config.hidden)
        /\ Once(shown[s].entries, Locals)
    BY DEF LInv, Shows
  <2>2. shown[s].entries[i] \in (Leading \cup Locals) \ config.hidden
    BY <2>1
  <2>3. shown[s].entries[i] \in Leading \ Locals => LeadsTo(shown[s].entries[i]) # None
    BY DEF Leading
  <2> QED BY <2>1, <2>2, <2>3 DEF Once
<1>2. Init => LInv
  BY LInvInit
<1>3. LInv /\ [Next]_vars => LInv'
  BY LInvStep
<1> QED BY <1>1, <1>2, <1>3, PTL DEF Spec

\* listAcrossMesh gives a client, of every backend, all that it serves in its order and
\* under names that lead back to it, or nothing at all and a report that the backend is
\* degraded; only of a backend whose catalog changed while the pages were read is nothing
\* said.
THEOREM ListingCompleteHolds ==
  ASSUME Callable
  PROVE  Spec => []ListingComplete
<1>1. LInv => ListingComplete
  BY DEF LInv
<1>2. Init => LInv
  BY LInvInit
<1>3. LInv /\ [Next]_vars => LInv'
  BY LInvStep
<1> QED BY <1>1, <1>2, <1>3, PTL DEF Spec

=============================================================================
