-------------------------- MODULE MeshNames_proofs --------------------------
(***************************************************************************)
(* A name a mesh exposes leads back to the backend and the name it came    *)
(* from, for any characters, keys and names.                               *)
(***************************************************************************)
EXTENDS MeshNames, TLAPS

\* The least element of a set, when it is given.
LEMMA LeastIs ==
  ASSUME NEW S \in SUBSET Int, NEW m \in S, \A i \in S : m <= i
  PROVE  Least(S) = m
<1>1. \A i \in S : (\A j \in S : i <= j) => i = m
  OBVIOUS
<1> QED BY <1>1 DEF Least

\* The elements of a slice.
LEMMA Slice ==
  ASSUME NEW C, NEW s \in Seq(C), NEW i \in 1..Len(s), NEW j \in 1..Len(s), i <= j
  PROVE  /\ SubSeq(s, i, j) \in Seq(C) /\ Len(SubSeq(s, i, j)) = j - i + 1
         /\ \A k \in 1..(j - i + 1) : SubSeq(s, i, j)[k] = s[i + k - 1]
OBVIOUS

\* Sequences of the same length with the same elements are equal.
LEMMA SameSequence ==
  ASSUME NEW C, NEW s \in Seq(C), NEW t \in Seq(C), Len(s) = Len(t),
         \A k \in 1..Len(s) : s[k] = t[k]
  PROVE  s = t
OBVIOUS

\* A key has a first character.
LEMMA NotEmpty ==
  ASSUME NEW C, NEW s \in Seq(C), s # <<>>
  PROVE  Len(s) + 1 > 1 /\ (Len(s) + 1) - 1 = Len(s)
OBVIOUS

\* The parts of a name, by place.
LEMMA Joined ==
  ASSUME NEW C, NEW a \in Seq(C), NEW b \in Seq(C), NEW c \in Seq(C)
  PROVE  /\ a \o b \o c \in Seq(C) /\ Len(a \o b \o c) = Len(a) + Len(b) + Len(c)
         /\ \A k \in 1..Len(a) : (a \o b \o c)[k] = a[k]
         /\ \A k \in 1..Len(b) : (a \o b \o c)[Len(a) + k] = b[k]
         /\ \A k \in 1..Len(c) : (a \o b \o c)[Len(a) + Len(b) + k] = c[k]
<1>1. /\ a \o b \in Seq(C) /\ Len(a \o b) = Len(a) + Len(b)
      /\ \A k \in 1..Len(a) : (a \o b)[k] = a[k]
      /\ \A k \in 1..Len(b) : (a \o b)[Len(a) + k] = b[k]
  OBVIOUS
<1>2. ASSUME NEW u \in Seq(C)
      PROVE  /\ u \o c \in Seq(C) /\ Len(u \o c) = Len(u) + Len(c)
             /\ \A k \in 1..Len(u) : (u \o c)[k] = u[k]
             /\ \A k \in 1..Len(c) : (u \o c)[Len(u) + k] = c[k]
  OBVIOUS
<1> QED BY <1>1, <1>2

\* The places at which u occurs twice in a row.
Pairs(s, u) == {i \in 1..(Len(s) - 1) : s[i] = u /\ s[i + 1] = u}

\* s is key, something of width w, and name.
Halves(C, s, key, w, name) ==
  /\ s \in Seq(C) /\ Len(s) = Len(key) + w + Len(name)
  /\ \A k \in 1..Len(key) : s[k] = key[k]
  /\ \A k \in 1..Len(name) : s[Len(key) + w + k] = name[k]

\* A separator of two equal characters, joined.
LEMMA JoinedByPair ==
  ASSUME NEW C, NEW u \in C, NEW a \in Seq(C), NEW c \in Seq(C)
  PROVE  /\ Halves(C, a \o <<u, u>> \o c, a, 2, c)
         /\ (a \o <<u, u>> \o c)[Len(a) + 1] = u
         /\ (a \o <<u, u>> \o c)[Len(a) + 2] = u
<1>1. /\ <<u, u>> \in Seq(C) /\ Len(<<u, u>>) = 2
      /\ <<u, u>>[1] = u /\ <<u, u>>[2] = u
  OBVIOUS
<1>2. PICK b : b = <<u, u>>
  OBVIOUS
<1>3. b \in Seq(C) /\ Len(b) = 2 /\ b[1] = u /\ b[2] = u
  BY <1>1, <1>2, Zenon
<1>4. b \in Seq(C)
  BY <1>3
<1>5. PICK s : s = a \o b \o c
  OBVIOUS
<1>6. /\ s \in Seq(C) /\ Len(s) = Len(a) + Len(b) + Len(c)
      /\ \A k \in 1..Len(a) : s[k] = a[k]
      /\ \A k \in 1..Len(b) : s[Len(a) + k] = b[k]
      /\ \A k \in 1..Len(c) : s[Len(a) + Len(b) + k] = c[k]
  BY <1>4, <1>5, Joined
<1>7. Halves(C, s, a, 2, c) /\ s[Len(a) + 1] = u /\ s[Len(a) + 2] = u
  BY <1>3, <1>6 DEF Halves
<1> QED BY <1>2, <1>5, <1>7, Zenon

\* The two-character separator is found where its character occurs twice in a row.
LEMMA PairAt ==
  ASSUME NEW C, NEW u \in C, NEW s \in Seq(C)
  PROVE  Occurrences(s, <<u, u>>) = Pairs(s, u)
<1> DEFINE pair == <<u, u>>
<1>1. pair \in Seq(C) /\ Len(pair) = 2 /\ pair[1] = u /\ pair[2] = u
  OBVIOUS
<1> HIDE DEF pair
<1>2. \A i : i \in Occurrences(s, pair)
               <=> i \in 1..(Len(s) - 1) /\ SubSeq(s, i, i + 1) = pair
  <2>1. Len(s) - Len(pair) + 1 = Len(s) - 1
    BY <1>1
  <2>2. \A i \in 1..(Len(s) - 1) : i + Len(pair) - 1 = i + 1
    BY <1>1
  <2>3. \A i : i \in Occurrences(s, pair)
                 <=> i \in 1..(Len(s) - 1) /\ SubSeq(s, i, i + Len(pair) - 1) = pair
    BY <2>1, Zenon DEF Occurrences
  <2> QED BY <2>2, <2>3, Zenon
<1>3. ASSUME NEW i \in 1..(Len(s) - 1)
      PROVE  SubSeq(s, i, i + 1) = pair <=> s[i] = u /\ s[i + 1] = u
  <2> DEFINE part == SubSeq(s, i, i + 1)
  <2>1. part \in Seq(C) /\ Len(part) = 2 /\ part[1] = s[i] /\ part[2] = s[i + 1]
    <3>1. i \in 1..Len(s) /\ i + 1 \in 1..Len(s) /\ i <= i + 1
      OBVIOUS
    <3>2. (i + 1) - i + 1 = 2 /\ i + 1 - 1 = i /\ i + 2 - 1 = i + 1
      OBVIOUS
    <3> QED BY <3>1, <3>2, Slice
  <2> HIDE DEF part
  <2>2. CASE part = pair
    BY <1>1, <2>1, <2>2 DEF part
  <2>3. CASE s[i] = u /\ s[i + 1] = u
    <3>1. \A k \in 1..Len(part) : part[k] = pair[k]
      BY <1>1, <2>1, <2>3
    <3>2. part = pair
      BY <1>1, <2>1, <3>1, SameSequence
    <3> QED BY <2>3, <3>2 DEF part
  <2> QED BY <2>2, <2>3 DEF part
<1>4. Occurrences(s, pair) = Pairs(s, u)
  BY <1>2, <1>3, Zenon DEF Pairs
<1> QED BY <1>4 DEF pair

\* Two of a character after a key that neither holds such a pair nor ends in the character
\* are the first.
LEMMA FirstPair ==
  ASSUME NEW C, NEW u, NEW key \in Seq(C), NEW name \in Seq(C), key # <<>>,
         Pairs(key, u) = {}, key[Len(key)] # u,
         NEW s, Halves(C, s, key, 2, name), s[Len(key) + 1] = u, s[Len(key) + 2] = u
  PROVE  Pairs(s, u) # {} /\ Least(Pairs(s, u)) = Len(key) + 1
<1> USE DEF Halves, Pairs
<1> DEFINE found == Pairs(s, u)
<1>1. Len(key) \in Nat /\ Len(key) > 0
  OBVIOUS
<1>2. Len(key) + 1 \in found
  BY <1>1
<1>3. ASSUME NEW i \in found, i <= Len(key) PROVE FALSE
  <2>1. i \in Nat /\ i > 0 /\ s[i] = u /\ s[i + 1] = u
    OBVIOUS
  <2>2. CASE i = Len(key)
    BY <1>1, <2>1, <2>2
  <2>3. CASE i < Len(key)
    <3>1. i \in 1..Len(key) /\ i + 1 \in 1..Len(key) /\ i \in 1..(Len(key) - 1)
      BY <1>1, <2>1, <2>3
    <3>2. key[i] = u /\ key[i + 1] = u
      BY <2>1, <3>1
    <3> QED BY <3>1, <3>2
  <2> QED BY <1>1, <1>3, <2>1, <2>2, <2>3
<1>4. found \in SUBSET Int
  OBVIOUS
<1> HIDE DEF found
<1>5. \A i \in found : Len(key) + 1 <= i
  BY <1>1, <1>3, <1>4
<1>6. Least(found) = Len(key) + 1
  BY <1>1, <1>2, <1>4, <1>5, LeastIs
<1> QED BY <1>2, <1>6 DEF found

\* What comes before a separator of width w and what comes after it.
LEMMA ComesApart ==
  ASSUME NEW C, NEW key \in Seq(C), NEW name \in Seq(C), NEW w \in Nat, key # <<>>, name # <<>>,
         NEW s, Halves(C, s, key, w, name)
  PROVE  SubSeq(s, 1, Len(key)) = key /\ From(s, Len(key) + 1 + w) = name
<1> USE DEF Halves
<1>1. Len(key) \in Nat /\ Len(key) > 0 /\ Len(name) \in Nat /\ Len(name) > 0
  OBVIOUS
<1>2. SubSeq(s, 1, Len(key)) = key
  <2>1. 1 \in 1..Len(s) /\ Len(key) \in 1..Len(s) /\ 1 <= Len(key)
    BY <1>1
  <2> DEFINE part == SubSeq(s, 1, Len(key))
  <2>2. part \in Seq(C) /\ Len(part) = Len(key) /\ \A k \in 1..Len(key) : part[k] = s[k]
    BY <1>1, <2>1, Slice
  <2> HIDE DEF part
  <2>3. part = key
    BY <2>2, SameSequence
  <2> QED BY <2>3 DEF part
<1>3. From(s, Len(key) + 1 + w) = name
  <2> DEFINE start == Len(key) + 1 + w
             part == SubSeq(s, start, Len(s))
  <2>1. start \in 1..Len(s) /\ Len(s) \in 1..Len(s) /\ start <= Len(s)
    BY <1>1
  <2>2. Len(s) - start + 1 = Len(name) /\ \A k \in Int : start + k - 1 = Len(key) + w + k
    BY <1>1
  <2> HIDE DEF start
  <2>3. /\ part \in Seq(C) /\ Len(part) = Len(name)
        /\ \A k \in 1..Len(name) : part[k] = s[start + k - 1]
    BY <2>1, <2>2, Slice
  <2> HIDE DEF part
  <2>4. ASSUME NEW k \in 1..Len(name) PROVE part[k] = name[k]
    <3>1. k \in Int /\ part[k] = s[start + k - 1]
      BY <2>3
    <3>2. start + k - 1 = Len(key) + w + k
      BY <2>2, <3>1
    <3> QED BY <3>1, <3>2
  <2>5. part = name
    BY <2>3, <2>4, SameSequence
  <2> QED BY <2>5 DEF part, From, start
<1> QED BY <1>2, <1>3

---------------------------------------------------------------------------
\* A name exposed under an accepted key that does not end in an underscore leads back to
\* that key and the name it came from.  (A key that does is accepted as well: Apart.)
THEOREM RouteInverse ==
  ASSUME NEW C, "_" \in C, NEW keys, NEW key \in keys, key \in Seq(C),
         NEW name \in Seq(C), name # <<>>, AcceptedKey(key), Apart(key)
  PROVE  RouteNamespaced(NamespaceName(key, name), keys) = [key |-> key, name |-> name]
<1> DEFINE s == NamespaceName(key, name)
           at == Least(Occurrences(s, Separator))
<1>1. /\ Halves(C, s, key, 2, name)
      /\ s[Len(key) + 1] = "_" /\ s[Len(key) + 2] = "_"
  BY JoinedByPair, Zenon DEF NamespaceName, Separator
<1> HIDE DEF s
<1>2. s \in Seq(C)
  BY <1>1, Zenon DEF Halves
<1>3. /\ Occurrences(s, Separator) = Pairs(s, "_")
      /\ Occurrences(key, Separator) = Pairs(key, "_")
  BY <1>2, PairAt, Zenon DEF Separator
<1>4. PICK u : u = "_"
  OBVIOUS
<1>5. /\ Halves(C, s, key, 2, name) /\ s[Len(key) + 1] = u /\ s[Len(key) + 2] = u
      /\ key # <<>> /\ name # <<>> /\ Pairs(key, u) = {} /\ key[Len(key)] # u
      /\ key \in Seq(C)
  BY <1>1, <1>3, <1>4, Zenon DEF AcceptedKey, Apart
<1>6. Pairs(s, u) # {} /\ Least(Pairs(s, u)) = Len(key) + 1
  BY ONLY <1>5, FirstPair
<1>7. SubSeq(s, 1, Len(key)) = key /\ From(s, Len(key) + 1 + 2) = name
  BY ONLY <1>5, ComesApart
<1>8. Len(key) + 1 > 1 /\ (Len(key) + 1) - 1 = Len(key)
  BY <1>5, NotEmpty, Zenon
<1>9. Occurrences(s, Separator) # {} /\ at = Len(key) + 1
  BY <1>3, <1>4, <1>6, Zenon
<1>10. at > 1 /\ SubSeq(s, 1, at - 1) = key /\ From(s, at + 2) = name
  BY <1>7, <1>8, <1>9, Zenon
<1> QED BY <1>9, <1>10, Zenon DEF RouteNamespaced, s

---------------------------------------------------------------------------
\* The places at which u occurs.
Marks(s, u) == {i \in 1..Len(s) : s[i] = u}

\* A separator of one character, joined.
LEMMA JoinedByMark ==
  ASSUME NEW C, NEW u \in C, NEW a \in Seq(C), NEW c \in Seq(C)
  PROVE  Halves(C, a \o <<u>> \o c, a, 1, c) /\ (a \o <<u>> \o c)[Len(a) + 1] = u
<1>1. <<u>> \in Seq(C) /\ Len(<<u>>) = 1 /\ <<u>>[1] = u
  OBVIOUS
<1>2. PICK b : b = <<u>>
  OBVIOUS
<1>3. b \in Seq(C) /\ Len(b) = 1 /\ b[1] = u
  BY <1>1, <1>2, Zenon
<1>4. b \in Seq(C)
  BY <1>3
<1>5. PICK s : s = a \o b \o c
  OBVIOUS
<1>6. /\ s \in Seq(C) /\ Len(s) = Len(a) + Len(b) + Len(c)
      /\ \A k \in 1..Len(a) : s[k] = a[k]
      /\ \A k \in 1..Len(b) : s[Len(a) + k] = b[k]
      /\ \A k \in 1..Len(c) : s[Len(a) + Len(b) + k] = c[k]
  BY <1>4, <1>5, Joined
<1>7. Halves(C, s, a, 1, c) /\ s[Len(a) + 1] = u
  BY <1>3, <1>6 DEF Halves
<1> QED BY <1>2, <1>5, <1>7, Zenon

\* A one-character separator is found where its character occurs.
LEMMA MarkAt ==
  ASSUME NEW C, NEW u \in C, NEW s \in Seq(C)
  PROVE  Occurrences(s, <<u>>) = Marks(s, u)
<1> DEFINE mark == <<u>>
<1>1. mark \in Seq(C) /\ Len(mark) = 1 /\ mark[1] = u
  OBVIOUS
<1> HIDE DEF mark
<1>2. \A i : i \in Occurrences(s, mark) <=> i \in 1..Len(s) /\ SubSeq(s, i, i) = mark
  <2>1. Len(s) - Len(mark) + 1 = Len(s)
    BY <1>1
  <2>2. \A i \in 1..Len(s) : i + Len(mark) - 1 = i
    BY <1>1
  <2>3. \A i : i \in Occurrences(s, mark)
                 <=> i \in 1..Len(s) /\ SubSeq(s, i, i + Len(mark) - 1) = mark
    BY <2>1, Zenon DEF Occurrences
  <2> QED BY <2>2, <2>3, Zenon
<1>3. ASSUME NEW i \in 1..Len(s) PROVE SubSeq(s, i, i) = mark <=> s[i] = u
  <2> DEFINE part == SubSeq(s, i, i)
  <2>1. part \in Seq(C) /\ Len(part) = 1 /\ part[1] = s[i]
    <3>1. i \in 1..Len(s) /\ i <= i /\ i - i + 1 = 1 /\ i + 1 - 1 = i
      OBVIOUS
    <3> QED BY <3>1, Slice
  <2> HIDE DEF part
  <2>2. CASE part = mark
    BY <1>1, <2>1, <2>2 DEF part
  <2>3. CASE s[i] = u
    <3>1. \A k \in 1..Len(part) : part[k] = mark[k]
      BY <1>1, <2>1, <2>3
    <3>2. part = mark
      BY <1>1, <2>1, <3>1, SameSequence
    <3> QED BY <2>3, <3>2 DEF part
  <2> QED BY <2>2, <2>3 DEF part
<1>4. Occurrences(s, mark) = Marks(s, u)
  BY <1>2, <1>3, Zenon DEF Marks
<1> QED BY <1>4 DEF mark

\* The first mark is the one after a key that has none.
LEMMA FirstMark ==
  ASSUME NEW C, NEW u, NEW key \in Seq(C), NEW name \in Seq(C),
         \A i \in 1..Len(key) : key[i] # u,
         NEW s, Halves(C, s, key, 1, name), s[Len(key) + 1] = u
  PROVE  Marks(s, u) # {} /\ Least(Marks(s, u)) = Len(key) + 1
<1> USE DEF Halves, Marks
<1> DEFINE found == Marks(s, u)
<1>1. Len(key) \in Nat /\ Len(name) \in Nat
  OBVIOUS
<1>2. Len(key) + 1 \in found
  BY <1>1
<1>3. ASSUME NEW i \in found, i <= Len(key) PROVE FALSE
  <2>1. i \in 1..Len(key) /\ s[i] = u
    BY <1>1, <1>3
  <2> QED BY <2>1
<1>4. found \in SUBSET Int
  OBVIOUS
<1> HIDE DEF found
<1>5. \A i \in found : Len(key) + 1 <= i
  BY <1>1, <1>3, <1>4
<1>6. Least(found) = Len(key) + 1
  BY <1>1, <1>2, <1>4, <1>5, LeastIs
<1> QED BY <1>2, <1>6 DEF found

\* All but the first element.
LEMMA Rest ==
  ASSUME NEW C, NEW s \in Seq(C), s # <<>>
  PROVE  /\ Tail(s) \in Seq(C) /\ Len(Tail(s)) = Len(s) - 1
         /\ \A k \in 1..(Len(s) - 1) : Tail(s)[k] = s[k + 1]
OBVIOUS

\* s is x followed by rest.
Prefixed(s, x, rest) == Tail(s) = rest /\ s # <<>> /\ s[1] = x

\* The scheme in front of a URI comes off.
LEMMA SchemeComesOff ==
  ASSUME NEW C, NEW x \in C, NEW a \in Seq(C), NEW b \in Seq(C), NEW c \in Seq(C)
  PROVE  Prefixed(<<x>> \o a \o b \o c, x, a \o b \o c)
<1>1. PICK h : h = <<x>>
  OBVIOUS
<1>2. h \in Seq(C) /\ Len(h) = 1 /\ h[1] = x
  BY <1>1
<1>3. h \in Seq(C)
  BY <1>2
<1>4. PICK s : s = h \o a \o b \o c
  OBVIOUS
<1>5. PICK t : t = a \o b \o c
  OBVIOUS
<1>6. PICK u : u = h \o a \o b
  OBVIOUS
<1>7. /\ u \in Seq(C) /\ Len(u) = Len(h) + Len(a) + Len(b)
      /\ \A k \in 1..Len(h) : u[k] = h[k]
      /\ \A k \in 1..Len(a) : u[Len(h) + k] = a[k]
      /\ \A k \in 1..Len(b) : u[Len(h) + Len(a) + k] = b[k]
  BY <1>3, <1>6, Joined
<1>8. /\ s \in Seq(C) /\ Len(s) = Len(u) + Len(c)
      /\ \A k \in 1..Len(u) : s[k] = u[k]
      /\ \A k \in 1..Len(c) : s[Len(u) + k] = c[k]
  <2>1. s = u \o c
    BY <1>4, <1>6, Zenon
  <2>2. u \in Seq(C)
    BY <1>7
  <2> QED BY <2>1, <2>2
<1>9. /\ t \in Seq(C) /\ Len(t) = Len(a) + Len(b) + Len(c)
      /\ \A k \in 1..Len(a) : t[k] = a[k]
      /\ \A k \in 1..Len(b) : t[Len(a) + k] = b[k]
      /\ \A k \in 1..Len(c) : t[Len(a) + Len(b) + k] = c[k]
  BY <1>5, Joined
<1>10. Len(s) = Len(t) + 1 /\ s # <<>> /\ s[1] = x
  BY <1>2, <1>7, <1>8, <1>9
<1>11. Tail(s) \in Seq(C) /\ Len(Tail(s)) = Len(t) /\ \A k \in 1..Len(t) : Tail(s)[k] = s[k + 1]
  <2>1. s \in Seq(C) /\ s # <<>> /\ Len(s) - 1 = Len(t)
    <3>1. Len(t) \in Nat
      BY <1>9
    <3>2. Len(s) = Len(t) + 1 /\ s # <<>>
      BY <1>10
    <3>3. s \in Seq(C)
      BY <1>8
    <3>4. Len(s) - 1 = Len(t)
      BY ONLY <3>1, <3>2
    <3> QED BY <3>2, <3>3, <3>4, Zenon
  <2>2. /\ Tail(s) \in Seq(C) /\ Len(Tail(s)) = Len(s) - 1
        /\ \A k \in 1..(Len(s) - 1) : Tail(s)[k] = s[k + 1]
    BY <2>1, Rest
  <2> QED BY <2>1, <2>2
<1>12. ASSUME NEW k \in 1..Len(t) PROVE s[k + 1] = t[k]
  <2>1. CASE k \in 1..Len(a)
    <3>1. k + 1 \in 1..Len(u) /\ k + 1 = Len(h) + k
      BY <1>2, <1>7, <2>1
    <3>2. s[k + 1] = u[k + 1] /\ u[Len(h) + k] = a[k] /\ t[k] = a[k]
      BY <1>7, <1>8, <1>9, <2>1, <3>1
    <3> QED BY <3>1, <3>2
  <2>2. CASE k \in (Len(a) + 1)..(Len(a) + Len(b))
    <3>1. PICK m \in 1..Len(b) : k = Len(a) + m
      <4>1. k - Len(a) \in 1..Len(b) /\ k = Len(a) + (k - Len(a))
        BY <2>2
      <4> QED BY <4>1
    <3>2. k + 1 \in 1..Len(u) /\ k + 1 = Len(h) + Len(a) + m
      BY <1>2, <1>7, <2>2, <3>1
    <3>3. s[k + 1] = u[k + 1] /\ u[Len(h) + Len(a) + m] = b[m] /\ t[Len(a) + m] = b[m]
      BY <1>7, <1>8, <1>9, <3>1, <3>2
    <3> QED BY <3>1, <3>2, <3>3
  <2>3. CASE k \in (Len(a) + Len(b) + 1)..(Len(a) + Len(b) + Len(c))
    <3>1. PICK m \in 1..Len(c) : k = Len(a) + Len(b) + m
      <4>1. k - Len(a) - Len(b) \in 1..Len(c) /\ k = Len(a) + Len(b) + (k - Len(a) - Len(b))
        BY <2>3
      <4> QED BY <4>1
    <3>2. k + 1 = Len(u) + m
      BY <1>2, <1>7, <2>3, <3>1
    <3>3. s[Len(u) + m] = c[m] /\ t[Len(a) + Len(b) + m] = c[m]
      BY <1>8, <1>9, <3>1
    <3> QED BY <3>1, <3>2, <3>3
  <2> QED BY <1>9, <2>1, <2>2, <2>3
<1>13. Tail(s) = t
  BY <1>9, <1>11, <1>12, SameSequence
<1>14. Prefixed(s, x, t)
  BY <1>10, <1>13 DEF Prefixed
<1> QED BY <1>1, <1>4, <1>5, <1>14, Zenon

\* So what remains of an exposed URI is a key, a mark and a URI.
LEMMA UriParts ==
  ASSUME NEW C, NEW x \in C, NEW u \in C, NEW a \in Seq(C), NEW c \in Seq(C)
  PROVE  Prefixed(<<x>> \o a \o <<u>> \o c, x, a \o <<u>> \o c)
<1>1. <<u>> \in Seq(C)
  OBVIOUS
<1>2. PICK b \in Seq(C) : b = <<u>>
  BY <1>1
<1>3. Prefixed(<<x>> \o a \o b \o c, x, a \o b \o c)
  BY SchemeComesOff
<1> QED BY <1>2, <1>3, Zenon

\* A resource exposed under an accepted key leads back to that key and the URI it came
\* from, whatever else the URI holds, slashes and schemes included.
THEOREM UriInverse ==
  ASSUME NEW C, "/" \in C, Scheme \in C, NEW keys, NEW key \in keys, key \in Seq(C),
         NEW uri \in Seq(C), uri # <<>>, AcceptedKey(key)
  PROVE  RouteResourceUri(NamespaceUri(key, uri), keys) = [key |-> key, name |-> uri]
<1> DEFINE full == NamespaceUri(key, uri)
           s == key \o <<"/">> \o uri
           at == Least(Occurrences(s, <<"/">>))
<1>1. PICK u : u = "/"
  OBVIOUS
<1>2. PICK x : x = Scheme
  OBVIOUS
<1>3. u \in C /\ x \in C /\ key \in Seq(C)
  BY <1>1, <1>2, Zenon
<1>5. Tail(full) = s /\ full # <<>> /\ full[1] = Scheme
  <2>1. Prefixed(<<x>> \o key \o <<u>> \o uri, x, key \o <<u>> \o uri)
    BY <1>3, UriParts, Zenon
  <2> QED BY <1>1, <1>2, <2>1, Zenon DEF NamespaceUri, Prefixed
<1>6. Halves(C, s, key, 1, uri) /\ s[Len(key) + 1] = u
  BY <1>1, <1>3, JoinedByMark, Zenon
<1> HIDE DEF s, full
<1>7. s \in Seq(C)
  BY <1>6, Zenon DEF Halves
<1>8. Occurrences(s, <<"/">>) = Marks(s, u)
  BY <1>1, <1>3, <1>7, MarkAt, Zenon
<1>9. /\ key # <<>> /\ uri # <<>> /\ \A i \in 1..Len(key) : key[i] # u
      /\ key \in Seq(C) /\ Halves(C, s, key, 1, uri) /\ s[Len(key) + 1] = u
  BY <1>1, <1>3, <1>6, Zenon DEF AcceptedKey
<1>10. Marks(s, u) # {} /\ Least(Marks(s, u)) = Len(key) + 1
  BY ONLY <1>9, FirstMark
<1>11. SubSeq(s, 1, Len(key)) = key /\ From(s, Len(key) + 1 + 1) = uri
  BY ONLY <1>9, ComesApart
<1>12. Len(key) + 1 > 1 /\ (Len(key) + 1) - 1 = Len(key)
  BY <1>9, NotEmpty, Zenon
<1>13. Occurrences(s, <<"/">>) # {} /\ at = Len(key) + 1
  BY <1>8, <1>10, Zenon
<1>14. at > 1 /\ SubSeq(s, 1, at - 1) = key /\ From(s, at + 1) = uri
  BY <1>11, <1>12, <1>13, Zenon
<1> QED BY <1>5, <1>13, <1>14, Zenon DEF RouteResourceUri, full

=============================================================================
