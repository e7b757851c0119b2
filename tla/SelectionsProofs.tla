-------------------------- MODULE SelectionsProofs ---------------------------
(***************************************************************************)
(* Lemmas on sequences of any length and selections from them.  They rest  *)
(* on induction in the form of a set of numbers that has 0 and the successor  *)
(* of each of its members; a set needs no parameter to be instantiated.    *)
(***************************************************************************)
EXTENDS Selections, SequencesExt, SequenceTheorems, WellFoundedInduction, TLAPS

(* ------------------------------- induction ----------------------------- *)

\* Some numbers, if there are any, have a least one.
LEMMA LeastNumber ==
  ASSUME NEW S, S \subseteq Nat, S # {}
  PROVE  \E i \in S : \A j \in S : i <= j
<1>1. PICK i \in S : \A j \in S : ~(<<j, i>> \in OpToRel(<, Nat))
  BY NatLessThanWellFounded, WFMin
<1>2. \A j \in S : i <= j
  <2> SUFFICES ASSUME NEW j \in S, j < i
               PROVE  FALSE
    BY DEF OpToRel
  <2> QED BY <1>1 DEF OpToRel
<1> QED BY <1>2

\* A set with 0 and the successor of each of its numbers has all numbers.
LEMMA AllNumbers ==
  ASSUME NEW S, 0 \in S, \A n \in Nat : n \in S => n + 1 \in S
  PROVE  Nat \subseteq S
<1> SUFFICES ASSUME Nat \ S # {}
             PROVE  FALSE
  OBVIOUS
<1>1. PICK m \in Nat \ S : \A k \in Nat \ S : m <= k
  BY LeastNumber
<1>2. m # 0 /\ m - 1 \in Nat
  BY <1>1
<1> QED BY <1>1, <1>2

(* ------------------------------ selections ----------------------------- *)

\* The function behind ElementsAt, up to a place.
IsSelection(f, s, places, k) ==
    f = [n \in 0..k |-> IF n = 0 THEN <<>>
                        ELSE IF n \in places THEN Append(f[n - 1], s[n]) ELSE f[n - 1]]

\* There is one.
LEMMA SelectionsExist ==
  ASSUME NEW s, NEW places
  PROVE  \A k \in Nat : \E f : IsSelection(f, s, places, k)
<1> DEFINE S == {k \in Nat : \E f : IsSelection(f, s, places, k)}
<1>1. 0 \in S
  <2> DEFINE f == [n \in 0..0 |-> <<>>]
  <2>1. IsSelection(f, s, places, 0)
    BY DEF IsSelection
  <2> QED BY <2>1
<1>2. ASSUME NEW k \in Nat, k \in S
      PROVE  k + 1 \in S
  <2>1. PICK f : IsSelection(f, s, places, k)
    BY <1>2
  <2> DEFINE last == IF k + 1 \in places THEN Append(f[k], s[k + 1]) ELSE f[k]
             g == [n \in 0..(k + 1) |-> IF n = k + 1 THEN last ELSE f[n]]
  <2>2. \A n \in 0..(k + 1) : g[n] = IF n = 0 THEN <<>>
                                     ELSE IF n \in places THEN Append(g[n - 1], s[n]) ELSE g[n - 1]
    <3> TAKE n \in 0..(k + 1)
    <3>1. CASE n = k + 1
      <4>1. g[n] = last /\ g[n - 1] = f[k] /\ n # 0
        BY <3>1
      <4> QED BY <4>1, <3>1
    <3>2. CASE n # k + 1
      <4>1. n \in 0..k /\ g[n] = f[n] /\ (n # 0 => n - 1 \in 0..k /\ g[n - 1] = f[n - 1])
        BY <3>2
      <4> HIDE DEF g
      <4> QED BY <4>1, <2>1 DEF IsSelection
    <3> QED BY <3>1, <3>2
  <2>3. g = [n \in 0..(k + 1) |-> g[n]]
    OBVIOUS
  <2>4. IsSelection(g, s, places, k + 1)
    <3> HIDE DEF g
    <3> QED BY <2>2, <2>3 DEF IsSelection
  <2> QED BY <2>4
<1>3. Nat \subseteq S
  <2> HIDE DEF S
  <2> QED BY <1>1, <1>2, AllNumbers
<1> QED BY <1>3

\* What ElementsAt is the last value of.
LEMMA ElementsAtIs ==
  ASSUME NEW s, Len(s) \in Nat, NEW places
  PROVE  \E f : IsSelection(f, s, places, Len(s)) /\ ElementsAt(s, places) = f[Len(s)]
<1> DEFINE g == CHOOSE f : IsSelection(f, s, places, Len(s))
<1>1. IsSelection(g, s, places, Len(s))
  BY SelectionsExist
<1>2. ElementsAt(s, places) = g[Len(s)]
  BY DEF ElementsAt, IsSelection
<1> QED BY <1>1, <1>2

\* What appending adds.
LEMMA AppendedElements ==
  ASSUME NEW X, NEW s \in Seq(X), NEW x \in X
  PROVE  ToSet(Append(s, x)) = ToSet(s) \cup {x}
<1> DEFINE t == Append(s, x)
<1>1. /\ t \in Seq(X) /\ DOMAIN t = 1..(Len(s) + 1) /\ DOMAIN s = 1..Len(s)
      /\ t[Len(s) + 1] = x /\ \A i \in DOMAIN s : t[i] = s[i]
  OBVIOUS
<1>2. Len(s) \in Nat
  OBVIOUS
<1> HIDE DEF t
<1>3. \A y \in ToSet(t) : y \in ToSet(s) \cup {x}
  <2> SUFFICES ASSUME NEW i \in DOMAIN t
               PROVE  t[i] \in ToSet(s) \cup {x}
    BY DEF ToSet
  <2>1. i \in DOMAIN s \/ i = Len(s) + 1
    BY <1>1, <1>2
  <2> QED BY <1>1, <2>1 DEF ToSet
<1>4. \A y \in ToSet(s) \cup {x} : y \in ToSet(t)
  <2>1. x \in ToSet(t)
    <3>1. Len(s) + 1 \in DOMAIN t
      BY <1>1, <1>2
    <3> QED BY <1>1, <3>1 DEF ToSet
  <2>2. ASSUME NEW i \in DOMAIN s
        PROVE  s[i] \in ToSet(t)
    <3>1. i \in DOMAIN t
      BY <1>1, <1>2
    <3> QED BY <1>1, <3>1 DEF ToSet
  <2> QED BY <2>1, <2>2 DEF ToSet
<1>5. ToSet(t) = ToSet(s) \cup {x}
  BY <1>3, <1>4
<1> QED BY <1>5 DEF t

\* The elements at those of the places that are not past k.
Chosen(s, places, k) == {s[i] : i \in {j \in places \cap DOMAIN s : j <= k}}

\* The selection is a sequence of the elements at the places, and no others.
LEMMA ElementsAtPlaces ==
  ASSUME NEW X, NEW s \in Seq(X), NEW places
  PROVE  /\ ElementsAt(s, places) \in Seq(X)
         /\ ToSet(ElementsAt(s, places)) = {s[i] : i \in places \cap DOMAIN s}
<1>1. PICK f : IsSelection(f, s, places, Len(s)) /\ ElementsAt(s, places) = f[Len(s)]
  BY ElementsAtIs
<1> DEFINE S == {k \in Nat : k \in 0..Len(s) =>
                    /\ f[k] \in Seq(X)
                    /\ ToSet(f[k]) = Chosen(s, places, k)}
<1>2. 0 \in S
  <2>1. f[0] = <<>>
    BY <1>1 DEF IsSelection
  <2>2. Chosen(s, places, 0) = {}
    BY DEF Chosen
  <2>3. <<>> \in Seq(X) /\ ToSet(<<>>) = {}
    BY DEF ToSet
  <2> QED BY <2>1, <2>2, <2>3
<1>3. ASSUME NEW k \in Nat, k \in S
      PROVE  k + 1 \in S
  <2> SUFFICES ASSUME k + 1 \in 0..Len(s)
               PROVE  /\ f[k + 1] \in Seq(X)
                      /\ ToSet(f[k + 1]) = Chosen(s, places, k + 1)
    OBVIOUS
  <2>1. f[k] \in Seq(X) /\ ToSet(f[k]) = Chosen(s, places, k)
    BY <1>3
  <2>2. k + 1 \in DOMAIN s /\ s[k + 1] \in X
    OBVIOUS
  <2>5. f[k + 1] = IF k + 1 \in places THEN Append(f[k], s[k + 1]) ELSE f[k]
    <3>1. \A n \in 0..Len(s) : f[n] = IF n = 0 THEN <<>>
                                      ELSE IF n \in places THEN Append(f[n - 1], s[n]) ELSE f[n - 1]
      <4> Len(s) \in Nat
        OBVIOUS
      <4> QED BY <1>1 DEF IsSelection
    <3>2. k + 1 # 0 /\ (k + 1) - 1 = k
      OBVIOUS
    <3> HIDE DEF S
    <3> QED BY <3>1, <3>2
  <2>3. CASE k + 1 \in places
    <3>1. f[k + 1] = Append(f[k], s[k + 1])
      BY <2>5, <2>3
    <3>2. Chosen(s, places, k + 1) = Chosen(s, places, k) \cup {s[k + 1]}
      <4>1. \A j \in DOMAIN s : j <= k + 1 <=> j <= k \/ j = k + 1
        OBVIOUS
      <4> QED BY <4>1, <2>2, <2>3 DEF Chosen
    <3>3. ToSet(Append(f[k], s[k + 1])) = ToSet(f[k]) \cup {s[k + 1]}
      BY <2>1, <2>2, AppendedElements
    <3>4. Append(f[k], s[k + 1]) \in Seq(X)
      BY <2>1, <2>2
    <3> QED BY <2>1, <3>1, <3>2, <3>3, <3>4
  <2>4. CASE k + 1 \notin places
    <3>1. f[k + 1] = f[k]
      BY <2>5, <2>4
    <3>2. Chosen(s, places, k + 1) = Chosen(s, places, k)
      <4>1. \A j \in DOMAIN s : j <= k + 1 <=> j <= k \/ j = k + 1
        OBVIOUS
      <4> QED BY <4>1, <2>4 DEF Chosen
    <3> QED BY <2>1, <3>1, <3>2
  <2> QED BY <2>3, <2>4
<1>4. Len(s) \in S
  <2> HIDE DEF S
  <2>1. Nat \subseteq S
    BY <1>2, <1>3, AllNumbers
  <2> QED BY <2>1
<1>5. Chosen(s, places, Len(s)) = {s[i] : i \in places \cap DOMAIN s}
  <2>1. {j \in places \cap DOMAIN s : j <= Len(s)} = places \cap DOMAIN s
    OBVIOUS
  <2> QED BY <2>1 DEF Chosen
<1> QED BY <1>1, <1>4, <1>5

(* ------------------------- parts of a sequence ------------------------- *)

\* The elements of a sequence are its first one and those of the rest.
LEMMA HeadAndTail ==
  ASSUME NEW X, NEW s \in Seq(X), s # <<>>
  PROVE  /\ Head(s) \in X /\ Tail(s) \in Seq(X)
         /\ ToSet(s) = {Head(s)} \cup ToSet(Tail(s))
         /\ Tail(s) = <<>> <=> Len(s) = 1
<1>1. Head(s) \in X /\ Tail(s) \in Seq(X) /\ Len(Tail(s)) = Len(s) - 1 /\ Len(s) \in Nat /\ Len(s) > 0
  OBVIOUS
<1>2. /\ s[1] = Head(s) /\ 1 \in 1..Len(s)
      /\ DOMAIN s = 1..Len(s) /\ DOMAIN Tail(s) = 1..Len(Tail(s))
  BY <1>1
<1>3. \A i \in 1..Len(Tail(s)) : i + 1 \in 1..Len(s) /\ Tail(s)[i] = s[i + 1]
  BY <1>1
<1>4. ASSUME NEW i \in 1..Len(s)
      PROVE  s[i] \in {Head(s)} \cup ToSet(Tail(s))
  <2>1. CASE i = 1
    BY <1>2, <2>1
  <2>2. CASE i # 1
    <3>1. i - 1 \in 1..Len(Tail(s)) /\ s[i] = Tail(s)[i - 1]
      BY <1>1, <2>2
    <3> QED BY <1>2, <3>1 DEF ToSet
  <2> QED BY <2>1, <2>2
<1>5. ToSet(s) = {Head(s)} \cup ToSet(Tail(s))
  BY <1>2, <1>3, <1>4 DEF ToSet
<1>6. Tail(s) = <<>> <=> Len(Tail(s)) = 0
  BY <1>1, EmptySeq
<1> QED BY <1>1, <1>5, <1>6

\* The elements of two sequences, one after the other.
LEMMA JoinedElements ==
  ASSUME NEW X, NEW s \in Seq(X), NEW t \in Seq(X)
  PROVE  s \o t \in Seq(X) /\ ToSet(s \o t) = ToSet(s) \cup ToSet(t)
<1>1. /\ s \o t \in Seq(X) /\ Len(s \o t) = Len(s) + Len(t)
      /\ \A i \in 1..(Len(s) + Len(t)) : (s \o t)[i] = IF i <= Len(s) THEN s[i] ELSE t[i - Len(s)]
  BY ConcatProperties
<1> DEFINE u == s \o t
<1>2. /\ Len(s) \in Nat /\ Len(t) \in Nat /\ DOMAIN s = 1..Len(s) /\ DOMAIN t = 1..Len(t)
      /\ DOMAIN u = 1..(Len(s) + Len(t))
  BY <1>1
<1>3. \A i \in 1..(Len(s) + Len(t)) : u[i] = IF i <= Len(s) THEN s[i] ELSE t[i - Len(s)]
  BY <1>1
<1> HIDE DEF u
<1>4. ToSet(u) \subseteq ToSet(s) \cup ToSet(t)
  <2> SUFFICES ASSUME NEW i \in 1..(Len(s) + Len(t))
               PROVE  u[i] \in ToSet(s) \cup ToSet(t)
    BY <1>2 DEF ToSet
  <2>1. CASE i <= Len(s)
    BY <1>2, <1>3, <2>1 DEF ToSet
  <2>2. CASE ~(i <= Len(s))
    <3>1. i - Len(s) \in 1..Len(t) /\ u[i] = t[i - Len(s)]
      BY <1>2, <1>3, <2>2
    <3> QED BY <1>2, <3>1 DEF ToSet
  <2> QED BY <2>1, <2>2
<1>5. \A i \in 1..Len(s) : u[i] = s[i] /\ i \in DOMAIN u
  BY <1>2, <1>3
<1>6. \A i \in 1..Len(t) : u[Len(s) + i] = t[i] /\ Len(s) + i \in DOMAIN u
  BY <1>2, <1>3
<1>7. ToSet(s) \subseteq ToSet(u) /\ ToSet(t) \subseteq ToSet(u)
  BY <1>2, <1>5, <1>6 DEF ToSet
<1> QED BY <1>1, <1>4, <1>7 DEF u

\* Three sequences after one, in turn.
LEMMA JoinedInTurn ==
  ASSUME NEW S, NEW s \in Seq(S), NEW t \in Seq(S), NEW u \in Seq(S), NEW v \in Seq(S)
  PROVE  s \o (t \o u \o v) = ((s \o t) \o u) \o v
<1>1. t \o u \in Seq(S)
  BY ConcatProperties
<1>2. (s \o (t \o u)) \o v = s \o ((t \o u) \o v)
  BY <1>1
<1>3. (s \o t) \o u = s \o (t \o u)
  OBVIOUS
<1> QED BY <1>2, <1>3

\* One element more of a sequence after another.
LEMMA OneMore ==
  ASSUME NEW X, NEW s \in Seq(X), NEW t \in Seq(X), NEW k \in Nat, k + 1 <= Len(t)
  PROVE  /\ s \o SubSeq(t, 1, k) \in Seq(X)
         /\ s \o SubSeq(t, 1, k + 1) = Append(s \o SubSeq(t, 1, k), t[k + 1])
<1> DEFINE u == SubSeq(t, 1, k)
           e == t[k + 1]
<1>1. Len(t) \in Nat /\ k + 1 \in 1..Len(t) /\ e \in X
  OBVIOUS
<1>2. u \in Seq(X) /\ SubSeq(t, 1, k + 1) = Append(u, e)
  BY <1>1
<1> HIDE DEF u, e
<1>3. s \o u \in Seq(X) /\ s \o Append(u, e) = Append(s \o u, e)
  BY <1>1, <1>2
<1> QED BY <1>2, <1>3 DEF u, e
==============================================================================
