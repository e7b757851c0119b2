----------------------------- MODULE WorkProofs ------------------------------
(***************************************************************************)
(* The conversation of an agent in direct mode, for any length, limits and *)
(* number of calls in an answer: every message goes through trims that     *)
(* leave the newest ones, and the newest messages of a conversation in     *)
(* which each call has its result are one in which each call has its       *)
(* result.                                                                 *)
(***************************************************************************)
EXTENDS DirectLoop, SelectionsProofs, SequenceTheorems, FiniteSetTheorems, TLAPS

(* ----------------------- what a conversation keeps --------------------- *)

Message == [role : {"prompt", "text", "tool", "calls"}, calls : Nat, unanswered : Nat]

\* The newest messages of a conversation, and what they are preceded by.
IsTail(t, s) ==
    \E d \in 0..Len(s) : Len(t) = Len(s) - d /\ \A j \in 1..Len(t) : t[j] = s[j + d]

LEMMA LengthIs ==
  ASSUME NEW s \in Seq(Message)
  PROVE  /\ Len(s) \in Nat /\ DOMAIN s = 1..Len(s) /\ (s = <<>> <=> Len(s) = 0)
         /\ \A i \in 1..Len(s) : s[i] \in Message
<1>1. Len(s) \in Nat /\ DOMAIN s = 1..Len(s) /\ \A i \in 1..Len(s) : s[i] \in Message
  OBVIOUS
<1>2. s = <<>> <=> Len(s) = 0
  BY EmptySeq
<1> QED BY <1>1, <1>2

LEMMA TailOfItself ==
  ASSUME NEW s \in Seq(Message)
  PROVE  IsTail(s, s)
<1>1. 0 \in 0..Len(s) /\ Len(s) = Len(s) - 0 /\ \A j \in 1..Len(s) : s[j] = s[j + 0]
  BY LengthIs
<1> QED BY <1>1 DEF IsTail

LEMMA TailOfTail ==
  ASSUME NEW s \in Seq(Message), NEW t \in Seq(Message), NEW u \in Seq(Message), IsTail(t, s), IsTail(u, t)
  PROVE  IsTail(u, s)
<1>1. PICK d \in 0..Len(s) : Len(t) = Len(s) - d /\ \A j \in 1..Len(t) : t[j] = s[j + d]
  BY DEF IsTail
<1>2. PICK e \in 0..Len(t) : Len(u) = Len(t) - e /\ \A j \in 1..Len(u) : u[j] = t[j + e]
  BY DEF IsTail
<1>3. Len(s) \in Nat /\ Len(t) \in Nat /\ Len(u) \in Nat
  BY LengthIs
<1>4. d + e \in 0..Len(s) /\ Len(u) = Len(s) - (d + e)
  BY <1>1, <1>2, <1>3
<1>5. ASSUME NEW j \in 1..Len(u)
      PROVE  u[j] = s[j + (d + e)]
  <2>1. j + e \in 1..Len(t) /\ (j + e) + d = j + (d + e)
    BY <1>1, <1>2, <1>3
  <2> QED BY <1>1, <1>2, <2>1
<1> QED BY <1>4, <1>5 DEF IsTail

LEMMA TailWithMore ==
  ASSUME NEW s \in Seq(Message), NEW t \in Seq(Message), IsTail(t, s), NEW m \in Message
  PROVE  IsTail(Append(t, m), Append(s, m))
<1>1. PICK d \in 0..Len(s) : Len(t) = Len(s) - d /\ \A j \in 1..Len(t) : t[j] = s[j + d]
  BY DEF IsTail
<1> DEFINE a == Append(t, m)
           b == Append(s, m)
<1>2. /\ Len(a) = Len(t) + 1 /\ a[Len(t) + 1] = m /\ \A j \in 1..Len(t) : a[j] = t[j]
      /\ Len(b) = Len(s) + 1 /\ b[Len(s) + 1] = m /\ \A j \in 1..Len(s) : b[j] = s[j]
      /\ Len(s) \in Nat /\ Len(t) \in Nat
  BY AppendProperties, LengthIs
<1> HIDE DEF a, b
<1>3. d \in 0..Len(b) /\ Len(a) = Len(b) - d
  BY <1>1, <1>2
<1>4. ASSUME NEW j \in 1..Len(a)
      PROVE  a[j] = b[j + d]
  <2>1. CASE j = Len(t) + 1
    <3>1. j + d = Len(s) + 1
      BY <1>1, <1>2, <2>1
    <3> QED BY <1>2, <2>1, <3>1
  <2>2. CASE j # Len(t) + 1
    <3>1. j \in 1..Len(t) /\ j + d \in 1..Len(s)
      BY <1>1, <1>2, <2>2
    <3> QED BY <1>1, <1>2, <3>1
  <2> QED BY <2>1, <2>2
<1> QED BY <1>3, <1>4 DEF IsTail, a, b

\* A tail from a place on.
LEMMA TailFrom ==
  ASSUME NEW s \in Seq(Message), NEW f \in 1..(Len(s) + 1)
  PROVE  /\ SubSeq(s, f, Len(s)) \in Seq(Message) /\ IsTail(SubSeq(s, f, Len(s)), s)
         /\ Len(SubSeq(s, f, Len(s))) = Len(s) + 1 - f
         /\ \A j \in 1..(Len(s) + 1 - f) : SubSeq(s, f, Len(s))[j] = s[f + j - 1]
<1> DEFINE n == Len(s)
           t == SubSeq(s, f, n)
<1>1. n \in Nat /\ f \in Int /\ n \in Int /\ \A i \in f..n : s[i] \in Message
  BY LengthIs
<1> HIDE DEF n, t
<1>2. /\ SubSeq(s, f, n) \in Seq(Message)
      /\ Len(SubSeq(s, f, n)) = IF f <= n THEN n - f + 1 ELSE 0
      /\ \A i \in 1..(n - f + 1) : SubSeq(s, f, n)[i] = s[f + i - 1]
  BY <1>1, SubSeqProperties
<1>3. f - 1 \in 0..n /\ Len(t) = n - (f - 1) /\ \A j \in 1..Len(t) : t[j] = s[j + (f - 1)]
  <2>1. f \in 1..(n + 1)
    BY DEF n
  <2>2. Len(t) = n - (f - 1) /\ f - 1 \in 0..n
    BY <1>1, <1>2, <2>1 DEF t
  <2>3. ASSUME NEW j \in 1..Len(t)
        PROVE  t[j] = s[j + (f - 1)]
    <3>1. j \in 1..(n - f + 1) /\ j + (f - 1) = f + j - 1
      BY <1>1, <2>1, <2>2
    <3> QED BY <1>2, <3>1 DEF t
  <2> QED BY <2>2, <2>3
<1>4. IsTail(t, s)
  BY <1>3 DEF IsTail, n
<1>5. Len(t) = n + 1 - f /\ n + 1 - f = n - f + 1
  BY <1>1, <1>3
<1> QED BY <1>2, <1>4, <1>5 DEF n, t

LEMMA NothingIsTail ==
  ASSUME NEW s \in Seq(Message)
  PROVE  <<>> \in Seq(Message) /\ IsTail(<<>>, s)
<1>1. Len(s) \in Nat /\ Len(<<>>) = 0
  BY LengthIs
<1>2. Len(s) \in 0..Len(s) /\ Len(<<>>) = Len(s) - Len(s) /\ \A j \in 1..Len(<<>>) : <<>>[j] = s[j + Len(s)]
  BY <1>1
<1> QED BY <1>2 DEF IsTail

\* The least of some places.
LEMMA FirstPlace ==
  ASSUME NEW S, S \subseteq Nat, S # {}
  PROVE  Min(S) \in S
<1>1. \E x \in S : \A y \in S : x <= y
  BY LeastNumber
<1> QED BY <1>1 DEF Min

LEMMA TrimIsTail ==
  ASSUME NEW ms \in Seq(Message)
  PROVE  Trim(ms) \in Seq(Message) /\ IsTail(Trim(ms), ms)
<1> DEFINE over  == Len(ms) - MaxMessages
           clean == {i \in DOMAIN ms : i > over /\ ms[i].role \notin {"tool", "calls"}}
<1>1. CASE Trim(ms) = ms
  BY <1>1, TailOfItself
<1>2. CASE Trim(ms) = <<>>
  BY <1>2, NothingIsTail
<1>3. CASE clean # {} /\ Trim(ms) = SubSeq(ms, Min(clean), Len(ms))
  <2> DEFINE f == Min(clean)
  <2>1. clean \subseteq 1..Len(ms) /\ Len(ms) \in Nat
    BY LengthIs
  <2>2. f \in clean
    <3> HIDE DEF clean
    <3>1. clean \subseteq Nat
      BY <2>1
    <3> QED BY <1>3, <3>1, FirstPlace
  <2> HIDE DEF clean, f
  <2>3. f \in 1..(Len(ms) + 1)
    BY <2>1, <2>2
  <2> QED BY <1>3, <2>3, TailFrom DEF f
<1> QED BY <1>1, <1>2, <1>3 DEF Trim

LEMMA TrimOldestIsTail ==
  ASSUME NEW ms \in Seq(Message)
  PROVE  TrimOldest(ms) \in Seq(Message) /\ IsTail(TrimOldest(ms), ms)
<1> DEFINE rest == SubSeq(ms, TrimBy + 1, Len(ms))
           kept == {i \in DOMAIN rest : rest[i].role # "tool"}
<1>1. CASE TrimOldest(ms) = ms
  BY <1>1, TailOfItself
<1>2. CASE TrimOldest(ms) = <<>>
  BY <1>2, NothingIsTail
<1>3. CASE ~(Len(ms) <= TrimBy) /\ kept # {} /\ TrimOldest(ms) = SubSeq(rest, Min(kept), Len(rest))
  <2>1. TrimBy + 1 \in 1..(Len(ms) + 1)
    <3>1. TrimBy \in Nat
      BY LoopAssumption
    <3>2. Len(ms) \in Nat
      BY LengthIs
    <3> QED BY <1>3, <3>1, <3>2
  <2>2. rest \in Seq(Message) /\ IsTail(rest, ms)
    BY <2>1, TailFrom
  <2>3. kept \subseteq 1..Len(rest) /\ Len(rest) \in Nat
    BY <2>2, LengthIs
  <2>4. Min(kept) \in kept
    <3> HIDE DEF kept
    <3>1. kept \subseteq Nat
      BY <2>3
    <3> QED BY <1>3, <3>1, FirstPlace
  <2> DEFINE f == Min(kept)
  <2>5. f \in 1..(Len(rest) + 1)
    <3>1. f \in 1..Len(rest)
      BY <2>3, <2>4
    <3> HIDE DEF rest, f
    <3> QED BY <2>3, <3>1
  <2> HIDE DEF rest, f
  <2>6. SubSeq(rest, f, Len(rest)) \in Seq(Message) /\ IsTail(SubSeq(rest, f, Len(rest)), rest)
    BY <2>2, <2>5, TailFrom
  <2> QED BY <1>3, <2>2, <2>6, TailOfTail DEF f
<1>5. TrimOldest(ms) = IF Len(ms) <= TrimBy THEN ms ELSE IF kept = {} THEN <<>> ELSE SubSeq(rest, Min(kept), Len(rest))
  BY DEF TrimOldest
<1> DEFINE cut == SubSeq(rest, Min(kept), Len(rest))
<1> HIDE DEF kept, cut, rest
<1>6. \/ TrimOldest(ms) = ms \/ TrimOldest(ms) = <<>>
      \/ ~(Len(ms) <= TrimBy) /\ kept # {} /\ TrimOldest(ms) = cut
  BY <1>5, Zenon DEF cut
<1> QED BY <1>1, <1>2, <1>3, <1>6 DEF cut

(* ------------------------- messages one by one ------------------------- *)

\* The function behind AddAll, up to a place.
IsAdding(f, ms, added, k) ==
    f = [n \in 0..k |-> IF n = 0 THEN ms ELSE Add(f[n - 1], added[n])]

LEMMA AddingExists ==
  ASSUME NEW ms, NEW added
  PROVE  \A k \in Nat : \E f : IsAdding(f, ms, added, k)
<1> DEFINE S == {k \in Nat : \E f : IsAdding(f, ms, added, k)}
<1>1. 0 \in S
  <2> DEFINE f == [n \in 0..0 |-> ms]
  <2>1. IsAdding(f, ms, added, 0)
    BY DEF IsAdding
  <2> QED BY <2>1
<1>2. ASSUME NEW k \in Nat, k \in S
      PROVE  k + 1 \in S
  <2>1. PICK f : IsAdding(f, ms, added, k)
    BY <1>2
  <2> DEFINE last == Add(f[k], added[k + 1])
             g == [n \in 0..(k + 1) |-> IF n = k + 1 THEN last ELSE f[n]]
  <2>2. \A n \in 0..(k + 1) : g[n] = IF n = 0 THEN ms ELSE Add(g[n - 1], added[n])
    <3> TAKE n \in 0..(k + 1)
    <3>1. CASE n = k + 1
      BY <3>1
    <3>2. CASE n # k + 1
      <4>1. n \in 0..k /\ (n # 0 => n - 1 \in 0..k /\ n - 1 # k + 1)
        BY <3>2
      <4>2. f[n] = IF n = 0 THEN ms ELSE Add(f[n - 1], added[n])
        BY <2>1, <4>1 DEF IsAdding
      <4> QED BY <4>1, <4>2, <3>2
    <3> QED BY <3>1, <3>2
  <2>3. IsAdding(g, ms, added, k + 1)
    BY <2>2 DEF IsAdding
  <2> QED BY <2>3
<1> HIDE DEF S
<1>3. Nat \subseteq S
  BY <1>1, <1>2, AllNumbers
<1> QED BY <1>3 DEF S

\* Whatever is added, what is left are the newest of all messages.
LEMMA AddAllIsTail ==
  ASSUME NEW ms \in Seq(Message), NEW added \in Seq(Message)
  PROVE  AddAll(ms, added) \in Seq(Message) /\ IsTail(AddAll(ms, added), ms \o added)
<1> DEFINE n == Len(added)
           f == CHOOSE f : IsAdding(f, ms, added, n)
<1>1. n \in Nat /\ DOMAIN added = 1..n
  BY LengthIs
<1>2. IsAdding(f, ms, added, n)
  BY <1>1, AddingExists
<1>3. AddAll(ms, added) = f[n]
  BY DEF AddAll, IsAdding
<1> HIDE DEF f, n
<1>4. \A k \in 0..n : f[k] = IF k = 0 THEN ms ELSE Add(f[k - 1], added[k])
  BY <1>2 DEF IsAdding
<1> DEFINE Ok(k) == f[k] \in Seq(Message) /\ IsTail(f[k], ms \o SubSeq(added, 1, k))
           S == {k \in Nat : k <= n => Ok(k)}
<1>5. 0 \in S
  <2>1. SubSeq(added, 1, 0) = <<>> /\ ms \o <<>> = ms /\ f[0] = ms
    BY <1>1, <1>4, ConcatEmptySeq
  <2> QED BY <2>1, TailOfItself
<1>6. ASSUME NEW k \in Nat, k \in S
      PROVE  k + 1 \in S
  <2> SUFFICES ASSUME k + 1 <= n
               PROVE  Ok(k + 1)
    OBVIOUS
  <2>1. Ok(k) /\ k \in 0..n /\ k + 1 \in 1..n
    BY <1>1, <1>6
  <2> DEFINE m == added[k + 1]
             before == ms \o SubSeq(added, 1, k)
  <2>2. m \in Message /\ f[k + 1] = Trim(Append(f[k], m))
    BY <1>1, <1>4, <2>1 DEF Add
  <2>4. before \in Seq(Message) /\ ms \o SubSeq(added, 1, k + 1) = Append(before, m)
    BY OneMore DEF n
  <2> HIDE DEF m, before
  <2>5. Append(f[k], m) \in Seq(Message) /\ Append(before, m) \in Seq(Message)
    BY <2>1, <2>2, <2>4
  <2>6. IsTail(Append(f[k], m), Append(before, m))
    BY <2>1, <2>2, <2>4, TailWithMore DEF before
  <2>7. f[k + 1] \in Seq(Message) /\ IsTail(f[k + 1], Append(f[k], m))
    BY <2>2, <2>5, TrimIsTail
  <2>8. IsTail(f[k + 1], Append(before, m))
    BY <2>5, <2>6, <2>7, TailOfTail
  <2> QED BY <2>4, <2>7, <2>8
<1>7. n \in S
  <2> HIDE DEF S
  <2>1. Nat \subseteq S
    BY <1>5, <1>6, AllNumbers
  <2> QED BY <1>1, <2>1
<1>8. SubSeq(added, 1, n) = added
  BY SubSeqFull DEF n
<1>9. Ok(n)
  BY <1>1, <1>7
<1> QED BY <1>3, <1>8, <1>9

(* -------------------------- calls and results -------------------------- *)

\* Each call has its result, but for those of the newest answer still open
\* and those that never get one; a text has none.
Balanced(ms, open) ==
    \A i \in DOMAIN ms : IsAnswer(ms[i]) =>
        Cardinality(ResultsOf(ms, i)) + (IF NewestAnswer(ms, i) THEN open ELSE 0) + ms[i].unanswered = ms[i].calls

LEMMA ResultsFinite ==
  ASSUME NEW ms \in Seq(Message), NEW i
  PROVE  ResultsOf(ms, i) \subseteq 1..Len(ms) /\ IsFiniteSet(ResultsOf(ms, i)) /\ Cardinality(ResultsOf(ms, i)) \in Nat
<1>1. ResultsOf(ms, i) \subseteq 1..Len(ms) /\ Len(ms) \in Nat
  BY LengthIs DEF ResultsOf
<1>2. IsFiniteSet(1..Len(ms))
  BY <1>1, 1 \in Int, FS_Interval
<1>3. IsFiniteSet(ResultsOf(ms, i))
  BY <1>1, <1>2, FS_Subset
<1> QED BY <1>1, <1>3, FS_CardinalityType

\* Some numbers, all moved by as much, are as many.
LEMMA MovedAlike ==
  ASSUME NEW S, NEW T, S \subseteq Int, IsFiniteSet(S), NEW d \in Int, T = {j - d : j \in S}
  PROVE  Cardinality(T) = Cardinality(S)
<1> DEFINE f == [j \in S |-> j - d]
<1>1. f \in [S -> T] /\ (\A j, k \in S : f[j] = f[k] => j = k) /\ \A t \in T : \E j \in S : f[j] = t
  <2>1. DOMAIN f = S /\ f = [j \in S |-> f[j]] /\ \A j \in S : f[j] = j - d /\ f[j] \in T
    OBVIOUS
  <2> HIDE DEF f
  <2>2. f \in [S -> T]
    BY <2>1
  <2>3. \A j, k \in S : f[j] = f[k] => j = k
    BY <2>1
  <2>4. \A t \in T : \E j \in S : f[j] = t
    BY <2>1
  <2> QED BY <2>2, <2>3, <2>4
<1> HIDE DEF f
<1>2. f \in Bijection(S, T)
  BY <1>1 DEF Bijection, Injection, Surjection, IsInjective
<1>3. ExistsBijection(S, T)
  BY <1>2 DEF ExistsBijection
<1> QED BY <1>3, FS_Bijection

\* Where the messages from i on are those of another conversation from i + d
\* on, its results are.
LEMMA ResultsMoved ==
  ASSUME NEW s \in Seq(Message), NEW t \in Seq(Message), NEW d \in Int, Len(s) = Len(t) + d,
         NEW i \in 1..Len(t), i + d \in 1..Len(s),
         \A j \in 1..Len(t) : j > i => t[j] = s[j + d]
  PROVE  /\ Cardinality(ResultsOf(t, i)) = Cardinality(ResultsOf(s, i + d))
         /\ NewestAnswer(t, i) <=> NewestAnswer(s, i + d)
<1>1. Len(s) \in Nat /\ Len(t) \in Nat /\ DOMAIN s = 1..Len(s) /\ DOMAIN t = 1..Len(t)
  BY LengthIs
<1>2. /\ \A j \in 1..Len(t) : j > i => j + d \in 1..Len(s) /\ j + d > i + d
      /\ \A k \in 1..Len(s) : k > i + d => k - d \in 1..Len(t) /\ k - d > i /\ (k - d) + d = k
  BY <1>1
<1>3. \A k \in 1..Len(s) : k > i + d => s[k] = t[k - d]
  BY <1>2
<1>4. NewestAnswer(t, i) <=> NewestAnswer(s, i + d)
  <2>1. ASSUME NewestAnswer(t, i)
        PROVE  NewestAnswer(s, i + d)
    BY <1>1, <1>2, <1>3, <2>1 DEF NewestAnswer
  <2>2. ASSUME NewestAnswer(s, i + d)
        PROVE  NewestAnswer(t, i)
    BY <1>1, <1>2, <2>2 DEF NewestAnswer
  <2> QED BY <2>1, <2>2
<1>5. ResultsOf(t, i) = {j - d : j \in ResultsOf(s, i + d)}
  <2>1. ASSUME NEW j \in ResultsOf(s, i + d)
        PROVE  j - d \in ResultsOf(t, i)
    <3>1. /\ j \in 1..Len(s) /\ j > i + d /\ s[j].role = "tool"
          /\ \A k \in 1..Len(s) : k > i + d /\ IsAnswer(s[k]) => j < k
      BY <1>1 DEF ResultsOf
    <3>2. j - d \in 1..Len(t) /\ j - d > i /\ t[j - d].role = "tool"
      BY <1>2, <1>3, <3>1
    <3>3. ASSUME NEW k \in 1..Len(t), k > i, IsAnswer(t[k])
          PROVE  j - d < k
      <4>1. k + d \in 1..Len(s) /\ k + d > i + d /\ IsAnswer(s[k + d])
        BY <1>2, <3>3
      <4>2. j < k + d
        BY <3>1, <4>1
      <4> QED BY <1>1, <3>1, <4>2
    <3> QED BY <1>1, <3>2, <3>3 DEF ResultsOf
  <2>2. ASSUME NEW j \in ResultsOf(t, i)
        PROVE  j + d \in ResultsOf(s, i + d) /\ (j + d) - d = j
    <3>1. /\ j \in 1..Len(t) /\ j > i /\ t[j].role = "tool"
          /\ \A k \in 1..Len(t) : k > i /\ IsAnswer(t[k]) => j < k
      BY <1>1 DEF ResultsOf
    <3>2. j + d \in 1..Len(s) /\ j + d > i + d /\ s[j + d].role = "tool"
      BY <1>2, <3>1
    <3>3. ASSUME NEW k \in 1..Len(s), k > i + d, IsAnswer(s[k])
          PROVE  j + d < k
      <4>1. k - d \in 1..Len(t) /\ k - d > i /\ IsAnswer(t[k - d])
        BY <1>2, <1>3, <3>3
      <4>2. j < k - d
        BY <3>1, <4>1
      <4> QED BY <1>1, <3>1, <4>2
    <3>4. (j + d) - d = j
      BY <3>1
    <3> QED BY <1>1, <3>2, <3>3, <3>4 DEF ResultsOf
  <2>3. ResultsOf(t, i) \subseteq {j - d : j \in ResultsOf(s, i + d)}
    BY <2>2
  <2> QED BY <2>1, <2>3
<1>6. ResultsOf(s, i + d) \subseteq Int /\ IsFiniteSet(ResultsOf(s, i + d))
  BY <1>1, ResultsFinite
<1> QED BY <1>4, <1>5, <1>6, MovedAlike

\* Nothing changes by what is dropped in front,
LEMMA TailBalanced ==
  ASSUME NEW s \in Seq(Message), NEW t \in Seq(Message), IsTail(t, s), NEW open, Balanced(s, open)
  PROVE  Balanced(t, open)
<1>1. PICK d \in 0..Len(s) : Len(t) = Len(s) - d /\ \A j \in 1..Len(t) : t[j] = s[j + d]
  BY DEF IsTail
<1>2. Len(s) \in Nat /\ Len(t) \in Nat /\ DOMAIN s = 1..Len(s) /\ DOMAIN t = 1..Len(t)
  BY LengthIs
<1>3. d \in Int /\ Len(s) = Len(t) + d
  BY <1>1, <1>2
<1>4. ASSUME NEW i \in DOMAIN t, IsAnswer(t[i])
      PROVE  Cardinality(ResultsOf(t, i)) + (IF NewestAnswer(t, i) THEN open ELSE 0) + t[i].unanswered = t[i].calls
  <2>1. i \in 1..Len(t) /\ i + d \in 1..Len(s) /\ t[i] = s[i + d]
    BY <1>1, <1>2, <1>3
  <2>2. /\ Cardinality(ResultsOf(t, i)) = Cardinality(ResultsOf(s, i + d))
        /\ NewestAnswer(t, i) <=> NewestAnswer(s, i + d)
    BY <1>1, <1>3, <2>1, ResultsMoved
  <2> QED BY <1>2, <1>4, <2>1, <2>2 DEF Balanced
<1> QED BY <1>4 DEF Balanced

\* by a prompt in front,
LEMMA PromptInFront ==
  ASSUME NEW s \in Seq(Message), NEW m \in Message, m.role = "prompt", NEW open, Balanced(s, open)
  PROVE  <<m>> \o s \in Seq(Message) /\ Balanced(<<m>> \o s, open)
<1> DEFINE t == <<m>> \o s
<1>0. <<m>> \in Seq(Message) /\ Len(<<m>>) = 1 /\ <<m>>[1] = m
  OBVIOUS
<1>1. /\ t \in Seq(Message) /\ Len(t) = Len(s) + 1 /\ t[1] = m /\ \A j \in 1..Len(t) : j > 1 => t[j] = s[j - 1]
      /\ Len(s) \in Nat /\ DOMAIN s = 1..Len(s) /\ DOMAIN t = 1..Len(t)
  <2>1. /\ t \in Seq(Message) /\ Len(t) = 1 + Len(s)
        /\ \A i \in 1..(1 + Len(s)) : t[i] = IF i <= 1 THEN <<m>>[i] ELSE s[i - 1]
    BY <1>0, ConcatProperties
  <2> HIDE DEF t
  <2> QED BY <1>0, <2>1, LengthIs
<1> HIDE DEF t
<1>2. ASSUME NEW i \in DOMAIN t, IsAnswer(t[i])
      PROVE  Cardinality(ResultsOf(t, i)) + (IF NewestAnswer(t, i) THEN open ELSE 0) + t[i].unanswered = t[i].calls
  <2>1. i # 1 /\ i \in 1..Len(t)
    BY <1>1, <1>2 DEF IsAnswer
  <2>2. i + (-1) \in 1..Len(s) /\ t[i] = s[i + (-1)] /\ Len(s) = Len(t) + (-1) /\ -1 \in Int
    BY <1>1, <2>1
  <2>3. \A j \in 1..Len(t) : j > i => t[j] = s[j + (-1)]
    BY <1>1, <2>1
  <2>4. /\ Cardinality(ResultsOf(t, i)) = Cardinality(ResultsOf(s, i + (-1)))
        /\ NewestAnswer(t, i) <=> NewestAnswer(s, i + (-1))
    BY <1>1, <2>1, <2>2, <2>3, ResultsMoved
  <2> QED BY <1>1, <1>2, <2>2, <2>4 DEF Balanced
<1>3. Balanced(t, open)
  BY <1>2 DEF Balanced
<1> QED BY <1>1, <1>3 DEF t

\* or by a prompt at the end; a result there counts, and so do the calls of
\* an answer when no call is open.
LEMMA MoreBalanced ==
  ASSUME NEW s \in Seq(Message), NEW m \in Message, NEW open \in Nat, Balanced(s, open)
  PROVE  /\ m.role = "prompt" => Balanced(Append(s, m), open)
         /\ m.role = "tool" /\ open > 0 => Balanced(Append(s, m), open - 1)
         /\ \A after \in Nat :
              IsAnswer(m) /\ open = 0 /\ m.calls = after + m.unanswered => Balanced(Append(s, m), after)
<1> DEFINE t == Append(s, m)
           n == Len(s)
<1>1. /\ t \in Seq(Message) /\ Len(t) = n + 1 /\ t[n + 1] = m /\ \A j \in 1..n : t[j] = s[j]
      /\ n \in Nat /\ DOMAIN s = 1..n /\ DOMAIN t = 1..(n + 1)
  BY AppendProperties, LengthIs
<1> HIDE DEF t, n
<1>2. ASSUME NEW i \in 1..n
      PROVE  /\ NewestAnswer(t, i) <=> NewestAnswer(s, i) /\ ~IsAnswer(m)
             /\ m.role = "tool" /\ NewestAnswer(s, i) => ResultsOf(t, i) = ResultsOf(s, i) \cup {n + 1}
             /\ ~(m.role = "tool" /\ NewestAnswer(s, i)) => ResultsOf(t, i) = ResultsOf(s, i)
  <2>1. n + 1 > i /\ \A j \in 1..n : j < n + 1
    BY <1>1
  <2>2. NewestAnswer(t, i) <=> NewestAnswer(s, i) /\ ~IsAnswer(m)
    BY <1>1, <2>1 DEF NewestAnswer
  <2>3. \A j \in 1..n : j \in ResultsOf(t, i) <=> j \in ResultsOf(s, i)
    BY <1>1, <2>1 DEF ResultsOf
  <2>4. n + 1 \in ResultsOf(t, i) <=> m.role = "tool" /\ NewestAnswer(s, i)
    <3>1. ASSUME n + 1 \in ResultsOf(t, i)
          PROVE  m.role = "tool" /\ NewestAnswer(s, i)
      BY <1>1, <2>1, <3>1 DEF ResultsOf, NewestAnswer
    <3>2. ASSUME m.role = "tool", NewestAnswer(s, i)
          PROVE  n + 1 \in ResultsOf(t, i)
      BY <1>1, <2>1, <3>2 DEF ResultsOf, NewestAnswer, IsAnswer
    <3> QED BY <3>1, <3>2
  <2>5. ResultsOf(t, i) \subseteq 1..(n + 1) /\ ResultsOf(s, i) \subseteq 1..n
    BY <1>1 DEF ResultsOf
  <2>6. ASSUME m.role = "tool", NewestAnswer(s, i)
        PROVE  ResultsOf(t, i) = ResultsOf(s, i) \cup {n + 1}
    <3>1. \A j \in 1..(n + 1) : j \in ResultsOf(t, i) <=> j \in ResultsOf(s, i) \/ j = n + 1
      <4> TAKE j \in 1..(n + 1)
      <4>1. j \in 1..n \/ j = n + 1
        BY <1>1
      <4> QED BY <2>3, <2>4, <2>6, <4>1
    <3>2. n + 1 \in 1..(n + 1) /\ 1..n \subseteq 1..(n + 1)
      BY <1>1
    <3> QED BY <2>5, <3>1, <3>2
  <2>7. ASSUME ~(m.role = "tool" /\ NewestAnswer(s, i))
        PROVE  ResultsOf(t, i) = ResultsOf(s, i)
    <3>1. n + 1 \notin ResultsOf(t, i)
      BY <2>4, <2>7
    <3>2. \A j \in ResultsOf(t, i) : j \in 1..n
      BY <1>1, <2>5, <3>1
    <3> QED BY <2>3, <2>5, <3>2
  <2> QED BY <2>2, <2>6, <2>7
<1>3. ResultsOf(t, n + 1) = {} /\ NewestAnswer(t, n + 1)
  BY <1>1 DEF ResultsOf, NewestAnswer
<1>4. Cardinality({}) = 0
  BY FS_EmptySet
<1>5. ASSUME NEW i \in 1..n
      PROVE  /\ IsFiniteSet(ResultsOf(s, i)) /\ Cardinality(ResultsOf(s, i)) \in Nat
             /\ Cardinality(ResultsOf(s, i) \cup {n + 1}) = Cardinality(ResultsOf(s, i)) + 1
  <2>1. IsFiniteSet(ResultsOf(s, i)) /\ Cardinality(ResultsOf(s, i)) \in Nat /\ ResultsOf(s, i) \subseteq 1..n
    BY ResultsFinite DEF n
  <2>2. n + 1 \notin ResultsOf(s, i)
    BY <1>1, <2>1
  <2> QED BY <2>1, <2>2, FS_AddElement
<1>6. ASSUME NEW i \in 1..n, IsAnswer(s[i])
      PROVE  /\ Cardinality(ResultsOf(s, i)) + (IF NewestAnswer(s, i) THEN open ELSE 0) + s[i].unanswered = s[i].calls
             /\ s[i].unanswered \in Nat /\ s[i].calls \in Nat
  <2>1. s[i] \in Message
    BY LengthIs DEF n
  <2> QED BY <1>1, <1>6, <2>1 DEF Balanced, Message
<1>7. ASSUME NEW after \in Nat,
             IsAnswer(m) => m.calls = after + m.unanswered,
             \A i \in 1..n : IsAnswer(s[i]) =>
               Cardinality(ResultsOf(t, i)) + (IF NewestAnswer(t, i) THEN after ELSE 0) + s[i].unanswered = s[i].calls
      PROVE  Balanced(t, after)
  <2> SUFFICES ASSUME NEW i \in 1..(n + 1), IsAnswer(t[i])
               PROVE  Cardinality(ResultsOf(t, i)) + (IF NewestAnswer(t, i) THEN after ELSE 0) + t[i].unanswered
                        = t[i].calls
    BY <1>1 DEF Balanced
  <2>1. CASE i = n + 1
    <3>1. t[i] = m /\ m.calls = after + m.unanswered
      BY <1>1, <1>7, <2>1
    <3>2. Cardinality(ResultsOf(t, i)) = 0 /\ NewestAnswer(t, i)
      BY <1>3, <1>4, <2>1
    <3>3. m.unanswered \in Nat
      BY DEF Message
    <3>4. 0 + after + m.unanswered = after + m.unanswered
      BY <1>7, <3>3
    <3> QED BY <3>1, <3>2, <3>4
  <2>2. CASE i # n + 1
    <3>1. i \in 1..n
      BY <1>1, <2>2
    <3> QED BY <1>1, <1>7, <3>1
  <2> QED BY <2>1, <2>2
<1>8. ASSUME m.role = "prompt"
      PROVE  Balanced(t, open)
  BY <1>2, <1>6, <1>7, <1>8 DEF IsAnswer
<1>9. ASSUME m.role = "tool", open > 0
      PROVE  Balanced(t, open - 1)
  <2> SUFFICES ASSUME NEW i \in 1..n, IsAnswer(s[i])
               PROVE  Cardinality(ResultsOf(t, i)) + (IF NewestAnswer(t, i) THEN open - 1 ELSE 0) + s[i].unanswered
                        = s[i].calls
    <3>1. open - 1 \in Nat /\ ~IsAnswer(m)
      BY <1>9 DEF IsAnswer
    <3> QED BY <1>7, <3>1
  <2>1. NewestAnswer(t, i) <=> NewestAnswer(s, i)
    BY <1>2, <1>9 DEF IsAnswer
  <2>2. CASE NewestAnswer(s, i)
    BY <1>2, <1>5, <1>6, <1>9, <2>1, <2>2
  <2>3. CASE ~NewestAnswer(s, i)
    BY <1>2, <1>5, <1>6, <1>9, <2>1, <2>3
  <2> QED BY <2>2, <2>3
<1>10. ASSUME NEW after \in Nat, IsAnswer(m), open = 0, m.calls = after + m.unanswered
       PROVE  Balanced(t, after)
  <2>1. ASSUME NEW i \in 1..n, IsAnswer(s[i])
        PROVE  Cardinality(ResultsOf(t, i)) + (IF NewestAnswer(t, i) THEN after ELSE 0) + s[i].unanswered = s[i].calls
    <3>1. ~NewestAnswer(t, i) /\ ResultsOf(t, i) = ResultsOf(s, i)
      BY <1>2, <1>10 DEF IsAnswer
    <3> QED BY <1>5, <1>6, <1>10, <2>1, <3>1
  <2> QED BY <1>7, <1>10, <2>1
<1> QED BY <1>8, <1>9, <1>10 DEF t

\* The user's side has the last word, or denied every call of the last answer.
EndsOnUser(ms) ==
    \/ ms = <<>> \/ ~IsAnswer(ms[Len(ms)])
    \/ ms[Len(ms)].calls > 0 /\ ms[Len(ms)].unanswered = ms[Len(ms)].calls

\* A call that stays without a result is open no more.
LEMMA LeftOpenBalanced ==
  ASSUME NEW s \in Seq(Message), NEW open \in Nat, open > 0, Balanced(s, open)
  PROVE  /\ LeftOpen(s) \in Seq(Message) /\ Balanced(LeftOpen(s), open - 1)
         /\ open = 1 => EndsOnUser(LeftOpen(s))
<1> DEFINE t == LeftOpen(s)
           n == Len(s)
<1>1. n \in Nat /\ DOMAIN s = 1..n /\ \A i \in 1..n : s[i] \in Message
  BY LengthIs
<1>2. DOMAIN t = 1..n
  BY <1>1 DEF LeftOpen
<1>3. ASSUME NEW i \in 1..n
      PROVE  /\ t[i] \in Message /\ t[i].role = s[i].role /\ t[i].calls = s[i].calls
             /\ (IsAnswer(t[i]) <=> IsAnswer(s[i]))
             /\ t[i].unanswered = IF IsAnswer(s[i]) /\ NewestAnswer(s, i) THEN s[i].unanswered + 1 ELSE s[i].unanswered
             /\ s[i].unanswered \in Nat /\ s[i].calls \in Nat
  <2>1. s[i] \in Message /\ t[i] = IF IsAnswer(s[i]) /\ NewestAnswer(s, i)
                                   THEN [s[i] EXCEPT !.unanswered = s[i].unanswered + 1] ELSE s[i]
    BY <1>1 DEF LeftOpen
  <2> HIDE DEF t
  <2> QED BY <2>1 DEF Message, IsAnswer
<1>4. t \in Seq(Message) /\ Len(t) = n
  <2>1. t = [i \in 1..n |-> t[i]]
    BY <1>1 DEF LeftOpen
  <2> HIDE DEF t
  <2> QED BY <1>1, <1>3, <2>1
<1> HIDE DEF t
<1>5. ASSUME NEW i \in 1..n
      PROVE  ResultsOf(t, i) = ResultsOf(s, i) /\ (NewestAnswer(t, i) <=> NewestAnswer(s, i))
  BY <1>1, <1>2, <1>3 DEF ResultsOf, NewestAnswer
<1>6. ASSUME NEW i \in 1..n, IsAnswer(t[i])
      PROVE  Cardinality(ResultsOf(t, i)) + (IF NewestAnswer(t, i) THEN open - 1 ELSE 0) + t[i].unanswered = t[i].calls
  <2>1. Cardinality(ResultsOf(s, i)) + (IF NewestAnswer(s, i) THEN open ELSE 0) + s[i].unanswered = s[i].calls
    BY <1>1, <1>3, <1>6 DEF Balanced
  <2>2. Cardinality(ResultsOf(s, i)) \in Nat
    BY ResultsFinite
  <2> HIDE DEF n
  <2>3. CASE NewestAnswer(s, i)
    BY <1>3, <1>5, <1>6, <2>1, <2>2, <2>3
  <2>4. CASE ~NewestAnswer(s, i)
    BY <1>3, <1>5, <1>6, <2>1, <2>2, <2>4
  <2> QED BY <2>3, <2>4
<1>7. Balanced(t, open - 1)
  BY <1>2, <1>6 DEF Balanced
<1>8. ASSUME open = 1
      PROVE  EndsOnUser(t)
  <2> SUFFICES ASSUME t # <<>>, IsAnswer(t[n])
               PROVE  t[n].calls > 0 /\ t[n].unanswered = t[n].calls
    BY <1>4 DEF EndsOnUser
  <2>1. n \in 1..n
    BY <1>1, <1>4, LengthIs
  <2>2. NewestAnswer(t, n) /\ NewestAnswer(s, n) /\ ResultsOf(s, n) = {} /\ Cardinality({}) = 0
    BY <1>1, <1>2, <2>1, FS_EmptySet DEF NewestAnswer, ResultsOf
  <2>3. 0 + 1 + s[n].unanswered = s[n].calls
    BY <1>1, <1>3, <1>8, <2>1, <2>2 DEF Balanced
  <2>4. t[n].unanswered = t[n].calls /\ t[n].calls > 0
    BY <1>3, <2>1, <2>2, <2>3
  <2> QED BY <2>4
<1> QED BY <1>4, <1>7, <1>8 DEF t

(* ------------------------- how a request ends -------------------------- *)

\* What is left of a conversation ends as all of it does.
LEMMA TailEnds ==
  ASSUME NEW s \in Seq(Message), NEW t \in Seq(Message), IsTail(t, s), EndsOnUser(s)
  PROVE  EndsOnUser(t)
<1>1. ASSUME t # <<>>
      PROVE  t[Len(t)] = s[Len(s)] /\ s # <<>>
  <2>1. PICK d \in 0..Len(s) : Len(t) = Len(s) - d /\ \A j \in 1..Len(t) : t[j] = s[j + d]
    BY DEF IsTail
  <2>2. Len(s) \in Nat /\ Len(t) \in Nat /\ Len(t) # 0
    BY <1>1, LengthIs
  <2>3. Len(t) \in 1..Len(t) /\ Len(t) + d = Len(s) /\ Len(s) # 0
    BY <2>1, <2>2
  <2> QED BY <2>1, <2>3, LengthIs
<1> QED BY <1>1 DEF EndsOnUser

\* One message more at the end.
LEMMA EndsOnTheLast ==
  ASSUME NEW s \in Seq(Message), NEW m \in Message
  PROVE  Append(s, m) \in Seq(Message) /\ (~IsAnswer(m) => EndsOnUser(Append(s, m)))
<1>1. Append(s, m) \in Seq(Message) /\ Len(Append(s, m)) = Len(s) + 1 /\ Append(s, m)[Len(s) + 1] = m
  BY AppendProperties
<1> QED BY <1>1 DEF EndsOnUser

\* Prompts at the end change nothing.
LEMMA MorePrompts ==
  ASSUME NEW s \in Seq(Message), NEW p \in Seq(Message), NEW open \in Nat, Balanced(s, open),
         \A j \in 1..Len(p) : p[j].role = "prompt"
  PROVE  /\ s \o p \in Seq(Message) /\ Balanced(s \o p, open)
         /\ EndsOnUser(s) \/ p # <<>> => EndsOnUser(s \o p)
<1> DEFINE n == Len(p)
           upto(k) == s \o SubSeq(p, 1, k)
           S == {k \in Nat : k <= n => /\ upto(k) \in Seq(Message) /\ Balanced(upto(k), open)
                                       /\ EndsOnUser(s) \/ k # 0 => EndsOnUser(upto(k))}
<1>1. n \in Nat /\ (p = <<>> <=> n = 0)
  BY LengthIs
<1>2. 0 \in S
  <2>1. SubSeq(p, 1, 0) = <<>> /\ s \o <<>> = s
    BY ConcatEmptySeq
  <2> QED BY <2>1
<1>3. ASSUME NEW k \in Nat, k \in S
      PROVE  k + 1 \in S
  <2> SUFFICES ASSUME k + 1 <= n
               PROVE  /\ upto(k + 1) \in Seq(Message) /\ Balanced(upto(k + 1), open)
                      /\ EndsOnUser(upto(k + 1))
    OBVIOUS
  <2>1. k <= n /\ k + 1 \in 1..n
    BY <1>1
  <2>2. upto(k) \in Seq(Message) /\ Balanced(upto(k), open)
    BY <1>3, <2>1
  <2> DEFINE m == p[k + 1]
  <2>3. m \in Message /\ m.role = "prompt"
    BY <2>1, LengthIs
  <2>5. upto(k + 1) = Append(upto(k), m)
    BY OneMore DEF n
  <2> HIDE DEF upto, m
  <2>6. Balanced(Append(upto(k), m), open)
    BY <2>2, <2>3, MoreBalanced
  <2>7. ~IsAnswer(m)
    BY <2>3 DEF IsAnswer
  <2> QED BY <2>2, <2>3, <2>5, <2>6, <2>7, EndsOnTheLast
<1>4. n \in S
  <2> HIDE DEF S
  <2>1. Nat \subseteq S
    BY <1>2, <1>3, AllNumbers
  <2> QED BY <1>1, <2>1
<1>5. SubSeq(p, 1, n) = p
  BY SubSeqFull DEF n
<1>6. upto(n) \in Seq(Message) /\ Balanced(upto(n), open) /\ (EndsOnUser(s) \/ n # 0 => EndsOnUser(upto(n)))
  <2> HIDE DEF upto, n
  <2>1. n <= n
    BY <1>1
  <2> QED BY <1>4, <2>1
<1>7. upto(n) = s \o p
  BY <1>5
<1> HIDE DEF upto, n
<1> QED BY <1>1, <1>6, <1>7

LEMMA Roles ==
  /\ UserSide \in Message /\ Text \in Message /\ Tool \in Message /\ \A n \in Nat : Calls(n) \in Message
  /\ UserSide.role = "prompt" /\ Text.role = "text" /\ Tool.role = "tool"
  /\ Text.calls = 0 /\ Text.unanswered = 0
  /\ \A n \in Nat : /\ Calls(n).role = "calls" /\ Calls(n).calls = n /\ Calls(n).unanswered = 0
                   /\ LET cut == [Calls(n) EXCEPT !.unanswered = n]
                      IN cut \in Message /\ cut.role = "calls" /\ cut.calls = n /\ cut.unanswered = n
BY DEF Message, UserSide, Text, Tool, Calls

\* One message through Add.
LEMMA Added ==
  ASSUME NEW s \in Seq(Message), NEW m \in Message, NEW open \in Nat, Balanced(s, open)
  PROVE  /\ Add(s, m) \in Seq(Message)
         /\ ~IsAnswer(m) => EndsOnUser(Add(s, m))
         /\ m.role = "prompt" => Balanced(Add(s, m), open)
         /\ m.role = "tool" /\ open > 0 => Balanced(Add(s, m), open - 1)
         /\ \A after \in Nat : IsAnswer(m) /\ open = 0 /\ m.calls = after + m.unanswered => Balanced(Add(s, m), after)
<1> DEFINE a == Append(s, m)
           t == Trim(a)
<1>1. a \in Seq(Message) /\ (~IsAnswer(m) => EndsOnUser(a))
  BY EndsOnTheLast
<1>2. /\ m.role = "prompt" => Balanced(a, open)
      /\ m.role = "tool" /\ open > 0 => Balanced(a, open - 1)
      /\ \A after \in Nat : IsAnswer(m) /\ open = 0 /\ m.calls = after + m.unanswered => Balanced(a, after)
  BY MoreBalanced
<1> HIDE DEF a
<1>3. t \in Seq(Message) /\ IsTail(t, a)
  BY <1>1, TrimIsTail
<1>4. Add(s, m) = t
  BY DEF Add, a
<1> HIDE DEF t
<1>5. \A o : Balanced(a, o) => Balanced(t, o)
  BY <1>1, <1>3, TailBalanced
<1>6. EndsOnUser(a) => EndsOnUser(t)
  BY <1>1, <1>3, TailEnds
<1> QED BY <1>1, <1>2, <1>3, <1>4, <1>5, <1>6

(* ------------------------- several messages ---------------------------- *)

\* Several messages through Add: what all of them would be, they are.
LEMMA AddedAll ==
  ASSUME NEW s \in Seq(Message), NEW p \in Seq(Message), NEW open, Balanced(s \o p, open)
  PROVE  /\ AddAll(s, p) \in Seq(Message) /\ Balanced(AddAll(s, p), open)
         /\ EndsOnUser(s \o p) => EndsOnUser(AddAll(s, p))
<1> DEFINE t == AddAll(s, p)
           a == s \o p
<1>1. a \in Seq(Message) /\ t \in Seq(Message) /\ IsTail(t, a) /\ Balanced(a, open)
  BY AddAllIsTail, ConcatProperties
<1> HIDE DEF a, t
<1>2. Balanced(t, open)
  BY <1>1, TailBalanced
<1>3. EndsOnUser(a) => EndsOnUser(t)
  BY <1>1, TailEnds
<1> QED BY <1>1, <1>2, <1>3 DEF a, t

\* A text and a prompt, or two prompts, when no call is open.
LEMMA AddedPair ==
  ASSUME NEW s \in Seq(Message), Balanced(s, 0), NEW m \in {Text, UserSide}
  PROVE  /\ AddAll(s, <<m, UserSide>>) \in Seq(Message) /\ Balanced(AddAll(s, <<m, UserSide>>), 0)
         /\ EndsOnUser(AddAll(s, <<m, UserSide>>))
<1> DEFINE u == UserSide
           a == Append(s, m)
           b == Append(a, u)
<1>1. m \in Message /\ u \in Message /\ m.role \in {"text", "prompt"} /\ u.role = "prompt" /\ 0 \in Nat
  BY Roles
<1>2. s \o <<m, u>> = b /\ <<m, u>> \in Seq(Message)
  <2> HIDE DEF u
  <2> QED BY <1>1
<1> HIDE DEF u
<1>3. a \in Seq(Message) /\ Balanced(a, 0)
  <2>1. m.role = "text" => IsAnswer(m) /\ m.calls = 0 + m.unanswered
    BY Roles DEF IsAnswer
  <2> QED BY <1>1, <2>1, MoreBalanced, EndsOnTheLast
<1> HIDE DEF a
<1>4. b \in Seq(Message) /\ Balanced(b, 0)
  BY <1>1, <1>3, MoreBalanced, EndsOnTheLast
<1>5. EndsOnUser(b)
  BY <1>1, <1>3, EndsOnTheLast DEF IsAnswer
<1> DEFINE p == <<m, u>>
<1> HIDE DEF p, b
<1>6. p \in Seq(Message) /\ s \o p = b
  BY <1>2 DEF p
<1>7. AddAll(s, p) \in Seq(Message) /\ Balanced(AddAll(s, p), 0) /\ EndsOnUser(AddAll(s, p))
  BY <1>4, <1>5, <1>6, AddedAll
<1> QED BY <1>7 DEF p, u

\* A result between prompts.
LEMMA AddedResult ==
  ASSUME NEW s \in Seq(Message), NEW open \in Nat, open > 0, Balanced(s, open),
         NEW p \in Seq({UserSide}), NEW q \in Seq({UserSide})
  PROVE  /\ AddAll(s, p \o <<Tool>> \o q) \in Seq(Message)
         /\ Balanced(AddAll(s, p \o <<Tool>> \o q), open - 1)
         /\ EndsOnUser(AddAll(s, p \o <<Tool>> \o q))
<1>1. UserSide \in Message /\ Tool \in Message /\ UserSide.role = "prompt" /\ Tool.role = "tool"
  BY Roles
<1>2. /\ p \in Seq(Message) /\ \A j \in 1..Len(p) : p[j].role = "prompt"
      /\ q \in Seq(Message) /\ \A j \in 1..Len(q) : q[j].role = "prompt"
  BY <1>1
<1> DEFINE t == Tool
           a == s \o p
           b == Append(a, t)
           c == b \o q
           r == p \o <<t>> \o q
<1>3. t \in Message /\ t.role = "tool" /\ <<t>> \in Seq(Message)
  BY <1>1
<1> HIDE DEF t
<1>4. a \in Seq(Message) /\ Balanced(a, open)
  BY <1>2, MorePrompts
<1>5. b \in Seq(Message) /\ Balanced(b, open - 1) /\ EndsOnUser(b)
  <2> HIDE DEF a
  <2> QED BY <1>3, <1>4, MoreBalanced, EndsOnTheLast DEF IsAnswer
<1>6. c \in Seq(Message) /\ Balanced(c, open - 1) /\ EndsOnUser(c)
  <2> HIDE DEF b
  <2>1. open - 1 \in Nat
    OBVIOUS
  <2> QED BY <1>2, <1>5, <2>1, MorePrompts
<1>7. r \in Seq(Message) /\ s \o r = c
  <2>1. a \o <<t>> = b
    BY <1>3, <1>4, AppendIsConcat
  <2>2. p \o <<t>> \in Seq(Message) /\ r \in Seq(Message)
    BY <1>2, <1>3, ConcatProperties
  <2>3. s \o r = (a \o <<t>>) \o q
    BY <1>2, <1>3, JoinedInTurn
  <2> QED BY <2>1, <2>2, <2>3
<1> HIDE DEF c, r
<1>8. AddAll(s, r) \in Seq(Message) /\ Balanced(AddAll(s, r), open - 1) /\ EndsOnUser(AddAll(s, r))
  BY <1>6, <1>7, AddedAll
<1> QED BY <1>8 DEF r, t

\* A conversation resumed, and one compacted.
LEMMA Resumed ==
  ASSUME NEW s \in Seq(Message), NEW open, Balanced(s, open)
  PROVE  /\ AddAll(<<>>, s) \in Seq(Message) /\ Balanced(AddAll(<<>>, s), open)
         /\ EndsOnUser(s) => EndsOnUser(AddAll(<<>>, s))
<1> DEFINE e == <<>>
<1>1. e \in Seq(Message) /\ e \o s = s
  BY ConcatEmptySeq
<1> HIDE DEF e
<1>2. /\ AddAll(e, s) \in Seq(Message) /\ Balanced(AddAll(e, s), open)
      /\ EndsOnUser(s) => EndsOnUser(AddAll(e, s))
  BY <1>1, AddedAll
<1> QED BY <1>2 DEF e

LEMMA CompactedWellFormed ==
  ASSUME NEW s \in Seq(Message), Len(s) > CompactOver, Balanced(s, 0), EndsOnUser(s)
  PROVE  Compacted(s) \in Seq(Message) /\ Balanced(Compacted(s), 0) /\ EndsOnUser(Compacted(s))
<1> DEFINE f == Len(s) - Kept + 1
           t == SubSeq(s, f, Len(s))
           u == UserSide
           c == <<u>> \o t
<1>1. /\ Kept \in Nat /\ Kept # 0 /\ CompactOver \in Nat /\ Kept <= CompactOver
      /\ Len(s) \in Nat
  BY LoopAssumption, LengthIs
<1>2. f \in 1..(Len(s) + 1) /\ Len(s) + 1 - f = Kept
  BY <1>1
<1> HIDE DEF f
<1>3. t \in Seq(Message) /\ IsTail(t, s) /\ Len(t) = Kept
  BY <1>2, TailFrom
<1> HIDE DEF t
<1>4. Balanced(t, 0) /\ EndsOnUser(t) /\ t # <<>>
  <2>1. t # <<>>
    BY <1>1, <1>3, LengthIs
  <2> QED BY <1>3, <2>1, TailBalanced, TailEnds
<1>5. u \in Message /\ u.role = "prompt"
  BY Roles
<1> HIDE DEF u
<1>6. c \in Seq(Message) /\ Balanced(c, 0)
  BY <1>3, <1>4, <1>5, PromptInFront
<1>7. EndsOnUser(c)
  <2>0. <<u>> \in Seq(Message) /\ Len(<<u>>) = 1
    BY <1>5
  <2>1. Len(c) = 1 + Len(t) /\ \A i \in 1..(1 + Len(t)) : c[i] = IF i <= 1 THEN <<u>>[i] ELSE t[i - 1]
    BY <1>3, <2>0, ConcatProperties
  <2> HIDE DEF c
  <2>2. Len(t) \in Nat /\ Len(t) # 0
    BY <1>1, <1>3
  <2>3. 1 + Len(t) \in 1..(1 + Len(t)) /\ ~(1 + Len(t) <= 1) /\ (1 + Len(t)) - 1 = Len(t)
    BY <2>2
  <2>4. c[Len(c)] = t[Len(t)]
    BY <2>1, <2>3
  <2> QED BY <1>4, <2>4 DEF EndsOnUser
<1> HIDE DEF c
<1>8. AddAll(<<>>, c) \in Seq(Message) /\ Balanced(AddAll(<<>>, c), 0) /\ EndsOnUser(AddAll(<<>>, c))
  BY <1>6, <1>7, Resumed
<1>9. Compacted(s) = AddAll(<<>>, c)
  BY DEF Compacted, c, t, u, f
<1> QED BY <1>8, <1>9

(* ---------------------------- the invariant ---------------------------- *)

Open == IF at = "tools" THEN calls ELSE 0

\* The next message the loop sends is a request.
RequestNext == at \in {"turn", "request", "repeats"} \/ (at = "tools" /\ calls = 0)

LoopInv ==
    /\ messages \in Seq(Message)
    /\ calls \in Nat
    /\ at \in {"idle", "turn", "request", "tools", "repeats"}
    /\ Balanced(messages, Open)
    /\ RequestNext => EndsOnUser(messages)

LEMMA LoopInitInv ==
  LoopInit => LoopInv
<1> SUFFICES ASSUME LoopInit PROVE LoopInv
  OBVIOUS
<1>1. messages = <<>> /\ messages \in Seq(Message)
  BY DEF LoopInit
<1>2. Balanced(messages, 0)
  BY <1>1 DEF Balanced
<1> QED BY <1>1, <1>2 DEF LoopInit, LoopInv, Open, EndsOnUser

LEMMA LoopStepInv ==
  LoopInv /\ [LoopNext]_directVars => LoopInv'
<1> SUFFICES ASSUME LoopInv, [LoopNext]_directVars
             PROVE  LoopInv'
  OBVIOUS
<1>0. /\ messages \in Seq(Message) /\ calls \in Nat
      /\ at \in {"idle", "turn", "request", "tools", "repeats"}
      /\ Balanced(messages, Open)
      /\ RequestNext => EndsOnUser(messages)
  BY DEF LoopInv
\* Where a run goes on with a request, and where it ends.
<1>1. ASSUME at' \in {"turn", "request"}, messages' \in Seq(Message), calls' = calls,
             Balanced(messages', 0) /\ EndsOnUser(messages')
      PROVE  LoopInv'
  <2>1. Open' = 0
    BY <1>1 DEF Open
  <2> QED BY <1>0, <1>1, <2>1 DEF LoopInv, RequestNext
<1>2. ASSUME at' = "idle", messages' \in Seq(Message), calls' = calls,
             Balanced(messages', 0)
      PROVE  LoopInv'
  <2>1. Open' = 0 /\ ~RequestNext'
    BY <1>2 DEF Open, RequestNext
  <2> QED BY <1>0, <1>2, <2>1 DEF LoopInv
\* Where the calls of an answer are executed.
<1>3. ASSUME at' = "tools", messages' \in Seq(Message), calls' \in Nat,
             Balanced(messages', calls') /\ (calls' = 0 => EndsOnUser(messages'))
      PROVE  LoopInv'
  <2>1. Open' = calls' /\ (RequestNext' => calls' = 0)
    BY <1>3 DEF Open, RequestNext
  <2> QED BY <1>3, <2>1 DEF LoopInv
<1>4. ASSUME at \in {"turn", "request"}
      PROVE  Balanced(messages, 0) /\ EndsOnUser(messages)
  BY <1>0, <1>4 DEF Open, RequestNext
<1>5. ASSUME at = "tools"
      PROVE  Balanced(messages, calls) /\ (calls = 0 => EndsOnUser(messages))
  BY <1>0, <1>5 DEF Open, RequestNext
<1>6. UserSide \in Message /\ UserSide.role = "prompt" /\ ~IsAnswer(UserSide) /\ Text \in Message
      /\ Text.role = "text" /\ Tool \in Message /\ Tool.role = "tool" /\ ~IsAnswer(Tool) /\ 0 \in Nat
  BY Roles DEF IsAnswer
\* Every text that is answered with a prompt.
<1>7. ASSUME at = "request", messages' = AddAll(messages, <<Text, UserSide>>), at' = "turn",
             calls' = calls
      PROVE  LoopInv'
  <2>1. Balanced(messages, 0)
    BY <1>4, <1>7
  <2>2. messages' \in Seq(Message) /\ Balanced(messages', 0) /\ EndsOnUser(messages')
    BY <1>0, <1>7, <2>1, AddedPair
  <2> QED BY <1>1, <1>7, <2>2
<1>8. CASE Asked
  <2>1. CASE messages' = Add(messages, UserSide)
    <3>1. messages' \in Seq(Message)
      <4>1. Append(messages, UserSide) \in Seq(Message)
        BY <1>0, <1>6
      <4> QED BY <2>1, <4>1, TrimIsTail DEF Add
    <3>2. Balanced(messages', 0) /\ EndsOnUser(messages')
      <4>1. Balanced(messages, 0)
        BY <1>0, <1>8 DEF Asked, Open
      <4> QED BY <1>0, <1>6, <2>1, <4>1, Added
    <3> QED BY <1>1, <1>8, <3>1, <3>2 DEF Asked
  <2>2. CASE messages = <<>> /\ messages' = AddAll(messages, <<UserSide, UserSide>>)
    <3>1. Balanced(messages, 0)
      BY <2>2 DEF Balanced
    <3>2. messages' \in Seq(Message) /\ Balanced(messages', 0) /\ EndsOnUser(messages')
      BY <1>0, <2>2, <3>1, AddedPair
    <3> QED BY <1>1, <1>8, <3>2 DEF Asked
  <2> QED BY <1>8, <2>1, <2>2 DEF Asked
<1>9. CASE Ask
  BY <1>0, <1>1, <1>4, <1>9 DEF Ask
<1>10. CASE CallFails
  BY <1>0, <1>2, <1>4, <1>10 DEF CallFails, ReturnWith
<1>11. CASE CallAgain
  BY <1>0, <1>1, <1>4, <1>11 DEF CallAgain
<1>12. CASE Overflow
  <2>1. messages' \in Seq(Message) /\ IsTail(messages', messages)
    BY <1>0, <1>12, TrimOldestIsTail DEF Overflow
  <2>2. Balanced(messages', 0) /\ EndsOnUser(messages')
    BY <1>0, <1>4, <1>12, <2>1, TailBalanced, TailEnds DEF Overflow
  <2> QED BY <1>1, <1>12, <2>1, <2>2 DEF Overflow
<1>13. CASE NothingAnswered
  BY <1>0, <1>1, <1>4, <1>13 DEF NothingAnswered, Again
<1>14. CASE Corrected
  BY <1>7, <1>14 DEF Corrected, Again
<1>15. CASE StallsOnText
  BY <1>7, <1>15 DEF StallsOnText, Again
<1>16. CASE GateFails
  BY <1>7, <1>16 DEF GateFails, Again
<1>17. CASE ClaimRefused
  BY <1>7, <1>17 DEF ClaimRefused, Again
<1>18. CASE AskToContinue
  BY <1>7, <1>18 DEF AskToContinue, Again
<1>19. CASE TextReturned
  <2>1. messages' = Add(messages, Text) /\ at = "request"
    BY <1>19 DEF TextReturned, ReturnWith
  <2>2. messages' \in Seq(Message)
    <3>1. Append(messages, Text) \in Seq(Message)
      BY <1>0, <1>6
    <3> QED BY <2>1, <3>1, TrimIsTail DEF Add
  <2>3. Balanced(messages', 0)
    <3>1. IsAnswer(Text) /\ Text.calls = 0 + Text.unanswered
      BY Roles DEF IsAnswer
    <3> QED BY <1>0, <1>4, <1>6, <2>1, <3>1, Added
  <2> QED BY <1>0, <1>2, <1>19, <2>2, <2>3 DEF TextReturned, ReturnWith
<1>20. CASE CallTools
  <2>1. PICK n \in 1..CallsPerTurn :
          \/ messages' = Add(messages, [Calls(n) EXCEPT !.unanswered = n]) /\ at' = "idle" /\ calls' = calls
          \/ messages' = Add(messages, Calls(n)) /\ at' = "tools" /\ calls' = n
    BY <1>20 DEF CallTools, ReturnWith
  <2>2. at = "request" /\ n \in Nat /\ n # 0
    <3>1. CallsPerTurn \in Nat
      BY LoopAssumption
    <3> QED BY <1>20, <3>1 DEF CallTools
  <2>3. Balanced(messages, 0)
    BY <1>4, <2>2
  <2> DEFINE m == Calls(n)
             cut == [m EXCEPT !.unanswered = n]
  <2>4. m \in Message /\ IsAnswer(m) /\ m.calls = n + m.unanswered
    <3>1. m \in Message /\ m.role = "calls" /\ m.calls = n /\ m.unanswered = 0
      BY <2>2, Roles
    <3> HIDE DEF m
    <3> QED BY <2>2, <3>1 DEF IsAnswer
  <2>5. cut \in Message /\ IsAnswer(cut) /\ cut.calls = 0 + cut.unanswered
    BY <2>2, Roles DEF IsAnswer
  <2>6. CASE messages' = Add(messages, cut) /\ at' = "idle" /\ calls' = calls
    <3> HIDE DEF cut
    <3>1. messages' \in Seq(Message) /\ Balanced(messages', 0)
      BY <1>0, <1>6, <2>3, <2>5, <2>6, Added
    <3> QED BY <1>2, <2>6, <3>1
  <2>7. CASE messages' = Add(messages, m) /\ at' = "tools" /\ calls' = n
    <3> HIDE DEF m
    <3>1. messages' \in Seq(Message) /\ Balanced(messages', n)
      BY <1>0, <1>6, <2>2, <2>3, <2>4, <2>7, Added
    <3> QED BY <1>3, <2>2, <2>7, <3>1
  <2> QED BY <2>1, <2>6, <2>7
<1>21. CASE Deny
  <2>1. at = "tools" /\ at' = at /\ calls > 0 /\ calls' = calls - 1 /\ calls' \in Nat /\ messages' = LeftOpen(messages)
    BY <1>0, <1>21 DEF Deny
  <2>2. messages' \in Seq(Message) /\ Balanced(messages', calls') /\ (calls' = 0 => EndsOnUser(messages'))
    BY <1>0, <1>5, <2>1, LeftOpenBalanced
  <2> QED BY <1>3, <2>1, <2>2
<1>22. CASE ReadAgain
  <2>1. messages' = Add(messages, Tool) /\ calls > 0 /\ calls' = calls - 1 /\ calls' \in Nat
    BY <1>0, <1>22 DEF ReadAgain
  <2>2. messages' \in Seq(Message)
    <3>1. Append(messages, Tool) \in Seq(Message)
      BY <1>0, <1>6
    <3> QED BY <2>1, <3>1, TrimIsTail DEF Add
  <2>3. Balanced(messages', calls') /\ EndsOnUser(messages')
    BY <1>0, <1>5, <1>6, <1>22, <2>1, Added DEF ReadAgain
  <2> QED BY <1>0, <1>3, <1>22, <2>1, <2>2, <2>3 DEF ReadAgain
<1>23. CASE Execute
  <2>1. PICK b \in Nat, c \in Nat :
          messages' = AddAll(messages, [k \in 1..b |-> UserSide] \o <<Tool>> \o [k \in 1..c |-> UserSide])
    <3>1. PICK rejected, same, wrote, tested \in BOOLEAN, said \in 0..2 :
            LET warned == run.warnings + (IF same THEN 1 ELSE 0)
                Said(n) == [k \in 1..n |-> UserSide]
                before  == IF rejected THEN 1 ELSE 0
                after   == said + (IF same THEN 1 ELSE 0) + (IF warned >= ResetAt THEN 1 ELSE 0)
            IN  messages' = AddAll(messages, Said(before) \o <<Tool>> \o Said(after))
      BY <1>23, Zenon DEF Execute
    <3> DEFINE before == IF rejected THEN 1 ELSE 0
               late   == IF run.warnings + (IF same THEN 1 ELSE 0) >= ResetAt THEN 1 ELSE 0
               after  == said + (IF same THEN 1 ELSE 0) + late
    <3>2. before \in Nat /\ late \in Nat
      OBVIOUS
    <3>3. messages' = AddAll(messages, [k \in 1..before |-> UserSide] \o <<Tool>> \o [k \in 1..after |-> UserSide])
      BY <3>1, Zenon
    <3> HIDE DEF before, late
    <3>4. after \in Nat
      BY <3>2
    <3> HIDE DEF after
    <3> QED BY <3>2, <3>3, <3>4
  <2> DEFINE p == [k \in 1..b |-> UserSide]
             q == [k \in 1..c |-> UserSide]
  <2>2. p \in Seq({UserSide}) /\ q \in Seq({UserSide})
    OBVIOUS
  <2> HIDE DEF p, q
  <2>3. messages' = AddAll(messages, p \o <<Tool>> \o q)
    BY <2>1 DEF p, q
  <2>4. at = "tools" /\ at' = at /\ calls > 0 /\ calls' = calls - 1 /\ calls' \in Nat
    BY <1>0, <1>23 DEF Execute
  <2>5. messages' \in Seq(Message)
    <3>1. p \in Seq(Message) /\ q \in Seq(Message) /\ <<Tool>> \in Seq(Message)
      BY <1>6, <2>2
    <3>2. p \o <<Tool>> \o q \in Seq(Message)
      BY <3>1, ConcatProperties
    <3> QED BY <1>0, <2>3, <3>2, AddAllIsTail
  <2>6. Balanced(messages', calls') /\ EndsOnUser(messages')
    BY <1>0, <1>5, <2>2, <2>3, <2>4, AddedResult
  <2> QED BY <1>0, <1>3, <2>4, <2>5, <2>6
<1>24. CASE ToolsDone
  <2>1. /\ at = "tools" /\ calls = 0 /\ at' = "repeats" /\ calls' = 0
        /\ messages' = messages \/ (Len(messages) > CompactOver /\ messages' = Compacted(messages))
    BY <1>24 DEF ToolsDone
  <2>2. Balanced(messages, 0) /\ EndsOnUser(messages)
    BY <1>5, <2>1
  <2>3. messages' \in Seq(Message)
    <3>1. ASSUME Len(messages) > CompactOver, messages' = Compacted(messages)
          PROVE  messages' \in Seq(Message)
      <4> DEFINE f == Len(messages) - Kept + 1
                 t == SubSeq(messages, f, Len(messages))
      <4>1. f \in 1..(Len(messages) + 1)
        <5>1. /\ Kept \in Nat /\ Kept # 0 /\ CompactOver \in Nat /\ Kept <= CompactOver
              /\ Len(messages) \in Nat
          BY <1>0, LoopAssumption, LengthIs
        <5> QED BY <3>1, <5>1
      <4> HIDE DEF f
      <4>2. t \in Seq(Message)
        BY <1>0, <4>1, TailFrom
      <4> HIDE DEF t
      <4>3. <<UserSide>> \o t \in Seq(Message)
        <5>1. <<UserSide>> \in Seq(Message)
          BY <1>6
        <5> QED BY <4>2, <5>1, ConcatProperties
      <4>4. AddAll(<<>>, <<UserSide>> \o t) \in Seq(Message)
        BY <4>3, NothingIsTail, AddAllIsTail
      <4> QED BY <3>1, <4>4 DEF Compacted, t, f
    <3> QED BY <1>0, <2>1, <3>1
  <2>4. Balanced(messages', 0) /\ EndsOnUser(messages')
    BY <1>0, <2>1, <2>2, CompactedWellFormed
  <2>5. Open' = 0
    BY <2>1 DEF Open
  <2> QED BY <1>0, <2>1, <2>3, <2>4, <2>5 DEF LoopInv
<1>25. ASSUME at = "repeats"
       PROVE  Balanced(messages, 0) /\ EndsOnUser(messages)
  BY <1>0, <1>25 DEF Open, RequestNext
<1>26. CASE NotRepeating
  BY <1>0, <1>1, <1>25, <1>26 DEF NotRepeating, Again
<1>27. ASSUME NEW often \in {3, 4, 6}, Repeating(often)
       PROVE  LoopInv'
  <2>1. /\ at = "repeats" /\ calls' = calls
        /\ \/ at' = "idle" /\ messages' = messages
           \/ at' = "turn" /\ messages' = Add(messages, UserSide)
    BY <1>27 DEF Repeating, ReturnWith, Again
  <2>2. CASE at' = "idle" /\ messages' = messages
    BY <1>0, <1>2, <1>25, <2>1, <2>2
  <2>3. CASE at' = "turn" /\ messages' = Add(messages, UserSide)
    <3>1. messages' \in Seq(Message)
      <4>1. Append(messages, UserSide) \in Seq(Message)
        BY <1>0, <1>6
      <4> QED BY <2>3, <4>1, TrimIsTail DEF Add
    <3>2. Balanced(messages', 0) /\ EndsOnUser(messages')
      BY <1>0, <1>6, <1>25, <2>1, <2>3, Added
    <3> QED BY <1>1, <2>1, <2>3, <3>1, <3>2
  <2> QED BY <2>1, <2>2, <2>3
<1>28. CASE Clear
  <2>1. messages' \in Seq(Message) /\ Balanced(messages', 0)
    BY <1>28, NothingIsTail DEF Clear, Balanced
  <2> QED BY <1>0, <1>2, <1>28, <2>1 DEF Clear
<1>29. CASE ResumeSession
  <2>1. Balanced(messages, 0)
    BY <1>0, <1>29 DEF ResumeSession, Open
  <2>2. messages' \in Seq(Message)
    BY <1>0, <1>29, NothingIsTail, AddAllIsTail DEF ResumeSession
  <2>3. Balanced(messages', 0)
    BY <1>0, <1>29, <2>1, Resumed DEF ResumeSession
  <2> QED BY <1>0, <1>2, <1>29, <2>2, <2>3 DEF ResumeSession
<1>30. CASE UNCHANGED directVars
  <2>1. /\ messages' = messages /\ at' = at /\ calls' = calls
    BY <1>30 DEF directVars
  <2> QED BY <1>0, <2>1 DEF LoopInv, Open, RequestNext
<1> QED BY <1>8, <1>9, <1>10, <1>11, <1>12, <1>13, <1>14, <1>15, <1>16, <1>17, <1>18, <1>19, <1>20,
           <1>21, <1>22, <1>23, <1>24, <1>26, <1>27, <1>28, <1>29, <1>30
        DEF LoopNext, LoopWork

\* Wherever the loop is between two answers, each answer in its conversation
\* is followed by the results of those of its calls that nobody denied or cut
\* off, and no request ends on an answer of which a call was executed, for
\* conversations of any length, any limits and any number of calls.
THEOREM RequestsAreWellFormed == LoopSpec => []RequestsWellFormed
<1>1. LoopInv => RequestsWellFormed
  <2> SUFFICES ASSUME LoopInv
               PROVE  RequestsWellFormed
    OBVIOUS
  <2>1. messages \in Seq(Message) /\ Balanced(messages, Open) /\ (RequestNext => EndsOnUser(messages))
    BY DEF LoopInv
  <2>2. CallsAnswered
    <3> SUFFICES ASSUME at \in {"idle", "turn", "request"}, NEW i \in DOMAIN messages, IsAnswer(messages[i])
                 PROVE  Cardinality(ResultsOf(messages, i)) + messages[i].unanswered = messages[i].calls
      BY DEF CallsAnswered
    <3>1. Balanced(messages, 0)
      BY <2>1 DEF Open
    <3>2. Cardinality(ResultsOf(messages, i)) \in Nat
      BY <2>1, ResultsFinite
    <3>3. Cardinality(ResultsOf(messages, i)) + (IF NewestAnswer(messages, i) THEN 0 ELSE 0) + messages[i].unanswered
            = messages[i].calls
      BY <3>1 DEF Balanced
    <3> QED BY <3>2, <3>3
  <2>3. RequestsEndOnUser
    BY <2>1 DEF RequestsEndOnUser, RequestNext, EndsOnUser, Last
  <2> QED BY <2>2, <2>3 DEF RequestsWellFormed
<1> QED BY <1>1, LoopInitInv, LoopStepInv, PTL DEF LoopSpec
==============================================================================
