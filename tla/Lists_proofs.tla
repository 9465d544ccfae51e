---------------------------- MODULE Lists_proofs ----------------------------
(* Proofs about lists and what Kept selects from them, and how a function  *)
(* that is defined by recursion over the indices of a list is reasoned     *)
(* about.                                                                  *)
EXTENDS Lists, SequenceTheorems, WellFoundedInduction, TLAPS

-----------------------------------------------------------------------------
(* Induction, as a fact about sets of numbers.                             *)

LEMMA LeastElement ==
  ASSUME NEW T \in SUBSET Nat, T # {}
  PROVE  \E m \in T : \A k \in T : m <= k
<1> DEFINE Less == {ss \in Nat \X Nat : ss[1] < ss[2]}
<1>1. IsWellFoundedOn(Less, Nat)
  BY NatLessThanWellFounded DEF OpToRel
<1>2. PICK x \in T : \A y \in T : ~(<<y, x>> \in Less)
  BY <1>1, WFMin
<1>3. ASSUME NEW k \in T PROVE x <= k
  <2>1. ~(<<k, x>> \in Less) /\ <<k, x>> \in Nat \X Nat
    BY <1>2
  <2> QED BY <2>1
<1> QED BY <1>3

LEMMA Induction ==
  ASSUME NEW N \in SUBSET Nat, 0 \in N, \A n \in Nat : n \in N => n + 1 \in N
  PROVE  N = Nat
<1> SUFFICES ASSUME Nat \ N # {} PROVE FALSE
  OBVIOUS
<1>1. PICK m \in Nat \ N : \A k \in Nat \ N : m <= k
  BY LeastElement
<1>2. m - 1 \in Nat /\ m - 1 \in N
  BY <1>1
<1> QED BY <1>1, <1>2

\* A function on 0..n that is given by its value at 0 and a step exists.  The step
\* is a function as well: the provers cannot instantiate an operator.
Recurs(f, v, n, step) == f[0] = v /\ \A i \in 1..n : f[i] = step[i][f[i - 1]]

LEMMA Recursion ==
  ASSUME NEW V, NEW v \in V, NEW n \in Nat, NEW step \in [1..n -> [V -> V]]
  PROVE  \E f \in [0..n -> V] : Recurs(f, v, n, step)
<1> DEFINE Upto(k, f) == f[0] = v /\ \A i \in 1..k : f[i] = step[i][f[i - 1]]
           N == {k \in Nat : k <= n => \E f \in [0..k -> V] : Upto(k, f)}
<1>1. 0 \in N
  <2> DEFINE g == [i \in 0..0 |-> v]
  <2>1. g \in [0..0 -> V] /\ Upto(0, g)
    OBVIOUS
  <2> QED BY <2>1
<1>2. ASSUME NEW k \in Nat, k \in N PROVE k + 1 \in N
  <2> SUFFICES ASSUME k + 1 <= n PROVE \E f \in [0..(k + 1) -> V] : Upto(k + 1, f)
    OBVIOUS
  <2>1. PICK f \in [0..k -> V] : Upto(k, f)
    BY <1>2
  <2> DEFINE g == [i \in 0..(k + 1) |-> IF i = k + 1 THEN step[k + 1][f[k]] ELSE f[i]]
  <2>2. step[k + 1][f[k]] \in V
    <3>1. f[k] \in V /\ k + 1 \in 1..n
      OBVIOUS
    <3> QED BY <3>1
  <2>3. g \in [0..(k + 1) -> V]
    BY <2>2
  <2>4. ASSUME NEW i \in 1..(k + 1) PROVE g[i] = step[i][g[i - 1]]
    <3>1. CASE i = k + 1
      BY <3>1
    <3>2. CASE i # k + 1
      <4>1. i \in 1..k /\ g[i] = f[i] /\ g[i - 1] = f[i - 1]
        BY <3>2
      <4>2. f[i] = step[i][f[i - 1]]
        BY <2>1, <4>1
      <4> QED BY <4>1, <4>2
    <3> QED BY <3>1, <3>2
  <2>5. Upto(k + 1, g)
    <3>1. g[0] = v
      BY <2>1
    <3> HIDE DEF g
    <3> QED BY <2>4, <3>1
  <2> HIDE DEF g, Upto
  <2> QED BY <2>3, <2>5
<1> HIDE DEF N
<1>3. N = Nat
  <2>1. N \in SUBSET Nat
    BY DEF N
  <2> QED BY <1>1, <1>2, <2>1, Induction
<1>4. n \in N
  BY <1>3
<1> QED BY <1>4 DEF N, Recurs

\* Two functions that start alike and go on alike are alike.
GoAlike(f, g, n) == f[0] = g[0] /\ \A i \in 1..n : f[i - 1] = g[i - 1] => f[i] = g[i]

LEMMA SameRecursion ==
  ASSUME NEW n \in Nat, NEW f, NEW g, GoAlike(f, g, n)
  PROVE  f[n] = g[n]
<1> DEFINE N == {i \in Nat : i <= n => f[i] = g[i]}
<1>1. 0 \in N
  BY DEF GoAlike
<1>2. ASSUME NEW i \in Nat, i \in N PROVE i + 1 \in N
  <2> SUFFICES ASSUME i + 1 <= n PROVE f[i + 1] = g[i + 1]
    OBVIOUS
  <2>1. i + 1 \in 1..n /\ (i + 1) - 1 = i /\ f[i] = g[i]
    BY <1>2
  <2> QED BY <2>1 DEF GoAlike
<1>3. N \in SUBSET Nat
  OBVIOUS
<1> HIDE DEF N
<1>4. N = Nat
  BY <1>1, <1>2, <1>3, Induction
<1> QED BY <1>4 DEF N

LEMMA ListInduction ==
  ASSUME NEW X, NEW P \in SUBSET Seq(X), <<>> \in P,
         \A s \in Seq(X), x \in X : s \in P => Append(s, x) \in P
  PROVE  P = Seq(X)
<1> DEFINE N == {n \in Nat : \A s \in Seq(X) : Len(s) = n => s \in P}
<1>1. 0 \in N
  BY EmptySeq
<1>2. ASSUME NEW n \in Nat, n \in N PROVE n + 1 \in N
  <2> SUFFICES ASSUME NEW s \in Seq(X), Len(s) = n + 1 PROVE s \in P
    OBVIOUS
  <2>1. s # <<>>
    BY EmptySeq
  <2>2. PICK t \in Seq(X), x \in X : s = Append(t, x)
    BY <2>1, SequenceEmptyOrAppend
  <2>3. Len(t) = n
    BY <2>2, AppendProperties, LenProperties
  <2> QED BY <1>2, <2>2, <2>3
<1>3. N \in SUBSET Nat
  OBVIOUS
<1> HIDE DEF N
<1>4. N = Nat
  BY <1>1, <1>2, <1>3, Induction
<1>5. \A s \in Seq(X) : Len(s) \in N
  BY <1>4, LenProperties
<1> QED BY <1>5 DEF N

-----------------------------------------------------------------------------
(* Sequences and what they hold.                                           *)

LEMMA ElementsOf ==
  ASSUME NEW X, NEW s \in Seq(X)
  PROVE  /\ ToSet(s) = {s[i] : i \in 1..Len(s)} /\ ToSet(s) \subseteq X
         /\ (ToSet(s) = {}) <=> (s = <<>>)
<1>1. DOMAIN s = 1..Len(s) /\ Len(s) \in Nat
  BY LenProperties
<1>2. ToSet(s) = {s[i] : i \in 1..Len(s)} /\ ToSet(s) \subseteq X
  BY <1>1 DEF ToSet
<1>3. s # <<>> => s[1] \in ToSet(s)
  BY <1>1, EmptySeq, <1>2
<1>4. s = <<>> => ToSet(s) = {}
  BY <1>2, EmptySeq
<1> QED BY <1>2, <1>3, <1>4

LEMMA ElementsOfAppend ==
  ASSUME NEW X, NEW s \in Seq(X), NEW x \in X
  PROVE  ToSet(Append(s, x)) = ToSet(s) \cup {x}
<1> DEFINE t == Append(s, x)
<1>1. /\ t \in Seq(X) /\ Len(t) = Len(s) + 1 /\ t[Len(s) + 1] = x /\ Len(s) \in Nat
      /\ \A i \in 1..Len(s) : t[i] = s[i]
  BY AppendProperties
<1> HIDE DEF t
<1>2. ToSet(t) \subseteq ToSet(s) \cup {x}
  <2>1. ASSUME NEW i \in 1..Len(t) PROVE t[i] \in ToSet(s) \cup {x}
    <3>1. i \in 1..Len(s) \/ i = Len(s) + 1
      BY <1>1
    <3> QED BY <3>1, <1>1, ElementsOf
  <2> QED BY <2>1, <1>1, ElementsOf
<1>3. ToSet(s) \subseteq ToSet(t)
  <2>1. ASSUME NEW i \in 1..Len(s) PROVE s[i] \in ToSet(t)
    <3>1. i \in 1..Len(t) /\ t[i] = s[i]
      BY <1>1
    <3> QED BY <3>1, <1>1, ElementsOf
  <2> QED BY <2>1, ElementsOf
<1>4. x \in ToSet(t)
  <2>1. Len(s) + 1 \in 1..Len(t)
    BY <1>1
  <2> QED BY <2>1, <1>1, ElementsOf
<1> QED BY <1>2, <1>3, <1>4 DEF t

LEMMA ElementsOfConcat ==
  ASSUME NEW X, NEW s \in Seq(X), NEW t \in Seq(X)
  PROVE  s \o t \in Seq(X) /\ ToSet(s \o t) = ToSet(s) \cup ToSet(t)
<1> DEFINE u == s \o t
<1>1. /\ u \in Seq(X) /\ Len(u) = Len(s) + Len(t) /\ Len(s) \in Nat /\ Len(t) \in Nat
      /\ \A i \in 1..(Len(s) + Len(t)) : u[i] = IF i <= Len(s) THEN s[i] ELSE t[i - Len(s)]
  BY ConcatProperties
<1> HIDE DEF u
<1>2. ToSet(u) \subseteq ToSet(s) \cup ToSet(t)
  <2>1. ASSUME NEW i \in 1..Len(u) PROVE u[i] \in ToSet(s) \cup ToSet(t)
    <3>1. CASE i <= Len(s)
      <4>1. i \in 1..Len(s) /\ u[i] = s[i]
        BY <3>1, <1>1
      <4> QED BY <4>1, ElementsOf
    <3>2. CASE i > Len(s)
      <4>1. i - Len(s) \in 1..Len(t) /\ u[i] = t[i - Len(s)]
        BY <3>2, <1>1
      <4> QED BY <4>1, ElementsOf
    <3> QED BY <3>1, <3>2, <1>1
  <2> QED BY <2>1, <1>1, ElementsOf
<1>3. ToSet(s) \subseteq ToSet(u)
  <2>1. ASSUME NEW i \in 1..Len(s) PROVE s[i] \in ToSet(u)
    <3>1. i \in 1..Len(u) /\ u[i] = s[i]
      BY <1>1
    <3> QED BY <3>1, <1>1, ElementsOf
  <2> QED BY <2>1, ElementsOf
<1>4. ToSet(t) \subseteq ToSet(u)
  <2>1. ASSUME NEW i \in 1..Len(t) PROVE t[i] \in ToSet(u)
    <3>1. Len(s) + i \in 1..(Len(s) + Len(t)) /\ ~(Len(s) + i <= Len(s)) /\ (Len(s) + i) - Len(s) = i
      BY <1>1
    <3>2. u[Len(s) + i] = t[i]
      BY <3>1, <1>1
    <3>3. \E k \in 1..Len(u) : u[k] = t[i]
      BY <3>1, <3>2, <1>1
    <3>4. ToSet(u) = {u[k] : k \in 1..Len(u)}
      BY <1>1, ElementsOf
    <3> QED BY <3>3, <3>4
  <2> QED BY <2>1, ElementsOf
<1> QED BY <1>1, <1>2, <1>3, <1>4 DEF u

LEMMA ShortLists ==
  ASSUME NEW a, NEW b
  PROVE  /\ <<a>> # <<>> /\ <<a, b>> # <<>>
         /\ Head(<<a>>) = a /\ Head(<<a, b>>) = a
         /\ Tail(<<a>>) = <<>> /\ Tail(<<a, b>>) = <<b>>
         /\ Append(<<>>, a) = <<a>> /\ Append(<<a>>, b) = <<a, b>>
<1> DEFINE S == {a, b}
<1>1. <<a>> \in Seq(S) /\ <<a, b>> \in Seq(S) /\ <<b>> \in Seq(S) /\ <<>> \in Seq(S)
  OBVIOUS
<1>2. /\ Len(<<a>>) = 1 /\ Len(<<a, b>>) = 2 /\ Len(<<b>>) = 1 /\ Len(<<>>) = 0
      /\ <<a>>[1] = a /\ <<a, b>>[1] = a /\ <<a, b>>[2] = b /\ <<b>>[1] = b
  OBVIOUS
<1>3. <<a>> # <<>> /\ <<a, b>> # <<>>
  BY <1>2
<1>4. Head(<<a>>) = a /\ Head(<<a, b>>) = a
  OBVIOUS
<1>5. Tail(<<a>>) = <<>>
  <2>1. Tail(<<a>>) \in Seq(S) /\ Len(Tail(<<a>>)) = 0
    BY <1>1, <1>2, <1>3, HeadTailProperties
  <2> QED BY <2>1, EmptySeq
<1>6. Tail(<<a, b>>) = <<b>>
  <2>1. /\ Tail(<<a, b>>) \in Seq(S) /\ Len(Tail(<<a, b>>)) = 1
        /\ Tail(<<a, b>>)[1] = b
    BY <1>1, <1>2, <1>3, HeadTailProperties
  <2> QED BY <1>1, <1>2, <2>1, SeqEqual
<1>7. Append(<<>>, a) = <<a>>
  OBVIOUS
<1>8. Append(<<a>>, b) = <<a, b>>
  <2>1. /\ Append(<<a>>, b) \in Seq(S) /\ Len(Append(<<a>>, b)) = 2
        /\ Append(<<a>>, b)[1] = a /\ Append(<<a>>, b)[2] = b
    BY <1>1, <1>2, AppendProperties
  <2>2. \A i \in 1..Len(Append(<<a>>, b)) : Append(<<a>>, b)[i] = <<a, b>>[i]
    BY <1>2, <2>1
  <2> HIDE DEF S
  <2> QED BY <1>1, <1>2, <2>1, <2>2, SeqEqual
<1> QED BY <1>3, <1>4, <1>5, <1>6, <1>7, <1>8

LEMMA AppendOfConcat ==
  ASSUME NEW X, NEW s \in Seq(X), NEW t \in Seq(X), NEW x \in X
  PROVE  s \o Append(t, x) = Append(s \o t, x)
<1>1. <<x>> \in Seq(X) /\ s \o t \in Seq(X)
  BY ElementsOfConcat
<1>2. Append(t, x) = t \o <<x>> /\ Append(s \o t, x) = (s \o t) \o <<x>>
  BY <1>1, AppendIsConcat
<1>3. (s \o t) \o <<x>> = s \o (t \o <<x>>)
  BY <1>1, ConcatAssociative
<1> QED BY <1>2, <1>3

LEMMA PrefixOfConcat ==
  ASSUME NEW X, NEW s \in Seq(X), NEW t \in Seq(X)
  PROVE  IsPrefix(s, s \o t) /\ IsPrefix(s, s)
<1>1. SubSeq(s, 1, Len(s)) = s
  BY SubSeqFull
<1>2. /\ s \o t \in Seq(X) /\ Len(s \o t) = Len(s) + Len(t) /\ Len(s) \in Nat /\ Len(t) \in Nat
      /\ \A i \in 1..Len(s) : (s \o t)[i] = s[i] /\ s[i] \in X
  BY ConcatProperties, LenProperties, ElementOfSeq
<1>3. SubSeq(s \o t, 1, Len(s)) = s
  <2> DEFINE u == SubSeq(s \o t, 1, Len(s))
  <2>1. /\ u \in Seq(X) /\ Len(u) = Len(s)
        /\ \A i \in 1..Len(s) : u[i] = s[i]
    <3>1. 1 \in Int /\ Len(s) \in Int /\ \A i \in 1..Len(s) : (s \o t)[i] \in X
      BY <1>2
    <3>2. /\ u \in Seq(X) /\ Len(u) = IF 1 <= Len(s) THEN Len(s) - 1 + 1 ELSE 0
          /\ \A i \in 1..(Len(s) - 1 + 1) : u[i] = (s \o t)[1 + i - 1]
      BY <3>1, SubSeqProperties
    <3> HIDE DEF u
    <3> QED BY <1>2, <3>2
  <2> HIDE DEF u
  <2>2. u = s
    BY <2>1, SeqEqual
  <2> QED BY <2>2 DEF u
<1> QED BY <1>1, <1>2, <1>3 DEF IsPrefix

-----------------------------------------------------------------------------
(* What Kept selects.                                                      *)

KeptBy(f, s, S) ==
  /\ Kept(s, S) = f[Len(s)]
  /\ f[0] = <<>>
  /\ \A i \in 1..Len(s) :
       f[i] = IF s[i] \in S THEN Append(f[i - 1], s[i]) ELSE f[i - 1]

LEMMA KeptRecursion ==
  ASSUME NEW X, NEW s \in Seq(X), NEW S
  PROVE  \E f \in [0..Len(s) -> Seq(X)] : KeptBy(f, s, S)
<1> DEFINE Step(g, i) == IF i = 0 THEN <<>>
                         ELSE IF s[i] \in S THEN Append(g[i - 1], s[i]) ELSE g[i - 1]
           f == CHOOSE g : g = [i \in 0..Len(s) |-> Step(g, i)]
           step == [i \in 1..Len(s) |-> [t \in Seq(X) |->
                     IF s[i] \in S THEN Append(t, s[i]) ELSE t]]
<1>1. Len(s) \in Nat /\ <<>> \in Seq(X) /\ \A i \in 1..Len(s) : s[i] \in X
  BY LenProperties, EmptySeq
<1>2. step \in [1..Len(s) -> [Seq(X) -> Seq(X)]]
  BY <1>1
<1>3. PICK h \in [0..Len(s) -> Seq(X)] :
        h[0] = <<>> /\ \A i \in 1..Len(s) : h[i] = step[i][h[i - 1]]
  <2> HIDE DEF step
  <2>1. \E h \in [0..Len(s) -> Seq(X)] : Recurs(h, <<>>, Len(s), step)
    BY <1>1, <1>2, Recursion
  <2> QED BY <2>1 DEF Recurs
<1>4. ASSUME NEW i \in 0..Len(s) PROVE h[i] = Step(h, i)
  <2>1. CASE i = 0
    BY <1>3, <2>1
  <2>2. CASE i # 0
    <3>1. i \in 1..Len(s) /\ h[i - 1] \in Seq(X)
      BY <2>2
    <3>2. h[i] = IF s[i] \in S THEN Append(h[i - 1], s[i]) ELSE h[i - 1]
      BY <1>3, <3>1
    <3> QED BY <2>2, <3>2
  <2> QED BY <2>1, <2>2
<1>5. h = [i \in 0..Len(s) |-> Step(h, i)]
  BY <1>4
<1>6. f = [i \in 0..Len(s) |-> Step(f, i)]
  <2> HIDE DEF step
  <2> QED BY <1>5
<1>7. Kept(s, S) = f[Len(s)]
  BY DEF Kept
<1> HIDE DEF f
<1>8. ASSUME NEW i \in 1..Len(s)
      PROVE  f[i] = IF s[i] \in S THEN Append(f[i - 1], s[i]) ELSE f[i - 1]
  <2>1. i \in 0..Len(s) /\ i # 0
    OBVIOUS
  <2> QED BY <1>6, <2>1
<1>9. f[0] = <<>>
  BY <1>1, <1>6
<1>10. f \in [0..Len(s) -> Seq(X)]
  <2> DEFINE N == {n \in Nat : n <= Len(s) => f[n] \in Seq(X)}
  <2>1. 0 \in N
    BY <1>1, <1>9
  <2>2. ASSUME NEW n \in Nat, n \in N PROVE n + 1 \in N
    <3> SUFFICES ASSUME n + 1 <= Len(s) PROVE f[n + 1] \in Seq(X)
      OBVIOUS
    <3>1. n + 1 \in 1..Len(s) /\ f[n] \in Seq(X) /\ s[n + 1] \in X
      BY <1>1, <2>2
    <3>2. f[n + 1] = IF s[n + 1] \in S THEN Append(f[n], s[n + 1]) ELSE f[n]
      BY <1>8, <3>1
    <3> QED BY <3>1, <3>2
  <2>3. N \in SUBSET Nat
    OBVIOUS
  <2> HIDE DEF N
  <2>4. N = Nat
    BY <2>1, <2>2, <2>3, Induction
  <2>5. \A i \in 0..Len(s) : f[i] \in Seq(X)
    BY <2>4 DEF N
  <2> QED BY <1>6, <2>5
<1> QED BY <1>7, <1>8, <1>9, <1>10 DEF KeptBy

LEMMA KeptElements ==
  ASSUME NEW X, NEW s \in Seq(X), NEW S
  PROVE  Kept(s, S) \in Seq(X) /\ ToSet(Kept(s, S)) = ToSet(s) \cap S
<1>1. PICK f \in [0..Len(s) -> Seq(X)] :
        /\ Kept(s, S) = f[Len(s)]
        /\ f[0] = <<>>
        /\ \A i \in 1..Len(s) :
             f[i] = IF s[i] \in S THEN Append(f[i - 1], s[i]) ELSE f[i - 1]
  BY KeptRecursion DEF KeptBy
<1> DEFINE First(n) == {s[i] : i \in 1..n}
           N == {n \in Nat : n <= Len(s) => f[n] \in Seq(X) /\ ToSet(f[n]) = First(n) \cap S}
<1>2. 0 \in N
  <2>1. f[0] \in Seq(X) /\ ToSet(f[0]) = {} /\ First(0) = {}
    <3>1. <<>> \in Seq(X) /\ ToSet(<<>>) = {}
      BY EmptySeq DEF ToSet
    <3> QED BY <3>1, <1>1
  <2> QED BY <2>1
<1>3. ASSUME NEW n \in Nat, n \in N PROVE n + 1 \in N
  <2> SUFFICES ASSUME n + 1 <= Len(s)
               PROVE  f[n + 1] \in Seq(X) /\ ToSet(f[n + 1]) = First(n + 1) \cap S
    OBVIOUS
  <2>1. f[n] \in Seq(X) /\ ToSet(f[n]) = First(n) \cap S
    BY <1>3
  <2>2. n + 1 \in 1..Len(s) /\ s[n + 1] \in X
    OBVIOUS
  <2>3. First(n + 1) = First(n) \cup {s[n + 1]}
    OBVIOUS
  <2>4. f[n + 1] = IF s[n + 1] \in S THEN Append(f[n], s[n + 1]) ELSE f[n]
    BY <1>1, <2>2
  <2>5. CASE s[n + 1] \in S
    <3>1. f[n + 1] \in Seq(X) /\ ToSet(f[n + 1]) = ToSet(f[n]) \cup {s[n + 1]}
      BY <2>1, <2>2, <2>4, <2>5, ElementsOfAppend
    <3> QED BY <3>1, <2>1, <2>3, <2>5
  <2>6. CASE s[n + 1] \notin S
    BY <2>1, <2>3, <2>4, <2>6
  <2> QED BY <2>5, <2>6
<1>4. N = Nat
  <2> HIDE DEF N
  <2>1. N \in SUBSET Nat
    BY DEF N
  <2> QED BY <1>2, <1>3, <2>1, Induction
<1>5. Kept(s, S) \in Seq(X) /\ ToSet(Kept(s, S)) = First(Len(s)) \cap S
  <2>1. Len(s) \in N
    BY <1>4, LenProperties
  <2> QED BY <2>1, <1>1
<1> QED BY <1>5, ElementsOf

LEMMA KeptNone ==
  ASSUME NEW X, NEW s \in Seq(X), NEW S, ToSet(s) \cap S = {}
  PROVE  Kept(s, S) = <<>>
BY KeptElements, ElementsOf

LEMMA KeptEmpty ==
  ASSUME NEW S
  PROVE  Kept(<<>>, S) = <<>>
<1>1. <<>> \in Seq({}) /\ ToSet(<<>>) = {}
  BY EmptySeq, ElementsOf
<1> QED BY <1>1, KeptNone

LEMMA KeptAppend ==
  ASSUME NEW X, NEW s \in Seq(X), NEW x \in X, NEW S
  PROVE  Kept(Append(s, x), S) = IF x \in S THEN Append(Kept(s, S), x) ELSE Kept(s, S)
<1> DEFINE t == Append(s, x)
<1>1. /\ t \in Seq(X) /\ Len(t) = Len(s) + 1 /\ t[Len(s) + 1] = x /\ Len(s) \in Nat
      /\ \A i \in 1..Len(s) : t[i] = s[i]
  BY AppendProperties, LenProperties
<1>2. PICK f \in [0..Len(s) -> Seq(X)] : KeptBy(f, s, S)
  BY KeptRecursion
<1> HIDE DEF t
<1>3. PICK g \in [0..Len(t) -> Seq(X)] : KeptBy(g, t, S)
  BY <1>1, KeptRecursion
<1>4. GoAlike(f, g, Len(s))
  <2>1. ASSUME NEW i \in 1..Len(s), f[i - 1] = g[i - 1] PROVE f[i] = g[i]
    <3>1. i \in 1..Len(t) /\ t[i] = s[i]
      BY <1>1
    <3> QED BY <1>2, <1>3, <2>1, <3>1 DEF KeptBy
  <2> QED BY <1>2, <1>3, <2>1 DEF KeptBy, GoAlike
<1>5. f[Len(s)] = g[Len(s)]
  BY <1>1, <1>4, SameRecursion
<1>6. g[Len(s) + 1] = IF x \in S THEN Append(g[Len(s)], x) ELSE g[Len(s)]
  <2>1. Len(s) + 1 \in 1..Len(t) /\ (Len(s) + 1) - 1 = Len(s)
    BY <1>1
  <2> QED BY <1>1, <1>3, <2>1 DEF KeptBy
<1>7. Kept(s, S) = f[Len(s)] /\ Kept(t, S) = g[Len(s) + 1]
  BY <1>1, <1>2, <1>3 DEF KeptBy
<1> QED BY <1>5, <1>6, <1>7 DEF t

LEMMA KeptShort ==
  ASSUME NEW a, NEW S
  PROVE  Kept(<<a>>, S) = IF a \in S THEN <<a>> ELSE <<>>
<1>1. <<>> \in Seq({a}) /\ a \in {a}
  BY EmptySeq
<1>2. Append(<<>>, a) = <<a>>
  BY ShortLists
<1>3. Kept(Append(<<>>, a), S) = IF a \in S THEN Append(Kept(<<>>, S), a) ELSE Kept(<<>>, S)
  BY <1>1, KeptAppend
<1> QED BY <1>2, <1>3, KeptEmpty

\* Only what the list holds matters.
LEMMA KeptSame ==
  ASSUME NEW X, NEW s \in Seq(X), NEW S, NEW T, ToSet(s) \cap S = ToSet(s) \cap T
  PROVE  Kept(s, S) = Kept(s, T)
<1>1. Len(s) \in Nat /\ \A i \in 1..Len(s) : s[i] \in S <=> s[i] \in T
  BY LenProperties, ElementsOf
<1>2. PICK f \in [0..Len(s) -> Seq(X)] : KeptBy(f, s, S)
  BY KeptRecursion
<1>3. PICK g \in [0..Len(s) -> Seq(X)] : KeptBy(g, s, T)
  BY KeptRecursion
<1>4. GoAlike(f, g, Len(s))
  BY <1>1, <1>2, <1>3 DEF KeptBy, GoAlike
<1>5. f[Len(s)] = g[Len(s)]
  BY <1>1, <1>4, SameRecursion
<1> QED BY <1>2, <1>3, <1>5 DEF KeptBy

LEMMA KeptAll ==
  ASSUME NEW X, NEW s \in Seq(X), NEW S, ToSet(s) \subseteq S
  PROVE  Kept(s, S) = s
<1> DEFINE P == {t \in Seq(X) : ToSet(t) \subseteq S => Kept(t, S) = t}
<1>1. <<>> \in P
  BY KeptEmpty, EmptySeq
<1>2. ASSUME NEW t \in Seq(X), NEW x \in X, t \in P PROVE Append(t, x) \in P
  <2>1. Append(t, x) \in Seq(X) /\ ToSet(Append(t, x)) = ToSet(t) \cup {x}
    BY AppendProperties, ElementsOfAppend
  <2>2. Kept(Append(t, x), S) = IF x \in S THEN Append(Kept(t, S), x) ELSE Kept(t, S)
    BY KeptAppend
  <2> QED BY <1>2, <2>1, <2>2
<1>3. P \in SUBSET Seq(X)
  OBVIOUS
<1> HIDE DEF P
<1>4. P = Seq(X)
  BY <1>1, <1>2, <1>3, ListInduction
<1> QED BY <1>4 DEF P

LEMMA KeptConcat ==
  ASSUME NEW X, NEW s \in Seq(X), NEW t \in Seq(X), NEW S
  PROVE  Kept(s \o t, S) = Kept(s, S) \o Kept(t, S)
<1> DEFINE P == {u \in Seq(X) : Kept(s \o u, S) = Kept(s, S) \o Kept(u, S)}
<1>1. <<>> \in P
  <2>1. Kept(s, S) \in Seq(X)
    BY KeptElements
  <2> QED BY <2>1, KeptEmpty, ConcatEmptySeq, EmptySeq
<1>2. ASSUME NEW u \in Seq(X), NEW x \in X, u \in P PROVE Append(u, x) \in P
  <2>1. Append(u, x) \in Seq(X) /\ s \o u \in Seq(X)
    BY AppendProperties, ElementsOfConcat
  <2>2. s \o Append(u, x) = Append(s \o u, x)
    BY AppendOfConcat
  <2>3. /\ Kept(Append(s \o u, x), S)
             = IF x \in S THEN Append(Kept(s \o u, S), x) ELSE Kept(s \o u, S)
        /\ Kept(Append(u, x), S) = IF x \in S THEN Append(Kept(u, S), x) ELSE Kept(u, S)
    BY <2>1, KeptAppend
  <2>4. Kept(s \o u, S) = Kept(s, S) \o Kept(u, S)
    BY <1>2
  <2>5. Kept(s, S) \o Append(Kept(u, S), x) = Append(Kept(s, S) \o Kept(u, S), x)
    BY KeptElements, AppendOfConcat
  <2> QED BY <2>1, <2>2, <2>3, <2>4, <2>5
<1>3. P \in SUBSET Seq(X)
  OBVIOUS
<1> HIDE DEF P
<1>4. P = Seq(X)
  BY <1>1, <1>2, <1>3, ListInduction
<1> QED BY <1>4 DEF P

KeptPartwise(s, t, v) ==
  \A S : Kept((s \o t) \o v, S) = (Kept(s, S) \o Kept(t, S)) \o Kept(v, S)

LEMMA KeptConcats ==
  ASSUME NEW X, NEW s \in Seq(X), NEW t \in Seq(X), NEW v \in Seq(X)
  PROVE  KeptPartwise(s, t, v)
<1> SUFFICES ASSUME NEW S
             PROVE  Kept((s \o t) \o v, S) = (Kept(s, S) \o Kept(t, S)) \o Kept(v, S)
  BY DEF KeptPartwise
<1> DEFINE u == s \o t
<1>1. u \in Seq(X)
  BY ElementsOfConcat
<1>2. Kept(u, S) = Kept(s, S) \o Kept(t, S)
  BY KeptConcat
<1> HIDE DEF u
<1>3. Kept(u \o v, S) = Kept(u, S) \o Kept(v, S)
  BY <1>1, KeptConcat
<1> QED BY <1>2, <1>3 DEF u

-----------------------------------------------------------------------------
(* The first that is kept, and sorting.                                    *)

LEMMA FirstAndRest ==
  ASSUME NEW X, NEW s \in Seq(X), NEW x \in X, s # <<>>
  PROVE  /\ Head(s) \in X /\ Head(s) \in ToSet(s) /\ Tail(s) \in Seq(X)
         /\ Head(Append(s, x)) = Head(s) /\ Tail(Append(s, x)) = Append(Tail(s), x)
<1>1. Len(s) \in Nat /\ Len(s) # 0 /\ \A i \in 1..Len(s) : s[i] \in X
  BY EmptySeq, LenProperties
<1>2. Head(s) = s[1] /\ Head(s) \in X /\ Tail(s) \in Seq(X) /\ Len(Tail(s)) = Len(s) - 1
      /\ \A i \in 1..(Len(s) - 1) : Tail(s)[i] = s[i + 1]
  BY <1>1, HeadTailProperties
<1>3. Head(s) \in ToSet(s)
  BY <1>1, <1>2, ElementsOf
<1> DEFINE t == Append(s, x)
<1>4. /\ t \in Seq(X) /\ Len(t) = Len(s) + 1 /\ t[Len(s) + 1] = x
      /\ \A i \in 1..Len(s) : t[i] = s[i]
  BY AppendProperties
<1> HIDE DEF t
<1>5. t # <<>>
  BY <1>1, <1>4, EmptySeq
<1>6. Head(t) = t[1] /\ Tail(t) \in Seq(X) /\ Len(Tail(t)) = Len(t) - 1
      /\ \A i \in 1..(Len(t) - 1) : Tail(t)[i] = t[i + 1]
  BY <1>4, <1>5, HeadTailProperties
<1>7. Head(t) = Head(s)
  BY <1>1, <1>2, <1>4, <1>6
<1> DEFINE u == Append(Tail(s), x)
<1>8. /\ u \in Seq(X) /\ Len(u) = Len(s) /\ u[Len(s)] = x
      /\ \A i \in 1..(Len(s) - 1) : u[i] = s[i + 1]
  BY <1>1, <1>2, AppendProperties
<1> HIDE DEF u
<1>9. \A i \in 1..Len(s) : Tail(t)[i] = u[i]
  <2> TAKE i \in 1..Len(s)
  <2>1. CASE i = Len(s)
    BY <1>1, <1>4, <1>6, <1>8, <2>1
  <2>2. CASE i # Len(s)
    <3>1. i \in 1..(Len(s) - 1) /\ i + 1 \in 1..Len(s) /\ i \in 1..(Len(t) - 1)
      BY <1>1, <1>4, <2>2
    <3> QED BY <1>4, <1>6, <1>8, <3>1
  <2> QED BY <2>1, <2>2
<1>10. Tail(t) = u
  BY <1>1, <1>4, <1>6, <1>8, <1>9, SeqEqual
<1> QED BY <1>2, <1>3, <1>7, <1>10 DEF t, u

LEMMA InjectiveAppend ==
  ASSUME NEW X, NEW s \in Seq(X), NEW x \in X, IsInjective(Append(s, x))
  PROVE  IsInjective(s) /\ x \notin ToSet(s)
<1> DEFINE t == Append(s, x)
<1>1. /\ t \in Seq(X) /\ Len(t) = Len(s) + 1 /\ t[Len(s) + 1] = x
      /\ \A i \in 1..Len(s) : t[i] = s[i]
  BY AppendProperties
<1>2. DOMAIN t = 1..Len(t) /\ DOMAIN s = 1..Len(s) /\ Len(s) \in Nat
  BY <1>1, LenProperties
<1>3. \A i, j \in DOMAIN t : t[i] = t[j] => i = j
  BY DEF IsInjective
<1> HIDE DEF t
<1>4. ASSUME NEW i \in 1..Len(s), NEW j \in 1..Len(s), s[i] = s[j] PROVE i = j
  BY <1>1, <1>2, <1>3, <1>4
<1>5. \A i \in 1..Len(s) : s[i] # x
  <2> TAKE i \in 1..Len(s)
  <2>1. t[i] = s[i] /\ i # Len(s) + 1 /\ i \in DOMAIN t /\ Len(s) + 1 \in DOMAIN t
    BY <1>1, <1>2
  <2> QED BY <1>1, <1>3, <2>1
<1> QED BY <1>2, <1>4, <1>5, ElementsOf DEF IsInjective

\* Where nothing occurs twice, not to keep the first is to keep the rest.
LEMMA KeptRest ==
  ASSUME NEW X, NEW s \in Seq(X), NEW S, IsInjective(s), Kept(s, S) # <<>>
  PROVE  Kept(s, S \ {Head(Kept(s, S))}) = Tail(Kept(s, S))
<1> DEFINE P == {t \in Seq(X) : IsInjective(t) /\ Kept(t, S) # <<>>
                   => Kept(t, S \ {Head(Kept(t, S))}) = Tail(Kept(t, S))}
<1>1. <<>> \in P
  BY EmptySeq, KeptEmpty
<1>2. ASSUME NEW t \in Seq(X), NEW x \in X, t \in P PROVE Append(t, x) \in P
  <2> SUFFICES ASSUME IsInjective(Append(t, x)), Kept(Append(t, x), S) # <<>>
               PROVE  Kept(Append(t, x), S \ {Head(Kept(Append(t, x), S))})
                        = Tail(Kept(Append(t, x), S))
    BY AppendProperties
  <2>1. IsInjective(t) /\ x \notin ToSet(t)
    BY InjectiveAppend
  <2>2. Kept(t, S) \in Seq(X) /\ ToSet(Kept(t, S)) = ToSet(t) \cap S
    BY KeptElements
  <2>3. /\ Kept(Append(t, x), S) = IF x \in S THEN Append(Kept(t, S), x) ELSE Kept(t, S)
        /\ \A h : Kept(Append(t, x), S \ {h}) =
             IF x \in S \ {h} THEN Append(Kept(t, S \ {h}), x) ELSE Kept(t, S \ {h})
    BY KeptAppend
  <2>4. CASE Kept(t, S) = <<>>
    <3>1. x \in S /\ Kept(Append(t, x), S) = <<x>>
      BY <2>3, <2>4, ShortLists
    <3>2. Head(<<x>>) = x /\ Tail(<<x>>) = <<>>
      BY ShortLists
    <3>3. ToSet(t) \cap (S \ {x}) = {}
      BY <2>2, <2>4, EmptySeq, ElementsOf
    <3>4. Kept(t, S \ {x}) = <<>>
      BY <3>3, KeptNone
    <3> QED BY <2>3, <3>1, <3>2, <3>4
  <2>5. CASE Kept(t, S) # <<>>
    <3> DEFINE h == Head(Kept(t, S))
    <3>1. /\ h \in ToSet(t) /\ Tail(Kept(t, S)) \in Seq(X)
          /\ Head(Append(Kept(t, S), x)) = h
          /\ Tail(Append(Kept(t, S), x)) = Append(Tail(Kept(t, S)), x)
      BY <2>2, <2>5, FirstAndRest
    <3>2. Kept(t, S \ {h}) = Tail(Kept(t, S))
      BY <1>2, <2>1, <2>5
    <3> HIDE DEF h
    <3>3. h # x
      BY <2>1, <3>1
    <3>4. Head(Kept(Append(t, x), S)) = h
      BY <2>3, <3>1 DEF h
    <3>5. Kept(Append(t, x), S \ {h}) =
            IF x \in S THEN Append(Tail(Kept(t, S)), x) ELSE Tail(Kept(t, S))
      BY <2>3, <3>2, <3>3
    <3> QED BY <2>3, <3>1, <3>4, <3>5
  <2> QED BY <2>4, <2>5
<1>3. P \in SUBSET Seq(X)
  OBVIOUS
<1> HIDE DEF P
<1>4. P = Seq(X)
  BY <1>1, <1>2, <1>3, ListInduction
<1> QED BY <1>4 DEF P

LEMMA KeptSplit ==
  ASSUME NEW X, NEW s \in Seq(X), NEW S
  PROVE  Len(Kept(s, X \ S)) + Len(Kept(s, S)) = Len(s)
<1> DEFINE P == {t \in Seq(X) : Len(Kept(t, X \ S)) + Len(Kept(t, S)) = Len(t)}
<1>1. <<>> \in P
  BY EmptySeq, KeptEmpty
<1>2. ASSUME NEW t \in Seq(X), NEW x \in X, t \in P PROVE Append(t, x) \in P
  <2>1. Append(t, x) \in Seq(X) /\ Len(Append(t, x)) = Len(t) + 1
    BY AppendProperties
  <2>2. \A T : Kept(Append(t, x), T) = IF x \in T THEN Append(Kept(t, T), x) ELSE Kept(t, T)
    BY KeptAppend
  <2>3. /\ Kept(t, S) \in Seq(X) /\ Kept(t, X \ S) \in Seq(X)
        /\ Len(Kept(t, S)) \in Nat /\ Len(Kept(t, X \ S)) \in Nat /\ Len(t) \in Nat
    BY KeptElements, LenProperties
  <2>4. /\ Len(Append(Kept(t, S), x)) = Len(Kept(t, S)) + 1
        /\ Len(Append(Kept(t, X \ S), x)) = Len(Kept(t, X \ S)) + 1
    BY <2>3, AppendProperties
  <2>5. Len(Kept(t, X \ S)) + Len(Kept(t, S)) = Len(t)
    BY <1>2
  <2>6. CASE x \in S
    <3>1. Kept(Append(t, x), S) = Append(Kept(t, S), x)
      BY <2>2, <2>6
    <3>2. Kept(Append(t, x), X \ S) = Kept(t, X \ S)
      BY <2>2, <2>6
    <3> QED BY <2>1, <2>3, <2>4, <2>5, <3>1, <3>2
  <2>7. CASE x \notin S
    <3>1. Kept(Append(t, x), S) = Kept(t, S)
      BY <2>2, <2>7
    <3>2. Kept(Append(t, x), X \ S) = Append(Kept(t, X \ S), x)
      BY <2>2, <2>7
    <3> QED BY <2>1, <2>3, <2>4, <2>5, <3>1, <3>2
  <2> QED BY <2>6, <2>7
<1>3. P \in SUBSET Seq(X)
  OBVIOUS
<1> HIDE DEF P
<1>4. P = Seq(X)
  BY <1>1, <1>2, <1>3, ListInduction
<1> QED BY <1>4 DEF P

\* Inserting x into t where L are the elements that come after x.
LEMMA InsertedOnce ==
  ASSUME NEW X, NEW t \in Seq(X), NEW x \in X, NEW L
  PROVE  LET r == Append(Kept(t, X \ L), x) \o Kept(t, L)
         IN  r \in Seq(X) /\ Len(r) = Len(t) + 1 /\ ToSet(r) = ToSet(t) \cup {x}
<1> DEFINE a == Kept(t, X \ L)
           b == Kept(t, L)
           c == Append(a, x)
<1>1. /\ a \in Seq(X) /\ ToSet(a) = ToSet(t) \cap (X \ L)
      /\ b \in Seq(X) /\ ToSet(b) = ToSet(t) \cap L
  BY KeptElements
<1>2. Len(a) + Len(b) = Len(t)
  BY KeptSplit
<1>3. ToSet(t) \subseteq X
  BY ElementsOf
<1> HIDE DEF a, b
<1>4. c \in Seq(X) /\ Len(c) = Len(a) + 1 /\ ToSet(c) = ToSet(a) \cup {x}
  BY <1>1, AppendProperties, ElementsOfAppend
<1> HIDE DEF c
<1>5. Len(a) \in Nat /\ Len(b) \in Nat /\ Len(c) \in Nat /\ Len(t) \in Nat
  BY <1>1, <1>4, LenProperties
<1>6. /\ c \o b \in Seq(X) /\ ToSet(c \o b) = ToSet(c) \cup ToSet(b)
      /\ Len(c \o b) = Len(c) + Len(b)
  <2>1. b \in Seq(X) /\ c \in Seq(X)
    BY <1>1, <1>4
  <2>2. c \o b \in Seq(X) /\ ToSet(c \o b) = ToSet(c) \cup ToSet(b)
    BY <2>1, ElementsOfConcat
  <2>3. Len(c \o b) = Len(c) + Len(b)
    BY <2>1, ConcatProperties
  <2> QED BY <2>2, <2>3
<1>7. Len(c \o b) = Len(t) + 1
  BY <1>2, <1>4, <1>5, <1>6
<1>8. ToSet(c \o b) = ToSet(t) \cup {x}
  BY <1>1, <1>3, <1>4, <1>6
<1> QED BY <1>6, <1>7, <1>8 DEF a, b, c

\* A sorted list has what the list has, as often.
LEMMA SortedElements ==
  ASSUME NEW X, NEW s \in Seq(X), NEW Before
  PROVE  /\ Sorted(s, Before) \in Seq(X)
         /\ Len(Sorted(s, Before)) = Len(s) /\ ToSet(Sorted(s, Before)) = ToSet(s)
<1> DEFINE Y == ToSet(s)
           Later(x) == {y \in ToSet(s) : <<x, y>> \in Before}
           insert == [x \in ToSet(s) |-> [t \in Seq(ToSet(s)) |->
                       Append(Kept(t, ToSet(s) \ Later(x)), x) \o Kept(t, Later(x))]]
           Step(g, i) == IF i = 0 THEN <<>> ELSE insert[s[i]][g[i - 1]]
           f == CHOOSE g : g = [i \in 0..Len(s) |-> Step(g, i)]
           step == [i \in 1..Len(s) |-> insert[s[i]]]
<1>1. /\ Len(s) \in Nat /\ <<>> \in Seq(Y) /\ Y \subseteq X
      /\ Y = {s[i] : i \in 1..Len(s)} /\ DOMAIN s = 1..Len(s)
      /\ s \in Seq(Y)
  <2>1. /\ Len(s) \in Nat /\ <<>> \in Seq(Y) /\ Y \subseteq X /\ DOMAIN s = 1..Len(s)
        /\ Y = {s[i] : i \in 1..Len(s)}
    BY LenProperties, EmptySeq, ElementsOf
  <2>2. \A i \in 1..Len(s) : s[i] \in Y
    BY <2>1
  <2>3. s = [i \in 1..Len(s) |-> s[i]]
    BY LenProperties, SeqDef
  <2> HIDE DEF Y
  <2>4. s \in [1..Len(s) -> Y]
    BY <2>2, <2>3
  <2>5. s \in Seq(Y)
    <3>1. Seq(Y) = UNION {[1..n -> Y] : n \in Nat}
      BY SeqDef
    <3> QED BY <2>1, <2>4, <3>1
  <2> QED BY <2>1, <2>5 DEF Y
<1>2. ASSUME NEW x \in Y, NEW t \in Seq(Y)
      PROVE  /\ insert[x][t] \in Seq(Y) /\ Len(insert[x][t]) = Len(t) + 1
             /\ ToSet(insert[x][t]) = ToSet(t) \cup {x}
  <2>1. insert[x][t] = Append(Kept(t, Y \ Later(x)), x) \o Kept(t, Later(x))
    OBVIOUS
  <2> HIDE DEF Y, Later, insert
  <2> QED BY <2>1, InsertedOnce
<1>3. step \in [1..Len(s) -> [Seq(Y) -> Seq(Y)]]
  <2>1. insert = [x \in Y |-> [t \in Seq(Y) |-> insert[x][t]]]
    OBVIOUS
  <2>2. \A i \in 1..Len(s) : s[i] \in Y
    BY <1>1
  <2> HIDE DEF Y, insert
  <2>3. insert \in [Y -> [Seq(Y) -> Seq(Y)]]
    BY <1>2, <2>1
  <2> QED BY <2>2, <2>3
<1>4. PICK h \in [0..Len(s) -> Seq(Y)] :
        h[0] = <<>> /\ \A i \in 1..Len(s) : h[i] = step[i][h[i - 1]]
  <2> HIDE DEF step, Y
  <2>1. \E h \in [0..Len(s) -> Seq(Y)] : Recurs(h, <<>>, Len(s), step)
    BY <1>1, <1>3, Recursion
  <2> QED BY <2>1 DEF Recurs
<1>5. ASSUME NEW i \in 0..Len(s) PROVE h[i] = Step(h, i)
  <2> HIDE DEF insert, Y
  <2>1. CASE i = 0
    BY <1>4, <2>1
  <2>2. CASE i # 0
    <3>1. i \in 1..Len(s)
      BY <2>2
    <3>2. h[i] = step[i][h[i - 1]] /\ step[i] = insert[s[i]]
      BY <1>4, <3>1
    <3> QED BY <2>2, <3>2
  <2> QED BY <2>1, <2>2
<1>6. f = [i \in 0..Len(s) |-> Step(f, i)]
  <2>1. h = [i \in 0..Len(s) |-> Step(h, i)]
    <3> HIDE DEF Step, Y
    <3> QED BY <1>5
  <2> HIDE DEF Step
  <2> QED BY <2>1
<1>7. Sorted(s, Before) = f[Len(s)]
  BY DEF Sorted
<1> HIDE DEF f
<1>8. f[0] = <<>> /\ \A i \in 1..Len(s) : f[i] = insert[s[i]][f[i - 1]]
  <2> HIDE DEF insert
  <2>1. \A i \in 0..Len(s) : f[i] = Step(f, i)
    BY <1>6
  <2>2. 0 \in 0..Len(s) /\ \A i \in 1..Len(s) : i \in 0..Len(s) /\ i # 0
    BY <1>1
  <2> QED BY <2>1, <2>2
<1> HIDE DEF insert, step
<1> DEFINE N == {n \in Nat : n <= Len(s) =>
                   /\ f[n] \in Seq(Y) /\ Len(f[n]) = n
                   /\ ToSet(f[n]) = {s[i] : i \in 1..n}}
<1>9. 0 \in N
  <2>1. Len(<<>>) = 0 /\ ToSet(<<>>) = {} /\ {s[i] : i \in 1..0} = {}
    BY <1>1, EmptySeq, ElementsOf
  <2> QED BY <1>1, <1>8, <2>1
<1>10. ASSUME NEW n \in Nat, n \in N PROVE n + 1 \in N
  <2> SUFFICES ASSUME n + 1 <= Len(s)
               PROVE  /\ f[n + 1] \in Seq(Y) /\ Len(f[n + 1]) = n + 1
                      /\ ToSet(f[n + 1]) = {s[i] : i \in 1..(n + 1)}
    OBVIOUS
  <2>1. n + 1 \in 1..Len(s) /\ (n + 1) - 1 = n
    BY <1>1
  <2>2. /\ f[n] \in Seq(Y) /\ Len(f[n]) = n /\ ToSet(f[n]) = {s[i] : i \in 1..n}
    BY <1>1, <1>10
  <2>3. s[n + 1] \in Y
    BY <1>1, <2>1
  <2>4. f[n + 1] = insert[s[n + 1]][f[n]]
    BY <1>8, <2>1
  <2>5. {s[i] : i \in 1..(n + 1)} = {s[i] : i \in 1..n} \cup {s[n + 1]}
    <3>1. 1..(n + 1) = (1..n) \cup {n + 1}
      OBVIOUS
    <3> QED BY <3>1
  <2> HIDE DEF Y
  <2> QED BY <1>2, <2>2, <2>3, <2>4, <2>5
<1>11. N \in SUBSET Nat
  OBVIOUS
<1> HIDE DEF N
<1>12. N = Nat
  BY <1>9, <1>10, <1>11, Induction
<1>13. /\ f[Len(s)] \in Seq(Y) /\ Len(f[Len(s)]) = Len(s)
       /\ ToSet(f[Len(s)]) = {s[i] : i \in 1..Len(s)}
  <2>1. Len(s) \in N
    BY <1>1, <1>12
  <2> HIDE DEF Y
  <2> QED BY <1>1, <2>1 DEF N
<1>14. Seq(Y) \subseteq Seq(X)
  <2> HIDE DEF Y
  <2> QED BY <1>1, SeqDef
<1> QED BY <1>1, <1>7, <1>13, <1>14
=============================================================================
