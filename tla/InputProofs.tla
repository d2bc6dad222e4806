---------------------------- MODULE InputProofs ----------------------------
(***************************************************************************)
(* The line handed to execute_command is always terminated and an empty    *)
(* ring is really empty, for every size of the two buffers, as long as the *)
(* ring is not overrun.                                                    *)
(***************************************************************************)
EXTENDS Input, TLAPS, WellFoundedInduction, FiniteSetTheorems, SequenceTheorems

\* Two numbers less than n apart have different remainders modulo n.
LEMMA ModDistinct ==
    ASSUME NEW n \in Nat \ {0}, NEW a \in Nat, NEW b \in Nat,
           a <= b, b - a < n, a % n = b % n
    PROVE  a = b
<1> DEFINE p == a \div n
           q == b \div n
<1>1. p \in Int /\ q \in Int /\ a = n * p + (a % n) /\ b = n * q + (b % n)
  OBVIOUS
<1> HIDE DEF p, q
<1>2. b - a = n * (q - p)
  BY <1>1
<1>3. q - p < 1
  <2> SUFFICES ASSUME q - p >= 1 PROVE FALSE
    BY <1>1
  <2>1. n * (q - p) >= n
    BY <1>1
  <2>2. QED
    BY <1>2, <2>1
<1>4. q - p > -1
  <2> SUFFICES ASSUME q - p <= -1 PROVE FALSE
    BY <1>1
  <2>1. n * (q - p) <= -n
    BY <1>1
  <2>2. QED
    BY <1>2, <2>1
<1>5. q = p
  BY <1>1, <1>3, <1>4
<1>6. QED
  BY <1>1, <1>5

\* Moving an index forward counts one more modulo the size.
LEMMA ModNext ==
    ASSUME NEW n \in Nat \ {0}, NEW a \in Nat
    PROVE  ((a % n) + 1) % n = (a + 1) % n
<1> DEFINE p == a \div n
           r == a % n
           q == (a + 1) \div n
           s == (a + 1) % n
<1>1. p \in Int /\ r \in 0 .. (n - 1) /\ a = n * p + r
      /\ q \in Int /\ s \in 0 .. (n - 1) /\ a + 1 = n * q + s
  OBVIOUS
<1>2. ((r + 1) \div n) \in Int /\ ((r + 1) % n) \in 0 .. (n - 1)
      /\ r + 1 = n * ((r + 1) \div n) + ((r + 1) % n)
  BY <1>1
<1> DEFINE u == (r + 1) \div n
           t == (r + 1) % n
<1> HIDE DEF p, r, q, s, u, t
<1>3. n * (q - p - u) = t - s
  BY <1>1, <1>2 DEF u, t
<1>4. t - s \in Int /\ t - s < n /\ t - s > -n
  BY <1>1, <1>2 DEF u, t
<1>5. q - p - u < 1
  <2> SUFFICES ASSUME q - p - u >= 1 PROVE FALSE
    BY <1>1, <1>2 DEF u
  <2>1. n * (q - p - u) >= n
    BY <1>1, <1>2 DEF u
  <2>2. QED
    BY <1>3, <1>4, <2>1
<1>6. q - p - u > -1
  <2> SUFFICES ASSUME q - p - u <= -1 PROVE FALSE
    BY <1>1, <1>2 DEF u
  <2>1. n * (q - p - u) <= -n
    BY <1>1, <1>2 DEF u
  <2>2. QED
    BY <1>3, <1>4, <2>1
<1>7. q - p - u = 0
  BY <1>1, <1>2, <1>5, <1>6 DEF u
<1>8. t = s
  BY <1>1, <1>2, <1>3, <1>7 DEF u, t
<1>9. QED
  BY <1>8 DEF t, s, r

\* A set of numbers that is not empty has a least element.
LEMMA LowestOf ==
    ASSUME NEW S, S \subseteq Nat, S # {}
    PROVE  \E f \in S : \A g \in S : f <= g
<1>1. IsWellFoundedOn(OpToRel(<, Nat), Nat)
  BY NatLessThanWellFounded
<1>2. PICK f \in S : \A g \in S : ~ (<<g, f>> \in OpToRel(<, Nat))
  BY <1>1, WFMin
<1>3. ASSUME NEW g \in S PROVE f <= g
  <2>1. f \in Nat /\ g \in Nat
    OBVIOUS
  <2>2. <<g, f>> \in Nat \X Nat /\ <<g, f>>[1] = g /\ <<g, f>>[2] = f
    BY <2>1
  <2>3. ~ (<<g, f>>[1] < <<g, f>>[2])
    BY <1>2, <2>2, Zenon DEF OpToRel
  <2>4. QED
    BY <2>1, <2>3
<1>4. QED
  BY <1>2, <1>3

-----------------------------------------------------------------------------
(* The words of a line                                                      *)

\* Where words start when reading starts at i.
StartsFrom(s, i) == {j \in i .. Len(s) : s[j] # Space /\ (j = i \/ s[j - 1] = Space)}
\* The members of W up to j, and the n-th member of W.
UpTo(W, j) == {k \in W : k <= j}
Nth(W, n) == CHOOSE j \in W : Cardinality(UpTo(W, j)) = n
\* Every member has its number and every number up to the last its member.
Ranked(W) ==
    /\ IsFiniteSet(W) /\ Cardinality(W) \in Nat
    /\ \A n \in 1 .. Cardinality(W) : Nth(W, n) \in W /\ Cardinality(UpTo(W, Nth(W, n))) = n
    /\ \A j \in W, k \in W : Cardinality(UpTo(W, j)) = Cardinality(UpTo(W, k)) => j = k
    /\ \A j \in W : Cardinality(UpTo(W, j)) \in 1 .. Cardinality(W)

\* One more member, below the others: it is the first, the others move up.
LEMMA RankedMore ==
    ASSUME NEW V, NEW a, NEW W, Ranked(V), V \subseteq Nat, a \in Nat, \A v \in V : a < v,
           \A k : k \in W <=> k \in V \/ k = a
    PROVE  /\ Ranked(W) /\ Cardinality(W) = Cardinality(V) + 1
           /\ Nth(W, 1) = a
           /\ \A n \in 1 .. Cardinality(V) : Nth(W, n + 1) = Nth(V, n)
<1>0. W = V \cup {a}
  OBVIOUS
<1>1. a \notin V
  OBVIOUS
<1>2. IsFiniteSet(W) /\ Cardinality(W) = Cardinality(V) + 1 /\ Cardinality(V) \in Nat
  BY <1>0, <1>1, FS_AddElement DEF Ranked
<1>3. Cardinality(UpTo(W, a)) = 1
  <2>1. ASSUME NEW k \in UpTo(W, a) PROVE k = a
    <3>1. k \in W /\ k <= a
      BY DEF UpTo
    <3>2. CASE k \in V
      <4>1. a < k /\ k \in Nat
        BY <3>2
      <4>2. QED
        BY <3>1, <4>1
    <3>3. QED
      BY <3>1, <3>2
  <2>2. a \in UpTo(W, a)
    BY DEF UpTo
  <2>3. UpTo(W, a) = {a}
    BY <2>1, <2>2
  <2>4. QED
    BY <2>3, FS_Singleton
<1>4. ASSUME NEW j \in V
      PROVE  /\ Cardinality(UpTo(V, j)) \in 1 .. Cardinality(V)
             /\ Cardinality(UpTo(W, j)) = Cardinality(UpTo(V, j)) + 1
  <2>1. UpTo(W, j) = UpTo(V, j) \cup {a}
    BY DEF UpTo
  <2>2. a \notin UpTo(V, j) /\ UpTo(V, j) \in SUBSET V
    BY <1>1 DEF UpTo
  <2>3. IsFiniteSet(UpTo(V, j))
    BY <2>2, FS_Subset DEF Ranked
  <2>4. QED
    BY <2>1, <2>2, <2>3, FS_AddElement DEF Ranked
<1>5. \A j \in W, k \in W : Cardinality(UpTo(W, j)) = Cardinality(UpTo(W, k)) => j = k
  <2> SUFFICES ASSUME NEW j \in W, NEW k \in W,
                      Cardinality(UpTo(W, j)) = Cardinality(UpTo(W, k))
               PROVE  j = k
    OBVIOUS
  <2>1. CASE j = a \/ k = a
    <3>1. ASSUME NEW v \in V PROVE Cardinality(UpTo(W, v)) # 1
      <4>1. Cardinality(UpTo(W, v)) = Cardinality(UpTo(V, v)) + 1
        BY <1>4
      <4>2. Cardinality(UpTo(V, v)) \in 1 .. Cardinality(V)
        BY <1>4
      <4>3. QED
        BY <1>2, <4>1, <4>2
    <3>2. QED
      BY <1>3, <2>1, <3>1
  <2>2. CASE j \in V /\ k \in V
    <3>1. Cardinality(UpTo(V, j)) = Cardinality(UpTo(V, k))
      BY <1>2, <1>4, <2>2
    <3>2. QED
      BY <2>2, <3>1 DEF Ranked
  <2>3. QED
    BY <2>1, <2>2
<1>6. ASSUME NEW n, NEW j \in W, Cardinality(UpTo(W, j)) = n
      PROVE  Nth(W, n) = j
  <2>1. Nth(W, n) \in W /\ Cardinality(UpTo(W, Nth(W, n))) = n
    BY <1>6 DEF Nth
  <2>2. QED
    BY <1>5, <1>6, <2>1
<1>7. Nth(W, 1) = a
  BY <1>3, <1>6
<1>8. ASSUME NEW n \in 1 .. Cardinality(V) PROVE Nth(W, n + 1) = Nth(V, n)
  <2>1. Nth(V, n) \in V /\ Cardinality(UpTo(V, Nth(V, n))) = n
    BY DEF Ranked
  <2>2. Nth(V, n) \in W /\ Cardinality(UpTo(W, Nth(V, n))) = n + 1
    BY <1>4, <2>1
  <2>3. QED
    BY <1>6, <2>2
<1>9. ASSUME NEW n \in 1 .. Cardinality(W)
      PROVE  Nth(W, n) \in W /\ Cardinality(UpTo(W, Nth(W, n))) = n
  <2>1. CASE n = 1
    BY <1>3, <1>7, <2>1
  <2>2. CASE n # 1
    <3>1. n - 1 \in 1 .. Cardinality(V) /\ (n - 1) + 1 = n
      BY <1>2, <2>2
    <3>2. /\ Nth(V, n - 1) \in V /\ Cardinality(UpTo(V, Nth(V, n - 1))) = n - 1
          /\ Nth(W, n) = Nth(V, n - 1)
      BY <1>8, <3>1 DEF Ranked
    <3>3. Cardinality(UpTo(W, Nth(V, n - 1))) = (n - 1) + 1
      BY <1>4, <3>2
    <3>4. QED
      BY <3>1, <3>2, <3>3
  <2>3. QED
    BY <2>1, <2>2
<1>10. ASSUME NEW j \in W PROVE Cardinality(UpTo(W, j)) \in 1 .. Cardinality(W)
  <2>1. CASE j = a
    BY <1>2, <1>3, <2>1
  <2>2. CASE j \in V
    <3>1. Cardinality(UpTo(W, j)) = Cardinality(UpTo(V, j)) + 1
      BY <1>4, <2>2
    <3>2. Cardinality(UpTo(V, j)) \in 1 .. Cardinality(V)
      BY <1>4, <2>2
    <3>3. QED
      BY <1>2, <3>1, <3>2
  <2>3. QED
    BY <2>1, <2>2
<1>11. Ranked(W)
  <2>1. IsFiniteSet(W) /\ Cardinality(W) \in Nat
    BY <1>2
  <2>2. QED
    BY <1>5, <1>9, <1>10, <2>1, Zenon DEF Ranked
<1>12. QED
  BY <1>2, <1>7, <1>8, <1>11

LEMMA RankedNone == Ranked({}) /\ Cardinality({}) = 0
  BY FS_EmptySet DEF Ranked

\* A position that a search over an interval finds exists and is the first.
LEMMA FirstIn ==
    ASSUME NEW i \in Nat, NEW n \in Nat, i <= n, NEW P
    PROVE  \E j \in i .. n : (j = n \/ j \in P) /\ \A k \in i .. (j - 1) : k \notin P
<1> DEFINE S == {j \in i .. n : j = n \/ j \in P}
<1>1. S \subseteq Nat /\ n \in S
  OBVIOUS
<1>2. PICK j \in S : \A k \in S : j <= k
  BY <1>1, LowestOf
<1>3. \A k \in i .. (j - 1) : k \in i .. n /\ ~(j <= k)
  BY <1>2
<1>4. QED
  BY <1>2, <1>3

LEMMA SkipSpacesIs ==
    ASSUME NEW T, NEW s \in Seq(T), NEW i \in 1 .. (Len(s) + 1)
    PROVE  /\ SkipSpaces(s, i) \in i .. (Len(s) + 1)
           /\ SkipSpaces(s, i) = Len(s) + 1 \/ s[SkipSpaces(s, i)] # Space
           /\ \A k \in i .. (SkipSpaces(s, i) - 1) : s[k] = Space
<1> DEFINE P == {j \in 1 .. Len(s) : s[j] # Space}
<1>1. Len(s) \in Nat
  BY LenProperties
<1> HIDE DEF P
<1>2. PICK j \in i .. (Len(s) + 1) :
          (j = Len(s) + 1 \/ j \in P) /\ \A k \in i .. (j - 1) : k \notin P
  <2>1. i \in Nat /\ Len(s) + 1 \in Nat /\ i <= Len(s) + 1
    BY <1>1
  <2>2. QED
    BY <2>1, FirstIn
<1>3. \A k \in i .. (j - 1) : s[k] = Space
  BY <1>1, <1>2 DEF P
<1>4. QED
  BY <1>2, <1>3 DEF SkipSpaces, P

LEMMA SkipWordIs ==
    ASSUME NEW T, NEW s \in Seq(T), NEW i \in 1 .. (Len(s) + 1)
    PROVE  /\ SkipWord(s, i) \in i .. (Len(s) + 1)
           /\ SkipWord(s, i) = Len(s) + 1 \/ s[SkipWord(s, i)] = Space
           /\ \A k \in i .. (SkipWord(s, i) - 1) : s[k] # Space
<1> DEFINE P == {j \in 1 .. Len(s) : s[j] = Space}
<1>1. Len(s) \in Nat
  BY LenProperties
<1> HIDE DEF P
<1>2. PICK j \in i .. (Len(s) + 1) :
          (j = Len(s) + 1 \/ j \in P) /\ \A k \in i .. (j - 1) : k \notin P
  <2>1. i \in Nat /\ Len(s) + 1 \in Nat /\ i <= Len(s) + 1
    BY <1>1
  <2>2. QED
    BY <2>1, FirstIn
<1>3. \A k \in i .. (j - 1) : s[k] # Space
  BY <1>1, <1>2 DEF P
<1>4. QED
  BY <1>2, <1>3 DEF SkipWord, P

\* What one round of parse_arguments finds: nothing but spaces, or the first
\* word, after whose end the reading goes on.
LEMMA StartsSplit ==
    ASSUME NEW T, NEW s \in Seq(T), NEW i \in 1 .. Len(s),
           NEW a, a = SkipSpaces(s, i), NEW e, e = SkipWord(s, a)
    PROVE  /\ a = Len(s) + 1 => StartsFrom(s, i) = {}
           /\ a # Len(s) + 1 =>
                /\ a \in i .. Len(s) /\ e \in (a + 1) .. (Len(s) + 1)
                /\ StartsFrom(s, i) = StartsFrom(s, e + 1) \cup {a}
                /\ \A v \in StartsFrom(s, e + 1) : a < v
                /\ {j \in a .. Len(s) : \A k \in a .. j : s[k] # Space} = a .. (e - 1)
<1>1. Len(s) \in Nat
  BY LenProperties
<1>2. /\ a \in i .. (Len(s) + 1) /\ (a = Len(s) + 1 \/ s[a] # Space)
      /\ \A k \in i .. (a - 1) : s[k] = Space
  <2>1. i \in 1 .. (Len(s) + 1)
    BY <1>1
  <2>2. QED
    BY <2>1, SkipSpacesIs
<1>3. CASE a = Len(s) + 1
  BY <1>1, <1>2, <1>3 DEF StartsFrom
<1>4. CASE a # Len(s) + 1
  <2>1. a \in i .. Len(s) /\ s[a] # Space
    BY <1>1, <1>2, <1>4
  <2>2. /\ e \in a .. (Len(s) + 1) /\ (e = Len(s) + 1 \/ s[e] = Space)
        /\ \A k \in a .. (e - 1) : s[k] # Space
    <3>1. a \in 1 .. (Len(s) + 1)
      BY <1>1, <2>1
    <3>2. QED
      BY <3>1, SkipWordIs
  <2>3. e # a
    BY <1>1, <2>1, <2>2
  <2>4. \A v \in StartsFrom(s, e + 1) : a < v
    BY <1>1, <2>1, <2>2 DEF StartsFrom
  <2>5. a \in StartsFrom(s, i)
    <3>1. a = i \/ a - 1 \in i .. (a - 1)
      BY <2>1
    <3>2. QED
      BY <1>2, <2>1, <3>1 DEF StartsFrom
  <2>6. ASSUME NEW j \in StartsFrom(s, e + 1) PROVE j \in StartsFrom(s, i)
    <3>1. /\ j \in (e + 1) .. Len(s) /\ s[j] # Space /\ (j = e + 1 \/ s[j - 1] = Space)
      BY DEF StartsFrom
    <3>2. e # Len(s) + 1 /\ j \in i .. Len(s)
      BY <1>1, <2>1, <2>2, <3>1
    <3>3. j = e + 1 => j - 1 = e
      BY <2>2
    <3>4. QED
      BY <2>2, <3>1, <3>2, <3>3 DEF StartsFrom
  <2>7. ASSUME NEW j \in StartsFrom(s, i), j # a PROVE j \in StartsFrom(s, e + 1)
    <3>1. /\ j \in i .. Len(s) /\ s[j] # Space /\ (j = i \/ s[j - 1] = Space)
      BY DEF StartsFrom
    <3>2. j > a
      BY <1>1, <1>2, <2>1, <2>7, <3>1
    <3>3. j # i /\ s[j - 1] = Space
      BY <2>1, <3>1, <3>2
    <3>4. j - 1 \notin a .. (e - 1) /\ j \notin e .. e
      BY <2>2, <3>1, <3>3
    <3>5. j >= e + 1
      BY <2>1, <2>2, <3>1, <3>2, <3>4
    <3>6. QED
      BY <1>1, <2>2, <3>1, <3>3, <3>5 DEF StartsFrom
  <2>8. StartsFrom(s, i) = StartsFrom(s, e + 1) \cup {a}
    BY <2>5, <2>6, <2>7
  <2>9. {j \in a .. Len(s) : \A k \in a .. j : s[k] # Space} = a .. (e - 1)
    <3>1. ASSUME NEW j \in a .. (e - 1) PROVE j \in a .. Len(s) /\ \A k \in a .. j : s[k] # Space
      <4>1. \A k \in a .. j : k \in a .. (e - 1)
        BY <1>1, <2>1, <2>2
      <4>2. QED
        BY <1>1, <2>1, <2>2, <4>1
    <3>2. ASSUME NEW j \in a .. Len(s), \A k \in a .. j : s[k] # Space, j \notin a .. (e - 1)
          PROVE  FALSE
      <4>1. e \in a .. j /\ e # Len(s) + 1
        BY <1>1, <2>1, <2>2, <3>2
      <4>2. QED
        BY <2>2, <3>2, <4>1
    <3>3. QED
      BY <3>1, <3>2
  <2>10. QED
    BY <1>1, <2>1, <2>2, <2>3, <2>4, <2>8, <2>9, <1>4
<1>5. QED
  BY <1>3, <1>4

-----------------------------------------------------------------------------
\* The word that starts at j.
WordFrom(s, j) == SubSeq(s, j, SkipWord(s, j) - 1)
\* The words that parse_arguments finds when it stands at i with n found.
WordsFrom(s, i, n) ==
    LET W == StartsFrom(s, i) IN
    [k \in 1 .. (IF Cardinality(W) < MAX_ARGS - n THEN Cardinality(W) ELSE MAX_ARGS - n) |->
        WordFrom(s, Nth(W, k))]

\* The starts are finitely many positions of s.
LEMMA StartsRanked ==
    ASSUME NEW T, NEW s \in Seq(T)
    PROVE  \A i \in 1 .. (Len(s) + 2) : Ranked(StartsFrom(s, i)) /\ StartsFrom(s, i) \subseteq Nat
<1> DEFINE N == Len(s) + 2
           Good(i) == Ranked(StartsFrom(s, i))
           B == {m \in Nat : m \in 0 .. (N - 1) /\ ~Good(N - m)}
<1>1. Len(s) \in Nat /\ N \in Nat
  BY LenProperties
<1>2. \A i \in 1 .. N : StartsFrom(s, i) \subseteq Nat
  BY <1>1 DEF StartsFrom
<1>3. SUFFICES B = {}
  <2>1. ASSUME NEW i \in 1 .. N PROVE Good(i)
    <3>1. N - i \in Nat /\ N - i \in 0 .. (N - 1) /\ N - (N - i) = i
      BY <1>1
    <3> HIDE DEF Good
    <3>2. QED
      BY <1>3, <3>1
  <2>2. QED
    BY <1>2, <2>1
<1>4. SUFFICES ASSUME B # {} PROVE FALSE
  OBVIOUS
<1>5. PICK m \in B : \A g \in B : m <= g
  BY <1>4, LowestOf
<1> DEFINE i == N - m
           a == SkipSpaces(s, i)
           e == SkipWord(s, a)
<1>6. i \in 1 .. N /\ ~Good(i)
  BY <1>1, <1>5
<1>7. CASE i > Len(s)
  <2>1. StartsFrom(s, i) = {}
    BY <1>1, <1>6, <1>7 DEF StartsFrom
  <2>2. QED
    BY <1>6, <2>1, RankedNone
<1>8. CASE i <= Len(s)
  <2>1. i \in 1 .. Len(s)
    BY <1>1, <1>6, <1>8
  <2> HIDE DEF i, a, e
  <2>2. CASE a = Len(s) + 1
    <3>1. StartsFrom(s, i) = {}
      BY <2>1, <2>2, StartsSplit DEF a, e
    <3>2. QED
      BY <1>6, <3>1, RankedNone
  <2>3. CASE a # Len(s) + 1
    <3>1. /\ a \in i .. Len(s) /\ e \in (a + 1) .. (Len(s) + 1)
          /\ StartsFrom(s, i) = StartsFrom(s, e + 1) \cup {a}
          /\ \A v \in StartsFrom(s, e + 1) : a < v
      BY <2>1, <2>3, StartsSplit DEF a, e
    <3>2. e + 1 \in 1 .. N /\ N - (e + 1) < m /\ N - (e + 1) \in 0 .. (N - 1) /\ N - (N - (e + 1)) = e + 1
      BY <1>1, <1>5, <2>1, <3>1 DEF i
    <3>3. Good(e + 1)
      <4>1. N - (e + 1) \notin B
        BY <1>1, <1>5, <3>2
      <4> HIDE DEF Good
      <4>2. QED
        BY <1>1, <3>2, <4>1
    <3>4. a \in Nat /\ StartsFrom(s, e + 1) \subseteq Nat
      BY <1>1, <1>2, <2>1, <3>1, <3>2
    <3>5. Ranked(StartsFrom(s, i))
      <4> DEFINE V == StartsFrom(s, e + 1)
                 W == StartsFrom(s, i)
      <4>1. Ranked(V) /\ V \subseteq Nat /\ a \in Nat /\ (\A v \in V : a < v)
            /\ \A k : k \in W <=> k \in V \/ k = a
        BY <3>1, <3>3, <3>4
      <4> HIDE DEF V, W
      <4>2. Ranked(W)
        BY <4>1, RankedMore, Zenon
      <4>3. QED
        BY <4>2 DEF W
    <3>6. QED
      BY <1>6, <3>5
  <2>4. QED
    BY <2>2, <2>3
<1>9. QED
  BY <1>1, <1>6, <1>7, <1>8

\* A sequence given by its elements.
LEMMA SeqFrom ==
    ASSUME NEW T, NEW n \in Nat, NEW f \in [1 .. n -> T]
    PROVE  f \in Seq(T) /\ Len(f) = n /\ DOMAIN f = 1 .. n
<1>1. f \in Seq(T)
  BY SeqDef
<1>2. DOMAIN f = 1 .. n
  OBVIOUS
<1>3. 1 .. Len(f) = 1 .. n /\ Len(f) \in Nat
  BY <1>1, <1>2, LenProperties
<1>4. QED
  BY <1>1, <1>2, <1>3

\* How many words, and where the k-th one starts.
LEMMA WordsFromIs ==
    ASSUME NEW T, NEW s \in Seq(T), NEW i \in 1 .. (Len(s) + 2), NEW n \in 0 .. MAX_ARGS,
           NEW W, W = StartsFrom(s, i),
           NEW m, m = (IF Cardinality(W) < MAX_ARGS - n THEN Cardinality(W) ELSE MAX_ARGS - n)
    PROVE  /\ Cardinality(W) \in Nat /\ m \in Nat /\ m <= Cardinality(W)
           /\ WordsFrom(s, i, n) = [k \in 1 .. m |-> WordFrom(s, Nth(W, k))]
           /\ WordsFrom(s, i, n) \in Seq(Seq(T)) /\ Len(WordsFrom(s, i, n)) = m
           /\ \A k \in 1 .. m : Nth(W, k) \in 1 .. Len(s)
<1>1. Len(s) \in Nat /\ MAX_ARGS \in Nat
  BY LenProperties, InputConstants
<1>2. Ranked(W)
  BY StartsRanked
<1>3. Cardinality(W) \in Nat
  BY <1>2 DEF Ranked
<1>4. m \in Nat /\ m <= Cardinality(W)
  BY <1>1, <1>3
<1>5. ASSUME NEW k \in 1 .. m PROVE Nth(W, k) \in 1 .. Len(s)
  <2>1. k \in 1 .. Cardinality(W)
    BY <1>3, <1>4
  <2>2. Nth(W, k) \in W
    BY <1>2, <2>1 DEF Ranked
  <2>3. W \subseteq 1 .. Len(s)
    BY <1>1 DEF StartsFrom
  <2>4. QED
    BY <2>2, <2>3
<1>6. ASSUME NEW j \in 1 .. Len(s) PROVE WordFrom(s, j) \in Seq(T)
  <2>1. j \in 1 .. (Len(s) + 1)
    BY <1>1
  <2>2. SkipWord(s, j) \in j .. (Len(s) + 1)
    BY <2>1, SkipWordIs
  <2>3. \A k \in j .. (SkipWord(s, j) - 1) : s[k] \in T
    <3>1. \A k \in j .. (SkipWord(s, j) - 1) : k \in 1 .. Len(s)
      BY <1>1, <2>2
    <3>2. QED
      BY <3>1, ElementOfSeq
  <2>4. j \in Int /\ SkipWord(s, j) - 1 \in Int
    BY <2>2
  <2>5. QED
    BY <2>3, <2>4, SubSeqProperties DEF WordFrom
<1>7. WordsFrom(s, i, n) = [k \in 1 .. m |-> WordFrom(s, Nth(W, k))]
  BY Zenon DEF WordsFrom
<1> DEFINE f == [k \in 1 .. m |-> WordFrom(s, Nth(W, k))]
<1>8. f \in [1 .. m -> Seq(T)]
  BY <1>5, <1>6
<1> HIDE DEF f
<1>9. f \in Seq(Seq(T)) /\ Len(f) = m
  BY <1>4, <1>8, SeqFrom
<1>10. QED
  BY <1>3, <1>4, <1>5, <1>7, <1>9 DEF f

\* One round of the loop: no more words, or one word and those after it.
LEMMA WordsFromStep ==
    ASSUME NEW T, NEW s \in Seq(T), NEW i \in 1 .. (Len(s) + 2), NEW n \in 0 .. MAX_ARGS,
           NEW a, a = SkipSpaces(s, i), NEW e, e = SkipWord(s, a)
    PROVE  /\ (i > Len(s) \/ n = MAX_ARGS) => WordsFrom(s, i, n) = <<>>
           /\ ~(i > Len(s) \/ n = MAX_ARGS) =>
                /\ a = Len(s) + 1 => WordsFrom(s, i, n) = <<>>
                /\ a # Len(s) + 1 =>
                     /\ e + 1 \in (i + 1) .. (Len(s) + 2) /\ n + 1 \in 0 .. MAX_ARGS
                     /\ WordsFrom(s, i, n) =
                            <<SubSeq(s, a, e - 1)>> \o WordsFrom(s, e + 1, n + 1)
<1>1. Len(s) \in Nat /\ MAX_ARGS \in Nat
  BY LenProperties, InputConstants
<1> DEFINE W == StartsFrom(s, i)
           m == IF Cardinality(W) < MAX_ARGS - n THEN Cardinality(W) ELSE MAX_ARGS - n
           F == WordsFrom(s, i, n)
<1>2. /\ Cardinality(W) \in Nat /\ m \in Nat
      /\ F = [k \in 1 .. m |-> WordFrom(s, Nth(W, k))]
      /\ F \in Seq(Seq(T)) /\ Len(F) = m
  BY WordsFromIs
<1>3. ASSUME W = {} \/ n = MAX_ARGS PROVE F = <<>>
  <2>1. W = {} => Cardinality(W) = 0
    BY FS_EmptySet
  <2> HIDE DEF W
  <2>2. Len(F) = 0
    BY <1>1, <1>2, <1>3, <2>1
  <2> HIDE DEF F
  <2>3. QED
    BY <1>2, <2>2, EmptySeq
<1>4. i > Len(s) => W = {}
  BY <1>1 DEF StartsFrom
<1>5. ASSUME i <= Len(s), n # MAX_ARGS PROVE
                /\ a = Len(s) + 1 => F = <<>>
                /\ a # Len(s) + 1 =>
                     /\ e + 1 \in (i + 1) .. (Len(s) + 2) /\ n + 1 \in 0 .. MAX_ARGS
                     /\ F = <<SubSeq(s, a, e - 1)>> \o WordsFrom(s, e + 1, n + 1)
  <2>1. i \in 1 .. Len(s)
    BY <1>1, <1>5
  <2>2. a = Len(s) + 1 => W = {}
    BY <2>1, StartsSplit
  <2> SUFFICES ASSUME a # Len(s) + 1
               PROVE  /\ e + 1 \in (i + 1) .. (Len(s) + 2) /\ n + 1 \in 0 .. MAX_ARGS
                      /\ F = <<SubSeq(s, a, e - 1)>> \o WordsFrom(s, e + 1, n + 1)
    BY <1>3, <2>2
  <2> DEFINE V == StartsFrom(s, e + 1)
             q == IF Cardinality(V) < MAX_ARGS - (n + 1) THEN Cardinality(V) ELSE MAX_ARGS - (n + 1)
             G == WordsFrom(s, e + 1, n + 1)
  <2>3. /\ a \in i .. Len(s) /\ e \in (a + 1) .. (Len(s) + 1)
        /\ W = V \cup {a} /\ \A v \in V : a < v
    BY <2>1, StartsSplit
  <2>4. /\ e + 1 \in (i + 1) .. (Len(s) + 2) /\ e + 1 \in 1 .. (Len(s) + 2)
        /\ n + 1 \in 0 .. MAX_ARGS /\ a \in Nat
    BY <1>1, <1>5, <2>1, <2>3
  <2>5. /\ Cardinality(V) \in Nat /\ q \in Nat /\ q <= Cardinality(V)
        /\ G = [k \in 1 .. q |-> WordFrom(s, Nth(V, k))]
        /\ G \in Seq(Seq(T)) /\ Len(G) = q
    <3> DEFINE i1 == e + 1
               n1 == n + 1
    <3>1. i1 \in 1 .. (Len(s) + 2) /\ n1 \in 0 .. MAX_ARGS
      BY <2>4
    <3> HIDE DEF i1, n1
    <3>2. /\ Cardinality(StartsFrom(s, i1)) \in Nat
          /\ LET r == IF Cardinality(StartsFrom(s, i1)) < MAX_ARGS - n1
                      THEN Cardinality(StartsFrom(s, i1)) ELSE MAX_ARGS - n1
             IN  /\ r \in Nat /\ r <= Cardinality(StartsFrom(s, i1))
                 /\ WordsFrom(s, i1, n1) = [k \in 1 .. r |-> WordFrom(s, Nth(StartsFrom(s, i1), k))]
                 /\ WordsFrom(s, i1, n1) \in Seq(Seq(T)) /\ Len(WordsFrom(s, i1, n1)) = r
      BY <3>1, WordsFromIs
    <3>3. QED
      BY <3>2 DEF i1, n1
  <2>6. Ranked(V) /\ V \subseteq Nat
    BY <2>4, StartsRanked
  <2>7. /\ Cardinality(W) = Cardinality(V) + 1 /\ Nth(W, 1) = a
        /\ \A k \in 1 .. Cardinality(V) : Nth(W, k + 1) = Nth(V, k)
    <3>1. Ranked(V) /\ V \subseteq Nat /\ a \in Nat /\ (\A v \in V : a < v)
          /\ \A k : k \in W <=> k \in V \/ k = a
      BY <2>3, <2>4, <2>6
    <3> HIDE DEF V, W
    <3>2. QED
      BY <3>1, RankedMore, Zenon
  <2>8. m = q + 1
    <3> HIDE DEF V, W
    <3>1. QED
      BY <1>1, <1>5, <2>5, <2>7
  <2> DEFINE w == SubSeq(s, a, e - 1)
  <2>9. w = WordFrom(s, a)
    BY DEF WordFrom
  <2>10. F[1] = w
    <3>1. 1 \in 1 .. m
      BY <2>5, <2>8
    <3> HIDE DEF m, w, W
    <3>2. QED
      BY <1>2, <2>7, <2>9, <3>1
  <2>11. ASSUME NEW k \in 1 .. q PROVE F[k + 1] = G[k]
    <3>1. k + 1 \in 1 .. m /\ k \in 1 .. Cardinality(V)
      BY <2>5, <2>8
    <3>2. Nth(W, k + 1) = Nth(V, k)
      BY <2>7, <3>1
    <3> HIDE DEF m, w, W, q, V
    <3>3. QED
      BY <1>2, <2>5, <3>1, <3>2
  <2>12. w \in Seq(T)
    <3>1. F[1] \in Seq(T)
      <4>1. 1 \in 1 .. Len(F)
        BY <1>2, <2>5, <2>8
      <4> HIDE DEF F
      <4>2. QED
        BY <1>2, <4>1, ElementOfSeq
    <3>2. QED
      BY <2>10, <3>1
  <2> HIDE DEF F, G, w, m, q, W, V
  <2>13. <<w>> \in Seq(Seq(T)) /\ Len(<<w>>) = 1 /\ <<w>>[1] = w
    BY <2>12
  <2>14. /\ <<w>> \o G \in Seq(Seq(T)) /\ Len(<<w>> \o G) = 1 + q
         /\ \A j \in 1 .. (1 + q) : (<<w>> \o G)[j] = IF j <= 1 THEN <<w>>[j] ELSE G[j - 1]
    BY <2>5, <2>13, ConcatProperties
  <2>15. ASSUME NEW j \in 1 .. Len(F) PROVE F[j] = (<<w>> \o G)[j]
    <3>1. CASE j = 1
      BY <2>5, <2>10, <2>13, <2>14, <3>1
    <3>2. CASE j # 1
      <4>1. j - 1 \in 1 .. q /\ j \in 1 .. (1 + q) /\ ~(j <= 1) /\ (j - 1) + 1 = j
        BY <1>2, <2>5, <2>8, <3>2
      <4>2. F[j] = G[j - 1]
        BY <2>11, <4>1
      <4>3. QED
        BY <2>14, <4>1, <4>2
    <3>3. QED
      BY <3>1, <3>2
  <2>16. F = <<w>> \o G
    BY <1>2, <2>5, <2>8, <2>14, <2>15, SeqEqual
  <2>17. QED
    BY <2>4, <2>16 DEF w, G
<1> HIDE DEF F, m, W
<1>6. CASE i > Len(s) \/ n = MAX_ARGS
  BY <1>3, <1>4, <1>6 DEF F
<1>7. CASE ~(i > Len(s) \/ n = MAX_ARGS)
  <2>1. i <= Len(s) /\ n # MAX_ARGS
    BY <1>1, <1>7
  <2>2. QED
    BY <1>5, <1>7, <2>1 DEF F
<1>8. QED
  BY <1>6, <1>7

\* parse_arguments finds the words of the line, in their order.
LEMMA ParseIs ==
    ASSUME NEW T, NEW s \in Seq(T)
    PROVE  parse_arguments(s) = WordsFrom(s, 1, 0)
<1> DEFINE I == 1 .. (Len(s) + 2)
           A == 0 .. MAX_ARGS
           Body(f, i, n) ==
                IF i > Len(s) \/ n = MAX_ARGS THEN <<>>
                ELSE LET start == SkipSpaces(s, i)
                         end == SkipWord(s, start)
                     IN  IF start = Len(s) + 1 THEN <<>>
                         ELSE <<SubSeq(s, start, end - 1)>> \o f[end + 1][n + 1]
           Def(f) == f = [i \in I |-> [n \in A |-> Body(f, i, n)]]
           f == CHOOSE f : Def(f)
           g == [i \in I |-> [n \in A |-> WordsFrom(s, i, n)]]
<1>1. Len(s) \in Nat /\ MAX_ARGS \in Nat
  BY LenProperties, InputConstants
<1>2. parse_arguments(s) = f[1][0]
  BY Zenon DEF parse_arguments
<1>3. ASSUME NEW h, NEW i \in I, NEW n \in A,
             \A j \in I, k \in A : j > i => h[j][k] = WordsFrom(s, j, k)
      PROVE  Body(h, i, n) = WordsFrom(s, i, n)
  <2> DEFINE a == SkipSpaces(s, i)
             e == SkipWord(s, a)
  <2>1. /\ (i > Len(s) \/ n = MAX_ARGS) => WordsFrom(s, i, n) = <<>>
        /\ ~(i > Len(s) \/ n = MAX_ARGS) =>
              /\ a = Len(s) + 1 => WordsFrom(s, i, n) = <<>>
              /\ a # Len(s) + 1 =>
                   /\ e + 1 \in (i + 1) .. (Len(s) + 2) /\ n + 1 \in 0 .. MAX_ARGS
                   /\ WordsFrom(s, i, n) = <<SubSeq(s, a, e - 1)>> \o WordsFrom(s, e + 1, n + 1)
    BY WordsFromStep
  <2>2. ASSUME ~(i > Len(s) \/ n = MAX_ARGS), a # Len(s) + 1
        PROVE  h[e + 1][n + 1] = WordsFrom(s, e + 1, n + 1)
    <3>1. e + 1 \in (i + 1) .. (Len(s) + 2) /\ n + 1 \in A
      BY <2>1, <2>2
    <3> HIDE DEF e
    <3>2. e + 1 \in I /\ e + 1 > i
      BY <1>1, <3>1
    <3>3. QED
      BY <1>3, <3>1, <3>2
  <2> HIDE DEF a, e
  <2>3. Body(h, i, n) = IF i > Len(s) \/ n = MAX_ARGS THEN <<>>
                        ELSE IF a = Len(s) + 1 THEN <<>>
                             ELSE <<SubSeq(s, a, e - 1)>> \o h[e + 1][n + 1]
    BY Zenon DEF a, e
  <2> HIDE DEF Body
  <2>4. QED
    BY <2>1, <2>2, <2>3
<1>4. Def(g)
  <2>1. \A j \in I, k \in A : g[j][k] = WordsFrom(s, j, k)
    OBVIOUS
  <2> HIDE DEF g, Body
  <2>2. \A i \in I, n \in A : Body(g, i, n) = WordsFrom(s, i, n)
    BY <1>3, <2>1
  <2>3. QED
    BY <2>2 DEF g
<1> HIDE DEF g
<1>5. Def(f)
  <2> HIDE DEF Def
  <2>1. QED
    BY <1>4
<1> HIDE DEF f, Body
<1>6. ASSUME NEW i \in I, NEW n \in A PROVE f[i][n] = Body(f, i, n)
  <2>1. f = [j \in I |-> [k \in A |-> Body(f, j, k)]]
    BY <1>5
  <2> HIDE DEF I, A, Def
  <2>2. f[i] = [k \in A |-> Body(f, i, k)]
    BY <2>1, Zenon
  <2>3. QED
    BY <2>2, Zenon
<1> HIDE DEF Def
<1> DEFINE B == {m \in 0 .. Len(s) + 1 : \E n \in A : f[Len(s) + 2 - m][n] # WordsFrom(s, Len(s) + 2 - m, n)}
<1>7. B = {}
  <2> SUFFICES ASSUME B # {} PROVE FALSE
    OBVIOUS
  <2>1. B \subseteq Nat
    OBVIOUS
  <2>2. PICK m \in B : \A k \in B : m <= k
    BY <2>1, LowestOf
  <2> DEFINE i == Len(s) + 2 - m
  <2>3. i \in I /\ m = Len(s) + 2 - i
    BY <1>1, <2>2
  <2>4. PICK n \in A : f[i][n] # WordsFrom(s, i, n)
    BY <2>2
  <2>5. ASSUME NEW j \in I, NEW k \in A, j > i PROVE f[j][k] = WordsFrom(s, j, k)
    <3>1. /\ Len(s) + 2 - j \in 0 .. Len(s) + 1 /\ ~(m <= Len(s) + 2 - j)
          /\ Len(s) + 2 - (Len(s) + 2 - j) = j
      BY <1>1, <2>2, <2>5
    <3>2. Len(s) + 2 - j \notin B
      BY <2>2, <3>1
    <3>3. QED
      BY <3>1, <3>2
  <2> HIDE DEF i
  <2>6. Body(f, i, n) = WordsFrom(s, i, n)
    BY <1>3, <2>3, <2>5
  <2>7. QED
    BY <1>6, <2>3, <2>4, <2>6
<1>8. f[1][0] = WordsFrom(s, 1, 0)
  <2>1. /\ Len(s) + 1 \in 0 .. Len(s) + 1 /\ Len(s) + 2 - (Len(s) + 1) = 1 /\ 0 \in A
    BY <1>1
  <2>2. Len(s) + 1 \notin B
    BY <1>7
  <2>3. QED
    BY <2>1, <2>2
<1>9. QED
  BY <1>2, <1>8

\* Nothing that LineEditor calls the words of a line is different.
LEMMA EditorWords ==
    ASSUME NEW T, NEW s \in Seq(T)
    PROVE  Editor!Words(s) = WordsFrom(s, 1, 0)
<1> DEFINE W == StartsFrom(s, 1)
           m == IF Cardinality(W) < MAX_ARGS - 0 THEN Cardinality(W) ELSE MAX_ARGS - 0
<1>1. Len(s) \in Nat /\ MAX_ARGS \in Nat /\ 1 \in 1 .. (Len(s) + 2) /\ 0 \in 0 .. MAX_ARGS
  BY LenProperties, InputConstants
<1>2. Editor!WordStarts(s) = W
  BY DEF Editor!WordStarts, StartsFrom, Editor!Space, Space
<1>3. /\ Cardinality(W) \in Nat /\ m \in Nat
      /\ WordsFrom(s, 1, 0) = [k \in 1 .. m |-> WordFrom(s, Nth(W, k))]
      /\ \A k \in 1 .. m : Nth(W, k) \in 1 .. Len(s) /\ Nth(W, k) \in W
  <2>1. Ranked(W)
    BY <1>1, StartsRanked
  <2>2. /\ Cardinality(W) \in Nat /\ m \in Nat /\ m <= Cardinality(W)
        /\ WordsFrom(s, 1, 0) = [k \in 1 .. m |-> WordFrom(s, Nth(W, k))]
        /\ \A k \in 1 .. m : Nth(W, k) \in 1 .. Len(s)
    BY <1>1, WordsFromIs
  <2> HIDE DEF W, m
  <2>3. \A k \in 1 .. m : k \in 1 .. Cardinality(W)
    BY <2>2
  <2>4. \A k \in 1 .. m : Nth(W, k) \in W
    BY <2>1, <2>3 DEF Ranked
  <2>5. QED
    BY <2>2, <2>4
<1>4. ASSUME NEW j \in W
      PROVE  SubSeq(s, j, j + Cardinality(Editor!WordAt(s, j)) - 1) = WordFrom(s, j)
  <2>1. j \in 1 .. Len(s) /\ s[j] # Space
    BY <1>1 DEF StartsFrom
  <2> DEFINE e == SkipWord(s, j)
  <2>2. SkipSpaces(s, j) = j
    <3>1. j \in 1 .. (Len(s) + 1)
      BY <1>1, <2>1
    <3> DEFINE a == SkipSpaces(s, j)
    <3>2. a \in j .. (Len(s) + 1) /\ \A k \in j .. (a - 1) : s[k] = Space
      BY <3>1, SkipSpacesIs
    <3> HIDE DEF a
    <3>3. j \notin j .. (a - 1)
      BY <2>1, <3>2
    <3>4. a = j
      BY <1>1, <2>1, <3>2, <3>3
    <3>5. QED
      BY <3>4 DEF a
  <2>3. /\ e \in (j + 1) .. (Len(s) + 1)
        /\ {i \in j .. Len(s) : \A k \in j .. i : s[k] # Space} = j .. (e - 1)
    <3>1. j # Len(s) + 1
      BY <1>1, <2>1
    <3>2. QED
      BY <2>1, <2>2, <3>1, StartsSplit
  <2> HIDE DEF e
  <2>4. Editor!WordAt(s, j) = j .. (e - 1)
    BY <2>3 DEF Editor!WordAt, Editor!Space, Space
  <2>5. Cardinality(j .. (e - 1)) = e - j
    <3>1. j \in Int /\ e - 1 \in Int /\ ~(j > e - 1) /\ (e - 1) - j + 1 = e - j
      BY <2>1, <2>3
    <3>2. QED
      BY <3>1, FS_Interval
  <2>6. j + (e - j) - 1 = e - 1
    BY <2>1, <2>3
  <2>7. QED
    BY <2>4, <2>5, <2>6, Zenon DEF WordFrom, e
<1>5. Editor!Words(s) =
        [k \in 1 .. (IF Cardinality(W) < MAX_ARGS THEN Cardinality(W) ELSE MAX_ARGS) |->
            SubSeq(s, Nth(W, k), Nth(W, k) + Cardinality(Editor!WordAt(s, Nth(W, k))) - 1)]
  <2> DEFINE U == Editor!WordStarts(s)
  <2>1. Editor!Words(s) =
          [k \in 1 .. (IF Cardinality(U) < MAX_ARGS THEN Cardinality(U) ELSE MAX_ARGS) |->
              SubSeq(s, Nth(U, k), Nth(U, k) + Cardinality(Editor!WordAt(s, Nth(U, k))) - 1)]
    BY Zenon DEF Editor!Words, Nth, UpTo, Editor!Cardinality, Cardinality
  <2>2. U = W
    BY <1>2
  <2> HIDE DEF U, W
  <2>3. QED
    BY <2>1, <2>2, Zenon
<1>6. m = IF Cardinality(W) < MAX_ARGS THEN Cardinality(W) ELSE MAX_ARGS
  BY <1>1
<1> HIDE DEF W, m
<1>7. ASSUME NEW k \in 1 .. m
      PROVE  SubSeq(s, Nth(W, k), Nth(W, k) + Cardinality(Editor!WordAt(s, Nth(W, k))) - 1)
             = WordFrom(s, Nth(W, k))
  BY <1>3, <1>4
<1>8. Editor!Words(s) = [k \in 1 .. m |-> WordFrom(s, Nth(W, k))]
  BY <1>5, <1>6, <1>7, Zenon
<1>9. QED
  BY <1>3, <1>8

-----------------------------------------------------------------------------
(* What the ring holds                                                      *)

\* A quotient and a remainder are the only ones.
LEMMA ModUnique ==
    ASSUME NEW n \in Nat \ {0}, NEW x \in Int, NEW q \in Int, NEW r \in 0 .. (n - 1), x = n * q + r
    PROVE  x % n = r
<1> DEFINE p == x \div n
           s == x % n
<1>1. p \in Int /\ s \in 0 .. (n - 1) /\ x = n * p + s
  OBVIOUS
<1> HIDE DEF p, s
<1>2. n * (q - p) = s - r
  BY <1>1
<1>3. q - p < 1
  <2> SUFFICES ASSUME q - p >= 1 PROVE FALSE
    BY <1>1
  <2>1. n * (q - p) >= n
    BY <1>1
  <2>2. QED
    BY <1>1, <1>2, <2>1
<1>4. q - p > -1
  <2> SUFFICES ASSUME q - p <= -1 PROVE FALSE
    BY <1>1
  <2>1. n * (q - p) <= -n
    BY <1>1
  <2>2. QED
    BY <1>1, <1>2, <2>1
<1>5. q - p = 0
  BY <1>1, <1>3, <1>4
<1>6. s = r
  BY <1>1, <1>2, <1>5
<1>7. QED
  BY <1>6 DEF s

LEMMA ModSum ==
    ASSUME NEW n \in Nat \ {0}, NEW a \in Nat, NEW b \in Nat
    PROVE  ((a % n) + b) % n = (a + b) % n
<1> DEFINE p == a \div n
           r == a % n
           q == (a + b) \div n
           s == (a + b) % n
<1>1. p \in Int /\ r \in 0 .. (n - 1) /\ a = n * p + r
      /\ q \in Int /\ s \in 0 .. (n - 1) /\ a + b = n * q + s
  OBVIOUS
<1> HIDE DEF p, r, q, s
<1>2. r + b = n * (q - p) + s /\ r + b \in Int /\ q - p \in Int
  BY <1>1
<1>3. (r + b) % n = s
  BY <1>1, <1>2, ModUnique
<1>4. QED
  BY <1>3 DEF r, s

LEMMA ModDifference ==
    ASSUME NEW n \in Nat \ {0}, NEW a \in Nat, NEW b \in Nat, a <= b, b - a < n
    PROVE  ((b % n) - (a % n)) % n = b - a
<1> DEFINE p == a \div n
           r == a % n
           q == b \div n
           s == b % n
<1>1. p \in Int /\ r \in 0 .. (n - 1) /\ a = n * p + r
      /\ q \in Int /\ s \in 0 .. (n - 1) /\ b = n * q + s
  OBVIOUS
<1> HIDE DEF p, r, q, s
<1>2. s - r = n * (p - q) + (b - a) /\ s - r \in Int /\ p - q \in Int /\ b - a \in 0 .. (n - 1)
  BY <1>1
<1>3. (s - r) % n = b - a
  BY <1>1, <1>2, ModUnique
<1>4. QED
  BY <1>3 DEF r, s

\* The characters number lo + 1 to hi, as they lie in the ring b.
RingOf(b, lo, hi) == [i \in 1 .. (hi - lo) |-> b[(lo + i - 1) % KEYBOARD_BUFFER_SIZE]]

LEMMA RingIs ==
    ASSUME NEW b, NEW lo \in Nat, NEW hi \in Nat, lo <= hi, hi - lo < KEYBOARD_BUFFER_SIZE,
           NEW h, h = hi % KEYBOARD_BUFFER_SIZE, NEW t, t = lo % KEYBOARD_BUFFER_SIZE
    PROVE  [i \in 1 .. ((h - t) % KEYBOARD_BUFFER_SIZE) |-> b[(t + i - 1) % KEYBOARD_BUFFER_SIZE]]
           = RingOf(b, lo, hi)
<1> DEFINE N == KEYBOARD_BUFFER_SIZE
<1>1. N \in Nat \ {0}
  BY InputConstants
<1>2. (h - t) % N = hi - lo
  BY <1>1, ModDifference
<1>3. ASSUME NEW i \in 1 .. (hi - lo) PROVE (t + i - 1) % N = (lo + i - 1) % N
  <2>1. i - 1 \in Nat /\ lo + (i - 1) = lo + i - 1
    BY <1>1
  <2>2. ((lo % N) + (i - 1)) % N = (lo + (i - 1)) % N
    BY <1>1, <2>1, ModSum
  <2>3. t \in Int /\ t + (i - 1) = t + i - 1
    BY <1>1
  <2>4. QED
    BY <2>1, <2>2, <2>3
<1> HIDE DEF N
<1>4. QED
  BY <1>2, <1>3 DEF RingOf, N

LEMMA RingSeq ==
    ASSUME NEW b \in [Cells -> Keys \cup {NUL}], NEW lo \in Nat, NEW hi \in Nat, lo <= hi
    PROVE  RingOf(b, lo, hi) \in Seq(Keys \cup {NUL}) /\ Len(RingOf(b, lo, hi)) = hi - lo
<1> DEFINE T == Keys \cup {NUL}
           f == RingOf(b, lo, hi)
<1>0. b \in [Cells -> T]
  OBVIOUS
<1> HIDE DEF T
<1>1. KEYBOARD_BUFFER_SIZE \in Nat \ {0} /\ hi - lo \in Nat
  BY InputConstants
<1>2. f \in [1 .. (hi - lo) -> T]
  <2>1. ASSUME NEW i \in 1 .. (hi - lo) PROVE b[(lo + i - 1) % KEYBOARD_BUFFER_SIZE] \in T
    <3>1. lo + i - 1 \in Nat
      OBVIOUS
    <3>2. (lo + i - 1) % KEYBOARD_BUFFER_SIZE \in Cells
      BY <1>1, <3>1 DEF Cells
    <3>3. QED
      BY <1>0, <3>2
  <2>2. QED
    BY <2>1 DEF RingOf
<1> HIDE DEF f
<1>3. f \in Seq(T) /\ Len(f) = hi - lo
  BY <1>1, <1>2, SeqFrom
<1>4. QED
  BY <1>3 DEF f, T

\* Storing one more character in the cell after the last.
LEMMA RingStore ==
    ASSUME NEW b \in [Cells -> Keys \cup {NUL}], NEW d \in [Cells -> Keys \cup {NUL}],
           NEW k \in Keys \cup {NUL},
           NEW lo \in Nat, NEW hi \in Nat, lo <= hi, hi - lo < KEYBOARD_BUFFER_SIZE - 1,
           d[hi % KEYBOARD_BUFFER_SIZE] = k,
           \A j \in Cells : j # hi % KEYBOARD_BUFFER_SIZE => d[j] = b[j]
    PROVE  RingOf(d, lo, hi + 1) = Append(RingOf(b, lo, hi), k)
<1> DEFINE T == Keys \cup {NUL}
           N == KEYBOARD_BUFFER_SIZE
           R == RingOf(b, lo, hi)
           Q == RingOf(d, lo, hi + 1)
<1>0. b \in [Cells -> T] /\ k \in T
  OBVIOUS
<1>1. N \in Nat \ {0} /\ hi % N \in Cells /\ hi + 1 \in Nat /\ lo <= hi + 1
  BY InputConstants DEF Cells
<1>2. d \in [Cells -> T] /\ d[hi % N] = k /\ \A j \in Cells : j # hi % N => d[j] = b[j]
  OBVIOUS
<1>3. /\ R \in Seq(T) /\ Len(R) = hi - lo
      /\ \A i \in 1 .. (hi - lo) : R[i] = b[(lo + i - 1) % N]
  <2>1. R \in Seq(T) /\ Len(R) = hi - lo
    BY <1>0, RingSeq
  <2>2. \A i \in 1 .. (hi - lo) : R[i] = b[(lo + i - 1) % N]
    BY Zenon DEF RingOf
  <2>3. QED
    BY <2>1, <2>2
<1>4. /\ Q \in Seq(T) /\ Len(Q) = (hi + 1) - lo
      /\ \A i \in 1 .. ((hi + 1) - lo) : Q[i] = d[(lo + i - 1) % N]
  <2>1. Q \in Seq(T) /\ Len(Q) = (hi + 1) - lo
    <3> DEFINE m == hi + 1
    <3>1. m \in Nat /\ lo <= m /\ d \in [Cells -> T]
      BY <1>1, <1>2
    <3> HIDE DEF m
    <3>2. RingOf(d, lo, m) \in Seq(T) /\ Len(RingOf(d, lo, m)) = m - lo
      BY <3>1, RingSeq
    <3>3. QED
      BY <3>2 DEF m
  <2>2. \A i \in 1 .. ((hi + 1) - lo) : Q[i] = d[(lo + i - 1) % N]
    BY Zenon DEF RingOf
  <2>3. QED
    BY <2>1, <2>2
<1> HIDE DEF T, R, Q, N
<1>5. /\ Append(R, k) \in Seq(T) /\ Len(Append(R, k)) = Len(R) + 1
      /\ \A i \in 1 .. Len(R) : Append(R, k)[i] = R[i]
      /\ Append(R, k)[Len(R) + 1] = k
  BY <1>0, <1>3, AppendProperties
<1>6. ASSUME NEW i \in 1 .. Len(Q) PROVE Q[i] = Append(R, k)[i]
  <2>1. i \in 1 .. ((hi + 1) - lo)
    BY <1>4
  <2>2. CASE i = hi - lo + 1
    <3>1. lo + i - 1 = hi
      BY <2>2
    <3>2. QED
      BY <1>2, <1>3, <1>4, <1>5, <2>1, <2>2, <3>1
  <2>3. CASE i # hi - lo + 1
    <3>1. i \in 1 .. (hi - lo) /\ lo + i - 1 \in Nat /\ lo + i - 1 < hi
      BY <2>1, <2>3
    <3>2. (lo + i - 1) % N # hi % N
      <4>1. lo + i - 1 <= hi /\ hi - (lo + i - 1) < N /\ lo + i - 1 # hi
        BY <1>1, <3>1 DEF N
      <4>2. QED
        BY <1>1, <3>1, <4>1, ModDistinct
    <3>3. (lo + i - 1) % N \in Cells
      BY <1>1, <3>1 DEF Cells, N
    <3>4. QED
      BY <1>2, <1>3, <1>4, <1>5, <2>1, <3>1, <3>2, <3>3
  <2>4. QED
    BY <2>2, <2>3
<1>7. Q = Append(R, k)
  BY <1>3, <1>4, <1>5, <1>6, SeqEqual
<1>8. QED
  BY <1>7 DEF Q, R, N

\* One element in front of a sequence.
LEMMA InFront ==
    ASSUME NEW T, NEW e \in T, NEW s \in Seq(T)
    PROVE  /\ <<e>> \o s \in Seq(T) /\ Len(<<e>> \o s) = Len(s) + 1 /\ <<e>> \o s # <<>>
           /\ (<<e>> \o s)[1] = e /\ \A i \in 1 .. Len(s) : (<<e>> \o s)[i + 1] = s[i]
           /\ Head(<<e>> \o s) = e /\ Tail(<<e>> \o s) = s
<1> DEFINE f == <<e>>
           t == f \o s
<1>1. f \in Seq(T) /\ Len(f) = 1 /\ f[1] = e
  OBVIOUS
<1>2. Len(s) \in Nat
  BY LenProperties
<1> HIDE DEF f
<1>3. /\ t \in Seq(T) /\ Len(t) = 1 + Len(s)
      /\ \A i \in 1 .. (1 + Len(s)) : t[i] = IF i <= 1 THEN f[i] ELSE s[i - 1]
  <2>1. /\ t \in Seq(T) /\ Len(t) = Len(f) + Len(s)
        /\ \A i \in 1 .. Len(f) + Len(s) : t[i] = IF i <= Len(f) THEN f[i] ELSE s[i - Len(f)]
    BY <1>1, ConcatProperties, Zenon
  <2> HIDE DEF t
  <2>2. QED
    BY <1>1, <2>1
<1> HIDE DEF t
<1>4. t[1] = e
  BY <1>1, <1>2, <1>3
<1>5. ASSUME NEW i \in 1 .. Len(s) PROVE t[i + 1] = s[i]
  <2>1. i + 1 \in 1 .. (1 + Len(s)) /\ ~(i + 1 <= 1) /\ i + 1 - 1 = i
    BY <1>2
  <2>2. QED
    BY <1>3, <2>1
<1>6. t # <<>>
  BY <1>2, <1>3, EmptySeq
<1>7. Tail(t) \in Seq(T) /\ Len(Tail(t)) = Len(s) /\ \A i \in 1 .. Len(s) : Tail(t)[i] = t[i + 1]
  <2>1. Len(t) - 1 = Len(s)
    BY <1>2, <1>3
  <2>2. QED
    BY <1>3, <1>6, <2>1, HeadTailProperties
<1>8. Tail(t) = s
  BY <1>5, <1>7, SeqEqual
<1>9. Head(t) = t[1]
  BY <1>3, <1>6
<1>10. Len(t) = Len(s) + 1
  BY <1>2, <1>3
<1>11. QED
  BY <1>3, <1>4, <1>5, <1>6, <1>8, <1>9, <1>10 DEF t, f

\* Taking the oldest character.
LEMMA RingTake ==
    ASSUME NEW b \in [Cells -> Keys \cup {NUL}], NEW lo \in Nat, NEW hi \in Nat, lo < hi
    PROVE  RingOf(b, lo, hi) = <<b[lo % KEYBOARD_BUFFER_SIZE]>> \o RingOf(b, lo + 1, hi)
<1> DEFINE T == Keys \cup {NUL}
           N == KEYBOARD_BUFFER_SIZE
           e == b[lo % N]
           R == RingOf(b, lo, hi)
           Q == RingOf(b, lo + 1, hi)
<1>1. N \in Nat \ {0} /\ lo % N \in Cells /\ lo + 1 \in Nat /\ lo + 1 <= hi /\ lo <= hi
  BY InputConstants DEF Cells
<1>2. e \in T
  BY <1>1
<1>3. /\ R \in Seq(T) /\ Len(R) = hi - lo
      /\ \A i \in 1 .. (hi - lo) : R[i] = b[(lo + i - 1) % N]
  <2>1. R \in Seq(T) /\ Len(R) = hi - lo
    BY <1>1, RingSeq
  <2>2. \A i \in 1 .. (hi - lo) : R[i] = b[(lo + i - 1) % N]
    BY Zenon DEF RingOf
  <2>3. QED
    BY <2>1, <2>2
<1>4. /\ Q \in Seq(T) /\ Len(Q) = hi - (lo + 1)
      /\ \A i \in 1 .. (hi - (lo + 1)) : Q[i] = b[((lo + 1) + i - 1) % N]
  <2>1. Q \in Seq(T) /\ Len(Q) = hi - (lo + 1)
    <3> DEFINE l == lo + 1
    <3>1. l \in Nat /\ l <= hi
      BY <1>1
    <3> HIDE DEF l
    <3>2. RingOf(b, l, hi) \in Seq(T) /\ Len(RingOf(b, l, hi)) = hi - l
      BY <3>1, RingSeq
    <3>3. QED
      BY <3>2 DEF l
  <2>2. \A i \in 1 .. (hi - (lo + 1)) : Q[i] = b[((lo + 1) + i - 1) % N]
    BY Zenon DEF RingOf
  <2>3. QED
    BY <2>1, <2>2
<1> HIDE DEF T, Q, R, e, N
<1>5. /\ <<e>> \o Q \in Seq(T) /\ Len(<<e>> \o Q) = Len(Q) + 1
      /\ (<<e>> \o Q)[1] = e /\ \A i \in 1 .. Len(Q) : (<<e>> \o Q)[i + 1] = Q[i]
  BY <1>2, <1>4, InFront
<1>6. Len(R) = Len(Q) + 1
  BY <1>3, <1>4
<1>7. ASSUME NEW i \in 1 .. Len(R) PROVE R[i] = (<<e>> \o Q)[i]
  <2>1. CASE i = 1
    <3>1. 1 \in 1 .. (hi - lo) /\ lo + 1 - 1 = lo
      BY <1>1
    <3>2. QED
      BY <1>3, <1>5, <2>1, <3>1 DEF e
  <2>2. CASE i # 1
    <3>1. /\ i - 1 \in 1 .. Len(Q) /\ i - 1 \in 1 .. (hi - (lo + 1)) /\ (i - 1) + 1 = i
          /\ i \in 1 .. (hi - lo) /\ (lo + 1) + (i - 1) - 1 = lo + i - 1
      BY <1>3, <1>4, <2>2
    <3>2. Q[i - 1] = b[(lo + i - 1) % N]
      BY <1>4, <3>1
    <3>3. QED
      BY <1>3, <1>5, <3>1, <3>2
  <2>3. QED
    BY <2>1, <2>2
<1>8. R = <<e>> \o Q
  BY <1>3, <1>5, <1>6, <1>7, SeqEqual
<1>9. QED
  BY <1>8 DEF R, Q, e, N

\* The C string in a line buffer of which the first n cells are set.
LEMMA CStringIs ==
    ASSUME NEW b \in [Columns -> Keys \cup {NUL}], NEW n \in Columns,
           \A i \in Columns : b[i] = NUL <=> i >= n
    PROVE  /\ CString(b) = [i \in 1 .. n |-> b[i - 1]]
           /\ CString(b) \in Seq(Keys) /\ Len(CString(b)) = n
           /\ \A i \in 1 .. n : CString(b)[i] = b[i - 1]
<1>1. CONSOLE_BUFFER_SIZE \in Nat \ {0} /\ n \in Nat /\ n < CONSOLE_BUFFER_SIZE
  BY InputConstants DEF Columns
<1> DEFINE Ends(m) == /\ m = CONSOLE_BUFFER_SIZE \/ b[m] = NUL
                      /\ \A i \in 0 .. (m - 1) : b[i] # NUL
<1>2. \A i \in 0 .. (n - 1) : i \in Columns /\ ~(i >= n)
  BY <1>1 DEF Columns
<1>3. n \in 0 .. CONSOLE_BUFFER_SIZE /\ Ends(n)
  BY <1>1, <1>2
<1>4. ASSUME NEW m \in 0 .. CONSOLE_BUFFER_SIZE, Ends(m) PROVE m = n
  <2>1. ~(m > n)
    <3> SUFFICES ASSUME m > n PROVE FALSE
      OBVIOUS
    <3>1. n \in 0 .. (m - 1)
      BY <1>1
    <3>2. QED
      BY <1>3, <1>4, <3>1, <1>1
  <2>2. ~(m < n)
    BY <1>1, <1>2, <1>4
  <2>3. QED
    BY <1>1, <2>1, <2>2
<1>5. StringLength(b) = CHOOSE m \in 0 .. CONSOLE_BUFFER_SIZE : Ends(m)
  BY Zenon DEF StringLength
<1> HIDE DEF Ends
<1>6. StringLength(b) = n
  BY <1>3, <1>4, <1>5
<1> DEFINE f == [i \in 1 .. n |-> b[i - 1]]
<1>7. CString(b) = f
  BY <1>6 DEF CString
<1>8. ASSUME NEW i \in 1 .. n PROVE b[i - 1] \in Keys
  <2>1. i - 1 \in Columns /\ ~(i - 1 >= n)
    BY <1>1 DEF Columns
  <2>2. QED
    BY <2>1
<1>9. f \in [1 .. n -> Keys] /\ \A i \in 1 .. n : f[i] = b[i - 1]
  BY <1>8
<1> HIDE DEF f
<1>10. f \in Seq(Keys) /\ Len(f) = n
  BY <1>1, <1>9, SeqFrom
<1>11. QED
  BY <1>7, <1>9, <1>10 DEF f

-----------------------------------------------------------------------------
(* The invariant is inductive                                               *)

LEMMA InitKInv == Init => KInv
  BY InputConstants DEF Init, KInv, TypeOK, LineTerminated, Cells, Columns

\* The facts of KInv that the steps use one by one.
LEMMA KInvFacts ==
    ASSUME KInv
    PROVE  /\ KEYBOARD_BUFFER_SIZE \in Nat \ {0} /\ CONSOLE_BUFFER_SIZE \in Nat \ {0}
           /\ NUL \notin Keys /\ MaxKeys \in Nat
           /\ typed \in Nat /\ taken \in Nat /\ taken <= typed
           /\ buffer_head \in Cells /\ buffer_tail \in Cells
           /\ buffer_head = buffer_tail => typed = taken
<1>1. /\ KEYBOARD_BUFFER_SIZE \in Nat \ {0} /\ CONSOLE_BUFFER_SIZE \in Nat \ {0}
      /\ NUL \notin Keys /\ MaxKeys \in Nat
  BY InputConstants DEF Keys, NUL, Space, Backspace, Newline
<1>2. /\ typed \in Nat /\ taken \in Nat /\ taken <= typed
      /\ buffer_head \in Cells /\ buffer_tail \in Cells
  BY <1>1 DEF KInv, TypeOK
<1>3. /\ buffer_head = typed % KEYBOARD_BUFFER_SIZE
      /\ buffer_tail = taken % KEYBOARD_BUFFER_SIZE
      /\ typed - taken < KEYBOARD_BUFFER_SIZE
  BY DEF KInv
<1>4. buffer_head = buffer_tail => typed = taken
  BY <1>1, <1>2, <1>3, ModDistinct
<1>5. QED
  BY <1>1, <1>2, <1>4

LEMMA KeyStep ==
    ASSUME KInv, NoOverrun, NEW k \in Keys, keyboard_irq_handler(k)
    PROVE  KInv'
<1> DEFINE N == KEYBOARD_BUFFER_SIZE
<1> USE KInvFacts
<1>1. /\ keyboard_buffer' = [keyboard_buffer EXCEPT ![buffer_head] = k]
      /\ buffer_head' = (buffer_head + 1) % N
      /\ typed' = typed + 1 /\ typed < MaxKeys
      /\ pc' = Woken
      /\ UNCHANGED <<buffer_tail, line_buffer, line_length, c, commands, taken>>
  BY DEF keyboard_irq_handler, NextCell, console
<1>2. keyboard_buffer \in [Cells -> Keys \cup {NUL}]
  BY DEF KInv, TypeOK
<1>3. buffer_head' = typed' % N
  BY <1>1, ModNext DEF KInv
<1>4. typed' - taken' < N
  BY <1>1 DEF NoOverrun
<1>5. ASSUME NEW i \in taken' .. (typed' - 1)
      PROVE  keyboard_buffer'[i % N] \in Keys
  <2>1. CASE i = typed
    <3>1. i % N = buffer_head
      BY <2>1 DEF KInv
    <3>2. QED
      BY <1>1, <1>2, <3>1
  <2>2. CASE i # typed
    <3>1. i \in taken .. (typed - 1)
      BY <1>1, <2>2
    <3>2. keyboard_buffer[i % N] \in Keys
      BY <3>1 DEF KInv
    <3>3. i % N \in Cells
      BY <3>1 DEF Cells
    <3>4. QED
      BY <1>1, <1>2, <3>2, <3>3
  <2>3. QED
    BY <2>1, <2>2
<1>6. TypeOK'
  <2>1. keyboard_buffer' \in [Cells -> Keys \cup {NUL}]
    BY <1>1, <1>2
  <2>2. buffer_head' \in Cells
    BY <1>1 DEF Cells
  <2>3. typed' \in 0 .. MaxKeys /\ taken' \in 0 .. typed'
    BY <1>1
  <2>4. pc' \in {"test", "getchar", "move", "handle", "command", "idle", "halted", "stopped"}
    BY <1>1 DEF Woken, KInv, TypeOK
  <2>5. QED
    BY <1>1, <2>1, <2>2, <2>3, <2>4 DEF KInv, TypeOK
<1>7. LineTerminated'
  BY <1>1 DEF KInv, LineTerminated
<1>8. /\ pc' \in {"getchar", "move"} => taken' < typed'
      /\ pc' \in {"move", "handle"} => c' \in Keys
  BY <1>1 DEF KInv, Woken
<1>9. buffer_tail' = taken' % N
  BY <1>1 DEF KInv
<1>10. pc' = "move" => c' = keyboard_buffer'[buffer_tail']
  <2>1. ASSUME pc = "move" PROVE buffer_tail # buffer_head /\ c = keyboard_buffer[buffer_tail]
    BY <2>1, ModDistinct DEF KInv
  <2>2. pc' = "move" => pc = "move"
    BY <1>1 DEF Woken
  <2>3. QED
    BY <1>1, <1>2, <2>1, <2>2
<1>11. commands' \in Seq(Seq(Seq(Keys))) /\ (pc' = "command" => commands' # <<>>)
  BY <1>1 DEF KInv, Woken
<1>12. QED
  BY <1>3, <1>4, <1>5, <1>6, <1>7, <1>8, <1>9, <1>10, <1>11 DEF KInv

\* Only pc changes, and the loop is at the getchar only if there is input.
PcMoves ==
    /\ UNCHANGED <<ring, console, c, commands, typed, taken>>
    /\ \/ pc' \in {"test", "idle", "halted", "stopped"}
       \/ pc' = "getchar" /\ keyboard_has_input
       \/ pc' = pc

LEMMA PcStep == KInv /\ PcMoves => KInv'
<1> SUFFICES ASSUME KInv, PcMoves PROVE KInv'
  OBVIOUS
<1> USE KInvFacts DEF ring, console, PcMoves
<1>1. TypeOK'
  BY DEF KInv, TypeOK
<1>2. LineTerminated'
  BY DEF KInv, LineTerminated
<1>3. /\ pc' \in {"getchar", "move"} => taken' < typed'
      /\ pc' \in {"move", "handle"} => c' \in Keys
  BY DEF KInv, keyboard_has_input, TypeOK
<1>4. QED
  BY <1>1, <1>2, <1>3 DEF KInv

\* Enter records a command of a terminated line.
LEMMA EnterStep == KInv /\ Enter => KInv'
<1> SUFFICES ASSUME KInv, Enter PROVE KInv'
  OBVIOUS
<1> USE KInvFacts
<1> DEFINE argv == parse_arguments(CString(line_buffer))
<1>1. /\ pc' = "command" /\ commands' = Append(commands, argv)
      /\ UNCHANGED <<keyboard_buffer, buffer_head, buffer_tail, line_buffer, line_length,
                     c, typed, taken>>
  BY DEF Enter, ring, console
<1>2. argv \in Seq(Seq(Keys))
  <2>1. CString(line_buffer) \in Seq(Keys)
    BY CStringIs DEF KInv, TypeOK, LineTerminated
  <2>2. 1 \in 1 .. (Len(CString(line_buffer)) + 2) /\ 0 \in 0 .. MAX_ARGS
    BY <2>1, LenProperties, InputConstants
  <2>3. WordsFrom(CString(line_buffer), 1, 0) \in Seq(Seq(Keys))
    BY <2>1, <2>2, WordsFromIs
  <2>4. QED
    BY <2>1, <2>3, ParseIs
<1> HIDE DEF argv
<1>3. commands' \in Seq(Seq(Seq(Keys))) /\ commands' # <<>>
  <2>1. commands \in Seq(Seq(Seq(Keys)))
    BY DEF KInv
  <2>2. QED
    BY <1>1, <1>2, <2>1, AppendProperties, EmptySeq
<1>4. TypeOK'
  BY <1>1 DEF KInv, TypeOK
<1>5. LineTerminated'
  BY <1>1 DEF KInv, LineTerminated
<1>6. QED
  BY <1>1, <1>3, <1>4, <1>5 DEF KInv

LEMMA GetCharStep == KInv /\ GetChar => KInv'
<1> SUFFICES ASSUME KInv, GetChar PROVE KInv'
  OBVIOUS
<1> USE KInvFacts
<1>1. taken < typed /\ pc = "getchar"
  BY DEF KInv, GetChar
<1>2. keyboard_has_input
  BY <1>1, ModDistinct DEF KInv, keyboard_has_input
<1>3. /\ c' = keyboard_buffer[buffer_tail] /\ pc' = "move"
      /\ UNCHANGED <<keyboard_buffer, buffer_head, buffer_tail, line_buffer, line_length,
                     commands, typed, taken>>
  BY <1>2 DEF GetChar, ring, console, history
<1>4. c' \in Keys
  <2>1. taken \in taken .. (typed - 1)
    BY <1>1
  <2>2. QED
    BY <1>3, <2>1 DEF KInv
<1>5. TypeOK'
  BY <1>3, <1>4 DEF KInv, TypeOK
<1>6. LineTerminated'
  BY <1>3 DEF KInv, LineTerminated
<1>7. QED
  BY <1>1, <1>3, <1>4, <1>5, <1>6 DEF KInv

LEMMA MoveTailStep == KInv /\ MoveTail => KInv'
<1> SUFFICES ASSUME KInv, MoveTail PROVE KInv'
  OBVIOUS
<1> USE KInvFacts
<1>1. taken < typed /\ c \in Keys
  BY DEF KInv, MoveTail
<1>2. /\ buffer_tail' = (buffer_tail + 1) % KEYBOARD_BUFFER_SIZE /\ taken' = taken + 1
      /\ pc' = "handle"
      /\ UNCHANGED <<keyboard_buffer, buffer_head, line_buffer, line_length, c, commands, typed>>
  BY DEF MoveTail, NextCell, console
<1>3. buffer_tail' = taken' % KEYBOARD_BUFFER_SIZE
  BY <1>2, ModNext DEF KInv
<1>4. TypeOK'
  <2>1. buffer_tail' \in Cells
    BY <1>2 DEF Cells
  <2>2. QED
    BY <1>1, <1>2, <2>1 DEF KInv, TypeOK
<1>5. LineTerminated'
  BY <1>2 DEF KInv, LineTerminated
<1>6. typed' - taken' < KEYBOARD_BUFFER_SIZE
  BY <1>2 DEF KInv
<1>7. \A i \in taken' .. (typed' - 1) : keyboard_buffer'[i % KEYBOARD_BUFFER_SIZE] \in Keys
  <2>1. taken' .. (typed' - 1) \subseteq taken .. (typed - 1)
    BY <1>2
  <2>2. QED
    BY <1>2, <2>1 DEF KInv
<1>8. buffer_head' = typed' % KEYBOARD_BUFFER_SIZE
  BY <1>2 DEF KInv
<1>9. QED
  BY <1>1, <1>2, <1>3, <1>4, <1>5, <1>6, <1>7, <1>8 DEF KInv

\* The line keeps its terminator: a character is inserted only before the
\* last cell, and erasing clears the cell it uncovers.
LEMMA HandleCharStep == KInv /\ console_handle_char => KInv'
<1> SUFFICES ASSUME KInv, console_handle_char PROVE KInv'
  OBVIOUS
<1> USE KInvFacts
<1>1. /\ c \in Keys /\ pc' = "test"
      /\ UNCHANGED <<keyboard_buffer, buffer_head, buffer_tail, c, commands, typed, taken>>
  BY DEF KInv, console_handle_char, ring, history
<1>2. /\ line_buffer \in [Columns -> Keys \cup {NUL}] /\ line_length \in Columns
      /\ \A i \in Columns : line_buffer[i] = NUL <=> i >= line_length
  BY DEF KInv, TypeOK, LineTerminated
<1>3. /\ line_buffer' \in [Columns -> Keys \cup {NUL}] /\ line_length' \in Columns
      /\ \A i \in Columns : line_buffer'[i] = NUL <=> i >= line_length'
  <2>1. CASE c = Backspace /\ line_length > 0
    <3>1. /\ line_length' = line_length - 1
          /\ line_buffer' = [line_buffer EXCEPT ![line_length - 1] = NUL]
      BY <2>1 DEF console_handle_char, Erase
    <3>2. QED
      BY <1>2, <2>1, <3>1 DEF Columns
  <2>2. CASE c # Backspace /\ line_length < CONSOLE_BUFFER_SIZE - 1
    <3>1. /\ line_length' = line_length + 1
          /\ line_buffer' = [line_buffer EXCEPT ![line_length] = c]
      BY <2>2 DEF console_handle_char, Insert
    <3>2. QED
      BY <1>1, <1>2, <2>2, <3>1 DEF Columns
  <2>3. CASE UNCHANGED console
    BY <1>2, <2>3 DEF console
  <2>4. QED
    BY <2>1, <2>2, <2>3 DEF console_handle_char, Erase, Insert
<1>4. TypeOK'
  BY <1>1, <1>3 DEF KInv, TypeOK
<1>5. LineTerminated'
  BY <1>3 DEF LineTerminated
<1>6. QED
  BY <1>1, <1>4, <1>5 DEF KInv

LEMMA ClearStep == KInv /\ CommandReturns => KInv'
<1> SUFFICES ASSUME KInv, CommandReturns PROVE KInv'
  OBVIOUS
<1> USE KInvFacts
<1>1. /\ line_buffer' = [i \in Columns |-> NUL] /\ line_length' = 0 /\ pc' = "test"
      /\ UNCHANGED <<keyboard_buffer, buffer_head, buffer_tail, c, commands, typed, taken>>
  BY DEF CommandReturns, ring, history
<1>2. TypeOK'
  BY <1>1 DEF KInv, TypeOK, Columns
<1>3. LineTerminated'
  BY <1>1 DEF LineTerminated, Columns
<1>4. QED
  BY <1>1, <1>2, <1>3 DEF KInv

LEMMA StepKInv == KInv /\ [PacedNext]_vars => KInv'
<1> SUFFICES ASSUME KInv, [PacedNext]_vars PROVE KInv'
  OBVIOUS
<1>1. CASE Test
  BY <1>1, PcStep DEF PcMoves, Test, history, ring, console
<1>2. CASE GetChar
  BY <1>2, GetCharStep
<1>3. CASE MoveTail
  BY <1>3, MoveTailStep
<1>4. CASE console_handle_char
  BY <1>4, HandleCharStep
<1>5. CASE Enter
  BY <1>5, EnterStep
<1>6. CASE CommandReturns
  BY <1>6, ClearStep
<1>7. CASE Halt
  BY <1>7, PcStep DEF PcMoves, Halt, history, ring, console
<1>8. CASE CommandStops
  BY <1>8, PcStep DEF PcMoves, CommandStops, history, ring, console
<1>9. CASE TimerIRQ \/ KeyIgnored
  BY <1>9, PcStep DEF PcMoves, TimerIRQ, KeyIgnored, Woken, history, ring, console
<1>10. CASE Stopped \/ UNCHANGED vars
  BY <1>10, PcStep DEF PcMoves, Stopped, vars, ring, console
<1>11. ASSUME NEW k \in Keys, NoOverrun, keyboard_irq_handler(k) PROVE KInv'
  BY <1>11, KeyStep
<1>12. QED
  BY <1>1, <1>2, <1>3, <1>4, <1>5, <1>6, <1>7, <1>8, <1>9, <1>10, <1>11
  DEF PacedNext, MainLoop

\* The two indices of the ring count what was typed and what was taken.
THEOREM InputInvariant == PacedSpec => []KInv
<1>1. QED
  BY InitKInv, StepKInv, PTL DEF PacedSpec

\* execute_command always gets a string that ends inside line_buffer, so that
\* its strcpy stays inside its own buffer.
THEOREM InputTerminated == PacedSpec => []LineTerminated
<1>1. KInv => LineTerminated
  BY DEF KInv
<1>2. QED
  BY <1>1, InputInvariant, PTL

\* keyboard_has_input answers 0 only when nothing is left in the ring.
THEOREM InputEmpty == PacedSpec => []EmptyMeansEmpty
<1>1. KInv => EmptyMeansEmpty
  BY KInvFacts DEF EmptyMeansEmpty
<1>2. QED
  BY <1>1, InputInvariant, PTL

-----------------------------------------------------------------------------
(* The line editor is implemented, step by step                             *)

\* The editor's variables, as the mapping gives them.
Pending == IF pc = "handle" THEN <<c>> \o InRing ELSE InRing
Line == IF pc \in {"command", "stopped"} THEN <<>> ELSE CString(line_buffer)

\* What the ring and the line buffer hold.
Mapped ==
    /\ InRing = RingOf(keyboard_buffer, taken, typed)
    /\ InRing \in Seq(Keys \cup {NUL})
    /\ CString(line_buffer) \in Seq(Keys) /\ Len(CString(line_buffer)) = line_length
    /\ \A i \in 1 .. line_length : CString(line_buffer)[i] = line_buffer[i - 1]

LEMMA MappedIs == KInv => Mapped
<1> SUFFICES ASSUME KInv PROVE Mapped
  OBVIOUS
<1>1. /\ taken \in Nat /\ typed \in Nat /\ taken <= typed
      /\ typed - taken < KEYBOARD_BUFFER_SIZE
      /\ buffer_head = typed % KEYBOARD_BUFFER_SIZE
      /\ buffer_tail = taken % KEYBOARD_BUFFER_SIZE
      /\ keyboard_buffer \in [Cells -> Keys \cup {NUL}]
  BY KInvFacts DEF KInv, TypeOK
<1>2. InRing = RingOf(keyboard_buffer, taken, typed)
  BY <1>1, RingIs DEF InRing
<1>3. InRing \in Seq(Keys \cup {NUL})
  BY <1>1, <1>2, RingSeq
<1>4. /\ CString(line_buffer) \in Seq(Keys) /\ Len(CString(line_buffer)) = line_length
      /\ \A i \in 1 .. line_length : CString(line_buffer)[i] = line_buffer[i - 1]
  BY CStringIs DEF KInv, TypeOK, LineTerminated
<1>5. QED
  BY <1>2, <1>3, <1>4 DEF Mapped

LEMMA MappedNext == KInv' => Mapped'
  BY MappedIs, PTL

\* A step that the editor does not see.
LEMMA Unseen ==
    ASSUME Pending' = Pending, Line' = Line, commands' = commands,
           (pc' = "stopped") = (pc = "stopped")
    PROVE  UNCHANGED Editor!vars
  BY DEF Editor!vars, Pending, Line

\* A step of the main loop or an interrupt that leaves ring and line alone.
LEMMA QuietSteps ==
    ASSUME UNCHANGED <<ring, console, commands>>,
           pc \notin {"handle", "command", "stopped"}, pc' \notin {"handle", "command", "stopped"}
    PROVE  UNCHANGED Editor!vars
<1>1. InRing' = InRing /\ CString(line_buffer)' = CString(line_buffer)
  BY DEF ring, console, InRing, CString, StringLength
<1>2. Pending' = Pending /\ Line' = Line
  BY <1>1 DEF Pending, Line
<1>3. QED
  BY <1>2, Unseen

\* A key that is stored is a key typed.
LEMMA TypeStep ==
    ASSUME KInv, NoOverrun, NEW k \in Keys, keyboard_irq_handler(k)
    PROVE  Editor!Type(k)
<1> USE KInvFacts
<1>1. /\ keyboard_buffer' = [keyboard_buffer EXCEPT ![buffer_head] = k]
      /\ typed' = typed + 1 /\ pc' = Woken /\ pc # "stopped"
      /\ UNCHANGED <<buffer_tail, line_buffer, line_length, c, commands, taken>>
  BY DEF keyboard_irq_handler, console
<1>2. KInv' /\ Mapped /\ Mapped'
  BY KeyStep, MappedIs, MappedNext
<1>3. InRing' = Append(InRing, k)
  <2>1. /\ keyboard_buffer \in [Cells -> Keys \cup {NUL}] /\ k \in Keys \cup {NUL}
        /\ typed - taken < KEYBOARD_BUFFER_SIZE - 1
        /\ buffer_head = typed % KEYBOARD_BUFFER_SIZE
    BY DEF KInv, TypeOK, NoOverrun
  <2>2. RingOf(keyboard_buffer', taken, typed + 1) = Append(RingOf(keyboard_buffer, taken, typed), k)
    <3>1. /\ keyboard_buffer' \in [Cells -> Keys \cup {NUL}]
          /\ taken \in Nat /\ typed \in Nat /\ taken <= typed
          /\ keyboard_buffer'[typed % KEYBOARD_BUFFER_SIZE] = k
          /\ \A j \in Cells : j # typed % KEYBOARD_BUFFER_SIZE => keyboard_buffer'[j] = keyboard_buffer[j]
      BY <1>1, <2>1
    <3>2. QED
      BY <2>1, <3>1, RingStore
  <2>3. InRing' = RingOf(keyboard_buffer', taken', typed')
        /\ InRing = RingOf(keyboard_buffer, taken, typed)
    BY <1>2 DEF Mapped
  <2>4. QED
    BY <1>1, <2>1, <2>2, <2>3
<1>4. pc' = "handle" <=> pc = "handle"
  BY <1>1 DEF Woken
<1>5. Pending' = Append(Pending, k)
  <2>1. CASE pc = "handle"
    <3>1. InRing \in Seq(Keys \cup {NUL}) /\ <<c>> \in Seq(Keys \cup {NUL})
          /\ <<k>> \in Seq(Keys \cup {NUL})
      BY <1>2, <2>1 DEF Mapped, KInv, TypeOK
    <3>2. /\ Append(InRing, k) = InRing \o <<k>>
          /\ Append(<<c>> \o InRing, k) = (<<c>> \o InRing) \o <<k>>
      BY <3>1, AppendIsConcat, ConcatProperties
    <3>3. (<<c>> \o InRing) \o <<k>> = <<c>> \o (InRing \o <<k>>)
      BY <3>1, ConcatAssociative
    <3>4. QED
      BY <1>1, <1>3, <1>4, <2>1, <3>2, <3>3 DEF Pending
  <2>2. CASE pc # "handle"
    BY <1>1, <1>3, <1>4, <2>2 DEF Pending
  <2>3. QED
    BY <2>1, <2>2
<1>6. Line' = Line
  <2>1. CString(line_buffer)' = CString(line_buffer)
    BY <1>1 DEF CString, StringLength
  <2>2. QED
    BY <1>1, <2>1 DEF Line, Woken
<1>7. pc' # "stopped"
  BY <1>1 DEF Woken
<1>8. QED
  BY <1>1, <1>5, <1>6, <1>7 DEF Editor!Type, Pending, Line

\* Between reading a character and moving the tail it is in the ring; after
\* that it is the character in hand.
LEMMA TailStep == KInv /\ MoveTail => UNCHANGED Editor!vars
<1> SUFFICES ASSUME KInv, MoveTail PROVE UNCHANGED Editor!vars
  OBVIOUS
<1> USE KInvFacts
<1>1. /\ taken' = taken + 1 /\ pc = "move" /\ pc' = "handle" /\ taken < typed
      /\ c = keyboard_buffer[buffer_tail] /\ buffer_tail = taken % KEYBOARD_BUFFER_SIZE
      /\ UNCHANGED <<keyboard_buffer, line_buffer, line_length, c, commands, typed>>
  BY DEF MoveTail, console, KInv
<1>2. Mapped /\ Mapped'
  BY MoveTailStep, MappedIs, MappedNext
<1>3. RingOf(keyboard_buffer, taken, typed) = <<c>> \o RingOf(keyboard_buffer, taken + 1, typed)
  <2>1. keyboard_buffer \in [Cells -> Keys \cup {NUL}]
    BY DEF KInv, TypeOK
  <2>2. QED
    BY <1>1, <2>1, RingTake
<1>4. Pending' = Pending
  BY <1>1, <1>2, <1>3 DEF Pending, Mapped
<1>5. Line' = Line
  <2>1. CString(line_buffer)' = CString(line_buffer)
    BY <1>1 DEF CString, StringLength
  <2>2. QED
    BY <1>1, <2>1 DEF Line
<1>6. QED
  BY <1>1, <1>4, <1>5, Unseen

\* The step of the editor that takes key c, for the three kinds of key.
LEMMA TakeIs ==
    ASSUME KInv, pc = "handle", pc' # "stopped", Pending' = InRing,
           \/ c = Newline /\ commands' = Append(commands, Editor!Words(Line)) /\ Line' = <<>>
           \/ /\ c = Backspace /\ commands' = commands
              /\ Line' = (IF Line = <<>> THEN <<>> ELSE SubSeq(Line, 1, Len(Line) - 1))
           \/ /\ c \notin {Newline, Backspace} /\ commands' = commands
              /\ Line' = (IF Len(Line) < CONSOLE_BUFFER_SIZE - 1 THEN Append(Line, c) ELSE Line)
    PROVE  Editor!Take
<1>1. /\ Pending = <<c>> \o InRing /\ c \in Keys \cup {NUL}
      /\ InRing \in Seq(Keys \cup {NUL})
  BY MappedIs DEF Pending, Mapped, KInv, TypeOK
<1>2. Head(Pending) = c /\ Tail(Pending) = InRing /\ Pending # <<>>
  BY <1>1, InFront
<1> DEFINE P == Pending
           L == Line
           L1 == Line'
           R == InRing
           W == Editor!Words(Line)
<1>3. Newline # Backspace
  BY DEF Newline, Backspace
<1>4. /\ (pc # "stopped") = TRUE /\ (pc' # "stopped") = TRUE
  OBVIOUS
<1>5. CASE c = Newline
  BY <1>2, <1>3, <1>4, <1>5
  DEF Editor!Take, Pending, Line, Editor!Newline, Editor!Backspace, Newline, Backspace
<1>6. CASE c = Backspace
  BY <1>2, <1>3, <1>4, <1>6
  DEF Editor!Take, Editor!Front, Pending, Line, Editor!Newline, Editor!Backspace, Newline, Backspace
<1>7. CASE c \notin {Newline, Backspace}
  BY <1>2, <1>3, <1>4, <1>7
  DEF Editor!Take, Pending, Line, Editor!Newline, Editor!Backspace, Newline, Backspace
<1>8. QED
  BY <1>5, <1>6, <1>7

\* Handling a character edits the line as the editor does.
LEMMA EditStep == KInv /\ console_handle_char => Editor!Take
<1> SUFFICES ASSUME KInv, console_handle_char PROVE Editor!Take
  OBVIOUS
<1> USE KInvFacts
<1>1. /\ c \in Keys /\ c # Newline /\ pc = "handle" /\ pc' = "test"
      /\ UNCHANGED <<keyboard_buffer, buffer_head, buffer_tail, c, commands, typed, taken>>
  BY DEF KInv, console_handle_char, ring, history
<1>2. Mapped /\ Mapped'
  BY HandleCharStep, MappedIs, MappedNext
<1> DEFINE L == CString(line_buffer)
           L1 == CString(line_buffer)'
<1>3. /\ L \in Seq(Keys) /\ Len(L) = line_length /\ \A i \in 1 .. line_length : L[i] = line_buffer[i - 1]
      /\ L1 \in Seq(Keys) /\ Len(L1) = line_length'
      /\ \A i \in 1 .. line_length' : L1[i] = line_buffer'[i - 1]
  BY <1>2 DEF Mapped
<1>4. Line = L /\ Line' = L1
  BY <1>1 DEF Line
<1>5. Pending' = InRing
  BY <1>1, <1>2 DEF Pending, Mapped
<1>6. line_buffer \in [Columns -> Keys \cup {NUL}] /\ line_length \in Columns /\ line_length \in Nat
  BY DEF KInv, TypeOK, Columns
<1> HIDE DEF L, L1
<1>7. CASE c = Backspace /\ line_length > 0
  <2>1. /\ line_length' = line_length - 1
        /\ line_buffer' = [line_buffer EXCEPT ![line_length - 1] = NUL]
    BY <1>7 DEF console_handle_char, Erase
  <2> DEFINE S == SubSeq(L, 1, line_length - 1)
  <2>2. S \in Seq(Keys) /\ Len(S) = line_length - 1 /\ \A i \in 1 .. (line_length - 1) : S[i] = L[i]
    <3>1. \A i \in 1 .. (line_length - 1) : i \in 1 .. Len(L)
      BY <1>3, <1>6
    <3>2. \A i \in 1 .. (line_length - 1) : L[i] \in Keys
      BY <1>3, <3>1, ElementOfSeq
    <3>3. 1 \in Int /\ line_length - 1 \in Int /\ line_length - 1 - 1 + 1 = line_length - 1
          /\ \A i \in 1 .. (line_length - 1) : 1 + i - 1 = i
      BY <1>6
    <3>4. /\ S \in Seq(Keys) /\ Len(S) = (IF 1 <= line_length - 1 THEN (line_length - 1) - 1 + 1 ELSE 0)
          /\ \A i \in 1 .. ((line_length - 1) - 1 + 1) : S[i] = L[1 + i - 1]
      BY <3>2, <3>3, SubSeqProperties
    <3> HIDE DEF S
    <3>5. QED
      BY <1>6, <1>7, <3>3, <3>4
  <2> HIDE DEF S
  <2>3. ASSUME NEW i \in 1 .. Len(L1) PROVE L1[i] = S[i]
    <3>1. i \in 1 .. (line_length - 1) /\ i \in 1 .. line_length' /\ i \in 1 .. line_length
          /\ i - 1 # line_length - 1 /\ i - 1 \in Columns
      BY <1>3, <1>6, <2>1 DEF Columns
    <3>2. line_buffer'[i - 1] = line_buffer[i - 1]
      BY <1>6, <2>1, <3>1
    <3>3. QED
      BY <1>3, <2>2, <3>1, <3>2
  <2>4. L1 = S
    BY <1>3, <2>1, <2>2, <2>3, SeqEqual
  <2>5. Line # <<>> /\ Line' = SubSeq(Line, 1, Len(Line) - 1)
    BY <1>3, <1>4, <1>7, <2>4, EmptySeq DEF S
  <2>6. QED
    BY <1>1, <1>5, <1>7, <2>5, TakeIs
<1>8. CASE c # Backspace /\ line_length < CONSOLE_BUFFER_SIZE - 1
  <2>1. /\ line_length' = line_length + 1
        /\ line_buffer' = [line_buffer EXCEPT ![line_length] = c]
    BY <1>8 DEF console_handle_char, Insert
  <2>2. /\ Append(L, c) \in Seq(Keys) /\ Len(Append(L, c)) = line_length + 1
        /\ \A i \in 1 .. line_length : Append(L, c)[i] = L[i]
        /\ Append(L, c)[line_length + 1] = c
    BY <1>1, <1>3, AppendProperties
  <2>3. ASSUME NEW i \in 1 .. Len(L1) PROVE L1[i] = Append(L, c)[i]
    <3>1. CASE i = line_length + 1
      <4>1. i \in 1 .. line_length' /\ i - 1 = line_length
        BY <1>3, <1>6, <2>1, <3>1
      <4>2. line_buffer'[i - 1] = c
        BY <1>6, <2>1, <4>1
      <4>3. QED
        BY <1>3, <2>2, <3>1, <4>1, <4>2
    <3>2. CASE i # line_length + 1
      <4>1. i \in 1 .. line_length' /\ i \in 1 .. line_length /\ i - 1 # line_length /\ i - 1 \in Columns
        BY <1>3, <1>6, <2>1, <3>2 DEF Columns
      <4>2. line_buffer'[i - 1] = line_buffer[i - 1]
        BY <1>6, <2>1, <4>1
      <4>3. QED
        BY <1>3, <2>2, <4>1, <4>2
    <3>3. QED
      BY <3>1, <3>2
  <2>4. L1 = Append(L, c)
    BY <1>3, <2>1, <2>2, <2>3, SeqEqual
  <2>5. Len(Line) < CONSOLE_BUFFER_SIZE - 1 /\ Line' = Append(Line, c)
    BY <1>3, <1>4, <1>8, <2>4
  <2>6. QED
    BY <1>1, <1>5, <1>8, <2>5, TakeIs
<1>9. CASE /\ ~(c = Backspace /\ line_length > 0)
           /\ ~(c # Backspace /\ line_length < CONSOLE_BUFFER_SIZE - 1)
  <2>1. line_buffer' = line_buffer /\ line_length' = line_length
    BY <1>9 DEF console_handle_char, Erase, Insert, console
  <2>2. L1 = L
    BY <2>1 DEF L, L1, CString, StringLength
  <2>3. CASE c = Backspace
    <3>1. Line = <<>>
      BY <1>3, <1>4, <1>6, <1>9, <2>3, EmptySeq
    <3>2. QED
      BY <1>1, <1>4, <1>5, <2>2, <2>3, <3>1, TakeIs
  <2>4. CASE c # Backspace
    <3>1. ~(Len(Line) < CONSOLE_BUFFER_SIZE - 1)
      BY <1>3, <1>4, <1>9, <2>4
    <3>2. QED
      BY <1>1, <1>4, <1>5, <2>2, <2>4, <3>1, TakeIs
  <2>5. QED
    BY <2>3, <2>4
<1>10. QED
  BY <1>7, <1>8, <1>9

\* Enter runs the words of the line.
LEMMA RunStep == KInv /\ Enter => Editor!Take
<1> SUFFICES ASSUME KInv, Enter PROVE Editor!Take
  OBVIOUS
<1>1. /\ c = Newline /\ pc = "handle" /\ pc' = "command"
      /\ commands' = Append(commands, parse_arguments(CString(line_buffer)))
      /\ UNCHANGED <<keyboard_buffer, buffer_head, buffer_tail>>
  BY DEF Enter, ring
<1>2. Mapped
  BY MappedIs
<1>3. parse_arguments(CString(line_buffer)) = Editor!Words(CString(line_buffer))
  BY <1>2, ParseIs, EditorWords DEF Mapped
<1>4. Line = CString(line_buffer) /\ Line' = <<>>
  BY <1>1 DEF Line
<1>5. Pending' = InRing
  BY <1>1 DEF Pending, InRing
<1>6. commands' = Append(commands, Editor!Words(Line))
  BY <1>1, <1>3, <1>4
<1>7. QED
  BY <1>1, <1>4, <1>5, <1>6, TakeIs

\* The line is gone when its command starts; clearing it shows nothing new.
LEMMA ReturnStep == KInv /\ CommandReturns => UNCHANGED Editor!vars
<1> SUFFICES ASSUME KInv, CommandReturns PROVE UNCHANGED Editor!vars
  OBVIOUS
<1>1. /\ pc = "command" /\ pc' = "test" /\ line_length' = 0
      /\ UNCHANGED <<keyboard_buffer, buffer_head, buffer_tail, commands>>
  BY DEF CommandReturns, ring, history
<1>2. Mapped'
  BY ClearStep, MappedNext
<1>3. CString(line_buffer)' = <<>>
  BY <1>1, <1>2, EmptySeq DEF Mapped
<1>4. Line = <<>> /\ Line' = <<>>
  BY <1>1, <1>3 DEF Line
<1>5. Pending' = Pending
  BY <1>1 DEF Pending, InRing
<1>6. QED
  BY <1>1, <1>4, <1>5, Unseen

LEMMA StopStep == KInv /\ CommandStops => Editor!Stop
<1> SUFFICES ASSUME KInv, CommandStops PROVE Editor!Stop
  OBVIOUS
<1>1. /\ pc = "command" /\ pc' = "stopped" /\ Last(commands) # <<>> /\ commands # <<>>
      /\ UNCHANGED <<keyboard_buffer, buffer_head, buffer_tail, commands>>
  BY DEF CommandStops, ring, history, KInv
<1>2. Editor!Last(commands) = Last(commands)
  BY DEF Editor!Last, Last
<1>3. InRing' = InRing
  BY <1>1 DEF InRing
<1>4. Line = <<>> /\ Line' = <<>> /\ Pending' = Pending
  BY <1>1, <1>3 DEF Line, Pending
<1>5. QED
  BY <1>1, <1>2, <1>4 DEF Editor!Stop, Line, Pending

LEMMA EditorStep == KInv /\ [PacedNext]_vars => [Editor!Next]_(Editor!vars)
<1> SUFFICES ASSUME KInv, [PacedNext]_vars PROVE Editor!Next \/ UNCHANGED Editor!vars
  OBVIOUS
<1>1. CASE Test
  BY <1>1, QuietSteps DEF Test, ring, console, history
<1>2. CASE GetChar
  <2>1. taken < typed /\ pc = "getchar"
    BY <1>2 DEF KInv, GetChar
  <2>2. keyboard_has_input
    BY <2>1, KInvFacts, ModDistinct DEF KInv, keyboard_has_input
  <2>3. pc' = "move" /\ UNCHANGED <<ring, console, commands>>
    BY <1>2, <2>2 DEF GetChar, history
  <2>4. QED
    BY <2>1, <2>3, QuietSteps
<1>3. CASE MoveTail
  BY <1>3, TailStep
<1>4. CASE console_handle_char
  BY <1>4, EditStep DEF Editor!Next
<1>5. CASE Enter
  BY <1>5, RunStep DEF Editor!Next
<1>6. CASE CommandReturns
  BY <1>6, ReturnStep
<1>7. CASE Halt
  BY <1>7, QuietSteps DEF Halt, ring, console, history
<1>8. CASE CommandStops
  BY <1>8, StopStep DEF Editor!Next
<1>9. CASE TimerIRQ \/ KeyIgnored
  BY <1>9, QuietSteps DEF TimerIRQ, KeyIgnored, Woken, ring, console, history
<1>10. CASE Stopped \/ UNCHANGED vars
  <2>1. /\ UNCHANGED <<pc, c, commands, line_buffer>>
        /\ UNCHANGED <<keyboard_buffer, buffer_head, buffer_tail>>
    BY <1>10 DEF Stopped, vars
  <2>2. InRing' = InRing /\ CString(line_buffer)' = CString(line_buffer)
    BY <2>1 DEF InRing, CString, StringLength
  <2>3. Pending' = Pending /\ Line' = Line
    BY <2>1, <2>2 DEF Pending, Line
  <2>4. QED
    BY <2>1, <2>3, Unseen
<1>11. ASSUME NEW k \in Keys, NoOverrun, keyboard_irq_handler(k) PROVE Editor!Next
  <2>1. k \in Editor!Keys
    BY DEF Keys, Editor!Keys, Space, Newline, Backspace, Editor!Space, Editor!Newline, Editor!Backspace
  <2>2. QED
    BY <1>11, <2>1, TypeStep DEF Editor!Next
<1>12. QED
  BY <1>1, <1>2, <1>3, <1>4, <1>5, <1>6, <1>7, <1>8, <1>9, <1>10, <1>11
  DEF PacedNext, MainLoop

LEMMA EditorInit == Init => Editor!Init
<1> SUFFICES ASSUME Init PROVE Editor!Init
  OBVIOUS
<1>1. KInv
  BY InitKInv
<1>2. Mapped
  BY <1>1, MappedIs
<1>3. taken = 0 /\ typed = 0 /\ line_length = 0 /\ pc = "test" /\ commands = <<>>
  BY DEF Init
<1>4. InRing = <<>>
  <2>1. Len(RingOf(keyboard_buffer, taken, typed)) = 0
    <3>1. /\ keyboard_buffer \in [Cells -> Keys \cup {NUL}]
          /\ taken \in Nat /\ typed \in Nat /\ taken <= typed
      BY <1>1, <1>3 DEF KInv, TypeOK
    <3>2. Len(RingOf(keyboard_buffer, taken, typed)) = typed - taken
      BY <3>1, RingSeq
    <3>3. QED
      BY <1>3, <3>2
  <2>2. QED
    BY <1>2, <1>3, <2>1, EmptySeq DEF Mapped
<1>5. CString(line_buffer) = <<>>
  BY <1>2, <1>3, EmptySeq DEF Mapped
<1>6. QED
  BY <1>3, <1>4, <1>5 DEF Editor!Init

\* The keyboard ring, the line buffer and parse_arguments implement the line
\* editor, for every size of the two buffers and every number of words: keys
\* are taken in the order in which they were typed, none is lost or seen
\* twice, and every command run is the words of the line as typed and
\* corrected.
THEOREM InputEdits == PacedSpec => Editor!Safety
<1>1. QED
  BY EditorInit, EditorStep, InputInvariant, PTL DEF PacedSpec, Editor!Safety
=============================================================================
