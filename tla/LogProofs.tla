----------------------------- MODULE LogProofs -----------------------------
(***************************************************************************)
(* dmesg prints the end of everything that was logged, for every size of   *)
(* the ring and every length of a message; and every number that is        *)
(* printed reads back, for every width of a word.                          *)
(***************************************************************************)
EXTENDS Log, TLAPS, WellFoundedInduction, SequenceTheorems

-----------------------------------------------------------------------------
(* Induction and recursion along an interval                                *)

\* A set of numbers that is not empty has a least element.
LEMMA LowestOf ==
    ASSUME NEW S, S \subseteq Nat, S # {}
    PROVE  \E f \in S : \A g \in S : f <= g
<1>1. IsWellFoundedOn(OpToRel(<, Nat), Nat)
  BY NatLessThanWellFounded
<1>2. PICK f \in S : \A g \in S : ~ (<<g, f>> \in OpToRel(<, Nat))
  BY <1>1, WFMin
<1>3. ASSUME NEW g \in S PROVE f <= g
  <2>1. f \in Nat /\ g \in Nat
    OBVIOUS
  <2>2. <<g, f>> \in Nat \X Nat /\ <<g, f>>[1] = g /\ <<g, f>>[2] = f
    BY <2>1
  <2>3. ~ (<<g, f>>[1] < <<g, f>>[2])
    BY <1>2, <2>2, Zenon DEF OpToRel
  <2>4. QED
    BY <2>1, <2>3
<1>4. QED
  BY <1>2, <1>3

\* What holds of 0, and of each number if of the one before, holds of all.
LEMMA Along ==
    ASSUME NEW n \in Nat, NEW D, 0 \in D, \A k \in 1 .. n : k - 1 \in D => k \in D
    PROVE  \A k \in 0 .. n : k \in D
<1> DEFINE E == {k \in 0 .. n : k \notin D}
<1>1. SUFFICES ASSUME E # {} PROVE FALSE
  OBVIOUS
<1>2. E \subseteq Nat
  OBVIOUS
<1>3. PICK m \in E : \A j \in E : m <= j
  BY <1>1, <1>2, LowestOf
<1>4. m \in 0 .. n /\ m \notin D /\ m # 0
  BY <1>3
<1>5. m - 1 \in 0 .. n /\ ~(m <= m - 1) /\ m \in 1 .. n
  BY <1>4
<1>6. m - 1 \in D
  BY <1>3, <1>5
<1>7. QED
  BY <1>4, <1>5, <1>6

\* Along, for a step that uses what holds of all the numbers before.
LEMMA AlongAll ==
    ASSUME NEW n \in Nat, NEW D, \A k \in 0 .. n : (\A j \in 0 .. (k - 1) : j \in D) => k \in D
    PROVE  \A k \in 0 .. n : k \in D
<1> DEFINE E == {k \in 0 .. n : k \notin D}
<1>1. SUFFICES ASSUME E # {} PROVE FALSE
  OBVIOUS
<1>2. E \subseteq Nat
  OBVIOUS
<1>3. PICK m \in E : \A j \in E : m <= j
  BY <1>1, <1>2, LowestOf
<1>4. m \in 0 .. n /\ m \notin D
  BY <1>3
<1>5. \A j \in 0 .. (m - 1) : j \in 0 .. n /\ ~(m <= j)
  BY <1>4
<1>6. \A j \in 0 .. (m - 1) : j \in D
  BY <1>3, <1>5
<1>7. QED
  BY <1>4, <1>6

\* f starts with a and goes on as g says: what a loop of the code computes.
Runs(f, n, a, g) == f[0] = a /\ \A k \in 1 .. n : f[k] = g[<<f[k - 1], k>>]

\* There is such an f.
LEMMA RunExists ==
    ASSUME NEW n \in Nat, NEW S, NEW a \in S, NEW g \in [S \X (1 .. n) -> S]
    PROVE  \E f \in [0 .. n -> S] : Runs(f, n, a, g)
<1> DEFINE D == {m \in 0 .. n : \E f \in [0 .. m -> S] : Runs(f, m, a, g)}
<1>1. 0 \in D
  <2> DEFINE f == [k \in 0 .. 0 |-> a]
  <2>1. f \in [0 .. 0 -> S] /\ f[0] = a
    OBVIOUS
  <2>2. Runs(f, 0, a, g)
    BY <2>1 DEF Runs
  <2>3. QED
    BY <2>1, <2>2
<1>2. ASSUME NEW m \in 1 .. n, m - 1 \in D PROVE m \in D
  <2>1. PICK f \in [0 .. (m - 1) -> S] : Runs(f, m - 1, a, g)
    BY <1>2
  <2> DEFINE e == g[<<f[m - 1], m>>]
             h == [k \in 0 .. m |-> IF k = m THEN e ELSE f[k]]
  <2>2. e \in S
    OBVIOUS
  <2>3. h \in [0 .. m -> S] /\ h[m] = e /\ \A k \in 0 .. (m - 1) : h[k] = f[k]
    BY <2>2
  <2>4. h[0] = a
    BY <2>1, <2>3 DEF Runs
  <2>5. ASSUME NEW k \in 1 .. m PROVE h[k] = g[<<h[k - 1], k>>]
    <3>1. CASE k = m
      <4>1. m - 1 \in 0 .. (m - 1)
        OBVIOUS
      <4>2. h[m - 1] = f[m - 1]
        BY <2>3, <4>1
      <4> HIDE DEF h
      <4>3. QED
        BY <2>3, <3>1, <4>2
    <3>2. CASE k # m
      <4>1. k \in 1 .. (m - 1) /\ k \in 0 .. (m - 1) /\ k - 1 \in 0 .. (m - 1)
        BY <3>2
      <4>2. f[k] = g[<<f[k - 1], k>>]
        BY <2>1, <4>1 DEF Runs
      <4> HIDE DEF h
      <4>3. QED
        BY <2>3, <4>1, <4>2
    <3>3. QED
      BY <3>1, <3>2
  <2> HIDE DEF h
  <2>6. Runs(h, m, a, g)
    BY <2>4, <2>5 DEF Runs
  <2>7. QED
    BY <2>3, <2>6
<1> HIDE DEF D
<1>3. \A k \in 0 .. n : k \in D
  BY <1>1, <1>2, Along
<1>4. QED
  BY <1>3 DEF D
-----------------------------------------------------------------------------
(* The ring                                                                 *)

Digits == {hex_chars[k] : k \in 1 .. 16}
Characters ==
    Chars \cup Digits \cup
        {NUL, "x", "\n", " ", "syscall: unknown ", "panic: ", "Manual panic triggered"}

Ring == [buffer : [Slots -> Characters], head : Slots, used : 0 .. LOG_BUFFER_SIZE]

\* The cell of the character that was logged j before the last one.
Back(h, j) == IF h - 1 - j >= 0 THEN h - 1 - j ELSE h - 1 - j + LOG_BUFFER_SIZE

\* The ring r holds the end of w.
RingOK(r, w) ==
    /\ r \in Ring /\ w \in Seq(Characters)
    /\ r.used = (IF Len(w) < LOG_BUFFER_SIZE THEN Len(w) ELSE LOG_BUFFER_SIZE)
    /\ r.used < LOG_BUFFER_SIZE => r.head = r.used
    /\ \A j \in 0 .. (r.used - 1) : r.buffer[Back(r.head, j)] = w[Len(w) - j]

\* One more at the end of a sequence.
LEMMA AppendIs ==
    ASSUME NEW S, NEW s \in Seq(S), NEW e \in S
    PROVE  /\ Append(s, e) \in Seq(S) /\ Len(Append(s, e)) = Len(s) + 1 /\ Len(s) \in Nat
           /\ Append(s, e)[Len(Append(s, e))] = e
           /\ \A k \in 1 .. Len(s) : Append(s, e)[k] = s[k]
<1>1. Append(s, e) \in Seq(S) /\ Len(Append(s, e)) = Len(s) + 1 /\ Len(s) \in Nat
  BY AppendProperties, LenProperties
<1>2. Append(s, e)[Len(Append(s, e))] = e
  BY <1>1, AppendProperties
<1>3. QED
  BY <1>1, <1>2, AppendProperties

\* The head goes on by one cell, from the last one to the first.
LEMMA NextHeadIs ==
    ASSUME NEW h \in Slots
    PROVE  NextHead(h) = (IF h + 1 = LOG_BUFFER_SIZE THEN 0 ELSE h + 1) /\ NextHead(h) \in Slots
<1>1. NextHead(h) = (IF h + 1 = LOG_BUFFER_SIZE THEN 0 ELSE h + 1)
  BY SMTT(30), LogConstants DEF NextHead, Slots
<1>2. QED
  BY <1>1, LogConstants DEF Slots

\* One character of log_write leaves a ring.
LEMMA LogCharIs ==
    ASSUME NEW r \in Ring, NEW ch \in Characters
    PROVE  /\ LogChar(r, ch) \in Ring
           /\ LogChar(r, ch).buffer = [r.buffer EXCEPT ![r.head] = ch]
           /\ LogChar(r, ch).head = (IF r.head + 1 = LOG_BUFFER_SIZE THEN 0 ELSE r.head + 1)
           /\ LogChar(r, ch).used = (IF r.used < LOG_BUFFER_SIZE THEN r.used + 1 ELSE r.used)
<1>1. r.buffer \in [Slots -> Characters] /\ r.head \in Slots /\ r.used \in 0 .. LOG_BUFFER_SIZE
  BY DEF Ring
<1> DEFINE b == [r.buffer EXCEPT ![r.head] = ch]
           h == NextHead(r.head)
           u == IF r.used < LOG_BUFFER_SIZE THEN r.used + 1 ELSE r.used
<1>2. b \in [Slots -> Characters]
  BY <1>1
<1>3. h \in Slots /\ h = (IF r.head + 1 = LOG_BUFFER_SIZE THEN 0 ELSE r.head + 1)
  BY <1>1, NextHeadIs
<1>4. u \in 0 .. LOG_BUFFER_SIZE
  BY <1>1, LogConstants
<1>5. LogChar(r, ch) = [buffer |-> b, head |-> h, used |-> u]
  BY DEF LogChar
<1> HIDE DEF b, h, u
<1>6. LogChar(r, ch) \in Ring /\ LogChar(r, ch).buffer = b /\ LogChar(r, ch).head = h /\ LogChar(r, ch).used = u
  BY <1>2, <1>3, <1>4, <1>5 DEF Ring
<1>7. QED
  BY <1>3, <1>6 DEF b, u

\* One character more, in the ring and in what was logged.
LEMMA RingStep ==
    ASSUME NEW r, NEW w, RingOK(r, w), NEW ch \in Characters
    PROVE  RingOK(LogChar(r, ch), Append(w, ch))
<1> DEFINE q == LogChar(r, ch)
           v == Append(w, ch)
           n == LOG_BUFFER_SIZE
<1>1. r \in Ring /\ w \in Seq(Characters)
  BY DEF RingOK
<1>2. r.buffer \in [Slots -> Characters] /\ r.head \in Slots /\ r.used \in 0 .. n
  BY <1>1 DEF Ring
<1>3. /\ q \in Ring
      /\ q.buffer = [r.buffer EXCEPT ![r.head] = ch]
      /\ q.head = (IF r.head + 1 = n THEN 0 ELSE r.head + 1)
      /\ q.used = (IF r.used < n THEN r.used + 1 ELSE r.used)
  BY <1>1, LogCharIs
<1> HIDE DEF v
<1>4. /\ v \in Seq(Characters) /\ Len(v) = Len(w) + 1 /\ Len(w) \in Nat /\ v[Len(v)] = ch
      /\ \A k \in 1 .. Len(w) : v[k] = w[k]
  <2> HIDE DEF q, n
  <2>1. /\ Append(w, ch) \in Seq(Characters) /\ Len(Append(w, ch)) = Len(w) + 1 /\ Len(w) \in Nat
        /\ Append(w, ch)[Len(Append(w, ch))] = ch
        /\ \A k \in 1 .. Len(w) : Append(w, ch)[k] = w[k]
    BY <1>1, AppendIs
  <2>2. QED
    BY <2>1, Zenon DEF v
<1>5. n \in Nat \ {0} /\ Slots = 0 .. (n - 1)
  BY LogConstants DEF Slots
<1>6. /\ r.used = (IF Len(w) < n THEN Len(w) ELSE n)
      /\ r.used < n => r.head = r.used
      /\ \A j \in 0 .. (r.used - 1) : r.buffer[Back(r.head, j)] = w[Len(w) - j]
  BY DEF RingOK
<1>7. \A h, j : Back(h, j) = IF h - 1 - j >= 0 THEN h - 1 - j ELSE h - 1 - j + n
  BY Zenon DEF Back
<1> HIDE DEF q, v, n
<1>8. q.used = (IF Len(v) < n THEN Len(v) ELSE n) /\ (q.used < n => q.head = q.used)
  BY <1>2, <1>3, <1>4, <1>5, <1>6
<1>9. ASSUME NEW j \in 0 .. (q.used - 1) PROVE q.buffer[Back(q.head, j)] = v[Len(v) - j]
  <2>1. CASE j = 0
    <3>1. Back(q.head, j) = r.head
      BY <1>2, <1>3, <1>5, <1>7, <2>1
    <3>2. QED
      BY <1>2, <1>3, <1>4, <2>1, <3>1
  <2>2. CASE j # 0
    <3>1. j - 1 \in 0 .. (r.used - 1) /\ j - 1 <= n - 2
      BY <1>2, <1>3, <1>5, <2>2
    <3> DEFINE h == r.head
               p == q.head
    <3>0. h \in 0 .. (n - 1) /\ p = (IF h + 1 = n THEN 0 ELSE h + 1) /\ j \in Nat
      BY <1>2, <1>3, <1>5
    <3>0b. /\ Back(p, j) = (IF p - 1 - j >= 0 THEN p - 1 - j ELSE p - 1 - j + n)
           /\ Back(h, j - 1) = (IF h - 1 - (j - 1) >= 0 THEN h - 1 - (j - 1) ELSE h - 1 - (j - 1) + n)
      BY <1>7
    <3> HIDE DEF h, p
    <3>0c. Back(p, j) = Back(h, j - 1) /\ Back(p, j) # h /\ Back(p, j) \in 0 .. (n - 1)
      BY <1>5, <2>2, <3>0, <3>0b, <3>1
    <3>2. Back(q.head, j) = Back(r.head, j - 1) /\ Back(q.head, j) # r.head /\ Back(q.head, j) \in Slots
      BY <1>5, <3>0c DEF h, p
    <3>3. q.buffer[Back(q.head, j)] = r.buffer[Back(r.head, j - 1)]
      BY <1>2, <1>3, <3>2
    <3>4. r.buffer[Back(r.head, j - 1)] = w[Len(w) - (j - 1)]
      BY <1>6, <3>1
    <3>5. Len(w) - (j - 1) = Len(v) - j /\ Len(w) - (j - 1) \in 1 .. Len(w)
      BY <1>2, <1>4, <1>5, <1>6, <2>2, <3>1
    <3>6. QED
      BY <1>4, <3>3, <3>4, <3>5
  <2>3. QED
    BY <2>1, <2>2
<1>10. QED
  BY <1>3, <1>4, <1>8, <1>9 DEF RingOK, n, q, v

\* The ring as it is.
Now == [buffer |-> log_buffer, head |-> log_head, used |-> log_used]

\* What log_write computes, character by character.
LoggedDef(m, f) ==
    f = [k \in 0 .. Len(m) |-> IF k = 0 THEN Now ELSE LogChar(f[k - 1], m[k])]
Logged(m) == CHOOSE f : LoggedDef(m, f)

\* log_write's loop computes what its recursion says.
LEMMA LoggedIs ==
    ASSUME NEW m \in Seq(Characters), Now \in Ring
    PROVE  LoggedDef(m, Logged(m))
<1> DEFINE n == Len(m)
           g == [p \in Ring \X (1 .. n) |-> LogChar(p[1], m[p[2]])]
<1>1. n \in Nat /\ \A k \in 1 .. n : m[k] \in Characters
  OBVIOUS
<1>2. ASSUME NEW p \in Ring \X (1 .. n) PROVE LogChar(p[1], m[p[2]]) \in Ring
  BY <1>1, LogCharIs
<1>3. g \in [Ring \X (1 .. n) -> Ring]
  BY <1>2
<1>4. \A r \in Ring, k \in 1 .. n : g[<<r, k>>] = LogChar(r, m[k])
  OBVIOUS
<1> HIDE DEF g
<1>5. PICK f \in [0 .. n -> Ring] : Runs(f, n, Now, g)
  BY <1>1, <1>3, RunExists
<1>6. ASSUME NEW k \in 0 .. n PROVE f[k] = IF k = 0 THEN Now ELSE LogChar(f[k - 1], m[k])
  <2>1. k # 0 => k \in 1 .. n /\ k - 1 \in 0 .. n
    BY <1>1
  <2>2. k # 0 => f[k - 1] \in Ring /\ f[k] = g[<<f[k - 1], k>>]
    BY <1>5, <2>1 DEF Runs
  <2>3. QED
    BY <1>4, <1>5, <2>1, <2>2 DEF Runs
<1>7. f = [k \in 0 .. n |-> f[k]]
  OBVIOUS
<1>8. LoggedDef(m, f)
  BY <1>6, <1>7, Zenon DEF LoggedDef
<1>9. QED
  BY <1>8, Zenon DEF Logged

\* After k characters of a message the ring holds the end of what was logged
\* before and of those.
LEMMA LoggedRing ==
    ASSUME NEW m \in Seq(Characters), RingOK(Now, written)
    PROVE  RingOK(Logged(m)[Len(m)], written \o m)
<1> DEFINE n == Len(m)
           f == Logged(m)
           w(k) == written \o SubSeq(m, 1, k)
           D == {k \in 0 .. n : RingOK(f[k], w(k))}
<1>1. n \in Nat /\ written \in Seq(Characters) /\ Now \in Ring
  BY DEF RingOK
<1>2. LoggedDef(m, f)
  BY <1>1, LoggedIs
<1> HIDE DEF f
<1>3. \A k \in 0 .. n : f[k] = IF k = 0 THEN Now ELSE LogChar(f[k - 1], m[k])
  BY <1>2, Zenon DEF LoggedDef
<1>4. 0 \in D
  <2>1. w(0) = written
    BY <1>1
  <2>2. f[0] = Now /\ 0 \in 0 .. n
    BY <1>1, <1>3
  <2>3. QED
    BY <2>1, <2>2
<1>5. ASSUME NEW k \in 1 .. n, k - 1 \in D PROVE k \in D
  <2>1. w(k) = Append(w(k - 1), m[k]) /\ m[k] \in Characters
    BY <1>1
  <2>2. f[k] = LogChar(f[k - 1], m[k]) /\ k \in 0 .. n
    BY <1>3
  <2> HIDE DEF w
  <2>3. RingOK(f[k - 1], w(k - 1))
    BY <1>5
  <2>4. QED
    BY <2>1, <2>2, <2>3, RingStep
<1> HIDE DEF D
<1>6. n \in D
  <2>1. \A k \in 0 .. n : k \in D
    BY <1>1, <1>4, <1>5, Along
  <2>2. n \in 0 .. n
    BY <1>1
  <2>3. QED
    BY <2>1, <2>2
<1>7. w(n) = written \o m
  <2>1. SubSeq(m, 1, n) = m
    BY <1>1
  <2>2. QED
    BY <2>1
<1>8. QED
  <2> HIDE DEF w
  <2>1. RingOK(f[n], w(n))
    BY <1>6 DEF D
  <2>2. QED
    BY <1>7, <2>1 DEF f
-----------------------------------------------------------------------------
(* What dmesg prints                                                        *)

\* The cell that log_dump reads for its i-th character is the one in which
\* log_write left the character that many from the end.
LEMMA DumpCell ==
    ASSUME NEW n \in Nat \ {0}, NEW h \in 0 .. (n - 1), NEW i \in 1 .. n
    PROVE  (h + i - 1) % n = (IF h + i - 1 < n THEN h + i - 1 ELSE h + i - 1 - n)
BY SMTT(30)

\* log_dump, read from such a ring, is the end of what was logged.
LEMMA DumpFromRing ==
    ASSUME RingOK(Now, written)
    PROVE  DumpIsTail
<1> DEFINE n == LOG_BUFFER_SIZE
           L == Len(written)
<1>1. Now.buffer = log_buffer /\ Now.head = log_head /\ Now.used = log_used
  BY DEF Now
<1>2. /\ written \in Seq(Characters) /\ log_head \in Slots /\ log_used \in 0 .. n
      /\ log_used = (IF L < n THEN L ELSE n)
      /\ log_used < n => log_head = log_used
      /\ \A j \in 0 .. (log_used - 1) : log_buffer[Back(log_head, j)] = written[L - j]
  <2>1. Now \in Ring
    BY DEF RingOK
  <2>2. log_head \in Slots /\ log_used \in 0 .. n
    BY <1>1, <2>1 DEF Ring
  <2>3. QED
    BY <1>1, <2>2, Zenon DEF RingOK
<1>3. L \in Nat /\ n \in Nat \ {0} /\ Slots = 0 .. (n - 1)
  BY <1>2, LenProperties, LogConstants DEF Slots
<1>4. written = [i \in 1 .. L |-> written[i]]
  BY <1>2, LenProperties
<1> HIDE DEF L, n
<1>5. ASSUME NEW i \in 1 .. log_used
      PROVE  log_buffer[(log_start_index + i - 1) % LOG_BUFFER_SIZE] = written[L - log_used + i]
  <2> DEFINE j == log_used - i
             c == (log_start_index + i - 1) % LOG_BUFFER_SIZE
  <2>1. j \in 0 .. (log_used - 1) /\ L - j = L - log_used + i /\ i \in 1 .. n
    BY <1>2, <1>3
  <2>2. log_buffer[Back(log_head, j)] = written[L - j]
    BY <1>2, <2>1
  <2>3. log_start_index = (IF log_used < n THEN 0 ELSE log_head)
    BY DEF log_start_index, n
  <2>4. log_start_index \in 0 .. (n - 1)
    BY <1>2, <1>3, <2>3
  <2>5. c = (IF log_start_index + i - 1 < n THEN log_start_index + i - 1 ELSE log_start_index + i - 1 - n)
    BY <1>3, <2>1, <2>4, DumpCell DEF n
  <2>6. Back(log_head, j) = (IF log_head - 1 - j >= 0 THEN log_head - 1 - j ELSE log_head - 1 - j + n)
    BY Zenon DEF Back, n
  <2> HIDE DEF c
  <2>7. c = Back(log_head, j)
    <3> DEFINE h == log_head
               u == log_used
               b == log_start_index
    <3>1. /\ h \in 0 .. (n - 1) /\ u \in 0 .. n /\ (u < n => h = u) /\ b = (IF u < n THEN 0 ELSE h)
          /\ i \in 1 .. u /\ n \in Nat
          /\ c = (IF b + i - 1 < n THEN b + i - 1 ELSE b + i - 1 - n)
          /\ Back(log_head, j) = (IF h - 1 - (u - i) >= 0 THEN h - 1 - (u - i) ELSE h - 1 - (u - i) + n)
      BY <1>2, <1>3, <2>3, <2>5, <2>6
    <3> HIDE DEF h, u, b, j
    <3>2. CASE u < n
      BY <3>1, <3>2
    <3>3. CASE ~(u < n)
      <4>1. u = n
        BY <3>1, <3>3
      <4>2. QED
        BY <3>1, <4>1
    <3>4. QED
      BY <3>2, <3>3
  <2>8. QED
    BY <2>1, <2>2, <2>7 DEF c
<1>6. log_dump = [i \in 1 .. log_used |-> written[L - log_used + i]]
  BY <1>5, Zenon DEF log_dump
<1>7. CASE L <= n
  <2>1. log_used = L
    BY <1>2, <1>3, <1>7
  <2>2. \A i \in 1 .. L : L - L + i = i
    BY <1>3
  <2>3. log_dump = written
    BY <1>4, <1>6, <2>1, <2>2
  <2>4. QED
    BY <1>7, <2>3 DEF DumpIsTail, L, n
<1>8. CASE ~(L <= n)
  <2>1. log_used = n /\ L - n + 1 \in 1 .. L /\ L \in 1 .. L
    BY <1>2, <1>3, <1>8
  <2> DEFINE s == SubSeq(written, L - n + 1, L)
  <2>2. s = [i \in 1 .. n |-> written[L - n + i]]
    <3> DEFINE m == L - n + 1
    <3>1. m \in Int /\ L \in Int /\ m <= L /\ L - m + 1 = n /\ \A i \in 1 .. n : m + i - 1 = L - n + i
      BY <1>3, <1>8
    <3>2. \A i \in m .. L : written[i] \in Characters
      <4>1. written \in [1 .. L -> Characters]
        BY <1>2, LenProperties DEF L
      <4>2. \A i \in m .. L : i \in 1 .. L
        BY <1>3, <1>8
      <4>3. QED
        BY <4>1, <4>2
    <3> HIDE DEF m
    <3>3. /\ SubSeq(written, m, L) \in Seq(Characters)
          /\ Len(SubSeq(written, m, L)) = (IF m <= L THEN L - m + 1 ELSE 0)
          /\ \A i \in 1 .. (L - m + 1) : SubSeq(written, m, L)[i] = written[m + i - 1]
      BY <3>1, <3>2, SubSeqProperties
    <3> DEFINE t == SubSeq(written, m, L)
    <3> HIDE DEF t
    <3>4. t \in Seq(Characters) /\ Len(t) = n /\ \A i \in 1 .. n : t[i] = written[L - n + i]
      BY <3>1, <3>3 DEF t
    <3>5. t = [i \in 1 .. n |-> t[i]]
      BY <3>4, LenProperties
    <3>6. t = [i \in 1 .. n |-> written[L - n + i]]
      BY <3>4, <3>5, Zenon
    <3>7. QED
      BY <3>6 DEF t, m
  <2>3. log_dump = s
    BY <1>6, <2>1, <2>2
  <2>4. QED
    BY <1>8, <2>3 DEF DumpIsTail, L, n
<1>9. QED
  BY <1>7, <1>8

\* A step that logs m.
LEMMA WriteRing ==
    ASSUME RingOK(Now, written), NEW m \in Seq(Characters), log_write(m)
    PROVE  RingOK(Now', written')
<1>1. /\ log_buffer' = Logged(m)[Len(m)].buffer /\ log_head' = Logged(m)[Len(m)].head
      /\ log_used' = Logged(m)[Len(m)].used /\ written' = written \o m
  BY Zenon DEF log_write, Logged, LoggedDef, Now
<1>2. RingOK(Logged(m)[Len(m)], written \o m)
  BY LoggedRing
<1> DEFINE r == Logged(m)[Len(m)]
<1>3. r \in Ring
  BY <1>2 DEF RingOK
<1>4. Now' = [buffer |-> r.buffer, head |-> r.head, used |-> r.used]
  BY <1>1 DEF Now
<1> HIDE DEF r
<1>5. Now' = r
  BY <1>3, <1>4 DEF Ring
<1>6. QED
  BY <1>1, <1>2, <1>5 DEF r
-----------------------------------------------------------------------------
(* Powers and digits                                                        *)

PowerDef(f) == f = [n \in 0 .. NIBBLES |-> IF n = 0 THEN 1 ELSE 16 * f[n - 1]]

\* The powers are positive and grow sixteenfold.
LEMMA PowerIs ==
    /\ Power[0] = 1
    /\ \A n \in 1 .. NIBBLES : Power[n] = 16 * Power[n - 1]
    /\ \A n \in 0 .. NIBBLES : Power[n] \in Nat \ {0}
<1> DEFINE P == Nat \ {0}
           g == [p \in P \X (1 .. NIBBLES) |-> 16 * p[1]]
<1>1. NIBBLES \in Nat /\ 1 \in P
  BY NumbersConstants
<1>2. g \in [P \X (1 .. NIBBLES) -> P]
  OBVIOUS
<1>3. \A x \in P, k \in 1 .. NIBBLES : g[<<x, k>>] = 16 * x
  OBVIOUS
<1> HIDE DEF g, P
<1>4. PICK f \in [0 .. NIBBLES -> P] : Runs(f, NIBBLES, 1, g)
  BY <1>1, <1>2, RunExists
<1>5. ASSUME NEW n \in 0 .. NIBBLES PROVE f[n] = IF n = 0 THEN 1 ELSE 16 * f[n - 1]
  <2>1. n # 0 => n \in 1 .. NIBBLES /\ n - 1 \in 0 .. NIBBLES
    BY <1>1
  <2>2. n # 0 => f[n - 1] \in P /\ f[n] = g[<<f[n - 1], n>>]
    BY <1>4, <2>1 DEF Runs
  <2>3. QED
    BY <1>3, <1>4, <2>1, <2>2 DEF Runs
<1>6. f = [n \in 0 .. NIBBLES |-> f[n]]
  OBVIOUS
<1>7. PowerDef(f)
  BY <1>5, <1>6, Zenon DEF PowerDef
<1>8. Power = CHOOSE h : PowerDef(h)
  BY Zenon DEF Power, PowerDef
<1>9. PowerDef(Power)
  BY <1>7, <1>8, Zenon
<1>10. \A n \in 0 .. NIBBLES : Power[n] = IF n = 0 THEN 1 ELSE 16 * Power[n - 1]
  BY <1>9, Zenon DEF PowerDef
<1>11. Power[0] = 1 /\ \A n \in 1 .. NIBBLES : Power[n] = 16 * Power[n - 1]
  BY <1>1, <1>10
<1> DEFINE D == {n \in 0 .. NIBBLES : Power[n] \in Nat \ {0}}
<1>12. 0 \in D
  BY <1>1, <1>11
<1>13. ASSUME NEW n \in 1 .. NIBBLES, n - 1 \in D PROVE n \in D
  <2>1. Power[n] = 16 * Power[n - 1] /\ Power[n - 1] \in Nat \ {0}
    BY <1>11, <1>13
  <2>2. Power[n] \in Nat \ {0}
    BY <2>1
  <2>3. QED
    BY <2>2
<1> HIDE DEF D
<1>14. \A n \in 0 .. NIBBLES : n \in D
  BY <1>1, <1>12, <1>13, Along
<1>15. QED
  BY <1>11, <1>14 DEF D

\* A word has at least one value.
LEMMA WordIs == Word \in Nat \ {0} /\ Words = 0 .. (Word - 1) /\ Word - 1 \in Nat
<1>1. NIBBLES \in 0 .. NIBBLES
  BY NumbersConstants
<1>2. Word \in Nat \ {0}
  BY <1>1, PowerIs DEF Word
<1>3. QED
  BY <1>2 DEF Words

\* Every digit is a character of its own.
LEMMA DigitsDiffer ==
    ASSUME NEW d \in 0 .. 15, NEW e \in 0 .. 15, Digit(d) = Digit(e)
    PROVE  d = e
BY SMTT(30) DEF Digit, hex_chars

\* atoi_hex's value of a digit is the digit.
LEMMA DigitIs ==
    ASSUME NEW d \in 0 .. 15
    PROVE  Digit(d) \in Characters /\ DigitValue(Digit(d)) = d
<1>1. Digit(d) \in Characters
  <2>1. d + 1 \in 1 .. 16
    OBVIOUS
  <2>2. QED
    BY <2>1, Zenon DEF Digit, Digits, Characters
<1>2. Digit(d) \in Range(hex_chars)
  <2>1. d + 1 \in 1 .. 16 /\ DOMAIN hex_chars = 1 .. 16
    BY DEF hex_chars
  <2>2. QED
    BY <2>1, Zenon DEF Digit, Range
<1>3. \A e \in 0 .. 15 : Digit(e) = Digit(d) => e = d
  BY DigitsDiffer
<1>4. (CHOOSE e \in 0 .. 15 : Digit(e) = Digit(d)) = d
  BY <1>3
<1>5. QED
  BY <1>1, <1>2, <1>4, Zenon DEF DigitValue
-----------------------------------------------------------------------------
(* Reading a number                                                         *)

Bases == {10, 16}
AllDigits(str, base) == \A i \in 1 .. Len(str) : DigitValue(str[i]) \in 0 .. (base - 1)

\* The parts of ReadNumber: where the number ends, and its value so far.
Ends(str, base) == {i \in 1 .. Len(str) : DigitValue(str[i]) \notin 0 .. (base - 1)}
LastOf(str, base) ==
    IF Ends(str, base) = {} THEN Len(str)
    ELSE (CHOOSE i \in Ends(str, base) : \A j \in Ends(str, base) : i <= j) - 1
UpToDef(str, base, last, f) ==
    f = [i \in 0 .. last |-> IF i = 0 THEN 0 ELSE (f[i - 1] * base + DigitValue(str[i])) % Word]
UpTo(str, base, last) == CHOOSE f : UpToDef(str, base, last, f)

\* ReadNumber is made of these parts.
LEMMA ReadNumberIs ==
    ASSUME NEW str, NEW base
    PROVE  ReadNumber(str, base) = UpTo(str, base, LastOf(str, base))[LastOf(str, base)]
BY Zenon DEF ReadNumber, UpTo, UpToDef, LastOf, Ends

\* A text of digits only is read to its end.
LEMMA AllDigitsRead ==
    ASSUME NEW str, NEW base, AllDigits(str, base)
    PROVE  ReadNumber(str, base) = UpTo(str, base, Len(str))[Len(str)]
<1>1. Ends(str, base) = {}
  BY Zenon DEF Ends, AllDigits
<1>2. LastOf(str, base) = Len(str)
  BY <1>1, Zenon DEF LastOf
<1>3. QED
  BY <1>2, ReadNumberIs, Zenon

\* The loop of atoi and atoi_hex, one digit at a time.
LEMMA UpToIs ==
    ASSUME NEW str \in Seq(Characters), NEW base \in Bases, AllDigits(str, base)
    PROVE  /\ UpTo(str, base, Len(str))[0] = 0
           /\ \A k \in 1 .. Len(str) : UpTo(str, base, Len(str))[k] =
                  (UpTo(str, base, Len(str))[k - 1] * base + DigitValue(str[k])) % Word
<1> DEFINE n == Len(str)
           d == [k \in 1 .. n |-> DigitValue(str[k])]
           g == [p \in Int \X (1 .. n) |-> (p[1] * base + d[p[2]]) % Word]
<1>1. n \in Nat /\ base \in Nat /\ 0 \in Int
  BY LenProperties DEF Bases
<1>2. \A k \in 1 .. n : d[k] = DigitValue(str[k]) /\ d[k] \in Int
  BY <1>1 DEF AllDigits
<1> HIDE DEF d, n
<1>3. Word \in Nat \ {0}
  BY WordIs
<1>4. ASSUME NEW x \in Int, NEW k \in 1 .. n PROVE (x * base + d[k]) % Word \in Int
  <2>1. d[k] \in Int
    BY <1>2
  <2> DEFINE y == x * base + d[k]
  <2>2. y \in Int
    BY <1>1, <2>1
  <2> HIDE DEF y
  <2>3. y % Word \in Int
    BY <1>3, <2>2
  <2>4. QED
    BY <2>3 DEF y
<1>5. g \in [Int \X (1 .. n) -> Int]
  BY <1>4
<1>6. \A x \in Int, k \in 1 .. n : g[<<x, k>>] = (x * base + d[k]) % Word
  OBVIOUS
<1> HIDE DEF g
<1>7. PICK f \in [0 .. n -> Int] : Runs(f, n, 0, g)
  BY <1>1, <1>5, RunExists
<1>8. ASSUME NEW k \in 0 .. n
      PROVE  f[k] = IF k = 0 THEN 0 ELSE (f[k - 1] * base + DigitValue(str[k])) % Word
  <2>1. k # 0 => k \in 1 .. n /\ k - 1 \in 0 .. n
    BY <1>1
  <2>2. k # 0 => f[k - 1] \in Int /\ f[k] = g[<<f[k - 1], k>>]
    BY <1>7, <2>1 DEF Runs
  <2>3. k = 0 => f[k] = 0
    BY <1>7 DEF Runs
  <2>4. QED
    BY <1>2, <1>6, <2>1, <2>2, <2>3, Zenon
<1>9. f = [k \in 0 .. n |-> f[k]]
  OBVIOUS
<1>10. UpToDef(str, base, n, f)
  BY <1>8, <1>9, Zenon DEF UpToDef
<1>11. UpToDef(str, base, n, UpTo(str, base, n))
  BY <1>10, Zenon DEF UpTo
<1> DEFINE u == UpTo(str, base, n)
<1> HIDE DEF u
<1>12. \A k \in 0 .. n : u[k] = IF k = 0 THEN 0 ELSE (u[k - 1] * base + DigitValue(str[k])) % Word
  BY <1>11, Zenon DEF UpToDef, u
<1>13. 0 \in 0 .. n /\ \A k \in 1 .. n : k \in 0 .. n /\ k # 0
  BY <1>1
<1>14. u[0] = 0 /\ \A k \in 1 .. n : u[k] = (u[k - 1] * base + DigitValue(str[k])) % Word
  BY <1>12, <1>13, Zenon
<1>15. QED
  BY <1>14 DEF u, n

\* A character more does not change the value of those before it.
LEMMA ReadAppend ==
    ASSUME NEW s \in Seq(Characters), NEW base \in Bases, AllDigits(s, base),
           NEW d \in 0 .. (base - 1)
    PROVE  /\ Append(s, Digit(d)) \in Seq(Characters)
           /\ AllDigits(Append(s, Digit(d)), base)
           /\ ReadNumber(Append(s, Digit(d)), base) = (ReadNumber(s, base) * base + d) % Word
<1> DEFINE c == Digit(d)
           t == Append(s, c)
           n == Len(s)
<1>1. d \in 0 .. 15
  BY DEF Bases
<1>2. c \in Characters /\ DigitValue(c) = d
  BY <1>1, DigitIs
<1> HIDE DEF c
<1>3. /\ t \in Seq(Characters) /\ Len(t) = n + 1 /\ n \in Nat /\ t[Len(t)] = c
      /\ \A k \in 1 .. n : t[k] = s[k]
  BY <1>2, AppendIs
<1> HIDE DEF t, n
<1>4. AllDigits(t, base)
  <2>1. SUFFICES ASSUME NEW i \in 1 .. Len(t) PROVE DigitValue(t[i]) \in 0 .. (base - 1)
    BY DEF AllDigits
  <2>2. CASE i = Len(t)
    BY <1>2, <1>3, <2>2
  <2>3. CASE i # Len(t)
    <3>1. i \in 1 .. n
      BY <1>3, <2>3
    <3>2. QED
      BY <1>3, <3>1 DEF AllDigits, n
  <2>4. QED
    BY <2>2, <2>3
<1> DEFINE u == UpTo(s, base, n)
           v == UpTo(t, base, Len(t))
<1>5. u[0] = 0 /\ \A k \in 1 .. n : u[k] = (u[k - 1] * base + DigitValue(s[k])) % Word
  BY UpToIs DEF n
<1>6. v[0] = 0 /\ \A k \in 1 .. Len(t) : v[k] = (v[k - 1] * base + DigitValue(t[k])) % Word
  BY <1>3, <1>4, UpToIs
<1> HIDE DEF u, v
<1> DEFINE D == {k \in 0 .. n : v[k] = u[k]}
<1>7. 0 \in D
  BY <1>3, <1>5, <1>6
<1>8. ASSUME NEW k \in 1 .. n, k - 1 \in D PROVE k \in D
  <2>1. k \in 1 .. Len(t) /\ k \in 0 .. n /\ v[k - 1] = u[k - 1] /\ t[k] = s[k]
    BY <1>3, <1>8
  <2>2. v[k] = u[k]
    BY <1>5, <1>6, <2>1, Zenon
  <2>3. QED
    BY <2>1, <2>2
<1> HIDE DEF D
<1>9. n \in D
  <2>1. \A k \in 0 .. n : k \in D
    BY <1>3, <1>7, <1>8, Along
  <2>2. n \in 0 .. n
    BY <1>3
  <2>3. QED
    BY <2>1, <2>2
<1>10. v[n] = u[n]
  BY <1>9 DEF D
<1>11. Len(t) \in 1 .. Len(t) /\ Len(t) - 1 = n
  BY <1>3
<1>12. v[Len(t)] = (v[n] * base + DigitValue(c)) % Word
  BY <1>3, <1>6, <1>11
<1>13. ReadNumber(t, base) = v[Len(t)] /\ ReadNumber(s, base) = u[n]
  BY <1>4, AllDigitsRead DEF u, v, n
<1>14. QED
  BY <1>2, <1>3, <1>4, <1>10, <1>12, <1>13 DEF t, c

\* A text without characters is read as 0.
LEMMA ReadNone ==
    ASSUME NEW base \in Bases
    PROVE  <<>> \in Seq(Characters) /\ AllDigits(<<>>, base) /\ ReadNumber(<<>>, base) = 0
<1>1. <<>> \in Seq(Characters) /\ Len(<<>>) = 0
  OBVIOUS
<1>2. AllDigits(<<>>, base)
  BY <1>1 DEF AllDigits
<1>3. UpTo(<<>>, base, Len(<<>>))[0] = 0
  BY <1>1, <1>2, UpToIs
<1>4. QED
  BY <1>1, <1>2, <1>3, AllDigitsRead
-----------------------------------------------------------------------------
(* Decimal numbers                                                          *)

LowStep(f, v) == IF v = 0 THEN <<>> ELSE <<Digit(v % 10)>> \o f[v \div 10]
LowDef(f) == f = [v \in Words |-> IF v = 0 THEN <<>> ELSE <<Digit(v % 10)>> \o f[v \div 10]]
Low == CHOOSE f : LowDef(f)

\* The last decimal digit and the rest of a number.
LEMMA TenIs ==
    ASSUME NEW v \in Nat
    PROVE  v % 10 \in 0 .. 9 /\ v \div 10 \in Nat /\ v = (v \div 10) * 10 + (v % 10) /\ (v # 0 => v \div 10 < v)
<1> DEFINE q == v \div 10
           r == v % 10
<1>1. r \in 0 .. 9
  OBVIOUS
<1>2. q \in Int /\ v = 10 * q + r
  OBVIOUS
<1> HIDE DEF q, r
<1>3. q \in Nat /\ (v # 0 => q < v)
  BY <1>1, <1>2
<1>4. QED
  BY <1>1, <1>2, <1>3 DEF q, r

\* A value below the modulus is its own remainder.
LEMMA SmallRemainder ==
    ASSUME NEW n \in Nat, NEW v \in 0 .. n
    PROVE  v % (n + 1) = v
OBVIOUS

\* The loop of utoa ends: the digits of every number up to n.
LEMMA LowExists ==
    ASSUME NEW n \in Nat
    PROVE  \E f \in [0 .. n -> Seq(Characters)] : \A v \in 0 .. n : f[v] = LowStep(f, v)
<1> DEFINE S == Seq(Characters)
           Good(m) == \E f \in [0 .. m -> S] : \A v \in 0 .. m : f[v] = LowStep(f, v)
           D == {m \in 0 .. n : Good(m)}
<1>1. 0 \in D
  <2> DEFINE f == [v \in 0 .. 0 |-> <<>>]
  <2>1. f \in [0 .. 0 -> S] /\ \A v \in 0 .. 0 : v = 0 /\ f[v] = <<>>
    OBVIOUS
  <2> HIDE DEF f
  <2>2. \A v \in 0 .. 0 : f[v] = LowStep(f, v)
    BY <2>1, Zenon DEF LowStep
  <2>3. Good(0)
    BY <2>1, <2>2
  <2>4. QED
    BY <2>3
<1>2. ASSUME NEW m \in 1 .. n, m - 1 \in D PROVE m \in D
  <2>1. PICK f \in [0 .. (m - 1) -> S] : \A v \in 0 .. (m - 1) : f[v] = LowStep(f, v)
    BY <1>2
  <2>2. m % 10 \in 0 .. 15 /\ m \div 10 \in 0 .. (m - 1) /\ m # 0
    BY TenIs
  <2> DEFINE c == Digit(m % 10)
             q == m \div 10
             e == <<c>> \o f[q]
             h == [v \in 0 .. m |-> IF v = m THEN e ELSE f[v]]
  <2>3. c \in Characters /\ f[q] \in S
    BY <2>2, DigitIs
  <2>4. e \in S
    BY <2>3, ConcatProperties
  <2> HIDE DEF e
  <2>5. h \in [0 .. m -> S] /\ h[m] = e /\ \A v \in 0 .. (m - 1) : h[v] = f[v]
    BY <2>4
  <2> HIDE DEF h
  <2>6. ASSUME NEW v \in 0 .. m PROVE h[v] = LowStep(h, v)
    <3>1. CASE v = m
      <4>1. h[q] = f[q]
        BY <2>2, <2>5
      <4>2. QED
        BY <2>2, <2>5, <3>1, <4>1, Zenon DEF LowStep, e
    <3>2. CASE v # m
      <4>1. v \in 0 .. (m - 1) /\ v \in Nat
        BY <3>2
      <4>2. v # 0 => v \div 10 \in 0 .. (m - 1)
        BY <4>1, TenIs
      <4>3. v # 0 => h[v \div 10] = f[v \div 10]
        BY <2>5, <4>2
      <4>4. h[v] = f[v] /\ f[v] = LowStep(f, v)
        BY <2>1, <2>5, <4>1
      <4>5. QED
        BY <4>3, <4>4, Zenon DEF LowStep
    <3>3. QED
      BY <3>1, <3>2
  <2>7. Good(m)
    BY <2>5, <2>6
  <2> HIDE DEF Good
  <2>8. m \in 0 .. n
    OBVIOUS
  <2>9. QED
    BY <2>7, <2>8
<1> HIDE DEF D
<1>3. \A k \in 0 .. n : k \in D
  BY <1>1, <1>2, Along
<1>4. n \in D
  BY <1>3
<1>5. QED
  BY <1>4 DEF D

\* The digits of utoa, the last one first.
LEMMA LowIs ==
    /\ \A v \in Words : Low[v] = LowStep(Low, v) /\ Low[v] \in Seq(Characters)
    /\ \A v \in Words : LowFirst(v, 10) = Low[v]
<1> DEFINE W == Word - 1
<1>1. W \in Nat /\ Words = 0 .. W
  BY WordIs
<1> HIDE DEF W
<1>2. PICK f \in [0 .. W -> Seq(Characters)] : \A v \in 0 .. W : f[v] = LowStep(f, v)
  BY <1>1, LowExists
<1>3. f = [v \in Words |-> f[v]]
  BY <1>1
<1>4. LowDef(f)
  BY <1>1, <1>2, <1>3, Zenon DEF LowDef, LowStep
<1>5. LowDef(Low)
  BY <1>4, Zenon DEF Low
<1>6. \A v \in Words : Low[v] = LowStep(Low, v)
  BY <1>5, Zenon DEF LowDef, LowStep
<1>7. \A v \in Words : LowFirst(v, 10) = Low[v]
  BY Zenon DEF LowFirst, Low, LowDef
<1> DEFINE D == {v \in 0 .. W : Low[v] \in Seq(Characters)}
<1>8. ASSUME NEW v \in 0 .. W, \A j \in 0 .. (v - 1) : j \in D PROVE v \in D
  <2>1. CASE v = 0
    <3>1. Low[v] = <<>>
      BY <1>1, <1>6, <2>1 DEF LowStep
    <3>2. <<>> \in Seq(Characters)
      OBVIOUS
    <3>3. QED
      BY <3>1, <3>2
  <2>2. CASE v # 0
    <3>1. v \in Nat /\ v % 10 \in 0 .. 15 /\ v \div 10 \in 0 .. (v - 1)
      BY <1>1, <2>2, TenIs
    <3> DEFINE c == Digit(v % 10)
               s == Low[v \div 10]
    <3>2. c \in Characters /\ s \in Seq(Characters)
      BY <1>8, <3>1, DigitIs
    <3>3. Low[v] = <<c>> \o s
      BY <1>1, <1>6, <2>2, Zenon DEF LowStep
    <3> HIDE DEF c, s
    <3>4. <<c>> \o s \in Seq(Characters)
      BY <3>2, ConcatProperties
    <3>5. QED
      BY <3>3, <3>4
  <2>3. QED
    BY <2>1, <2>2
<1> HIDE DEF D
<1>9. \A v \in 0 .. W : v \in D
  BY <1>1, <1>8, AlongAll
<1>10. QED
  BY <1>1, <1>6, <1>7, <1>9 DEF D

\* Reversed, the first is the last.
LEMMA ReverseFirst ==
    ASSUME NEW S, NEW s \in Seq(S), NEW c \in S
    PROVE  Reverse(<<c>> \o s) = Append(Reverse(s), c) /\ Reverse(s) \in Seq(S)
<1> DEFINE t == <<c>> \o s
           n == Len(s)
           r == Reverse(s)
<1>1. n \in Nat /\ \A k \in 1 .. n : s[k] \in S
  BY LenProperties
<1>2. Len(t) = n + 1 /\ t[1] = c /\ \A k \in 2 .. (n + 1) : t[k] = s[k - 1]
  OBVIOUS
<1>3. r = [i \in 1 .. n |-> s[(n - i) + 1]]
  BY DEF Reverse
<1>4. \A i \in 1 .. n : (n - i) + 1 \in 1 .. n
  BY <1>1
<1>5. r \in Seq(S) /\ Len(r) = n /\ \A i \in 1 .. n : r[i] = s[(n - i) + 1]
  BY <1>1, <1>3, <1>4
<1>6. Reverse(t) = [i \in 1 .. (n + 1) |-> t[((n + 1) - i) + 1]]
  BY <1>2 DEF Reverse
<1> HIDE DEF t, n, r
<1>7. Append(r, c) = [i \in 1 .. (n + 1) |-> IF i = n + 1 THEN c ELSE r[i]]
  <2> DEFINE a == Append(r, c)
  <2>1. /\ a \in Seq(S) /\ Len(a) = n + 1 /\ a[n + 1] = c
        /\ \A i \in 1 .. n : a[i] = r[i]
    BY <1>1, <1>5, AppendIs
  <2> HIDE DEF a
  <2>2. a = [i \in 1 .. (n + 1) |-> a[i]]
    BY <2>1, LenProperties
  <2>3. ASSUME NEW i \in 1 .. (n + 1) PROVE a[i] = IF i = n + 1 THEN c ELSE r[i]
    BY <1>1, <2>1
  <2>4. QED
    BY <2>2, <2>3, Zenon DEF a
<1>8. ASSUME NEW i \in 1 .. (n + 1) PROVE t[((n + 1) - i) + 1] = IF i = n + 1 THEN c ELSE r[i]
  <2>1. CASE i = n + 1
    <3>1. ((n + 1) - i) + 1 = 1
      BY <1>1, <2>1
    <3>2. QED
      BY <1>2, <2>1, <3>1
  <2>2. CASE i # n + 1
    <3>1. i \in 1 .. n /\ ((n + 1) - i) + 1 \in 2 .. (n + 1) /\ ((n + 1) - i) + 1 - 1 = (n - i) + 1
      BY <1>1, <2>2
    <3>2. QED
      BY <1>2, <1>5, <2>2, <3>1
  <2>3. QED
    BY <2>1, <2>2
<1>9. Reverse(t) = Append(r, c)
  BY <1>6, <1>7, <1>8, Zenon
<1>10. QED
  BY <1>5, <1>9 DEF t, r

\* The digits of a decimal number, read from the first on, give the number.
LEMMA DecimalReads ==
    ASSUME NEW w \in Words
    PROVE  /\ Reverse(Low[w]) \in Seq(Characters) /\ AllDigits(Reverse(Low[w]), 10)
           /\ ReadNumber(Reverse(Low[w]), 10) = w
<1> DEFINE Good(v) == /\ Reverse(Low[v]) \in Seq(Characters) /\ AllDigits(Reverse(Low[v]), 10)
                      /\ ReadNumber(Reverse(Low[v]), 10) = v
           W == Word - 1
           D == {v \in 0 .. W : Good(v)}
<1>1. W \in Nat /\ Words = 0 .. W /\ Word \in Nat \ {0} /\ Word = W + 1
  BY WordIs
<1> HIDE DEF W
<1>2. ASSUME NEW v \in 0 .. W, \A j \in 0 .. (v - 1) : j \in D PROVE v \in D
  <2>1. CASE v = 0
    <3>1. Low[v] = <<>>
      BY <1>1, <2>1, LowIs DEF LowStep
    <3>2. Reverse(<<>>) = <<>>
      BY DEF Reverse
    <3>3. Good(v)
      BY <2>1, <3>1, <3>2, ReadNone DEF Bases
    <3>4. QED
      BY <3>3
  <2>2. CASE v # 0
    <3>1. v \in Nat /\ v % 10 \in 0 .. 9 /\ v \div 10 \in 0 .. (v - 1)
      BY <1>1, <2>2, TenIs
    <3> DEFINE d == v % 10
               q == v \div 10
               r == Reverse(Low[q])
    <3>2. d \in 0 .. 9 /\ d \in 0 .. 15 /\ q \in 0 .. W /\ v = q * 10 + d
      BY <1>1, <3>1, TenIs
    <3>3. Low[v] = <<Digit(d)>> \o Low[q] /\ Low[q] \in Seq(Characters) /\ Digit(d) \in Characters
      BY <1>1, <2>2, <3>2, LowIs, DigitIs DEF LowStep
    <3>4. q \in D
      BY <1>2, <3>1
    <3>5. r \in Seq(Characters) /\ AllDigits(r, 10) /\ ReadNumber(r, 10) = q
      BY <3>4
    <3> HIDE DEF d, q
    <3>6. Reverse(Low[v]) = Append(r, Digit(d))
      BY <3>3, ReverseFirst
    <3> HIDE DEF r
    <3>7. 10 \in Bases /\ d \in 0 .. (10 - 1)
      BY <3>2 DEF Bases
    <3>8. /\ Append(r, Digit(d)) \in Seq(Characters) /\ AllDigits(Append(r, Digit(d)), 10)
          /\ ReadNumber(Append(r, Digit(d)), 10) = (q * 10 + d) % Word
      BY <3>5, <3>7, ReadAppend
    <3>9. v % Word = v
      BY <1>1, SmallRemainder
    <3>10. Good(v)
      BY <3>2, <3>6, <3>8, <3>9
    <3>11. QED
      BY <3>10
  <2>3. QED
    BY <2>1, <2>2
<1> HIDE DEF D
<1>3. \A v \in 0 .. W : v \in D
  BY <1>1, <1>2, AlongAll
<1>4. QED
  BY <1>1, <1>3 DEF D
-----------------------------------------------------------------------------
(* Hexadecimal numbers                                                      *)

\* Quotient and remainder are unique.
LEMMA QuotientIs ==
    ASSUME NEW n \in Nat \ {0}, NEW x \in Int, NEW q \in Int, NEW r \in 0 .. (n - 1),
           x = n * q + r
    PROVE  x \div n = q
<1> DEFINE p == x \div n
           s == x % n
<1>1. p \in Int /\ s \in 0 .. (n - 1) /\ x = n * p + s
  OBVIOUS
<1> HIDE DEF p, s
<1>2. n * (p - q) = r - s
  BY <1>1
<1>3. r - s < n /\ r - s > -n
  BY <1>1
<1>4. p - q < 1
  <2> SUFFICES ASSUME p - q >= 1 PROVE FALSE
    BY <1>1
  <2>1. n * (p - q) >= n
    BY <1>1
  <2>2. QED
    BY <1>1, <1>2, <1>3, <2>1
<1>5. p - q > -1
  <2> SUFFICES ASSUME p - q <= -1 PROVE FALSE
    BY <1>1
  <2>1. n * (p - q) <= -n
    BY <1>1
  <2>2. QED
    BY <1>1, <1>2, <1>3, <2>1
<1>6. p = q
  BY <1>1, <1>4, <1>5
<1>7. QED
  BY <1>6 DEF p

\* Shifting by one digit less brings in the next digit.
LEMMA ShiftStep ==
    ASSUME NEW p \in Nat \ {0}, NEW v \in Nat
    PROVE  /\ v \div p \in Nat /\ v \div (16 * p) \in Nat /\ (v \div p) % 16 \in 0 .. 15
           /\ v \div p = (v \div (16 * p)) * 16 + ((v \div p) % 16)
<1> DEFINE q == v \div p
           r == v % p
<1>1. q \in Int /\ r \in 0 .. (p - 1) /\ v = p * q + r
  OBVIOUS
<1> HIDE DEF q, r
<1>2. q \in Nat
  <2> SUFFICES ASSUME q <= -1 PROVE FALSE
    BY <1>1
  <2>1. p * q <= -p
    BY <1>1
  <2>2. QED
    BY <1>1, <2>1
<1> DEFINE a == q \div 16
           b == q % 16
<1>3. a \in Int /\ b \in 0 .. 15 /\ q = 16 * a + b
  BY <1>2
<1> HIDE DEF a, b
<1>4. a \in Nat
  BY <1>2, <1>3
<1> DEFINE s == p * b + r
<1>5. p * b \in Int /\ 0 <= p * b /\ p * b <= p * 15
  BY <1>3
<1>6. s \in 0 .. (16 * p - 1)
  BY <1>1, <1>5
<1>7. v = (16 * p) * a + s
  <2>1. p * q = p * (16 * a) + p * b
    BY <1>3
  <2>2. p * (16 * a) = (16 * p) * a
    BY <1>3
  <2>3. QED
    BY <1>1, <1>3, <1>5, <2>1, <2>2
<1> HIDE DEF s
<1>8. v \div (16 * p) = a
  BY <1>3, <1>6, <1>7, QuotientIs
<1>9. v \div (16 * p) \in Nat /\ q = (v \div (16 * p)) * 16 + b
  <2>1. q = a * 16 + b
    BY <1>3
  <2>2. QED
    BY <1>4, <1>8, <2>1, Zenon
<1>10. QED
  BY <1>2, <1>3, <1>9, Zenon DEF q, b

\* Both printing loops put out these digits.
HexDigits(v) == [i \in 1 .. NIBBLES |-> Digit((v \div Power[NIBBLES - i]) % 16)]

\* log_write_hex and vga_print_hex print the same.
LEMMA HexTexts ==
    ASSUME NEW v \in Words
    PROVE  /\ log_write_hex_text(v) = <<"0", "x">> \o HexDigits(v)
           /\ vga_print_hex(v) = <<"0", "x">> \o HexDigits(v)
<1>1. ASSUME NEW i \in 1 .. NIBBLES
      PROVE  /\ ((NIBBLES - i) * 4) \div 4 = NIBBLES - i
             /\ ((NIBBLES - 1) * 4 - (i - 1) * 4) \div 4 = NIBBLES - i
  BY NumbersConstants
<1>2. [i \in 1 .. NIBBLES |-> Digit(ShiftRight(v, (NIBBLES - i) * 4) % 16)] = HexDigits(v)
  BY <1>1, Zenon DEF ShiftRight, HexDigits
<1>3. [i \in 1 .. NIBBLES |-> Digit(ShiftRight(v, (NIBBLES - 1) * 4 - (i - 1) * 4) % 16)] = HexDigits(v)
  BY <1>1, Zenon DEF ShiftRight, HexDigits
<1>4. QED
  BY <1>2, <1>3, Zenon DEF log_write_hex_text, vga_print_hex

\* The digits of a hexadecimal number, read from the first on, give the number.
LEMMA HexReads ==
    ASSUME NEW v \in Words
    PROVE  HexDigits(v) \in Seq(Characters) /\ ReadNumber(HexDigits(v), 16) = v
<1> DEFINE N == NIBBLES
           H == HexDigits(v)
           d(k) == (v \div Power[N - k]) % 16
           s(k) == SubSeq(H, 1, k)
           Good(k) == /\ s(k) \in Seq(Characters) /\ AllDigits(s(k), 16)
                      /\ ReadNumber(s(k), 16) = v \div Power[N - k]
           D == {k \in 0 .. N : Good(k)}
<1>1. N \in Nat \ {0} /\ v \in Nat /\ v < Power[N] /\ Power[N] = Word
  BY NumbersConstants, WordIs DEF Word
<1>2. ASSUME NEW k \in 1 .. N
      PROVE  /\ v \div Power[N - k] \in Nat /\ d(k) \in 0 .. 15
             /\ v \div Power[N - k] = (v \div Power[N - (k - 1)]) * 16 + d(k)
  <2>1. N - k \in 0 .. N /\ N - (k - 1) \in 1 .. N /\ N - (k - 1) - 1 = N - k
    BY <1>1
  <2>2. Power[N - (k - 1)] = 16 * Power[N - k] /\ Power[N - k] \in Nat \ {0}
    BY <2>1, PowerIs
  <2> DEFINE p == Power[N - k]
  <2> HIDE DEF p
  <2>3. /\ v \div p \in Nat /\ (v \div p) % 16 \in 0 .. 15
        /\ v \div p = (v \div (16 * p)) * 16 + ((v \div p) % 16)
    BY <1>1, <2>2, ShiftStep DEF p
  <2>4. QED
    BY <2>2, <2>3 DEF p
<1>3. H = [k \in 1 .. N |-> Digit(d(k))]
  BY Zenon DEF HexDigits
<1>4. \A k \in 1 .. N : Digit(d(k)) \in Characters
  BY <1>2, DigitIs
<1> HIDE DEF d
<1>5. H \in Seq(Characters) /\ Len(H) = N /\ \A k \in 1 .. N : H[k] = Digit(d(k))
  BY <1>1, <1>3, <1>4
<1> HIDE DEF H
<1>6. 0 \in D
  <2>1. s(0) = <<>>
    BY <1>1, <1>5
  <2>2. v \div Power[N - 0] = 0
    <3>1. N - 0 = N /\ Power[N] \in Nat \ {0} /\ v \in 0 .. (Power[N] - 1) /\ v = Power[N] * 0 + v
      BY <1>1, WordIs
    <3> DEFINE P == Power[N]
    <3> HIDE DEF P
    <3>2. v \div P = 0
      BY <1>1, <3>1, QuotientIs DEF P
    <3>3. QED
      BY <3>1, <3>2 DEF P
  <2>3. Good(0)
    BY <2>1, <2>2, ReadNone DEF Bases
  <2>4. QED
    BY <1>1, <2>3
<1>7. ASSUME NEW k \in 1 .. N, k - 1 \in D PROVE k \in D
  <2>1. s(k) = Append(s(k - 1), Digit(d(k)))
    BY <1>1, <1>5
  <2> HIDE DEF s
  <2> DEFINE t == s(k - 1)
             e == d(k)
             y == v \div Power[N - k]
             z == v \div Power[N - (k - 1)]
  <2>2. t \in Seq(Characters) /\ AllDigits(t, 16) /\ ReadNumber(t, 16) = z
    BY <1>7
  <2>3. 16 \in Bases /\ e \in 0 .. (16 - 1) /\ y = z * 16 + e /\ y \in Nat
    BY <1>2 DEF Bases
  <2> HIDE DEF t, e, z
  <2>4. /\ Append(t, Digit(e)) \in Seq(Characters) /\ AllDigits(Append(t, Digit(e)), 16)
        /\ ReadNumber(Append(t, Digit(e)), 16) = (z * 16 + e) % Word
    BY <2>2, <2>3, ReadAppend
  <2>5. y <= v
    <3>1. Power[N - k] \in Nat \ {0}
      <4>1. N - k \in 0 .. N
        BY <1>1
      <4>2. QED
        BY <4>1, PowerIs
    <3> DEFINE p == Power[N - k]
    <3> HIDE DEF p
    <3>2. v \div p <= v
      <4> DEFINE a == v \div p
                 b == v % p
      <4>1. a \in Int /\ b \in Nat /\ v = p * a + b
        BY <1>1, <3>1 DEF p
      <4>2. a \in Nat
        BY <2>3 DEF p
      <4> HIDE DEF a, b
      <4>3. a <= p * a
        BY <3>1, <4>2 DEF p
      <4>4. QED
        BY <1>1, <3>1, <4>1, <4>2, <4>3 DEF a, p
    <3>3. QED
      BY <3>2 DEF p
  <2> HIDE DEF y
  <2>6. y % Word = y
    <3>1. Word - 1 \in Nat /\ y \in 0 .. (Word - 1) /\ (Word - 1) + 1 = Word
      BY <1>1, <2>3, <2>5, WordIs
    <3>2. QED
      BY <3>1, SmallRemainder
  <2>7. Good(k)
    BY <2>1, <2>3, <2>4, <2>6 DEF t, e, y
  <2>8. k \in 0 .. N
    BY <1>1
  <2> HIDE DEF Good
  <2>9. QED
    BY <2>7, <2>8
<1> HIDE DEF D
<1>8. N \in D
  <2>1. \A k \in 0 .. N : k \in D
    BY <1>1, <1>6, <1>7, Along
  <2>2. QED
    BY <1>1, <2>1
<1>9. s(N) = H
  BY <1>5
<1>10. v \div Power[N - N] = v
  <2>1. N - N = 0
    BY <1>1
  <2>2. v \div Power[0] = v
    BY <1>1, PowerIs
  <2>3. QED
    BY <2>1, <2>2
<1>11. Good(N)
  BY <1>8 DEF D
<1> HIDE DEF s
<1>12. QED
  BY <1>5, <1>9, <1>10, <1>11 DEF H
-----------------------------------------------------------------------------
(* What is printed and logged                                               *)

\* A sequence over a set is one over a larger set.
LEMMA WiderSeq ==
    ASSUME NEW S, NEW T, S \subseteq T, NEW s \in Seq(S)
    PROVE  s \in Seq(T)
<1>1. Len(s) \in Nat /\ s \in [1 .. Len(s) -> S]
  BY LenProperties
<1>2. s \in [1 .. Len(s) -> T]
  BY <1>1
<1>3. QED
  BY <1>1, <1>2

\* The fixed texts of the log.
LEMMA FixedTexts ==
    /\ <<"0", "x">> \in Seq(Characters) /\ <<"0">> \in Seq(Characters) /\ <<" ">> \in Seq(Characters)
    /\ <<"syscall: unknown ">> \in Seq(Characters) /\ <<"\n">> \in Seq(Characters)
    /\ <<"panic: ">> \in Seq(Characters) /\ <<"Manual panic triggered">> \in Seq(Characters)
<1>1. "0" \in Characters
  <2>1. Digit(0) = "0"
    BY DEF Digit, hex_chars
  <2>2. QED
    BY <2>1, DigitIs
<1>2. /\ "x" \in Characters /\ " " \in Characters /\ "syscall: unknown " \in Characters
      /\ "\n" \in Characters /\ "panic: " \in Characters /\ "Manual panic triggered" \in Characters
  BY Zenon DEF Characters
<1> DEFINE C == Characters
<1> HIDE DEF C
<1>3. \A a, b \in C : <<a>> \in Seq(C) /\ <<a, b>> \in Seq(C)
  OBVIOUS
<1>4. QED
  BY <1>1, <1>2, <1>3, Zenon DEF C

\* Two texts make a text.
LEMMA Joined ==
    ASSUME NEW s \in Seq(Characters), NEW t \in Seq(Characters)
    PROVE  s \o t \in Seq(Characters)
BY ConcatProperties

\* utoa and vga_print_dec put out what atoi reads.
LEMMA DecimalText ==
    ASSUME NEW v \in Words
    PROVE  /\ utoa(v, 10) \in Seq(Characters) /\ atoi(utoa(v, 10)) = v
           /\ vga_print_dec(v) = utoa(v, 10)
<1>1. LowFirst(v, 10) = Low[v]
  BY LowIs
<1>2. vga_print_dec(v) = utoa(v, 10)
  BY Zenon DEF vga_print_dec, utoa, Reverse
<1>3. CASE v = 0
  <2>1. utoa(v, 10) = <<"0">>
    BY <1>3 DEF utoa
  <2>2. <<"0">> = Append(<<>>, Digit(0))
    BY DEF Digit, hex_chars
  <2>3. 10 \in Bases /\ 0 \in 0 .. (10 - 1)
    BY DEF Bases
  <2>4. ReadNumber(<<"0">>, 10) = (0 * 10 + 0) % Word
    <3> DEFINE e == <<>>
    <3>1. e \in Seq(Characters) /\ AllDigits(e, 10) /\ ReadNumber(e, 10) = 0
      BY <2>3, ReadNone
    <3> HIDE DEF e
    <3>2. ReadNumber(Append(e, Digit(0)), 10) = (ReadNumber(e, 10) * 10 + 0) % Word
      BY <2>3, <3>1, ReadAppend
    <3>3. QED
      BY <2>2, <3>1, <3>2, Zenon DEF e
  <2>5. (0 * 10 + 0) % Word = 0
    <3>1. Word - 1 \in Nat /\ 0 \in 0 .. (Word - 1) /\ (Word - 1) + 1 = Word
      BY WordIs
    <3>2. 0 % Word = 0
      BY <3>1, SmallRemainder
    <3>3. QED
      BY <3>2
  <2>6. QED
    BY <1>2, <1>3, <2>1, <2>4, <2>5, FixedTexts DEF atoi
<1>4. CASE v # 0
  <2>1. utoa(v, 10) = Reverse(Low[v])
    BY <1>1, <1>4 DEF utoa
  <2>2. QED
    BY <1>2, <2>1, DecimalReads DEF atoi
<1>5. QED
  BY <1>3, <1>4

\* log_write_hex and vga_print_hex put out what atoi_hex reads.
LEMMA HexText ==
    ASSUME NEW v \in Words
    PROVE  /\ log_write_hex_text(v) \in Seq(Characters) /\ atoi_hex(log_write_hex_text(v)) = v
           /\ vga_print_hex(v) = log_write_hex_text(v)
<1> DEFINE H == HexDigits(v)
           p == <<"0", "x">>
           t == p \o H
<1>1. log_write_hex_text(v) = t /\ vga_print_hex(v) = t
  BY HexTexts
<1>2. H \in Seq(Characters) /\ ReadNumber(H, 16) = v
  BY HexReads
<1> HIDE DEF H
<1>3. p \in Seq(Characters) /\ Len(p) = 2 /\ p[1] = "0" /\ p[2] = "x"
  BY FixedTexts
<1> HIDE DEF p
<1>4. Len(H) \in Nat /\ t \in Seq(Characters) /\ Len(t) = 2 + Len(H)
  <2>1. Len(H) \in Nat
    BY <1>2, LenProperties
  <2>2. t \in Seq(Characters) /\ Len(t) = Len(p) + Len(H)
    BY <1>2, <1>3, ConcatProperties, Zenon
  <2> HIDE DEF t
  <2>3. QED
    BY <1>3, <2>1, <2>2
<1>5. t[1] = "0" /\ t[2] = "x"
  BY <1>2, <1>3, <1>4, ConcatProperties
<1>6. SubSeq(t, 3, Len(t)) = H
  BY <1>2, <1>3, <1>4
<1> HIDE DEF t
<1>7. Len(t) >= 2
  BY <1>4
<1>8. atoi_hex(t) = ReadNumber(H, 16)
  BY <1>5, <1>6, <1>7, Zenon DEF atoi_hex
<1>9. QED
  BY <1>1, <1>2, <1>4, <1>8

JoinDef(argv, f) ==
    f = [k \in 0 .. Len(argv) |->
            IF k = 0 THEN <<>>
            ELSE strcat(IF k > 1 THEN strcat(f[k - 1], <<" ">>) ELSE f[k - 1], argv[k])]
Join(argv) == CHOOSE f : JoinDef(argv, f)

\* One word more of panic's text.
LEMMA JoinStep ==
    ASSUME NEW b \in Seq(Characters), NEW w \in Seq(Characters), NEW k
    PROVE  strcat(IF k > 1 THEN strcat(b, <<" ">>) ELSE b, w) \in Seq(Characters)
<1>1. b \o <<" ">> \in Seq(Characters)
  BY FixedTexts, Joined
<1> DEFINE c == IF k > 1 THEN b \o <<" ">> ELSE b
<1>2. c \in Seq(Characters)
  BY <1>1
<1> HIDE DEF c
<1>3. c \o w \in Seq(Characters)
  BY <1>2, Joined
<1>4. QED
  BY <1>3, Zenon DEF strcat, c

\* panic's text is a text.
LEMMA PanicText ==
    ASSUME NEW argv \in Seq(Seq(Chars))
    PROVE  cmd_panic(argv) \in Seq(Characters)
<1> DEFINE S == Seq(Characters)
           n == Len(argv)
           a == [k \in 1 .. n |-> argv[k]]
           g == [p \in S \X (1 .. n) |-> strcat(IF p[2] > 1 THEN strcat(p[1], <<" ">>) ELSE p[1], a[p[2]])]
<1>1. n \in Nat /\ \A k \in 1 .. n : argv[k] \in Seq(Chars)
  BY LenProperties
<1>2. Chars \subseteq Characters
  BY Zenon DEF Characters
<1>3. \A k \in 1 .. n : a[k] = argv[k] /\ a[k] \in S
  BY <1>1, <1>2, WiderSeq
<1>4. <<>> \in S
  OBVIOUS
<1> HIDE DEF a, n
<1>5. ASSUME NEW b \in S, NEW k \in 1 .. n
      PROVE  strcat(IF k > 1 THEN strcat(b, <<" ">>) ELSE b, a[k]) \in S
  BY <1>3, JoinStep
<1>6. g \in [S \X (1 .. n) -> S]
  <2>1. ASSUME NEW p \in S \X (1 .. n)
        PROVE  strcat(IF p[2] > 1 THEN strcat(p[1], <<" ">>) ELSE p[1], a[p[2]]) \in S
    <3>1. p[1] \in S /\ p[2] \in 1 .. n
      OBVIOUS
    <3>2. QED
      BY <1>5, <3>1, Zenon
  <2> HIDE DEF S
  <2>2. QED
    BY <2>1, Zenon
<1>7. ASSUME NEW b \in S, NEW k \in 1 .. n
      PROVE  g[<<b, k>>] = strcat(IF k > 1 THEN strcat(b, <<" ">>) ELSE b, a[k])
  <2> DEFINE p == <<b, k>>
  <2>1. p \in S \X (1 .. n) /\ p[1] = b /\ p[2] = k
    OBVIOUS
  <2> HIDE DEF p, S
  <2>2. g[p] = strcat(IF p[2] > 1 THEN strcat(p[1], <<" ">>) ELSE p[1], a[p[2]])
    BY <2>1, Zenon
  <2>3. QED
    BY <2>1, <2>2, Zenon DEF p
<1> HIDE DEF g, S
<1>8. PICK f \in [0 .. n -> S] : Runs(f, n, <<>>, g)
  BY <1>1, <1>4, <1>6, RunExists
<1>9. ASSUME NEW k \in 0 .. n
      PROVE  f[k] = IF k = 0 THEN <<>>
                    ELSE strcat(IF k > 1 THEN strcat(f[k - 1], <<" ">>) ELSE f[k - 1], argv[k])
  <2>1. k # 0 => k \in 1 .. n /\ k - 1 \in 0 .. n
    BY <1>1
  <2>2. k # 0 => f[k - 1] \in S /\ f[k] = g[<<f[k - 1], k>>]
    BY <1>8, <2>1 DEF Runs
  <2>3. k = 0 => f[k] = <<>>
    BY <1>8 DEF Runs
  <2>4. QED
    BY <1>3, <1>7, <2>1, <2>2, <2>3, Zenon
<1>10. f = [k \in 0 .. n |-> f[k]]
  OBVIOUS
<1>11. JoinDef(argv, f)
  BY <1>9, <1>10, Zenon DEF JoinDef, n
<1>12. JoinDef(argv, Join(argv))
  BY <1>11, Zenon DEF Join
<1> DEFINE j == Join(argv)
<1> HIDE DEF j
<1>13. \A k \in 0 .. n : j[k] = IF k = 0 THEN <<>>
                    ELSE strcat(IF k > 1 THEN strcat(j[k - 1], <<" ">>) ELSE j[k - 1], argv[k])
  BY <1>12, Zenon DEF JoinDef, j, n
<1> DEFINE D == {k \in 0 .. n : j[k] \in S}
<1>14. 0 \in D
  <2>1. 0 \in 0 .. n
    BY <1>1
  <2>2. j[0] = <<>>
    BY <1>13, <2>1, Zenon
  <2>3. QED
    BY <1>4, <2>1, <2>2
<1>15. ASSUME NEW k \in 1 .. n, k - 1 \in D PROVE k \in D
  <2>1. k \in 0 .. n /\ k # 0 /\ j[k - 1] \in S
    BY <1>15
  <2>2. j[k] = strcat(IF k > 1 THEN strcat(j[k - 1], <<" ">>) ELSE j[k - 1], a[k])
    BY <1>3, <1>13, <2>1, Zenon
  <2>3. j[k] \in S
    BY <1>5, <2>1, <2>2, Zenon
  <2>4. QED
    BY <2>1, <2>3
<1> HIDE DEF D
<1>16. n \in D
  <2>1. \A k \in 0 .. n : k \in D
    BY <1>1, <1>14, <1>15, Along
  <2>2. n \in 0 .. n
    BY <1>1
  <2>3. QED
    BY <2>1, <2>2
<1>17. j[n] \in S
  BY <1>16 DEF D
<1>18. cmd_panic(argv) = IF argv = <<>> THEN <<"Manual panic triggered">> ELSE j[n]
  BY Zenon DEF cmd_panic, Join, JoinDef, j, n
<1>19. QED
  BY <1>17, <1>18, FixedTexts DEF S
-----------------------------------------------------------------------------
(* The invariant                                                            *)

LInv == RingOK(Now, written)

\* The ring of log_init is empty.
LEMMA InitRing ==
    ASSUME Init
    PROVE  LInv
<1>1. NUL \in Characters
  BY Zenon DEF Characters
<1>2. LOG_BUFFER_SIZE \in Nat \ {0}
  BY LogConstants
<1>3. Now = [buffer |-> [i \in Slots |-> NUL], head |-> 0, used |-> 0]
  BY DEF Init, Now
<1> DEFINE b == [i \in Slots |-> NUL]
<1>4. b \in [Slots -> Characters] /\ 0 \in Slots /\ 0 \in 0 .. LOG_BUFFER_SIZE
  BY <1>1, <1>2 DEF Slots
<1> HIDE DEF b
<1>5. Now \in Ring /\ Now.used = 0 /\ Now.head = 0
  BY <1>3, <1>4 DEF Ring, b
<1>6. written \in Seq(Characters) /\ Len(written) = 0
  BY DEF Init
<1>7. \A j \in 0 .. (0 - 1) : FALSE
  OBVIOUS
<1>8. Now.used = (IF Len(written) < LOG_BUFFER_SIZE THEN Len(written) ELSE LOG_BUFFER_SIZE)
  BY <1>2, <1>5, <1>6
<1>9. \A j \in 0 .. (Now.used - 1) : Now.buffer[Back(Now.head, j)] = written[Len(written) - j]
  BY <1>5, <1>7, Zenon
<1>10. QED
  BY <1>5, <1>6, <1>8, <1>9, Zenon DEF LInv, RingOK

\* A step that logs nothing keeps the ring.
LEMMA SameRing ==
    ASSUME LInv, UNCHANGED <<ring, written>>
    PROVE  LInv'
<1>1. log_buffer' = log_buffer /\ log_head' = log_head /\ log_used' = log_used /\ written' = written
  BY DEF ring
<1>2. Now' = Now
  BY <1>1 DEF Now
<1>3. QED
  BY <1>1, <1>2, Zenon DEF LInv

\* Every message is a text, whoever logs it.
LEMMA MessageTexts ==
    /\ \A m \in Messages : m \in Seq(Characters)
    /\ \A v \in Values : /\ log_write_hex_text(v) \in Seq(Characters) /\ utoa(v, 10) \in Seq(Characters)
                         /\ <<"syscall: unknown ">> \o log_write_hex_text(v) \o <<"\n">> \in Seq(Characters)
    /\ \A argv \in Commands : <<"panic: ">> \o cmd_panic(argv) \o <<"\n">> \in Seq(Characters)
<1>1. ASSUME NEW m \in Messages PROVE m \in Seq(Characters)
  <2>1. m \in Seq(Chars) /\ Chars \subseteq Characters
    BY LogConstants, Zenon DEF Characters
  <2>2. QED
    BY <2>1, WiderSeq
<1>2. ASSUME NEW v \in Values
      PROVE  /\ log_write_hex_text(v) \in Seq(Characters) /\ utoa(v, 10) \in Seq(Characters)
             /\ <<"syscall: unknown ">> \o log_write_hex_text(v) \o <<"\n">> \in Seq(Characters)
  <2>1. v \in Words
    BY LogConstants
  <2>2. log_write_hex_text(v) \in Seq(Characters) /\ utoa(v, 10) \in Seq(Characters)
    BY <2>1, HexText, DecimalText
  <2>3. <<"syscall: unknown ">> \o log_write_hex_text(v) \in Seq(Characters)
    BY <2>2, FixedTexts, Joined, Zenon
  <2>4. <<"syscall: unknown ">> \o log_write_hex_text(v) \o <<"\n">> \in Seq(Characters)
    BY <2>3, FixedTexts, Joined, Zenon
  <2>5. QED
    BY <2>2, <2>4
<1>3. ASSUME NEW argv \in Commands
      PROVE  <<"panic: ">> \o cmd_panic(argv) \o <<"\n">> \in Seq(Characters)
  <2>1. argv \in Seq(Seq(Chars))
    BY LogConstants
  <2>2. cmd_panic(argv) \in Seq(Characters)
    BY <2>1, PanicText
  <2>3. <<"panic: ">> \o cmd_panic(argv) \in Seq(Characters)
    BY <2>2, FixedTexts, Joined, Zenon
  <2>4. QED
    BY <2>3, FixedTexts, Joined, Zenon
<1>4. QED
  BY <1>1, <1>2, <1>3, Zenon

\* Every step keeps the ring.
LEMMA NextRing ==
    ASSUME LInv, [Next]_vars
    PROVE  LInv'
<1>1. ASSUME NEW m \in Seq(Characters), log_write(m) PROVE LInv'
  BY <1>1, WriteRing DEF LInv
<1>2. CASE UNCHANGED vars
  BY <1>2, SameRing DEF vars
<1>3. CASE Running
  <2>1. ASSUME NEW m \in Messages, LogMessage(m) PROVE LInv'
    BY <1>1, <2>1, MessageTexts DEF LogMessage
  <2>2. ASSUME NEW v \in Values, log_write_hex(v) PROVE LInv'
    BY <1>1, <2>2, MessageTexts DEF log_write_hex
  <2>3. ASSUME NEW v \in Values, log_write_dec(v) PROVE LInv'
    BY <1>1, <2>3, MessageTexts DEF log_write_dec
  <2>4. ASSUME NEW v \in Values, syscall_handler(v) PROVE LInv'
    BY <1>1, <2>4, MessageTexts DEF syscall_handler
  <2>5. ASSUME NEW v, PrintHex(v) \/ PrintDec(v) PROVE LInv'
    BY <2>5, SameRing, Zenon DEF PrintHex, PrintDec
  <2>6. ASSUME NEW a, NEW op, NEW b, cmd_calc(a, op, b) PROVE LInv'
    BY <2>6, SameRing, Zenon DEF cmd_calc
  <2>7. QED
    BY <1>3, <2>1, <2>2, <2>3, <2>4, <2>5, <2>6, Zenon DEF Running
<1>4. ASSUME NEW argv \in Commands, debug_panic(cmd_panic(argv)) PROVE LInv'
  BY <1>1, <1>4, MessageTexts DEF debug_panic
<1>5. QED
  BY <1>2, <1>3, <1>4, Zenon DEF Next, Halted

\* dmesg shows the end of the log: the ring of log_write, dumped from
\* log_start_index on, is the tail of all characters ever logged, in their
\* order, whatever the size of the ring, also while it fills up and when one
\* message is longer than it.
THEOREM LogDumpIsTail == Spec => []DumpIsTail
<1>1. Init => LInv
  BY InitRing
<1>2. LInv /\ [Next]_vars => LInv'
  BY NextRing
<1>3. LInv => DumpIsTail
  BY DumpFromRing DEF LInv
<1>4. QED
  BY <1>1, <1>2, <1>3, PTL DEF Spec

-----------------------------------------------------------------------------
(* Numbers that are shown                                                   *)

\* The number shown next reads back.
LEMMA ShownReads ==
    ASSUME NEW v \in Words
    PROVE  /\ Shown(v, "hex", log_write_hex_text(v)) => ReadsBack'
           /\ Shown(v, "hex", vga_print_hex(v)) => ReadsBack'
           /\ Shown(v, "dec", utoa(v, 10)) => ReadsBack'
           /\ Shown(v, "dec", vga_print_dec(v)) => ReadsBack'
<1>1. ASSUME NEW kind, NEW t, Shown(v, kind, t)
      PROVE  shown'.value = v /\ shown'.kind = kind /\ shown'.text = t
  BY <1>1 DEF Shown
<1>2. "hex" # "dec"
  OBVIOUS
<1>3. ASSUME NEW t, Shown(v, "hex", t), atoi_hex(t) = v PROVE ReadsBack'
  BY <1>1, <1>3, Zenon DEF ReadsBack
<1>4. ASSUME NEW t, Shown(v, "dec", t), atoi(t) = v PROVE ReadsBack'
  BY <1>1, <1>2, <1>4, Zenon DEF ReadsBack
<1>5. QED
  BY <1>3, <1>4, HexText, DecimalText, Zenon

\* A step that shows no number.
LEMMA NothingReads ==
    /\ shown = NothingShown => ReadsBack
    /\ shown' = NothingShown => ReadsBack'
<1>1. 0 \in Words
  BY WordIs
<1>2. utoa(0, 10) = <<"0">>
  BY DEF utoa
<1>3. atoi(<<"0">>) = 0
  BY <1>1, <1>2, DecimalText
<1>4. NothingShown.value = 0 /\ NothingShown.kind # "hex" /\ NothingShown.text = <<"0">>
  BY DEF NothingShown
<1>5. QED
  BY <1>3, <1>4, Zenon DEF ReadsBack

\* The result of calc, which wraps, reads back.
LEMMA CalcReads ==
    ASSUME NEW v \in Words, NEW w \in Words, NEW op, cmd_calc(utoa(v, 10), op, utoa(w, 10))
    PROVE  ReadsBack'
<1> DEFINE x == atoi(utoa(v, 10))
           y == atoi(utoa(w, 10))
           e == CASE op = "+" -> x + y [] op = "-" -> x - y [] op = "*" -> x * y
                  [] OTHER -> 0
           r == e % Word
<1>1. x \in Int /\ y \in Int
  <2>1. x = v /\ y = w
    BY DecimalText
  <2>2. v \in Int /\ w \in Int
    BY WordIs
  <2>3. QED
    BY <2>1, <2>2, Zenon
<1>2. IF op = "/" THEN shown' = NothingShown ELSE Shown(r, "dec", utoa(r, 10))
  BY Zenon DEF cmd_calc
<1> HIDE DEF x, y
<1>3. e \in Int
  <2>1. x + y \in Int /\ x - y \in Int /\ x * y \in Int /\ 0 \in Int
    BY <1>1
  <2>2. CASE op = "+"
    BY <2>1, <2>2
  <2>3. CASE op = "-"
    BY <2>1, <2>3
  <2>4. CASE op = "*"
    BY <2>1, <2>4
  <2>5. CASE op \notin {"+", "-", "*"}
    BY <2>1, <2>5
  <2>6. QED
    BY <2>2, <2>3, <2>4, <2>5
<1> HIDE DEF e
<1>4. r \in Words
  BY <1>3, WordIs
<1> HIDE DEF r
<1>5. QED
  BY <1>2, <1>4, ShownReads, NothingReads, Zenon

\* Every step shows what reads back.
LEMMA NextReads ==
    ASSUME ReadsBack, [Next]_vars
    PROVE  ReadsBack'
<1>1. CASE UNCHANGED vars
  BY <1>1 DEF vars, ReadsBack
<1>2. CASE Running
  <2>1. ASSUME NEW m \in Messages, LogMessage(m) PROVE ReadsBack'
    BY <2>1, NothingReads DEF LogMessage
  <2>2. ASSUME NEW v \in Values, log_write_hex(v) \/ log_write_dec(v) \/ PrintHex(v) \/ PrintDec(v)
        PROVE  ReadsBack'
    <3>1. v \in Words
      BY LogConstants
    <3>2. QED
      BY <2>2, <3>1, ShownReads, Zenon DEF log_write_hex, log_write_dec, PrintHex, PrintDec
  <2>3. ASSUME NEW v \in Values, syscall_handler(v) PROVE ReadsBack'
    <3>1. v \in Words
      BY LogConstants
    <3>2. QED
      BY <2>3, <3>1, ShownReads, Zenon DEF syscall_handler
  <2>4. ASSUME NEW v \in Operands, NEW w \in Operands, NEW op \in Operators,
               cmd_calc(utoa(v, 10), op, utoa(w, 10))
        PROVE  ReadsBack'
    <3>1. v \in Words /\ w \in Words
      BY LogConstants
    <3>2. QED
      BY <2>4, <3>1, CalcReads
  <2>5. QED
    BY <1>2, <2>1, <2>2, <2>3, <2>4, Zenon DEF Running
<1>3. ASSUME NEW m, debug_panic(m) PROVE ReadsBack'
  BY <1>3, NothingReads DEF debug_panic
<1>4. QED
  BY <1>1, <1>2, <1>3, Zenon DEF Next, Halted

\* Numbers read back, for every width of a word: what log_write_hex and
\* vga_print_hex print is read by atoi_hex, and what utoa and vga_print_dec
\* print is read by atoi, as the number it was; so are the results of calc,
\* which wrap.
THEOREM LogReadsBack == Spec => []ReadsBack
<1>1. Init => ReadsBack
  BY NothingReads DEF Init
<1>2. ReadsBack /\ [Next]_vars => ReadsBack'
  BY NextReads
<1>3. QED
  BY <1>1, <1>2, PTL DEF Spec
=============================================================================
