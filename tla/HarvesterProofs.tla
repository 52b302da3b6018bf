-------------------------- MODULE HarvesterProofs --------------------------
(***************************************************************************)
(* Harvester with one codec, for files, buffers and limits of any size: no *)
(* offset to resume from passes over a byte, no byte is sent twice, and an *)
(* event holds what the file has between its offsets.                      *)
(***************************************************************************)
EXTENDS Harvester, SequenceTheorems, NaturalsInduction, WellFoundedInduction, TLAPS

-----------------------------------------------------------------------------
(* Counting up, and functions defined by recursion. *)

\* What holds at 0 and passes from each number to the next holds up to n.
LEMMA UpTo ==
    ASSUME NEW n \in Nat, NEW T, 0 \in T, \A i \in 1 .. n : i - 1 \in T => i \in T
    PROVE  \A i \in 0 .. n : i \in T
  <1> DEFINE bad == {i \in 0 .. n : i \notin T}
  <1> SUFFICES ASSUME bad # {} PROVE FALSE
    OBVIOUS
  <1>1. bad \subseteq Nat
    OBVIOUS
  <1> HIDE DEF bad
  <1>2. PICK i \in bad : \A j \in bad : ~(<<j, i>> \in OpToRel(<, Nat))
    BY <1>1, NatLessThanWellFounded, WFMin
  <1>3. i \in 0 .. n /\ i \notin T /\ i \in Nat
    BY DEF bad
  <1>4. i # 0
    BY <1>3
  <1>5. i \in 1 .. n /\ i - 1 \in 0 .. n /\ i - 1 \in Nat /\ i - 1 < i
    BY <1>3, <1>4
  <1>6. i - 1 \notin T
    BY <1>3, <1>5
  <1>7. i - 1 \in bad
    BY <1>5, <1>6 DEF bad
  <1>8. <<i - 1, i>> \in OpToRel(<, Nat)
    BY <1>3, <1>5 DEF OpToRel
  <1> QED  BY <1>2, <1>7, <1>8

\* The values of a recursion up to m: step takes a number and the value before.
Counts(g, m, start, step) ==
    DOMAIN g = 0 .. m /\ g[0] = start /\ \A i \in 1 .. m : g[i] = step[i][g[i - 1]]

HasCount(m, S, start, step) == \E g \in [0 .. m -> S] : Counts(g, m, start, step)

LEMMA CountExists ==
    ASSUME NEW n \in Nat, NEW S, NEW start \in S, NEW step \in [1 .. n -> [S -> S]]
    PROVE  HasCount(n, S, start, step)
  <1> DEFINE T == {i \in 0 .. n : HasCount(i, S, start, step)}
  <1>1. 0 \in T
    <2> DEFINE g == [i \in 0 .. 0 |-> start]
    <2>1. g \in [0 .. 0 -> S] /\ DOMAIN g = 0 .. 0 /\ g[0] = start /\ 0 \in 0 .. n
      OBVIOUS
    <2>2. \A i \in 1 .. 0 : FALSE
      OBVIOUS
    <2> HIDE DEF g
    <2> QED  BY <2>1, <2>2 DEF HasCount, Counts
  <1>2. ASSUME NEW i \in 1 .. n, i - 1 \in T PROVE i \in T
    <2>1. PICK g \in [0 .. i - 1 -> S] : Counts(g, i - 1, start, step)
      BY <1>2 DEF HasCount
    <2> DEFINE h == [j \in 0 .. i |-> IF j = i THEN step[i][g[i - 1]] ELSE g[j]]
    <2>2. i \in Nat /\ i - 1 \in 0 .. i - 1 /\ i \in 0 .. i /\ i - 1 \in 0 .. i
      OBVIOUS
    <2>3. g[i - 1] \in S /\ step[i] \in [S -> S]
      BY <2>2
    <2>4. step[i][g[i - 1]] \in S
      BY <2>3
    <2>5. \A j \in 0 .. i : j # i => j \in 0 .. i - 1
      BY <2>2
    <2>6. h \in [0 .. i -> S]
      BY <2>4, <2>5
    <2>7. h[0] = start /\ DOMAIN h = 0 .. i
      BY <2>1, <2>2 DEF Counts
    <2>8. ASSUME NEW j \in 1 .. i PROVE h[j] = step[j][h[j - 1]]
      <3>1. j - 1 # i /\ j - 1 \in 0 .. i /\ h[j - 1] = g[j - 1] /\ j \in 0 .. i
        BY <2>2
      <3>2. CASE j = i
        BY <2>2, <3>1, <3>2
      <3>3. CASE j # i
        <4>1. j \in 1 .. i - 1
          BY <3>3
        <4>2. g[j] = step[j][g[j - 1]]
          BY <2>1, <4>1 DEF Counts
        <4> QED  BY <3>1, <3>3, <4>2
      <3> QED  BY <3>2, <3>3
    <2> HIDE DEF h
    <2>9. HasCount(i, S, start, step)
      BY <2>6, <2>7, <2>8 DEF HasCount, Counts
    <2> QED  BY <2>9
  <1> HIDE DEF T
  <1>3. \A i \in 0 .. n : i \in T
    BY <1>1, <1>2, UpTo
  <1>4. n \in T
    BY <1>3
  <1> QED  BY <1>4 DEF T

-----------------------------------------------------------------------------
(* The content of bytes. *)

Endings == {Newline, Return}
Texts == Seq(Bytes)

LEMMA AppendAfter ==
    ASSUME NEW a \in Texts, NEW b \in Texts, NEW x \in Bytes
    PROVE  Append(a \o b, x) = a \o Append(b, x)
  <1>1. <<x>> \in Seq(Bytes) /\ a \o b \in Seq(Bytes) /\ a \in Seq(Bytes) /\ b \in Seq(Bytes)
    BY ConcatProperties DEF Texts
  <1>2. Append(a \o b, x) = (a \o b) \o <<x>>
    BY <1>1, AppendIsConcat
  <1>3. Append(b, x) = b \o <<x>>
    BY <1>1, AppendIsConcat
  <1>4. (a \o b) \o <<x>> = a \o (b \o <<x>>)
    BY <1>1, ConcatAssociative
  <1> QED  BY <1>2, <1>3, <1>4, Zenon

\* f[i] is what is left of the first i bytes of s.
Keeps(s, f) ==
    /\ f \in [0 .. Len(s) -> Texts] /\ f[0] = <<>>
    /\ \A i \in 1 .. Len(s) : f[i] = IF s[i] \in Endings THEN f[i - 1] ELSE Append(f[i - 1], s[i])

ContentIs(s) == \E f : Keeps(s, f) /\ Content(s) = f[Len(s)]

LEMMA ContentExists ==
    ASSUME NEW s \in Texts
    PROVE  ContentIs(s)
  <1> DEFINE n == Len(s)
             Step(f, i) == IF i = 0 THEN <<>>
                           ELSE IF s[i] \in {Newline, Return} THEN f[i - 1]
                           ELSE Append(f[i - 1], s[i])
             at == CHOOSE f : f = [i \in 0 .. Len(s) |-> Step(f, i)]
             step == [i \in 1 .. n |-> [x \in Texts |-> IF s[i] \in Endings THEN x ELSE Append(x, s[i])]]
             start == <<>>
  <1>1. n \in Nat /\ start \in Texts /\ \A i \in 1 .. n : s[i] \in Bytes
    BY ElementOfSeq DEF Texts
  <1>2. \A i \in 1 .. n, x \in Texts : Append(x, s[i]) \in Texts
    BY <1>1, AppendProperties DEF Texts
  <1>3. step \in [1 .. n -> [Texts -> Texts]]
    BY <1>2
  <1>4. \A i \in 1 .. n, x \in Texts : step[i][x] = IF s[i] \in Endings THEN x ELSE Append(x, s[i])
    OBVIOUS
  <1> HIDE DEF step, start
  <1>5. PICK g \in [0 .. n -> Texts] : Counts(g, n, start, step)
    BY <1>1, <1>3, CountExists DEF HasCount
  <1>6. g[0] = start /\ \A i \in 1 .. n : g[i] = step[i][g[i - 1]]
    BY <1>5 DEF Counts
  <1>7. \A i \in 1 .. n : g[i - 1] \in Texts
    BY <1>1
  <1>8. \A i \in 1 .. n : g[i] = IF s[i] \in Endings THEN g[i - 1] ELSE Append(g[i - 1], s[i])
    BY <1>4, <1>6, <1>7
  <1>9. g = [i \in 0 .. n |-> Step(g, i)]
    <2> DEFINE h == [i \in 0 .. n |-> Step(g, i)]
    <2>1. \A i \in 0 .. n : g[i] = Step(g, i)
      <3> TAKE i \in 0 .. n
      <3>1. CASE i = 0
        BY <1>6, <3>1 DEF start
      <3>2. CASE i # 0
        <4>1. i \in 1 .. n
          BY <1>1, <3>2
        <4> QED  BY <1>8, <3>2, <4>1 DEF Endings
      <3> QED  BY <3>1, <3>2
    <2> HIDE DEF Step
    <2>2. \A i \in 0 .. n : g[i] = h[i]
      BY <2>1
    <2>3. DOMAIN g = 0 .. n /\ DOMAIN h = 0 .. n /\ g = [i \in DOMAIN g |-> g[i]] /\ h = [i \in DOMAIN h |-> h[i]]
      OBVIOUS
    <2> HIDE DEF h
    <2>4. g = h
      BY <2>2, <2>3
    <2> QED  BY <2>4 DEF h
  <1>10. at = [i \in 0 .. n |-> Step(at, i)]
    <2>1. \E f : f = [i \in 0 .. Len(s) |-> Step(f, i)]
      BY <1>9, Zenon
    <2> QED  BY <2>1, Zenon
  <1>11. Content(s) = at[Len(s)]
    BY Zenon DEF Content
  <1> HIDE DEF at, Step
  <1>12. DOMAIN at = 0 .. n /\ \A i \in 0 .. n : at[i] = Step(at, i)
    BY <1>10
  <1>13. at[0] = <<>> /\ \A i \in 1 .. n : at[i] = IF s[i] \in Endings THEN at[i - 1] ELSE Append(at[i - 1], s[i])
    <2>1. 0 \in 0 .. n /\ \A i \in 1 .. n : i \in 0 .. n /\ i # 0
      BY <1>1
    <2>2. at[0] = Step(at, 0) /\ \A i \in 1 .. n : at[i] = Step(at, i) /\ i # 0
      BY <1>12, <2>1
    <2>3. Step(at, 0) = <<>>
      BY DEF Step
    <2>4. \A i \in 1 .. n : Step(at, i) = IF s[i] \in Endings THEN at[i - 1] ELSE Append(at[i - 1], s[i])
      BY <2>1 DEF Step, Endings
    <2> QED  BY <2>2, <2>3, <2>4
  <1>14. \A i \in 0 .. n : at[i] \in Texts
    <2> DEFINE T == {i \in 0 .. n : at[i] \in Texts}
    <2>1. 0 \in T
      BY <1>1, <1>13 DEF start
    <2>2. ASSUME NEW i \in 1 .. n, i - 1 \in T PROVE i \in T
      <3>1. i \in 0 .. n /\ at[i - 1] \in Texts
        BY <2>2
      <3> QED  BY <1>2, <1>13, <3>1
    <2> HIDE DEF T
    <2>3. \A i \in 0 .. n : i \in T
      BY <1>1, <2>1, <2>2, UpTo
    <2> QED  BY <2>3 DEF T
  <1>15. at = [i \in 0 .. n |-> at[i]]
    BY <1>10
  <1>16. at \in [0 .. n -> Texts]
    BY <1>14, <1>15
  <1> QED  BY <1>11, <1>13, <1>16 DEF ContentIs, Keeps

LEMMA ContentType ==
    ASSUME NEW s \in Texts
    PROVE  Content(s) \in Texts
  <1>1. PICK f : Keeps(s, f) /\ Content(s) = f[Len(s)]
    BY ContentExists DEF ContentIs
  <1>2. Len(s) \in 0 .. Len(s)
    BY DEF Texts
  <1> QED  BY <1>1, <1>2 DEF Keeps

LEMMA ContentEmpty == Content(<<>>) = <<>>
  <1>1. <<>> \in Texts /\ Len(<<>>) = 0
    BY DEF Texts
  <1>2. PICK f : Keeps(<<>>, f) /\ Content(<<>>) = f[Len(<<>>)]
    BY <1>1, ContentExists DEF ContentIs
  <1> QED  BY <1>1, <1>2 DEF Keeps

\* The content of two texts in a row is that of one after that of the other.
LEMMA ContentConcat ==
    ASSUME NEW s \in Texts, NEW t \in Texts
    PROVE  s \o t \in Texts /\ Content(s \o t) = Content(s) \o Content(t)
  <1> DEFINE st == s \o t
             m == Len(s)
             n == Len(t)
  <1>1. /\ st \in Texts /\ Len(st) = m + n /\ m \in Nat /\ n \in Nat
        /\ \A i \in 1 .. m + n : st[i] = IF i <= m THEN s[i] ELSE t[i - m]
    BY ConcatProperties DEF Texts
  <1> HIDE DEF st
  <1>2. PICK f : Keeps(s, f) /\ Content(s) = f[m]
    BY ContentExists DEF ContentIs
  <1>3. PICK g : Keeps(t, g) /\ Content(t) = g[n]
    BY ContentExists DEF ContentIs
  <1>4. PICK h : Keeps(st, h) /\ Content(st) = h[m + n]
    BY <1>1, ContentExists DEF ContentIs
  <1>5. \A i \in 0 .. m : h[i] = f[i]
    <2> DEFINE T == {i \in 0 .. m : h[i] = f[i]}
    <2>1. 0 \in T
      BY <1>1, <1>2, <1>4 DEF Keeps
    <2>2. ASSUME NEW i \in 1 .. m, i - 1 \in T PROVE i \in T
      <3>1. i \in 0 .. m /\ i \in 1 .. m + n /\ h[i - 1] = f[i - 1] /\ st[i] = s[i]
        BY <1>1, <2>2
      <3> QED  BY <1>1, <1>2, <1>4, <3>1 DEF Keeps
    <2> HIDE DEF T
    <2>3. \A i \in 0 .. m : i \in T
      BY <1>1, <2>1, <2>2, UpTo
    <2> QED  BY <2>3 DEF T
  <1>6. f[m] \in Texts /\ \A i \in 0 .. n : g[i] \in Texts
    BY <1>1, <1>2, <1>3 DEF Keeps
  <1>7. \A i \in 0 .. n : h[m + i] = f[m] \o g[i]
    <2> DEFINE T == {i \in 0 .. n : h[m + i] = f[m] \o g[i]}
    <2>1. 0 \in T
      <3>1. h[m + 0] = f[m] /\ g[0] = <<>> /\ 0 \in 0 .. n
        BY <1>1, <1>3, <1>5 DEF Keeps
      <3>2. f[m] \o <<>> = f[m]
        BY <1>6, ConcatEmptySeq DEF Texts
      <3> QED  BY <3>1, <3>2
    <2>2. ASSUME NEW i \in 1 .. n, i - 1 \in T PROVE i \in T
      <3>1. /\ i \in 0 .. n /\ i - 1 \in 0 .. n /\ m + i \in 1 .. m + n /\ (m + i) - 1 = m + (i - 1)
            /\ h[m + (i - 1)] = f[m] \o g[i - 1] /\ st[m + i] = t[i]
        <4>1. i \in 0 .. n /\ i - 1 \in 0 .. n /\ m + i \in 1 .. m + n /\ (m + i) - 1 = m + (i - 1) /\ (m + i) - m = i /\ ~(m + i <= m)
          BY <1>1
        <4>2. st[m + i] = t[i]
          BY <1>1, <4>1
        <4> QED  BY <2>2, <4>1, <4>2
      <3>2. h[m + i] = IF t[i] \in Endings THEN h[m + (i - 1)] ELSE Append(h[m + (i - 1)], t[i])
        <4>1. h[m + i] = IF st[m + i] \in Endings THEN h[(m + i) - 1] ELSE Append(h[(m + i) - 1], st[m + i])
          BY <1>1, <1>4, <3>1 DEF Keeps
        <4> QED  BY <3>1, <4>1
      <3>3. g[i] = IF t[i] \in Endings THEN g[i - 1] ELSE Append(g[i - 1], t[i])
        BY <1>3 DEF Keeps
      <3>4. t[i] \in Bytes
        BY ElementOfSeq DEF Texts
      <3>5. Append(f[m] \o g[i - 1], t[i]) = f[m] \o Append(g[i - 1], t[i])
        <4> DEFINE a == f[m]  b == g[i - 1]  x == t[i]
        <4>1. a \in Texts /\ b \in Texts /\ x \in Bytes
          BY <1>6, <3>1, <3>4
        <4> HIDE DEF a, b, x
        <4>2. Append(a \o b, x) = a \o Append(b, x)
          BY <4>1, AppendAfter, Zenon
        <4> QED  BY <4>2 DEF a, b, x
      <3> QED  BY <3>1, <3>2, <3>3, <3>5
    <2> HIDE DEF T
    <2>3. \A i \in 0 .. n : i \in T
      BY <1>1, <2>1, <2>2, UpTo
    <2> QED  BY <2>3 DEF T
  <1>8. h[m + n] = f[m] \o g[n]
    <2>1. n \in 0 .. n
      BY <1>1
    <2> QED  BY <1>7, <2>1
  <1> QED  BY <1>1, <1>2, <1>3, <1>4, <1>8 DEF st

\* A line ending has no content.
LEMMA ContentOfEnding ==
    ASSUME NEW x \in Endings
    PROVE  <<x>> \in Texts /\ Content(<<x>>) = <<>>
  <1> DEFINE s == <<x>>
  <1>1. s \in Texts /\ Len(s) = 1 /\ s[1] = x
    BY DEF Texts, Endings, Bytes
  <1> HIDE DEF s
  <1>2. PICK f : Keeps(s, f) /\ Content(s) = f[Len(s)]
    BY <1>1, ContentExists DEF ContentIs
  <1>3. f[1] = f[0] /\ f[0] = <<>>
    BY <1>1, <1>2 DEF Keeps
  <1> QED  BY <1>1, <1>2, <1>3 DEF s

-----------------------------------------------------------------------------
(* The lines of a multiline event. *)

Buffers == Seq(Texts)

Glued(x, y) == Append(x, Newline) \o y

LEMMA GluedText ==
    ASSUME NEW x \in Texts, NEW y \in Texts
    PROVE  /\ Glued(x, y) \in Texts /\ Len(Glued(x, y)) = Len(x) + 1 + Len(y)
           /\ Content(Glued(x, y)) = Content(x) \o Content(y)
  <1>1. Newline \in Bytes /\ Newline \in Endings
    BY DEF Bytes, Endings
  <1>2. Append(x, Newline) \in Texts /\ Len(Append(x, Newline)) = Len(x) + 1
    BY <1>1, AppendProperties DEF Texts
  <1>3. Glued(x, y) \in Texts /\ Len(Glued(x, y)) = Len(Append(x, Newline)) + Len(y)
    BY <1>2, ConcatProperties DEF Glued, Texts
  <1>4. Content(Append(x, Newline)) = Content(x)
    <2> DEFINE nl == <<Newline>>
    <2>1. nl \in Texts /\ Append(x, Newline) = x \o nl
      BY <1>1, AppendIsConcat DEF Texts
    <2>2. Content(nl) = <<>>
      BY <1>1, ContentOfEnding
    <2>3. Content(x \o nl) = Content(x) \o Content(nl)
      BY <2>1, ContentConcat
    <2>4. Content(x) \o <<>> = Content(x)
      BY ContentType, ConcatEmptySeq DEF Texts
    <2> QED  BY <2>1, <2>2, <2>3, <2>4
  <1>5. Content(Glued(x, y)) = Content(Append(x, Newline)) \o Content(y)
    BY <1>2, ContentConcat DEF Glued
  <1> QED  BY <1>2, <1>3, <1>4, <1>5 DEF Texts

\* f[i] is the first i lines of b, joined.
Joins(b, f) ==
    /\ f \in [1 .. Len(b) -> Texts] /\ f[1] = b[1]
    /\ \A i \in 2 .. Len(b) : f[i] = Glued(f[i - 1], b[i])

JoinIs(b) == \E f : Joins(b, f) /\ Join(b) = f[Len(b)]

LEMMA JoinExists ==
    ASSUME NEW b \in Buffers, b # <<>>
    PROVE  JoinIs(b)
  <1> DEFINE n == Len(b)
             Step(f, i) == IF i = 1 THEN b[1] ELSE Append(f[i - 1], Newline) \o b[i]
             at == CHOOSE f : f = [i \in 1 .. Len(b) |-> Step(f, i)]
             k == n - 1
             start == b[1]
             step == [i \in 1 .. k |-> [x \in Texts |-> Glued(x, b[i + 1])]]
  <1>1. n \in Nat /\ n >= 1 /\ k \in Nat /\ \A i \in 1 .. n : b[i] \in Texts
    BY ElementOfSeq, EmptySeq DEF Buffers
  <1>2. start \in Texts /\ \A i \in 1 .. k : i + 1 \in 1 .. n
    BY <1>1
  <1>3. \A i \in 1 .. k, x \in Texts : Glued(x, b[i + 1]) \in Texts
    BY <1>1, <1>2, GluedText
  <1>4. step \in [1 .. k -> [Texts -> Texts]]
    BY <1>3
  <1>5. \A i \in 1 .. k, x \in Texts : step[i][x] = Glued(x, b[i + 1])
    OBVIOUS
  <1> HIDE DEF step, start, k
  <1>6. PICK g \in [0 .. k -> Texts] : Counts(g, k, start, step)
    BY <1>1, <1>2, <1>4, CountExists DEF HasCount
  <1>7. g[0] = start /\ \A i \in 1 .. k : g[i] = Glued(g[i - 1], b[i + 1])
    <2>1. g[0] = start /\ \A i \in 1 .. k : g[i] = step[i][g[i - 1]]
      BY <1>6 DEF Counts
    <2>2. \A i \in 1 .. k : g[i - 1] \in Texts
      BY <1>1
    <2> QED  BY <1>5, <2>1, <2>2
  <1> DEFINE j == [i \in 1 .. n |-> g[i - 1]]
  <1>8. \A i \in 1 .. n : j[i] = Step(j, i)
    <2> TAKE i \in 1 .. n
    <2>1. CASE i = 1
      BY <1>7, <2>1 DEF start
    <2>2. CASE i # 1
      <3>1. i - 1 \in 1 .. k /\ (i - 1) + 1 = i /\ i - 1 \in 1 .. n
        BY <1>1, <2>2 DEF k
      <3>2. g[i - 1] = Glued(g[(i - 1) - 1], b[i])
        BY <1>7, <3>1
      <3>3. j[i] = g[i - 1] /\ j[i - 1] = g[(i - 1) - 1]
        BY <3>1
      <3> HIDE DEF j
      <3> QED  BY <2>2, <3>2, <3>3 DEF Glued
    <2> QED  BY <2>1, <2>2
  <1>9. j = [i \in 1 .. n |-> Step(j, i)]
    <2> DEFINE h == [i \in 1 .. n |-> Step(j, i)]
    <2> HIDE DEF Step
    <2>1. DOMAIN j = 1 .. n /\ DOMAIN h = 1 .. n /\ j = [i \in DOMAIN j |-> j[i]] /\ h = [i \in DOMAIN h |-> h[i]]
      OBVIOUS
    <2>2. \A i \in 1 .. n : j[i] = h[i]
      BY <1>8
    <2> HIDE DEF h, j
    <2>3. j = h
      BY <2>1, <2>2
    <2> QED  BY <2>3 DEF h
  <1>10. at = [i \in 1 .. n |-> Step(at, i)]
    <2> HIDE DEF j
    <2>1. \E f : f = [i \in 1 .. Len(b) |-> Step(f, i)]
      BY <1>9, Zenon
    <2> QED  BY <2>1, Zenon
  <1>11. Join(b) = at[Len(b)]
    BY Zenon DEF Join
  <1> HIDE DEF at, Step
  <1>12. DOMAIN at = 1 .. n /\ (\A i \in 1 .. n : at[i] = Step(at, i)) /\ at = [i \in 1 .. n |-> at[i]]
    BY <1>10
  <1>13. at[1] = b[1] /\ \A i \in 2 .. n : at[i] = Glued(at[i - 1], b[i])
    <2>1. 1 \in 1 .. n /\ \A i \in 2 .. n : i \in 1 .. n /\ i # 1
      BY <1>1
    <2>2. at[1] = Step(at, 1) /\ \A i \in 2 .. n : at[i] = Step(at, i) /\ i # 1
      BY <1>12, <2>1
    <2>3. Step(at, 1) = b[1]
      BY DEF Step
    <2>4. \A i \in 2 .. n : Step(at, i) = Glued(at[i - 1], b[i])
      BY <2>1 DEF Step, Glued
    <2> QED  BY <2>2, <2>3, <2>4
  <1>14. \A i \in 0 .. k : at[i + 1] \in Texts
    <2> DEFINE T == {i \in 0 .. k : at[i + 1] \in Texts}
    <2>1. 0 \in T
      BY <1>1, <1>2, <1>13 DEF start
    <2>2. ASSUME NEW i \in 1 .. k, i - 1 \in T PROVE i \in T
      <3>1. i \in 0 .. k /\ (i - 1) + 1 = i /\ at[i] \in Texts /\ i + 1 \in 2 .. n /\ (i + 1) - 1 = i /\ i + 1 \in 1 .. n
        BY <1>1, <2>2 DEF k
      <3>2. at[i + 1] = Glued(at[i], b[i + 1])
        BY <1>13, <3>1
      <3> QED  BY <1>1, <3>1, <3>2, GluedText
    <2> HIDE DEF T
    <2>3. \A i \in 0 .. k : i \in T
      BY <1>1, <2>1, <2>2, UpTo
    <2> QED  BY <2>3 DEF T
  <1>15. \A i \in 1 .. n : at[i] \in Texts
    <2> TAKE i \in 1 .. n
    <2>1. i - 1 \in 0 .. k /\ (i - 1) + 1 = i
      BY <1>1 DEF k
    <2> QED  BY <1>14, <2>1
  <1>16. at \in [1 .. n -> Texts]
    BY <1>12, <1>15
  <1> QED  BY <1>11, <1>13, <1>16 DEF JoinIs, Joins

LEMMA JoinText ==
    ASSUME NEW b \in Buffers, b # <<>>
    PROVE  Join(b) \in Texts /\ Len(Join(b)) \in Nat
  <1>1. PICK f : Joins(b, f) /\ Join(b) = f[Len(b)]
    BY JoinExists DEF JoinIs
  <1>2. Len(b) \in 1 .. Len(b)
    BY EmptySeq DEF Buffers
  <1>3. Join(b) \in Texts
    BY <1>1, <1>2 DEF Joins
  <1> QED  BY <1>3 DEF Texts

LEMMA JoinOne ==
    ASSUME NEW t \in Texts
    PROVE  Join(<<t>>) = t /\ <<t>> \in Buffers /\ <<t>> # <<>>
  <1> DEFINE b == <<t>>
  <1>1. b \in Buffers /\ b # <<>> /\ Len(b) = 1 /\ b[1] = t
    BY DEF Buffers
  <1> HIDE DEF b
  <1>2. PICK f : Joins(b, f) /\ Join(b) = f[Len(b)]
    BY <1>1, JoinExists DEF JoinIs
  <1>3. Join(b) = t
    BY <1>1, <1>2 DEF Joins
  <1> QED  BY <1>1, <1>3 DEF b

\* One more line goes behind those there are.
LEMMA JoinMore ==
    ASSUME NEW b \in Buffers, b # <<>>, NEW t \in Texts
    PROVE  Append(b, t) \in Buffers /\ Append(b, t) # <<>> /\ Join(Append(b, t)) = Glued(Join(b), t)
  <1> DEFINE c == Append(b, t)
             n == Len(b)
  <1>1. /\ c \in Buffers /\ c # <<>> /\ Len(c) = n + 1 /\ n \in Nat /\ n >= 1
        /\ c[n + 1] = t /\ \A i \in 1 .. n : c[i] = b[i]
    BY AppendProperties, EmptySeq DEF Buffers
  <1> HIDE DEF c
  <1>2. PICK f : Joins(b, f) /\ Join(b) = f[n]
    BY JoinExists DEF JoinIs
  <1>3. PICK g : Joins(c, g) /\ Join(c) = g[Len(c)]
    BY <1>1, JoinExists DEF JoinIs
  <1>4. \A i \in 0 .. n - 1 : g[i + 1] = f[i + 1]
    <2> DEFINE T == {i \in 0 .. n - 1 : g[i + 1] = f[i + 1]}
    <2>1. 0 \in T
      BY <1>1, <1>2, <1>3 DEF Joins
    <2>2. ASSUME NEW i \in 1 .. n - 1, i - 1 \in T PROVE i \in T
      <3>1. /\ i \in 0 .. n - 1 /\ (i - 1) + 1 = i /\ (i + 1) - 1 = i /\ i + 1 \in 2 .. n /\ i + 1 \in 1 .. n
            /\ i + 1 \in 2 .. Len(c) /\ g[i] = f[i]
        BY <1>1, <2>2
      <3>2. g[i + 1] = Glued(g[i], c[i + 1]) /\ f[i + 1] = Glued(f[i], b[i + 1])
        BY <1>2, <1>3, <3>1 DEF Joins
      <3> QED  BY <1>1, <3>1, <3>2
    <2> HIDE DEF T
    <2>3. n - 1 \in Nat
      BY <1>1
    <2>4. \A i \in 0 .. n - 1 : i \in T
      BY <2>1, <2>2, <2>3, UpTo
    <2> QED  BY <2>4 DEF T
  <1>5. n - 1 \in 0 .. n - 1 /\ (n - 1) + 1 = n /\ n + 1 \in 2 .. Len(c) /\ (n + 1) - 1 = n
    BY <1>1
  <1>6. g[n] = f[n]
    BY <1>4, <1>5
  <1>7. g[n + 1] = Glued(g[n], c[n + 1])
    BY <1>3, <1>5 DEF Joins
  <1> QED  BY <1>1, <1>2, <1>3, <1>6, <1>7 DEF c

-----------------------------------------------------------------------------
(* Codecs. *)

CodecConf == [kind : CodecKinds, max : Nat \ {0}, timeout : BOOLEAN]
CodecType == [conf : CodecConf, lastOffset : Nat, startOffset : Nat, endOffset : Nat, buffer : Buffers]
EventType == [start : Nat, end : Nat, text : Texts]

\* Events in a row, from offset a to offset b.
Chained(q, a, b) ==
    /\ q \in Seq(EventType)
    /\ q = <<>> => a = b
    /\ q # <<>> => q[1].start = a /\ q[Len(q)].end = b
    /\ \A i \in 1 .. Len(q) : q[i].start <= q[i].end
    /\ \A i \in 1 .. Len(q) - 1 : q[i + 1].start = q[i].end

LEMMA ChainedNone ==
    ASSUME NEW a
    PROVE  Chained(<<>>, a, a)
  BY DEF Chained

LEMMA EventFields ==
    ASSUME NEW a \in Nat, NEW b \in Nat, NEW t \in Texts
    PROVE  Event(a, b, t) \in EventType /\ Event(a, b, t).start = a /\ Event(a, b, t).end = b /\ Event(a, b, t).text = t
  BY DEF Event, EventType

LEMMA ChainedOne ==
    ASSUME NEW e \in EventType, e.start <= e.end
    PROVE  Chained(<<e>>, e.start, e.end)
  <1> DEFINE q == <<e>>
  <1>1. q \in Seq(EventType) /\ Len(q) = 1 /\ q[1] = e /\ q # <<>>
    OBVIOUS
  <1> HIDE DEF q
  <1>2. Chained(q, e.start, e.end)
    BY <1>1 DEF Chained
  <1> QED  BY <1>2 DEF q

LEMMA ChainedConcat ==
    ASSUME NEW p, NEW q, NEW a, NEW b, NEW c, Chained(p, a, b), Chained(q, b, c)
    PROVE  Chained(p \o q, a, c)
  <1> DEFINE r == p \o q
             m == Len(p)
             n == Len(q)
  <1>1. p \in Seq(EventType) /\ q \in Seq(EventType) /\ m \in Nat /\ n \in Nat
    BY DEF Chained
  <1>2. /\ r \in Seq(EventType) /\ Len(r) = m + n
        /\ \A i \in 1 .. m + n : r[i] = IF i <= m THEN p[i] ELSE q[i - m]
    BY <1>1, ConcatProperties
  <1>3. CASE p = <<>>
    <2>1. r = q /\ a = b
      BY <1>1, <1>3, ConcatEmptySeq DEF Chained
    <2> QED  BY <2>1
  <1>4. CASE q = <<>>
    <2>1. r = p /\ b = c
      BY <1>1, <1>4, ConcatEmptySeq DEF Chained
    <2> QED  BY <2>1
  <1>5. CASE p # <<>> /\ q # <<>>
    <2>1. m >= 1 /\ n >= 1
      BY <1>1, <1>5, EmptySeq
    <2> HIDE DEF r
    <2>2. r[1] = p[1] /\ r[m + n] = q[n] /\ r # <<>>
      <3>1. 1 \in 1 .. m + n /\ 1 <= m /\ m + n \in 1 .. m + n /\ ~(m + n <= m) /\ (m + n) - m = n
        BY <1>1, <2>1
      <3>2. r # <<>>
        BY <1>2, <3>1
      <3> QED  BY <1>2, <3>1, <3>2
    <2>3. r[1].start = a /\ r[Len(r)].end = c
      BY <1>2, <1>5, <2>2 DEF Chained
    <2>4. ASSUME NEW i \in 1 .. Len(r) PROVE r[i].start <= r[i].end
      <3>1. CASE i <= m
        <4>1. i \in 1 .. m /\ i \in 1 .. m + n
          BY <1>1, <1>2, <3>1
        <4> QED  BY <1>2, <3>1, <4>1 DEF Chained
      <3>2. CASE ~(i <= m)
        <4>1. i - m \in 1 .. n /\ i \in 1 .. m + n
          BY <1>1, <1>2, <3>2
        <4> QED  BY <1>2, <3>2, <4>1 DEF Chained
      <3> QED  BY <3>1, <3>2
    <2>5. ASSUME NEW i \in 1 .. Len(r) - 1 PROVE r[i + 1].start = r[i].end
      <3>0. i \in 1 .. m + n /\ i + 1 \in 1 .. m + n
        BY <1>1, <1>2
      <3>1. CASE i + 1 <= m
        <4>1. i \in 1 .. m - 1 /\ i <= m
          BY <1>1, <3>0, <3>1
        <4>2. r[i + 1] = p[i + 1] /\ r[i] = p[i]
          BY <1>2, <3>0, <3>1, <4>1
        <4> QED  BY <4>1, <4>2 DEF Chained
      <3>2. CASE i = m
        <4>1. r[i] = p[m] /\ r[i + 1] = q[1]
          <5>1. i <= m /\ ~(i + 1 <= m) /\ (i + 1) - m = 1
            BY <1>1, <3>2
          <5> QED  BY <1>2, <3>0, <3>2, <5>1
        <4> QED  BY <1>5, <4>1 DEF Chained
      <3>3. CASE i > m
        <4>1. i - m \in 1 .. n - 1 /\ ~(i <= m) /\ ~(i + 1 <= m) /\ (i + 1) - m = (i - m) + 1
          BY <1>1, <1>2, <3>3
        <4>2. r[i + 1] = q[(i - m) + 1] /\ r[i] = q[i - m]
          BY <1>2, <3>0, <4>1
        <4> QED  BY <4>1, <4>2 DEF Chained
      <3> QED  BY <1>1, <3>0, <3>1, <3>2, <3>3
    <2>6. Chained(r, a, c)
      BY <1>2, <2>2, <2>3, <2>4, <2>5 DEF Chained
    <2> QED  BY <2>6 DEF r
  <1> QED  BY <1>3, <1>4, <1>5

LEMMA ChainedTail ==
    ASSUME NEW q, NEW a, NEW b, Chained(q, a, b), q # <<>>
    PROVE  /\ Head(q) \in EventType /\ Head(q).start = a /\ Head(q).start <= Head(q).end
           /\ Chained(Tail(q), Head(q).end, b)
  <1> DEFINE r == Tail(q)
  <1>1. q \in Seq(EventType) /\ Len(q) \in Nat /\ Len(q) >= 1
    BY EmptySeq DEF Chained
  <1>2. /\ r \in Seq(EventType) /\ Len(r) = Len(q) - 1 /\ \A i \in 1 .. Len(r) : r[i] = q[i + 1]
        /\ Head(q) \in EventType /\ Head(q) = q[1]
    BY <1>1, HeadTailProperties
  <1>3. Head(q).start = a /\ Head(q).start <= Head(q).end
    BY <1>1, <1>2 DEF Chained
  <1> HIDE DEF r
  <1>4. r = <<>> => Head(q).end = b
    <2> SUFFICES ASSUME r = <<>> PROVE Head(q).end = b
      OBVIOUS
    <2>1. Len(r) = 0
      BY Zenon, EmptySeq
    <2>2. Len(q) = 1
      BY <1>1, <1>2, <2>1
    <2> QED  BY <1>2, <2>2 DEF Chained
  <1>5. r # <<>> => r[1].start = Head(q).end /\ r[Len(r)].end = b
    <2> SUFFICES ASSUME r # <<>> PROVE r[1].start = Head(q).end /\ r[Len(r)].end = b
      OBVIOUS
    <2>1. Len(r) \in Nat /\ Len(r) >= 1
      BY <1>2, EmptySeq
    <2>2. 1 \in 1 .. Len(r) /\ Len(r) \in 1 .. Len(r) /\ Len(r) + 1 = Len(q) /\ 1 \in 1 .. Len(q) - 1
      BY <1>1, <1>2, <2>1
    <2>3. r[1] = q[1 + 1] /\ r[Len(r)] = q[Len(q)]
      BY <1>2, <2>2
    <2> QED  BY <1>2, <2>2, <2>3 DEF Chained
  <1>6. \A i \in 1 .. Len(r) : r[i].start <= r[i].end
    <2> TAKE i \in 1 .. Len(r)
    <2>1. i + 1 \in 1 .. Len(q)
      BY <1>1, <1>2
    <2> QED  BY <1>2, <2>1 DEF Chained
  <1>7. \A i \in 1 .. Len(r) - 1 : r[i + 1].start = r[i].end
    <2> TAKE i \in 1 .. Len(r) - 1
    <2>1. i + 1 \in 1 .. Len(q) - 1 /\ i \in 1 .. Len(r) /\ i + 1 \in 1 .. Len(r)
      BY <1>1, <1>2
    <2>2. r[i] = q[i + 1] /\ r[i + 1] = q[(i + 1) + 1]
      BY <1>2, <2>1
    <2> QED  BY <2>1, <2>2 DEF Chained
  <1>8. Chained(r, Head(q).end, b)
    BY <1>2, <1>4, <1>5, <1>6, <1>7 DEF Chained
  <1> QED  BY <1>2, <1>3, <1>8 DEF r

\* The event holds what the file f has between its offsets.
Faithful(e, f) == e.end <= Len(f) /\ Content(e.text) = Content(SubSeq(f, e.start + 1, e.end))
AllFaithful(q, f) == \A i \in 1 .. Len(q) : Faithful(q[i], f)

\* Lines are buffered by a multiline codec, up to the offset o, within the limit.
Buffered(c, o) ==
    c.buffer # <<>> => /\ Multiline(c) /\ c.startOffset <= c.endOffset /\ c.endOffset = o
                       /\ Len(Join(c.buffer)) < c.conf.max

\* All before lastOffset has been handed on, and nothing behind it.
Tight(c, o) == IF c.buffer = <<>> THEN c.lastOffset = o ELSE c.startOffset = c.lastOffset

\* The buffered lines are those of the file f.
BufferFaithful(c, f) ==
    c.buffer # <<>> => /\ c.endOffset <= Len(f)
                       /\ Content(Join(c.buffer)) = Content(SubSeq(f, c.startOffset + 1, c.endOffset))
                       /\ Len(Join(c.buffer)) <= 2 * (c.endOffset - c.startOffset)

LEMMA FaithfulNone ==
    ASSUME NEW f
    PROVE  AllFaithful(<<>>, f)
  BY DEF AllFaithful

LEMMA FaithfulOne ==
    ASSUME NEW f, NEW e, Faithful(e, f)
    PROVE  AllFaithful(<<e>>, f)
  <1>1. Len(<<e>>) = 1 /\ <<e>>[1] = e
    OBVIOUS
  <1> QED  BY <1>1 DEF AllFaithful

LEMMA FaithfulConcat ==
    ASSUME NEW f, NEW p \in Seq(EventType), NEW q \in Seq(EventType), AllFaithful(p, f), AllFaithful(q, f)
    PROVE  AllFaithful(p \o q, f)
  <1> DEFINE r == p \o q
             m == Len(p)
             n == Len(q)
  <1>1. /\ Len(r) = m + n /\ m \in Nat /\ n \in Nat
        /\ \A i \in 1 .. m + n : r[i] = IF i <= m THEN p[i] ELSE q[i - m]
    BY ConcatProperties
  <1> HIDE DEF r
  <1>2. ASSUME NEW i \in 1 .. m + n PROVE Faithful(r[i], f)
    <2>1. CASE i <= m
      <3>1. i \in 1 .. m
        BY <1>1, <2>1
      <3> QED  BY <1>1, <2>1, <3>1 DEF AllFaithful
    <2>2. CASE ~(i <= m)
      <3>1. i - m \in 1 .. n
        BY <1>1, <2>2
      <3> QED  BY <1>1, <2>2, <3>1 DEF AllFaithful
    <2> QED  BY <2>1, <2>2
  <1>3. AllFaithful(r, f)
    BY <1>1, <1>2 DEF AllFaithful
  <1> QED  BY <1>3 DEF r

\* A codec, field by field.
CodecOf(conf, l, s, e, b) == [conf |-> conf, lastOffset |-> l, startOffset |-> s, endOffset |-> e, buffer |-> b]

LEMMA CodecWith ==
    ASSUME NEW conf \in CodecConf, NEW l \in Nat, NEW s \in Nat, NEW e \in Nat, NEW b \in Buffers
    PROVE  /\ CodecOf(conf, l, s, e, b) \in CodecType
           /\ CodecOf(conf, l, s, e, b).conf = conf /\ CodecOf(conf, l, s, e, b).lastOffset = l
           /\ CodecOf(conf, l, s, e, b).startOffset = s /\ CodecOf(conf, l, s, e, b).endOffset = e
           /\ CodecOf(conf, l, s, e, b).buffer = b
  BY DEF CodecType, CodecOf

LEMMA CodecFields ==
    ASSUME NEW c \in CodecType
    PROVE  /\ c.conf \in CodecConf /\ c.lastOffset \in Nat /\ c.startOffset \in Nat /\ c.endOffset \in Nat /\ c.buffer \in Buffers
           /\ c = CodecOf(c.conf, c.lastOffset, c.startOffset, c.endOffset, c.buffer)
           /\ c.conf.max \in Nat /\ c.conf.max >= 1 /\ c.conf.kind \in CodecKinds
  BY DEF CodecType, CodecConf, CodecOf

\* What the assignments of the codecs make of one.
LEMMA SetLast ==
    ASSUME NEW c \in CodecType, NEW y
    PROVE  [c EXCEPT !.lastOffset = y] = CodecOf(c.conf, y, c.startOffset, c.endOffset, c.buffer)
  <1> DEFINE f1 == c.conf  f2 == c.lastOffset  f3 == c.startOffset  f4 == c.endOffset  f5 == c.buffer
  <1>1. c = CodecOf(f1, f2, f3, f4, f5)
    BY CodecFields
  <1> HIDE DEF f1, f2, f3, f4, f5
  <1>2. [c EXCEPT !.lastOffset = y] = CodecOf(f1, y, f3, f4, f5)
    BY <1>1 DEF CodecOf
  <1> QED  BY <1>2, Zenon DEF f1, f3, f4, f5

LEMMA SetStart ==
    ASSUME NEW c \in CodecType, NEW y
    PROVE  [c EXCEPT !.startOffset = y] = CodecOf(c.conf, c.lastOffset, y, c.endOffset, c.buffer)
  <1> DEFINE f1 == c.conf  f2 == c.lastOffset  f3 == c.startOffset  f4 == c.endOffset  f5 == c.buffer
  <1>1. c = CodecOf(f1, f2, f3, f4, f5)
    BY CodecFields
  <1> HIDE DEF f1, f2, f3, f4, f5
  <1>2. [c EXCEPT !.startOffset = y] = CodecOf(f1, f2, y, f4, f5)
    BY <1>1 DEF CodecOf
  <1> QED  BY <1>2, Zenon DEF f1, f2, f4, f5

LEMMA SetBufferLast ==
    ASSUME NEW c \in CodecType, NEW x, NEW y
    PROVE  /\ [c EXCEPT !.buffer = x, !.lastOffset = y] = CodecOf(c.conf, y, c.startOffset, c.endOffset, x)
           /\ [c EXCEPT !.lastOffset = y, !.buffer = x] = CodecOf(c.conf, y, c.startOffset, c.endOffset, x)
           /\ [c EXCEPT !.endOffset = y, !.buffer = x] = CodecOf(c.conf, c.lastOffset, c.startOffset, y, x)
  <1> DEFINE f1 == c.conf  f2 == c.lastOffset  f3 == c.startOffset  f4 == c.endOffset  f5 == c.buffer
             a1 == [c EXCEPT !.buffer = x]
             a2 == [a1 EXCEPT !.lastOffset = y]
             b1 == [c EXCEPT !.lastOffset = y]
             b2 == [b1 EXCEPT !.buffer = x]
             d1 == [c EXCEPT !.endOffset = y]
             d2 == [d1 EXCEPT !.buffer = x]
  <1>1. c = CodecOf(f1, f2, f3, f4, f5)
    BY CodecFields
  <1>2. /\ [c EXCEPT !.buffer = x, !.lastOffset = y] = a2
        /\ [c EXCEPT !.lastOffset = y, !.buffer = x] = b2
        /\ [c EXCEPT !.endOffset = y, !.buffer = x] = d2
    BY Zenon
  <1> HIDE DEF f1, f2, f3, f4, f5
  <1>3. a1 = CodecOf(f1, f2, f3, f4, x)
    BY <1>1 DEF CodecOf
  <1>4. b1 = CodecOf(f1, y, f3, f4, f5)
    BY <1>1 DEF CodecOf
  <1>5. d1 = CodecOf(f1, f2, f3, y, f5)
    BY <1>1 DEF CodecOf
  <1> HIDE DEF a1, b1, d1
  <1>7. a2 = CodecOf(f1, y, f3, f4, x)
    BY <1>3 DEF CodecOf
  <1>8. b2 = CodecOf(f1, y, f3, f4, x)
    BY <1>4 DEF CodecOf
  <1>9. d2 = CodecOf(f1, f2, f3, y, x)
    BY <1>5 DEF CodecOf
  <1> QED  BY <1>2, <1>7, <1>8, <1>9, Zenon DEF f1, f2, f3, f4, f5

LEMMA SetAll ==
    ASSUME NEW c \in CodecType, NEW x, NEW y, NEW z
    PROVE  [c EXCEPT !.buffer = x, !.lastOffset = y, !.startOffset = z] = CodecOf(c.conf, y, z, c.endOffset, x)
  <1> DEFINE f1 == c.conf  f2 == c.lastOffset  f3 == c.startOffset  f4 == c.endOffset  f5 == c.buffer
             a1 == [c EXCEPT !.buffer = x]
             a2 == [a1 EXCEPT !.lastOffset = y]
             a3 == [a2 EXCEPT !.startOffset = z]
  <1>1. c = CodecOf(f1, f2, f3, f4, f5)
    BY CodecFields
  <1>2. [c EXCEPT !.buffer = x, !.lastOffset = y, !.startOffset = z] = a3
    BY Zenon
  <1> HIDE DEF f1, f2, f3, f4, f5
  <1>3. a1 = CodecOf(f1, f2, f3, f4, x)
    BY <1>1 DEF CodecOf
  <1> HIDE DEF a1
  <1>4. a2 = CodecOf(f1, y, f3, f4, x)
    BY <1>3 DEF CodecOf
  <1> HIDE DEF a2
  <1>5. a3 = CodecOf(f1, y, z, f4, x)
    BY <1>4 DEF CodecOf
  <1> QED  BY <1>2, <1>5, Zenon DEF f1, f4

\* Flush hands on what is buffered.
FlushOK(c, o, d, q) ==
    /\ d \in CodecType /\ d.conf = c.conf /\ d.buffer = <<>> /\ q \in Seq(EventType)
    /\ Tight(c, o) => Tight(d, o) /\ Chained(q, c.lastOffset, d.lastOffset)
    /\ \A f : BufferFaithful(c, f) => AllFaithful(q, f)

LEMMA FlushFacts ==
    ASSUME NEW c \in CodecType, NEW o \in Nat, Buffered(c, o)
    PROVE  FlushOK(c, o, Flush(c).codec, Flush(c).events)
  <1> DEFINE none == <<>>
  <1>0. none \in Buffers /\ none \in Seq(EventType)
    BY DEF Buffers
  <1>1. CASE c.buffer = <<>>
    <2>1. Flush(c) = [codec |-> c, events |-> none]
      BY <1>1 DEF Flush, Result
    <2>2. Flush(c).codec = c /\ Flush(c).events = none
      BY <2>1
    <2>3. FlushOK(c, o, c, none)
      BY <1>0, <1>1, ChainedNone, FaithfulNone DEF FlushOK
    <2> QED  BY <2>2, <2>3
  <1>2. CASE c.buffer # <<>>
    <2> DEFINE t == Join(c.buffer)
               e == Event(c.startOffset, c.endOffset, t)
               d == CodecOf(c.conf, c.endOffset, c.startOffset, c.endOffset, none)
               x == [c EXCEPT !.buffer = none, !.lastOffset = c.endOffset]
               one == <<e>>
    <2>1. c.conf \in CodecConf /\ c.lastOffset \in Nat /\ c.startOffset \in Nat /\ c.endOffset \in Nat /\ c.buffer \in Buffers
      BY CodecFields
    <2>2. t \in Texts
      BY <1>2, <2>1, JoinText
    <2>3. e \in EventType /\ e.start = c.startOffset /\ e.end = c.endOffset /\ e.text = t
      BY <2>1, <2>2, EventFields
    <2>4. x = d
      BY SetBufferLast
    <2>5. d \in CodecType /\ d.conf = c.conf /\ d.lastOffset = c.endOffset /\ d.buffer = none
      BY <1>0, <2>1 DEF CodecOf, CodecType
    <2>6. Flush(c) = [codec |-> x, events |-> one]
      BY <1>2, Zenon DEF Flush, Result
    <2> HIDE DEF x, d, e, t
    <2>7. Flush(c).codec = d /\ Flush(c).events = one
      BY <2>4, <2>6
    <2>8. c.startOffset <= c.endOffset /\ c.endOffset = o
      BY <1>2 DEF Buffered
    <2>9. Chained(one, c.startOffset, c.endOffset) /\ one \in Seq(EventType)
      BY <2>3, <2>8, ChainedOne
    <2>10. ASSUME Tight(c, o) PROVE Tight(d, o) /\ Chained(one, c.lastOffset, d.lastOffset)
      BY <1>2, <2>5, <2>8, <2>9, <2>10 DEF Tight
    <2>11. ASSUME NEW f, BufferFaithful(c, f) PROVE AllFaithful(one, f)
      <3>1. Faithful(e, f)
        BY <1>2, <2>3, <2>11 DEF BufferFaithful, Faithful, t
      <3> QED  BY <3>1, FaithfulOne
    <2> HIDE DEF one
    <2>12. FlushOK(c, o, d, one)
      BY <2>5, <2>9, <2>10, <2>11 DEF FlushOK
    <2> QED  BY <2>7, <2>12
  <1> QED  BY <1>1, <1>2

-----------------------------------------------------------------------------
(* Splitting. *)

LEMMA Division ==
    ASSUME NEW a \in Nat, NEW m \in Nat, m >= 1
    PROVE  /\ a \div m \in Nat
           /\ (a \div m) * m <= a /\ a < (a \div m) * m + m
  OBVIOUS

LEMMA Multiples ==
    ASSUME NEW a \in Nat, NEW b \in Nat, NEW m \in Nat, a <= b
    PROVE  a * m \in Nat /\ b * m \in Nat /\ a * m <= b * m /\ (a + 1) * m = a * m + m
  <1>1. a * m \in Nat /\ b * m \in Nat /\ (a + 1) * m = a * m + m
    OBVIOUS
  <1>2. b - a \in Nat /\ (b - a) * m \in Nat /\ b * m = a * m + (b - a) * m
    OBVIOUS
  <1> QED  BY <1>1, <1>2

\* The bytes that are buffered, with the newline that the next line needs.
Used(c) == IF c.buffer = <<>> THEN 0 ELSE Len(Join(c.buffer)) + 1

LEMMA UsedFacts ==
    ASSUME NEW c \in CodecType, c.buffer # <<>> => Len(Join(c.buffer)) < c.conf.max
    PROVE  /\ Used(c) \in Nat /\ Used(c) <= c.conf.max
           /\ \A t \in Texts : /\ Append(c.buffer, t) \in Buffers /\ Append(c.buffer, t) # <<>>
                               /\ Join(Append(c.buffer, t)) \in Texts
                               /\ Len(Join(Append(c.buffer, t))) = Used(c) + Len(t)
                               /\ Content(Join(Append(c.buffer, t)))
                                    = IF c.buffer = <<>> THEN Content(t) ELSE Content(Join(c.buffer)) \o Content(t)
  <1>1. c.buffer \in Buffers /\ c.conf.max \in Nat /\ c.conf.max >= 1
    BY CodecFields
  <1>2. CASE c.buffer = <<>>
    <2>1. Used(c) = 0
      BY <1>2 DEF Used
    <2>2. ASSUME NEW t \in Texts
          PROVE  /\ Append(c.buffer, t) \in Buffers /\ Append(c.buffer, t) # <<>>
                 /\ Join(Append(c.buffer, t)) = t /\ Len(t) \in Nat
      <3>1. Append(c.buffer, t) = <<t>>
        BY <1>2
      <3>2. Len(t) \in Nat
        BY DEF Texts
      <3> QED  BY <3>1, <3>2, JoinOne
    <2>3. Used(c) \in Nat /\ Used(c) <= c.conf.max
      BY <1>1, <2>1
    <2>4. \A t \in Texts : Len(t) = Used(c) + Len(t)
      BY <2>1, <2>2
    <2> QED  BY <1>2, <2>2, <2>3, <2>4, Zenon
  <1>3. CASE c.buffer # <<>>
    <2>1. Join(c.buffer) \in Texts /\ Len(Join(c.buffer)) \in Nat
      BY <1>1, <1>3, JoinText
    <2>2. Used(c) = Len(Join(c.buffer)) + 1
      BY <1>3 DEF Used
    <2>3. ASSUME NEW t \in Texts
          PROVE  /\ Append(c.buffer, t) \in Buffers /\ Append(c.buffer, t) # <<>>
                 /\ Join(Append(c.buffer, t)) = Glued(Join(c.buffer), t)
                 /\ Glued(Join(c.buffer), t) \in Texts /\ Len(Glued(Join(c.buffer), t)) = Len(Join(c.buffer)) + 1 + Len(t)
                 /\ Content(Glued(Join(c.buffer), t)) = Content(Join(c.buffer)) \o Content(t)
      BY <1>1, <1>3, <2>1, JoinMore, GluedText
    <2>4. Used(c) \in Nat /\ Used(c) <= c.conf.max
      BY <1>1, <1>3, <2>1, <2>2
    <2> QED  BY <1>3, <2>2, <2>3, <2>4, Zenon
  <1> QED  BY <1>2, <1>3

\* What fits is stored as it is.
LEMMA SplitFree ==
    ASSUME NEW c \in CodecType, NEW e \in EventType, Used(c) \in Nat, Used(c) + Len(e.text) < c.conf.max
    PROVE  Split(c, e) = [codec |-> c, text |-> e.text, events |-> <<>>]
  <1> DEFINE over == Used(c) + Len(e.text) - c.conf.max
  <1>1. e.text \in Texts /\ Len(e.text) \in Nat /\ c.conf.max \in Nat
    BY CodecFields DEF EventType, Texts
  <1>2. over < 0
    BY <1>1
  <1>3. over < 0 => (IF over < 0 THEN 0 ELSE 1 + (over \div c.conf.max)) = 0
    OBVIOUS
  <1> QED  BY <1>2, <1>3, Zenon DEF Split, Used

\* What Split makes of codec and event: events in a row from the start of what
\* is buffered, and a rest that fits.
SplitOK(c, e, s) ==
    /\ s.codec \in CodecType /\ s.codec.conf = c.conf /\ s.text \in Texts
    /\ s.codec.startOffset <= e.end
    /\ Append(s.codec.buffer, s.text) \in Buffers /\ Append(s.codec.buffer, s.text) # <<>>
    /\ Len(Join(Append(s.codec.buffer, s.text))) < c.conf.max
    /\ Chained(s.events, c.startOffset, s.codec.startOffset)
    /\ c.lastOffset = c.startOffset => s.codec.lastOffset = s.codec.startOffset

LEMMA SplitFacts ==
    ASSUME NEW c \in CodecType, NEW e \in EventType, Len(e.text) <= e.end - e.start, c.startOffset <= e.start,
           c.buffer # <<>> => Len(Join(c.buffer)) < c.conf.max
    PROVE  SplitOK(c, e, Split(c, e))
  <1> DEFINE max == c.conf.max
             used == Used(c)
             n == Len(e.text)
             over == used + n - max
             P == IF over < 0 THEN 0 ELSE 1 + (over \div max)
             Cut(j) == max - used + (j - 1) * max
             End(j) == e.end - (n - Cut(j))
             Piece(j) == IF j = 1
                         THEN Event(c.startOffset, End(1), Join(Append(c.buffer, SubSeq(e.text, 1, Cut(1)))))
                         ELSE Event(End(j - 1), End(j), SubSeq(e.text, Cut(j - 1) + 1, Cut(j)))
             none == <<>>
             d == [c EXCEPT !.buffer = none, !.lastOffset = End(P), !.startOffset = End(P)]
             rest == SubSeq(e.text, Cut(P) + 1, n)
             q == [j \in 1 .. P |-> Piece(j)]
  <1>1. /\ e.start \in Nat /\ e.end \in Nat /\ e.text \in Texts /\ n \in Nat
        /\ max \in Nat /\ max >= 1 /\ c.conf \in CodecConf /\ c.startOffset \in Nat /\ c.endOffset \in Nat
    BY CodecFields DEF EventType, Texts
  <1>2. /\ used \in Nat /\ used <= max
        /\ \A t \in Texts : /\ Append(c.buffer, t) \in Buffers /\ Append(c.buffer, t) # <<>>
                            /\ Join(Append(c.buffer, t)) \in Texts /\ Len(Join(Append(c.buffer, t))) = used + Len(t)
    BY UsedFacts
  <1>3. Split(c, e) = IF P = 0 THEN [codec |-> c, text |-> e.text, events |-> none]
                      ELSE [codec |-> d, text |-> rest, events |-> q]
    BY Zenon DEF Split, Used
  <1> HIDE DEF used, n, max
  <1>4. CASE over < 0
    <2>1. P = 0
      BY <1>4
    <2>2. Split(c, e) = [codec |-> c, text |-> e.text, events |-> none]
      BY <1>3, <2>1, Zenon
    <2>3. Split(c, e).codec = c /\ Split(c, e).text = e.text /\ Split(c, e).events = none
      BY <2>2
    <2>4. Len(Join(Append(c.buffer, e.text))) < max
      <3>1. Len(Join(Append(c.buffer, e.text))) = used + n
        BY <1>1, <1>2 DEF n
      <3> QED  BY <1>1, <1>2, <1>4, <3>1
    <2>5. c.startOffset <= e.end
      BY <1>1 DEF n
    <2> QED  BY <1>1, <1>2, <2>3, <2>4, <2>5, ChainedNone DEF SplitOK, max
  <1>5. CASE ~(over < 0)
    <2> DEFINE k == over \div max
    <2>0. over \in Nat
      BY <1>1, <1>2, <1>5
    <2>1. over \in Nat /\ k \in Nat /\ k * max <= over /\ over < k * max + max
      <3> HIDE DEF over
      <3> QED  BY <1>1, <2>0, Division
    <2>2. P = 1 + k
      BY <1>5
    <2> HIDE DEF k
    <2>3. P \in Nat /\ P >= 1 /\ P # 0 /\ P - 1 = k
      BY <2>1, <2>2
    <2>4. Split(c, e) = [codec |-> d, text |-> rest, events |-> q]
      BY <1>3, <2>3, Zenon
    <2> HIDE DEF P
    <2>5. Split(c, e).codec = d /\ Split(c, e).text = rest /\ Split(c, e).events = q
      <3> HIDE DEF d, rest, q
      <3> QED  BY <2>4
    <2>6. \A j \in 1 .. P : Cut(j) \in Nat /\ Cut(j) <= n
      <3> TAKE j \in 1 .. P
      <3>1. j - 1 \in Nat /\ j - 1 <= k
        BY <2>3
      <3> DEFINE i == j - 1  im == i * max  km == k * max
      <3>2. im \in Nat /\ im <= km /\ km \in Nat
        <4> HIDE DEF i
        <4> QED  BY <1>1, <2>1, <3>1, Multiples DEF i
      <3>3. Cut(j) = max - used + im /\ km <= over
        BY <2>1
      <3> HIDE DEF im, km, Cut
      <3> QED  BY <1>1, <1>2, <3>2, <3>3
    <2>7. n - Cut(P) < max
      <3> DEFINE km == k * max
      <3>1. Cut(P) = max - used + km /\ km \in Nat /\ km <= over /\ over < km + max
        BY <1>1, <2>1, <2>3
      <3> HIDE DEF km, Cut
      <3> QED  BY <1>1, <1>2, <3>1
    <2>8. \A j \in 1 .. P : j # 1 => j - 1 \in 1 .. P /\ Cut(j) = Cut(j - 1) + max
      <3> TAKE j \in 1 .. P
      <3>0. CASE j = 1
        BY <3>0
      <3>1. CASE j # 1
        <4>1. j - 2 \in Nat /\ (j - 2) + 1 = j - 1 /\ (j - 1) - 1 = j - 2 /\ j - 1 \in 1 .. P
          BY <2>3, <3>1
        <4> DEFINE i == j - 2
        <4>2. (i + 1) * max = i * max + max /\ i * max \in Nat
          <5>1. i \in Nat /\ i <= i
            BY <4>1
          <5> HIDE DEF i
          <5> QED  BY <1>1, <5>1, Multiples
        <4>3. Cut(j) = max - used + (i + 1) * max /\ Cut(j - 1) = max - used + i * max
          BY <4>1
        <4> DEFINE im == i * max
        <4>4. Cut(j) = max - used + (im + max) /\ Cut(j - 1) = max - used + im /\ im \in Nat
          BY <4>2, <4>3
        <4> HIDE DEF im, Cut
        <4> QED  BY <1>1, <1>2, <4>1, <4>4
      <3> QED  BY <3>0, <3>1
    <2>9. 1 \in 1 .. P /\ P \in 1 .. P
      BY <2>3
    <2>10. Cut(1) = max - used
      BY <1>1, <1>2
    <2> HIDE DEF Cut
    <2>11. \A j \in 1 .. P : End(j) \in Nat /\ e.start <= End(j) /\ End(j) <= e.end
      <3> TAKE j \in 1 .. P
      <3>1. Cut(j) \in Nat /\ Cut(j) <= n
        BY <2>6
      <3>2. n <= e.end - e.start
        BY DEF n
      <3> QED  BY <1>1, <3>1, <3>2
    <2>12. \A j \in 1 .. P : j # 1 => End(j - 1) <= End(j)
      <3> TAKE j \in 1 .. P
      <3> SUFFICES ASSUME j # 1 PROVE End(j - 1) <= End(j)
        OBVIOUS
      <3>1. j - 1 \in 1 .. P /\ Cut(j) = Cut(j - 1) + max
        BY <2>8
      <3>2. Cut(j) \in Nat /\ Cut(j - 1) \in Nat
        BY <2>6, <3>1
      <3> QED  BY <1>1, <3>1, <3>2
    <2> HIDE DEF End
    <2>13. \A i \in 1 .. n : e.text[i] \in Bytes
      BY <1>1, ElementOfSeq DEF Texts, n
    <2>14. \A a \in Nat, b \in Nat : b <= n => /\ SubSeq(e.text, a + 1, b) \in Texts
                                               /\ Len(SubSeq(e.text, a + 1, b)) = IF a + 1 <= b THEN b - a ELSE 0
      <3> TAKE a \in Nat, b \in Nat
      <3> SUFFICES ASSUME b <= n PROVE /\ SubSeq(e.text, a + 1, b) \in Texts
                                       /\ Len(SubSeq(e.text, a + 1, b)) = IF a + 1 <= b THEN b - a ELSE 0
        OBVIOUS
      <3> DEFINE a1 == a + 1
      <3>1. a1 \in Int /\ b \in Int /\ \A i \in a1 .. b : e.text[i] \in Bytes
        BY <1>1, <2>13
      <3>2. /\ SubSeq(e.text, a1, b) \in Seq(Bytes)
            /\ Len(SubSeq(e.text, a1, b)) = IF a1 <= b THEN b - a1 + 1 ELSE 0
        <4> HIDE DEF a1
        <4> QED  BY <3>1, SubSeqProperties
      <3>3. b - a1 + 1 = b - a
        OBVIOUS
      <3> QED  BY <3>2, <3>3 DEF Texts
    <2>15. rest \in Texts /\ Len(rest) < max
      <3>1. Cut(P) \in Nat /\ Cut(P) <= n
        BY <2>6, <2>9
      <3>2. rest \in Texts /\ Len(rest) = IF Cut(P) + 1 <= n THEN n - Cut(P) ELSE 0
        BY <1>1, <2>14, <3>1
      <3> QED  BY <1>1, <2>7, <3>1, <3>2
    <2>16. /\ d \in CodecType /\ d.conf = c.conf /\ d.buffer = none
           /\ d.lastOffset = End(P) /\ d.startOffset = End(P)
      <3>1. End(P) \in Nat /\ none \in Buffers
        BY <2>9, <2>11 DEF Buffers
      <3>2. d = CodecOf(c.conf, End(P), End(P), c.endOffset, none)
        BY SetAll
      <3> QED  BY <1>1, <3>1, <3>2 DEF CodecOf, CodecType
    <2>17. \A j \in 1 .. P : /\ Piece(j) \in EventType /\ Piece(j).end = End(j)
                             /\ Piece(j).start = IF j = 1 THEN c.startOffset ELSE End(j - 1)
                             /\ Piece(j).start <= Piece(j).end
      <3> TAKE j \in 1 .. P
      <3>1. CASE j = 1
        <4> DEFINE t == Join(Append(c.buffer, SubSeq(e.text, 1, Cut(1))))
        <4>1. SubSeq(e.text, 0 + 1, Cut(1)) \in Texts /\ 0 + 1 = 1
          BY <2>6, <2>9, <2>14
        <4>2. t \in Texts
          BY <1>2, <4>1
        <4>3. End(1) \in Nat /\ e.start <= End(1)
          BY <2>9, <2>11
        <4> HIDE DEF t
        <4>4. /\ Event(c.startOffset, End(1), t) \in EventType /\ Event(c.startOffset, End(1), t).end = End(1)
              /\ Event(c.startOffset, End(1), t).start = c.startOffset
          BY <1>1, <4>2, <4>3, EventFields
        <4>5. Piece(j) = Event(c.startOffset, End(1), t)
          BY <3>1 DEF t
        <4>6. c.startOffset <= End(1)
          BY <1>1, <4>3
        <4> QED  BY <3>1, <4>4, <4>5, <4>6
      <3>2. CASE j # 1
        <4> DEFINE t == SubSeq(e.text, Cut(j - 1) + 1, Cut(j))
        <4>1. j - 1 \in 1 .. P
          BY <2>8, <3>2
        <4>2. t \in Texts
          BY <2>6, <2>14, <4>1
        <4>3. End(j - 1) \in Nat /\ End(j) \in Nat /\ End(j - 1) <= End(j)
          BY <2>11, <2>12, <3>2, <4>1
        <4> HIDE DEF t
        <4>4. /\ Event(End(j - 1), End(j), t) \in EventType /\ Event(End(j - 1), End(j), t).end = End(j)
              /\ Event(End(j - 1), End(j), t).start = End(j - 1)
          BY <4>2, <4>3, EventFields
        <4>5. Piece(j) = Event(End(j - 1), End(j), t)
          BY <3>2 DEF t
        <4> QED  BY <3>2, <4>3, <4>4, <4>5
      <3> QED  BY <3>1, <3>2
    <2> HIDE DEF Piece
    <2>18. q \in Seq(EventType) /\ Len(q) = P /\ q # <<>> /\ \A j \in 1 .. P : q[j] = Piece(j)
      <3>1. q \in [1 .. P -> EventType]
        BY <2>17
      <3>2. q \in Seq(EventType) /\ Len(q) = P
        BY <2>3, <3>1
      <3>3. q # <<>>
        BY <2>3, <3>2
      <3> QED  BY <3>2, <3>3
    <2> HIDE DEF q
    <2>19. Chained(q, c.startOffset, End(P))
      <3>1. q[1].start = c.startOffset /\ q[Len(q)].end = End(P)
        BY <2>9, <2>17, <2>18
      <3>2. \A j \in 1 .. Len(q) : q[j].start <= q[j].end
        BY <2>17, <2>18
      <3>3. \A j \in 1 .. Len(q) - 1 : q[j + 1].start = q[j].end
        <4> TAKE j \in 1 .. Len(q) - 1
        <4>1. j \in 1 .. P /\ j + 1 \in 1 .. P /\ j + 1 # 1 /\ (j + 1) - 1 = j
          BY <2>3, <2>18
        <4>2. q[j + 1].start = End((j + 1) - 1) /\ q[j].end = End(j)
          BY <2>17, <2>18, <4>1
        <4> QED  BY <4>1, <4>2
      <3> QED  BY <2>18, <3>1, <3>2, <3>3 DEF Chained
    <2>20. Append(none, rest) \in Buffers /\ Append(none, rest) # <<>> /\ Join(Append(none, rest)) = rest
      <3>1. Append(none, rest) = <<rest>>
        OBVIOUS
      <3> QED  BY <2>15, <3>1, JoinOne
    <2>21. End(P) <= e.end
      BY <2>9, <2>11
    <2> HIDE DEF d, rest, none
    <2> QED  BY <2>5, <2>15, <2>16, <2>19, <2>20, <2>21 DEF SplitOK, max
  <1> QED  BY <1>4, <1>5

-----------------------------------------------------------------------------
(* Events. *)

\* The codec goes from c, at offset o, to d, at offset p, and hands on q.
StepOK(c, o, d, p, q) ==
    /\ d \in CodecType /\ d.conf = c.conf /\ Buffered(d, p) /\ q \in Seq(EventType)
    /\ Tight(c, o) => Tight(d, p) /\ Chained(q, c.lastOffset, d.lastOffset)

\* What it holds and hands on is what the file f has, if this was so before.
KeepsFaith(c, d, q, f) == BufferFaithful(c, f) => BufferFaithful(d, f) /\ AllFaithful(q, f)

LEMMA StepsInARow ==
    ASSUME NEW c, NEW o, NEW d, NEW p, NEW q, NEW e, NEW r, NEW s, StepOK(c, o, d, p, q), StepOK(d, p, e, r, s)
    PROVE  /\ StepOK(c, o, e, r, q \o s)
           /\ \A f : KeepsFaith(c, d, q, f) /\ KeepsFaith(d, e, s, f) => KeepsFaith(c, e, q \o s, f)
  <1>1. q \in Seq(EventType) /\ s \in Seq(EventType)
    BY DEF StepOK
  <1>2. q \o s \in Seq(EventType)
    BY <1>1, ConcatProperties
  <1>3. ASSUME Tight(c, o) PROVE Tight(e, r) /\ Chained(q \o s, c.lastOffset, e.lastOffset)
    <2>1. Tight(e, r) /\ Chained(q, c.lastOffset, d.lastOffset) /\ Chained(s, d.lastOffset, e.lastOffset)
      BY <1>3 DEF StepOK
    <2> QED  BY <2>1, ChainedConcat
  <1>4. StepOK(c, o, e, r, q \o s)
    BY <1>2, <1>3 DEF StepOK
  <1>5. \A f : AllFaithful(q, f) /\ AllFaithful(s, f) => AllFaithful(q \o s, f)
    BY <1>1, FaithfulConcat
  <1> QED  BY <1>4, <1>5 DEF KeepsFaith

LEMMA NoStep ==
    ASSUME NEW c \in CodecType, NEW o, Buffered(c, o)
    PROVE  StepOK(c, o, c, o, <<>>) /\ \A f : KeepsFaith(c, c, <<>>, f)
  <1>1. <<>> \in Seq(EventType)
    OBVIOUS
  <1> QED  BY <1>1, ChainedNone, FaithfulNone DEF StepOK, KeepsFaith

LEMMA FlushStep ==
    ASSUME NEW c \in CodecType, NEW o \in Nat, Buffered(c, o)
    PROVE  /\ StepOK(c, o, Flush(c).codec, o, Flush(c).events) /\ Flush(c).codec.buffer = <<>>
           /\ \A f : KeepsFaith(c, Flush(c).codec, Flush(c).events, f)
  <1> DEFINE d == Flush(c).codec
             q == Flush(c).events
  <1>1. FlushOK(c, o, d, q)
    BY FlushFacts
  <1> HIDE DEF d, q
  <1>2. Buffered(d, o) /\ d.buffer = <<>> /\ \A f : BufferFaithful(d, f)
    BY <1>1 DEF FlushOK, Buffered, BufferFaithful
  <1>3. StepOK(c, o, d, o, q) /\ \A f : KeepsFaith(c, d, q, f)
    BY <1>1, <1>2 DEF FlushOK, StepOK, KeepsFaith
  <1> QED  BY <1>2, <1>3 DEF d, q

\* A line e that follows the offset o and is not shorter than its text.
NextLineAt(e, o) ==
    e \in EventType /\ e.start = o /\ e.start < e.end /\ Len(e.text) <= e.end - e.start

\* The bytes of a file between three offsets.
LEMMA ContentBetween ==
    ASSUME NEW f \in Texts, NEW a \in Nat, NEW b \in Nat, NEW c \in Nat, a <= b, b <= c, c <= Len(f)
    PROVE  Content(SubSeq(f, a + 1, c)) = Content(SubSeq(f, a + 1, b)) \o Content(SubSeq(f, b + 1, c))
  <1> DEFINE m == a + 1
  <1>1. /\ m \in 1 .. Len(f) + 1 /\ b \in m - 1 .. Len(f) /\ c \in b .. Len(f) /\ Len(f) \in Nat
        /\ \A i \in 1 .. Len(f) : f[i] \in Bytes
    BY ElementOfSeq DEF Texts
  <1>2. m \in Int /\ b \in Int /\ b + 1 \in Int /\ c \in Int /\ (\A i \in m .. b : f[i] \in Bytes) /\ \A i \in b + 1 .. c : f[i] \in Bytes
    BY <1>1
  <1>3. SubSeq(f, m, b) \in Texts /\ SubSeq(f, b + 1, c) \in Texts
    <2> HIDE DEF m
    <2>1. SubSeq(f, m, b) \in Texts
      BY <1>2, SubSeqProperties DEF Texts
    <2>2. SubSeq(f, b + 1, c) \in Texts
      BY <1>2, SubSeqProperties DEF Texts
    <2> QED  BY <2>1, <2>2
  <1>4. SubSeq(f, m, b) \o SubSeq(f, b + 1, c) = SubSeq(f, m, c)
    <2> HIDE DEF m
    <2>1. f \in Seq(Bytes)
      BY DEF Texts
    <2> QED  BY <1>1, <2>1, ConcatAdjacentSubSeq
  <1>5. Content(SubSeq(f, m, b) \o SubSeq(f, b + 1, c)) = Content(SubSeq(f, m, b)) \o Content(SubSeq(f, b + 1, c))
    BY <1>3, ContentConcat
  <1> QED  BY <1>4, <1>5

\* Storing a line: what multiline does between its two possible flushes.
Opened(c, e) == IF c.buffer = <<>> THEN [c EXCEPT !.startOffset = e.start] ELSE c
Stored(c, e) ==
    LET s == Split(Opened(c, e), e)
    IN  [s.codec EXCEPT !.endOffset = e.end, !.buffer = Append(@, s.text)]

LEMMA OpenedFacts ==
    ASSUME NEW c \in CodecType, NEW e \in EventType, Buffered(c, e.start)
    PROVE  LET d == Opened(c, e)
           IN  /\ d \in CodecType /\ d.conf = c.conf /\ d.buffer = c.buffer /\ d.lastOffset = c.lastOffset
               /\ d.startOffset <= e.start /\ d.endOffset = c.endOffset
               /\ d.buffer # <<>> => Len(Join(d.buffer)) < d.conf.max
               /\ d.startOffset = IF c.buffer = <<>> THEN e.start ELSE c.startOffset
               /\ Tight(c, e.start) => d.lastOffset = d.startOffset
  <1>1. /\ c.conf \in CodecConf /\ c.lastOffset \in Nat /\ c.startOffset \in Nat /\ c.endOffset \in Nat /\ c.buffer \in Buffers
        /\ e.start \in Nat
    BY CodecFields DEF EventType
  <1>2. CASE c.buffer = <<>>
    <2> DEFINE d == CodecOf(c.conf, c.lastOffset, e.start, c.endOffset, c.buffer)
    <2>1. Opened(c, e) = d
      BY <1>2, SetStart DEF Opened
    <2>2. d \in CodecType /\ d.conf = c.conf /\ d.buffer = c.buffer /\ d.lastOffset = c.lastOffset /\ d.startOffset = e.start /\ d.endOffset = c.endOffset
      BY <1>1 DEF CodecOf, CodecType
    <2> HIDE DEF d
    <2> QED  BY <1>1, <1>2, <2>1, <2>2 DEF Tight
  <1>3. CASE c.buffer # <<>>
    <2>1. Opened(c, e) = c
      BY <1>3 DEF Opened
    <2> QED  BY <1>1, <1>3, <2>1 DEF Buffered, Tight
  <1> QED  BY <1>2, <1>3

LEMMA StoredStep ==
    ASSUME NEW c \in CodecType, NEW e, NextLineAt(e, e.start), Multiline(c), Buffered(c, e.start)
    PROVE  /\ StepOK(c, e.start, Stored(c, e), e.end, Split(Opened(c, e), e).events)
           /\ \A f \in Texts : Faithful(e, f) /\ 2 * Len(f) < c.conf.max
                                  => KeepsFaith(c, Stored(c, e), Split(Opened(c, e), e).events, f)
  <1> DEFINE o == Opened(c, e)
             s == Split(o, e)
             b == Append(s.codec.buffer, s.text)
             d == CodecOf(s.codec.conf, s.codec.lastOffset, s.codec.startOffset, e.end, b)
  <1>1. e \in EventType /\ e.start < e.end /\ Len(e.text) <= e.end - e.start /\ e.start \in Nat /\ e.end \in Nat /\ e.text \in Texts /\ Len(e.text) \in Nat
    BY DEF NextLineAt, EventType, Texts
  <1>2. /\ o \in CodecType /\ o.conf = c.conf /\ o.buffer = c.buffer /\ o.lastOffset = c.lastOffset
        /\ o.startOffset <= e.start /\ o.endOffset = c.endOffset
        /\ o.buffer # <<>> => Len(Join(o.buffer)) < o.conf.max
        /\ o.startOffset = IF c.buffer = <<>> THEN e.start ELSE c.startOffset
        /\ Tight(c, e.start) => o.lastOffset = o.startOffset
    BY <1>1, OpenedFacts
  <1> HIDE DEF o
  <1>3. SplitOK(o, e, s)
    BY <1>1, <1>2, SplitFacts
  <1>4. /\ s.codec \in CodecType /\ s.codec.conf = c.conf /\ s.codec.startOffset <= e.end /\ b \in Buffers /\ b # <<>>
        /\ Len(Join(b)) < c.conf.max /\ Chained(s.events, o.startOffset, s.codec.startOffset)
        /\ o.lastOffset = o.startOffset => s.codec.lastOffset = s.codec.startOffset
        /\ s.text \in Texts
    BY <1>2, <1>3 DEF SplitOK
  <1>5. Stored(c, e) = d
    <2>1. Stored(c, e) = [s.codec EXCEPT !.endOffset = e.end, !.buffer = b]
      BY Zenon DEF Stored, o
    <2> DEFINE sc == s.codec
               en == e.end
    <2>2. sc \in CodecType
      BY <1>4
    <2> HIDE DEF b, s, sc, en
    <2>3. [sc EXCEPT !.endOffset = en, !.buffer = b] = CodecOf(sc.conf, sc.lastOffset, sc.startOffset, en, b)
      BY <2>2, SetBufferLast
    <2> QED  BY <2>1, <2>3, Zenon DEF sc, en
  <1>6. /\ d \in CodecType /\ d.conf = c.conf /\ d.lastOffset = s.codec.lastOffset /\ d.startOffset = s.codec.startOffset
        /\ d.endOffset = e.end /\ d.buffer = b
    <2> HIDE DEF b, s
    <2>1. /\ s.codec.conf \in CodecConf /\ s.codec.lastOffset \in Nat /\ s.codec.startOffset \in Nat
      BY <1>4, CodecFields
    <2> QED  BY <1>1, <1>4, <2>1 DEF CodecOf, CodecType
  <1>7. StepOK(c, e.start, d, e.end, s.events)
    <2> HIDE DEF d, s, b
    <2>1. Buffered(d, e.end)
      BY <1>4, <1>6 DEF Buffered, Multiline
    <2>2. s.events \in Seq(EventType)
      BY <1>4 DEF Chained
    <2>3. ASSUME Tight(c, e.start) PROVE Tight(d, e.end) /\ Chained(s.events, c.lastOffset, d.lastOffset)
      BY <1>2, <1>4, <1>6, <2>3 DEF Tight
    <2> QED  BY <1>6, <2>1, <2>2, <2>3 DEF StepOK
  <1>8. ASSUME NEW f \in Texts, Faithful(e, f), 2 * Len(f) < c.conf.max, BufferFaithful(c, f)
        PROVE  BufferFaithful(d, f) /\ AllFaithful(s.events, f)
    <2> DEFINE len == Len(e.text)
               held == Len(Join(c.buffer))
    <2>1. /\ Len(f) \in Nat /\ e.end <= Len(f) /\ Content(e.text) = Content(SubSeq(f, e.start + 1, e.end))
          /\ c.conf.max \in Nat /\ c.startOffset \in Nat /\ c.endOffset \in Nat
      BY <1>8, CodecFields DEF Faithful, Texts
    <2>2. /\ Used(o) \in Nat /\ Used(o) = IF c.buffer = <<>> THEN 0 ELSE held + 1
          /\ Append(c.buffer, e.text) \in Buffers /\ Append(c.buffer, e.text) # <<>>
          /\ Len(Join(Append(c.buffer, e.text))) = Used(o) + len
          /\ Content(Join(Append(c.buffer, e.text)))
               = IF c.buffer = <<>> THEN Content(e.text) ELSE Content(Join(c.buffer)) \o Content(e.text)
      <3>1. Used(o) = IF c.buffer = <<>> THEN 0 ELSE held + 1
        BY <1>2 DEF Used
      <3> QED  BY <1>1, <1>2, <3>1, UsedFacts
    <2>3. c.buffer # <<>> => /\ c.startOffset <= c.endOffset /\ c.endOffset = e.start /\ held \in Nat
                             /\ held <= 2 * (c.endOffset - c.startOffset)
                             /\ Content(Join(c.buffer)) = Content(SubSeq(f, c.startOffset + 1, e.start))
      <3>1. c.buffer # <<>> => held \in Nat
        BY CodecFields, JoinText
      <3> QED  BY <1>8, <3>1 DEF Buffered, BufferFaithful
    <2> HIDE DEF held
    <2>4. Used(o) + len <= 2 * (e.end - o.startOffset)
      <3>1. CASE c.buffer = <<>>
        BY <1>1, <1>2, <2>2, <3>1
      <3>2. CASE c.buffer # <<>>
        <4> DEFINE x == c.startOffset  y == e.start  z == e.end
        <4>1. x \in Nat /\ y \in Nat /\ z \in Nat /\ x <= y /\ y < z /\ len \in Nat /\ held \in Nat /\ len <= z - y
          BY <1>1, <2>1, <2>3, <3>2
        <4>2. held <= 2 * (y - x) /\ Used(o) = held + 1 /\ o.startOffset = x
          BY <1>2, <2>2, <2>3, <3>2
        <4> HIDE DEF len, x, y, z
        <4>3. held + 1 + len <= 2 * (z - x)
          BY <4>1, <4>2
        <4> QED  BY <4>2, <4>3 DEF z
      <3> QED  BY <3>1, <3>2
    <2>5. o.startOffset \in Nat /\ 2 * (e.end - o.startOffset) <= 2 * Len(f)
      BY <1>1, <1>2, <2>1, CodecFields
    <2>6. Used(o) + len < c.conf.max
      BY <1>1, <1>8, <2>1, <2>2, <2>4, <2>5
    <2>7. s = [codec |-> o, text |-> e.text, events |-> <<>>]
      BY <1>1, <1>2, <2>2, <2>6, SplitFree
    <2>8. s.codec = o /\ s.text = e.text /\ s.events = <<>>
      <3> HIDE DEF s
      <3> QED  BY <2>7
    <2> HIDE DEF s
    <2>9. b = Append(c.buffer, e.text)
      BY <1>2, <2>8
    <2> HIDE DEF b, d
    <2>10. Content(Join(b)) = Content(SubSeq(f, o.startOffset + 1, e.end))
      <3>1. CASE c.buffer = <<>>
        BY <1>2, <2>1, <2>2, <2>9, <3>1
      <3>2. CASE c.buffer # <<>>
        <4>1. Content(Join(b)) = Content(SubSeq(f, c.startOffset + 1, e.start)) \o Content(SubSeq(f, e.start + 1, e.end))
          BY <2>1, <2>2, <2>3, <2>9, <3>2
        <4> DEFINE x == c.startOffset  y == e.start  z == e.end
        <4>2. x \in Nat /\ y \in Nat /\ z \in Nat /\ x <= y /\ y <= z /\ z <= Len(f)
          BY <1>1, <2>1, <2>3, <3>2
        <4> HIDE DEF x, y, z
        <4>3. Content(SubSeq(f, x + 1, z)) = Content(SubSeq(f, x + 1, y)) \o Content(SubSeq(f, y + 1, z))
          BY <4>2, ContentBetween
        <4>4. o.startOffset = x
          BY <1>2, <3>2 DEF x
        <4> QED  BY <4>1, <4>3, <4>4 DEF x, y, z
      <3> QED  BY <3>1, <3>2
    <2>11. BufferFaithful(d, f)
      BY <1>6, <2>1, <2>2, <2>4, <2>8, <2>9, <2>10 DEF BufferFaithful
    <2> QED  BY <2>8, <2>11, FaithfulNone
  <1>9. \A f \in Texts : Faithful(e, f) /\ 2 * Len(f) < c.conf.max => KeepsFaith(c, d, s.events, f)
    BY <1>8 DEF KeepsFaith
  <1> QED  BY <1>5, <1>7, <1>9 DEF o

\* What an event does to a codec at the offset where the event starts.
EventOK(c, e, d, q) ==
    /\ StepOK(c, e.start, d, e.end, q)
    /\ \A f \in Texts : Faithful(e, f) /\ (Multiline(c) => 2 * Len(f) < c.conf.max) => KeepsFaith(c, d, q, f)

LEMMA MultilineStep ==
    ASSUME NEW c \in CodecType, NEW e, NextLineAt(e, e.start), Multiline(c), Buffered(c, e.start)
    PROVE  EventOK(c, e, MultilineEvent(c, e).codec, MultilineEvent(c, e).events)
  <1> DEFINE none == <<>>
             before == IF c.conf.kind = "previous" /\ ~Match(e.text) THEN Flush(c) ELSE Result(c, none)
             b == before.codec
             s == Stored(b, e)
             q == Split(Opened(b, e), e).events
             after == IF c.conf.kind = "next" /\ ~Match(e.text) THEN Flush(s) ELSE Result(s, none)
             events == before.events \o q \o after.events
  <1>1. MultilineEvent(c, e) = Result(after.codec, events)
    BY Zenon DEF MultilineEvent, Opened, Stored
  <1>2. MultilineEvent(c, e).codec = after.codec /\ MultilineEvent(c, e).events = events
    <2> HIDE DEF after, events
    <2> QED  BY <1>1 DEF Result
  <1>3. e.start \in Nat /\ e.end \in Nat
    BY DEF NextLineAt, EventType
  <1>4. StepOK(c, e.start, b, e.start, before.events) /\ \A f : KeepsFaith(c, b, before.events, f)
    <2>1. CASE c.conf.kind = "previous" /\ ~Match(e.text)
      <3>1. before = Flush(c)
        BY <2>1, Zenon
      <3> HIDE DEF before
      <3> QED  BY <1>3, <3>1, FlushStep
    <2>2. CASE ~(c.conf.kind = "previous" /\ ~Match(e.text))
      <3>1. before = Result(c, none)
        BY <2>2, Zenon
      <3>2. before.codec = c /\ before.events = none
        <4> HIDE DEF before, none
        <4> QED  BY <3>1 DEF Result
      <3> HIDE DEF before
      <3> QED  BY <3>2, NoStep
    <2> QED  BY <2>1, <2>2
  <1> HIDE DEF before
  <1>5. b \in CodecType /\ b.conf = c.conf /\ Buffered(b, e.start) /\ Multiline(b)
    BY <1>4 DEF StepOK, Multiline
  <1>6. /\ StepOK(b, e.start, s, e.end, q)
        /\ \A f \in Texts : Faithful(e, f) /\ 2 * Len(f) < b.conf.max => KeepsFaith(b, s, q, f)
    <2> HIDE DEF b
    <2> QED  BY <1>5, StoredStep
  <1>7. s \in CodecType /\ Buffered(s, e.end)
    BY <1>6 DEF StepOK
  <1> HIDE DEF s, q, b
  <1>8. StepOK(s, e.end, after.codec, e.end, after.events) /\ \A f : KeepsFaith(s, after.codec, after.events, f)
    <2>1. CASE c.conf.kind = "next" /\ ~Match(e.text)
      <3>1. after = Flush(s)
        BY <2>1, Zenon
      <3> HIDE DEF after
      <3> QED  BY <1>3, <1>7, <3>1, FlushStep
    <2>2. CASE ~(c.conf.kind = "next" /\ ~Match(e.text))
      <3>1. after = Result(s, none)
        BY <2>2, Zenon
      <3>2. after.codec = s /\ after.events = none
        <4> HIDE DEF after, none
        <4> QED  BY <3>1 DEF Result
      <3> HIDE DEF after
      <3> QED  BY <1>7, <3>2, NoStep
    <2> QED  BY <2>1, <2>2
  <1> DEFINE p == before.events
             d == after.codec
             r == after.events
  <1>9. StepOK(c, e.start, b, e.start, p) /\ StepOK(s, e.end, d, e.end, r)
    BY <1>4, <1>8 DEF b
  <1> HIDE DEF p, d, r
  <1>10. /\ StepOK(c, e.start, s, e.end, p \o q)
         /\ \A f : KeepsFaith(c, b, p, f) /\ KeepsFaith(b, s, q, f) => KeepsFaith(c, s, p \o q, f)
    BY <1>6, <1>9, StepsInARow
  <1> DEFINE pq == p \o q
  <1> HIDE DEF pq
  <1>11. /\ StepOK(c, e.start, d, e.end, pq \o r)
         /\ \A f : KeepsFaith(c, s, pq, f) /\ KeepsFaith(s, d, r, f) => KeepsFaith(c, d, pq \o r, f)
    <2>1. StepOK(c, e.start, s, e.end, pq)
      BY <1>10 DEF pq
    <2> QED  BY <1>9, <2>1, StepsInARow
  <1>12. ASSUME NEW f \in Texts, Faithful(e, f), 2 * Len(f) < c.conf.max PROVE KeepsFaith(c, d, pq \o r, f)
    <2>1. KeepsFaith(c, b, p, f) /\ KeepsFaith(s, d, r, f)
      BY <1>4, <1>8 DEF b, p, d, r
    <2>2. KeepsFaith(b, s, q, f)
      BY <1>5, <1>6, <1>12
    <2>3. KeepsFaith(c, s, pq, f)
      BY <1>10, <2>1, <2>2 DEF pq
    <2> QED  BY <1>11, <2>1, <2>3
  <1>13. EventOK(c, e, d, pq \o r)
    BY <1>11, <1>12 DEF EventOK
  <1> QED  BY <1>2, <1>13 DEF d, p, pq, r

\* A filter drops a line.
FilteredOK(c, e, d, q) ==
    d \in CodecType /\ d.conf = c.conf /\ c.buffer = <<>> /\ d.buffer = <<>> /\ d.lastOffset = e.end /\ q = <<>>

LEMMA CodecStep ==
    ASSUME NEW c \in CodecType, NEW e, NextLineAt(e, e.start), Buffered(c, e.start)
    PROVE  IF c.conf.kind = "filter" /\ ~Match(e.text)
           THEN FilteredOK(c, e, CodecEvent(c, e).codec, CodecEvent(c, e).events)
           ELSE EventOK(c, e, CodecEvent(c, e).codec, CodecEvent(c, e).events)
  <1> DEFINE d == CodecOf(c.conf, e.end, c.startOffset, c.endOffset, c.buffer)
             x == [c EXCEPT !.lastOffset = e.end]
             one == <<e>>
             none == <<>>
  <1>1. c.conf \in CodecConf /\ c.lastOffset \in Nat /\ c.startOffset \in Nat /\ c.endOffset \in Nat /\ c.buffer \in Buffers /\ c.conf.kind \in CodecKinds
    BY CodecFields
  <1>2. e \in EventType /\ e.start <= e.end /\ e.start \in Nat /\ e.end \in Nat
    BY DEF NextLineAt, EventType
  <1>3. x = d
    BY SetLast
  <1>4. d \in CodecType /\ d.conf = c.conf /\ d.lastOffset = e.end /\ d.buffer = c.buffer
    BY <1>1, <1>2 DEF CodecOf, CodecType
  <1> HIDE DEF x, d
  <1>5. CASE Multiline(c)
    <2>1. c.conf.kind # "plain" /\ c.conf.kind # "filter"
      BY <1>5 DEF Multiline
    <2>2. CodecEvent(c, e) = MultilineEvent(c, e)
      BY <2>1 DEF CodecEvent
    <2> QED  BY <1>5, <2>1, <2>2, MultilineStep
  <1>6. CASE ~Multiline(c)
    <2>1. c.conf.kind \in {"plain", "filter"} /\ c.buffer = <<>>
      BY <1>1, <1>6 DEF Multiline, CodecKinds, Buffered
    <2>2. EventOK(c, e, d, one)
      <3>1. Buffered(d, e.end) /\ Tight(d, e.end) /\ \A f : BufferFaithful(d, f)
        BY <1>4, <2>1 DEF Buffered, Tight, BufferFaithful
      <3>2. Chained(one, e.start, e.end) /\ one \in Seq(EventType)
        BY <1>2, ChainedOne
      <3>3. Tight(c, e.start) => c.lastOffset = e.start
        BY <2>1 DEF Tight
      <3>4. \A f : Faithful(e, f) => AllFaithful(one, f)
        BY FaithfulOne
      <3> HIDE DEF one
      <3>5. StepOK(c, e.start, d, e.end, one)
        BY <1>4, <3>1, <3>2, <3>3 DEF StepOK
      <3> QED  BY <3>1, <3>4, <3>5 DEF EventOK, KeepsFaith
    <2>3. CASE c.conf.kind = "plain" \/ Match(e.text)
      <3>1. CodecEvent(c, e) = Result(x, one)
        BY <2>1, <2>3 DEF CodecEvent, PlainEvent, FilterEvent, x
      <3>2. CodecEvent(c, e).codec = d /\ CodecEvent(c, e).events = one
        <4> HIDE DEF one
        <4> QED  BY <1>3, <3>1 DEF Result
      <3> QED  BY <2>2, <2>3, <3>2
    <2>4. CASE ~(c.conf.kind = "plain" \/ Match(e.text))
      <3>1. CodecEvent(c, e) = Result(x, none)
        BY <2>1, <2>4 DEF CodecEvent, PlainEvent, FilterEvent, x
      <3>2. CodecEvent(c, e).codec = d /\ CodecEvent(c, e).events = none
        <4> HIDE DEF none
        <4> QED  BY <1>3, <3>1 DEF Result
      <3>3. FilteredOK(c, e, d, none)
        BY <1>4, <2>1 DEF FilteredOK
      <3> QED  BY <2>1, <2>4, <3>2, <3>3
    <2> QED  BY <2>3, <2>4
  <1> QED  BY <1>5, <1>6

-----------------------------------------------------------------------------
(* A chain of one codec. *)

\* A recursion of one step: Step is its right-hand side.
LEMMA FeedOne ==
    ASSUME NEW c, NEW e, CodecEvent(c, e).events \in Seq(EventType)
    PROVE  FeedAll(c, <<e>>) = Result(CodecEvent(c, e).codec, CodecEvent(c, e).events)
  <1> DEFINE events == <<e>>
             none == <<>>
             Step(f, n) == IF n = 0 THEN Result(c, none)
                           ELSE Result(CodecEvent(f[n - 1].codec, events[n]).codec,
                                       f[n - 1].events \o CodecEvent(f[n - 1].codec, events[n]).events)
             fed == CHOOSE f : f = [n \in 0 .. Len(events) |-> Step(f, n)]
             r == CodecEvent(c, e)
             g == [n \in 0 .. 1 |-> IF n = 0 THEN Result(c, none) ELSE Result(r.codec, r.events)]
  <1>1. Len(events) = 1 /\ events[1] = e /\ 1 - 1 = 0 /\ 0 \in 0 .. 1 /\ 1 \in 0 .. 1 /\ \A n \in 0 .. 1 : n # 0 => n = 1
    OBVIOUS
  <1>2. Result(c, none).codec = c /\ Result(c, none).events = none /\ none \o r.events = r.events
    <2>1. none \o r.events = r.events
      BY ConcatEmptySeq
    <2> HIDE DEF none
    <2> QED  BY <2>1 DEF Result
  <1>3. FeedAll(c, events) = fed[Len(events)]
    BY Zenon DEF FeedAll
  <1> HIDE DEF events, none
  <1>4. ASSUME NEW f, f[0] = Result(c, none) PROVE Step(f, 1) = Result(r.codec, r.events)
    <2>1. f[0].codec = c /\ f[0].events = none
      BY <1>2, <1>4, Zenon
    <2>2. Step(f, 1) = Result(CodecEvent(f[0].codec, events[1]).codec, f[0].events \o CodecEvent(f[0].codec, events[1]).events)
      BY <1>1
    <2> HIDE DEF Step
    <2> QED  BY <1>1, <1>2, <2>1, <2>2, Zenon
  <1>5. Step(g, 0) = Result(c, none) /\ g[0] = Result(c, none) /\ g[1] = Result(r.codec, r.events)
    <2> HIDE DEF r
    <2> QED  BY <1>1
  <1>6. g = [n \in 0 .. Len(events) |-> Step(g, n)]
    <2>1. Step(g, 1) = g[1]
      BY <1>4, <1>5, Zenon
    <2> DEFINE h == [n \in 0 .. 1 |-> Step(g, n)]
    <2>2. DOMAIN g = 0 .. 1 /\ g = [n \in DOMAIN g |-> g[n]]
      <3> HIDE DEF r
      <3> QED  OBVIOUS
    <2> HIDE DEF Step, g
    <2>3. DOMAIN h = 0 .. 1 /\ h = [n \in DOMAIN h |-> h[n]] /\ h[0] = Step(g, 0) /\ h[1] = Step(g, 1)
      BY <1>1
    <2> HIDE DEF h
    <2>4. \A n \in 0 .. 1 : g[n] = h[n]
      BY <1>1, <1>5, <2>1, <2>3
    <2>5. g = h
      BY <2>2, <2>3, <2>4
    <2> QED  BY <1>1, <2>5 DEF h
  <1>7. fed = [n \in 0 .. Len(events) |-> Step(fed, n)]
    <2> HIDE DEF g
    <2>1. \E f : f = [n \in 0 .. Len(events) |-> Step(f, n)]
      BY <1>6, Zenon
    <2> QED  BY <2>1, Zenon
  <1> HIDE DEF fed
  <1>8. fed[0] = Step(fed, 0) /\ fed[1] = Step(fed, 1)
    <2> HIDE DEF Step
    <2> QED  BY <1>1, <1>7
  <1>9. Step(fed, 0) = Result(c, none)
    BY Zenon
  <1>10. fed[1] = Result(r.codec, r.events)
    <2> HIDE DEF Step
    <2> QED  BY <1>4, <1>8, <1>9, Zenon
  <1> QED  BY <1>1, <1>3, <1>10, Zenon DEF events

LEMMA ChainOne ==
    ASSUME NEW S, NEW ch \in Seq(S), Len(ch) = 1, NEW e, CodecEvent(ch[1], e).events \in Seq(EventType)
    PROVE  /\ ChainEvent(ch, e).chain = <<CodecEvent(ch[1], e).codec>>
           /\ ChainEvent(ch, e).events = CodecEvent(ch[1], e).events
  <1> DEFINE one == <<e>>
             Step(f, i) == IF i = 0 THEN [chain |-> ch, events |-> one]
                           ELSE [chain |-> [f[i - 1].chain EXCEPT ![i] = FeedAll(ch[i], f[i - 1].events).codec],
                                 events |-> FeedAll(ch[i], f[i - 1].events).events]
             fed == CHOOSE f : f = [i \in 0 .. Len(ch) |-> Step(f, i)]
             r == CodecEvent(ch[1], e)
             first == [chain |-> ch, events |-> one]
             second == [chain |-> [ch EXCEPT ![1] = r.codec], events |-> r.events]
             g == [i \in 0 .. 1 |-> IF i = 0 THEN first ELSE second]
  <1>1. 1 - 1 = 0 /\ 0 \in 0 .. 1 /\ 1 \in 0 .. 1 /\ \A n \in 0 .. 1 : n # 0 => n = 1
    OBVIOUS
  <1>2. first.chain = ch /\ first.events = one
    <2> HIDE DEF one
    <2> QED  OBVIOUS
  <1>3. ChainEvent(ch, e) = fed[Len(ch)]
    BY Zenon DEF ChainEvent
  <1>4. FeedAll(ch[1], one).codec = r.codec /\ FeedAll(ch[1], one).events = r.events
    <2>1. FeedAll(ch[1], one) = Result(r.codec, r.events)
      BY FeedOne
    <2> HIDE DEF one, r
    <2> QED  BY <2>1 DEF Result
  <1>5. second.chain = <<r.codec>> /\ second.events = r.events
    <2> HIDE DEF r
    <2>1. [ch EXCEPT ![1] = r.codec] = <<r.codec>>
      OBVIOUS
    <2> QED  BY <2>1
  <1> HIDE DEF one, r, first, second
  <1>6. ASSUME NEW f, f[0] = first PROVE Step(f, 1) = second
    <2>1. f[0].chain = ch /\ f[0].events = one
      BY <1>2, <1>6, Zenon
    <2>2. Step(f, 1) = [chain |-> [f[0].chain EXCEPT ![1] = FeedAll(ch[1], f[0].events).codec],
                        events |-> FeedAll(ch[1], f[0].events).events]
      BY <1>1
    <2> HIDE DEF Step
    <2> QED  BY <1>4, <2>1, <2>2, Zenon DEF second
  <1>7. Step(g, 0) = first /\ g[0] = first /\ g[1] = second
    BY <1>1 DEF first
  <1>8. g = [i \in 0 .. Len(ch) |-> Step(g, i)]
    <2>1. Step(g, 1) = g[1]
      BY <1>6, <1>7, Zenon
    <2> DEFINE h == [n \in 0 .. 1 |-> Step(g, n)]
    <2>2. DOMAIN g = 0 .. 1 /\ g = [n \in DOMAIN g |-> g[n]]
      OBVIOUS
    <2> HIDE DEF Step, g
    <2>3. DOMAIN h = 0 .. 1 /\ h = [n \in DOMAIN h |-> h[n]] /\ h[0] = Step(g, 0) /\ h[1] = Step(g, 1)
      BY <1>1
    <2> HIDE DEF h
    <2>4. \A n \in 0 .. 1 : g[n] = h[n]
      BY <1>1, <1>7, <2>1, <2>3
    <2>5. g = h
      BY <2>2, <2>3, <2>4
    <2> QED  BY <2>5 DEF h
  <1>9. fed = [i \in 0 .. Len(ch) |-> Step(fed, i)]
    <2> HIDE DEF g
    <2>1. \E f : f = [i \in 0 .. Len(ch) |-> Step(f, i)]
      BY <1>8, Zenon
    <2> QED  BY <2>1, Zenon
  <1> HIDE DEF fed
  <1>10. fed[0] = Step(fed, 0) /\ fed[1] = Step(fed, 1)
    <2> HIDE DEF Step
    <2> QED  BY <1>1, <1>9
  <1>11. Step(fed, 0) = first
    BY Zenon DEF first
  <1>12. fed[1] = second
    <2> HIDE DEF Step
    <2> QED  BY <1>6, <1>10, <1>11, Zenon
  <1> QED  BY <1>3, <1>5, <1>12, Zenon DEF r

-----------------------------------------------------------------------------
(* The line reader. *)

ReaderType == [size : Nat \ {0}, maxLine : Nat \ {0}, curMax : Nat \ {0}, buf : Texts, overflow : Texts]

LEMMA ReaderFields ==
    ASSUME NEW r \in ReaderType
    PROVE  /\ r.size \in Nat /\ r.size >= 1 /\ r.maxLine \in Nat /\ r.maxLine >= 1 /\ r.curMax \in Nat /\ r.curMax >= 1
           /\ r.buf \in Texts /\ r.overflow \in Texts /\ Len(r.buf) \in Nat /\ Len(r.overflow) \in Nat
           /\ (\A i \in 1 .. Len(r.buf) : r.buf[i] \in Bytes) /\ \A i \in 1 .. Len(r.overflow) : r.overflow[i] \in Bytes
  <1>1. /\ r.size \in Nat /\ r.size >= 1 /\ r.maxLine \in Nat /\ r.maxLine >= 1 /\ r.curMax \in Nat /\ r.curMax >= 1
        /\ r.buf \in Texts /\ r.overflow \in Texts
    BY DEF ReaderType
  <1>2. Len(r.buf) \in Nat /\ Len(r.overflow) \in Nat
    BY <1>1 DEF Texts
  <1>3. (\A i \in 1 .. Len(r.buf) : r.buf[i] \in Bytes) /\ \A i \in 1 .. Len(r.overflow) : r.overflow[i] \in Bytes
    BY <1>1, ElementOfSeq DEF Texts
  <1> QED  BY <1>1, <1>2, <1>3

\* A part of a text.
LEMMA PartOf ==
    ASSUME NEW s \in Texts, NEW a \in Nat, NEW b \in Nat, a <= b, b <= Len(s)
    PROVE  /\ SubSeq(s, a + 1, b) \in Texts /\ Len(SubSeq(s, a + 1, b)) = b - a
           /\ \A i \in 1 .. b - a : SubSeq(s, a + 1, b)[i] = s[a + i]
  <1> DEFINE m == a + 1
  <1>1. Len(s) \in Nat /\ \A i \in 1 .. Len(s) : s[i] \in Bytes
    BY ElementOfSeq DEF Texts
  <1>2. m \in Int /\ b \in Int /\ \A i \in m .. b : s[i] \in Bytes
    BY <1>1
  <1>3. /\ SubSeq(s, m, b) \in Texts /\ Len(SubSeq(s, m, b)) = IF m <= b THEN b - m + 1 ELSE 0
        /\ \A i \in 1 .. b - m + 1 : SubSeq(s, m, b)[i] = s[m + i - 1]
    <2> HIDE DEF m
    <2> QED  BY <1>2, SubSeqProperties DEF Texts
  <1>4. b - m + 1 = b - a /\ (~(m <= b) => b - a = 0) /\ \A i \in 1 .. b - a : m + i - 1 = a + i
    OBVIOUS
  <1>5. \A i \in 1 .. b - a : SubSeq(s, m, b)[i] = s[a + i]
    <2> TAKE i \in 1 .. b - a
    <2>1. i \in 1 .. b - m + 1 /\ m + i - 1 = a + i
      BY <1>4
    <2>2. SubSeq(s, m, b)[i] = s[m + i - 1]
      BY <1>3, <2>1
    <2> QED  BY <2>1, <2>2
  <1> QED  BY <1>3, <1>4, <1>5

\* A text that has the bytes of a part is the part.
LEMMA IsPart ==
    ASSUME NEW s \in Texts, NEW t \in Texts, NEW a \in Nat, a + Len(t) <= Len(s), \A i \in 1 .. Len(t) : t[i] = s[a + i]
    PROVE  t = SubSeq(s, a + 1, a + Len(t))
  <1> DEFINE b == a + Len(t)
             u == SubSeq(s, a + 1, b)
  <1>1. Len(t) \in Nat /\ b \in Nat /\ a <= b /\ b - a = Len(t)
    BY DEF Texts
  <1>2. u \in Texts /\ Len(u) = b - a /\ \A i \in 1 .. b - a : u[i] = s[a + i]
    <2> HIDE DEF b
    <2> QED  BY <1>1, PartOf DEF b
  <1>3. t \in Seq(Bytes) /\ u \in Seq(Bytes) /\ Len(t) = Len(u) /\ \A i \in 1 .. Len(t) : t[i] = u[i]
    BY <1>1, <1>2 DEF Texts
  <1> HIDE DEF u
  <1>4. t = u
    BY <1>3, SeqEqual
  <1> QED  BY <1>4 DEF u

LEMMA LineEndFacts ==
    ASSUME NEW r \in ReaderType
    PROVE  /\ LineEnd(r) \in Nat /\ LineEnd(r) <= Len(r.buf)
           /\ LineEnd(r) # 0 => r.buf[LineEnd(r)] = Newline
  <1> DEFINE ends == {n \in 1 .. Len(r.buf) : n <= r.curMax /\ r.buf[n] = Newline}
  <1>0. Len(r.buf) \in Nat
    BY ReaderFields
  <1>1. LineEnd(r) = IF ends = {} THEN 0 ELSE CHOOSE n \in ends : \A k \in ends : n <= k
    BY Zenon DEF LineEnd
  <1>2. CASE ends = {}
    BY <1>0, <1>1, <1>2
  <1>3. CASE ends # {}
    <2>1. ends \subseteq Nat
      OBVIOUS
    <2> HIDE DEF ends
    <2>2. PICK n \in ends : \A k \in ends : ~(<<k, n>> \in OpToRel(<, Nat))
      BY <1>3, <2>1, NatLessThanWellFounded, WFMin
    <2>3. \A k \in ends : n <= k
      <3> TAKE k \in ends
      <3>1. n \in Nat /\ k \in Nat
        BY <2>1
      <3>2. ~(<<k, n>> \in OpToRel(<, Nat))
        BY <2>2
      <3>3. ~(k < n)
        BY <3>1, <3>2 DEF OpToRel
      <3> QED  BY <3>1, <3>3
    <2>4. LineEnd(r) \in ends
      BY <1>1, <1>3, <2>3, Zenon
    <2> QED  BY <1>0, <2>4 DEF ends
  <1> QED  BY <1>2, <1>3

\* The reader holds the bytes of the file f from offset a on, up to b.
Holding(r, f, a, b) ==
    /\ a <= b /\ (b <= Len(f) \/ a = b) /\ Len(r.overflow) + Len(r.buf) = b - a
    /\ \A i \in 1 .. Len(r.overflow) : r.overflow[i] = f[a + i]
    /\ \A i \in 1 .. Len(r.buf) : r.buf[i] = f[a + Len(r.overflow) + i]

LEMMA HoldingNew ==
    ASSUME NEW r \in ReaderType, r.buf = <<>>, r.overflow = <<>>, NEW f, NEW a \in Nat
    PROVE  Holding(r, f, a, a)
  BY DEF Holding

\* The file grows.
LEMMA HoldingWrite ==
    ASSUME NEW r \in ReaderType, NEW f \in Texts, NEW a \in Nat, NEW b \in Nat, Holding(r, f, a, b), NEW x \in Bytes
    PROVE  Holding(r, Append(f, x), a, b)
  <1> DEFINE g == Append(f, x)
             m == Len(r.overflow)
             n == Len(r.buf)
  <1>1. Len(f) \in Nat /\ Len(g) = Len(f) + 1 /\ \A i \in 1 .. Len(f) : g[i] = f[i]
    BY AppendProperties DEF Texts
  <1>2. m \in Nat /\ n \in Nat /\ m + n = b - a
    BY ReaderFields DEF Holding
  <1> HIDE DEF g
  <1>0. SUFFICES Holding(r, g, a, b)
    BY DEF g
  <1>3. CASE a = b
    <2>1. m = 0 /\ n = 0
      <3> HIDE DEF m, n
      <3> QED  BY <1>2, <1>3
    <2> QED  BY <1>1, <1>3, <2>1 DEF Holding
  <1>4. CASE a # b
    <2>1. b <= Len(f) /\ a <= b
      BY <1>4 DEF Holding
    <2>2. /\ \A i \in 1 .. m : a + i \in 1 .. Len(f)
          /\ \A i \in 1 .. n : a + m + i \in 1 .. Len(f)
      <3> HIDE DEF m, n
      <3> QED  BY <1>1, <1>2, <2>1
    <2>3. \A i \in 1 .. m : r.overflow[i] = g[a + i]
      BY <1>1, <2>2 DEF Holding
    <2>4. \A i \in 1 .. n : r.buf[i] = g[a + m + i]
      BY <1>1, <2>2 DEF Holding
    <2>5. b <= Len(g)
      BY <1>1, <2>1
    <2> QED  BY <1>2, <2>1, <2>3, <2>4, <2>5 DEF Holding
  <1> QED  BY <1>3, <1>4

\* n bytes of the buffer leave.
LEMMA CutFacts ==
    ASSUME NEW r \in ReaderType, NEW n \in Nat, n <= Len(r.buf)
    PROVE  /\ CutLine(r, n).line \in Texts /\ Len(CutLine(r, n).line) = Len(r.overflow) + n
           /\ \A i \in 1 .. Len(r.overflow) + n :
                 CutLine(r, n).line[i] = IF i <= Len(r.overflow) THEN r.overflow[i] ELSE r.buf[i - Len(r.overflow)]
           /\ CutLine(r, n).reader \in ReaderType
           /\ CutLine(r, n).reader.size = r.size /\ CutLine(r, n).reader.maxLine = r.maxLine
           /\ CutLine(r, n).reader.curMax = r.maxLine /\ CutLine(r, n).reader.overflow = <<>>
           /\ CutLine(r, n).reader.buf = SubSeq(r.buf, n + 1, Len(r.buf))
  <1> DEFINE s == SubSeq(r.buf, 1, n)
             t == SubSeq(r.buf, n + 1, Len(r.buf))
             l == r.overflow \o s
             d == [size |-> r.size, maxLine |-> r.maxLine, curMax |-> r.maxLine, buf |-> t, overflow |-> <<>>]
             x == [r EXCEPT !.buf = SubSeq(@, n + 1, Len(@)), !.overflow = <<>>, !.curMax = r.maxLine]
             y == [[[r EXCEPT !.buf = t] EXCEPT !.overflow = <<>>] EXCEPT !.curMax = r.maxLine]
  <1>1. /\ r.size \in Nat \ {0} /\ r.maxLine \in Nat \ {0} /\ r.buf \in Texts /\ r.overflow \in Texts /\ Len(r.buf) \in Nat
        /\ Len(r.overflow) \in Nat
    BY ReaderFields
  <1>2. s \in Texts /\ Len(s) = n /\ \A i \in 1 .. n : s[i] = r.buf[i]
    <2> DEFINE z == 0
    <2>1. z \in Nat /\ z <= n /\ n - z = n /\ z + 1 = 1 /\ \A i \in 1 .. n : z + i = i
      OBVIOUS
    <2>2. /\ SubSeq(r.buf, z + 1, n) \in Texts /\ Len(SubSeq(r.buf, z + 1, n)) = n - z
          /\ \A i \in 1 .. n - z : SubSeq(r.buf, z + 1, n)[i] = r.buf[z + i]
      <3> HIDE DEF z
      <3> QED  BY <1>1, <2>1, PartOf
    <2> QED  BY <2>1, <2>2
  <1>3. t \in Texts
    BY <1>1, PartOf
  <1>4. /\ l \in Texts /\ Len(l) = Len(r.overflow) + n
        /\ \A i \in 1 .. Len(r.overflow) + n : l[i] = IF i <= Len(r.overflow) THEN r.overflow[i] ELSE r.buf[i - Len(r.overflow)]
    <2> HIDE DEF s
    <2>1. /\ l \in Texts /\ Len(l) = Len(r.overflow) + n
          /\ \A i \in 1 .. Len(r.overflow) + n : l[i] = IF i <= Len(r.overflow) THEN r.overflow[i] ELSE s[i - Len(r.overflow)]
      <3> DEFINE ov == r.overflow
      <3>1. ov \in Seq(Bytes) /\ s \in Seq(Bytes)
        BY <1>1, <1>2 DEF Texts
      <3> HIDE DEF ov
      <3>2. /\ ov \o s \in Seq(Bytes) /\ Len(ov \o s) = Len(ov) + Len(s)
            /\ \A i \in 1 .. Len(ov) + Len(s) : (ov \o s)[i] = IF i <= Len(ov) THEN ov[i] ELSE s[i - Len(ov)]
        BY <3>1, ConcatProperties
      <3> QED  BY <1>2, <3>2 DEF ov, Texts
    <2> DEFINE m == Len(r.overflow)
    <2>2. \A i \in 1 .. m + n : ~(i <= m) => i - m \in 1 .. n
      <3>1. m \in Nat
        BY <1>1
      <3> HIDE DEF m
      <3> QED  BY <3>1
    <2> HIDE DEF l
    <2> QED  BY <1>2, <2>1, <2>2
  <1>5. x = y
    BY Zenon
  <1>6. y = d
    <2> DEFINE f1 == r.size  f2 == r.maxLine  f3 == r.curMax  f4 == r.buf  f5 == r.overflow  none == <<>>
    <2>1. r = [size |-> f1, maxLine |-> f2, curMax |-> f3, buf |-> f4, overflow |-> f5]
      BY DEF ReaderType
    <2> HIDE DEF f1, f2, f3, f4, f5, t, none
    <2> DEFINE y1 == [r EXCEPT !.buf = t]
               y2 == [y1 EXCEPT !.overflow = none]
               y3 == [y2 EXCEPT !.curMax = f2]
    <2>2. y1 = [size |-> f1, maxLine |-> f2, curMax |-> f3, buf |-> t, overflow |-> f5]
      BY <2>1
    <2> HIDE DEF y1
    <2>3. y2 = [size |-> f1, maxLine |-> f2, curMax |-> f3, buf |-> t, overflow |-> none]
      BY <2>2
    <2> HIDE DEF y2
    <2>4. y3 = [size |-> f1, maxLine |-> f2, curMax |-> f2, buf |-> t, overflow |-> none]
      BY <2>3
    <2> QED  BY <2>4, Zenon DEF y1, y2, f1, f2, none
  <1>7. /\ d \in ReaderType /\ d.size = r.size /\ d.maxLine = r.maxLine /\ d.curMax = r.maxLine /\ d.overflow = <<>>
        /\ d.buf = t
    <2>1. <<>> \in Texts
      BY DEF Texts
    <2> HIDE DEF t
    <2> QED  BY <1>1, <1>3, <2>1 DEF ReaderType
  <1>8. CutLine(r, n) = [line |-> l, reader |-> x]
    BY Zenon DEF CutLine
  <1>9. CutLine(r, n).line = l /\ CutLine(r, n).reader = d
    <2> HIDE DEF l, x, y, d
    <2> QED  BY <1>5, <1>6, <1>8
  <1> HIDE DEF l, d
  <1> QED  BY <1>4, <1>7, <1>9

LEMMA HoldingCut ==
    ASSUME NEW r \in ReaderType, NEW n \in Nat, n >= 1, n <= Len(r.buf),
           NEW f \in Texts, NEW a \in Nat, NEW b \in Nat, Holding(r, f, a, b)
    PROVE  /\ a + Len(CutLine(r, n).line) <= Len(f)
           /\ CutLine(r, n).line = SubSeq(f, a + 1, a + Len(CutLine(r, n).line))
           /\ Holding(CutLine(r, n).reader, f, a + Len(CutLine(r, n).line), b)
  <1> DEFINE l == CutLine(r, n).line
             d == CutLine(r, n).reader
             m == Len(r.overflow)
             k == Len(r.buf)
  <1>1. /\ l \in Texts /\ Len(l) = m + n
        /\ \A i \in 1 .. m + n : l[i] = IF i <= m THEN r.overflow[i] ELSE r.buf[i - m]
        /\ d \in ReaderType /\ d.overflow = <<>> /\ d.buf = SubSeq(r.buf, n + 1, k)
    BY CutFacts
  <1>2. m \in Nat /\ k \in Nat /\ r.buf \in Texts /\ Len(f) \in Nat
    BY ReaderFields DEF Texts
  <1>3. /\ a <= b /\ (b <= Len(f) \/ a = b) /\ m + k = b - a
        /\ \A i \in 1 .. m : r.overflow[i] = f[a + i]
        /\ \A i \in 1 .. k : r.buf[i] = f[a + m + i]
    BY DEF Holding
  <1>4. d.buf \in Texts /\ Len(d.buf) = k - n /\ \A i \in 1 .. k - n : d.buf[i] = r.buf[n + i]
    <2> DEFINE w == r.buf
    <2>1. w \in Texts /\ k \in Nat /\ n <= k /\ k <= Len(w)
      BY <1>2
    <2> HIDE DEF w, k
    <2>2. /\ SubSeq(w, n + 1, k) \in Texts /\ Len(SubSeq(w, n + 1, k)) = k - n
          /\ \A i \in 1 .. k - n : SubSeq(w, n + 1, k)[i] = w[n + i]
      BY <2>1, PartOf
    <2> QED  BY <1>1, <2>2 DEF w
  <1> DEFINE c == a + (m + n)
  <1>5. n <= k
    OBVIOUS
  <1> HIDE DEF l, d, m, k
  <1>6. c \in Nat /\ a <= c /\ c <= b /\ b <= Len(f) /\ k - n = b - c /\ c <= Len(f)
    BY <1>2, <1>3, <1>5
  <1>7. \A i \in 1 .. m + n : l[i] = f[a + i]
    <2> TAKE i \in 1 .. m + n
    <2>1. CASE i <= m
      <3>1. i \in 1 .. m
        BY <1>2, <2>1
      <3> QED  BY <1>1, <1>3, <2>1, <3>1
    <2>2. CASE ~(i <= m)
      <3>1. i - m \in 1 .. k /\ a + m + (i - m) = a + i
        BY <1>2, <1>5, <2>2
      <3> QED  BY <1>1, <1>3, <2>2, <3>1
    <2> QED  BY <2>1, <2>2
  <1>8. l = SubSeq(f, a + 1, a + Len(l))
    BY <1>1, <1>6, <1>7, IsPart
  <1>9. Len(d.overflow) = 0
    BY <1>1
  <1>10. \A i \in 1 .. k - n : d.buf[i] = f[c + 0 + i]
    <2> TAKE i \in 1 .. k - n
    <2>1. n + i \in 1 .. k /\ a + m + (n + i) = c + 0 + i
      BY <1>2, <1>5
    <2> QED  BY <1>3, <1>4, <2>1
  <1>11. Holding(d, f, c, b)
    <2> HIDE DEF c
    <2>1. 0 + (k - n) = b - c
      BY <1>2, <1>5, <1>6
    <2>2. \A i \in 1 .. 0 : FALSE
      OBVIOUS
    <2> QED  BY <1>4, <1>6, <1>9, <1>10, <2>1, <2>2 DEF Holding
  <1> QED  BY <1>1, <1>6, <1>8, <1>11 DEF l, d

\* A line without its ending has the same content.
LEMMA EndingCut ==
    ASSUME NEW l \in Texts, Len(l) >= 1, l[Len(l)] = Newline
    PROVE  /\ Len(l) - EndingLen(l) \in Nat
           /\ SubSeq(l, 1, Len(l) - EndingLen(l)) \in Texts
           /\ Len(SubSeq(l, 1, Len(l) - EndingLen(l))) = Len(l) - EndingLen(l)
           /\ Content(SubSeq(l, 1, Len(l) - EndingLen(l))) = Content(l)
  <1> DEFINE n == Len(l)
             k == n - EndingLen(l)
             z == 0
  <1>1. n \in Nat /\ n >= 1
    BY DEF Texts
  <1>2. EndingLen(l) = (IF n > 1 /\ l[n - 1] = Return THEN 2 ELSE 1)
    BY DEF EndingLen
  <1> HIDE DEF n
  <1>3. k \in Nat /\ k < n
    BY <1>1, <1>2
  <1>4. SubSeq(l, 1, n) = l
    BY SubSeqFull DEF n, Texts
  <1> HIDE DEF k
  <1>5. z \in Nat /\ z <= k /\ z + 1 = 1 /\ k - z = k /\ z <= n
    BY <1>1, <1>3
  <1>6. SubSeq(l, 1, k) \in Texts /\ Len(SubSeq(l, 1, k)) = k
    <2>1. SubSeq(l, z + 1, k) \in Texts /\ Len(SubSeq(l, z + 1, k)) = k - z
      <3> HIDE DEF z
      <3>1. k <= Len(l)
        BY <1>1, <1>3 DEF n
      <3> QED  BY <1>3, <1>5, <3>1, PartOf
    <2> QED  BY <1>5, <2>1
  <1>7. Content(SubSeq(l, 1, n)) = Content(SubSeq(l, 1, k)) \o Content(SubSeq(l, k + 1, n))
    <2>1. Content(SubSeq(l, z + 1, n)) = Content(SubSeq(l, z + 1, k)) \o Content(SubSeq(l, k + 1, n))
      <3> HIDE DEF z
      <3>1. k <= n /\ n <= Len(l)
        BY <1>1, <1>3 DEF n
      <3> QED  BY <1>1, <1>3, <1>5, <3>1, ContentBetween
    <2> QED  BY <1>5, <2>1
  <1>8. Content(SubSeq(l, k + 1, n)) = <<>>
    <2> DEFINE e == SubSeq(l, k + 1, n)
               nl == <<Newline>>
               cr == <<Return>>
    <2>1. e \in Texts /\ Len(e) = n - k /\ \A i \in 1 .. n - k : e[i] = l[k + i]
      <3>1. k <= n /\ n <= Len(l)
        BY <1>1, <1>3 DEF n
      <3> QED  BY <1>1, <1>3, <3>1, PartOf
    <2>2. nl \in Texts /\ Content(nl) = <<>> /\ cr \in Texts /\ Content(cr) = <<>>
      BY ContentOfEnding DEF Endings
    <2>3. l[n] = Newline
      BY DEF n
    <2>4. CASE n > 1 /\ l[n - 1] = Return
      <3>1. n - k = 2 /\ k + 1 = n - 1 /\ k + 2 = n
        BY <1>1, <1>2, <2>4 DEF k
      <3> HIDE DEF e
      <3>2. e \in Seq(Bytes) /\ Len(e) = 2 /\ e[1] = Return /\ e[2] = Newline
        <4>1. 1 \in 1 .. n - k /\ 2 \in 1 .. n - k
          BY <3>1
        <4>2. e[1] = l[k + 1] /\ e[2] = l[k + 2]
          BY <2>1, <4>1
        <4> QED  BY <2>1, <2>3, <2>4, <3>1, <4>2 DEF Texts
      <3>3. e = cr \o nl
        <4> DEFINE w == cr \o nl
        <4>1. w \in Seq(Bytes) /\ Len(w) = 2 /\ w[1] = Return /\ w[2] = Newline
          BY DEF Bytes
        <4>2. \A i \in 1 .. 2 : e[i] = w[i]
          <5> HIDE DEF w
          <5>1. \A i \in 1 .. 2 : i = 1 \/ i = 2
            OBVIOUS
          <5> QED  BY <3>2, <4>1, <5>1
        <4> HIDE DEF w
        <4>3. e = w
          BY <3>2, <4>1, <4>2, SeqEqual
        <4> QED  BY <4>3 DEF w
      <3>4. Content(cr \o nl) = Content(cr) \o Content(nl)
        <4> HIDE DEF cr, nl
        <4> QED  BY <2>2, ContentConcat
      <3>5. Content(cr) \o Content(nl) = <<>>
        <4>1. <<>> \o <<>> = <<>>
          OBVIOUS
        <4> HIDE DEF cr, nl
        <4> QED  BY <2>2, <4>1, Zenon
      <3> HIDE DEF cr, nl
      <3>6. Content(e) = <<>>
        BY <3>3, <3>4, <3>5, Zenon
      <3> QED  BY <3>6 DEF e
    <2>5. CASE ~(n > 1 /\ l[n - 1] = Return)
      <3>1. n - k = 1 /\ k + 1 = n
        BY <1>1, <1>2, <2>5 DEF k
      <3> HIDE DEF e
      <3>2. e \in Seq(Bytes) /\ Len(e) = 1 /\ e[1] = Newline
        <4>1. 1 \in 1 .. n - k
          BY <3>1
        <4>2. e[1] = l[k + 1]
          BY <2>1, <4>1
        <4> QED  BY <2>1, <2>3, <3>1, <4>2 DEF Texts
      <3>3. e = nl
        BY <3>2
      <3> QED  BY <2>2, <3>3 DEF e
    <2> QED  BY <2>4, <2>5
  <1>9. Content(SubSeq(l, 1, k)) \o <<>> = Content(SubSeq(l, 1, k))
    BY <1>6, ContentType, ConcatEmptySeq DEF Texts
  <1>10. Content(SubSeq(l, 1, k)) = Content(l)
    BY <1>4, <1>7, <1>8, <1>9, Zenon
  <1> QED  BY <1>3, <1>6, <1>10 DEF k, n

\* Room is made in the buffer of a reader that has no line.
LEMMA SpillFacts ==
    ASSUME NEW r \in ReaderType, ~TooLong(r)
    PROVE  /\ Spill(r) \in ReaderType /\ Spill(r).size = r.size /\ Spill(r).maxLine = r.maxLine
           /\ Spill(r).curMax <= r.curMax
           /\ Len(Spill(r).buf) < r.size
           /\ r.size >= r.curMax => Spill(r) = r
           /\ \A f, a, b : a \in Nat /\ b \in Nat /\ Holding(r, f, a, b) => Holding(Spill(r), f, a, b)
  <1> DEFINE none == <<>>
             ov == r.overflow \o r.buf
             m == r.curMax - r.size
             d == [size |-> r.size, maxLine |-> r.maxLine, curMax |-> m, buf |-> none, overflow |-> ov]
             x == [r EXCEPT !.overflow = @ \o r.buf, !.buf = none, !.curMax = @ - r.size]
             y == [[[r EXCEPT !.overflow = ov] EXCEPT !.buf = none] EXCEPT !.curMax = m]
  <1>1. /\ r.size \in Nat \ {0} /\ r.maxLine \in Nat \ {0} /\ r.curMax \in Nat \ {0} /\ r.buf \in Texts /\ r.overflow \in Texts
        /\ Len(r.buf) \in Nat /\ Len(r.overflow) \in Nat /\ Len(r.buf) < r.curMax
    BY ReaderFields DEF TooLong
  <1>2. CASE Len(r.buf) < r.size
    <2>1. Spill(r) = r
      BY <1>2, Zenon DEF Spill
    <2> QED  BY <1>1, <1>2, <2>1
  <1>3. CASE ~(Len(r.buf) < r.size)
    <2>1. Spill(r) = x
      BY <1>3, Zenon DEF Spill
    <2>2. x = y
      BY Zenon
    <2>3. y = d
      <3> DEFINE f1 == r.size  f2 == r.maxLine  f3 == r.curMax  f4 == r.buf  f5 == r.overflow
      <3>1. r = [size |-> f1, maxLine |-> f2, curMax |-> f3, buf |-> f4, overflow |-> f5]
        BY DEF ReaderType
      <3> HIDE DEF f1, f2, f3, f4, f5, ov, none, m
      <3> DEFINE y1 == [r EXCEPT !.overflow = ov]
                 y2 == [y1 EXCEPT !.buf = none]
                 y3 == [y2 EXCEPT !.curMax = m]
      <3>2. y1 = [size |-> f1, maxLine |-> f2, curMax |-> f3, buf |-> f4, overflow |-> ov]
        BY <3>1
      <3> HIDE DEF y1
      <3>3. y2 = [size |-> f1, maxLine |-> f2, curMax |-> f3, buf |-> none, overflow |-> ov]
        BY <3>2
      <3> HIDE DEF y2
      <3>4. y3 = [size |-> f1, maxLine |-> f2, curMax |-> m, buf |-> none, overflow |-> ov]
        BY <3>3
      <3> QED  BY <3>4, Zenon DEF y1, y2, f1, f2
    <2>4. Spill(r) = d
      <3> HIDE DEF x, y, d
      <3> QED  BY <2>1, <2>2, <2>3
    <2>5. m \in Nat \ {0} /\ m <= r.curMax /\ ~(r.size >= r.curMax)
      BY <1>1, <1>3
    <2>6. /\ ov \in Texts /\ Len(ov) = Len(r.overflow) + Len(r.buf)
          /\ \A i \in 1 .. Len(ov) : ov[i] = IF i <= Len(r.overflow) THEN r.overflow[i] ELSE r.buf[i - Len(r.overflow)]
      BY <1>1, ConcatProperties DEF Texts
    <2>7. none \in Texts /\ Len(none) = 0
      BY DEF Texts
    <2> HIDE DEF none, ov, m
    <2>8. d \in ReaderType /\ d.size = r.size /\ d.maxLine = r.maxLine /\ d.curMax = m /\ d.buf = none /\ d.overflow = ov
      BY <1>1, <2>5, <2>6, <2>7 DEF ReaderType
    <2> HIDE DEF d
    <2>9. ASSUME NEW f, NEW a \in Nat, NEW b \in Nat, Holding(r, f, a, b) PROVE Holding(d, f, a, b)
      <3> DEFINE p == Len(r.overflow)
                 k == Len(r.buf)
      <3>1. /\ a <= b /\ (b <= Len(f) \/ a = b) /\ p + k = b - a
            /\ \A i \in 1 .. p : r.overflow[i] = f[a + i]
            /\ \A i \in 1 .. k : r.buf[i] = f[a + p + i]
        BY <2>9 DEF Holding
      <3>2. p \in Nat /\ k \in Nat /\ Len(ov) = p + k
        BY <1>1, <2>6
      <3>3. \A i \in 1 .. p + k : ov[i] = IF i <= p THEN r.overflow[i] ELSE r.buf[i - p]
        BY <2>6
      <3> HIDE DEF p, k
      <3>4. \A i \in 1 .. p + k : ov[i] = f[a + i]
        <4> TAKE i \in 1 .. p + k
        <4>1. CASE i <= p
          <5>1. i \in 1 .. p
            BY <3>2, <4>1
          <5> QED  BY <3>1, <3>3, <4>1, <5>1
        <4>2. CASE ~(i <= p)
          <5>1. i - p \in 1 .. k /\ a + p + (i - p) = a + i
            BY <3>2, <4>2
          <5> QED  BY <3>1, <3>3, <4>2, <5>1
        <4> QED  BY <4>1, <4>2
      <3>5. Len(d.overflow) = p + k /\ Len(d.buf) = 0 /\ (p + k) + 0 = b - a /\ \A i \in 1 .. 0 : FALSE
        <4>1. (p + k) + 0 = b - a /\ \A i \in 1 .. 0 : FALSE
          BY <3>1, <3>2
        <4> QED  BY <2>7, <2>8, <3>2, <4>1
      <3>6. d.overflow = ov
        BY <2>8
      <3> QED  BY <3>1, <3>4, <3>5, <3>6 DEF Holding
    <2>10. Len(d.buf) < r.size
      BY <1>1, <2>7, <2>8
    <2> QED  BY <2>4, <2>5, <2>8, <2>9, <2>10
  <1> QED  BY <1>2, <1>3

\* The buffer is filled with what the file has after position b.
LEMMA FillFacts ==
    ASSUME NEW r \in ReaderType, Len(r.buf) < r.size, NEW f \in Texts, NEW b \in Nat
    PROVE  LET g == Fill(r, SubSeq(f, b + 1, Len(f)))
               c == b + Len(g.buf) - Len(r.buf)
           IN  /\ g \in ReaderType /\ g.size = r.size /\ g.maxLine = r.maxLine /\ g.curMax = r.curMax
               /\ g.overflow = r.overflow /\ c \in Nat
               /\ \A a \in Nat : Holding(r, f, a, b) => Holding(g, f, a, c)
  <1> DEFINE av == SubSeq(f, b + 1, Len(f))
             room == r.size - Len(r.buf)
             t == IF Len(av) <= room THEN av ELSE SubSeq(av, 1, room)
             w == r.buf \o t
             g == Fill(r, av)
             n == Len(t)
             k == Len(r.buf)
             d == [size |-> r.size, maxLine |-> r.maxLine, curMax |-> r.curMax, buf |-> w, overflow |-> r.overflow]
  <1>1. /\ r.size \in Nat \ {0} /\ r.maxLine \in Nat \ {0} /\ r.curMax \in Nat \ {0} /\ r.buf \in Texts /\ r.overflow \in Texts
        /\ k \in Nat /\ Len(r.overflow) \in Nat /\ Len(f) \in Nat
    BY ReaderFields DEF Texts
  <1>2. room \in Nat
    BY <1>1
  <1>3. /\ t \in Texts /\ n \in Nat /\ (n = 0 \/ b + n <= Len(f)) /\ \A i \in 1 .. n : t[i] = f[b + i]
    <2>1. CASE b <= Len(f)
      <3> DEFINE L == Len(f)
      <3>1. L \in Nat /\ b <= L /\ L <= Len(f)
        BY <1>1, <2>1
      <3>2. av \in Texts /\ Len(av) = L - b /\ \A i \in 1 .. L - b : av[i] = f[b + i]
        <4>1. SubSeq(f, b + 1, L) \in Texts /\ Len(SubSeq(f, b + 1, L)) = L - b /\ \A i \in 1 .. L - b : SubSeq(f, b + 1, L)[i] = f[b + i]
          <5> HIDE DEF L
          <5> QED  BY <3>1, PartOf
        <4> QED  BY <4>1
      <3> HIDE DEF av, L, room
      <3>3. CASE Len(av) <= room
        <4>1. t = av
          BY <3>3
        <4> HIDE DEF t
        <4>2. b + (L - b) <= Len(f) /\ L - b \in Nat
          BY <3>1
        <4> QED  BY <3>2, <4>1, <4>2
      <3>4. CASE ~(Len(av) <= room)
        <4>1. t = SubSeq(av, 1, room)
          BY <3>4
        <4> DEFINE z == 0
        <4>2. z \in Nat /\ z <= room /\ room <= Len(av) /\ z + 1 = 1 /\ room - z = room /\ b + room <= L
          BY <1>2, <3>1, <3>2, <3>4
        <4>3. /\ SubSeq(av, z + 1, room) \in Texts /\ Len(SubSeq(av, z + 1, room)) = room - z
              /\ \A i \in 1 .. room - z : SubSeq(av, z + 1, room)[i] = av[z + i]
          <5> HIDE DEF z
          <5> QED  BY <1>2, <3>2, <4>2, PartOf
        <4>4. /\ SubSeq(av, 1, room) \in Texts /\ Len(SubSeq(av, 1, room)) = room
              /\ \A i \in 1 .. room : SubSeq(av, 1, room)[i] = av[i]
          <5>1. \A i \in 1 .. room : z + i = i
            OBVIOUS
          <5> QED  BY <4>2, <4>3, <5>1
        <4>5. \A i \in 1 .. room : i \in 1 .. L - b
          BY <1>2, <3>1, <4>2
        <4>6. n = room
          BY <4>1, <4>4
        <4>7. \A i \in 1 .. room : t[i] = f[b + i]
          <5> HIDE DEF t
          <5> QED  BY <3>2, <4>1, <4>4, <4>5
        <4> HIDE DEF t, n
        <4> QED  BY <1>2, <4>1, <4>2, <4>4, <4>6, <4>7 DEF L
      <3> QED  BY <3>3, <3>4
    <2>2. CASE ~(b <= Len(f))
      <3>1. av = <<>> /\ av \in Texts
        <4> DEFINE L == Len(f)  m == b + 1
        <4>1. m \in Int /\ L \in Int /\ ~(m <= L) /\ \A i \in m .. L : f[i] \in Bytes
          BY <1>1, <2>2
        <4>2. SubSeq(f, m, L) \in Seq(Bytes) /\ Len(SubSeq(f, m, L)) = 0
          <5> HIDE DEF m, L
          <5> QED  BY <4>1, SubSeqProperties
        <4>3. SubSeq(f, m, L) = <<>>
          <5> HIDE DEF m, L
          <5> QED  BY <4>2, EmptySeq
        <4> QED  BY <4>2, <4>3 DEF Texts
      <3> HIDE DEF av
      <3>2. Len(av) = 0
        BY <3>1
      <3>3. t = av
        BY <1>2, <3>2
      <3> HIDE DEF t
      <3> QED  BY <3>1, <3>2, <3>3
    <2> QED  BY <2>1, <2>2
  <1>4. g = [r EXCEPT !.buf = w]
    BY Zenon DEF Fill
  <1> HIDE DEF t, av, room
  <1>5. w \in Texts /\ Len(w) = k + n /\ \A i \in 1 .. k + n : w[i] = IF i <= k THEN r.buf[i] ELSE t[i - k]
    <2> DEFINE s == r.buf
    <2>1. s \in Seq(Bytes) /\ t \in Seq(Bytes)
      BY <1>1, <1>3 DEF Texts
    <2> HIDE DEF s
    <2>2. s \o t \in Seq(Bytes) /\ Len(s \o t) = Len(s) + Len(t) /\ \A i \in 1 .. Len(s) + Len(t) : (s \o t)[i] = IF i <= Len(s) THEN s[i] ELSE t[i - Len(s)]
      BY <2>1, ConcatProperties
    <2> QED  BY <2>2 DEF s, Texts
  <1> HIDE DEF w
  <1>6. g = d
    <2> DEFINE f1 == r.size  f2 == r.maxLine  f3 == r.curMax  f4 == r.buf  f5 == r.overflow
    <2>1. r = [size |-> f1, maxLine |-> f2, curMax |-> f3, buf |-> f4, overflow |-> f5]
      BY DEF ReaderType
    <2> HIDE DEF f1, f2, f3, f4, f5, g
    <2>2. [r EXCEPT !.buf = w] = [size |-> f1, maxLine |-> f2, curMax |-> f3, buf |-> w, overflow |-> f5]
      BY <2>1
    <2> QED  BY <1>4, <2>2, Zenon DEF f1, f2, f3, f5
  <1>7. /\ g \in ReaderType /\ g.size = r.size /\ g.maxLine = r.maxLine /\ g.curMax = r.curMax
        /\ g.overflow = r.overflow /\ g.buf = w
    <2> HIDE DEF g
    <2> QED  BY <1>1, <1>5, <1>6 DEF ReaderType
  <1> DEFINE c == b + Len(g.buf) - k
  <1> HIDE DEF g
  <1>8. c = b + n
    <2>1. Len(g.buf) = k + n
      BY <1>5, <1>7
    <2> HIDE DEF k, n
    <2> QED  BY <1>1, <1>3, <2>1
  <1> HIDE DEF c
  <1>9. ASSUME NEW a \in Nat, Holding(r, f, a, b) PROVE Holding(g, f, a, c)
    <2> DEFINE p == Len(r.overflow)
    <2>1. /\ a <= b /\ (b <= Len(f) \/ a = b) /\ p + k = b - a
          /\ \A i \in 1 .. p : r.overflow[i] = f[a + i]
          /\ \A i \in 1 .. k : r.buf[i] = f[a + p + i]
      BY <1>9 DEF Holding
    <2>2. p \in Nat
      BY <1>1
    <2>3. Len(g.overflow) = p /\ Len(g.buf) = k + n
      BY <1>5, <1>7
    <2>4. n = 0 \/ b + n <= Len(f)
      BY <1>3
    <2> HIDE DEF p, k, n
    <2>5. a <= c /\ (c <= Len(f) \/ a = c) /\ p + (k + n) = c - a
      BY <1>1, <1>3, <1>8, <2>1, <2>2, <2>4
    <2>6. \A i \in 1 .. k + n : w[i] = f[a + p + i]
      <3> TAKE i \in 1 .. k + n
      <3>1. CASE i <= k
        <4>1. i \in 1 .. k
          BY <1>1, <3>1
        <4> QED  BY <1>5, <2>1, <3>1, <4>1
      <3>2. CASE ~(i <= k)
        <4>1. i - k \in 1 .. n /\ a + p + i = b + (i - k)
          BY <1>1, <1>3, <2>1, <2>2, <3>2
        <4> QED  BY <1>3, <1>5, <3>2, <4>1
      <3> QED  BY <3>1, <3>2
    <2>7. \A i \in 1 .. p : g.overflow[i] = f[a + i]
      BY <1>7, <2>1
    <2>8. \A i \in 1 .. k + n : g.buf[i] = f[a + p + i]
      BY <1>7, <2>6
    <2> QED  BY <2>3, <2>5, <2>7, <2>8 DEF Holding
  <1>10. c \in Nat
    BY <1>3, <1>8
  <1> QED  BY <1>7, <1>9, <1>10 DEF g, c, av, k

-----------------------------------------------------------------------------
(* The state of the harvester. *)

\* The theorems are about one codec; see the README for chains.
Simple == \A s \in Setups : Len(s.chain) = 1

\* What is read: types, and a line buffer that needs no overflow has none.
ReadInv ==
    /\ setup \in Setups
    /\ file \in Texts /\ Len(file) <= setup.length
    /\ pos \in Nat
    /\ reader \in ReaderType /\ reader.size = setup.size /\ reader.maxLine = setup.maxLine
    /\ reader.curMax <= reader.maxLine
    /\ setup.size >= setup.maxLine => reader.overflow = <<>> /\ reader.curMax = reader.maxLine
    /\ line.text \in Texts /\ line.len \in Nat /\ Len(line.text) <= line.len

\* One codec of the configuration conf.
OneCodec(ch, conf) == ch \in Seq(CodecType) /\ Len(ch) = 1 /\ ch[1] \in CodecType /\ ch[1].conf = conf

\* What the codec has: lines up to the offset of the harvester, and nothing when
\* no harvester runs.  The read loop waits for its events, the deadline routine
\* sends beside it.
CodecInv ==
    /\ epoch \in Nat /\ seen \in Nat /\ seen <= epoch /\ epoch <= setup.truncations
    /\ offset \in Nat /\ "finishOffset" \in DOMAIN info /\ info.finishOffset \in Nat
    /\ OneCodec(chain, setup.chain[1]) /\ Buffered(chain[1], offset)
    /\ out \in Seq(EventType) /\ last \in EventType
    /\ pc \in {"start", "closed"} => out = <<>> /\ chain[1].buffer = <<>>
    /\ out # <<>> => pc = "emit" \/ setup.chain[1].timeout

\* The reader holds what the file has from the offset of the harvester on, or
\* from the end of the line in hand.
Synced(p, r, f, o, l, b) ==
    /\ p \in {"read", "emit"} => Holding(r, f, o, b)
    /\ p = "got" => Holding(r, f, o + l.len, b)
    /\ p = "got" /\ l.len > 0 => Faithful(Event(o, o + l.len, l.text), f)

Ordered(s) == s.truncations = 0 \/ s.size >= s.maxLine

SyncInv == Ordered(setup) /\ InSync => Synced(pc, reader, file, offset, line, pos)

\* The events q are in a row up to offset l; what is before them was sent,
\* filtered or given up, and nothing else was sent.
Front(q, l, cov, drop) ==
    \E a \in Nat : Chained(q, a, l) /\ 1 .. a \subseteq cov \cup drop /\ cov \subseteq 1 .. a

Exact(s) == s.truncations = 0 \/ (s.chain[1].kind \in {"previous", "next"} /\ ~s.chain[1].timeout)

Fronted(c, o, q, cov, drop, e) ==
    Tight(c, o) /\ Front(q, c.lastOffset, cov, drop) /\ 1 .. e.end \subseteq cov \cup drop

\* Where the harvester goes on, or the next one will.
Resume == IF pc = "closed" THEN info.finishOffset ELSE offset

FrontInv ==
    Exact(setup) => /\ Fronted(chain[1], Resume, out, covered, dropped, last)
                    /\ setup.truncations = 0 => offset <= Len(file) /\ Resume <= Len(file)

Whole(s) ==
    /\ s.truncations = 0 \/ (s.size >= s.maxLine /\ ~s.chain[1].timeout)
    /\ s.chain[1].kind \in {"previous", "next"} => 2 * s.length < s.chain[1].max

\* What is buffered, on its way and sent last is what the file has.
Fidelity(c, q, e, f) == BufferFaithful(c, f) /\ AllFaithful(q, f) /\ Faithful(e, f)

FaithInv == Whole(setup) /\ InSync => Fidelity(chain[1], out, last, file)

HarvesterInv == ReadInv /\ CodecInv /\ SyncInv /\ FrontInv /\ FaithInv

LEMMA SetupFields ==
    ASSUME Simple, NEW s \in Setups
    PROVE  /\ s.length \in Nat /\ s.size \in Nat \ {0} /\ s.maxLine \in Nat \ {0} /\ s.truncations \in Nat
           /\ DOMAIN s.chain = 1 .. 1 /\ s.chain[1] \in CodecConf /\ 1 \in 1 .. 1
           /\ s.chain[1].timeout => s.chain[1].kind = "previous"
  <1>1. s \in Setup /\ Len(s.chain) = 1
    BY HarvesterAssumption DEF Simple
  <1>2. /\ s.length \in Nat /\ s.size \in Nat \ {0} /\ s.maxLine \in Nat \ {0} /\ s.truncations \in Nat
        /\ s.chain \in Seq(CodecConf)
    BY <1>1 DEF Setup, CodecConf
  <1>3. DOMAIN s.chain = 1 .. 1 /\ s.chain[1] \in CodecConf
    BY <1>1, <1>2
  <1>4. s.chain[1].timeout => s.chain[1].kind = "previous"
    <2>1. 1 \in 1 .. Len(s.chain)
      BY <1>1
    <2> QED  BY <2>1, HarvesterAssumption
  <1> QED  BY <1>2, <1>3, <1>4

LEMMA NewReader ==
    ASSUME NEW n \in Nat \ {0}, NEW m \in Nat \ {0}
    PROVE  /\ NewLineReader(n, m) \in ReaderType /\ NewLineReader(n, m).size = n /\ NewLineReader(n, m).maxLine = m
           /\ NewLineReader(n, m).curMax = m /\ NewLineReader(n, m).buf = <<>> /\ NewLineReader(n, m).overflow = <<>>
  <1>1. <<>> \in Texts
    BY DEF Texts
  <1> QED  BY <1>1 DEF NewLineReader, ReaderType

LEMMA ResetFacts ==
    ASSUME NEW r \in ReaderType
    PROVE  /\ ResetReader(r) \in ReaderType /\ ResetReader(r).size = r.size /\ ResetReader(r).maxLine = r.maxLine
           /\ ResetReader(r).curMax = r.curMax /\ ResetReader(r).buf = <<>> /\ ResetReader(r).overflow = r.overflow
  <1>1. <<>> \in Texts
    BY DEF Texts
  <1> QED  BY <1>1 DEF ResetReader, ReaderType

LEMMA NoLine == AtEOF.text = <<>> /\ AtEOF.text \in Texts /\ AtEOF.len = 0 /\ Len(AtEOF.text) = 0
  <1>1. <<>> \in Texts /\ Len(<<>>) = 0
    BY DEF Texts
  <1> QED  BY <1>1 DEF AtEOF

\* What ReadLine takes from the buffer.
Taken == IF LineEnd(reader) > 0 THEN LineEnd(reader) ELSE reader.curMax
Ending == IF LineEnd(reader) > 0 THEN EndingLen(CutLine(reader, Taken).line) ELSE 0

LEMMA ReadLineFacts ==
    ASSUME ReadInv, ReadLine
    PROVE  /\ Taken \in Nat /\ Taken >= 1 /\ Taken <= Len(reader.buf)
           /\ reader' = CutLine(reader, Taken).reader
           /\ line'.text \in Texts /\ line'.len \in Nat /\ line'.len >= 1 /\ Len(line'.text) <= line'.len
           /\ line'.len = Len(CutLine(reader, Taken).line)
           /\ Content(line'.text) = Content(CutLine(reader, Taken).line)
  <1> DEFINE n == Taken
             l == CutLine(reader, n).line
             e == LineEnd(reader)
             m == Len(reader.overflow)
  <1>1. /\ e > 0 \/ TooLong(reader)
        /\ line' = [text |-> SubSeq(l, 1, Len(l) - Ending), len |-> Len(l)]
        /\ reader' = CutLine(reader, n).reader
    BY Zenon DEF ReadLine, Taken, Ending
  <1>2. reader \in ReaderType
    BY DEF ReadInv
  <1>3. e \in Nat /\ e <= Len(reader.buf) /\ (e # 0 => reader.buf[e] = Newline)
    BY <1>2, LineEndFacts
  <1>4. Len(reader.buf) \in Nat /\ reader.curMax \in Nat /\ reader.curMax >= 1 /\ m \in Nat
    BY <1>2, ReaderFields
  <1>5. n \in Nat /\ n >= 1 /\ n <= Len(reader.buf)
    <2> HIDE DEF e
    <2> QED  BY <1>1, <1>3, <1>4 DEF Taken, TooLong, e
  <1> HIDE DEF n
  <1>6. /\ l \in Texts /\ Len(l) = m + n
        /\ \A i \in 1 .. m + n : l[i] = IF i <= m THEN reader.overflow[i] ELSE reader.buf[i - m]
    BY <1>2, <1>5, CutFacts
  <1> DEFINE t == SubSeq(l, 1, Len(l) - Ending)
  <1> HIDE DEF l, m
  <1>7. t \in Texts /\ Len(t) <= Len(l) /\ Content(t) = Content(l)
    <2>1. CASE e > 0
      <3>1. n = e /\ Ending = EndingLen(l)
        BY <2>1 DEF n, Taken, Ending, l
      <3>2. m + n \in 1 .. m + n /\ ~(m + n <= m) /\ (m + n) - m = n
        BY <1>4, <1>5
      <3>3. l[Len(l)] = reader.buf[n]
        BY <1>6, <3>2
      <3>4. l[Len(l)] = Newline /\ Len(l) >= 1
        BY <1>3, <1>4, <1>5, <1>6, <2>1, <3>1, <3>3
      <3>5. /\ Len(l) - EndingLen(l) \in Nat /\ SubSeq(l, 1, Len(l) - EndingLen(l)) \in Texts
            /\ Len(SubSeq(l, 1, Len(l) - EndingLen(l))) = Len(l) - EndingLen(l)
            /\ Content(SubSeq(l, 1, Len(l) - EndingLen(l))) = Content(l)
        BY <1>6, <3>4, EndingCut
      <3>6. EndingLen(l) \in Nat
        BY DEF EndingLen
      <3>7. Len(l) - EndingLen(l) <= Len(l)
        BY <1>4, <1>5, <1>6, <3>6
      <3> QED  BY <3>1, <3>5, <3>7
    <2>2. CASE ~(e > 0)
      <3>1. Ending = 0
        BY <2>2 DEF Ending
      <3>2. Len(l) - Ending = Len(l) /\ Len(l) \in Nat
        BY <1>4, <1>5, <1>6, <3>1
      <3>3. t = SubSeq(l, 1, Len(l))
        BY <3>2
      <3>4. SubSeq(l, 1, Len(l)) = l
        BY <1>6, SubSeqFull DEF Texts
      <3>5. t = l
        BY <3>3, <3>4
      <3> HIDE DEF t
      <3> QED  BY <1>6, <3>2, <3>5
    <2> QED  BY <2>1, <2>2
  <1>8. Len(l) \in Nat /\ Len(l) >= 1
    BY <1>4, <1>5, <1>6
  <1> HIDE DEF t
  <1>9. line'.text = t /\ line'.len = Len(l)
    <2>1. line' = [text |-> t, len |-> Len(l)]
      BY <1>1 DEF t, l
    <2> QED  BY <2>1
  <1> QED  BY <1>1, <1>5, <1>7, <1>8, <1>9 DEF n, l

LEMMA ReadMoreFacts ==
    ASSUME ReadInv, ReadMore
    PROVE  /\ reader' \in ReaderType /\ reader'.size = reader.size /\ reader'.maxLine = reader.maxLine
           /\ reader'.curMax <= reader.curMax /\ pos' \in Nat
           /\ reader.size >= reader.curMax => reader'.curMax = reader.curMax /\ reader'.overflow = reader.overflow
           /\ \A a \in Nat : Holding(reader, file, a, pos) => Holding(reader', file, a, pos')
  <1> DEFINE r == Spill(reader)
             g == Fill(r, SubSeq(file, pos + 1, Len(file)))
             c == pos + Len(g.buf) - Len(r.buf)
  <1>1. ~TooLong(reader) /\ reader' = g /\ pos' = c
    <2>1. ~TooLong(reader) /\ reader' = g /\ pos' = pos + Len(reader'.buf) - Len(r.buf)
      BY Zenon DEF ReadMore
    <2> QED  BY <2>1, Zenon
  <1>2. reader \in ReaderType /\ file \in Texts /\ pos \in Nat
    BY DEF ReadInv
  <1>3. /\ r \in ReaderType /\ r.size = reader.size /\ r.maxLine = reader.maxLine /\ r.curMax <= reader.curMax
        /\ Len(r.buf) < r.size
        /\ reader.size >= reader.curMax => r = reader
        /\ \A f, a, b : a \in Nat /\ b \in Nat /\ Holding(reader, f, a, b) => Holding(r, f, a, b)
    BY <1>1, <1>2, SpillFacts
  <1> HIDE DEF r
  <1>4. /\ g \in ReaderType /\ g.size = r.size /\ g.maxLine = r.maxLine /\ g.curMax = r.curMax
        /\ g.overflow = r.overflow /\ c \in Nat
        /\ \A a \in Nat : Holding(r, file, a, pos) => Holding(g, file, a, c)
    BY <1>2, <1>3, FillFacts
  <1> HIDE DEF g, c
  <1> QED  BY <1>1, <1>2, <1>3, <1>4

LEMMA ReadStart == ASSUME Simple, Init PROVE ReadInv
  <1>1. setup \in Setups /\ setup.length \in Nat /\ setup.size \in Nat \ {0} /\ setup.maxLine \in Nat \ {0}
    BY SetupFields DEF Init
  <1>2. file \in Texts /\ Len(file) <= setup.length /\ pos \in Nat
    BY <1>1 DEF Init, Texts
  <1>3. /\ reader \in ReaderType /\ reader.size = setup.size /\ reader.maxLine = setup.maxLine
        /\ reader.curMax = setup.maxLine /\ reader.overflow = <<>>
    BY <1>1, NewReader DEF Init
  <1>4. line.text \in Texts /\ line.len \in Nat /\ Len(line.text) <= line.len
    BY NoLine DEF Init
  <1> QED  BY <1>1, <1>2, <1>3, <1>4 DEF ReadInv

LEMMA ReadStep ==
    ASSUME Simple, ReadInv, offset \in Nat, [Next]_vars
    PROVE  ReadInv'
  <1>0. setup \in Setups /\ setup.length \in Nat /\ setup.size \in Nat \ {0} /\ setup.maxLine \in Nat \ {0}
    BY SetupFields DEF ReadInv
  <1>1. CASE UNCHANGED <<setup, file, pos, reader, line>>
    BY <1>1 DEF ReadInv
  <1>2. CASE UNCHANGED <<setup, file, pos, reader>> /\ line' = AtEOF
    BY <1>2, NoLine DEF ReadInv
  <1>3. ASSUME NEW b \in Bytes, WriteByte(b) PROVE ReadInv'
    <2>1. /\ Len(file) < setup.length /\ file' = Append(file, b) /\ UNCHANGED <<setup, pos, reader, line>>
      BY <1>3 DEF WriteByte, readVars
    <2>2. file \in Texts
      BY DEF ReadInv
    <2>3. file' \in Texts /\ Len(file') = Len(file) + 1 /\ Len(file) \in Nat
      BY <2>1, <2>2, AppendProperties DEF Texts
    <2>4. Len(file') <= setup'.length
      BY <1>0, <2>1, <2>3
    <2> QED  BY <2>1, <2>3, <2>4 DEF ReadInv
  <1>4. CASE Truncate
    <2>1. file' = <<>> /\ UNCHANGED <<setup, pos, reader, line>>
      BY <1>4 DEF Truncate, readVars
    <2>2. file' \in Texts /\ Len(file') <= setup'.length
      BY <1>0, <2>1 DEF Texts
    <2> QED  BY <2>1, <2>2 DEF ReadInv
  <1>5. ASSUME UNCHANGED <<setup, file>>, pos' \in Nat, line' \in {line, AtEOF}, reader' = NewLineReader(setup.size, setup.maxLine)
        PROVE  ReadInv'
    <2>1. /\ reader' \in ReaderType /\ reader'.size = setup.size /\ reader'.maxLine = setup.maxLine
          /\ reader'.curMax = setup.maxLine /\ reader'.overflow = <<>>
      BY <1>0, <1>5, NewReader
    <2>2. line'.text \in Texts /\ line'.len \in Nat /\ Len(line'.text) <= line'.len
      BY <1>5, NoLine DEF ReadInv
    <2> QED  BY <1>0, <1>5, <2>1, <2>2 DEF ReadInv
  <1>6. CASE ReadLine
    <2>1. /\ Taken \in Nat /\ Taken <= Len(reader.buf)
          /\ reader' = CutLine(reader, Taken).reader
          /\ line'.text \in Texts /\ line'.len \in Nat /\ Len(line'.text) <= line'.len
      BY <1>6, ReadLineFacts
    <2>2. reader \in ReaderType /\ UNCHANGED <<setup, file, pos>>
      BY <1>6 DEF ReadInv, ReadLine, fileVars
    <2>3. /\ reader' \in ReaderType /\ reader'.size = reader.size /\ reader'.maxLine = reader.maxLine
          /\ reader'.curMax = reader.maxLine /\ reader'.overflow = <<>>
      BY <2>1, <2>2, CutFacts
    <2> HIDE DEF Taken
    <2> QED  BY <1>0, <2>1, <2>2, <2>3 DEF ReadInv
  <1>7. CASE ReadMore
    <2>1. /\ reader' \in ReaderType /\ reader'.size = reader.size /\ reader'.maxLine = reader.maxLine
          /\ reader'.curMax <= reader.curMax /\ pos' \in Nat
          /\ reader.size >= reader.curMax => reader'.curMax = reader.curMax /\ reader'.overflow = reader.overflow
      BY <1>7, ReadMoreFacts
    <2>2. UNCHANGED <<setup, file, line>>
      BY <1>7 DEF ReadMore, fileVars
    <2>3. reader.curMax \in Nat /\ reader'.curMax \in Nat
      BY <2>1, ReaderFields DEF ReadInv
    <2>4. reader'.curMax <= reader'.maxLine
      BY <1>0, <2>1, <2>3 DEF ReadInv
    <2>5. setup.size >= setup.maxLine => reader'.overflow = <<>> /\ reader'.curMax = reader'.maxLine
      BY <1>0, <2>1 DEF ReadInv
    <2> QED  BY <1>0, <2>1, <2>2, <2>4, <2>5 DEF ReadInv
  <1>8. CASE CheckTruncated
    <2>1. pos' = 0 /\ reader' = ResetReader(reader) /\ UNCHANGED <<setup, file, line>>
      BY <1>8 DEF CheckTruncated, fileVars
    <2>2. reader \in ReaderType
      BY DEF ReadInv
    <2>3. /\ reader' \in ReaderType /\ reader'.size = reader.size /\ reader'.maxLine = reader.maxLine
          /\ reader'.curMax = reader.curMax /\ reader'.overflow = reader.overflow
      BY <2>1, <2>2, ResetFacts
    <2> QED  BY <2>1, <2>3 DEF ReadInv
  <1>9. CASE Open
    <2>1. UNCHANGED <<setup, file, line>> /\ pos' = offset /\ reader' = NewLineReader(setup.size, setup.maxLine)
      BY <1>9 DEF Open, fileVars
    <2> QED  BY <1>5, <2>1
  <1>10. CASE Finish
    <2>1. UNCHANGED <<setup, file>> /\ pos' = 0 /\ line' = AtEOF /\ reader' = NewLineReader(setup.size, setup.maxLine)
      BY <1>10 DEF Finish, Forget, fileVars
    <2> QED  BY <1>5, <2>1
  <1>11. CASE ReadEOF \/ PerformRead \/ CheckPasses
    BY <1>2, <1>11 DEF ReadEOF, PerformRead, CheckPasses, Apply, fileVars
  <1>12. CASE OpenFails \/ ReadFails \/ MeasureStop \/ NothingToSend \/ CheckDead
    BY <1>1, <1>12 DEF OpenFails, ReadFails, MeasureStop, NothingToSend, CheckDead, fileVars, readVars
  <1>13. CASE Send \/ GiveUp \/ BlockedCheck \/ DeadlineFlush
    BY <1>1, <1>13 DEF Send, GiveUp, BlockedCheck, DeadlineFlush, fileVars, readVars
  <1>14. CASE ScanStat \/ ScanProcess \/ Stop \/ UNCHANGED vars
    BY <1>1, <1>14 DEF ScanStat, ScanProcess, Stop, vars, fileVars, readVars
  <1> QED  BY <1>3, <1>4, <1>6, <1>7, <1>8, <1>9, <1>10, <1>11, <1>12, <1>13, <1>14, Zenon DEF Next, ReadLoop, Check

-----------------------------------------------------------------------------
(* The codec of the harvester. *)

LEMMA OneNew ==
    ASSUME Simple, setup \in Setups, NEW from \in Nat
    PROVE  /\ OneCodec(NewChain(from), setup.chain[1])
           /\ NewChain(from)[1].buffer = <<>> /\ NewChain(from)[1].lastOffset = from
  <1> DEFINE c == NewCodec(setup.chain[1], from)
             ch == NewChain(from)
  <1>1. DOMAIN setup.chain = 1 .. 1 /\ setup.chain[1] \in CodecConf
    BY SetupFields
  <1>2. <<>> \in Buffers
    BY DEF Buffers
  <1>3. c \in CodecType /\ c.conf = setup.chain[1] /\ c.buffer = <<>> /\ c.lastOffset = from
    BY <1>1, <1>2 DEF NewCodec, CodecType
  <1>4. ch = [i \in 1 .. 1 |-> NewCodec(setup.chain[i], from)]
    BY <1>1 DEF NewChain
  <1> HIDE DEF ch
  <1>5. ch[1] = c /\ DOMAIN ch = 1 .. 1 /\ \A i \in 1 .. 1 : ch[i] = c
    <2>1. \A i \in 1 .. 1 : i = 1
      OBVIOUS
    <2>2. \A i \in 1 .. 1 : ch[i] = NewCodec(setup.chain[i], from)
      BY <1>4
    <2>3. DOMAIN ch = 1 .. 1
      BY <1>4
    <2> HIDE DEF c
    <2>4. ch[1] = c
      BY <2>2 DEF c
    <2> QED  BY <2>1, <2>3, <2>4
  <1> HIDE DEF c
  <1>6. ch = [i \in 1 .. 1 |-> ch[i]]
    BY <1>4
  <1>7. ch \in [1 .. 1 -> CodecType]
    BY <1>3, <1>5, <1>6
  <1>8. ch \in Seq(CodecType) /\ Len(ch) = 1
    <2> DEFINE n == 1
    <2>1. n \in Nat /\ ch \in [1 .. n -> CodecType]
      BY <1>7
    <2> HIDE DEF n
    <2>2. ch \in Seq(CodecType) /\ Len(ch) = n
      BY <2>1
    <2> QED  BY <2>2 DEF n
  <1> QED  BY <1>3, <1>5, <1>8 DEF OneCodec, ch

LEMMA OneExcept ==
    ASSUME NEW ch, NEW conf, OneCodec(ch, conf), NEW d \in CodecType, d.conf = conf
    PROVE  OneCodec([ch EXCEPT ![1] = d], conf) /\ [ch EXCEPT ![1] = d][1] = d
  <1>1. ch \in Seq(CodecType) /\ Len(ch) = 1
    BY DEF OneCodec
  <1>2. [ch EXCEPT ![1] = d][1] = d /\ [ch EXCEPT ![1] = d] \in Seq(CodecType) /\ Len([ch EXCEPT ![1] = d]) = 1
    <2>1. 1 \in 1 .. Len(ch)
      BY <1>1
    <2> QED  BY <1>1, <2>1, ExceptSeq
  <1> QED  BY <1>2 DEF OneCodec

LEMMA OneSeq ==
    ASSUME NEW conf, NEW d \in CodecType, d.conf = conf
    PROVE  OneCodec(<<d>>, conf) /\ <<d>>[1] = d
  <1>1. <<d>> \in Seq(CodecType) /\ Len(<<d>>) = 1 /\ <<d>>[1] = d
    OBVIOUS
  <1> QED  BY <1>1 DEF OneCodec

LEMMA ResetCodecFacts ==
    ASSUME NEW c \in CodecType
    PROVE  /\ ResetCodec(c) \in CodecType /\ ResetCodec(c).conf = c.conf
           /\ Multiline(c) => ResetCodec(c).buffer = <<>> /\ ResetCodec(c).lastOffset = 0
           /\ ~Multiline(c) => ResetCodec(c) = c
  <1> DEFINE none == <<>>
  <1>1. CASE Multiline(c)
    <2>1. ResetCodec(c) = CodecOf(c.conf, 0, c.startOffset, c.endOffset, none)
      BY <1>1, SetBufferLast DEF ResetCodec
    <2>2. c.conf \in CodecConf /\ c.startOffset \in Nat /\ c.endOffset \in Nat
      BY CodecFields
    <2>3. none \in Buffers /\ 0 \in Nat
      BY DEF Buffers
    <2> HIDE DEF none
    <2>4. ResetCodec(c) \in CodecType /\ ResetCodec(c).conf = c.conf /\ ResetCodec(c).buffer = none /\ ResetCodec(c).lastOffset = 0
      BY <2>1, <2>2, <2>3, CodecWith
    <2> QED  BY <1>1, <2>4 DEF none
  <1>2. CASE ~Multiline(c)
    BY <1>2 DEF ResetCodec
  <1> QED  BY <1>1, <1>2

\* What ApplyLine gives to the codec, and what the codec makes of it.
LineEvent == Event(offset, offset + line.len, line.text)

LEMMA ApplyFacts ==
    ASSUME Simple, ReadInv, CodecInv, ApplyLine, line.len > 0
    PROVE  /\ LineEvent.start = offset /\ LineEvent.end = offset' /\ offset' = offset + line.len /\ offset' \in Nat
           /\ LineEvent \in EventType /\ out = <<>>
           /\ OneCodec(chain', setup.chain[1]) /\ Buffered(chain'[1], offset') /\ out' \in Seq(EventType)
           /\ IF Filtered(LineEvent) THEN FilteredOK(chain[1], LineEvent, chain'[1], out')
              ELSE EventOK(chain[1], LineEvent, chain'[1], out')
           /\ covered' = IF Filtered(LineEvent) THEN covered \cup Positions(LineEvent) ELSE covered
           /\ pc' = "emit"
  <1> DEFINE e == LineEvent
             c == chain[1]
             r == CodecEvent(c, e)
  <1>1. line.text \in Texts /\ line.len \in Nat /\ Len(line.text) <= line.len /\ Len(line.text) \in Nat /\ offset \in Nat
    BY DEF ReadInv, CodecInv, Texts
  <1>2. /\ offset' = offset + line.len /\ out = <<>> /\ pc' = "emit"
        /\ \E x \in {ChainEvent(chain, e)} : chain' = x.chain /\ out' = x.events
        /\ covered' = IF Filtered(e) THEN covered \cup Positions(e) ELSE covered
    BY DEF ApplyLine, CodecFree, LineEvent
  <1>3. chain' = ChainEvent(chain, e).chain /\ out' = ChainEvent(chain, e).events
    BY <1>2, Zenon
  <1>4. offset + line.len \in Nat
    BY <1>1
  <1>5. e \in EventType /\ e.start = offset /\ e.end = offset + line.len /\ e.text = line.text
    BY <1>1, <1>4, EventFields DEF LineEvent
  <1>6. OneCodec(chain, setup.chain[1]) /\ Buffered(c, offset)
    BY DEF CodecInv
  <1>7. c \in CodecType /\ chain \in Seq(CodecType) /\ Len(chain) = 1 /\ c.conf = setup.chain[1]
    BY <1>6 DEF OneCodec
  <1> HIDE DEF e
  <1>8. NextLineAt(e, e.start)
    BY <1>1, <1>5 DEF NextLineAt
  <1>9. IF c.conf.kind = "filter" /\ ~Match(e.text) THEN FilteredOK(c, e, r.codec, r.events) ELSE EventOK(c, e, r.codec, r.events)
    BY <1>5, <1>6, <1>7, <1>8, CodecStep
  <1> HIDE DEF r
  <1>10. r.events \in Seq(EventType) /\ r.codec \in CodecType /\ r.codec.conf = c.conf /\ Buffered(r.codec, e.end)
    <2>1. CASE FilteredOK(c, e, r.codec, r.events)
      <3>1. <<>> \in Seq(EventType)
        OBVIOUS
      <3> QED  BY <2>1, <3>1 DEF FilteredOK, Buffered
    <2>2. CASE EventOK(c, e, r.codec, r.events)
      BY <2>2 DEF EventOK, StepOK
    <2> QED  BY <1>9, <2>1, <2>2
  <1>11. chain' = <<r.codec>> /\ out' = r.events
    BY <1>3, <1>7, <1>10, ChainOne DEF r
  <1>12. OneCodec(<<r.codec>>, setup.chain[1]) /\ <<r.codec>>[1] = r.codec
    BY <1>7, <1>10, OneSeq
  <1>13. OneCodec(chain', setup.chain[1]) /\ chain'[1] = r.codec
    BY <1>11, <1>12, Zenon
  <1>14. Filtered(e) <=> c.conf.kind = "filter" /\ ~Match(e.text)
    BY <1>7 DEF Filtered
  <1>15. IF Filtered(e) THEN FilteredOK(c, e, chain'[1], out') ELSE EventOK(c, e, chain'[1], out')
    BY <1>9, <1>11, <1>13, <1>14, Zenon
  <1> QED  BY <1>2, <1>4, <1>5, <1>10, <1>11, <1>13, <1>15 DEF e

LEMMA CodecStart == ASSUME Simple, Init PROVE CodecInv
  <1>1. setup \in Setups /\ setup.truncations \in Nat
    BY SetupFields DEF Init
  <1>2. epoch \in Nat /\ seen \in Nat /\ seen <= epoch /\ epoch <= setup.truncations /\ offset \in Nat
    BY <1>1 DEF Init
  <1>3. "finishOffset" \in DOMAIN info /\ info.finishOffset \in Nat
    BY DEF Init
  <1>4. OneCodec(chain, setup.chain[1]) /\ chain[1].buffer = <<>>
    <2>1. chain = NewChain(0) /\ 0 \in Nat
      BY DEF Init
    <2> QED  BY <1>1, <2>1, OneNew
  <1>5. out = <<>> /\ out \in Seq(EventType)
    BY DEF Init
  <1>6. last \in EventType
    <2>1. last = Event(0, 0, <<>>) /\ <<>> \in Texts /\ 0 \in Nat
      BY DEF Init, NoEvent, Texts
    <2> QED  BY <2>1, EventFields
  <1> QED  BY <1>2, <1>3, <1>4, <1>5, <1>6 DEF CodecInv, Buffered

LEMMA CodecInvStep ==
    ASSUME Simple, ReadInv, CodecInv, [Next]_vars
    PROVE  CodecInv'
  <1> DEFINE conf == setup.chain[1]
  <1>0. setup \in Setups /\ setup.truncations \in Nat
    BY SetupFields DEF ReadInv
  <1>1. /\ epoch \in Nat /\ seen \in Nat /\ seen <= epoch /\ epoch <= setup.truncations
        /\ offset \in Nat /\ "finishOffset" \in DOMAIN info /\ info.finishOffset \in Nat
        /\ OneCodec(chain, conf) /\ Buffered(chain[1], offset)
        /\ out \in Seq(EventType) /\ last \in EventType
        /\ pc \in {"start", "closed"} => out = <<>> /\ chain[1].buffer = <<>>
        /\ out # <<>> => pc = "emit" \/ conf.timeout
    BY DEF CodecInv
  <1>2. chain[1] \in CodecType /\ chain[1].conf = conf /\ Len(chain) = 1
    BY <1>1 DEF OneCodec
  <1>3. ASSUME UNCHANGED <<setup, epoch, seen, offset, info, chain, out, last>>,
               \/ pc' = pc
               \/ pc # "emit" /\ pc' \notin {"start", "closed"}
               \/ out = <<>> /\ pc' = "read"
        PROVE  CodecInv'
    BY <1>1, <1>3 DEF CodecInv
  <1>4. CASE \E b \in Bytes : WriteByte(b)
    BY <1>3, <1>4 DEF WriteByte, histVars
  <1>5. CASE Truncate
    <2>1. /\ epoch < setup.truncations /\ epoch' = epoch + 1
          /\ UNCHANGED <<setup, seen, offset, info, chain, out, last, pc>>
      BY <1>5 DEF Truncate, histVars
    <2>2. epoch' \in Nat /\ seen <= epoch' /\ epoch' <= setup.truncations
      BY <1>0, <1>1, <2>1
    <2> QED  BY <1>1, <2>1, <2>2 DEF CodecInv
  <1>6. CASE OpenFails
    <2>1. /\ pc = "start" /\ pc' = "closed" /\ info' = [info EXCEPT !.finishOffset = offset, !.failed = TRUE]
          /\ UNCHANGED <<setup, epoch, seen, offset, chain, out, last>>
      BY <1>6 DEF OpenFails, histVars, fileVars
    <2>2. "finishOffset" \in DOMAIN info' /\ info'.finishOffset = offset
      BY <1>1, <2>1
    <2> QED  BY <1>1, <2>1, <2>2 DEF CodecInv
  <1>7. CASE Open \/ ReadLine \/ ReadMore \/ ReadEOF \/ ReadFails \/ MeasureStop
    <2>1. UNCHANGED <<setup, epoch, seen, offset, info, chain, out, last>>
      BY <1>7 DEF Open, ReadLine, ReadMore, ReadEOF, ReadFails, MeasureStop, histVars, fileVars
    <2>2. pc # "emit" /\ pc' \notin {"start", "closed"}
      BY <1>7 DEF Open, ReadLine, ReadMore, ReadEOF, ReadFails, MeasureStop
    <2> QED  BY <1>3, <2>1, <2>2
  <1>8. CASE CheckDead \/ NothingToSend \/ BlockedCheck
    <2>1. UNCHANGED <<setup, epoch, seen, offset, info, chain, out, last>>
      BY <1>8 DEF CheckDead, NothingToSend, BlockedCheck, histVars, fileVars
    <2>2. (pc # "emit" /\ pc' \notin {"start", "closed"}) \/ (out = <<>> /\ pc' = "read") \/ pc' = pc
      BY <1>8 DEF CheckDead, NothingToSend, BlockedCheck, CheckDue
    <2> QED  BY <1>3, <2>1, <2>2
  <1>9. CASE ScanStat \/ Stop \/ UNCHANGED vars
    <2>1. UNCHANGED <<setup, epoch, seen, offset, info, chain, out, last, pc>>
      BY <1>9 DEF ScanStat, Stop, vars, histVars, fileVars
    <2> QED  BY <1>3, <2>1
  <1>10. CASE PerformRead \/ CheckPasses
    <2>1. pc = "got" /\ Apply /\ UNCHANGED <<setup, epoch, seen, info, last>>
      BY <1>10 DEF PerformRead, CheckPasses, CheckDue, fileVars
    <2>2. CASE line.len > 0
      <3>1. ApplyLine
        BY <2>1, <2>2 DEF Apply
      <3>2. /\ offset' \in Nat /\ OneCodec(chain', conf) /\ Buffered(chain'[1], offset') /\ out' \in Seq(EventType)
            /\ pc' = "emit"
        BY <2>2, <3>1, ApplyFacts
      <3> QED  BY <1>1, <2>1, <3>2 DEF CodecInv
    <2>3. CASE ~(line.len > 0)
      <3>1. ApplyEOF
        BY <2>1, <2>3 DEF Apply
      <3>2. UNCHANGED <<offset, chain, out>> /\ pc' \in {"stop", "read"}
        BY <3>1 DEF ApplyEOF
      <3> QED  BY <1>3, <2>1, <3>2
    <2> QED  BY <2>2, <2>3
  <1>11. CASE CheckTruncated
    <2> DEFINE d == ResetCodec(chain[1])
    <2>1. /\ pc = "got" /\ offset' = 0 /\ chain' = [chain EXCEPT ![1] = d] /\ pc' = "read" /\ seen' = epoch /\ last' = NoEvent
          /\ UNCHANGED <<setup, epoch, out, info>>
      BY <1>11 DEF CheckTruncated, CheckDue, fileVars
    <2>2. d \in CodecType /\ d.conf = conf /\ d.buffer = <<>>
      <3>1. d \in CodecType /\ d.conf = conf
        BY <1>2, ResetCodecFacts
      <3>2. CASE Multiline(chain[1])
        BY <1>2, <3>1, <3>2, ResetCodecFacts
      <3>3. CASE ~Multiline(chain[1])
        BY <1>1, <1>2, <3>1, <3>3, ResetCodecFacts DEF Buffered
      <3> QED  BY <3>2, <3>3
    <2> HIDE DEF d
    <2>3. OneCodec(chain', conf) /\ chain'[1] = d
      BY <1>1, <2>1, <2>2, OneExcept
    <2>4. last' \in EventType
      <3>1. last' = Event(0, 0, <<>>) /\ <<>> \in Texts /\ 0 \in Nat
        BY <2>1 DEF NoEvent, Texts
      <3> QED  BY <3>1, EventFields
    <2>5. offset' \in Nat /\ Buffered(chain'[1], offset')
      BY <2>1, <2>2, <2>3 DEF Buffered
    <2>6. seen' \in Nat /\ seen' <= epoch
      BY <1>1, <2>1
    <2> QED  BY <1>1, <2>1, <2>3, <2>4, <2>5, <2>6 DEF CodecInv
  <1>12. CASE Send \/ GiveUp
    <2>1. /\ out # <<>> /\ out' = Tail(out) /\ last' \in {last, Head(out)}
          /\ pc' = IF owner = "event" /\ pc = "emit" /\ out' = <<>> THEN "read" ELSE pc
          /\ UNCHANGED <<setup, epoch, seen, offset, chain, info>>
      BY <1>12 DEF Send, GiveUp, Returned, fileVars
    <2>2. Tail(out) \in Seq(EventType) /\ Head(out) \in EventType
      BY <1>1, <2>1, HeadTailProperties
    <2> QED  BY <1>1, <2>1, <2>2 DEF CodecInv
  <1>13. CASE DeadlineFlush
    <2> DEFINE r == Flush(chain[1])
    <2>1. /\ pc \in {"read", "got", "stop"} /\ chain[1].conf.timeout /\ chain' = [chain EXCEPT ![1] = r.codec]
          /\ out' = r.events
          /\ UNCHANGED <<setup, epoch, seen, offset, last, info, pc>>
      BY <1>2, <1>13 DEF DeadlineFlush, fileVars, histVars
    <2>2. StepOK(chain[1], offset, r.codec, offset, r.events)
      BY <1>1, <1>2, FlushStep
    <2> HIDE DEF r
    <2>3. r.codec \in CodecType /\ r.codec.conf = conf /\ Buffered(r.codec, offset) /\ r.events \in Seq(EventType)
      BY <1>2, <2>2 DEF StepOK
    <2> DEFINE d == r.codec
    <2>4. d \in CodecType /\ d.conf = conf /\ chain' = [chain EXCEPT ![1] = d]
      BY <2>1, <2>3
    <2> HIDE DEF d, conf
    <2>5. OneCodec(chain', conf) /\ chain'[1] = d
      BY <1>1, <2>4, OneExcept
    <2> QED  BY <1>1, <1>2, <2>1, <2>3, <2>5 DEF CodecInv, conf, d
  <1>14. CASE Finish
    <2> DEFINE from == Teardown(chain)
    <2>1. /\ pc' = "closed" /\ out = <<>> /\ chain' = NewChain(from)
          /\ info' = [finishOffset |-> from, mtime |-> stat, failed |-> error]
          /\ UNCHANGED <<setup, epoch, seen, offset, out, last>>
      BY <1>14 DEF Finish, Forget, CodecFree, fileVars, histVars
    <2>2. from = chain[1].lastOffset
      BY <1>1 DEF Teardown, OneCodec
    <2>3. from \in Nat
      BY <1>2, <2>2, CodecFields
    <2> HIDE DEF from
    <2>4. OneCodec(chain', conf) /\ chain'[1].buffer = <<>>
      BY <1>0, <2>1, <2>3, OneNew
    <2>5. "finishOffset" \in DOMAIN info' /\ info'.finishOffset = from
      BY <2>1
    <2> QED  BY <1>1, <2>1, <2>3, <2>4, <2>5 DEF CodecInv, Buffered
  <1>15. CASE ScanProcess
    <2>1. UNCHANGED <<setup, epoch, seen, out, last>>
      BY <1>15 DEF ScanProcess, fileVars, histVars
    <2>2. "finishOffset" \in DOMAIN info' /\ info'.finishOffset = info.finishOffset
      <3>1. info' = IF pc = "closed" THEN [info EXCEPT !.mtime = scan, !.failed = FALSE] ELSE info
        BY <1>15 DEF ScanProcess
      <3>2. CASE pc = "closed"
        BY <1>1, <3>1, <3>2
      <3>3. CASE pc # "closed"
        BY <1>1, <3>1, <3>3
      <3> QED  BY <3>2, <3>3
    <2>3. CASE pc = "closed" /\ Resumes
      <3>1. pc' = "start" /\ offset' = info.finishOffset /\ chain' = NewChain(info.finishOffset)
        BY <1>15, <2>3 DEF ScanProcess
      <3>2. OneCodec(chain', conf) /\ chain'[1].buffer = <<>>
        BY <1>0, <1>1, <3>1, OneNew
      <3> QED  BY <1>1, <2>1, <2>2, <2>3, <3>1, <3>2 DEF CodecInv, Buffered
    <2>4. CASE ~(pc = "closed" /\ Resumes)
      <3>1. UNCHANGED <<pc, offset, chain>>
        BY <1>15, <2>4 DEF ScanProcess
      <3> QED  BY <1>1, <2>1, <2>2, <3>1 DEF CodecInv
    <2> QED  BY <2>3, <2>4
  <1> QED  BY <1>4, <1>5, <1>6, <1>7, <1>8, <1>9, <1>10, <1>11, <1>12, <1>13, <1>14, <1>15, Zenon DEF Next, ReadLoop, Check

-----------------------------------------------------------------------------
(* The reader and the file. *)

\* What is written goes behind what there is.
LEMMA PartKept ==
    ASSUME NEW f \in Texts, NEW x \in Bytes, NEW a \in Nat, NEW b \in Nat, b <= Len(f)
    PROVE  b <= Len(Append(f, x)) /\ SubSeq(Append(f, x), a + 1, b) = SubSeq(f, a + 1, b)
  <1> DEFINE g == Append(f, x)
             m == a + 1
             s == SubSeq(g, m, b)
             t == SubSeq(f, m, b)
  <1>1. /\ Len(f) \in Nat /\ Len(g) = Len(f) + 1 /\ (\A i \in 1 .. Len(f) : g[i] = f[i])
        /\ \A i \in 1 .. Len(f) : f[i] \in Bytes
    BY AppendProperties, ElementOfSeq DEF Texts
  <1> HIDE DEF g
  <1>2. m \in Int /\ m >= 1 /\ b \in Int /\ \A i \in m .. b : f[i] \in Bytes /\ g[i] = f[i] /\ g[i] \in Bytes
    BY <1>1
  <1> HIDE DEF m
  <1>3. /\ s \in Seq(Bytes) /\ Len(s) = (IF m <= b THEN b - m + 1 ELSE 0) /\ \A i \in 1 .. b - m + 1 : s[i] = g[m + i - 1]
    BY <1>2, SubSeqProperties
  <1>4. /\ t \in Seq(Bytes) /\ Len(t) = (IF m <= b THEN b - m + 1 ELSE 0) /\ \A i \in 1 .. b - m + 1 : t[i] = f[m + i - 1]
    BY <1>2, SubSeqProperties
  <1> HIDE DEF s, t
  <1>5. \A i \in 1 .. Len(s) : s[i] = t[i]
    <2> TAKE i \in 1 .. Len(s)
    <2>1. i \in 1 .. b - m + 1 /\ m + i - 1 \in m .. b
      BY <1>2, <1>3
    <2> QED  BY <1>2, <1>3, <1>4, <2>1
  <1>6. s = t
    BY <1>3, <1>4, <1>5, SeqEqual
  <1>7. b <= Len(g)
    BY <1>1
  <1> QED  BY <1>6, <1>7 DEF s, t, g, m

LEMMA FaithfulWrite ==
    ASSUME NEW f \in Texts, NEW x \in Bytes, NEW e \in EventType, Faithful(e, f)
    PROVE  Faithful(e, Append(f, x))
  <1> DEFINE a == e.start
             b == e.end
  <1>1. a \in Nat /\ b \in Nat /\ b <= Len(f) /\ Content(e.text) = Content(SubSeq(f, a + 1, b))
    BY DEF Faithful, EventType
  <1> HIDE DEF a, b
  <1>2. b <= Len(Append(f, x)) /\ SubSeq(Append(f, x), a + 1, b) = SubSeq(f, a + 1, b)
    BY <1>1, PartKept
  <1> QED  BY <1>1, <1>2 DEF Faithful, a, b

LEMMA ReadLineSynced ==
    ASSUME ReadInv, CodecInv, ReadLine, Holding(reader, file, offset, pos)
    PROVE  /\ Holding(reader', file, offset + line'.len, pos)
           /\ Faithful(Event(offset, offset + line'.len, line'.text), file)
  <1> DEFINE l == CutLine(reader, Taken).line
             n == line'.len
             t == line'.text
  <1>1. /\ Taken \in Nat /\ Taken >= 1 /\ Taken <= Len(reader.buf)
        /\ reader' = CutLine(reader, Taken).reader
        /\ t \in Texts /\ n \in Nat /\ n = Len(l) /\ Content(t) = Content(l)
    BY ReadLineFacts
  <1>2. reader \in ReaderType /\ file \in Texts /\ offset \in Nat /\ pos \in Nat
    BY DEF ReadInv, CodecInv
  <1>3. /\ offset + Len(l) <= Len(file) /\ l = SubSeq(file, offset + 1, offset + Len(l))
        /\ Holding(CutLine(reader, Taken).reader, file, offset + Len(l), pos)
    <2> HIDE DEF Taken
    <2> QED  BY <1>1, <1>2, HoldingCut
  <1> DEFINE b == offset + n
             e == Event(offset, b, t)
  <1> HIDE DEF l, Taken
  <1>4. b \in Nat /\ b <= Len(file) /\ l = SubSeq(file, offset + 1, b)
    BY <1>1, <1>2, <1>3
  <1> HIDE DEF b, n, t
  <1>5. e.start = offset /\ e.end = b /\ e.text = t
    BY <1>1, <1>2, <1>4, EventFields
  <1> HIDE DEF e
  <1>6. Content(t) = Content(SubSeq(file, offset + 1, b))
    BY <1>1, <1>4
  <1>7. Faithful(e, file)
    BY <1>4, <1>5, <1>6 DEF Faithful
  <1>8. Holding(reader', file, b, pos)
    BY <1>1, <1>3 DEF b, l
  <1> QED  BY <1>7, <1>8 DEF b, n, t, e

LEMMA SyncStart == ASSUME Simple, Init PROVE SyncInv
  BY DEF Init, SyncInv, Synced

LEMMA SyncStep ==
    ASSUME Simple, ReadInv, CodecInv, SyncInv, setup.truncations = 0 => offset <= Len(file), [Next]_vars
    PROVE  SyncInv'
  <1>0. reader \in ReaderType /\ file \in Texts /\ offset \in Nat /\ pos \in Nat /\ line.text \in Texts /\ line.len \in Nat /\ Len(file) \in Nat
    BY DEF ReadInv, CodecInv, Texts
  <1>1. epoch \in Nat /\ seen \in Nat /\ seen <= epoch
    BY DEF CodecInv
  <1>2. ASSUME UNCHANGED <<setup, epoch, seen>>,
               Ordered(setup) /\ Synced(pc, reader, file, offset, line, pos) => Synced(pc', reader', file', offset', line', pos')
        PROVE  SyncInv'
    BY <1>2 DEF SyncInv, InSync
  <1>3. ASSUME UNCHANGED <<setup, epoch, seen, reader, file, offset, line, pos>>,
               pc' = pc \/ pc' \in {"stop", "closed", "start"} \/ (pc = "emit" /\ pc' = "read")
        PROVE  SyncInv'
    <2>1. Synced(pc, reader, file, offset, line, pos) => Synced(pc', reader', file', offset', line', pos')
      BY <1>3 DEF Synced
    <2> QED  BY <1>2, <1>3, <2>1
  <1>4. ASSUME NEW b \in Bytes, WriteByte(b) PROVE SyncInv'
    <2>1. file' = Append(file, b) /\ UNCHANGED <<setup, epoch, seen, pc, reader, offset, line, pos>>
      BY <1>4 DEF WriteByte, readVars, histVars
    <2>2. ASSUME Synced(pc, reader, file, offset, line, pos) PROVE Synced(pc, reader, file', offset, line, pos)
      <3> DEFINE o == offset + line.len
                 e == Event(offset, o, line.text)
      <3>1. o \in Nat
        BY <1>0
      <3> HIDE DEF o
      <3>2. e \in EventType
        BY <1>0, <3>1, EventFields
      <3> HIDE DEF e
      <3>3. pc \in {"read", "emit"} => Holding(reader, file', offset, pos)
        BY <1>0, <2>1, <2>2, HoldingWrite DEF Synced
      <3>4. pc = "got" => Holding(reader, file', o, pos)
        <4>1. pc = "got" => Holding(reader, file, o, pos)
          BY <2>2 DEF Synced, o
        <4> QED  BY <1>0, <2>1, <3>1, <4>1, HoldingWrite
      <3>5. pc = "got" /\ line.len > 0 => Faithful(e, file')
        <4>1. pc = "got" /\ line.len > 0 => Faithful(e, file)
          BY <2>2 DEF Synced, o, e
        <4> QED  BY <1>0, <2>1, <3>2, <4>1, FaithfulWrite
      <3> QED  BY <3>3, <3>4, <3>5 DEF Synced, o, e
    <2> QED  BY <1>2, <2>1, <2>2
  <1>5. CASE Truncate
    <2>1. epoch' = epoch + 1 /\ seen' = seen
      BY <1>5 DEF Truncate, histVars
    <2>2. ~InSync'
      BY <1>1, <2>1 DEF InSync
    <2> QED  BY <2>2 DEF SyncInv
  <1>6. CASE Open
    <2>1. /\ pc' = "read" /\ pos' = offset /\ reader' = NewLineReader(setup.size, setup.maxLine)
          /\ UNCHANGED <<setup, epoch, seen, file, offset, line>>
      BY <1>6 DEF Open, fileVars, histVars
    <2>2. setup.size \in Nat \ {0} /\ setup.maxLine \in Nat \ {0}
      BY SetupFields DEF ReadInv
    <2>3. reader' \in ReaderType /\ reader'.buf = <<>> /\ reader'.overflow = <<>>
      BY <2>1, <2>2, NewReader
    <2>4. Holding(reader', file, offset, offset)
      BY <1>0, <2>3, HoldingNew
    <2>5. Synced(pc', reader', file', offset', line', pos')
      BY <2>1, <2>4 DEF Synced
    <2> QED  BY <1>2, <2>1, <2>5
  <1>7. CASE ReadLine
    <2>1. pc = "read" /\ pc' = "got" /\ UNCHANGED <<setup, epoch, seen, file, offset, pos>>
      BY <1>7 DEF ReadLine, fileVars, histVars
    <2>2. ASSUME Synced(pc, reader, file, offset, line, pos) PROVE Synced(pc', reader', file', offset', line', pos')
      <3>1. Holding(reader, file, offset, pos)
        BY <2>1, <2>2 DEF Synced
      <3>2. /\ Holding(reader', file, offset + line'.len, pos)
            /\ Faithful(Event(offset, offset + line'.len, line'.text), file)
        BY <1>7, <3>1, ReadLineSynced
      <3> QED  BY <2>1, <3>2 DEF Synced
    <2> QED  BY <1>2, <2>1, <2>2
  <1>8. CASE ReadMore
    <2>1. pc = "read" /\ pc' = "read" /\ UNCHANGED <<setup, epoch, seen, file, offset, line>>
      BY <1>8 DEF ReadMore, fileVars, histVars
    <2>2. \A a \in Nat : Holding(reader, file, a, pos) => Holding(reader', file, a, pos')
      BY <1>8, ReadMoreFacts
    <2>3. Synced(pc, reader, file, offset, line, pos) => Synced(pc', reader', file', offset', line', pos')
      BY <1>0, <2>1, <2>2 DEF Synced
    <2> QED  BY <1>2, <2>1, <2>3
  <1>9. CASE ReadEOF
    <2>1. pc = "read" /\ pc' = "got" /\ line' = AtEOF /\ UNCHANGED <<setup, epoch, seen, file, offset, reader, pos>>
      BY <1>9 DEF ReadEOF, fileVars, histVars
    <2>2. line'.len = 0 /\ offset + 0 = offset
      BY <1>0, <2>1, NoLine
    <2>3. Synced(pc, reader, file, offset, line, pos) => Synced(pc', reader', file', offset', line', pos')
      BY <2>1, <2>2 DEF Synced
    <2> QED  BY <1>2, <2>1, <2>3
  <1>10. CASE PerformRead \/ CheckPasses
    <2>1. pc = "got" /\ Apply /\ UNCHANGED <<setup, epoch, seen, file, reader, pos>>
      BY <1>10 DEF PerformRead, CheckPasses, CheckDue, fileVars
    <2>2. Synced(pc, reader, file, offset, line, pos) => Holding(reader, file, offset + line.len, pos)
      BY <2>1 DEF Synced
    <2>3. offset' = offset + line.len /\ pc' \in {"emit", "read", "stop"}
      <3>1. CASE line.len > 0
        BY <2>1, <3>1 DEF Apply, ApplyLine
      <3>2. CASE ~(line.len > 0)
        <4>1. line.len = 0 /\ offset + 0 = offset
          BY <1>0, <3>2
        <4> QED  BY <2>1, <3>2, <4>1 DEF Apply, ApplyEOF
      <3> QED  BY <3>1, <3>2
    <2>4. Synced(pc, reader, file, offset, line, pos) => Synced(pc', reader', file', offset', line', pos')
      BY <2>1, <2>2, <2>3 DEF Synced
    <2> QED  BY <1>2, <2>1, <2>4
  <1>11. CASE CheckTruncated
    <2>1. /\ Len(file) < offset /\ pos' = 0 /\ offset' = 0 /\ reader' = ResetReader(reader) /\ pc' = "read"
          /\ UNCHANGED <<setup, file>>
      BY <1>11 DEF CheckTruncated, Truncated, fileVars
    <2>2. setup.truncations # 0
      BY <1>0, <2>1
    <2>3. ASSUME Ordered(setup) PROVE Synced(pc', reader', file', offset', line', pos')
      <3>1. reader.overflow = <<>>
        BY <2>2, <2>3 DEF Ordered, ReadInv
      <3>2. reader' \in ReaderType /\ reader'.buf = <<>> /\ reader'.overflow = <<>>
        BY <1>0, <2>1, <3>1, ResetFacts
      <3>3. Holding(reader', file, 0, 0)
        <4>1. 0 \in Nat
          OBVIOUS
        <4> QED  BY <3>2, <4>1, HoldingNew
      <3> QED  BY <2>1, <3>3 DEF Synced
    <2> QED  BY <2>1, <2>3 DEF SyncInv
  <1>12. CASE Finish \/ OpenFails \/ ReadFails \/ MeasureStop \/ CheckDead
    <2>1. UNCHANGED <<setup, epoch, seen>> /\ pc' \in {"stop", "closed"}
      BY <1>12 DEF Finish, OpenFails, ReadFails, MeasureStop, CheckDead, fileVars, histVars
    <2>2. Synced(pc', reader', file', offset', line', pos')
      BY <2>1 DEF Synced
    <2> QED  BY <1>2, <2>1, <2>2
  <1>13. CASE NothingToSend \/ Send \/ GiveUp \/ BlockedCheck
    <2>1. UNCHANGED <<setup, epoch, seen, reader, file, offset, line, pos>> /\ (pc' = pc \/ (pc = "emit" /\ pc' = "read"))
      BY <1>13 DEF NothingToSend, Send, GiveUp, BlockedCheck, Returned, fileVars, histVars, readVars
    <2> QED  BY <1>3, <2>1
  <1>14. CASE DeadlineFlush \/ ScanStat \/ Stop \/ UNCHANGED vars
    <2>1. UNCHANGED <<setup, epoch, seen, reader, file, offset, line, pos, pc>>
      BY <1>14 DEF DeadlineFlush, ScanStat, Stop, vars, fileVars, histVars, readVars
    <2> QED  BY <1>3, <2>1
  <1>15. CASE ScanProcess
    <2>1. UNCHANGED <<setup, epoch, seen, reader, file, line, pos>>
      BY <1>15 DEF ScanProcess, fileVars, histVars, readVars
    <2>2. pc' = "start" \/ UNCHANGED <<pc, offset>>
      BY <1>15 DEF ScanProcess
    <2>3. Synced(pc, reader, file, offset, line, pos) => Synced(pc', reader', file', offset', line', pos')
      BY <2>1, <2>2 DEF Synced
    <2> QED  BY <1>2, <2>1, <2>3
  <1> QED  BY <1>4, <1>5, <1>6, <1>7, <1>8, <1>9, <1>10, <1>11, <1>12, <1>13, <1>14, <1>15, Zenon DEF Next, ReadLoop, Check

-----------------------------------------------------------------------------
(* What was sent, and what is still to be sent. *)

\* The pipeline takes the first event, or it is given up.
LEMMA FrontNext ==
    ASSUME NEW q, NEW l, NEW cov, NEW drop, Front(q, l, cov, drop), q # <<>>
    PROVE  /\ Front(Tail(q), l, cov \cup Positions(Head(q)), drop)
           /\ Front(Tail(q), l, cov, drop \cup Positions(Head(q)))
           /\ 1 .. Head(q).end \subseteq (cov \cup Positions(Head(q))) \cup drop
           /\ Positions(Head(q)) \cap cov = {}
  <1>1. PICK a \in Nat : Chained(q, a, l) /\ 1 .. a \subseteq cov \cup drop /\ cov \subseteq 1 .. a
    BY DEF Front
  <1> DEFINE h == Head(q)
             b == h.end
             p == Positions(h)
  <1>2. h \in EventType /\ h.start = a /\ h.start <= h.end /\ Chained(Tail(q), b, l)
    BY <1>1, ChainedTail
  <1>3. b \in Nat /\ a <= b /\ p = a + 1 .. b
    BY <1>2 DEF EventType, Positions
  <1> HIDE DEF h, b, p
  <1>4. /\ \A i \in 1 .. b : i \in 1 .. a \/ i \in a + 1 .. b
        /\ 1 .. a \subseteq 1 .. b /\ a + 1 .. b \subseteq 1 .. b
        /\ \A i \in 1 .. a : i \notin a + 1 .. b
    BY <1>3
  <1>5. 1 .. b \subseteq (cov \cup p) \cup drop
    BY <1>1, <1>3, <1>4
  <1>6. cov \cup p \subseteq 1 .. b /\ cov \subseteq 1 .. b
    BY <1>1, <1>3, <1>4
  <1>7. 1 .. b \subseteq cov \cup (drop \cup p)
    BY <1>1, <1>3, <1>4
  <1>8. Front(Tail(q), l, cov \cup p, drop) /\ Front(Tail(q), l, cov, drop \cup p)
    BY <1>2, <1>3, <1>5, <1>6, <1>7 DEF Front
  <1>9. p \cap cov = {}
    BY <1>1, <1>3, <1>4
  <1> QED  BY <1>5, <1>8, <1>9 DEF p, b, h

\* The codec hands on more events when all are sent.
LEMMA FrontMore ==
    ASSUME NEW l \in Nat, NEW cov, NEW drop, Front(<<>>, l, cov, drop), NEW q, NEW m, Chained(q, l, m)
    PROVE  Front(q, m, cov, drop)
  <1>1. PICK a \in Nat : Chained(<<>>, a, l) /\ 1 .. a \subseteq cov \cup drop /\ cov \subseteq 1 .. a
    BY DEF Front
  <1>2. a = l
    BY <1>1 DEF Chained
  <1> QED  BY <1>1, <1>2 DEF Front

\* A line is filtered.
LEMMA FrontFilter ==
    ASSUME NEW cov, NEW drop, NEW e \in EventType, e.start <= e.end, Front(<<>>, e.start, cov, drop)
    PROVE  Front(<<>>, e.end, cov \cup Positions(e), drop)
  <1>1. PICK a \in Nat : Chained(<<>>, a, e.start) /\ 1 .. a \subseteq cov \cup drop /\ cov \subseteq 1 .. a
    BY DEF Front
  <1> DEFINE b == e.end
             p == Positions(e)
  <1>2. a = e.start
    BY <1>1 DEF Chained
  <1>3. b \in Nat /\ a <= b /\ p = a + 1 .. b
    BY <1>2 DEF EventType, Positions
  <1> HIDE DEF b, p
  <1>4. /\ \A i \in 1 .. b : i \in 1 .. a \/ i \in a + 1 .. b
        /\ 1 .. a \subseteq 1 .. b /\ a + 1 .. b \subseteq 1 .. b
    BY <1>3
  <1>5. 1 .. b \subseteq (cov \cup p) \cup drop /\ cov \cup p \subseteq 1 .. b
    BY <1>1, <1>3, <1>4
  <1>6. Front(<<>>, b, cov \cup p, drop)
    BY <1>3, <1>5, ChainedNone DEF Front
  <1> QED  BY <1>6 DEF b, p

LEMMA FrontStart == ASSUME Simple, Init PROVE FrontInv
  <1>1. setup \in Setups
    BY DEF Init
  <1>2. chain[1].buffer = <<>> /\ chain[1].lastOffset = 0
    <2>1. chain = NewChain(0) /\ 0 \in Nat
      BY DEF Init
    <2> QED  BY <1>1, <2>1, OneNew
  <1>3. out = <<>> /\ covered = {} /\ dropped = {} /\ offset = 0 /\ Resume = 0 /\ Len(file) = 0
    BY DEF Init, Resume
  <1>4. last.end = 0
    <2>1. last = Event(0, 0, <<>>) /\ <<>> \in Texts /\ 0 \in Nat
      BY DEF Init, NoEvent, Texts
    <2> QED  BY <2>1, EventFields
  <1>5. Front(out, 0, covered, dropped)
    <2>1. 0 \in Nat /\ 1 .. 0 = {} /\ {} \subseteq 1 .. 0
      OBVIOUS
    <2>2. Chained(<<>>, 0, 0)
      BY ChainedNone
    <2> QED  BY <1>3, <2>1, <2>2 DEF Front
  <1>6. 1 .. last.end \subseteq covered \cup dropped
    BY <1>4
  <1>7. Tight(chain[1], Resume)
    BY <1>2, <1>3 DEF Tight
  <1> QED  BY <1>2, <1>3, <1>5, <1>6, <1>7 DEF FrontInv, Fronted

LEMMA FrontStep ==
    ASSUME Simple, ReadInv, CodecInv, SyncInv, FrontInv, [Next]_vars
    PROVE  FrontInv'
  <1> DEFINE conf == setup.chain[1]
             c == chain[1]
  <1>0. /\ setup \in Setups /\ setup.truncations \in Nat /\ file \in Texts /\ Len(file) \in Nat /\ line.len \in Nat
        /\ conf.timeout => conf.kind = "previous"
    BY SetupFields DEF ReadInv, Texts
  <1>1. /\ epoch \in Nat /\ seen \in Nat /\ seen <= epoch /\ epoch <= setup.truncations
        /\ offset \in Nat /\ "finishOffset" \in DOMAIN info /\ info.finishOffset \in Nat
        /\ OneCodec(chain, conf) /\ Buffered(c, offset)
        /\ out \in Seq(EventType) /\ last \in EventType
        /\ pc \in {"start", "closed"} => out = <<>> /\ c.buffer = <<>>
        /\ out # <<>> => pc = "emit" \/ conf.timeout
    BY DEF CodecInv
  <1>2. c \in CodecType /\ c.conf = conf /\ Len(chain) = 1 /\ c.lastOffset \in Nat
    BY <1>1, CodecFields DEF OneCodec
  <1>3. ASSUME setup' = setup,
               ASSUME Exact(setup), Fronted(c, Resume, out, covered, dropped, last),
                      setup.truncations = 0 => offset <= Len(file) /\ Resume <= Len(file)
               PROVE  Fronted(chain'[1], Resume', out', covered', dropped', last')
                      /\ (setup.truncations = 0 => offset' <= Len(file') /\ Resume' <= Len(file'))
        PROVE  FrontInv'
    BY <1>3 DEF FrontInv
  <1>4. ASSUME UNCHANGED <<setup, chain, Resume, offset, out, covered, dropped, last, file>> PROVE FrontInv'
    BY <1>4 DEF FrontInv
  <1>5. ASSUME NEW b \in Bytes, WriteByte(b) PROVE FrontInv'
    <2>1. file' = Append(file, b) /\ UNCHANGED <<setup, chain, info, pc, offset, out, covered, dropped, last>>
      BY <1>5 DEF WriteByte, histVars
    <2>2. Resume' = Resume /\ Resume \in Nat
      BY <1>1, <2>1 DEF Resume
    <2>3. Len(file') = Len(file) + 1
      BY <1>0, <2>1, AppendProperties DEF Texts
    <2> HIDE DEF Resume
    <2> QED  BY <1>0, <1>1, <2>1, <2>2, <2>3 DEF FrontInv
  <1>6. CASE Truncate
    <2>1. epoch < setup.truncations /\ UNCHANGED <<setup, chain, info, pc, offset, out, covered, dropped, last>>
      BY <1>6 DEF Truncate, histVars
    <2>2. Resume' = Resume /\ setup.truncations # 0
      BY <1>0, <1>1, <2>1 DEF Resume
    <2> HIDE DEF Resume
    <2> QED  BY <2>1, <2>2 DEF FrontInv
  <1>7. CASE Open \/ ReadLine \/ ReadMore \/ ReadEOF \/ ReadFails \/ MeasureStop \/ CheckDead
    <2>1. /\ UNCHANGED <<setup, chain, offset, out, covered, dropped, last, file>>
          /\ pc # "closed" /\ pc' # "closed"
      BY <1>7 DEF Open, ReadLine, ReadMore, ReadEOF, ReadFails, MeasureStop, CheckDead, CheckDue, fileVars, histVars
    <2>2. Resume' = Resume
      BY <2>1 DEF Resume
    <2> QED  BY <1>4, <2>1, <2>2
  <1>8. CASE NothingToSend \/ BlockedCheck \/ ScanStat \/ Stop \/ UNCHANGED vars
    <2>1. /\ UNCHANGED <<setup, chain, offset, out, covered, dropped, last, file, info>>
          /\ pc' = pc \/ (pc = "emit" /\ pc' = "read")
      BY <1>8 DEF NothingToSend, BlockedCheck, ScanStat, Stop, vars, fileVars, histVars
    <2>2. Resume' = Resume
      BY <2>1 DEF Resume
    <2> QED  BY <1>4, <2>1, <2>2
  <1>9. CASE OpenFails
    <2>1. /\ pc = "start" /\ pc' = "closed" /\ info' = [info EXCEPT !.finishOffset = offset, !.failed = TRUE]
          /\ UNCHANGED <<setup, chain, offset, out, covered, dropped, last, file>>
      BY <1>9 DEF OpenFails, histVars, fileVars
    <2>2. info'.finishOffset = offset
      BY <1>1, <2>1
    <2>3. Resume' = Resume
      BY <2>1, <2>2 DEF Resume
    <2> QED  BY <1>4, <2>1, <2>3
  <1>10. CASE PerformRead \/ CheckPasses
    <2>1. pc = "got" /\ Apply /\ UNCHANGED <<setup, info, last, dropped, file>>
      BY <1>10 DEF PerformRead, CheckPasses, CheckDue, fileVars
    <2>2. CASE line.len > 0
      <3> DEFINE e == LineEvent
                 d == chain'[1]
      <3>1. ApplyLine
        BY <2>1, <2>2 DEF Apply
      <3>2. /\ e.start = offset /\ e.end = offset' /\ offset' = offset + line.len /\ offset' \in Nat
            /\ e \in EventType /\ out = <<>>
            /\ IF Filtered(e) THEN FilteredOK(c, e, d, out') ELSE EventOK(c, e, d, out')
            /\ covered' = IF Filtered(e) THEN covered \cup Positions(e) ELSE covered
            /\ pc' = "emit"
        BY <2>2, <3>1, ApplyFacts
      <3>3. Resume = offset /\ Resume' = offset'
        BY <2>1, <3>2 DEF Resume
      <3>4. setup.truncations = 0 => offset' <= Len(file)
        <4> SUFFICES ASSUME setup.truncations = 0 PROVE offset' <= Len(file)
          OBVIOUS
        <4>1. Ordered(setup) /\ InSync
          BY <1>0, <1>1 DEF Ordered, InSync
        <4>2. Faithful(e, file)
          BY <2>1, <2>2, <4>1 DEF SyncInv, Synced, LineEvent
        <4> QED  BY <3>2, <4>2 DEF Faithful
      <3> HIDE DEF e, d, Resume
      <3>5. ASSUME Fronted(c, offset, <<>>, covered, dropped, last)
            PROVE  Fronted(d, offset', out', covered', dropped, last)
        <4>1. Tight(c, offset) /\ Front(<<>>, c.lastOffset, covered, dropped) /\ 1 .. last.end \subseteq covered \cup dropped
          BY <3>5 DEF Fronted
        <4>2. 1 .. last.end \subseteq covered' \cup dropped
          BY <3>2, <4>1
        <4>3. CASE Filtered(e)
          <5>1. FilteredOK(c, e, d, out') /\ covered' = covered \cup Positions(e)
            BY <3>2, <4>3
          <5>2. c.lastOffset = e.start /\ d.lastOffset = e.end /\ Tight(d, offset') /\ out' = <<>>
            BY <3>2, <4>1, <5>1 DEF FilteredOK, Tight
          <5>3. e.start <= e.end
            BY <1>0, <1>1, <3>2
          <5>4. Front(<<>>, e.end, covered \cup Positions(e), dropped)
            BY <3>2, <4>1, <5>2, <5>3, FrontFilter
          <5> QED  BY <4>2, <5>1, <5>2, <5>4 DEF Fronted
        <4>4. CASE ~Filtered(e)
          <5>1. EventOK(c, e, d, out') /\ covered' = covered
            BY <3>2, <4>4
          <5>2. Tight(d, offset') /\ Chained(out', c.lastOffset, d.lastOffset)
            BY <3>2, <4>1, <5>1 DEF EventOK, StepOK
          <5>3. Front(out', d.lastOffset, covered, dropped)
            BY <1>2, <4>1, <5>2, FrontMore
          <5> QED  BY <4>2, <5>1, <5>2, <5>3 DEF Fronted
        <4> QED  BY <4>3, <4>4
      <3>6. ASSUME Exact(setup), Fronted(c, Resume, out, covered, dropped, last)
            PROVE  Fronted(chain'[1], Resume', out', covered', dropped', last')
        BY <2>1, <3>2, <3>3, <3>5, <3>6 DEF d
      <3> QED  BY <1>3, <2>1, <3>3, <3>4, <3>6
    <2>3. CASE ~(line.len > 0)
      <3>1. ApplyEOF
        BY <2>1, <2>3 DEF Apply
      <3>2. UNCHANGED <<offset, chain, out, covered>> /\ pc' \in {"stop", "read"}
        BY <3>1 DEF ApplyEOF
      <3>3. Resume' = Resume
        BY <2>1, <3>2 DEF Resume
      <3> QED  BY <1>4, <2>1, <3>2, <3>3
    <2> QED  BY <2>2, <2>3
  <1>11. CASE CheckTruncated
    <2> DEFINE d == ResetCodec(c)
    <2>1. /\ pc = "got" /\ Len(file) < offset /\ offset' = 0 /\ chain' = [chain EXCEPT ![1] = d] /\ pc' = "read"
          /\ covered' = {} /\ dropped' = {} /\ last' = NoEvent
          /\ UNCHANGED <<setup, out, info, file>>
      BY <1>11 DEF CheckTruncated, CheckDue, Truncated, fileVars
    <2>2. ASSUME Exact(setup), setup.truncations = 0 => offset <= Len(file)
          PROVE  Fronted(chain'[1], Resume', out', covered', dropped', last') /\ setup.truncations # 0
      <3>1. setup.truncations # 0
        BY <1>0, <1>1, <2>1, <2>2
      <3>2. Multiline(c) /\ ~conf.timeout
        BY <1>2, <2>2, <3>1 DEF Exact, Multiline
      <3>3. d \in CodecType /\ d.conf = conf /\ d.buffer = <<>> /\ d.lastOffset = 0
        BY <1>2, <3>2, ResetCodecFacts
      <3> HIDE DEF d
      <3>4. chain'[1] = d
        BY <1>1, <2>1, <3>3, OneExcept
      <3>5. Resume' = 0 /\ out' = <<>>
        BY <1>1, <2>1, <3>2 DEF Resume
      <3>6. last'.end = 0
        <4>1. last' = Event(0, 0, <<>>) /\ <<>> \in Texts /\ 0 \in Nat
          BY <2>1 DEF NoEvent, Texts
        <4> QED  BY <4>1, EventFields
      <3>7. Front(<<>>, 0, {}, {})
        <4>1. 0 \in Nat /\ 1 .. 0 = {} /\ {} \subseteq 1 .. 0
          OBVIOUS
        <4>2. Chained(<<>>, 0, 0)
          BY ChainedNone
        <4> QED  BY <4>1, <4>2 DEF Front
      <3>8. 1 .. last'.end \subseteq covered' \cup dropped'
        BY <3>6
      <3>9. Tight(d, 0)
        BY <3>3 DEF Tight
      <3> QED  BY <2>1, <3>1, <3>3, <3>4, <3>5, <3>7, <3>8, <3>9 DEF Fronted
    <2> QED  BY <1>3, <2>1, <2>2
  <1>12. CASE Send \/ GiveUp
    <2> DEFINE p == Positions(Head(out))
    <2>1. /\ out # <<>> /\ out' = Tail(out)
          /\ \/ last' = Head(out) /\ covered' = covered \cup p /\ dropped' = dropped
             \/ last' = last /\ covered' = covered /\ dropped' = dropped \cup p
          /\ pc' = IF owner = "event" /\ pc = "emit" /\ out' = <<>> THEN "read" ELSE pc
          /\ UNCHANGED <<setup, offset, chain, info, file>>
      BY <1>12 DEF Send, GiveUp, Returned, fileVars
    <2>2. Resume' = Resume
      BY <2>1 DEF Resume
    <2> HIDE DEF Resume
    <2>3. ASSUME Fronted(c, Resume, out, covered, dropped, last)
          PROVE  Fronted(c, Resume, out', covered', dropped', last')
      <3>1. Tight(c, Resume) /\ Front(out, c.lastOffset, covered, dropped) /\ 1 .. last.end \subseteq covered \cup dropped
        BY <2>3 DEF Fronted
      <3>2. /\ Front(Tail(out), c.lastOffset, covered \cup p, dropped)
            /\ Front(Tail(out), c.lastOffset, covered, dropped \cup p)
            /\ 1 .. Head(out).end \subseteq (covered \cup p) \cup dropped
        <4> DEFINE l == c.lastOffset
        <4>1. Front(out, l, covered, dropped) /\ out # <<>>
          BY <2>1, <3>1
        <4> HIDE DEF l
        <4>2. /\ Front(Tail(out), l, covered \cup p, dropped)
              /\ Front(Tail(out), l, covered, dropped \cup p)
              /\ 1 .. Head(out).end \subseteq (covered \cup p) \cup dropped
          BY <4>1, FrontNext
        <4> QED  BY <4>2 DEF l
      <3> HIDE DEF p
      <3>3. Front(out', c.lastOffset, covered', dropped')
        BY <2>1, <3>2
      <3>4. 1 .. last'.end \subseteq covered' \cup dropped'
        <4>1. CASE last' = last
          <5>1. covered \cup dropped \subseteq covered' \cup dropped'
            BY <2>1
          <5> QED  BY <3>1, <4>1, <5>1
        <4>2. CASE last' = Head(out) /\ covered' = covered \cup p /\ dropped' = dropped
          BY <3>2, <4>2
        <4> QED  BY <2>1, <4>1, <4>2
      <3> QED  BY <3>1, <3>3, <3>4 DEF Fronted
    <2> QED  BY <1>3, <2>1, <2>2, <2>3
  <1>13. CASE DeadlineFlush
    <2> DEFINE r == Flush(c)
               d == r.codec
    <2>1. /\ pc \in {"read", "got", "stop"} /\ out = <<>> /\ chain' = [chain EXCEPT ![1] = d]
          /\ out' = r.events
          /\ UNCHANGED <<setup, offset, covered, dropped, last, file, pc>>
      BY <1>2, <1>13 DEF DeadlineFlush, CodecFree, fileVars, histVars
    <2>2. StepOK(c, offset, d, offset, r.events)
      BY <1>1, <1>2, FlushStep
    <2> HIDE DEF r, d
    <2>3. chain'[1] = d
      <3>1. d \in CodecType /\ d.conf = conf
        BY <1>2, <2>2 DEF StepOK
      <3> QED  BY <1>1, <2>1, <3>1, OneExcept
    <2>4. Resume = offset /\ Resume' = offset
      BY <2>1 DEF Resume
    <2>5. ASSUME Fronted(c, offset, <<>>, covered, dropped, last)
          PROVE  Fronted(d, offset, r.events, covered, dropped, last)
      <3>1. Tight(c, offset) /\ Front(<<>>, c.lastOffset, covered, dropped) /\ 1 .. last.end \subseteq covered \cup dropped
        BY <2>5 DEF Fronted
      <3>2. Tight(d, offset) /\ Chained(r.events, c.lastOffset, d.lastOffset)
        BY <2>2, <3>1 DEF StepOK
      <3>3. Front(r.events, d.lastOffset, covered, dropped)
        BY <1>2, <3>1, <3>2, FrontMore
      <3> QED  BY <3>1, <3>2, <3>3 DEF Fronted
    <2> HIDE DEF Resume
    <2> QED  BY <1>3, <2>1, <2>3, <2>4, <2>5
  <1>14. CASE Finish
    <2> DEFINE from == Teardown(chain)
    <2>1. /\ pc = "stop" /\ pc' = "closed" /\ out = <<>> /\ chain' = NewChain(from)
          /\ info' = [finishOffset |-> from, mtime |-> stat, failed |-> error]
          /\ UNCHANGED <<setup, offset, out, covered, dropped, last, file>>
      BY <1>14 DEF Finish, Forget, CodecFree, fileVars, histVars
    <2>2. from = c.lastOffset
      BY <1>1 DEF Teardown, OneCodec
    <2> HIDE DEF from
    <2>3. from \in Nat
      BY <1>2, <2>2
    <2>4. chain'[1].buffer = <<>> /\ chain'[1].lastOffset = from
      BY <1>0, <2>1, <2>3, OneNew
    <2>5. Resume = offset /\ Resume' = from
      BY <2>1 DEF Resume
    <2>6. Tight(c, offset) => from <= offset
      <3>1. CASE c.buffer = <<>>
        BY <1>1, <2>2, <3>1 DEF Tight
      <3>2. CASE c.buffer # <<>>
        BY <1>1, <2>2, <3>2 DEF Tight, Buffered
      <3> QED  BY <3>1, <3>2
    <2> HIDE DEF Resume
    <2>7. ASSUME Fronted(c, Resume, out, covered, dropped, last) PROVE Fronted(chain'[1], Resume', out', covered', dropped', last')
      BY <2>1, <2>2, <2>4, <2>5, <2>7 DEF Fronted, Tight
    <2>8. ASSUME Fronted(c, Resume, out, covered, dropped, last), offset <= Len(file)
          PROVE  offset' <= Len(file') /\ Resume' <= Len(file')
      <3>1. from <= offset
        BY <2>5, <2>6, <2>8 DEF Fronted
      <3>2. from <= Len(file)
        BY <1>0, <1>1, <2>3, <2>8, <3>1
      <3> QED  BY <2>1, <2>5, <2>8, <3>2
    <2> QED  BY <1>3, <2>1, <2>7, <2>8
  <1>15. CASE ScanProcess
    <2>1. UNCHANGED <<setup, out, covered, dropped, last, file>>
      BY <1>15 DEF ScanProcess, fileVars, histVars
    <2>2. info'.finishOffset = info.finishOffset
      <3>1. info' = IF pc = "closed" THEN [info EXCEPT !.mtime = scan, !.failed = FALSE] ELSE info
        BY <1>15 DEF ScanProcess
      <3>2. CASE pc = "closed"
        BY <1>1, <3>1, <3>2
      <3>3. CASE pc # "closed"
        BY <1>1, <3>1, <3>3
      <3> QED  BY <3>2, <3>3
    <2>3. CASE pc = "closed" /\ Resumes
      <3>1. pc' = "start" /\ offset' = info.finishOffset /\ chain' = NewChain(info.finishOffset)
        BY <1>15, <2>3 DEF ScanProcess
      <3>2. chain'[1].buffer = <<>> /\ chain'[1].lastOffset = info.finishOffset
        BY <1>0, <1>1, <3>1, OneNew
      <3>3. Resume' = info.finishOffset /\ Resume = info.finishOffset /\ c.buffer = <<>>
        BY <1>1, <2>3, <3>1 DEF Resume
      <3> HIDE DEF Resume
      <3>4. ASSUME Fronted(c, Resume, out, covered, dropped, last) PROVE Fronted(chain'[1], Resume', out', covered', dropped', last')
        BY <2>1, <3>2, <3>3, <3>4 DEF Fronted, Tight
      <3> QED  BY <1>3, <2>1, <3>1, <3>3, <3>4
    <2>4. CASE ~(pc = "closed" /\ Resumes)
      <3>1. UNCHANGED <<pc, offset, chain>>
        BY <1>15, <2>4 DEF ScanProcess
      <3>2. Resume' = Resume
        BY <2>2, <3>1 DEF Resume
      <3> QED  BY <1>4, <2>1, <3>1, <3>2
    <2> QED  BY <2>3, <2>4
  <1> QED  BY <1>5, <1>6, <1>7, <1>8, <1>9, <1>10, <1>11, <1>12, <1>13, <1>14, <1>15, Zenon DEF Next, ReadLoop, Check

-----------------------------------------------------------------------------
(* What is buffered and sent. *)

LEMMA FidelityWrite ==
    ASSUME NEW f \in Texts, NEW x \in Bytes, NEW c \in CodecType, NEW q \in Seq(EventType), NEW e \in EventType, Fidelity(c, q, e, f)
    PROVE  Fidelity(c, q, e, Append(f, x))
  <1>1. Faithful(e, Append(f, x))
    BY FaithfulWrite DEF Fidelity
  <1>2. AllFaithful(q, Append(f, x))
    <2>1. ASSUME NEW i \in 1 .. Len(q) PROVE Faithful(q[i], Append(f, x))
      <3> DEFINE h == q[i]
      <3>1. h \in EventType
        BY ElementOfSeq
      <3>2. Faithful(h, f)
        BY DEF Fidelity, AllFaithful
      <3> HIDE DEF h
      <3>3. Faithful(h, Append(f, x))
        BY <3>1, <3>2, FaithfulWrite
      <3> QED  BY <3>3 DEF h
    <2> QED  BY <2>1 DEF AllFaithful
  <1>3. BufferFaithful(c, Append(f, x))
    <2> DEFINE a == c.startOffset
               b == c.endOffset
    <2>1. a \in Nat /\ b \in Nat
      BY CodecFields
    <2>2. c.buffer # <<>> => /\ b <= Len(f) /\ Content(Join(c.buffer)) = Content(SubSeq(f, a + 1, b))
                             /\ Len(Join(c.buffer)) <= 2 * (b - a)
      BY DEF Fidelity, BufferFaithful
    <2> HIDE DEF a, b
    <2>3. b <= Len(f) => b <= Len(Append(f, x)) /\ SubSeq(Append(f, x), a + 1, b) = SubSeq(f, a + 1, b)
      BY <2>1, PartKept
    <2> QED  BY <2>2, <2>3 DEF BufferFaithful, a, b
  <1> QED  BY <1>1, <1>2, <1>3 DEF Fidelity

LEMMA NothingSent ==
    ASSUME NEW f \in Texts
    PROVE  Faithful(NoEvent, f)
  <1> DEFINE none == <<>>
  <1>1. none \in Texts /\ 0 \in Nat /\ Len(f) \in Nat /\ 0 <= Len(f)
    BY DEF Texts
  <1>2. NoEvent = Event(0, 0, none)
    BY DEF NoEvent
  <1> HIDE DEF none
  <1>3. NoEvent.start = 0 /\ NoEvent.end = 0 /\ NoEvent.text = none
    BY <1>1, <1>2, EventFields
  <1>4. SubSeq(f, 0 + 1, 0) = none
    <2> DEFINE z == 0
    <2>1. z \in Nat /\ z <= z /\ z <= Len(f) /\ z - z = 0
      BY <1>1
    <2> HIDE DEF z
    <2>2. SubSeq(f, z + 1, z) \in Texts /\ Len(SubSeq(f, z + 1, z)) = z - z
      BY <2>1, PartOf
    <2>3. SubSeq(f, z + 1, z) = <<>>
      BY <2>1, <2>2, EmptySeq DEF Texts
    <2> QED  BY <2>3 DEF z, none
  <1> QED  BY <1>1, <1>3, <1>4 DEF Faithful

LEMMA FaithStart == ASSUME Simple, Init PROVE FaithInv
  <1>1. setup \in Setups /\ chain = NewChain(0) /\ 0 \in Nat /\ out = <<>> /\ last = NoEvent /\ file = <<>>
    BY DEF Init
  <1>2. chain[1].buffer = <<>>
    BY <1>1, OneNew
  <1>3. <<>> \in Texts
    BY DEF Texts
  <1>4. Faithful(last, file)
    BY <1>1, <1>3, NothingSent
  <1>5. AllFaithful(out, file)
    BY <1>1, FaithfulNone
  <1> QED  BY <1>2, <1>4, <1>5 DEF FaithInv, Fidelity, BufferFaithful

LEMMA FaithStep ==
    ASSUME Simple, ReadInv, CodecInv, SyncInv, FaithInv, setup.truncations = 0 => offset <= Len(file), [Next]_vars
    PROVE  FaithInv'
  <1> DEFINE conf == setup.chain[1]
             c == chain[1]
  <1>0. /\ setup \in Setups /\ setup.length \in Nat /\ file \in Texts /\ Len(file) \in Nat /\ Len(file) <= setup.length
    BY SetupFields DEF ReadInv, Texts
  <1>1. /\ epoch \in Nat /\ seen \in Nat /\ seen <= epoch /\ offset \in Nat /\ info.finishOffset \in Nat
        /\ OneCodec(chain, conf) /\ Buffered(c, offset)
        /\ out \in Seq(EventType) /\ last \in EventType
        /\ out # <<>> => pc = "emit" \/ conf.timeout
    BY DEF CodecInv
  <1>2. c \in CodecType /\ c.conf = conf /\ Len(chain) = 1 /\ c.lastOffset \in Nat /\ conf.max \in Nat
    BY <1>1, CodecFields DEF OneCodec
  <1>3. ASSUME UNCHANGED <<setup, epoch, seen>>,
               Whole(setup) /\ InSync /\ Fidelity(c, out, last, file) => Fidelity(chain'[1], out', last', file')
        PROVE  FaithInv'
    BY <1>3 DEF FaithInv, InSync
  <1>4. ASSUME UNCHANGED <<setup, epoch, seen, chain, out, last, file>> PROVE FaithInv'
    BY <1>3, <1>4
  <1>5. ASSUME NEW b \in Bytes, WriteByte(b) PROVE FaithInv'
    <2>1. file' = Append(file, b) /\ UNCHANGED <<setup, epoch, seen, chain, out, last>>
      BY <1>5 DEF WriteByte, histVars
    <2>2. Fidelity(c, out, last, file) => Fidelity(c, out, last, file')
      BY <1>0, <1>1, <1>2, <2>1, FidelityWrite
    <2> QED  BY <1>3, <2>1, <2>2
  <1>6. CASE Truncate
    <2>1. epoch' = epoch + 1 /\ seen' = seen
      BY <1>6 DEF Truncate, histVars
    <2>2. ~InSync'
      BY <1>1, <2>1 DEF InSync
    <2> QED  BY <2>2 DEF FaithInv
  <1>7. CASE Open \/ ReadLine \/ ReadMore \/ ReadEOF \/ ReadFails \/ MeasureStop \/ CheckDead
    <2>1. UNCHANGED <<setup, epoch, seen, chain, out, last, file>>
      BY <1>7 DEF Open, ReadLine, ReadMore, ReadEOF, ReadFails, MeasureStop, CheckDead, fileVars, histVars
    <2> QED  BY <1>4, <2>1
  <1>8. CASE NothingToSend \/ BlockedCheck \/ ScanStat \/ Stop \/ UNCHANGED vars \/ OpenFails
    <2>1. UNCHANGED <<setup, epoch, seen, chain, out, last, file>>
      BY <1>8 DEF NothingToSend, BlockedCheck, ScanStat, Stop, vars, OpenFails, fileVars, histVars
    <2> QED  BY <1>4, <2>1
  <1>10. CASE PerformRead \/ CheckPasses
    <2>1. pc = "got" /\ Apply /\ UNCHANGED <<setup, epoch, seen, last, file>>
      BY <1>10 DEF PerformRead, CheckPasses, CheckDue, fileVars
    <2>2. CASE line.len > 0
      <3> DEFINE e == LineEvent
                 d == chain'[1]
      <3>1. ApplyLine
        BY <2>1, <2>2 DEF Apply
      <3>2. IF Filtered(e) THEN FilteredOK(c, e, d, out') ELSE EventOK(c, e, d, out')
        BY <2>2, <3>1, ApplyFacts
      <3>3. ASSUME Whole(setup), InSync PROVE Faithful(e, file) /\ (Multiline(c) => 2 * Len(file) < c.conf.max)
        <4>1. Ordered(setup)
          BY <3>3 DEF Ordered, Whole
        <4>2. Faithful(e, file)
          BY <2>1, <2>2, <3>3, <4>1 DEF SyncInv, Synced, LineEvent
        <4>3. Multiline(c) => 2 * setup.length < conf.max
          BY <1>2, <3>3 DEF Whole, Multiline
        <4>4. 2 * setup.length < conf.max => 2 * Len(file) < conf.max
          <5> DEFINE x == setup.length  y == Len(file)  z == conf.max
          <5>1. x \in Nat /\ y \in Nat /\ z \in Nat /\ y <= x
            BY <1>0, <1>2
          <5> HIDE DEF x, y, z
          <5>2. 2 * x < z => 2 * y < z
            BY <5>1
          <5> QED  BY <5>2 DEF x, y, z
        <4> QED  BY <1>2, <4>2, <4>3, <4>4
      <3> HIDE DEF e, d
      <3>4. ASSUME Whole(setup), InSync, Fidelity(c, out, last, file) PROVE Fidelity(d, out', last, file)
        <4>1. CASE Filtered(e)
          <5>1. d.buffer = <<>> /\ out' = <<>>
            BY <3>2, <4>1 DEF FilteredOK
          <5> QED  BY <3>4, <5>1, FaithfulNone DEF Fidelity, BufferFaithful
        <4>2. CASE ~Filtered(e)
          <5>1. KeepsFaith(c, d, out', file)
            BY <1>0, <3>2, <3>3, <3>4, <4>2 DEF EventOK
          <5> QED  BY <3>4, <5>1 DEF Fidelity, KeepsFaith
        <4> QED  BY <4>1, <4>2
      <3> QED  BY <1>3, <2>1, <3>4 DEF d
    <2>3. CASE ~(line.len > 0)
      <3>1. UNCHANGED <<chain, out>>
        BY <2>1, <2>3 DEF Apply, ApplyEOF
      <3> QED  BY <1>4, <2>1, <3>1
    <2> QED  BY <2>2, <2>3
  <1>11. CASE CheckTruncated
    <2> DEFINE d == ResetCodec(c)
    <2>1. /\ pc = "got" /\ Len(file) < offset /\ chain' = [chain EXCEPT ![1] = d] /\ last' = NoEvent
          /\ UNCHANGED <<setup, out, file>>
      BY <1>11 DEF CheckTruncated, CheckDue, Truncated, fileVars
    <2>2. d \in CodecType /\ d.conf = conf /\ d.buffer = <<>>
      <3>1. d \in CodecType /\ d.conf = conf
        BY <1>2, ResetCodecFacts
      <3>2. CASE Multiline(c)
        BY <1>2, <3>1, <3>2, ResetCodecFacts
      <3>3. CASE ~Multiline(c)
        BY <1>1, <1>2, <3>1, <3>3, ResetCodecFacts DEF Buffered
      <3> QED  BY <3>2, <3>3
    <2> HIDE DEF d
    <2>3. chain'[1] = d
      BY <1>1, <2>1, <2>2, OneExcept
    <2>4. ASSUME Whole(setup) PROVE Fidelity(chain'[1], out', last', file')
      <3>1. ~conf.timeout
        BY <1>0, <1>1, <2>1, <2>4 DEF Whole
      <3>2. out' = <<>>
        BY <1>1, <2>1, <3>1
      <3>3. Faithful(last', file)
        BY <1>0, <2>1, NothingSent
      <3> QED  BY <2>1, <2>2, <2>3, <3>2, <3>3, FaithfulNone DEF Fidelity, BufferFaithful
    <2> QED  BY <2>1, <2>4 DEF FaithInv
  <1>12. CASE Send \/ GiveUp
    <2>1. /\ out # <<>> /\ out' = Tail(out) /\ last' \in {last, Head(out)}
          /\ UNCHANGED <<setup, epoch, seen, chain, file>>
      BY <1>12 DEF Send, GiveUp, fileVars
    <2>2. ASSUME Fidelity(c, out, last, file) PROVE Fidelity(c, out', last', file)
      <3>1. Len(out) \in Nat /\ Len(out) >= 1
        BY <1>1, <2>1, EmptySeq
      <3>2. Head(out) = out[1] /\ Len(out') = Len(out) - 1 /\ \A i \in 1 .. Len(out') : out'[i] = out[i + 1]
        BY <1>1, <2>1, <3>1, HeadTailProperties
      <3>3. Faithful(Head(out), file)
        BY <2>2, <3>1, <3>2 DEF Fidelity, AllFaithful
      <3>4. \A i \in 1 .. Len(out') : Faithful(out'[i], file)
        <4> TAKE i \in 1 .. Len(out')
        <4>1. i + 1 \in 1 .. Len(out)
          BY <3>1, <3>2
        <4> QED  BY <2>2, <3>2, <4>1 DEF Fidelity, AllFaithful
      <3> QED  BY <2>1, <2>2, <3>3, <3>4 DEF Fidelity, AllFaithful
    <2> QED  BY <1>3, <2>1, <2>2
  <1>13. CASE DeadlineFlush
    <2> DEFINE r == Flush(c)
               d == r.codec
    <2>1. /\ chain' = [chain EXCEPT ![1] = d] /\ out' = r.events
          /\ UNCHANGED <<setup, epoch, seen, last, file>>
      BY <1>2, <1>13 DEF DeadlineFlush, fileVars, histVars
    <2>2. StepOK(c, offset, d, offset, r.events) /\ \A f : KeepsFaith(c, d, r.events, f)
      BY <1>1, <1>2, FlushStep
    <2> HIDE DEF r, d
    <2>3. chain'[1] = d
      <3>1. d \in CodecType /\ d.conf = conf
        BY <1>2, <2>2 DEF StepOK
      <3> QED  BY <1>1, <2>1, <3>1, OneExcept
    <2>4. Fidelity(c, out, last, file) => Fidelity(d, r.events, last, file)
      BY <2>2 DEF Fidelity, KeepsFaith
    <2> QED  BY <1>3, <2>1, <2>3, <2>4
  <1>14. ASSUME NEW from \in Nat, chain' = NewChain(from), UNCHANGED <<setup, epoch, seen, out, last, file>> PROVE FaithInv'
    <2>1. chain'[1].buffer = <<>>
      BY <1>0, <1>14, OneNew
    <2>2. Fidelity(c, out, last, file) => Fidelity(chain'[1], out, last, file)
      BY <2>1 DEF Fidelity, BufferFaithful
    <2> QED  BY <1>3, <1>14, <2>2
  <1>15. CASE Finish
    <2>1. chain' = NewChain(Teardown(chain)) /\ UNCHANGED <<setup, epoch, seen, out, last, file>>
      BY <1>15 DEF Finish, Forget, fileVars, histVars
    <2>2. Teardown(chain) \in Nat
      <3>1. Teardown(chain) = c.lastOffset
        BY <1>1 DEF Teardown, OneCodec
      <3> QED  BY <1>2, <3>1
    <2> QED  BY <1>14, <2>1, <2>2
  <1>16. CASE ScanProcess
    <2>1. UNCHANGED <<setup, epoch, seen, out, last, file>> /\ (chain' = NewChain(info.finishOffset) \/ chain' = chain)
      BY <1>16 DEF ScanProcess, fileVars, histVars
    <2> QED  BY <1>1, <1>4, <1>14, <2>1
  <1> QED  BY <1>5, <1>6, <1>7, <1>8, <1>10, <1>11, <1>12, <1>13, <1>15, <1>16, Zenon DEF Next, ReadLoop, Check

-----------------------------------------------------------------------------
(* The theorems. *)

LEMMA HarvesterStart == ASSUME Simple, Init PROVE HarvesterInv
  BY ReadStart, CodecStart, SyncStart, FrontStart, FaithStart DEF HarvesterInv

LEMMA HarvesterStep == ASSUME Simple, HarvesterInv, [Next]_vars PROVE HarvesterInv'
  <1>1. ReadInv /\ CodecInv /\ SyncInv /\ FrontInv /\ FaithInv /\ offset \in Nat
    BY DEF HarvesterInv, CodecInv
  <1>2. setup.truncations = 0 => offset <= Len(file)
    BY <1>1 DEF FrontInv, Exact
  <1>3. ReadInv'
    BY <1>1, ReadStep
  <1>4. CodecInv'
    BY <1>1, CodecInvStep
  <1>5. SyncInv'
    BY <1>1, <1>2, SyncStep
  <1>6. FrontInv'
    BY <1>1, FrontStep
  <1>7. FaithInv'
    BY <1>1, <1>2, FaithStep
  <1> QED  BY <1>3, <1>4, <1>5, <1>6, <1>7 DEF HarvesterInv

\* What a harvester with one codec reads, buffers and hands on fits together in
\* every state, whatever the size of the file, the line buffer and the limits.
THEOREM HarvesterHolds ==
    ASSUME Simple
    PROVE  Spec => []HarvesterInv
  <1>1. Init => HarvesterInv
    BY HarvesterStart
  <1>2. HarvesterInv /\ [Next]_vars => HarvesterInv'
    BY HarvesterStep
  <1> QED  BY <1>1, <1>2, PTL DEF Spec

\* No offset that the registrar or the prospector resumes from is beyond a byte
\* that was neither sent, filtered nor given up: for one codec, if the file is
\* never truncated, or the codec is multiline without a deadline routine (the
\* others do not reset their offset, or may still be sending; see the README).
THEOREM NothingIsPassedOver ==
    ASSUME Simple, \A s \in Setups : Exact(s)
    PROVE  Spec => []NothingPassedOver
  <1>1. HarvesterInv => NothingPassedOver
    <2> SUFFICES ASSUME HarvesterInv PROVE NothingPassedOver
      OBVIOUS
    <2>1. Fronted(chain[1], Resume, out, covered, dropped, last)
      BY DEF HarvesterInv, ReadInv, FrontInv
    <2>2. pc = "closed" => out = <<>> /\ chain[1].buffer = <<>>
      BY DEF HarvesterInv, CodecInv
    <2>3. ASSUME pc = "closed" PROVE 1 .. info.finishOffset \subseteq covered \cup dropped
      <3>1. chain[1].lastOffset = info.finishOffset /\ Front(<<>>, chain[1].lastOffset, covered, dropped)
        BY <2>1, <2>2, <2>3 DEF Fronted, Tight, Resume
      <3>2. PICK a \in Nat : Chained(<<>>, a, info.finishOffset) /\ 1 .. a \subseteq covered \cup dropped
        BY <3>1 DEF Front
      <3>3. a = info.finishOffset
        BY <3>2 DEF Chained
      <3> QED  BY <3>2, <3>3
    <2> QED  BY <2>1, <2>3 DEF NothingPassedOver, Fronted
  <1> QED  BY <1>1, HarvesterHolds, PTL

\* No byte is sent twice by the harvesters of one file, under the same conditions.
THEOREM NothingIsSentTwice ==
    ASSUME Simple, \A s \in Setups : Exact(s)
    PROVE  Spec => SentOnce
  <1> DEFINE A == last' # last /\ seen' = seen => Positions(last') \cap covered = {}
  <1>1. HarvesterInv /\ [Next]_vars => [A]_vars
    <2> SUFFICES ASSUME HarvesterInv, Next, last' # last PROVE Positions(last') \cap covered = {}
      OBVIOUS
    <2>1. Front(out, chain[1].lastOffset, covered, dropped)
      BY DEF HarvesterInv, ReadInv, FrontInv, Fronted
    <2>2. CASE Send
      <3> DEFINE l == chain[1].lastOffset
      <3>1. out # <<>> /\ last' = Head(out) /\ Front(out, l, covered, dropped)
        BY <2>1, <2>2 DEF Send
      <3> HIDE DEF l
      <3>2. Positions(Head(out)) \cap covered = {}
        BY <3>1, FrontNext
      <3> QED  BY <3>1, <3>2
    <2>3. CASE CheckTruncated
      <3>1. last' = Event(0, 0, <<>>) /\ <<>> \in Texts /\ 0 \in Nat
        BY <2>3 DEF CheckTruncated, NoEvent, Texts
      <3>2. last'.start = 0 /\ last'.end = 0
        BY <3>1, EventFields
      <3>3. Positions(last') = {}
        BY <3>2 DEF Positions
      <3> QED  BY <3>3
    <2>4. ~Send /\ ~CheckTruncated => last' = last
      <3>1. CASE (\E b \in Bytes : WriteByte(b)) \/ Truncate \/ OpenFails \/ ReadFails \/ Open \/ ReadLine \/ ReadMore \/ ReadEOF
        BY <3>1 DEF WriteByte, Truncate, OpenFails, ReadFails, Open, ReadLine, ReadMore, ReadEOF, histVars
      <3>2. CASE PerformRead \/ MeasureStop \/ NothingToSend \/ Finish \/ CheckDead \/ CheckPasses
        BY <3>2 DEF PerformRead, MeasureStop, NothingToSend, Finish, CheckDead, CheckPasses, histVars
      <3>3. CASE GiveUp \/ BlockedCheck \/ DeadlineFlush \/ ScanStat \/ ScanProcess \/ Stop
        BY <3>3 DEF GiveUp, BlockedCheck, DeadlineFlush, ScanStat, ScanProcess, Stop, histVars
      <3> QED  BY <3>1, <3>2, <3>3, Zenon DEF Next, ReadLoop, Check
    <2> QED  BY <2>2, <2>3, <2>4
  <1>2. SentOnce <=> [][A]_vars
    BY PTL DEF SentOnce
  <1> QED  BY <1>1, <1>2, HarvesterHolds, PTL DEF Spec

\* An event holds what the file has between its offsets: in every setup with one
\* codec in which a multiline event cannot reach the limit it is split at, and the
\* file is never truncated, or no line needs the overflow of the reader, which a
\* truncation leaves behind, and no deadline routine may still be sending.
THEOREM EventsAreFaithful ==
    ASSUME Simple
    PROVE  Spec => [](Whole(setup) => EventsFaithful)
  <1>1. HarvesterInv => (Whole(setup) => EventsFaithful)
    BY DEF HarvesterInv, FaithInv, Fidelity, Faithful, EventsFaithful
  <1> QED  BY <1>1, HarvesterHolds, PTL
=============================================================================
