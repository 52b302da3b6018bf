----------------------------- MODULE SinkProofs -----------------------------
(***************************************************************************)
(* Sink for any servers, configurations and bounds: until a reload the     *)
(* ordered list is a sound ring, and failoverPosition follows the current  *)
(* endpoint.  SinkTimeouts for any number of timeouts and any delays: the  *)
(* list stays in the order of time, and none of its entries is forgotten.  *)
(***************************************************************************)
EXTENDS Sink, SinkTimeouts, FiniteSetTheorems, SequenceTheorems, NaturalsInduction, WellFoundedInduction, TLAPS

\* What holds at 0 and passes from each number to the next holds up to n.
LEMMA UpTo ==
    ASSUME NEW n \in Nat, NEW T, 0 \in T, \A i \in 1 .. n : i - 1 \in T => i \in T
    PROVE  \A i \in 0 .. n : i \in T
  <1> DEFINE bad == {i \in 0 .. n : i \notin T}
  <1> SUFFICES ASSUME bad # {} PROVE FALSE
    OBVIOUS
  <1>1. bad \subseteq Nat
    OBVIOUS
  <1> HIDE DEF bad
  <1>2. PICK i \in bad : \A j \in bad : ~(<<j, i>> \in OpToRel(<, Nat))
    BY <1>1, NatLessThanWellFounded, WFMin
  <1>3. i \in 0 .. n /\ i \notin T /\ i \in Nat
    BY DEF bad
  <1>4. i # 0
    BY <1>3
  <1>5. i \in 1 .. n /\ i - 1 \in 0 .. n /\ i - 1 \in Nat /\ i - 1 < i
    BY <1>3, <1>4
  <1>6. i - 1 \notin T
    BY <1>3, <1>5
  <1>7. i - 1 \in bad
    BY <1>5, <1>6 DEF bad
  <1>8. <<i - 1, i>> \in OpToRel(<, Nat)
    BY <1>3, <1>5 DEF OpToRel
  <1> QED  BY <1>2, <1>7, <1>8

-----------------------------------------------------------------------------
(* The ring. *)

ListType == [next : [Cells -> Cells \cup {Nil}], prev : [Cells -> Cells \cup {Nil}],
             in : SUBSET Elements, len : Nat]

\* The place before the first element and the one after the last are the root.
Cell(s, i) == IF i \in DOMAIN s THEN s[i] ELSE Root

\* The pointers of the list lead through the elements of s.
RingOf(l, s) ==
    /\ s \in [1 .. l.len -> Elements]
    /\ \A i, j \in 1 .. l.len : s[i] = s[j] => i = j
    /\ l.in = {s[i] : i \in 1 .. l.len}
    /\ \A i \in 0 .. l.len : l.next[Cell(s, i)] = Cell(s, i + 1) /\ l.prev[Cell(s, i + 1)] = Cell(s, i)

LEMMA ContentsOf ==
    ASSUME NEW l \in ListType, NEW s, RingOf(l, s)
    PROVE  Contents(l) = s
  <1> DEFINE Step(f, i) == IF i = 0 THEN Root
                           ELSE LET c == f[i - 1] IN IF c \in Cells THEN l.next[c] ELSE Nil
             at == CHOOSE f : f = [i \in 0 .. l.len |-> Step(f, i)]
             g == [i \in 0 .. l.len |-> Cell(s, i)]
  <1>1. l.len \in Nat /\ s \in [1 .. l.len -> Elements] /\ DOMAIN s = 1 .. l.len
    BY DEF ListType, RingOf
  <1>2. \A i \in 0 .. l.len : Cell(s, i) \in Cells
    BY <1>1 DEF Cell, Cells
  <1>3. Cell(s, 0) = Root /\ \A i \in 1 .. l.len : Cell(s, i) = s[i]
    BY <1>1 DEF Cell
  <1>4. \A i \in 1 .. l.len : l.next[Cell(s, i - 1)] = Cell(s, i)
    <2> TAKE i \in 1 .. l.len
    <2>1. i - 1 \in 0 .. l.len /\ (i - 1) + 1 = i
      BY <1>1
    <2> QED  BY <2>1 DEF RingOf
  <1>5. ASSUME NEW i \in 0 .. l.len PROVE g[i] = Step(g, i)
    <2>1. CASE i = 0
      BY <1>1, <1>3, <2>1
    <2>2. CASE i # 0
      <3>1. i \in 1 .. l.len /\ i - 1 \in 0 .. l.len
        BY <1>1, <2>2
      <3>2. g[i] = Cell(s, i) /\ g[i - 1] = Cell(s, i - 1) /\ Cell(s, i - 1) \in Cells
        BY <1>2, <3>1
      <3> QED  BY <1>4, <2>2, <3>1, <3>2
    <2> QED  BY <2>1, <2>2
  <1>6. g = [i \in 0 .. l.len |-> Step(g, i)]
    <2> DEFINE h == [i \in 0 .. l.len |-> Step(g, i)]
    <2>1. \A i \in 0 .. l.len : g[i] = h[i]
      BY <1>5
    <2>2. DOMAIN g = 0 .. l.len /\ DOMAIN h = 0 .. l.len
      OBVIOUS
    <2> QED  BY <2>1
  <1>7. at = [i \in 0 .. l.len |-> Step(at, i)]
    BY <1>6, Zenon
  <1> HIDE DEF at
  <1>8. \A i \in 0 .. l.len : at[i] = Step(at, i)
    BY <1>7
  <1>9. \A i \in 0 .. l.len : at[i] = Cell(s, i)
    <2> DEFINE T == {i \in 0 .. l.len : at[i] = Cell(s, i)}
    <2>1. 0 \in T
      BY <1>1, <1>3, <1>8
    <2>2. ASSUME NEW i \in 1 .. l.len, i - 1 \in T PROVE i \in T
      <3>1. i \in 0 .. l.len /\ i # 0 /\ at[i - 1] = Cell(s, i - 1) /\ i - 1 \in 0 .. l.len
        BY <1>1, <2>2
      <3>2. at[i] = l.next[Cell(s, i - 1)]
        BY <1>2, <1>8, <3>1
      <3> QED  BY <1>4, <3>1, <3>2
    <2> HIDE DEF T
    <2>3. \A i \in 0 .. l.len : i \in T
      BY <1>1, <2>1, <2>2, UpTo
    <2> QED  BY <2>3 DEF T
  <1>10. Contents(l) = [i \in 1 .. l.len |-> at[i]]
    BY Zenon DEF Contents, at
  <1>11. \A i \in 1 .. l.len : at[i] = s[i]
    BY <1>1, <1>3, <1>9
  <1> QED  BY <1>1, <1>10, <1>11

\* Two places of the ring hold the same cell only if both are the root.
LEMMA CellsDiffer ==
    ASSUME NEW l \in ListType, NEW s, RingOf(l, s)
    PROVE  /\ l.len \in Nat /\ DOMAIN s = 1 .. l.len
           /\ Cell(s, 0) = Root /\ Cell(s, l.len + 1) = Root
           /\ \A i \in 1 .. l.len : Cell(s, i) = s[i] /\ s[i] \in Elements /\ s[i] \in l.in
           /\ \A i \in 0 .. l.len + 1 : Cell(s, i) \in Cells /\ Cell(s, i) # Nil
           /\ \A i, j \in 0 .. l.len : Cell(s, i) = Cell(s, j) => i = j
           /\ \A i, j \in 1 .. l.len + 1 : Cell(s, i) = Cell(s, j) => i = j
  <1>1. l.len \in Nat /\ s \in [1 .. l.len -> Elements] /\ DOMAIN s = 1 .. l.len
        /\ \A i \in 1 .. l.len : s[i] \in l.in
    BY DEF ListType, RingOf
  <1>2. Cell(s, 0) = Root /\ Cell(s, l.len + 1) = Root
    BY <1>1 DEF Cell
  <1>3. \A i \in 1 .. l.len : Cell(s, i) = s[i] /\ s[i] \in Elements /\ Cell(s, i) # Root /\ Cell(s, i) # Nil
    BY <1>1, ListAssumption DEF Cell
  <1>4. Root # Nil
    BY DEF Root, Nil
  <1>5. \A i \in 0 .. l.len + 1 : i \in 1 .. l.len \/ i = 0 \/ i = l.len + 1
    BY <1>1
  <1>6. \A i, j \in 1 .. l.len : s[i] = s[j] => i = j
    BY DEF RingOf
  <1>7. \A i \in 0 .. l.len : i \in 1 .. l.len \/ i = 0
    BY <1>1
  <1>8. \A i \in 1 .. l.len + 1 : i \in 1 .. l.len \/ i = l.len + 1
    BY <1>1
  <1>9. \A i \in 0 .. l.len + 1 : Cell(s, i) \in Cells /\ Cell(s, i) # Nil
    BY <1>2, <1>3, <1>4, <1>5 DEF Cells
  <1>10. \A i, j \in 0 .. l.len : Cell(s, i) = Cell(s, j) => i = j
    BY <1>2, <1>3, <1>6, <1>7
  <1>11. \A i, j \in 1 .. l.len + 1 : Cell(s, i) = Cell(s, j) => i = j
    BY <1>2, <1>3, <1>6, <1>8
  <1> QED  BY <1>1, <1>2, <1>3, <1>9, <1>10, <1>11

LEMMA RingIsRing ==
    ASSUME NEW l \in ListType, NEW s, RingOf(l, s)
    PROVE  IsRing(l)
  <1> DEFINE ring == <<Root>> \o s \o <<Root>>
  <1>1. Contents(l) = s
    BY ContentsOf
  <1>2. l.len \in Nat /\ s \in [1 .. l.len -> Elements]
    BY DEF ListType, RingOf
  <1>3. s \in Seq(Cells) /\ Len(s) = l.len /\ DOMAIN s = 1 .. l.len
    BY <1>2 DEF Cells
  <1>4. Range(s) = l.in
    BY <1>3 DEF Range, RingOf
  <1>5. IsInjective(s)
    BY <1>3 DEF IsInjective, RingOf
  <1>6. ASSUME NEW i \in 1 .. Len(s) + 1
        PROVE  ring[i] = Cell(s, i - 1) /\ ring[i + 1] = Cell(s, i)
    <2> DEFINE a == <<Root>> \o s
    <2>1. Root \in Cells /\ <<Root>> \in Seq(Cells) /\ Len(<<Root>>) = 1
      BY DEF Cells
    <2>2. a \in Seq(Cells) /\ Len(a) = Len(s) + 1 /\ a[1] = Root /\ \A j \in 1 .. Len(s) : a[j + 1] = s[j]
      BY <1>3, <2>1
    <2>3. \A j \in 1 .. Len(s) + 1 : a[j] = Cell(s, j - 1)
      <3> TAKE j \in 1 .. Len(s) + 1
      <3>1. CASE j = 1
        BY <1>2, <1>3, <2>2, <3>1 DEF Cell
      <3>2. CASE j # 1
        <4>1. j - 1 \in 1 .. Len(s) /\ (j - 1) + 1 = j
          BY <1>2, <1>3, <3>2
        <4> QED  BY <1>3, <2>2, <4>1 DEF Cell
      <3> QED  BY <3>1, <3>2
    <2> HIDE DEF a
    <2>4. \A j \in 1 .. Len(s) + 1 : (a \o <<Root>>)[j] = a[j]
      BY <2>1, <2>2
    <2>5. (a \o <<Root>>)[Len(s) + 2] = Root
      <3>1. (a \o <<Root>>)[Len(a) + 1] = <<Root>>[1]
        BY <2>1, <2>2
      <3>2. Len(a) + 1 = Len(s) + 2
        BY <1>2, <1>3, <2>2
      <3> QED  BY <3>1, <3>2
    <2>6. CASE i = Len(s) + 1
      <3>1. i + 1 = Len(s) + 2
        BY <1>2, <1>3, <2>6
      <3>2. ring[i] = Cell(s, i - 1) /\ ring[i + 1] = Root
        BY <2>3, <2>4, <2>5, <3>1 DEF a
      <3> QED  BY <1>2, <1>3, <2>6, <3>2 DEF Cell
    <2>7. CASE i # Len(s) + 1
      <3>1. i + 1 \in 1 .. Len(s) + 1 /\ (i + 1) - 1 = i
        BY <1>2, <1>3, <2>7
      <3> QED  BY <2>3, <2>4, <3>1 DEF a
    <2> QED  BY <2>6, <2>7
  <1>7. ASSUME NEW i \in 1 .. Len(s) + 1
        PROVE  l.next[ring[i]] = ring[i + 1] /\ l.prev[ring[i + 1]] = ring[i]
    <2>1. i - 1 \in 0 .. l.len /\ (i - 1) + 1 = i
      BY <1>2, <1>3
    <2>2. l.next[Cell(s, i - 1)] = Cell(s, i) /\ l.prev[Cell(s, i)] = Cell(s, i - 1)
      BY <2>1 DEF RingOf
    <2> HIDE DEF ring
    <2> QED  BY <1>6, <2>2
  <1> QED  BY <1>1, <1>4, <1>5, <1>7 DEF IsRing

LEMMA EmptyRing == EmptyList \in ListType /\ RingOf(EmptyList, <<>>) /\ EmptyList.in = {}
  <1>1. EmptyList \in ListType /\ EmptyList.len = 0 /\ EmptyList.in = {}
        /\ EmptyList.next[Root] = Root /\ EmptyList.prev[Root] = Root
    BY DEF EmptyList, ListType, Cells
  <1>2. <<>> \in [1 .. 0 -> Elements] /\ DOMAIN <<>> = 1 .. 0
    OBVIOUS
  <1>3. \A i : Cell(<<>>, i) = Root
    BY DEF Cell
  <1> QED  BY <1>1, <1>2, <1>3 DEF RingOf

\* The elements with e put in behind the k-th, and without the k-th, of n.
PutIn(s, n, k, e) == [i \in 1 .. n + 1 |-> IF i <= k THEN s[i] ELSE IF i = k + 1 THEN e ELSE s[i - 1]]
TakeOut(s, n, k) == [i \in 1 .. n - 1 |-> IF i < k THEN s[i] ELSE s[i + 1]]

LEMMA InsertFields ==
    ASSUME NEW l \in ListType, NEW e \in Elements, NEW at \in Cells, e # at, l.next[at] # Nil, l.next[at] # e
    PROVE  LET m == insert(l, e, at)  n == l.next[at]
           IN  /\ m \in ListType
               /\ m.in = l.in \cup {e} /\ m.len = l.len + 1
               /\ \A c \in Cells : m.next[c] = IF c = e THEN n ELSE IF c = at THEN e ELSE l.next[c]
               /\ \A c \in Cells : m.prev[c] = IF c = n THEN e ELSE IF c = e THEN at ELSE l.prev[c]
  <1> DEFINE n == l.next[at]
             m == insert(l, e, at)
             nx == [[l.next EXCEPT ![at] = e] EXCEPT ![e] = n]
             pv == [[l.prev EXCEPT ![e] = at] EXCEPT ![n] = e]
             is == l.in \cup {e}
             ln == l.len + 1
  <1>1. e \in Cells /\ n \in Cells
    BY DEF ListType, Cells
  <1>2. l.next \in [Cells -> Cells \cup {Nil}] /\ l.prev \in [Cells -> Cells \cup {Nil}]
        /\ l.in \in SUBSET Elements /\ l.len \in Nat
    BY DEF ListType
  <1>3. nx \in [Cells -> Cells \cup {Nil}] /\ \A c \in Cells : nx[c] = IF c = e THEN n ELSE IF c = at THEN e ELSE l.next[c]
    <2> HIDE DEF n
    <2> QED  BY <1>1, <1>2
  <1>4. pv \in [Cells -> Cells \cup {Nil}] /\ \A c \in Cells : pv[c] = IF c = n THEN e ELSE IF c = e THEN at ELSE l.prev[c]
    <2> HIDE DEF n
    <2> QED  BY <1>1, <1>2
  <1>5. is \in SUBSET Elements /\ ln \in Nat
    BY <1>2
  <1>6. m = [next |-> nx, prev |-> pv, in |-> is, len |-> ln]
    <2> DEFINE Rec(a, b, c, d) == [next |-> a, prev |-> b, in |-> c, len |-> d]
               m1 == [l EXCEPT !.next[at] = e]
               m2 == [m1 EXCEPT !.prev[e] = at]
               m3 == [m2 EXCEPT !.next[e] = n]
               m4 == [m3 EXCEPT !.prev[n] = e]
    <2>1. m = [m4 EXCEPT !.in = @ \cup {e}, !.len = @ + 1]
      BY Zenon DEF insert
    <2>2. l = Rec(l.next, l.prev, l.in, l.len)
      BY DEF ListType
    <2> HIDE DEF n
    <2>3. m1 = Rec([l.next EXCEPT ![at] = e], l.prev, l.in, l.len)
      BY <2>2
    <2> HIDE DEF m1
    <2>4. m2 = Rec([l.next EXCEPT ![at] = e], [l.prev EXCEPT ![e] = at], l.in, l.len)
      BY <2>3
    <2> HIDE DEF m2
    <2>5. m3 = Rec(nx, [l.prev EXCEPT ![e] = at], l.in, l.len)
      BY <2>4
    <2> HIDE DEF m3, nx
    <2>6. m4 = Rec(nx, pv, l.in, l.len)
      BY <2>5
    <2> HIDE DEF m4, pv
    <2> QED  BY <2>1, <2>6
  <1> HIDE DEF m, nx, pv, is, ln
  <1>7. m \in ListType /\ m.next = nx /\ m.prev = pv /\ m.in = is /\ m.len = ln
    BY <1>3, <1>4, <1>5, <1>6 DEF ListType
  <1> QED  BY <1>3, <1>4, <1>7 DEF m, is, ln

LEMMA RemoveFields ==
    ASSUME NEW l \in ListType, NEW e \in l.in,
           l.prev[e] \in Cells, l.next[e] \in Cells, l.prev[e] # e, l.next[e] # e
    PROVE  LET m == remove(l, e)
           IN  /\ m \in ListType \/ l.len = 0
               /\ m.in = l.in \ {e} /\ m.len = l.len - 1
               /\ \A c \in Cells : m.next[c] = IF c = e THEN Nil ELSE IF c = l.prev[e] THEN l.next[e] ELSE l.next[c]
               /\ \A c \in Cells : m.prev[c] = IF c = e THEN Nil ELSE IF c = l.next[e] THEN l.prev[e] ELSE l.prev[c]
  <1> DEFINE p == l.prev[e]
             n == l.next[e]
             m == remove(l, e)
             nx == [[l.next EXCEPT ![p] = n] EXCEPT ![e] = Nil]
             pv == [[l.prev EXCEPT ![n] = p] EXCEPT ![e] = Nil]
             is == l.in \ {e}
             ln == l.len - 1
  <1>1. e \in Cells /\ n \in Cells /\ p \in Cells /\ p # e /\ n # e
    BY DEF ListType, Cells
  <1>2. l.next \in [Cells -> Cells \cup {Nil}] /\ l.prev \in [Cells -> Cells \cup {Nil}]
        /\ l.in \in SUBSET Elements /\ l.len \in Nat
    BY DEF ListType
  <1>3. nx \in [Cells -> Cells \cup {Nil}] /\ \A c \in Cells : nx[c] = IF c = e THEN Nil ELSE IF c = p THEN n ELSE l.next[c]
    <2> HIDE DEF n, p
    <2> QED  BY <1>1, <1>2
  <1>4. pv \in [Cells -> Cells \cup {Nil}] /\ \A c \in Cells : pv[c] = IF c = e THEN Nil ELSE IF c = n THEN p ELSE l.prev[c]
    <2> HIDE DEF n, p
    <2> QED  BY <1>1, <1>2
  <1>5. is \in SUBSET Elements /\ (ln \in Nat \/ l.len = 0)
    BY <1>2
  <1>6. m = [next |-> nx, prev |-> pv, in |-> is, len |-> ln]
    <2> DEFINE Rec(a, b, c, d) == [next |-> a, prev |-> b, in |-> c, len |-> d]
               m1 == [l EXCEPT !.next[p] = n]
               m2 == [m1 EXCEPT !.prev[n] = p]
               m3 == [m2 EXCEPT !.next[e] = Nil]
               m4 == [m3 EXCEPT !.prev[e] = Nil]
    <2>1. m = [m4 EXCEPT !.in = @ \ {e}, !.len = @ - 1]
      BY Zenon DEF remove
    <2>2. l = Rec(l.next, l.prev, l.in, l.len)
      BY DEF ListType
    <2> HIDE DEF n, p
    <2>3. m1 = Rec([l.next EXCEPT ![p] = n], l.prev, l.in, l.len)
      BY <2>2
    <2> HIDE DEF m1
    <2>4. m2 = Rec([l.next EXCEPT ![p] = n], [l.prev EXCEPT ![n] = p], l.in, l.len)
      BY <2>3
    <2> HIDE DEF m2
    <2>5. m3 = Rec(nx, [l.prev EXCEPT ![n] = p], l.in, l.len)
      BY <2>4
    <2> HIDE DEF m3, nx
    <2>6. m4 = Rec(nx, pv, l.in, l.len)
      BY <2>5
    <2> HIDE DEF m4, pv
    <2> QED  BY <2>1, <2>6
  <1> HIDE DEF m, nx, pv, is, ln
  <1>7. m.next = nx /\ m.prev = pv /\ m.in = is /\ m.len = ln
    BY <1>6
  <1>8. m \in ListType \/ l.len = 0
    BY <1>3, <1>4, <1>5, <1>6 DEF ListType
  <1> QED  BY <1>3, <1>4, <1>7, <1>8 DEF m, is, ln

\* insert behind the k-th element.
LEMMA InsertRing ==
    ASSUME NEW l \in ListType, NEW s, RingOf(l, s), NEW e \in Elements, e \notin l.in, NEW k \in 0 .. l.len
    PROVE  LET m == insert(l, e, Cell(s, k))
           IN  m \in ListType /\ m.in = l.in \cup {e} /\ m.len = l.len + 1 /\ RingOf(m, PutIn(s, l.len, k, e))
  <1> DEFINE N == l.len
             t == PutIn(s, N, k, e)
             at == Cell(s, k)
             n == Cell(s, k + 1)
             m == insert(l, e, at)
  <1>1. /\ N \in Nat /\ k \in 0 .. N /\ DOMAIN s = 1 .. N /\ Cell(s, 0) = Root /\ Cell(s, N + 1) = Root
        /\ \A i \in 1 .. N : Cell(s, i) = s[i] /\ s[i] \in Elements /\ s[i] \in l.in
        /\ \A i \in 0 .. N + 1 : Cell(s, i) \in Cells /\ Cell(s, i) # Nil
    BY CellsDiffer
  <1>2. \A i, j \in 0 .. N : Cell(s, i) = Cell(s, j) => i = j
    BY CellsDiffer
  <1>3. \A i, j \in 1 .. N + 1 : Cell(s, i) = Cell(s, j) => i = j
    BY CellsDiffer
  <1>4. \A i \in 0 .. N : l.next[Cell(s, i)] = Cell(s, i + 1) /\ l.prev[Cell(s, i + 1)] = Cell(s, i)
    BY DEF RingOf
  <1>5. \A i \in 0 .. N + 1 : Cell(s, i) # e
    <2> TAKE i \in 0 .. N + 1
    <2>1. i \in 1 .. N \/ i = 0 \/ i = N + 1
      BY <1>1
    <2> QED  BY <1>1, <2>1, ListAssumption
  <1>6. at \in Cells /\ n \in Cells /\ at # e /\ n # e /\ n # Nil /\ l.next[at] = n
    <2>1. k \in 0 .. N + 1 /\ k + 1 \in 0 .. N + 1
      BY <1>1
    <2> QED  BY <1>1, <1>4, <1>5, <2>1
  <1> HIDE DEF at, n, m, N
  <1>7. /\ m \in ListType /\ m.in = l.in \cup {e} /\ m.len = N + 1
        /\ \A c \in Cells : m.next[c] = IF c = e THEN n ELSE IF c = at THEN e ELSE l.next[c]
        /\ \A c \in Cells : m.prev[c] = IF c = n THEN e ELSE IF c = e THEN at ELSE l.prev[c]
    BY <1>6, InsertFields DEF m, N
  <1>8. DOMAIN t = 1 .. N + 1 /\ \A i \in 1 .. N + 1 : t[i] = IF i <= k THEN s[i] ELSE IF i = k + 1 THEN e ELSE s[i - 1]
    BY DEF PutIn
  <1> HIDE DEF t
  <1>9. \A i \in 0 .. k : Cell(t, i) = Cell(s, i)
    <2> TAKE i \in 0 .. k
    <2>1. CASE i = 0
      BY <1>1, <1>8, <2>1 DEF Cell
    <2>2. CASE i # 0
      <3>1. i \in 1 .. N /\ i \in 1 .. N + 1 /\ i <= k
        BY <1>1, <2>2
      <3> QED  BY <1>1, <1>8, <3>1 DEF Cell
    <2> QED  BY <2>1, <2>2
  <1>10. Cell(t, k + 1) = e
    <2>1. k + 1 \in 1 .. N + 1 /\ ~(k + 1 <= k)
      BY <1>1
    <2> QED  BY <1>8, <2>1 DEF Cell
  <1>11. \A i \in k + 2 .. N + 2 : Cell(t, i) = Cell(s, i - 1)
    <2> TAKE i \in k + 2 .. N + 2
    <2>1. CASE i = N + 2
      <3>1. i - 1 = N + 1 /\ i \notin 1 .. N + 1
        BY <1>1, <2>1
      <3> QED  BY <1>1, <1>8, <3>1 DEF Cell
    <2>2. CASE i # N + 2
      <3>1. i \in 1 .. N + 1 /\ i - 1 \in 1 .. N /\ ~(i <= k) /\ i # k + 1
        BY <1>1, <2>2
      <3> QED  BY <1>1, <1>8, <3>1 DEF Cell
    <2> QED  BY <2>1, <2>2
  <1>12. ASSUME NEW i \in 0 .. N + 1
         PROVE  m.next[Cell(t, i)] = Cell(t, i + 1) /\ m.prev[Cell(t, i + 1)] = Cell(t, i)
    <2>1. CASE i < k
      <3>1. /\ i \in 0 .. k /\ i + 1 \in 0 .. k /\ i \in 0 .. N /\ i # k /\ i \in 0 .. N + 1
            /\ i + 1 \in 1 .. N + 1 /\ i + 1 \in 0 .. N + 1 /\ k + 1 \in 1 .. N + 1 /\ i + 1 # k + 1
        BY <1>1, <2>1
      <3>2. Cell(t, i) = Cell(s, i) /\ Cell(t, i + 1) = Cell(s, i + 1)
        BY <1>9, <3>1
      <3>3. Cell(s, i) # at /\ Cell(s, i + 1) # n
        BY <1>1, <1>2, <1>3, <3>1 DEF at, n
      <3>4. Cell(s, i) \in Cells /\ Cell(s, i + 1) \in Cells /\ Cell(s, i) # e /\ Cell(s, i + 1) # e
        BY <1>1, <1>5, <3>1
      <3> QED  BY <1>4, <1>7, <3>1, <3>2, <3>3, <3>4
    <2>2. CASE i = k
      <3>1. Cell(t, i) = at /\ Cell(t, i + 1) = e
        BY <1>1, <1>9, <1>10, <2>2 DEF at
      <3>2. e \in Cells
        BY DEF Cells
      <3> QED  BY <1>6, <1>7, <3>1, <3>2
    <2>3. CASE i = k + 1
      <3>1. k + 2 \in k + 2 .. N + 2 /\ (k + 2) - 1 = k + 1 /\ i + 1 = k + 2
        BY <1>1, <2>3
      <3>2. Cell(t, i) = e /\ Cell(t, i + 1) = n
        BY <1>10, <1>11, <2>3, <3>1 DEF n
      <3>3. e \in Cells
        BY DEF Cells
      <3> QED  BY <1>6, <1>7, <3>2, <3>3
    <2>4. CASE i > k + 1
      <3>1. /\ i \in k + 2 .. N + 2 /\ i + 1 \in k + 2 .. N + 2 /\ (i + 1) - 1 = i /\ i - 1 \in 0 .. N /\ i - 1 # k
            /\ (i - 1) + 1 = i /\ i \in 1 .. N + 1 /\ k + 1 \in 1 .. N + 1 /\ i # k + 1
            /\ i \in 0 .. N + 1 /\ i - 1 \in 0 .. N + 1
        BY <1>1, <2>4
      <3>2. Cell(t, i) = Cell(s, i - 1) /\ Cell(t, i + 1) = Cell(s, i)
        BY <1>11, <3>1
      <3>3. Cell(s, i - 1) # at /\ Cell(s, i) # n
        BY <1>1, <1>2, <1>3, <3>1 DEF at, n
      <3>4. Cell(s, i) \in Cells /\ Cell(s, i - 1) \in Cells /\ Cell(s, i) # e /\ Cell(s, i - 1) # e
        BY <1>1, <1>5, <3>1
      <3>5. l.next[Cell(s, i - 1)] = Cell(s, i) /\ l.prev[Cell(s, i)] = Cell(s, i - 1)
        BY <1>4, <3>1
      <3> QED  BY <1>7, <3>2, <3>3, <3>4, <3>5
    <2> QED  BY <1>1, <2>1, <2>2, <2>3, <2>4
  <1>13. \A i \in 1 .. N + 1 :
           \/ i <= k /\ i \in 1 .. N /\ t[i] = s[i]
           \/ i = k + 1 /\ t[i] = e
           \/ i > k + 1 /\ i - 1 \in 1 .. N /\ t[i] = s[i - 1]
    BY <1>1, <1>8
  <1>14. \A i \in 1 .. N + 1 : t[i] \in Elements
    BY <1>1, <1>13
  <1>15. t \in [1 .. N + 1 -> Elements]
    <2>1. t = [i \in 1 .. N + 1 |-> t[i]]
      BY <1>8 DEF t, PutIn
    <2> QED  BY <1>14, <2>1
  <1>16. ASSUME NEW i \in 1 .. N + 1, NEW j \in 1 .. N + 1, t[i] = t[j] PROVE i = j
    <2>1. \A a, b \in 1 .. N : s[a] = s[b] => a = b
      BY DEF RingOf, N
    <2>2. \A a \in 1 .. N : s[a] # e
      BY <1>1
    <2>3. i - 1 = j - 1 => i = j
      BY <1>1
    <2> QED  BY <1>1, <1>13, <1>16, <2>1, <2>2, <2>3
  <1>17. l.in \cup {e} = {t[i] : i \in 1 .. N + 1}
    <2>1. l.in = {s[i] : i \in 1 .. N}
      BY DEF RingOf, N
    <2>2. ASSUME NEW x \in l.in PROVE \E i \in 1 .. N + 1 : t[i] = x
      <3>1. PICK i \in 1 .. N : s[i] = x
        BY <2>1
      <3>2. CASE i <= k
        BY <1>1, <1>8, <3>1, <3>2
      <3>3. CASE i > k
        <4>1. i + 1 \in 1 .. N + 1 /\ ~(i + 1 <= k) /\ i + 1 # k + 1 /\ (i + 1) - 1 = i
          BY <1>1, <3>3
        <4>2. t[i + 1] = s[i]
          BY <1>8, <4>1
        <4> QED  BY <3>1, <4>1, <4>2
      <3> QED  BY <1>1, <3>2, <3>3
    <2>3. k + 1 \in 1 .. N + 1 /\ t[k + 1] = e
      BY <1>1, <1>8
    <2>4. \A i \in 1 .. N + 1 : t[i] \in l.in \cup {e}
      BY <1>1, <1>13
    <2> QED  BY <2>2, <2>3, <2>4
  <1>18. RingOf(m, t)
    BY <1>7, <1>12, <1>15, <1>16, <1>17 DEF RingOf
  <1> QED  BY <1>7, <1>18 DEF m, t, at, N

\* remove the k-th element.
LEMMA RemoveRing ==
    ASSUME NEW l \in ListType, NEW s, RingOf(l, s), NEW k \in 1 .. l.len
    PROVE  LET m == remove(l, s[k])
           IN  m \in ListType /\ m.in = l.in \ {s[k]} /\ m.len = l.len - 1 /\ RingOf(m, TakeOut(s, l.len, k))
  <1> DEFINE N == l.len
             e == s[k]
             t == TakeOut(s, N, k)
             p == Cell(s, k - 1)
             n == Cell(s, k + 1)
             m == remove(l, e)
  <1>1. /\ N \in Nat /\ k \in 1 .. N /\ DOMAIN s = 1 .. N /\ Cell(s, 0) = Root /\ Cell(s, N + 1) = Root
        /\ \A i \in 1 .. N : Cell(s, i) = s[i] /\ s[i] \in Elements /\ s[i] \in l.in
        /\ \A i \in 0 .. N + 1 : Cell(s, i) \in Cells /\ Cell(s, i) # Nil
    BY CellsDiffer
  <1>2. \A i, j \in 0 .. N : Cell(s, i) = Cell(s, j) => i = j
    BY CellsDiffer
  <1>3. \A i, j \in 1 .. N + 1 : Cell(s, i) = Cell(s, j) => i = j
    BY CellsDiffer
  <1>4. \A i \in 0 .. N : l.next[Cell(s, i)] = Cell(s, i + 1) /\ l.prev[Cell(s, i + 1)] = Cell(s, i)
    BY DEF RingOf
  <1> HIDE DEF N
  <1>i. /\ k - 1 \in 0 .. N /\ k \in 0 .. N /\ (k - 1) + 1 = k /\ k - 1 # k /\ k + 1 # k
        /\ k \in 1 .. N + 1 /\ k + 1 \in 1 .. N + 1 /\ k - 1 \in 0 .. N + 1 /\ k + 1 \in 0 .. N + 1 /\ k \in 0 .. N + 1
    BY <1>1
  <1>5. e \in l.in /\ e \in Elements /\ Cell(s, k) = e
    BY <1>1
  <1> HIDE DEF e
  <1>6. l.prev[e] = p /\ l.next[e] = n /\ p \in Cells /\ n \in Cells /\ p # e /\ n # e
    <2>1. l.prev[e] = p
      <3>1. l.prev[Cell(s, (k - 1) + 1)] = Cell(s, k - 1)
        BY <1>4, <1>i
      <3> QED  BY <1>5, <1>i, <3>1
    <2>2. l.next[e] = n
      BY <1>4, <1>5, <1>i
    <2> QED  BY <1>1, <1>2, <1>3, <1>5, <1>i, <2>1, <2>2
  <1> HIDE DEF p, n, m
  <1>7. /\ m \in ListType /\ m.in = l.in \ {e} /\ m.len = N - 1
        /\ \A c \in Cells : m.next[c] = IF c = e THEN Nil ELSE IF c = p THEN n ELSE l.next[c]
        /\ \A c \in Cells : m.prev[c] = IF c = e THEN Nil ELSE IF c = n THEN p ELSE l.prev[c]
    <2>1. N # 0
      BY <1>1
    <2> QED  BY <1>5, <1>6, <2>1, RemoveFields DEF m, N
  <1>8. DOMAIN t = 1 .. N - 1 /\ \A i \in 1 .. N - 1 : t[i] = IF i < k THEN s[i] ELSE s[i + 1]
    BY DEF TakeOut
  <1>d. t = [i \in 1 .. N - 1 |-> t[i]]
    BY DEF TakeOut
  <1> HIDE DEF t
  <1>9. \A i \in 0 .. k - 1 : Cell(t, i) = Cell(s, i)
    <2> TAKE i \in 0 .. k - 1
    <2>1. CASE i = 0
      BY <1>1, <1>8, <2>1 DEF Cell
    <2>2. CASE i # 0
      <3>1. i \in 1 .. N /\ i \in 1 .. N - 1 /\ i < k
        BY <1>1, <2>2
      <3> QED  BY <1>1, <1>8, <3>1 DEF Cell
    <2> QED  BY <2>1, <2>2
  <1>10. \A i \in k .. N : Cell(t, i) = Cell(s, i + 1)
    <2> TAKE i \in k .. N
    <2>1. CASE i = N
      <3>1. i + 1 = N + 1 /\ i \notin 1 .. N - 1
        BY <1>1, <2>1
      <3> QED  BY <1>1, <1>8, <3>1 DEF Cell
    <2>2. CASE i # N
      <3>1. i \in 1 .. N - 1 /\ i + 1 \in 1 .. N /\ ~(i < k)
        BY <1>1, <2>2
      <3> QED  BY <1>1, <1>8, <3>1 DEF Cell
    <2> QED  BY <2>1, <2>2
  <1>11. ASSUME NEW i \in 0 .. N - 1
         PROVE  m.next[Cell(t, i)] = Cell(t, i + 1) /\ m.prev[Cell(t, i + 1)] = Cell(t, i)
    <2>1. CASE i < k - 1
      <3>1. /\ i \in 0 .. k - 1 /\ i + 1 \in 0 .. k - 1 /\ i \in 0 .. N /\ i # k /\ i # k - 1 /\ i \in 0 .. N + 1
            /\ i + 1 \in 1 .. N + 1 /\ i + 1 \in 0 .. N + 1 /\ i + 1 # k /\ i + 1 # k + 1
        BY <1>1, <2>1
      <3>2. Cell(t, i) = Cell(s, i) /\ Cell(t, i + 1) = Cell(s, i + 1)
        BY <1>9, <3>1
      <3>3. Cell(s, i) # p /\ Cell(s, i) # e
        BY <1>2, <1>5, <1>i, <3>1 DEF p
      <3>4. Cell(s, i + 1) # n /\ Cell(s, i + 1) # e
        BY <1>3, <1>5, <1>i, <3>1 DEF n
      <3>5. Cell(s, i) \in Cells /\ Cell(s, i + 1) \in Cells
        BY <1>1, <3>1
      <3> QED  BY <1>4, <1>7, <3>1, <3>2, <3>3, <3>4, <3>5
    <2>2. CASE i = k - 1
      <3>1. k \in k .. N /\ i + 1 = k /\ k - 1 \in 0 .. k - 1
        BY <1>1, <2>2
      <3>2. Cell(t, i) = p /\ Cell(t, i + 1) = n
        BY <1>9, <1>10, <2>2, <3>1 DEF p, n
      <3> QED  BY <1>6, <1>7, <3>2
    <2>3. CASE i > k - 1
      <3>1. /\ i \in k .. N /\ i + 1 \in k .. N /\ i + 1 \in 0 .. N /\ i + 1 # k /\ i + 1 # k - 1
            /\ (i + 1) + 1 \in 1 .. N + 1 /\ (i + 1) + 1 # k /\ (i + 1) + 1 # k + 1
            /\ i + 1 \in 0 .. N + 1 /\ (i + 1) + 1 \in 0 .. N + 1
        BY <1>1, <2>3
      <3>2. Cell(t, i) = Cell(s, i + 1) /\ Cell(t, i + 1) = Cell(s, (i + 1) + 1)
        BY <1>10, <3>1
      <3>3. Cell(s, i + 1) # p /\ Cell(s, i + 1) # e
        BY <1>2, <1>5, <1>i, <3>1 DEF p
      <3>4. Cell(s, (i + 1) + 1) # n /\ Cell(s, (i + 1) + 1) # e
        BY <1>3, <1>5, <1>i, <3>1 DEF n
      <3>5. Cell(s, i + 1) \in Cells /\ Cell(s, (i + 1) + 1) \in Cells
        BY <1>1, <3>1
      <3> QED  BY <1>4, <1>7, <3>1, <3>2, <3>3, <3>4, <3>5
    <2> QED  BY <1>1, <2>1, <2>2, <2>3
  <1>12. \A i \in 1 .. N - 1 :
           \/ i < k /\ i \in 1 .. N /\ t[i] = s[i]
           \/ i >= k /\ i + 1 \in 1 .. N /\ t[i] = s[i + 1]
    BY <1>1, <1>8
  <1>13. t \in [1 .. N - 1 -> Elements]
    <2>1. \A i \in 1 .. N - 1 : t[i] \in Elements
      BY <1>1, <1>12
    <2> QED  BY <1>d, <2>1
  <1>s. \A a, b \in 1 .. N : s[a] = s[b] => a = b
    BY DEF RingOf, N
  <1>14. ASSUME NEW i \in 1 .. N - 1, NEW j \in 1 .. N - 1, t[i] = t[j] PROVE i = j
    <2>1. CASE i < k /\ j < k
      BY <1>1, <1>12, <1>14, <1>s, <2>1
    <2>2. CASE i >= k /\ j >= k
      <3>1. i + 1 = j + 1
        BY <1>1, <1>12, <1>14, <1>s, <2>2
      <3> QED  BY <1>1, <3>1
    <2>3. CASE i < k /\ j >= k
      <3>1. i = j + 1
        BY <1>1, <1>12, <1>14, <1>s, <2>3
      <3> QED  BY <1>1, <2>3, <3>1
    <2>4. CASE i >= k /\ j < k
      <3>1. j = i + 1
        BY <1>1, <1>12, <1>14, <1>s, <2>4
      <3> QED  BY <1>1, <2>4, <3>1
    <2> QED  BY <1>1, <2>1, <2>2, <2>3, <2>4
  <1>15. l.in \ {e} = {t[i] : i \in 1 .. N - 1}
    <2>1. l.in = {s[i] : i \in 1 .. N}
      BY DEF RingOf, N
    <2>2. ASSUME NEW x \in l.in \ {e} PROVE \E i \in 1 .. N - 1 : t[i] = x
      <3>1. PICK i \in 1 .. N : s[i] = x
        BY <2>1
      <3>2. i # k
        BY <2>2, <3>1 DEF e
      <3>3. CASE i < k
        <4>1. i \in 1 .. N - 1
          BY <1>1, <3>3
        <4> QED  BY <1>8, <3>1, <3>3, <4>1
      <3>4. CASE i > k
        <4>1. i - 1 \in 1 .. N - 1 /\ ~(i - 1 < k) /\ (i - 1) + 1 = i
          BY <1>1, <3>4
        <4> QED  BY <1>8, <3>1, <4>1
      <3> QED  BY <1>1, <3>2, <3>3, <3>4
    <2>3. ASSUME NEW i \in 1 .. N - 1 PROVE t[i] \in l.in \ {e}
      <3>1. PICK j \in 1 .. N : j # k /\ t[i] = s[j]
        BY <1>1, <1>12
      <3> QED  BY <1>1, <1>s, <3>1 DEF e
    <2> QED  BY <2>2, <2>3
  <1>16. RingOf(m, t)
    BY <1>7, <1>11, <1>13, <1>14, <1>15 DEF RingOf
  <1> QED  BY <1>7, <1>16 DEF m, t, e, N

-----------------------------------------------------------------------------
(* The order of the list, through its operations. *)

Precedes(s, x, y) == \E i, j \in DOMAIN s : i < j /\ s[i] = x /\ s[j] = y

LEMMA PutInOrder ==
    ASSUME NEW N \in Nat, NEW s, DOMAIN s = 1 .. N, NEW k \in 0 .. N, NEW e
    PROVE  /\ \A x, y : Precedes(s, x, y) => Precedes(PutIn(s, N, k, e), x, y)
           /\ \A i \in 1 .. k : Precedes(PutIn(s, N, k, e), s[i], e)
  <1> DEFINE t == PutIn(s, N, k, e)
             At(i) == IF i <= k THEN i ELSE i + 1
  <1>1. DOMAIN t = 1 .. N + 1 /\ \A i \in 1 .. N + 1 : t[i] = IF i <= k THEN s[i] ELSE IF i = k + 1 THEN e ELSE s[i - 1]
    BY DEF PutIn
  <1> HIDE DEF t
  <1>2. \A i \in 1 .. N : At(i) \in 1 .. N + 1 /\ t[At(i)] = s[i]
    <2> TAKE i \in 1 .. N
    <2>1. CASE i <= k
      BY <1>1, <2>1
    <2>2. CASE i > k
      <3>1. i + 1 \in 1 .. N + 1 /\ ~(i + 1 <= k) /\ i + 1 # k + 1 /\ (i + 1) - 1 = i /\ ~(i <= k)
        BY <2>2
      <3> QED  BY <1>1, <3>1
    <2> QED  BY <2>1, <2>2
  <1>3. \A i, j \in 1 .. N : i < j => At(i) < At(j)
    OBVIOUS
  <1>4. \A x, y : Precedes(s, x, y) => Precedes(t, x, y)
    <2> SUFFICES ASSUME NEW x, NEW y, Precedes(s, x, y) PROVE Precedes(t, x, y)
      OBVIOUS
    <2>1. PICK i, j \in 1 .. N : i < j /\ s[i] = x /\ s[j] = y
      BY DEF Precedes
    <2>2. At(i) \in DOMAIN t /\ At(j) \in DOMAIN t /\ t[At(i)] = x /\ t[At(j)] = y /\ At(i) < At(j)
      BY <1>1, <1>2, <1>3, <2>1
    <2> HIDE DEF At
    <2> QED  BY <2>2 DEF Precedes
  <1>5. \A i \in 1 .. k : Precedes(t, s[i], e)
    <2> TAKE i \in 1 .. k
    <2>1. i \in DOMAIN t /\ k + 1 \in DOMAIN t /\ i < k + 1 /\ t[i] = s[i] /\ t[k + 1] = e
      BY <1>1
    <2> QED  BY <2>1 DEF Precedes
  <1> QED  BY <1>4, <1>5 DEF t

LEMMA TakeOutOrder ==
    ASSUME NEW N \in Nat, NEW s, DOMAIN s = 1 .. N, NEW k \in 1 .. N
    PROVE  \A x, y : Precedes(s, x, y) /\ x # s[k] /\ y # s[k] => Precedes(TakeOut(s, N, k), x, y)
  <1> DEFINE t == TakeOut(s, N, k)
             At(i) == IF i < k THEN i ELSE i - 1
  <1>1. DOMAIN t = 1 .. N - 1 /\ \A i \in 1 .. N - 1 : t[i] = IF i < k THEN s[i] ELSE s[i + 1]
    BY DEF TakeOut
  <1> HIDE DEF t
  <1>2. \A i \in 1 .. N : i # k => At(i) \in 1 .. N - 1 /\ t[At(i)] = s[i]
    <2> TAKE i \in 1 .. N
    <2>1. CASE i < k
      BY <1>1, <2>1
    <2>2. CASE i > k
      <3>1. i - 1 \in 1 .. N - 1 /\ ~(i - 1 < k) /\ (i - 1) + 1 = i /\ ~(i < k)
        BY <2>2
      <3> QED  BY <1>1, <3>1
    <2> QED  BY <2>1, <2>2
  <1>3. \A i, j \in 1 .. N : i < j /\ i # k /\ j # k => At(i) < At(j)
    OBVIOUS
  <1> SUFFICES ASSUME NEW x, NEW y, Precedes(s, x, y), x # s[k], y # s[k] PROVE Precedes(t, x, y)
    BY DEF t
  <1>4. PICK i, j \in 1 .. N : i < j /\ s[i] = x /\ s[j] = y
    BY DEF Precedes
  <1>5. i # k /\ j # k
    BY <1>4
  <1>6. At(i) \in DOMAIN t /\ At(j) \in DOMAIN t /\ t[At(i)] = x /\ t[At(j)] = y /\ At(i) < At(j)
    BY <1>1, <1>2, <1>3, <1>4, <1>5
  <1> HIDE DEF At
  <1> QED  BY <1>6 DEF Precedes

\* A list that is a ring, and the order of its elements.
Good(l) == l \in ListType /\ RingOf(l, Contents(l))
Prec(l, x, y) == Precedes(Contents(l), x, y)

LEMMA GoodBy ==
    ASSUME NEW l \in ListType, NEW s, RingOf(l, s)
    PROVE  Good(l) /\ Contents(l) = s
  BY ContentsOf DEF Good

LEMMA GoodFacts ==
    ASSUME NEW l, Good(l)
    PROVE  /\ IsRing(l) /\ l.in \subseteq Elements /\ l.len \in Nat /\ DOMAIN Contents(l) = 1 .. l.len
           /\ l.in = {Contents(l)[i] : i \in 1 .. l.len}
           /\ \A x, y : Prec(l, x, y) => x \in l.in /\ y \in l.in /\ ~Prec(l, y, x)
           /\ \A e : After(l, e) = {x \in l.in : Prec(l, e, x)}
           /\ \A e : Before(l, e) = {x \in l.in : Prec(l, x, e)}
  <1> DEFINE s == Contents(l)
  <1>1. IsRing(l)
    BY RingIsRing DEF Good
  <1>2. l.in \subseteq Elements /\ l.len \in Nat /\ s \in [1 .. l.len -> Elements]
        /\ l.in = {s[i] : i \in 1 .. l.len}
        /\ \A i, j \in 1 .. l.len : s[i] = s[j] => i = j
    BY DEF Good, ListType, RingOf
  <1>3. DOMAIN s = 1 .. l.len
    BY <1>2
  <1>5. \A e : After(l, e) = {s[i] : i \in {j \in DOMAIN s : \E k \in DOMAIN s : k < j /\ s[k] = e}}
    BY DEF After
  <1>6. \A e : Before(l, e) = {s[i] : i \in {j \in DOMAIN s : \E k \in DOMAIN s : j < k /\ s[k] = e}}
    BY DEF Before
  <1>7. \A x, y : Prec(l, x, y) <=> \E i, j \in 1 .. l.len : i < j /\ s[i] = x /\ s[j] = y
    BY <1>3 DEF Prec, Precedes
  <1> HIDE DEF s
  <1>8. \A x, y : Prec(l, x, y) => x \in l.in /\ y \in l.in /\ ~Prec(l, y, x)
    <2> SUFFICES ASSUME NEW x, NEW y, Prec(l, x, y) PROVE x \in l.in /\ y \in l.in /\ ~Prec(l, y, x)
      OBVIOUS
    <2>1. PICK i, j \in 1 .. l.len : i < j /\ s[i] = x /\ s[j] = y
      BY <1>7
    <2>2. ASSUME Prec(l, y, x) PROVE FALSE
      <3>1. PICK a, b \in 1 .. l.len : a < b /\ s[a] = y /\ s[b] = x
        BY <1>7, <2>2
      <3>2. a = j /\ b = i
        BY <1>2, <2>1, <3>1
      <3> QED  BY <2>1, <3>1, <3>2
    <2> QED  BY <1>2, <2>1, <2>2
  <1>9. \A e : After(l, e) = {x \in l.in : Prec(l, e, x)}
    BY <1>2, <1>3, <1>5, <1>7
  <1>10. \A e : Before(l, e) = {x \in l.in : Prec(l, x, e)}
    BY <1>2, <1>3, <1>6, <1>7
  <1> QED  BY <1>1, <1>2, <1>3, <1>8, <1>9, <1>10 DEF s

LEMMA EmptyGood == Good(EmptyList) /\ EmptyList.in = {}
  BY EmptyRing, GoodBy

LEMMA PushBackGood ==
    ASSUME NEW l, Good(l), NEW e \in Elements, e \notin l.in
    PROVE  LET m == PushBack(l, e)
           IN  /\ Good(m) /\ m.in = l.in \cup {e}
               /\ \A x, y : Prec(l, x, y) => Prec(m, x, y)
               /\ \A x \in l.in : Prec(m, x, e)
  <1> DEFINE s == Contents(l)  N == l.len  m == PushBack(l, e)  t == PutIn(s, N, N, e)
  <1>1. l \in ListType /\ RingOf(l, s) /\ N \in Nat /\ N \in 0 .. N
    BY DEF Good, ListType
  <1>2. DOMAIN s = 1 .. N /\ l.in = {s[i] : i \in 1 .. N} /\ Cell(s, N + 1) = Root
    BY <1>1, GoodFacts, CellsDiffer
  <1>3. l.prev[Root] = Cell(s, N)
    BY <1>1, <1>2 DEF RingOf
  <1>4. m \in ListType /\ m.in = l.in \cup {e} /\ RingOf(m, t)
    BY <1>1, <1>3, InsertRing DEF PushBack
  <1>5. Good(m) /\ Contents(m) = t
    BY <1>4, GoodBy
  <1> HIDE DEF s, N, m
  <1>6. /\ \A x, y : Precedes(s, x, y) => Precedes(t, x, y)
        /\ \A i \in 1 .. N : Precedes(t, s[i], e)
    BY <1>1, <1>2, PutInOrder
  <1> HIDE DEF t
  <1>7. \A x \in l.in : Precedes(t, x, e)
    BY <1>2, <1>6
  <1> QED  BY <1>4, <1>5, <1>6, <1>7 DEF Prec, s, m

LEMMA PushFrontGood ==
    ASSUME NEW l, Good(l), NEW e \in Elements, e \notin l.in
    PROVE  Good(PushFront(l, e)) /\ PushFront(l, e).in = l.in \cup {e}
  <1> DEFINE s == Contents(l)
  <1>1. l \in ListType /\ RingOf(l, s) /\ l.len \in Nat /\ 0 \in 0 .. l.len
    BY DEF Good, ListType
  <1>2. Cell(s, 0) = Root
    BY <1>1, CellsDiffer
  <1>3. PushFront(l, e) \in ListType /\ PushFront(l, e).in = l.in \cup {e}
        /\ RingOf(PushFront(l, e), PutIn(s, l.len, 0, e))
    BY <1>1, <1>2, InsertRing DEF PushFront
  <1> QED  BY <1>3, GoodBy

LEMMA RemoveGood ==
    ASSUME NEW l, Good(l), NEW e
    PROVE  LET m == Remove(l, e)
           IN  /\ Good(m) /\ m.in = l.in \ {e}
               /\ \A x, y : Prec(l, x, y) /\ x # e /\ y # e => Prec(m, x, y)
  <1> DEFINE s == Contents(l)  N == l.len  m == Remove(l, e)
  <1>1. l \in ListType /\ RingOf(l, s) /\ N \in Nat
    BY DEF Good, ListType
  <1>2. DOMAIN s = 1 .. N /\ l.in = {s[i] : i \in 1 .. N}
    BY <1>1, GoodFacts
  <1>3. CASE e \notin l.in
    BY <1>3 DEF Remove
  <1>4. CASE e \in l.in
    <2>1. PICK k \in 1 .. N : s[k] = e
      BY <1>2, <1>4
    <2> DEFINE t == TakeOut(s, N, k)
    <2>2. m \in ListType /\ m.in = l.in \ {e} /\ RingOf(m, t)
      BY <1>1, <1>4, <2>1, RemoveRing DEF Remove
    <2>3. Good(m) /\ Contents(m) = t
      BY <2>2, GoodBy
    <2> HIDE DEF s, N, m
    <2>4. \A x, y : Precedes(s, x, y) /\ x # e /\ y # e => Precedes(t, x, y)
      BY <1>1, <1>2, <2>1, TakeOutOrder
    <2> QED  BY <2>2, <2>3, <2>4 DEF Prec, s, m
  <1> QED  BY <1>3, <1>4

LEMMA MoveAfterGood ==
    ASSUME NEW l, Good(l), NEW e \in Elements, NEW mark \in Elements
    PROVE  LET m == MoveAfter(l, e, mark)
           IN  /\ Good(m) /\ m.in = l.in
               /\ \A x, y : Prec(l, x, y) /\ x # e /\ y # e => Prec(m, x, y)
               /\ e \in l.in /\ mark \in l.in /\ e # mark =>
                    \A x : x # e /\ (x = mark \/ Prec(l, x, mark)) => Prec(m, x, e)
  <1> DEFINE m == MoveAfter(l, e, mark)
  <1>1. CASE e \notin l.in \/ e = mark \/ mark \notin l.in
    BY <1>1 DEF MoveAfter
  <1>2. CASE e \in l.in /\ e # mark /\ mark \in l.in
    <2> DEFINE r == remove(l, e)  s == Contents(r)  N == r.len
    <2>1. Good(r) /\ r.in = l.in \ {e} /\ \A x, y : Prec(l, x, y) /\ x # e /\ y # e => Prec(r, x, y)
      <3>1. Remove(l, e) = r
        BY <1>2 DEF Remove
      <3> QED  BY <3>1, RemoveGood
    <2> HIDE DEF r
    <2>2. r \in ListType /\ RingOf(r, s) /\ N \in Nat /\ DOMAIN s = 1 .. N /\ r.in = {s[i] : i \in 1 .. N}
      BY <2>1, GoodFacts DEF Good
    <2>3. PICK k \in 1 .. N : s[k] = mark
      BY <1>2, <2>1, <2>2
    <2>4. k \in 0 .. N /\ Cell(s, k) = mark
      BY <2>2, <2>3 DEF Cell
    <2> DEFINE t == PutIn(s, N, k, e)
    <2>5. m = insert(r, e, Cell(s, k))
      BY <1>2, <2>4 DEF MoveAfter, r
    <2> HIDE DEF m
    <2>6. m \in ListType /\ m.in = r.in \cup {e} /\ RingOf(m, t)
      BY <2>1, <2>2, <2>4, <2>5, InsertRing
    <2>7. Good(m) /\ Contents(m) = t
      BY <2>6, GoodBy
    <2> HIDE DEF s, N
    <2>8. /\ \A x, y : Precedes(s, x, y) => Precedes(t, x, y)
          /\ \A i \in 1 .. k : Precedes(t, s[i], e)
      BY <2>2, <2>4, PutInOrder
    <2> HIDE DEF t
    <2>9. \A x, y : Prec(r, x, y) => Prec(m, x, y)
      BY <2>7, <2>8 DEF Prec, s
    <2>10. Prec(m, mark, e)
      <3>1. k \in 1 .. k
        BY <2>2
      <3> QED  BY <2>3, <2>7, <2>8, <3>1 DEF Prec
    <2>11. ASSUME NEW x, x # e, Prec(l, x, mark) PROVE Prec(m, x, e)
      <3>1. Prec(r, x, mark)
        BY <1>2, <2>1, <2>11
      <3>2. PICK i, j \in 1 .. N : i < j /\ s[i] = x /\ s[j] = mark
        BY <2>2, <3>1 DEF Prec, Precedes, s
      <3>3. j = k
        BY <2>2, <2>3, <3>2 DEF RingOf, N
      <3>4. i \in 1 .. k
        BY <2>2, <3>2, <3>3
      <3> QED  BY <2>7, <2>8, <3>2, <3>4 DEF Prec
    <2>12. m.in = l.in
      BY <1>2, <2>1, <2>6
    <2> QED  BY <2>1, <2>7, <2>9, <2>10, <2>11, <2>12 DEF m
  <1> QED  BY <1>1, <1>2

-----------------------------------------------------------------------------
(* The state of the sink, and what its operations do to it. *)

LinkType == [state : {"down", "up", "over"}, stop : BOOLEAN, forced : BOOLEAN, sent : BOOLEAN, queue : Seq(Events)]

SinkType == [status : [Servers -> Statuses], pending : [Servers -> BOOLEAN],
             timeout : [Servers -> {"none", "backoff", "watch"}], link : [Servers -> LinkType], ordered : ListType]

\* The transport was told to stop, or its Finished is on its way.
Ending(k) == k.stop \/ \E i \in 1 .. Len(k.queue) : k.queue[i] = "finished"

\* Only transports of endpoints that are closing end.
EndsClosing(s) == \A e \in Servers : Ending(s.link[e]) => s.status[e] = "closing"

\* The list is a ring of endpoints.
Base(s) ==
    /\ s \in SinkType /\ Good(s.ordered)
    /\ s.ordered.in \subseteq Endpoints(s)
    /\ EndsClosing(s)

LEMMA NewLinkType ==
    ASSUME NEW state \in {"down", "over"}
    PROVE  NewLink(state) \in LinkType /\ ~Ending(NewLink(state))
  <1>1. <<>> \in Seq(Events) /\ Len(<<>>) = 0
    OBVIOUS
  <1>2. NewLink(state) \in LinkType
    BY <1>1 DEF NewLink, LinkType
  <1> QED  BY <1>1, <1>2 DEF NewLink, Ending

LEMMA NewEndpointFields ==
    ASSUME NEW s \in SinkType, NEW e \in Servers
    PROVE  LET t == NewEndpoint(s, e)
           IN  /\ t \in SinkType /\ t.ordered = s.ordered
               /\ \A x \in Servers : t.status[x] = IF x = e THEN "idle" ELSE s.status[x]
               /\ \A x \in Servers : t.link[x] = IF x = e THEN NewLink("down") ELSE s.link[x]
  <1> DEFINE k == NewLink("down")
             t == NewEndpoint(s, e)
  <1>1. k \in LinkType
    BY NewLinkType
  <1> HIDE DEF k
  <1>2. t = [s EXCEPT !.status[e] = "idle", !.pending[e] = FALSE, !.timeout[e] = "none", !.link[e] = k]
    BY DEF NewEndpoint, k
  <1> HIDE DEF t
  <1>3. /\ s.status \in [Servers -> Statuses] /\ s.pending \in [Servers -> BOOLEAN]
        /\ s.timeout \in [Servers -> {"none", "backoff", "watch"}] /\ s.link \in [Servers -> LinkType] /\ s.ordered \in ListType
    BY DEF SinkType
  <1>4. t = [status |-> [s.status EXCEPT ![e] = "idle"], pending |-> [s.pending EXCEPT ![e] = FALSE],
             timeout |-> [s.timeout EXCEPT ![e] = "none"], link |-> [s.link EXCEPT ![e] = k], ordered |-> s.ordered]
    BY <1>2 DEF SinkType
  <1>5. /\ [s.status EXCEPT ![e] = "idle"] \in [Servers -> Statuses] /\ [s.pending EXCEPT ![e] = FALSE] \in [Servers -> BOOLEAN]
        /\ [s.timeout EXCEPT ![e] = "none"] \in [Servers -> {"none", "backoff", "watch"}]
        /\ [s.link EXCEPT ![e] = k] \in [Servers -> LinkType]
    BY <1>1, <1>3 DEF Statuses
  <1>6. t \in SinkType
    BY <1>3, <1>4, <1>5 DEF SinkType
  <1>7. t.ordered = s.ordered /\ t.status = [s.status EXCEPT ![e] = "idle"] /\ t.link = [s.link EXCEPT ![e] = k]
    BY <1>4
  <1> QED  BY <1>3, <1>6, <1>7 DEF t, k

LEMMA OrderedFields ==
    ASSUME NEW s \in SinkType, NEW l \in ListType
    PROVE  LET t == [s EXCEPT !.ordered = l]
           IN  t \in SinkType /\ t.ordered = l /\ t.status = s.status /\ t.link = s.link
  BY DEF SinkType

\* A new endpoint at the back of the list.
LEMMA AddEndpointBase ==
    ASSUME NEW s, Base(s), NEW e \in Servers, s.status[e] = "none"
    PROVE  LET t == AddEndpoint(s, e)
           IN  /\ Base(t) /\ t.ordered = PushBack(s.ordered, e) /\ t.ordered.in = s.ordered.in \cup {e}
               /\ \A x \in Servers : t.status[x] = IF x = e THEN "idle" ELSE s.status[x]
               /\ \A x \in Servers : t.link[x] = IF x = e THEN NewLink("down") ELSE s.link[x]
  <1> DEFINE n == NewEndpoint(s, e)
             l == PushBack(s.ordered, e)
             t == AddEndpoint(s, e)
  <1>1. s \in SinkType /\ Good(s.ordered) /\ s.ordered.in \subseteq Endpoints(s) /\ EndsClosing(s)
    BY DEF Base
  <1>2. e \notin s.ordered.in /\ e \in Elements
    BY <1>1 DEF Endpoints, Servers
  <1>3. Good(l) /\ l.in = s.ordered.in \cup {e}
    BY <1>1, <1>2, PushBackGood
  <1>4. /\ n \in SinkType /\ n.ordered = s.ordered
        /\ \A x \in Servers : n.status[x] = IF x = e THEN "idle" ELSE s.status[x]
        /\ \A x \in Servers : n.link[x] = IF x = e THEN NewLink("down") ELSE s.link[x]
    BY <1>1, NewEndpointFields
  <1>5. t = [n EXCEPT !.ordered = l]
    BY <1>4 DEF AddEndpoint
  <1>6. l \in ListType
    BY <1>3 DEF Good
  <1> HIDE DEF n, l, t
  <1>7. t \in SinkType /\ t.ordered = l /\ t.status = n.status /\ t.link = n.link
    BY <1>4, <1>5, <1>6, OrderedFields
  <1>8. t.ordered.in \subseteq Endpoints(t)
    BY <1>1, <1>3, <1>4, <1>7 DEF Endpoints
  <1>9. EndsClosing(t)
    BY <1>1, <1>4, <1>7, NewLinkType DEF EndsClosing
  <1> QED  BY <1>3, <1>4, <1>7, <1>8, <1>9 DEF Base, t, l

LEMMA RemoveEndpointBase ==
    ASSUME NEW s, Base(s), NEW e \in Servers
    PROVE  LET t == RemoveEndpoint(s, e)
           IN  /\ Base(t) /\ t.ordered = Remove(s.ordered, e) /\ t.ordered.in = s.ordered.in \ {e}
               /\ \A x \in Servers : t.status[x] = IF x = e THEN "none" ELSE s.status[x]
               /\ \A x \in Servers : t.link[x] = IF x = e THEN NewLink("over") ELSE s.link[x]
  <1> DEFINE k == NewLink("over")
             l == Remove(s.ordered, e)
             t == RemoveEndpoint(s, e)
  <1>1. s \in SinkType /\ Good(s.ordered) /\ s.ordered.in \subseteq Endpoints(s) /\ EndsClosing(s)
    BY DEF Base
  <1>2. Good(l) /\ l.in = s.ordered.in \ {e} /\ l \in ListType
    <2>1. Good(l) /\ l.in = s.ordered.in \ {e}
      BY <1>1, RemoveGood
    <2> HIDE DEF l
    <2> QED  BY <2>1 DEF Good
  <1>3. k \in LinkType /\ ~Ending(k)
    BY NewLinkType
  <1>4. t = [s EXCEPT !.status[e] = "none", !.pending[e] = FALSE, !.timeout[e] = "none", !.link[e] = k, !.ordered = l]
    BY <1>1 DEF RemoveEndpoint
  <1> HIDE DEF k, l, t
  <1>5. /\ s.status \in [Servers -> Statuses] /\ s.pending \in [Servers -> BOOLEAN]
        /\ s.timeout \in [Servers -> {"none", "backoff", "watch"}] /\ s.link \in [Servers -> LinkType] /\ s.ordered \in ListType
    BY <1>1 DEF SinkType
  <1>6. t = [status |-> [s.status EXCEPT ![e] = "none"], pending |-> [s.pending EXCEPT ![e] = FALSE],
             timeout |-> [s.timeout EXCEPT ![e] = "none"], link |-> [s.link EXCEPT ![e] = k], ordered |-> l]
    BY <1>1, <1>4 DEF SinkType
  <1>7. /\ [s.status EXCEPT ![e] = "none"] \in [Servers -> Statuses] /\ [s.pending EXCEPT ![e] = FALSE] \in [Servers -> BOOLEAN]
        /\ [s.timeout EXCEPT ![e] = "none"] \in [Servers -> {"none", "backoff", "watch"}]
        /\ [s.link EXCEPT ![e] = k] \in [Servers -> LinkType]
    BY <1>3, <1>5 DEF Statuses
  <1>8. t \in SinkType
    BY <1>2, <1>6, <1>7 DEF SinkType
  <1>9. t.ordered = l /\ t.status = [s.status EXCEPT ![e] = "none"] /\ t.link = [s.link EXCEPT ![e] = k]
    BY <1>6
  <1>10. /\ \A x \in Servers : t.status[x] = IF x = e THEN "none" ELSE s.status[x]
         /\ \A x \in Servers : t.link[x] = IF x = e THEN k ELSE s.link[x]
    BY <1>5, <1>9
  <1>11. t.ordered.in \subseteq Endpoints(t)
    BY <1>1, <1>2, <1>9, <1>10 DEF Endpoints
  <1>12. EndsClosing(t)
    BY <1>1, <1>3, <1>10 DEF EndsClosing
  <1> QED  BY <1>2, <1>8, <1>9, <1>10, <1>11, <1>12 DEF Base, t, l, k

\* The sink with the endpoint of one server changed.
Updated(s, e, status, pending, timeout, link) ==
    [status |-> [s.status EXCEPT ![e] = status], pending |-> [s.pending EXCEPT ![e] = pending],
     timeout |-> [s.timeout EXCEPT ![e] = timeout], link |-> [s.link EXCEPT ![e] = link], ordered |-> s.ordered]

LEMMA UpdatedFields ==
    ASSUME NEW s \in SinkType, NEW e \in Servers, NEW a \in Statuses, NEW b \in BOOLEAN,
           NEW c \in {"none", "backoff", "watch"}, NEW k \in LinkType
    PROVE  LET t == Updated(s, e, a, b, c, k)
           IN  /\ t \in SinkType /\ t.ordered = s.ordered
               /\ \A x \in Servers : t.status[x] = IF x = e THEN a ELSE s.status[x]
               /\ \A x \in Servers : t.link[x] = IF x = e THEN k ELSE s.link[x]
  <1> DEFINE t == Updated(s, e, a, b, c, k)
  <1>1. /\ s.status \in [Servers -> Statuses] /\ s.pending \in [Servers -> BOOLEAN]
        /\ s.timeout \in [Servers -> {"none", "backoff", "watch"}] /\ s.link \in [Servers -> LinkType] /\ s.ordered \in ListType
    BY DEF SinkType
  <1>2. /\ [s.status EXCEPT ![e] = a] \in [Servers -> Statuses] /\ [s.pending EXCEPT ![e] = b] \in [Servers -> BOOLEAN]
        /\ [s.timeout EXCEPT ![e] = c] \in [Servers -> {"none", "backoff", "watch"}]
        /\ [s.link EXCEPT ![e] = k] \in [Servers -> LinkType]
    BY <1>1
  <1>3. t \in SinkType
    BY <1>1, <1>2 DEF SinkType, Updated
  <1>4. t.ordered = s.ordered /\ t.status = [s.status EXCEPT ![e] = a] /\ t.link = [s.link EXCEPT ![e] = k]
    BY DEF Updated
  <1> QED  BY <1>1, <1>3, <1>4

\* A change that keeps the list, the endpoints and what is said of closing ones.
LEMMA KeepBase ==
    ASSUME NEW s, Base(s), NEW t \in SinkType, t.ordered = s.ordered, EndsClosing(t),
           \A x \in Servers : s.status[x] # "none" => t.status[x] # "none"
    PROVE  Base(t)
  <1>1. Endpoints(s) \subseteq Endpoints(t)
    BY DEF Endpoints
  <1> QED  BY <1>1 DEF Base

LEMMA UpdatedBase ==
    ASSUME NEW s, Base(s), NEW e \in Servers, NEW a \in Statuses, NEW b \in BOOLEAN,
           NEW c \in {"none", "backoff", "watch"}, NEW k \in LinkType,
           s.status[e] # "none" => a # "none", Ending(k) => a = "closing"
    PROVE  Base(Updated(s, e, a, b, c, k))
  <1> DEFINE t == Updated(s, e, a, b, c, k)
  <1>1. s \in SinkType /\ EndsClosing(s)
    BY DEF Base
  <1>2. /\ t \in SinkType /\ t.ordered = s.ordered
        /\ \A x \in Servers : t.status[x] = IF x = e THEN a ELSE s.status[x]
        /\ \A x \in Servers : t.link[x] = IF x = e THEN k ELSE s.link[x]
    BY <1>1, UpdatedFields
  <1> HIDE DEF t
  <1>3. EndsClosing(t)
    BY <1>1, <1>2 DEF EndsClosing
  <1>4. \A x \in Servers : s.status[x] # "none" => t.status[x] # "none"
    BY <1>2
  <1>5. Base(t)
    BY <1>2, <1>3, <1>4, KeepBase
  <1> QED  BY <1>5 DEF t

\* An endpoint's fields have their types, and other records of its transport too.
LEMMA FieldsOf ==
    ASSUME NEW s \in SinkType, NEW e \in Servers
    PROVE  /\ s.status[e] \in Statuses /\ s.pending[e] \in BOOLEAN
           /\ s.timeout[e] \in {"none", "backoff", "watch"} /\ s.link[e] \in LinkType
           /\ s = [status |-> s.status, pending |-> s.pending, timeout |-> s.timeout, link |-> s.link, ordered |-> s.ordered]
  BY DEF SinkType

\* The records of a transport.
LinkOf(state, stop, forced, sent, queue) ==
    [state |-> state, stop |-> stop, forced |-> forced, sent |-> sent, queue |-> queue]

LEMMA LinkFields ==
    ASSUME NEW k \in LinkType
    PROVE  /\ k = LinkOf(k.state, k.stop, k.forced, k.sent, k.queue)
           /\ k.state \in {"down", "up", "over"} /\ k.stop \in BOOLEAN /\ k.forced \in BOOLEAN
           /\ k.sent \in BOOLEAN /\ k.queue \in Seq(Events)
  BY DEF LinkType, LinkOf

LEMMA LinkOfType ==
    ASSUME NEW a \in {"down", "up", "over"}, NEW b \in BOOLEAN, NEW c \in BOOLEAN, NEW d \in BOOLEAN,
           NEW q \in Seq(Events)
    PROVE  /\ LinkOf(a, b, c, d, q) \in LinkType
           /\ Ending(LinkOf(a, b, c, d, q)) <=> (b \/ \E i \in 1 .. Len(q) : q[i] = "finished")
  <1>1. LinkOf(a, b, c, d, q) \in LinkType
    BY DEF LinkType, LinkOf
  <1>2. LinkOf(a, b, c, d, q).stop = b /\ LinkOf(a, b, c, d, q).queue = q
    BY DEF LinkOf
  <1> QED  BY <1>1, <1>2 DEF Ending

LEMMA TakenBase ==
    ASSUME NEW s, Base(s), NEW e \in Servers, s.link[e].queue # <<>>
    PROVE  LET t == [s EXCEPT !.link[e].queue = Tail(@)]
           IN  Base(t) /\ t.status = s.status /\ t.ordered = s.ordered
  <1> DEFINE t == [s EXCEPT !.link[e].queue = Tail(@)]
             k == s.link[e]
             q == Tail(k.queue)
             m == LinkOf(k.state, k.stop, k.forced, k.sent, q)
             u == Updated(s, e, s.status[e], s.pending[e], s.timeout[e], m)
  <1>1. s \in SinkType /\ EndsClosing(s)
    BY DEF Base
  <1>2. /\ s.status[e] \in Statuses /\ s.pending[e] \in BOOLEAN
        /\ s.timeout[e] \in {"none", "backoff", "watch"} /\ k \in LinkType
    BY <1>1, FieldsOf
  <1>3. /\ k = LinkOf(k.state, k.stop, k.forced, k.sent, k.queue)
        /\ k.state \in {"down", "up", "over"} /\ k.stop \in BOOLEAN /\ k.forced \in BOOLEAN
        /\ k.sent \in BOOLEAN /\ k.queue \in Seq(Events) /\ k.queue # <<>>
    <2> HIDE DEF k
    <2>1. k.queue # <<>>
      BY DEF k
    <2> QED  BY <1>2, <2>1, LinkFields
  <1>4. t = [s EXCEPT !.link[e] = [k EXCEPT !.queue = q]]
    BY <1>1 DEF SinkType
  <1> HIDE DEF k
  <1>5. /\ q \in Seq(Events) /\ Len(q) = Len(k.queue) - 1 /\ Len(k.queue) \in Nat
        /\ \A i \in 1 .. Len(q) : q[i] = k.queue[i + 1] /\ i + 1 \in 1 .. Len(k.queue)
    BY <1>3
  <1> HIDE DEF q
  <1>6. m = [k EXCEPT !.queue = q]
    BY <1>3 DEF LinkOf
  <1>7. m \in LinkType /\ (Ending(m) <=> (k.stop \/ \E i \in 1 .. Len(q) : q[i] = "finished"))
    BY <1>3, <1>5, LinkOfType
  <1>8. Ending(m) => s.status[e] = "closing"
    <2>1. Ending(m) => Ending(k)
      BY <1>5, <1>7 DEF Ending
    <2> QED  BY <1>1, <2>1 DEF EndsClosing, k
  <1> HIDE DEF m
  <1>9. Base(u)
    BY <1>2, <1>7, <1>8, UpdatedBase
  <1>10. t = u
    BY <1>1, <1>4, <1>6 DEF SinkType, Updated
  <1>11. t.status = s.status /\ t.ordered = s.ordered
    BY <1>1, <1>4 DEF SinkType
  <1> HIDE DEF t
  <1>12. Base(t)
    BY <1>9, <1>10
  <1> QED  BY <1>11, <1>12 DEF t

\* The status and the timers of one endpoint change; its transport was not told to end,
\* or it is closing and stays so.
LEMMA StatusBase ==
    ASSUME NEW s, Base(s), NEW e \in Servers, NEW a \in Statuses, NEW b \in BOOLEAN,
           NEW c \in {"none", "backoff", "watch"},
           s.status[e] # "none" => a # "none", s.status[e] = "closing" => a = "closing"
    PROVE  LET t == Updated(s, e, a, b, c, s.link[e])
           IN  /\ Base(t) /\ t.ordered = s.ordered
               /\ \A x \in Servers : t.status[x] = IF x = e THEN a ELSE s.status[x]
  <1>1. s \in SinkType /\ s.link[e] \in LinkType /\ (Ending(s.link[e]) => a = "closing")
    BY FieldsOf DEF Base, EndsClosing
  <1> QED  BY <1>1, UpdatedBase, UpdatedFields

\* Endpoints of a set are closed.
LEMMA ShutdownBase ==
    ASSUME NEW s, Base(s), NEW set
    PROVE  LET t == ShutdownAll(s, set)
           IN  /\ Base(t) /\ t.ordered = s.ordered
               /\ \A x \in Servers : t.status[x] = IF x \in set /\ s.status[x] # "none" THEN "closing" ELSE s.status[x]
  <1> DEFINE open == {e \in set : s.status[e] \notin {"none", "closing"}}
             free == {e \in open : ~s.pending[e]}
             st == [e \in Servers |-> IF e \in open THEN "closing" ELSE s.status[e]]
             tm == [e \in Servers |-> IF e \in free THEN "none" ELSE s.timeout[e]]
             k == [e \in Servers |-> [s.link[e] EXCEPT !.stop = @ \/ e \in free]]
             t == ShutdownAll(s, set)
  <1>1. s \in SinkType /\ EndsClosing(s)
    BY DEF Base
  <1>2. /\ s.status \in [Servers -> Statuses] /\ s.pending \in [Servers -> BOOLEAN]
        /\ s.timeout \in [Servers -> {"none", "backoff", "watch"}] /\ s.link \in [Servers -> LinkType] /\ s.ordered \in ListType
    BY <1>1 DEF SinkType
  <1>3. t = [s EXCEPT !.status = st, !.timeout = tm, !.link = k]
    BY Zenon DEF ShutdownAll
  <1>4. st \in [Servers -> Statuses] /\ \A x \in Servers : st[x] = IF x \in open THEN "closing" ELSE s.status[x]
    <2> HIDE DEF open
    <2> QED  BY <1>2 DEF Statuses
  <1>5. tm \in [Servers -> {"none", "backoff", "watch"}]
    <2> HIDE DEF free
    <2> QED  BY <1>2
  <1>6. ASSUME NEW e \in Servers
        PROVE  k[e] \in LinkType /\ (Ending(k[e]) => Ending(s.link[e]) \/ e \in free)
    <2> DEFINE m == s.link[e]
               b == m.stop \/ e \in free
    <2>1. k[e] = [s.link[e] EXCEPT !.stop = s.link[e].stop \/ e \in free] /\ m \in LinkType
      <3> HIDE DEF free
      <3> QED  BY <1>2 DEF LinkType
    <2>2. b \in BOOLEAN
      OBVIOUS
    <2>2a. (b <=> m.stop) \/ e \in free
      OBVIOUS
    <2>2b. k[e] = [m EXCEPT !.stop = b]
      BY <2>1
    <2> HIDE DEF m, b, k, free
    <2>3. k[e] = LinkOf(m.state, b, m.forced, m.sent, m.queue) /\ m \in LinkType
      BY <2>1, <2>2, <2>2b DEF LinkOf, LinkType
    <2>4. k[e] \in LinkType /\ (Ending(k[e]) <=> (b \/ \E i \in 1 .. Len(m.queue) : m.queue[i] = "finished"))
      <3>1. m.state \in {"down", "up", "over"} /\ m.forced \in BOOLEAN /\ m.sent \in BOOLEAN /\ m.queue \in Seq(Events)
        BY <2>3, LinkFields
      <3>2. LET n == LinkOf(m.state, b, m.forced, m.sent, m.queue)
            IN  n \in LinkType /\ (Ending(n) <=> (b \/ \E i \in 1 .. Len(m.queue) : m.queue[i] = "finished"))
        BY <2>2, <3>1, LinkOfType
      <3> QED  BY <2>3, <3>2
    <2>5. Ending(k[e]) => Ending(m) \/ e \in free
      BY <2>4, <2>2a DEF Ending
    <2> QED  BY <2>4, <2>5 DEF m
  <1>7. k \in [Servers -> LinkType]
    <2>1. k = [e \in Servers |-> k[e]]
      OBVIOUS
    <2> HIDE DEF k
    <2> QED  BY <1>6, <2>1
  <1>8. \A e \in Servers : e \in free => e \in open
    OBVIOUS
  <1>9. \A e \in Servers : e \in open <=> e \in set /\ s.status[e] \notin {"none", "closing"}
    OBVIOUS
  <1> HIDE DEF st, tm, k, free, open, t
  <1>10. t = [status |-> st, pending |-> s.pending, timeout |-> tm, link |-> k, ordered |-> s.ordered]
    BY <1>1, <1>3 DEF SinkType
  <1>11. t \in SinkType /\ t.status = st /\ t.link = k /\ t.ordered = s.ordered
    BY <1>2, <1>4, <1>5, <1>7, <1>10 DEF SinkType
  <1>12. EndsClosing(t)
    BY <1>1, <1>4, <1>6, <1>8, <1>11 DEF EndsClosing
  <1>13. \A x \in Servers : t.status[x] = IF x \in set /\ s.status[x] # "none" THEN "closing" ELSE s.status[x]
    BY <1>4, <1>9, <1>11
  <1>14. \A x \in Servers : s.status[x] # "none" => t.status[x] # "none"
    BY <1>13
  <1>15. Base(t)
    BY <1>11, <1>12, <1>14, KeepBase
  <1> QED  BY <1>11, <1>13, <1>15 DEF t

LEMMA TimeoutBase ==
    ASSUME NEW s, Base(s), NEW e \in Servers, NEW c \in {"none", "backoff", "watch"}
    PROVE  LET t == [s EXCEPT !.timeout[e] = c]
           IN  Base(t) /\ t.ordered = s.ordered /\ t.status = s.status /\ t.pending = s.pending
  <1> DEFINE t == [s EXCEPT !.timeout[e] = c]
             u == Updated(s, e, s.status[e], s.pending[e], c, s.link[e])
  <1>1. s \in SinkType /\ s.status[e] \in Statuses /\ s.pending[e] \in BOOLEAN
    BY FieldsOf DEF Base
  <1>2. Base(u)
    BY <1>1, StatusBase
  <1>3. t = u /\ t.ordered = s.ordered /\ t.status = s.status /\ t.pending = s.pending
    BY <1>1 DEF Updated, SinkType
  <1> HIDE DEF t, u
  <1>4. Base(t)
    BY <1>2, <1>3
  <1> QED  BY <1>3, <1>4 DEF t

\* The endpoints after e are closed, e itself is not one of them.
LEMMA ClosedFacts ==
    ASSUME NEW s, Base(s), NEW e
    PROVE  /\ Closed(s, e) = {x \in s.ordered.in : Prec(s.ordered, e, x)}
           /\ e \notin Closed(s, e) /\ Closed(s, e) \subseteq Endpoints(s)
  <1>1. Good(s.ordered) /\ s.ordered.in \subseteq Endpoints(s)
    BY DEF Base
  <1>2. /\ After(s.ordered, e) = {x \in s.ordered.in : Prec(s.ordered, e, x)}
        /\ \A x, y : Prec(s.ordered, x, y) => ~Prec(s.ordered, y, x)
    BY <1>1, GoodFacts
  <1> QED  BY <1>1, <1>2 DEF Closed

\* What markActive and onStarted leave behind.
LEMMA MarkActiveBase ==
    ASSUME NEW s, Base(s), NEW e \in Servers, s.status[e] = "idle", MarkActive(s, e)
    PROVE  /\ Base(sink') /\ sink'.ordered = s.ordered
           /\ IF BetterThanCurrent(s, method, e)
              THEN /\ \A x \in Servers : sink'.status[x] = IF x = e THEN "active"
                                                          ELSE IF x \in Closed(s, e) THEN "closing" ELSE s.status[x]
                   /\ method' = [current |-> e, gone |-> FALSE, position |-> method.position - Cardinality(Closed(s, e))]
              ELSE /\ \A x \in Servers : sink'.status[x] = IF x = e THEN "active" ELSE s.status[x]
                   /\ method' = method
  <1> DEFINE a == [s EXCEPT !.status[e] = "active"]
             r == OnStarted(a, method, e)
             v == IF s.pending[e] THEN s.timeout[e] ELSE "watch"
             b == r.sink
             t == [b EXCEPT !.timeout[e] = v]
  <1>1. s \in SinkType /\ s.pending[e] \in BOOLEAN /\ s.timeout[e] \in {"none", "backoff", "watch"}
    BY FieldsOf DEF Base
  <1>2. Base(a) /\ a.ordered = s.ordered /\ \A x \in Servers : a.status[x] = IF x = e THEN "active" ELSE s.status[x]
    <2> DEFINE u == Updated(s, e, "active", s.pending[e], s.timeout[e], s.link[e])
    <2>1. Base(u) /\ u.ordered = s.ordered /\ \A x \in Servers : u.status[x] = IF x = e THEN "active" ELSE s.status[x]
      <3>1. "active" \in Statuses
        BY DEF Statuses
      <3> QED  BY <1>1, <3>1, StatusBase
    <2>2. a = u
      BY <1>1 DEF Updated, SinkType
    <2> HIDE DEF a, u
    <2> QED  BY <2>1, <2>2
  <1> HIDE DEF a
  <1>3. Closed(a, e) = Closed(s, e) /\ (BetterThanCurrent(a, method, e) <=> BetterThanCurrent(s, method, e))
    BY <1>2 DEF Closed, BetterThanCurrent
  <1>4. e \notin Closed(s, e) /\ Closed(s, e) \subseteq Endpoints(s)
    BY ClosedFacts
  <1>5. /\ Base(b) /\ b.ordered = s.ordered
        /\ IF BetterThanCurrent(s, method, e)
           THEN /\ \A x \in Servers : b.status[x] = IF x = e THEN "active"
                                                    ELSE IF x \in Closed(s, e) THEN "closing" ELSE s.status[x]
                /\ r.method = [current |-> e, gone |-> FALSE, position |-> method.position - Cardinality(Closed(s, e))]
           ELSE /\ \A x \in Servers : b.status[x] = IF x = e THEN "active" ELSE s.status[x]
                /\ r.method = method
    <2>1. CASE BetterThanCurrent(s, method, e)
      <3> DEFINE C == Closed(s, e)
                 d == ShutdownAll(a, C)
                 M == [current |-> e, gone |-> FALSE, position |-> method.position - Cardinality(C)]
      <3>1. r = [sink |-> d, method |-> M]
        BY <1>3, <2>1 DEF OnStarted
      <3>2. /\ Base(d) /\ d.ordered = a.ordered
            /\ \A x \in Servers : d.status[x] = IF x \in C /\ a.status[x] # "none" THEN "closing" ELSE a.status[x]
        BY <1>2, ShutdownBase
      <3> HIDE DEF d, r, M, C
      <3>3. b = d /\ r.method = M
        BY <3>1
      <3>4. \A x \in C : s.status[x] # "none"
        BY <1>4 DEF C, Endpoints
      <3>5. \A x \in Servers : d.status[x] = IF x = e THEN "active" ELSE IF x \in C THEN "closing" ELSE s.status[x]
        BY <1>2, <1>4, <3>2, <3>4 DEF C
      <3> HIDE DEF b
      <3> QED  BY <1>2, <2>1, <3>2, <3>3, <3>5 DEF C, M
    <2>2. CASE ~BetterThanCurrent(s, method, e)
      <3>1. r = [sink |-> a, method |-> method]
        BY <1>3, <2>2 DEF OnStarted
      <3>2. b = a /\ r.method = method
        BY <3>1
      <3> HIDE DEF b, r
      <3> QED  BY <1>2, <2>2, <3>2
    <2> QED  BY <2>1, <2>2
  <1>6. r = [sink |-> b, method |-> r.method]
    BY DEF OnStarted
  <1>7. sink' = t /\ method' = r.method
    <2>1. Apply([r EXCEPT !.sink.timeout[e] = v])
      BY Zenon DEF MarkActive, a
    <2> HIDE DEF r, v
    <2> QED  BY <1>6, <2>1 DEF Apply
  <1>8. v \in {"none", "backoff", "watch"}
    BY <1>1
  <1>9. b.status[e] # "none"
    BY <1>5
  <1> HIDE DEF b, v, r
  <1>10. Base(t) /\ t.ordered = b.ordered /\ t.status = b.status
    BY <1>5, <1>8, <1>9, TimeoutBase
  <1> QED  BY <1>5, <1>7, <1>10

-----------------------------------------------------------------------------
(* The first endpoints. *)

\* The sink after the first i servers were given new endpoints; only the first of
\* them is in the list, since MoveAfter adds none.
Opened(c, i) ==
    LET set == {c.servers[j] : j \in 1 .. i}
    IN  [status |-> [x \in Servers |-> IF x \in set THEN "idle" ELSE "none"],
         pending |-> [x \in Servers |-> FALSE], timeout |-> [x \in Servers |-> "none"],
         link |-> [x \in Servers |-> IF x \in set THEN NewLink("down") ELSE NewLink("over")],
         ordered |-> IF i = 0 THEN EmptyList ELSE PushFront(EmptyList, c.servers[1])]

LEMMA ConfigFacts ==
    ASSUME NEW c \in Configs
    PROVE  /\ Len(c.servers) \in Nat /\ Len(c.servers) >= 1 /\ DOMAIN c.servers = 1 .. Len(c.servers)
           /\ \A i \in 1 .. Len(c.servers) : c.servers[i] \in Servers /\ c.servers[i] # Nil /\ c.servers[i] \in Elements
           /\ \A i, j \in 1 .. Len(c.servers) : c.servers[i] = c.servers[j] => i = j
           /\ c.method \in {"failover", "loadbalance"}
  <1>1. c.servers \in Seq(Servers) /\ c.servers # <<>> /\ IsInjective(c.servers) /\ c.method \in {"failover", "loadbalance"}
    BY SinkAssumption
  <1>2. Len(c.servers) \in Nat /\ Len(c.servers) >= 1 /\ DOMAIN c.servers = 1 .. Len(c.servers)
        /\ \A i \in 1 .. Len(c.servers) : c.servers[i] \in Servers
    BY <1>1
  <1>3. \A i, j \in 1 .. Len(c.servers) : c.servers[i] = c.servers[j] => i = j
    BY <1>1, <1>2 DEF IsInjective
  <1> QED  BY <1>1, <1>2, <1>3, ListAssumption DEF Servers

LEMMA OpenedFields ==
    ASSUME NEW c \in Configs, NEW i \in 0 .. Len(c.servers)
    PROVE  LET t == Opened(c, i)
           IN  /\ Base(t)
               /\ \A x \in Servers : t.status[x] = IF \E j \in 1 .. i : c.servers[j] = x THEN "idle" ELSE "none"
               /\ t.ordered = IF i = 0 THEN EmptyList ELSE PushFront(EmptyList, c.servers[1])
               /\ t.ordered.in = IF i = 0 THEN {} ELSE {c.servers[1]}
  <1> DEFINE t == Opened(c, i)
             set == {c.servers[j] : j \in 1 .. i}
             l == IF i = 0 THEN EmptyList ELSE PushFront(EmptyList, c.servers[1])
             k == NewLink("down")
             o == NewLink("over")
  <1>1. Len(c.servers) \in Nat /\ Len(c.servers) >= 1 /\ c.servers[1] \in Elements
    BY ConfigFacts
  <1>2. Good(l) /\ l.in = IF i = 0 THEN {} ELSE {c.servers[1]}
    <2>1. c.servers[1] \notin EmptyList.in /\ Good(EmptyList) /\ EmptyList.in = {}
      BY EmptyGood
    <2>2. Good(PushFront(EmptyList, c.servers[1])) /\ PushFront(EmptyList, c.servers[1]).in = EmptyList.in \cup {c.servers[1]}
      BY <1>1, <2>1, PushFrontGood
    <2>3. CASE i = 0
      BY <2>1, <2>3
    <2>4. CASE i # 0
      BY <2>1, <2>2, <2>4
    <2> QED  BY <2>3, <2>4
  <1>3. l \in ListType
    <2> HIDE DEF l
    <2> QED  BY <1>2 DEF Good
  <1>4. k \in LinkType /\ o \in LinkType /\ ~Ending(k) /\ ~Ending(o)
    BY NewLinkType
  <1>5. t = [status |-> [x \in Servers |-> IF x \in set THEN "idle" ELSE "none"],
             pending |-> [x \in Servers |-> FALSE], timeout |-> [x \in Servers |-> "none"],
             link |-> [x \in Servers |-> IF x \in set THEN k ELSE o], ordered |-> l]
    BY Zenon DEF Opened
  <1>6. \A x \in Servers : x \in set <=> \E j \in 1 .. i : c.servers[j] = x
    OBVIOUS
  <1>7. i # 0 => c.servers[1] \in set
    BY <1>1
  <1> HIDE DEF t, set, l, k, o
  <1>8. t \in SinkType
    BY <1>3, <1>4, <1>5 DEF SinkType, Statuses
  <1>9. /\ t.ordered = l
        /\ \A x \in Servers : t.status[x] = IF x \in set THEN "idle" ELSE "none"
        /\ \A x \in Servers : t.link[x] = IF x \in set THEN k ELSE o
    BY <1>5
  <1>10. EndsClosing(t)
    BY <1>4, <1>9 DEF EndsClosing
  <1>11. t.ordered.in \subseteq Endpoints(t)
    <2>1. i # 0 => t.status[c.servers[1]] = "idle"
      BY <1>1, <1>7, <1>9 DEF Servers
    <2> QED  BY <1>1, <1>2, <1>9, <2>1 DEF Endpoints, Servers
  <1>12. Base(t)
    BY <1>2, <1>8, <1>9, <1>10, <1>11 DEF Base
  <1> QED  BY <1>2, <1>6, <1>9, <1>12 DEF t, l

LEMMA OpenedStart == \A c : Opened(c, 0) = NoEndpoints
  <1> SUFFICES ASSUME NEW c PROVE Opened(c, 0) = NoEndpoints
    OBVIOUS
  <1>1. {c.servers[j] : j \in 1 .. 0} = {}
    OBVIOUS
  <1> QED  BY <1>1 DEF Opened, NoEndpoints

LEMMA OpenedStep ==
    ASSUME NEW c \in Configs, NEW i \in 1 .. Len(c.servers)
    PROVE  LET s == Opened(c, i - 1)
               e == c.servers[i]
               last == IF i = 1 THEN Nil ELSE c.servers[i - 1]
           IN  s.status[e] = "none" /\ AddEndpointAfter(s, e, last) = Opened(c, i)
  <1> DEFINE s == Opened(c, i - 1)
             e == c.servers[i]
             last == IF i = 1 THEN Nil ELSE c.servers[i - 1]
             was == {c.servers[j] : j \in 1 .. i - 1}
             set == {c.servers[j] : j \in 1 .. i}
             k == NewLink("down")
             o == NewLink("over")
             l == s.ordered
             n == NewEndpoint(s, e)
             m == IF last = Nil THEN PushFront(l, e) ELSE MoveAfter(l, e, last)
             t == IF i = 0 THEN EmptyList ELSE PushFront(EmptyList, c.servers[1])
  <1>1. /\ Len(c.servers) \in Nat /\ e \in Servers /\ i - 1 \in 0 .. Len(c.servers) /\ i \in Nat /\ i >= 1
        /\ \A a, b \in 1 .. Len(c.servers) : c.servers[a] = c.servers[b] => a = b
        /\ (i # 1 => last # Nil)
    <2>1. i # 1 => i - 1 \in 1 .. Len(c.servers)
      BY ConfigFacts
    <2> QED  BY <2>1, ConfigFacts
  <1>2. set = was \cup {e} /\ e \notin was
    BY <1>1
  <1>3. /\ s = [status |-> [x \in Servers |-> IF x \in was THEN "idle" ELSE "none"],
             pending |-> [x \in Servers |-> FALSE], timeout |-> [x \in Servers |-> "none"],
             link |-> [x \in Servers |-> IF x \in was THEN k ELSE o], ordered |-> l]
    BY DEF Opened
  <1>4. Opened(c, i) = [status |-> [x \in Servers |-> IF x \in set THEN "idle" ELSE "none"],
             pending |-> [x \in Servers |-> FALSE], timeout |-> [x \in Servers |-> "none"],
             link |-> [x \in Servers |-> IF x \in set THEN k ELSE o], ordered |-> t]
    BY Zenon DEF Opened
  <1>5. m = t
    <2>0. /\ l = IF i - 1 = 0 THEN EmptyList ELSE PushFront(EmptyList, c.servers[1])
          /\ l.in = IF i - 1 = 0 THEN {} ELSE {c.servers[1]}
      <3> DEFINE j == i - 1
      <3>1. j \in 0 .. Len(c.servers)
        BY <1>1
      <3> HIDE DEF j
      <3>2. LET u == Opened(c, j)
            IN  /\ u.ordered = IF j = 0 THEN EmptyList ELSE PushFront(EmptyList, c.servers[1])
                /\ u.ordered.in = IF j = 0 THEN {} ELSE {c.servers[1]}
        BY <3>1, OpenedFields
      <3> QED  BY <3>2, Zenon DEF j
    <2>0a. i - 1 = 0 <=> i = 1
      BY <1>1
    <2>1. CASE i = 1
      <3>1. l = EmptyList
        BY <2>0, <2>0a, <2>1
      <3> QED  BY <2>1, <3>1
    <2>2. CASE i # 1
      <3>1. l = PushFront(EmptyList, c.servers[1]) /\ l.in = {c.servers[1]}
        BY <2>0, <2>0a, <2>2
      <3>2. e \notin l.in
        BY <1>1, <2>2, <3>1
      <3>3. m = l
        BY <1>1, <2>2, <3>2 DEF MoveAfter
      <3> QED  BY <1>1, <3>1, <3>3
    <2> QED  BY <2>1, <2>2
  <1>6. AddEndpointAfter(s, e, last) = [n EXCEPT !.ordered = IF last = Nil THEN PushFront(n.ordered, e) ELSE MoveAfter(n.ordered, e, last)]
    BY Zenon DEF AddEndpointAfter
  <1>7. n = [s EXCEPT !.status[e] = "idle", !.pending[e] = FALSE, !.timeout[e] = "none", !.link[e] = k]
    BY DEF NewEndpoint
  <1> HIDE DEF s, e, was, set, k, o, l, n, t
  <1>8. n = [status |-> [x \in Servers |-> IF x \in set THEN "idle" ELSE "none"],
             pending |-> [x \in Servers |-> FALSE], timeout |-> [x \in Servers |-> "none"],
             link |-> [x \in Servers |-> IF x \in set THEN k ELSE o], ordered |-> l]
    BY <1>1, <1>2, <1>3, <1>7
  <1>9. n.ordered = l
    BY <1>8
  <1>10. AddEndpointAfter(s, e, last) = [n EXCEPT !.ordered = m]
    BY <1>6, <1>9
  <1> HIDE DEF m, last
  <1>11. AddEndpointAfter(s, e, last) = Opened(c, i)
    BY <1>4, <1>5, <1>8, <1>10
  <1>12. s.status[e] = "none"
    BY <1>1, <1>2, <1>3
  <1> QED  BY <1>11, <1>12 DEF s, e, last

LEMMA FirstBalanced ==
    ASSUME NEW c \in Configs
    PROVE  Balanced(NoEndpoints, c) = Opened(c, Len(c.servers))
  <1> DEFINE n == Len(c.servers)
             Step(f, i) == IF i = 0 THEN [sink |-> NoEndpoints, last |-> Nil]
                           ELSE LET e == c.servers[i]
                                    p == f[i - 1]
                                IN  [sink |-> IF p.sink.status[e] = "none"
                                              THEN AddEndpointAfter(p.sink, e, p.last)
                                              ELSE MoveEndpointAfter(p.sink, e, p.last),
                                     last |-> e]
             at == CHOOSE f : f = [i \in 0 .. Len(c.servers) |-> Step(f, i)]
             Last(i) == IF i = 0 THEN Nil ELSE c.servers[i]
             G(i) == [sink |-> Opened(c, i), last |-> Last(i)]
             g == [i \in 0 .. n |-> G(i)]
  <1>1. n \in Nat
    BY ConfigFacts
  <1>2. G(0) = [sink |-> NoEndpoints, last |-> Nil]
    BY OpenedStart
  <1>3. ASSUME NEW f, NEW i \in 1 .. n, f[i - 1] = G(i - 1) PROVE Step(f, i) = G(i)
    <2> DEFINE s == Opened(c, i - 1)
               e == c.servers[i]
               last == IF i = 1 THEN Nil ELSE c.servers[i - 1]
    <2>1. s.status[e] = "none" /\ AddEndpointAfter(s, e, last) = Opened(c, i)
      BY OpenedStep
    <2>2. Last(i - 1) = last /\ i # 0
      BY <1>1
    <2>3. f[i - 1].sink = s /\ f[i - 1].last = last
      BY <1>3, <2>2
    <2> HIDE DEF s, last
    <2> QED  BY <2>1, <2>2, <2>3
  <1>4. ASSUME NEW i \in 0 .. n PROVE g[i] = Step(g, i)
    <2>1. CASE i = 0
      <3>1. g[i] = G(0)
        BY <2>1
      <3>2. Step(g, i) = [sink |-> NoEndpoints, last |-> Nil]
        BY <2>1
      <3> HIDE DEF g, G
      <3> QED  BY <1>2, <3>1, <3>2
    <2>2. CASE i # 0
      <3>1. i \in 1 .. n /\ i - 1 \in 0 .. n
        BY <1>1, <2>2
      <3> HIDE DEF G, Step
      <3>2. g[i] = G(i) /\ g[i - 1] = G(i - 1)
        BY <3>1
      <3> HIDE DEF g
      <3> QED  BY <1>3, <3>1, <3>2
    <2> QED  BY <2>1, <2>2
  <1>5. g = [i \in 0 .. n |-> Step(g, i)]
    <2> DEFINE h == [i \in 0 .. n |-> Step(g, i)]
    <2> HIDE DEF Step, G
    <2>1. DOMAIN g = 0 .. n /\ DOMAIN h = 0 .. n /\ g = [i \in DOMAIN g |-> g[i]] /\ h = [i \in DOMAIN h |-> h[i]]
      OBVIOUS
    <2> HIDE DEF g
    <2>2. \A i \in 0 .. n : g[i] = h[i]
      BY <1>4
    <2> HIDE DEF h
    <2>3. g = h
      BY <2>1, <2>2
    <2> QED  BY <2>3 DEF h
  <1>6. at = [i \in 0 .. n |-> Step(at, i)]
    <2>1. \E f : f = [i \in 0 .. Len(c.servers) |-> Step(f, i)]
      BY <1>5, Zenon
    <2> QED  BY <2>1, Zenon
  <1>7. Balanced(NoEndpoints, c) = at[Len(c.servers)].sink
    BY Zenon DEF Balanced
  <1> HIDE DEF at, Step, G, n
  <1>8. \A i \in 0 .. n : at[i] = Step(at, i)
    BY <1>6
  <1>9. \A i \in 0 .. n : at[i] = G(i)
    <2> DEFINE T == {i \in 0 .. n : at[i] = G(i)}
    <2>1. 0 \in T
      <3>1. 0 \in 0 .. n
        BY <1>1
      <3>2. at[0] = Step(at, 0)
        BY <1>8, <3>1
      <3>3. Step(at, 0) = G(0)
        BY <1>2 DEF Step
      <3> QED  BY <3>1, <3>2, <3>3
    <2>2. ASSUME NEW i \in 1 .. n, i - 1 \in T PROVE i \in T
      <3>1. i \in 0 .. n /\ at[i - 1] = G(i - 1)
        BY <1>1, <2>2
      <3> QED  BY <1>3, <1>8, <3>1
    <2> HIDE DEF T
    <2>3. \A i \in 0 .. n : i \in T
      BY <1>1, <2>1, <2>2, UpTo
    <2> QED  BY <2>3 DEF T
  <1>10. at[n] = G(n)
    BY <1>1, <1>9
  <1> QED  BY <1>7, <1>10 DEF n, G

LEMMA FirstPreferred ==
    ASSUME NEW c \in Configs
    PROVE  LET r == Preferred(NoEndpoints, NewMethod, c)
           IN  r.sink = Opened(c, 1) /\ r.method = [current |-> c.servers[1], gone |-> FALSE, position |-> 0]
  <1> DEFINE n == Len(c.servers)
             Start == [sink |-> NoEndpoints, method |-> NewMethod, last |-> Nil, found |-> FALSE]
             Step(f, i) ==
                IF i = 0 THEN [sink |-> NoEndpoints, method |-> NewMethod, last |-> Nil, found |-> FALSE]
                ELSE LET e == c.servers[i]
                         p == f[i - 1]
                         found == p.found \/ p.method.current = e
                         absent == p.sink.status[e] = "none"
                     IN  CASE absent /\ found -> [p EXCEPT !.found = TRUE]
                           [] absent /\ ~found ->
                                [sink |-> AddEndpointAfter(p.sink, e, p.last), last |-> e,
                                 method |-> IF p.method.current = Nil
                                            THEN [p.method EXCEPT !.current = e, !.gone = FALSE]
                                            ELSE p.method,
                                 found |-> p.method.current = Nil]
                           [] ~absent /\ found ->
                                [p EXCEPT !.found = TRUE, !.sink = ShutdownEndpoint(@, e)]
                           [] OTHER -> [p EXCEPT !.sink = MoveEndpointAfter(@, e, p.last), !.last = e]
             at == CHOOSE f : f = [i \in 0 .. Len(c.servers) |-> Step(f, i)]
             M == [current |-> c.servers[1], gone |-> FALSE, position |-> 0]
             R == [sink |-> Opened(c, 1), last |-> c.servers[1], method |-> M, found |-> TRUE]
             G(i) == IF i = 0 THEN Start ELSE R
             g == [i \in 0 .. n |-> G(i)]
  <1>1. n \in Nat /\ n >= 1 /\ c.servers[1] # Nil
    BY ConfigFacts
  <1>2. G(0) = Start
    OBVIOUS
  <1>3. ASSUME NEW f, NEW i \in 1 .. n, f[i - 1] = G(i - 1) PROVE Step(f, i) = G(i)
    <2> DEFINE e == c.servers[i]
               p == f[i - 1]
    <2>0. i # 0
      BY <1>1
    <2>1. CASE i = 1
      <3>1. p = Start
        BY <1>3, <2>1
      <3>2. NoEndpoints.status[c.servers[1]] = "none" /\ AddEndpointAfter(NoEndpoints, c.servers[1], Nil) = Opened(c, 1)
        <4> DEFINE j == 1
        <4>1. j \in 1 .. Len(c.servers) /\ j - 1 = 0
          BY <1>1
        <4>2. LET s == Opened(c, j - 1)
              IN  s.status[c.servers[j]] = "none"
                  /\ AddEndpointAfter(s, c.servers[j], IF j = 1 THEN Nil ELSE c.servers[j - 1]) = Opened(c, j)
          <5> HIDE DEF j
          <5> QED  BY <4>1, OpenedStep
        <4> QED  BY <4>1, <4>2, OpenedStart
      <3>3. NewMethod.current = Nil /\ [NewMethod EXCEPT !.current = c.servers[1], !.gone = FALSE] = M
        <4> DEFINE q == c.servers[1]  b == FALSE  z == 0  o == Nil
        <4>1. NewMethod = [current |-> o, gone |-> b, position |-> z]
          BY Zenon DEF NewMethod
        <4> HIDE DEF q, b, z, o
        <4>2. NewMethod.current = o
          BY <4>1
        <4> DEFINE m1 == [NewMethod EXCEPT !.current = q]
        <4>3. m1 = [current |-> q, gone |-> b, position |-> z]
          BY <4>1
        <4>4. [NewMethod EXCEPT !.current = q, !.gone = b] = [m1 EXCEPT !.gone = b]
          BY Zenon
        <4> HIDE DEF m1
        <4>5. [m1 EXCEPT !.gone = b] = [current |-> q, gone |-> b, position |-> z]
          BY <4>3
        <4> QED  BY <4>2, <4>4, <4>5, Zenon DEF q, b, z, o
      <3>4. /\ p.sink = NoEndpoints /\ p.method = NewMethod /\ p.last = Nil /\ p.found = FALSE
        BY <3>1
      <3> HIDE DEF p, M
      <3>5. Step(f, i) = [sink |-> AddEndpointAfter(p.sink, e, p.last), last |-> e,
                                 method |-> IF p.method.current = Nil
                                            THEN [p.method EXCEPT !.current = e, !.gone = FALSE]
                                            ELSE p.method,
                                 found |-> p.method.current = Nil]
        <4>1. p.sink.status[e] = "none" /\ ~(p.found \/ p.method.current = e)
          BY <1>1, <2>1, <3>2, <3>3, <3>4
        <4> HIDE DEF e
        <4> QED  BY <2>0, <4>1 DEF p, e
      <3>6. e = c.servers[1]
        BY <2>1
      <3> HIDE DEF e, Step
      <3>7. Step(f, i) = R
        BY <3>2, <3>3, <3>4, <3>5, <3>6
      <3> QED  BY <2>0, <3>7
    <2>2. CASE i # 1
      <3>1. i - 1 # 0 /\ i - 1 \in 1 .. n /\ 1 \in 0 .. Len(c.servers) /\ 1 \in 1 .. Len(c.servers)
        BY <1>1, <2>2
      <3>2. p = R
        BY <1>3, <3>1
      <3>3. e # c.servers[1] /\ e \in Servers
        BY <1>1, <2>2, <3>1, ConfigFacts
      <3>4. Opened(c, 1).status[e] = "none"
        <4>1. Opened(c, 1).status[e] = IF \E j \in 1 .. 1 : c.servers[j] = e THEN "idle" ELSE "none"
          <5> DEFINE a == 1
          <5>1. a \in 0 .. Len(c.servers)
            BY <3>1
          <5> HIDE DEF a
          <5>2. Opened(c, a).status[e] = IF \E j \in 1 .. a : c.servers[j] = e THEN "idle" ELSE "none"
            BY <3>3, <5>1, OpenedFields
          <5> QED  BY <5>2, Zenon DEF a
        <4> QED  BY <3>3, <4>1
      <3>5. p.found = TRUE /\ p.sink = Opened(c, 1) /\ [p EXCEPT !.found = TRUE] = R
        <4> DEFINE S == Opened(c, 1)  q == c.servers[1]  b == TRUE
        <4>1. p = [sink |-> S, last |-> q, method |-> M, found |-> b]
          BY <3>2, Zenon
        <4> HIDE DEF S, q, M, p, b
        <4>2. p.found = b /\ p.sink = S /\ [p EXCEPT !.found = b] = [sink |-> S, last |-> q, method |-> M, found |-> b]
          BY <4>1
        <4> QED  BY <4>2, Zenon DEF S, q, b
      <3> HIDE DEF p, R
      <3>6. Step(f, i) = [p EXCEPT !.found = TRUE]
        <4>1. p.sink.status[e] = "none" /\ (p.found \/ p.method.current = e)
          BY <3>4, <3>5
        <4> HIDE DEF e
        <4> QED  BY <2>0, <4>1 DEF p, e
      <3> HIDE DEF Step
      <3> QED  BY <2>0, <3>5, <3>6
    <2> QED  BY <2>1, <2>2
  <1>4. ASSUME NEW i \in 0 .. n PROVE g[i] = Step(g, i)
    <2>1. CASE i = 0
      <3>1. g[i] = G(0)
        BY <2>1
      <3>2. Step(g, i) = Start
        BY <2>1
      <3> HIDE DEF g, G
      <3> QED  BY <1>2, <3>1, <3>2
    <2>2. CASE i # 0
      <3>1. i \in 1 .. n /\ i - 1 \in 0 .. n
        BY <1>1, <2>2
      <3> HIDE DEF G, Step
      <3>2. g[i] = G(i) /\ g[i - 1] = G(i - 1)
        BY <3>1
      <3> HIDE DEF g
      <3> QED  BY <1>3, <3>1, <3>2
    <2> QED  BY <2>1, <2>2
  <1>5. g = [i \in 0 .. n |-> Step(g, i)]
    <2> DEFINE h == [i \in 0 .. n |-> Step(g, i)]
    <2> HIDE DEF Step, G
    <2>1. DOMAIN g = 0 .. n /\ DOMAIN h = 0 .. n /\ g = [i \in DOMAIN g |-> g[i]] /\ h = [i \in DOMAIN h |-> h[i]]
      OBVIOUS
    <2> HIDE DEF g
    <2>2. \A i \in 0 .. n : g[i] = h[i]
      BY <1>4
    <2> HIDE DEF h
    <2>3. g = h
      BY <2>1, <2>2
    <2> QED  BY <2>3 DEF h
  <1>6. at = [i \in 0 .. n |-> Step(at, i)]
    <2>1. \E f : f = [i \in 0 .. Len(c.servers) |-> Step(f, i)]
      BY <1>5, Zenon
    <2> QED  BY <2>1, Zenon
  <1>7. Preferred(NoEndpoints, NewMethod, c) = at[Len(c.servers)]
    BY Zenon DEF Preferred
  <1> HIDE DEF at, Step, G, n
  <1>8. \A i \in 0 .. n : at[i] = Step(at, i)
    BY <1>6
  <1>9. \A i \in 0 .. n : at[i] = G(i)
    <2> DEFINE T == {i \in 0 .. n : at[i] = G(i)}
    <2>1. 0 \in T
      <3>1. 0 \in 0 .. n
        BY <1>1
      <3>2. at[0] = Step(at, 0)
        BY <1>8, <3>1
      <3>3. Step(at, 0) = G(0)
        BY <1>2 DEF Step
      <3> QED  BY <3>1, <3>2, <3>3
    <2>2. ASSUME NEW i \in 1 .. n, i - 1 \in T PROVE i \in T
      <3>1. i \in 0 .. n /\ at[i - 1] = G(i - 1)
        BY <1>1, <2>2
      <3> QED  BY <1>3, <1>8, <3>1
    <2> HIDE DEF T
    <2>3. \A i \in 0 .. n : i \in T
      BY <1>1, <2>1, <2>2, UpTo
    <2> QED  BY <2>3 DEF T
  <1>10. at[n] = R
    <2>1. n \in 0 .. n /\ n # 0
      BY <1>1
    <2> QED  BY <1>9, <2>1 DEF G
  <1> QED  BY <1>7, <1>10 DEF n

-----------------------------------------------------------------------------
(* The steps that leave the list and the endpoints alone. *)

Light(s, t) ==
    /\ Base(t) /\ t.ordered = s.ordered
    /\ \A x \in Servers : (t.status[x] = "none" <=> s.status[x] = "none") /\ (t.status[x] = "closing" <=> s.status[x] = "closing")

LEMMA UpdatedLight ==
    ASSUME NEW s, Base(s), NEW e \in Servers, NEW a \in Statuses, NEW b \in BOOLEAN,
           NEW c \in {"none", "backoff", "watch"}, NEW k \in LinkType,
           a = "none" <=> s.status[e] = "none", a = "closing" <=> s.status[e] = "closing", Ending(k) => a = "closing"
    PROVE  Light(s, Updated(s, e, a, b, c, k))
  <1> DEFINE t == Updated(s, e, a, b, c, k)
  <1>1. s \in SinkType
    BY DEF Base
  <1>2. t.ordered = s.ordered /\ \A x \in Servers : t.status[x] = IF x = e THEN a ELSE s.status[x]
    BY <1>1, UpdatedFields
  <1>3. Base(t)
    BY UpdatedBase
  <1> HIDE DEF t
  <1>4. Light(s, t)
    BY <1>2, <1>3 DEF Light
  <1> QED  BY <1>4 DEF t

\* The queue of a transport that is not told to stop and has sent no Finished.
LEMMA NotEnding ==
    ASSUME NEW s, Base(s), NEW e \in Servers, s.status[e] # "closing"
    PROVE  ~Ending(s.link[e])
  BY DEF Base, EndsClosing

LEMMA LinkStepLight ==
    ASSUME Base(sink), NEW e \in Servers, NEW state \in {"down", "up", "over"}, NEW type \in Events,
           type = "finished" => sink.link[e].stop, LinkStep(e, state, <<type>>)
    PROVE  Light(sink, sink')
  <1> DEFINE k == sink.link[e]
             q == k.queue \o <<type>>
             m == LinkOf(state, k.stop, FALSE, FALSE, q)
             t == Updated(sink, e, sink.status[e], sink.pending[e], sink.timeout[e], m)
  <1>1. sink \in SinkType /\ EndsClosing(sink)
    BY DEF Base
  <1>2. /\ sink.status[e] \in Statuses /\ sink.pending[e] \in BOOLEAN
        /\ sink.timeout[e] \in {"none", "backoff", "watch"} /\ k \in LinkType
    BY <1>1, FieldsOf
  <1>3. /\ k = LinkOf(k.state, k.stop, k.forced, k.sent, k.queue)
        /\ k.state \in {"down", "up", "over"} /\ k.stop \in BOOLEAN /\ k.forced \in BOOLEAN
        /\ k.sent \in BOOLEAN /\ k.queue \in Seq(Events)
    <2> HIDE DEF k
    <2> QED  BY <1>2, LinkFields
  <1>4. sink' = [sink EXCEPT !.link[e] = m]
    <2> DEFINE f == FALSE
               l1 == [sink EXCEPT !.link[e].state = state]
               l2 == [l1 EXCEPT !.link[e].queue = sink.link[e].queue \o <<type>>]
               l3 == [l2 EXCEPT !.link[e].forced = f]
               l4 == [l3 EXCEPT !.link[e].sent = f]
               S(n) == [status |-> sink.status, pending |-> sink.pending, timeout |-> sink.timeout,
                        link |-> [sink.link EXCEPT ![e] = n], ordered |-> sink.ordered]
    <2>1. sink' = l4
      BY Zenon DEF LinkStep
    <2>2. sink = [status |-> sink.status, pending |-> sink.pending, timeout |-> sink.timeout,
                  link |-> sink.link, ordered |-> sink.ordered] /\ sink.link \in [Servers -> LinkType]
      BY <1>1 DEF SinkType
    <2>3. k = [state |-> k.state, stop |-> k.stop, forced |-> k.forced, sent |-> k.sent, queue |-> k.queue]
      BY <1>3, Zenon DEF LinkOf
    <2> HIDE DEF k
    <2>4. l1 = S(LinkOf(state, k.stop, k.forced, k.sent, k.queue))
      BY <2>2, <2>3 DEF k, LinkOf
    <2> HIDE DEF l1
    <2>5. l2 = S(LinkOf(state, k.stop, k.forced, k.sent, q))
      BY <2>2, <2>4 DEF LinkOf, k
    <2> DEFINE a == k.stop  b == k.sent  c == k.forced
    <2> HIDE DEF l2, f, q, a, b, c
    <2>6. l3 = S(LinkOf(state, a, f, b, q))
      <3>1. l2 = S(LinkOf(state, a, c, b, q))
        BY <2>5, Zenon DEF a, b, c
      <3> QED  BY <2>2, <3>1 DEF LinkOf
    <2> HIDE DEF l3
    <2>7. l4 = S(LinkOf(state, a, f, f, q))
      BY <2>2, <2>6 DEF LinkOf
    <2> HIDE DEF l4
    <2>8. sink' = S(m)
      BY <2>1, <2>7, Zenon DEF f, a
    <2> HIDE DEF m
    <2> QED  BY <2>2, <2>8
  <1>5. k.stop => sink.status[e] = "closing"
    BY <1>1 DEF EndsClosing, Ending
  <1>6. (\E i \in 1 .. Len(k.queue) : k.queue[i] = "finished") => sink.status[e] = "closing"
    BY <1>1 DEF EndsClosing, Ending
  <1>7. type = "finished" => k.stop
    OBVIOUS
  <1> HIDE DEF k
  <1>8. <<type>> \in Seq(Events) /\ q \in Seq(Events)
    BY <1>3
  <1>9. ASSUME NEW i \in 1 .. Len(q), q[i] = "finished" PROVE sink.status[e] = "closing"
    <2>1. /\ Len(k.queue) \in Nat /\ Len(q) = Len(k.queue) + 1
          /\ \A j \in 1 .. Len(k.queue) : q[j] = k.queue[j]
      BY <1>3
    <2>2. q[Len(k.queue) + 1] = type
      BY <1>3
    <2> HIDE DEF q
    <2>3. CASE i = Len(k.queue) + 1
      BY <1>5, <1>7, <1>9, <2>2, <2>3
    <2>4. CASE i # Len(k.queue) + 1
      <3>1. i \in 1 .. Len(k.queue)
        BY <2>1, <2>4
      <3> QED  BY <1>6, <1>9, <2>1, <3>1
    <2> QED  BY <2>3, <2>4
  <1> HIDE DEF q
  <1>10. m \in LinkType /\ (Ending(m) <=> (k.stop \/ \E i \in 1 .. Len(q) : q[i] = "finished"))
    <2> DEFINE f == FALSE
    <2>1. f \in BOOLEAN
      OBVIOUS
    <2> HIDE DEF f
    <2>2. LET n == LinkOf(state, k.stop, f, f, q)
          IN  n \in LinkType /\ (Ending(n) <=> (k.stop \/ \E i \in 1 .. Len(q) : q[i] = "finished"))
      BY <1>3, <1>8, <2>1, LinkOfType
    <2> QED  BY <2>2, Zenon DEF f
  <1>11. Ending(m) => sink.status[e] = "closing"
    BY <1>5, <1>9, <1>10
  <1> HIDE DEF m
  <1>12. Light(sink, t)
    BY <1>2, <1>10, <1>11, UpdatedLight
  <1>13. sink' = t
    BY <1>1, <1>4 DEF Updated, SinkType
  <1> HIDE DEF t
  <1> QED  BY <1>12, <1>13

LEMMA QueuePayloadLight ==
    ASSUME Base(sink), NEW e \in Servers, QueuePayload(e)
    PROVE  Light(sink, sink')
  <1> DEFINE k == sink.link[e]
             v == k.state = "up"
             y == TRUE
             m == LinkOf(k.state, k.stop, k.forced, v, k.queue)
             t == Updated(sink, e, sink.status[e], y, "watch", m)
  <1>1. sink \in SinkType /\ ~Ending(k)
    BY NotEnding DEF Base, QueuePayload
  <1>2. sink.status[e] \in Statuses /\ k \in LinkType
    BY <1>1, FieldsOf
  <1>3. v \in BOOLEAN /\ y \in BOOLEAN
    OBVIOUS
  <1>4. /\ k = LinkOf(k.state, k.stop, k.forced, k.sent, k.queue)
        /\ k.state \in {"down", "up", "over"} /\ k.stop \in BOOLEAN /\ k.forced \in BOOLEAN
        /\ k.sent \in BOOLEAN /\ k.queue \in Seq(Events)
    <2> HIDE DEF k
    <2> QED  BY <1>2, LinkFields
  <1>5. sink' = [sink EXCEPT !.pending[e] = y, !.timeout[e] = "watch", !.link[e].sent = v]
    BY Zenon DEF QueuePayload
  <1> HIDE DEF v, y
  <1>6. sink' = [sink EXCEPT !.pending[e] = y, !.timeout[e] = "watch", !.link[e] = [k EXCEPT !.sent = v]]
    BY <1>1, <1>5 DEF SinkType
  <1> HIDE DEF k
  <1>7. m = [k EXCEPT !.sent = v]
    BY <1>4 DEF LinkOf
  <1>8. m \in LinkType /\ ~Ending(m)
    <2>1. m \in LinkType /\ (Ending(m) <=> (k.stop \/ \E i \in 1 .. Len(k.queue) : k.queue[i] = "finished"))
      BY <1>3, <1>4, LinkOfType
    <2> QED  BY <1>1, <2>1 DEF Ending
  <1> HIDE DEF m
  <1>9. sink' = t
    BY <1>1, <1>6, <1>7 DEF SinkType, Updated
  <1>10. Light(sink, t)
    BY <1>2, <1>3, <1>8, UpdatedLight
  <1> HIDE DEF t
  <1> QED  BY <1>9, <1>10

LEMMA AckedLight ==
    ASSUME Base(sink), NEW e \in Servers, Acked(e)
    PROVE  Light(sink, sink')
  <1> DEFINE k == sink.link[e]
             v == k.stop \/ sink.status[e] = "closing"
             n == FALSE
             w == "watch"
             m == LinkOf(k.state, v, k.forced, n, k.queue)
             t == Updated(sink, e, sink.status[e], n, w, m)
  <1>1. sink \in SinkType /\ EndsClosing(sink)
    BY DEF Base
  <1>2. sink.status[e] \in Statuses /\ k \in LinkType
    BY <1>1, FieldsOf
  <1>3. v \in BOOLEAN /\ n \in BOOLEAN /\ w \in {"none", "backoff", "watch"}
    OBVIOUS
  <1>4. /\ k = LinkOf(k.state, k.stop, k.forced, k.sent, k.queue)
        /\ k.state \in {"down", "up", "over"} /\ k.stop \in BOOLEAN /\ k.forced \in BOOLEAN
        /\ k.sent \in BOOLEAN /\ k.queue \in Seq(Events)
    <2> HIDE DEF k
    <2> QED  BY <1>2, LinkFields
  <1>5. v \/ (\E i \in 1 .. Len(k.queue) : k.queue[i] = "finished") => sink.status[e] = "closing"
    BY <1>1 DEF EndsClosing, Ending
  <1> DEFINE s1 == [sink EXCEPT !.pending[e] = n]
             s2 == [s1 EXCEPT !.timeout[e] = w]
             s3 == [s2 EXCEPT !.link[e].sent = n]
             s4 == [s3 EXCEPT !.link[e].stop = v]
             S(b, c, j) == [status |-> sink.status, pending |-> b, timeout |-> c, link |-> j, ordered |-> sink.ordered]
             a1 == [sink.pending EXCEPT ![e] = n]
             a2 == [sink.timeout EXCEPT ![e] = w]
             m1 == LinkOf(k.state, k.stop, k.forced, n, k.queue)
  <1>6. sink' = s4
    BY Zenon DEF Acked
  <1>7. sink = S(sink.pending, sink.timeout, sink.link) /\ sink.link \in [Servers -> LinkType]
    BY <1>1 DEF SinkType
  <1> HIDE DEF v, n, w
  <1>8. s1 = S(a1, sink.timeout, sink.link)
    BY <1>7
  <1> HIDE DEF s1, a1
  <1>9. s2 = S(a1, a2, sink.link)
    BY <1>8
  <1> HIDE DEF s2, a2
  <1>10. s3 = S(a1, a2, [sink.link EXCEPT ![e] = m1])
    <2>1. s3 = S(a1, a2, [sink.link EXCEPT ![e] = [k EXCEPT !.sent = n]])
      BY <1>7, <1>9
    <2> HIDE DEF k
    <2>2. m1 = [k EXCEPT !.sent = n]
      BY <1>4 DEF LinkOf
    <2> QED  BY <2>1, <2>2
  <1> HIDE DEF s3, k
  <1>11. s4 = S(a1, a2, [sink.link EXCEPT ![e] = m])
    <2>1. s4 = S(a1, a2, [sink.link EXCEPT ![e] = [m1 EXCEPT !.stop = v]])
      <3> HIDE DEF m1
      <3> QED  BY <1>7, <1>10
    <2>2. m = [m1 EXCEPT !.stop = v]
      <3> DEFINE b1 == k.state  b2 == k.stop  b3 == k.forced  b4 == k.queue
      <3>1. m1 = LinkOf(b1, b2, b3, n, b4) /\ m = LinkOf(b1, v, b3, n, b4)
        BY Zenon
      <3> HIDE DEF b1, b2, b3, b4, m1, m
      <3> QED  BY <3>1 DEF LinkOf
    <2> QED  BY <2>1, <2>2
  <1>12. m \in LinkType /\ (Ending(m) <=> (v \/ \E i \in 1 .. Len(k.queue) : k.queue[i] = "finished"))
    BY <1>3, <1>4, LinkOfType
  <1>13. Ending(m) => sink.status[e] = "closing"
    BY <1>5, <1>12
  <1> HIDE DEF m, s4
  <1>14. sink' = t
    BY <1>1, <1>6, <1>11 DEF Updated, SinkType, a1, a2
  <1>15. Light(sink, t)
    BY <1>2, <1>3, <1>12, <1>13, UpdatedLight
  <1> HIDE DEF t
  <1> QED  BY <1>14, <1>15

LEMMA TimeoutPendingLight ==
    ASSUME Base(sink), NEW e \in Servers, TimeoutPending(e)
    PROVE  Light(sink, sink')
  <1> DEFINE k == sink.link[e]
             y == TRUE
             w == "none"
             a == IF sink.status[e] = "active" THEN "failed" ELSE sink.status[e]
             m == LinkOf(k.state, k.stop, y, k.sent, k.queue)
             t == Updated(sink, e, a, sink.pending[e], w, m)
  <1>1. sink \in SinkType /\ EndsClosing(sink)
    BY DEF Base
  <1>2. sink.status[e] \in Statuses /\ k \in LinkType /\ sink.pending[e] \in BOOLEAN
    BY <1>1, FieldsOf
  <1>3. /\ y \in BOOLEAN /\ w \in {"none", "backoff", "watch"} /\ a \in Statuses
        /\ (a = "none" <=> sink.status[e] = "none") /\ (a = "closing" <=> sink.status[e] = "closing")
    BY <1>2 DEF Statuses
  <1>4. /\ k = LinkOf(k.state, k.stop, k.forced, k.sent, k.queue)
        /\ k.state \in {"down", "up", "over"} /\ k.stop \in BOOLEAN /\ k.forced \in BOOLEAN
        /\ k.sent \in BOOLEAN /\ k.queue \in Seq(Events)
    <2> HIDE DEF k
    <2> QED  BY <1>2, LinkFields
  <1>5. Ending(k) => sink.status[e] = "closing"
    BY <1>1 DEF EndsClosing
  <1>6. sink' = [sink EXCEPT !.timeout[e] = w, !.link[e].forced = y, !.status[e] = a]
    BY Zenon DEF TimeoutPending
  <1> HIDE DEF y, w, a
  <1>7. sink' = [sink EXCEPT !.timeout[e] = w, !.link[e] = [k EXCEPT !.forced = y], !.status[e] = a]
    BY <1>1, <1>6 DEF SinkType
  <1> HIDE DEF k
  <1>8. m = [k EXCEPT !.forced = y]
    BY <1>4 DEF LinkOf
  <1>9. m \in LinkType /\ (Ending(m) => a = "closing")
    <2>1. m \in LinkType /\ (Ending(m) <=> (k.stop \/ \E i \in 1 .. Len(k.queue) : k.queue[i] = "finished"))
      BY <1>3, <1>4, LinkOfType
    <2> QED  BY <1>3, <1>5, <2>1 DEF Ending
  <1> HIDE DEF m
  <1>10. sink' = t
    BY <1>1, <1>7, <1>8 DEF SinkType, Updated
  <1>11. Light(sink, t)
    BY <1>2, <1>3, <1>9, UpdatedLight
  <1> HIDE DEF t
  <1> QED  BY <1>10, <1>11

LEMMA TakenLight ==
    ASSUME Base(sink), NEW e \in Servers, sink.link[e].queue # <<>>
    PROVE  Light(sink, Taken(e)) /\ Taken(e).status = sink.status /\ Base(Taken(e)) /\ Taken(e).ordered = sink.ordered
  <1>1. Base(Taken(e)) /\ Taken(e).status = sink.status /\ Taken(e).ordered = sink.ordered
    BY TakenBase DEF Taken
  <1> QED  BY <1>1 DEF Light

\* Another endpoint was already started, or is again after a failure.
LEMMA StartedLight ==
    ASSUME Base(sink), NEW e \in Servers, Started(e), sink.status[e] # "idle"
    PROVE  Light(sink, sink') /\ UNCHANGED <<method, drifted>>
  <1> DEFINE s == Taken(e)
  <1>1. Light(sink, s) /\ s.status = sink.status /\ Base(s) /\ s.ordered = sink.ordered
    BY TakenLight DEF Started, NextEvent
  <1>2. CASE s.status[e] = "failed"
    <2> DEFINE u == Updated(s, e, "idle", s.pending[e], "backoff", s.link[e])
    <2>1. sink' = [s EXCEPT !.status[e] = "idle", !.timeout[e] = "backoff"] /\ UNCHANGED <<method, drifted>>
      BY <1>2 DEF Started
    <2>2. s \in SinkType
      BY <1>1 DEF Base
    <2> HIDE DEF s
    <2>3. "idle" \in Statuses /\ s.pending[e] \in BOOLEAN
      BY <2>2, FieldsOf DEF Statuses
    <2>4. Base(u) /\ u.ordered = s.ordered /\ \A x \in Servers : u.status[x] = IF x = e THEN "idle" ELSE s.status[x]
      BY <1>1, <1>2, <2>3, StatusBase
    <2>5. sink' = u
      BY <2>1, <2>2 DEF Updated, SinkType
    <2> HIDE DEF u
    <2>6. Light(sink, u)
      BY <1>1, <1>2, <2>4 DEF Light
    <2> QED  BY <2>1, <2>5, <2>6
  <1>3. CASE s.status[e] # "failed"
    <2>1. sink' = s /\ UNCHANGED <<method, drifted>>
      BY <1>1, <1>3 DEF Started
    <2> HIDE DEF s
    <2> QED  BY <1>1, <2>1
  <1> QED  BY <1>2, <1>3

LEMMA BackoffLight ==
    ASSUME Base(sink), NEW e \in Servers, TimeoutBackoff(e), sink.status[e] # "idle"
    PROVE  Light(sink, sink') /\ UNCHANGED <<method, drifted>>
  <1> DEFINE s == [sink EXCEPT !.timeout[e] = "none"]
  <1>1. Base(s) /\ s.ordered = sink.ordered /\ s.status = sink.status
    BY TimeoutBase
  <1>2. sink' = s /\ UNCHANGED <<method, drifted>>
    <2>1. s.status[e] # "idle"
      BY <1>1
    <2> QED  BY <2>1 DEF TimeoutBackoff
  <1> HIDE DEF s
  <1> QED  BY <1>1, <1>2 DEF Light

LEMMA MoveEndpointBase ==
    ASSUME NEW s, Base(s), NEW e \in Servers, NEW mark \in Servers
    PROVE  LET t == MoveEndpointAfter(s, e, mark)
           IN  Base(t) /\ t.ordered = MoveAfter(s.ordered, e, mark) /\ t.status = s.status
  <1> DEFINE t == MoveEndpointAfter(s, e, mark)
             l == MoveAfter(s.ordered, e, mark)
  <1>1. s \in SinkType /\ Good(s.ordered) /\ s.ordered.in \subseteq Endpoints(s) /\ EndsClosing(s)
    BY DEF Base
  <1>2. mark # Nil /\ e \in Elements /\ mark \in Elements
    BY ListAssumption DEF Servers
  <1>3. Good(l) /\ l.in = s.ordered.in
    BY <1>1, <1>2, MoveAfterGood
  <1>4. t = [s EXCEPT !.ordered = l]
    BY <1>2 DEF MoveEndpointAfter
  <1> HIDE DEF t, l
  <1>5. l \in ListType
    BY <1>3 DEF Good
  <1>6. t \in SinkType /\ t.ordered = l /\ t.status = s.status /\ t.link = s.link
    BY <1>1, <1>4, <1>5, OrderedFields
  <1>7. EndsClosing(t) /\ t.ordered.in \subseteq Endpoints(t)
    BY <1>1, <1>3, <1>6 DEF EndsClosing, Endpoints
  <1>8. Base(t)
    BY <1>3, <1>6, <1>7 DEF Base
  <1> QED  BY <1>6, <1>8 DEF t, l

\* onFail goes on to the next server.
FailsTo(e, next) ==
    /\ Failover /\ IsCurrent(method, e) /\ sink.status[e] = "active"
    /\ method.position + 2 \in DOMAIN config.servers /\ next = config.servers[method.position + 2]
    /\ method' = [current |-> next, gone |-> FALSE, position |-> method.position + 1]
    /\ sink'.ordered = IF sink.status[next] = "none" THEN PushBack(sink.ordered, next)
                       ELSE MoveAfter(sink.ordered, next, e)
    /\ \A x \in Servers : sink'.status[x] = IF x = e THEN "failed"
                                           ELSE IF x = next /\ sink.status[x] = "none" THEN "idle" ELSE sink.status[x]

LEMMA FailedBase ==
    ASSUME Base(sink), config \in Configs, NEW e \in Servers, Failed(e)
    PROVE  \/ Light(sink, sink') /\ UNCHANGED method
           \/ Base(sink') /\ \E next \in Servers : FailsTo(e, next)
  <1> DEFINE s == Taken(e)
             f == MoveFailed(s, e)
  <1>1. Light(sink, s) /\ s.status = sink.status /\ Base(s) /\ s.ordered = sink.ordered
    BY TakenLight DEF Failed, NextEvent
  <1>2. CASE s.status[e] # "active"
    <2>1. sink' = s /\ UNCHANGED method
      BY <1>2 DEF Failed
    <2> HIDE DEF s
    <2> QED  BY <1>1, <2>1
  <1>3. CASE s.status[e] = "active"
    <2>1. InRange(f, method, e) /\ Apply(OnFail(f, method, e))
      BY <1>3 DEF Failed
    <2>2. s \in SinkType
      BY <1>1 DEF Base
    <2> HIDE DEF s
    <2>3. Base(f) /\ f.ordered = s.ordered /\ \A x \in Servers : f.status[x] = IF x = e THEN "failed" ELSE s.status[x]
      <3> DEFINE n == FALSE
                 u == Updated(s, e, "failed", n, "none", s.link[e])
      <3>1. "failed" \in Statuses /\ n \in BOOLEAN
        BY DEF Statuses
      <3>2. f = [s EXCEPT !.status[e] = "failed", !.timeout[e] = "none", !.pending[e] = n]
        BY Zenon DEF MoveFailed
      <3> HIDE DEF n, f
      <3>3. f = u
        BY <2>2, <3>2 DEF Updated, SinkType
      <3>4. Base(u) /\ u.ordered = s.ordered /\ \A x \in Servers : u.status[x] = IF x = e THEN "failed" ELSE s.status[x]
        BY <1>1, <1>3, <3>1, StatusBase
      <3> HIDE DEF u
      <3> QED  BY <3>3, <3>4
    <2> HIDE DEF f
    <2>4. CASE ~Failover \/ ~IsCurrent(method, e) \/ AllInUse(f)
      <3>1. sink' = f /\ method' = method
        BY <2>1, <2>4 DEF OnFail, Apply
      <3>2. Light(sink, f)
        BY <1>1, <1>3, <2>3 DEF Light
      <3> QED  BY <3>1, <3>2
    <2>5. CASE Failover /\ IsCurrent(method, e) /\ ~AllInUse(f)
      <3> DEFINE next == config.servers[method.position + 2]
                 r == IF f.status[next] = "none" THEN AddEndpoint(f, next) ELSE MoveEndpointAfter(f, next, method.current)
      <3>1. method.position + 2 \in DOMAIN config.servers /\ method.current = e
        BY <2>1, <2>5 DEF InRange, IsCurrent
      <3>2. next \in Servers
        BY <3>1, ConfigFacts
      <3>3. sink' = r /\ method' = [current |-> next, gone |-> FALSE, position |-> method.position + 1]
        BY <2>1, <2>5 DEF OnFail, Apply
      <3> HIDE DEF next
      <3>4. CASE f.status[next] = "none"
        <4> DEFINE t == AddEndpoint(f, next)
        <4>1. /\ Base(t) /\ t.ordered = PushBack(f.ordered, next)
              /\ \A x \in Servers : t.status[x] = IF x = next THEN "idle" ELSE f.status[x]
          BY <2>3, <3>2, <3>4, AddEndpointBase
        <4>2. sink' = t
          BY <3>3, <3>4
        <4> HIDE DEF t, r
        <4>3. next # e /\ sink.status[next] = "none"
          BY <1>1, <2>3, <3>2, <3>4
        <4>4. \A x \in Servers : sink'.status[x] = IF x = e THEN "failed"
                                           ELSE IF x = next /\ sink.status[x] = "none" THEN "idle" ELSE sink.status[x]
          BY <1>1, <2>3, <4>1, <4>2, <4>3
        <4>5. FailsTo(e, next)
          BY <1>1, <1>3, <2>3, <2>5, <3>1, <3>3, <4>1, <4>2, <4>3, <4>4 DEF FailsTo, next
        <4> QED  BY <3>2, <4>1, <4>2, <4>5
      <3>5. CASE f.status[next] # "none"
        <4> DEFINE t == MoveEndpointAfter(f, next, e)
        <4>1. Base(t) /\ t.ordered = MoveAfter(f.ordered, next, e) /\ t.status = f.status
          BY <2>3, <3>2, MoveEndpointBase
        <4>2. sink' = t
          BY <3>1, <3>3, <3>5
        <4> HIDE DEF t, r
        <4>3. sink.status[next] # "none"
          BY <1>1, <1>3, <2>3, <3>2, <3>5
        <4>4. \A x \in Servers : sink'.status[x] = IF x = e THEN "failed"
                                           ELSE IF x = next /\ sink.status[x] = "none" THEN "idle" ELSE sink.status[x]
          BY <1>1, <2>3, <4>1, <4>2, <4>3
        <4>5. FailsTo(e, next)
          BY <1>1, <1>3, <2>3, <2>5, <3>1, <3>3, <4>1, <4>2, <4>3, <4>4 DEF FailsTo, next
        <4> QED  BY <3>2, <4>1, <4>2, <4>5
      <3> QED  BY <3>4, <3>5
    <2> QED  BY <2>4, <2>5
  <1> QED  BY <1>2, <1>3

LEMMA FinishedBase ==
    ASSUME Base(sink), NEW e \in Servers, Finished(e)
    PROVE  /\ Base(sink') /\ sink.status[e] = "closing"
           /\ \A x \in Servers : x # e => sink'.status[x] = sink.status[x]
           /\ IF e \in Range(first.servers) /\ ~shutting /\ OnFinish(method, e)
              THEN sink'.status[e] = "idle" /\ sink'.ordered = PushBack(Remove(sink.ordered, e), e)
              ELSE sink'.status[e] = "none" /\ sink'.ordered = Remove(sink.ordered, e)
  <1> DEFINE s == RemoveEndpoint(sink, e)
             t == AddEndpoint(s, e)
  <1>1. sink.status[e] = "closing"
    <2> DEFINE q == sink.link[e].queue
    <2>1. q # <<>> /\ Head(q) = "finished"
      BY DEF Finished, NextEvent
    <2>2. sink \in SinkType /\ EndsClosing(sink)
      BY DEF Base
    <2>3. sink.link[e] \in LinkType
      BY <2>2, FieldsOf
    <2>4. q \in Seq(Events)
      BY <2>3, LinkFields
    <2> HIDE DEF q
    <2>5. 1 \in 1 .. Len(q) /\ q[1] = "finished"
      BY <2>1, <2>4
    <2> QED  BY <2>2, <2>5 DEF EndsClosing, Ending, q
  <1>2. /\ Base(s) /\ s.ordered = Remove(sink.ordered, e)
        /\ \A x \in Servers : s.status[x] = IF x = e THEN "none" ELSE sink.status[x]
    BY RemoveEndpointBase
  <1>3. sink' = IF e \in Range(first.servers) /\ ~shutting /\ OnFinish(method, e) THEN t ELSE s
    BY DEF Finished
  <1> HIDE DEF s
  <1>4. /\ Base(t) /\ t.ordered = PushBack(s.ordered, e)
        /\ \A x \in Servers : t.status[x] = IF x = e THEN "idle" ELSE s.status[x]
    BY <1>2, AddEndpointBase
  <1> HIDE DEF t
  <1> QED  BY <1>1, <1>2, <1>3, <1>4

LEMMA ShutdownFields ==
    ASSUME Base(sink), Shutdown
    PROVE  /\ Base(sink') /\ sink'.ordered = sink.ordered
           /\ \A x \in Servers : sink'.status[x] = IF sink.status[x] # "none" THEN "closing" ELSE "none"
  <1> DEFINE t == ShutdownAll(sink, Endpoints(sink))
  <1>1. /\ Base(t) /\ t.ordered = sink.ordered
        /\ \A x \in Servers : t.status[x] = IF x \in Endpoints(sink) /\ sink.status[x] # "none" THEN "closing" ELSE sink.status[x]
    BY ShutdownBase
  <1>2. sink' = t
    BY DEF Shutdown
  <1> HIDE DEF t
  <1> QED  BY <1>1, <1>2 DEF Endpoints

\* Started and TimeoutBackoff end a wait with markActive.
Activates(e) == \E s : /\ Base(s) /\ s.status = sink.status /\ s.ordered = sink.ordered
                       /\ sink.status[e] = "idle" /\ MarkActive(s, e)

LEMMA StartedActivates ==
    ASSUME Base(sink), NEW e \in Servers, Started(e), sink.status[e] = "idle"
    PROVE  Activates(e)
  <1> DEFINE s == Taken(e)
  <1>1. s.status = sink.status /\ Base(s) /\ s.ordered = sink.ordered
    BY TakenLight DEF Started, NextEvent
  <1>2. MarkActive(s, e)
    BY <1>1 DEF Started
  <1> HIDE DEF s
  <1> QED  BY <1>1, <1>2 DEF Activates

LEMMA BackoffActivates ==
    ASSUME Base(sink), NEW e \in Servers, TimeoutBackoff(e), sink.status[e] = "idle"
    PROVE  Activates(e)
  <1> DEFINE s == [sink EXCEPT !.timeout[e] = "none"]
  <1>1. Base(s) /\ s.ordered = sink.ordered /\ s.status = sink.status
    BY TimeoutBase
  <1>2. MarkActive(s, e)
    BY <1>1 DEF TimeoutBackoff
  <1> HIDE DEF s
  <1> QED  BY <1>1, <1>2 DEF Activates

\* Every step of one endpoint is one of these.
LEMMA EndpointSteps ==
    ASSUME Base(sink), config \in Configs, NEW e \in Servers,
           \/ Handlers(e) \/ QueuePayload(e) \/ TimeoutPending(e)
           \/ LinkStarts(e) \/ LinkFails(e) \/ LinkRefused(e) \/ ServerDies(e) \/ LinkFinishes(e)
    PROVE  /\ UNCHANGED <<config, first, reloads, shutting>>
           /\ \/ Light(sink, sink') /\ UNCHANGED <<method, drifted>>
              \/ Activates(e)
              \/ Base(sink') /\ (\E next \in Servers : FailsTo(e, next)) /\ UNCHANGED drifted
              \/ Finished(e)
  <1>1. CASE Started(e)
    <2>1. UNCHANGED <<config, first, reloads, shutting>>
      BY <1>1 DEF Started, Kept
    <2> QED  BY <1>1, <2>1, StartedLight, StartedActivates
  <1>2. CASE Failed(e)
    <2>1. UNCHANGED <<config, first, reloads, shutting>> /\ UNCHANGED drifted
      BY <1>2 DEF Failed, Kept
    <2> QED  BY <1>2, <2>1, FailedBase
  <1>3. CASE Finished(e)
    BY <1>3 DEF Finished, Kept
  <1>4. CASE Acked(e)
    <2>1. UNCHANGED <<config, first, reloads, shutting>> /\ UNCHANGED <<method, drifted>>
      BY <1>4 DEF Acked, Kept
    <2> QED  BY <1>4, <2>1, AckedLight
  <1>5. CASE TimeoutBackoff(e)
    <2>1. UNCHANGED <<config, first, reloads, shutting>>
      BY <1>5 DEF TimeoutBackoff, Kept
    <2> QED  BY <1>5, <2>1, BackoffLight, BackoffActivates
  <1>6. CASE QueuePayload(e)
    <2>1. UNCHANGED <<config, first, reloads, shutting>> /\ UNCHANGED <<method, drifted>>
      BY <1>6 DEF QueuePayload, Kept
    <2> QED  BY <1>6, <2>1, QueuePayloadLight
  <1>7. CASE TimeoutPending(e)
    <2>1. UNCHANGED <<config, first, reloads, shutting>> /\ UNCHANGED <<method, drifted>>
      BY <1>7 DEF TimeoutPending, Kept
    <2> QED  BY <1>7, <2>1, TimeoutPendingLight
  <1>8. CASE LinkStarts(e)
    <2>1. UNCHANGED <<config, first, reloads, shutting>> /\ UNCHANGED <<method, drifted>> /\ LinkStep(e, "up", <<"started">>)
      BY <1>8 DEF LinkStarts, Kept
    <2>2. "started" \in Events
      BY DEF Events
    <2> QED  BY <2>1, <2>2, LinkStepLight
  <1>9. CASE LinkFails(e)
    <2>1. UNCHANGED <<config, first, reloads, shutting>> /\ UNCHANGED <<method, drifted>> /\ LinkStep(e, "down", <<"failed">>)
      BY <1>9 DEF LinkFails, Kept
    <2>2. "failed" \in Events
      BY DEF Events
    <2> QED  BY <2>1, <2>2, LinkStepLight
  <1>10. CASE LinkRefused(e)
    <2>1. UNCHANGED <<config, first, reloads, shutting>> /\ UNCHANGED <<method, drifted>> /\ LinkStep(e, "down", <<"failed">>)
      BY <1>10 DEF LinkRefused, Kept
    <2>2. "failed" \in Events
      BY DEF Events
    <2> QED  BY <2>1, <2>2, LinkStepLight
  <1>11. CASE ServerDies(e)
    <2>1. UNCHANGED <<config, first, reloads, shutting>> /\ UNCHANGED <<method, drifted>> /\ LinkStep(e, "down", <<"failed">>)
      BY <1>11 DEF ServerDies
    <2>2. "failed" \in Events
      BY DEF Events
    <2> QED  BY <2>1, <2>2, LinkStepLight
  <1>12. CASE LinkFinishes(e)
    <2>1. UNCHANGED <<config, first, reloads, shutting>> /\ UNCHANGED <<method, drifted>> /\ LinkStep(e, "over", <<"finished">>)
          /\ sink.link[e].stop
      BY <1>12 DEF LinkFinishes, Kept
    <2>2. "finished" \in Events
      BY DEF Events
    <2> QED  BY <2>1, <2>2, LinkStepLight
  <1> QED  BY <1>1, <1>2, <1>3, <1>4, <1>5, <1>6, <1>7, <1>8, <1>9, <1>10, <1>11, <1>12 DEF Handlers

-----------------------------------------------------------------------------
(* The ring is sound. *)

RingInv ==
    /\ reloads \in Nat /\ config \in Configs
    /\ reloads = 0 => Base(sink)

LEMMA InitSink ==
    ASSUME Init
    PROVE  /\ config \in Configs /\ first = config /\ reloads = 0 /\ shutting = FALSE /\ drifted = FALSE
           /\ IF Failover
              THEN sink = Opened(config, 1) /\ method = [current |-> config.servers[1], gone |-> FALSE, position |-> 0]
              ELSE sink = Opened(config, Len(config.servers))
  <1>1. config \in Configs
    BY SinkAssumption DEF Init
  <1>2. CASE Failover
    BY <1>1, <1>2, FirstPreferred DEF Init
  <1>3. CASE ~Failover
    BY <1>1, <1>3, FirstBalanced DEF Init
  <1> QED  BY <1>1, <1>2, <1>3 DEF Init

LEMMA InitRing ==
    ASSUME Init
    PROVE  RingInv
  <1>1. /\ config \in Configs /\ reloads = 0
        /\ sink = Opened(config, 1) \/ sink = Opened(config, Len(config.servers))
    BY InitSink
  <1>2. 1 \in 0 .. Len(config.servers) /\ Len(config.servers) \in 0 .. Len(config.servers)
    BY <1>1, ConfigFacts
  <1>3. \A i \in 0 .. Len(config.servers) : Base(Opened(config, i))
    BY <1>1, OpenedFields
  <1>4. Base(sink)
    BY <1>1, <1>2, <1>3
  <1> QED  BY <1>1, <1>4 DEF RingInv

LEMMA RingStep ==
    ASSUME RingInv, [Next]_vars
    PROVE  RingInv'
  <1>1. CASE UNCHANGED vars
    <2>1. UNCHANGED <<sink, reloads, config>>
      BY <1>1 DEF vars
    <2>2. reloads' \in Nat /\ config' \in Configs /\ (reloads' = 0 => Base(sink'))
      BY <2>1 DEF RingInv
    <2> QED  BY <2>2 DEF RingInv, Base, SinkType, Good, RingOf, EndsClosing, Endpoints
  <1>2. CASE Reload
    <2>1. reloads' = reloads + 1 /\ config' \in Configs
      BY <1>2 DEF Reload
    <2> QED  BY <2>1 DEF RingInv
  <1>3. CASE Shutdown
    <2>1. UNCHANGED <<reloads, config>>
      BY <1>3 DEF Shutdown
    <2>2. reloads = 0 => Base(sink')
      BY <1>3, ShutdownFields DEF RingInv
    <2> QED  BY <2>1, <2>2 DEF RingInv
  <1>4. ASSUME NEW e \in Servers,
               \/ Handlers(e) \/ QueuePayload(e) \/ TimeoutPending(e)
               \/ LinkStarts(e) \/ LinkFails(e) \/ LinkRefused(e) \/ ServerDies(e) \/ LinkFinishes(e)
        PROVE  RingInv'
    <2>1. UNCHANGED <<config, reloads>>
      BY <1>4 DEF Handlers, Started, Failed, Finished, Acked, TimeoutBackoff, QueuePayload, TimeoutPending,
                  LinkStarts, LinkFails, LinkRefused, ServerDies, LinkFinishes, Kept
    <2>2. ASSUME reloads = 0 PROVE Base(sink')
      <3>1. Base(sink) /\ config \in Configs
        BY <2>2 DEF RingInv
      <3>2. \/ Light(sink, sink') \/ Activates(e) \/ Base(sink') \/ Finished(e)
        BY <1>4, <3>1, EndpointSteps
      <3>3. ASSUME Activates(e) PROVE Base(sink')
        <4>1. PICK s : Base(s) /\ s.status = sink.status /\ sink.status[e] = "idle" /\ MarkActive(s, e)
          BY <3>3 DEF Activates
        <4> QED  BY <4>1, MarkActiveBase
      <3>4. Finished(e) => Base(sink')
        BY <3>1, FinishedBase
      <3> QED  BY <3>2, <3>3, <3>4 DEF Light
    <2> QED  BY <2>1, <2>2 DEF RingInv
  <1> QED  BY <1>1, <1>2, <1>3, <1>4 DEF Next

\* The ordered list of the sink is a sound ring through every order of endpoints
\* added, moved, failed over, closed and removed, for any number of servers, until
\* the configuration is reloaded.
THEOREM RingSound == Spec => []RingIntact
  <1>1. Init => RingInv
    BY InitRing
  <1>2. RingInv /\ [Next]_vars => RingInv'
    BY RingStep
  <1>3. RingInv => RingIntact
    <2>1. Base(sink) => IsRing(sink.ordered)
      BY GoodFacts DEF Base
    <2> QED  BY <2>1 DEF RingInv, RingIntact, Whole
  <1> QED  BY <1>1, <1>2, <1>3, PTL DEF Spec

-----------------------------------------------------------------------------
(* The place of the current endpoint. *)

\* With the current endpoint at p + 1 of the servers sv: the servers up to there
\* have endpoints, in this order, of which only the current one may be closing;
\* every other endpoint is closing.  A current endpoint that was removed once is
\* not closing again.
Placed(s, sv, p, gone) ==
    /\ s.ordered.in = Endpoints(s)
    /\ \A k \in 1 .. p + 1 : s.status[sv[k]] # "none"
    /\ \A j, k \in 1 .. p + 1 : j < k => Prec(s.ordered, sv[j], sv[k])
    /\ \A k \in 1 .. p : s.status[sv[k]] # "closing"
    /\ \A x \in Servers : s.status[x] \notin {"none", "closing"} => \E k \in 1 .. p + 1 : sv[k] = x
    /\ gone => s.status[sv[p + 1]] # "closing"

\* Servers of a list, one after the other.
Distinct(sv, n) == (\A i \in 1 .. n : sv[i] \in Servers) /\ \A i, j \in 1 .. n : sv[i] = sv[j] => i = j

LEMMA PlacedLight ==
    ASSUME NEW s, NEW t, NEW sv, NEW n \in Nat, NEW p \in 0 .. n - 1, NEW gone, Distinct(sv, n),
           Placed(s, sv, p, gone), Light(s, t)
    PROVE  Placed(t, sv, p, gone)
  <1>1. \A k \in 1 .. p + 1 : k \in 1 .. n /\ sv[k] \in Servers
    BY DEF Distinct
  <1>2. \A k \in 1 .. p : sv[k] \in Servers
    BY <1>1
  <1>3. p + 1 \in 1 .. p + 1
    OBVIOUS
  <1>4. \A x \in Servers : (t.status[x] = "none" <=> s.status[x] = "none") /\ (t.status[x] = "closing" <=> s.status[x] = "closing")
    BY DEF Light
  <1>5. t.ordered = s.ordered /\ Endpoints(t) = Endpoints(s)
    BY <1>4 DEF Light, Endpoints
  <1>6. \A x \in Servers : t.status[x] \notin {"none", "closing"} => s.status[x] \notin {"none", "closing"}
    BY <1>4
  <1>7. sv[p + 1] \in Servers
    BY <1>1, <1>3
  <1>8. \A k \in 1 .. p + 1 : t.status[sv[k]] # "none"
    BY <1>1, <1>4 DEF Placed
  <1>9. \A k \in 1 .. p : t.status[sv[k]] # "closing"
    BY <1>2, <1>4 DEF Placed
  <1>10. gone => t.status[sv[p + 1]] # "closing"
    BY <1>4, <1>7 DEF Placed
  <1>11. \A x \in Servers : t.status[x] \notin {"none", "closing"} => \E k \in 1 .. p + 1 : sv[k] = x
    BY <1>6 DEF Placed
  <1>12. t.ordered.in = Endpoints(t) /\ \A j, k \in 1 .. p + 1 : j < k => Prec(t.ordered, sv[j], sv[k])
    BY <1>5 DEF Placed
  <1> QED  BY <1>8, <1>9, <1>10, <1>11, <1>12 DEF Placed

\* The next server's endpoint comes after those of the servers before it.
LEMMA PlacedNext ==
    ASSUME NEW s, NEW t, NEW sv, NEW n \in Nat, NEW p \in 0 .. n - 1, Distinct(sv, n), NEW gone,
           Base(s), Base(t), Placed(s, sv, p, gone), p + 2 \in 1 .. n, s.status[sv[p + 1]] = "active",
           t.ordered = IF s.status[sv[p + 2]] = "none" THEN PushBack(s.ordered, sv[p + 2])
                       ELSE MoveAfter(s.ordered, sv[p + 2], sv[p + 1]),
           \A x \in Servers : t.status[x] = IF x = sv[p + 1] THEN "failed"
                                            ELSE IF x = sv[p + 2] /\ s.status[x] = "none" THEN "idle" ELSE s.status[x]
    PROVE  Placed(t, sv, p + 1, FALSE)
  <1> DEFINE e == sv[p + 1]
             next == sv[p + 2]
             l == s.ordered
             m == t.ordered
  <1>1. \A k \in 1 .. p + 1 : k \in 1 .. n /\ sv[k] \in Servers /\ sv[k] # next
    BY DEF Distinct
  <1>2. p + 1 \in 1 .. p + 1 /\ p + 1 \in 1 .. n
    OBVIOUS
  <1>3. e \in Servers /\ next \in Servers /\ e # next
    BY <1>1, <1>2 DEF Distinct
  <1>4. \A k \in 1 .. (p + 1) + 1 : k \in 1 .. p + 1 \/ k = p + 2
    OBVIOUS
  <1>5. \A j, k \in 1 .. (p + 1) + 1 : j < k => j \in 1 .. p + 1
    OBVIOUS
  <1>6. Good(l) /\ l.in = Endpoints(s)
    BY DEF Base, Placed
  <1>7. \A k \in 1 .. p + 1 : sv[k] \in l.in /\ s.status[sv[k]] # "none"
    BY <1>1, <1>6 DEF Endpoints, Placed
  <1>8. \A j, k \in 1 .. p + 1 : j < k => Prec(l, sv[j], sv[k])
    BY DEF Placed
  <1> HIDE DEF e, next, l
  <1>9. /\ m.in = l.in \cup {next}
        /\ \A j, k \in 1 .. p + 1 : j < k => Prec(m, sv[j], sv[k])
        /\ \A j \in 1 .. p + 1 : Prec(m, sv[j], next)
    <2>1. CASE s.status[next] = "none"
      <3>1. next \notin l.in /\ next \in Elements
        BY <1>3, <1>6, <2>1 DEF Endpoints, Servers
      <3>2. m = PushBack(l, next)
        BY <2>1 DEF next, l
      <3>3. /\ m.in = l.in \cup {next}
            /\ \A x, y : Prec(l, x, y) => Prec(m, x, y)
            /\ \A x \in l.in : Prec(m, x, next)
        BY <1>6, <3>1, <3>2, PushBackGood
      <3> HIDE DEF m
      <3> QED  BY <1>7, <1>8, <3>3
    <2>2. CASE s.status[next] # "none"
      <3>1. next \in l.in /\ e \in l.in /\ next \in Elements /\ e \in Elements
        BY <1>2, <1>3, <1>6, <1>7, <2>2 DEF Endpoints, Servers, e
      <3>2. m = MoveAfter(l, next, e)
        BY <2>2 DEF next, l, e
      <3>3. /\ m.in = l.in
            /\ \A x, y : Prec(l, x, y) /\ x # next /\ y # next => Prec(m, x, y)
            /\ \A x : x # next /\ (x = e \/ Prec(l, x, e)) => Prec(m, x, next)
        BY <1>3, <1>6, <3>1, <3>2, MoveAfterGood
      <3> HIDE DEF m
      <3>4. \A j \in 1 .. p + 1 : sv[j] = e \/ Prec(l, sv[j], e)
        <4> TAKE j \in 1 .. p + 1
        <4>1. j = p + 1 \/ j < p + 1
          OBVIOUS
        <4> QED  BY <1>2, <1>8, <4>1 DEF e
      <3> QED  BY <1>1, <1>8, <3>1, <3>3, <3>4
    <2> QED  BY <2>1, <2>2
  <1> HIDE DEF m
  <1>10. \A x \in Servers : t.status[x] = IF x = e THEN "failed" ELSE IF x = next /\ s.status[x] = "none" THEN "idle" ELSE s.status[x]
    BY DEF e, next
  <1>11. s.status[e] = "active"
    BY DEF e
  <1>12. m.in = Endpoints(t)
    <2>1. \A x \in Servers : t.status[x] # "none" <=> x \in l.in \cup {next}
      BY <1>3, <1>6, <1>10, <1>11 DEF Endpoints
    <2>2. l.in \cup {next} \subseteq Servers
      BY <1>3, <1>6 DEF Endpoints
    <2> QED  BY <1>9, <2>1, <2>2 DEF Endpoints
  <1>13. \A k \in 1 .. (p + 1) + 1 : t.status[sv[k]] # "none"
    <2>1. t.status[next] # "none"
      BY <1>3, <1>10
    <2>2. \A k \in 1 .. p + 1 : t.status[sv[k]] # "none"
      BY <1>1, <1>7, <1>10
    <2> QED  BY <1>4, <2>1, <2>2 DEF next
  <1>14. \A j, k \in 1 .. (p + 1) + 1 : j < k => Prec(m, sv[j], sv[k])
    BY <1>4, <1>5, <1>9 DEF next
  <1>15. \A k \in 1 .. p + 1 : t.status[sv[k]] # "closing"
    <2> TAKE k \in 1 .. p + 1
    <2>1. CASE k = p + 1
      BY <1>3, <1>10, <2>1 DEF e
    <2>2. CASE k # p + 1
      <3>1. k \in 1 .. p
        BY <2>2
      <3>2. s.status[sv[k]] # "closing"
        BY <3>1 DEF Placed
      <3> QED  BY <1>1, <1>10, <3>2
    <2> QED  BY <2>1, <2>2
  <1>16. ASSUME NEW x \in Servers, t.status[x] \notin {"none", "closing"} PROVE \E k \in 1 .. (p + 1) + 1 : sv[k] = x
    <2>0. p + 1 \in 1 .. (p + 1) + 1 /\ p + 2 \in 1 .. (p + 1) + 1
      OBVIOUS
    <2>1. CASE x = e \/ x = next
      BY <2>0, <2>1 DEF e, next
    <2>2. CASE x # e /\ x # next
      <3>1. s.status[x] \notin {"none", "closing"}
        BY <1>10, <1>16, <2>2
      <3>2. PICK k \in 1 .. p + 1 : sv[k] = x
        BY <3>1 DEF Placed
      <3>3. k \in 1 .. (p + 1) + 1
        OBVIOUS
      <3> QED  BY <3>2, <3>3
    <2> QED  BY <2>1, <2>2
  <1> QED  BY <1>12, <1>13, <1>14, <1>15, <1>16 DEF Placed, m

\* As many servers as there are places between a and b.
LEMMA PlacesCount ==
    ASSUME NEW sv, NEW n \in Nat, Distinct(sv, n), NEW a \in 0 .. n, NEW b \in 0 .. n, a <= b
    PROVE  Cardinality({sv[j] : j \in a + 1 .. b}) = b - a
  <1> DEFINE S == a + 1 .. b
             T == {sv[j] : j \in S}
             f == [j \in S |-> sv[j]]
  <1>1. a + 1 \in Int /\ b \in Int /\ a \in Int
    OBVIOUS
  <1>2. IsFiniteSet(S) /\ Cardinality(S) = b - a
    <2>1. IsFiniteSet(S) /\ Cardinality(S) = IF a + 1 > b THEN 0 ELSE b - (a + 1) + 1
      BY <1>1, FS_Interval
    <2> HIDE DEF S
    <2> QED  BY <1>1, <2>1
  <1>3. \A j \in S : j \in 1 .. n
    OBVIOUS
  <1>4. f \in [S -> T] /\ \A i, j \in S : f[i] = f[j] => i = j
    <2> HIDE DEF S
    <2> QED  BY <1>3 DEF Distinct
  <1>5. \A t \in T : \E j \in S : f[j] = t
    <2> HIDE DEF S
    <2> QED  OBVIOUS
  <1> HIDE DEF S, T, f
  <1>6. f \in Bijection(S, T)
    BY <1>4, <1>5 DEF Bijection, Injection, Surjection, IsInjective
  <1>7. ExistsBijection(S, T)
    BY <1>6 DEF ExistsBijection
  <1>8. Cardinality(T) = Cardinality(S)
    BY <1>2, <1>7, FS_Bijection
  <1> QED  BY <1>2, <1>8 DEF S, T

\* A better endpoint becomes the current one, at its own place, unless one of
\* those after it was closing already.
PlacedAt(s, t, sv, p, e) ==
    \E k \in 1 .. p + 1 : /\ sv[k] = e /\ Cardinality(Closed(s, e)) = (p + 1) - k
                          /\ Placed(t, sv, k - 1, FALSE)

LEMMA PlacedBetter ==
    ASSUME NEW s, NEW t, NEW sv, NEW n \in Nat, NEW p \in 0 .. n - 1, Distinct(sv, n), NEW gone,
           Base(s), Placed(s, sv, p, gone), NEW e \in Servers, s.status[e] = "idle",
           \A x \in Closed(s, e) : s.status[x] # "closing",
           t.ordered = s.ordered,
           \A x \in Servers : t.status[x] = IF x = e THEN "active" ELSE IF x \in Closed(s, e) THEN "closing" ELSE s.status[x]
    PROVE  PlacedAt(s, t, sv, p, e)
  <1> DEFINE C == Closed(s, e)
             l == s.ordered
  <1>1. PICK k \in 1 .. p + 1 : sv[k] = e
    BY DEF Placed
  <1>2. \A j \in 1 .. p + 1 : j \in 1 .. n /\ sv[j] \in Servers
    BY DEF Distinct
  <1>3. \A i, j \in 1 .. p + 1 : sv[i] = sv[j] => i = j
    BY <1>2 DEF Distinct
  <1>4. Good(l) /\ l.in = Endpoints(s)
    BY DEF Base, Placed
  <1>5. \A x, y : Prec(l, x, y) => ~Prec(l, y, x)
    BY <1>4, GoodFacts
  <1>6. C = {x \in l.in : Prec(l, e, x)} /\ e \notin C
    BY ClosedFacts
  <1>7. \A i, j \in 1 .. p + 1 : i < j => Prec(l, sv[i], sv[j])
    BY DEF Placed
  <1>8. \A j \in 1 .. p + 1 : sv[j] \in l.in
    BY <1>2, <1>4 DEF Placed, Endpoints
  <1> HIDE DEF C, l
  <1>9. \A j \in 1 .. p + 1 : sv[j] \in C <=> k < j
    <2> TAKE j \in 1 .. p + 1
    <2>1. k < j => sv[j] \in C
      BY <1>1, <1>6, <1>7, <1>8
    <2>2. j < k => sv[j] \notin C
      BY <1>1, <1>5, <1>6, <1>7
    <2>3. j = k => sv[j] \notin C
      BY <1>1, <1>6
    <2>4. k < j \/ j < k \/ j = k
      OBVIOUS
    <2>5. ~(k < j /\ j < k) /\ ~(k < j /\ j = k)
      OBVIOUS
    <2> QED  BY <2>1, <2>2, <2>3, <2>4, <2>5
  <1>10. C = {sv[j] : j \in k + 1 .. p + 1}
    <2>1. \A j : j \in k + 1 .. p + 1 <=> j \in 1 .. p + 1 /\ k < j
      OBVIOUS
    <2>2. ASSUME NEW x \in C PROVE \E j \in 1 .. p + 1 : sv[j] = x
      <3>1. x \in Servers /\ s.status[x] # "none"
        BY <1>4, <1>6, <2>2 DEF Endpoints
      <3>2. s.status[x] # "closing"
        BY <2>2 DEF C
      <3> QED  BY <3>1, <3>2 DEF Placed
    <2> QED  BY <1>9, <2>1, <2>2
  <1>11. Cardinality(C) = (p + 1) - k
    <2> DEFINE b == p + 1
    <2>1. k \in 0 .. n /\ b \in 0 .. n /\ k <= b
      OBVIOUS
    <2> HIDE DEF b
    <2>2. Cardinality({sv[j] : j \in k + 1 .. b}) = b - k
      BY <2>1, PlacesCount
    <2> QED  BY <1>10, <2>2 DEF b
  <1>12. (k - 1) + 1 = k /\ \A j \in 1 .. k : j \in 1 .. p + 1 /\ ~(k < j)
    OBVIOUS
  <1>13. \A x \in Servers : t.status[x] = IF x = e THEN "active" ELSE IF x \in C THEN "closing" ELSE s.status[x]
    BY DEF C
  <1>14. t.ordered.in = Endpoints(t)
    <2>1. \A x \in Servers : t.status[x] # "none" <=> s.status[x] # "none"
      BY <1>4, <1>6, <1>13 DEF Endpoints
    <2> QED  BY <1>4, <2>1 DEF Endpoints, l
  <1>15. \A j \in 1 .. k : t.status[sv[j]] # "none" /\ sv[j] \notin C /\ sv[j] \in Servers
    <2> TAKE j \in 1 .. k
    <2>1. j \in 1 .. p + 1 /\ sv[j] \notin C /\ sv[j] \in Servers
      BY <1>2, <1>9, <1>12
    <2>2. s.status[sv[j]] # "none"
      BY <2>1 DEF Placed
    <2> QED  BY <1>13, <2>1, <2>2
  <1>16. \A i, j \in 1 .. k : i < j => Prec(t.ordered, sv[i], sv[j])
    BY <1>7, <1>12 DEF l
  <1>17. \A j \in 1 .. k - 1 : t.status[sv[j]] # "closing"
    <2> TAKE j \in 1 .. k - 1
    <2>1. j \in 1 .. p /\ j \in 1 .. k
      OBVIOUS
    <2>2. s.status[sv[j]] # "closing"
      BY <2>1 DEF Placed
    <2> QED  BY <1>13, <1>15, <2>1, <2>2
  <1>18. ASSUME NEW x \in Servers, t.status[x] \notin {"none", "closing"} PROVE \E j \in 1 .. k : sv[j] = x
    <2>0. k \in 1 .. k
      OBVIOUS
    <2>1. CASE x = e
      BY <1>1, <2>0, <2>1
    <2>2. CASE x # e
      <3>1. x \notin C /\ s.status[x] \notin {"none", "closing"}
        BY <1>13, <1>18, <2>2
      <3>2. PICK j \in 1 .. p + 1 : sv[j] = x
        BY <3>1 DEF Placed
      <3>3. ~(k < j)
        BY <1>9, <3>1, <3>2
      <3>4. j \in 1 .. k
        BY <3>3
      <3> QED  BY <3>2, <3>4
    <2> QED  BY <2>1, <2>2
  <1>19. Placed(t, sv, k - 1, FALSE)
    BY <1>12, <1>14, <1>15, <1>16, <1>17, <1>18 DEF Placed
  <1> QED  BY <1>1, <1>11, <1>19 DEF C, PlacedAt

\* The current endpoint is closed, and opened again at the end of the list.
LEMMA PlacedAgain ==
    ASSUME NEW s, NEW t, NEW sv, NEW n \in Nat, NEW p \in 0 .. n - 1, Distinct(sv, n), NEW gone,
           Base(s), Placed(s, sv, p, gone), t.status[sv[p + 1]] = "idle",
           \A x \in Servers : x # sv[p + 1] => t.status[x] = s.status[x],
           t.ordered = PushBack(Remove(s.ordered, sv[p + 1]), sv[p + 1])
    PROVE  Placed(t, sv, p, TRUE)
  <1> DEFINE e == sv[p + 1]
             l == s.ordered
             r == Remove(l, e)
             m == PushBack(r, e)
  <1>1. \A j \in 1 .. p + 1 : j \in 1 .. n /\ sv[j] \in Servers
    BY DEF Distinct
  <1>2. p + 1 \in 1 .. p + 1 /\ \A j \in 1 .. p : j \in 1 .. p + 1 /\ j # p + 1
    OBVIOUS
  <1>3. e \in Servers /\ e \in Elements
    BY <1>1, <1>2 DEF Servers
  <1>4. Good(l) /\ l.in = Endpoints(s)
    BY DEF Base, Placed
  <1>5. \A j \in 1 .. p + 1 : sv[j] \in l.in /\ s.status[sv[j]] # "none"
    BY <1>1, <1>4 DEF Placed, Endpoints
  <1>6. \A j \in 1 .. p : sv[j] # e /\ sv[j] \in Servers
    <2> TAKE j \in 1 .. p
    <2>1. j \in 1 .. n /\ p + 1 \in 1 .. n /\ j # p + 1
      OBVIOUS
    <2> QED  BY <2>1 DEF Distinct
  <1>7. \A i, j \in 1 .. p + 1 : i < j => Prec(l, sv[i], sv[j])
    BY DEF Placed
  <1>8. \A i, j \in 1 .. p + 1 : i < j => i \in 1 .. p /\ (j \in 1 .. p \/ j = p + 1)
    OBVIOUS
  <1>9. t.ordered = m
    OBVIOUS
  <1>9a. t.status[e] = "idle" /\ \A x \in Servers : x # e => t.status[x] = s.status[x]
    OBVIOUS
  <1>9b. \A j \in 1 .. p : s.status[sv[j]] # "closing"
    BY DEF Placed
  <1>9c. \A x \in Servers : s.status[x] \notin {"none", "closing"} => \E k \in 1 .. p + 1 : sv[k] = x
    BY DEF Placed
  <1> HIDE DEF l
  <1>10. Good(r) /\ r.in = l.in \ {e} /\ \A x, y : Prec(l, x, y) /\ x # e /\ y # e => Prec(r, x, y)
    BY <1>4, RemoveGood
  <1> HIDE DEF r
  <1>11. e \notin r.in
    BY <1>10
  <1>12. /\ m.in = r.in \cup {e}
         /\ \A x, y : Prec(r, x, y) => Prec(m, x, y)
         /\ \A x \in r.in : Prec(m, x, e)
    BY <1>3, <1>10, <1>11, PushBackGood
  <1> HIDE DEF m
  <1>13. \A i, j \in 1 .. p + 1 : i < j => Prec(m, sv[i], sv[j])
    <2> SUFFICES ASSUME NEW i \in 1 .. p + 1, NEW j \in 1 .. p + 1, i < j PROVE Prec(m, sv[i], sv[j])
      OBVIOUS
    <2>1. i \in 1 .. p /\ (j \in 1 .. p \/ j = p + 1)
      BY <1>8
    <2>2. CASE j \in 1 .. p
      BY <1>6, <1>7, <1>10, <1>12, <2>1, <2>2
    <2>3. CASE j = p + 1
      BY <1>5, <1>6, <1>10, <1>12, <2>1, <2>3
    <2> QED  BY <2>1, <2>2, <2>3
  <1> HIDE DEF e
  <1>14. m.in = Endpoints(t)
    <2>1. \A x \in Servers : t.status[x] # "none" <=> x \in m.in
      BY <1>3, <1>4, <1>9a, <1>10, <1>12 DEF Endpoints
    <2>2. m.in \subseteq Servers
      BY <1>3, <1>4, <1>10, <1>12 DEF Endpoints
    <2> QED  BY <2>1, <2>2 DEF Endpoints
  <1>15. \A j \in 1 .. p + 1 : t.status[sv[j]] # "none"
    BY <1>1, <1>5, <1>9a
  <1>16. \A j \in 1 .. p : t.status[sv[j]] # "closing"
    BY <1>6, <1>9a, <1>9b
  <1>17. \A x \in Servers : t.status[x] \notin {"none", "closing"} => \E k \in 1 .. p + 1 : sv[k] = x
    BY <1>2, <1>9a, <1>9c DEF e
  <1> QED  BY <1>9, <1>9a, <1>13, <1>14, <1>15, <1>16, <1>17 DEF Placed, e

\* An endpoint that was given up is gone.
LEMMA PlacedRemoved ==
    ASSUME NEW s, NEW t, NEW sv, NEW n \in Nat, NEW p \in 0 .. n - 1, Distinct(sv, n), NEW gone, NEW e \in Servers,
           Base(s), Placed(s, sv, p, gone), t.status[e] = "none", \A k \in 1 .. p + 1 : sv[k] # e,
           \A x \in Servers : x # e => t.status[x] = s.status[x],
           t.ordered = Remove(s.ordered, e)
    PROVE  Placed(t, sv, p, gone)
  <1> DEFINE l == s.ordered
             r == Remove(l, e)
  <1>1. \A j \in 1 .. p + 1 : sv[j] \in Servers /\ sv[j] # e
    <2>1. \A j \in 1 .. p + 1 : j \in 1 .. n
      OBVIOUS
    <2> QED  BY <2>1 DEF Distinct
  <1>2. p + 1 \in 1 .. p + 1 /\ \A j \in 1 .. p : j \in 1 .. p + 1
    OBVIOUS
  <1>3. Good(l) /\ l.in = Endpoints(s)
    BY DEF Base, Placed
  <1>4. \A i, j \in 1 .. p + 1 : i < j => Prec(l, sv[i], sv[j])
    BY DEF Placed
  <1>5. t.ordered = r
    OBVIOUS
  <1> HIDE DEF l
  <1>6. r.in = l.in \ {e} /\ \A x, y : Prec(l, x, y) /\ x # e /\ y # e => Prec(r, x, y)
    BY <1>3, RemoveGood
  <1> HIDE DEF r
  <1>7. r.in = Endpoints(t)
    BY <1>3, <1>6 DEF Endpoints
  <1>8. \A i, j \in 1 .. p + 1 : i < j => Prec(r, sv[i], sv[j])
    BY <1>1, <1>4, <1>6
  <1>9. \A j \in 1 .. p + 1 : t.status[sv[j]] = s.status[sv[j]]
    BY <1>1
  <1>10. \A j \in 1 .. p + 1 : t.status[sv[j]] # "none"
    BY <1>9 DEF Placed
  <1>11. \A j \in 1 .. p : t.status[sv[j]] # "closing"
    BY <1>2, <1>9 DEF Placed
  <1>12. gone => t.status[sv[p + 1]] # "closing"
    BY <1>2, <1>9 DEF Placed
  <1>13. \A x \in Servers : t.status[x] \notin {"none", "closing"} => \E k \in 1 .. p + 1 : sv[k] = x
    BY DEF Placed
  <1> QED  BY <1>5, <1>7, <1>8, <1>10, <1>11, <1>12, <1>13 DEF Placed

MethodType == [current : Servers, gone : BOOLEAN, position : Nat]

\* The method's position is the place of its current endpoint, and the endpoints
\* are as Placed says, until they are all closed.
Follows(c, s, m, shut) ==
    /\ m \in MethodType /\ m.position \in 0 .. Len(c.servers) - 1 /\ m.current = c.servers[m.position + 1]
    /\ ~shut => Placed(s, c.servers, m.position, m.gone)

PlaceInv ==
    /\ reloads = 0 => first = config
    /\ reloads = 0 /\ shutting => \A x \in Servers : sink.status[x] \in {"none", "closing"}
    /\ reloads = 0 /\ Failover /\ ~drifted => Follows(config, sink, method, shutting)

LEMMA InitPlace ==
    ASSUME Init
    PROVE  PlaceInv
  <1>1. config \in Configs /\ first = config /\ shutting = FALSE
    BY InitSink
  <1>2. ASSUME Failover PROVE Follows(config, sink, method, shutting)
    <2> DEFINE sv == config.servers
               one == 1
    <2>1. sink = Opened(config, one) /\ method = [current |-> sv[1], gone |-> FALSE, position |-> 0]
      BY <1>2, InitSink
    <2>2. Len(sv) \in Nat /\ Len(sv) >= 1 /\ sv[1] \in Servers /\ one \in 0 .. Len(sv)
      BY <1>1, ConfigFacts
    <2>3. method \in MethodType /\ method.position = 0 /\ method.current = sv[1] /\ method.gone = FALSE
      <3> DEFINE n == FALSE  z == 0  q == sv[1]
      <3>1. method = [current |-> q, gone |-> n, position |-> z] /\ n \in BOOLEAN /\ z \in Nat /\ q \in Servers
        BY <2>1, <2>2
      <3> HIDE DEF n, z, q
      <3>2. method \in MethodType /\ method.position = z /\ method.current = q /\ method.gone = n
        BY <3>1 DEF MethodType
      <3> QED  BY <3>2, Zenon DEF n, z, q
    <2>4. /\ Base(sink)
          /\ \A x \in Servers : sink.status[x] = IF \E j \in 1 .. one : sv[j] = x THEN "idle" ELSE "none"
          /\ sink.ordered.in = IF one = 0 THEN {} ELSE {sv[1]}
      <3> HIDE DEF one
      <3>1. LET t == Opened(config, one)
            IN  /\ Base(t)
                /\ \A x \in Servers : t.status[x] = IF \E j \in 1 .. one : sv[j] = x THEN "idle" ELSE "none"
                /\ t.ordered.in = IF one = 0 THEN {} ELSE {sv[1]}
        BY <1>1, <2>2, OpenedFields
      <3> QED  BY <2>1, <3>1
    <2>5. /\ \A x \in Servers : sink.status[x] = IF x = sv[1] THEN "idle" ELSE "none"
          /\ sink.ordered.in = {sv[1]}
      BY <2>4
    <2>6. sink.ordered.in = Endpoints(sink)
      BY <2>2, <2>5 DEF Endpoints
    <2>7. \A k \in 1 .. 0 + 1 : k = 1
      OBVIOUS
    <2>8. Placed(sink, sv, 0, FALSE)
      BY <2>2, <2>5, <2>6, <2>7 DEF Placed
    <2>9. 0 \in 0 .. Len(sv) - 1 /\ 0 + 1 = 1
      BY <2>2
    <2> HIDE DEF sv
    <2>10. method.position \in 0 .. Len(sv) - 1 /\ method.current = sv[method.position + 1]
      BY <2>3, <2>9
    <2>11. Placed(sink, sv, method.position, method.gone)
      BY <2>3, <2>8
    <2> QED  BY <2>3, <2>10, <2>11 DEF Follows, sv
  <1> QED  BY <1>1, <1>2 DEF PlaceInv

LEMMA FollowsFacts ==
    ASSUME NEW c \in Configs, NEW s, NEW m, NEW shut, Follows(c, s, m, shut)
    PROVE  /\ Distinct(c.servers, Len(c.servers)) /\ Len(c.servers) \in Nat /\ m.position \in 0 .. Len(c.servers) - 1
           /\ m.current = c.servers[m.position + 1] /\ m \in MethodType /\ m.position \in Nat
           /\ (~shut => Placed(s, c.servers, m.position, m.gone))
  <1>1. Distinct(c.servers, Len(c.servers)) /\ Len(c.servers) \in Nat
    BY ConfigFacts DEF Distinct
  <1> QED  BY <1>1 DEF Follows, MethodType

\* A record of the method has its fields.
LEMMA MethodRecord ==
    ASSUME NEW x \in Servers, NEW b \in BOOLEAN, NEW i \in Nat
    PROVE  LET m == [current |-> x, gone |-> b, position |-> i]
           IN  m \in MethodType /\ m.current = x /\ m.gone = b /\ m.position = i
  BY DEF MethodType

LEMMA FollowsLight ==
    ASSUME config \in Configs, Follows(config, sink, method, shutting), Light(sink, sink')
    PROVE  Follows(config, sink', method, shutting)
  <1> DEFINE sv == config.servers  n == Len(sv)  p == method.position
  <1>1. /\ Distinct(sv, n) /\ n \in Nat /\ p \in 0 .. n - 1
        /\ (~shutting => Placed(sink, sv, p, method.gone))
    BY FollowsFacts
  <1> HIDE DEF sv, n, p
  <1>2. ~shutting => Placed(sink', sv, p, method.gone)
    BY <1>1, PlacedLight
  <1> QED  BY <1>2 DEF Follows, sv, p

LEMMA FollowsFails ==
    ASSUME config \in Configs, Base(sink), Base(sink'), ~shutting, Follows(config, sink, method, shutting),
           NEW e \in Servers, NEW next \in Servers, FailsTo(e, next)
    PROVE  Follows(config, sink', method', shutting)
  <1> DEFINE sv == config.servers  n == Len(sv)  p == method.position  f == FALSE  q == p + 1
  <1>1. /\ Distinct(sv, n) /\ n \in Nat /\ p \in 0 .. n - 1 /\ p \in Nat
        /\ method.current = sv[p + 1] /\ Placed(sink, sv, p, method.gone)
    BY FollowsFacts
  <1>2. p + 2 \in 1 .. n /\ next = sv[p + 2] /\ e = sv[p + 1] /\ sink.status[e] = "active"
    <2>1. DOMAIN config.servers = 1 .. Len(config.servers)
      BY ConfigFacts
    <2> QED  BY <1>1, <2>1 DEF FailsTo, IsCurrent
  <1>3. method' = [current |-> next, gone |-> f, position |-> q]
    BY DEF FailsTo
  <1>4. /\ sink'.ordered = IF sink.status[next] = "none" THEN PushBack(sink.ordered, next) ELSE MoveAfter(sink.ordered, next, e)
        /\ \A x \in Servers : sink'.status[x] = IF x = e THEN "failed"
                                           ELSE IF x = next /\ sink.status[x] = "none" THEN "idle" ELSE sink.status[x]
    BY DEF FailsTo
  <1>5. q \in 0 .. n - 1 /\ q \in Nat /\ q + 1 = p + 2 /\ f \in BOOLEAN
    BY <1>1, <1>2
  <1> HIDE DEF sv, n, p
  <1>6. Placed(sink', sv, p + 1, FALSE)
    BY <1>1, <1>2, <1>4, PlacedNext
  <1>7. Placed(sink', sv, q, f)
    BY <1>6, Zenon
  <1> HIDE DEF q, f
  <1>8. method' \in MethodType /\ method'.current = next /\ method'.gone = f /\ method'.position = q
    BY <1>3, <1>5, MethodRecord
  <1>9. method'.current = sv[method'.position + 1] /\ method'.position \in 0 .. n - 1
    BY <1>2, <1>5, <1>8
  <1>10. Placed(sink', sv, method'.position, method'.gone)
    BY <1>7, <1>8
  <1> QED  BY <1>8, <1>9, <1>10 DEF Follows, sv, n

LEMMA FollowsActivates ==
    ASSUME config \in Configs, Base(sink), ~shutting, Follows(config, sink, method, shutting),
           NEW e \in Servers, Activates(e), ~drifted'
    PROVE  Follows(config, sink', method', shutting)
  <1> DEFINE sv == config.servers  n == Len(sv)  p == method.position  f == FALSE
  <1>1. /\ Distinct(sv, n) /\ n \in Nat /\ p \in 0 .. n - 1 /\ p \in Nat
        /\ method.current = sv[p + 1] /\ Placed(sink, sv, p, method.gone)
    BY FollowsFacts
  <1>2. PICK s : /\ Base(s) /\ s.status = sink.status /\ s.ordered = sink.ordered
                 /\ sink.status[e] = "idle" /\ MarkActive(s, e)
    BY DEF Activates
  <1>3. /\ Base(sink') /\ sink'.ordered = s.ordered
        /\ IF BetterThanCurrent(s, method, e)
           THEN /\ \A x \in Servers : sink'.status[x] = IF x = e THEN "active"
                                                       ELSE IF x \in Closed(s, e) THEN "closing" ELSE s.status[x]
                /\ method' = [current |-> e, gone |-> f, position |-> p - Cardinality(Closed(s, e))]
           ELSE /\ \A x \in Servers : sink'.status[x] = IF x = e THEN "active" ELSE s.status[x]
                /\ method' = method
    BY <1>2, MarkActiveBase
  <1>4. CASE ~BetterThanCurrent(s, method, e)
    <2>1. Light(sink, sink') /\ method' = method
      BY <1>2, <1>3, <1>4 DEF Light
    <2> QED  BY <2>1, FollowsLight
  <1>5. CASE BetterThanCurrent(s, method, e)
    <2>1. \A x \in Closed(s, e) : s.status[x] # "closing"
      BY <1>2, <1>5 DEF MarkActive
    <2>2. Placed(s, sv, p, method.gone)
      <3>1. Light(sink, s)
        BY <1>2 DEF Light
      <3> HIDE DEF sv, n, p
      <3> QED  BY <1>1, <3>1, PlacedLight
    <2> DEFINE C == Closed(s, e)
    <2>3. /\ sink'.ordered = s.ordered
          /\ \A x \in Servers : sink'.status[x] = IF x = e THEN "active" ELSE IF x \in C THEN "closing" ELSE s.status[x]
          /\ method' = [current |-> e, gone |-> f, position |-> p - Cardinality(C)]
      BY <1>3, <1>5
    <2> HIDE DEF sv, n, p
    <2>4. PICK k \in 1 .. p + 1 : sv[k] = e /\ Cardinality(C) = (p + 1) - k /\ Placed(sink', sv, k - 1, f)
      <3>1. PlacedAt(s, sink', sv, p, e)
        <4>1. s.status[e] = "idle" /\ Base(s)
          BY <1>2
        <4>2. sink'.ordered = s.ordered
          BY <2>3
        <4>3. \A x \in Servers : sink'.status[x] = IF x = e THEN "active" ELSE IF x \in Closed(s, e) THEN "closing" ELSE s.status[x]
          BY <2>3
        <4>4. Distinct(sv, n) /\ n \in Nat /\ p \in 0 .. n - 1 /\ e \in Servers
          BY <1>1
        <4> QED  BY ONLY <2>1, <2>2, <4>1, <4>2, <4>3, <4>4, PlacedBetter
      <3> QED  BY <3>1 DEF PlacedAt
    <2> HIDE DEF C
    <2> DEFINE i == p - Cardinality(C)
    <2>5. i = k - 1 /\ i \in Nat /\ i \in 0 .. n - 1 /\ i + 1 = k /\ f \in BOOLEAN
      BY <1>1, <2>4
    <2>6. method' = [current |-> e, gone |-> f, position |-> i]
      BY <2>3
    <2> HIDE DEF i, f
    <2>7. method' \in MethodType /\ method'.current = e /\ method'.gone = f /\ method'.position = i
      BY <2>5, <2>6, MethodRecord
    <2>8. method'.current = sv[method'.position + 1] /\ method'.position \in 0 .. n - 1
      BY <2>4, <2>5, <2>7
    <2>9. Placed(sink', sv, method'.position, method'.gone)
      BY <2>4, <2>5, <2>7
    <2> QED  BY <2>7, <2>8, <2>9 DEF Follows, sv, n
  <1> QED  BY <1>4, <1>5

LEMMA FollowsFinished ==
    ASSUME config \in Configs, first = config, Failover, Base(sink), Follows(config, sink, method, shutting),
           NEW e \in Servers, Finished(e)
    PROVE  Follows(config, sink', method', shutting)
  <1> DEFINE sv == config.servers  n == Len(sv)  p == method.position
  <1>1. /\ Distinct(sv, n) /\ n \in Nat /\ p \in 0 .. n - 1 /\ p \in Nat
        /\ method.current = sv[p + 1] /\ (~shutting => Placed(sink, sv, p, method.gone)) /\ method \in MethodType
    BY FollowsFacts
  <1>2. /\ sink.status[e] = "closing"
        /\ \A x \in Servers : x # e => sink'.status[x] = sink.status[x]
        /\ IF e \in Range(first.servers) /\ ~shutting /\ OnFinish(method, e)
           THEN sink'.status[e] = "idle" /\ sink'.ordered = PushBack(Remove(sink.ordered, e), e)
           ELSE sink'.status[e] = "none" /\ sink'.ordered = Remove(sink.ordered, e)
    BY FinishedBase
  <1>3. method' = IF method.current = e THEN [method EXCEPT !.gone = TRUE] ELSE method
    BY DEF Finished
  <1>4. /\ method' \in MethodType /\ method'.current = method.current /\ method'.position = p
        /\ method'.gone = IF method.current = e THEN TRUE ELSE method.gone
    <2>1. CASE method.current = e
      <3> DEFINE y == TRUE
      <3>1. method' = [method EXCEPT !.gone = y] /\ y \in BOOLEAN
        BY <1>3, <2>1
      <3> HIDE DEF y
      <3>2. method' \in MethodType /\ method'.current = method.current /\ method'.position = method.position /\ method'.gone = y
        BY <1>1, <3>1 DEF MethodType
      <3> QED  BY <2>1, <3>2 DEF y
    <2>2. CASE method.current # e
      BY <1>1, <1>3, <2>2
    <2> QED  BY <2>1, <2>2
  <1>5. ASSUME ~shutting PROVE Placed(sink', sv, p, method'.gone)
    <2>0. Placed(sink, sv, p, method.gone)
      BY <1>1, <1>5
    <2>1. CASE method.current = e
      <3>1. ~method.gone
        BY <1>1, <1>2, <2>0, <2>1 DEF Placed
      <3>2. e \in Range(first.servers)
        <4>1. p + 1 \in DOMAIN first.servers
          BY <1>1, ConfigFacts
        <4> QED  BY <1>1, <2>1, <4>1 DEF Range
      <3>3. OnFinish(method, e)
        BY <2>1, <3>1 DEF OnFinish, IsCurrent
      <3>4. sink'.status[e] = "idle" /\ sink'.ordered = PushBack(Remove(sink.ordered, e), e) /\ e = sv[p + 1]
        BY <1>1, <1>2, <1>5, <2>1, <3>2, <3>3
      <3> HIDE DEF sv, n, p
      <3>5. Placed(sink', sv, p, TRUE)
        BY <1>1, <1>2, <2>0, <3>4, PlacedAgain
      <3>6. method'.gone = TRUE
        BY <1>4, <2>1
      <3> QED  BY <3>5, <3>6
    <2>2. CASE method.current # e
      <3>1. ~OnFinish(method, e)
        BY <2>2 DEF OnFinish, IsCurrent
      <3>2. sink'.status[e] = "none" /\ sink'.ordered = Remove(sink.ordered, e)
        BY <1>2, <3>1
      <3>3. \A k \in 1 .. p + 1 : sv[k] # e
        <4> TAKE k \in 1 .. p + 1
        <4>1. CASE k = p + 1
          BY <1>1, <2>2, <4>1
        <4>2. CASE k # p + 1
          <5>1. k \in 1 .. p
            BY <1>1, <4>2
          <5> QED  BY <1>2, <2>0, <5>1 DEF Placed
        <4> QED  BY <4>1, <4>2
      <3>4. method'.gone = method.gone
        BY <1>4, <2>2
      <3> HIDE DEF sv, n, p
      <3>5. Placed(sink', sv, p, method.gone)
        BY <1>1, <1>2, <2>0, <3>2, <3>3, PlacedRemoved
      <3> QED  BY <3>4, <3>5
    <2> QED  BY <2>1, <2>2
  <1>6. method'.position \in 0 .. n - 1 /\ method'.current = sv[method'.position + 1]
    BY <1>1, <1>4
  <1>7. ~shutting => Placed(sink', sv, method'.position, method'.gone)
    BY <1>4, <1>5
  <1> QED  BY <1>4, <1>6, <1>7 DEF Follows

LEMMA PlaceStep ==
    ASSUME RingInv, PlaceInv, [Next]_vars
    PROVE  PlaceInv'
  <1>0. reloads \in Nat /\ config \in Configs
    BY DEF RingInv
  <1>1. CASE UNCHANGED vars
    <2>1. UNCHANGED <<config, first, sink, method, shutting, reloads, drifted>>
      BY <1>1 DEF vars
    <2> QED  BY <2>1 DEF PlaceInv, Failover
  <1>2. CASE Reload
    <2>1. reloads' # 0
      BY <1>0, <1>2 DEF Reload
    <2> QED  BY <2>1 DEF PlaceInv
  <1>3. CASE Shutdown
    <2>1. UNCHANGED <<config, first, method, reloads, drifted>> /\ shutting' = TRUE
      BY <1>3 DEF Shutdown
    <2>2. reloads = 0 => \A x \in Servers : sink'.status[x] \in {"none", "closing"}
      BY <1>3, ShutdownFields DEF RingInv
    <2>3. reloads = 0 /\ Failover /\ ~drifted => Follows(config, sink', method, shutting')
      BY <2>1 DEF PlaceInv, Follows
    <2> QED  BY <2>1, <2>2, <2>3 DEF PlaceInv, Failover
  <1>4. ASSUME NEW e \in Servers,
               \/ Handlers(e) \/ QueuePayload(e) \/ TimeoutPending(e)
               \/ LinkStarts(e) \/ LinkFails(e) \/ LinkRefused(e) \/ ServerDies(e) \/ LinkFinishes(e)
        PROVE  PlaceInv'
    <2>1. UNCHANGED <<config, first, reloads, shutting>>
      BY <1>4 DEF Handlers, Started, Failed, Finished, Acked, TimeoutBackoff, QueuePayload, TimeoutPending,
                  LinkStarts, LinkFails, LinkRefused, ServerDies, LinkFinishes, Kept
    <2>2. CASE reloads # 0
      BY <2>1, <2>2 DEF PlaceInv
    <2>3. CASE reloads = 0
      <3>1. Base(sink) /\ first = config /\ first' = config'
        BY <2>1, <2>3 DEF RingInv, PlaceInv
      <3>2. \/ Light(sink, sink') /\ UNCHANGED <<method, drifted>>
            \/ Activates(e)
            \/ Base(sink') /\ (\E next \in Servers : FailsTo(e, next)) /\ UNCHANGED drifted
            \/ Finished(e)
        BY <1>0, <1>4, <3>1, EndpointSteps
      <3>3. shutting => \A x \in Servers : sink.status[x] \in {"none", "closing"}
        BY <2>3 DEF PlaceInv
      <3>4. Activates(e) => ~shutting /\ (~drifted' => ~drifted)
        BY <3>3 DEF Activates, MarkActive
      <3>5. \A next \in Servers : FailsTo(e, next) => ~shutting
        BY <3>3 DEF FailsTo
      <3>6. shutting => \A x \in Servers : sink'.status[x] \in {"none", "closing"}
        <4>1. Light(sink, sink') /\ shutting => \A x \in Servers : sink'.status[x] \in {"none", "closing"}
          BY <3>3 DEF Light
        <4>2. Finished(e) /\ shutting => \A x \in Servers : sink'.status[x] \in {"none", "closing"}
          <5> SUFFICES ASSUME Finished(e), shutting PROVE \A x \in Servers : sink'.status[x] \in {"none", "closing"}
            OBVIOUS
          <5>1. sink'.status[e] = "none" /\ \A x \in Servers : x # e => sink'.status[x] = sink.status[x]
            BY <3>1, FinishedBase
          <5> QED  BY <3>3, <5>1
        <4> QED  BY <3>2, <3>4, <3>5, <4>1, <4>2
      <3>7. ASSUME Failover, ~drifted' PROVE Follows(config, sink', method', shutting)
        <4>1. Finished(e) => UNCHANGED drifted
          BY DEF Finished
        <4>2. Follows(config, sink, method, shutting)
          <5>1. ~drifted
            BY <3>2, <3>4, <3>7, <4>1
          <5> QED  BY <2>3, <3>7, <5>1 DEF PlaceInv
        <4>3. CASE Light(sink, sink') /\ UNCHANGED method
          BY <1>0, <4>2, <4>3, FollowsLight
        <4>4. CASE Activates(e)
          BY <1>0, <3>1, <3>4, <3>7, <4>2, <4>4, FollowsActivates
        <4>5. ASSUME Base(sink'), NEW next \in Servers, FailsTo(e, next) PROVE Follows(config, sink', method', shutting)
          BY <1>0, <3>1, <3>5, <4>2, <4>5, FollowsFails
        <4>6. CASE Finished(e)
          BY <1>0, <3>1, <3>7, <4>2, <4>6, FollowsFinished
        <4> QED  BY <3>2, <4>3, <4>4, <4>5, <4>6
      <3> QED  BY <2>1, <2>3, <3>1, <3>6, <3>7 DEF PlaceInv, Failover
    <2> QED  BY <2>2, <2>3
  <1> QED  BY <1>1, <1>2, <1>3, <1>4 DEF Next

\* failoverPosition is the place of the current endpoint in the list of servers,
\* through every order of failures, recoveries, closings and new endpoints, for any
\* list of servers: until a reload, and as long as onStarted counts no endpoint that
\* it has counted before.
THEOREM PositionIsPlace == Spec => []PositionFollows
  <1>1. Init => RingInv /\ PlaceInv
    BY InitRing, InitPlace
  <1>2. RingInv /\ PlaceInv /\ [Next]_vars => RingInv' /\ PlaceInv'
    BY RingStep, PlaceStep
  <1>3. RingInv /\ PlaceInv => PositionFollows
    <2> SUFFICES ASSUME RingInv, PlaceInv, Failover, reloads = 0, ~drifted
                 PROVE  /\ method.position + 1 \in DOMAIN config.servers
                        /\ config.servers[method.position + 1] = method.current
      BY DEF PositionFollows
    <2>1. config \in Configs /\ Follows(config, sink, method, shutting)
      BY DEF RingInv, PlaceInv
    <2>2. /\ Len(config.servers) \in Nat /\ method.position \in 0 .. Len(config.servers) - 1
          /\ method.current = config.servers[method.position + 1]
      BY <2>1, FollowsFacts
    <2>3. DOMAIN config.servers = 1 .. Len(config.servers)
      BY <2>1, ConfigFacts
    <2> QED  BY <2>2, <2>3
  <1> QED  BY <1>1, <1>2, <1>3, PTL DEF Spec

-----------------------------------------------------------------------------
(* There is a next server. *)

Configured(c, s) == \A x \in Servers : s.status[x] # "none" => \E k \in 1 .. Len(c.servers) : c.servers[k] = x

\* Only servers of the configuration have endpoints.
ListedInv == reloads = 0 => Configured(config, sink)

LEMMA InitListed ==
    ASSUME Init
    PROVE  ListedInv
  <1>1. /\ config \in Configs
        /\ sink = Opened(config, 1) \/ sink = Opened(config, Len(config.servers))
    BY InitSink
  <1>2. Len(config.servers) \in Nat /\ 1 \in 0 .. Len(config.servers) /\ Len(config.servers) \in 0 .. Len(config.servers)
    BY <1>1, ConfigFacts
  <1>3. \A i \in 0 .. Len(config.servers) : \A x \in Servers :
            Opened(config, i).status[x] = IF \E j \in 1 .. i : config.servers[j] = x THEN "idle" ELSE "none"
    BY <1>1, OpenedFields
  <1>4. \A i \in 0 .. Len(config.servers) : \A j \in 1 .. i : j \in 1 .. Len(config.servers)
    BY <1>2
  <1>5. \A i \in 0 .. Len(config.servers) : Configured(config, Opened(config, i))
    BY <1>3, <1>4 DEF Configured
  <1> QED  BY <1>1, <1>2, <1>5 DEF ListedInv

LEMMA ListedStep ==
    ASSUME RingInv, ListedInv, [Next]_vars
    PROVE  ListedInv'
  <1>0. reloads \in Nat /\ config \in Configs
    BY DEF RingInv
  <1>1. CASE UNCHANGED vars
    BY <1>1 DEF ListedInv, vars
  <1>2. CASE Reload
    <2>1. reloads' # 0
      BY <1>0, <1>2 DEF Reload
    <2> QED  BY <2>1 DEF ListedInv
  <1>3. CASE Shutdown
    <2>1. UNCHANGED <<config, reloads>>
      BY <1>3 DEF Shutdown
    <2>2. reloads = 0 => Configured(config, sink')
      BY <1>3, ShutdownFields DEF RingInv, ListedInv, Configured
    <2> QED  BY <2>1, <2>2 DEF ListedInv
  <1>4. ASSUME NEW e \in Servers,
               \/ Handlers(e) \/ QueuePayload(e) \/ TimeoutPending(e)
               \/ LinkStarts(e) \/ LinkFails(e) \/ LinkRefused(e) \/ ServerDies(e) \/ LinkFinishes(e)
        PROVE  ListedInv'
    <2>1. UNCHANGED <<config, reloads>>
      BY <1>4 DEF Handlers, Started, Failed, Finished, Acked, TimeoutBackoff, QueuePayload, TimeoutPending,
                  LinkStarts, LinkFails, LinkRefused, ServerDies, LinkFinishes, Kept
    <2>2. ASSUME reloads = 0 PROVE Configured(config, sink')
      <3>1. Base(sink) /\ Configured(config, sink)
        BY <2>2 DEF RingInv, ListedInv
      <3>2. \/ Light(sink, sink')
            \/ Activates(e)
            \/ \E next \in Servers : FailsTo(e, next)
            \/ Finished(e)
        BY <1>0, <1>4, <3>1, EndpointSteps
      <3>3. CASE Light(sink, sink')
        BY <3>1, <3>3 DEF Light, Configured
      <3>4. CASE Activates(e)
        <4>1. PICK s : Base(s) /\ s.status = sink.status /\ sink.status[e] = "idle" /\ MarkActive(s, e)
          BY <3>4 DEF Activates
        <4>2. \A x \in Servers : sink'.status[x] # "none" => s.status[x] # "none"
          <5>1. IF BetterThanCurrent(s, method, e)
                THEN \A x \in Servers : sink'.status[x] = IF x = e THEN "active"
                                                         ELSE IF x \in Closed(s, e) THEN "closing" ELSE s.status[x]
                ELSE \A x \in Servers : sink'.status[x] = IF x = e THEN "active" ELSE s.status[x]
            BY <4>1, MarkActiveBase
          <5>2. \A x \in Closed(s, e) : s.status[x] # "none"
            BY <4>1, ClosedFacts DEF Endpoints
          <5> QED  BY <4>1, <5>1, <5>2
        <4> QED  BY <3>1, <4>1, <4>2 DEF Configured
      <3>5. ASSUME NEW next \in Servers, FailsTo(e, next) PROVE Configured(config, sink')
        <4>1. \E k \in 1 .. Len(config.servers) : config.servers[k] = next
          BY <1>0, <3>5, ConfigFacts DEF FailsTo
        <4>2. \A x \in Servers : sink'.status[x] # "none" => x = next \/ sink.status[x] # "none"
          BY <3>5 DEF FailsTo
        <4> QED  BY <3>1, <4>1, <4>2 DEF Configured
      <3>6. CASE Finished(e)
        <4>1. sink.status[e] = "closing" /\ \A x \in Servers : x # e => sink'.status[x] = sink.status[x]
          BY <3>1, <3>6, FinishedBase
        <4> QED  BY <3>1, <4>1 DEF Configured
      <3> QED  BY <3>2, <3>3, <3>4, <3>5, <3>6
    <2> QED  BY <2>1, <2>2 DEF ListedInv
  <1> QED  BY <1>1, <1>2, <1>3, <1>4 DEF Next

\* onFail never indexes past the end of the list of servers, for any list: when the
\* last server is the current one, all have endpoints.
THEOREM NeverPastTheEnd == Spec => []NextExists
  <1>1. Init => RingInv /\ PlaceInv /\ ListedInv
    BY InitRing, InitPlace, InitListed
  <1>2. RingInv /\ PlaceInv /\ ListedInv /\ [Next]_vars => RingInv' /\ PlaceInv' /\ ListedInv'
    BY RingStep, PlaceStep, ListedStep
  <1>3. RingInv /\ PlaceInv /\ ListedInv => NextExists
    <2> SUFFICES ASSUME RingInv, PlaceInv, ListedInv, reloads = 0, ~drifted, NEW e \in Servers, sink.status[e] = "active",
                        Failover, IsCurrent(method, e), ~AllInUse(sink)
                 PROVE  method.position + 2 \in DOMAIN config.servers
      BY DEF NextExists, InRange
    <2> DEFINE sv == config.servers  n == Len(sv)  p == method.position
    <2>1. config \in Configs /\ Follows(config, sink, method, shutting) /\ ~shutting /\ Configured(config, sink)
      BY DEF RingInv, PlaceInv, ListedInv
    <2>2. Distinct(sv, n) /\ n \in Nat /\ p \in 0 .. n - 1 /\ Placed(sink, sv, p, method.gone)
      BY <2>1, FollowsFacts
    <2>3. DOMAIN sv = 1 .. n
      BY <2>1, ConfigFacts
    <2>4. ASSUME p + 1 = n PROVE FALSE
      <3> DEFINE S == {sv[j] : j \in 0 + 1 .. n}
      <3>1. S = Endpoints(sink)
        <4>1. \A j : j \in 0 + 1 .. n <=> j \in 1 .. p + 1
          BY <2>2, <2>4
        <4>2. \A j \in 1 .. p + 1 : sv[j] \in Servers /\ sink.status[sv[j]] # "none"
          BY <2>2, <2>4 DEF Distinct, Placed
        <4>3. \A x \in Endpoints(sink) : \E j \in 1 .. n : sv[j] = x
          BY <2>1 DEF Configured, Endpoints
        <4> QED  BY <2>4, <4>1, <4>2, <4>3 DEF Endpoints
      <3>2. Cardinality(S) = n
        <4> DEFINE z == 0
        <4>1. z \in 0 .. n /\ n \in 0 .. n /\ z <= n /\ n \in Nat /\ Distinct(sv, n)
          BY <2>2
        <4> HIDE DEF z, sv, n
        <4>2. Cardinality({sv[j] : j \in z + 1 .. n}) = n - z
          BY ONLY <4>1, PlacesCount
        <4> QED  BY <2>2, <4>2 DEF z
      <3> HIDE DEF S
      <3> QED  BY <3>1, <3>2 DEF AllInUse
    <2> QED  BY <2>2, <2>3, <2>4
  <1> QED  BY <1>1, <1>2, <1>3, PTL DEF Spec

-----------------------------------------------------------------------------
(* The timeouts. *)

NoRepeat(list) == \A i, j \in 1 .. Len(list) : list[i] = list[j] => i = j
Sorted(list, times) == \A i, j \in 1 .. Len(list) : i < j => times[list[i]] <= times[list[j]]

\* A list of timeouts in the order of time, with no entry twice.
InOrder(list, times) == list \in Seq(Owners) /\ NoRepeat(list) /\ Sorted(list, times)

-----------------------------------------------------------------------------
(* Sequences. *)

LEMMA RemovedElements ==
    ASSUME NEW S, NEW list \in Seq(S), NEW at \in 1 .. Len(list)
    PROVE  /\ Lists!RemoveAt(list, at) \in Seq(S)
           /\ Len(Lists!RemoveAt(list, at)) = Len(list) - 1
           /\ \A i \in 1 .. Len(list) - 1 :
                 Lists!RemoveAt(list, at)[i] = IF i < at THEN list[i] ELSE list[i + 1]
  <1> DEFINE a == SubSeq(list, 1, at - 1)
             b == SubSeq(list, at + 1, Len(list))
  <1>1. \A i \in 1 .. Len(list) : list[i] \in S
    BY ElementOfSeq
  <1>2. a \in Seq(S) /\ Len(a) = at - 1 /\ \A i \in 1 .. at - 1 : a[i] = list[i]
    OBVIOUS
  <1>3. b \in Seq(S) /\ Len(b) = Len(list) - at /\ \A i \in 1 .. Len(list) - at : b[i] = list[at + i]
    OBVIOUS
  <1> HIDE DEF a, b
  <1>c. /\ a \o b \in Seq(S) /\ Len(a \o b) = Len(a) + Len(b)
        /\ \A i \in 1 .. Len(a) + Len(b) :
              (a \o b)[i] = IF i <= Len(a) THEN a[i] ELSE b[i - Len(a)]
    BY <1>2, <1>3, ConcatProperties, Zenon
  <1>n. Len(list) \in Nat
    OBVIOUS
  <1>4. a \o b \in Seq(S) /\ Len(a \o b) = Len(list) - 1
    BY <1>2, <1>3, <1>c, <1>n
  <1>5. ASSUME NEW i \in 1 .. Len(list) - 1
        PROVE  (a \o b)[i] = IF i < at THEN list[i] ELSE list[i + 1]
    <2>1. (a \o b)[i] = IF i <= Len(a) THEN a[i] ELSE b[i - Len(a)]
      BY <1>2, <1>3, <1>c, <1>n
    <2>2. CASE i < at
      BY <1>2, <2>1, <2>2
    <2>3. CASE i >= at
      <3>1. i - Len(a) \in 1 .. Len(list) - at /\ at + (i - Len(a)) = i + 1
        BY <1>2, <1>n, <2>3
      <3>2. b[i - Len(a)] = list[i + 1]
        BY <1>3, <3>1
      <3>3. ~(i <= Len(a)) /\ ~(i < at)
        BY <1>2, <1>n, <2>3
      <3> QED  BY <2>1, <3>2, <3>3, Zenon
    <2>4. i < at \/ i >= at
      BY <1>n
    <2> QED  BY <2>2, <2>3, <2>4, Zenon
  <1> QED  BY <1>4, <1>5 DEF Lists!RemoveAt, a, b

LEMMA InsertedElements ==
    ASSUME NEW S, NEW list \in Seq(S), NEW at \in 1 .. Len(list) + 1, NEW e \in S
    PROVE  /\ Lists!InsertAt(list, at, e) \in Seq(S)
           /\ Len(Lists!InsertAt(list, at, e)) = Len(list) + 1
           /\ \A i \in 1 .. Len(list) + 1 :
                 Lists!InsertAt(list, at, e)[i] =
                   IF i < at THEN list[i] ELSE IF i = at THEN e ELSE list[i - 1]
  <1> DEFINE a == SubSeq(list, 1, at - 1)
             b == SubSeq(list, at, Len(list))
             ae == a \o <<e>>
  <1>1. \A i \in 1 .. Len(list) : list[i] \in S
    BY ElementOfSeq
  <1>2. a \in Seq(S) /\ Len(a) = at - 1 /\ \A i \in 1 .. at - 1 : a[i] = list[i]
    OBVIOUS
  <1>3. b \in Seq(S) /\ Len(b) = Len(list) - at + 1
        /\ \A i \in 1 .. Len(list) - at + 1 : b[i] = list[at + i - 1]
    OBVIOUS
  <1> HIDE DEF a, b
  <1>4. ae \in Seq(S) /\ Len(ae) = at /\ ae[at] = e /\ \A i \in 1 .. at - 1 : ae[i] = list[i]
    BY <1>2
  <1> HIDE DEF ae
  <1>c. /\ ae \o b \in Seq(S) /\ Len(ae \o b) = Len(ae) + Len(b)
        /\ \A i \in 1 .. Len(ae) + Len(b) :
              (ae \o b)[i] = IF i <= Len(ae) THEN ae[i] ELSE b[i - Len(ae)]
    BY <1>3, <1>4, ConcatProperties, Zenon
  <1>n. Len(list) \in Nat
    OBVIOUS
  <1>5. ae \o b \in Seq(S) /\ Len(ae \o b) = Len(list) + 1
    BY <1>3, <1>4, <1>c, <1>n
  <1>6. ASSUME NEW i \in 1 .. Len(list) + 1
        PROVE  (ae \o b)[i] = IF i < at THEN list[i] ELSE IF i = at THEN e ELSE list[i - 1]
    <2>1. (ae \o b)[i] = IF i <= Len(ae) THEN ae[i] ELSE b[i - Len(ae)]
      BY <1>3, <1>4, <1>c, <1>n
    <2>2. CASE i <= at
      BY <1>4, <2>1, <2>2
    <2>3. CASE i > at
      <3>1. i - Len(ae) \in 1 .. Len(list) - at + 1 /\ at + (i - Len(ae)) - 1 = i - 1
        BY <1>4, <1>n, <2>3
      <3>2. b[i - Len(ae)] = list[i - 1]
        BY <1>3, <3>1
      <3>3. ~(i <= Len(ae)) /\ ~(i < at) /\ i # at
        BY <1>4, <1>n, <2>3
      <3> QED  BY <2>1, <3>2, <3>3, Zenon
    <2>4. i <= at \/ i > at
      BY <1>n
    <2> QED  BY <2>2, <2>3, <2>4, Zenon
  <1> QED  BY <1>5, <1>6 DEF Lists!InsertAt, a, b, ae

LEMMA SetOfList ==
    ASSUME NEW S, NEW list \in Seq(S)
    PROVE  Lists!ToSet(list) = {list[i] : i \in 1 .. Len(list)}
  BY DEF Lists!ToSet

-----------------------------------------------------------------------------
(* The two operations on the list. *)

\* Taking an entry out leaves the others in their order.
LEMMA RemovedGood ==
    ASSUME NEW list, NEW times, InOrder(list, times), NEW o
    PROVE  /\ InOrder(Removed(list, o), times)
           /\ Lists!ToSet(Removed(list, o)) = Lists!ToSet(list) \ {o}
  <1>1. list \in Seq(Owners) /\ Len(list) \in Nat /\ NoRepeat(list) /\ Sorted(list, times)
        /\ DOMAIN list = 1 .. Len(list)
    BY DEF InOrder
  <1>2. CASE o \notin Lists!ToSet(list)
    BY <1>2 DEF Removed
  <1>3. CASE o \in Lists!ToSet(list)
    <2> DEFINE at == CHOOSE i \in DOMAIN list : list[i] = o
               r  == Lists!RemoveAt(list, at)
    <2>1. at \in 1 .. Len(list) /\ list[at] = o
      BY <1>1, <1>3, SetOfList
    <2> HIDE DEF at
    <2>2. /\ r \in Seq(Owners) /\ Len(r) = Len(list) - 1
          /\ \A i \in 1 .. Len(list) - 1 : r[i] = IF i < at THEN list[i] ELSE list[i + 1]
      BY <1>1, <2>1, RemovedElements
    <2> HIDE DEF r
    <2>3. NoRepeat(r)
      BY <1>1, <2>1, <2>2 DEF NoRepeat
    <2>4. Sorted(r, times)
      BY <1>1, <2>1, <2>2 DEF Sorted
    <2>5. ASSUME NEW p PROVE p \in Lists!ToSet(r) <=> p \in Lists!ToSet(list) /\ p # o
      <3>1. ASSUME p \in Lists!ToSet(r) PROVE p \in Lists!ToSet(list) /\ p # o
        <4>1. PICK i \in 1 .. Len(list) - 1 : p = r[i]
          BY <2>2, <3>1, SetOfList
        <4>2. PICK k \in 1 .. Len(list) : p = list[k] /\ k # at
          BY <1>1, <2>1, <2>2, <4>1
        <4> QED  BY <1>1, <2>1, <4>2, SetOfList DEF NoRepeat
      <3>2. ASSUME p \in Lists!ToSet(list), p # o PROVE p \in Lists!ToSet(r)
        <4>1. PICK k \in 1 .. Len(list) : p = list[k]
          BY <1>1, <3>2, SetOfList
        <4>2. \E i \in 1 .. Len(list) - 1 : r[i] = p
          <5>1. CASE k < at
            BY <1>1, <2>1, <2>2, <4>1, <5>1
          <5>2. CASE k > at
            <6>1. k - 1 \in 1 .. Len(list) - 1 /\ r[k - 1] = list[k]
              BY <1>1, <2>1, <2>2, <5>2
            <6> QED  BY <4>1, <6>1
          <5> QED  BY <2>1, <3>2, <4>1, <5>1, <5>2
        <4> QED  BY <2>2, <4>2, SetOfList
      <3> QED  BY <3>1, <3>2
    <2> QED  BY <1>3, <2>2, <2>3, <2>4, <2>5 DEF InOrder, Removed, at, r
  <1> QED  BY <1>2, <1>3

\* A timeout that is not in the list goes behind all that are not later.
LEMMA InsertedGood ==
    ASSUME NEW list, InOrder(list, due), due \in [Owners -> Delays],
           NEW o \in Owners, o \notin Lists!ToSet(list), NEW delay \in Delays
    PROVE  /\ InOrder(Inserted(list, o, delay), [due EXCEPT ![o] = delay])
           /\ Lists!ToSet(Inserted(list, o, delay)) = Lists!ToSet(list) \cup {o}
  <1> USE TimeoutAssumption
  <1>1. list \in Seq(Owners) /\ Len(list) \in Nat /\ NoRepeat(list) /\ Sorted(list, due)
        /\ DOMAIN list = 1 .. Len(list)
    BY DEF InOrder
  <1>2. \A i \in 1 .. Len(list) : list[i] \in Owners /\ list[i] # o
    BY <1>1, SetOfList, ElementOfSeq
  <1>n. delay \in Int /\ \A p \in Owners : due[p] \in Int
    BY DEF Delays
  <1> DEFINE later == {i \in DOMAIN list : due[list[i]] > delay}
             at == IF later = {} THEN Len(list) + 1 ELSE CHOOSE i \in later : \A j \in later : i <= j
             r  == Lists!InsertAt(list, at, o)
             times == [due EXCEPT ![o] = delay]
  <1>3. /\ at \in 1 .. Len(list) + 1
        /\ \A i \in 1 .. Len(list) : i < at => due[list[i]] <= delay
        /\ \A i \in 1 .. Len(list) : i >= at => due[list[i]] > delay
    <2>1. CASE later = {}
      BY <1>1, <1>2, <1>n, <2>1
    <2>2. CASE later # {}
      <3>1. later \subseteq Nat /\ later # {}
        BY <1>1, <2>2
      <3>2. \E i \in later : \A j \in later : i <= j
        <4> HIDE DEF later
        <4>1. PICK i \in later : \A j \in later : ~(<<j, i>> \in OpToRel(<, Nat))
          BY <3>1, NatLessThanWellFounded, WFMin
        <4>2. ASSUME NEW j \in later PROVE i <= j
          <5>1. i \in Nat /\ j \in Nat
            BY <3>1
          <5>2. ~(<<j, i>> \in OpToRel(<, Nat))
            BY <4>1
          <5>3. ~(j < i)
            BY <5>1, <5>2 DEF OpToRel
          <5> QED  BY <5>1, <5>3
        <4> QED  BY <4>2
      <3>3. at \in later /\ \A j \in later : at <= j
        BY <2>2, <3>2
      <3>4. at \in 1 .. Len(list) /\ due[list[at]] > delay
        BY <1>1, <3>3
      <3>5. ASSUME NEW i \in 1 .. Len(list), i < at PROVE due[list[i]] <= delay
        <4>1. i \notin later
          <5>1. i \in later => at <= i
            BY <3>3
          <5> HIDE DEF later, at
          <5>2. at \in Nat /\ i \in Nat
            BY <1>1, <3>1, <3>3
          <5> QED  BY <3>5, <5>1, <5>2
        <4>2. ~(due[list[i]] > delay)
          BY <1>1, <4>1
        <4> QED  BY <1>2, <1>n, <4>2
      <3>6. ASSUME NEW i \in 1 .. Len(list), i >= at PROVE due[list[i]] > delay
        <4>1. due[list[at]] <= due[list[i]]
          <5> HIDE DEF at
          <5>1. due[list[at]] \in Int
            BY <1>2, <1>n, <3>4
          <5>2. CASE i = at
            BY <5>1, <5>2
          <5>3. CASE at < i
            BY <1>1, <3>4, <5>3 DEF Sorted
          <5> QED  BY <3>4, <3>6, <5>2, <5>3
        <4> QED  BY <1>2, <1>n, <3>4, <4>1
      <3> QED  BY <3>4, <3>5, <3>6
    <2> QED  BY <2>1, <2>2
  <1> HIDE DEF at
  <1>4. /\ r \in Seq(Owners) /\ Len(r) = Len(list) + 1
        /\ \A i \in 1 .. Len(list) + 1 :
              r[i] = IF i < at THEN list[i] ELSE IF i = at THEN o ELSE list[i - 1]
    BY <1>1, <1>3, InsertedElements
  <1> HIDE DEF r
  <1>5. NoRepeat(r)
    BY <1>1, <1>2, <1>3, <1>4 DEF NoRepeat
  <1>6. times[o] = delay /\ \A i \in 1 .. Len(list) : times[list[i]] = due[list[i]]
    BY <1>2
  <1> HIDE DEF times
  <1>7. Sorted(r, times)
    <2> SUFFICES ASSUME NEW i \in 1 .. Len(r), NEW j \in 1 .. Len(r), i < j
                 PROVE  times[r[i]] <= times[r[j]]
      BY DEF Sorted
    <2>1. CASE j < at
      BY <1>1, <1>3, <1>4, <1>6, <2>1 DEF Sorted
    <2>2. CASE j = at
      BY <1>1, <1>3, <1>4, <1>6, <2>2
    <2>3. CASE i = at
      <3>1. j - 1 \in 1 .. Len(list) /\ j - 1 >= at /\ r[j] = list[j - 1] /\ r[i] = o
        BY <1>1, <1>3, <1>4, <2>3
      <3>2. due[list[j - 1]] > delay
        BY <1>3, <3>1
      <3> QED  BY <1>2, <1>6, <1>n, <3>1, <3>2
    <2>4. CASE i < at /\ at < j
      <3>1. /\ j - 1 \in 1 .. Len(list) /\ j - 1 >= at /\ r[j] = list[j - 1]
            /\ i \in 1 .. Len(list) /\ r[i] = list[i]
        BY <1>1, <1>3, <1>4, <2>4
      <3>2. due[list[j - 1]] > delay /\ due[list[i]] <= delay
        BY <1>3, <2>4, <3>1
      <3> QED  BY <1>2, <1>6, <1>n, <3>1, <3>2
    <2>5. CASE at < i
      <3>1. /\ j - 1 \in 1 .. Len(list) /\ r[j] = list[j - 1]
            /\ i - 1 \in 1 .. Len(list) /\ r[i] = list[i - 1] /\ i - 1 < j - 1
        BY <1>1, <1>3, <1>4, <2>5
      <3> QED  BY <1>1, <1>6, <3>1 DEF Sorted
    <2> QED  BY <1>3, <1>4, <2>1, <2>2, <2>3, <2>4, <2>5
  <1>8. ASSUME NEW p PROVE p \in Lists!ToSet(r) <=> p \in Lists!ToSet(list) \/ p = o
    <2>1. ASSUME p \in Lists!ToSet(r) PROVE p \in Lists!ToSet(list) \/ p = o
      <3>1. PICK i \in 1 .. Len(list) + 1 : p = r[i]
        BY <1>4, <2>1, SetOfList
      <3>2. p = o \/ \E k \in 1 .. Len(list) : p = list[k]
        BY <1>1, <1>3, <1>4, <3>1
      <3> QED  BY <1>1, <3>2, SetOfList
    <2>2. ASSUME p \in Lists!ToSet(list) PROVE p \in Lists!ToSet(r)
      <3>1. PICK k \in 1 .. Len(list) : p = list[k]
        BY <1>1, <2>2, SetOfList
      <3>2. \E i \in 1 .. Len(list) + 1 : r[i] = p
        <4>1. CASE k < at
          BY <1>1, <1>3, <1>4, <3>1, <4>1
        <4>2. CASE k >= at
          <5>1. k + 1 \in 1 .. Len(list) + 1 /\ r[k + 1] = list[k]
            BY <1>1, <1>3, <1>4, <4>2
          <5> QED  BY <3>1, <5>1
        <4> QED  BY <1>3, <4>1, <4>2
      <3> QED  BY <1>4, <3>2, SetOfList
    <2>3. o \in Lists!ToSet(r)
      BY <1>3, <1>4, SetOfList
    <2> QED  BY <2>1, <2>2, <2>3
  <1>9. Inserted(list, o, delay) = r
    BY DEF Inserted, r, at
  <1>10. Lists!ToSet(r) = Lists!ToSet(list) \cup {o}
    BY <1>8
  <1> QED  BY <1>4, <1>5, <1>7, <1>9, <1>10 DEF InOrder, times

\* The first entry of a good list is the first to be due.
LEMMA SoonestIsHead ==
    ASSUME NEW list, NEW times \in [Owners -> Delays], InOrder(list, times), NEW o \in Lists!ToSet(list)
    PROVE  list # <<>> /\ Head(list) \in Owners /\ times[Head(list)] <= times[o]
  <1>1. PICK i \in 1 .. Len(list) : o = list[i]
    BY SetOfList DEF InOrder
  <1>2. list \in Seq(Owners) /\ Len(list) \in Nat /\ list # <<>> /\ Head(list) = list[1]
    BY <1>1 DEF InOrder
  <1>3. list[1] \in Owners /\ times[list[1]] \in Int
    BY <1>1, <1>2, TimeoutAssumption DEF Delays
  <1>4. CASE i = 1
    BY <1>1, <1>2, <1>3, <1>4
  <1>5. CASE i > 1
    BY <1>1, <1>2, <1>3, <1>5 DEF InOrder, Sorted
  <1> QED  BY <1>1, <1>2, <1>4, <1>5

\* The list without its first entry.
LEMMA TailGood ==
    ASSUME NEW list, NEW times, InOrder(list, times), list # <<>>
    PROVE  /\ InOrder(Tail(list), times)
           /\ Lists!ToSet(Tail(list)) = Lists!ToSet(list) \ {Head(list)}
  <1> DEFINE r == Tail(list)
  <1>1. list \in Seq(Owners) /\ Len(list) \in Nat \ {0} /\ NoRepeat(list) /\ Sorted(list, times)
        /\ Head(list) = list[1]
    BY DEF InOrder
  <1>2. r \in Seq(Owners) /\ Len(r) = Len(list) - 1 /\ \A i \in 1 .. Len(list) - 1 : r[i] = list[i + 1]
    BY <1>1
  <1> HIDE DEF r
  <1>3. NoRepeat(r) /\ Sorted(r, times)
    <2>1. ASSUME NEW i \in 1 .. Len(r), NEW j \in 1 .. Len(r)
          PROVE  /\ i + 1 \in 1 .. Len(list) /\ j + 1 \in 1 .. Len(list)
                 /\ r[i] = list[i + 1] /\ r[j] = list[j + 1]
                 /\ (i + 1 = j + 1 => i = j) /\ (i < j => i + 1 < j + 1)
      BY <1>1, <1>2
    <2>2. NoRepeat(r)
      BY <1>1, <2>1 DEF NoRepeat
    <2>3. Sorted(r, times)
      BY <1>1, <2>1 DEF Sorted
    <2> QED  BY <2>2, <2>3
  <1>4. ASSUME NEW p PROVE p \in Lists!ToSet(r) <=> p \in Lists!ToSet(list) /\ p # list[1]
    <2>1. ASSUME p \in Lists!ToSet(r) PROVE p \in Lists!ToSet(list) /\ p # list[1]
      <3>1. PICK i \in 1 .. Len(list) - 1 : p = list[i + 1]
        BY <1>2, <2>1, SetOfList
      <3>2. i + 1 \in 1 .. Len(list) /\ i + 1 # 1 /\ 1 \in 1 .. Len(list)
        BY <1>1
      <3>3. p # list[1]
        BY <1>1, <3>1, <3>2 DEF NoRepeat
      <3> QED  BY <1>1, <3>1, <3>2, <3>3, SetOfList
    <2>2. ASSUME p \in Lists!ToSet(list), p # list[1] PROVE p \in Lists!ToSet(r)
      <3>1. PICK k \in 1 .. Len(list) : p = list[k]
        BY <1>1, <2>2, SetOfList
      <3>2. k - 1 \in 1 .. Len(list) - 1 /\ r[k - 1] = list[k]
        BY <1>1, <1>2, <2>2, <3>1
      <3> QED  BY <1>2, <3>1, <3>2, SetOfList
    <2> QED  BY <2>1, <2>2
  <1> QED  BY <1>1, <1>2, <1>3, <1>4 DEF InOrder, r

-----------------------------------------------------------------------------
(* The steps. *)

TimeoutsOK ==
    /\ Listed \subseteq hasFunc /\ hasFunc \subseteq Owners
    /\ due \in [Owners -> Delays]
    /\ timer \in Delays \cup {Stopped}
    /\ tick \in BOOLEAN /\ pc \in {"select", "process", "next"}

\* What ProcessTimeouts takes its first timeout from is never empty.
TimeoutInv ==
    /\ TimeoutsOK
    /\ InOrder(timeoutList, due)
    /\ pc = "process" => timeoutList # <<>>
    /\ NeverForgotten

LEMMA InitTimeouts == TimeoutInit => TimeoutInv
  <1> SUFFICES ASSUME TimeoutInit PROVE TimeoutInv
    OBVIOUS
  <1> USE TimeoutAssumption
  <1>1. timeoutList = <<>> /\ timeoutList \in Seq(Owners) /\ Len(timeoutList) = 0
    BY DEF TimeoutInit
  <1>2. Listed = {}
    <2>1. 1 .. Len(timeoutList) = {}
      BY <1>1
    <2>2. \A p : p \notin Lists!ToSet(timeoutList)
      BY <1>1, <2>1, SetOfList
    <2> QED  BY <2>2 DEF Listed
  <1>3. tick \in BOOLEAN
    BY Zenon DEF TimeoutInit
  <1>4. TimeoutsOK
    BY <1>2, <1>3 DEF TimeoutInit, TimeoutsOK, Delays, Stopped
  <1>5. InOrder(timeoutList, due)
    BY <1>1 DEF InOrder, NoRepeat, Sorted
  <1> QED  BY <1>1, <1>4, <1>5 DEF TimeoutInv, TimeoutInit, NeverForgotten

\* resetTimeoutTimer makes up for whatever was missed.
LEMMA ResetEnough ==
    ASSUME NEW list, NEW times \in [Owners -> Delays], InOrder(list, times), ResetTimer(list, times)
    PROVE  /\ timer' \in Delays \cup {Stopped}
           /\ list # <<>> => timer' # Stopped /\ timer' <= times[Head(list)]
  <1>1. list # <<>> => Head(list) \in Owners
    BY DEF InOrder
  <1> QED  BY <1>1, TimeoutAssumption DEF ResetTimer, Delays, Stopped

\* RegisterTimeout, from a handler or a callback, for what is then in the list.
LEMMA RegisterStep ==
    ASSUME TimeoutInv, NEW o \in Owners, NEW delay \in Delays, NEW list, InOrder(list, due),
           Lists!ToSet(list) \subseteq hasFunc, RegisterTimeout(o, delay, list)
    PROVE  /\ due' \in [Owners -> Delays] /\ InOrder(timeoutList, due)'
           /\ Lists!ToSet(timeoutList') \subseteq Lists!ToSet(list) \cup {o}
           /\ timer' \in Delays \cup {Stopped}
           /\ timeoutList' # <<>> => timer' # Stopped /\ timer' <= due'[Head(timeoutList')]
  <1> DEFINE without == IF o \in hasFunc THEN Removed(list, o) ELSE list
  <1>1. InOrder(without, due) /\ Lists!ToSet(without) \subseteq Lists!ToSet(list) /\ o \notin Lists!ToSet(without)
    BY RemovedGood
  <1> HIDE DEF without
  <1>2. due \in [Owners -> Delays]
    BY DEF TimeoutInv, TimeoutsOK
  <1>3. timeoutList' = Inserted(without, o, delay) /\ due' = [due EXCEPT ![o] = delay]
        /\ ResetTimer(timeoutList', due')
    BY DEF RegisterTimeout, without
  <1>4. InOrder(timeoutList', due') /\ Lists!ToSet(timeoutList') = Lists!ToSet(without) \cup {o}
    BY <1>1, <1>2, <1>3, InsertedGood
  <1>5. due' \in [Owners -> Delays]
    BY <1>2, <1>3
  <1> QED  BY <1>1, <1>3, <1>4, <1>5, ResetEnough DEF InOrder, Sorted

LEMMA TimeoutStep == TimeoutInv /\ [TimeoutNext]_timeoutVars => TimeoutInv'
  <1> SUFFICES ASSUME TimeoutInv, [TimeoutNext]_timeoutVars PROVE TimeoutInv'
    OBVIOUS
  <1> USE TimeoutAssumption
  <1>i. /\ TimeoutsOK /\ InOrder(timeoutList, due) /\ NeverForgotten
        /\ due \in [Owners -> Delays] /\ Listed = Lists!ToSet(timeoutList) /\ Listed \subseteq hasFunc
    BY DEF TimeoutInv, TimeoutsOK, Listed
  <1>r. ASSUME NEW o PROVE /\ InOrder(Removed(timeoutList, o), due)
                           /\ Lists!ToSet(Removed(timeoutList, o)) = Listed \ {o}
    BY <1>i, RemovedGood
  <1>g. ASSUME due' = due, InOrder(timeoutList', due) PROVE InOrder(timeoutList, due)'
    BY <1>g DEF InOrder, Sorted, NoRepeat
  <1>1. CASE Handler
    <2>0. pc = "select" /\ UNCHANGED <<tick, pc>>
      BY <1>1 DEF Handler
    <2>1. PICK o \in Owners :
            \/ \E delay \in Delays : RegisterTimeout(o, delay, timeoutList) /\ hasFunc' = hasFunc \cup {o}
            \/ ClearTimeout(o, timeoutList) /\ UNCHANGED hasFunc
            \/ Forget(o, timeoutList) /\ hasFunc' = hasFunc \ {o}
      BY <1>1 DEF Handler
    <2>2. ASSUME NEW delay \in Delays, RegisterTimeout(o, delay, timeoutList), hasFunc' = hasFunc \cup {o}
          PROVE  TimeoutInv'
      <3>1. /\ due' \in [Owners -> Delays] /\ InOrder(timeoutList, due)'
            /\ Lists!ToSet(timeoutList') \subseteq Listed \cup {o}
            /\ timer' \in Delays \cup {Stopped}
            /\ timeoutList' # <<>> => timer' # Stopped /\ timer' <= due'[Head(timeoutList')]
        BY <1>i, <2>2, RegisterStep
      <3> QED  BY <1>i, <2>0, <2>2, <3>1 DEF TimeoutInv, TimeoutsOK, Listed, NeverForgotten
    <2>3. ASSUME ClearTimeout(o, timeoutList), UNCHANGED hasFunc PROVE TimeoutInv'
      <3>1. /\ UNCHANGED <<due, timer>> /\ InOrder(timeoutList', due)
            /\ Lists!ToSet(timeoutList') \subseteq Listed
        BY <1>i, <1>r, <2>3 DEF ClearTimeout
      <3>2. InOrder(timeoutList, due)'
        BY <1>g, <3>1
      <3>3. NeverForgotten'
        <4> SUFFICES ASSUME timeoutList' # <<>>, ~tick
                     PROVE  timer # Stopped /\ timer <= due[Head(timeoutList')]
          BY <2>0, <3>1 DEF NeverForgotten
        <4>1. Head(timeoutList') \in Lists!ToSet(timeoutList')
          BY <3>1, SetOfList DEF InOrder
        <4>2. timeoutList # <<>> /\ Head(timeoutList) \in Owners
              /\ due[Head(timeoutList)] <= due[Head(timeoutList')]
          BY <1>i, <3>1, <4>1, SoonestIsHead
        <4>3. timer # Stopped /\ timer <= due[Head(timeoutList)]
          BY <1>i, <2>0, <4>2 DEF NeverForgotten
        <4>4. Head(timeoutList') \in Owners
          BY <3>1 DEF InOrder
        <4> QED  BY <1>i, <4>2, <4>3, <4>4 DEF TimeoutsOK, Delays, Stopped
      <3> QED  BY <1>i, <2>0, <2>3, <3>1, <3>2, <3>3 DEF TimeoutInv, TimeoutsOK, Listed
    <2>4. ASSUME Forget(o, timeoutList), hasFunc' = hasFunc \ {o} PROVE TimeoutInv'
      <3>1. /\ UNCHANGED due /\ InOrder(timeoutList', due)
            /\ Lists!ToSet(timeoutList') \subseteq Listed \ {o}
        BY <1>i, <1>r, <2>4 DEF Forget
      <3>2. InOrder(timeoutList, due)'
        BY <1>g, <3>1
      <3>3. CASE o \in hasFunc
        <4>1. /\ timer' \in Delays \cup {Stopped}
              /\ timeoutList' # <<>> => timer' # Stopped /\ timer' <= due[Head(timeoutList')]
          BY <1>i, <2>4, <3>1, <3>3, ResetEnough DEF Forget
        <4> QED  BY <1>i, <2>0, <2>4, <3>1, <3>2, <4>1 DEF TimeoutInv, TimeoutsOK, Listed, NeverForgotten
      <3>4. CASE o \notin hasFunc
        <4>1. UNCHANGED <<timeoutList, timer>>
          BY <2>4, <3>4 DEF Forget
        <4> QED  BY <1>i, <2>0, <2>4, <3>1, <3>2, <4>1 DEF TimeoutInv, TimeoutsOK, Listed, NeverForgotten
      <3> QED  BY <3>3, <3>4
    <2> QED  BY <2>1, <2>2, <2>3, <2>4
  <1>2. CASE TakeTick
    <2>1. UNCHANGED <<timeoutList, due, hasFunc, timer>> /\ tick' = FALSE
          /\ pc' = IF timeoutList = <<>> THEN "select" ELSE "process"
      BY <1>2 DEF TakeTick
    <2>2. InOrder(timeoutList, due)' /\ tick' \in BOOLEAN
      BY <1>g, <1>i, <2>1
    <2> QED  BY <1>i, <2>1, <2>2 DEF TimeoutInv, TimeoutsOK, Listed, NeverForgotten
  <1>3. CASE CallBack
    <2> DEFINE rest == Tail(timeoutList)
    <2>1. timeoutList # <<>> /\ pc' = "next" /\ UNCHANGED tick
      BY <1>3 DEF CallBack, TimeoutInv
    <2>2. InOrder(rest, due) /\ Lists!ToSet(rest) = Listed \ {Head(timeoutList)}
      BY <1>i, <2>1, TailGood
    <2>3. ASSUME NEW o \in Owners, NEW delay \in Delays, RegisterTimeout(o, delay, rest),
                 hasFunc' = (hasFunc \ {Head(timeoutList)}) \cup {o}
          PROVE  TimeoutInv'
      <3>1. /\ due' \in [Owners -> Delays] /\ InOrder(timeoutList, due)'
            /\ Lists!ToSet(timeoutList') \subseteq Lists!ToSet(rest) \cup {o}
            /\ timer' \in Delays \cup {Stopped}
        BY <1>i, <2>2, <2>3, RegisterStep
      <3> QED  BY <1>i, <2>1, <2>2, <2>3, <3>1 DEF TimeoutInv, TimeoutsOK, Listed, NeverForgotten
    <2>4. ASSUME NEW o \in Owners,
                 timeoutList' = IF o \in hasFunc THEN Removed(rest, o) ELSE rest,
                 hasFunc' = hasFunc \ {Head(timeoutList)}, UNCHANGED <<due, timer>>
          PROVE  TimeoutInv'
      <3>1. InOrder(timeoutList', due) /\ Lists!ToSet(timeoutList') \subseteq Lists!ToSet(rest)
        BY <2>2, <2>4, RemovedGood
      <3>2. InOrder(timeoutList, due)'
        BY <1>g, <2>4, <3>1
      <3> QED  BY <1>i, <2>1, <2>2, <2>4, <3>1, <3>2 DEF TimeoutInv, TimeoutsOK, Listed, NeverForgotten
    <2> QED  BY <1>3, <2>3, <2>4 DEF CallBack
  <1>4. CASE NextDue
    <2>1. UNCHANGED <<timeoutList, due, hasFunc, tick>>
      BY <1>4 DEF NextDue
    <2>2. InOrder(timeoutList, due)'
      BY <1>g, <1>i, <2>1
    <2>3. CASE timeoutList # <<>> /\ due[Head(timeoutList)] = 0
      BY <1>4, <1>i, <2>1, <2>2, <2>3 DEF NextDue, TimeoutInv, TimeoutsOK, Listed, NeverForgotten
    <2>4. CASE ~(timeoutList # <<>> /\ due[Head(timeoutList)] = 0)
      <3>1. pc' = "select" /\ ResetTimer(timeoutList, due)
        BY <1>4, <2>4 DEF NextDue
      <3>2. /\ timer' \in Delays \cup {Stopped}
            /\ timeoutList # <<>> => timer' # Stopped /\ timer' <= due[Head(timeoutList)]
        BY <1>i, <3>1, ResetEnough
      <3> QED  BY <1>i, <2>1, <2>2, <3>1, <3>2 DEF TimeoutInv, TimeoutsOK, Listed, NeverForgotten
    <2> QED  BY <2>3, <2>4
  <1>5. CASE Fire
    <2>1. UNCHANGED <<timeoutList, due, hasFunc, pc>> /\ timer' = Stopped /\ tick' = TRUE
      BY <1>5 DEF Fire
    <2>2. InOrder(timeoutList, due)' /\ tick' \in BOOLEAN
      BY <1>g, <1>i, <2>1
    <2> QED  BY <1>i, <2>1, <2>2 DEF TimeoutInv, TimeoutsOK, Listed, NeverForgotten
  <1>6. CASE TimePasses
    <2>1. /\ timer # 0 /\ timer' = Less(timer) /\ due' = [o \in Owners |-> Less(due[o])]
          /\ UNCHANGED <<timeoutList, hasFunc, tick, pc>>
      BY <1>6 DEF TimePasses
    <2>2. due' \in [Owners -> Delays] /\ timer' \in Delays \cup {Stopped}
      BY <1>i, <2>1 DEF TimeoutsOK, Delays, Stopped, Less
    <2>3. InOrder(timeoutList, due)'
      <3>1. \A i \in 1 .. Len(timeoutList) : timeoutList[i] \in Owners
        BY <1>i DEF InOrder
      <3>2. ASSUME NEW o \in Owners, NEW p \in Owners, due[o] <= due[p] PROVE due'[o] <= due'[p]
        BY <1>i, <2>1, <3>2 DEF Less, Delays
      <3>3. Sorted(timeoutList', due')
        BY <1>i, <2>1, <3>1, <3>2 DEF InOrder, Sorted
      <3> QED  BY <1>i, <2>1, <3>3 DEF InOrder, NoRepeat, Sorted
    <2>4. NeverForgotten'
      <3> SUFFICES ASSUME pc = "select", timeoutList # <<>>, ~tick
                   PROVE  timer' # Stopped /\ timer' <= due'[Head(timeoutList)]
        BY <2>1 DEF NeverForgotten
      <3>1. Head(timeoutList) \in Owners
        BY <1>i DEF InOrder
      <3>2. timer # Stopped /\ timer <= due[Head(timeoutList)]
        BY <1>i DEF NeverForgotten
      <3> QED  BY <1>i, <2>1, <3>1, <3>2 DEF TimeoutsOK, Delays, Stopped, Less
    <2> QED  BY <1>i, <2>1, <2>2, <2>3, <2>4 DEF TimeoutInv, TimeoutsOK, Listed
  <1>7. CASE UNCHANGED timeoutVars
    <2>1. UNCHANGED <<timeoutList, due, hasFunc, timer, tick, pc>>
      BY <1>7 DEF timeoutVars
    <2>2. InOrder(timeoutList, due)'
      BY <1>g, <1>i, <2>1
    <2> QED  BY <1>i, <2>1, <2>2 DEF TimeoutInv, TimeoutsOK, Listed, NeverForgotten
  <1> QED  BY <1>1, <1>2, <1>3, <1>4, <1>5, <1>6, <1>7 DEF TimeoutNext

\* sink_timeout.go, RegisterTimeout and ProcessTimeouts: the list is in the order of
\* time whatever handlers and callbacks register and clear, so that the timer, which
\* is set for the first entry only, serves all of them.
THEOREM TimeoutsSorted == TimeoutSpec => []SoonestFirst
  <1>1. TimeoutInv => SoonestFirst
    BY DEF TimeoutInv, InOrder, Sorted, SoonestFirst
  <1> QED  BY InitTimeouts, TimeoutStep, <1>1, PTL DEF TimeoutSpec

\* sink_timeout.go: although a timer that is stopped or set again may leave a tick,
\* and clearing a timeout leaves the timer alone, the publisher's select always has a
\* tick to wait for that comes no later than the first timeout of the list.
THEOREM TimeoutsServed == TimeoutSpec => []NeverForgotten
  <1>1. TimeoutInv => NeverForgotten
    BY DEF TimeoutInv
  <1> QED  BY InitTimeouts, TimeoutStep, <1>1, PTL DEF TimeoutSpec
=============================================================================
