---------------------------- MODULE InternalList ----------------------------
(***************************************************************************)
(* internallist/list.go: a ring of intrusive elements around the root of   *)
(* the list.  The operators take a list as a record of its pointers and    *)
(* change them in the order the code does, so that they also show what     *)
(* becomes of a ring whose elements are not used as intended.              *)
(***************************************************************************)
EXTENDS Integers, Sequences, Functions

CONSTANT Elements

Root == "root"
Nil == "nil"
Cells == {Root} \cup Elements

ASSUME ListAssumption == Root \notin Elements /\ Nil \notin Elements

\* Init and lazyInit: in holds the elements whose list pointer is this list.
EmptyList ==
    [next |-> [c \in Cells |-> IF c = Root THEN Root ELSE Nil],
     prev |-> [c \in Cells |-> IF c = Root THEN Root ELSE Nil],
     in |-> {}, len |-> 0]

insert(l, e, at) ==
    LET n == l.next[at]
    IN  [l EXCEPT !.next[at] = e, !.prev[e] = at, !.next[e] = n, !.prev[n] = e,
                  !.in = @ \cup {e}, !.len = @ + 1]

\* Mutant of remove: the way back leads past the list.
removeForward(l, e) ==
    [l EXCEPT !.next[l.prev[e]] = l.next[e],
              !.next[e] = Nil, !.prev[e] = Nil, !.in = @ \ {e}, !.len = @ - 1]

remove(l, e) ==
    [l EXCEPT !.next[l.prev[e]] = l.next[e], !.prev[l.next[e]] = l.prev[e],
              !.next[e] = Nil, !.prev[e] = Nil, !.in = @ \ {e}, !.len = @ - 1]

Remove(l, e) == IF e \in l.in THEN remove(l, e) ELSE l

PushFront(l, e) == insert(l, e, Root)
PushBack(l, e)  == insert(l, e, l.prev[Root])

\* An element that is in no list is not added.
MoveAfter(l, e, mark) ==
    IF e \notin l.in \/ e = mark \/ mark \notin l.in THEN l ELSE insert(remove(l, e), e, mark)

\* The elements that Front and Next lead to, as far as the length of the list.
Contents(l) ==
    LET at[i \in 0 .. l.len] ==
            IF i = 0 THEN Root
            ELSE LET c == at[i - 1] IN IF c \in Cells THEN l.next[c] ELSE Nil
    IN  [i \in 1 .. l.len |-> at[i]]

\* Prev and Next, repeated until nil.
Before(l, e) == LET s == Contents(l) IN {s[i] : i \in {j \in DOMAIN s : \E k \in DOMAIN s : j < k /\ s[k] = e}}
After(l, e)  == LET s == Contents(l) IN {s[i] : i \in {j \in DOMAIN s : \E k \in DOMAIN s : k < j /\ s[k] = e}}

\* The ring is a list: it leads forward through each of its elements once and
\* back the same way.
IsRing(l) ==
    LET s == Contents(l)
        ring == <<Root>> \o s \o <<Root>>
    IN  /\ Range(s) = l.in /\ IsInjective(s)
        /\ \A i \in 1 .. Len(s) + 1 : /\ l.next[ring[i]] = ring[i + 1]
                                      /\ l.prev[ring[i + 1]] = ring[i]
=============================================================================
