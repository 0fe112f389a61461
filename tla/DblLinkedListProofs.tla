------------------------ MODULE DblLinkedListProofs ------------------------
(***************************************************************************)
(* DblLinkedList, for any lists and any finite set of nodes: the pointers  *)
(* of both directions always spell the same sequences of nodes, and every  *)
(* operation does to them what its namesake in NodeLists does.             *)
(***************************************************************************)
EXTENDS DblLinkedList, LinkedListLemmas, FiniteSetTheorems

-----------------------------------------------------------------------------
(***************************************************************************)
(* What a walk finds.                                                      *)
(***************************************************************************)

\* A list without repeats is no longer than there are nodes.
LEMMA NoLonger ==
    ASSUME IsFiniteSet(Node), NEW q \in Seq(Node), NoRepeats(q)
    PROVE  Cardinality(Node) \in Nat /\ Len(q) \in Nat /\ Len(q) <= Cardinality(Node)
<1>1. /\ Len(q) \in Nat /\ DOMAIN q = 1..Len(q) /\ q \in [1..Len(q) -> Node]
  BY LenProperties, ElementOfSeq
<1>2. q \in Injection(1..Len(q), Node)
  BY <1>1 DEF NoRepeats, Injection, IsInjective
<1>3. Cardinality(1..Len(q)) <= Cardinality(Node)
  BY <1>2, FS_Injection
<1>4. Cardinality(1..Len(q)) = Len(q)
  <2>1. 1 \in Int /\ Len(q) \in Int
    BY <1>1
  <2>. QED BY <1>1, <2>1, FS_Interval
<1>. QED BY <1>1, <1>3, <1>4, FS_CardinalityType

\* A field leads from a cell through the nodes of q to the cell end.
Leads(field, from, q, end) ==
    /\ field[from] = Append(q, end)[1]
    /\ \A i \in 1..Len(q) : field[q[i]] = Append(q, end)[i + 1]

\* Where it leads to a cell that is not a node, the walk is q: it takes no
\* more steps than there are nodes.
LEMMA WalkIs ==
    ASSUME IsFiniteSet(Node), NEW q \in Seq(Node), NoRepeats(q),
           NEW end, end \notin Node,
           NEW field, NEW from, Leads(field, from, q, end)
    PROVE  Walk(field, from) = q
<1>. DEFINE r == Append(q, end)
<1>0. /\ field[from] = r[1]
      /\ \A i \in 1..Len(q) : field[q[i]] = r[i + 1]
  BY DEF Leads
<1>. DEFINE N == Cardinality(Node)
            Steps(f) == [k \in 0..N |->
                IF k = 0 THEN <<field[from]>>
                ELSE LET s == f[k - 1] IN
                     IF Last(s) \in Node THEN Append(s, field[Last(s)]) ELSE s]
            upto(k) == IF k < Len(q) THEN k + 1 ELSE Len(q) + 1
            g == [k \in 0..N |-> SubSeq(r, 1, upto(k))]
<1>1. N \in Nat /\ Len(q) \in Nat /\ Len(q) <= N
  BY NoLonger
<1>2. /\ r \in Seq(Node \cup {end}) /\ Len(r) = Len(q) + 1
      /\ \A i \in 1..Len(q) : r[i] = q[i] /\ r[i] \in Node
      /\ r[Len(q) + 1] = end
  <2>1. q \in Seq(Node \cup {end}) /\ end \in Node \cup {end}
    BY SeqMonotonic
  <2>. QED BY <1>1, <2>1, AppendProperties, ElementOfSeq
<1>. HIDE DEF N, r
<1>3. /\ \A k \in 0..N : upto(k) \in 1..Len(r) /\ upto(k) \in 1..upto(k)
      /\ upto(0) = 1 /\ upto(N) = Len(q) + 1
      /\ \A k \in 1..N : IF k <= Len(q)
                         THEN upto(k - 1) = k /\ upto(k) = k + 1
                         ELSE upto(k - 1) = Len(q) + 1 /\ upto(k) = Len(q) + 1
  BY <1>1, <1>2
<1>4. \A k \in 0..N : g[k] = SubSeq(r, 1, upto(k))
  OBVIOUS
<1>. DEFINE Ends == Node \cup {end}
<1>. HIDE DEF upto, g, Ends
<1>5. ASSUME NEW k \in 0..N
      PROVE  /\ g[k] \in Seq(Ends) /\ Len(g[k]) = upto(k)
             /\ \A i \in 1..upto(k) : g[k][i] = r[i]
  <2>. DEFINE u == upto(k)
  <2>1. u \in 1..Len(r) /\ g[k] = SubSeq(r, 1, u)
    BY <1>3, <1>4
  <2>. HIDE DEF u
  <2>2. r \in Seq(Ends) /\ Len(r) \in Nat
    BY <1>1, <1>2 DEF Ends
  <2>3. \A i \in 1..u : r[i] \in Ends
    BY <2>1, <2>2, ElementOfSeq
  <2>4. /\ SubSeq(r, 1, u) \in Seq(Ends) /\ Len(SubSeq(r, 1, u)) = u
        /\ \A i \in 1..u : SubSeq(r, 1, u)[i] = r[i]
    BY <2>1, <2>2, <2>3, SubSeqProperties
  <2>. QED BY <2>1, <2>4 DEF u
\* A step of the walk.
<1>6. g[0] = <<field[from]>>
  <2>1. 0 \in 0..N
    BY <1>1
  <2>2. g[0] \in Seq(Ends) /\ Len(g[0]) = 1 /\ g[0][1] = r[1]
    <3>. DEFINE u == upto(0)
    <3>1. g[0] \in Seq(Ends) /\ Len(g[0]) = u /\ \A i \in 1..u : g[0][i] = r[i]
      BY <1>5, <2>1
    <3>2. u = 1
      BY <1>3
    <3>. HIDE DEF u
    <3>. QED BY <3>1, <3>2
  <2>3. g[0] = <<r[1]>>
    BY <2>2
  <2>. QED BY <1>0, <2>3
<1>7. ASSUME NEW k \in 1..N
      PROVE  g[k] = IF Last(g[k - 1]) \in Node
                    THEN Append(g[k - 1], field[Last(g[k - 1])]) ELSE g[k - 1]
  <2>. DEFINE was == g[k - 1]
              is == g[k]
              u == upto(k - 1)
  <2>1. k - 1 \in 0..N /\ k \in 0..N /\ k \in Nat
    BY <1>1
  <2>2. /\ was \in Seq(Ends) /\ Len(was) = u /\ u \in 1..Len(r) /\ u \in 1..u
        /\ \A i \in 1..u : was[i] = r[i]
    BY <1>3, <1>5, <2>1
  <2>. HIDE DEF was
  <2>3. Last(was) = r[u]
    BY <2>2 DEF Last
  <2>4. CASE k <= Len(q)
    <3>1. u = k /\ upto(k) = k + 1
      BY <1>3, <2>4
    <3>2. /\ is \in Seq(Ends) /\ Len(is) = k + 1
          /\ \A i \in 1..(k + 1) : is[i] = r[i]
      BY <1>5, <2>1, <3>1
    <3>. HIDE DEF u, is
    <3>3. Last(was) \in Node /\ field[Last(was)] = r[k + 1]
      BY <1>0, <1>1, <1>2, <2>1, <2>3, <2>4, <3>1
    <3>. DEFINE last == r[k + 1]
                a == Append(was, last)
    <3>4. last \in Ends
      <4>1. k + 1 \in 1..Len(r)
        BY <1>1, <1>2, <2>1, <2>4
      <4>2. r \in Seq(Ends)
        BY <1>2 DEF Ends
      <4>. QED BY <4>1, <4>2, ElementOfSeq
    <3>. HIDE DEF last
    <3>5. /\ a \in Seq(Ends) /\ Len(a) = k + 1
          /\ \A i \in 1..k : a[i] = was[i]
          /\ a[k + 1] = last
      BY <2>1, <2>2, <3>1, <3>4, AppendProperties
    <3>. HIDE DEF a
    <3>6. \A i \in 1..Len(a) : a[i] = is[i]
      <4>1. /\ \A i \in 1..k : a[i] = was[i] /\ was[i] = r[i] /\ is[i] = r[i]
            /\ a[k + 1] = is[k + 1]
        <5>1. k + 1 \in 1..(k + 1) /\ \A i \in 1..k : i \in 1..(k + 1)
          BY <2>1
        <5>. QED BY <2>2, <3>1, <3>2, <3>5, <5>1 DEF last
      <4>2. \A i \in 1..Len(a) : i \in 1..k \/ i = k + 1
        BY <2>1, <3>5
      <4>. QED BY <4>1, <4>2
    <3>7. a = is
      BY <3>2, <3>5, <3>6, SeqEqual
    <3>. QED BY <3>3, <3>7 DEF a, last, was, is
  <2>5. CASE ~(k <= Len(q))
    <3>1. u = Len(q) + 1 /\ upto(k) = u
      BY <1>3, <2>5
    <3>2. is = was
      BY <1>4, <2>1, <3>1 DEF was
    <3>3. ~(Last(was) \in Node)
      BY <1>2, <2>3, <3>1
    <3>. QED BY <3>2, <3>3 DEF was, is
  <2>. QED BY <2>4, <2>5
<1>8. ASSUME NEW f, f = Steps(f)
      PROVE  f = g
  <2>. DEFINE wrong == {k \in 0..N : f[k] # g[k]}
  <2>1. f[0] = <<field[from]>>
    BY <1>1, <1>8
  <2>2. ASSUME NEW k \in 1..N
        PROVE  f[k] = IF Last(f[k - 1]) \in Node
                      THEN Append(f[k - 1], field[Last(f[k - 1])]) ELSE f[k - 1]
    <3>1. k \in 0..N /\ k # 0
      BY <1>1
    <3>2. f[k] = Steps(f)[k]
      BY <1>8, Zenon
    <3>3. Steps(f)[k] = IF Last(f[k - 1]) \in Node
                        THEN Append(f[k - 1], field[Last(f[k - 1])]) ELSE f[k - 1]
      BY <3>1, Zenon
    <3>. QED BY <3>2, <3>3, Zenon
  <2>3. wrong = {}
    <3>1. SUFFICES ASSUME wrong # {}
                   PROVE  FALSE
      OBVIOUS
    <3>2. wrong \subseteq Nat
      BY <1>1
    <3>3. PICK k \in wrong : \A j \in wrong : k <= j
      BY <3>1, <3>2, LeastNat
    <3>4. k # 0
      BY <1>6, <2>1, <3>3
    <3>5. k \in 1..N /\ k - 1 \in 0..N /\ ~(k <= k - 1)
      BY <1>1, <3>3, <3>4
    <3>6. f[k - 1] = g[k - 1]
      BY <3>3, <3>5
    <3>7. f[k] = g[k]
      BY <1>7, <2>2, <3>5, <3>6
    <3>. QED BY <3>3, <3>7
  <2>4. \A k \in 0..N : f[k] = g[k]
    BY <2>3
  <2>5. f = [k \in 0..N |-> f[k]] /\ g = [k \in 0..N |-> g[k]]
    BY <1>8 DEF g
  <2>. HIDE DEF Steps
  <2>. QED BY <2>4, <2>5, Zenon
<1>9. g = Steps(g)
  <2>1. \A k \in 0..N : Steps(g)[k] = g[k]
    <3>1. ASSUME NEW k \in 1..N
          PROVE  Steps(g)[k] = g[k]
      BY <1>7, <1>1
    <3>2. Steps(g)[0] = g[0]
      BY <1>1, <1>6
    <3>3. ASSUME NEW k \in 0..N
          PROVE  k = 0 \/ k \in 1..N
      BY <1>1
    <3>. HIDE DEF Steps
    <3>. QED BY <3>1, <3>2, <3>3, Zenon
  <2>2. g = [k \in 0..N |-> g[k]]
    BY DEF g
  <2>3. Steps(g) = [k \in 0..N |-> Steps(g)[k]]
    OBVIOUS
  <2>. HIDE DEF Steps
  <2>. QED BY <2>1, <2>2, <2>3, Zenon
<1>10. Walk(field, from) = Front((CHOOSE f : f = Steps(f))[N])
  BY Zenon DEF Walk, N
<1>. HIDE DEF Steps
<1>11. (CHOOSE f : f = Steps(f)) = g
  BY <1>8, <1>9, Zenon
<1>12. g[N] = r /\ Front(r) = q
  <2>1. N \in 0..N /\ upto(N) = Len(r)
    BY <1>1, <1>2, <1>3
  <2>2. /\ g[N] \in Seq(Ends) /\ Len(g[N]) = Len(r)
        /\ \A i \in 1..Len(g[N]) : g[N][i] = r[i]
    <3>. DEFINE u == upto(N)
    <3>1. /\ g[N] \in Seq(Ends) /\ Len(g[N]) = u
          /\ \A i \in 1..u : g[N][i] = r[i]
      BY <1>5, <2>1
    <3>2. u = Len(r)
      BY <2>1
    <3>. HIDE DEF u
    <3>. QED BY <3>1, <3>2
  <2>3. g[N] = r
    BY <1>2, <2>2, SeqEqual DEF Ends
  <2>. DEFINE front == SubSeq(r, 1, Len(q))
  <2>4. /\ front \in Seq(Node) /\ Len(front) = Len(q)
        /\ \A i \in 1..Len(q) : front[i] = r[i]
    <3>1. \A i \in 1..Len(q) : r[i] \in Node
      BY <1>2
    <3>2. Len(q) <= Len(r)
      BY <1>1, <1>2
    <3>. QED BY <1>1, <1>2, <3>1, <3>2, SubSeqProperties
  <2>5. Front(r) = front
    BY <1>1, <1>2 DEF Front
  <2>. HIDE DEF front
  <2>6. front = q
    BY <1>2, <2>4, SeqEqual
  <2>. QED BY <2>3, <2>5, <2>6
<1>. QED BY <1>10, <1>11, <1>12

-----------------------------------------------------------------------------
(***************************************************************************)
(* The sequences that the pointers stand for.                              *)
(***************************************************************************)

\* The cells of a list from its head sentinel, at 0, to its tail.
At(s, l, i) == IF i = 0 THEN Head_(l)
               ELSE IF i = Len(s[l]) + 1 THEN Tail_(l) ELSE s[l][i]

\* No node is in two places.
Apart(s) == \A l, m \in List : \A i \in 1..Len(s[l]), j \in 1..Len(s[m]) :
               s[l][i] = s[m][j] => l = m /\ i = j

Held(s, node) == \E l \in List : \E i \in 1..Len(s[l]) : s[l][i] = node

\* Each cell of a list points at the one after it, and is pointed back at.
Chained(n, p, s) ==
    \A l \in List :
       /\ n[Tail_(l)] = Null /\ p[Head_(l)] = Null
       /\ \A i \in 0..Len(s[l]) : /\ n[At(s, l, i)] = At(s, l, i + 1)
                                  /\ p[At(s, l, i + 1)] = At(s, l, i)

\* Pointers n and p spell the sequences s.  The nodes of loose are in no
\* list and their pointers may dangle; those of other nodes in no list are null.
Represents(n, p, s, loose) ==
    /\ n \in [Cell -> Cell \cup {Null}] /\ p \in [Cell -> Cell \cup {Null}]
    /\ s \in [List -> Seq(Node)] /\ Apart(s) /\ Chained(n, p, s)
    /\ \A node \in loose : ~Held(s, node)
    /\ \A node \in Node \ loose : Held(s, node) \/ (n[node] = Null /\ p[node] = Null)

\* The inductive invariant: between operations the pointers spell sequences
\* in which no node is loose.
Linked == \E s \in [List -> Seq(Node)] : Represents(next, prev, s, {})

\* The sequences once a node has left the place it had.
Without(s, node) == [l \in List |-> Unlinked(s[l], node)]

\* What SMT needs to know of cells.
LEMMA Cells ==
    /\ \A l \in List : Head_(l) \in Cell \ Node /\ Tail_(l) \in Cell \ Node
    /\ \A l, m \in List : Head_(l) # Tail_(m)
    /\ \A l, m \in List : Head_(l) = Head_(m) => l = m
    /\ \A l, m \in List : Tail_(l) = Tail_(m) => l = m
    /\ Node \subseteq Cell /\ Null \notin Cell
  BY ListAssumption DEF Cell, Sentinel, Head_, Tail_

\* The places of the lists are different cells.
LEMMA AtIsOne ==
    ASSUME NEW s \in [List -> Seq(Node)], Apart(s), NEW l \in List, NEW m \in List,
           NEW i \in 0..(Len(s[l]) + 1), NEW j \in 0..(Len(s[m]) + 1)
    PROVE  /\ At(s, l, i) \in Cell
           /\ At(s, l, i) \in Node <=> i \in 1..Len(s[l])
           /\ At(s, l, i) = At(s, m, j) => l = m /\ i = j
<1>1. Len(s[l]) \in Nat /\ Len(s[m]) \in Nat
  BY LenProperties
<1>2. /\ i = 0 \/ i = Len(s[l]) + 1 \/ i \in 1..Len(s[l])
      /\ j = 0 \/ j = Len(s[m]) + 1 \/ j \in 1..Len(s[m])
  BY <1>1
<1>3. /\ \A k \in 1..Len(s[l]) : s[l][k] \in Node
      /\ \A k \in 1..Len(s[m]) : s[m][k] \in Node
  BY ElementOfSeq
<1>4. /\ i = 0 => At(s, l, i) = Head_(l) /\ i \notin 1..Len(s[l])
      /\ i = Len(s[l]) + 1 => At(s, l, i) = Tail_(l) /\ i \notin 1..Len(s[l])
      /\ i \in 1..Len(s[l]) => At(s, l, i) = s[l][i] /\ At(s, l, i) \in Node
  BY <1>1, <1>3 DEF At
<1>5. /\ j = 0 => At(s, m, j) = Head_(m)
      /\ j = Len(s[m]) + 1 => At(s, m, j) = Tail_(m)
      /\ j \in 1..Len(s[m]) => At(s, m, j) = s[m][j] /\ At(s, m, j) \in Node
  BY <1>1, <1>3 DEF At
<1>6. /\ At(s, l, i) \in Cell
      /\ At(s, l, i) \in Node <=> i \in 1..Len(s[l])
  BY <1>2, <1>4, Cells
<1>7. ASSUME At(s, l, i) = At(s, m, j)
      PROVE  l = m /\ i = j
  <2>1. CASE i = 0
    <3>1. j = 0
      BY <1>2, <1>4, <1>5, <1>7, <2>1, Cells
    <3>. QED BY <1>4, <1>5, <1>7, <2>1, <3>1, Cells
  <2>2. CASE i = Len(s[l]) + 1
    <3>1. j = Len(s[m]) + 1
      BY <1>2, <1>4, <1>5, <1>7, <2>2, Cells
    <3>. QED BY <1>4, <1>5, <1>7, <2>2, <3>1, Cells
  <2>3. CASE i \in 1..Len(s[l])
    <3>1. j \in 1..Len(s[m])
      BY <1>2, <1>4, <1>5, <1>7, <2>3, Cells
    <3>. QED BY <1>4, <1>5, <1>7, <2>3, <3>1 DEF Apart
  <2>. QED BY <1>2, <2>1, <2>2, <2>3
<1>. QED BY <1>6, <1>7

\* A place's neighbours, and where a node that is in a list stands.
LEMMA Neighbours ==
    ASSUME NEW n, NEW p, NEW s, NEW loose, Represents(n, p, s, loose),
           NEW l \in List, NEW i \in 1..(Len(s[l]) + 1)
    PROVE  /\ n[At(s, l, i - 1)] = At(s, l, i) /\ p[At(s, l, i)] = At(s, l, i - 1)
           /\ Len(s[l]) \in Nat
           /\ i \in 1..Len(s[l]) => /\ At(s, l, i) = s[l][i] /\ s[l][i] \in Node
                                    /\ n[s[l][i]] \in Cell
<1>1. s \in [List -> Seq(Node)] /\ Apart(s) /\ Chained(n, p, s)
  BY DEF Represents
<1>2. Len(s[l]) \in Nat
  BY <1>1, LenProperties
<1>3. i - 1 \in 0..Len(s[l]) /\ (i - 1) + 1 = i
  BY <1>2
<1>4. n[At(s, l, i - 1)] = At(s, l, i) /\ p[At(s, l, i)] = At(s, l, i - 1)
  <2>. DEFINE h == i - 1
  <2>1. h \in 0..Len(s[l]) /\ h + 1 = i
    BY <1>3
  <2>. HIDE DEF h
  <2>2. n[At(s, l, h)] = At(s, l, h + 1) /\ p[At(s, l, h + 1)] = At(s, l, h)
    BY <1>1, <2>1 DEF Chained
  <2>. QED BY <2>1, <2>2 DEF h
<1>5. ASSUME i \in 1..Len(s[l])
      PROVE  At(s, l, i) = s[l][i] /\ s[l][i] \in Node /\ n[s[l][i]] \in Cell
  <2>1. At(s, l, i) = s[l][i] /\ s[l][i] \in Node
    BY <1>1, <1>2, <1>5, ElementOfSeq DEF At
  <2>2. i \in 0..Len(s[l]) /\ i + 1 \in 0..(Len(s[l]) + 1)
    BY <1>2, <1>5
  <2>3. n[At(s, l, i)] = At(s, l, i + 1)
    BY <1>1, <2>2 DEF Chained
  <2>4. At(s, l, i + 1) \in Cell
    BY <1>1, <2>2, AtIsOne
  <2>. QED BY <2>1, <2>3, <2>4
<1>. QED BY <1>2, <1>4, <1>5

-----------------------------------------------------------------------------
(***************************************************************************)
(* What the stores of an operation do to the sequences.                    *)
(***************************************************************************)

\* Sequences t are s without the node x, which was at place k of list m.
Left(s, t, m, k, x) ==
    /\ t \in [List -> Seq(Node)] /\ Apart(t) /\ ~Held(t, x)
    /\ \A y \in Node \ {x} : Held(t, y) <=> Held(s, y)
    /\ Len(t[m]) = Len(s[m]) - 1
    /\ \A i \in 0..(Len(t[m]) + 1) :
          At(t, m, i) = At(s, m, IF i < k THEN i ELSE i + 1)
    /\ \A l \in List \ {m} :
          /\ t[l] = s[l]
          /\ \A i \in 0..(Len(s[l]) + 1) : At(t, l, i) = At(s, l, i)

\* That is what taking the node out of the sequences makes of them.
LEMMA PlacesWithout ==
    ASSUME NEW s \in [List -> Seq(Node)], Apart(s),
           NEW m \in List, NEW k \in 1..Len(s[m]),
           NEW x, x = s[m][k], NEW t, t = Without(s, x)
    PROVE  Left(s, t, m, k, x)
<1>1. \A l \in List : /\ Len(s[l]) \in Nat /\ DOMAIN s[l] = 1..Len(s[l])
                      /\ s[l] \in Seq(Node)
  BY LenProperties
<1>2. \A l \in List : NoRepeats(s[l])
  BY <1>1 DEF Apart, NoRepeats
<1>3. /\ t[m] \in Seq(Node) /\ Len(t[m]) = Len(s[m]) - 1
      /\ \A i \in 1..(Len(s[m]) - 1) :
            t[m][i] = IF i < k THEN s[m][i] ELSE s[m][i + 1]
  <2>. DEFINE list == s[m]
  <2>1. t[m] = Unlinked(list, list[k])
    BY DEF Without
  <2>2. list \in Seq(Node) /\ NoRepeats(list) /\ k \in 1..Len(list)
    BY <1>1, <1>2
  <2>. HIDE DEF list
  <2>3. /\ Unlinked(list, list[k]) \in Seq(Node)
        /\ Len(Unlinked(list, list[k])) = Len(list) - 1
        /\ \A i \in 1..(Len(list) - 1) :
              Unlinked(list, list[k])[i] = IF i < k THEN list[i] ELSE list[i + 1]
    BY <2>2, UnlinkedAt
  <2>. QED BY <2>1, <2>3 DEF list
<1>4. \A l \in List \ {m} : t[l] = s[l]
  <2>1. SUFFICES ASSUME NEW l \in List \ {m}
                 PROVE  Unlinked(s[l], x) = s[l]
    BY DEF Without
  <2>2. \A i \in 1..Len(s[l]) : s[l][i] # x
    BY DEF Apart
  <2>3. x \notin ToSet(s[l])
    BY <1>1, <2>2 DEF ToSet
  <2>. QED BY <1>1, <1>2, <2>3, UnlinkedProperties
<1>5. t \in [List -> Seq(Node)]
  <2>1. \A l \in List : t[l] \in Seq(Node)
    BY <1>1, <1>3, <1>4
  <2>. QED BY <2>1 DEF Without
<1>6. \A i \in 0..(Len(t[m]) + 1) : At(t, m, i) = At(s, m, IF i < k THEN i ELSE i + 1)
  BY <1>1, <1>3 DEF At
<1>7. \A l \in List \ {m} : \A i \in 0..(Len(s[l]) + 1) : At(t, l, i) = At(s, l, i)
  BY <1>4 DEF At
\* Where a node of the new lists stood in the old ones.
<1>8. ASSUME NEW l \in List, NEW i \in 1..Len(t[l])
      PROVE  \E j \in 1..Len(s[l]) :
                /\ t[l][i] = s[l][j] /\ (l = m => j # k)
                /\ j = IF l = m /\ i >= k THEN i + 1 ELSE i
  <2>1. CASE l = m
    <3>. DEFINE j == IF i >= k THEN i + 1 ELSE i
    <3>1. i \in 1..(Len(s[m]) - 1) /\ Len(s[m]) \in Nat /\ k \in Int
      BY <1>1, <1>3, <2>1
    <3>2. j \in 1..Len(s[m]) /\ j # k /\ (i < k => j = i) /\ (~(i < k) => j = i + 1)
      BY <3>1
    <3>3. t[m][i] = s[m][j]
      BY <1>3, <3>1, <3>2
    <3>. QED BY <2>1, <3>2, <3>3
  <2>2. CASE l # m
    BY <1>4, <2>2
  <2>. QED BY <2>1, <2>2
<1>9. Apart(t)
  <2>1. SUFFICES ASSUME NEW l1 \in List, NEW l2 \in List, NEW i1 \in 1..Len(t[l1]),
                        NEW i2 \in 1..Len(t[l2]), t[l1][i1] = t[l2][i2]
                 PROVE  l1 = l2 /\ i1 = i2
    BY DEF Apart
  <2>2. PICK j1 \in 1..Len(s[l1]) : /\ t[l1][i1] = s[l1][j1]
                                    /\ j1 = IF l1 = m /\ i1 >= k THEN i1 + 1 ELSE i1
    BY <1>8
  <2>3. PICK j2 \in 1..Len(s[l2]) : /\ t[l2][i2] = s[l2][j2]
                                    /\ j2 = IF l2 = m /\ i2 >= k THEN i2 + 1 ELSE i2
    BY <1>8
  <2>4. l1 = l2 /\ j1 = j2
    <3>1. s[l1][j1] = s[l2][j2]
      BY <2>1, <2>2, <2>3
    <3>. QED BY <3>1 DEF Apart
  <2>5. i1 \in Int /\ i2 \in Int
    OBVIOUS
  <2>. QED BY <2>2, <2>3, <2>4, <2>5
<1>10. ~Held(t, x)
  <2>1. SUFFICES ASSUME NEW l \in List, NEW i \in 1..Len(t[l]), t[l][i] = x
                 PROVE  FALSE
    BY DEF Held
  <2>2. PICK j \in 1..Len(s[l]) : t[l][i] = s[l][j] /\ (l = m => j # k)
    BY <1>8
  <2>3. s[l][j] = s[m][k]
    BY <2>1, <2>2
  <2>4. l = m /\ j = k
    BY <2>3 DEF Apart
  <2>. QED BY <2>2, <2>4
<1>11. ASSUME NEW y \in Node \ {x}
       PROVE  Held(t, y) <=> Held(s, y)
  <2>1. ASSUME NEW l \in List, NEW i \in 1..Len(t[l]), t[l][i] = y
        PROVE  \E j \in 1..Len(s[l]) : s[l][j] = y
    BY <1>8, <2>1
  <2>2. ASSUME NEW l \in List, NEW j \in 1..Len(s[l]), s[l][j] = y
        PROVE  \E i \in 1..Len(t[l]) : t[l][i] = y
    <3>1. CASE l # m
      BY <1>4, <2>2, <3>1
    <3>2. CASE l = m /\ j < k
      <4>1. j \in 1..(Len(s[m]) - 1)
        BY <1>1, <3>2
      <4>. QED BY <1>3, <2>2, <3>2, <4>1
    <3>3. CASE l = m /\ j > k
      <4>1. j - 1 \in 1..(Len(s[m]) - 1) /\ ~(j - 1 < k) /\ (j - 1) + 1 = j
        BY <1>1, <3>3
      <4>. QED BY <1>3, <2>2, <3>3, <4>1
    <3>4. l = m => j # k
      BY <2>2
    <3>. QED BY <3>1, <3>2, <3>3, <3>4
  <2>. QED BY <2>1, <2>2 DEF Held
<1>. QED BY <1>3, <1>4, <1>5, <1>6, <1>7, <1>9, <1>10, <1>11 DEF Left

\* A node that is in no list leaves them as they are.
LEMMA NotHeld ==
    ASSUME NEW s \in [List -> Seq(Node)], NEW x, ~Held(s, x)
    PROVE  Without(s, x) = s
<1>1. SUFFICES ASSUME NEW l \in List
               PROVE  Unlinked(s[l], x) = s[l]
  BY DEF Without
<1>2. DOMAIN s[l] = 1..Len(s[l]) /\ s[l] \in Seq(Node)
  BY LenProperties
<1>3. ~ \E i \in DOMAIN s[l] : s[l][i] = x
  BY <1>2 DEF Held
<1>4. ~Contains(s[l], x)
  BY <1>3 DEF Contains
<1>. QED BY <1>3 DEF Unlinked, RemoveFirst

\* RemoveFromList: the node's old neighbours point at each other and it is
\* loose.
LEMMA TakenOut ==
    ASSUME NEW n, NEW p, NEW s, Represents(n, p, s, {}), NEW x \in Node
    PROVE  Represents(Store(n, p[x], n[x]), Store(p, n[x], p[x]), Without(s, x), {x})
<1>. DEFINE t == Without(s, x)
            n2 == Store(n, p[x], n[x])
            p2 == Store(p, n[x], p[x])
<1>1. /\ n \in [Cell -> Cell \cup {Null}] /\ p \in [Cell -> Cell \cup {Null}]
      /\ s \in [List -> Seq(Node)] /\ Apart(s) /\ Chained(n, p, s)
      /\ \A node \in Node : Held(s, node) \/ (n[node] = Null /\ p[node] = Null)
  BY DEF Represents
<1>2. CASE ~Held(s, x)
  <2>1. n[x] = Null /\ p[x] = Null
    BY <1>1, <1>2
  <2>2. n2 = n /\ p2 = p
    BY <2>1 DEF Store
  <2>3. t = s
    BY <1>1, <1>2, NotHeld
  <2>. HIDE DEF t, n2, p2
  <2>4. Represents(n, p, s, {x})
    BY <1>1, <1>2 DEF Represents
  <2>. QED BY <2>2, <2>3, <2>4 DEF t, n2, p2
<1>3. ASSUME NEW m \in List, NEW k \in 1..Len(s[m]), s[m][k] = x
      PROVE  Represents(n2, p2, t, {x})
  <2>. DEFINE before == At(s, m, k - 1)
              after == At(s, m, k + 1)
  <2>1. /\ Len(s[m]) \in Nat /\ k \in Nat
        /\ k - 1 \in 0..(Len(s[m]) + 1) /\ k + 1 \in 0..(Len(s[m]) + 1)
    BY <1>1, LenProperties
  <2>2. /\ t \in [List -> Seq(Node)] /\ Apart(t) /\ ~Held(t, x)
        /\ \A y \in Node \ {x} : Held(t, y) <=> Held(s, y)
        /\ Len(t[m]) = Len(s[m]) - 1
        /\ \A i \in 0..(Len(t[m]) + 1) :
              At(t, m, i) = At(s, m, IF i < k THEN i ELSE i + 1)
        /\ \A l \in List \ {m} :
              /\ t[l] = s[l]
              /\ \A i \in 0..(Len(s[l]) + 1) : At(t, l, i) = At(s, l, i)
    <3>1. t = Without(s, x) /\ x = s[m][k]
      BY <1>3
    <3>. HIDE DEF t
    <3>2. s \in [List -> Seq(Node)] /\ Apart(s)
      BY <1>1
    <3>3. Left(s, t, m, k, x)
      BY <3>1, <3>2, PlacesWithout
    <3>. QED BY <3>3 DEF Left
  <2>3. /\ before \in Cell /\ after \in Cell /\ p[x] = before /\ n[x] = after
        /\ x \in Cell /\ x # before /\ x # after
    <3>1. x = At(s, m, k) /\ k \in 0..(Len(s[m]) + 1) /\ k # k - 1 /\ k # k + 1
      BY <1>3, <2>1 DEF At
    <3>2. n[At(s, m, k)] = At(s, m, k + 1) /\ p[At(s, m, k)] = At(s, m, k - 1)
      BY <1>1, <2>1, <3>1, Neighbours DEF Chained
    <3>3. before \in Cell /\ after \in Cell /\ x \in Cell
      BY <1>1, <2>1, <3>1, AtIsOne
    <3>4. At(s, m, k) # before
      BY <1>1, <2>1, <3>1, AtIsOne
    <3>5. At(s, m, k) # after
      BY <1>1, <2>1, <3>1, AtIsOne
    <3>. QED BY <3>1, <3>2, <3>3, <3>4, <3>5
  <2>4. /\ n2 = [n EXCEPT ![before] = after] /\ p2 = [p EXCEPT ![after] = before]
        /\ n2 \in [Cell -> Cell \cup {Null}] /\ p2 \in [Cell -> Cell \cup {Null}]
    BY <1>1, <2>3, Cells DEF Store
  <2>. HIDE DEF t, n2, p2, before, after
  <2>5. /\ n2[before] = after /\ \A c \in Cell \ {before} : n2[c] = n[c]
        /\ p2[after] = before /\ \A c \in Cell \ {after} : p2[c] = p[c]
    BY <1>1, <2>3, <2>4
  \* Which places the two are.
  <2>6. ASSUME NEW l \in List, NEW i \in 0..(Len(s[l]) + 1)
        PROVE  /\ At(s, l, i) \in Cell
               /\ At(s, l, i) = before => l = m /\ i = k - 1
               /\ At(s, l, i) = after => l = m /\ i = k + 1
    <3>. DEFINE a == k - 1
                b == k + 1
    <3>1. a \in 0..(Len(s[m]) + 1) /\ b \in 0..(Len(s[m]) + 1)
      BY <2>1
    <3>2. before = At(s, m, a) /\ after = At(s, m, b)
      BY DEF before, after
    <3>. HIDE DEF a, b
    <3>3. s \in [List -> Seq(Node)] /\ Apart(s)
      BY <1>1
    <3>4. At(s, l, i) \in Cell /\ (At(s, l, i) = At(s, m, a) => l = m /\ i = a)
      BY <3>1, <3>3, AtIsOne
    <3>5. At(s, l, i) = At(s, m, b) => l = m /\ i = b
      BY <3>1, <3>3, AtIsOne
    <3>. QED BY <3>2, <3>4, <3>5 DEF a, b
  <2>7. Chained(n2, p2, t)
    <3>1. ASSUME NEW l \in List
          PROVE  n2[Tail_(l)] = Null /\ p2[Head_(l)] = Null
      <4>1. /\ n[Tail_(l)] = Null /\ p[Head_(l)] = Null
            /\ Tail_(l) \in Cell /\ Head_(l) \in Cell
        BY <1>1, Cells DEF Chained
      <4>2. n2[before] # Null /\ p2[after] # Null
        BY <2>3, <2>5, Cells
      <4>3. Tail_(l) # before
        <5>1. /\ Len(s[l]) + 1 \in 0..(Len(s[l]) + 1)
              /\ At(s, l, Len(s[l]) + 1) = Tail_(l) /\ k - 1 # Len(s[m]) + 1
          BY <1>1, <2>1, LenProperties DEF At
        <5>. QED BY <2>1, <2>6, <5>1
      <4>4. Head_(l) # after
        <5>1. /\ 0 \in 0..(Len(s[l]) + 1) /\ At(s, l, 0) = Head_(l) /\ k + 1 # 0
          BY <1>1, <2>1, LenProperties DEF At
        <5>. QED BY <2>1, <2>6, <5>1
      <4>. QED BY <2>5, <4>1, <4>3, <4>4
    <3>2. ASSUME NEW l \in List \ {m}, NEW i \in 0..Len(t[l])
          PROVE  n2[At(t, l, i)] = At(t, l, i + 1) /\ p2[At(t, l, i + 1)] = At(t, l, i)
      <4>1. /\ i \in 0..Len(s[l]) /\ i \in 0..(Len(s[l]) + 1)
            /\ i + 1 \in 0..(Len(s[l]) + 1)
        BY <1>1, <2>2, LenProperties
      <4>2. /\ At(t, l, i) = At(s, l, i) /\ At(t, l, i + 1) = At(s, l, i + 1)
        BY <2>2, <4>1
      <4>3. /\ At(s, l, i) \in Cell /\ At(s, l, i + 1) \in Cell
            /\ At(s, l, i) # before
        BY <2>6, <4>1
      <4>4. At(s, l, i + 1) # after
        BY <2>6, <4>1
      <4>5. n[At(s, l, i)] = At(s, l, i + 1) /\ p[At(s, l, i + 1)] = At(s, l, i)
        BY <1>1, <4>1 DEF Chained
      <4>. QED BY <2>5, <4>2, <4>3, <4>4, <4>5
    <3>3. Len(t[m]) = Len(s[m]) - 1
      BY <2>2
    <3>4. ASSUME NEW i \in 0..Len(t[m])
          PROVE  n2[At(t, m, i)] = At(t, m, i + 1) /\ p2[At(t, m, i + 1)] = At(t, m, i)
      <4>1. CASE i = k - 1
        <5>1. At(t, m, i) = before /\ At(t, m, i + 1) = after
          <6>1. /\ i \in 0..(Len(t[m]) + 1) /\ i + 1 \in 0..(Len(t[m]) + 1)
                /\ i < k /\ ~(i + 1 < k) /\ (i + 1) + 1 = k + 1
            BY <2>1, <3>3, <4>1
          <6>. QED BY <2>2, <4>1, <6>1 DEF before, after
        <5>. QED BY <2>5, <5>1
      <4>2. CASE i # k - 1
        <5>. DEFINE j == IF i < k THEN i ELSE i + 1
        <5>1. /\ j \in 0..Len(s[m]) /\ j \in 0..(Len(s[m]) + 1)
              /\ j + 1 \in 0..(Len(s[m]) + 1) /\ j # k - 1 /\ j + 1 # k + 1
          BY <2>1, <3>3, <4>2
        <5>2. At(t, m, i) = At(s, m, j) /\ At(t, m, i + 1) = At(s, m, j + 1)
          <6>1. /\ i \in 0..(Len(t[m]) + 1) /\ i + 1 \in 0..(Len(t[m]) + 1)
                /\ (IF i + 1 < k THEN i + 1 ELSE (i + 1) + 1) = j + 1
            BY <2>1, <3>3, <4>2
          <6>. QED BY <2>2, <6>1
        <5>. HIDE DEF j
        <5>3. At(s, m, j) \in Cell /\ At(s, m, j) # before
          BY <2>6, <5>1
        <5>4. At(s, m, j + 1) \in Cell /\ At(s, m, j + 1) # after
          BY <2>6, <5>1
        <5>5. n[At(s, m, j)] = At(s, m, j + 1) /\ p[At(s, m, j + 1)] = At(s, m, j)
          BY <1>1, <5>1 DEF Chained
        <5>. QED BY <2>5, <5>2, <5>3, <5>4, <5>5
      <4>. QED BY <4>1, <4>2
    <3>. QED BY <3>1, <3>2, <3>4 DEF Chained
  <2>8. ASSUME NEW y \in Node \ {x}, ~Held(t, y)
        PROVE  n2[y] = Null /\ p2[y] = Null
    <3>1. n[y] = Null /\ p[y] = Null /\ y \in Cell
      BY <1>1, <2>2, <2>8, Cells
    <3>2. n[before] # Null /\ p[after] # Null
      <4>1. At(s, m, k) = x /\ k \in 1..(Len(s[m]) + 1) /\ k \in 0..Len(s[m])
        BY <1>3, <2>1 DEF At
      <4>2. n[before] = x
        BY <4>1, Neighbours DEF before
      <4>3. p[after] = x
        BY <1>1, <4>1 DEF Chained, after
      <4>. QED BY <4>2, <4>3, Cells
    <3>. QED BY <2>5, <3>1, <3>2
  <2>9. t \in [List -> Seq(Node)] /\ Apart(t) /\ ~Held(t, x)
    BY <2>2
  <2>. QED BY ONLY <2>4, <2>7, <2>8, <2>9 DEF Represents
<1>4. Held(s, x) => \E m \in List : \E k \in 1..Len(s[m]) : s[m][k] = x
  BY DEF Held
<1>. QED BY <1>2, <1>3, <1>4

\* Sequences t are s with x, which was in no list, at place k of list m.
Entered(s, t, m, k, x) ==
    /\ t \in [List -> Seq(Node)] /\ Apart(t) /\ Held(t, x)
    /\ \A y \in Node \ {x} : Held(t, y) <=> Held(s, y)
    /\ Len(t[m]) = Len(s[m]) + 1
    /\ \A i \in 0..(Len(t[m]) + 1) :
          At(t, m, i) = IF i < k THEN At(s, m, i)
                        ELSE IF i = k THEN x ELSE At(s, m, i - 1)
    /\ \A l \in List \ {m} :
          /\ t[l] = s[l]
          /\ \A i \in 0..(Len(s[l]) + 1) : At(t, l, i) = At(s, l, i)

\* That is what inserting the node makes of them.
LEMMA PlacesWith ==
    ASSUME NEW s \in [List -> Seq(Node)], Apart(s),
           NEW x \in Node, ~Held(s, x),
           NEW m \in List, NEW k \in 1..(Len(s[m]) + 1),
           NEW t, t = [s EXCEPT ![m] = Inserted(@, k, x)]
    PROVE  Entered(s, t, m, k, x)
<1>1. \A l \in List : Len(s[l]) \in Nat /\ s[l] \in Seq(Node)
  BY LenProperties
<1>2. /\ t[m] \in Seq(Node) /\ Len(t[m]) = Len(s[m]) + 1
      /\ \A i \in 1..(Len(s[m]) + 1) :
            t[m][i] = IF i < k THEN s[m][i] ELSE IF i = k THEN x ELSE s[m][i - 1]
  <2>. DEFINE was == s[m]
              is == InsertAt(was, k, x)
  <2>1. t[m] = is
    BY DEF Inserted
  <2>2. was \in Seq(Node) /\ k \in 1..(Len(was) + 1) /\ x \in Node
    BY <1>1
  <2>. HIDE DEF was
  <2>3. /\ is \in Seq(Node) /\ Len(is) = Len(was) + 1
        /\ \A i \in 1..(Len(was) + 1) :
              is[i] = IF i < k THEN was[i] ELSE IF i = k THEN x ELSE was[i - 1]
    <3>1. is \in Seq(Node)
      BY ONLY <2>2, InsertAtProperties
    <3>2. Len(is) = Len(was) + 1
      BY ONLY <2>2, InsertAtProperties
    <3>3. ASSUME NEW i \in 1..(Len(was) + 1)
          PROVE  is[i] = IF i < k THEN was[i] ELSE IF i = k THEN x ELSE was[i - 1]
      BY ONLY <2>2, i \in 1..(Len(was) + 1), InsertAtProperties
    <3>. QED BY <3>1, <3>2, <3>3
  <2>. HIDE DEF is
  <2>. QED BY <2>1, <2>3 DEF was
<1>3. \A l \in List \ {m} : t[l] = s[l]
  OBVIOUS
<1>4. t \in [List -> Seq(Node)]
  <2>1. \A l \in List : t[l] \in Seq(Node)
    BY <1>1, <1>2, <1>3
  <2>2. t = [l \in List |-> t[l]]
    OBVIOUS
  <2>. QED BY <2>1, <2>2
<1>5. \A i \in 0..(Len(t[m]) + 1) :
         At(t, m, i) = IF i < k THEN At(s, m, i)
                       ELSE IF i = k THEN x ELSE At(s, m, i - 1)
  <2>1. SUFFICES ASSUME NEW i \in 0..(Len(t[m]) + 1)
                 PROVE  At(t, m, i) = IF i < k THEN At(s, m, i)
                                      ELSE IF i = k THEN x ELSE At(s, m, i - 1)
    OBVIOUS
  <2>2. CASE i = 0
    BY <1>1, <2>2 DEF At
  <2>3. CASE i = Len(s[m]) + 2
    BY <1>1, <1>2, <2>3 DEF At
  <2>4. CASE i \in 1..(Len(s[m]) + 1)
    BY <1>1, <1>2, <2>4 DEF At
  <2>5. i = 0 \/ i = Len(s[m]) + 2 \/ i \in 1..(Len(s[m]) + 1)
    <3>1. Len(t[m]) = Len(s[m]) + 1 /\ Len(s[m]) \in Nat
      BY <1>1, <1>2
    <3>. QED BY <3>1
  <2>. QED BY <2>2, <2>3, <2>4, <2>5
<1>6. \A l \in List \ {m} : \A i \in 0..(Len(s[l]) + 1) : At(t, l, i) = At(s, l, i)
  BY <1>3 DEF At
\* Where a node of the new lists stood in the old ones.
<1>7. ASSUME NEW l \in List, NEW i \in 1..Len(t[l])
      PROVE  \/ l = m /\ i = k /\ t[l][i] = x
             \/ /\ ~(l = m /\ i = k) /\ t[l][i] # x
                /\ \E j \in 1..Len(s[l]) :
                      t[l][i] = s[l][j] /\ j = IF l = m /\ i > k THEN i - 1 ELSE i
  <2>1. CASE l = m /\ i = k
    BY <1>1, <1>2, <2>1
  <2>2. CASE ~(l = m /\ i = k)
    <3>. DEFINE j == IF l = m /\ i > k THEN i - 1 ELSE i
    <3>1. j \in 1..Len(s[l]) /\ t[l][i] = s[l][j]
      BY <1>1, <1>2, <1>3, <2>2
    <3>. HIDE DEF j
    <3>2. s[l][j] # x
      BY <3>1 DEF Held
    <3>. QED BY <2>2, <3>1, <3>2 DEF j
  <2>. QED BY <2>1, <2>2
<1>8. Apart(t)
  <2>1. SUFFICES ASSUME NEW l1 \in List, NEW l2 \in List, NEW i1 \in 1..Len(t[l1]),
                        NEW i2 \in 1..Len(t[l2]), t[l1][i1] = t[l2][i2]
                 PROVE  l1 = l2 /\ i1 = i2
    BY DEF Apart
  <2>2. CASE t[l1][i1] = x
    <3>1. l1 = m /\ i1 = k
      BY <1>7, <2>2
    <3>2. l2 = m /\ i2 = k
      BY <1>7, <2>1, <2>2
    <3>. QED BY <3>1, <3>2
  <2>3. CASE t[l1][i1] # x
    <3>1. PICK j1 \in 1..Len(s[l1]) : /\ t[l1][i1] = s[l1][j1]
                                      /\ j1 = IF l1 = m /\ i1 > k THEN i1 - 1 ELSE i1
      BY <1>7, <2>3
    <3>2. PICK j2 \in 1..Len(s[l2]) : /\ t[l2][i2] = s[l2][j2]
                                      /\ j2 = IF l2 = m /\ i2 > k THEN i2 - 1 ELSE i2
      BY <1>7, <2>1, <2>3
    <3>3. l1 = l2 /\ j1 = j2
      <4>1. s[l1][j1] = s[l2][j2]
        BY <2>1, <3>1, <3>2
      <4>. QED BY <4>1 DEF Apart
    <3>4. ~(l1 = m /\ i1 = k) /\ ~(l2 = m /\ i2 = k)
      BY <1>7, <2>1, <2>3
    <3>5. i1 \in Int /\ i2 \in Int /\ k \in Int
      OBVIOUS
    <3>. QED BY <3>1, <3>2, <3>3, <3>4, <3>5
  <2>. QED BY <2>2, <2>3
<1>9. Held(t, x)
  <2>1. k \in 1..Len(t[m]) /\ t[m][k] = x
    BY <1>1, <1>2
  <2>. QED BY <2>1 DEF Held
<1>10. ASSUME NEW y \in Node \ {x}
       PROVE  Held(t, y) <=> Held(s, y)
  <2>1. ASSUME NEW l \in List, NEW i \in 1..Len(t[l]), t[l][i] = y
        PROVE  \E j \in 1..Len(s[l]) : s[l][j] = y
    BY <1>7, <2>1
  <2>2. ASSUME NEW l \in List, NEW j \in 1..Len(s[l]), s[l][j] = y
        PROVE  \E i \in 1..Len(t[l]) : t[l][i] = y
    <3>1. CASE l # m
      BY <1>3, <2>2, <3>1
    <3>2. CASE l = m /\ j < k
      <4>1. j \in 1..(Len(s[m]) + 1)
        BY <1>1, <3>2
      <4>. QED BY <1>2, <2>2, <3>2, <4>1
    <3>3. CASE l = m /\ ~(j < k)
      <4>1. /\ j + 1 \in 1..(Len(s[m]) + 1) /\ ~(j + 1 < k) /\ j + 1 # k
            /\ (j + 1) - 1 = j
        BY <1>1, <3>3
      <4>. QED BY <1>2, <2>2, <3>3, <4>1
    <3>. QED BY <3>1, <3>2, <3>3
  <2>. QED BY <2>1, <2>2 DEF Held
<1>. QED BY <1>2, <1>3, <1>4, <1>5, <1>6, <1>8, <1>9, <1>10 DEF Entered

\* The stores of Insert, once the node is loose.
LEMMA PutIn ==
    ASSUME NEW n, NEW p, NEW s, NEW x \in Node, Represents(n, p, s, {x}),
           NEW m \in List, NEW k \in 1..(Len(s[m]) + 1),
           NEW before, before = At(s, m, k - 1), NEW after, after = At(s, m, k)
    PROVE  Represents([n EXCEPT ![x] = after, ![before] = x],
                      [p EXCEPT ![x] = before, ![after] = x],
                      [s EXCEPT ![m] = Inserted(@, k, x)], {})
<1>. DEFINE t == [s EXCEPT ![m] = Inserted(@, k, x)]
            n2 == [n EXCEPT ![x] = after, ![before] = x]
            p2 == [p EXCEPT ![x] = before, ![after] = x]
<1>1. /\ n \in [Cell -> Cell \cup {Null}] /\ p \in [Cell -> Cell \cup {Null}]
      /\ s \in [List -> Seq(Node)] /\ Apart(s) /\ Chained(n, p, s) /\ ~Held(s, x)
      /\ \A y \in Node \ {x} : Held(s, y) \/ (n[y] = Null /\ p[y] = Null)
  BY DEF Represents
<1>2. \A l \in List : Len(s[l]) \in Nat
  BY <1>1, LenProperties
<1>3. /\ t \in [List -> Seq(Node)] /\ Apart(t) /\ Held(t, x)
      /\ \A y \in Node \ {x} : Held(t, y) <=> Held(s, y)
      /\ Len(t[m]) = Len(s[m]) + 1
      /\ \A i \in 0..(Len(t[m]) + 1) :
            At(t, m, i) = IF i < k THEN At(s, m, i)
                          ELSE IF i = k THEN x ELSE At(s, m, i - 1)
      /\ \A l \in List \ {m} :
            /\ t[l] = s[l]
            /\ \A i \in 0..(Len(s[l]) + 1) : At(t, l, i) = At(s, l, i)
  <2>1. t = [s EXCEPT ![m] = Inserted(@, k, x)]
    OBVIOUS
  <2>. HIDE DEF t
  <2>2. Entered(s, t, m, k, x)
    BY <1>1, <2>1, PlacesWith
  <2>. QED BY <2>2 DEF Entered
\* Which places the two are; x is at none.
<1>4. ASSUME NEW l \in List, NEW i \in 0..(Len(s[l]) + 1)
      PROVE  /\ At(s, l, i) \in Cell /\ At(s, l, i) # x
             /\ At(s, l, i) = before => l = m /\ i = k - 1
             /\ At(s, l, i) = after => l = m /\ i = k
  <2>. DEFINE h == k - 1
  <2>1. h \in 0..(Len(s[m]) + 1) /\ k \in 0..(Len(s[m]) + 1)
    BY <1>2
  <2>2. before = At(s, m, h)
    OBVIOUS
  <2>. HIDE DEF h
  <2>3. At(s, l, i) \in Cell /\ (At(s, l, i) = At(s, m, h) => l = m /\ i = h)
    BY <1>1, <2>1, AtIsOne
  <2>4. At(s, l, i) = At(s, m, k) => l = m /\ i = k
    BY <1>1, <2>1, AtIsOne
  <2>5. At(s, l, i) # x
    <3>1. i \in 1..Len(s[l]) => At(s, l, i) = s[l][i] /\ s[l][i] # x
      BY <1>1, <1>2 DEF At, Held
    <3>2. At(s, l, i) \in Node => i \in 1..Len(s[l])
      BY <1>1, <2>1, AtIsOne
    <3>. QED BY <3>1, <3>2
  <2>. QED BY <2>2, <2>3, <2>4, <2>5 DEF h
<1>5. before \in Cell /\ after \in Cell /\ x \in Cell /\ before # x /\ after # x
  <2>1. k - 1 \in 0..(Len(s[m]) + 1) /\ k \in 0..(Len(s[m]) + 1)
    BY <1>2
  <2>. QED BY <1>4, <2>1, Cells
<1>6. /\ n2 \in [Cell -> Cell \cup {Null}] /\ p2 \in [Cell -> Cell \cup {Null}]
      /\ n2[x] = after /\ n2[before] = x /\ p2[x] = before /\ p2[after] = x
      /\ \A c \in Cell \ {x, before} : n2[c] = n[c]
      /\ \A c \in Cell \ {x, after} : p2[c] = p[c]
  BY <1>1, <1>5
<1>. HIDE DEF t, n2, p2
<1>7. Chained(n2, p2, t)
  <2>1. ASSUME NEW l \in List
        PROVE  n2[Tail_(l)] = Null /\ p2[Head_(l)] = Null
    <3>1. /\ n[Tail_(l)] = Null /\ p[Head_(l)] = Null
          /\ Tail_(l) \in Cell \ {x} /\ Head_(l) \in Cell \ {x}
      BY <1>1, Cells DEF Chained
    <3>2. Tail_(l) # before
      <4>1. /\ Len(s[l]) + 1 \in 0..(Len(s[l]) + 1)
            /\ At(s, l, Len(s[l]) + 1) = Tail_(l) /\ k - 1 # Len(s[m]) + 1
        BY <1>2 DEF At
      <4>. QED BY <1>4, <4>1
    <3>3. Head_(l) # after
      <4>1. 0 \in 0..(Len(s[l]) + 1) /\ At(s, l, 0) = Head_(l) /\ k # 0
        BY <1>2 DEF At
      <4>. QED BY <1>4, <4>1
    <3>. QED BY <1>6, <3>1, <3>2, <3>3
  <2>2. ASSUME NEW l \in List \ {m}, NEW i \in 0..Len(t[l])
        PROVE  n2[At(t, l, i)] = At(t, l, i + 1) /\ p2[At(t, l, i + 1)] = At(t, l, i)
    <3>1. /\ i \in 0..Len(s[l]) /\ i \in 0..(Len(s[l]) + 1)
          /\ i + 1 \in 0..(Len(s[l]) + 1)
      BY <1>2, <1>3
    <3>2. At(t, l, i) = At(s, l, i) /\ At(t, l, i + 1) = At(s, l, i + 1)
      BY <1>3, <3>1
    <3>3. /\ At(s, l, i) \in Cell \ {x, before}
          /\ At(s, l, i + 1) \in Cell \ {x, after}
      BY <1>4, <3>1
    <3>4. n[At(s, l, i)] = At(s, l, i + 1) /\ p[At(s, l, i + 1)] = At(s, l, i)
      BY <1>1, <3>1 DEF Chained
    <3>. QED BY <1>6, <3>2, <3>3, <3>4
  <2>3. ASSUME NEW i \in 0..Len(t[m])
        PROVE  n2[At(t, m, i)] = At(t, m, i + 1) /\ p2[At(t, m, i + 1)] = At(t, m, i)
    <3>1. i \in 0..(Len(t[m]) + 1) /\ i + 1 \in 0..(Len(t[m]) + 1)
      BY <1>2, <1>3
    <3>2. CASE i = k - 1
      <4>1. At(t, m, i) = before /\ At(t, m, i + 1) = x
        <5>1. i < k /\ ~(i + 1 < k) /\ i + 1 = k
          BY <3>2
        <5>. QED BY <1>3, <3>1, <3>2, <5>1
      <4>. QED BY <1>6, <4>1
    <3>3. CASE i = k
      <4>1. At(t, m, i) = x /\ At(t, m, i + 1) = after
        <5>1. ~(i < k) /\ ~(i + 1 < k) /\ i + 1 # k /\ (i + 1) - 1 = k
          BY <3>3
        <5>. QED BY <1>3, <3>1, <3>3, <5>1
      <4>. QED BY <1>6, <4>1
    <3>4. CASE i # k - 1 /\ i # k
      <4>. DEFINE j == IF i < k THEN i ELSE i - 1
      <4>1. /\ j \in 0..Len(s[m]) /\ j \in 0..(Len(s[m]) + 1)
            /\ j + 1 \in 0..(Len(s[m]) + 1) /\ j # k - 1 /\ j + 1 # k
        BY <1>2, <1>3, <3>4
      <4>2. At(t, m, i) = At(s, m, j) /\ At(t, m, i + 1) = At(s, m, j + 1)
        <5>1. /\ i < k => i + 1 < k /\ j = i
              /\ ~(i < k) => /\ ~(i + 1 < k) /\ i + 1 # k
                             /\ j = i - 1 /\ (i + 1) - 1 = j + 1
          BY <3>4
        <5>. HIDE DEF j
        <5>. QED BY <1>3, <3>1, <3>4, <5>1
      <4>. HIDE DEF j
      <4>3. /\ At(s, m, j) \in Cell \ {x, before}
            /\ At(s, m, j + 1) \in Cell \ {x, after}
        BY <1>4, <4>1
      <4>4. n[At(s, m, j)] = At(s, m, j + 1) /\ p[At(s, m, j + 1)] = At(s, m, j)
        BY <1>1, <4>1 DEF Chained
      <4>. QED BY <1>6, <4>2, <4>3, <4>4
    <3>. QED BY <3>2, <3>3, <3>4
  <2>. QED BY <2>1, <2>2, <2>3 DEF Chained
<1>8. ASSUME NEW y \in Node, ~Held(t, y)
      PROVE  n2[y] = Null /\ p2[y] = Null
  <2>1. y # x /\ n[y] = Null /\ p[y] = Null /\ y \in Cell
    BY <1>1, <1>3, <1>8, Cells
  <2>2. n[before] # Null /\ p[after] # Null
    <3>1. n[before] = after /\ p[after] = before
      BY Neighbours
    <3>. QED BY <1>5, <3>1, Cells
  <2>. QED BY <1>6, <2>1, <2>2
<1>9. t \in [List -> Seq(Node)] /\ Apart(t)
  BY <1>3
<1>. QED BY ONLY <1>6, <1>7, <1>8, <1>9 DEF Represents, t, n2, p2

\* Unlink clears the pointers of the loose node.
LEMMA Cleared ==
    ASSUME NEW n, NEW p, NEW s, NEW x \in Node, Represents(n, p, s, {x})
    PROVE  Represents([n EXCEPT ![x] = Null], [p EXCEPT ![x] = Null], s, {})
<1>. DEFINE n2 == [n EXCEPT ![x] = Null]
            p2 == [p EXCEPT ![x] = Null]
<1>1. /\ n \in [Cell -> Cell \cup {Null}] /\ p \in [Cell -> Cell \cup {Null}]
      /\ s \in [List -> Seq(Node)] /\ Apart(s) /\ Chained(n, p, s) /\ ~Held(s, x)
      /\ \A y \in Node \ {x} : Held(s, y) \/ (n[y] = Null /\ p[y] = Null)
  BY DEF Represents
<1>2. /\ n2 \in [Cell -> Cell \cup {Null}] /\ p2 \in [Cell -> Cell \cup {Null}]
      /\ n2[x] = Null /\ p2[x] = Null
      /\ \A c \in Cell \ {x} : n2[c] = n[c] /\ p2[c] = p[c]
  BY <1>1, Cells
<1>. HIDE DEF n2, p2
<1>3. ASSUME NEW l \in List, NEW i \in 0..(Len(s[l]) + 1)
      PROVE  At(s, l, i) \in Cell \ {x}
  <2>1. At(s, l, i) \in Cell /\ (At(s, l, i) \in Node => i \in 1..Len(s[l]))
    BY <1>1, AtIsOne
  <2>2. i \in 1..Len(s[l]) => At(s, l, i) = s[l][i] /\ s[l][i] # x
    BY <1>1, LenProperties DEF At, Held
  <2>. QED BY <2>1, <2>2
<1>4. Chained(n2, p2, s)
  <2>1. ASSUME NEW l \in List
        PROVE  n2[Tail_(l)] = Null /\ p2[Head_(l)] = Null
    BY <1>1, <1>2, Cells DEF Chained
  <2>2. ASSUME NEW l \in List, NEW i \in 0..Len(s[l])
        PROVE  n2[At(s, l, i)] = At(s, l, i + 1) /\ p2[At(s, l, i + 1)] = At(s, l, i)
    <3>1. i \in 0..(Len(s[l]) + 1) /\ i + 1 \in 0..(Len(s[l]) + 1)
      BY <1>1, LenProperties
    <3>2. n[At(s, l, i)] = At(s, l, i + 1) /\ p[At(s, l, i + 1)] = At(s, l, i)
      BY <1>1 DEF Chained
    <3>. QED BY <1>2, <1>3, <3>1, <3>2
  <2>. QED BY <2>1, <2>2 DEF Chained
<1>5. ASSUME NEW y \in Node, ~Held(s, y)
      PROVE  n2[y] = Null /\ p2[y] = Null
  BY <1>1, <1>2, <1>5, Cells
<1>. QED BY ONLY <1>1, <1>2, <1>4, <1>5 DEF Represents, n2, p2

-----------------------------------------------------------------------------
(***************************************************************************)
(* What the operations do to the sequences.                                *)
(***************************************************************************)

\* The walks of both directions find the sequence.
LEMMA Spelled ==
    ASSUME NEW n, NEW p, NEW s, NEW loose, Represents(n, p, s, loose), NEW l \in List
    PROVE  Walk(n, Head_(l)) = s[l] /\ Walk(p, Tail_(l)) = Reverse(s[l])
<1>. DEFINE list == s[l]
            len == Len(list)
            place(i) == At(s, l, i)
<1>1. /\ list \in Seq(Node) /\ len \in Nat /\ DOMAIN list = 1..len
      /\ \A i \in 1..len : list[i] \in Node
  BY LenProperties, ElementOfSeq DEF Represents
<1>2. \A i, j \in 1..len : list[i] = list[j] => i = j
  BY DEF Represents, Apart
<1>3. /\ place(0) = Head_(l) /\ place(len + 1) = Tail_(l)
      /\ \A i \in 1..len : place(i) = list[i]
  BY <1>1 DEF At
<1>4. \A i \in 0..len : n[place(i)] = place(i + 1) /\ p[place(i + 1)] = place(i)
  BY DEF Represents, Chained
<1>5. IsFiniteSet(Node) /\ Head_(l) \notin Node /\ Tail_(l) \notin Node
  BY ListAssumption, Cells
<1>. HIDE DEF place, len
<1>6. Walk(n, Head_(l)) = list
  <2>. DEFINE stop == Tail_(l)
              start == Head_(l)
              path == Append(list, stop)
  <2>1. NoRepeats(list)
    BY <1>1, <1>2 DEF NoRepeats
  <2>2. \A i \in 1..(len + 1) : path[i] = place(i)
    <3>1. list \in Seq(Node \cup {stop}) /\ stop \in Node \cup {stop}
      BY <1>1, SeqMonotonic
    <3>2. (\A i \in 1..len : path[i] = list[i]) /\ path[len + 1] = stop
      BY <1>1, <3>1, AppendProperties DEF len
    <3>3. \A i \in 1..(len + 1) : i \in 1..len \/ i = len + 1
      BY <1>1
    <3>. HIDE DEF path
    <3>. QED BY <1>3, <3>2, <3>3
  <2>3. n[start] = path[1]
    <3>1. 0 \in 0..len /\ 0 + 1 = 1 /\ 1 \in 1..(len + 1)
      BY <1>1
    <3>. HIDE DEF path
    <3>. QED BY <1>3, <1>4, <2>2, <3>1
  <2>4. \A i \in 1..Len(list) : n[list[i]] = path[i + 1]
    <3>1. \A i \in 1..len : i \in 0..len /\ i + 1 \in 1..(len + 1)
      BY <1>1
    <3>. HIDE DEF path, list
    <3>. QED BY <1>3, <1>4, <2>2, <3>1 DEF len
  <2>5. Leads(n, start, list, stop)
    BY <2>3, <2>4 DEF Leads
  <2>6. list \in Seq(Node) /\ stop \notin Node
    BY <1>1, <1>5
  <2>. HIDE DEF list, stop, start
  <2>7. Walk(n, start) = list
    BY <1>5, <2>1, <2>5, <2>6, WalkIs
  <2>. QED BY <2>7 DEF start
<1>7. Walk(p, Tail_(l)) = Reverse(list)
  <2>. DEFINE back == Reverse(list)
              stop == Head_(l)
              start == Tail_(l)
              path == Append(back, stop)
  <2>1. /\ back \in Seq(Node) /\ Len(back) = len
        /\ \A i \in 1..len : back[i] = list[len - i + 1]
    <3>1. back = [i \in 1..len |-> list[(len - i) + 1]]
      BY DEF Reverse, len
    <3>2. \A i \in 1..len : list[(len - i) + 1] \in Node
      BY <1>1
    <3>. HIDE DEF back
    <3>. QED BY <1>1, <3>1, <3>2
  <2>. HIDE DEF back
  <2>2. \A i \in 1..len : len - i + 1 \in 1..len /\ back[i] = place(len - i + 1)
    <3>1. ASSUME NEW i \in 1..len
          PROVE  len - i + 1 \in 1..len
      BY <1>1
    <3>. HIDE DEF list
    <3>. QED BY <1>3, <2>1, <3>1
  <2>3. NoRepeats(back)
    <3>1. DOMAIN back = 1..len
      BY <2>1, LenProperties
    <3>2. ASSUME NEW i \in 1..len, NEW j \in 1..len, back[i] = back[j]
          PROVE  i = j
      <4>1. len - i + 1 = len - j + 1
        <5>. DEFINE a == len - i + 1
                    b == len - j + 1
        <5>1. a \in 1..len /\ b \in 1..len /\ back[i] = list[a] /\ back[j] = list[b]
          BY <2>1, <2>2
        <5>. HIDE DEF a, b
        <5>2. a = b
          BY <1>2, <3>2, <5>1 DEF len
        <5>. QED BY <5>2 DEF a, b
      <4>. QED BY <1>1, <4>1
    <3>. QED BY <3>1, <3>2 DEF NoRepeats
  <2>4. \A i \in 1..(len + 1) : path[i] = place(len + 1 - i)
    <3>1. back \in Seq(Node \cup {stop}) /\ stop \in Node \cup {stop}
      BY <2>1, SeqMonotonic
    <3>2. (\A i \in 1..len : path[i] = back[i]) /\ path[len + 1] = stop
      BY <2>1, <3>1, AppendProperties
    <3>3. \A i \in 1..(len + 1) : \/ i \in 1..len /\ len - i + 1 = len + 1 - i
                                  \/ i = len + 1 /\ len + 1 - i = 0
      BY <1>1
    <3>. HIDE DEF path
    <3>. QED BY <1>3, <2>2, <3>2, <3>3
  <2>5. p[start] = path[1]
    <3>1. len \in 0..len /\ 1 \in 1..(len + 1) /\ len + 1 - 1 = len
      BY <1>1
    <3>. HIDE DEF path
    <3>. QED BY <1>3, <1>4, <2>4, <3>1
  <2>6. \A i \in 1..Len(back) : p[back[i]] = path[i + 1]
    <3>1. \A i \in 1..len : /\ len - i \in 0..len /\ i + 1 \in 1..(len + 1)
                            /\ len + 1 - (i + 1) = len - i
      BY <1>1
    <3>2. \A i \in 1..len : p[place(len - i + 1)] = place(len - i)
      BY <1>4, <3>1
    <3>. HIDE DEF path
    <3>3. \A i \in 1..len : path[i + 1] = place(len - i)
      <4>1. SUFFICES ASSUME NEW i \in 1..len
                     PROVE  path[i + 1] = place(len - i)
        OBVIOUS
      <4>. DEFINE j == i + 1
      <4>2. j \in 1..(len + 1) /\ len + 1 - j = len - i
        BY <3>1
      <4>. HIDE DEF j
      <4>3. path[j] = place(len + 1 - j)
        BY <2>4, <4>2
      <4>. QED BY <4>2, <4>3 DEF j
    <3>4. \A i \in 1..len : p[back[i]] = place(len - i)
      BY <2>2, <3>2
    <3>. QED BY <2>1, <3>3, <3>4
  <2>7. Leads(p, start, back, stop) /\ stop \notin Node
    BY <1>5, <2>5, <2>6 DEF Leads
  <2>. HIDE DEF stop, start
  <2>8. Walk(p, start) = back
    BY <1>5, <2>1, <2>3, <2>7, WalkIs
  <2>. QED BY <2>8 DEF start, back
<1>. QED BY <1>6, <1>7

\* So the pointers stand for one family of sequences, that of NL.
Lists == [l \in List |-> Forward(l)]

\* They are the sequences the pointers spell, whichever those are.
LEMMA StandFor ==
    ASSUME NEW s, Represents(next, prev, s, {})
    PROVE  Lists = s
<1>1. \A l \in List : Forward(l) = s[l]
  BY Spelled DEF Forward
<1>2. s = [l \in List |-> s[l]]
  BY DEF Represents
<1>. QED BY <1>1, <1>2 DEF Lists

\* So are they after a step.
LEMMA StandForNext ==
    ASSUME NEW s, Represents(next', prev', s, {})
    PROVE  Lists' = s /\ Linked'
<1>1. \A l \in List : Forward(l)' = s[l]
  BY Spelled DEF Forward
<1>2. s = [l \in List |-> s[l]] /\ s \in [List -> Seq(Node)]
  BY DEF Represents
<1>. QED BY <1>1, <1>2 DEF Lists, Linked

\* A node is linked when it is in a list.
LEMMA LinkedIsHeld ==
    ASSUME NEW s, Represents(next, prev, s, {}), NEW x \in Node
    PROVE  IsLinked(x) <=> Held(s, x)
<1>1. ~Held(s, x) => next[x] = Null
  BY DEF Represents
<1>2. ASSUME NEW l \in List, NEW i \in 1..Len(s[l]), s[l][i] = x
      PROVE  next[x] # Null
  <2>1. i \in 1..(Len(s[l]) + 1)
    BY LenProperties DEF Represents
  <2>2. next[s[l][i]] \in Cell
    BY <2>1, Neighbours
  <2>. QED BY <1>2, <2>2, Cells
<1>. QED BY <1>1, <1>2 DEF IsLinked, Held

\* Unlink takes the node out of the sequences.
LEMMA UnlinkDoes ==
    ASSUME NEW s, Represents(next, prev, s, {}), NEW x \in Node, Unlink(x)
    PROVE  Represents(next', prev', Without(s, x), {})
<1>1. Represents(NextWithout(x), PrevWithout(x), Without(s, x), {x})
  BY TakenOut DEF NextWithout, PrevWithout
<1>. QED BY <1>1, Cleared DEF Unlink

\* Insert between two neighbours puts it between them.
LEMMA InsertDoes ==
    ASSUME NEW s, Represents(next, prev, s, {}), NEW x \in Node,
           NEW t, t = Without(s, x),
           NEW m \in List, NEW k \in 1..(Len(t[m]) + 1),
           NEW before, before = At(t, m, k - 1), NEW after, after = At(t, m, k),
           Insert(before, after, x)
    PROVE  Represents(next', prev', [t EXCEPT ![m] = Inserted(@, k, x)], {})
<1>1. Represents(NextWithout(x), PrevWithout(x), t, {x})
  BY TakenOut DEF NextWithout, PrevWithout
<1>2. /\ next' = [NextWithout(x) EXCEPT ![x] = after, ![before] = x]
      /\ prev' = [PrevWithout(x) EXCEPT ![x] = before, ![after] = x]
  BY DEF Insert
<1>. QED BY <1>1, <1>2, PutIn

\* Where a linked node stands once another has left, and what is next to it.
LEMMA StillThere ==
    ASSUME NEW s, Represents(next, prev, s, {}), NEW x \in Node, NEW node \in Node,
           node # x, IsLinked(node), NEW t, t = Without(s, x)
    PROVE  \E l \in List : \E i \in 1..Len(t[l]) :
              /\ t[l][i] = node /\ Len(t[l]) \in Nat
              /\ node = At(t, l, i)
              /\ PrevWithout(x)[node] = At(t, l, i - 1)
              /\ NextWithout(x)[node] = At(t, l, i + 1)
<1>1. Represents(NextWithout(x), PrevWithout(x), t, {x})
  BY TakenOut DEF NextWithout, PrevWithout
<1>2. Held(s, node)
  BY LinkedIsHeld
<1>3. Held(t, node)
  <2>1. s \in [List -> Seq(Node)] /\ Apart(s)
    BY DEF Represents
  <2>2. CASE ~Held(s, x)
    BY <1>2, <2>1, <2>2, NotHeld
  <2>3. ASSUME NEW m \in List, NEW k \in 1..Len(s[m]), x = s[m][k]
        PROVE  Held(t, node)
    <3>1. Left(s, t, m, k, x)
      BY <2>1, <2>3, PlacesWithout
    <3>. QED BY <1>2, <3>1 DEF Left
  <2>. QED BY <2>2, <2>3 DEF Held
<1>4. PICK l \in List : \E i \in 1..Len(t[l]) : t[l][i] = node
  BY <1>3 DEF Held
<1>5. PICK i \in 1..Len(t[l]) : t[l][i] = node
  BY <1>4
<1>6. Len(t[l]) \in Nat
  BY <1>1, LenProperties DEF Represents
<1>7. /\ i \in 1..(Len(t[l]) + 1) /\ i + 1 \in 1..(Len(t[l]) + 1)
      /\ (i + 1) - 1 = i
  BY <1>6
<1>8. At(t, l, i) = node /\ PrevWithout(x)[At(t, l, i)] = At(t, l, i - 1)
  BY <1>1, <1>5, <1>7, Neighbours
<1>9. NextWithout(x)[At(t, l, i)] = At(t, l, i + 1)
  <2>. DEFINE j == i + 1
  <2>1. j \in 1..(Len(t[l]) + 1) /\ j - 1 = i
    BY <1>7
  <2>. HIDE DEF j
  <2>2. NextWithout(x)[At(t, l, j - 1)] = At(t, l, j)
    BY <1>1, <2>1, Neighbours
  <2>. QED BY <2>1, <2>2 DEF j
<1>. QED BY <1>5, <1>6, <1>8, <1>9

\* The sequences with a node at an offset from place i of list l.
PutAs(t, l, i, offset, x) == [t EXCEPT ![l] = Inserted(@, i + offset, x)]

\* InsertBeforeNode and InsertAfterNode put the node at the other's place or
\* the one after it.
LEMMA PutNextDoes ==
    ASSUME NEW s, Represents(next, prev, s, {}), NEW x \in Node, NEW node \in Node,
           node # x, IsLinked(node), NEW t, t = Without(s, x)
    PROVE  /\ InsertBeforeNode(node, x) =>
                 \E l \in List : \E i \in 1..Len(t[l]) :
                    /\ t[l][i] = node
                    /\ Represents(next', prev', PutAs(t, l, i, 0, x), {})
           /\ InsertAfterNode(node, x) =>
                 \E l \in List : \E i \in 1..Len(t[l]) :
                    /\ t[l][i] = node
                    /\ Represents(next', prev', PutAs(t, l, i, 1, x), {})
<1>1. PICK l \in List : \E i \in 1..Len(t[l]) :
              /\ t[l][i] = node /\ Len(t[l]) \in Nat
              /\ node = At(t, l, i)
              /\ PrevWithout(x)[node] = At(t, l, i - 1)
              /\ NextWithout(x)[node] = At(t, l, i + 1)
  BY StillThere
<1>2. PICK i \in 1..Len(t[l]) :
              /\ t[l][i] = node /\ Len(t[l]) \in Nat
              /\ node = At(t, l, i)
              /\ PrevWithout(x)[node] = At(t, l, i - 1)
              /\ NextWithout(x)[node] = At(t, l, i + 1)
  BY <1>1
<1>3. ASSUME InsertBeforeNode(node, x)
      PROVE  Represents(next', prev', PutAs(t, l, i, 0, x), {})
  <2>. DEFINE before == PrevWithout(x)[node]
  <2>1. Insert(before, node, x)
    BY <1>3 DEF InsertBeforeNode
  <2>2. i \in 1..(Len(t[l]) + 1) /\ before = At(t, l, i - 1) /\ node = At(t, l, i)
    BY <1>2
  <2>. HIDE DEF before
  <2>3. Represents(next', prev', [t EXCEPT ![l] = Inserted(@, i, x)], {})
    BY <2>1, <2>2, InsertDoes
  <2>4. i + 0 = i
    OBVIOUS
  <2>. QED BY <2>3, <2>4 DEF PutAs
<1>4. ASSUME InsertAfterNode(node, x)
      PROVE  Represents(next', prev', PutAs(t, l, i, 1, x), {})
  <2>. DEFINE after == NextWithout(x)[node]
              j == i + 1
  <2>1. Insert(node, after, x)
    BY <1>4 DEF InsertAfterNode
  <2>2. /\ j \in 1..(Len(t[l]) + 1) /\ node = At(t, l, j - 1)
        /\ after = At(t, l, j)
    <3>1. j - 1 = i /\ j \in 1..(Len(t[l]) + 1)
      BY <1>2
    <3>. HIDE DEF j
    <3>2. NextWithout(x)[node] = At(t, l, j)
      BY <1>2 DEF j
    <3>. QED BY <1>2, <3>1, <3>2
  <2>. HIDE DEF after, j
  <2>3. Represents(next', prev', [t EXCEPT ![l] = Inserted(@, j, x)], {})
    BY <2>1, <2>2, InsertDoes
  <2>. QED BY <2>3 DEF j, PutAs
<1>. QED BY <1>2, <1>3, <1>4

\* A node that has left all lists is not in one.
LEMMA WithoutIsApart ==
    ASSUME NEW s, Represents(next, prev, s, {}), NEW x \in Node, NEW l \in List,
           NEW t, t = Without(s, x)
    PROVE  /\ t[l] \in Seq(Node) /\ NoRepeats(t[l]) /\ x \notin ToSet(t[l])
           /\ Len(t[l]) \in Nat
<1>1. Represents(NextWithout(x), PrevWithout(x), t, {x})
  BY TakenOut DEF NextWithout, PrevWithout
<1>2. t \in [List -> Seq(Node)] /\ Apart(t) /\ ~Held(t, x)
  BY <1>1 DEF Represents
<1>3. t[l] \in Seq(Node) /\ Len(t[l]) \in Nat /\ DOMAIN t[l] = 1..Len(t[l])
  BY <1>2, LenProperties
<1>4. NoRepeats(t[l])
  BY <1>2, <1>3 DEF Apart, NoRepeats
<1>5. x \notin ToSet(t[l])
  BY <1>2, <1>3 DEF Held, ToSet
<1>. QED BY <1>3, <1>4, <1>5

\* LinkAtFront and LinkAtBack put it next to the sentinels.
LEMMA LinkDoes ==
    ASSUME NEW s, Represents(next, prev, s, {}), NEW x \in Node, NEW l \in List,
           NEW t, t = Without(s, x)
    PROVE  /\ LinkAtFront(l, x) =>
                 Represents(next', prev', [t EXCEPT ![l] = LinkedAtFront(@, x)], {})
           /\ LinkAtBack(l, x) =>
                 Represents(next', prev', [t EXCEPT ![l] = LinkedAtBack(@, x)], {})
<1>. DEFINE list == t[l]
            last == Len(list) + 1
<1>1. Represents(NextWithout(x), PrevWithout(x), t, {x})
  BY TakenOut DEF NextWithout, PrevWithout
<1>2. /\ list \in Seq(Node) /\ NoRepeats(list) /\ x \notin ToSet(list)
      /\ Len(list) \in Nat
  BY WithoutIsApart
<1>3. /\ LinkedAtFront(list, x) = Inserted(list, 1, x)
      /\ LinkedAtBack(list, x) = Inserted(list, last, x)
  <2>. HIDE DEF list
  <2>. QED BY <1>2, LinkedAtEnds
<1>4. /\ 1 \in 1..last /\ last \in 1..last
      /\ At(t, l, 1 - 1) = Head_(l) /\ At(t, l, last) = Tail_(l)
  BY <1>2 DEF At
<1>5. /\ NextWithout(x)[At(t, l, 0)] = At(t, l, 1)
      /\ PrevWithout(x)[At(t, l, last)] = At(t, l, last - 1)
  <2>1. 1 - 1 = 0
    OBVIOUS
  <2>2. NextWithout(x)[At(t, l, 1 - 1)] = At(t, l, 1)
    BY <1>1, <1>4, Neighbours
  <2>3. PrevWithout(x)[At(t, l, last)] = At(t, l, last - 1)
    BY <1>1, <1>4, Neighbours
  <2>. QED BY <2>1, <2>2, <2>3
<1>6. ASSUME LinkAtFront(l, x)
      PROVE  Represents(next', prev', [t EXCEPT ![l] = LinkedAtFront(@, x)], {})
  <2>. DEFINE after == NextWithout(x)[Head_(l)]
              before == Head_(l)
  <2>1. Insert(before, after, x)
    BY <1>6, Cells DEF LinkAtFront, InsertAfterNode
  <2>2. before = At(t, l, 1 - 1) /\ after = At(t, l, 1)
    BY <1>4, <1>5
  <2>. HIDE DEF after, before
  <2>3. Represents(next', prev', [t EXCEPT ![l] = Inserted(@, 1, x)], {})
    BY <1>4, <2>1, <2>2, InsertDoes
  <2>. QED BY <1>3, <2>3
<1>7. ASSUME LinkAtBack(l, x)
      PROVE  Represents(next', prev', [t EXCEPT ![l] = LinkedAtBack(@, x)], {})
  <2>. DEFINE before == PrevWithout(x)[Tail_(l)]
              after == Tail_(l)
  <2>1. Insert(before, after, x)
    BY <1>7, Cells DEF LinkAtBack, InsertBeforeNode
  <2>2. before = At(t, l, last - 1) /\ after = At(t, l, last)
    BY <1>4, <1>5
  <2>3. last \in 1..(Len(t[l]) + 1)
    BY <1>4
  <2>. HIDE DEF after, before, last
  <2>4. Represents(next', prev', [t EXCEPT ![l] = Inserted(@, last, x)], {})
    BY <2>1, <2>2, <2>3, InsertDoes
  <2>. QED BY <1>3, <2>4 DEF last
<1>. QED BY <1>6, <1>7

\* ExtractFirstNode and ExtractLastNode unlink the node at an end, if any.
LEMMA ExtractDoes ==
    ASSUME NEW s, Represents(next, prev, s, {}), NEW l \in List
    PROVE  /\ s[l] = <<>> =>
                 /\ ExtractFirstNode(l) => UNCHANGED vars
                 /\ ExtractLastNode(l) => UNCHANGED vars
           /\ s[l] # <<>> =>
                 /\ FirstNode(s[l]) \in Node /\ Last(s[l]) \in Node
                 /\ ExtractFirstNode(l) => Unlink(FirstNode(s[l]))
                 /\ ExtractLastNode(l) => Unlink(Last(s[l]))
<1>. DEFINE len == Len(s[l])
<1>1. /\ s[l] \in Seq(Node) /\ len \in Nat /\ (s[l] = <<>> <=> len = 0)
      /\ next[Tail_(l)] = Null /\ prev[Head_(l)] = Null
  BY LenProperties, EmptySeq DEF Represents, Chained
<1>2. next[Head_(l)] = At(s, l, 1) /\ prev[Tail_(l)] = At(s, l, len)
  <2>1. 0 \in 0..len /\ len \in 0..len /\ 0 + 1 = 1
    BY <1>1
  <2>2. At(s, l, 0) = Head_(l) /\ At(s, l, len + 1) = Tail_(l)
    BY <1>1 DEF At
  <2>3. next[At(s, l, 0)] = At(s, l, 0 + 1) /\ prev[At(s, l, len + 1)] = At(s, l, len)
    BY <2>1 DEF Represents, Chained
  <2>. QED BY <2>1, <2>2, <2>3
<1>3. CASE s[l] = <<>>
  <2>1. At(s, l, 1) = Tail_(l) /\ At(s, l, len) = Head_(l)
    BY <1>1, <1>3 DEF At
  <2>. QED BY <1>1, <1>2, <1>3, <2>1 DEF ExtractFirstNode, ExtractLastNode
<1>4. CASE s[l] # <<>>
  <2>1. 1 \in 1..len /\ len \in 1..len
    BY <1>1, <1>4
  <2>2. /\ At(s, l, 1) = s[l][1] /\ At(s, l, len) = s[l][len]
        /\ s[l][1] \in Node /\ s[l][len] \in Node
    BY <1>1, <2>1, ElementOfSeq DEF At
  <2>3. FirstNode(s[l]) = s[l][1] /\ Last(s[l]) = s[l][len]
    BY DEF FirstNode, Last
  <2>4. Held(s, s[l][1]) /\ Held(s, s[l][len])
    BY <2>1 DEF Held
  <2>5. next[s[l][1]] # Null
    BY <2>2, <2>4, LinkedIsHeld DEF IsLinked
  <2>6. prev[s[l][len]] # Null
    <3>. DEFINE place == At(s, l, len)
    <3>1. prev[place] = At(s, l, len - 1)
      BY <1>1, <2>1, Neighbours
    <3>2. len - 1 \in 0..(len + 1) /\ s \in [List -> Seq(Node)] /\ Apart(s)
      BY <2>1 DEF Represents
    <3>3. At(s, l, len - 1) \in Cell
      BY <3>2, AtIsOne
    <3>. QED BY <2>2, <3>1, <3>3, Cells
  <2>. QED BY <1>2, <1>4, <2>2, <2>3, <2>5, <2>6 DEF ExtractFirstNode, ExtractLastNode
<1>. QED BY <1>3, <1>4

-----------------------------------------------------------------------------
(***************************************************************************)
(* The theorems.                                                           *)
(***************************************************************************)

\* Initialize leaves lists that are empty, and nodes that are in none.
LEMMA InitLinked ==
    ASSUME Init
    PROVE  Represents(next, prev, [l \in List |-> <<>>], {})
<1>. DEFINE s == [l \in List |-> <<>>]
<1>1. s \in [List -> Seq(Node)]
  OBVIOUS
<1>2. \A l \in List : Len(s[l]) = 0
  OBVIOUS
<1>. HIDE DEF s
<1>3. Apart(s) /\ \A x : ~Held(s, x)
  BY <1>2 DEF Apart, Held
<1>4. /\ next \in [Cell -> Cell \cup {Null}] /\ prev \in [Cell -> Cell \cup {Null}]
      /\ \A l \in List : /\ next[Head_(l)] = Tail_(l) /\ next[Tail_(l)] = Null
                         /\ prev[Tail_(l)] = Head_(l) /\ prev[Head_(l)] = Null
      /\ \A x \in Node : next[x] = Null /\ prev[x] = Null
  <2>1. \A l \in List : Head_(l)[1] = l /\ Tail_(l)[1] = l
    BY DEF Head_, Tail_
  <2>. QED BY <2>1, Cells DEF Init
<1>5. Chained(next, prev, s)
  <2>1. SUFFICES ASSUME NEW l \in List, NEW i \in 0..Len(s[l])
                 PROVE  /\ next[At(s, l, i)] = At(s, l, i + 1)
                        /\ prev[At(s, l, i + 1)] = At(s, l, i)
    BY <1>4 DEF Chained
  <2>2. i = 0 /\ Len(s[l]) = 0
    BY <1>2
  <2>3. At(s, l, i) = Head_(l) /\ At(s, l, i + 1) = Tail_(l)
    BY <2>2 DEF At
  <2>. QED BY <1>4, <2>3
<1>. QED BY <1>1, <1>3, <1>4, <1>5 DEF Represents, s

\* Every operation leads from pointers that spell sequences to pointers that do.
LEMMA NextLinked ==
    ASSUME Linked, [Next]_vars
    PROVE  Linked'
<1>1. PICK s \in [List -> Seq(Node)] : Represents(next, prev, s, {})
  BY DEF Linked
<1>2. CASE UNCHANGED vars
  BY <1>1, <1>2 DEF Linked, vars
<1>3. ASSUME NEW x \in Node, Unlink(x)
      PROVE  Linked'
  BY <1>1, <1>3, UnlinkDoes, StandForNext
<1>4. ASSUME NEW node \in Node, NEW x \in Node, IsLinked(node),
             InsertBeforeNode(node, x) \/ InsertAfterNode(node, x)
      PROVE  Linked'
  <2>1. CASE node = x
    BY <1>2, <1>4, <2>1 DEF InsertBeforeNode, InsertAfterNode
  <2>2. CASE node # x
    <3>. DEFINE t == Without(s, x)
    <3>1. t = Without(s, x)
      OBVIOUS
    <3>. HIDE DEF t
    <3>2. CASE InsertBeforeNode(node, x)
      BY <1>1, <1>4, <2>2, <3>1, <3>2, PutNextDoes, StandForNext
    <3>3. CASE InsertAfterNode(node, x)
      BY <1>1, <1>4, <2>2, <3>1, <3>3, PutNextDoes, StandForNext
    <3>. QED BY <1>4, <3>2, <3>3
  <2>. QED BY <2>1, <2>2
<1>5. ASSUME NEW l \in List, NEW x \in Node, LinkAtFront(l, x) \/ LinkAtBack(l, x)
      PROVE  Linked'
  <2>. DEFINE t == Without(s, x)
  <2>1. t = Without(s, x)
    OBVIOUS
  <2>. HIDE DEF t
  <2>2. CASE LinkAtFront(l, x)
    BY <1>1, <2>1, <2>2, LinkDoes, StandForNext
  <2>3. CASE LinkAtBack(l, x)
    BY <1>1, <2>1, <2>3, LinkDoes, StandForNext
  <2>. QED BY <1>5, <2>2, <2>3
<1>6. ASSUME NEW l \in List, ExtractFirstNode(l) \/ ExtractLastNode(l)
      PROVE  Linked'
  <2>1. CASE s[l] = <<>>
    BY <1>1, <1>2, <1>6, <2>1, ExtractDoes
  <2>2. CASE s[l] # <<>>
    BY <1>1, <1>3, <1>6, <2>2, ExtractDoes
  <2>. QED BY <2>1, <2>2
<1>. QED BY <1>2, <1>3, <1>4, <1>5, <1>6 DEF Next

\* At every point the pointers of every list spell a sequence of nodes, the
\* same in both directions, and no node is in two places.
THEOREM LinkedAlways == Spec => []Linked
<1>1. Init => Linked
  <2>1. [l \in List |-> <<>>] \in [List -> Seq(Node)]
    OBVIOUS
  <2>. QED BY <2>1, InitLinked DEF Linked
<1>2. Linked /\ [Next]_vars => Linked'
  BY NextLinked
<1>. QED BY <1>1, <1>2, PTL DEF Spec

\* What the invariant says of the walks and of IsLinked.
LEMMA LinkedIsWellLinked == Linked => WellLinked
<1>1. SUFFICES ASSUME NEW s \in [List -> Seq(Node)], Represents(next, prev, s, {})
               PROVE  WellLinked
  BY DEF Linked
<1>2. \A l \in List : Forward(l) = s[l] /\ Backward(l) = Reverse(s[l])
  BY <1>1, Spelled DEF Forward, Backward
<1>3. \A l \in List : next[Tail_(l)] = Null /\ prev[Head_(l)] = Null
  BY <1>1 DEF Represents, Chained
<1>4. \A l \in List : DOMAIN s[l] = 1..Len(s[l])
  BY LenProperties
<1>5. ASSUME NEW x \in Node
      PROVE  Cardinality({l \in List : x \in ToSet(Forward(l))})
                = (IF IsLinked(x) THEN 1 ELSE 0)
  <2>. DEFINE in == {l \in List : x \in ToSet(Forward(l))}
  <2>1. \A l \in List : l \in in <=> \E i \in 1..Len(s[l]) : s[l][i] = x
    BY <1>2, <1>4 DEF ToSet
  <2>2. CASE IsLinked(x)
    <3>1. PICK l \in List : \E i \in 1..Len(s[l]) : s[l][i] = x
      BY <1>1, <2>2, LinkedIsHeld DEF Held
    <3>2. \A m \in List : (\E i \in 1..Len(s[m]) : s[m][i] = x) => m = l
      BY <1>1, <3>1 DEF Represents, Apart
    <3>3. in = {l}
      <4>1. in \subseteq List
        OBVIOUS
      <4>. HIDE DEF in
      <4>. QED BY <2>1, <3>1, <3>2, <4>1
    <3>. HIDE DEF in
    <3>. QED BY <2>2, <3>3, FS_Singleton DEF in
  <2>3. CASE ~IsLinked(x)
    <3>1. in = {}
      BY <1>1, <2>1, <2>3, LinkedIsHeld DEF Held
    <3>. HIDE DEF in
    <3>. QED BY <2>3, <3>1, FS_EmptySet DEF in
  <2>. QED BY <2>2, <2>3
<1>. QED BY <1>2, <1>3, <1>5 DEF WellLinked

\* The two directions of a list always agree, its ends are closed, and
\* IsLinked tells of every node whether it is in a list, in one at most.
THEOREM AlwaysWellLinked == Spec => []WellLinked
  BY LinkedAlways, LinkedIsWellLinked, PTL

\* Each operation does to the sequences what its namesake in NodeLists does.
StepsMatch ==
    /\ \A node \in Node : Unlink(node) => NL!TakeOut(node)
    /\ \A node, nodeNew \in Node : IsLinked(node) =>
          /\ InsertBeforeNode(node, nodeNew) => NL!PutBefore(node, nodeNew)
          /\ InsertAfterNode(node, nodeNew) => NL!PutAfter(node, nodeNew)
    /\ \A l \in List, node \in Node :
          /\ LinkAtFront(l, node) => NL!LinkFront(node, l)
          /\ LinkAtBack(l, node) => NL!LinkBack(node, l)
    /\ \A l \in List : /\ ExtractFirstNode(l) => NL!TakeFirst(l)
                       /\ ExtractLastNode(l) => NL!TakeLast(l)

\* NL has the operators of LinkedLists too.
LEMMA SameOperators ==
    /\ \A list, x : NL!Unlinked(list, x) = Unlinked(list, x)
    /\ \A list, i, x : NL!Inserted(list, i, x) = Inserted(list, i, x)
    /\ \A list, x : NL!LinkedAtFront(list, x) = LinkedAtFront(list, x)
    /\ \A list, x : NL!LinkedAtBack(list, x) = LinkedAtBack(list, x)
    /\ \A list : NL!FirstNode(list) = FirstNode(list) /\ NL!Last(list) = Last(list)
<1>1. \A list, x : NL!Unlinked(list, x) = Unlinked(list, x)
  BY DEF NL!Unlinked, NL!RemoveFirst, NL!RemoveAt, NL!SelectInSeq, NL!Min,
         Unlinked, RemoveFirst, RemoveAt, SelectInSeq, Min
<1>2. \A list, i, x : NL!Inserted(list, i, x) = Inserted(list, i, x)
  BY DEF NL!Inserted, NL!InsertAt, Inserted, InsertAt
<1>3. \A list, x : /\ NL!LinkedAtFront(list, x) = LinkedAtFront(list, x)
                   /\ NL!LinkedAtBack(list, x) = LinkedAtBack(list, x)
  BY <1>1 DEF NL!LinkedAtFront, NL!LinkedAtBack, LinkedAtFront, LinkedAtBack
<1>4. \A list : NL!FirstNode(list) = FirstNode(list) /\ NL!Last(list) = Last(list)
  BY DEF NL!FirstNode, NL!Last, FirstNode, Last
<1>. QED BY <1>1, <1>2, <1>3, <1>4

\* They do so whenever the pointers spell sequences.
LEMMA StepImplements == Linked => StepsMatch
<1>. SUFFICES ASSUME Linked PROVE StepsMatch
  OBVIOUS
<1>1. PICK s \in [List -> Seq(Node)] : Represents(next, prev, s, {})
  BY DEF Linked
<1>2. Lists = s /\ Lists = [l \in List |-> Forward(l)]
  BY <1>1, StandFor DEF Lists
<1>3. Lists' = [l \in List |-> Forward(l)]'
  BY DEF Lists
<1>4. \A x : NL!Without(x) = Without(s, x)
  <2>1. \A l \in List : [m \in List |-> Forward(m)][l] = s[l]
    BY <1>2
  <2>2. SUFFICES ASSUME NEW x, NEW l \in List
                 PROVE  Unlinked([m \in List |-> Forward(m)][l], x) = Unlinked(s[l], x)
    BY SameOperators DEF NL!Without, Without
  <2>. QED BY <2>1
<1>5. ASSUME NEW x \in Node, Unlink(x)
      PROVE  NL!TakeOut(x)
  <2>1. Lists' = Without(s, x)
    BY <1>1, <1>5, UnlinkDoes, StandForNext
  <2>. QED BY <1>3, <1>4, <2>1 DEF NL!TakeOut
<1>6. ASSUME UNCHANGED vars
      PROVE  [l \in List |-> Forward(l)]' = [l \in List |-> Forward(l)]
  BY <1>6 DEF vars, Forward, Walk
<1>7. ASSUME NEW node \in Node, NEW x \in Node, IsLinked(node)
      PROVE  /\ InsertBeforeNode(node, x) => NL!PutBefore(node, x)
             /\ InsertAfterNode(node, x) => NL!PutAfter(node, x)
  <2>1. CASE node = x
    BY <1>6, <2>1 DEF InsertBeforeNode, InsertAfterNode,
                      NL!PutBefore, NL!PutAfter, NL!PutAt
  <2>2. CASE node # x
    <3>. DEFINE t == Without(s, x)
    <3>1. t = Without(s, x)
      OBVIOUS
    <3>. HIDE DEF t
    <3>2. \A l \in List : DOMAIN t[l] = 1..Len(t[l])
      BY <1>1, <3>1, WithoutIsApart, LenProperties
    <3>3. ASSUME InsertBeforeNode(node, x)
          PROVE  NL!PutBefore(node, x)
      <4>1. PICK l \in List : \E i \in 1..Len(t[l]) :
                    /\ t[l][i] = node
                    /\ Represents(next', prev', PutAs(t, l, i, 0, x), {})
        BY <1>1, <1>7, <2>2, <3>1, <3>3, PutNextDoes
      <4>2. PICK i \in 1..Len(t[l]) :
                    /\ t[l][i] = node
                    /\ Represents(next', prev', PutAs(t, l, i, 0, x), {})
        BY <4>1
      <4>3. Lists' = [t EXCEPT ![l] = Inserted(@, i + 0, x)]
        BY <4>2, StandForNext DEF PutAs
      <4>4. i \in DOMAIN t[l]
        BY <3>2
      <4>5. /\ NL!Without(x)[l][i] = node /\ i \in DOMAIN NL!Without(x)[l]
            /\ Lists' = [NL!Without(x) EXCEPT ![l] = Inserted(@, i + 0, x)]
        BY <1>4, <3>1, <4>2, <4>3, <4>4
      <4>. QED BY <1>3, <2>2, <4>5, SameOperators DEF NL!PutBefore, NL!PutAt
    <3>4. ASSUME InsertAfterNode(node, x)
          PROVE  NL!PutAfter(node, x)
      <4>1. PICK l \in List : \E i \in 1..Len(t[l]) :
                    /\ t[l][i] = node
                    /\ Represents(next', prev', PutAs(t, l, i, 1, x), {})
        BY <1>1, <1>7, <2>2, <3>1, <3>4, PutNextDoes
      <4>2. PICK i \in 1..Len(t[l]) :
                    /\ t[l][i] = node
                    /\ Represents(next', prev', PutAs(t, l, i, 1, x), {})
        BY <4>1
      <4>3. Lists' = [t EXCEPT ![l] = Inserted(@, i + 1, x)]
        BY <4>2, StandForNext DEF PutAs
      <4>4. i \in DOMAIN t[l]
        BY <3>2
      <4>5. /\ NL!Without(x)[l][i] = node /\ i \in DOMAIN NL!Without(x)[l]
            /\ Lists' = [NL!Without(x) EXCEPT ![l] = Inserted(@, i + 1, x)]
        BY <1>4, <3>1, <4>2, <4>3, <4>4
      <4>. QED BY <1>3, <2>2, <4>5, SameOperators DEF NL!PutAfter, NL!PutAt
    <3>. QED BY <3>3, <3>4
  <2>. QED BY <2>1, <2>2
<1>8. ASSUME NEW l \in List, NEW x \in Node
      PROVE  /\ LinkAtFront(l, x) => NL!LinkFront(x, l)
             /\ LinkAtBack(l, x) => NL!LinkBack(x, l)
  <2>. DEFINE t == Without(s, x)
  <2>1. t = Without(s, x)
    OBVIOUS
  <2>. HIDE DEF t
  <2>2. LinkAtFront(l, x) => Lists' = [t EXCEPT ![l] = LinkedAtFront(@, x)]
    BY <1>1, <2>1, LinkDoes, StandForNext
  <2>3. LinkAtBack(l, x) => Lists' = [t EXCEPT ![l] = LinkedAtBack(@, x)]
    BY <1>1, <2>1, LinkDoes, StandForNext
  <2>4. NL!Without(x) = t
    BY <1>4, <2>1
  <2>. QED BY ONLY <1>3, <2>2, <2>3, <2>4, SameOperators DEF NL!LinkFront, NL!LinkBack
<1>9. ASSUME NEW l \in List
      PROVE  /\ ExtractFirstNode(l) => NL!TakeFirst(l)
             /\ ExtractLastNode(l) => NL!TakeLast(l)
  <2>1. [m \in List |-> Forward(m)][l] = s[l]
    BY <1>2
  <2>2. CASE s[l] = <<>>
    BY <1>1, <1>6, <2>1, <2>2, ExtractDoes DEF NL!TakeFirst, NL!TakeLast
  <2>3. CASE s[l] # <<>>
    <3>1. /\ FirstNode(s[l]) \in Node /\ Last(s[l]) \in Node
          /\ ExtractFirstNode(l) => Unlink(FirstNode(s[l]))
          /\ ExtractLastNode(l) => Unlink(Last(s[l]))
      BY <1>1, <2>3, ExtractDoes
    <3>2. /\ ExtractFirstNode(l) => NL!TakeOut(FirstNode(s[l]))
          /\ ExtractLastNode(l) => NL!TakeOut(Last(s[l]))
      BY <1>5, <3>1
    <3>. QED BY <2>1, <2>3, <3>2, SameOperators DEF NL!TakeFirst, NL!TakeLast
  <2>. QED BY <2>2, <2>3
<1>. QED BY <1>5, <1>7, <1>8, <1>9 DEF StepsMatch

\* The pointers implement the sequences the other modules use.
THEOREM PointersImplementSequences == Spec => ImplementsSequences
<1>1. Init => NL!Init
  <2>1. SUFFICES ASSUME Init
                 PROVE  [l \in List |-> Forward(l)] = [l \in List |-> <<>>]
    BY DEF NL!Init
  <2>. QED BY <2>1, InitLinked, StandFor DEF Lists
<1>2. Linked => StepsMatch
  BY StepImplements
<1>3. [][StepsMatch]_vars /\ NL!Init => ImplementsSequences
  BY DEF StepsMatch, ImplementsSequences
<1>. QED BY <1>1, <1>2, <1>3, LinkedAlways, PTL DEF Spec
=============================================================================
