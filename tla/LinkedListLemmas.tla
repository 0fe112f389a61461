-------------------------- MODULE LinkedListLemmas --------------------------
(***************************************************************************)
(* What the operators of LinkedLists return, for lists of any length.      *)
(***************************************************************************)
EXTENDS LinkedLists, SequenceTheorems, WellFoundedInduction, TLAPS

\* Every nonempty set of naturals has a least element, so the walks that
\* stop at the first node of some kind are well defined.
LEMMA LeastNat ==
    ASSUME NEW T, T \subseteq Nat, T # {}
    PROVE  \E x \in T : \A y \in T : x <= y
<1>1. PICK x \in T : \A y \in T : ~ (<<y, x>> \in OpToRel(<, Nat))
  BY WFMin, NatLessThanWellFounded, Zenon
<1>2. \A y \in T : ~(y < x)
  BY <1>1, Zenon DEF OpToRel
<1>. QED BY <1>2

\* The elements of a list after the node at position p is taken out.
LEMMA RemoveAtProperties ==
    ASSUME NEW S, NEW list \in Seq(S), NEW p \in 1..Len(list)
    PROVE  /\ RemoveAt(list, p) \in Seq(S)
           /\ Len(RemoveAt(list, p)) = Len(list) - 1
           /\ \A i \in 1..(Len(list) - 1) :
                 RemoveAt(list, p)[i] = IF i < p THEN list[i] ELSE list[i+1]
<1>. DEFINE left == SubSeq(list, 1, p-1)
            right == SubSeq(list, p+1, Len(list))
<1>1. \A i \in 1..Len(list) : list[i] \in S
  BY ElementOfSeq
<1>2. Len(list) \in Nat
  BY LenProperties
<1>3. /\ left \in Seq(S) /\ Len(left) = p - 1
      /\ \A i \in 1..(p-1) : left[i] = list[i]
  BY <1>1, <1>2, SubSeqProperties
<1>4. /\ right \in Seq(S) /\ Len(right) = Len(list) - p
      /\ \A i \in 1..(Len(list) - p) : right[i] = list[p + i]
  BY <1>1, <1>2, SubSeqProperties
<1>5. RemoveAt(list, p) = left \o right
  BY DEF RemoveAt
<1>. HIDE DEF left, right
<1>6. /\ left \o right \in Seq(S)
      /\ Len(left \o right) = Len(left) + Len(right)
      /\ \A i \in 1..(Len(left) + Len(right)) :
            (left \o right)[i] = IF i <= Len(left) THEN left[i]
                                 ELSE right[i - Len(left)]
  BY <1>3, <1>4, ConcatProperties
<1>. QED BY <1>2, <1>3, <1>4, <1>5, <1>6

\* The elements of a list after a node is inserted at position p.
LEMMA InsertAtProperties ==
    ASSUME NEW S, NEW list \in Seq(S), NEW p \in 1..(Len(list) + 1),
           NEW node \in S
    PROVE  /\ InsertAt(list, p, node) \in Seq(S)
           /\ Len(InsertAt(list, p, node)) = Len(list) + 1
           /\ \A i \in 1..(Len(list) + 1) :
                 InsertAt(list, p, node)[i] =
                    IF i < p THEN list[i]
                    ELSE IF i = p THEN node ELSE list[i-1]
<1>. DEFINE left == SubSeq(list, 1, p-1)
            right == SubSeq(list, p, Len(list))
            mid == left \o <<node>>
<1>1. \A i \in 1..Len(list) : list[i] \in S
  BY ElementOfSeq
<1>2. Len(list) \in Nat
  BY LenProperties
<1>3. /\ left \in Seq(S) /\ Len(left) = p - 1
      /\ \A i \in 1..(p-1) : left[i] = list[i]
  BY <1>1, <1>2, SubSeqProperties
<1>4. /\ right \in Seq(S) /\ Len(right) = Len(list) - p + 1
      /\ \A i \in 1..(Len(list) - p + 1) : right[i] = list[p + i - 1]
  BY <1>1, <1>2, SubSeqProperties
<1>5. InsertAt(list, p, node) = mid \o right
  BY DEF InsertAt
<1>6. <<node>> \in Seq(S) /\ Len(<<node>>) = 1 /\ <<node>>[1] = node
  OBVIOUS
<1>. HIDE DEF left, right
<1>7. /\ mid \in Seq(S)
      /\ Len(mid) = p
      /\ \A i \in 1..p : mid[i] = IF i < p THEN left[i] ELSE node
  BY <1>3, <1>6, ConcatProperties
<1>. HIDE DEF mid
<1>8. /\ mid \o right \in Seq(S)
      /\ Len(mid \o right) = Len(mid) + Len(right)
      /\ \A i \in 1..(Len(mid) + Len(right)) :
            (mid \o right)[i] = IF i <= Len(mid) THEN mid[i]
                                ELSE right[i - Len(mid)]
  BY <1>4, <1>7, ConcatProperties
<1>. QED BY <1>2, <1>3, <1>4, <1>5, <1>7, <1>8

\* The elements of a list without the node at position p.
LEMMA UnlinkedAt ==
    ASSUME NEW S, NEW list \in Seq(S), NoRepeats(list), NEW p \in 1..Len(list)
    PROVE  /\ Unlinked(list, list[p]) \in Seq(S)
           /\ Len(Unlinked(list, list[p])) = Len(list) - 1
           /\ \A i \in 1..(Len(list) - 1) :
                 Unlinked(list, list[p])[i] = IF i < p THEN list[i] ELSE list[i+1]
<1>1. DOMAIN list = 1..Len(list)
  BY LenProperties
<1>2. {i \in 1..Len(list) : list[i] = list[p]} = {p}
  BY <1>1 DEF NoRepeats
<1>3. SelectInSeq(list, LAMBDA v : v = list[p]) = p
  <2>1. Min({p}) = p
    BY DEF Min
  <2>. QED BY <1>2, <2>1 DEF SelectInSeq
<1>4. Unlinked(list, list[p]) = RemoveAt(list, p)
  BY <1>3 DEF Unlinked, RemoveFirst
<1>. QED BY <1>4, RemoveAtProperties

\* Unlinking takes the node out and leaves the others in the order they
\* had: two nodes of the result stand in that order in the list as well.
LEMMA UnlinkedProperties ==
    ASSUME NEW S, NEW list \in Seq(S), NoRepeats(list), NEW node
    PROVE  /\ Unlinked(list, node) \in Seq(S)
           /\ NoRepeats(Unlinked(list, node))
           /\ ToSet(Unlinked(list, node)) = ToSet(list) \ {node}
           /\ \A i, j \in DOMAIN Unlinked(list, node) : i < j =>
                 \E k, l \in DOMAIN list :
                    /\ k < l
                    /\ Unlinked(list, node)[i] = list[k]
                    /\ Unlinked(list, node)[j] = list[l]
           /\ node \notin ToSet(list) => Unlinked(list, node) = list
           /\ list # <<>> /\ list[1] # node =>
                 /\ Unlinked(list, node) # <<>>
                 /\ Unlinked(list, node)[1] = list[1]
           /\ list # <<>> /\ list[1] = node => Unlinked(list, node) = Tail(list)
<1>. DEFINE out == Unlinked(list, node)
<1>0. /\ Len(list) \in Nat /\ DOMAIN list = 1..Len(list)
      /\ list = <<>> <=> Len(list) = 0
  BY LenProperties, EmptySeq
<1>1. CASE node \notin ToSet(list)
  <2>1. out = list
    BY <1>0, <1>1 DEF Unlinked, RemoveFirst, ToSet
  <2>2. ToSet(list) = ToSet(list) \ {node}
    BY <1>1
  <2>3. ASSUME list # <<>>
        PROVE  list[1] \in ToSet(list)
    BY <1>0, <2>3 DEF ToSet
  <2>4. list # <<>> => list[1] # node
    BY <1>1, <2>3
  <2>. HIDE DEF out
  <2>5. \A i, j \in DOMAIN out : i < j =>
           \E k, l \in DOMAIN list : k < l /\ out[i] = list[k] /\ out[j] = list[l]
    BY <2>1
  <2>. QED BY <1>1, <2>1, <2>2, <2>4, <2>5 DEF out
<1>2. CASE node \in ToSet(list)
  <2>1. PICK p \in 1..Len(list) : list[p] = node
    BY <1>0, <1>2 DEF ToSet
  <2>. HIDE DEF out
  <2>2. /\ out \in Seq(S) /\ Len(out) = Len(list) - 1
        /\ \A i \in 1..(Len(list) - 1) :
              out[i] = IF i < p THEN list[i] ELSE list[i+1]
    BY <2>1, UnlinkedAt DEF out
  <2>3. DOMAIN out = 1..(Len(list) - 1)
    BY <2>2, LenProperties
  <2>4. NoRepeats(out)
    <3>1. SUFFICES ASSUME NEW i \in 1..(Len(list) - 1), NEW j \in 1..(Len(list) - 1),
                          out[i] = out[j], i < j
                   PROVE  FALSE
      BY <1>0, <2>3 DEF NoRepeats
    <3>. DEFINE at(n) == IF n < p THEN n ELSE n + 1
    <3>2. at(i) \in DOMAIN list /\ at(j) \in DOMAIN list /\ at(i) < at(j)
      BY <1>0, <2>1, <3>1
    <3>3. out[i] = list[at(i)] /\ out[j] = list[at(j)]
      BY <2>2
    <3>. HIDE DEF at
    <3>4. at(i) = at(j)
      BY <3>1, <3>2, <3>3 DEF NoRepeats
    <3>. QED BY <1>0, <3>2, <3>4
  <2>5. ToSet(out) = ToSet(list) \ {node}
    <3>1. \A i \in 1..(Len(list) - 1) : out[i] \in ToSet(list) \ {node}
      BY <1>0, <2>1, <2>2 DEF NoRepeats, ToSet
    <3>2. ASSUME NEW k \in 1..Len(list), list[k] # node
          PROVE  list[k] \in ToSet(out)
      <4>1. CASE k < p
        BY <1>0, <2>1, <2>2, <2>3, <4>1 DEF ToSet
      <4>2. CASE k > p
        <5>1. k - 1 \in 1..(Len(list) - 1) /\ out[k - 1] = list[k]
          BY <1>0, <2>1, <2>2, <4>2
        <5>. QED BY <2>3, <5>1 DEF ToSet
      <4>. QED BY <1>0, <2>1, <3>2, <4>1, <4>2
    <3>. QED BY <1>0, <2>3, <3>1, <3>2 DEF ToSet
  <2>6. \A i, j \in DOMAIN out : i < j =>
           \E k, l \in DOMAIN list : k < l /\ out[i] = list[k] /\ out[j] = list[l]
    <3>1. SUFFICES ASSUME NEW i \in DOMAIN out, NEW j \in DOMAIN out, i < j
                   PROVE  \E k, l \in DOMAIN list :
                             k < l /\ out[i] = list[k] /\ out[j] = list[l]
      OBVIOUS
    <3>. DEFINE at(n) == IF n < p THEN n ELSE n + 1
    <3>2. at(i) \in DOMAIN list /\ at(j) \in DOMAIN list /\ at(i) < at(j)
      BY <1>0, <2>1, <2>3, <3>1
    <3>3. out[i] = list[at(i)] /\ out[j] = list[at(j)]
      BY <2>2, <2>3
    <3>. QED BY <3>2, <3>3
  <2>7. ASSUME list # <<>>, list[1] # node
         PROVE  out # <<>> /\ out[1] = list[1]
    <3>1. p > 1
      BY <2>1, <2>7
    <3>. QED BY <1>0, <2>1, <2>2, <3>1, EmptySeq
  <2>8. ASSUME list # <<>>, list[1] = node
         PROVE  out = Tail(list)
    <3>1. p = 1
      BY <1>0, <2>1, <2>8 DEF NoRepeats
    <3>2. /\ Tail(list) \in Seq(S) /\ Len(Tail(list)) = Len(list) - 1
          /\ \A i \in 1..(Len(list) - 1) : Tail(list)[i] = list[i+1]
      BY <2>8, HeadTailProperties
    <3>. QED BY <1>0, <2>2, <3>1, <3>2, SeqEqual
  <2>. QED BY <1>2, <2>2, <2>4, <2>5, <2>6, <2>7, <2>8 DEF out
<1>. QED BY <1>1, <1>2

\* Inserting a node that is not in the list adds it, once.
LEMMA InsertedProperties ==
    ASSUME NEW S, NEW list \in Seq(S), NoRepeats(list),
           NEW p \in 1..(Len(list) + 1), NEW node \in S, node \notin ToSet(list)
    PROVE  /\ Inserted(list, p, node) \in Seq(S)
           /\ Inserted(list, p, node) # <<>>
           /\ NoRepeats(Inserted(list, p, node))
           /\ ToSet(Inserted(list, p, node)) = ToSet(list) \cup {node}
<1>. DEFINE new == Inserted(list, p, node)
<1>0. Len(list) \in Nat /\ DOMAIN list = 1..Len(list)
  BY LenProperties
<1>1. /\ new \in Seq(S) /\ Len(new) = Len(list) + 1
      /\ \A i \in 1..(Len(list) + 1) :
            new[i] = IF i < p THEN list[i] ELSE IF i = p THEN node ELSE list[i-1]
  BY InsertAtProperties DEF Inserted
<1>. HIDE DEF new
<1>2. DOMAIN new = 1..(Len(list) + 1) /\ new # <<>>
  BY <1>0, <1>1, LenProperties, EmptySeq
<1>3. \A i \in 1..Len(list) : list[i] # node
  BY <1>0 DEF ToSet
<1>4. NoRepeats(new)
  <2>1. SUFFICES ASSUME NEW i \in 1..(Len(list) + 1),
                        NEW j \in 1..(Len(list) + 1), new[i] = new[j], i < j
                 PROVE  FALSE
    BY <1>0, <1>2 DEF NoRepeats
  <2>2. CASE i = p
    BY <1>0, <1>1, <1>3, <2>1, <2>2
  <2>3. CASE j = p
    BY <1>0, <1>1, <1>3, <2>1, <2>3
  <2>4. CASE i < p /\ j < p
    BY <1>0, <1>1, <2>1, <2>4 DEF NoRepeats
  <2>5. CASE i < p /\ j > p
    <3>1. new[i] = list[i] /\ new[j] = list[j-1] /\ j - 1 \in 1..Len(list)
          /\ i \in 1..Len(list) /\ i # j - 1
      BY <1>0, <1>1, <2>1, <2>5
    <3>. QED BY <1>0, <2>1, <3>1 DEF NoRepeats
  <2>6. CASE i > p /\ j > p
    <3>1. new[i] = list[i-1] /\ new[j] = list[j-1] /\ j - 1 \in 1..Len(list)
          /\ i - 1 \in 1..Len(list) /\ i - 1 # j - 1
      BY <1>0, <1>1, <2>1, <2>6
    <3>. QED BY <1>0, <2>1, <3>1 DEF NoRepeats
  <2>. QED BY <1>0, <2>1, <2>2, <2>3, <2>4, <2>5, <2>6
<1>5. ToSet(new) = ToSet(list) \cup {node}
  <2>1. \A i \in 1..(Len(list) + 1) : new[i] \in ToSet(list) \cup {node}
    BY <1>0, <1>1 DEF ToSet
  <2>2. node \in ToSet(new)
    BY <1>0, <1>1, <1>2 DEF ToSet
  <2>3. ASSUME NEW k \in 1..Len(list) PROVE list[k] \in ToSet(new)
    <3>1. CASE k < p
      BY <1>0, <1>1, <1>2, <3>1 DEF ToSet
    <3>2. CASE k >= p
      <4>1. k + 1 \in 1..(Len(list) + 1) /\ new[k + 1] = list[k]
        BY <1>0, <1>1, <3>2
      <4>. QED BY <1>2, <4>1 DEF ToSet
    <3>. QED BY <1>0, <3>1, <3>2
  <2>. QED BY <1>0, <1>2, <2>1, <2>2, <2>3 DEF ToSet
<1>. QED BY <1>1, <1>2, <1>4, <1>5 DEF new

\* Linking at the back moves the node, or adds it; no node repeats.
LEMMA LinkedAtBackProperties ==
    ASSUME NEW S, NEW list \in Seq(S), NoRepeats(list), NEW node \in S
    PROVE  /\ LinkedAtBack(list, node) \in Seq(S)
           /\ NoRepeats(LinkedAtBack(list, node))
           /\ ToSet(LinkedAtBack(list, node)) = ToSet(list) \cup {node}
<1>. DEFINE rest == Unlinked(list, node)
<1>1. /\ rest \in Seq(S) /\ NoRepeats(rest)
      /\ ToSet(rest) = ToSet(list) \ {node}
  BY UnlinkedProperties
<1>2. LinkedAtBack(list, node) = Append(rest, node)
  BY DEF LinkedAtBack
<1>. HIDE DEF rest
<1>3. Len(rest) \in Nat /\ DOMAIN rest = 1..Len(rest)
  BY <1>1, LenProperties
<1>4. /\ Append(rest, node) \in Seq(S)
      /\ DOMAIN Append(rest, node) = 1..(Len(rest) + 1)
      /\ \A i \in 1..Len(rest) : Append(rest, node)[i] = rest[i]
      /\ Append(rest, node)[Len(rest) + 1] = node
  BY <1>1, <1>3, AppendProperties
<1>5. \A i \in 1..Len(rest) : rest[i] # node
  BY <1>1, <1>3 DEF ToSet
<1>6. NoRepeats(Append(rest, node))
  BY <1>1, <1>3, <1>4, <1>5 DEF NoRepeats
<1>7. ToSet(Append(rest, node)) = ToSet(rest) \cup {node}
  BY <1>3, <1>4 DEF ToSet
<1>. QED BY <1>1, <1>2, <1>4, <1>6, <1>7

\* Linking at the front does so too.
LEMMA LinkedAtFrontProperties ==
    ASSUME NEW S, NEW list \in Seq(S), NoRepeats(list), NEW node \in S
    PROVE  /\ LinkedAtFront(list, node) \in Seq(S)
           /\ NoRepeats(LinkedAtFront(list, node))
           /\ ToSet(LinkedAtFront(list, node)) = ToSet(list) \cup {node}
<1>. DEFINE rest == Unlinked(list, node)
            new == <<node>> \o rest
<1>1. /\ rest \in Seq(S) /\ NoRepeats(rest)
      /\ ToSet(rest) = ToSet(list) \ {node}
  BY UnlinkedProperties
<1>2. LinkedAtFront(list, node) = new
  BY DEF LinkedAtFront
<1>. HIDE DEF rest
<1>3. Len(rest) \in Nat /\ DOMAIN rest = 1..Len(rest)
  BY <1>1, LenProperties
<1>4. <<node>> \in Seq(S) /\ Len(<<node>>) = 1 /\ <<node>>[1] = node
  OBVIOUS
<1>5. /\ new \in Seq(S) /\ Len(new) = Len(rest) + 1
      /\ new[1] = node
      /\ \A i \in 2..(Len(rest) + 1) : new[i] = rest[i-1]
  <2>1. /\ new \in Seq(S) /\ Len(new) = Len(<<node>>) + Len(rest)
        /\ \A i \in 1..(Len(<<node>>) + Len(rest)) :
              new[i] = IF i <= Len(<<node>>) THEN <<node>>[i]
                       ELSE rest[i - Len(<<node>>)]
    BY <1>1, <1>4, ConcatProperties
  <2>. HIDE DEF new
  <2>. QED BY <1>3, <1>4, <2>1
<1>. HIDE DEF new
<1>6. DOMAIN new = 1..(Len(rest) + 1)
  BY <1>3, <1>5, LenProperties
<1>7. \A i \in 1..Len(rest) : rest[i] # node
  BY <1>1, <1>3 DEF ToSet
<1>8. NoRepeats(new)
  <2>1. SUFFICES ASSUME NEW i \in 1..(Len(rest) + 1),
                        NEW j \in 1..(Len(rest) + 1), new[i] = new[j], i < j
                 PROVE  FALSE
    BY <1>3, <1>6 DEF NoRepeats
  <2>2. CASE i = 1
    <3>1. j - 1 \in 1..Len(rest) /\ new[j] = rest[j-1]
      BY <1>3, <1>5, <2>1, <2>2
    <3>. QED BY <1>5, <1>7, <2>1, <2>2, <3>1
  <2>3. CASE i # 1
    <3>1. /\ i - 1 \in 1..Len(rest) /\ j - 1 \in 1..Len(rest) /\ i - 1 # j - 1
          /\ new[i] = rest[i-1] /\ new[j] = rest[j-1]
      BY <1>3, <1>5, <2>1, <2>3
    <3>. QED BY <1>1, <1>3, <2>1, <3>1 DEF NoRepeats
  <2>. QED BY <2>2, <2>3
<1>9. ToSet(new) = ToSet(list) \cup {node}
  <2>1. \A i \in 1..(Len(rest) + 1) : new[i] \in ToSet(rest) \cup {node}
    <3>1. SUFFICES ASSUME NEW i \in 1..(Len(rest) + 1), i # 1
                   PROVE  new[i] \in ToSet(rest) \cup {node}
      BY <1>5
    <3>2. i - 1 \in 1..Len(rest) /\ new[i] = rest[i-1]
      BY <1>3, <1>5, <3>1
    <3>. QED BY <1>3, <3>2 DEF ToSet
  <2>2. \A k \in 1..Len(rest) : rest[k] \in ToSet(new)
    <3>1. SUFFICES ASSUME NEW k \in 1..Len(rest) PROVE rest[k] \in ToSet(new)
      OBVIOUS
    <3>2. k + 1 \in 1..(Len(rest) + 1) /\ new[k+1] = rest[k]
      BY <1>3, <1>5
    <3>. QED BY <1>6, <3>2 DEF ToSet
  <2>3. node \in ToSet(new)
    <3>1. 1 \in 1..(Len(rest) + 1)
      BY <1>3
    <3>. QED BY <1>5, <1>6, <3>1 DEF ToSet
  <2>4. ToSet(new) = ToSet(rest) \cup {node}
    BY <1>3, <1>6, <2>1, <2>2, <2>3 DEF ToSet
  <2>. QED BY <1>1, <2>4
<1>. QED BY <1>2, <1>5, <1>8, <1>9

\* Extracting the first node.
LEMMA TailProperties ==
    ASSUME NEW S, NEW list \in Seq(S), NoRepeats(list), list # <<>>
    PROVE  /\ Tail(list) \in Seq(S)
           /\ NoRepeats(Tail(list))
           /\ ToSet(Tail(list)) = ToSet(list) \ {list[1]}
           /\ list[1] \in ToSet(list) /\ list[1] \in S
<1>1. Len(list) \in Nat \ {0} /\ DOMAIN list = 1..Len(list)
  BY LenProperties, EmptySeq
<1>2. Unlinked(list, list[1]) = Tail(list)
  BY UnlinkedProperties
<1>3. list[1] \in S
  BY <1>1, ElementOfSeq
<1>4. list[1] \in ToSet(list)
  BY <1>1 DEF ToSet
<1>. DEFINE first == list[1]
<1>5. /\ Unlinked(list, first) \in Seq(S)
      /\ NoRepeats(Unlinked(list, first))
      /\ ToSet(Unlinked(list, first)) = ToSet(list) \ {first}
  <2>. HIDE DEF first
  <2>. QED BY UnlinkedProperties
<1>. QED BY <1>2, <1>3, <1>4, <1>5

\* A node that was not in the list is linked at the front by inserting it at
\* the first position, and at the back by inserting it after the last.
LEMMA LinkedAtEnds ==
    ASSUME NEW S, NEW list \in Seq(S), NoRepeats(list),
           NEW node \in S, node \notin ToSet(list)
    PROVE  /\ LinkedAtFront(list, node) = Inserted(list, 1, node)
           /\ LinkedAtBack(list, node) = Inserted(list, Len(list) + 1, node)
<1>1. Unlinked(list, node) = list /\ Len(list) \in Nat
  BY UnlinkedProperties, LenProperties
<1>2. LinkedAtFront(list, node) = Inserted(list, 1, node)
  <2>. DEFINE one == <<node>>
              is == one \o list
              new == InsertAt(list, 1, node)
  <2>1. LinkedAtFront(list, node) = is /\ Inserted(list, 1, node) = new
    BY <1>1 DEF LinkedAtFront, Inserted
  <2>2. one \in Seq(S) /\ Len(one) = 1 /\ one[1] = node
    OBVIOUS
  <2>. HIDE DEF one
  <2>3. /\ is \in Seq(S) /\ Len(is) = Len(list) + 1
        /\ \A i \in 1..(Len(list) + 1) :
              is[i] = IF i <= 1 THEN one[i] ELSE list[i - 1]
    <3>1. /\ is \in Seq(S) /\ Len(is) = Len(one) + Len(list)
          /\ \A i \in 1..(Len(one) + Len(list)) :
                is[i] = IF i <= Len(one) THEN one[i] ELSE list[i - Len(one)]
      BY <2>2, ConcatProperties
    <3>. HIDE DEF is
    <3>. QED BY <1>1, <2>2, <3>1
  <2>4. 1 \in 1..(Len(list) + 1)
    BY <1>1
  <2>5. /\ new \in Seq(S) /\ Len(new) = Len(list) + 1
        /\ \A i \in 1..(Len(list) + 1) :
              new[i] = IF i < 1 THEN list[i] ELSE IF i = 1 THEN node ELSE list[i - 1]
    BY <2>4, InsertAtProperties
  <2>. HIDE DEF is, new
  <2>6. \A i \in 1..Len(is) : is[i] = new[i]
    <3>1. ASSUME NEW i \in 1..(Len(list) + 1), i # 1
          PROVE  is[i] = new[i]
      BY <1>1, <2>3, <2>5, <3>1
    <3>2. is[1] = new[1]
      <4>1. is[1] = one[1]
        BY <2>3, <2>4
      <4>2. new[1] = node
        BY <2>4, <2>5
      <4>. QED BY <2>2, <4>1, <4>2
    <3>. QED BY <2>3, <3>1, <3>2
  <2>7. is = new
    BY <2>3, <2>5, <2>6, SeqEqual
  <2>. QED BY <2>1, <2>7
<1>3. LinkedAtBack(list, node) = Inserted(list, Len(list) + 1, node)
  <2>. DEFINE last == Len(list) + 1
              is == Append(list, node)
              new == InsertAt(list, last, node)
  <2>1. LinkedAtBack(list, node) = is /\ Inserted(list, Len(list) + 1, node) = new
    BY <1>1 DEF LinkedAtBack, Inserted
  <2>2. last = Len(list) + 1
    OBVIOUS
  <2>3. last \in 1..(Len(list) + 1)
    BY <1>1
  <2>. HIDE DEF last
  <2>4. /\ is \in Seq(S) /\ Len(is) = Len(list) + 1
        /\ \A i \in 1..Len(list) : is[i] = list[i]
        /\ is[last] = node
    BY <1>1, <2>2, AppendProperties
  <2>5. /\ new \in Seq(S) /\ Len(new) = Len(list) + 1
        /\ \A i \in 1..(Len(list) + 1) :
              new[i] = IF i < last THEN list[i] ELSE IF i = last THEN node ELSE list[i - 1]
    BY <2>3, InsertAtProperties
  <2>. HIDE DEF is, new
  <2>6. \A i \in 1..Len(is) : is[i] = new[i]
    <3>1. \A i \in 1..Len(is) : (i \in 1..Len(list) /\ i < last) \/ i = last
      BY <1>1, <2>2, <2>4
    <3>. QED BY <1>1, <2>2, <2>4, <2>5, <3>1
  <2>7. is = new
    BY <2>4, <2>5, <2>6, SeqEqual
  <2>. QED BY <2>1, <2>7
<1>. QED BY <1>2, <1>3
=============================================================================
