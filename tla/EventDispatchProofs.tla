------------------------- MODULE EventDispatchProofs -------------------------
(***************************************************************************)
(* Proofs about EventDispatch.  What a walk knows about the event's table  *)
(* is WalkInv, for one walk and one table, and a lemma for each thing that *)
(* may happen to the table under it.  PassedBy also counts the places that *)
(* a walk has left behind the end of a table that has become shorter: what *)
(* is registered there later is passed over too.                           *)
(***************************************************************************)
EXTENDS EventDispatch, SequenceTheorems, FiniteSetTheorems, TLAPS

WalkSet(n) == [index : Nat, called : Seq(1..n), removals : Nat]

\* A table is in the order of its registrations.
TableInv(table, n) ==
    /\ table \in Seq(1..n)
    /\ \A i, j \in 1..Len(table) : i < j => table[i] < table[j]

\* The places that a walk has passed without calling what is there now.
PassedBy(walk, table) ==
    {i \in 1..walk.index : i > Len(table) \/ table[i] \notin Range(walk.called)}

InOrder(walk, table) ==
    /\ \A i, j \in 1..Len(walk.called) : i < j => walk.called[i] < walk.called[j]
    /\ \A i \in 1..Len(walk.called), j \in 1..Len(table) :
         j > walk.index => walk.called[i] < table[j]

\* Without a removal everything up to the walk's place was called.
CalledAll(walk, table) ==
    walk.removals = 0 =>
      \A i \in 1..Len(table) : i <= walk.index => table[i] \in Range(walk.called)

WalkInv(walk, table, n) ==
    /\ walk \in WalkSet(n)
    /\ walk.index <= Len(table) + walk.removals
    /\ InOrder(walk, table)
    /\ CalledAll(walk, table)
    /\ Cardinality(PassedBy(walk, table)) <= walk.removals

Inv ==
    /\ callbackOf \in Seq(Callbacks) /\ Len(callbackOf) <= MaxRegistrations
    /\ TableInv(event, Len(callbackOf))
    /\ walks \in Seq(WalkSet(Len(callbackOf))) /\ Len(walks) <= MaxDepth
    /\ \A w \in 1..Len(walks) : WalkInv(walks[w], event, Len(callbackOf))

-----------------------------------------------------------------------------
\* Sequences: what Append and RemoveAt do to the places of a table.
LEMMA AppendIndex ==
    ASSUME NEW S, NEW s \in Seq(S), NEW e \in S
    PROVE  /\ Append(s, e) \in Seq(S) /\ Len(Append(s, e)) = Len(s) + 1
           /\ \A j \in 1..Len(s) : Append(s, e)[j] = s[j]
           /\ Append(s, e)[Len(s) + 1] = e
  OBVIOUS

LEMMA RemoveAtIndex ==
    ASSUME NEW S, NEW s \in Seq(S), NEW i \in 1..Len(s)
    PROVE  /\ RemoveAt(s, i) \in Seq(S) /\ Len(RemoveAt(s, i)) = Len(s) - 1
           /\ \A j \in 1..(Len(s) - 1) :
                RemoveAt(s, i)[j] = IF j < i THEN s[j] ELSE s[j + 1]
<1> DEFINE a == SubSeq(s, 1, i - 1)
           b == SubSeq(s, i + 1, Len(s))
<1>1. /\ a \in Seq(S) /\ Len(a) = i - 1
      /\ \A j \in 1..(i - 1) : a[j] = s[j]
  <2>1. i - 1 \in Int /\ \A j \in 1..(i - 1) : s[j] \in S
    OBVIOUS
  <2> QED
    BY <2>1, SubSeqProperties
<1>2. /\ b \in Seq(S) /\ Len(b) = Len(s) - i
      /\ \A j \in 1..(Len(s) - i) : b[j] = s[j + i]
  <2>1. /\ i + 1 \in Int /\ Len(s) \in Int
        /\ \A j \in (i + 1)..Len(s) : s[j] \in S
    OBVIOUS
  <2>2. /\ b \in Seq(S)
        /\ Len(b) = IF i + 1 <= Len(s) THEN Len(s) - (i + 1) + 1 ELSE 0
        /\ \A j \in 1..(Len(s) - (i + 1) + 1) : b[j] = s[(i + 1) + j - 1]
    BY <2>1, SubSeqProperties
  <2> QED
    BY <2>2
<1> DEFINE c == a \o b
<1>3. /\ c \in Seq(S) /\ Len(c) = Len(a) + Len(b)
      /\ \A j \in 1..(Len(a) + Len(b)) : c[j] = IF j <= Len(a) THEN a[j] ELSE b[j - Len(a)]
  BY <1>1, <1>2, ConcatProperties
<1>4. RemoveAt(s, i) = c
  BY DEF RemoveAt
<1>5. Len(s) \in Nat /\ i \in Int /\ 1 <= i /\ i <= Len(s)
  OBVIOUS
<1> HIDE DEF a, b, c
<1>6. Len(a) = i - 1 /\ Len(b) = Len(s) - i /\ Len(c) = Len(s) - 1
  BY <1>1, <1>2, <1>3, <1>5
<1>7. ASSUME NEW j \in Int, 1 <= j, j <= Len(s) - 1, j < i PROVE c[j] = s[j]
  BY <1>1, <1>3, <1>5, <1>6, <1>7
<1>8. ASSUME NEW j \in Int, 1 <= j, j <= Len(s) - 1, ~(j < i) PROVE c[j] = s[j + 1]
  <2>1. j - (i - 1) \in 1..(Len(s) - i) /\ (j - (i - 1)) + i = j + 1 /\ ~(j <= i - 1)
    BY <1>5, <1>8
  <2>2. c[j] = b[j - (i - 1)]
    BY <1>3, <1>5, <1>6, <1>8, <2>1
  <2> QED
    BY <1>2, <2>1, <2>2
<1> QED
  BY <1>3, <1>4, <1>5, <1>6, <1>7, <1>8

LEMMA PassedByFinite ==
    ASSUME NEW walk, walk.index \in Nat, NEW table
    PROVE  IsFiniteSet(PassedBy(walk, table)) /\ Cardinality(PassedBy(walk, table)) \in Nat
<1>1. IsFiniteSet(1..walk.index)
  BY FS_Interval
<1> QED
  BY <1>1, FS_Subset, FS_CardinalityType DEF PassedBy

-----------------------------------------------------------------------------
\* The table itself.
LEMMA TableRegistered ==
    ASSUME NEW n \in Nat, NEW table, TableInv(table, n)
    PROVE  TableInv(Append(table, n + 1), n + 1)
<1>1. table \in Seq(1..(n + 1))
  BY SeqMonotonic DEF TableInv
<1>2. \A i \in 1..Len(table) : table[i] <= n
  BY ElementOfSeq DEF TableInv
<1> DEFINE new == Append(table, n + 1)
<1>3. /\ new \in Seq(1..(n + 1)) /\ Len(table) \in Nat /\ Len(new) = Len(table) + 1
      /\ \A j \in 1..Len(table) : new[j] = table[j]
      /\ new[Len(table) + 1] = n + 1
  BY <1>1, AppendIndex
<1> HIDE DEF new
<1>4. ASSUME NEW i \in 1..Len(new), NEW j \in 1..Len(new), i < j PROVE new[i] < new[j]
  <2>0. i \in 1..Len(table)
    BY <1>3, <1>4
  <2>1. i \in 1..Len(table) /\ table[i] \in 1..n
    BY <2>0, ElementOfSeq DEF TableInv
  <2>2. CASE j = Len(table) + 1
    BY <1>3, <2>1, <2>2
  <2>3. CASE j \in 1..Len(table)
    BY <1>3, <1>4, <2>1, <2>3 DEF TableInv
  <2> QED
    BY <1>3, <2>2, <2>3
<1>5. TableInv(new, n + 1)
  BY <1>3, <1>4 DEF TableInv
<1> QED
  BY <1>5 DEF new

LEMMA TableRemoved ==
    ASSUME NEW n \in Nat, NEW table, TableInv(table, n), NEW i \in 1..Len(table)
    PROVE  TableInv(RemoveAt(table, i), n)
<1> DEFINE new == RemoveAt(table, i)
<1>1. /\ new \in Seq(1..n) /\ Len(table) \in Nat /\ Len(new) = Len(table) - 1
      /\ \A j \in 1..(Len(table) - 1) : new[j] = IF j < i THEN table[j] ELSE table[j + 1]
  BY RemoveAtIndex DEF TableInv
<1> HIDE DEF new
<1>2. ASSUME NEW j \in 1..Len(new), NEW k \in 1..Len(new), j < k PROVE new[j] < new[k]
  <2>1. /\ j \in 1..(Len(table) - 1) /\ k \in 1..(Len(table) - 1)
        /\ j \in 1..Len(table) /\ j + 1 \in 1..Len(table)
        /\ k \in 1..Len(table) /\ k + 1 \in 1..Len(table)
    BY <1>1
  <2>2. Len(table) \in Nat /\ i \in Int /\ j \in Int /\ k \in Int
    BY <1>1, <2>1
  <2>3. \A x, y \in 1..Len(table) : x < y => table[x] < table[y]
    BY DEF TableInv
  <2>4. CASE k < i
    BY <1>1, <1>2, <2>1, <2>2, <2>3, <2>4
  <2>5. CASE j < i /\ ~(k < i)
    <3>1. new[j] = table[j] /\ new[k] = table[k + 1] /\ j < k + 1
      BY <1>1, <1>2, <2>1, <2>2, <2>5
    <3> QED
      BY <2>1, <2>3, <3>1
  <2>6. CASE ~(j < i)
    <3>0. ~(k < i) /\ j + 1 < k + 1
      BY <1>2, <2>2, <2>6
    <3>1. new[j] = table[j + 1] /\ new[k] = table[k + 1] /\ j + 1 < k + 1
      BY <1>1, <2>1, <2>6, <3>0
    <3> QED
      BY <2>1, <2>3, <3>1
  <2> QED
    BY <1>2, <2>2, <2>4, <2>5, <2>6
<1>3. TableInv(new, n)
  BY <1>1, <1>2 DEF TableInv
<1> QED
  BY <1>3 DEF new

-----------------------------------------------------------------------------
\* A walk that begins.
LEMMA WalkBegins ==
    ASSUME NEW n \in Nat, NEW table, TableInv(table, n)
    PROVE  WalkInv(Walk(0, <<>>, 0), table, n)
<1> DEFINE new == Walk(0, <<>>, 0)
<1>1. new \in WalkSet(n) /\ new.index = 0 /\ new.removals = 0 /\ Len(new.called) = 0
  BY EmptySeq DEF Walk, WalkSet
<1>2. Len(table) \in Nat
  BY DEF TableInv
<1> HIDE DEF new
<1>3. Cardinality(PassedBy(new, table)) = 0
  <2>1. PassedBy(new, table) = {}
    BY <1>1 DEF PassedBy
  <2> QED
    BY <2>1, FS_EmptySet
<1>4. InOrder(new, table) /\ CalledAll(new, table)
  BY <1>1, <1>2 DEF InOrder, CalledAll
<1>5. WalkInv(new, table, n)
  BY <1>1, <1>2, <1>3, <1>4 DEF WalkInv
<1> QED
  BY <1>5 DEF new

\* A walk under which a callback is registered.
LEMMA WalkRegistered ==
    ASSUME NEW n \in Nat, NEW table, TableInv(table, n), NEW walk, WalkInv(walk, table, n)
    PROVE  WalkInv(walk, Append(table, n + 1), n + 1)
<1> DEFINE new == Append(table, n + 1)
<1>1. /\ Len(table) \in Nat /\ Len(new) = Len(table) + 1
      /\ \A j \in 1..Len(table) : new[j] = table[j]
      /\ new[Len(table) + 1] = n + 1
  BY SeqMonotonic, AppendIndex DEF TableInv
<1>2. walk \in WalkSet(n + 1) /\ walk \in WalkSet(n)
  <2>1. walk.called \in Seq(1..(n + 1))
    BY SeqMonotonic DEF WalkInv, WalkSet
  <2> QED
    BY <2>1 DEF WalkInv, WalkSet
<1>3. \A i \in 1..Len(walk.called) : walk.called[i] \in 1..n
  BY <1>2, ElementOfSeq DEF WalkSet
<1> HIDE DEF new
<1>4. InOrder(walk, new)
  <2>1. ASSUME NEW i \in 1..Len(walk.called), NEW j \in 1..Len(new), j > walk.index
        PROVE  walk.called[i] < new[j]
    <3>1. CASE j = Len(table) + 1
      BY <1>1, <1>3, <3>1
    <3>2. CASE j \in 1..Len(table)
      BY <1>1, <2>1, <3>2 DEF InOrder, WalkInv
    <3> QED
      BY <1>1, <3>1, <3>2
  <2>2. InOrder(walk, table)
    BY DEF WalkInv
  <2> QED
    BY <2>1, <2>2 DEF InOrder
<1>5. CalledAll(walk, new)
  <2> SUFFICES ASSUME walk.removals = 0, NEW i \in 1..Len(new), i <= walk.index
               PROVE  new[i] \in Range(walk.called)
    BY DEF CalledAll
  <2>1. i \in 1..Len(table)
    BY <1>1, <1>2 DEF WalkInv, WalkSet
  <2> QED
    BY <1>1, <2>1 DEF CalledAll, WalkInv
<1>6. PassedBy(walk, new) \subseteq PassedBy(walk, table)
  BY <1>1, <1>2 DEF PassedBy, WalkSet
<1>7. Cardinality(PassedBy(walk, new)) <= walk.removals
  BY <1>2, <1>6, PassedByFinite, FS_Subset DEF WalkInv, WalkSet
<1>8. WalkInv(walk, new, n + 1)
  BY <1>1, <1>2, <1>4, <1>5, <1>7 DEF WalkInv, WalkSet
<1> QED
  BY <1>8 DEF new

\* A walk that goes on: the next place is not passed over.
LEMMA WalkCalls ==
    ASSUME NEW n \in Nat, NEW table, TableInv(table, n), NEW walk, WalkInv(walk, table, n),
           walk.index < Len(table)
    PROVE  WalkInv(Walk(walk.index + 1, Append(walk.called, table[walk.index + 1]),
                        walk.removals), table, n)
<1> DEFINE place == walk.index + 1
           old == walk.called
           called == Append(old, table[place])
           next == Walk(place, called, walk.removals)
<1>1. /\ walk.index \in Nat /\ walk.removals \in Nat /\ old \in Seq(1..n)
      /\ Len(table) \in Nat /\ place \in 1..Len(table) /\ table[place] \in 1..n
  BY ElementOfSeq DEF WalkInv, WalkSet, TableInv
<1>2. InOrder(walk, table) /\ CalledAll(walk, table)
      /\ Cardinality(PassedBy(walk, table)) <= walk.removals
      /\ \A i, j \in 1..Len(table) : i < j => table[i] < table[j]
  BY DEF WalkInv, TableInv
<1> HIDE DEF old
<1>3. Len(old) \in Nat /\ DOMAIN old = 1..Len(old) /\ \A i \in 1..Len(old) : old[i] \in 1..n
  BY <1>1, LenProperties, ElementOfSeq
<1>4. /\ called \in Seq(1..n) /\ Len(called) = Len(old) + 1
      /\ \A j \in 1..Len(old) : called[j] = old[j]
      /\ called[Len(old) + 1] = table[place]
  BY <1>1, AppendIndex
<1>5. DOMAIN called = 1..(Len(old) + 1)
  BY <1>4, LenProperties
<1>6. /\ next.index = place /\ next.called = called /\ next.removals = walk.removals
      /\ next \in WalkSet(n)
  BY <1>1, <1>4 DEF Walk, WalkSet
<1>7. place = walk.index + 1 /\ walk.called = old
  BY DEF old
<1> HIDE DEF place, called, next
<1>8. Range(called) = Range(old) \cup {table[place]}
  <2> DEFINE end == Len(old) + 1
  <2>1. Range(called) = {called[i] : i \in 1..end} /\ Range(old) = {old[i] : i \in 1..Len(old)}
    BY <1>3, <1>5 DEF Range
  <2>2. 1..end = 1..Len(old) \cup {end}
    BY <1>3
  <2>3. called[end] = table[place] /\ \A i \in 1..Len(old) : called[i] = old[i]
    BY <1>4
  <2> HIDE DEF end
  <2> QED
    BY <2>1, <2>2, <2>3
<1>9. InOrder(next, table)
  <2>1. ASSUME NEW i \in 1..Len(called), NEW j \in 1..Len(called), i < j
        PROVE  called[i] < called[j]
    <3>1. i \in 1..Len(old)
      BY <1>3, <1>4, <2>1
    <3>2. CASE j = Len(old) + 1
      <4>1. old[i] < table[place]
        <5>1. place > walk.index
          BY <1>1, <1>7
        <5> QED
          BY <1>1, <1>2, <1>7, <3>1, <5>1 DEF InOrder
      <4> QED
        BY <1>4, <3>1, <3>2, <4>1
    <3>3. CASE j \in 1..Len(old)
      BY <1>2, <1>4, <1>7, <2>1, <3>1, <3>3 DEF InOrder
    <3> QED
      BY <1>3, <1>4, <3>2, <3>3
  <2>2. ASSUME NEW i \in 1..Len(called), NEW j \in 1..Len(table), j > place
        PROVE  called[i] < table[j]
    <3>1. CASE i = Len(old) + 1
      BY <1>1, <1>2, <1>4, <2>2, <3>1
    <3>2. CASE i \in 1..Len(old)
      <4>1. j > walk.index
        BY <1>1, <1>7, <2>2
      <4> QED
        BY <1>2, <1>4, <1>7, <3>2, <4>1 DEF InOrder
    <3> QED
      BY <1>3, <1>4, <3>1, <3>2
  <2> QED
    BY <1>6, <2>1, <2>2 DEF InOrder
<1>10. CalledAll(next, table)
  <2> SUFFICES ASSUME walk.removals = 0, NEW i \in 1..Len(table), i <= place
               PROVE  table[i] \in Range(called)
    BY <1>6 DEF CalledAll
  <2>1. i = place \/ i <= walk.index
    BY <1>1, <1>7
  <2> QED
    BY <1>2, <1>7, <1>8, <2>1 DEF CalledAll
<1>11. Cardinality(PassedBy(next, table)) <= walk.removals
  <2>1. IsFiniteSet(PassedBy(walk, table)) /\ Cardinality(PassedBy(walk, table)) \in Nat
    BY <1>1, PassedByFinite
  <2>2. PassedBy(next, table) \subseteq PassedBy(walk, table)
    BY <1>1, <1>6, <1>7, <1>8 DEF PassedBy
  <2>3. /\ IsFiniteSet(PassedBy(next, table))
        /\ Cardinality(PassedBy(next, table)) <= Cardinality(PassedBy(walk, table))
    BY <2>1, <2>2, FS_Subset
  <2>4. Cardinality(PassedBy(next, table)) \in Nat
    BY <2>3, FS_CardinalityType
  <2> QED
    BY <1>1, <1>2, <2>1, <2>3, <2>4
<1>12. WalkInv(next, table, n)
  BY <1>1, <1>6, <1>9, <1>10, <1>11 DEF WalkInv
<1> QED
  BY <1>12 DEF next, called, place, old

\* A walk under which a callback is unregistered: at or before its place, the places
\* behind move up, and one that it has not called takes its own.
LEMMA PassedByRemoved ==
    ASSUME NEW S, NEW table \in Seq(S), NEW i \in 1..Len(table),
           NEW walk, walk.index \in Nat, i <= walk.index,
           NEW next, next.index = walk.index, next.called = walk.called
    PROVE  Cardinality(PassedBy(next, RemoveAt(table, i)))
             <= Cardinality(PassedBy(walk, table)) + 1
<1> DEFINE new == RemoveAt(table, i)
           passed == PassedBy(walk, table)
           shift == [k \in passed |-> IF k < i THEN k ELSE k - 1]
           moved == {shift[k] : k \in passed}
<1>1. /\ Len(table) \in Nat /\ i \in Int /\ 1 <= i /\ i <= Len(table)
      /\ Len(new) = Len(table) - 1
      /\ \A j \in 1..(Len(table) - 1) : new[j] = IF j < i THEN table[j] ELSE table[j + 1]
  BY RemoveAtIndex
<1>2. IsFiniteSet(passed) /\ Cardinality(passed) \in Nat
  BY PassedByFinite
<1>3. IsFiniteSet(moved) /\ Cardinality(moved) <= Cardinality(passed)
  <2> HIDE DEF passed
  <2>1. shift \in Surjection(passed, moved)
    BY DEF Surjection
  <2> HIDE DEF shift, moved
  <2> QED
    BY <1>2, <2>1, FS_Surjection
<1>4. PassedBy(next, new) \subseteq moved \cup {walk.index}
  <2> SUFFICES ASSUME NEW p \in PassedBy(next, new), p # walk.index
               PROVE  p \in moved
    OBVIOUS
  <2> HIDE DEF new
  <2>1. /\ p \in Int /\ 1 <= p /\ p < walk.index
        /\ p > Len(table) - 1 \/ new[p] \notin Range(walk.called)
    BY <1>1 DEF PassedBy
  <2>2. CASE p < i
    <3>1. p \in passed
      BY <1>1, <2>1, <2>2 DEF PassedBy
    <3> QED
      BY <2>2, <3>1
  <2>3. CASE ~(p < i)
    <3>1. p + 1 \in passed
      <4>1. p + 1 \in 1..walk.index
        BY <2>1
      <4>2. p + 1 > Len(table) \/ table[p + 1] \notin Range(walk.called)
        BY <1>1, <2>1, <2>3
      <4> QED
        BY <4>1, <4>2 DEF PassedBy
    <3>2. ~(p + 1 < i) /\ (p + 1) - 1 = p
      BY <1>1, <2>1, <2>3
    <3> QED
      BY <3>1, <3>2
  <2> QED
    BY <2>2, <2>3
<1> HIDE DEF new, passed, moved
<1>5. /\ IsFiniteSet(moved \cup {walk.index})
      /\ Cardinality(moved \cup {walk.index}) <= Cardinality(moved) + 1
      /\ Cardinality(moved) \in Nat /\ Cardinality(moved \cup {walk.index}) \in Nat
  <2>1. Cardinality(moved) \in Nat
    BY <1>3, FS_CardinalityType
  <2>2. /\ IsFiniteSet(moved \cup {walk.index})
        /\ Cardinality(moved \cup {walk.index}) =
             IF walk.index \in moved THEN Cardinality(moved) ELSE Cardinality(moved) + 1
    BY <1>3, FS_AddElement
  <2> QED
    BY <2>1, <2>2
<1>6. /\ Cardinality(PassedBy(next, new)) <= Cardinality(moved \cup {walk.index})
      /\ Cardinality(PassedBy(next, new)) \in Nat
  BY <1>4, <1>5, FS_Subset, FS_CardinalityType
<1>7. Cardinality(PassedBy(next, new)) <= Cardinality(passed) + 1
  BY <1>2, <1>3, <1>5, <1>6
<1> QED
  BY <1>7 DEF new, passed

LEMMA WalkRemoved ==
    ASSUME NEW n \in Nat, NEW table, TableInv(table, n), NEW i \in 1..Len(table),
           NEW walk, WalkInv(walk, table, n)
    PROVE  WalkInv(IF i <= walk.index THEN [walk EXCEPT !.removals = @ + 1] ELSE walk,
                   RemoveAt(table, i), n)
<1> DEFINE new == RemoveAt(table, i)
           next == [walk EXCEPT !.removals = @ + 1]
<1>1. /\ table \in Seq(1..n) /\ Len(table) \in Nat /\ i \in Int /\ 1 <= i /\ i <= Len(table)
      /\ Len(new) = Len(table) - 1
      /\ \A j \in 1..(Len(table) - 1) : new[j] = IF j < i THEN table[j] ELSE table[j + 1]
  BY RemoveAtIndex DEF TableInv
<1>2. /\ walk \in WalkSet(n) /\ walk.index \in Nat /\ walk.removals \in Nat
      /\ walk.called \in Seq(1..n)
      /\ InOrder(walk, table) /\ CalledAll(walk, table)
      /\ walk.index <= Len(table) + walk.removals
      /\ Cardinality(PassedBy(walk, table)) <= walk.removals
  BY DEF WalkInv, WalkSet
<1>3. /\ next \in WalkSet(n) /\ next.index = walk.index /\ next.called = walk.called
      /\ next.removals = walk.removals + 1
  BY <1>2 DEF WalkSet
<1> HIDE DEF new, next
<1>num. /\ Len(table) \in Nat /\ i \in Int /\ 1 <= i /\ i <= Len(table)
        /\ Len(new) = Len(table) - 1 /\ walk.index \in Nat /\ walk.removals \in Nat
        /\ walk.index <= Len(table) + walk.removals
  BY <1>1, <1>2
<1>4. InOrder(walk, new)
  <2>1. ASSUME NEW k \in 1..Len(walk.called), NEW j \in 1..Len(new), j > walk.index
        PROVE  walk.called[k] < new[j]
    <3>1. /\ j \in 1..(Len(table) - 1) /\ j \in 1..Len(table) /\ j + 1 \in 1..Len(table)
          /\ j + 1 > walk.index
      <4>1. j \in Int /\ 1 <= j /\ j <= Len(table) - 1
        BY <1>num
      <4> QED
        BY <1>num, <2>1, <4>1
    <3>2. new[j] = table[j] \/ new[j] = table[j + 1]
      BY <1>1, <3>1
    <3> QED
      BY <1>2, <2>1, <3>1, <3>2 DEF InOrder
  <2> QED
    BY <1>2, <2>1 DEF InOrder
<1>5. CASE i <= walk.index
  <2>1. InOrder(next, new) /\ CalledAll(next, new)
    BY <1>2, <1>3, <1>4 DEF InOrder, CalledAll
  <2>2. Cardinality(PassedBy(next, new)) <= Cardinality(PassedBy(walk, table)) + 1
    BY <1>1, <1>2, <1>3, <1>5, PassedByRemoved DEF new
  <2>3. /\ Cardinality(PassedBy(next, new)) \in Nat
        /\ Cardinality(PassedBy(walk, table)) \in Nat
    BY <1>2, <1>3, PassedByFinite
  <2>4. /\ next.index <= Len(new) + next.removals
        /\ Cardinality(PassedBy(next, new)) <= next.removals
    BY <1>2, <1>3, <1>num, <2>2, <2>3
  <2>5. WalkInv(next, new, n)
    BY <1>3, <2>1, <2>4 DEF WalkInv
  <2> QED
    BY <1>5, <2>5 DEF new, next
<1>6. CASE ~(i <= walk.index)
  <2>1. walk.index <= Len(new) /\ walk.index < i
    BY <1>num, <1>6
  <2>2. \A j \in 1..walk.index : new[j] = table[j] /\ j <= Len(new) /\ j <= Len(table)
    <3> SUFFICES ASSUME NEW j \in 1..walk.index
                 PROVE  new[j] = table[j] /\ j <= Len(new) /\ j <= Len(table)
      OBVIOUS
    <3>1. j \in Int /\ 1 <= j /\ j <= walk.index
      BY <1>num
    <3>2. j <= Len(table) - 1 /\ j < i /\ j \in 1..(Len(table) - 1)
      BY <1>num, <2>1, <3>1
    <3>3. new[j] = table[j]
      BY <1>1, <3>2
    <3> QED
      BY <1>num, <3>1, <3>2, <3>3
  <2>3. CalledAll(walk, new)
    <3> SUFFICES ASSUME walk.removals = 0, NEW j \in 1..Len(new), j <= walk.index
                 PROVE  new[j] \in Range(walk.called)
      BY DEF CalledAll
    <3>1. j \in 1..walk.index /\ j \in 1..Len(table)
      BY <1>1, <1>2
    <3> QED
      BY <1>2, <2>2, <3>1 DEF CalledAll
  <2>4. PassedBy(walk, new) \subseteq PassedBy(walk, table)
    <3> SUFFICES ASSUME NEW j \in 1..walk.index, j > Len(new) \/ new[j] \notin Range(walk.called)
                 PROVE  table[j] \notin Range(walk.called)
      BY DEF PassedBy
    <3>1. j <= Len(new) /\ new[j] = table[j]
      BY <2>2
    <3>2. ~(j > Len(new))
      BY <1>num, <3>1
    <3> QED
      BY <3>1, <3>2
  <2>5. Cardinality(PassedBy(walk, new)) <= Cardinality(PassedBy(walk, table))
    BY <1>2, <2>4, PassedByFinite, FS_Subset
  <2>6. /\ Cardinality(PassedBy(walk, new)) \in Nat
        /\ Cardinality(PassedBy(walk, table)) \in Nat
    BY <1>2, PassedByFinite
  <2>7. /\ walk.index <= Len(new) + walk.removals
        /\ Cardinality(PassedBy(walk, new)) <= walk.removals
    BY <1>2, <1>num, <2>1, <2>5, <2>6
  <2>8. WalkInv(walk, new, n)
    BY <1>2, <1>4, <2>3, <2>7 DEF WalkInv
  <2> QED
    BY <1>6, <2>8 DEF new
<1> QED
  BY <1>5, <1>6

-----------------------------------------------------------------------------
LEMMA InvInit == Init => Inv
<1> SUFFICES ASSUME Init PROVE Inv
  OBVIOUS
<1>1. event = <<>> /\ callbackOf = <<>> /\ walks = <<>> /\ Len(<<>>) = 0
  BY DEF Init
<1>2. \A S : <<>> \in Seq(S)
  BY EmptySeq
<1> QED
  BY <1>1, <1>2, BoundsAssumption DEF Inv, TableInv

\* A walk of more registrations is a walk.
LEMMA WalksMonotonic ==
    ASSUME NEW n \in Nat, NEW s \in Seq(WalkSet(n))
    PROVE  s \in Seq(WalkSet(n + 1))
<1>1. Seq(1..n) \subseteq Seq(1..(n + 1))
  BY SeqMonotonic
<1>2. WalkSet(n) \subseteq WalkSet(n + 1)
  BY <1>1 DEF WalkSet
<1> QED
  BY <1>2, SeqMonotonic

LEMMA InvRegisterEvent ==
    ASSUME Inv, NEW callback \in Callbacks, RegisterEvent(callback)
    PROVE  Inv'
<1> DEFINE n == Len(callbackOf)
<1>1. /\ n \in Nat /\ n < MaxRegistrations /\ callbackOf \in Seq(Callbacks)
      /\ callbackOf' = Append(callbackOf, callback)
      /\ event' = Append(event, n + 1) /\ walks' = walks
  BY DEF Inv, RegisterEvent
<1>2. callbackOf' \in Seq(Callbacks) /\ Len(callbackOf') = n + 1
  BY <1>1, AppendIndex
<1>3. /\ TableInv(event, n) /\ walks \in Seq(WalkSet(n)) /\ Len(walks) <= MaxDepth
      /\ \A w \in 1..Len(walks) : WalkInv(walks[w], event, n)
  BY DEF Inv
<1> HIDE DEF n
<1>4. TableInv(event', n + 1)
  BY <1>1, <1>3, TableRegistered
<1>5. walks' \in Seq(WalkSet(n + 1)) /\ Len(walks') <= MaxDepth
  BY <1>1, <1>3, WalksMonotonic
<1>6. \A w \in 1..Len(walks') : WalkInv(walks'[w], event', n + 1)
  BY <1>1, <1>3, WalkRegistered
<1>7. n + 1 <= MaxRegistrations
  BY <1>1, BoundsAssumption
<1> QED
  BY <1>2, <1>4, <1>5, <1>6, <1>7 DEF Inv

LEMMA InvUnregisterEvent ==
    ASSUME Inv, NEW callback \in Callbacks, UnregisterEvent(callback)
    PROVE  Inv'
<1> DEFINE n == Len(callbackOf)
           Under(walk, i) ==
             IF i <= walk.index THEN [walk EXCEPT !.removals = @ + 1] ELSE walk
<1>1. PICK i \in 1..Len(event) :
        /\ event' = RemoveAt(event, i)
        /\ walks' = [w \in DOMAIN walks |-> Under(walks[w], i)]
  BY DEF UnregisterEvent, PlacesOf
<1>2. /\ n \in Nat /\ callbackOf' = callbackOf /\ Len(walks) \in Nat
      /\ DOMAIN walks = 1..Len(walks)
      /\ TableInv(event, n) /\ Len(walks) <= MaxDepth
      /\ \A w \in 1..Len(walks) : WalkInv(walks[w], event, n)
  BY LenProperties DEF Inv, UnregisterEvent
<1> HIDE DEF n
<1>3. TableInv(event', n)
  BY <1>1, <1>2, TableRemoved
<1>4. \A w \in 1..Len(walks) : WalkInv(Under(walks[w], i), event', n)
  BY <1>1, <1>2, WalkRemoved
<1> HIDE DEF Under
<1>5. walks' = [w \in 1..Len(walks) |-> Under(walks[w], i)]
  BY <1>1, <1>2
<1>6. walks' \in Seq(WalkSet(n)) /\ Len(walks') = Len(walks)
  <2>1. \A w \in 1..Len(walks) : Under(walks[w], i) \in WalkSet(n)
    BY <1>4 DEF WalkInv
  <2> QED
    BY <1>2, <1>5, <2>1
<1>7. \A w \in 1..Len(walks') : WalkInv(walks'[w], event', n)
  BY <1>4, <1>5, <1>6
<1> QED
  BY <1>2, <1>3, <1>6, <1>7 DEF Inv, n

LEMMA InvExecuteEvent == Inv /\ ExecuteEvent => Inv'
<1> SUFFICES ASSUME Inv, ExecuteEvent PROVE Inv'
  OBVIOUS
<1> DEFINE n == Len(callbackOf)
           new == Walk(0, <<>>, 0)
<1>1. /\ n \in Nat /\ TableInv(event, n) /\ walks \in Seq(WalkSet(n))
      /\ Len(walks) \in Nat /\ Len(walks) < MaxDepth
      /\ walks' = Append(walks, new) /\ UNCHANGED <<event, callbackOf>>
      /\ \A w \in 1..Len(walks) : WalkInv(walks[w], event, n)
  BY DEF Inv, ExecuteEvent
<1>2. WalkInv(new, event, n) /\ new \in WalkSet(n)
  BY <1>1, WalkBegins DEF WalkInv
<1> HIDE DEF n, new
<1>3. /\ walks' \in Seq(WalkSet(n)) /\ Len(walks') = Len(walks) + 1
      /\ \A w \in 1..Len(walks) : walks'[w] = walks[w]
      /\ walks'[Len(walks) + 1] = new
  BY <1>1, <1>2, AppendIndex
<1>4. \A w \in 1..Len(walks') : WalkInv(walks'[w], event, n)
  BY <1>1, <1>2, <1>3
<1>5. Len(walks') <= MaxDepth
  BY <1>1, <1>3, BoundsAssumption
<1> QED
  BY <1>1, <1>3, <1>4, <1>5 DEF Inv, n

LEMMA InvCallNext == Inv /\ CallNext => Inv'
<1> SUFFICES ASSUME Inv, CallNext PROVE Inv'
  OBVIOUS
<1> DEFINE n == Len(callbackOf)
           last == Len(walks)
           walk == walks[last]
           new == Walk(walk.index + 1, Append(walk.called, event[walk.index + 1]),
                       walk.removals)
<1>1. /\ n \in Nat /\ TableInv(event, n) /\ walks \in Seq(WalkSet(n))
      /\ last \in 1..Len(walks) /\ walk.index < Len(event)
      /\ walks' = [walks EXCEPT ![last] = new] /\ UNCHANGED <<event, callbackOf>>
      /\ \A w \in 1..Len(walks) : WalkInv(walks[w], event, n)
  BY EmptySeq DEF Inv, CallNext
<1>2. WalkInv(new, event, n) /\ new \in WalkSet(n)
  BY <1>1, WalkCalls DEF WalkInv
<1> HIDE DEF n, new, walk, last
<1>3. /\ walks' \in Seq(WalkSet(n)) /\ Len(walks') = Len(walks)
      /\ \A w \in 1..Len(walks) : walks'[w] = IF w = last THEN new ELSE walks[w]
  BY <1>1, <1>2, ExceptSeq
<1> QED
  BY <1>1, <1>2, <1>3 DEF Inv, n

LEMMA InvExecuteEventReturns == Inv /\ ExecuteEventReturns => Inv'
<1> SUFFICES ASSUME Inv, ExecuteEventReturns PROVE Inv'
  OBVIOUS
<1> DEFINE n == Len(callbackOf)
<1>1. /\ n \in Nat /\ TableInv(event, n) /\ walks \in Seq(WalkSet(n))
      /\ Len(walks) \in Nat \ {0} /\ Len(walks) <= MaxDepth
      /\ walks' = SubSeq(walks, 1, Len(walks) - 1) /\ UNCHANGED <<event, callbackOf>>
      /\ \A w \in 1..Len(walks) : WalkInv(walks[w], event, n)
  BY EmptySeq DEF Inv, ExecuteEventReturns
<1> HIDE DEF n
<1>2. \A w \in 1..(Len(walks) - 1) : walks[w] \in WalkSet(n)
  BY <1>1, ElementOfSeq
<1>3. /\ walks' \in Seq(WalkSet(n)) /\ Len(walks') = Len(walks) - 1
      /\ \A w \in 1..(Len(walks) - 1) : walks'[w] = walks[w]
  <2> DEFINE m == Len(walks) - 1
  <2>1. m \in Nat /\ walks' = SubSeq(walks, 1, m) /\ \A w \in 1..m : walks[w] \in WalkSet(n)
    BY <1>1, <1>2
  <2> HIDE DEF m
  <2>2. /\ walks' \in Seq(WalkSet(n))
        /\ Len(walks') = IF 1 <= m THEN m - 1 + 1 ELSE 0
        /\ \A w \in 1..(m - 1 + 1) : walks'[w] = walks[1 + w - 1]
    BY <2>1, SubSeqProperties
  <2>3. Len(walks') = m /\ \A w \in 1..m : walks'[w] = walks[w]
    BY <2>1, <2>2
  <2> QED
    BY <2>2, <2>3 DEF m
<1>4. \A w \in 1..Len(walks') : WalkInv(walks'[w], event, n)
  BY <1>1, <1>3
<1>5. Len(walks') <= MaxDepth
  BY <1>1, <1>3, BoundsAssumption
<1> QED
  BY <1>1, <1>3, <1>4, <1>5 DEF Inv, n

THEOREM Invariant == Spec => []Inv
<1>1. Inv /\ [Next]_vars => Inv'
  <2> SUFFICES ASSUME Inv, [Next]_vars PROVE Inv'
    OBVIOUS
  <2>1. CASE UNCHANGED vars
    BY <2>1 DEF vars, Inv
  <2> QED
    BY <2>1, InvRegisterEvent, InvUnregisterEvent, InvExecuteEvent, InvCallNext,
       InvExecuteEventReturns DEF Next
<1> QED
  BY <1>1, InvInit, PTL DEF Spec

-----------------------------------------------------------------------------
\* Every reachable state has the types of EventDispatch, and no walk is further beyond
\* the end of its table than callbacks were unregistered under it.
THEOREM TypeCorrect == Spec => []TypeOK
<1>1. Inv => TypeOK
  <2> SUFFICES ASSUME Inv PROVE TypeOK
    OBVIOUS
  <2>1. walks \in Seq([index : Nat, called : Seq(Registrations), removals : Nat])
    BY DEF Inv, WalkSet, Registrations
  <2>2. \A w \in DOMAIN walks : walks[w].index <= Len(event) + walks[w].removals
    BY LenProperties DEF Inv, WalkInv
  <2> QED
    BY <2>1, <2>2 DEF Inv, TableInv, TypeOK, Registrations
<1> QED
  BY <1>1, Invariant, PTL

\* ExecuteEvent calls callbacks in the order they were registered and none twice,
\* however deep executions of the event are nested and whatever they register.
THEOREM CallsAreInOrder == Spec => []CalledInOrder
<1>1. Inv => CalledInOrder
  <2> SUFFICES ASSUME Inv, NEW w \in DOMAIN walks,
                      NEW i \in DOMAIN walks[w].called, NEW j \in DOMAIN walks[w].called, i < j
               PROVE  walks[w].called[i] < walks[w].called[j]
    BY DEF CalledInOrder
  <2>1. w \in 1..Len(walks)
    BY LenProperties DEF Inv
  <2>2. walks[w].called \in Seq(1..Len(callbackOf)) /\ InOrder(walks[w], event)
    BY <2>1 DEF Inv, WalkInv, WalkSet
  <2>3. i \in 1..Len(walks[w].called) /\ j \in 1..Len(walks[w].called)
    BY <2>2, LenProperties
  <2> QED
    BY <2>2, <2>3 DEF InOrder
<1> QED
  BY <1>1, Invariant, PTL

\* A walk passes over no more callbacks than were unregistered under it, those that
\* were registered beyond its place's end of the table included.
THEOREM PassedOverAreFew == Spec => []PassedOverByRemovalOnly
<1>1. Inv => PassedOverByRemovalOnly
  <2> SUFFICES ASSUME Inv, NEW w \in DOMAIN walks
               PROVE  Cardinality({i \in 1..Len(event) : i <= walks[w].index
                                     /\ event[i] \notin Range(walks[w].called)})
                        <= walks[w].removals
    BY DEF PassedOverByRemovalOnly
  <2> DEFINE over == {i \in 1..Len(event) : i <= walks[w].index
                        /\ event[i] \notin Range(walks[w].called)}
             passed == PassedBy(walks[w], event)
  <2>1. /\ walks[w].index \in Nat /\ walks[w].removals \in Nat
        /\ Cardinality(passed) <= walks[w].removals
    <3>1. w \in 1..Len(walks)
      BY LenProperties DEF Inv
    <3> QED
      BY <3>1 DEF Inv, WalkInv, WalkSet
  <2>2. over \subseteq passed
    BY <2>1 DEF PassedBy
  <2>3. IsFiniteSet(passed) /\ Cardinality(passed) \in Nat
    BY <2>1, PassedByFinite
  <2> HIDE DEF over, passed
  <2>4. IsFiniteSet(over) /\ Cardinality(over) <= Cardinality(passed)
    BY <2>2, <2>3, FS_Subset
  <2>5. Cardinality(over) \in Nat
    BY <2>4, FS_CardinalityType
  <2>6. Cardinality(over) <= walks[w].removals
    BY <2>1, <2>3, <2>4, <2>5
  <2> QED
    BY <2>6 DEF over
<1> QED
  BY <1>1, Invariant, PTL

\* An execution of the event under which nothing was unregistered has called all its
\* callbacks when it returns, those registered meanwhile included.
THEOREM UndisturbedCallsAll == Spec => UndisturbedWalkCallsAll
<1>1. Inv => [ExecuteEventReturns /\ walks[Len(walks)].removals = 0
                => Range(event) \subseteq Range(walks[Len(walks)].called)]_vars
  <2> SUFFICES ASSUME Inv, ExecuteEventReturns, walks[Len(walks)].removals = 0,
                      NEW i \in DOMAIN event
               PROVE  event[i] \in Range(walks[Len(walks)].called)
    BY DEF Range
  <2> DEFINE walk == walks[Len(walks)]
  <2>1. Len(walks) \in 1..Len(walks) /\ walk.index >= Len(event)
    BY EmptySeq DEF Inv, ExecuteEventReturns
  <2>2. /\ CalledAll(walk, event) /\ walk.index \in Nat /\ walk.removals = 0
        /\ Len(event) \in Nat /\ i \in 1..Len(event)
    BY <2>1, LenProperties DEF Inv, WalkInv, WalkSet, TableInv
  <2> HIDE DEF walk
  <2>3. event[i] \in Range(walk.called)
    BY <2>1, <2>2 DEF CalledAll
  <2> QED
    BY <2>3 DEF walk
<1> QED
  BY <1>1, Invariant, PTL DEF UndisturbedWalkCallsAll

\* Whatever its callbacks do to the event, a walk follows its order.
THEOREM WalksAreInOrder == Spec => []WalkInOrder
BY CallsAreInOrder, PassedOverAreFew, PTL DEF WalkInOrder
=============================================================================
