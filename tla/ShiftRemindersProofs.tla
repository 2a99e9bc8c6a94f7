------------------------ MODULE ShiftRemindersProofs ------------------------
(* What ShiftReminders promises of its groups and its messages, proved for *)
(* every set of shifts and members, every lead time and every bound.       *)
(*                                                                         *)
(* Three parts: the walk of clusterByLeadTime, whose recursive function is *)
(* shown to exist by counting the items before each one; what the walk     *)
(* yields; and the inductive invariant of the sweep and the dispatcher.    *)
(***************************************************************************)
EXTENDS ShiftReminders, FiniteSetTheorems, WellFoundedInduction, TLAPS

-----------------------------------------------------------------------------
(* Numbers.                                                                *)

Below == {ss \in Nat \X Nat : ss[1] < ss[2]}

\* The order of the natural numbers is well-founded.
LEMMA BelowWF == IsWellFoundedOn(Below, Nat)
  BY NatLessThanWellFounded DEF OpToRel, Below

\* Some numbers have a least one.
LEMMA Least ==
  ASSUME NEW T, T \subseteq Nat, T # {}
  PROVE  \E n \in T : \A m \in T : n <= m
  <1>1. PICK n \in T : \A m \in T : <<m, n>> \notin Below
    BY BelowWF, WFMin
  <1>2. ASSUME NEW m \in T PROVE n <= m
    <2>1. m \in Nat /\ n \in Nat
      OBVIOUS
    <2>2. ~(m < n)
      BY <1>1, <2>1 DEF Below
    <2> QED BY <2>1, <2>2
  <1> QED
    BY <1>2

\* Induction over the natural numbers, about a set instead of a predicate.
LEMMA Induct ==
  ASSUME NEW S, S \subseteq Nat, 0 \in S, \A n \in Nat : n \in S => n + 1 \in S
  PROVE  Nat \subseteq S
  <1> SUFFICES ASSUME Nat \ S # {} PROVE FALSE
    OBVIOUS
  <1>1. PICK n \in Nat \ S : \A m \in Nat \ S : n <= m
    BY Least
  <1>2. n # 0 /\ n - 1 \in Nat
    BY <1>1
  <1>3. n - 1 \in S
    BY <1>1, <1>2
  <1> QED
    BY <1>1, <1>2, <1>3

\* What is smaller has fewer elements.
LEMMA FewerElements ==
  ASSUME NEW S, NEW T, IsFiniteSet(S), T \subseteq S, T # S
  PROVE  /\ Cardinality(T) \in Nat /\ Cardinality(S) \in Nat
         /\ Cardinality(T) < Cardinality(S)
  <1>1. IsFiniteSet(T) /\ Cardinality(T) <= Cardinality(S) /\ Cardinality(T) # Cardinality(S)
    BY FS_Subset
  <1>2. Cardinality(T) \in Nat /\ Cardinality(S) \in Nat
    BY <1>1, FS_CardinalityType
  <1> QED
    BY <1>1, <1>2

-----------------------------------------------------------------------------
(* The order of the walk.                                                  *)

\* What the times of a slot are.
LEMMA SlotTimes ==
  ASSUME NEW s \in Slot
  PROVE  /\ s.start \in Nat /\ s.start > 0 /\ s.end \in Nat /\ s.start < s.end
         /\ RemindAt(s) \in Int /\ RemindAt(s) < s.start
  BY ShiftRemindersAssumption DEF RemindAt

\* The walk has a strict total order.
LEMMA PrecedesOrders ==
  ASSUME NEW D \in SUBSET Shifts, NEW t \in [D -> Slot]
  PROVE  /\ \A i \in D : ~Precedes(t, i, i)
         /\ \A i, j \in D : i = j \/ Precedes(t, i, j) \/ Precedes(t, j, i)
         /\ \A i, j \in D : Precedes(t, i, j) => ~Precedes(t, j, i)
         /\ \A i, j, k \in D : Precedes(t, i, j) /\ Precedes(t, j, k) => Precedes(t, i, k)
         /\ \A i, j \in D : Precedes(t, i, j) => t[i].start <= t[j].start
  <1>1. \A i \in D : i \in Nat /\ t[i].start \in Nat
    BY SlotTimes, ShiftRemindersAssumption
  <1> QED
    BY <1>1 DEF Precedes

\* The items before an item are some of all, and not the item itself.
LEMMA BeforeIsSmaller ==
  ASSUME NEW D \in SUBSET Shifts, NEW t \in [D -> Slot], NEW i \in D
  PROVE  /\ Before(t, i) \in SUBSET D /\ IsFiniteSet(Before(t, i)) /\ IsFiniteSet(D)
         /\ Cardinality(Before(t, i)) \in Nat
         /\ Cardinality(Before(t, i)) <= Cardinality(D)
         /\ \A j \in Before(t, i) : Cardinality(Before(t, j)) < Cardinality(Before(t, i))
  <1>1. Before(t, i) \in SUBSET D /\ IsFiniteSet(D)
    BY FS_Subset, ShiftRemindersAssumption DEF Before
  <1>2. /\ IsFiniteSet(Before(t, i)) /\ Cardinality(Before(t, i)) \in Nat
        /\ Cardinality(Before(t, i)) <= Cardinality(D)
    BY <1>1, FS_Subset, FS_CardinalityType
  <1>3. ASSUME NEW j \in Before(t, i)
        PROVE  Cardinality(Before(t, j)) < Cardinality(Before(t, i))
    <2>1. j \in D /\ Precedes(t, j, i)
      BY DEF Before
    <2>2. Before(t, j) \subseteq Before(t, i)
      BY <2>1, PrecedesOrders DEF Before
    <2>3. j \notin Before(t, j)
      BY <2>1, PrecedesOrders DEF Before
    <2> QED BY <1>2, <2>2, <2>3, FewerElements
  <1> QED
    BY <1>1, <1>2, <1>3

\* Induction along the walk.
LEMMA PrecedesInduct ==
  ASSUME NEW D \in SUBSET Shifts, NEW t \in [D -> Slot], NEW S,
         \A i \in D : Before(t, i) \subseteq S => i \in S
  PROVE  D \subseteq S
  <1> SUFFICES ASSUME D \ S # {} PROVE FALSE
    OBVIOUS
  <1> DEFINE T == {Cardinality(Before(t, i)) : i \in D \ S}
  <1>1. T \subseteq Nat /\ T # {}
    BY BeforeIsSmaller
  <1>2. PICK n \in T : \A m \in T : n <= m
    BY <1>1, Least
  <1>3. PICK i \in D \ S : n = Cardinality(Before(t, i))
    BY <1>2
  <1>4. PICK j \in Before(t, i) : j \notin S
    BY <1>3
  <1>5. j \in D \ S
    BY <1>4, BeforeIsSmaller
  <1>6. Cardinality(Before(t, j)) \in T
    BY <1>5
  <1>7. Cardinality(Before(t, j)) < n /\ n \in Nat /\ Cardinality(Before(t, j)) \in Nat
    BY <1>3, <1>4, <1>5, BeforeIsSmaller
  <1> QED
    BY <1>2, <1>6, <1>7

\* Some items have a last one.
LEMMA LatestIsLast ==
  ASSUME NEW D \in SUBSET Shifts, NEW t \in [D -> Slot],
         NEW items \in SUBSET D, items # {}
  PROVE  /\ Latest(t, items) \in items
         /\ \A k \in items : k = Latest(t, items) \/ Precedes(t, k, Latest(t, items))
  <1> DEFINE After(j) == {k \in items : Precedes(t, j, k)}
             T == {Cardinality(After(j)) : j \in items}
  <1>1. \A j \in items : After(j) \subseteq items /\ IsFiniteSet(After(j))
                         /\ Cardinality(After(j)) \in Nat
    BY FS_Subset, FS_CardinalityType, ShiftRemindersAssumption
  <1>2. PICK n \in T : \A m \in T : n <= m
    <2>1. T \subseteq Nat /\ T # {}
      BY <1>1
    <2> QED BY <2>1, Least
  <1>3. PICK j \in items : n = Cardinality(After(j))
    BY <1>2
  <1>4. ASSUME NEW k \in items, k # j, ~Precedes(t, k, j)
        PROVE  FALSE
    <2>1. Precedes(t, j, k)
      BY <1>4, PrecedesOrders
    <2>2. After(k) \subseteq After(j)
      BY <2>1, PrecedesOrders
    <2>3. k \in After(j) /\ k \notin After(k)
      BY <2>1, PrecedesOrders
    <2>4. Cardinality(After(k)) < Cardinality(After(j)) /\ Cardinality(After(k)) \in Nat
      <3>1. IsFiniteSet(After(j)) /\ After(k) # After(j)
        BY <1>1, <2>3
      <3> HIDE DEF After
      <3> QED BY <2>2, <3>1, FewerElements
    <2>5. Cardinality(After(k)) \in T
      OBVIOUS
    <2>6. n <= Cardinality(After(k))
      BY <1>2, <2>5
    <2> QED BY <1>1, <1>3, <2>4, <2>6
  <1>5. \E l \in items : \A k \in items : k = l \/ Precedes(t, k, l)
    BY <1>4
  <1> QED
    BY <1>5 DEF Latest
-----------------------------------------------------------------------------
(* The walk.                                                               *)

\* What an item finds, is handed, and leaves, when f tells the groups before it.
Previous(t, i) == Latest(t, Before(t, i))

Joins(t, f, i) == Before(t, i) # {} /\ RemindAt(t[i]) < f[Previous(t, i)].horizon

Walked(t, mode, f, i) ==
  IF Joins(t, f, i)
  THEN [f[Previous(t, i)] EXCEPT !.horizon = Horizon(f[Previous(t, i)], t[i], mode)]
  ELSE NewGroup(i, t[i], mode)

\* What an item makes of its group depends on no item but the one before it.
LEMMA WalkLooksBack ==
  ASSUME NEW t, NEW mode, NEW i, NEW f, NEW g,
         Before(t, i) # {} => f[Previous(t, i)] = g[Previous(t, i)]
  PROVE  Walked(t, mode, f, i) = Walked(t, mode, g, i)
  BY DEF Walked, Joins

\* The item before another is among those before it.
LEMMA PreviousIsBefore ==
  ASSUME NEW D \in SUBSET Shifts, NEW t \in [D -> Slot], NEW i \in D, Before(t, i) # {}
  PROVE  /\ Previous(t, i) \in Before(t, i) /\ Previous(t, i) \in D
         /\ Precedes(t, Previous(t, i), i)
         /\ Before(t, i) = Before(t, Previous(t, i)) \cup {Previous(t, i)}
  <1>1. Before(t, i) \in SUBSET D
    BY BeforeIsSmaller
  <1>2. /\ Previous(t, i) \in Before(t, i)
        /\ \A k \in Before(t, i) : k = Previous(t, i) \/ Precedes(t, k, Previous(t, i))
    BY <1>1, LatestIsLast DEF Previous
  <1>3. Precedes(t, Previous(t, i), i) /\ Previous(t, i) \in D
    BY <1>1, <1>2 DEF Before
  <1>4. Before(t, i) \subseteq Before(t, Previous(t, i)) \cup {Previous(t, i)}
    BY <1>1, <1>2 DEF Before
  <1>5. Before(t, Previous(t, i)) \subseteq Before(t, i)
    <2>1. PICK p \in D : p = Previous(t, i) /\ Precedes(t, p, i)
      BY <1>3
    <2>2. \A j \in D : Precedes(t, j, p) => Precedes(t, j, i)
      BY <2>1, PrecedesOrders
    <2> QED BY <2>1, <2>2 DEF Before
  <1> QED
    BY <1>1, <1>2, <1>3, <1>4, <1>5

\* The walk can be taken as far as one likes.
LEMMA WalkReaches ==
  ASSUME NEW D \in SUBSET Shifts, NEW t \in [D -> Slot], NEW mode
  PROVE  \A n \in Nat : \E f : \A i \in D : Cardinality(Before(t, i)) < n
                                            => f[i] = Walked(t, mode, f, i)
  <1> DEFINE Reaches(f, n) == \A i \in D : Cardinality(Before(t, i)) < n
                                           => f[i] = Walked(t, mode, f, i)
             S == {n \in Nat : \E f : Reaches(f, n)}
  <1>1. 0 \in S
    BY BeforeIsSmaller
  <1>2. ASSUME NEW n \in Nat, n \in S PROVE n + 1 \in S
    <2>1. PICK f : Reaches(f, n)
      BY <1>2
    <2> DEFINE g == [i \in D |-> Walked(t, mode, f, i)]
    <2>2. ASSUME NEW i \in D, Cardinality(Before(t, i)) < n + 1
          PROVE  g[i] = Walked(t, mode, g, i)
      <3>1. ASSUME Before(t, i) # {}
            PROVE  f[Previous(t, i)] = g[Previous(t, i)]
        <4>1. Previous(t, i) \in Before(t, i) /\ Previous(t, i) \in D
          BY <3>1, PreviousIsBefore
        <4>2. Cardinality(Before(t, Previous(t, i))) < n
          BY <2>2, <4>1, BeforeIsSmaller
        <4> QED BY <2>1, <4>1, <4>2
      <3> HIDE DEF g
      <3>2. Walked(t, mode, f, i) = Walked(t, mode, g, i)
        BY <3>1, WalkLooksBack
      <3> QED BY <3>2 DEF g
    <2>3. Reaches(g, n + 1)
      BY <2>2
    <2> HIDE DEF g, Reaches
    <2> QED BY <2>3
  <1>3. S \subseteq Nat
    OBVIOUS
  <1> HIDE DEF S
  <1>4. Nat \subseteq S
    BY <1>1, <1>2, <1>3, Induct
  <1> QED
    BY <1>4 DEF S

\* The walk is taken to its end: Current is what its definition says.
LEMMA CurrentWalks ==
  ASSUME NEW D \in SUBSET Shifts, NEW t \in [D -> Slot], NEW mode
  PROVE  \A i \in D : Current(t, mode)[i] = Walked(t, mode, Current(t, mode), i)
  <1>1. IsFiniteSet(D) /\ Cardinality(D) \in Nat
    BY FS_Subset, FS_CardinalityType, ShiftRemindersAssumption
  <1>2. PICK f : \A i \in D : Cardinality(Before(t, i)) < Cardinality(D) + 1
                              => f[i] = Walked(t, mode, f, i)
    <2>1. Cardinality(D) + 1 \in Nat
      BY <1>1
    <2> QED BY <2>1, WalkReaches
  <1>3. \A i \in D : f[i] = Walked(t, mode, f, i)
    BY <1>1, <1>2, BeforeIsSmaller
  <1> DEFINE g == [i \in D |-> f[i]]
  <1>4. \A i \in D : Walked(t, mode, f, i) = Walked(t, mode, g, i)
    <2> TAKE i \in D
    <2>1. Before(t, i) # {} => f[Previous(t, i)] = g[Previous(t, i)]
      BY PreviousIsBefore
    <2> HIDE DEF g
    <2> QED BY <2>1, WalkLooksBack
  <1>5. g = [i \in D |-> Walked(t, mode, g, i)]
    BY <1>3, <1>4
  <1> HIDE DEF g
  <1> DEFINE IsWalk(h) == h = [i \in D |-> Walked(t, mode, h, i)]
  <1>6. Current(t, mode) = CHOOSE h : IsWalk(h)
    BY DEF Current, Walked, Joins, Previous
  <1>7. IsWalk(Current(t, mode))
    <2>1. \E h : IsWalk(h)
      BY <1>5
    <2> HIDE DEF IsWalk
    <2> QED BY <1>6, <2>1
  <1> QED
    BY <1>7
-----------------------------------------------------------------------------
(* The groups.                                                             *)

\* Each item is in the group of an item, which is over at some time.
LEMMA CurrentType ==
  ASSUME NEW D \in SUBSET Shifts, NEW t \in [D -> Slot], NEW mode
  PROVE  \A i \in D : Current(t, mode)[i] \in [leader : D, horizon : Nat]
  <1> DEFINE c == Current(t, mode)
             S == {i \in D : c[i] \in [leader : D, horizon : Nat]}
  <1>1. ASSUME NEW i \in D, Before(t, i) \subseteq S PROVE i \in S
    <2>1. c[i] = Walked(t, mode, c, i)
      BY CurrentWalks
    <2>2. t[i].start \in Nat /\ t[i].end \in Nat
      BY SlotTimes
    <2>3. CASE Joins(t, c, i)
      <3>1. c[Previous(t, i)] \in [leader : D, horizon : Nat]
        BY <1>1, <2>3, PreviousIsBefore DEF Joins
      <3>2. Horizon(c[Previous(t, i)], t[i], mode) \in Nat
        BY <2>2, <3>1 DEF Horizon, Later
      <3>3. c[i] = [c[Previous(t, i)] EXCEPT !.horizon = Horizon(c[Previous(t, i)], t[i], mode)]
        BY <2>1, <2>3 DEF Walked
      <3> HIDE DEF c
      <3> QED BY <3>1, <3>2, <3>3
    <2>4. CASE ~Joins(t, c, i)
      <3>1. c[i] = NewGroup(i, t[i], mode)
        BY <2>1, <2>4 DEF Walked
      <3> HIDE DEF c
      <3> QED BY <2>2, <3>1 DEF NewGroup
    <2> QED BY <2>3, <2>4
  <1> HIDE DEF S
  <1>2. D \subseteq S
    BY <1>1, PrecedesInduct
  <1> QED
    BY <1>2 DEF S

\* An item that joins has the leader of the item before it, any other one is a leader.
LEMMA CurrentLeader ==
  ASSUME NEW D \in SUBSET Shifts, NEW t \in [D -> Slot], NEW mode, NEW i \in D
  PROVE  LET c == Current(t, mode) IN
         /\ Joins(t, c, i) =>
              /\ Previous(t, i) \in D
              /\ c[i].leader = c[Previous(t, i)].leader
              /\ c[i].horizon = Horizon(c[Previous(t, i)], t[i], mode)
         /\ ~Joins(t, c, i) => c[i] = NewGroup(i, t[i], mode)
  <1> DEFINE c == Current(t, mode)
  <1>1. c[i] = Walked(t, mode, c, i)
    BY CurrentWalks
  <1>2. ASSUME Joins(t, c, i)
        PROVE  /\ Previous(t, i) \in D
               /\ c[i].leader = c[Previous(t, i)].leader
               /\ c[i].horizon = Horizon(c[Previous(t, i)], t[i], mode)
    <2>1. Previous(t, i) \in D
      BY <1>2, PreviousIsBefore DEF Joins
    <2>2. c[Previous(t, i)] \in [leader : D, horizon : Nat]
      BY <2>1, CurrentType
    <2>3. c[i] = [c[Previous(t, i)] EXCEPT !.horizon = Horizon(c[Previous(t, i)], t[i], mode)]
      BY <1>1, <1>2 DEF Walked
    <2> HIDE DEF c
    <2> QED BY <2>1, <2>2, <2>3
  <1>3. ASSUME ~Joins(t, c, i) PROVE c[i] = NewGroup(i, t[i], mode)
    BY <1>1, <1>3 DEF Walked
  <1> QED
    BY <1>2, <1>3

\* An item's leader is the last item up to it that leads a group.
LEMMA LeaderIsLatest ==
  ASSUME NEW D \in SUBSET Shifts, NEW t \in [D -> Slot], NEW mode
  PROVE  LET c == Current(t, mode) IN
         \A i \in D :
           /\ c[i].leader \in D
           /\ c[c[i].leader].leader = c[i].leader
           /\ c[i].leader = i \/ Precedes(t, c[i].leader, i)
           /\ \A l \in D : c[l].leader = l /\ (l = i \/ Precedes(t, l, i))
                           => l = c[i].leader \/ Precedes(t, l, c[i].leader)
  <1> DEFINE c == Current(t, mode)
             Holds(i) ==
               /\ c[i].leader \in D
               /\ c[c[i].leader].leader = c[i].leader
               /\ c[i].leader = i \/ Precedes(t, c[i].leader, i)
               /\ \A l \in D : c[l].leader = l /\ (l = i \/ Precedes(t, l, i))
                               => l = c[i].leader \/ Precedes(t, l, c[i].leader)
             S == {i \in D : Holds(i)}
  <1>1. ASSUME NEW i \in D, Before(t, i) \subseteq S PROVE i \in S
    <2>1. CASE Joins(t, c, i)
      <3> DEFINE p == Previous(t, i)
      <3>1. /\ p \in D /\ p \in Before(t, i) /\ Precedes(t, p, i)
            /\ Before(t, i) = Before(t, p) \cup {p}
        BY <2>1, PreviousIsBefore DEF Joins
      <3>2. c[i].leader = c[p].leader
        BY <2>1, CurrentLeader
      <3>3. Holds(p)
        BY <1>1, <3>1
      <3>4. Precedes(t, c[i].leader, i) /\ c[i].leader # i
        <4>1. c[p].leader \in D /\ (c[p].leader = p \/ Precedes(t, c[p].leader, p))
          BY <3>3
        <4>2. PICK l \in D : l = c[p].leader
          BY <4>1
        <4> HIDE DEF p, c, Holds, S
        <4>3. Precedes(t, l, i)
          BY <3>1, <4>1, <4>2, PrecedesOrders
        <4>4. l # i
          BY <4>3, PrecedesOrders
        <4> QED BY <3>2, <4>2, <4>3, <4>4
      <3> HIDE DEF p, c
      <3>5. \A l \in D : Precedes(t, l, i) => l = p \/ Precedes(t, l, p)
        BY <3>1 DEF Before
      <3> QED BY <3>2, <3>3, <3>4, <3>5
    <2>2. CASE ~Joins(t, c, i)
      <3>1. c[i] = NewGroup(i, t[i], mode)
        BY <2>2, CurrentLeader
      <3> HIDE DEF c
      <3>2. c[i].leader = i
        BY <3>1 DEF NewGroup
      <3> QED BY <3>2
    <2> QED BY <2>1, <2>2
  <1> HIDE DEF S
  <1>2. D \subseteq S
    BY <1>1, PrecedesInduct
  <1> QED
    BY <1>2 DEF S

\* Groups of shifts: the group is over when everything up to now is over.
LEMMA SpanHorizon ==
  ASSUME NEW D \in SUBSET Shifts, NEW t \in [D -> Slot]
  PROVE  LET c == Current(t, "span") IN
         \A i \in D :
           /\ \A j \in Before(t, i) \cup {i} : t[j].end <= c[i].horizon
           /\ \E j \in Before(t, i) \cup {i} : t[j].end = c[i].horizon
  <1> DEFINE c == Current(t, "span")
             Holds(i) ==
               /\ \A j \in Before(t, i) \cup {i} : t[j].end <= c[i].horizon
               /\ \E j \in Before(t, i) \cup {i} : t[j].end = c[i].horizon
             S == {i \in D : Holds(i)}
  <1>1. ASSUME NEW i \in D, Before(t, i) \subseteq S PROVE i \in S
    <2> DEFINE p == Previous(t, i)
    <2>1. /\ t[i].end \in Nat /\ t[i].start \in Nat /\ t[i].start < t[i].end
          /\ RemindAt(t[i]) \in Int /\ RemindAt(t[i]) < t[i].start
      BY SlotTimes
    <2>2. \A j \in Before(t, i) : t[j].end \in Nat
      BY BeforeIsSmaller, SlotTimes
    <2>3. ASSUME Before(t, i) # {}
          PROVE  /\ c[p].horizon \in Nat
                 /\ \A j \in Before(t, i) : t[j].end <= c[p].horizon
                 /\ \E j \in Before(t, i) : t[j].end = c[p].horizon
      <3>1. p \in D /\ p \in Before(t, i) /\ Before(t, i) = Before(t, p) \cup {p}
        BY <2>3, PreviousIsBefore
      <3>2. Holds(p)
        BY <1>1, <3>1
      <3>3. c[p].horizon \in Nat
        BY <3>1, CurrentType
      <3> QED BY <3>1, <3>2, <3>3
    <2>4. CASE Joins(t, c, i)
      <3>1. c[i].horizon = Later(c[p].horizon, t[i].end)
        BY <2>4, CurrentLeader DEF Horizon
      <3>2. Before(t, i) # {}
        BY <2>4 DEF Joins
      <3> HIDE DEF c, p
      <3> QED BY <2>1, <2>2, <2>3, <3>1, <3>2 DEF Later
    <2>5. CASE ~Joins(t, c, i)
      <3>1. c[i] = NewGroup(i, t[i], "span")
        BY <2>5, CurrentLeader
      <3>2. Before(t, i) # {} => RemindAt(t[i]) >= c[p].horizon
        BY <2>1, <2>3, <2>5 DEF Joins
      <3> HIDE DEF c, p
      <3>3. c[i].horizon = t[i].end
        BY <3>1 DEF NewGroup
      <3> QED BY <2>1, <2>2, <2>3, <3>2, <3>3
    <2> QED BY <2>4, <2>5
  <1> HIDE DEF S
  <1>2. D \subseteq S
    BY <1>1, PrecedesInduct
  <1> QED
    BY <1>2 DEF S

\* A group of shifts begins with each one whose reminder is not due before every
\* earlier one is over.
LEMMA SpanBegins ==
  ASSUME NEW D \in SUBSET Shifts, NEW t \in [D -> Slot], NEW i \in D
  PROVE  Current(t, "span")[i].leader = i
         <=> \A j \in D : Precedes(t, j, i) => RemindAt(t[i]) >= t[j].end
  <1> DEFINE c == Current(t, "span")
             p == Previous(t, i)
  <1>1. RemindAt(t[i]) \in Int /\ \A j \in D : t[j].end \in Nat
    BY SlotTimes
  <1>2. Before(t, i) = {j \in D : Precedes(t, j, i)}
    BY DEF Before
  <1>3. ASSUME Before(t, i) # {}
        PROVE  /\ c[p].horizon \in Nat
               /\ \A j \in Before(t, i) : t[j].end <= c[p].horizon
               /\ \E j \in Before(t, i) : t[j].end = c[p].horizon
    <2>1. p \in D /\ p \in Before(t, i) /\ Before(t, i) = Before(t, p) \cup {p}
      BY <1>3, PreviousIsBefore
    <2>2. c[p].horizon \in Nat
      BY <2>1, CurrentType
    <2> QED BY <2>1, <2>2, SpanHorizon
  <1>4. CASE Joins(t, c, i)
    <2>1. c[i].leader = c[p].leader /\ p \in D /\ p \in Before(t, i) /\ Precedes(t, p, i)
      BY <1>4, CurrentLeader, PreviousIsBefore DEF Joins
    <2>2. c[p].leader \in D /\ (c[p].leader = p \/ Precedes(t, c[p].leader, p))
      BY <2>1, LeaderIsLatest
    <2>3. c[i].leader # i
      BY <2>1, <2>2, PrecedesOrders
    <2>4. RemindAt(t[i]) < c[p].horizon
      BY <1>4 DEF Joins
    <2>5. PICK j \in Before(t, i) : t[j].end = c[p].horizon
      BY <1>3, <2>1
    <2>6. j \in D /\ Precedes(t, j, i) /\ ~(RemindAt(t[i]) >= t[j].end)
      <3> HIDE DEF c, p
      <3> QED BY <1>1, <1>2, <2>4, <2>5
    <2> QED BY <2>3, <2>6
  <1>5. CASE ~Joins(t, c, i)
    <2>1. c[i] = NewGroup(i, t[i], "span")
      BY <1>5, CurrentLeader
    <2>2. Before(t, i) # {} => RemindAt(t[i]) >= c[p].horizon
      BY <1>1, <1>3, <1>5 DEF Joins
    <2> HIDE DEF c, p
    <2>3. c[i].leader = i
      BY <2>1 DEF NewGroup
    <2>4. ASSUME NEW j \in D, Precedes(t, j, i)
          PROVE  RemindAt(t[i]) >= t[j].end
      <3>1. j \in Before(t, i)
        BY <1>2, <2>4
      <3> QED BY <1>1, <1>3, <2>2, <3>1
    <2> QED BY <2>3, <2>4 DEF c
  <1> QED
    BY <1>4, <1>5

\* Groups of deadlines: a group is over with its first one.
LEMMA LeaderHorizon ==
  ASSUME NEW D \in SUBSET Shifts, NEW t \in [D -> Slot]
  PROVE  LET c == Current(t, "leader") IN
         \A i \in D : c[i].horizon = t[c[i].leader].start
  <1> DEFINE c == Current(t, "leader")
             S == {i \in D : c[i].horizon = t[c[i].leader].start}
  <1>1. ASSUME NEW i \in D, Before(t, i) \subseteq S PROVE i \in S
    <2> DEFINE p == Previous(t, i)
    <2>1. CASE Joins(t, c, i)
      <3>1. p \in Before(t, i)
        BY <2>1, PreviousIsBefore DEF Joins
      <3>2. c[p].horizon = t[c[p].leader].start
        BY <1>1, <3>1
      <3>3. c[i].leader = c[p].leader /\ c[i].horizon = Horizon(c[p], t[i], "leader")
        BY <2>1, CurrentLeader
      <3>4. c[i].horizon = c[p].horizon
        <4> HIDE DEF c, p
        <4> QED BY <3>3 DEF Horizon
      <3> QED BY <3>2, <3>3, <3>4
    <2>2. CASE ~Joins(t, c, i)
      <3>1. c[i] = NewGroup(i, t[i], "leader")
        BY <2>2, CurrentLeader
      <3>2. c[i].leader = i /\ c[i].horizon = t[i].start
        <4> HIDE DEF c
        <4> QED BY <3>1 DEF NewGroup
      <3> QED BY <3>2
    <2> QED BY <2>1, <2>2
  <1> HIDE DEF S
  <1>2. D \subseteq S
    BY <1>1, PrecedesInduct
  <1> QED
    BY <1>2 DEF S

\* What is in a group of deadlines is due to be reminded of before the first of them.
LEMMA DeadlinesFold ==
  ASSUME NEW D \in SUBSET Shifts, NEW t \in [D -> Slot], NEW i \in D,
         Current(t, "leader")[i].leader # i
  PROVE  RemindAt(t[i]) < t[Current(t, "leader")[i].leader].start
  <1> DEFINE c == Current(t, "leader")
             p == Previous(t, i)
  <1>1. Joins(t, c, i)
    <2>1. SUFFICES ASSUME ~Joins(t, c, i) PROVE FALSE
      OBVIOUS
    <2>2. c[i] = NewGroup(i, t[i], "leader")
      BY <2>1, CurrentLeader
    <2>3. c[i].leader = i
      <3> HIDE DEF c
      <3> QED BY <2>2 DEF NewGroup
    <2> QED BY <2>3
  <1>2. p \in D /\ c[i].leader = c[p].leader
    BY <1>1, CurrentLeader
  <1>3. c[p].horizon = t[c[p].leader].start
    BY <1>2, LeaderHorizon
  <1>4. RemindAt(t[i]) < c[p].horizon
    BY <1>1 DEF Joins
  <1> QED
    BY <1>2, <1>3, <1>4

\* What leads the next group is not.
LEMMA DeadlinesPart ==
  ASSUME NEW D \in SUBSET Shifts, NEW t \in [D -> Slot], NEW h \in D, NEW g \in D,
         Current(t, "leader")[h].leader = h, Current(t, "leader")[g].leader = g,
         Precedes(t, g, h)
  PROVE  RemindAt(t[h]) >= t[g].start
  <1> DEFINE c == Current(t, "leader")
             p == Previous(t, h)
  <1>1. Before(t, h) # {}
    BY DEF Before
  <1>2. p \in D /\ Precedes(t, p, h) /\ Before(t, h) = Before(t, p) \cup {p}
    BY <1>1, PreviousIsBefore
  <1>3. c[p].leader \in D /\ (c[p].leader = p \/ Precedes(t, c[p].leader, p))
    BY <1>2, LeaderIsLatest
  <1>4. ~Joins(t, c, h)
    <2>1. c[p].leader # h
      <3>1. PICK q \in D : q = p
        BY <1>2
      <3>2. PICK l \in D : l = c[p].leader
        BY <1>3
      <3> HIDE DEF c, p
      <3>3. Precedes(t, l, h)
        BY <1>2, <1>3, <3>1, <3>2, PrecedesOrders
      <3>4. ~Precedes(t, h, h)
        BY PrecedesOrders
      <3> QED BY <3>2, <3>3, <3>4
    <2> QED BY <2>1, CurrentLeader
  <1>5. RemindAt(t[h]) >= c[p].horizon
    <2>1. c[p].horizon \in Nat /\ RemindAt(t[h]) \in Int
      BY <1>2, CurrentType, SlotTimes
    <2> QED BY <1>1, <1>4, <2>1 DEF Joins
  <1>6. c[p].horizon = t[c[p].leader].start
    BY <1>2, LeaderHorizon
  <1>7. g = p \/ Precedes(t, g, p)
    BY <1>2 DEF Before
  <1>8. g = c[p].leader \/ Precedes(t, g, c[p].leader)
    BY <1>2, <1>7, LeaderIsLatest
  <1>9. t[g].start <= t[c[p].leader].start
    <2>1. t[g].start \in Nat
      BY SlotTimes
    <2> HIDE DEF c, p
    <2> QED BY <1>3, <1>8, <2>1, PrecedesOrders
  <1>10. t[g].start \in Nat /\ t[c[p].leader].start \in Nat /\ RemindAt(t[h]) \in Int
    BY <1>3, SlotTimes
  <1> HIDE DEF c, p
  <1> QED
    BY <1>5, <1>6, <1>9, <1>10

-----------------------------------------------------------------------------
(* Clusters and findCluster.                                               *)

\* The group of an item.
GroupOf(t, mode, i) ==
  LET c == Current(t, mode) IN
  [leader |-> c[i].leader, ids |-> {j \in DOMAIN t : c[j].leader = c[i].leader}]

\* The groups are those of the items, each item is in one, and findCluster finds it.
LEMMA ClustersPartition ==
  ASSUME NEW D \in SUBSET Shifts, NEW t \in [D -> Slot], NEW mode
  PROVE  /\ Clusters(t, mode) = {GroupOf(t, mode, i) : i \in D}
         /\ \A i \in D, g \in Clusters(t, mode) :
              i \in g.ids <=> g = GroupOf(t, mode, i)
         /\ \A i \in D : FindCluster(t, mode, i) = GroupOf(t, mode, i)
  <1> DEFINE c == Current(t, mode)
             Group(l) == [leader |-> l, ids |-> {j \in D : c[j].leader = l}]
  <1>1. DOMAIN t = D
    OBVIOUS
  <1>2. \A i \in D : c[i].leader \in D /\ c[c[i].leader].leader = c[i].leader
    BY LeaderIsLatest
  <1>3. \A i \in D : GroupOf(t, mode, i) = Group(c[i].leader)
    BY <1>1 DEF GroupOf
  <1>4. Clusters(t, mode) = {Group(l) : l \in {i \in D : c[i].leader = i}}
    BY <1>1 DEF Clusters
  <1> HIDE DEF c
  <1>5. Clusters(t, mode) = {GroupOf(t, mode, i) : i \in D}
    <2>1. ASSUME NEW l \in D, c[l].leader = l PROVE Group(l) = GroupOf(t, mode, l)
      BY <1>3, <2>1
    <2>2. ASSUME NEW i \in D
          PROVE  \E l \in D : c[l].leader = l /\ GroupOf(t, mode, i) = Group(l)
      BY <1>2, <1>3
    <2> HIDE DEF Group
    <2> QED BY <1>4, <2>1, <2>2
  <1>6. ASSUME NEW i \in D, NEW g \in Clusters(t, mode)
        PROVE  i \in g.ids <=> g = GroupOf(t, mode, i)
    <2>1. PICK l \in D : c[l].leader = l /\ g = Group(l)
      BY <1>4
    <2>2. i \in g.ids <=> c[i].leader = l
      BY <2>1
    <2>3. g.leader = l /\ GroupOf(t, mode, i).leader = c[i].leader
      BY <1>3, <2>1
    <2> QED BY <1>3, <2>1, <2>2, <2>3
  <1>7. ASSUME NEW i \in D PROVE FindCluster(t, mode, i) = GroupOf(t, mode, i)
    <2>1. GroupOf(t, mode, i) \in Clusters(t, mode)
      BY <1>5
    <2>2. \A g \in Clusters(t, mode) : i \in g.ids <=> g = GroupOf(t, mode, i)
      BY <1>6
    <2> QED BY <2>1, <2>2 DEF FindCluster
  <1> QED
    BY <1>5, <1>6, <1>7

\* In groups of either kind, each item has its group, which is everything from its
\* leader to the next.
LEMMA GroupsAreStretches ==
  ASSUME NEW D \in SUBSET Shifts, NEW t \in [D -> Slot], NEW mode
  PROVE  LET groups == Clusters(t, mode) IN
         /\ \A i \in D : \E g \in groups : {h \in groups : i \in h.ids} = {g}
         /\ \A g \in groups : g.leader \in g.ids
         /\ \A g \in groups, i \in D :
              i \in g.ids <=> /\ ~Precedes(t, i, g.leader)
                              /\ \A h \in groups : Precedes(t, g.leader, h.leader)
                                                   => Precedes(t, i, h.leader)
  <1> DEFINE groups == Clusters(t, mode)
             c == Current(t, mode)
  <1>1. \A i \in D : GroupOf(t, mode, i) \in groups
    BY ClustersPartition
  <1>2. \A i \in D, g \in groups : i \in g.ids <=> g = GroupOf(t, mode, i)
    BY ClustersPartition
  <1>3. \A g \in groups : /\ g.leader \in D /\ c[g.leader].leader = g.leader
                          /\ g = GroupOf(t, mode, g.leader)
    <2> TAKE g \in groups
    <2>1. PICK i \in D : g = GroupOf(t, mode, i)
      BY ClustersPartition
    <2>2. g.leader = c[i].leader
      BY <2>1 DEF GroupOf
    <2>3. c[i].leader \in D /\ c[c[i].leader].leader = c[i].leader
      BY LeaderIsLatest
    <2>4. GroupOf(t, mode, c[i].leader) = GroupOf(t, mode, i)
      BY <2>3 DEF GroupOf
    <2> QED BY <2>1, <2>2, <2>3, <2>4
  <1>4. \A i \in D : \E g \in groups : {h \in groups : i \in h.ids} = {g}
    BY <1>1, <1>2
  <1>5. \A g \in groups : g.leader \in g.ids
    BY <1>2, <1>3
  <1>6. ASSUME NEW g \in groups, NEW i \in D, i \in g.ids
        PROVE  /\ ~Precedes(t, i, g.leader)
               /\ \A h \in groups : Precedes(t, g.leader, h.leader) => Precedes(t, i, h.leader)
    <2>1. g.leader = c[i].leader
      BY <1>2, <1>6 DEF GroupOf
    <2>2. g.leader \in D /\ (g.leader = i \/ Precedes(t, g.leader, i))
      BY <1>3, <2>1, LeaderIsLatest
    <2>3. ~Precedes(t, i, g.leader)
      BY <2>2, PrecedesOrders
    <2>4. ASSUME NEW h \in groups, Precedes(t, g.leader, h.leader), ~Precedes(t, i, h.leader)
          PROVE  FALSE
      <3>1. h.leader \in D /\ c[h.leader].leader = h.leader
        BY <1>3
      <3>2. h.leader = i \/ Precedes(t, h.leader, i)
        BY <2>4, <3>1, PrecedesOrders
      <3>3. h.leader = g.leader \/ Precedes(t, h.leader, g.leader)
        BY <2>1, <3>1, <3>2, LeaderIsLatest
      <3> QED BY <2>2, <2>4, <3>1, <3>3, PrecedesOrders
    <2> QED BY <2>3, <2>4
  <1>7. ASSUME NEW g \in groups, NEW i \in D, ~Precedes(t, i, g.leader),
               \A h \in groups : Precedes(t, g.leader, h.leader) => Precedes(t, i, h.leader)
        PROVE  i \in g.ids
    <2>1. g.leader \in D /\ c[g.leader].leader = g.leader
      BY <1>3
    <2>2. g.leader = i \/ Precedes(t, g.leader, i)
      BY <1>7, <2>1, PrecedesOrders
    <2>3. g.leader = c[i].leader \/ Precedes(t, g.leader, c[i].leader)
      BY <2>1, <2>2, LeaderIsLatest
    <2>4. c[i].leader \in D /\ (c[i].leader = i \/ Precedes(t, c[i].leader, i))
      BY LeaderIsLatest
    <2>5. GroupOf(t, mode, i) \in groups /\ GroupOf(t, mode, i).leader = c[i].leader
      BY <1>1 DEF GroupOf
    <2>6. ~Precedes(t, i, c[i].leader)
      BY <2>4, PrecedesOrders
    <2>7. g.leader = c[i].leader
      BY <1>7, <2>3, <2>5, <2>6
    <2>8. g = GroupOf(t, mode, i)
      <3>1. g = GroupOf(t, mode, g.leader)
        BY <1>3
      <3>2. c[c[i].leader].leader = c[i].leader
        BY <2>1, <2>7
      <3> QED BY <2>7, <3>1, <3>2 DEF GroupOf
    <2> QED BY <1>2, <2>8
  <1> HIDE DEF groups
  <1>8. \A g \in groups, i \in D :
              i \in g.ids <=> /\ ~Precedes(t, i, g.leader)
                              /\ \A h \in groups : Precedes(t, g.leader, h.leader)
                                                   => Precedes(t, i, h.leader)
    BY <1>6, <1>7
  <1> QED
    BY <1>4, <1>5, <1>8 DEF groups

\* The timetable of the shifts that are there.
LEMMA LiveTimetable ==
  ASSUME slots \in [Shifts -> Slot \cup {Unused, Gone}]
  PROVE  /\ Live \in SUBSET Shifts
         /\ [i \in Live |-> slots[i]] \in [Live -> Slot]
  BY DEF Live

\* The leaders of groups.
LEMMA LeadersLead ==
  ASSUME NEW D \in SUBSET Shifts, NEW t \in [D -> Slot], NEW mode
  PROVE  /\ {g.leader : g \in Clusters(t, mode)} = {i \in D : Current(t, mode)[i].leader = i}
         /\ \A g \in Clusters(t, mode) : g.ids = {i \in D : Current(t, mode)[i].leader = g.leader}
  <1> DEFINE c == Current(t, mode)
             leaders == {i \in D : c[i].leader = i}
             Group(l) == [leader |-> l, ids |-> {j \in D : c[j].leader = l}]
  <1>1. Clusters(t, mode) = {Group(l) : l \in leaders}
    BY DEF Clusters
  <1>2. \A l \in leaders : Group(l).leader = l /\ Group(l).ids = {i \in D : c[i].leader = l}
    OBVIOUS
  <1> HIDE DEF Group
  <1>3. {g.leader : g \in Clusters(t, mode)} = leaders
    BY <1>1, <1>2
  <1> QED
    BY <1>1, <1>2, <1>3

\* Whatever the shifts are, their groups are as the comment of clusters.ts says.
LEMMA GroupsAsDocumented ==
  ASSUME slots \in [Shifts -> Slot \cup {Unused, Gone}]
  PROVE  ClustersAsDocumented
  <1> DEFINE timetable == [i \in Live |-> slots[i]]
             spans == Clusters(timetable, "span")
             deadlines == Clusters(timetable, "leader")
             d == Current(timetable, "leader")
             Earlier(i, j) == \/ slots[i].start < slots[j].start
                              \/ slots[i].start = slots[j].start /\ i < j
             Begins(i) == \A e \in Live : Earlier(e, i) => RemindAt(slots[i]) >= slots[e].end
  <1>1. Live \in SUBSET Shifts /\ timetable \in [Live -> Slot]
    BY LiveTimetable
  <1>2. \A i, j \in Live : Precedes(timetable, i, j) <=> Earlier(i, j)
    BY DEF Precedes
  <1>3. \A i \in Live : timetable[i] = slots[i]
    OBVIOUS
  <1>4. {g.leader : g \in spans} = {i \in Live : Begins(i)}
    <2>1. {g.leader : g \in spans} = {i \in Live : Current(timetable, "span")[i].leader = i}
      BY <1>1, LeadersLead
    <2>2. \A i \in Live : Current(timetable, "span")[i].leader = i
            <=> \A j \in Live : Precedes(timetable, j, i) => RemindAt(timetable[i]) >= timetable[j].end
      BY <1>1, SpanBegins
    <2> HIDE DEF timetable, spans, Earlier
    <2>3. \A i \in Live : Current(timetable, "span")[i].leader = i <=> Begins(i)
      BY <1>2, <1>3, <2>2
    <2> QED BY <2>1, <2>3
  <1>5. ASSUME NEW mode \in {"span", "leader"}
        PROVE  LET groups == Clusters(timetable, mode) IN
               /\ \A i \in Live : \E g \in groups : {h \in groups : i \in h.ids} = {g}
               /\ \A g \in groups : g.leader \in g.ids
               /\ \A g \in groups, i \in Live :
                    i \in g.ids <=> /\ ~Earlier(i, g.leader)
                                    /\ \A h \in groups : Earlier(g.leader, h.leader)
                                                         => Earlier(i, h.leader)
    <2> DEFINE groups == Clusters(timetable, mode)
    <2>1. /\ \A i \in Live : \E g \in groups : {h \in groups : i \in h.ids} = {g}
          /\ \A g \in groups : g.leader \in g.ids
          /\ \A g \in groups, i \in Live :
               i \in g.ids <=> /\ ~Precedes(timetable, i, g.leader)
                               /\ \A h \in groups : Precedes(timetable, g.leader, h.leader)
                                                    => Precedes(timetable, i, h.leader)
      <3> HIDE DEF timetable
      <3> QED BY <1>1, GroupsAreStretches
    <2>2. \A g \in groups : g.leader \in Live
      <3>1. {g.leader : g \in groups} \subseteq Live
        <4> HIDE DEF timetable
        <4> QED BY <1>1, LeadersLead
      <3> HIDE DEF groups
      <3> QED BY <3>1
    <2> HIDE DEF timetable, Earlier, groups
    <2> QED BY <1>2, <2>1, <2>2 DEF groups
  <1>6. ASSUME NEW g \in deadlines, NEW i \in g.ids \ {g.leader}
        PROVE  RemindAt(slots[i]) < slots[g.leader].start
    <2>1. i \in Live /\ d[i].leader = g.leader /\ g.leader \in Live
      <3>1. g.ids = {j \in Live : d[j].leader = g.leader}
        BY <1>1, LeadersLead
      <3>2. g.leader \in {h.leader : h \in deadlines}
        OBVIOUS
      <3>3. {h.leader : h \in deadlines} = {j \in Live : d[j].leader = j}
        <4> HIDE DEF timetable
        <4> QED BY <1>1, LeadersLead
      <3> HIDE DEF deadlines, d
      <3> QED BY <3>1, <3>2, <3>3
    <2>2. RemindAt(timetable[i]) < timetable[g.leader].start
      BY <1>1, <2>1, DeadlinesFold
    <2> QED BY <1>3, <2>1, <2>2
  <1>7. ASSUME NEW g \in deadlines, NEW h \in deadlines, Earlier(g.leader, h.leader)
        PROVE  RemindAt(slots[h.leader]) >= slots[g.leader].start
    <2>1. /\ g.leader \in Live /\ d[g.leader].leader = g.leader
          /\ h.leader \in Live /\ d[h.leader].leader = h.leader
      BY <1>1, LeadersLead
    <2>2. Precedes(timetable, g.leader, h.leader)
      BY <1>2, <1>7, <2>1
    <2>3. RemindAt(timetable[h.leader]) >= timetable[g.leader].start
      BY <1>1, <2>1, <2>2, DeadlinesPart
    <2> QED BY <1>3, <2>1, <2>3
  <1>8. \A groups \in {spans, deadlines} :
          /\ \A i \in Live : \E g \in groups : {h \in groups : i \in h.ids} = {g}
          /\ \A g \in groups : g.leader \in g.ids
          /\ \A g \in groups, i \in Live :
               i \in g.ids <=> /\ ~Earlier(i, g.leader)
                               /\ \A h \in groups : Earlier(g.leader, h.leader)
                                                    => Earlier(i, h.leader)
    BY <1>5
  <1> HIDE DEF timetable
  <1> QED
    BY <1>4, <1>6, <1>7, <1>8 DEF ClustersAsDocumented, timetable
-----------------------------------------------------------------------------
(* The inductive invariant of the sweep and the dispatcher.                *)

PlanType ==
  /\ slots \in [Shifts -> Slot \cup {Unused, Gone}]
  /\ assigned \in [Shifts -> SUBSET Members]
  /\ \A i \in Shifts : assigned[i] # {} => i \in Live

Row == [status : {"none", "scheduled", "sent"}, at : Int, sentAt : Int, outdated : BOOLEAN]

Entry == [id : Shifts, at : Int]

Message == [member : Members, by : Shifts, shifts : SUBSET Shifts, at : Int, edit : Nat]

StateType ==
  /\ rows \in [Shifts -> Row]
  /\ now \in Nat /\ edits \in Nat /\ edited \in Int /\ edited <= now
  /\ stage \in {"idle", "keys", "planning", "sending", "ended"}
  /\ known \subseteq Shifts /\ sweep \subseteq Entry /\ queue \subseteq Entry
  /\ inbox \subseteq Message

\* What has happened, happened by now; the pass has read what is due.
NotAhead ==
  /\ \A i \in Shifts : /\ rows[i].status = "sent" => rows[i].sentAt <= now
                       /\ rows[i].status = "none" => ~rows[i].outdated
  /\ \A e \in queue : e.at <= now
  /\ stage # "sending" => queue = {}
  /\ stage # "planning" => sweep = {}
  /\ \A n \in inbox : n.edit <= edits /\ rows[n.by].status = "sent"

\* A reminder that waits, and was not planned from an outdated reading, is due at the
\* moment its shift has now.  It waits for the time that the pass has read.  There is
\* none of a shift that has never been there.
WaitsForItsMoment ==
  /\ \A i \in Shifts : slots[i] = Unused => rows[i].status = "none"
  /\ \A e \in sweep : slots[e.id] # Unused
  /\ \A i \in Live : rows[i].status = "scheduled" /\ ~rows[i].outdated
                     => rows[i].at = RemindAt(slots[i])
  /\ \A e \in queue : rows[e.id].status = "scheduled" => rows[e.id].at = e.at

\* The shifts that a person is told of together, by the reminder of i.
Group(i, m) == FindCluster(Own(m), "span", i)

\* What somebody was told under this plan is the group of the reminder that told it.
TellsTheGroup ==
  \A n \in inbox : n.edit = edits =>
    /\ n.member \in assigned[n.by] /\ Carries(n.by, n.member)
    /\ n.shifts = Group(n.by, n.member).ids

\* Whoever a reminder sent under this plan leads for, has been told.
EverybodyTold ==
  \A i \in Live : rows[i].status = "sent" /\ rows[i].sentAt > edited =>
    \A m \in assigned[i] : Carries(i, m) =>
      \E n \in inbox : /\ n.member = m /\ n.by = i /\ n.at = rows[i].sentAt
                       /\ n.edit = edits /\ n.shifts = Group(i, m).ids

\* How far the pass is with a reminder at its moment.
AtItsMoment(i) ==
  /\ stage = "keys" /\ i \in known => rows[i].status # "none"
  /\ stage = "planning" => \/ rows[i].status # "none"
                           \/ \E e \in sweep : e.id = i
  /\ stage = "sending" => \/ rows[i].status = "sent"
                          \/ rows[i].status = "scheduled" /\ \E e \in queue : e.id = i
  /\ stage = "ended" => rows[i].status = "sent"

\* Of the shifts whose moment is after the last change of the plan: before the moment
\* nothing is sent, at the moment the pass has it, and after it everything is sent.
SentAtTheMoment ==
  \A i \in Live : edited < RemindAt(slots[i]) /\ ~rows[i].outdated =>
    /\ rows[i].status = "sent" /\ rows[i].sentAt > edited
         => rows[i].sentAt = RemindAt(slots[i])
    /\ RemindAt(slots[i]) < now => rows[i].status = "sent"
    /\ RemindAt(slots[i]) = now => AtItsMoment(i)

IInv ==
  /\ PlanType /\ StateType /\ NotAhead /\ WaitsForItsMoment
  /\ TellsTheGroup /\ EverybodyTold /\ SentAtTheMoment /\ ToldOnce

-----------------------------------------------------------------------------
(* The groups of one person.                                               *)

Shared(m) == {j \in Live : m \in assigned[j]}

\* A person's shifts are a timetable.
LEMMA OwnTimetable ==
  ASSUME PlanType, NEW m \in Members
  PROVE  /\ Shared(m) \in SUBSET Shifts
         /\ Own(m) \in [Shared(m) -> Slot]
         /\ \A i \in Shared(m) : Own(m)[i] = slots[i]
  BY DEF PlanType, Live, Own, Shared

\* The group of a shift holds it, and goes out with the reminder of its leader.
LEMMA GroupHasCarrier ==
  ASSUME PlanType, NEW i \in Live, NEW m \in assigned[i]
  PROVE  LET l == Group(i, m).leader IN
         /\ i \in Group(i, m).ids /\ Group(i, m).ids \subseteq Shifts
         /\ l \in Live /\ m \in assigned[l] /\ Carries(l, m) /\ Group(l, m) = Group(i, m)
  <1> DEFINE D == Shared(m)
             c == Current(Own(m), "span")
             l == c[i].leader
  <1>1. m \in Members /\ i \in D
    BY DEF PlanType, Live, Shared
  <1>2. D \in SUBSET Shifts /\ Own(m) \in [D -> Slot]
    BY <1>1, OwnTimetable
  <1>3. l \in D /\ c[l].leader = l
    BY <1>1, <1>2, LeaderIsLatest
  <1>4. Group(i, m) = GroupOf(Own(m), "span", i) /\ Group(l, m) = GroupOf(Own(m), "span", l)
    BY <1>1, <1>2, <1>3, ClustersPartition DEF Group
  <1>5. /\ Group(i, m).leader = l /\ Group(l, m).leader = l
        /\ Group(l, m) = Group(i, m)
        /\ Group(i, m).ids = {j \in D : c[j].leader = l}
    <2>1. DOMAIN Own(m) = D
      BY <1>2
    <2>2. Group(i, m) = [leader |-> l, ids |-> {j \in D : c[j].leader = l}]
      BY <1>4, <2>1 DEF GroupOf
    <2>3. Group(l, m) = [leader |-> c[l].leader, ids |-> {j \in D : c[j].leader = c[l].leader}]
      BY <1>4, <2>1 DEF GroupOf
    <2> HIDE DEF c, D
    <2> QED BY <1>3, <2>2, <2>3
  <1>6. Carries(l, m)
    BY <1>5 DEF Carries, Group
  <1>7. l \in Live /\ m \in assigned[l]
    BY <1>3 DEF Shared
  <1> HIDE DEF c
  <1> QED
    BY <1>1, <1>2, <1>5, <1>6, <1>7

\* Two reminders that go out to one person are of different shifts.
LEMMA CarriersPart ==
  ASSUME PlanType, NEW i \in Live, NEW j \in Live, NEW m \in assigned[i], m \in assigned[j],
         Carries(i, m), Carries(j, m), i # j
  PROVE  Group(i, m).ids \cap Group(j, m).ids = {}
  <1> DEFINE D == Shared(m)
             c == Current(Own(m), "span")
  <1>1. m \in Members /\ i \in D /\ j \in D
    BY DEF PlanType, Live, Shared
  <1>2. D \in SUBSET Shifts /\ Own(m) \in [D -> Slot]
    BY <1>1, OwnTimetable
  <1>3. Group(i, m) = GroupOf(Own(m), "span", i) /\ Group(j, m) = GroupOf(Own(m), "span", j)
    BY <1>1, <1>2, ClustersPartition DEF Group
  <1>4. Group(i, m).leader = i /\ Group(j, m).leader = j
    BY DEF Carries, Group
  <1>5. /\ Group(i, m).ids = {k \in D : c[k].leader = i}
        /\ Group(j, m).ids = {k \in D : c[k].leader = j}
    BY <1>2, <1>3, <1>4 DEF GroupOf
  <1> HIDE DEF c
  <1> QED
    BY <1>5

\* The reminder of a group is not due before the person's earlier shifts are over.
LEMMA CarrierWaits ==
  ASSUME PlanType, NEW i \in Live, NEW j \in Live, NEW m \in assigned[i], m \in assigned[j],
         Carries(i, m), slots[j].start < slots[i].start
  PROVE  RemindAt(slots[i]) >= slots[j].end
  <1> DEFINE D == Shared(m)
  <1>1. m \in Members /\ i \in D /\ j \in D
    BY DEF PlanType, Live, Shared
  <1>2. /\ D \in SUBSET Shifts /\ Own(m) \in [D -> Slot]
        /\ Own(m)[i] = slots[i] /\ Own(m)[j] = slots[j]
    BY <1>1, OwnTimetable
  <1>3. GroupOf(Own(m), "span", i).leader = i
    BY <1>1, <1>2, ClustersPartition DEF Carries
  <1>4. Current(Own(m), "span")[i].leader = i
    BY <1>3 DEF GroupOf
  <1>5. Precedes(Own(m), j, i)
    BY <1>2 DEF Precedes
  <1> QED
    BY <1>1, <1>2, <1>4, <1>5, SpanBegins

\* As long as the plan stays, so do the groups.
LEMMA GroupsStay ==
  ASSUME UNCHANGED plan
  PROVE  /\ Live' = Live
         /\ \A i, m : Group(i, m)' = Group(i, m) /\ Carries(i, m)' = Carries(i, m)
  <1>1. Live' = Live
    BY DEF plan, Live
  <1>2. ASSUME NEW m PROVE Own(m)' = Own(m)
    BY <1>1 DEF plan, Own
  <1>3. ASSUME NEW i, NEW m PROVE Group(i, m)' = Group(i, m) /\ Carries(i, m)' = Carries(i, m)
    BY <1>2 DEF Group, Carries
  <1> QED
    BY <1>1, <1>3

-----------------------------------------------------------------------------
(* Changes of the plan.                                                    *)

\* At most, reminders that wait are dropped.
OnlyDrops ==
  /\ rows' \in [Shifts -> Row]
  /\ \A j \in Shifts : \/ rows'[j] = rows[j]
                       \/ rows'[j] = NoRow /\ rows[j].status = "scheduled"

\* What dropFutureReminders does.
LEMMA DroppedDrops ==
  ASSUME rows \in [Shifts -> Row], NEW i \in Shifts, rows' = Dropped(i)
  PROVE  /\ OnlyDrops
         /\ \A j \in Shifts : j # i => rows'[j] = rows[j]
         /\ rows'[i].status # "scheduled"
  <1>1. NoRow \in Row /\ NoRow.status = "none"
    BY DEF NoRow, Row
  <1> QED
    BY <1>1 DEF Dropped, OnlyDrops

\* What a change of the plan leaves true, whatever it changes: it puts an end to all
\* that is promised of the plan before it.
LEMMA EditKeeps ==
  ASSUME IInv, Edit, OnlyDrops, PlanType', WaitsForItsMoment'
  PROVE  IInv'
  <1> USE DEF IInv, Edit, pass
  <1>1. StateType'
    BY DEF StateType, OnlyDrops
  <1>2. \A i \in Shifts : rows'[i].status = "sent" <=> rows[i].status = "sent"
    BY DEF OnlyDrops, NoRow
  <1>3. \A i \in Shifts : /\ rows'[i].status = "sent" => rows'[i].sentAt <= now
                          /\ rows'[i].status = "none" => ~rows'[i].outdated
    BY DEF OnlyDrops, NoRow, NotAhead
  <1>4. \A n \in inbox : n.by \in Shifts /\ n.edit \in Nat /\ n.edit <= edits
    BY DEF NotAhead, StateType, Message
  <1>5. NotAhead'
    BY <1>2, <1>3, <1>4 DEF NotAhead, StateType
  <1>6. TellsTheGroup'
    BY <1>4 DEF TellsTheGroup, StateType
  <1>7. \A i \in Shifts : rows'[i].status = "sent" => ~(rows'[i].sentAt > edited')
    BY <1>1, <1>3 DEF StateType, Row
  <1>8. \A i \in Live' : i \in Shifts /\ RemindAt(slots'[i]) \in Int
    BY SlotTimes DEF Live, PlanType
  <1>9. EverybodyTold'
    BY <1>7, <1>8 DEF EverybodyTold
  <1>10. SentAtTheMoment'
    BY <1>7, <1>8 DEF SentAtTheMoment, StateType
  <1>11. ToldOnce'
    BY DEF ToldOnce
  <1> QED
    BY <1>1, <1>5, <1>6, <1>9, <1>10, <1>11

\* A changed shift, whose reminder is dropped unless its time stays.
LEMMA ChangeShiftKeeps ==
  ASSUME IInv, NEW i \in Shifts, NEW slot \in Slot, NEW members \in SUBSET Members,
         NEW renamed \in BOOLEAN, ChangeShift(i, slot, members, renamed)
  PROVE  IInv'
  <1> USE DEF IInv
  <1>1. Edit /\ i \in Live
    BY DEF ChangeShift
  <1>2. slots' = [slots EXCEPT ![i] = slot] /\ assigned' = [assigned EXCEPT ![i] = members]
    BY DEF ChangeShift
  <1>3. Live' = Live
    BY <1>1, <1>2, ShiftRemindersAssumption DEF Live, PlanType
  <1>4. PlanType'
    BY <1>1, <1>2, <1>3 DEF PlanType
  <1>5. OnlyDrops /\ (\A j \in Shifts : j # i => rows'[j] = rows[j])
        /\ (slot # slots[i] => rows'[i].status # "scheduled")
        /\ (slot = slots[i] => rows'[i] = rows[i] \/ rows'[i].status # "scheduled")
    <2>1. CASE TimingOrNameChanged(i, slot, renamed)
      <3>1. rows' = Dropped(i)
        BY <2>1 DEF ChangeShift
      <3> QED BY <3>1, DroppedDrops DEF StateType
    <2>2. CASE ~TimingOrNameChanged(i, slot, renamed)
      <3>1. rows' = rows /\ slot = slots[i]
        BY <2>2 DEF ChangeShift, TimingOrNameChanged
      <3> QED BY <3>1 DEF OnlyDrops, StateType
    <2> QED BY <2>1, <2>2
  <1>6. WaitsForItsMoment'
    <2>1. \A j \in Shifts : slots'[j] = Unused => rows'[j].status = "none"
      BY <1>1, <1>2, <1>5, ShiftRemindersAssumption DEF WaitsForItsMoment, PlanType
    <2>2. \A j \in Live' : rows'[j].status = "scheduled" /\ ~rows'[j].outdated
                         => rows'[j].at = RemindAt(slots'[j])
      BY <1>2, <1>3, <1>5 DEF WaitsForItsMoment, PlanType, Live
    <2>3. \A e \in queue' : rows'[e.id].status = "scheduled" => rows'[e.id].at = e.at
      <3>1. queue' = queue /\ \A e \in queue : e.id \in Shifts
        BY <1>1 DEF Edit, pass, StateType, Entry
      <3> QED BY <1>5, <3>1 DEF WaitsForItsMoment, OnlyDrops, NoRow
    <2>4. \A e \in sweep' : slots'[e.id] # Unused
      BY <1>1, <1>2, ShiftRemindersAssumption
         DEF WaitsForItsMoment, Edit, pass, PlanType, StateType, Entry
    <2> QED BY <2>1, <2>2, <2>3, <2>4 DEF WaitsForItsMoment
  <1> QED
    BY <1>1, <1>4, <1>5, <1>6, EditKeeps

\* A new shift, which has no reminder yet.
LEMMA AddShiftKeeps ==
  ASSUME IInv, NEW i \in Shifts, NEW slot \in Slot, NEW members \in SUBSET Members,
         AddShift(i, slot, members)
  PROVE  IInv'
  <1> USE DEF IInv
  <1>1. Edit /\ slots[i] = Unused /\ rows' = rows
    BY DEF AddShift
  <1>2. slots' = [slots EXCEPT ![i] = slot] /\ assigned' = [assigned EXCEPT ![i] = members]
    BY DEF AddShift
  <1>3. Live' = Live \cup {i}
    BY <1>1, <1>2, ShiftRemindersAssumption DEF Live, PlanType
  <1>4. PlanType'
    BY <1>1, <1>2, <1>3 DEF PlanType
  <1>5. OnlyDrops
    BY <1>1 DEF OnlyDrops, StateType
  <1>6. WaitsForItsMoment'
    <2>1. rows[i].status = "none"
      BY <1>1 DEF WaitsForItsMoment
    <2>2. \A j \in Shifts : slots'[j] = Unused => rows'[j].status = "none"
      BY <1>1, <1>2, <2>1 DEF WaitsForItsMoment, PlanType
    <2>3. \A j \in Live' : rows'[j].status = "scheduled" /\ ~rows'[j].outdated
                         => rows'[j].at = RemindAt(slots'[j])
      BY <1>1, <1>2, <1>3, <2>1 DEF WaitsForItsMoment, PlanType, Live
    <2>4. \A e \in queue' : rows'[e.id].status = "scheduled" => rows'[e.id].at = e.at
      BY <1>1 DEF WaitsForItsMoment, Edit, pass
    <2>5. \A e \in sweep' : slots'[e.id] # Unused
      BY <1>1, <1>2, ShiftRemindersAssumption
         DEF WaitsForItsMoment, Edit, pass, PlanType, StateType, Entry
    <2> QED BY <2>2, <2>3, <2>4, <2>5 DEF WaitsForItsMoment
  <1> QED
    BY <1>1, <1>4, <1>5, <1>6, EditKeeps

\* A deleted shift, whose reminder stays for nobody.
LEMMA DeleteShiftKeeps ==
  ASSUME IInv, NEW i \in Shifts, DeleteShift(i)
  PROVE  IInv'
  <1> USE DEF IInv
  <1>1. Edit /\ i \in Live /\ rows' = rows
    BY DEF DeleteShift
  <1>2. slots' = [slots EXCEPT ![i] = Gone] /\ assigned' = [assigned EXCEPT ![i] = {}]
    BY DEF DeleteShift
  <1>3. Live' = Live \ {i}
    BY <1>1, <1>2 DEF Live, PlanType
  <1>4. PlanType'
    BY <1>2, <1>3 DEF PlanType
  <1>5. OnlyDrops
    BY <1>1 DEF OnlyDrops, StateType
  <1>6. WaitsForItsMoment'
    <2>1. \A j \in Shifts : slots'[j] = Unused => rows'[j].status = "none"
      BY <1>1, <1>2, ShiftRemindersAssumption DEF WaitsForItsMoment, PlanType
    <2>2. \A j \in Live' : rows'[j].status = "scheduled" /\ ~rows'[j].outdated
                         => rows'[j].at = RemindAt(slots'[j])
      BY <1>1, <1>2, <1>3 DEF WaitsForItsMoment, PlanType, Live
    <2>3. \A e \in queue' : rows'[e.id].status = "scheduled" => rows'[e.id].at = e.at
      BY <1>1 DEF WaitsForItsMoment, Edit, pass
    <2>4. \A e \in sweep' : slots'[e.id] # Unused
      BY <1>1, <1>2, ShiftRemindersAssumption
         DEF WaitsForItsMoment, Edit, pass, PlanType, StateType, Entry
    <2> QED BY <2>1, <2>2, <2>3, <2>4 DEF WaitsForItsMoment
  <1> QED
    BY <1>1, <1>4, <1>5, <1>6, EditKeeps

\* Somebody signs up for a shift, or leaves it.
LEMMA SelfServiceKeeps ==
  ASSUME IInv, NEW i \in Shifts, NEW m \in Members,
         addSelfToShift(i, m) \/ removeSelfFromShift(i, m)
  PROVE  IInv'
  <1> USE DEF IInv
  <1>1. Edit /\ i \in Live /\ slots' = slots /\ rows' = rows
    BY DEF addSelfToShift, removeSelfFromShift
  <1>2. \E held \in SUBSET Members : assigned' = [assigned EXCEPT ![i] = held]
    <2>1. assigned[i] \in SUBSET Members
      BY DEF PlanType
    <2>2. CASE addSelfToShift(i, m)
      BY <2>1, <2>2 DEF addSelfToShift
    <2>3. CASE removeSelfFromShift(i, m)
      BY <2>1, <2>3 DEF removeSelfFromShift
    <2> QED BY <2>2, <2>3
  <1>3. Live' = Live
    BY <1>1 DEF Live
  <1>4. PlanType'
    BY <1>1, <1>2, <1>3 DEF PlanType
  <1>5. OnlyDrops
    BY <1>1 DEF OnlyDrops, StateType
  <1>6. WaitsForItsMoment'
    BY <1>1, <1>3 DEF WaitsForItsMoment, Edit, pass
  <1> QED
    BY <1>1, <1>4, <1>5, <1>6, EditKeeps

-----------------------------------------------------------------------------
(* The sweep and the dispatcher.                                           *)

LEMMA InitKeeps ==
  ASSUME Init
  PROVE  IInv
  <1>1. PlanType
    BY ShiftRemindersAssumption DEF Init, PlanType, Live
  <1>2. StateType /\ \A i \in Shifts : rows[i].status = "none" /\ ~rows[i].outdated
    <2>1. NoRow \in Row /\ NoRow.status = "none" /\ ~NoRow.outdated
      BY DEF NoRow, Row
    <2>2. stage \in {"idle", "keys", "planning", "sending", "ended"} /\ known = {} /\ sweep = {}
      BY DEF Init
    <2>5. now \in Nat /\ edits \in Nat /\ edited \in Int /\ edited <= now
      BY DEF Init
    <2>3. rows \in [Shifts -> Row] /\ queue = {} /\ inbox = {}
      BY <2>1 DEF Init
    <2>4. \A i \in Shifts : rows[i].status = "none" /\ ~rows[i].outdated
      BY <2>1 DEF Init
    <2> QED BY <2>2, <2>3, <2>4, <2>5 DEF StateType
  <1>3. NotAhead /\ WaitsForItsMoment /\ TellsTheGroup /\ ToldOnce
    BY <1>2 DEF Init, NotAhead, WaitsForItsMoment, TellsTheGroup, ToldOnce, Live
  <1>4. EverybodyTold
    BY <1>2 DEF EverybodyTold, Live
  <1>5. \A i \in Live : i \in Shifts /\ RemindAt(slots[i]) \in Int
    BY <1>1, SlotTimes DEF Live, PlanType
  <1>6. SentAtTheMoment
    BY <1>2, <1>5 DEF Init, SentAtTheMoment, AtItsMoment
  <1> QED
    BY <1>1, <1>2, <1>3, <1>4, <1>6 DEF IInv

\* A step of the dispatcher that leaves plan, rows and messages alone.
OnlyReads ==
  /\ UNCHANGED <<slots, assigned, rows, now, inbox, edits, edited>>
  /\ \A e \in sweep' : e.id \in Shifts /\ slots[e.id] # Unused
  /\ \A e \in queue' : /\ e.at <= now
                       /\ rows[e.id].status = "scheduled" => rows[e.id].at = e.at

\* What such a step leaves true, but for the reminders at their moment.
LEMMA ReadKeeps ==
  ASSUME IInv, OnlyReads, StateType',
         stage' # "sending" => queue' = {}, stage' # "planning" => sweep' = {},
         \A i \in Live : edited < RemindAt(slots[i]) /\ ~rows[i].outdated
                        /\ RemindAt(slots[i]) = now => AtItsMoment(i)'
  PROVE  IInv'
  <1> USE DEF IInv
  <1>1. /\ slots' = slots /\ assigned' = assigned /\ rows' = rows /\ now' = now
        /\ inbox' = inbox /\ edits' = edits /\ edited' = edited
    BY DEF OnlyReads
  <1>2. Live' = Live /\ \A i, m : Group(i, m)' = Group(i, m) /\ Carries(i, m)' = Carries(i, m)
    BY <1>1, GroupsStay DEF plan
  <1>3. PlanType' /\ TellsTheGroup' /\ ToldOnce' /\ EverybodyTold'
    BY <1>1, <1>2 DEF PlanType, TellsTheGroup, ToldOnce, EverybodyTold
  <1>4. NotAhead'
    BY <1>1 DEF NotAhead, OnlyReads
  <1>5. WaitsForItsMoment'
    BY <1>1, <1>2 DEF WaitsForItsMoment, OnlyReads
  <1>6. SentAtTheMoment'
    BY <1>1, <1>2 DEF SentAtTheMoment
  <1> QED
    BY <1>3, <1>4, <1>5, <1>6

\* A pass begins, with the keys of what is planned.
LEMMA BeginPassKeeps ==
  ASSUME IInv, BeginPass
  PROVE  IInv'
  <1> USE DEF IInv
  <1>1. /\ stage' = "keys" /\ known' = {i \in Shifts : rows[i].status # "none"}
        /\ queue' = queue /\ sweep' = sweep /\ queue = {} /\ sweep = {} /\ rows' = rows
    BY DEF BeginPass, NotAhead
  <1>2. OnlyReads
    BY <1>1 DEF OnlyReads, BeginPass, plan
  <1>3. StateType'
    BY <1>1, <1>2 DEF StateType, OnlyReads
  <1>4. \A i \in Live : AtItsMoment(i)'
    BY <1>1 DEF AtItsMoment
  <1> QED
    BY <1>1, <1>2, <1>3, <1>4, ReadKeeps

\* It reads the shifts: a reminder at its moment is planned, or will be.
LEMMA ReadShiftsKeeps ==
  ASSUME IInv, ReadShifts
  PROVE  IInv'
  <1> USE DEF IInv
  <1>1. /\ stage = "keys" /\ stage' = "planning" /\ known' = {}
        /\ queue' = queue /\ queue = {} /\ rows' = rows
    BY DEF ReadShifts, NotAhead
  <1>2. sweep' = {[id |-> i, at |-> RemindAt(slots[i])] :
                    i \in {j \in Shifts \ known : Plans(j)}}
    BY DEF ReadShifts
  <1>3. \A i \in Live : i \in Shifts /\ slots[i] \in Slot
    BY DEF Live, PlanType
  <1>4. \A i \in Live : RemindAt(slots[i]) \in Int /\ slots[i].start \in Nat
                       /\ RemindAt(slots[i]) < slots[i].start
    BY <1>3, SlotTimes
  <1>5. sweep' \subseteq Entry /\ \A e \in sweep' : e.id \in Live
    BY <1>2, <1>4 DEF Plans, Entry
  <1>6. OnlyReads
    BY <1>1, <1>3, <1>5 DEF OnlyReads, ReadShifts, plan, Live
  <1>7. StateType'
    BY <1>1, <1>5, <1>6 DEF StateType, OnlyReads
  <1>8. ASSUME NEW i \in Live, edited < RemindAt(slots[i]), ~rows[i].outdated,
               RemindAt(slots[i]) = now
        PROVE  AtItsMoment(i)'
    <2>1. i \in known => rows[i].status # "none"
      BY <1>1, <1>8 DEF SentAtTheMoment, AtItsMoment
    <2>2. ASSUME i \notin known PROVE \E e \in sweep' : e.id = i
      <3>1. now \in Nat /\ now - Grace <= now
        BY ShiftRemindersAssumption DEF StateType
      <3>2. Plans(i)
        BY <1>3, <1>4, <1>8, <3>1 DEF Plans
      <3>3. [id |-> i, at |-> RemindAt(slots[i])] \in sweep'
        BY <1>2, <1>3, <2>2, <3>2
      <3> QED BY <3>3
    <2> QED BY <1>1, <2>1, <2>2 DEF AtItsMoment
  <1> QED
    BY <1>1, <1>6, <1>7, <1>8, ReadKeeps

\* It reads what is due: a reminder at its moment is among it, if it was not sent before.
LEMMA ReadDueKeeps ==
  ASSUME IInv, ReadDue
  PROVE  IInv'
  <1> USE DEF IInv
  <1>1. /\ stage = "planning" /\ sweep = {} /\ sweep' = {} /\ known' = known /\ rows' = rows
        /\ stage' = IF queue' = {} THEN "ended" ELSE "sending"
    BY DEF ReadDue
  <1>2. queue' = {[id |-> i, at |-> rows[i].at] :
                    i \in {j \in Shifts : rows[j].status = "scheduled" /\ rows[j].at <= now}}
    BY DEF ReadDue
  <1>3. queue' \subseteq Entry
    BY <1>2 DEF StateType, Row, Entry
  <1>4. OnlyReads
    BY <1>1, <1>2 DEF OnlyReads, ReadDue, plan
  <1>5. stage' \in {"sending", "ended"} /\ (stage' = "ended" <=> queue' = {})
    BY <1>1
  <1>6. StateType'
    BY <1>1, <1>3, <1>4, <1>5 DEF StateType, OnlyReads
  <1>7. ASSUME NEW i \in Live, edited < RemindAt(slots[i]), ~rows[i].outdated,
               RemindAt(slots[i]) = now
        PROVE  AtItsMoment(i)'
    <2>1. i \in Shifts /\ rows[i].status \in {"none", "scheduled", "sent"} /\ now \in Nat
      BY DEF Live, StateType, Row
    <2>2. rows[i].status # "none"
      BY <1>1, <1>7 DEF SentAtTheMoment, AtItsMoment
    <2>3. ASSUME rows[i].status = "scheduled" PROVE \E e \in queue' : e.id = i
      <3>1. rows[i].at = now
        BY <1>7, <2>3 DEF WaitsForItsMoment
      <3>2. [id |-> i, at |-> rows[i].at] \in queue'
        BY <1>2, <2>1, <2>3, <3>1
      <3> QED BY <3>2
    <2> QED BY <1>1, <1>5, <2>1, <2>2, <2>3 DEF AtItsMoment
  <1> QED
    BY <1>1, <1>4, <1>5, <1>6, <1>7, ReadKeeps

\* A row that the sweep inserts.
LEMMA PlannedType ==
  ASSUME NEW entry \in Entry
  PROVE  /\ PlannedRow(entry) \in Row
         /\ PlannedRow(entry).status = "scheduled" /\ PlannedRow(entry).at = entry.at
         /\ ~PlannedRow(entry).outdated => /\ entry.id \in Live
                                           /\ RemindAt(slots[entry.id]) = entry.at
  <1> DEFINE late == ~(entry.id \in Live /\ RemindAt(slots[entry.id]) = entry.at)
  <1>1. late \in BOOLEAN /\ entry.at \in Int
    BY DEF Entry
  <1>2. PlannedRow(entry) = [status |-> "scheduled", at |-> entry.at, sentAt |-> 0,
                             outdated |-> late]
    BY DEF PlannedRow
  <1>3. ~late => entry.id \in Live /\ RemindAt(slots[entry.id]) = entry.at
    OBVIOUS
  <1> HIDE DEF late
  <1> QED
    BY <1>1, <1>2, <1>3 DEF Row

\* The next reminder is planned, unless its key is there.
LEMMA PlanReminderKeeps ==
  ASSUME IInv, NEW entry \in sweep, PlanReminder(entry)
  PROVE  IInv'
  <1> USE DEF IInv
  <1>1. PICK i \in Shifts : i = entry.id
    BY DEF StateType, Entry
  <1>2. /\ slots' = slots /\ assigned' = assigned /\ now' = now /\ stage' = stage
        /\ known' = known /\ queue' = queue /\ inbox' = inbox /\ edits' = edits
        /\ edited' = edited /\ sweep' = sweep \ {entry}
    BY DEF PlanReminder, plan
  <1>3. stage = "planning" /\ queue = {}
    BY DEF NotAhead
  <1>4. entry \in Entry
    BY DEF StateType
  <1>5. /\ rows' \in [Shifts -> Row]
        /\ \A j \in Shifts : j # i => rows'[j] = rows[j]
        /\ rows[i].status # "none" => rows'[i] = rows[i]
        /\ rows[i].status = "none" => rows'[i] = PlannedRow(entry)
    <2>1. rows' = IF rows[i].status = "none" THEN [rows EXCEPT ![i] = PlannedRow(entry)] ELSE rows
      BY <1>1 DEF PlanReminder
    <2>2. PlannedRow(entry) \in Row
      BY <1>4, PlannedType
    <2> QED BY <2>1, <2>2 DEF StateType
  <1>6. rows'[i].status # "none"
    BY <1>4, <1>5, PlannedType
  <1>7. \A j \in Shifts : /\ rows'[j].status = "sent" => rows'[j] = rows[j]
                          /\ rows[j].status # "none" => rows'[j] = rows[j]
    BY <1>4, <1>5, PlannedType
  <1>8. Live' = Live /\ \A j, m : Group(j, m)' = Group(j, m) /\ Carries(j, m)' = Carries(j, m)
    BY <1>2, GroupsStay DEF plan
  <1>9. PlanType'
    BY <1>2, <1>8 DEF PlanType
  <1>10. StateType'
    BY <1>2, <1>5 DEF StateType
  <1>11. NotAhead'
    <2>1. \A n \in inbox : n.by \in Shifts
      BY DEF StateType, Message
    <2>2. \A j \in Shifts : rows'[j].status = "none" => rows'[j] = rows[j]
      BY <1>5, <1>6
    <2> QED BY <1>2, <1>3, <1>7, <2>1, <2>2 DEF NotAhead
  <1>12. WaitsForItsMoment'
    <2>1. \A j \in Shifts : slots[j] = Unused => rows'[j].status = "none"
      BY <1>1, <1>5 DEF WaitsForItsMoment
    <2>2. ASSUME NEW j \in Live, rows'[j].status = "scheduled", ~rows'[j].outdated
          PROVE  rows'[j].at = RemindAt(slots[j])
      <3>1. CASE rows'[j] = rows[j]
        BY <2>2, <3>1 DEF WaitsForItsMoment
      <3>2. CASE j = i /\ rows'[j] = PlannedRow(entry)
        BY <1>1, <1>4, <2>2, <3>2, PlannedType
      <3> QED BY <1>5, <3>1, <3>2 DEF Live
    <2> QED BY <1>2, <1>3, <1>8, <2>1, <2>2 DEF WaitsForItsMoment
  <1>13. TellsTheGroup' /\ ToldOnce'
    BY <1>2, <1>8 DEF TellsTheGroup, ToldOnce
  <1>14. EverybodyTold'
    <2>1. \A j \in Live : j \in Shifts
      BY DEF Live
    <2> QED BY <1>2, <1>7, <1>8, <2>1 DEF EverybodyTold
  <1>15. SentAtTheMoment'
    <2> SUFFICES ASSUME NEW j \in Live, edited < RemindAt(slots[j]), ~rows'[j].outdated
        PROVE  /\ rows'[j].status = "sent" /\ rows'[j].sentAt > edited
                    => rows'[j].sentAt = RemindAt(slots[j])
               /\ RemindAt(slots[j]) < now => rows'[j].status = "sent"
               /\ RemindAt(slots[j]) = now => AtItsMoment(j)'
      BY <1>2, <1>8 DEF SentAtTheMoment
    <2>1. CASE rows'[j] = rows[j]
      <3>1. RemindAt(slots[j]) = now => AtItsMoment(j)
        BY <2>1 DEF SentAtTheMoment
      <3>2. RemindAt(slots[j]) = now => AtItsMoment(j)'
        <4>1. j \in Shifts
          BY DEF Live
        <4>2. CASE j = i
          BY <1>2, <1>3, <1>6, <4>2 DEF AtItsMoment
        <4>3. CASE j # i
          BY <1>1, <1>2, <1>3, <2>1, <3>1, <4>3 DEF AtItsMoment
        <4> QED BY <4>2, <4>3
      <3> QED BY <2>1, <3>2 DEF SentAtTheMoment
    <2>2. CASE j = i /\ rows[i].status = "none" /\ rows'[j] = PlannedRow(entry)
      <3>1. rows'[j].status = "scheduled" /\ RemindAt(slots[j]) = entry.at
        BY <1>1, <1>4, <2>2, PlannedType
      <3>2. ~(RemindAt(slots[j]) < now)
        BY <2>2, <1>1 DEF SentAtTheMoment, NotAhead
      <3> QED BY <1>2, <1>3, <2>2, <3>1, <3>2 DEF AtItsMoment
    <2> QED BY <1>5, <2>1, <2>2 DEF Live
  <1> QED
    BY <1>9, <1>10, <1>11, <1>12, <1>13, <1>14, <1>15

\* The clock moves on, after a pass.
LEMMA TickKeeps ==
  ASSUME IInv, Tick
  PROVE  IInv'
  <1> USE DEF IInv
  <1>1. /\ stage = "ended" /\ stage' = "idle" /\ now' = now + 1
        /\ slots' = slots /\ assigned' = assigned /\ rows' = rows
        /\ known' = known /\ sweep' = sweep /\ queue' = queue
        /\ inbox' = inbox /\ edits' = edits /\ edited' = edited
    BY DEF Tick, plan
  <1>2. Live' = Live /\ \A i, m : Group(i, m)' = Group(i, m) /\ Carries(i, m)' = Carries(i, m)
    BY <1>1, GroupsStay DEF plan
  <1>3. PlanType'
    BY <1>1, <1>2 DEF PlanType
  <1>4. StateType'
    <2>1. now' \in Nat /\ edited' <= now'
      BY <1>1 DEF StateType
    <2> QED BY <1>1, <2>1 DEF StateType
  <1>5. NotAhead'
    <2>1. \A i \in Shifts : rows[i].status = "sent" => rows[i].sentAt <= now + 1
      BY DEF NotAhead, StateType, Row
    <2>2. queue = {} /\ sweep = {}
      BY <1>1 DEF NotAhead
    <2> QED BY <1>1, <2>1, <2>2 DEF NotAhead
  <1>6. WaitsForItsMoment' /\ TellsTheGroup' /\ ToldOnce' /\ EverybodyTold'
    BY <1>1, <1>2 DEF WaitsForItsMoment, TellsTheGroup, ToldOnce, EverybodyTold
  <1>7. \A i \in Live : RemindAt(slots[i]) \in Int
    BY SlotTimes DEF Live, PlanType
  <1>8. SentAtTheMoment'
    BY <1>1, <1>2, <1>7 DEF SentAtTheMoment, AtItsMoment, StateType
  <1> QED
    BY <1>3, <1>4, <1>5, <1>6, <1>8

\* A reminder of the pass that has been dropped meanwhile.
LEMMA SkipKeeps ==
  ASSUME IInv, NEW entry \in queue, Send(entry), rows[entry.id].status # "scheduled"
  PROVE  IInv'
  <1> USE DEF IInv
  <1>1. /\ rows' = rows /\ inbox' = inbox
        /\ queue' = queue \ {entry} /\ stage' = IF queue' = {} THEN "ended" ELSE "sending"
        /\ known' = known /\ sweep' = sweep /\ stage = "sending" /\ sweep = {}
        /\ slots' = slots /\ assigned' = assigned /\ now' = now
        /\ edits' = edits /\ edited' = edited
    BY DEF Send, plan, NotAhead
  <1>2. Live' = Live /\ \A i, m : Group(i, m)' = Group(i, m) /\ Carries(i, m)' = Carries(i, m)
    BY <1>1, GroupsStay DEF plan
  <1>3. PlanType' /\ WaitsForItsMoment' /\ TellsTheGroup' /\ ToldOnce' /\ EverybodyTold'
    BY <1>1, <1>2 DEF PlanType, WaitsForItsMoment, TellsTheGroup, ToldOnce, EverybodyTold
  <1>6. NotAhead'
    BY <1>1 DEF NotAhead
  <1>7. stage' \in {"sending", "ended"} /\ (stage' = "ended" <=> queue' = {})
    BY <1>1
  <1>4. StateType'
    BY <1>1, <1>7 DEF StateType
  <1>5. SentAtTheMoment'
    <2>1. ASSUME NEW i \in Live, AtItsMoment(i) PROVE AtItsMoment(i)'
      <3>1. \A e \in queue : e.id = i /\ rows[i].status = "scheduled" => e \in queue'
        BY <1>1
      <3> QED BY <1>1, <1>7, <2>1, <3>1 DEF AtItsMoment
    <2> QED BY <1>1, <1>2, <2>1 DEF SentAtTheMoment
  <1> QED
    BY <1>3, <1>4, <1>5, <1>6

\* The messages of a reminder.
LEMMA MessagesTell ==
  ASSUME IInv, NEW i \in Shifts
  PROVE  /\ \A n \in Messages(i) :
              /\ n \in Message /\ n.member \in assigned[i] /\ n.by = i
              /\ n.at = now /\ n.edit = edits
              /\ Carries(i, n.member) /\ n.shifts = Group(i, n.member).ids
         /\ \A m \in assigned[i] : Carries(i, m) => \E n \in Messages(i) : n.member = m
         /\ \A n, o \in Messages(i) : n.member = o.member => n = o
  <1> USE DEF IInv
  <1> DEFINE Told(m) == [member |-> m, by |-> i, shifts |-> Group(i, m).ids,
                         at |-> now, edit |-> edits]
  <1>1. Messages(i) = {Told(m) : m \in {n \in assigned[i] : Carries(i, n)}}
    BY DEF Messages, Group
  <1>2. \A m \in assigned[i] : m \in Members /\ i \in Live
    BY DEF PlanType
  <1>3. \A m \in assigned[i] : Group(i, m).ids \subseteq Shifts
    BY <1>2, GroupHasCarrier
  <1>4. \A m \in assigned[i] : Told(m) \in Message
    BY <1>2, <1>3 DEF Message, StateType
  <1>5. \A m : /\ Told(m).member = m /\ Told(m).by = i /\ Told(m).shifts = Group(i, m).ids
               /\ Told(m).at = now /\ Told(m).edit = edits
    OBVIOUS
  <1> HIDE DEF Told
  <1> QED
    BY <1>1, <1>4, <1>5

\* A reminder is sent, at the moment its shift has by the plan.
LEMMA SentNow ==
  ASSUME IInv, NEW entry \in queue, rows[entry.id].status = "scheduled", entry.id \in Live,
         ~rows[entry.id].outdated
  PROVE  /\ RemindAt(slots[entry.id]) <= now
         /\ edited < RemindAt(slots[entry.id]) => RemindAt(slots[entry.id]) = now
  <1> USE DEF IInv
  <1> DEFINE i == entry.id
  <1>1. slots[i] \in Slot /\ RemindAt(slots[i]) \in Int
    BY SlotTimes DEF Live, PlanType
  <1>2. RemindAt(slots[i]) = entry.at /\ entry.at <= now
    BY DEF WaitsForItsMoment, NotAhead
  <1>3. edited < RemindAt(slots[i]) => ~(RemindAt(slots[i]) < now)
    BY DEF SentAtTheMoment
  <1> QED
    BY <1>1, <1>2, <1>3 DEF StateType

\* What becomes of a row when its reminder is sent.
LEMMA RowSent ==
  ASSUME NEW row \in Row, NEW time \in Int
  PROVE  \E sent \in Row : /\ sent = [row EXCEPT !.status = "sent", !.sentAt = time]
                           /\ sent.status = "sent" /\ sent.sentAt = time
                           /\ sent.outdated = row.outdated
  <1>1. ASSUME NEW r \in Row
        PROVE  /\ [r EXCEPT !.status = "sent"] \in Row
               /\ [r EXCEPT !.status = "sent"].status = "sent"
               /\ [r EXCEPT !.status = "sent"].outdated = r.outdated
    BY DEF Row
  <1>2. ASSUME NEW r \in Row
        PROVE  /\ [r EXCEPT !.sentAt = time] \in Row
               /\ [r EXCEPT !.sentAt = time].status = r.status
               /\ [r EXCEPT !.sentAt = time].sentAt = time
               /\ [r EXCEPT !.sentAt = time].outdated = r.outdated
    BY DEF Row
  <1>3. PICK half \in Row : /\ half = [row EXCEPT !.status = "sent"] /\ half.status = "sent"
                            /\ half.outdated = row.outdated
    BY <1>1
  <1>4. [row EXCEPT !.status = "sent", !.sentAt = time] = [half EXCEPT !.sentAt = time]
    BY <1>3
  <1> QED
    BY <1>2, <1>3, <1>4

\* A reminder of the pass goes out.
LEMMA SendKeeps ==
  ASSUME IInv, NEW entry \in queue, Send(entry), rows[entry.id].status = "scheduled"
  PROVE  IInv'
  <1> USE DEF IInv
  <1>1. PICK i \in Shifts : i = entry.id
    BY DEF StateType, Entry
  <1>2. /\ inbox' = inbox \cup Messages(i)
        /\ queue' = queue \ {entry} /\ stage' = IF queue' = {} THEN "ended" ELSE "sending"
        /\ known' = known /\ sweep' = sweep /\ stage = "sending" /\ sweep = {}
        /\ slots' = slots /\ assigned' = assigned /\ now' = now
        /\ edits' = edits /\ edited' = edited
    BY <1>1 DEF Send, plan, NotAhead
  <1>15. stage' \in {"sending", "ended"} /\ (stage' = "ended" <=> queue' = {})
    BY <1>2
  <1>3. /\ rows' \in [Shifts -> Row]
        /\ rows'[i].status = "sent" /\ rows'[i].sentAt = now
        /\ rows'[i].outdated = rows[i].outdated
        /\ \A j \in Shifts : j # i => rows'[j] = rows[j]
    <2>1. rows' = [rows EXCEPT ![i] = [rows[i] EXCEPT !.status = "sent", !.sentAt = now]]
      BY <1>1 DEF Send
    <2>2. PICK row \in Row : row = rows[i]
      BY DEF StateType
    <2>3. now \in Int
      BY DEF StateType
    <2>4. PICK sent \in Row : /\ sent = [row EXCEPT !.status = "sent", !.sentAt = now]
                              /\ sent.status = "sent" /\ sent.sentAt = now
                              /\ sent.outdated = row.outdated
      BY <2>3, RowSent
    <2>5. rows' = [rows EXCEPT ![i] = sent]
      BY <2>1, <2>2, <2>4
    <2> QED BY <2>2, <2>4, <2>5 DEF StateType
  <1>4. Live' = Live /\ \A j, m : Group(j, m)' = Group(j, m) /\ Carries(j, m)' = Carries(j, m)
    BY <1>2, GroupsStay DEF plan
  <1>5. \A n \in Messages(i) :
          /\ n \in Message /\ n.member \in assigned[i] /\ n.by = i
          /\ n.at = now /\ n.edit = edits
          /\ Carries(i, n.member) /\ n.shifts = Group(i, n.member).ids
    BY MessagesTell
  <1>6. \A n \in inbox : n.by \in Shifts /\ n.by # i
    BY <1>1 DEF NotAhead, StateType, Message
  <1>7. PlanType'
    BY <1>2, <1>4 DEF PlanType
  <1>8. StateType'
    <2>1. inbox' \subseteq Message /\ queue' \subseteq Entry
      BY <1>2, <1>5 DEF StateType
    <2> QED BY <1>2, <1>3, <1>15, <2>1 DEF StateType
  <1>9. NotAhead'
    <2>1. \A j \in Shifts : /\ rows'[j].status = "sent" => rows'[j].sentAt <= now
                            /\ rows'[j].status = "none" => ~rows'[j].outdated
      BY <1>3 DEF NotAhead, StateType
    <2>2. \A e \in queue' : e.at <= now
      BY <1>2 DEF NotAhead
    <2>3. \A n \in inbox' : n.edit <= edits /\ rows'[n.by].status = "sent"
      BY <1>2, <1>3, <1>5, <1>6 DEF NotAhead, StateType
    <2> QED BY <1>2, <1>15, <2>1, <2>2, <2>3 DEF NotAhead
  <1>10. WaitsForItsMoment'
    <2>1. \A j \in Shifts : slots[j] = Unused => rows'[j].status = "none"
      BY <1>1, <1>3 DEF WaitsForItsMoment
    <2>2. \A j \in Live : rows'[j].status = "scheduled" /\ ~rows'[j].outdated
                         => rows'[j].at = RemindAt(slots[j])
      BY <1>3 DEF WaitsForItsMoment, Live
    <2>3. \A e \in queue' : rows'[e.id].status = "scheduled" => rows'[e.id].at = e.at
      BY <1>2, <1>3 DEF WaitsForItsMoment, StateType, Entry
    <2> QED BY <1>2, <1>4, <2>1, <2>2, <2>3 DEF WaitsForItsMoment
  <1>11. TellsTheGroup'
    <2>1. \A n \in inbox' : n.edit = edits =>
            /\ n.member \in assigned[n.by] /\ Carries(n.by, n.member)
            /\ n.shifts = Group(n.by, n.member).ids
      BY <1>2, <1>5 DEF TellsTheGroup
    <2> QED BY <1>2, <1>4, <2>1 DEF TellsTheGroup
  <1>12. EverybodyTold'
    <2>1. ASSUME NEW j \in Live, rows'[j].status = "sent", rows'[j].sentAt > edited,
                 NEW m \in assigned[j], Carries(j, m)
          PROVE  \E n \in inbox' : /\ n.member = m /\ n.by = j /\ n.at = rows'[j].sentAt
                                   /\ n.edit = edits /\ n.shifts = Group(j, m).ids
      <3>1. CASE j = i
        <4>1. PICK n \in Messages(i) : n.member = m
          BY <2>1, <3>1, MessagesTell
        <4> QED BY <1>2, <1>3, <1>5, <3>1, <4>1
      <3>2. CASE j # i
        <4>1. rows'[j] = rows[j]
          BY <1>3, <3>2 DEF Live
        <4> QED BY <1>2, <2>1, <4>1 DEF EverybodyTold
      <3> QED BY <3>1, <3>2
    <2> QED BY <1>2, <1>4, <2>1 DEF EverybodyTold
  <1>13. SentAtTheMoment'
    <2> SUFFICES ASSUME NEW j \in Live, edited < RemindAt(slots[j]), ~rows'[j].outdated
        PROVE  /\ rows'[j].status = "sent" /\ rows'[j].sentAt > edited
                    => rows'[j].sentAt = RemindAt(slots[j])
               /\ RemindAt(slots[j]) < now => rows'[j].status = "sent"
               /\ RemindAt(slots[j]) = now => AtItsMoment(j)'
      BY <1>2, <1>4 DEF SentAtTheMoment
    <2>1. CASE j = i
      <3>1. RemindAt(slots[j]) = now
        BY <1>1, <1>3, <2>1, SentNow
      <3> QED BY <1>3, <1>15, <2>1, <3>1 DEF AtItsMoment
    <2>2. CASE j # i
      <3>1. rows'[j] = rows[j]
        BY <1>3, <2>2 DEF Live
      <3>2. /\ rows[j].status = "sent" /\ rows[j].sentAt > edited
                 => rows[j].sentAt = RemindAt(slots[j])
            /\ RemindAt(slots[j]) < now => rows[j].status = "sent"
        BY <3>1 DEF SentAtTheMoment
      <3>3. RemindAt(slots[j]) = now => AtItsMoment(j)
        BY <3>1 DEF SentAtTheMoment
      <3>4. \A e \in queue : e.id = j => e \in queue'
        BY <1>1, <1>2, <2>2
      <3>5. RemindAt(slots[j]) = now => AtItsMoment(j)'
        BY <1>2, <1>15, <3>1, <3>3, <3>4 DEF AtItsMoment
      <3> QED BY <3>1, <3>2, <3>5
    <2> QED BY <2>1, <2>2
  <1>14. ToldOnce'
    <2>1. ASSUME NEW n \in Messages(i), NEW o \in inbox, n.member = o.member, n.edit = o.edit
          PROVE  n.shifts \cap o.shifts = {}
      <3>1. /\ o.member \in assigned[o.by] /\ Carries(o.by, o.member)
            /\ o.shifts = Group(o.by, o.member).ids
        BY <1>5, <2>1 DEF TellsTheGroup
      <3>2. /\ n.member \in assigned[i] /\ Carries(i, n.member)
            /\ n.shifts = Group(i, n.member).ids
        BY <1>5
      <3>3. i \in Live /\ o.by \in Live
        BY <1>6, <3>1, <3>2 DEF PlanType
      <3> QED BY <1>6, <2>1, <3>1, <3>2, <3>3, CarriersPart
    <2>2. \A n, o \in Messages(i) : n.member = o.member => n = o
      BY MessagesTell
    <2> QED BY <1>2, <2>1, <2>2 DEF ToldOnce
  <1> QED
    BY <1>7, <1>8, <1>9, <1>10, <1>11, <1>12, <1>13, <1>14

LEMMA NextKeeps ==
  ASSUME IInv, [Next]_vars
  PROVE  IInv'
  <1>1. ASSUME NEW i \in Shifts, NEW slot \in Slot, NEW members \in SUBSET Members,
               NEW renamed \in BOOLEAN, ChangeShift(i, slot, members, renamed)
        PROVE  IInv'
    BY <1>1, ChangeShiftKeeps
  <1>2. ASSUME NEW i \in Shifts, NEW slot \in Slot, NEW members \in SUBSET Members,
               AddShift(i, slot, members)
        PROVE  IInv'
    BY <1>2, AddShiftKeeps
  <1>3. ASSUME NEW i \in Shifts, DeleteShift(i) PROVE IInv'
    BY <1>3, DeleteShiftKeeps
  <1>4. ASSUME NEW i \in Shifts, NEW m \in Members,
               addSelfToShift(i, m) \/ removeSelfFromShift(i, m)
        PROVE  IInv'
    BY <1>4, SelfServiceKeeps
  <1>5. ASSUME NEW entry \in queue, Send(entry) PROVE IInv'
    BY <1>5, SendKeeps, SkipKeeps
  <1>7. ASSUME NEW entry \in sweep, PlanReminder(entry) PROVE IInv'
    BY <1>7, PlanReminderKeeps
  <1>6. ASSUME UNCHANGED vars PROVE IInv'
    <2>1. UNCHANGED plan
      BY <1>6 DEF vars, plan
    <2>2. Live' = Live /\ \A i, m : Group(i, m)' = Group(i, m) /\ Carries(i, m)' = Carries(i, m)
      BY <2>1, GroupsStay
    <2>3. PlanType' /\ StateType' /\ NotAhead' /\ WaitsForItsMoment'
      BY <1>6, <2>2 DEF vars, IInv, PlanType, StateType, NotAhead, WaitsForItsMoment
    <2>4. TellsTheGroup' /\ EverybodyTold' /\ SentAtTheMoment' /\ ToldOnce'
      BY <1>6, <2>2 DEF vars, IInv, TellsTheGroup, EverybodyTold, SentAtTheMoment, AtItsMoment, ToldOnce
    <2> QED BY <2>3, <2>4 DEF IInv
  <1> QED
    BY <1>1, <1>2, <1>3, <1>4, <1>5, <1>6, <1>7, BeginPassKeeps, ReadShiftsKeeps,
       ReadDueKeeps, TickKeeps DEF Next

LEMMA Invariance == Spec => []IInv
  <1>1. Init => IInv
    BY InitKeeps
  <1>2. IInv /\ [Next]_vars => IInv'
    BY NextKeeps
  <1> QED
    BY <1>1, <1>2, PTL DEF Spec
-----------------------------------------------------------------------------
(* What is promised.                                                       *)

\* In every plan the walk of clusterByLeadTime groups shifts and deadlines as its
\* comment says, whatever the lead time and however many shifts there are.
THEOREM ShiftRemindersClusters == Spec => []ClustersAsDocumented
  <1>1. IInv => ClustersAsDocumented
    BY GroupsAsDocumented DEF IInv, PlanType
  <1> QED
    BY <1>1, Invariance, PTL

\* The reminder of a group goes out at its moment, with every shift of the group.
LEMMA TellsInTime ==
  ASSUME IInv
  PROVE  ToldInTime
  <1> USE DEF IInv
  <1> SUFFICES ASSUME NEW i \in Live, NEW m \in assigned[i], NEW l, l = Group(i, m).leader,
                      edited < RemindAt(slots[l]), ~rows[l].outdated,
                      RemindAt(slots[l]) < now \/ (RemindAt(slots[l]) = now /\ stage = "ended"),
                      ~(rows[l].status = "sent" /\ rows[l].sentAt <= edited)
      PROVE  \E n \in inbox : /\ n.member = m /\ n.by = l /\ i \in n.shifts
                              /\ n.at = RemindAt(slots[l]) /\ n.edit = edits
    BY DEF ToldInTime, Group
  <1>1. /\ i \in Group(i, m).ids
        /\ l \in Live /\ m \in assigned[l] /\ Carries(l, m) /\ Group(l, m) = Group(i, m)
    BY GroupHasCarrier
  <1>2. rows[l].status = "sent"
    BY <1>1 DEF SentAtTheMoment, AtItsMoment
  <1>3. rows[l].sentAt > edited
    BY <1>1, <1>2 DEF StateType, Row, Live
  <1>4. rows[l].sentAt = RemindAt(slots[l])
    BY <1>1, <1>2, <1>3 DEF SentAtTheMoment
  <1>5. PICK n \in inbox : /\ n.member = m /\ n.by = l /\ n.at = rows[l].sentAt
                           /\ n.edit = edits /\ n.shifts = Group(l, m).ids
    BY <1>1, <1>2, <1>3 DEF EverybodyTold
  <1> QED
    BY <1>1, <1>4, <1>5

\* Everybody who has a shift is told of it at the moment of its group, by the one
\* reminder of that group that is not skipped, as long as the plan stays as it is and
\* the sweep planned that reminder by it; saves may come between any two of its steps.
THEOREM ShiftRemindersToldInTime == Spec => []ToldInTime
  <1> QED
    BY TellsInTime, Invariance, PTL

\* Nobody is told of the same shift twice between two changes of the plan: two groups
\* of one person share no shift, and one reminder is sent once.
THEOREM ShiftRemindersToldOnce == Spec => []ToldOnce
  <1>1. IInv => ToldOnce
    BY DEF IInv
  <1> QED
    BY <1>1, Invariance, PTL

\* Nobody is reminded of a shift while an earlier one of theirs is not over, whatever
\* has been moved since the reminder was planned, unless the shift had been moved
\* when it was: between the sweep's reading and its insert.
THEOREM ShiftRemindersNotDuringShift == Spec => NotDuringShift
  <1> DEFINE Waits == \A n \in inbox' \ inbox : \A j \in Live :
                        /\ ~rows[n.by].outdated
                        /\ n.member \in assigned[j] /\ slots[j].start < slots[n.by].start
                        => slots[j].end <= now
  <1>1. ASSUME IInv, [Next]_vars PROVE [Waits]_vars
    <2> SUFFICES ASSUME NEW n \in inbox' \ inbox, NEW j \in Live, ~rows[n.by].outdated,
                        n.member \in assigned[j], slots[j].start < slots[n.by].start
        PROVE  slots[j].end <= now
      OBVIOUS
    <2>1. PICK entry \in queue : Send(entry) /\ rows[entry.id].status = "scheduled"
      BY <1>1 DEF Next, ChangeShift, AddShift, DeleteShift, addSelfToShift,
                  removeSelfFromShift, Edit, BeginPass, ReadShifts, PlanReminder,
                  ReadDue, Send, Tick, vars
    <2>2. PICK i \in Shifts : i = entry.id
      BY <1>1 DEF IInv, StateType, Entry
    <2>3. n \in Messages(i)
      BY <2>1, <2>2 DEF Send
    <2>4. n.by = i /\ n.member \in assigned[i] /\ Carries(i, n.member)
      BY <1>1, <2>3, MessagesTell
    <2>5. PlanType
      BY <1>1 DEF IInv
    <2>6. i \in Live
      BY <2>4, <2>5 DEF PlanType
    <2>7. RemindAt(slots[i]) >= slots[j].end
      BY <2>4, <2>5, <2>6, CarrierWaits
    <2>8. RemindAt(slots[i]) <= now
      BY <1>1, <2>1, <2>2, <2>4, <2>6, SentNow
    <2>9. slots[j].end \in Nat /\ RemindAt(slots[i]) \in Int /\ now \in Nat
      BY <1>1, <2>5, <2>6, SlotTimes DEF PlanType, Live, IInv, StateType
    <2> QED BY <2>7, <2>8, <2>9
  <1> QED
    BY <1>1, Invariance, PTL DEF Spec, NotDuringShift
=============================================================================
