------------------------- MODULE ResearchQueueProofs -------------------------
(* What holds of the searches and the queue of a research job, for every set   *)
(* of pages, topics and limits: no page is read twice, and a topic that is      *)
(* reported as complete was read.                                              *)
EXTENDS ResearchQueue, FiniteSetTheorems, SequenceTheorems, WellFoundedInduction, TLAPS

-----------------------------------------------------------------------------
(* ResearchQueue: sorting, selecting, cutting and joining lists of pages.     *)

Once(s) == \A i, j \in DOMAIN s : s[i] = s[j] => i = j
IsList(s) == s \in Seq(Pages) /\ Once(s)
(* Each member of a finite set once, and a list read in another order.        *)
Lists(order, S) ==
    /\ Cardinality(S) \in Nat /\ order \in [1 .. Cardinality(S) -> S] /\ Once(order)
    /\ \A x \in S : \E k \in 1 .. Cardinality(S) : order[k] = x
Through(t, s, order, n) ==
    t = [k \in 1 .. n |-> s[order[k]]]

(* Each member has a place of its own: the number of those before it.         *)
LEMMA SortedOnce ==
    ASSUME NEW S, IsFiniteSet(S), NEW earlier,
           \A x \in S : <<x, x>> \notin earlier,
           \A x, y, z \in S : <<x, y>> \in earlier /\ <<y, z>> \in earlier => <<x, z>> \in earlier,
           \A x, y \in S : x # y => <<x, y>> \in earlier \/ <<y, x>> \in earlier
    PROVE  Lists(Sorted(S, earlier), S)
<1>1. PICK n \in Nat : n = Cardinality(S)
  BY FS_CardinalityType
<1>2. PICK before : before = [x \in S |-> {y \in S : <<y, x>> \in earlier}]
  OBVIOUS
<1>3. \A x \in S : /\ before[x] \in SUBSET (S \ {x})
                   /\ IsFiniteSet(before[x]) /\ Cardinality(before[x]) \in Nat
                   /\ Cardinality(before[x]) < n
  <2>1. SUFFICES ASSUME NEW x \in S
                 PROVE  /\ before[x] \in SUBSET (S \ {x})
                        /\ IsFiniteSet(before[x]) /\ Cardinality(before[x]) \in Nat
                        /\ Cardinality(before[x]) < n
    OBVIOUS
  <2>2. PICK others : others = S \ {x}
    OBVIOUS
  <2>3. IsFiniteSet(others) /\ Cardinality(others) = n - 1
    BY <1>1, <2>2, FS_RemoveElement
  <2>4. before[x] \in SUBSET others
    BY <1>2, <2>2
  <2>5. IsFiniteSet(before[x]) /\ Cardinality(before[x]) <= n - 1
    BY <2>3, <2>4, FS_Subset
  <2>6. Cardinality(before[x]) \in Nat
    BY <2>5, FS_CardinalityType
  <2>7. Cardinality(before[x]) < n
    BY <2>5, <2>6
  <2>8. QED
    BY <2>2, <2>4, <2>5, <2>6, <2>7
<1>4. \A x, y \in S : <<x, y>> \in earlier => Cardinality(before[x]) < Cardinality(before[y])
  <2>1. SUFFICES ASSUME NEW x \in S, NEW y \in S, <<x, y>> \in earlier
                 PROVE  Cardinality(before[x]) < Cardinality(before[y])
    OBVIOUS
  <2>2. before[x] \in SUBSET before[y] /\ x \in before[y] /\ x \notin before[x]
    BY <1>2, <2>1
  <2>3. before[y] # before[x]
    BY <2>2
  <2>4. /\ Cardinality(before[x]) <= Cardinality(before[y])
        /\ Cardinality(before[y]) # Cardinality(before[x])
    BY <1>3, <2>2, <2>3, FS_Subset
  <2>5. Cardinality(before[x]) \in Nat /\ Cardinality(before[y]) \in Nat
    BY <1>3
  <2>6. QED
    BY <2>4, <2>5
<1>5. PICK rank : rank = [x \in S |-> Cardinality(before[x]) + 1]
  OBVIOUS
<1>6. rank \in [S -> 1 .. n]
  <2>1. \A c \in Nat : c < n => c + 1 \in 1 .. n
    OBVIOUS
  <2>2. QED
    BY <1>3, <1>5, <2>1
<1>7. \A x, y \in S : rank[x] = rank[y] => x = y
  <2>1. SUFFICES ASSUME NEW x \in S, NEW y \in S, rank[x] = rank[y], x # y PROVE FALSE
    OBVIOUS
  <2>2. <<x, y>> \in earlier \/ <<y, x>> \in earlier
    BY <2>1
  <2>3. /\ Cardinality(before[x]) + 1 = Cardinality(before[y]) + 1
        /\ Cardinality(before[x]) \in Nat /\ Cardinality(before[y]) \in Nat
    BY <1>3, <1>5, <2>1
  <2>4. /\ <<x, y>> \in earlier => Cardinality(before[x]) < Cardinality(before[y])
        /\ <<y, x>> \in earlier => Cardinality(before[y]) < Cardinality(before[x])
    BY <1>4
  <2>5. QED
    BY <2>2, <2>3, <2>4
<1>8. rank \in Injection(S, 1 .. n)
  BY <1>6, <1>7 DEF Injection, IsInjective
<1>9. IsFiniteSet(1 .. n) /\ Cardinality(1 .. n) = n
  BY FS_Interval
<1>10. \A k \in 1 .. n : \E x \in S : rank[x] = k
  <2>1. rank \in Surjection(S, 1 .. n)
    BY <1>1, <1>8, <1>9, FS_Injection
  <2>2. QED
    BY <2>1 DEF Surjection
<1>11. PICK s : s = Sorted(S, earlier)
  OBVIOUS
<1>12. \A k \in 1 .. n : s[k] \in S /\ rank[s[k]] = k
  <2>1. SUFFICES ASSUME NEW k \in 1 .. n PROVE s[k] \in S /\ rank[s[k]] = k
    OBVIOUS
  <2>2. s[k] = CHOOSE x \in S : Cardinality({y \in S : <<y, x>> \in earlier}) = k - 1
    BY <1>1, <1>11 DEF Sorted
  <2>3. PICK x \in S : rank[x] = k
    BY <1>10
  <2>4. before[x] = {y \in S : <<y, x>> \in earlier} /\ Cardinality(before[x]) = k - 1
    <3>1. Cardinality(before[x]) \in Nat /\ Cardinality(before[x]) + 1 = k
      BY <1>3, <1>5, <2>3
    <3>2. QED
      BY <1>2, <3>1
  <2>5. \E z \in S : Cardinality({y \in S : <<y, z>> \in earlier}) = k - 1
    BY <2>4
  <2>6. s[k] \in S /\ Cardinality({y \in S : <<y, s[k]>> \in earlier}) = k - 1
    BY <2>2, <2>5
  <2>7. rank[s[k]] = Cardinality(before[s[k]]) + 1
        /\ before[s[k]] = {y \in S : <<y, s[k]>> \in earlier}
    BY <1>2, <1>5, <2>6
  <2>8. QED
    BY <2>6, <2>7
<1>13. s \in [1 .. n -> S]
  BY <1>1, <1>11, <1>12 DEF Sorted
<1>14. Once(s)
  <2>1. ASSUME NEW i \in 1 .. n, NEW j \in 1 .. n, s[i] = s[j] PROVE i = j
    BY <1>12, <2>1
  <2>2. QED
    BY <1>13, <2>1 DEF Once
<1>15. \A x \in S : \E k \in 1 .. n : s[k] = x
  <2>1. SUFFICES ASSUME NEW x \in S PROVE \E k \in 1 .. n : s[k] = x
    OBVIOUS
  <2>2. PICK k \in 1 .. n : k = rank[x]
    BY <1>6
  <2>3. s[k] \in S /\ rank[s[k]] = rank[x]
    BY <1>12, <2>2
  <2>4. QED
    BY <1>7, <2>3
<1>16. QED
  BY <1>1, <1>11, <1>13, <1>14, <1>15 DEF Lists

LEMMA PagesFinite ==
    ASSUME NEW P \in SUBSET Pages PROVE IsFiniteSet(P)
<1>1. IsFiniteSet(Pages)
  BY QueueAssumption, FS_Interval DEF Pages
<1>2. QED
  BY <1>1, FS_Subset

(* A list in another order.                                                   *)
LEMMA Rearranged ==
    ASSUME NEW s, IsList(s), NEW places, places \subseteq DOMAIN s,
           NEW order, Lists(order, places), NEW n, n = Cardinality(places),
           NEW t, Through(t, s, order, n)
    PROVE  IsList(t) /\ Len(t) = n /\ ToSet(t) = {s[i] : i \in places}
<1>1. /\ n \in Nat /\ order \in [1 .. n -> places] /\ Once(order)
      /\ \A i \in places : \E k \in 1 .. n : order[k] = i
  BY DEF Lists
<1>2. \A k \in 1 .. n : order[k] \in DOMAIN s /\ s[order[k]] \in Pages
  BY <1>1 DEF IsList
<1>3. /\ t \in Seq(Pages) /\ DOMAIN t = 1 .. n /\ Len(t) = n
      /\ \A k \in 1 .. n : t[k] = s[order[k]]
  BY <1>1, <1>2 DEF Through
<1>4. Once(t)
  BY <1>1, <1>2, <1>3 DEF Once, IsList
<1>5. ToSet(t) = {s[i] : i \in places}
  BY <1>1, <1>3 DEF ToSet
<1>6. QED
  BY <1>3, <1>4, <1>5 DEF IsList

LEMMA OnlyThose ==
    ASSUME NEW s, IsList(s), NEW P
    PROVE  IsList(Only(s, P)) /\ ToSet(Only(s, P)) = ToSet(s) \cap P
<1>1. PICK places : places = {i \in DOMAIN s : s[i] \in P}
  OBVIOUS
<1>2. /\ Len(s) \in Nat /\ DOMAIN s = 1 .. Len(s) /\ places \in SUBSET (1 .. Len(s))
      /\ \A i \in places : i \in Nat
  BY <1>1 DEF IsList
<1>3. IsFiniteSet(places)
  <2>1. IsFiniteSet(1 .. Len(s))
    BY <1>2, FS_Interval
  <2>2. QED
    BY <1>2, <2>1, FS_Subset
<1>4. PICK earlier : earlier = {e \in places \X places : e[1] < e[2]}
  OBVIOUS
<1>5. PICK order : order = Sorted(places, earlier)
  OBVIOUS
<1>6. \A i, j \in places : <<i, j>> \in earlier <=> i < j
  BY <1>4
<1>7. Lists(order, places)
  <2>1. \A i \in places : <<i, i>> \notin earlier
    BY <1>2, <1>6
  <2>2. \A i, j, k \in places :
            <<i, j>> \in earlier /\ <<j, k>> \in earlier => <<i, k>> \in earlier
    BY <1>2, <1>6
  <2>3. \A i, j \in places : i # j => <<i, j>> \in earlier \/ <<j, i>> \in earlier
    BY <1>2, <1>6
  <2>4. QED
    BY <1>3, <1>5, <2>1, <2>2, <2>3, SortedOnce
<1>8. PICK t : t = Only(s, P)
  OBVIOUS
<1>9. Through(t, s, order, Cardinality(places))
  BY <1>1, <1>4, <1>5, <1>8 DEF Only, Through
<1>10. IsList(t) /\ ToSet(t) = {s[i] : i \in places}
  BY <1>2, <1>7, <1>9, Rearranged
<1>11. {s[i] : i \in places} = ToSet(s) \cap P
  BY <1>1 DEF ToSet
<1>12. QED
  BY <1>8, <1>10, <1>11

(* The first of a list, and how often each page is in two lists.             *)
LEMMA CutList ==
    ASSUME NEW s, IsList(s), NEW n \in Int
    PROVE  /\ IsList(Upto(s, n)) /\ ToSet(Upto(s, n)) \subseteq ToSet(s)
           /\ ToSet(Upto(s, n)) \cup Beyond(s, n) = ToSet(s)
<1>1. PICK m \in 0 .. Len(s) : Upto(s, n) = SubSeq(s, 1, m)
  <2>1. Len(s) \in Nat
    BY DEF IsList
  <2>2. QED
    BY <2>1 DEF Upto
<1>2. PICK t : t = SubSeq(s, 1, m)
  OBVIOUS
<1>3. /\ s \in Seq(Pages) /\ Len(s) \in Nat /\ m \in Nat /\ DOMAIN s = 1 .. Len(s)
      /\ \A i \in 1 .. m : s[i] \in Pages
  BY DEF IsList
<1>4. t \in Seq(Pages) /\ DOMAIN t = 1 .. m /\ \A i \in 1 .. m : t[i] = s[i]
  BY <1>2, <1>3, SubSeqProperties
<1>5. Once(t)
  BY <1>3, <1>4 DEF Once, IsList
<1>6. ToSet(t) \subseteq ToSet(s)
  BY <1>3, <1>4 DEF ToSet
<1>7. QED
  BY <1>1, <1>2, <1>4, <1>5, <1>6 DEF IsList, Beyond

LEMMA JoinedLists ==
    ASSUME NEW s, NEW t, IsList(s), IsList(t), ToSet(s) \cap ToSet(t) = {}
    PROVE  /\ IsList(s \o t) /\ ToSet(s \o t) = ToSet(s) \cup ToSet(t)
           /\ Len(s \o t) = Len(s) + Len(t)
           /\ \A i \in 1 .. Len(s) : (s \o t)[i] = s[i]
<1>1. PICK u : u = s \o t
  OBVIOUS
<1>2. /\ s \in Seq(Pages) /\ t \in Seq(Pages) /\ Len(s) \in Nat /\ Len(t) \in Nat
      /\ DOMAIN s = 1 .. Len(s) /\ DOMAIN t = 1 .. Len(t)
  BY DEF IsList
<1>3. /\ u \in Seq(Pages) /\ Len(u) = Len(s) + Len(t) /\ DOMAIN u = 1 .. (Len(s) + Len(t))
      /\ \A i \in 1 .. Len(s) : u[i] = s[i]
      /\ \A i \in DOMAIN u \ (1 .. Len(s)) : i - Len(s) \in DOMAIN t /\ u[i] = t[i - Len(s)]
  BY <1>1, <1>2
<1>4. \A j \in DOMAIN t : j + Len(s) \in DOMAIN u /\ u[j + Len(s)] = t[j]
  BY <1>2, <1>3
<1>5. ToSet(u) = ToSet(s) \cup ToSet(t)
  BY <1>2, <1>3, <1>4 DEF ToSet
<1>6. Once(u)
  <2>1. SUFFICES ASSUME NEW i \in DOMAIN u, NEW j \in DOMAIN u, u[i] = u[j] PROVE i = j
    BY DEF Once
  <2>2. CASE i \in 1 .. Len(s) /\ j \in 1 .. Len(s)
    BY <1>2, <1>3, <2>1, <2>2 DEF IsList, Once
  <2>3. CASE i \notin 1 .. Len(s) /\ j \notin 1 .. Len(s)
    <3>1. i - Len(s) \in DOMAIN t /\ j - Len(s) \in DOMAIN t /\ t[i - Len(s)] = t[j - Len(s)]
      BY <1>3, <2>1, <2>3
    <3>2. i - Len(s) = j - Len(s)
      BY <3>1 DEF IsList, Once
    <3>3. i \in Int /\ j \in Int
      BY <1>3
    <3>4. QED
      BY <1>2, <3>2, <3>3
  <2>4. ASSUME NEW k \in DOMAIN u, NEW l \in DOMAIN u, k \in 1 .. Len(s), l \notin 1 .. Len(s)
        PROVE  u[k] # u[l]
    BY <1>2, <1>3, <2>4 DEF ToSet
  <2>5. QED
    BY <2>1, <2>2, <2>3, <2>4
<1>7. QED
  BY <1>1, <1>3, <1>5, <1>6 DEF IsList

-----------------------------------------------------------------------------
(* ResearchQueue: the places of pages in the queue are all different.          *)

(* Places are compared number by number, the last of which is the page's own.  *)
FirstLess(a, b) ==
    \E n \in 1 .. 4 : a[n] < b[n] /\ \A m \in 1 .. n - 1 : a[m] = b[m]

LEMMA FirstLessCases ==
    ASSUME NEW a \in [1 .. 4 -> Nat], NEW b \in [1 .. 4 -> Nat]
    PROVE  FirstLess(a, b) <=>
               \/ a[1] < b[1]
               \/ a[1] = b[1] /\ a[2] < b[2]
               \/ a[1] = b[1] /\ a[2] = b[2] /\ a[3] < b[3]
               \/ a[1] = b[1] /\ a[2] = b[2] /\ a[3] = b[3] /\ a[4] < b[4]
<1>1. /\ 1 .. 1 - 1 = {} /\ 1 .. 2 - 1 = {1} /\ 1 .. 3 - 1 = {1, 2} /\ 1 .. 4 - 1 = {1, 2, 3}
      /\ 1 .. 4 = {1, 2, 3, 4}
  OBVIOUS
<1>2. FirstLess(a, b) <=>
          \E n \in {1, 2, 3, 4} : a[n] < b[n] /\ \A m \in 1 .. n - 1 : a[m] = b[m]
  BY <1>1 DEF FirstLess
<1>3. QED
  BY <1>1, <1>2

LEMMA FirstLessOrders ==
    ASSUME NEW a \in [1 .. 4 -> Nat], NEW b \in [1 .. 4 -> Nat], NEW c \in [1 .. 4 -> Nat]
    PROVE  /\ ~FirstLess(a, a)
           /\ FirstLess(a, b) /\ FirstLess(b, c) => FirstLess(a, c)
           /\ a[4] # b[4] => FirstLess(a, b) \/ FirstLess(b, a)
<1>1. \A n \in 1 .. 4 : a[n] \in Nat /\ b[n] \in Nat /\ c[n] \in Nat
  OBVIOUS
<1>2. QED
  BY <1>1, FirstLessCases

LEMMA PlaceNumbers ==
    ASSUME NEW s, IsList(s), NEW i \in DOMAIN s
    PROVE  Place(s, i) \in [1 .. 4 -> Nat] /\ Place(s, i)[4] = i
<1>1. i \in Nat
  BY DEF IsList
<1>2. Round(s, i) \in Nat
  <2>1. PICK S : S = {j \in 1 .. i - 1 : TopicOf[s[j]] = TopicOf[s[i]] /\ TakesTurn(s, s[j])}
    OBVIOUS
  <2>2. IsFiniteSet(1 .. i - 1) /\ S \in SUBSET (1 .. i - 1)
    BY <1>1, <2>1, FS_Interval
  <2>3. QED
    BY <2>1, <2>2, FS_Subset, FS_CardinalityType DEF Round
<1>3. \A g : TurnOf(g) \in Nat
  <2>1. SUFFICES ASSUME NEW g PROVE TurnOf(g) \in Nat
    OBVIOUS
  <2>2. PICK S : S = {h \in Groups :
            \/ Cardinality(Readable(h)) < Cardinality(Readable(g))
            \/ (Cardinality(Readable(h)) = Cardinality(Readable(g)) /\ h < g)}
    OBVIOUS
  <2>3. IsFiniteSet(Groups) /\ S \in SUBSET Groups
    <3>1. GroupMax \in Int
      BY QueueAssumption
    <3>2. IsFiniteSet(Groups)
      BY <3>1, FS_Interval DEF Groups
    <3>3. QED
      BY <2>2, <3>2
  <2>4. QED
    BY <2>2, <2>3, FS_Subset, FS_CardinalityType DEF TurnOf
<1>4. CASE TakesTurn(s, s[i])
  <2>1. PICK a \in Nat, b \in Nat : a = Round(s, i) /\ b = TurnOf(TopicOf[s[i]])
    BY <1>2, <1>3
  <2>2. Place(s, i) = <<0, a, b, i>>
    BY <1>4, <2>1 DEF Place
  <2>3. QED
    BY <1>1, <2>1, <2>2
<1>5. CASE ~TakesTurn(s, s[i])
  <2>1. PICK a \in Nat, b \in Nat : /\ a = IF s[i] \in Waits(s) THEN 1 ELSE 0
                                    /\ b = IF s[i] \in Directory THEN 1 ELSE 0
    OBVIOUS
  <2>2. Place(s, i) = <<1, a, b, i>>
    BY <1>5, <2>1 DEF Place
  <2>3. QED
    BY <1>1, <2>1, <2>2
<1>6. QED
  BY <1>4, <1>5

LEMMA OrderedList ==
    ASSUME NEW s, IsList(s)
    PROVE  IsList(Ordered(s)) /\ Len(Ordered(s)) = Len(s) /\ ToSet(Ordered(s)) = ToSet(s)
<1>1. PICK places : places = DOMAIN s
  OBVIOUS
<1>2. /\ Len(s) \in Nat /\ places = 1 .. Len(s) /\ IsFiniteSet(places)
      /\ Cardinality(places) = Len(s)
  <2>1. Len(s) \in Nat /\ places = 1 .. Len(s)
    BY <1>1 DEF IsList
  <2>2. /\ IsFiniteSet(1 .. Len(s))
        /\ Cardinality(1 .. Len(s)) = IF 1 > Len(s) THEN 0 ELSE Len(s) - 1 + 1
    BY <2>1, FS_Interval
  <2>3. QED
    BY <2>1, <2>2
<1>3. PICK earlier : earlier = {e \in places \X places : Before(s, e[1], e[2])}
  OBVIOUS
<1>4. \A i, j \in places : <<i, j>> \in earlier <=> FirstLess(Place(s, i), Place(s, j))
  BY <1>3 DEF Before, FirstLess
<1>5. \A i \in places : Place(s, i) \in [1 .. 4 -> Nat] /\ Place(s, i)[4] = i
  BY <1>1, PlaceNumbers
<1>6. PICK order : order = Sorted(places, earlier)
  OBVIOUS
<1>7. Lists(order, places)
  <2>1. \A i \in places : <<i, i>> \notin earlier
    BY <1>4, <1>5, FirstLessOrders
  <2>2. \A i, j, k \in places :
            <<i, j>> \in earlier /\ <<j, k>> \in earlier => <<i, k>> \in earlier
    BY <1>4, <1>5, FirstLessOrders
  <2>3. \A i, j \in places : i # j => <<i, j>> \in earlier \/ <<j, i>> \in earlier
    BY <1>4, <1>5, FirstLessOrders
  <2>4. QED
    BY <1>2, <1>6, <2>1, <2>2, <2>3, SortedOnce
<1>8. PICK t : t = Ordered(s)
  OBVIOUS
<1>9. Through(t, s, order, Cardinality(places))
  BY <1>1, <1>2, <1>3, <1>6, <1>8 DEF Ordered, Through
<1>10. IsList(t) /\ Len(t) = Len(s) /\ ToSet(t) = {s[i] : i \in places}
  BY <1>1, <1>2, <1>7, <1>9, Rearranged
<1>11. QED
  BY <1>1, <1>8, <1>10 DEF ToSet

LEMMA ScoredList ==
    ASSUME NEW P \in SUBSET Pages
    PROVE  IsList(ByScore(P)) /\ ToSet(ByScore(P)) = P
<1>1. PICK earlier : earlier = {e \in P \X P : ScoredBefore(e[1], e[2])}
  OBVIOUS
<1>2. /\ \A p, q \in P : <<p, q>> \in earlier <=> ScoredBefore(p, q)
      /\ \A p \in P : p \in Nat
  BY <1>1 DEF Pages
<1>3. PICK s : s = ByScore(P)
  OBVIOUS
<1>4. Lists(s, P)
  <2>1. IsFiniteSet(P)
    BY PagesFinite
  <2>2. \A p \in P : <<p, p>> \notin earlier
    BY <1>2 DEF ScoredBefore
  <2>3. \A p, q, r \in P :
            <<p, q>> \in earlier /\ <<q, r>> \in earlier => <<p, r>> \in earlier
    BY <1>2 DEF ScoredBefore
  <2>4. \A p, q \in P : p # q => <<p, q>> \in earlier \/ <<q, p>> \in earlier
    BY <1>2 DEF ScoredBefore
  <2>5. s = Sorted(P, earlier)
    BY <1>1, <1>3 DEF ByScore
  <2>6. QED
    BY <2>1, <2>2, <2>3, <2>4, <2>5, SortedOnce
<1>5. PICK n \in Nat : n = Cardinality(P)
  BY <1>4 DEF Lists
<1>6. s \in [1 .. n -> Pages] /\ Once(s) /\ \A x \in P : \E k \in 1 .. n : s[k] = x
  BY <1>4, <1>5 DEF Lists
<1>7. \A k \in 1 .. n : s[k] \in P
  BY <1>4, <1>5 DEF Lists
<1>8. QED
  BY <1>3, <1>6, <1>7 DEF IsList, ToSet

-----------------------------------------------------------------------------
(* ResearchQueue: every way the queue is put together keeps what was read in   *)
(* front and each page once.                                                   *)

(* The queue is what has been read, then what lies ahead.                      *)
LEMMA QueueParts ==
    ASSUME IsList(queue), index \in 0 .. Len(queue)
    PROVE  /\ IsList(Done) /\ Len(Done) = index /\ IsList(Ahead)
           /\ Len(Ahead) = Len(queue) - index
           /\ ToSet(Done) \cap ToSet(Ahead) = {} /\ ToSet(Done) \cup ToSet(Ahead) = ToSet(queue)
           /\ index < Len(queue) => queue[index + 1] = Ahead[1] /\ 1 \in DOMAIN Ahead
           /\ ToSet(Done) = {queue[i] : i \in 1 .. index}
<1>1. /\ queue \in Seq(Pages) /\ Len(queue) \in Nat /\ index \in Nat /\ index <= Len(queue)
      /\ DOMAIN queue = 1 .. Len(queue) /\ Once(queue)
      /\ \A i \in 1 .. Len(queue) : queue[i] \in Pages
  BY DEF IsList
<1>2. PICK d, a : d = Done /\ a = Ahead
  OBVIOUS
<1>3. /\ d \in Seq(Pages) /\ Len(d) = index /\ DOMAIN d = 1 .. index
      /\ \A i \in 1 .. index : d[i] = queue[i]
  BY <1>1, <1>2, SubSeqProperties DEF Done
<1>4. /\ a \in Seq(Pages) /\ Len(a) = Len(queue) - index /\ DOMAIN a = 1 .. (Len(queue) - index)
      /\ \A i \in 1 .. (Len(queue) - index) : a[i] = queue[i + index]
  <2>1. \A i \in (index + 1) .. Len(queue) : queue[i] \in Pages
    BY <1>1
  <2>2. PICK m, n, k : m = k + 1 /\ k = index /\ n = Len(queue)
    OBVIOUS
  <2>3. m \in Nat /\ n \in Nat /\ k \in Nat /\ k <= n
    BY <1>1, <2>2
  <2>4. /\ a \in Seq(Pages) /\ Len(a) = (IF m <= n THEN n - m + 1 ELSE 0)
        /\ \A i \in 1 .. n - m + 1 : a[i] = queue[m + i - 1]
    BY <1>2, <2>1, <2>2, <2>3, SubSeqProperties DEF Ahead
  <2>5. Len(a) = n - k /\ \A i \in 1 .. n - k : a[i] = queue[i + k]
    <3>1. n - m + 1 = n - k /\ (m <= n <=> k < n) /\ \A i \in 1 .. n - k : m + i - 1 = i + k
      BY <2>2, <2>3
    <3>2. Len(a) = n - k
      <4>1. CASE k < n
        BY <2>4, <3>1, <4>1
      <4>2. CASE k = n
        BY <2>3, <2>4, <3>1, <4>2
      <4>3. QED
        BY <2>3, <4>1, <4>2
    <3>3. ASSUME NEW i \in 1 .. n - k PROVE a[i] = queue[i + k]
      <4>1. i \in 1 .. n - m + 1 /\ m + i - 1 = i + k
        BY <3>1
      <4>2. a[i] = queue[m + i - 1]
        BY <2>4, <4>1
      <4>3. QED
        BY <4>1, <4>2
    <3>4. QED
      BY <3>2, <3>3
  <2>6. a \in Seq(Pages) /\ DOMAIN a = 1 .. Len(a)
    BY <2>4
  <2>7. QED
    BY <2>2, <2>5, <2>6
<1>5. Once(d) /\ Once(a)
  <2>1. Once(d)
    BY <1>1, <1>3 DEF Once
  <2>2. ASSUME NEW i \in DOMAIN a, NEW j \in DOMAIN a, a[i] = a[j] PROVE i = j
    <3>1. i + index \in DOMAIN queue /\ j + index \in DOMAIN queue
      BY <1>1, <1>4
    <3>2. i + index = j + index
      BY <1>1, <1>4, <2>2, <3>1 DEF Once
    <3>3. QED
      BY <1>1, <1>4, <3>2
  <2>3. QED
    BY <2>1, <2>2 DEF Once
<1>6. ToSet(d) = {queue[i] : i \in 1 .. index}
  BY <1>3 DEF ToSet
<1>7. ToSet(d) \cap ToSet(a) = {}
  <2>1. ASSUME NEW i \in 1 .. index, NEW j \in DOMAIN a, d[i] = a[j] PROVE FALSE
    <3>1. i \in DOMAIN queue /\ j + index \in DOMAIN queue /\ queue[i] = queue[j + index]
      BY <1>1, <1>3, <1>4, <2>1
    <3>2. i = j + index
      BY <1>1, <3>1 DEF Once
    <3>3. QED
      BY <1>1, <1>4, <2>1, <3>2
  <2>2. QED
    BY <1>3, <2>1 DEF ToSet
<1>8. ToSet(d) \cup ToSet(a) = ToSet(queue)
  <2>1. ToSet(d) \subseteq ToSet(queue)
    BY <1>1, <1>3 DEF ToSet
  <2>2. ToSet(a) \subseteq ToSet(queue)
    <3>1. \A i \in DOMAIN a : i + index \in DOMAIN queue
      BY <1>1, <1>4
    <3>2. QED
      BY <1>4, <3>1 DEF ToSet
  <2>3. ASSUME NEW i \in DOMAIN queue PROVE queue[i] \in ToSet(d) \cup ToSet(a)
    <3>1. CASE i <= index
      BY <1>1, <1>3, <3>1 DEF ToSet
    <3>2. CASE ~(i <= index)
      <4>1. i - index \in DOMAIN a /\ (i - index) + index = i
        BY <1>1, <1>4, <3>2
      <4>2. QED
        BY <1>4, <4>1 DEF ToSet
    <3>3. QED
      BY <3>1, <3>2
  <2>4. QED
    BY <2>1, <2>2, <2>3 DEF ToSet
<1>9. index < Len(queue) => queue[index + 1] = a[1] /\ 1 \in DOMAIN a
  BY <1>1, <1>4
<1>10. QED
  BY <1>2, <1>3, <1>4, <1>5, <1>6, <1>7, <1>8, <1>9 DEF IsList

(* Beyond the pages read, any list of other pages may follow.                 *)
AfterRead(q) ==
    IsList(q) /\ index \in 0 .. Len(q) /\ \A i \in 1 .. index : q[i] = queue[i]

LEMMA PartsJoined ==
    ASSUME IsList(queue), index \in 0 .. Len(queue),
           NEW x, IsList(x), ToSet(x) \cap ToSet(Done) = {}, NEW q, q = Done \o x
    PROVE  /\ AfterRead(q) /\ ToSet(q) = ToSet(Done) \cup ToSet(x)
           /\ Len(q) = index + Len(x)
<1>1. PICK d : d = Done
  OBVIOUS
<1>2. /\ IsList(d) /\ Len(d) = index /\ ToSet(d) \cap ToSet(x) = {}
      /\ index \in Nat /\ Len(x) \in Nat
  BY <1>1, QueueParts DEF IsList
<1>3. /\ IsList(d \o x) /\ ToSet(d \o x) = ToSet(d) \cup ToSet(x)
      /\ Len(d \o x) = Len(d) + Len(x)
      /\ \A i \in 1 .. Len(d) : (d \o x)[i] = d[i]
  BY <1>2, JoinedLists
<1>4. \A i \in 1 .. index : d[i] = queue[i]
  BY <1>1, SubSeqProperties DEF Done, IsList
<1>5. IsList(q) /\ Len(q) = index + Len(x) /\ \A i \in 1 .. index : q[i] = queue[i]
  BY <1>1, <1>2, <1>3, <1>4
<1>6. index \in 0 .. Len(q)
  BY <1>2, <1>5
<1>7. QED
  BY <1>1, <1>3, <1>5, <1>6 DEF AfterRead

LEMMA Reordered ==
    ASSUME IsList(queue), index \in 0 .. Len(queue), Reorder
    PROVE  /\ AfterRead(queue') /\ ToSet(queue') = ToSet(queue) /\ Len(queue') = Len(queue)
<1>1. CASE Planned
  <2>1. PICK x : x = Ordered(Ahead)
    OBVIOUS
  <2>2. IsList(x) /\ Len(x) = Len(Ahead) /\ ToSet(x) = ToSet(Ahead)
    BY <2>1, QueueParts, OrderedList
  <2>3. queue' = Done \o x
    BY <1>1, <2>1 DEF Reorder
  <2>4. ToSet(x) \cap ToSet(Done) = {}
    BY <2>2, QueueParts
  <2>5. /\ AfterRead(queue') /\ ToSet(queue') = ToSet(Done) \cup ToSet(x)
        /\ Len(queue') = index + Len(x)
    BY <2>2, <2>3, <2>4, PartsJoined
  <2>6. ToSet(Done) \cup ToSet(Ahead) = ToSet(queue) /\ Len(Ahead) = Len(queue) - index
    BY QueueParts
  <2>7. index \in Nat /\ Len(queue) \in Nat
    BY DEF IsList
  <2>8. QED
    BY <2>2, <2>5, <2>6, <2>7
<1>2. CASE ~Planned
  BY <1>2 DEF Reorder, AfterRead
<1>3. QED
  BY <1>1, <1>2

(* The list that the answer of a fallback makes of what lies ahead.           *)
LEMMA RefilledList ==
    ASSUME IsList(queue), index \in 0 .. Len(queue), NEW g, NEW P \in SUBSET Pages
    PROVE  /\ IsList(Refilled(g, P)) /\ ToSet(Refilled(g, P)) \cap ToSet(Done) = {}
           /\ ToSet(Refilled(g, P)) \subseteq P \cup ToSet(queue)
           /\ ToSet(Ahead) \subseteq ToSet(Refilled(g, P))
           /\ Planned => P \subseteq ToSet(queue) \cup ToSet(Refilled(g, P)) \cup Denied
<1>1. PICK known : known = ToSet(queue) \cup (IF RulesKnown THEN Denied ELSE {})
  OBVIOUS
<1>2. PICK a, d : a = Ahead /\ d = Done
  OBVIOUS
<1>3. /\ IsList(a) /\ ToSet(d) \cap ToSet(a) = {} /\ ToSet(d) \cup ToSet(a) = ToSet(queue)
  BY <1>2, QueueParts
<1>4. PICK new, again, rest : /\ new = ByScore(P \ known) /\ again = Only(a, P)
                              /\ rest = Only(a, Pages \ P)
  OBVIOUS
<1>5. IsList(new) /\ ToSet(new) = P \ known
  BY <1>4, ScoredList
<1>6. IsList(again) /\ ToSet(again) = ToSet(a) \cap P
  BY <1>3, <1>4, OnlyThose
<1>7. IsList(rest) /\ ToSet(rest) = ToSet(a) \cap (Pages \ P)
  BY <1>3, <1>4, OnlyThose
<1>8. PICK first : first = IF Planned THEN new ELSE Upto(new, QueueMax - Len(queue))
  OBVIOUS
<1>9. QueueMax - Len(queue) \in Int
  <2>1. QueueMax \in Nat
    BY QueueAssumption
  <2>2. Len(queue) \in Nat
    BY DEF IsList
  <2>3. QED
    BY <2>1, <2>2
<1>11. /\ IsList(first) /\ ToSet(first) \subseteq P \ known
       /\ (Planned => ToSet(first) = P \ known)
  BY <1>5, <1>8, <1>9, CutList
<1>12. ToSet(first) \cap ToSet(again) = {} /\ ToSet(again) \cap ToSet(rest) = {}
       /\ ToSet(first) \cap ToSet(rest) = {}
  BY <1>1, <1>3, <1>6, <1>7, <1>11
<1>13. IsList(first \o again) /\ ToSet(first \o again) = ToSet(first) \cup ToSet(again)
  BY <1>6, <1>11, <1>12, JoinedLists
<1>14. ToSet(first \o again) \cap ToSet(rest) = {}
  BY <1>12, <1>13
<1>15. /\ IsList(first \o again \o rest)
       /\ ToSet(first \o again \o rest) = ToSet(first) \cup ToSet(again) \cup ToSet(rest)
  BY <1>7, <1>13, <1>14, JoinedLists
<1>16. Refilled(g, P) = first \o again \o rest
  BY <1>1, <1>2, <1>4, <1>8 DEF Refilled
<1>17. ToSet(a) \subseteq Pages
  BY <1>3 DEF IsList, ToSet
<1>18. ToSet(again) \cup ToSet(rest) = ToSet(a)
  BY <1>6, <1>7, <1>17
<1>19. known \subseteq ToSet(queue) \cup Denied /\ ToSet(queue) \subseteq known
  BY <1>1
<1>20. QED
  BY <1>2, <1>3, <1>11, <1>15, <1>16, <1>18, <1>19

LEMMA FallBackLists ==
    ASSUME IsList(queue), index \in 0 .. Len(queue), NEW g, NEW P \in SUBSET Pages,
           NEW state, FallBack(g, P, state)
    PROVE  /\ AfterRead(queue')
           /\ ToSet(queue') \subseteq ToSet(queue) \cup P
           /\ Planned => P \cup ToSet(queue) \subseteq ToSet(queue') \cup shelved' \cup Denied
           /\ shelved \subseteq shelved' /\ shelved' \subseteq shelved \cup P \cup ToSet(queue)
<1>1. PICK pending : pending = Refilled(g, P)
  OBVIOUS
<1>2. /\ IsList(pending) /\ ToSet(pending) \cap ToSet(Done) = {}
      /\ ToSet(pending) \subseteq P \cup ToSet(queue)
      /\ ToSet(Ahead) \subseteq ToSet(pending)
      /\ (Planned => P \subseteq ToSet(queue) \cup ToSet(pending) \cup Denied)
  BY <1>1, RefilledList
<1>3. PICK sorted : sorted = Ordered(pending)
  OBVIOUS
<1>4. IsList(sorted) /\ ToSet(sorted) = ToSet(pending)
  BY <1>2, <1>3, OrderedList
<1>5. PICK n \in Int : n = QueueMax - index
  BY QueueAssumption
<1>6. /\ IsList(Upto(sorted, n)) /\ ToSet(Upto(sorted, n)) \subseteq ToSet(sorted)
      /\ ToSet(Upto(sorted, n)) \cup Beyond(sorted, n) = ToSet(sorted)
  BY <1>4, CutList
<1>7. PICK early, late : /\ early = Only(pending, {p \in Pages : ~Late(p)})
                         /\ late = Only(pending, {p \in Pages : Late(p)})
  OBVIOUS
<1>8. IsList(early) /\ ToSet(early) = ToSet(pending) \cap {p \in Pages : ~Late(p)}
  BY <1>2, <1>7, OnlyThose
<1>9. IsList(late) /\ ToSet(late) = ToSet(pending) \cap {p \in Pages : Late(p)}
  BY <1>2, <1>7, OnlyThose
<1>10. ToSet(early) \cap ToSet(late) = {}
  BY <1>8, <1>9
<1>11. IsList(early \o late) /\ ToSet(early \o late) = ToSet(early) \cup ToSet(late)
  BY <1>8, <1>9, <1>10, JoinedLists
<1>12. PICK x : x = IF Planned THEN Upto(sorted, n) ELSE early \o late
  OBVIOUS
<1>13. IsList(x) /\ ToSet(x) \subseteq ToSet(pending)
  BY <1>4, <1>6, <1>8, <1>9, <1>11, <1>12
<1>14. queue' = Done \o x
  BY <1>1, <1>3, <1>5, <1>7, <1>12 DEF FallBack
<1>15. AfterRead(queue') /\ ToSet(queue') = ToSet(Done) \cup ToSet(x)
  BY <1>2, <1>13, <1>14, PartsJoined
<1>16. shelved' = IF Planned THEN shelved \cup Beyond(sorted, n) ELSE shelved
  BY <1>1, <1>3, <1>5 DEF FallBack
<1>17. ToSet(Done) \cup ToSet(Ahead) = ToSet(queue)
  BY QueueParts
<1>18. shelved \subseteq shelved' /\ shelved' \subseteq shelved \cup ToSet(pending)
  BY <1>4, <1>6, <1>16
<1>19. Planned => P \cup ToSet(queue) \subseteq ToSet(queue') \cup shelved' \cup Denied
  <2> SUFFICES ASSUME Planned
               PROVE  P \cup ToSet(queue) \subseteq ToSet(queue') \cup shelved' \cup Denied
    OBVIOUS
  <2>1. ToSet(pending) \subseteq ToSet(x) \cup shelved'
    BY <1>4, <1>6, <1>12, <1>16
  <2>2. P \subseteq ToSet(queue) \cup ToSet(pending) \cup Denied
    BY <1>2
  <2>3. ToSet(queue) \subseteq ToSet(Done) \cup ToSet(pending)
    BY <1>2, <1>17
  <2>5. QED
    BY <2>1, <2>2, <2>3, <1>15
<1>20. QED
  BY <1>2, <1>13, <1>15, <1>17, <1>18, <1>19

LEMMA LeastOfNaturals ==
    ASSUME NEW S \in SUBSET Nat, S # {}
    PROVE  \E x \in S : \A y \in S : x <= y
<1>1. PICK x \in S : \A y \in S : ~(<<y, x>> \in OpToRel(<, Nat))
  BY NatLessThanWellFounded, WFMin
<1>2. \A y \in S : ~(y < x)
  BY <1>1 DEF OpToRel
<1>3. QED
  BY <1>2

(* The answers of a search are put in the queue before anything is read.      *)
LEMMA MergedLists ==
    ASSUME IsList(queue), index = 0, NEW g, NEW P \in SUBSET Pages, Merge(g, P)
    PROVE  /\ AfterRead(queue') /\ index' = index /\ slotted' = slotted
           /\ ToSet(queue') \subseteq ToSet(queue) \cup P
           /\ Planned => P \cup ToSet(queue) \subseteq ToSet(queue') \cup shelved'
           /\ shelved \subseteq shelved' /\ shelved' \subseteq shelved \cup P \cup ToSet(queue)
<1>1. PICK all : all = ByScore(ToSet(queue) \cup P)
  OBVIOUS
<1>2. ToSet(queue) \cup P \in SUBSET Pages
  BY DEF IsList, ToSet
<1>3. IsList(all) /\ ToSet(all) = ToSet(queue) \cup P
  BY <1>1, <1>2, ScoredList
<1>4. PICK sorted : sorted = Ordered(all)
  OBVIOUS
<1>5. IsList(sorted) /\ ToSet(sorted) = ToSet(all)
  BY <1>3, <1>4, OrderedList
<1>6. PICK chosen : chosen = Only(sorted, Pages \ Waits(all))
  OBVIOUS
<1>7. IsList(chosen) /\ ToSet(chosen) = ToSet(sorted) \cap (Pages \ Waits(all))
  BY <1>5, <1>6, OnlyThose
<1>8. PICK kept : kept = IF Planned THEN chosen ELSE all
  OBVIOUS
<1>9. IsList(kept) /\ ToSet(kept) \subseteq ToSet(all) /\ QueueMax \in Int
  BY <1>3, <1>5, <1>7, <1>8, QueueAssumption
<1>10. /\ IsList(Upto(kept, QueueMax)) /\ ToSet(Upto(kept, QueueMax)) \subseteq ToSet(kept)
       /\ ToSet(Upto(kept, QueueMax)) \cup Beyond(kept, QueueMax) = ToSet(kept)
  BY <1>9, CutList
<1>11. /\ queue' = Upto(kept, QueueMax) /\ index' = index /\ slotted' = slotted
       /\ shelved' = IF Planned THEN shelved \cup Waits(all) \cup Beyond(kept, QueueMax)
                     ELSE shelved
  BY <1>1, <1>4, <1>6, <1>8 DEF Merge
<1>12. Waits(all) \subseteq ToSet(all)
  BY DEF Waits, ToSet
<1>13. AfterRead(queue')
  <2>1. Len(queue') \in Nat
    BY <1>10, <1>11 DEF IsList
  <2>2. index \in 0 .. Len(queue') /\ 1 .. index = {}
    BY <2>1
  <2>3. QED
    BY <1>10, <1>11, <2>2 DEF AfterRead
<1>14. Planned => P \cup ToSet(queue) \subseteq ToSet(queue') \cup shelved'
  <2> SUFFICES ASSUME Planned, NEW p \in P \cup ToSet(queue)
               PROVE  p \in ToSet(queue') \cup shelved'
    OBVIOUS
  <2>1. p \in ToSet(all) /\ p \in Pages
    BY <1>2, <1>3
  <2>2. CASE p \in Waits(all)
    BY <1>11, <2>2
  <2>3. CASE p \notin Waits(all)
    BY <1>5, <1>7, <1>8, <1>10, <1>11, <2>1, <2>3
  <2>4. QED
    BY <2>2, <2>3
<1>15. shelved \subseteq shelved' /\ shelved' \subseteq shelved \cup P \cup ToSet(queue)
  BY <1>3, <1>9, <1>10, <1>11, <1>12
<1>16. QED
  BY <1>3, <1>9, <1>10, <1>11, <1>13, <1>14, <1>15

(* One page more, and what is left of those ahead.                            *)
LEMMA OneMore ==
    ASSUME IsList(queue), index \in 0 .. Len(queue), NEW one, NEW rest,
           IsList(one), ToSet(one) \cap ToSet(Done) = {},
           IsList(rest), ToSet(rest) \subseteq ToSet(Ahead) \ ToSet(one),
           queue' = Done \o one \o rest
    PROVE  /\ AfterRead(queue') /\ ToSet(queue') \subseteq ToSet(queue) \cup ToSet(one)
<1>1. IsList(Done) /\ ToSet(Done) \cap ToSet(Ahead) = {}
      /\ ToSet(Done) \cup ToSet(Ahead) = ToSet(queue)
  BY QueueParts
<1>2. (Done \o one) \o rest = Done \o (one \o rest)
  <2>1. ASSUME NEW a \in Seq(Pages), NEW b \in Seq(Pages), NEW c \in Seq(Pages)
        PROVE  (a \o b) \o c = a \o (b \o c)
    BY ConcatAssociative, SMTT(30)
  <2>2. Done \in Seq(Pages) /\ one \in Seq(Pages) /\ rest \in Seq(Pages)
    BY <1>1 DEF IsList
  <2>3. QED
    BY <2>1, <2>2
<1>3. PICK x : x = one \o rest
  OBVIOUS
<1>4. ToSet(one) \cap ToSet(rest) = {}
  OBVIOUS
<1>5. IsList(x) /\ ToSet(x) = ToSet(one) \cup ToSet(rest)
  BY <1>3, <1>4, JoinedLists
<1>6. ToSet(x) \cap ToSet(Done) = {}
  BY <1>1, <1>5
<1>7. queue' = Done \o x
  BY <1>2, <1>3
<1>8. AfterRead(queue') /\ ToSet(queue') = ToSet(Done) \cup ToSet(x)
  BY <1>5, <1>6, <1>7, PartsJoined
<1>9. QED
  BY <1>1, <1>5, <1>8

LEMMA RecoveredLists ==
    ASSUME IsList(queue), index \in 0 .. Len(queue), NEW P \in SUBSET Pages,
           NEW one, one = Upto(OtherSource(P), 1),
           queue' = Done \o one \o Upto(Only(Ahead, Pages \ ToSet(one)), QueueMax - index)
    PROVE  AfterRead(queue') /\ ToSet(queue') \subseteq ToSet(queue) \cup P
<1>1. PICK scored : scored = ByScore(P \ {recovery.page})
  OBVIOUS
<1>2. IsList(scored) /\ ToSet(scored) = P \ {recovery.page}
  BY <1>1, ScoredList
<1>3. PICK other : other = OtherSource(P)
  OBVIOUS
<1>4. IsList(other) /\ ToSet(other) = ToSet(scored) \cap (Pages \ ToSet(Done))
  BY <1>1, <1>2, <1>3, OnlyThose DEF OtherSource
<1>5. IsList(one) /\ ToSet(one) \subseteq ToSet(other)
  BY <1>3, <1>4, CutList
<1>6. IsList(Ahead)
  BY QueueParts
<1>7. PICK left : left = Only(Ahead, Pages \ ToSet(one))
  OBVIOUS
<1>8. IsList(left) /\ ToSet(left) = ToSet(Ahead) \cap (Pages \ ToSet(one))
  BY <1>6, <1>7, OnlyThose
<1>9. PICK n \in Int : n = QueueMax - index
  BY QueueAssumption
<1>10. PICK rest : rest = Upto(left, n)
  OBVIOUS
<1>11. IsList(rest) /\ ToSet(rest) \subseteq ToSet(left)
  BY <1>8, <1>10, CutList
<1>12. queue' = Done \o one \o rest
  BY <1>7, <1>9, <1>10
<1>13. AfterRead(queue') /\ ToSet(queue') \subseteq ToSet(queue) \cup ToSet(one)
  <2>1. ToSet(one) \cap ToSet(Done) = {} /\ ToSet(rest) \subseteq ToSet(Ahead) \ ToSet(one)
    BY <1>4, <1>5, <1>8, <1>11
  <2>2. QED
    BY <1>5, <1>11, <1>12, <2>1, OneMore
<1>14. QED
  BY <1>2, <1>4, <1>5, <1>13

LEMMA FollowedLists ==
    ASSUME IsList(queue), index \in 0 .. Len(queue), NEW fit \in SUBSET Pages,
           fit \cap ToSet(queue) = {},
           NEW one, one = Upto(ByScore(fit), 1), queue' = Done \o one \o Ahead
    PROVE  AfterRead(queue') /\ ToSet(queue') \subseteq ToSet(queue) \cup fit
<1>1. PICK scored : scored = ByScore(fit)
  OBVIOUS
<1>2. IsList(scored) /\ ToSet(scored) = fit
  BY <1>1, ScoredList
<1>3. IsList(one) /\ ToSet(one) \subseteq fit
  BY <1>1, <1>2, CutList
<1>4. IsList(Ahead) /\ ToSet(Done) \cup ToSet(Ahead) = ToSet(queue)
  BY QueueParts
<1>5. ToSet(one) \cap ToSet(Done) = {} /\ ToSet(Ahead) \subseteq ToSet(Ahead) \ ToSet(one)
  BY <1>3, <1>4
<1>6. AfterRead(queue') /\ ToSet(queue') \subseteq ToSet(queue) \cup ToSet(one)
  BY <1>3, <1>4, <1>5, OneMore
<1>7. QED
  BY <1>3, <1>6

LEMMA NextGroup ==
    ASSUME NEW g PROVE NextSearch(g).at = "search" => NextSearch(g).of \in Groups
<1>1. PICK left : left = {h \in Groups \ {g} : group[h].status = "pending"}
  OBVIOUS
<1>2. left \in SUBSET Nat /\ left \subseteq Groups
  BY <1>1 DEF Groups
<1>3. CASE left = {}
  <2>1. NextSearch(g) = At("fetch")
    BY <1>1, <1>3 DEF NextSearch
  <2>2. QED
    BY <2>1 DEF At
<1>4. CASE left # {}
  <2>1. PICK first \in left : first = CHOOSE h \in left : \A i \in left : h <= i
    BY <1>2, <1>4, LeastOfNaturals
  <2>2. NextSearch(g) = [at |-> "search", of |-> first]
    BY <1>1, <1>4, <2>1 DEF NextSearch
  <2>3. QED
    BY <1>2, <2>2
<1>5. QED
  BY <1>3, <1>4

Fates == {"none", "failed", "eligible", "checked", "internal"}
GroupRows ==
    [status : {"pending", "completed", "failed", "budget_deferred"},
     primary : {"none", "completed", "failed"},
     fallback : {"none", "completed", "failed", "budget_deferred", "not_called", "cache_fused",
                 "failed_late"},
     found : BOOLEAN]
Hearings == [known : BOOLEAN, ok : BOOLEAN, pages : SUBSET Pages]

(* Each page is in the queue once, and those that were read are in front.     *)
QueueLists ==
    /\ IsList(queue) /\ index \in 0 .. Len(queue) /\ body \in [Pages -> Fates]
    /\ \A p \in Pages : body[p] # "none" => \E i \in 1 .. index : queue[i] = p
(* Nothing is read before all groups were searched; the extra searches are of *)
(* legacy jobs, which asked for them while a search was left.                  *)
QueueStages ==
    /\ stage.at = "search" => index = 0 /\ stage.of \in Groups
    /\ stage.at \in {"recovery", "followUp"} => strategy = "legacy"
    /\ stage.at = "recovery" /\ recovery.status = "pending" => searches < SearchCallMax
    /\ stage.at = "followUp" /\ followUp.status = "pending" => searches < SearchCallMax
    /\ searches \in 0 .. SearchCallMax /\ fetches \in 0 .. FetchCallMax
    /\ recovery \in Extra /\ followUp \in Extra
QueueTopics == group \in [Groups -> GroupRows] /\ heard \in [Groups -> Hearings]
(* What a search returned to a planned job waits, is shelved or is forbidden.  *)
QueueFound ==
    /\ found \subseteq Pages /\ shelved \subseteq found /\ slotted \subseteq found
    /\ ToSet(queue) \subseteq found
    /\ Planned => found \subseteq ToSet(queue) \cup shelved \cup Denied
QueueInv == QueueLists /\ QueueStages /\ QueueTopics /\ QueueFound

-----------------------------------------------------------------------------
(* ResearchQueue: the invariant is kept, step by step.                         *)

LEMMA QueueStarts == QueueInit => QueueInv
<1> SUFFICES ASSUME QueueInit PROVE QueueInv
  OBVIOUS
<1>1. queue = <<>> /\ index = 0 /\ IsList(queue) /\ ToSet(queue) = {} /\ Len(queue) = 0
  BY DEF QueueInit, IsList, Once, ToSet
<1>2. QueueLists
  BY <1>1 DEF QueueInit, QueueLists, Fates
<1>3. QueueStages
  <2>1. NotAsked \in Extra
    BY QueueAssumption DEF NotAsked, Extra
  <2>2. SearchCallMax \in Nat /\ FetchCallMax \in Nat /\ 1 \in Groups
    BY QueueAssumption DEF Groups
  <2>3. QED
    BY <1>1, <2>1, <2>2 DEF QueueInit, QueueStages, NotAsked
<1>4. QueueTopics
  BY DEF QueueInit, QueueTopics, GroupRows, Hearings, Unheard
<1>5. QueueFound
  BY <1>1 DEF QueueInit, QueueFound
<1>6. QED
  BY <1>2, <1>3, <1>4, <1>5 DEF QueueInv

LEMMA ListsKept ==
    ASSUME QueueLists, AfterRead(queue'), index' = index, body' = body
    PROVE  QueueLists'
<1>1. IsList(queue') /\ index' \in 0 .. Len(queue') /\ body' \in [Pages -> Fates]
  BY DEF QueueLists, AfterRead
<1>2. ASSUME NEW p \in Pages, body'[p] # "none" PROVE \E i \in 1 .. index' : queue'[i] = p
  BY <1>2 DEF QueueLists, AfterRead
<1>3. QED
  BY <1>1, <1>2 DEF QueueLists, IsList, Once

LEMMA SameAfterRead ==
    ASSUME QueueLists, queue' = queue
    PROVE  AfterRead(queue')
  BY DEF QueueLists, AfterRead

LEMMA SearchedKeeps ==
    ASSUME QueueInv, stage.at = "search", NEW primary \in {"completed", "failed"},
           NEW fallback \in {"completed", "failed", "budget_deferred", "not_called", "cache_fused"},
           NEW P \in SUBSET Pages, Searched(stage.of, primary, fallback, P),
           searches' \in 0 .. SearchCallMax
    PROVE  QueueInv'
<1>1. IsList(queue) /\ index = 0 /\ stage.of \in Groups
  BY DEF QueueInv, QueueLists, QueueStages
<1>2. /\ AfterRead(queue') /\ index' = index /\ slotted' = slotted
      /\ ToSet(queue') \subseteq ToSet(queue) \cup P
      /\ (Planned => P \cup ToSet(queue) \subseteq ToSet(queue') \cup shelved')
      /\ shelved \subseteq shelved' /\ shelved' \subseteq shelved \cup P \cup ToSet(queue)
  BY <1>1, MergedLists DEF Searched
<1>3. QueueLists'
  BY <1>2, ListsKept DEF QueueInv, Searched
<1>4. QueueStages'
  <2>1. stage'.at = "search" => stage'.of \in Groups
    BY NextGroup DEF Searched
  <2>2. stage'.at \in {"search", "fetch"}
    BY DEF Searched, NextSearch, At
  <2>3. QED
    BY <1>1, <1>2, <2>1, <2>2 DEF QueueInv, QueueStages, Searched
<1>5. QueueTopics'
  <2>1. group' \in [Groups -> GroupRows]
    <3>1. PICK row : row = [status |-> IF {primary, fallback} \cap {"completed", "cache_fused"} # {}
                                       THEN "completed" ELSE "failed",
                            primary |-> primary, fallback |-> fallback, found |-> P # {}]
      OBVIOUS
    <3>2. row \in GroupRows
      BY <3>1 DEF GroupRows
    <3>3. group' = [group EXCEPT ![stage.of] = row]
      BY <3>1 DEF Searched
    <3>4. QED
      BY <3>2, <3>3 DEF QueueInv, QueueTopics
  <2>2. heard' \in [Groups -> Hearings]
    <3>1. Unheard \in Hearings
      BY DEF Unheard, Hearings
    <3>2. QED
      BY <3>1 DEF QueueInv, QueueTopics, Searched
  <2>3. QED
    BY <2>1, <2>2 DEF QueueTopics
<1>6. QueueFound'
  <2>1. found' = found \cup P /\ strategy' = strategy
    BY DEF Searched
  <2>2. found \subseteq Pages /\ shelved \subseteq found /\ slotted \subseteq found
        /\ ToSet(queue) \subseteq found
    BY DEF QueueInv, QueueFound
  <2>3. found' \subseteq Pages /\ shelved' \subseteq found' /\ slotted' \subseteq found'
        /\ ToSet(queue') \subseteq found'
    BY <1>2, <2>1, <2>2
  <2>4. Planned' => found' \subseteq ToSet(queue') \cup shelved' \cup Denied
    <3> SUFFICES ASSUME Planned, NEW p \in found \cup P
                 PROVE  p \in ToSet(queue') \cup shelved' \cup Denied
      BY <2>1 DEF Planned
    <3>1. p \in P \cup ToSet(queue) \cup shelved \cup Denied
      BY DEF QueueInv, QueueFound
    <3>2. QED
      BY <1>2, <3>1
  <2>5. QED
    BY <2>3, <2>4 DEF QueueFound, ToSet
<1>7. QED
  BY <1>3, <1>4, <1>5, <1>6 DEF QueueInv

LEMMA SaidPages ==
    ASSUME QueueTopics, NEW g \in Groups, NEW answer \in Said(g)
    PROVE  answer \in Hearings
<1>1. CASE heard[g].known
  BY <1>1 DEF Said, QueueTopics
<1>2. CASE ~heard[g].known
  <2>1. \A P \in Answers : P \in SUBSET Pages
    BY DEF Answers
  <2>2. answer \in [known : {TRUE}, ok : {TRUE}, pages : Answers]
                   \cup [known : {TRUE}, ok : {FALSE}, pages : {{}}]
    BY <1>2 DEF Said
  <2>3. QED
    BY <2>1, <2>2 DEF Hearings
<1>3. QED
  BY <1>1, <1>2

LEMMA SearchGroupKeeps == ASSUME QueueInv, SearchGroup PROVE QueueInv'
<1>1. PICK g : g = stage.of
  OBVIOUS
<1>2. /\ g \in Groups /\ stage.at = "search"
      /\ searches \in 0 .. SearchCallMax /\ SearchCallMax \in Nat
  BY <1>1, QueueAssumption DEF QueueInv, QueueStages, SearchGroup
<1>3. PICK answer \in Said(g), calls \in CallsFor(g), more \in 0 .. 1, P \in Answers :
          \/ /\ TooFew(answer) /\ searches + calls < SearchCallMax
             /\ searches' = searches + calls + more
             /\ \/ Searched(g, Outcome(answer), "completed", answer.pages \cup P)
                \/ P = {} /\ Searched(g, Outcome(answer), "failed", answer.pages)
          \/ /\ TooFew(answer) /\ searches + calls >= SearchCallMax /\ P = {}
             /\ searches' = searches + calls
             /\ Searched(g, Outcome(answer), "budget_deferred", answer.pages)
          \/ /\ ~TooFew(answer) /\ searches' = searches + calls
             /\ \/ P = {} /\ Searched(g, "completed", "not_called", answer.pages)
                \/ Searched(g, "completed", "cache_fused", answer.pages \cup P)
  BY <1>1 DEF SearchGroup
<1>4. answer.pages \in SUBSET Pages /\ P \in SUBSET Pages
  <2>1. answer \in Hearings
    BY <1>2, SaidPages DEF QueueInv
  <2>2. QED
    BY <2>1 DEF Hearings, Answers
<1>5. calls \in 0 .. 1 /\ searches + calls <= SearchCallMax
  BY DEF CallsFor
<1>6. searches' \in 0 .. SearchCallMax
  BY <1>2, <1>3, <1>5
<1>7. Outcome(answer) \in {"completed", "failed"}
  BY DEF Outcome
<1>8. PICK fallback \in {"completed", "failed", "budget_deferred", "not_called", "cache_fused"},
           primary \in {"completed", "failed"}, Q \in SUBSET Pages :
          Searched(g, primary, fallback, Q)
  BY <1>3, <1>4, <1>7
<1>9. QED
  BY <1>1, <1>2, <1>6, <1>8, SearchedKeeps

(* The queue changes beyond what was read; nothing is read.                   *)
LEMMA QueueFollows ==
    ASSUME QueueInv, AfterRead(queue'), index' = index, body' = body,
           QueueStages', QueueTopics', strategy' = strategy,
           found \subseteq found', found' \subseteq Pages, ToSet(queue') \subseteq found',
           shelved' \subseteq found', slotted' \subseteq found',
           Planned => found' \subseteq ToSet(queue') \cup shelved' \cup Denied
    PROVE  QueueInv'
<1>1. QueueLists'
  BY ListsKept DEF QueueInv
<1>2. QueueFound'
  BY DEF QueueFound, Planned, ToSet
<1>3. QED
  BY <1>1, <1>2 DEF QueueInv

(* The queue, what was read and what was found stay.                          *)
LEMMA QueueRests ==
    ASSUME QueueInv, QueueStages', QueueTopics', strategy' = strategy,
           UNCHANGED list, body' = body, found' = found
    PROVE  QueueInv'
<1>1. queue' = queue /\ index' = index /\ shelved' = shelved /\ slotted' = slotted
  BY DEF list
<1>2. AfterRead(queue')
  BY <1>1, SameAfterRead DEF QueueInv
<1>3. QED
  BY <1>1, <1>2, QueueFollows DEF QueueInv, QueueFound

LEMMA TopicsRest ==
    ASSUME QueueTopics, UNCHANGED <<group, heard>> PROVE QueueTopics'
  BY DEF QueueTopics

LEMMA DeferredRows ==
    ASSUME QueueTopics PROVE DeferredGroups \in [Groups -> GroupRows]
<1>1. ASSUME NEW g \in Groups
      PROVE  [group[g] EXCEPT !.status = "budget_deferred"] \in GroupRows
  <2>1. PICK row : row = group[g]
    OBVIOUS
  <2>2. row \in GroupRows
    BY <2>1 DEF QueueTopics
  <2>3. [row EXCEPT !.status = "budget_deferred"] \in GroupRows
    BY <2>2 DEF GroupRows
  <2>4. QED
    BY <2>1, <2>3
<1>2. QED
  BY <1>1 DEF DeferredGroups, QueueTopics

LEMMA SkippedExtra ==
    ASSUME NEW extra \in Extra
    PROVE  SkipIfOpen(extra) \in Extra /\ SkipIfOpen(extra).status # "pending"
  BY DEF SkipIfOpen, Extra

LEMMA SearchesUsedUpKeeps == ASSUME QueueInv, SearchesUsedUp PROVE QueueInv'
<1>1. QueueStages'
  BY DEF QueueInv, QueueStages, SearchesUsedUp, At
<1>2. QueueTopics'
  BY DeferredRows DEF QueueInv, QueueTopics, SearchesUsedUp
<1>3. QED
  BY <1>1, <1>2, QueueRests DEF SearchesUsedUp

LEMMA ReorderKeeps ==
    ASSUME QueueInv, Reorder, index' = index, body' = body, shelved' = shelved,
           found' = found, QueueStages', QueueTopics', strategy' = strategy
    PROVE  QueueInv'
<1>1. AfterRead(queue') /\ ToSet(queue') = ToSet(queue)
  BY Reordered DEF QueueInv, QueueLists
<1>2. ToSet(Ahead) \subseteq ToSet(queue)
  BY QueueParts DEF QueueInv, QueueLists
<1>3. Waits(Ahead) \subseteq ToSet(Ahead)
  BY DEF Waits, ToSet
<1>4. slotted' \subseteq found
  BY <1>2, <1>3 DEF Reorder, QueueInv, QueueFound
<1>5. QED
  BY <1>1, <1>4, QueueFollows DEF QueueInv, QueueFound

LEMMA LeaveFetchKeeps == ASSUME QueueInv, LeaveFetch PROVE QueueInv'
<1>1. QueueStages'
  <2>1. recovery' \in Extra /\ followUp' \in Extra
    BY SkippedExtra DEF LeaveFetch, QueueInv, QueueStages
  <2>2. stage'.at \in {"fallback", "finalize"}
    BY DEF LeaveFetch, At
  <2>3. QED
    BY <2>1, <2>2 DEF LeaveFetch, QueueInv, QueueStages
<1>2. QueueTopics'
  BY TopicsRest DEF QueueInv, LeaveFetch
<1>3. QED
  BY <1>1, <1>2, ReorderKeeps DEF LeaveFetch

LEMMA LeaveFetchLegacyKeeps == ASSUME QueueInv, LeaveFetchLegacy PROVE QueueInv'
<1>1. QueueStages'
  <2>1. strategy = "legacy" /\ strategy' = strategy /\ searches' = searches /\ fetches' = fetches
        /\ recovery \in Extra /\ followUp \in Extra
    BY DEF LeaveFetchLegacy, Incremental, QueueInv, QueueStages
  <2>2. MaySearchMore => searches < SearchCallMax
    BY DEF MaySearchMore
  <2>3. recovery' \in Extra
    BY <2>1, SkippedExtra DEF LeaveFetchLegacy
  <2>4. Targets \subseteq Extra
    <3>1. Gaps \subseteq Pages
      BY DEF Gaps, ToSet, QueueInv, QueueLists, IsList
    <3>2. \A p \in Gaps : p \in 0 .. CandidateMax
      BY <3>1, QueueAssumption DEF Pages
    <3>3. /\ [status |-> "skipped", page |-> 0] \in Extra
          /\ [status : {"pending"}, page : Gaps] \subseteq Extra
      BY <3>2, QueueAssumption DEF Extra
    <3>4. QED
      BY <2>1, <3>3 DEF Targets
  <2>5. CASE /\ recovery.status = "pending" /\ MaySearchMore
             /\ stage' = At("recovery") /\ UNCHANGED <<recovery, followUp>>
    BY <2>1, <2>2, <2>3, <2>5 DEF QueueStages, At, QueueInv
  <2>6. CASE \E f \in Targets :
                IF f.status = "pending" /\ MaySearchMore
                THEN followUp' = f /\ stage' = At("followUp")
                ELSE /\ followUp' = IF f.status = "pending" THEN SkipIfOpen(f) ELSE f
                     /\ stage' = At("finalize")
    <3>1. followUp' \in Extra /\ stage'.at \in {"followUp", "finalize"}
          /\ (stage'.at = "followUp" => MaySearchMore)
      BY <2>4, <2>6, SkippedExtra DEF At
    <3>2. QED
      BY <2>1, <2>2, <2>3, <3>1 DEF QueueStages, QueueInv
  <2>7. QED
    BY <2>5, <2>6 DEF LeaveFetchLegacy
<1>2. QueueTopics'
  BY TopicsRest DEF QueueInv, LeaveFetchLegacy
<1>3. QED
  BY <1>1, <1>2, QueueRests DEF LeaveFetchLegacy

(* The page that is read next was not read before.                            *)
LEMMA ReadsNewPage ==
    ASSUME QueueInv, ReadNext
    PROVE  /\ AfterRead(queue') /\ ToSet(queue') = ToSet(queue) /\ index + 1 \in 1 .. Len(queue')
           /\ queue'[index + 1] \in Pages /\ body[queue'[index + 1]] = "none"
<1>1. index \in Nat /\ Len(queue) \in Nat /\ index + 1 \in 1 .. Len(queue)
  BY DEF QueueInv, QueueLists, IsList, ReadNext, NothingToRead
<1>2. AfterRead(queue') /\ ToSet(queue') = ToSet(queue) /\ Len(queue') = Len(queue)
  BY Reordered DEF QueueInv, QueueLists, ReadNext
<1>3. PICK q : q = queue'
  OBVIOUS
<1>4. /\ q \in Seq(Pages) /\ Once(q) /\ DOMAIN q = 1 .. Len(q)
      /\ \A i \in 1 .. index : q[i] = queue[i]
  BY <1>2, <1>3 DEF AfterRead, IsList
<1>5. index + 1 \in DOMAIN q /\ q[index + 1] \in Pages
  BY <1>1, <1>2, <1>3, <1>4
<1>6. ASSUME body[q[index + 1]] # "none" PROVE FALSE
  <2>1. PICK i \in 1 .. index : queue[i] = q[index + 1]
    BY <1>5, <1>6 DEF QueueInv, QueueLists
  <2>2. i \in DOMAIN q /\ q[i] = q[index + 1] /\ i # index + 1
    BY <1>1, <1>2, <1>3, <1>4, <2>1
  <2>3. QED
    BY <1>4, <1>5, <2>2 DEF Once
<1>7. QED
  BY <1>1, <1>2, <1>3, <1>5, <1>6

LEMMA ReadNextKeeps == ASSUME QueueInv, ReadNext PROVE QueueInv'
<1>1. PICK p : p = queue'[index + 1]
  OBVIOUS
<1>2. /\ AfterRead(queue') /\ ToSet(queue') = ToSet(queue) /\ index + 1 \in 1 .. Len(queue')
      /\ p \in Pages /\ body[p] = "none"
  BY <1>1, ReadsNewPage
<1>3. PICK result \in ReadResults(p) : body' = [body EXCEPT ![p] = result]
  BY <1>1 DEF ReadNext
<1>4. result \in Fates
  BY DEF ReadResults, Judged, Fates
<1>5. index' = index + 1 /\ index \in Nat
  BY DEF ReadNext, QueueInv, QueueLists, IsList
<1>6. QueueLists'
  <2>1. IsList(queue') /\ index' \in 0 .. Len(queue') /\ body' \in [Pages -> Fates]
    BY <1>2, <1>3, <1>4, <1>5 DEF AfterRead, QueueInv, QueueLists
  <2>2. ASSUME NEW q \in Pages, body'[q] # "none"
        PROVE  \E i \in 1 .. index' : queue'[i] = q
    <3>1. CASE q = p
      BY <1>1, <1>2, <1>5, <3>1
    <3>2. CASE q # p
      <4>1. body[q] # "none"
        BY <1>3, <2>2, <3>2 DEF QueueInv, QueueLists
      <4>2. PICK i \in 1 .. index : queue[i] = q
        BY <4>1 DEF QueueInv, QueueLists
      <4>3. queue'[i] = q /\ i \in 1 .. index'
        BY <1>2, <1>5, <4>2 DEF AfterRead
      <4>4. QED
        BY <4>3
    <3>3. QED
      BY <3>1, <3>2
  <2>3. QED
    BY <2>1, <2>2 DEF QueueLists, IsList, Once
<1>7. QueueStages'
  <2>1. recovery' \in Extra
    <3>1. [status |-> "pending", page |-> p] \in Extra
      BY <1>2, QueueAssumption DEF Extra, Pages
    <3>2. QED
      BY <1>1, <3>1 DEF ReadNext, QueueInv, QueueStages
  <2>2. fetches' \in 0 .. FetchCallMax
    BY QueueAssumption DEF ReadNext, QueueInv, QueueStages
  <2>3. QED
    BY <2>1, <2>2 DEF ReadNext, QueueInv, QueueStages
<1>8. QueueTopics'
  BY TopicsRest DEF QueueInv, ReadNext
<1>9. QueueFound'
  <2>1. ToSet(Ahead) \subseteq ToSet(queue)
    BY QueueParts DEF QueueInv, QueueLists
  <2>2. Waits(Ahead) \subseteq ToSet(Ahead)
    BY DEF Waits, ToSet
  <2>3. slotted' \subseteq found
    BY <2>1, <2>2 DEF Reorder, QueueInv, QueueFound, ReadNext
  <2>4. QED
    BY <1>2, <2>3 DEF QueueInv, QueueFound, ReadNext, Planned, ToSet
<1>10. QED
  BY <1>6, <1>7, <1>8, <1>9 DEF QueueInv

LEMMA ReadFallbackKeeps == ASSUME QueueInv, ReadFallback PROVE QueueInv'
<1>1. PICK calls \in 0 .. 1, P \in Answers, state \in {"completed", "failed_late"} :
          /\ FallBack(stage.of, P, state) /\ found' = found \cup P
          /\ searches + calls <= SearchCallMax /\ searches' = searches + calls
  <2>1. PICK calls \in 0 .. 1, P \in Answers :
            /\ searches + calls <= SearchCallMax /\ searches' = searches + calls
            /\ found' = found \cup P
            /\ \/ FallBack(stage.of, P, "completed")
               \/ P = {} /\ FallBack(stage.of, P, "failed_late")
    BY DEF ReadFallback
  <2>2. QED
    BY <2>1
<1>2. P \in SUBSET Pages
  BY DEF Answers
<1>3. /\ AfterRead(queue')
      /\ ToSet(queue') \subseteq ToSet(queue) \cup P
      /\ (Planned => P \cup ToSet(queue) \subseteq ToSet(queue') \cup shelved' \cup Denied)
      /\ shelved \subseteq shelved' /\ shelved' \subseteq shelved \cup P \cup ToSet(queue)
  BY <1>1, <1>2, FallBackLists DEF QueueInv, QueueLists
<1>4. QueueStages'
  BY <1>1, QueueAssumption DEF ReadFallback, QueueInv, QueueStages, At
<1>5. QueueTopics'
  <2>1. PICK g, added : group' = [group EXCEPT ![g].fallback = state,
                                               ![g].found = @ \/ added # {}]
    BY <1>1 DEF FallBack
  <2>2. ASSUME NEW h \in Groups PROVE group'[h] \in GroupRows
    <3>1. CASE h # g
      BY <2>1, <3>1 DEF QueueInv, QueueTopics
    <3>2. CASE h = g
      <4>1. PICK row : row = group[g]
        OBVIOUS
      <4>2. row \in GroupRows
        BY <3>2, <4>1 DEF QueueInv, QueueTopics
      <4>3. group'[g] = [row EXCEPT !.fallback = state, !.found = @ \/ added # {}]
        BY <2>1, <3>2, <4>1 DEF QueueInv, QueueTopics
      <4>4. QED
        BY <3>2, <4>2, <4>3 DEF GroupRows
    <3>3. QED
      BY <3>1, <3>2
  <2>3. group' \in [Groups -> GroupRows]
    BY <2>1, <2>2 DEF QueueInv, QueueTopics
  <2>7. QED
    BY <2>3 DEF QueueInv, QueueTopics, ReadFallback
<1>6. slotted' \subseteq found'
  <2>1. PICK pending : pending = Refilled(stage.of, P)
    OBVIOUS
  <2>2. ToSet(pending) \subseteq P \cup ToSet(queue)
    BY <1>2, <2>1, RefilledList DEF QueueInv, QueueLists
  <2>3. Waits(pending) \subseteq ToSet(pending)
    BY DEF Waits, ToSet
  <2>4. slotted' \subseteq slotted \cup Waits(pending)
    BY <1>1, <1>2, <2>1 DEF FallBack
  <2>5. QED
    BY <1>1, <2>2, <2>3, <2>4 DEF QueueInv, QueueFound
<1>7. /\ found \subseteq Pages /\ shelved \subseteq found /\ ToSet(queue) \subseteq found
      /\ (Planned => found \subseteq ToSet(queue) \cup shelved \cup Denied)
  BY DEF QueueInv, QueueFound
<1>8. /\ found \subseteq found' /\ found' \subseteq Pages /\ ToSet(queue') \subseteq found'
      /\ shelved' \subseteq found'
  BY <1>1, <1>2, <1>3, <1>7
<1>9. Planned => found' \subseteq ToSet(queue') \cup shelved' \cup Denied
  BY <1>1, <1>2, <1>3, <1>7
<1>10. strategy' = strategy /\ index' = index /\ body' = body
  BY DEF ReadFallback
<1>11. QED
  BY <1>3, <1>4, <1>5, <1>6, <1>8, <1>9, <1>10, QueueFollows

LEMMA RecoverKeeps == ASSUME QueueInv, Recover PROVE QueueInv'
<1>a. PICK calls \in 0 .. 1, P \in Answers :
          LET one == Upto(OtherSource(P), 1)
              rest == Only(Ahead, Pages \ ToSet(one))
          IN  /\ searches' = searches + calls /\ found' = found \cup P
              /\ \/ /\ queue' = Done \o one \o Upto(rest, QueueMax - index)
                    /\ kinds' = [p \in Pages |-> IF p \in ToSet(one) THEN {} ELSE kinds[p]]
                    /\ recovery' = [recovery EXCEPT !.status = "completed"]
                 \/ /\ P = {} /\ UNCHANGED <<queue, kinds>>
                    /\ recovery' = [recovery EXCEPT !.status = "failed"]
  BY DEF Recover
<1>1. PICK one :
          /\ one = Upto(OtherSource(P), 1)
          /\ searches' = searches + calls /\ found' = found \cup P
          /\ \/ /\ queue' = Done \o one \o Upto(Only(Ahead, Pages \ ToSet(one)), QueueMax - index)
                /\ recovery' = [recovery EXCEPT !.status = "completed"]
             \/ UNCHANGED queue /\ recovery' = [recovery EXCEPT !.status = "failed"]
  BY <1>a
<1>2. P \in SUBSET Pages
  BY DEF Answers
<1>3. AfterRead(queue') /\ ToSet(queue') \subseteq ToSet(queue) \cup P
  <2>1. CASE UNCHANGED queue
    BY <2>1, SameAfterRead DEF QueueInv
  <2>2. CASE queue' = Done \o one \o Upto(Only(Ahead, Pages \ ToSet(one)), QueueMax - index)
    BY <1>1, <1>2, <2>2, RecoveredLists DEF QueueInv, QueueLists
  <2>3. QED
    BY <1>1, <2>1, <2>2
<1>4. strategy = "legacy" /\ searches < SearchCallMax /\ ~Planned
  BY DEF Recover, QueueInv, QueueStages, Planned
<1>5. QueueStages'
  <2>1. recovery' \in Extra
    BY <1>1 DEF QueueInv, QueueStages, Extra
  <2>2. searches' \in 0 .. SearchCallMax
    BY <1>1, <1>4, QueueAssumption DEF QueueInv, QueueStages
  <2>3. QED
    BY <2>1, <2>2 DEF Recover, QueueInv, QueueStages, At
<1>6. QueueTopics'
  BY TopicsRest DEF QueueInv, Recover
<1>7. /\ found \subseteq Pages /\ shelved \subseteq found /\ slotted \subseteq found
      /\ ToSet(queue) \subseteq found
  BY DEF QueueInv, QueueFound
<1>8. /\ index' = index /\ body' = body /\ strategy' = strategy /\ shelved' = shelved
      /\ slotted' = slotted
  BY DEF Recover
<1>9. /\ found \subseteq found' /\ found' \subseteq Pages /\ ToSet(queue') \subseteq found'
      /\ shelved' \subseteq found' /\ slotted' \subseteq found'
  BY <1>1, <1>2, <1>3, <1>7, <1>8
<1>10. QED
  BY <1>3, <1>4, <1>5, <1>6, <1>8, <1>9, QueueFollows

LEMMA FollowKeeps == ASSUME QueueInv, Follow PROVE QueueInv'
<1>a. PICK calls \in 0 .. 1, ok \in BOOLEAN, P \in Answers :
          LET fit == {p \in P \ ({followUp.page} \cup ToSet(queue)) :
                         TopicOf[p] = TopicOf[followUp.page]}
              one == Upto(ByScore(fit), 1)
          IN  /\ searches' = searches + calls /\ found' = found \cup P
              /\ queue' = Done \o one \o Ahead
              /\ kinds' = [p \in Pages |-> IF p \in ToSet(one) THEN {} ELSE kinds[p]]
              /\ followUp' = [followUp EXCEPT !.status = IF ok \/ one # <<>> THEN "completed"
                                                         ELSE "failed"]
              /\ stage' = IF one # <<>> THEN At("fetch") ELSE At("finalize")
  BY DEF Follow
<1>b. PICK fit \in SUBSET P :
          fit = {p \in P \ ({followUp.page} \cup ToSet(queue)) :
                    TopicOf[p] = TopicOf[followUp.page]}
  OBVIOUS
<1>1. PICK one :
          /\ one = Upto(ByScore(fit), 1)
          /\ searches' = searches + calls /\ found' = found \cup P
          /\ queue' = Done \o one \o Ahead
          /\ \E end \in {"completed", "failed"} : followUp' = [followUp EXCEPT !.status = end]
          /\ stage' = IF one # <<>> THEN At("fetch") ELSE At("finalize")
  BY <1>a, <1>b
<1>2. P \in SUBSET Pages /\ fit \in SUBSET Pages /\ fit \cap ToSet(queue) = {} /\ fit \subseteq P
  BY <1>b DEF Answers
<1>3. AfterRead(queue') /\ ToSet(queue') \subseteq ToSet(queue) \cup P
  BY <1>1, <1>2, FollowedLists DEF QueueInv, QueueLists
<1>4. strategy = "legacy" /\ searches < SearchCallMax /\ ~Planned
  BY DEF Follow, QueueInv, QueueStages, Planned
<1>5. QueueStages'
  <2>1. followUp' \in Extra
    BY <1>1 DEF QueueInv, QueueStages, Extra
  <2>2. searches' \in 0 .. SearchCallMax
    BY <1>1, <1>4, QueueAssumption DEF QueueInv, QueueStages
  <2>3. stage'.at \in {"fetch", "finalize"}
    BY <1>1 DEF At
  <2>4. QED
    BY <2>1, <2>2, <2>3 DEF Follow, QueueInv, QueueStages
<1>6. QueueTopics'
  BY TopicsRest DEF QueueInv, Follow
<1>7. /\ found \subseteq Pages /\ shelved \subseteq found /\ slotted \subseteq found
      /\ ToSet(queue) \subseteq found
  BY DEF QueueInv, QueueFound
<1>8. /\ index' = index /\ body' = body /\ strategy' = strategy /\ shelved' = shelved
      /\ slotted' = slotted
  BY DEF Follow
<1>9. /\ found \subseteq found' /\ found' \subseteq Pages /\ ToSet(queue') \subseteq found'
      /\ shelved' \subseteq found' /\ slotted' \subseteq found'
  BY <1>1, <1>2, <1>3, <1>7, <1>8
<1>10. QED
  BY <1>3, <1>4, <1>5, <1>6, <1>8, <1>9, QueueFollows

LEMMA LoseExtraSearchKeeps == ASSUME QueueInv, LoseExtraSearch PROVE QueueInv'
<1>1. searches < SearchCallMax /\ searches' = searches + 1 /\ UNCHANGED <<strategy, stage, index, fetches>>
  BY DEF LoseExtraSearch, QueueInv, QueueStages, list
<1>2. /\ recovery' \in Extra /\ followUp' \in Extra
      /\ (stage.at = "recovery" => recovery'.status = "running")
      /\ (stage.at = "followUp" => followUp'.status = "running")
  BY DEF LoseExtraSearch, QueueInv, QueueStages, Extra
<1>3. QueueStages'
  BY <1>1, <1>2, QueueAssumption DEF QueueInv, QueueStages
<1>4. QueueTopics'
  BY TopicsRest DEF QueueInv, LoseExtraSearch
<1>5. QED
  BY <1>3, <1>4, QueueRests DEF LoseExtraSearch

LEMMA PassExtraSearchKeeps == ASSUME QueueInv, PassExtraSearch PROVE QueueInv'
<1>1. QueueStages'
  BY DEF PassExtraSearch, QueueInv, QueueStages, At, list
<1>2. QueueTopics'
  BY TopicsRest DEF QueueInv, PassExtraSearch
<1>3. QED
  BY <1>1, <1>2, QueueRests DEF PassExtraSearch

LEMMA CallRefusedKeeps == ASSUME QueueInv, CallRefused PROVE QueueInv'
<1>1. /\ heard' \in [Groups -> Hearings] /\ searches' \in 0 .. SearchCallMax
      /\ (stage.at # "search" => searches' = searches)
  <2>1. CASE UNCHANGED <<heard, searches>>
    BY <2>1 DEF QueueInv, QueueStages, QueueTopics
  <2>2. CASE stage.at = "search" /\ ~UNCHANGED <<heard, searches>>
    <3>1. PICK answer \in Said(stage.of), calls \in CallsFor(stage.of) :
              /\ searches + calls < SearchCallMax
              /\ heard' = [heard EXCEPT ![stage.of] = answer] /\ searches' = searches + calls
      BY <2>2 DEF CallRefused
    <3>2. answer \in Hearings
      BY <2>2, SaidPages DEF QueueInv, QueueStages
    <3>3. calls \in 0 .. 1
      BY DEF CallsFor
    <3>4. searches' \in 0 .. SearchCallMax
      BY <3>1, <3>3, QueueAssumption DEF QueueInv, QueueStages
    <3>5. QED
      BY <2>2, <3>1, <3>2, <3>4 DEF QueueInv, QueueTopics
  <2>3. QED
    BY <2>1, <2>2 DEF CallRefused
<1>2. QueueTopics'
  BY <1>1, DeferredRows DEF CallRefused, QueueTopics, QueueInv
<1>3. QueueStages'
  BY <1>1 DEF CallRefused, QueueInv, QueueStages, list
<1>4. QED
  BY <1>2, <1>3, QueueRests DEF CallRefused

LEMMA FinalizeKeeps == ASSUME QueueInv, Finalize PROVE QueueInv'
<1>1. followUp' \in Extra
  BY SkippedExtra DEF Finalize, QueueInv, QueueStages
<1>2. QueueStages'
  BY <1>1 DEF Finalize, QueueInv, QueueStages, At, list
<1>3. QueueTopics'
  BY TopicsRest DEF QueueInv, Finalize
<1>4. QED
  BY <1>2, <1>3, QueueRests DEF Finalize

LEMMA QueueStill == ASSUME QueueInv, UNCHANGED queueVars PROVE QueueInv'
<1>1. QueueStages' /\ QueueTopics'
  BY DEF queueVars, QueueInv, QueueStages, QueueTopics, list
<1>2. QED
  BY <1>1, QueueRests DEF queueVars

-----------------------------------------------------------------------------
(* ResearchQueue: what follows of every behaviour.                             *)

LEMMA QueueSteps == ASSUME QueueInv, QueueNext PROVE QueueInv'
<1>1. CASE SearchGroup
  BY <1>1, SearchGroupKeeps
<1>2. CASE SearchesUsedUp
  BY <1>2, SearchesUsedUpKeeps
<1>3. CASE LeaveFetch
  BY <1>3, LeaveFetchKeeps
<1>4. CASE LeaveFetchLegacy
  BY <1>4, LeaveFetchLegacyKeeps
<1>5. CASE ReadNext
  BY <1>5, ReadNextKeeps
<1>6. CASE ReadFallback
  BY <1>6, ReadFallbackKeeps
<1>7. CASE Recover
  BY <1>7, RecoverKeeps
<1>8. CASE Follow
  BY <1>8, FollowKeeps
<1>9. CASE LoseExtraSearch
  BY <1>9, LoseExtraSearchKeeps
<1>10. CASE PassExtraSearch
  BY <1>10, PassExtraSearchKeeps
<1>11. CASE CallRefused
  BY <1>11, CallRefusedKeeps
<1>12. CASE Finalize
  BY <1>12, FinalizeKeeps
<1>13. QED
  BY <1>1, <1>2, <1>3, <1>4, <1>5, <1>6, <1>7, <1>8, <1>9, <1>10, <1>11, <1>12 DEF QueueNext

LEMMA QueueInvKept == QueueSpec => []QueueInv
<1>1. QueueInit => QueueInv
  BY QueueStarts
<1>2. QueueInv /\ [QueueNext]_queueVars => QueueInv'
  BY QueueSteps, QueueStill
<1>3. QED
  BY <1>1, <1>2, PTL DEF QueueSpec

(* What the queue, its counters and the two extra searches hold               *)
(* (_initial_coverage and the stages of _process_claimed).                    *)
THEOREM QueueTypes == QueueSpec => []QueueTypeOK
<1>1. QueueInv => QueueTypeOK
  BY DEF QueueInv, QueueLists, QueueStages, QueueFound, QueueTypeOK, IsList, Fates
<1>2. QED
  BY <1>1, QueueInvKept, PTL

(* However often the queue is sorted, cut and refilled, a page that was read   *)
(* is not read again (candidate_index in _fetch_candidate and the prefix that  *)
(* _process_readability_fallback, _process_source_recovery and                 *)
(* _process_gap_follow_up keep).                                               *)
THEOREM NothingReadTwice == QueueSpec => ReadOnce
<1>1. ASSUME QueueInv, QueueNext
      PROVE  \A p \in Pages : body[p] # "none" => body'[p] = body[p]
  <2>1. CASE ReadNext
    <3>1. PICK p : p = queue'[index + 1]
      OBVIOUS
    <3>2. p \in Pages /\ body[p] = "none"
      BY <1>1, <2>1, <3>1, ReadsNewPage
    <3>3. PICK result : body' = [body EXCEPT ![p] = result]
      BY <2>1, <3>1 DEF ReadNext
    <3>4. QED
      BY <1>1, <3>2, <3>3 DEF QueueInv, QueueLists
  <2>2. CASE ~ReadNext
    <3>1. body' = body
      <4>1. CASE SearchGroup
        BY <4>1 DEF SearchGroup, Searched
      <4>2. CASE SearchesUsedUp
        BY <4>2 DEF SearchesUsedUp
      <4>3. CASE LeaveFetch
        BY <4>3 DEF LeaveFetch
      <4>4. CASE LeaveFetchLegacy
        BY <4>4 DEF LeaveFetchLegacy
      <4>5. CASE ReadFallback
        BY <4>5 DEF ReadFallback
      <4>6. CASE Recover
        BY <4>6 DEF Recover
      <4>7. CASE Follow
        BY <4>7 DEF Follow
      <4>8. CASE LoseExtraSearch
        BY <4>8 DEF LoseExtraSearch
      <4>9. CASE PassExtraSearch
        BY <4>9 DEF PassExtraSearch
      <4>10. CASE CallRefused
        BY <4>10 DEF CallRefused
      <4>11. CASE Finalize
        BY <4>11 DEF Finalize
      <4>12. QED
        BY <1>1, <2>2, <4>1, <4>2, <4>3, <4>4, <4>5, <4>6, <4>7, <4>8,
            <4>9, <4>10, <4>11 DEF QueueNext
    <3>2. QED
      BY <3>1
  <2>3. QED
    BY <2>1, <2>2
<1>2. QueueInv /\ [QueueNext]_queueVars
          => [\A p \in Pages : body[p] # "none" => body'[p] = body[p]]_queueVars
  BY <1>1
<1>3. QED
  BY <1>2, QueueInvKept, PTL DEF QueueSpec, ReadOnce

(* A refresh reports a topic as completed only when every page any of its      *)
(* searches returned on the topic was read, and what the same record shows of  *)
(* the topic elsewhere agrees (completion_projection, category_coverage).      *)
THEOREM CompleteWasRead == QueueSpec => []CompleteMeansRead
<1>1. ASSUME QueueInv, NEW g \in Groups, TopicStatus(g) = "completed"
      PROVE  /\ Planned => \A p \in found \ (Directory \cup Denied) :
                   TopicOf[p] = g => body[p] \in {"eligible", "checked"}
             /\ \/ CategoryStatus(g) \in {"evidence_obtained", "candidates_only", "no_records"}
                \/ group[g].primary = "failed" \/ group[g].fallback = "failed_late"
  <2>1. group[g].status = "completed"
    BY <1>1 DEF TopicStatus, QueueInv, QueueTopics, GroupRows
  <2>2. ~\E p \in Documents(g) : body[p] = "failed"
    BY <1>1, <2>1 DEF TopicStatus
  <2>3. /\ ~Unfinished(g) /\ Urls(g) \subseteq Checked(g)
        /\ ~\E p \in shelved : TopicOf[p] = g
    BY <1>1, <2>1, <2>2 DEF TopicStatus
  <2>4. ASSUME Planned, NEW p \in found \ (Directory \cup Denied), TopicOf[p] = g
        PROVE  body[p] \in {"eligible", "checked"}
    <3>1. p \in ToSet(queue)
      BY <1>1, <2>3, <2>4 DEF QueueInv, QueueFound
    <3>2. p \in Urls(g)
      BY <2>4, <3>1 DEF Urls, Relevant
    <3>3. QED
      BY <2>3, <3>2 DEF Checked
  <2>5. ~\E p \in About(g) : body[p] = "failed"
    BY <2>2 DEF About, Documents, Relevant
  <2>6. \/ CategoryStatus(g) \in {"evidence_obtained", "candidates_only", "no_records"}
        \/ group[g].primary = "failed" \/ group[g].fallback = "failed_late"
    BY <2>1, <2>3, <2>5 DEF CategoryStatus, Unfinished
  <2>7. QED
    BY <2>4, <2>6
<1>2. QueueInv => CompleteMeansRead
  BY <1>1 DEF CompleteMeansRead
<1>3. QED
  BY <1>2, QueueInvKept, PTL
=============================================================================
