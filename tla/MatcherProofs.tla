--------------------------- MODULE MatcherProofs ---------------------------
(***************************************************************************)
(* Proofs about Matcher: types, the order cmp defines, the sorted list,    *)
(* and what the filter lets through, for any drivers, any device and any   *)
(* version of Windows.                                                     *)
(***************************************************************************)
EXTENDS Matcher, WellFoundedInduction, TLAPS

----------------------------------------------------------------------------
(* Scores *)

Scores == [hi : Nat, lo : Nat]

LEMMA SignatureType == ASSUME NEW cats, NEW nt PROVE Signature(cats, nt) \in Nat
  BY DEF Signature

LEMMA ScoreType ==
  ASSUME NEW cats, NEW feature \in Nat, NEW rank \in Nat, NEW nt
  PROVE  Score(cats, feature, rank, nt) \in Scores
  BY SignatureType DEF Score, Scores

LEMMA DecorType == ASSUME NEW s \in Section PROVE DecorScore(s) \in Nat
  BY DEF Section, DecorScore

LEMMA OfferType ==
  ASSUME NEW o \in Offers
  PROVE  /\ AltScore(o) \in {0, 1, 2} /\ DecorScore(o.section) \in Nat /\ OfferScore(o) \in Scores
         /\ o.date \in Nat /\ o.marker \in Nat
<1>1. o \in Offer
  BY OfferAssumption
<1>2. AltScore(o) \in {0, 1, 2}
  BY DEF AltScore
<1>3. DecorScore(o.section) \in Nat
  BY <1>1, DecorType DEF Offer
<1>4. IdentifierScore(o.pos, o.hw, o.infpos) \in Nat
  BY <1>1 DEF IdentifierScore, Offer
<1>5. FeatureOf(o) \in Nat
  BY <1>1 DEF FeatureOf, Offer, NoFeature
<1>6. OfferScore(o) \in Scores
  BY <1>4, <1>5, ScoreType DEF OfferScore
<1> QED
  BY <1>1, <1>2, <1>3, <1>6 DEF Offer

LEMMA StatusValueType == ASSUME NEW o PROVE StatusValue(o) \in Nat
  BY DEF StatusValue

----------------------------------------------------------------------------
(* cmp is a total order, up to equals *)

LEMMA CmpInt == ASSUME NEW a \in Offers, NEW b \in Offers PROVE Cmp(a, b) \in Int
  BY OfferType, StatusValueType DEF Cmp, Then, ScoreOrder

LEMMA CmpReflexive == ASSUME NEW a \in Offers PROVE Cmp(a, a) >= 0
  BY OfferType, StatusValueType DEF Cmp, Then, ScoreOrder, Less, Scores

LEMMA CmpTotal ==
  ASSUME NEW a \in Offers, NEW b \in Offers, Cmp(a, b) < 0
  PROVE  Cmp(b, a) >= 0
  BY OfferType, StatusValueType DEF Cmp, Then, ScoreOrder, Less, Scores

\* A key that orders, and where it does not, keys that do
LEMMA ThenTransitive ==
  ASSUME NEW x \in Int, NEW y \in Int, NEW z \in Int, NEW u \in Int, NEW v \in Int, NEW w \in Int,
         x > 0 /\ y >= 0 => z > 0, x >= 0 /\ y > 0 => z > 0, x = 0 /\ y = 0 => z = 0,
         u >= 0 /\ v >= 0 => w >= 0,
         Then(x, u) >= 0, Then(y, v) >= 0
  PROVE  Then(z, w) >= 0
  BY DEF Then

LEMMA ScoreOrderTransitive ==
  ASSUME NEW a \in Offers, NEW b \in Offers, NEW c \in Offers
  PROVE  /\ {ScoreOrder(a, b), ScoreOrder(b, c), ScoreOrder(a, c)} \subseteq Int
         /\ ScoreOrder(a, b) > 0 /\ ScoreOrder(b, c) >= 0 => ScoreOrder(a, c) > 0
         /\ ScoreOrder(a, b) >= 0 /\ ScoreOrder(b, c) > 0 => ScoreOrder(a, c) > 0
         /\ ScoreOrder(a, b) = 0 /\ ScoreOrder(b, c) = 0 => ScoreOrder(a, c) = 0
  BY OfferType DEF ScoreOrder, Less, Scores

LEMMA CmpTransitive ==
  ASSUME NEW a \in Offers, NEW b \in Offers, NEW c \in Offers, Cmp(a, b) >= 0, Cmp(b, c) >= 0
  PROVE  Cmp(a, c) >= 0
<1> DEFINE Alt(x, y)     == AltScore(x) - AltScore(y)
           Date(x, y)    == x.date - y.date
           Decor(x, y)   == DecorScore(x.section) - DecorScore(y.section)
           Mark(x, y)    == x.marker - y.marker
           Rest5(x, y)   == StatusValue(x) - StatusValue(y)
           Rest4(x, y)   == Then(Mark(x, y), Rest5(x, y))
           Rest3(x, y)   == Then(Decor(x, y), Rest4(x, y))
           Rest2(x, y)   == Then(Date(x, y), Rest3(x, y))
           Rest1(x, y)   == Then(ScoreOrder(x, y), Rest2(x, y))
<1>1. ASSUME NEW x \in Offers, NEW y \in Offers
      PROVE  /\ Alt(x, y) \in Int /\ Date(x, y) \in Int /\ Decor(x, y) \in Int
             /\ Mark(x, y) \in Int /\ Rest5(x, y) \in Int /\ ScoreOrder(x, y) \in Int
  BY OfferType, StatusValueType DEF ScoreOrder
<1>2. /\ Alt(a, c) = Alt(a, b) + Alt(b, c) /\ Date(a, c) = Date(a, b) + Date(b, c)
      /\ Decor(a, c) = Decor(a, b) + Decor(b, c) /\ Mark(a, c) = Mark(a, b) + Mark(b, c)
      /\ Rest5(a, c) = Rest5(a, b) + Rest5(b, c)
  BY OfferType, StatusValueType
<1>3. ASSUME NEW x \in Offers, NEW y \in Offers
      PROVE  /\ Rest4(x, y) \in Int /\ Rest3(x, y) \in Int /\ Rest2(x, y) \in Int /\ Rest1(x, y) \in Int
             /\ Cmp(x, y) = Then(Alt(x, y), Rest1(x, y))
  BY <1>1 DEF Then, Cmp
<1> HIDE DEF Alt, Date, Decor, Mark
<1>4. Rest5(a, b) >= 0 /\ Rest5(b, c) >= 0 => Rest5(a, c) >= 0
  BY <1>1, <1>2
<1> HIDE DEF Rest5
<1>5. Rest4(a, b) >= 0 /\ Rest4(b, c) >= 0 => Rest4(a, c) >= 0
  BY <1>1, <1>2, <1>4, ThenTransitive
<1> HIDE DEF Rest4
<1>6. Rest3(a, b) >= 0 /\ Rest3(b, c) >= 0 => Rest3(a, c) >= 0
  BY <1>1, <1>2, <1>3, <1>5, ThenTransitive, SMTT(30)
<1> HIDE DEF Rest3
<1>7. Rest2(a, b) >= 0 /\ Rest2(b, c) >= 0 => Rest2(a, c) >= 0
  BY <1>1, <1>2, <1>3, <1>6, ThenTransitive, SMTT(30)
<1> HIDE DEF Rest2
<1>8. Rest1(a, b) >= 0 /\ Rest1(b, c) >= 0 => Rest1(a, c) >= 0
  BY <1>3, <1>7, ScoreOrderTransitive, ThenTransitive
<1> HIDE DEF Rest1
<1> QED
  BY <1>1, <1>2, <1>3, <1>8, ThenTransitive

\* A step that leaves the device alone leaves the order alone
LEMMA StatusUnchanged ==
  ASSUME installed' = installed, problem' = problem
  PROVE  Missing' = Missing /\ \A o : Status(o)' = Status(o)
<1>1. Missing' = Missing
  BY DEF Missing
<1>2. \A o : DateStatus(o)' = DateStatus(o) /\ RankStatus(o)' = RankStatus(o)
  BY DEF DateStatus, RankStatus, DriverScore
<1> QED
  BY <1>1, <1>2 DEF Status

LEMMA CmpUnchanged ==
  ASSUME installed' = installed, problem' = problem, NEW a, NEW b
  PROVE  Cmp(a, b)' = Cmp(a, b)
<1>1. \A o : StatusValue(o)' = StatusValue(o)
  BY StatusUnchanged DEF StatusValue
<1> QED
  BY <1>1 DEF Cmp, Then, ScoreOrder

----------------------------------------------------------------------------
(* Types *)

\* Before the filter there are no rows, and before the sort there is no list
Clear ==
  /\ phase = "find" => list = <<>>
  /\ phase \in {"find", "sort"} => dups = {} /\ active = {} /\ ~counted /\ ~ontorrent

\* The best one so far is one of those that were looked at
Loop == phase = "sort" /\ i < Len(list) => i <= best /\ best < j /\ j <= Len(list) + 1

Types == TypeOK /\ Clear /\ Loop

LEMMA FoundType ==
  ASSUME NEW n \in 0..MaxFound, NEW f \in [1..n -> Offers]
  PROVE  f \in Seq(Offers) /\ Len(f) <= MaxFound
<1>1. n \in Nat /\ n <= MaxFound
  BY WindowsAssumption
<1>2. f \in Seq(Offers)
  BY <1>1
<1>3. Len(f) = n
  BY <1>1, <1>2
<1> QED
  BY <1>1, <1>2, <1>3

LEMMA ExchangeType ==
  ASSUME NEW l \in Seq(Offers), NEW a \in Offers, NEW b \in Offers, NEW h, NEW k
  PROVE  LET m == [l EXCEPT ![h] = a, ![k] = b]
         IN  m \in Seq(Offers) /\ Len(m) = Len(l) /\ DOMAIN m = DOMAIN l
<1> DEFINE n == Len(l)
           m == [l EXCEPT ![h] = a, ![k] = b]
<1>1. n \in Nat /\ l \in [1..n -> Offers]
  OBVIOUS
<1>2. m \in [1..n -> Offers]
  BY <1>1
<1> HIDE DEF n, m
<1>3. m \in Seq(Offers)
  BY <1>1, <1>2
<1>4. Len(m) = n
  BY <1>1, <1>2, <1>3
<1> QED
  BY <1>1, <1>2, <1>3, <1>4 DEF n, m

LEMMA InitTypes == Init => Types
<1> SUFFICES ASSUME Init PROVE Types
  OBVIOUS
<1>1. found \in Seq(Offers) /\ Len(found) <= MaxFound
  BY FoundType DEF Init
<1>2. installed \in Driver \cup {NoDriver}
  BY OfferAssumption DEF Init
<1>3. list \in Seq(Offers) /\ Len(list) <= MaxFound /\ DOMAIN list = {}
  BY WindowsAssumption DEF Init
<1>4. 1 \in 1..MaxFound + 1 /\ 1 \in 1..MaxFound + 2
  BY WindowsAssumption
<1> QED
  BY <1>1, <1>2, <1>3, <1>4 DEF Init, Types, TypeOK, Clear, Loop

LEMMA DriverOfType == ASSUME NEW o \in Offers PROVE DriverOf(o) \in Driver
<1>1. o \in Offer
  BY OfferAssumption
<1>2. IdentifierScore(o.pos, o.hw, o.infpos) \in Nat
  BY <1>1 DEF IdentifierScore, Offer
<1> QED
  BY <1>1, <1>2 DEF DriverOf, Driver, Offer

LEMMA StepTypes == Types /\ [Next]_vars => Types'
<1> SUFFICES ASSUME Types, [Next]_vars PROVE Types'
  OBVIOUS
<1> USE DEF Types, matchVars, rowVars
<1>0. MaxFound \in Nat /\ 1 \in 1..MaxFound + 1 /\ 1 \in 1..MaxFound + 2 /\ 2 \in 1..MaxFound + 2
  BY WindowsAssumption
<1>10. <<>> \in Seq(Offers) /\ Len(<<>>) <= MaxFound /\ DOMAIN <<>> = {}
  BY <1>0
<1>1. CASE Find
  BY <1>0, <1>1 DEF Find, TypeOK, Clear, Loop
<1>2. CASE Compare
  <2>1. j \in 1..MaxFound /\ j + 1 \in 1..MaxFound + 2 /\ j \in 1..MaxFound + 1
    BY <1>0, <1>2 DEF Compare, TypeOK
  <2> QED
    BY <1>2, <2>1 DEF Compare, TypeOK, Clear, Loop
<1>3. CASE Exchange
  <2>1. i \in DOMAIN list /\ i + 1 \in 1..MaxFound + 1 /\ i + 2 \in 1..MaxFound + 2
    BY <1>0, <1>3, SMTT(30) DEF Exchange, TypeOK
  <2>2. list[best] \in Offers /\ list[i] \in Offers
    BY <1>3, <2>1, <1>0, SMTT(30) DEF Exchange, TypeOK, Loop
  <2>3. list' \in Seq(Offers) /\ Len(list') = Len(list) /\ DOMAIN list' = DOMAIN list
    BY <1>3, <2>2, ExchangeType DEF Exchange, TypeOK
  <2> QED
    BY <1>3, <2>1, <2>2, SMTT(30) DEF Exchange, TypeOK, Clear, Loop
<1>4. CASE MarkDups
  <2>1. LaterTwins(list) \subseteq DOMAIN list
    BY DEF LaterTwins
  <2> QED
    BY <1>0, <1>4, <2>1 DEF MarkDups, TypeOK, Clear, Loop
<1>5. CASE FilterRow
  <2>1. j + 1 \in 1..MaxFound + 2 /\ j \in DOMAIN list
    BY <1>0, <1>5 DEF FilterRow, TypeOK
  <2>2. active' \subseteq DOMAIN list \ dups
    BY <1>5, <2>1 DEF FilterRow, TypeOK, Skipped
  <2>3. counted' \in BOOLEAN /\ ontorrent' \in BOOLEAN
    BY <1>5 DEF FilterRow, TypeOK
  <2> QED
    BY <1>5, <2>1, <2>2, <2>3 DEF FilterRow, TypeOK, Clear, Loop
<1>6. CASE Show
  BY <1>6 DEF Show, TypeOK, Clear, Loop
<1>7. CASE Rescan
  BY <1>0, <1>7, <1>10 DEF Rescan, Fresh, TypeOK, Clear, Loop
<1>8. ASSUME NEW k \in active, Install(k) PROVE Types'
  <2>1. list[k] \in Offers
    BY DEF TypeOK
  <2>2. installed' \in Driver \cup {NoDriver}
    BY <1>8, <2>1, DriverOfType DEF Install, TypeOK
  <2>3. problem' \in {"none", "disabled", "error"}
    BY <1>8 DEF Install, TypeOK
  <2> QED
    BY <1>0, <1>8, <1>10, <2>2, <2>3 DEF Install, Fresh, TypeOK, Clear, Loop
<1>9. CASE UNCHANGED vars
  BY <1>9 DEF vars, TypeOK, Clear, Loop
<1> QED
  BY <1>1, <1>2, <1>3, <1>4, <1>5, <1>6, <1>7, <1>8, <1>9 DEF Next

LEMMA AlwaysTypes == Spec => []Types
  BY InitTypes, StepTypes, PTL DEF Spec

\* Types of the variables (Matcher.tla, TypeOK); the row of a duplicate is never active.
THEOREM TypeCorrect == Spec => []TypeOK
<1>1. Types => TypeOK
  BY DEF Types
<1> QED
  BY <1>1, AlwaysTypes, PTL

----------------------------------------------------------------------------
(* The sorted list *)

InOrder(l, n) == \A a, b \in DOMAIN l : a < n /\ a < b => Cmp(l[a], l[b]) >= 0

\* Selection sort: what is before i is in its place, and best is the best one from i to j - 1
SortInv ==
  /\ phase = "sort" =>
       /\ Reordered(list, found)
       /\ InOrder(list, i)
       /\ i < Len(list) => \A b \in i..j - 1 : Cmp(list[best], list[b]) >= 0
  /\ Sorted

LEMMA ReorderedItself == ASSUME NEW l \in Seq(Offers) PROVE Reordered(l, l)
<1> DEFINE p == [k \in DOMAIN l |-> k]
<1>1. p \in [DOMAIN l -> DOMAIN l] /\ Reorders(p, l, l)
  BY DEF Reorders
<1> QED
  BY <1>1 DEF Reordered

LEMMA ReorderedExchange ==
  ASSUME NEW l \in Seq(Offers), NEW m \in Seq(Offers), Reordered(l, m),
         NEW h \in DOMAIN l, NEW k \in DOMAIN l
  PROVE  Reordered([l EXCEPT ![h] = l[k], ![k] = l[h]], m)
<1>1. PICK p \in [DOMAIN l -> DOMAIN m] : Reorders(p, l, m)
  BY DEF Reordered
<1> DEFINE n == [l EXCEPT ![h] = l[k], ![k] = l[h]]
           q == [p EXCEPT ![h] = p[k], ![k] = p[h]]
<1>2. l[h] \in Offers /\ l[k] \in Offers
  OBVIOUS
<1>3. Len(n) = Len(l) /\ DOMAIN n = DOMAIN l
  BY <1>2, ExchangeType
<1>4. q \in [DOMAIN l -> DOMAIN m]
  BY <1>1
<1>5. \A a, b \in DOMAIN l : q[a] = q[b] => a = b
  BY <1>1 DEF Reorders
<1>6. \A a \in DOMAIN l : n[a] = m[q[a]]
  BY <1>1 DEF Reorders
<1> HIDE DEF n, q
<1>7. Len(n) = Len(m)
  BY <1>3 DEF Reordered
<1> QED
  BY <1>3, <1>4, <1>5, <1>6, <1>7, ZenonT(60) DEF Reordered, Reorders, n

LEMMA InitSort == Init => SortInv
  BY DEF Init, SortInv, Sorted

LEMMA StepSort == Types /\ SortInv /\ [Next]_vars => SortInv'
<1> SUFFICES ASSUME Types, SortInv, [Next]_vars PROVE SortInv'
  OBVIOUS
<1> USE DEF Types, matchVars, rowVars
<1>0. /\ found \in Seq(Offers) /\ list \in Seq(Offers)
      /\ \A k \in DOMAIN list : list[k] \in Offers
      /\ i \in Nat /\ j \in Nat /\ best \in Nat /\ 1 <= i
  BY DEF TypeOK
<1>1. CASE Find
  <2>1. Reordered(list', found')
    BY <1>0, <1>1, ReorderedItself DEF Find
  <2>2. InOrder(list, i)'
    BY <1>0, <1>1 DEF Find, InOrder
  <2>3. \A a, b : Cmp(a, b)' = Cmp(a, b)
    BY <1>1, CmpUnchanged DEF Find
  <2>4. i' < Len(list') => Cmp(list'[1], list'[1]) >= 0
    BY <1>0, <1>1, CmpReflexive DEF Find
  <2>5. (i < Len(list) => \A b \in i..j - 1 : Cmp(list[best], list[b]) >= 0)'
    BY <1>1, <2>3, <2>4 DEF Find
  <2>6. phase' = "sort"
    BY <1>1 DEF Find
  <2> QED
    BY <2>1, <2>2, <2>5, <2>6 DEF SortInv, Sorted
<1>2. CASE Compare
  <2>1. installed' = installed /\ problem' = problem /\ list' = list /\ found' = found /\ i' = i
    BY <1>2 DEF Compare
  <2>2. \A a, b : Cmp(a, b)' = Cmp(a, b)
    BY <2>1, CmpUnchanged
  <2>3. /\ i <= best /\ best < j /\ j <= Len(list) /\ i < Len(list)
        /\ \A b \in i..j - 1 : Cmp(list[best], list[b]) >= 0
    BY <1>2 DEF Compare, SortInv, Loop
  <2>4. best \in DOMAIN list /\ j \in DOMAIN list /\ \A b \in i..j - 1 : b \in DOMAIN list
    BY <1>0, <2>3
  <2>5. \A b \in i..j : Cmp(list[best'], list[b]) >= 0
    <3>1. CASE Cmp(list[best], list[j]) < 0
      <4>1. best' = j
        BY <1>2, <3>1 DEF Compare
      <4>2. Cmp(list[j], list[best]) >= 0
        BY <1>0, <2>4, <3>1, CmpTotal
      <4>3. \A b \in i..j - 1 : Cmp(list[j], list[b]) >= 0
        BY <1>0, <2>3, <2>4, <4>2, CmpTransitive
      <4>4. Cmp(list[j], list[j]) >= 0
        BY <1>0, <2>4, CmpReflexive
      <4> QED
        BY <1>0, <4>1, <4>3, <4>4
    <3>2. CASE ~(Cmp(list[best], list[j]) < 0)
      <4>1. best' = best
        BY <1>2, <3>2 DEF Compare
      <4>2. Cmp(list[best], list[j]) >= 0
        BY <1>0, <2>4, <3>2, CmpInt
      <4> QED
        BY <1>0, <2>3, <4>1, <4>2
    <3> QED
      BY <3>1, <3>2
  <2>6. j' - 1 = j /\ phase' = "sort"
    BY <1>0, <1>2 DEF Compare
  <2>7. InOrder(list, i)'
    BY <1>2, <2>1, <2>2 DEF InOrder, SortInv, Compare
  <2>8. Reordered(list', found')
    BY <1>2, <2>1 DEF SortInv, Compare
  <2>9. (\A b \in i..j - 1 : Cmp(list[best], list[b]) >= 0)'
    BY <2>1, <2>2, <2>5, <2>6
  <2> QED
    BY <2>6, <2>7, <2>8, <2>9 DEF SortInv, Sorted
<1>3. CASE Exchange
  <2>1. /\ installed' = installed /\ problem' = problem /\ found' = found /\ phase' = "sort"
        /\ i' = i + 1 /\ best' = i + 1 /\ j' = i + 2
        /\ list' = [list EXCEPT ![i] = list[best], ![best] = list[i]]
    BY <1>3 DEF Exchange
  <2>2. \A a, b : Cmp(a, b)' = Cmp(a, b)
    BY <2>1, CmpUnchanged
  <2>3. /\ i <= best /\ best <= Len(list) /\ i < Len(list)
        /\ \A b \in DOMAIN list : i <= b => Cmp(list[best], list[b]) >= 0
    <3>1. i < Len(list) /\ j > Len(list) /\ phase = "sort" /\ Len(list) \in Nat
      BY <1>0, <1>3 DEF Exchange
    <3>2. i <= best /\ best < j /\ j <= Len(list) + 1
      BY <3>1 DEF Loop
    <3>3. \A b \in i..j - 1 : Cmp(list[best], list[b]) >= 0
      BY <3>1 DEF SortInv
    <3>4. j = Len(list) + 1 /\ best <= Len(list)
      BY <1>0, <3>1, <3>2
    <3>5. \A b \in DOMAIN list : i <= b => b \in i..j - 1
      BY <1>0, <3>4
    <3> QED
      BY <3>1, <3>2, <3>3, <3>4, <3>5
  <2>4. i \in DOMAIN list /\ best \in DOMAIN list
    BY <1>0, <2>3
  <2>5. list' \in Seq(Offers) /\ DOMAIN list' = DOMAIN list
    BY <1>0, <2>1, <2>4, ExchangeType
  <2>6. \A b \in DOMAIN list :
          list'[b] = IF b = best THEN list[i] ELSE IF b = i THEN list[best] ELSE list[b]
    BY <1>0, <2>1, <2>4
  <2>7. Reordered(list', found')
    <3>1. Reordered(list, found)
      BY <1>3 DEF SortInv, Exchange
    <3>2. Reordered([list EXCEPT ![i] = list[best], ![best] = list[i]], found)
      BY <1>0, <2>4, <3>1, ReorderedExchange
    <3> QED
      BY <2>1, <3>2
  <2>8. ASSUME NEW a \in DOMAIN list, NEW b \in DOMAIN list, a <= i, a < b
        PROVE  Cmp(list'[a], list'[b]) >= 0
    <3>1. InOrder(list, i)
      BY <1>3 DEF SortInv, Exchange
    <3>2. CASE a < i
      <4>1. list'[a] = list[a]
        BY <1>0, <2>3, <2>4, <2>6, <3>2
      <4>2. PICK c \in DOMAIN list : a < c /\ list'[b] = list[c]
        BY <1>0, <2>3, <2>4, <2>6, <2>8, <3>2
      <4> QED
        BY <3>1, <3>2, <4>1, <4>2 DEF InOrder
    <3>3. CASE a = i
      <4>1. list'[a] = list[best]
        BY <2>4, <2>6, <3>3
      <4>2. PICK c \in DOMAIN list : i <= c /\ list'[b] = list[c]
        BY <1>0, <2>3, <2>4, <2>6, <2>8, <3>3
      <4> QED
        BY <2>3, <4>1, <4>2
    <3> QED
      BY <1>0, <2>8, <3>2, <3>3
  <2>9. InOrder(list, i)'
    <3>1. \A a \in DOMAIN list : a < i + 1 => a <= i
      BY <1>0
    <3>2. \A a, b \in DOMAIN list : a < i + 1 /\ a < b => Cmp(list'[a], list'[b]) >= 0
      BY <2>8, <3>1
    <3>3. \A a, b \in DOMAIN list' : a < i' /\ a < b => Cmp(list[a], list[b])' >= 0
      BY <2>1, <2>2, <2>5, <3>2, SMTT(30)
    <3> QED
      BY <3>3 DEF InOrder
  <2>10. (i < Len(list) => \A b \in i..j - 1 : Cmp(list[best], list[b]) >= 0)'
    <3>1. SUFFICES ASSUME i + 1 < Len(list') PROVE Cmp(list'[i + 1], list'[i + 1]) >= 0
      BY <1>0, <2>1, <2>2
    <3>2. list'[i + 1] \in Offers
      BY <1>0, <2>5, <3>1
    <3> QED
      BY <3>2, CmpReflexive
  <2> QED
    BY <2>1, <2>7, <2>9, <2>10 DEF SortInv, Sorted
<1>4. CASE MarkDups
  <2>1. installed' = installed /\ problem' = problem /\ list' = list /\ found' = found
    BY <1>4 DEF MarkDups
  <2>2. \A a, b : Cmp(a, b)' = Cmp(a, b)
    BY <2>1, CmpUnchanged
  <2>3. Reordered(list, found) /\ \A a, b \in DOMAIN list : a < b => Cmp(list[a], list[b]) >= 0
    BY <1>0, <1>4 DEF MarkDups, SortInv, InOrder
  <2> QED
    BY <1>4, <2>1, <2>2, <2>3 DEF MarkDups, SortInv, Sorted
<1>5. CASE FilterRow \/ Show \/ UNCHANGED vars
  <2>1. /\ installed' = installed /\ problem' = problem /\ list' = list /\ found' = found
        /\ phase' = "sort" => phase = "sort" /\ i' = i /\ j' = j /\ best' = best
        /\ phase' \in {"filter", "shown"} => phase \in {"filter", "shown"}
    BY <1>5 DEF FilterRow, Show, vars
  <2>2. \A a, b : Cmp(a, b)' = Cmp(a, b)
    BY <2>1, CmpUnchanged
  <2> QED
    BY <2>1, <2>2 DEF SortInv, Sorted, InOrder
<1>6. CASE Rescan
  BY <1>6 DEF Rescan, Fresh, SortInv, Sorted
<1>7. ASSUME NEW k \in active, Install(k) PROVE SortInv'
  BY <1>7 DEF Install, Fresh, SortInv, Sorted
<1> QED
  BY <1>1, <1>2, <1>3, <1>4, <1>5, <1>6, <1>7 DEF Next

LEMMA AlwaysSorted == Spec => [](Types /\ SortInv)
<1>1. Init => Types /\ SortInv
  BY InitTypes, InitSort
<1>2. Types /\ SortInv /\ [Next]_vars => (Types /\ SortInv)'
  BY StepTypes, StepSort
<1> QED
  BY <1>1, <1>2, PTL DEF Spec

\* The selection sort sorts (matcher.cpp, MatcherImp::sort): cmp never prefers a later driver to
\* an earlier one, and the list is the one that was found, in another order.
THEOREM ListSorted == Spec => []Sorted
<1>1. SortInv => Sorted
  BY DEF SortInv
<1> QED
  BY <1>1, AlwaysSorted, PTL

----------------------------------------------------------------------------
(* Duplicates *)

DupsMarked == phase \in {"filter", "shown"} => dups = LaterTwins(list)

LEMMA StepDups == DupsMarked /\ [Next]_vars => DupsMarked'
<1> SUFFICES ASSUME DupsMarked, [Next]_vars PROVE DupsMarked'
  OBVIOUS
<1> USE DEF DupsMarked, matchVars, rowVars
<1>1. CASE Find \/ Compare \/ Exchange
  BY <1>1 DEF Find, Compare, Exchange
<1>2. CASE MarkDups
  BY <1>2 DEF MarkDups
<1>3. CASE FilterRow \/ Show
  BY <1>3 DEF FilterRow, Show
<1>4. CASE Rescan
  BY <1>4 DEF Rescan, Fresh
<1>5. ASSUME NEW k \in active, Install(k) PROVE DupsMarked'
  BY <1>5 DEF Install, Fresh
<1>6. CASE UNCHANGED vars
  BY <1>6 DEF vars
<1> QED
  BY <1>1, <1>2, <1>3, <1>4, <1>5, <1>6 DEF Next

\* The first one of the twins of k
LEMMA FirstTwin ==
  ASSUME NEW l \in Seq(Offers), NEW k \in DOMAIN l
  PROVE  \E h \in DOMAIN l :
           Twin(l[h], l[k]) /\ h <= k /\ \A g \in DOMAIN l : Twin(l[g], l[k]) => h <= g
<1> DEFINE Twins == {h \in DOMAIN l : Twin(l[h], l[k])}
<1>1. k \in Twins /\ Twins \subseteq Nat
  BY DEF Twin
<1>2. PICK h \in Twins : \A g \in Twins : ~(<<g, h>> \in OpToRel(<, Nat))
  BY <1>1, WFMin, NatLessThanWellFounded, Zenon
<1>3. \A g \in Twins : h <= g
  <2>1. ASSUME NEW g \in Nat, NEW n \in Nat, g < n PROVE <<g, n>> \in OpToRel(<, Nat)
    BY <2>1 DEF OpToRel
  <2>2. \A g \in Twins : ~(g < h)
    BY <1>1, <1>2, <2>1
  <2> QED
    BY <1>1, <2>2
<1> QED
  BY <1>1, <1>3

LEMMA TwinsRepresented == Types /\ Sorted /\ DupsMarked => DupsRepresented
<1> SUFFICES ASSUME Types, Sorted, DupsMarked, phase \in {"filter", "shown"}, NEW k \in dups
             PROVE  \E h \in DOMAIN list \ dups :
                      /\ Twin(list[h], list[k]) /\ Cmp(list[h], list[k]) >= 0
                      /\ \A g \in DOMAIN list \ dups : Twin(list[g], list[k]) => g = h
  BY DEF DupsRepresented
<1>1. list \in Seq(Offers) /\ k \in DOMAIN list /\ dups = LaterTwins(list)
  BY DEF Types, TypeOK, DupsMarked
<1>2. PICK h \in DOMAIN list :
        Twin(list[h], list[k]) /\ h <= k /\ \A g \in DOMAIN list : Twin(list[g], list[k]) => h <= g
  BY <1>1, FirstTwin
<1>3. h \notin dups
  BY <1>1, <1>2 DEF LaterTwins, Twin
<1>4. h # k
  BY <1>3
<1>5. h < k
  BY <1>1, <1>2, <1>4
<1>6. Cmp(list[h], list[k]) >= 0
  BY <1>1, <1>5 DEF Sorted
<1>7. ASSUME NEW g \in DOMAIN list \ dups, Twin(list[g], list[k]) PROVE g = h
  <2>1. h <= g
    BY <1>2, <1>7
  <2>2. Twin(list[h], list[g])
    BY <1>2, <1>7 DEF Twin
  <2>3. ~(h < g)
    BY <1>1, <1>7, <2>2 DEF LaterTwins
  <2> QED
    BY <1>1, <2>1, <2>3
<1> QED
  BY <1>2, <1>3, <1>6, <1>7

\* Marking duplicates hides no driver altogether (matcher.cpp, "Mark dups"): one twin of it stays,
\* just one, and cmp does not prefer the hidden one.
THEOREM TwinStays == Spec => []DupsRepresented
<1>1. Init => DupsMarked
  BY DEF Init, DupsMarked
<1>2. Types /\ SortInv /\ DupsMarked => DupsRepresented
  BY TwinsRepresented DEF SortInv
<1> QED
  BY <1>1, <1>2, StepDups, AlwaysSorted, PTL DEF Spec

----------------------------------------------------------------------------
(* The filter *)

\* Every active row was let through
ShownInv == \A k \in active : Shown(list[k]) /\ ~Skipped(k)

\* Until a row is counted, at most one is active, and it has to be downloaded
CountInv ==
  /\ ~counted => /\ \A a, b \in active : a = b
                 /\ \A a \in active : list[a].torrent /\ ontorrent
  /\ OneChoice

\* When a row is counted and none is active, the driver the device has was met
MetCurrent ==
  \E c \in DOMAIN list \ dups : c < j /\ Valid(list[c]) /\ "CURRENT" \in Status(list[c])

BestInv ==
  phase \in {"filter", "shown"} /\ options = Default /\ ~FeaturePaths =>
    /\ phase = "shown" => j > Len(list)
    /\ \A a \in active : a < j
    /\ counted => active # {} \/ MetCurrent
    /\ \A k \in DOMAIN list \ dups : k < j /\ Wished(list[k]) => \E a \in active : a <= k

\* What a filtered row changes
LEMMA RowStep ==
  ASSUME FilterRow
  PROVE  /\ \/ active' = active
            \/ active' = active \cup {j} /\ ~counted /\ Shown(list[j]) /\ ~Skipped(j)
         /\ \A o : Shown(o)' = Shown(o)
         /\ \A k : Skipped(k)' = Skipped(k)
<1>1. installed' = installed /\ problem' = problem /\ options' = options /\ list' = list /\ dups' = dups
  BY DEF FilterRow, matchVars
<1>2. Missing' = Missing /\ \A o : Status(o)' = Status(o)
  BY <1>1, StatusUnchanged
<1>3. \A o : Shown(o)' = Shown(o)
  BY <1>1, <1>2 DEF Shown, Wanted, Hidden, Careful
<1>4. \A k : Skipped(k)' = Skipped(k)
  BY <1>1 DEF Skipped
<1>5. \/ active' = active
      \/ active' = active \cup {j} /\ ~counted /\ Shown(list[j]) /\ ~Skipped(j)
  BY DEF FilterRow
<1> QED
  BY <1>3, <1>4, <1>5

LEMMA StepShown == Types /\ ShownInv /\ [Next]_vars => ShownInv'
<1> SUFFICES ASSUME Types, ShownInv, [Next]_vars PROVE ShownInv'
  OBVIOUS
<1> USE DEF ShownInv, matchVars, rowVars
<1>1. CASE phase' \in {"find", "sort"}
  BY <1>1, StepTypes DEF Types, Clear
<1>2. CASE MarkDups
  BY <1>2 DEF MarkDups, Types, Clear
<1>3. CASE FilterRow
  <2>1. list' = list
    BY <1>3 DEF FilterRow
  <2> QED
    BY <1>3, <2>1, RowStep
<1>4. CASE Show \/ UNCHANGED vars
  <2>1. /\ installed' = installed /\ problem' = problem /\ options' = options /\ list' = list
        /\ dups' = dups /\ active' = active
    BY <1>4 DEF Show, vars
  <2>2. Missing' = Missing /\ \A o : Status(o)' = Status(o)
    BY <2>1, StatusUnchanged
  <2>3. \A o : Shown(o)' = Shown(o)
    BY <2>1, <2>2 DEF Shown, Wanted, Hidden, Careful
  <2>4. \A k : Skipped(k)' = Skipped(k)
    BY <2>1 DEF Skipped
  <2> QED
    BY <2>1, <2>3, <2>4
<1>5. Find \/ Compare \/ Exchange \/ Rescan \/ (\E k \in active : Install(k)) => phase' \in {"find", "sort"}
  BY DEF Find, Compare, Exchange, Rescan, Install, Fresh
<1> QED
  BY <1>1, <1>2, <1>3, <1>4, <1>5 DEF Next

LEMMA StepCount == Types /\ CountInv /\ [Next]_vars => CountInv'
<1> SUFFICES ASSUME Types, CountInv, [Next]_vars PROVE CountInv'
  OBVIOUS
<1> USE DEF CountInv, OneChoice, matchVars, rowVars
<1>1. CASE phase' \in {"find", "sort"}
  BY <1>1, StepTypes DEF Types, Clear
<1>2. CASE MarkDups
  BY <1>2 DEF MarkDups, Types, Clear
<1>3. CASE FilterRow
  <2>1. list' = list /\ counted \in BOOLEAN /\ ontorrent \in BOOLEAN
    BY <1>3 DEF FilterRow, Types, TypeOK
  <2>2. CASE active' = active
    <3>1. /\ ~counted' => ~counted
          /\ ontorrent => ontorrent'
      BY <1>3, <2>1 DEF FilterRow
    <3> QED
      BY <2>1, <2>2, <3>1
  <2>3. CASE active' = active \cup {j} /\ ~counted /\ Shown(list[j]) /\ ~Skipped(j)
    <3>1. CASE Counts(list[j])
      <4>1. counted'
        BY <1>3, <2>3, <3>1 DEF FilterRow
      <4> QED
        BY <2>1, <2>3, <4>1
    <3>2. CASE ~Counts(list[j])
      <4>1. list[j].torrent /\ ~ontorrent
        BY <2>3, <3>2 DEF Counts
      <4>2. active = {} /\ active' = {j}
        BY <2>3, <4>1
      <4>3. ontorrent'
        BY <1>3, <2>3, <4>1 DEF FilterRow
      <4> QED
        BY <2>1, <4>1, <4>2, <4>3
    <3> QED
      BY <3>1, <3>2
  <2> QED
    BY <1>3, <2>2, <2>3, RowStep
<1>4. CASE Show \/ UNCHANGED vars
  BY <1>4 DEF Show, vars
<1>5. Find \/ Compare \/ Exchange \/ Rescan \/ (\E k \in active : Install(k)) => phase' \in {"find", "sort"}
  BY DEF Find, Compare, Exchange, Rescan, Install, Fresh
<1> QED
  BY <1>1, <1>2, <1>3, <1>4, <1>5 DEF Next

\* With the filters of a new user, what is let through for a device that works is an improvement
LEMMA ShownImproves ==
  ASSUME NEW o \in Offers, options = Default, Working, Shown(o)
  PROVE  /\ AltScore(o) = 2
         /\ \/ "BETTER" \in Status(o)
            \/ {"NEW", "SAME"} \subseteq Status(o)
<1>1. AltScore(o) \in {0, 1, 2}
  BY OfferType
<1>2. ~Missing /\ installed # NoDriver /\ Careful
  BY DEF Working, Careful, Default
<1>3. "MISSING" \notin Status(o)
  BY <1>2 DEF Status, DateStatus, RankStatus
<1>4. ~Hidden(o) /\ Wanted(o) # {}
  BY <1>3 DEF Shown, Wanted
<1>5. AltScore(o) = 2 /\ "WORSE" \notin Status(o)
  BY <1>1, <1>2, <1>4 DEF Hidden, Default
<1>6. "BETTER" \in Status(o) \/ "NEW" \in Status(o)
  BY <1>3, <1>4 DEF Wanted, Default
<1>7. RankStatus(o) \in Status(o) /\ RankStatus(o) \in {"BETTER", "WORSE", "SAME"}
  BY <1>2 DEF Status, RankStatus
<1> QED
  BY <1>5, <1>6, <1>7

\* No downgrade is recommended (manager.cpp, Manager::filter): with the filters a new user has, an
\* active row of a device that works is of a better rank than its driver, or of the same rank and
\* newer.
THEOREM OnlyImprovements == Spec => []Improves
<1>1. Init => ShownInv
  BY DEF Init, ShownInv
<1>2. Types /\ ShownInv => Improves
  <2>1. Types => \A k \in active : list[k] \in Offers
    BY DEF Types, TypeOK
  <2> QED
    BY <2>1, ShownImproves DEF ShownInv, Improves
<1> QED
  BY <1>1, <1>2, StepShown, InitTypes, StepTypes, PTL DEF Spec

\* One driver is recommended for a device, or two of which one has to be downloaded.
THEOREM OneRecommended == Spec => []OneChoice
<1>1. Init => CountInv
  BY DEF Init, CountInv, OneChoice
<1>2. CountInv => OneChoice
  BY DEF CountInv
<1> QED
  BY <1>1, <1>2, StepCount, InitTypes, StepTypes, PTL DEF Spec

----------------------------------------------------------------------------
(* What the user would want is shown *)

LEMMA WishedIsShown ==
  ASSUME NEW o \in Offers, options = Default, Wished(o)
  PROVE  Valid(o) /\ Shown(o)
<1>1. CASE Missing /\ Valid(o)
  BY <1>1 DEF Shown, Wanted, Status, Default
<1>2. CASE Improvement(o) /\ ~Missing
  <2>1. AltScore(o) = 2 /\ Valid(o) /\ ("BETTER" \in Status(o) \/ {"NEW", "SAME"} \subseteq Status(o))
    BY <1>2 DEF Improvement
  <2>2. DateStatus(o) \in {"NEW", "OLD", "CURRENT"} /\ RankStatus(o) \in {"BETTER", "WORSE", "SAME"}
    BY DEF DateStatus, RankStatus
  <2>3. "WORSE" \notin Status(o)
    BY <1>2, <2>1, <2>2 DEF Status
  <2>4. ~Hidden(o)
    BY <2>1, <2>3 DEF Hidden, Default
  <2>5. Wanted(o) # {}
    BY <2>1 DEF Wanted, Default
  <2> QED
    BY <2>1, <2>4, <2>5 DEF Shown
<1> QED
  BY <1>1, <1>2 DEF Wished, Improvement

LEMMA DriverScoreType == ASSUME NEW d \in Driver PROVE DriverScore(d) \in Scores
  BY ScoreType DEF DriverScore, Driver

\* What cmp compares first
LEMMA CmpKeys ==
  ASSUME NEW a \in Offers, NEW b \in Offers, Cmp(a, b) >= 0
  PROVE  /\ AltScore(a) >= AltScore(b)
         /\ AltScore(a) = AltScore(b) =>
              /\ ~Less(OfferScore(b), OfferScore(a))
              /\ Less(OfferScore(a), OfferScore(b)) \/ a.date >= b.date
<1>1. AltScore(a) >= AltScore(b)
  BY OfferType, StatusValueType DEF Cmp, Then, ScoreOrder, Less, Scores
<1>2. AltScore(a) = AltScore(b) => ~Less(OfferScore(b), OfferScore(a))
  BY OfferType, StatusValueType DEF Cmp, Then, ScoreOrder, Less, Scores
<1>3. AltScore(a) = AltScore(b) => Less(OfferScore(a), OfferScore(b)) \/ a.date >= b.date
  BY OfferType, StatusValueType DEF Cmp, Then, ScoreOrder, Less, Scores
<1> QED
  BY <1>1, <1>2, <1>3

\* A driver as old as the one the device has, and not worse than an improvement, is one itself
LEMMA CurrentIsBetter ==
  ASSUME NEW a \in Offers, NEW b \in Offers, installed \in Driver \cup {NoDriver},
         a.path = NoFeature, b.path = NoFeature,
         Valid(a), "CURRENT" \in Status(a), Wished(b), Cmp(a, b) >= 0
  PROVE  Wished(a)
<1>1. ~Missing
  BY DEF Status
<1>2. installed # NoDriver /\ DateStatus(a) = "CURRENT"
  BY <1>1 DEF Status, RankStatus
<1>3. installed \in Driver /\ installed.date = a.date /\ installed.date \in Nat
  BY <1>2, OfferType DEF DateStatus, Driver
<1>4. Improvement(b) /\ AltScore(b) = 2
  BY <1>1 DEF Wished, Improvement
<1>5. AltScore(a) = 2
  BY <1>4, CmpKeys, OfferType
<1>6. ~Less(OfferScore(b), OfferScore(a))
  BY <1>4, <1>5, CmpKeys
<1>7. /\ "BETTER" \in Status(a) <=> Less(OfferScore(a), DriverScore(installed))
      /\ "BETTER" \in Status(b) <=> Less(OfferScore(b), DriverScore(installed))
  <2>1. DateStatus(a) # "BETTER" /\ DateStatus(b) # "BETTER"
    BY DEF DateStatus
  <2>2. /\ RankStatus(a) = "BETTER" <=> Less(OfferScore(a), DriverScore(installed))
        /\ RankStatus(b) = "BETTER" <=> Less(OfferScore(b), DriverScore(installed))
    BY DEF RankStatus
  <2> QED
    BY <1>1, <1>2, <2>1, <2>2 DEF Status
<1>8. OfferScore(a) \in Scores /\ OfferScore(b) \in Scores /\ DriverScore(installed) \in Scores
  BY <1>3, OfferType, DriverScoreType
<1>9. CASE "BETTER" \in Status(b)
  <2>1. Less(OfferScore(a), DriverScore(installed))
    BY <1>6, <1>7, <1>8, <1>9 DEF Less, Scores
  <2> QED
    BY <1>5, <1>7, <2>1 DEF Wished, Improvement
<1>10. CASE "BETTER" \notin Status(b)
  <2>1. {"NEW", "SAME"} \subseteq Status(b)
    BY <1>4, <1>10 DEF Improvement
  <2>2. DateStatus(b) = "NEW" /\ RankStatus(b) = "SAME"
    BY <1>1, <1>2, <2>1 DEF Status, DateStatus, RankStatus
  <2>3. a.date < b.date
    BY <1>3, <2>2, OfferType DEF DateStatus
  <2>4. Less(OfferScore(a), OfferScore(b))
    <3>1. Less(OfferScore(a), OfferScore(b)) \/ a.date >= b.date
      BY <1>4, <1>5, CmpKeys
    <3> QED
      BY <2>3, <3>1, OfferType
  <2>5. ~Less(DriverScore(installed), OfferScore(b))
    BY <2>2 DEF RankStatus
  <2>6. Less(OfferScore(a), DriverScore(installed))
    BY <1>8, <2>4, <2>5 DEF Less, Scores
  <2> QED
    BY <1>5, <1>7, <2>6 DEF Wished, Improvement
<1> QED
  BY <1>9, <1>10

\* No driver in the list comes from a feature_ directory
LEMMA NoFeaturePath ==
  ASSUME ~FeaturePaths, Reordered(list, found), NEW k \in DOMAIN list
  PROVE  list[k].path = NoFeature
  BY DEF FeaturePaths, Reordered, Reorders

LEMMA StepBest == Types /\ SortInv /\ BestInv /\ [Next]_vars => BestInv'
<1> SUFFICES ASSUME Types, SortInv, BestInv, [Next]_vars, (options = Default)', ~FeaturePaths'
             PROVE  BestInv'
  BY DEF BestInv
<1> USE DEF matchVars, rowVars
<1>1. CASE phase' \in {"find", "sort"}
  BY <1>1 DEF BestInv
<1>2. CASE MarkDups
  <2>1. j' = 1 /\ active' = {} /\ counted' = FALSE /\ phase' = "filter" /\ list' = list
    BY <1>2 DEF MarkDups, Types, Clear
  <2>2. \A k \in DOMAIN list : ~(k < 1)
    BY DEF Types, TypeOK
  <2> QED
    BY <2>1, <2>2 DEF BestInv
<1>3. CASE FilterRow
  <2>1. /\ installed' = installed /\ problem' = problem /\ options' = options /\ found' = found
        /\ list' = list /\ dups' = dups /\ phase = "filter" /\ phase' = "filter" /\ j' = j + 1
        /\ j \in DOMAIN list /\ options = Default /\ ~FeaturePaths
    BY <1>3 DEF FilterRow, Types, TypeOK, FeaturePaths
  <2>2. Missing' = Missing /\ \A o : Status(o)' = Status(o)
    BY <2>1, StatusUnchanged
  <2>3. \A o : Wished(o)' = Wished(o) /\ Valid(o)' = Valid(o)
    BY <2>1, <2>2 DEF Wished, Improvement, Valid
  <2>4. /\ \A a \in active : a < j
        /\ counted => active # {} \/ MetCurrent
        /\ \A k \in DOMAIN list \ dups : k < j /\ Wished(list[k]) => \E a \in active : a <= k
    BY <2>1 DEF BestInv
  <2>5. active \subseteq active' /\ active' \subseteq active \cup {j} /\ active \subseteq Nat /\ j \in Nat
    BY <1>3, RowStep DEF Types, TypeOK
  <2>6. \A a \in active' : a < j + 1
    BY <2>4, <2>5
  <2>7. MetCurrent => MetCurrent'
    BY <2>1, <2>2, <2>3 DEF MetCurrent, Types, TypeOK
  <2>8. counted' => active' # {} \/ MetCurrent'
    <3>1. CASE counted
      BY <2>4, <2>5, <2>7, <3>1
    <3>2. CASE ~counted /\ Skipped(j)
      BY <1>3, <3>2 DEF FilterRow
    <3>3. CASE ~counted /\ ~Skipped(j) /\ Counts(list[j])
      BY <1>3, <3>3 DEF FilterRow, Counts
    <3>4. CASE ~counted /\ ~Skipped(j) /\ ~Counts(list[j]) /\ counted'
      <4>1. "CURRENT" \in Status(list[j])
        BY <1>3, <3>4 DEF FilterRow
      <4>2. j \in DOMAIN list \ dups /\ Valid(list[j])
        BY <2>1, <3>4 DEF Skipped, Default
      <4>3. j < j'
        BY <2>1, <2>5
      <4>4. MetCurrent'
        BY <2>1, <2>2, <2>3, <4>1, <4>2, <4>3 DEF MetCurrent
      <4> QED
        BY <4>4
    <3> QED
      BY <3>1, <3>2, <3>3, <3>4
  <2>9. j \in DOMAIN list \ dups /\ Wished(list[j]) => active' # {}
    <3> SUFFICES ASSUME j \notin dups, Wished(list[j]), active = {}, active' = {}
                 PROVE  FALSE
      BY <2>1, <2>5
    <3>1. list[j] \in Offers
      BY <2>1 DEF Types, TypeOK
    <3>2. Valid(list[j]) /\ Shown(list[j])
      BY <2>1, <3>1, WishedIsShown
    <3>3. counted
      BY <1>3, <3>2 DEF FilterRow, Skipped
    <3>4. PICK c \in DOMAIN list \ dups :
            c < j /\ Valid(list[c]) /\ "CURRENT" \in Status(list[c])
      BY <2>4, <3>3 DEF MetCurrent
    <3>5. Reordered(list, found) /\ Cmp(list[c], list[j]) >= 0
      BY <2>1, <3>4 DEF SortInv, Sorted
    <3>6. list[c] \in Offers /\ list[c].path = NoFeature /\ list[j].path = NoFeature
      BY <2>1, <3>4, <3>5, NoFeaturePath DEF Types, TypeOK
    <3>7. installed \in Driver \cup {NoDriver}
      BY DEF Types, TypeOK
    <3>8. Wished(list[c])
      BY <3>1, <3>4, <3>5, <3>6, <3>7, CurrentIsBetter
    <3> QED
      BY <2>4, <3>4, <3>8
  <2>10. ASSUME NEW k \in DOMAIN list \ dups, k < j + 1, Wished(list[k]) PROVE \E a \in active' : a <= k
    <3>1. CASE k < j
      BY <2>4, <2>5, <2>10, <3>1
    <3>2. CASE k = j
      <4>1. PICK a \in active' : TRUE
        BY <2>9, <2>10, <3>2
      <4>2. a <= j
        BY <2>5, <2>6, <4>1
      <4> QED
        BY <3>2, <4>1, <4>2
    <3>3. k \in Nat
      BY DEF Types, TypeOK
    <3> QED
      BY <2>5, <2>10, <3>1, <3>2, <3>3
  <2> QED
    BY <2>1, <2>3, <2>6, <2>8, <2>10 DEF BestInv
<1>4. CASE Show \/ UNCHANGED vars
  <2>1. /\ installed' = installed /\ problem' = problem /\ options' = options /\ list' = list
        /\ dups' = dups /\ active' = active /\ counted' = counted /\ j' = j /\ found' = found
        /\ phase' \in {"filter", "shown"} => phase \in {"filter", "shown"}
        /\ phase' = "shown" => phase = "shown" \/ j > Len(list)
    BY <1>4 DEF Show, vars
  <2>2. Missing' = Missing /\ \A o : Status(o)' = Status(o)
    BY <2>1, StatusUnchanged
  <2>3. \A o : Wished(o)' = Wished(o) /\ Valid(o)' = Valid(o)
    BY <2>1, <2>2 DEF Wished, Improvement, Valid
  <2>4. MetCurrent => MetCurrent'
    BY <2>1, <2>2, <2>3 DEF MetCurrent
  <2>5. ~FeaturePaths
    BY <2>1 DEF FeaturePaths
  <2> QED
    BY <2>1, <2>3, <2>4, <2>5 DEF BestInv
<1>5. Find \/ Compare \/ Exchange \/ Rescan \/ (\E k \in active : Install(k)) => phase' \in {"find", "sort"}
  BY DEF Find, Compare, Exchange, Rescan, Install, Fresh
<1> QED
  BY <1>1, <1>2, <1>3, <1>4, <1>5 DEF Next

\* The best driver is not hidden: with the filters a new user has, whenever an improvement was
\* found, or any driver for a device whose own does not work, a row at least as good is active.
THEOREM BestRecommended == Spec => []RecommendsBest
<1>1. Init => BestInv
  BY DEF Init, BestInv
<1>2. Types /\ BestInv => RecommendsBest
  BY DEF BestInv, RecommendsBest, Types, TypeOK
<1> QED
  BY <1>1, <1>2, StepBest, AlwaysSorted, PTL DEF Spec

=============================================================================
