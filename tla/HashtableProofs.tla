------------------------- MODULE HashtableProofs --------------------------
(***************************************************************************)
(* For any ids, hash codes and lengths of the list: the chains of the      *)
(* table are complete and ordered, a search finds every position of its    *)
(* code, and the table implements the index the matcher expects.           *)
(***************************************************************************)
EXTENDS Hashtable, SequenceTheorems, TLAPS

----------------------------------------------------------------------------
(* The chains *)

\* The place a walk has reached: the slot of code c or an item of its chain
OnChain(j, c) == j \in DOMAIN items /\ (j = Home(c) \/ j \in Of(c))

LEMMA Remainder ==
  ASSUME NEW n \in Nat, NEW m \in Nat \ {0}
  PROVE  n % m \in 0..(m - 1)
  OBVIOUS

LEMMA HomeRange ==
  ASSUME TypeOK, NEW c \in Codes
  PROVE  Home(c) \in 0..(size - 1) /\ Home(c) \in DOMAIN items
<1>1. Slot(c) \in Nat
  BY SlotAssumption DEF Codes
<1>2. Home(c) \in 0..(size - 1)
  BY <1>1, Remainder DEF Home, TypeOK
<1> QED
  BY <1>2 DEF TypeOK

LEMMA KeyType ==
  ASSUME TypeOK, NEW v \in 0..(Len(list) - 1)
  PROVE  Key(v) \in Codes
<1>1. list[v + 1] \in HWID
  BY DEF TypeOK
<1> QED
  BY <1>1 DEF Key, Codes

LEMMA UsedKey ==
  ASSUME TypeOK, Stored, NEW j \in DOMAIN items, Used(j)
  PROVE  /\ items[j].value \in 0..(i - 1) /\ i <= Len(list)
         /\ items[j].key = Key(items[j].value) /\ items[j].key \in Codes
<1>1. items[j] \in Item
  BY DEF TypeOK
<1>2. items[j].value \in 0..(i - 1) /\ i <= Len(list)
  BY <1>1 DEF TypeOK, Stored, Item
<1>3. items[j].key = Key(items[j].value)
  BY DEF Stored
<1> QED
  BY <1>2, <1>3, KeyType DEF TypeOK

\* Each id that was added is on the chain of its code
LEMMA Where ==
  ASSUME TypeOK, Stored, NEW v \in 0..(i - 1)
  PROVE  \E j \in Of(Key(v)) : items[j].value = v /\ items[j].key = Key(v)
<1>1. PICK j \in DOMAIN items : Used(j) /\ items[j].value = v
  BY DEF Stored
<1>2. items[j].key = Key(v)
  BY <1>1 DEF Stored
<1> QED
  BY <1>1, <1>2 DEF Of

\* A walk that has reached an item sees the rest of the chain in next
LEMMA Successor ==
  ASSUME TypeOK, Stored, Chained, NEW c \in Codes, NEW j, OnChain(j, c), Used(j)
  PROVE  /\ j \in Of(c)
         /\ items[j].next > 0 =>
              /\ items[j].next \in Of(c) /\ items[j].next > j
              /\ \A k \in Of(c) : k > j => k >= items[j].next
         /\ items[j].next <= 0 => items[j].next = -1 /\ \A k \in Of(c) : k <= j
<1>1. j \in DOMAIN items /\ DOMAIN items = 0..(total - 1) /\ items[j].next \in Int
  BY DEF OnChain, TypeOK, Item
<1>2. j \in Of(c)
  <2>1. CASE j = Home(c)
    <3>1. j < size
      BY <2>1, HomeRange DEF TypeOK
    <3>2. Home(items[j].key) = j
      BY <1>1, <3>1 DEF Chained, Rooted, Linked
    <3> QED
      BY <1>1, <2>1, <3>2 DEF Of
  <2> QED
    BY <2>1 DEF OnChain
<1> DEFINE later == {k \in Of(items[j].key) : k > j}
<1>3. Of(items[j].key) = Of(c)
  BY <1>2 DEF Of
<1>4. IF later = {} THEN items[j].next = -1
      ELSE items[j].next \in later /\ \A k \in later : items[j].next <= k
  BY <1>1 DEF Chained, Rooted, Linked
<1>5. Of(c) \subseteq 0..(total - 1)
  BY <1>1 DEF Of
<1> QED
  BY <1>1, <1>2, <1>3, <1>4, <1>5

\* A free slot has no chain
LEMMA NoChain ==
  ASSUME TypeOK, Stored, Chained, NEW c \in Codes, NEW j, OnChain(j, c), ~Used(j)
  PROVE  j = Home(c) /\ Of(c) = {}
<1>1. j = Home(c) /\ j < size
  BY HomeRange DEF OnChain, Of, TypeOK
<1>2. SUFFICES ASSUME NEW k \in Of(c) PROVE FALSE
  BY <1>1
<1>3. k \in DOMAIN items /\ Used(k) /\ Home(items[k].key) = j
  BY <1>1 DEF Of
<1>4. k \in Nat /\ size \in Nat
  BY <1>3 DEF TypeOK
<1>5. CASE k < size
  BY <1>3, <1>5 DEF Chained, Rooted, Linked
<1>6. CASE k >= size
  BY <1>3, <1>4, <1>6 DEF Chained, Rooted, Linked
<1> QED
  BY <1>4, <1>5, <1>6

\* On the chain of a code the order is that of the list
LEMMA Ascending ==
  ASSUME TypeOK, Stored, NEW c, NEW j \in Of(c), NEW k \in Of(c)
  PROVE  /\ j \in Nat /\ k \in Nat /\ items[j].value \in Nat /\ items[k].value \in Nat
         /\ j < k => items[j].value < items[k].value
         /\ items[j].value < items[k].value => j < k
<1>1. j \in DOMAIN items /\ k \in DOMAIN items /\ Used(j) /\ Used(k)
        /\ Home(items[j].key) = Home(items[k].key)
  BY DEF Of
<1>2. /\ j \in Nat /\ k \in Nat /\ items[j].value \in Nat /\ items[k].value \in Nat
  BY <1>1 DEF TypeOK, Item
<1>3. j < k => items[j].value < items[k].value
  BY <1>1 DEF Stored
<1>4. k < j => items[k].value < items[j].value
  BY <1>1 DEF Stored
<1> QED
  BY <1>2, <1>3, <1>4
----------------------------------------------------------------------------
(* The inductive invariant *)

Full == pc \notin {"build", "walk"} => i = Len(list)

\* additem looks for the end of the chain of the next id
Walking == pc = "walk" => i < Len(list) /\ OnChain(curi, Key(i))

\* find has not passed an item with its key
Seeking ==
  pc = "seek" =>
    /\ OnChain(curi, Code(hwid)) /\ hits = {}
    /\ \A j \in Of(Code(hwid)) : j < curi => items[j].key # Code(hwid)

\* The cursor is behind the item of the last answer
Found ==
  pc = "found" =>
    /\ curi \in Of(findstr) /\ items[curi].key = findstr
    /\ items[curi].value = answer.value /\ findnext_v = items[curi].next

\* findnext is behind it, and has not passed an item with its key since
Again ==
  pc = "again" =>
    /\ curi \in Of(findstr) /\ items[curi].value > answer.value
    /\ \A j \in Of(findstr) :
         j < curi /\ items[j].key = findstr => items[j].value <= answer.value

\* In between, hwidmatch_list has what precedes the last answer
Searched ==
  IF pc \in {"found", "again"}
    THEN /\ answer.isfound /\ findstr = Code(hwid)
         /\ answer.value \in 0..(Len(list) - 1) /\ Key(answer.value) = findstr
         /\ hits = {v \in 0..(Len(list) - 1) : Key(v) = findstr /\ v <= answer.value}
    ELSE answer = None

Searches == Seeking /\ Found /\ Again /\ Searched /\ FindsAll

IInv == TypeOK /\ Stored /\ Chained /\ Full /\ Walking /\ Searches

LEMMA InitInv == Init => IInv
<1> SUFFICES ASSUME Init PROVE IInv
  OBVIOUS
<1>1. items \in [0..0 -> Item] /\ \A j \in 0..0 : items[j].next = 0
  BY DEF Init, Empty, Item
<1>2. TypeOK
  BY <1>1, CodeAssumption DEF Init, TypeOK, None, Codes
<1>3. \A j \in DOMAIN items : ~Used(j) /\ j < size
  BY <1>1 DEF Init, Used
<1>4. Stored /\ Chained
  BY <1>3, <1>2 DEF Stored, Chained, Rooted, Linked, Init
<1>5. Full /\ Walking /\ Searches
  BY DEF Init, Full, Walking, Searches, Seeking, Found, Again, Searched, FindsAll
<1> QED
  BY <1>2, <1>4, <1>5 DEF IInv

\* A step that leaves the table alone leaves the chains alone
LEMMA SameTable ==
  ASSUME Stored, Chained, UNCHANGED tableVars
  PROVE  /\ Stored' /\ Chained'
         /\ \A j : Used(j)' = Used(j)
         /\ \A c : Home(c)' = Home(c) /\ Of(c)' = Of(c)
         /\ \A v : Key(v)' = Key(v)
  BY DEF tableVars, Stored, Chained, Rooted, Linked, Used, Of, Home, Key
\* reset leaves no item in use
LEMMA GenhashesInv == IInv /\ Genhashes => IInv'
<1> SUFFICES ASSUME IInv, Genhashes PROVE IInv'
  OBVIOUS
<1>1. PICK n \in 0..MaxItems : list' \in [1..n -> HWID] /\ Reset(n)
  BY DEF Genhashes
<1>2. list' \in Seq(HWID) /\ n \in Nat
  BY <1>1, BoundAssumption
<1>3. size' \in Nat \ {0} /\ total' = size'
  BY <1>1, <1>2 DEF Reset
<1>4. items' \in [0..(total' - 1) -> Item] /\ \A j \in 0..(size' - 1) : items'[j].next = 0
  BY <1>1, <1>3 DEF Reset, Empty, Item
<1>5. TypeOK'
  <2>1. i' \in 0..Len(list') /\ pc' = "build"
    BY <1>2 DEF Genhashes
  <2>2. total' \in Nat /\ size' <= total'
    BY <1>3
  <2> QED
    BY <1>2, <1>3, <1>4, <2>1, <2>2 DEF IInv, TypeOK, Genhashes, cursorVars, queryVars
<1>6. \A j \in (DOMAIN items)' : ~Used(j)' /\ j < size'
  <2> SUFFICES ASSUME NEW j \in DOMAIN items' PROVE ~(items'[j].next # 0) /\ j < size'
    BY DEF Used
  <2>1. DOMAIN items' = 0..(size' - 1)
    BY <1>3, <1>4
  <2>2. j \in 0..(size' - 1)
    BY <2>1
  <2>3. items'[j].next = 0
    BY <1>4, <2>2
  <2>4. j < size'
    BY <1>3, <2>2
  <2> QED
    BY <2>3, <2>4
<1>7. i' = 0 /\ pc' = "build" /\ answer' = None
  BY DEF Genhashes, queryVars, IInv, Searches, Searched
<1>8. Stored' /\ Chained'
  BY <1>6, <1>7 DEF Stored, Chained, Rooted, Linked
<1> QED
  BY <1>5, <1>7, <1>8
     DEF IInv, Full, Walking, Searches, Seeking, Found, Again, Searched, FindsAll

\* The walk starts in the slot
LEMMA AddItemInv == IInv /\ AddItem => IInv'
<1> SUFFICES ASSUME IInv, AddItem PROVE IInv'
  OBVIOUS
<1> USE DEF IInv
<1>1. UNCHANGED <<tableVars, cursorVars, queryVars>> /\ pc' = "walk" /\ pc = "build"
  BY DEF AddItem
<1>2. i \in 0..(Len(list) - 1)
  BY DEF AddItem, TypeOK
<1>3. Home(Key(i)) \in DOMAIN items /\ Home(Key(i)) \in Nat
  BY <1>2, KeyType, HomeRange DEF TypeOK
<1>4. TypeOK'
  BY <1>1, <1>3 DEF TypeOK, AddItem, tableVars, cursorVars, queryVars
<1>5. Stored' /\ Chained'
  BY <1>1, SameTable
<1>6. Walking'
  BY <1>1, <1>2, <1>3 DEF Walking, OnChain, AddItem, tableVars, Home, Key, Of, Used
<1> QED
  BY <1>1, <1>4, <1>5, <1>6
     DEF Full, Searches, Seeking, Found, Again, Searched, FindsAll, queryVars

LEMMA WalkInv == IInv /\ Walk => IInv'
<1> SUFFICES ASSUME IInv, Walk PROVE IInv'
  OBVIOUS
<1> USE DEF IInv
<1>1. UNCHANGED <<tableVars, cursorVars, pc, queryVars>> /\ pc = "walk" /\ Used(curi)
  BY DEF Walk, Used
<1>2. i \in 0..(Len(list) - 1) /\ Key(i) \in Codes /\ OnChain(curi, Key(i))
  BY <1>1, KeyType DEF Walking, TypeOK
<1>3. curi' \in Of(Key(i)) /\ curi' \in DOMAIN items /\ curi' \in Nat
  BY <1>1, <1>2, Successor DEF Walk, Of, TypeOK
<1>4. TypeOK'
  BY <1>1, <1>3 DEF TypeOK, tableVars, cursorVars, queryVars
<1>5. Stored' /\ Chained'
  BY <1>1, SameTable
<1>6. Walking'
  BY <1>1, <1>2, <1>3 DEF Walking, OnChain, tableVars, Home, Key, Of, Used
<1> QED
  BY <1>1, <1>4, <1>5, <1>6
     DEF Full, Searches, Seeking, Found, Again, Searched, FindsAll, queryVars
\* The free slot of a code becomes a chain of one item
LEMMA FillInv == IInv /\ Fill => IInv'
<1> SUFFICES ASSUME IInv, Fill PROVE IInv'
  OBVIOUS
<1> USE DEF IInv
<1> DEFINE K == Key(i)
<1>1. /\ UNCHANGED <<list, size, total, cursorVars, curi, queryVars>>
      /\ pc = "walk" /\ pc' = "build" /\ i' = i + 1
      /\ items' = [items EXCEPT ![curi] = New]
  BY DEF Fill
<1>2. /\ i \in 0..(Len(list) - 1) /\ i \in Nat /\ K \in Codes /\ OnChain(curi, K)
      /\ ~Used(curi)
  BY <1>1, KeyType DEF Walking, TypeOK, Fill, Used
<1>3. curi = Home(K) /\ Of(K) = {} /\ curi \in DOMAIN items /\ curi < size
  <2>1. curi = Home(K) /\ Of(K) = {}
    BY <1>2, NoChain
  <2> QED
    BY <2>1, <1>2, HomeRange DEF TypeOK
<1>4. New \in Item /\ New.key = K /\ New.value = i /\ New.next = -1
  BY <1>2, CodeAssumption DEF New, Item, Codes
<1>5. /\ DOMAIN items' = DOMAIN items /\ items'[curi] = New
      /\ \A j \in DOMAIN items : j # curi => items'[j] = items[j]
  BY <1>1, <1>3 DEF TypeOK
<1>6. /\ \A j : Used(j)' <=> items'[j].next # 0
      /\ \A j \in DOMAIN items : j # curi => Used(j)' = Used(j)
      /\ \A j : j = curi => Used(j)'
  BY <1>4, <1>5 DEF Used
<1>7. /\ \A c : Home(c)' = Home(c)
      /\ \A v : Key(v)' = Key(v)
  BY <1>1 DEF Home, Key
\* No other item belongs there
<1>8. \A j \in DOMAIN items : j # curi /\ Used(j)' => Home(items[j].key) # curi
  BY <1>3, <1>6 DEF Of
<1>9. \A j \in DOMAIN items :
        /\ Of(items[j].key)' = {k \in DOMAIN items :
                                 Used(k)' /\ Home(items'[k].key) = Home(items'[j].key)}
        /\ Of(items[j].key) = {k \in DOMAIN items :
                                Used(k) /\ Home(items[k].key) = Home(items[j].key)}
  BY <1>1, <1>5, <1>7 DEF Of, Home
<1>13. TypeOK'
  <2>1. items' \in [0..(total' - 1) -> Item]
    BY <1>1, <1>4 DEF TypeOK
  <2>2. i' \in 0..Len(list')
    BY <1>1, <1>2
  <2> QED
    BY <1>1, <2>1, <2>2 DEF TypeOK, cursorVars, queryVars
<1>10. Stored'
  <2>1. ASSUME NEW j \in DOMAIN items, Used(j)'
        PROVE  items'[j].value < i' /\ items'[j].key = Key(items'[j].value)
    <3>1. CASE j = curi
      BY <1>1, <1>2, <1>4, <1>5, <3>1
    <3>2. CASE j # curi
      BY <1>1, <1>2, <1>5, <1>6, <2>1, <3>2, UsedKey
    <3> QED
      BY <3>1, <3>2
  <2>2. ASSUME NEW v \in 0..(i' - 1)
        PROVE  \E j \in DOMAIN items : Used(j)' /\ items'[j].value = v
    <3>1. CASE v = i
      <4>1. items'[curi].value = i
        BY <1>4, <1>5
      <4> QED
        BY <1>3, <1>6, <3>1, <4>1
    <3>2. CASE v # i
      <4>1. v \in 0..(i - 1)
        BY <1>1, <1>2, <3>2
      <4>2. PICK j \in DOMAIN items : Used(j) /\ items[j].value = v
        BY <4>1 DEF Stored
      <4>3. j # curi
        BY <1>2, <4>2
      <4> QED
        BY <1>5, <1>6, <4>2, <4>3
    <3> QED
      BY <3>1, <3>2
  <2>3. ASSUME NEW j \in DOMAIN items, NEW k \in DOMAIN items, Used(j)', Used(k)', j < k,
               Home(items'[j].key) = Home(items'[k].key)
        PROVE  items'[j].value < items'[k].value
    <3>1. j # curi
      BY <1>3, <1>4, <1>5, <1>8, <2>3 DEF TypeOK
    <3>2. k # curi
      BY <1>3, <1>4, <1>5, <1>8, <2>3 DEF TypeOK
    <3> QED
      BY <1>5, <1>6, <2>3, <3>1, <3>2 DEF Stored
  <2> QED
    BY <1>5, <1>7, <2>1, <2>2, <2>3 DEF Stored
<1>11. Chained'
  <2>1. ASSUME NEW j \in DOMAIN items
        PROVE  Rooted(j)'
    <3>1. CASE j = curi
      BY <1>1, <1>3, <1>4, <1>5, <1>7, <3>1 DEF Rooted
    <3>2. CASE j # curi /\ j < size
      BY <1>1, <1>5, <1>6, <1>7, <3>2 DEF Rooted, Chained
    <3>3. CASE j # curi /\ ~(j < size)
      <4>1. Used(j) /\ Used(Home(items[j].key))
        BY <3>3 DEF Chained, Rooted
      <4>2. Home(items[j].key) \in DOMAIN items
        BY <4>1, UsedKey, HomeRange
      <4>3. Used(j)' /\ Home(items[j].key)' = Home(items[j].key)
        BY <1>1, <1>5, <1>6, <3>3, <4>1 DEF Home
      <4>4. items'[Home(items[j].key)].next # 0
        BY <1>3, <1>4, <1>5, <4>1, <4>2 DEF Used
      <4> QED
        BY <1>1, <3>3, <4>3, <4>4 DEF Rooted, Used
    <3> QED
      BY <3>1, <3>2, <3>3
  <2>2. ASSUME NEW j \in DOMAIN items
        PROVE  Linked(j)'
    <3>1. CASE j = curi
      <4>1. \A k \in DOMAIN items :
              (Used(k)' /\ Home(items'[k].key) = Home(items'[j].key)) <=> k = curi
        <5>1. Home(items'[j].key) = curi
          BY <1>3, <1>4, <1>5, <3>1
        <5>2. ASSUME NEW k \in DOMAIN items, k # curi, Used(k)'
              PROVE  Home(items'[k].key) # curi
          BY <1>5, <1>8, <5>2
        <5>3. ASSUME NEW k \in DOMAIN items
              PROVE  (Used(k)' /\ Home(items'[k].key) = Home(items'[j].key)) <=> k = curi
          <6>1. CASE k = curi
            BY <1>6, <3>1, <5>1, <6>1
          <6>2. CASE k # curi
            BY <5>1, <5>2, <6>2
          <6> QED
            BY <6>1, <6>2
        <5> QED
          BY <5>3
      <4>2. Of(items[j].key)' = {curi}
        BY <1>3, <1>9, <4>1
      <4> QED
        BY <1>3, <1>4, <1>5, <3>1, <4>2 DEF Linked, TypeOK
    <3>2. CASE j # curi /\ Used(j)
      <4>1. \A k \in DOMAIN items :
              (Used(k)' /\ Home(items'[k].key) = Home(items'[j].key))
                <=> (Used(k) /\ Home(items[k].key) = Home(items[j].key))
        <5>1. items'[j] = items[j] /\ Home(items[j].key) # curi
          BY <1>5, <1>6, <1>8, <3>2
        <5>3. ~Used(curi) /\ Home(items'[curi].key) = curi
          BY <1>2, <1>3, <1>4, <1>5
        <5>4. ASSUME NEW k \in DOMAIN items, k # curi
              PROVE  items'[k] = items[k] /\ Used(k)' = Used(k)
          BY <1>5, <1>6, <5>4
        <5> QED
          BY <5>1, <5>3, <5>4
      <4>2. Of(items[j].key)' = Of(items[j].key)
        BY <1>9, <4>1, ZenonT(60)
      <4> QED
        BY <1>5, <3>2, <4>2 DEF Linked, Chained
    <3> QED
      BY <1>6, <3>1, <3>2 DEF Linked
  <2> QED
    BY <1>5, <2>1, <2>2 DEF Chained
<1>12. Full' /\ Walking' /\ Searches'
  BY <1>1 DEF Full, Walking, Searches, Seeking, Found, Again, Searched, FindsAll, queryVars
<1> QED
  BY <1>10, <1>11, <1>12, <1>13
\* The last of the chain gets a successor, which no item of another chain sees
LEMMA ChainInv == IInv /\ Chain => IInv'
<1> SUFFICES ASSUME IInv, Chain PROVE IInv'
  OBVIOUS
<1> USE DEF IInv
<1> DEFINE K == Key(i)
<1>1. /\ UNCHANGED <<list, size, cursorVars, curi, queryVars>>
      /\ pc = "walk" /\ pc' = "build" /\ i' = i + 1 /\ total' = total + 1
      /\ items' = [j \in 0..total |->
                     IF j = total THEN New
                     ELSE IF j = curi THEN [items[j] EXCEPT !.next = total] ELSE items[j]]
  BY DEF Chain
<1>2. /\ i \in 0..(Len(list) - 1) /\ i \in Nat /\ K \in Codes /\ OnChain(curi, K)
      /\ items[curi].next = -1 /\ Used(curi)
  BY <1>1, KeyType DEF Walking, TypeOK, Chain, Used
<1>3. curi \in Of(K) /\ curi \in DOMAIN items /\ \A k \in Of(K) : k <= curi
  BY <1>2, Successor DEF Of
<1>4. New \in Item /\ New.key = K /\ New.value = i /\ New.next = -1
  BY <1>2, CodeAssumption DEF New, Item, Codes
<1>5. /\ total \in Nat /\ size \in Nat /\ 0 < size /\ size <= total
      /\ DOMAIN items = 0..(total - 1) /\ curi \in 0..(total - 1)
  BY <1>3 DEF TypeOK
<1>6. /\ DOMAIN items' = 0..total /\ items'[total] = New
      /\ \A j \in DOMAIN items :
           /\ j \in DOMAIN items' /\ j < total
           /\ items'[j].key = items[j].key /\ items'[j].value = items[j].value
           /\ items'[j].next = IF j = curi THEN total ELSE items[j].next
           /\ items'[j] \in Item
  <2>1. \A j \in DOMAIN items : items[j] \in Item
    BY DEF TypeOK
  <2> QED
    BY <1>1, <1>5, <2>1, SMTT(30) DEF Item
<1>7. /\ \A j : Used(j)' <=> items'[j].next # 0
      /\ \A j \in DOMAIN items : Used(j)' <=> Used(j)
      /\ items'[total].next # 0
  BY <1>2, <1>4, <1>5, <1>6 DEF Used
<1>8. \A c : Home(c)' = Home(c)
  BY <1>1 DEF Home
<1>9. /\ \A v : Key(v)' = Key(v)
  BY <1>1 DEF Key
<1>10. TypeOK'
  <2>1. items' \in [0..(total' - 1) -> Item]
    <3>1. \A j \in 0..total : items'[j] \in Item
      BY <1>4, <1>5, <1>6
    <3>2. total' - 1 = total
      BY <1>1, <1>5
    <3> QED
      BY <1>1, <1>6, <3>1, <3>2
  <2>2. i' \in 0..Len(list') /\ total' \in Nat /\ size' <= total'
    BY <1>1, <1>2, <1>5
  <2> QED
    BY <1>1, <2>1, <2>2 DEF TypeOK, cursorVars, queryVars
<1>11. Stored'
  <2>1. ASSUME NEW j \in DOMAIN items', Used(j)'
        PROVE  items'[j].value < i' /\ items'[j].key = Key(items'[j].value)
    <3>1. CASE j = total
      BY <1>1, <1>2, <1>4, <1>6, <3>1
    <3>2. CASE j # total
      <4>1. j \in DOMAIN items
        BY <1>5, <1>6, <3>2
      <4>2. items[j].value \in 0..(i - 1) /\ items[j].key = Key(items[j].value)
        BY <1>7, <2>1, <4>1, UsedKey
      <4>3. items'[j].key = items[j].key /\ items'[j].value = items[j].value
        BY <1>6, <4>1
      <4>4. items[j].value < i'
        BY <1>1, <1>2, <4>2
      <4> QED
        BY <4>2, <4>3, <4>4
    <3> QED
      BY <3>1, <3>2
  <2>2. ASSUME NEW v \in 0..(i' - 1)
        PROVE  \E j \in DOMAIN items' : Used(j)' /\ items'[j].value = v
    <3>1. CASE v = i
      <4>1. \A j : j = total => j \in DOMAIN items' /\ Used(j)' /\ items'[j].value = v
        BY <1>4, <1>5, <1>6, <1>7, <3>1
      <4> QED
        BY <4>1
    <3>2. CASE v # i
      <4>1. v \in 0..(i - 1)
        BY <1>1, <1>2, <3>2
      <4>2. PICK j \in DOMAIN items : Used(j) /\ items[j].value = v
        BY <4>1 DEF Stored
      <4> QED
        BY <1>6, <1>7, <4>2
    <3> QED
      BY <3>1, <3>2
  <2>3. ASSUME NEW j \in DOMAIN items', NEW k \in DOMAIN items', Used(j)', Used(k)', j < k,
               Home(items'[j].key) = Home(items'[k].key)
        PROVE  items'[j].value < items'[k].value
    <3>1. j \in DOMAIN items
      BY <1>5, <1>6, <2>3
    <3>2. CASE k = total
      <4>1. items[j].value < i
        BY <1>7, <2>3, <3>1 DEF Stored
      <4> QED
        BY <1>4, <1>6, <3>1, <3>2, <4>1
    <3>3. CASE k # total
      <4>1. k \in DOMAIN items
        BY <1>5, <1>6, <3>3
      <4> QED
        BY <1>6, <1>7, <2>3, <3>1, <4>1 DEF Stored
    <3> QED
      BY <3>2, <3>3
  <2> QED
    BY <1>8, <1>9, <2>1, <2>2, <2>3 DEF Stored
<1>12. Chained'
  <2>1. ASSUME NEW j \in DOMAIN items'
        PROVE  Rooted(j)'
    <3>1. CASE j = total
      <4>1. Used(Home(K)) /\ Home(K) \in DOMAIN items
        BY <1>2, <1>3, <1>5, HomeRange DEF Of, Chained, Rooted
      <4>2. items'[Home(K)].next # 0
        BY <1>7, <4>1
      <4> QED
        BY <1>1, <1>4, <1>5, <1>6, <1>7, <1>8, <3>1, <4>2 DEF Rooted, Used
    <3>2. CASE j # total
      <4>1. j \in DOMAIN items /\ Rooted(j)
        BY <1>5, <1>6, <3>2 DEF Chained
      <4>2. Used(j) => Home(items[j].key) \in DOMAIN items
        BY <4>1, UsedKey, HomeRange
      <4>3. Home(items[j].key)' = Home(items[j].key)
        BY <1>6, <1>8, <4>1 DEF Home
      <4>4. Used(j) /\ Used(Home(items[j].key)) => items'[Home(items[j].key)].next # 0
        BY <1>7, <4>2
      <4> QED
        BY <1>1, <1>7, <4>1, <4>3, <4>4 DEF Rooted, Used
    <3> QED
      BY <3>1, <3>2
  <2>2. ASSUME NEW j \in DOMAIN items'
        PROVE  Linked(j)'
    <3> DEFINE InOf(k) == Used(k)' /\ Home(items'[k].key) = Home(items'[j].key)
    <3>1. Of(items[j].key)' = {k \in 0..total : InOf(k)}
      BY <1>1, <1>6, <1>8 DEF Of, Home
    <3>2. CASE j = total
      BY <1>4, <1>6, <3>1, <3>2 DEF Linked
    <3>3. CASE j = curi
      <4>1. \A k \in 0..total : InOf(k) /\ k > j => k = total
        BY <1>3, <1>5, <1>6, <1>7, <3>3 DEF Of
      <4>2. \A k : k = total => k \in 0..total /\ InOf(k) /\ k > j
        BY <1>3, <1>4, <1>5, <1>6, <1>7, <3>3 DEF Of
      <4> QED
        BY <1>5, <1>6, <3>1, <3>3, <4>1, <4>2 DEF Linked
    <3>4. CASE j # total /\ j # curi /\ Used(j)
      <4>1. j \in DOMAIN items /\ Linked(j) /\ items'[j].next = items[j].next
        BY <1>5, <1>6, <3>4 DEF Chained
      <4>2. \A k \in DOMAIN items : k \in Of(items[j].key) <=> InOf(k)
        BY <1>6, <1>7, <4>1 DEF Of
      <4>3. InOf(total) => curi \in Of(items[j].key) /\ curi > j
        <5> SUFFICES ASSUME InOf(total) PROVE curi \in Of(items[j].key) /\ curi > j
          OBVIOUS
        <5>1. Home(items[j].key) = Home(K)
          BY <1>4, <1>6, <4>1
        <5>2. j \in Of(K) /\ curi \in Of(items[j].key)
          BY <1>3, <3>4, <4>1, <5>1 DEF Of
        <5> QED
          BY <1>3, <1>5, <3>4, <4>1, <5>2
      <4> DEFINE later == {k \in Of(items[j].key) : k > j}
      <4>4. IF later = {} THEN items[j].next = -1
            ELSE items[j].next \in later /\ \A k \in later : items[j].next <= k
        BY <3>4, <4>1 DEF Linked
      <4>5. later \subseteq 0..(total - 1) /\ j \in 0..(total - 1)
        BY <1>5, <4>1 DEF Of
      <4> DEFINE later2 == {k \in Of(items[j].key)' : k > j}
      <4>6. later2 = IF InOf(total) THEN later \cup {total} ELSE later
        <5> HIDE DEF InOf
        <5>1. \A k : k \in 0..total <=> (k \in DOMAIN items \/ k = total)
          BY <1>5
        <5>2. \A k : k \in Of(items[j].key) => k \in DOMAIN items
          BY DEF Of
        <5>3. total > j
          BY <1>5, <4>5
        <5>4. \A k : k \in later2 <=> k \in 0..total /\ InOf(k) /\ k > j
          BY <3>1
        <5>5. \A k : k \in later2 <=> (k \in later \/ (k = total /\ InOf(total)))
          BY <4>2, <5>1, <5>2, <5>3, <5>4
        <5> QED
          BY <5>5
      <4>7. IF later2 = {} THEN items[j].next = -1
            ELSE items[j].next \in later2 /\ \A k \in later2 : items[j].next <= k
        <5>1. CASE InOf(total)
          BY <1>5, <4>3, <4>4, <4>5, <4>6, <5>1
        <5>2. CASE ~InOf(total)
          BY <4>4, <4>6, <5>2
        <5> QED
          BY <5>1, <5>2
      <4>8. IF later2 = {} THEN items'[j].next = -1
            ELSE items'[j].next \in later2 /\ \A k \in later2 : items'[j].next <= k
        BY <4>1, <4>7
      <4> QED
        BY <4>8 DEF Linked
    <3>5. CASE ~Used(j)'
      BY <3>5 DEF Linked
    <3>6. j # total => (Used(j)' <=> Used(j))
      BY <1>5, <1>6, <1>7
    <3> QED
      BY <3>2, <3>3, <3>4, <3>5, <3>6
  <2> QED
    BY <1>6, <2>1, <2>2 DEF Chained
<1>13. Full' /\ Walking' /\ Searches'
  BY <1>1 DEF Full, Walking, Searches, Seeking, Found, Again, Searched, FindsAll, queryVars
<1> QED
  BY <1>10, <1>11, <1>12, <1>13
\* The steps that leave the table alone and end or begin nothing but a search
LEMMA BuiltInv == IInv /\ Built => IInv'
<1> SUFFICES ASSUME IInv, Built PROVE IInv'
  OBVIOUS
<1> USE DEF IInv
<1>1. UNCHANGED <<tableVars, cursorVars, curi, queryVars>> /\ pc' = "ready" /\ i = Len(list)
  BY DEF Built
<1>2. TypeOK'
  BY <1>1 DEF TypeOK, tableVars, cursorVars, queryVars
<1>3. Stored' /\ Chained'
  BY <1>1, SameTable
<1>4. answer = None
  BY DEF Built, Searches, Searched
<1> QED
  BY <1>1, <1>2, <1>3, <1>4
     DEF Full, Walking, Searches, Seeking, Found, Again, Searched, FindsAll, tableVars, queryVars

LEMMA LoadInv == IInv /\ Load => IInv'
<1> SUFFICES ASSUME IInv, Load PROVE IInv'
  OBVIOUS
<1> USE DEF IInv
<1>1. UNCHANGED <<tableVars, curi, queryVars>> /\ pc' = "ready" /\ pc \in {"ready", "done"}
  BY DEF Load
<1>2. TypeOK'
  BY <1>1 DEF TypeOK, tableVars, queryVars, Load
<1>3. Stored' /\ Chained'
  BY <1>1, SameTable
<1>4. answer = None
  BY <1>1 DEF Searches, Searched
<1> QED
  BY <1>1, <1>2, <1>3, <1>4
     DEF Full, Walking, Searches, Seeking, Found, Again, Searched, FindsAll, tableVars, queryVars

LEMMA FindInv == IInv /\ Find => IInv'
<1> SUFFICES ASSUME IInv, Find PROVE IInv'
  OBVIOUS
<1> USE DEF IInv
<1>1. /\ UNCHANGED <<tableVars, cursorVars, answer>> /\ pc' = "seek"
      /\ pc \in {"ready", "done"} /\ hits' = {}
  BY DEF Find
<1>2. PICK h \in HWID : hwid' = h /\ curi' = Home(Code(h))
  BY DEF Find
<1>3. curi' \in DOMAIN items /\ curi' \in 0..(size - 1)
  BY <1>2, HomeRange DEF Codes
<1>4. TypeOK'
  BY <1>1, <1>2, <1>3 DEF TypeOK, tableVars, cursorVars
<1>5. Stored' /\ Chained'
  BY <1>1, SameTable
<1>6. answer = None
  BY <1>1 DEF Searches, Searched
<1>7. Seeking'
  <2>1. \A j \in Of(Code(hwid))' : ~(j < curi')
    <3> SUFFICES ASSUME NEW j \in DOMAIN items, Used(j), Home(items[j].key) = curi', j < curi'
                 PROVE  FALSE
      BY <1>1, <1>2 DEF Of, Used, Home, tableVars
    <3> QED
      BY <1>3 DEF Chained, Rooted, TypeOK
  <2>2. OnChain(curi, Code(hwid))'
    BY <1>1, <1>2, <1>3 DEF OnChain, Home, tableVars
  <2> QED
    BY <1>1, <2>1, <2>2 DEF Seeking
<1> QED
  BY <1>1, <1>4, <1>5, <1>6, <1>7
     DEF Full, Walking, Searches, Found, Again, Searched, FindsAll, tableVars
\* In both loops, curi is on the chain of the code of the id that is looked for
LEMMA OnWay ==
  ASSUME IInv, pc \in {"seek", "found", "again"}
  PROVE  /\ Code(hwid) \in Codes /\ OnChain(curi, Code(hwid)) /\ i = Len(list)
         /\ pc \in {"seek", "again"} => Wanted = Code(hwid)
<1> USE DEF IInv
<1>1. Code(hwid) \in Codes
  BY DEF TypeOK, Codes
<1>2. i = Len(list)
  BY DEF Full
<1>3. pc # "seek" => findstr = Code(hwid)
  BY DEF Searches, Searched
<1>4. OnChain(curi, Code(hwid))
  BY <1>3 DEF Searches, Seeking, Found, Again, OnChain, Of
<1> QED
  BY <1>1, <1>2, <1>3, <1>4 DEF Wanted

\* What is found is the first position of its code, or the first after the last answer
LEMMA FirstHit ==
  ASSUME IInv, Hit
  PROVE  /\ curi \in Of(Code(hwid)) /\ items[curi].key = Code(hwid)
         /\ items[curi].value \in 0..(i - 1) /\ Key(items[curi].value) = Code(hwid)
         /\ pc = "again" => answer.value < items[curi].value
         /\ \A w \in 0..(i - 1) :
              Key(w) = Code(hwid) /\ w < items[curi].value => pc = "again" /\ w <= answer.value
<1> USE DEF IInv
<1> DEFINE c == Code(hwid)
<1>1. pc \in {"seek", "again"} /\ Used(curi) /\ items[curi].key = c /\ c \in Codes
        /\ OnChain(curi, c)
  BY OnWay DEF Hit, Here, Used
<1>2. curi \in Of(c) /\ curi \in DOMAIN items
  BY <1>1, Successor DEF Of
<1>3. items[curi].value \in 0..(i - 1) /\ Key(items[curi].value) = c
  BY <1>1, <1>2, UsedKey
<1>4. pc = "again" => answer.value < items[curi].value
  BY <1>3 DEF Searches, Again, TypeOK
<1>5. ASSUME NEW w \in 0..(i - 1), Key(w) = c, w < items[curi].value
      PROVE  pc = "again" /\ w <= answer.value
  <2>1. PICK j \in Of(c) : items[j].value = w /\ items[j].key = c
    BY <1>5, Where
  <2>2. j < curi
    BY <1>2, <1>5, <2>1, Ascending
  <2>3. pc # "seek"
    BY <2>1, <2>2 DEF Searches, Seeking
  <2>4. findstr = c
    BY <1>1, <2>3 DEF Searches, Searched
  <2> QED
    BY <1>1, <2>1, <2>2, <2>3, <2>4 DEF Searches, Again
<1> QED
  BY <1>1, <1>2, <1>3, <1>4, <1>5

\* When the chain has been walked to its end, nothing has been missed
LEMMA LastMiss ==
  ASSUME IInv, Miss
  PROVE  /\ i = Len(list)
         /\ \A w \in 0..(i - 1) :
              Key(w) = Code(hwid) => pc \in {"found", "again"} /\ w <= answer.value
<1> USE DEF IInv
<1> DEFINE c == Code(hwid)
<1>1. pc \in {"seek", "found", "again"}
  BY DEF Miss
<1>2. c \in Codes /\ OnChain(curi, c) /\ i = Len(list)
        /\ (pc \in {"seek", "again"} => Wanted = c)
  BY <1>1, OnWay
<1>3. pc # "seek" => findstr = c /\ answer.value \in Nat
  BY <1>1 DEF Searches, Searched
<1>4. SUFFICES ASSUME NEW w \in 0..(i - 1), Key(w) = c
               PROVE  pc \in {"found", "again"} /\ w <= answer.value
  BY <1>2
<1>5. PICK j \in Of(c) : items[j].value = w /\ items[j].key = c
  BY <1>4, Where
<1>6. Used(curi)
  BY <1>2, <1>5, NoChain
<1>7. curi \in Of(c) /\ items[curi].next <= 0
  <2>1. items[curi].next <= 0
    BY <1>1 DEF Miss, Searches, Found
  <2> QED
    BY <1>2, <1>6, <2>1, Successor
<1>8. j <= curi
  BY <1>2, <1>6, <1>7, Successor
<1>9. CASE pc = "found"
  <2>1. items[curi].value = answer.value
    BY <1>9 DEF Searches, Found
  <2>2. j = curi \/ j < curi
    BY <1>5, <1>7, <1>8, Ascending
  <2>3. w <= items[curi].value
    BY <1>5, <1>7, <2>2, Ascending
  <2> QED
    BY <1>9, <2>1, <2>3
<1>10. CASE pc \in {"seek", "again"}
  <2>1. items[curi].key # c
    BY <1>2, <1>6, <1>10 DEF Miss, Here, Used
  <2>2. j < curi
    BY <1>5, <1>7, <1>8, <2>1, Ascending
  <2>3. pc = "again"
    BY <1>5, <1>10, <2>2 DEF Searches, Seeking
  <2> QED
    BY <1>3, <1>5, <2>2, <2>3 DEF Searches, Again
<1> QED
  BY <1>1, <1>9, <1>10
LEMMA HitInv == IInv /\ Hit => IInv'
<1> SUFFICES ASSUME IInv, Hit PROVE IInv'
  OBVIOUS
<1> USE DEF IInv
<1> DEFINE c == Code(hwid)
           v == items[curi].value
<1>1. /\ UNCHANGED <<tableVars, curi, hwid>> /\ pc \in {"seek", "again"} /\ pc' = "found"
      /\ answer' = [isfound |-> TRUE, value |-> v] /\ findnext_v' = items[curi].next
      /\ findstr' = c /\ hits' = hits \cup {v}
  BY OnWay DEF Hit
<1>2. /\ curi \in Of(c) /\ items[curi].key = c /\ v \in 0..(i - 1) /\ Key(v) = c
      /\ (pc = "again" => answer.value < v)
      /\ \A w \in 0..(i - 1) : Key(w) = c /\ w < v => pc = "again" /\ w <= answer.value
  BY FirstHit
<1>3. i = Len(list) /\ c \in Codes /\ i \in Nat
  BY <1>1, OnWay DEF TypeOK
<1>4. items[curi].next \in Int /\ v \in Nat
  BY <1>2, <1>3 DEF Of, TypeOK, Item
<1>5. TypeOK'
  BY <1>1, <1>3, <1>4 DEF TypeOK, tableVars
<1>6. Stored' /\ Chained' /\ Of(c)' = Of(c) /\ (\A w : Key(w)' = Key(w))
  BY <1>1, SameTable
<1>7. hits' = {w \in 0..(Len(list) - 1) : Key(w) = c /\ w <= v}
  <2>1. CASE pc = "seek"
    <3>1. hits = {}
      BY <2>1 DEF Searches, Seeking
    <3>2. \A w \in 0..(i - 1) : Key(w) = c => w >= v
      BY <1>2, <1>3, <2>1
    <3> QED
      BY <1>1, <1>2, <1>3, <3>1, <3>2
  <2>2. CASE pc = "again"
    <3>1. hits = {w \in 0..(Len(list) - 1) : Key(w) = c /\ w <= answer.value}
            /\ answer.value \in 0..(Len(list) - 1)
      BY <2>2 DEF Searches, Searched
    <3>2. \A w \in 0..(i - 1) : Key(w) = c => (w <= v <=> (w <= answer.value \/ w = v))
      BY <1>2, <1>3, <2>2, <3>1
    <3> QED
      BY <1>1, <1>2, <1>3, <3>1, <3>2
  <2> QED
    BY <1>1, <2>1, <2>2
<1>8. Searched'
  BY <1>1, <1>2, <1>3, <1>6, <1>7 DEF Searched, tableVars
<1>9. Found'
  BY <1>1, <1>2, <1>6 DEF Found, tableVars
<1> QED
  BY <1>1, <1>3, <1>5, <1>6, <1>8, <1>9
     DEF Full, Walking, Searches, Seeking, Again, FindsAll, tableVars

LEMMA FollowInv == IInv /\ Follow => IInv'
<1> SUFFICES ASSUME IInv, Follow PROVE IInv'
  OBVIOUS
<1> USE DEF IInv
<1> DEFINE c == Code(hwid)
<1>1. /\ UNCHANGED <<tableVars, cursorVars, pc, queryVars>> /\ pc \in {"seek", "again"}
      /\ curi' = items[curi].next /\ items[curi].next > 0 /\ Used(curi)
      /\ items[curi].key # c
  BY OnWay DEF Follow, Here, Used
<1>2. c \in Codes /\ OnChain(curi, c)
  BY <1>1, OnWay
<1>3. /\ curi \in Of(c) /\ curi' \in Of(c) /\ curi' > curi
      /\ \A k \in Of(c) : k > curi => k >= curi'
  BY <1>1, <1>2, Successor
<1>4. Of(c) \subseteq DOMAIN items /\ Of(c) \subseteq Nat
  BY DEF Of, TypeOK
<1>5. TypeOK'
  BY <1>1, <1>3, <1>4 DEF TypeOK, tableVars, cursorVars, queryVars
<1>6. Stored' /\ Chained' /\ (\A d : Of(d)' = Of(d) /\ Home(d)' = Home(d))
        /\ (\A w : Key(w)' = Key(w))
  BY <1>1, SameTable
<1>7. \A j \in Of(c) : j < curi' => j = curi \/ j < curi
  BY <1>3, <1>4
<1>8. Seeking'
  BY <1>1, <1>2, <1>3, <1>4, <1>6, <1>7
     DEF Searches, Seeking, OnChain, tableVars, queryVars, Home, Of, Used
<1>9. Again'
  <2> SUFFICES ASSUME pc = "again" PROVE Again'
    BY <1>1 DEF Again
  <2>1. findstr = c /\ answer.value \in Nat
    BY DEF Searches, Searched
  <2>2. items[curi].value > answer.value
        /\ \A j \in Of(c) : j < curi /\ items[j].key = c => items[j].value <= answer.value
    BY <2>1 DEF Searches, Again
  <2>3. items[curi'].value > items[curi].value /\ items[curi].value \in Nat
        /\ items[curi'].value \in Nat
    BY <1>3, Ascending
  <2>4. items[curi'].value > answer.value
    BY <2>1, <2>2, <2>3
  <2>5. \A j \in Of(c) : j < curi' /\ items[j].key = c => items[j].value <= answer.value
    BY <1>1, <1>7, <2>2
  <2> QED
    BY <1>1, <1>3, <1>6, <2>1, <2>4, <2>5 DEF Again, tableVars, cursorVars, queryVars
<1> QED
  BY <1>1, <1>5, <1>6, <1>8, <1>9
     DEF Full, Walking, Searches, Found, Searched, FindsAll, tableVars, cursorVars, queryVars

LEMMA MissInv == IInv /\ Miss => IInv'
<1> SUFFICES ASSUME IInv, Miss PROVE IInv'
  OBVIOUS
<1> USE DEF IInv
<1> DEFINE c == Code(hwid)
<1>1. /\ UNCHANGED <<tableVars, cursorVars, curi, hwid, hits>> /\ answer' = None
      /\ pc' = "done" /\ pc \in {"seek", "found", "again"}
  BY DEF Miss
<1>2. i = Len(list) /\ \A w \in 0..(i - 1) :
        Key(w) = c => pc \in {"found", "again"} /\ w <= answer.value
  BY LastMiss
<1>3. TypeOK'
  BY <1>1 DEF TypeOK, tableVars, cursorVars, None
<1>4. Stored' /\ Chained' /\ (\A w : Key(w)' = Key(w))
  BY <1>1, SameTable
<1>5. hits = {w \in 0..(Len(list) - 1) : Key(w) = c}
  <2>1. CASE pc = "seek"
    BY <1>2, <2>1 DEF Searches, Seeking
  <2>2. CASE pc # "seek"
    BY <1>1, <1>2, <2>2 DEF Searches, Searched
  <2> QED
    BY <2>1, <2>2
<1>6. FindsAll'
  BY <1>1, <1>4, <1>5 DEF FindsAll, tableVars
<1> QED
  BY <1>1, <1>2, <1>3, <1>4, <1>6
     DEF Full, Walking, Searches, Seeking, Found, Again, Searched, tableVars

LEMMA FindNextInv == IInv /\ FindNext => IInv'
<1> SUFFICES ASSUME IInv, FindNext PROVE IInv'
  OBVIOUS
<1> USE DEF IInv
<1>1. /\ UNCHANGED <<tableVars, cursorVars, queryVars>> /\ pc = "found" /\ pc' = "again"
      /\ curi' = findnext_v /\ findnext_v > 0
  BY DEF FindNext
<1>2. /\ findstr = Code(hwid) /\ findstr \in Codes /\ curi \in Of(findstr)
      /\ items[curi].value = answer.value /\ curi' = items[curi].next
  BY <1>1, OnWay DEF Searches, Found, Searched
<1>3. OnChain(curi, findstr) /\ Used(curi) /\ items[curi].next > 0
  BY <1>1, <1>2 DEF OnChain, Of
<1>4. /\ curi' \in Of(findstr) /\ curi' > curi
      /\ \A k \in Of(findstr) : k > curi => k >= curi'
  BY <1>2, <1>3, Successor
<1>5. Of(findstr) \subseteq DOMAIN items /\ Of(findstr) \subseteq Nat
  BY DEF Of, TypeOK
<1>6. TypeOK'
  BY <1>1, <1>4, <1>5 DEF TypeOK, tableVars, cursorVars, queryVars
<1>7. Stored' /\ Chained' /\ (\A d : Of(d)' = Of(d)) /\ (\A w : Key(w)' = Key(w))
  BY <1>1, SameTable
<1>8. items[curi'].value > answer.value
  BY <1>2, <1>4, Ascending
<1>9. ASSUME NEW j \in Of(findstr), j < curi'
      PROVE  items[j].value <= answer.value
  <2>1. j = curi \/ j < curi
    BY <1>2, <1>4, <1>5, <1>9
  <2> QED
    BY <1>2, <2>1, Ascending
<1>10. Again'
  BY <1>1, <1>4, <1>7, <1>8, <1>9 DEF Again, tableVars, cursorVars, queryVars
<1> QED
  BY <1>1, <1>6, <1>7, <1>10
     DEF Full, Walking, Searches, Seeking, Found, Searched, FindsAll, tableVars, cursorVars,
         queryVars

LEMMA NextInv == IInv /\ [Next]_vars => IInv'
<1> SUFFICES ASSUME IInv, [Next]_vars PROVE IInv'
  OBVIOUS
<1>1. CASE UNCHANGED vars
  <2> USE DEF IInv
  <2>1. UNCHANGED <<tableVars, cursorVars, pc, curi, queryVars>>
    BY <1>1 DEF vars
  <2>2. TypeOK'
    BY <2>1 DEF TypeOK, tableVars, cursorVars, queryVars
  <2>3. Stored' /\ Chained'
    BY <2>1, SameTable
  <2>4. Full' /\ Walking' /\ FindsAll'
    BY <2>1 DEF Full, Walking, OnChain, Of, Used, Home, Key, Searches, FindsAll, tableVars,
         queryVars
  <2>5. Seeking' /\ Found' /\ Again' /\ Searched'
    BY <2>1 DEF Searches, Seeking, Found, Again, Searched, OnChain, Of, Used, Home, Key,
         tableVars, cursorVars, queryVars
  <2> QED
    BY <2>2, <2>3, <2>4, <2>5 DEF Searches
<1> QED
  BY <1>1, GenhashesInv, AddItemInv, WalkInv, FillInv, ChainInv, BuiltInv, LoadInv, FindInv,
     HitInv, FollowInv, MissInv, FindNextInv DEF Next, Loops

\* The chains of the table (Hashtable::additem) are complete and in the order of the
\* list, and a search (find, findnext) finds every position of its code
THEOREM TableInvariant == Spec => [](TypeOK /\ Stored /\ Chained /\ FindsAll)
<1>1. IInv => TypeOK /\ Stored /\ Chained /\ FindsAll
  BY DEF IInv, Searches
<1> QED
  BY <1>1, InitInv, NextInv, PTL DEF Spec
----------------------------------------------------------------------------
(* The refinement *)

Coded == [v \in 1..i |-> Code(list[v])]

LEMMA CodedIs == IInv => /\ Coded \in Seq(Codes) /\ Len(Coded) = i /\ i \in Nat
                         /\ \A v \in 0..(i - 1) : Coded[v + 1] = Key(v)
<1> SUFFICES ASSUME IInv PROVE /\ Coded \in Seq(Codes) /\ Len(Coded) = i /\ i \in Nat
                               /\ \A v \in 0..(i - 1) : Coded[v + 1] = Key(v)
  OBVIOUS
<1>1. i \in Nat /\ i <= Len(list)
  BY DEF IInv, TypeOK
<1>2. \A v \in 1..i : Code(list[v]) \in Codes
  BY <1>1 DEF IInv, TypeOK, Codes
<1>3. Coded \in [1..i -> Codes]
  BY <1>2 DEF Coded
<1>4. Coded \in Seq(Codes) /\ Len(Coded) = i
  BY <1>1, <1>3
<1>5. \A v \in 0..(i - 1) : Coded[v + 1] = Key(v)
  BY <1>1 DEF Coded, Key
<1> QED
  BY <1>1, <1>4, <1>5

\* The positions of a code, in the index and in the list
LEMMA PositionsAre ==
  ASSUME IInv, NEW c
  PROVE  Index!Positions(c) = {v \in 0..(i - 1) : Key(v) = c}
<1>1. Len(Coded) = i /\ \A v \in 0..(i - 1) : Coded[v + 1] = Key(v)
  BY CodedIs
<1> QED
  BY <1>1 DEF Index!Positions, Coded

LEMMA IndexInit == Init => Index!Init
  BY DEF Init, Index!Init, None, Index!None

\* A hit is what find or findnext of the index answers
LEMMA HitIsAnswer == IInv /\ Hit => Index!Next
<1> SUFFICES ASSUME IInv, Hit PROVE Index!Next
  OBVIOUS
<1> DEFINE c == Code(hwid)
           v == items[curi].value
           P == {w \in 0..(i - 1) : Key(w) = c}
<1>1. /\ UNCHANGED <<tableVars, curi, hwid>> /\ pc \in {"seek", "again"}
      /\ answer' = [isfound |-> TRUE, value |-> v] /\ c \in Codes
  BY OnWay DEF Hit
<1>2. /\ v \in 0..(i - 1) /\ Key(v) = c
      /\ (pc = "again" => answer.value < v)
      /\ \A w \in 0..(i - 1) : Key(w) = c /\ w < v => pc = "again" /\ w <= answer.value
  BY FirstHit
<1>3. UNCHANGED Coded /\ i \in Nat
  BY <1>1, CodedIs DEF Coded, tableVars
<1>4. Index!Positions(c) = P
  BY PositionsAre
<1>5. CASE pc = "seek"
  <2>1. ~answer.isfound
    BY <1>5 DEF IInv, Searches, Searched, None
  <2>2. v \in P /\ \A w \in P : v <= w
    BY <1>2, <1>3, <1>5
  <2>3. Index!Gives(P)
    BY <1>1, <2>2 DEF Index!Gives
  <2> QED
    BY <1>1, <1>3, <1>4, <2>1, <2>3 DEF Index!Next, Index!Find, Coded
<1>6. CASE pc = "again"
  <2>1. answer.isfound /\ answer.value \in 0..(i - 1) /\ Key(answer.value) = c
    BY <1>6 DEF IInv, Searches, Searched, Full
  <2>2. Coded[answer.value + 1] = c
    BY <2>1, CodedIs
  <2> DEFINE R == {w \in P : w > answer.value}
  <2>3. v \in R /\ \A w \in R : v <= w
    BY <1>2, <1>3, <1>6, <2>1
  <2>4. Index!Gives(R)
    BY <1>1, <2>3 DEF Index!Gives
  <2> QED
    BY <1>3, <1>4, <2>1, <2>2, <2>4 DEF Index!Next, Index!FindNext, Coded
<1> QED
  BY <1>1, <1>5, <1>6

LEMMA MissIsAnswer == IInv /\ Miss => Index!Next
<1> SUFFICES ASSUME IInv, Miss PROVE Index!Next
  OBVIOUS
<1> DEFINE c == Code(hwid)
           P == {w \in 0..(i - 1) : Key(w) = c}
<1>1. UNCHANGED tableVars /\ answer' = None /\ pc \in {"seek", "found", "again"}
  BY DEF Miss
<1>2. c \in Codes
  BY <1>1, OnWay
<1>3. \A w \in 0..(i - 1) : Key(w) = c => pc \in {"found", "again"} /\ w <= answer.value
  BY LastMiss
<1>4. UNCHANGED Coded /\ i \in Nat
  BY <1>1, CodedIs DEF Coded, tableVars
<1>5. Index!Positions(c) = P
  BY PositionsAre
<1>6. Index!Gives({})
  BY <1>1 DEF Index!Gives, Index!None, None
<1>7. CASE pc = "seek"
  <2>1. ~answer.isfound
    BY <1>7 DEF IInv, Searches, Searched, None
  <2>2. P = {}
    BY <1>3, <1>7
  <2> QED
    BY <1>2, <1>4, <1>5, <1>6, <2>1, <2>2 DEF Index!Next, Index!Find, Coded
<1>8. CASE pc # "seek"
  <2>1. answer.isfound /\ answer.value \in 0..(i - 1) /\ Key(answer.value) = c
    BY <1>1, <1>8 DEF IInv, Searches, Searched, Full
  <2>2. Coded[answer.value + 1] = c
    BY <2>1, CodedIs
  <2>3. {w \in P : w > answer.value} = {}
    BY <1>3, <1>4, <2>1
  <2> QED
    BY <1>4, <1>5, <1>6, <2>1, <2>2, <2>3 DEF Index!Next, Index!FindNext, Coded
<1> QED
  BY <1>7, <1>8

\* An id is added when its item is linked
LEMMA AddedIsAdded == IInv /\ (Fill \/ Chain) => Index!Next
<1> SUFFICES ASSUME IInv, Fill \/ Chain PROVE Index!Next
  OBVIOUS
<1>1. pc = "walk" /\ i' = i + 1 /\ list' = list /\ answer' = answer
  BY DEF Fill, Chain, queryVars
<1>2. i \in 0..(Len(list) - 1) /\ i \in Nat /\ Key(i) \in Codes
  BY <1>1, KeyType DEF IInv, Walking, TypeOK
<1>3. Coded' = Append(Coded, Key(i))
  <2> DEFINE k == Code(list[i + 1])
             C == [v \in 1..i |-> Code(list[v])]
             D == [v \in 1..(i + 1) |-> Code(list[v])]
  <2>1. C \in Seq(Codes) /\ Len(C) = i /\ k \in Codes
    BY <1>2, CodedIs DEF Coded, Key
  <2>2. Coded' = D
    BY <1>1 DEF Coded
  <2>3. \A v \in 1..i : D[v] = C[v]
    BY <1>2
  <2>4. D[i + 1] = k
    BY <1>2
  <2>5. D \in Seq(Codes) /\ Len(D) = i + 1
    <3>1. \A v \in 1..(i + 1) : Code(list[v]) \in Codes
      BY <1>2, SMTT(30) DEF IInv, TypeOK, Codes
    <3> QED
      BY <1>2, <3>1, IsASeq
  <2> HIDE DEF C, D, k
  <2>6. /\ Append(C, k) \in Seq(Codes) /\ Len(Append(C, k)) = i + 1
        /\ \A v \in 1..i : Append(C, k)[v] = C[v]
        /\ Append(C, k)[i + 1] = k
    BY <2>1, AppendProperties
  <2>7. ASSUME NEW v \in 1..(i + 1) PROVE Append(C, k)[v] = D[v]
    <3>1. CASE v = i + 1
      BY <3>1, <2>4, <2>6
    <3>2. CASE v # i + 1
      <4>1. v \in 1..i
        BY <1>2, <3>2
      <4> QED
        BY <4>1, <2>3, <2>6
    <3> QED
      BY <3>1, <3>2
  <2>8. Append(C, k) = D
    BY <2>5, <2>6, <2>7, SeqEqual
  <2> QED
    BY <2>2, <2>8 DEF Coded, Key, C, k
<1>4. ~answer.isfound
  BY <1>1 DEF IInv, Searches, Searched, None
<1> QED
  BY <1>1, <1>2, <1>3, <1>4 DEF Index!Next, Index!Add, Coded

LEMMA IndexNext == IInv /\ [Next]_vars => [Index!Next]_(Index!vars)
<1> SUFFICES ASSUME IInv, [Next]_vars PROVE Index!Next \/ UNCHANGED Index!vars
  OBVIOUS
<1>1. CASE Genhashes
  <2>1. answer' = answer /\ ~answer.isfound /\ i' = 0
    BY <1>1 DEF Genhashes, queryVars, IInv, Searches, Searched, None
  <2>2. Coded' = <<>>
    BY <2>1 DEF Coded
  <2> QED
    BY <2>1, <2>2 DEF Index!Next, Index!Clear, Coded
<1>2. CASE Fill \/ Chain
  BY <1>2, AddedIsAdded
<1>3. CASE Hit \/ Miss
  BY <1>3, HitIsAnswer, MissIsAnswer
<1>4. CASE AddItem \/ Walk \/ Built \/ Load \/ Find \/ Follow \/ FindNext \/ UNCHANGED vars
  <2>1. UNCHANGED <<tableVars, answer>>
    BY <1>4 DEF AddItem, Walk, Built, Load, Find, Follow, FindNext, vars, queryVars
  <2> QED
    BY <2>1 DEF Index!vars, tableVars
<1> QED
  BY <1>1, <1>2, <1>3, <1>4 DEF Next, Loops

\* The table of SDI.cpp is the index findHWIDs takes it for: find gives the first
\* position of a code, findnext each following one, in the order of the list
THEOREM TableImplementsIndex == Spec => ImplementsIndex
  BY InitInv, NextInv, IndexInit, IndexNext, PTL DEF Spec, ImplementsIndex, Index!Spec

=============================================================================
