------------------------ MODULE InstallerListProofs ------------------------
(***************************************************************************)
(* What the driver list keeps, for any number of rows, drivers, scans and  *)
(* clicks: restorepos gives each driver its own state back, the selection  *)
(* can be installed and is one per device; and, in a session with one      *)
(* installation thread whose scans find the same rows, the results are     *)
(* those of the drivers they are shown on.                                 *)
(***************************************************************************)
EXTENDS InstallerProofs, NaturalsInduction, WellFoundedInduction

----------------------------------------------------------------------------
(* Loops over a list, as recursive functions *)

\* The least number principle, for sets
LEMMA Least ==
  ASSUME NEW S, S \subseteq Nat, S # {}
  PROVE  \E n \in S : \A k \in S : n <= k
<1>1. PICK n \in S : \A k \in S : ~(<<k, n>> \in OpToRel(<, Nat))
  BY WFMin, NatLessThanWellFounded, Zenon
<1>2. ASSUME NEW a \in Nat, NEW b \in Nat, a < b PROVE <<a, b>> \in OpToRel(<, Nat)
  BY <1>2 DEF OpToRel
<1>3. ASSUME NEW k \in S PROVE n <= k
  <2>1. k \in Nat /\ n \in Nat
    OBVIOUS
  <2>2. ~(k < n)
    BY <1>1, <1>2, <2>1
  <2> QED
    BY <2>1, <2>2
<1> QED
  BY <1>3

\* A loop over 1..N that starts with a and whose turn i makes g[i, s] of the state s
IsLoop(f, N, S, a, g) ==
  f \in [0..N -> S] /\ f[0] = a /\ \A i \in 1..N : f[i] = g[<<i, f[i - 1]>>]

IsTurn(g, N, S) == g \in [(1..N) \X S -> S]

LEMMA LoopExists ==
  ASSUME NEW N \in Nat, NEW S, NEW a \in S, NEW g, IsTurn(g, N, S)
  PROVE  \E f : IsLoop(f, N, S, a, g)
<1> USE DEF IsLoop, IsTurn
<1> DEFINE Run(n, f) == f \in [0..n -> S] /\ f[0] = a /\ \A i \in 1..n : f[i] = g[<<i, f[i - 1]>>]
           Bad == {n \in 0..N : ~\E f : Run(n, f)}
<1>1. Bad = {}
  <2> SUFFICES ASSUME Bad # {} PROVE FALSE
    OBVIOUS
  <2>1. PICK n \in Bad : \A k \in Bad : n <= k
    <3>1. Bad \subseteq Nat
      OBVIOUS
    <3> HIDE DEF Bad
    <3> QED
      BY <3>1, Least
  <2>2. n \in 0..N
    OBVIOUS
  <2>3. CASE n = 0
    <3>1. Run(0, [i \in 0..0 |-> a])
      OBVIOUS
    <3> QED
      BY <2>3, <3>1
  <2>4. CASE n # 0
    <3>1. n - 1 \in 0..N /\ n - 1 \notin Bad
      <4>1. n - 1 \in 0..N /\ ~(n <= n - 1)
        BY <2>2, <2>4
      <4> HIDE DEF Bad
      <4> QED
        BY <2>1, <4>1
    <3>2. PICK f : Run(n - 1, f)
      BY <3>1
    <3>3. n \in 1..N /\ f[n - 1] \in S
      BY <2>2, <2>4, <3>2
    <3>4. g[<<n, f[n - 1]>>] \in S
      BY <3>3
    <3> DEFINE h == [i \in 0..n |-> IF i = n THEN g[<<n, f[n - 1]>>] ELSE f[i]]
    <3>5. h \in [0..n -> S]
      BY <2>2, <3>2, <3>4
    <3>6. h[0] = a
      BY <2>2, <2>4, <3>2
    <3>7. ASSUME NEW i \in 1..n PROVE h[i] = g[<<i, h[i - 1]>>]
      <4>1. h[i - 1] = f[i - 1]
        BY <2>2
      <4>2. CASE i = n
        BY <2>2, <4>1, <4>2, SMTT(30)
      <4>3. CASE i # n
        <5>1. i \in 1..(n - 1) /\ h[i] = f[i]
          BY <2>2, <4>3
        <5> QED
          BY <3>2, <4>1, <5>1
      <4> QED
        BY <4>2, <4>3
    <3>8. Run(n, h)
      <4> HIDE DEF h
      <4> QED
        BY <3>5, <3>6, <3>7
    <3> HIDE DEF h
    <3> QED
      BY <3>8
  <2> QED
    BY <2>3, <2>4
<1>2. N \notin Bad
  BY <1>1
<1> QED
  BY <1>2

\* Two functions that start alike and stay alike in each turn are alike
StayAlike(f, h, N) == f[0] = h[0] /\ \A i \in 1..N : f[i - 1] = h[i - 1] => f[i] = h[i]

LEMMA LoopUnique ==
  ASSUME NEW N \in Nat, NEW f, NEW h, StayAlike(f, h, N)
  PROVE  \A i \in 0..N : f[i] = h[i]
<1> USE DEF StayAlike
<1> DEFINE Bad == {n \in 0..N : f[n] # h[n]}
<1>1. Bad = {}
  <2> SUFFICES ASSUME Bad # {} PROVE FALSE
    OBVIOUS
  <2>1. PICK n \in Bad : \A k \in Bad : n <= k
    <3>1. Bad \subseteq Nat
      OBVIOUS
    <3> HIDE DEF Bad
    <3> QED
      BY <3>1, Least
  <2>2. n \in 1..N /\ n - 1 \in 0..N /\ n - 1 \notin Bad
    BY <2>1
  <2> QED
    BY <2>2
<1> QED
  BY <1>1

----------------------------------------------------------------------------
(* restorepos: which old row each new row takes *)

\* The old rows that are the same item as a new one and that none of the earlier rows took
FreeFor(item, old, before) ==
  {j \in DOMAIN old : SameItem(item, old[j]) /\ \A h \in DOMAIN before : before[h] # j}

\* j is the first row of S, or 0 when there is none
FirstOf(j, S) == IF S = {} THEN j = 0 ELSE j \in S /\ \A h \in S : j <= h

LEMMA FirstFreeIs ==
  ASSUME NEW old \in Seq(Row), NEW item, NEW before
  PROVE  /\ FirstOf(FirstFree(item, old, before), FreeFor(item, old, before))
         /\ FirstFree(item, old, before) \in Nat
<1> DEFINE free == FreeFor(item, old, before)
<1>1. FirstFree(item, old, before)
        = IF free = {} THEN 0 ELSE CHOOSE j \in free : \A h \in free : j <= h
  BY DEF FirstFree, FreeFor
<1>2. free \subseteq Nat
  BY DEF FreeFor
<1> HIDE DEF free
<1>3. free # {} => \E j \in free : \A h \in free : j <= h
  BY <1>2, Least
<1>4. FirstOf(FirstFree(item, old, before), free)
  BY <1>1, <1>3 DEF FirstOf
<1> QED
  BY <1>2, <1>4 DEF FirstOf, free

\* Source is the loop over the new rows: each takes the first row that is the same item
\* and that no earlier one took
LEMMA SourceLoop ==
  ASSUME NEW new \in Seq(Row), NEW old \in Seq(Row)
  PROVE  /\ Source(new, old) \in Seq(Nat) /\ Len(Source(new, old)) = Len(new)
         /\ \A k \in DOMAIN new :
              FirstOf(Source(new, old)[k],
                      FreeFor(new[k], old, SubSeq(Source(new, old), 1, k - 1)))
<1> DEFINE N == Len(new)
           Turn(i, before) == Append(before, FirstFree(new[i], old, before))
           g == [x \in (1..N) \X Seq(Nat) |-> Turn(x[1], x[2])]
           Rec(f) == [i \in 0..Len(new) |->
                        IF i = 0 THEN <<>>
                        ELSE Sole({Append(before, FirstFree(new[i], old, before)) :
                                     before \in {f[i - 1]}})]
           taken == CHOOSE f : f = Rec(f)
<1>0. N \in Nat /\ DOMAIN new = 1..N /\ DOMAIN old \subseteq Nat
  OBVIOUS
<1>2. ASSUME NEW item, NEW before \in Seq(Nat)
      PROVE  FirstFree(item, old, before) \in Nat
  BY FirstFreeIs
<1>3. g \in [(1..N) \X Seq(Nat) -> Seq(Nat)]
  <2> SUFFICES ASSUME NEW i \in 1..N, NEW before \in Seq(Nat) PROVE Turn(i, before) \in Seq(Nat)
    OBVIOUS
  <2> QED
    BY <1>2
<1>4. PICK f \in [0..N -> Seq(Nat)] : f[0] = <<>> /\ \A i \in 1..N : f[i] = g[<<i, f[i - 1]>>]
  <2>1. <<>> \in Seq(Nat)
    OBVIOUS
  <2>2. IsTurn(g, N, Seq(Nat))
    BY <1>3 DEF IsTurn
  <2> HIDE DEF g, N, Rec, Turn
  <2>3. \E f : IsLoop(f, N, Seq(Nat), <<>>, g)
    BY <1>0, <2>1, <2>2, LoopExists
  <2> QED
    BY <2>3 DEF IsLoop
<1>5. \A i \in 1..N : f[i] = Turn(i, f[i - 1])
  <2> SUFFICES ASSUME NEW i \in 1..N PROVE f[i] = Turn(i, f[i - 1])
    OBVIOUS
  <2>1. f[i - 1] \in Seq(Nat)
    OBVIOUS
  <2> QED
    BY <1>4, <2>1
<1>s. \A x : Sole({x}) = x
  BY DEF Sole
<1>6. f = Rec(f)
  <2>1. \A i \in 0..N : f[i] = Rec(f)[i]
    <3> SUFFICES ASSUME NEW i \in 0..N PROVE f[i] = Rec(f)[i]
      OBVIOUS
    <3>1. CASE i = 0
      BY <1>4, <3>1
    <3>2. CASE i # 0
      <4>1. f[i] = Turn(i, f[i - 1])
        BY <1>5, <3>2
      <4>2. {Append(before, FirstFree(new[i], old, before)) : before \in {f[i - 1]}}
              = {Turn(i, f[i - 1])}
        OBVIOUS
      <4>3. Rec(f)[i] = Sole({Turn(i, f[i - 1])})
        BY <3>2, <4>2
      <4> QED
        BY <1>s, <4>1, <4>3
    <3> QED
      BY <3>1, <3>2
  <2>2. Rec(f) = [i \in 0..N |-> Rec(f)[i]]
    OBVIOUS
  <2>3. f = [i \in 0..N |-> f[i]]
    OBVIOUS
  <2> HIDE DEF Rec
  <2> QED
    BY <2>1, <2>2, <2>3
<1>7. taken = Rec(taken)
  <2> HIDE DEF Rec
  <2> QED
    BY <1>6
<1>8. Source(new, old) = taken[N]
  BY DEF Source
<1>9. \A i \in 0..N : taken[i] = f[i]
  <2>1. ASSUME NEW i \in 0..N
        PROVE  /\ i = 0 => taken[i] = <<>>
               /\ i # 0 => taken[i] = Turn(i, taken[i - 1])
    <3> DEFINE r == Rec(taken)
    <3>1. taken[i] = r[i]
      <4> HIDE DEF Rec, taken
      <4> QED
        BY <1>7
    <3> HIDE DEF taken
    <3>2. {Append(before, FirstFree(new[i], old, before)) : before \in {taken[i - 1]}}
            = {Turn(i, taken[i - 1])}
      OBVIOUS
    <3>3. i # 0 => r[i] = Sole({Turn(i, taken[i - 1])})
      BY <3>2
    <3> QED
      BY <1>s, <3>1, <3>3
  <2> HIDE DEF taken, Turn, Rec, g
  <2>2. taken[0] = f[0]
    BY <1>0, <1>4, <2>1
  <2>3. ASSUME NEW i \in 1..N, taken[i - 1] = f[i - 1] PROVE taken[i] = f[i]
    BY <1>5, <2>1, <2>3
  <2>4. StayAlike(taken, f, N)
    BY <2>2, <2>3 DEF StayAlike
  <2> QED
    BY <1>0, <2>4, LoopUnique
<1> HIDE DEF taken, Turn, Rec, g
<1>10. \A i \in 0..N : Len(f[i]) = i
  <2> DEFINE F == [i \in 0..N |-> Len(f[i])]
             H == [i \in 0..N |-> i]
  <2>1. F[0] = H[0]
    BY <1>0, <1>4
  <2>2. ASSUME NEW i \in 1..N, F[i - 1] = H[i - 1] PROVE F[i] = H[i]
    <3>1. f[i - 1] \in Seq(Nat) /\ FirstFree(new[i], old, f[i - 1]) \in Nat
      <4>1. i - 1 \in 0..N
        BY <1>0
      <4>2. f[i - 1] \in Seq(Nat)
        BY <1>4, <4>1
      <4> QED
        BY <1>2, <4>2
    <3>2. Len(f[i]) = Len(f[i - 1]) + 1
      BY <1>5, <3>1 DEF Turn
    <3> QED
      BY <2>2, <3>2
  <2>3. \A i \in 0..N : F[i] = H[i]
    <3> HIDE DEF F, H
    <3>1. StayAlike(F, H, N)
      BY <2>1, <2>2 DEF StayAlike
    <3> QED
      BY <1>0, <3>1, LoopUnique
  <2> QED
    BY <2>3
<1>11. ASSUME NEW k \in 0..N PROVE \A i \in k..N : SubSeq(f[i], 1, k) = f[k]
  <2> DEFINE F == [i \in 0..N |-> IF i <= k THEN f[k] ELSE SubSeq(f[i], 1, k)]
             H == [i \in 0..N |-> f[k]]
  <2>1. F[0] = H[0]
    BY <1>0
  <2>2. ASSUME NEW i \in 1..N, F[i - 1] = H[i - 1] PROVE F[i] = H[i]
    <3>0. i \in 0..N /\ i - 1 \in 0..N
      BY <1>0
    <3>1. f[i - 1] \in Seq(Nat) /\ f[i] \in Seq(Nat) /\ f[k] \in Seq(Nat)
      BY <1>4, <3>0
    <3>2. FirstFree(new[i], old, f[i - 1]) \in Nat /\ Len(f[i - 1]) = i - 1 /\ Len(f[k]) = k
      BY <1>2, <1>10, <3>0, <3>1
    <3>3. f[i] = Append(f[i - 1], FirstFree(new[i], old, f[i - 1]))
      BY <1>5 DEF Turn
    <3>4. CASE i <= k
      BY <3>4
    <3>5. CASE i > k
      <4>1. SubSeq(f[i], 1, k) = SubSeq(f[i - 1], 1, k)
        BY <1>0, <3>1, <3>2, <3>3, <3>5
      <4>2. SubSeq(f[i - 1], 1, k) = f[k]
        <5>1. CASE i - 1 = k
          BY <3>1, <3>2, <5>1
        <5>2. CASE i - 1 > k
          BY <1>0, <2>2, <3>0, <5>2
        <5> QED
          BY <1>0, <3>5, <5>1, <5>2
      <4> QED
        BY <1>0, <3>0, <3>5, <4>1, <4>2
    <3> QED
      BY <1>0, <3>4, <3>5
  <2>3. \A i \in 0..N : F[i] = H[i]
    <3> HIDE DEF F, H
    <3>1. StayAlike(F, H, N)
      BY <2>1, <2>2 DEF StayAlike
    <3> QED
      BY <1>0, <3>1, LoopUnique
  <2>4. ASSUME NEW i \in k..N PROVE SubSeq(f[i], 1, k) = f[k]
    <3>1. CASE i = k
      <4>1. f[k] \in Seq(Nat) /\ Len(f[k]) = k
        BY <1>10
      <4> QED
        BY <3>1, <4>1
    <3>2. CASE i # k
      BY <1>0, <2>3, <3>2
    <3> QED
      BY <3>1, <3>2
  <2> QED
    BY <2>4
<1> DEFINE src == f[N]
<1>12. Source(new, old) = src /\ src \in Seq(Nat) /\ Len(src) = N
  BY <1>0, <1>8, <1>9, <1>10
<1>13. ASSUME NEW k \in DOMAIN new
       PROVE  FirstOf(src[k], FreeFor(new[k], old, SubSeq(src, 1, k - 1)))
  <2>1. k \in 1..N /\ k \in 0..N /\ k - 1 \in 0..N
    BY <1>0
  <2>2. SubSeq(src, 1, k) = f[k] /\ SubSeq(src, 1, k - 1) = f[k - 1]
    <3>1. N \in k..N /\ N \in (k - 1)..N
      BY <1>0, <2>1
    <3> QED
      BY <1>11, <2>1, <3>1
  <2>3. f[k] = Append(f[k - 1], FirstFree(new[k], old, f[k - 1]))
    BY <1>5, <2>1 DEF Turn
  <2>4. f[k][k] = FirstFree(new[k], old, f[k - 1])
    <3>1. f[k - 1] \in Seq(Nat) /\ FirstFree(new[k], old, f[k - 1]) \in Nat /\ Len(f[k - 1]) = k - 1
      BY <1>2, <1>10, <2>1
    <3> QED
      BY <2>1, <2>3, <3>1
  <2>5. f[k][k] = src[k]
    <3> HIDE DEF src
    <3>1. SubSeq(src, 1, k)[k] = src[k]
      BY <1>12, <2>1
    <3> QED
      BY <2>2, <3>1
  <2> HIDE DEF src
  <2> QED
    BY <2>2, <2>4, <2>5, FirstFreeIs
<1> HIDE DEF src
<1> QED
  BY <1>0, <1>12, <1>13

----------------------------------------------------------------------------
(* Lists in which an item can be told from another *)

LEMMA OneNameRow ==
  ASSUME NEW rs, Regular(rs), NEW j \in DOMAIN rs, NEW k \in DOMAIN rs,
         rs[j].match = rs[k].match, rs[j].match # NoMatch, rs[j].name, rs[k].name
  PROVE  j = k
BY DEF Regular

LEMMA OneDriverRow ==
  ASSUME NEW rs, Regular(rs), NEW j \in DOMAIN rs, NEW k \in DOMAIN rs,
         rs[j].match = rs[k].match, rs[j].match # NoMatch, ~rs[j].name, ~rs[k].name
  PROVE  j = k
BY DEF Regular

\* What itembar_cmp says of rows of such lists
LEMMA SameItemIs ==
  ASSUME Distinct, NEW a \in Row, NEW b \in Row
  PROVE  SameItem(a, b) <=> IF a.match # NoMatch /\ b.match # NoMatch THEN a.match = b.match
                            ELSE Label[a.dev] # "" /\ Label[a.dev] = Label[b.dev]
<1>1. a.match \in Matches \cup {NoMatch} /\ b.match \in Matches \cup {NoMatch}
  BY DEF Row
<1> QED
  BY <1>1 DEF SameItem, Distinct

\* The row a driver takes is not taken by another one
LEMMA NotTaken ==
  ASSUME Distinct, NEW new \in Seq(Row), NEW old \in Seq(Row),
         Regular(new), OneDevice(new, new), OneDevice(new, old),
         NEW h \in DOMAIN new, NEW k \in DOMAIN new, NEW j \in DOMAIN old,
         new[k].match = old[j].match, new[k].match # NoMatch, SameItem(new[h], old[j])
  PROVE  new[h].match = new[k].match
<1>1. new[h] \in Row /\ old[j] \in Row
  OBVIOUS
<1>2. CASE new[h].match # NoMatch
  BY <1>1, <1>2, SameItemIs
<1>3. CASE new[h].match = NoMatch
  <2>1. Label[new[h].dev] # "" /\ Label[new[h].dev] = Label[old[j].dev]
    BY <1>1, <1>3, SameItemIs
  <2>2. new[k].dev = old[j].dev
    BY DEF OneDevice
  <2>3. h # k
    BY <1>3
  <2> QED
    BY <1>3, <2>1, <2>2, <2>3 DEF Regular
<1> QED
  BY <1>2, <1>3

\* A row takes the first same item that no earlier row took
LEMMA Takes ==
  ASSUME NEW new \in Seq(Row), NEW old \in Seq(Row), NEW k \in DOMAIN new
  PROVE  /\ Source(new, old)[k] \in DOMAIN old =>
              /\ SameItem(new[k], old[Source(new, old)[k]])
              /\ \A h \in DOMAIN new : h < k => Source(new, old)[h] # Source(new, old)[k]
         /\ \A x \in DOMAIN old :
              SameItem(new[k], old[x]) /\ (\A h \in DOMAIN new : h < k => Source(new, old)[h] # x)
                => Source(new, old)[k] \in DOMAIN old /\ Source(new, old)[k] <= x
<1> DEFINE src == Source(new, old)
           before == SubSeq(src, 1, k - 1)
<1>1. src \in Seq(Nat) /\ Len(src) = Len(new) /\ FirstOf(src[k], FreeFor(new[k], old, before))
  BY SourceLoop
<1> HIDE DEF src
<1>2. DOMAIN new = 1..Len(new) /\ Len(new) \in Nat /\ 0 \notin DOMAIN old
  OBVIOUS
<1>3. ASSUME NEW x
      PROVE  x \in FreeFor(new[k], old, before)
               <=> /\ x \in DOMAIN old /\ SameItem(new[k], old[x])
                   /\ \A h \in DOMAIN new : h < k => src[h] # x
  <2>1. DOMAIN before = 1..(k - 1) /\ \A h \in 1..(k - 1) : before[h] = src[h]
    BY <1>1, <1>2
  <2> HIDE DEF before
  <2>2. (\A h \in DOMAIN before : before[h] # x) <=> \A h \in DOMAIN new : h < k => src[h] # x
    BY <1>2, <2>1
  <2> QED
    BY <2>2 DEF FreeFor
<1> HIDE DEF before
<1>4. src[k] \in DOMAIN old => src[k] \in FreeFor(new[k], old, before)
  BY <1>1, <1>2 DEF FirstOf
<1>5. ASSUME NEW x \in FreeFor(new[k], old, before)
      PROVE  src[k] \in FreeFor(new[k], old, before) /\ src[k] <= x
  BY <1>1 DEF FirstOf
<1> QED
  BY <1>3, <1>4, <1>5 DEF src

\* restorepos gives the rows of a driver their own old rows
LEMMA SourceOfDriver ==
  ASSUME Distinct, NEW new \in Seq(Row), NEW old \in Seq(Row), Regular(new), Regular(old),
         OneDevice(new, new), OneDevice(old, old), OneDevice(new, old),
         NEW k \in DOMAIN new, NEW j \in DOMAIN old,
         new[k].match = old[j].match, new[k].match # NoMatch,
         (new[k].name /\ old[j].name) \/ (~new[k].name /\ ~old[j].name)
  PROVE  Source(new, old)[k] = j
<1> DEFINE src == Source(new, old)
<1>1. ASSUME NEW i \in DOMAIN new
      PROVE  /\ src[i] \in DOMAIN old =>
                  SameItem(new[i], old[src[i]]) /\ \A h \in DOMAIN new : h < i => src[h] # src[i]
             /\ \A x \in DOMAIN old :
                  SameItem(new[i], old[x]) /\ (\A h \in DOMAIN new : h < i => src[h] # x)
                    => src[i] \in DOMAIN old /\ src[i] <= x
  BY Takes
<1> SUFFICES src[k] = j
  OBVIOUS
<1> HIDE DEF src
<1>2. DOMAIN new \subseteq Nat /\ DOMAIN old \subseteq Nat
  OBVIOUS
<1>5. \A x \in DOMAIN old : old[x] \in Row
  OBVIOUS
<1>6. \A x \in DOMAIN new : new[x] \in Row
  OBVIOUS
\* What is the same item as a row of the driver is a row of the driver
<1>7. ASSUME NEW i \in DOMAIN new, new[i].match = new[k].match,
             NEW x \in DOMAIN old, SameItem(new[i], old[x])
      PROVE  old[x].match = new[k].match
  <2>1. CASE old[x].match # NoMatch
    BY <1>5, <1>6, <1>7, <2>1, SameItemIs
  <2>2. CASE old[x].match = NoMatch
    <3>1. Label[new[i].dev] # "" /\ Label[new[i].dev] = Label[old[x].dev]
      BY <1>5, <1>6, <1>7, <2>2, SameItemIs
    <3>2. new[i].dev = old[j].dev
      BY <1>7 DEF OneDevice
    <3>3. x # j
      BY <2>2
    <3> QED
      BY <2>2, <3>1, <3>2, <3>3, ZenonT(60) DEF Regular
  <2> QED
    BY <2>1, <2>2
\* The row with the name of the pack takes the old one, which is the first of the driver's
<1>8. ASSUME NEW q \in DOMAIN new, NEW p \in DOMAIN old, new[q].match = new[k].match,
             old[p].match = new[k].match, new[q].name, old[p].name
      PROVE  src[q] = p
  <2>1. ASSUME NEW h \in DOMAIN new, h < q, src[h] = p PROVE FALSE
    <3>1. new[h].match = new[q].match
      BY <1>1, <1>8, <2>1, NotTaken
    <3>2. CASE new[h].name
      <4>1. h = q
        BY <1>8, <3>1, <3>2, OneNameRow
      <4> QED
        BY <1>2, <2>1, <4>1
    <3>3. CASE ~new[h].name
      <4>1. PICK g \in DOMAIN new : g < h /\ new[g].match = new[h].match /\ new[g].name
        BY <1>8, <3>1, <3>3 DEF Regular
      <4>2. g = q
        BY <1>8, <3>1, <4>1, OneNameRow
      <4> QED
        BY <1>2, <2>1, <4>1, <4>2
    <3> QED
      BY <3>2, <3>3
  <2>2. SameItem(new[q], old[p])
    BY <1>5, <1>6, <1>8, SameItemIs
  <2>4. src[q] \in DOMAIN old /\ src[q] <= p
    BY <1>1, <2>1, <2>2
  <2>5. old[src[q]].match = new[k].match
    BY <1>1, <1>7, <1>8, <2>4
  <2>6. CASE old[src[q]].name
    BY <1>8, <2>4, <2>5, <2>6, OneNameRow
  <2>7. CASE ~old[src[q]].name
    <3>1. PICK g \in DOMAIN old : g < src[q] /\ old[g].match = old[src[q]].match /\ old[g].name
      BY <2>4, <2>5, <2>7 DEF Regular
    <3>2. g = p
      BY <1>8, <2>5, <3>1, OneNameRow
    <3> QED
      BY <1>2, <2>4, <2>5, <3>1, <3>2
  <2> QED
    BY <2>6, <2>7
<1>9. CASE new[k].name /\ old[j].name
  BY <1>8, <1>9
\* The driver's row finds that one taken and takes the other
<1>10. CASE ~new[k].name /\ ~old[j].name
  <2>1. PICK q \in DOMAIN new : q < k /\ new[q].match = new[k].match /\ new[q].name
    BY <1>10 DEF Regular
  <2>2. PICK p \in DOMAIN old : p < j /\ old[p].match = old[j].match /\ old[p].name
    BY <1>10 DEF Regular
  <2>3. src[q] = p
    BY <1>8, <2>1, <2>2
  <2>4. ASSUME NEW h \in DOMAIN new, h < k, src[h] = j PROVE FALSE
    <3>1. new[h].match = new[k].match
      BY <1>1, <2>4, NotTaken
    <3>2. CASE new[h].name
      <4>1. h = q
        BY <2>1, <3>1, <3>2, OneNameRow
      <4> QED
        BY <1>2, <2>2, <2>3, <2>4, <4>1
    <3>3. CASE ~new[h].name
      <4>1. h = k
        BY <1>10, <3>1, <3>3, OneDriverRow
      <4> QED
        BY <1>2, <2>4, <4>1
    <3> QED
      BY <3>2, <3>3
  <2>5. SameItem(new[k], old[j])
    BY <1>5, <1>6, SameItemIs
  <2>7. src[k] \in DOMAIN old
    BY <1>1, <2>4, <2>5
  <2>8. old[src[k]].match = new[k].match /\ src[k] # p
    BY <1>1, <1>7, <2>1, <2>3, <2>7
  <2>9. ~old[src[k]].name
    BY <2>2, <2>7, <2>8, OneNameRow
  <2> QED
    BY <1>10, <2>7, <2>8, <2>9, OneDriverRow
<1> QED
  BY <1>9, <1>10

\* What a row takes is the same item, and never a driver's row for another driver, nor for
\* a device that has none: a selection goes to the same driver or nowhere
LEMMA SourceOfSelected ==
  ASSUME Distinct, NEW new \in Seq(Row), NEW old \in Seq(Row), Regular(new), Regular(old),
         OneDevice(new, new), OneDevice(old, old), OneDevice(new, old),
         NEW k \in DOMAIN new, NEW j \in DOMAIN old, Source(new, old)[k] = j,
         old[j].match # NoMatch, ~old[j].name
  PROVE  new[k].match = old[j].match /\ ~new[k].name
<1>1. SameItem(new[k], old[j])
  BY Takes
<1>2. \A x \in DOMAIN old : old[x] \in Row
  OBVIOUS
<1>3. \A x \in DOMAIN new : new[x] \in Row
  OBVIOUS
<1>4. PICK p \in DOMAIN old : p < j /\ old[p].match = old[j].match /\ old[p].name
  BY DEF Regular
<1>5. p # j /\ ~(j <= p)
  BY <1>4
<1>6. CASE new[k].match # NoMatch
  <2>1. new[k].match = old[j].match
    BY <1>1, <1>2, <1>3, <1>6, SameItemIs
  <2>2. CASE new[k].name
    BY <1>4, <1>5, <1>6, <2>1, <2>2, SourceOfDriver
  <2> QED
    BY <2>1, <2>2
<1>7. CASE new[k].match = NoMatch
  <2>1. Label[new[k].dev] # "" /\ Label[new[k].dev] = Label[old[j].dev]
    BY <1>1, <1>2, <1>3, <1>7, SameItemIs
  <2>2. old[p].dev = old[j].dev
    BY <1>4 DEF OneDevice
  <2>3. SameItem(new[k], old[p])
    BY <1>2, <1>3, <1>7, <2>1, <2>2, SameItemIs
  <2>4. PICK h \in DOMAIN new : h < k /\ Source(new, old)[h] = p
    BY <1>4, <1>5, <2>3, Takes
  <2>5. SameItem(new[h], old[p]) /\ h # k
    BY <2>4, Takes
  <2>6. Label[new[h].dev] = Label[new[k].dev]
    <3>1. CASE new[h].match # NoMatch
      <4>1. new[h].match = old[p].match
        BY <1>2, <1>3, <1>4, <2>5, <3>1, SameItemIs
      <4>2. new[h].dev = old[p].dev
        BY <3>1, <4>1 DEF OneDevice
      <4> QED
        BY <2>1, <2>2, <4>2
    <3>2. CASE new[h].match = NoMatch
      <4>1. Label[new[h].dev] = Label[old[p].dev]
        BY <1>2, <1>3, <2>5, <3>2, SameItemIs
      <4> QED
        BY <2>1, <2>2, <4>1
    <3> QED
      BY <3>1, <3>2
  <2> QED
    BY <1>7, <2>1, <2>5, <2>6 DEF Regular
<1> QED
  BY <1>6, <1>7

----------------------------------------------------------------------------
(* The selection *)

\* A row that is selected is the row of a driver, and is shown
Sound(rs) ==
  \A k \in DOMAIN rs : rs[k].checked => rs[k].active # {} /\ rs[k].match # NoMatch /\ ~rs[k].name

Exclusively(rs) ==
  \A j, k \in DOMAIN rs : rs[j].checked /\ rs[k].checked /\ rs[j].dev = rs[k].dev => j = k

\* Lists of one layout
Alike(rs, qs) ==
  /\ DOMAIN rs = DOMAIN qs
  /\ \A k \in DOMAIN rs :
       rs[k].match = qs[k].match /\ rs[k].dev = qs[k].dev /\ (rs[k].name <=> qs[k].name)

\* The list is one that a scan has found, or there is none yet
Found(rs) == rs = <<>> \/ \E list \in Lists : Alike(rs, list)

\* new selects nothing that old does not, and hides nothing that stays selected
Fewer(new, old) ==
  /\ Alike(new, old)
  /\ \A k \in DOMAIN new :
       new[k].checked => old[k].checked /\ (old[k].active # {} => new[k].active # {})

\* The invariant of the selection
Selection(rs) == Found(rs) /\ Sound(rs) /\ Exclusively(rs)

LEMMA AlikeSame ==
  ASSUME NEW rs, NEW qs, NEW ps, Alike(rs, qs), Alike(qs, ps)
  PROVE  Alike(rs, ps)
  BY DEF Alike

LEMMA AlikeRegular ==
  ASSUME NEW rs, NEW qs, Alike(rs, qs), Regular(qs)
  PROVE  Regular(rs)
<1>0. DOMAIN rs = DOMAIN qs
  BY DEF Alike
<1>1. ASSUME NEW j \in DOMAIN rs
      PROVE  /\ j \in DOMAIN qs /\ rs[j].match = qs[j].match /\ rs[j].dev = qs[j].dev
             /\ rs[j].name <=> qs[j].name
  BY DEF Alike
<1>2. ASSUME NEW j \in DOMAIN rs, NEW k \in DOMAIN rs, rs[j].match = rs[k].match,
             rs[j].match # NoMatch, rs[j].name, rs[k].name
      PROVE  j = k
  BY <1>1, <1>2, OneNameRow
<1>3. ASSUME NEW j \in DOMAIN rs, NEW k \in DOMAIN rs, rs[j].match = rs[k].match,
             rs[j].match # NoMatch, ~rs[j].name, ~rs[k].name
      PROVE  j = k
  BY <1>1, <1>3, OneDriverRow
<1>4. ASSUME NEW k \in DOMAIN rs, rs[k].match # NoMatch, ~rs[k].name
      PROVE  \E j \in DOMAIN rs : j < k /\ rs[j].match = rs[k].match /\ rs[j].name
  <2>1. PICK j \in DOMAIN qs : j < k /\ qs[j].match = qs[k].match /\ qs[j].name
    BY <1>1, <1>4 DEF Regular
  <2>2. j \in DOMAIN rs
    BY <1>0
  <2> QED
    BY <1>1, <2>1, <2>2
<1>5. ASSUME NEW j \in DOMAIN rs, NEW k \in DOMAIN rs, j # k,
             Label[rs[j].dev] = Label[rs[k].dev], Label[rs[j].dev] # ""
      PROVE  rs[j].match # NoMatch
  BY <1>1, <1>5, ZenonT(60) DEF Regular
<1> QED
  BY <1>2, <1>3, <1>4, <1>5 DEF Regular

LEMMA AlikeOneDevice ==
  ASSUME NEW rs, NEW qs, NEW a, NEW b, Alike(rs, a), Alike(qs, b), OneDevice(a, b)
  PROVE  OneDevice(rs, qs)
  BY DEF Alike, OneDevice

\* What the scans find keeps apart what restorepos compares
LEMMA FoundRegular ==
  ASSUME Distinct, NEW rs \in Seq(Row), NEW qs \in Seq(Row), Found(rs), Found(qs)
  PROVE  Regular(rs) /\ OneDevice(rs, qs)
<1>1. Regular(rs)
  <2>1. CASE rs = <<>>
    BY <2>1 DEF Regular
  <2>2. CASE \E list \in Lists : Alike(rs, list)
    BY <2>2, AlikeRegular DEF Distinct
  <2> QED
    BY <2>1, <2>2 DEF Found
<1>2. OneDevice(rs, qs)
  <2>1. CASE rs = <<>> \/ qs = <<>>
    BY <2>1 DEF OneDevice
  <2>2. CASE \E a, b \in Lists : Alike(rs, a) /\ Alike(qs, b)
    BY <2>2, AlikeOneDevice DEF Distinct
  <2> QED
    BY <2>1, <2>2 DEF Found
<1> QED
  BY <1>1, <1>2

\* An edit that only takes away keeps the selection as it must be
LEMMA FewerKeeps ==
  ASSUME NEW old \in Seq(Row), NEW new \in Seq(Row), Selection(old), Fewer(new, old)
  PROVE  Selection(new)
<1>1. Alike(new, old)
  BY DEF Fewer
<1>2. ASSUME NEW k \in DOMAIN new
      PROVE  /\ k \in DOMAIN old /\ new[k].match = old[k].match /\ new[k].dev = old[k].dev
             /\ new[k].name <=> old[k].name
             /\ new[k].checked => old[k].checked /\ (old[k].active # {} => new[k].active # {})
  BY DEF Fewer, Alike
<1>3. Found(new)
  <2>1. CASE old = <<>>
    <3>1. DOMAIN new = {}
      BY <1>1, <2>1 DEF Alike
    <3> QED
      BY <3>1 DEF Found
  <2>2. CASE \E list \in Lists : Alike(old, list)
    BY <1>1, <2>2, AlikeSame DEF Found
  <2> QED
    BY <2>1, <2>2 DEF Selection, Found
<1>4. Sound(new)
  BY <1>2 DEF Selection, Sound
<1>5. Exclusively(new)
  BY <1>2 DEF Selection, Exclusively
<1> QED
  BY <1>3, <1>4, <1>5 DEF Selection

LEMMA FewerTwice ==
  ASSUME NEW rs, NEW qs, NEW ps, Fewer(rs, qs), Fewer(qs, ps)
  PROVE  Fewer(rs, ps)
  BY DEF Fewer, Alike

\* The edits that take away: a status, filter, expand, collapse, "select none", and the
\* status and the selection of one item
LEMMA FewerEdits ==
  ASSUME NEW rs \in Seq(Row), NEW k \in DOMAIN rs, NEW st \in Statuses
  PROVE  /\ Fewer(rs, rs)
         /\ Fewer(Expand(rs, k), rs)
         /\ Fewer(Collapse(rs, k), rs)
         /\ Fewer([rs EXCEPT ![k].status = st], rs)
<1>1. \A j \in DOMAIN rs : rs[j] \in Row
  OBVIOUS
<1>2. Fewer(rs, rs)
  BY DEF Fewer, Alike
<1>3. Fewer(Expand(rs, k), rs)
  <2>1. CASE 2 \in rs[k].active
    BY <1>2, <2>1 DEF Expand
  <2>2. CASE 2 \notin rs[k].active
    BY <1>1, <2>2, ZenonT(60) DEF Expand, Fewer, Alike, Row
  <2> QED
    BY <2>1, <2>2
<1>4. Fewer(Collapse(rs, k), rs)
  <2>1. CASE 2 \notin rs[k].active
    BY <1>2, <2>1 DEF Collapse
  <2>2. CASE 2 \in rs[k].active
    <3> DEFINE qs == Collapse(rs, k)
    <3>1. qs = [j \in DOMAIN rs |->
                  IF rs[j].dev = rs[k].dev /\ ~rs[j].name
                  THEN [rs[j] EXCEPT !.active = (@ \cap {1}) \cup (IF rs[j].checked THEN {4} ELSE {})]
                  ELSE rs[j]]
      BY <2>2 DEF Collapse
    <3> HIDE DEF qs
    <3>2. DOMAIN qs = DOMAIN rs
      BY <3>1
    <3>3. ASSUME NEW j \in DOMAIN rs
          PROVE  /\ qs[j].match = rs[j].match /\ qs[j].dev = rs[j].dev
                 /\ qs[j].name <=> rs[j].name
                 /\ qs[j].checked => rs[j].checked /\ (rs[j].active # {} => qs[j].active # {})
      <4>1. CASE rs[j].dev = rs[k].dev /\ ~rs[j].name
        <5>1. qs[j] = [rs[j] EXCEPT !.active = (@ \cap {1}) \cup (IF rs[j].checked THEN {4} ELSE {})]
          BY <3>1, <4>1
        <5> QED
          BY <1>1, <5>1 DEF Row
      <4>2. CASE ~(rs[j].dev = rs[k].dev /\ ~rs[j].name)
        BY <3>1, <4>2
      <4> QED
        BY <4>1, <4>2
    <3> QED
      BY <3>2, <3>3 DEF Fewer, Alike, qs
  <2> QED
    BY <2>1, <2>2
<1>5. Fewer([rs EXCEPT ![k].status = st], rs)
  BY <1>1 DEF Fewer, Alike, Row
<1> QED
  BY <1>2, <1>3, <1>4, <1>5

LEMMA FewerAll ==
  ASSUME NEW rs \in Seq(Row)
  PROVE  Fewer(Unselect(rs), rs) /\ Fewer(Filter(rs), rs) /\ Fewer(Cleared(rs), rs)
<1>1. \A j \in DOMAIN rs : rs[j] \in Row
  OBVIOUS
<1>2. Fewer(Unselect(rs), rs)
  BY <1>1 DEF Unselect, Fewer, Alike, Row
<1>3. ASSUME NEW qs \in Seq(Row) PROVE Fewer(Filter(qs), qs)
  <2>1. DOMAIN Filter(qs) = DOMAIN qs
    BY DEF Filter
  <2>2. ASSUME NEW k \in DOMAIN qs
        PROVE  /\ Filter(qs)[k].match = qs[k].match /\ Filter(qs)[k].dev = qs[k].dev
               /\ Filter(qs)[k].name <=> qs[k].name
               /\ Filter(qs)[k].checked => qs[k].checked /\ Filter(qs)[k].active # {}
    <3>1. qs[k] \in Row
      OBVIOUS
    <3> DEFINE r == qs[k]
               visible == /\ ~r.name
                          /\ \/ r.match \in Shown
                             \/ r.match # NoMatch /\ (r.checked \/ r.status # "none")
    <3>2. Filter(qs)[k] = [r EXCEPT !.active = IF visible THEN {1} ELSE {},
                                    !.checked = r.checked /\ visible /\ r.match # NoMatch]
      BY DEF Filter
    <3>3. visible \in BOOLEAN
      OBVIOUS
    <3> HIDE DEF visible
    <3> QED
      BY <3>1, <3>2, <3>3 DEF Row
  <2> QED
    BY <2>1, <2>2 DEF Fewer, Alike
<1>4. Fewer(Cleared(rs), rs)
  <2> DEFINE qs == [k \in DOMAIN rs |-> [rs[k] EXCEPT !.status = "none"]]
  <2>1. qs \in Seq(Row)
    <3>1. qs \in [DOMAIN rs -> Row]
      BY <1>1 DEF Row, Statuses
    <3> QED
      BY <3>1, SamePositions
  <2>2. Fewer(qs, rs)
    BY <1>1 DEF Fewer, Alike, Row
  <2>3. Cleared(rs) = Filter(qs)
    BY DEF Cleared
  <2> HIDE DEF qs
  <2>4. Fewer(Filter(qs), qs)
    BY <1>3, <2>1
  <2>5. Filter(qs) \in Seq(Row)
    BY <2>1, FilterType
  <2> QED
    BY <2>2, <2>3, <2>4, <2>5, FewerTwice
<1> QED
  BY <1>2, <1>3, <1>4

LEMMA FewerPut ==
  ASSUME NEW rs \in Seq(Row), NEW k \in Int, NEW st \in Statuses, NEW on \in BOOLEAN,
         on /\ k \in DOMAIN rs => rs[k].checked
  PROVE  Fewer(Put(rs, k, st, on), rs)
<1>1. \A j \in DOMAIN rs : rs[j] \in Row
  OBVIOUS
<1>2. CASE k \notin DOMAIN rs
  BY <1>2 DEF Put, Fewer, Alike
<1>3. CASE k \in DOMAIN rs
  <2>1. Put(rs, k, st, on) = [rs EXCEPT ![k] = [rs[k] EXCEPT !.status = st, !.checked = on]]
    BY <1>1, <1>3 DEF Put
  <2> QED
    BY <1>1, <1>3, <2>1 DEF Fewer, Alike, Row
<1> QED
  BY <1>2, <1>3

LEMMA AlikeFound ==
  ASSUME NEW rs \in Seq(Row), NEW old \in Seq(Row), Alike(rs, old), Found(old)
  PROVE  Found(rs)
<1>1. CASE old = <<>>
  <2>1. DOMAIN rs = {}
    BY <1>1 DEF Alike
  <2> QED
    BY <2>1 DEF Found
<1>2. CASE \E list \in Lists : Alike(old, list)
  BY <1>2, AlikeSame DEF Found
<1> QED
  BY <1>1, <1>2 DEF Found

\* selectall: the first of a group is one
LEMMA SelectAllKeeps ==
  ASSUME NEW rs \in Seq(Row), Selection(rs)
  PROVE  Alike(SelectAll(rs), rs) /\ Selection(SelectAll(rs))
<1> DEFINE new == SelectAll(rs)
<1>1. \A j \in DOMAIN rs : rs[j] \in Row
  OBVIOUS
<1>2. DOMAIN new = DOMAIN rs
  BY DEF SelectAll
<1>3. ASSUME NEW k \in DOMAIN rs
      PROVE  /\ new[k].match = rs[k].match /\ new[k].dev = rs[k].dev
             /\ new[k].active = rs[k].active
             /\ new[k].name <=> rs[k].name
             /\ new[k].checked => FirstOfGroup(rs, k)
  <2>1. FirstOfGroup(rs, k) \in BOOLEAN
    BY DEF FirstOfGroup
  <2>2. new[k] = [rs[k] EXCEPT !.checked = FirstOfGroup(rs, k) /\ rs[k].status = "none"]
    BY DEF SelectAll
  <2> HIDE DEF new
  <2> QED
    BY <1>1, <2>1, <2>2 DEF Row
<1>4. new \in Seq(Row)
  BY EditType, ThreadAssumption
<1> HIDE DEF new
<1>5. Alike(new, rs)
  BY <1>2, <1>3 DEF Alike
<1>6. Found(new)
  BY <1>4, <1>5, AlikeFound DEF Selection
<1>7. Sound(new)
  BY <1>2, <1>3 DEF Sound, FirstOfGroup
<1>8. Exclusively(new)
  <2> SUFFICES ASSUME NEW j \in DOMAIN rs, NEW k \in DOMAIN rs, FirstOfGroup(rs, j),
                      FirstOfGroup(rs, k), rs[j].dev = rs[k].dev
               PROVE  j = k
    BY <1>2, <1>3 DEF Exclusively
  <2>1. j \in Nat /\ k \in Nat /\ j >= 1 /\ k >= 1
    OBVIOUS
  <2>2. ~(j \in 1..(k - 1)) /\ ~(k \in 1..(j - 1))
    BY DEF FirstOfGroup
  <2> QED
    BY <2>1, <2>2
<1> QED
  BY <1>5, <1>6, <1>7, <1>8 DEF Selection, new

\* toggle: a row that goes on puts the others of its group off
LEMMA ToggledKeeps ==
  ASSUME NEW rs \in Seq(Row), Selection(rs), NEW k \in DOMAIN rs,
         rs[k].active # {}, rs[k].match # NoMatch, ~rs[k].name
  PROVE  Alike(Toggled(rs, k), rs) /\ Selection(Toggled(rs, k))
<1> DEFINE on == ~rs[k].checked
           st == IF mode = "NONE" THEN rs[k].status
                 ELSE IF ~on THEN "STOPPING"
                 ELSE IF rs[k].status = "STOPPING" THEN "none" ELSE rs[k].status
           flipped == [j \in DOMAIN rs |->
                         IF j = k THEN [rs[j] EXCEPT !.checked = on, !.status = st]
                         ELSE IF rs[j].dev = rs[k].dev THEN [rs[j] EXCEPT !.checked = FALSE]
                         ELSE rs[j]]
<1>1. \A j \in DOMAIN rs : rs[j] \in Row
  OBVIOUS
<1>2. on \in BOOLEAN /\ st \in Statuses
  BY <1>1 DEF Row, Statuses
<1>3. Toggled(rs, k) = IF on THEN Collapse(flipped, k) ELSE flipped
  BY DEF Toggled
<1>4. DOMAIN flipped = DOMAIN rs
  OBVIOUS
<1>5. ASSUME NEW j \in DOMAIN rs
      PROVE  /\ flipped[j] \in Row
             /\ flipped[j].match = rs[j].match /\ flipped[j].dev = rs[j].dev
             /\ flipped[j].active = rs[j].active
             /\ flipped[j].name <=> rs[j].name
             /\ flipped[j].checked =>
                  j = k \/ (rs[j].checked /\ rs[j].dev # rs[k].dev)
  <2>1. CASE j = k
    <3>1. flipped[j] = [rs[j] EXCEPT !.checked = on, !.status = st]
      BY <2>1
    <3> HIDE DEF on, st, flipped
    <3> QED
      BY <1>1, <1>2, <2>1, <3>1 DEF Row
  <2>2. CASE j # k /\ rs[j].dev = rs[k].dev
    <3>1. flipped[j] = [rs[j] EXCEPT !.checked = FALSE]
      BY <2>2
    <3> HIDE DEF on, st, flipped
    <3> QED
      BY <1>1, <2>2, <3>1 DEF Row
  <2>3. CASE j # k /\ rs[j].dev # rs[k].dev
    <3>1. flipped[j] = rs[j]
      BY <2>3
    <3> HIDE DEF on, st, flipped
    <3> QED
      BY <1>1, <2>3, <3>1
  <2> QED
    BY <2>1, <2>2, <2>3
<1> HIDE DEF on, st, flipped
<1>6. flipped \in Seq(Row)
  <2>1. flipped \in [DOMAIN rs -> Row]
    BY <1>4, <1>5 DEF flipped
  <2> QED
    BY <2>1, SamePositions
<1>7. Alike(flipped, rs)
  BY <1>4, <1>5 DEF Alike
<1>8. Selection(flipped)
  <2>1. Found(flipped)
    BY <1>6, <1>7, AlikeFound DEF Selection
  <2>2. Sound(flipped)
    BY <1>4, <1>5 DEF Sound, Selection
  <2>3. Exclusively(flipped)
    BY <1>4, <1>5 DEF Exclusively, Selection
  <2> QED
    BY <2>1, <2>2, <2>3 DEF Selection
<1>9. Alike(Collapse(flipped, k), rs) /\ Selection(Collapse(flipped, k))
  <2>1. Collapse(flipped, k) \in Seq(Row)
    BY <1>4, <1>6, EditType
  <2>2. Fewer(Collapse(flipped, k), flipped)
    BY <1>4, <1>6, FewerEdits DEF Statuses
  <2>3. Alike(Collapse(flipped, k), rs)
    BY <1>7, <2>2, AlikeSame DEF Fewer
  <2> QED
    BY <1>6, <1>8, <2>1, <2>2, <2>3, FewerKeeps
<1> QED
  BY <1>3, <1>7, <1>8, <1>9

\* A new list, as populate and filter leave it
LEMMA FreshList ==
  ASSUME NEW list \in Lists
  PROVE  /\ Filter(Populate(list)) \in Seq(Row)
         /\ Alike(Filter(Populate(list)), list)
         /\ Selection(Filter(Populate(list)))
         /\ \A k \in DOMAIN Filter(Populate(list)) : ~Filter(Populate(list))[k].checked
<1> DEFINE rs == Populate(list)
<1>1. rs \in Seq(Row)
  BY PopulateType
<1>2. Alike(rs, list) /\ \A k \in DOMAIN rs : ~rs[k].checked
  BY DEF Populate, Alike
<1> HIDE DEF rs
<1>3. Fewer(Filter(rs), rs) /\ Filter(rs) \in Seq(Row)
  BY <1>1, FewerAll, FilterType
<1>4. Alike(Filter(rs), list)
  BY <1>2, <1>3, AlikeSame DEF Fewer
<1>5. \A k \in DOMAIN Filter(rs) : ~Filter(rs)[k].checked
  BY <1>2, <1>3 DEF Fewer, Alike
<1>6. Selection(Filter(rs))
  BY <1>4, <1>5 DEF Selection, Found, Sound, Exclusively
<1> QED
  BY <1>3, <1>4, <1>5, <1>6 DEF rs

\* A row of the new list and the old row it takes
LEMMA Restored ==
  ASSUME NEW new \in Seq(Row), NEW old \in Seq(Row), NEW k \in DOMAIN new
  PROVE  /\ Restore(new, old)[k].match = new[k].match
         /\ Restore(new, old)[k].dev = new[k].dev
         /\ Restore(new, old)[k].name <=> new[k].name
         /\ Source(new, old)[k] \in DOMAIN old =>
              /\ Restore(new, old)[k].active = old[Source(new, old)[k]].active
              /\ Restore(new, old)[k].checked <=> old[Source(new, old)[k]].checked
              /\ Restore(new, old)[k].status = old[Source(new, old)[k]].status
         /\ Source(new, old)[k] \notin DOMAIN old => Restore(new, old)[k] = new[k]
<1> DEFINE j == Source(new, old)[k]
<1>1. new[k] \in Row
  OBVIOUS
<1>2. CASE j \in DOMAIN old
  <2>1. old[j] \in Row
    BY <1>2
  <2>2. Restore(new, old)[k] = [new[k] EXCEPT !.active = old[j].active,
                                  !.checked = old[j].checked, !.status = old[j].status]
    BY <1>2 DEF Restore
  <2> HIDE DEF j
  <2>3. /\ Restore(new, old)[k].match = new[k].match
        /\ Restore(new, old)[k].dev = new[k].dev
        /\ Restore(new, old)[k].name <=> new[k].name
        /\ Restore(new, old)[k].active = old[j].active
        /\ Restore(new, old)[k].checked <=> old[j].checked
        /\ Restore(new, old)[k].status = old[j].status
    BY <1>1, <2>1, <2>2 DEF Row
  <2> QED
    BY <1>2, <2>3 DEF j
<1>3. CASE j \notin DOMAIN old
  <2>1. Restore(new, old)[k] = new[k]
    BY <1>3 DEF Restore
  <2> QED
    BY <1>3, <2>1
<1> QED
  BY <1>2, <1>3

\* restorepos: what is selected in the new list is what the row it took had selected, the
\* row of the same driver
LEMMA SelectedFrom ==
  ASSUME Distinct, NEW new \in Seq(Row), NEW old \in Seq(Row), Selection(new), Selection(old),
         \A k \in DOMAIN new : ~new[k].checked,
         NEW k \in DOMAIN new, Restore(new, old)[k].checked
  PROVE  /\ Source(new, old)[k] \in DOMAIN old /\ old[Source(new, old)[k]].checked
         /\ Restore(new, old)[k].active # {} /\ new[k].match # NoMatch
         /\ new[k].match = old[Source(new, old)[k]].match /\ ~new[k].name
         /\ new[k].dev = old[Source(new, old)[k]].dev
<1> DEFINE rs == Restore(new, old)
           j == Source(new, old)[k]
<1>1. /\ Regular(new) /\ Regular(old)
      /\ OneDevice(new, new) /\ OneDevice(old, old) /\ OneDevice(new, old)
  BY FoundRegular DEF Selection
<1>2. /\ j \in DOMAIN old => rs[k].active = old[j].active /\ (rs[k].checked <=> old[j].checked)
      /\ j \notin DOMAIN old => ~rs[k].checked
  BY Restored
<1>3. j \in DOMAIN old /\ old[j].match # NoMatch /\ ~old[j].name =>
        new[k].match = old[j].match /\ ~new[k].name
  BY <1>1, SourceOfSelected
<1> HIDE DEF j
<1>4. j \in DOMAIN old /\ old[j].checked
  BY <1>2
<1>5. old[j].active # {} /\ old[j].match # NoMatch /\ ~old[j].name
  BY <1>4 DEF Selection, Sound
<1>6. new[k].match = old[j].match /\ ~new[k].name
  BY <1>3, <1>4, <1>5
<1>7. new[k].dev = old[j].dev
  BY <1>1, <1>4, <1>5, <1>6 DEF OneDevice
<1> QED
  BY <1>2, <1>4, <1>5, <1>6, <1>7 DEF j

\* restorepos: no driver's selection goes to two rows
LEMMA RestoreKeeps ==
  ASSUME Distinct, NEW new \in Seq(Row), NEW old \in Seq(Row), Selection(new), Selection(old),
         \A k \in DOMAIN new : ~new[k].checked
  PROVE  Selection(Restore(new, old))
<1> DEFINE rs == Restore(new, old)
           src == Source(new, old)
<1>1. DOMAIN rs = DOMAIN new
  BY DEF Restore
<1>2. rs \in Seq(Row)
  BY RestoreType
<1>3. ASSUME NEW k \in DOMAIN new
      PROVE  rs[k].match = new[k].match /\ rs[k].dev = new[k].dev /\ (rs[k].name <=> new[k].name)
  BY Restored
<1>4. ASSUME NEW h \in DOMAIN new, NEW k \in DOMAIN new, src[h] \in DOMAIN old, src[h] = src[k]
      PROVE  h = k
  <2>1. ~(h < k) /\ ~(k < h)
    BY <1>4, Takes
  <2> QED
    BY <2>1
<1>5. ASSUME NEW k \in DOMAIN new, rs[k].checked
      PROVE  /\ src[k] \in DOMAIN old /\ old[src[k]].checked
             /\ rs[k].active # {} /\ new[k].match # NoMatch /\ ~new[k].name
             /\ new[k].dev = old[src[k]].dev
  BY <1>5, SelectedFrom
<1> HIDE DEF rs, src
<1>6. Alike(rs, new)
  BY <1>1, <1>3 DEF Alike
<1>7. Found(rs)
  BY <1>2, <1>6, AlikeFound DEF Selection
<1>8. Sound(rs)
  BY <1>1, <1>3, <1>5 DEF Sound
<1>9. Exclusively(rs)
  <2> SUFFICES ASSUME NEW h \in DOMAIN new, NEW k \in DOMAIN new, rs[h].checked, rs[k].checked,
                      rs[h].dev = rs[k].dev
               PROVE  h = k
    BY <1>1 DEF Exclusively
  <2>1. old[src[h]].dev = old[src[k]].dev
    BY <1>3, <1>5
  <2>2. src[h] = src[k]
    BY <1>5, <2>1 DEF Selection, Exclusively
  <2> QED
    BY <1>4, <1>5, <2>2
<1> QED
  BY <1>7, <1>8, <1>9 DEF Selection, rs

\* The installation thread only takes from the selection
LEMMA ThreadFewer ==
  ASSUME TypeOK, NEW t \in Threads, Thread(t)
  PROVE  Fewer(rows', rows)
<1> USE DEF listVars
<1>a. rows \in Seq(Row) /\ act \in Int /\ loc[t].i \in Nat /\ loc[t].bar \in Int
  BY LocalsType DEF TypeOK
<1>b. Fewer(rows, rows)
  BY DEF Fewer, Alike
<1>c. \A st \in {"STOPPING", "EXTRACT", "FAILED", "EXTR_FAILED", "INSTALL", "EXTR_OK", "OK",
                 "REBOOT"} :
        st \in Statuses
  BY DEF Statuses
<1>d. \A k \in Int : CheckedAt(k) \in BOOLEAN /\ StatusAt(k) \in Statuses
                     /\ (k \in DOMAIN rows => (CheckedAt(k) => rows[k].checked))
  BY ReadType DEF CheckedAt
<1>1. CASE rows' = rows
  BY <1>b, <1>1
<1>2. CASE Downloaded(t)
  <2> DEFINE marked == [rows EXCEPT ![loc[t].bar].status = "STOPPING"]
  <2>1. CASE rows' # rows
    <3>1. loc[t].bar \in DOMAIN rows /\ rows' \in {marked, Unselect(marked)}
      BY <1>2, <2>1 DEF Downloaded
    <3>2. Fewer(marked, rows)
      BY <1>a, <1>c, <3>1, FewerEdits
    <3>3. marked \in Seq(Row)
      <4>1. rows[loc[t].bar] \in Row
        BY <1>a, <3>1
      <4>2. [rows[loc[t].bar] EXCEPT !.status = "STOPPING"] \in Row
        BY <1>c, <4>1 DEF Row
      <4>3. marked = [rows EXCEPT ![loc[t].bar] = [rows[loc[t].bar] EXCEPT !.status = "STOPPING"]]
        OBVIOUS
      <4> QED
        BY <1>a, <3>1, <4>2, <4>3
    <3> HIDE DEF marked
    <3>4. Fewer(Unselect(marked), marked)
      BY <3>3, FewerAll
    <3> QED
      BY <3>1, <3>2, <3>4, FewerTwice
  <2> QED
    BY <1>1, <2>1
<1>3. CASE Stage(t)
  <2>1. rows' \in {rows, Put(rows, loc[t].bar, "EXTRACT", CheckedAt(loc[t].bar)),
                    Put(rows, loc[t].bar, "FAILED", FALSE)}
    BY <1>3 DEF Stage
  <2> QED
    BY <1>a, <1>b, <1>c, <1>d, <2>1, FewerPut
<1>4. CASE AfterExtract(t)
  <2>1. PICK st \in Statuses, on \in BOOLEAN :
          rows' = Put(rows, loc[t].bar, st, on) /\ (on => CheckedAt(loc[t].bar))
    <3> DEFINE st == IF mode = "STOPPING" THEN "STOPPING" ELSE StatusAt(loc[t].bar)
               fails == loc[t].ok /\ st # "STOPPING"
               after == IF fails THEN "EXTR_FAILED" ELSE st
               on == CheckedAt(loc[t].bar) /\ ~fails
    <3>1. rows' = Put(rows, loc[t].bar, after, on)
      BY <1>4 DEF AfterExtract
    <3>2. after \in Statuses /\ on \in BOOLEAN /\ (on => CheckedAt(loc[t].bar))
      <4>1. st \in Statuses
        BY <1>a, <1>c, <1>d
      <4>2. CheckedAt(loc[t].bar) \in BOOLEAN
        BY <1>a, <1>d
      <4> HIDE DEF st
      <4> QED
        BY <1>c, <4>1, <4>2
    <3> HIDE DEF after, on
    <3> QED
      BY <3>1, <3>2
  <2> QED
    BY <1>a, <1>d, <2>1, FewerPut
<1>5. CASE Drive(t)
  <2>1. PICK st \in Statuses, on \in BOOLEAN :
          rows' = rows \/ (rows' = Put(rows, loc[t].bar, st, on) /\ (on => CheckedAt(loc[t].bar)))
    <3> DEFINE left == IF CheckedAt(loc[t].bar) THEN "EXTR_OK" ELSE StatusAt(loc[t].bar)
    <3>1. left \in Statuses
      BY <1>a, <1>c, <1>d
    <3>2. \/ rows' = rows
          \/ rows' = Put(rows, loc[t].bar, left, FALSE)
          \/ rows' = Put(rows, loc[t].bar, "INSTALL", TRUE) /\ CheckedAt(loc[t].bar)
      BY <1>5 DEF Drive
    <3> HIDE DEF left
    <3> QED
      BY <1>c, <3>1, <3>2
  <2> QED
    BY <1>a, <1>b, <1>d, <2>1, FewerPut
<1>6. CASE Installed(t)
  <2> DEFINE shown == IF ~loc[t].ok /\ ~(mode = "STOPPING") /\ loc[t].i \in DOMAIN rows
                      THEN Expand(rows, loc[t].i) ELSE rows
  <2>1. CASE rows' # rows
    <3>1. PICK st \in Outcomes(loc[t].ok) :
            rows' \in {Put(shown, act, st, FALSE), Unselect(Put(shown, act, st, FALSE))}
      BY <1>6, <2>1 DEF Installed, Marked
    <3>2. shown \in Seq(Row) /\ Fewer(shown, rows)
      <4>1. ASSUME NEW i \in DOMAIN rows
            PROVE  Expand(rows, i) \in Seq(Row) /\ Fewer(Expand(rows, i), rows)
        <5>1. i \in Int
          BY <1>a
        <5> QED
          BY <1>a, <1>c, <5>1, EditType, FewerEdits
      <4> QED
        BY <1>a, <1>b, <4>1
    <3>3. st \in Statuses
      BY <1>c, <3>1 DEF Outcomes
    <3> HIDE DEF shown
    <3> DEFINE marked == Put(shown, act, st, FALSE)
    <3>4. marked \in Seq(Row) /\ Fewer(marked, shown)
      BY <1>a, <3>2, <3>3, PutType, FewerPut
    <3> HIDE DEF marked
    <3>5. Fewer(Unselect(marked), marked)
      BY <3>4, FewerAll
    <3>6. rows' \in {marked, Unselect(marked)}
      BY <3>1 DEF marked
    <3> QED
      BY <3>2, <3>4, <3>5, <3>6, FewerTwice
  <2> QED
    BY <1>1, <2>1
<1>7. CASE Finish(t)
  <2>1. rows' \in {rows, Cleared(rows)}
    BY <1>7 DEF Finish
  <2> QED
    BY <1>a, <1>b, <2>1, FewerAll
<1>8. CASE ~(Downloaded(t) \/ Stage(t) \/ AfterExtract(t) \/ Drive(t) \/ Installed(t) \/ Finish(t))
  <2>1. rows' = rows
    BY <1>8 DEF Thread, Enter, SelectDownloads, AwaitDownload, RestorePoint, RestorePointDone,
                NextItem, TryExtract, Extracted, CallInstall, Rescan, End, Report
  <2> QED
    BY <1>1, <2>1, SMTT(30)
<1> QED
  BY <1>2, <1>3, <1>4, <1>5, <1>6, <1>7, <1>8

\* The GUI thread keeps the layout, and the selection as it must be
LEMMA GuiSelection ==
  ASSUME TypeOK, TypeOK', Selection(rows), Gui
  PROVE  Alike(rows', rows) /\ Selection(rows')
<1> USE DEF listVars
<1>a. rows \in Seq(Row) /\ rows' \in Seq(Row) /\ Fewer(rows, rows)
  BY DEF TypeOK, Fewer, Alike
<1>b. "none" \in Statuses
  BY DEF Statuses
<1>1. ASSUME Fewer(rows', rows) PROVE Alike(rows', rows) /\ Selection(rows')
  BY <1>a, <1>1, FewerKeeps DEF Fewer
<1>2. CASE ClickToggle
  <2>1. PICK k \in DOMAIN rows : Visible(k) /\ rows[k].match # NoMatch /\ rows' = Toggled(rows, k)
    BY <1>2 DEF ClickToggle, Edit
  <2> QED
    BY <1>a, <2>1, ToggledKeeps DEF Visible
<1>3. CASE ClickSelectAll
  <2>1. rows' = SelectAll(rows)
    BY <1>3 DEF ClickSelectAll, Edit
  <2> QED
    BY <1>a, <2>1, SelectAllKeeps
<1>4. CASE ClickSelectNone
  <2>1. rows' = Unselect(rows)
    BY <1>4 DEF ClickSelectNone, Edit
  <2> QED
    BY <1>1, <1>a, <2>1, FewerAll
<1>5. CASE ClickExpand
  <2>1. PICK k \in DOMAIN rows : rows' \in {Expand(rows, k), Collapse(rows, k)}
    BY <1>5 DEF ClickExpand, Edit
  <2> QED
    BY <1>1, <1>a, <1>b, <2>1, FewerEdits
<1>6. CASE ClickProgress
  <2>1. rows' \in {rows, Cleared(rows)}
    BY <1>6 DEF ClickProgress
  <2> QED
    BY <1>1, <1>a, <2>1, FewerAll
<1>7. CASE ~(ClickToggle \/ ClickSelectAll \/ ClickSelectNone \/ ClickExpand \/ ClickProgress)
  <2>1. rows' = rows
    BY <1>7 DEF Gui, ClickInstall, ClickExtract, ClickOption, ClickRescan, ClickClose, Answer
  <2> QED
    BY <1>1, <1>a, <2>1
<1> QED
  BY <1>2, <1>3, <1>4, <1>5, <1>6, <1>7

\* The list is replaced, or the automatic installation selects from it
LEMMA UpdateSelection ==
  ASSUME Distinct, TypeOK, Selection(rows), Update
  PROVE  Selection(rows')
<1> USE DEF listVars
<1>a. rows \in Seq(Row)
  BY DEF TypeOK
<1>1. CASE BundleSwap
  <2>1. PICK list \in Lists :
          LET fresh == Filter(Populate(list))
          IN  rows' = IF discard THEN fresh ELSE Restore(fresh, rows)
    BY <1>1 DEF BundleSwap
  <2> DEFINE fresh == Filter(Populate(list))
  <2>2. /\ fresh \in Seq(Row) /\ Selection(fresh)
        /\ \A k \in DOMAIN fresh : ~fresh[k].checked
    BY FreshList
  <2>3. rows' \in {fresh, Restore(fresh, rows)}
    BY <2>1
  <2> HIDE DEF fresh
  <2> QED
    BY <1>a, <2>2, <2>3, RestoreKeeps
<1>2. CASE AfterSwap
  <2>1. rows' \in {rows, SelectAll(rows)}
    BY <1>2 DEF AfterSwap, Resume, Complete
  <2> QED
    BY <1>a, <2>1, SelectAllKeeps
<1>3. CASE BundleArrives
  BY <1>3 DEF BundleArrives
<1> QED
  BY <1>1, <1>2, <1>3 DEF Update

LEMMA NextSelection ==
  ASSUME Distinct, TypeOK, TypeOK', Selection(rows), [Next]_vars
  PROVE  Selection(rows')
<1>a. rows \in Seq(Row) /\ rows' \in Seq(Row)
  BY DEF TypeOK
<1>1. ASSUME NEW t \in Threads, Thread(t) PROVE Selection(rows')
  BY <1>a, <1>1, ThreadFewer, FewerKeeps
<1>2. CASE Gui
  BY <1>2, GuiSelection
<1>3. CASE Update
  BY <1>3, UpdateSelection
<1>4. CASE ExternalChange \/ DownloadEnds \/ UNCHANGED vars
  <2>1. rows' = rows
    BY <1>4 DEF ExternalChange, DownloadEnds, vars, listVars
  <2> QED
    BY <2>1
<1> QED
  BY <1>1, <1>2, <1>3, <1>4 DEF Next

\* With lists in which restorepos can tell the items apart, the invariant of the selection
\* holds in every state: only rows of drivers that are shown are selected, one per device,
\* and the list is one that a scan has found
THEOREM SelectionKept == ASSUME Distinct PROVE Spec => []Selection(rows)
<1>1. Init => Selection(rows)
  BY DEF Init, Selection, Found, Sound, Exclusively
<1>2. TypeOK /\ TypeOK' /\ Selection(rows) /\ [Next]_vars => Selection(rows)'
  BY NextSelection
<1> QED
  BY <1>1, <1>2, TypeCorrect, PTL DEF Spec

\* What is selected can be installed, whatever the user clicks and however often the list
\* is replaced during an installation: the round through the selection ends (manager.cpp,
\* filter, toggle, selectall, restorepos; install.cpp 534-540)
THEOREM Installable == ASSUME Distinct PROVE Spec => []SelectionInstallable
<1>1. Selection(rows) => SelectionInstallable
  BY DEF Selection, Sound, SelectionInstallable, Eligible
<1> QED
  BY <1>1, SelectionKept, PTL

\* One driver is selected for a device, whatever the user clicks and however often the list
\* is replaced: restorepos brings back no second selection (manager.cpp 1880-1935)
THEOREM OnePerDevice == ASSUME Distinct PROVE Spec => []SelectionExclusive
<1>1. Selection(rows) => SelectionExclusive
  BY DEF Selection, Exclusively, SelectionExclusive
<1> QED
  BY <1>1, SelectionKept, PTL

----------------------------------------------------------------------------
(* What a replaced list keeps *)

\* Restorepos gives a driver that is in both lists its own selection and result
LEMMA SwapKeeps ==
  ASSUME Distinct, TypeOK, Selection(rows), BundleSwap, ~discard,
         NEW j \in DOMAIN rows, NEW k \in DOMAIN rows', SameDriver(rows[j], rows'[k])
  PROVE  (rows'[k].checked <=> rows[j].checked) /\ rows'[k].status = rows[j].status
<1>1. PICK list \in Lists : rows' = Restore(Filter(Populate(list)), rows)
  BY DEF BundleSwap
<1> DEFINE fresh == Filter(Populate(list))
<1>2. fresh \in Seq(Row) /\ Found(fresh) /\ rows \in Seq(Row) /\ Found(rows)
  BY FreshList DEF TypeOK, Selection
<1> HIDE DEF fresh
<1>3. /\ Regular(fresh) /\ Regular(rows)
      /\ OneDevice(fresh, fresh) /\ OneDevice(rows, rows) /\ OneDevice(fresh, rows)
  BY <1>2, FoundRegular
<1>4. rows' = Restore(fresh, rows) /\ k \in DOMAIN fresh
  <2>1. rows' = Restore(fresh, rows)
    BY <1>1 DEF fresh
  <2>2. DOMAIN Restore(fresh, rows) = DOMAIN fresh
    BY DEF Restore
  <2> QED
    BY <2>1, <2>2
<1>5. /\ fresh[k].match = rows[j].match /\ fresh[k].match # NoMatch
      /\ ~fresh[k].name /\ ~rows[j].name
  <2>1. rows'[k].match = fresh[k].match /\ (rows'[k].name <=> fresh[k].name)
    BY <1>2, <1>4, Restored
  <2> QED
    BY <2>1 DEF SameDriver
<1>6. Source(fresh, rows)[k] = j
  BY <1>2, <1>3, <1>4, <1>5, SourceOfDriver
<1> QED
  BY <1>2, <1>4, <1>6, Restored

\* Only the swap changes which list manager_g points to
LEMMA OnlySwap ==
  ASSUME Next, gen' # gen
  PROVE  BundleSwap
<1> USE DEF listVars
<1>1. ASSUME NEW t \in Threads, Thread(t) PROVE FALSE
  BY <1>1 DEF Thread, Enter, SelectDownloads, AwaitDownload, Downloaded, RestorePoint,
              RestorePointDone, NextItem, Stage, TryExtract, Extracted, AfterExtract, Drive,
              CallInstall, Installed, Rescan, Finish, End, Report
<1>2. ~Gui
  BY DEF Gui, ClickInstall, ClickExtract, ClickToggle, ClickSelectAll, ClickSelectNone,
         ClickExpand, ClickProgress, ClickOption, ClickRescan, ClickClose, Answer, Edit
<1>3. ~BundleArrives /\ ~AfterSwap /\ ~ExternalChange /\ ~DownloadEnds
  BY DEF BundleArrives, AfterSwap, ExternalChange, DownloadEnds
<1> QED
  BY <1>1, <1>2, <1>3, SMTT(30) DEF Next, Update

\* A replaced list keeps the selection and the result of every driver that is in both
\* lists, however the rows moved (manager.cpp 1880: keep when installing drivers, device
\* update)
THEOREM SelectionCarried == ASSUME Distinct PROVE Spec => KeepSelection
<1> DEFINE Kept == gen' # gen /\ ~discard =>
                     \A j \in DOMAIN rows, k \in DOMAIN rows' :
                       SameDriver(rows[j], rows'[k]) => /\ rows'[k].checked = rows[j].checked
                                                        /\ rows'[k].status = rows[j].status
<1>1. TypeOK /\ TypeOK' /\ Selection(rows) /\ [Next]_vars => [Kept]_vars
  <2> SUFFICES ASSUME TypeOK, TypeOK', Selection(rows), Next, gen' # gen, ~discard,
                      NEW j \in DOMAIN rows, NEW k \in DOMAIN rows', SameDriver(rows[j], rows'[k])
               PROVE  rows'[k].checked = rows[j].checked /\ rows'[k].status = rows[j].status
    OBVIOUS
  <2>1. (rows'[k].checked <=> rows[j].checked) /\ rows'[k].status = rows[j].status
    BY OnlySwap, SwapKeeps
  <2>2. rows[j].checked \in BOOLEAN /\ rows'[k].checked \in BOOLEAN
    <3>1. rows[j] \in Row /\ rows'[k] \in Row
      BY DEF TypeOK
    <3> QED
      BY <3>1 DEF Row
  <2> QED
    BY <2>1, <2>2
<1> QED
  BY <1>1, SelectionKept, TypeCorrect, PTL DEF Spec, KeepSelection

----------------------------------------------------------------------------
(* restorepos: where itembar_act goes *)

\* f lists where itembar_act is after each of the new rows
Moves(f, new, old, a0) ==
  /\ f = [i \in 0..Len(new) |-> f[i]]
  /\ f[0] = a0
  /\ \A i \in 1..Len(new) : f[i] = Moved(new, old, i, f[i - 1])

\* Remap is the loop over the new rows
LEMMA RemapLoop ==
  ASSUME NEW new \in Seq(Row), NEW old \in Seq(Row), NEW a0, NEW f, Moves(f, new, old, a0)
  PROVE  Remap(new, old, a0) = f[Len(new)]
<1> USE DEF Moves
<1> DEFINE N == Len(new)
           Rec(h) == [i \in 0..Len(new) |->
                        IF i = 0 THEN a0 ELSE Sole({Moved(new, old, i, a) : a \in {h[i - 1]}})]
           to == CHOOSE h : h = Rec(h)
<1>0. N \in Nat
  OBVIOUS
<1>1. \A x : Sole({x}) = x
  BY DEF Sole
<1>2. ASSUME NEW h, NEW i \in 1..N
      PROVE  Sole({Moved(new, old, i, a) : a \in {h[i - 1]}}) = Moved(new, old, i, h[i - 1])
  <2>1. {Moved(new, old, i, a) : a \in {h[i - 1]}} = {Moved(new, old, i, h[i - 1])}
    OBVIOUS
  <2> QED
    BY <1>1, <2>1
<1>3. ASSUME NEW h, NEW i \in 0..N
      PROVE  /\ i = 0 => Rec(h)[i] = a0
             /\ i # 0 => Rec(h)[i] = Moved(new, old, i, h[i - 1])
  <2>1. i = 0 => Rec(h)[i] = a0
    OBVIOUS
  <2>2. ASSUME i # 0 PROVE Rec(h)[i] = Moved(new, old, i, h[i - 1])
    <3>1. i \in 1..N
      BY <2>2
    <3>2. Rec(h)[i] = Sole({Moved(new, old, i, a) : a \in {h[i - 1]}})
      BY <2>2
    <3> QED
      BY <1>2, <3>1, <3>2
  <2> QED
    BY <2>1, <2>2
<1>4. f = Rec(f)
  <2>1. \A i \in 0..N : f[i] = Rec(f)[i]
    <3> SUFFICES ASSUME NEW i \in 0..N PROVE f[i] = Rec(f)[i]
      OBVIOUS
    <3> HIDE DEF Rec
    <3>1. CASE i = 0
      BY <1>3, <3>1
    <3>2. CASE i # 0
      <4>1. i \in 1..N
        BY <3>2
      <4> QED
        BY <1>3, <3>2, <4>1
    <3> QED
      BY <3>1, <3>2
  <2>2. Rec(f) = [i \in 0..N |-> Rec(f)[i]]
    OBVIOUS
  <2> HIDE DEF Rec
  <2> QED
    BY <2>1, <2>2
<1>5. to = Rec(to)
  <2> HIDE DEF Rec
  <2> QED
    BY <1>4
<1>6. Remap(new, old, a0) = to[N]
  BY DEF Remap
<1> HIDE DEF to
<1>7. ASSUME NEW i \in 0..N
      PROVE  /\ i = 0 => to[i] = a0
             /\ i # 0 => to[i] = Moved(new, old, i, to[i - 1])
  <2> HIDE DEF Rec
  <2> QED
    BY <1>3, <1>5
<1> HIDE DEF Rec
<1>8. to[0] = f[0]
  BY <1>0, <1>7
<1>9. ASSUME NEW i \in 1..N, to[i - 1] = f[i - 1] PROVE to[i] = f[i]
  <2>1. i \in 0..N /\ i # 0
    OBVIOUS
  <2> QED
    BY <1>7, <1>9, <2>1
<1>10. StayAlike(to, f, N)
  BY <1>8, <1>9 DEF StayAlike
<1>11. \A i \in 0..N : to[i] = f[i]
  BY <1>0, <1>10, LoopUnique
<1> QED
  BY <1>0, <1>6, <1>11

\* SLOT_EMPTY stays
LEMMA RemapEmpty ==
  ASSUME NEW new \in Seq(Row), NEW old \in Seq(Row)
  PROVE  Remap(new, old, EmptySlot) = EmptySlot
<1> DEFINE f == [i \in 0..Len(new) |-> EmptySlot]
<1>1. f = [i \in 0..Len(new) |-> f[i]]
  OBVIOUS
<1>2. f[0] = EmptySlot /\ f[Len(new)] = EmptySlot
  OBVIOUS
<1>3. ASSUME NEW i \in 1..Len(new) PROVE f[i] = Moved(new, old, i, f[i - 1])
  <2>1. f[i] = EmptySlot /\ f[i - 1] = EmptySlot
    OBVIOUS
  <2>2. Moved(new, old, i, EmptySlot) = EmptySlot
    BY DEF Moved, EmptySlot, OutOfList
  <2> QED
    BY <2>1, <2>2
<1> HIDE DEF f
<1>4. Moves(f, new, old, EmptySlot)
  BY <1>1, <1>2, <1>3 DEF Moves
<1> QED
  BY <1>2, <1>4, RemapLoop

\* The slot of the restore point stays, or the access fails
LEMMA RemapRestore ==
  ASSUME NEW new \in Seq(Row), NEW old \in Seq(Row)
  PROVE  Remap(new, old, RestoreSlot) \in {RestoreSlot, OutOfList}
<1> DEFINE N == Len(new)
           S == {RestoreSlot, OutOfList}
           g == [x \in (1..N) \X S |-> Moved(new, old, x[1], x[2])]
<1>0. N \in Nat
  OBVIOUS
<1>1. ASSUME NEW i \in 1..N, NEW a \in S PROVE Moved(new, old, i, a) \in S
  <2>1. a = 0 \/ a = -14
    BY DEF RestoreSlot, OutOfList
  <2>2. Moved(new, old, i, -14) = -14
    BY DEF Moved, EmptySlot, OutOfList
  <2>3. Moved(new, old, i, 0) = IF Label[new[i].dev] = "" THEN 0 ELSE -14
    <3>1. Len(old) \in Nat /\ DOMAIN old = 1..Len(old)
      OBVIOUS
    <3>2. 0 \notin {-13, -14} /\ ~(0 > Len(old)) /\ 0 \in (-13 + 1)..0
      BY <3>1
    <3>3. 0 \notin DOMAIN old
      BY <3>1
    <3> QED
      BY <3>2, <3>3, Zenon DEF Moved, EmptySlot, OutOfList
  <2> QED
    BY <2>1, <2>2, <2>3 DEF RestoreSlot, OutOfList
<1>2. IsTurn(g, N, S)
  <2>1. g \in [(1..N) \X S -> S]
    <3> SUFFICES ASSUME NEW i \in 1..N, NEW a \in S PROVE Moved(new, old, i, a) \in S
      OBVIOUS
    <3> QED
      BY <1>1
  <2> QED
    BY <2>1 DEF IsTurn
<1>3. \A i \in 1..N, a \in S : g[<<i, a>>] = Moved(new, old, i, a)
  OBVIOUS
<1>4. RestoreSlot \in S
  OBVIOUS
<1> HIDE DEF g, N, S
<1>5. PICK f : IsLoop(f, N, S, RestoreSlot, g)
  BY <1>0, <1>2, <1>4, LoopExists
<1>6. f \in [0..N -> S] /\ f[0] = RestoreSlot /\ \A i \in 1..N : f[i] = g[<<i, f[i - 1]>>]
  BY <1>5 DEF IsLoop
<1>7. \A i \in 1..N : f[i] = Moved(new, old, i, f[i - 1])
  <2> SUFFICES ASSUME NEW i \in 1..N PROVE f[i] = Moved(new, old, i, f[i - 1])
    OBVIOUS
  <2>1. i - 1 \in 0..N
    BY <1>0
  <2> QED
    BY <1>3, <1>6, <2>1
<1>8. f = [i \in 0..N |-> f[i]]
  BY <1>6
<1>9. Remap(new, old, RestoreSlot) = f[N]
  <2>1. Moves(f, new, old, RestoreSlot)
    BY <1>6, <1>7, <1>8 DEF N, Moves
  <2> QED
    BY <2>1, RemapLoop DEF N
<1> QED
  BY <1>0, <1>6, <1>9 DEF S

\* The row of a driver that is where it was: itembar_act is moved to the row with the name of
\* the pack, which comes first, and then to the driver's
LEMMA RemapDriver ==
  ASSUME Distinct, NEW new \in Seq(Row), NEW old \in Seq(Row), Alike(new, old),
         Regular(old), OneDevice(old, old),
         NEW a \in DOMAIN old, old[a].match # NoMatch, ~old[a].name
  PROVE  Remap(new, old, a) = a
<1>1. PICK p \in DOMAIN old : p < a /\ old[p].match = old[a].match /\ old[p].name
  BY DEF Regular
<1> DEFINE N == Len(new)
           f == [i \in 0..N |-> IF i < p THEN a ELSE IF i < a THEN p ELSE a]
<1>2. N \in Nat /\ Len(old) = N /\ DOMAIN old = 1..N /\ DOMAIN new = 1..N
      /\ a \in 1..N /\ p \in 1..N /\ p < a
  BY <1>1 DEF Alike
<1>3. ASSUME NEW i \in 1..N, NEW b \in {p, a}
      PROVE  SameItem(new[i], old[b]) <=> i \in {p, a}
  <2>1. new[i] \in Row /\ old[b] \in Row /\ i \in DOMAIN old /\ b \in DOMAIN old
    BY <1>2
  <2>2. new[i].match = old[i].match /\ new[i].dev = old[i].dev
    BY <1>2 DEF Alike
  <2>3. old[b].match = old[a].match /\ old[b].match # NoMatch
    BY <1>1
  <2>4. CASE i \in {p, a}
    <3>1. new[i].match = old[b].match
      BY <1>1, <2>2, <2>3, <2>4
    <3> QED
      BY <2>1, <2>3, <2>4, <3>1, SameItemIs
  <2>5. CASE i \notin {p, a} /\ old[i].match # NoMatch
    <3>1. old[i].match # old[a].match
      <4>1. CASE old[i].name
        BY <1>1, <2>1, <2>5, <4>1, OneNameRow
      <4>2. CASE ~old[i].name
        BY <2>1, <2>5, <4>2, OneDriverRow
      <4> QED
        BY <4>1, <4>2
    <3>2. new[i].match # NoMatch /\ new[i].match # old[b].match
      BY <2>2, <2>3, <2>5, <3>1
    <3>3. ~SameItem(new[i], old[b])
      BY <2>1, <2>3, <3>2, SameItemIs
    <3> QED
      BY <2>5, <3>3
  <2>6. CASE i \notin {p, a} /\ old[i].match = NoMatch
    <3>1. ~(Label[old[i].dev] = Label[old[b].dev] /\ Label[old[i].dev] # "")
      BY <2>1, <2>6 DEF Regular
    <3>2. ~SameItem(new[i], old[b])
      BY <2>1, <2>2, <2>6, <3>1, SameItemIs, ZenonT(60)
    <3> QED
      BY <2>6, <3>2
  <2> QED
    BY <2>4, <2>5, <2>6
<1>4. ASSUME NEW i \in 1..N, NEW b \in {p, a}
      PROVE  Moved(new, old, i, b) = IF i \in {p, a} THEN i ELSE b
  <2>1. b \in 1..N /\ b \in DOMAIN old /\ ~(b > Len(old))
    BY <1>2
  <2>2. b \notin {EmptySlot, OutOfList} /\ b \notin (EmptySlot + 1)..0
    BY <2>1, SMTT(30) DEF EmptySlot, OutOfList
  <2>3. Moved(new, old, i, b) = IF SameItem(new[i], old[b]) THEN i ELSE b
    BY <2>1, <2>2 DEF Moved
  <2> QED
    BY <1>3, <2>3
<1>5. ASSUME NEW i \in 1..N PROVE f[i] = Moved(new, old, i, f[i - 1])
  <2>1. f[i - 1] \in {p, a} /\ i - 1 \in 0..N
    BY <1>2
  <2>2. f[i] = IF i \in {p, a} THEN i ELSE f[i - 1]
    BY <1>2
  <2> HIDE DEF f
  <2> QED
    BY <1>4, <2>1, <2>2
<1>6. f = [i \in 0..Len(new) |-> f[i]] /\ f[0] = a /\ f[Len(new)] = a
  BY <1>2
<1> HIDE DEF f
<1>7. Moves(f, new, old, a)
  BY <1>5, <1>6 DEF Moves
<1> QED
  BY <1>6, <1>7, RemapLoop

----------------------------------------------------------------------------
(* One installation whose scans find the same rows *)

\* One installation thread, and scans that find what the first one found
Session ==
  /\ Distinct
  /\ \A t, u \in Threads : t = u
  /\ \A a, b \in Lists : Alike(a, b)

\* In such a session the rows stay where they are, once there are any
LEMMA RowsStay ==
  ASSUME Session, TypeOK, TypeOK', Selection(rows), [Next]_vars
  PROVE  rows = <<>> \/ Alike(rows', rows)
<1> USE DEF listVars
<1>a. Alike(rows, rows)
  BY DEF Alike
<1>1. ASSUME NEW t \in Threads, Thread(t) PROVE Alike(rows', rows)
  BY <1>1, ThreadFewer DEF Fewer
<1>2. CASE Gui
  BY <1>2, GuiSelection
<1>3. CASE BundleSwap /\ rows # <<>>
  <2>1. PICK list \in Lists :
          LET fresh == Filter(Populate(list))
          IN  rows' = IF discard THEN fresh ELSE Restore(fresh, rows)
    BY <1>3 DEF BundleSwap
  <2> DEFINE fresh == Filter(Populate(list))
  <2>2. fresh \in Seq(Row) /\ Alike(fresh, list)
    BY FreshList
  <2>3. rows' \in {fresh, Restore(fresh, rows)}
    BY <2>1
  <2> HIDE DEF fresh
  <2>4. Alike(Restore(fresh, rows), fresh)
    <3>1. DOMAIN Restore(fresh, rows) = DOMAIN fresh
      BY DEF Restore
    <3>2. rows \in Seq(Row)
      BY DEF TypeOK
    <3> QED
      BY <2>2, <3>1, <3>2, Restored DEF Alike
  <2>5. Alike(rows', list)
    BY <2>2, <2>3, <2>4, AlikeSame
  <2>6. PICK other \in Lists : Alike(rows, other)
    BY <1>3 DEF Selection, Found
  <2>7. Alike(other, rows)
    BY <2>6 DEF Alike
  <2>8. Alike(list, other)
    BY DEF Session
  <2> QED
    BY <2>5, <2>7, <2>8, AlikeSame
<1>4. CASE AfterSwap
  <2>1. rows' \in {rows, SelectAll(rows)}
    BY <1>4 DEF AfterSwap, Resume, Complete
  <2>2. Alike(SelectAll(rows), rows)
    BY SelectAllKeeps DEF TypeOK
  <2> QED
    BY <1>a, <2>1, <2>2
<1>5. CASE BundleArrives \/ ExternalChange \/ DownloadEnds \/ UNCHANGED vars
  <2>1. rows' = rows
    BY <1>5 DEF BundleArrives, ExternalChange, DownloadEnds, vars
  <2> QED
    BY <1>a, <2>1
<1> QED
  BY <1>1, <1>2, <1>3, <1>4, <1>5 DEF Next, Update

\* Where the thread works on an item of the list
Busy == {"stage", "try", "extracting", "extracted", "drive", "call", "called"}

\* The thread works on the row itembar_act and its own count i point to, and installs the
\* driver of that row
OnItem(t) ==
  /\ pc[t] \in Busy => /\ act \in DOMAIN rows
                       /\ loc[t].i = act /\ loc[t].bar = act
                       /\ loc[t].hw = rows[act].match
  /\ pc[t] = "loop" => loc[t].bar = loc[t].i

\* itembar_act is nothing, the slot of the restore point, or the row of a driver
ActKept ==
  \/ act \in {EmptySlot, RestoreSlot}
  \/ act \in DOMAIN rows /\ rows[act].match # NoMatch /\ ~rows[act].name

Following == ActKept /\ \A t \in Threads : OnItem(t)

\* A step that moves neither the thread nor itembar_act
LEMMA FollowingStays ==
  ASSUME ActKept, rows = <<>> \/ Alike(rows', rows), act' = act
  PROVE  /\ ActKept'
         /\ \A t \in Threads : OnItem(t) /\ loc'[t] = loc[t]
              /\ (pc'[t] = pc[t] \/ pc'[t] \notin Busy \cup {"loop"}) => OnItem(t)'
<1>1. act \in DOMAIN rows =>
        /\ act \in DOMAIN rows' /\ rows'[act].match = rows[act].match
        /\ rows'[act].name <=> rows[act].name
  BY DEF Alike
<1>2. ActKept'
  BY <1>1 DEF ActKept
<1>3. ASSUME NEW t \in Threads, OnItem(t), loc'[t] = loc[t],
             pc'[t] = pc[t] \/ pc'[t] \notin Busy \cup {"loop"}
      PROVE  OnItem(t)'
  BY <1>1, <1>3 DEF OnItem, Busy
<1> QED
  BY <1>2, <1>3

\* The list is replaced: itembar_act stays on its item
LEMMA RemapStays ==
  ASSUME Session, TypeOK, Selection(rows), ActKept, act # RestoreSlot, NEW list \in Lists
  PROVE  Remap(Filter(Populate(list)), rows, act) = act
<1> DEFINE fresh == Filter(Populate(list))
<1>1. fresh \in Seq(Row) /\ Alike(fresh, list)
  BY FreshList
<1> HIDE DEF fresh
<1>2. rows \in Seq(Row)
  BY DEF TypeOK
<1>3. CASE act = EmptySlot
  BY <1>1, <1>2, <1>3, RemapEmpty DEF fresh
<1>4. CASE act \in DOMAIN rows /\ rows[act].match # NoMatch /\ ~rows[act].name
  <2>1. Regular(rows) /\ OneDevice(rows, rows)
    BY <1>2, FoundRegular DEF Session, Selection
  <2>2. PICK other \in Lists : Alike(rows, other)
    <3>1. rows # <<>>
      BY <1>4
    <3> QED
      BY <3>1 DEF Selection, Found
  <2>3. Alike(other, rows) /\ Alike(list, other)
    BY <2>2 DEF Alike, Session
  <2>4. Alike(fresh, rows)
    BY <1>1, <2>3, AlikeSame
  <2>5. Remap(fresh, rows, act) = act
    BY <1>1, <1>2, <1>4, <2>1, <2>4, RemapDriver DEF Session
  <2> QED
    BY <2>5 DEF fresh
<1> QED
  BY <1>3, <1>4 DEF ActKept

LEMMA SwapStays ==
  ASSUME Session, TypeOK, Selection(rows), ActKept, BundleSwap
  PROVE  act' = act
<1>0. PICK list \in Lists :
        LET fresh == Filter(Populate(list))
        IN  \E a : /\ a = IF discard THEN act ELSE Remap(fresh, rows, act)
                   /\ IF a = OutOfList THEN UNCHANGED act ELSE act' = a
  BY DEF BundleSwap
<1>1. PICK a :
        LET fresh == Filter(Populate(list))
        IN  /\ a = IF discard THEN act ELSE Remap(fresh, rows, act)
            /\ IF a = OutOfList THEN UNCHANGED act ELSE act' = a
  BY <1>0
<1> DEFINE fresh == Filter(Populate(list))
<1>2. fresh \in Seq(Row) /\ rows \in Seq(Row)
  BY FreshList DEF TypeOK
<1>3. /\ a = IF discard THEN act ELSE Remap(fresh, rows, act)
      /\ IF a = OutOfList THEN UNCHANGED act ELSE act' = a
  BY <1>1
<1>4. CASE act # RestoreSlot
  <2>1. Remap(fresh, rows, act) = act
    BY <1>4, RemapStays
  <2> HIDE DEF fresh
  <2> QED
    BY <1>3, <2>1
<1> HIDE DEF fresh
<1>5. CASE act = RestoreSlot
  BY <1>2, <1>3, <1>5, RemapRestore
<1> QED
  BY <1>4, <1>5

LEMMA OtherFollowing ==
  ASSUME Session, TypeOK, TypeOK', Selection(rows), Following,
         Gui \/ Update \/ ExternalChange \/ DownloadEnds, Next
  PROVE  Following'
<1>1. rows = <<>> \/ Alike(rows', rows)
  BY RowsStay
<1>2. act' = act
  <2>1. CASE BundleSwap
    BY <2>1, SwapStays DEF Following
  <2>2. CASE ~BundleSwap
    BY <2>2 DEF Gui, ClickInstall, ClickExtract, ClickToggle, ClickSelectAll, ClickSelectNone,
         ClickExpand, ClickProgress, ClickOption, ClickRescan, ClickClose, Answer, Edit, listVars,
         Update, BundleArrives, AfterSwap, ExternalChange, DownloadEnds
  <2> QED
    BY <2>1, <2>2
<1>3. loc' = loc /\ \A t \in Threads : pc'[t] = pc[t] \/ pc'[t] \notin Busy \cup {"loop"}
  BY OtherLock DEF Busy
<1> QED
  BY <1>1, <1>2, <1>3, FollowingStays DEF Following

LEMMA ThreadFollowing ==
  ASSUME Session, TypeOK, TypeOK', Selection(rows), Following, NEW t \in Threads, Thread(t), Next
  PROVE  Following'
<1> USE DEF listVars
<1>a. pc \in [Threads -> Labels] /\ loc \in [Threads -> Locals] /\ loc[t] \in Locals
      /\ rows \in Seq(Row) /\ loc[t].i \in Nat /\ loc[t].bar \in Int /\ act \in Int
  BY LocalsType DEF TypeOK
<1>b. rows = <<>> \/ Alike(rows', rows)
  BY RowsStay
<1>c. \A u \in Threads : u = t
  BY DEF Session
<1>d. OnItem(t) /\ ActKept
  BY DEF Following
<1>e. ASSUME act' = act, loc'[t] = loc[t], pc'[t] = pc[t] \/ pc'[t] \notin Busy \cup {"loop"}
      PROVE  Following'
  BY <1>b, <1>c, <1>d, <1>e, FollowingStays DEF Following
<1>f. ASSUME ActKept', OnItem(t)' PROVE Following'
  BY <1>c, <1>f DEF Following
<1>g. act' = act => ActKept'
  BY <1>b, <1>d, FollowingStays
\* The row the thread works on is the same after a step that leaves itembar_act
<1>h. act' = act /\ act \in DOMAIN rows =>
        act \in DOMAIN rows' /\ rows'[act].match = rows[act].match
  BY <1>b DEF Alike
<1>i. ASSUME NEW l, SetLoc(t, l) PROVE loc'[t] = l
  BY <1>a, <1>i DEF SetLoc
<1>j. ASSUME NEW label, Goto(t, label) PROVE pc'[t] = label
  BY <1>a, <1>j DEF Goto
\* The steps before the loop, and after it
<1>1. CASE Enter(t) \/ SelectDownloads(t) \/ AwaitDownload(t) \/ Downloaded(t)
  <2>1. act' = act /\ pc'[t] \in {"select", "download", "downloaded", "restore"}
    <3>1. CASE SelectDownloads(t)
      <4>1. Goto(t, "download") \/ Goto(t, "downloaded")
        BY <3>1 DEF SelectDownloads
      <4> QED
        BY <1>j, <3>1, <4>1 DEF SelectDownloads
    <3> QED
      BY <1>1, <1>j, <3>1 DEF Enter, AwaitDownload, Downloaded
  <2> QED
    BY <1>f, <1>g, <2>1 DEF OnItem, Busy
<1>2. CASE RestorePoint(t) \/ RestorePointDone(t) \/ Rescan(t)
  <2>1. act' \in {act, RestoreSlot}
    BY <1>2 DEF RestorePoint, RestorePointDone, Rescan
  <2>2. ActKept'
    BY <1>g, <2>1 DEF ActKept
  <2>3. pc'[t] \in {"loop", "finish", "creating"}
    BY <1>2, <1>j DEF RestorePoint, RestorePointDone, Rescan
  <2>4. pc'[t] = "loop" => Start(t)
    BY <1>2, <1>j DEF RestorePoint, RestorePointDone, Rescan
  <2>5. Start(t) => loc'[t].i = 1 /\ loc'[t].bar = 1
    BY <1>a, <1>i DEF Start, Locals
  <2> QED
    BY <1>f, <2>2, <2>3, <2>4, <2>5 DEF OnItem, Busy
<1>3. CASE NextItem(t)
  <2> DEFINE i == loc[t].i
             bar == loc[t].bar
             hits == {n \in 0..(Len(rows) - i) : bar + n \in DOMAIN rows /\ Eligible(rows[bar + n])}
             goes == mode = "INSTALLING" /\ hits # {}
  <2>0. rows' = rows /\ bar = i
    BY <1>3, <1>d DEF NextItem, OnItem
  <2>1. CASE goes
    <3>1. PICK n \in hits :
            /\ act' = i + n
            /\ SetLoc(t, [loc[t] EXCEPT !.i = i + n, !.bar = bar + n, !.barGen = gen,
                                        !.hw = rows[bar + n].match, !.hwGen = gen])
            /\ Goto(t, "stage")
      BY <1>3, <2>1, ZenonT(60) DEF NextItem
    <3>2. n \in Int /\ bar + n \in DOMAIN rows /\ Eligible(rows[bar + n])
      BY <1>a
    <3> HIDE DEF goes, hits
    <3>3. act' = bar + n /\ act' \in DOMAIN rows'
      BY <2>0, <3>1, <3>2
    <3>4. rows'[act'].match # NoMatch /\ ~rows'[act'].name
      BY <2>0, <3>2, <3>3 DEF Selection, Sound, Eligible
    <3>5. loc'[t].i = act' /\ loc'[t].bar = act' /\ loc'[t].hw = rows'[act'].match
      BY <1>a, <1>i, <2>0, <3>1, <3>3, ZenonT(60) DEF Locals
    <3>6. pc'[t] = "stage"
      BY <1>j, <3>1
    <3> QED
      BY <1>f, <3>3, <3>4, <3>5, <3>6 DEF ActKept, OnItem
  <2>2. CASE ~goes
    <3>1. Goto(t, "rescan") /\ act' = act
      BY <1>3, <2>2, ZenonT(60) DEF NextItem
    <3>2. pc'[t] = "rescan"
      BY <1>j, <3>1
    <3> QED
      BY <1>f, <1>g, <3>1, <3>2 DEF OnItem, Busy
  <2> QED
    BY <2>1, <2>2
\* The steps on an item
<1>4. CASE Stage(t) \/ TryExtract(t) \/ CallInstall(t)
  <2>1. act' = act /\ pc[t] \in Busy
    BY <1>4, ZenonT(60) DEF Stage, TryExtract, CallInstall, Busy
  <2>2. loc'[t].i = loc[t].i /\ loc'[t].bar = loc[t].bar /\ loc'[t].hw = loc[t].hw
    BY <1>a, <1>4, <1>i, ZenonT(60) DEF Stage, TryExtract, CallInstall, Locals
  <2>3. pc'[t] # "loop"
    BY <1>4, <1>j DEF Stage, TryExtract, CallInstall
  <2> QED
    BY <1>d, <1>f, <1>g, <1>h, <2>1, <2>2, <2>3 DEF OnItem
<1>5. CASE Extracted(t)
  <2>1. act' = act /\ pc[t] \in Busy
    BY <1>5 DEF Extracted, Busy
  <2>2. UNCHANGED <<pc, loc>> \/ (SetLoc(t, Refetch(t)) /\ pc'[t] \in {"try", "extracted"})
    BY <1>5, <1>j DEF Extracted
  <2>3. SetLoc(t, Refetch(t)) => /\ loc'[t].i = loc[t].i /\ loc'[t].bar = act
                                 /\ loc'[t].hw = loc[t].hw
    BY <1>a, <1>i DEF Refetch, Locals
  <2> QED
    BY <1>d, <1>e, <1>f, <1>g, <1>h, <2>1, <2>2, <2>3 DEF OnItem, Busy
<1>6. CASE AfterExtract(t)
  <2>1. act' = act /\ pc[t] \in Busy /\ pc'[t] = "drive"
    BY <1>6, <1>j DEF AfterExtract, Busy
  <2>2. SetLoc(t, [loc[t] EXCEPT !.hw = MatchAt(loc[t].bar), !.hwGen = gen])
    BY <1>6 DEF AfterExtract
  <2>3. loc'[t].i = loc[t].i /\ loc'[t].bar = loc[t].bar /\ loc'[t].hw = MatchAt(loc[t].bar)
    BY <1>a, <1>i, <2>2 DEF Locals
  <2> QED
    BY <1>d, <1>f, <1>g, <1>h, <2>1, <2>3 DEF OnItem, MatchAt
<1>7. CASE Drive(t)
  <2>1. act' = act /\ pc[t] \in Busy
    BY <1>7 DEF Drive, Busy
  <2>2. \/ UNCHANGED <<pc, loc>>
        \/ UNCHANGED loc /\ Goto(t, "call")
        \/ SetLoc(t, Advance(loc[t])) /\ Goto(t, "loop")
    BY <1>7 DEF Drive
  <2>3. SetLoc(t, Advance(loc[t])) => loc'[t].i = loc[t].i + 1 /\ loc'[t].bar = loc[t].bar + 1
    BY <1>a, <1>i DEF Advance, Locals
  <2> QED
    BY <1>d, <1>e, <1>f, <1>g, <1>h, <1>j, <2>1, <2>2, <2>3 DEF OnItem, Busy
<1>8. CASE Installed(t)
  <2>1. act' = act /\ pc[t] \in Busy
    BY <1>8 DEF Installed, Busy
  <2>2. \/ UNCHANGED <<pc, loc>>
        \/ SetLoc(t, Advance(Refetch(t))) /\ Goto(t, "loop")
    BY <1>8 DEF Installed
  <2>3. SetLoc(t, Advance(Refetch(t))) => loc'[t].i = loc[t].i + 1 /\ loc'[t].bar = act + 1
    BY <1>a, <1>i, ZenonT(60) DEF Advance, Refetch, Locals
  <2> QED
    BY <1>d, <1>e, <1>f, <1>g, <1>j, <2>1, <2>2, <2>3 DEF OnItem, Busy
<1>9. CASE Finish(t) \/ End(t) \/ Report(t)
  <2>1. act' \in {act, EmptySlot} /\ pc'[t] \in {"end", "report", "idle"}
    BY <1>9, <1>j DEF Finish, End, Report, Leave
  <2> QED
    BY <1>f, <1>g, <2>1 DEF ActKept, OnItem, Busy
<1> QED
  BY <1>1, <1>2, <1>3, <1>4, <1>5, <1>6, <1>7, <1>8, <1>9 DEF Thread

LEMMA NextFollowing ==
  ASSUME Session, TypeOK, TypeOK', Selection(rows), Following, [Next]_vars
  PROVE  Following'
<1>1. CASE Next
  BY <1>1, ThreadFollowing, OtherFollowing DEF Next
<1>2. CASE UNCHANGED vars
  BY <1>2 DEF vars, listVars, threadVars, Following, ActKept, OnItem
<1> QED
  BY <1>1, <1>2

\* In such a session itembar_act, itembar and i stay on one row while the thread works on it,
\* and hwidmatch is that row's
THEOREM ThreadFollows == ASSUME Session PROVE Spec => []Following
<1>1. Init => Following
  BY DEF Init, Following, ActKept, OnItem, Busy
<1>2. TypeOK /\ TypeOK' /\ Selection(rows) /\ Following /\ [Next]_vars => Following'
  BY NextFollowing
<1> QED
  BY <1>1, <1>2, TypeCorrect, SelectionKept, PTL DEF Spec, Session

LEMMA FollowingItem ==
  ASSUME Session, TypeOK, Selection(rows), Following, NEW t \in Threads, pc[t] \in Busy,
         NEW k \in DOMAIN rows, rows[k].match = loc[t].hw, ~rows[k].name
  PROVE  act = k
<1>1. act \in DOMAIN rows /\ rows[k].match = rows[act].match
  BY DEF Following, OnItem
<1>2. act \notin {EmptySlot, RestoreSlot}
  BY <1>1 DEF TypeOK, EmptySlot, RestoreSlot
<1>3. rows[act].match # NoMatch /\ ~rows[act].name
  BY <1>2 DEF Following, ActKept
<1>4. Regular(rows)
  BY FoundRegular DEF Session, Selection, TypeOK
<1> QED
  BY <1>1, <1>3, <1>4, OneDriverRow

\* While a driver is being installed, itembar_act is its row, however often the list is
\* replaced by one with the same rows: the result is written to the driver it is of
\* (manager.cpp 1914-1918, install.cpp 502)
THEOREM ActFollows == ASSUME Session PROVE Spec => []ActFollowsItem
<1>1. TypeOK /\ Selection(rows) /\ Following => ActFollowsItem
  BY FollowingItem DEF ActFollowsItem, Busy
<1> QED
  BY <1>1, TypeCorrect, SelectionKept, ThreadFollows, PTL DEF Session

----------------------------------------------------------------------------
(* No bad access without the restore point *)

\* Nothing has to do with the slot of the restore point
NoRestore == ~rp /\ act # RestoreSlot

LEMMA NextNoRestore ==
  ASSUME "restore" \notin Clicks, TypeOK, Session, Selection(rows), Following, NoRestore,
         [Next]_vars
  PROVE  NoRestore'
<1> USE DEF listVars, modeVars
<1>1. ASSUME NEW t \in Threads, Thread(t) PROVE NoRestore'
  <2>a. pc[t] \in Busy => act \in DOMAIN rows /\ loc[t].bar = act
    BY DEF Following, OnItem
  <2>b. act \in DOMAIN rows => act # RestoreSlot
    BY DEF TypeOK, RestoreSlot
  <2>1. CASE AfterExtract(t) \/ Drive(t) \/ Installed(t)
    <3>1. pc[t] \in Busy /\ act' = act
      BY <2>1 DEF AfterExtract, Drive, Installed, Busy
    <3>2. loc[t].bar # RestoreSlot /\ act # RestoreSlot
      BY <2>a, <2>b, <3>1
    <3>3. rp' = rp
      BY <2>1, <3>2 DEF AfterExtract, Drive, Installed, PutRp
    <3> QED
      BY <3>1, <3>3 DEF NoRestore
  <2>2. CASE RestorePoint(t) \/ RestorePointDone(t) \/ Finish(t) \/ End(t) \/ Report(t)
    BY <2>2 DEF RestorePoint, RestorePointDone, Finish, End, Report, Leave, NoRestore, EmptySlot,
       RestoreSlot
  <2>3. CASE NextItem(t)
    <3>1. rp' = rp
      BY <2>3 DEF NextItem
    <3>2. CASE act' = act
      BY <3>1, <3>2 DEF NoRestore
    <3>3. CASE act' # act
      <4>1. PICK n \in 0..(Len(rows) - loc[t].i) :
              loc[t].bar + n \in DOMAIN rows /\ act' = loc[t].i + n
        BY <2>3, <3>3, ZenonT(60) DEF NextItem
      <4>2. loc[t].bar = loc[t].i
        BY <2>3 DEF Following, OnItem, NextItem
      <4>3. act' \in DOMAIN rows
        BY <4>1, <4>2
      <4> QED
        BY <3>1, <4>3, SMTT(30) DEF NoRestore, TypeOK, RestoreSlot
    <3> QED
      BY <3>2, <3>3
  <2>4. CASE Enter(t) \/ SelectDownloads(t) \/ AwaitDownload(t) \/ Downloaded(t) \/ Stage(t)
             \/ TryExtract(t) \/ Extracted(t) \/ CallInstall(t) \/ Rescan(t)
    <3>1. rp' = rp /\ act' = act
      BY <2>4 DEF Enter, SelectDownloads, AwaitDownload, Downloaded, Stage, TryExtract, Extracted,
                CallInstall, Rescan
    <3> QED
      BY <3>1, SMTT(30) DEF NoRestore
  <2> QED
    BY <1>1, <2>1, <2>2, <2>3, <2>4 DEF Thread
<1>2. CASE BundleSwap
  <2>1. act' = act
    BY <1>2, SwapStays DEF Following
  <2> QED
    BY <1>2, <2>1 DEF BundleSwap, NoRestore
<1>3. CASE Gui \/ (Update /\ ~BundleSwap) \/ ExternalChange \/ DownloadEnds
  <2>1. CASE ClickOption
    <3>1. rp' = rp /\ act' = act
      BY <2>1 DEF ClickOption, User
    <3> QED
      BY <3>1 DEF NoRestore
  <2>2. CASE ~ClickOption
    <3>1. rp' = rp /\ act' = act
      BY <1>3, <2>2 DEF Gui, ClickInstall, ClickExtract, ClickToggle, ClickSelectAll,
         ClickSelectNone, ClickExpand, ClickProgress, ClickRescan, ClickClose, Answer, Edit,
         Update, BundleArrives, AfterSwap, ExternalChange, DownloadEnds
    <3> QED
      BY <3>1 DEF NoRestore
  <2> QED
    BY <2>1, <2>2
<1>4. CASE UNCHANGED vars
  BY <1>4 DEF vars, NoRestore
<1> QED
  BY <1>1, <1>2, <1>3, <1>4 DEF Next

\* An access that fails is one of a stop
LEMMA NextNoFault ==
  ASSUME Session, TypeOK, Selection(rows), Following, NoRestore, NoBadAccess, [Next]_vars
  PROVE  NoBadAccess'
<1> USE DEF listVars, modeVars, histVars
<1>a. rows \in Seq(Row) /\ DOMAIN rows = 1..Len(rows) /\ Len(rows) \in Nat
  BY DEF TypeOK
<1>1. CASE Next
  <2>a. ~fault
    BY <1>1 DEF Next, Alive, TypeOK
  <2>1. ASSUME NEW t \in Threads, Thread(t) PROVE fault' => mode' = "STOPPING"
    <3>a. pc[t] \in Busy => /\ act \in DOMAIN rows /\ loc[t].i = act /\ loc[t].bar = act
                            /\ loc[t].hw = rows[act].match /\ rows[act].match # NoMatch
      BY DEF Following, OnItem, ActKept, TypeOK, EmptySlot, RestoreSlot
    <3>1. CASE Downloaded(t)
      BY <2>a, <3>1 DEF Downloaded
    <3>2. CASE NextItem(t)
      <4>1. loc[t].bar = loc[t].i /\ loc[t].i \in Nat
        BY <3>2, LocalsType DEF Following, OnItem, NextItem
      <4>2. ~(loc[t].bar > loc[t].i)
        BY <4>1
      <4>3. fault' = fault
        BY <3>2, <4>2, ZenonT(60) DEF NextItem
      <4> QED
        BY <2>a, <4>3
    <3>3. CASE Stage(t)
      <4>0. act \in Int /\ pc[t] \in Busy
        BY <3>3 DEF Stage, Busy, TypeOK
      <4>1. ~(loc[t].bar > loc[t].i) /\ loc[t].bar <= loc[t].i
        BY <3>a, <4>0
      <4>2. \A k \in Batch(t) : rows[k].match # NoMatch
        BY SMTT(30) DEF Batch, Selection, Sound
      <4>3. fault' = fault
        BY <3>3, <4>1, <4>2 DEF Stage
      <4> QED
        BY <2>a, <4>3
    <3>4. CASE Extracted(t) \/ Installed(t) \/ Drive(t)
      <4>1. pc[t] \in Busy
        BY <3>4 DEF Extracted, Installed, Drive, Busy
      <4>2. ~(act > Len(rows)) /\ loc[t].i \in DOMAIN rows /\ loc[t].hw # NoMatch
        BY <1>a, <3>a, <4>1
      <4>3. fault' = fault
        BY <3>4, <4>2 DEF Extracted, Installed, Drive
      <4> QED
        BY <2>a, <4>3
    <3>5. CASE Enter(t) \/ SelectDownloads(t) \/ AwaitDownload(t) \/ RestorePoint(t)
               \/ RestorePointDone(t) \/ TryExtract(t) \/ AfterExtract(t) \/ CallInstall(t)
               \/ Rescan(t) \/ Finish(t) \/ End(t) \/ Report(t)
      BY <2>a, <3>5 DEF Enter, SelectDownloads, AwaitDownload, RestorePoint, RestorePointDone,
                TryExtract, AfterExtract, CallInstall, Rescan, Finish, End, Report
    <3> QED
      BY <2>1, <3>1, <3>2, <3>3, <3>4, <3>5 DEF Thread
  <2>2. CASE BundleSwap
    <3>1. act \in {EmptySlot} \/ act \in DOMAIN rows
      BY DEF Following, ActKept, NoRestore
    <3>0. PICK list \in Lists : \E a :
            LET fresh == Filter(Populate(list))
            IN  /\ a = IF discard THEN act ELSE Remap(fresh, rows, act)
                /\ IF a = OutOfList THEN Stop /\ UNCHANGED act ELSE act' = a /\ UNCHANGED fault
      BY <2>2 DEF BundleSwap
    <3>2. PICK a :
            LET fresh == Filter(Populate(list))
            IN  /\ a = IF discard THEN act ELSE Remap(fresh, rows, act)
                /\ IF a = OutOfList THEN Stop /\ UNCHANGED act ELSE act' = a /\ UNCHANGED fault
      BY <3>0
    <3>3. a = act
      <4> DEFINE fresh == Filter(Populate(list))
      <4>1. a = IF discard THEN act ELSE Remap(fresh, rows, act)
        BY <3>2
      <4>2. ~discard => Remap(fresh, rows, act) = act
        BY RemapStays DEF Following, NoRestore
      <4> HIDE DEF fresh
      <4> QED
        BY <4>1, <4>2
    <3>4. act # OutOfList
      BY <1>a, <3>1 DEF EmptySlot, OutOfList
    <3>5. fault' = fault
      BY <3>2, <3>3, <3>4
    <3> QED
      BY <2>a, <3>5 DEF NoBadAccess
  <2>3. CASE Gui \/ (Update /\ ~BundleSwap) \/ ExternalChange \/ DownloadEnds
    <3>1. fault' = fault
      BY <2>3 DEF Gui, ClickInstall, ClickExtract, ClickToggle, ClickSelectAll, ClickSelectNone,
         ClickExpand, ClickProgress, ClickOption, ClickRescan, ClickClose, Answer, Edit,
         Update, BundleArrives, AfterSwap, ExternalChange, DownloadEnds
    <3> QED
      BY <2>a, <3>1 DEF NoBadAccess
  <2> QED
    BY <1>1, <2>1, <2>2, <2>3 DEF Next, NoBadAccess
<1>2. CASE UNCHANGED vars
  BY <1>2 DEF vars, NoBadAccess
<1> QED
  BY <1>1, <1>2

\* No access leaves the list or goes through a null pointer, but of a stop, as long as no
\* restore point is asked for, whose slot restorepos does not keep apart from the rows
\* (manager.cpp 1914)
THEOREM AccessesGood == ASSUME Session, "restore" \notin Clicks PROVE Spec => []NoBadAccess
<1>1. Init => NoRestore /\ NoBadAccess
  BY DEF Init, NoRestore, NoBadAccess, EmptySlot, RestoreSlot
<1>2. TypeOK /\ Selection(rows) /\ Following /\ NoRestore /\ [Next]_vars => NoRestore'
  BY NextNoRestore
<1>3. TypeOK /\ Selection(rows) /\ Following /\ NoRestore /\ NoBadAccess /\ [Next]_vars =>
        NoBadAccess'
  BY NextNoFault
<1> QED
  BY <1>1, <1>2, <1>3, TypeCorrect, SelectionKept, ThreadFollows, PTL DEF Spec, Session

----------------------------------------------------------------------------
(* A driver is installed no more often than it was selected *)

\* A selection is one more than the installations so far, until the call has been made for it
CountedFor(m) ==
  /\ calls[m] <= picked[m]
  /\ \A t \in Threads : pc[t] = "call" /\ loc[t].hw = m => calls[m] < picked[m]
  /\ \/ \E t \in Threads : pc[t] = "called" /\ loc[t].hw = m
     \/ \A k \in DOMAIN rows : rows[k].checked /\ rows[k].match = m => calls[m] < picked[m]

Counted == \A m \in Matches : CountedFor(m)

\* What is newly selected is counted
Accounted(m) ==
  /\ picked'[m] >= picked[m]
  /\ \A k \in DOMAIN rows' :
       rows'[k].checked /\ rows'[k].match = m =>
         \/ picked'[m] > picked[m]
         \/ \E j \in DOMAIN rows : rows[j].checked /\ rows[j].match = m

LEMMA FewerAccounted ==
  ASSUME TypeOK, Fewer(rows', rows), picked' = picked, NEW m \in Matches
  PROVE  Accounted(m)
<1>1. picked[m] \in Nat
  BY DEF TypeOK
<1> QED
  BY <1>1 DEF Fewer, Alike, Accounted

LEMMA PickedAccounted ==
  ASSUME TypeOK, Alike(rows', rows), CountPicked(NowPicked(rows, rows')), NEW m \in Matches
  PROVE  Accounted(m)
<1>1. picked[m] \in Nat
  BY DEF TypeOK
<1>2. picked'[m] = IF m \in NowPicked(rows, rows') THEN picked[m] + 1 ELSE picked[m]
  BY DEF CountPicked
<1>3. ASSUME NEW k \in DOMAIN rows', rows'[k].checked, rows'[k].match = m
      PROVE  \/ m \in NowPicked(rows, rows')
             \/ rows[k].checked /\ rows[k].match = m /\ k \in DOMAIN rows
  <2>1. k \in DOMAIN rows /\ rows[k].match = m
    BY <1>3 DEF Alike
  <2>2. CASE ~rows[k].checked
    BY <1>3, <2>1, <2>2 DEF NowPicked
  <2> QED
    BY <2>1, <2>2
<1> QED
  BY <1>1, <1>2, <1>3 DEF Accounted

\* A step that installs nothing and leaves the threads where they are
LEMMA CountedStays ==
  ASSUME TypeOK, TypeOK', NEW m \in Matches, CountedFor(m), Accounted(m), calls' = calls,
         \A t \in Threads :
           /\ pc'[t] = "call" => pc[t] = "call" /\ loc'[t].hw = loc[t].hw
           /\ pc[t] = "called" => pc'[t] = "called" /\ loc'[t].hw = loc[t].hw
  PROVE  CountedFor(m)'
<1>1. /\ calls[m] \in Nat /\ picked[m] \in Nat /\ picked'[m] \in Nat /\ calls'[m] = calls[m]
      /\ picked'[m] >= picked[m]
  BY DEF TypeOK, Accounted
<1>2. calls'[m] <= picked'[m]
  BY <1>1 DEF CountedFor
<1>3. ASSUME NEW t \in Threads, pc'[t] = "call", loc'[t].hw = m PROVE calls'[m] < picked'[m]
  <2>1. calls[m] < picked[m]
    BY <1>3 DEF CountedFor
  <2> QED
    BY <1>1, <2>1
<1>4. CASE \E t \in Threads : pc[t] = "called" /\ loc[t].hw = m
  BY <1>2, <1>3, <1>4 DEF CountedFor
<1>5. CASE \A k \in DOMAIN rows : rows[k].checked /\ rows[k].match = m => calls[m] < picked[m]
  <2>1. ASSUME NEW k \in DOMAIN rows', rows'[k].checked, rows'[k].match = m
        PROVE  calls'[m] < picked'[m]
    <3>1. CASE picked'[m] > picked[m]
      BY <1>1, <3>1 DEF CountedFor
    <3>2. CASE \E j \in DOMAIN rows : rows[j].checked /\ rows[j].match = m
      <4>1. calls[m] < picked[m]
        BY <1>5, <3>2
      <4> QED
        BY <1>1, <4>1
    <3> QED
      BY <2>1, <3>1, <3>2 DEF Accounted
  <2> QED
    BY <1>2, <1>3, <2>1 DEF CountedFor
<1> QED
  BY <1>4, <1>5 DEF CountedFor

\* The GUI thread counts what it selects, and a replaced list selects nothing new
LEMMA OtherAccounted ==
  ASSUME Distinct, TypeOK, TypeOK', Selection(rows), Selection(rows'),
         Gui \/ Update \/ ExternalChange \/ DownloadEnds, NEW m \in Matches
  PROVE  Accounted(m)
<1> USE DEF listVars, histVars
<1>a. rows \in Seq(Row) /\ rows' \in Seq(Row) /\ picked[m] \in Nat
  BY DEF TypeOK
<1>b. Fewer(rows, rows) /\ Alike(rows, rows)
  BY DEF Fewer, Alike
<1>1. CASE ClickToggle \/ ClickSelectAll \/ ClickSelectNone \/ ClickExpand
  <2>1. CountPicked(NowPicked(rows, rows'))
    BY <1>1 DEF ClickToggle, ClickSelectAll, ClickSelectNone, ClickExpand, Edit
  <2>2. Alike(rows', rows)
    BY <1>1, GuiSelection DEF Gui
  <2> QED
    BY <2>1, <2>2, PickedAccounted
<1>2. CASE ClickProgress
  <2>1. rows' \in {rows, Cleared(rows)} /\ picked' = picked
    BY <1>2 DEF ClickProgress
  <2>2. Fewer(rows', rows)
    BY <1>a, <1>b, <2>1, FewerAll
  <2> QED
    BY <2>1, <2>2, FewerAccounted
<1>3. CASE BundleSwap
  <2>1. PICK list \in Lists :
          LET fresh == Filter(Populate(list))
          IN  rows' = IF discard THEN fresh ELSE Restore(fresh, rows)
    BY <1>3 DEF BundleSwap
  <2> DEFINE fresh == Filter(Populate(list))
  <2>2. /\ fresh \in Seq(Row) /\ Selection(fresh)
        /\ \A k \in DOMAIN fresh : ~fresh[k].checked
    BY FreshList
  <2>3. rows' \in {fresh, Restore(fresh, rows)}
    BY <2>1
  <2> HIDE DEF fresh
  <2>4. ASSUME NEW k \in DOMAIN rows', rows'[k].checked, rows'[k].match = m
        PROVE  \E j \in DOMAIN rows : rows[j].checked /\ rows[j].match = m
    <3>1. rows' = Restore(fresh, rows) /\ k \in DOMAIN fresh
      <4>1. rows' # fresh
        BY <2>2, <2>4
      <4>2. DOMAIN Restore(fresh, rows) = DOMAIN fresh
        BY DEF Restore
      <4> QED
        BY <2>3, <2>4, <4>1, <4>2
    <3>2. /\ Source(fresh, rows)[k] \in DOMAIN rows /\ rows[Source(fresh, rows)[k]].checked
          /\ fresh[k].match = rows[Source(fresh, rows)[k]].match
      BY <1>a, <2>2, <2>4, <3>1, SelectedFrom
    <3>3. rows'[k].match = fresh[k].match
      BY <1>a, <2>2, <3>1, Restored
    <3> QED
      BY <2>4, <3>2, <3>3
  <2>5. picked' = picked
    BY <1>3 DEF BundleSwap
  <2> QED
    BY <1>a, <2>4, <2>5 DEF Accounted
<1>4. CASE AfterSwap
  <2>1. CASE Resume
    <3>1. CountPicked(NowPicked(rows, rows')) /\ rows' \in {rows, SelectAll(rows)}
      BY <2>1 DEF Resume
    <3>2. Alike(rows', rows)
      BY <1>a, <1>b, <3>1, SelectAllKeeps
    <3> QED
      BY <3>1, <3>2, PickedAccounted
  <2>2. CASE Complete
    <3>1. picked' = picked
      BY <2>2 DEF Complete
    <3>2. rows' = rows \/ \A k \in DOMAIN rows' : ~rows'[k].checked
      BY <2>2 DEF Complete, NothingLeft
    <3> QED
      BY <1>a, <1>b, <3>1, <3>2, FewerAccounted DEF Accounted
  <2>3. CASE rows' = rows /\ picked' = picked
    BY <1>b, <2>3, FewerAccounted
  <2> QED
    BY <1>4, <2>1, <2>2, <2>3 DEF AfterSwap
<1>5. CASE ~(ClickToggle \/ ClickSelectAll \/ ClickSelectNone \/ ClickExpand \/ ClickProgress
             \/ BundleSwap \/ AfterSwap)
  <2>1. rows' = rows /\ picked' = picked
    BY <1>5 DEF Gui, ClickInstall, ClickExtract, ClickOption, ClickRescan, ClickClose, Answer,
         Update, BundleArrives, ExternalChange, DownloadEnds
  <2> QED
    BY <1>b, <2>1, FewerAccounted
<1> QED
  BY <1>1, <1>2, <1>3, <1>4, <1>5

LEMMA OtherCounted ==
  ASSUME Distinct, TypeOK, TypeOK', Selection(rows), Selection(rows'), Counted,
         Gui \/ Update \/ ExternalChange \/ DownloadEnds
  PROVE  Counted'
<1>1. calls' = calls
  BY DEF Gui, ClickInstall, ClickExtract, ClickToggle, ClickSelectAll, ClickSelectNone,
         ClickExpand, ClickProgress, ClickOption, ClickRescan, ClickClose, Answer, Edit, histVars,
         Update, BundleArrives, BundleSwap, AfterSwap, ExternalChange, DownloadEnds
<1>2. \A t \in Threads :
        /\ pc'[t] = "call" => pc[t] = "call" /\ loc'[t].hw = loc[t].hw
        /\ pc[t] = "called" => pc'[t] = "called" /\ loc'[t].hw = loc[t].hw
  BY OtherLock
<1>3. ASSUME NEW m \in Matches PROVE CountedFor(m)'
  BY <1>1, <1>2, OtherAccounted, CountedStays DEF Counted
<1> QED
  BY <1>3 DEF Counted

LEMMA ThreadCounted ==
  ASSUME Session, TypeOK, TypeOK', Selection(rows), Following, Counted, NEW t \in Threads, Thread(t)
  PROVE  Counted'
<1> USE DEF listVars, histVars
<1> SUFFICES ASSUME NEW m \in Matches PROVE CountedFor(m)'
  BY DEF Counted
<1>a. pc \in [Threads -> Labels] /\ loc \in [Threads -> Locals] /\ loc[t] \in Locals
      /\ rows \in Seq(Row) /\ calls \in [Matches -> Nat] /\ picked[m] \in Nat
  BY LocalsType DEF TypeOK
<1>b. \A u \in Threads : u = t
  BY DEF Session
<1>c. CountedFor(m) /\ Fewer(rows', rows)
  BY ThreadFewer, SMTT(30) DEF Counted
<1>d. picked' = picked
  BY DEF Thread, Enter, SelectDownloads, AwaitDownload, Downloaded, RestorePoint,
         RestorePointDone, NextItem, Stage, TryExtract, Extracted, AfterExtract, Drive,
         CallInstall, Installed, Rescan, Finish, End, Report, boundVars
<1>e. Accounted(m)
  BY <1>c, <1>d, FewerAccounted
<1>f. ASSUME calls' = calls, pc'[t] = "call" => pc[t] = "call" /\ loc'[t].hw = loc[t].hw,
             pc[t] = "called" => pc'[t] = "called" /\ loc'[t].hw = loc[t].hw
      PROVE  CountedFor(m)'
  BY <1>b, <1>c, <1>e, <1>f, CountedStays
<1>i. ASSUME NEW l, SetLoc(t, l) PROVE loc'[t] = l
  BY <1>a, <1>i DEF SetLoc
<1>j. ASSUME NEW label, Goto(t, label) PROVE pc'[t] = label
  BY <1>a, <1>j DEF Goto
<1>k. \A k \in DOMAIN rows' : k \in DOMAIN rows /\ rows'[k].match = rows[k].match
                             /\ (rows'[k].checked => rows[k].checked)
  BY <1>c DEF Fewer, Alike
<1>1. CASE Drive(t)
  <2>1. pc[t] = "drive" /\ calls' = calls
    BY <1>1 DEF Drive
  <2>2. CASE pc'[t] # "call"
    BY <1>f, <2>1, <2>2
  <2>3. CASE pc'[t] = "call"
    <3>1. loc' = loc /\ CheckedAt(loc[t].bar)
      BY <1>1, <1>j, <2>1, <2>3 DEF Drive
    <3>2. loc[t].bar = act /\ act \in DOMAIN rows /\ loc[t].hw = rows[act].match
      BY <2>1 DEF Following, OnItem, Busy
    <3>3. rows[act].checked
      BY <3>1, <3>2 DEF CheckedAt
    <3>4. \A k \in DOMAIN rows : rows[k].checked /\ rows[k].match = m => calls[m] < picked[m]
      BY <1>b, <1>c, <2>1 DEF CountedFor
    <3>5. loc'[t].hw = m => calls[m] < picked[m]
      BY <3>1, <3>2, <3>3, <3>4
    <3>6. \A k \in DOMAIN rows' : rows'[k].checked /\ rows'[k].match = m => calls[m] < picked[m]
      BY <1>k, <3>4
    <3>7. calls[m] <= picked[m]
      BY <1>c DEF CountedFor
    <3> QED
      BY <1>b, <1>d, <2>1, <3>5, <3>6, <3>7 DEF CountedFor
  <2> QED
    BY <2>2, <2>3
<1>2. CASE CallInstall(t)
  <2>1. pc[t] = "call" /\ pc'[t] = "called" /\ rows' = rows
    BY <1>2, <1>j DEF CallInstall
  <2>2. loc'[t].hw = loc[t].hw
    BY <1>2, <1>a, <1>i DEF CallInstall, Locals
  <2>3. calls'[m] = calls[m] \/ (loc[t].hw = m /\ calls'[m] = calls[m] + 1)
    BY <1>2, <1>a DEF CallInstall
  <2>4. calls[m] \in Nat
    BY <1>a
  <2>5. loc[t].hw = m => calls[m] < picked[m]
    BY <1>c, <2>1 DEF CountedFor
  <2>6. calls[m] <= picked[m]
    BY <1>c DEF CountedFor
  <2>7. calls'[m] <= picked'[m]
    BY <1>a, <1>d, <2>3, <2>4, <2>5, <2>6
  <2>8. loc[t].hw # m =>
          \A k \in DOMAIN rows' : rows'[k].checked /\ rows'[k].match = m => calls'[m] < picked'[m]
    BY <1>b, <1>c, <1>d, <2>1, <2>3 DEF CountedFor
  <2> QED
    BY <1>b, <2>1, <2>2, <2>7, <2>8 DEF CountedFor
<1>3. CASE Installed(t)
  <2>1. pc[t] = "called" /\ calls' = calls
    BY <1>3 DEF Installed
  <2>2. CASE pc' = pc /\ loc' = loc
    BY <1>f, <2>1, <2>2
  <2>3. CASE ~(pc' = pc /\ loc' = loc)
    <3>1. pc'[t] = "loop"
      BY <1>3, <1>j, <2>3 DEF Installed
    <3>2. ~rows'[act].checked
      <4> DEFINE shown == IF ~loc[t].ok /\ ~(mode = "STOPPING") /\ loc[t].i \in DOMAIN rows
                          THEN Expand(rows, loc[t].i) ELSE rows
      <4>0. act \in DOMAIN rows
        BY <2>1 DEF Following, OnItem, Busy
      <4>1. PICK st \in Outcomes(loc[t].ok) :
              rows' \in {Put(shown, act, st, FALSE), Unselect(Put(shown, act, st, FALSE))}
        BY <1>3, <2>3 DEF Installed, Marked
      <4>2. shown \in Seq(Row) /\ DOMAIN shown = DOMAIN rows
        <5>1. ASSUME NEW i \in DOMAIN rows
              PROVE  Expand(rows, i) \in Seq(Row) /\ DOMAIN Expand(rows, i) = DOMAIN rows
          <6>1. i \in Int
            BY <1>a
          <6> QED
            BY <1>a, <6>1, EditType DEF Expand
        <5> QED
          BY <1>a, <5>1
      <4> HIDE DEF shown
      <4>3. shown[act] \in Row
        BY <4>0, <4>2
      <4>4. Put(shown, act, st, FALSE)
              = [shown EXCEPT ![act] = [shown[act] EXCEPT !.status = st, !.checked = FALSE]]
        BY <4>0, <4>2 DEF Put
      <4> DEFINE marked == Put(shown, act, st, FALSE)
      <4>5. DOMAIN marked = DOMAIN rows /\ ~marked[act].checked
        BY <4>0, <4>2, <4>3, <4>4 DEF Row
      <4>6. marked \in Seq(Row)
        <5>1. st \in Statuses
          BY <4>1 DEF Outcomes, Statuses
        <5>2. act \in Int
          BY DEF TypeOK
        <5> QED
          BY <4>2, <5>1, <5>2, PutType
      <4> HIDE DEF marked
      <4>7. ~Unselect(marked)[act].checked
        <5>1. Unselect(marked)[act] = [marked[act] EXCEPT !.checked = FALSE]
          BY <4>0, <4>5 DEF Unselect
        <5>2. marked[act] \in Row
          BY <4>0, <4>5, <4>6
        <5> QED
          BY <5>1, <5>2 DEF Row
      <4> QED
        BY <4>1, <4>5, <4>7 DEF marked
    <3>3. ASSUME NEW k \in DOMAIN rows', rows'[k].checked, rows'[k].match = m
          PROVE  calls[m] < picked[m]
      <4>1. k \in DOMAIN rows /\ rows[k].checked /\ rows[k].match = m
        BY <1>k, <3>3
      <4>2. CASE loc[t].hw = m
        <5>1. ~rows[k].name
          BY <4>1 DEF Selection, Sound
        <5>2. act = k
          BY <2>1, <4>1, <4>2, <5>1, FollowingItem DEF Busy
        <5> QED
          BY <3>2, <3>3, <5>2
      <4>3. CASE loc[t].hw # m
        BY <1>b, <1>c, <4>1, <4>3 DEF CountedFor
      <4> QED
        BY <4>2, <4>3
    <3>4. calls[m] <= picked[m]
      BY <1>c DEF CountedFor
    <3> QED
      BY <1>b, <1>d, <2>1, <3>1, <3>3, <3>4 DEF CountedFor
  <2> QED
    BY <2>2, <2>3
<1>4. CASE ~(Drive(t) \/ CallInstall(t) \/ Installed(t))
  <2>1. calls' = calls /\ pc[t] # "called"
    BY <1>4 DEF Thread, Enter, SelectDownloads, AwaitDownload, Downloaded, RestorePoint,
         RestorePointDone, NextItem, Stage, TryExtract, Extracted, AfterExtract, Rescan, Finish,
         End, Report
  <2>2. pc'[t] # "call"
    <3>1. CASE Stage(t) \/ Extracted(t) \/ SelectDownloads(t)
      <4>1. \/ UNCHANGED pc
            \/ \E label \in {"drive", "try", "extracted", "download", "downloaded"} : Goto(t, label)
        <5>1. \A found \in BOOLEAN :
                (IF found THEN "try" ELSE "extracted") \in {"try", "extracted"}
          BY SMTT(30)
        <5> QED
          BY <3>1, <5>1 DEF Stage, Extracted, SelectDownloads
      <4>2. pc[t] # "call"
        BY <3>1 DEF Stage, Extracted, SelectDownloads
      <4> QED
        BY <1>j, <4>1, <4>2, SMTT(30)
    <3>2. CASE NextItem(t)
      <4>1. Goto(t, "stage") \/ Goto(t, "rescan")
        BY <3>2, ZenonT(60) DEF NextItem
      <4> QED
        BY <1>j, <4>1
    <3>3. CASE ~(Stage(t) \/ Extracted(t) \/ SelectDownloads(t) \/ NextItem(t))
      BY <1>4, <1>j, <3>3 DEF Thread, Enter, AwaitDownload, Downloaded, RestorePoint,
         RestorePointDone, TryExtract, AfterExtract, Rescan, Finish, End, Report, Leave
    <3> QED
      BY <3>1, <3>2, <3>3
  <2> QED
    BY <1>f, <2>1, <2>2, SMTT(30)
<1> QED
  BY <1>1, <1>2, <1>3, <1>4

LEMMA NextCounted ==
  ASSUME Session, TypeOK, TypeOK', Selection(rows), Following, Counted, [Next]_vars
  PROVE  Counted'
<1>1. Selection(rows')
  BY NextSelection DEF Session
<1>2. CASE Next
  BY <1>1, <1>2, ThreadCounted, OtherCounted DEF Next, Session
<1>3. CASE UNCHANGED vars
  BY <1>3 DEF vars, listVars, threadVars, histVars, Counted, CountedFor
<1> QED
  BY <1>2, <1>3

\* A driver is installed no more often than it was selected, however often the loop goes
\* round and the list is replaced by one with the same rows (install.cpp 502-540)
THEOREM InstalledWhenPicked == ASSUME Session PROVE Spec => []InstalledAsPicked
<1>1. Init => Counted
  BY DEF Init, Counted, CountedFor
<1>2. TypeOK /\ TypeOK' /\ Selection(rows) /\ Following /\ Counted /\ [Next]_vars => Counted'
  BY NextCounted
<1>3. Counted => InstalledAsPicked
  BY DEF Counted, CountedFor, InstalledAsPicked
<1> QED
  BY <1>1, <1>2, <1>3, TypeCorrect, SelectionKept, ThreadFollows, PTL DEF Spec, Session

----------------------------------------------------------------------------
(* A row that says its driver is installed *)

Done == {"OK", "REBOOT"}

\* new says of no more rows that they are done
NoNews(new, old) ==
  /\ Alike(new, old)
  /\ \A k \in DOMAIN new : new[k].status \in Done => old[k].status \in Done

LEMMA NoNewsTwice ==
  ASSUME NEW rs, NEW qs, NEW ps, NoNews(rs, qs), NoNews(qs, ps)
  PROVE  NoNews(rs, ps)
  BY DEF NoNews, Alike

\* The edits that show no result
LEMMA NoNewsEdits ==
  ASSUME NEW rs \in Seq(Row), NEW k \in DOMAIN rs
  PROVE  NoNews(Expand(rs, k), rs) /\ NoNews(Collapse(rs, k), rs)
<1>1. \A j \in DOMAIN rs : rs[j] \in Row
  OBVIOUS
<1>2. NoNews(rs, rs)
  BY DEF NoNews, Alike
<1>3. NoNews(Expand(rs, k), rs)
  <2>1. CASE 2 \in rs[k].active
    BY <1>2, <2>1 DEF Expand
  <2>2. CASE 2 \notin rs[k].active
    <3>1. Alike(Expand(rs, k), rs)
      BY FewerEdits DEF Fewer, Statuses
    <3>2. ASSUME NEW j \in DOMAIN rs PROVE Expand(rs, k)[j].status = rs[j].status
      BY <1>1, <2>2 DEF Expand, Row
    <3> QED
      BY <3>1, <3>2 DEF NoNews, Alike
  <2> QED
    BY <2>1, <2>2
<1>4. NoNews(Collapse(rs, k), rs)
  <2>1. CASE 2 \notin rs[k].active
    BY <1>2, <2>1 DEF Collapse
  <2>2. CASE 2 \in rs[k].active
    <3>1. Alike(Collapse(rs, k), rs)
      BY FewerEdits DEF Fewer, Statuses
    <3>2. ASSUME NEW j \in DOMAIN rs PROVE Collapse(rs, k)[j].status = rs[j].status
      BY <1>1, <2>2 DEF Collapse, Row
    <3> QED
      BY <3>1, <3>2 DEF NoNews, Alike
  <2> QED
    BY <2>1, <2>2
<1> QED
  BY <1>3, <1>4

LEMMA NoNewsAll ==
  ASSUME NEW rs \in Seq(Row)
  PROVE  /\ NoNews(Unselect(rs), rs) /\ NoNews(Filter(rs), rs) /\ NoNews(Cleared(rs), rs)
         /\ NoNews(SelectAll(rs), rs)
<1>1. \A j \in DOMAIN rs : rs[j] \in Row
  OBVIOUS
<1>2. NoNews(Unselect(rs), rs)
  BY <1>1 DEF Unselect, NoNews, Alike, Row
<1>3. ASSUME NEW qs \in Seq(Row) PROVE NoNews(Filter(qs), qs)
  <2>1. Alike(Filter(qs), qs)
    BY FewerAll DEF Fewer
  <2>2. ASSUME NEW k \in DOMAIN qs PROVE Filter(qs)[k].status = qs[k].status
    <3> DEFINE r == qs[k]
               visible == /\ ~r.name
                          /\ \/ r.match \in Shown
                             \/ r.match # NoMatch /\ (r.checked \/ r.status # "none")
    <3>1. r \in Row /\ visible \in BOOLEAN
      OBVIOUS
    <3>2. Filter(qs)[k] = [r EXCEPT !.active = IF visible THEN {1} ELSE {},
                                    !.checked = r.checked /\ visible /\ r.match # NoMatch]
      BY DEF Filter
    <3> HIDE DEF visible
    <3> QED
      BY <3>1, <3>2 DEF Row
  <2> QED
    BY <2>1, <2>2 DEF NoNews, Alike
<1>4. NoNews(Cleared(rs), rs)
  <2> DEFINE qs == [k \in DOMAIN rs |-> [rs[k] EXCEPT !.status = "none"]]
  <2>1. qs \in Seq(Row)
    <3>1. qs \in [DOMAIN rs -> Row]
      BY <1>1 DEF Row, Statuses
    <3> QED
      BY <3>1, SamePositions
  <2>2. NoNews(qs, rs)
    BY <1>1 DEF NoNews, Alike, Row, Done
  <2>3. Cleared(rs) = Filter(qs)
    BY DEF Cleared
  <2> HIDE DEF qs
  <2> QED
    BY <1>3, <2>1, <2>2, <2>3, NoNewsTwice
<1>5. NoNews(SelectAll(rs), rs)
  <2> DEFINE qs == SelectAll(rs)
  <2>1. ASSUME NEW k \in DOMAIN rs
        PROVE  /\ qs[k].match = rs[k].match /\ qs[k].dev = rs[k].dev
               /\ qs[k].name <=> rs[k].name
               /\ qs[k].status = rs[k].status
    <3>1. FirstOfGroup(rs, k) \in BOOLEAN
      BY DEF FirstOfGroup
    <3>2. qs[k] = [rs[k] EXCEPT !.checked = FirstOfGroup(rs, k) /\ rs[k].status = "none"]
      BY DEF SelectAll
    <3> HIDE DEF qs
    <3> QED
      BY <1>1, <3>1, <3>2 DEF Row
  <2>2. DOMAIN qs = DOMAIN rs
    BY DEF SelectAll
  <2> HIDE DEF qs
  <2>3. NoNews(qs, rs)
    BY <2>1, <2>2 DEF NoNews, Alike
  <2> QED
    BY <2>3 DEF qs
<1> QED
  BY <1>2, <1>3, <1>4, <1>5

LEMMA NoNewsPut ==
  ASSUME NEW rs \in Seq(Row), NEW k \in Int, NEW st \in Statuses, NEW on \in BOOLEAN,
         st \in Done /\ k \in DOMAIN rs => rs[k].status \in Done
  PROVE  NoNews(Put(rs, k, st, on), rs)
<1>1. \A j \in DOMAIN rs : rs[j] \in Row
  OBVIOUS
<1>2. CASE k \notin DOMAIN rs
  BY <1>2 DEF Put, NoNews, Alike
<1>3. CASE k \in DOMAIN rs
  <2>1. Put(rs, k, st, on) = [rs EXCEPT ![k] = [rs[k] EXCEPT !.status = st, !.checked = on]]
    BY <1>1, <1>3 DEF Put
  <2> QED
    BY <1>1, <1>3, <2>1 DEF NoNews, Alike, Row
<1> QED
  BY <1>2, <1>3

LEMMA NoNewsToggled ==
  ASSUME NEW rs \in Seq(Row), NEW k \in DOMAIN rs
  PROVE  NoNews(Toggled(rs, k), rs)
<1> DEFINE on == ~rs[k].checked
           st == IF mode = "NONE" THEN rs[k].status
                 ELSE IF ~on THEN "STOPPING"
                 ELSE IF rs[k].status = "STOPPING" THEN "none" ELSE rs[k].status
           flipped == [j \in DOMAIN rs |->
                         IF j = k THEN [rs[j] EXCEPT !.checked = on, !.status = st]
                         ELSE IF rs[j].dev = rs[k].dev THEN [rs[j] EXCEPT !.checked = FALSE]
                         ELSE rs[j]]
<1>1. \A j \in DOMAIN rs : rs[j] \in Row
  OBVIOUS
<1>2. on \in BOOLEAN /\ st \in Statuses /\ (st \in Done => rs[k].status \in Done)
  BY <1>1 DEF Row, Statuses, Done
<1>3. Toggled(rs, k) = IF on THEN Collapse(flipped, k) ELSE flipped
  BY DEF Toggled
<1>4. ASSUME NEW j \in DOMAIN rs
      PROVE  /\ flipped[j] \in Row
             /\ flipped[j].match = rs[j].match /\ flipped[j].dev = rs[j].dev
             /\ flipped[j].name <=> rs[j].name
             /\ flipped[j].status \in Done => rs[j].status \in Done
  <2>1. CASE j = k
    <3>1. flipped[j] = [rs[j] EXCEPT !.checked = on, !.status = st]
      BY <2>1
    <3> HIDE DEF on, st, flipped
    <3> QED
      BY <1>1, <1>2, <2>1, <3>1 DEF Row
  <2>2. CASE j # k /\ rs[j].dev = rs[k].dev
    <3>1. flipped[j] = [rs[j] EXCEPT !.checked = FALSE]
      BY <2>2
    <3> HIDE DEF on, st, flipped
    <3> QED
      BY <1>1, <2>2, <3>1 DEF Row
  <2>3. CASE j # k /\ rs[j].dev # rs[k].dev
    <3>1. flipped[j] = rs[j]
      BY <2>3
    <3> HIDE DEF on, st, flipped
    <3> QED
      BY <1>1, <2>3, <3>1
  <2> QED
    BY <2>1, <2>2, <2>3
<1>5. DOMAIN flipped = DOMAIN rs
  OBVIOUS
<1> HIDE DEF on, st, flipped
<1>6. flipped \in Seq(Row)
  <2>1. flipped \in [DOMAIN rs -> Row]
    BY <1>4, <1>5 DEF flipped
  <2> QED
    BY <2>1, SamePositions
<1>7. NoNews(flipped, rs)
  BY <1>4, <1>5 DEF NoNews, Alike
<1>8. NoNews(Collapse(flipped, k), flipped)
  BY <1>5, <1>6, NoNewsEdits
<1> QED
  BY <1>3, <1>7, <1>8, NoNewsTwice

\* Only the end of a driver's installation shows a result
LEMMA ThreadNoNews ==
  ASSUME TypeOK, NEW t \in Threads, Thread(t), ~Installed(t)
  PROVE  NoNews(rows', rows)
<1> USE DEF listVars
<1>a. rows \in Seq(Row) /\ loc[t].bar \in Int /\ \A k \in DOMAIN rows : rows[k] \in Row
  <2>1. rows \in Seq(Row) /\ loc[t].bar \in Int
    BY LocalsType DEF TypeOK
  <2> QED
    BY <2>1
<1>b. NoNews(rows, rows)
  BY DEF NoNews, Alike
<1>c. \A k \in Int : /\ CheckedAt(k) \in BOOLEAN /\ StatusAt(k) \in Statuses
                     /\ k \in DOMAIN rows => StatusAt(k) = rows[k].status
  BY ReadType DEF StatusAt
<1>d. \A st \in {"STOPPING", "EXTRACT", "FAILED", "EXTR_FAILED", "INSTALL", "EXTR_OK"} :
        st \in Statuses /\ st \notin Done
  BY DEF Statuses, Done
<1>1. CASE Downloaded(t)
  <2> DEFINE marked == [rows EXCEPT ![loc[t].bar].status = "STOPPING"]
  <2>1. CASE rows' # rows
    <3>1. loc[t].bar \in DOMAIN rows /\ rows' \in {marked, Unselect(marked)}
      BY <1>1, <2>1 DEF Downloaded
    <3>2. rows[loc[t].bar] \in Row /\ [rows[loc[t].bar] EXCEPT !.status = "STOPPING"] \in Row
      BY <1>a, <1>d, <3>1 DEF Row
    <3>3. marked = [rows EXCEPT ![loc[t].bar] = [rows[loc[t].bar] EXCEPT !.status = "STOPPING"]]
      OBVIOUS
    <3>4. marked \in Seq(Row)
      BY <1>a, <3>1, <3>2, <3>3
    <3>5. NoNews(marked, rows)
      BY <1>a, <3>1, <3>2, <3>3 DEF NoNews, Alike, Row, Done
    <3> HIDE DEF marked
    <3>6. NoNews(Unselect(marked), marked)
      BY <3>4, NoNewsAll
    <3> QED
      BY <3>1, <3>5, <3>6, NoNewsTwice
  <2> QED
    BY <1>b, <2>1
<1>2. CASE Stage(t)
  <2>1. rows' \in {rows, Put(rows, loc[t].bar, "EXTRACT", CheckedAt(loc[t].bar)),
                    Put(rows, loc[t].bar, "FAILED", FALSE)}
    BY <1>2 DEF Stage
  <2> QED
    BY <1>a, <1>b, <1>c, <1>d, <2>1, NoNewsPut
<1>3. CASE AfterExtract(t) \/ Drive(t)
  <2>1. PICK st \in {"STOPPING", "EXTR_FAILED", "EXTR_OK", "INSTALL", StatusAt(loc[t].bar)},
             on \in BOOLEAN :
          rows' = rows \/ rows' = Put(rows, loc[t].bar, st, on)
    <3>1. CASE AfterExtract(t)
      <4> DEFINE st == IF mode = "STOPPING" THEN "STOPPING" ELSE StatusAt(loc[t].bar)
                 fails == loc[t].ok /\ st # "STOPPING"
                 after == IF fails THEN "EXTR_FAILED" ELSE st
                 on == CheckedAt(loc[t].bar) /\ ~fails
      <4>1. rows' = Put(rows, loc[t].bar, after, on)
        BY <3>1 DEF AfterExtract
      <4>2. after \in {"STOPPING", "EXTR_FAILED", StatusAt(loc[t].bar)} /\ on \in BOOLEAN
        BY <1>a, <1>c
      <4> HIDE DEF after, on
      <4> QED
        BY <4>1, <4>2
    <3>2. CASE Drive(t)
      <4> DEFINE left == IF CheckedAt(loc[t].bar) THEN "EXTR_OK" ELSE StatusAt(loc[t].bar)
      <4>1. rows' \in {rows, Put(rows, loc[t].bar, left, FALSE),
                        Put(rows, loc[t].bar, "INSTALL", TRUE)}
        BY <3>2 DEF Drive
      <4>2. left \in {"EXTR_OK", StatusAt(loc[t].bar)}
        OBVIOUS
      <4> HIDE DEF left
      <4> QED
        BY <4>1, <4>2
    <3> QED
      BY <1>3, <3>1, <3>2
  <2>2. /\ st \in Statuses
        /\ st \in Done /\ loc[t].bar \in DOMAIN rows => rows[loc[t].bar].status \in Done
    BY <1>a, <1>c, <1>d
  <2> QED
    BY <1>a, <1>b, <2>1, <2>2, NoNewsPut
<1>4. CASE Finish(t)
  <2>1. rows' \in {rows, Cleared(rows)}
    BY <1>4 DEF Finish
  <2> QED
    BY <1>a, <1>b, <2>1, NoNewsAll
<1>5. CASE ~(Downloaded(t) \/ Stage(t) \/ AfterExtract(t) \/ Drive(t) \/ Finish(t))
  <2>1. rows' = rows
    BY <1>5 DEF Thread, Enter, SelectDownloads, AwaitDownload, RestorePoint, RestorePointDone,
                NextItem, TryExtract, Extracted, CallInstall, Rescan, End, Report
  <2> QED
    BY <1>b, <2>1, SMTT(30)
<1> QED
  BY <1>1, <1>2, <1>3, <1>4, <1>5

LEMMA OtherNoNews ==
  ASSUME TypeOK, Gui \/ Update \/ ExternalChange \/ DownloadEnds, ~BundleSwap
  PROVE  NoNews(rows', rows)
<1> USE DEF listVars
<1>a. rows \in Seq(Row) /\ NoNews(rows, rows)
  BY DEF TypeOK, NoNews, Alike
<1>1. CASE ClickToggle
  <2>1. PICK k \in DOMAIN rows : rows' = Toggled(rows, k)
    BY <1>1 DEF ClickToggle, Edit
  <2> QED
    BY <1>a, <2>1, NoNewsToggled
<1>2. CASE ClickExpand
  <2>1. PICK k \in DOMAIN rows : rows' \in {Expand(rows, k), Collapse(rows, k)}
    BY <1>2 DEF ClickExpand, Edit
  <2> QED
    BY <1>a, <2>1, NoNewsEdits
<1>3. CASE ClickSelectAll \/ ClickSelectNone \/ ClickProgress \/ AfterSwap
  <2>1. rows' \in {rows, SelectAll(rows), Unselect(rows), Cleared(rows)}
    BY <1>3 DEF ClickSelectAll, ClickSelectNone, ClickProgress, Edit, AfterSwap, Resume, Complete
  <2> QED
    BY <1>a, <2>1, NoNewsAll
<1>4. CASE ~(ClickToggle \/ ClickExpand \/ ClickSelectAll \/ ClickSelectNone \/ ClickProgress
             \/ AfterSwap)
  <2>1. rows' = rows
    BY <1>4 DEF Gui, ClickInstall, ClickExtract, ClickOption, ClickRescan, ClickClose, Answer,
         Update, BundleArrives, ExternalChange, DownloadEnds
  <2> QED
    BY <1>a, <2>1
<1> QED
  BY <1>1, <1>2, <1>3, <1>4

\* The rows that are done are rows of drivers that were installed
Truth(rs, installs) ==
  \A k \in DOMAIN rs :
    rs[k].status \in Done => rs[k].match \in Matches /\ installs[rs[k].match] > 0

LEMMA NoNewsTruth ==
  ASSUME NEW new, NEW old, NEW installs, NoNews(new, old), Truth(old, installs)
  PROVE  Truth(new, installs)
  BY DEF NoNews, Alike, Truth

\* A scan finds no results, and in such a session the rows that are there
LEMMA FreshAlike ==
  ASSUME Session, NEW list \in Lists
  PROVE  /\ \A k \in DOMAIN Filter(Populate(list)) : Filter(Populate(list))[k].status \notin Done
         /\ Selection(rows) /\ rows # <<>> => Alike(Filter(Populate(list)), rows)
<1> DEFINE rs == Populate(list)
<1>1. rs \in Seq(Row) /\ \A k \in DOMAIN rs : rs[k].status = "none"
  BY PopulateType DEF Populate
<1> HIDE DEF rs
<1>2. NoNews(Filter(rs), rs)
  BY <1>1, NoNewsAll
<1>3. \A k \in DOMAIN Filter(rs) : Filter(rs)[k].status \notin Done
  BY <1>1, <1>2 DEF NoNews, Alike, Done
<1>4. ASSUME Selection(rows), rows # <<>> PROVE Alike(Filter(rs), rows)
  <2>1. Alike(Filter(rs), list)
    BY FreshList DEF rs
  <2>2. PICK other \in Lists : Alike(rows, other)
    BY <1>4 DEF Selection, Found
  <2>3. Alike(list, other) /\ Alike(other, rows)
    BY <2>2 DEF Session, Alike
  <2> QED
    BY <2>1, <2>3, AlikeSame
<1> QED
  BY <1>3, <1>4 DEF rs

\* restorepos gives a result back to the driver it is of, and to no other row
LEMMA SwapTruth ==
  ASSUME Session, TypeOK, Selection(rows), Truth(rows, calls), BundleSwap
  PROVE  Truth(rows', calls)
<1>1. PICK list \in Lists :
        LET fresh == Filter(Populate(list))
        IN  rows' = IF discard THEN fresh ELSE Restore(fresh, rows)
  BY DEF BundleSwap
<1> DEFINE fresh == Filter(Populate(list))
<1>2. /\ fresh \in Seq(Row) /\ rows \in Seq(Row)
      /\ \A k \in DOMAIN fresh : fresh[k].status \notin Done
      /\ rows # <<>> => Alike(fresh, rows)
  BY FreshList, FreshAlike DEF TypeOK
<1>3. rows' \in {fresh, Restore(fresh, rows)}
  BY <1>1
<1> HIDE DEF fresh
<1>4. Truth(fresh, calls)
  BY <1>2 DEF Truth
<1>5. ASSUME NEW k \in DOMAIN fresh, Restore(fresh, rows)[k].status \in Done
      PROVE  fresh[k].match \in Matches /\ calls[fresh[k].match] > 0
  <2> DEFINE j == Source(fresh, rows)[k]
  <2>1. j \in DOMAIN rows /\ rows[j].status \in Done
    BY <1>2, <1>5, Restored
  <2>2. SameItem(fresh[k], rows[j])
    BY <1>2, <2>1, Takes
  <2> HIDE DEF j
  <2>3. fresh[k] \in Row /\ rows[j] \in Row
    BY <1>2, <2>1
  <2>4. rows[j].match \in Matches /\ calls[rows[j].match] > 0
    BY <2>1 DEF Truth
  <2>5. rows[j].match # NoMatch
    BY <2>4, MatchAssumption
  <2>6. Distinct /\ (SameItem(fresh[k], rows[j])
           <=> IF fresh[k].match # NoMatch /\ rows[j].match # NoMatch
               THEN fresh[k].match = rows[j].match
               ELSE Label[fresh[k].dev] # "" /\ Label[fresh[k].dev] = Label[rows[j].dev])
    BY <2>3, SameItemIs DEF Session
  <2>7. CASE fresh[k].match = NoMatch
    <3>1. Label[fresh[k].dev] # "" /\ Label[fresh[k].dev] = Label[rows[j].dev]
      BY <2>2, <2>6, <2>7
    <3>2. k \in DOMAIN rows /\ rows[k].match = NoMatch /\ rows[k].dev = fresh[k].dev
      BY <1>2, <2>1, <2>7 DEF Alike
    <3>3. j # k
      BY <2>5, <3>2
    <3>4. Regular(rows)
      BY <1>2, <2>6, FoundRegular DEF Selection
    <3> QED
      BY <2>1, <3>1, <3>2, <3>3, <3>4 DEF Regular
  <2> QED
    BY <2>2, <2>4, <2>5, <2>6, <2>7
<1>6. Truth(Restore(fresh, rows), calls)
  <2>1. DOMAIN Restore(fresh, rows) = DOMAIN fresh
    BY DEF Restore
  <2>2. \A k \in DOMAIN fresh : Restore(fresh, rows)[k].match = fresh[k].match
    BY <1>2, Restored
  <2> QED
    BY <1>5, <2>1, <2>2 DEF Truth
<1> QED
  BY <1>3, <1>4, <1>6

\* Nobody asked for an automatic installation, at the start or by "restart when done"
ManualOnly == ~autoinst /\ ~reboot

\* From the time the thread has the lock to its end, the mode is that of an installation
Going == \A t \in Threads : pc[t] \notin {"idle", "enter", "end"} => mode \in {"INSTALLING", "STOPPING"}

\* When a call has returned that a stop did not prevent, the driver was installed
Told ==
  \A t \in Threads :
    pc[t] = "called" /\ mode # "STOPPING" => loc[t].hw \in Matches /\ calls[loc[t].hw] > 0

Reported == ManualOnly /\ Going /\ Told /\ Truth(rows, calls)

\* What the other processes do to an installation: at most they stop it
LEMMA OtherMode ==
  ASSUME ManualOnly, "reboot" \notin Clicks, Gui \/ Update \/ ExternalChange \/ DownloadEnds
  PROVE  /\ ManualOnly' /\ calls' = calls
         /\ mode \in {"INSTALLING", "STOPPING"} => mode' \in {mode, "STOPPING"}
<1> USE DEF modeVars, histVars
<1> DEFINE Stops == mode \in {"INSTALLING", "STOPPING"} => mode' \in {mode, "STOPPING"}
<1>a. ASSUME autoinst' = autoinst, reboot' = reboot PROVE ManualOnly'
  BY <1>a, Zenon DEF ManualOnly
<1>1. CASE Gui
  <2>1. CASE ClickInstall \/ ClickExtract \/ ClickToggle \/ ClickSelectAll \/ ClickSelectNone
             \/ ClickExpand
    <3>1. autoinst' = autoinst /\ reboot' = reboot /\ calls' = calls /\ mode' = mode
      BY <2>1 DEF ClickInstall, ClickExtract, ClickToggle, ClickSelectAll, ClickSelectNone,
         ClickExpand, Edit, Spawn
    <3> QED
      BY <1>a, <3>1
  <2>2. CASE ClickProgress \/ ClickRescan \/ ClickClose
    <3>1. autoinst' = autoinst /\ reboot' = reboot /\ calls' = calls /\ Stops
      BY <2>2 DEF ClickProgress, ClickRescan, ClickClose
    <3> QED
      BY <1>a, <3>1
  <2>3. CASE ClickOption
    <3>1. autoinst' = autoinst /\ reboot' = reboot /\ calls' = calls /\ mode' = mode
      BY <2>3 DEF ClickOption, User
    <3> QED
      BY <1>a, <3>1
  <2>4. CASE Answer
    <3>1. autoinst' = autoinst /\ reboot' = reboot /\ calls' = calls /\ Stops
      BY <2>4 DEF Answer
    <3> QED
      BY <1>a, <3>1
  <2> QED
    BY <1>1, <2>1, <2>2, <2>3, <2>4, Zenon DEF Gui
<1>2. CASE Update
  <2>1. CASE BundleArrives \/ BundleSwap
    <3>1. autoinst' = autoinst /\ reboot' = reboot /\ calls' = calls /\ mode' = mode
      BY <2>1 DEF BundleArrives, BundleSwap
    <3> QED
      BY <1>a, <3>1
  <2>2. CASE AfterSwap
    <3>1. ~Resume /\ ~Complete
      BY DEF Resume, Complete, ManualOnly
    <3>2. mode' = ModeAfterSwap /\ autoinst' = autoinst /\ reboot' = reboot /\ calls' = calls
      BY <2>2, <3>1 DEF AfterSwap
    <3>3. Stops
      BY <3>2 DEF ModeAfterSwap
    <3> QED
      BY <1>a, <3>2, <3>3
  <2> QED
    BY <1>2, <2>1, <2>2 DEF Update
<1>3. CASE ExternalChange \/ DownloadEnds
  <2>1. autoinst' = autoinst /\ reboot' = reboot /\ calls' = calls /\ mode' = mode
    BY <1>3 DEF ExternalChange, DownloadEnds
  <2> QED
    BY <1>a, <2>1
<1> QED
  BY <1>1, <1>2, <1>3, Zenon

LEMMA OtherReported ==
  ASSUME Session, "reboot" \notin Clicks, TypeOK, Selection(rows), Reported,
         Gui \/ Update \/ ExternalChange \/ DownloadEnds
  PROVE  Reported'
<1> USE DEF Reported
<1>1. /\ ManualOnly' /\ calls' = calls
      /\ mode \in {"INSTALLING", "STOPPING"} => mode' \in {mode, "STOPPING"}
  BY OtherMode
<1>2. loc' = loc /\ \A t \in Threads : pc'[t] = pc[t] \/ pc'[t] = "enter"
  BY OtherLock
<1>3. Going'
  BY <1>1, <1>2 DEF Going
<1>4. Told'
  <2> SUFFICES ASSUME NEW t \in Threads, pc'[t] = "called", mode' # "STOPPING"
               PROVE  loc[t].hw \in Matches /\ calls[loc[t].hw] > 0
    BY <1>1, <1>2 DEF Told
  <2>1. pc[t] = "called" /\ mode # "STOPPING"
    BY <1>1, <1>2 DEF Going
  <2> QED
    BY <2>1 DEF Told
<1>5. Truth(rows', calls)
  <2>1. CASE BundleSwap
    BY <2>1, SwapTruth
  <2>2. CASE ~BundleSwap
    BY <2>2, OtherNoNews, NoNewsTruth
  <2> QED
    BY <2>1, <2>2
<1> QED
  BY <1>1, <1>3, <1>4, <1>5

LEMMA ThreadReported ==
  ASSUME Session, TypeOK, Selection(rows), Following, Reported, NEW t \in Threads, Thread(t)
  PROVE  Reported'
<1> USE DEF modeVars, listVars, histVars, threadVars
<1>a. /\ pc \in [Threads -> Labels] /\ loc \in [Threads -> Locals] /\ rows \in Seq(Row)
      /\ act \in Int /\ calls \in [Matches -> Nat] /\ loc[t] \in Locals
  BY LocalsType DEF TypeOK
<1>b. \A u \in Threads : u = t
  BY DEF Session
<1>c. ManualOnly'
  <2>1. ASSUME autoinst' = autoinst, reboot' = reboot PROVE ManualOnly'
    BY <2>1, Zenon DEF ManualOnly, Reported
  <2>2. CASE Enter(t)
    BY <2>2 DEF Enter, ManualOnly, Reported
  <2>3. CASE Finish(t)
    BY <2>3 DEF Finish, ManualOnly, Reported
  <2>4. CASE ~Enter(t) /\ ~Finish(t)
    <3>1. autoinst' = autoinst /\ reboot' = reboot
      BY <2>4 DEF Thread, SelectDownloads, AwaitDownload, Downloaded, RestorePoint,
         RestorePointDone, NextItem, Stage, TryExtract, Extracted, AfterExtract, Drive, CallInstall,
         Installed, Rescan, End, Report
    <3> QED
      BY <2>1, <3>1
  <2> QED
    BY <2>2, <2>3, <2>4
<1>d. OnItem(t) /\ ActKept /\ Truth(rows, calls)
  BY DEF Following, Reported
<1>1. CASE CallInstall(t)
  <2>1. pc[t] = "call" /\ mode \in {"INSTALLING", "STOPPING"} /\ mode' = mode /\ rows' = rows
    BY <1>1 DEF CallInstall, Going, Reported
  <2>2. loc[t].hw \in Matches
    <3>1. act \in DOMAIN rows /\ loc[t].hw = rows[act].match
      BY <1>d, <2>1 DEF OnItem, Busy
    <3>2. act \notin {EmptySlot, RestoreSlot}
      BY <1>a, <3>1 DEF EmptySlot, RestoreSlot
    <3>3. rows[act] \in Row /\ rows[act].match # NoMatch
      BY <1>a, <1>d, <3>1, <3>2 DEF ActKept
    <3> QED
      BY <3>1, <3>3 DEF Row
  <2>3. calls[loc[t].hw] \in Nat
    BY <1>a, <2>2
  <2>4. /\ calls' \in [Matches -> Nat]
        /\ \A m \in Matches : calls'[m] >= calls[m]
        /\ mode # "STOPPING" => calls'[loc[t].hw] > 0
    <3>1. CASE mode = "INSTALLING"
      <4>1. calls' = [calls EXCEPT ![loc[t].hw] = @ + 1]
        BY <1>1, <3>1 DEF CallInstall
      <4> QED
        BY <1>a, <2>2, <2>3, <4>1
    <3>2. CASE mode # "INSTALLING"
      <4>1. calls' = calls
        BY <1>1, <3>2 DEF CallInstall
      <4> QED
        BY <1>a, <2>1, <3>2, <4>1
    <3> QED
      BY <3>1, <3>2
  <2>5. loc'[t].hw = loc[t].hw
    BY <1>1, <1>a DEF CallInstall, SetLoc, Locals
  <2>6. Going' /\ Told'
    BY <1>b, <2>1, <2>2, <2>4, <2>5 DEF Going, Told
  <2>7. Truth(rows', calls')
    <3> SUFFICES ASSUME NEW k \in DOMAIN rows, rows[k].status \in Done
                 PROVE  rows[k].match \in Matches /\ calls'[rows[k].match] > 0
      BY <2>1 DEF Truth
    <3>1. rows[k].match \in Matches /\ calls[rows[k].match] > 0
      BY <1>d DEF Truth
    <3>2. calls[rows[k].match] \in Nat /\ calls'[rows[k].match] \in Nat
      BY <1>a, <2>4, <3>1
    <3> QED
      BY <2>4, <3>1, <3>2
  <2> QED
    BY <1>c, <2>6, <2>7 DEF Reported
<1>2. CASE Installed(t)
  <2>1. pc[t] = "called" /\ mode \in {"INSTALLING", "STOPPING"} /\ mode' = mode /\ calls' = calls
    BY <1>2 DEF Installed, Going, Reported
  <2>2. act \in DOMAIN rows /\ loc[t].hw = rows[act].match
    BY <1>d, <2>1 DEF OnItem, Busy
  <2>3. Going'
    BY <1>b, <2>1 DEF Going
  <2>4. Told'
    <3>1. pc'[t] = "called" => UNCHANGED <<loc, rows>>
      BY <1>2, <1>a DEF Installed, Goto
    <3>2. pc'[t] = "called" => loc'[t].hw = loc[t].hw
      <4>1. CASE pc'[t] = "called"
        BY <1>2, <1>a, <4>1 DEF Installed, Goto
      <4> QED
        BY <4>1
    <3> QED
      BY <1>b, <2>1, <3>2 DEF Told, Reported
  <2>5. Truth(rows', calls)
    <3> DEFINE shown == IF ~loc[t].ok /\ mode # "STOPPING" /\ loc[t].i \in DOMAIN rows
                        THEN Expand(rows, loc[t].i) ELSE rows
    <3>1. NoNews(shown, rows) /\ shown \in Seq(Row)
      <4>1. NoNews(rows, rows)
        BY DEF NoNews, Alike
      <4> QED
        BY <1>a, <4>1, NoNewsEdits, EditType, SMTT(30)
    <3>2. CASE rows' = rows
      BY <1>d, <3>2
    <3>3. CASE rows' # rows
      <4>1. PICK st \in Outcomes(loc[t].ok) :
              LET marked == Put(shown, act, st, FALSE)
              IN  rows' = IF mode = "STOPPING" /\ MaySelect THEN Unselect(marked) ELSE marked
        BY <1>2, <3>3 DEF Installed, Marked
      <4> DEFINE marked == Put(shown, act, st, FALSE)
      <4>2. st \in Statuses /\ (st \in Done => mode # "STOPPING")
        BY DEF Outcomes, Statuses, Done
      <4> HIDE DEF shown
      <4>3. act \in DOMAIN shown /\ shown[act].match = rows[act].match
        BY <2>2, <3>1 DEF NoNews, Alike
      <4>4. Truth(shown, calls)
        BY <1>d, <3>1, NoNewsTruth
      <4>5. Truth(marked, calls)
        <5>1. marked = [shown EXCEPT ![act] = [shown[act] EXCEPT !.status = st, !.checked = FALSE]]
          BY <3>1, <4>3 DEF Put
        <5>2. shown[act] \in Row /\ \A k \in DOMAIN shown : shown[k] \in Row
          BY <3>1, <4>3
        <5>3. /\ DOMAIN marked = DOMAIN shown
              /\ marked[act].status = st /\ marked[act].match = rows[act].match
              /\ \A k \in DOMAIN shown : k # act => marked[k] = shown[k]
          BY <3>1, <4>3, <5>1, <5>2 DEF Row
        <5>4. st \in Done => rows[act].match \in Matches /\ calls[rows[act].match] > 0
          BY <2>1, <2>2, <4>2 DEF Told, Reported
        <5> HIDE DEF marked
        <5> QED
          BY <4>4, <5>3, <5>4 DEF Truth
      <4>6. marked \in Seq(Row)
        BY <1>a, <3>1, <4>2, PutType
      <4>7. rows' \in {marked, Unselect(marked)}
        BY <4>1
      <4> HIDE DEF marked
      <4>8. NoNews(Unselect(marked), marked)
        BY <4>6, NoNewsAll
      <4> QED
        BY <4>5, <4>7, <4>8, NoNewsTruth
    <3> QED
      BY <3>2, <3>3
  <2> QED
    BY <1>c, <2>1, <2>3, <2>4, <2>5 DEF Reported
<1>3. CASE ~CallInstall(t) /\ ~Installed(t)
  <2>1. calls' = calls
    BY <1>3, ZenonT(60) DEF Thread, Enter, SelectDownloads, AwaitDownload, Downloaded, RestorePoint,
       RestorePointDone, NextItem, Stage, TryExtract, Extracted, AfterExtract, Drive, Rescan,
       Finish, End, Report
  <2>2. pc'[t] # "called"
    BY <1>3, <1>a DEF Thread, Enter, SelectDownloads, AwaitDownload, Downloaded, RestorePoint,
       RestorePointDone, NextItem, Stage, TryExtract, Extracted, AfterExtract, Drive, Rescan,
       Finish, End, Report, Leave, Goto
  <2>3. Going'
    <3>1. CASE Enter(t)
      BY <1>b, <3>1 DEF Enter, Going
    <3>2. CASE Finish(t) \/ End(t) \/ Report(t)
      <4>1. pc'[t] \in {"end", "idle"} \/ (pc'[t] = "report" /\ mode = "INSTALLING" /\ mode' = mode)
        BY <1>a, <3>2 DEF Finish, End, Report, Leave, Goto
      <4> QED
        BY <1>b, <4>1 DEF Going
    <3>3. CASE ~Enter(t) /\ ~Finish(t) /\ ~End(t) /\ ~Report(t)
      <4>1. mode' = mode /\ pc[t] \notin {"idle", "enter", "end"}
        BY <1>3, <3>3 DEF Thread, SelectDownloads, AwaitDownload, Downloaded, RestorePoint,
           RestorePointDone, NextItem, Stage, TryExtract, Extracted, AfterExtract, Drive, Rescan
      <4> QED
        BY <1>b, <4>1, SMTT(30) DEF Going, Reported
    <3> QED
      BY <3>1, <3>2, <3>3
  <2>4. Truth(rows', calls)
    BY <1>3, <1>d, ThreadNoNews, NoNewsTruth
  <2> QED
    BY <1>b, <1>c, <2>1, <2>2, <2>3, <2>4 DEF Reported, Told
<1> QED
  BY <1>1, <1>2, <1>3

\* A row that says its driver is installed had it installed: in a session in which nobody asked
\* for an automatic installation, the result of a call reaches the row of its driver, and a
\* replaced list gives it to no other (install.cpp 457-502, manager.cpp 1880-1935)
THEOREM ResultsTrue ==
  ASSUME Session, AutoInstall = FALSE, "reboot" \notin Clicks
  PROVE  Spec => []StatusTruthful
<1>1. Init => Reported
  BY DEF Init, Reported, ManualOnly, Going, Told, Truth
<1>2. TypeOK /\ Selection(rows) /\ Following /\ Reported /\ [Next]_vars => Reported'
  <2> SUFFICES ASSUME TypeOK, Selection(rows), Following, Reported, [Next]_vars PROVE Reported'
    OBVIOUS
  <2>1. CASE Next
    BY <2>1, ThreadReported, OtherReported DEF Next
  <2>2. CASE UNCHANGED vars
    BY <2>2 DEF vars, listVars, modeVars, threadVars, histVars, Reported, ManualOnly, Going,
       Told, Truth
  <2> QED
    BY <2>1, <2>2
<1>3. Reported => StatusTruthful
  BY DEF Reported, Truth, StatusTruthful, Done
<1> QED
  BY <1>1, <1>2, <1>3, TypeCorrect, SelectionKept, ThreadFollows, PTL DEF Spec, Session

=============================================================================
