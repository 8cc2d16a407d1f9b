--------------------------- MODULE IndexingProofs ---------------------------
(***************************************************************************)
(* For any packs, files and threads, in a build whose queues have no limit *)
(* (with one, push may drop what it is given): what is unpacked is parsed  *)
(* by one thread, before the hash table of its pack is made and before     *)
(* populate returns.                                                       *)
(***************************************************************************)
EXTENDS Indexing, TLAPS

----------------------------------------------------------------------------
(* The inductive invariant *)

\* x is in queue q
Holds(q, x) == \E k \in 1..Len(queue[q]) : queue[q][k] = x

\* At most once
Once(q, x) ==
  \A j, k \in 1..Len(queue[q]) : queue[q][j] = x /\ queue[q][k] = x => j = k

\* Behind an end marker there are only others
MarkersLast(q) ==
  \A j, k \in 1..Len(queue[q]) : j < k /\ queue[q][j] = Null => queue[q][k] = Null

\* An end marker is the last
EndLast(q) == \A k \in 1..Len(queue[q]) : queue[q][k] = Null => k = Len(queue[q])

\* Where scanfolder has been
Met(p) == pc["main"] = "scan" => \E k \in 1..count : Packs[k] = p

Phase == {"markers1", "join1", "done"}

\* Each thread has a pack where it needs one, and main is where they are
PlaceInv ==
  /\ at["main"] = Null
  /\ pc["main"] \in {"scan", "markers", "join"} \cup Phase
  /\ pc["main"] = "scan" => count <= Len(Packs)
  /\ \A l \in Loaders :
       /\ pc[l] \in {"pop", "load", "unpack", "mark", "ended"}
       /\ at[l] # Null <=> pc[l] \in {"load", "unpack", "mark"}
       /\ pc["main"] \in Phase => pc[l] = "ended"
  /\ \A i \in Indexers :
       /\ pc[i] \in {"pop", "parse", "ended"}
       /\ at[i] # Null <=> pc[i] = "parse"
       /\ pc["main"] = "done" => pc[i] = "ended"

\* Each thread takes its end marker behind all the work
EndInv ==
  /\ MarkersLast("packs") /\ MarkersLast("jobs")
  /\ Holds("packs", Null) => pc["main"] # "scan"
  /\ Holds("jobs", Null) => pc["main"] \in Phase
  /\ \A l \in Loaders : pc[l] = "ended" =>
       pc["main"] # "scan" /\ \A p \in PackSet : ~Holds("packs", p)
  /\ \A i \in Indexers : pc[i] = "ended" =>
       pc["main"] \in Phase /\ \A p \in PackSet : ~Holds("jobs", p)

\* Nobody has begun with p
Untouched(p) ==
  /\ p \notin alive /\ sent[p] = 0 /\ parsed[p] = 0 /\ hashed[p] = 0 /\ queue[p] = <<>>
  /\ ~Holds("jobs", p) /\ \A i \in Indexers : at[i] # p

\* A pack that was not met, or is in the queue, or is looked at by a loader
BeginInv ==
  \A p \in PackSet :
    /\ ~Met(p) => Untouched(p) /\ ~Holds("packs", p) /\ \A l \in Loaders : at[l] # p
    /\ Holds("packs", p) => Untouched(p) /\ \A l \in Loaders : at[l] # p
    /\ Once("packs", p)
    /\ \A l \in Loaders : at[l] = p /\ pc[l] = "load" => Untouched(p)
    /\ \A l, m \in Loaders : at[l] = p /\ at[m] = p => l = m

\* A pack whose files are parsed
JobInv ==
  \A p \in PackSet :
    /\ Once("jobs", p)
    /\ Holds("jobs", p) => p \in alive /\ parsed[p] = 0 /\ \A i \in Indexers : at[i] # p
    /\ \A i, j \in Indexers : at[i] = p /\ at[j] = p => i = j
    /\ \A i \in Indexers : at[i] = p => p \in alive
    /\ p \in alive => hashed[p] = 0 /\ (Holds("jobs", p) \/ \E i \in Indexers : at[i] = p)
    /\ \A l \in Loaders : at[l] = p /\ pc[l] \in {"unpack", "mark"} => p \in alive /\ ~Holds(p, Null)
    /\ p \notin alive => queue[p] = <<>> /\ parsed[p] = sent[p] /\ hashed[p] \in {0, 1}

\* Each file of it is parsed or in its queue, in which the end marker is the last
FileInv ==
  \A p \in PackSet :
    /\ EndLast(p)
    /\ parsed[p] + Len(queue[p]) = sent[p] + (IF Holds(p, Null) THEN 1 ELSE 0)

\* No pack is left behind
WholeInv ==
  \A p \in PackSet :
    Met(p) => \/ p \in indexed \/ p \in alive \/ hashed[p] = 1 \/ Holds("packs", p)
              \/ \E l \in Loaders : at[l] = p /\ pc[l] = "load"

WorkInv == PlaceInv /\ EndInv /\ BeginInv /\ JobInv /\ FileInv /\ WholeInv

----------------------------------------------------------------------------
(* Types *)

Items == PackSet \cup {Null, "inf"}

LEMMA NameFacts ==
  /\ PackSet \subseteq Queues /\ {"packs", "jobs"} \subseteq Queues
  /\ "packs" \notin PackSet /\ "jobs" \notin PackSet /\ Null \notin PackSet /\ "inf" \notin PackSet
  /\ Null \notin Queues /\ "inf" # Null /\ "packs" # "jobs"
  /\ Loaders \subseteq Threads /\ Indexers \subseteq Threads /\ "main" \in Threads
  /\ Loaders \cap Indexers = {} /\ "main" \notin Loaders /\ "main" \notin Indexers
  BY PackAssumption, ThreadAssumption DEF Queues, Null, Threads

\* The types of the queues: what push and pop make of them
QueueType == queue \in [Queues -> Seq(Items)]

LEMMA PushType ==
  ASSUME QueueType, NEW t, NEW q \in Queues, NEW x \in Items, Push(t, q, x)
  PROVE  QueueType'
<1>1. CASE Full(q)
  <2>1. queue' = queue
    BY <1>1 DEF Push
  <2> QED
    BY <2>1 DEF QueueType
<1>2. CASE ~Full(q)
  <2>1. queue' = [queue EXCEPT ![q] = Append(queue[q], x)]
    BY <1>2 DEF Push
  <2>2. queue[q] \in Seq(Items)
    BY DEF QueueType
  <2>3. Append(queue[q], x) \in Seq(Items)
    BY <2>2
  <2> QED
    BY <2>1, <2>3 DEF QueueType
<1> QED
  BY <1>1, <1>2

LEMMA PopType ==
  ASSUME QueueType, NEW t, NEW x, Pop(t, x)
  PROVE  QueueType'
<1>1. CASE From(t) \in Queues
  <2>1. queue[From(t)] \in Seq(Items) /\ queue[From(t)] # <<>>
    BY <1>1 DEF QueueType, Pop
  <2>2. Tail(queue[From(t)]) \in Seq(Items)
    BY <2>1
  <2>3. queue' = [queue EXCEPT ![From(t)] = Tail(queue[From(t)])]
    BY DEF Pop
  <2> QED
    BY <1>1, <2>2, <2>3 DEF QueueType
<1>2. CASE From(t) \notin Queues
  <2>1. queue' = [queue EXCEPT ![From(t)] = Tail(queue[From(t)])]
    BY DEF Pop
  <2> QED
    BY <1>2, <2>1 DEF QueueType
<1> QED
  BY <1>1, <1>2

----------------------------------------------------------------------------
(* What push and pop do to the predicates on queues *)

\* Nothing where nothing changed
LEMMA SameQueue ==
  ASSUME NEW r, queue'[r] = queue[r]
  PROVE  /\ \A y : Holds(r, y)' <=> Holds(r, y)
         /\ \A y : Once(r, y)' <=> Once(r, y)
         /\ MarkersLast(r)' <=> MarkersLast(r)
         /\ EndLast(r)' <=> EndLast(r)
  BY DEF Holds, Once, MarkersLast, EndLast

LEMMA PushEffect ==
  ASSUME QueueType, ~Bounded, NEW t, NEW q \in Queues, NEW x \in Items, Push(t, q, x)
  PROVE  /\ \A r \in Queues : r # q => queue'[r] = queue[r]
         /\ Len(queue'[q]) = Len(queue[q]) + 1
         /\ \A y : Holds(q, y)' <=> Holds(q, y) \/ y = x
         /\ \A y : Once(q, y) /\ (y = x => ~Holds(q, y)) => Once(q, y)'
         /\ MarkersLast(q) /\ (x = Null \/ ~Holds(q, Null)) => MarkersLast(q)'
         /\ EndLast(q) /\ ~Holds(q, Null) => EndLast(q)'
<1>1. queue' = [queue EXCEPT ![q] = Append(queue[q], x)]
  BY DEF Push, Full
<1>2. queue[q] \in Seq(Items) /\ Len(queue[q]) \in Nat
  BY DEF QueueType
<1>3. /\ Len(queue'[q]) = Len(queue[q]) + 1
      /\ \A k \in 1..Len(queue[q]) : queue'[q][k] = queue[q][k]
      /\ queue'[q][Len(queue[q]) + 1] = x
  BY <1>1, <1>2 DEF QueueType
<1>4. \A r \in Queues : r # q => queue'[r] = queue[r]
  BY <1>1 DEF QueueType
<1>5. \A y : Holds(q, y)' <=> Holds(q, y) \/ y = x
  BY <1>2, <1>3, SMTT(30) DEF Holds
<1>6. ASSUME NEW y, Once(q, y), y = x => ~Holds(q, y) PROVE Once(q, y)'
  <2>1. SUFFICES ASSUME NEW j \in 1..(Len(queue[q]) + 1), NEW k \in 1..(Len(queue[q]) + 1),
                        queue'[q][j] = y, queue'[q][k] = y
                 PROVE  j = k
    BY <1>3 DEF Once
  <2>2. ASSUME NEW h \in 1..(Len(queue[q]) + 1), queue'[q][h] = y
        PROVE  (h \in 1..Len(queue[q]) /\ queue[q][h] = y) \/ (h = Len(queue[q]) + 1 /\ y = x)
    BY <1>2, <1>3, <2>2, SMTT(30)
  <2>3. CASE y = x
    <3>1. j = Len(queue[q]) + 1 /\ k = Len(queue[q]) + 1
      BY <1>6, <2>1, <2>2, <2>3 DEF Holds
    <3> QED
      BY <3>1
  <2>4. CASE y # x
    <3>1. /\ j \in 1..Len(queue[q]) /\ queue[q][j] = y
          /\ k \in 1..Len(queue[q]) /\ queue[q][k] = y
      BY <2>1, <2>2, <2>4
    <3> QED
      BY <1>6, <3>1 DEF Once
  <2> QED
    BY <2>3, <2>4
<1>7. MarkersLast(q) /\ (x = Null \/ ~Holds(q, Null)) => MarkersLast(q)'
  <2>1. SUFFICES ASSUME MarkersLast(q), x = Null \/ ~Holds(q, Null),
                        NEW j \in 1..(Len(queue[q]) + 1), NEW k \in 1..(Len(queue[q]) + 1),
                        j < k, queue'[q][j] = Null
                 PROVE  queue'[q][k] = Null
    BY <1>3 DEF MarkersLast
  <2>2. j \in 1..Len(queue[q]) /\ queue[q][j] = Null
    BY <1>2, <1>3, <2>1
  <2>3. CASE k = Len(queue[q]) + 1
    BY <1>3, <2>1, <2>2, <2>3 DEF Holds
  <2>4. CASE k \in 1..Len(queue[q])
    BY <1>3, <2>1, <2>2, <2>4 DEF MarkersLast
  <2> QED
    BY <1>2, <2>3, <2>4
<1>8. EndLast(q) /\ ~Holds(q, Null) => EndLast(q)'
  BY <1>2, <1>3, SMTT(30) DEF Holds, EndLast
<1> QED
  BY <1>3, <1>4, <1>5, <1>6, <1>7, <1>8

LEMMA PopEffect ==
  ASSUME QueueType, NEW t, NEW q \in Queues, From(t) = q, NEW x, Pop(t, x)
  PROVE  /\ \A r \in Queues : r # q => queue'[r] = queue[r]
         /\ Len(queue[q]) > 0 /\ Len(queue'[q]) = Len(queue[q]) - 1
         /\ Holds(q, x)
         /\ \A y : Holds(q, y)' => Holds(q, y)
         /\ \A y : Holds(q, y) => y = x \/ Holds(q, y)'
         /\ \A y : Once(q, y) => Once(q, y)' /\ (y = x => ~Holds(q, y)')
         /\ MarkersLast(q) => MarkersLast(q)' /\ (x = Null => \A y : Holds(q, y)' => y = Null)
         /\ EndLast(q) => EndLast(q)' /\ (x = Null => Len(queue[q]) = 1)
<1>1. queue' = [queue EXCEPT ![q] = Tail(queue[q])] /\ queue[q] # <<>> /\ x = Head(queue[q])
  BY DEF Pop
<1>2. queue[q] \in Seq(Items) /\ Len(queue[q]) \in Nat /\ Len(queue[q]) > 0
  BY <1>1 DEF QueueType
<1>3. /\ Len(queue'[q]) = Len(queue[q]) - 1
      /\ \A k \in 1..(Len(queue[q]) - 1) : queue'[q][k] = queue[q][k + 1]
      /\ queue[q][1] = x
  BY <1>1, <1>2 DEF QueueType
<1>4. \A r \in Queues : r # q => queue'[r] = queue[r]
  BY <1>1 DEF QueueType
<1>5. Holds(q, x)
  BY <1>2, <1>3 DEF Holds
<1>6. ASSUME NEW y, Holds(q, y)' PROVE Holds(q, y)
  BY <1>2, <1>3, <1>6 DEF Holds
<1>7. ASSUME NEW y, Holds(q, y) PROVE y = x \/ Holds(q, y)'
  <2>1. PICK k \in 1..Len(queue[q]) : queue[q][k] = y
    BY <1>7 DEF Holds
  <2>2. CASE k = 1
    BY <1>3, <2>1, <2>2
  <2>3. CASE k # 1
    <3>1. k - 1 \in 1..(Len(queue[q]) - 1) /\ queue'[q][k - 1] = y
      BY <1>2, <1>3, <2>1, <2>3
    <3> QED
      BY <1>3, <3>1 DEF Holds
  <2> QED
    BY <2>2, <2>3
<1>8. ASSUME NEW y, Once(q, y) PROVE Once(q, y)' /\ (y = x => ~Holds(q, y)')
  <2>1. Once(q, y)'
    <3>1. SUFFICES ASSUME NEW j \in 1..(Len(queue[q]) - 1), NEW k \in 1..(Len(queue[q]) - 1),
                          queue'[q][j] = y, queue'[q][k] = y
                   PROVE  j = k
      BY <1>3 DEF Once
    <3>2. /\ j + 1 \in 1..Len(queue[q]) /\ k + 1 \in 1..Len(queue[q])
          /\ queue[q][j + 1] = y /\ queue[q][k + 1] = y
      BY <1>2, <1>3, <3>1, SMTT(30)
    <3>3. j + 1 = k + 1
      BY <1>8, <3>2 DEF Once
    <3> QED
      BY <3>3
  <2>2. ASSUME y = x, NEW k \in 1..(Len(queue[q]) - 1), queue'[q][k] = y PROVE FALSE
    <3>1. /\ 1 \in 1..Len(queue[q]) /\ k + 1 \in 1..Len(queue[q])
          /\ queue[q][1] = y /\ queue[q][k + 1] = y
      BY <1>2, <1>3, <2>2
    <3>2. 1 = k + 1
      BY <1>8, <3>1 DEF Once
    <3> QED
      BY <3>2
  <2> QED
    BY <1>3, <2>1, <2>2 DEF Holds
<1>9. ASSUME MarkersLast(q) PROVE MarkersLast(q)' /\ (x = Null => \A y : Holds(q, y)' => y = Null)
  <2>1. \A k \in 1..(Len(queue[q]) - 1) : k + 1 \in 1..Len(queue[q])
    BY <1>2
  <2>2. MarkersLast(q)'
    <3>1. SUFFICES ASSUME NEW j \in 1..(Len(queue[q]) - 1), NEW k \in 1..(Len(queue[q]) - 1),
                          j < k, queue'[q][j] = Null
                   PROVE  queue'[q][k] = Null
      BY <1>3 DEF MarkersLast
    <3>2. j + 1 < k + 1 /\ queue[q][j + 1] = Null
      BY <1>3, <3>1
    <3>3. queue[q][k + 1] = Null
      BY <1>9, <2>1, <3>2 DEF MarkersLast
    <3> QED
      BY <1>3, <3>3
  <2>3. ASSUME x = Null, NEW k \in 1..(Len(queue[q]) - 1) PROVE queue'[q][k] = Null
    <3>1. 1 \in 1..Len(queue[q]) /\ 1 < k + 1 /\ queue[q][1] = Null
      BY <1>2, <1>3, <2>3
    <3>2. queue[q][k + 1] = Null
      BY <1>9, <2>1, <3>1 DEF MarkersLast
    <3> QED
      BY <1>3, <3>2
  <2> QED
    BY <1>3, <2>2, <2>3 DEF Holds
<1>10. ASSUME EndLast(q) PROVE EndLast(q)' /\ (x = Null => Len(queue[q]) = 1)
  <2>1. EndLast(q)'
    <3>1. SUFFICES ASSUME NEW k \in 1..(Len(queue[q]) - 1), queue'[q][k] = Null
                   PROVE  k = Len(queue[q]) - 1
      BY <1>3 DEF EndLast
    <3>2. k + 1 \in 1..Len(queue[q]) /\ queue[q][k + 1] = Null
      BY <1>2, <1>3, <3>1
    <3>3. k + 1 = Len(queue[q])
      BY <1>10, <3>2 DEF EndLast
    <3> QED
      BY <1>2, <3>3
  <2>2. x = Null => Len(queue[q]) = 1
    <3>1. 1 \in 1..Len(queue[q])
      BY <1>2
    <3> QED
      BY <1>3, <1>10, <3>1 DEF EndLast
  <2> QED
    BY <2>1, <2>2
<1> QED
  BY <1>2, <1>3, <1>4, <1>5, <1>6, <1>7, <1>8, <1>9, <1>10

----------------------------------------------------------------------------
(* Types of a step *)

Places ==
  {"scan", "markers", "join", "markers1", "join1", "done",
   "pop", "load", "unpack", "mark", "parse", "ended"}

\* TypeOK without its last conjunct, which follows from PlaceInv and JobInv
SimpleType ==
  /\ QueueType /\ indexed \subseteq PackSet
  /\ signal \in [Queues -> BOOLEAN] /\ alive \subseteq PackSet
  /\ pc \in [Threads -> Places] /\ at \in [Threads -> PackSet \cup {Null}]
  /\ wait \in [Threads -> {"run", "empty", "asleep"}]
  /\ post \in [Threads -> Queues \cup {Null}]
  /\ count \in Nat
  /\ sent \in [PackSet -> Nat] /\ parsed \in [PackSet -> Nat] /\ hashed \in [PackSet -> Nat]

LEMMA SimpleTypes == SimpleType /\ PlaceInv /\ JobInv => TypeOK
<1> SUFFICES ASSUME SimpleType, PlaceInv, JobInv PROVE TypeOK
  OBVIOUS
<1>1. ASSUME NEW t \in Threads, pc[t] \in {"unpack", "mark", "parse"} PROVE at[t] \in alive
  <2>1. at[t] \in PackSet \cup {Null}
    BY DEF SimpleType
  <2>2. CASE t \in Loaders
    BY <1>1, <2>1, <2>2 DEF PlaceInv, JobInv
  <2>3. CASE t \in Indexers
    BY <1>1, <2>1, <2>3 DEF PlaceInv, JobInv
  <2>4. CASE t = "main"
    BY <1>1, <2>4 DEF PlaceInv, Phase
  <2> QED
    BY <2>2, <2>3, <2>4 DEF Threads
<1> QED
  BY <1>1 DEF SimpleType, TypeOK, QueueType, Items, Places

LEMMA StepType == SimpleType /\ PlaceInv /\ [Next]_vars => SimpleType'
<1> SUFFICES ASSUME SimpleType, PlaceInv, [Next]_vars PROVE SimpleType'
  OBVIOUS
<1> USE NameFacts DEF SimpleType, Places, dataVars
<1>1. ASSUME NEW t \in Threads, NEW q \in Queues, NEW x \in Items, Push(t, q, x)
      PROVE  QueueType' /\ post' \in [Threads -> Queues \cup {Null}]
  BY <1>1, PushType, ZenonT(60) DEF Push
<1>2. ASSUME NEW t \in Threads, Notify(t) \/ FindEmpty(t) \/ Sleep(t) PROVE SimpleType'
  <2>1. CASE Notify(t)
    <3>1. post' \in [Threads -> Queues \cup {Null}] /\ post[t] \in Queues
      BY <2>1 DEF Notify
    <3>2. signal' \in [Queues -> BOOLEAN] /\ wait' \in [Threads -> {"run", "empty", "asleep"}]
      <4>1. \/ UNCHANGED signal
            \/ \E q \in Queues : signal' = [signal EXCEPT ![q] = TRUE]
            \/ \E q \in Queues : signal' = [signal EXCEPT ![q] = FALSE]
        BY <2>1, <3>1 DEF Notify
      <4>2. wait' \in [Threads -> {"run", "empty", "asleep"}]
        BY <2>1, <3>1 DEF Notify
      <4> QED
        BY <4>1, <4>2
    <3> QED
      BY <2>1, <3>1, <3>2 DEF Notify, QueueType
  <2>2. CASE FindEmpty(t)
    BY <2>2 DEF FindEmpty, QueueType
  <2>3. CASE Sleep(t)
    BY <2>3 DEF Sleep, QueueType
  <2> QED
    BY <1>2, <2>1, <2>2, <2>3
<1>3. CASE Populate
  <2>1. CASE FindPack
    <3>1. Packs[count + 1] \in Items
      BY <2>1, PackAssumption DEF FindPack, PackSet, Items
    <3> QED
      BY <1>1, <2>1, <3>1 DEF FindPack
  <2>2. ASSUME NEW from, NEW q \in {"packs", "jobs"}, NEW T, PushMarker(from, q, T)
        PROVE  SimpleType'
    BY <1>1, <2>2 DEF PushMarker, Items
  <2>3. ASSUME NEW from, NEW to \in Places, Continue(from, to) PROVE SimpleType'
    BY <2>3 DEF Continue, QueueType
  <2> QED
    BY <1>3, <2>1, <2>2, <2>3 DEF Populate
<1>4. ASSUME NEW l \in Loaders, Loader(l) PROVE SimpleType'
  <2>1. CASE TakePack(l)
    BY <2>1, PopType DEF TakePack
  <2>2. CASE LoadIndex(l)
    BY <2>2 DEF LoadIndex, QueueType
  <2>3. at[l] \in PackSet \cup {Null}
    OBVIOUS
  <2>4. CASE PushJob(l) /\ at[l] # Null
    BY <1>1, <2>3, <2>4 DEF PushJob, NewQueue, Items
  <2>5. CASE PushFile(l) /\ at[l] # Null
    BY <1>1, <2>3, <2>5 DEF PushFile, Items
  <2>6. CASE OpenFails(l)
    BY <2>6 DEF OpenFails, QueueType
  <2>7. CASE PushEnd(l) /\ at[l] # Null
    BY <1>1, <2>3, <2>7 DEF PushEnd, Items
  <2> QED
    BY <1>4, <2>1, <2>2, <2>4, <2>5, <2>6, <2>7
    DEF Loader, PlaceInv, PushJob, PushFile, PushEnd
<1>5. ASSUME NEW i \in Indexers, Indexer(i) PROVE SimpleType'
  <2>1. CASE TakeJob(i)
    BY <2>1, PopType DEF TakeJob
  <2>2. CASE Parse(i)
    <3>1. QueueType'
      BY <2>2, PopType DEF Parse
    <3>2. at[i] \in PackSet
      BY <2>2 DEF Parse, PlaceInv
    <3> QED
      BY <2>2, <3>1, <3>2 DEF Parse
  <2>3. CASE FinishPack(i)
    <3>1. QueueType'
      BY <2>3, PopType DEF FinishPack
    <3>2. at[i] \in PackSet
      BY <2>3 DEF FinishPack, PlaceInv
    <3> QED
      BY <2>3, <3>1, <3>2 DEF FinishPack
  <2> QED
    BY <1>5, <2>1, <2>2, <2>3 DEF Indexer
<1>6. CASE UNCHANGED vars
  BY <1>6 DEF vars, QueueType
<1> QED
  BY <1>2, <1>3, <1>4, <1>5, <1>6 DEF Next, Thread

----------------------------------------------------------------------------
(* Steps of populate *)

\* What moves no item, thread or pack keeps the invariant
LEMMA QuietStep ==
  ASSUME WorkInv, UNCHANGED <<queue, alive, pc, at, count, dataVars, indexed>>
  PROVE  WorkInv'
<1> USE DEF WorkInv, dataVars, Holds, Once, MarkersLast, EndLast, Met, Untouched
<1>1. PlaceInv'
  BY DEF PlaceInv
<1>2. EndInv'
  BY DEF EndInv
<1>3. BeginInv'
  BY DEF BeginInv
<1>4. JobInv'
  BY DEF JobInv
<1>5. FileInv'
  BY DEF FileInv
<1>6. WholeInv'
  BY DEF WholeInv
<1> QED
  BY <1>1, <1>2, <1>3, <1>4, <1>5, <1>6

LEMMA FindPackStep ==
  ASSUME SimpleType, WorkInv, ~Bounded, FindPack
  PROVE  WorkInv'
<1>1. PICK p \in PackSet : p = Packs[count + 1]
  BY PackAssumption DEF FindPack, SimpleType, PackSet
<1>2. /\ pc["main"] = "scan" /\ count < Len(Packs) /\ count \in Nat /\ count' = count + 1
      /\ UNCHANGED <<alive, pc, at, sent, parsed, hashed, indexed>>
  BY DEF FindPack, SimpleType, dataVars
<1>3. /\ \A r \in Queues : r # "packs" => queue'[r] = queue[r]
      /\ \A y : Holds("packs", y)' <=> Holds("packs", y) \/ y = p
      /\ \A y : Once("packs", y) /\ (y = p => ~Holds("packs", y)) => Once("packs", y)'
      /\ MarkersLast("packs") /\ (p = Null \/ ~Holds("packs", Null)) => MarkersLast("packs")'
  <2>1. Push("main", "packs", p) /\ "packs" \in Queues /\ p \in Items /\ QueueType
    BY <1>1, NameFacts DEF FindPack, Items, SimpleType
  <2> QED
    BY <2>1, PushEffect, ZenonT(60)
<1>4. ASSUME NEW r \in Queues, r # "packs"
      PROVE  /\ \A y : Holds(r, y)' <=> Holds(r, y)
             /\ \A y : Once(r, y)' <=> Once(r, y)
             /\ MarkersLast(r)' <=> MarkersLast(r)
             /\ EndLast(r)' <=> EndLast(r)
  BY <1>3, <1>4, SameQueue
<1>5. ASSUME NEW r PROVE Met(r)' <=> Met(r) \/ r = p
  BY <1>1, <1>2 DEF Met
<1>6. ~Met(p)
  <2>1. \A k \in 1..count : Packs[k] # p
    BY <1>1, <1>2, PackAssumption
  <2> QED
    BY <1>2, <2>1 DEF Met
<1>7. ASSUME NEW r \in PackSet PROVE Untouched(r)' <=> Untouched(r)
  BY <1>2, <1>3, <1>4, NameFacts DEF Untouched
<1> USE <1>2, <1>3, <1>4, NameFacts DEF WorkInv
<1>8. PlaceInv'
  BY DEF PlaceInv, Phase
<1>9. EndInv'
  BY DEF EndInv, Phase
<1>10. BeginInv'
  BY <1>5, <1>6, <1>7 DEF BeginInv
<1>11. JobInv'
  BY DEF JobInv
<1>12. FileInv'
  BY DEF FileInv
<1>13. WholeInv'
  BY <1>5 DEF WholeInv
<1> QED
  BY <1>8, <1>9, <1>10, <1>11, <1>12, <1>13

\* An end marker
LEMMA PushMarkerStep ==
  ASSUME SimpleType, WorkInv, ~Bounded, NEW from, NEW q, NEW T, PushMarker(from, q, T),
         (from = "markers" /\ q = "packs") \/ (from = "markers1" /\ q = "jobs")
  PROVE  WorkInv'
<1>1. /\ pc["main"] = from /\ count' = count + 1 /\ q \in Queues
      /\ UNCHANGED <<alive, pc, at, sent, parsed, hashed, indexed>>
  BY NameFacts DEF PushMarker, dataVars
<1>2. /\ \A r \in Queues : r # q => queue'[r] = queue[r]
      /\ \A y : Holds(q, y)' <=> Holds(q, y) \/ y = Null
      /\ \A y : Once(q, y) /\ (y = Null => ~Holds(q, y)) => Once(q, y)'
      /\ MarkersLast(q) => MarkersLast(q)'
  <2>1. Push("main", q, Null) /\ Null \in Items /\ QueueType
    BY DEF PushMarker, Items, SimpleType
  <2> QED
    BY <1>1, <2>1, PushEffect, ZenonT(60)
<1>3. ASSUME NEW r \in Queues, r # q
      PROVE  /\ \A y : Holds(r, y)' <=> Holds(r, y)
             /\ \A y : Once(r, y)' <=> Once(r, y)
             /\ MarkersLast(r)' <=> MarkersLast(r)
             /\ EndLast(r)' <=> EndLast(r)
  BY <1>2, <1>3, SameQueue
<1>4. ASSUME NEW r PROVE Met(r)' <=> Met(r)
  BY <1>1 DEF Met
<1>5. ASSUME NEW r \in PackSet PROVE Untouched(r)' <=> Untouched(r)
  BY <1>1, <1>2, <1>3, NameFacts DEF Untouched
<1> USE <1>1, <1>2, <1>3, NameFacts DEF WorkInv
<1>6. PlaceInv'
  BY DEF PlaceInv, Phase
<1>7. EndInv'
  BY DEF EndInv, Phase
<1>8. BeginInv'
  BY <1>4, <1>5 DEF BeginInv
<1>9. JobInv'
  BY DEF JobInv
<1>10. FileInv'
  BY DEF FileInv
<1>11. WholeInv'
  BY <1>4 DEF WholeInv
<1> QED
  BY <1>6, <1>7, <1>8, <1>9, <1>10, <1>11

\* The next phase, once the loaders or the parsing threads have ended where it waits for them
LEMMA ContinueStep ==
  ASSUME SimpleType, WorkInv, NEW from, NEW to, Continue(from, to),
         \/ from = "scan" /\ to = "markers" /\ count = Len(Packs)
         \/ from = "markers" /\ to = "join"
         \/ from = "join" /\ to = "markers1" /\ Joined(Loaders)
         \/ from = "markers1" /\ to = "join1"
         \/ from = "join1" /\ to = "done" /\ Joined(Indexers)
  PROVE  WorkInv'
<1>1. /\ pc["main"] = from /\ pc'["main"] = to
      /\ \A t \in Threads : t # "main" => pc'[t] = pc[t]
      /\ UNCHANGED <<queue, alive, at, sent, parsed, hashed, indexed>>
  BY NameFacts DEF Continue, dataVars, SimpleType
<1>2. ASSUME NEW r
      PROVE  /\ \A y : Holds(r, y)' <=> Holds(r, y)
             /\ \A y : Once(r, y)' <=> Once(r, y)
             /\ MarkersLast(r)' <=> MarkersLast(r)
             /\ EndLast(r)' <=> EndLast(r)
  BY <1>1, SameQueue
<1>3. ASSUME NEW r \in PackSet PROVE Met(r) /\ Met(r)'
  <2>1. CASE from = "scan"
    <3>1. PICK k \in DOMAIN Packs : Packs[k] = r
      BY DEF PackSet
    <3>2. k \in 1..count
      BY <2>1, PackAssumption
    <3> QED
      BY <1>1, <2>1, <3>1, <3>2 DEF Met
  <2>2. CASE from # "scan"
    BY <1>1, <2>2 DEF Met
  <2> QED
    BY <2>1, <2>2
<1>4. ASSUME NEW r \in PackSet PROVE Untouched(r)' <=> Untouched(r)
  BY <1>1, <1>2 DEF Untouched
<1> USE <1>1, <1>2, NameFacts DEF WorkInv
<1>5. PlaceInv'
  BY DEF PlaceInv, Phase, Joined
<1>6. EndInv'
  BY DEF EndInv, Phase
<1>7. BeginInv'
  BY <1>3, <1>4 DEF BeginInv
<1>8. JobInv'
  <2>1. ASSUME NEW l \in Loaders, NEW r \in PackSet
        PROVE  at'[l] = r /\ pc'[l] \in {"unpack", "mark"} =>
                 at[l] = r /\ pc[l] \in {"unpack", "mark"}
    OBVIOUS
  <2> QED
    BY ONLY <1>1, <1>2, <2>1, WorkInv, SMTT(30) DEF WorkInv, JobInv
<1>9. FileInv'
  BY DEF FileInv
<1>10. WholeInv'
  <2>1. ASSUME NEW r \in PackSet, NEW l \in Loaders
        PROVE  at[l] = r /\ pc[l] = "load" => at'[l] = r /\ pc'[l] = "load"
    OBVIOUS
  <2> QED
    BY <1>3, <2>1, SMTT(30) DEF WholeInv
<1> QED
  BY <1>5, <1>6, <1>7, <1>8, <1>9, <1>10

----------------------------------------------------------------------------
(* Steps of loaddrp_thread *)

\* It takes a pack or an end marker
LEMMA TakePackStep ==
  ASSUME SimpleType, WorkInv, NEW l \in Loaders, TakePack(l)
  PROVE  WorkInv'
<1>1. PICK x \in PackSet \cup {Null} :
        /\ Pop(l, x)
        /\ pc' = [pc EXCEPT ![l] = IF x = Null THEN "ended" ELSE "load"]
        /\ at' = [at EXCEPT ![l] = x]
  BY DEF TakePack
<1>2. /\ pc[l] = "pop" /\ at[l] = Null /\ at'[l] = x
      /\ pc'[l] = (IF x = Null THEN "ended" ELSE "load")
      /\ \A t \in Threads : t # l => pc'[t] = pc[t] /\ at'[t] = at[t]
      /\ UNCHANGED <<alive, sent, parsed, hashed, indexed, count>>
  BY <1>1, NameFacts, ZenonT(60) DEF TakePack, dataVars, SimpleType, WorkInv, PlaceInv
<1>3. /\ \A r \in Queues : r # "packs" => queue'[r] = queue[r]
      /\ Holds("packs", x)
      /\ \A y : Holds("packs", y)' => Holds("packs", y)
      /\ \A y : Holds("packs", y) => y = x \/ Holds("packs", y)'
      /\ \A y : Once("packs", y) => Once("packs", y)' /\ (y = x => ~Holds("packs", y)')
      /\ MarkersLast("packs") =>
           MarkersLast("packs")' /\ (x = Null => \A y : Holds("packs", y)' => y = Null)
  <2>1. From(l) = "packs" /\ "packs" \in Queues /\ QueueType
    BY NameFacts DEF From, SimpleType
  <2> QED
    BY <1>1, <2>1, PopEffect
<1>4. ASSUME NEW r \in Queues, r # "packs"
      PROVE  /\ \A y : Holds(r, y)' <=> Holds(r, y)
             /\ \A y : Once(r, y)' <=> Once(r, y)
             /\ MarkersLast(r)' <=> MarkersLast(r)
             /\ EndLast(r)' <=> EndLast(r)
  BY <1>3, <1>4, SameQueue
<1>5. ASSUME NEW r PROVE Met(r)' <=> Met(r)
  BY <1>2, NameFacts DEF Met
<1>6. \A i \in Indexers : pc'[i] = pc[i] /\ at'[i] = at[i]
  BY <1>2, NameFacts
<1>7. ASSUME NEW r \in PackSet PROVE Untouched(r)' <=> Untouched(r)
  BY <1>2, <1>3, <1>4, <1>6, NameFacts DEF Untouched
<1>8. pc'["main"] = pc["main"] /\ at'["main"] = at["main"]
  BY <1>2, NameFacts
<1>9. \A m \in Loaders : m # l => pc'[m] = pc[m] /\ at'[m] = at[m]
  BY <1>2, NameFacts
<1> USE NameFacts DEF WorkInv
<1>10. PlaceInv'
  BY <1>1, <1>2, <1>6, <1>8, <1>9 DEF PlaceInv, EndInv, Phase
<1>11. EndInv'
  BY <1>2, <1>3, <1>4, <1>6, <1>8, <1>9 DEF EndInv, Phase
<1>12. BeginInv'
  BY <1>1, <1>2, <1>3, <1>5, <1>7, <1>9 DEF BeginInv
<1>13. JobInv'
  BY <1>2, <1>3, <1>4, <1>6, <1>9 DEF JobInv
<1>14. FileInv'
  BY <1>2, <1>3, <1>4 DEF FileInv
<1>15. WholeInv'
  BY <1>2, <1>3, <1>5, <1>9 DEF WholeInv
<1> QED
  BY <1>10, <1>11, <1>12, <1>13, <1>14, <1>15

\* Its index is loaded
LEMMA LoadIndexStep ==
  ASSUME SimpleType, WorkInv, NEW l \in Loaders, LoadIndex(l)
  PROVE  WorkInv'
<1>1. /\ pc[l] = "load" /\ at[l] \in indexed /\ pc'[l] = "pop" /\ at'[l] = Null
      /\ \A t \in Threads : t # l => pc'[t] = pc[t] /\ at'[t] = at[t]
      /\ UNCHANGED <<queue, alive, sent, parsed, hashed, indexed, count>>
  BY NameFacts DEF LoadIndex, dataVars, SimpleType
<1>2. ASSUME NEW r \in Queues
      PROVE  /\ \A y : Holds(r, y)' <=> Holds(r, y)
             /\ \A y : Once(r, y)' <=> Once(r, y)
             /\ MarkersLast(r)' <=> MarkersLast(r)
             /\ EndLast(r)' <=> EndLast(r)
  BY <1>1, SameQueue
<1>3. ASSUME NEW r PROVE Met(r)' <=> Met(r)
  BY <1>1, NameFacts DEF Met
<1>4. \A i \in Indexers : pc'[i] = pc[i] /\ at'[i] = at[i]
  BY <1>1, NameFacts
<1>5. ASSUME NEW r \in PackSet PROVE Untouched(r)' <=> Untouched(r)
  BY <1>1, <1>2, <1>4, NameFacts DEF Untouched
<1>6. pc'["main"] = pc["main"] /\ at'["main"] = at["main"]
  BY <1>1, NameFacts
<1>7. \A m \in Loaders : m # l => pc'[m] = pc[m] /\ at'[m] = at[m]
  BY <1>1, NameFacts
<1> USE NameFacts DEF WorkInv
<1>8. PlaceInv'
  BY <1>1, <1>4, <1>6, <1>7 DEF PlaceInv, Phase
<1>9. EndInv'
  BY <1>1, <1>2, <1>4, <1>6, <1>7 DEF EndInv, Phase
<1>10. BeginInv'
  BY <1>1, <1>2, <1>3, <1>5, <1>7 DEF BeginInv
<1>11. JobInv'
  BY <1>1, <1>2, <1>4, <1>7 DEF JobInv
<1>12. FileInv'
  BY <1>1, <1>2 DEF FileInv
<1>13. WholeInv'
  BY <1>1, <1>2, <1>3, <1>7 DEF WholeInv
<1> QED
  BY <1>8, <1>9, <1>10, <1>11, <1>12, <1>13

\* Its files are to be parsed
LEMMA PushJobStep ==
  ASSUME SimpleType, WorkInv, ~Bounded, NEW l \in Loaders, PushJob(l)
  PROVE  WorkInv'
<1>1. PICK p \in PackSet : p = at[l]
  BY NameFacts DEF PushJob, SimpleType, WorkInv, PlaceInv
<1>2. /\ pc[l] = "load" /\ at[l] = p /\ pc'[l] = "unpack"
      /\ \A t \in Threads : t # l => pc'[t] = pc[t]
      /\ alive' = alive \cup {p}
      /\ UNCHANGED <<at, sent, parsed, hashed, indexed, count>>
  BY <1>1, NameFacts DEF PushJob, NewQueue, dataVars, SimpleType
<1>3. /\ \A r \in Queues : r # "jobs" => queue'[r] = queue[r]
      /\ \A y : Holds("jobs", y)' <=> Holds("jobs", y) \/ y = p
      /\ \A y : Once("jobs", y) /\ (y = p => ~Holds("jobs", y)) => Once("jobs", y)'
      /\ MarkersLast("jobs") /\ ~Holds("jobs", Null) => MarkersLast("jobs")'
  <2>1. Push(l, "jobs", p) /\ "jobs" \in Queues /\ p \in Items /\ QueueType
    BY <1>1, NameFacts DEF PushJob, Items, SimpleType
  <2> QED
    BY <2>1, PushEffect, ZenonT(60)
<1>4. ASSUME NEW r \in Queues, r # "jobs"
      PROVE  /\ \A y : Holds(r, y)' <=> Holds(r, y)
             /\ \A y : Once(r, y)' <=> Once(r, y)
             /\ MarkersLast(r)' <=> MarkersLast(r)
             /\ EndLast(r)' <=> EndLast(r)
  BY <1>3, <1>4, SameQueue
<1>5. ASSUME NEW r PROVE Met(r)' <=> Met(r)
  BY <1>2, NameFacts DEF Met
<1>6. /\ \A i \in Indexers : pc'[i] = pc[i]
      /\ \A m \in Loaders : m # l => pc'[m] = pc[m]
      /\ pc'["main"] = pc["main"]
  BY <1>2, NameFacts
<1>7. ASSUME NEW r \in PackSet, r # p PROVE Untouched(r)' <=> Untouched(r)
  BY <1>2, <1>3, <1>4, <1>7, NameFacts DEF Untouched
<1>8. /\ Untouched(p) /\ ~Holds("packs", p) /\ Met(p)
      /\ \A m \in Loaders : m # l => at[m] # p
      /\ pc["main"] \notin Phase
  BY <1>2 DEF WorkInv, BeginInv, PlaceInv
<1>9. ~Holds("jobs", Null) /\ ~Holds(p, Null)
  BY <1>8 DEF WorkInv, EndInv, Untouched, Holds
<1> USE NameFacts DEF WorkInv
<1>10. PlaceInv'
  BY <1>2, <1>6 DEF PlaceInv, Phase
<1>11. EndInv'
  BY <1>2, <1>3, <1>4, <1>6, <1>8, <1>9 DEF EndInv
<1>12. BeginInv'
  BY <1>2, <1>3, <1>4, <1>5, <1>6, <1>7, <1>8 DEF BeginInv
<1>13. JobInv'
  BY <1>2, <1>3, <1>4, <1>6, <1>8, <1>9 DEF JobInv, Untouched
<1>14. FileInv'
  BY <1>2, <1>3, <1>4 DEF FileInv
<1>15. WholeInv'
  BY <1>2, <1>3, <1>4, <1>5, <1>6, <1>8 DEF WholeInv
<1> QED
  BY <1>10, <1>11, <1>12, <1>13, <1>14, <1>15

\* A file is unpacked
LEMMA PushFileStep ==
  ASSUME SimpleType, WorkInv, ~Bounded, NEW l \in Loaders, PushFile(l)
  PROVE  WorkInv'
<1>1. PICK p \in PackSet : p = at[l]
  BY NameFacts DEF PushFile, SimpleType, WorkInv, PlaceInv
<1>2. /\ pc[l] = "unpack" /\ at[l] = p /\ sent[p] \in Nat /\ parsed[p] \in Nat
      /\ sent' = [sent EXCEPT ![p] = sent[p] + 1]
      /\ UNCHANGED <<alive, pc, at, parsed, hashed, indexed, count>>
  BY <1>1, NameFacts DEF PushFile, dataVars, SimpleType
<1>3. sent'[p] = sent[p] + 1 /\ \A r \in PackSet : r # p => sent'[r] = sent[r]
  BY <1>2 DEF SimpleType
<1>4. /\ \A r \in Queues : r # p => queue'[r] = queue[r]
      /\ Len(queue'[p]) = Len(queue[p]) + 1 /\ Len(queue[p]) \in Nat
      /\ \A y : Holds(p, y)' <=> Holds(p, y) \/ y = "inf"
      /\ EndLast(p) /\ ~Holds(p, Null) => EndLast(p)'
  <2>1. Push(l, p, "inf") /\ p \in Queues /\ "inf" \in Items /\ QueueType
    BY <1>1, NameFacts DEF PushFile, Items, SimpleType
  <2>2. Len(queue[p]) \in Nat
    BY <2>1 DEF QueueType
  <2> QED
    BY <2>1, <2>2, PushEffect
<1>5. ASSUME NEW r \in Queues, r # p
      PROVE  /\ \A y : Holds(r, y)' <=> Holds(r, y)
             /\ \A y : Once(r, y)' <=> Once(r, y)
             /\ MarkersLast(r)' <=> MarkersLast(r)
             /\ EndLast(r)' <=> EndLast(r)
  BY <1>4, <1>5, SameQueue
<1>6. ASSUME NEW r PROVE Met(r)' <=> Met(r)
  BY <1>2 DEF Met
<1>7. ASSUME NEW r \in PackSet, r # p PROVE Untouched(r)' <=> Untouched(r)
  BY <1>2, <1>3, <1>4, <1>5, <1>7, NameFacts DEF Untouched
<1>8. p \in alive /\ ~Holds(p, Null) /\ p # "packs" /\ p # "jobs"
  BY <1>1, <1>2, NameFacts DEF WorkInv, JobInv
<1>9. /\ ~Untouched(p) /\ Met(p) /\ ~Holds("packs", p)
      /\ \A m \in Loaders : at[m] = p => m = l
  BY <1>2, <1>8 DEF WorkInv, BeginInv, Untouched
<1> USE NameFacts DEF WorkInv
<1>10. PlaceInv'
  BY <1>2 DEF PlaceInv, Phase
<1>11. EndInv'
  BY <1>2, <1>5, <1>8 DEF EndInv
<1>12. BeginInv'
  BY <1>2, <1>5, <1>6, <1>7, <1>8, <1>9 DEF BeginInv
<1>13. JobInv'
  BY <1>2, <1>3, <1>4, <1>5, <1>8, <1>9 DEF JobInv
<1>14. FileInv'
  <2>1. EndLast(p)' /\ parsed'[p] + Len(queue'[p]) = sent'[p] /\ ~Holds(p, Null)'
    BY <1>2, <1>3, <1>4, <1>8 DEF FileInv
  <2>2. ASSUME NEW r \in PackSet, r # p
        PROVE  /\ EndLast(r)'
               /\ parsed'[r] + Len(queue'[r]) = sent'[r] + (IF Holds(r, Null)' THEN 1 ELSE 0)
    BY <1>2, <1>3, <1>4, <1>5, <2>2 DEF FileInv
  <2> QED
    BY <2>1, <2>2, <1>2 DEF FileInv, SimpleType
<1>15. WholeInv'
  BY <1>2, <1>5, <1>6, <1>8 DEF WholeInv
<1> QED
  BY <1>10, <1>11, <1>12, <1>13, <1>14, <1>15


\* The archive cannot be opened
LEMMA OpenFailsStep ==
  ASSUME SimpleType, WorkInv, NEW l \in Loaders, OpenFails(l)
  PROVE  WorkInv'
<1>1. /\ pc[l] = "unpack" /\ pc'[l] = "mark"
      /\ \A t \in Threads : t # l => pc'[t] = pc[t]
      /\ UNCHANGED <<queue, alive, at, sent, parsed, hashed, indexed, count>>
  BY NameFacts DEF OpenFails, dataVars, SimpleType
<1>2. ASSUME NEW r \in Queues
      PROVE  /\ \A y : Holds(r, y)' <=> Holds(r, y)
             /\ \A y : Once(r, y)' <=> Once(r, y)
             /\ MarkersLast(r)' <=> MarkersLast(r)
             /\ EndLast(r)' <=> EndLast(r)
  BY <1>1, SameQueue
<1>3. ASSUME NEW r PROVE Met(r)' <=> Met(r)
  BY <1>1, NameFacts DEF Met
<1>4. ASSUME NEW r \in PackSet PROVE Untouched(r)' <=> Untouched(r)
  BY <1>1, <1>2, NameFacts DEF Untouched
<1>5. pc'["main"] = pc["main"] /\ \A i \in Indexers : pc'[i] = pc[i]
  BY <1>1, NameFacts
<1>6. \A m \in Loaders : m # l => pc'[m] = pc[m]
  BY <1>1, NameFacts
<1> USE NameFacts DEF WorkInv
<1>7. PlaceInv'
  BY <1>1, <1>5, <1>6 DEF PlaceInv, Phase
<1>8. EndInv'
  BY <1>1, <1>2, <1>5, <1>6 DEF EndInv
<1>9. BeginInv'
  BY <1>1, <1>2, <1>3, <1>4, <1>6 DEF BeginInv
<1>10. JobInv'
  BY <1>1, <1>2, <1>6 DEF JobInv
<1>11. FileInv'
  BY <1>1, <1>2 DEF FileInv
<1>12. WholeInv'
  BY <1>1, <1>2, <1>3, <1>6 DEF WholeInv
<1> QED
  BY <1>7, <1>8, <1>9, <1>10, <1>11, <1>12

\* The end marker of a pack
LEMMA PushEndStep ==
  ASSUME SimpleType, WorkInv, ~Bounded, NEW l \in Loaders, PushEnd(l)
  PROVE  WorkInv'
<1>1. PICK p \in PackSet : p = at[l]
  BY NameFacts DEF PushEnd, SimpleType, WorkInv, PlaceInv
<1>2. /\ pc[l] \in {"unpack", "mark"} /\ at[l] = p /\ pc'[l] = "pop" /\ at'[l] = Null
      /\ \A t \in Threads : t # l => pc'[t] = pc[t] /\ at'[t] = at[t]
      /\ UNCHANGED <<alive, sent, parsed, hashed, indexed, count>>
  BY <1>1, NameFacts DEF PushEnd, dataVars, SimpleType
<1>3. sent[p] \in Nat /\ parsed[p] \in Nat
  BY DEF SimpleType
<1>4. /\ \A r \in Queues : r # p => queue'[r] = queue[r]
      /\ Len(queue'[p]) = Len(queue[p]) + 1 /\ Len(queue[p]) \in Nat
      /\ \A y : Holds(p, y)' <=> Holds(p, y) \/ y = Null
      /\ EndLast(p) /\ ~Holds(p, Null) => EndLast(p)'
  <2>1. Push(l, p, Null) /\ p \in Queues /\ Null \in Items /\ QueueType
    BY <1>1, NameFacts DEF PushEnd, Items, SimpleType
  <2>2. Len(queue[p]) \in Nat
    BY <2>1 DEF QueueType
  <2> QED
    BY <2>1, <2>2, PushEffect
<1>5. ASSUME NEW r \in Queues, r # p
      PROVE  /\ \A y : Holds(r, y)' <=> Holds(r, y)
             /\ \A y : Once(r, y)' <=> Once(r, y)
             /\ MarkersLast(r)' <=> MarkersLast(r)
             /\ EndLast(r)' <=> EndLast(r)
  BY <1>4, <1>5, SameQueue
<1>6. ASSUME NEW r PROVE Met(r)' <=> Met(r)
  BY <1>2, NameFacts DEF Met
<1>7. /\ pc'["main"] = pc["main"] /\ at'["main"] = at["main"]
      /\ \A i \in Indexers : pc'[i] = pc[i] /\ at'[i] = at[i]
      /\ \A m \in Loaders : m # l => pc'[m] = pc[m] /\ at'[m] = at[m]
  BY <1>2, NameFacts
<1>8. ASSUME NEW r \in PackSet, r # p PROVE Untouched(r)' <=> Untouched(r)
  BY <1>2, <1>4, <1>5, <1>7, <1>8, NameFacts DEF Untouched
<1>9. p \in alive /\ ~Holds(p, Null) /\ p # "packs" /\ p # "jobs"
  BY <1>1, <1>2, NameFacts DEF WorkInv, JobInv
<1>10. /\ ~Untouched(p) /\ Met(p) /\ ~Holds("packs", p)
       /\ \A m \in Loaders : at[m] = p => m = l
  BY <1>2, <1>9 DEF WorkInv, BeginInv, Untouched
<1> USE NameFacts DEF WorkInv
<1>11. PlaceInv'
  BY <1>2, <1>7 DEF PlaceInv, Phase
<1>12. EndInv'
  BY <1>2, <1>5, <1>7, <1>9 DEF EndInv
<1>13. BeginInv'
  BY <1>2, <1>5, <1>6, <1>7, <1>8, <1>9, <1>10 DEF BeginInv
<1>14. JobInv'
  BY <1>2, <1>4, <1>5, <1>7, <1>9, <1>10 DEF JobInv
<1>15. FileInv'
  <2>1. EndLast(p)' /\ parsed'[p] + Len(queue'[p]) = sent'[p] + 1 /\ Holds(p, Null)'
    <3>1. EndLast(p) /\ parsed[p] + Len(queue[p]) = sent[p]
      BY <1>3, <1>9 DEF FileInv
    <3> QED
      BY <1>2, <1>3, <1>4, <1>9, <3>1
  <2>2. ASSUME NEW r \in PackSet, r # p
        PROVE  /\ EndLast(r)'
               /\ parsed'[r] + Len(queue'[r]) = sent'[r] + (IF Holds(r, Null)' THEN 1 ELSE 0)
    BY <1>2, <1>4, <1>5, <2>2 DEF FileInv
  <2>3. ASSUME NEW r \in PackSet
        PROVE  /\ EndLast(r)'
               /\ parsed'[r] + Len(queue'[r]) = sent'[r] + (IF Holds(r, Null)' THEN 1 ELSE 0)
    <3>1. CASE r = p
      BY <2>1, <3>1
    <3>2. CASE r # p
      BY <2>2, <3>2
    <3> QED
      BY <3>1, <3>2
  <2> QED
    BY <2>3 DEF FileInv
<1>16. WholeInv'
  BY <1>2, <1>5, <1>6, <1>7, <1>9 DEF WholeInv
<1> QED
  BY <1>11, <1>12, <1>13, <1>14, <1>15, <1>16


----------------------------------------------------------------------------
(* Steps of indexinf_thread *)

\* It takes a pack or an end marker
LEMMA TakeJobStep ==
  ASSUME SimpleType, WorkInv, NEW i \in Indexers, TakeJob(i)
  PROVE  WorkInv'
<1>1. PICK x \in PackSet \cup {Null} :
        /\ Pop(i, x)
        /\ pc' = [pc EXCEPT ![i] = IF x = Null THEN "ended" ELSE "parse"]
        /\ at' = [at EXCEPT ![i] = x]
  BY DEF TakeJob
<1>2. /\ pc[i] = "pop" /\ at[i] = Null /\ at'[i] = x
      /\ pc'[i] = (IF x = Null THEN "ended" ELSE "parse")
      /\ \A t \in Threads : t # i => pc'[t] = pc[t] /\ at'[t] = at[t]
      /\ UNCHANGED <<alive, sent, parsed, hashed, indexed, count>>
  BY <1>1, NameFacts DEF TakeJob, dataVars, SimpleType, WorkInv, PlaceInv
<1>3. /\ \A r \in Queues : r # "jobs" => queue'[r] = queue[r]
      /\ Holds("jobs", x)
      /\ \A y : Holds("jobs", y)' => Holds("jobs", y)
      /\ \A y : Holds("jobs", y) => y = x \/ Holds("jobs", y)'
      /\ \A y : Once("jobs", y) => Once("jobs", y)' /\ (y = x => ~Holds("jobs", y)')
      /\ MarkersLast("jobs") =>
           MarkersLast("jobs")' /\ (x = Null => \A y : Holds("jobs", y)' => y = Null)
  <2>1. From(i) = "jobs" /\ "jobs" \in Queues /\ QueueType
    BY <1>2, NameFacts DEF From, SimpleType
  <2> QED
    BY <1>1, <2>1, PopEffect
<1>4. ASSUME NEW r \in Queues, r # "jobs"
      PROVE  /\ \A y : Holds(r, y)' <=> Holds(r, y)
             /\ \A y : Once(r, y)' <=> Once(r, y)
             /\ MarkersLast(r)' <=> MarkersLast(r)
             /\ EndLast(r)' <=> EndLast(r)
  BY <1>3, <1>4, SameQueue
<1>5. ASSUME NEW r PROVE Met(r)' <=> Met(r)
  BY <1>2, NameFacts DEF Met
<1>6. /\ pc'["main"] = pc["main"] /\ at'["main"] = at["main"]
      /\ \A l \in Loaders : pc'[l] = pc[l] /\ at'[l] = at[l]
      /\ \A j \in Indexers : j # i => pc'[j] = pc[j] /\ at'[j] = at[j]
  BY <1>2, NameFacts
<1>7. ASSUME NEW r \in PackSet, r # x PROVE Untouched(r)' <=> Untouched(r)
  BY <1>2, <1>3, <1>4, <1>6, <1>7, NameFacts DEF Untouched
<1>8. x \in PackSet =>
        /\ ~Untouched(x) /\ Met(x) /\ ~Holds("packs", x) /\ x \in alive
        /\ \A l \in Loaders : at[l] = x => pc[l] # "load"
        /\ \A j \in Indexers : at[j] # x
  BY <1>3 DEF WorkInv, BeginInv, JobInv, Untouched
<1> USE NameFacts DEF WorkInv
<1>9. PlaceInv'
  BY <1>1, <1>2, <1>6 DEF PlaceInv, Phase
<1>10. EndInv'
  BY <1>2, <1>3, <1>4, <1>6 DEF EndInv, Phase
<1>11. BeginInv'
  BY <1>1, <1>2, <1>3, <1>4, <1>5, <1>6, <1>7, <1>8 DEF BeginInv
<1>12. JobInv'
  <2>1. ASSUME NEW p \in PackSet, p = x
        PROVE  /\ Once("jobs", p)' /\ ~Holds("jobs", p)' /\ p \in alive' /\ hashed'[p] = 0
               /\ \A j, k \in Indexers : at'[j] = p /\ at'[k] = p => j = k
               /\ at'[i] = p
    BY <1>2, <1>3, <1>6, <1>8, <2>1 DEF JobInv
  <2>2. ASSUME NEW p \in PackSet, p # x
        PROVE  /\ Once("jobs", p)' /\ (Holds("jobs", p)' <=> Holds("jobs", p))
               /\ \A j \in Indexers : at'[j] = p <=> at[j] = p
    BY <1>2, <1>3, <1>6, <2>2 DEF JobInv, PlaceInv
  <2>3. ASSUME NEW p \in PackSet
        PROVE  \A l \in Loaders : at'[l] = p /\ pc'[l] \in {"unpack", "mark"} =>
                 p \in alive' /\ ~Holds(p, Null)'
    BY <1>2, <1>4, <1>6 DEF JobInv
  <2>4. ASSUME NEW p \in PackSet
        PROVE  p \notin alive' => queue'[p] = <<>> /\ parsed'[p] = sent'[p] /\ hashed'[p] \in {0, 1}
    BY <1>2, <1>3 DEF JobInv
  <2> QED
    BY <1>2, <2>1, <2>2, <2>3, <2>4 DEF JobInv
<1>13. FileInv'
  BY <1>2, <1>3, <1>4 DEF FileInv
<1>14. WholeInv'
  BY <1>2, <1>4, <1>5, <1>6 DEF WholeInv
<1> QED
  BY <1>9, <1>10, <1>11, <1>12, <1>13, <1>14

\* It parses a file
LEMMA ParseStep ==
  ASSUME SimpleType, WorkInv, NEW i \in Indexers, Parse(i)
  PROVE  WorkInv'
<1>1. PICK p \in PackSet : p = at[i]
  BY NameFacts DEF Parse, SimpleType, WorkInv, PlaceInv
<1>2. /\ pc[i] = "parse" /\ at[i] = p
      /\ parsed' = [parsed EXCEPT ![p] = parsed[p] + 1]
      /\ UNCHANGED <<alive, pc, at, sent, hashed, indexed, count>>
  BY <1>1 DEF Parse
<1>3. /\ parsed[p] \in Nat /\ sent[p] \in Nat /\ parsed'[p] = parsed[p] + 1
      /\ \A r \in PackSet : r # p => parsed'[r] = parsed[r]
  BY <1>2 DEF SimpleType
<1>4. /\ \A r \in Queues : r # p => queue'[r] = queue[r]
      /\ Len(queue[p]) \in Nat /\ Len(queue'[p]) = Len(queue[p]) - 1
      /\ \A y : Holds(p, y)' => Holds(p, y)
      /\ \A y : Holds(p, y) => y = "inf" \/ Holds(p, y)'
      /\ EndLast(p) => EndLast(p)'
  <2>1. From(i) = p /\ p \in Queues /\ QueueType /\ Pop(i, "inf")
    BY <1>2, NameFacts DEF From, SimpleType, Parse
  <2>2. Len(queue[p]) \in Nat
    BY <2>1 DEF QueueType
  <2> QED
    BY <2>1, <2>2, PopEffect
<1>5. ASSUME NEW r \in Queues, r # p
      PROVE  /\ \A y : Holds(r, y)' <=> Holds(r, y)
             /\ \A y : Once(r, y)' <=> Once(r, y)
             /\ MarkersLast(r)' <=> MarkersLast(r)
             /\ EndLast(r)' <=> EndLast(r)
  BY <1>4, <1>5, SameQueue
<1>6. ASSUME NEW r PROVE Met(r)' <=> Met(r)
  BY <1>2 DEF Met
<1>7. ASSUME NEW r \in PackSet, r # p PROVE Untouched(r)' <=> Untouched(r)
  BY <1>2, <1>3, <1>4, <1>5, <1>7, NameFacts DEF Untouched
<1>8. /\ p \in alive /\ ~Holds("jobs", p) /\ ~Untouched(p) /\ Met(p) /\ ~Holds("packs", p)
      /\ \A l \in Loaders : at[l] = p => pc[l] # "load"
  BY <1>2 DEF WorkInv, BeginInv, JobInv, Untouched
<1> USE NameFacts DEF WorkInv
<1>9. PlaceInv'
  BY <1>2 DEF PlaceInv, Phase
<1>10. EndInv'
  BY <1>2, <1>5 DEF EndInv
<1>11. BeginInv'
  BY <1>2, <1>5, <1>6, <1>7, <1>8 DEF BeginInv
<1>12. JobInv'
  <2>1. ASSUME NEW r \in PackSet, NEW l \in Loaders, at[l] = r, pc[l] \in {"unpack", "mark"}
        PROVE  r \in alive /\ ~Holds(r, Null)'
    BY <1>4, <1>5, <2>1 DEF JobInv
  <2>2. ASSUME NEW r \in PackSet, Holds("jobs", r) \/ r \notin alive
        PROVE  r # p /\ parsed'[r] = parsed[r] /\ queue'[r] = queue[r]
    BY <1>3, <1>4, <1>8, <2>2
  <2> QED
    BY <1>2, <1>5, <2>1, <2>2 DEF JobInv
<1>13. FileInv'
  <2>1. EndLast(p) /\ parsed[p] + Len(queue[p]) = sent[p] + (IF Holds(p, Null) THEN 1 ELSE 0)
    BY DEF FileInv
  <2>2. Holds(p, Null)' <=> Holds(p, Null)
    BY <1>4
  <2>3. EndLast(p)' /\ parsed'[p] + Len(queue'[p]) = sent'[p] + (IF Holds(p, Null)' THEN 1 ELSE 0)
    BY <1>2, <1>3, <1>4, <2>1, <2>2, SMTT(30)
  <2>4. ASSUME NEW r \in PackSet, r # p
        PROVE  /\ EndLast(r)'
               /\ parsed'[r] + Len(queue'[r]) = sent'[r] + (IF Holds(r, Null)' THEN 1 ELSE 0)
    BY <1>2, <1>3, <1>4, <1>5, <2>4 DEF FileInv
  <2> QED
    BY <2>3, <2>4 DEF FileInv
<1>14. WholeInv'
  BY <1>2, <1>5, <1>6 DEF WholeInv
<1> QED
  BY <1>9, <1>10, <1>11, <1>12, <1>13, <1>14


\* It takes the end marker of its pack
LEMMA FinishPackStep ==
  ASSUME SimpleType, WorkInv, NEW i \in Indexers, FinishPack(i)
  PROVE  WorkInv'
<1>1. PICK p \in PackSet : p = at[i]
  BY NameFacts DEF FinishPack, SimpleType, WorkInv, PlaceInv
<1>2. /\ pc[i] = "parse" /\ at[i] = p /\ pc'[i] = "pop" /\ at'[i] = Null
      /\ \A t \in Threads : t # i => pc'[t] = pc[t] /\ at'[t] = at[t]
      /\ alive' = alive \ {p}
      /\ hashed' = [hashed EXCEPT ![p] = hashed[p] + 1]
      /\ UNCHANGED <<sent, parsed, indexed, count>>
  BY <1>1, NameFacts DEF FinishPack, SimpleType
<1>3. /\ parsed[p] \in Nat /\ sent[p] \in Nat /\ hashed'[p] = hashed[p] + 1
      /\ \A r \in PackSet : r # p => hashed'[r] = hashed[r]
  BY <1>2 DEF SimpleType
<1>4. /\ \A r \in Queues : r # p => queue'[r] = queue[r]
      /\ Len(queue'[p]) = Len(queue[p]) - 1 /\ Holds(p, Null)
      /\ EndLast(p) => EndLast(p)' /\ Len(queue[p]) = 1
      /\ queue'[p] \in Seq(Items)
  <2>1. From(i) = p /\ p \in Queues /\ QueueType /\ Pop(i, Null)
    BY <1>2, NameFacts DEF From, SimpleType, FinishPack
  <2>2. QueueType'
    BY <2>1, PopType
  <2> QED
    BY <2>1, <2>2, PopEffect DEF QueueType
<1>5. ASSUME NEW r \in Queues, r # p
      PROVE  /\ \A y : Holds(r, y)' <=> Holds(r, y)
             /\ \A y : Once(r, y)' <=> Once(r, y)
             /\ MarkersLast(r)' <=> MarkersLast(r)
             /\ EndLast(r)' <=> EndLast(r)
  BY <1>4, <1>5, SameQueue
<1>6. ASSUME NEW r PROVE Met(r)' <=> Met(r)
  BY <1>2, NameFacts DEF Met
<1>7. /\ pc'["main"] = pc["main"] /\ at'["main"] = at["main"]
      /\ \A l \in Loaders : pc'[l] = pc[l] /\ at'[l] = at[l]
      /\ \A j \in Indexers : j # i => pc'[j] = pc[j] /\ at'[j] = at[j]
  BY <1>2, NameFacts
<1>8. ASSUME NEW r \in PackSet, r # p PROVE Untouched(r)' <=> Untouched(r)
  BY <1>2, <1>3, <1>4, <1>5, <1>7, <1>8, NameFacts DEF Untouched
<1>9. /\ p \in alive /\ hashed[p] = 0 /\ ~Holds("jobs", p)
      /\ ~Untouched(p) /\ Met(p) /\ ~Holds("packs", p)
      /\ \A l \in Loaders : at[l] = p => pc[l] \notin {"load", "unpack", "mark"}
      /\ \A j \in Indexers : at[j] = p => j = i
  BY <1>2, <1>4 DEF WorkInv, BeginInv, JobInv, Untouched
<1>10. queue'[p] = <<>> /\ parsed[p] = sent[p] /\ hashed'[p] = 1 /\ EndLast(p)'
  <2>1. EndLast(p) /\ parsed[p] + Len(queue[p]) = sent[p] + 1
    BY <1>4 DEF WorkInv, FileInv
  <2>2. Len(queue[p]) = 1 /\ Len(queue'[p]) = 0 /\ EndLast(p)'
    BY <1>4, <2>1
  <2>3. queue'[p] = <<>>
    BY <1>4, <2>2
  <2> QED
    BY <1>3, <1>9, <2>1, <2>2, <2>3
<1>11. ~Holds(p, Null)'
  BY <1>10 DEF Holds
<1> USE NameFacts DEF WorkInv
<1>12. PlaceInv'
  BY <1>2, <1>7 DEF PlaceInv, Phase
<1>13. EndInv'
  BY <1>2, <1>5, <1>7 DEF EndInv
<1>14. BeginInv'
  BY <1>2, <1>5, <1>6, <1>7, <1>8, <1>9 DEF BeginInv
<1>15. JobInv'
  <2>1. ASSUME NEW r \in PackSet
        PROVE  /\ Once("jobs", r)' /\ (Holds("jobs", r)' <=> Holds("jobs", r))
               /\ \A j, k \in Indexers : at'[j] = r /\ at'[k] = r => j = k
    BY <1>2, <1>5, <1>7 DEF JobInv
  <2>2. /\ ~Holds("jobs", p)' /\ p \notin alive'
        /\ \A j \in Indexers : at'[j] # p
        /\ \A l \in Loaders : ~(at'[l] = p /\ pc'[l] \in {"unpack", "mark"})
        /\ queue'[p] = <<>> /\ parsed'[p] = sent'[p] /\ hashed'[p] \in {0, 1}
    BY <1>2, <1>5, <1>7, <1>9, <1>10
  <2>3. ASSUME NEW r \in PackSet, r # p
        PROVE  /\ Holds("jobs", r)' => r \in alive' /\ parsed'[r] = 0 /\ \A j \in Indexers : at'[j] # r
               /\ \A j \in Indexers : at'[j] = r => r \in alive'
               /\ r \in alive' =>
                    hashed'[r] = 0 /\ (Holds("jobs", r)' \/ \E j \in Indexers : at'[j] = r)
               /\ \A l \in Loaders : at'[l] = r /\ pc'[l] \in {"unpack", "mark"} =>
                    r \in alive' /\ ~Holds(r, Null)'
               /\ r \notin alive' =>
                    queue'[r] = <<>> /\ parsed'[r] = sent'[r] /\ hashed'[r] \in {0, 1}
    <3>1. \A j \in Indexers : at'[j] = r <=> at[j] = r
      BY <1>2, <1>7, <2>3
    <3>2. /\ r \in alive' <=> r \in alive
          /\ Holds("jobs", r)' <=> Holds("jobs", r)
          /\ Holds(r, Null)' <=> Holds(r, Null)
          /\ queue'[r] = queue[r] /\ hashed'[r] = hashed[r]
      BY <1>2, <1>3, <1>4, <1>5, <2>3
    <3> QED
      BY <1>2, <1>7, <3>1, <3>2 DEF JobInv
  <2> QED
    BY <2>1, <2>2, <2>3 DEF JobInv
<1>16. FileInv'
  <2>1. EndLast(p)' /\ parsed'[p] + Len(queue'[p]) = sent'[p] + (IF Holds(p, Null)' THEN 1 ELSE 0)
    BY <1>2, <1>3, <1>10, <1>11
  <2>2. ASSUME NEW r \in PackSet, r # p
        PROVE  /\ EndLast(r)'
               /\ parsed'[r] + Len(queue'[r]) = sent'[r] + (IF Holds(r, Null)' THEN 1 ELSE 0)
    BY <1>2, <1>4, <1>5, <2>2 DEF FileInv
  <2> QED
    BY <2>1, <2>2 DEF FileInv
<1>17. WholeInv'
  BY <1>2, <1>3, <1>5, <1>6, <1>7, <1>10 DEF WholeInv
<1> QED
  BY <1>12, <1>13, <1>14, <1>15, <1>16, <1>17

----------------------------------------------------------------------------
(* The invariant *)

LEMMA InitInv == Init => SimpleType /\ WorkInv
<1> SUFFICES ASSUME Init PROVE SimpleType /\ WorkInv
  OBVIOUS
<1>1. /\ \A q \in Queues : queue[q] = <<>>
      /\ alive = {} /\ count = 0
      /\ pc["main"] = "scan" /\ at["main"] = Null
      /\ \A t \in Loaders \cup Indexers : pc[t] = "pop" /\ at[t] = Null
      /\ \A p \in PackSet : sent[p] = 0 /\ parsed[p] = 0 /\ hashed[p] = 0
  BY NameFacts DEF Init
<1>2. \A q \in Queues : /\ MarkersLast(q) /\ EndLast(q)
                       /\ \A y : ~Holds(q, y) /\ Once(q, y)
  BY <1>1 DEF Holds, Once, MarkersLast, EndLast
<1>3. SimpleType
  <2>1. QueueType
    BY DEF Init, QueueType
  <2> QED
    BY <2>1 DEF Init, SimpleType, Places, Null
<1>4. \A p \in PackSet : ~Met(p)
  BY <1>1 DEF Met
<1>5. \A p \in PackSet : Untouched(p)
  BY <1>1, <1>2, NameFacts DEF Untouched
<1>6. Len(Packs) \in Nat
  BY PackAssumption
<1> USE NameFacts
<1>7. PlaceInv
  <2>1. ASSUME NEW t \in Loaders \cup Indexers PROVE pc[t] = "pop" /\ at[t] = Null
    BY <1>1
  <2> QED
    BY <1>1, <1>6, <2>1 DEF PlaceInv, Phase
<1>8. EndInv
  BY <1>1, <1>2 DEF EndInv
<1>9. BeginInv /\ WholeInv
  BY <1>1, <1>2, <1>4, <1>5 DEF BeginInv, WholeInv
<1>10. JobInv
  BY <1>1, <1>2 DEF JobInv
<1>11. FileInv
  BY <1>1, <1>2 DEF FileInv
<1> QED
  BY <1>3, <1>7, <1>8, <1>9, <1>10, <1>11 DEF WorkInv

LEMMA StepInv ==
  ASSUME ~Bounded, SimpleType, WorkInv, [Next]_vars
  PROVE  WorkInv'
<1>1. ASSUME NEW t \in Threads, Notify(t) \/ FindEmpty(t) \/ Sleep(t) PROVE WorkInv'
  BY <1>1, QuietStep DEF Notify, FindEmpty, Sleep
<1>2. CASE Populate
  BY <1>2, FindPackStep, PushMarkerStep, ContinueStep DEF Populate
<1>3. ASSUME NEW l \in Loaders, Loader(l) PROVE WorkInv'
  BY <1>3, TakePackStep, LoadIndexStep, PushJobStep, PushFileStep, OpenFailsStep, PushEndStep
  DEF Loader
<1>4. ASSUME NEW i \in Indexers, Indexer(i) PROVE WorkInv'
  BY <1>4, TakeJobStep, ParseStep, FinishPackStep DEF Indexer
<1>5. CASE UNCHANGED vars
  BY <1>5, QuietStep DEF vars
<1> QED
  BY <1>1, <1>2, <1>3, <1>4, <1>5 DEF Next, Thread

\* Types, and that files are pushed to and taken from a queue that exists
THEOREM TypeInvariant ==
  ASSUME ~Bounded
  PROVE  Spec => []TypeOK
<1>1. Init => SimpleType /\ WorkInv
  BY InitInv
<1>2. SimpleType /\ WorkInv /\ [Next]_vars => (SimpleType /\ WorkInv)'
  BY StepInv, StepType DEF WorkInv
<1>3. SimpleType /\ WorkInv => TypeOK
  BY SimpleTypes DEF WorkInv
<1> QED
  BY <1>1, <1>2, <1>3, PTL DEF Spec

\* What is unpacked is parsed by one thread, before the hash table is made, and before
\* populate returns (indexing.cpp 600-720)
THEOREM PacksIndexed ==
  ASSUME ~Bounded
  PROVE  Spec => []Indexed
<1>1. Init => SimpleType /\ WorkInv
  BY InitInv
<1>2. SimpleType /\ WorkInv /\ [Next]_vars => (SimpleType /\ WorkInv)'
  BY StepInv, StepType DEF WorkInv
<1>3. SimpleType /\ WorkInv => Indexed
  <2> SUFFICES ASSUME SimpleType, WorkInv PROVE Indexed
    OBVIOUS
  <2>1. ASSUME NEW p \in PackSet, hashed[p] > 0
        PROVE  parsed[p] = sent[p] /\ hashed[p] = 1 /\ \A i \in Indexers : at[i] # p
    <3>1. p \notin alive
      BY <2>1 DEF WorkInv, JobInv
    <3> QED
      BY <2>1, <3>1 DEF WorkInv, JobInv
  <2>2. OneIndexer
    <3>1. ASSUME NEW i \in Indexers, NEW j \in Indexers, at[i] = at[j], at[i] # Null PROVE i = j
      <4>1. at[i] \in PackSet
        BY <3>1, NameFacts DEF SimpleType
      <4> QED
        BY <3>1, <4>1 DEF WorkInv, JobInv
    <3> QED
      BY <3>1 DEF OneIndexer
  <2>3. ASSUME pc["main"] = "done", NEW p \in PackSet, p \notin indexed PROVE hashed[p] = 1
    <3>1. /\ Met(p) /\ ~Holds("packs", p) /\ ~Holds("jobs", p)
          /\ \A i \in Indexers : at[i] = Null
          /\ \A l \in Loaders : pc[l] = "ended"
      BY <2>3, ThreadAssumption DEF WorkInv, Met, PlaceInv, EndInv, Phase
    <3>2. p \notin alive
      BY <3>1, NameFacts DEF WorkInv, JobInv
    <3> QED
      BY <2>3, <3>1, <3>2 DEF WorkInv, WholeInv
  <2>4. IndexedWhole
    BY <2>1, <2>3 DEF IndexedWhole
  <2>5. HashedLast
    BY <2>1 DEF HashedLast
  <2> QED
    BY <2>2, <2>4, <2>5 DEF Indexed
<1> QED
  BY <1>1, <1>2, <1>3, PTL DEF Spec

============================================================================
