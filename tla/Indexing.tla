------------------------------ MODULE Indexing ------------------------------
(***************************************************************************)
(* The indexing of driver packs (indexing.cpp, Collection::populate): the  *)
(* thread that finds the packs, the threads that load or unpack them       *)
(* (loaddrp_thread), the threads that parse what was unpacked              *)
(* (indexinf_thread), and the queues between them (concurrent_queue), each *)
(* with its mutex and its auto-reset event.                                *)
(***************************************************************************)
EXTENDS Integers, Sequences, FiniteSets

CONSTANTS
  Packs,     \* the archives in the folder, in the order they are found
  Files,     \* Files[p]: inf and cat files in pack p
  Loaders,   \* loaddrp_thread
  Indexers,  \* indexinf_thread
  Bounded,   \* 32-bit build: a queue takes MaxSize items
  MaxSize

PackSet == {Packs[k] : k \in DOMAIN Packs}

\* The queue of packs, the queue of packs to be parsed, objs_new of each pack
Queues == {"packs", "jobs"} \cup PackSet

Null == "null"

Threads == {"main"} \cup Loaders \cup Indexers

ASSUME PackAssumption ==
  /\ Packs \in Seq(PackSet) /\ Files \in [PackSet -> Nat]
  /\ \A j, k \in DOMAIN Packs : Packs[j] = Packs[k] => j = k
  /\ PackSet \cap {"packs", "jobs", Null, "inf"} = {}

ASSUME ThreadAssumption ==
  /\ IsFiniteSet(Loaders) /\ IsFiniteSet(Indexers)
  /\ "main" \notin Loaders \cup Indexers /\ Loaders \cap Indexers = {}
  /\ Loaders # {} /\ Indexers # {}

ASSUME SizeAssumption ==
  Bounded \in BOOLEAN /\ MaxSize \in Nat

VARIABLES
  indexed, \* packs with a valid index file; none of them when reindexing is forced
  queue,   \* the_queue of each concurrent_queue
  signal,  \* notification of each concurrent_queue is signalled
  alive,   \* packs whose objs_new exists
  pc, at,  \* place of each thread, and the pack it works on
  wait,    \* wait_and_pop: "run"; "empty" after it unlocked; "asleep" in WaitForSingleObject
  post,    \* push: the queue whose event is still to be set
  count,   \* main: packs found, end markers pushed, indices loaded
  sent,    \* files of a pack that were pushed
  parsed,  \* files of a pack that were parsed
  hashed   \* genhashes calls for a pack

dataVars == <<sent, parsed, hashed>>
vars == <<queue, signal, alive, pc, at, wait, post, count, dataVars, indexed>>

----------------------------------------------------------------------------
(* concurrent_queue *)

Full(q) == Bounded /\ Len(queue[q]) >= MaxSize

\* push, up to the release of the mutex.  No caller looks at what it returns
Push(t, q, x) ==
  /\ post[t] = Null
  /\ IF Full(q) THEN UNCHANGED <<queue, post>>
     ELSE /\ queue' = [queue EXCEPT ![q] = Append(@, x)]
          /\ post' = [post EXCEPT ![t] = q]

\* The queue a thread takes from
From(t) == IF t \in Loaders THEN "packs" ELSE IF pc[t] = "pop" THEN "jobs" ELSE at[t]

\* SetEvent: one thread that is asleep goes on, or the event stays signalled.  Nothing is there
\* to be signalled when the queue has been deleted since
Notify(t) ==
  /\ post[t] # Null
  /\ LET q == post[t]
         asleep == {u \in Threads : wait[u] = "asleep" /\ From(u) = q}
     IN  IF asleep = {} \/ (q \in PackSet \ alive)
         THEN signal' = [signal EXCEPT ![q] = q \in alive \cup {"packs", "jobs"}] /\ UNCHANGED wait
         ELSE \E u \in asleep : wait' = [wait EXCEPT ![u] = "run"] /\ UNCHANGED signal
  /\ post' = [post EXCEPT ![t] = Null]
  /\ UNCHANGED <<queue, alive, pc, at, count, dataVars, indexed>>

Takes(t) == pc[t] = "pop" \/ pc[t] = "parse"

\* wait_and_pop finds the queue empty and releases the mutex
FindEmpty(t) ==
  /\ Takes(t) /\ wait[t] = "run" /\ post[t] = Null /\ queue[From(t)] = <<>>
  /\ wait' = [wait EXCEPT ![t] = "empty"]
  /\ UNCHANGED <<queue, signal, alive, pc, at, post, count, dataVars, indexed>>

\* WaitForSingleObject: an event that is signalled is taken
Sleep(t) ==
  /\ wait[t] = "empty"
  /\ wait' = [wait EXCEPT ![t] = IF signal[From(t)] THEN "run" ELSE "asleep"]
  /\ signal' = [signal EXCEPT ![From(t)] = FALSE]
  /\ UNCHANGED <<queue, alive, pc, at, post, count, dataVars, indexed>>

\* Slip: front without pop
PopKeeps(t, x) ==
  /\ wait[t] = "run" /\ post[t] = Null
  /\ queue[From(t)] # <<>> /\ x = Head(queue[From(t)])
  /\ UNCHANGED queue

\* Slip: a stack
PopNewest(t, x) ==
  /\ wait[t] = "run" /\ post[t] = Null
  /\ queue[From(t)] # <<>>
  /\ queue' = [queue EXCEPT ![From(t)] = SubSeq(@, 1, Len(@) - 1)]
  /\ x = queue[From(t)][Len(queue[From(t)])]

\* wait_and_pop takes x
Pop(t, x) ==
  /\ wait[t] = "run" /\ post[t] = Null
  /\ queue[From(t)] # <<>> /\ x = Head(queue[From(t)])
  /\ queue' = [queue EXCEPT ![From(t)] = Tail(@)]

----------------------------------------------------------------------------
(* loaddrp_thread *)

TakePack(l) ==
  /\ pc[l] = "pop"
  /\ \E x \in PackSet \cup {Null} :
       /\ Pop(l, x)
       /\ pc' = [pc EXCEPT ![l] = IF x = Null THEN "ended" ELSE "load"]
       /\ at' = [at EXCEPT ![l] = x]
  /\ UNCHANGED <<signal, alive, wait, post, count, dataVars, indexed>>

\* loadindex succeeds
LoadIndex(l) ==
  /\ pc[l] = "load" /\ at[l] \in indexed
  /\ pc' = [pc EXCEPT ![l] = "pop"]
  /\ at' = [at EXCEPT ![l] = Null]
  /\ UNCHANGED <<queue, signal, alive, wait, post, count, dataVars, indexed>>

NewQueue(l) == alive' = alive \cup {at[l]}

\* There is no index: a queue for the files, and a job for the threads that parse them
PushJob(l) ==
  /\ pc[l] = "load" /\ at[l] \notin indexed
  /\ Push(l, "jobs", at[l])
  /\ NewQueue(l)
  /\ pc' = [pc EXCEPT ![l] = "unpack"]
  /\ UNCHANGED <<signal, at, wait, count, dataVars, indexed>>

\* genindex: the files are unpacked and pushed
PushFile(l) ==
  /\ pc[l] = "unpack" /\ sent[at[l]] < Files[at[l]]
  /\ Push(l, at[l], "inf")
  /\ sent' = [sent EXCEPT ![at[l]] = @ + 1]
  /\ UNCHANGED <<signal, alive, pc, at, wait, count, parsed, hashed, indexed>>

\* genindex cannot open the archive
OpenFails(l) ==
  /\ pc[l] = "unpack" /\ sent[at[l]] = 0 /\ post[l] = Null
  /\ pc' = [pc EXCEPT ![l] = "mark"]
  /\ UNCHANGED <<queue, signal, alive, at, wait, post, count, dataVars, indexed>>

\* The end marker, after the last file
PushEnd(l) ==
  /\ pc[l] = "mark" \/ (pc[l] = "unpack" /\ sent[at[l]] = Files[at[l]])
  /\ Push(l, at[l], Null)
  /\ pc' = [pc EXCEPT ![l] = "pop"]
  /\ at' = [at EXCEPT ![l] = Null]
  /\ UNCHANGED <<signal, alive, wait, count, dataVars, indexed>>

Loader(l) ==
  TakePack(l) \/ LoadIndex(l) \/ PushJob(l) \/ PushFile(l) \/ OpenFails(l) \/ PushEnd(l)

----------------------------------------------------------------------------
(* indexinf_thread *)

TakeJob(i) ==
  /\ pc[i] = "pop"
  /\ \E x \in PackSet \cup {Null} :
       /\ Pop(i, x)
       /\ pc' = [pc EXCEPT ![i] = IF x = Null THEN "ended" ELSE "parse"]
       /\ at' = [at EXCEPT ![i] = x]
  /\ UNCHANGED <<signal, alive, wait, post, count, dataVars, indexed>>

Parse(i) ==
  /\ pc[i] = "parse"
  /\ Pop(i, "inf")
  /\ parsed' = [parsed EXCEPT ![at[i]] = @ + 1]
  /\ UNCHANGED <<signal, alive, pc, at, wait, post, count, sent, hashed, indexed>>

\* The end marker: genhashes, and the queue is deleted
FinishPack(i) ==
  /\ pc[i] = "parse"
  /\ Pop(i, Null)
  /\ hashed' = [hashed EXCEPT ![at[i]] = @ + 1]
  /\ alive' = alive \ {at[i]}
  /\ pc' = [pc EXCEPT ![i] = "pop"]
  /\ at' = [at EXCEPT ![i] = Null]
  /\ UNCHANGED <<signal, wait, post, count, sent, parsed, indexed>>

Indexer(i) == TakeJob(i) \/ Parse(i) \/ FinishPack(i)

----------------------------------------------------------------------------
(* Collection::populate *)

\* scanfolder, one archive
FindPack ==
  /\ pc["main"] = "scan" /\ count < Len(Packs)
  /\ Push("main", "packs", Packs[count + 1])
  /\ count' = count + 1
  /\ UNCHANGED <<signal, alive, pc, at, wait, dataVars, indexed>>

\* Slip: one marker too few
OneLess(n) == n - 1

\* An end marker for each thread
Markers(n) == n

\* The end markers for the threads that wait at queue q
PushMarker(from, q, threads) ==
  /\ pc["main"] = from /\ count < Markers(Cardinality(threads))
  /\ Push("main", q, Null)
  /\ count' = count + 1
  /\ UNCHANGED <<signal, alive, pc, at, wait, dataVars, indexed>>

\* From one phase to the next one
Continue(from, to) ==
  /\ pc["main"] = from /\ post["main"] = Null
  /\ pc' = [pc EXCEPT !["main"] = to]
  /\ count' = 0
  /\ UNCHANGED <<queue, signal, alive, at, wait, post, dataVars, indexed>>

\* Slip: populate does not wait for the threads
Unjoined(threads) == TRUE

Joined(threads) == \A t \in threads : pc[t] = "ended"

Populate ==
  \/ FindPack
  \/ count = Len(Packs) /\ Continue("scan", "markers")
  \/ PushMarker("markers", "packs", Loaders)
  \/ count = Markers(Cardinality(Loaders)) /\ Continue("markers", "join")
  \/ Joined(Loaders) /\ Continue("join", "markers1")
  \/ PushMarker("markers1", "jobs", Indexers)
  \/ count = Markers(Cardinality(Indexers)) /\ Continue("markers1", "join1")
  \/ Joined(Indexers) /\ Continue("join1", "done")

----------------------------------------------------------------------------
\* populate has started the threads
Init ==
  /\ indexed \in SUBSET PackSet
  /\ queue = [q \in Queues |-> <<>>] /\ signal = [q \in Queues |-> FALSE] /\ alive = {}
  /\ pc = [t \in Threads |-> IF t = "main" THEN "scan" ELSE "pop"]
  /\ at = [t \in Threads |-> Null]
  /\ wait = [t \in Threads |-> "run"] /\ post = [t \in Threads |-> Null]
  /\ count = 0
  /\ sent = [p \in PackSet |-> 0] /\ parsed = [p \in PackSet |-> 0]
  /\ hashed = [p \in PackSet |-> 0]

Thread(t) ==
  \/ t = "main" /\ Populate
  \/ t \in Loaders /\ Loader(t)
  \/ t \in Indexers /\ Indexer(t)
  \/ Notify(t)
  \/ t # "main" /\ (FindEmpty(t) \/ Sleep(t))

Next == \E t \in Threads : Thread(t)

Spec == Init /\ [][Next]_vars

\* Every thread runs
FairSpec == Spec /\ \A t \in Threads : WF_vars(Thread(t))

----------------------------------------------------------------------------
(* Properties *)

\* Types, and that files are pushed to and taken from a queue that exists
TypeOK ==
  /\ indexed \subseteq PackSet
  /\ queue \in [Queues -> Seq(PackSet \cup {Null, "inf"})]
  /\ signal \in [Queues -> BOOLEAN] /\ alive \subseteq PackSet
  /\ pc \in [Threads -> {"scan", "markers", "join", "markers1", "join1", "done",
                         "pop", "load", "unpack", "mark", "parse", "ended"}]
  /\ at \in [Threads -> PackSet \cup {Null}]
  /\ wait \in [Threads -> {"run", "empty", "asleep"}]
  /\ post \in [Threads -> Queues \cup {Null}]
  /\ count \in Nat
  /\ sent \in [PackSet -> Nat] /\ parsed \in [PackSet -> Nat] /\ hashed \in [PackSet -> Nat]
  /\ \A t \in Threads : pc[t] \in {"unpack", "mark", "parse"} => at[t] \in alive

\* When populate returns, each pack was loaded from its index, or every file of it that was
\* unpacked is in its tables, and the hash table was made once
IndexedWhole ==
  pc["main"] = "done" =>
    \A p \in PackSet : p \in indexed \/ (hashed[p] = 1 /\ parsed[p] = sent[p])

\* The hash table of a pack is made after its last file: nothing is parsed, and no other
\* thread is at the pack, when it is there
HashedLast ==
  \A p \in PackSet :
    hashed[p] > 0 => /\ parsed[p] = sent[p] /\ hashed[p] = 1
                     /\ \A i \in Indexers : at[i] # p

\* A pack's tables, which have no lock, belong to one parsing thread
OneIndexer == \A i, j \in Indexers : i # j /\ at[i] # Null => at[i] # at[j]

\* What is unpacked is parsed by one thread, before the hash table is made, and before
\* populate returns
Indexed == IndexedWhole /\ HashedLast /\ OneIndexer

\* A thread sleeps on a queue that is not empty, and nobody is about to wake it: two pushes
\* set the event once, before either of two threads waited
Stranded(t) ==
  /\ wait[t] = "asleep" /\ queue[From(t)] # <<>>
  /\ \A u \in Threads : post[u] # From(t)

\* The indexing ends, or a wake-up was lost
EndsOrStranded == <>(pc["main"] = "done" \/ \E t \in Threads : Stranded(t))

\* The indexing ends: threads are not blocked for ever by a queue that is full ("fail fast
\* instead of blocking indefinitely", indexing.cpp 106-107)
IndexingEnds == <>(pc["main"] = "done")

=============================================================================
