----------------------------- MODULE Hashtable -----------------------------
(***************************************************************************)
(* The hash table of a driver pack (SDI.cpp, Hashtable): a table of size   *)
(* slots, behind which the items that found their slot taken are appended; *)
(* next chains the items of a slot.  It is filled from the list of HWIDs   *)
(* (indexing.cpp, genhashes) and searched for each id of a device          *)
(* (matcher.cpp, findHWIDs).  A step is one turn of a loop.                *)
(*                                                                         *)
(* In next, 0 says that a slot is free and -1 that an item is the last.    *)
(***************************************************************************)
EXTENDS Integers, Sequences

CONSTANTS
  HWID,      \* the hardware ids
  Code(_),   \* gethashcode of the text of an id: the key
  Slot(_),   \* gethashcode of the four bytes of a key
  MaxItems   \* bound: ids in one pack

ASSUME CodeAssumption == \A h \in HWID : Code(h) \in Nat
ASSUME SlotAssumption == \A h \in HWID : Slot(Code(h)) \in Nat
ASSUME BoundAssumption == MaxItems \in Nat

Codes == {Code(h) : h \in HWID}

VARIABLES
  list,        \* the ids of HWID_list
  i,           \* how many of them were added
  size, total, \* slots; items, also those behind the slots (items.size())
  items,
  findnext_v, findstr,   \* where findnext goes on, and for which key
  pc, curi,
  hwid,        \* the id findHWIDs looks for
  answer,      \* what find or findnext returned
  hits         \* what findHWIDs added to hwidmatch_list for this id

tableVars == <<list, i, size, total, items>>
cursorVars == <<findnext_v, findstr>>
queryVars == <<hwid, answer, hits>>
vars == <<tableVars, cursorVars, pc, curi, queryVars>>

Item == [key : Nat, value : Nat, next : Int]

Empty == [key |-> 0, value |-> 0, next |-> 0]

None == [isfound |-> FALSE, value |-> 0]

\* Types of the state
TypeOK ==
  /\ list \in Seq(HWID) /\ i \in 0..Len(list)
  /\ size \in Nat \ {0} /\ total \in Nat /\ size <= total
  /\ items \in [0..(total - 1) -> Item]
  /\ findnext_v \in Int /\ findstr \in Codes
  /\ pc \in {"build", "walk", "ready", "seek", "found", "again", "done"}
  /\ curi \in Nat /\ hwid \in HWID
  /\ answer \in [isfound : BOOLEAN, value : Nat] /\ hits \subseteq Nat

Home(c) == Slot(c) % size

Key(v) == Code(list[v + 1])

-----------------------------------------------------------------------------
\* Driverpack::genhashes

\* reset, with half as many slots as there are ids
Reset(n) ==
  /\ size' = (IF n \div 2 = 0 THEN 1 ELSE n \div 2) /\ total' = size'
  /\ items' = [j \in 0..(size' - 1) |-> Empty]

\* The list was filled; that of the pack of loose files is filled again and again
Genhashes ==
  /\ pc \in {"ready", "done"} /\ pc' = "build"
  /\ \E n \in 0..MaxItems : /\ list' \in [1..n -> HWID]
                            /\ Reset(n)
  /\ i' = 0 /\ UNCHANGED <<cursorVars, curi, queryVars>>

AddItem ==
  /\ pc = "build" /\ i < Len(list)
  /\ curi' = Home(Key(i)) /\ pc' = "walk"
  /\ UNCHANGED <<tableVars, cursorVars, queryVars>>

Walk ==
  /\ pc = "walk" /\ items[curi].next > 0
  /\ curi' = items[curi].next
  /\ UNCHANGED <<tableVars, cursorVars, pc, queryVars>>

New == [key |-> Key(i), value |-> i, next |-> -1]

\* The slot is free
Fill ==
  /\ pc = "walk" /\ items[curi].next = 0
  /\ items' = [items EXCEPT ![curi] = New]
  /\ i' = i + 1 /\ pc' = "build"
  /\ UNCHANGED <<list, size, total, cursorVars, curi, queryVars>>

\* Slip: it is put between the slot and its successor
ChainFirst ==
  /\ pc = "walk" /\ items[curi].next = -1
  /\ items' = [j \in 0..total |->
                 IF j = total THEN [New EXCEPT !.next = items[Home(Key(i))].next]
                 ELSE IF j = Home(Key(i)) THEN [items[j] EXCEPT !.next = total] ELSE items[j]]
  /\ total' = total + 1
  /\ i' = i + 1 /\ pc' = "build"
  /\ UNCHANGED <<list, size, cursorVars, curi, queryVars>>

\* Slip: the slot and not the last item gets the successor
ChainSlot ==
  /\ pc = "walk" /\ items[curi].next = -1
  /\ items' = [j \in 0..total |->
                 IF j = total THEN New
                 ELSE IF j = Home(Key(i)) THEN [items[j] EXCEPT !.next = total] ELSE items[j]]
  /\ total' = total + 1
  /\ i' = i + 1 /\ pc' = "build"
  /\ UNCHANGED <<list, size, cursorVars, curi, queryVars>>

\* The last of the chain gets a successor behind the table
Chain ==
  /\ pc = "walk" /\ items[curi].next = -1
  /\ items' = [j \in 0..total |->
                 IF j = total THEN New
                 ELSE IF j = curi THEN [items[j] EXCEPT !.next = total] ELSE items[j]]
  /\ total' = total + 1
  /\ i' = i + 1 /\ pc' = "build"
  /\ UNCHANGED <<list, size, cursorVars, curi, queryVars>>

Built ==
  /\ pc = "build" /\ i = Len(list) /\ pc' = "ready"
  /\ UNCHANGED <<tableVars, cursorVars, curi, queryVars>>

-----------------------------------------------------------------------------
\* savedata and loaddata: the items and not the cursor, which a new table leaves
\* uninitialised
Load ==
  /\ pc \in {"ready", "done"} /\ pc' = "ready"
  /\ findnext_v' \in -1..1 /\ findstr' \in Codes
  /\ UNCHANGED <<tableVars, curi, queryVars>>

-----------------------------------------------------------------------------
\* MatcherImp::findHWIDs

Find ==
  /\ pc \in {"ready", "done"} /\ pc' = "seek"
  /\ \E h \in HWID : hwid' = h /\ curi' = Home(Code(h))
  /\ hits' = {} /\ UNCHANGED <<tableVars, cursorVars, answer>>

\* Both loops look for a key, find for the one asked, findnext for the one found
Wanted == IF pc = "seek" THEN Code(hwid) ELSE findstr

Here == items[curi].next # 0 /\ items[curi].key = Wanted

Hit ==
  /\ pc \in {"seek", "again"} /\ Here
  /\ answer' = [isfound |-> TRUE, value |-> items[curi].value]
  /\ findnext_v' = items[curi].next /\ findstr' = Wanted /\ pc' = "found"
  /\ hits' = hits \cup {items[curi].value}
  /\ UNCHANGED <<tableVars, curi, hwid>>

\* Slip: the loop does not advance
FollowNot ==
  /\ pc \in {"seek", "again"} /\ ~Here /\ items[curi].next > 0
  /\ curi' = curi
  /\ UNCHANGED <<tableVars, cursorVars, pc, queryVars>>

Follow ==
  /\ pc \in {"seek", "again"} /\ ~Here /\ items[curi].next > 0
  /\ curi' = items[curi].next
  /\ UNCHANGED <<tableVars, cursorVars, pc, queryVars>>

Miss ==
  /\ \/ pc \in {"seek", "again"} /\ ~Here /\ items[curi].next <= 0
     \/ pc = "found" /\ findnext_v <= 0
  /\ answer' = None /\ pc' = "done"
  /\ UNCHANGED <<tableVars, cursorVars, curi, hwid, hits>>

FindNext ==
  /\ pc = "found" /\ findnext_v > 0
  /\ curi' = findnext_v /\ pc' = "again"
  /\ UNCHANGED <<tableVars, cursorVars, queryVars>>

-----------------------------------------------------------------------------
\* A new pack: reset(0)
Init ==
  /\ list = <<>> /\ i = 0 /\ size = 1 /\ total = 1 /\ items = [j \in 0..0 |-> Empty]
  /\ findnext_v \in -1..1 /\ findstr \in Codes
  /\ pc = "ready" /\ curi = 0 /\ hwid \in HWID /\ answer = None /\ hits = {}

Loops == AddItem \/ Walk \/ Fill \/ Chain \/ Built \/ Hit \/ Follow \/ Miss \/ FindNext

Next == Genhashes \/ Loops \/ Load \/ Find

Spec == Init /\ [][Next]_vars

\* The loops go on; nobody has to look for anything
FairSpec == Spec /\ WF_vars(Loops)

-----------------------------------------------------------------------------
Used(j) == items[j].next # 0

\* The chain of a slot
Of(c) == {j \in DOMAIN items : Used(j) /\ Home(items[j].key) = Home(c)}

\* The items are the ids added so far, each once, those of a slot in the order of the list
Stored ==
  /\ \A j \in DOMAIN items :
       Used(j) => items[j].value < i /\ items[j].key = Key(items[j].value)
  /\ \A v \in 0..(i - 1) : \E j \in DOMAIN items : Used(j) /\ items[j].value = v
  /\ \A j, k \in DOMAIN items :
       Used(j) /\ Used(k) /\ j < k /\ Home(items[j].key) = Home(items[k].key)
         => items[j].value < items[k].value

\* An item lies in its slot, or behind the table if that is taken
Rooted(j) ==
  IF j < size THEN Used(j) => Home(items[j].key) = j
              ELSE Used(j) /\ Used(Home(items[j].key))

\* From each item of a chain, next leads to the next one
Linked(j) ==
  Used(j) =>
    LET later == {k \in Of(items[j].key) : k > j}
    IN  IF later = {} THEN items[j].next = -1
        ELSE items[j].next \in later /\ \A k \in later : items[j].next <= k

Chained == \A j \in DOMAIN items : Rooted(j) /\ Linked(j)

\* Nothing is lost on the way: findHWIDs has found each position of a code
FindsAll ==
  pc = "done" => hits = {v \in 0..(Len(list) - 1) : Key(v) = Code(hwid)}

\* The table is an index of the list
Index ==
  INSTANCE HwidIndex WITH Codes <- Codes, codes <- [v \in 1..i |-> Code(list[v])]

ImplementsIndex == Index!Spec

\* Every search and every filling ends
LookupEnds == pc \notin {"ready", "done"} ~> pc \in {"ready", "done"}

\* What a comment of findHWIDs says: collisions within an index are handled, so that
\* what is found is the id of the device
OwnHits == pc = "done" => \A v \in hits : list[v + 1] = hwid

=============================================================================
