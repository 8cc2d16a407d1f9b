-------------------------- MODULE InstallerProofs --------------------------
(***************************************************************************)
(* For any number of threads, rows, drivers and scans: the state of the    *)
(* installer stays in its types, the critical section is exclusive, and    *)
(* the installation thread never goes through a stale itembar.             *)
(***************************************************************************)
EXTENDS Installer, TLAPS

----------------------------------------------------------------------------
(* Lists of rows *)

\* A list with the positions of another one, all of them rows, is a list of rows
LEMMA SamePositions ==
  ASSUME NEW rs \in Seq(Row), NEW f \in [DOMAIN rs -> Row]
  PROVE  f \in Seq(Row) /\ DOMAIN f = DOMAIN rs
  OBVIOUS

\* A row whose visibility, selection and status are replaced is a row
LEMMA RowEdit ==
  ASSUME NEW r \in Row, NEW a \in SUBSET {1, 2, 4}, NEW c \in BOOLEAN, NEW st \in Statuses
  PROVE  /\ [r EXCEPT !.active = a] \in Row
         /\ [r EXCEPT !.checked = c] \in Row
         /\ [r EXCEPT !.status = st] \in Row
         /\ [r EXCEPT !.active = a, !.checked = c] \in Row
         /\ [r EXCEPT !.checked = c, !.status = st] \in Row
         /\ [r EXCEPT !.status = st, !.checked = c] \in Row
         /\ [r EXCEPT !.active = a, !.checked = c, !.status = st] \in Row
  BY DEF Row

\* Manager::populate makes rows of what a scan found
LEMMA PopulateType ==
  ASSUME NEW list \in Lists
  PROVE  Populate(list) \in Seq(Row)
<1> DEFINE Entry == [match : Matches \cup {NoMatch}, dev : Devices, name : BOOLEAN]
<1>1. list \in Seq(Entry)
  BY MatchAssumption
<1>2. DOMAIN list = 1..Len(list) /\ Len(list) \in Nat
  BY <1>1
<1>3. \A k \in DOMAIN list : list[k] \in Entry
  <2> HIDE DEF Entry
  <2> QED
    BY <1>1
<1>4. Populate(list) \in [1..Len(list) -> Row]
  BY <1>2, <1>3 DEF Populate, Row, Statuses
<1> QED
  BY <1>2, <1>4

\* Manager::filter
LEMMA FilterType ==
  ASSUME NEW rs \in Seq(Row)
  PROVE  Filter(rs) \in Seq(Row)
<1>1. Filter(rs) \in [DOMAIN rs -> Row]
  <2> SUFFICES ASSUME NEW k \in DOMAIN rs
               PROVE  Filter(rs)[k] \in Row
    BY DEF Filter
  <2>1. rs[k] \in Row
    OBVIOUS
  <2> QED
    BY <2>1, RowEdit, ZenonT(60) DEF Filter, Row
<1> QED
  BY <1>1, SamePositions

\* restorepos
LEMMA RestoreType ==
  ASSUME NEW new \in Seq(Row), NEW old \in Seq(Row)
  PROVE  Restore(new, old) \in Seq(Row)
<1> DEFINE src == Source(new, old)
<1>1. Restore(new, old) \in [DOMAIN new -> Row]
  <2> SUFFICES ASSUME NEW k \in DOMAIN new
               PROVE  Restore(new, old)[k] \in Row
    BY DEF Restore
  <2>1. CASE src[k] \in DOMAIN old
    <3>1. old[src[k]] \in Row /\ new[k] \in Row
      BY <2>1
    <3>2. Restore(new, old)[k] = [new[k] EXCEPT !.active = old[src[k]].active,
                                    !.checked = old[src[k]].checked, !.status = old[src[k]].status]
      BY <2>1 DEF Restore
    <3>3. /\ old[src[k]].active \in SUBSET {1, 2, 4}
          /\ old[src[k]].checked \in BOOLEAN
          /\ old[src[k]].status \in Statuses
      BY <3>1 DEF Row
    <3> HIDE DEF src
    <3> QED
      BY <3>1, <3>2, <3>3 DEF Row
  <2>2. CASE src[k] \notin DOMAIN old
    BY <2>2 DEF Restore
  <2> QED
    BY <2>1, <2>2
<1> QED
  BY <1>1, SamePositions

\* The edits of the user, and of the thread that shows a result
LEMMA EditType ==
  ASSUME NEW rs \in Seq(Row), NEW k \in Int
  PROVE  /\ k \in DOMAIN rs => Expand(rs, k) \in Seq(Row) /\ Collapse(rs, k) \in Seq(Row)
         /\ Unselect(rs) \in Seq(Row)
         /\ SelectAll(rs) \in Seq(Row)
         /\ Cleared(rs) \in Seq(Row)
<1>1. \A j \in DOMAIN rs : rs[j] \in Row
  OBVIOUS
<1>2. ASSUME k \in DOMAIN rs
      PROVE  Expand(rs, k) \in Seq(Row) /\ Collapse(rs, k) \in Seq(Row)
  <2>1. ASSUME NEW j \in DOMAIN rs
        PROVE  [rs[j] EXCEPT !.active = @ \cup {2}] \in Row
    BY <1>1 DEF Row
  <2>2. ASSUME NEW j \in DOMAIN rs
        PROVE  [rs[j] EXCEPT !.active = (@ \cap {1}) \cup (IF rs[j].checked THEN {4} ELSE {})]
                 \in Row
    BY <1>1 DEF Row
  <2>3. CASE 2 \in rs[k].active
    BY <1>1, <2>2, <2>3, SamePositions DEF Expand, Collapse
  <2>4. CASE 2 \notin rs[k].active
    BY <1>1, <2>1, <2>4, SamePositions DEF Expand, Collapse
  <2> QED
    BY <2>3, <2>4
<1>3. Unselect(rs) \in [DOMAIN rs -> Row]
  <2> SUFFICES ASSUME NEW j \in DOMAIN rs
               PROVE  [rs[j] EXCEPT !.checked = FALSE] \in Row
    BY DEF Unselect
  <2> QED
    BY <1>1 DEF Row
<1>4. SelectAll(rs) \in [DOMAIN rs -> Row]
  <2> SUFFICES ASSUME NEW j \in DOMAIN rs
               PROVE  [rs[j] EXCEPT !.checked = FirstOfGroup(rs, j) /\ rs[j].status = "none"]
                        \in Row
    BY DEF SelectAll
  <2>1. FirstOfGroup(rs, j) \in BOOLEAN
    BY DEF FirstOfGroup
  <2> QED
    BY <1>1, <2>1, ZenonT(60) DEF Row
<1>5. [j \in DOMAIN rs |-> [rs[j] EXCEPT !.status = "none"]] \in [DOMAIN rs -> Row]
  <2> SUFFICES ASSUME NEW j \in DOMAIN rs
               PROVE  [rs[j] EXCEPT !.status = "none"] \in Row
    OBVIOUS
  <2> QED
    BY <1>1, SMTT(30) DEF Row, Statuses
<1> QED
  BY <1>2, <1>3, <1>4, <1>5, SamePositions, FilterType DEF Cleared

\* toggle, and the status and selection of one item
LEMMA ToggleType ==
  ASSUME NEW rs \in Seq(Row), NEW k \in DOMAIN rs
  PROVE  Toggled(rs, k) \in Seq(Row)
<1> DEFINE on == ~rs[k].checked
           st == IF mode = "NONE" THEN rs[k].status
                 ELSE IF ~on THEN "STOPPING"
                 ELSE IF rs[k].status = "STOPPING" THEN "none" ELSE rs[k].status
           flipped == [j \in DOMAIN rs |->
                         IF j = k THEN [rs[j] EXCEPT !.checked = on, !.status = st]
                         ELSE IF rs[j].dev = rs[k].dev THEN [rs[j] EXCEPT !.checked = FALSE]
                         ELSE rs[j]]
<1>1. on \in BOOLEAN /\ st \in Statuses
  <2>1. rs[k] \in Row
    OBVIOUS
  <2> QED
    BY <2>1 DEF Row, Statuses
<1>2. flipped \in [DOMAIN rs -> Row]
  <2> SUFFICES ASSUME NEW j \in DOMAIN rs
               PROVE  flipped[j] \in Row
    OBVIOUS
  <2>1. rs[j] \in Row
    OBVIOUS
  <2>2. [rs[j] EXCEPT !.checked = on, !.status = st] \in Row
    <3> HIDE DEF on, st
    <3> QED
      BY <1>1, <2>1 DEF Row
  <2>3. [rs[j] EXCEPT !.checked = FALSE] \in Row
    BY <2>1 DEF Row
  <2> HIDE DEF on, st
  <2> QED
    BY <2>1, <2>2, <2>3
<1>3. flipped \in Seq(Row) /\ k \in DOMAIN flipped /\ k \in Int
  <2> HIDE DEF flipped
  <2> QED
    BY <1>2, SamePositions
<1>4. Toggled(rs, k) = IF on THEN Collapse(flipped, k) ELSE flipped
  BY DEF Toggled
<1> HIDE DEF on, flipped
<1> QED
  BY <1>3, <1>4, EditType

LEMMA PutType ==
  ASSUME NEW rs \in Seq(Row), NEW k \in Int, NEW st \in Statuses, NEW on \in BOOLEAN
  PROVE  Put(rs, k, st, on) \in Seq(Row)
<1>1. CASE k \in DOMAIN rs
  <2>1. rs[k] \in Row
    BY <1>1
  <2>2. [rs[k] EXCEPT !.status = st, !.checked = on] \in Row
    BY <2>1 DEF Row
  <2>3. Put(rs, k, st, on) = [rs EXCEPT ![k] = [rs[k] EXCEPT !.status = st, !.checked = on]]
    BY <1>1 DEF Put
  <2> QED
    BY <1>1, <2>2, <2>3
<1>2. CASE k \notin DOMAIN rs
  BY <1>2 DEF Put
<1> QED
  BY <1>1, <1>2

\* What is read at a position, be it a row or a fixed slot
LEMMA ReadType ==
  ASSUME TypeOK, NEW k \in Int
  PROVE  /\ CheckedAt(k) \in BOOLEAN
         /\ MatchAt(k) \in Matches \cup {NoMatch}
         /\ StatusAt(k) \in Statuses
<1>1. \A j \in DOMAIN rows : rows[j] \in Row
  BY DEF TypeOK
<1> QED
  BY <1>1 DEF TypeOK, CheckedAt, MatchAt, StatusAt, Row, Statuses

----------------------------------------------------------------------------
(* Types: one lemma for the steps of a thread, one for those of the GUI *)

\* At the start
LEMMA InitType == Init => TypeOK
<1> SUFFICES ASSUME Init PROVE TypeOK
  OBVIOUS
<1>1. NoLocals \in Locals
  BY DEF NoLocals, Locals
<1>2. pc \in [Threads -> Labels]
  BY DEF Init, Labels
<1>3. loc \in [Threads -> Locals]
  BY <1>1 DEF Init
<1>4. rows \in Seq(Row)
  BY DEF Init
<1>5. autoinst \in BOOLEAN
  BY FlagAssumption DEF Init
<1>6. picked \in [Matches -> Nat] /\ calls \in [Matches -> Nat]
  BY DEF Init
<1>7. /\ mode \in Modes /\ instflag \in {"INSTALLDRIVERS", "OPENFOLDER"}
      /\ lock \in Threads \cup {Free} /\ gen \in Nat
      /\ slot \in {"none", "INSTALLING", "EXTRACTING", "STOPPING", "COMPLETED"}
      /\ rp \in BOOLEAN /\ reboot \in BOOLEAN
  BY DEF Init, Modes
<1>9. act \in Int
  <2>1. EmptySlot \in Int
    BY DEF EmptySlot
  <2> QED
    BY <2>1 DEF Init
<1>8. /\ extracted \subseteq Matches \cup {NoMatch}
      /\ dl \in {"idle", "running", "pausing", "done"}
      /\ gui \in {"idle", "swap", "after", "closed"} /\ asking \in BOOLEAN
      /\ raised \in BOOLEAN /\ discard \in BOOLEAN /\ clicks \in Nat /\ passes \in Nat
      /\ finished \in Nat /\ fault \in BOOLEAN
  BY DEF Init
<1> QED
  BY <1>2, <1>3, <1>4, <1>5, <1>6, <1>7, <1>8, <1>9 DEF TypeOK

\* Goto and SetLoc
LEMMA GotoType ==
  ASSUME TypeOK, NEW t \in Threads, NEW label \in Labels, Goto(t, label)
  PROVE  pc' \in [Threads -> Labels]
  BY DEF TypeOK, Goto

LEMMA SetLocType ==
  ASSUME TypeOK, NEW t \in Threads, NEW r \in Locals, SetLoc(t, r)
  PROVE  loc' \in [Threads -> Locals]
  BY DEF TypeOK, SetLoc

\* One local of a thread is given a value
LEMMA FieldType ==
  ASSUME NEW l \in Locals
  PROVE  /\ \A n \in Nat : /\ [l EXCEPT !.i = n] \in Locals
                           /\ [l EXCEPT !.barGen = n] \in Locals
                           /\ [l EXCEPT !.hwGen = n] \in Locals
         /\ \A k \in Int : [l EXCEPT !.bar = k] \in Locals
         /\ \A b \in BOOLEAN : [l EXCEPT !.ok = b] \in Locals
         /\ \A m \in Matches \cup {NoMatch} : [l EXCEPT !.hw = m] \in Locals
         /\ \A S \in SUBSET (Matches \cup {NoMatch}) : [l EXCEPT !.want = S] \in Locals
  BY DEF Locals

\* itembar is moved; the driver is read from it; the wanted files are named
LEMMA MoveType ==
  ASSUME NEW l \in Locals, NEW k \in Int, NEW g \in Nat
  PROVE  [l EXCEPT !.bar = k, !.barGen = g] \in Locals
<1> DEFINE l1 == [l EXCEPT !.bar = k]
<1>1. l1 \in Locals
  BY FieldType
<1> HIDE DEF l1
<1>2. [l1 EXCEPT !.barGen = g] \in Locals
  BY <1>1, FieldType
<1> QED
  BY <1>2 DEF l1

LEMMA PlaceType ==
  ASSUME NEW l \in Locals, NEW n \in Nat, NEW k \in Int, NEW g \in Nat
  PROVE  [l EXCEPT !.i = n, !.bar = k, !.barGen = g] \in Locals
<1> DEFINE l1 == [l EXCEPT !.i = n]
<1>1. l1 \in Locals
  BY FieldType
<1> HIDE DEF l1
<1>2. [l1 EXCEPT !.bar = k, !.barGen = g] \in Locals
  BY <1>1, MoveType
<1> QED
  BY <1>2 DEF l1

LEMMA DriverType ==
  ASSUME NEW l \in Locals, NEW m \in Matches \cup {NoMatch}, NEW g \in Nat
  PROVE  [l EXCEPT !.hw = m, !.hwGen = g] \in Locals
<1> DEFINE l1 == [l EXCEPT !.hw = m]
<1>1. l1 \in Locals
  BY FieldType
<1> HIDE DEF l1
<1>2. [l1 EXCEPT !.hwGen = g] \in Locals
  BY <1>1, FieldType
<1> QED
  BY <1>2 DEF l1

LEMMA WantType ==
  ASSUME NEW l \in Locals, NEW b \in BOOLEAN, NEW S \in SUBSET (Matches \cup {NoMatch})
  PROVE  /\ [l EXCEPT !.ok = b, !.want = S] \in Locals
         /\ [l EXCEPT !.want = S, !.ok = b] \in Locals
<1> DEFINE l1 == [l EXCEPT !.ok = b]
           l2 == [l EXCEPT !.want = S]
<1>1. l1 \in Locals /\ l2 \in Locals
  BY FieldType
<1> HIDE DEF l1, l2
<1>2. [l1 EXCEPT !.want = S] \in Locals /\ [l2 EXCEPT !.ok = b] \in Locals
  BY <1>1, FieldType
<1> QED
  BY <1>2 DEF l1, l2

\* The locals of a thread, of one that starts and of one that has ended
LEMMA LocalsType ==
  ASSUME TypeOK, NEW t \in Threads
  PROVE  /\ loc[t] \in Locals
         /\ loc[t].i \in Nat /\ loc[t].bar \in Int
         /\ loc[t].want \subseteq Matches \cup {NoMatch} /\ loc[t].ok \in BOOLEAN
         /\ NewLocals \in Locals
         /\ NoLocals \in Locals
         /\ Refetch(t) \in Locals
         /\ [loc[t] EXCEPT !.i = 1, !.bar = 1, !.barGen = gen] \in Locals
<1>1. loc[t] \in Locals /\ gen \in Nat /\ act \in Int
  BY DEF TypeOK
<1>2. NewLocals \in Locals /\ NoLocals \in Locals
  BY <1>1 DEF Locals, NewLocals, NoLocals
<1>3. Refetch(t) \in Locals
  BY <1>1, MoveType DEF Refetch
<1>4. [loc[t] EXCEPT !.i = 1, !.bar = 1, !.barGen = gen] \in Locals
  <2>1. 1 \in Nat /\ 1 \in Int
    OBVIOUS
  <2> QED
    BY <1>1, <2>1, PlaceType
<1>5. /\ loc[t].i \in Nat /\ loc[t].bar \in Int
      /\ loc[t].want \subseteq Matches \cup {NoMatch} /\ loc[t].ok \in BOOLEAN
  BY <1>1 DEF Locals
<1> QED
  BY <1>1, <1>2, <1>3, <1>4, <1>5

\* Advance
LEMMA AdvanceType ==
  ASSUME NEW l \in Locals
  PROVE  Advance(l) \in Locals
<1> DEFINE l1 == [l EXCEPT !.i = l.i + 1]
           l2 == [l1 EXCEPT !.bar = l.bar + 1]
           l3 == [l2 EXCEPT !.hw = NoMatch]
<1>1. l.i + 1 \in Nat /\ l.bar + 1 \in Int
  BY DEF Locals
<1>2. l1 \in Locals
  BY <1>1, FieldType
<1>3. l2 \in Locals
  <2> HIDE DEF l1
  <2> QED
    BY <1>1, <1>2, FieldType
<1>4. l3 \in Locals
  <2> HIDE DEF l2
  <2> QED
    BY <1>3, FieldType
<1>5. [l3 EXCEPT !.want = {}, !.ok = FALSE] \in Locals
  <2> HIDE DEF l3
  <2> QED
    BY <1>4, WantType
<1>6. Advance(l) = [l3 EXCEPT !.want = {}, !.ok = FALSE]
  BY DEF Advance, Locals
<1> QED
  BY <1>5, <1>6

\* The steps of a thread that leave the list alone
LEMMA QuietStepType ==
  ASSUME TypeOK, NEW t \in Threads,
         \/ Enter(t) \/ SelectDownloads(t) \/ AwaitDownload(t) \/ RestorePoint(t)
         \/ RestorePointDone(t) \/ TryExtract(t) \/ CallInstall(t) \/ Rescan(t)
  PROVE  TypeOK'
<1> USE DEF listVars, modeVars, threadVars, guiVars, reqVars, boundVars, histVars
<1>0. \A x \in {"idle", "select", "download", "downloaded", "creating", "loop", "finish",
               "extracted", "extracting", "called"} : x \in Labels
  BY DEF Labels
<1>1. CASE Enter(t)
  <2>1. loc' \in [Threads -> Locals]
    BY <1>1, LocalsType, SetLocType DEF Enter
  <2>2. pc' \in [Threads -> Labels]
    BY <1>0, <1>1, GotoType DEF Enter
  <2> QED
    BY <1>1, <2>1, <2>2 DEF TypeOK, Enter, Take, Modes
<1>2. CASE SelectDownloads(t)
  <2>1. loc' \in [Threads -> Locals] /\ pc' \in [Threads -> Labels]
    <3>1. PICK k \in 1..(Len(rows) + 1) :
            /\ SetLoc(t, [loc[t] EXCEPT !.bar = k])
            /\ Goto(t, "download") \/ Goto(t, "downloaded")
      BY <1>2 DEF SelectDownloads
    <3>2. k \in Int /\ [loc[t] EXCEPT !.bar = k] \in Locals
      <4>1. k \in Int
        BY DEF TypeOK
      <4> QED
        BY <4>1, LocalsType, FieldType
    <3> QED
      BY <1>0, <3>1, <3>2, SetLocType, GotoType
  <2>2. dl' \in {dl, "running"}
    BY <1>2 DEF SelectDownloads
  <2>3. UNCHANGED <<listVars, modeVars, guiVars, reqVars, boundVars, histVars, lock, extracted>>
    BY <1>2 DEF SelectDownloads
  <2> QED
    BY <2>1, <2>2, <2>3 DEF TypeOK
<1>3. CASE AwaitDownload(t)
  <2>1. pc' \in [Threads -> Labels]
    BY <1>0, <1>3, GotoType DEF AwaitDownload
  <2> QED
    BY <1>3, <2>1 DEF TypeOK, AwaitDownload
<1>4. CASE RestorePoint(t)
  <2>1. pc' \in [Threads -> Labels]
    <3>1. (IF NoStop THEN "loop" ELSE "finish") \in Labels
      BY <1>0
    <3> QED
      BY <1>0, <1>4, <3>1, GotoType DEF RestorePoint
  <2>2. loc' \in [Threads -> Locals]
    <3>1. CASE Start(t)
      BY <3>1, LocalsType, SetLocType DEF Start
    <3>2. CASE UNCHANGED loc
      BY <3>2 DEF TypeOK
    <3> QED
      BY <1>4, <3>1, <3>2 DEF RestorePoint
  <2>3. rp' \in BOOLEAN /\ lock' \in Threads \cup {Free} /\ act' \in Int
    <3>1. RestoreSlot \in Int
      BY DEF RestoreSlot
    <3> QED
      BY <1>4, <3>1 DEF TypeOK, RestorePoint
  <2>4. UNCHANGED <<rows, gen, mode, instflag, autoinst, slot, reboot, guiVars, reqVars, boundVars,
                    histVars, extracted, dl>>
    BY <1>4 DEF RestorePoint
  <2> QED
    BY <1>4, <2>1, <2>2, <2>3, <2>4 DEF TypeOK
<1>5. CASE RestorePointDone(t)
  <2>1. pc' \in [Threads -> Labels]
    BY <1>0, <1>5, GotoType DEF RestorePointDone
  <2>2. loc' \in [Threads -> Locals]
    BY <1>5, LocalsType, SetLocType DEF RestorePointDone, Start
  <2>3. rp' \in BOOLEAN /\ lock' \in Threads \cup {Free}
    BY <1>5 DEF RestorePointDone, Take
  <2>4. UNCHANGED <<listVars, mode, instflag, autoinst, slot, reboot, guiVars, reqVars, boundVars,
                    histVars, extracted, dl>>
    BY <1>5 DEF RestorePointDone
  <2> QED
    BY <2>1, <2>2, <2>3, <2>4 DEF TypeOK
<1>6. CASE TryExtract(t)
  <2>1. pc' \in [Threads -> Labels]
    BY <1>0, <1>6, GotoType DEF TryExtract
  <2> QED
    BY <1>6, <2>1 DEF TypeOK, TryExtract, Free
<1>7. CASE CallInstall(t)
  <2>1. pc' \in [Threads -> Labels]
    BY <1>0, <1>7, GotoType DEF CallInstall
  <2>2. loc' \in [Threads -> Locals]
    <3>1. PICK ok \in BOOLEAN : SetLoc(t, [loc[t] EXCEPT !.ok = ok])
      BY <1>7 DEF CallInstall
    <3> QED
      BY <3>1, LocalsType, FieldType, SetLocType
  <2>3. calls' \in [Matches -> Nat]
    <3>1. calls' = calls \/ calls' = [calls EXCEPT ![loc[t].hw] = @ + 1]
      BY <1>7 DEF CallInstall
    <3>2. calls \in [Matches -> Nat]
      BY DEF TypeOK
    <3> QED
      BY <3>1, <3>2
  <2> QED
    BY <1>7, <2>1, <2>2, <2>3 DEF TypeOK, CallInstall
<1>8. CASE Rescan(t)
  <2>1. pc' \in [Threads -> Labels]
    BY <1>0, <1>8, GotoType DEF Rescan
  <2>2. loc' \in [Threads -> Locals]
    <3>1. CASE Start(t)
      BY <3>1, LocalsType, SetLocType DEF Start
    <3>2. CASE UNCHANGED loc
      BY <3>2 DEF TypeOK
    <3> QED
      BY <1>8, <3>1, <3>2 DEF Rescan
  <2> QED
    BY <1>8, <2>1, <2>2 DEF TypeOK, Rescan
<1> QED
  BY <1>1, <1>2, <1>3, <1>4, <1>5, <1>6, <1>7, <1>8

\* The steps of a thread on the list, up to the extraction
LEMMA ListStepType ==
  ASSUME TypeOK, NEW t \in Threads,
         Downloaded(t) \/ NextItem(t) \/ Stage(t) \/ Extracted(t) \/ AfterExtract(t)
  PROVE  TypeOK'
<1> USE DEF listVars, modeVars, threadVars, guiVars, reqVars, boundVars, histVars
<1>0. \A x \in {"restore", "stage", "rescan", "drive", "try", "extracted"} : x \in Labels
  BY DEF Labels
<1>a. \A st \in {"STOPPING", "EXTRACT", "FAILED", "EXTR_FAILED"} : st \in Statuses
  BY DEF Statuses
<1>b. loc[t] \in Locals /\ loc[t].i \in Nat /\ loc[t].bar \in Int /\ gen \in Nat
  BY LocalsType DEF TypeOK
<1>1. CASE Downloaded(t)
  <2>1. pc' \in [Threads -> Labels]
    BY <1>0, <1>1, GotoType DEF Downloaded
  <2>2. rows' \in Seq(Row)
    <3>1. CASE rows' = rows
      BY <3>1 DEF TypeOK
    <3>2. CASE rows' # rows
      <4> DEFINE marked == [rows EXCEPT ![loc[t].bar].status = "STOPPING"]
      <4>1. loc[t].bar \in DOMAIN rows /\ rows' \in {marked, Unselect(marked)}
        BY <1>1, <3>2 DEF Downloaded
      <4>2. marked \in Seq(Row)
        <5>1. [rows[loc[t].bar] EXCEPT !.status = "STOPPING"] \in Row
          <6>1. rows[loc[t].bar] \in Row
            BY <4>1 DEF TypeOK
          <6> QED
            BY <1>a, <6>1 DEF Row
        <5>2. marked = [rows EXCEPT ![loc[t].bar] = [rows[loc[t].bar] EXCEPT !.status = "STOPPING"]]
          OBVIOUS
        <5> QED
          BY <4>1, <5>1, <5>2 DEF TypeOK
      <4> HIDE DEF marked
      <4> QED
        BY <1>b, <4>1, <4>2, EditType
    <3> QED
      BY <3>1, <3>2
  <2>3. slot' \in {slot, "STOPPING"} /\ fault' \in BOOLEAN
    BY <1>1 DEF Downloaded, Stop, TypeOK
  <2>4. UNCHANGED <<gen, act, mode, instflag, autoinst, rp, reboot, loc, guiVars, reqVars,
                    boundVars, picked, calls, finished, lock, extracted, dl>>
    BY <1>1 DEF Downloaded
  <2> QED
    BY <2>1, <2>2, <2>3, <2>4 DEF TypeOK
<1>2. CASE NextItem(t)
  <2> DEFINE i == loc[t].i
             bar == loc[t].bar
  <2>1. pc' \in [Threads -> Labels]
    BY <1>0, <1>2, GotoType DEF NextItem
  <2>2. act' \in Int /\ loc' \in [Threads -> Locals] /\ fault' \in BOOLEAN
    <3>1. CASE UNCHANGED <<act, loc>>
      BY <1>2, <3>1 DEF NextItem, Stop, TypeOK
    <3>2. CASE ~UNCHANGED <<act, loc>>
      <4>1. PICK n \in 0..(Len(rows) - i) :
              /\ bar + n \in DOMAIN rows
              /\ act' = i + n
              /\ SetLoc(t, [loc[t] EXCEPT !.i = i + n, !.bar = bar + n, !.barGen = gen,
                                          !.hw = rows[bar + n].match, !.hwGen = gen])
              /\ UNCHANGED fault
        BY <1>2, <3>2 DEF NextItem
      <4>2. i + n \in Nat /\ bar + n \in Int /\ rows[bar + n].match \in Matches \cup {NoMatch}
        <5>1. rows[bar + n] \in Row /\ n \in Nat
          BY <4>1, <1>b DEF TypeOK
        <5> QED
          BY <1>b, <5>1, SMTT(30) DEF Row
      <4> DEFINE l1 == [loc[t] EXCEPT !.i = i + n, !.bar = bar + n, !.barGen = gen]
      <4>3. l1 \in Locals
        BY <1>b, <4>2, PlaceType
      <4>4. [l1 EXCEPT !.hw = rows[bar + n].match, !.hwGen = gen] \in Locals
        <5> HIDE DEF l1
        <5> QED
          BY <1>b, <4>2, <4>3, DriverType, ZenonT(60)
      <4> QED
        BY <4>1, <4>2, <4>4, SetLocType, SMTT(30) DEF TypeOK
    <3> QED
      BY <3>1, <3>2, SMTT(30)
  <2>3. UNCHANGED <<rows, gen, modeVars, guiVars, reqVars, boundVars, picked, calls, finished,
                    lock, extracted, dl>>
    BY <1>2 DEF NextItem
  <2> QED
    BY <2>1, <2>2, <2>3 DEF TypeOK
<1>3. CASE Stage(t)
  <2> DEFINE wanted == {rows[k].match : k \in {j \in Batch(t) :
                                                 PackOf[rows[j].match] = PackOf[loc[t].hw]}}
             staged(found) == [loc[t] EXCEPT !.ok = found, !.want = wanted]
  <2>1. pc' \in [Threads -> Labels]
    <3>1. \A found \in BOOLEAN : (IF found THEN "try" ELSE "extracted") \in Labels
      BY <1>0
    <3>2. UNCHANGED pc \/ \E label \in Labels : Goto(t, label)
      BY <1>0, <1>3, <3>1 DEF Stage
    <3> QED
      BY <3>2, GotoType, SMTT(30) DEF TypeOK
  <2>2. rows' \in Seq(Row) /\ loc' \in [Threads -> Locals]
    <3>1. CASE UNCHANGED <<rows, loc>>
      BY <3>1 DEF TypeOK
    <3>2. CASE ~UNCHANGED <<rows, loc>>
      <4>1. PICK found \in BOOLEAN :
              /\ rows' = IF found THEN Put(rows, loc[t].bar, "EXTRACT", CheckedAt(loc[t].bar))
                         ELSE Put(rows, loc[t].bar, "FAILED", FALSE)
              /\ SetLoc(t, staged(found))
              /\ \A k \in Batch(t) : rows[k].match # NoMatch
        BY <1>3, <3>2 DEF Stage
      <4>2. rows' \in Seq(Row)
        BY <1>a, <1>b, <4>1, PutType, ReadType DEF TypeOK
      <4>3. wanted \subseteq Matches \cup {NoMatch}
        <5>1. \A j \in Batch(t) : rows[j] \in Row
          BY DEF Batch, TypeOK
        <5>2. \A j \in Batch(t) : rows[j].match \in Matches \cup {NoMatch}
          BY <5>1 DEF Row
        <5> QED
          BY <5>2
      <4>4. staged(found) \in Locals
        <5> HIDE DEF wanted
        <5> QED
          BY <1>b, <4>3, WantType
      <4> QED
        BY <4>1, <4>2, <4>4, SetLocType
    <3> QED
      BY <3>1, <3>2
  <2>3. fault' \in BOOLEAN
    BY <1>3, ZenonT(60) DEF Stage, Stop, TypeOK
  <2>4. UNCHANGED <<gen, act, modeVars, guiVars, reqVars, boundVars, picked, calls, finished,
                    lock, extracted, dl>>
    BY <1>3 DEF Stage
  <2> QED
    BY <2>1, <2>2, <2>3, <2>4 DEF TypeOK
<1>4. CASE Extracted(t)
  <2>1. pc' \in [Threads -> Labels]
    <3>1. \A again \in BOOLEAN : (IF again THEN "try" ELSE "extracted") \in Labels
      BY <1>0
    <3>2. UNCHANGED pc \/ \E label \in Labels : Goto(t, label)
      BY <1>4, <3>1 DEF Extracted
    <3> QED
      BY <3>2, GotoType DEF TypeOK
  <2>2. loc' \in [Threads -> Locals]
    <3>1. UNCHANGED loc \/ SetLoc(t, Refetch(t))
      BY <1>4 DEF Extracted
    <3> QED
      BY <3>1, LocalsType, SetLocType DEF TypeOK
  <2>3. extracted' \subseteq Matches \cup {NoMatch}
    <3>1. extracted' \in {extracted, extracted \cup loc[t].want}
      BY <1>4 DEF Extracted
    <3>2. loc[t].want \subseteq Matches \cup {NoMatch}
      BY LocalsType
    <3> QED
      BY <3>1, <3>2 DEF TypeOK
  <2>4. fault' \in BOOLEAN /\ lock' \in Threads \cup {Free}
    BY <1>4 DEF Extracted, Take, Stop, TypeOK
  <2>5. UNCHANGED <<listVars, modeVars, guiVars, reqVars, boundVars, picked, calls, finished, dl>>
    BY <1>4 DEF Extracted
  <2> QED
    BY <2>1, <2>2, <2>3, <2>4, <2>5 DEF TypeOK
<1>5. CASE AfterExtract(t)
  <2> DEFINE bar == loc[t].bar
             st == IF mode = "STOPPING" THEN "STOPPING" ELSE StatusAt(bar)
             fails == loc[t].ok /\ st # "STOPPING"
             on == CheckedAt(bar) /\ ~fails
             shown == IF fails THEN "EXTR_FAILED" ELSE st
  <2>1. pc' \in [Threads -> Labels]
    BY <1>0, <1>5, GotoType DEF AfterExtract
  <2>2. on \in BOOLEAN /\ shown \in Statuses
    BY <1>a, <1>b, ReadType
  <2>3. rows' = Put(rows, bar, shown, on) /\ rp' = IF bar = RestoreSlot THEN on ELSE rp
    BY <1>5 DEF AfterExtract, PutRp
  <2>4. rows' \in Seq(Row) /\ rp' \in BOOLEAN
    <3> HIDE DEF on, shown
    <3> QED
      BY <1>b, <2>2, <2>3, PutType DEF TypeOK
  <2>5. loc' \in [Threads -> Locals]
    BY <1>5, <1>b, ReadType, DriverType, SetLocType DEF AfterExtract
  <2>6. slot' \in {slot, "STOPPING"}
    BY <1>5 DEF AfterExtract
  <2>7. UNCHANGED <<gen, act, mode, instflag, autoinst, reboot, guiVars, reqVars, boundVars,
                    histVars, lock, extracted, dl>>
    BY <1>5 DEF AfterExtract
  <2> QED
    BY <2>1, <2>4, <2>5, <2>6, <2>7 DEF TypeOK
<1> QED
  BY <1>1, <1>2, <1>3, <1>4, <1>5

\* The rest of them: the installation of the driver, its result, the end
LEMMA ResultStepType ==
  ASSUME TypeOK, NEW t \in Threads,
         Drive(t) \/ Installed(t) \/ Finish(t) \/ End(t) \/ Report(t)
  PROVE  TypeOK'
<1> USE DEF listVars, modeVars, threadVars, guiVars, reqVars, boundVars, histVars
<1>0. \A x \in {"loop", "call", "idle", "end", "report"} : x \in Labels
  BY DEF Labels
<1>a. \A st \in {"STOPPING", "INSTALL", "EXTR_OK", "OK", "REBOOT", "FAILED"} : st \in Statuses
  BY DEF Statuses
<1>b. /\ loc[t] \in Locals /\ loc[t].i \in Nat /\ loc[t].bar \in Int
      /\ rows \in Seq(Row) /\ act \in Int /\ rp \in BOOLEAN
  BY LocalsType DEF TypeOK
<1>1. CASE Drive(t)
  <2> DEFINE bar == loc[t].bar
             left == IF CheckedAt(bar) THEN "EXTR_OK" ELSE StatusAt(bar)
  <2>1. pc' \in [Threads -> Labels]
    <3>1. UNCHANGED pc \/ Goto(t, "call") \/ Goto(t, "loop")
      BY <1>1 DEF Drive
    <3> QED
      BY <1>0, <3>1, GotoType DEF TypeOK
  <2>2. rows' \in Seq(Row)
    <3>1. left \in Statuses
      BY <1>a, <1>b, ReadType
    <3>2. rows' \in {rows, Put(rows, bar, "INSTALL", TRUE), Put(rows, bar, left, FALSE)}
      BY <1>1 DEF Drive
    <3> HIDE DEF left
    <3> QED
      BY <1>a, <1>b, <3>1, <3>2, PutType
  <2>3. loc' \in [Threads -> Locals]
    <3>1. UNCHANGED loc \/ SetLoc(t, Advance(loc[t]))
      BY <1>1 DEF Drive
    <3> QED
      BY <1>b, <3>1, AdvanceType, SetLocType DEF TypeOK
  <2>4. rp' \in BOOLEAN /\ fault' \in BOOLEAN /\ lock' \in Threads \cup {Free}
    BY <1>1 DEF Drive, PutRp, Stop, TypeOK
  <2>5. UNCHANGED <<gen, act, mode, instflag, autoinst, slot, reboot, guiVars, reqVars, boundVars,
                    picked, calls, finished, extracted, dl>>
    BY <1>1 DEF Drive
  <2> QED
    BY <2>1, <2>2, <2>3, <2>4, <2>5 DEF TypeOK
<1>2. CASE Installed(t)
  <2> DEFINE shown == IF ~loc[t].ok /\ ~(mode = "STOPPING") /\ loc[t].i \in DOMAIN rows
                      THEN Expand(rows, loc[t].i) ELSE rows
  <2>1. pc' \in [Threads -> Labels]
    <3>1. UNCHANGED pc \/ Goto(t, "loop")
      BY <1>2 DEF Installed
    <3> QED
      BY <1>0, <3>1, GotoType DEF TypeOK
  <2>2. rows' \in Seq(Row)
    <3>1. shown \in Seq(Row)
      BY <1>b, EditType
    <3>2. UNCHANGED rows \/ \E st \in Outcomes(loc[t].ok) :
            rows' \in {Marked(shown, act, st), Unselect(Marked(shown, act, st))}
      BY <1>2 DEF Installed
    <3>3. \A st \in Outcomes(loc[t].ok) : Marked(shown, act, st) \in Seq(Row)
      <4> HIDE DEF shown
      <4>1. \A st \in Outcomes(loc[t].ok) : st \in Statuses
        BY <1>a DEF Outcomes
      <4> QED
        BY <1>b, <3>1, <4>1, PutType DEF Marked
    <3> HIDE DEF shown
    <3> QED
      BY <1>b, <3>2, <3>3, EditType
  <2>3. loc' \in [Threads -> Locals]
    <3>1. UNCHANGED loc \/ SetLoc(t, Advance(Refetch(t)))
      BY <1>2 DEF Installed
    <3> QED
      BY <3>1, LocalsType, AdvanceType, SetLocType DEF TypeOK
  <2>4. slot' \in {slot, "STOPPING"}
    BY <1>2 DEF Installed
  <2>5. rp' \in BOOLEAN /\ fault' \in BOOLEAN /\ lock' \in Threads \cup {Free}
    BY <1>2 DEF Installed, Take, PutRp, Stop, TypeOK
  <2>6. UNCHANGED <<gen, act, mode, instflag, autoinst, reboot, guiVars, reqVars, boundVars,
                    picked, calls, finished, extracted, dl>>
    BY <1>2 DEF Installed
  <2> QED
    BY <2>1, <2>2, <2>3, <2>4, <2>5, <2>6 DEF TypeOK
<1>3. CASE Finish(t)
  <2>1. pc' \in [Threads -> Labels]
    BY <1>0, <1>3, GotoType DEF Finish
  <2>2. rows' \in Seq(Row)
    BY <1>3, <1>b, EditType DEF Finish
  <2>3. mode' \in Modes /\ slot' \in {"none", slot}
    BY <1>3 DEF Finish, AfterStop, Modes, TypeOK
  <2>4. autoinst' \in BOOLEAN /\ extracted' \in {extracted, {}}
    BY <1>3 DEF Finish, TypeOK
  <2>5. UNCHANGED <<gen, act, instflag, rp, reboot, loc, guiVars, reqVars, boundVars, histVars,
                    lock, dl>>
    BY <1>3 DEF Finish
  <2> QED
    BY <2>1, <2>2, <2>3, <2>4, <2>5 DEF TypeOK
<1>4. ASSUME Leave(t)
      PROVE  /\ act' \in Int /\ lock' \in Threads \cup {Free} /\ raised' \in BOOLEAN
             /\ discard' \in BOOLEAN /\ loc' \in [Threads -> Locals] /\ pc' \in [Threads -> Labels]
  <2>1. loc' \in [Threads -> Locals] /\ pc' \in [Threads -> Labels]
    BY <1>0, <1>4, GotoType, LocalsType, SetLocType DEF Leave
  <2>2. act' \in Int
    <3>1. EmptySlot \in Int
      BY DEF EmptySlot
    <3> QED
      BY <1>4, <3>1 DEF Leave
  <2> QED
    BY <1>4, <2>1, <2>2 DEF Leave, Invalidate, TypeOK
<1>5. CASE End(t)
  <2>1. UNCHANGED <<rows, gen, modeVars, guiVars, boundVars, histVars, extracted, dl>>
    BY <1>5 DEF End
  <2>2. CASE Leave(t)
    BY <1>4, <2>1, <2>2 DEF TypeOK
  <2>3. CASE Goto(t, "report") /\ UNCHANGED <<act, lock, loc, reqVars>>
    <3>1. pc' \in [Threads -> Labels]
      BY <1>0, <2>3, GotoType
    <3> QED
      BY <2>1, <2>3, <3>1 DEF TypeOK
  <2> QED
    BY <1>5, <2>2, <2>3 DEF End
<1>6. CASE Report(t)
  <2>1. mode' \in Modes /\ slot' \in {slot, "COMPLETED"} /\ Leave(t)
        /\ UNCHANGED <<rows, gen, instflag, autoinst, rp, reboot, guiVars, boundVars, histVars,
                       extracted, dl>>
    BY <1>6 DEF Report, AfterInstall, Modes
  <2> QED
    BY <1>4, <2>1 DEF TypeOK
<1> QED
  BY <1>1, <1>2, <1>3, <1>5, <1>6

\* What the user does
LEMMA GuiStepType ==
  ASSUME TypeOK, Gui
  PROVE  TypeOK'
<1> USE DEF listVars, modeVars, threadVars, guiVars, reqVars, boundVars, histVars
<1>0. rows \in Seq(Row) /\ "enter" \in Labels
  BY DEF TypeOK, Labels
<1>a. ASSUME NEW new \in Seq(Row), Edit(new)
      PROVE  /\ rows' \in Seq(Row) /\ picked' \in [Matches -> Nat]
             /\ UNCHANGED <<gen, act, modeVars, threadVars, guiVars, reqVars, passes, calls,
                            finished, fault, lock, extracted, dl>>
  BY <1>a DEF Edit, CountPicked, TypeOK
<1>b. ASSUME NEW click, User(click)
      PROVE  clicks' \in Nat
  BY <1>b DEF User, TypeOK
<1>c. ASSUME NEW flag \in {"INSTALLDRIVERS", "OPENFOLDER"}, Spawn(flag)
      PROVE  pc' \in [Threads -> Labels] /\ instflag' \in {"INSTALLDRIVERS", "OPENFOLDER"}
  BY <1>0, <1>c, GotoType DEF Spawn
<1>1. CASE ClickInstall
  <2>1. /\ clicks' \in Nat /\ pc' \in [Threads -> Labels]
        /\ instflag' \in {"INSTALLDRIVERS", "OPENFOLDER"}
    BY <1>1, <1>b, <1>c DEF ClickInstall
  <2> QED
    BY <1>1, <2>1 DEF ClickInstall, TypeOK
<1>2. CASE ClickExtract
  <2>1. /\ clicks' \in Nat /\ pc' \in [Threads -> Labels]
        /\ instflag' \in {"INSTALLDRIVERS", "OPENFOLDER"}
    BY <1>2, <1>b, <1>c DEF ClickExtract
  <2> QED
    BY <1>2, <2>1 DEF ClickExtract, TypeOK
<1>3. CASE ClickToggle \/ ClickSelectAll \/ ClickSelectNone \/ ClickExpand
  <2>1. clicks' \in Nat
    BY <1>3, <1>b DEF ClickToggle, ClickSelectAll, ClickSelectNone, ClickExpand
  <2>2. \E new \in Seq(Row) : Edit(new)
    <3>1. ASSUME NEW k \in DOMAIN rows
          PROVE  /\ Toggled(rows, k) \in Seq(Row)
                 /\ Collapse(rows, k) \in Seq(Row) /\ Expand(rows, k) \in Seq(Row)
      <4>1. k \in Int
        BY <1>0, <3>1
      <4> QED
        BY <1>0, <3>1, <4>1, ToggleType, EditType
    <3>2. SelectAll(rows) \in Seq(Row) /\ Unselect(rows) \in Seq(Row)
      <4>1. 0 \in Int
        OBVIOUS
      <4> QED
        BY <1>0, <4>1, EditType
    <3> QED
      BY <1>3, <3>1, <3>2 DEF ClickToggle, ClickSelectAll, ClickSelectNone, ClickExpand
  <2> QED
    BY <1>a, <2>1, <2>2 DEF TypeOK
<1>4. CASE ClickProgress
  <2>1. clicks' \in Nat
    BY <1>4, <1>b DEF ClickProgress
  <2>2. rows' \in Seq(Row)
    <3>1. 0 \in Int
      OBVIOUS
    <3> QED
      BY <1>0, <1>4, <3>1, EditType DEF ClickProgress
  <2>3. mode' \in Modes /\ slot' \in {slot, "none"} /\ raised' \in BOOLEAN /\ discard' \in BOOLEAN
    BY <1>4 DEF ClickProgress, Invalidate, Modes, TypeOK
  <2>4. UNCHANGED <<gen, act, instflag, autoinst, rp, reboot, threadVars, guiVars, passes,
                    histVars, lock, extracted, dl>>
    BY <1>4 DEF ClickProgress
  <2> QED
    BY <2>1, <2>2, <2>3, <2>4 DEF TypeOK
<1>5. CASE ClickOption
  <2>1. clicks' \in Nat
    BY <1>5, <1>b DEF ClickOption
  <2>2. rp' \in BOOLEAN /\ reboot' \in BOOLEAN /\ autoinst' \in BOOLEAN
    BY <1>5 DEF ClickOption, TypeOK
  <2>3. UNCHANGED <<listVars, mode, instflag, slot, threadVars, guiVars, reqVars, passes,
                    histVars, lock, extracted, dl>>
    BY <1>5 DEF ClickOption
  <2> QED
    BY <2>1, <2>2, <2>3 DEF TypeOK
<1>6. CASE ClickRescan
  <2>1. clicks' \in Nat
    BY <1>6, <1>b DEF ClickRescan
  <2>2. raised' \in BOOLEAN /\ discard' \in BOOLEAN
    BY <1>6 DEF ClickRescan, Invalidate, TypeOK
  <2>3. UNCHANGED <<listVars, modeVars, threadVars, guiVars, passes, histVars, lock, extracted, dl>>
    BY <1>6 DEF ClickRescan
  <2> QED
    BY <2>1, <2>2, <2>3 DEF TypeOK
<1>7. CASE ClickClose
  <2>1. clicks' \in Nat
    BY <1>7, <1>b DEF ClickClose
  <2>2. gui' \in {gui, "closed"} /\ asking' \in BOOLEAN
    BY <1>7 DEF ClickClose, TypeOK
  <2>3. UNCHANGED <<listVars, modeVars, threadVars, reqVars, passes, histVars, lock, extracted, dl>>
    BY <1>7 DEF ClickClose
  <2> QED
    BY <2>1, <2>2, <2>3 DEF TypeOK
<1>8. CASE Answer
  <2>1. mode' \in Modes /\ dl' \in {"idle", "running", "pausing", "done"} /\ asking' \in BOOLEAN
    BY <1>8 DEF Answer, TypeOK, Modes
  <2>2. UNCHANGED <<listVars, instflag, autoinst, slot, rp, reboot, threadVars, gui, reqVars,
                    boundVars, histVars, lock, extracted>>
    BY <1>8 DEF Answer
  <2> QED
    BY <2>1, <2>2 DEF TypeOK
<1> QED
  BY <1>1, <1>2, <1>3, <1>4, <1>5, <1>6, <1>7, <1>8 DEF Gui

\* Scans, requests and the download
LEMMA UpdateStepType ==
  ASSUME TypeOK, Update \/ ExternalChange \/ DownloadEnds
  PROVE  TypeOK'
<1> USE DEF listVars, modeVars, threadVars, guiVars, reqVars, boundVars, histVars
<1>0. rows \in Seq(Row) /\ act \in Int /\ 0 \in Int /\ "enter" \in Labels
  BY DEF TypeOK, Labels
<1>1. CASE BundleArrives
  <2>1. raised' \in BOOLEAN /\ gui' \in {"idle", "swap", "after", "closed"}
    BY <1>1 DEF BundleArrives
  <2>2. UNCHANGED <<listVars, modeVars, threadVars, asking, discard, boundVars, histVars,
                    lock, extracted, dl>>
    BY <1>1 DEF BundleArrives
  <2> QED
    BY <2>1, <2>2 DEF TypeOK
<1>2. CASE BundleSwap
  <2>1. PICK new \in Lists :
          LET fresh == Filter(Populate(new))
          IN  /\ rows' = IF discard THEN fresh ELSE Restore(fresh, rows)
              /\ \E a \in {OutOfList, act} \cup DOMAIN new :
                   IF a = OutOfList THEN Stop /\ UNCHANGED act ELSE act' = a /\ UNCHANGED fault
    BY <1>2 DEF BundleSwap
  <2>2. rows' \in Seq(Row)
    <3> DEFINE fresh == Filter(Populate(new))
    <3>1. fresh \in Seq(Row)
      BY PopulateType, FilterType
    <3>2. rows' \in {fresh, Restore(fresh, rows)}
      BY <2>1
    <3> HIDE DEF fresh
    <3> QED
      BY <1>0, <3>1, <3>2, RestoreType
  <2>3. act' \in Int /\ fault' \in BOOLEAN
    <3>1. PICK a \in {OutOfList, act} \cup DOMAIN new :
            IF a = OutOfList THEN Stop /\ UNCHANGED act ELSE act' = a /\ UNCHANGED fault
      BY <2>1
    <3>2. \A k \in DOMAIN new : k \in Int
      BY MatchAssumption
    <3>3. a # OutOfList => a \in Int
      BY <1>0, <3>2
    <3> QED
      BY <1>0, <3>1, <3>3 DEF Stop, TypeOK
  <2>4. gen' \in Nat /\ discard' = FALSE /\ gui' = "after"
    BY <1>2 DEF BundleSwap, TypeOK
  <2>5. UNCHANGED <<modeVars, threadVars, asking, raised, boundVars, picked, calls, finished,
                    lock, extracted, dl>>
    BY <1>2 DEF BundleSwap
  <2> QED
    BY <2>2, <2>3, <2>4, <2>5, ZenonT(60) DEF TypeOK
<1>3. CASE AfterSwap
  <2>a. SelectAll(rows) \in Seq(Row)
    BY <1>0, EditType
  <2>b. UNCHANGED <<gen, act, slot, rp, reboot, loc, asking, reqVars, boundVars, calls, fault,
                    lock, extracted, dl>>
    BY <1>3 DEF AfterSwap
  <2>1. CASE Resume
    <3>1. pc' \in [Threads -> Labels] /\ instflag' = "INSTALLDRIVERS"
      BY <1>0, <2>1, GotoType DEF Resume, Spawn
    <3>2. rows' \in Seq(Row)
      BY <1>0, <2>a, <2>1 DEF Resume
    <3>3. picked' \in [Matches -> Nat]
      BY <2>1 DEF Resume, CountPicked, TypeOK
    <3>4. gui' = "idle" /\ UNCHANGED <<mode, autoinst, finished>>
      BY <2>1 DEF Resume
    <3> QED
      BY <2>b, <3>1, <3>2, <3>3, <3>4 DEF TypeOK
  <2>2. CASE Complete
    <3>1. rows' \in Seq(Row)
      BY <1>0, <2>a, <2>2 DEF Complete
    <3>2. /\ autoinst' \in {autoinst, FALSE} /\ mode' = "NONE" /\ finished' = finished + 1
          /\ gui' \in {"closed", "idle"}
          /\ UNCHANGED <<instflag, pc, picked>>
      BY <2>2 DEF Complete
    <3>3. /\ mode' \in Modes /\ finished' \in Nat /\ gui' \in {"idle", "swap", "after", "closed"}
      <4>1. finished \in Nat
        BY DEF TypeOK
      <4> QED
        BY <3>2, <4>1 DEF Modes
    <3>4. autoinst' \in BOOLEAN
      <4>1. autoinst \in BOOLEAN
        BY DEF TypeOK
      <4> QED
        BY <3>2, <4>1
    <3> QED
      BY <2>b, <3>1, <3>2, <3>3, <3>4 DEF TypeOK
  <2>3. CASE /\ ~autoinst
             /\ mode' = ModeAfterSwap
             /\ gui' = "idle"
             /\ UNCHANGED <<rows, autoinst, instflag, pc, picked, finished>>
    BY <2>b, <2>3 DEF TypeOK, ModeAfterSwap, Modes
  <2> QED
    BY <1>3, <2>1, <2>2, <2>3 DEF AfterSwap
<1>4. CASE ExternalChange
  BY <1>4 DEF ExternalChange, Invalidate, TypeOK
<1>5. CASE DownloadEnds
  BY <1>5 DEF DownloadEnds, TypeOK
<1> QED
  BY <1>1, <1>2, <1>3, <1>4, <1>5 DEF Update

LEMMA NextType ==
  ASSUME TypeOK, [Next]_vars
  PROVE  TypeOK'
<1>1. CASE Next
  <2>1. ASSUME NEW t \in Threads, Thread(t)
        PROVE  TypeOK'
    BY <2>1, QuietStepType, ListStepType, ResultStepType DEF Thread
  <2> QED
    BY <1>1, <2>1, GuiStepType, UpdateStepType DEF Next
<1>2. CASE UNCHANGED vars
  BY <1>2 DEF vars, TypeOK, listVars, modeVars, threadVars, guiVars, reqVars, boundVars, histVars
<1> QED
  BY <1>1, <1>2

\* Every variable has its type in every reachable state, however many threads, rows,
\* drivers and scans there are: a list built by populate, filter and restorepos, edited by
\* the user and by the thread, is always a list of rows (manager.cpp, install.cpp)
THEOREM TypeCorrect == Spec => []TypeOK
<1>1. Init => TypeOK
  BY InitType
<1>2. TypeOK /\ [Next]_vars => TypeOK'
  BY NextType
<1> QED
  BY <1>1, <1>2, PTL DEF Spec

----------------------------------------------------------------------------
(* The critical section *)

\* How a step of a thread moves it with respect to the critical section: it stays on its
\* side, enters a free section, leaves its own, or ends the program
LEMMA ThreadLock ==
  ASSUME TypeOK, NEW t \in Threads, Thread(t)
  PROVE  /\ \A u \in Threads \ {t} : pc'[u] = pc[u]
         /\ \/ fault'
            \/ lock' = lock /\ (pc[t] \in Inside <=> pc'[t] \in Inside)
            \/ lock = Free /\ lock' = t /\ pc'[t] \in Inside
            \/ pc[t] \in Inside /\ lock' = Free /\ pc'[t] \notin Inside
<1> USE DEF Goto, Take, Stop, Inside
<1>0. pc \in [Threads -> Labels]
  BY DEF TypeOK
<1>1. CASE Enter(t)
  BY <1>0, <1>1 DEF Enter
<1>2. CASE SelectDownloads(t)
  <2>1. Goto(t, "download") \/ Goto(t, "downloaded")
    BY <1>2 DEF SelectDownloads
  <2>2. pc[t] = "select" /\ lock' = lock
    BY <1>2 DEF SelectDownloads
  <2> QED
    BY <1>0, <2>1, <2>2
<1>3. CASE AwaitDownload(t)
  BY <1>0, <1>3 DEF AwaitDownload
<1>4. CASE Downloaded(t)
  BY <1>0, <1>4 DEF Downloaded
<1>5. CASE RestorePoint(t)
  BY <1>0, <1>5 DEF RestorePoint
<1>6. CASE RestorePointDone(t)
  BY <1>0, <1>6 DEF RestorePointDone
<1>7. CASE NextItem(t)
  <2>1. Goto(t, "stage") \/ Goto(t, "rescan")
    BY <1>7, ZenonT(60) DEF NextItem
  <2>2. pc[t] = "loop" /\ lock' = lock
    BY <1>7 DEF NextItem
  <2> QED
    BY <1>0, <2>1, <2>2
<1>8. CASE Stage(t)
  <2>1. UNCHANGED pc \/ \E label \in {"drive", "try", "extracted"} : Goto(t, label)
    <3>1. \A found \in BOOLEAN :
            (IF found THEN "try" ELSE "extracted") \in {"drive", "try", "extracted"}
      BY SMTT(30)
    <3> QED
      BY <1>8, <3>1 DEF Stage
  <2>2. pc[t] = "stage" /\ lock' = lock
    BY <1>8 DEF Stage
  <2> QED
    BY <1>0, <2>1, <2>2, SMTT(30)
<1>9. CASE TryExtract(t)
  BY <1>0, <1>9 DEF TryExtract
<1>10. CASE Extracted(t)
  <2>1. (fault' /\ pc' = pc) \/ \E label \in {"try", "extracted"} : Goto(t, label)
    <3>1. \A again \in BOOLEAN : (IF again THEN "try" ELSE "extracted") \in {"try", "extracted"}
      OBVIOUS
    <3> QED
      BY <1>10, <3>1 DEF Extracted
  <2>2. lock = Free /\ lock' = t
    BY <1>10 DEF Extracted
  <2> QED
    BY <1>0, <2>1, <2>2
<1>11. CASE AfterExtract(t)
  BY <1>0, <1>11 DEF AfterExtract
<1>12. CASE Drive(t)
  <2>1. \/ UNCHANGED <<pc, lock>>
        \/ lock' = Free /\ Goto(t, "call")
        \/ UNCHANGED lock /\ Goto(t, "loop")
    BY <1>12 DEF Drive
  <2>2. pc[t] = "drive"
    BY <1>12 DEF Drive
  <2> QED
    BY <1>0, <2>1, <2>2
<1>13. CASE CallInstall(t)
  BY <1>0, <1>13 DEF CallInstall
<1>14. CASE Installed(t)
  <2>1. (fault' /\ pc' = pc) \/ Goto(t, "loop")
    BY <1>14 DEF Installed
  <2>2. lock = Free /\ lock' = t
    BY <1>14 DEF Installed
  <2> QED
    BY <1>0, <2>1, <2>2
<1>15. CASE Rescan(t)
  BY <1>0, <1>15 DEF Rescan
<1>16. CASE Finish(t)
  BY <1>0, <1>16 DEF Finish
<1>17. CASE End(t) \/ Report(t)
  BY <1>0, <1>17 DEF End, Report, Leave
<1> QED
  BY <1>1, <1>2, <1>3, <1>4, <1>5, <1>6, <1>7, <1>8, <1>9, <1>10, <1>11, <1>12, <1>13,
     <1>14, <1>15, <1>16, <1>17 DEF Thread

\* Nobody else touches the lock or a thread, but to start one
LEMMA OtherLock ==
  ASSUME TypeOK, Gui \/ Update \/ ExternalChange \/ DownloadEnds
  PROVE  /\ lock' = lock /\ loc' = loc
         /\ \A t \in Threads : pc'[t] = pc[t] \/ (pc[t] = "idle" /\ pc'[t] = "enter")
<1>0. ASSUME NEW u \in Threads, pc[u] = "idle", Goto(u, "enter")
      PROVE  \A t \in Threads : pc'[t] = pc[t] \/ (pc[t] = "idle" /\ pc'[t] = "enter")
  <2>1. pc \in [Threads -> Labels]
    BY DEF TypeOK
  <2> QED
    BY <1>0, <2>1 DEF Goto
<1>1. CASE Gui
  <2>1. lock' = lock /\ loc' = loc
    BY <1>1 DEF Gui, ClickInstall, ClickExtract, ClickToggle, ClickSelectAll, ClickSelectNone,
         ClickExpand, ClickProgress, ClickOption, ClickRescan, ClickClose, Answer, Edit, threadVars
  <2>2. pc' = pc \/ \E t \in Threads : (pc[t] = "idle" /\ Goto(t, "enter"))
    BY <1>1 DEF Gui, ClickInstall, ClickExtract, ClickToggle, ClickSelectAll, ClickSelectNone,
         ClickExpand, ClickProgress, ClickOption, ClickRescan, ClickClose, Answer, Edit, threadVars,
         Spawn
  <2> QED
    BY <1>0, <2>1, <2>2
<1>2. CASE Update
  <2>1. lock' = lock /\ loc' = loc
    BY <1>2 DEF Update, BundleArrives, BundleSwap, AfterSwap, threadVars
  <2>2. pc' = pc \/ \E t \in Threads : (pc[t] = "idle" /\ Goto(t, "enter"))
    BY <1>2 DEF Update, BundleArrives, BundleSwap, AfterSwap, threadVars, Resume, Complete, Spawn
  <2> QED
    BY <1>0, <2>1, <2>2
<1>3. CASE ExternalChange \/ DownloadEnds
  <2>1. lock' = lock /\ loc' = loc /\ pc' = pc
    BY <1>3 DEF ExternalChange, DownloadEnds, threadVars
  <2> QED
    BY <2>1
<1> QED
  BY <1>1, <1>2, <1>3

LEMMA NextLock ==
  ASSUME TypeOK, LockOwner, [Next]_vars
  PROVE  LockOwner'
<1> SUFFICES ASSUME ~fault', NEW u \in Threads
             PROVE  pc'[u] \in Inside <=> lock' = u
  BY DEF LockOwner
<1>0. Free \notin Threads
  BY ThreadAssumption DEF Free
<1>1. CASE Next
  <2>0. \A t \in Threads : pc[t] \in Inside <=> lock = t
    BY <1>1 DEF LockOwner, Next, Alive
  <2>1. ASSUME NEW t \in Threads, Thread(t)
        PROVE  pc'[u] \in Inside <=> lock' = u
    <3>1. CASE u = t
      BY <1>0, <2>0, <2>1, <3>1, ThreadLock
    <3>2. CASE u # t
      <4>1. pc'[u] = pc[u]
        BY <2>1, <3>2, ThreadLock
      <4> QED
        BY <1>0, <2>0, <2>1, <3>2, <4>1, ThreadLock
    <3> QED
      BY <3>1, <3>2
  <2>2. CASE Gui \/ Update \/ ExternalChange \/ DownloadEnds
    BY <2>0, <2>2, OtherLock DEF Inside
  <2> QED
    BY <1>1, <2>1, <2>2 DEF Next
<1>2. CASE UNCHANGED vars
  BY <1>2 DEF vars, threadVars, histVars, LockOwner
<1> QED
  BY <1>1, <1>2

\* The critical section is exclusive for any number of installation threads: a thread is
\* inside it exactly when it owns the lock, so no two of them, nor a thread and the
\* replacement of the list, work on items_list at once (install.cpp, thread_install)
THEOREM Exclusive == Spec => []LockOwner
<1>1. Init => LockOwner
  BY ThreadAssumption DEF Init, LockOwner, Inside, Free
<1>2. TypeOK /\ LockOwner /\ [Next]_vars => LockOwner'
  BY NextLock
<1> QED
  BY <1>1, <1>2, TypeCorrect, PTL DEF Spec

----------------------------------------------------------------------------
(* The pointer into the list *)

Through == {"loop", "stage", "try", "extracted", "drive"}

\* A step of a thread that ends where itembar is used has it point into the current list
LEMMA ThreadFresh ==
  ASSUME TypeOK, ItembarFresh, NEW t \in Threads, Thread(t)
  PROVE  /\ gen' = gen
         /\ \A u \in Threads \ {t} : pc'[u] = pc[u] /\ loc'[u] = loc[u]
         /\ pc'[t] \in Through => loc'[t].barGen = gen
<1> USE DEF Goto, SetLoc, Through
<1>0. /\ pc \in [Threads -> Labels] /\ loc \in [Threads -> Locals]
      /\ loc[t] \in Locals
      /\ pc[t] \in Through => loc[t].barGen = gen
  BY DEF TypeOK, ItembarFresh
<1>a. ASSUME NEW label, Goto(t, label)
      PROVE  pc'[t] = label /\ \A u \in Threads \ {t} : pc'[u] = pc[u]
  BY <1>0, <1>a
<1>b. ASSUME NEW r, SetLoc(t, r)
      PROVE  loc'[t] = r /\ \A u \in Threads \ {t} : loc'[u] = loc[u]
  BY <1>0, <1>b
<1> HIDE DEF Goto, SetLoc
<1>c. Start(t) => /\ loc'[t].barGen = gen
                  /\ \A u \in Threads \ {t} : loc'[u] = loc[u]
  <2>1. [loc[t] EXCEPT !.i = 1, !.bar = 1, !.barGen = gen].barGen = gen
    BY <1>0 DEF Locals
  <2> QED
    BY <1>b, <2>1 DEF Start
<1>1. CASE Enter(t) \/ SelectDownloads(t) \/ AwaitDownload(t) \/ Downloaded(t)
  <2>1. UNCHANGED loc \/ \E r : SetLoc(t, r)
    BY <1>1 DEF Enter, SelectDownloads, AwaitDownload, Downloaded
  <2>2. \E label \in {"select", "download", "downloaded", "restore"} : Goto(t, label)
    BY <1>1 DEF Enter, SelectDownloads, AwaitDownload, Downloaded
  <2>3. gen' = gen
    BY <1>1 DEF Enter, SelectDownloads, AwaitDownload, Downloaded, listVars
  <2> QED
    BY <1>a, <1>b, <2>1, <2>2, <2>3
<1>2. CASE RestorePoint(t)
  <2>1. Start(t) \/ (loc' = loc /\ Goto(t, "creating"))
    BY <1>2 DEF RestorePoint
  <2>2. gen' = gen /\ \E label : Goto(t, label)
    BY <1>2 DEF RestorePoint
  <2> QED
    BY <1>a, <1>c, <2>1, <2>2
<1>3. CASE RestorePointDone(t)
  BY <1>3, <1>a, <1>c DEF RestorePointDone, listVars
<1>4. CASE NextItem(t)
  <2>1. gen' = gen
    BY <1>4 DEF NextItem
  <2>2. CASE UNCHANGED loc /\ Goto(t, "rescan")
    BY <1>a, <2>1, <2>2
  <2>3. CASE \E i, bar, m : SetLoc(t, [loc[t] EXCEPT !.i = i, !.bar = bar, !.barGen = gen,
                                                      !.hw = m, !.hwGen = gen])
    <3>1. PICK i, bar, m : SetLoc(t, [loc[t] EXCEPT !.i = i, !.bar = bar, !.barGen = gen,
                                                     !.hw = m, !.hwGen = gen])
      BY <2>3
    <3>2. [loc[t] EXCEPT !.i = i, !.bar = bar, !.barGen = gen,
                         !.hw = m, !.hwGen = gen].barGen = gen
      BY <1>0, SMTT(30) DEF Locals
    <3>3. \E label : Goto(t, label)
      BY <1>4 DEF NextItem
    <3>4. \E r : SetLoc(t, r) /\ r.barGen = gen
      BY <3>1, <3>2
    <3> QED
      BY <1>a, <1>b, <2>1, <3>3, <3>4
  <2>4. (loc' = loc /\ Goto(t, "rescan"))
          \/ \E i, bar, m : SetLoc(t, [loc[t] EXCEPT !.i = i, !.bar = bar, !.barGen = gen,
                                                       !.hw = m, !.hwGen = gen])
    BY <1>4, ZenonT(60) DEF NextItem
  <2> QED
    BY <2>2, <2>3, <2>4, ZenonT(60)
<1>5. CASE Stage(t)
  <2>1. gen' = gen /\ pc[t] = "stage"
    BY <1>5, ZenonT(60) DEF Stage
  <2>2. UNCHANGED pc \/ \E label : Goto(t, label)
    BY <1>5, ZenonT(60) DEF Stage
  <2>3. UNCHANGED loc \/ \E b, S : SetLoc(t, [loc[t] EXCEPT !.ok = b, !.want = S])
    BY <1>5 DEF Stage
  <2>4. \A b, S : [loc[t] EXCEPT !.ok = b, !.want = S].barGen = loc[t].barGen
    BY <1>0 DEF Locals
  <2>5. \A u \in Threads \ {t} : pc'[u] = pc[u]
    BY <1>a, <2>2
  <2>6. /\ loc'[t].barGen = loc[t].barGen
        /\ \A u \in Threads \ {t} : loc'[u] = loc[u]
    <3>1. loc' = loc \/ \E r : SetLoc(t, r) /\ r.barGen = loc[t].barGen
      BY <2>3, <2>4
    <3> QED
      BY <1>b, <3>1
  <2> QED
    BY <1>0, <2>1, <2>5, <2>6
<1>6. CASE TryExtract(t)
  <2>1. UNCHANGED <<gen, loc>> /\ pc[t] = "try"
    BY <1>6 DEF TryExtract, listVars
  <2>2. \E label : Goto(t, label)
    BY <1>6 DEF TryExtract
  <2>3. \A u \in Threads \ {t} : pc'[u] = pc[u]
    BY <1>a, <2>2
  <2> QED
    BY <1>0, <2>1, <2>3
<1>7. CASE Extracted(t)
  <2>1. gen' = gen /\ pc[t] = "extracting"
    BY <1>7 DEF Extracted, listVars
  <2>2. UNCHANGED <<loc, pc>> \/ (SetLoc(t, Refetch(t)) /\ \E label : Goto(t, label))
    BY <1>7 DEF Extracted
  <2>3. Refetch(t).barGen = gen
    BY <1>0 DEF Refetch, Locals
  <2> QED
    BY <1>a, <1>b, <2>1, <2>2, <2>3
<1>8. CASE AfterExtract(t)
  <2>1. gen' = gen /\ pc[t] = "extracted"
    BY <1>8 DEF AfterExtract
  <2>2. Goto(t, "drive") /\ \E m : SetLoc(t, [loc[t] EXCEPT !.hw = m, !.hwGen = gen])
    BY <1>8 DEF AfterExtract
  <2>3. \A m : [loc[t] EXCEPT !.hw = m, !.hwGen = gen].barGen = loc[t].barGen
    BY <1>0 DEF Locals
  <2> QED
    BY <1>0, <1>a, <1>b, <2>1, <2>2, <2>3, ZenonT(60)
<1>9. CASE Drive(t)
  <2>1. gen' = gen /\ pc[t] = "drive"
    BY <1>9 DEF Drive
  <2>2. \/ UNCHANGED <<loc, pc>>
        \/ loc' = loc /\ Goto(t, "call")
        \/ SetLoc(t, Advance(loc[t])) /\ Goto(t, "loop")
    BY <1>9 DEF Drive
  <2>3. Advance(loc[t]).barGen = loc[t].barGen
    BY <1>0 DEF Advance, Locals
  <2> QED
    BY <1>0, <1>a, <1>b, <2>1, <2>2, <2>3
<1>10. CASE CallInstall(t)
  <2>1. gen' = gen /\ Goto(t, "called") /\ \E r : SetLoc(t, r)
    BY <1>10 DEF CallInstall, listVars
  <2> QED
    BY <1>a, <1>b, <2>1
<1>11. CASE Installed(t)
  <2>1. gen' = gen /\ pc[t] = "called"
    BY <1>11 DEF Installed
  <2>2. UNCHANGED <<loc, pc>> \/ (SetLoc(t, Advance(Refetch(t))) /\ Goto(t, "loop"))
    BY <1>11 DEF Installed
  <2>3. Advance(Refetch(t)).barGen = gen
    <3>1. Refetch(t).barGen = gen /\ Refetch(t) \in Locals
      BY <1>0, LocalsType DEF Refetch, Locals
    <3> QED
      BY <3>1 DEF Advance, Locals
  <2> QED
    BY <1>a, <1>b, <2>1, <2>2, <2>3
<1>12. CASE Rescan(t)
  <2>1. gen' = gen /\ (Start(t) \/ (loc' = loc /\ Goto(t, "finish")))
    BY <1>12 DEF Rescan, listVars
  <2>2. \E label : Goto(t, label)
    BY <1>12 DEF Rescan
  <2> QED
    BY <1>a, <1>c, <2>1, <2>2
<1>13. CASE Finish(t) \/ End(t) \/ Report(t)
  <2>1. gen' = gen /\ \E label \in {"end", "report", "idle"} : Goto(t, label)
    BY <1>13 DEF Finish, End, Report, Leave
  <2>2. UNCHANGED loc \/ \E r : SetLoc(t, r)
    BY <1>13 DEF Finish, End, Report, Leave
  <2> QED
    BY <1>a, <1>b, <2>1, <2>2
<1> QED
  BY <1>1, <1>2, <1>3, <1>4, <1>5, <1>6, <1>7, <1>8, <1>9, <1>10, <1>11, <1>12, <1>13 DEF Thread

\* The list is replaced only while no thread is where it uses itembar
LEMMA NextFresh ==
  ASSUME TypeOK, LockOwner, ItembarFresh, [Next]_vars
  PROVE  ItembarFresh'
<1> SUFFICES ASSUME NEW u \in Threads, pc'[u] \in Through
             PROVE  loc'[u].barGen = gen'
  BY DEF ItembarFresh, Through
<1>1. CASE Next
  <2>1. ASSUME NEW t \in Threads, Thread(t)
        PROVE  loc'[u].barGen = gen'
    <3>1. CASE u = t
      BY <2>1, <3>1, ThreadFresh
    <3>2. CASE u # t
      BY <2>1, <3>2, ThreadFresh DEF ItembarFresh, Through
    <3> QED
      BY <3>1, <3>2
  <2>2. CASE Gui \/ Update \/ ExternalChange \/ DownloadEnds
    <3>1. loc' = loc /\ pc'[u] = pc[u]
      BY <2>2, OtherLock DEF Through
    <3>2. gen' = gen \/ BundleSwap
      <4>1. Gui => gen' = gen
        BY DEF Gui, ClickInstall, ClickExtract, ClickToggle, ClickSelectAll, ClickSelectNone,
               ClickExpand, ClickProgress, ClickOption, ClickRescan, ClickClose, Answer, Edit,
               listVars
      <4>2. Update => gen' = gen \/ BundleSwap
        BY DEF Update, BundleArrives, AfterSwap, listVars
      <4>3. ExternalChange \/ DownloadEnds => gen' = gen
        BY DEF ExternalChange, DownloadEnds, listVars
      <4> QED
        BY <2>2, <4>1, <4>2, <4>3
    <3>3. ~BundleSwap
      <4>1. lock = u
        BY <1>1, <3>1 DEF LockOwner, Next, Alive, Through, Inside
      <4> QED
        BY <4>1, ThreadAssumption DEF BundleSwap, Free
    <3> QED
      BY <3>1, <3>2, <3>3 DEF ItembarFresh, Through
  <2> QED
    BY <1>1, <2>1, <2>2 DEF Next
<1>2. CASE UNCHANGED vars
  BY <1>2 DEF vars, threadVars, listVars, ItembarFresh, Through
<1> QED
  BY <1>1, <1>2

\* Whenever the installation thread goes through itembar, itembar points into the list
\* manager_g has now, however often the list is replaced: the pointer is read again after
\* every call that gives up the lock (install.cpp 437, 502)
THEOREM Fresh == Spec => []ItembarFresh
<1>1. Init => ItembarFresh
  BY DEF Init, ItembarFresh
<1>2. TypeOK /\ LockOwner /\ ItembarFresh /\ [Next]_vars => ItembarFresh'
  BY NextFresh
<1> QED
  BY <1>1, <1>2, TypeCorrect, Exclusive, PTL DEF Spec

----------------------------------------------------------------------------
(* One pass of the automatic installation after the other *)

\* Nothing but the end of an installation asks for a scan, and an installation that was stopped
\* by hand is not made automatic by hand
Undisturbed ==
  /\ MaxPasses = 0
  /\ Clicks \cap {"install", "extract", "scan", "reload"} = {}
  /\ ~({"progress", "reboot"} \subseteq Clicks)

AllIdle == \A t \in Threads : pc[t] = "idle"

\* An automatic installation that the user stopped is over; its thread may still be there when
\* the progress panel is cleared, which asks for a scan
Over == "progress" \in Clicks /\ ~autoinst

\* A scan is requested or being delivered only while nothing is installed, one at a time
Turns ==
  /\ \/ Over
     \/ /\ raised \/ gui \in {"swap", "after"} => AllIdle
        /\ raised => gui \notin {"swap", "after"}
  /\ \A t, u \in Threads : pc[t] # "idle" /\ pc[u] # "idle" => t = u

\* From the lock to its end the thread has the mode of an installation; without a thread
\* there is none
ModeFits ==
  /\ \A t \in Threads : pc[t] \notin {"idle", "enter", "end"} => mode \in {"INSTALLING", "STOPPING"}
  /\ \A t \in Threads : pc[t] = "end" => mode # "SCANNING"
  /\ AllIdle => mode # "INSTALLING"

\* The panel shows no result when a scan is about to start an automatic installation, and
\* when one was started
SlotFits ==
  "progress" \in Clicks =>
    /\ ~reboot
    /\ mode = "NONE" /\ autoinst /\ (raised \/ gui \in {"swap", "after"}) => slot = "none"
    /\ mode = "NONE" /\ ~AllIdle /\ autoinst => slot = "none"

InTurn == Turns /\ ModeFits /\ SlotFits

\* What the user can do: nothing that starts a thread or asks for a scan
LEMMA GuiInTurn ==
  ASSUME Undisturbed, TypeOK, InTurn, Gui
  PROVE  InTurn'
<1> USE DEF modeVars, threadVars, reqVars, guiVars
<1>1. ~ClickInstall /\ ~ClickExtract /\ ~ClickRescan
  BY DEF Undisturbed, ClickInstall, ClickExtract, ClickRescan, User
<1>2. CASE ClickToggle \/ ClickSelectAll \/ ClickSelectNone \/ ClickExpand
  <2>1. UNCHANGED <<modeVars, pc, gui, raised>>
    BY <1>2 DEF ClickToggle, ClickSelectAll, ClickSelectNone, ClickExpand, Edit, User
  <2> QED
    BY <2>1 DEF InTurn, Turns, Over, ModeFits, SlotFits, AllIdle
<1>3. CASE ClickProgress
  <2>1. /\ "progress" \in Clicks /\ gui = "idle" /\ slot # "none"
        /\ UNCHANGED <<pc, gui, autoinst, reboot>>
    BY <1>3 DEF ClickProgress, User
  <2>2. CASE mode = "INSTALLING"
    <3>1. mode' = "STOPPING" /\ UNCHANGED <<slot, raised>>
      BY <1>3, <2>2 DEF ClickProgress
    <3> QED
      BY <2>1, <2>2, <3>1 DEF InTurn, Turns, Over, ModeFits, SlotFits, AllIdle
  <2>3. CASE mode # "INSTALLING"
    <3>1. mode = "NONE" /\ mode' = mode /\ slot' = "none" /\ raised'
      BY <1>3, <2>3 DEF ClickProgress, Invalidate
    <3>2. AllIdle \/ Over
      BY <2>1, <3>1 DEF InTurn, SlotFits, Over
    <3> QED
      BY <2>1, <3>1, <3>2 DEF InTurn, Turns, Over, ModeFits, SlotFits, AllIdle
  <2> QED
    BY <2>2, <2>3
<1>4. CASE ClickOption
  <2>1. /\ UNCHANGED <<mode, slot, pc, gui, raised>>
        /\ "progress" \in Clicks => autoinst' = autoinst /\ reboot' = reboot
    BY <1>4 DEF ClickOption, User, Undisturbed
  <2> QED
    BY <2>1 DEF InTurn, Turns, Over, ModeFits, SlotFits, AllIdle
<1>5. CASE ClickClose
  <2>1. /\ gui = "idle" /\ gui' \in {"idle", "closed"}
        /\ UNCHANGED <<modeVars, pc, raised>>
    BY <1>5 DEF ClickClose, User
  <2> QED
    BY <2>1 DEF InTurn, Turns, Over, ModeFits, SlotFits, AllIdle
<1>6. CASE Answer
  <2>1. mode' \in {mode, "STOPPING"} /\ UNCHANGED <<autoinst, slot, reboot, pc, gui, raised>>
    BY <1>6 DEF Answer
  <2> QED
    BY <2>1 DEF InTurn, Turns, Over, ModeFits, SlotFits, AllIdle
<1> QED
  BY <1>1, <1>2, <1>3, <1>4, <1>5, <1>6 DEF Gui

\* A scan is delivered, and the automatic installation goes on or is over
LEMMA UpdateInTurn ==
  ASSUME Undisturbed, TypeOK, InTurn, Update
  PROVE  InTurn'
<1> USE DEF modeVars, threadVars, reqVars, guiVars
<1>1. CASE BundleArrives
  <2>1. raised /\ ~raised' /\ gui' = "swap" /\ UNCHANGED <<modeVars, pc>>
    BY <1>1 DEF BundleArrives
  <2> QED
    BY <2>1 DEF InTurn, Turns, Over, ModeFits, SlotFits, AllIdle
<1>2. CASE BundleSwap
  <2>1. gui = "swap" /\ gui' = "after" /\ UNCHANGED <<modeVars, pc, raised>>
    BY <1>2 DEF BundleSwap
  <2> QED
    BY <2>1 DEF InTurn, Turns, Over, ModeFits, SlotFits, AllIdle
<1>3. CASE AfterSwap
  <2>1. /\ gui = "after" /\ UNCHANGED <<slot, reboot, raised>>
        /\ Resume \/ Complete \/ (~autoinst /\ mode' = ModeAfterSwap /\ gui' = "idle"
                                  /\ UNCHANGED <<autoinst, pc>>)
    BY <1>3 DEF AfterSwap
  <2>2. autoinst => AllIdle /\ ~raised
    BY <2>1 DEF InTurn, Turns, Over
  <2>3. CASE Resume
    <3>1. PICK t \in Threads : Goto(t, "enter")
      BY <2>3 DEF Resume, Spawn
    <3>2. autoinst /\ gui' = "idle" /\ UNCHANGED <<mode, autoinst>>
      BY <2>3 DEF Resume
    <3>3. pc'[t] = "enter" /\ \A u \in Threads : u # t => pc'[u] = "idle"
      BY <2>2, <3>1, <3>2 DEF Goto, TypeOK, AllIdle
    <3> QED
      BY <2>1, <2>2, <3>2, <3>3 DEF InTurn, Turns, Over, ModeFits, SlotFits, AllIdle
  <2>4. CASE Complete
    <3>1. /\ mode' = "NONE" /\ gui' \in {"idle", "closed"} /\ UNCHANGED pc
          /\ mode = "SCANNING" => ~autoinst'
          /\ mode # "SCANNING" => autoinst' = autoinst
          /\ mode # "NONE" /\ autoinst
      BY <2>4 DEF Complete
    <3> QED
      BY <2>1, <2>2, <3>1 DEF InTurn, Turns, Over, ModeFits, SlotFits, AllIdle
  <2>5. CASE ~autoinst /\ mode' = ModeAfterSwap /\ gui' = "idle" /\ UNCHANGED <<autoinst, pc>>
    BY <2>1, <2>2, <2>5 DEF InTurn, Turns, Over, ModeFits, SlotFits, AllIdle, ModeAfterSwap
  <2> QED
    BY <2>1, <2>3, <2>4, <2>5
<1> QED
  BY <1>1, <1>2, <1>3 DEF Update

\* The one thread there is asks for a scan as its last step
LEMMA ThreadInTurn ==
  ASSUME Undisturbed, TypeOK, InTurn, NEW t \in Threads, Thread(t)
  PROVE  InTurn'
<1> USE DEF modeVars, threadVars, reqVars, guiVars
<1>a. pc \in [Threads -> Labels]
  BY DEF TypeOK
<1>1. pc[t] # "idle" /\ UNCHANGED <<gui, reboot>>
  BY ZenonT(60) DEF Thread, Enter, SelectDownloads, AwaitDownload, Downloaded, RestorePoint,
     RestorePointDone, NextItem, Stage, TryExtract, Extracted, AfterExtract, Drive,
     CallInstall, Installed, Rescan, Finish, End, Report
<1>b. \A u \in Threads : u # t => pc[u] = "idle"
  BY <1>1 DEF InTurn, Turns
<1>3. \A u \in Threads : u # t => pc'[u] = "idle"
  BY <1>b DEF Thread, Enter, SelectDownloads, AwaitDownload, Downloaded, RestorePoint,
     RestorePointDone, NextItem, Stage, TryExtract, Extracted, AfterExtract, Drive,
     CallInstall, Installed, Rescan, Finish, End, Report, Leave, Goto, TypeOK
<1>c. ~AllIdle /\ (Over \/ (~raised /\ gui \notin {"swap", "after"}))
  BY <1>1 DEF InTurn, Turns, AllIdle
<1>4. CASE Finish(t)
  <2>1. /\ pc[t] = "finish" /\ pc'[t] = "end" /\ mode' = AfterStop /\ raised' = raised
        /\ autoinst' = (autoinst /\ mode # "STOPPING") /\ slot' \in {slot, "none"}
    BY <1>a, <1>4 DEF Finish, Goto
  <2>2. mode \in {"INSTALLING", "STOPPING"}
    BY <2>1 DEF InTurn, ModeFits
  <2> QED
    BY <1>1, <1>3, <1>c, <2>1, <2>2 DEF InTurn, Turns, Over, ModeFits, SlotFits, AllIdle, AfterStop
<1>5. ASSUME Leave(t), autoinst' = autoinst, mode' # "INSTALLING",
             mode' = "NONE" => mode = "NONE" /\ slot' = slot
      PROVE  InTurn'
  <2>1. pc'[t] = "idle"
    BY <1>a, <1>5 DEF Leave, Goto
  <2>2. AllIdle'
    BY <1>3, <2>1 DEF AllIdle
  <2> QED
    BY <1>1, <1>5, <1>c, <2>2 DEF InTurn, Turns, Over, ModeFits, SlotFits, AllIdle
<1>6. CASE End(t)
  <2>1. pc[t] = "end" /\ UNCHANGED <<mode, autoinst, slot>>
    BY <1>6 DEF End
  <2>2. CASE mode = "INSTALLING"
    <3>1. pc'[t] = "report" /\ raised' = raised
      BY <1>a, <1>6, <2>2 DEF End, Goto
    <3> QED
      BY <1>1, <1>3, <1>c, <2>1, <2>2, <3>1 DEF InTurn, Turns, Over, ModeFits, SlotFits, AllIdle
  <2>3. CASE mode # "INSTALLING"
    <3>1. Leave(t)
      BY <1>6, <2>3 DEF End
    <3> QED
      BY <1>5, <2>1, <2>3, <3>1
  <2> QED
    BY <2>2, <2>3
<1>7. CASE Report(t)
  <2>1. Leave(t) /\ autoinst' = autoinst /\ mode' = "SCANNING"
    BY <1>7 DEF Report, AfterInstall
  <2> QED
    BY <1>5, <2>1
<1>8. CASE Enter(t)
  <2>1. mode' = "INSTALLING" /\ raised' = raised /\ pc'[t] = "select"
        /\ autoinst' = (autoinst \/ reboot)
    BY <1>a, <1>8 DEF Enter, Goto
  <2> QED
    BY <1>1, <1>3, <1>c, <2>1 DEF InTurn, Turns, Over, ModeFits, SlotFits, AllIdle
<1>9. CASE ~Finish(t) /\ ~End(t) /\ ~Report(t) /\ ~Enter(t)
  <2>1. /\ pc[t] \notin {"idle", "enter", "end"} /\ pc'[t] \notin {"idle", "end"}
        /\ UNCHANGED <<mode, autoinst, raised>>
    BY <1>9, ZenonT(60) DEF Thread, SelectDownloads, AwaitDownload, Downloaded, RestorePoint,
       RestorePointDone, NextItem, Stage, TryExtract, Extracted, AfterExtract, Drive,
       CallInstall, Installed, Rescan, Goto, TypeOK
  <2>2. slot' = slot \/ mode = "STOPPING"
    BY <1>9 DEF Thread, SelectDownloads, AwaitDownload, Downloaded, RestorePoint,
       RestorePointDone, NextItem, Stage, TryExtract, Extracted, AfterExtract, Drive,
       CallInstall, Installed, Rescan
  <2> QED
    BY <1>1, <1>3, <1>c, <2>1, <2>2 DEF InTurn, Turns, Over, ModeFits, SlotFits, AllIdle
<1> QED
  BY <1>4, <1>6, <1>7, <1>8, <1>9

LEMMA NextInTurn ==
  ASSUME Undisturbed, TypeOK, InTurn, [Next]_vars
  PROVE  InTurn'
<1>1. ~ExternalChange
  <2>1. passes \in Nat /\ MaxPasses = 0
    BY DEF TypeOK, Undisturbed
  <2>2. ~(passes < MaxPasses)
    BY <2>1
  <2> QED
    BY <2>2 DEF ExternalChange
<1>2. CASE DownloadEnds \/ UNCHANGED vars
  <2>1. UNCHANGED <<modeVars, threadVars, reqVars, guiVars>>
    BY <1>2 DEF DownloadEnds, vars
  <2> QED
    BY <2>1 DEF modeVars, threadVars, reqVars, guiVars, InTurn, Turns, Over, ModeFits, SlotFits,
       AllIdle
<1> QED
  BY <1>1, <1>2, GuiInTurn, UpdateInTurn, ThreadInTurn DEF Next

LEMMA AlwaysInTurn == ASSUME Undisturbed PROVE Spec => []InTurn
<1>1. Init => InTurn
  BY DEF Init, InTurn, Turns, ModeFits, SlotFits, AllIdle
<1>2. TypeOK /\ InTurn /\ [Next]_vars => InTurn'
  BY NextInTurn
<1> QED
  BY <1>1, <1>2, TypeCorrect, PTL DEF Spec

\* Only the end of an automatic installation runs the completion command
LEMMA OnlyComplete ==
  ASSUME Next, finished' # finished
  PROVE  gui = "after" /\ Complete
<1> USE DEF histVars
<1>1. ASSUME NEW t \in Threads, Thread(t) PROVE FALSE
  BY <1>1 DEF Thread, Enter, SelectDownloads, AwaitDownload, Downloaded, RestorePoint,
              RestorePointDone, NextItem, Stage, TryExtract, Extracted, AfterExtract, Drive,
              CallInstall, Installed, Rescan, Finish, End, Report
<1>2. ~Gui
  BY DEF Gui, ClickInstall, ClickExtract, ClickToggle, ClickSelectAll, ClickSelectNone,
         ClickExpand, ClickProgress, ClickOption, ClickRescan, ClickClose, Answer, Edit
<1>3. ~BundleArrives /\ ~BundleSwap /\ ~ExternalChange /\ ~DownloadEnds
  BY DEF BundleArrives, BundleSwap, ExternalChange, DownloadEnds
<1> QED
  BY <1>1, <1>2, <1>3 DEF Next, Update, AfterSwap, Resume

\* Undisturbed, the completion command and the automatic close come when no thread is left,
\* however many rounds the automatic installation takes (manager.cpp 1838-1878, cli.txt 100-104)
THEOREM CompletionInTurn == ASSUME Undisturbed PROVE Spec => CompletionAfterInstall
<1>1. InTurn /\ [Next]_vars => [finished' # finished => AllIdle]_vars
  BY OnlyComplete DEF InTurn, Turns, Over, Complete
<1>2. InTurn /\ [Next]_vars => [finished' # finished => \A t \in Threads : pc[t] = "idle"]_vars
  BY <1>1 DEF AllIdle
<1> QED
  BY <1>2, AlwaysInTurn, PTL DEF Spec, CompletionAfterInstall

\* Undisturbed, an automatic installation that is not stopped is over only when every driver it
\* would recommend was tried (manager.cpp 1838-1878)
THEOREM NothingLeftOut ==
  ASSUME Undisturbed
  PROVE  Spec => NothingForgotten
<1> DEFINE Tried == \A k \in DOMAIN rows : FirstOfGroup(rows, k) => rows[k].status # "none"
<1>1. ASSUME TypeOK, InTurn, Next, finished' # finished, ~reboot, mode # "STOPPING"
      PROVE  Tried
  <2>1. gui = "after" /\ Complete
    BY <1>1, OnlyComplete
  <2>2. mode = "SCANNING"
    BY <1>1, <2>1 DEF Complete, InTurn, Turns, Over, ModeFits, TypeOK, Modes
  <2>3. rows' = SelectAll(rows) /\ ~ \E k \in DOMAIN rows' : rows'[k].checked
    BY <1>1, <2>1, <2>2 DEF Complete, NothingLeft
  <2>4. ASSUME NEW k \in DOMAIN rows, FirstOfGroup(rows, k), rows[k].status = "none" PROVE FALSE
    <3>1. rows[k] \in Row
      BY <1>1 DEF TypeOK
    <3>2. SelectAll(rows)[k] =
            [rows[k] EXCEPT !.checked = FirstOfGroup(rows, k) /\ rows[k].status = "none"]
      BY DEF SelectAll
    <3>3. DOMAIN SelectAll(rows) = DOMAIN rows
      BY DEF SelectAll
    <3>4. SelectAll(rows)[k].checked
      BY <2>4, <3>1, <3>2 DEF Row
    <3> QED
      BY <2>3, <3>3, <3>4
  <2> QED
    BY <2>4
<1>2. TypeOK /\ InTurn /\ [Next]_vars => [finished' # finished /\ ~reboot /\ mode # "STOPPING" => Tried]_vars
  BY <1>1
<1> QED
  BY <1>2, AlwaysInTurn, TypeCorrect, PTL DEF Spec, NothingForgotten

============================================================================
