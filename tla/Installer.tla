----------------------------- MODULE Installer -----------------------------
(***************************************************************************)
(* The installation thread (install.cpp, Manager::thread_install), the     *)
(* driver list it works on (manager.cpp, Manager::items_list), the GUI     *)
(* thread that edits the same list without the lock and replaces it under  *)
(* the lock (SDI.cpp, WM_BUNDLEREADY; manager.cpp, restorepos1), and the   *)
(* requests for a new device scan that the two of them raise.              *)
(*                                                                         *)
(* Positions: items_list[p + RES_SLOTS - 1] is at position p.  The rows are *)
(* at 1..Len(rows); the fixed slots below them are kept apart: slot is the *)
(* status of SLOT_EXTRACTING, rp is SLOT_RESTORE_POINT's checkbox.         *)
(***************************************************************************)
EXTENDS Integers, Sequences, FiniteSets

CONSTANTS
  Threads,         \* bound: installation threads that exist at once
  Matches,         \* Hwidmatch objects: one driver offered for one device
  NoMatch,         \* hwidmatch = nullptr: a device no driver was found for
  Devices,         \* groups of rows (itembar_t::index)
  Label,           \* Label[d]: Driver key or description of a device, "" if none
  HwidIndex,       \* HwidIndex[m]: Hwidmatch::getHWID_index()
  PackOf,          \* PackOf[m]: driver pack that holds the driver
  OnTorrent,       \* packs of type DRIVERPACK_TYPE_UPDATE
  UnpackedPacks,   \* packs called "unpacked.7z", whose files are already on disk
  Invalid,         \* matches of STATUS_INVALID: the section of the driver is not for this system
  Shown,           \* matches (or NoMatch) the display filter shows
  Lists,           \* the row layouts a scan may produce
  Clicks,          \* what the user does in this run
  MaxClicks,       \* bound: user actions
  MaxPasses,       \* bound: update requests from outside (device or file events)
  AutoInstall,     \* FLAG_AUTOINSTALL at start (-autoinstall)
  AutoClose,       \* FLAG_AUTOCLOSE (-autoclose)
  NoStop,          \* FLAG_NOSTOP (-nostop)
  KeepTemp         \* FLAG_KEEPTEMPFILES (-keeptempfiles)

ASSUME MatchAssumption ==
  /\ NoMatch \notin Matches
  /\ Invalid \subseteq Matches
  /\ HwidIndex \in [Matches -> Nat]
  /\ Lists \subseteq Seq([match : Matches \cup {NoMatch}, dev : Devices, name : BOOLEAN])
  /\ Lists # {}
  /\ \A d \in Devices : Label[d] \in STRING

ASSUME ThreadAssumption ==
  /\ Threads # {}
  /\ "free" \notin Threads

ASSUME BoundAssumption == MaxClicks \in Nat /\ MaxPasses \in Nat

ASSUME FlagAssumption == {AutoInstall, AutoClose, NoStop, KeepTemp} \subseteq BOOLEAN

Statuses == {"none", "EXTRACT", "EXTR_OK", "EXTR_FAILED", "INSTALL",
             "OK", "REBOOT", "FAILED", "STOPPING"}

Modes == {"NONE", "INSTALLING", "STOPPING", "SCANNING"}

Row == [match : Matches \cup {NoMatch}, dev : Devices, name : BOOLEAN,
        active : SUBSET {1, 2, 4}, checked : BOOLEAN, status : Statuses]

\* SLOT_EMPTY (0), which is also "nothing" in itembar_act, and SLOT_RESTORE_POINT (13)
EmptySlot == -13
RestoreSlot == 0

\* One below the list: where an access through itembar_act left it
OutOfList == -14

VARIABLES
  mode,       \* installmode
  instflag,   \* instflag: "INSTALLDRIVERS" or "OPENFOLDER"
  autoinst,   \* Settings.flags & FLAG_AUTOINSTALL
  lock,       \* owner of the critical section sync
  rows,       \* manager_g->items_list from RES_SLOTS on
  gen,        \* which list manager_g points to: one more per WM_BUNDLEREADY
  slot,       \* status of SLOT_EXTRACTING
  rp,         \* SLOT_RESTORE_POINT is checked
  reboot,     \* isRebootDesired(): the "restart when done" checkbox
  act,        \* itembar_act
  extracted,  \* drivers whose INF file is in extractdir
  dl,         \* the torrent download: "idle", "running", "pausing", "done"
  pc, loc,    \* program counter and locals of the installation threads
  gui,        \* GUI thread: "idle", "swap" and "after" in WM_BUNDLEREADY, "closed"
  asking,     \* the modal "stop the installation?" box is open
  raised,     \* deviceupdate_event is signalled
  discard,    \* invaidate_set & INVALIDATE_MANAGER
  clicks, passes,   \* bounds used up
  picked, calls,    \* history: times a driver was selected and installed
  finished,         \* history: completion commands run
  fault             \* history: an access outside the list or through a null pointer

listVars   == <<rows, gen, act>>
modeVars   == <<mode, instflag, autoinst, slot, rp, reboot>>
threadVars == <<pc, loc>>
guiVars    == <<gui, asking>>
reqVars    == <<raised, discard>>
boundVars  == <<clicks, passes>>
histVars   == <<picked, calls, finished, fault>>
vars == <<listVars, modeVars, threadVars, guiVars, reqVars, boundVars, histVars,
          lock, extracted, dl>>

----------------------------------------------------------------------------
(* The list: manager.cpp *)

\* UpdaterImp::isPaused returns sessionpaused, which starts at 1 and is then set
\* to ses->is_valid(): it is true while a download runs, too.
IsPaused == TRUE

MaySelect == mode = "NONE" \/ IsPaused

Eligible(r) == r.checked /\ r.active # {} /\ r.match # NoMatch

\* Manager::populate: fresh rows, nothing selected
Populate(list) ==
  [k \in DOMAIN list |->
     [match |-> list[k].match, dev |-> list[k].dev, name |-> list[k].name,
      active |-> {}, checked |-> FALSE, status |-> "none"]]

\* Manager::filter: rows with a selection or a status stay visible; a row that is
\* not visible or has no driver loses its selection
Filter(rs) ==
  [k \in DOMAIN rs |->
     LET r == rs[k]
         visible == /\ ~r.name
                    /\ \/ r.match \in Shown
                       \/ r.match # NoMatch /\ (r.checked \/ r.status # "none")
     IN  [r EXCEPT !.active = IF visible THEN {1} ELSE {},
                   !.checked = r.checked /\ visible /\ r.match # NoMatch]]

\* itembar_cmp
SameItem(a, b) ==
  IF a.match # NoMatch /\ b.match # NoMatch
  THEN HwidIndex[a.match] = HwidIndex[b.match]
  ELSE Label[a.dev] # "" /\ Label[a.dev] = Label[b.dev]

\* The only member of a set: the recursions below bind their last value with it, so that
\* TLC computes it once
Sole(S) == CHOOSE x \in S : TRUE

\* Slip: an old row can be taken twice (isactive=9 is forgotten)
FirstSame(item, old, taken) ==
  LET same == {j \in DOMAIN old : SameItem(item, old[j])}
  IN  IF same = {} THEN 0 ELSE CHOOSE j \in same : \A h \in same : j <= h

\* restorepos, the inner loop: the first old row that is the same item and that no
\* earlier new row took; 0 when there is none
FirstFree(item, old, taken) ==
  LET free == {j \in DOMAIN old : SameItem(item, old[j]) /\ \A h \in DOMAIN taken : taken[h] # j}
  IN  IF free = {} THEN 0 ELSE CHOOSE j \in free : \A h \in free : j <= h

Source(new, old) ==
  LET taken[i \in 0..Len(new)] ==
        IF i = 0 THEN <<>>
        ELSE Sole({Append(before, FirstFree(new[i], old, before)) : before \in {taken[i - 1]}})
  IN  taken[Len(new)]

\* restorepos: state carried from the old list to the new one
Restore(new, old) ==
  LET src == Source(new, old)
  IN  [k \in DOMAIN new |->
         IF src[k] \in DOMAIN old
         THEN [new[k] EXCEPT !.active  = old[src[k]].active,
                             !.checked = old[src[k]].checked,
                             !.status  = old[src[k]].status]
         ELSE new[k]]

\* restorepos, itembar_act: compared with old[itembar_act] for every new row, also
\* after it was given its new value; OutOfList when the access leaves the old list or
\* goes through the null devicematch of a fixed slot
\* Slip: the position counts from the wrong slot
MovedShort(new, old, i, a) ==
  IF a \in DOMAIN old /\ SameItem(new[i], old[a]) THEN i - 1 ELSE a

Moved(new, old, i, a) ==
  CASE a \in {EmptySlot, OutOfList} -> a
    [] a > Len(old) -> OutOfList
    [] a \in (EmptySlot + 1)..0 -> IF Label[new[i].dev] = "" THEN a ELSE OutOfList
    [] a \in DOMAIN old -> IF SameItem(new[i], old[a]) THEN i ELSE a

Remap(new, old, a0) ==
  LET to[i \in 0..Len(new)] ==
        IF i = 0 THEN a0 ELSE Sole({Moved(new, old, i, a) : a \in {to[i - 1]}})
  IN  to[Len(new)]

\* expand(index, EXPAND)
Expand(rs, k) ==
  IF 2 \in rs[k].active THEN rs
  ELSE [j \in DOMAIN rs |->
          IF rs[j].dev = rs[k].dev /\ rs[j].match \notin Invalid \cup {NoMatch} /\ ~rs[j].name
          THEN [rs[j] EXCEPT !.active = @ \cup {2}] ELSE rs[j]]

\* expand(index, COLLAPSE)
Collapse(rs, k) ==
  IF 2 \notin rs[k].active THEN rs
  ELSE [j \in DOMAIN rs |->
          IF rs[j].dev = rs[k].dev /\ ~rs[j].name
          THEN [rs[j] EXCEPT !.active = (@ \cap {1}) \cup (IF rs[j].checked THEN {4} ELSE {})]
          ELSE rs[j]]

Unselect(rs) == [k \in DOMAIN rs |-> [rs[k] EXCEPT !.checked = FALSE]]

\* Slip: devices without a driver are selected, too
FirstShown(rs, k) ==
  /\ rs[k].active # {} /\ ~rs[k].name
  /\ \A j \in 1..(k - 1) : ~(rs[j].dev = rs[k].dev /\ rs[j].active # {} /\ ~rs[j].name)

\* selectall: in each group the first visible driver, unless it already has a status
FirstOfGroup(rs, k) ==
  /\ rs[k].active # {} /\ rs[k].match # NoMatch /\ ~rs[k].name
  /\ \A j \in 1..(k - 1) : ~ /\ rs[j].dev = rs[k].dev
                             /\ rs[j].active # {} /\ rs[j].match # NoMatch /\ ~rs[j].name

SelectAll(rs) ==
  [k \in DOMAIN rs |->
     [rs[k] EXCEPT !.checked = FirstOfGroup(rs, k) /\ rs[k].status = "none"]]

\* Slip: the rest of the group keeps its selection
ToggledAlone(rs, k) == [rs EXCEPT ![k].checked = ~@]

\* toggle(index): the row, its status during an installation, the rest of its group
Toggled(rs, k) ==
  LET on == ~rs[k].checked
      st == IF mode = "NONE" THEN rs[k].status
            ELSE IF ~on THEN "STOPPING"
            ELSE IF rs[k].status = "STOPPING" THEN "none" ELSE rs[k].status
      flipped == [j \in DOMAIN rs |->
                    IF j = k THEN [rs[j] EXCEPT !.checked = on, !.status = st]
                    ELSE IF rs[j].dev = rs[k].dev THEN [rs[j] EXCEPT !.checked = FALSE]
                    ELSE rs[j]]
  IN  IF on THEN Collapse(flipped, k) ELSE flipped

\* history: the drivers whose checkbox goes on between two lists of one layout
NowPicked(old, new) ==
  {new[k].match : k \in {j \in DOMAIN old : ~old[j].checked /\ new[j].checked}}

CountPicked(S) == picked' = [m \in Matches |-> IF m \in S THEN picked[m] + 1 ELSE picked[m]]

----------------------------------------------------------------------------
(* The installation thread: install.cpp *)

Free == "free"

NoLocals ==
  [i |-> 1, bar |-> 1, barGen |-> 0, hw |-> NoMatch, hwGen |-> 0, want |-> {}, ok |-> FALSE]

NewLocals ==
  [i |-> 1, bar |-> 1, barGen |-> gen, hw |-> NoMatch, hwGen |-> gen, want |-> {},
   ok |-> FALSE]

Goto(t, label) == pc' = [pc EXCEPT ![t] = label]

SetLoc(t, r) == loc' = [loc EXCEPT ![t] = r]

\* Slip: the critical section is entered whoever is in it
TakeAnyway(t) == lock' = t

Take(t) == lock = Free /\ lock' = t

Stop == fault' = TRUE

\* Slip: the bits are set, the event is not
InvalidateSilently(v) == discard' = (discard \/ v) /\ UNCHANGED raised

\* invalidate(): v says whether INVALIDATE_MANAGER is among the bits
Invalidate(v) == discard' = (discard \/ v) /\ raised' = TRUE

\* Manager::install: instflag is set, a thread is started; the thread itself sets
\* installmode, once it has the lock
Spawn(flag) ==
  /\ instflag' = flag
  /\ \E t \in Threads : pc[t] = "idle" /\ Goto(t, "enter")

Enter(t) ==
  /\ pc[t] = "enter"
  /\ Take(t)
  /\ mode' = "INSTALLING"
  /\ slot' = IF instflag = "INSTALLDRIVERS" THEN "INSTALLING" ELSE "EXTRACTING"
  /\ autoinst' = (autoinst \/ reboot)
  /\ SetLoc(t, NewLocals)
  /\ Goto(t, "select")
  /\ UNCHANGED <<listVars, guiVars, reqVars, boundVars, histVars, instflag, rp, reboot,
                 extracted, dl>>

Selected == {k \in DOMAIN rows : Eligible(rows[k])}

ToDownload == {k \in Selected : PackOf[rows[k].match] \in OnTorrent}

\* The selected drivers whose packs are on the torrent: wait for the torrent, give
\* the packs a priority, resume the download.  itembar is left where the loop ends: behind
\* the list, where it was stopped, or where the torrent was not ready
SelectDownloads(t) ==
  /\ pc[t] = "select"
  /\ \E k \in 1..(Len(rows) + 1) :
       LET passed == {j \in ToDownload : j < k}
       IN /\ k = Len(rows) + 1 \/ mode # "INSTALLING" \/ (k \in ToDownload /\ passed = {})
          /\ SetLoc(t, [loc[t] EXCEPT !.bar = k])
          /\ dl' = IF passed = {} THEN dl ELSE "running"
          /\ Goto(t, IF passed = {} THEN "downloaded" ELSE "download")
  /\ UNCHANGED <<listVars, modeVars, guiVars, reqVars, boundVars, histVars, lock, extracted>>

\* while(installmode&&!Updater->isUpdateCompleted()) Sleep(500), inside the lock
AwaitDownload(t) ==
  /\ pc[t] = "download"
  /\ mode = "NONE" \/ dl = "done"
  /\ Goto(t, "downloaded")
  /\ UNCHANGED <<listVars, modeVars, loc, guiVars, reqVars, boundVars, histVars,
                 lock, extracted, dl>>

Downloaded(t) ==
  /\ pc[t] = "downloaded"
  /\ IF mode # "STOPPING"
     THEN UNCHANGED <<rows, slot, fault>>
     ELSE IF loc[t].bar \notin DOMAIN rows
     THEN Stop /\ UNCHANGED <<rows, slot>>
     ELSE /\ slot' = "STOPPING"
          /\ LET marked == [rows EXCEPT ![loc[t].bar].status = "STOPPING"]
             IN  rows' = IF MaySelect THEN Unselect(marked) ELSE marked
          /\ UNCHANGED fault
  /\ Goto(t, "restore")
  /\ UNCHANGED <<gen, act, mode, instflag, autoinst, rp, reboot, loc, guiVars, reqVars, boundVars,
                 picked, calls, finished, lock, extracted, dl>>

Start(t) == SetLoc(t, [loc[t] EXCEPT !.i = 1, !.bar = 1, !.barGen = gen])

\* The restore point, up to the call that leaves the lock; no SrClient.dll: it fails
\* at once, and only FLAG_NOSTOP lets the installation go on
RestorePoint(t) ==
  /\ pc[t] = "restore"
  /\ \/ ~rp /\ Goto(t, "loop") /\ Start(t) /\ UNCHANGED <<rp, act, lock>>
     \/ rp /\ rp' = FALSE /\ Goto(t, IF NoStop THEN "loop" ELSE "finish")
           /\ Start(t) /\ UNCHANGED <<act, lock>>
     \/ rp /\ act' = RestoreSlot /\ lock' = Free /\ Goto(t, "creating")
           /\ UNCHANGED <<rp, loc>>
  /\ UNCHANGED <<rows, gen, mode, instflag, autoinst, slot, reboot, guiVars, reqVars, boundVars,
                 histVars, extracted, dl>>

RestorePointDone(t) ==
  /\ pc[t] = "creating"
  /\ Take(t)
  /\ rp' = FALSE
  /\ Start(t)
  /\ \E ok \in BOOLEAN : Goto(t, IF ok \/ NoStop THEN "loop" ELSE "finish")
  /\ UNCHANGED <<listVars, mode, instflag, autoinst, slot, reboot, guiVars, reqVars, boundVars,
                 histVars, extracted, dl>>

\* The for loop over the list.  i counts the rows and itembar walks them beside it;
\* the two agree only while itembar was not moved to another row below.
NextItem(t) ==
  /\ pc[t] = "loop"
  /\ LET i == loc[t].i
         bar == loc[t].bar
         hits == {n \in 0..(Len(rows) - i) :
                    bar + n \in DOMAIN rows /\ Eligible(rows[bar + n])}
     IN  IF mode = "INSTALLING" /\ hits # {}
         THEN \E n \in hits :
                /\ \A h \in hits : n <= h
                /\ act' = i + n
                /\ SetLoc(t, [loc[t] EXCEPT !.i = i + n, !.bar = bar + n, !.barGen = gen,
                                            !.hw = rows[bar + n].match, !.hwGen = gen])
                /\ Goto(t, "stage")
                /\ UNCHANGED fault
         ELSE /\ IF mode = "INSTALLING" /\ i <= Len(rows) /\ bar > i
                 THEN Stop ELSE UNCHANGED fault
              /\ Goto(t, "rescan")
              /\ UNCHANGED <<act, loc>>
  /\ UNCHANGED <<rows, gen, modeVars, guiVars, reqVars, boundVars, picked, calls, finished,
                 lock, extracted, dl>>

\* The rows of one pack that are still to be installed are extracted together
Batch(t) ==
  {k \in DOMAIN rows : k \in loc[t].bar..(loc[t].bar + Len(rows) - loc[t].i) /\ rows[k].checked}

\* The item at a position, which itembar_act may have made a fixed slot
CheckedAt(k) == IF k \in DOMAIN rows THEN rows[k].checked ELSE k = RestoreSlot /\ rp

MatchAt(k) == IF k \in DOMAIN rows THEN rows[k].match ELSE NoMatch

\* rs with the item at k given a status and a selection; a fixed slot is not in rs
Put(rs, k, st, on) ==
  IF k \in DOMAIN rs THEN [rs EXCEPT ![k].status = st, ![k].checked = on] ELSE rs

StatusAt(k) == IF k \in DOMAIN rows THEN rows[k].status ELSE "none"

\* SLOT_RESTORE_POINT's checkbox, if it is the item at k that gets a selection
PutRp(k, on) == rp' = IF k = RestoreSlot THEN on ELSE rp

\* Where the driver's files come from: already extracted, never packed, or an archive
\* that FileAvailable does or does not find
Stage(t) ==
  /\ pc[t] = "stage"
  /\ LET bar == loc[t].bar
         m == loc[t].hw
     IN  \/ /\ m \in extracted \/ PackOf[m] \in UnpackedPacks
            /\ Goto(t, "drive")
            /\ UNCHANGED <<rows, loc, fault>>
         \/ /\ m \notin extracted /\ PackOf[m] \notin UnpackedPacks
            /\ bar > loc[t].i \/ \E k \in Batch(t) : rows[k].match = NoMatch
            /\ Stop
            /\ UNCHANGED <<rows, loc, pc>>
         \/ /\ m \notin extracted /\ PackOf[m] \notin UnpackedPacks
            /\ bar <= loc[t].i /\ \A k \in Batch(t) : rows[k].match # NoMatch
            /\ \E found \in BOOLEAN :
                 /\ rows' = IF found THEN Put(rows, bar, "EXTRACT", CheckedAt(bar))
                            ELSE Put(rows, bar, "FAILED", FALSE)
                 /\ SetLoc(t, [loc[t] EXCEPT !.ok = found,
                                 !.want = {rows[k].match : k \in
                                             {j \in Batch(t) : PackOf[rows[j].match] = PackOf[m]}}])
                 /\ Goto(t, IF found THEN "try" ELSE "extracted")
            /\ UNCHANGED fault
  /\ UNCHANGED <<gen, act, modeVars, guiVars, reqVars, boundVars, picked, calls, finished,
                 lock, extracted, dl>>

\* The do loop around Extract7z: its tests, then the call, outside the lock
TryExtract(t) ==
  /\ pc[t] = "try"
  /\ IF ~CheckedAt(loc[t].bar) \/ mode # "INSTALLING"
     THEN Goto(t, "extracted") /\ UNCHANGED lock
     ELSE Goto(t, "extracting") /\ lock' = Free
  /\ UNCHANGED <<listVars, modeVars, loc, guiVars, reqVars, boundVars, histVars, extracted, dl>>

\* Slip: itembar is not read again after the lock was given up
KeepPointer(t) == loc[t]

\* itembar=&manager_g->items_list[itembar_act], once the lock is taken again
Refetch(t) == [loc[t] EXCEPT !.bar = act, !.barGen = gen]

\* Extract7z has returned, with the files or without.  The loop ends only for a pack on
\* the torrent: FileOk, tested instead of the result, does not change.  hwidmatch still
\* points into the list that was current before the call: after a replacement what it
\* says is undefined.
Extracted(t) ==
  /\ pc[t] = "extracting"
  /\ Take(t)
  /\ extracted' \in {extracted, extracted \cup loc[t].want}
  /\ IF act > Len(rows)
     THEN Stop /\ UNCHANGED <<loc, pc>>
     ELSE /\ SetLoc(t, Refetch(t))
          /\ \E again \in BOOLEAN :
               /\ loc[t].hwGen = gen => again = (PackOf[loc[t].hw] \notin OnTorrent)
               /\ Goto(t, IF again THEN "try" ELSE "extracted")
          /\ UNCHANGED fault
  /\ UNCHANGED <<listVars, modeVars, guiVars, reqVars, boundVars, picked, calls, finished, dl>>

\* After the extraction: a stopped row is marked, and any other row whose archive was
\* found is marked as failed and loses its selection
AfterExtract(t) ==
  /\ pc[t] = "extracted"
  /\ LET bar == loc[t].bar
         st == IF mode = "STOPPING" THEN "STOPPING" ELSE StatusAt(bar)
         fails == loc[t].ok /\ st # "STOPPING"
     IN  /\ rows' = Put(rows, bar, IF fails THEN "EXTR_FAILED" ELSE st, CheckedAt(bar) /\ ~fails)
         /\ PutRp(bar, CheckedAt(bar) /\ ~fails)
         /\ SetLoc(t, [loc[t] EXCEPT !.hw = MatchAt(bar), !.hwGen = gen])
  /\ slot' = IF mode = "STOPPING" THEN "STOPPING" ELSE slot
  /\ Goto(t, "drive")
  /\ UNCHANGED <<gen, act, mode, instflag, autoinst, reboot, guiVars, reqVars, boundVars, histVars,
                 lock, extracted, dl>>

\* Slip: the pointer moves on, the index does not
AdvancePointer(l) == [l EXCEPT !.bar = @ + 1, !.hw = NoMatch]

\* Leave the item: checked=0, i++, itembar++
Advance(l) ==
  [l EXCEPT !.i = @ + 1, !.bar = @ + 1, !.hw = NoMatch, !.want = {}, !.ok = FALSE]

\* The driver is installed outside the lock, if the row is still selected
Drive(t) ==
  /\ pc[t] = "drive"
  /\ LET bar == loc[t].bar
         on == CheckedAt(bar)
     IN  \/ /\ on /\ instflag = "INSTALLDRIVERS" /\ loc[t].hw = NoMatch
            /\ Stop /\ UNCHANGED <<rows, rp, loc, lock, pc>>
         \/ /\ on /\ instflag = "INSTALLDRIVERS" /\ loc[t].hw # NoMatch
            /\ rows' = Put(rows, bar, "INSTALL", TRUE)
            /\ lock' = Free
            /\ Goto(t, "call")
            /\ UNCHANGED <<rp, loc, fault>>
         \/ /\ ~on \/ instflag = "OPENFOLDER"
            /\ rows' = Put(rows, bar, IF on THEN "EXTR_OK" ELSE StatusAt(bar), FALSE)
            /\ PutRp(bar, FALSE)
            /\ SetLoc(t, Advance(loc[t]))
            /\ Goto(t, "loop")
            /\ UNCHANGED <<lock, fault>>
  /\ UNCHANGED <<gen, act, mode, instflag, autoinst, slot, reboot, guiVars, reqVars, boundVars, picked, calls, finished,
                 extracted, dl>>

\* if(installmode==MODE_INSTALLING)driver_install(...);else ret=1;
CallInstall(t) ==
  /\ pc[t] = "call"
  /\ IF mode = "INSTALLING"
     THEN \E ok \in BOOLEAN : /\ SetLoc(t, [loc[t] EXCEPT !.ok = ok])
                              /\ calls' = [calls EXCEPT ![loc[t].hw] = @ + 1]
     ELSE SetLoc(t, [loc[t] EXCEPT !.ok = TRUE]) /\ UNCHANGED calls
  /\ Goto(t, "called")
  /\ UNCHANGED <<listVars, modeVars, guiVars, reqVars, boundVars, picked, finished, fault,
                 lock, extracted, dl>>

\* Slip: a stop is not looked at when the result is shown
OutcomesAnyway(ok) == IF ok THEN {"OK", "REBOOT"} ELSE {"FAILED"}

Outcomes(ok) ==
  IF mode = "STOPPING" THEN {"STOPPING"} ELSE IF ok THEN {"OK", "REBOOT"} ELSE {"FAILED"}

\* Slip: the item stays selected
MarkedOnly(rs, k, st) == Put(rs, k, st, TRUE)

\* The status of the item, and the checked=0 that ends every turn of the loop
Marked(rs, k, st) == Put(rs, k, st, FALSE)

\* The result: shown on the row itembar_act points to now, the selection of
\* the row cleared; a stop clears every selection, a failure expands row i's group
Installed(t) ==
  /\ pc[t] = "called"
  /\ Take(t)
  /\ LET ok == loc[t].ok
         stopping == mode = "STOPPING"
         shown == IF ~ok /\ ~stopping /\ loc[t].i \in DOMAIN rows
                  THEN Expand(rows, loc[t].i) ELSE rows
     IN  IF act > Len(rows) \/ (~ok /\ ~stopping /\ loc[t].i \notin DOMAIN rows)
         THEN Stop /\ UNCHANGED <<rows, rp, loc, slot, pc>>
         ELSE /\ \E st \in Outcomes(ok) :
                   LET marked == Marked(shown, act, st)
                   IN  rows' = IF stopping /\ MaySelect THEN Unselect(marked) ELSE marked
              /\ slot' = IF stopping THEN "STOPPING" ELSE slot
              /\ PutRp(act, FALSE)
              /\ SetLoc(t, Advance(Refetch(t)))
              /\ Goto(t, "loop")
              /\ UNCHANGED fault
  /\ UNCHANGED <<gen, act, mode, instflag, autoinst, reboot, guiVars, reqVars, boundVars,
                 picked, calls, finished, extracted, dl>>

\* Slip: goes round whatever the mode
RescanAnyway(t) ==
  /\ pc[t] = "rescan"
  /\ IF \E k \in DOMAIN rows : rows[k].checked
     THEN Start(t) /\ Goto(t, "loop")
     ELSE Goto(t, "finish") /\ UNCHANGED loc
  /\ UNCHANGED <<listVars, modeVars, guiVars, reqVars, boundVars, histVars, lock, extracted, dl>>

\* goto goaround, while anything is selected
Rescan(t) ==
  /\ pc[t] = "rescan"
  /\ IF mode = "INSTALLING" /\ \E k \in DOMAIN rows : rows[k].checked
     THEN Start(t) /\ Goto(t, "loop")
     ELSE Goto(t, "finish") /\ UNCHANGED loc
  /\ UNCHANGED <<listVars, modeVars, guiVars, reqVars, boundVars, histVars, lock, extracted, dl>>

\* Manager::clear
Cleared(rs) == Filter([k \in DOMAIN rs |-> [rs[k] EXCEPT !.status = "none"]])

\* Slips: the installation goes to the mode of its status; a stop is not ended
ModeIsStatus == "COMPLETED"

StopStays == mode

\* installmode, tested for a stop at the end of the thread
AfterStop == IF mode = "STOPPING" THEN "NONE" ELSE mode

\* MODE_SCANNING lasts until the list is replaced
AfterInstall == "SCANNING"

\* The end of the thread.  The GUI thread may stop the installation between the tests of
\* installmode, and before it is set
Finish(t) ==
  /\ pc[t] = "finish"
  /\ rows' = IF instflag = "OPENFOLDER" THEN Cleared(rows) ELSE rows
  /\ extracted' = IF instflag = "INSTALLDRIVERS" /\ ~KeepTemp THEN {} ELSE extracted
  /\ autoinst' = (autoinst /\ mode # "STOPPING")
  /\ mode' = AfterStop
  /\ slot' = IF instflag = "OPENFOLDER" THEN "none" ELSE slot
  /\ Goto(t, "end")
  /\ UNCHANGED <<gen, act, instflag, rp, reboot, loc, guiVars, reqVars, boundVars, histVars, lock, dl>>

\* The lock is left, a new scan of the devices, which leads out of MODE_SCANNING, requested
Leave(t) ==
  /\ act' = EmptySlot
  /\ lock' = Free
  /\ SetLoc(t, NoLocals)
  /\ Invalidate(instflag = "OPENFOLDER")
  /\ Goto(t, "idle")

End(t) ==
  /\ pc[t] = "end"
  /\ IF mode = "INSTALLING"
     THEN Goto(t, "report") /\ UNCHANGED <<act, lock, loc, reqVars>>
     ELSE Leave(t)
  /\ UNCHANGED <<rows, gen, modeVars, guiVars, boundVars, histVars, extracted, dl>>

\* Installed, unless the user wanted the files only
Report(t) ==
  /\ pc[t] = "report"
  /\ mode' = AfterInstall
  /\ slot' = IF instflag = "OPENFOLDER" THEN slot ELSE "COMPLETED"
  /\ Leave(t)
  /\ UNCHANGED <<rows, gen, instflag, autoinst, rp, reboot, guiVars, boundVars, histVars,
                 extracted, dl>>

Thread(t) ==
  \/ Enter(t) \/ SelectDownloads(t) \/ AwaitDownload(t) \/ Downloaded(t)
  \/ RestorePoint(t) \/ RestorePointDone(t) \/ NextItem(t) \/ Stage(t) \/ TryExtract(t)
  \/ Extracted(t) \/ AfterExtract(t) \/ Drive(t) \/ CallInstall(t) \/ Installed(t)
  \/ Rescan(t) \/ Finish(t) \/ End(t) \/ Report(t)

----------------------------------------------------------------------------
(* The user, through the GUI thread, which does not take the lock: SDI.cpp *)

\* The GUI thread handles a click; behind the modal box the window takes none
User(click) ==
  /\ click \in Clicks /\ clicks < MaxClicks
  /\ gui = "idle" /\ ~asking
  /\ clicks' = clicks + 1

\* InstallCommand: only the mode is tested, which the thread sets after it has the lock
ClickInstall ==
  /\ User("install")
  /\ mode = "NONE"
  /\ Spawn("INSTALLDRIVERS")
  /\ UNCHANGED <<listVars, mode, autoinst, slot, rp, reboot, loc, guiVars, reqVars, passes,
                 histVars, lock, extracted, dl>>

\* extractto: no test of the mode
ClickExtract ==
  /\ User("extract")
  /\ Spawn("OPENFOLDER")
  /\ UNCHANGED <<listVars, mode, autoinst, slot, rp, reboot, loc, guiVars, reqVars, passes,
                 histVars, lock, extracted, dl>>

Visible(k) == rows[k].active # {} /\ ~rows[k].name

\* The user changes the list: what was selected is counted
Edit(new) ==
  /\ rows' = new
  /\ CountPicked(NowPicked(rows, new))
  /\ UNCHANGED <<gen, act, modeVars, threadVars, guiVars, reqVars, passes, calls, finished,
                 fault, lock, extracted, dl>>

ClickToggle ==
  /\ User("toggle")
  /\ MaySelect
  /\ \E k \in DOMAIN rows : Visible(k) /\ rows[k].match # NoMatch /\ Edit(Toggled(rows, k))

ClickSelectAll == User("all") /\ MaySelect /\ Edit(SelectAll(rows))

ClickSelectNone == User("none") /\ MaySelect /\ Edit(Unselect(rows))

\* expand(index, TOGGLE)
ClickExpand ==
  /\ User("expand")
  /\ \E k \in DOMAIN rows :
       Visible(k) /\ Edit(IF 2 \in rows[k].active THEN Collapse(rows, k) ELSE Expand(rows, k))

\* The progress panel: stops a running installation, clears the result of a past one
ClickProgress ==
  /\ User("progress")
  /\ slot # "none"
  /\ \/ /\ mode = "INSTALLING"
        /\ mode' = "STOPPING"
        /\ UNCHANGED <<rows, slot, reqVars>>
     \/ /\ mode = "NONE"
        /\ rows' = Cleared(rows)
        /\ slot' = "none"
        /\ Invalidate(TRUE)
        /\ UNCHANGED mode
  /\ UNCHANGED <<gen, act, instflag, autoinst, rp, reboot, threadVars, guiVars, passes,
                 histVars, lock, extracted, dl>>

\* RestPointCheckboxCommand, and RebootCheckboxCommand with its FLAG_AUTOINSTALL
ClickOption ==
  /\ \/ User("restore") /\ rp' = ~rp /\ UNCHANGED <<reboot, autoinst>>
     \/ User("reboot") /\ reboot' = ~reboot /\ autoinst' = ~reboot /\ UNCHANGED rp
  /\ UNCHANGED <<listVars, mode, instflag, slot, threadVars, guiVars, reqVars, passes, histVars,
                 lock, extracted, dl>>

\* Ctrl+F5 asks for a scan of the devices, F5 for everything
ClickRescan ==
  /\ \/ User("scan") /\ Invalidate(FALSE)
     \/ User("reload") /\ Invalidate(TRUE)
  /\ UNCHANGED <<listVars, modeVars, threadVars, guiVars, passes, histVars, lock, extracted, dl>>

\* WM_CLOSE
ClickClose ==
  /\ User("quit")
  /\ IF mode = "NONE" \/ AutoClose
     THEN gui' = "closed" /\ UNCHANGED asking
     ELSE asking' = TRUE /\ UNCHANGED gui
  /\ UNCHANGED <<listVars, modeVars, threadVars, reqVars, passes, histVars, lock, extracted, dl>>

\* The answer to the box, whatever the mode is by then; Updater->pause()
Answer ==
  /\ asking /\ gui = "idle"
  /\ asking' = FALSE
  /\ \/ mode' = "STOPPING" /\ dl' = IF dl = "running" THEN "pausing" ELSE dl
     \/ UNCHANGED <<mode, dl>>
  /\ UNCHANGED <<listVars, instflag, autoinst, slot, rp, reboot, threadVars, gui, reqVars,
                 boundVars, histVars, lock, extracted>>

----------------------------------------------------------------------------
(* A scan delivered, and requests from outside *)

\* WM_DEVICECHANGE is ignored during an installation; drp_callback is not
ExternalChange ==
  /\ passes < MaxPasses /\ gui # "closed"
  /\ passes' = passes + 1
  /\ Invalidate(FALSE)
  /\ UNCHANGED <<listVars, modeVars, threadVars, guiVars, clicks, histVars, lock, extracted, dl>>

\* Slip: the request is not consumed, as with a manual-reset event
BundleArrivesAgain ==
  /\ raised /\ gui = "idle"
  /\ gui' = "swap"
  /\ UNCHANGED <<listVars, modeVars, threadVars, asking, reqVars, boundVars, histVars,
                 lock, extracted, dl>>

\* thread_loadall has scanned for the last request: SendMessage(WM_BUNDLEREADY)
BundleArrives ==
  /\ raised /\ gui = "idle"
  /\ raised' = FALSE
  /\ gui' = "swap"
  /\ UNCHANGED <<listVars, modeVars, threadVars, asking, discard, boundVars, histVars,
                 lock, extracted, dl>>

\* WM_BUNDLEREADY and the locked half of restorepos1: manager_g is replaced
BundleSwap ==
  /\ gui = "swap"
  /\ lock = Free
  /\ \E new \in Lists :
       LET fresh == Filter(Populate(new))
       IN  /\ rows' = IF discard THEN fresh ELSE Restore(fresh, rows)
           /\ \E a \in {OutOfList, act} \cup DOMAIN new :
                /\ a = IF discard THEN act ELSE Remap(fresh, rows, act)
                /\ IF a = OutOfList THEN Stop /\ UNCHANGED act ELSE act' = a /\ UNCHANGED fault
  /\ gen' = gen + 1
  /\ discard' = FALSE
  /\ gui' = "after"
  /\ UNCHANGED <<modeVars, threadVars, asking, raised, boundVars, picked, calls, finished,
                 lock, extracted, dl>>

\* restorepos1 after the lock: the automatic installation goes on, or is over
Resume ==
  /\ autoinst /\ mode \in {"NONE", "SCANNING"}
  /\ LET chosen == IF reboot THEN rows ELSE SelectAll(rows)
         any == \E k \in DOMAIN chosen : chosen[k].checked
     IN  /\ mode = "NONE" \/ any
         /\ rows' = chosen
         /\ CountPicked(NowPicked(rows, chosen))
  /\ Spawn("INSTALLDRIVERS")
  /\ gui' = "idle"
  /\ UNCHANGED <<mode, autoinst, finished>>

\* Slip: the count of what is selected is not looked at
AnythingLeft == TRUE

NothingLeft == ~ \E k \in DOMAIN rows : rows[k].checked

Complete ==
  /\ autoinst /\ mode # "NONE"
  /\ IF mode = "SCANNING"
     THEN /\ rows' = IF reboot THEN rows ELSE SelectAll(rows)
          /\ NothingLeft'
          /\ autoinst' = FALSE
     ELSE UNCHANGED <<rows, autoinst>>
  /\ mode' = "NONE"
  /\ finished' = finished + 1
  /\ gui' = IF AutoClose THEN "closed" ELSE "idle"
  /\ UNCHANGED <<instflag, pc, picked>>

ModeAfterSwap == IF mode = "SCANNING" THEN "NONE" ELSE mode

AfterSwap ==
  /\ gui = "after"
  /\ \/ Resume
     \/ Complete
     \/ /\ ~autoinst
        /\ mode' = ModeAfterSwap
        /\ gui' = "idle"
        /\ UNCHANGED <<rows, autoinst, instflag, pc, picked, finished>>
  /\ UNCHANGED <<gen, act, slot, rp, reboot, loc, asking, reqVars, boundVars, calls, fault,
                 lock, extracted, dl>>

\* thread_download: the download is complete, or has been paused
DownloadEnds ==
  /\ dl \in {"running", "pausing"}
  /\ dl' = "done"
  /\ UNCHANGED <<listVars, modeVars, threadVars, guiVars, reqVars, boundVars, histVars,
                 lock, extracted>>

----------------------------------------------------------------------------
\* Start of the program: an empty list, the first scan requested with everything invalid
Init ==
  /\ mode = "NONE" /\ instflag = "INSTALLDRIVERS" /\ autoinst = AutoInstall
  /\ slot = "none" /\ rp = FALSE /\ reboot = FALSE
  /\ rows = <<>> /\ gen = 0 /\ act = EmptySlot
  /\ lock = Free
  /\ extracted = {} /\ dl = "idle"
  /\ pc = [t \in Threads |-> "idle"] /\ loc = [t \in Threads |-> NoLocals]
  /\ gui = "idle" /\ asking = FALSE
  /\ raised = TRUE /\ discard = TRUE
  /\ clicks = 0 /\ passes = 0
  /\ picked = [m \in Matches |-> 0] /\ calls = [m \in Matches |-> 0]
  /\ finished = 0 /\ fault = FALSE

Gui ==
  \/ ClickInstall \/ ClickExtract \/ ClickToggle \/ ClickSelectAll \/ ClickSelectNone
  \/ ClickExpand \/ ClickProgress \/ ClickOption \/ ClickRescan \/ ClickClose \/ Answer

Update == BundleArrives \/ BundleSwap \/ AfterSwap

\* The program ends when its window is closed, or with the first bad access
Alive == ~fault /\ gui # "closed"

Next ==
  /\ Alive
  /\ \/ \E t \in Threads : Thread(t)
     \/ Gui
     \/ Update
     \/ ExternalChange
     \/ DownloadEnds

Spec == Init /\ [][Next]_vars

\* The threads run, and what they wait for returns: a free critical section is obtained,
\* 7-Zip, the installation API, the restore point and the download come to an end, and
\* thread_loadall delivers what was requested.  The user owes nothing, but an answer to
\* the box
FairSpec ==
  /\ Spec
  /\ \A t \in Threads : WF_vars(Alive /\ Thread(t))
  /\ WF_vars(Alive /\ Update)
  /\ WF_vars(Alive /\ DownloadEnds)
  /\ WF_vars(Alive /\ Answer)

----------------------------------------------------------------------------
(* Lists in which itembar_cmp tells the items apart; the code does not ensure it *)

\* Populate makes two rows of a driver, the name of its pack and the driver's own below it,
\* and one of a device without a driver, whose label, if it has one, is no other device's
\* (manager.cpp 622-649)
Regular(rs) ==
  /\ \A j, k \in DOMAIN rs :
       rs[j].match = rs[k].match /\ rs[j].match # NoMatch /\ rs[j].name /\ rs[k].name => j = k
  /\ \A j, k \in DOMAIN rs :
       rs[j].match = rs[k].match /\ rs[j].match # NoMatch /\ ~rs[j].name /\ ~rs[k].name => j = k
  /\ \A k \in DOMAIN rs :
       rs[k].match # NoMatch /\ ~rs[k].name =>
         \E j \in DOMAIN rs : j < k /\ rs[j].match = rs[k].match /\ rs[j].name
  /\ \A j, k \in DOMAIN rs :
       j # k /\ Label[rs[j].dev] = Label[rs[k].dev] /\ Label[rs[j].dev] # "" =>
         rs[j].match # NoMatch

\* A driver is offered for one device in both lists
OneDevice(rs, qs) ==
  \A j \in DOMAIN rs, k \in DOMAIN qs :
    rs[j].match = qs[k].match /\ rs[j].match # NoMatch => rs[j].dev = qs[k].dev

\* getHWID_index tells drivers apart, and the lists are regular
Distinct ==
  /\ \A m, n \in Matches : HwidIndex[m] = HwidIndex[n] => m = n
  /\ \A list \in Lists : Regular(list)
  /\ \A list, other \in Lists : OneDevice(list, other)

----------------------------------------------------------------------------
(* Properties *)

Labels == {"idle", "enter", "select", "download", "downloaded", "restore", "creating",
           "loop", "stage", "try", "extracting", "extracted", "drive", "call", "called",
           "rescan", "finish", "end", "report"}

Locals == [i : Nat, bar : Int, barGen : Nat, hw : Matches \cup {NoMatch}, hwGen : Nat,
           want : SUBSET (Matches \cup {NoMatch}), ok : BOOLEAN]

\* Every variable has its type: in particular a row holds one of its statuses, the mode is
\* one of the four of installmode, and the lock belongs to a thread or to nobody
TypeOK ==
  /\ mode \in Modes
  /\ instflag \in {"INSTALLDRIVERS", "OPENFOLDER"}
  /\ autoinst \in BOOLEAN
  /\ lock \in Threads \cup {Free}
  /\ rows \in Seq(Row)
  /\ gen \in Nat
  /\ slot \in {"none", "INSTALLING", "EXTRACTING", "STOPPING", "COMPLETED"}
  /\ rp \in BOOLEAN /\ reboot \in BOOLEAN
  /\ act \in Int
  /\ extracted \subseteq Matches \cup {NoMatch}
  /\ dl \in {"idle", "running", "pausing", "done"}
  /\ pc \in [Threads -> Labels] /\ loc \in [Threads -> Locals]
  /\ gui \in {"idle", "swap", "after", "closed"} /\ asking \in BOOLEAN
  /\ raised \in BOOLEAN /\ discard \in BOOLEAN
  /\ clicks \in Nat /\ passes \in Nat
  /\ picked \in [Matches -> Nat] /\ calls \in [Matches -> Nat]
  /\ finished \in Nat /\ fault \in BOOLEAN

\* Where the thread holds the lock: everywhere but around Extract7z, driver_install and
\* the restore point
Inside == {"select", "download", "downloaded", "restore", "loop", "stage", "try",
           "extracted", "drive", "rescan", "finish", "end", "report"}

\* The critical section belongs to the thread whose program counter is inside it, so the
\* list is never replaced, nor changed by a second installation, under a thread that
\* relies on the lock, until a bad access ends the program (install.cpp, thread_install)
LockOwner == ~fault => \A t \in Threads : pc[t] \in Inside <=> lock = t

\* Whenever the thread goes through itembar, itembar points into the list manager_g has
\* now: the list may have been replaced each time the lock was given up, so the pointer
\* must have been read again since (install.cpp 437, 502)
ItembarFresh ==
  \A t \in Threads :
    pc[t] \in {"loop", "stage", "try", "extracted", "drive"} => loc[t].barGen = gen

\* No access leaves the list or goes through the null hwidmatch or devicematch of a row,
\* whatever is clicked or scanned during an installation (the GUI thread changes rows that
\* the installation walks, and replaces them while it is in a call); a stop is left out,
\* because one that arrives before the first list, or once the loop over the list is over,
\* does write past it (install.cpp 276)
NoBadAccess == fault => mode = "STOPPING"

\* What is selected can be installed: a driver was found and the row is shown.  The
\* installation goes round while anything is selected (install.cpp 534-540) and skips what
\* cannot be installed, so a selected row of another kind would keep it going for ever,
\* with the lock held
SelectionInstallable == \A k \in DOMAIN rows : rows[k].checked => Eligible(rows[k])

\* One driver is selected for a device: Manager::toggle and selectall clear the others,
\* and a replaced list must not bring a second one back
SelectionExclusive ==
  \A j, k \in DOMAIN rows :
    rows[j].checked /\ rows[k].checked /\ rows[j].dev = rows[k].dev => j = k

\* A row that says its driver is installed had it installed: the result of the
\* installation call reaches the row it was made for, although the list may have been
\* replaced meanwhile and itembar_act moved
StatusTruthful ==
  \A k \in DOMAIN rows : rows[k].status \in {"OK", "REBOOT"} => calls[rows[k].match] > 0

\* While a driver is being installed, itembar_act is the row of that driver, if the list
\* still has one: restorepos moves it to the new position when the list is replaced (manager.cpp
\* 1914-1918), and the result is written through it (install.cpp 502)
ActFollowsItem ==
  \A t \in Threads, k \in DOMAIN rows :
    pc[t] \in {"call", "called"} /\ rows[k].match = loc[t].hw /\ ~rows[k].name => act = k

\* A driver is installed no more often than it was selected: goaround, a replaced list or
\* a second pass of the automatic installation does not repeat it
InstalledAsPicked == \A m \in Matches : calls[m] <= picked[m]

\* A replaced list keeps the selection and the result of every driver that is in both
\* lists (comment at manager.cpp 1880: keep when installing drivers, device update)
SameDriver(a, b) == a.match = b.match /\ a.match # NoMatch /\ ~a.name /\ ~b.name

KeepSelection ==
  [][gen' # gen /\ ~discard =>
       \A j \in DOMAIN rows, k \in DOMAIN rows' :
         SameDriver(rows[j], rows'[k]) => /\ rows'[k].checked = rows[j].checked
                                          /\ rows'[k].status = rows[j].status]_vars

\* The completion command and the automatic close come when no installation is going on
\* (cli.txt 100-104)
CompletionAfterInstall ==
  [][finished' # finished => \A t \in Threads : pc[t] = "idle"]_vars

\* When the automatic installation is over, every driver it would recommend was tried, if
\* it was to select them (with "restart when done" it installs what is selected only) and
\* the user did not stop it
NothingForgotten ==
  [][finished' # finished /\ ~reboot /\ mode # "STOPPING" =>
       \A k \in DOMAIN rows : FirstOfGroup(rows, k) => rows[k].status # "none"]_vars

\* An installation that was started ends
InstallEnds == \A t \in Threads : pc[t] = "enter" ~> (pc[t] = "idle" \/ ~Alive)

\* A stop that was asked for ends in MODE_NONE, from which the next installation can start
\* and the window can be closed
StopEnds == mode = "STOPPING" ~> (mode = "NONE" \/ ~Alive)

\* MODE_SCANNING ends: the scan that was requested at the end of the installation arrives
ScanEnds == mode = "SCANNING" ~> (mode # "SCANNING" \/ ~Alive)

\* The automatic installation comes to its completion command, unless the user ends it
AutoinstallCompletes == <>(finished > 0 \/ ~autoinst \/ ~Alive)

============================================================================
