------------------------------ MODULE Library ------------------------------
(***************************************************************************)
(* The library of driver packs on disk: the folder of packs, which the     *)
(* user and the downloads change, the folder of index files that stand for *)
(* them (indexing.cpp, loadindex and saveindex), and the list a scan makes *)
(* of both (Collection::populate and Collection::save).  The queues inside *)
(* populate are those of module Indexing: here a pack is loaded or indexed *)
(* in one step, at any time of the scan.  Of a request (SDI.cpp,           *)
(* invalidate) there are the bit INVALIDATE_INDICES and the event, which   *)
(* go apart: the event starts a scan, the bit decides whether that reads   *)
(* the folder or copies the list on display.                               *)
(***************************************************************************)
EXTENDS Integers, FiniteSets, Sequences

CONSTANTS
  Found,       \* names of archives, in the order FindNextFile returns them
  Sub,         \* those in a subfolder
  Older,       \* Older[p]: the pack an arriving p replaces
  OnTorrent,   \* packs that can be downloaded: they have online indices
  Contents,    \* what can be in an archive
  Inf,         \* what is in the inf files that are in no archive
  Options,     \* the options the program can be started with
  Cores,       \* savedrp_threads
  MaxChanges,  \* bound: changes of the folders
  MaxCrashes   \* bound: ends of the program

\* The entry of the loose files: unpacked.7z, driverpack_list[0]
Loose == "unpacked"

Packs == {Found[k] : k \in DOMAIN Found}

Names == Packs \cup {Loose}

\* keep: -keepunpackedindex.  ext: packs of another folder (drpext_dir).  readonly: index
\* files that cannot be written.  writable: their folder can.  hidden: FLAG_NOGUI and
\* FLAG_AUTOINSTALL
OptionSet ==
  [keep : BOOLEAN, ext : BOOLEAN, writable : BOOLEAN, readonly : SUBSET Names, hidden : BOOLEAN]

ASSUME PackAssumption ==
  /\ Found \in Seq(Packs) /\ \A j, k \in DOMAIN Found : Found[j] = Found[k] => j = k
  /\ Sub \subseteq Packs /\ OnTorrent \subseteq Packs /\ Loose \notin Packs /\ Older \in [Packs -> SUBSET Packs]
  /\ Inf \in Contents /\ Contents \cap {"no", "copying", "empty", "cut"} = {} /\ Options \subseteq OptionSet

ASSUME BoundAssumption == Cores \in Nat \ {0} /\ MaxChanges \in Nat /\ MaxCrashes \in Nat

VARIABLES
  folder,    \* what is in each archive: "no" archive, one that is being written, its content
  bin,       \* the index file of each name
  online,    \* the index file, with "_" before its name, of a pack to download
  opt,
  pc,        \* place of thread_loadall; "saved": it waits, after Collection::save
  indices,   \* INVALIDATE_INDICES in invaidate_set
  event,     \* deviceupdate_event
  force,     \* COLLECTION_FORCE_REINDEXING
  loaded,    \* loaded_unpacked
  seen,      \* how many names scanfolder has visited, the loose files last
  entry,     \* driverpack_list of the shadow bundle: what is in the folder
  offer,     \* and what can be downloaded
  shown,     \* driverpack_list of the bundle on display,
  shownOffer, \* both parts
  moving,    \* moveNewFiles: files it has still to move
  monitor,   \* "on"; monitor_pause: while files are "moving", and until they are "moved"
  changes, crashes,
  touched,   \* history: the folders were changed since the scan of the folder began
  forced,    \* history: that scan reindexes
  harmed,    \* history: packs whose index file or entry was overtaken or cut off
  overlooked \* history: packs whose coming was not reported, or reported when requests are
             \* forgotten

diskVars == <<folder, bin, online>>
signals == <<indices, event>>
moveVars == <<moving, monitor>>
envVars == <<opt, moveVars, changes, crashes>>
listVars == <<entry, offer, shown, shownOffer>>
scanVars == <<pc, force, loaded, seen, listVars>>
history == <<touched, forced, harmed, overlooked>>
vars == <<diskVars, opt, scanVars, signals, moveVars, changes, crashes, history>>

Tables == Contents \cup {"empty", "cut"}

File == [ver : {"none", "old", "now"}, tables : Tables]

NoFile == [ver |-> "none", tables |-> "empty"]

\* A "new" entry is in the queue of loaddrp_thread, an "open" one is being written
Entry == [type : {"absent", "new", "pending", "open", "indexed", "update"}, tables : Tables]

Absent == [type |-> "absent", tables |-> "empty"]

Pending(t) == [type |-> "pending", tables |-> t]

NoEntry == [n \in Names |-> Absent]

NoOffer == [p \in Packs |-> Absent]

Present(p) == folder[p] \in Contents

\* Types of the state
TypeOK ==
  /\ folder \in [Packs -> Contents \cup {"no", "copying"}]
  /\ bin \in [Names -> File] /\ online \in [Packs -> File] /\ opt \in OptionSet
  /\ pc \in {"wait", "begun", "scan", "test", "deliver", "save", "saved"}
  /\ indices \in BOOLEAN /\ event \in BOOLEAN /\ force \in BOOLEAN /\ loaded \in BOOLEAN
  /\ monitor \in {"on", "moving", "moved"} /\ touched \in BOOLEAN /\ forced \in BOOLEAN
  /\ seen \in 0..(Len(Found) + 1) /\ entry \in [Names -> Entry] /\ offer \in [Packs -> Entry]
  /\ shown \in [Names -> Entry] /\ shownOffer \in [Packs -> Entry]
  /\ moving \in [packs : SUBSET Packs, online : SUBSET Packs]
  /\ changes \in 0..MaxChanges /\ crashes \in 0..MaxCrashes
  /\ harmed \subseteq Packs /\ overlooked \subseteq Packs

-----------------------------------------------------------------------------
\* The scanning thread

\* The event is taken
WakeUp ==
  /\ pc \in {"wait", "saved"} /\ event
  /\ pc' = "begun" /\ event' = FALSE
  /\ UNCHANGED <<diskVars, envVars, indices, force, loaded, seen, listVars, history>>

\* The indices are valid: the list on display is copied
Copy ==
  /\ pc = "begun" /\ ~indices
  /\ pc' = "test" /\ entry' = shown /\ offer' = shownOffer
  /\ UNCHANGED <<diskVars, envVars, signals, force, loaded, seen, shown, shownOffer, history>>

\* Slip: the version is not looked at
ValidAny(f) == f.ver # "none" /\ ~opt.ext

\* loadindex and checkindex: a file of this version
Valid(f) == f.ver = "now" /\ ~opt.ext

\* They are not: Collection::populate, up to scanfolder_count.  The flag loaded_unpacked
\* outlives the scan
Start ==
  /\ pc = "begun" /\ indices
  /\ pc' = "scan" /\ seen' = 0
  /\ loaded' = (IF opt.keep THEN Valid(bin[Loose]) ELSE loaded)
  /\ entry' = [NoEntry EXCEPT ![Loose] =
                 IF opt.keep /\ loaded' THEN [type |-> "indexed", tables |-> bin[Loose].tables]
                 ELSE Pending("empty")]
  /\ touched' = FALSE /\ forced' = force /\ overlooked' = {}
  /\ UNCHANGED <<diskVars, envVars, signals, force, offer, shown, shownOffer, harmed>>

\* scanfolder meets the next name
Visit(p) ==
  /\ pc = "scan" /\ seen < Len(Found) /\ p = Found[seen + 1]
  /\ seen' = seen + 1
  /\ entry' = IF folder[p] = "no" \/ (loaded /\ p \in Sub) THEN entry
              ELSE [entry EXCEPT ![p] = [type |-> "new", tables |-> "empty"]]
  /\ UNCHANGED <<diskVars, envVars, signals, pc, force, loaded, offer, shown, shownOffer, history>>

VisitLoose ==
  /\ pc = "scan" /\ seen = Len(Found)
  /\ seen' = seen + 1
  /\ entry' = IF loaded THEN entry ELSE [entry EXCEPT ![Loose].tables = Inf]
  /\ UNCHANGED <<diskVars, envVars, signals, pc, force, loaded, offer, shown, shownOffer, history>>

\* genindex: an archive that cannot be opened gives no driver
Generated(p) == IF Present(p) THEN folder[p] ELSE "empty"

\* Slip: a valid index is always taken
LoadAlways(p) ==
  /\ entry[p].type = "new"
  /\ entry' = [entry EXCEPT ![p] =
                 IF Valid(bin[p]) THEN [type |-> "indexed", tables |-> bin[p].tables]
                 ELSE Pending(Generated(p))]
  /\ UNCHANGED <<diskVars, envVars, signals, pc, force, loaded, seen, offer, shown, shownOffer,
                 history>>

\* loaddrp_thread
Load(p) ==
  /\ entry[p].type = "new"
  /\ entry' = [entry EXCEPT ![p] =
                 IF ~force /\ Valid(bin[p]) THEN [type |-> "indexed", tables |-> bin[p].tables]
                 ELSE Pending(Generated(p))]
  /\ UNCHANGED <<diskVars, envVars, signals, pc, force, loaded, seen, offer, shown, shownOffer,
                 history>>

\* loadOnlineIndices.  It does not look at the file FindFirstFile returns, and it asks for the
\* archive in the folder itself
LoadOnline ==
  LET files == {p \in Packs : online[p].ver # "none"}
  IN  \E first \in IF files = {} THEN {Loose} ELSE files :
        offer' = [p \in Packs |->
                    IF p \notin files \ {first} \/ (folder[p] # "no" /\ p \notin Sub) THEN Absent
                    ELSE IF Valid(online[p]) THEN [type |-> "update", tables |-> online[p].tables]
                    ELSE Pending("empty")]

Populated ==
  /\ pc = "scan" /\ seen = Len(Found) + 1 /\ \A p \in Packs : entry[p].type # "new"
  /\ pc' = "test" /\ LoadOnline /\ force' = FALSE
  /\ UNCHANGED <<diskVars, envVars, signals, loaded, seen, entry, shown, shownOffer, history>>

\* The test of the event after a scan; there is none without a window
Cancelled == event /\ ~opt.hidden

\* What was scanned is thrown away (bundle_init)
Discard == pc' = "wait" /\ entry' = NoEntry /\ offer' = NoOffer

\* Slip: the event is taken when it is tested
CancelTaken ==
  /\ pc = "test" /\ Cancelled /\ Discard /\ event' = FALSE
  /\ UNCHANGED <<diskVars, envVars, indices, force, loaded, seen, shown, shownOffer, history>>

\* A request that came during the scan cancels it.  The bit stays, the event is raised again
Cancel ==
  /\ pc = "test" /\ Cancelled /\ Discard
  /\ UNCHANGED <<diskVars, envVars, signals, force, loaded, seen, shown, shownOffer, history>>

\* WM_BUNDLEREADY is sent
Deliver ==
  /\ pc = "test" /\ ~Cancelled /\ pc' = "deliver"
  /\ UNCHANGED <<diskVars, envVars, signals, force, loaded, seen, listVars, history>>

\* The bundles change places, the new shadow is cleared
Swap == shown' = entry /\ shownOffer' = offer /\ entry' = NoEntry /\ offer' = NoOffer

\* invaidate_set&=~... and restorepos1 clear the bit, whatever was requested since the test.
\* Collection::save begins, if it does anything
TakeOver ==
  /\ pc = "deliver" /\ indices' = FALSE
  /\ IF opt.ext \/ ~opt.writable
     THEN pc' = "wait" /\ Swap
     ELSE /\ pc' = "save"
          /\ entry' = IF opt.keep THEN entry ELSE [entry EXCEPT ![Loose].type = "indexed"]
          /\ UNCHANGED <<offer, shown, shownOffer>>
  /\ UNCHANGED <<diskVars, envVars, event, force, loaded, seen, history>>

-----------------------------------------------------------------------------
\* Collection::save

Opened == {n \in Names : entry[n].type = "open"}
OpenedOnline == {p \in Packs : offer[p].type = "open"}

\* A thread may open one more file
CoreFree == Cardinality(Opened) + Cardinality(OpenedOnline) < Cores

\* saveindex: the file is emptied and begun
Open(n) ==
  /\ pc = "save" /\ CoreFree /\ entry[n].type = "pending" /\ n \notin opt.readonly
  /\ bin' = [bin EXCEPT ![n] = [ver |-> "now", tables |-> "cut"]]
  /\ entry' = [entry EXCEPT ![n].type = "open"]
  /\ UNCHANGED <<folder, online, envVars, signals, pc, force, loaded, seen, offer, shown,
                 shownOffer, history>>

\* and completed
Close(n) ==
  /\ entry[n].type = "open"
  /\ bin' = [bin EXCEPT ![n].tables = entry[n].tables]
  /\ entry' = [entry EXCEPT ![n].type = "indexed"]
  /\ harmed' = harmed \ (IF n \in Packs /\ folder[n] = entry[n].tables THEN {n} ELSE {})
  /\ UNCHANGED <<folder, online, envVars, signals, pc, force, loaded, seen, offer, shown,
                 shownOffer, touched, forced, overlooked>>

\* The same for an index whose version was another one
OpenOnline(p) ==
  /\ pc = "save" /\ CoreFree /\ offer[p].type = "pending"
  /\ online' = [online EXCEPT ![p] = [ver |-> "now", tables |-> "cut"]]
  /\ offer' = [offer EXCEPT ![p].type = "open"]
  /\ UNCHANGED <<folder, bin, envVars, signals, pc, force, loaded, seen, entry, shown, shownOffer,
                 history>>

CloseOnline(p) ==
  /\ offer[p].type = "open"
  /\ online' = [online EXCEPT ![p] = [ver |-> "now", tables |-> offer[p].tables]]
  /\ offer' = [offer EXCEPT ![p].type = "indexed"]
  /\ UNCHANGED <<folder, bin, envVars, signals, pc, force, loaded, seen, entry, shown, shownOffer,
                 history>>

\* The names whose index is kept: the loop begins behind driverpack_list[0]
Belongs == {n \in Names : entry[n].type # "absent" /\ (n = Loose => opt.keep)}

\* All are written, the others are deleted; the list is the one on display
Purge ==
  /\ pc = "save" /\ Opened = {} /\ OpenedOnline = {}
  /\ \A n \in Names : entry[n].type = "pending" => n \in opt.readonly
  /\ \A p \in Packs : offer[p].type # "pending"
  /\ pc' = "saved" /\ Swap
  /\ bin' = [n \in Names |-> IF n \in Belongs \cup opt.readonly THEN bin[n] ELSE NoFile]
  /\ harmed' = harmed \cap (Belongs \cup opt.readonly)
  /\ UNCHANGED <<folder, online, envVars, signals, force, loaded, seen, touched, forced, overlooked>>

-----------------------------------------------------------------------------
\* The folders change

scanState == <<bin, opt, scanVars, crashes>>

\* invalidate(INVALIDATE_INDICES)
Requested == indices' = TRUE /\ event' = TRUE

\* Filemon reports an archive that can be opened, or is gone, unless it is paused.  drp_callback
\* drops the report when it reads sessionpaused while updateTorrentStatus makes it anew
Reported == monitor = "on" /\ Requested

Unreported == UNCHANGED signals

\* scanfolder has visited p
Met(p) == \E k \in DOMAIN Found : k <= seen /\ Found[k] = p

\* A request made now will not have p scanned: the test of the event is over, or there is none
Late(p) == pc = "deliver" \/ (opt.hidden /\ (pc = "test" \/ (pc = "scan" /\ Met(p))))

\* The list behind the rows on the screen (manager_g)
Displayed == IF pc = "save" THEN entry ELSE shown

\* An entry stands for another content
Differs(e, c) == e.type \in {"pending", "open", "indexed"} /\ e.tables # c

\* What is known of p is not what is in it now
Overtaken(p, c) ==
  \/ bin[p].ver = "now" /\ bin[p].tables # c
  \/ Differs(entry[p], c) \/ Differs(Displayed[p], c)

Arrives(p, c) ==
  /\ folder' = [q \in Packs |-> IF q = p THEN c ELSE folder[q]]
  /\ harmed' = IF Overtaken(p, c) THEN harmed \cup {p} ELSE harmed \ {p}
  /\ touched' = TRUE

\* The user copies an archive into the folder
CopyBegins(p) ==
  /\ folder[p] = "no" /\ changes < MaxChanges
  /\ folder' = [folder EXCEPT ![p] = "copying"]
  /\ changes' = changes + 1 /\ touched' = TRUE
  /\ UNCHANGED <<online, signals, scanState, moveVars, forced, harmed, overlooked>>

CopyEnds(p) ==
  /\ folder[p] = "copying"
  /\ \E c \in Contents : Arrives(p, c)
  /\ \/ Reported /\ overlooked' = IF Late(p) THEN overlooked \cup {p} ELSE overlooked
     \/ Unreported /\ overlooked' = overlooked \cup {p}
  /\ UNCHANGED <<online, scanState, moveVars, changes, forced>>

Remove(p) ==
  /\ Present(p) /\ changes < MaxChanges
  /\ folder' = [folder EXCEPT ![p] = "no"] /\ (Reported \/ Unreported)
  /\ changes' = changes + 1 /\ touched' = TRUE
  /\ UNCHANGED <<online, scanState, moveVars, forced, harmed, overlooked>>

\* invalidate, with INVALIDATE_INDICES (F5, another folder) or without (devices, options)
Request ==
  /\ event' = TRUE /\ indices' \in {TRUE, indices}
  /\ UNCHANGED <<diskVars, scanState, moveVars, changes, history>>

\* moveNewFiles of a download.  New indices: the old ones of packs to download are deleted
MoveBegins ==
  /\ monitor = "on" /\ changes < MaxChanges
  /\ \E P \in SUBSET (OnTorrent \ Sub), O \in SUBSET OnTorrent :
       /\ P \cup O # {}
       /\ moving' = [packs |-> P, online |-> O]
       /\ online' = IF O = {} THEN online ELSE [p \in Packs |-> NoFile]
  /\ monitor' = "moving" /\ changes' = changes + 1 /\ touched' = TRUE
  /\ UNCHANGED <<folder, signals, scanState, forced, harmed, overlooked>>

\* removeOldDriverpacks removes an older pack if it is in the list; then the file is moved,
\* unless the archive it replaces is in use
MovePack(p) ==
  /\ p \in moving.packs
  /\ LET old == {q \in Older[p] : Displayed[q].type # "absent"}
     IN  \E c \in Contents :
           \/ /\ folder[p] # "copying"
              /\ folder' = [q \in Packs |-> IF q = p THEN c ELSE IF q \in old THEN "no" ELSE folder[q]]
              /\ harmed' = IF Overtaken(p, c) THEN harmed \cup {p} ELSE harmed \ {p}
              /\ overlooked' = overlooked \cup {p}
           \/ /\ folder[p] # "no"
              /\ folder' = [q \in Packs |-> IF q \in old \ {p} THEN "no" ELSE folder[q]]
              /\ UNCHANGED <<harmed, overlooked>>
  /\ moving' = [moving EXCEPT !.packs = @ \ {p}] /\ touched' = TRUE
  /\ UNCHANGED <<online, signals, scanState, monitor, changes, forced>>

MoveOnline(p) ==
  /\ p \in moving.online
  /\ \E c \in Contents : online' = [online EXCEPT ![p] = [ver |-> "now", tables |-> c]]
  /\ moving' = [moving EXCEPT !.online = @ \ {p}] /\ touched' = TRUE
  /\ UNCHANGED <<folder, signals, scanState, monitor, changes, forced, harmed, overlooked>>

\* thread_download requests a scan if nothing is being installed
MoveEnds ==
  /\ monitor = "moving" /\ moving.packs = {} /\ moving.online = {}
  /\ monitor' = "moved" /\ (Requested \/ UNCHANGED signals)
  /\ UNCHANGED <<diskVars, scanState, moving, changes, history>>

\* monitor_pause=0
Resume ==
  /\ monitor = "moved" /\ monitor' = "on"
  /\ UNCHANGED <<diskVars, signals, scanState, moving, changes, history>>

\* The program ends at any point, and is started again.  A file that was being written is
\* empty or cut off
Crash ==
  /\ crashes < MaxCrashes /\ crashes' = crashes + 1
  /\ \E cut \in SUBSET Opened :
       /\ bin' = [n \in Names |-> IF n \in Opened \ cut THEN [ver |-> "old", tables |-> "cut"] ELSE bin[n]]
       /\ harmed' = (harmed \ (Opened \ cut)) \cup (cut \ {Loose})
  /\ pc' = "wait" /\ Requested /\ force' \in BOOLEAN /\ loaded' = FALSE
  /\ seen' = 0 /\ entry' = NoEntry /\ offer' = NoOffer /\ shown' = NoEntry /\ shownOffer' = NoOffer
  /\ moving' = [packs |-> {}, online |-> {}] /\ monitor' = "on"
  /\ touched' = FALSE /\ forced' = FALSE /\ overlooked' = {}
  /\ UNCHANGED <<folder, online, opt, changes>>

-----------------------------------------------------------------------------
Outdated == [ver |-> "old", tables |-> "empty"]

\* What another session has left behind.  Contents are only compared with others of the same
\* name: one stands for what was there
Init ==
  /\ \E c \in {CHOOSE x \in Contents : TRUE} :
       /\ \E f \in {"no", c} : folder = [p \in Packs |-> f]
       /\ \E f \in {Outdated, [ver |-> "now", tables |-> c]} : bin = [n \in Names |-> f]
       /\ \E f \in {NoFile, Outdated} : online = [p \in Packs |-> f]
  /\ opt \in Options
  /\ pc = "wait" /\ indices = TRUE /\ event = TRUE /\ force \in BOOLEAN /\ loaded = FALSE
  /\ seen = 0 /\ entry = NoEntry /\ offer = NoOffer /\ shown = NoEntry /\ shownOffer = NoOffer
  /\ moving = [packs |-> {}, online |-> {}] /\ monitor = "on" /\ changes = 0 /\ crashes = 0
  /\ touched = FALSE /\ forced = FALSE /\ harmed = {} /\ overlooked = {}

Scan ==
  \/ WakeUp \/ Copy \/ Start \/ VisitLoose \/ Populated \/ Cancel \/ Deliver \/ TakeOver \/ Purge
  \/ \E p \in Packs : Visit(p) \/ Load(p) \/ OpenOnline(p) \/ CloseOnline(p)
  \/ \E n \in Names : Open(n) \/ Close(n)

Copying ==
  \/ MoveEnds \/ Resume
  \/ \E p \in Packs : CopyEnds(p) \/ MovePack(p) \/ MoveOnline(p)

Next ==
  \/ Scan \/ Copying \/ Request \/ MoveBegins \/ Crash
  \/ \E p \in Packs : CopyBegins(p) \/ Remove(p)

Spec == Init /\ [][Next]_vars

-----------------------------------------------------------------------------
\* What the program knows of an archive is what is in it, whatever was loaded, generated,
\* copied or saved before and wherever the program ended (indexing.cpp, loaddrp_thread takes an
\* index for the pack of its name), except for packs that changed under their name after they
\* were indexed, those indexed while they were being copied, and those whose index was being
\* written when the program ended
Faithful ==
  \A p \in Packs \ harmed : Present(p) =>
    /\ ~Differs(entry[p], folder[p]) /\ ~Differs(Displayed[p], folder[p])
    /\ bin[p].ver = "now" /\ entry[p].type # "open" => bin[p].tables = folder[p]

\* In a folder of packs that nobody changed since it was scanned
\* (a) each pack is in the list and has an index of this version, (b) no other index file is
\* there, and (c) after -reindex each index is that of its pack (Collection::save)
SaveCompletes ==
  pc = "saved" /\ ~touched =>
    \A p \in Packs \ opt.readonly :
      IF Present(p) /\ ~(loaded /\ p \in Sub)
      THEN /\ shown[p].type = "indexed" /\ bin[p].ver = "now"
           /\ forced => p \notin harmed
      ELSE bin[p].ver = "none" \/ folder[p] = "copying"

\* No archive stays out of the list on display, however its copying, the scans, requests of
\* others, the downloads and ends of the program interleave: when the thread waits and nobody
\* has woken it, the archive is listed (model.cpp, thread_loadall).  Except packs in a
\* subfolder beside loaded loose files, and those whose coming was not reported, or reported
\* between the test of the event and the end of restorepos1 (model.cpp 104, manager.cpp 1829),
\* without a window after the scan had passed them
Noticed ==
  pc \in {"wait", "saved"} /\ ~event =>
    \A p \in Packs \ overlooked :
      Present(p) => shown[p].type # "absent" \/ (loaded /\ p \in Sub)

\* Online indices of missing packs are loaded ("load online indices for DriverPacks that is
\* missing", indexing.cpp 550-551)
OnlineLoaded ==
  pc = "save" /\ ~touched =>
    \A p \in Packs : Valid(online[p]) /\ folder[p] = "no" => offer[p].type = "update"

=============================================================================
