# Snappy Driver Installer: a verification project

TLA+ models of the parts of Snappy Driver Installer (SDI) in which several
threads, long sequences of events or the order of a computation decide whether
the program is right, with TLC runs that check them on small instances and
TLAPS proofs for every value of the constants.  File names without a path are
those of `src/src/`; `SDI.cpp` is the entry that is modelled (`main.cpp` is a
near-duplicate of it).

    tlc -config MCInstaller_session.cfg MCInstaller     # a run: <module>_<name>.cfg
    tlapm InstallerProofs.tla                           # the proofs of a module

1. [The system](#1-the-system)
2. [The modules and the code](#2-the-modules-and-the-code)
3. [The runs](#3-the-runs)
4. [Fairness](#4-fairness)
5. [The proofs](#5-the-proofs)
6. [Where code and documents disagree](#6-where-code-and-documents-disagree)
7. [Known restrictions](#7-known-restrictions)
8. [What is not modelled](#8-what-is-not-modelled)
9. [Plan](#9-plan)

## 1. The system

SDI scans the devices of a Windows computer, indexes a folder of driver packs
(7-Zip archives), matches the two, shows a list with the best driver for each
device, and installs what the user selects, or everything it recommends
(`-autoinstall`).

| Part | Source | State it keeps | Operations |
|---|---|---|---|
| Installation thread | `install.cpp` | `installmode`, `instflag`, `itembar_act`, counters, a pointer `itembar` into the list and `hwidmatch` | `thread_install`: download, restore point, extract, call the installation API, go round until nothing is selected |
| Driver list | `manager.cpp` | `items_list`: for each row the match, the group, `isactive`, `checked`, `install_status` | `populate`, `filter`, `toggle`, `selectall`, `selectnone`, `expand`, `clear`, `restorepos1`, `restorepos` |
| GUI thread | `SDI.cpp`, `gui.cpp` | `manager_g` (which of two lists is shown), FLAG_AUTOINSTALL | message handlers: clicks, `WM_BUNDLEREADY`, `WM_CLOSE`, device and file events |
| Device update | `model.cpp`, `SDI.cpp` | `bundle[2]`, `bundle_display`/`bundle_shadow`, `invaidate_set`, `deviceupdate_event`, `deviceupdate_exitflag` | `invalidate`, `thread_loadall`, `bundle_init`, `bundle_load` |
| Indexing | `indexing.cpp` | `driverpack_list`, the queues of packs, jobs and files, the tables of a pack | `populate`, `loaddrp_thread`, `indexinf_thread`, `genindex`, `genhashes` |
| Library | `indexing.cpp`, `update.cpp`, `system.cpp` | on disk: the packs, an index file for each of them, those of packs to download | `scanfolder`, `loadindex`, `saveindex`, `loadOnlineIndices`, `Collection::save`, `moveNewFiles`, `drp_callback` |
| Matching | `matcher.cpp`, `enum.cpp` | `devicematch_list`, `hwidmatch_list` with scores and statuses | `findHWIDs`, `calc_status`, `sort`, `cmp`, and `Manager::filter` on the result |
| Updater | `update.cpp` | the torrent session, `downloadmangar_exitflag` and its event, `finishedupdating`, `seed_mode` | `thread_download`, `checkUpdates`, `resumeDownloading`, the destructor, `ResetUpdater`, seeding |
| Scripts | `script.cpp` | a line number, parameters | a command per line, each drives one of the other parts and waits for it |
| Hash tables | `SDI.cpp` 1330-1480 | `items`, with chains through `next` | `reset`, `additem`, `find`, `findnext` |
| Enumeration | `enum.cpp`, `baseboard.cpp` | `State`: devices, drivers, Windows' version | scan, save and load a snapshot |
| Settings | `settings.cpp`, `cli.cpp` | options | parse, load, save |
| Windows | `draw.cpp`, `theme*.cpp`, `langlist.cpp`, `stdlg.cpp`, `usbwizard.cpp` | layout, fonts, texts | painting, dialogs, the USB wizard |
| Helpers | `system.cpp`, `utils/*.cpp`, `net.cpp`, `log.cpp`, `stdfn.cpp`, `version.cpp` | none the others depend on | files, strings, events, threads |

### How they interact

    devices, files, a finished installation
            | invalidate(bits): invaidate_set |= bits, raise the event
            v
    thread_loadall --- bundle_load: copy what is valid, scan what is not,
            |            Collection::populate (indexing), matching
            | SendMessage(WM_BUNDLEREADY): waits for the GUI thread
            v
    GUI thread --- takes the lock `sync'; populate, filter, restorepos: a new list
            |      takes over selection, results and itembar_act of the old one
            | starts                      ^ a click edits the list WITHOUT the lock
            v                             |
    thread_install: holds `sync' except around Extract7z, the installation API
            |       and the restore point; ends with invalidate(DEVICES)
            | resumeDownloading, then polls isUpdateCompleted
            v
    thread_download --- one int (what it shall do, what it did), one event;
            |           written by the GUI thread, a script, the scanning thread
            | moveNewFiles: packs and index files; asks for a scan
            v
    the folders on disk <--- a scan: loadindex, Collection::save
                        <--- the user copies and removes packs

### What is hard

- **A list that is replaced under the installation.**  The thread gives up the
  lock around every long call; meanwhile `WM_BUNDLEREADY` may replace the list
  and move `itembar_act`.  Everything read before the call is stale after it.
- **Edits without the lock.**  Clicks change `checked`, `isactive` and
  `install_status` of rows the installation thread walks.
- **Modes.**  `installmode` is set by the thread after it has the lock, tested by
  clicks, by the close button and by `restorepos1`, which also decides when an
  automatic installation is over.
- **One int of request bits**, set by two threads, tested twice and cleared by
  two others, with `|=`, `&=` and `=` and no lock; and an event that wakes,
  cancels and restarts a scan.
- **Queues with one auto-reset event each**, and end markers counted per thread.
- **One int for command and answer.**  `downloadmangar_exitflag` says what the
  download thread shall do and what it has done; four threads write it, without
  a lock and without looking at what it was.
- **Files that stand for other files.**  An index file is taken for its pack
  because of its name and version; packs change, index files are written by
  several threads, and the program may end in between.
- **Chains inside an array** that grows behind its slots, with 0 and -1 for free
  and last.
- **A long computation whose steps rely on each other**: score, sort, mark
  duplicates, filter; and its result is installed and matched again.

What makes each part correct: the installation works on the current list, tries
what was selected and nothing else, reports truthfully, and ends; a scan on
display is whole and what was requested is scanned; every file of a pack is in
its tables before they are hashed, and indexing ends; what is known of a pack is
what is in it, and a pack whose coming was reported is listed; what a script is told was downloaded
is there, and nobody waits for a download for ever; a search in a hash table
finds every position of an id; what is recommended is an
improvement, the best one, and recommending comes to an end.  The places where
each of these can go wrong are listed, with their lines, as hazards in
`PROJECT.json`.

## 2. The modules and the code

`PROJECT.json` maps every definition to the lines it stands for.  Definitions
keep the names of the source where they can.  An action is a handler, or the
part of a thread between two points at which another thread can see or change
what it works on.  Some operators come right before the one they are a variant
of (`PopNewest` before `Pop`, `AltScoreOfAny` before `AltScore`): they write down
the slip a property is there to catch, and no specification uses them.

| Module | Models | Uses |
|---|---|---|
| `Installer` | `thread_install`, the list, the GUI thread's handlers | |
| `InstallerProofs`, `InstallerListProofs` | theorems about it | `Installer` |
| `DeviceUpdate` | `invalidate`, `thread_loadall`, `bundle_init`, `bundle_load`, `WM_BUNDLEREADY` | |
| `DeviceUpdateProofs` | theorems about it | `DeviceUpdate` |
| `Indexing` | `Collection::populate`, its two kinds of threads, `concurrent_queue` | |
| `IndexingProofs` | theorems about it | `Indexing` |
| `Library` | packs and index files on disk, and what scans, downloads and the user do to them | |
| `LibraryProofs` | theorems about it | `Library` |
| `Matcher` | scores, `MatcherImp::sort`, `Manager::filter`, install and match again | |
| `MatcherProofs` | theorems about it | `Matcher` |
| `Updater` | `thread_download`, those who steer it, the waits of scripts | |
| `UpdaterProofs` | theorems about it | `Updater` |
| `HwidIndex` | abstract: an index of ids as the list of their codes | |
| `Hashtable` | the hash table of a pack, as `genhashes` and `findHWIDs` use it | `HwidIndex` |
| `HashtableProofs` | theorems about it, and that it implements `HwidIndex` | `Hashtable` |
| `MC...` | values of the constants for TLC | their module |

### Installer

`rows` is `items_list` from `RES_SLOTS` on: position p is index p + 12, so that
`SLOT_RESTORE_POINT` is 0 and `SLOT_EMPTY` is -13, which is also what
`itembar_act` holds when nothing is being installed.  `slot` is the status of
`SLOT_EXTRACTING` (the progress line), `rp` the restore point's checkbox.  The
thread's `pc` names the place, `loc` its locals: `bar` is `itembar` with the list
it points into (`barGen`), `hw` is `hwidmatch` with the list it came from.

| Action | Code |
|---|---|
| `Spawn`, `Enter` | `Manager::install` starts it (manager.cpp:1031); the thread takes the lock, then sets the mode |
| `SelectDownloads`, `AwaitDownload`, `Downloaded` | selection of what is on the torrent (a stop may leave `itembar` anywhere in the list), the wait for it inside the lock, the row after it |
| `RestorePoint`, `RestorePointDone` | the restore point, made outside the lock |
| `NextItem`, `Stage`, `TryExtract`, `Extracted`, `AfterExtract` | the loop over the list, the choice of what to extract with it, `Extract7z` outside the lock |
| `Drive`, `CallInstall`, `Installed` | `driver_install` outside the lock, and its result through `itembar_act` |
| `Rescan`, `Finish`, `End`, `Report` | `goaround`; the three tests of the mode at the end (install.cpp 567, 572, 576), between which the user may stop it; `Leave` gives up the lock and calls `invalidate` |
| `Click...`, `Answer` | clicks on the list, on install, on the options, on the progress row, on close |
| `BundleArrives`, `BundleSwap`, `AfterSwap` | `WM_BUNDLEREADY`: wait for the lock; populate, filter, `restorepos1`, `restorepos` (one action, as the code does it inside the lock); the second half, outside it, which may start the next pass |
| `ExternalChange`, `DownloadEnds` | device events; what the updater does, as far as `install.cpp` sees it |

An access through a stale or null pointer, or out of the list, sets `fault` and
stops the program: what follows is undefined.  The counters `installed` and
`failed` only choose texts and are left out.

`restorepos` is the part with the most detail: `Source` is the old row a new row
takes its state from (`FirstSame`, then `FirstFree`, in the order of the code's
loops, each old row once), `Remap` follows `itembar_act`.  `Invalid` are the drivers
whose status is STATUS_INVALID, which `expand` looks at.

### DeviceUpdate

The world has a version per category (devices, system information, indices)
which each request advances; a bundle holds, per category, the versions read
into it.  `|=` and `&=` on `invaidate_set` are a read and a write, as the build
may do them; `torn` records that one of them undid what another thread did.
`ui` is the way the program was started: with a window, with one that is not
shown (`FLAG_NOGUI` and `FLAG_AUTOINSTALL`), or with none; `AutoEnds` is the end of the automatic
installation, at which `FLAG_AUTOINSTALL` is cleared (manager.cpp:1849).  The file
monitor's `drp_callback` runs on the GUI thread.  `Requesters` are the GUI thread and any
others, which may ask at any moment: in the code the installation thread and
`thread_download` (update.cpp:2001); TLC has one of them.

### Indexing

Each queue has its content, and whether its event is signalled; `wait` is the
place of a thread in `wait_and_pop` (unlocked because it found the queue empty,
then asleep), `post` the queue whose event a thread in `push` still has to set
after it released the mutex.  `SetEvent` wakes one sleeper or stays signalled.
What is parsed is a count.  That `driverpack_list`, whose elements the queues point to, does
not grow beyond what was reserved for it is taken for granted (section 7).

### Library

`folder` is what is in each archive (nothing, one that is being copied, or a
content), `bin` the index file of each name, `online` the index file of a pack that can be
downloaded (its name begins with `_`).  `entry` and `offer` are the list a scan makes
(`driverpack_list` of the shadow bundle), `shown` and `shownOffer` the one on display.
The queues inside `populate` are those of `Indexing`; here each pack is loaded or indexed
in one step (`Load`), at any time between the visit of its name and the end of the scan.

A request is two things that go apart: the bit INVALIDATE_INDICES (`indices`) and the event
(`event`).  The event starts a scan; the bit decides whether that reads the folder or
copies the list on display; and the bit is cleared, whenever it was set, when a scan
is taken over.

| Action | Code |
|---|---|
| `WakeUp`, `Copy` | `thread_loadall` takes the event; the indices are valid: `collection=pbundle->collection` |
| `Start`, `Visit`, `VisitLoose`, `Load`, `Populated` | they are not: `populate`, `scanfolder` name by name, `loaddrp_thread` with `loadindex` or `genindex`, `loadOnlineIndices` |
| `Cancel`, `Deliver`, `TakeOver` | the test of the event after a scan, which there is only with a window; the message to the GUI thread; `restorepos1` clears the bits |
| `Open`, `Close`, `OpenOnline`, `CloseOnline`, `Purge` | `Collection::save`: each thread empties a file, writes it, and what belongs to no pack is deleted at the end; the bundles change places |
| `CopyBegins`, `CopyEnds`, `Remove` | the user; `drp_callback`, which may drop the report |
| `Request` | any other request, with the bit or without |
| `MoveBegins`, `MovePack`, `MoveOnline`, `MoveEnds`, `Resume` | `moveNewFiles`, with `removeOldDriverpacks` and the paused monitor; a scan is requested, or not; the monitor goes on |
| `Crash` | the program ends at any point and is started again: index files that were open are cut off, with or without the version already in them |

Version and tables of an index file are written apart, as `saveindex` does it:
that is what makes a cut file one that is loaded.  `harmed` records the packs
whose index was overtaken by a change under the same name, or cut off; `overlooked`
those whose coming was not reported, or reported when the code forgets it (`Late`).

### Updater

`flag` is `downloadmangar_exitflag`, `raised` its event (a manual-reset one),
`dl` the place of `thread_download`, `pc` those of the main thread (GUI or
script) and of the installation thread as far as it uses the updater.
libtorrent is external: a session is paused, running or aborted, the torrent
file is there or not, a file with a priority arrives while it runs (`Arrive`).

| Action | Code |
|---|---|
| `Start`, `Fetch`, `Got`, `Notify` | `thread_download` up to its outer loop: `downloadTorrent` succeeds, fails or throws |
| `Wake`, `Status`, `Move`, `Report`, `Leave`, `PauseSession`, `Reset`, `Close` | the two loops: asked for data, finished, move the files, say so, pause, reset the event, end |
| `NoTorrent`, `Request`, `Run` | `resumeDownloading`, in the steps the thread can come between |
| `Install`, `InstallEnd` | the installation thread: asks for a pack, polls `isUpdateCompleted` |
| `LowPriority` | `bundle_lowpriority` at the end of a scan: `checkUpdates` |
| `User...`, `Rescan`, `OnTorrent`, `OnTimer` | the dialogs, seeding, `ResetUpdater`, the end of the program |
| `Join` | what the destructor waits for, and the new updater |
| `Command`, `Wait`, `CheckEnd`, `GetEnd`, `InstWait` | the script's commands and the three loops in which they wait |

The test of the flag and the wait for the event are two steps, as in the code.

### HwidIndex and Hashtable

`HwidIndex` is what the matcher expects: a list of codes; `Find` answers with the
first position of a code, `FindNext` with each following one.  `Hashtable` has the
array: slots first, then the items that found their slot taken, linked through
`next`, in which 0 is free and -1 last.  One iteration of a loop is one action
(`Walk`, `Fill`, `Chain` in `additem`; `Hit`, `Follow`, `Miss` in `find` and
`findnext`).  The cursor of `findnext` is left alone by `loaddata`, so that it is
anything after it (`Load`).  `ImplementsIndex` is the refinement: `INSTANCE
HwidIndex` with `codes` the codes of the ids added so far.  The hash function and
the slot of a code are parameters.

### Matcher

One device.  An offer is a `Hwidmatch` with its texts reduced to what the code
finds in them: the catalogs it names, whether the section is `.nt`, the
decoration of its section and of all of the same maker, whether its path has
`feature_`.  Steps of the code's loops are steps of the model: `Find`, then
`Compare` and `Exchange` for the inner and the outer loop of the selection sort,
`MarkDups`, `FilterRow`, `Show`; then the user installs a row that is active
(`Install`), which gives the device the driver `DriverOf` that offer, and the
device is matched again (`Rescan`).  Scores are pairs `hi`, `lo` of 16 bits,
because they exceed TLC's integers.

## 3. The runs

Twelve runs; each prints what it found when it is started as shown above.

| Run | Module | Question | Distinct states |
|---|---|---|---|
| `layouts` | Installer | what happens to lock, list and selection when devices and packs come and go? | 589 thousand |
| `session` | Installer | any use of the list during an installation | 178 thousand |
| `auto` | Installer | does an automatic installation end, after everything was tried? | 51 thousand |
| `scans` | DeviceUpdate | requests at every moment of a scan | 624 thousand |
| `packs` | Indexing | every interleaving of two packs and four threads | 952 thousand |
| `offers` | Matcher | every order of up to three of ten drivers | 400 thousand |
| `downloads` | Updater | everybody who steers the download thread, at any moment | 534 thousand |
| `hash` | Hashtable | every list of up to four ids, with collisions | 813 thousand |
| `library` | Library | packs, index files and requests come during scans, saves and downloads, the program ends anywhere | 2.5 million |
| `lost` | DeviceUpdate | is what was requested shown? **violated** | |
| `autoupdate` | Updater | does `-autoupdate` download? **violated** | |
| `online` | Library | are online indices of missing packs loaded? **violated** | |

What the properties of the passing runs say:

- **layouts**: `LockOwner` (a thread is inside the critical section exactly when
  it owns it), `ItembarFresh` (whenever the thread goes through `itembar`, it
  points into the current list); two threads, because a second click may come
  before the first thread has the lock and sets the mode.
  `SelectionInstallable` (what is selected can be installed: otherwise `goaround`
  would never end), `SelectionExclusive` (one driver per device),
  `KeepSelection` (a replaced list keeps selection and result of every driver that
  is in both).  Four layouts: a device plugged in before or after another one, a
  pack removed and put back; two rows for each driver and two drivers for one
  device.
- **session**: `NoBadAccess`, `StatusTruthful` (a row says *installed* only if
  that driver was), `ActFollowsItem` (while a driver is installed, `itembar_act`
  is its row, in whichever list), `InstalledAsPicked` (no driver is installed
  more often than it was selected).  One layout, with rescans, filter changes,
  reloads, stops and selections at any moment.
- **auto**: `NothingForgotten` (an automatic installation that the user does not stop is over
  only when everything it would recommend was tried), `CompletionAfterInstall`, `AutoinstallCompletes`,
  `InstallEnds`, `StopEnds`, `ScanEnds`.
- **scans**: `WholeScan` (a list on display lacks no category, unless the data
  race lost a bit), `DisplaySafe` (nobody changes the bundle on display),
  `NoSleepOnRequest`, `Settles`, `LoaderEnds`.
- **packs**: `Indexed` (`IndexedWhole`: when `populate` returns, no pack and no file
  that was unpacked is left out; `HashedLast`: the hash table is made once, after
  the last file; `OneIndexer`: one thread parses a pack),
  `EndsOrStranded` (populate returns, unless a wake-up is lost, see section 7).
- **offers**: `Sorted`, `DupsRepresented` (of a driver and its twins exactly one
  is not marked, the best), `Improves` (nothing worse is recommended, and
  nothing of the same rank that is not newer), `RecommendsBest`, `OneChoice` (one
  row, or two of which one has to be downloaded), `ReofferEnds` (install what is
  recommended, match again: this comes to an end).
- **downloads**: `GetTruthful` (a script's `get` that succeeds has installed every
  file it asked for); `DeleteEnds`, `PollEnds`, `ScriptEnds`: who waits for ever, in
  the destructor, in the poll of the installation or in a command, waits for one
  of the reasons the property names.  There are such reasons in the code
  (section 7); the properties say that there are no others.
- **hash**: `FindsAll` (a search has found every position of a code),
  `ImplementsIndex` (and each once, in order), `LookupEnds`.
- **library**: `Faithful` (what is loaded, generated or saved for a pack is what is in
  it, except for packs that changed under their name and indices that were cut
  off), `SaveCompletes` (after `Collection::save` each pack has its index file, made
  anew after `-reindex`, and no other file is left), `Noticed` (when the scanning thread
  waits and nothing has woken it, every pack in the folder is in the list on display,
  except for the lost reports of section 7).

The type invariants of `DeviceUpdate`, `Indexing`, `Matcher`, `Updater`, `Hashtable`
and `Library` are proved (section 5) and not run again.

### The bounds, and why they are enough

- *Installer*: `MaxClicks` is 2 to 4 user actions, `MaxPasses` at most one scan from
  outside; each installation adds a scan of its own.  A hazard here needs a
  click that starts, one or two that edit or stop, and one list that is
  replaced; two replaced lists come about with the scan at the end of the
  installation.  `layouts` has two clicks, of every kind; all its properties are
  proved for any number (section 5).  `auto` has no *restart when done*: see
  section 7 for what it does together with a stop.  The layouts have two devices with a driver and one without:
  one row to be remapped, one to be taken for it, one that is neither.
- *DeviceUpdate*: two requests (one cancels a scan, one comes after it), one
  installation that holds the lock.
- *Indexing*: a pack with one file and one without; two threads of each kind, so
  that a wake-up can go to the wrong one.
- *Updater*: two files, one of which the installation needs, so that one may be
  there and the other not; two deeds of the user, or of a user next to
  `-autoupdate`, four commands of a script (check, get, install, and another
  torrent between them).  Each wait the code can get stuck in needs at most
  two deeds.
- *Hashtable*: four ids of three codes in one or two slots: a chain of up to four
  items, two codes in one chain, a code found three times, and a table that is
  built again over a longer and a shorter list.
- *Library*: a pack which a download replaces under its name, and one in a subfolder;
  two contents, so that an index can be of the wrong one; one change by the user or a
  download, one end of the program, and any number of other requests; two threads
  that write.  An index that is stale needs a change and a save, one that is cut off an
  end of the program, and a pack that is overlooked a change during a scan, with the
  requests around it.  The theorems of section 5 have any number of each.  The four sets
  of options are the default, `-keepunpackedindex` with an index file that cannot be
  written, packs of another folder, and an index folder that cannot be written together
  with the automatic mode without a window.
- *Matcher*: three drivers are enough for a duplicate, a better one and one to
  download, in every order, and for a cycle of recommendations of length two
  and three.  The ten offers differ in one or two things each: signature, date,
  id, feature, decoration, pack, extension.

Deadlock is not checked where the system rests by design: nobody has to click,
and the threads end.

## 4. Fairness

Only what the operating system and the external calls owe.

- `Installer!FairSpec`: each thread runs (weak fairness; a free critical section
  is obtained), extraction, installation call, restore point and download come to
  an end, a requested scan is delivered, and a modal box that is open is
  answered.  The user owes no click.
- `DeviceUpdate!FairSpec`: weak fairness of the scanning thread, the GUI thread
  and the requesters' steps.  Taking the critical section has strong fairness
  (`SwapBundles`, `TakeBundle`): others take it again and again, and a thread that
  waits for a Windows critical section is let in between.  Nobody has to
  request or close anything.
- `Indexing!FairSpec`: weak fairness of each thread.  A thread asleep on an event
  that is not signalled is not enabled: a lost wake-up remains one.
- `Updater!FairSpec`: the download thread, the main thread, the installation thread, the
  scanning thread and a script that waits run; libtorrent completes a file it is
  asked for while its session runs.  The user owes no deed and a script no
  further command.
- `Hashtable!FairSpec`: the loops go on; nobody has to search or fill.
- `Library` has safety properties only.
- `Matcher` needs none: `ReofferEnds` is a property of finitely many
  recommendations.

## 5. The proofs

All theorems hold for every value of the constants; they use the assumptions
stated in the modules (`MatchAssumption`, `ThreadAssumption`, `RequestAssumption`,
`OfferAssumption`, `PackAssumption` and their like, and the bounds being numbers),
which TLC evaluates in each run.  The bounds on clicks, passes and requests are arbitrary
numbers there, so that what is proved holds for sessions of any length.

**InstallerProofs**
- `TypeCorrect`: `TypeOK`.  Inductive as it stands, once lemmas say that `Populate`,
  `Filter`, `Restore`, `Expand`, `SelectAll`, `Toggled`... make lists of rows.
- `Exclusive`: `LockOwner`, inductive with `TypeOK`: whoever enters the critical
  section takes a free lock, and whoever leaves gives up its own.
- `Fresh`: `ItembarFresh`.  Needs both: while a thread is inside, it has the lock,
  hence `BundleSwap`, the only action that changes `gen`, is not enabled; and each
  action that comes back inside reads `itembar` again (`Refetch`, install.cpp 437
  and 502).  This is the argument that makes the lines after the long calls safe.

- `CompletionInTurn`, `NothingLeftOut`: `CompletionAfterInstall` and `NothingForgotten`,
  for any number of threads, rounds and clicks, when the session is `Undisturbed`: no
  scan is requested but by the end of an installation, none is started by hand, and
  *restart when done* is not used next to the progress panel.  TLC finds the properties
  violated when any of these conditions is dropped (section 7).  The invariant is `InTurn`:
  a scan is requested or delivered only while no thread exists, unless the user has
  stopped the installation for good (`Over`), and there is one thread at most (`Turns`);
  the mode is that of an installation when the thread is inside (`ModeFits`);
  the progress panel has nothing to clear when a scan is about to start an automatic
  installation, or a click on it would request another scan (`SlotFits`).

**InstallerListProofs**, about what the list keeps
- `SelectionKept`, `Installable`, `OnePerDevice`, `SelectionCarried`: `SelectionInstallable`,
  `SelectionExclusive` and `KeepSelection`, for any number of threads, rows, layouts and
  clicks, when the lists are `Distinct`: `HWID_index` tells drivers apart, a driver has
  its two rows and one device, and the label of a device without a driver is its own.
  TLC evaluates `Distinct` for the layouts of every run (`ListsAssumption`); the code does
  not ensure it, and without it the properties are false (section 7).  The invariant is
  `Selection`: the list is one a scan has found, what is selected is a driver's row and
  shown, and alone for its device.  The core is about `restorepos`: `SourceOfDriver`, the
  rows of a driver take their own old rows, because the name of the pack, which is above
  it, takes the first; and `SourceOfSelected`, nothing else takes a driver's row: a
  device that lost its driver takes the row with the name, or none.
- `Source` and `Remap` are loops over the list, written as recursive functions.  `Least`
  (the least number principle, from the library's well-founded induction), `LoopExists` and
  `LoopUnique` are proved for such loops in general; `SourceLoop` and `RemapLoop` then say
  what one turn does, and the rest is about turns.
- `ThreadFollows`, `ActFollows`: `ActFollowsItem`, in a `Session`: the lists are `Distinct`,
  there is one thread, and every scan finds the same rows.  The invariant is `Following`:
  while the thread works on an item, `itembar_act`, `itembar` and `i` are one position,
  that of a driver's row, and `hwidmatch` is its driver.  The list may be replaced in
  each call: `RemapDriver` says that `itembar_act` finds the row again, although it is
  compared again after each move.
- `AccessesGood`: `NoBadAccess`, in a `Session` in which no restore point is asked for;
  from `Following` and `NoRestore`.
- `InstalledWhenPicked`: `InstalledAsPicked`, in a `Session`.  `Counted` adds one to the
  installations of a driver that is selected or in the call, and compares that with the
  times it was selected: an item that is in the call is selected no more once its
  result is shown, and was selected once for it.
- `ResultsTrue`: `StatusTruthful`, in a `Session` in which no automatic installation is asked
  for, by `-autoinstall` or by *restart when done*: with one, MODE_NONE may come during
  a call, which then counts as a success (install.cpp 497; `MCInstaller_completion`).
  The invariant `Reported`: the mode is that of an installation while the thread runs
  (`Going`), after a call that a stop did not prevent the driver was installed (`Told`),
  and rows that are done are rows of installed drivers (`Truth`), which the edits keep
  (`NoNews`) and a replaced list hands to the same driver (`SwapTruth`).

**DeviceUpdateProofs**
- `UpdateTypes`, `ScanIsWhole`, `NoRequestSlept`, `DisplayUntouched`: `TypeOK`,
  `WholeScan`, `NoSleepOnRequest`, `DisplaySafe`.  `Invariance` is the induction,
  over `TypeOK` and
  - `WindowInv`: when a window exists, and who may be inside a handler;
  - `PlaceInv`: which bundle the list is made of, at each place of the thread;
  - `DataInv`: unless a write was undone, a category that is not marked as invalid
    is in the bundle on display, and one that was copied or scanned is in the
    other bundle;
  - `BitsInv`: from the moment the bits are cleared, with nothing raised and no
    requester between `|=` and the event, no category is marked as invalid;
  - `WholeScan` itself.
  `WholeScan` alone is not inductive: that a list is whole follows from what the
  thread had done to the shadow bundle before the two changed places.

**MatcherProofs**
- `TypeCorrect`, `ListSorted`, `TwinStays`, `OnlyImprovements`, `OneRecommended`,
  `BestRecommended`: every safety property of `Matcher`, for lists of any length
  and drivers of any kind.  `CmpTransitive` and `CmpTotal` say that `cmp` is an
  order at all: it compares an alternative score, the score, the date, the
  decoration, the marker and the status in turn, and the loops rely on it.
  - `SortInv`: the loop invariant of the selection sort: the list is a permutation
    of what was found, what is before `i` is in order and comes before everything
    behind it, and `best` is the best from `i` to `j - 1`.
  - `DupsMarked`: what `MarkDups` marked is `LaterTwins`; that each group keeps its
    first follows by well-founded induction on positions.
  - `ShownInv`, `CountInv`, `BestInv`: what the filter loop has shown, counted and
    gone past so far.  `BestInv` says that a wished driver that was gone past has an
    active row at or before it, and needs `SortInv`: the loop stops at the
    current driver, and only the order says that nothing better is behind.

**IndexingProofs**
- `TypeInvariant`, `PacksIndexed`: `TypeOK` and `Indexed`, for any packs, files and
  threads, in a build whose queues have no limit (`~Bounded`: the 64-bit one;
  with a limit `push` drops what does not fit, and both are false).  The invariant
  follows a pack through the queues:
  - `PlaceInv`, `EndInv`: where main and the threads are; no loader has ended while a
    pack is in the queue, and no parsing thread while a job is, because the end
    markers are behind all the work;
  - `BeginInv`: a pack that is still to be looked at is in one place and untouched;
  - `JobInv`: `objs_new` of a pack exists from the moment its job is pushed until the
    thread that took it, which is the only one, deletes it;
  - `FileInv`: each file that was sent is parsed or in the queue, in which the end
    marker is the last;
  - `WholeInv`: no pack is left behind.
  It rests on `PushEffect` and `PopEffect`: what `push` and `wait_and_pop` do to
  membership, order and markers of a queue.

**LibraryProofs**
- `TypeInvariant`, `LibraryFaithful`, `LibraryNoticed`, `LibrarySaved`: `TypeOK`, `Faithful`,
  `Noticed`, `SaveCompletes`, for any packs, contents, options and number of
  changes and ends of the program.  The induction is over all of them and
  - `PlaceInv`: files are written, and archives are loaded, at their time only, and the
    shadow bundle is empty between scans;
  - `NoticedInv`: for each place of the thread, a pack that is not overlooked is in the list
    the next display will have, or the bit and the event are both there (`In`).  That
    both are there together is not kept by itself: `Copy` and `TakeOver` separate
    them, and the invariant says for which packs that does no harm;
  - `ListInv`, `GeneratedInv`, `FilesInv`, `ForcedInv`: as long as the folders do not
    change, the list of the scan, and the one on display while it is `Current`, is that
    of the folder (`Unlisted`: of no other pack), what is generated is the content of
    its archive, what is indexed has its file, and with `-reindex` nothing was
    taken from an old one.

**UpdaterProofs**
- `TypeInvariant`, `UpdaterGets`: `TypeOK` and `GetTruthful`, for any files, and any number
  of deeds and commands.  `ScriptInv` says where script, installation and download
  thread can be together (`ScriptPlaces`, `ThreadPlaces`), who still waits where the
  flag asks for something (`FlagOwners`), and that what a script asked for has a
  priority, then is in the folder *update*, then installed (`OnItsWay`).

**HashtableProofs**
- `TableInvariant`: `TypeOK`, `Stored`, `Chained` and `FindsAll`, for any ids and codes, in
  any number: items of a slot are linked in the order they were added, so that what a
  search has still to find lies behind its cursor.
- `TableImplementsIndex`: `Spec => ImplementsIndex`: each step of a loop is a step of
  `HwidIndex` or none; a hit is the smallest position that was not yet found.

**Only model-checked**: all liveness (`InstallEnds`, `StopEnds`, `ScanEnds`,
`AutoinstallCompletes`, `Settles`, `LoaderEnds`, `EndsOrStranded`, `ReofferEnds`,
`DeleteEnds`, `PollEnds`, `ScriptEnds`, `LookupEnds`), which is out of this prover's
reach.  Every safety and action property of a passing run is stated by a theorem, those
of `Installer` under the hypotheses named above where the property is false without
them.

## 6. Where code and documents disagree

| Run | What the code does | What is said of it |
|---|---|---|
| `lost` | `restorepos1` clears every bit (manager.cpp:1829), also those set since the scan looked; the scan the event starts then finds everything valid.  What is lost may be a new device or, when `drp_callback` runs on the GUI thread while the message waits, a new pack (the bits of `Library`) | model.cpp:101, 174 |
| `autoupdate` | `downloadTorrent` returns 0 whenever it got a torrent, and 0 is taken for nothing to download (update.cpp:1455, 1891): the thread ends | cli.txt:77: *Starts downloading automatically* |
| `online` | The loop begins with `FindNextFile` behind the file `FindFirstFile` has returned (indexing.cpp:554): the first online index is never loaded | indexing.cpp:550-551 |

More configurations show restrictions of section 7; TLC finds each of their
properties violated:

| Configuration | What it shows |
|---|---|
| `MCInstaller_completion` | A list replaced while an automatic installation runs is taken for its end: MODE_NONE, the finish command and WM_CLOSE come during an installation call (manager.cpp:1864; cli.txt:100-101: *upon completion of driver installation*) |
| `MCInstaller_archive` | The loop around `Extract7z` tests `FileOk`, which it never changes, instead of the result (install.cpp:457): the extraction from a local archive is repeated for ever |
| `MCInstaller_close` | MODE_STOPPING set in MODE_SCANNING, or after the thread has ended, stays (SDI.cpp:1619): the install button is dead, and closing asks each time |
| `MCIndexing_full` | `push` drops what does not fit, and nobody looks (indexing.cpp:111): if it is an end marker, `populate` hangs (indexing.cpp:106: *fail fast instead of blocking indefinitely*) |
| `MCUpdater_rescan` | A scan that ends during a download calls `checkUpdates`, which overwrites DOWLOADING_DATA (model.cpp:238): the loop is left, and `finishedupdating` set, before the files are there |
| `MCHashtable_collision` | Two ids of one code are found for each other: `findHWIDs` compares codes only |

## 7. Known restrictions

What the properties leave out on purpose, because the code behaves otherwise and
nothing in the repository says what should hold:

- `NoBadAccess` leaves out a stop: one that arrives while the downloads are selected or
  waited for, or once the loop is over, does write where `itembar` was left, which may
  be past the list (install.cpp:276).
- `session` has one layout.  When rows move while the restore point is being made, or
  shift under an item whose HWID index twins another's (manager.cpp:555, 1914),
  `itembar_act` ends on another row, and a null `devicematch` may be read.
- `auto` has drivers on disk and no event from outside.  That leaves out the wait for a
  download with the lock held (install.cpp:268), which ends only if the updater's poll
  does (`PollEnds`), the repeated extraction (`archive`), a list that another scan
  delivers during the installation (`completion`), and a stop when nothing is
  installed and no scan follows (`close`).
- `SelectionExclusive` and `SelectionInstallable` need lists in which `itembar_cmp` can tell
  the items apart.  `getHWID_index` is an index into the list of its own pack, and
  `itembar_cmp` does not look at the pack (manager.cpp:555): when device B is unplugged
  and its driver has the number of a second driver of A, that one takes B's selection,
  and A has two drivers selected.
- `CompletionAfterInstall` with *restart when done* and the progress panel: after a stop,
  the click on *restart when done* sets `FLAG_AUTOINSTALL` again, the scan that is under
  way starts an installation, and a click on the progress panel, which still shows the stop,
  requests one more scan before the thread has set the mode: the list that arrives is
  taken for the end, as in `completion`.  Three clicks; TLC finds it when `auto` has
  `"reboot"` among its clicks.
- `NothingForgotten` leaves out MODE_STOPPING.  The end of the thread tests and writes the
  mode in three places (install.cpp 567, 572, 576) without regard to the GUI thread:
  a stop that falls between the first two leaves MODE_STOPPING, one between the second and
  the third is overwritten.  The scan that arrives at a mode that was left is the end of
  the automatic installation, and what is still recommended is not tried.  The answer
  to *stop the installation?* in MODE_SCANNING does the same.
- `ActFollowsItem` and `InstalledAsPicked` with two threads or several layouts: `i` and
  `itembar_act` of one thread are moved by the other, or stay while the rows move.
- A click with the double-click deselection (a row deselected while it is being
  installed) is not among the clicks.
- After a list is replaced during an extraction, `hwidmatch` points into the old
  matcher (install.cpp:457); the model then chooses freely what it reads.
- `WholeScan` and `RequestShown` say nothing once the data race on
  `invaidate_set` undid a write (`torn`).
- A first scan that is finished before the window exists is not announced to
  anybody; `drp_callback` asks for INDICES without MANAGER (SDI.cpp:575), against the
  comment at manager.cpp:1880.
- `EndsOrStranded`: two pushes may set the auto-reset event once before either of
  two consumers waits for it; one consumer then sleeps although the queue is
  not empty, and `populate` never returns (indexing.cpp:140).  The property
  states that nothing else stops it.
- `SetEvent` after the mutex may reach a queue that its consumer has deleted
  (indexing.cpp:129); the model's step has no effect then.
- `RecommendsBest` and `ReofferEnds` leave out paths with `feature_`: their number
  replaces the feature of the INF in an offer's score, and not in that of the
  driver installed from it.
- `ReofferEnds` is about devices that work: one that is disabled is offered
  another driver each time.
- `DriverOf` assumes that the section of an installed driver is found in its INF
  (indexing.cpp:2143 gives feature 0xFF otherwise).
- `OneChoice` allows the second row only; a torrent row with two statuses in
  the filter is counted and hides the driver at hand (`Twice`).
- *Updater.*  Reasons to wait for ever that `DeleteEnds`, `PollEnds` and `ScriptEnds`
  name: STOPPING, written by the destructor, is overwritten by the thread's
  TORRENT_GOT or FINISHED_DOWNLOADING, or by `checkUpdates` (update.cpp:1353, 1455,
  1985); a request in the state TORRENT_GOT, before the thread has looked at it,
  makes the thread end; a request between the end of a download and its pause is
  lost, because the session is not yet paused (update.cpp:1510); a new updater
  after `ResetUpdater` knows nothing of an old request; when every file of the
  torrent is there, libtorrent says *seeding*, and the thread waits for
  *finished*; `seed_mode` is never reset; an exception leaves DOWLOADING_TORRENT; the
  waits of scripts test the flag and then sleep, and miss an event that is
  raised and reset between; `scriptInstall` clears `installupdate_exitflag` after
  the thread may have set it.
- `GetTruthful` leaves out requests answered too early (`early`): the session is resumed
  after the flag and the event are set, and the thread takes the session that is
  still paused for a finished one; or `finishedupdating` is cleared after the thread
  has set it.
- `CheckEnd` sets `FLAG_UPDATESOK`, which has two bits, one of them that of
  `FLAG_HIDEBOOSTY` (settings.h 141, 166); `isPaused()` says whether the session's pointer is
  valid, so that it is true while a download runs, too, and false only for the moment in
  which `updateTorrentStatus` makes its record anew (update.cpp 994, 1042).  In
  `Library` that moment may drop a report; elsewhere it is not followed.
- The installation thread calls the updater while `ResetUpdater` deletes it; the model
  has the calls before or after it.
- *Hash table.*  `OwnHits` does not hold: see `MCHashtable_collision`.
- *Library*, packs.  An archive replaced under its name keeps its old index, and an index
  file whose writing was cut off has its version already and is loaded (`harmed`).  A pack
  that is met while it is copied gets an empty index.  If that is saved, the pack keeps it
  for ever: the scan that the end of the copying requests finds an index file of this
  version (`harmed` too).
- *Library*, requests.  `Noticed` leaves out a pack (`overlooked`) whose coming is reported
  between the test of the event (model.cpp:104) and the end of `restorepos1`
  (manager.cpp:1829): its bit is cleared, its event starts a scan that copies the list;
  this is the race of the run `lost`.  It leaves out what is reported during a scan
  in the automatic mode without a window, where there is no test (model.cpp:103); what
  comes while the monitor is paused for a download, which asks for a scan only when
  nothing is being installed; and what `drp_callback` drops.  Such a pack is listed after
  the next request with INVALIDATE_INDICES, if one comes.
- *Library*, the rest.  A `-reindex` whose scan is cancelled is forgotten (`force` is cleared
  at the end of `populate`); `-keepunpackedindex` skips subfolders and deletes their
  index files; changes of loose .inf files are not noticed.  `loadOnlineIndices` does
  not look at what `loadindex` returns, and looks for the archive in the folder itself,
  not in its subfolders.
- *Library* and *DeviceUpdate* share `invalidate` and `thread_loadall`.  In `Library` `|=` is one
  step, the test of the bit decides both for the copy and for the scan, and the lock is
  not followed; `DeviceUpdate` takes these apart (`CopyValid`, `ScanInvalid`, `torn`).
- *DeviceUpdate*: the installation thread leaves the lock (install.cpp:592), then
  calls `invalidate`; in `Installer` this is one step (`Leave`), in `DeviceUpdate` the two
  are independent.
- *Indexing*: `populate` reserves what an earlier scan counted and a constant
  (indexing.cpp:605), and the queues hold pointers into `driverpack_list`.  If more packs
  come between, the list is moved under the threads.  Nothing in the code bounds that, and
  no property is stated.
- *Library*, names: an index file is named after the relative path of its pack; the model takes
  these names to be distinct.  Versions that `checkindex` accepts are one version.

## 8. What is not modelled

By lines, most of the repository is code of others: 7-Zip in `src/ext/SevenZip` is
three quarters of it (libtorrent, boost and libwebp are not part of the
repository), and `main.cpp` repeats `SDI.cpp`.  The models are about the program's
own `src/src`, and there about what is not input, output and layout.

- *In modelled parts*: hit testing, scrolling and popups of the list; FLAG_FILTERSP,
  FILTER_SHOW_DUP, the filter on pack names, rows an installation has touched
  in `Matcher`; the order of devices in the list (`sorta`), the tables of markers
  and section names; the parsing of INF and CAT files; the layout of index files
  and their form as text; the deletion of outdated packs in `scanfolder_count`
  and with `rd` after a failed move; failure of `UnregisterClass` at exit (the
  process ends there).
- *Updater*: what libtorrent does inside, sizes and progress, the contents of the
  dialog.  `Installer` and `Library` have what they see of it.
- *Scripts*: commands that call other components one after the other (`select`,
  `init`, `set`, conditions).
- *Enumeration*: Windows API calls; their result is the input of the models.
- *Settings, command line*: no state after the start; options are constants.
- *Drawing, themes, languages, dialogs, USB wizard, log, network, files, strings*:
  input and output, no state others depend on.
- *The autoclicker* presses buttons in windows of other programs.
- *`src/ext`, `src/res`, `src/Tools`*: third-party code and data.

## 9. Plan

Done: `Installer`, `DeviceUpdate`, `Indexing`, `Library`, `Matcher`, `Updater`, `Hashtable`
and `HwidIndex`, with their runs; proofs of every safety and action property of the
passing runs; the refinement of `HwidIndex`.

To prove next:

1. `Installer`: `ActFollowsItem` and `StatusTruthful` for lists whose rows move, which
   needs `RemapDriver` for two different lists and more than `Following`.
2. Abstract specifications and refinements: a device update as *request, then
   show a whole scan*; an index as *each pack done once*, which `IndexingProofs` is
   close to.

To extend the model:

1. `Order`: `sorta`, `setPriorities`, `finddrp` and the decoration tables as functions,
   checked against a reference over bounded inputs.
2. `Library` with `olddrps`, and names of index files that are not distinct.
3. The updater deleted under the installation thread.
