------------------------------ MODULE Updater ------------------------------
(***************************************************************************)
(* The updater (update.cpp): the thread that fetches the torrent file and  *)
(* moves what was downloaded (thread_download), and those who steer it     *)
(* through one int, downloadmangar_exitflag, and one manual-reset event,   *)
(* without a lock: the GUI thread or, in its place, a script; the          *)
(* installation thread; and the thread that scans devices.                 *)
(*                                                                         *)
(* libtorrent is external: its session is paused, running or aborted, the  *)
(* torrent file is there or not, and files arrive while it runs.           *)
(***************************************************************************)
EXTENDS Integers, FiniteSets

CONSTANTS
  Files,    \* the files of the torrent
  Pack,     \* the one the installation needs
  Modes,    \* "gui", "auto" (FLAG_AUTOUPDATE), "script" (FLAG_SCRIPTMODE)
  Deeds,    \* what the user, the script or the world may do
  Budget    \* how many of them in each mode

AllDeeds ==
  {"download", "seed", "reset", "install", "stop", "close", "quit", "rescan",
   "check", "get", "torrent"}

ASSUME FileAssumption == IsFiniteSet(Files) /\ Pack \in Files

ASSUME DeedAssumption ==
  /\ Modes \subseteq {"gui", "auto", "script"} /\ Modes # {}
  /\ Deeds \subseteq AllDeeds /\ \A m \in Modes : Budget[m] \in Nat

VARIABLES
  mode,
  flag,             \* downloadmangar_exitflag
  raised,           \* downloadmangar_event
  dl,               \* place of thread_download
  ses,              \* the session
  torrent,          \* gH.torrent_file() gives one
  seed_mode,
  finishedupdating,
  wanted,           \* files with a priority
  have,             \* complete in the folder "update"
  installed,        \* moved to where the program uses them
  pc,               \* places of the main thread and of the installation thread
  installmode,
  checkupdates,     \* FLAG_CHECKUPDATES
  tsm,              \* TorrentSelectionMode is TSM_AUTO, and torrent 1 is active
  posted,           \* WM_TORRENT, the WM_TIMER of StopSeedingDrivers
  rescan,           \* a scan is under way
  updatesok,        \* FLAG_UPDATESOK
  exitflag,         \* installupdate_exitflag, installupdate_event
  script,           \* the files of the last get, and how it ended
  early,            \* history: a request was answered before it was complete
  deeds

torrentVars == <<ses, torrent, seed_mode>>
fileVars == <<wanted, have, installed>>
guiVars == <<checkupdates, tsm, posted>>
scriptVars == <<updatesok, exitflag, script>>
vars == <<mode, flag, raised, dl, torrentVars, finishedupdating, fileVars, pc,
          installmode, guiVars, rescan, scriptVars, early, deeds>>

Flags == {"waiting", "torrent", "got", "data", "finished", "pausing", "stopping"}

Clients == {"main", "inst"}

\* Places inside resumeDownloading
Resuming == {"resume", "run"}

\* Places inside the destructor; the first two create a new Updater
Joins == {"reset", "new", "quit"}

\* Places at which a script waits for another thread
Waits == {"checktest", "checksleep", "datatest", "datasleep", "instzero",
          "insttest", "instsleep"}

Steps == {"start", "fetch", "got", "notify", "wait", "loop", "moving", "moved", "pause",
          "reset", "close", "ended"}

\* Types of the state
TypeOK ==
  /\ mode \in Modes /\ flag \in Flags /\ raised \in BOOLEAN /\ dl \in Steps
  /\ ses \in {"none", "paused", "running", "aborted"} /\ torrent \in BOOLEAN
  /\ seed_mode \in BOOLEAN /\ finishedupdating \in BOOLEAN
  /\ wanted \subseteq Files /\ have \subseteq Files /\ installed \subseteq Files
  /\ pc \in [Clients -> {"startup", "idle", "gone", "off", "start", "poll", "on"}
                          \cup Resuming \cup Joins \cup Waits]
  /\ installmode \in {"none", "installing", "stopping"}
  /\ checkupdates \in BOOLEAN /\ tsm \in BOOLEAN /\ rescan \in BOOLEAN
  /\ posted \in [torrent : BOOLEAN, timer : BOOLEAN]
  /\ updatesok \in BOOLEAN /\ exitflag \in [set : BOOLEAN, raised : BOOLEAN]
  /\ script \in [asked : SUBSET Files, code : {"none", "ok", "fail"}]
  /\ early \in BOOLEAN /\ deeds \in 0..Budget[mode]

-----------------------------------------------------------------------------
\* thread_download

Goes(from, to) == dl = from /\ dl' = to

Unasked == UNCHANGED <<mode, pc, installmode, guiVars, scriptVars, deeds>>

\* It sleeps until somebody asks for the torrent, or ends it
Start ==
  /\ raised
  /\ Goes("start", IF flag = "torrent" THEN "fetch" ELSE "ended")
  /\ UNCHANGED <<flag, raised, torrentVars, finishedupdating, fileVars, rescan, early>>
  /\ Unasked

\* downloadTorrent: an exception, no torrent file, or one.  What others wrote
\* to the flag meanwhile is overwritten, except after an exception
Fetch ==
  /\ dl = "fetch" /\ ses' = "paused"
  /\ \/ dl' = "ended" /\ torrent' = FALSE /\ UNCHANGED flag
     \/ dl' = "ended" /\ flag' = "stopping" /\ torrent' = FALSE
     \/ dl' = "got" /\ flag' = "got" /\ torrent' = TRUE
  /\ UNCHANGED <<raised, seed_mode, finishedupdating, fileVars, rescan, early>>
  /\ Unasked

Got ==
  /\ Goes("got", IF flag = "got" THEN "notify" ELSE "ended")
  /\ UNCHANGED <<flag, raised, torrentVars, finishedupdating, fileVars, rescan, early>>
  /\ Unasked

\* Where the outer loop goes on when the flag has the value f
Outer(f) == IF f = "stopping" THEN "close" ELSE "wait"

\* TorrentResults is 0 whenever a torrent was got, so that -autoupdate ends here
Notify ==
  /\ flag' = (IF mode = "auto" THEN "stopping" ELSE flag) /\ raised' = FALSE
  /\ Goes("notify", Outer(flag')) /\ finishedupdating' = (finishedupdating \/ mode = "auto")
  /\ posted' = [posted EXCEPT !.torrent = @ \/ mode # "script"]
  /\ UNCHANGED <<mode, pc, installmode, checkupdates, tsm, scriptVars, deeds,
                 torrentVars, fileVars, rescan, early>>

\* Slip: the clients are not told
CompletedUntold == dl' = "pause" /\ UNCHANGED finishedupdating

\* The downloading loop is left, or never entered: the download counts as completed
Completed == dl' = "pause" /\ finishedupdating' = TRUE

Wake ==
  /\ dl = "wait" /\ raised
  /\ \/ flag = "stopping" /\ dl' = "close" /\ UNCHANGED finishedupdating
     \/ flag = "data" /\ dl' = "loop" /\ UNCHANGED finishedupdating
     \/ flag \notin {"stopping", "data"} /\ Completed
  /\ UNCHANGED <<flag, raised, torrentVars, fileVars, rescan, early>>
  /\ Unasked

\* updateTorrentStatus calls a paused session finished, and libtorrent calls a
\* torrent of which every file is there seeding
LooksFinished == ses = "paused" \/ (wanted \subseteq have /\ have # Files)

\* The body of the downloading loop up to the flush of libtorrent's cache
Status ==
  /\ dl = "loop" /\ flag = "data" /\ LooksFinished /\ ~seed_mode
  /\ dl' = "moving" /\ ses' = "paused"
  /\ early' = (early \/ ~(wanted \subseteq have))
  /\ UNCHANGED <<flag, raised, torrent, seed_mode, finishedupdating, fileVars, rescan>>
  /\ Unasked

Leave ==
  /\ dl = "loop" /\ flag # "data" /\ Completed
  /\ UNCHANGED <<flag, raised, torrentVars, fileVars, rescan, early>>
  /\ Unasked

\* Slip: the folder is removed first
MoveLate ==
  /\ Goes("moving", "moved")
  /\ have' = {}
  /\ UNCHANGED <<flag, raised, torrentVars, finishedupdating, wanted, installed, rescan, early>>
  /\ Unasked

\* moveNewFiles moves what has a priority and removes the folder
Move ==
  /\ Goes("moving", "moved")
  /\ installed' = installed \cup (wanted \cap have) /\ have' = {}
  /\ UNCHANGED <<flag, raised, torrentVars, finishedupdating, wanted, rescan, early>>
  /\ Unasked

Report ==
  /\ Goes("moved", "loop") /\ flag' = "finished" /\ raised' = TRUE
  /\ rescan' = (rescan \/ (mode # "script" /\ installmode = "none"))
  /\ UNCHANGED <<torrentVars, finishedupdating, fileVars, early>>
  /\ Unasked

PauseSession ==
  /\ Goes("pause", "reset") /\ ses' = "paused"
  /\ UNCHANGED <<flag, raised, torrent, seed_mode, finishedupdating, fileVars, rescan, early>>
  /\ Unasked

Reset ==
  /\ Goes("reset", Outer(flag)) /\ raised' = FALSE
  /\ UNCHANGED <<flag, torrentVars, finishedupdating, fileVars, rescan, early>>
  /\ Unasked

Close ==
  /\ Goes("close", "ended") /\ ses' = "aborted" /\ torrent' = FALSE
  /\ UNCHANGED <<flag, raised, seed_mode, finishedupdating, fileVars, rescan, early>>
  /\ Unasked

Download ==
  Start \/ Fetch \/ Got \/ Notify \/ Wake \/ Status \/ Leave \/ Move \/ Report
  \/ PauseSession \/ Reset \/ Close

\* libtorrent completes a file
Arrive(f) ==
  /\ ses = "running" /\ torrent /\ f \in wanted \ have
  /\ have' = have \cup {f}
  /\ UNCHANGED <<flag, raised, dl, torrentVars, finishedupdating, wanted, installed,
                 rescan, early>>
  /\ Unasked

-----------------------------------------------------------------------------
\* What its clients call

At(c, from, to) == pc[c] = from /\ pc' = [pc EXCEPT ![c] = to]

\* checkUpdates does nothing if the folder "update" is write-protected
Check ==
  \/ flag' = "torrent" /\ raised' = TRUE
  \/ UNCHANGED <<flag, raised>>

\* Slip: the event is not raised
StopUnheard == flag' = "stopping" /\ UNCHANGED raised

\* The destructor: it sets the flag, then waits for the thread
Stop == flag' = "stopping" /\ raised' = TRUE

\* Where resumeDownloading returns to
Back(c) == IF c = "inst" THEN "poll" ELSE IF mode = "script" THEN "datatest" ELSE "idle"

\* resumeDownloading: without a torrent the download counts as finished; a session
\* that runs is taken for one the thread looks after
NoTorrent(c) ==
  /\ ~torrent /\ At(c, "resume", Back(c)) /\ finishedupdating' = TRUE
  /\ UNCHANGED <<flag, raised, ses, early>>

Request(c) ==
  /\ torrent /\ At(c, "resume", "run")
  /\ IF ses = "paused" THEN flag' = "data" /\ raised' = TRUE ELSE UNCHANGED <<flag, raised>>
  /\ UNCHANGED <<ses, finishedupdating, early>>

Run(c) ==
  /\ At(c, "run", Back(c)) /\ ses' = (IF torrent THEN "running" ELSE ses)
  /\ finishedupdating' = FALSE /\ early' = (early \/ flag = "finished")
  /\ UNCHANGED <<flag, raised>>

ResumeDownloading(c) ==
  /\ NoTorrent(c) \/ Request(c) \/ Run(c)
  /\ UNCHANGED <<mode, dl, torrent, seed_mode, fileVars, installmode, guiVars, rescan,
                 scriptVars, deeds>>

-----------------------------------------------------------------------------
\* The installation thread (install.cpp), as far as it needs the updater

\* A driver it is to install is in a pack on the torrent
NeedPack ==
  /\ At("inst", "start", "resume") /\ torrent
  /\ wanted' = wanted \cup {Pack} /\ UNCHANGED installmode

NeedNothing ==
  At("inst", "start", "on") /\ UNCHANGED <<wanted, installmode>>

\* isUpdateCompleted; a stop leaves installmode other than MODE_NONE
PollDone ==
  /\ finishedupdating
  /\ At("inst", "poll", "on") /\ UNCHANGED <<wanted, installmode>>

Install ==
  /\ NeedPack \/ NeedNothing \/ PollDone
  /\ UNCHANGED <<mode, flag, raised, dl, torrentVars, finishedupdating, have, installed,
                 guiVars, rescan, scriptVars, early, deeds>>

\* The thread's end: a scan is requested, a script is told
InstallEnd ==
  /\ At("inst", "on", "off") /\ installmode' = "none"
  /\ rescan' = (rescan \/ mode # "script")
  /\ exitflag' = [set |-> TRUE, raised |-> TRUE]
  /\ UNCHANGED <<mode, flag, raised, dl, torrentVars, finishedupdating, fileVars, guiVars,
                 updatesok, script, early, deeds>>

-----------------------------------------------------------------------------
\* The scanning thread: Bundle::bundle_lowpriority at the end of each scan

LowPriority ==
  /\ rescan /\ rescan' = FALSE /\ mode # "script" /\ pc["main"] # "gone"
  /\ IF checkupdates THEN Check ELSE UNCHANGED <<flag, raised>>
  /\ UNCHANGED <<mode, dl, torrentVars, finishedupdating, fileVars, pc, installmode, guiVars,
                 scriptVars, early, deeds>>

-----------------------------------------------------------------------------
\* The GUI thread

Gui == mode # "script" /\ pc["main"] = "idle"

Deed(d) == d \in Deeds /\ deeds < Budget[mode] /\ deeds' = deeds + 1

\* The user accepted the license: updates are looked for at once, or with each scan
Startup ==
  /\ At("main", "startup", "idle")
  /\ \/ Check /\ checkupdates' = TRUE
     \/ UNCHANGED <<flag, raised, checkupdates>>
  /\ UNCHANGED <<mode, dl, torrentVars, finishedupdating, fileVars, installmode, tsm, posted,
                 rescan, scriptVars, early, deeds>>

\* ResetUpdater deletes the updater; JoinReset makes a new one
ResetUpdater == At("main", "idle", "reset") /\ Stop /\ checkupdates' = TRUE

\* The dialog, or the download all, network or indices of the welcome dialog
AskFor == \E s \in SUBSET Files \ {{}} : wanted' = s /\ At("main", "idle", "resume")

UserDownload ==
  /\ Deed("download") /\ torrent /\ AskFor
  /\ UNCHANGED <<flag, raised, seed_mode, installmode, checkupdates, tsm, posted, rescan>>

\* StartSeedingDrivers gives every file a priority; StopSeedingDrivers does not
\* end seed_mode
UserSeed ==
  /\ Deed("seed")
  /\ IF seed_mode
       THEN /\ ResetUpdater /\ posted' = [posted EXCEPT !.timer = TRUE]
            /\ UNCHANGED <<wanted, seed_mode>>
       ELSE /\ ses = "paused" /\ torrent
            /\ wanted' = Files /\ seed_mode' = TRUE /\ At("main", "idle", "resume")
            /\ UNCHANGED <<flag, raised, checkupdates, posted>>
  /\ UNCHANGED <<installmode, tsm, rescan>>

\* IDM_UPDATES_SDI, IDM_UPDATES_DRIVERS
UserReset ==
  /\ Deed("reset") /\ ResetUpdater /\ tsm' = FALSE
  /\ UNCHANGED <<wanted, seed_mode, installmode, posted, rescan>>

UserInstall ==
  /\ Deed("install") /\ installmode = "none" /\ pc["inst"] = "off"
  /\ installmode' = "installing" /\ pc' = [pc EXCEPT !["inst"] = "start"]
  /\ UNCHANGED <<flag, raised, wanted, seed_mode, checkupdates, tsm, posted, rescan>>

\* A click on the progress row stops the installation and not the download; the
\* question at WM_CLOSE does both
UserStop ==
  /\ \/ Deed("stop") /\ installmode = "installing" /\ UNCHANGED flag
     \/ Deed("close") /\ installmode # "none" /\ flag' = "pausing"
  /\ installmode' = "stopping"
  /\ UNCHANGED <<raised, pc, wanted, seed_mode, checkupdates, tsm, posted, rescan>>

\* The end of the program: the scan is joined, then the updater is deleted
UserQuit ==
  /\ Deed("quit") /\ installmode = "none" /\ pc["inst"] = "off" /\ ~rescan
  /\ At("main", "idle", "quit") /\ Stop
  /\ UNCHANGED <<wanted, seed_mode, installmode, checkupdates, tsm, posted, rescan>>

\* A device or a file event
Rescan ==
  /\ Deed("rescan") /\ rescan' = TRUE
  /\ UNCHANGED <<flag, raised, pc, wanted, seed_mode, installmode, checkupdates, tsm, posted>>

User ==
  /\ Gui
  /\ UserDownload \/ UserSeed \/ UserReset \/ UserInstall \/ UserStop \/ UserQuit \/ Rescan
  /\ UNCHANGED <<mode, dl, ses, torrent, finishedupdating, have, installed, scriptVars, early>>

\* WM_TORRENT (DownloadedTorrent): the welcome dialog, or the other torrent, or nothing
OnTorrent ==
  /\ posted.torrent /\ posted' = [posted EXCEPT !.torrent = FALSE]
  /\ \/ tsm /\ tsm' = FALSE /\ ResetUpdater /\ UNCHANGED wanted
     \/ tsm /\ tsm' = FALSE /\ torrent /\ AskFor /\ UNCHANGED <<flag, raised, checkupdates>>
     \/ ~tsm /\ UNCHANGED <<tsm, flag, raised, pc, wanted, checkupdates>>

\* WM_TIMER resets the updater once more after seeding was stopped
OnTimer ==
  /\ posted.timer /\ posted' = [posted EXCEPT !.timer = FALSE]
  /\ ResetUpdater /\ UNCHANGED <<tsm, wanted>>

Message ==
  /\ Gui /\ (OnTorrent \/ OnTimer)
  /\ UNCHANGED <<mode, dl, torrentVars, finishedupdating, have, installed, installmode, rescan,
                 scriptVars, early, deeds>>

\* The destructor returns; a new updater starts a thread and, in ResetUpdater, asks
\* it for the torrent
Join ==
  /\ pc["main"] \in Joins /\ dl = "ended"
  /\ IF pc["main"] = "quit"
       THEN /\ pc' = [pc EXCEPT !["main"] = "gone"]
            /\ UNCHANGED <<flag, raised, dl, exitflag>>
       ELSE /\ pc' = [pc EXCEPT !["main"] = "idle"]
            /\ dl' = "start" /\ exitflag' = [set |-> FALSE, raised |-> FALSE]
            /\ \/ flag' = "waiting" /\ raised' = FALSE
               \/ pc["main"] = "reset" /\ flag' = "torrent" /\ raised' = TRUE
  /\ UNCHANGED <<mode, torrentVars, finishedupdating, fileVars, installmode, guiVars, rescan,
                 updatesok, script, early, deeds>>

-----------------------------------------------------------------------------
\* A script (Script::runscript): one command after the other

Command(d) == mode = "script" /\ pc["main"] = "idle" /\ Deed(d)

\* checkupdates
ScriptCheck ==
  /\ Command("check") /\ Check /\ At("main", "idle", "checktest")
  /\ script' = [script EXCEPT !.code = "none"]
  /\ UNCHANGED <<wanted, updatesok, exitflag, installmode>>

\* get: a subset of the files that depends on what is asked for and what is there.
\* Nothing to do without files (numfiles is 0 after activetorrent)
ScriptGet ==
  /\ Command("get") /\ updatesok /\ torrent
  /\ \E s \in SUBSET Files \ {{}} : wanted' = s /\ script' = [asked |-> s, code |-> "none"]
  /\ At("main", "idle", "resume")
  /\ UNCHANGED <<flag, raised, updatesok, exitflag, installmode>>

\* install: no file has a priority, the installation thread is started
ScriptInstall ==
  /\ Command("install") /\ pc["inst"] = "off"
  /\ wanted' = IF updatesok /\ torrent THEN {} ELSE wanted
  /\ pc' = [pc EXCEPT !["main"] = "instzero", !["inst"] = "start"]
  /\ installmode' = "installing" /\ script' = [script EXCEPT !.code = "none"]
  /\ UNCHANGED <<flag, raised, updatesok, exitflag>>

\* activetorrent deletes the updater and makes a new one
ScriptTorrent ==
  /\ Command("torrent") /\ Stop /\ At("main", "idle", "new")
  /\ script' = [script EXCEPT !.code = "none"]
  /\ UNCHANGED <<wanted, updatesok, exitflag, installmode>>

\* while(downloadmangar_exitflag==...) downloadmangar_event->wait(): the loops of
\* checkupdates and get
Wait(test, sleep, state) ==
  \/ At("main", test, sleep) /\ flag = state /\ UNCHANGED <<updatesok, script>>
  \/ At("main", sleep, test) /\ raised /\ UNCHANGED <<updatesok, script>>

\* Slip: it waits for success only
CheckEndGot ==
  /\ At("main", "checktest", "idle") /\ flag = "got" /\ updatesok' = (updatesok \/ torrent)
  /\ script' = [script EXCEPT !.code = IF torrent THEN "ok" ELSE "fail", !.asked = {}]

CheckEnd ==
  /\ At("main", "checktest", "idle") /\ flag # "torrent"
  /\ updatesok' = (updatesok \/ torrent)
  /\ script' = [script EXCEPT !.code = IF torrent /\ flag = "got" THEN "ok" ELSE "fail",
                              !.asked = {}]

GetEnd ==
  /\ At("main", "datatest", "idle") /\ flag # "data" /\ UNCHANGED updatesok
  /\ script' = [script EXCEPT !.code = IF flag = "finished" THEN "ok" ELSE "fail"]

ScriptWait ==
  /\ \/ Wait("checktest", "checksleep", "torrent") \/ CheckEnd
     \/ Wait("datatest", "datasleep", "data") \/ GetEnd
  /\ UNCHANGED <<flag, raised, wanted, exitflag, installmode, deeds>>

\* scriptInstall clears the flag after it started the thread that sets it
ScriptZero ==
  /\ At("main", "instzero", "insttest") /\ exitflag' = [exitflag EXCEPT !.set = FALSE]
  /\ UNCHANGED script

InstWait ==
  /\ \/ At("main", "insttest", "instsleep") /\ ~exitflag.set /\ UNCHANGED script
     \/ At("main", "instsleep", "insttest") /\ exitflag.raised /\ UNCHANGED script
     \/ /\ At("main", "insttest", "idle") /\ exitflag.set
        /\ script' = [asked |-> {}, code |-> "ok"]
  /\ UNCHANGED exitflag

ScriptInst ==
  /\ ScriptZero \/ InstWait
  /\ UNCHANGED <<flag, raised, wanted, updatesok, installmode, deeds>>

Script ==
  /\ ScriptCheck \/ ScriptGet \/ ScriptInstall \/ ScriptTorrent \/ ScriptWait \/ ScriptInst
  /\ UNCHANGED <<mode, dl, torrentVars, finishedupdating, have, installed, guiVars, rescan, early>>

-----------------------------------------------------------------------------
Init ==
  /\ mode \in Modes /\ flag = "waiting" /\ raised = FALSE /\ dl = "start"
  /\ ses = "none" /\ torrent = FALSE /\ seed_mode = FALSE /\ finishedupdating = FALSE
  /\ wanted = {} /\ have = {} /\ installed = {}
  /\ pc = [main |-> IF mode = "script" THEN "idle" ELSE "startup", inst |-> "off"]
  /\ installmode = "none" /\ rescan = (mode # "script")
  /\ checkupdates \in (IF mode = "script" THEN {FALSE} ELSE BOOLEAN)
  /\ tsm = (mode # "script") /\ posted = [torrent |-> FALSE, timer |-> FALSE]
  /\ updatesok = FALSE /\ exitflag = [set |-> FALSE, raised |-> FALSE]
  /\ script = [asked |-> {}, code |-> "none"] /\ early = FALSE /\ deeds = 0

Main == ResumeDownloading("main") \/ Startup \/ Message \/ Join

Inst == ResumeDownloading("inst") \/ Install \/ InstallEnd

Next ==
  Download \/ (\E f \in Files : Arrive(f)) \/ Main \/ Inst \/ LowPriority \/ User \/ Script

Spec == Init /\ [][Next]_vars

\* Each thread runs, and libtorrent completes what it is asked for.  The user
\* owes no deed and a script no command
FairSpec ==
  /\ Spec /\ WF_vars(Download) /\ \A f \in Files : WF_vars(Arrive(f))
  /\ WF_vars(Main) /\ WF_vars(Inst) /\ WF_vars(LowPriority)
  /\ WF_vars(Script /\ deeds' = deeds)

-----------------------------------------------------------------------------
\* Who waits for ever in the destructor (join in ~UpdaterImp) waits because its
\* STOPPING was overwritten, by one of the four others that write the flag
DeleteEnds == <>[](pc["main"] \in Joins) => <>[](flag # "stopping")

\* The thread sleeps on an event that is not raised
Asleep == dl = "wait" /\ ~raised

\* The same with nothing downloaded
Unattended == Asleep /\ flag # "finished"

\* The thread waits for "finished", while libtorrent says "seeding"
AllThere == dl = "loop" /\ have = Files

\* The installation thread polls isUpdateCompleted for ever only if no thread serves it
\* (it ended, or ResetUpdater put one in its place that was asked nothing), its request
\* was lost or answered too early, every file is there, or seed_mode was left on
PollEnds ==
  <>[](pc["inst"] = "poll")
    => <>[](dl \in {"start", "ended"} \/ Unattended \/ AllThere \/ seed_mode \/ early)

Sleeps == {"checksleep", "datasleep", "instsleep"}

\* A command of a script hangs only if its request was lost, if it missed the wake-up
\* (it read the flag, and the thread changed it and reset the event before it slept),
\* if every file is there, or if the installation had ended before it began to wait
ScriptEnds ==
  <>[](pc["main"] \in Waits)
    => <>[](\/ flag \in {"torrent", "data"} /\ (Asleep \/ dl = "ended")
            \/ pc["main"] \in Sleeps /\ Asleep
            \/ AllThere \/ exitflag.raised)

\* A get that reports success has installed every file it asked for, unless the
\* thread took a session that was not yet resumed for one that has finished
GetTruthful ==
  (pc["main"] = "idle" /\ script.code = "ok") => (script.asked \subseteq installed \/ early)

\* What a comment of thread_download says where the downloading loop is left:
\* the download is completed (said of one that runs)
CompletedMeansInstalled ==
  [][dl # "pause" /\ dl' = "pause" /\ ses = "running" => wanted \subseteq installed]_vars

\* What the help says of -autoupdate: it starts downloading
AutoupdateDownloads == (mode = "auto" /\ dl = "notify") ~> dl = "loop"

=============================================================================
