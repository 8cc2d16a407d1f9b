--------------------------- MODULE UpdaterProofs ---------------------------
(***************************************************************************)
(* For any files, any number of deeds and in each mode: a get of a script  *)
(* that succeeds has installed what it asked for.                          *)
(***************************************************************************)
EXTENDS Updater, TLAPS

----------------------------------------------------------------------------
(* The inductive invariant *)

\* Places of a script that runs an installation, looks for updates, gets files
AtInstall == pc["main"] \in {"instzero", "insttest", "instsleep"}
AtCheck == pc["main"] \in {"checktest", "checksleep"}
AtGet == pc["main"] \in {"run", "datatest", "datasleep"}

\* A script is where it can be, and the installation thread runs only for its install
ScriptPlaces ==
  /\ pc["main"] \in {"idle", "new", "resume"} \/ AtInstall \/ AtCheck \/ AtGet
  /\ ~AtInstall => pc["inst"] = "off"
  /\ pc["main"] \in {"insttest", "instsleep"} /\ exitflag.set => pc["inst"] = "off"
  /\ pc["main"] = "new" => script.code = "none"

\* Who still waits where the flag has a value that asks for something
FlagOwners ==
  /\ flag = "data" =>
       \/ AtGet
       \/ AtInstall /\ (pc["inst"] = "run" \/ (pc["inst"] = "poll" /\ ~finishedupdating))
  /\ flag = "torrent" => AtCheck
  /\ flag = "stopping" => pc["main"] = "new" \/ dl = "ended"

\* Where the download thread can be beside them
ThreadPlaces ==
  /\ dl = "fetch" => AtCheck /\ flag = "torrent"
  /\ dl = "close" => pc["main"] = "new"
  /\ dl \in {"moving", "moved"} => flag \in {"data", "stopping"}
  /\ pc["main"] = "resume" => torrent

\* What was asked for is on its way
OnItsWay ==
  /\ pc["main"] = "resume" \/ AtGet => wanted = script.asked
  /\ AtGet /\ dl = "moving" => script.asked \subseteq have \/ early
  /\ AtGet /\ dl = "moved" => script.asked \subseteq installed \/ early
  /\ pc["main"] \in {"datatest", "datasleep"} /\ flag = "finished" =>
       script.asked \subseteq installed \/ early

\* Outside a script nobody waits like one
ScriptInv ==
  IF mode = "script" THEN ScriptPlaces /\ FlagOwners /\ ThreadPlaces /\ OnItsWay
                     ELSE script.code = "none" /\ pc["main"] \notin Waits

IInv == TypeOK /\ ScriptInv /\ GetTruthful

----------------------------------------------------------------------------
(* Types *)

\* The variables that are true or false, and the others
BoolType ==
  /\ raised \in BOOLEAN /\ torrent \in BOOLEAN /\ seed_mode \in BOOLEAN
  /\ finishedupdating \in BOOLEAN /\ checkupdates \in BOOLEAN /\ tsm \in BOOLEAN
  /\ rescan \in BOOLEAN /\ updatesok \in BOOLEAN /\ early \in BOOLEAN

DataType ==
  /\ mode \in Modes /\ flag \in Flags /\ dl \in Steps
  /\ ses \in {"none", "paused", "running", "aborted"}
  /\ wanted \subseteq Files /\ have \subseteq Files /\ installed \subseteq Files
  /\ pc \in [Clients -> {"startup", "idle", "gone", "off", "start", "poll", "on"}
                          \cup Resuming \cup Joins \cup Waits]
  /\ installmode \in {"none", "installing", "stopping"}
  /\ posted \in [torrent : BOOLEAN, timer : BOOLEAN]
  /\ exitflag \in [set : BOOLEAN, raised : BOOLEAN]
  /\ script \in [asked : SUBSET Files, code : {"none", "ok", "fail"}]
  /\ deeds \in 0..Budget[mode]

LEMMA TypeParts == TypeOK <=> BoolType /\ DataType
  BY DEF TypeOK, BoolType, DataType

LEMMA InitType == Init => TypeOK
<1>1. Init => BoolType
  BY Zenon DEF Init, BoolType
<1>2. Init => DataType
  BY DeedAssumption
  DEF Init, DataType, Flags, Steps, Clients, Resuming, Joins, Waits
<1> QED
  BY <1>1, <1>2, TypeParts

\* Updates of the records
LEMMA RecordFacts ==
  /\ \A p \in [torrent : BOOLEAN, timer : BOOLEAN], b \in BOOLEAN :
       /\ [p EXCEPT !.torrent = b] \in [torrent : BOOLEAN, timer : BOOLEAN]
       /\ [p EXCEPT !.timer = b] \in [torrent : BOOLEAN, timer : BOOLEAN]
  /\ \A e \in [set : BOOLEAN, raised : BOOLEAN], b \in BOOLEAN :
       [e EXCEPT !.set = b] \in [set : BOOLEAN, raised : BOOLEAN]
  /\ \A a, b \in BOOLEAN : [set |-> a, raised |-> b] \in [set : BOOLEAN, raised : BOOLEAN]
  /\ \A c \in {"none", "ok", "fail"}, a \in SUBSET Files :
       /\ [asked |-> a, code |-> c] \in [asked : SUBSET Files, code : {"none", "ok", "fail"}]
       /\ \A r \in [asked : SUBSET Files, code : {"none", "ok", "fail"}] :
            /\ [r EXCEPT !.code = c] \in [asked : SUBSET Files, code : {"none", "ok", "fail"}]
            /\ [r EXCEPT !.code = c, !.asked = a]
                 \in [asked : SUBSET Files, code : {"none", "ok", "fail"}]
  OBVIOUS

LEMMA StepType == TypeOK /\ [Next]_vars => TypeOK'
<1> SUFFICES ASSUME BoolType, DataType, [Next]_vars PROVE BoolType' /\ DataType'
  BY DEF TypeOK, BoolType, DataType
<1> USE FileAssumption, DeedAssumption
    DEF Flags, Steps, Clients, Resuming, Joins, Waits, torrentVars, fileVars, guiVars, scriptVars
<1>1. CASE Download
  <2> USE DEF Goes, Unasked
  <2>1. CASE Start
    <3>1. BoolType'
      BY <2>1, Zenon DEF BoolType, Start
    <3>2. DataType'
      BY <2>1 DEF DataType, Start
    <3> QED
      BY <3>1, <3>2
  <2>2. CASE Fetch
    <3>1. BoolType'
      BY <2>2, Zenon DEF BoolType, Fetch
    <3>2. DataType'
      BY <2>2 DEF DataType, Fetch
    <3> QED
      BY <3>1, <3>2
  <2>3. CASE Got
    <3>1. BoolType'
      BY <2>3, Zenon DEF BoolType, Got
    <3>2. DataType'
      BY <2>3 DEF DataType, Got
    <3> QED
      BY <3>1, <3>2
  <2>4. CASE Notify
    <3>1. BoolType'
      BY <2>4, Zenon DEF BoolType, Notify, Outer
    <3>2. DataType'
      BY <2>4 DEF DataType, Notify, Outer
    <3> QED
      BY <3>1, <3>2
  <2>5. CASE Wake
    <3>1. BoolType'
      BY <2>5, Zenon DEF BoolType, Wake, Completed
    <3>2. DataType'
      BY <2>5 DEF DataType, Wake, Completed
    <3> QED
      BY <3>1, <3>2
  <2>6. CASE Status
    <3>1. BoolType'
      BY <2>6, Zenon DEF BoolType, Status
    <3>2. DataType'
      BY <2>6 DEF DataType, Status
    <3> QED
      BY <3>1, <3>2
  <2>7. CASE Leave
    <3>1. BoolType'
      BY <2>7, Zenon DEF BoolType, Leave, Completed
    <3>2. DataType'
      BY <2>7 DEF DataType, Leave, Completed
    <3> QED
      BY <3>1, <3>2
  <2>8. CASE Move
    <3>1. BoolType'
      BY <2>8, Zenon DEF BoolType, Move
    <3>2. DataType'
      BY <2>8 DEF DataType, Move
    <3> QED
      BY <3>1, <3>2
  <2>9. CASE Report
    <3>1. BoolType'
      BY <2>9, Zenon DEF BoolType, Report
    <3>2. DataType'
      BY <2>9 DEF DataType, Report
    <3> QED
      BY <3>1, <3>2
  <2>10. CASE PauseSession
    <3>1. BoolType'
      BY <2>10, Zenon DEF BoolType, PauseSession
    <3>2. DataType'
      BY <2>10 DEF DataType, PauseSession
    <3> QED
      BY <3>1, <3>2
  <2>11. CASE Reset
    <3>1. BoolType'
      BY <2>11, Zenon DEF BoolType, Reset, Outer
    <3>2. DataType'
      BY <2>11 DEF DataType, Reset, Outer
    <3> QED
      BY <3>1, <3>2
  <2>12. CASE Close
    <3>1. BoolType'
      BY <2>12, Zenon DEF BoolType, Close
    <3>2. DataType'
      BY <2>12 DEF DataType, Close
    <3> QED
      BY <3>1, <3>2
  <2> QED
    BY <1>1, <2>1, <2>2, <2>3, <2>4, <2>5, <2>6, <2>7, <2>8, <2>9, <2>10, <2>11, <2>12
    DEF Download
<1>2. ASSUME NEW f \in Files, Arrive(f) PROVE BoolType' /\ DataType'
  <2>1. BoolType'
    BY <1>2, Zenon DEF BoolType, Arrive, Unasked
  <2>2. DataType'
    BY <1>2 DEF DataType, Arrive, Unasked
  <2> QED
    BY <2>1, <2>2
<1>3. ASSUME NEW c \in Clients, ResumeDownloading(c) PROVE BoolType' /\ DataType'
  <2>1. BoolType'
    BY <1>3, Zenon DEF BoolType, ResumeDownloading, NoTorrent, Request, Run, At, Back
  <2>2. DataType'
    BY <1>3 DEF DataType, ResumeDownloading, NoTorrent, Request, Run, At, Back
  <2> QED
    BY <2>1, <2>2
<1>4. CASE Startup
  <2>1. BoolType'
    BY <1>4, Zenon DEF BoolType, Startup, At, Check
  <2>2. DataType'
    BY <1>4 DEF DataType, Startup, At, Check
  <2> QED
    BY <2>1, <2>2
<1>5. CASE Message
  <2>1. BoolType'
    BY <1>5, Zenon DEF BoolType, Message, OnTorrent, OnTimer, ResetUpdater, Stop, AskFor, At
  <2>2. DataType'
    <3>1. posted' \in [torrent : BOOLEAN, timer : BOOLEAN]
      BY <1>5, RecordFacts, ZenonT(60) DEF DataType, Message, OnTorrent, OnTimer
    <3>2. CASE OnTorrent
      BY <1>5, <3>1, <3>2 DEF DataType, Message, OnTorrent, ResetUpdater, Stop, AskFor, At
    <3>3. CASE OnTimer
      BY <1>5, <3>1, <3>3 DEF DataType, Message, OnTimer, ResetUpdater, Stop, At
    <3> QED
      BY <1>5, <3>2, <3>3 DEF Message
  <2> QED
    BY <2>1, <2>2
<1>6. CASE Join
  <2>1. BoolType'
    BY <1>6, Zenon DEF BoolType, Join
  <2>2. DataType'
    <3>1. exitflag' \in [set : BOOLEAN, raised : BOOLEAN]
      <4>1. \/ exitflag' = exitflag
            \/ exitflag' = [set |-> FALSE, raised |-> FALSE]
        BY <1>6 DEF Join
      <4>2. exitflag \in [set : BOOLEAN, raised : BOOLEAN]
        BY DEF DataType
      <4> QED
        BY <4>1, <4>2, RecordFacts, Zenon
    <3>2. UNCHANGED <<mode, ses, wanted, have, installed, installmode, posted, script, deeds>>
      BY <1>6 DEF Join
    <3>3. flag' \in Flags /\ dl' \in Steps
      BY <1>6 DEF DataType, Join
    <3>4. pc' = [pc EXCEPT !["main"] = "gone"] \/ pc' = [pc EXCEPT !["main"] = "idle"]
      BY <1>6 DEF Join
    <3> QED
      BY <3>1, <3>2, <3>3, <3>4 DEF DataType
  <2> QED
    BY <2>1, <2>2
<1>7. CASE Install \/ InstallEnd
  <2>1. BoolType'
    BY <1>7, Zenon DEF BoolType, Install, InstallEnd, NeedPack, NeedNothing, PollDone, At
  <2>2. DataType'
    <3>1. exitflag' \in [set : BOOLEAN, raised : BOOLEAN]
      <4>1. CASE Install
        BY <4>1 DEF DataType, Install
      <4>2. CASE InstallEnd
        BY <4>2, RecordFacts DEF InstallEnd
      <4> QED
        BY <1>7, <4>1, <4>2
    <3>2. CASE Install
      BY <3>1, <3>2 DEF DataType, Install, NeedPack, NeedNothing, PollDone, At
    <3>3. CASE InstallEnd
      BY <3>1, <3>3 DEF DataType, InstallEnd, At
    <3> QED
      BY <1>7, <3>2, <3>3
  <2> QED
    BY <2>1, <2>2
<1>8. CASE LowPriority
  <2>1. BoolType'
    BY <1>8, Zenon DEF BoolType, LowPriority, Check
  <2>2. DataType'
    BY <1>8 DEF DataType, LowPriority, Check
  <2> QED
    BY <2>1, <2>2
<1>9. CASE User
  <2> USE DEF User, Deed, At
  <2>1. CASE UserDownload
    <3>1. BoolType'
      BY <1>9, <2>1, Zenon DEF BoolType, UserDownload, AskFor
    <3>2. DataType'
      BY <1>9, <2>1 DEF DataType, UserDownload, AskFor
    <3> QED
      BY <3>1, <3>2
  <2>2. CASE UserSeed
    <3>1. BoolType'
      BY <1>9, <2>2, Zenon DEF BoolType, UserSeed, ResetUpdater, Stop
    <3>2. DataType'
      <4>1. posted' \in [torrent : BOOLEAN, timer : BOOLEAN]
        <5>1. posted' = posted \/ posted' = [posted EXCEPT !.timer = TRUE]
          BY <2>2 DEF UserSeed
        <5>2. posted \in [torrent : BOOLEAN, timer : BOOLEAN]
          BY DEF DataType
        <5>3. [posted EXCEPT !.timer = TRUE] \in [torrent : BOOLEAN, timer : BOOLEAN]
          BY <5>2
        <5> QED
          BY <5>1, <5>2, <5>3
      <4>2. pc' \in [Clients -> {"startup", "idle", "gone", "off", "start", "poll", "on"}
                          \cup Resuming \cup Joins \cup Waits]
        BY <2>2 DEF DataType, UserSeed, ResetUpdater
      <4>3. flag' \in Flags /\ wanted' \subseteq Files /\ deeds' \in 0..Budget[mode]
        BY <2>2 DEF DataType, UserSeed, ResetUpdater, Stop
      <4> QED
        BY <1>9, <2>2, <4>1, <4>2, <4>3 DEF DataType, UserSeed
    <3> QED
      BY <3>1, <3>2
  <2>3. CASE UserReset
    <3>1. BoolType'
      BY <1>9, <2>3, Zenon DEF BoolType, UserReset, ResetUpdater, Stop
    <3>2. DataType'
      BY <1>9, <2>3 DEF DataType, UserReset, ResetUpdater, Stop
    <3> QED
      BY <3>1, <3>2
  <2>4. CASE UserInstall
    <3>1. BoolType'
      BY <1>9, <2>4, Zenon DEF BoolType, UserInstall
    <3>2. DataType'
      BY <1>9, <2>4 DEF DataType, UserInstall
    <3> QED
      BY <3>1, <3>2
  <2>5. CASE UserStop
    <3>1. BoolType'
      BY <1>9, <2>5, Zenon DEF BoolType, UserStop
    <3>2. DataType'
      BY <1>9, <2>5 DEF DataType, UserStop
    <3> QED
      BY <3>1, <3>2
  <2>6. CASE UserQuit
    <3>1. BoolType'
      BY <1>9, <2>6, Zenon DEF BoolType, UserQuit, Stop
    <3>2. DataType'
      BY <1>9, <2>6 DEF DataType, UserQuit, Stop
    <3> QED
      BY <3>1, <3>2
  <2>7. CASE Rescan
    <3>1. BoolType'
      BY <1>9, <2>7, Zenon DEF BoolType, Rescan
    <3>2. DataType'
      BY <1>9, <2>7 DEF DataType, Rescan
    <3> QED
      BY <3>1, <3>2
  <2> QED
    BY <1>9, <2>1, <2>2, <2>3, <2>4, <2>5, <2>6, <2>7
<1>10. CASE Script
  <2> USE DEF Script, Command, Deed, At
  <2>1. CASE ScriptCheck
    <3>1. BoolType'
      BY <1>10, <2>1, Zenon DEF BoolType, ScriptCheck, Check
    <3>2. DataType'
      BY <1>10, <2>1 DEF DataType, ScriptCheck, Check
    <3> QED
      BY <3>1, <3>2
  <2>2. CASE ScriptGet
    <3>1. BoolType'
      BY <1>10, <2>2, Zenon DEF BoolType, ScriptGet
    <3>2. DataType'
      BY <1>10, <2>2 DEF DataType, ScriptGet
    <3> QED
      BY <3>1, <3>2
  <2>3. CASE ScriptInstall
    <3>1. BoolType'
      BY <1>10, <2>3, Zenon DEF BoolType, ScriptInstall
    <3>2. DataType'
      BY <1>10, <2>3 DEF DataType, ScriptInstall
    <3> QED
      BY <3>1, <3>2
  <2>4. CASE ScriptTorrent
    <3>1. BoolType'
      BY <1>10, <2>4, Zenon DEF BoolType, ScriptTorrent, Stop
    <3>2. DataType'
      BY <1>10, <2>4 DEF DataType, ScriptTorrent, Stop
    <3> QED
      BY <3>1, <3>2
  <2>5. CASE ScriptWait
    <3>1. BoolType'
      BY <1>10, <2>5, Zenon DEF BoolType, ScriptWait, Wait, CheckEnd, GetEnd
    <3>2. DataType'
      <4>1. script' \in [asked : SUBSET Files, code : {"none", "ok", "fail"}]
        <5>1. \/ script' = script
              \/ \E c \in {"ok", "fail"} : script' = [script EXCEPT !.code = c]
              \/ \E c \in {"ok", "fail"} : script' = [script EXCEPT !.code = c, !.asked = {}]
          <6>1. CASE CheckEnd
            BY <6>1 DEF CheckEnd
          <6>2. CASE GetEnd
            BY <6>2 DEF GetEnd
          <6> QED
            BY <2>5, <6>1, <6>2 DEF ScriptWait, Wait
        <5>2. script \in [asked : SUBSET Files, code : {"none", "ok", "fail"}]
          BY DEF DataType
        <5>3. \A c \in {"ok", "fail"} :
                /\ [script EXCEPT !.code = c]
                     \in [asked : SUBSET Files, code : {"none", "ok", "fail"}]
                /\ [script EXCEPT !.code = c, !.asked = {}]
                     \in [asked : SUBSET Files, code : {"none", "ok", "fail"}]
          BY <5>2
        <5> QED
          BY <5>1, <5>2, <5>3
      <4>2. pc' \in [Clients -> {"startup", "idle", "gone", "off", "start", "poll", "on"}
                          \cup Resuming \cup Joins \cup Waits]
        BY <2>5 DEF DataType, ScriptWait, Wait, CheckEnd, GetEnd
      <4> QED
        BY <1>10, <2>5, <4>1, <4>2 DEF DataType, ScriptWait
    <3> QED
      BY <3>1, <3>2
  <2>6. CASE ScriptInst
    <3>1. BoolType'
      BY <1>10, <2>6, Zenon DEF BoolType, ScriptInst, ScriptZero, InstWait
    <3>2. DataType'
      <4>1. /\ script' \in [asked : SUBSET Files, code : {"none", "ok", "fail"}]
            /\ exitflag' \in [set : BOOLEAN, raised : BOOLEAN]
        <5>1. CASE ScriptZero
          BY <5>1, RecordFacts, ZenonT(60) DEF DataType, ScriptZero
        <5>2. CASE InstWait
          <6>1. script' = script \/ script' = [asked |-> {}, code |-> "ok"]
            BY <5>2 DEF InstWait
          <6>2. exitflag' = exitflag
            BY <5>2 DEF InstWait
          <6>3. [asked |-> {}, code |-> "ok"] \in [asked : SUBSET Files, code : {"none", "ok", "fail"}]
            OBVIOUS
          <6> QED
            BY <6>1, <6>2, <6>3 DEF DataType
        <5> QED
          BY <2>6, <5>1, <5>2 DEF ScriptInst
      <4>2. pc' \in [Clients -> {"startup", "idle", "gone", "off", "start", "poll", "on"}
                          \cup Resuming \cup Joins \cup Waits]
        BY <2>6 DEF DataType, ScriptInst, ScriptZero, InstWait
      <4> QED
        BY <1>10, <2>6, <4>1, <4>2 DEF DataType, ScriptInst
    <3> QED
      BY <3>1, <3>2
  <2> QED
    BY <1>10, <2>1, <2>2, <2>3, <2>4, <2>5, <2>6
<1>11. CASE UNCHANGED vars
  <2>1. BoolType'
    BY <1>11, Zenon DEF BoolType, vars
  <2>2. DataType'
    BY <1>11 DEF DataType, vars
  <2> QED
    BY <2>1, <2>2
<1> QED
  BY <1>1, <1>2, <1>3, <1>4, <1>5, <1>6, <1>7, <1>8, <1>9, <1>10, <1>11
  DEF Next, Main, Inst

----------------------------------------------------------------------------
(* Steps *)

LEMMA ModeStays == [Next]_vars => mode' = mode
  BY DEF Next, Download, Start, Fetch, Got, Notify, Wake, Status, Leave, Move, Report,
     PauseSession, Reset, Close, Unasked, Arrive, Main, ResumeDownloading, Startup, Message,
     Join, Inst, Install, InstallEnd, LowPriority, User, Script, vars

\* The program with a window
LEMMA StepWindow ==
  ASSUME IInv, mode # "script", [Next]_vars
  PROVE  ScriptInv' /\ GetTruthful'
<1>1. script.code = "none" /\ pc["main"] \notin Waits
  BY DEF IInv, ScriptInv
<1>2. mode' = mode
  BY ModeStays
<1>3. SUFFICES script' = script /\ pc'["main"] \notin Waits
  BY <1>1, <1>2 DEF ScriptInv, GetTruthful
<1>4. pc \in [Clients -> {"startup", "idle", "gone", "off", "start", "poll", "on"}
                          \cup Resuming \cup Joins \cup Waits]
  BY DEF IInv, TypeOK
<1> USE <1>1, <1>4 DEF Waits, Clients, scriptVars, guiVars
<1>5. CASE Download
  BY <1>5 DEF Download, Start, Fetch, Got, Notify, Wake, Status, Leave, Move, Report,
     PauseSession, Reset, Close, Unasked
<1>6. ASSUME NEW f \in Files, Arrive(f) PROVE script' = script /\ pc'["main"] \notin Waits
  BY <1>6 DEF Arrive, Unasked
<1>7. ASSUME NEW c \in Clients, ResumeDownloading(c)
      PROVE  script' = script /\ pc'["main"] \notin Waits
  BY <1>7 DEF ResumeDownloading, NoTorrent, Request, Run, At, Back
<1>8. CASE Startup
  BY <1>8 DEF Startup, At
<1>9. CASE Message
  BY <1>9 DEF Message, OnTorrent, OnTimer, ResetUpdater, AskFor, At
<1>10. CASE Join
  BY <1>10 DEF Join
<1>11. CASE Install \/ InstallEnd
  BY <1>11 DEF Install, InstallEnd, NeedPack, NeedNothing, PollDone, At
<1>12. CASE LowPriority
  BY <1>12 DEF LowPriority
<1>13. CASE User
  BY <1>13 DEF User, UserDownload, UserSeed, UserReset, UserInstall, UserStop, UserQuit, Rescan,
     ResetUpdater, AskFor, At
<1>14. CASE Script
  BY <1>14 DEF Script, ScriptCheck, ScriptGet, ScriptInstall, ScriptTorrent, Command, ScriptWait,
     Wait, CheckEnd, GetEnd, ScriptInst, ScriptZero, InstWait, At
<1>15. CASE UNCHANGED vars
  BY <1>15 DEF vars
<1> QED
  BY <1>5, <1>6, <1>7, <1>8, <1>9, <1>10, <1>11, <1>12, <1>13, <1>14, <1>15
  DEF Next, Main, Inst

\* A script
LEMMA StepScript ==
  ASSUME IInv, mode = "script", [Next]_vars
  PROVE  ScriptInv' /\ GetTruthful'
<1>1. /\ ScriptPlaces /\ FlagOwners /\ ThreadPlaces /\ OnItsWay /\ GetTruthful
      /\ mode' = "script"
  BY ModeStays DEF IInv, ScriptInv
<1>2. SUFFICES (ScriptPlaces /\ FlagOwners /\ ThreadPlaces /\ OnItsWay /\ GetTruthful)'
  BY <1>1 DEF ScriptInv
<1>3. /\ pc \in [Clients -> {"startup", "idle", "gone", "off", "start", "poll", "on"}
                          \cup Resuming \cup Joins \cup Waits]
      /\ script \in [asked : SUBSET Files, code : {"none", "ok", "fail"}]
      /\ flag \in Flags /\ dl \in Steps
  BY DEF IInv, TypeOK
<1> USE <1>1, <1>3
    DEF ScriptPlaces, FlagOwners, ThreadPlaces, OnItsWay, GetTruthful, AtInstall, AtCheck, AtGet,
        Clients, Flags, Steps, torrentVars, fileVars, guiVars, scriptVars
<1>4. CASE Download
  <2> USE DEF Goes, Unasked
  <2>1. CASE Start \/ Got \/ Leave \/ PauseSession \/ Reset \/ Close
    BY <2>1 DEF Start, Got, Leave, Completed, PauseSession, Reset, Outer, Close
  <2>2. CASE Fetch
    BY <2>2 DEF Fetch
  <2>3. CASE Notify
    BY <2>3, ZenonT(60) DEF Notify, Outer
  <2>4. CASE Wake
    BY <2>4 DEF Wake, Completed
  <2>5. CASE Status
    BY <2>5 DEF Status
  <2>6. CASE Move
    BY <2>6 DEF Move
  <2>7. CASE Report
    BY <2>7 DEF Report
  <2> QED
    BY <1>4, <2>1, <2>2, <2>3, <2>4, <2>5, <2>6, <2>7 DEF Download
<1>5. ASSUME NEW f \in Files, Arrive(f)
      PROVE  (ScriptPlaces /\ FlagOwners /\ ThreadPlaces /\ OnItsWay /\ GetTruthful)'
  BY <1>5 DEF Arrive, Unasked
<1>6. CASE ResumeDownloading("main")
  BY <1>6, ZenonT(60) DEF ResumeDownloading, NoTorrent, Request, Run, At, Back
<1>7. CASE ResumeDownloading("inst")
  BY <1>7 DEF ResumeDownloading, NoTorrent, Request, Run, At, Back
<1>8. CASE Join
  <2>1. pc["main"] = "new" /\ dl = "ended"
    BY <1>8 DEF Join, Joins
  <2>2. pc'["main"] = "idle" /\ pc'["inst"] = pc["inst"] /\ dl' = "start" /\ flag' = "waiting"
    BY <1>8, <2>1 DEF Join
  <2>3. script' = script /\ installed' = installed /\ early' = early
    BY <1>8 DEF Join
  <2> QED
    BY <2>1, <2>2, <2>3
<1>9. CASE Install
  BY <1>9 DEF Install, NeedPack, NeedNothing, PollDone, At
<1>10. CASE InstallEnd
  BY <1>10 DEF InstallEnd, At
<1>11. CASE Script
  <2>1. UNCHANGED <<dl, torrent, finishedupdating, have, installed, early>>
    BY <1>11 DEF Script
  <2>2. CASE ScriptCheck
    <3>1. pc["main"] = "idle" /\ pc'["main"] = "checktest" /\ pc'["inst"] = pc["inst"]
      BY <2>2 DEF ScriptCheck, Command, At
    <3>2. flag' = flag \/ flag' = "torrent"
      BY <2>2 DEF ScriptCheck, Check
    <3> QED
      BY <2>1, <3>1, <3>2
  <2>3. CASE ScriptGet
    <3>1. pc["main"] = "idle" /\ pc'["main"] = "resume" /\ pc'["inst"] = pc["inst"]
      BY <2>3 DEF ScriptGet, Command, At
    <3>2. torrent /\ script'.asked = wanted' /\ flag' = flag
      BY <2>3 DEF ScriptGet
    <3> QED
      BY <2>1, <3>1, <3>2
  <2>4. CASE ScriptInstall
    <3>1. pc["main"] = "idle" /\ pc'["main"] = "instzero" /\ flag' = flag
      BY <2>4 DEF ScriptInstall, Command
    <3> QED
      BY <2>1, <3>1
  <2>5. CASE ScriptTorrent
    <3>1. pc["main"] = "idle" /\ pc'["main"] = "new" /\ pc'["inst"] = pc["inst"]
      BY <2>5 DEF ScriptTorrent, Command, At
    <3>2. flag' = "stopping" /\ script'.code = "none"
      BY <2>5 DEF ScriptTorrent, Stop
    <3> QED
      BY <2>1, <3>1, <3>2
  <2>6. CASE ScriptWait
    <3>1. UNCHANGED <<flag, wanted, exitflag>> /\ pc'["inst"] = pc["inst"]
      BY <2>6 DEF ScriptWait, Wait, CheckEnd, GetEnd, At
    <3>2. CASE CheckEnd
      <4>1. pc["main"] = "checktest" /\ pc'["main"] = "idle" /\ flag # "torrent"
        BY <3>2 DEF CheckEnd, At
      <4>2. script'.asked = {}
        BY <3>2 DEF CheckEnd
      <4> QED
        BY <2>1, <3>1, <4>1, <4>2
    <3>3. CASE GetEnd
      <4>1. pc["main"] = "datatest" /\ pc'["main"] = "idle" /\ flag # "data"
        BY <3>3 DEF GetEnd, At
      <4>2. /\ script'.asked = script.asked
            /\ script'.code = "ok" => flag = "finished"
        BY <3>3 DEF GetEnd
      <4> QED
        BY <2>1, <3>1, <4>1, <4>2
    <3>4. CASE script' = script /\ AtCheck /\ AtCheck'
      BY <2>1, <3>1, <3>4
    <3>5. CASE /\ script' = script
               /\ pc["main"] \in {"datatest", "datasleep"} /\ pc'["main"] \in {"datatest", "datasleep"}
      BY <2>1, <3>1, <3>5
    <3> QED
      BY <2>6, <3>2, <3>3, <3>4, <3>5 DEF ScriptWait, Wait, At
  <2>7. CASE ScriptInst
    <3>1. UNCHANGED <<flag, wanted>> /\ pc'["inst"] = pc["inst"] /\ AtInstall
      BY <2>7 DEF ScriptInst, ScriptZero, InstWait, At
    <3>2. CASE ScriptZero
      <4>1. pc'["main"] = "insttest" /\ ~exitflag'.set
        BY <3>2 DEF ScriptZero, At
      <4> QED
        BY <2>1, <3>1, <4>1
    <3>3. CASE InstWait
      <4>1. /\ exitflag' = exitflag /\ pc["main"] \in {"insttest", "instsleep"}
            /\ \/ pc'["main"] \in {"insttest", "instsleep"}
               \/ pc'["main"] = "idle" /\ exitflag.set /\ script'.asked = {}
        BY <3>3 DEF InstWait, At
      <4> QED
        BY <2>1, <3>1, <4>1
    <3> QED
      BY <2>7, <3>2, <3>3 DEF ScriptInst
  <2> QED
    BY <1>11, <2>2, <2>3, <2>4, <2>5, <2>6, <2>7 DEF Script
<1>12. CASE Startup \/ Message \/ LowPriority \/ User
  BY <1>12 DEF Startup, At, Message, Gui, LowPriority, User
<1>13. CASE UNCHANGED vars
  BY <1>13 DEF vars
<1> QED
  BY <1>4, <1>5, <1>6, <1>7, <1>8, <1>9, <1>10, <1>11, <1>12, <1>13
  DEF Next, Main, Inst

LEMMA InitInv == Init => IInv
<1> SUFFICES ASSUME Init PROVE ScriptInv /\ GetTruthful
  BY InitType DEF IInv
<1>1. mode = "script" => ScriptPlaces /\ FlagOwners /\ ThreadPlaces /\ OnItsWay
  BY DEF Init, ScriptPlaces, FlagOwners, ThreadPlaces, OnItsWay, AtInstall, AtCheck, AtGet
<1>2. script.code = "none" /\ pc["main"] \notin Waits
  BY DEF Init, Waits
<1> QED
  BY <1>1, <1>2 DEF ScriptInv, GetTruthful

LEMMA Invariance == Spec => []IInv
<1>1. IInv /\ [Next]_vars => IInv'
  BY StepType, StepWindow, StepScript DEF IInv
<1> QED
  BY InitInv, <1>1, PTL DEF Spec

\* TypeOK holds in any run of the updater, with a window or a script
THEOREM TypeInvariant == Spec => []TypeOK
<1>1. IInv => TypeOK
  BY DEF IInv
<1> QED
  BY <1>1, Invariance, PTL

\* GetTruthful: a get that reports success (script.cpp, the test for FINISHED_DOWNLOADING)
\* has moved every file it asked for, unless its request was answered before it was complete
THEOREM UpdaterGets == Spec => []GetTruthful
<1>1. IInv => GetTruthful
  BY DEF IInv
<1> QED
  BY <1>1, Invariance, PTL

=============================================================================
