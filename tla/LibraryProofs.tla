--------------------------- MODULE LibraryProofs ---------------------------
(***************************************************************************)
(* For any packs, contents, options and changes of the folders: what is    *)
(* known of an archive is what is in it, no archive is overlooked, and a   *)
(* saved list has the index files it needs, and no others.                 *)
(***************************************************************************)
EXTENDS Library, TLAPS

----------------------------------------------------------------------------
(* The inductive invariant *)

\* Files are written, and archives are loaded, at their time only.  A pack is no update.  The
\* shadow bundle is empty between the scans
PlaceInv ==
  /\ \A n \in Names : shown[n].type # "open" /\ (entry[n].type = "open" => pc = "save")
  /\ \A p \in Packs :
       /\ entry[p].type = "new" => pc = "scan"
       /\ entry[p].type # "update" /\ shown[p].type \notin {"new", "update"}
       /\ pc \in {"wait", "saved", "begun"} => entry[p].type = "absent"

\* p is in a list, or need not be
In(list, p) == Present(p) => list[p].type # "absent" \/ (loaded /\ p \in Sub)

\* A pack that is not in the list of a bundle is one a scan is requested for, and where that
\* scan is to read the folder, the bit is there beside the event
NoticedInv ==
  \A p \in Packs \ overlooked :
    /\ pc \in {"wait", "saved"} => (indices /\ event) \/ In(shown, p)
    /\ pc = "begun" => indices \/ In(shown, p)
    /\ pc = "scan" => Cancelled \/ (Met(p) => In(entry, p))
    /\ pc = "test" => /\ (indices /\ Cancelled) \/ In(entry, p)
                      /\ indices \/ In(shown, p)
    /\ pc = "deliver" => In(entry, p)
    /\ pc = "save" => (indices /\ event) \/ In(entry, p)

\* The list on display is what the last scan of the folder has found
Current == pc = "saved" \/ (~indices /\ pc \in {"wait", "begun", "test"})

\* No scan of the folder lists p
Unlisted(p) == folder[p] = "no" \/ (loaded /\ p \in Sub)

\* As long as the folders do not change, the list is that of the folder, and the bit is there
\* until the list is taken over,
ListInv ==
  /\ pc = "scan" => indices
  /\ ~touched =>
       \A p \in Packs :
         /\ pc = "scan" => (entry[p].type = "absent" <=> ~Met(p) \/ Unlisted(p))
         /\ pc \in {"test", "deliver", "save"} => (entry[p].type = "absent" <=> Unlisted(p))
         /\ Current => (shown[p].type = "absent" <=> Unlisted(p))

\* and what is generated from an archive is its content
GeneratedInv ==
  ~touched =>
    \A p \in Packs : Present(p) =>
      /\ entry[p].type \in {"pending", "open"} => entry[p].tables = folder[p]
      /\ Current /\ shown[p].type = "pending" => shown[p].tables = folder[p]

\* Index files of indexed packs exist, after Collection::save no other one does
FilesInv ==
  \A p \in Packs :
    /\ entry[p].type \in {"open", "indexed"} \/ shown[p].type = "indexed" => bin[p].ver = "now"
    /\ pc = "saved" /\ p \notin opt.readonly =>
         shown[p].type = "indexed" \/ (shown[p].type = "absent" /\ bin[p].ver = "none")

\* With -reindex no pack is taken from its index file
ForcedInv ==
  /\ pc = "scan" => force = forced
  /\ forced /\ ~touched =>
       \A p \in Packs : Present(p) =>
         /\ entry[p].type = "indexed" => p \notin harmed
         /\ Current /\ shown[p].type = "indexed" => p \notin harmed

IInv ==
  /\ TypeOK /\ PlaceInv /\ Faithful /\ NoticedInv /\ ListInv /\ GeneratedInv /\ FilesInv
  /\ ForcedInv

----------------------------------------------------------------------------
(* Types *)

LEMMA NamesFacts == Packs \subseteq Names /\ Loose \in Names /\ Loose \notin Packs
  BY PackAssumption DEF Names

\* Records of index files and of entries, and their updates
LEMMA RecordFacts ==
  /\ NoFile \in File /\ Outdated \in File /\ Absent \in Entry
  /\ \A t \in Tables :
       /\ Pending(t) \in Entry /\ [type |-> "indexed", tables |-> t] \in Entry
       /\ [type |-> "new", tables |-> t] \in Entry /\ [type |-> "update", tables |-> t] \in Entry
       /\ [ver |-> "now", tables |-> t] \in File /\ [ver |-> "old", tables |-> t] \in File
  /\ \A e \in Entry :
       /\ e.tables \in Tables
       /\ [e EXCEPT !.type = "open"] \in Entry /\ [e EXCEPT !.type = "indexed"] \in Entry
       /\ \A t \in Tables : [e EXCEPT !.tables = t] \in Entry
  /\ \A f \in File : f.tables \in Tables /\ \A t \in Tables : [f EXCEPT !.tables = t] \in File
  /\ "empty" \in Tables /\ "cut" \in Tables /\ Contents \subseteq Tables /\ Inf \in Contents
  BY PackAssumption DEF NoFile, Outdated, File, Absent, Entry, Pending, Tables

LEMMA LenFacts == Found \in Seq(Packs) /\ Len(Found) \in Nat /\ DOMAIN Found = 1..Len(Found)
  BY PackAssumption

LEMMA InitType == Init => TypeOK
<1> SUFFICES ASSUME Init PROVE TypeOK
  OBVIOUS
<1>1. (CHOOSE x \in Contents : TRUE) \in Contents
  BY PackAssumption
<1>2. folder \in [Packs -> Contents \cup {"no", "copying"}] /\ opt \in OptionSet
  BY <1>1, PackAssumption DEF Init
<1>3. bin \in [Names -> File]
  <2>1. PICK f \in {Outdated, [ver |-> "now", tables |-> CHOOSE x \in Contents : TRUE]} :
               bin = [n \in Names |-> f]
    BY DEF Init
  <2>2. f \in File
    BY <1>1, RecordFacts
  <2> QED
    BY <2>1, <2>2
<1>4. online \in [Packs -> File]
  BY RecordFacts DEF Init
<1>5. /\ entry \in [Names -> Entry] /\ offer \in [Packs -> Entry]
      /\ shown \in [Names -> Entry] /\ shownOffer \in [Packs -> Entry]
  BY RecordFacts DEF Init, NoEntry, NoOffer
<1>6. moving \in [packs : SUBSET Packs, online : SUBSET Packs]
  BY DEF Init
<1>7. seen \in 0..(Len(Found) + 1) /\ changes \in 0..MaxChanges /\ crashes \in 0..MaxCrashes
  BY LenFacts, BoundAssumption DEF Init
<1>8. /\ indices \in BOOLEAN /\ event \in BOOLEAN /\ force \in BOOLEAN /\ loaded \in BOOLEAN
      /\ touched \in BOOLEAN /\ forced \in BOOLEAN /\ harmed \subseteq Packs
      /\ overlooked \subseteq Packs /\ monitor \in {"on", "moving", "moved"}
      /\ pc \in {"wait", "begun", "scan", "test", "deliver", "save", "saved"}
  BY DEF Init
<1> QED
  BY <1>2, <1>3, <1>4, <1>5, <1>6, <1>7, <1>8 DEF TypeOK

\* loadOnlineIndices makes entries
LEMMA OnlineType == TypeOK /\ LoadOnline => offer' \in [Packs -> Entry]
<1> SUFFICES ASSUME TypeOK, LoadOnline PROVE offer' \in [Packs -> Entry]
  OBVIOUS
<1> DEFINE files == {p \in Packs : online[p].ver # "none"}
<1>1. PICK first : offer' = [p \in Packs |->
        IF p \notin files \ {first} \/ (folder[p] # "no" /\ p \notin Sub) THEN Absent
        ELSE IF Valid(online[p]) THEN [type |-> "update", tables |-> online[p].tables]
        ELSE Pending("empty")]
  BY DEF LoadOnline
<1>2. ASSUME NEW p \in Packs PROVE [type |-> "update", tables |-> online[p].tables] \in Entry
  <2>1. online[p].tables \in Tables
    BY RecordFacts DEF TypeOK
  <2> QED
    BY <2>1, RecordFacts
<1>3. Absent \in Entry /\ Pending("empty") \in Entry
  BY RecordFacts
<1> QED
  BY <1>1, <1>2, <1>3

LEMMA NoListType == NoEntry \in [Names -> Entry] /\ NoOffer \in [Packs -> Entry]
  BY RecordFacts DEF NoEntry, NoOffer

LEMMA StepType == TypeOK /\ [Next]_vars => TypeOK'
<1> SUFFICES ASSUME TypeOK, [Next]_vars PROVE TypeOK'
  OBVIOUS
<1> USE NamesFacts, RecordFacts, LenFacts, BoundAssumption, NoListType
     DEF TypeOK, diskVars, signals, moveVars, envVars, listVars, scanVars, history, scanState
<1>1. CASE WakeUp \/ Copy \/ Deliver
  BY <1>1 DEF WakeUp, Copy, Deliver
<1>2. CASE Start
  <2>1. loaded' \in BOOLEAN
    BY <1>2 DEF Start, Valid
  <2>2. entry' \in [Names -> Entry]
    BY <1>2 DEF Start
  <2>3. pc' = "scan" /\ seen' = 0 /\ touched' = FALSE /\ forced' = force /\ overlooked' = {}
    BY <1>2, Zenon DEF Start
  <2>4. UNCHANGED <<folder, bin, online, force, opt, indices, event, moving, monitor, changes,
                    crashes, harmed, offer, shown, shownOffer>>
    BY <1>2 DEF Start
  <2>5. seen' \in 0..(Len(Found) + 1)
    BY <2>3
  <2>6. moving' \in [packs : SUBSET Packs, online : SUBSET Packs]
    BY <2>4
  <2> QED
    BY <2>1, <2>2, <2>3, <2>4, <2>5, <2>6
<1>3. ASSUME NEW p \in Packs, Visit(p) PROVE TypeOK'
  <2>1. seen' \in 0..(Len(Found) + 1)
    BY <1>3, SMTT(30) DEF Visit
  <2>2. entry' \in [Names -> Entry]
    BY <1>3 DEF Visit
  <2> QED
    BY <1>3, <2>1, <2>2 DEF Visit
<1>4. CASE VisitLoose
  <2>1. Inf \in Tables
    OBVIOUS
  <2>2. entry' \in [Names -> Entry]
    BY <1>4, <2>1 DEF VisitLoose
  <2>3. seen' \in 0..(Len(Found) + 1)
    BY <1>4 DEF VisitLoose
  <2> QED
    BY <1>4, <2>2, <2>3 DEF VisitLoose
<1>5. ASSUME NEW p \in Packs, Load(p) PROVE TypeOK'
  <2>1. Generated(p) \in Tables
    BY DEF Generated, Present
  <2>2. entry' \in [Names -> Entry]
    BY <1>5, <2>1 DEF Load
  <2> QED
    BY <1>5, <2>2, ZenonT(60) DEF Load
<1>6. CASE Populated
  BY <1>6, OnlineType DEF Populated
<1>7. CASE Cancel
  BY <1>7 DEF Cancel, Discard
<1>8. ASSUME NEW n \in Names, Open(n) PROVE TypeOK'
  BY <1>8 DEF Open
<1>9. ASSUME NEW n \in Names, Close(n) PROVE TypeOK'
  BY <1>9, ZenonT(60) DEF Close
<1>10. ASSUME NEW p \in Packs, OpenOnline(p) PROVE TypeOK'
  BY <1>10 DEF OpenOnline
<1>11. ASSUME NEW p \in Packs, CloseOnline(p) PROVE TypeOK'
  BY <1>11, ZenonT(60) DEF CloseOnline
<1>12. CASE Purge
  BY <1>12 DEF Purge, Swap
<1>13. ASSUME NEW p \in Packs, CopyBegins(p) PROVE TypeOK'
  BY <1>13, SMTT(30) DEF CopyBegins
<1>14. ASSUME NEW p \in Packs, CopyEnds(p) PROVE TypeOK'
  <2>1. /\ folder' \in [Packs -> Contents \cup {"no", "copying"}] /\ harmed' \subseteq Packs
        /\ touched' = TRUE
    <3>1. PICK c \in Contents : Arrives(p, c)
      BY <1>14 DEF CopyEnds
    <3> QED
      BY <3>1 DEF Arrives
  <2>2. indices' \in BOOLEAN /\ event' \in BOOLEAN /\ overlooked' \subseteq Packs
    BY <1>14 DEF CopyEnds, Reported, Requested, Unreported
  <2> QED
    BY <1>14, <2>1, <2>2 DEF CopyEnds
<1>15. ASSUME NEW p \in Packs, Remove(p) PROVE TypeOK'
  <2>1. indices' \in BOOLEAN /\ event' \in BOOLEAN
    BY <1>15 DEF Remove, Reported, Requested, Unreported
  <2>2. changes' \in 0..MaxChanges /\ folder' \in [Packs -> Contents \cup {"no", "copying"}]
    BY <1>15, SMTT(30) DEF Remove
  <2>3. touched' = TRUE /\ UNCHANGED <<online, scanState, moveVars, forced, harmed, overlooked>>
    BY <1>15 DEF Remove
  <2> QED
    BY <2>1, <2>2, <2>3
<1>16. CASE Request
  <2>1. indices' \in BOOLEAN /\ event' \in BOOLEAN
    BY <1>16 DEF Request
  <2>2. UNCHANGED <<diskVars, scanState, moveVars, changes, history>>
    BY <1>16 DEF Request
  <2> QED
    BY <2>1, <2>2
<1>17. CASE MoveBegins
  <2>1. PICK P \in SUBSET (OnTorrent \ Sub), O \in SUBSET OnTorrent :
          /\ moving' = [packs |-> P, online |-> O]
          /\ online' = IF O = {} THEN online ELSE [p \in Packs |-> NoFile]
    BY <1>17 DEF MoveBegins
  <2>2. moving' \in [packs : SUBSET Packs, online : SUBSET Packs]
    BY <2>1, PackAssumption
  <2>3. online' \in [Packs -> File]
    BY <2>1
  <2>4. changes' \in 0..MaxChanges
    <3>1. changes < MaxChanges /\ changes' = changes + 1
      BY <1>17, Zenon DEF MoveBegins
    <3>2. changes \in 0..MaxChanges
      OBVIOUS
    <3> QED
      BY <3>1, <3>2, SMTT(30)
  <2>5. /\ monitor' = "moving" /\ touched' = TRUE
        /\ UNCHANGED <<folder, signals, scanState, forced, harmed, overlooked>>
    BY <1>17, Zenon DEF MoveBegins
  <2> QED
    BY <2>2, <2>3, <2>4, <2>5
<1>18. ASSUME NEW p \in Packs, MovePack(p) PROVE TypeOK'
  <2> DEFINE old == {q \in Older[p] : Displayed[q].type # "absent"}
  <2>1. /\ folder' \in [Packs -> Contents \cup {"no", "copying"}]
        /\ harmed' \subseteq Packs /\ overlooked' \subseteq Packs
    <3>1. PICK c \in Contents :
            \/ /\ folder' = [q \in Packs |-> IF q = p THEN c ELSE IF q \in old THEN "no" ELSE folder[q]]
               /\ harmed' = IF Overtaken(p, c) THEN harmed \cup {p} ELSE harmed \ {p}
               /\ overlooked' = overlooked \cup {p}
            \/ /\ folder' = [q \in Packs |-> IF q \in old \ {p} THEN "no" ELSE folder[q]]
               /\ UNCHANGED <<harmed, overlooked>>
      BY <1>18 DEF MovePack
    <3>2. /\ [q \in Packs |-> IF q = p THEN c ELSE IF q \in old THEN "no" ELSE folder[q]]
               \in [Packs -> Contents \cup {"no", "copying"}]
          /\ [q \in Packs |-> IF q \in old \ {p} THEN "no" ELSE folder[q]]
               \in [Packs -> Contents \cup {"no", "copying"}]
      OBVIOUS
    <3> HIDE DEF old
    <3> QED
      BY <3>1, <3>2
  <2>2. moving' \in [packs : SUBSET Packs, online : SUBSET Packs]
    BY <1>18 DEF MovePack
  <2> QED
    BY <1>18, <2>1, <2>2 DEF MovePack
<1>19. ASSUME NEW p \in Packs, MoveOnline(p) PROVE TypeOK'
  <2>1. moving' \in [packs : SUBSET Packs, online : SUBSET Packs]
    BY <1>19 DEF MoveOnline
  <2>2. online' \in [Packs -> File]
    <3>1. PICK c \in Contents : online' = [online EXCEPT ![p] = [ver |-> "now", tables |-> c]]
      BY <1>19 DEF MoveOnline
    <3>2. [ver |-> "now", tables |-> c] \in File
      OBVIOUS
    <3> QED
      BY <3>1, <3>2
  <2> QED
    BY <1>19, <2>1, <2>2, ZenonT(60) DEF MoveOnline
<1>20. CASE MoveEnds \/ Resume
  BY <1>20 DEF MoveEnds, Resume, Requested
<1>21. CASE Crash
  <2>1. bin' \in [Names -> File] /\ harmed' \subseteq Packs
    <3>1. PICK cut \in SUBSET Opened :
             /\ bin' = [n \in Names |-> IF n \in Opened \ cut THEN [ver |-> "old", tables |-> "cut"]
                                       ELSE bin[n]]
             /\ harmed' = (harmed \ (Opened \ cut)) \cup (cut \ {Loose})
      BY <1>21 DEF Crash
    <3>2. [ver |-> "old", tables |-> "cut"] \in File
      OBVIOUS
    <3>3. cut \ {Loose} \subseteq Packs
      BY DEF Opened, Names
    <3> QED
      BY <3>1, <3>2, <3>3
  <2>2. /\ entry' \in [Names -> Entry] /\ offer' \in [Packs -> Entry]
        /\ shown' \in [Names -> Entry] /\ shownOffer' \in [Packs -> Entry]
    BY <1>21 DEF Crash
  <2>3. moving' \in [packs : SUBSET Packs, online : SUBSET Packs]
    BY <1>21 DEF Crash
  <2>4. /\ pc' = "wait" /\ indices' = TRUE /\ event' = TRUE /\ force' \in BOOLEAN
        /\ loaded' = FALSE /\ monitor' = "on" /\ touched' = FALSE /\ forced' = FALSE /\ seen' = 0
        /\ overlooked' = {} /\ crashes < MaxCrashes /\ crashes' = crashes + 1
    BY <1>21, Zenon DEF Crash, Requested
  <2>5. UNCHANGED <<folder, online, opt, changes>>
    BY <1>21 DEF Crash
  <2>6. seen' \in 0..(Len(Found) + 1) /\ crashes' \in 0..MaxCrashes
    BY <2>4, SMTT(30)
  <2> QED
    BY <2>1, <2>2, <2>3, <2>4, <2>5, <2>6
<1>22. CASE TakeOver
  <2>1. [entry EXCEPT ![Loose].type = "indexed"] \in [Names -> Entry]
    OBVIOUS
  <2>2. /\ entry' \in [Names -> Entry] /\ offer' \in [Packs -> Entry]
        /\ shown' \in [Names -> Entry] /\ shownOffer' \in [Packs -> Entry] /\ pc' \in {"wait", "save"}
    BY <1>22, <2>1 DEF TakeOver, Swap
  <2> QED
    BY <1>22, <2>2 DEF TakeOver
<1>23. CASE UNCHANGED vars
  BY <1>23, SMTT(30) DEF vars
<1> QED
  BY <1>1, <1>2, <1>3, <1>4, <1>5, <1>6, <1>7, <1>8, <1>9, <1>10, <1>11, <1>12, <1>13, <1>14,
     <1>15, <1>16, <1>17, <1>18, <1>19, <1>20, <1>21, <1>22, <1>23
    DEF Next, Scan, Copying

----------------------------------------------------------------------------
(* Steps *)

\* A change of the folders, or of what is requested
FolderStep ==
  \/ Request \/ MoveBegins \/ MoveEnds \/ Resume
  \/ \E p \in Packs : CopyBegins(p) \/ CopyEnds(p) \/ Remove(p) \/ MovePack(p) \/ MoveOnline(p)

\* None changes a list or takes back a request, and each that changes an archive is remembered
\* in touched
LEMMA FolderSteps ==
  ASSUME TypeOK, FolderStep
  PROVE  /\ UNCHANGED <<bin, opt, pc, force, loaded, seen, entry, shown, forced>>
         /\ touched' = TRUE \/ UNCHANGED <<folder, touched, harmed>>
         /\ (indices => indices') /\ (event => event')
<1> USE DEF TypeOK, scanState, scanVars, listVars, diskVars, signals, moveVars, history, Requested
<1>1. CASE Request
  BY <1>1 DEF Request
<1>2. CASE MoveBegins
  BY <1>2 DEF MoveBegins
<1>3. CASE MoveEnds \/ Resume
  BY <1>3 DEF MoveEnds, Resume
<1>4. ASSUME NEW p \in Packs, CopyBegins(p) \/ Remove(p)
      PROVE  /\ UNCHANGED <<bin, opt, pc, force, loaded, seen, entry, shown, forced>>
             /\ touched' = TRUE /\ (indices => indices') /\ (event => event')
  BY <1>4 DEF CopyBegins, Remove, Reported, Unreported
<1>5. ASSUME NEW p \in Packs, CopyEnds(p)
      PROVE  /\ UNCHANGED <<bin, opt, pc, force, loaded, seen, entry, shown, forced>>
             /\ touched' = TRUE /\ (indices => indices') /\ (event => event')
  BY <1>5 DEF CopyEnds, Arrives, Reported, Unreported
<1>6. ASSUME NEW p \in Packs, MovePack(p) \/ MoveOnline(p)
      PROVE  /\ UNCHANGED <<bin, opt, pc, force, loaded, seen, entry, shown, forced>>
             /\ touched' = TRUE /\ (indices => indices') /\ (event => event')
  BY <1>6 DEF MovePack, MoveOnline
<1> QED
  BY <1>1, <1>2, <1>3, <1>4, <1>5, <1>6 DEF FolderStep

\* The index of a pack to download is written, or nothing happens
OnlineStep == UNCHANGED vars \/ \E p \in Packs : OpenOnline(p) \/ CloseOnline(p)

LEMMA OnlineSteps ==
  ASSUME OnlineStep
  PROVE  UNCHANGED <<folder, bin, opt, pc, signals, force, loaded, seen, entry, shown, history>>
<1>1. ASSUME NEW p \in Packs, OpenOnline(p) \/ CloseOnline(p)
      PROVE  UNCHANGED <<folder, bin, opt, pc, signals, force, loaded, seen, entry, shown, history>>
  BY <1>1 DEF OpenOnline, CloseOnline, envVars
<1> QED
  BY <1>1 DEF OnlineStep, vars, diskVars, scanVars, listVars

\* The other steps are those of the scanning thread, and the end of the program
LEMMA Steps ==
  [Next]_vars =>
    \/ WakeUp \/ Copy \/ Start \/ VisitLoose \/ Populated \/ Cancel \/ Deliver \/ TakeOver
    \/ Purge \/ Crash
    \/ \E p \in Packs : Visit(p) \/ Load(p)
    \/ \E n \in Names : Open(n) \/ Close(n)
    \/ FolderStep \/ OnlineStep
  BY DEF Next, Scan, Copying, FolderStep, OnlineStep

\* Every name has been visited when scanfolder is at its end
LEMMA AllMet == ASSUME NEW p \in Packs, seen \in Nat, seen >= Len(Found) PROVE Met(p)
  BY LenFacts DEF Met, Packs

\* The list of packs is the one that is shown, or goes on to be saved
LEMMA TakesOver ==
  ASSUME TypeOK, TakeOver
  PROVE  /\ pc = "deliver" /\ ~indices'
         /\ UNCHANGED <<folder, bin, opt, event, force, loaded, seen, history>>
         /\ \/ pc' = "wait" /\ \A n \in Names : shown'[n] = entry[n] /\ entry'[n] = Absent
            \/ pc' = "save" /\ shown' = shown /\ \A p \in Packs : entry'[p] = entry[p]
<1>1. /\ pc = "deliver" /\ ~indices'
      /\ UNCHANGED <<folder, bin, opt, event, force, loaded, seen, history>>
  BY DEF TakeOver, diskVars, envVars, history
<1>2. CASE opt.ext \/ ~opt.writable
  <2>1. pc' = "wait" /\ shown' = entry /\ entry' = NoEntry
    BY <1>2 DEF TakeOver, Swap
  <2> QED
    BY <1>1, <2>1, NamesFacts DEF NoEntry
<1>3. CASE ~(opt.ext \/ ~opt.writable)
  <2>1. /\ pc' = "save" /\ shown' = shown
        /\ entry' = IF opt.keep THEN entry ELSE [entry EXCEPT ![Loose].type = "indexed"]
    BY <1>3 DEF TakeOver
  <2>2. \A p \in Packs : entry'[p] = entry[p]
    BY <2>1, NamesFacts DEF TypeOK
  <2> QED
    BY <1>1, <2>1, <2>2
<1> QED
  BY <1>2, <1>3

\* Each action of the scan has its place
LEMMA InitPlace == Init => PlaceInv
  BY NamesFacts, LenFacts DEF Init, PlaceInv, NoEntry, Absent

LEMMA StepPlace == TypeOK /\ PlaceInv /\ [Next]_vars => PlaceInv'
<1> SUFFICES ASSUME TypeOK, PlaceInv, [Next]_vars PROVE PlaceInv'
  OBVIOUS
<1> USE NamesFacts, LenFacts
    DEF TypeOK, PlaceInv,
        diskVars, signals, envVars, moveVars, listVars, history
<1>1. CASE WakeUp
  BY <1>1 DEF WakeUp
<1>2. CASE Copy
  BY <1>2 DEF Copy
<1>3. CASE Start
  BY <1>3 DEF Start, NoEntry, Absent, Pending
<1>4. ASSUME NEW p \in Packs, Visit(p) PROVE PlaceInv'
  BY <1>4 DEF Visit
<1>5. CASE VisitLoose
  BY <1>5 DEF VisitLoose
<1>6. ASSUME NEW p \in Packs, Load(p) PROVE PlaceInv'
  BY <1>6 DEF Load, Pending, Generated
<1>7. CASE Populated
  BY <1>7 DEF Populated
<1>8. CASE Cancel
  BY <1>8 DEF Cancel, Cancelled, Discard, NoEntry, Absent
<1>9. CASE Deliver
  BY <1>9 DEF Deliver, Cancelled
<1>10. CASE TakeOver
  BY <1>10, TakesOver DEF Absent
<1>11. ASSUME NEW n \in Names, Open(n) PROVE PlaceInv'
  BY <1>11 DEF Open
<1>12. ASSUME NEW n \in Names, Close(n) PROVE PlaceInv'
  BY <1>12 DEF Close
<1>13. CASE Purge
  BY <1>13 DEF Purge, Swap, Belongs, Opened, NoEntry, Absent, NoFile
<1>14. CASE Crash
  BY <1>14 DEF Crash, Requested, NoEntry, Absent, Opened
<1>15. CASE FolderStep
  BY <1>15, FolderSteps
<1>16. CASE OnlineStep
  BY <1>16, OnlineSteps DEF history, signals
<1> QED
  BY Steps, <1>1, <1>2, <1>3, <1>4, <1>5, <1>6, <1>7, <1>8, <1>9, <1>10, <1>11, <1>12, <1>13, <1>14,
     <1>15, <1>16

\* Visit enters what is in the folder, later steps keep it in the list
LEMMA InitList == Init => ListInv
  BY NamesFacts, LenFacts DEF Init, ListInv, NoEntry, Absent, Current

LEMMA StepList == TypeOK /\ PlaceInv /\ ListInv /\ [Next]_vars => ListInv'
<1> SUFFICES ASSUME TypeOK, PlaceInv, ListInv, [Next]_vars PROVE ListInv'
  OBVIOUS
<1> USE NamesFacts, LenFacts
    DEF TypeOK, ListInv, PlaceInv, Current, Unlisted,
        diskVars, signals, envVars, moveVars, listVars, history
<1>1. CASE WakeUp
  BY <1>1 DEF WakeUp
<1>2. CASE Copy
  BY <1>2 DEF Copy
<1>3. CASE Start
  <2>1. ASSUME NEW p \in Packs PROVE ~Met(p)'
    BY <1>3 DEF Start, Met
  <2> QED
    BY <1>3, <2>1 DEF Start, NoEntry, Absent
<1>4. ASSUME NEW p \in Packs, Visit(p) PROVE ListInv'
  <2>1. Met(p)' /\ ~Met(p)
    <3>1. seen + 1 \in DOMAIN Found /\ Found[seen + 1] = p /\ seen' = seen + 1
      BY <1>4 DEF Visit
    <3>2. \A k \in DOMAIN Found : Found[k] = p => k = seen + 1
      BY <3>1, PackAssumption
    <3>3. seen \in Int /\ seen + 1 <= seen' /\ ~(seen + 1 <= seen)
      BY <3>1
    <3>4. Met(p)'
      BY <3>1, <3>3 DEF Met
    <3>5. ~Met(p)
      BY <3>2, <3>3 DEF Met
    <3> QED
      BY <3>4, <3>5
  <2>2. ASSUME NEW q \in Packs \ {p} PROVE (Met(q)' <=> Met(q)) /\ entry'[q] = entry[q]
    BY <1>4 DEF Visit, Met
  <2>3. ~touched => entry[p].type = "absent"
    BY <1>4, <2>1 DEF Visit
  <2>4. entry'[p].type = IF folder[p] = "no" \/ (loaded /\ p \in Sub) THEN entry[p].type ELSE "new"
    BY <1>4 DEF Visit
  <2>5. UNCHANGED <<folder, pc, signals, touched, loaded, shown>>
    BY <1>4 DEF Visit
  <2> QED
    BY <1>4, <2>1, <2>2, <2>3, <2>4, <2>5 DEF Visit
<1>5. CASE VisitLoose
  <2>1. ASSUME NEW p \in Packs PROVE Met(p)' /\ Met(p)
    BY <1>5, AllMet DEF VisitLoose, Met
  <2> QED
    BY <1>5, <2>1 DEF VisitLoose
<1>6. ASSUME NEW p \in Packs, Load(p) PROVE ListInv'
  <2>1. \A q \in Packs : Met(q)' <=> Met(q)
    BY <1>6 DEF Load, Met
  <2>2. \A q \in Packs : entry'[q].type = "absent" <=> entry[q].type = "absent"
    BY <1>6 DEF Load, Pending
  <2> QED
    BY <1>6, <2>1, <2>2 DEF Load
<1>7. CASE Populated
  <2>1. ASSUME NEW p \in Packs PROVE Met(p)
    BY <1>7, AllMet DEF Populated
  <2> QED
    BY <1>7, <2>1 DEF Populated
<1>8. CASE Cancel
  BY <1>8 DEF Cancel, Cancelled, Discard, NoEntry, Absent
<1>9. CASE Deliver
  BY <1>9 DEF Deliver, Cancelled
<1>10. CASE TakeOver
  BY <1>10, TakesOver DEF Absent
<1>11. ASSUME NEW n \in Names, Open(n) PROVE ListInv'
  <2>1. \A q \in Packs : entry'[q].type = "absent" <=> entry[q].type = "absent"
    BY <1>11 DEF Open, Entry
  <2> QED
    BY <1>11, <2>1 DEF Open
<1>12. ASSUME NEW n \in Names, Close(n) PROVE ListInv'
  <2>1. \A q \in Packs : entry'[q].type = "absent" <=> entry[q].type = "absent"
    BY <1>12 DEF Close, Entry
  <2>2. pc = "save"
    BY <1>12 DEF Close
  <2> QED
    BY <1>12, <2>1, <2>2 DEF Close
<1>13. CASE Purge
  BY <1>13 DEF Purge, Swap, Belongs, Opened, NoEntry, Absent, NoFile
<1>14. CASE Crash
  BY <1>14 DEF Crash, Requested, NoEntry, Absent, Opened
<1>15. CASE FolderStep
  <2>1. \A q \in Packs : Met(q)' <=> Met(q)
    BY <1>15, FolderSteps DEF Met
  <2>2. /\ UNCHANGED <<pc, loaded, entry, shown>> /\ (indices => indices')
        /\ touched' = TRUE \/ UNCHANGED <<folder, touched>>
    BY <1>15, FolderSteps
  <2> QED
    BY <2>1, <2>2
<1>16. CASE OnlineStep
  <2>1. \A q \in Packs : Met(q)' <=> Met(q)
    BY <1>16, OnlineSteps DEF Met
  <2> QED
    BY <1>16, <2>1, OnlineSteps
<1> QED
  BY Steps, <1>1, <1>2, <1>3, <1>4, <1>5, <1>6, <1>7, <1>8, <1>9, <1>10, <1>11, <1>12, <1>13, <1>14,
     <1>15, <1>16

\* Only loaddrp_thread generates
LEMMA InitGenerated == Init => GeneratedInv
  BY NamesFacts, LenFacts DEF Init, GeneratedInv, NoEntry, Absent, Current

LEMMA StepGenerated == TypeOK /\ PlaceInv /\ ListInv /\ GeneratedInv /\ [Next]_vars => GeneratedInv'
<1> SUFFICES ASSUME TypeOK, PlaceInv, ListInv, GeneratedInv, [Next]_vars PROVE GeneratedInv'
  OBVIOUS
<1> USE NamesFacts, LenFacts
    DEF TypeOK, GeneratedInv, PlaceInv, Present, Current,
        diskVars, signals, envVars, moveVars, listVars, history
<1>1. CASE WakeUp
  BY <1>1 DEF WakeUp
<1>2. CASE Copy
  BY <1>2 DEF Copy
<1>3. CASE Start
  <2>1. indices' /\ pc' = "scan"
    BY <1>3 DEF Start
  <2> QED
    BY <1>3, <2>1 DEF Start, NoEntry, Absent, Pending
<1>4. ASSUME NEW p \in Packs, Visit(p) PROVE GeneratedInv'
  BY <1>4 DEF Visit
<1>5. CASE VisitLoose
  BY <1>5 DEF VisitLoose
<1>6. ASSUME NEW p \in Packs, Load(p) PROVE GeneratedInv'
  <2>1. pc = "scan" /\ indices /\ UNCHANGED <<folder, pc, signals, touched, shown>>
    BY <1>6 DEF Load, ListInv
  <2>2. \A q \in Packs \ {p} : entry'[q] = entry[q]
    BY <1>6 DEF Load
  <2>3. \/ entry'[p].type = "indexed"
        \/ entry'[p].tables = IF Present(p) THEN folder[p] ELSE "empty"
    BY <1>6 DEF Load, Pending, Generated
  <2> QED
    BY <2>1, <2>2, <2>3
<1>7. CASE Populated
  BY <1>7 DEF Populated, ListInv
<1>8. CASE Cancel
  BY <1>8 DEF Cancel, Cancelled, Discard, NoEntry, Absent
<1>9. CASE Deliver
  BY <1>9 DEF Deliver, Cancelled
<1>10. CASE TakeOver
  BY <1>10, TakesOver DEF Absent
<1>11. ASSUME NEW n \in Names, Open(n) PROVE GeneratedInv'
  BY <1>11 DEF Open
<1>12. ASSUME NEW n \in Names, Close(n) PROVE GeneratedInv'
  BY <1>12 DEF Close
<1>13. CASE Purge
  BY <1>13 DEF Purge, Swap, Belongs, Opened, NoEntry, Absent, NoFile
<1>14. CASE Crash
  BY <1>14 DEF Crash, Requested, NoEntry, Absent, Opened
<1>15. CASE FolderStep
  BY <1>15, FolderSteps
<1>16. CASE OnlineStep
  BY <1>16, OnlineSteps DEF history, signals
<1> QED
  BY Steps, <1>1, <1>2, <1>3, <1>4, <1>5, <1>6, <1>7, <1>8, <1>9, <1>10, <1>11, <1>12, <1>13, <1>14,
     <1>15, <1>16

\* Each index file is there when its pack becomes indexed, Purge leaves no other
LEMMA InitFiles == Init => FilesInv
  BY NamesFacts, LenFacts DEF Init, FilesInv, NoEntry, Absent

LEMMA StepFiles == TypeOK /\ PlaceInv /\ FilesInv /\ [Next]_vars => FilesInv'
<1> SUFFICES ASSUME TypeOK, PlaceInv, FilesInv, [Next]_vars PROVE FilesInv'
  OBVIOUS
<1> USE NamesFacts, LenFacts
    DEF TypeOK, FilesInv, PlaceInv, Valid,
        diskVars, signals, envVars, moveVars, listVars, history
<1>1. CASE WakeUp
  BY <1>1 DEF WakeUp
<1>2. CASE Copy
  BY <1>2 DEF Copy
<1>3. CASE Start
  BY <1>3 DEF Start, NoEntry, Absent, Pending
<1>4. ASSUME NEW p \in Packs, Visit(p) PROVE FilesInv'
  BY <1>4 DEF Visit
<1>5. CASE VisitLoose
  BY <1>5 DEF VisitLoose
<1>6. ASSUME NEW p \in Packs, Load(p) PROVE FilesInv'
  BY <1>6 DEF Load, Pending, Generated
<1>7. CASE Populated
  BY <1>7 DEF Populated
<1>8. CASE Cancel
  BY <1>8 DEF Cancel, Cancelled, Discard, NoEntry, Absent
<1>9. CASE Deliver
  BY <1>9 DEF Deliver, Cancelled
<1>10. CASE TakeOver
  BY <1>10, TakesOver DEF Absent
<1>11. ASSUME NEW n \in Names, Open(n) PROVE FilesInv'
  <2>1. \A p \in Packs : p # n => entry'[p] = entry[p] /\ bin'[p] = bin[p]
    BY <1>11 DEF Open
  <2>2. pc' = "save" /\ (n \in Packs => bin'[n].ver = "now")
    BY <1>11 DEF Open
  <2> QED
    BY <1>11, <2>1, <2>2 DEF Open
<1>12. ASSUME NEW n \in Names, Close(n) PROVE FilesInv'
  <2>1. \A p \in Packs : bin'[p].ver = bin[p].ver
    BY <1>12 DEF Close, File
  <2>2. \A p \in Packs : p # n => entry'[p] = entry[p]
    BY <1>12 DEF Close
  <2>3. n \in Packs => pc = "save" /\ entry[n].type = "open" /\ entry'[n].type = "indexed"
    BY <1>12 DEF Close, Entry
  <2>4. n \in Packs => bin[n].ver = "now"
    BY <1>12 DEF Close
  <2> QED
    BY <1>12, <2>1, <2>2, <2>3, <2>4 DEF Close
<1>13. CASE Purge
  <2>1. ASSUME NEW p \in Packs, entry[p].type = "indexed" PROVE bin'[p] = bin[p]
    BY <1>13, <2>1 DEF Purge, Belongs
  <2>2. ASSUME NEW p \in Packs, p \notin opt.readonly, entry[p].type # "indexed"
        PROVE  entry[p].type = "absent" /\ bin'[p].ver = "none"
    <3>1. entry[p].type \in {"absent", "new", "pending", "open", "indexed", "update"}
      BY DEF Entry
    <3>2. entry[p].type # "open" /\ entry[p].type # "new" /\ entry[p].type # "pending"
      BY <1>13, <2>2 DEF Purge, Opened
    <3>3. entry[p].type = "absent"
      BY <2>2, <3>1, <3>2
    <3> QED
      BY <1>13, <2>2, <3>3 DEF Purge, Belongs, NoFile
  <2> QED
    BY <1>13, <2>1, <2>2, ZenonT(60) DEF Purge, Swap, NoEntry, Absent
<1>14. CASE Crash
  BY <1>14 DEF Crash, Requested, NoEntry, Absent, Opened
<1>15. CASE FolderStep
  BY <1>15, FolderSteps
<1>16. CASE OnlineStep
  BY <1>16, OnlineSteps DEF history, signals
<1> QED
  BY Steps, <1>1, <1>2, <1>3, <1>4, <1>5, <1>6, <1>7, <1>8, <1>9, <1>10, <1>11, <1>12, <1>13, <1>14,
     <1>15, <1>16

\* With -reindex packs become indexed by the file that is written
LEMMA InitForced == Init => ForcedInv
  BY NamesFacts, LenFacts DEF Init, ForcedInv, NoEntry, Absent, Current

LEMMA StepForced == TypeOK /\ PlaceInv /\ ListInv /\ GeneratedInv /\ ForcedInv /\ [Next]_vars => ForcedInv'
<1> SUFFICES ASSUME TypeOK, PlaceInv, ListInv, GeneratedInv, ForcedInv, [Next]_vars PROVE ForcedInv'
  OBVIOUS
<1> USE NamesFacts, LenFacts
    DEF TypeOK, ForcedInv, GeneratedInv, ListInv, PlaceInv, Present, Current,
        diskVars, signals, envVars, moveVars, listVars, history
<1>1. CASE WakeUp
  BY <1>1 DEF WakeUp
<1>2. CASE Copy
  BY <1>2 DEF Copy
<1>3. CASE Start
  BY <1>3 DEF Start, NoEntry, Absent, Pending
<1>4. ASSUME NEW p \in Packs, Visit(p) PROVE ForcedInv'
  BY <1>4 DEF Visit
<1>5. CASE VisitLoose
  BY <1>5 DEF VisitLoose
<1>6. ASSUME NEW p \in Packs, Load(p) PROVE ForcedInv'
  BY <1>6 DEF Load, Pending, Generated
<1>7. CASE Populated
  BY <1>7 DEF Populated
<1>8. CASE Cancel
  BY <1>8 DEF Cancel, Cancelled, Discard, NoEntry, Absent
<1>9. CASE Deliver
  BY <1>9 DEF Deliver, Cancelled
<1>10. CASE TakeOver
  BY <1>10, TakesOver DEF Absent
<1>11. ASSUME NEW n \in Names, Open(n) PROVE ForcedInv'
  BY <1>11 DEF Open
<1>12. ASSUME NEW n \in Names, Close(n) PROVE ForcedInv'
  BY <1>12 DEF Close
<1>13. CASE Purge
  BY <1>13 DEF Purge, Swap, Belongs, Opened, NoEntry, Absent, NoFile
<1>14. CASE Crash
  BY <1>14 DEF Crash, Requested, NoEntry, Absent, Opened
<1>15. CASE FolderStep
  <2>1. UNCHANGED <<forced, force, pc, entry, shown>> /\ (indices => indices')
    BY <1>15, FolderSteps
  <2>2. touched' = TRUE \/ UNCHANGED <<folder, touched, harmed>>
    BY <1>15, FolderSteps
  <2> QED
    BY <2>1, <2>2
<1>16. CASE OnlineStep
  BY <1>16, OnlineSteps DEF history, signals
<1> QED
  BY Steps, <1>1, <1>2, <1>3, <1>4, <1>5, <1>6, <1>7, <1>8, <1>9, <1>10, <1>11, <1>12, <1>13, <1>14,
     <1>15, <1>16

\* What is taken over from an archive or a file is what is in it, and what changes is harmed
LEMMA InitFaithful == Init => Faithful
<1> SUFFICES ASSUME Init PROVE Faithful
  OBVIOUS
<1>1. PICK c \in Contents : /\ \E f \in {"no", c} : folder = [q \in Packs |-> f]
                           /\ \E f \in {Outdated, [ver |-> "now", tables |-> c]} :
                                bin = [n \in Names |-> f]
  BY PackAssumption DEF Init
<1>2. ASSUME NEW p \in Packs, Present(p), bin[p].ver = "now" PROVE bin[p].tables = folder[p]
  <2>1. folder[p] = c
    BY <1>1, <1>2, PackAssumption DEF Present
  <2>2. bin[p] = [ver |-> "now", tables |-> c]
    BY <1>1, <1>2, NamesFacts DEF Outdated
  <2> QED
    BY <2>1, <2>2
<1>3. \A p \in Packs : entry[p].type = "absent" /\ Displayed[p].type = "absent"
  BY NamesFacts DEF Init, NoEntry, Absent, Displayed
<1> QED
  BY <1>2, <1>3 DEF Faithful, Differs

LEMMA StepFaithful == TypeOK /\ PlaceInv /\ Faithful /\ [Next]_vars => Faithful'
<1> SUFFICES ASSUME TypeOK, PlaceInv, Faithful, [Next]_vars PROVE Faithful'
  OBVIOUS
<1> USE NamesFacts, LenFacts
    DEF TypeOK, Faithful, PlaceInv, Present, Displayed, Differs,
        diskVars, signals, envVars, moveVars, listVars, history, scanState, scanVars
<1>1. CASE WakeUp
  BY <1>1 DEF WakeUp
<1>2. CASE Copy
  BY <1>2 DEF Copy
<1>3. CASE Start
  BY <1>3 DEF Start, NoEntry, Absent, Pending
<1>4. ASSUME NEW p \in Packs, Visit(p) PROVE Faithful'
  BY <1>4 DEF Visit
<1>5. CASE VisitLoose
  BY <1>5 DEF VisitLoose
<1>6. ASSUME NEW p \in Packs, Load(p) PROVE Faithful'
  <2>1. \A q \in Packs \ {p} : entry'[q] = entry[q]
    BY <1>6 DEF Load
  <2>2. entry[p].type = "new" /\ pc = "scan" /\ UNCHANGED <<folder, bin, harmed, shown, pc>>
    BY <1>6 DEF Load
  <2>3. \/ bin[p].ver = "now" /\ entry'[p].type = "indexed" /\ entry'[p].tables = bin[p].tables
        \/ entry'[p].type = "pending" /\ entry'[p].tables = IF Present(p) THEN folder[p] ELSE "empty"
    BY <1>6 DEF Load, Pending, Generated, Valid
  <2> QED
    BY <2>1, <2>2, <2>3
<1>7. CASE Populated
  BY <1>7 DEF Populated
<1>8. CASE Cancel
  BY <1>8 DEF Cancel, Cancelled, Discard, NoEntry, Absent
<1>9. CASE Deliver
  BY <1>9 DEF Deliver, Cancelled
<1>10. CASE TakeOver
  BY <1>10, TakesOver DEF Absent
<1>11. ASSUME NEW n \in Names, Open(n) PROVE Faithful'
  BY <1>11 DEF Open
<1>12. ASSUME NEW n \in Names, Close(n) PROVE Faithful'
  BY <1>12 DEF Close
<1>13. CASE Purge
  BY <1>13 DEF Purge, Swap, Belongs, Opened, NoEntry, Absent, NoFile
<1>14. CASE Crash
  BY <1>14 DEF Crash, Requested, NoEntry, Absent, Opened
<1>15. CASE FolderStep
  <2>1. UNCHANGED <<bin, entry, shown, pc>>
    BY <1>15, FolderSteps
  <2>2. ASSUME NEW p \in Packs, CopyEnds(p) PROVE Faithful'
    <3>1. PICK c \in Contents : Arrives(p, c)
      BY <2>2 DEF CopyEnds
    <3> QED
      BY <2>1, <3>1 DEF Arrives, Overtaken
  <2>3. ASSUME NEW p \in Packs, MovePack(p) PROVE Faithful'
    <3>1. ASSUME NEW q \in Packs, q # p
          PROVE  (folder'[q] = folder[q] \/ folder'[q] = "no") /\ (q \in harmed' <=> q \in harmed)
      BY <2>3, <3>1 DEF MovePack
    <3>2. \/ folder'[p] = folder[p] /\ harmed' = harmed
          \/ folder'[p] = "no" /\ harmed' = harmed
          \/ \E c \in Contents : folder'[p] = c /\ (p \in harmed' <=> Overtaken(p, c))
      BY <2>3 DEF MovePack
    <3> QED
      BY <2>1, <3>1, <3>2, PackAssumption DEF Overtaken
  <2>4. ASSUME NEW p \in Packs, CopyBegins(p) \/ Remove(p) \/ MoveOnline(p) PROVE Faithful'
    BY <2>1, <2>4, PackAssumption DEF CopyBegins, Remove, MoveOnline
  <2>5. CASE Request \/ MoveBegins \/ MoveEnds \/ Resume
    BY <2>1, <2>5 DEF Request, MoveBegins, MoveEnds, Resume
  <2> QED
    BY <1>15, <2>2, <2>3, <2>4, <2>5 DEF FolderStep
<1>16. CASE OnlineStep
  BY <1>16, OnlineSteps DEF history, signals
<1> QED
  BY Steps, <1>1, <1>2, <1>3, <1>4, <1>5, <1>6, <1>7, <1>8, <1>9, <1>10, <1>11, <1>12, <1>13, <1>14,
     <1>15, <1>16

\* A pack that comes behind the scan comes with a request
LEMMA InitNoticed == Init => NoticedInv
  BY NamesFacts, LenFacts DEF Init, NoticedInv

LEMMA StepNoticed == TypeOK /\ PlaceInv /\ ListInv /\ NoticedInv /\ [Next]_vars => NoticedInv'
<1> SUFFICES ASSUME TypeOK, PlaceInv, ListInv, NoticedInv, [Next]_vars PROVE NoticedInv'
  OBVIOUS
<1> USE NamesFacts, LenFacts
    DEF TypeOK, NoticedInv, In, Cancelled, Present,
        diskVars, signals, envVars, moveVars, listVars, history, scanState, scanVars
<1>1. CASE WakeUp
  BY <1>1 DEF WakeUp
<1>2. CASE Copy
  BY <1>2 DEF Copy
<1>3. CASE Start
  <2>1. ASSUME NEW p \in Packs PROVE ~Met(p)'
    BY <1>3 DEF Start, Met
  <2> QED
    BY <1>3, <2>1 DEF Start
<1>4. ASSUME NEW p \in Packs, Visit(p) PROVE NoticedInv'
  <2>1. ASSUME NEW q \in Packs \ {p} PROVE (Met(q)' <=> Met(q)) /\ entry'[q] = entry[q]
    BY <1>4 DEF Visit, Met
  <2>2. entry'[p].type = IF folder[p] = "no" \/ (loaded /\ p \in Sub) THEN entry[p].type ELSE "new"
    BY <1>4 DEF Visit
  <2>3. pc = "scan" /\ UNCHANGED <<folder, pc, opt, signals, loaded, overlooked>>
    BY <1>4 DEF Visit
  <2> QED
    BY <2>1, <2>2, <2>3, PackAssumption
<1>5. CASE VisitLoose
  <2>1. ASSUME NEW p \in Packs PROVE Met(p)
    BY <1>5, AllMet DEF VisitLoose
  <2>2. \A p \in Packs : entry'[p] = entry[p]
    BY <1>5 DEF VisitLoose
  <2> QED
    BY <1>5, <2>1, <2>2 DEF VisitLoose
<1>6. ASSUME NEW p \in Packs, Load(p) PROVE NoticedInv'
  <2>1. \A q \in Packs : Met(q)' <=> Met(q)
    BY <1>6 DEF Load, Met
  <2>2. \A q \in Packs : entry'[q].type = "absent" <=> entry[q].type = "absent"
    BY <1>6 DEF Load, Pending
  <2>3. pc = "scan"
    BY <1>6 DEF Load, PlaceInv
  <2>4. UNCHANGED <<folder, pc, opt, signals, loaded, overlooked>>
    BY <1>6 DEF Load
  <2> QED
    BY <2>1, <2>2, <2>3, <2>4
<1>7. CASE Populated
  <2>1. ASSUME NEW p \in Packs PROVE Met(p)
    BY <1>7, AllMet DEF Populated
  <2>2. pc = "scan" /\ pc' = "test" /\ indices
    BY <1>7 DEF Populated, ListInv
  <2> QED
    BY <1>7, <2>1, <2>2 DEF Populated
<1>8. CASE Cancel
  BY <1>8 DEF Cancel, Cancelled, Discard, NoEntry, Absent
<1>9. CASE Deliver
  BY <1>9 DEF Deliver, Cancelled
<1>10. CASE TakeOver
  BY <1>10, TakesOver DEF Absent
<1>11. ASSUME NEW n \in Names, Open(n) PROVE NoticedInv'
  <2>1. \A q \in Packs : entry'[q].type = "absent" <=> entry[q].type = "absent"
    BY <1>11 DEF Open, Entry
  <2> QED
    BY <1>11, <2>1 DEF Open
<1>12. ASSUME NEW n \in Names, Close(n) PROVE NoticedInv'
  <2>1. \A q \in Packs : entry'[q].type = "absent" <=> entry[q].type = "absent"
    BY <1>12 DEF Close, Entry
  <2>2. pc = "save"
    BY <1>12 DEF Close, PlaceInv
  <2> QED
    BY <1>12, <2>1, <2>2 DEF Close
<1>13. CASE Purge
  BY <1>13 DEF Purge, Swap, Belongs, Opened, NoEntry, Absent, NoFile
<1>14. CASE Crash
  BY <1>14 DEF Crash, Requested, NoEntry, Absent, Opened
<1>15. CASE FolderStep
  <2>1. UNCHANGED <<opt, pc, entry, shown, loaded, seen>> /\ (indices => indices') /\ (event => event')
    BY <1>15, FolderSteps
  <2>2. \A q \in Packs : Met(q)' <=> Met(q)
    BY <2>1 DEF Met
  <2>3. ASSUME NEW p \in Packs, CopyEnds(p) PROVE NoticedInv'
    <3>1. \/ overlooked' = overlooked \cup {p}
          \/ overlooked' = overlooked /\ indices' /\ event' /\ ~Late(p)
      BY <2>3 DEF CopyEnds, Reported, Requested
    <3>2. \A q \in Packs \ {p} : folder'[q] = folder[q]
      BY <2>3 DEF CopyEnds, Arrives
    <3> QED
      BY <2>1, <2>2, <3>1, <3>2 DEF Late
  <2>4. ASSUME NEW p \in Packs, MovePack(p) PROVE NoticedInv'
    <3>1. ASSUME NEW q \in Packs, q \notin overlooked'
          PROVE  q \notin overlooked /\ (folder'[q] = folder[q] \/ folder'[q] = "no")
      BY <2>4, <3>1 DEF MovePack
    <3> QED
      BY <2>1, <2>2, <3>1, PackAssumption
  <2>5. ASSUME NEW p \in Packs, CopyBegins(p) \/ Remove(p) \/ MoveOnline(p) PROVE NoticedInv'
    BY <2>1, <2>2, <2>5, PackAssumption DEF CopyBegins, Remove, MoveOnline
  <2>6. CASE Request \/ MoveBegins \/ MoveEnds \/ Resume
    BY <2>1, <2>2, <2>6 DEF Request, MoveBegins, MoveEnds, Resume
  <2> QED
    BY <1>15, <2>3, <2>4, <2>5, <2>6 DEF FolderStep
<1>16. CASE OnlineStep
  <2>1. \A q \in Packs : Met(q)' <=> Met(q)
    BY <1>16, OnlineSteps DEF Met
  <2> QED
    BY <1>16, <2>1, OnlineSteps
<1> QED
  BY Steps, <1>1, <1>2, <1>3, <1>4, <1>5, <1>6, <1>7, <1>8, <1>9, <1>10, <1>11, <1>12, <1>13, <1>14,
     <1>15, <1>16

----------------------------------------------------------------------------
(* Theorems *)

LEMMA Inductive == Init => IInv
  BY InitType, InitPlace, InitFaithful, InitNoticed, InitList, InitGenerated, InitFiles, InitForced
  DEF IInv

LEMMA StepInductive == IInv /\ [Next]_vars => IInv'
  BY StepType, StepPlace, StepFaithful, StepNoticed, StepList, StepGenerated, StepFiles, StepForced
  DEF IInv

\* The variables have their types in every state of every run
THEOREM TypeInvariant == Spec => []TypeOK
<1>1. IInv => TypeOK
  BY DEF IInv
<1> QED
  BY <1>1, Inductive, StepInductive, PTL DEF Spec

\* A pack is used with the index of what is in it, except if it changed under its name or its
\* index was cut off by the end of the program, however scans, saves, copies, downloads and
\* ends of the program interleave (indexing.cpp, loadindex, genindex and saveindex)
THEOREM LibraryFaithful == Spec => []Faithful
<1>1. IInv => Faithful
  BY DEF IInv
<1> QED
  BY <1>1, Inductive, StepInductive, PTL DEF Spec

\* An archive whose coming was reported is listed, whatever is copied, cancelled, delivered or
\* requested otherwise, unless the report fell into the times at which requests are forgotten
\* (drp_callback, and the cancellation in model.cpp)
THEOREM LibraryNoticed == Spec => []Noticed
<1>1. IInv => Noticed
  BY DEF IInv, NoticedInv, Noticed, In
<1> QED
  BY <1>1, Inductive, StepInductive, PTL DEF Spec

\* After Collection::save the index files are those of the packs in the folder, and made from
\* them after -reindex
THEOREM LibrarySaved == Spec => []SaveCompletes
<1>1. IInv => SaveCompletes
  <2> SUFFICES ASSUME IInv, pc = "saved", ~touched, NEW p \in Packs \ opt.readonly
               PROVE  IF Present(p) /\ ~(loaded /\ p \in Sub)
                      THEN /\ shown[p].type = "indexed" /\ bin[p].ver = "now"
                           /\ forced => p \notin harmed
                      ELSE bin[p].ver = "none" \/ folder[p] = "copying"
    BY DEF SaveCompletes
  <2>1. shown[p].type = "absent" <=> folder[p] = "no" \/ (loaded /\ p \in Sub)
    BY DEF IInv, ListInv, Current, Unlisted
  <2>2. shown[p].type = "indexed" \/ (shown[p].type = "absent" /\ bin[p].ver = "none")
    BY DEF IInv, FilesInv
  <2>3. CASE Present(p) /\ ~(loaded /\ p \in Sub)
    <3>1. shown[p].type = "indexed"
      BY <2>1, <2>2, <2>3, PackAssumption DEF Present
    <3> QED
      BY <2>3, <3>1 DEF IInv, FilesInv, ForcedInv, Current
  <2>4. CASE ~(Present(p) /\ ~(loaded /\ p \in Sub))
    <3>1. folder[p] \in Contents \cup {"no", "copying"}
      BY DEF IInv, TypeOK
    <3>2. folder[p] \in {"no", "copying"} \/ (loaded /\ p \in Sub)
      BY <2>4, <3>1 DEF Present
    <3> QED
      BY <2>1, <2>2, <2>4, <3>2
  <2> QED
    BY <2>3, <2>4
<1> QED
  BY <1>1, Inductive, StepInductive, PTL DEF Spec

============================================================================
