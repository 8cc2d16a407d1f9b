---------------------------- MODULE DeviceUpdate ----------------------------
(***************************************************************************)
(* The thread that scans devices and driver packs (model.cpp,              *)
(* Bundle::thread_loadall), the two bundles it works on in turn, the       *)
(* threads that ask it for a scan (SDI.cpp, invalidate) and the GUI thread *)
(* that puts a finished bundle on display (SDI.cpp, WM_BUNDLEREADY).       *)
(*                                                                         *)
(* The world has a version per category, which changes with each request;  *)
(* a bundle holds, per category, the versions that were read into it.      *)
(***************************************************************************)
EXTENDS Integers

CONSTANTS
  Requesters,   \* threads that call invalidate(): "gui" is the GUI thread, which also hears of
                \* devices and of changed driver packs, "install" the installation thread,
                \* "download" the thread that moves downloaded packs
  Requests,     \* the sets of INVALIDATE_ bits they pass
  MaxRequests,  \* bound: calls of invalidate(), and so versions of the world
  MaxHolds      \* bound: times an installation holds the critical section

Categories == {"DEVICES", "SYSINFO", "INDICES"}

Bits == Categories \cup {"MANAGER"}

ASSUME RequestAssumption ==
  /\ "gui" \in Requesters
  /\ Requests \subseteq SUBSET Bits

ASSUME BoundAssumption == MaxRequests \in Nat /\ MaxHolds \in Nat

Bundles == {0, 1}

NoBundle == 2

Other(b) == 1 - b

VARIABLES
  ui,         \* "window"; "hidden": FLAG_NOGUI and FLAG_AUTOINSTALL; "none": FLAG_NOGUI alone,
              \* which is what remains of "hidden" when the automatic installation ends
  window,     \* MainWindow.hMain: "none", "open", "destroyed"
  bits,       \* invaidate_set
  event,      \* deviceupdate_event is signalled: an auto-reset event
  exitflag,   \* deviceupdate_exitflag
  display,    \* bundle_display; bundle_shadow is the other one
  data,       \* data[b][c]: versions read into a bundle
  rowsOf,     \* bundle whose drivers manager_g's list shows
  pc,         \* of thread_loadall
  uncopied,   \* bundle_load: categories whose bit is still to be tested for a copy
  unscanned,  \* bundle_load: scanning threads still to run
  seen,       \* value of invaidate_set that `&=' has read
  gui,        \* the GUI thread: "ready" when WM_BUNDLEREADY was sent to it, "swap" in its
              \* handler, "idle", "closed" after the message loop
  lock,       \* owner of the critical section sync
  rpc, rbits, rseen,  \* requesters: program counter, the bits to set, what `|=' has read
  torn,       \* history: `|=' or `&=' undid what another thread did to invaidate_set
  world,      \* version of each category
  requests, holds     \* bounds used up

loaderVars  == <<pc, uncopied, unscanned, seen>>
requestVars == <<rpc, rbits, rseen, world, requests>>
vars == <<ui, window, bits, torn, event, exitflag, display, data, rowsOf, loaderVars, gui,
          lock, requestVars, holds>>

Shadow == Other(display)

Empty == [c \in Categories |-> {}]

----------------------------------------------------------------------------
(* invalidate(), by any thread: the bits, without synchronisation, then the event *)

Ask(r) ==
  /\ rpc[r] = "idle" /\ requests < MaxRequests
  /\ r = "gui" => gui = "idle" /\ window = "open"
  /\ r = "install" => rowsOf # NoBundle
  /\ \E v \in Requests :
       /\ rbits' = [rbits EXCEPT ![r] = v]
       /\ world' = [c \in Categories |-> IF c \in v THEN world[c] + 1 ELSE world[c]]
  /\ rseen' = [rseen EXCEPT ![r] = bits]
  /\ rpc' = [rpc EXCEPT ![r] = "set"]
  /\ requests' = requests + 1
  /\ UNCHANGED <<ui, torn, window, bits, event, exitflag, display, data, rowsOf,
                 loaderVars, gui, lock, holds>>

SetBits(r) ==
  /\ rpc[r] = "set"
  /\ bits' = rseen[r] \cup rbits[r]
  /\ torn' = (torn \/ bits # rseen[r])
  /\ rpc' = [rpc EXCEPT ![r] = "raise"]
  /\ UNCHANGED <<ui, window, event, exitflag, display, data, rowsOf, loaderVars, gui,
                 lock, rbits, rseen, world, requests, holds>>

RaiseEvent(r) ==
  /\ rpc[r] = "raise"
  /\ event' = TRUE
  /\ rpc' = [rpc EXCEPT ![r] = "idle"]
  /\ UNCHANGED <<ui, torn, window, bits, exitflag, display, data, rowsOf, loaderVars,
                 gui, lock, rbits, rseen, world, requests, holds>>

----------------------------------------------------------------------------
(* Bundle::thread_loadall *)

\* Slip: the bundle on display is cleared and filled
ClearDisplay == data' = [data EXCEPT ![display] = Empty]

\* bundle_init of the shadow bundle
ClearShadow == data' = [data EXCEPT ![Shadow] = Empty]

\* Slip: a manual-reset event
ManualReset == UNCHANGED event

\* CreateEvent makes an auto-reset event: the wait takes the signal
AutoReset == event' = FALSE

WakeUp ==
  /\ pc = "wait" /\ event
  /\ AutoReset
  /\ IF exitflag
     THEN /\ pc' = "ended"
          /\ UNCHANGED <<data, uncopied, unscanned>>
     ELSE /\ pc' = "load"
          /\ ClearShadow
          /\ uncopied' = Categories
          /\ unscanned' = Categories
  /\ UNCHANGED <<ui, torn, window, bits, exitflag, display, rowsOf, seen, gui, lock,
                 requestVars, holds>>

\* What comes along: state=pbundle->state copies the system information, too
CopiedWith(c) == IF c = "DEVICES" THEN {"DEVICES", "SYSINFO"} ELSE {c}

\* The order of the tests
Before(c) ==
  CASE c = "DEVICES" -> {} [] c = "SYSINFO" -> {"DEVICES"} [] c = "INDICES" -> {"DEVICES", "SYSINFO"}

\* bundle_load: a category that is not invalid is copied from the bundle on display
CopyValid(c) ==
  /\ pc = "load" /\ c \in uncopied /\ Before(c) \cap uncopied = {}
  /\ data' = IF c \in bits THEN data
             ELSE [data EXCEPT ![Shadow] =
                     [d \in Categories |-> IF d \in CopiedWith(c) THEN data[display][d]
                                                                  ELSE data[Shadow][d]]]
  /\ uncopied' = uncopied \ {c}
  /\ UNCHANGED <<ui, torn, window, bits, event, exitflag, display, rowsOf, pc, unscanned,
                 seen, gui, lock, requestVars, holds>>

\* thread_scandevices, thread_loadindices, thread_getsysinfo, at the same time: each one
\* looks at the bit for itself.  Devices and packs are added to what is there
ScanInvalid(c) ==
  /\ pc = "load" /\ uncopied = {} /\ c \in unscanned
  /\ data' = IF c \notin bits THEN data
             ELSE [data EXCEPT ![Shadow][c] = IF c = "SYSINFO" THEN {world[c]}
                                                               ELSE @ \cup {world[c]}]
  /\ unscanned' = unscanned \ {c}
  /\ UNCHANGED <<ui, torn, window, bits, event, exitflag, display, rowsOf, pc, uncopied,
                 seen, gui, lock, requestVars, holds>>

\* Slip: a scan that was cancelled is not asked for again
ForgetCancelled == event' = FALSE

\* isRaised() takes the signal; a cancelled scan raises it again
KeepCancelled == UNCHANGED event

\* A request that came during the scan makes it start again; then `invaidate_set&=~...'
\* reads the bits
CheckCancel ==
  /\ pc = "load" /\ uncopied = {} /\ unscanned = {}
  /\ IF ui = "window" /\ event
     THEN pc' = "wait" /\ KeepCancelled /\ UNCHANGED seen
     ELSE pc' = "clear" /\ seen' = bits /\ UNCHANGED event
  /\ UNCHANGED <<ui, torn, window, bits, exitflag, display, data, rowsOf, uncopied,
                 unscanned, gui, lock, requestVars, holds>>

\* Slip: the message is posted, and the thread goes on
DontWait == "sync"

Wait == "sent"

\* The bits are cleared; the bundle is announced, if there is a window to hear of it
Announce ==
  /\ pc = "clear"
  /\ bits' = seen \ Categories
  /\ torn' = (torn \/ bits # seen)
  /\ pc' = IF ui = "none" THEN "ended" ELSE IF window = "open" THEN Wait ELSE "sync"
  /\ rowsOf' = IF ui = "none" THEN Shadow ELSE rowsOf
  /\ gui' = IF ui # "none" /\ window = "open" THEN "ready" ELSE gui
  /\ UNCHANGED <<ui, window, event, exitflag, display, data, uncopied, unscanned, seen,
                 lock, requestVars, holds>>

\* SendMessage returns once the window is destroyed
SendFails ==
  /\ pc = "sent" /\ gui = "closed"
  /\ pc' = "sync"
  /\ UNCHANGED <<ui, torn, window, bits, event, exitflag, display, data, rowsOf,
                 uncopied, unscanned, seen, gui, lock, requestVars, holds>>

\* The critical section {2Sync: the bundles change places, the old one is cleared
SwapBundles ==
  /\ pc = "sync"
  /\ lock = "free"
  /\ display' = Shadow
  /\ data' = [data EXCEPT ![display] = Empty]
  /\ pc' = "wait"
  /\ UNCHANGED <<ui, torn, window, bits, event, exitflag, rowsOf, uncopied, unscanned,
                 seen, gui, lock, requestVars, holds>>

Loader ==
  \/ WakeUp \/ (\E c \in Categories : CopyValid(c) \/ ScanInvalid(c)) \/ CheckCancel
  \/ Announce \/ SendFails \/ SwapBundles

----------------------------------------------------------------------------
(* The GUI thread *)

\* CreateWindowEx: scans that are over before it are not announced
OpenWindow ==
  /\ ui # "none" /\ window = "none"
  /\ window' = "open"
  /\ UNCHANGED <<ui, torn, bits, event, exitflag, display, data, rowsOf, loaderVars, gui,
                 lock, requestVars, holds>>

\* WM_BUNDLEREADY: the new list is made of the shadow bundle, in the critical section
TakeBundle ==
  /\ gui = "ready" /\ rpc["gui"] = "idle" /\ lock = "free"
  /\ lock' = "gui"
  /\ rowsOf' = Shadow
  /\ gui' = "swap"
  /\ UNCHANGED <<ui, torn, window, bits, event, exitflag, display, data, loaderVars,
                 requestVars, holds>>

\* FLAG_AUTOINSTALL may be cleared
AutoEnds == ui' \in {ui, IF ui = "hidden" THEN "none" ELSE ui}

\* restorepos1: invaidate_set=0, the section is left, the automatic installation goes on or
\* ends, SendMessage returns
LeaveBundle ==
  /\ gui = "swap"
  /\ bits' = {}
  /\ lock' = "free"
  /\ gui' = "idle"
  /\ pc' = IF pc = "sent" THEN "sync" ELSE pc
  /\ AutoEnds
  /\ UNCHANGED <<torn, window, event, exitflag, display, data, rowsOf, uncopied,
                 unscanned, seen, requestVars, holds>>

\* Slip: the flag alone
DontRaise == UNCHANGED event

RaiseAtEnd == event' = TRUE

\* The message loop ends, or never started; main asks the thread to end, if there is a
\* window, and joins it
CloseWindow ==
  /\ gui \in {"idle", "ready"} /\ rpc["gui"] = "idle"
  /\ ui = "none" \/ window = "open"
  /\ window' = IF window = "open" THEN "destroyed" ELSE window
  /\ exitflag' = (window = "open")
  /\ RaiseAtEnd
  /\ gui' = "closed"
  /\ UNCHANGED <<ui, torn, bits, display, data, rowsOf, loaderVars, lock, requestVars,
                 holds>>

\* An installation thread, which needs a list, holds the critical section, and leaves it.  A
\* stop ends the automatic installation, too
HoldLock ==
  /\ lock = "free" /\ holds < MaxHolds /\ rowsOf # NoBundle
  /\ lock' = "install"
  /\ holds' = holds + 1
  /\ UNCHANGED <<ui, torn, window, bits, event, exitflag, display, data, rowsOf,
                 loaderVars, gui, requestVars>>

LeaveLock ==
  /\ lock = "install"
  /\ lock' = "free"
  /\ AutoEnds
  /\ UNCHANGED <<torn, window, bits, event, exitflag, display, data, rowsOf, loaderVars, gui,
                 requestVars, holds>>

----------------------------------------------------------------------------
\* main: everything is invalid, the event is raised, the thread is started
Init ==
  /\ ui \in {"window", "hidden", "none"} /\ window = "none"
  /\ bits = Bits /\ torn = FALSE /\ event = TRUE /\ exitflag = FALSE
  /\ display = 0 /\ data = [b \in Bundles |-> Empty] /\ rowsOf = NoBundle
  /\ pc = "wait" /\ uncopied = {} /\ unscanned = {} /\ seen = {}
  /\ gui = "idle" /\ lock = "free"
  /\ rpc = [r \in Requesters |-> "idle"]
  /\ rbits = [r \in Requesters |-> {}] /\ rseen = [r \in Requesters |-> {}]
  /\ world = [c \in Categories |-> 1]
  /\ requests = 0 /\ holds = 0

Gui == OpenWindow \/ TakeBundle \/ LeaveBundle

Invalidate(r) == SetBits(r) \/ RaiseEvent(r)

Next ==
  \/ Loader
  \/ Gui
  \/ CloseWindow
  \/ \E r \in Requesters : Ask(r) \/ Invalidate(r)
  \/ HoldLock \/ LeaveLock

Spec == Init /\ [][Next]_vars

\* Threads run, a window comes up, an installation leaves the critical section; nobody has
\* to ask for anything or to close the window
FairSpec ==
  /\ Spec
  /\ WF_vars(Loader) /\ SF_vars(SwapBundles)
  /\ WF_vars(OpenWindow) /\ SF_vars(TakeBundle) /\ WF_vars(LeaveBundle)
  /\ \A r \in Requesters : WF_vars(Invalidate(r))
  /\ WF_vars(LeaveLock)

----------------------------------------------------------------------------
(* Properties *)

\* Types, and what SendMessage is for: the thread stands still while the GUI thread uses the
\* shadow bundle and has the critical section
TypeOK ==
  /\ ui \in {"window", "hidden", "none"} /\ window \in {"none", "open", "destroyed"}
  /\ bits \subseteq Bits /\ torn \in BOOLEAN /\ event \in BOOLEAN /\ exitflag \in BOOLEAN
  /\ display \in Bundles /\ data \in [Bundles -> [Categories -> SUBSET Nat]]
  /\ rowsOf \in Bundles \cup {NoBundle}
  /\ pc \in {"wait", "load", "clear", "sent", "sync", "ended"}
  /\ uncopied \subseteq Categories /\ unscanned \subseteq Categories /\ seen \subseteq Bits
  /\ gui \in {"idle", "ready", "swap", "closed"} /\ lock \in {"free", "gui", "install"}
  /\ rpc \in [Requesters -> {"idle", "set", "raise"}]
  /\ rbits \in [Requesters -> SUBSET Bits] /\ rseen \in [Requesters -> SUBSET Bits]
  /\ world \in [Categories -> Nat] /\ requests \in Nat /\ holds \in Nat
  /\ gui \in {"ready", "swap"} => pc = "sent"
  /\ lock = "gui" <=> gui = "swap"

\* The drivers the list shows are never changed under it: the thread clears and fills one
\* bundle while the other one is on display, also when scans are cancelled, announced to
\* nobody, or overtaken by a request
DisplaySafe ==
  [][rowsOf # NoBundle /\ gui # "closed" => data'[rowsOf] = data[rowsOf]]_vars

\* A list on display is made of a whole scan: each category was read or copied, though its
\* bit is tested twice, once for the copy and once for the scan, and both threads clear the
\* bits (model.cpp 114, restorepos1).  It needs `|=' and `&=' to undo nothing
WholeScan ==
  rowsOf # NoBundle /\ gui # "closed" =>
    torn \/ \A c \in Categories : data[rowsOf][c] # {}

\* The thread does not sleep on a request: when it waits and the event is not raised,
\* nothing is marked as invalid by a call of invalidate() that has returned
NoSleepOnRequest ==
  pc = "wait" /\ ~event /\ (\A r \in Requesters : rpc[r] = "idle") => bits \cap Categories = {}

\* When requests stop, the thread comes to rest with nothing raised: a cancelled scan is not
\* cancelled for ever, and a scan is not left undone
Settles == <>[](pc = "ended" \/ (pc = "wait" /\ ~event))

\* When the window is closed, the thread ends, wherever it was, and main can join it
LoaderEnds == gui = "closed" ~> pc = "ended"

\* What is requested is scanned and shown: a change of the world that was announced with
\* invalidate() reaches the list ("Check if the state has been udated during scanning",
\* model.cpp 102), even if `|=' and `&=' undo nothing
RequestShown ==
  \A c \in Categories : \A n \in 2..(MaxRequests + 1) :
    world[c] = n ~> \/ world[c] > n \/ gui = "closed" \/ ui # "window" \/ torn
                    \/ rowsOf \in Bundles /\ n \in data[rowsOf][c]

=============================================================================
