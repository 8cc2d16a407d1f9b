------------------------- MODULE DeviceUpdateProofs -------------------------
(***************************************************************************)
(* For any requests, in any number: the scanning thread never changes the  *)
(* bundle on display, what it shows is a whole scan, and it does not sleep *)
(* on a request.                                                           *)
(***************************************************************************)
EXTENDS DeviceUpdate, TLAPS

----------------------------------------------------------------------------
(* The inductive invariant *)

\* Window, message loop and list come and go together
WindowInv ==
  /\ window = "destroyed" => gui = "closed"
  /\ window = "open" => gui # "closed"
  /\ gui \in {"ready", "swap"} => window = "open"
  /\ ui = "none" /\ window = "none" /\ rowsOf # NoBundle => pc = "ended"
  /\ window = "none" /\ (rowsOf # NoBundle \/ gui = "closed") => ui = "none"
  /\ exitflag => gui = "closed"
  /\ lock = "install" => rowsOf # NoBundle

\* Which bundle the list is made of, at each place of the scanning thread
PlaceInv ==
  gui # "closed" /\ rowsOf # NoBundle =>
    \/ pc \in {"wait", "load", "clear"} /\ rowsOf = display
    \/ pc = "sent" /\ gui = "ready" /\ rowsOf = display
    \/ pc = "sent" /\ gui = "swap" /\ rowsOf = Shadow
    \/ pc = "sync" /\ rowsOf = Shadow
    \/ pc = "ended" /\ ui = "none"

\* What is not marked as invalid is in the bundle on display; what was copied or scanned is
\* in the other one
DataInv ==
  ~torn =>
    /\ pc \in {"wait", "load"} => \A c \in Categories : c \in bits \/ data[display][c] # {}
    /\ pc = "load" => \A c \in Categories \ uncopied :
                        (c \in bits /\ c \in unscanned) \/ data[Shadow][c] # {}
    /\ pc = "load" /\ uncopied # {} => unscanned = Categories
    /\ pc \in {"clear", "sent", "sync"} => \A c \in Categories : data[Shadow][c] # {}

\* NoSleepOnRequest, from the moment the bits are cleared
BitsInv ==
  pc \in {"sent", "sync", "wait"} /\ ~event /\ (\A r \in Requesters : rpc[r] = "idle") =>
    bits \cap Categories = {}

----------------------------------------------------------------------------
(* Types *)

LEMMA InitType == Init => TypeOK
<1> SUFFICES ASSUME Init PROVE TypeOK
  OBVIOUS
<1>1. data \in [Bundles -> [Categories -> SUBSET Nat]]
  BY DEF Init, Empty
<1>2. world \in [Categories -> Nat]
  BY DEF Init
<1>3. /\ rpc \in [Requesters -> {"idle", "set", "raise"}]
      /\ rbits \in [Requesters -> SUBSET Bits]
      /\ rseen \in [Requesters -> SUBSET Bits]
  BY DEF Init
<1> QED
  BY <1>1, <1>2, <1>3 DEF Init, TypeOK, Bundles, NoBundle

\* Every step keeps the types, and the place of the scanning thread while its message is
\* handled
LEMMA StepType == TypeOK /\ [Next]_vars => TypeOK'
<1> SUFFICES ASSUME TypeOK, [Next]_vars PROVE TypeOK'
  OBVIOUS
<1> USE DEF loaderVars, requestVars
<1>1. CASE WakeUp
  BY <1>1, ZenonT(60) DEF TypeOK, WakeUp, AutoReset, ClearShadow, Empty, Shadow, Other, Bundles
<1>2. ASSUME NEW c \in Categories, CopyValid(c) PROVE TypeOK'
  BY <1>2 DEF TypeOK, CopyValid, Shadow, Other, Bundles
<1>3. ASSUME NEW c \in Categories, ScanInvalid(c) PROVE TypeOK'
  <2>1. data' \in [Bundles -> [Categories -> SUBSET Nat]]
    <3>1. world[c] \in Nat /\ Shadow \in Bundles /\ data[Shadow][c] \in SUBSET Nat
      BY DEF TypeOK, Shadow, Other, Bundles
    <3>2. ASSUME NEW new \in SUBSET Nat
          PROVE  [data EXCEPT ![Shadow][c] = new] \in [Bundles -> [Categories -> SUBSET Nat]]
      BY <3>1 DEF TypeOK
    <3>3. {world[c]} \in SUBSET Nat /\ data[Shadow][c] \cup {world[c]} \in SUBSET Nat
      BY <3>1
    <3>4. \/ data' = data
          \/ data' = [data EXCEPT ![Shadow][c] = {world[c]}]
          \/ data' = [data EXCEPT ![Shadow][c] = data[Shadow][c] \cup {world[c]}]
      BY <1>3, <3>1 DEF ScanInvalid, TypeOK
    <3> QED
      BY <3>2, <3>3, <3>4 DEF TypeOK
  <2>2. unscanned' \subseteq Categories
    BY <1>3 DEF TypeOK, ScanInvalid
  <2> QED
    BY <1>3, <2>1, <2>2 DEF TypeOK, ScanInvalid
<1>4. CASE CheckCancel
  BY <1>4 DEF TypeOK, CheckCancel, KeepCancelled
<1>5. CASE Announce
  BY <1>5 DEF TypeOK, Announce, Shadow, Other, Bundles, Bits, Wait
<1>6. CASE SendFails
  BY <1>6 DEF TypeOK, SendFails
<1>7. CASE SwapBundles
  BY <1>7 DEF TypeOK, SwapBundles, Shadow, Other, Bundles, Empty
<1>8. CASE OpenWindow
  BY <1>8 DEF TypeOK, OpenWindow
<1>9. CASE TakeBundle
  BY <1>9 DEF TypeOK, TakeBundle, Shadow, Other, Bundles
<1>10. CASE LeaveBundle
  BY <1>10 DEF TypeOK, LeaveBundle, AutoEnds
<1>11. CASE CloseWindow
  BY <1>11 DEF TypeOK, CloseWindow, RaiseAtEnd
<1>12. ASSUME NEW r \in Requesters, Ask(r) PROVE TypeOK'
  <2>1. PICK v \in Requests :
          /\ rbits' = [rbits EXCEPT ![r] = v]
          /\ world' = [c \in Categories |-> IF c \in v THEN world[c] + 1 ELSE world[c]]
    BY <1>12 DEF Ask
  <2>2. rbits' \in [Requesters -> SUBSET Bits]
    BY <2>1, RequestAssumption DEF TypeOK
  <2>3. world' \in [Categories -> Nat]
    BY <2>1 DEF TypeOK
  <2>4. rseen' \in [Requesters -> SUBSET Bits] /\ rpc' \in [Requesters -> {"idle", "set", "raise"}]
    BY <1>12 DEF TypeOK, Ask
  <2> QED
    BY <1>12, <2>2, <2>3, <2>4 DEF TypeOK, Ask
<1>13. ASSUME NEW r \in Requesters, SetBits(r) PROVE TypeOK'
  BY <1>13 DEF TypeOK, SetBits
<1>14. ASSUME NEW r \in Requesters, RaiseEvent(r) PROVE TypeOK'
  BY <1>14 DEF TypeOK, RaiseEvent
<1>15. CASE HoldLock
  BY <1>15 DEF TypeOK, HoldLock
<1>16. CASE LeaveLock
  BY <1>16 DEF TypeOK, LeaveLock, AutoEnds
<1>17. CASE UNCHANGED vars
  BY <1>17 DEF TypeOK, vars
<1> QED
  BY <1>1, <1>2, <1>3, <1>4, <1>5, <1>6, <1>7, <1>8, <1>9, <1>10, <1>11, <1>12,
     <1>13, <1>14, <1>15, <1>16, <1>17 DEF Next, Loader, Gui, Invalidate

----------------------------------------------------------------------------
(* The invariant is inductive *)

LEMMA InitInv == Init => WindowInv /\ PlaceInv /\ DataInv /\ BitsInv
  BY DEF Init, WindowInv, PlaceInv, DataInv, BitsInv, NoBundle, Bits

\* A window is opened once and closed once
LEMMA WindowStep == TypeOK /\ WindowInv /\ [Next]_vars => WindowInv'
<1> SUFFICES ASSUME TypeOK, WindowInv, [Next]_vars PROVE WindowInv'
  OBVIOUS
<1> USE DEF loaderVars, requestVars
<1>1. CASE WakeUp
  BY <1>1 DEF TypeOK, WindowInv, WakeUp, AutoReset, ClearShadow, Shadow, Other, Bundles, NoBundle
<1>2. ASSUME NEW c \in Categories, CopyValid(c) PROVE WindowInv'
  BY <1>2 DEF TypeOK, WindowInv, CopyValid, Shadow, Other, Bundles, NoBundle
<1>3. ASSUME NEW c \in Categories, ScanInvalid(c) PROVE WindowInv'
  BY <1>3 DEF TypeOK, WindowInv, ScanInvalid, Shadow, Other, Bundles, NoBundle
<1>4. CASE CheckCancel
  BY <1>4 DEF TypeOK, WindowInv, CheckCancel, KeepCancelled, Shadow, Other, Bundles, NoBundle
<1>5. CASE Announce
  BY <1>5 DEF TypeOK, WindowInv, Announce, Wait, Shadow, Other, Bundles, NoBundle
<1>6. CASE SendFails
  BY <1>6 DEF TypeOK, WindowInv, SendFails, Shadow, Other, Bundles, NoBundle
<1>7. CASE SwapBundles
  BY <1>7 DEF TypeOK, WindowInv, SwapBundles, Shadow, Other, Bundles, NoBundle
<1>8. CASE OpenWindow
  BY <1>8 DEF TypeOK, WindowInv, OpenWindow, Shadow, Other, Bundles, NoBundle
<1>9. CASE TakeBundle
  BY <1>9 DEF TypeOK, WindowInv, TakeBundle, Shadow, Other, Bundles, NoBundle
<1>10. CASE LeaveBundle
  BY <1>10 DEF TypeOK, WindowInv, LeaveBundle, Shadow, Other, Bundles, NoBundle
<1>11. CASE CloseWindow
  BY <1>11 DEF TypeOK, WindowInv, CloseWindow, RaiseAtEnd, Shadow, Other, Bundles, NoBundle
<1>12. ASSUME NEW r \in Requesters, Ask(r) PROVE WindowInv'
  BY <1>12 DEF TypeOK, WindowInv, Ask, Shadow, Other, Bundles, NoBundle
<1>13. ASSUME NEW r \in Requesters, SetBits(r) PROVE WindowInv'
  BY <1>13 DEF TypeOK, WindowInv, SetBits, Shadow, Other, Bundles, NoBundle
<1>14. ASSUME NEW r \in Requesters, RaiseEvent(r) PROVE WindowInv'
  BY <1>14 DEF TypeOK, WindowInv, RaiseEvent, Shadow, Other, Bundles, NoBundle
<1>15. CASE HoldLock
  BY <1>15 DEF TypeOK, WindowInv, HoldLock, Shadow, Other, Bundles, NoBundle
<1>16. CASE LeaveLock
  BY <1>16 DEF TypeOK, WindowInv, LeaveLock, Shadow, Other, Bundles, NoBundle, AutoEnds
<1>17. CASE UNCHANGED vars
  BY <1>17 DEF WindowInv, vars, Shadow, Other, Bundles, NoBundle
<1> QED
  BY <1>1, <1>2, <1>3, <1>4, <1>5, <1>6, <1>7, <1>8, <1>9, <1>10, <1>11, <1>12,
     <1>13, <1>14, <1>15, <1>16, <1>17 DEF Next, Loader, Gui, Invalidate

\* The list moves to the other bundle with TakeBundle, the display with SwapBundles
LEMMA PlaceStep == TypeOK /\ WindowInv /\ PlaceInv /\ [Next]_vars => PlaceInv'
<1> SUFFICES ASSUME TypeOK, WindowInv, PlaceInv, [Next]_vars PROVE PlaceInv'
  OBVIOUS
<1> USE DEF loaderVars, requestVars, WindowInv
<1>1. CASE WakeUp
  BY <1>1 DEF TypeOK, PlaceInv, WakeUp, AutoReset, ClearShadow, Shadow, Other, Bundles, NoBundle
<1>2. ASSUME NEW c \in Categories, CopyValid(c) PROVE PlaceInv'
  BY <1>2 DEF TypeOK, PlaceInv, CopyValid, Shadow, Other, Bundles, NoBundle
<1>3. ASSUME NEW c \in Categories, ScanInvalid(c) PROVE PlaceInv'
  BY <1>3 DEF TypeOK, PlaceInv, ScanInvalid, Shadow, Other, Bundles, NoBundle
<1>4. CASE CheckCancel
  BY <1>4 DEF TypeOK, PlaceInv, CheckCancel, KeepCancelled, Shadow, Other, Bundles, NoBundle
<1>5. CASE Announce
  BY <1>5 DEF TypeOK, PlaceInv, Announce, Wait, Shadow, Other, Bundles, NoBundle
<1>6. CASE SendFails
  BY <1>6 DEF TypeOK, PlaceInv, SendFails, Shadow, Other, Bundles, NoBundle
<1>7. CASE SwapBundles
  BY <1>7 DEF TypeOK, PlaceInv, SwapBundles, Shadow, Other, Bundles, NoBundle
<1>8. CASE OpenWindow
  BY <1>8 DEF TypeOK, PlaceInv, OpenWindow, Shadow, Other, Bundles, NoBundle
<1>9. CASE TakeBundle
  BY <1>9 DEF TypeOK, PlaceInv, TakeBundle, Shadow, Other, Bundles, NoBundle
<1>10. CASE LeaveBundle
  BY <1>10 DEF TypeOK, PlaceInv, LeaveBundle, Shadow, Other, Bundles, NoBundle
<1>11. CASE CloseWindow
  BY <1>11 DEF TypeOK, PlaceInv, CloseWindow, RaiseAtEnd, Shadow, Other, Bundles, NoBundle
<1>12. ASSUME NEW r \in Requesters, Ask(r) PROVE PlaceInv'
  BY <1>12 DEF TypeOK, PlaceInv, Ask, Shadow, Other, Bundles, NoBundle
<1>13. ASSUME NEW r \in Requesters, SetBits(r) PROVE PlaceInv'
  BY <1>13 DEF TypeOK, PlaceInv, SetBits, Shadow, Other, Bundles, NoBundle
<1>14. ASSUME NEW r \in Requesters, RaiseEvent(r) PROVE PlaceInv'
  BY <1>14 DEF TypeOK, PlaceInv, RaiseEvent, Shadow, Other, Bundles, NoBundle
<1>15. CASE HoldLock
  BY <1>15 DEF TypeOK, PlaceInv, HoldLock, Shadow, Other, Bundles, NoBundle
<1>16. CASE LeaveLock
  BY <1>16 DEF TypeOK, PlaceInv, LeaveLock, Shadow, Other, Bundles, NoBundle, AutoEnds
<1>17. CASE UNCHANGED vars
  BY <1>17 DEF PlaceInv, vars, Shadow, Other, Bundles, NoBundle
<1> QED
  BY <1>1, <1>2, <1>3, <1>4, <1>5, <1>6, <1>7, <1>8, <1>9, <1>10, <1>11, <1>12,
     <1>13, <1>14, <1>15, <1>16, <1>17 DEF Next, Loader, Gui, Invalidate

\* The bits are cleared by the scanning thread, or while it waits in SendMessage
LEMMA BitsStep == TypeOK /\ BitsInv /\ [Next]_vars => BitsInv'
<1> SUFFICES ASSUME TypeOK, BitsInv, [Next]_vars PROVE BitsInv'
  OBVIOUS
<1> USE DEF loaderVars, requestVars
<1>1. CASE WakeUp
  BY <1>1 DEF TypeOK, BitsInv, WakeUp, AutoReset, ClearShadow
<1>2. ASSUME NEW c \in Categories, CopyValid(c) PROVE BitsInv'
  BY <1>2 DEF TypeOK, BitsInv, CopyValid
<1>3. ASSUME NEW c \in Categories, ScanInvalid(c) PROVE BitsInv'
  BY <1>3 DEF TypeOK, BitsInv, ScanInvalid
<1>4. CASE CheckCancel
  BY <1>4 DEF TypeOK, BitsInv, CheckCancel, KeepCancelled
<1>5. CASE Announce
  BY <1>5 DEF TypeOK, BitsInv, Announce, Wait
<1>6. CASE SendFails
  BY <1>6 DEF TypeOK, BitsInv, SendFails
<1>7. CASE SwapBundles
  BY <1>7 DEF TypeOK, BitsInv, SwapBundles
<1>8. CASE OpenWindow
  BY <1>8 DEF TypeOK, BitsInv, OpenWindow
<1>9. CASE TakeBundle
  BY <1>9 DEF TypeOK, BitsInv, TakeBundle
<1>10. CASE LeaveBundle
  BY <1>10 DEF TypeOK, BitsInv, LeaveBundle
<1>11. CASE CloseWindow
  BY <1>11 DEF TypeOK, BitsInv, CloseWindow, RaiseAtEnd
<1>12. ASSUME NEW r \in Requesters, Ask(r) PROVE BitsInv'
  BY <1>12 DEF TypeOK, BitsInv, Ask
<1>13. ASSUME NEW r \in Requesters, SetBits(r) PROVE BitsInv'
  BY <1>13 DEF TypeOK, BitsInv, SetBits
<1>14. ASSUME NEW r \in Requesters, RaiseEvent(r) PROVE BitsInv'
  BY <1>14 DEF TypeOK, BitsInv, RaiseEvent
<1>15. CASE HoldLock
  BY <1>15 DEF TypeOK, BitsInv, HoldLock
<1>16. CASE LeaveLock
  BY <1>16 DEF TypeOK, BitsInv, LeaveLock
<1>17. CASE UNCHANGED vars
  BY <1>17 DEF BitsInv, vars
<1> QED
  BY <1>1, <1>2, <1>3, <1>4, <1>5, <1>6, <1>7, <1>8, <1>9, <1>10, <1>11, <1>12,
     <1>13, <1>14, <1>15, <1>16, <1>17 DEF Next, Loader, Gui, Invalidate

\* A category is copied from a whole bundle or scanned: while the thread loads, bits are only
\* added
LEMMA DataStep == TypeOK /\ DataInv /\ [Next]_vars => DataInv'
<1> SUFFICES ASSUME TypeOK, DataInv, [Next]_vars PROVE DataInv'
  OBVIOUS
<1> USE DEF loaderVars, requestVars
<1>1. CASE WakeUp
  BY <1>1 DEF TypeOK, DataInv, WakeUp, AutoReset, ClearShadow, Shadow, Other, Bundles
<1>2. ASSUME NEW c \in Categories, CopyValid(c) PROVE DataInv'
  <2> SUFFICES ASSUME ~torn
               PROVE  /\ \A d \in Categories : d \in bits \/ data'[display][d] # {}
                      /\ \A d \in Categories \ uncopied' : d \in bits \/ data'[Shadow][d] # {}
    BY <1>2 DEF DataInv, CopyValid, Shadow
  <2>1. /\ pc = "load" /\ c \in uncopied /\ uncopied' = uncopied \ {c}
        /\ Before(c) \cap uncopied = {} /\ unscanned = Categories
        /\ \A d \in Categories : d \in bits \/ data[display][d] # {}
        /\ \A d \in Categories \ uncopied : d \in bits \/ data[Shadow][d] # {}
    BY <1>2 DEF DataInv, CopyValid
  <2>2. display \in Bundles /\ Shadow \in Bundles /\ Shadow # display
    BY DEF TypeOK, Shadow, Other, Bundles
  <2>3. CASE c \in bits
    BY <1>2, <2>1, <2>3 DEF CopyValid
  <2>4. CASE c \notin bits
    <3>1. data'[display] = data[display]
      BY <1>2, <2>2, <2>4 DEF CopyValid, TypeOK
    <3>2. \A d \in Categories : data'[Shadow][d] = IF d \in CopiedWith(c) THEN data[display][d]
                                                                       ELSE data[Shadow][d]
      BY <1>2, <2>2, <2>4 DEF CopyValid, TypeOK
    <3>3. ASSUME NEW d \in Categories \ uncopied'
          PROVE  d \in bits \/ data'[Shadow][d] # {}
      <4>1. c \in CopiedWith(c) /\ (d \notin CopiedWith(c) => d \in Categories \ uncopied)
        BY <2>1 DEF CopiedWith
      <4> QED
        BY <2>1, <3>2, <4>1
    <3> QED
      BY <2>1, <3>1, <3>3
  <2> QED
    BY <2>3, <2>4
<1>3. ASSUME NEW c \in Categories, ScanInvalid(c) PROVE DataInv'
  BY <1>3 DEF TypeOK, DataInv, ScanInvalid, Shadow, Other, Bundles
<1>4. CASE CheckCancel
  BY <1>4 DEF TypeOK, DataInv, CheckCancel, KeepCancelled, Shadow, Other, Bundles
<1>5. CASE Announce
  BY <1>5 DEF TypeOK, DataInv, Announce, Wait, Shadow, Other, Bundles
<1>6. CASE SendFails
  BY <1>6 DEF TypeOK, DataInv, SendFails, Shadow, Other, Bundles
<1>7. CASE SwapBundles
  BY <1>7 DEF TypeOK, DataInv, SwapBundles, Shadow, Other, Bundles
<1>8. CASE OpenWindow
  BY <1>8 DEF TypeOK, DataInv, OpenWindow, Shadow, Other, Bundles
<1>9. CASE TakeBundle
  BY <1>9 DEF TypeOK, DataInv, TakeBundle, Shadow, Other, Bundles
<1>10. CASE LeaveBundle
  BY <1>10 DEF TypeOK, DataInv, LeaveBundle, Shadow, Other, Bundles
<1>11. CASE CloseWindow
  BY <1>11 DEF TypeOK, DataInv, CloseWindow, RaiseAtEnd, Shadow, Other, Bundles
<1>12. ASSUME NEW r \in Requesters, Ask(r) PROVE DataInv'
  BY <1>12 DEF TypeOK, DataInv, Ask, Shadow, Other, Bundles
<1>13. ASSUME NEW r \in Requesters, SetBits(r) PROVE DataInv'
  BY <1>13 DEF TypeOK, DataInv, SetBits, Shadow, Other, Bundles
<1>14. ASSUME NEW r \in Requesters, RaiseEvent(r) PROVE DataInv'
  BY <1>14 DEF TypeOK, DataInv, RaiseEvent, Shadow, Other, Bundles
<1>15. CASE HoldLock
  BY <1>15 DEF TypeOK, DataInv, HoldLock, Shadow, Other, Bundles
<1>16. CASE LeaveLock
  BY <1>16 DEF TypeOK, DataInv, LeaveLock, Shadow, Other, Bundles
<1>17. CASE UNCHANGED vars
  BY <1>17 DEF DataInv, vars, Shadow, Other, Bundles
<1> QED
  BY <1>1, <1>2, <1>3, <1>4, <1>5, <1>6, <1>7, <1>8, <1>9, <1>10, <1>11, <1>12,
     <1>13, <1>14, <1>15, <1>16, <1>17 DEF Next, Loader, Gui, Invalidate

LEMMA WholeStep ==
  TypeOK /\ WindowInv /\ PlaceInv /\ DataInv /\ WholeScan /\ [Next]_vars => WholeScan'
<1> SUFFICES ASSUME TypeOK, WindowInv, PlaceInv, DataInv, WholeScan, [Next]_vars
             PROVE  WholeScan'
  OBVIOUS
<1> USE DEF loaderVars, requestVars, WindowInv, PlaceInv, DataInv
<1>1. CASE WakeUp
  BY <1>1 DEF TypeOK, WholeScan, WakeUp, AutoReset, ClearShadow, Shadow, Other, Bundles, NoBundle
<1>2. ASSUME NEW c \in Categories, CopyValid(c) PROVE WholeScan'
  BY <1>2 DEF TypeOK, WholeScan, CopyValid, Shadow, Other, Bundles, NoBundle
<1>3. ASSUME NEW c \in Categories, ScanInvalid(c) PROVE WholeScan'
  BY <1>3 DEF TypeOK, WholeScan, ScanInvalid, Shadow, Other, Bundles, NoBundle
<1>4. CASE CheckCancel
  BY <1>4 DEF TypeOK, WholeScan, CheckCancel, KeepCancelled, Shadow, Other, Bundles, NoBundle
<1>5. CASE Announce
  BY <1>5 DEF TypeOK, WholeScan, Announce, Wait, Shadow, Other, Bundles, NoBundle
<1>6. CASE SendFails
  BY <1>6 DEF TypeOK, WholeScan, SendFails, Shadow, Other, Bundles, NoBundle
<1>7. CASE SwapBundles
  BY <1>7 DEF TypeOK, WholeScan, SwapBundles, Shadow, Other, Bundles, NoBundle
<1>8. CASE OpenWindow
  BY <1>8 DEF TypeOK, WholeScan, OpenWindow, Shadow, Other, Bundles, NoBundle
<1>9. CASE TakeBundle
  BY <1>9 DEF TypeOK, WholeScan, TakeBundle, Shadow, Other, Bundles, NoBundle
<1>10. CASE LeaveBundle
  BY <1>10 DEF TypeOK, WholeScan, LeaveBundle, Shadow, Other, Bundles, NoBundle
<1>11. CASE CloseWindow
  BY <1>11 DEF TypeOK, WholeScan, CloseWindow, RaiseAtEnd, Shadow, Other, Bundles, NoBundle
<1>12. ASSUME NEW r \in Requesters, Ask(r) PROVE WholeScan'
  BY <1>12 DEF TypeOK, WholeScan, Ask, Shadow, Other, Bundles, NoBundle
<1>13. ASSUME NEW r \in Requesters, SetBits(r) PROVE WholeScan'
  BY <1>13 DEF TypeOK, WholeScan, SetBits, Shadow, Other, Bundles, NoBundle
<1>14. ASSUME NEW r \in Requesters, RaiseEvent(r) PROVE WholeScan'
  BY <1>14 DEF TypeOK, WholeScan, RaiseEvent, Shadow, Other, Bundles, NoBundle
<1>15. CASE HoldLock
  BY <1>15 DEF TypeOK, WholeScan, HoldLock, Shadow, Other, Bundles, NoBundle
<1>16. CASE LeaveLock
  BY <1>16 DEF TypeOK, WholeScan, LeaveLock, Shadow, Other, Bundles, NoBundle
<1>17. CASE UNCHANGED vars
  BY <1>17 DEF WholeScan, vars, Shadow, Other, Bundles, NoBundle
<1> QED
  BY <1>1, <1>2, <1>3, <1>4, <1>5, <1>6, <1>7, <1>8, <1>9, <1>10, <1>11, <1>12,
     <1>13, <1>14, <1>15, <1>16, <1>17 DEF Next, Loader, Gui, Invalidate

\* The bundle the list is made of is neither cleared nor filled
LEMMA DisplayStep ==
  ASSUME TypeOK, PlaceInv, [Next]_vars, rowsOf # NoBundle, gui # "closed"
  PROVE  data'[rowsOf] = data[rowsOf]
<1> USE DEF loaderVars, requestVars, PlaceInv
<1>1. CASE WakeUp
  BY <1>1 DEF TypeOK, WakeUp, AutoReset, ClearShadow, Shadow, Other, Bundles, NoBundle
<1>2. ASSUME NEW c \in Categories, CopyValid(c)
      PROVE  data'[rowsOf] = data[rowsOf]
  BY <1>2 DEF TypeOK, CopyValid, Shadow, Other, Bundles, NoBundle
<1>3. ASSUME NEW c \in Categories, ScanInvalid(c)
      PROVE  data'[rowsOf] = data[rowsOf]
  BY <1>3 DEF TypeOK, ScanInvalid, Shadow, Other, Bundles, NoBundle
<1>4. CASE CheckCancel
  BY <1>4 DEF TypeOK, CheckCancel, KeepCancelled, Shadow, Other, Bundles, NoBundle
<1>5. CASE Announce
  BY <1>5 DEF TypeOK, Announce, Wait, Shadow, Other, Bundles, NoBundle
<1>6. CASE SendFails
  BY <1>6 DEF TypeOK, SendFails, Shadow, Other, Bundles, NoBundle
<1>7. CASE SwapBundles
  BY <1>7 DEF TypeOK, SwapBundles, Shadow, Other, Bundles, NoBundle
<1>8. CASE OpenWindow
  BY <1>8 DEF TypeOK, OpenWindow, Shadow, Other, Bundles, NoBundle
<1>9. CASE TakeBundle
  BY <1>9 DEF TypeOK, TakeBundle, Shadow, Other, Bundles, NoBundle
<1>10. CASE LeaveBundle
  BY <1>10 DEF TypeOK, LeaveBundle, Shadow, Other, Bundles, NoBundle
<1>11. CASE CloseWindow
  BY <1>11 DEF TypeOK, CloseWindow, RaiseAtEnd, Shadow, Other, Bundles, NoBundle
<1>12. ASSUME NEW r \in Requesters, Ask(r)
      PROVE  data'[rowsOf] = data[rowsOf]
  BY <1>12 DEF TypeOK, Ask, Shadow, Other, Bundles, NoBundle
<1>13. ASSUME NEW r \in Requesters, SetBits(r)
      PROVE  data'[rowsOf] = data[rowsOf]
  BY <1>13 DEF TypeOK, SetBits, Shadow, Other, Bundles, NoBundle
<1>14. ASSUME NEW r \in Requesters, RaiseEvent(r)
      PROVE  data'[rowsOf] = data[rowsOf]
  BY <1>14 DEF TypeOK, RaiseEvent, Shadow, Other, Bundles, NoBundle
<1>15. CASE HoldLock
  BY <1>15 DEF TypeOK, HoldLock, Shadow, Other, Bundles, NoBundle
<1>16. CASE LeaveLock
  BY <1>16 DEF TypeOK, LeaveLock, Shadow, Other, Bundles, NoBundle
<1>17. CASE UNCHANGED vars
  BY <1>17 DEF vars, Shadow, Other, Bundles, NoBundle
<1> QED
  BY <1>1, <1>2, <1>3, <1>4, <1>5, <1>6, <1>7, <1>8, <1>9, <1>10, <1>11, <1>12,
     <1>13, <1>14, <1>15, <1>16, <1>17 DEF Next, Loader, Gui, Invalidate

----------------------------------------------------------------------------
(* Theorems *)

\* The invariant, of every behaviour
THEOREM Invariance ==
  Spec => [](TypeOK /\ WindowInv /\ PlaceInv /\ DataInv /\ BitsInv /\ WholeScan)
<1> DEFINE IInv == TypeOK /\ WindowInv /\ PlaceInv /\ DataInv /\ BitsInv /\ WholeScan
<1>1. Init => IInv
  <2>1. Init => WholeScan
    BY DEF Init, WholeScan
  <2> QED
    BY <2>1, InitType, InitInv
<1>2. IInv /\ [Next]_vars => IInv'
  BY StepType, WindowStep, PlaceStep, DataStep, BitsStep, WholeStep
<1> QED
  BY <1>1, <1>2, PTL DEF Spec

\* The state stays in its types, and the scanning thread waits while the GUI thread makes a
\* list of the bundle it has filled (SendMessage, model.cpp 127)
THEOREM UpdateTypes == Spec => []TypeOK
  BY Invariance, PTL

\* A list that is shown was made of a whole scan: no category is missing, unless the data race
\* on invaidate_set lost a bit (bundle_load, model.cpp 175-182)
THEOREM ScanIsWhole == Spec => []WholeScan
  BY Invariance, PTL

\* The thread never waits for an event while a request that has returned is outstanding
\* (invalidate, SDI.cpp 970-974, against isRaised and raise, model.cpp 104-110)
THEOREM NoRequestSlept == Spec => []NoSleepOnRequest
<1>1. TypeOK /\ BitsInv => NoSleepOnRequest
  BY DEF BitsInv, NoSleepOnRequest
<1> QED
  BY <1>1, Invariance, PTL

\* The drivers on display are never changed under the list (the two bundles, model.cpp 94-140)
THEOREM DisplayUntouched == Spec => DisplaySafe
<1> DEFINE IInv == TypeOK /\ WindowInv /\ PlaceInv /\ DataInv /\ BitsInv /\ WholeScan
<1>1. IInv /\ [Next]_vars =>
        [rowsOf # NoBundle /\ gui # "closed" => data'[rowsOf] = data[rowsOf]]_vars
  BY DisplayStep
<1>2. Spec => []IInv
  BY Invariance
<1> QED
  BY <1>1, <1>2, PTL DEF Spec, DisplaySafe

=============================================================================
