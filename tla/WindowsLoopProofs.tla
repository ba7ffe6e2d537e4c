-------------------------- MODULE WindowsLoopProofs --------------------------
(***************************************************************************)
(* Theorems about WindowsLoop: its types, and that no wake-up is lost, for *)
(* any handles, number of changes in the list and things that arrive.      *)
(***************************************************************************)
EXTENDS WindowsLoop, SequenceTheorems, TLAPS

Change == [handle : WinObjects, add : BOOLEAN]
Pcs == {"out", "wait", "reset", "run", "rearm"}

(* Handlers are owed to what is notified or becomes due, and that of the   *)
(* address table while it is open; what is about to be stopped or closed,  *)
(* and what listens, is open; the loop never closes its own two handles.   *)
Ownership ==
  /\ winOwed \subseteq WinNotifiers \cup WinTimers \cup {WinTable}
  /\ WinTable \in winOwed => WinTable \in winOpen
  /\ winDying \subseteq winOpen \cap WinObjects /\ winListening \subseteq winOpen
  /\ {WinStopFd, WinChangeFd} \subseteq winOpen

TypeInv == WinTypeOK /\ Ownership

LEMMA TypeInit == WinInit => TypeInv
<1> SUFFICES ASSUME WinInit PROVE TypeInv
  OBVIOUS
<1> USE WindowsLoopAssumption DEF WinInit, WinAt, WinHandles, WinObjects, Pcs
<1>1. winAt \in [pc : Pcs, handle : WinHandles]
  OBVIOUS
<1>2. /\ winArmed \in [WinTimers -> {"no", "once", "repeated"}]
      /\ winPending \in [WinSockets -> 0 .. MaxPending]
  OBVIOUS
<1>3. winChanges \in Seq([handle : WinObjects, add : BOOLEAN])
  OBVIOUS
<1> QED BY <1>1, <1>2, <1>3 DEF TypeInv, WinTypeOK, Ownership

(* A change is put into the list.                                          *)
LEMMA PushType ==
  ASSUME WinTypeOK, NEW h \in WinObjects, NEW add \in BOOLEAN, Push(h, add)
  PROVE  /\ winChanges' \in Seq(Change)
         /\ Len(winChanges') = Len(winChanges) + 1 /\ Len(winChanges) \in Nat
         /\ \A i \in DOMAIN winChanges : winChanges'[i] = winChanges[i]
         /\ winChanges'[Len(winChanges) + 1] = [handle |-> h, add |-> add]
<1>1. PICK c \in Change : c = [handle |-> h, add |-> add]
  BY DEF Change
<1>2. winChanges \in Seq(Change) /\ winChanges' = Append(winChanges, c)
  BY <1>1 DEF WinTypeOK, Change, Push
<1> QED BY <1>1, <1>2, AppendProperties

(* Only handles that are known, or of a change in the list, become known.  *)
LEMMA InfosType ==
  ASSUME WinTypeOK, WinChangeHandler
  PROVE  /\ winInfos' \subseteq WinHandles /\ winHandles' = winInfos'
         /\ winChanges' = <<>> /\ winChanges' \in Seq(Change)
<1>1. ASSUME NEW i \in DOMAIN winChanges PROVE winChanges[i].handle \in WinHandles
  <2>1. winChanges \in Seq(Change) /\ i \in 1 .. Len(winChanges)
    BY DEF WinTypeOK, Change
  <2>2. winChanges[i] \in Change
    BY <2>1
  <2> QED BY <2>2 DEF Change, WinHandles
<1>2. WinInfosChanged \subseteq WinHandles
  BY <1>1 DEF WinInfosChanged, WinTypeOK
<1> QED BY <1>2 DEF WinChangeHandler

LEMMA TypeStep == TypeInv /\ [WinNext]_winVars => TypeInv'
<1> SUFFICES ASSUME TypeInv, [WinNext]_winVars PROVE TypeInv'
  OBVIOUS
<1> USE WindowsLoopAssumption
    DEF winLoopVars, winSourceVars, winSocketVars, winKeptVars, winListVars, winOutside,
        ManualReset
<1>0. WinTypeOK /\ Ownership
  BY DEF TypeInv
<1>1. /\ \A h \in WinObjects : h \in WinHandles /\ h \notin {WinStopFd, WinChangeFd}
      /\ WinNotifiers \cup WinTimers \cup WinSockets \cup {WinTable} = WinObjects
  BY DEF WinHandles, WinObjects
<1>2. \A h \in WinObjects : h \in WinHandles
  BY DEF WinHandles
<1>3. ASSUME NEW h \in WinObjects, WinCreate(h) PROVE TypeInv'
  BY <1>0, <1>2, <1>3 DEF WinCreate, TypeInv, WinTypeOK, Ownership
<1>4. ASSUME NEW h \in WinObjects, WinAddEvent(h) PROVE TypeInv'
  <2>1. winChanges' \in Seq(Change)
    BY <1>0, <1>4, PushType DEF WinAddEvent
  <2> QED BY <1>0, <1>4, <2>1 DEF WinAddEvent, Change, TypeInv, WinTypeOK, Ownership
<1>5. ASSUME NEW h \in WinObjects, WinEraseEvent(h) PROVE TypeInv'
  <2>1. winChanges' \in Seq(Change)
    BY <1>0, <1>5, PushType DEF WinEraseEvent
  <2> QED BY <1>0, <1>5, <2>1 DEF WinEraseEvent, Change, TypeInv, WinTypeOK, Ownership
<1>6. ASSUME NEW h \in WinObjects, WinSetChange(h) PROVE TypeInv'
  BY <1>0, <1>6 DEF WinSetChange, TypeInv, WinTypeOK, Ownership, WinHandles
<1>7. ASSUME NEW h \in WinObjects, WinCloseHandle(h) PROVE TypeInv'
  <2>1. /\ winArmed' \in [WinTimers -> {"no", "once", "repeated"}]
        /\ winPending' \in [WinSockets -> 0 .. MaxPending]
    BY <1>0, <1>7 DEF WinCloseHandle, CloseSocketOf, WinTypeOK
  <2> QED BY <1>0, <1>1, <1>7, <2>1
          DEF WinCloseHandle, CloseSocketOf, TypeInv, WinTypeOK, Ownership
<1>8. ASSUME NEW h \in WinNotifiers, WinNotify(h) PROVE TypeInv'
  BY <1>0, <1>8 DEF WinNotify, TypeInv, WinTypeOK, Ownership
<1>9. ASSUME NEW t \in WinTimers, NEW mode \in {"no", "once", "repeated"},
             WinSetTimer(t, mode)
      PROVE  TypeInv'
  <2>1. winArmed' \in [WinTimers -> {"no", "once", "repeated"}]
    BY <1>0, <1>9 DEF WinSetTimer, WinTypeOK
  <2> QED BY <1>0, <1>9, <2>1 DEF WinSetTimer, TypeInv, WinTypeOK, Ownership
<1>10. ASSUME NEW t \in WinTimers, WinTimerDue(t) PROVE TypeInv'
  <2>1. winArmed' \in [WinTimers -> {"no", "once", "repeated"}]
    BY <1>0, <1>10 DEF WinTimerDue, WinTypeOK
  <2> QED BY <1>0, <1>1, <1>10, <2>1 DEF WinTimerDue, TypeInv, WinTypeOK, Ownership
<1>11. ASSUME NEW s \in WinSockets, WinArrive(s) PROVE TypeInv'
  <2>1. winPending' \in [WinSockets -> 0 .. MaxPending]
    BY <1>0, <1>11 DEF WinArrive, WinTypeOK
  <2> QED BY <1>0, <1>1, <1>11, <2>1 DEF WinArrive, TypeInv, WinTypeOK, Ownership
<1>12. CASE WinStop
  BY <1>0, <1>12 DEF WinStop, TypeInv, WinTypeOK, Ownership, WinHandles
<1>13. CASE WinExecute \/ WinWaitFails \/ WinWaitExpires
  <2>1. winAt' \in [pc : Pcs, handle : WinHandles]
    BY <1>13 DEF WinExecute, WinWaitFails, WinWaitExpires, WinAt, WinHandles, Pcs
  <2> QED BY <1>0, <1>13, <2>1
          DEF WinExecute, WinWaitFails, WinWaitExpires, TypeInv, WinTypeOK, Ownership, Pcs
<1>14. CASE WinWaitInvalid
  BY <1>0, <1>14, InfosType DEF WinWaitInvalid, Change, TypeInv, WinTypeOK, Ownership
<1>15. CASE WinWait
  <2>1. PICK h \in WinHandles :
          winSignalled' = winSignalled \ ({h} \ ManualReset) /\ winAt' = WinAt("reset", h)
    BY <1>0, <1>15 DEF WinWait, WinTypeOK
  <2>2. winAt' \in [pc : Pcs, handle : WinHandles]
    BY <2>1 DEF WinAt, Pcs
  <2> QED BY <1>0, <1>15, <2>1, <2>2 DEF WinWait, TypeInv, WinTypeOK, Ownership, Pcs
<1>16. CASE WinReset
  <2>1. winAt' \in [pc : Pcs, handle : WinHandles]
    BY <1>0, <1>16 DEF WinReset, WinAt, WinHandles, WinTypeOK, Pcs
  <2> QED BY <1>0, <1>16, <2>1 DEF WinReset, TypeInv, WinTypeOK, Ownership, Pcs
<1>17. CASE WinRunChange
  <2>1. winAt' \in [pc : Pcs, handle : WinHandles]
    BY <1>17 DEF WinRunChange, WinAt, WinHandles, Pcs
  <2> QED BY <1>0, <1>17, <2>1, InfosType
          DEF WinRunChange, Change, TypeInv, WinTypeOK, Ownership, Pcs
<1>18. WinHandled \/ UNCHANGED winAt => winAt' \in [pc : Pcs, handle : WinHandles]
  BY <1>0 DEF WinHandled, WinAt, WinHandles, WinTypeOK, Pcs
<1>19. CASE WinRun
  BY <1>0, <1>18, <1>19 DEF WinRun, TypeInv, WinTypeOK, Ownership, Pcs
<1>20. CASE WinUpdate \/ WinRearm
  <2>1. winAt' \in [pc : Pcs, handle : WinHandles]
    BY <1>1, <1>20 DEF WinUpdate, WinRearm, WinAt, WinHandles, Pcs
  <2> QED BY <1>0, <1>20, <2>1 DEF WinUpdate, WinRearm, TypeInv, WinTypeOK, Ownership, Pcs
<1>21. CASE WinTake
  <2>2. PICK s \in WinSockets : s = winAt.handle
    BY <1>21 DEF WinTake
  <2>3. winPending' \in [WinSockets -> 0 .. MaxPending]
    BY <1>0, <1>21, <2>2 DEF WinTake, WinTypeOK
  <2>4. winSignalled' \subseteq WinHandles
    BY <1>0, <1>1, <1>21, <2>2 DEF WinTake, WinTypeOK
  <2>5. winAt' \in [pc : Pcs, handle : WinHandles]
    BY <1>18, <1>21 DEF WinTake
  <2> QED BY <1>0, <1>21, <2>3, <2>4, <2>5 DEF WinTake, TypeInv, WinTypeOK, Ownership, Pcs
<1>22. CASE WinTakeFails
  BY <1>0, <1>18, <1>22 DEF WinTakeFails, TypeInv, WinTypeOK, Ownership, Pcs
<1>23. CASE WinAddressChanges
  BY <1>0, <1>1, <1>23 DEF WinAddressChanges, TypeInv, WinTypeOK, Ownership
<1>24. ASSUME NEW s \in WinSockets, WinOpenSocket(s) PROVE TypeInv'
  BY <1>0, <1>24 DEF WinOpenSocket, TypeInv, WinTypeOK, Ownership
<1>25. ASSUME NEW s \in WinSockets, WinCloseSocket(s) PROVE TypeInv'
  <2>1. winPending' \in [WinSockets -> 0 .. MaxPending]
    BY <1>0, <1>25 DEF WinCloseSocket, CloseSocketOf, WinTypeOK
  <2> QED BY <1>0, <1>25, <2>1 DEF WinCloseSocket, CloseSocketOf, TypeInv, WinTypeOK, Ownership
<1>26. CASE UNCHANGED winVars
  BY <1>0, <1>26 DEF winVars, TypeInv, WinTypeOK, Ownership
<1> QED BY <1>3, <1>4, <1>5, <1>6, <1>7, <1>8, <1>9, <1>10, <1>11, <1>12, <1>13, <1>14,
           <1>15, <1>16, <1>17, <1>19, <1>20, <1>26, <1>21, <1>22, <1>23, <1>24, <1>25
        DEF WinNext, WinObjectSteps, WinSourceSteps, WinLoopSteps, WinTimerSet,
            WinTimerCancel

LEMMA TypesHold == WinSpec => []TypeInv
BY TypeInit, TypeStep, PTL DEF WinSpec

(* Every variable keeps to its type; what is waited for is what has an     *)
(* entry, whoever adds and erases handles meanwhile.                       *)
THEOREM TypeCorrect == WinSpec => []WinTypeOK
<1>1. TypeInv => WinTypeOK
  BY DEF TypeInv
<1> QED BY <1>1, TypesHold, PTL
------------------------------------------------------------------------------
(* Wake-ups.                                                               *)

(* A change in the list, and a stop, will be seen.                         *)
ChangeSeen ==
  winChanges # <<>> =>
    WinChangeFd \in winSignalled \/ WinTaken(WinChangeFd) \/ winPosting # {}

StopSeen == winAsked => WinStopFd \in winSignalled \/ WinTaken(WinStopFd)

(* What a handler is owed for, and what has arrived.                       *)
OwedSeen ==
  \A h \in winOwed \cup {s \in WinSockets : winPending[s] > 0} :
    h \in winSignalled \cup winMissed \/ WinTaken(h)

(* What a socket has, has arrived since it listens; a notified change of   *)
(* addresses is still to be dealt with, and others are missed.             *)
SourcesSeen ==
  /\ \A s \in WinSockets : winPending[s] > 0 => s \in winListening
  /\ winNotice = "fired" /\ WinTable \in winOpen =>
       WinTable \in winSignalled \/ WinTaken(WinTable)
  /\ WinTable \in winOwed => winNotice = "fired" \/ WinTable \in winMissed
  /\ winAt.pc = "rearm" => winNotice = "updated"

Seen == ChangeSeen /\ StopSeen /\ OwedSeen /\ SourcesSeen

(* The next changeHandler does not keep h: its last change takes it away,  *)
(* or it is not known and has none.                                        *)
Leaving(h) ==
  \/ /\ h \notin winInfos
     /\ \A i \in DOMAIN winChanges : winChanges[i].handle # h
  \/ \E i \in DOMAIN winChanges :
       /\ winChanges[i] = [handle |-> h, add |-> FALSE]
       /\ \A j \in DOMAIN winChanges : j > i => winChanges[j].handle # h

(* What is closed, or about to be, is no longer known then, but for the    *)
(* address table.                                                          *)
ClosedLeave ==
  winAgain \/ \A h \in WinObjects : h \in winDying \/ h \notin winOpen => Leaving(h)

Inv == TypeInv /\ Seen /\ ClosedLeave

LEMMA InvInit == WinInit => Inv
<1> SUFFICES ASSUME WinInit PROVE Inv
  OBVIOUS
<1>1. TypeInv
  BY TypeInit
<1>2. Seen
  <2>1. \A s \in WinSockets : ~(winPending[s] > 0)
    BY DEF WinInit
  <2> QED BY <2>1 DEF WinInit, WinAt, Seen, ChangeSeen, StopSeen, OwedSeen, SourcesSeen
<1>3. ASSUME NEW h \in WinObjects PROVE Leaving(h)
  BY WindowsLoopAssumption DEF WinInit, Leaving
<1> QED BY <1>1, <1>2, <1>3 DEF Inv, ClosedLeave

LEMMA SeenStep == Inv /\ [WinNext]_winVars => Seen'
<1> SUFFICES ASSUME Inv, [WinNext]_winVars PROVE Seen'
  OBVIOUS
<1> USE WindowsLoopAssumption
    DEF winLoopVars, winSourceVars, winSocketVars, winKeptVars, winListVars, winOutside,
        ManualReset, WinObjects, WinTaken, WinAt, Seen, ChangeSeen, StopSeen, OwedSeen,
        SourcesSeen
<1>0. Seen /\ WinTypeOK /\ Ownership /\ winPending \in [WinSockets -> Nat]
  BY DEF Inv, TypeInv, WinTypeOK
<1>1. {WinStopFd, WinChangeFd} \cap (winOwed \cup WinSockets \cup {WinTable}) = {}
  BY <1>0 DEF Ownership
<1>2. ASSUME NEW h \in WinObjects, WinCreate(h) PROVE Seen'
  BY <1>0, <1>2 DEF WinCreate
<1>3. ASSUME NEW h \in WinObjects, WinAddEvent(h) PROVE Seen'
  BY <1>0, <1>3 DEF WinAddEvent
<1>4. ASSUME NEW h \in WinObjects, WinEraseEvent(h) PROVE Seen'
  BY <1>0, <1>4 DEF WinEraseEvent
<1>5. ASSUME NEW h \in WinObjects, WinSetChange(h) PROVE Seen'
  BY <1>0, <1>5 DEF WinSetChange
<1>6. ASSUME NEW h \in WinObjects, WinCloseHandle(h) PROVE Seen'
  BY <1>0, <1>6 DEF WinCloseHandle, CloseSocketOf, Ownership
<1>7. ASSUME NEW s \in WinSockets, WinOpenSocket(s) PROVE Seen'
  BY <1>0, <1>7 DEF WinOpenSocket
<1>8. ASSUME NEW s \in WinSockets, WinCloseSocket(s) PROVE Seen'
  BY <1>0, <1>8 DEF WinCloseSocket, CloseSocketOf, Ownership
<1>9. ASSUME NEW h \in WinNotifiers, WinNotify(h) PROVE Seen'
  BY <1>0, <1>9 DEF WinNotify
<1>10. ASSUME NEW t \in WinTimers, NEW mode \in {"no", "once", "repeated"},
              WinSetTimer(t, mode)
       PROVE  Seen'
  BY <1>0, <1>10 DEF WinSetTimer
<1>11. ASSUME NEW t \in WinTimers, WinTimerDue(t) PROVE Seen'
  BY <1>0, <1>11 DEF WinTimerDue
<1>12. ASSUME NEW s \in WinSockets, WinArrive(s) PROVE Seen'
  BY <1>0, <1>12 DEF WinArrive
<1>13. CASE WinAddressChanges
  BY <1>0, <1>13 DEF WinAddressChanges
<1>14. CASE WinStop
  BY <1>0, <1>14 DEF WinStop
<1>15. CASE WinExecute \/ WinWaitFails \/ WinWaitExpires
  BY <1>0, <1>15 DEF WinExecute, WinWaitFails, WinWaitExpires
<1>16. CASE WinWaitInvalid
  BY <1>0, <1>16 DEF WinWaitInvalid, WinChangeHandler
<1>17. CASE WinWait
  BY <1>0, <1>17 DEF WinWait
<1>18. CASE WinReset
  BY <1>0, <1>1, <1>18 DEF WinReset
<1>19. CASE WinRunChange
  BY <1>0, <1>1, <1>19 DEF WinRunChange, WinChangeHandler
<1>20. CASE WinRun
  BY <1>0, <1>20 DEF WinRun, WinHandled, Ownership
<1>21. CASE WinUpdate
  BY <1>0, <1>21 DEF WinUpdate
<1>22. CASE WinRearm
  BY <1>0, <1>22 DEF WinRearm
<1>23. CASE WinTake
  <2>1. PICK s \in WinSockets, left \in Nat :
          /\ s = winAt.handle /\ winAt.pc = "run"
          /\ left = IF winPending[s] = 0 THEN 0 ELSE winPending[s] - 1
    BY <1>0, <1>23 DEF WinTake
  <2>2. /\ winPending' = [winPending EXCEPT ![s] = left]
        /\ winSignalled' = IF left > 0 THEN winSignalled \cup {s} ELSE winSignalled
        /\ winMissed' = winMissed \ {s}
        /\ UNCHANGED <<winOpen, winOwed, winAsked, winChanges, winPosting, winListening,
                       winNotice>>
        /\ winAt'.pc \in {"wait", "out"} \/ UNCHANGED winAt
    BY <1>23, <2>1 DEF WinTake, WinHandled
  <2>3. left > 0 => winPending[s] > 0
    BY <1>0, <2>1
  <2>4. SourcesSeen'
    BY <1>0, <2>1, <2>2, <2>3
  <2>5. s \notin winOwed \cup {WinStopFd, WinChangeFd}
    BY <1>0 DEF Ownership
  <2>6. ChangeSeen' /\ StopSeen'
    BY <1>0, <2>1, <2>2, <2>5
  <2>7. OwedSeen'
    BY <1>0, <2>1, <2>2, <2>5
  <2> QED BY <2>4, <2>6, <2>7
<1>24. CASE WinTakeFails
  BY <1>0, <1>1, <1>24 DEF WinTakeFails, WinHandled, Ownership
<1>25. CASE UNCHANGED winVars
  BY <1>0, <1>25 DEF winVars
<1> QED BY <1>2, <1>3, <1>4, <1>5, <1>6, <1>7, <1>8, <1>9, <1>10, <1>11, <1>12, <1>13,
           <1>14, <1>15, <1>16, <1>17, <1>18, <1>19, <1>20, <1>21, <1>22, <1>23, <1>24, <1>25
        DEF WinNext, WinObjectSteps, WinSourceSteps, WinLoopSteps, WinTimerSet,
            WinTimerCancel

(* A change of h itself decides, one of another handle does not matter.    *)
LEMMA PushLeaving ==
  ASSUME WinTypeOK, NEW h \in WinObjects, NEW add \in BOOLEAN, Push(h, add),
         winInfos' = winInfos, NEW x \in WinObjects,
         IF x = h THEN ~add ELSE Leaving(x)
  PROVE  Leaving(x)'
<1>1. PICK n \in Nat : n = Len(winChanges)
  BY PushType
<1>2. /\ winChanges' \in Seq(Change) /\ Len(winChanges') = n + 1
      /\ \A i \in DOMAIN winChanges : winChanges'[i] = winChanges[i]
      /\ winChanges'[n + 1] = [handle |-> h, add |-> add]
  BY <1>1, PushType
<1>3. /\ DOMAIN winChanges = 1 .. n /\ DOMAIN winChanges' = 1 .. n + 1
      /\ \A i \in 1 .. n : winChanges'[i] = winChanges[i]
      /\ winChanges'[n + 1] = [handle |-> h, add |-> add]
  BY <1>1, <1>2 DEF WinTypeOK
<1>4. CASE x = h
  <2>1. /\ n + 1 \in DOMAIN winChanges' /\ ~add
        /\ \A j \in DOMAIN winChanges' : ~(j > n + 1)
    BY <1>3, <1>4
  <2>2. winChanges'[n + 1] = [handle |-> x, add |-> FALSE]
    BY <1>3, <1>4, <2>1
  <2> QED BY <2>1, <2>2 DEF Leaving
<1>5. CASE x # h
  <2>1. Leaving(x)
    BY <1>5
  <2>2. CASE x \notin winInfos /\ \A i \in DOMAIN winChanges : winChanges[i].handle # x
    BY <1>3, <1>5, <2>2 DEF Leaving
  <2>3. CASE \E i \in DOMAIN winChanges :
               /\ winChanges[i] = [handle |-> x, add |-> FALSE]
               /\ \A j \in DOMAIN winChanges : j > i => winChanges[j].handle # x
    <3>1. PICK i \in 1 .. n :
            /\ winChanges[i] = [handle |-> x, add |-> FALSE]
            /\ \A j \in 1 .. n : j > i => winChanges[j].handle # x
      BY <1>3, <2>3
    <3>2. \A j \in 1 .. n + 1 : j > i => winChanges'[j].handle # x
      <4>1. TAKE j \in 1 .. n + 1
      <4>2. j \in 1 .. n \/ j = n + 1
        OBVIOUS
      <4> QED BY <1>3, <1>5, <3>1, <4>2
    <3>3. i \in 1 .. n + 1 /\ winChanges'[i] = [handle |-> x, add |-> FALSE]
      <4>1. i \in 1 .. n + 1
        OBVIOUS
      <4>2. winChanges'[i] = winChanges[i]
        BY <1>3
      <4> QED BY <3>1, <4>1, <4>2
    <3> QED BY <1>3, <3>2, <3>3 DEF Leaving
  <2> QED BY <2>1, <2>2, <2>3 DEF Leaving
<1> QED BY <1>4, <1>5

LEMMA ChangedLeaving ==
  ASSUME WinTypeOK, WinChangeHandler, NEW x, Leaving(x)
  PROVE  Leaving(x)'
<1>1. winChanges' = <<>> /\ winInfos' = WinInfosChanged /\ DOMAIN winChanges \subseteq Nat
  BY DEF WinChangeHandler, WinTypeOK
<1>2. x \notin WinInfosChanged
  <2>1. CASE x \notin winInfos /\ \A i \in DOMAIN winChanges : winChanges[i].handle # x
    BY <2>1 DEF WinInfosChanged
  <2>2. CASE \E i \in DOMAIN winChanges :
               /\ winChanges[i] = [handle |-> x, add |-> FALSE]
               /\ \A j \in DOMAIN winChanges : j > i => winChanges[j].handle # x
    <3>1. PICK i \in DOMAIN winChanges :
            /\ winChanges[i] = [handle |-> x, add |-> FALSE]
            /\ \A j \in DOMAIN winChanges : j > i => winChanges[j].handle # x
      BY <2>2
    <3>2. WinLast(i)
      BY <1>1, <3>1 DEF WinLast
    <3>3. \A j \in DOMAIN winChanges : WinLast(j) /\ winChanges[j].handle = x => j = i
      BY <1>1, <3>1, <3>2 DEF WinLast
    <3> QED BY <3>1, <3>2, <3>3 DEF WinInfosChanged
  <2> QED BY <2>1, <2>2 DEF Leaving
<1> QED BY <1>1, <1>2 DEF Leaving

LEMMA LeavingStep == Inv /\ [WinNext]_winVars => ClosedLeave'
<1> SUFFICES ASSUME Inv, [WinNext]_winVars PROVE ClosedLeave'
  OBVIOUS
<1> USE WindowsLoopAssumption
    DEF winLoopVars, winSourceVars, winKeptVars, winListVars, winOutside
<1>0. ClosedLeave /\ WinTypeOK /\ Ownership
  BY DEF Inv, TypeInv
<1>2. ASSUME NEW h \in WinObjects, WinCreate(h) PROVE ClosedLeave'
  BY <1>0, <1>2 DEF WinCreate, ClosedLeave, Leaving
<1>3. ASSUME NEW h \in WinObjects, WinAddEvent(h) PROVE ClosedLeave'
  <2> SUFFICES ASSUME ~winAgain', NEW x \in WinObjects, x \in winDying' \/ x \notin winOpen'
               PROVE  Leaving(x)'
    BY DEF ClosedLeave
  <2>1. x # h /\ Leaving(x)
    BY <1>0, <1>3 DEF WinAddEvent, ClosedLeave
  <2> QED BY <1>0, <1>3, <2>1, PushLeaving DEF WinAddEvent
<1>4. ASSUME NEW h \in WinObjects, WinEraseEvent(h) PROVE ClosedLeave'
  <2> SUFFICES ASSUME ~winAgain', NEW x \in WinObjects, x \in winDying' \/ x \notin winOpen'
               PROVE  Leaving(x)'
    BY DEF ClosedLeave
  <2>1. x = h \/ Leaving(x)
    BY <1>0, <1>4 DEF WinEraseEvent, ClosedLeave
  <2> QED BY <1>0, <1>4, <2>1, PushLeaving DEF WinEraseEvent
<1>5. ASSUME NEW h \in WinObjects,
             WinSetChange(h) \/ WinCloseHandle(h) \/ WinCloseSocket(h) \/ WinOpenSocket(h)
      PROVE  ClosedLeave'
  BY <1>0, <1>5
     DEF WinSetChange, WinCloseHandle, WinCloseSocket, WinOpenSocket, ClosedLeave, Leaving
<1>6. CASE WinWaitInvalid \/ WinRunChange
  <2>1. WinChangeHandler /\ UNCHANGED <<winOpen, winDying, winAgain>>
    BY <1>6 DEF WinWaitInvalid, WinRunChange
  <2> QED BY <1>0, <2>1, ChangedLeaving DEF ClosedLeave
<1>7. CASE UNCHANGED <<winOpen, winDying, winAgain, winInfos, winChanges>>
  BY <1>0, <1>7 DEF ClosedLeave, Leaving
<1>8. CASE WinSourceSteps(WinObjects)
  BY <1>7, <1>8
     DEF WinSourceSteps, WinNotify, WinTimerSet, WinTimerCancel, WinSetTimer, WinTimerDue,
         WinArrive, WinAddressChanges, WinStop
<1>9. CASE WinLoopSteps
  BY <1>6, <1>7, <1>9
     DEF WinLoopSteps, WinExecute, WinWaitFails, WinWaitExpires, WinWait, WinReset, WinRun,
         WinUpdate, WinRearm, WinTake, WinTakeFails
<1> QED BY <1>2, <1>3, <1>4, <1>5, <1>7, <1>8, <1>9 DEF WinNext, WinObjectSteps, winVars

LEMMA InvHolds == WinSpec => []Inv
<1>1. Inv /\ [WinNext]_winVars => Inv'
  BY TypeStep, SeenStep, LeavingStep DEF Inv
<1> QED BY <1>1, InvInit, PTL DEF WinSpec

(* No wake-up is lost, for any handles and whoever uses them, but for a    *)
(* change of addresses that nobody has asked to be notified of, and what a *)
(* failing WSAIoctl leaves behind: that a handle is reset by the wait and  *)
(* once more by the loop does no harm, since its handler is called after   *)
(* that; and a change in the list is there before it is signalled.  A      *)
(* handle is closed only after the change that takes it away is in the     *)
(* list, and nobody adds it again, but for the address table.              *)
THEOREM WakeNeverLost == WinSpec => []WinNoLostWake
<1>1. Inv => WinNoLostWake
  <2> SUFFICES ASSUME Inv PROVE WinNoLostWake
    OBVIOUS
  <2>1. WinTypeOK /\ Ownership /\ Seen /\ ClosedLeave
    BY DEF Inv, TypeInv
  <2>2. /\ winChanges # <<>> =>
             WinChangeFd \in winSignalled \/ WinTaken(WinChangeFd) \/ winPosting # {}
        /\ winAsked => WinStopFd \in winSignalled \/ WinTaken(WinStopFd)
        /\ \A h \in winOwed \cup {s \in WinSockets : winPending[s] > 0} :
             h \in winSignalled \cup winMissed \/ WinTaken(h)
    BY <2>1 DEF Seen, ChangeSeen, StopSeen, OwedSeen
  <2>3. ASSUME NEW h \in winHandles \ winOpen, ~winAgain
        PROVE  \E i \in DOMAIN winChanges : winChanges[i] = [handle |-> h, add |-> FALSE]
    <3>1. h \in WinObjects /\ h \in winInfos
      BY <2>1, <2>3 DEF WinTypeOK, Ownership, WinHandles
    <3>2. Leaving(h)
      BY <2>1, <2>3, <3>1 DEF ClosedLeave
    <3> QED BY <3>1, <3>2 DEF Leaving
  <2> QED BY <2>2, <2>3 DEF WinNoLostWake
<1> QED BY <1>1, InvHolds, PTL
==============================================================================
