----------------------------- MODULE WindowsLoop -----------------------------
(***************************************************************************)
(* The event loop on Windows (hbm/sys/windows/eventloop.cpp) and what is   *)
(* waited for: notifiers (windows/notifier.cpp), timers                    *)
(* (windows/timer.cpp), the event of a socket that data or connections     *)
(* arrive at (communication/windows/tcpserver.cpp, multicastserver.cpp),   *)
(* and the event of the address table (windows/netlink.cpp).               *)
(*                                                                         *)
(* The loop waits for all handles it knows, resets the one it got, though  *)
(* most are reset by the wait already, and calls its handler.  addEvent    *)
(* and eraseEvent put a change into a list and then, the lock given back,  *)
(* signal the handle of changes.  A change of addresses is notified once   *)
(* for each time that NotifyAddrChange was called.                         *)
(***************************************************************************)
EXTENDS Integers, Sequences, FiniteSets

CONSTANTS
  WinNotifiers, WinTimers, WinSockets,  \* their handles
  WinTable,       \* the handle of the address table
  WinStopFd, WinChangeFd,
  MaxWait,        \* handles that one wait can take (MAXIMUM_WAIT_OBJECTS)
  MaxChanges,     \* bound: changes in the list
  MaxPending      \* bound: datagrams or connections not yet taken

WinObjects == WinNotifiers \cup WinTimers \cup WinSockets \cup {WinTable}
WinHandles == WinObjects \cup {WinStopFd, WinChangeFd}

ManualReset == WinSockets \cup {WinTable}   \* made by WSACreateEvent

ASSUME WindowsLoopAssumption ==
  /\ WinStopFd # WinChangeFd /\ {WinStopFd, WinChangeFd} \cap WinObjects = {}
  /\ WinNotifiers \cap WinTimers = {}
  /\ WinTable \notin WinNotifiers \cup WinTimers \cup WinSockets
  /\ WinSockets \cap (WinNotifiers \cup WinTimers) = {}
  /\ {MaxWait, MaxChanges, MaxPending} \subseteq Nat /\ MaxWait >= 2

VARIABLES
  winOpen,       \* handles that are open
  winSignalled,  \* handles that are signalled
  winInfos,      \* m_eventInfos: handles with an entry
  winHandles,    \* m_handles: what is waited for
  winChanges,    \* m_changeList
  winPosting,    \* handles whose change is in the list and not signalled yet
  winDying,      \* objects that are about to be stopped, or closed
  winArmed,      \* timers that will become due, and again if repeated
  winOwed,       \* handles whose handler is still to be called
  winPending,    \* socket -> what can be taken from it
  winListening,  \* sockets that are open and signal their event
  winNotice,     \* NotifyAddrChange: asked for, or what became of it
  winMissed,     \* handles nobody signals for what is there already
  winAsked,      \* stop was called and no loop has ended for it
  winAt,         \* the loop: where it is, and with which handle
  winAgain       \* the address table was added after it was closed

winVars == <<winOpen, winSignalled, winInfos, winHandles, winChanges, winPosting, winDying,
             winArmed, winOwed, winPending, winListening, winNotice, winMissed,
             winAsked, winAt, winAgain>>

WinAt(pc, h) == [pc |-> pc, handle |-> h]

WinInit ==
  /\ winOpen = {WinStopFd, WinChangeFd, WinTable}
  /\ winSignalled = {}
  /\ winInfos = {WinStopFd, WinChangeFd}
  /\ winHandles = {WinStopFd, WinChangeFd}
  /\ winChanges = <<>>
  /\ winPosting = {} /\ winDying = {}
  /\ winArmed = [t \in WinTimers |-> "no"]
  /\ winOwed = {}
  /\ winPending = [s \in WinSockets |-> 0]
  /\ winListening = {}
  /\ winNotice = "armed" /\ winMissed = {}
  /\ winAsked = FALSE
  /\ winAt = WinAt("out", WinStopFd)
  /\ winAgain = FALSE
-----------------------------------------------------------------------------
(* Objects and the list of changes.                                        *)

winLoopVars == <<winInfos, winHandles, winAt>>
winSocketVars == <<winPending, winListening>>
winSourceVars == <<winArmed, winOwed, winSocketVars, winNotice, winMissed, winAsked>>

(* A constructor creates the handle.                                       *)
WinCreate(h) ==
  /\ h \in WinObjects \ (winOpen \cup {WinTable})
  /\ winOpen' = winOpen \cup {h}
  /\ UNCHANGED <<winSignalled, winChanges, winPosting, winDying, winAgain, winLoopVars,
                 winSourceVars>>

(* The change is put into the list ...                                     *)
Push(h, add) ==
  /\ h \notin winPosting /\ Len(winChanges) < MaxChanges
  /\ winChanges' = Append(winChanges, [handle |-> h, add |-> add])

(* addEvent.  Netlink::start does so with the event it has, be it closed.  *)
WinAddEvent(h) ==
  /\ h \in (winOpen \cap WinObjects) \cup {WinTable} /\ h \notin winDying
  /\ Push(h, TRUE)
  /\ winPosting' = winPosting \cup {h}
  /\ winAgain' = (winAgain \/ h \notin winOpen)
  /\ UNCHANGED <<winOpen, winSignalled, winDying, winLoopVars, winSourceVars>>

(* Who may erase: what is open; and ~Netlink, though stop has closed it.   *)
WinErasable == ((winOpen \cap WinObjects) \cup {WinTable}) \ winDying

(* Faulty: the loop is not woken for a handle that goes away.              *)
EraseQuietly(h) ==
  /\ h \in WinErasable
  /\ Push(h, FALSE)
  /\ UNCHANGED winPosting
  /\ winDying' = winDying \cup ({h} \cap winOpen)
  /\ UNCHANGED <<winOpen, winSignalled, winAgain, winLoopVars, winSourceVars>>

(* eraseEvent, by a destructor or by stop, to close or to keep it then.    *)
WinEraseEvent(h) ==
  /\ h \in WinErasable
  /\ Push(h, FALSE)
  /\ winPosting' = winPosting \cup {h}
  /\ winDying' = winDying \cup ({h} \cap winOpen)
  /\ UNCHANGED <<winOpen, winSignalled, winAgain, winLoopVars, winSourceVars>>

(* ... and SetEvent.                                                       *)
WinSetChange(h) ==
  /\ h \in winPosting
  /\ winPosting' = winPosting \ {h}
  /\ winSignalled' = winSignalled \cup {WinChangeFd}
  /\ UNCHANGED <<winOpen, winChanges, winDying, winAgain, winLoopVars, winSourceVars>>

(* closesocket, in stop of MulticastServer or TcpServer.                   *)
CloseSocketOf(h) ==
  /\ winPending' = [s \in WinSockets |-> IF s = h THEN 0 ELSE winPending[s]]
  /\ winListening' = winListening \ {h}
  /\ winMissed' = winMissed \ {h}

(* stop of a server leaves its event open, for the next start.             *)
WinCloseSocket(s) ==
  /\ s \in winDying \ winPosting
  /\ winDying' = winDying \ {s}
  /\ CloseSocketOf(s)
  /\ UNCHANGED <<winOpen, winSignalled, winChanges, winPosting, winArmed, winOwed,
                 winNotice, winAsked, winAgain, winLoopVars>>

WinCloseHandle(h) ==
  /\ h \in winDying \ winPosting
  /\ winDying' = winDying \ {h}
  /\ winOpen' = winOpen \ {h}
  /\ winSignalled' = winSignalled \ {h}
  /\ winOwed' = winOwed \ {h}
  /\ winArmed' = [t \in WinTimers |-> IF t = h THEN "no" ELSE winArmed[t]]
  /\ CloseSocketOf(h)
  /\ UNCHANGED <<winChanges, winPosting, winNotice, winAsked, winAgain, winLoopVars>>

(* start of a server: a new socket, and WSAEventSelect.                    *)
WinOpenSocket(s) ==
  /\ s \in winOpen \ (winDying \cup winListening)
  /\ winListening' = winListening \cup {s}
  /\ UNCHANGED <<winOpen, winSignalled, winChanges, winPosting, winDying, winArmed, winOwed,
                 winPending, winNotice, winMissed, winAsked, winAgain, winLoopVars>>
-----------------------------------------------------------------------------
(* What signals a handle.                                                  *)

winKeptVars == <<winOpen, winChanges, winPosting, winDying, winAgain, winLoopVars>>

(* Notifier::notify.                                                       *)
WinNotify(h) ==
  /\ h \in winOpen
  /\ winSignalled' = winSignalled \cup {h}
  /\ winOwed' = winOwed \cup {h}
  /\ UNCHANGED <<winArmed, winSocketVars, winNotice, winMissed, winAsked, winKeptVars>>

(* An address changes.  It is notified if that was asked for, and seen all *)
(* the same if the list is still to be updated for an earlier change.      *)
WinAddressChanges ==
  /\ WinTable \in winOpen
  /\ winOwed' = winOwed \cup {WinTable}
  /\ IF winNotice = "armed"
     THEN /\ winNotice' = "fired" /\ winSignalled' = winSignalled \cup {WinTable}
          /\ UNCHANGED winMissed
     ELSE /\ winMissed' = winMissed \cup (IF winNotice = "fired" THEN {} ELSE {WinTable})
          /\ UNCHANGED <<winNotice, winSignalled>>
  /\ UNCHANGED <<winArmed, winSocketVars, winAsked, winKeptVars>>

(* SetWaitableTimer, by Timer::set or cancel: the timer is not signalled   *)
(* any longer.                                                             *)
WinSetTimer(t, mode) ==
  /\ t \in winOpen
  /\ winArmed' = [winArmed EXCEPT ![t] = mode]
  /\ winSignalled' = winSignalled \ {t}
  /\ winOwed' = winOwed \ {t}
  /\ UNCHANGED <<winSocketVars, winNotice, winMissed, winAsked, winKeptVars>>

(* Timer::cancel also takes the callback away, so that a loop which has    *)
(* the handle already calls nothing.                                       *)
WinTimerCancel(t) == WinSetTimer(t, "no")

(* Timer::set, after its addEvent.                                         *)
WinTimerSet(t) ==
  /\ t \in winInfos \/ \E i \in DOMAIN winChanges : winChanges[i] = [handle |-> t, add |-> TRUE]
  /\ t \notin winPosting \cup winDying
  /\ \E mode \in {"once", "repeated"} : WinSetTimer(t, mode)

WinTimerDue(t) ==
  /\ winArmed[t] # "no"
  /\ winArmed' = [winArmed EXCEPT ![t] = IF @ = "once" THEN "no" ELSE @]
  /\ winSignalled' = winSignalled \cup {t}
  /\ winOwed' = winOwed \cup {t}
  /\ UNCHANGED <<winSocketVars, winNotice, winMissed, winAsked, winKeptVars>>

(* Something arrives.  The first that does signals the event, and none     *)
(* again until something is taken.                                         *)
WinArrive(s) ==
  /\ s \in winListening /\ winPending[s] < MaxPending
  /\ winPending' = [winPending EXCEPT ![s] = @ + 1]
  /\ winSignalled' = IF winPending[s] = 0 THEN winSignalled \cup {s} ELSE winSignalled
  /\ UNCHANGED <<winArmed, winOwed, winListening, winNotice, winMissed, winAsked,
                 winKeptVars>>

WinStop ==
  /\ winAsked' = TRUE
  /\ winSignalled' = winSignalled \cup {WinStopFd}
  /\ UNCHANGED <<winArmed, winOwed, winSocketVars, winNotice, winMissed, winKeptVars>>
-----------------------------------------------------------------------------
(* The loop.                                                               *)

winOutside == <<winOpen, winPosting, winDying, winArmed, winAgain>>
winListVars == <<winInfos, winHandles, winChanges>>

WinExecute ==
  /\ winAt.pc = "out"
  /\ winAt' = WinAt("wait", WinStopFd)
  /\ UNCHANGED <<winSignalled, winListVars, winSourceVars, winOutside>>

(* For each handle the last change in the list decides.                    *)
WinLast(i) ==
  \A j \in DOMAIN winChanges : winChanges[j].handle = winChanges[i].handle => j <= i

WinInfosChanged ==
  LET last == {winChanges[i] : i \in {j \in DOMAIN winChanges : WinLast(j)}}
  IN  (winInfos \ {c.handle : c \in last}) \cup {c.handle : c \in {d \in last : d.add}}

(* Faulty: m_handles is not cleared before it is filled.                   *)
ChangeKeepingHandles ==
  /\ winInfos' = WinInfosChanged
  /\ winHandles' = winHandles \cup winInfos'
  /\ winChanges' = <<>>

(* changeHandler.                                                          *)
WinChangeHandler ==
  /\ winInfos' = WinInfosChanged
  /\ winHandles' = winInfos'
  /\ winChanges' = <<>>

(* One of the handles is closed: the changes are looked for at once.       *)
WinWaitInvalid ==
  /\ winAt.pc = "wait" /\ ~(winHandles \subseteq winOpen)
  /\ Cardinality(winHandles) <= MaxWait
  /\ WinChangeHandler
  /\ UNCHANGED <<winSignalled, winAt, winSourceVars, winOutside>>

(* Any other error, as that of too many handles, ends the loop.            *)
WinWaitFails ==
  /\ winAt.pc = "wait" /\ Cardinality(winHandles) > MaxWait
  /\ winAt' = WinAt("out", WinStopFd)
  /\ UNCHANGED <<winSignalled, winListVars, winSourceVars, winOutside>>

WinWaitExpires ==
  /\ winAt.pc = "wait" /\ winHandles \subseteq winOpen /\ Cardinality(winHandles) <= MaxWait
  /\ winAt' = WinAt("out", WinStopFd)
  /\ UNCHANGED <<winSignalled, winListVars, winSourceVars, winOutside>>

(* A signalled handle, reset by the wait unless that is left to the loop.  *)
(* Which one it is depends on their order in m_handles, which a hash       *)
(* decides.                                                                *)
WinWait ==
  /\ winAt.pc = "wait" /\ winHandles \subseteq winOpen /\ Cardinality(winHandles) <= MaxWait
  /\ \E h \in winHandles \cap winSignalled :
       /\ winSignalled' = winSignalled \ ({h} \ ManualReset)
       /\ winAt' = WinAt("reset", h)
  /\ UNCHANGED <<winListVars, winSourceVars, winOutside>>

(* WSAResetEvent, before the handler is called.  The handle to stop has    *)
(* none.                                                                   *)
WinReset ==
  /\ winAt.pc = "reset"
  /\ winSignalled' = winSignalled \ {winAt.handle}
  /\ IF winAt.handle = WinStopFd
     THEN winAt' = WinAt("out", WinStopFd) /\ winAsked' = FALSE
     ELSE winAt' = WinAt("run", winAt.handle) /\ UNCHANGED winAsked
  /\ UNCHANGED <<winListVars, winOwed, winSocketVars, winNotice, winMissed, winOutside>>

WinRunChange ==
  /\ winAt = WinAt("run", WinChangeFd)
  /\ WinChangeHandler
  /\ winAt' = WinAt("wait", WinStopFd)
  /\ UNCHANGED <<winSignalled, winSourceVars, winOpen, winPosting, winDying, winAgain>>

(* A handler returns 0 or less, or an exception of the client leaves the   *)
(* loop.                                                                   *)
WinHandled == winAt' \in {WinAt("wait", WinStopFd), WinAt("out", WinStopFd)}

(* Notifier::process, Timer::process: once.                                *)
WinRun ==
  /\ winAt.pc = "run" /\ winAt.handle \in WinNotifiers \cup WinTimers
  /\ winOwed' = winOwed \ {winAt.handle}
  /\ WinHandled
  /\ UNCHANGED <<winSignalled, winListVars, winSocketVars, winNotice, winMissed, winAsked,
                 winOutside>>

(* Netlink::process: the list of adapters is updated, the client told ...  *)
WinUpdate ==
  /\ winAt = WinAt("run", WinTable)
  /\ winOwed' = winOwed \ {WinTable}
  /\ winMissed' = winMissed \ {WinTable}
  /\ winNotice' = "updated"
  /\ winAt' = WinAt("rearm", WinTable)
  /\ UNCHANGED <<winSignalled, winListVars, winSocketVars, winAsked, winOutside>>

(* ... and the next change asked for, which fails for a closed handle and  *)
(* may fail for others.  Then, or if the client threw, an exception leaves *)
(* the loop and no change is notified any more.                            *)
WinRearm ==
  /\ winAt = WinAt("rearm", WinTable)
  /\ \/ /\ WinTable \in winOpen
        /\ winNotice' = "armed" /\ winAt' = WinAt("wait", WinStopFd)
     \/ winNotice' = "lost" /\ winAt' = WinAt("out", WinStopFd)
  /\ UNCHANGED <<winSignalled, winListVars, winOwed, winSocketVars, winMissed, winAsked,
                 winOutside>>

(* WSARecvMsg or accept takes one, and the event is signalled at once if   *)
(* there is more.  The handler is called again until it returns 0 or less: *)
(* TcpServer::process does so after each connection, receiveTelegram when  *)
(* there is no datagram or it came by an unknown adapter.                  *)
WinTake ==
  LET s == winAt.handle
      left == IF winPending[s] = 0 THEN 0 ELSE winPending[s] - 1
  IN  /\ winAt.pc = "run" /\ s \in WinSockets
      /\ winPending' = [winPending EXCEPT ![s] = left]
      /\ winSignalled' = IF left > 0 THEN winSignalled \cup {s} ELSE winSignalled
      /\ WinHandled \/ (winPending[s] > 0 /\ UNCHANGED winAt)
      /\ winMissed' = winMissed \ {s}
      /\ UNCHANGED <<winListVars, winOwed, winListening, winNotice, winAsked, winOutside>>

(* WSAIoctl fails, before anything is taken.  What is there signals no     *)
(* more.                                                                   *)
WinTakeFails ==
  LET s == winAt.handle
  IN  /\ winAt.pc = "run" /\ s \in WinSockets
      /\ WinHandled
      /\ winMissed' = winMissed \cup {h \in {s} \ winSignalled : winPending[h] > 0}
      /\ UNCHANGED <<winSignalled, winListVars, winOwed, winSocketVars, winNotice, winAsked,
                     winOutside>>
-----------------------------------------------------------------------------
WinObjectSteps(handles) ==
  \/ \E h \in handles :
       \/ WinCreate(h) \/ WinAddEvent(h) \/ WinEraseEvent(h)
       \/ WinSetChange(h) \/ WinCloseHandle(h)
  \/ \E s \in handles \cap WinSockets : WinOpenSocket(s) \/ WinCloseSocket(s)

WinSourceSteps(handles) ==
  \/ \E h \in handles \cap WinNotifiers : WinNotify(h)
  \/ \E t \in handles \cap WinTimers : WinTimerSet(t) \/ WinTimerCancel(t) \/ WinTimerDue(t)
  \/ \E s \in handles \cap WinSockets : WinArrive(s)
  \/ WinTable \in handles /\ WinAddressChanges
  \/ WinStop

WinLoopSteps ==
  \/ WinExecute \/ WinWaitInvalid \/ WinWaitFails \/ WinWaitExpires \/ WinWait
  \/ WinReset \/ WinRunChange \/ WinRun \/ WinUpdate \/ WinRearm
  \/ WinTake \/ WinTakeFails

WinNext == WinObjectSteps(WinObjects) \/ WinSourceSteps(WinObjects) \/ WinLoopSteps

WinSpec == WinInit /\ [][WinNext]_winVars
-----------------------------------------------------------------------------
(* Properties.                                                             *)

WinTypeOK ==
  /\ winOpen \subseteq WinHandles /\ winSignalled \subseteq WinHandles
  /\ winInfos \subseteq WinHandles /\ winHandles = winInfos
  /\ winChanges \in Seq([handle : WinObjects, add : BOOLEAN])
  /\ winArmed \in [WinTimers -> {"no", "once", "repeated"}]
  /\ winPending \in [WinSockets -> 0 .. MaxPending]
  /\ winListening \subseteq WinSockets /\ winMissed \subseteq ManualReset
  /\ winNotice \in {"armed", "fired", "updated", "lost"}
  /\ winAt \in [pc : {"out", "wait", "reset", "run", "rearm"}, handle : WinHandles]

(* The loop has h and will call its handler.                               *)
WinTaken(h) == winAt.pc \in {"reset", "run"} /\ winAt.handle = h

(* No wake-up is lost, although every handle is reset twice: a change in   *)
(* the list, a stop, whatever a handler is still to be called for, what    *)
(* has arrived and an address that changed leave the handle signalled,     *)
(* unless the loop has it in hand.  But a change of addresses between the  *)
(* update of the list and the next NotifyAddrChange, or after that failed, *)
(* is lost, as is what a failing WSAIoctl leaves behind (winMissed).  A    *)
(* closed handle, which makes every wait fail, is waited for only while    *)
(* the change that removes it is in the list, unless the address table was *)
(* closed and started again.                                               *)
(* (EventLoop::execute_for, changeHandler, addEvent, eraseEvent, stop,     *)
(* Netlink::process.)                                                      *)
WinNoLostWake ==
  /\ winChanges # <<>> =>
       WinChangeFd \in winSignalled \/ WinTaken(WinChangeFd) \/ winPosting # {}
  /\ winAsked => WinStopFd \in winSignalled \/ WinTaken(WinStopFd)
  /\ \A h \in winOwed \cup {s \in WinSockets : winPending[s] > 0} :
       h \in winSignalled \cup winMissed \/ WinTaken(h)
  /\ \A h \in winHandles \ winOpen :
       winAgain \/ \E i \in DOMAIN winChanges :
                     winChanges[i] = [handle |-> h, add |-> FALSE]
=============================================================================
