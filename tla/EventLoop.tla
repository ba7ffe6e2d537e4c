------------------------------ MODULE EventLoop ------------------------------
(***************************************************************************)
(* hbm::sys::EventLoop on Linux: hbm/sys/linux/eventloop.cpp               *)
(*                                                                         *)
(* One thread executes the loop over an edge triggered epoll; other        *)
(* threads, and the handlers the loop calls, register and remove           *)
(* descriptors through a mutex protected list of changes and stop the      *)
(* loop.  An object (a timer, a notifier, a socket) owns a descriptor,     *)
(* registers a handler bound to itself and may be destroyed.               *)
(*                                                                         *)
(* Every addEvent has a number of its own: it names the handler passed     *)
(* and, once it is carried out, the node of m_eventInfos that epoll points *)
(* to.  The ready list of epoll is a set and a batch is dispatched in any  *)
(* order: nothing in the code relies on the order of either.               *)
(***************************************************************************)
EXTENDS Integers, Sequences, FiniteSets

CONSTANTS
  Fds,          \* descriptors that objects own
  MaxEvents,    \* MAXEVENTS: how many events one epoll_wait returns
  MaxInputs     \* bound: calls of addEvent and eraseEvent by objects,
                \* together with units of data that arrive

ASSUME ConstantsAssumption ==
  /\ IsFiniteSet(Fds)
  /\ Fds \cap {"stop", "change"} = {}
  /\ MaxEvents \in Nat \ {0}
  /\ MaxInputs \in Nat

Sources == Fds \cup {"stop", "change"}

VARIABLES
  object,       \* fd -> "none", "alive", or "dying": ~Object has begun
  born,         \* fd -> calls made before the object now there was created
  unread,       \* fd -> units of data in the kernel, not yet read
  hungUp,       \* descriptors with EPOLLHUP or EPOLLERR
  calls,        \* addEvent and eraseEvent calls so far
  arrivals,     \* units of data so far
  interest,     \* descriptors in the interest list of epoll
  ready,        \* the ready list of epoll: what has an edge to report
  changed,      \* m_changeFd is readable
  changeList,   \* m_changeList: <<[fd, handler]>>, handler = 0 to remove
  carriedOut,   \* items of it carried out since changeHandler began
  eventInfos,   \* m_eventInfos: fd -> handler, or 0 for no node
  pc,           \* where the loop's thread is
  timed,        \* it runs execute_for
  batch,        \* events returned by epoll_wait and not yet dispatched
  current,      \* the event or list item being handled
  dropped,      \* sources whose edge was thrown away on return
  stopping,     \* stop() was called and nothing returned since
  ub            \* undefined behaviour met: see Undefined

objectVars == <<object, born, unread, hungUp, calls, arrivals>>
epollVars  == <<interest, ready>>
changeVars == <<changed, changeList, carriedOut, eventInfos>>
loopVars   == <<pc, timed, batch, current>>
ghostVars  == <<dropped, stopping, ub>>
vars == <<objectVars, epollVars, changeVars, loopVars, ghostVars>>

Nothing == [fd |-> "stop", handler |-> 0, hup |-> FALSE]

Event == [fd : Sources, handler : 0 .. MaxInputs, hup : BOOLEAN]

Init ==
  /\ object = [f \in Fds |-> "none"]
  /\ born = [f \in Fds |-> 0]
  /\ unread = [f \in Fds |-> 0]
  /\ hungUp = {}
  /\ calls = 0
  /\ arrivals = 0
  /\ interest = {}
  /\ ready = {}
  /\ changed = FALSE
  /\ changeList = <<>>
  /\ carriedOut = 0
  /\ eventInfos = [f \in Fds |-> 0]
  /\ pc = "out"
  /\ timed = FALSE
  /\ batch = {}
  /\ current = Nothing
  /\ dropped = {}
  /\ stopping = FALSE
  /\ ub = {}
------------------------------------------------------------------------------
(* The kernel.                                                             *)

(* m_stopFd is never read: it stays readable, and each write is an edge.   *)
Readable(s) ==
  \/ s = "stop"
  \/ s = "change" /\ changed
  \/ s \in Fds /\ (unread[s] > 0 \/ s \in hungUp)

(* An edge is reported for what is in the interest list, once.             *)
Signal(s) ==
  /\ ready' = ready \cup (IF s \in interest \cup {"stop", "change"}
                            THEN {s} ELSE {})
  /\ dropped' = dropped \ {s}

Signaled == {s \in ready : Readable(s)}
------------------------------------------------------------------------------
(* The calls of EventLoop that any thread makes.                           *)

(* m_changeListMtx is recursive: it keeps out the other threads while the  *)
(* loop's thread carries out the list, not the handlers it calls.          *)
MutexFree == pc \notin {"items", "drain"}

(* Faulty: m_changeFd is not written.                                      *)
ChangeUnsignaled(f, h) ==
  /\ changeList' = Append(changeList, [fd |-> f, handler |-> h])
  /\ UNCHANGED <<changed, ready, dropped>>

(* addEvent (h > 0) and eraseEvent (h = 0)                                 *)
Change(f, h) ==
  /\ changeList' = Append(changeList, [fd |-> f, handler |-> h])
  /\ changed' = TRUE
  /\ Signal("change")

StopCall == stopping' = TRUE /\ Signal("stop")

(* An object with its own descriptor is created and registers it.          *)
Create(f) ==
  /\ MutexFree /\ calls + arrivals < MaxInputs
  /\ object[f] = "none"
  /\ object' = [object EXCEPT ![f] = "alive"]
  /\ born' = [born EXCEPT ![f] = calls]
  /\ calls' = calls + 1
  /\ Change(f, calls + 1)
  /\ UNCHANGED <<unread, hungUp, arrivals, interest, carriedOut,
                 eventInfos, loopVars, stopping, ub>>

(* Its handler is set anew, or removed.                                    *)
Register(f, h) ==
  /\ MutexFree /\ calls + arrivals < MaxInputs
  /\ object[f] = "alive"
  /\ h \in {0, calls + 1}
  /\ calls' = calls + 1
  /\ Change(f, h)
  /\ UNCHANGED <<object, born, unread, hungUp, arrivals, interest, carriedOut,
                 eventInfos, loopVars, stopping, ub>>

(* The destructor: eraseEvent, then close, which takes the descriptor out  *)
(* of epoll and frees its number.                                          *)
BeginDestroy(f) ==
  /\ MutexFree /\ calls + arrivals < MaxInputs
  /\ object[f] = "alive"
  /\ object' = [object EXCEPT ![f] = "dying"]
  /\ calls' = calls + 1
  /\ Change(f, 0)
  /\ UNCHANGED <<born, unread, hungUp, arrivals, interest, carriedOut,
                 eventInfos, loopVars, stopping, ub>>

EndDestroy(f) ==
  /\ object[f] = "dying"
  /\ object' = [object EXCEPT ![f] = "none"]
  /\ born' = [born EXCEPT ![f] = calls]
  /\ unread' = [unread EXCEPT ![f] = 0]
  /\ hungUp' = hungUp \ {f}
  /\ interest' = interest \ {f}
  /\ ready' = ready \ {f}
  /\ dropped' = dropped \ {f}
  /\ UNCHANGED <<calls, arrivals, changeVars, loopVars, stopping, ub>>

Stop == /\ StopCall
        /\ UNCHANGED <<objectVars, interest, changeVars, loopVars, ub>>

(* Data arrives, or the other side hangs up.                               *)
Arrive(f) ==
  /\ object[f] # "none" /\ calls + arrivals < MaxInputs
  /\ arrivals' = arrivals + 1
  /\ unread' = [unread EXCEPT ![f] = @ + 1]
  /\ Signal(f)
  /\ UNCHANGED <<object, born, hungUp, calls, interest, changeVars, loopVars,
                 stopping, ub>>

HangUp(f) ==
  /\ object[f] # "none" /\ f \notin hungUp
  /\ hungUp' = hungUp \cup {f}
  /\ Signal(f)
  /\ UNCHANGED <<object, born, unread, calls, arrivals, interest, changeVars,
                 loopVars, stopping, ub>>
------------------------------------------------------------------------------
(* The thread that executes the loop.                                      *)

(* execute() and execute_for()                                             *)
Execute(t) ==
  /\ pc = "out"
  /\ pc' = "wait"
  /\ timed' = t
  /\ UNCHANGED <<objectVars, epollVars, changeVars, batch, current, ghostVars>>

(* epoll_wait returns events: each edge once, and no more than MaxEvents.  *)
Wait ==
  /\ pc = "wait" /\ Signaled # {}
  /\ \E B \in SUBSET Signaled :
       /\ \/ Cardinality(B) = MaxEvents
          \/ B = Signaled /\ Cardinality(B) < MaxEvents
       /\ batch' = {[fd |-> s,
                     handler |-> IF s \in Fds THEN eventInfos[s] ELSE 0,
                     hup |-> s \in hungUp] : s \in B}
       /\ ready' = Signaled \ B
  /\ pc' = "dispatch"
  /\ UNCHANGED <<objectVars, interest, changeVars, timed, current, ghostVars>>

(* The time of execute_for is over.                                        *)
TimeOut ==
  /\ pc = "wait" /\ timed
  /\ pc' = "out"
  /\ timed' = FALSE
  /\ UNCHANGED <<objectVars, epollVars, changeVars, batch, current, ghostVars>>

(* Where a thread that is done with an event goes on.                      *)
Resume(b) == IF b = {} THEN "wait" ELSE "dispatch"

(* The node epoll pointed to when it reported e is no more.                *)
Dangling(e) == eventInfos[e.fd] # e.handler

(* The object e's handler is bound to is no more.                          *)
Destroyed(e) == object[e.fd] = "none" \/ e.handler <= born[e.fd]

(* Undefined behaviour: the process dies, or gets away with it.            *)
Undefined(what, next) ==
  /\ ub' = ub \cup {what}
  /\ pc' \in {"crashed", next}
  /\ current' = Nothing
  /\ UNCHANGED <<objectVars, epollVars, changeVars, timed, dropped, stopping>>

(* Faulty: break where it should return.                                   *)
DispatchStopBreak(e) ==
  /\ pc = "dispatch" /\ e.fd = "stop"
  /\ pc' = "wait"
  /\ batch' = {}
  /\ dropped' = dropped \cup ({x.fd : x \in batch \ {e}} \ Signaled)
  /\ UNCHANGED <<objectVars, epollVars, changeVars, timed, current, stopping, ub>>

(* The stop event: return, whatever else the batch holds.                  *)
DispatchStop(e) ==
  /\ pc = "dispatch" /\ e.fd = "stop"
  /\ pc' = "out"
  /\ timed' = FALSE
  /\ batch' = {}
  /\ stopping' = FALSE
  /\ dropped' = dropped \cup ({x.fd : x \in batch \ {e}} \ Signaled)
  /\ UNCHANGED <<objectVars, epollVars, changeVars, current, ub>>

(* Any other: its handler is called, or if it hung up, it is removed.      *)
DispatchHandler(e) ==
  /\ pc = "dispatch" /\ e.fd # "stop" /\ ~e.hup
  /\ pc' = IF e.fd = "change" THEN "change" ELSE "handle"
  /\ batch' = batch \ {e}
  /\ current' = IF e.fd = "change" THEN Nothing ELSE e
  /\ UNCHANGED <<objectVars, epollVars, changeVars, timed, ghostVars>>

DispatchHangUp(e) ==
  /\ pc = "dispatch" /\ e.hup
  /\ batch' = batch \ {e}
  /\ IF Dangling(e) THEN Undefined("dangling", Resume(batch \ {e}))
     ELSE /\ Change(e.fd, 0)
          /\ pc' = Resume(batch \ {e})
          /\ UNCHANGED <<objectVars, interest, carriedOut, eventInfos, timed,
                         current, stopping, ub>>

(* What a handler that was given a unit of data does besides reading it:   *)
(* nothing, stop the loop, or destroy another object.                      *)
HandlerOnlyReads ==
  /\ unread' = [unread EXCEPT ![current.fd] = @ - 1]
  /\ UNCHANGED <<object, born, hungUp, calls, arrivals, epollVars, changeVars,
                 dropped, stopping>>

HandlerStops ==
  /\ unread' = [unread EXCEPT ![current.fd] = @ - 1]
  /\ StopCall
  /\ UNCHANGED <<object, born, hungUp, calls, arrivals, interest, changeVars>>

HandlerDestroys(f) ==
  /\ f # current.fd /\ object[f] = "alive" /\ calls + arrivals < MaxInputs
  /\ unread' = [unread EXCEPT ![current.fd] = @ - 1, ![f] = 0]
  /\ object' = [object EXCEPT ![f] = "none"]
  /\ calls' = calls + 1
  /\ born' = [born EXCEPT ![f] = calls + 1]
  /\ hungUp' = hungUp \ {f}
  /\ interest' = interest \ {f}
  /\ changeList' = Append(changeList, [fd |-> f, handler |-> 0])
  /\ changed' = TRUE
  /\ ready' = (ready \ {f}) \cup {"change"}
  /\ dropped' = dropped \ {f, "change"}
  /\ UNCHANGED <<arrivals, carriedOut, eventInfos, stopping>>

(* The handler has read and throws: the exception passes through execute.  *)
(* What was left of the batch is lost, and so is, in changeHandler, the    *)
(* signal of a list that is not cleared.                                   *)
HandlerThrows ==
  /\ unread' = [unread EXCEPT ![current.fd] = @ - 1]
  /\ pc' = "out"
  /\ timed' = FALSE
  /\ batch' = {}
  /\ current' = Nothing
  /\ carriedOut' = 0
  /\ stopping' = (stopping /\ "stop" \in ready)
  /\ dropped' = dropped \cup (({current.fd} \cup {x.fd : x \in batch}
                  \cup (IF pc = "drain" THEN {"change"} ELSE {})) \ Signaled)
  /\ UNCHANGED <<object, born, hungUp, calls, arrivals, epollVars, changed,
                 changeList, eventInfos, ub>>

(* Faulty: the handler is called once for an edge.                         *)
CallHandlerOnce ==
  LET done == IF pc = "drain" THEN "items" ELSE Resume(batch)
  IN /\ pc \in {"handle", "drain"}
     /\ IF unread[current.fd] > 0 THEN HandlerOnlyReads
        ELSE UNCHANGED <<objectVars, epollVars, changeVars, dropped, stopping>>
     /\ pc' = done
     /\ current' = Nothing
     /\ UNCHANGED <<timed, batch, ub>>

(* Faulty: the handler reads, whether there is anything to read or not.    *)
CallHandlerBlindly ==
  /\ pc \in {"handle", "drain"}
  /\ HandlerOnlyReads
  /\ current' = Nothing
  /\ pc' = IF pc = "drain" THEN "items" ELSE Resume(batch)
  /\ UNCHANGED <<timed, batch, ub>>

(* One call of the handler, out of the batch or out of changeHandler, to   *)
(* be repeated for as long as it returns more than 0.                      *)
CallHandler ==
  LET done == IF pc = "drain" THEN "items" ELSE Resume(batch)
  IN /\ pc \in {"handle", "drain"}
     /\ IF pc = "handle" /\ Dangling(current)
          THEN batch' = batch /\ Undefined("dangling", done)
        ELSE IF Destroyed(current)
          THEN batch' = batch /\ Undefined("destroyed", done)
        ELSE IF unread[current.fd] = 0
          THEN /\ pc' = done
               /\ current' = Nothing
               /\ UNCHANGED <<objectVars, epollVars, changeVars, timed, batch,
                              ghostVars>>
        ELSE \/ /\ \/ HandlerOnlyReads
                   \/ HandlerStops
                   \/ \E f \in Fds : HandlerDestroys(f)
                /\ UNCHANGED <<pc, timed, batch, current, ub>>
             \/ HandlerThrows

(* changeHandler, with the mutex held: the descriptor is read, and if it   *)
(* was signaled, the list is carried out, what handlers add to it included.*)
BeginChanges ==
  /\ pc = "change"
  /\ changed' = FALSE
  /\ pc' = IF changed THEN "items" ELSE Resume(batch)
  /\ UNCHANGED <<objectVars, epollVars, changeList, carriedOut, eventInfos,
                 timed, batch, current, ghostVars>>

(* One item: out of epoll and out of the map.  If it is to be added, back  *)
(* into both, and its handler is called, for an edge may be long past.     *)
(* EPOLL_CTL_ADD fails for a closed descriptor, and reports at once what   *)
(* is readable already.                                                    *)
CarryOut ==
  LET item == changeList[carriedOut + 1]
      f == item.fd
      added == item.handler > 0 /\ object[f] # "none"
  IN /\ pc = "items" /\ carriedOut < Len(changeList)
     /\ carriedOut' = carriedOut + 1
     /\ eventInfos' = [eventInfos EXCEPT ![f] = item.handler]
     /\ interest' = IF added THEN interest \cup {f} ELSE interest \ {f}
     /\ ready' = IF added /\ Readable(f) THEN ready \cup {f} ELSE ready \ {f}
     /\ dropped' = dropped \ {f}
     /\ pc' = IF item.handler > 0 THEN "drain" ELSE "items"
     /\ current' = IF item.handler > 0
                     THEN [fd |-> f, handler |-> item.handler, hup |-> FALSE]
                     ELSE Nothing
     /\ UNCHANGED <<objectVars, changed, changeList, timed, batch, stopping, ub>>

(* Faulty: one item is carried out for a signal.                           *)
EndChangesEarly ==
  /\ pc = "items" /\ carriedOut > 0
  /\ changeList' = SubSeq(changeList, carriedOut + 1, Len(changeList))
  /\ carriedOut' = 0
  /\ pc' = "change"
  /\ UNCHANGED <<objectVars, epollVars, changed, eventInfos, timed, batch,
                 current, ghostVars>>

(* The list is done and cleared; having read something, changeHandler is   *)
(* called again.                                                           *)
EndChanges ==
  /\ pc = "items" /\ carriedOut = Len(changeList)
  /\ changeList' = <<>>
  /\ carriedOut' = 0
  /\ pc' = "change"
  /\ UNCHANGED <<objectVars, epollVars, changed, eventInfos, timed, batch,
                 current, ghostVars>>

Dispatch == \E e \in batch :
              DispatchStop(e) \/ DispatchHandler(e) \/ DispatchHangUp(e)

Changes == BeginChanges \/ CarryOut \/ EndChanges

Loop == Wait \/ Dispatch \/ CallHandler \/ Changes

Others ==
  \/ \E f \in Fds : \/ Create(f) \/ BeginDestroy(f) \/ EndDestroy(f)
                    \/ Arrive(f) \/ HangUp(f)
                    \/ \E h \in 0 .. MaxInputs : Register(f, h)
  \/ Stop

Next == \/ \E t \in BOOLEAN : Execute(t)
        \/ TimeOut
        \/ Loop
        \/ pc # "crashed" /\ Others

Spec == Init /\ [][Next]_vars

(* The thread that executes the loop runs, and once it has returned, is    *)
(* sent to execute it again.  Strong fairness, because the time given to   *)
(* execute_for is not always over before it has come to epoll_wait.        *)
(* Nothing is assumed of the other threads.                                *)
FairSpec == Spec /\ SF_vars(Loop) /\ WF_vars(\E t \in BOOLEAN : Execute(t))
------------------------------------------------------------------------------
(* Properties.                                                             *)

TypeOK ==
  /\ object \in [Fds -> {"none", "alive", "dying"}]
  /\ born \in [Fds -> 0 .. MaxInputs]
  /\ unread \in [Fds -> 0 .. MaxInputs]
  /\ hungUp \subseteq Fds
  /\ calls \in 0 .. MaxInputs
  /\ arrivals \in 0 .. MaxInputs
  /\ interest \subseteq Fds
  /\ ready \subseteq Sources
  /\ changed \in BOOLEAN
  /\ changeList \in Seq([fd : Fds, handler : 0 .. MaxInputs])
  /\ carriedOut \in 0 .. Len(changeList)
  /\ eventInfos \in [Fds -> 0 .. MaxInputs]
  /\ pc \in {"out", "wait", "dispatch", "handle", "change", "items", "drain",
             "crashed"}
  /\ timed \in BOOLEAN
  /\ batch \subseteq Event
  /\ current \in Event
  /\ dropped \subseteq Sources
  /\ stopping \in BOOLEAN
  /\ ub \subseteq {"dangling", "destroyed"}

(* What is about to be looked at, without a further edge.                  *)
Attended == Signaled \cup {e.fd : e \in batch}
            \cup (IF pc \in {"handle", "drain"} THEN {current.fd} ELSE {})
            \cup (IF pc \in {"change", "items", "drain"} THEN {"change"} ELSE {})

(* Edge triggered, and yet nothing unread is overlooked: data behind a     *)
(* registered descriptor is in the ready list, in the batch, or with its   *)
(* handler.  Only the return on stop throws edges away; a descriptor that  *)
(* hung up is given up with what it holds.                                 *)
NoLostEdge ==
  ub = {} => \A f \in interest \ hungUp :
               unread[f] > 0 => f \in Attended \cup dropped

(* Nor is a registration: as long as the list holds anything, the loop is  *)
(* going to see it.                                                        *)
NoLostChange ==
  ub = {} /\ changeList # <<>> => "change" \in Attended \cup dropped

(* stop() is never lost, whether the loop runs or not, and whatever batch  *)
(* it happens to be in.                                                    *)
NoLostStop == stopping => "stop" \in Attended

(* The loop returns for a stop, unless it dies first.                      *)
StopReturns == stopping /\ pc # "out" ~> pc \in {"out", "crashed"}

(* eraseEvent takes effect: in the end no descriptor is watched that has   *)
(* no handler to be called, and all data of a watched one is read, unless  *)
(* a return has thrown its edge away.                                      *)
Settles ==
  <>[](\/ pc = "crashed" \/ ub # {} \/ dropped # {}
       \/ /\ changeList = <<>>
          /\ \A f \in interest \ hungUp : unread[f] = 0)
------------------------------------------------------------------------------
(* What a comment says that the code does not do.                          *)

(* The comment of changeHandler (eventloop.cpp:71): the pointers epoll     *)
(* holds stay good when members are added and removed.                     *)
PointersStayGood == "dangling" \notin ub
==============================================================================
