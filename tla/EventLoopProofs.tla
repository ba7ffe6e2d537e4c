--------------------------- MODULE EventLoopProofs ---------------------------
(***************************************************************************)
(* Theorems about EventLoop, for any set of descriptors, any size of a     *)
(* batch and any number of calls and arrivals.                             *)
(***************************************************************************)
EXTENDS EventLoop, TLAPS

(* Nothing is read that has not arrived.                                   *)
Bounded ==
  /\ calls + arrivals <= MaxInputs
  /\ \A f \in Fds : unread[f] <= arrivals

(* A handler is that of an object's descriptor, and only such a descriptor *)
(* can hang up.                                                            *)
HandledIsOwned == pc \in {"handle", "drain"} => current.fd \in Fds
HungUpIsOwned  == \A e \in batch : e.hup => e.fd \in Fds

TypeInv == TypeOK /\ Bounded /\ HandledIsOwned /\ HungUpIsOwned

(* The variables that calls of addEvent and eraseEvent change.             *)
ChangeTypeOK ==
  /\ ready \subseteq Sources
  /\ dropped \subseteq Sources
  /\ changed \in BOOLEAN
  /\ changeList \in Seq([fd : Fds, handler : 0 .. MaxInputs])
  /\ carriedOut \in 0 .. Len(changeList)

LEMMA SignalType ==
  ASSUME ready \subseteq Sources, dropped \subseteq Sources,
         NEW s \in Sources, Signal(s)
  PROVE  ready' \subseteq Sources /\ dropped' \subseteq Sources
BY DEF Signal

(* A call of addEvent or eraseEvent puts an item behind the others.        *)
LEMMA ChangeType ==
  ASSUME ChangeTypeOK, NEW f \in Fds, NEW h \in 0 .. MaxInputs,
         Change(f, h), carriedOut' = carriedOut
  PROVE  ChangeTypeOK'
<1> DEFINE Items == [fd : Fds, handler : 0 .. MaxInputs]
           item == [fd |-> f, handler |-> h]
<1>1. "change" \in Sources
  BY DEF Sources
<1>2. ready' \subseteq Sources /\ dropped' \subseteq Sources
  BY <1>1, SignalType DEF Change, ChangeTypeOK
<1>3. item \in Items
  OBVIOUS
<1>4. changeList \in Seq(Items) /\ changeList' = Append(changeList, item)
  BY DEF Change, ChangeTypeOK
<1>5. changeList' \in Seq(Items) /\ Len(changeList') = Len(changeList) + 1
  BY <1>3, <1>4
<1>6. carriedOut' \in 0 .. Len(changeList')
  BY <1>4, <1>5 DEF ChangeTypeOK
<1> QED BY <1>2, <1>5, <1>6 DEF Change, ChangeTypeOK

(* What is read leaves no more unread than has arrived.                    *)
LEMMA ReadType ==
  ASSUME TypeOK, Bounded, NEW f \in Fds, unread[f] > 0,
         unread' = [unread EXCEPT ![f] = @ - 1], UNCHANGED arrivals
  PROVE  /\ unread' \in [Fds -> 0 .. MaxInputs]
         /\ \A g \in Fds : unread'[g] <= arrivals'
<1>1. /\ unread \in [Fds -> 0 .. MaxInputs] /\ MaxInputs \in Nat
      /\ arrivals \in Nat
  BY ConstantsAssumption DEF TypeOK
<1>2. unread[f] \in 0 .. MaxInputs /\ unread[f] - 1 \in 0 .. MaxInputs
  BY <1>1
<1>3. unread' \in [Fds -> 0 .. MaxInputs]
  BY <1>1, <1>2
<1>4. ASSUME NEW g \in Fds
      PROVE  unread'[g] <= arrivals'
  <2>1. unread[g] \in 0 .. MaxInputs /\ unread[g] <= arrivals
    BY <1>1 DEF Bounded
  <2>2. unread'[g] = IF g = f THEN unread[f] - 1 ELSE unread[g]
    BY <1>1
  <2> QED BY <1>1, <1>2, <2>1, <2>2
<1> QED BY <1>3, <1>4

(* The steps of the other threads keep the types.                          *)
LEMMA OthersType ==
  ASSUME TypeInv, Others
  PROVE  TypeInv'
<1> USE DEF TypeInv
<1>0. ChangeTypeOK
  BY DEF TypeOK, ChangeTypeOK
<1>1. ASSUME NEW f \in Fds, NEW h \in 0 .. MaxInputs,
             calls + arrivals < MaxInputs, calls' = calls + 1, Change(f, h),
             UNCHANGED <<unread, hungUp, arrivals, interest, carriedOut,
                         eventInfos, loopVars, stopping, ub>>,
             object' \in [Fds -> {"none", "alive", "dying"}],
             born' \in [Fds -> 0 .. MaxInputs]
      PROVE  TypeInv'
  <2>1. ChangeTypeOK'
    BY <1>0, <1>1, ChangeType
  <2>2. calls' \in 0 .. MaxInputs /\ calls' + arrivals' <= MaxInputs
    BY <1>1, ConstantsAssumption DEF TypeOK
  <2>3. TypeOK'
    BY <1>1, <2>1, <2>2 DEF TypeOK, ChangeTypeOK, loopVars
  <2>4. Bounded'
    BY <1>1, <2>2 DEF Bounded
  <2> QED BY <1>1, <2>3, <2>4 DEF HandledIsOwned, HungUpIsOwned, loopVars
<1>2. ASSUME NEW f \in Fds, Create(f)
      PROVE  TypeInv'
  <2>1. calls + 1 \in 0 .. MaxInputs /\ calls \in 0 .. MaxInputs
    BY <1>2, ConstantsAssumption DEF Create, TypeOK
  <2>2. /\ object' \in [Fds -> {"none", "alive", "dying"}]
        /\ born' \in [Fds -> 0 .. MaxInputs]
    BY <1>2, <2>1 DEF Create, TypeOK
  <2> QED BY <1>1, <1>2, <2>1, <2>2 DEF Create
<1>3. ASSUME NEW f \in Fds, NEW h \in 0 .. MaxInputs, Register(f, h)
      PROVE  TypeInv'
  BY <1>1, <1>3 DEF Register, TypeOK
<1>4. ASSUME NEW f \in Fds, BeginDestroy(f)
      PROVE  TypeInv'
  <2>1. /\ object' \in [Fds -> {"none", "alive", "dying"}]
        /\ 0 \in 0 .. MaxInputs
    BY <1>4, ConstantsAssumption DEF BeginDestroy, TypeOK
  <2> QED BY <1>1, <1>4, <2>1 DEF BeginDestroy, TypeOK
<1>5. ASSUME NEW f \in Fds, EndDestroy(f)
      PROVE  TypeInv'
  <2>1. /\ unread' \in [Fds -> 0 .. MaxInputs]
        /\ \A g \in Fds : unread'[g] <= arrivals
    BY <1>5, ConstantsAssumption DEF EndDestroy, TypeOK, Bounded
  <2>2. TypeOK'
    BY <1>5, <2>1 DEF EndDestroy, TypeOK, changeVars, loopVars
  <2>3. Bounded'
    BY <1>5, <2>1 DEF EndDestroy, Bounded
  <2> QED BY <1>5, <2>2, <2>3
          DEF EndDestroy, HandledIsOwned, HungUpIsOwned, loopVars
<1>6. ASSUME NEW f \in Fds, Arrive(f)
      PROVE  TypeInv'
  <2>1. /\ arrivals' \in 0 .. MaxInputs
        /\ calls' + arrivals' <= MaxInputs
    BY <1>6, ConstantsAssumption DEF Arrive, TypeOK
  <2>2. /\ unread' \in [Fds -> 0 .. MaxInputs]
        /\ \A g \in Fds : unread'[g] <= arrivals'
    BY <1>6, <2>1, ConstantsAssumption DEF Arrive, TypeOK, Bounded
  <2>3. ready' \subseteq Sources /\ dropped' \subseteq Sources
    BY <1>6, SignalType DEF Arrive, TypeOK, Sources
  <2>4. TypeOK'
    BY <1>6, <2>1, <2>2, <2>3 DEF Arrive, TypeOK, changeVars, loopVars
  <2>5. Bounded'
    BY <2>1, <2>2 DEF Bounded
  <2> QED BY <1>6, <2>4, <2>5
          DEF Arrive, HandledIsOwned, HungUpIsOwned, loopVars
<1>7. ASSUME NEW f \in Fds, HangUp(f)
      PROVE  TypeInv'
  <2>1. ready' \subseteq Sources /\ dropped' \subseteq Sources
    BY <1>7, SignalType DEF HangUp, TypeOK, Sources
  <2>2. TypeOK'
    BY <1>7, <2>1 DEF HangUp, TypeOK, changeVars, loopVars
  <2> QED BY <1>7, <2>2
          DEF HangUp, Bounded, HandledIsOwned, HungUpIsOwned, loopVars
<1>8. CASE Stop
  <2>1. ready' \subseteq Sources /\ dropped' \subseteq Sources
    BY <1>8, SignalType DEF Stop, StopCall, TypeOK, Sources
  <2>2. TypeOK'
    BY <1>8, <2>1 DEF Stop, StopCall, TypeOK, objectVars, changeVars, loopVars
  <2> QED BY <1>8, <2>2
          DEF Stop, Bounded, HandledIsOwned, HungUpIsOwned, loopVars,
              objectVars
<1> QED BY <1>2, <1>3, <1>4, <1>5, <1>6, <1>7, <1>8 DEF Others

(* Undefined behaviour, survived or not, changes nothing but where the     *)
(* thread is.                                                              *)
LEMMA UndefinedType ==
  ASSUME TypeInv, NEW what \in {"dangling", "destroyed"},
         NEW next \in {"wait", "dispatch", "items"}, Undefined(what, next),
         batch' \subseteq batch
  PROVE  TypeInv'
<1>1. Nothing \in Event
  BY ConstantsAssumption DEF Nothing, Event, Sources
<1>2. TypeOK'
  BY <1>1 DEF TypeInv, TypeOK, Undefined, objectVars, epollVars, changeVars
<1>3. Bounded'
  BY DEF TypeInv, Bounded, Undefined, objectVars
<1> QED BY <1>2, <1>3
        DEF TypeInv, HandledIsOwned, HungUpIsOwned, Undefined

(* The steps of the loop up to the call of a handler keep the types.       *)
LEMMA DispatchType ==
  ASSUME TypeInv, Wait \/ Dispatch
  PROVE  TypeInv'
<1> USE DEF TypeInv
<1>1. CASE Wait
  <2>1. PICK B \in SUBSET Signaled :
          batch' = {[fd |-> s,
                     handler |-> IF s \in Fds THEN eventInfos[s] ELSE 0,
                     hup |-> s \in hungUp] : s \in B}
    BY <1>1 DEF Wait
  <2>2. B \subseteq Sources
    BY <2>1 DEF Signaled, TypeOK
  <2>3. \A s \in Sources :
          (IF s \in Fds THEN eventInfos[s] ELSE 0) \in 0 .. MaxInputs
    BY ConstantsAssumption DEF TypeOK
  <2>4. ASSUME NEW e \in batch'
        PROVE  e \in Event /\ (e.hup => e.fd \in Fds)
    <3>1. PICK s \in B :
            e = [fd |-> s,
                 handler |-> IF s \in Fds THEN eventInfos[s] ELSE 0,
                 hup |-> s \in hungUp]
      BY <2>1, <2>4
    <3>2. (s \in hungUp) \in BOOLEAN
      OBVIOUS
    <3>3. e \in Event
      BY <2>2, <2>3, <3>1, <3>2 DEF Event
    <3>4. e.fd = s /\ e.hup = (s \in hungUp)
      BY <3>1
    <3> QED BY <3>3, <3>4 DEF TypeOK
  <2>5. ready' \subseteq Sources /\ pc' = "dispatch"
    BY <1>1 DEF Wait, Signaled, TypeOK
  <2>6. TypeOK'
    BY <1>1, <2>4, <2>5 DEF Wait, TypeOK, objectVars, changeVars, ghostVars
  <2>7. Bounded'
    BY <1>1 DEF Wait, Bounded, objectVars
  <2>8. HungUpIsOwned'
    BY <2>4 DEF HungUpIsOwned
  <2> QED BY <2>5, <2>6, <2>7, <2>8 DEF HandledIsOwned
<1>2. ASSUME NEW e \in batch, DispatchStop(e)
      PROVE  TypeInv'
  <2>1. dropped' \subseteq Sources
    BY <1>2 DEF DispatchStop, TypeOK, Event
  <2>2. TypeOK'
    BY <1>2, <2>1
    DEF DispatchStop, TypeOK, objectVars, epollVars, changeVars
  <2> QED BY <1>2, <2>2
          DEF DispatchStop, Bounded, HandledIsOwned, HungUpIsOwned, objectVars
<1>3. ASSUME NEW e \in batch, DispatchHandler(e)
      PROVE  TypeInv'
  <2>1. /\ Nothing \in Event
        /\ e \in Event
        /\ e.fd \in Sources
    BY ConstantsAssumption DEF Nothing, Event, Sources, TypeOK
  <2>2. TypeOK'
    BY <1>3, <2>1
    DEF DispatchHandler, TypeOK, objectVars, epollVars, changeVars, ghostVars
  <2>3. Bounded' /\ HungUpIsOwned'
    BY <1>3 DEF DispatchHandler, Bounded, HungUpIsOwned, objectVars
  <2>4. HandledIsOwned'
    BY <1>3, <2>1 DEF DispatchHandler, HandledIsOwned, Sources
  <2> QED BY <2>2, <2>3, <2>4
<1>4. ASSUME NEW e \in batch, DispatchHangUp(e)
      PROVE  TypeInv'
  <2>1. Resume(batch \ {e}) \in {"wait", "dispatch"}
    BY DEF Resume
  <2>2. CASE Dangling(e)
    BY <1>4, <2>1, <2>2, UndefinedType DEF DispatchHangUp
  <2>3. CASE ~Dangling(e)
    <3>1. e.fd \in Fds /\ 0 \in 0 .. MaxInputs
      BY <1>4, ConstantsAssumption DEF DispatchHangUp, HungUpIsOwned
    <3>2. ChangeTypeOK'
      BY <1>4, <2>3, <3>1, ChangeType DEF DispatchHangUp, TypeOK, ChangeTypeOK
    <3>3. TypeOK'
      BY <1>4, <2>1, <2>3, <3>2
      DEF DispatchHangUp, TypeOK, ChangeTypeOK, objectVars
    <3> QED BY <1>4, <2>1, <2>3, <3>3
            DEF DispatchHangUp, Bounded, HandledIsOwned, HungUpIsOwned,
                objectVars
  <2> QED BY <2>2, <2>3
<1> QED BY <1>1, <1>2, <1>3, <1>4 DEF Dispatch

(* The next item of the list is about a descriptor of an object.           *)
LEMMA ItemType ==
  ASSUME TypeInv, carriedOut < Len(changeList)
  PROVE  /\ changeList[carriedOut + 1].fd \in Fds
         /\ changeList[carriedOut + 1].handler \in 0 .. MaxInputs
<1> DEFINE Items == [fd : Fds, handler : 0 .. MaxInputs]
<1>1. /\ changeList \in Seq(Items)
      /\ carriedOut + 1 \in 1 .. Len(changeList)
  BY DEF TypeInv, TypeOK
<1>2. ASSUME NEW x \in Items
      PROVE  x.fd \in Fds /\ x.handler \in 0 .. MaxInputs
  OBVIOUS
<1> HIDE DEF Items
<1>3. \A i \in 1 .. Len(changeList) : changeList[i] \in Items
  BY <1>1
<1> QED BY <1>1, <1>2, <1>3

(* So does carrying out the changes.                                       *)
LEMMA ChangesType ==
  ASSUME TypeInv, Changes
  PROVE  TypeInv'
<1> USE DEF TypeInv
<1>1. CASE BeginChanges
  <2>1. pc' \in {"wait", "dispatch", "items"}
    BY <1>1 DEF BeginChanges, Resume
  <2>2. TypeOK'
    BY <1>1, <2>1
    DEF BeginChanges, TypeOK, objectVars, epollVars, ghostVars
  <2> QED BY <1>1, <2>1, <2>2
          DEF BeginChanges, Bounded, HandledIsOwned, HungUpIsOwned, objectVars
<1>2. CASE CarryOut
  <2> DEFINE item == changeList[carriedOut + 1]
  <2>1. carriedOut + 1 \in 1 .. Len(changeList)
    BY <1>2 DEF CarryOut, TypeOK
  <2>3. item.fd \in Fds /\ item.handler \in 0 .. MaxInputs
    BY <1>2, ItemType DEF CarryOut
  <2>4. [fd |-> item.fd, handler |-> item.handler, hup |-> FALSE] \in Event
        /\ Nothing \in Event
    BY <2>3, ConstantsAssumption DEF Nothing, Event, Sources
  <2> HIDE DEF item
  <2>5. /\ eventInfos' \in [Fds -> 0 .. MaxInputs]
        /\ interest' \subseteq Fds
        /\ ready' \subseteq Sources
        /\ dropped' \subseteq Sources
        /\ current' \in Event
        /\ pc' = "drain" => current'.fd \in Fds
        /\ pc' \in {"drain", "items"}
    BY <1>2, <2>3, <2>4 DEF CarryOut, TypeOK, Sources, item
  <2>6. carriedOut' \in 0 .. Len(changeList')
    BY <1>2, <2>1 DEF CarryOut
  <2>7. TypeOK'
    BY <1>2, <2>5, <2>6 DEF CarryOut, TypeOK, objectVars
  <2> QED BY <1>2, <2>5, <2>7
          DEF CarryOut, Bounded, HandledIsOwned, HungUpIsOwned, objectVars
<1>3. CASE EndChanges
  <2>1. /\ changeList' \in Seq([fd : Fds, handler : 0 .. MaxInputs])
        /\ carriedOut' \in 0 .. Len(changeList')
    BY <1>3 DEF EndChanges
  <2>2. TypeOK'
    BY <1>3, <2>1 DEF EndChanges, TypeOK, objectVars, epollVars, ghostVars
  <2> QED BY <1>3, <2>2
          DEF EndChanges, Bounded, HandledIsOwned, HungUpIsOwned, objectVars
<1> QED BY <1>1, <1>2, <1>3 DEF Changes

(* So does a call of a handler, whatever the handler does.                 *)
LEMMA CallHandlerType ==
  ASSUME TypeInv, CallHandler
  PROVE  TypeInv'
<1> USE DEF TypeInv
<1> DEFINE done == IF pc = "drain" THEN "items" ELSE Resume(batch)
           f == current.fd
<1>1. done \in {"wait", "dispatch", "items"}
  BY DEF Resume
<1>2. f \in Fds /\ pc \in {"handle", "drain"}
  BY DEF CallHandler, HandledIsOwned
<1>3. unread[f] \in 0 .. MaxInputs
  BY <1>2 DEF TypeOK
<1>4. Nothing \in Event
  BY ConstantsAssumption DEF Nothing, Event, Sources
<1>5. CASE /\ pc' = done /\ current' = Nothing
           /\ UNCHANGED <<objectVars, epollVars, changeVars, timed, batch,
                          ghostVars>>
  <2>1. TypeOK'
    BY <1>1, <1>4, <1>5
    DEF TypeOK, objectVars, epollVars, changeVars, ghostVars
  <2> QED BY <1>1, <1>5, <2>1
          DEF Bounded, HandledIsOwned, HungUpIsOwned, objectVars
<1>6. CASE batch' = batch /\ \E what \in {"dangling", "destroyed"} :
             Undefined(what, done)
  BY <1>1, <1>6, UndefinedType
<1>7. ASSUME unread[f] > 0, HandlerOnlyReads,
             UNCHANGED <<pc, timed, batch, current, ub>>
      PROVE  TypeInv'
  <2>1. /\ unread' \in [Fds -> 0 .. MaxInputs]
        /\ \A g \in Fds : unread'[g] <= arrivals'
    BY <1>2, <1>7, ReadType DEF HandlerOnlyReads
  <2>2. TypeOK'
    BY <1>7, <2>1 DEF HandlerOnlyReads, TypeOK, epollVars, changeVars
  <2> QED BY <1>7, <2>1, <2>2
          DEF HandlerOnlyReads, Bounded, HandledIsOwned, HungUpIsOwned
<1>8. ASSUME unread[f] > 0, HandlerStops,
             UNCHANGED <<pc, timed, batch, current, ub>>
      PROVE  TypeInv'
  <2>1. /\ unread' \in [Fds -> 0 .. MaxInputs]
        /\ \A g \in Fds : unread'[g] <= arrivals'
    BY <1>2, <1>8, ReadType DEF HandlerStops
  <2>2. ready' \subseteq Sources /\ dropped' \subseteq Sources
    BY <1>8, SignalType DEF HandlerStops, StopCall, TypeOK, Sources
  <2>3. TypeOK'
    BY <1>8, <2>1, <2>2 DEF HandlerStops, StopCall, TypeOK, changeVars
  <2> QED BY <1>8, <2>1, <2>3
          DEF HandlerStops, Bounded, HandledIsOwned, HungUpIsOwned
<1>9. ASSUME unread[f] > 0, NEW g \in Fds, HandlerDestroys(g),
             UNCHANGED <<pc, timed, batch, current, ub>>
      PROVE  TypeInv'
  <2>1. /\ calls' \in 0 .. MaxInputs
        /\ calls' + arrivals' <= MaxInputs
        /\ calls + 1 \in 0 .. MaxInputs
    BY <1>9, ConstantsAssumption DEF HandlerDestroys, TypeOK
  <2>2. /\ unread' \in [Fds -> 0 .. MaxInputs]
        /\ \A h \in Fds : unread'[h] <= arrivals'
    <3> DEFINE u == [unread EXCEPT ![f] = @ - 1]
    <3>1. /\ unread \in [Fds -> 0 .. MaxInputs] /\ MaxInputs \in Nat
          /\ arrivals \in Nat /\ arrivals' = arrivals
      BY <1>9, ConstantsAssumption DEF HandlerDestroys, TypeOK
    <3>2. u[f] \in 0 .. MaxInputs /\ u[f] <= arrivals
      BY <1>2, <1>3, <1>9, <3>1 DEF Bounded
    <3>3. \A h \in Fds : u[h] \in 0 .. MaxInputs /\ u[h] <= arrivals
      BY <3>1, <3>2 DEF Bounded
    <3>4. unread' = [u EXCEPT ![g] = 0]
      BY <1>9 DEF HandlerDestroys
    <3>5. unread' \in [Fds -> 0 .. MaxInputs]
      BY <3>1, <3>3, <3>4
    <3>6. \A h \in Fds : unread'[h] = IF h = g THEN 0 ELSE u[h]
      BY <3>1, <3>4
    <3> QED BY <3>1, <3>3, <3>5, <3>6
  <2>3. /\ object' \in [Fds -> {"none", "alive", "dying"}]
        /\ born' \in [Fds -> 0 .. MaxInputs]
        /\ ready' \subseteq Sources
        /\ interest' \subseteq Fds
        /\ hungUp' \subseteq Fds
        /\ dropped' \subseteq Sources
        /\ changed' = TRUE
    BY <1>9, <2>1 DEF HandlerDestroys, TypeOK, Sources
  <2>4. /\ changeList' \in Seq([fd : Fds, handler : 0 .. MaxInputs])
        /\ carriedOut' \in 0 .. Len(changeList')
    <3> DEFINE Items == [fd : Fds, handler : 0 .. MaxInputs]
               item == [fd |-> g, handler |-> 0]
    <3>1. item \in Items
      BY ConstantsAssumption
    <3>2. changeList \in Seq(Items) /\ changeList' = Append(changeList, item)
      BY <1>9 DEF HandlerDestroys, TypeOK
    <3>3. changeList' \in Seq(Items)
          /\ Len(changeList') = Len(changeList) + 1
          /\ Len(changeList) \in Nat
      BY <3>1, <3>2
    <3> QED BY <1>9, <3>3 DEF HandlerDestroys, TypeOK
  <2>5. TypeOK'
    BY <1>9, <2>1, <2>2, <2>3, <2>4 DEF HandlerDestroys, TypeOK
  <2> QED BY <1>9, <2>1, <2>2, <2>5
          DEF Bounded, HandledIsOwned, HungUpIsOwned
<1>10. ASSUME unread[f] > 0, HandlerThrows
       PROVE  TypeInv'
  <2>1. /\ unread' \in [Fds -> 0 .. MaxInputs]
        /\ \A g \in Fds : unread'[g] <= arrivals'
    BY <1>2, <1>10, ReadType DEF HandlerThrows
  <2>2. dropped' \subseteq Sources
    BY <1>2, <1>10 DEF HandlerThrows, TypeOK, Event, Sources
  <2>3. carriedOut' \in 0 .. Len(changeList')
    BY <1>10 DEF HandlerThrows, TypeOK
  <2>4. TypeOK'
    BY <1>4, <1>10, <2>1, <2>2, <2>3 DEF HandlerThrows, TypeOK, epollVars
  <2> QED BY <1>10, <2>1, <2>4
          DEF HandlerThrows, Bounded, HandledIsOwned, HungUpIsOwned
<1>11. unread[f] = 0 \/ unread[f] > 0
  BY <1>3
<1> QED BY <1>5, <1>6, <1>7, <1>8, <1>9, <1>10, <1>11 DEF CallHandler

LEMMA InitType == Init => TypeInv
<1> SUFFICES ASSUME Init PROVE TypeInv
  OBVIOUS
<1>1. Nothing \in Event /\ 0 \in 0 .. MaxInputs
  BY ConstantsAssumption DEF Nothing, Event, Sources
<1>2. /\ object \in [Fds -> {"none", "alive", "dying"}]
      /\ born \in [Fds -> 0 .. MaxInputs]
      /\ unread \in [Fds -> 0 .. MaxInputs]
      /\ eventInfos \in [Fds -> 0 .. MaxInputs]
  BY <1>1 DEF Init
<1>3. /\ changeList \in Seq([fd : Fds, handler : 0 .. MaxInputs])
      /\ carriedOut \in 0 .. Len(changeList)
  BY DEF Init
<1>4. TypeOK
  BY <1>1, <1>2, <1>3 DEF Init, TypeOK
<1> QED BY <1>4, ConstantsAssumption
        DEF Init, TypeInv, Bounded, HandledIsOwned, HungUpIsOwned

LEMMA NextType == TypeInv /\ [Next]_vars => TypeInv'
<1> SUFFICES ASSUME TypeInv, [Next]_vars
             PROVE  TypeInv'
  OBVIOUS
<1> USE DEF TypeInv
<1>1. ASSUME NEW t \in BOOLEAN, Execute(t)
      PROVE  TypeInv'
  BY <1>1 DEF Execute, TypeOK, Bounded, HandledIsOwned, HungUpIsOwned,
              objectVars, epollVars, changeVars, ghostVars
<1>2. CASE TimeOut
  BY <1>2 DEF TimeOut, TypeOK, Bounded, HandledIsOwned, HungUpIsOwned,
              objectVars, epollVars, changeVars, ghostVars
<1>3. CASE Loop
  BY <1>3, DispatchType, CallHandlerType, ChangesType DEF Loop
<1>4. CASE Others
  BY <1>4, OthersType
<1>5. CASE UNCHANGED vars
  BY <1>5 DEF vars, TypeOK, Bounded, HandledIsOwned, HungUpIsOwned,
              objectVars, epollVars, changeVars, loopVars, ghostVars
<1> QED BY <1>1, <1>2, <1>3, <1>4, <1>5 DEF Next

LEMMA TypeInvariant == Spec => []TypeInv
BY InitType, NextType, PTL DEF Spec

(* Every variable of the loop keeps its type, whatever threads, handlers   *)
(* and the network do.                                                     *)
THEOREM TypeCorrect == Spec => []TypeOK
<1>1. TypeInv => TypeOK
  BY DEF TypeInv
<1> QED BY <1>1, TypeInvariant, PTL
------------------------------------------------------------------------------
(* Whenever the loop waits or has returned, its batch is done.             *)
BatchDone == pc \in {"out", "wait"} => batch = {}

LEMMA BatchIsDone == Spec => []BatchDone
<1>1. Init => BatchDone
  BY DEF Init, BatchDone
<1>2. BatchDone /\ [Next]_vars => BatchDone'
  <2> SUFFICES ASSUME BatchDone, [Next]_vars
               PROVE  BatchDone'
    OBVIOUS
  <2> USE DEF BatchDone
  <2>1. CASE Others
    <3>1. UNCHANGED loopVars
      BY <2>1 DEF Others, Create, Register, BeginDestroy, EndDestroy, Stop,
                  Arrive, HangUp
    <3> QED BY <3>1 DEF loopVars
  <2>2. CASE (\E t \in BOOLEAN : Execute(t)) \/ TimeOut \/ UNCHANGED vars
    BY <2>2 DEF Execute, TimeOut, vars, loopVars
  <2>3. CASE Wait
    BY <2>3 DEF Wait
  <2>4. CASE Dispatch
    BY <2>4 DEF Dispatch, DispatchStop, DispatchHandler, DispatchHangUp,
                Undefined, Resume
  <2>5. CASE CallHandler
    BY <2>5 DEF CallHandler, Undefined, Resume, HandlerThrows
  <2>6. CASE Changes
    BY <2>6 DEF Changes, BeginChanges, CarryOut, EndChanges, Resume
  <2> QED BY <2>1, <2>2, <2>3, <2>4, <2>5, <2>6 DEF Next, Loop
<1> QED BY <1>1, <1>2, PTL DEF Spec

(* A stop that nothing has returned for is an edge not yet dispatched.     *)
StopKept == stopping => "stop" \in ready \/ \E e \in batch : e.fd = "stop"

LEMMA StopIsKept ==
  TypeInv /\ BatchDone /\ StopKept /\ [Next]_vars => StopKept'
<1> SUFFICES ASSUME TypeInv, BatchDone, StopKept, [Next]_vars
             PROVE  StopKept'
  OBVIOUS
<1> USE DEF StopKept
<1>0. "stop" \notin Fds /\ "stop" # "change"
  BY ConstantsAssumption
<1>1. ASSUME UNCHANGED stopping, UNCHANGED batch, "stop" \in ready => "stop" \in ready'
      PROVE  StopKept'
  BY <1>1
<1>2. ASSUME NEW f \in Fds, NEW h, Change(f, h)
      PROVE  "stop" \in ready => "stop" \in ready'
  BY <1>2 DEF Change, Signal
<1>3. CASE Others
  <2>1. ASSUME NEW f \in Fds,
               Create(f) \/ BeginDestroy(f)
                 \/ \E h \in 0 .. MaxInputs : Register(f, h)
        PROVE  StopKept'
    BY <1>1, <1>2, <2>1 DEF Create, BeginDestroy, Register, loopVars
  <2>2. ASSUME NEW f \in Fds, EndDestroy(f) \/ Arrive(f) \/ HangUp(f)
        PROVE  StopKept'
    BY <1>0, <1>1, <2>2 DEF EndDestroy, Arrive, HangUp, Signal, loopVars
  <2>3. CASE Stop
    BY <2>3 DEF Stop, StopCall, Signal
  <2> QED BY <1>3, <2>1, <2>2, <2>3 DEF Others
<1>4. CASE (\E t \in BOOLEAN : Execute(t)) \/ TimeOut \/ UNCHANGED vars
  BY <1>1, <1>4 DEF Execute, TimeOut, vars, epollVars, ghostVars, loopVars
<1>5. CASE Wait
  <2>1. PICK B \in SUBSET Signaled :
          /\ batch' = {[fd |-> s,
                        handler |-> IF s \in Fds THEN eventInfos[s] ELSE 0,
                        hup |-> s \in hungUp] : s \in B}
          /\ ready' = Signaled \ B
    BY <1>5 DEF Wait
  <2>2. pc = "wait" /\ UNCHANGED stopping
    BY <1>5 DEF Wait, ghostVars
  <2>3. CASE "stop" \in B
    <3> DEFINE e == [fd |-> "stop",
                     handler |-> IF "stop" \in Fds THEN eventInfos["stop"]
                                 ELSE 0,
                     hup |-> "stop" \in hungUp]
    <3>1. e \in batch' /\ e.fd = "stop"
      BY <2>1, <2>3
    <3> QED BY <3>1
  <2>4. CASE "stop" \notin B
    <3>1. batch = {}
      BY <2>2 DEF BatchDone
    <3> QED BY <2>1, <2>2, <2>4, <3>1 DEF Signaled, Readable
  <2> QED BY <2>3, <2>4
<1>6. ASSUME NEW e \in batch,
             DispatchStop(e) \/ DispatchHandler(e) \/ DispatchHangUp(e)
      PROVE  StopKept'
  <2>1. CASE DispatchStop(e)
    BY <2>1 DEF DispatchStop
  <2>2. CASE DispatchHandler(e)
    BY <2>2 DEF DispatchHandler, epollVars, ghostVars
  <2>3. CASE DispatchHangUp(e)
    <3>1. e.fd \in Fds /\ e.fd # "stop"
      BY <1>0, <2>3 DEF DispatchHangUp, TypeInv, HungUpIsOwned
    <3>2. /\ UNCHANGED stopping /\ batch' = batch \ {e}
          /\ "stop" \in ready => "stop" \in ready'
      BY <1>2, <2>3, <3>1 DEF DispatchHangUp, Undefined, epollVars
    <3> QED BY <3>1, <3>2
  <2> QED BY <1>6, <2>1, <2>2, <2>3
<1>7. CASE CallHandler
  <2>1. CASE HandlerThrows
    BY <2>1 DEF HandlerThrows, epollVars
  <2>2. CASE HandlerStops
    BY <2>2 DEF HandlerStops, StopCall, Signal
  <2>3. CASE ~HandlerThrows /\ ~HandlerStops
    <3>1. UNCHANGED stopping /\ UNCHANGED batch
          /\ ("stop" \in ready => "stop" \in ready')
      BY <1>0, <1>7, <2>3
      DEF CallHandler, Undefined, HandlerOnlyReads, HandlerDestroys,
          epollVars, ghostVars
    <3> QED BY <1>1, <3>1
  <2> QED BY <2>1, <2>2, <2>3
<1>8. CASE Changes
  <2>1. CASE BeginChanges \/ EndChanges
    BY <1>1, <2>1 DEF BeginChanges, EndChanges, epollVars, ghostVars
  <2>2. CASE CarryOut
    <3>1. changeList[carriedOut + 1].fd \in Fds
      BY <2>2, ItemType DEF CarryOut
    <3> QED BY <1>0, <1>1, <2>2, <3>1 DEF CarryOut
  <2> QED BY <1>8, <2>1, <2>2 DEF Changes
<1> QED BY <1>3, <1>4, <1>5, <1>6, <1>7, <1>8 DEF Next, Loop, Dispatch

(* A stop, called at any moment and by any thread, handlers included, is   *)
(* never lost: the loop returns for it or is going to see its edge.        *)
THEOREM StopNeverLost == Spec => []NoLostStop
<1>1. Init => StopKept
  BY DEF Init, StopKept
<1>2. StopKept => NoLostStop
  BY DEF StopKept, NoLostStop, Attended, Signaled, Readable
<1> QED BY <1>1, <1>2, StopIsKept, TypeInvariant, BatchIsDone, PTL DEF Spec
------------------------------------------------------------------------------
(* A list that nobody is carrying out has signalled itself, and the edge   *)
(* is not yet dispatched, unless a return threw it away.                   *)
ChangePending ==
  /\ changed
  /\ \/ "change" \in ready
     \/ \E e \in batch : e.fd = "change"
     \/ pc = "change"

ChangeKept ==
  ub = {} /\ changeList # <<>> =>
    "change" \in dropped \/ pc \in {"items", "drain"} \/ ChangePending

LEMMA ChangeIsKept ==
  TypeInv /\ BatchDone /\ ChangeKept /\ [Next]_vars => ChangeKept'
<1> SUFFICES ASSUME TypeInv, BatchDone, ChangeKept, [Next]_vars
             PROVE  ChangeKept'
  OBVIOUS
<1> USE DEF ChangeKept, ChangePending
<1>0. "change" \notin Fds
  BY ConstantsAssumption
<1>1. ASSUME NEW f \in Fds, NEW h, Change(f, h)
      PROVE  ChangeKept'
  BY <1>1 DEF Change, Signal
<1>2. CASE Others
  <2>1. ASSUME NEW f \in Fds,
               Create(f) \/ BeginDestroy(f)
                 \/ \E h \in 0 .. MaxInputs : Register(f, h)
        PROVE  ChangeKept'
    BY <1>1, <2>1 DEF Create, BeginDestroy, Register
  <2>2. ASSUME NEW f \in Fds, EndDestroy(f) \/ Arrive(f) \/ HangUp(f)
        PROVE  ChangeKept'
    BY <1>0, <2>2
    DEF EndDestroy, Arrive, HangUp, Signal, changeVars, loopVars
  <2>3. CASE Stop
    BY <2>3 DEF Stop, StopCall, Signal, changeVars, loopVars
  <2> QED BY <1>2, <2>1, <2>2, <2>3 DEF Others
<1>3. CASE (\E t \in BOOLEAN : Execute(t)) \/ TimeOut \/ UNCHANGED vars
  BY <1>3 DEF Execute, TimeOut, vars, epollVars, changeVars, ghostVars,
              loopVars
<1>4. CASE Wait
  <2>1. PICK B \in SUBSET Signaled :
          /\ batch' = {[fd |-> s,
                        handler |-> IF s \in Fds THEN eventInfos[s] ELSE 0,
                        hup |-> s \in hungUp] : s \in B}
          /\ ready' = Signaled \ B
    BY <1>4 DEF Wait
  <2>2. pc = "wait" /\ batch = {} /\ UNCHANGED <<changeVars, ghostVars>>
    BY <1>4 DEF Wait, BatchDone
  <2>3. CASE "change" \in B
    <3> DEFINE e == [fd |-> "change",
                     handler |-> IF "change" \in Fds
                                   THEN eventInfos["change"] ELSE 0,
                     hup |-> "change" \in hungUp]
    <3>1. e \in batch' /\ e.fd = "change"
      BY <2>1, <2>3
    <3> QED BY <2>2, <3>1 DEF changeVars, ghostVars
  <2>4. CASE "change" \notin B
    BY <2>1, <2>2, <2>4 DEF Signaled, Readable, changeVars, ghostVars
  <2> QED BY <2>3, <2>4
<1>5. ASSUME NEW e \in batch,
             DispatchStop(e) \/ DispatchHandler(e) \/ DispatchHangUp(e)
      PROVE  ChangeKept'
  <2>1. CASE DispatchStop(e)
    BY <2>1 DEF DispatchStop, Signaled, Readable, epollVars, changeVars
  <2>2. CASE DispatchHandler(e)
    BY <2>2 DEF DispatchHandler, epollVars, changeVars, ghostVars
  <2>3. CASE DispatchHangUp(e)
    <3>1. e.fd \in Fds
      BY <2>3 DEF DispatchHangUp, TypeInv, HungUpIsOwned
    <3> QED BY <1>1, <2>3, <3>1 DEF DispatchHangUp, Undefined
  <2> QED BY <1>5, <2>1, <2>2, <2>3
<1>6. CASE CallHandler
  <2>1. CASE HandlerThrows
    <3>1. pc \in {"handle", "drain"}
      BY <1>6 DEF CallHandler
    <3>2. /\ changed' = changed /\ changeList' = changeList /\ ub' = ub
          /\ ready' = ready
      BY <2>1 DEF HandlerThrows, epollVars
    <3>3. dropped \subseteq dropped'
      BY <2>1 DEF HandlerThrows
    <3>4. CASE pc = "drain"
      <4>1. "change" \in dropped' \/ "change" \in Signaled
        BY <2>1, <3>4 DEF HandlerThrows
      <4> QED BY <1>0, <3>2, <4>1 DEF Signaled, Readable
    <3>5. CASE pc = "handle"
      <4>1. ASSUME NEW e \in batch, e.fd = "change"
            PROVE  "change" \in dropped' \/ "change" \in Signaled
        BY <2>1, <4>1 DEF HandlerThrows
      <4> QED BY <1>0, <3>2, <3>3, <3>5, <4>1 DEF Signaled, Readable
    <3> QED BY <3>1, <3>4, <3>5
  <2>2. CASE HandlerStops /\ UNCHANGED <<pc, batch, ub>>
    BY <2>2 DEF HandlerStops, StopCall, Signal, changeVars
  <2>3. CASE HandlerOnlyReads /\ UNCHANGED <<pc, batch, ub>>
    BY <2>3 DEF HandlerOnlyReads, epollVars, changeVars
  <2>4. ASSUME NEW f \in Fds, HandlerDestroys(f)
        PROVE  ChangeKept'
    BY <2>4 DEF HandlerDestroys
  <2>5. CASE ub' # {}
    BY <2>5
  <2>6. CASE /\ pc' = IF pc = "drain" THEN "items" ELSE Resume(batch)
             /\ UNCHANGED <<epollVars, changeVars, batch, ghostVars>>
    <3>1. pc \in {"handle", "drain"}
      BY <1>6 DEF CallHandler
    <3> QED BY <2>6, <3>1 DEF Resume, epollVars, changeVars, ghostVars
  <2> QED BY <1>6, <2>1, <2>2, <2>3, <2>4, <2>5, <2>6
          DEF CallHandler, Undefined
<1>7. CASE Changes
  <2>1. CASE BeginChanges
    BY <2>1 DEF BeginChanges, epollVars, ghostVars
  <2>2. CASE EndChanges
    BY <2>2 DEF EndChanges
  <2>3. CASE CarryOut
    BY <2>3 DEF CarryOut
  <2> QED BY <1>7, <2>1, <2>2, <2>3 DEF Changes
<1> QED BY <1>2, <1>3, <1>4, <1>5, <1>6, <1>7 DEF Next, Loop, Dispatch

(* No registration and no removal is overlooked, whichever thread made it  *)
(* and whatever the loop was about, until undefined behaviour is met.      *)
THEOREM ChangeNeverLost == Spec => []NoLostChange
<1>1. Init => ChangeKept
  BY DEF Init, ChangeKept
<1>2. ChangeKept => NoLostChange
  BY DEF ChangeKept, ChangePending, NoLostChange, Attended, Signaled, Readable
<1> QED BY <1>1, <1>2, ChangeIsKept, TypeInvariant, BatchIsDone, PTL DEF Spec
------------------------------------------------------------------------------
(* Unread data of a watched descriptor has an edge, an event or a handler  *)
(* on its way, unless a return threw its edge away.  An event of a         *)
(* descriptor that hung up does not count: it removes the descriptor.      *)
EdgeSeen(f) ==
  \/ f \in ready \cup dropped
  \/ \E e \in batch : e.fd = f /\ ~e.hup
  \/ pc \in {"handle", "drain"} /\ current.fd = f

EdgeKept ==
  ub = {} => \A f \in interest \ hungUp : unread[f] > 0 => EdgeSeen(f)

LEMMA EdgeIsKept ==
  TypeInv /\ BatchDone /\ EdgeKept /\ [Next]_vars => EdgeKept'
<1> SUFFICES ASSUME TypeInv, BatchDone, EdgeKept, [Next]_vars,
                    ub' = {}, NEW f \in interest' \ hungUp', unread'[f] > 0
             PROVE  EdgeSeen(f)'
  BY DEF EdgeKept
<1>0. /\ "change" \notin Fds /\ "stop" \notin Fds
      /\ interest \subseteq Fds /\ hungUp \subseteq Fds
      /\ unread \in [Fds -> 0 .. MaxInputs] /\ MaxInputs \in Nat
  BY ConstantsAssumption DEF TypeInv, TypeOK
<1>1. ub = {} /\ f \in interest \ hungUp /\ unread[f] > 0 => EdgeSeen(f)
  BY DEF EdgeKept
<1>2. CASE Others
  <2>1. CASE /\ UNCHANGED <<unread, hungUp, interest, ub, loopVars>>
             /\ \E s \in {"stop", "change"} : Signal(s)
    BY <1>0, <1>1, <2>1 DEF EdgeSeen, Signal, loopVars
  <2>2. ASSUME NEW g \in Fds, EndDestroy(g)
        PROVE  EdgeSeen(f)'
    <3>1. f # g /\ f \in interest \ hungUp /\ unread[f] > 0 /\ ub = {}
      BY <1>0, <2>2 DEF EndDestroy
    <3> QED BY <1>1, <2>2, <3>1 DEF EndDestroy, EdgeSeen, loopVars
  <2>3. ASSUME NEW g \in Fds, Arrive(g) \/ HangUp(g)
        PROVE  EdgeSeen(f)'
    <3>1. UNCHANGED <<interest, ub, loopVars>> /\ hungUp \subseteq hungUp'
      BY <2>3 DEF Arrive, HangUp
    <3>2. Signal(g) /\ (f # g => unread'[f] = unread[f])
      BY <1>0, <2>3 DEF Arrive, HangUp
    <3>3. CASE f = g
      BY <3>1, <3>2, <3>3 DEF Signal, EdgeSeen
    <3>4. CASE f # g
      BY <1>1, <3>1, <3>2, <3>4 DEF Signal, EdgeSeen, loopVars
    <3> QED BY <3>3, <3>4
  <2> QED BY <1>2, <2>1, <2>2, <2>3
          DEF Others, Create, Register, BeginDestroy, Stop, StopCall, Change,
              objectVars
<1>3. CASE (\E t \in BOOLEAN : Execute(t)) \/ TimeOut \/ UNCHANGED vars
  BY <1>1, <1>3 DEF Execute, TimeOut, EdgeSeen, vars, objectVars, epollVars,
                    ghostVars, loopVars
<1>4. CASE Wait
  <2>1. PICK B \in SUBSET Signaled :
          /\ batch' = {[fd |-> s,
                        handler |-> IF s \in Fds THEN eventInfos[s] ELSE 0,
                        hup |-> s \in hungUp] : s \in B}
          /\ ready' = Signaled \ B
    BY <1>4 DEF Wait
  <2>2. pc = "wait" /\ batch = {}
        /\ UNCHANGED <<objectVars, interest, ghostVars>>
    BY <1>4 DEF Wait, BatchDone
  <2>3. EdgeSeen(f) /\ f \in Fds \ hungUp /\ unread[f] > 0
    BY <1>0, <1>1, <2>2 DEF objectVars, ghostVars
  <2>4. f \in Signaled \cup dropped
    BY <2>2, <2>3 DEF EdgeSeen, Signaled, Readable
  <2>5. CASE f \in B
    <3> DEFINE e == [fd |-> f,
                     handler |-> IF f \in Fds THEN eventInfos[f] ELSE 0,
                     hup |-> f \in hungUp]
    <3>1. e \in batch'
      BY <2>1, <2>5
    <3>2. e.fd = f /\ ~e.hup
      BY <2>3
    <3> HIDE DEF e
    <3> QED BY <3>1, <3>2 DEF EdgeSeen
  <2>6. CASE f \notin B
    BY <2>1, <2>2, <2>4, <2>6 DEF EdgeSeen, ghostVars
  <2> QED BY <2>5, <2>6
<1>5. ASSUME NEW e \in batch,
             DispatchStop(e) \/ DispatchHandler(e) \/ DispatchHangUp(e)
      PROVE  EdgeSeen(f)'
  <2>1. CASE DispatchStop(e)
    <3>1. EdgeSeen(f) /\ f \in Fds
      BY <1>0, <1>1, <2>1 DEF DispatchStop, objectVars, epollVars
    <3> QED BY <1>0, <2>1, <3>1
            DEF DispatchStop, EdgeSeen, Signaled, epollVars
  <2>2. CASE DispatchHandler(e)
    <3>1. EdgeSeen(f) /\ f \in Fds
      BY <1>0, <1>1, <2>2 DEF DispatchHandler, objectVars, epollVars, ghostVars
    <3> QED BY <1>0, <2>2, <3>1
            DEF DispatchHandler, EdgeSeen, epollVars, ghostVars
  <2>3. CASE DispatchHangUp(e)
    <3>1. ~Dangling(e) /\ ub = {}
      BY <2>3 DEF DispatchHangUp, Undefined
    <3>2. EdgeSeen(f) /\ f \in Fds
      BY <1>0, <1>1, <2>3, <3>1 DEF DispatchHangUp, objectVars
    <3> QED BY <1>0, <2>3, <3>1, <3>2
            DEF DispatchHangUp, Change, Signal, EdgeSeen
  <2> QED BY <1>5, <2>1, <2>2, <2>3
<1>6. CASE CallHandler
  <2>0. pc \in {"handle", "drain"} /\ current.fd \in Fds
    BY <1>6 DEF CallHandler, TypeInv, HandledIsOwned
  <2>1. CASE HandlerThrows
    <3>1. f \in interest \ hungUp /\ ub = {}
      BY <2>1 DEF HandlerThrows, epollVars
    <3>2. f = current.fd \/ unread[f] > 0
      BY <1>0, <2>0, <2>1, <3>1 DEF HandlerThrows
    <3>3. EdgeSeen(f) \/ f = current.fd
      BY <1>1, <3>1, <3>2
    <3> QED BY <2>1, <3>3 DEF HandlerThrows, EdgeSeen, Signaled, epollVars
  <2>2. CASE /\ HandlerStops \/ HandlerOnlyReads
             /\ UNCHANGED <<pc, batch, current, ub>>
    <3>1. f \in interest \ hungUp
      BY <2>2 DEF HandlerStops, HandlerOnlyReads, epollVars
    <3>2. f = current.fd \/ unread[f] > 0
      BY <1>0, <2>0, <2>2, <3>1 DEF HandlerStops, HandlerOnlyReads
    <3>3. EdgeSeen(f) \/ f = current.fd
      BY <1>1, <2>2, <3>1, <3>2
    <3> QED BY <1>0, <2>0, <2>2, <3>1, <3>3
            DEF HandlerStops, HandlerOnlyReads, StopCall, Signal, EdgeSeen,
                epollVars
  <2>3. ASSUME NEW g \in Fds, HandlerDestroys(g),
               UNCHANGED <<pc, batch, current, ub>>
        PROVE  EdgeSeen(f)'
    <3>1. f \in interest \ hungUp /\ f # g
      BY <2>3 DEF HandlerDestroys
    <3>2. f = current.fd \/ unread[f] > 0
      BY <1>0, <2>0, <2>3, <3>1 DEF HandlerDestroys
    <3>3. EdgeSeen(f) \/ f = current.fd
      BY <1>1, <2>3, <3>1, <3>2
    <3> QED BY <1>0, <2>0, <2>3, <3>1, <3>3 DEF HandlerDestroys, EdgeSeen
  <2>4. CASE /\ unread[current.fd] = 0
             /\ UNCHANGED <<objectVars, epollVars, batch, ghostVars>>
    <3>1. EdgeSeen(f) /\ f # current.fd
      BY <1>1, <2>4 DEF objectVars, epollVars, ghostVars
    <3> QED BY <2>4, <3>1 DEF EdgeSeen, epollVars, ghostVars
  <2> QED BY <1>6, <2>1, <2>2, <2>3, <2>4 DEF CallHandler, Undefined
<1>7. CASE Changes
  <2>1. CASE BeginChanges \/ EndChanges
    <3>1. EdgeSeen(f)
      BY <1>1, <2>1
      DEF BeginChanges, EndChanges, objectVars, epollVars, ghostVars
    <3> QED BY <2>1, <3>1
            DEF BeginChanges, EndChanges, EdgeSeen, epollVars, ghostVars
  <2>2. CASE CarryOut
    <3> DEFINE g == changeList[carriedOut + 1].fd
               h == changeList[carriedOut + 1].handler
    <3>1. g \in Fds /\ h \in 0 .. MaxInputs
      BY <2>2, ItemType DEF CarryOut
    <3>2. CASE f = g
      <4>1. h > 0
        BY <2>2, <3>2 DEF CarryOut
      <4> QED BY <2>2, <3>2, <4>1 DEF CarryOut, EdgeSeen
    <3>3. CASE f # g
      <4>1. EdgeSeen(f) /\ pc = "items"
        BY <1>1, <2>2, <3>3 DEF CarryOut, objectVars
      <4> QED BY <2>2, <3>3, <4>1 DEF CarryOut, EdgeSeen
    <3> QED BY <3>2, <3>3
  <2> QED BY <1>7, <2>1, <2>2 DEF Changes
<1> QED BY <1>2, <1>3, <1>4, <1>5, <1>6, <1>7 DEF Next, Loop, Dispatch

(* Edge triggered, and yet no data of a watched descriptor is overlooked,  *)
(* until undefined behaviour is met: it is read as long as there is any,   *)
(* also when it came before the descriptor was watched.                    *)
THEOREM EdgeNeverLost == Spec => []NoLostEdge
<1>1. Init => EdgeKept
  BY DEF Init, EdgeKept
<1>2. TypeInv /\ EdgeKept => NoLostEdge
  <2> SUFFICES ASSUME TypeInv, EdgeKept, ub = {},
                      NEW f \in interest \ hungUp, unread[f] > 0
               PROVE  f \in Attended \cup dropped
    BY DEF NoLostEdge
  <2>1. EdgeSeen(f) /\ f \in Fds
    BY DEF EdgeKept, TypeInv, TypeOK
  <2> QED BY <2>1 DEF EdgeSeen, Attended, Signaled, Readable
<1> QED BY <1>1, <1>2, EdgeIsKept, TypeInvariant, BatchIsDone, PTL DEF Spec
==============================================================================
