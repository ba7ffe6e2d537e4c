------------------------ MODULE ConfigureClientProofs ------------------------
(***************************************************************************)
(* The safety of ConfigureClient, for any ids and any number of requests   *)
(* and datagrams.  Four invariants are shown one after the other, each     *)
(* with the help of the earlier ones: the types and what the counters      *)
(* count, the answers that lie in the socket, the stops that are under     *)
(* way, and the edges of the socket.                                       *)
(***************************************************************************)
EXTENDS ConfigureClient, SequenceTheorems, TLAPS

(* Each datagram is read once, and each request ends at most once.         *)
Counted ==
  /\ accepted + Len(socket) <= arrived
  /\ early + (IF pc = "out" THEN 0 ELSE 1) <= Len(requests)

(* An answer has the id of the request it answers; if that is none of ours,*)
(* it has one that others use, or none.                                    *)
Truthful(d) ==
  d.kind = "answer" =>
    IF d.to = 0 THEN d.id \in OtherIds \cup {NoId}
                ELSE d.to \in DOMAIN requests /\ requests[d.to] = d.id

(* m_id is the id of the request it was created for.                       *)
AskedFor ==
  /\ asked <= Len(requests)
  /\ asked # 0 => id = requests[asked]

AnswersTold ==
  /\ \A k \in DOMAIN socket : Truthful(socket[k])
  /\ AskedFor
  /\ AnswersTheQuestion

(* A stop on its way is paid for as well.                                  *)
StopsUnderWay ==
  (IF "stop" \in ready THEN 1 ELSE 0) + (IF "stop" \in batch THEN 1 ELSE 0)

StopsArePaid == early + StopsUnderWay <= accepted

(* What is in the socket is read, is going to be read, or has no edge; and *)
(* until the socket is watched, its addition to epoll is to be carried     *)
(* out, before which nothing can be read and nothing can stop the loop.    *)
EdgeKept ==
  /\ pc \in {"wait", "out"} => batch = {}
  /\ ~watched => "change" \in ready \cup batch
  /\ pc = "receive" \/ {"stop", "socket"} \cap (ready \cup batch) # {} => watched
  /\ socket # <<>> =>
       \/ stranded \/ pc = "receive"
       \/ {"socket", "change"} \cap (ready \cup batch) # {}
------------------------------------------------------------------------------
(* What arrives is a datagram of the kind its sender can send.             *)
LEMMA Arrivals ==
  ASSUME TypeOK, DeviceAnswers \/ OthersSend
  PROVE  \E d \in Datagrams : Arrive(d) /\ Truthful(d)
<1>1. CASE DeviceAnswers
  <2>1. PICK n \in DOMAIN requests :
               Arrive([kind |-> "answer", id |-> requests[n], to |-> n])
    BY <1>1 DEF DeviceAnswers
  <2>2. n \in 1 .. Len(requests) /\ requests[n] \in Ids
    BY <2>1 DEF TypeOK
  <2>3. n \in 0 .. MaxRequests /\ n # 0
    BY <2>2, ConstantsAssumption DEF TypeOK
  <2> DEFINE d == [kind |-> "answer", id |-> requests[n], to |-> n]
  <2>4. d \in Datagrams /\ d.to = n
    BY <2>2, <2>3 DEF Datagrams
  <2>5. Truthful(d)
    BY <2>1, <2>3, <2>4 DEF Truthful
  <2> QED BY <2>1, <2>4, <2>5
<1>2. CASE OthersSend
  <2>0. 0 \in 0 .. MaxRequests
    BY ConstantsAssumption
  <2>1. CASE \E i \in OtherIds \cup {NoId} :
               Arrive([kind |-> "answer", id |-> i, to |-> 0])
    <3>1. PICK i \in OtherIds \cup {NoId} :
                 Arrive([kind |-> "answer", id |-> i, to |-> 0])
      BY <2>1
    <3> DEFINE d == [kind |-> "answer", id |-> i, to |-> 0]
    <3>2. d \in Datagrams /\ Truthful(d)
      BY <2>0 DEF Datagrams, Truthful
    <3> QED BY <3>1, <3>2
  <2>2. CASE \E k \in {"other", "misshapen", "empty"} :
               Arrive([kind |-> k, id |-> NoId, to |-> 0])
    <3>1. PICK k \in {"other", "misshapen", "empty"} :
                 Arrive([kind |-> k, id |-> NoId, to |-> 0])
      BY <2>2
    <3> DEFINE d == [kind |-> k, id |-> NoId, to |-> 0]
    <3>2. d \in Datagrams /\ Truthful(d)
      BY Zenon DEF Datagrams, Truthful
    <3> QED BY <3>1, <3>2
  <2> QED BY <1>2, <2>1, <2>2 DEF OthersSend
<1> QED BY <1>1, <1>2

(* A request is made with an id that may be one of ours.                   *)
LEMMA Requests ==
  ASSUME TypeOK, Configure \/ SendOwnMessage
  PROVE  /\ id' \in Ids \cup {NoId}
         /\ asked' \in {asked, Len(requests) + 1}
         /\ \E i \in Ids : /\ ExecuteRequest(i)
                           /\ asked' # asked => id' = i /\ asked' = Len(requests) + 1
                           /\ asked' = asked /\ asked <= Len(requests) => id' = id
BY DEF TypeOK, Configure, SendOwnMessage, idVars

(* The first datagram is taken out of the socket.                          *)
LEMMA Taken ==
  ASSUME socket \in Seq(Datagrams), socket # <<>>
  PROVE  /\ Head(socket) \in Datagrams /\ Tail(socket) \in Seq(Datagrams)
         /\ Len(Tail(socket)) = Len(socket) - 1
         /\ 1 \in DOMAIN socket /\ Head(socket) = socket[1]
         /\ \A k \in DOMAIN Tail(socket) :
              k + 1 \in DOMAIN socket /\ Tail(socket)[k] = socket[k + 1]
BY HeadTailProperties, EmptySeq
------------------------------------------------------------------------------
(* Types.                                                                  *)

TypeInv == TypeOK /\ Counted

LEMMA TypeInit == Init => TypeInv
<1> SUFFICES ASSUME Init PROVE TypeInv
  OBVIOUS
<1>1. /\ requests \in Seq(Ids) /\ socket \in Seq(Datagrams)
      /\ Len(requests) = 0 /\ Len(socket) = 0
  BY DEF Init
<1>2. heard \in BOOLEAN /\ stranded \in BOOLEAN /\ watched \in BOOLEAN
  BY DEF Init
<1>3. TypeOK
  BY <1>1, <1>2, ConstantsAssumption DEF Init, TypeOK
<1>4. Counted
  BY <1>1 DEF Init, Counted
<1> QED BY <1>3, <1>4 DEF TypeInv

LEMMA TypeStep == TypeInv /\ [Next]_vars => TypeInv'
<1> SUFFICES ASSUME TypeOK, Counted, [Next]_vars
             PROVE  TypeInv'
  BY DEF TypeInv
<1> USE ConstantsAssumption DEF netVars, idVars
<1>0. /\ Len(socket) \in Nat /\ Len(requests) \in Nat
      /\ accepted + Len(socket) <= arrived
  BY DEF TypeOK, Counted
<1>1. CASE DeviceAnswers \/ OthersSend
  <2>1. PICK d \in Datagrams : Arrive(d)
    BY <1>1, Arrivals
  <2>2. socket' \in Seq(Datagrams) /\ Len(socket') = Len(socket) + 1
    BY <2>1 DEF TypeOK, Arrive
  <2>3. TypeOK'
    <3>1. ready' \subseteq {"stop", "change", "socket"} /\ stranded' \in BOOLEAN
      BY <2>1 DEF TypeOK, Arrive
    <3>2. arrived' \in 0 .. MaxDatagrams
      BY <2>1 DEF TypeOK, Arrive
    <3> QED BY <2>1, <2>2, <3>1, <3>2 DEF TypeOK, Arrive
  <2>4. Counted'
    BY <1>0, <2>1, <2>2 DEF TypeOK, Counted, Arrive
  <2> QED BY <2>3, <2>4 DEF TypeInv
<1>2. CASE Configure \/ SendOwnMessage
  <2>1. id' \in Ids \cup {NoId}
    BY <1>2, Requests
  <2>2. PICK i \in Ids : ExecuteRequest(i)
    BY <1>2, Requests
  <2>3. /\ requests' \in Seq(Ids) /\ Len(requests') = Len(requests) + 1
        /\ Len(requests') <= MaxRequests
    BY <1>0, <2>2 DEF TypeOK, ExecuteRequest
  <2>4. TypeOK'
    <3>1. asked' \in 0 .. MaxRequests
      BY <1>0, <1>2, <2>3, Requests DEF TypeOK
    <3> QED BY <2>1, <2>2, <2>3, <3>1 DEF TypeOK, ExecuteRequest
  <2>5. Counted'
    BY <1>0, <2>2, <2>3 DEF TypeOK, Counted, ExecuteRequest
  <2> QED BY <2>4, <2>5 DEF TypeInv
<1>3. CASE TimeOut
  BY <1>3 DEF TypeInv, TypeOK, Counted, TimeOut, Return
<1>4. CASE Wait
  BY <1>4 DEF TypeInv, TypeOK, Counted, Wait, Signaled
<1>5. CASE DispatchStop
  <2>1. early + 1 <= MaxRequests
    BY <1>0, <1>5 DEF TypeOK, Counted, DispatchStop
  <2>2. TypeOK'
    BY <1>5, <2>1 DEF TypeOK, DispatchStop, Return, Strand
  <2>3. Counted'
    BY <1>0, <1>5 DEF TypeOK, Counted, DispatchStop, Return
  <2> QED BY <2>2, <2>3 DEF TypeInv
<1>6. CASE DispatchSocket
  BY <1>6 DEF TypeInv, TypeOK, Counted, DispatchSocket
<1>7. CASE DispatchChange
  BY <1>7 DEF TypeInv, TypeOK, Counted, DispatchChange
<1>8. CASE EndBatch
  BY <1>8 DEF TypeInv, TypeOK, Counted, EndBatch
<1>9. CASE RecvAnswer
  <2>1. /\ Head(socket) \in Datagrams /\ socket' \in Seq(Datagrams)
        /\ Len(socket') = Len(socket) - 1
    BY <1>9, Taken DEF TypeOK, RecvAnswer
  <2>2. accepted + 1 <= MaxDatagrams /\ accepted' + Len(socket') <= arrived
    BY <1>0, <1>9, <2>1 DEF TypeOK, RecvAnswer
  <2>3. TypeOK'
    <3>1. /\ response' \in Datagrams \cup {NoAnswer} /\ heard' \in BOOLEAN
          /\ ready' \subseteq {"stop", "change", "socket"}
      BY <1>9, <2>1 DEF TypeOK, RecvAnswer
    <3>2. accepted' \in 0 .. MaxDatagrams
      BY <1>9, <2>2 DEF TypeOK, RecvAnswer
    <3> QED BY <1>9, <2>1, <3>1, <3>2 DEF TypeOK, RecvAnswer
  <2>4. Counted'
    BY <1>9, <2>2 DEF TypeOK, Counted, RecvAnswer
  <2> QED BY <2>3, <2>4 DEF TypeInv
<1>10. CASE RecvOther
  <2>1. socket' \in Seq(Datagrams) /\ Len(socket') = Len(socket) - 1
    BY <1>10, Taken DEF TypeOK, RecvOther
  <2>2. TypeOK'
    BY <1>10, <2>1 DEF TypeOK, RecvOther
  <2>3. Counted'
    BY <1>0, <1>10, <2>1 DEF TypeOK, Counted, RecvOther
  <2> QED BY <2>2, <2>3 DEF TypeInv
<1>11. CASE RecvMisshapen
  <2>1. socket' \in Seq(Datagrams) /\ Len(socket') = Len(socket) - 1
    BY <1>11, Taken DEF TypeOK, RecvMisshapen
  <2>2. TypeOK'
    BY <1>11, <2>1 DEF TypeOK, RecvMisshapen, Return, Strand
  <2>3. Counted'
    BY <1>0, <1>11, <2>1 DEF TypeOK, Counted, RecvMisshapen, Return
  <2> QED BY <2>2, <2>3 DEF TypeInv
<1>12. CASE RecvEnd
  <2>1. socket' \in Seq(Datagrams) /\ Len(socket') <= Len(socket)
    BY <1>0, <1>12, Taken, SMTT(30) DEF TypeOK, RecvEnd
  <2>2. TypeOK'
    BY <1>12, <2>1 DEF TypeOK, RecvEnd, Strand
  <2>3. Len(socket') \in Nat
    BY <2>1
  <2>4. Counted'
    BY <1>0, <1>12, <2>1, <2>3 DEF TypeOK, Counted, RecvEnd
  <2> QED BY <2>2, <2>4 DEF TypeInv
<1>13. CASE UNCHANGED vars
  BY <1>13 DEF TypeInv, TypeOK, Counted, vars
<1> QED BY <1>1, <1>2, <1>3, <1>4, <1>5, <1>6, <1>7, <1>8, <1>9, <1>10, <1>11,
           <1>12, <1>13 DEF Next, Loop

LEMMA TypesHold == Spec => []TypeInv
BY TypeInit, TypeStep, PTL DEF Spec

(* Every variable keeps to its type; no request ends more often than it    *)
(* was made, and no answer is taken twice.                                 *)
THEOREM TypeCorrect == Spec => []TypeOK
<1>1. TypeInv => TypeOK
  BY DEF TypeInv
<1> QED BY <1>1, TypesHold, PTL
------------------------------------------------------------------------------
(* Answers.                                                                *)

(* Requests are only added: what was an answer to one stays one.           *)
LEMMA StaysTruthful ==
  ASSUME TypeOK, NEW d \in Datagrams, Truthful(d),
         \/ UNCHANGED requests
         \/ \E i \in Ids : requests' = Append(requests, i)
  PROVE  Truthful(d)'
<1>1. CASE UNCHANGED requests
  BY <1>1 DEF Truthful
<1>2. ASSUME NEW i \in Ids, requests' = Append(requests, i)
      PROVE  Truthful(d)'
  <2>1. requests \in Seq(Ids)
    BY DEF TypeOK
  <2>2. \A k \in DOMAIN requests : k \in DOMAIN requests' /\ requests'[k] = requests[k]
    BY <1>2, <2>1
  <2> QED BY <2>2 DEF Truthful
<1> QED BY <1>1, <1>2

(* A new request is answered by nothing yet.                               *)
LEMMA AskedStep ==
  ASSUME TypeOK, AskedFor, AnswersTheQuestion, Configure \/ SendOwnMessage
  PROVE  AskedFor' /\ AnswersTheQuestion'
<1>1. PICK i \in Ids :
        /\ ExecuteRequest(i)
        /\ asked' # asked => id' = i /\ asked' = Len(requests) + 1
        /\ asked' = asked /\ asked <= Len(requests) => id' = id
  BY Requests
<1>0. requests \in Seq(Ids) /\ Len(requests) \in Nat /\ asked \in Nat
  BY ConstantsAssumption DEF TypeOK
<1>2. requests' = Append(requests, i) /\ heard' = FALSE
  BY <1>1 DEF ExecuteRequest
<1>3. /\ Len(requests') = Len(requests) + 1
      /\ \A k \in 1 .. Len(requests) : requests'[k] = requests[k]
      /\ requests'[Len(requests) + 1] = i
  BY <1>0, <1>2
<1>4. AnswersTheQuestion'
  BY <1>2 DEF AnswersTheQuestion
<1>5. CASE asked' = asked
  <2>1. asked <= Len(requests) /\ (asked # 0 => id = requests[asked])
    BY DEF AskedFor
  <2>2. id' = id /\ asked' <= Len(requests')
    BY <1>0, <1>1, <1>3, <1>5, <2>1
  <2>3. asked # 0 => requests'[asked] = requests[asked]
    BY <1>0, <1>3, <2>1
  <2> QED BY <1>4, <1>5, <2>1, <2>2, <2>3 DEF AskedFor
<1>6. CASE asked' # asked
  BY <1>0, <1>1, <1>3, <1>4, <1>6 DEF AskedFor
<1> QED BY <1>5, <1>6

(* Among the requests, only the one asked for has an id of its own.        *)
LEMMA TakenAnswers ==
  ASSUME TypeOK, AskedFor, NEW d \in Datagrams, Truthful(d), Matches(d),
         asked # 0, OwnId(asked)
  PROVE  d.to = asked
<1>1. d.kind = "answer" /\ d.id = requests[asked] /\ asked \in DOMAIN requests
  BY DEF Matches, AskedFor, TypeOK
<1>2. d.id \notin OtherIds \cup {NoId}
  BY <1>1, ConstantsAssumption DEF OwnId, TypeOK
<1>3. d.to \in DOMAIN requests /\ requests[d.to] = requests[asked]
  BY <1>1, <1>2 DEF Truthful
<1> QED BY <1>3 DEF OwnId

LEMMA AnswersInit == Init => AnswersTold
BY EmptySeq DEF Init, AnswersTold, AskedFor, AnswersTheQuestion

LEMMA AnswersStep == TypeOK /\ AnswersTold /\ [Next]_vars => AnswersTold'
<1> SUFFICES ASSUME TypeOK, AnswersTold, [Next]_vars
             PROVE  AnswersTold'
  OBVIOUS
<1> USE DEF netVars, idVars
<1>0. socket \in Seq(Datagrams) /\ \A k \in DOMAIN socket : socket[k] \in Datagrams
  BY DEF TypeOK
<1>1. CASE DeviceAnswers \/ OthersSend
  <2>1. PICK d \in Datagrams : Arrive(d) /\ Truthful(d)
    BY <1>1, Arrivals
  <2>2. UNCHANGED <<id, asked, requests, response, heard>>
    BY <2>1 DEF Arrive
  <2>3. ASSUME NEW k \in DOMAIN socket' PROVE Truthful(socket'[k])
    <3>1. socket' = Append(socket, d) /\ Len(socket) \in Nat
      BY <1>0, <2>1 DEF Arrive
    <3>2. k \in 1 .. Len(socket) + 1
      BY <1>0, <2>3, <3>1
    <3>3. CASE k = Len(socket) + 1
      BY <1>0, <2>1, <3>1, <3>3
    <3>4. CASE k \in DOMAIN socket
      <4>1. socket'[k] = socket[k]
        BY <1>0, <3>1, <3>4
      <4> QED BY <3>4, <4>1 DEF AnswersTold
    <3> QED BY <1>0, <3>1, <3>2, <3>3, <3>4
  <2>4. \A k \in DOMAIN socket' : Truthful(socket[k])'
    BY <2>2, <2>3 DEF Truthful
  <2> QED BY <2>2, <2>4 DEF AnswersTold, AskedFor, AnswersTheQuestion, OwnId
<1>2. CASE Configure \/ SendOwnMessage
  <2>1. PICK i \in Ids : requests' = Append(requests, i) /\ socket' = socket
    BY <1>2, Requests DEF ExecuteRequest
  <2>2. \A k \in DOMAIN socket : Truthful(socket[k])'
    BY <1>0, <2>1, StaysTruthful DEF AnswersTold
  <2>3. \A k \in DOMAIN socket' : Truthful(socket[k])'
    BY <2>1, <2>2
  <2> QED BY <1>2, <2>3, AskedStep DEF AnswersTold
<1>3. ASSUME socket # <<>>, socket' = Tail(socket), UNCHANGED requests
      PROVE  \A k \in DOMAIN socket' : Truthful(socket[k])'
  <2>1. \A k \in DOMAIN socket' : Truthful(socket'[k])
    BY <1>0, <1>3, Taken DEF AnswersTold
  <2> QED BY <1>3, <2>1 DEF Truthful
<1>4. CASE RecvAnswer
  <2>1. /\ \A k \in DOMAIN socket' : Truthful(socket[k])'
        /\ UNCHANGED <<id, asked, requests>>
    BY <1>3, <1>4 DEF RecvAnswer
  <2>2. CASE Matches(Head(socket))
    <3>1. Head(socket) \in Datagrams /\ Truthful(Head(socket))
      BY <1>0, <1>4, Taken DEF RecvAnswer, AnswersTold
    <3>2. asked # 0 /\ OwnId(asked) => Head(socket).to = asked
      BY <2>2, <3>1, TakenAnswers DEF AnswersTold
    <3>3. response' = Head(socket)
      BY <1>4, <2>2 DEF RecvAnswer
    <3> QED BY <2>1, <3>2, <3>3 DEF AnswersTold, AskedFor, AnswersTheQuestion, OwnId
  <2>3. CASE ~Matches(Head(socket))
    <3>1. UNCHANGED <<response, heard>>
      BY <1>4, <2>3 DEF RecvAnswer
    <3> QED BY <2>1, <3>1 DEF AnswersTold, AskedFor, AnswersTheQuestion, OwnId
  <2> QED BY <2>2, <2>3
<1>5. CASE RecvOther \/ RecvMisshapen \/ RecvEnd
  <2>1. /\ UNCHANGED <<id, asked, requests, response, heard>>
        /\ \/ socket # <<>> /\ socket' = Tail(socket)
           \/ socket' = socket
    BY <1>5 DEF RecvOther, RecvMisshapen, RecvEnd
  <2>2. \A k \in DOMAIN socket' : Truthful(socket[k])'
    BY <1>3, <2>1 DEF AnswersTold, Truthful
  <2> QED BY <2>1, <2>2 DEF AnswersTold, AskedFor, AnswersTheQuestion, OwnId
<1>6. CASE TimeOut \/ Wait \/ DispatchStop \/ DispatchSocket \/ DispatchChange
           \/ EndBatch \/ UNCHANGED vars
  <2>1. UNCHANGED <<id, asked, requests, response, socket, heard>>
    BY <1>6 DEF TimeOut, Wait, DispatchStop, DispatchSocket, DispatchChange,
                EndBatch, vars
  <2> QED BY <2>1 DEF AnswersTold, Truthful, AskedFor, AnswersTheQuestion, OwnId
<1> QED BY <1>1, <1>2, <1>4, <1>5, <1>6 DEF Next, Loop

(* Whatever is sent to the group and in whatever order: an answer taken is *)
(* to the request that m_id was created for, if nobody else drew its id.   *)
THEOREM AnswersAreToTheQuestion == Spec => []AnswersTheQuestion
<1>1. AnswersTold => AnswersTheQuestion
  BY DEF AnswersTold
<1> QED BY <1>1, TypeCorrect, AnswersInit, AnswersStep, PTL DEF Spec
------------------------------------------------------------------------------
(* Stops.                                                                  *)

LEMMA StopsInit == Init => StopsArePaid
BY DEF Init, StopsArePaid, StopsUnderWay

LEMMA StopsStep == TypeOK /\ StopsArePaid /\ [Next]_vars => StopsArePaid'
<1> SUFFICES ASSUME TypeOK, StopsArePaid, [Next]_vars
             PROVE  StopsArePaid'
  OBVIOUS
<1> USE DEF TypeOK, StopsArePaid, StopsUnderWay, idVars
<1>1. CASE DeviceAnswers \/ OthersSend
  <2>1. PICK d \in Datagrams : Arrive(d)
    BY <1>1, Arrivals
  <2> QED BY <2>1 DEF Arrive
<1>2. CASE Configure \/ SendOwnMessage
  <2>1. PICK i \in Ids : ExecuteRequest(i)
    BY <1>2, Requests
  <2> QED BY <2>1 DEF ExecuteRequest
<1>3. CASE TimeOut
  BY <1>3 DEF TimeOut, Return
<1>4. CASE Wait
  BY <1>4 DEF Wait, Signaled
<1>5. CASE DispatchStop
  BY <1>5 DEF DispatchStop, Return
<1>6. CASE DispatchSocket
  BY <1>6 DEF DispatchSocket
<1>7. CASE DispatchChange
  BY <1>7 DEF DispatchChange
<1>8. CASE RecvAnswer
  BY <1>8 DEF RecvAnswer
<1>9. CASE RecvMisshapen
  BY <1>9 DEF RecvMisshapen, Return
<1>10. CASE EndBatch \/ RecvOther \/ RecvEnd \/ UNCHANGED vars
  BY <1>10 DEF EndBatch, RecvOther, RecvEnd, vars
<1> QED BY <1>1, <1>2, <1>3, <1>4, <1>5, <1>6, <1>7, <1>8, <1>9, <1>10
        DEF Next, Loop

(* However answers are repeated or late: no more requests are cut short    *)
(* than answers were taken.                                                *)
THEOREM EarlyEndsArePaid == Spec => []EarlyEndIsPaid
<1>1. TypeOK /\ StopsArePaid => EarlyEndIsPaid
  BY DEF TypeOK, StopsArePaid, StopsUnderWay, EarlyEndIsPaid
<1> QED BY <1>1, TypeCorrect, StopsInit, StopsStep, PTL DEF Spec
------------------------------------------------------------------------------
(* Edges.                                                                  *)

LEMMA EdgesInit == Init => EdgeKept
BY DEF Init, EdgeKept

LEMMA EdgesStep == TypeOK /\ EdgeKept /\ [Next]_vars => EdgeKept'
<1> SUFFICES ASSUME TypeOK, EdgeKept, [Next]_vars
             PROVE  EdgeKept'
  OBVIOUS
<1> USE DEF EdgeKept, netVars, idVars
<1>1. CASE DeviceAnswers \/ OthersSend
  <2>1. PICK d \in Datagrams : Arrive(d)
    BY <1>1, Arrivals
  <2> QED BY <2>1 DEF Arrive
<1>2. CASE Configure \/ SendOwnMessage
  <2>1. PICK i \in Ids : ExecuteRequest(i)
    BY <1>2, Requests
  <2> QED BY <2>1 DEF ExecuteRequest
<1>3. CASE TimeOut
  BY <1>3 DEF TimeOut, Return
<1>4. CASE Wait
  BY <1>4 DEF Wait, Signaled
<1>5. CASE DispatchStop
  BY <1>5 DEF DispatchStop, Return, Strand
<1>6. CASE DispatchSocket
  BY <1>6 DEF DispatchSocket
<1>7. CASE DispatchChange
  BY <1>7 DEF DispatchChange
<1>8. CASE EndBatch
  BY <1>8 DEF EndBatch
<1>9. CASE RecvAnswer
  BY <1>9 DEF RecvAnswer
<1>10. CASE RecvOther
  BY <1>10 DEF RecvOther
<1>11. CASE RecvMisshapen
  BY <1>11 DEF RecvMisshapen, Return, Strand
<1>12. CASE RecvEnd
  BY <1>12 DEF RecvEnd, Strand
<1>13. CASE UNCHANGED vars
  BY <1>13 DEF vars
<1> QED BY <1>1, <1>2, <1>3, <1>4, <1>5, <1>6, <1>7, <1>8, <1>9, <1>10, <1>11,
           <1>12, <1>13 DEF Next, Loop

(* Nothing is overlooked: while the loop waits, what is in the socket has  *)
(* its edge, unless a stop, an exception or an empty datagram took it.     *)
THEOREM NothingOverlooked == Spec => []NotOverlooked
<1>1. EdgeKept => NotOverlooked
  BY DEF EdgeKept, NotOverlooked
<1> QED BY <1>1, TypeCorrect, EdgesInit, EdgesStep, PTL DEF Spec
==============================================================================
