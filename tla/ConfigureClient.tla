--------------------------- MODULE ConfigureClient ---------------------------
(***************************************************************************)
(* hbm::devscan::ConfigureClient: requests by multicast, answers likewise. *)
(* devscanclient/lib/configureclient.cpp                                   *)
(*                                                                         *)
(* The client has an event loop of its own, which runs only in a request,  *)
(* while datagrams arrive at its socket at any time: answers to any of its *)
(* requests, late or twice (a device hears a request over every adapter),  *)
(* answers to requests of other clients, and everything else that is sent  *)
(* to the group.  The loop is that of EventLoop, with three descriptors:   *)
(* those of the loop itself and the socket.                                *)
(***************************************************************************)
EXTENDS Integers, Sequences

CONSTANTS
  Ids,           \* ids createId may return, and callers may choose
  OtherIds,      \* ids that other clients use
  NoId,          \* the empty string: m_id at first, and an id left out
  NoAnswer,      \* the empty string: m_response at first
  MaxRequests,   \* bound: requests
  MaxDatagrams   \* bound: datagrams

ASSUME ConstantsAssumption ==
  /\ NoId \notin Ids \cup OtherIds
  /\ MaxRequests \in Nat
  /\ MaxDatagrams \in Nat

(* A datagram: a result or error with an id, JSON that is neither or no    *)
(* JSON, JSON the accessors throw on (no object, or an id that is no       *)
(* string), or nothing at all.  to: the number of the request it answers.  *)
Datagrams ==
  [kind : {"answer"}, id : Ids \cup OtherIds \cup {NoId},
   to : 0 .. MaxRequests]
    \cup [kind : {"other", "misshapen", "empty"}, id : {NoId}, to : {0}]

VARIABLES
  id,         \* m_id
  asked,      \* number of the request m_id was created for, or 0
  response,   \* m_response
  requests,   \* ids of the messages sent so far
  socket,     \* datagrams received and not yet read
  arrived,    \* datagrams so far
  watched,    \* the socket has been added to epoll
  ready,      \* ready list of epoll
  pc,         \* "out" of executeRequest, "wait", "batch" or "receive"
  batch,      \* events returned by epoll_wait and not yet dispatched
  outcome,    \* how the last request ended
  accepted,   \* answers taken for one to a request of ours
  early,      \* requests ended by a stop
  heard,      \* an answer was taken since the request began
  stranded    \* what is in the socket has no edge to be reported

netVars == <<requests, socket, arrived>>
idVars == <<id, asked>>
vars == <<idVars, response, netVars, watched, ready, pc, batch, outcome,
          accepted, early, heard, stranded>>

(* The constructor starts the multicast server: the socket is bound and is *)
(* going to be added to epoll.                                             *)
Init ==
  /\ id = NoId
  /\ asked = 0
  /\ response = NoAnswer
  /\ requests = <<>>
  /\ socket = <<>>
  /\ arrived = 0
  /\ watched = FALSE
  /\ ready = {"change"}
  /\ pc = "out"
  /\ batch = {}
  /\ outcome = "none"
  /\ accepted = 0
  /\ early = 0
  /\ heard = FALSE
  /\ stranded = FALSE
------------------------------------------------------------------------------
(* What is sent to the group.                                              *)

Arrive(d) ==
  /\ arrived < MaxDatagrams
  /\ arrived' = arrived + 1
  /\ socket' = Append(socket, d)
  /\ ready' = IF watched THEN ready \cup {"socket"} ELSE ready
  /\ stranded' = FALSE
  /\ UNCHANGED <<idVars, response, requests, watched, pc, batch, outcome,
                 accepted, early, heard>>

(* A device answers a request of ours, once more and however late.         *)
DeviceAnswers ==
  \E n \in DOMAIN requests :
    Arrive([kind |-> "answer", id |-> requests[n], to |-> n])

(* What is not meant for us, though its id may be one of ours; and an error *)
(* that names no request.                                                  *)
OthersSend ==
  \/ \E i \in OtherIds \cup {NoId} :
       Arrive([kind |-> "answer", id |-> i, to |-> 0])
  \/ \E k \in {"other", "misshapen", "empty"} :
       Arrive([kind |-> k, id |-> NoId, to |-> 0])
------------------------------------------------------------------------------
(* Requests.                                                               *)

(* executeRequest: the message is sent, the result of sending ignored, and *)
(* m_response left as it is.                                               *)
ExecuteRequest(i) ==
  /\ pc = "out" /\ Len(requests) < MaxRequests
  /\ requests' = Append(requests, i)
  /\ pc' = "wait"
  /\ outcome' = "none"
  /\ heard' = FALSE
  /\ UNCHANGED <<response, socket, arrived, watched, ready, batch, accepted,
                 early, stranded>>

(* The four methods that create an id and a message with it.  The id is    *)
(* the second and a random number below 1000, from a seed that is a second *)
(* as well: nothing keeps it from being one used before, by this client or *)
(* by another.                                                             *)
Configure ==
  \E i \in Ids : /\ id' = i
                 /\ asked' = Len(requests) + 1
                 /\ ExecuteRequest(i)

(* executeRequest called with a message of the caller's own: m_id stays.   *)
SendOwnMessage == \E i \in Ids : ExecuteRequest(i) /\ UNCHANGED idVars

(* execute_for is done and m_response returned.                            *)
Return(how) ==
  /\ pc' = "out"
  /\ batch' = {}
  /\ outcome' = how

(* The data in the socket has its edge thrown away, or ignored.            *)
Strand(rest) == stranded' = (rest # <<>> /\ "socket" \notin ready)
------------------------------------------------------------------------------
(* The event loop during a request.                                        *)

(* epoll_wait: a socket that has been read meanwhile is not reported.      *)
Signaled == {s \in ready : s = "socket" => socket # <<>>}

Wait ==
  /\ pc = "wait" /\ Signaled # {}
  /\ batch' = Signaled
  /\ ready' = {}
  /\ pc' = "batch"
  /\ UNCHANGED <<idVars, response, netVars, watched, outcome, accepted, early,
                 heard, stranded>>

(* Faulty: waits for an answer for ever.                                   *)
TimeOutNever == FALSE /\ UNCHANGED vars

(* TIMETOWAITFORANSWERS is over, noticed only here.                        *)
TimeOut ==
  /\ pc = "wait"
  /\ Return("timeout")
  /\ UNCHANGED <<idVars, response, netVars, watched, ready, accepted, early,
                 heard, stranded>>

(* Faulty: the stop leaves the loop over the batch, but not execute_for.   *)
DispatchStopBreak ==
  /\ pc = "batch" /\ "stop" \in batch
  /\ pc' = "wait"
  /\ batch' = {}
  /\ outcome' = "stopped"
  /\ early' = early + 1
  /\ Strand(socket)
  /\ UNCHANGED <<idVars, response, netVars, watched, ready, accepted, heard>>

(* The events of a batch come in any order.                                *)
DispatchStop ==
  /\ pc = "batch" /\ "stop" \in batch
  /\ Return("stopped")
  /\ early' = early + 1
  /\ Strand(socket)
  /\ UNCHANGED <<idVars, response, netVars, watched, ready, accepted, heard>>

DispatchSocket ==
  /\ pc = "batch" /\ "socket" \in batch
  /\ batch' = batch \ {"socket"}
  /\ pc' = "receive"
  /\ UNCHANGED <<idVars, response, netVars, watched, ready, outcome, accepted,
                 early, heard, stranded>>

(* changeHandler adds the socket to epoll, and has it read.                *)
DispatchChange ==
  /\ pc = "batch" /\ "change" \in batch
  /\ batch' = batch \ {"change"}
  /\ pc' = "receive"
  /\ watched' = TRUE
  /\ ready' = IF socket = <<>> THEN ready ELSE ready \cup {"socket"}
  /\ UNCHANGED <<idVars, response, netVars, outcome, accepted, early, heard,
                 stranded>>

EndBatch ==
  /\ pc = "batch" /\ batch = {}
  /\ pc' = "wait"
  /\ UNCHANGED <<idVars, response, netVars, watched, ready, batch, outcome,
                 accepted, early, heard, stranded>>

(* Faulty: any answer will do.                                             *)
MatchesAny(d) == d.kind = "answer"

(* Is it the answer to our question?                                       *)
Matches(d) == d.kind = "answer" /\ d.id = id

(* Faulty: an answer to another question ends the request as well.         *)
RecvAnswerStopAlways ==
  /\ pc = "receive" /\ socket # <<>> /\ Head(socket).kind = "answer"
  /\ socket' = Tail(socket)
  /\ ready' = ready \cup {"stop"}
  /\ IF Matches(Head(socket))
       THEN /\ response' = Head(socket)
            /\ accepted' = accepted + 1
            /\ heard' = TRUE
       ELSE UNCHANGED <<response, accepted, heard>>
  /\ UNCHANGED <<idVars, requests, arrived, watched, pc, batch, outcome, early,
                 stranded>>

(* recvCb, called for as long as it returns more than 0.                   *)
RecvAnswer ==
  /\ pc = "receive" /\ socket # <<>> /\ Head(socket).kind = "answer"
  /\ socket' = Tail(socket)
  /\ IF Matches(Head(socket))
       THEN /\ response' = Head(socket)
            /\ accepted' = accepted + 1
            /\ heard' = TRUE
            /\ ready' = ready \cup {"stop"}
       ELSE UNCHANGED <<response, accepted, heard, ready>>
  /\ UNCHANGED <<idVars, requests, arrived, watched, pc, batch, outcome, early,
                 stranded>>

(* Faulty: one datagram is read for an edge.                               *)
RecvOtherOnce ==
  /\ pc = "receive" /\ socket # <<>> /\ Head(socket).kind = "other"
  /\ socket' = Tail(socket)
  /\ pc' = "batch"
  /\ UNCHANGED <<idVars, response, requests, arrived, watched, ready, batch,
                 outcome, accepted, early, heard, stranded>>

RecvOther ==
  /\ pc = "receive" /\ socket # <<>> /\ Head(socket).kind = "other"
  /\ socket' = Tail(socket)
  /\ UNCHANGED <<idVars, response, requests, arrived, watched, ready, pc,
                 batch, outcome, accepted, early, heard, stranded>>

(* The exception goes through the loop and executeRequest to the caller.   *)
RecvMisshapen ==
  /\ pc = "receive" /\ socket # <<>> /\ Head(socket).kind = "misshapen"
  /\ socket' = Tail(socket)
  /\ Return("threw")
  /\ Strand(Tail(socket))
  /\ UNCHANGED <<idVars, response, requests, arrived, watched, ready, accepted,
                 early, heard>>

(* Nothing left, or an empty datagram, which looks the same to the loop.   *)
RecvEnd ==
  /\ pc = "receive"
  /\ \/ socket = <<>> /\ socket' = <<>>
     \/ socket # <<>> /\ Head(socket).kind = "empty" /\ socket' = Tail(socket)
  /\ pc' = "batch"
  /\ Strand(socket')
  /\ UNCHANGED <<idVars, response, requests, arrived, watched, ready, batch,
                 outcome, accepted, early, heard>>

Loop == \/ Wait \/ DispatchStop \/ DispatchSocket \/ DispatchChange \/ EndBatch
        \/ RecvAnswer \/ RecvOther \/ RecvMisshapen \/ RecvEnd

Next == DeviceAnswers \/ OthersSend \/ Configure \/ SendOwnMessage \/ TimeOut
        \/ Loop

Spec == Init /\ [][Next]_vars

(* The thread in a request runs, and time passes, but is not always over   *)
(* just when the loop comes to epoll_wait.                                 *)
FairSpec == Spec /\ WF_vars(Loop) /\ SF_vars(TimeOut)
------------------------------------------------------------------------------
(* Properties.                                                             *)

TypeOK ==
  /\ id \in Ids \cup {NoId}
  /\ asked \in 0 .. MaxRequests
  /\ response \in Datagrams \cup {NoAnswer}
  /\ requests \in Seq(Ids) /\ Len(requests) <= MaxRequests
  /\ socket \in Seq(Datagrams)
  /\ arrived \in 0 .. MaxDatagrams
  /\ watched \in BOOLEAN
  /\ ready \subseteq {"stop", "change", "socket"}
  /\ pc \in {"out", "wait", "batch", "receive"}
  /\ batch \subseteq {"stop", "change", "socket"}
  /\ outcome \in {"none", "stopped", "timeout", "threw"}
  /\ accepted \in 0 .. MaxDatagrams
  /\ early \in 0 .. MaxRequests
  /\ heard \in BOOLEAN
  /\ stranded \in BOOLEAN

(* The id of a request is one that no other request has, of whatever       *)
(* client.                                                                 *)
OwnId(n) ==
  /\ requests[n] \notin OtherIds
  /\ \A k \in DOMAIN requests \ {n} : requests[k] # requests[n]

(* All clients share the group, and answers come late, twice and in any    *)
(* order.  Yet the answer a request takes, the first or one that replaces  *)
(* it, is to the request that m_id was created for: if that id is its own. *)
(* Two clients, or two requests, that draw the same id are not told apart. *)
AnswersTheQuestion ==
  heard /\ asked # 0 /\ OwnId(asked) => response.to = asked

(* A request is never cut short for nothing: each early end, even in a     *)
(* later request, is paid for by an answer of its own.                     *)
EarlyEndIsPaid == early <= accepted

(* Answers are not overlooked while the loop waits: what is in the socket  *)
(* is going to be read, but for what a stop, an exception or an empty      *)
(* datagram has left behind without an edge.                               *)
NotOverlooked ==
  pc = "wait" /\ socket # <<>> =>
    stranded \/ ready \cap {"socket", "change"} # {}

(* Every request comes to an end.                                          *)
RequestEnds == pc # "out" ~> pc = "out"
------------------------------------------------------------------------------
(* What the header says that the code does not do.                         *)

(* "empty string if no answer was received" (configureclient.h:59): no     *)
(* response without an answer taken since the request began.               *)
EmptyIfUnanswered ==
  pc = "out" /\ outcome \in {"stopped", "timeout"} /\ ~heard =>
    response = NoAnswer
==============================================================================
