---------------------------- MODULE WindowsSocket ----------------------------
(***************************************************************************)
(* hbm::communication::SocketNonblocking on Windows:                       *)
(* hbm/communication/windows/socketnonblocking.cpp, around the same        *)
(* BufferedReader.  The state is that of Socket; what differs is how it    *)
(* sends, what it makes of an orderly close, and that                      *)
(* setting a callback does not call it.  The wait to receive is the one of *)
(* Linux, whose failure ends the call: the condition of the loop around    *)
(* select, which repeats every failure but an interruption, is left out.   *)
(***************************************************************************)
EXTENDS Socket

CONSTANT WSAError   \* what WSAGetLastError says of a connection that is gone

ASSUME WindowsAssumption == WSAError \in Nat \ {0}
-----------------------------------------------------------------------------
(* connect: what it returns is left out; of a connection that is there at  *)
(* once it says that there is none.                                        *)
WinConnect == \E outcome \in ConnStates : Connect(outcome)

WinDisconnect == Disconnect

(* The event is there as long as the socket; it is signalled if the kernel *)
(* has data when WSAEventSelect is called, whatever the buffer holds, and  *)
(* stays registered when the callback is an empty one.                     *)
WinSetDataCb(handler) ==
  /\ conn # "none" /\ handler # dataHandler
  /\ reader = NotReading
  /\ handler = "echo" =>
       sends = <<>> /\ sender = NotSending /\ returned \o dropped \o LeftOver = <<>>
  /\ dataHandler' = handler
  /\ edge' = (arrived # <<>> \/ peerClosed \/ conn = "broken")
  /\ UNCHANGED <<connVars, outVars, readerVars, peerVars>>

(* process returns -1 when there is no callback.                           *)
WinHandleEdge ==
  /\ edge /\ reader = NotReading
  /\ edge' = FALSE
  /\ reader' = IF dataHandler = "none" THEN NotReading ELSE [at |-> "handler"]
  /\ UNCHANGED <<connVars, outVars, buffer, alreadyRead, returned, dropped, stale,
                 peerVars, dataHandler>>
-----------------------------------------------------------------------------
(* Sending.                                                                *)

(* The vector begins with as many entries of length 0 as there are blocks. *)
WSABufs(blocks) == [i \in DOMAIN blocks |-> 0] \o blocks

WinSendBlocks(blocks) ==
  /\ MaySend /\ dataHandler # "echo"
  /\ sender' = [at |-> "writev", first |-> handedOver, sizes |-> WSABufs(blocks)]
  /\ handedOver' = handedOver + Total(blocks)
  /\ UNCHANGED <<connVars, wire, peerRead, sends, waitFailed, readerVars,
                 peerVars, loopVars>>

(* WSASend.  When it would have to wait it has written nothing, and the    *)
(* blocks are sent one by one.  Another error is returned as its code,     *)
(* which is positive.                                                      *)
WSASend ==
  /\ sender.at = "writev"
  /\ LET complete == Total(sender.sizes)
     IN  \/ /\ ~Failed
            /\ \E n \in 0 .. complete :
                 /\ n <= Room
                 /\ wire' = wire \o Bytes(sender.first, n)
                 /\ IF n = complete
                    THEN SendReturns(n)
                    ELSE sender' = RestFrom(1, n) /\ UNCHANGED sends
         \/ /\ Failed
            /\ SendReturns(WSAError)
            /\ UNCHANGED wire
  /\ UNCHANGED <<connVars, peerRead, handedOver, waitFailed, readerVars, peerVars,
                 loopVars>>

(* One turn of the loop of sendBlock: select, which fails only if there is *)
(* no socket, then send.  An error of send ends the loop, but it is told   *)
(* to a variable of an inner block: the size is returned all the same.     *)
WinSend ==
  /\ sender.at = "send"
  /\ LET size == IF sender.index = 0 THEN sender.sizes[1]
                 ELSE UpTo(sender.sizes, sender.index) - sender.written
     IN  \/ /\ sender.left = 0 \/ conn = "broken"
            /\ SendBlockReturns(size)
            /\ UNCHANGED wire
         \/ \E n \in 1 .. sender.left :
              /\ n <= Room
              /\ wire' = wire \o Bytes(sender.from, n)
              /\ sender' = [sender EXCEPT !.from = @ + n, !.left = @ - n]
              /\ UNCHANGED sends
         \/ /\ sender.left > 0 /\ conn = "none"
            /\ SendBlockReturns(-1)
            /\ UNCHANGED wire
  /\ UNCHANGED <<connVars, peerRead, handedOver, waitFailed, readerVars, peerVars,
                 loopVars>>
-----------------------------------------------------------------------------
(* Receiving.                                                              *)

(* One turn of the loop of receiveComplete.  An orderly close is an error, *)
(* and what has been read is gone.                                         *)
WinReceiveMore ==
  /\ reader.at = "recv"
  /\ LET r == Recv(reader.left)
         got == reader.got \o r.data
     IN  /\ Take(r)
         /\ \/ /\ r.result > 0 /\ r.result < reader.left
               /\ reader' = [at |-> "recv", left |-> reader.left - r.result, got |-> got]
               /\ UNCHANGED <<returned, dropped>>
            \/ /\ r.result = reader.left
               /\ ReceiveReturns(got)
               /\ UNCHANGED dropped
            \/ /\ r.result = -1 /\ WouldBlock
               /\ reader' = [reader EXCEPT !.at = "poll"]
               /\ UNCHANGED <<returned, dropped>>
            \/ /\ r.result = 0 \/ (r.result = -1 /\ ~WouldBlock)
               /\ ReceiveFails(got)
               /\ UNCHANGED returned
  /\ UNCHANGED <<connVars, outVars, stale, peerSent, peerClosed, loopVars>>
-----------------------------------------------------------------------------
WinConnectionSteps == WinConnect \/ WinDisconnect \/ ConnectLate \/ Break

WinSendingSteps ==
  \/ \E blocks \in Messages : WinSendBlocks(blocks)
  \/ \E size \in Wishes : UserSendBlock(size)
  \/ WSASend \/ NextRest \/ WinSend \/ PeerReads

WinReceivingSteps ==
  \/ \E wish \in Wishes : Receive(wish) \/ ReceiveComplete(wish)
  \/ WinReceiveMore \/ WaitToReceive
  \/ PeerSends \/ PeerCloses

WinHandlerSteps ==
  \/ \E handler \in {"none", "read"} : WinSetDataCb(handler)
  \/ WinHandleEdge
  \/ \E wish \in Wishes : HandlerReads(wish)

WinEchoSteps ==
  \/ WinSetDataCb("echo") \/ WinHandleEdge
  \/ \E wish \in Wishes : HandlerReads(wish)
  \/ EchoSent \/ WinSend \/ PeerReads \/ PeerSends \/ PeerCloses

WinSocketNext ==
  \/ WinConnectionSteps
  \/ WinSendingSteps \/ WinReceivingSteps \/ WinHandlerSteps \/ WinEchoSteps

WinSocketSpec == SocketInit /\ [][WinSocketNext]_socketVars
=============================================================================
