------------------------------- MODULE Socket -------------------------------
(***************************************************************************)
(* hbm::communication::SocketNonblocking on Linux, with the BufferedReader *)
(* in it: hbm/communication/linux/socketnonblocking.cpp, bufferedreader.cpp*)
(*                                                                         *)
(* One socket, the TCP connections it has one after the other, and a peer  *)
(* that reads, writes, closes and breaks as it likes.  One thread sends;   *)
(* what arrives is read by a thread that calls receive or receiveComplete, *)
(* or, once a callback is set, by the event loop.  What is done between    *)
(* two system calls is one step.                                           *)
(*                                                                         *)
(* A byte that is sent is a number: the bytes of all calls are counted     *)
(* through.  A byte that arrives is <<c, n>>, the n-th of the c-th         *)
(* connection.                                                             *)
(***************************************************************************)
EXTENDS Integers, Sequences, SequencesExt, FiniteSets

CONSTANTS
  Messages,     \* what sendBlocks is called with: sequences of sizes
  Wishes,       \* sizes receive and receiveComplete are called with
  ReadBuffer,   \* the size of BufferedReader::m_buffer
  SendSpace,    \* bytes the kernel takes before the peer has read any
  SizeLimit,    \* 2^w, where size_t has w bits
  MaxSends,     \* bound: calls that send
  MaxArriving,  \* bound: bytes of the peer, on all connections
  MaxConnects   \* bound: calls of connect

ASSUME SocketAssumption ==
  /\ Messages \subseteq Seq(Nat)
  /\ Wishes \subseteq Nat \ {0}
  /\ {ReadBuffer, SendSpace} \subseteq Nat \ {0}
  /\ {SizeLimit, MaxSends, MaxArriving, MaxConnects} \subseteq Nat

VARIABLES
  conn,         \* the descriptor and its connection
  connects,     \* calls of connect so far: names the connection
  wire,         \* bytes the kernel has taken, of the present connection
  peerRead,     \* how many of them the peer has read
  arrived,      \* bytes waiting in the kernel
  peerSent,     \* bytes the peer has sent on the present connection
  peerClosed,   \* the peer will send no more
  buffer,       \* BufferedReader: m_buffer up to m_fillLevel
  alreadyRead,  \* BufferedReader: m_alreadyRead
  dataHandler,  \* m_dataHandler, as far as it is registered
  edge,         \* the event loop has an event for the descriptor
  sender,       \* the call that sends
  sends,        \* calls that sent: size, what they returned, connection
  handedOver,   \* bytes handed to them, on all connections
  waitFailed,   \* a poll of the present connection returned an error
  reader,       \* the call that receives
  returned,     \* bytes returned to the caller since connect
  dropped,      \* bytes read and then dropped, since connect
  stale         \* what the buffer held when connect was called

connVars == <<conn, connects>>
outVars == <<wire, peerRead, sender, sends, handedOver, waitFailed>>
readerVars == <<buffer, alreadyRead, reader, returned, dropped, stale>>
peerVars == <<arrived, peerSent, peerClosed>>
loopVars == <<dataHandler, edge>>
socketVars == <<connVars, outVars, readerVars, peerVars, loopVars>>

(* "none": m_fd is -1.  "connecting": connect gave up waiting, the kernel  *)
(* did not.  "broken": no connection, or one that was reset.               *)
ConnStates == {"none", "broken", "connecting", "open"}

(* What a callback does: read once (clientReceive of the test), or read    *)
(* and send back until there is nothing left (serverEcho).                 *)
Handlers == {"none", "read", "echo"}

NotSending == [at |-> "idle"]
NotReading == [at |-> "idle"]

SocketInit ==
  /\ conn = "none"
  /\ connects = 0
  /\ wire = <<>>
  /\ peerRead = 0
  /\ arrived = <<>>
  /\ peerSent = 0
  /\ peerClosed = FALSE
  /\ buffer = <<>>
  /\ alreadyRead = 0
  /\ dataHandler = "none"
  /\ edge = FALSE
  /\ sender = NotSending
  /\ sends = <<>>
  /\ handedOver = 0
  /\ waitFailed = FALSE
  /\ reader = NotReading
  /\ returned = <<>>
  /\ dropped = <<>>
  /\ stale = <<>>
-----------------------------------------------------------------------------
(* The life of the connection.                                             *)

(* BufferedReader::recv hands this out before it asks the kernel again.    *)
LeftOver == SubSeq(buffer, alreadyRead + 1, Len(buffer))

(* No descriptor, no connection and the descriptor open all the same, no   *)
(* connection in time, or one.  The buffer of the reader stays as it is.   *)
Connect(outcome) ==
  /\ connects < MaxConnects
  /\ sender = NotSending /\ reader = NotReading
  /\ connects' = connects + 1
  /\ conn' = outcome
  /\ wire' = <<>>
  /\ peerRead' = 0
  /\ arrived' = <<>>
  /\ peerSent' = 0
  /\ peerClosed' = FALSE
  /\ waitFailed' = FALSE
  /\ returned' = <<>>
  /\ dropped' = <<>>
  /\ stale' = LeftOver
  /\ dataHandler' = "none"
  /\ edge' = FALSE
  /\ UNCHANGED <<buffer, alreadyRead, sender, sends, handedOver, reader>>

(* The connection that connect did not wait for is there after all.        *)
ConnectLate ==
  /\ conn = "connecting"
  /\ conn' = "open"
  /\ UNCHANGED <<connects, outVars, readerVars, peerVars, loopVars>>

(* Called between the calls that send and receive, by whatever thread: one *)
(* that comes in the middle of a call (as a test has it, while the loop's  *)
(* thread may be in the handler) is left out, since the number of the      *)
(* closed descriptor may be another one's by the next call of the kernel.  *)
Disconnect ==
  /\ conn # "none"
  /\ sender = NotSending /\ reader = NotReading
  /\ conn' = "none"
  /\ dataHandler' = "none"
  /\ edge' = FALSE
  /\ UNCHANGED <<connects, outVars, readerVars, peerVars>>

(* addEvent, after which the loop calls the handler once unasked, or       *)
(* eraseEvent.  An echo is set on a connection that is not in use yet.     *)
SetDataCb(handler) ==
  /\ conn # "none" /\ handler # dataHandler
  /\ reader = NotReading
  /\ handler = "echo" =>
       sends = <<>> /\ sender = NotSending /\ returned \o dropped \o LeftOver = <<>>
  /\ dataHandler' = handler
  /\ edge' = (handler # "none")
  /\ UNCHANGED <<connVars, outVars, readerVars, peerVars>>
-----------------------------------------------------------------------------
(* The peer, and the kernel.                                               *)

PeerSends ==
  /\ conn = "open" /\ ~peerClosed
  /\ peerSent < MaxArriving
  /\ peerSent' = peerSent + 1
  /\ arrived' = Append(arrived, <<connects, peerSent + 1>>)
  /\ edge' = (dataHandler # "none")
  /\ UNCHANGED <<connVars, outVars, readerVars, peerClosed, dataHandler>>

PeerCloses ==
  /\ conn = "open" /\ ~peerClosed
  /\ peerClosed' = TRUE
  /\ edge' = (dataHandler # "none")
  /\ UNCHANGED <<connVars, outVars, readerVars, arrived, peerSent, dataHandler>>

PeerReads ==
  /\ conn = "open" /\ peerRead < Len(wire)
  /\ peerRead' = Len(wire)
  /\ UNCHANGED <<connVars, wire, sender, sends, handedOver, waitFailed,
                 readerVars, peerVars, loopVars>>

(* Reset by the peer, or given up by keep-alive.                           *)
Break ==
  /\ conn \in {"open", "connecting"}
  /\ conn' = "broken"
  /\ arrived' = <<>>
  /\ edge' = (dataHandler # "none")
  /\ UNCHANGED <<connects, outVars, readerVars, peerSent, peerClosed,
                 dataHandler>>

Room == IF conn = "open" THEN SendSpace - (Len(wire) - peerRead) ELSE 0

Failed == conn \in {"none", "broken"}

-----------------------------------------------------------------------------
(* Sending.                                                                *)

Bytes(from, n) == [i \in 1 .. n |-> from + i]

(* The sum of the first n sizes.                                           *)
UpTo(sizes, n) ==
  LET sum[i \in 0 .. Len(sizes)] == IF i = 0 THEN 0 ELSE sum[i - 1] + sizes[i]
  IN  sum[n]

Total(sizes) == UpTo(sizes, Len(sizes))

(* No more than ssize_t can count: writev refuses it.                      *)
ASSUME SizesAssumption == \A blocks \in Messages : Total(blocks) < SizeLimit \div 2

(* -1 as size_t, and back.                                                 *)
AsSize(n) == n % SizeLimit
AsSigned(n) == IF n >= SizeLimit \div 2 THEN n - SizeLimit ELSE n

(* The call has returned.                                                  *)
SendReturns(value) ==
  /\ sends' = Append(sends, [first |-> sender.first, size |-> Total(sender.sizes),
                             result |-> value, on |-> connects])
  /\ sender' = NotSending

(* The vector begins with six entries of length 0.                         *)
Iovs(blocks) == <<0, 0, 0, 0, 0, 0>> \o blocks

MaySend == sender = NotSending /\ Len(sends) < MaxSends /\ connects > 0

SendBlocks(blocks) ==
  /\ MaySend /\ dataHandler # "echo"
  /\ sender' = [at |-> "writev", first |-> handedOver, sizes |-> Iovs(blocks)]
  /\ handedOver' = handedOver + Total(blocks)
  /\ UNCHANGED <<connVars, wire, peerRead, sends, waitFailed, readerVars,
                 peerVars, loopVars>>

(* sendBlock called by itself: a single block.  It asks for no writev.     *)
SendBlock(size) ==
  /\ MaySend
  /\ sender' = [at |-> "send", first |-> handedOver, sizes |-> <<size>>,
                from |-> handedOver, left |-> size, index |-> 0, written |-> 0]
  /\ handedOver' = handedOver + size
  /\ UNCHANGED <<wire, peerRead, sends, waitFailed>>

(* After writev: the blocks from the index-th on are still to be looked at.*)
RestFrom(index, written) ==
  [at |-> "rest", first |-> sender.first, sizes |-> sender.sizes,
   index |-> index, written |-> written]

WriteV ==
  /\ sender.at = "writev"
  /\ LET complete == Total(sender.sizes)
     IN  \/ \* all, or less when there is less room
            /\ conn = "open"
            /\ \E n \in 0 .. complete :
                 /\ n <= Room /\ (n = 0 <=> complete = 0)
                 /\ wire' = wire \o Bytes(sender.first, n)
                 /\ IF n = complete
                    THEN SendReturns(n)
                    ELSE sender' = RestFrom(1, n) /\ UNCHANGED sends
         \/ \* EAGAIN, EINTR: goes on, with -1 as the number of bytes written
            /\ conn \in {"open", "connecting"} /\ complete > 0
            /\ sender' = RestFrom(1, AsSize(-1))
            /\ UNCHANGED <<wire, sends>>
         \/ /\ Failed
            /\ SendReturns(-1)
            /\ UNCHANGED wire
  /\ UNCHANGED <<connVars, peerRead, handedOver, waitFailed, readerVars, peerVars,
                 loopVars>>

(* Faulty: what is left of a block begins where the block begins.          *)
NextRestFromStart ==
  LET open == {i \in sender.index .. Len(sender.sizes) :
                 sender.written < UpTo(sender.sizes, i)}
      i == CHOOSE i \in open : \A j \in open : i <= j
      remaining == UpTo(sender.sizes, i) - sender.written
  IN  /\ sender.at = "rest"
      /\ IF open = {}
         THEN SendReturns(AsSigned(sender.written))
         ELSE /\ sender' = [at |-> "send", first |-> sender.first,
                            sizes |-> sender.sizes, index |-> i,
                            written |-> sender.written, left |-> remaining,
                            from |-> sender.first + UpTo(sender.sizes, i - 1)]
              /\ UNCHANGED sends
      /\ UNCHANGED <<connVars, wire, peerRead, handedOver, waitFailed, readerVars,
                     peerVars, loopVars>>

(* The next block that was not sent completely: from bytesRemaining before *)
(* its end.                                                                *)
NextRest ==
  LET open == {i \in sender.index .. Len(sender.sizes) :
                 sender.written < UpTo(sender.sizes, i)}
      i == CHOOSE i \in open : \A j \in open : i <= j
      remaining == UpTo(sender.sizes, i) - sender.written
      start == sender.sizes[i] - remaining
  IN  /\ sender.at = "rest"
      /\ IF open = {}
         THEN SendReturns(AsSigned(sender.written))
         ELSE /\ sender' = [at |-> "send", first |-> sender.first,
                            sizes |-> sender.sizes, index |-> i,
                            written |-> sender.written, left |-> remaining,
                            from |-> sender.first + UpTo(sender.sizes, i - 1) + start]
              /\ UNCHANGED sends
      /\ UNCHANGED <<connVars, wire, peerRead, handedOver, waitFailed, readerVars,
                     peerVars, loopVars>>

(* The end of sendBlock, called by sendBlocks or by itself.  The size of   *)
(* the block is what has been written since.                               *)
SendBlockReturns(value) ==
  IF sender.index = 0 \/ value <= 0
  THEN SendReturns(value)
  ELSE sender' = RestFrom(sender.index + 1, sender.written + value) /\ UNCHANGED sends

(* One turn of the loop of sendBlock.                                      *)
Send ==
  /\ sender.at = "send"
  /\ LET size == IF sender.index = 0 THEN sender.sizes[1]
                 ELSE UpTo(sender.sizes, sender.index) - sender.written
     IN  \/ /\ sender.left = 0
            /\ SendBlockReturns(size)
            /\ UNCHANGED wire
         \/ \E n \in 1 .. sender.left :
              /\ n <= Room
              /\ wire' = wire \o Bytes(sender.from, n)
              /\ sender' = [sender EXCEPT !.from = @ + n, !.left = @ - n]
              /\ UNCHANGED sends
         \/ /\ sender.left > 0 /\ Room = 0 /\ ~Failed
            /\ sender' = [sender EXCEPT !.at = "poll"]
            /\ UNCHANGED <<wire, sends>>
         \/ /\ sender.left > 0 /\ Failed
            /\ SendBlockReturns(-1)
            /\ UNCHANGED wire
  /\ UNCHANGED <<connVars, peerRead, handedOver, waitFailed, readerVars, peerVars,
                 loopVars>>

(* poll without a time-out, until there is room, or an error to be met by  *)
(* send.                                                                   *)
WaitToSend ==
  /\ sender.at = "poll"
  /\ Room > 0 \/ Failed
  /\ sender' = [sender EXCEPT !.at = "send"]
  /\ UNCHANGED <<connVars, wire, peerRead, sends, handedOver, waitFailed, readerVars,
                 peerVars, loopVars>>

(* poll fails for another reason than a signal.                            *)
WaitToSendFails ==
  /\ sender.at = "poll"
  /\ SendBlockReturns(-1)
  /\ waitFailed' = TRUE
  /\ UNCHANGED <<connVars, wire, peerRead, handedOver, readerVars, peerVars,
                 loopVars>>
-----------------------------------------------------------------------------
(* Receiving.                                                              *)

(* Faulty: what is left in the buffer is overwritten.                      *)
RecvAfresh(wish) ==
  LET chunk == SubSeq(arrived, 1, Min({Len(arrived), ReadBuffer}))
      n == Min({Len(chunk), wish})
  IN  IF conn = "open" /\ arrived # <<>>
      THEN [result |-> n, data |-> SubSeq(chunk, 1, n), buffer |-> chunk,
            read |-> n, arrived |-> SubSeq(arrived, Len(chunk) + 1, Len(arrived))]
      ELSE [result |-> IF conn = "open" /\ peerClosed THEN 0 ELSE -1, data |-> <<>>,
            buffer |-> buffer, read |-> alreadyRead, arrived |-> arrived]

(* BufferedReader::recv: from the buffer, even if that is less than was    *)
(* asked for; else as much as the kernel has and the buffer can hold.      *)
Recv(wish) ==
  LET chunk == SubSeq(arrived, 1, Min({Len(arrived), ReadBuffer}))
      source == IF LeftOver # <<>> THEN LeftOver ELSE chunk
      n == Min({Len(source), wish})
      data == SubSeq(source, 1, n)
  IN  IF LeftOver # <<>>
      THEN [result |-> n, data |-> data, buffer |-> buffer,
            read |-> alreadyRead + n, arrived |-> arrived]
      ELSE IF conn = "open" /\ arrived # <<>>
      THEN [result |-> n, data |-> data, buffer |-> chunk, read |-> n,
            arrived |-> SubSeq(arrived, Len(chunk) + 1, Len(arrived))]
      ELSE [result |-> IF conn = "open" /\ peerClosed THEN 0 ELSE -1, data |-> <<>>,
            buffer |-> buffer, read |-> alreadyRead, arrived |-> arrived]

(* recv would return EAGAIN: there is nothing, and something may come.     *)
WouldBlock == LeftOver = <<>> /\ arrived = <<>> /\ ~peerClosed /\ ~Failed

(* Faulty: what was handed over stays in the buffer.                       *)
TakeAgain(r) == buffer' = r.buffer /\ arrived' = r.arrived /\ UNCHANGED alreadyRead

(* What a recv leaves behind.                                              *)
Take(r) ==
  /\ buffer' = r.buffer
  /\ alreadyRead' = r.read
  /\ arrived' = r.arrived

(* receive.  A call that returns no data changes nothing.                  *)
Receive(wish) ==
  /\ reader = NotReading /\ dataHandler = "none" /\ connects > 0
  /\ LET r == Recv(wish)
     IN  /\ Take(r)
         /\ returned' = returned \o r.data
         /\ r.data # <<>>
  /\ UNCHANGED <<connVars, outVars, reader, dropped, stale, peerSent, peerClosed,
                 loopVars>>

ReceiveComplete(wish) ==
  /\ reader = NotReading /\ dataHandler = "none" /\ conn # "none"
  /\ reader' = [at |-> "recv", left |-> wish, got |-> <<>>]
  /\ UNCHANGED <<connVars, outVars, buffer, alreadyRead, returned, dropped, stale,
                 peerVars, loopVars>>

(* receiveComplete returns what it has read, or -1 and nothing.            *)
ReceiveReturns(got) ==
  /\ reader' = NotReading
  /\ returned' = returned \o got

ReceiveFails(got) ==
  /\ reader' = NotReading
  /\ dropped' = dropped \o got

(* One turn of its loop.                                                   *)
ReceiveMore ==
  /\ reader.at = "recv"
  /\ LET r == Recv(reader.left)
         got == reader.got \o r.data
     IN  /\ Take(r)
         /\ \/ /\ r.result > 0 /\ r.result < reader.left
               /\ reader' = [at |-> "recv", left |-> reader.left - r.result, got |-> got]
               /\ UNCHANGED <<returned, dropped>>
            \/ /\ r.result = reader.left \/ r.result = 0
               /\ ReceiveReturns(got)
               /\ UNCHANGED dropped
            \/ /\ r.result = -1 /\ WouldBlock
               /\ reader' = [reader EXCEPT !.at = "poll"]
               /\ UNCHANGED <<returned, dropped>>
            \/ /\ r.result = -1 /\ ~WouldBlock
               /\ ReceiveFails(got)
               /\ UNCHANGED returned
  /\ UNCHANGED <<connVars, outVars, stale, peerSent, peerClosed, loopVars>>

(* poll: there is something to be read or to be told, or it has taken too  *)
(* long.                                                                   *)
WaitToReceive ==
  /\ reader.at = "poll"
  /\ \/ /\ ~WouldBlock
        /\ reader' = [reader EXCEPT !.at = "recv"]
        /\ UNCHANGED <<returned, dropped>>
     \/ /\ WouldBlock
        /\ ReceiveFails(reader.got)
        /\ UNCHANGED returned
  /\ UNCHANGED <<connVars, outVars, buffer, alreadyRead, stale, peerVars, loopVars>>
-----------------------------------------------------------------------------
(* process, called by the event loop.                                      *)

HandleEdge ==
  /\ edge /\ reader = NotReading /\ dataHandler # "none"
  /\ edge' = FALSE
  /\ reader' = [at |-> "handler"]
  /\ UNCHANGED <<connVars, outVars, buffer, alreadyRead, returned, dropped, stale,
                 peerVars, dataHandler>>

(* The handler calls receive; the loop calls it again unless it returned   *)
(* 0 or less.                                                              *)
HandlerReads(wish) ==
  /\ reader.at = "handler"
  /\ LET r == Recv(wish)
     IN  /\ Take(r)
         /\ returned' = returned \o r.data
         /\ IF r.result > 0 /\ dataHandler = "echo"
            THEN reader' = [at |-> "echo"] /\ SendBlock(r.result)
            ELSE /\ reader' = IF r.result > 0 THEN reader ELSE NotReading
                 /\ UNCHANGED outVars
  /\ UNCHANGED <<connVars, dropped, stale, peerSent, peerClosed, loopVars>>

(* The echo goes on reading unless sendBlock failed.                       *)
EchoSent ==
  /\ reader.at = "echo" /\ sender = NotSending
  /\ reader' = IF Last(sends).result > 0 THEN [at |-> "handler"] ELSE NotReading
  /\ UNCHANGED <<connVars, outVars, buffer, alreadyRead, returned, dropped, stale,
                 peerVars, loopVars>>

UserSendBlock(size) ==
  /\ dataHandler # "echo"
  /\ SendBlock(size)
  /\ UNCHANGED <<connVars, readerVars, peerVars, loopVars>>

ConnectionSteps ==
  \/ \E outcome \in ConnStates : Connect(outcome)
  \/ ConnectLate \/ Disconnect \/ Break

SendingSteps ==
  \/ \E blocks \in Messages : SendBlocks(blocks)
  \/ \E size \in Wishes : UserSendBlock(size)
  \/ WriteV \/ NextRest \/ Send \/ WaitToSend \/ WaitToSendFails \/ PeerReads

ReceivingSteps ==
  \/ \E wish \in Wishes : Receive(wish) \/ ReceiveComplete(wish)
  \/ ReceiveMore \/ WaitToReceive
  \/ PeerSends \/ PeerCloses

HandlerSteps ==
  \/ \E handler \in {"none", "read"} : SetDataCb(handler)
  \/ HandleEdge
  \/ \E wish \in Wishes : HandlerReads(wish)

EchoSteps ==
  \/ SetDataCb("echo") \/ HandleEdge
  \/ \E wish \in Wishes : HandlerReads(wish)
  \/ EchoSent \/ Send \/ WaitToSend \/ WaitToSendFails
  \/ PeerReads \/ PeerSends \/ PeerCloses

SocketNext == ConnectionSteps \/ SendingSteps \/ ReceivingSteps \/ HandlerSteps \/ EchoSteps

SocketSpec == SocketInit /\ [][SocketNext]_socketVars
-----------------------------------------------------------------------------
(* Properties.                                                             *)

SocketTypeOK ==
  /\ conn \in ConnStates
  /\ connects \in 0 .. MaxConnects
  /\ sender.at \in {"idle", "writev", "rest", "send", "poll"}
  /\ reader.at \in {"idle", "recv", "poll", "handler", "echo"}
  /\ alreadyRead \in 0 .. Len(buffer)
  /\ Len(buffer) <= ReadBuffer
  /\ peerRead \in 0 .. Len(wire)
  /\ peerSent \in 0 .. MaxArriving
  /\ dataHandler \in Handlers
  /\ {edge, peerClosed, waitFailed} \subseteq BOOLEAN

(* The calls of the present connection that said they sent everything.    *)
InFull == {i \in DOMAIN sends : sends[i].on = connects /\ sends[i].result = sends[i].size}

WholeBytes == UNION {sends[i].first + 1 .. sends[i].first + sends[i].size : i \in InFull}

Ascending(s) == \A i, j \in DOMAIN s : i < j => s[i] < s[j]

(* While the connection stands, the peer gets each call's bytes in whole   *)
(* and in order, or, if the call returned -1, none of them: however writev *)
(* and send cut the blocks up, a failed call leaves no torn message.       *)
(* (sendBlocks, sendBlock.)                                                *)
WholeMessages ==
  conn = "open" /\ ~waitFailed =>
    /\ Ascending(wire)
    /\ IF sender = NotSending
       THEN ToSet(wire) = WholeBytes
       ELSE \E n \in 0 .. Total(sender.sizes) :
              ToSet(wire) = WholeBytes \cup (sender.first + 1 .. sender.first + n)

FromPeer == {<<connects, i>> : i \in 1 .. peerSent}

InHand == IF reader.at \in {"recv", "poll"} THEN reader.got ELSE <<>>

Got == returned \o InHand \o LeftOver

(* What the callers are owed: what is there to be read since connect, but  *)
(* for what a receiveComplete that failed had already read.                *)
Owed == (ToSet(stale) \cup FromPeer) \ ToSet(dropped)

Before(a, b) == a[1] < b[1] \/ (a[1] = b[1] /\ a[2] < b[2])

InOrder(s) == \A i, j \in DOMAIN s : i < j => Before(s[i], s[j])

(* What the callers get is what the peer sent, each byte once and in order:*)
(* missing are only those a receiveComplete that failed had already read,  *)
(* and before them come those the buffer kept from the connection before.  *)
(* When the connection is gone they may miss the end, but nothing before.  *)
(* (BufferedReader::recv, receiveComplete.)                                *)
NothingSkipped ==
  IF conn = "open"
  THEN InOrder(Got \o arrived) /\ ToSet(Got \o arrived) = Owed
  ELSE /\ InOrder(Got) /\ ToSet(Got) \subseteq Owed
       /\ \A a \in Owed, b \in ToSet(Got) : Before(a, b) => a \in ToSet(Got)

(* Reading keeps the promise of ByteStream: what receiveComplete has in    *)
(* hand, what the buffer holds and what the kernel has are to come.        *)
Outstanding == (InHand \o LeftOver) \o arrived

Stream == INSTANCE ByteStream WITH
  connection <- connects,
  sent       <- peerSent,
  toCome     <- Outstanding,
  taken      <- returned,
  lost       <- dropped

StreamSpec == Stream!Spec

(* What a peer sends to the echo of the test comes back in the end, if the *)
(* peer reads: no byte stays in the buffer, in the kernel or half sent.    *)
(* (HandlerReads, sendBlock under the event loop's edges.)                 *)
EchoComes ==
  (conn = "open" /\ dataHandler = "echo" /\ Len(wire) < peerSent)
    ~> (Len(wire) >= peerSent \/ conn # "open" \/ dataHandler # "echo" \/ waitFailed)
=============================================================================
