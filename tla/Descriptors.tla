----------------------------- MODULE Descriptors -----------------------------
(***************************************************************************)
(* Who opens, watches and closes which descriptor on Linux.                *)
(*                                                                         *)
(* A receiver (devscanclient/lib/receiver.cpp) with its netlink socket     *)
(* (hbm/communication/linux/netlink.cpp) and its multicast server          *)
(* (hbm/communication/multicastserver.cpp), a TCP server and its worker    *)
(* (linux/tcpserver.cpp), a client socket (linux/socketnonblocking.cpp)    *)
(* and, in the same process, other code that opens and closes files.       *)
(*                                                                         *)
(* The kernel hands out the lowest free number.  One call of open or close *)
(* and what goes with it is one step.  Changes the event loop is told of   *)
(* are carried out at once: it carries them out in order, and EventLoop is *)
(* about when.                                                             *)
(***************************************************************************)
EXTENDS Integers, FiniteSets

CONSTANTS
  MaxFd,       \* numbers the kernel can hand out: 0 .. MaxFd
  MaxStarts,   \* bound: starts of the receiver
  MaxOpens     \* bound: times the other objects open something

ASSUME DescriptorsAssumption ==
  /\ {MaxFd, MaxStarts, MaxOpens} \subseteq Nat

Fds == 0 .. MaxFd

(* The objects that hold a descriptor: m_fd of the netlink, m_SendSocket   *)
(* and m_ReceiveSocket of the multicast server, m_listeningSocket of the   *)
(* TCP server, m_fd of a worker and of a client, a file of other code.     *)
Holders == {"netlink", "send", "receive", "listen", "worker", "client", "other"}

(* Those that keep the number of what they closed.                         *)
Keepers == {"netlink", "listen"}

Free == [by |-> "nobody", blocking |-> FALSE]

VARIABLES
  files,      \* number -> who opened it, and whether calls on it block
  held,       \* holder -> the number it has noted, or -1
  watched,    \* number -> whose handler the event loop calls for it
  stage,      \* of the receiver
  starts,     \* of the receiver
  opens,      \* of the other objects
  stops,      \* keeper -> calls of its stop, up to two
  forgot,     \* holders that lost an open descriptor
  stray       \* who first closed what another object had opened

descriptorVars == <<files, held, watched, stage, starts, opens, stops, forgot, stray>>

Stages == {"absent", "ready", "receive", "netlink", "running", "expired",
           "scanner", "stopped", "destroy", "gone"}

DescriptorsInit ==
  /\ files = [n \in Fds |-> Free]
  /\ held = [h \in Holders |-> -1]
  /\ watched = [n \in Fds |-> "nobody"]
  /\ stage = "absent"
  /\ starts = 0
  /\ opens = 0
  /\ stops = [h \in Keepers |-> 0]
  /\ forgot = {}
  /\ stray = {}
-----------------------------------------------------------------------------
(* The kernel.                                                             *)

Unused == {n \in Fds : files[n] = Free}
LowestFd(n) == \A m \in Unused : n <= m

(* h opens a descriptor and notes its number, whatever it had noted before.*)
(* The socket the multicast server sends by is the only one that blocks.   *)
Open(h) ==
  /\ \E n \in Unused :
       /\ LowestFd(n)
       /\ files' = [files EXCEPT ![n] = [by |-> h, blocking |-> (h = "send")]]
       /\ held' = [held EXCEPT ![h] = n]
  /\ forgot' = IF held[h] # -1 /\ files[held[h]].by = h THEN forgot \cup {h}
               ELSE forgot

(* h opens a descriptor, and its number is lost with h.                    *)
OpenAndForget(h) ==
  /\ \E n \in Unused :
       LowestFd(n) /\ files' = [files EXCEPT ![n] = [by |-> h, blocking |-> FALSE]]
  /\ forgot' = forgot \cup {h}

OpensOne == opens < MaxOpens /\ opens' = opens + 1

(* No descriptor, and -1 is noted.                                         *)
OpenFails(h) ==
  /\ held' = [held EXCEPT ![h] = -1]
  /\ forgot' = IF held[h] # -1 /\ files[held[h]].by = h THEN forgot \cup {h}
               ELSE forgot
  /\ UNCHANGED files

(* close of what the holders hs have noted.  The kernel takes a closed     *)
(* file out of epoll, too.                                                 *)
CloseAll(hs) ==
  LET open == {n \in {held[h] : h \in hs} : n # -1 /\ files[n] # Free}
  IN  /\ files' = [n \in Fds |-> IF n \in open THEN Free ELSE files[n]]
      /\ stray' = IF stray = {} /\ \E n \in open : files[n].by \notin hs THEN hs
                  ELSE stray

(* A stop that was called, counted up to two.                              *)
Stopped(h) == stops' = [stops EXCEPT ![h] = IF @ < 2 THEN @ + 1 ELSE 2]

(* addEvent: an open file is watched, and what was said of the number      *)
(* before is replaced.  EPOLL_CTL_ADD fails for any other.                 *)
Watch(h) ==
  watched' = IF held'[h] # -1 /\ files'[held'[h]] # Free
             THEN [watched EXCEPT ![held'[h]] = h]
             ELSE watched

(* eraseEvent(number), and what close takes out by itself.                 *)
Unwatch(number) ==
  watched' = [n \in Fds |-> IF n = number \/ files'[n] = Free THEN "nobody"
                            ELSE watched[n]]
-----------------------------------------------------------------------------
(* The receiver.                                                           *)

(* Its members are constructed: the netlink socket is opened and bound.    *)
NetlinkConstruct ==
  /\ stage = "absent"
  /\ Open("netlink")
  /\ stage' = "ready"
  /\ UNCHANGED <<watched, starts, opens, stops, stray>>

(* The address getpid is taken, by another receiver of the process: the    *)
(* constructor throws, and no destructor closes the socket.                *)
NetlinkConstructThrows ==
  /\ stage = "absent"
  /\ OpensOne
  /\ OpenAndForget("netlink")
  /\ UNCHANGED <<held, watched, stage, starts, stops, stray>>

(* start, start_for: first MulticastServer::start, setupSendSocket.  What  *)
(* that returns is not looked at.  If socket or setsockopt fails, the      *)
(* socket to receive by is not set up.                                     *)
StartSend ==
  /\ stage \in {"ready", "stopped", "expired"} /\ starts < MaxStarts
  /\ starts' = starts + 1
  /\ \/ Open("send") /\ stage' \in {"receive", "netlink"}
     \/ OpenFails("send") /\ stage' = "netlink"
  /\ UNCHANGED <<watched, opens, stops, stray>>

(* setupReceiveSocket.  It may fail before there is a socket, or leave one *)
(* open that is not watched.                                               *)
StartReceive ==
  /\ stage = "receive"
  /\ stage' = "netlink"
  /\ \/ Open("receive") /\ (Watch("receive") \/ UNCHANGED watched)
     \/ OpenFails("receive") /\ UNCHANGED watched
     \/ UNCHANGED <<files, held, forgot, watched>>
  /\ UNCHANGED <<starts, opens, stops, stray>>

(* Netlink::start, and the event loop is entered.                          *)
StartNetlink ==
  /\ stage = "netlink"
  /\ stage' = "running"
  /\ UNCHANGED <<files, held, starts, opens, stops, forgot, stray>>
  /\ Watch("netlink")

(* start_for returns because the time is over: nothing is stopped.         *)
ExecuteForReturns ==
  /\ stage = "running"
  /\ stage' = "expired"
  /\ UNCHANGED <<files, held, watched, starts, opens, stops, forgot, stray>>

(* Netlink::stop closes and keeps the number.                              *)
NetlinkStop ==
  /\ CloseAll({"netlink"})
  /\ Unwatch(held["netlink"])
  /\ Stopped("netlink")
  /\ UNCHANGED <<held, starts, opens, forgot>>

StopNetlink ==
  /\ stage \in {"ready", "running", "expired", "stopped"}
  /\ NetlinkStop
  /\ stage' = "scanner"

(* Faulty: the socket to send by is left open.                             *)
MulticastStopReceiving ==
  /\ CloseAll({"receive"})
  /\ held' = [held EXCEPT !["send"] = -1, !["receive"] = -1]
  /\ Unwatch(held["receive"])
  /\ UNCHANGED <<starts, opens, stops, forgot>>

(* MulticastServer::stop closes what it holds, and forgets the numbers.    *)
MulticastStop ==
  /\ CloseAll({"send", "receive"})
  /\ held' = [held EXCEPT !["send"] = -1, !["receive"] = -1]
  /\ Unwatch(held["receive"])
  /\ UNCHANGED <<starts, opens, stops, forgot>>

StopScanner ==
  /\ stage = "scanner"
  /\ MulticastStop
  /\ stage' = "stopped"

(* The members are destroyed, the netlink before the multicast server;     *)
(* both destructors stop once more.                                        *)
DestroyNetlink ==
  /\ stage \in {"ready", "expired", "stopped"}
  /\ NetlinkStop
  /\ stage' = "destroy"

DestroyScanner ==
  /\ stage = "destroy"
  /\ MulticastStop
  /\ stage' = "gone"
-----------------------------------------------------------------------------
(* The other objects.                                                      *)

(* TcpServer::start.  If bind or listen fails the socket stays open.       *)
ListenStart ==
  /\ OpensOne
  /\ \/ Open("listen") /\ (Watch("listen") \/ UNCHANGED watched)
     \/ OpenFails("listen") /\ UNCHANGED watched
  /\ UNCHANGED <<stage, starts, stops, stray>>

(* TcpServer::stop, also called by its destructor, keeps the number.       *)
ListenStop ==
  /\ CloseAll({"listen"})
  /\ Unwatch(held["listen"])
  /\ Stopped("listen")
  /\ UNCHANGED <<held, stage, starts, opens, forgot>>

(* acceptClient: a worker, which the callback keeps and watches or lets    *)
(* go.  If its constructor throws, nobody closes the descriptor.           *)
Accept ==
  /\ OpensOne /\ held["worker"] = -1 /\ Unused # {}
  /\ \E n \in Fds : files[n].by = "listen" /\ watched[n] = "listen"
  /\ \/ Open("worker") /\ (Watch("worker") \/ UNCHANGED watched)
     \/ /\ UNCHANGED <<files, held, forgot, watched>>
     \/ OpenAndForget("worker") /\ UNCHANGED <<held, watched>>
  /\ UNCHANGED <<stage, starts, stops, stray>>

(* SocketNonblocking::connect, after which the descriptor is open however  *)
(* it ended, unless there was none; and setDataCb.                         *)
ClientConnect ==
  /\ OpensOne
  /\ \/ Open("client") /\ (Watch("client") \/ UNCHANGED watched)
     \/ OpenFails("client") /\ UNCHANGED watched
  /\ UNCHANGED <<stage, starts, stops, stray>>

(* Faulty: the number is kept.                                             *)
DisconnectKeeping(h) ==
  /\ CloseAll({h})
  /\ Unwatch(held[h])
  /\ UNCHANGED <<held, stage, starts, opens, stops, forgot>>

(* SocketNonblocking::disconnect, also called by the destructor.           *)
DisconnectSocket(h) ==
  /\ CloseAll({h})
  /\ Unwatch(held[h])
  /\ held' = [held EXCEPT ![h] = -1]
  /\ UNCHANGED <<stage, starts, opens, stops, forgot>>

(* Code that opens a file and closes it.                                   *)
OtherOpens ==
  /\ OpensOne /\ held["other"] = -1
  /\ Open("other")
  /\ UNCHANGED <<watched, stage, starts, stops, stray>>

OtherCloses ==
  /\ held["other"] # -1
  /\ DisconnectSocket("other")
-----------------------------------------------------------------------------
ReceiverSteps ==
  \/ NetlinkConstruct \/ NetlinkConstructThrows
  \/ StartSend \/ StartReceive \/ StartNetlink \/ ExecuteForReturns
  \/ StopNetlink \/ StopScanner \/ DestroyNetlink \/ DestroyScanner

ServerSteps == ListenStart \/ ListenStop \/ Accept \/ DisconnectSocket("worker")

ClientSteps == ClientConnect \/ DisconnectSocket("client")

OtherSteps == OtherOpens \/ OtherCloses

DescriptorsNext == ReceiverSteps \/ ServerSteps \/ ClientSteps \/ OtherSteps

DescriptorsSpec == DescriptorsInit /\ [][DescriptorsNext]_descriptorVars
-----------------------------------------------------------------------------
(* Properties.                                                             *)

DescriptorsTypeOK ==
  /\ files \in [Fds -> [by : Holders \cup {"nobody"}, blocking : BOOLEAN]]
  /\ held \in [Holders -> Fds \cup {-1}]
  /\ watched \in [Fds -> Holders \cup {"nobody"}]
  /\ stage \in Stages
  /\ starts \in 0 .. MaxStarts /\ opens \in 0 .. MaxOpens
  /\ stops \in [Keepers -> 0 .. 2]
  /\ forgot \subseteq Holders
  /\ stray \subseteq Holders

(* Nothing is leaked: an open descriptor is in the hands of the object     *)
(* that opened it, through every start that fails half way, unless that    *)
(* object was started or connected again before it was stopped, or its     *)
(* constructor threw.  (MulticastServer::start and stop, connect.)         *)
NoneLeaked ==
  \A n \in Fds : files[n] # Free /\ files[n].by \notin forgot
                   => held[files[n].by] = n

(* No object closes a descriptor that another one opened, unless one of    *)
(* those that keep the number was stopped a second time before.            *)
(* (MulticastServer::stop, SocketNonblocking::disconnect.)                 *)
ClosesOwn ==
  stray # {} => \E k \in Keepers : stray = {k} /\ stops[k] = 2

(* What the event loop watches for the receiver does not block.            *)
(* (EventLoop::addEvent, called by MulticastServer::start and              *)
(* Netlink::start.)                                                        *)
ObservedNonBlocking ==
  \A n \in Fds : watched[n] # "nobody" => ~files[n].blocking
=============================================================================
