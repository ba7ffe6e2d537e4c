-------------------------------- MODULE Parts --------------------------------
(***************************************************************************)
(* The parts that do not meet, side by side: the socket (Linux and         *)
(* Windows), the descriptors, the event loop of Windows, the sending by    *)
(* multicast, and the algorithms.  A behaviour is one of a single part,    *)
(* the other parts stay as they began.                                     *)
(***************************************************************************)
EXTENDS WindowsSocket, Descriptors, WindowsLoop, MulticastSend

CONSTANT
  Inputs     \* what the algorithms are given

VARIABLES
  part,      \* the part of this behaviour
  input      \* of an algorithm: which one, and what it is given

otherVars == <<part, input>>

partVars == <<socketVars, descriptorVars, winVars, sendVars, otherVars>>
-----------------------------------------------------------------------------
NoInput == <<"none", 0>>

LinuxParts == {"send", "receive", "echo"}
WindowsParts == {"winSend", "winReceive", "winEcho"}

(* The objects of a part of the Windows loop.                              *)
WinPartHandles ==
  [p \in {"winNotifiers", "winTimers", "winSockets"} |->
     CASE p = "winNotifiers" -> WinNotifiers \cup {WinTable}
       [] p = "winTimers" -> WinTimers
       [] p = "winSockets" -> WinSockets \cup {WinTable}]

PartsInit ==
  /\ SocketInit /\ DescriptorsInit /\ WinInit /\ SendInit
  /\ input = NoInput
  /\ \/ /\ part = "multicast"
        /\ LET other == CHOOSE a \in Interfaces : TRUE   \* the adapters are alike
           IN  /\ machine[other] \in {"bare", "new"}
               /\ \A a \in Interfaces \ {other} : machine[a] = "old"
     \/ /\ part \in LinuxParts \cup WindowsParts \cup DOMAIN WinPartHandles
                    \cup {"receiver", "server", "algorithm"}
        /\ \A a \in Interfaces : machine[a] = "gone"

SocketPart ==
  /\ \/ part \in LinuxParts /\ ConnectionSteps
     \/ part \in WindowsParts /\ WinConnectionSteps
     \/ part = "send" /\ SendingSteps
     \/ part = "receive" /\ (ReceivingSteps \/ HandlerSteps)
     \/ part = "echo" /\ EchoSteps
     \/ part = "winSend" /\ WinSendingSteps
     \/ part = "winReceive" /\ (WinReceivingSteps \/ WinHandlerSteps)
     \/ part = "winEcho" /\ WinEchoSteps
  /\ UNCHANGED <<descriptorVars, winVars, sendVars, otherVars>>

DescriptorsPart ==
  /\ \/ part = "receiver" /\ (ReceiverSteps \/ OtherSteps)
     \/ part = "server" /\ (ServerSteps \/ ClientSteps \/ OtherSteps)
  /\ UNCHANGED <<socketVars, winVars, sendVars, otherVars>>

WinLoopPart ==
  /\ part \in DOMAIN WinPartHandles
  /\ \/ WinObjectSteps(WinPartHandles[part]) \/ WinSourceSteps(WinPartHandles[part])
     \/ WinLoopSteps
  /\ UNCHANGED <<socketVars, descriptorVars, sendVars, otherVars>>

MulticastPart ==
  /\ part = "multicast" /\ SendNext
  /\ UNCHANGED <<socketVars, descriptorVars, winVars, otherVars>>

AlgorithmPart ==
  /\ part = "algorithm" /\ input = NoInput
  /\ input' \in Inputs
  /\ UNCHANGED <<socketVars, descriptorVars, winVars, sendVars, part>>

PartsNext ==
  SocketPart \/ DescriptorsPart \/ WinLoopPart \/ MulticastPart \/ AlgorithmPart
-----------------------------------------------------------------------------
(* Fairness for the echo: the thread of the event loop goes on, in the     *)
(* handler and in the sendBlock it calls, and the peer reads.              *)
LoopThread ==
  \/ part = "echo" /\ (HandleEdge \/ Send \/ WaitToSend)
  \/ part = "winEcho" /\ (WinHandleEdge \/ WinSend)
  \/ EchoSent
  \/ \E wish \in Wishes : HandlerReads(wish)

EchoGoesOn(action) ==
  /\ part \in {"echo", "winEcho"} /\ action
  /\ UNCHANGED <<descriptorVars, winVars, sendVars, otherVars>>

EchoFairness ==
  WF_partVars(EchoGoesOn(LoopThread)) /\ WF_partVars(EchoGoesOn(PeerReads))

PartsSpec == PartsInit /\ [][PartsNext]_partVars /\ EchoFairness

(* Each part's variables keep to their types.                              *)
PartsTypeOK == SocketTypeOK /\ DescriptorsTypeOK /\ WinTypeOK /\ SendTypeOK
=============================================================================
