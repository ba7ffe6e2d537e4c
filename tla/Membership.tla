----------------------------- MODULE Membership -----------------------------
(***************************************************************************)
(* By which adapters a Receiver hears announcements.                       *)
(*   devscanclient/lib/receiver.cpp       hbm::devscan::Receiver           *)
(*   hbm/communication/linux/netlink.cpp  hbm::Netlink                     *)
(*   hbm/communication/netadapterlist.cpp NetadapterList                   *)
(*   hbm/communication/multicastserver.cpp MulticastServer                 *)
(*                                                                         *)
(* Adapters get up and down and have IPv4 addresses come and go.  The      *)
(* receiver keeps a list of them, is told of every change by a queue of    *)
(* the kernel, looks the adapters up anew, and joins the multicast group   *)
(* by those it finds new.  The group is joined and left by address, while  *)
(* membership is one of the socket and an adapter.                         *)
(***************************************************************************)
EXTENDS Integers, Sequences, SequencesExt

CONSTANTS
  Adapters,     \* adapters, loopback not being one
  Addresses,    \* IPv4 addresses
  None,         \* no adapter of that index in the list; nothing to be joined
  MaxChanges,   \* bound: changes of the adapters
  MaxStarts     \* bound: calls of start

ASSUME ConstantsAssumption ==
  /\ None \notin Addresses \cup Seq(Addresses)
                  \cup [adapter : Adapters, address : Addresses]
  /\ {MaxChanges, MaxStarts} \subseteq Nat

VARIABLES
  calm,      \* the network is no faster than the receiver: see MayChange
  up,        \* adapters with IFF_UP
  addrs,     \* adapter -> its IPv4 addresses, in the kernel's order
  changes,   \* changes so far
  queue,     \* the netlink socket
  phase,     \* of the receiver: "new", "enumerated", "bound" or "running"
  starts,    \* calls of start so far
  list,      \* m_adapters: adapter -> addresses, or None
  todo,      \* [adapter, address] about to be joined, or None
  members,   \* memberships of the receive socket: [adapter, address]
  gap        \* a change nobody was told of, and the list not updated since

kernelVars == <<up, addrs, changes>>
vars == <<calm, kernelVars, queue, phase, starts, list, todo, members, gap>>

Event == [what : {"NEWADDR", "DELADDR"}, adapter : Adapters,
          address : Addresses]
           \cup [what : {"LINK"}, adapter : Adapters, address : {None}]

Init ==
  /\ calm \in BOOLEAN
  /\ up \in SUBSET Adapters
  /\ addrs = [a \in Adapters |-> <<>>]
  /\ changes = 0
  /\ queue = <<>>
  /\ phase = "new"
  /\ starts = 0
  /\ list = [a \in Adapters |-> None]
  /\ todo = None
  /\ members = {}
  /\ gap = FALSE
------------------------------------------------------------------------------
(* The kernel.                                                             *)

Owner(x) == {a \in Adapters : x \in ToSet(addrs[a])}

Joined(a) == \E m \in members : m.adapter = a

(* A calm network does not change an adapter while the receiver has still  *)
(* to deal with an earlier change of it, or is being constructed.          *)
MayChange(a) ==
  /\ changes < MaxChanges
  /\ calm => /\ phase \in {"new", "running"}
             /\ todo = None
             /\ \A i \in DOMAIN queue : queue[i].adapter # a

(* The netlink socket hears from when it is bound.                         *)
Tell(event) ==
  /\ changes' = changes + 1
  /\ queue' = IF phase \in {"bound", "running"} THEN Append(queue, event)
              ELSE queue
  /\ gap' = (gap \/ phase = "enumerated")
  /\ UNCHANGED <<calm, phase, starts, list, todo, members>>

(* In a calm network an adapter is up before it is given an address.       *)
AddAddress(a, x) ==
  /\ MayChange(a) /\ Owner(x) = {}
  /\ calm => a \in up
  /\ addrs' = [addrs EXCEPT ![a] = Append(@, x)]
  /\ Tell([what |-> "NEWADDR", adapter |-> a, address |-> x])
  /\ UNCHANGED up

DelAddress(a, x) ==
  /\ MayChange(a)
  /\ \E i \in DOMAIN addrs[a] :
       addrs[a][i] = x /\ addrs' = [addrs EXCEPT ![a] = RemoveAt(@, i)]
  /\ Tell([what |-> "DELADDR", adapter |-> a, address |-> x])
  /\ UNCHANGED up

(* A link that goes down keeps its addresses and its memberships.          *)
SwitchLink(a) ==
  /\ MayChange(a)
  /\ calm /\ a \in up /\ addrs[a] # <<>> => phase = "running"
  /\ up' = IF a \in up THEN up \ {a} ELSE up \cup {a}
  /\ Tell([what |-> "LINK", adapter |-> a, address |-> None])
  /\ UNCHANGED addrs

(* IP_ADD_MEMBERSHIP: the adapter with this address, if any, is joined,    *)
(* unless it is already.                                                   *)
Join(ms, x) ==
  ms \cup {[adapter |-> a, address |-> x] :
             a \in {b \in Owner(x) : \A m \in ms : m.adapter # b}}

(* IP_DROP_MEMBERSHIP: the adapter with this address is left; without one, *)
(* one that was joined by this address.                                    *)
Leave(ms, x) ==
  LET its == {m \in ms : m.adapter \in Owner(x)}
      old == {m \in ms : m.address = x}
  IN IF Owner(x) # {} THEN ms \ its
     ELSE IF old = {} THEN ms
     ELSE ms \ {CHOOSE m \in old : TRUE}
------------------------------------------------------------------------------
(* The list of adapters.                                                   *)

(* enumAdapters: those that are up, with all their addresses               *)
Snapshot == [a \in Adapters |-> IF a \in up THEN addrs[a] ELSE None]

Listed(l, a) == l[a] # None

Fronts == {Head(list[a]) : a \in {b \in Adapters : list[b] \notin {None, <<>>}}}

(* addAllInterfaces and dropAllInterfaces: the first address of each       *)
AddAll(ms) == ms \cup UNION {Join(ms, x) : x \in Fronts}
DropAll(ms) == {m \in ms : \A x \in Fronts : m \in Leave(ms, x)}
------------------------------------------------------------------------------
(* The receiver.                                                           *)

(* The constructor: the list is made before the netlink socket.            *)
Enumerate ==
  /\ phase = "new"
  /\ phase' = "enumerated"
  /\ list' = Snapshot
  /\ UNCHANGED <<calm, kernelVars, queue, starts, todo, members, gap>>

BindNetlink ==
  /\ phase = "enumerated"
  /\ phase' = "bound"
  /\ UNCHANGED <<calm, kernelVars, queue, starts, list, todo, members, gap>>

(* start: a new socket, and the event COMPLETE of Netlink::start.  The     *)
(* list is taken as it is.  The receiver may be started again when the     *)
(* time of start_for is over.                                              *)
Start ==
  /\ phase \in {"bound", "running"} /\ todo = None /\ starts < MaxStarts
  /\ calm => queue = <<>> /\ \A a \in Adapters \ up : addrs[a] = <<>>
  /\ phase' = "running"
  /\ starts' = starts + 1
  /\ members' = AddAll(DropAll({}))
  /\ UNCHANGED <<calm, kernelVars, queue, list, todo, gap>>

(* Faulty: the list is looked up anew for addresses only.                  *)
UpdateForAddresses(event) ==
  list' = IF event.what = "LINK" THEN list ELSE Snapshot

(* update, for each message of the netlink socket                          *)
Update(event) == list' = Snapshot

(* Faulty: whatever the message is about.                                  *)
IsNewAny(event, l) ==
  Listed(l, event.adapter) /\ Len(l[event.adapter]) = 1

(* Faulty: each new address is announced but the first.                    *)
IsNewLate(event, l) ==
  /\ Listed(l, event.adapter)
  /\ event.what = "NEWADDR" /\ Len(l[event.adapter]) > 1

(* Is netLinkEventHandler told NEW?  For the first address of an adapter,  *)
(* and, as it is, when it has lost the last one.                           *)
IsNew(event, l) ==
  /\ Listed(l, event.adapter)
  /\ \/ event.what = "NEWADDR" /\ Len(l[event.adapter]) = 1
     \/ event.what = "DELADDR" /\ l[event.adapter] = <<>>

(* processNetlinkTelegram, up to the call of netLinkEventHandler           *)
Process ==
  /\ phase = "running" /\ todo = None /\ queue # <<>>
  /\ queue' = Tail(queue)
  /\ Update(Head(queue))
  /\ gap' = FALSE
  /\ todo' = IF IsNew(Head(queue), list')
               THEN [adapter |-> Head(queue).adapter,
                     address |-> Head(queue).address]
               ELSE None
  /\ UNCHANGED <<calm, kernelVars, phase, starts, members>>

(* netLinkEventHandler: addInterface, and nobody looks at the result       *)
NewInterface ==
  /\ todo # None
  /\ members' = IF Listed(list, todo.adapter)
                  THEN Join(members, todo.address) ELSE members
  /\ todo' = None
  /\ UNCHANGED <<calm, kernelVars, queue, phase, starts, list, gap>>

Network ==
  \E a \in Adapters :
    \/ \E x \in Addresses : AddAddress(a, x) \/ DelAddress(a, x)
    \/ SwitchLink(a)

Receiver == Enumerate \/ BindNetlink \/ Start \/ Process \/ NewInterface

Next == Network \/ Receiver

Spec == Init /\ [][Next]_vars
------------------------------------------------------------------------------
(* Properties.                                                             *)

AddressLists == Seq(Addresses)

TypeOK ==
  /\ calm \in BOOLEAN
  /\ up \subseteq Adapters
  /\ addrs \in [Adapters -> AddressLists]
  /\ changes \in 0 .. MaxChanges
  /\ queue \in Seq(Event)
  /\ phase \in {"new", "enumerated", "bound", "running"}
  /\ starts \in 0 .. MaxStarts
  /\ \A a \in Adapters : list[a] = None \/ list[a] \in AddressLists
  /\ todo = None \/ todo \in [adapter : Adapters, address : Addresses]
  /\ members \subseteq [adapter : Adapters, address : Addresses]
  /\ gap \in BOOLEAN

(* With no message left in the netlink socket, the list is what the kernel *)
(* has, no matter how many changes one message stands for.                 *)
ListFollows ==
  phase \in {"bound", "running"} /\ queue = <<>> /\ ~gap => list = Snapshot

(* With everything dealt with, the receiver hears by every adapter that is *)
(* up and has an address.                                                  *)
AllJoined ==
  phase = "running" /\ queue = <<>> /\ todo = None =>
    \A a \in up : addrs[a] # <<>> => Joined(a)

(* So it does in a calm network: where every adapter is up before it is    *)
(* given an address and whenever the receiver is started, and no change    *)
(* follows another before that is dealt with.                              *)
Heard == calm => AllJoined

(* The comment of processNetlinkTelegram (netlink.h:47-49): netadapter     *)
(* list and multicast server are adapted when events are processed, in any *)
(* network that tells of its changes.                                      *)
AlwaysHeard == ~gap => AllJoined
==============================================================================
