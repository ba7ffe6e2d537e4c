---------------------------- MODULE MulticastSend ----------------------------
(***************************************************************************)
(* Sending by multicast (hbm/communication/multicastserver.cpp): by all    *)
(* adapters, by one that is given with its index, or by an address.        *)
(*                                                                         *)
(* One socket serves all calls.  To send by an adapter its address is made *)
(* the socket's interface, then the time to live is set, then the datagram *)
(* is sent: three calls of the kernel, between which another thread may    *)
(* make its own.  Meanwhile the machine's addresses change, and with       *)
(* Netlink's update the list of adapters.                                  *)
(***************************************************************************)
EXTENDS Integers, FiniteSets, FiniteSetsExt

CONSTANTS
  Interfaces,     \* interface indices
  Senders,      \* threads that send
  Ttls,         \* times to live asked for; the kernel takes up to 255
  MaxCalls,     \* bound: calls
  MaxMoves      \* bound: changes of an adapter's addresses

ASSUME MulticastSendAssumption ==
  /\ Interfaces \subseteq Nat \ {0} /\ IsFiniteSet(Interfaces)
  /\ Ttls \subseteq Nat /\ {MaxCalls, MaxMoves} \subseteq Nat

ErrSuccess == 0
ErrNoSuccess == -1
ErrInvalidAdapter == -2
ErrInvalidIpAddress == -3
ErrAdapterIsDown == -5

(* What an adapter is: not there, without an address, or its first         *)
(* address.  Two adapters may have the same one, and one that leaves an    *)
(* adapter may come to another.                                            *)
Presence == {"gone", "bare", "old", "new"}

Addresses == {"old", "new"}

VARIABLES
  machine,    \* adapter -> Presence, in the kernel
  listed,     \* adapter -> Presence, in m_adapters
  interface,  \* of the socket: <<adapter, address>>
  ttlSet,     \* of the socket
  calls,      \* sender -> its call
  left,       \* sender -> the <<adapter, ttl>> its datagrams left by
  mixed,      \* senders whose call met that of another one, or left by an
              \* adapter with the address of the one it was meant for
  made, moves \* calls and changes so far

sendVars == <<machine, listed, interface, ttlSet, calls, left, mixed, made, moves>>

Nobody == <<0, "old">>

(* A call: the step it is at, the adapters and addresses to do, the one it *)
(* is doing, what it will return, and what it was asked to do.             *)
Call(at, todo, ttl, result) ==
  [at |-> at, todo |-> todo, now |-> Nobody, ttl |-> ttl, result |-> result, asked |-> todo]

NoCall == Call("none", {}, 0, ErrSuccess)

SendInit ==
  /\ machine \in [Interfaces -> Presence] /\ listed = machine
  /\ \A a, b \in Interfaces : a # b => machine[a] # machine[b] \/ machine[a] \notin Addresses
  /\ interface = Nobody /\ ttlSet = 1
  /\ calls = [c \in Senders |-> NoCall]
  /\ left = [c \in Senders |-> {}]
  /\ mixed = {}
  /\ made = 0 /\ moves = 0

Busy(c) == calls[c].at \notin {"none", "told"}
-----------------------------------------------------------------------------
(* The machine and the list.                                               *)

Move(a) ==
  /\ moves < MaxMoves /\ moves' = moves + 1
  /\ \E p \in Presence \ {machine[a]} : machine' = [machine EXCEPT ![a] = p]
  /\ UNCHANGED <<listed, interface, ttlSet, calls, left, mixed, made>>

(* NetadapterList::update; get and getAdapterByInterfaceIndex return       *)
(* copies.                                                                 *)
UpdateList ==
  /\ listed # machine /\ listed' = machine
  /\ UNCHANGED <<machine, interface, ttlSet, calls, left, mixed, made, moves>>
-----------------------------------------------------------------------------
(* Calls.                                                                  *)

Begin(c, call) ==
  /\ ~Busy(c) /\ made < MaxCalls
  /\ made' = made + 1
  /\ calls' = [calls EXCEPT ![c] = call]
  /\ left' = [left EXCEPT ![c] = {}]
  /\ mixed' = IF \E d \in Senders \ {c} : Busy(d)
              THEN mixed \cup {c} \cup {d \in Senders : Busy(d)} ELSE mixed \ {c}
  /\ UNCHANGED <<machine, listed, interface, ttlSet, moves>>

(* send: a copy of the list is gone through.  Nothing is sent of no bytes; *)
(* a length without data is an error of each adapter.                      *)
SendByAll(c, ttl, data) ==
  LET todo == {<<a, listed[a]>> : a \in {b \in Interfaces : listed[b] # "gone"}}
  IN  Begin(c, CASE data = "bytes" -> Call("next", todo, ttl, ErrSuccess)
                 [] data = "empty" -> Call("told", {}, ttl, ErrSuccess)
                 [] data = "null" ->
                      Call("told", {}, ttl, IF todo = {} THEN ErrSuccess ELSE ErrNoSuccess))

(* sendOverInterface by an index, with a string or with a pointer.  No     *)
(* data is no error whatever the length, nor is a string without bytes;    *)
(* a pointer to no bytes is, if the adapter is gone.  The two return       *)
(* different errors for an adapter without an address.                     *)
SendByIndex(c, a, ttl, form, data) ==
  Begin(c, CASE data = "null" \/ (form = "string" /\ data = "empty") ->
                  Call("told", {}, ttl, ErrSuccess)
             [] data = "empty" ->
                  Call("told", {}, ttl, IF listed[a] = "gone" THEN ErrInvalidAdapter ELSE ErrSuccess)
             [] data = "bytes" /\ listed[a] \in {"gone", "bare"} ->
                  Call("told", {}, ttl, IF form = "string" /\ listed[a] = "bare"
                                        THEN ErrAdapterIsDown ELSE ErrInvalidAdapter)
             [] OTHER -> Call("next", {<<a, listed[a]>>}, ttl, ErrSuccess))

(* sendOverInterfaceByAddress, of the adapter meant; the text need not be  *)
(* an address.  A length without data is an error first; a pointer to no   *)
(* bytes is sent as an empty datagram, a string without bytes is not.      *)
SendByAddress(c, a, address, ttl, form, data, valid) ==
  Begin(c, CASE data = "null" -> Call("told", {}, ttl, ErrNoSuccess)
             [] data = "empty" /\ form = "string" -> Call("told", {}, ttl, ErrSuccess)
             [] OTHER -> IF valid THEN Call("next", {<<a, address>>}, ttl, ErrSuccess)
                         ELSE Call("told", {}, ttl, ErrInvalidIpAddress))
-----------------------------------------------------------------------------
(* The steps of a call.                                                    *)

At(c, at) == calls[c].at = at
Lowest(t, todo) == \A u \in todo : t[1] <= u[1]

Goes(c, call) ==
  /\ calls' = [calls EXCEPT ![c] = call]
  /\ UNCHANGED <<machine, listed, mixed, made, moves>>

(* Faulty: the last adapter decides.                                       *)
LastDecides(c, error) ==
  Goes(c, [calls[c] EXCEPT !.at = "next", !.result = error])

(* One adapter is done.  The last error is what the call returns.          *)
AdapterDone(c, error) ==
  Goes(c, [calls[c] EXCEPT !.at = "next", !.result = IF error = ErrSuccess THEN @ ELSE error])

(* The adapter of the copy that is next by its index, if one is left.      *)
NextAdapter(c) ==
  /\ At(c, "next")
  /\ \/ calls[c].todo = {} /\ Goes(c, [calls[c] EXCEPT !.at = "told"])
     \/ \E t \in calls[c].todo :
          /\ Lowest(t, calls[c].todo)
          /\ Goes(c, [calls[c] EXCEPT !.at = "interface", !.todo = @ \ {t}, !.now = t])
  /\ UNCHANGED <<interface, ttlSet, left>>

(* The kernel takes an adapter that has the address, another than meant.   *)
Strays(c, call) ==
  /\ calls' = [calls EXCEPT ![c] = call]
  /\ mixed' = mixed \cup {c}
  /\ UNCHANGED <<machine, listed, made, moves>>

(* IP_MULTICAST_IF: there has to be an address, and some adapter of the    *)
(* machine has to have it.                                                 *)
SetInterface(c) ==
  LET t == calls[c].now
      set == [calls[c] EXCEPT !.at = "ttl"]
      having == {b \in Interfaces : t[2] \in Addresses /\ machine[b] = t[2]}
  IN  /\ At(c, "interface")
      /\ \/ t[1] \in having /\ interface' = t /\ Goes(c, set)
         \/ \E b \in having \ {t[1]} : interface' = <<b, t[2]>> /\ Strays(c, set)
         \/ having = {} /\ UNCHANGED interface /\ AdapterDone(c, ErrInvalidAdapter)
      /\ UNCHANGED <<ttlSet, left>>

(* IP_MULTICAST_TTL.                                                       *)
SetTtl(c) ==
  /\ At(c, "ttl")
  /\ IF calls[c].ttl <= 255
     THEN ttlSet' = calls[c].ttl /\ Goes(c, [calls[c] EXCEPT !.at = "sendto"])
     ELSE UNCHANGED ttlSet /\ AdapterDone(c, ErrNoSuccess)
  /\ UNCHANGED <<interface, left>>

(* sendto: by whatever interface the socket has now.                       *)
SendTo(c) ==
  /\ At(c, "sendto")
  /\ \/ /\ left' = [left EXCEPT ![c] = @ \cup {<<interface, ttlSet>>}]
        /\ AdapterDone(c, ErrSuccess)
     \/ UNCHANGED left /\ AdapterDone(c, ErrNoSuccess)
  /\ UNCHANGED <<interface, ttlSet>>
-----------------------------------------------------------------------------
Calling(c) ==
  \E ttl \in Ttls, form \in {"string", "pointer"}, data \in {"bytes", "empty", "null"} :
    /\ form = "string" => data # "null"
    /\ \/ SendByAll(c, ttl, data)
       \/ \E a \in Interfaces :
            \/ SendByIndex(c, a, ttl, form, data)
            \/ \E address \in Addresses, valid \in BOOLEAN :
                 SendByAddress(c, a, address, ttl, form, data, valid)

SendNext ==
  \/ UpdateList \/ \E a \in Interfaces : Move(a)
  \/ \E c \in Senders : \/ Calling(c)
                        \/ NextAdapter(c) \/ SetInterface(c) \/ SetTtl(c) \/ SendTo(c)

SendSpec == SendInit /\ [][SendNext]_sendVars
-----------------------------------------------------------------------------
(* Properties.                                                             *)

Outlets == (Interfaces \X Presence) \cup {Nobody}

SendTypeOK ==
  /\ machine \in [Interfaces -> Presence] /\ listed \in [Interfaces -> Presence]
  /\ interface \in Outlets /\ ttlSet \in Ttls \cup {1}
  /\ calls \in [Senders -> [at : {"none", "next", "interface", "ttl", "sendto", "told"},
                            todo : SUBSET (Interfaces \X Presence), now : Outlets,
                            ttl : Ttls \cup {0}, result : {0, -1, -2, -3, -5},
                            asked : SUBSET (Interfaces \X Presence)]]
  /\ left \in [Senders -> SUBSET (Outlets \X (Ttls \cup {1}))]
  /\ mixed \subseteq Senders

(* A call tells what it did: it returns success if, and only if, one       *)
(* datagram left by each adapter of the list it copied, by the address the *)
(* copy has and with the time to live that was asked for; and whatever it  *)
(* returns, nothing left otherwise.  A call that met another thread's may  *)
(* have used the other one's interface, and one whose address another      *)
(* adapter has may have used that one: neither is told.                    *)
(* (MulticastServer::send, sendOverInterface, sendOverInterfaceByAddress.) *)
SentAsTold ==
  \A c \in Senders \ mixed :
    LET asked == {<<t, calls[c].ttl>> : t \in calls[c].asked}
    IN  /\ left[c] \subseteq asked
        /\ At(c, "told") /\ calls[c].asked # {} =>
             (calls[c].result = ErrSuccess <=> left[c] = asked)
=============================================================================
