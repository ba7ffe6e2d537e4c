--------------------------- MODULE MembershipProofs ---------------------------
(***************************************************************************)
(* Theorems about Membership, for any adapters and addresses and any       *)
(* number of changes and starts: the list follows the kernel, no adapter   *)
(* is lost but by a start, and in a calm network every adapter is heard.   *)
(***************************************************************************)
EXTENDS Membership, SequenceTheorems, TLAPS

(* The actions of the kernel, for one adapter.                             *)
Changed(a) ==
  \/ \E x \in Addresses : AddAddress(a, x) \/ DelAddress(a, x)
  \/ SwitchLink(a)

(* What the kernel tells of a change comes behind what it has told before. *)
LEMMA ToldOf ==
  ASSUME NEW a \in Adapters, Changed(a)
  PROVE  /\ MayChange(a)
         /\ \E event \in Event : event.adapter = a /\ Tell(event)
<1>1. CASE \E x \in Addresses : AddAddress(a, x)
  <2>1. PICK x \in Addresses : AddAddress(a, x)
    BY <1>1
  <2> DEFINE e == [what |-> "NEWADDR", adapter |-> a, address |-> x]
  <2>2. e \in Event /\ e.adapter = a
    BY DEF Event
  <2> QED BY <2>1, <2>2 DEF AddAddress
<1>2. CASE \E x \in Addresses : DelAddress(a, x)
  <2>1. PICK x \in Addresses : DelAddress(a, x)
    BY <1>2
  <2> DEFINE e == [what |-> "DELADDR", adapter |-> a, address |-> x]
  <2>2. e \in Event /\ e.adapter = a
    BY DEF Event
  <2> QED BY <2>1, <2>2 DEF DelAddress
<1>3. CASE SwitchLink(a)
  <2> DEFINE e == [what |-> "LINK", adapter |-> a, address |-> None]
  <2>1. e \in Event /\ e.adapter = a
    BY DEF Event
  <2> QED BY <1>3, <2>1 DEF SwitchLink
<1> QED BY <1>1, <1>2, <1>3 DEF Changed

LEMMA NetworkChanges == Network => \E a \in Adapters : Changed(a)
BY DEF Network, Changed
------------------------------------------------------------------------------
(* Types.                                                                  *)

LEMMA Removed ==
  ASSUME NEW S, NEW s \in Seq(S), NEW i \in DOMAIN s
  PROVE  RemoveAt(s, i) \in Seq(S)
<1>1. i \in 1 .. Len(s) /\ Len(s) \in Nat
  OBVIOUS
<1>2. SubSeq(s, 1, i - 1) \in Seq(S) /\ SubSeq(s, i + 1, Len(s)) \in Seq(S)
  BY <1>1, SubSeqProperties
<1> QED BY <1>2, ConcatProperties DEF RemoveAt

LEMMA SnapshotType ==
  ASSUME addrs \in [Adapters -> AddressLists], NEW a \in Adapters
  PROVE  Snapshot[a] = None \/ Snapshot[a] \in AddressLists
BY DEF Snapshot

LEMMA JoinType ==
  ASSUME NEW ms \in SUBSET [adapter : Adapters, address : Addresses], NEW x \in Addresses
  PROVE  Join(ms, x) \subseteq [adapter : Adapters, address : Addresses]
BY DEF Join, Owner

(* Every first address of the list is an address.                          *)
LEMMA FrontsType == TypeOK => Fronts \subseteq Addresses
BY HeadTailProperties DEF TypeOK, Fronts, AddressLists

LEMMA TypeInit == Init => TypeOK
<1> SUFFICES ASSUME Init PROVE TypeOK
  OBVIOUS
<1>1. addrs \in [Adapters -> AddressLists] /\ queue \in Seq(Event)
  BY DEF Init, AddressLists
<1>2. calm \in BOOLEAN /\ gap \in BOOLEAN
  BY DEF Init
<1>3. changes \in 0 .. MaxChanges /\ starts \in 0 .. MaxStarts
  BY ConstantsAssumption DEF Init
<1> QED BY <1>1, <1>2, <1>3 DEF Init, TypeOK

LEMMA TypeStep == TypeOK /\ [Next]_vars => TypeOK'
<1> SUFFICES ASSUME TypeOK, [Next]_vars
             PROVE  TypeOK'
  OBVIOUS
<1> DEFINE Members == [adapter : Adapters, address : Addresses]
<1> USE DEF kernelVars
<1>1. CASE Network
  <2>1. PICK a \in Adapters : Changed(a)
    BY <1>1, NetworkChanges
  <2>2. PICK event \in Event : Tell(event)
    BY <2>1, ToldOf
  <2>3. changes' \in 0 .. MaxChanges
    <3>1. changes < MaxChanges /\ changes' = changes + 1
      BY <2>1, <2>2, ToldOf DEF MayChange, Tell
    <3> QED BY <3>1, ConstantsAssumption DEF TypeOK
  <2>4. queue' \in Seq(Event)
    BY <2>2, AppendProperties DEF Tell, TypeOK
  <2>5. gap' \in BOOLEAN
    BY <2>2 DEF Tell, TypeOK
  <2>6. up' \subseteq Adapters
    BY <2>1 DEF Changed, AddAddress, DelAddress, SwitchLink, TypeOK
  <2>7. addrs' \in [Adapters -> AddressLists]
    <3>1. CASE \E x \in Addresses : AddAddress(a, x)
      BY <3>1, AppendProperties DEF AddAddress, TypeOK, AddressLists
    <3>2. CASE \E x \in Addresses : DelAddress(a, x)
      BY <3>2, Removed DEF DelAddress, TypeOK, AddressLists
    <3>3. CASE SwitchLink(a)
      BY <3>3 DEF SwitchLink, TypeOK
    <3> QED BY <2>1, <3>1, <3>2, <3>3 DEF Changed
  <2> QED BY <2>2, <2>3, <2>4, <2>5, <2>6, <2>7 DEF Tell, TypeOK
<1>2. CASE Enumerate
  <2>1. \A a \in Adapters : list'[a] = None \/ list'[a] \in AddressLists
    BY <1>2, SnapshotType DEF Enumerate, TypeOK
  <2> QED BY <1>2, <2>1 DEF Enumerate, TypeOK
<1>3. CASE BindNetlink
  BY <1>3 DEF BindNetlink, TypeOK
<1>4. CASE Start
  <2>1. \A x \in Fronts : Join({}, x) \subseteq Members
    BY FrontsType, JoinType
  <2>2. DropAll({}) = {}
    BY DEF DropAll
  <2>3. members' \subseteq Members
    BY <1>4, <2>1, <2>2 DEF Start, AddAll
  <2>4. starts' \in 0 .. MaxStarts
    BY <1>4, ConstantsAssumption DEF Start, TypeOK
  <2> QED BY <1>4, <2>3, <2>4 DEF Start, TypeOK
<1>5. CASE Process
  <2>1. Head(queue) \in Event /\ queue' \in Seq(Event)
    BY <1>5, HeadTailProperties DEF Process, TypeOK
  <2>2. \A a \in Adapters : list'[a] = None \/ list'[a] \in AddressLists
    BY <1>5, SnapshotType DEF Process, Update, TypeOK
  <2>3. todo' = None \/ todo' \in Members
    <3>1. CASE Head(queue).what = "LINK"
      BY <1>5, <3>1 DEF Process, IsNew
    <3>2. CASE Head(queue).what # "LINK"
      <4>1. Head(queue).adapter \in Adapters /\ Head(queue).address \in Addresses
        BY <2>1, <3>2 DEF Event
      <4> QED BY <1>5, <4>1 DEF Process
    <3> QED BY <3>1, <3>2
  <2>4. gap' \in BOOLEAN
    BY <1>5 DEF Process
  <2> QED BY <1>5, <2>1, <2>2, <2>3, <2>4 DEF Process, TypeOK
<1>6. CASE NewInterface
  <2>1. todo \in Members
    BY <1>6 DEF NewInterface, TypeOK
  <2>2. Join(members, todo.address) \subseteq Members
    BY <2>1, JoinType DEF TypeOK
  <2> QED BY <1>6, <2>2 DEF NewInterface, TypeOK
<1>7. CASE UNCHANGED vars
  BY <1>7 DEF vars, TypeOK
<1> QED BY <1>1, <1>2, <1>3, <1>4, <1>5, <1>6, <1>7 DEF Next, Receiver

(* Every variable keeps to its type; what is joined is an adapter by an    *)
(* address, never the message of a link.                                   *)
THEOREM TypeCorrect == Spec => []TypeOK
BY TypeInit, TypeStep, PTL DEF Spec
-----------------------------------------------------------------------------
(* The list.                                                               *)

(* The list is the kernel's from when it is made until the next change,    *)
(* which is told if the socket is bound and noted as a gap if it is not.   *)
ListInv ==
  /\ calm => ~gap
  /\ phase # "new" /\ queue = <<>> /\ ~gap => list = Snapshot

LEMMA ListInit == Init => ListInv
BY DEF Init, ListInv

LEMMA ListStep == TypeOK /\ ListInv /\ [Next]_vars => ListInv'
<1> SUFFICES ASSUME TypeOK, ListInv, [Next]_vars
             PROVE  ListInv'
  OBVIOUS
<1> USE DEF ListInv, kernelVars
<1>1. CASE Network
  <2>1. PICK a \in Adapters : Changed(a)
    BY <1>1, NetworkChanges
  <2>2. PICK event \in Event : Tell(event)
    BY <2>1, ToldOf
  <2>3. phase \in {"bound", "running"} => queue' # <<>>
    BY <2>2, AppendProperties DEF Tell, TypeOK
  <2>4. calm => phase # "enumerated"
    BY <2>1, ToldOf DEF MayChange
  <2>5. phase' = phase /\ calm' = calm /\ gap' = (gap \/ phase = "enumerated")
    BY <2>2 DEF Tell
  <2> QED BY <2>3, <2>4, <2>5 DEF TypeOK
<1>2. CASE Enumerate
  BY <1>2 DEF Enumerate, Snapshot
<1>3. CASE BindNetlink
  BY <1>3 DEF BindNetlink, Snapshot
<1>4. CASE Start
  BY <1>4 DEF Start, Snapshot, TypeOK
<1>5. CASE Process
  BY <1>5 DEF Process, Update, Snapshot
<1>6. CASE NewInterface
  BY <1>6 DEF NewInterface, Snapshot
<1>7. CASE UNCHANGED vars
  BY <1>7 DEF vars, Snapshot
<1> QED BY <1>1, <1>2, <1>3, <1>4, <1>5, <1>6, <1>7 DEF Next, Receiver

LEMMA ListHolds == Spec => []ListInv
BY TypeCorrect, ListInit, ListStep, PTL DEF Spec

(* With the netlink socket read and no change that nobody was told of, the *)
(* list is what the kernel has.                                            *)
THEOREM ListIsKernels == Spec => []ListFollows
<1>1. ListInv => ListFollows
  BY DEF ListInv, ListFollows
<1> QED BY <1>1, ListHolds, PTL
-----------------------------------------------------------------------------
(* Adapters are heard.                                                     *)

(* The adapter has been given its first address and nothing has happened   *)
(* to it since; that was told, and the telling is not dealt with yet.      *)
Fresh(a, x) == x \in Addresses /\ a \in up /\ addrs[a] = <<x>>

InQueue(a) ==
  \E i \in DOMAIN queue : \E x \in Addresses :
    /\ queue[i] = [what |-> "NEWADDR", adapter |-> a, address |-> x]
    /\ Fresh(a, x)

InHand(a) ==
  \E x \in Addresses :
    /\ todo = [adapter |-> a, address |-> x]
    /\ Fresh(a, x) /\ Listed(list, a)

(* In a calm network no two messages in the queue are about one adapter,   *)
(* and an adapter with an address is heard or going to be joined.          *)
OnePerAdapter ==
  \A i, j \in DOMAIN queue : queue[i].adapter = queue[j].adapter => i = j

HeardInv ==
  calm => /\ OnePerAdapter
          /\ phase = "running" =>
               \A a \in Adapters :
                 addrs[a] # <<>> => Joined(a) \/ InQueue(a) \/ InHand(a)

LEMMA HeardInit == Init => HeardInv
BY DEF Init, HeardInv, OnePerAdapter

(* A message behind the others, about an adapter that had none.            *)
LEMMA Behind ==
  ASSUME TypeOK, OnePerAdapter, phase = "running",
         NEW event \in Event, Tell(event),
         \A i \in DOMAIN queue : queue[i].adapter # event.adapter
  PROVE  /\ OnePerAdapter'
         /\ \A i \in DOMAIN queue : i \in DOMAIN queue' /\ queue'[i] = queue[i]
         /\ Len(queue) + 1 \in DOMAIN queue' /\ queue'[Len(queue) + 1] = event
<1>1. queue' = Append(queue, event) /\ queue \in Seq(Event)
  BY DEF Tell, TypeOK
<1>2. /\ DOMAIN queue' = 1 .. Len(queue) + 1 /\ DOMAIN queue = 1 .. Len(queue)
      /\ \A i \in 1 .. Len(queue) : queue'[i] = queue[i]
      /\ queue'[Len(queue) + 1] = event /\ Len(queue) \in Nat
  BY <1>1, AppendProperties
<1> QED BY <1>2 DEF OnePerAdapter

(* The message that is read was the first.                                 *)
LEMMA Ahead ==
  ASSUME TypeOK, OnePerAdapter, queue # <<>>, queue' = Tail(queue)
  PROVE  /\ OnePerAdapter'
         /\ \A i \in DOMAIN queue \ {1} : i - 1 \in DOMAIN queue' /\ queue'[i - 1] = queue[i]
         /\ 1 \in DOMAIN queue /\ Head(queue) = queue[1]
<1>1. /\ queue \in Seq(Event) /\ queue' \in Seq(Event)
      /\ Len(queue') = Len(queue) - 1 /\ Len(queue) \in Nat \ {0}
      /\ \A i \in 1 .. Len(queue') : queue'[i] = queue[i + 1]
  BY HeadTailProperties DEF TypeOK
<1>2. DOMAIN queue = 1 .. Len(queue) /\ DOMAIN queue' = 1 .. Len(queue) - 1
  BY <1>1
<1> QED BY <1>1, <1>2 DEF OnePerAdapter

(* When a calm network changes an adapter, that has been heard, or is up   *)
(* and given its first address.                                            *)
LEMMA CalmChange ==
  ASSUME TypeOK, HeardInv, calm, phase = "running",
         NEW a \in Adapters, Changed(a)
  PROVE  /\ \A b \in Adapters \ {a} : addrs'[b] = addrs[b] /\ (b \in up' <=> b \in up)
         /\ \/ addrs'[a] # <<>> => Joined(a)
            \/ \E x \in Addresses :
                 /\ addrs'[a] = <<x>> /\ a \in up'
                 /\ Tell([what |-> "NEWADDR", adapter |-> a, address |-> x])
<1>0. todo = None /\ \A i \in DOMAIN queue : queue[i].adapter # a
  BY ToldOf DEF MayChange
<1>1. addrs[a] # <<>> => Joined(a)
  <2>1. ~InQueue(a)
    BY <1>0 DEF InQueue
  <2>2. ~InHand(a)
    BY <1>0, ConstantsAssumption DEF InHand, Fresh
  <2> QED BY <2>1, <2>2 DEF HeardInv
<1>2. CASE \E x \in Addresses : AddAddress(a, x)
  <2>1. PICK x \in Addresses : AddAddress(a, x)
    BY <1>2
  <2>2. /\ a \in up /\ up' = up /\ addrs' = [addrs EXCEPT ![a] = Append(@, x)]
        /\ Tell([what |-> "NEWADDR", adapter |-> a, address |-> x])
    BY <2>1 DEF AddAddress
  <2>3. addrs[a] = <<>> => addrs'[a] = <<x>>
    BY <2>2 DEF TypeOK
  <2>4. \A b \in Adapters \ {a} : addrs'[b] = addrs[b]
    BY <2>2 DEF TypeOK
  <2> QED BY <1>1, <2>2, <2>3, <2>4
<1>3. CASE \E x \in Addresses : DelAddress(a, x)
  <2>1. PICK x \in Addresses : DelAddress(a, x)
    BY <1>3
  <2>2. PICK i \in DOMAIN addrs[a] :
               up' = up /\ addrs' = [addrs EXCEPT ![a] = RemoveAt(@, i)]
    BY <2>1 DEF DelAddress
  <2>3. addrs[a] # <<>>
    BY <2>2
  <2>4. \A b \in Adapters \ {a} : addrs'[b] = addrs[b]
    BY <2>2 DEF TypeOK
  <2> QED BY <1>1, <2>2, <2>3, <2>4
<1>4. CASE SwitchLink(a)
  BY <1>1, <1>4 DEF SwitchLink
<1> QED BY <1>2, <1>3, <1>4 DEF Changed

LEMMA HeardStep == TypeOK /\ ListInv /\ HeardInv /\ [Next]_vars => HeardInv'
<1> SUFFICES ASSUME TypeOK, ListInv, HeardInv, [Next]_vars, calm'
             PROVE  /\ OnePerAdapter'
                    /\ phase' = "running" =>
                         \A b \in Adapters :
                           addrs'[b] # <<>> => Joined(b)' \/ InQueue(b)' \/ InHand(b)'
  BY DEF HeardInv
<1> USE DEF kernelVars
<1>0. calm /\ OnePerAdapter
  BY DEF HeardInv, Next, Network, AddAddress, DelAddress, SwitchLink, Tell, Receiver,
         Enumerate, BindNetlink, Start, Process, NewInterface, vars
<1>1. CASE Network
  <2>1. PICK a \in Adapters : Changed(a)
    BY <1>1, NetworkChanges
  <2>2. PICK event \in Event : event.adapter = a /\ Tell(event)
    BY <2>1, ToldOf
  <2>3. UNCHANGED <<phase, list, todo, members>>
    BY <2>2 DEF Tell
  <2>4. phase \in {"new", "running"} /\ \A i \in DOMAIN queue : queue[i].adapter # a
    BY <1>0, <2>1, ToldOf DEF MayChange
  <2>5. OnePerAdapter'
    <3>1. CASE phase = "running"
      BY <1>0, <2>2, <2>4, <3>1, Behind
    <3>2. CASE phase = "new"
      BY <1>0, <2>2, <3>2 DEF Tell, OnePerAdapter
    <3> QED BY <2>4, <3>1, <3>2
  <2>6. ASSUME phase' = "running", NEW b \in Adapters, addrs'[b] # <<>>
        PROVE  Joined(b)' \/ InQueue(b)' \/ InHand(b)'
    <3>0. phase = "running"
      BY <2>3, <2>6
    <3>1. CASE Joined(b)
      BY <2>3, <3>1 DEF Joined
    <3>2. CASE b = a /\ ~Joined(b)
      <4>1. PICK x \in Addresses :
                   /\ addrs'[a] = <<x>> /\ a \in up'
                   /\ Tell([what |-> "NEWADDR", adapter |-> a, address |-> x])
        BY <1>0, <2>1, <2>6, <3>0, <3>2, CalmChange
      <4> DEFINE e == [what |-> "NEWADDR", adapter |-> a, address |-> x]
      <4>2. e \in Event /\ e.adapter = a
        BY DEF Event
      <4>3. Len(queue) + 1 \in DOMAIN queue' /\ queue'[Len(queue) + 1] = e
        BY <1>0, <2>4, <3>0, <4>1, <4>2, Behind
      <4> QED BY <3>2, <4>1, <4>3 DEF InQueue, Fresh
    <3>3. CASE b # a /\ ~Joined(b)
      <4>1. addrs'[b] = addrs[b] /\ (b \in up' <=> b \in up)
        BY <1>0, <2>1, <3>0, <3>3, CalmChange
      <4>2. InQueue(b) \/ InHand(b)
        BY <1>0, <2>6, <3>0, <3>3, <4>1 DEF HeardInv
      <4>3. CASE InQueue(b)
        <5>1. \A i \in DOMAIN queue : i \in DOMAIN queue' /\ queue'[i] = queue[i]
          BY <1>0, <2>2, <2>4, <3>0, Behind
        <5> QED BY <4>1, <4>3, <5>1 DEF InQueue, Fresh
      <4>4. CASE InHand(b)
        BY <2>3, <4>1, <4>4 DEF InHand, Fresh, Listed
      <4> QED BY <4>2, <4>3, <4>4
    <3> QED BY <3>1, <3>2, <3>3
  <2> QED BY <2>5, <2>6
<1>2. CASE Enumerate \/ BindNetlink
  BY <1>0, <1>2 DEF Enumerate, BindNetlink, OnePerAdapter
<1>3. CASE Start
  <2>1. OnePerAdapter'
    BY <1>0, <1>3 DEF Start, OnePerAdapter
  <2>2. ASSUME NEW a \in Adapters, addrs'[a] # <<>>
        PROVE  Joined(a)'
    <3>1. a \in up /\ addrs[a] # <<>> /\ list = Snapshot
      BY <1>0, <1>3, <2>2 DEF Start, ListInv
    <3>2. list[a] = addrs[a] /\ list[a] \in AddressLists
      BY <3>1 DEF Snapshot, TypeOK
    <3> DEFINE x == Head(list[a])
    <3>3. x \in Fronts
      BY <3>1, <3>2, ConstantsAssumption DEF Fronts, AddressLists
    <3>4. a \in Owner(x)
      BY <3>1, <3>2 DEF Owner, ToSet, AddressLists
    <3>5. [adapter |-> a, address |-> x] \in Join({}, x)
      BY <3>4 DEF Join
    <3>6. DropAll({}) = {}
      BY DEF DropAll
    <3>7. [adapter |-> a, address |-> x] \in members'
      BY <1>3, <3>3, <3>5, <3>6 DEF Start, AddAll
    <3> QED BY <3>7 DEF Joined
  <2> QED BY <2>1, <2>2
<1>4. CASE Process
  <2>1. UNCHANGED <<up, addrs, phase, members>> /\ todo = None /\ list' = Snapshot
    BY <1>4 DEF Process, Update
  <2>2. /\ OnePerAdapter'
        /\ \A i \in DOMAIN queue \ {1} : i - 1 \in DOMAIN queue' /\ queue'[i - 1] = queue[i]
        /\ 1 \in DOMAIN queue /\ Head(queue) = queue[1]
    BY <1>0, <1>4, Ahead DEF Process
  <2>3. ASSUME phase' = "running", NEW b \in Adapters, addrs'[b] # <<>>
        PROVE  Joined(b)' \/ InQueue(b)' \/ InHand(b)'
    <3>1. CASE Joined(b)
      BY <2>1, <3>1 DEF Joined
    <3>2. CASE ~Joined(b)
      <4>1. ~InHand(b)
        BY <2>1, ConstantsAssumption DEF InHand, Fresh
      <4>2. InQueue(b)
        BY <1>0, <2>1, <2>3, <3>2, <4>1 DEF HeardInv
      <4>3. PICK i \in DOMAIN queue, x \in Addresses :
                   /\ queue[i] = [what |-> "NEWADDR", adapter |-> b, address |-> x]
                   /\ Fresh(b, x)
        BY <4>2 DEF InQueue
      <4>4. Fresh(b, x)'
        BY <2>1, <4>3 DEF Fresh
      <4>5. CASE i # 1
        BY <2>2, <4>3, <4>4, <4>5 DEF InQueue
      <4>6. CASE i = 1
        <5>1. list'[b] = <<x>> /\ <<x>> \in Seq(Addresses) /\ Len(<<x>>) = 1
          BY <2>1, <4>3 DEF Snapshot, Fresh
        <5>2. Listed(list', b)
          BY <5>1, ConstantsAssumption DEF Listed
        <5>3. IsNew(Head(queue), list')
          <6>1. /\ Head(queue).what = "NEWADDR" /\ Head(queue).adapter = b
                /\ Head(queue).address = x
            BY <2>2, <4>3, <4>6
          <6>2. Len(list'[b]) = 1
            BY <5>1
          <6> QED BY <5>2, <6>1, <6>2 DEF IsNew
        <5>4. todo' = [adapter |-> b, address |-> x]
          BY <1>4, <2>2, <4>3, <4>6, <5>3 DEF Process
        <5> QED BY <4>4, <5>2, <5>4 DEF InHand, Listed
      <4> QED BY <4>5, <4>6
    <3> QED BY <3>1, <3>2
  <2> QED BY <2>2, <2>3
<1>5. CASE NewInterface
  <2>1. UNCHANGED <<up, addrs, queue, phase>> /\ members \subseteq members'
    BY <1>5 DEF NewInterface, Join
  <2>2. OnePerAdapter'
    BY <1>0, <2>1 DEF OnePerAdapter
  <2>3. ASSUME phase' = "running", NEW b \in Adapters, addrs'[b] # <<>>
        PROVE  Joined(b)' \/ InQueue(b)' \/ InHand(b)'
    <3>1. CASE Joined(b)
      BY <2>1, <3>1 DEF Joined
    <3>2. CASE InQueue(b)
      BY <2>1, <3>2 DEF InQueue, Fresh
    <3>3. CASE InHand(b) /\ ~Joined(b)
      <4>1. PICK x \in Addresses :
                   /\ todo = [adapter |-> b, address |-> x]
                   /\ Fresh(b, x) /\ Listed(list, b)
        BY <3>3 DEF InHand
      <4>2. b \in Owner(x)
        BY <4>1 DEF Owner, ToSet, Fresh
      <4>3. [adapter |-> b, address |-> x] \in Join(members, x)
        BY <3>3, <4>2 DEF Join, Joined
      <4>4. members' = Join(members, x)
        BY <1>5, <4>1 DEF NewInterface
      <4> QED BY <4>3, <4>4 DEF Joined
    <3> QED BY <1>0, <2>1, <2>3, <3>1, <3>2, <3>3 DEF HeardInv
  <2> QED BY <2>2, <2>3
<1>6. CASE UNCHANGED vars
  BY <1>0, <1>6 DEF vars, HeardInv, OnePerAdapter, Joined, InQueue, InHand, Fresh, Listed
<1> QED BY <1>1, <1>2, <1>3, <1>4, <1>5, <1>6 DEF Next, Receiver

(* In a calm network the receiver hears by every adapter that is up and    *)
(* has an address, as soon as it has dealt with what it was told.          *)
THEOREM CalmIsHeard == Spec => []Heard
<1>1. TypeOK /\ HeardInv => Heard
  <2> SUFFICES ASSUME TypeOK, HeardInv, calm, phase = "running", queue = <<>>,
                      todo = None, NEW a \in up, addrs[a] # <<>>
               PROVE  Joined(a)
    BY DEF Heard, AllJoined
  <2>1. ~InQueue(a)
    BY DEF InQueue
  <2>2. a \in Adapters /\ ~InHand(a)
    BY ConstantsAssumption DEF InHand, TypeOK
  <2> QED BY <2>1, <2>2 DEF HeardInv
<1> QED BY <1>1, TypeCorrect, ListHolds, HeardInit, HeardStep, PTL DEF Spec
=============================================================================
