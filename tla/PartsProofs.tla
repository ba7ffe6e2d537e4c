----------------------------- MODULE PartsProofs -----------------------------
(***************************************************************************)
(* Theorems about the descriptors (their types, that nothing is leaked,    *)
(* and that who closes what another object has opened is one that keeps    *)
(* its number), about the sending by multicast (its types, and that a call *)
(* tells what it did), and about the parts side by side: each keeps to its *)
(* own specification, so what is proved of it holds in every behaviour of  *)
(* Parts.                                                                  *)
(***************************************************************************)
EXTENDS Parts, SocketProofs, WindowsLoopProofs, TLAPS

(***************************************************************************)
(* The descriptors.                                                        *)
(***************************************************************************)
Entry == [by : Holders \cup {"nobody"}, blocking : BOOLEAN]

LEMMA FreeIsEntry == Free \in Entry
BY DEF Free, Entry

LEMMA HoldersKnown ==
  /\ {"netlink", "send", "receive", "listen", "worker", "client", "other"} \subseteq Holders
  /\ Keepers = {"netlink", "listen"} /\ "nobody" \notin Holders
BY DEF Holders, Keepers

(* What the system calls do to the types.                                  *)
LEMMA OpenType ==
  ASSUME DescriptorsTypeOK, NEW h \in Holders, Open(h) \/ OpenFails(h)
  PROVE  files' \in [Fds -> Entry] /\ held' \in [Holders -> Fds \cup {-1}] /\ forgot' \subseteq Holders
<1>1. files \in [Fds -> Entry] /\ held \in [Holders -> Fds \cup {-1}] /\ forgot \subseteq Holders
  BY DEF DescriptorsTypeOK, Entry
<1>2. [by |-> h, blocking |-> (h = "send")] \in Entry
  BY DEF Entry
<1>3. \A n \in Unused : n \in Fds
  BY DEF Unused
<1> QED BY <1>1, <1>2, <1>3 DEF Open, OpenFails

LEMMA OpenAndForgetType ==
  ASSUME DescriptorsTypeOK, NEW h \in Holders, OpenAndForget(h)
  PROVE  files' \in [Fds -> Entry] /\ forgot' \subseteq Holders
<1>1. files \in [Fds -> Entry] /\ forgot \subseteq Holders
  BY DEF DescriptorsTypeOK, Entry
<1>2. [by |-> h, blocking |-> FALSE] \in Entry
  BY DEF Entry
<1> QED BY <1>1, <1>2 DEF OpenAndForget, Unused

LEMMA CloseType ==
  ASSUME DescriptorsTypeOK, NEW hs \in SUBSET Holders, CloseAll(hs)
  PROVE  files' \in [Fds -> Entry] /\ stray' \subseteq Holders
<1>1. files \in [Fds -> Entry]
  BY DEF DescriptorsTypeOK, Entry
<1>2. files' \in [Fds -> Entry]
  BY <1>1, FreeIsEntry DEF CloseAll
<1> QED BY <1>2 DEF CloseAll, DescriptorsTypeOK

LEMMA WatchType ==
  ASSUME DescriptorsTypeOK, NEW h \in Holders, held' \in [Holders -> Fds \cup {-1}],
         Watch(h) \/ UNCHANGED watched
  PROVE  watched' \in [Fds -> Holders \cup {"nobody"}]
BY DEF DescriptorsTypeOK, Watch

LEMMA UnwatchType ==
  ASSUME DescriptorsTypeOK, NEW number, Unwatch(number)
  PROVE  watched' \in [Fds -> Holders \cup {"nobody"}]
BY DEF DescriptorsTypeOK, Unwatch

(* A stop that was called is counted.                                      *)
LEMMA StopType ==
  ASSUME DescriptorsTypeOK, NEW k \in Keepers, Stopped(k)
  PROVE  /\ stops' \in [Keepers -> 0 .. 2]
         /\ stops[k] # 0 => stops'[k] = 2
         /\ stops'[k] # 0
         /\ \A j \in Keepers \ {k} : stops'[j] = stops[j]
BY DEF DescriptorsTypeOK, Stopped

(* What the steps are made of.                                             *)
Opens(h) ==
  /\ Open(h) \/ OpenFails(h) \/ UNCHANGED <<files, held, forgot>>
  /\ Watch(h) \/ UNCHANGED watched
  /\ UNCHANGED <<stops, stray>>

Forgets(h) == OpenAndForget(h) /\ UNCHANGED <<held, watched, stops, stray>>

KeeperCloses(k) ==
  /\ CloseAll({k}) /\ Unwatch(held[k]) /\ Stopped(k) /\ UNCHANGED <<held, forgot>>

Closes(h) ==
  /\ CloseAll({h}) /\ Unwatch(held[h]) /\ held' = [held EXCEPT ![h] = -1]
  /\ UNCHANGED <<stops, forgot>>

ServerCloses ==
  /\ CloseAll({"send", "receive"}) /\ Unwatch(held["receive"])
  /\ held' = [held EXCEPT !["send"] = -1, !["receive"] = -1]
  /\ UNCHANGED <<stops, forgot>>

LEMMA StepsAreThese ==
  ASSUME [DescriptorsNext]_descriptorVars
  PROVE  \/ \E h \in Holders : Opens(h)
         \/ \E h \in Holders : Forgets(h)
         \/ \E k \in Keepers : KeeperCloses(k)
         \/ \E h \in Holders \ Keepers : Closes(h)
         \/ ServerCloses
         \/ UNCHANGED <<files, held, watched, stops, forgot, stray>>
<1> USE HoldersKnown
<1>1. CASE NetlinkConstruct
  BY <1>1 DEF NetlinkConstruct, Opens
<1>2. CASE NetlinkConstructThrows
  BY <1>2 DEF NetlinkConstructThrows, Forgets
<1>3. CASE StartSend
  BY <1>3 DEF StartSend, Opens
<1>4. CASE StartReceive
  BY <1>4 DEF StartReceive, Opens
<1>5. CASE StartNetlink
  BY <1>5 DEF StartNetlink, Opens
<1>6. CASE ExecuteForReturns
  BY <1>6 DEF ExecuteForReturns
<1>7. CASE StopNetlink \/ DestroyNetlink
  BY <1>7 DEF StopNetlink, DestroyNetlink, NetlinkStop, KeeperCloses
<1>8. CASE StopScanner \/ DestroyScanner
  BY <1>8 DEF StopScanner, DestroyScanner, MulticastStop, ServerCloses
<1>9. CASE ListenStart
  BY <1>9 DEF ListenStart, Opens
<1>10. CASE ListenStop
  BY <1>10 DEF ListenStop, KeeperCloses
<1>11. CASE Accept
  BY <1>11 DEF Accept, Opens, Forgets
<1>12. CASE ClientConnect
  BY <1>12 DEF ClientConnect, Opens
<1>13. ASSUME NEW h \in {"worker", "client", "other"}, DisconnectSocket(h)
       PROVE  Closes(h) /\ h \in Holders \ Keepers
  BY <1>13 DEF DisconnectSocket, Closes
<1>14. CASE OtherOpens
  BY <1>14 DEF OtherOpens, Opens
<1>15. CASE OtherCloses
  BY <1>13, <1>15 DEF OtherCloses
<1>16. CASE UNCHANGED descriptorVars
  BY <1>16 DEF descriptorVars
<1> QED BY <1>1, <1>2, <1>3, <1>4, <1>5, <1>6, <1>7, <1>8, <1>9, <1>10, <1>11, <1>12, <1>13,
           <1>14, <1>15, <1>16
        DEF DescriptorsNext, ReceiverSteps, ServerSteps, ClientSteps, OtherSteps
------------------------------------------------------------------------------
(* Types.                                                                  *)

LEMMA DescriptorsTypeInit == DescriptorsInit => DescriptorsTypeOK
<1> SUFFICES ASSUME DescriptorsInit PROVE DescriptorsTypeOK
  OBVIOUS
<1>1. files \in [Fds -> Entry]
  BY FreeIsEntry DEF DescriptorsInit
<1>2. /\ starts \in 0 .. MaxStarts /\ opens \in 0 .. MaxOpens
      /\ stops \in [Keepers -> 0 .. 2] /\ stage \in Stages
  BY DescriptorsAssumption DEF DescriptorsInit, Stages
<1> QED BY <1>1, <1>2 DEF DescriptorsInit, DescriptorsTypeOK, Entry

(* The receiver's stages, and what is counted.                             *)
LEMMA CountedStep ==
  ASSUME DescriptorsTypeOK, [DescriptorsNext]_descriptorVars
  PROVE  stage' \in Stages /\ starts' \in 0 .. MaxStarts /\ opens' \in 0 .. MaxOpens
<1>0. stage \in Stages /\ starts \in 0 .. MaxStarts /\ opens \in 0 .. MaxOpens
  BY DEF DescriptorsTypeOK
<1> USE DescriptorsAssumption
<1>1. OpensOne => opens' \in 0 .. MaxOpens
  BY <1>0 DEF OpensOne
<1>2. CASE ReceiverSteps
  BY <1>0, <1>1, <1>2
     DEF ReceiverSteps, NetlinkConstruct, NetlinkConstructThrows, StartSend, StartReceive,
         StartNetlink, ExecuteForReturns, StopNetlink, NetlinkStop, StopScanner,
         MulticastStop, DestroyNetlink, DestroyScanner, Stages
<1>3. CASE ServerSteps \/ ClientSteps \/ OtherSteps
  BY <1>0, <1>1, <1>3
     DEF ServerSteps, ClientSteps, OtherSteps, ListenStart, ListenStop, Accept,
         DisconnectSocket, ClientConnect, OtherOpens, OtherCloses
<1> QED BY <1>0, <1>2, <1>3 DEF DescriptorsNext, descriptorVars

LEMMA DescriptorsTypeStep ==
  DescriptorsTypeOK /\ [DescriptorsNext]_descriptorVars => DescriptorsTypeOK'
<1> SUFFICES ASSUME DescriptorsTypeOK, [DescriptorsNext]_descriptorVars
             PROVE  /\ files' \in [Fds -> Entry] /\ held' \in [Holders -> Fds \cup {-1}]
                    /\ watched' \in [Fds -> Holders \cup {"nobody"}]
                    /\ stops' \in [Keepers -> 0 .. 2]
                    /\ forgot' \subseteq Holders /\ stray' \subseteq Holders
  BY CountedStep DEF DescriptorsTypeOK, Entry
<1>0. /\ files \in [Fds -> Entry] /\ held \in [Holders -> Fds \cup {-1}]
      /\ watched \in [Fds -> Holders \cup {"nobody"}]
      /\ stops \in [Keepers -> 0 .. 2]
      /\ forgot \subseteq Holders /\ stray \subseteq Holders
  BY DEF DescriptorsTypeOK, Entry
<1>1. ASSUME NEW h \in Holders, Opens(h)
      PROVE  /\ files' \in [Fds -> Entry] /\ held' \in [Holders -> Fds \cup {-1}]
             /\ watched' \in [Fds -> Holders \cup {"nobody"}] /\ forgot' \subseteq Holders
  BY <1>0, <1>1, OpenType, WatchType DEF Opens
<1>2. ASSUME NEW h \in Holders, Forgets(h)
      PROVE  files' \in [Fds -> Entry] /\ forgot' \subseteq Holders
  BY <1>2, OpenAndForgetType DEF Forgets
<1>3. ASSUME NEW k \in Keepers, KeeperCloses(k)
      PROVE  /\ files' \in [Fds -> Entry] /\ watched' \in [Fds -> Holders \cup {"nobody"}]
             /\ stops' \in [Keepers -> 0 .. 2] /\ stray' \subseteq Holders
  <2>1. {k} \in SUBSET Holders
    BY DEF Keepers, Holders
  <2> QED BY <1>3, <2>1, CloseType, UnwatchType, StopType DEF KeeperCloses
<1>4. ASSUME NEW h \in Holders, Closes(h)
      PROVE  /\ files' \in [Fds -> Entry] /\ held' \in [Holders -> Fds \cup {-1}]
             /\ watched' \in [Fds -> Holders \cup {"nobody"}] /\ stray' \subseteq Holders
  <2>1. {h} \in SUBSET Holders
    OBVIOUS
  <2> QED BY <1>0, <1>4, <2>1, CloseType, UnwatchType DEF Closes
<1>5. ASSUME ServerCloses
      PROVE  /\ files' \in [Fds -> Entry] /\ held' \in [Holders -> Fds \cup {-1}]
             /\ watched' \in [Fds -> Holders \cup {"nobody"}] /\ stray' \subseteq Holders
  <2>1. {"send", "receive"} \in SUBSET Holders
    BY DEF Holders
  <2> QED BY <1>0, <1>5, <2>1, CloseType, UnwatchType DEF ServerCloses
<1> QED BY <1>0, <1>1, <1>2, <1>3, <1>4, <1>5, StepsAreThese
        DEF Opens, Forgets, KeeperCloses, Closes, ServerCloses

(* Every variable keeps to its type.                                       *)
THEOREM DescriptorsTypeCorrect == DescriptorsSpec => []DescriptorsTypeOK
BY DescriptorsTypeInit, DescriptorsTypeStep, PTL DEF DescriptorsSpec
------------------------------------------------------------------------------
(* Who closes what.                                                        *)

(* Until the first stray close, a noted number is that of a descriptor the *)
(* object has opened itself; of an object that keeps the number of what it *)
(* has closed, until it was stopped.                                       *)
OwnsNoted ==
  stray = {} =>
    \A h \in Holders :
      held[h] # -1 /\ (h \in Keepers => stops[h] = 0) => files[held[h]].by = h

OwnInv == DescriptorsTypeOK /\ OwnsNoted /\ ClosesOwn

(* Whatever h opens, nobody else has the number of an own one.             *)
LEMMA OpenOwn ==
  ASSUME DescriptorsTypeOK, OwnsNoted, NEW h \in Holders, Opens(h) \/ Forgets(h)
  PROVE  OwnsNoted'
<1> SUFFICES ASSUME stray = {}, NEW x \in Holders, held'[x] # -1,
                    x \in Keepers => stops[x] = 0
             PROVE  files'[held'[x]].by = x
  BY DEF OwnsNoted, Opens, Forgets
<1>0. /\ files \in [Fds -> Entry] /\ held \in [Holders -> Fds \cup {-1}] /\ "nobody" \notin Holders
  BY HoldersKnown DEF DescriptorsTypeOK, Entry
<1>1. \/ \E n \in Unused : \E e \in Entry :
           /\ e.by = h /\ files' = [files EXCEPT ![n] = e]
           /\ held' = held \/ held' = [held EXCEPT ![h] = n]
      \/ files' = files /\ (held' = held \/ held' = [held EXCEPT ![h] = -1])
  <2>1. /\ [by |-> h, blocking |-> (h = "send")] \in Entry
        /\ [by |-> h, blocking |-> FALSE] \in Entry
    BY DEF Entry
  <2> QED BY <2>1 DEF Opens, Forgets, Open, OpenFails, OpenAndForget
<1>2. held[x] # -1 => files[held[x]].by = x
  BY DEF OwnsNoted
<1>3. CASE files' = files /\ (held' = held \/ held' = [held EXCEPT ![h] = -1])
  BY <1>0, <1>2, <1>3
<1>4. CASE \E n \in Unused : \E e \in Entry :
             /\ e.by = h /\ files' = [files EXCEPT ![n] = e]
             /\ held' = held \/ held' = [held EXCEPT ![h] = n]
  <2>1. PICK n \in Unused, e \in Entry :
          /\ e.by = h /\ files' = [files EXCEPT ![n] = e]
          /\ held' = held \/ held' = [held EXCEPT ![h] = n]
    BY <1>4
  <2>2. n \in Fds /\ files[n].by = "nobody"
    BY DEF Unused, Free
  <2>3. CASE held'[x] = held[x]
    <3>1. held[x] \in Fds /\ files[held[x]].by = x
      BY <1>0, <1>2, <2>3
    <3>2. held[x] # n
      BY <1>0, <2>2, <3>1
    <3> QED BY <1>0, <2>1, <2>3, <3>1, <3>2
  <2>4. CASE held'[x] # held[x]
    BY <1>0, <2>1, <2>2, <2>4
  <2> QED BY <2>3, <2>4
<1> QED BY <1>1, <1>3, <1>4

(* If hs close, and own what they have noted, or nothing strays, the       *)
(* others still have theirs.                                               *)
LEMMA CloseOwn ==
  ASSUME DescriptorsTypeOK, OwnsNoted, NEW hs \in SUBSET Holders, CloseAll(hs), stray' = {}
  PROVE  /\ stray = {}
         /\ \A x \in Holders \ hs :
              held[x] # -1 /\ (x \in Keepers => stops[x] = 0) => files'[held[x]].by = x
<1>1. stray = {}
  BY DEF CloseAll
<1>2. PICK open \in SUBSET Fds :
        /\ open = {n \in {held[h] : h \in hs} : n # -1 /\ files[n] # Free}
        /\ files' = [n \in Fds |-> IF n \in open THEN Free ELSE files[n]]
        /\ stray' = IF stray = {} /\ \E n \in open : files[n].by \notin hs THEN hs ELSE stray
  <2> DEFINE open == {n \in {held[h] : h \in hs} : n # -1 /\ files[n] # Free}
  <2>1. open \in SUBSET Fds
    BY DEF DescriptorsTypeOK
  <2> QED BY <2>1 DEF CloseAll
<1>3. \A n \in open : files[n].by \in hs
  <2>1. CASE hs = {}
    BY <1>2, <2>1
  <2>2. CASE hs # {}
    BY <1>1, <1>2, <2>2
  <2> QED BY <2>1, <2>2
<1>4. ASSUME NEW x \in Holders \ hs, held[x] # -1, x \in Keepers => stops[x] = 0
      PROVE  files'[held[x]].by = x
  <2>1. held[x] \in Fds /\ files[held[x]].by = x
    BY <1>1, <1>4 DEF OwnsNoted, DescriptorsTypeOK
  <2>2. held[x] \notin open
    BY <1>3, <2>1
  <2> QED BY <1>2, <2>1, <2>2
<1> QED BY <1>1, <1>4

(* Who owns what it has noted closes nothing else.                         *)
LEMMA OwnersCloseOwn ==
  ASSUME DescriptorsTypeOK, OwnsNoted, NEW hs \in SUBSET Holders, CloseAll(hs),
         \A h \in hs : h \in Keepers => stops[h] = 0
  PROVE  stray' = stray
<1>1. CASE stray # {}
  BY <1>1 DEF CloseAll
<1>2. CASE stray = {}
  <2>1. \A h \in hs : held[h] # -1 => files[held[h]].by = h
    BY <1>2 DEF OwnsNoted
  <2> QED BY <2>1 DEF CloseAll
<1> QED BY <1>1, <1>2

LEMMA OwnStep == OwnInv /\ [DescriptorsNext]_descriptorVars => OwnInv'
<1> SUFFICES ASSUME OwnInv, [DescriptorsNext]_descriptorVars
             PROVE  OwnsNoted' /\ ClosesOwn'
  BY DescriptorsTypeStep DEF OwnInv
<1>0. DescriptorsTypeOK /\ OwnsNoted /\ ClosesOwn
      /\ held \in [Holders -> Fds \cup {-1}]
  BY DEF OwnInv, DescriptorsTypeOK
<1>1. ASSUME NEW h \in Holders, Opens(h) \/ Forgets(h) PROVE OwnsNoted' /\ ClosesOwn'
  BY <1>0, <1>1, OpenOwn DEF Opens, Forgets, ClosesOwn
<1>2. ASSUME NEW k \in Keepers, KeeperCloses(k) PROVE OwnsNoted' /\ ClosesOwn'
  <2>1. {k} \in SUBSET Holders /\ k \in Holders /\ CloseAll({k}) /\ held' = held
    BY <1>2 DEF KeeperCloses, Keepers, Holders
  <2>2. /\ stops[k] # 0 => stops'[k] = 2
        /\ stops'[k] # 0
        /\ \A j \in Keepers \ {k} : stops'[j] = stops[j]
    BY <1>0, <1>2, StopType DEF KeeperCloses
  <2>3. OwnsNoted'
    <3>1. SUFFICES ASSUME stray' = {}, NEW x \in Holders, held[x] # -1,
                          x \in Keepers => stops'[x] = 0
                   PROVE  files'[held[x]].by = x
      BY <2>1 DEF OwnsNoted
    <3>2. x # k /\ (x \in Keepers => stops[x] = 0)
      BY <2>2, <3>1
    <3> QED BY <1>0, <2>1, <3>1, <3>2, CloseOwn
  <2>4. ClosesOwn'
    <3>1. CASE stops[k] = 0
      <4>1. stray' = stray
        BY <1>0, <2>1, <3>1, OwnersCloseOwn
      <4> QED BY <1>0, <2>2, <3>1, <4>1 DEF ClosesOwn
    <3>2. CASE stops[k] # 0
      <4>1. stray' = stray \/ stray' = {k}
        BY <2>1 DEF CloseAll
      <4> QED BY <1>0, <2>2, <3>2, <4>1 DEF ClosesOwn
    <3> QED BY <3>1, <3>2
  <2> QED BY <2>3, <2>4
<1>3. ASSUME NEW hs \in SUBSET (Holders \ Keepers), CloseAll(hs),
             held' = [h \in Holders |-> IF h \in hs THEN -1 ELSE held[h]], stops' = stops
      PROVE  OwnsNoted' /\ ClosesOwn'
  <2>1. hs \in SUBSET Holders
    OBVIOUS
  <2>2. stray' = stray
    BY <1>0, <1>3, <2>1, OwnersCloseOwn
  <2>3. OwnsNoted'
    <3>1. SUFFICES ASSUME stray' = {}, NEW x \in Holders, held'[x] # -1,
                          x \in Keepers => stops[x] = 0
                   PROVE  files'[held'[x]].by = x
      BY <1>3 DEF OwnsNoted
    <3>2. x \notin hs /\ held'[x] = held[x]
      BY <1>3, <3>1
    <3> QED BY <1>0, <1>3, <2>1, <3>1, <3>2, CloseOwn
  <2> QED BY <1>0, <1>3, <2>2, <2>3 DEF ClosesOwn
<1>4. ASSUME NEW h \in Holders \ Keepers, Closes(h) PROVE OwnsNoted' /\ ClosesOwn'
  <2>1. {h} \in SUBSET (Holders \ Keepers)
    OBVIOUS
  <2>2. held' = [x \in Holders |-> IF x \in {h} THEN -1 ELSE held[x]]
    BY <1>0, <1>4 DEF Closes
  <2> QED BY <1>3, <1>4, <2>1, <2>2 DEF Closes
<1>5. ASSUME ServerCloses PROVE OwnsNoted' /\ ClosesOwn'
  <2>1. {"send", "receive"} \in SUBSET (Holders \ Keepers)
    BY DEF Holders, Keepers
  <2>2. held' = [x \in Holders |-> IF x \in {"send", "receive"} THEN -1 ELSE held[x]]
    BY <1>0, <1>5 DEF ServerCloses
  <2> QED BY <1>3, <1>5, <2>1, <2>2 DEF ServerCloses
<1>6. CASE UNCHANGED <<files, held, watched, stops, forgot, stray>>
  BY <1>0, <1>6 DEF OwnsNoted, ClosesOwn
<1> QED BY <1>1, <1>2, <1>4, <1>5, <1>6, StepsAreThese

(* No object closes what another one has opened, in a table of descriptors *)
(* of any size, unless it is the netlink socket or the TCP server, which   *)
(* keep the number of what they closed, and was stopped before.            *)
THEOREM StrayOnlyIfKept == DescriptorsSpec => []ClosesOwn
<1>1. DescriptorsInit => OwnInv
  BY DescriptorsTypeInit DEF DescriptorsInit, OwnInv, OwnsNoted, ClosesOwn
<1>2. OwnInv => ClosesOwn
  BY DEF OwnInv
<1> QED BY <1>1, <1>2, OwnStep, PTL DEF DescriptorsSpec
------------------------------------------------------------------------------
(* Nothing is leaked.                                                      *)

(* What is open was opened by somebody.                                    *)
OpenerKnown == \A n \in Fds : files[n] # Free => files[n].by \in Holders

LEMMA OpenerStep ==
  DescriptorsTypeOK /\ OpenerKnown /\ [DescriptorsNext]_descriptorVars => OpenerKnown'
<1> SUFFICES ASSUME DescriptorsTypeOK, OpenerKnown, [DescriptorsNext]_descriptorVars
             PROVE  OpenerKnown'
  OBVIOUS
<1>0. files \in [Fds -> Entry]
  BY DEF DescriptorsTypeOK, Entry
<1>1. ASSUME NEW h \in Holders, Opens(h) \/ Forgets(h) PROVE OpenerKnown'
  BY <1>0, <1>1 DEF Opens, Forgets, Open, OpenFails, OpenAndForget, OpenerKnown, Unused
<1>2. ASSUME NEW hs, CloseAll(hs) PROVE OpenerKnown'
  BY <1>0, <1>2 DEF CloseAll, OpenerKnown
<1>3. CASE UNCHANGED files
  BY <1>3 DEF OpenerKnown
<1> QED BY <1>1, <1>2, <1>3, StepsAreThese DEF KeeperCloses, Closes, ServerCloses

(* What a holder has noted last it loses only with its name in forgot.     *)
LEMMA OpenLeaks ==
  ASSUME DescriptorsTypeOK, OpenerKnown, NoneLeaked, NEW h \in Holders, Opens(h)
  PROVE  NoneLeaked'
<1> SUFFICES ASSUME NEW n \in Fds, files'[n] # Free, files'[n].by \notin forgot'
             PROVE  held'[files'[n].by] = n
  BY DEF NoneLeaked
<1>0. /\ files \in [Fds -> Entry] /\ held \in [Holders -> Fds \cup {-1}] /\ "nobody" \notin Holders
  BY HoldersKnown DEF DescriptorsTypeOK, Entry
<1>1. \/ UNCHANGED <<files, held, forgot>>
      \/ \E m \in Unused : \E e \in Entry :
           e.by = h /\ files' = [files EXCEPT ![m] = e] /\ held' = [held EXCEPT ![h] = m]
      \/ files' = files /\ held' = [held EXCEPT ![h] = -1]
  <2>1. [by |-> h, blocking |-> (h = "send")] \in Entry
    BY DEF Entry
  <2> QED BY <2>1 DEF Opens, Open, OpenFails
<1>2. /\ forgot \subseteq forgot'
      /\ UNCHANGED <<files, held, forgot>>
           \/ (held[h] # -1 /\ files[held[h]].by = h => h \in forgot')
  BY DEF Opens, Open, OpenFails
<1>3. CASE UNCHANGED <<files, held, forgot>>
  BY <1>3 DEF NoneLeaked
<1>4. ASSUME files'[n] = files[n], ~UNCHANGED <<files, held, forgot>>
      PROVE  held'[files'[n].by] = n
  <2>1. held[files[n].by] = n /\ files[n].by \notin forgot' /\ files[n].by \in Holders
    BY <1>2, <1>4 DEF NoneLeaked, OpenerKnown
  <2>0. n # -1
    BY DescriptorsAssumption DEF Fds
  <2>2. files[n].by # h
    BY <1>0, <1>2, <1>4, <2>0, <2>1
  <2>3. held'[files[n].by] = held[files[n].by]
    BY <1>0, <1>1, <2>1, <2>2
  <2> QED BY <1>4, <2>1, <2>3
<1>5. ASSUME files'[n] # files[n] PROVE held'[files'[n].by] = n
  <2>1. PICK m \in Unused, e \in Entry :
          e.by = h /\ files' = [files EXCEPT ![m] = e] /\ held' = [held EXCEPT ![h] = m]
    BY <1>1, <1>5
  <2>2. m = n /\ files'[n] = e
    BY <1>0, <1>5, <2>1 DEF Unused
  <2> QED BY <1>0, <2>1, <2>2
<1> QED BY <1>3, <1>4, <1>5

LEMMA ForgetLeaks ==
  ASSUME DescriptorsTypeOK, NoneLeaked, NEW h \in Holders, Forgets(h)
  PROVE  NoneLeaked'
<1> SUFFICES ASSUME NEW n \in Fds, files'[n] # Free, files'[n].by \notin forgot'
             PROVE  held[files'[n].by] = n
  BY DEF NoneLeaked, Forgets
<1>1. files \in [Fds -> Entry] /\ forgot' = forgot \cup {h}
  BY DEF DescriptorsTypeOK, Entry, Forgets, OpenAndForget
<1>2. PICK m \in Unused : files' = [files EXCEPT ![m] = [by |-> h, blocking |-> FALSE]]
  BY DEF Forgets, OpenAndForget
<1>3. n # m
  BY <1>1, <1>2 DEF Unused
<1> QED BY <1>1, <1>2, <1>3 DEF NoneLeaked

(* What hs closes is free, and if the numbers are forgotten, so are the    *)
(* files.                                                                  *)
LEMMA CloseLeaks ==
  ASSUME DescriptorsTypeOK, OpenerKnown, NoneLeaked, NEW hs \in SUBSET Holders, CloseAll(hs),
         forgot' = forgot,
         \/ held' = held
         \/ held' = [h \in Holders |-> IF h \in hs THEN -1 ELSE held[h]]
  PROVE  NoneLeaked'
<1> SUFFICES ASSUME NEW n \in Fds, files'[n] # Free, files'[n].by \notin forgot
             PROVE  held'[files'[n].by] = n
  BY DEF NoneLeaked
<1>0. files \in [Fds -> Entry] /\ held \in [Holders -> Fds \cup {-1}]
  BY DEF DescriptorsTypeOK, Entry
<1>1. PICK open :
        /\ open = {m \in {held[h] : h \in hs} : m # -1 /\ files[m] # Free}
        /\ files' = [m \in Fds |-> IF m \in open THEN Free ELSE files[m]]
  BY DEF CloseAll
<1>2. n \notin open /\ files'[n] = files[n]
  BY <1>1
<1>3. held[files[n].by] = n
  BY <1>2 DEF NoneLeaked
<1>4. n # -1 /\ files[n].by \in Holders
  <2>1. n \in Nat
    BY DescriptorsAssumption DEF Fds
  <2> QED BY <1>2, <2>1 DEF OpenerKnown
<1>5. files[n].by \notin hs
  BY <1>1, <1>2, <1>3, <1>4
<1> QED BY <1>2, <1>3, <1>4, <1>5

LeakInv == DescriptorsTypeOK /\ OpenerKnown /\ NoneLeaked

LEMMA LeakStep == LeakInv /\ [DescriptorsNext]_descriptorVars => LeakInv'
<1> SUFFICES ASSUME LeakInv, [DescriptorsNext]_descriptorVars
             PROVE  NoneLeaked'
  BY DescriptorsTypeStep, OpenerStep DEF LeakInv
<1>0. /\ DescriptorsTypeOK /\ OpenerKnown /\ NoneLeaked
      /\ held \in [Holders -> Fds \cup {-1}]
  BY DEF LeakInv, DescriptorsTypeOK
<1>1. ASSUME NEW h \in Holders, Opens(h) PROVE NoneLeaked'
  BY <1>0, <1>1, OpenLeaks
<1>2. ASSUME NEW h \in Holders, Forgets(h) PROVE NoneLeaked'
  BY <1>0, <1>2, ForgetLeaks
<1>3. ASSUME NEW k \in Keepers, KeeperCloses(k) PROVE NoneLeaked'
  <2>1. {k} \in SUBSET Holders
    BY DEF Keepers, Holders
  <2> QED BY <1>0, <1>3, <2>1, CloseLeaks DEF KeeperCloses
<1>4. ASSUME NEW h \in Holders, Closes(h) PROVE NoneLeaked'
  <2>1. /\ {h} \in SUBSET Holders
        /\ held' = [x \in Holders |-> IF x \in {h} THEN -1 ELSE held[x]]
    BY <1>0, <1>4 DEF Closes
  <2> QED BY <1>0, <1>4, <2>1, CloseLeaks DEF Closes
<1>5. CASE ServerCloses
  <2>1. /\ {"send", "receive"} \in SUBSET Holders
        /\ held' = [x \in Holders |-> IF x \in {"send", "receive"} THEN -1 ELSE held[x]]
    BY <1>0, <1>5, HoldersKnown DEF ServerCloses
  <2> QED BY <1>0, <1>5, <2>1, CloseLeaks DEF ServerCloses
<1>6. CASE UNCHANGED <<files, held, watched, stops, forgot, stray>>
  BY <1>0, <1>6 DEF NoneLeaked
<1> QED BY <1>1, <1>2, <1>3, <1>4, <1>5, <1>6, StepsAreThese

(* Nothing is leaked, however many descriptors there are and in whatever   *)
(* order objects open, fail and close: what is open is noted by the object *)
(* that opened it, but for those that were started again before they were  *)
(* stopped or whose constructor threw.                                     *)
THEOREM NothingLeaks == DescriptorsSpec => []NoneLeaked
<1>1. DescriptorsInit => LeakInv
  BY DescriptorsTypeInit DEF DescriptorsInit, LeakInv, OpenerKnown, NoneLeaked
<1>2. LeakInv => NoneLeaked
  BY DEF LeakInv
<1> QED BY <1>1, <1>2, LeakStep, PTL DEF DescriptorsSpec
-----------------------------------------------------------------------------
(***************************************************************************)
(* The sending by multicast.                                               *)
(***************************************************************************)
(* The adapter a call is at, and those it is done with.                    *)
AtHand(c) == IF calls[c].at \in {"interface", "ttl", "sendto"} THEN {calls[c].now} ELSE {}

Served(c) == calls[c].asked \ (calls[c].todo \cup AtHand(c))

Datagrams(c) == {<<t, calls[c].ttl>> : t \in Served(c)}

(* An adapter is asked for, to do, in hand or served, and one at a time.   *)
Sorted(c) ==
  /\ calls[c].todo \cup AtHand(c) \subseteq calls[c].asked
  /\ calls[c].todo \cap AtHand(c) = {}
  /\ At(c, "told") => calls[c].todo = {}
  /\ calls[c].at # "none" => calls[c].ttl \in Ttls

(* What a call that met no other has sent, and will return, so far.        *)
Accounted(c) ==
  /\ left[c] \subseteq Datagrams(c)
  /\ calls[c].asked # {} => (calls[c].result = ErrSuccess <=> left[c] = Datagrams(c))

(* The socket is as a call that met no other has set it.                   *)
SocketIsSet(c) ==
  /\ calls[c].at \in {"ttl", "sendto"} => interface = calls[c].now
  /\ calls[c].at = "sendto" => ttlSet = calls[c].ttl

Alone(c) == Busy(c) => \A d \in Senders \ {c} : ~Busy(d)

Own(c) == Sorted(c) /\ (c \notin mixed => Accounted(c) /\ SocketIsSet(c) /\ Alone(c))

CallsInv == SendTypeOK /\ \A c \in Senders : Own(c)

CallType ==
  [at : {"none", "next", "interface", "ttl", "sendto", "told"},
   todo : SUBSET (Interfaces \X Presence), now : Outlets,
   ttl : Ttls \cup {0}, result : {0, -1, -2, -3, -5},
   asked : SUBSET (Interfaces \X Presence)]

(* A call that begins: nothing to do, or everything and no error.          *)
Beginning ==
  {call \in CallType : /\ call.todo = call.asked /\ call.ttl \in Ttls
                       /\ \/ call.at = "told" /\ call.asked = {}
                          \/ call.at = "next" /\ call.result = ErrSuccess}
-----------------------------------------------------------------------------
LEMMA CallsInit == SendInit => CallsInv
<1> SUFFICES ASSUME SendInit PROVE CallsInv
  OBVIOUS
<1> USE DEF SendInit, NoCall, Call, ErrSuccess
<1>1. NoCall \in CallType
  BY DEF CallType, Outlets, Nobody
<1>2. SendTypeOK
  BY <1>1 DEF SendTypeOK, CallType, Outlets, Presence
<1>3. ASSUME NEW c \in Senders PROVE Own(c)
  BY <1>3 DEF Own, Sorted, Accounted, SocketIsSet, Alone, Busy, At, AtHand, Served, Datagrams
<1> QED BY <1>2, <1>3 DEF CallsInv

(* A call that begins, and those it meets.                                 *)
LEMMA CallBegins ==
  ASSUME CallsInv, NEW c \in Senders, NEW call \in Beginning, Begin(c, call)
  PROVE  CallsInv'
<1>0. /\ call \in CallType /\ call.todo = call.asked /\ call.ttl \in Ttls
      /\ \/ call.at = "told" /\ call.asked = {}
         \/ call.at = "next" /\ call.result = ErrSuccess
  BY DEF Beginning
<1>1. calls \in [Senders -> CallType] /\ left \in [Senders -> SUBSET (Outlets \X (Ttls \cup {1}))]
  BY DEF CallsInv, SendTypeOK, CallType
<1>2. /\ calls'[c] = call /\ \A d \in Senders \ {c} : calls'[d] = calls[d]
      /\ left'[c] = {} /\ \A d \in Senders \ {c} : left'[d] = left[d]
      /\ calls' \in [Senders -> CallType]
      /\ left' \in [Senders -> SUBSET (Outlets \X (Ttls \cup {1}))]
  BY <1>0, <1>1 DEF Begin
<1>3. SendTypeOK'
  BY <1>2 DEF CallsInv, SendTypeOK, CallType, Begin
<1>4. ASSUME NEW d \in Senders, d # c, d \notin mixed' PROVE ~Busy(d) /\ d \notin mixed
  BY <1>4 DEF Begin
<1>5. c \notin mixed' => \A d \in Senders \ {c} : ~Busy(d)
  BY DEF Begin
<1>6. Own(c)'
  <2>1. AtHand(c)' = {} /\ Served(c)' = {} /\ Datagrams(c)' = {}
    BY <1>0, <1>2 DEF AtHand, Served, Datagrams
  <2>2. Sorted(c)' /\ Accounted(c)' /\ SocketIsSet(c)'
    BY <1>0, <1>2, <2>1 DEF Sorted, Accounted, SocketIsSet, At
  <2>3. c \notin mixed' => Alone(c)'
    BY <1>2, <1>5 DEF Alone, Busy
  <2> QED BY <2>2, <2>3 DEF Own
<1>7. ASSUME NEW d \in Senders, d # c PROVE Own(d)'
  <2>1. /\ AtHand(d)' = AtHand(d) /\ Served(d)' = Served(d) /\ Datagrams(d)' = Datagrams(d)
        /\ calls'[d] = calls[d] /\ left'[d] = left[d]
    BY <1>2, <1>7 DEF AtHand, Served, Datagrams
  <2>2. Own(d)
    BY DEF CallsInv
  <2>3. Sorted(d)'
    BY <2>1, <2>2 DEF Own, Sorted, At
  <2>4. d \notin mixed' => Accounted(d)' /\ SocketIsSet(d)' /\ Alone(d)'
    BY <1>4, <1>7, <2>1, <2>2 DEF Own, Accounted, SocketIsSet, Alone, Busy
  <2> QED BY <2>3, <2>4 DEF Own
<1> QED BY <1>3, <1>6, <1>7 DEF CallsInv

(* A step of a call, to what follows from what it does to the call itself. *)
LEMMA GoesKeeps ==
  ASSUME CallsInv, NEW c \in Senders, Busy(c), NEW call \in CallType, Goes(c, call),
         interface' \in Outlets, ttlSet' \in Ttls \cup {1},
         left' \in [Senders -> SUBSET (Outlets \X (Ttls \cup {1}))],
         \A d \in Senders \ {c} : left'[d] = left[d],
         Sorted(c)', c \notin mixed => Accounted(c)' /\ SocketIsSet(c)'
  PROVE  CallsInv'
<1>1. calls \in [Senders -> CallType]
  BY DEF CallsInv, SendTypeOK, CallType
<1>2. /\ calls'[c] = call /\ \A d \in Senders \ {c} : calls'[d] = calls[d]
      /\ calls' \in [Senders -> CallType]
  BY <1>1 DEF Goes
<1>3. SendTypeOK'
  BY <1>2 DEF CallsInv, SendTypeOK, CallType, Goes
<1>4. Own(c)'
  <2>1. c \notin mixed => Alone(c)'
    BY <1>2 DEF CallsInv, Own, Alone, Busy
  <2> QED BY <2>1 DEF Own, Goes
<1>5. ASSUME NEW d \in Senders, d # c PROVE Own(d)'
  <2>1. /\ AtHand(d)' = AtHand(d) /\ Served(d)' = Served(d) /\ Datagrams(d)' = Datagrams(d)
        /\ calls'[d] = calls[d] /\ left'[d] = left[d]
    BY <1>2, <1>5 DEF AtHand, Served, Datagrams
  <2>2. Own(d) /\ (d \notin mixed => ~Busy(d))
    BY <1>5 DEF CallsInv, Own, Alone
  <2>3. Sorted(d)'
    BY <2>1, <2>2 DEF Own, Sorted, At
  <2>4. d \notin mixed' => Accounted(d)' /\ SocketIsSet(d)' /\ Alone(d)'
    BY <2>1, <2>2 DEF Own, Accounted, SocketIsSet, Alone, Busy, Goes
  <2> QED BY <2>3, <2>4 DEF Own
<1> QED BY <1>3, <1>4, <1>5 DEF CallsInv
-----------------------------------------------------------------------------
(* What is known of a call that takes a step.                              *)
LEMMA CallKnown ==
  ASSUME CallsInv, NEW c \in Senders
  PROVE  /\ calls[c] \in CallType /\ Own(c)
         /\ interface \in Outlets /\ ttlSet \in Ttls \cup {1}
         /\ left \in [Senders -> SUBSET (Outlets \X (Ttls \cup {1}))]
BY DEF CallsInv, SendTypeOK, CallType

LEMMA NextKeeps ==
  ASSUME CallsInv, NEW c \in Senders, NextAdapter(c)
  PROVE  CallsInv'
<1>1. Busy(c) /\ calls[c].at = "next"
  BY DEF NextAdapter, At, Busy
<1>2. left' = left /\ interface' = interface /\ ttlSet' = ttlSet
  BY DEF NextAdapter
<1>3. AtHand(c) = {}
  BY <1>1 DEF AtHand
<1>4. ASSUME NEW call \in CallType, Goes(c, call), call.asked = calls[c].asked,
             call.ttl = calls[c].ttl, call.result = calls[c].result,
             \/ call.at = "told" /\ call.todo = {} /\ calls[c].todo = {}
             \/ /\ call.at = "interface" /\ call.now \in calls[c].todo
                /\ call.todo = calls[c].todo \ {call.now}
      PROVE  CallsInv'
  <2>1. calls'[c] = call
    BY <1>4 DEF Goes, CallsInv, SendTypeOK
  <2>2. call.todo \cup AtHand(c)' = calls[c].todo /\ call.todo \cap AtHand(c)' = {}
    BY <1>4, <2>1 DEF AtHand
  <2>3. Served(c)' = Served(c) /\ Datagrams(c)' = Datagrams(c)
    BY <1>3, <1>4, <2>1, <2>2 DEF Served, Datagrams
  <2>4. Sorted(c)'
    BY <1>1, <1>3, <1>4, <2>1, <2>2, CallKnown DEF Own, Sorted, At
  <2>5. c \notin mixed => Accounted(c)' /\ SocketIsSet(c)'
    BY <1>2, <1>4, <2>1, <2>3, CallKnown DEF Own, Accounted, SocketIsSet
  <2> QED BY <1>1, <1>2, <1>4, <2>4, <2>5, CallKnown, GoesKeeps
<1>5. CASE calls[c].todo = {} /\ Goes(c, [calls[c] EXCEPT !.at = "told"])
  <2> DEFINE call == [calls[c] EXCEPT !.at = "told"]
  <2>1. /\ call \in CallType /\ call.asked = calls[c].asked /\ call.ttl = calls[c].ttl
        /\ call.result = calls[c].result /\ call.at = "told" /\ call.todo = calls[c].todo
    BY CallKnown DEF CallType
  <2> QED BY <1>4, <1>5, <2>1
<1>6. ASSUME NEW t \in calls[c].todo,
             Goes(c, [calls[c] EXCEPT !.at = "interface", !.todo = @ \ {t}, !.now = t])
      PROVE  CallsInv'
  <2> DEFINE call == [calls[c] EXCEPT !.at = "interface", !.todo = @ \ {t}, !.now = t]
  <2>1. /\ call \in CallType /\ call.asked = calls[c].asked /\ call.ttl = calls[c].ttl
        /\ call.result = calls[c].result /\ call.at = "interface"
        /\ call.todo = calls[c].todo \ {t} /\ call.now = t
    BY CallKnown DEF CallType, Outlets
  <2> QED BY <1>4, <1>6, <2>1
<1> QED BY <1>5, <1>6 DEF NextAdapter

(* An adapter that fails leaves the call without its datagram.             *)
LEMMA DoneKeeps ==
  ASSUME CallsInv, NEW c \in Senders, AtHand(c) = {calls[c].now},
         NEW error \in {ErrSuccess, ErrNoSuccess, ErrInvalidAdapter}, AdapterDone(c, error),
         interface' \in Outlets, ttlSet' \in Ttls \cup {1},
         left' \in [Senders -> SUBSET (Outlets \X (Ttls \cup {1}))],
         \A d \in Senders \ {c} : left'[d] = left[d],
         c \notin mixed =>
           left'[c] = IF error = ErrSuccess THEN left[c] \cup {<<calls[c].now, calls[c].ttl>>}
                                            ELSE left[c]
  PROVE  CallsInv'
<1>1. Busy(c)
  BY DEF AtHand, Busy
<1> DEFINE call == [calls[c] EXCEPT !.at = "next", !.result = IF error = ErrSuccess THEN @ ELSE error]
<1>2. /\ call \in CallType /\ call.at = "next" /\ call.asked = calls[c].asked
      /\ call.todo = calls[c].todo /\ call.now = calls[c].now /\ call.ttl = calls[c].ttl
      /\ call.result = IF error = ErrSuccess THEN calls[c].result ELSE error
  BY CallKnown DEF CallType, ErrNoSuccess, ErrInvalidAdapter, ErrSuccess
<1>3. Goes(c, call) /\ calls'[c] = call
  BY DEF AdapterDone, Goes, CallsInv, SendTypeOK
<1> HIDE DEF call
<1>4. AtHand(c)' = {}
  BY <1>2, <1>3 DEF AtHand
<1>5. /\ Served(c)' = Served(c) \cup {calls[c].now}
      /\ calls[c].now \in calls[c].asked /\ calls[c].now \notin Served(c)
  BY <1>2, <1>3, <1>4, CallKnown DEF Served, Own, Sorted
<1>6. /\ Datagrams(c)' = Datagrams(c) \cup {<<calls[c].now, calls[c].ttl>>}
      /\ <<calls[c].now, calls[c].ttl>> \notin Datagrams(c)
  BY <1>2, <1>3, <1>5 DEF Datagrams
<1>7. Sorted(c)'
  BY <1>1, <1>2, <1>3, <1>4, CallKnown DEF Own, Sorted, At, Busy
<1>8. ASSUME c \notin mixed PROVE Accounted(c)'
  <2>1. Accounted(c)
    BY <1>8, CallKnown DEF Own
  <2>2. CASE error = ErrSuccess
    <3> DEFINE sent == <<calls[c].now, calls[c].ttl>>
    <3>1. left'[c] = left[c] \cup {sent} /\ Datagrams(c)' = Datagrams(c) \cup {sent}
      BY <1>6, <1>8, <2>2
    <3>2. left[c] \subseteq Datagrams(c) /\ sent \notin Datagrams(c)
      BY <1>6, <2>1 DEF Accounted
    <3>3. /\ left'[c] \subseteq Datagrams(c)'
          /\ left'[c] = Datagrams(c)' <=> left[c] = Datagrams(c)
      <4> HIDE DEF sent
      <4> QED BY <3>1, <3>2
    <3>4. calls'[c].asked = calls[c].asked /\ calls'[c].result = calls[c].result
      BY <1>2, <1>3, <2>2
    <3> QED BY <2>1, <3>3, <3>4 DEF Accounted
  <2>3. CASE error # ErrSuccess
    BY <1>2, <1>3, <1>5, <1>6, <1>8, <2>1, <2>3 DEF Accounted
  <2> QED BY <2>2, <2>3
<1>9. SocketIsSet(c)'
  BY <1>2, <1>3 DEF SocketIsSet
<1> QED BY <1>1, <1>2, <1>3, <1>7, <1>8, <1>9, GoesKeeps
LEMMA InterfaceKeeps ==
  ASSUME CallsInv, NEW c \in Senders, SetInterface(c)
  PROVE  CallsInv'
<1>1. calls[c].at = "interface" /\ Busy(c) /\ AtHand(c) = {calls[c].now}
  BY DEF SetInterface, At, Busy, AtHand
<1>2. left' = left /\ ttlSet' = ttlSet
  BY DEF SetInterface
<1> DEFINE call == [calls[c] EXCEPT !.at = "ttl"]
<1>0. \/ interface' = calls[c].now /\ Goes(c, call)
      \/ \E b \in Interfaces : interface' = <<b, calls[c].now[2]>> /\ Strays(c, call)
      \/ UNCHANGED interface /\ AdapterDone(c, ErrInvalidAdapter)
  BY DEF SetInterface
<1>3. CASE interface' = calls[c].now /\ Goes(c, call)
  <2>1. call \in CallType /\ call = [calls[c] EXCEPT !.at = "ttl"] /\ calls[c].now \in Outlets
    BY CallKnown DEF CallType
  <2>2. /\ call.at = "ttl" /\ call.todo = calls[c].todo /\ call.asked = calls[c].asked
        /\ call.now = calls[c].now /\ call.ttl = calls[c].ttl /\ call.result = calls[c].result
    BY CallKnown DEF CallType
  <2>3. calls'[c] = call
    BY <1>3 DEF Goes, CallsInv, SendTypeOK
  <2> HIDE DEF call
  <2>4. AtHand(c)' = AtHand(c) /\ Served(c)' = Served(c) /\ Datagrams(c)' = Datagrams(c)
    BY <1>1, <2>2, <2>3 DEF AtHand, Served, Datagrams
  <2>5. Sorted(c)'
    BY <1>1, <2>2, <2>3, <2>4, CallKnown DEF Own, Sorted, At
  <2>6. c \notin mixed => Accounted(c)' /\ SocketIsSet(c)'
    BY <1>2, <1>3, <2>2, <2>3, <2>4, CallKnown DEF Own, Accounted, SocketIsSet
  <2> QED BY <1>1, <1>2, <1>3, <2>1, <2>5, <2>6, CallKnown, GoesKeeps
<1>4. CASE UNCHANGED interface /\ AdapterDone(c, ErrInvalidAdapter)
  <2>1. ErrInvalidAdapter # ErrSuccess
    BY DEF ErrInvalidAdapter, ErrSuccess
  <2> QED BY <1>1, <1>2, <1>4, <2>1, CallKnown, DoneKeeps
<1>5. ASSUME NEW b \in Interfaces, interface' = <<b, calls[c].now[2]>>, Strays(c, call)
      PROVE  CallsInv'
  <2>1. /\ call.at = "ttl" /\ call.todo = calls[c].todo /\ call.asked = calls[c].asked
        /\ call.now = calls[c].now /\ call.ttl = calls[c].ttl /\ call \in CallType
    BY CallKnown DEF CallType
  <2>2. calls \in [Senders -> CallType]
    BY DEF CallsInv, SendTypeOK, CallType
  <2>3. /\ calls'[c] = call /\ \A d \in Senders \ {c} : calls'[d] = calls[d]
        /\ calls' \in [Senders -> CallType] /\ mixed' = mixed \cup {c}
    BY <1>5, <2>1, <2>2 DEF Strays
  <2> HIDE DEF call
  <2>4. interface' \in Outlets
    BY <1>5, CallKnown DEF CallType, Outlets, Nobody, Presence
  <2>5. SendTypeOK'
    BY <1>2, <1>5, <2>3, <2>4 DEF CallsInv, SendTypeOK, CallType, Strays
  <2>6. Sorted(c)'
    BY <1>1, <2>1, <2>3, CallKnown DEF Own, Sorted, At, AtHand
  <2>7. ASSUME NEW d \in Senders, d # c PROVE Own(d)'
    <3>1. /\ AtHand(d)' = AtHand(d) /\ Served(d)' = Served(d) /\ Datagrams(d)' = Datagrams(d)
          /\ calls'[d] = calls[d] /\ left'[d] = left[d]
      BY <1>2, <2>3, <2>7 DEF AtHand, Served, Datagrams
    <3>2. Own(d) /\ (d \notin mixed => ~Busy(d))
      BY <1>1, <2>7 DEF CallsInv, Own, Alone
    <3>3. Sorted(d)'
      BY <3>1, <3>2 DEF Own, Sorted, At
    <3>4. d \notin mixed' => Accounted(d)' /\ SocketIsSet(d)' /\ Alone(d)'
      BY <2>3, <3>1, <3>2 DEF Own, Accounted, SocketIsSet, Alone, Busy
    <3> QED BY <3>3, <3>4 DEF Own
  <2> QED BY <2>3, <2>5, <2>6, <2>7 DEF CallsInv, Own
<1> QED BY <1>0, <1>3, <1>4, <1>5

LEMMA TtlKeeps ==
  ASSUME CallsInv, NEW c \in Senders, SetTtl(c)
  PROVE  CallsInv'
<1>1. calls[c].at = "ttl" /\ Busy(c) /\ AtHand(c) = {calls[c].now}
  BY DEF SetTtl, At, Busy, AtHand
<1>2. left' = left /\ interface' = interface
  BY DEF SetTtl
<1> DEFINE call == [calls[c] EXCEPT !.at = "sendto"]
<1>3. CASE ttlSet' = calls[c].ttl /\ Goes(c, call) /\ calls[c].ttl \in Ttls
  <2>1. call \in CallType
    BY CallKnown DEF CallType
  <2>2. /\ call.at = "sendto" /\ call.todo = calls[c].todo /\ call.asked = calls[c].asked
        /\ call.now = calls[c].now /\ call.ttl = calls[c].ttl /\ call.result = calls[c].result
    BY CallKnown DEF CallType
  <2>3. calls'[c] = call
    BY <1>3 DEF Goes, CallsInv, SendTypeOK
  <2> HIDE DEF call
  <2>4. AtHand(c)' = AtHand(c) /\ Served(c)' = Served(c) /\ Datagrams(c)' = Datagrams(c)
    BY <1>1, <2>2, <2>3 DEF AtHand, Served, Datagrams
  <2>5. Sorted(c)'
    BY <1>1, <2>2, <2>3, <2>4, CallKnown DEF Own, Sorted, At
  <2>6. c \notin mixed => Accounted(c)' /\ SocketIsSet(c)'
    BY <1>1, <1>2, <1>3, <2>2, <2>3, <2>4, CallKnown DEF Own, Accounted, SocketIsSet
  <2> QED BY <1>1, <1>2, <1>3, <2>1, <2>5, <2>6, CallKnown, GoesKeeps
<1>4. CASE UNCHANGED ttlSet /\ AdapterDone(c, ErrNoSuccess)
  <2>1. ErrNoSuccess # ErrSuccess
    BY DEF ErrNoSuccess, ErrSuccess
  <2> QED BY <1>1, <1>2, <1>4, <2>1, CallKnown, DoneKeeps
<1>5. calls[c].ttl \in Ttls
  BY <1>1, CallKnown DEF Own, Sorted
<1> QED BY <1>3, <1>4, <1>5 DEF SetTtl

LEMMA SendToKeeps ==
  ASSUME CallsInv, NEW c \in Senders, SendTo(c)
  PROVE  CallsInv'
<1>1. calls[c].at = "sendto" /\ AtHand(c) = {calls[c].now}
  BY DEF SendTo, At, AtHand
<1>2. interface' = interface /\ ttlSet' = ttlSet
  BY DEF SendTo
<1>3. CASE /\ left' = [left EXCEPT ![c] = @ \cup {<<interface, ttlSet>>}]
           /\ AdapterDone(c, ErrSuccess)
  <2>1. /\ left' \in [Senders -> SUBSET (Outlets \X (Ttls \cup {1}))]
        /\ left'[c] = left[c] \cup {<<interface, ttlSet>>}
        /\ \A d \in Senders \ {c} : left'[d] = left[d]
    BY <1>3, CallKnown
  <2>2. c \notin mixed => interface = calls[c].now /\ ttlSet = calls[c].ttl
    BY <1>1, CallKnown DEF Own, SocketIsSet
  <2> QED BY <1>1, <1>2, <1>3, <2>1, <2>2, CallKnown, DoneKeeps
<1>4. CASE UNCHANGED left /\ AdapterDone(c, ErrNoSuccess)
  <2>1. ErrNoSuccess # ErrSuccess
    BY DEF ErrNoSuccess, ErrSuccess
  <2> QED BY <1>1, <1>2, <1>4, <2>1, CallKnown, DoneKeeps
<1> QED BY <1>3, <1>4 DEF SendTo
-----------------------------------------------------------------------------
(* All three ways to send begin with the whole list, one adapter or none.  *)
LEMMA CallingKeeps ==
  ASSUME CallsInv, NEW c \in Senders, Calling(c)
  PROVE  CallsInv'
<1> USE DEF ErrSuccess, ErrNoSuccess, ErrInvalidAdapter, ErrInvalidIpAddress, ErrAdapterIsDown
<1>1. PICK ttl \in Ttls :
        \E form \in {"string", "pointer"}, data \in {"bytes", "empty", "null"} :
          \/ SendByAll(c, ttl, data)
          \/ \E a \in Interfaces : SendByIndex(c, a, ttl, form, data)
          \/ \E a \in Interfaces, address \in Addresses, valid \in BOOLEAN :
               SendByAddress(c, a, address, ttl, form, data, valid)
  BY DEF Calling
<1>2. listed \in [Interfaces -> Presence]
  BY DEF CallsInv, SendTypeOK
<1>3. ASSUME NEW result \in {0, -1, -2, -3, -5}
      PROVE  Call("told", {}, ttl, result) \in Beginning
  BY DEF Call, Beginning, CallType, Outlets, Nobody
<1>4. ASSUME NEW todo \in SUBSET (Interfaces \X Presence)
      PROVE  Call("next", todo, ttl, ErrSuccess) \in Beginning
  BY DEF Call, Beginning, CallType, Outlets, Nobody
<1>5. ASSUME NEW data \in {"bytes", "empty", "null"}, SendByAll(c, ttl, data)
      PROVE  CallsInv'
  <2> DEFINE todo == {<<a, listed[a]>> : a \in {b \in Interfaces : listed[b] # "gone"}}
  <2>1. todo \in SUBSET (Interfaces \X Presence)
    BY <1>2
  <2> HIDE DEF todo
  <2>2. PICK call \in Beginning : Begin(c, call)
    BY <1>3, <1>4, <1>5, <2>1 DEF SendByAll, todo
  <2> QED BY <2>2, CallBegins
<1>6. ASSUME NEW a \in Interfaces, NEW form \in {"string", "pointer"},
             NEW data \in {"bytes", "empty", "null"}, SendByIndex(c, a, ttl, form, data)
      PROVE  CallsInv'
  <2>1. {<<a, listed[a]>>} \in SUBSET (Interfaces \X Presence)
    BY <1>2
  <2>2. PICK call \in Beginning : Begin(c, call)
    BY <1>3, <1>4, <1>6, <2>1 DEF SendByIndex
  <2> QED BY <2>2, CallBegins
<1>7. ASSUME NEW a \in Interfaces, NEW address \in Addresses, NEW valid \in BOOLEAN,
             NEW form \in {"string", "pointer"}, NEW data \in {"bytes", "empty", "null"},
             SendByAddress(c, a, address, ttl, form, data, valid)
      PROVE  CallsInv'
  <2>1. {<<a, address>>} \in SUBSET (Interfaces \X Presence)
    BY DEF Addresses, Presence
  <2>2. PICK call \in Beginning : Begin(c, call)
    BY <1>3, <1>4, <1>7, <2>1 DEF SendByAddress
  <2> QED BY <2>2, CallBegins
<1> QED BY <1>1, <1>5, <1>6, <1>7

LEMMA ElsewhereKeeps ==
  ASSUME CallsInv, UNCHANGED <<interface, ttlSet, calls, left, mixed>>,
         machine' \in [Interfaces -> Presence], listed' \in [Interfaces -> Presence]
  PROVE  CallsInv'
<1>1. SendTypeOK'
  BY DEF CallsInv, SendTypeOK
<1>2. ASSUME NEW c \in Senders PROVE Own(c)'
  BY <1>2 DEF CallsInv, Own, Sorted, Accounted, SocketIsSet, Alone, Busy, At, AtHand, Served, Datagrams
<1> QED BY <1>1, <1>2 DEF CallsInv

LEMMA CallsStep == CallsInv /\ [SendNext]_sendVars => CallsInv'
<1> SUFFICES ASSUME CallsInv, [SendNext]_sendVars PROVE CallsInv'
  OBVIOUS
<1>1. machine \in [Interfaces -> Presence] /\ listed \in [Interfaces -> Presence]
  BY DEF CallsInv, SendTypeOK
<1>2. CASE UNCHANGED sendVars
  BY <1>1, <1>2, ElsewhereKeeps DEF sendVars
<1>3. CASE UpdateList
  BY <1>1, <1>3, ElsewhereKeeps DEF UpdateList
<1>4. ASSUME NEW a \in Interfaces, Move(a) PROVE CallsInv'
  <2>1. machine' \in [Interfaces -> Presence]
    BY <1>1, <1>4 DEF Move
  <2> QED BY <1>1, <1>4, <2>1, ElsewhereKeeps DEF Move
<1>5. ASSUME NEW c \in Senders,
             Calling(c) \/ NextAdapter(c) \/ SetInterface(c) \/ SetTtl(c) \/ SendTo(c)
      PROVE  CallsInv'
  BY <1>5, CallingKeeps, NextKeeps, InterfaceKeeps, TtlKeeps, SendToKeeps
<1> QED BY <1>2, <1>3, <1>4, <1>5 DEF SendNext

LEMMA CallsInvariant == SendSpec => []CallsInv
<1> QED BY CallsInit, CallsStep, PTL DEF SendSpec
-----------------------------------------------------------------------------
(* Every variable keeps its type, for any adapters, times to live and      *)
(* threads (SendTypeOK).                                                   *)
THEOREM SendTypeCorrect == SendSpec => []SendTypeOK
<1>1. CallsInv => SendTypeOK
  BY DEF CallsInv
<1> QED BY <1>1, CallsInvariant, PTL

(* A call that met no other returns success if, and only if, one datagram  *)
(* left by each adapter it was asked for, as asked, whatever fails on the  *)
(* way and however addresses change (MulticastServer::send and             *)
(* sendOverInterface).  What it is at, and has done, adds up to what it    *)
(* was asked, and the socket is as it set it, since nobody else uses it.   *)
THEOREM TellsWhatItSent == SendSpec => []SentAsTold
<1>1. CallsInv => SentAsTold
  <2> SUFFICES ASSUME CallsInv, NEW c \in Senders \ mixed
               PROVE  LET asked == {<<t, calls[c].ttl>> : t \in calls[c].asked}
                      IN  /\ left[c] \subseteq asked
                          /\ At(c, "told") /\ calls[c].asked # {} =>
                               (calls[c].result = ErrSuccess <=> left[c] = asked)
    BY DEF SentAsTold
  <2>1. Sorted(c) /\ Accounted(c)
    BY DEF CallsInv, Own
  <2>2. left[c] \subseteq {<<t, calls[c].ttl>> : t \in calls[c].asked}
    BY <2>1 DEF Accounted, Datagrams, Served
  <2>3. At(c, "told") => Served(c) = calls[c].asked
    BY <2>1 DEF Sorted, At, AtHand, Served
  <2> QED BY <2>1, <2>2, <2>3 DEF Accounted, Datagrams
<1> QED BY <1>1, CallsInvariant, PTL
-----------------------------------------------------------------------------
(***************************************************************************)
(* The parts side by side.                                                 *)
(***************************************************************************)

(* A behaviour is of Windows' socket, or else of that of Linux.            *)
OnWindows == part \in WindowsParts

LEMMA PartsApart ==
  /\ LinuxParts = {"send", "receive", "echo"}
  /\ WindowsParts = {"winSend", "winReceive", "winEcho"}
  /\ DOMAIN WinPartHandles = {"winNotifiers", "winTimers", "winSockets"}
BY DEF LinuxParts, WindowsParts, WinPartHandles

LEMMA SocketPartKeeps ==
  ASSUME SocketPart
  PROVE  IF OnWindows THEN WinSocketNext ELSE SocketNext
BY PartsApart DEF SocketPart, OnWindows, SocketNext, WinSocketNext

LEMMA DescriptorsPartKeeps == ASSUME DescriptorsPart PROVE DescriptorsNext
BY DEF DescriptorsPart, DescriptorsNext

(* What a part of the Windows loop has are objects of the loop.            *)
LEMMA WinPartHasObjects ==
  ASSUME NEW p \in DOMAIN WinPartHandles
  PROVE  WinPartHandles[p] \subseteq WinObjects
BY DEF WinPartHandles, WinObjects

LEMMA FewerHandles ==
  ASSUME NEW few, NEW many, few \subseteq many
  PROVE  /\ WinObjectSteps(few) => WinObjectSteps(many)
         /\ WinSourceSteps(few) => WinSourceSteps(many)
<1>1. WinObjectSteps(few) => WinObjectSteps(many)
  BY DEF WinObjectSteps
<1>2. WinSourceSteps(few) => WinSourceSteps(many)
  BY DEF WinSourceSteps
<1> QED BY <1>1, <1>2

LEMMA WinLoopPartKeeps == ASSUME WinLoopPart PROVE WinNext
<1>1. part \in DOMAIN WinPartHandles
  BY DEF WinLoopPart
<1>2. WinPartHandles[part] \subseteq WinObjects
  BY <1>1, WinPartHasObjects
<1> DEFINE few == WinPartHandles[part]
<1>3. WinObjectSteps(few) \/ WinSourceSteps(few) \/ WinLoopSteps
  BY DEF WinLoopPart
<1> HIDE DEF few
<1>4. few \subseteq WinObjects
  BY <1>2 DEF few
<1> QED BY <1>3, <1>4, FewerHandles DEF WinNext

(* A step of one part leaves the others alone.                             *)
LEMMA OneAtATime ==
  ASSUME [PartsNext]_partVars
  PROVE  /\ IF OnWindows THEN [WinSocketNext]_socketVars ELSE [SocketNext]_socketVars
         /\ [DescriptorsNext]_descriptorVars
         /\ [WinNext]_winVars
         /\ [SendNext]_sendVars
         /\ OnWindows' <=> OnWindows
<1>1. CASE SocketPart
  BY <1>1, SocketPartKeeps DEF SocketPart, otherVars, OnWindows
<1>2. CASE DescriptorsPart
  BY <1>2, DescriptorsPartKeeps DEF DescriptorsPart, otherVars, OnWindows
<1>3. CASE WinLoopPart
  BY <1>3, WinLoopPartKeeps DEF WinLoopPart, otherVars, OnWindows
<1>4. CASE MulticastPart
  BY <1>4 DEF MulticastPart, otherVars, OnWindows
<1>5. CASE AlgorithmPart
  BY <1>5 DEF AlgorithmPart, OnWindows
<1>6. CASE UNCHANGED partVars
  BY <1>6 DEF partVars, otherVars, OnWindows
<1> QED BY <1>1, <1>2, <1>3, <1>4, <1>5, <1>6 DEF PartsNext

(* Side by side each part keeps to its own specification: the socket to    *)
(* that of Linux or that of Windows, the descriptors, the event loop of    *)
(* Windows and the sending by multicast to theirs.  What is proved of a    *)
(* part alone is thereby proved of the parts together.                     *)
THEOREM EachKeepsToItsOwn ==
  PartsSpec => (SocketSpec \/ WinSocketSpec) /\ DescriptorsSpec /\ WinSpec /\ SendSpec
<1>1. PartsInit => SocketInit /\ DescriptorsInit /\ WinInit /\ SendInit
  BY DEF PartsInit
<1>2. [PartsNext]_partVars =>
        /\ [DescriptorsNext]_descriptorVars /\ [WinNext]_winVars /\ [SendNext]_sendVars
  BY OneAtATime
<1>3. OnWindows /\ [PartsNext]_partVars => OnWindows' /\ [WinSocketNext]_socketVars
  BY OneAtATime
<1>4. ~OnWindows /\ [PartsNext]_partVars => ~OnWindows' /\ [SocketNext]_socketVars
  BY OneAtATime
<1> QED BY <1>1, <1>2, <1>3, <1>4, PTL
        DEF PartsSpec, SocketSpec, WinSocketSpec, DescriptorsSpec, WinSpec, SendSpec

(* Whichever part goes on, every variable of every part keeps its type     *)
(* (PartsTypeOK).                                                          *)
THEOREM PartsTypeCorrect == PartsSpec => []PartsTypeOK
<1>1. SocketTypeOK /\ DescriptorsTypeOK /\ WinTypeOK /\ SendTypeOK => PartsTypeOK
  BY DEF PartsTypeOK
<1> QED BY <1>1, EachKeepsToItsOwn, SocketTypeCorrect, WinSocketTypeCorrect,
           DescriptorsTypeCorrect, TypeCorrect, SendTypeCorrect, PTL

(* Side by side the parts keep what each promises: whole messages that are *)
(* read without a gap, as a stream, no descriptor leaked or closed by mistake, no lost  *)
(* wake-up, and calls that tell what they have sent.                       *)
THEOREM PartsKeepPromises ==
  PartsSpec => []( /\ WholeMessages /\ NothingSkipped
                   /\ NoneLeaked /\ ClosesOwn
                   /\ WinNoLostWake /\ SentAsTold )
               /\ StreamSpec
BY EachKeepsToItsOwn, MessagesStayWhole, WinMessagesStayWhole,
   ReadingSkipsNothing, WinReadingSkipsNothing, NothingLeaks, StrayOnlyIfKept,
   WakeNeverLost, TellsWhatItSent, SocketImplementsStream, WinSocketImplementsStream, PTL
=============================================================================
