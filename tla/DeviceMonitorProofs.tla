------------------------- MODULE DeviceMonitorProofs -------------------------
(***************************************************************************)
(* Theorems about DeviceMonitor for every set of adapters and telegrams.   *)
(***************************************************************************)
EXTENDS DeviceMonitor, TLAPS

(* A key has as many tokens as the four names in it.                       *)
LEMMA KeyLength ==
  ASSUME NEW a \in Name, NEW b \in Name, NEW c \in Name, NEW d \in Name
  PROVE  /\ a \o b \o c \o d \in Seq(STRING)
         /\ IsPath(a \o b \o c \o d) <=>
              Len(a) = 1 /\ Len(b) = 1 /\ Len(c) = 1 /\ Len(d) = 1
<1> DEFINE A == Len(a)  B == Len(b)  C == Len(c)  D == Len(d)
           K == Len(a \o b \o c \o d)
<1>1. /\ a \in Seq(STRING) /\ b \in Seq(STRING)
      /\ c \in Seq(STRING) /\ d \in Seq(STRING)
      /\ A \in Nat /\ A > 0 /\ B \in Nat /\ B > 0
      /\ C \in Nat /\ C > 0 /\ D \in Nat /\ D > 0
  BY DEF Name
<1>2. /\ a \o b \in Seq(STRING) /\ Len(a \o b) = A + B
      /\ (a \o b) \o c \in Seq(STRING)
      /\ Len((a \o b) \o c) = Len(a \o b) + C
      /\ ((a \o b) \o c) \o d \in Seq(STRING)
      /\ K = Len((a \o b) \o c) + D
  BY <1>1
<1>3. K = ((A + B) + C) + D
  BY <1>2
<1> HIDE DEF A, B, C, D, K
<1>4. K = 4 <=> A = 1 /\ B = 1 /\ C = 1 /\ D = 1
  BY <1>1, <1>3
<1> QED BY <1>2, <1>4 DEF IsPath, A, B, C, D, K

(* A key of four tokens, taken apart, gives the names back.                *)
LEMMA PathOfKey ==
  ASSUME NEW a \in Name, NEW b \in Name, NEW c \in Name, NEW d \in Name,
         IsPath(a \o b \o c \o d)
  PROVE  PathOf(a \o b \o c \o d) = <<c, a, b, d>>
<1>1. PICK k : k = a \o b \o c \o d
  OBVIOUS
<1>2. /\ a \in Seq(STRING) /\ b \in Seq(STRING)
      /\ c \in Seq(STRING) /\ d \in Seq(STRING)
  BY DEF Name
<1>3. Len(a) = 1 /\ Len(b) = 1 /\ Len(c) = 1 /\ Len(d) = 1
  BY KeyLength
<1>4. a = <<a[1]>> /\ b = <<b[1]>> /\ c = <<c[1]>> /\ d = <<d[1]>>
  BY <1>2, <1>3
<1>5. /\ a \o b \in Seq(STRING) /\ Len(a \o b) = Len(a) + Len(b)
      /\ (a \o b) \o c \in Seq(STRING)
      /\ Len((a \o b) \o c) = Len(a \o b) + Len(c)
      /\ Len(k) = Len((a \o b) \o c) + Len(d)
  BY <1>1, <1>2
<1>6. k[1] = a[1] /\ k[2] = b[1] /\ k[3] = c[1] /\ k[4] = d[1]
  BY <1>1, <1>2, <1>3, <1>5
<1> QED BY <1>1, <1>4, <1>6 DEF PathOf

(* The monitor's names of a device: its key, and the path told to clients. *)
(* A key that can be taken apart is that of exactly one path.              *)
LEMMA KeysAndPaths ==
  /\ \A r \in Adapters, m \in Announcing :
       /\ Key(r, m) \in Keys
       /\ Source(r, m) \in Paths
       /\ KeyOf(Source(r, m)) = Key(r, m)
       /\ IsPath(Key(r, m)) => PathOf(Key(r, m)) = Source(r, m)
  /\ \A k \in Keys : IsPath(k) => PathOf(k) \in Paths /\ KeyOf(PathOf(k)) = k
<1>1. ASSUME NEW r \in Adapters, NEW m \in Announcing
      PROVE  /\ Key(r, m) \in Keys
             /\ Source(r, m) \in Paths
             /\ KeyOf(Source(r, m)) = Key(r, m)
             /\ IsPath(Key(r, m)) => PathOf(Key(r, m)) = Source(r, m)
  <2>1. Key(r, m) \in Keys /\ Source(r, m) \in Paths
    BY DEF Keys, Paths
  <2>2. KeyOf(Source(r, m)) = Key(r, m)
    BY DEF KeyOf, Source, Key
  <2>3. /\ r \in Name
        /\ m.interface \in Name /\ m.uuid \in Name /\ m.router \in Name
    BY ConstantsAssumption DEF Announcing, MessageType
  <2>4. IsPath(Key(r, m)) => PathOf(Key(r, m)) = Source(r, m)
    <3>1. Key(r, m) = r \o m.interface \o m.uuid \o m.router
      BY DEF Key
    <3>2. IsPath(Key(r, m)) =>
            PathOf(Key(r, m)) = <<m.uuid, r, m.interface, m.router>>
      BY <2>3, <3>1, PathOfKey
    <3> QED BY <3>2 DEF Source
  <2> QED BY <2>1, <2>2, <2>4
<1>2. ASSUME NEW k \in Keys, IsPath(k)
      PROVE  PathOf(k) \in Paths /\ KeyOf(PathOf(k)) = k
  <2>1. PICK r \in Adapters, m \in Announcing : k = Key(r, m)
    BY DEF Keys
  <2> QED BY <1>1, <1>2, <2>1
<1> QED BY <1>1, <1>2

LEMMA DefectType == \A m \in Messages : Defect(m) \in Errors \cup {"none"}
  BY DEF Defect, Errors

(* The calls an operation makes are calls of the three callbacks.          *)
LEMMA CallTypes ==
  /\ \A p \in Paths, m \in Messages : AnnounceCall(p, m) \in Calls
  /\ \A p \in Paths : ExpireCall(p) \in Calls
  /\ \A e \in Errors, m \in Messages : CallErrorCb(e, m) \subseteq Calls
  /\ \A r \in Adapters, m \in Announcing : CallAnnounceCb(r, m) \subseteq Calls
<1>1. \A p \in Paths, m \in Messages : AnnounceCall(p, m) \in Calls
  BY DEF AnnounceCall, Calls
<1>2. \A p \in Paths : ExpireCall(p) \in Calls
  BY DEF ExpireCall, Calls
<1>3. \A e \in Errors, m \in Messages : CallErrorCb(e, m) \subseteq Calls
  BY DEF CallErrorCb, ErrorCall, Calls
<1>4. ASSUME NEW r \in Adapters, NEW m \in Announcing
      PROVE  CallAnnounceCb(r, m) \subseteq Calls
  <2>1. m \in Messages
    BY DEF Announcing
  <2>2. AnnounceCall(Source(r, m), m) \in Calls
    BY <1>1, <2>1, KeysAndPaths
  <2>3. CallErrorCb("exception1", m) \subseteq Calls
        /\ CallErrorCb("exception2", m) \subseteq Calls
    BY <1>3, <2>1 DEF Errors
  <2> QED BY <2>2, <2>3 DEF CallAnnounceCb
<1> QED BY <1>1, <1>2, <1>3, <1>4

(* Every variable keeps its type, whatever the names and the telegrams.    *)
THEOREM TypeCorrect == Spec => []TypeOK
<1>1. Init => TypeOK
  BY ConstantsAssumption
  DEF Init, TypeOK, AnnounceCallback, ExpireCallback, ErrorCallback
<1>2. TypeOK /\ [Next]_vars => TypeOK'
  <2> SUFFICES ASSUME TypeOK, [Next]_vars
               PROVE  TypeOK'
    OBVIOUS
  <2> USE DEF TypeOK
  <2>1. ASSUME NEW m \in Messages, Drop(m)
        PROVE  TypeOK'
    BY <2>1, DefectType, CallTypes DEF Drop
  <2>2. ASSUME NEW r \in Adapters, NEW m \in Messages, Accept(r, m)
        PROVE  TypeOK'
    <3>1. m \in Announcing /\ m.expiration \in Int
      BY <2>2, ConstantsAssumption DEF Accept, Announcing, MessageType
    <3>2. Refreshed(announcements[Key(r, m)], m) \in Entries
      BY <3>1 DEF Refreshed, Entries
    <3>3. announcements' \in [Keys -> Entries \cup {Nothing}]
      BY <2>2, <3>1, <3>2, KeysAndPaths DEF Accept
    <3>4. calls' \subseteq Calls
      BY <2>2, <3>1, CallTypes DEF Accept
    <3>5. view' \in [Paths -> Messages \cup {Nothing}]
      BY <2>2, <3>1, KeysAndPaths DEF Accept
    <3>6. promised' \in [Keys -> Int]
      BY <2>2, <3>1, KeysAndPaths DEF Accept
    <3> QED BY <2>2, <3>3, <3>4, <3>5, <3>6 DEF Accept
  <2>3. ASSUME NEW c \in AnnounceCallback, SetAnnounceCb(c)
        PROVE  TypeOK'
    <3> DEFINE replayed == IF c = "unset" THEN {}
                           ELSE {k \in Keys : Known(k) /\ IsPath(k)}
               Said(p) == {k \in replayed : PathOf(k) = p}
    <3>1. \A k \in replayed : /\ k \in Keys
                              /\ PathOf(k) \in Paths
                              /\ announcements[k].announcement \in Messages
      BY KeysAndPaths DEF Known, Entries
    <3>2. calls' \subseteq Calls
      BY <2>3, <3>1, CallTypes DEF SetAnnounceCb
    <3>3. ASSUME NEW p \in Paths, Said(p) # {}
          PROVE  announcements[CHOOSE k \in Said(p) : TRUE].announcement
                   \in Messages
      <4>1. (CHOOSE k \in Said(p) : TRUE) \in Said(p)
        BY <3>3
      <4> QED BY <3>1, <4>1
    <3>4. view' = [p \in Paths |->
                     IF Said(p) = {} THEN Nothing
                     ELSE announcements[CHOOSE k \in Said(p) : TRUE].announcement]
      BY <2>3 DEF SetAnnounceCb
    <3> HIDE DEF Said
    <3>5. view' \in [Paths -> Messages \cup {Nothing}]
      BY <3>3, <3>4
    <3> QED BY <2>3, <3>2, <3>5 DEF SetAnnounceCb
  <2>4. ASSUME NEW c \in ExpireCallback, SetExpireCb(c)
        PROVE  TypeOK'
    BY <2>4 DEF SetExpireCb
  <2>5. ASSUME NEW c \in ErrorCallback, SetErrorCb(c)
        PROVE  TypeOK'
    BY <2>5 DEF SetErrorCb
  <2>6. ASSUME CheckForExpiredAnnouncements
        PROVE  TypeOK'
    <3>1. calls' \subseteq Calls
      BY <2>6, KeysAndPaths, CallTypes DEF CheckForExpiredAnnouncements
    <3> QED BY <2>6, <3>1 DEF CheckForExpiredAnnouncements
  <2>7. ASSUME NEW fired \in BOOLEAN, CheckForExpiredTimerCb(fired)
        PROVE  TypeOK'
    BY <2>6, <2>7 DEF CheckForExpiredTimerCb
  <2>8. CASE Tick
    BY <2>8, ConstantsAssumption DEF Tick
  <2>9. CASE UNCHANGED vars
    BY <2>9 DEF vars
  <2> QED BY <2>1, <2>2, <2>3, <2>4, <2>5, <2>7, <2>8, <2>9
          DEF Next, ProcessReceivedAnnouncement
<1> QED BY <1>1, <1>2, PTL DEF Spec
------------------------------------------------------------------------------
(* NoEarlyExpiry holds because an entry always carries the time promised   *)
(* by the last announcement, repeated or not.                              *)
PromiseKept ==
  \A k \in Keys : Known(k) => announcements[k].timeOfExpiry = promised[k]

LEMMA PromiseKeptStep == TypeOK /\ PromiseKept /\ [Next]_vars => PromiseKept'
<1> SUFFICES ASSUME TypeOK, PromiseKept, [Next]_vars
             PROVE  PromiseKept'
  OBVIOUS
<1> USE DEF PromiseKept, Known
<1>1. ASSUME NEW r \in Adapters, NEW m \in Messages, Accept(r, m)
      PROVE  PromiseKept'
  <2>1. Key(r, m) \in Keys
    BY <1>1, KeysAndPaths DEF Accept, Announcing
  <2>2. /\ announcements'[Key(r, m)].timeOfExpiry = now + m.expiration
        /\ promised'[Key(r, m)] = now + m.expiration
    BY <1>1, <2>1 DEF Accept, Refreshed, TypeOK
  <2>3. \A k \in Keys : k # Key(r, m) =>
          announcements'[k] = announcements[k] /\ promised'[k] = promised[k]
    BY <1>1, <2>1 DEF Accept, TypeOK
  <2> QED BY <2>2, <2>3
<1>2. ASSUME CheckForExpiredAnnouncements
      PROVE  PromiseKept'
  BY <1>2 DEF CheckForExpiredAnnouncements, TypeOK
<1>3. CASE announcements' = announcements /\ promised' = promised
  BY <1>3
<1> QED BY <1>1, <1>2, <1>3
        DEF Next, ProcessReceivedAnnouncement, Drop, SetAnnounceCb,
            SetExpireCb, SetErrorCb, CheckForExpiredTimerCb, Tick, vars

(* An entry goes in checkForExpiredAnnouncements only.                     *)
LEMMA OnlyExpiryForgets ==
  ASSUME TypeOK, [Next]_vars, NEW k \in Keys, Known(k), ~Known(k)'
  PROVE  CheckForExpiredAnnouncements
<1>1. ASSUME NEW r \in Adapters, NEW m \in Messages, Accept(r, m)
      PROVE  FALSE
  <2>1. m.expiration \in Int /\ now \in Int
    BY ConstantsAssumption DEF MessageType, TypeOK
  <2>2. Refreshed(announcements[Key(r, m)], m) # Nothing
    BY <2>1, ConstantsAssumption DEF Refreshed
  <2> QED BY <1>1, <2>2 DEF Accept, Known, TypeOK
<1>2. CASE announcements' = announcements
  BY <1>2 DEF Known
<1> QED BY <1>1, <1>2
        DEF Next, ProcessReceivedAnnouncement, Drop, SetAnnounceCb, SetExpireCb, SetErrorCb,
            CheckForExpiredTimerCb, Tick, vars

(* A device is never given up before the last announcement heard from it   *)
(* has run out.                                                            *)
THEOREM ExpiryNeverEarly == Spec => NoEarlyExpiry
<1>1. Init => PromiseKept
  BY DEF Init, PromiseKept, Known
<1>2. ASSUME TypeOK, PromiseKept, [Next]_vars
      PROVE  [\A k \in Keys : Known(k) /\ ~Known(k)' => promised[k] < now]_vars
  <2> SUFFICES ASSUME NEW k \in Keys, Known(k), ~Known(k)'
               PROVE  promised[k] < now
    OBVIOUS
  <2>1. CheckForExpiredAnnouncements
    BY <1>2, OnlyExpiryForgets
  <2>2. Overdue(announcements[k])
    BY <2>1 DEF CheckForExpiredAnnouncements, Known
  <2> QED BY <1>2, <2>2 DEF Overdue, PromiseKept
<1> QED BY <1>1, <1>2, PromiseKeptStep, TypeCorrect, PTL
        DEF Spec, NoEarlyExpiry
------------------------------------------------------------------------------
(* The client's view is complete, names with ":" in them included.  The    *)
(* invariant is inductive given the types, because a key that can be taken *)
(* apart belongs to one path only (KeysAndPaths): what is told or taken    *)
(* back of one device leaves the view of every other alone.                *)
LEMMA ViewCompleteStep == TypeOK /\ ViewComplete /\ [Next]_vars => ViewComplete'
<1> SUFFICES ASSUME TypeOK, ViewComplete, [Next]_vars,
                    announceCb' # "unset",
                    NEW k \in Keys, Known(k)', IsPath(k)
             PROVE  view'[PathOf(k)] = announcements'[k].announcement
  BY DEF ViewComplete, Known
<1>0. PathOf(k) \in Paths /\ KeyOf(PathOf(k)) = k
  BY KeysAndPaths
<1>1. ASSUME NEW r \in Adapters, NEW m \in Messages, Accept(r, m)
      PROVE  view'[PathOf(k)] = announcements'[k].announcement
  <2>1. m \in Announcing
    BY <1>1 DEF Accept, Announcing
  <2>2. Key(r, m) \in Keys /\ Source(r, m) \in Paths
        /\ KeyOf(Source(r, m)) = Key(r, m)
        /\ (IsPath(Key(r, m)) => PathOf(Key(r, m)) = Source(r, m))
    BY <2>1, KeysAndPaths
  <2>3. announceCb # "unset"
    BY <1>1 DEF Accept
  <2>4. CASE k = Key(r, m)
    <3>1. PathOf(k) = Source(r, m) /\ announcements'[k].announcement = m
      BY <1>1, <2>2, <2>4 DEF Accept, Refreshed, TypeOK
    <3>2. CASE IsNews(announcements[k], m)
      BY <1>1, <2>2, <2>3, <2>4, <3>1, <3>2 DEF Accept, TypeOK
    <3>3. CASE ~IsNews(announcements[k], m)
      <4>1. view' = view
        BY <1>1, <2>4, <3>3 DEF Accept
      <4>2. Known(k) /\ announcements[k].announcement = m
        BY <3>3 DEF IsNews, Known
      <4> QED BY <2>3, <3>1, <4>1, <4>2 DEF ViewComplete
    <3> QED BY <3>2, <3>3
  <2>5. CASE k # Key(r, m)
    <3>1. PathOf(k) # Source(r, m)
      BY <1>0, <2>2, <2>5
    <3>2. announcements'[k] = announcements[k] /\ Known(k)
      BY <1>1, <2>2, <2>5 DEF Accept, TypeOK, Known
    <3>3. view'[PathOf(k)] = view[PathOf(k)]
      BY <1>0, <1>1, <2>2, <3>1 DEF Accept, TypeOK
    <3> QED BY <2>3, <3>2, <3>3 DEF ViewComplete
  <2> QED BY <2>4, <2>5
<1>2. ASSUME NEW c \in AnnounceCallback, SetAnnounceCb(c)
      PROVE  view'[PathOf(k)] = announcements'[k].announcement
  <2> DEFINE replayed == IF c = "unset" THEN {}
                         ELSE {q \in Keys : Known(q) /\ IsPath(q)}
             Said == {q \in replayed : PathOf(q) = PathOf(k)}
  <2>1. announcements' = announcements /\ c # "unset" /\ Known(k)
    BY <1>2 DEF SetAnnounceCb, Known
  <2>2. Said = {k}
    BY <1>0, <2>1, KeysAndPaths
  <2>3. (CHOOSE q \in Said : TRUE) = k
    BY <2>2
  <2>4. view'[PathOf(k)] =
          IF Said = {} THEN Nothing
          ELSE announcements[CHOOSE q \in Said : TRUE].announcement
    BY <1>0, <1>2 DEF SetAnnounceCb
  <2> QED BY <2>1, <2>2, <2>3, <2>4
<1>3. ASSUME CheckForExpiredAnnouncements
      PROVE  view'[PathOf(k)] = announcements'[k].announcement
  <2> DEFINE overdue == {q \in Keys : Known(q) /\ Overdue(announcements[q])}
             told == IF expireCb = "unset" THEN {}
                     ELSE {PathOf(q) : q \in {x \in overdue : IsPath(x)}}
  <2>1. k \notin overdue /\ announcements'[k] = announcements[k] /\ Known(k)
    BY <1>3 DEF CheckForExpiredAnnouncements, Known
  <2>2. PathOf(k) \notin told
    BY <1>0, <2>1, KeysAndPaths
  <2>3. view'[PathOf(k)] = IF PathOf(k) \in told THEN Nothing
                                                 ELSE view[PathOf(k)]
    BY <1>0, <1>3 DEF CheckForExpiredAnnouncements
  <2>4. announceCb # "unset"
    BY <1>3 DEF CheckForExpiredAnnouncements
  <2> QED BY <2>1, <2>2, <2>3, <2>4 DEF ViewComplete
<1>4. CASE UNCHANGED <<announcements, announceCb, view>>
  BY <1>4 DEF ViewComplete, Known
<1> QED BY <1>1, <1>2, <1>3, <1>4
        DEF Next, ProcessReceivedAnnouncement, Drop, SetExpireCb, SetErrorCb,
            CheckForExpiredTimerCb, Tick, vars

(* A client that is listening knows every device the monitor knows, with   *)
(* the message the monitor keeps.                                          *)
THEOREM ClientViewComplete == Spec => []ViewComplete
<1>1. Init => ViewComplete
  BY DEF Init, ViewComplete
<1> QED BY <1>1, ViewCompleteStep, TypeCorrect, PTL DEF Spec
------------------------------------------------------------------------------
(* Without ":" in names, keys and paths are in bijection.                  *)
LEMMA KeyPerPath ==
  ASSUME ColonFree
  PROVE  /\ \A k \in Keys : IsPath(k)
         /\ \A p \in Paths : KeyOf(p) \in Keys /\ PathOf(KeyOf(p)) = p
<1>1. ASSUME NEW r \in Adapters, NEW m \in Announcing
      PROVE  IsPath(Key(r, m))
  <2>1. /\ r \in Name
        /\ m.interface \in Name /\ m.uuid \in Name /\ m.router \in Name
    BY ConstantsAssumption DEF Announcing, MessageType
  <2>2. Len(r) = 1 /\ Len(m.interface) = 1 /\ Len(m.uuid) = 1 /\ Len(m.router) = 1
    BY ColonFree DEF ColonFree
  <2> QED BY <2>1, <2>2, KeyLength DEF Key
<1>2. \A k \in Keys : IsPath(k)
  BY <1>1 DEF Keys
<1>3. ASSUME NEW p \in Paths
      PROVE  KeyOf(p) \in Keys /\ PathOf(KeyOf(p)) = p
  <2>1. PICK r \in Adapters, m \in Announcing : p = Source(r, m)
    BY DEF Paths
  <2> QED BY <1>1, <2>1, KeysAndPaths
<1> QED BY <1>2, <1>3

(* A repeated announcement is not news: a device the monitor knows is not  *)
(* announced again with the message its client was told last (the          *)
(* comparison in processReceivedAnnouncement).  The message stored and the *)
(* one told are the same one (ViewComplete), if there is a path for each   *)
(* key: of a key two paths share, the second message takes the place of    *)
(* the first, which is news again when it is repeated.                     *)
THEOREM RepeatedIsNotNews ==
  ASSUME ColonFree
  PROVE  Spec => NoRepeat
<1>1. ASSUME TypeOK, ViewComplete,
             NEW r \in Adapters, NEW m \in Announcing,
             Accept(r, m), Known(Key(r, m)), view[Source(r, m)] = m
      PROVE  AnnounceCall(Source(r, m), m) \notin calls'
  <2>1. Key(r, m) \in Keys /\ IsPath(Key(r, m)) /\ PathOf(Key(r, m)) = Source(r, m)
    BY KeysAndPaths, KeyPerPath
  <2>2. announceCb # "unset" => announcements[Key(r, m)].announcement = m
    BY <1>1, <2>1 DEF ViewComplete
  <2>3. announceCb # "unset" => ~IsNews(announcements[Key(r, m)], m)
    BY <1>1, <2>2 DEF IsNews, Known
  <2>4. calls' = {}
    BY <1>1, <2>3 DEF Accept
  <2> QED BY <2>4
<1>2. TypeOK /\ ViewComplete =>
        [\A r \in Adapters, m \in Announcing :
           Accept(r, m) /\ Known(Key(r, m)) /\ view[Source(r, m)] = m =>
             AnnounceCall(Source(r, m), m) \notin calls']_vars
  BY <1>1
<1> QED BY <1>2, TypeCorrect, ClientViewComplete, PTL DEF NoRepeat

(* Each entry that goes is told to the client that set an expire callback, *)
(* whatever the callback does: the path it is told is that of the key, and *)
(* the client no longer counts on the device (devicemonitor.h:51-53).  The *)
(* key of a name with ":" in it is no path, and such an entry goes untold. *)
THEOREM ExpiryIsTold ==
  ASSUME ColonFree
  PROVE  Spec => EveryExpiryTold
<1>1. ASSUME TypeOK, [Next]_vars,
             NEW k \in Keys, Known(k), ~Known(k)', expireCb # "unset"
      PROVE  \E c \in calls' : /\ c.cb = "expire"
                               /\ KeyOf(c.path) = k
                               /\ view'[c.path] = Nothing
  <2>1. CheckForExpiredAnnouncements
    BY <1>1, OnlyExpiryForgets
  <2>2. IsPath(k) /\ PathOf(k) \in Paths /\ KeyOf(PathOf(k)) = k
    BY KeysAndPaths, KeyPerPath
  <2> DEFINE overdue == {q \in Keys : Known(q) /\ Overdue(announcements[q])}
             told == {PathOf(q) : q \in {x \in overdue : IsPath(x)}}
  <2>3. k \in overdue
    BY <1>1, <2>1 DEF CheckForExpiredAnnouncements, Known
  <2>4. PathOf(k) \in told
    BY <2>2, <2>3
  <2>5. ExpireCall(PathOf(k)) \in calls' /\ view'[PathOf(k)] = Nothing
    BY <1>1, <2>1, <2>2, <2>4 DEF CheckForExpiredAnnouncements
  <2>6. /\ ExpireCall(PathOf(k)).cb = "expire"
        /\ ExpireCall(PathOf(k)).path = PathOf(k)
    BY DEF ExpireCall
  <2> QED BY <2>2, <2>5, <2>6
<1>2. TypeOK /\ [Next]_vars =>
        [\A k \in Keys : Known(k) /\ ~Known(k)' /\ expireCb # "unset" =>
           \E c \in calls' : /\ c.cb = "expire"
                             /\ KeyOf(c.path) = k
                             /\ view'[c.path] = Nothing]_vars
  BY <1>1
<1> QED BY <1>2, TypeCorrect, PTL DEF Spec, EveryExpiryTold

(* One throwing callback does not save the others: after a check whose     *)
(* timer fired nothing overdue is left, names with ":" in them included.   *)
THEOREM CheckLeavesNoneOverdue == Spec => CheckIsThorough
<1>1. ASSUME TypeOK, CheckForExpiredTimerCb(TRUE), NEW k \in Keys, Known(k)'
      PROVE  announcements'[k].timeOfExpiry >= now
  <2>1. ~Overdue(announcements[k]) /\ announcements'[k] = announcements[k] /\ Known(k)
    BY <1>1 DEF CheckForExpiredTimerCb, CheckForExpiredAnnouncements, Known
  <2>2. announcements[k].timeOfExpiry \in Int /\ now \in Int
    BY <1>1, <2>1 DEF TypeOK, Known, Entries
  <2> QED BY <2>1, <2>2 DEF Overdue
<1>2. TypeOK =>
        [CheckForExpiredTimerCb(TRUE) =>
           \A k \in Keys : Known(k)' => announcements'[k].timeOfExpiry >= now]_vars
  BY <1>1
<1> QED BY <1>2, TypeCorrect, PTL DEF CheckIsThorough
------------------------------------------------------------------------------
(* Refinement of DeviceLease.                                              *)

(* A step of the monitor is a step of the lease, or none.                  *)
LEMMA LeaseStep ==
  ASSUME ColonFree, TypeOK, ViewComplete, [Next]_vars
  PROVE  [Lease!Next]_(Lease!leaseVars)
<1> DEFINE lease == [p \in Paths |-> LeaseOf(announcements[KeyOf(p)])]
<1>0. /\ \A k \in Keys : IsPath(k) /\ PathOf(k) \in Paths /\ KeyOf(PathOf(k)) = k
      /\ \A p \in Paths : KeyOf(p) \in Keys /\ PathOf(KeyOf(p)) = p
  BY KeyPerPath, KeysAndPaths
<1>1. \A k \in Keys : LeaseOf(announcements[k]) = Nothing <=> ~Known(k)
  BY ConstantsAssumption DEF TypeOK, LeaseOf, Known, Entries
<1>2. ASSUME NEW r \in Adapters, NEW m \in Messages, Accept(r, m)
      PROVE  Lease!Next
  <2> DEFINE s == Source(r, m)
  <2>1. /\ m \in Announcing /\ m.expiration \in Int /\ now \in Int
        /\ Key(r, m) \in Keys /\ s \in Paths /\ KeyOf(s) = Key(r, m)
        /\ PathOf(Key(r, m)) = s
    BY <1>0, <1>2, KeysAndPaths, ConstantsAssumption
    DEF Accept, Announcing, MessageType, TypeOK
  <2>2. [p \in Paths |-> LeaseOf(announcements'[KeyOf(p)])] =
          [lease EXCEPT ![s] = [fact |-> m, until |-> now + m.expiration]]
    <3>1. LeaseOf(announcements'[KeyOf(s)]) =
            [fact |-> m, until |-> now + m.expiration]
      <4>1. announcements'[KeyOf(s)] = Refreshed(announcements[Key(r, m)], m)
        BY <1>2, <2>1 DEF Accept, TypeOK
      <4>2. announcements'[KeyOf(s)] # Nothing
        BY <2>1, <4>1, ConstantsAssumption DEF Refreshed
      <4> QED BY <4>1, <4>2 DEF LeaseOf, Refreshed
    <3>2. \A p \in Paths : p # s => announcements'[KeyOf(p)] = announcements[KeyOf(p)]
      <4>1. \A p \in Paths : p # s => KeyOf(p) # Key(r, m)
        BY <1>0, <2>1
      <4> QED BY <1>2, <4>1 DEF Accept
    <3> QED BY <2>1, <3>1, <3>2
  <2>3. view' = IF announceCb # "unset" THEN [view EXCEPT ![s] = m] ELSE view
    <3>1. CASE announceCb # "unset" /\ ~IsNews(announcements[Key(r, m)], m)
      <4>1. view[s] = m
        BY <1>0, <2>1, <3>1 DEF ViewComplete, IsNews, Known
      <4> QED BY <1>2, <2>1, <3>1, <4>1 DEF Accept, TypeOK
    <3>2. CASE ~(announceCb # "unset" /\ ~IsNews(announcements[Key(r, m)], m))
      BY <1>2, <3>2 DEF Accept
    <3> QED BY <3>1, <3>2
  <2>4. UNCHANGED <<now, announceCb, expireCb>>
    BY <1>2 DEF Accept
  <2>5. Lease!Hear(s, m, m.expiration)
    BY <2>2, <2>3, <2>4 DEF Lease!Hear
  <2> QED BY <2>1, <2>5 DEF Lease!Next
<1>3. ASSUME NEW c \in AnnounceCallback, SetAnnounceCb(c)
      PROVE  Lease!Next
  <2> DEFINE Said(p) == {k \in IF c = "unset" THEN {}
                               ELSE {q \in Keys : Known(q) /\ IsPath(q)}
                           : PathOf(k) = p}
  <2>1. view' = [p \in Paths |->
                   IF Said(p) = {} THEN Nothing
                   ELSE announcements[CHOOSE k \in Said(p) : TRUE].announcement]
    BY <1>3 DEF SetAnnounceCb
  <2>2. view' = IF c # "unset"
                  THEN [p \in Paths |-> IF lease[p] = Nothing THEN Nothing
                                                              ELSE lease[p].fact]
                  ELSE [p \in Paths |-> Nothing]
    <3>1. CASE c = "unset"
      <4>1. \A p \in Paths : Said(p) = {}
        BY <3>1
      <4> QED BY <2>1, <3>1, <4>1
    <3>2. CASE c # "unset"
      <4>1. ASSUME NEW p \in Paths
            PROVE  (IF Said(p) = {} THEN Nothing
                    ELSE announcements[CHOOSE k \in Said(p) : TRUE].announcement)
                   = IF lease[p] = Nothing THEN Nothing ELSE lease[p].fact
        <5>1. Said(p) = IF Known(KeyOf(p)) THEN {KeyOf(p)} ELSE {}
          BY <1>0, <3>2
        <5>2. CASE Known(KeyOf(p))
          <6>1. (CHOOSE k \in Said(p) : TRUE) = KeyOf(p)
            BY <5>1, <5>2
          <6>2. lease[p] # Nothing
                /\ lease[p].fact = announcements[KeyOf(p)].announcement
            BY <1>0, <1>1, <5>2 DEF LeaseOf, Known
          <6> QED BY <5>1, <5>2, <6>1, <6>2
        <5>3. CASE ~Known(KeyOf(p))
          BY <1>0, <1>1, <5>1, <5>3
        <5> QED BY <5>2, <5>3
      <4> HIDE DEF Said, lease
      <4> QED BY <2>1, <3>2, <4>1
    <3> QED BY <3>1, <3>2
  <2>3. announceCb' = c /\ UNCHANGED <<now, announcements, expireCb>>
    BY <1>3 DEF SetAnnounceCb
  <2>4. Lease!Listen(c # "unset")
    BY <2>2, <2>3 DEF Lease!Listen, Lease!Unknown
  <2> QED BY <2>4 DEF Lease!Next
<1>4. ASSUME NEW c \in ExpireCallback, SetExpireCb(c)
      PROVE  Lease!Next
  <2>1. Lease!Mourn(c # "unset")
    BY <1>4 DEF SetExpireCb, Lease!Mourn
  <2> QED BY <2>1 DEF Lease!Next
<1>5. ASSUME CheckForExpiredAnnouncements
      PROVE  Lease!Next
  <2> DEFINE overdue == {k \in Keys : Known(k) /\ Overdue(announcements[k])}
             told == IF expireCb = "unset" THEN {}
                     ELSE {PathOf(k) : k \in {q \in overdue : IsPath(q)}}
             S == {p \in Paths : KeyOf(p) \in overdue}
  <2>1. \A p \in S : Lease!Overdue(p)
    BY <1>0, <1>1 DEF Lease!Overdue, LeaseOf, Overdue, Known
  <2>2. [p \in Paths |-> LeaseOf(announcements'[KeyOf(p)])] =
          [p \in Paths |-> IF p \in S THEN Nothing ELSE lease[p]]
    BY <1>0, <1>5 DEF CheckForExpiredAnnouncements, LeaseOf
  <2>3. \A p \in Paths : p \in told <=> expireCb # "unset" /\ p \in S
    BY <1>0
  <2>4. view' = IF expireCb # "unset"
                  THEN [p \in Paths |-> IF p \in S THEN Nothing ELSE view[p]]
                  ELSE view
    BY <1>5, <2>3 DEF CheckForExpiredAnnouncements, TypeOK
  <2>5. UNCHANGED <<now, announceCb, expireCb>>
    BY <1>5 DEF CheckForExpiredAnnouncements
  <2>6. Lease!Lapse(S)
    BY <2>1, <2>2, <2>4, <2>5 DEF Lease!Lapse
  <2> QED BY <2>6 DEF Lease!Next
<1>6. CASE Tick
  <2>1. Lease!Pass
    BY <1>6 DEF Tick, Lease!Pass
  <2> QED BY <2>1 DEF Lease!Next
<1>7. CASE UNCHANGED <<now, announcements, announceCb, expireCb, view>>
  BY <1>7 DEF Lease!leaseVars
<1> QED BY <1>2, <1>3, <1>4, <1>5, <1>6, <1>7
        DEF Next, ProcessReceivedAnnouncement, Drop, SetErrorCb,
            CheckForExpiredTimerCb, vars

(* The monitor, with its string keys, error paths and throwing callbacks,  *)
(* implements the lease promised to its client.                            *)
THEOREM MonitorImplementsLease ==
  ASSUME ColonFree
  PROVE  Spec => LeaseSpec
<1>1. Init => Lease!Init
  BY KeyPerPath DEF Init, Lease!Init, Lease!Unknown, LeaseOf
<1>2. TypeOK /\ ViewComplete /\ [Next]_vars => [Lease!Next]_(Lease!leaseVars)
  BY LeaseStep
<1> QED BY <1>1, <1>2, TypeCorrect, ClientViewComplete, PTL
        DEF Spec, LeaseSpec, Lease!Spec
==============================================================================
