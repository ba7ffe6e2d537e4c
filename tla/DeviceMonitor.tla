---------------------------- MODULE DeviceMonitor ----------------------------
(***************************************************************************)
(* hbm::devscan::DeviceMonitor: the registry of announced devices.         *)
(* devscanclient/lib/devicemonitor.cpp, hbm/string/split.cpp               *)
(*                                                                         *)
(* A string is the sequence of the tokens between its colons, for colons   *)
(* are all the monitor ever looks for in one: joining strings by ":" is    *)
(* concatenation, splitting is reading the tokens, and the empty string is *)
(* one empty token.                                                        *)
(*                                                                         *)
(* The client is part of the model: which callbacks it set, whether they   *)
(* throw, and "view", what it has been told and not been told otherwise.   *)
(***************************************************************************)
EXTENDS Integers, Sequences

CONSTANTS
  Adapters,       \* names of the local adapters telegrams are received by
  Messages,       \* telegrams that may be received
  Nothing,        \* no entry, no knowledge
  MaxTime         \* bound of the clock

EmptyString == <<"">>

Name == {s \in Seq(STRING) : Len(s) > 0}

(* A telegram as Json::Reader and the accessors of Json::Value show it.    *)
(* shape: no JSON at all, JSON whose root is no object, one whose params   *)
(* are none (operator[] throws), or as it should be.  expiration < 0 is a  *)
(* value asUInt() throws on.  A missing member reads as an empty string    *)
(* or as 0.  body is everything else.                                      *)
MessageType == [shape : {"garbage", "rootless", "misshapen", "object"},
                method : {"announce", "other"},
                interface : Name, uuid : Name, router : Name,
                expiration : Int, body : STRING]

ASSUME ConstantsAssumption ==
  /\ Adapters \subseteq Name
  /\ Messages \subseteq MessageType
  /\ Nothing \notin Messages
  /\ Nothing \notin [announcement : Messages, timeOfExpiry : Int]
  /\ Nothing \notin [fact : Messages, until : Int]
  /\ MaxTime \in Nat

(* The announce callback of a client: not set, or set and, when called,    *)
(* returning, throwing a std::exception or throwing something else.        *)
AnnounceCallback == {"unset", "returns", "std", "other"}

(* What the expire callback throws is all the same, and what the error     *)
(* callback throws is swallowed where it is called.                        *)
ExpireCallback == {"unset", "returns", "throws"}
ErrorCallback  == {"unset", "set"}

VARIABLES
  now,            \* std::chrono::steady_clock
  announcements,  \* m_announcements: key -> expiringEntry, or Nothing
  announceCb,     \* m_announceCb
  expireCb,       \* m_expireCb
  errorCb,        \* m_errorCb
  calls,          \* the callbacks the last operation called
  view,           \* what the client knows: path -> message, or Nothing
  promised        \* key -> how long the last announcement heard holds

vars == <<now, announcements, announceCb, expireCb, errorCb,
          calls, view, promised>>
------------------------------------------------------------------------------
(* Telegrams, keys and communication paths.                                *)

(* The first thing wrong with a telegram, in the order the code looks.     *)
Defect(m) ==
  IF m.shape = "garbage" THEN "parse"
  ELSE IF m.shape = "rootless" THEN "exception1"
  ELSE IF m.method # "announce" THEN "method"
  ELSE IF m.shape = "misshapen" THEN "exception1"
  ELSE IF m.interface = EmptyString THEN "ipaddr"
  ELSE IF m.uuid = EmptyString THEN "uuid"
  ELSE IF m.expiration < 0 THEN "exception1"
  ELSE IF m.expiration = 0 THEN "expire"
  ELSE "none"

Announcing == {m \in Messages : Defect(m) = "none"}

(* What is passed to the callbacks, straight from the telegram.            *)
Source(r, m) == <<m.uuid, r, m.interface, m.router>>

Key(r, m) == r \o m.interface \o m.uuid \o m.router

KeyOf(p) == p[2] \o p[3] \o p[1] \o p[4]

(* Faulty: a split that skips empty tokens loses the router of a device    *)
(* that is seen directly.                                                  *)
IsPathSkippingEmpty(k) == Len(SelectSeq(k, LAMBDA t : t # "")) = 4

(* Faulty: receiving and sending interface read in the wrong order.        *)
PathOfSwapped(k) == <<<<k[3]>>, <<k[2]>>, <<k[1]>>, <<k[4]>>>>

(* communicationPath: the key taken apart again, good only with 4 tokens.  *)
IsPath(k) == Len(k) = 4
PathOf(k) == <<<<k[3]>>, <<k[1]>>, <<k[2]>>, <<k[4]>>>>

Keys  == {Key(r, m) : r \in Adapters, m \in Announcing}
Paths == {Source(r, m) : r \in Adapters, m \in Announcing}

Entries == [announcement : Messages, timeOfExpiry : Int]

Known(k) == announcements[k] # Nothing

(* The names a network without ":" in them consists of.                    *)
ColonFree ==
  /\ \A r \in Adapters : Len(r) = 1
  /\ \A m \in Announcing :
       Len(m.interface) = 1 /\ Len(m.uuid) = 1 /\ Len(m.router) = 1
------------------------------------------------------------------------------
(* Calls of the client's callbacks.                                        *)

AnnounceCall(p, m) == [cb |-> "announce", path |-> p, msg |-> m]
ExpireCall(p)      == [cb |-> "expire", path |-> p]
ErrorCall(e, m)    == [cb |-> "error", error |-> e, msg |-> m]

(* callErrorCb                                                             *)
CallErrorCb(e, m) == IF errorCb = "unset" THEN {} ELSE {ErrorCall(e, m)}

(* A call of the announce callback out of the try block of                 *)
(* processReceivedAnnouncement: what it throws becomes a reported error.   *)
CallAnnounceCb(r, m) ==
  {AnnounceCall(Source(r, m), m)} \cup
  (IF announceCb = "returns" THEN {}
   ELSE CallErrorCb(IF announceCb = "std" THEN "exception1" ELSE "exception2", m))

------------------------------------------------------------------------------
(* The expiry test of checkForExpiredAnnouncements.                        *)
Overdue(e) == e.timeOfExpiry < now

(* Faulty: the time of expiry is renewed only if something has changed.    *)
RefreshedOnChange(e, m) ==
  IF e # Nothing /\ e.announcement = m THEN e
  ELSE [announcement |-> m, timeOfExpiry |-> now + m.expiration]

(* Faulty: an existing entry keeps its old message.                        *)
RefreshedTimeOnly(e, m) ==
  [announcement |-> IF e = Nothing THEN m ELSE e.announcement,
   timeOfExpiry |-> now + m.expiration]

(* What an entry becomes when its device is heard again.                   *)
Refreshed(e, m) == [announcement |-> m, timeOfExpiry |-> now + m.expiration]

(* Faulty: the message is not compared with the one stored.                *)
IsNewsAlways(e, m) == TRUE

(* Whether the announce callback is to be called for m.                    *)
IsNews(e, m) == e = Nothing \/ e.announcement # m

Init ==
  /\ now = 0
  /\ announcements = [k \in Keys |-> Nothing]
  /\ announceCb = "unset"
  /\ expireCb = "unset"
  /\ errorCb = "unset"
  /\ calls = {}
  /\ view = [p \in Paths |-> Nothing]
  /\ promised = [k \in Keys |-> 0]

(* processReceivedAnnouncement, the telegrams it drops.                    *)
Drop(m) ==
  /\ Defect(m) # "none"
  /\ calls' = CallErrorCb(Defect(m), m)
  /\ UNCHANGED <<now, announcements, announceCb, expireCb, errorCb,
                 view, promised>>

(* processReceivedAnnouncement, an announcement: the entry is stored       *)
(* first, then the callback is called.                                     *)
Accept(r, m) ==
  LET k == Key(r, m)
      tell == announceCb # "unset" /\ IsNews(announcements[k], m)
  IN /\ Defect(m) = "none"
     /\ now + m.expiration < MaxTime
     /\ announcements' =
          [announcements EXCEPT ![k] = Refreshed(announcements[k], m)]
     /\ calls' = IF tell THEN CallAnnounceCb(r, m) ELSE {}
     /\ view' = IF tell THEN [view EXCEPT ![Source(r, m)] = m] ELSE view
     /\ promised' = [promised EXCEPT ![k] = now + m.expiration]
     /\ UNCHANGED <<now, announceCb, expireCb, errorCb>>

ProcessReceivedAnnouncement(r, m) == Drop(m) \/ Accept(r, m)

(* Faulty: the known devices are not replayed.                             *)
SetAnnounceCbSilent(c) ==
  /\ announceCb' = c
  /\ calls' = {}
  /\ view' = [p \in Paths |-> Nothing]
  /\ UNCHANGED <<now, announcements, expireCb, errorCb, promised>>

(* setAnnounceCb: every known device is replayed to the new client; what   *)
(* it throws, or an unreadable key, costs that one call only.              *)
SetAnnounceCb(c) ==
  LET replayed == IF c = "unset" THEN {}
                  ELSE {k \in Keys : Known(k) /\ IsPath(k)}
      Said(p) == {k \in replayed : PathOf(k) = p}
  IN /\ announceCb' = c
     /\ calls' = {AnnounceCall(PathOf(k), announcements[k].announcement)
                    : k \in replayed}
     /\ view' = [p \in Paths |->
                   IF Said(p) = {} THEN Nothing
                   ELSE announcements[CHOOSE k \in Said(p) : TRUE].announcement]
     /\ UNCHANGED <<now, announcements, expireCb, errorCb, promised>>

SetExpireCb(c) ==
  /\ expireCb' = c
  /\ calls' = {}
  /\ UNCHANGED <<now, announcements, announceCb, errorCb, view, promised>>

SetErrorCb(c) ==
  /\ errorCb' = c
  /\ calls' = {}
  /\ UNCHANGED <<now, announcements, announceCb, expireCb, view, promised>>

(* Faulty: an exception of the expire callback leaves the loop.            *)
CheckForExpiredUncaught ==
  LET overdue == {k \in Keys : Known(k) /\ Overdue(announcements[k])}
      told == {PathOf(k) : k \in {q \in overdue : IsPath(q)}}
  IN /\ announcements' = [k \in Keys |-> IF k \in overdue /\ expireCb # "throws"
                                           THEN Nothing
                                           ELSE announcements[k]]
     /\ calls' = IF expireCb = "unset" THEN {} ELSE {ExpireCall(p) : p \in told}
     /\ view' = [p \in Paths |-> IF p \in told /\ expireCb # "unset"
                                    THEN Nothing ELSE view[p]]
     /\ UNCHANGED <<now, announceCb, expireCb, errorCb, promised>>

(* checkForExpiredAnnouncements: every overdue entry is erased, after the  *)
(* expire callback, whatever that callback does.                           *)
CheckForExpiredAnnouncements ==
  LET overdue == {k \in Keys : Known(k) /\ Overdue(announcements[k])}
      told == IF expireCb = "unset" THEN {}
              ELSE {PathOf(k) : k \in {q \in overdue : IsPath(q)}}
  IN /\ announcements' = [k \in Keys |-> IF k \in overdue
                                           THEN Nothing
                                           ELSE announcements[k]]
     /\ calls' = {ExpireCall(p) : p \in told}
     /\ view' = [p \in Paths |-> IF p \in told THEN Nothing ELSE view[p]]
     /\ UNCHANGED <<now, announceCb, expireCb, errorCb, promised>>

(* checkForExpiredTimerCb: a canceled timer (fired = FALSE) does nothing.  *)
CheckForExpiredTimerCb(fired) ==
  IF fired THEN CheckForExpiredAnnouncements
  ELSE /\ calls' = {}
       /\ UNCHANGED <<now, announcements, announceCb, expireCb, errorCb,
                      view, promised>>

(* Time passes, up to the bound.                                           *)
Tick ==
  /\ now < MaxTime
  /\ now' = now + 1
  /\ calls' = {}
  /\ UNCHANGED <<announcements, announceCb, expireCb, errorCb,
                 view, promised>>

Next ==
  \/ \E r \in Adapters, m \in Messages : ProcessReceivedAnnouncement(r, m)
  \/ \E c \in AnnounceCallback : SetAnnounceCb(c)
  \/ \E c \in ExpireCallback : SetExpireCb(c)
  \/ \E c \in ErrorCallback : SetErrorCb(c)
  \/ \E fired \in BOOLEAN : CheckForExpiredTimerCb(fired)
  \/ Tick

Spec == Init /\ [][Next]_vars

(* The clock runs, and the receiver's timer keeps firing.                  *)
Fairness == WF_vars(Tick) /\ WF_vars(CheckForExpiredTimerCb(TRUE))

FairSpec == Spec /\ Fairness
------------------------------------------------------------------------------
(* Properties.                                                             *)

Errors == {"parse", "method", "ipaddr", "uuid", "expire",
           "exception1", "exception2"}

Calls == [cb : {"announce"}, path : Paths, msg : Messages]
           \cup [cb : {"expire"}, path : Paths]
           \cup [cb : {"error"}, error : Errors, msg : Messages]

(* Every variable keeps its type.                                          *)
TypeOK ==
  /\ now \in 0 .. MaxTime
  /\ announcements \in [Keys -> Entries \cup {Nothing}]
  /\ announceCb \in AnnounceCallback
  /\ expireCb \in ExpireCallback
  /\ errorCb \in ErrorCallback
  /\ calls \subseteq Calls
  /\ view \in [Paths -> Messages \cup {Nothing}]
  /\ promised \in [Keys -> Int]

(* The client knows what the monitor knows: while an announce callback is  *)
(* set, the last thing it was told of a path is the message stored, for    *)
(* every device, whenever the callback was set and whether it threw.       *)
(* Exercises the replay of setAnnounceCb, the "something has changed"      *)
(* branch, and the storing of a new entry before its callback.             *)
ViewComplete ==
  announceCb # "unset" =>
    \A k \in Keys : Known(k) /\ IsPath(k) =>
      view[PathOf(k)] = announcements[k].announcement

(* A device is not given up before its time: an entry goes only when the   *)
(* last announcement heard, a repetition of the stored one included, has   *)
(* run out.                                                                *)
NoEarlyExpiry ==
  [][\A k \in Keys : Known(k) /\ ~Known(k)' => promised[k] < now]_vars

(* A repeated announcement is not news: receiving never tells the client   *)
(* of a known device what it was told last.                                *)
NoRepeat ==
  [][\A r \in Adapters, m \in Announcing :
       Accept(r, m) /\ Known(Key(r, m)) /\ view[Source(r, m)] = m =>
         AnnounceCall(Source(r, m), m) \notin calls']_vars

(* Each entry that goes is told to the client that set an expire callback  *)
(* (devicemonitor.h:51-53), and the client then no longer counts on it.    *)
EveryExpiryTold ==
  [][\A k \in Keys : Known(k) /\ ~Known(k)' /\ expireCb # "unset" =>
       \E c \in calls' : /\ c.cb = "expire"
                         /\ KeyOf(c.path) = k
                         /\ view'[c.path] = Nothing]_vars

(* One throwing callback does not save the others: after a check nothing   *)
(* overdue is left.                                                        *)
CheckIsThorough ==
  [][CheckForExpiredTimerCb(TRUE) =>
       \A k \in Keys : Known(k)' => announcements'[k].timeOfExpiry >= now]_vars

(* Every device that falls silent is forgotten in the end.  Silence is     *)
(* what the bound of the clock brings about: nothing is accepted that      *)
(* would outlast it.                                                       *)
Forgotten == \A k \in Keys : Known(k) ~> ~Known(k)
------------------------------------------------------------------------------
(* The monitor keeps the promise of DeviceLease: without ":" in a name a   *)
(* key is a path, and an entry is a lease.                                 *)

LeaseOf(e) == IF e = Nothing THEN Nothing
              ELSE [fact |-> e.announcement, until |-> e.timeOfExpiry]

Lease == INSTANCE DeviceLease WITH
  Facts     <- Messages,
  Terms     <- {m.expiration : m \in Announcing},
  lease     <- [p \in Paths |-> LeaseOf(announcements[KeyOf(p)])],
  listening <- announceCb # "unset",
  mourning  <- expireCb # "unset"

LeaseSpec == Lease!Spec
==============================================================================
