----------------------------- MODULE DeviceLease -----------------------------
(***************************************************************************)
(* What a client of the scanner is promised, without the announcement map, *)
(* its string keys, the error paths and the exceptions of callbacks.       *)
(*                                                                         *)
(* Every announcement a device makes over a communication path is a lease: *)
(* it says what there is to know about the device and until when that      *)
(* holds.  The client's knowledge is "view".  It learns of a new or a      *)
(* changed lease at once, of a lapsed one when it listens for expiry, and  *)
(* a lease lapses only after its own time, counted from the last           *)
(* announcement, a mere repetition included.                               *)
(***************************************************************************)
EXTENDS Integers

CONSTANTS Paths,      \* communication paths: who announces, seen from where
          Facts,      \* what an announcement can say
          Terms,      \* for how long it can hold
          Nothing     \* the view of, or the lease on, a path not known

VARIABLES now,        \* the clock
          lease,      \* path -> [fact, until], or Nothing
          view,       \* path -> the fact the client was told, or Nothing
          listening,  \* the client wants to be told of devices
          mourning    \* the client wants to be told of lapsed leases

leaseVars == <<now, lease, view, listening, mourning>>

Unknown == [p \in Paths |-> Nothing]

Init == /\ now = 0
        /\ lease = Unknown
        /\ view = Unknown
        /\ listening = FALSE
        /\ mourning = FALSE

(* A device is heard: the lease is renewed, the client learns the fact.    *)
Hear(p, f, d) ==
  /\ lease' = [lease EXCEPT ![p] = [fact |-> f, until |-> now + d]]
  /\ view' = IF listening THEN [view EXCEPT ![p] = f] ELSE view
  /\ UNCHANGED <<now, listening, mourning>>

Overdue(p) == lease[p] # Nothing /\ lease[p].until < now

(* Some overdue leases lapse, and a client that mourns forgets them.       *)
Lapse(S) ==
  /\ \A p \in S : Overdue(p)
  /\ lease' = [p \in Paths |-> IF p \in S THEN Nothing ELSE lease[p]]
  /\ view' = IF mourning
               THEN [p \in Paths |-> IF p \in S THEN Nothing ELSE view[p]]
               ELSE view
  /\ UNCHANGED <<now, listening, mourning>>

(* A client that (re)subscribes is told of every lease that stands; one    *)
(* that unsubscribes knows nothing.                                        *)
Listen(b) ==
  /\ listening' = b
  /\ view' = IF b THEN [p \in Paths |-> IF lease[p] = Nothing
                                          THEN Nothing
                                          ELSE lease[p].fact]
                  ELSE Unknown
  /\ UNCHANGED <<now, lease, mourning>>

Mourn(b) ==
  /\ mourning' = b
  /\ UNCHANGED <<now, lease, view, listening>>

Pass == /\ now' = now + 1
        /\ UNCHANGED <<lease, view, listening, mourning>>

Next == \/ \E p \in Paths, f \in Facts, d \in Terms : Hear(p, f, d)
        \/ \E S \in SUBSET Paths : Lapse(S)
        \/ \E b \in BOOLEAN : Listen(b) \/ Mourn(b)
        \/ Pass

Spec == Init /\ [][Next]_leaseVars
==============================================================================
