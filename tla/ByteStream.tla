----------------------------- MODULE ByteStream -----------------------------
(***************************************************************************)
(* What a socket promises to those who read from it, without its buffer,   *)
(* the calls that take several turns, handlers and time-outs.              *)
(*                                                                         *)
(* What a peer sends on a connection is to come, in its order, and is      *)
(* taken from the front.  A call that fails loses what it has taken so     *)
(* far.  A connection that goes, or is followed by another one, takes the  *)
(* end of what is to come with it; what is left comes first.               *)
(***************************************************************************)
EXTENDS Naturals, Sequences

VARIABLES
  connection,   \* the connections so far
  sent,         \* by the peer of the last one: so many bytes
  toCome,       \* sent and not yet taken: <<connection, number>>
  taken,        \* by the callers, on the last connection
  lost          \* by the callers, on the last connection

streamVars == <<connection, sent, toCome, taken, lost>>

Init ==
  /\ connection = 0 /\ sent = 0
  /\ toCome = <<>> /\ taken = <<>> /\ lost = <<>>

Front(n) == SubSeq(toCome, 1, n)

Open ==
  /\ connection' = connection + 1
  /\ \E n \in 0 .. Len(toCome) : toCome' = Front(n)
  /\ sent' = 0 /\ taken' = <<>> /\ lost' = <<>>

Send ==
  /\ sent' = sent + 1
  /\ toCome' = Append(toCome, <<connection, sent + 1>>)
  /\ UNCHANGED <<connection, taken, lost>>

(* The first n bytes go to the caller, or are lost by a call that fails.   *)
Take(n) == taken' = taken \o Front(n) /\ UNCHANGED lost

Lose(n) == lost' = lost \o Front(n) /\ UNCHANGED taken

Leave ==
  /\ \E n \in 1 .. Len(toCome) :
       /\ Take(n) \/ Lose(n)
       /\ toCome' = SubSeq(toCome, n + 1, Len(toCome))
  /\ UNCHANGED <<connection, sent>>

Break ==
  /\ \E n \in 0 .. Len(toCome) : toCome' = Front(n)
  /\ UNCHANGED <<connection, sent, taken, lost>>

Next == Open \/ Send \/ Leave \/ Break

Spec == Init /\ [][Next]_streamVars
=============================================================================
