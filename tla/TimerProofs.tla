----------------------------- MODULE TimerProofs -----------------------------
(***************************************************************************)
(* Theorems about Timer, for any threads, settings, cancellations and      *)
(* expirations, and however deep handlers call the timer again: its types, *)
(* and who is told what until two threads meet in the timer.  Until then   *)
(* one thread at a time is in a call, and finds what the last one left.    *)
(***************************************************************************)
EXTENDS Timer, SequenceTheorems, TLAPS

(* A sequence without its last element.                                    *)
LEMMA AllButLast ==
  ASSUME NEW F, NEW s \in Seq(F), s # <<>>
  PROVE  /\ SubSeq(s, 1, Len(s) - 1) \in Seq(F)
         /\ Len(SubSeq(s, 1, Len(s) - 1)) = Len(s) - 1
         /\ \A i \in 1 .. Len(s) - 1 : SubSeq(s, 1, Len(s) - 1)[i] = s[i]
<1>1. PICK n \in Nat : n = Len(s) - 1
  OBVIOUS
<1>2. \A i \in 1 .. n : s[i] \in F
  BY <1>1
<1>3. 1 \in Int /\ n \in Int
  BY <1>1
<1>4. /\ SubSeq(s, 1, n) \in Seq(F)
      /\ Len(SubSeq(s, 1, n)) = IF 1 <= n THEN n - 1 + 1 ELSE 0
      /\ \A i \in 1 .. n - 1 + 1 : SubSeq(s, 1, n)[i] = s[1 + i - 1]
  BY <1>2, <1>3, SubSeqProperties
<1>5. Len(SubSeq(s, 1, n)) = n
  BY <1>1, <1>4
<1>6. ASSUME NEW i \in 1 .. n PROVE SubSeq(s, 1, n)[i] = s[i]
  <2>1. i \in 1 .. n - 1 + 1 /\ 1 + i - 1 = i
    BY <1>1
  <2> QED BY <1>4, <2>1
<1> QED BY <1>1, <1>4, <1>5, <1>6

(* What is done with the stack of a thread.                                *)
LEMMA PushStack ==
  ASSUME NEW F, stack \in [Threads -> Seq(F)], NEW t \in Threads, NEW c \in F,
         Push(t, c)
  PROVE  /\ stack' \in [Threads -> Seq(F)]
         /\ \A u \in Threads \ {t} : stack'[u] = stack[u]
         /\ Len(stack'[t]) = Len(stack[t]) + 1
         /\ \A i \in 1 .. Len(stack[t]) : stack'[t][i] = stack[t][i]
         /\ stack'[t][Len(stack[t]) + 1] = c
<1>1. stack'[t] = Append(stack[t], c) /\ stack[t] \in Seq(F)
  BY DEF Push
<1>2. stack' \in [Threads -> Seq(F)]
  BY DEF Push
<1>3. \A u \in Threads \ {t} : stack'[u] = stack[u]
  BY DEF Push
<1> QED BY <1>1, <1>2, <1>3, AppendProperties

LEMMA PopStack ==
  ASSUME NEW F, stack \in [Threads -> Seq(F)], NEW t \in Threads,
         stack[t] # <<>>, Pop(t)
  PROVE  /\ stack' \in [Threads -> Seq(F)]
         /\ \A u \in Threads \ {t} : stack'[u] = stack[u]
         /\ Len(stack'[t]) = Len(stack[t]) - 1
         /\ \A i \in 1 .. Len(stack[t]) - 1 : stack'[t][i] = stack[t][i]
<1> DEFINE s == stack[t]
<1>1. s \in Seq(F) /\ Len(s) \in Nat \ {0}
  OBVIOUS
<1>2. stack'[t] = SubSeq(s, 1, Len(s) - 1)
  BY DEF Pop
<1>3. /\ SubSeq(s, 1, Len(s) - 1) \in Seq(F)
      /\ Len(SubSeq(s, 1, Len(s) - 1)) = Len(s) - 1
      /\ \A i \in 1 .. Len(s) - 1 : SubSeq(s, 1, Len(s) - 1)[i] = s[i]
  BY <1>1, AllButLast
<1>4. \A u \in Threads \ {t} : stack'[u] = stack[u]
  BY DEF Pop
<1>5. stack' \in [Threads -> Seq(F)]
  BY <1>3 DEF Pop
<1> QED BY <1>2, <1>3, <1>4, <1>5

LEMMA ReplaceTop ==
  ASSUME NEW F, stack \in [Threads -> Seq(F)], NEW t \in Threads,
         stack[t] # <<>>, NEW c \in F,
         stack' = [stack EXCEPT ![t] = [@ EXCEPT ![Len(stack[t])] = c]]
  PROVE  /\ stack' \in [Threads -> Seq(F)]
         /\ \A u \in Threads \ {t} : stack'[u] = stack[u]
         /\ Len(stack'[t]) = Len(stack[t])
         /\ \A i \in 1 .. Len(stack[t]) - 1 : stack'[t][i] = stack[t][i]
         /\ stack'[t][Len(stack[t])] = c
<1> DEFINE s == stack[t]
           new == [s EXCEPT ![Len(s)] = c]
<1>1. s \in Seq(F) /\ Len(s) \in Nat \ {0} /\ Len(s) \in DOMAIN s
  OBVIOUS
<1>2. /\ new \in Seq(F) /\ Len(new) = Len(s) /\ new[Len(s)] = c
      /\ \A i \in 1 .. Len(s) - 1 : new[i] = s[i]
  BY <1>1, ExceptSeq
<1>3. stack'[t] = new /\ \A u \in Threads \ {t} : stack'[u] = stack[u]
  OBVIOUS
<1> QED BY <1>2, <1>3

LEMMA GotoStack ==
  ASSUME stack \in [Threads -> Seq(Frame)], NEW t \in Threads, stack[t] # <<>>,
         NEW at \in {"call", "in", "get", "disarm", "settime"}, Goto(t, at)
  PROVE  /\ stack' \in [Threads -> Seq(Frame)]
         /\ \A u \in Threads \ {t} : stack'[u] = stack[u]
         /\ Len(stack'[t]) = Len(stack[t])
         /\ \A i \in 1 .. Len(stack[t]) - 1 : stack'[t][i] = stack[t][i]
         /\ stack'[t][Len(stack[t])] = [Top(t) EXCEPT !.at = at]
<1> DEFINE c == [Top(t) EXCEPT !.at = at]
<1>1. stack[t] \in Seq(Frame) /\ Len(stack[t]) \in DOMAIN stack[t]
  OBVIOUS
<1>2. Top(t) \in Frame
  BY <1>1 DEF Top
<1>3. c \in Frame
  BY <1>2 DEF Frame
<1>4. stack' = [stack EXCEPT ![t] = [@ EXCEPT ![Len(stack[t])] = c]]
  BY DEF Goto, Top
<1> HIDE DEF c
<1>5. /\ stack' \in [Threads -> Seq(Frame)]
      /\ \A u \in Threads \ {t} : stack'[u] = stack[u]
      /\ Len(stack'[t]) = Len(stack[t])
      /\ \A i \in 1 .. Len(stack[t]) - 1 : stack'[t][i] = stack[t][i]
      /\ stack'[t][Len(stack[t])] = c
  BY <1>3, <1>4, ReplaceTop
<1> QED BY <1>5 DEF c

LEMMA TopIsFrame ==
  ASSUME stack \in [Threads -> Seq(Frame)], NEW t \in Threads, stack[t] # <<>>
  PROVE  Top(t) \in Frame /\ Len(stack[t]) \in DOMAIN stack[t]
BY DEF Top

LEMMA CallIsFrame ==
  ASSUME NEW op \in {"process", "set", "cancel"}, NEW h \in 0 .. MaxSets,
         NEW at \in {"call", "in", "get", "disarm", "settime"}
  PROVE  Call(op, at, h) \in Frame
BY DEF Call, Frame
------------------------------------------------------------------------------
(* Types.                                                                  *)

(* What is not read has expired, and is of the setting there is.           *)
Unread == IF setting = 0 THEN ticks = 0 /\ ~armed ELSE ticks <= expired[setting]

TypeInv == TypeOK /\ Unread

LEMMA TypeInit == Init => TypeInv
<1> SUFFICES ASSUME Init PROVE TypeInv
  OBVIOUS
<1> USE ConstantsAssumption
<1>1. stack \in [Threads -> Seq(Frame)]
  BY DEF Init
<1>2. /\ expired \in [Settings -> 0 .. MaxTicks]
      /\ fired \in [Settings -> Nat] /\ cancelled \in [Settings -> Nat]
  BY DEF Init
<1>3. armed \in BOOLEAN /\ ~armed /\ met \in BOOLEAN
  BY DEF Init
<1>4. TypeOK
  BY <1>1, <1>2, <1>3 DEF Init, TypeOK
<1> QED BY <1>3, <1>4 DEF Init, TypeInv, Unread

(* The new setting has not expired yet, or there is none.                  *)
LEMMA SettimeType ==
  ASSUME TypeInv, NEW h \in 0 .. MaxSets, Settime(h), expired' = expired
  PROVE  /\ setting' \in 0 .. MaxSets /\ armed' \in BOOLEAN /\ ticks' \in 0 .. MaxTicks
         /\ Unread'
<1>1. setting' = h /\ ticks' = 0 /\ armed' = (h # 0)
  BY DEF Settime
<1>2. ticks' \in 0 .. MaxTicks /\ armed' \in BOOLEAN
  BY <1>1, ConstantsAssumption
<1>3. CASE h = 0
  BY <1>1, <1>2, <1>3 DEF Unread
<1>4. CASE h # 0
  <2>1. expired[h] \in 0 .. MaxTicks
    BY <1>4 DEF TypeInv, TypeOK, Settings
  <2>2. Unread'
    BY <1>1, <1>4, <2>1 DEF Unread
  <2> QED BY <1>1, <1>2, <2>2
<1> QED BY <1>3, <1>4

LEMMA TypeStep == TypeInv /\ [Next]_vars => TypeInv'
<1> SUFFICES ASSUME TypeInv, [Next]_vars
             PROVE  TypeInv'
  OBVIOUS
<1> USE ConstantsAssumption DEF fdVars, toldVars
<1>0. TypeOK /\ Unread
  BY DEF TypeInv
<1>1. CASE Expire
  <2>1. setting # 0 /\ setting \in Settings
    BY <1>0, <1>1 DEF Expire, Unread, TypeOK, Settings
  <2>2. expired' \in [Settings -> 0 .. MaxTicks] /\ expired'[setting] = expired[setting] + 1
    BY <1>0, <1>1, <2>1 DEF Expire, TypeOK
  <2>3. ticks' \in 0 .. MaxTicks /\ ticks' <= expired'[setting]
    BY <1>0, <1>1, <2>1, <2>2 DEF Expire, TypeOK, Unread
  <2>4. armed' \in BOOLEAN
    BY <1>1 DEF Expire
  <2>5. UNCHANGED <<sets, cancels, repeated, setting, handler, stack, toldVars, over,
                    disarmed, met>>
    BY <1>1 DEF Expire
  <2>6. TypeOK'
    BY <1>0, <2>2, <2>3, <2>4, <2>5 DEF TypeOK
  <2> QED BY <2>1, <2>3, <2>5, <2>6 DEF TypeInv, Unread
<1>2. ASSUME NEW t \in Threads, SetBegin(t)
      PROVE  TypeInv'
  <2>1. sets + 1 \in 0 .. MaxSets
    BY <1>0, <1>2 DEF SetBegin, TypeOK
  <2>2. stack' \in [Threads -> Seq(Frame)]
    BY <1>0, <1>2, <2>1, CallIsFrame, PushStack DEF SetBegin, TypeOK
  <2>3. repeated' \subseteq Settings
    BY <1>0, <1>2, <2>1 DEF SetBegin, TypeOK, Settings
  <2>4. met' \in BOOLEAN
    BY <1>2 DEF SetBegin, Enter
  <2> QED BY <1>0, <1>2, <2>1, <2>2, <2>3, <2>4 DEF SetBegin, TypeInv, TypeOK, Unread
<1>3. ASSUME NEW t \in Threads, SetEnd(t)
      PROVE  TypeInv'
  <2>1. Top(t).of \in 0 .. MaxSets /\ stack[t] # <<>>
    BY <1>0, <1>3, TopIsFrame DEF SetEnd, In, TypeOK, Frame
  <2>2. stack' \in [Threads -> Seq(Frame)]
    BY <1>0, <1>3, <2>1, PopStack DEF SetEnd, TypeOK
  <2>3. /\ setting' \in 0 .. MaxSets /\ armed' \in BOOLEAN /\ ticks' \in 0 .. MaxTicks
        /\ Unread'
    BY <1>3, <2>1, SettimeType DEF SetEnd
  <2>4. over' \subseteq Settings
    <3>1. PICK h \in 0 .. MaxSets : h = Top(t).of
      BY <2>1
    <3>2. 1 .. h - 1 \subseteq 1 .. MaxSets
      BY <3>1
    <3> QED BY <1>0, <1>3, <3>1, <3>2 DEF SetEnd, TypeOK, Settings
  <2> QED BY <1>0, <1>3, <2>2, <2>3, <2>4 DEF SetEnd, TypeInv, TypeOK
<1>4. ASSUME NEW t \in Threads, CancelBegin(t)
      PROVE  TypeInv'
  <2>1. cancels' \in 0 .. MaxCancels /\ handler' \in 0 .. MaxSets
    BY <1>0, <1>4 DEF CancelBegin, TypeOK
  <2>2. stack' \in [Threads -> Seq(Frame)]
    BY <1>0, <1>4, CallIsFrame, PushStack DEF CancelBegin, TypeOK
  <2>3. met' \in BOOLEAN
    BY <1>4 DEF CancelBegin, Enter
  <2> QED BY <1>0, <1>4, <2>1, <2>2, <2>3 DEF CancelBegin, TypeInv, TypeOK, Unread
<1>5. ASSUME NEW t \in Threads, CancelTell(t)
      PROVE  TypeInv'
  <2>1. Top(t).of \in 0 .. MaxSets /\ stack[t] # <<>>
    BY <1>0, <1>5, TopIsFrame DEF CancelTell, In, TypeOK, Frame
  <2>2. \E at \in {"in", "disarm"} : Goto(t, at)
    BY <1>5 DEF CancelTell
  <2>3. stack' \in [Threads -> Seq(Frame)]
    BY <1>0, <2>1, <2>2, GotoStack DEF TypeOK
  <2>4. cancelled' \in [Settings -> Nat]
    <3>1. cancelled \in [Settings -> Nat]
      BY <1>0 DEF TypeOK
    <3>2. \/ cancelled' = cancelled
          \/ cancelled' = [cancelled EXCEPT ![Top(t).of] = @ + 1]
      BY <1>5 DEF CancelTell
    <3> QED BY <3>1, <3>2
  <2> QED BY <1>0, <1>5, <2>3, <2>4 DEF CancelTell, TypeInv, TypeOK, Unread
<1>6. ASSUME NEW t \in Threads, CancelEnd(t)
      PROVE  TypeInv'
  <2>1. Top(t).of \in 0 .. MaxSets /\ stack[t] # <<>>
    BY <1>0, <1>6, TopIsFrame DEF CancelEnd, In, TypeOK, Frame
  <2>2. stack' \in [Threads -> Seq(Frame)]
    BY <1>0, <1>6, <2>1, PopStack DEF CancelEnd, TypeOK
  <2>3. /\ setting' \in 0 .. MaxSets /\ armed' \in BOOLEAN /\ ticks' \in 0 .. MaxTicks
        /\ Unread'
    BY <1>6, SettimeType DEF CancelEnd
  <2>4. over' \subseteq Settings /\ disarmed' \subseteq Settings
    <3>1. PICK h \in 0 .. MaxSets : h = Top(t).of
      BY <2>1
    <3>2. {h} \ {0} \subseteq Settings
      BY <3>1 DEF Settings
    <3> QED BY <1>0, <1>6, <3>1, <3>2 DEF CancelEnd, TypeOK
  <2> QED BY <1>0, <1>6, <2>2, <2>3, <2>4 DEF CancelEnd, TypeInv, TypeOK
<1>7. CASE ProcessRead
  <2>1. stack' \in [Threads -> Seq(Frame)]
    BY <1>0, <1>7, CallIsFrame, PushStack DEF ProcessRead, TypeOK, Threads
  <2>2. ticks' \in 0 .. MaxTicks
    BY <1>7 DEF ProcessRead
  <2>3. Unread'
    <3>1. ticks' = 0 /\ UNCHANGED <<setting, armed, expired>>
      BY <1>7 DEF ProcessRead
    <3>2. setting # 0 => expired[setting] \in 0 .. MaxTicks
      BY <1>0 DEF TypeOK, Settings
    <3> QED BY <1>0, <3>1, <3>2 DEF Unread
  <2>4. met' \in BOOLEAN
    BY <1>7 DEF ProcessRead, Enter
  <2> QED BY <1>0, <1>7, <2>1, <2>2, <2>3, <2>4 DEF ProcessRead, TypeInv, TypeOK
<1>8. CASE ProcessCall
  <2>0. LoopThread \in Threads /\ stack[LoopThread] # <<>>
    BY <1>8 DEF ProcessCall, In, Threads
  <2>1. stack' \in [Threads -> Seq(Frame)]
    <3>1. CASE handler = 0
      BY <1>0, <1>8, <2>0, <3>1, PopStack DEF ProcessCall, TypeOK
    <3>2. CASE handler # 0
      <4>1. Call("process", "in", handler) \in Frame
        BY <1>0, CallIsFrame DEF TypeOK
      <4>2. stack' = [stack EXCEPT ![LoopThread] =
                        [@ EXCEPT ![Len(stack[LoopThread])] = Call("process", "in", handler)]]
        BY <1>8, <3>2 DEF ProcessCall
      <4> QED BY <1>0, <2>0, <4>1, <4>2, ReplaceTop DEF TypeOK
    <3> QED BY <3>1, <3>2
  <2>2. fired' \in [Settings -> Nat]
    <3>1. fired \in [Settings -> Nat]
      BY <1>0 DEF TypeOK
    <3>2. fired' = fired \/ fired' = [fired EXCEPT ![handler] = @ + 1]
      BY <1>8 DEF ProcessCall
    <3> QED BY <3>1, <3>2
  <2> QED BY <1>0, <1>8, <2>1, <2>2 DEF ProcessCall, TypeInv, TypeOK, Unread
<1>9. ASSUME NEW t \in Threads, HandlerReturns(t)
      PROVE  TypeInv'
  <2>0. stack[t] # <<>>
    BY <1>9 DEF HandlerReturns, InHandler
  <2>1. stack' \in [Threads -> Seq(Frame)]
    BY <1>0, <1>9, <2>0, PopStack, GotoStack DEF HandlerReturns, TypeOK
  <2> QED BY <1>0, <1>9, <2>1 DEF HandlerReturns, TypeInv, TypeOK, Unread
<1>10. CASE UNCHANGED vars
  BY <1>0, <1>10 DEF vars, TypeInv, TypeOK, Unread
<1> QED BY <1>1, <1>2, <1>3, <1>4, <1>5, <1>6, <1>7, <1>8, <1>9, <1>10
        DEF Next, Process, GoOn

LEMMA TypesHold == Spec => []TypeInv
BY TypeInit, TypeStep, PTL DEF Spec

(* Every variable keeps to its type, whatever threads call the timer; no   *)
(* more is left to be read than has expired.                               *)
THEOREM TypeCorrect == Spec => []TypeOK
<1>1. TypeInv => TypeOK
  BY DEF TypeInv
<1> QED BY <1>1, TypesHold, PTL
------------------------------------------------------------------------------
(* A timer that one thread at a time is in: what holds while it is t.      *)

Alone(t) == \A u \in Threads \ {t} : stack[u] = <<>>

Calls(t) == stack[t]

(* The calls that wait are those whose handler made the next one.          *)
Nested(t) == \A i \in 1 .. Len(Calls(t)) : i < Len(Calls(t)) => Calls(t)[i].at = "in"

(* set: it is about the last setting, which the descriptor does not have.  *)
SetCall(c) ==
  /\ c.at = "settime" /\ c.of = sets /\ handler = sets
  /\ sets # 0 /\ setting # sets /\ expired[sets] = 0

(* process: it calls the handler of what has expired.                      *)
ProcessOf(c) ==
  /\ c.at \in {"call", "in"}
  /\ c.at = "call" => c.of = setting /\ handler = setting /\ setting # 0

(* cancel: a handler there is now is newer than the one taken away.        *)
CancelCall(c) ==
  /\ c.at \in {"get", "in", "disarm"}
  /\ handler = 0 \/ handler > c.of
  /\ c.at = "get" /\ c.of # 0 =>
       setting \in {0, c.of} /\ c.of \notin over /\ cancelled[c.of] = 0

CallOK(c) ==
  /\ c.of <= sets
  /\ c.op = "set" => SetCall(c)
  /\ c.op = "process" => ProcessOf(c)
  /\ c.op = "cancel" => CancelCall(c)

CallsInv(t) == Nested(t) /\ \A i \in 1 .. Len(Calls(t)) : CallOK(Calls(t)[i])

(* The descriptor is set for the handler there is, or somebody is about to *)
(* set or disarm it.                                                       *)
Linked(t) ==
  \/ setting \in {0, handler}
  \/ \E i \in 1 .. Len(Calls(t)) :
       Calls(t)[i].op = "set" \/ (Calls(t)[i].op = "cancel" /\ handler = 0)

(* Settings to come are as they were at the beginning.                     *)
Numbered ==
  /\ handler <= sets /\ setting <= sets
  /\ over \subseteq 1 .. sets
  /\ \A h \in Settings : h > sets => expired[h] = 0 /\ cancelled[h] = 0

(* What has expired is read, and its handler about to be called.           *)
Reading(t, h) ==
  /\ Len(Calls(t)) > 0 /\ Calls(t)[Len(Calls(t))].op = "process"
  /\ Calls(t)[Len(Calls(t))].at = "call" /\ Calls(t)[Len(Calls(t))].of = h

(* Each call of a handler has an expiration of its own.                    *)
Paid(t) ==
  \A h \in Settings :
    fired[h] + (IF setting = h /\ ticks > 0 THEN 1 ELSE 0)
             + (IF Reading(t, h) THEN 1 ELSE 0) <= expired[h]

(* A setting for once expires once, and is told of one of the two.         *)
Once ==
  \A h \in 1 .. sets \ repeated :
    /\ expired[h] <= 1
    /\ setting = h /\ armed => expired[h] = 0
    /\ cancelled[h] > 0 => fired[h] = 0

ToldOnce == \A h \in Settings : cancelled[h] <= 1

(* The handler there is was not told of a cancellation, and is not over.   *)
Unspoken ==
  /\ ToldOnce
  /\ handler # 0 => cancelled[handler] = 0
  /\ handler \notin over

Own(t) == CallsInv(t) /\ Linked(t) /\ Numbered /\ Paid(t) /\ Once /\ Unspoken

LEMMA CallsType ==
  ASSUME NEW t \in Threads, TypeOK
  PROVE  /\ Calls(t) \in Seq(Frame) /\ Len(Calls(t)) \in Nat
         /\ \A i \in 1 .. Len(Calls(t)) : Calls(t)[i] \in Frame
         /\ Calls(t) = <<>> <=> Len(Calls(t)) = 0
         /\ Top(t) = Calls(t)[Len(Calls(t))]
<1>1. Calls(t) \in Seq(Frame)
  BY DEF TypeOK, Calls
<1> QED BY <1>1 DEF Top, Calls

LEMMA NumbersType ==
  ASSUME TypeInv
  PROVE  /\ sets \in Nat /\ handler \in Nat /\ setting \in Nat /\ 1 .. sets \subseteq Settings
         /\ expired \in [Settings -> Nat] /\ ticks \in Nat
         /\ fired \in [Settings -> Nat] /\ cancelled \in [Settings -> Nat]
         /\ \A h \in Settings : h \in Nat \ {0}
         /\ setting = 0 => ticks = 0 /\ ~armed
         /\ {handler, setting} \subseteq Settings \cup {0}
<1>1. MaxSets \in Nat /\ sets \in 0 .. MaxSets /\ TypeOK
  BY ConstantsAssumption DEF TypeInv, TypeOK
<1>2. 1 .. sets \subseteq Settings
  BY <1>1 DEF Settings
<1>3. expired \in [Settings -> Nat] /\ ticks \in Nat
  BY <1>1 DEF TypeOK
<1>4. setting = 0 => ticks = 0 /\ ~armed
  BY DEF TypeInv, Unread
<1> QED BY <1>1, <1>2, <1>3, <1>4 DEF TypeOK, Settings

LEMMA PushCalls ==
  ASSUME NEW t \in Threads, TypeOK, NEW c \in Frame, Push(t, c)
  PROVE  /\ Len(Calls(t)') = Len(Calls(t)) + 1
         /\ \A i \in 1 .. Len(Calls(t)) : Calls(t)'[i] = Calls(t)[i]
         /\ Calls(t)'[Len(Calls(t)) + 1] = c
BY PushStack DEF TypeOK, Calls

LEMMA PopCalls ==
  ASSUME NEW t \in Threads, TypeOK, Calls(t) # <<>>, Pop(t)
  PROVE  /\ Len(Calls(t)') = Len(Calls(t)) - 1
         /\ \A i \in 1 .. Len(Calls(t)) - 1 : Calls(t)'[i] = Calls(t)[i]
BY PopStack DEF TypeOK, Calls

LEMMA GotoCalls ==
  ASSUME NEW t \in Threads, TypeOK, Calls(t) # <<>>, Goto(t, "in") \/ Goto(t, "disarm")
  PROVE  /\ Len(Calls(t)') = Len(Calls(t))
         /\ \A i \in 1 .. Len(Calls(t)) - 1 : Calls(t)'[i] = Calls(t)[i]
         /\ Calls(t)'[Len(Calls(t))].op = Calls(t)[Len(Calls(t))].op
         /\ Calls(t)'[Len(Calls(t))].of = Calls(t)[Len(Calls(t))].of
         /\ Goto(t, "in") => Calls(t)'[Len(Calls(t))].at = "in"
         /\ Goto(t, "disarm") => Calls(t)'[Len(Calls(t))].at = "disarm"
<1>1. t \in Threads /\ Top(t) \in Frame
  BY CallsType
<1>2. ASSUME NEW at \in {"in", "disarm"}, Goto(t, at)
      PROVE  /\ Len(Calls(t)') = Len(Calls(t))
             /\ \A i \in 1 .. Len(Calls(t)) - 1 : Calls(t)'[i] = Calls(t)[i]
             /\ Calls(t)'[Len(Calls(t))] = [Top(t) EXCEPT !.at = at]
  BY <1>1, <1>2, GotoStack DEF TypeOK, Calls
<1>3. ASSUME NEW at \in {"in", "disarm"}, Goto(t, at)
      PROVE  /\ Calls(t)'[Len(Calls(t))].op = Calls(t)[Len(Calls(t))].op
             /\ Calls(t)'[Len(Calls(t))].of = Calls(t)[Len(Calls(t))].of
             /\ Calls(t)'[Len(Calls(t))].at = at
  BY <1>1, <1>2, <1>3, CallsType DEF Frame
<1> QED BY <1>2, <1>3

(* Of the calls that wait, all that is known stays known.                  *)
LEMMA WaitingStay ==
  ASSUME NEW t \in Threads, TypeInv, TypeOK', CallsInv(t), NEW n \in Nat, n <= Len(Calls(t)),
         n <= Len(Calls(t)'),
         \A i \in 1 .. n : Calls(t)'[i] = Calls(t)[i],
         \A i \in 1 .. n : Calls(t)[i].at = "in",
         sets' \in {sets, sets + 1}, handler' \in {0, handler, sets + 1}
  PROVE  \A i \in 1 .. n : CallOK(Calls(t)[i])'
<1> SUFFICES ASSUME NEW i \in 1 .. n PROVE CallOK(Calls(t)[i])'
  OBVIOUS
<1>1. Calls(t)'[i] = Calls(t)[i] /\ Calls(t)[i].at = "in" /\ CallOK(Calls(t)[i]) /\ Calls(t)[i] \in Frame
  BY CallsType DEF CallsInv, TypeInv
<1>2. sets \in Nat /\ handler \in Nat /\ Calls(t)[i].of \in Nat
  BY <1>1, SMTT(30) DEF TypeInv, TypeOK, Frame
<1> QED BY <1>1, <1>2 DEF CallOK, SetCall, ProcessOf, CancelCall

LEMMA ExpireOwn ==
  ASSUME NEW t \in Threads, TypeInv, Own(t), Expire
  PROVE  Own(t)'
<1> USE DEF toldVars
<1>0. TypeOK /\ Unread /\ sets \in Nat /\ handler \in Nat /\ setting \in Settings
  BY DEF Expire, TypeInv, Unread, TypeOK, Settings
<1>1. Calls(t)' = Calls(t) /\ UNCHANGED <<sets, repeated, setting, handler, fired, cancelled, over>>
  BY DEF Expire, Calls
<1>2. /\ expired' = [expired EXCEPT ![setting] = @ + 1]
      /\ expired \in [Settings -> Nat] /\ fired \in [Settings -> Nat]
      /\ ticks \in Nat /\ armed
      /\ ticks' = ticks + 1 /\ armed' = (setting \in repeated)
  BY <1>0 DEF Expire, TypeOK
<1>3. expired'[setting] = expired[setting] + 1
      /\ \A h \in Settings : h # setting => expired'[h] = expired[h]
  BY <1>0, <1>2
<1>4. CallsInv(t)'
  <2> SUFFICES ASSUME NEW i \in 1 .. Len(Calls(t)) PROVE CallOK(Calls(t)[i])'
    BY <1>1 DEF CallsInv, Nested, Own
  <2>1. CallOK(Calls(t)[i])
    BY DEF Own, CallsInv
  <2>2. Calls(t)[i].op = "set" => expired'[sets] = 0
    <3>1. Calls(t)[i].op = "set" => sets # 0 /\ sets # setting /\ expired[sets] = 0
      BY <2>1 DEF CallOK, SetCall
    <3>2. sets # 0 => sets \in Settings
      BY <1>0 DEF TypeOK, Settings
    <3> QED BY <1>3, <3>1, <3>2
  <2> QED BY <1>1, <2>1, <2>2 DEF CallOK, SetCall, ProcessOf, CancelCall
<1>5. Linked(t)'
  BY <1>1 DEF Own, Linked
<1>6. Numbered'
  BY <1>0, <1>1, <1>3 DEF Own, Numbered, Settings
<1>7. Paid(t)'
  <2>1. \A h \in Settings : Reading(t, h)' <=> Reading(t, h)
    BY <1>1 DEF Reading
  <2>2. SUFFICES ASSUME NEW h \in Settings
                 PROVE  fired'[h] + (IF setting' = h /\ ticks' > 0 THEN 1 ELSE 0)
                          + (IF Reading(t, h)' THEN 1 ELSE 0) <= expired'[h]
    BY DEF Paid
  <2>3. fired[h] + (IF setting = h /\ ticks > 0 THEN 1 ELSE 0)
                 + (IF Reading(t, h) THEN 1 ELSE 0) <= expired[h]
    BY DEF Own, Paid
  <2>4. fired[h] \in Nat /\ expired[h] \in Nat /\ expired'[h] \in Nat
    BY <1>2, <1>3
  <2> QED BY <1>1, <1>2, <1>3, <2>1, <2>3, <2>4
<1>8. Once'
  <2>1. SUFFICES ASSUME NEW h \in 1 .. sets \ repeated
                 PROVE  /\ expired'[h] <= 1
                        /\ setting = h /\ armed' => expired'[h] = 0
                        /\ cancelled[h] > 0 => fired[h] = 0
    BY <1>1 DEF Once
  <2>2. h \in 1 .. sets \ repeated /\ h \in Settings
    BY NumbersType
  <2>3. /\ expired[h] <= 1 /\ (cancelled[h] > 0 => fired[h] = 0)
        /\ setting = h => expired[h] = 0
    BY <1>2, <2>2 DEF Own, Once
  <2>4. expired'[h] <= 1
    BY <1>2, <1>3, <2>2, <2>3
  <2>5. ~(setting = h /\ armed')
    BY <1>2, <2>2
  <2> QED BY <1>1, <2>3, <2>4, <2>5
<1>9. Unspoken'
  BY <1>1 DEF Own, Unspoken, ToldOnce
<1> QED BY <1>4, <1>5, <1>6, <1>7, <1>8, <1>9 DEF Own

(* Who may call the timer is in no call but those that wait.               *)
LEMMA AllWait ==
  ASSUME NEW t \in Threads, TypeInv, CallsInv(t), MayCall(t)
  PROVE  /\ \A i \in 1 .. Len(Calls(t)) : Calls(t)[i].at = "in" /\ Calls(t)[i].op # "set"
         /\ \A h \in Settings : ~Reading(t, h)
<1>1. Len(Calls(t)) \in Nat /\ (Len(Calls(t)) = 0 \/ Calls(t)[Len(Calls(t))].at = "in")
  BY CallsType DEF MayCall, InHandler, Calls, TypeInv
<1>2. \A i \in 1 .. Len(Calls(t)) : Calls(t)[i].at = "in"
  BY <1>1 DEF CallsInv, Nested
<1>3. \A i \in 1 .. Len(Calls(t)) : Calls(t)[i].op # "set"
  BY <1>2 DEF CallsInv, CallOK, SetCall
<1> QED BY <1>1, <1>2, <1>3 DEF Reading

LEMMA InnermostOK ==
  ASSUME NEW t \in Threads, TypeInv, CallsInv(t), stack[t] # <<>>
  PROVE  /\ Calls(t) # <<>> /\ Len(Calls(t)) \in Nat \ {0} /\ Top(t) = Calls(t)[Len(Calls(t))]
         /\ CallOK(Calls(t)[Len(Calls(t))]) /\ Calls(t)[Len(Calls(t))] \in Frame
         /\ Calls(t)[Len(Calls(t))].of \in 0 .. MaxSets
<1>1. /\ Calls(t) # <<>> /\ Len(Calls(t)) \in Nat \ {0} /\ Top(t) = Calls(t)[Len(Calls(t))]
      /\ Calls(t)[Len(Calls(t))] \in Frame
  BY CallsType DEF TypeInv, Calls
<1>2. CallOK(Calls(t)[Len(Calls(t))])
  BY <1>1 DEF CallsInv
<1> QED BY <1>1, <1>2 DEF Frame

LEMMA PushKeeps ==
  ASSUME NEW t \in Threads, TypeInv, TypeOK', CallsInv(t), MayCall(t),
         NEW c \in Frame, Push(t, c), CallOK(c)',
         sets' \in {sets, sets + 1}, handler' \in {0, handler, sets + 1}
  PROVE  CallsInv(t)'
<1>1. /\ Len(Calls(t)') = Len(Calls(t)) + 1 /\ Len(Calls(t)) \in Nat
      /\ \A i \in 1 .. Len(Calls(t)) : Calls(t)'[i] = Calls(t)[i]
      /\ Calls(t)'[Len(Calls(t)) + 1] = c
  BY PushCalls, CallsType DEF TypeInv
<1>2. \A i \in 1 .. Len(Calls(t)) : Calls(t)[i].at = "in"
  BY AllWait
<1>3. \A i \in 1 .. Len(Calls(t)) : CallOK(Calls(t)[i])'
  BY <1>1, <1>2, WaitingStay
<1>4. Nested(t)'
  BY <1>1, <1>2 DEF Nested
<1>5. ASSUME NEW i \in 1 .. Len(Calls(t)) + 1 PROVE CallOK(Calls(t)[i])'
  <2>1. CASE i = Len(Calls(t)) + 1
    <3>1. Calls(t)'[i] = c
      BY <1>1, <2>1
    <3> QED BY <3>1 DEF CallOK, SetCall, ProcessOf, CancelCall
  <2> QED BY <1>1, <1>3, <2>1
<1> QED BY <1>1, <1>4, <1>5 DEF CallsInv

LEMMA PopKeeps ==
  ASSUME NEW t \in Threads, TypeInv, TypeOK', CallsInv(t), Calls(t) # <<>>, Pop(t),
         UNCHANGED <<sets, handler>>
  PROVE  /\ CallsInv(t)'
         /\ \A h \in Settings : ~Reading(t, h)'
<1>1. /\ Len(Calls(t)') = Len(Calls(t)) - 1 /\ Len(Calls(t)) \in Nat \ {0}
      /\ \A i \in 1 .. Len(Calls(t)) - 1 : Calls(t)'[i] = Calls(t)[i]
  BY PopCalls, CallsType DEF TypeInv
<1>2. \A i \in 1 .. Len(Calls(t)) - 1 : Calls(t)[i].at = "in"
  BY <1>1 DEF CallsInv, Nested
<1>3. PICK n \in Nat : n = Len(Calls(t)) - 1
  BY <1>1
<1>4. /\ n <= Len(Calls(t)) /\ n <= Len(Calls(t)')
      /\ \A i \in 1 .. n : Calls(t)'[i] = Calls(t)[i]
      /\ \A i \in 1 .. n : Calls(t)[i].at = "in"
      /\ sets' \in {sets, sets + 1} /\ handler' \in {0, handler, sets + 1}
  BY <1>1, <1>2, <1>3
<1>5. \A i \in 1 .. n : CallOK(Calls(t)[i])'
  BY <1>4, WaitingStay
<1>6. Nested(t)'
  BY <1>1, <1>2 DEF Nested
<1> QED BY <1>1, <1>2, <1>3, <1>5, <1>6 DEF CallsInv, Reading

(* The innermost call goes on, the others wait.                            *)
LEMMA GotoKeeps ==
  ASSUME NEW t \in Threads, TypeInv, TypeOK', CallsInv(t), Len(Calls(t)) \in Nat \ {0},
         Len(Calls(t)') = Len(Calls(t)),
         \A i \in 1 .. Len(Calls(t)) - 1 : Calls(t)'[i] = Calls(t)[i],
         CallOK(Calls(t)[Len(Calls(t))])',
         UNCHANGED <<sets, handler>>
  PROVE  CallsInv(t)'
<1>0. Len(Calls(t)) - 1 \in Nat
  OBVIOUS
<1>1. \A i \in 1 .. Len(Calls(t)) - 1 : Calls(t)[i].at = "in"
  BY DEF CallsInv, Nested
<1>2. PICK n \in Nat : n = Len(Calls(t)) - 1
  BY <1>0, Zenon
<1>3. \A i \in 1 .. n : CallOK(Calls(t)[i])'
  <2>1. /\ n <= Len(Calls(t)) /\ n <= Len(Calls(t)')
        /\ \A i \in 1 .. n : Calls(t)'[i] = Calls(t)[i]
        /\ \A i \in 1 .. n : Calls(t)[i].at = "in"
        /\ sets' \in {sets, sets + 1} /\ handler' \in {0, handler, sets + 1}
    BY <1>1, <1>2
  <2> QED BY <2>1, WaitingStay
<1>4. Nested(t)'
  BY <1>1 DEF Nested
<1>5. ASSUME NEW i \in 1 .. Len(Calls(t)) PROVE CallOK(Calls(t)[i])'
  <2>1. CASE i = Len(Calls(t))
    <3>1. Calls(t)'[i] = Calls(t)'[Len(Calls(t)')]
      BY <2>1
    <3> QED BY <3>1 DEF CallOK, SetCall, ProcessOf, CancelCall
  <2> QED BY <1>2, <1>3, <2>1
<1> QED BY <1>4, <1>5 DEF CallsInv

LEMMA SetBeginOwn ==
  ASSUME NEW t \in Threads, TypeInv, TypeOK', Own(t), SetBegin(t)
  PROVE  Own(t)'
<1> USE NumbersType DEF fdVars, toldVars
<1>0. CallsInv(t) /\ Linked(t) /\ Numbered /\ Paid(t) /\ Once /\ Unspoken
  BY DEF Own
<1>1. /\ sets' = sets + 1 /\ handler' = sets + 1 /\ MayCall(t)
      /\ repeated' \in {repeated, repeated \cup {sets + 1}} /\ sets + 1 \in Settings
      /\ UNCHANGED <<setting, armed, ticks, expired, fired, cancelled, over>>
  BY DEF SetBegin, TypeInv, TypeOK, Settings
<1>2. PICK c \in Frame : c = Call("set", "settime", sets + 1)
  BY <1>1, CallIsFrame DEF Settings
<1>3. Push(t, c) /\ c.op = "set" /\ c.at = "settime" /\ c.of = sets + 1
  BY <1>2 DEF SetBegin, Call
<1>4. /\ Len(Calls(t)') = Len(Calls(t)) + 1 /\ Len(Calls(t)) \in Nat
      /\ Calls(t)'[Len(Calls(t)) + 1] = c
  BY <1>3, PushCalls, CallsType DEF TypeInv
<1>5. setting # sets + 1 /\ expired[sets + 1] = 0 /\ cancelled[sets + 1] = 0
  BY <1>0, <1>1 DEF Numbered
<1>6. CallOK(c)'
  BY <1>1, <1>3, <1>5 DEF CallOK, SetCall
<1>7. CallsInv(t)'
  BY <1>0, <1>1, <1>3, <1>6, PushKeeps
<1>8. Linked(t)'
  BY <1>3, <1>4, SMTT(30) DEF Linked
<1>9. Numbered'
  BY <1>0, <1>1 DEF Numbered, Settings
<1>10. Paid(t)'
  <2>1. \A h \in Settings : ~Reading(t, h) /\ ~Reading(t, h)'
    BY <1>0, <1>1, <1>3, <1>4, AllWait DEF Reading
  <2> QED BY <1>0, <1>1, <2>1 DEF Paid
<1>11. Once'
  BY <1>0, <1>1, <1>5 DEF Once
<1>12. Unspoken'
  BY <1>0, <1>1, <1>5 DEF Unspoken, ToldOnce, Numbered
<1> QED BY <1>7, <1>8, <1>9, <1>10, <1>11, <1>12 DEF Own

LEMMA SetEndOwn ==
  ASSUME NEW t \in Threads, TypeInv, TypeOK', Own(t), SetEnd(t)
  PROVE  Own(t)'
<1> USE NumbersType DEF fdVars, toldVars
<1>0. CallsInv(t) /\ Linked(t) /\ Numbered /\ Paid(t) /\ Once /\ Unspoken
  BY DEF Own
<1>1. /\ Calls(t) # <<>> /\ Len(Calls(t)) \in Nat \ {0} /\ Top(t) = Calls(t)[Len(Calls(t))]
      /\ Calls(t)[Len(Calls(t))].op = "set" /\ CallOK(Calls(t)[Len(Calls(t))])
  BY <1>0, InnermostOK DEF SetEnd, In
<1>2. /\ Top(t).of = sets /\ handler = sets /\ sets # 0 /\ expired[sets] = 0
  BY <1>1 DEF CallOK, SetCall
<1>3. /\ Pop(t) /\ setting' = sets /\ ticks' = 0 /\ over' = over \cup 1 .. sets - 1
      /\ UNCHANGED <<sets, repeated, handler, expired, fired, cancelled>>
  BY <1>2 DEF SetEnd, Settime
<1>4. CallsInv(t)' /\ \A h \in Settings : ~Reading(t, h)'
  BY <1>0, <1>1, <1>3, PopKeeps
<1>5. Linked(t)'
  BY <1>2, <1>3 DEF Linked
<1>6. Numbered'
  <2>1. \A n \in Nat : 1 .. n - 1 \subseteq 1 .. n
    OBVIOUS
  <2>2. over \subseteq 1 .. sets /\ 1 .. sets - 1 \subseteq 1 .. sets
    BY <1>0, <2>1 DEF Numbered
  <2>3. over' \subseteq 1 .. sets
    BY <1>3, <2>2
  <2> QED BY <1>0, <1>2, <1>3, <2>3 DEF Numbered
<1>7. Paid(t)'
  <2>1. SUFFICES ASSUME NEW h \in Settings
                 PROVE  fired[h] <= expired[h]
    BY <1>3, <1>4 DEF Paid
  <2>2. fired[h] + (IF setting = h /\ ticks > 0 THEN 1 ELSE 0)
                 + (IF Reading(t, h) THEN 1 ELSE 0) <= expired[h]
    BY <1>0 DEF Paid
  <2> QED BY <2>2
<1>8. Once'
  BY <1>0, <1>2, <1>3 DEF Once
<1>9. Unspoken'
  BY <1>0, <1>2, <1>3 DEF Unspoken, ToldOnce
<1> QED BY <1>4, <1>5, <1>6, <1>7, <1>8, <1>9 DEF Own

LEMMA CancelBeginOwn ==
  ASSUME NEW t \in Threads, TypeInv, TypeOK', Own(t), CancelBegin(t)
  PROVE  Own(t)'
<1> USE NumbersType DEF fdVars, toldVars
<1>0. CallsInv(t) /\ Linked(t) /\ Numbered /\ Paid(t) /\ Once /\ Unspoken
  BY DEF Own
<1>1. /\ handler' = 0 /\ MayCall(t)
      /\ UNCHANGED <<sets, repeated, setting, armed, ticks, expired, fired, cancelled, over>>
  BY DEF CancelBegin
<1>2. PICK c \in Frame : c = Call("cancel", "get", handler)
  BY CallIsFrame DEF TypeInv, TypeOK
<1>3. Push(t, c) /\ c.op = "cancel" /\ c.at = "get" /\ c.of = handler
  BY <1>2 DEF CancelBegin, Call
<1>4. /\ Len(Calls(t)') = Len(Calls(t)) + 1 /\ Len(Calls(t)) \in Nat
      /\ Calls(t)'[Len(Calls(t)) + 1] = c
  BY <1>3, PushCalls, CallsType DEF TypeInv
<1>5. \A i \in 1 .. Len(Calls(t)) : Calls(t)[i].at = "in" /\ Calls(t)[i].op # "set"
  BY <1>0, <1>1, AllWait
<1>6. handler # 0 => setting \in {0, handler}
  BY <1>0, <1>5 DEF Linked
<1>7. CallOK(c)'
  BY <1>0, <1>1, <1>3, <1>6 DEF CallOK, CancelCall, Numbered, Unspoken
<1>8. CallsInv(t)'
  BY <1>0, <1>1, <1>3, <1>7, PushKeeps
<1>9. Linked(t)'
  <2>1. Len(Calls(t)) + 1 \in 1 .. Len(Calls(t)')
    BY <1>4
  <2> QED BY <1>1, <1>3, <1>4, <2>1 DEF Linked
<1>10. Numbered'
  BY <1>0, <1>1 DEF Numbered
<1>11. Paid(t)'
  <2>1. \A h \in Settings : ~Reading(t, h) /\ ~Reading(t, h)'
    BY <1>0, <1>1, <1>3, <1>4, AllWait DEF Reading
  <2> QED BY <1>0, <1>1, <2>1 DEF Paid
<1>12. Once'
  BY <1>0, <1>1 DEF Once
<1>13. Unspoken'
  BY <1>0, <1>1 DEF Unspoken, ToldOnce, Numbered
<1> QED BY <1>8, <1>9, <1>10, <1>11, <1>12, <1>13 DEF Own

LEMMA CancelTellOwn ==
  ASSUME NEW t \in Threads, TypeInv, TypeOK', Own(t), CancelTell(t)
  PROVE  Own(t)'
<1> USE NumbersType DEF fdVars, toldVars
<1>0. CallsInv(t) /\ Linked(t) /\ Numbered /\ Paid(t) /\ Once /\ Unspoken
  BY DEF Own
<1>1. /\ Calls(t) # <<>> /\ Len(Calls(t)) \in Nat \ {0} /\ Top(t) = Calls(t)[Len(Calls(t))]
      /\ Calls(t)[Len(Calls(t))].op = "cancel" /\ Calls(t)[Len(Calls(t))].at = "get"
      /\ CallOK(Calls(t)[Len(Calls(t))]) /\ Calls(t)[Len(Calls(t))].of \in 0 .. MaxSets
  BY <1>0, InnermostOK DEF CancelTell, In
<1>2. PICK h \in 0 .. MaxSets : h = Top(t).of
  BY <1>1
<1>3. /\ h \in Nat /\ h <= sets /\ (handler = 0 \/ handler > h)
      /\ h # 0 => h \in Settings /\ setting \in {0, h} /\ cancelled[h] = 0
  BY <1>1, <1>2 DEF CallOK, CancelCall, Settings
<1>4. UNCHANGED <<sets, repeated, setting, armed, ticks, handler, expired, fired, over>>
  BY DEF CancelTell
<1>5. \/ armed /\ h # 0 /\ setting = h /\ cancelled' = [cancelled EXCEPT ![h] = 1]
      \/ cancelled' = cancelled
  <2>1. armed => setting # 0
    OBVIOUS
  <2>2. \/ armed /\ h # 0 /\ cancelled' = [cancelled EXCEPT ![h] = @ + 1]
        \/ cancelled' = cancelled
    BY <1>2 DEF CancelTell
  <2> QED BY <1>3, <2>1, <2>2
<1>6. Goto(t, "in") \/ Goto(t, "disarm")
  BY DEF CancelTell
<1>7. /\ Len(Calls(t)') = Len(Calls(t))
      /\ \A i \in 1 .. Len(Calls(t)) - 1 : Calls(t)'[i] = Calls(t)[i]
      /\ Calls(t)'[Len(Calls(t))].op = "cancel"
      /\ Calls(t)'[Len(Calls(t))].of = h
      /\ Calls(t)'[Len(Calls(t))].at \in {"in", "disarm"}
  BY <1>1, <1>2, <1>6, GotoCalls DEF TypeInv
<1>8. CallOK(Calls(t)[Len(Calls(t))])'
  BY <1>3, <1>4, <1>7 DEF CallOK, CancelCall
<1>9. CallsInv(t)'
  BY <1>0, <1>1, <1>4, <1>7, <1>8, GotoKeeps
<1>10. Linked(t)'
  <2>1. ASSUME NEW i \in 1 .. Len(Calls(t)) PROVE Calls(t)'[i].op = Calls(t)[i].op
    <3>1. CASE i = Len(Calls(t))
      BY <1>1, <1>7, <3>1
    <3>2. CASE i # Len(Calls(t))
      <4>1. i \in 1 .. Len(Calls(t)) - 1
        BY <1>1, <3>2
      <4> QED BY <1>7, <4>1
    <3> QED BY <3>1, <3>2
  <2> QED BY <1>0, <1>4, <1>7, <2>1 DEF Linked
<1>11. Numbered'
  BY <1>0, <1>3, <1>4, <1>5 DEF Numbered
<1>12. Paid(t)'
  <2>1. \A x \in Settings : ~Reading(t, x) /\ ~Reading(t, x)'
    BY <1>1, <1>7 DEF Reading
  <2> QED BY <1>0, <1>4, <2>1 DEF Paid
<1>13. Once'
  <2>1. SUFFICES ASSUME NEW x \in 1 .. sets \ repeated, cancelled'[x] > 0
                 PROVE  fired[x] = 0
    BY <1>0, <1>4 DEF Once
  <2>2. CASE cancelled' = cancelled
    BY <1>0, <2>1, <2>2 DEF Once
  <2>3. CASE armed /\ h # 0 /\ setting = h /\ cancelled' = [cancelled EXCEPT ![h] = 1]
    <3>1. CASE x = h
      <4>1. expired[x] = 0 /\ x \in Settings
        BY <1>0, <2>3, <3>1 DEF Once
      <4>2. fired[x] + (IF setting = x /\ ticks > 0 THEN 1 ELSE 0)
                     + (IF Reading(t, x) THEN 1 ELSE 0) <= expired[x]
        BY <1>0, <4>1 DEF Paid
      <4> QED BY <4>1, <4>2
    <3>2. CASE x # h
      BY <1>0, <2>1, <2>3, <3>2 DEF Once
    <3> QED BY <3>1, <3>2
  <2> QED BY <1>5, <2>2, <2>3
<1>14. Unspoken'
  BY <1>0, <1>3, <1>4, <1>5 DEF Unspoken, ToldOnce
<1> QED BY <1>9, <1>10, <1>11, <1>12, <1>13, <1>14 DEF Own

LEMMA CancelEndOwn ==
  ASSUME NEW t \in Threads, TypeInv, TypeOK', Own(t), CancelEnd(t)
  PROVE  Own(t)'
<1> USE NumbersType DEF fdVars, toldVars
<1>0. CallsInv(t) /\ Linked(t) /\ Numbered /\ Paid(t) /\ Once /\ Unspoken
  BY DEF Own
<1>1. /\ Calls(t) # <<>> /\ Len(Calls(t)) \in Nat \ {0} /\ Top(t) = Calls(t)[Len(Calls(t))]
      /\ Calls(t)[Len(Calls(t))].op = "cancel" /\ CallOK(Calls(t)[Len(Calls(t))])
      /\ Calls(t)[Len(Calls(t))].of \in 0 .. MaxSets
  BY <1>0, InnermostOK DEF CancelEnd, In
<1>2. PICK h \in 0 .. MaxSets : h = Top(t).of
  BY <1>1
<1>3. h \in Nat /\ h <= sets /\ (handler = 0 \/ handler > h)
  BY <1>1, <1>2 DEF CallOK, CancelCall
<1>4. /\ Pop(t) /\ setting' = 0 /\ over' = over \cup {x \in Settings : x <= h}
      /\ UNCHANGED <<sets, repeated, handler, expired, fired, cancelled>>
  BY <1>2 DEF CancelEnd, Settime
<1>5. CallsInv(t)' /\ \A x \in Settings : ~Reading(t, x)'
  BY <1>0, <1>1, <1>4, PopKeeps
<1>6. Linked(t)'
  BY <1>4 DEF Linked
<1>7. Numbered'
  <2>1. over \subseteq 1 .. sets /\ {x \in Settings : x <= h} \subseteq 1 .. sets
    BY <1>0, <1>3 DEF Numbered
  <2>2. over' \subseteq 1 .. sets
    BY <1>4, <2>1
  <2> QED BY <1>0, <1>4, <2>2 DEF Numbered
<1>8. Paid(t)'
  <2>1. SUFFICES ASSUME NEW x \in Settings
                 PROVE  fired[x] <= expired[x]
    BY <1>4, <1>5 DEF Paid
  <2>2. fired[x] + (IF setting = x /\ ticks > 0 THEN 1 ELSE 0)
                 + (IF Reading(t, x) THEN 1 ELSE 0) <= expired[x]
    BY <1>0 DEF Paid
  <2> QED BY <2>2
<1>9. Once'
  BY <1>0, <1>4 DEF Once
<1>10. Unspoken'
  BY <1>0, <1>3, <1>4 DEF Unspoken, ToldOnce
<1> QED BY <1>5, <1>6, <1>7, <1>8, <1>9, <1>10 DEF Own

LEMMA ProcessReadOwn ==
  ASSUME LoopThread \in Threads, TypeInv, TypeOK', Own(LoopThread), ProcessRead
  PROVE  Own(LoopThread)'
<1> USE NumbersType DEF fdVars, toldVars
<1>0. CallsInv(LoopThread) /\ Linked(LoopThread) /\ Numbered /\ Paid(LoopThread) /\ Once /\ Unspoken
  BY DEF Own
<1>1. /\ Len(Calls(LoopThread)) = 0 /\ ticks > 0 /\ ticks' = 0
      /\ UNCHANGED <<sets, repeated, setting, armed, handler, expired, fired, cancelled, over>>
  BY CallsType DEF ProcessRead, Calls, TypeInv
<1>2. PICK c \in Frame : c = Call("process", "call", setting)
  BY CallIsFrame DEF TypeInv, TypeOK
<1>3. Push(LoopThread, c) /\ c.op = "process" /\ c.at = "call" /\ c.of = setting
  BY <1>2 DEF ProcessRead, Call
<1>4. Len(Calls(LoopThread)') = 1 /\ Calls(LoopThread)'[1] = c
  <2>1. /\ Len(Calls(LoopThread)') = Len(Calls(LoopThread)) + 1
        /\ Calls(LoopThread)'[Len(Calls(LoopThread)) + 1] = c
    BY <1>3, PushCalls DEF TypeInv
  <2>2. Len(Calls(LoopThread)) + 1 = 1
    BY <1>1
  <2> QED BY <2>1, <2>2
<1>5. setting # 0 /\ handler = setting /\ setting \in Settings
  BY <1>0, <1>1 DEF Linked
<1>6. CallsInv(LoopThread)'
  <2>1. CallOK(c)'
    BY <1>0, <1>1, <1>3, <1>5 DEF CallOK, ProcessOf, Numbered
  <2>2. CallOK(Calls(LoopThread)[1])'
    BY <1>4, <2>1 DEF CallOK, SetCall, ProcessOf, CancelCall
  <2> QED BY <1>4, <2>2 DEF CallsInv, Nested
<1>7. Linked(LoopThread)'
  BY <1>1, <1>5 DEF Linked
<1>8. Numbered'
  BY <1>0, <1>1 DEF Numbered
<1>9. Paid(LoopThread)'
  <2>1. \A h \in Settings : ~Reading(LoopThread, h) /\ (Reading(LoopThread, h)' <=> h = setting)
    BY <1>1, <1>3, <1>4 DEF Reading
  <2>2. SUFFICES ASSUME NEW h \in Settings
                 PROVE  fired[h] + (IF h = setting THEN 1 ELSE 0) <= expired[h]
    BY <1>1, <2>1 DEF Paid
  <2>3. fired[h] + (IF setting = h /\ ticks > 0 THEN 1 ELSE 0)
                 + (IF Reading(LoopThread, h) THEN 1 ELSE 0) <= expired[h]
    BY <1>0 DEF Paid
  <2> QED BY <1>1, <2>1, <2>3
<1>10. Once'
  BY <1>0, <1>1 DEF Once
<1>11. Unspoken'
  BY <1>0, <1>1 DEF Unspoken, ToldOnce
<1> QED BY <1>6, <1>7, <1>8, <1>9, <1>10, <1>11 DEF Own

LEMMA ProcessCallOwn ==
  ASSUME LoopThread \in Threads, TypeInv, TypeOK', Own(LoopThread), ProcessCall
  PROVE  Own(LoopThread)'
<1> USE NumbersType DEF fdVars, toldVars
<1>0. CallsInv(LoopThread) /\ Linked(LoopThread) /\ Numbered /\ Paid(LoopThread) /\ Once /\ Unspoken
  BY DEF Own
<1>1. /\ Calls(LoopThread) # <<>> /\ Len(Calls(LoopThread)) \in Nat \ {0} /\ Top(LoopThread) = Calls(LoopThread)[Len(Calls(LoopThread))]
      /\ Calls(LoopThread)[Len(Calls(LoopThread))].op = "process" /\ Calls(LoopThread)[Len(Calls(LoopThread))].at = "call"
      /\ CallOK(Calls(LoopThread)[Len(Calls(LoopThread))])
  BY <1>0, InnermostOK DEF ProcessCall, In
<1>2. /\ handler = setting /\ setting # 0 /\ setting \in Settings
      /\ Calls(LoopThread)[Len(Calls(LoopThread))].of = setting
  BY <1>1 DEF CallOK, ProcessOf
<1>3. PICK c \in Frame : c = Call("process", "in", handler)
  BY CallIsFrame DEF TypeInv, TypeOK
<1>4. c.op = "process" /\ c.at = "in" /\ c.of = handler
  BY <1>3 DEF Call
<1>5. /\ fired' = [fired EXCEPT ![handler] = @ + 1]
      /\ stack' = [stack EXCEPT ![LoopThread] = [@ EXCEPT ![Len(stack[LoopThread])] = c]]
      /\ UNCHANGED <<sets, repeated, setting, armed, ticks, handler, expired, cancelled, over>>
  BY <1>2, <1>3 DEF ProcessCall
<1>6. /\ Len(Calls(LoopThread)') = Len(Calls(LoopThread))
      /\ \A i \in 1 .. Len(Calls(LoopThread)) - 1 : Calls(LoopThread)'[i] = Calls(LoopThread)[i]
      /\ Calls(LoopThread)'[Len(Calls(LoopThread))] = c
  BY <1>1, <1>5, ReplaceTop DEF TypeInv, TypeOK, Calls
<1>7. CallsInv(LoopThread)'
  <2>1. CallOK(Calls(LoopThread)[Len(Calls(LoopThread))])'
    BY <1>0, <1>4, <1>5, <1>6 DEF CallOK, ProcessOf, Numbered
  <2> QED BY <1>0, <1>1, <1>5, <1>6, <2>1, GotoKeeps
<1>8. Linked(LoopThread)'
  BY <1>2, <1>5 DEF Linked
<1>9. Numbered'
  BY <1>0, <1>5 DEF Numbered
<1>10. Paid(LoopThread)'
  <2>1. \A h \in Settings : ~Reading(LoopThread, h)' /\ (Reading(LoopThread, h) <=> h = setting)
    BY <1>1, <1>2, <1>4, <1>6 DEF Reading
  <2>2. SUFFICES ASSUME NEW h \in Settings
                 PROVE  fired'[h] + (IF setting = h /\ ticks > 0 THEN 1 ELSE 0) <= expired[h]
    BY <1>5, <2>1 DEF Paid
  <2>3. fired[h] + (IF setting = h /\ ticks > 0 THEN 1 ELSE 0)
                 + (IF Reading(LoopThread, h) THEN 1 ELSE 0) <= expired[h]
    BY <1>0 DEF Paid
  <2>4. fired'[h] = fired[h] + (IF h = setting THEN 1 ELSE 0)
    BY <1>2, <1>5
  <2> QED BY <2>1, <2>3, <2>4
<1>11. Once'
  <2>1. cancelled[handler] = 0
    BY <1>0, <1>2 DEF Unspoken
  <2>2. \A h \in 1 .. sets : h # handler => fired'[h] = fired[h]
    BY <1>5
  <2> QED BY <1>0, <1>5, <2>1, <2>2 DEF Once
<1>12. Unspoken'
  BY <1>0, <1>5 DEF Unspoken, ToldOnce
<1> QED BY <1>7, <1>8, <1>9, <1>10, <1>11, <1>12 DEF Own

LEMMA HandlerReturnsOwn ==
  ASSUME NEW t \in Threads, TypeInv, TypeOK', Own(t), HandlerReturns(t)
  PROVE  Own(t)'
<1> USE NumbersType DEF fdVars, toldVars
<1>0. CallsInv(t) /\ Linked(t) /\ Numbered /\ Paid(t) /\ Once /\ Unspoken
  BY DEF Own
<1>1. /\ Calls(t) # <<>> /\ Len(Calls(t)) \in Nat \ {0} /\ Top(t) = Calls(t)[Len(Calls(t))]
      /\ Calls(t)[Len(Calls(t))].at = "in" /\ CallOK(Calls(t)[Len(Calls(t))])
      /\ Calls(t)[Len(Calls(t))] \in Frame /\ Calls(t)[Len(Calls(t))].of \in 0 .. MaxSets
  BY <1>0, InnermostOK DEF HandlerReturns, InHandler
<1>2. Calls(t)[Len(Calls(t))].op \in {"process", "cancel"}
  BY <1>1 DEF CallOK, SetCall, Frame
<1>3. UNCHANGED <<sets, repeated, setting, armed, ticks, handler, expired, fired, cancelled, over>>
  BY DEF HandlerReturns
<1>4. CallsInv(t)' /\ (\A h \in Settings : ~Reading(t, h)') /\ Linked(t)'
  <2>1. CASE Calls(t)[Len(Calls(t))].op = "process"
    <3>1. Pop(t)
      BY <1>1, <2>1 DEF HandlerReturns
    <3>2. CallsInv(t)' /\ \A h \in Settings : ~Reading(t, h)'
      BY <1>0, <1>1, <1>3, <3>1, PopKeeps
    <3>3. /\ Len(Calls(t)') = Len(Calls(t)) - 1
          /\ \A i \in 1 .. Len(Calls(t)) - 1 : Calls(t)'[i] = Calls(t)[i]
      BY <1>1, <3>1, PopCalls DEF TypeInv
    <3>4. Linked(t)'
      <4>1. CASE setting \in {0, handler}
        BY <1>3, <4>1 DEF Linked
      <4>2. CASE setting \notin {0, handler}
        <5>1. PICK i \in 1 .. Len(Calls(t)) :
                Calls(t)[i].op = "set" \/ (Calls(t)[i].op = "cancel" /\ handler = 0)
          BY <1>0, <4>2 DEF Linked
        <5>2. i \in 1 .. Len(Calls(t)')
          BY <1>1, <2>1, <3>3, <5>1
        <5>3. Calls(t)'[i] = Calls(t)[i]
          BY <3>3, <5>2
        <5> QED BY <1>3, <5>1, <5>2, <5>3 DEF Linked
      <4> QED BY <4>1, <4>2
    <3> QED BY <3>2, <3>4
  <2>2. CASE Calls(t)[Len(Calls(t))].op = "cancel"
    <3>1. Goto(t, "disarm")
      BY <1>1, <2>2 DEF HandlerReturns
    <3>2. /\ Len(Calls(t)') = Len(Calls(t))
          /\ \A i \in 1 .. Len(Calls(t)) - 1 : Calls(t)'[i] = Calls(t)[i]
          /\ Calls(t)'[Len(Calls(t))].op = "cancel"
          /\ Calls(t)'[Len(Calls(t))].of = Calls(t)[Len(Calls(t))].of
          /\ Calls(t)'[Len(Calls(t))].at = "disarm"
      BY <1>1, <2>2, <3>1, GotoCalls DEF TypeInv
    <3>3. CallOK(Calls(t)[Len(Calls(t))])'
      BY <1>1, <1>3, <2>2, <3>2 DEF CallOK, CancelCall
    <3>4. CallsInv(t)'
      BY <1>0, <1>1, <1>3, <3>2, <3>3, GotoKeeps
    <3>5. \A h \in Settings : ~Reading(t, h)'
      BY <3>2 DEF Reading
    <3>6. ASSUME NEW i \in 1 .. Len(Calls(t)) PROVE Calls(t)'[i].op = Calls(t)[i].op
      <4>1. CASE i = Len(Calls(t))
        BY <2>2, <3>2, <4>1
      <4>2. CASE i # Len(Calls(t))
        <5>1. i \in 1 .. Len(Calls(t)) - 1
          BY <1>1, <4>2
        <5> QED BY <3>2, <5>1
      <4> QED BY <4>1, <4>2
    <3>7. Linked(t)'
      BY <1>0, <1>3, <3>2, <3>6 DEF Linked
    <3> QED BY <3>4, <3>5, <3>7
  <2> QED BY <1>2, <2>1, <2>2
<1>5. Numbered'
  BY <1>0, <1>3 DEF Numbered
<1>6. Paid(t)'
  <2>1. \A h \in Settings : ~Reading(t, h)
    BY <1>1 DEF Reading
  <2> QED BY <1>0, <1>3, <1>4, <2>1 DEF Paid
<1>7. Once'
  BY <1>0, <1>3 DEF Once
<1>8. Unspoken'
  BY <1>0, <1>3 DEF Unspoken, ToldOnce
<1> QED BY <1>4, <1>5, <1>6, <1>7, <1>8 DEF Own

(* The other threads leave the descriptor and the handler as they are.     *)
LEMMA Handover ==
  ASSUME NEW t \in Threads, NEW u \in Threads, Own(t), stack[t] = <<>>, stack[u] = <<>>
  PROVE  Own(u)
<1>1. Calls(u) = Calls(t)
  BY DEF Calls
<1>2. CallsInv(u) /\ Linked(u) /\ \A h : Reading(u, h) <=> Reading(t, h)
  BY <1>1 DEF Own, CallsInv, Nested, Linked, Reading
<1> QED BY <1>2 DEF Own, Paid

(* Who enters is alone, and finds what the thread before left.             *)
LEMMA EntersAlone ==
  ASSUME NEW t \in Threads, NEW u \in Threads, Alone(t), Own(t), Enter(u), ~met'
  PROVE  Alone(u) /\ Own(u)
<1>1. \A v \in Threads \ {u} : stack[v] = <<>>
  BY DEF Enter
<1>2. u # t => stack[t] = <<>> /\ stack[u] = <<>>
  BY <1>1 DEF Alone
<1> QED BY <1>1, <1>2, Handover DEF Alone

Inv == TypeInv /\ (~met => \E t \in Threads : Alone(t) /\ Own(t))

LEMMA InvInit == Init => Inv
<1> SUFFICES ASSUME Init PROVE Inv
  OBVIOUS
<1>1. TypeInv
  BY TypeInit
<1>2. LoopThread \in Threads /\ Alone(LoopThread) /\ Len(Calls(LoopThread)) = 0
  BY DEF Init, Threads, Alone, Calls
<1>3. /\ \A h \in Settings : expired[h] = 0 /\ fired[h] = 0 /\ cancelled[h] = 0
      /\ sets = 0 /\ handler = 0 /\ setting = 0 /\ ticks = 0 /\ over = {}
  BY DEF Init
<1>4. CallsInv(LoopThread) /\ Linked(LoopThread) /\ Numbered /\ Once /\ Unspoken
  BY <1>2, <1>3 DEF CallsInv, Nested, Linked, Numbered, Once, Unspoken, ToldOnce
<1>5. \A h \in Settings : ~Reading(LoopThread, h)
  BY <1>2 DEF Reading
<1>6. Paid(LoopThread)
  BY <1>3, <1>5 DEF Paid
<1> QED BY <1>1, <1>2, <1>4, <1>6 DEF Inv, Own

LEMMA InvStep == Inv /\ [Next]_vars => Inv'
<1> SUFFICES ASSUME Inv, [Next]_vars PROVE Inv'
  OBVIOUS
<1>1. TypeInv' /\ TypeOK' /\ TypeInv /\ stack \in [Threads -> Seq(Frame)]
  BY TypeStep DEF Inv, TypeInv, TypeOK
<1>2. CASE UNCHANGED vars
  <2>1. /\ met' = met
        /\ \A t \in Threads : Alone(t) /\ Own(t) => Alone(t)' /\ Own(t)'
    BY <1>2
       DEF vars, fdVars, toldVars, Own, CallsInv, Nested, CallOK, SetCall, ProcessOf,
           CancelCall, Linked, Numbered, Paid, Reading, Once, Unspoken, ToldOnce,
           Calls, Alone
  <2> QED BY <1>1, <2>1 DEF Inv
<1>3. CASE Next
  <2> SUFFICES ASSUME ~met' PROVE \E t \in Threads : Alone(t)' /\ Own(t)'
    BY <1>1 DEF Inv
  <2>1. PICK t \in Threads : Alone(t) /\ Own(t)
    BY <1>3 DEF Inv, Next
  <2>2. CASE Expire
    <3>1. Alone(t)'
      BY <2>1, <2>2 DEF Alone, Expire
    <3> QED BY <1>1, <2>1, <2>2, <3>1, ExpireOwn
  <2>3. ASSUME NEW u \in Threads, SetBegin(u) \/ CancelBegin(u)
        PROVE  Alone(u)' /\ Own(u)'
    <3>1. Enter(u) /\ \A v \in Threads \ {u} : stack'[v] = stack[v]
      BY <1>1, <2>3 DEF SetBegin, CancelBegin, Push
    <3>2. Alone(u) /\ Own(u)
      BY <2>1, <3>1, EntersAlone
    <3>3. Alone(u)'
      BY <3>1, <3>2 DEF Alone
    <3> QED BY <1>1, <2>3, <3>2, <3>3, SetBeginOwn, CancelBeginOwn
  <2>4. CASE ProcessRead
    <3>1. /\ Enter(LoopThread) /\ LoopThread \in Threads
          /\ \A v \in Threads \ {LoopThread} : stack'[v] = stack[v]
      BY <1>1, <2>4 DEF ProcessRead, Push, Threads
    <3>2. Alone(LoopThread) /\ Own(LoopThread)
      BY <2>1, <3>1, EntersAlone
    <3>3. Alone(LoopThread)'
      BY <3>1, <3>2 DEF Alone
    <3> QED BY <1>1, <2>4, <3>1, <3>2, <3>3, ProcessReadOwn
  <2>5. CASE ProcessCall
    <3>1. /\ LoopThread \in Threads /\ stack[LoopThread] # <<>>
          /\ \A v \in Threads \ {LoopThread} : stack'[v] = stack[v]
      BY <1>1, <2>5 DEF ProcessCall, In, Pop, Threads
    <3>2. t = LoopThread
      BY <2>1, <3>1 DEF Alone
    <3>3. Alone(LoopThread)'
      BY <2>1, <3>1, <3>2 DEF Alone
    <3> QED BY <1>1, <2>1, <2>5, <3>1, <3>2, <3>3, ProcessCallOwn
  <2>6. ASSUME NEW u \in Threads, GoOn(u)
        PROVE  Alone(u)' /\ Own(u)'
    <3>1. stack[u] # <<>> /\ \A v \in Threads \ {u} : stack'[v] = stack[v]
      BY <1>1, <2>6
         DEF GoOn, SetEnd, CancelTell, CancelEnd, HandlerReturns, In, InHandler, Pop, Goto
    <3>2. t = u
      BY <2>1, <3>1 DEF Alone
    <3>3. Alone(u)'
      BY <2>1, <3>1, <3>2 DEF Alone
    <3> QED BY <1>1, <2>1, <2>6, <3>2, <3>3, SetEndOwn, CancelTellOwn, CancelEndOwn,
               HandlerReturnsOwn DEF GoOn
  <2> QED BY <1>3, <2>1, <2>2, <2>3, <2>4, <2>5, <2>6 DEF Next, Process, Threads
<1> QED BY <1>2, <1>3

LEMMA InvHolds == Spec => []Inv
BY InvInit, InvStep, PTL DEF Spec

(* A handler that is told of a cancellation may cancel, and set, and is    *)
(* not told again: when cancel asks whether the timer is running, the      *)
(* handler it took was told nothing yet, and nobody else can take it.  The *)
(* calls may come from any threads, until two of them meet.                *)
THEOREM ToldOnceOfCancel == Spec => []CancelledOnce
<1>1. Inv => CancelledOnce
  BY DEF Inv, Own, Unspoken, ToldOnce, CancelledOnce
<1> QED BY <1>1, InvHolds, PTL

(* No handler is called more often than what it was set for has expired:   *)
(* timerfd_settime forgets the expirations of the setting before, and      *)
(* process calls the handler before anybody can set another without        *)
(* meeting it.                                                             *)
THEOREM NeverTooEarly == Spec => []NoEarlyFire
<1>1. Inv => NoEarlyFire
  <2> SUFFICES ASSUME Inv, ~met, NEW h \in Settings PROVE fired[h] <= expired[h]
    BY DEF NoEarlyFire
  <2>0. PICK t \in Threads : Own(t)
    BY DEF Inv
  <2>1. fired[h] \in Nat /\ expired[h] \in Nat
    BY NumbersType DEF Inv
  <2>2. fired[h] + (IF setting = h /\ ticks > 0 THEN 1 ELSE 0)
                 + (IF Reading(t, h) THEN 1 ELSE 0) <= expired[h]
    BY <2>0 DEF Own, Paid
  <2> QED BY <2>1, <2>2
<1> QED BY <1>1, InvHolds, PTL

(* Of a timer set for once, the handler is told one thing and once.        *)
THEOREM ToldOneOfTheTwo == Spec => []OneShotOnce
<1>1. Inv => OneShotOnce
  <2> SUFFICES ASSUME Inv, ~met, NEW h \in 1 .. sets \ repeated
               PROVE  fired[h] + cancelled[h] <= 1
    BY DEF OneShotOnce
  <2>0. PICK t \in Threads : Own(t)
    BY DEF Inv
  <2>1. /\ h \in Settings /\ fired[h] \in Nat /\ expired[h] \in Nat
        /\ cancelled[h] \in Nat
    BY NumbersType DEF Inv
  <2>2. fired[h] + (IF setting = h /\ ticks > 0 THEN 1 ELSE 0)
                 + (IF Reading(t, h) THEN 1 ELSE 0) <= expired[h]
    BY <2>0, <2>1 DEF Own, Paid
  <2>3. expired[h] <= 1 /\ (cancelled[h] > 0 => fired[h] = 0) /\ cancelled[h] <= 1
    BY <2>0, <2>1 DEF Own, Once, Unspoken, ToldOnce
  <2> QED BY <2>1, <2>2, <2>3
<1> QED BY <1>1, InvHolds, PTL

(* Between calls, a timer without a handler neither runs nor has expired.  *)
THEOREM NeverIdle == Spec => []NoIdleTimer
<1>1. Inv => NoIdleTimer
  <2> SUFFICES ASSUME Inv, ~met, handler = 0, \A t \in Threads : stack[t] = <<>>
               PROVE  ~armed /\ ticks = 0
    BY DEF NoIdleTimer
  <2>0. PICK t \in Threads : Own(t)
    BY DEF Inv
  <2>1. Len(Calls(t)) = 0
    BY DEF Calls
  <2>2. setting = 0
    BY <2>0, <2>1 DEF Own, Linked
  <2> QED BY <2>2, NumbersType DEF Inv
<1> QED BY <1>1, InvHolds, PTL

(* A handler whose setting was replaced or cancelled, by a call that has   *)
(* returned, is never called again, by whatever handler or thread the      *)
(* calls were made: it is neither m_eventHandler nor the one that a cancel *)
(* took.                                                                   *)
THEOREM OverIsSilent == Spec => SilentWhenOver
<1>1. Inv /\ [Next]_vars
        => [~met => \A h \in over : /\ fired'[h] = fired[h]
                                    /\ cancelled'[h] = cancelled[h]]_vars
  <2> SUFFICES ASSUME Inv, Next, ~met, NEW h \in over
               PROVE  fired'[h] = fired[h] /\ cancelled'[h] = cancelled[h]
    OBVIOUS
  <2> USE DEF toldVars
  <2>0. h \in Settings /\ fired \in [Settings -> Nat] /\ cancelled \in [Settings -> Nat]
    BY NumbersType DEF Inv, TypeInv, TypeOK
  <2>00. PICK t \in Threads : Alone(t) /\ Own(t)
    BY DEF Inv
  <2>1. CASE ProcessCall
    <3>1. h # handler
      BY <2>00 DEF Own, Unspoken
    <3>2. /\ cancelled' = cancelled
          /\ fired' = fired \/ fired' = [fired EXCEPT ![handler] = @ + 1]
      BY <2>1 DEF ProcessCall
    <3> QED BY <2>0, <3>1, <3>2
  <2>2. ASSUME NEW u \in Threads, CancelTell(u)
        PROVE  fired'[h] = fired[h] /\ cancelled'[h] = cancelled[h]
    <3>0. stack[u] # <<>> /\ u = t
      BY <2>00, <2>2 DEF CancelTell, In, Alone
    <3>1. /\ Top(t) = Calls(t)[Len(Calls(t))] /\ CallOK(Calls(t)[Len(Calls(t))])
          /\ Calls(t)[Len(Calls(t))].op = "cancel" /\ Calls(t)[Len(Calls(t))].at = "get"
      BY <2>00, <2>2, <3>0, InnermostOK DEF CancelTell, In, Inv, Own
    <3>2. PICK c : c = Top(t).of
      OBVIOUS
    <3>3. c # 0 => c # h
      BY <3>1, <3>2 DEF CallOK, CancelCall
    <3>4. /\ fired' = fired
          /\ \/ cancelled' = cancelled
             \/ c # 0 /\ cancelled' = [cancelled EXCEPT ![c] = @ + 1]
      BY <2>2, <3>0, <3>2 DEF CancelTell
    <3> QED BY <2>0, <3>3, <3>4
  <2>3. CASE /\ ~ProcessCall
             /\ \A u \in Threads : ~CancelTell(u)
    BY <2>3 DEF Next, Process, GoOn, Expire, ProcessRead, SetBegin, SetEnd, CancelBegin,
                CancelEnd, HandlerReturns
  <2> QED BY <2>1, <2>2, <2>3
<1> QED BY <1>1, InvHolds, PTL DEF Spec, SilentWhenOver
==============================================================================
