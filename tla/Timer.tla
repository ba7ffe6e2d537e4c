-------------------------------- MODULE Timer --------------------------------
(***************************************************************************)
(* hbm::sys::Timer on Linux: hbm/sys/linux/timer.cpp                       *)
(*                                                                         *)
(* A timer descriptor, and the handler to be called when it has expired or *)
(* is cancelled.  The thread of the event loop calls process(); it, and    *)
(* other threads, call set() and cancel().  Handlers may do so, too, so a  *)
(* thread has a stack of calls, the last being the innermost.              *)
(*                                                                         *)
(* Every set() has a number of its own, which names its handler.  What a   *)
(* thread does between two system calls or calls of a handler is one step. *)
(*                                                                         *)
(* Nothing guards m_eventHandler.  Calls of two threads that overlap read  *)
(* it while it is written, and destroy a handler that is being executed:   *)
(* from then on anything may happen, and nothing is claimed.  met tells    *)
(* when two threads have met in the timer.  Calls that do not overlap are  *)
(* taken to see what the earlier ones did: each enters the kernel.         *)
(***************************************************************************)
EXTENDS Integers, Sequences, FiniteSets

CONSTANTS
  Callers,      \* threads that call set and cancel
  LoopThread,   \* the thread that executes the event loop
  MaxSets,      \* bound: calls of set
  MaxCancels,   \* bound: calls of cancel
  MaxTicks,     \* bound: expirations of one setting
  MaxDepth      \* bound: calls within calls

ASSUME ConstantsAssumption ==
  /\ Callers # {}
  /\ {MaxSets, MaxCancels, MaxTicks} \subseteq Nat
  /\ MaxDepth \in Nat \ {0}

Threads == Callers \cup {LoopThread}

Settings == 1 .. MaxSets

VARIABLES
  sets,        \* calls of set so far
  cancels,     \* calls of cancel so far
  repeated,    \* the settings that are
  setting,     \* the setting the descriptor was given last, or 0
  armed,       \* the descriptor's it_value is not 0
  ticks,       \* expirations not yet read
  handler,     \* m_eventHandler: a setting, or 0 for none
  stack,       \* thread -> its calls
  expired,     \* setting -> expirations
  fired,       \* setting -> calls of its handler with true
  cancelled,   \* setting -> calls of its handler with false
  over,        \* settings replaced, or cancelled, by a call that returned
  disarmed,    \* those over because of a cancel
  met          \* two threads have been in the timer at the same time

fdVars == <<setting, armed, ticks>>
toldVars == <<fired, cancelled>>
vars == <<sets, cancels, repeated, fdVars, handler, stack, expired, toldVars,
          over, disarmed, met>>

(* A call and where it is.                                                 *)
(*   process: "call" (it has read), "in" the handler                       *)
(*   cancel:  "get" (the handler is taken away), "in" the handler, "disarm"*)
(*   set:     "settime"                                                    *)
(* of is the setting it is about.                                          *)
Frame == [op : {"process", "set", "cancel"},
          at : {"call", "in", "get", "disarm", "settime"},
          of : 0 .. MaxSets]

Call(op, at, h) == [op |-> op, at |-> at, of |-> h]

Init ==
  /\ sets = 0
  /\ cancels = 0
  /\ repeated = {}
  /\ setting = 0
  /\ armed = FALSE
  /\ ticks = 0
  /\ handler = 0
  /\ stack = [t \in Threads |-> <<>>]
  /\ expired = [h \in Settings |-> 0]
  /\ fired = [h \in Settings |-> 0]
  /\ cancelled = [h \in Settings |-> 0]
  /\ over = {}
  /\ disarmed = {}
  /\ met = FALSE
------------------------------------------------------------------------------
(* The stack of a thread.                                                  *)

Top(t) == stack[t][Len(stack[t])]

In(t, op, at) == stack[t] # <<>> /\ Top(t).op = op /\ Top(t).at = at

Push(t, call) == stack' = [stack EXCEPT ![t] = Append(@, call)]

Pop(t) == stack' = [stack EXCEPT ![t] = SubSeq(@, 1, Len(@) - 1)]

Goto(t, at) == stack' = [stack EXCEPT ![t][Len(stack[t])].at = at]

InHandler(t) == stack[t] # <<>> /\ Top(t).at = "in"

(* A thread may call the timer between calls and in its handler.           *)
MayCall(t) ==
  /\ (stack[t] = <<>> /\ t \in Callers) \/ InHandler(t)
  /\ Len(stack[t]) < MaxDepth

(* A call begins; another thread may be in one.                            *)
Enter(t) == met' = (met \/ \E u \in Threads \ {t} : stack[u] # <<>>)
------------------------------------------------------------------------------
(* The descriptor.                                                         *)

Expire ==
  /\ armed /\ expired[setting] < MaxTicks
  /\ ticks' = ticks + 1
  /\ armed' = (setting \in repeated)
  /\ expired' = [expired EXCEPT ![setting] = @ + 1]
  /\ UNCHANGED <<sets, cancels, repeated, setting, handler, stack, toldVars,
                 over, disarmed, met>>

(* Faulty: the expirations of the time before are kept.                    *)
SettimeKeepingTicks(h) ==
  /\ setting' = h
  /\ armed' = (h # 0)
  /\ ticks' = ticks

(* timerfd_settime, which forgets all expirations.                         *)
Settime(h) ==
  /\ setting' = h
  /\ armed' = (h # 0)
  /\ ticks' = 0
------------------------------------------------------------------------------
(* set                                                                     *)

(* Faulty: a handler that is there already stays.                          *)
SetBeginKeeping(t) ==
  /\ MayCall(t) /\ sets < MaxSets
  /\ sets' = sets + 1
  /\ repeated' \in {repeated, repeated \cup {sets + 1}}
  /\ handler' = IF handler = 0 THEN sets + 1 ELSE handler
  /\ Push(t, Call("set", "settime", sets + 1))
  /\ Enter(t)
  /\ UNCHANGED <<cancels, fdVars, expired, toldVars, over, disarmed>>

(* The handler first, and only then the descriptor.  A period of 0 is      *)
(* refused before anything has changed.                                    *)
SetBegin(t) ==
  /\ MayCall(t) /\ sets < MaxSets
  /\ sets' = sets + 1
  /\ repeated' \in {repeated, repeated \cup {sets + 1}}
  /\ handler' = sets + 1
  /\ Push(t, Call("set", "settime", sets + 1))
  /\ Enter(t)
  /\ UNCHANGED <<cancels, fdVars, expired, toldVars, over, disarmed>>

SetEnd(t) ==
  /\ In(t, "set", "settime")
  /\ Settime(Top(t).of)
  /\ over' = over \cup 1 .. Top(t).of - 1
  /\ Pop(t)
  /\ UNCHANGED <<sets, cancels, repeated, handler, expired, toldVars,
                 disarmed, met>>
------------------------------------------------------------------------------
(* cancel                                                                  *)

(* Faulty: the handler stays where it is while it is called.               *)
CancelBeginKeeping(t) ==
  /\ MayCall(t) /\ cancels < MaxCancels
  /\ cancels' = cancels + 1
  /\ handler' = handler
  /\ Push(t, Call("cancel", "get", handler))
  /\ Enter(t)
  /\ UNCHANGED <<sets, repeated, fdVars, expired, toldVars, over, disarmed>>

(* The handler is taken away before it is called, lest it cancels again.   *)
CancelBegin(t) ==
  /\ MayCall(t) /\ cancels < MaxCancels
  /\ cancels' = cancels + 1
  /\ handler' = 0
  /\ Push(t, Call("cancel", "get", handler))
  /\ Enter(t)
  /\ UNCHANGED <<sets, repeated, fdVars, expired, toldVars, over, disarmed>>

(* Faulty: whether the timer is running or not.                            *)
CancelTellAlways(t) ==
  LET h == Top(t).of
  IN /\ In(t, "cancel", "get")
     /\ IF h # 0
          THEN /\ cancelled' = [cancelled EXCEPT ![h] = @ + 1]
               /\ Goto(t, "in")
          ELSE /\ Goto(t, "disarm")
               /\ UNCHANGED cancelled
     /\ UNCHANGED <<sets, cancels, repeated, fdVars, handler, expired, fired,
                    over, disarmed, met>>

(* timerfd_gettime: is the timer running?  Then the handler is told.       *)
CancelTell(t) ==
  LET h == Top(t).of
  IN /\ In(t, "cancel", "get")
     /\ IF armed /\ h # 0
          THEN /\ cancelled' = [cancelled EXCEPT ![h] = @ + 1]
               /\ Goto(t, "in")
          ELSE /\ Goto(t, "disarm")
               /\ UNCHANGED cancelled
     /\ UNCHANGED <<sets, cancels, repeated, fdVars, handler, expired, fired,
                    over, disarmed, met>>

(* Faulty: a timer that was not running is not disarmed.                   *)
CancelEndLazily(t) ==
  /\ In(t, "cancel", "disarm")
  /\ IF armed THEN Settime(0) ELSE UNCHANGED fdVars
  /\ over' = over \cup {h \in Settings : h <= Top(t).of}
  /\ disarmed' = disarmed \cup ({Top(t).of} \ {0})
  /\ Pop(t)
  /\ UNCHANGED <<sets, cancels, repeated, handler, expired, toldVars, met>>

CancelEnd(t) ==
  /\ In(t, "cancel", "disarm")
  /\ Settime(0)
  /\ over' = over \cup {h \in Settings : h <= Top(t).of}
  /\ disarmed' = disarmed \cup ({Top(t).of} \ {0})
  /\ Pop(t)
  /\ UNCHANGED <<sets, cancels, repeated, handler, expired, toldVars, met>>
------------------------------------------------------------------------------
(* process, called by the event loop while it returns more than 0          *)

(* Faulty: nothing is ever called.                                         *)
ProcessReadOnly ==
  /\ stack[LoopThread] = <<>> /\ ticks > 0
  /\ ticks' = 0
  /\ UNCHANGED <<sets, cancels, repeated, setting, armed, handler, stack,
                 expired, toldVars, over, disarmed, met>>

(* The number of expirations is read, which resets it, and not looked at.  *)
ProcessRead ==
  /\ stack[LoopThread] = <<>> /\ ticks > 0
  /\ ticks' = 0
  /\ Push(LoopThread, Call("process", "call", setting))
  /\ Enter(LoopThread)
  /\ UNCHANGED <<sets, cancels, repeated, setting, armed, handler, expired,
                 toldVars, over, disarmed>>

(* Whatever handler there is now, if any, is called.                       *)
ProcessCall ==
  /\ In(LoopThread, "process", "call")
  /\ IF handler = 0
       THEN Pop(LoopThread) /\ UNCHANGED fired
       ELSE /\ fired' = [fired EXCEPT ![handler] = @ + 1]
            /\ stack' = [stack EXCEPT ![LoopThread] =
                 [@ EXCEPT ![Len(@)] = Call("process", "in", handler)]]
  /\ UNCHANGED <<sets, cancels, repeated, fdVars, handler, expired, cancelled,
                 over, disarmed, met>>

(* A handler returns to where it was called.                               *)
HandlerReturns(t) ==
  /\ InHandler(t)
  /\ IF Top(t).op = "process" THEN Pop(t) ELSE Goto(t, "disarm")
  /\ UNCHANGED <<sets, cancels, repeated, fdVars, handler, expired, toldVars,
                 over, disarmed, met>>

(* What a call goes on with, whatever it was and whoever made it.          *)
GoOn(t) == SetEnd(t) \/ CancelTell(t) \/ CancelEnd(t) \/ HandlerReturns(t)

Process == ProcessRead \/ ProcessCall

(* What follows when two threads have met is not modelled.                 *)
Next ==
  /\ ~met
  /\ \/ Expire
     \/ Process
     \/ \E t \in Threads : SetBegin(t) \/ CancelBegin(t) \/ GoOn(t)

Spec == Init /\ [][Next]_vars

(* Calls and handlers end, and the thread of the event loop, when it is in *)
(* no call, comes to look at the descriptor, however often it makes calls  *)
(* of its own before.                                                      *)
FairSpec ==
  /\ Spec
  /\ SF_vars(~met /\ Process)
  /\ \A t \in Threads : WF_vars(~met /\ GoOn(t))
------------------------------------------------------------------------------
(* Properties: of the time before two threads met in the timer.  Until     *)
(* then its calls may come from any thread, one after the other: the loop  *)
(* of one executes the handler, another cancels (Receiver::stop).          *)

TypeOK ==
  /\ sets \in 0 .. MaxSets
  /\ cancels \in 0 .. MaxCancels
  /\ repeated \subseteq Settings
  /\ setting \in 0 .. MaxSets
  /\ armed \in BOOLEAN
  /\ ticks \in 0 .. MaxTicks
  /\ handler \in 0 .. MaxSets
  /\ stack \in [Threads -> Seq(Frame)]
  /\ expired \in [Settings -> 0 .. MaxTicks]
  /\ {fired, cancelled} \subseteq [Settings -> Nat]
  /\ over \subseteq Settings
  /\ disarmed \subseteq Settings
  /\ met \in BOOLEAN

(* A timer set for once tells its handler once: that it has fired or that  *)
(* it was cancelled, and never both, whatever the handler calls.           *)
OneShotOnce ==
  ~met => \A h \in 1 .. sets \ repeated : fired[h] + cancelled[h] <= 1

(* A handler that is told of the cancellation may cancel, and is not told  *)
(* again.                                                                  *)
CancelledOnce == ~met => \A h \in Settings : cancelled[h] <= 1

(* An expiration of a setting that was replaced is not taken for one of    *)
(* the setting that replaced it.                                           *)
NoEarlyFire == ~met => \A h \in Settings : fired[h] <= expired[h]

(* Once it was cancelled or replaced, a handler is never called again.     *)
SilentWhenOver ==
  [][~met => \A h \in over : /\ fired'[h] = fired[h]
                             /\ cancelled'[h] = cancelled[h]]_vars

(* No descriptor runs, or has expired, without a handler to be told.       *)
NoIdleTimer ==
  ~met /\ handler = 0 /\ (\A t \in Threads : stack[t] = <<>>)
    => ~armed /\ ticks = 0

(* What has expired is told, unless it is cancelled or replaced before.    *)
ExpiredIsTold ==
  \A h \in Settings :
    setting = h /\ expired[h] > 0 ~> fired[h] > 0 \/ setting # h \/ met
------------------------------------------------------------------------------
(* What a test says that the code does not do.                             *)

(* The test restart_timer_test (eventloop_test.cpp:230): a timer that is   *)
(* set again before it has fired is told that it was cancelled.            *)
RestartIsTold == \A h \in over \ disarmed : fired[h] + cancelled[h] > 0
==============================================================================
