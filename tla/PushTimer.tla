------------------------------ MODULE PushTimer ------------------------------
(***************************************************************************)
(* voice_server: PushMsgTimerQueue, the pushes that wait for a device's    *)
(* reply, each with the time at which its requester is told of a timeout.  *)
(*                                                                         *)
(* The TLV worker adds a push after it was sent and takes it out when the  *)
(* reply comes; the timer thread takes out what is due and, without the    *)
(* mutex, completes it.  schedule_ is a multimap by time: a set of pushes, *)
(* each with its time; events_ finds a push in it by its number, which is  *)
(* fresh for every push.  The mutex makes each operation, and what Entry   *)
(* does between two of its lock operations, one step.                      *)
(*                                                                         *)
(* This is the class as written.  Nothing in the program calls Start:      *)
(* MayStart = FALSE is the shipped server, in which a push without a reply *)
(* stays in the maps for ever; MayStart = TRUE asks what the class does    *)
(* once its thread is started.                                             *)
(***************************************************************************)
EXTENDS Integers

CONSTANTS
    MaxPush,    \* bound: pushes
    MaxTime,    \* bound: the clock
    Timeouts,   \* values of tlv_push_msg_timeout
    MayStart    \* whether somebody calls Start

ASSUME TimerAssumption ==
    MaxPush \in Nat /\ MaxTime \in Nat /\ Timeouts \subseteq Nat /\ MayStart \in BOOLEAN

Mids  == 1 .. MaxPush
NoMid == 0

VARIABLES
    clock,
    g_push_msg_mid,    \* pushes numbered so far
    schedule_,         \* pushes that wait for their time
    when,              \* the time each push was scheduled for
    events_,           \* pushes that can be found by number
    stop_,
    tpc,               \* the timer thread in Entry
    now,               \* its local variables: the time it read,
    due,               \*   the push it completes,
    until,             \*   the time WaitUtil waits for
    answered           \* how often each push was answered

threadVars == <<tpc, now, due, until>>
queueVars  == <<schedule_, when, events_>>
timerVars  == <<clock, g_push_msg_mid, queueVars, stop_, threadVars, answered>>

TypeOK ==
    /\ clock \in 0 .. MaxTime
    /\ g_push_msg_mid \in 0 .. MaxPush
    /\ schedule_ \subseteq Mids
    /\ when \in [Mids -> Nat]
    /\ events_ \subseteq Mids
    /\ stop_ \in BOOLEAN
    /\ tpc \in {"created", "top", "loop", "complete", "wait", "timed", "exit"}
    /\ now \in 0 .. MaxTime
    /\ due \in Mids \cup {NoMid}
    /\ until \in Nat
    /\ answered \in [Mids -> Nat]

Init ==
    /\ clock = 0
    /\ g_push_msg_mid = 0
    /\ schedule_ = {} /\ when = [p \in Mids |-> 0] /\ events_ = {}
    /\ stop_ = FALSE
    /\ tpc = "created" /\ now = 0 /\ due = NoMid /\ until = 0
    /\ answered = [p \in Mids |-> 0]

\* gettimeofday.
Tick ==
    /\ clock < MaxTime
    /\ clock' = clock + 1
    /\ UNCHANGED <<g_push_msg_mid, queueVars, stop_, threadVars, answered>>

\* Cond::Signal: a waiting thread goes on when it has the mutex.
Signal == tpc' = IF tpc \in {"wait", "timed"} THEN "top" ELSE tpc

-----------------------------------------------------------------------------
(* The worker's operations.                                                 *)

\* Push p is at schedule_.begin(): nothing is earlier, and multimap::insert put
\* it before those of the same time that came, and were numbered, later.
IsFirst(p) ==
    /\ p \in schedule_
    /\ \A q \in schedule_ : when[p] < when[q] \/ (when[p] = when[q] /\ p <= q)

\* Signals only where the queue was empty.
Mut_AddEventAt(p, w) ==
    /\ schedule_' = schedule_ \cup {p}
    /\ when' = [when EXCEPT ![p] = w]
    /\ events_' = events_ \cup {p}
    /\ IF schedule_ = {} THEN Signal ELSE UNCHANGED tpc

\* AddEventAt signals where the new push is the first.
AddEventAt(p, w) ==
    /\ schedule_' = schedule_ \cup {p}
    /\ when' = [when EXCEPT ![p] = w]
    /\ events_' = events_ \cup {p}
    /\ IF \A q \in schedule_ : w < when[q] THEN Signal ELSE UNCHANGED tpc

\* PackStartSendPushMsg takes a number; ForwardMsgToDev, once the push was sent,
\* calls AddEventAfter.  The timeout is read from the configuration for every push,
\* so for the class a later push may have an earlier time.  (In the program it
\* never changes: the SIGUSR1 handler that reloads it is never registered.)
AddEventAfter ==
    /\ g_push_msg_mid < MaxPush
    /\ g_push_msg_mid' = g_push_msg_mid + 1
    /\ \E seconds \in Timeouts : AddEventAt(g_push_msg_mid', clock + seconds)
    /\ UNCHANGED <<clock, stop_, now, due, until, answered>>

\* CancelEventUnlocked for a push it finds; the context is deleted.
CancelEventUnlocked(p) ==
    /\ schedule_' = schedule_ \ {p}
    /\ events_' = events_ \ {p}
    /\ UNCHANGED when

\* Finds the push in the copy the timer thread has in hand, too.
Mut_GetAndCancelEvent(p) ==
    /\ p \in events_ \cup {due}
    /\ CancelEventUnlocked(p)
    /\ answered' = [answered EXCEPT ![p] = @ + 1]
    /\ UNCHANGED <<clock, g_push_msg_mid, stop_, threadVars>>

\* A reply names push p: GetAndCancelEvent, and the worker answers the
\* requester.  Anything else finds nothing and changes nothing.
GetAndCancelEvent(p) ==
    /\ p \in events_
    /\ CancelEventUnlocked(p)
    /\ answered' = [answered EXCEPT ![p] = @ + 1]
    /\ UNCHANGED <<clock, g_push_msg_mid, stop_, threadVars>>

\* PushMsgTimerQueue::Shutdown, of a thread that was started.
Shutdown ==
    /\ MayStart /\ ~stop_
    /\ stop_' = TRUE
    /\ Signal
    /\ UNCHANGED <<clock, g_push_msg_mid, queueVars, now, due, until, answered>>

-----------------------------------------------------------------------------
(* The timer thread.                                                        *)

\* PushMsgTimerQueue::Start, which has no caller.
Start ==
    /\ MayStart /\ tpc = "created"
    /\ tpc' = "top"
    /\ UNCHANGED <<clock, g_push_msg_mid, queueVars, stop_, now, due, until, answered>>

Goto(s) ==
    /\ tpc' = s
    /\ UNCHANGED <<clock, g_push_msg_mid, queueVars, stop_, now, due, until, answered>>

\* The outer loop's test, and its reading of the clock.
Top ==
    /\ tpc = "top" /\ ~stop_
    /\ tpc' = "loop"
    /\ now' = clock
    /\ UNCHANGED <<clock, g_push_msg_mid, queueVars, stop_, due, until, answered>>

FirstIsDue == \E p \in Mids : IsFirst(p) /\ when[p] <= now

\* Takes a push that is due out of both maps and releases the mutex.
TakeDue ==
    /\ tpc = "loop" /\ FirstIsDue
    /\ tpc' = "complete"
    /\ due' \in Mids /\ IsFirst(due')
    /\ schedule_' = schedule_ \ {due'}
    /\ events_' = events_ \ {due'}
    /\ UNCHANGED <<clock, g_push_msg_mid, when, stop_, now, until, answered>>

\* PushMsgContext::Complete: Finish sends the timeout, the context is deleted.
Complete ==
    /\ tpc = "complete"
    /\ answered' = [answered EXCEPT ![due] = @ + 1]
    /\ due' = NoMid
    /\ tpc' = "loop"
    /\ UNCHANGED <<clock, g_push_msg_mid, queueVars, stop_, now, until>>

\* Waits for a signal, or for the time of the first push.
Wait ==
    /\ tpc = "loop" /\ ~FirstIsDue /\ ~stop_
    /\ \/ schedule_ = {} /\ tpc' = "wait" /\ UNCHANGED until
       \/ \E p \in Mids : IsFirst(p) /\ tpc' = "timed" /\ until' = when[p]
    /\ UNCHANGED <<clock, g_push_msg_mid, queueVars, stop_, now, due, answered>>

\* pthread_cond_timedwait ends at its time.
WaitEnds == tpc = "timed" /\ clock >= until /\ Goto("top")

SpuriousWakeup == tpc \in {"wait", "timed"} /\ Goto("top")

Leave == (tpc = "top" \/ (tpc = "loop" /\ ~FirstIsDue)) /\ stop_ /\ Goto("exit")

TimerThread == Start \/ Top \/ TakeDue \/ Complete \/ Wait \/ WaitEnds \/ Leave

-----------------------------------------------------------------------------
TimerNext ==
    \/ Tick \/ AddEventAfter \/ Shutdown \/ TimerThread \/ SpuriousWakeup
    \/ \E p \in Mids : GetAndCancelEvent(p)

TimerSpec == Init /\ [][TimerNext]_timerVars

-----------------------------------------------------------------------------
(* Properties.                                                              *)

\* schedule_ and events_ name the same pushes, and none that the timer thread
\* has in hand: no context is reached after it was deleted, none is left where
\* only one of the maps knows it.
MapsAgree == schedule_ = events_ /\ due \notin events_

\* The timeout races the reply, the timer thread without its lock: a push is
\* answered with the one or the other and never with both, and nothing that is
\* still to be answered has been answered.
AnsweredOnce ==
    \A p \in Mids :
        answered[p] + (IF p \in events_ THEN 1 ELSE 0) + (IF p = due THEN 1 ELSE 0) <= 1

\* No push times out before its time, although the loop works with a clock
\* reading that is older than the pushes it may meet.
NotBeforeItsTime == due # NoMid => when[due] <= clock

\* AddEventAt signals for a new first push only; still the timer thread never
\* sleeps past the time of any push that waits.
NeverOversleeps ==
    /\ tpc = "wait" => schedule_ = {}
    /\ tpc = "timed" => \A p \in schedule_ : until <= when[p]
=============================================================================
