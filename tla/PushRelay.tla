------------------------------ MODULE PushRelay ------------------------------
(***************************************************************************)
(* Relaying a push request of the HTTP server to a device and the device's *)
(* reply back (deviceOnline; userOnline has the same queue for users).     *)
(*                                                                         *)
(* The local-transport thread turns a request into a PushMsg with a fresh  *)
(* number and a response context, and puts it into PushMsgQueue.  The push *)
(* thread takes it out, looks the device's socket up in Redis, writes the  *)
(* message and only then enters it into WaitFinishPushMsgQueue.  A worker  *)
(* thread that receives the device's reply finds the entry by its number   *)
(* and completes the context, which answers the requester and deletes      *)
(* itself.  Where delivery fails the push thread completes the context     *)
(* with the error.                                                         *)
(*                                                                         *)
(* The entry is never erased: it keeps the address of a context that is    *)
(* gone, and the next context may get that address.  So contexts are named *)
(* by address, pushes by their push_cnt.  A step is what one thread does   *)
(* between two lock operations; payloads and sockets are left out.         *)
(***************************************************************************)
EXTENDS Integers, Sequences, FiniteSets

CONSTANTS
    MaxPush,     \* bound: push requests
    MaxReplies,  \* bound: replies a device sends to one push
    MayStop      \* whether somebody calls PushMsgQueue::Stop

ASSUME PushAssumption ==
    MaxPush \in Nat /\ MaxReplies \in Nat /\ MayStop \in BOOLEAN

Pushes == 1 .. MaxPush
NoPush == 0

\* Addresses of response contexts, enough for all to live at once; which ones
\* are equal is all that matters.
Addrs  == 1 .. MaxPush
NoAddr == 0

VARIABLES
    g_push_msg_cnt,    \* pushes numbered so far
    push_msg_queue_,   \* PushMsgQueue's list
    stop_,
    ppc, cur,          \* the push thread in Entry, and the message it handles
    wait_finish_msg_queue_,  \* pushes entered into WaitFinishPushMsgQueue
    ct,                \* PushMsg.ct: the address of each push's context
    live,              \* addresses that hold a context
    owner,             \* the push whose context was constructed there last
    completed,         \* completions through each push's pointer
    misused,           \* history: pushes whose pointer was completed when it
                       \* no longer named their own context
    written,           \* pushes written to a device's socket
    replies,           \* replies of devices that no worker has handled yet
    replied            \* replies with each push's number in all

queueVars == <<push_msg_queue_, stop_, ppc, cur>>
ctVars    == <<ct, live, owner, completed, misused>>
devVars   == <<written, replies, replied>>
vars == <<g_push_msg_cnt, queueVars, wait_finish_msg_queue_, ctVars, devVars>>

TypeOK ==
    /\ g_push_msg_cnt \in 0 .. MaxPush
    /\ push_msg_queue_ \in Seq(Pushes)
    /\ stop_ \in BOOLEAN
    /\ ppc \in {"top", "inner", "wait", "lookup", "write", "register",
                "finish", "exit"}
    /\ cur \in Pushes \cup {NoPush}
    /\ wait_finish_msg_queue_ \subseteq Pushes
    /\ ct \in [Pushes -> Addrs \cup {NoAddr}]
    /\ live \subseteq Addrs
    /\ owner \in [Addrs -> Pushes \cup {NoPush}]
    /\ completed \in [Pushes -> Nat]
    /\ misused \subseteq Pushes
    /\ written \subseteq Pushes
    /\ replies \in [Pushes -> 0 .. MaxReplies]
    /\ replied \in [Pushes -> 0 .. MaxReplies]

Init ==
    /\ g_push_msg_cnt = 0
    /\ push_msg_queue_ = <<>>
    /\ stop_ = FALSE
    /\ ppc = "top" /\ cur = NoPush
    /\ wait_finish_msg_queue_ = {}
    /\ ct = [p \in Pushes |-> NoAddr]
    /\ live = {}
    /\ owner = [a \in Addrs |-> NoPush]
    /\ completed = [p \in Pushes |-> 0]
    /\ misused = {}
    /\ written = {}
    /\ replies = [p \in Pushes |-> 0]
    /\ replied = [p \in Pushes |-> 0]

\* The push's pointer names the push's own context, not freed memory and not
\* the context of a later push.
NamesItsContext(p) == ct[p] \in live /\ owner[ct[p]] = p

\* Context::Complete through a push's pointer: Finish writes an answer to the
\* requester whose descriptor is there, then the context deletes itself,
\* whosever it is.
Complete(p) ==
    /\ completed' = [completed EXCEPT ![p] = @ + 1]
    /\ misused' = IF NamesItsContext(p) THEN misused ELSE misused \cup {p}
    /\ live' = live \ {ct[p]}
    /\ UNCHANGED <<ct, owner>>

-----------------------------------------------------------------------------
(* The local-transport thread.                                              *)

\* Puts the newest message first.
Mut_SubmitMsg(p) ==
    /\ push_msg_queue_' = <<p>> \o push_msg_queue_
    /\ ppc' = IF ppc = "wait" THEN "top" ELSE ppc

\* PushMsgQueue::SubmitMsg: append and signal; only a waiting thread wakes up.
SubmitMsg(p) ==
    /\ push_msg_queue_' = Append(push_msg_queue_, p)
    /\ ppc' = IF ppc = "wait" THEN "top" ELSE ppc

\* CLocalTransport::HandleMsg for a well-formed push request.  A request that
\* does not parse is refused or dropped at once and changes nothing here.  The
\* new context is at any address that holds none, one an old entry still names
\* included; once a freed context was deleted again, at any address at all.
HandleMsg ==
    LET p == g_push_msg_cnt + 1
    IN  /\ g_push_msg_cnt < MaxPush
        /\ g_push_msg_cnt' = p
        /\ \E a \in Addrs :
              /\ a \notin live \/ misused # {}
              /\ ct' = [ct EXCEPT ![p] = a]
              /\ live' = live \cup {a}
              /\ owner' = [owner EXCEPT ![a] = p]
        /\ SubmitMsg(p)
        /\ UNCHANGED <<stop_, cur, wait_finish_msg_queue_, completed, misused,
                       devVars>>

-----------------------------------------------------------------------------
(* The push thread: PushMsgQueue::Entry.                                    *)

\* The thread has the mutex: at the top of the outer loop, where it starts and
\* where a wait returns, or at the top of the inner one, after a message.

\* The outer loop's test of stop_, whatever is in the queue.
Leave ==
    /\ ppc = "top"
    /\ stop_
    /\ ppc' = "exit"
    /\ UNCHANGED <<g_push_msg_cnt, push_msg_queue_, stop_, cur,
                   wait_finish_msg_queue_, ctVars, devVars>>

\* The next message; the mutex is released.
Pop ==
    /\ ppc = "inner" \/ (ppc = "top" /\ ~stop_)
    /\ push_msg_queue_ # <<>>
    /\ cur' = Head(push_msg_queue_)
    /\ push_msg_queue_' = Tail(push_msg_queue_)
    /\ ppc' = "lookup"
    /\ UNCHANGED <<g_push_msg_cnt, stop_, wait_finish_msg_queue_, ctVars,
                   devVars>>

\* Decides to wait before it has the mutex again: the queue it saw empty may
\* have been filled, and the signal is gone.
Mut_Wait ==
    /\ ppc = "inner" \/ (ppc = "top" /\ ~stop_)
    /\ ppc' = IF stop_ THEN "exit" ELSE "wait"
    /\ UNCHANGED <<g_push_msg_cnt, push_msg_queue_, stop_, cur,
                   wait_finish_msg_queue_, ctVars, devVars>>

\* The queue is empty: leave, or wait for a signal.  The wait releases the
\* mutex, so no message can slip in before it.
Wait ==
    /\ ppc = "inner" \/ (ppc = "top" /\ ~stop_)
    /\ push_msg_queue_ = <<>>
    /\ ppc' = IF stop_ THEN "exit" ELSE "wait"
    /\ UNCHANGED <<g_push_msg_cnt, push_msg_queue_, stop_, cur,
                   wait_finish_msg_queue_, ctVars, devVars>>

\* pthread_cond_wait may return without a signal.
SpuriousWakeup ==
    /\ ppc = "wait"
    /\ ppc' = "top"
    /\ UNCHANGED <<g_push_msg_cnt, push_msg_queue_, stop_, cur,
                   wait_finish_msg_queue_, ctVars, devVars>>

\* GetDeviceFdFromCache finds a descriptor, or there is none or Redis fails.
Lookup ==
    /\ ppc = "lookup"
    /\ ppc' \in {"write", "finish"}
    /\ UNCHANGED <<g_push_msg_cnt, push_msg_queue_, stop_, cur,
                   wait_finish_msg_queue_, ctVars, devVars>>

\* The error path enters the message among those that wait for a reply too.
Mut_WriteFails ==
    /\ ppc = "write"
    /\ ppc' = "finish"
    /\ written' = written \cup {cur}
    /\ wait_finish_msg_queue_' = wait_finish_msg_queue_ \cup {cur}
    /\ UNCHANGED <<g_push_msg_cnt, push_msg_queue_, stop_, cur, ctVars,
                   replies, replied>>

\* SocketOperate::WriteSfd succeeds: from now on the device may reply.
WriteOk ==
    /\ ppc = "write"
    /\ written' = written \cup {cur}
    /\ ppc' = "register"
    /\ UNCHANGED <<g_push_msg_cnt, push_msg_queue_, stop_, cur,
                   wait_finish_msg_queue_, ctVars, replies, replied>>

WriteFails ==
    /\ ppc = "write"
    /\ ppc' = "finish"
    /\ UNCHANGED <<g_push_msg_cnt, push_msg_queue_, stop_, cur,
                   wait_finish_msg_queue_, ctVars, devVars>>

\* SubmitWaitFinishPushMsg.  Numbers are fresh, so insert adds an entry.
Register ==
    /\ ppc = "register"
    /\ wait_finish_msg_queue_' = wait_finish_msg_queue_ \cup {cur}
    /\ cur' = NoPush
    /\ ppc' = "inner"
    /\ UNCHANGED <<g_push_msg_cnt, push_msg_queue_, stop_, ctVars, devVars>>

\* entry_finish: delivery failed, the requester gets the error.
Finish ==
    /\ ppc = "finish"
    /\ Complete(cur)
    /\ cur' = NoPush
    /\ ppc' = "inner"
    /\ UNCHANGED <<g_push_msg_cnt, push_msg_queue_, stop_,
                   wait_finish_msg_queue_, devVars>>

\* PushMsgQueue::Stop (the join that follows it changes nothing here).
Stop ==
    /\ MayStop /\ ~stop_
    /\ stop_' = TRUE
    /\ ppc' = IF ppc = "wait" THEN "top" ELSE ppc
    /\ UNCHANGED <<g_push_msg_cnt, push_msg_queue_, cur,
                   wait_finish_msg_queue_, ctVars, devVars>>

-----------------------------------------------------------------------------
(* The device, and the worker thread that serves its connection.            *)

\* A device sends a reply with some push's number: the device of that push or
\* another one, once or again, even before the push was written.
DeviceReplies(p) ==
    /\ replied[p] < MaxReplies
    /\ replied' = [replied EXCEPT ![p] = @ + 1]
    /\ replies' = [replies EXCEPT ![p] = @ + 1]
    /\ UNCHANGED <<g_push_msg_cnt, queueVars, wait_finish_msg_queue_, ctVars,
                   written>>

\* HandlePushMsgResp and WaitFinishPushMsgQueue::FinishPushMsg.  A reply that
\* does not parse completes the context too, with an error code.  An unknown
\* number is dropped.  The entry is not erased: a second reply completes
\* whatever is at the address by then.
FinishPushMsg(p) ==
    /\ replies[p] > 0
    /\ replies' = [replies EXCEPT ![p] = @ - 1]
    /\ IF p \in wait_finish_msg_queue_ THEN Complete(p) ELSE UNCHANGED ctVars
    /\ UNCHANGED <<g_push_msg_cnt, queueVars, wait_finish_msg_queue_, written,
                   replied>>

-----------------------------------------------------------------------------
PushThread ==
    \/ Leave \/ Pop \/ Wait \/ Lookup \/ WriteOk \/ WriteFails \/ Register
    \/ Finish

Next ==
    \/ HandleMsg
    \/ PushThread
    \/ SpuriousWakeup
    \/ Stop
    \/ \E p \in Pushes : DeviceReplies(p) \/ FinishPushMsg(p)

Spec == Init /\ [][Next]_vars

-----------------------------------------------------------------------------
(* Properties.                                                              *)

InQueue(p) == \E i \in 1 .. Len(push_msg_queue_) : push_msg_queue_[i] = p

\* Only a second reply with one number makes the server use a response context
\* that is gone or belongs to another push: whatever the interleaving of the
\* three threads and wherever new contexts are allocated, the first pointer
\* that is completed wrongly is that of a push with two replies.  A push that
\* was refused is never completed again, and no context is freed while the
\* queue or the push thread still has it.
MisuseNeedsSecondReply ==
    misused # {} => \E p \in misused : replied[p] > 1

\* Requests are written to devices in the order in which they were numbered:
\* everything handled or in hand precedes everything that is still queued.
FifoOrder ==
    /\ \A i, j \in 1 .. Len(push_msg_queue_) :
          i < j => push_msg_queue_[i] < push_msg_queue_[j]
    /\ \A p \in Pushes : InQueue(p) =>
          \A q \in written \cup wait_finish_msg_queue_ \cup ({cur} \ {NoPush}) : q < p

Service ==
    INSTANCE PushService WITH
        asked   <- g_push_msg_cnt,
        handled <- g_push_msg_cnt - Len(push_msg_queue_)
                     - (IF cur = NoPush THEN 0 ELSE 1),
        refused <- {p \in Pushes : completed[p] > 0 /\ p \notin wait_finish_msg_queue_},
        answers <- completed

\* Three threads, two queues and a map serve the HTTP server as PushService
\* says: requests are taken up in the order they were numbered in, a refused
\* one is completed once and never by a reply, a delivered one at most as often
\* as replies with its number came.  Completions count by the push through
\* whose pointer they were made; MisuseNeedsSecondReply says when that is not
\* the context of the same push.
ImplementsPushService == Service!Spec
=============================================================================
