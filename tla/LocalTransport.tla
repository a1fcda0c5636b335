--------------------------- MODULE LocalTransport ---------------------------
(***************************************************************************)
(* CLocalTransport, the server the HTTP server sends its push requests to, *)
(* composed with the push relay behind it (deviceOnline; userOnline has    *)
(* the same class).                                                        *)
(*                                                                         *)
(* One libevent thread accepts requesters, splits what they send into      *)
(* messages and hands each to HandleMsg.  main starts this thread before   *)
(* it creates the push queue.                                              *)
(*                                                                         *)
(* A response context keeps the requester's bare descriptor.  The answer   *)
(* written to it when the push is done reaches whoever has the descriptor  *)
(* by then, and WriteSfd gives up after three seconds, so nothing is said  *)
(* about who receives it and descriptors are left out.                     *)
(***************************************************************************)
EXTENDS PushRelay

CONSTANTS
    MaxConns,     \* bound: connections opened
    MaxMessages   \* bound: messages one read brings

ASSUME TransportAssumption == MaxConns \in Nat /\ MaxMessages \in Nat

Conns  == 1 .. MaxConns
NoConn == 0

\* A push request, or anything else (parameters that do not parse included).
Messages == {"push", "other"}

VARIABLES
    mpc,        \* main: "setup", then "queue", then "run"
    alive,      \* the process has not crashed
    open, conns,      \* requesters connected now, and how many there were
    reader, vec_str   \* ReadCb: its connection, and the messages it has left

connVars == <<open, conns>>
readVars == <<reader, vec_str>>
ltVars   == <<mpc, alive, connVars, readVars>>
allVars  == <<vars, ltVars>>

LTTypeOK ==
    /\ TypeOK
    /\ mpc \in {"setup", "queue", "run"} /\ alive \in BOOLEAN
    /\ open \subseteq Conns
    /\ conns \in 0 .. MaxConns
    /\ reader \in Conns \cup {NoConn} /\ vec_str \in Seq(Messages)
    /\ vec_str # <<>> => reader \in open

\* SetupLocalTransport has created the listener and its thread.
LTInit ==
    /\ Init
    /\ mpc = "setup" /\ alive = TRUE
    /\ open = {} /\ conns = 0
    /\ reader = NoConn /\ vec_str = <<>>

-----------------------------------------------------------------------------
(* main: Run creates the push queue, then starts its thread.                *)

CreateQueue ==
    /\ alive /\ mpc = "setup"
    /\ mpc' = "queue"
    /\ UNCHANGED <<vars, alive, connVars, readVars>>

StartQueue ==
    /\ alive /\ mpc = "queue"
    /\ mpc' = "run"
    /\ UNCHANGED <<vars, alive, connVars, readVars>>

-----------------------------------------------------------------------------
(* The libevent thread, one callback at a time.                             *)

Idle == alive /\ vec_str = <<>>

AcceptCb ==
    /\ Idle
    /\ conns < MaxConns
    /\ conns' = conns + 1
    /\ open' = open \cup {conns'}
    /\ UNCHANGED <<vars, mpc, alive, readVars>>

\* ErrorCb (timeout, end of file or error): the connection is closed at once,
\* whatever contexts still name its descriptor.
ErrorCb(c) ==
    /\ Idle
    /\ c \in open
    /\ open' = open \ {c}
    /\ UNCHANGED <<vars, mpc, alive, conns, readVars>>

\* ReadCb: the complete messages in the buffer, handled one after the other.
ReadCb(c) ==
    /\ Idle
    /\ c \in open
    /\ reader' = c
    /\ \E n \in 1 .. MaxMessages : vec_str' \in [1 .. n -> Messages]
    /\ UNCHANGED <<vars, mpc, alive, connVars>>

Handles(m) ==
    /\ alive /\ vec_str # <<>> /\ Head(vec_str) = m
    /\ vec_str' = Tail(vec_str)
    /\ reader' = IF vec_str' = <<>> THEN NoConn ELSE reader
    /\ UNCHANGED <<mpc, connVars>>

\* HandleMsg, a push request: a context, and the message into the queue.
HandlePush ==
    /\ Handles("push")
    /\ mpc # "setup"
    /\ HandleMsg
    /\ UNCHANGED alive

\* The same before Run has created the queue: g_push_msg_queue is NULL.
HandlePushTooEarly ==
    /\ Handles("push")
    /\ mpc = "setup"
    /\ alive' = FALSE
    /\ UNCHANGED vars

\* HandleMsg, anything else: the error of a push request that does not parse is
\* written to the requester's socket at once, other messages are dropped.
\* Neither makes a context.
HandleNoPush ==
    /\ Handles("other")
    /\ UNCHANGED <<vars, alive>>

-----------------------------------------------------------------------------
(* The relay's threads.                                                     *)

\* A context that is completed after it was deleted: its fields and its table
\* of virtual functions are whatever the memory holds.
UseAfterFree(p) == ct[p] \notin live

\* entry_finish of the push thread, and FinishPushMsg of a worker.  Writing the
\* answer succeeds or is logged and given up.
FinishAndRespond ==
    /\ alive /\ mpc = "run"
    /\ Finish
    /\ alive' \in (IF UseAfterFree(cur) THEN BOOLEAN ELSE {TRUE})
    /\ UNCHANGED <<mpc, connVars, readVars>>

FinishPushMsgAndRespond(p) ==
    /\ alive
    /\ FinishPushMsg(p)
    /\ alive' \in (IF p \in wait_finish_msg_queue_ /\ UseAfterFree(p)
                    THEN BOOLEAN ELSE {TRUE})
    /\ UNCHANGED <<mpc, connVars, readVars>>

PushThreadElse ==
    /\ alive /\ mpc = "run"
    /\ Leave \/ Pop \/ Wait \/ Lookup \/ WriteOk \/ WriteFails \/ Register
    /\ UNCHANGED ltVars

RelayEnvironment ==
    /\ alive
    /\ \/ mpc = "run" /\ (SpuriousWakeup \/ Stop)
       \/ \E p \in Pushes : DeviceReplies(p)
    /\ UNCHANGED ltVars

Main == CreateQueue \/ StartQueue
Transport == HandlePush \/ HandlePushTooEarly \/ HandleNoPush
Relay == PushThreadElse \/ FinishAndRespond

LTNext ==
    \/ Main \/ Transport \/ Relay \/ RelayEnvironment
    \/ AcceptCb
    \/ \E c \in Conns : ErrorCb(c) \/ ReadCb(c)
    \/ \E p \in Pushes : FinishPushMsgAndRespond(p)

LTSpec == LTInit /\ [][LTNext]_allVars

\* main, the transport's thread once it has messages, the push thread and the
\* workers keep running.  Requesters, devices and Stop get no fairness.
LTFairSpec ==
    /\ LTSpec
    /\ WF_allVars(Main)
    /\ WF_allVars(Transport)
    /\ WF_allVars(Relay)
    /\ \A p \in Pushes : WF_allVars(FinishPushMsgAndRespond(p))

-----------------------------------------------------------------------------
(* Properties.                                                              *)

\* Every request read by the transport is delivered or refused in the end, the
\* ones made before the push thread was started included, unless somebody
\* stops that thread or the process has crashed.
EventuallyTakenUp ==
    \A p \in Pushes :
        p <= g_push_msg_cnt ~>
            (p \in wait_finish_msg_queue_ \/ completed[p] > 0 \/ stop_ \/ ~alive)
=============================================================================
