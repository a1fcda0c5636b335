------------------------------ MODULE RedisPool ------------------------------
(***************************************************************************)
(* CRedisConnPool and the threads that use it.  A handler takes a context  *)
(* (a connection to Redis) from the pool, selects its database, runs       *)
(* commands of RedisOpt and gives the context back.                        *)
(*                                                                         *)
(* A context is named by its address.  A command that gets no reply frees  *)
(* the context, but the handler keeps the address, goes on with it and     *)
(* gives it back to the pool; the allocator may hand the address out again *)
(* for a new context.  The pool's mutex makes its operations atomic, a     *)
(* command is one step.  The makefiles compile with NDEBUG, so a failed    *)
(* connect in GetRedisContext returns NULL past the assertion.             *)
(***************************************************************************)
EXTENDS RedisOpt

CONSTANTS
    Threads,
    Contexts,      \* addresses of contexts
    NULL,
    Databases,     \* database numbers; a new connection is in database 0
    DbOf,          \* the database each thread's handlers select
    max_conn_num,
    MaxFaults,     \* bound: failed connects, lost or refused commands
    MaxItems,      \* bound: elements of a list
    MaxInt         \* bound: numbers counted up with INCR

ASSUME PoolAssumption ==
    /\ NULL \notin Contexts
    /\ 0 \in Databases /\ DbOf \in [Threads -> Databases]
    /\ max_conn_num \in Nat
    /\ MaxFaults \in Nat /\ MaxItems \in Nat /\ MaxInt \in Nat

VARIABLES
    queue_redisContext_,
    open,        \* addresses that hold a live context
    ctxDb,       \* the database each connection has selected
    tpc, conn,   \* where each thread is, and the address it holds
    store,       \* Redis: the contents of each database
    outcome,     \* how the last command ended, for its caller
    alive,       \* the process has not crashed
    faults,
    strayed,     \* history: a command ran in a database its caller had not selected
    disturbed    \* history: what went wrong so far

poolVars   == <<queue_redisContext_, open, ctxDb>>
threadVars == <<tpc, conn>>
faultVars  == <<faults, disturbed>>
vars == <<poolVars, threadVars, store, outcome, alive, faultVars, strayed>>

\* No connection when one was needed, a command without a reply, a SELECT
\* that was answered with an error.
Disturbances == {"connect", "lost", "unselected"}

TypeOK ==
    /\ queue_redisContext_ \in Seq(Contexts)
    /\ open \subseteq Contexts
    /\ ctxDb \in [Contexts -> Databases]
    /\ tpc \in [Threads -> {"idle", "select", "command"}]
    /\ conn \in [Threads -> Contexts \cup {NULL}]
    /\ outcome \in {"none", "done", "refused", "lost"}
    /\ alive \in BOOLEAN /\ strayed \in BOOLEAN
    /\ faults \in 0 .. MaxFaults
    /\ disturbed \subseteq Disturbances

\* CRedisConnPool::Init has pushed max_conn_num fresh contexts.
Init ==
    /\ \E q \in [1 .. max_conn_num -> Contexts] :
          /\ IsInjective(q)
          /\ queue_redisContext_ = q
          /\ open = {q[i] : i \in 1 .. max_conn_num}
    /\ ctxDb = [c \in Contexts |-> 0]
    /\ tpc = [t \in Threads |-> "idle"]
    /\ conn = [t \in Threads |-> NULL]
    /\ store = [d \in Databases |-> EmptyDb]
    /\ outcome = "none"
    /\ alive = TRUE
    /\ faults = 0 /\ strayed = FALSE /\ disturbed = {}

Fault(kind) ==
    /\ faults < MaxFaults
    /\ faults' = faults + 1
    /\ disturbed' = disturbed \cup {kind}

Goto(t, s) == tpc' = [tpc EXCEPT ![t] = s]

-----------------------------------------------------------------------------
(* GetRedisContext and CreateNewRedisContext.                               *)

Starts(t) == alive /\ tpc[t] = "idle"

\* Takes the front of the queue without removing it.
Mut_TakeFromQueue(t) ==
    /\ Starts(t)
    /\ queue_redisContext_ # <<>>
    /\ conn' = [conn EXCEPT ![t] = Head(queue_redisContext_)]
    /\ Goto(t, "select")
    /\ UNCHANGED <<poolVars, store, outcome, alive, faultVars, strayed>>

TakeFromQueue(t) ==
    /\ Starts(t)
    /\ queue_redisContext_ # <<>>
    /\ conn' = [conn EXCEPT ![t] = Head(queue_redisContext_)]
    /\ queue_redisContext_' = Tail(queue_redisContext_)
    /\ Goto(t, "select")
    /\ UNCHANGED <<open, ctxDb, store, outcome, alive, faultVars, strayed>>

\* The queue is empty: a new connection, at any address that is not in use.
CreateNew(t) ==
    /\ Starts(t)
    /\ queue_redisContext_ = <<>>
    /\ \E c \in Contexts \ open :
          /\ open' = open \cup {c}
          /\ ctxDb' = [ctxDb EXCEPT ![c] = 0]
          /\ conn' = [conn EXCEPT ![t] = c]
    /\ Goto(t, "select")
    /\ UNCHANGED <<queue_redisContext_, store, outcome, alive, faultVars, strayed>>

\* Redis cannot be reached: NULL is returned.
CreateNewFails(t) ==
    /\ Starts(t)
    /\ queue_redisContext_ = <<>>
    /\ Fault("connect")
    /\ conn' = [conn EXCEPT ![t] = NULL]
    /\ Goto(t, "select")
    /\ UNCHANGED <<poolVars, store, outcome, alive, strayed>>

-----------------------------------------------------------------------------
(* Commands.                                                                *)

\* The thread is about to send a command on a live context, or not.
Sends(t, s)   == alive /\ tpc[t] = s /\ conn[t] \in open
Dangles(t, s) == alive /\ tpc[t] = s /\ conn[t] \notin open

\* redisCommand on NULL or on freed memory: the process crashes, or the freed
\* memory still looks like a broken connection and the command fails.
UseDangling(t, s, next) ==
    /\ Dangles(t, s)
    /\ \/ alive' = FALSE
       \/ conn[t] # NULL /\ UNCHANGED alive
    /\ outcome' = "lost"
    /\ Goto(t, next)
    /\ UNCHANGED <<poolVars, conn, store, faultVars, strayed>>

\* redisCommand returns NULL: the context is freed, its address is kept.
Lose(t) ==
    /\ Fault("lost")
    /\ open' = open \ {conn[t]}
    /\ outcome' = "lost"
    /\ UNCHANGED <<queue_redisContext_, ctxDb, conn, alive>>

\* The command did not reach the server, or was a SELECT.
NoReply(t, s, next) ==
    /\ Sends(t, s)
    /\ Lose(t)
    /\ Goto(t, next)
    /\ UNCHANGED <<store, strayed>>

\* Selects only on a connection that is still in database 0.
Mut_SelectDB(t) ==
    /\ Sends(t, "select")
    /\ \/ ctxDb' = [ctxDb EXCEPT ![conn[t]] = IF @ = 0 THEN DbOf[t] ELSE @]
          /\ UNCHANGED faultVars
       \/ Fault("unselected") /\ UNCHANGED ctxDb
    /\ Goto(t, "command")
    /\ UNCHANGED <<queue_redisContext_, open, conn, store, outcome, alive, strayed>>

\* SelectDB; no handler looks at its result.
SelectDB(t) ==
    /\ Sends(t, "select")
    /\ \/ ctxDb' = [ctxDb EXCEPT ![conn[t]] = DbOf[t]] /\ UNCHANGED faultVars
       \/ Fault("unselected") /\ UNCHANGED ctxDb
    /\ Goto(t, "command")
    /\ UNCHANGED <<queue_redisContext_, open, conn, store, outcome, alive, strayed>>

Bounded(kv) ==
    \A k \in Keys :
        /\ kv[k].type = "list" => Len(kv[k].val) <= MaxItems
        /\ kv[k].type = "string" /\ kv[k].val[1] = "dec" => kv[k].val[2] <= MaxInt

\* A call of RedisOpt that the server runs, in the database the connection has
\* selected.  Its reply arrives or is lost.
Does(t, r) ==
    /\ Bounded(r.kv)
    /\ store' = [store EXCEPT ![ctxDb[conn[t]]] = r.kv]
    /\ strayed' = (strayed \/ ctxDb[conn[t]] # DbOf[t])
    /\ UNCHANGED tpc
    /\ \/ /\ outcome' = IF r.ret THEN "done" ELSE "refused"
          /\ alive' \in (IF r.ub THEN BOOLEAN ELSE {TRUE})
          /\ UNCHANGED <<poolVars, conn, faultVars>>
       \/ Lose(t)

Command(t) ==
    /\ Sends(t, "command")
    /\ \E key \in Keys :
        LET kv == store[ctxDb[conn[t]]]
        IN  \/ Does(t, SetText(kv, key, "a"))
            \/ Does(t, SetInt(kv, key, 0))
            \/ Does(t, SetLong(kv, key, 1))
            \/ Does(t, Get(kv, key))
            \/ Does(t, MGet(kv, <<key>>))
            \/ Does(t, Incr(kv, key))
            \/ Does(t, LPushAll(kv, key, <<Text("a"), Dec(1)>>))
            \/ Does(t, LPush(kv, key, Dec(1)))
            \/ Does(t, RPush(kv, key, Text("a")))
            \/ Does(t, LPop(kv, key))
            \/ Does(t, LLen(kv, key))
            \/ Does(t, LRange(kv, key))
            \/ Does(t, SAddAll(kv, key, <<Text("a")>>))
            \/ Does(t, SAdd(kv, key, Text("a")))
            \/ Does(t, SAddSet(kv, key, {}))
            \/ Does(t, SMembers(kv, key))
            \/ Does(t, HsetInt(kv, key, "fd", 1))
            \/ Does(t, HsetText(kv, key, "dev_ip", "a"))
            \/ Does(t, Hget(kv, key, "fd"))
            \/ Does(t, Hdel(kv, key, "dev_ip"))
            \/ Does(t, Hvals(kv, key))
            \/ Does(t, HLen(kv, key))
            \/ Does(t, Del(kv, key))
            \/ Does(t, Expire(kv, key, 60))
            \/ Does(t, Exists(kv, key))
            \/ Does(t, Scan(kv, 0))
            \/ Does(t, Hscan(kv, 0))

\* Scan and Hscan are the calls that do not free the context then.
ScanGetsNoReply(t) ==
    /\ Sends(t, "command")
    /\ Fault("lost")
    /\ outcome' = "lost"
    /\ UNCHANGED <<poolVars, threadVars, store, alive, strayed>>

\* A key whose time to live has run out.
KeyExpires(d, key) ==
    /\ alive /\ store[d][key].ttl
    /\ store' = [store EXCEPT ![d][key] = None]
    /\ outcome' = "none"
    /\ UNCHANGED <<poolVars, threadVars, alive, faultVars, strayed>>

-----------------------------------------------------------------------------
\* ReleaseRedisContext: an address that is in the queue is not added again.
ReleaseRedisContext(t) ==
    /\ alive /\ tpc[t] = "command"
    /\ queue_redisContext_' =
         IF conn[t] = NULL \/ Contains(queue_redisContext_, conn[t])
         THEN queue_redisContext_
         ELSE Append(queue_redisContext_, conn[t])
    /\ conn' = [conn EXCEPT ![t] = NULL]
    /\ Goto(t, "idle")
    /\ UNCHANGED <<open, ctxDb, store, outcome, alive, faultVars, strayed>>

Handler(t) ==
    \/ TakeFromQueue(t) \/ CreateNew(t) \/ CreateNewFails(t)
    \/ SelectDB(t) \/ NoReply(t, "select", "command")
    \/ UseDangling(t, "select", "command")
    \/ Command(t) \/ NoReply(t, "command", "command")
    \/ UseDangling(t, "command", "command") \/ ScanGetsNoReply(t)
    \/ ReleaseRedisContext(t)

Next ==
    \/ \E t \in Threads : Handler(t)
    \/ \E d \in Databases, key \in Keys : KeyExpires(d, key)

Spec == Init /\ [][Next]_vars

-----------------------------------------------------------------------------
(* Properties.                                                              *)

\* "防止误操作导致队列有相同连接" (ReleaseRedisContext): the queue never holds a
\* context twice, even after contexts were freed behind the pool's back and
\* their addresses given out again.
NoContextTwiceInQueue == IsInjective(queue_redisContext_)

Held(t) == conn[t] # NULL

\* Unless a command got no reply, a live context is in the queue or with one
\* thread and nowhere else, and every address the pool or a thread has is that
\* of a live context: no connection is shared, leaked or used after it is freed.
ContextHasOneOwner ==
    "lost" \notin disturbed =>
        /\ \A c \in open : Contains(queue_redisContext_, c) <=> \A t \in Threads : conn[t] # c
        /\ \A t, u \in Threads : Held(t) /\ conn[t] = conn[u] => t = u
        /\ ToSet(queue_redisContext_) \subseteq open
        /\ \A t \in Threads : Held(t) => conn[t] \in open

\* A pooled connection keeps the database its last user selected.  A command
\* all the same runs in the database its own caller selected, as long as every
\* SELECT got through: without "lost" no two threads share a connection, and
\* without "unselected" each handler has switched it.
CommandsStayInTheirDatabase == disturbed \subseteq {"connect"} => ~strayed

\* What a call reports is what happened: one that got a reply and returns false
\* has changed nothing in Redis (DeviceLogin and UserBeacon rely on it when
\* they roll back or report the failure).
RefusedCallChangesNothing == [][outcome' = "refused" => UNCHANGED store]_vars
=============================================================================
