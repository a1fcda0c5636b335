-------------------------- MODULE RedisPool_proofs --------------------------
(***************************************************************************)
(* Proofs about the pool of Redis connections and the commands sent on     *)
(* them, for any sets of threads, contexts, databases and keys, any size   *)
(* of the pool and any number of failures.                                 *)
(***************************************************************************)
EXTENDS RedisPool, TLAPS

USE PoolAssumption

-----------------------------------------------------------------------------
(* The inductive invariant of the pool.                                     *)

IdleHoldsNothing == \A t \in Threads : tpc[t] = "idle" => conn[t] = NULL

\* A context a thread has selected its database on is in that database.
SelectedIsCurrent ==
    disturbed \subseteq {"connect"} =>
        \A t \in Threads : tpc[t] = "command" /\ Held(t) => ctxDb[conn[t]] = DbOf[t]

PoolInv ==
    /\ TypeOK /\ IdleHoldsNothing /\ NoContextTwiceInQueue /\ ContextHasOneOwner
    /\ SelectedIsCurrent /\ CommandsStayInTheirDatabase

(* The invariant of the contents of Redis: Redis keeps no empty hash.       *)
WellFormed(kv) ==
    \A k \in Keys :
        /\ kv[k] = [type |-> kv[k].type, val |-> kv[k].val, ttl |-> kv[k].ttl]
        /\ kv[k].type = "none" => kv[k] = None
        /\ kv[k].type = "hash" => kv[k].val # {}

KvOK(kv) == kv = [k \in Keys |-> kv[k]] /\ WellFormed(kv)

StoreInv ==
    /\ store = [d \in Databases |-> store[d]]
    /\ \A d \in Databases : KvOK(store[d])

-----------------------------------------------------------------------------
(* The queue.                                                               *)

LEMMA QueueTail ==
    ASSUME NEW S, NEW q \in Seq(S), q # <<>>, IsInjective(q)
    PROVE  /\ Head(q) \in S /\ Contains(q, Head(q))
           /\ Tail(q) \in Seq(S) /\ IsInjective(Tail(q))
           /\ \A c : Contains(Tail(q), c) <=> Contains(q, c) /\ c # Head(q)
<1>1. Len(q) \in Nat /\ Len(q) > 0 /\ DOMAIN q = 1 .. Len(q)
  OBVIOUS
<1>2. /\ Tail(q) \in Seq(S) /\ Len(Tail(q)) = Len(q) - 1
      /\ DOMAIN Tail(q) = 1 .. Len(q) - 1
      /\ \A i \in 1 .. Len(q) - 1 : Tail(q)[i] = q[i + 1]
  BY <1>1
<1>3. Head(q) = q[1] /\ Head(q) \in S
  BY <1>1
<1>4. Contains(q, Head(q))
  BY <1>1, <1>3 DEF Contains
<1>5. IsInjective(Tail(q))
  <2> SUFFICES ASSUME NEW a \in 1 .. Len(q) - 1, NEW b \in 1 .. Len(q) - 1,
                      Tail(q)[a] = Tail(q)[b]
               PROVE  a = b
    BY <1>2 DEF IsInjective
  <2>1. q[a + 1] = q[b + 1] /\ a + 1 \in DOMAIN q /\ b + 1 \in DOMAIN q
    BY <1>1, <1>2
  <2> QED
    BY <2>1 DEF IsInjective
<1>6. ASSUME NEW c PROVE Contains(Tail(q), c) <=> Contains(q, c) /\ c # Head(q)
  <2>1. ASSUME Contains(Tail(q), c) PROVE Contains(q, c) /\ c # Head(q)
    <3>1. PICK i \in 1 .. Len(q) - 1 : Tail(q)[i] = c
      BY <2>1, <1>2 DEF Contains
    <3>2. q[i + 1] = c /\ i + 1 \in DOMAIN q /\ 1 \in DOMAIN q /\ i + 1 # 1
      BY <3>1, <1>1, <1>2
    <3> QED
      BY <3>2, <1>1, <1>3 DEF Contains, IsInjective
  <2>2. ASSUME Contains(q, c), c # Head(q) PROVE Contains(Tail(q), c)
    <3>1. PICK i \in 1 .. Len(q) : q[i] = c
      BY <2>2 DEF Contains
    <3>2. i # 1 /\ i - 1 \in 1 .. Len(q) - 1
      BY <3>1, <2>2, <1>1, <1>3
    <3>3. Tail(q)[i - 1] = c
      BY <3>1, <3>2, <1>1, <1>2
    <3> QED
      BY <3>2, <3>3, <1>2 DEF Contains
  <2> QED
    BY <2>1, <2>2
<1> QED
  BY <1>2, <1>3, <1>4, <1>5, <1>6

LEMMA QueueAppend ==
    ASSUME NEW S, NEW q \in Seq(S), NEW e \in S
    PROVE  /\ Append(q, e) \in Seq(S)
           /\ \A c : Contains(Append(q, e), c) <=> Contains(q, c) \/ c = e
           /\ IsInjective(q) /\ ~Contains(q, e) => IsInjective(Append(q, e))
<1>1. /\ Len(q) \in Nat /\ DOMAIN q = 1 .. Len(q)
      /\ Append(q, e) \in Seq(S) /\ Len(Append(q, e)) = Len(q) + 1
      /\ DOMAIN Append(q, e) = 1 .. Len(q) + 1
      /\ \A i \in 1 .. Len(q) : Append(q, e)[i] = q[i]
      /\ Append(q, e)[Len(q) + 1] = e
  OBVIOUS
<1>2. ASSUME NEW c PROVE Contains(Append(q, e), c) <=> Contains(q, c) \/ c = e
  <2>1. ASSUME Contains(Append(q, e), c) PROVE Contains(q, c) \/ c = e
    <3>1. PICK i \in 1 .. Len(q) + 1 : Append(q, e)[i] = c
      BY <2>1, <1>1 DEF Contains
    <3>2. CASE i = Len(q) + 1
      BY <3>1, <3>2, <1>1
    <3>3. CASE i \in 1 .. Len(q)
      BY <3>1, <3>3, <1>1 DEF Contains
    <3> QED
      BY <3>2, <3>3, <1>1
  <2>2. ASSUME Contains(q, c) PROVE Contains(Append(q, e), c)
    <3>1. PICK i \in 1 .. Len(q) : q[i] = c
      BY <2>2 DEF Contains
    <3>2. i \in 1 .. Len(q) + 1 /\ Append(q, e)[i] = c
      BY <3>1, <1>1
    <3> QED
      BY <3>2, <1>1 DEF Contains
  <2>3. ASSUME c = e PROVE Contains(Append(q, e), c)
    <3>1. Len(q) + 1 \in 1 .. Len(q) + 1
      BY <1>1
    <3> QED
      BY <3>1, <2>3, <1>1 DEF Contains
  <2> QED
    BY <2>1, <2>2, <2>3
<1>3. ASSUME IsInjective(q), ~Contains(q, e) PROVE IsInjective(Append(q, e))
  <2> SUFFICES ASSUME NEW a \in 1 .. Len(q) + 1, NEW b \in 1 .. Len(q) + 1,
                      Append(q, e)[a] = Append(q, e)[b]
               PROVE  a = b
    BY <1>1 DEF IsInjective
  <2>1. CASE a \in 1 .. Len(q) /\ b \in 1 .. Len(q)
    BY <2>1, <1>1, <1>3 DEF IsInjective
  <2>2. CASE a = Len(q) + 1 /\ b \in 1 .. Len(q)
    BY <2>2, <1>1, <1>3 DEF Contains
  <2>3. CASE b = Len(q) + 1 /\ a \in 1 .. Len(q)
    BY <2>3, <1>1, <1>3 DEF Contains
  <2> QED
    BY <2>1, <2>2, <2>3, <1>1
<1> QED
  BY <1>1, <1>2, <1>3

LEMMA QueueSet ==
    ASSUME NEW S, NEW q \in Seq(S), NEW X
    PROVE  ToSet(q) \subseteq X <=> \A c : Contains(q, c) => c \in X
<1>1. DOMAIN q = 1 .. Len(q)
  OBVIOUS
<1> QED
  BY <1>1 DEF ToSet, Contains

-----------------------------------------------------------------------------
(* Ownership, said of the components of the state.                          *)

Owners(q, live, cn) ==
    /\ \A c \in live : Contains(q, c) <=> \A t \in Threads : cn[t] # c
    /\ \A t, u \in Threads : cn[t] # NULL /\ cn[t] = cn[u] => t = u
    /\ \A c : Contains(q, c) => c \in live
    /\ \A t \in Threads : cn[t] # NULL => cn[t] \in live

LEMMA OwnersForm ==
    ASSUME queue_redisContext_ \in Seq(Contexts)
    PROVE  ContextHasOneOwner <=>
             ("lost" \notin disturbed => Owners(queue_redisContext_, open, conn))
<1>1. ToSet(queue_redisContext_) \subseteq open <=>
        \A c : Contains(queue_redisContext_, c) => c \in open
  BY QueueSet
<1> QED
  BY <1>1 DEF ContextHasOneOwner, Owners, Held

LEMMA OwnersFormNext ==
    ASSUME queue_redisContext_' \in Seq(Contexts)
    PROVE  ContextHasOneOwner' <=>
             ("lost" \notin disturbed' => Owners(queue_redisContext_', open', conn'))
<1>1. ToSet(queue_redisContext_') \subseteq open' <=>
        \A c : Contains(queue_redisContext_', c) => c \in open'
  BY QueueSet
<1> QED
  BY <1>1 DEF ContextHasOneOwner, Owners, Held

\* A context that leaves the queue, or is new, goes to a thread that has none.
Takes(t, h, q, live, cn, q2, live2, cn2) ==
    /\ NULL \notin live /\ cn[t] = NULL /\ h # NULL
    /\ h \notin live \/ Contains(q, h)
    /\ live2 = live \cup {h}
    /\ \A c : Contains(q2, c) <=> Contains(q, c) /\ c # h
    /\ \A u \in Threads : cn2[u] = IF u = t THEN h ELSE cn[u]

LEMMA OwnersTake ==
    ASSUME NEW t \in Threads, NEW h, NEW q, NEW live, NEW cn,
           NEW q2, NEW live2, NEW cn2,
           Owners(q, live, cn), Takes(t, h, q, live, cn, q2, live2, cn2)
    PROVE  Owners(q2, live2, cn2)
<1> USE DEF Takes
<1>1. \A u \in Threads : cn[u] # h
  BY DEF Owners
<1>2. \A c \in live2 : Contains(q2, c) <=> \A u \in Threads : cn2[u] # c
  <2> SUFFICES ASSUME NEW c \in live2
               PROVE  Contains(q2, c) <=> \A u \in Threads : cn2[u] # c
    OBVIOUS
  <2>1. CASE c = h
    BY <2>1
  <2>2. CASE c # h
    <3>1. Contains(q2, c) <=> Contains(q, c)
      BY <2>2
    <3>2. Contains(q, c) => \A u \in Threads : cn2[u] # c
      BY <2>2 DEF Owners
    <3>3. c # NULL /\ (\A u \in Threads : cn2[u] # c) => \A u \in Threads : cn[u] # c
      OBVIOUS
    <3> QED
      BY <2>2, <3>1, <3>2, <3>3 DEF Owners
  <2> QED
    BY <2>1, <2>2
<1>3. \A x, u \in Threads : cn2[x] # NULL /\ cn2[x] = cn2[u] => x = u
  BY <1>1 DEF Owners
<1>4. \A c : Contains(q2, c) => c \in live2
  BY DEF Owners
<1>5. \A u \in Threads : cn2[u] # NULL => cn2[u] \in live2
  BY DEF Owners
<1> QED
  BY <1>2, <1>3, <1>4, <1>5 DEF Owners

LEMMA PoolInit == Init => PoolInv
<1> SUFFICES ASSUME Init PROVE PoolInv
  OBVIOUS
<1>1. PICK q \in [1 .. max_conn_num -> Contexts] :
        /\ IsInjective(q)
        /\ queue_redisContext_ = q
        /\ open = {q[i] : i \in 1 .. max_conn_num}
  BY DEF Init
<1>2. /\ q \in Seq(Contexts) /\ Len(q) = max_conn_num
      /\ \A c : Contains(q, c) <=> c \in open
  BY <1>1 DEF Contains
<1>3. open \subseteq Contexts
  BY <1>1
<1>4. ctxDb \in [Contexts -> Databases]
  BY DEF Init
<1>5. alive \in BOOLEAN /\ strayed \in BOOLEAN
  BY Zenon DEF Init
<1>6. TypeOK
  BY <1>1, <1>2, <1>3, <1>4, <1>5 DEF Init, TypeOK, Disturbances
<1>7. \A t \in Threads : conn[t] = NULL /\ tpc[t] = "idle"
  BY DEF Init
<1>8. Owners(queue_redisContext_, open, conn)
  BY <1>1, <1>2, <1>3, <1>7 DEF Owners
<1>9. ContextHasOneOwner
  BY <1>1, <1>2, <1>8, OwnersForm
<1>10. NoContextTwiceInQueue
  BY <1>1 DEF NoContextTwiceInQueue
<1>11. IdleHoldsNothing /\ SelectedIsCurrent
  BY <1>7 DEF IdleHoldsNothing, SelectedIsCurrent, Held
<1>12. CommandsStayInTheirDatabase
  BY DEF Init, CommandsStayInTheirDatabase
<1> QED
  BY <1>6, <1>9, <1>10, <1>11, <1>12 DEF PoolInv

LEMMA TakeFromQueueStep ==
    ASSUME PoolInv, NEW t \in Threads, TakeFromQueue(t)
    PROVE  PoolInv'
<1> DEFINE q == queue_redisContext_
           h == Head(q)
<1> USE DEF PoolInv
<1>1. /\ q \in Seq(Contexts) /\ q # <<>> /\ IsInjective(q)
      /\ conn \in [Threads -> Contexts \cup {NULL}]
      /\ tpc \in [Threads -> {"idle", "select", "command"}]
  BY DEF TypeOK, NoContextTwiceInQueue, TakeFromQueue
<1>2. /\ h \in Contexts /\ Contains(q, h)
      /\ Tail(q) \in Seq(Contexts) /\ IsInjective(Tail(q))
      /\ \A c : Contains(Tail(q), c) <=> Contains(q, c) /\ c # h
  BY <1>1, QueueTail
<1>3. /\ queue_redisContext_' = Tail(q) /\ open' = open /\ ctxDb' = ctxDb
      /\ disturbed' = disturbed /\ faults' = faults /\ alive' = alive
      /\ strayed' = strayed /\ outcome' = outcome
  BY DEF TakeFromQueue, faultVars
<1>4. /\ conn' = [conn EXCEPT ![t] = h] /\ tpc' = [tpc EXCEPT ![t] = "select"]
      /\ tpc[t] = "idle" /\ conn[t] = NULL
  BY DEF TakeFromQueue, Goto, Starts, IdleHoldsNothing
<1>5. \A u \in Threads :
        /\ conn'[u] = IF u = t THEN h ELSE conn[u]
        /\ tpc'[u] = IF u = t THEN "select" ELSE tpc[u]
  BY <1>1, <1>4
<1>6. TypeOK'
  <2>1. conn' \in [Threads -> Contexts \cup {NULL}]
    BY <1>1, <1>2, <1>4
  <2>2. tpc' \in [Threads -> {"idle", "select", "command"}]
    BY <1>1, <1>4
  <2> QED
    BY <2>1, <2>2, <1>2, <1>3 DEF TypeOK
<1>7. IdleHoldsNothing'
  BY <1>5 DEF IdleHoldsNothing
<1>8. NoContextTwiceInQueue'
  BY <1>2, <1>3 DEF NoContextTwiceInQueue
<1>9. ContextHasOneOwner'
  <2> SUFFICES ASSUME "lost" \notin disturbed PROVE Owners(Tail(q), open, conn')
    BY <1>2, <1>3, OwnersFormNext
  <2> HIDE DEF q, h
  <2>1. Owners(q, open, conn)
    BY <1>1, OwnersForm DEF q
  <2>2. NULL \notin open /\ h # NULL /\ open = open \cup {h}
    BY <2>1, <1>2 DEF Owners, TypeOK
  <2>3. Takes(t, h, q, open, conn, Tail(q), open, conn')
    BY <2>2, <1>2, <1>4, <1>5 DEF Takes
  <2> QED
    BY <2>1, <2>3, OwnersTake
<1>10. SelectedIsCurrent'
  BY <1>3, <1>5 DEF SelectedIsCurrent, Held
<1>11. CommandsStayInTheirDatabase'
  BY <1>3 DEF CommandsStayInTheirDatabase
<1> QED
  BY <1>6, <1>7, <1>8, <1>9, <1>10, <1>11

LEMMA CreateNewStep ==
    ASSUME PoolInv, NEW t \in Threads, CreateNew(t)
    PROVE  PoolInv'
<1> USE DEF PoolInv
<1>1. PICK c \in Contexts \ open :
        /\ open' = open \cup {c}
        /\ ctxDb' = [ctxDb EXCEPT ![c] = 0]
        /\ conn' = [conn EXCEPT ![t] = c]
  BY DEF CreateNew
<1>2. /\ queue_redisContext_' = queue_redisContext_ /\ disturbed' = disturbed
      /\ faults' = faults /\ alive' = alive /\ strayed' = strayed
      /\ outcome' = outcome /\ tpc' = [tpc EXCEPT ![t] = "select"]
      /\ tpc[t] = "idle" /\ conn[t] = NULL
  BY DEF CreateNew, faultVars, Goto, Starts, IdleHoldsNothing
<1>3. /\ queue_redisContext_ \in Seq(Contexts)
      /\ conn \in [Threads -> Contexts \cup {NULL}]
      /\ ctxDb \in [Contexts -> Databases]
      /\ tpc \in [Threads -> {"idle", "select", "command"}]
  BY DEF TypeOK
<1>4. /\ \A u \in Threads : /\ conn'[u] = IF u = t THEN c ELSE conn[u]
                            /\ tpc'[u] = IF u = t THEN "select" ELSE tpc[u]
      /\ \A d \in Contexts : d # c => ctxDb'[d] = ctxDb[d]
  BY <1>1, <1>2, <1>3
<1>5. TypeOK'
  <2>1. conn' \in [Threads -> Contexts \cup {NULL}]
    BY <1>1, <1>3
  <2>2. ctxDb' \in [Contexts -> Databases]
    BY <1>1, <1>3
  <2>3. tpc' \in [Threads -> {"idle", "select", "command"}]
    BY <1>2, <1>3
  <2>4. open' \subseteq Contexts
    BY <1>1 DEF TypeOK
  <2> QED
    BY <2>1, <2>2, <2>3, <2>4, <1>2 DEF TypeOK
<1>6. IdleHoldsNothing'
  BY <1>4 DEF IdleHoldsNothing
<1>7. NoContextTwiceInQueue'
  BY <1>2 DEF NoContextTwiceInQueue
<1>8. "lost" \notin disturbed => Owners(queue_redisContext_, open, conn)
  BY <1>3, OwnersForm
<1>9. ContextHasOneOwner'
  <2> SUFFICES ASSUME "lost" \notin disturbed
               PROVE  Owners(queue_redisContext_, open', conn')
    BY <1>2, <1>3, OwnersFormNext
  <2>1. NULL \notin open /\ c # NULL
    BY DEF TypeOK
  <2>2. \A e : Contains(queue_redisContext_, e) => e # c
    BY <1>8 DEF Owners
  <2>3. Takes(t, c, queue_redisContext_, open, conn,
              queue_redisContext_, open', conn')
    BY <2>1, <2>2, <1>1, <1>2, <1>4 DEF Takes
  <2> QED
    BY <2>3, <1>8, OwnersTake
<1>10. SelectedIsCurrent'
  <2> SUFFICES ASSUME disturbed \subseteq {"connect"}, NEW u \in Threads,
                      tpc'[u] = "command", conn'[u] # NULL
               PROVE  ctxDb'[conn'[u]] = DbOf[u]
    BY <1>2 DEF SelectedIsCurrent, Held
  <2>1. u # t /\ conn'[u] = conn[u] /\ tpc[u] = "command"
    BY <1>4
  <2>2. conn[u] \in open /\ conn[u] \in Contexts
    BY <2>1, <1>3, <1>8 DEF Owners
  <2> QED
    BY <2>1, <2>2, <1>1, <1>4 DEF SelectedIsCurrent, Held
<1>11. CommandsStayInTheirDatabase'
  BY <1>2 DEF CommandsStayInTheirDatabase
<1> QED
  BY <1>5, <1>6, <1>7, <1>9, <1>10, <1>11

\* A thread gives its context back, or goes on without one.
Returns(t, q, live, cn, q2, cn2) ==
    /\ NULL \notin live
    /\ \A c : Contains(q2, c) <=> Contains(q, c) \/ (c = cn[t] /\ c # NULL)
    /\ \A u \in Threads : cn2[u] = IF u = t THEN NULL ELSE cn[u]

LEMMA OwnersReturn ==
    ASSUME NEW t \in Threads, NEW q, NEW live, NEW cn, NEW q2, NEW cn2,
           Owners(q, live, cn), Returns(t, q, live, cn, q2, cn2)
    PROVE  Owners(q2, live, cn2)
<1> USE DEF Returns
<1>1. \A c \in live : Contains(q2, c) <=> \A u \in Threads : cn2[u] # c
  <2> SUFFICES ASSUME NEW c \in live
               PROVE  Contains(q2, c) <=> \A u \in Threads : cn2[u] # c
    OBVIOUS
  <2>1. CASE c = cn[t]
    <3>1. Contains(q2, c)
      BY <2>1
    <3>2. \A u \in Threads : cn2[u] # c
      BY <2>1 DEF Owners
    <3> QED
      BY <3>1, <3>2
  <2>2. CASE c # cn[t]
    <3>1. (\A u \in Threads : cn2[u] # c) <=> \A u \in Threads : cn[u] # c
      BY <2>2
    <3> QED
      BY <2>2, <3>1 DEF Owners
  <2> QED
    BY <2>1, <2>2
<1>2. \A x, u \in Threads : cn2[x] # NULL /\ cn2[x] = cn2[u] => x = u
  BY DEF Owners
<1>3. \A c : Contains(q2, c) => c \in live
  BY DEF Owners
<1>4. \A u \in Threads : cn2[u] # NULL => cn2[u] \in live
  BY DEF Owners
<1> QED
  BY <1>1, <1>2, <1>3, <1>4 DEF Owners

LEMMA ReleaseStep ==
    ASSUME PoolInv, NEW t \in Threads, ReleaseRedisContext(t)
    PROVE  PoolInv'
<1> USE DEF PoolInv
<1> DEFINE q == queue_redisContext_
           r == queue_redisContext_'
<1>1. /\ q \in Seq(Contexts) /\ IsInjective(q)
      /\ conn \in [Threads -> Contexts \cup {NULL}]
      /\ tpc \in [Threads -> {"idle", "select", "command"}]
      /\ NULL \notin open
  BY DEF TypeOK, NoContextTwiceInQueue
<1>2. /\ r = IF conn[t] = NULL \/ Contains(q, conn[t]) THEN q
             ELSE Append(q, conn[t])
      /\ open' = open /\ ctxDb' = ctxDb /\ disturbed' = disturbed
      /\ faults' = faults /\ alive' = alive /\ strayed' = strayed
      /\ outcome' = outcome
      /\ conn' = [conn EXCEPT ![t] = NULL] /\ tpc' = [tpc EXCEPT ![t] = "idle"]
  BY DEF ReleaseRedisContext, faultVars, Goto
<1>3. \A u \in Threads :
        /\ conn'[u] = IF u = t THEN NULL ELSE conn[u]
        /\ tpc'[u] = IF u = t THEN "idle" ELSE tpc[u]
  BY <1>1, <1>2
<1>4. \A c : Contains(q, c) => c # NULL
  BY <1>1 DEF Contains
<1>5. /\ r \in Seq(Contexts) /\ IsInjective(r)
      /\ \A c : Contains(r, c) <=> Contains(q, c) \/ (c = conn[t] /\ c # NULL)
  <2>1. CASE conn[t] = NULL \/ Contains(q, conn[t])
    BY <2>1, <1>1, <1>2, <1>4
  <2>2. CASE conn[t] # NULL /\ ~Contains(q, conn[t])
    <3>1. r = Append(q, conn[t]) /\ conn[t] \in Contexts
      BY <2>2, <1>1, <1>2
    <3> HIDE DEF q, r
    <3> QED
      BY <3>1, <2>2, <1>1, QueueAppend
  <2> QED
    BY <2>1, <2>2
<1>6. TypeOK'
  <2>1. conn' \in [Threads -> Contexts \cup {NULL}]
    BY <1>1, <1>2
  <2>2. tpc' \in [Threads -> {"idle", "select", "command"}]
    BY <1>1, <1>2
  <2> QED
    BY <2>1, <2>2, <1>2, <1>5 DEF TypeOK
<1>7. IdleHoldsNothing'
  BY <1>3 DEF IdleHoldsNothing
<1>8. NoContextTwiceInQueue'
  BY <1>5 DEF NoContextTwiceInQueue
<1>9. ContextHasOneOwner'
  <2> SUFFICES ASSUME "lost" \notin disturbed PROVE Owners(r, open, conn')
    BY <1>2, <1>5, OwnersFormNext
  <2>1. Owners(q, open, conn)
    BY <1>1, OwnersForm
  <2>2. Returns(t, q, open, conn, r, conn')
    BY <1>1, <1>3, <1>5 DEF Returns
  <2> QED
    BY <2>1, <2>2, OwnersReturn
<1>10. SelectedIsCurrent'
  BY <1>2, <1>3 DEF SelectedIsCurrent, Held
<1>11. CommandsStayInTheirDatabase'
  BY <1>2 DEF CommandsStayInTheirDatabase
<1> QED
  BY <1>6, <1>7, <1>8, <1>9, <1>10, <1>11

LEMMA FaultTyped ==
    ASSUME TypeOK, NEW k \in Disturbances, Fault(k)
    PROVE  faults' \in 0 .. MaxFaults /\ disturbed' \subseteq Disturbances
  BY DEF TypeOK, Fault

LEMMA CreateNewFailsStep ==
    ASSUME PoolInv, NEW t \in Threads, CreateNewFails(t)
    PROVE  PoolInv'
<1> USE DEF PoolInv
<1>1. /\ queue_redisContext_' = queue_redisContext_ /\ open' = open
      /\ ctxDb' = ctxDb /\ outcome' = outcome /\ alive' = alive
      /\ strayed' = strayed /\ disturbed' = disturbed \cup {"connect"}
      /\ conn' = [conn EXCEPT ![t] = NULL] /\ tpc' = [tpc EXCEPT ![t] = "select"]
      /\ tpc[t] = "idle" /\ conn[t] = NULL
  BY DEF CreateNewFails, poolVars, Fault, Goto, Starts, IdleHoldsNothing
<1>2. /\ conn \in [Threads -> Contexts \cup {NULL}]
      /\ tpc \in [Threads -> {"idle", "select", "command"}]
  BY DEF TypeOK
<1>3. conn' = conn /\ \A u \in Threads : tpc'[u] = IF u = t THEN "select" ELSE tpc[u]
  BY <1>1, <1>2
<1>4. TypeOK'
  <2>1. faults' \in 0 .. MaxFaults /\ disturbed' \subseteq Disturbances
    BY FaultTyped DEF CreateNewFails, Disturbances
  <2>2. tpc' \in [Threads -> {"idle", "select", "command"}]
    BY <1>1, <1>2
  <2> QED
    BY <2>1, <2>2, <1>1, <1>3 DEF TypeOK
<1>5. IdleHoldsNothing'
  BY <1>1, <1>3 DEF IdleHoldsNothing
<1>6. NoContextTwiceInQueue'
  BY <1>1 DEF NoContextTwiceInQueue
<1>7. ContextHasOneOwner'
  BY <1>1, <1>3 DEF ContextHasOneOwner, Held
<1>8. SelectedIsCurrent'
  BY <1>1, <1>3 DEF SelectedIsCurrent, Held
<1>9. CommandsStayInTheirDatabase'
  BY <1>1 DEF CommandsStayInTheirDatabase
<1> QED
  BY <1>4, <1>5, <1>6, <1>7, <1>8, <1>9

\* The second alternative, a SELECT answered with an error, is why the
\* property has "unselected" in its hypothesis.
LEMMA SelectDBStep ==
    ASSUME PoolInv, NEW t \in Threads, SelectDB(t)
    PROVE  PoolInv'
<1> USE DEF PoolInv
<1>1. /\ queue_redisContext_' = queue_redisContext_ /\ open' = open
      /\ conn' = conn /\ outcome' = outcome /\ alive' = alive
      /\ strayed' = strayed /\ tpc' = [tpc EXCEPT ![t] = "command"]
      /\ tpc[t] = "select" /\ conn[t] \in open
  BY DEF SelectDB, Sends, Goto
<1>2. \/ ctxDb' = [ctxDb EXCEPT ![conn[t]] = DbOf[t]] /\ UNCHANGED faultVars
      \/ Fault("unselected") /\ ctxDb' = ctxDb
  BY DEF SelectDB
<1>3. /\ queue_redisContext_ \in Seq(Contexts) /\ open \subseteq Contexts
      /\ ctxDb \in [Contexts -> Databases]
      /\ conn \in [Threads -> Contexts \cup {NULL}]
      /\ tpc \in [Threads -> {"idle", "select", "command"}]
      /\ faults \in 0 .. MaxFaults /\ disturbed \subseteq Disturbances
  BY DEF TypeOK
<1>4. \A u \in Threads : tpc'[u] = IF u = t THEN "command" ELSE tpc[u]
  BY <1>1, <1>3
<1>5. "lost" \in disturbed' <=> "lost" \in disturbed
  BY <1>2 DEF Fault, faultVars
<1>6. TypeOK'
  <2>1. faults' \in 0 .. MaxFaults /\ disturbed' \subseteq Disturbances
    BY <1>2, <1>3, FaultTyped DEF Disturbances, faultVars
  <2>2. tpc' \in [Threads -> {"idle", "select", "command"}]
    BY <1>1, <1>3
  <2>3. ctxDb' \in [Contexts -> Databases]
    BY <1>1, <1>2, <1>3
  <2> QED
    BY <2>1, <2>2, <2>3, <1>1 DEF TypeOK
<1>7. IdleHoldsNothing'
  BY <1>1, <1>4 DEF IdleHoldsNothing
<1>8. NoContextTwiceInQueue'
  BY <1>1 DEF NoContextTwiceInQueue
<1>9. ContextHasOneOwner'
  BY <1>1, <1>5 DEF ContextHasOneOwner, Held
<1>10. SelectedIsCurrent'
  <2> SUFFICES ASSUME disturbed' \subseteq {"connect"}, NEW u \in Threads,
                      tpc'[u] = "command", conn[u] # NULL
               PROVE  ctxDb'[conn[u]] = DbOf[u]
    BY <1>1 DEF SelectedIsCurrent, Held
  <2>1. /\ ctxDb' = [ctxDb EXCEPT ![conn[t]] = DbOf[t]]
        /\ disturbed' = disturbed
    BY <1>2 DEF Fault, faultVars
  <2>2. conn[u] \in Contexts /\ conn[t] \in Contexts
    BY <1>1, <1>3
  <2>3. CASE u = t
    BY <2>1, <2>2, <2>3, <1>3
  <2>4. CASE u # t
    <3>1. Owners(queue_redisContext_, open, conn)
      BY <2>1, <1>3, OwnersForm
    <3>2. conn[u] # conn[t]
      BY <3>1, <2>4, <1>1 DEF Owners
    <3>3. ctxDb[conn[u]] = DbOf[u]
      BY <2>1, <2>4, <1>4 DEF SelectedIsCurrent, Held
    <3> QED
      BY <3>2, <3>3, <2>1, <2>2, <1>3
  <2> QED
    BY <2>3, <2>4
<1>11. CommandsStayInTheirDatabase'
  <2>1. disturbed \subseteq disturbed'
    BY <1>2 DEF Fault, faultVars
  <2> QED
    BY <2>1, <1>1 DEF CommandsStayInTheirDatabase
<1> QED
  BY <1>6, <1>7, <1>8, <1>9, <1>10, <1>11

\* From here on "lost" is in disturbed and nothing is said about owners.
LEMMA NoReplyStep ==
    ASSUME PoolInv, NEW t \in Threads, NEW s \in {"select", "command"},
           NoReply(t, s, "command")
    PROVE  PoolInv'
<1> USE DEF PoolInv
<1>1. /\ queue_redisContext_' = queue_redisContext_ /\ ctxDb' = ctxDb
      /\ open' = open \ {conn[t]} /\ conn' = conn /\ outcome' = "lost"
      /\ alive' = alive /\ strayed' = strayed
      /\ tpc' = [tpc EXCEPT ![t] = "command"]
      /\ disturbed' = disturbed \cup {"lost"} /\ tpc[t] = s
  BY DEF NoReply, Lose, Sends, Goto, Fault
<1>2. TypeOK'
  <2>1. faults' \in 0 .. MaxFaults /\ disturbed' \subseteq Disturbances
    BY FaultTyped DEF NoReply, Lose, Disturbances
  <2>2. tpc' \in [Threads -> {"idle", "select", "command"}]
    BY <1>1 DEF TypeOK
  <2>3. open' \subseteq Contexts
    BY <1>1 DEF TypeOK
  <2> QED
    BY <2>1, <2>2, <2>3, <1>1 DEF TypeOK
<1>3. IdleHoldsNothing'
  BY <1>1 DEF IdleHoldsNothing, TypeOK
<1>4. NoContextTwiceInQueue'
  BY <1>1 DEF NoContextTwiceInQueue
<1>5. ContextHasOneOwner' /\ SelectedIsCurrent' /\ CommandsStayInTheirDatabase'
  BY <1>1 DEF ContextHasOneOwner, SelectedIsCurrent, CommandsStayInTheirDatabase
<1> QED
  BY <1>2, <1>3, <1>4, <1>5

\* Without a lost command only the null pointer is not a live context.
LEMMA UseDanglingStep ==
    ASSUME PoolInv, NEW t \in Threads, NEW s \in {"select", "command"},
           UseDangling(t, s, "command")
    PROVE  PoolInv'
<1> USE DEF PoolInv
<1>1. /\ queue_redisContext_' = queue_redisContext_ /\ ctxDb' = ctxDb
      /\ open' = open /\ conn' = conn /\ outcome' = "lost"
      /\ strayed' = strayed /\ disturbed' = disturbed /\ faults' = faults
      /\ tpc' = [tpc EXCEPT ![t] = "command"] /\ tpc[t] = s /\ conn[t] \notin open
  BY DEF UseDangling, Dangles, Goto, poolVars, faultVars
<1>2. alive' \in BOOLEAN
  BY Zenon DEF UseDangling, TypeOK
<1>3. /\ queue_redisContext_ \in Seq(Contexts)
      /\ tpc \in [Threads -> {"idle", "select", "command"}]
  BY DEF TypeOK
<1>4. \A u \in Threads : tpc'[u] = IF u = t THEN "command" ELSE tpc[u]
  BY <1>1, <1>3
<1>5. TypeOK'
  <2>1. tpc' \in [Threads -> {"idle", "select", "command"}]
    BY <1>1, <1>3
  <2> QED
    BY <2>1, <1>1, <1>2 DEF TypeOK
<1>6. IdleHoldsNothing'
  BY <1>1, <1>4 DEF IdleHoldsNothing
<1>7. NoContextTwiceInQueue'
  BY <1>1 DEF NoContextTwiceInQueue
<1>8. ContextHasOneOwner'
  BY <1>1 DEF ContextHasOneOwner, Held
<1>9. SelectedIsCurrent'
  <2> SUFFICES ASSUME disturbed \subseteq {"connect"}, NEW u \in Threads,
                      tpc'[u] = "command", conn[u] # NULL
               PROVE  ctxDb[conn[u]] = DbOf[u]
    BY <1>1 DEF SelectedIsCurrent, Held
  <2>1. Owners(queue_redisContext_, open, conn)
    BY <1>3, OwnersForm
  <2>2. u # t
    BY <2>1, <1>1 DEF Owners
  <2> QED
    BY <2>2, <1>4 DEF SelectedIsCurrent, Held
<1>10. CommandsStayInTheirDatabase'
  BY <1>1 DEF CommandsStayInTheirDatabase
<1> QED
  BY <1>5, <1>6, <1>7, <1>8, <1>9, <1>10

\* What a command that runs does to the pool when its reply is lost.
LEMMA LoseStep ==
    ASSUME PoolInv, NEW t \in Threads, Lose(t), tpc' = tpc, strayed' \in BOOLEAN
    PROVE  PoolInv'
<1> USE DEF PoolInv
<1>1. /\ queue_redisContext_' = queue_redisContext_ /\ ctxDb' = ctxDb
      /\ open' = open \ {conn[t]} /\ conn' = conn /\ outcome' = "lost"
      /\ alive' = alive /\ disturbed' = disturbed \cup {"lost"}
  BY DEF Lose, Fault
<1>2. TypeOK'
  <2>1. faults' \in 0 .. MaxFaults /\ disturbed' \subseteq Disturbances
    BY FaultTyped DEF Lose, Disturbances
  <2> QED
    BY <2>1, <1>1 DEF TypeOK
<1>3. IdleHoldsNothing' /\ NoContextTwiceInQueue'
  BY <1>1 DEF IdleHoldsNothing, NoContextTwiceInQueue
<1>4. ContextHasOneOwner' /\ SelectedIsCurrent' /\ CommandsStayInTheirDatabase'
  BY <1>1 DEF ContextHasOneOwner, SelectedIsCurrent, CommandsStayInTheirDatabase
<1> QED
  BY <1>2, <1>3, <1>4

\* What a command that gets its reply does to the pool, whichever command it is.
LEMMA AnsweredStep ==
    ASSUME PoolInv, NEW t \in Threads, Sends(t, "command"), NEW r, Does(t, r), ~Lose(t)
    PROVE  PoolInv'
<1> USE DEF PoolInv
<1>1. /\ queue_redisContext_' = queue_redisContext_ /\ ctxDb' = ctxDb
      /\ open' = open /\ conn' = conn /\ tpc' = tpc
      /\ disturbed' = disturbed /\ faults' = faults
  BY DEF Does, poolVars, faultVars
<1>2. outcome' \in {"done", "refused"}
  BY DEF Does
<1>3. alive' \in BOOLEAN
  BY DEF Does
<1>4. strayed' = (strayed \/ ctxDb[conn[t]] # DbOf[t])
  BY DEF Does
<1>5. strayed' \in BOOLEAN
  BY <1>4, Zenon
<1>6. TypeOK'
  BY <1>1, <1>2, <1>3, <1>5 DEF TypeOK
<1>7. IdleHoldsNothing' /\ NoContextTwiceInQueue'
  BY <1>1 DEF IdleHoldsNothing, NoContextTwiceInQueue
<1>8. ContextHasOneOwner' /\ SelectedIsCurrent'
  BY <1>1 DEF ContextHasOneOwner, SelectedIsCurrent, Held
<1>9. CommandsStayInTheirDatabase'
  <2> SUFFICES ASSUME disturbed \subseteq {"connect"} PROVE ~strayed'
    BY <1>1 DEF CommandsStayInTheirDatabase
  <2>1. tpc[t] = "command" /\ conn[t] # NULL
    BY DEF Sends, TypeOK
  <2>2. ctxDb[conn[t]] = DbOf[t]
    BY <2>1 DEF SelectedIsCurrent, Held
  <2>3. ~strayed
    BY DEF CommandsStayInTheirDatabase
  <2> QED
    BY <2>2, <2>3, <1>4
<1> QED
  BY <1>6, <1>7, <1>8, <1>9

\* Either way.
LEMMA DoesStep ==
    ASSUME PoolInv, NEW t \in Threads, Sends(t, "command"), NEW r, Does(t, r)
    PROVE  PoolInv'
<1>1. tpc' = tpc /\ strayed' \in BOOLEAN
  BY Zenon DEF Does
<1> QED
  BY <1>1, LoseStep, AnsweredStep

\* The steps that change at most a database, and count a fault.
LEMMA OtherSteps ==
    ASSUME PoolInv,
           \/ \E t \in Threads : ScanGetsNoReply(t)
           \/ \E d \in Databases, key \in Keys : KeyExpires(d, key)
           \/ UNCHANGED vars
    PROVE  PoolInv'
<1> USE DEF PoolInv
<1>1. /\ queue_redisContext_' = queue_redisContext_ /\ ctxDb' = ctxDb
      /\ open' = open /\ conn' = conn /\ tpc' = tpc
      /\ alive' = alive /\ strayed' = strayed
  BY DEF ScanGetsNoReply, KeyExpires, vars, poolVars, threadVars
<1>2. outcome' \in {outcome, "none", "lost"}
  BY DEF ScanGetsNoReply, KeyExpires, vars
<1>3. \/ Fault("lost")
      \/ faults' = faults /\ disturbed' = disturbed
  BY DEF ScanGetsNoReply, KeyExpires, vars, faultVars
<1>4. disturbed \subseteq disturbed'
  BY <1>3 DEF Fault
<1>5. faults' \in 0 .. MaxFaults /\ disturbed' \subseteq Disturbances
  BY <1>3, FaultTyped DEF Disturbances, TypeOK
<1>6. TypeOK'
  BY <1>1, <1>2, <1>5 DEF TypeOK
<1>7. IdleHoldsNothing' /\ NoContextTwiceInQueue'
  BY <1>1 DEF IdleHoldsNothing, NoContextTwiceInQueue
<1>8. ContextHasOneOwner' /\ SelectedIsCurrent' /\ CommandsStayInTheirDatabase'
  BY <1>1, <1>4 DEF ContextHasOneOwner, SelectedIsCurrent,
                    CommandsStayInTheirDatabase, Held
<1> QED
  BY <1>6, <1>7, <1>8

-----------------------------------------------------------------------------
(* What the calls of RedisOpt do to a database.                             *)

\* A call leaves a well-formed database, the old one if it returns false.
Honest(kv, r) == KvOK(r.kv) /\ (~r.ret => r.kv = kv)

LEMMA WriteOK ==
    ASSUME NEW kv, KvOK(kv), NEW key \in Keys, NEW e,
           \/ e = None
           \/ \E type, val, ttl :
                /\ e = [type |-> type, val |-> val, ttl |-> ttl]
                /\ type # "none" /\ (type = "hash" => val # {})
    PROVE  KvOK([kv EXCEPT ![key] = e])
<1> DEFINE kw == [kv EXCEPT ![key] = e]
<1>1. kw = [k \in Keys |-> IF k = key THEN e ELSE kv[k]]
  BY DEF KvOK
<1>2. /\ kw = [k \in Keys |-> kw[k]]
      /\ \A k \in Keys : kw[k] = IF k = key THEN e ELSE kv[k]
  BY <1>1
<1>3. /\ e = [type |-> e.type, val |-> e.val, ttl |-> e.ttl]
      /\ e.type = "none" => e = None
      /\ e.type = "hash" => e.val # {}
  BY DEF None
<1> HIDE DEF kw
<1>4. WellFormed(kw)
  BY <1>2, <1>3 DEF WellFormed, KvOK
<1> QED
  BY <1>2, <1>4 DEF KvOK, kw

\* The server's answer to a command on a key of one kind: an error changes
\* nothing, otherwise the reply is the given one.
LEMMA RedisOK ==
    ASSUME NEW kv, KvOK(kv), NEW key \in Keys, NEW type, NEW val, NEW empty, NEW reply,
           type # "none", type = "hash" => empty = {}
    PROVE  LET x == Redis(kv, key, type, val, empty, reply)
           IN  /\ KvOK(x.kv)
               /\ \/ x.reply = Error /\ x.kv = kv
                  \/ x.reply = reply
<1> DEFINE x == Redis(kv, key, type, val, empty, reply)
           e == IF val = empty THEN None
                ELSE [Entry(type, val) EXCEPT !.ttl = kv[key].ttl]
<1>1. CASE kv[key].type \notin {"none", type}
  <2>1. x = [kv |-> kv, reply |-> Error]
    BY <1>1 DEF Redis
  <2> QED
    BY <2>1
<1>2. CASE kv[key].type \in {"none", type}
  <2>1. x = [kv |-> [kv EXCEPT ![key] = e], reply |-> reply]
    BY <1>2 DEF Redis
  <2>2. \/ e = None
        \/ e = [type |-> type, val |-> val, ttl |-> kv[key].ttl] /\ val # empty
    BY DEF Entry
  <2> HIDE DEF e
  <2>3. KvOK([kv EXCEPT ![key] = e])
    BY <2>2, WriteOK
  <2> QED
    BY <2>1, <2>3
<1> QED
  BY <1>1, <1>2

\* A command that writes back what the key holds changes nothing.
LEMMA RedisReads ==
    ASSUME NEW kv, KvOK(kv), NEW key \in Keys, NEW reply
    PROVE  Redis(kv, key, "hash", Pairs(kv, key), {}, reply).kv = kv
<1> DEFINE v == Pairs(kv, key)
           e == IF v = {} THEN None
                ELSE [Entry("hash", v) EXCEPT !.ttl = kv[key].ttl]
<1>1. CASE kv[key].type \notin {"none", "hash"}
  BY <1>1 DEF Redis
<1>2. CASE kv[key].type \in {"none", "hash"}
  <2>1. Redis(kv, key, "hash", v, {}, reply)
          = [kv |-> [kv EXCEPT ![key] = e], reply |-> reply]
    BY <1>2 DEF Redis
  <2>2. e = kv[key]
    <3>1. CASE kv[key].type = "none"
      BY <3>1 DEF KvOK, WellFormed, Pairs, Contents
    <3>2. CASE kv[key].type = "hash"
      <4>1. /\ kv[key] = [type |-> "hash", val |-> kv[key].val, ttl |-> kv[key].ttl]
            /\ v = kv[key].val /\ v # {}
        BY <3>2 DEF KvOK, WellFormed, Pairs, Contents
      <4>2. e = [type |-> "hash", val |-> v, ttl |-> kv[key].ttl]
        BY <4>1 DEF Entry
      <4> QED
        BY <4>1, <4>2
    <3> QED
      BY <3>1, <3>2, <1>2
  <2> HIDE DEF e
  <2>3. [kv EXCEPT ![key] = e] = kv
    BY <2>2 DEF KvOK
  <2> QED
    BY <2>1, <2>3
<1> QED
  BY <1>1, <1>2

LEMMA ResultHonest ==
    ASSUME NEW kv, NEW x, NEW types, KvOK(x.kv), x.reply.type \in types \/ x.kv = kv
    PROVE  /\ Honest(kv, Result(x, types))
           /\ Honest(kv, ResultThenLog(x, types))
<1>1. Honest(kv, Result(x, types))
  BY DEF Honest, Result
<1>2. /\ ResultThenLog(x, types).kv = x.kv
      /\ ResultThenLog(x, types).ret = (x.reply.type \in types)
  BY DEF ResultThenLog, Result
<1> QED
  BY <1>1, <1>2 DEF Honest

\* The calls that answer a command on a key of one kind, and take the reply it
\* has when there is no error.
LEMMA RedisHonest ==
    ASSUME NEW kv, KvOK(kv), NEW key \in Keys, NEW type, NEW val, NEW empty, NEW reply,
           NEW types, reply.type \in types, type # "none", type = "hash" => empty = {}
    PROVE  /\ Honest(kv, Result(Redis(kv, key, type, val, empty, reply), types))
           /\ Honest(kv, ResultThenLog(Redis(kv, key, type, val, empty, reply), types))
<1> DEFINE x == Redis(kv, key, type, val, empty, reply)
<1>1. KvOK(x.kv) /\ (x.kv = kv \/ x.reply = reply)
  BY RedisOK
<1> HIDE DEF x
<1> QED
  BY <1>1, ResultHonest DEF x

LEMMA ReadHonest ==
    ASSUME NEW kv, KvOK(kv), NEW reply, NEW types
    PROVE  Honest(kv, Result([kv |-> kv, reply |-> reply], types))
  BY ResultHonest

LEMMA RefusedHonest == ASSUME NEW kv, KvOK(kv) PROVE Honest(kv, Refused(kv))
  BY DEF Honest, Refused

LEMMA SetHonest ==
    ASSUME NEW kv, KvOK(kv), NEW key \in Keys, NEW value
    PROVE  Honest(kv, Result(SET(kv, key, value), {"STATUS"}))
<1> DEFINE e == [type |-> "string", val |-> value, ttl |-> FALSE]
           x == SET(kv, key, value)
<1>1. x = [kv |-> [kv EXCEPT ![key] = e], reply |-> Status]
  BY DEF SET, Entry
<1>2. KvOK([kv EXCEPT ![key] = e])
  BY WriteOK
<1>3. KvOK(x.kv) /\ x.reply.type \in {"STATUS"}
  BY <1>1, <1>2 DEF Status, Reply
<1> HIDE DEF x
<1> QED
  BY <1>3, ResultHonest DEF x

LEMMA StringCallsHonest ==
    ASSUME NEW kv, KvOK(kv), NEW key \in Keys
    PROVE  /\ \A v : Honest(kv, SetText(kv, key, v))
           /\ \A n : Honest(kv, SetInt(kv, key, n)) /\ Honest(kv, SetLong(kv, key, n))
           /\ Honest(kv, Get(kv, key))
           /\ \A keys : Honest(kv, MGet(kv, keys))
           /\ Honest(kv, Incr(kv, key))
<1>1. /\ \A v : Honest(kv, SetText(kv, key, v))
      /\ \A n : Honest(kv, SetInt(kv, key, n)) /\ Honest(kv, SetLong(kv, key, n))
  BY SetHonest DEF SetText, SetInt, SetLong
<1>2. Honest(kv, Get(kv, key))
  BY ReadHonest DEF Get
<1>3. \A keys : Honest(kv, MGet(kv, keys))
  BY ReadHonest, RefusedHonest DEF MGet
<1>4. Honest(kv, Incr(kv, key))
  <2> DEFINE old == Contents(kv, key, Dec(0))
             reply == Reply("INTEGER", old[2] + 1)
             x == IF kv[key].type = "string" /\ old[1] # "dec"
                  THEN [kv |-> kv, reply |-> Error]
                  ELSE Redis(kv, key, "string", Dec(old[2] + 1), <<>>, reply)
  <2>1. reply.type \in {"INTEGER"}
    BY DEF Reply
  <2>2. Incr(kv, key) = Result(x, {"INTEGER"})
    BY DEF Incr
  <2> HIDE DEF old, reply
  <2>3. Honest(kv, Result(x, {"INTEGER"}))
    <3>1. Honest(kv, Result([kv |-> kv, reply |-> Error], {"INTEGER"}))
      BY ReadHonest
    <3>2. Honest(kv, Result(Redis(kv, key, "string", Dec(old[2] + 1), <<>>, reply),
                            {"INTEGER"}))
      BY <2>1, RedisHonest
    <3>3. \/ x = [kv |-> kv, reply |-> Error]
          \/ x = Redis(kv, key, "string", Dec(old[2] + 1), <<>>, reply)
      OBVIOUS
    <3> HIDE DEF x
    <3> QED
      BY <3>1, <3>2, <3>3
  <2> QED
    BY <2>2, <2>3
<1> QED
  BY <1>1, <1>2, <1>3, <1>4

LEMMA IntegerReply == \A n : Reply("INTEGER", n).type \in {"INTEGER"}
  BY DEF Reply

LEMMA ArrayReply == \A a : Reply("ARRAY", a).type \in {"ARRAY"}
  BY DEF Reply

\* A length that is handed out in place of the reply's number.
LEMMA OutHonest ==
    ASSUME NEW kv, NEW x, NEW types, NEW n, Honest(kv, Result(x, types))
    PROVE  Honest(kv, [Result(x, types) EXCEPT !.out = n])
<1>1. /\ [Result(x, types) EXCEPT !.out = n].kv = Result(x, types).kv
      /\ [Result(x, types) EXCEPT !.out = n].ret = Result(x, types).ret
  BY DEF Result
<1> QED
  BY <1>1 DEF Honest

LEMMA ListCallsHonest ==
    ASSUME NEW kv, KvOK(kv), NEW key \in Keys
    PROVE  /\ \A vec : Honest(kv, LPushAll(kv, key, vec))
           /\ \A v : Honest(kv, LPush(kv, key, v)) /\ Honest(kv, RPush(kv, key, v))
           /\ Honest(kv, LPop(kv, key))
           /\ Honest(kv, LLen(kv, key))
           /\ Honest(kv, LRange(kv, key))
<1> DEFINE Answer(val, reply) == Redis(kv, key, "list", val, <<>>, reply)
<1>1. /\ \A val, n : Honest(kv, Result(Answer(val, Reply("INTEGER", n)), {"INTEGER"}))
      /\ \A val, a : Honest(kv, ResultThenLog(Answer(val, Reply("ARRAY", a)), {"ARRAY"}))
  BY IntegerReply, ArrayReply, RedisHonest
<1>2. \A vec : Honest(kv, LPushAll(kv, key, vec))
  BY <1>1, RefusedHonest DEF LPushAll
<1>3. \A v : Honest(kv, LPush(kv, key, v)) /\ Honest(kv, RPush(kv, key, v))
  BY <1>1 DEF LPush, RPush
<1>4. Honest(kv, LPop(kv, key))
  <2> DEFINE types == {"STATUS", "INTEGER", "STRING", "NIL", "ARRAY"}
             reply == Reply("STRING", {})
  <2>1. reply.type \in types
    BY DEF Reply
  <2>2. Honest(kv, Result([kv |-> kv, reply |-> Nil], types))
    BY ReadHonest
  <2> HIDE DEF types, reply
  <2>3. \A val : Honest(kv, Result(Answer(val, reply), types))
    BY <2>1, RedisHonest
  <2>4. LPop(kv, key) = Result(IF kv[key].type = "none" THEN [kv |-> kv, reply |-> Nil]
                               ELSE Answer(Tail(Items(kv, key)), reply), types)
    BY DEF LPop, types, reply
  <2> HIDE DEF Answer
  <2> QED
    BY <2>2, <2>3, <2>4
<1>5. Honest(kv, LLen(kv, key))
  BY <1>1, OutHonest DEF LLen
<1>6. Honest(kv, LRange(kv, key))
  BY <1>1 DEF LRange
<1> QED
  BY <1>2, <1>3, <1>4, <1>5, <1>6

LEMMA SetCallsHonest ==
    ASSUME NEW kv, KvOK(kv), NEW key \in Keys
    PROVE  /\ \A vec : Honest(kv, SAddAll(kv, key, vec))
           /\ \A v : Honest(kv, SAdd(kv, key, v))
           /\ \A values : Honest(kv, SAddSet(kv, key, values))
           /\ Honest(kv, SMembers(kv, key))
<1> DEFINE Answer(val, reply) == Redis(kv, key, "set", val, {}, reply)
<1>1. /\ \A val, n : Honest(kv, Result(Answer(val, Reply("INTEGER", n)), {"INTEGER"}))
      /\ \A val, a : Honest(kv, ResultThenLog(Answer(val, Reply("ARRAY", a)), {"ARRAY"}))
  BY IntegerReply, ArrayReply, RedisHonest
<1>2. \A values : Honest(kv, Result(SADD(kv, key, values), {"INTEGER"}))
  BY <1>1 DEF SADD
<1>3. \A vec : Honest(kv, SAddAll(kv, key, vec))
  BY <1>2, RefusedHonest DEF SAddAll
<1>4. \A v : Honest(kv, SAdd(kv, key, v))
  BY <1>2 DEF SAdd
<1>5. \A values : Honest(kv, SAddSet(kv, key, values))
  BY <1>2, RefusedHonest DEF SAddSet
<1>6. Honest(kv, SMembers(kv, key))
  BY <1>1 DEF SMembers
<1> QED
  BY <1>3, <1>4, <1>5, <1>6

\* HGET of a field that is not there is the one call that returns false after
\* the server has touched the key: it needs that no hash is empty.
LEMMA HashCallsHonest ==
    ASSUME NEW kv, KvOK(kv), NEW key \in Keys
    PROVE  /\ \A f, v : /\ Honest(kv, HsetInt(kv, key, f, v))
                        /\ Honest(kv, HsetText(kv, key, f, v))
           /\ \A f : Honest(kv, Hget(kv, key, f)) /\ Honest(kv, Hdel(kv, key, f))
           /\ Honest(kv, Hvals(kv, key))
           /\ Honest(kv, HLen(kv, key))
<1> DEFINE Answer(val, reply) == Redis(kv, key, "hash", val, {}, reply)
<1>1. /\ \A val, n : Honest(kv, Result(Answer(val, Reply("INTEGER", n)), {"INTEGER"}))
      /\ \A val, a : Honest(kv, ResultThenLog(Answer(val, Reply("ARRAY", a)), {"ARRAY"}))
  BY IntegerReply, ArrayReply, RedisHonest
<1>2. \A f, v : Honest(kv, HsetInt(kv, key, f, v)) /\ Honest(kv, HsetText(kv, key, f, v))
  BY <1>1 DEF HsetInt, HsetText, HSET
<1>3. ASSUME NEW f PROVE Honest(kv, Hget(kv, key, f))
  <2>1. HGET(kv, key, f).kv = kv
    BY RedisReads DEF HGET
  <2> QED
    BY <2>1, ResultHonest DEF Hget
<1>4. \A f : Honest(kv, Hdel(kv, key, f))
  BY <1>1 DEF Hdel
<1>5. Honest(kv, Hvals(kv, key))
  BY <1>1 DEF Hvals
<1>6. Honest(kv, HLen(kv, key))
  BY <1>1, OutHonest DEF HLen
<1> QED
  BY <1>2, <1>3, <1>4, <1>5, <1>6

LEMMA KeyCallsHonest ==
    ASSUME NEW kv, KvOK(kv), NEW key \in Keys
    PROVE  /\ Honest(kv, Del(kv, key))
           /\ Honest(kv, Expire(kv, key, 60))
           /\ Honest(kv, Exists(kv, key))
           /\ \A cursor : Honest(kv, Scan(kv, cursor)) /\ Honest(kv, Hscan(kv, cursor))
<1>1. Honest(kv, Del(kv, key))
  <2> DEFINE x == [kv |-> [kv EXCEPT ![key] = None], reply |-> Reply("INTEGER", 1)]
  <2>1. KvOK([kv EXCEPT ![key] = None])
    BY WriteOK
  <2>2. KvOK(x.kv) /\ x.reply.type \in {"INTEGER"}
    BY <2>1, IntegerReply
  <2>3. Del(kv, key) = Result(x, {"INTEGER"})
    BY DEF Del
  <2> HIDE DEF x
  <2> QED
    BY <2>2, <2>3, ResultHonest
<1>2. Honest(kv, Expire(kv, key, 60))
  <2> DEFINE e == [kv[key] EXCEPT !.ttl = TRUE]
             r == Expire(kv, key, 60)
  <2>1. CASE ~OneIfThere(kv, key)
    <3>1. r.kv = kv
      BY <2>1 DEF Expire
    <3> QED
      BY <3>1 DEF Honest
  <2>2. CASE OneIfThere(kv, key)
    <3>1. r.kv = [kv EXCEPT ![key] = e] /\ r.ret = OneIfThere(kv, key)
      <4>1. [kv EXCEPT ![key] = IF 60 <= 0 THEN None ELSE [@ EXCEPT !.ttl = TRUE]]
              = [kv EXCEPT ![key] = e]
        <5>1. ~(60 <= 0)
          OBVIOUS
        <5> QED
          BY <5>1
      <4> HIDE DEF e
      <4> QED
        BY <4>1, <2>2 DEF Expire
    <3>2. e = [type |-> kv[key].type, val |-> kv[key].val, ttl |-> TRUE]
      <4>1. PICK type, val, ttl : kv[key] = [type |-> type, val |-> val, ttl |-> ttl]
        BY DEF KvOK, WellFormed
      <4>2. e = [[type |-> type, val |-> val, ttl |-> ttl] EXCEPT !.ttl = TRUE]
        BY <4>1, Zenon
      <4>3. [[type |-> type, val |-> val, ttl |-> ttl] EXCEPT !.ttl = TRUE]
              = [type |-> type, val |-> val, ttl |-> TRUE]
        <5>1. \A b : [[type |-> type, val |-> val, ttl |-> ttl] EXCEPT !.ttl = b]
                       = [type |-> type, val |-> val, ttl |-> b]
          OBVIOUS
        <5> QED
          BY <5>1, Zenon
      <4>4. type = kv[key].type /\ val = kv[key].val
        BY <4>1
      <4> HIDE DEF e
      <4> QED
        BY <4>2, <4>3, <4>4
    <3>3. kv[key].type # "none" /\ (kv[key].type = "hash" => kv[key].val # {})
      BY <2>2 DEF KvOK, WellFormed, OneIfThere
    <3> HIDE DEF e, r
    <3>4. KvOK([kv EXCEPT ![key] = e])
      BY <3>2, <3>3, WriteOK
    <3> QED
      BY <3>1, <3>4, <2>2 DEF Honest, r
  <2> QED
    BY <2>1, <2>2
<1>3. Honest(kv, Exists(kv, key))
  BY DEF Exists, Honest
<1>4. \A cursor : Honest(kv, Scan(kv, cursor))
  BY DEF Scan, Honest
<1>5. \A cursor : Honest(kv, Hscan(kv, cursor))
  BY ReadHonest DEF Hscan
<1> QED
  BY <1>1, <1>2, <1>3, <1>4, <1>5

\* The calls Command chooses from.
Calls(kv, key) ==
    {SetText(kv, key, "a"), SetInt(kv, key, 0), SetLong(kv, key, 1), Get(kv, key),
     MGet(kv, <<key>>), Incr(kv, key), LPushAll(kv, key, <<Text("a"), Dec(1)>>),
     LPush(kv, key, Dec(1)), RPush(kv, key, Text("a")), LPop(kv, key),
     LLen(kv, key), LRange(kv, key), SAddAll(kv, key, <<Text("a")>>),
     SAdd(kv, key, Text("a")), SAddSet(kv, key, {}), SMembers(kv, key),
     HsetInt(kv, key, "fd", 1), HsetText(kv, key, "dev_ip", "a"),
     Hget(kv, key, "fd"), Hdel(kv, key, "dev_ip"), Hvals(kv, key), HLen(kv, key),
     Del(kv, key), Expire(kv, key, 60), Exists(kv, key), Scan(kv, 0), Hscan(kv, 0)}

LEMMA CallsHonest ==
    ASSUME NEW kv, KvOK(kv), NEW key \in Keys, NEW r \in Calls(kv, key)
    PROVE  Honest(kv, r)
  BY StringCallsHonest, ListCallsHonest, SetCallsHonest, HashCallsHonest,
     KeyCallsHonest DEF Calls

LEMMA CommandIsACall ==
    ASSUME NEW t, Command(t)
    PROVE  \E key \in Keys : \E r \in Calls(store[ctxDb[conn[t]]], key) : Does(t, r)
<1>1. PICK key \in Keys :
        \E r \in Calls(store[ctxDb[conn[t]]], key) : Does(t, r)
  BY SMTT(30) DEF Command, Calls
<1> QED
  BY <1>1

-----------------------------------------------------------------------------
(* Theorems about the pool.                                                 *)

LEMMA PoolNext == PoolInv /\ [Next]_vars => PoolInv'
<1> SUFFICES ASSUME PoolInv, [Next]_vars PROVE PoolInv'
  OBVIOUS
<1>1. ASSUME NEW t \in Threads, Handler(t) PROVE PoolInv'
  <2>1. CASE TakeFromQueue(t)
    BY <2>1, TakeFromQueueStep
  <2>2. CASE CreateNew(t)
    BY <2>2, CreateNewStep
  <2>3. CASE CreateNewFails(t)
    BY <2>3, CreateNewFailsStep
  <2>4. CASE SelectDB(t)
    BY <2>4, SelectDBStep
  <2>5. CASE NoReply(t, "select", "command") \/ NoReply(t, "command", "command")
    BY <2>5, NoReplyStep
  <2>6. CASE UseDangling(t, "select", "command") \/ UseDangling(t, "command", "command")
    BY <2>6, UseDanglingStep
  <2>7. CASE Command(t)
    <3>1. Sends(t, "command") /\ \E r : Does(t, r)
      BY <2>7, CommandIsACall DEF Command
    <3> QED
      BY <3>1, DoesStep
  <2>8. CASE ScanGetsNoReply(t)
    BY <2>8, OtherSteps
  <2>9. CASE ReleaseRedisContext(t)
    BY <2>9, ReleaseStep
  <2> QED
    BY <1>1, <2>1, <2>2, <2>3, <2>4, <2>5, <2>6, <2>7, <2>8, <2>9 DEF Handler
<1>2. CASE \E d \in Databases, key \in Keys : KeyExpires(d, key)
  BY <1>2, OtherSteps
<1>3. CASE UNCHANGED vars
  BY <1>3, OtherSteps
<1> QED
  BY <1>1, <1>2, <1>3 DEF Next

\* Every variable of the pool and of its users keeps its type.
THEOREM PoolTypeCorrect == Spec => []TypeOK
<1>1. PoolInv => TypeOK
  BY DEF PoolInv
<1> QED
  BY <1>1, PoolInit, PoolNext, PTL DEF Spec

\* As long as no command went without a reply, a live context is in the queue
\* or with one thread and nowhere else, and nobody has the address of a freed
\* one, however the threads interleave GetRedisContext and ReleaseRedisContext.
THEOREM ContextHasOneOwnerHolds == Spec => []ContextHasOneOwner
<1>1. PoolInv => ContextHasOneOwner
  BY DEF PoolInv
<1> QED
  BY <1>1, PoolInit, PoolNext, PTL DEF Spec

\* The test in ReleaseRedisContext keeps every address in the queue at most
\* once, also after contexts were freed behind the pool's back.
THEOREM NoContextTwiceInQueueHolds == Spec => []NoContextTwiceInQueue
<1>1. PoolInv => NoContextTwiceInQueue
  BY DEF PoolInv
<1> QED
  BY <1>1, PoolInit, PoolNext, PTL DEF Spec

\* A command runs in the database its own caller selected, although a pooled
\* connection keeps the database of its last user, unless a command got no
\* reply or a SELECT was refused.
THEOREM CommandsStayInTheirDatabaseHolds == Spec => []CommandsStayInTheirDatabase
<1>1. PoolInv => CommandsStayInTheirDatabase
  BY DEF PoolInv
<1> QED
  BY <1>1, PoolInit, PoolNext, PTL DEF Spec

-----------------------------------------------------------------------------
(* The theorem about the contents of Redis.                                 *)

LEMMA StoreWrite ==
    ASSUME StoreInv, NEW d \in Databases, NEW kv, KvOK(kv),
           store' = [store EXCEPT ![d] = kv]
    PROVE  StoreInv'
<1>1. store' = [e \in Databases |-> IF e = d THEN kv ELSE store[e]]
  BY DEF StoreInv
<1>2. /\ store' = [e \in Databases |-> store'[e]]
      /\ \A e \in Databases : store'[e] = IF e = d THEN kv ELSE store[e]
  BY <1>1
<1>3. \A e \in Databases : KvOK(store'[e])
  BY <1>2 DEF StoreInv
<1>4. \A e \in Databases : KvOK(store[e])'
  BY <1>3 DEF KvOK, WellFormed
<1> QED
  BY <1>2, <1>4 DEF StoreInv

LEMMA StoreInit == Init => StoreInv
<1> SUFFICES ASSUME Init PROVE StoreInv
  OBVIOUS
<1>1. store = [d \in Databases |-> EmptyDb]
  BY DEF Init
<1>2. KvOK(EmptyDb)
  <2>1. \A k \in Keys : EmptyDb[k] = None
    BY DEF EmptyDb
  <2>2. None.type = "none" /\ None = [type |-> None.type, val |-> None.val, ttl |-> None.ttl]
    BY DEF None
  <2>3. WellFormed(EmptyDb)
    BY <2>1, <2>2 DEF WellFormed
  <2>4. EmptyDb = [k \in Keys |-> EmptyDb[k]]
    BY DEF EmptyDb
  <2> QED
    BY <2>3, <2>4 DEF KvOK
<1> QED
  BY <1>1, <1>2 DEF StoreInv

\* A command leaves the databases well formed, and as they were if it reports
\* a failure.
LEMMA CommandStore ==
    ASSUME TypeOK, StoreInv, NEW t \in Threads, Command(t)
    PROVE  StoreInv' /\ (outcome' = "refused" => store' = store)
<1> DEFINE d == ctxDb[conn[t]]
<1>1. d \in Databases
  <2>1. conn[t] \in Contexts
    BY DEF Command, Sends, TypeOK
  <2> QED
    BY <2>1 DEF TypeOK
<1>2. PICK key \in Keys : \E r \in Calls(store[d], key) : Does(t, r)
  BY CommandIsACall
<1> PICK r \in Calls(store[d], key) : Does(t, r)
  BY <1>2
<1>3. /\ store' = [store EXCEPT ![d] = r.kv]
      /\ outcome' = "refused" => ~r.ret
  BY DEF Does, Lose
<1> HIDE DEF d
<1>4. Honest(store[d], r)
  BY <1>1, CallsHonest DEF StoreInv
<1>5. StoreInv'
  BY <1>1, <1>3, <1>4, StoreWrite DEF Honest
<1>6. ASSUME outcome' = "refused" PROVE store' = store
  <2>1. store' = [store EXCEPT ![d] = store[d]]
    BY <1>3, <1>4, <1>6 DEF Honest
  <2> QED
    BY <2>1, <1>1 DEF StoreInv
<1> QED
  BY <1>5, <1>6

LEMMA ExpiryStore ==
    ASSUME StoreInv, NEW d \in Databases, NEW key \in Keys, KeyExpires(d, key)
    PROVE  StoreInv'
<1>1. store' = [store EXCEPT ![d] = [store[d] EXCEPT ![key] = None]]
  BY DEF KeyExpires
<1>2. KvOK([store[d] EXCEPT ![key] = None])
  BY WriteOK DEF StoreInv
<1> QED
  BY <1>1, <1>2, StoreWrite

\* The other steps of a handler do not write to Redis.
LEMMA HandlerStore ==
    ASSUME NEW t \in Threads, Handler(t), ~Command(t)
    PROVE  store' = store
  BY DEF Handler, TakeFromQueue, CreateNew, CreateNewFails, SelectDB, NoReply,
         UseDangling, ScanGetsNoReply, ReleaseRedisContext

LEMMA StoreNext == TypeOK /\ StoreInv /\ [Next]_vars => StoreInv'
<1> SUFFICES ASSUME TypeOK, StoreInv, [Next]_vars PROVE StoreInv'
  OBVIOUS
<1>1. CASE store' = store
  BY <1>1 DEF StoreInv, KvOK, WellFormed
<1>2. CASE \E t \in Threads : Command(t)
  BY <1>2, CommandStore
<1>3. CASE \E d \in Databases, key \in Keys : KeyExpires(d, key)
  BY <1>3, ExpiryStore
<1> QED
  BY <1>1, <1>2, <1>3, HandlerStore DEF Next, vars

LEMMA RefusedStep ==
    TypeOK /\ StoreInv /\ [Next]_vars => [outcome' = "refused" => UNCHANGED store]_vars
<1> SUFFICES ASSUME TypeOK, StoreInv, Next, outcome' = "refused" PROVE store' = store
  OBVIOUS
<1>1. CASE \E t \in Threads : Command(t)
  BY <1>1, CommandStore
<1>2. CASE \E d \in Databases, key \in Keys : KeyExpires(d, key)
  BY <1>2 DEF KeyExpires
<1> QED
  BY <1>1, <1>2, HandlerStore DEF Next

\* A call of RedisOpt that got a reply and returns false has changed nothing
\* in Redis, in whatever database and whatever the keys held: an error leaves
\* the key alone, and the HGET of an absent field writes back a hash that is
\* never empty.
THEOREM RefusedCallChangesNothingHolds == Spec => RefusedCallChangesNothing
<1>1. Spec => []StoreInv
  BY PoolTypeCorrect, StoreInit, StoreNext, PTL DEF Spec
<1> QED
  BY <1>1, PoolTypeCorrect, RefusedStep, PTL DEF Spec, RefusedCallChangesNothing
=============================================================================
