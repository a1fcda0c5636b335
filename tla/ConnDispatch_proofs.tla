------------------------- MODULE ConnDispatch_proofs -------------------------
(***************************************************************************)
(* Theorems about ConnDispatch, for any number of workers, descriptors,    *)
(* items and conns.                                                        *)
(***************************************************************************)
EXTENDS ConnDispatch, TLAPS

USE ThreadNumAssumption, FdsAssumption, SizesAssumption

\* The round-robin choice is a worker.
LEMMA NextThreadIsWorker ==
    ASSUME last_thread \in Workers \cup {-1}
    PROVE  NextThread \in Workers
BY DEF Workers, NextThread

\* The block that ItemLink puts in front of the free list.
LEMMA LinkedBlock ==
    ASSUME NEW m \in Items, m + ITEMS_PER_ALLOC - 1 <= MaxItems
    PROVE  [i \in 1 .. ITEMS_PER_ALLOC - 1 |-> m + i] \in Seq(Items)
<1> DEFINE s == [i \in 1 .. ITEMS_PER_ALLOC - 1 |-> m + i]
<1>1. \A i \in 1 .. ITEMS_PER_ALLOC - 1 : m + i \in Items
  BY DEF Items
<1>2. s \in [1 .. ITEMS_PER_ALLOC - 1 -> Items]
  BY <1>1
<1>3. ITEMS_PER_ALLOC - 1 \in Nat
  OBVIOUS
<1> QED  BY <1>2, <1>3

-----------------------------------------------------------------------------
(* Type correctness.  TypeOK is not inductive: a step reads the pointer that *)
(* an earlier step of the same callback left in a local variable.           *)

\* The master's local variables inside AccepCb.
MasterControl ==
    /\ mpc \notin {"accept", "notify"} => msfd \in Fds
    /\ mpc \in {"link", "push"} => mitem \in Items
    /\ mpc = "link" => mitem + ITEMS_PER_ALLOC - 1 <= itemCount
    /\ mpc = "notify" => last_thread \in Workers

\* The workers' local variables inside their callbacks.
WorkerControl ==
    \A w \in Workers :
        /\ HoldsItem(w) => witem[w] \in Items
        /\ wpc[w] = "bev" => wconn[w] \in Conns
        /\ wpc[w] \in {"connfree", "bevfree"} => wbev[w] \in Bevs

\* The inductive strengthening of TypeOK.
Typed == TypeOK /\ MasterControl /\ WorkerControl

\* The forgotten payload of a free item or conn is a payload.
LEMMA NoPayloadTyped == NoPayload \in Payloads
BY DEF NoPayload, Payloads, NoFd, NoId

\* conn_add_to_freelist keeps the types of the free list.
LEMMA AddToFreelistTyped ==
    ASSUME TypeOK, NEW c \in Conns, AddToFreelist(c)
    PROVE  /\ conn' \in [Conns -> Payloads]
           /\ vec_freeconn_' \in Seq(Conns)
           /\ freetotal_' \in Nat \ {0}
BY NoPayloadTyped DEF TypeOK, AddToFreelist

\* The threads start outside every callback, with empty pools.
LEMMA TypedInit == Init => Typed
<1> SUFFICES ASSUME Init PROVE Typed  OBVIOUS
<1>1. Nil \notin Items
  BY DEF Nil, Items
<1>2. NoBev \in Bevs \cup {NoBev}
  OBVIOUS
<1>3. NoPayload \in Payloads
  BY NoPayloadTyped
<1>4. TypeOK
  BY <1>2, <1>3 DEF Init, TypeOK, MasterSteps, WorkerSteps, Ids, Workers, NoId, NoFd, Nil
<1>5. MasterControl /\ WorkerControl
  BY DEF Init, MasterControl, WorkerControl, HoldsItem
<1> QED  BY <1>4, <1>5 DEF Typed

\* Every step of AccepCb, DispatchSfdToWorker, ThreadLibeventProcess, conn_new
\* and ClientTcpErrorCb keeps the types and the local variables valid.
LEMMA TypedNext == Typed /\ [Next]_vars => Typed'
<1> SUFFICES ASSUME Typed, [Next]_vars PROVE Typed'  OBVIOUS
<1> USE DEF Typed, TypeOK, MasterControl, WorkerControl, HoldsItem, MasterSteps,
            WorkerSteps, netVars, masterVars, queueVars, itemVars, connVars,
            workerVars
<1>1. ASSUME NEW f \in Fds, Accept(f) PROVE Typed'
  BY <1>1 DEF Accept
<1>2. CASE NonBlockFails
  BY <1>2 DEF NonBlockFails
<1>3. CASE TakeId
  BY <1>3 DEF TakeId, NextId, Ids
<1>4. CASE MapErase
  BY <1>4 DEF MapErase
<1>5. CASE MapInsert
  BY <1>5 DEF MapInsert
<1>6. CASE ItemPop
  BY <1>6 DEF ItemPop
<1>7. CASE ItemAlloc
  <2>1. itemCount + 1 \in Items
    BY <1>7 DEF ItemAlloc, Items
  <2>2. itemCount' \in 0 .. MaxItems /\ mitem' + ITEMS_PER_ALLOC - 1 <= itemCount'
    BY <1>7 DEF ItemAlloc
  <2> QED  BY <1>7, <2>1, <2>2 DEF ItemAlloc
<1>8. CASE ItemLink
  <2>0. mitem \in Items /\ mitem + ITEMS_PER_ALLOC - 1 <= MaxItems
    BY <1>8 DEF ItemLink, Items
  <2>1. [i \in 1 .. ITEMS_PER_ALLOC - 1 |-> mitem + i] \in Seq(Items)
    BY <2>0, LinkedBlock
  <2>2. cqi_freelist' \in Seq(Items)
    BY <1>8, <2>1 DEF ItemLink
  <2> QED  BY <1>8, <2>2 DEF ItemLink
<1>9. CASE QueuePush
  <2>1. NextThread \in Workers
    BY NextThreadIsWorker
  <2>2. [sfd |-> msfd, id |-> id_] \in Payloads
    BY <1>9 DEF QueuePush, Payloads
  <2>3. Append(new_conn_queue[NextThread], mitem) \in Seq(Items)
    BY <1>9, <2>1 DEF QueuePush
  <2> QED  BY <1>9, <2>1, <2>2, <2>3 DEF QueuePush
<1>10. CASE Notify
  BY <1>10 DEF Notify
<1>11. CASE NotifyFails
  BY <1>11 DEF NotifyFails
<1>12. ASSUME NEW w \in Workers, ReadNotify(w) PROVE Typed'
  BY <1>12 DEF ReadNotify
<1>13. ASSUME NEW w \in Workers, QueuePop(w) PROVE Typed'
  <2>1. CASE new_conn_queue[w] = <<>>
    BY <1>13, <2>1 DEF QueuePop
  <2>2. CASE new_conn_queue[w] # <<>>
    <3>1. /\ Head(new_conn_queue[w]) \in Items
          /\ Tail(new_conn_queue[w]) \in Seq(Items)
      BY <2>2
    <3>2. /\ new_conn_queue' \in [Workers -> Seq(Items)]
          /\ witem' \in [Workers -> Items \cup {Nil}]
          /\ witem'[w] \in Items
      <4>1. /\ new_conn_queue \in [Workers -> Seq(Items)]
            /\ witem \in [Workers -> Items \cup {Nil}]
            /\ new_conn_queue' = [new_conn_queue EXCEPT ![w] = Tail(new_conn_queue[w])]
            /\ witem' = [witem EXCEPT ![w] = Head(new_conn_queue[w])]
        BY <1>13, <2>2 DEF QueuePop
      <4> HIDE DEF Typed
      <4> QED  BY <4>1, <3>1
    <3>3. TypeOK'
      BY <1>13, <2>2, <3>2 DEF QueuePop
    <3>4. MasterControl'
      BY <1>13, <2>2 DEF QueuePop
    <3>5. WorkerControl'
      BY <1>13, <2>2, <3>2 DEF QueuePop
    <3> QED  BY <3>3, <3>4, <3>5
  <2> QED  BY <2>1, <2>2
<1>14. ASSUME NEW w \in Workers, ConnFromFreelist(w) PROVE Typed'
  BY <1>14 DEF ConnFromFreelist
<1>15. ASSUME NEW w \in Workers, ConnAlloc(w) PROVE Typed'
  <2>1. connCount + 1 \in Conns
    BY <1>15 DEF ConnAlloc, Conns
  <2>2. connCount + 1 \in 0 .. MaxConns
    BY <1>15 DEF ConnAlloc
  <2> QED  BY <1>15, <2>1, <2>2 DEF ConnAlloc
<1>16. ASSUME NEW w \in Workers, ConnAllocFails(w) PROVE Typed'
  BY <1>16 DEF ConnAllocFails
<1>17. ASSUME NEW w \in Workers, BevNew(w) PROVE Typed'
  <2>1. item[witem[w]] \in Payloads /\ wconn[w] \in Conns
    BY <1>17 DEF BevNew
  <2>2. [base |-> w, sfd |-> item[witem[w]].sfd, arg |-> wconn[w]] \in Bevs
    BY <2>1 DEF Bevs, Payloads
  <2> QED  BY <1>17, <2>1, <2>2 DEF BevNew
<1>18. ASSUME NEW w \in Workers, BevNewFails(w) PROVE Typed'
  <2>1. wconn[w] \in Conns
    BY <1>18 DEF BevNewFails
  <2>2. /\ conn' \in [Conns -> Payloads]
        /\ vec_freeconn_' \in Seq(Conns)
        /\ freetotal_' \in Nat \ {0}
    BY <1>18, <2>1, AddToFreelistTyped DEF BevNewFails
  <2> QED  BY <1>18, <2>2 DEF BevNewFails
<1>19. ASSUME NEW w \in Workers, CloseSfd(w) PROVE Typed'
  BY <1>19 DEF CloseSfd
<1>20. ASSUME NEW w \in Workers, ItemFree(w) PROVE Typed'
  <2>1. witem[w] \in Items
    BY <1>20 DEF ItemFree
  <2>2. <<witem[w]>> \o cqi_freelist \in Seq(Items)
    BY <2>1
  <2> QED  BY <1>20, <2>1, <2>2, NoPayloadTyped DEF ItemFree
<1>21. ASSUME NEW w \in Workers, BevFree(w) PROVE Typed'
  BY <1>21 DEF BevFree
<1>22. ASSUME NEW w \in Workers, ConnFree(w) PROVE Typed'
  <2>1. wbev[w].arg \in Conns
    BY <1>22 DEF ConnFree, Bevs
  <2>2. /\ conn' \in [Conns -> Payloads]
        /\ vec_freeconn_' \in Seq(Conns)
        /\ freetotal_' \in Nat \ {0}
    BY <1>22, <2>1, AddToFreelistTyped DEF ConnFree
  <2> QED  BY <1>22, <2>2 DEF ConnFree
<1>23. ASSUME NEW w \in Workers, NEW b \in bevs, ErrorCb(w, b) PROVE Typed'
  BY <1>23 DEF ErrorCb
<1>24. CASE UNCHANGED vars
  BY <1>24 DEF vars
<1> QED
  BY <1>1, <1>2, <1>3, <1>4, <1>5, <1>6, <1>7, <1>8, <1>9, <1>10, <1>11, <1>12, <1>13, <1>14, <1>15, <1>16, <1>17, <1>18, <1>19, <1>20, <1>21, <1>22, <1>23, <1>24 DEF Next, MasterAfterAccept, WorkerContinues

\* ConnDispatch is type correct: every pointer a callback follows is one that
\* an earlier step of that callback stored.
THEOREM TypeCorrect == Spec => []TypeOK
<1>1. Typed => TypeOK
  BY DEF Typed
<1> QED  BY TypedInit, TypedNext, <1>1, PTL DEF Spec

\* The local variables of the callbacks are valid wherever they are used.
THEOREM TypedInvariant == Spec => []Typed
BY TypedInit, TypedNext, PTL DEF Spec

-----------------------------------------------------------------------------
(* The free list of conns.  Only conn_add_to_freelist makes it longer.      *)

\* No step takes freecurr_ beyond freetotal_: conn_add_to_freelist doubles the
\* vector before it stores into a full one.
LEMMA FreelistNext == Typed /\ FreelistInBounds /\ [Next]_vars => FreelistInBounds'
<1> SUFFICES ASSUME Typed, FreelistInBounds, [Next]_vars
             PROVE  FreelistInBounds'
  OBVIOUS
<1>1. ASSUME NEW c \in Conns, AddToFreelist(c) PROVE FreelistInBounds'
  BY <1>1 DEF Typed, TypeOK, FreelistInBounds, AddToFreelist
<1>2. ASSUME UNCHANGED <<vec_freeconn_, freetotal_>> PROVE FreelistInBounds'
  BY <1>2 DEF FreelistInBounds
<1>3. ASSUME NEW w \in Workers, ConnFromFreelist(w) PROVE FreelistInBounds'
  BY <1>3 DEF Typed, TypeOK, FreelistInBounds, ConnFromFreelist
<1>4. ASSUME NEW w \in Workers, BevNewFails(w) \/ ConnFree(w)
      PROVE  FreelistInBounds'
  <2>1. CASE BevNewFails(w)
    BY <1>1, <2>1 DEF Typed, WorkerControl, BevNewFails
  <2>2. CASE ConnFree(w)
    BY <1>1, <2>2 DEF Typed, WorkerControl, ConnFree, Bevs
  <2> QED  BY <1>4, <2>1, <2>2
<1>5. CASE MasterAfterAccept
  BY <1>2, <1>5 DEF MasterAfterAccept, NonBlockFails, TakeId, MapErase,
     MapInsert, ItemPop, ItemAlloc, ItemLink, QueuePush, Notify, NotifyFails,
     connVars
<1>6. ASSUME NEW f \in Fds, Accept(f) PROVE FreelistInBounds'
  BY <1>2, <1>6 DEF Accept, connVars
<1>7. ASSUME NEW w \in Workers, ReadNotify(w) \/ WorkerContinues(w)
      PROVE  FreelistInBounds'
  BY <1>2, <1>3, <1>4, <1>7 DEF WorkerContinues, ReadNotify, QueuePop,
     ConnAlloc, ConnAllocFails, BevNew, CloseSfd, ItemFree, BevFree, connVars
<1>8. ASSUME NEW w \in Workers, NEW b \in bevs, ErrorCb(w, b)
      PROVE  FreelistInBounds'
  BY <1>2, <1>8 DEF ErrorCb, connVars
<1>9. CASE UNCHANGED vars
  BY <1>2, <1>9 DEF vars, connVars
<1> QED  BY <1>5, <1>6, <1>7, <1>8, <1>9 DEF Next

\* vec_freeconn_.at(freecurr_++) never leaves the vector, whatever its initial
\* length and however many connections are closed.
THEOREM FreelistStaysInBounds == Spec => []FreelistInBounds
<1>1. Init => FreelistInBounds
  BY DEF Init, FreelistInBounds
<1> QED  BY <1>1, TypedInvariant, FreelistNext, PTL DEF Spec

-----------------------------------------------------------------------------
(* One byte for each connection.                                            *)

\* Steps that touch neither the queues nor the pipes, and do not begin or end
\* one of the two windows (the master about to write, the worker about to pop).
LEMMA BytesFrame ==
    ASSUME BytesMatchItems,
           UNCHANGED queueVars,
           (mpc' = "notify") <=> (mpc = "notify"),
           \A w \in Workers : (wpc'[w] = "pop") <=> (wpc[w] = "pop")
    PROVE  BytesMatchItems'
BY DEF BytesMatchItems, Unannounced, queueVars

\* Every step keeps bytes and items in balance: the push opens the master's
\* window, the write closes it, the read opens the worker's, the pop closes it.
LEMMA BytesNext == Typed /\ BytesMatchItems /\ [Next]_vars => BytesMatchItems'
<1> SUFFICES ASSUME Typed, BytesMatchItems, [Next]_vars
             PROVE  BytesMatchItems'
  OBVIOUS
<1> USE DEF Typed, TypeOK
<1>1. CASE QueuePush
  <2>1. NextThread \in Workers /\ last_thread' = NextThread
    BY <1>1, NextThreadIsWorker DEF QueuePush
  <2>2. ASSUME NEW v \in Workers
        PROVE  Len(new_conn_queue'[v]) =
                 IF v = NextThread THEN Len(new_conn_queue[v]) + 1
                 ELSE Len(new_conn_queue[v])
    <3>1. mitem \in Items /\ new_conn_queue[v] \in Seq(Items)
      BY <1>1 DEF QueuePush, MasterControl
    <3> QED  BY <1>1, <2>1, <3>1 DEF QueuePush
  <2>3. mpc = "push" /\ mpc' = "notify" /\ UNCHANGED <<pipe, notifyFails, wpc>>
    BY <1>1 DEF QueuePush, workerVars
  <2>4. ASSUME NEW v \in Workers PROVE Unannounced(v)' = Unannounced(v)
    <3>1. Len(new_conn_queue[v]) \in Nat /\ pipe[v] \in Nat
      OBVIOUS
    <3> HIDE DEF Typed
    <3> QED  BY <2>1, <2>2, <2>3, <3>1 DEF Unannounced
  <2> QED  BY <2>3, <2>4 DEF BytesMatchItems
<1>2. CASE Notify \/ NotifyFails
  <2>1. ASSUME NEW v \in Workers
        PROVE  /\ Len(new_conn_queue[v]) \in Nat
               /\ pipe[v] \in Nat
    OBVIOUS
  <2>2. last_thread \in Workers
    BY <1>2 DEF MasterControl, Notify, NotifyFails
  <2>3. CASE Notify
    <3>1. ASSUME NEW v \in Workers
          PROVE  pipe'[v] = IF v = last_thread THEN pipe[v] + 1 ELSE pipe[v]
      BY <2>2, <2>3 DEF Notify
    <3>2. /\ mpc = "notify" /\ mpc' = "accept"
          /\ UNCHANGED <<last_thread, new_conn_queue, notifyFails, wpc>>
      BY <2>3 DEF Notify, workerVars
    <3>3. ASSUME NEW v \in Workers PROVE Unannounced(v)' = Unannounced(v)
      BY <2>1, <2>2, <3>1, <3>2 DEF Unannounced
    <3> QED  BY <3>2, <3>3 DEF BytesMatchItems
  <2>4. CASE NotifyFails
    <3>1. /\ mpc = "notify" /\ mpc' = "accept"
          /\ notifyFails' = notifyFails + 1
          /\ UNCHANGED <<last_thread, new_conn_queue, pipe, wpc>>
      BY <2>4 DEF NotifyFails, workerVars
    <3>2. ASSUME NEW v \in Workers
          PROVE  /\ Unannounced(v) \in Int
                 /\ Unannounced(v)' = IF v = last_thread THEN Unannounced(v) + 1
                                      ELSE Unannounced(v)
      BY <2>1, <2>2, <3>1 DEF Unannounced
    <3>3. notifyFails \in Nat
      OBVIOUS
    <3>4. ASSUME NEW v \in Workers
          PROVE  0 <= Unannounced(v)' /\ Unannounced(v)' <= notifyFails'
      <4>1. 0 <= Unannounced(v) /\ Unannounced(v) <= notifyFails
        BY DEF BytesMatchItems
      <4>2. Unannounced(v)' \in {Unannounced(v), Unannounced(v) + 1}
        BY <3>2
      <4> QED  BY <3>1, <3>2, <3>3, <4>1, <4>2
    <3> QED  BY <3>4 DEF BytesMatchItems
  <2> QED  BY <1>2, <2>3, <2>4
<1>3. ASSUME NEW w \in Workers, ReadNotify(w) PROVE BytesMatchItems'
  <2>1. ASSUME NEW v \in Workers
        PROVE  /\ Len(new_conn_queue[v]) \in Nat
               /\ pipe[v] \in Nat
    OBVIOUS
  <2> QED
    BY <1>3, <2>1 DEF ReadNotify, BytesMatchItems, Unannounced, masterVars
<1>4. ASSUME NEW w \in Workers, QueuePop(w) PROVE BytesMatchItems'
  <2>1. ASSUME NEW v \in Workers
        PROVE  /\ new_conn_queue[v] \in Seq(Items)
               /\ Len(new_conn_queue[v]) \in Nat
               /\ pipe[v] \in Nat
    OBVIOUS
  <2>2. new_conn_queue[w] # <<>>
    <3>1. Unannounced(w) >= 0 /\ wpc[w] = "pop"
      BY <1>4 DEF QueuePop, BytesMatchItems
    <3>2. Len(new_conn_queue[w]) > 0
      BY <2>1, <3>1 DEF Unannounced
    <3> QED  BY <3>2
  <2>3. Len(Tail(new_conn_queue[w])) = Len(new_conn_queue[w]) - 1
    BY <2>1, <2>2
  <2>4. /\ wpc[w] = "pop"
        /\ wpc' = [wpc EXCEPT ![w] = "conn"]
        /\ new_conn_queue' = [new_conn_queue EXCEPT ![w] = Tail(@)]
        /\ UNCHANGED <<mpc, last_thread, pipe, notifyFails>>
    BY <1>4, <2>2 DEF QueuePop, masterVars
  <2>5. ASSUME NEW v \in Workers
        PROVE  /\ Len(new_conn_queue'[v]) = IF v = w THEN Len(new_conn_queue[v]) - 1
                                            ELSE Len(new_conn_queue[v])
               /\ wpc'[v] = IF v = w THEN "conn" ELSE wpc[v]
    <3>1. CASE v = w
      <4>1. new_conn_queue'[w] = Tail(new_conn_queue[w]) /\ wpc'[w] = "conn"
        BY <2>4
      <4> QED  BY <2>3, <3>1, <4>1
    <3>2. CASE v # w
      <4>1. new_conn_queue'[v] = new_conn_queue[v] /\ wpc'[v] = wpc[v]
        BY <2>4, <3>2
      <4> QED  BY <3>2, <4>1
    <3> QED  BY <3>1, <3>2
  <2>6. ASSUME NEW v \in Workers PROVE Unannounced(v)' = Unannounced(v)
    <3>1. /\ Len(new_conn_queue[v]) \in Nat /\ pipe[v] \in Nat
          /\ pipe'[v] = pipe[v] /\ mpc' = mpc /\ last_thread' = last_thread
      BY <2>1, <2>4
    <3>2. CASE v = w
      <4>1. /\ Len(new_conn_queue'[v]) = Len(new_conn_queue[v]) - 1
            /\ wpc[v] = "pop" /\ wpc'[v] = "conn"
        BY <2>4, <2>5, <3>2
      <4> QED  BY <3>1, <4>1 DEF Unannounced
    <3>3. CASE v # w
      <4>1. /\ Len(new_conn_queue'[v]) = Len(new_conn_queue[v])
            /\ wpc'[v] = wpc[v]
        BY <2>5, <3>3
      <4> QED  BY <3>1, <4>1 DEF Unannounced
    <3> QED  BY <3>2, <3>3
  <2> QED  BY <2>4, <2>6 DEF BytesMatchItems
<1>5. ASSUME NEW f \in Fds, Accept(f) PROVE BytesMatchItems'
  BY <1>5, BytesFrame DEF Accept, workerVars
<1>6. CASE NonBlockFails \/ TakeId \/ MapErase \/ MapInsert
  BY <1>6, BytesFrame
     DEF NonBlockFails, TakeId, MapErase, MapInsert, workerVars
<1>7. CASE ItemPop \/ ItemAlloc \/ ItemLink
  BY <1>7, BytesFrame DEF ItemPop, ItemAlloc, ItemLink, workerVars
<1>8. ASSUME NEW w \in Workers,
             ConnFromFreelist(w) \/ ConnAlloc(w) \/ ConnAllocFails(w)
               \/ BevNew(w) \/ BevNewFails(w)
      PROVE  BytesMatchItems'
  BY <1>8, BytesFrame DEF ConnFromFreelist, ConnAlloc, ConnAllocFails, BevNew,
     BevNewFails, masterVars
<1>9. ASSUME NEW w \in Workers,
             CloseSfd(w) \/ ItemFree(w) \/ BevFree(w) \/ ConnFree(w)
      PROVE  BytesMatchItems'
  BY <1>9, BytesFrame DEF CloseSfd, ItemFree, BevFree, ConnFree, masterVars
<1>10. ASSUME NEW w \in Workers, NEW b \in bevs, ErrorCb(w, b)
       PROVE  BytesMatchItems'
  BY <1>10, BytesFrame DEF ErrorCb, masterVars
<1>11. CASE UNCHANGED vars
  BY <1>11, BytesFrame DEF vars, masterVars, workerVars
<1> QED
  BY <1>1, <1>2, <1>3, <1>4, <1>5, <1>6, <1>7, <1>8, <1>9, <1>10, <1>11
     DEF Next, MasterAfterAccept, WorkerContinues

\* "a byte represents a connection": a worker that has read a byte finds an
\* item, and only a failed write leaves an item unannounced, for any number of
\* workers and connections and any size of the pipes.
THEOREM BytesMatchItemsAlways == Spec => []BytesMatchItems
<1>1. Init => BytesMatchItems
  BY DEF Init, BytesMatchItems, Unannounced
<1> QED  BY <1>1, TypedInvariant, BytesNext, PTL DEF Spec

-----------------------------------------------------------------------------
(* Ownership.  Items, conns and descriptors each are divided among a pool    *)
(* (or the bufferevents), the master and the workers.  The four ownership    *)
(* invariants need one another: an item must be in one place for the socket  *)
(* it names to be in one place, and a socket must be in one place for its    *)
(* map entry not to be overwritten by another connection.                    *)

\* The elements of U are divided among F, M and the sets W[w] of the workers.
Apart(F, M, W, U) ==
    /\ \A x \in F : x \notin M
    /\ \A w \in Workers : \A x \in W[w] : x \notin F /\ x \notin M
    /\ \A w, v \in Workers : \A x \in W[w] : x \in W[v] => w = v
    /\ \A x : x \in U <=> x \in F \/ x \in M \/ \E w \in Workers : x \in W[w]

\* Local variables a callback has left behind are cleared, and the bufferevent
\* whose error callback runs is one of the worker's own.
LocalsClear ==
    /\ mpc \in {"accept", "notify"} => msfd = NoFd
    /\ \A w \in Workers :
          IF wpc[w] \in {"connfree", "bevfree"}
          THEN wbev[w] \in bevs /\ wbev[w].base = w
          ELSE wbev[w] = NoBev

\* Items.
FreeItems   == Elems(cqi_freelist)
MasterItems == IF mpc = "link" THEN mitem .. mitem + ITEMS_PER_ALLOC - 1
               ELSE IF mpc = "push" THEN {mitem} ELSE {}
ItemInHand(w) == IF HoldsItem(w) THEN {witem[w]} ELSE {}
WorkerItems == [w \in Workers |-> Elems(new_conn_queue[w]) \cup ItemInHand(w)]

ItemPlaces ==
    /\ NoDuplicates(cqi_freelist)
    /\ \A w \in Workers :
          /\ NoDuplicates(new_conn_queue[w])
          /\ HoldsItem(w) => witem[w] \notin Elems(new_conn_queue[w])
    /\ Apart(FreeItems, MasterItems, WorkerItems, 1 .. itemCount)

\* Conns.
FreeConns    == Elems(vec_freeconn_)
ServingConns == {b.arg : b \in Hooked}
WorkerConns  ==
    [w \in Workers |-> IF wpc[w] = "bev" THEN {wconn[w]} ELSE {}]

ConnPlaces ==
    /\ NoDuplicates(vec_freeconn_)
    /\ \A b1, b2 \in Hooked : b1.arg = b2.arg => b1 = b2
    /\ Apart(FreeConns, ServingConns, WorkerConns, 1 .. connCount)

\* Descriptors.
ServingSfds == {b.sfd : b \in bevs}
MasterSfds  == IF msfd = NoFd THEN {} ELSE {msfd}
QueueSfds(w) == {item[i].sfd : i \in Elems(new_conn_queue[w])}
SfdInHand(w) == IF HoldsSfd(w) THEN {item[witem[w]].sfd} ELSE {}
WorkerSfds  == [w \in Workers |-> QueueSfds(w) \cup SfdInHand(w)]

SfdPlaces ==
    /\ \A b1, b2 \in bevs : b1.sfd = b2.sfd => b1 = b2
    /\ \A w \in Workers :
          /\ \A i, j \in Elems(new_conn_queue[w]) : item[i].sfd = item[j].sfd => i = j
          /\ HoldsSfd(w) => item[witem[w]].sfd \notin QueueSfds(w)
    /\ Apart(ServingSfds, MasterSfds, WorkerSfds, openFds)

\* The map: what MapNamesOwner says, and the hole erase has left for insert.
MasterMapped ==
    /\ mpc = "insert" => map_csfd_id_[msfd] = NoId
    /\ mpc \in {"item", "link", "push"} => map_csfd_id_[msfd] = id_
WorkersMapped ==
    \A w \in Workers :
        /\ \A i \in Elems(new_conn_queue[w]) : map_csfd_id_[item[i].sfd] = item[i].id
        /\ HoldsSfd(w) => map_csfd_id_[item[witem[w]].sfd] = item[witem[w]].id
BevsMapped ==
    \A b \in Hooked :
        /\ conn[b.arg].sfd = b.sfd
        /\ (\A w \in Workers : wbev[w] # b) => map_csfd_id_[b.sfd] = conn[b.arg].id

MapEntries == MasterMapped /\ WorkersMapped /\ BevsMapped

Ownership ==
    /\ Typed /\ LocalsClear
    /\ ItemPlaces /\ ConnPlaces /\ SfdPlaces /\ MapEntries

-----------------------------------------------------------------------------
(* The elements of the lists and queues.                                    *)

LEMMA ElemsTail ==
    ASSUME NEW S, NEW q \in Seq(S), q # <<>>, NoDuplicates(q)
    PROVE  /\ Head(q) \in Elems(q) /\ Tail(q) \in Seq(S) /\ NoDuplicates(Tail(q))
           /\ \A x : x \in Elems(Tail(q)) <=> x \in Elems(q) /\ x # Head(q)
<1>1. Len(q) \in Nat /\ Len(q) > 0
  OBVIOUS
<1>2. /\ Tail(q) \in Seq(S) /\ Len(Tail(q)) = Len(q) - 1
      /\ \A i \in 1 .. Len(q) - 1 : Tail(q)[i] = q[i + 1]
  BY <1>1
<1>3. Head(q) = q[1]
  BY <1>1
<1>4. Head(q) \in Elems(q)
  BY <1>1, <1>3 DEF Elems
<1>5. NoDuplicates(Tail(q))
  <2> SUFFICES ASSUME NEW a \in 1 .. Len(q) - 1, NEW b \in 1 .. Len(q) - 1,
                      Tail(q)[a] = Tail(q)[b]
               PROVE  a = b
    BY <1>2 DEF NoDuplicates
  <2>1. q[a + 1] = q[b + 1] /\ a + 1 \in 1 .. Len(q) /\ b + 1 \in 1 .. Len(q)
    BY <1>1, <1>2
  <2> QED  BY <2>1 DEF NoDuplicates
<1>6. ASSUME NEW x, x \in Elems(Tail(q)) PROVE x \in Elems(q) /\ x # Head(q)
  <2>1. PICK i \in 1 .. Len(q) - 1 : Tail(q)[i] = x
    BY <1>6, <1>2 DEF Elems
  <2>2. q[i + 1] = x /\ i + 1 \in 1 .. Len(q) /\ 1 \in 1 .. Len(q) /\ i + 1 # 1
    BY <2>1, <1>1, <1>2
  <2> QED  BY <2>2, <1>3 DEF Elems, NoDuplicates
<1>7. ASSUME NEW x, x \in Elems(q), x # Head(q) PROVE x \in Elems(Tail(q))
  <2>1. PICK i \in 1 .. Len(q) : q[i] = x
    BY <1>7 DEF Elems
  <2>2. i - 1 \in 1 .. Len(q) - 1
    BY <2>1, <1>1, <1>3, <1>7
  <2>3. Tail(q)[i - 1] = x
    BY <2>1, <2>2, <1>1, <1>2
  <2> QED  BY <2>2, <2>3, <1>2 DEF Elems
<1> QED  BY <1>2, <1>4, <1>5, <1>6, <1>7

LEMMA PrefixLen ==
    ASSUME NEW S, NEW q \in Seq(S), NEW n \in Nat, n <= Len(q)
    PROVE  Len(SubSeq(q, 1, n)) = n /\ \A i \in 1 .. n : SubSeq(q, 1, n)[i] = q[i]
<1>1. Len(SubSeq(q, 1, n)) = n
  OBVIOUS
<1>2. \A i \in 1 .. n : SubSeq(q, 1, n)[i] = q[i]
  OBVIOUS
<1> QED  BY <1>1, <1>2

LEMMA ElemsFront ==
    ASSUME NEW S, NEW q \in Seq(S), q # <<>>, NoDuplicates(q)
    PROVE  LET r == SubSeq(q, 1, Len(q) - 1)
               e == q[Len(q)]
           IN  /\ e \in Elems(q) /\ NoDuplicates(r)
               /\ \A x : x \in Elems(r) <=> x \in Elems(q) /\ x # e
<1> DEFINE r == SubSeq(q, 1, Len(q) - 1)
           e == q[Len(q)]
<1>1. Len(q) \in Nat /\ Len(q) > 0
  OBVIOUS
<1>2. Len(r) = Len(q) - 1 /\ \A i \in 1 .. Len(q) - 1 : r[i] = q[i]
  <2> DEFINE n == Len(q) - 1
  <2>1. n \in Nat /\ n <= Len(q)
    BY <1>1
  <2> HIDE DEF n
  <2>2. Len(SubSeq(q, 1, n)) = n /\ \A i \in 1 .. n : SubSeq(q, 1, n)[i] = q[i]
    BY <2>1, PrefixLen
  <2> QED  BY <2>2 DEF n
<1> HIDE DEF r
<1>3. e \in Elems(q)
  BY <1>1 DEF Elems
<1>4. NoDuplicates(r)
  BY <1>1, <1>2 DEF NoDuplicates
<1>5. ASSUME NEW x, x \in Elems(r) PROVE x \in Elems(q) /\ x # e
  <2>1. PICK i \in 1 .. Len(q) - 1 : r[i] = x
    BY <1>5, <1>2 DEF Elems
  <2>2. q[i] = x /\ i \in 1 .. Len(q) /\ Len(q) \in 1 .. Len(q) /\ i # Len(q)
    BY <2>1, <1>1, <1>2
  <2> QED  BY <2>2 DEF Elems, NoDuplicates
<1>6. ASSUME NEW x, x \in Elems(q), x # e PROVE x \in Elems(r)
  <2>1. PICK i \in 1 .. Len(q) : q[i] = x
    BY <1>6 DEF Elems
  <2>2. i \in 1 .. Len(q) - 1
    BY <2>1, <1>1, <1>6
  <2> QED  BY <2>1, <2>2, <1>2 DEF Elems
<1> QED  BY <1>3, <1>4, <1>5, <1>6 DEF r

LEMMA ElemsAppend ==
    ASSUME NEW S, NEW q \in Seq(S), NEW e \in S
    PROVE  /\ \A x : x \in Elems(Append(q, e)) <=> x \in Elems(q) \/ x = e
           /\ NoDuplicates(q) /\ e \notin Elems(q) => NoDuplicates(Append(q, e))
<1>1. /\ Len(q) \in Nat /\ Len(Append(q, e)) = Len(q) + 1
      /\ \A i \in 1 .. Len(q) : Append(q, e)[i] = q[i]
      /\ Append(q, e)[Len(q) + 1] = e
  OBVIOUS
<1>2. ASSUME NEW x, x \in Elems(Append(q, e)) PROVE x \in Elems(q) \/ x = e
  <2>1. PICK i \in 1 .. Len(q) + 1 : Append(q, e)[i] = x
    BY <1>2, <1>1 DEF Elems
  <2>2. i = Len(q) + 1 \/ i \in 1 .. Len(q)
    BY <1>1
  <2> QED  BY <2>1, <2>2, <1>1 DEF Elems
<1>3. ASSUME NEW x, x \in Elems(q) PROVE x \in Elems(Append(q, e))
  <2>1. PICK i \in 1 .. Len(q) : q[i] = x
    BY <1>3 DEF Elems
  <2>2. i \in 1 .. Len(q) + 1 /\ Append(q, e)[i] = x
    BY <2>1, <1>1
  <2> QED  BY <2>2, <1>1 DEF Elems
<1>4. e \in Elems(Append(q, e))
  <2>1. Len(q) + 1 \in 1 .. Len(q) + 1
    BY <1>1
  <2> QED  BY <2>1, <1>1 DEF Elems
<1>5. ASSUME NoDuplicates(q), e \notin Elems(q) PROVE NoDuplicates(Append(q, e))
  <2> SUFFICES ASSUME NEW a \in 1 .. Len(q) + 1, NEW b \in 1 .. Len(q) + 1,
                      Append(q, e)[a] = Append(q, e)[b]
               PROVE  a = b
    BY <1>1 DEF NoDuplicates
  <2>1. CASE a \in 1 .. Len(q) /\ b \in 1 .. Len(q)
    BY <2>1, <1>1, <1>5 DEF NoDuplicates
  <2>2. CASE a = Len(q) + 1 /\ b \in 1 .. Len(q)
    BY <2>2, <1>1, <1>5 DEF Elems
  <2>3. CASE b = Len(q) + 1 /\ a \in 1 .. Len(q)
    BY <2>3, <1>1, <1>5 DEF Elems
  <2> QED  BY <2>1, <2>2, <2>3, <1>1
<1> QED  BY <1>2, <1>3, <1>4, <1>5

LEMMA ElemsConcat ==
    ASSUME NEW S, NEW p \in Seq(S), NEW q \in Seq(S)
    PROVE  /\ \A x : x \in Elems(p \o q) <=> x \in Elems(p) \/ x \in Elems(q)
           /\ NoDuplicates(p) /\ NoDuplicates(q)
                /\ (\A x \in Elems(p) : x \notin Elems(q)) => NoDuplicates(p \o q)
<1>1. /\ Len(p) \in Nat /\ Len(q) \in Nat /\ Len(p \o q) = Len(p) + Len(q)
      /\ \A i \in 1 .. Len(p) : (p \o q)[i] = p[i]
      /\ \A i \in Len(p) + 1 .. Len(p) + Len(q) : (p \o q)[i] = q[i - Len(p)]
  OBVIOUS
<1>2. \A i \in 1 .. Len(p) + Len(q) :
        \/ i \in 1 .. Len(p) /\ (p \o q)[i] = p[i]
        \/ /\ i > Len(p) /\ i - Len(p) \in 1 .. Len(q)
           /\ (p \o q)[i] = q[i - Len(p)]
  BY <1>1
<1>3. ASSUME NEW x, x \in Elems(p \o q) PROVE x \in Elems(p) \/ x \in Elems(q)
  <2>1. PICK i \in 1 .. Len(p) + Len(q) : (p \o q)[i] = x
    BY <1>3, <1>1 DEF Elems
  <2> QED  BY <2>1, <1>2 DEF Elems
<1>4. ASSUME NEW x, x \in Elems(p) PROVE x \in Elems(p \o q)
  <2>1. PICK i \in 1 .. Len(p) : p[i] = x
    BY <1>4 DEF Elems
  <2>2. i \in 1 .. Len(p) + Len(q) /\ (p \o q)[i] = x
    BY <2>1, <1>1
  <2> QED  BY <2>2, <1>1 DEF Elems
<1>5. ASSUME NEW x, x \in Elems(q) PROVE x \in Elems(p \o q)
  <2>1. PICK i \in 1 .. Len(q) : q[i] = x
    BY <1>5 DEF Elems
  <2>2. i + Len(p) \in Len(p) + 1 .. Len(p) + Len(q) /\ i + Len(p) - Len(p) = i
    BY <1>1
  <2>3. i + Len(p) \in 1 .. Len(p) + Len(q) /\ (p \o q)[i + Len(p)] = x
    BY <2>1, <2>2, <1>1
  <2> QED  BY <2>3, <1>1 DEF Elems
<1>6. ASSUME NoDuplicates(p), NoDuplicates(q), \A x \in Elems(p) : x \notin Elems(q)
      PROVE  NoDuplicates(p \o q)
  <2> SUFFICES ASSUME NEW a \in 1 .. Len(p) + Len(q), NEW b \in 1 .. Len(p) + Len(q),
                      (p \o q)[a] = (p \o q)[b]
               PROVE  a = b
    BY <1>1 DEF NoDuplicates
  <2>1. CASE a \in 1 .. Len(p) /\ b \in 1 .. Len(p)
    BY <2>1, <1>1, <1>6 DEF NoDuplicates
  <2>2. CASE a > Len(p) /\ b > Len(p)
    <3>1. /\ a - Len(p) \in 1 .. Len(q) /\ b - Len(p) \in 1 .. Len(q)
          /\ q[a - Len(p)] = q[b - Len(p)]
      BY <2>2, <1>1, <1>2
    <3>2. a - Len(p) = b - Len(p)
      BY <3>1, <1>6 DEF NoDuplicates
    <3> QED  BY <3>2, <1>1
  <2>3. CASE a \in 1 .. Len(p) /\ b > Len(p)
    <3>1. p[a] = q[b - Len(p)] /\ b - Len(p) \in 1 .. Len(q)
      BY <2>3, <1>1, <1>2
    <3> QED  BY <3>1, <2>3, <1>6 DEF Elems
  <2>4. CASE b \in 1 .. Len(p) /\ a > Len(p)
    <3>1. p[b] = q[a - Len(p)] /\ a - Len(p) \in 1 .. Len(q)
      BY <2>4, <1>1, <1>2
    <3> QED  BY <3>1, <2>4, <1>6 DEF Elems
  <2> QED  BY <2>1, <2>2, <2>3, <2>4, <1>1
<1> QED  BY <1>3, <1>4, <1>5, <1>6

-----------------------------------------------------------------------------
(* Items.                                                                   *)

LEMMA WorkerItemsDef ==
    ASSUME NEW w \in Workers
    PROVE  /\ WorkerItems[w] = Elems(new_conn_queue[w]) \cup ItemInHand(w)
           /\ WorkerItems'[w] = Elems(new_conn_queue'[w]) \cup ItemInHand(w)'
BY DEF WorkerItems

\* Steps outside the item's life, and steps of a callback that keeps its item.
LEMMA ItemFrame ==
    ASSUME ItemPlaces, UNCHANGED <<cqi_freelist, itemCount, new_conn_queue>>,
           MasterItems' = MasterItems,
           \A w \in Workers : HoldsItem(w)' = HoldsItem(w) /\ witem'[w] = witem[w]
    PROVE  ItemPlaces'
<1>1. \A w \in Workers : ItemInHand(w)' = ItemInHand(w)
  BY DEF ItemInHand
<1>2. WorkerItems' = WorkerItems
  BY <1>1 DEF WorkerItems
<1>3. Apart(FreeItems, MasterItems, WorkerItems, 1 .. itemCount)'
  BY <1>2 DEF ItemPlaces, FreeItems, Apart
<1> QED  BY <1>3 DEF ItemPlaces

LEMMA ItemPopStep ==
    ASSUME Typed, ItemPlaces, ItemPop
    PROVE  ItemPlaces'
<1> DEFINE h == Head(cqi_freelist)
<1>1. cqi_freelist \in Seq(Items) /\ cqi_freelist # <<>> /\ NoDuplicates(cqi_freelist)
  BY DEF Typed, TypeOK, ItemPop, ItemPlaces
<1>2. /\ h \in FreeItems /\ NoDuplicates(Tail(cqi_freelist))
      /\ \A x : x \in Elems(Tail(cqi_freelist)) <=> x \in FreeItems /\ x # h
  BY <1>1, ElemsTail DEF FreeItems
<1>3. /\ mitem' = h /\ cqi_freelist' = Tail(cqi_freelist) /\ mpc = "item"
      /\ mpc' = "push" /\ UNCHANGED <<itemCount, new_conn_queue, wpc, witem>>
  BY DEF ItemPop, queueVars, workerVars
<1> HIDE DEF h
<1>4. MasterItems = {} /\ MasterItems' = {h}
  BY <1>3 DEF MasterItems
<1>5. \A x : x \in FreeItems' <=> x \in FreeItems /\ x # h
  BY <1>2, <1>3 DEF FreeItems
<1>6. WorkerItems' = WorkerItems
  BY <1>3 DEF WorkerItems, ItemInHand, HoldsItem
<1>7. Apart(FreeItems, MasterItems, WorkerItems, 1 .. itemCount)'
  <2>1. Apart(FreeItems, MasterItems, WorkerItems, 1 .. itemCount)
    BY DEF ItemPlaces
  <2>2. Apart(FreeItems', MasterItems', WorkerItems, 1 .. itemCount)
    BY <2>1, <1>2, <1>4, <1>5 DEF Apart
  <2> QED  BY <2>2, <1>3, <1>6 DEF Apart
<1> QED  BY <1>2, <1>3, <1>7 DEF ItemPlaces, HoldsItem

LEMMA ItemAllocStep ==
    ASSUME Typed, ItemPlaces, ItemAlloc
    PROVE  ItemPlaces'
<1> DEFINE block == itemCount + 1 .. itemCount + ITEMS_PER_ALLOC
<1>1. /\ mitem' = itemCount + 1 /\ itemCount' = itemCount + ITEMS_PER_ALLOC
      /\ mpc = "item" /\ mpc' = "link"
      /\ UNCHANGED <<cqi_freelist, new_conn_queue, wpc, witem>>
  BY DEF ItemAlloc, queueVars, workerVars
<1>2. itemCount \in Nat
  BY DEF Typed, TypeOK
<1>3. MasterItems = {} /\ MasterItems' = block
  <2>1. MasterItems' = itemCount + 1 .. itemCount + 1 + ITEMS_PER_ALLOC - 1
    BY <1>1 DEF MasterItems
  <2>2. itemCount + 1 + ITEMS_PER_ALLOC - 1 = itemCount + ITEMS_PER_ALLOC
    BY <1>2
  <2> QED  BY <2>1, <2>2, <1>1 DEF MasterItems
<1>4. /\ \A x \in block : x \notin 1 .. itemCount
      /\ \A x : x \in 1 .. itemCount + ITEMS_PER_ALLOC <=> x \in 1 .. itemCount \/ x \in block
  BY <1>2
<1>5. WorkerItems' = WorkerItems /\ FreeItems' = FreeItems
  BY <1>1 DEF WorkerItems, ItemInHand, HoldsItem, FreeItems
<1> HIDE DEF block
<1>6. Apart(FreeItems, MasterItems, WorkerItems, 1 .. itemCount)'
  <2>1. Apart(FreeItems, {}, WorkerItems, 1 .. itemCount)
    BY <1>3 DEF ItemPlaces
  <2> DEFINE U == 1 .. itemCount
             V == 1 .. itemCount + ITEMS_PER_ALLOC
  <2>2. /\ \A x \in block : x \notin U
        /\ \A x : x \in V <=> x \in U \/ x \in block
    BY <1>4
  <2> HIDE DEF U, V
  <2>3. Apart(FreeItems, {}, WorkerItems, U)
    BY <2>1 DEF U
  <2>4. Apart(FreeItems, block, WorkerItems, V)
    BY <2>2, <2>3 DEF Apart
  <2> QED  BY <2>4, <1>1, <1>3, <1>5 DEF Apart, V
<1> QED  BY <1>1, <1>6 DEF ItemPlaces, HoldsItem

LEMMA ItemLinkStep ==
    ASSUME Typed, ItemPlaces, ItemLink
    PROVE  ItemPlaces'
<1> DEFINE s == [i \in 1 .. ITEMS_PER_ALLOC - 1 |-> mitem + i]
           block == mitem + 1 .. mitem + ITEMS_PER_ALLOC - 1
<1>1. /\ mpc = "link" /\ mpc' = "push" /\ cqi_freelist' = s \o cqi_freelist
      /\ UNCHANGED <<mitem, itemCount, new_conn_queue, wpc, witem>>
  BY DEF ItemLink, queueVars, workerVars
<1>2. /\ mitem \in Items /\ mitem + ITEMS_PER_ALLOC - 1 <= MaxItems /\ mitem \in Nat
      /\ cqi_freelist \in Seq(Items)
  BY <1>1 DEF Typed, TypeOK, MasterControl, Items
<1>3. s \in Seq(Items) /\ Len(s) = ITEMS_PER_ALLOC - 1
  <2>1. s \in Seq(Items)
    BY <1>2, LinkedBlock
  <2>2. ITEMS_PER_ALLOC - 1 \in Nat
    OBVIOUS
  <2>3. DOMAIN s = 1 .. ITEMS_PER_ALLOC - 1
    OBVIOUS
  <2> HIDE DEF s
  <2> QED  BY <2>1, <2>2, <2>3
<1>4. NoDuplicates(s)
  BY <1>2, <1>3 DEF NoDuplicates
<1>5. \A x : x \in Elems(s) <=> x \in block
  <2>1. ASSUME NEW x, x \in Elems(s) PROVE x \in block
    <3>1. PICK i \in 1 .. ITEMS_PER_ALLOC - 1 : s[i] = x
      BY <2>1, <1>3 DEF Elems
    <3>2. x = mitem + i
      BY <3>1
    <3> QED  BY <3>2, <1>2
  <2>2. ASSUME NEW x \in block PROVE x \in Elems(s)
    <3>1. x - mitem \in 1 .. ITEMS_PER_ALLOC - 1 /\ mitem + (x - mitem) = x
      BY <1>2
    <3>2. s[x - mitem] = x
      BY <3>1
    <3> QED  BY <3>1, <3>2, <1>3 DEF Elems
  <2> QED  BY <2>1, <2>2
<1>6. /\ MasterItems' = {mitem} /\ mitem \notin block
      /\ \A x : x \in MasterItems <=> x \in block \/ x = mitem
  BY <1>1, <1>2 DEF MasterItems
<1> HIDE DEF s, block
<1>7. Apart(FreeItems, MasterItems, WorkerItems, 1 .. itemCount)
  BY DEF ItemPlaces
<1>8. \A x : x \in FreeItems' <=> x \in FreeItems \/ x \in block
  BY <1>1, <1>2, <1>3, <1>5, ElemsConcat DEF FreeItems
<1>9. NoDuplicates(cqi_freelist')
  <2>1. \A x \in Elems(s) : x \notin Elems(cqi_freelist)
    BY <1>5, <1>6, <1>7 DEF Apart, FreeItems
  <2>2. NoDuplicates(cqi_freelist)
    BY DEF ItemPlaces
  <2> QED  BY <2>1, <2>2, <1>1, <1>2, <1>3, <1>4, ElemsConcat
<1>10. WorkerItems' = WorkerItems
  BY <1>1 DEF WorkerItems, ItemInHand, HoldsItem
<1>11. Apart(FreeItems, MasterItems, WorkerItems, 1 .. itemCount)'
  <2>1. Apart(FreeItems', {mitem}, WorkerItems, 1 .. itemCount)
    BY <1>6, <1>7, <1>8 DEF Apart
  <2> QED  BY <2>1, <1>1, <1>6, <1>10 DEF Apart
<1> QED  BY <1>1, <1>9, <1>11 DEF ItemPlaces, HoldsItem

LEMMA QueuePushItems ==
    ASSUME Typed, ItemPlaces, QueuePush
    PROVE  ItemPlaces'
<1> DEFINE n == NextThread
<1>1. /\ mpc = "push" /\ mpc' = "notify" /\ mitem \in Items /\ n \in Workers
      /\ new_conn_queue' = [new_conn_queue EXCEPT ![n] = Append(@, mitem)]
      /\ UNCHANGED <<cqi_freelist, itemCount, wpc, witem>>
  BY NextThreadIsWorker DEF QueuePush, workerVars, Typed, TypeOK, MasterControl
<1>2. new_conn_queue \in [Workers -> Seq(Items)]
  BY DEF Typed, TypeOK
<1> HIDE DEF n
<1>3. \A w \in Workers : new_conn_queue'[w] = IF w = n THEN Append(new_conn_queue[w], mitem)
                                            ELSE new_conn_queue[w]
  BY <1>1, <1>2
<1>4. MasterItems = {mitem} /\ MasterItems' = {}
  BY <1>1 DEF MasterItems
<1>5. Apart(FreeItems, {mitem}, WorkerItems, 1 .. itemCount)
  BY <1>4 DEF ItemPlaces
<1>6. \A w \in Workers : \A x : x \in Elems(new_conn_queue'[w])
                              <=> x \in Elems(new_conn_queue[w]) \/ (w = n /\ x = mitem)
  <2> SUFFICES ASSUME NEW w \in Workers
               PROVE  \A x : x \in Elems(new_conn_queue'[w])
                              <=> x \in Elems(new_conn_queue[w]) \/ (w = n /\ x = mitem)
    OBVIOUS
  <2>1. \A x : x \in Elems(Append(new_conn_queue[w], mitem))
                 <=> x \in Elems(new_conn_queue[w]) \/ x = mitem
    BY <1>1, <1>2, ElemsAppend
  <2> QED  BY <2>1, <1>3
<1>7. \A w \in Workers : ItemInHand(w)' = ItemInHand(w)
  BY <1>1 DEF ItemInHand, HoldsItem
<1>8. \A w \in Workers : \A x : x \in WorkerItems'[w]
                              <=> x \in WorkerItems[w] \/ (w = n /\ x = mitem)
  BY <1>6, <1>7, WorkerItemsDef
<1>9. Apart(FreeItems, MasterItems, WorkerItems, 1 .. itemCount)'
  <2>1. Apart(FreeItems, {}, WorkerItems', 1 .. itemCount)
    BY <1>1, <1>5, <1>8 DEF Apart
  <2> QED  BY <2>1, <1>1, <1>4 DEF Apart, FreeItems
<1>10. \A w \in Workers : mitem \notin WorkerItems[w]
  BY <1>5 DEF Apart
<1>11. ASSUME NEW w \in Workers
       PROVE  /\ NoDuplicates(new_conn_queue'[w])
              /\ HoldsItem(w)' => witem'[w] \notin Elems(new_conn_queue'[w])
  <2>1. mitem \notin Elems(new_conn_queue[w]) /\ mitem \notin ItemInHand(w)
    BY <1>10, WorkerItemsDef
  <2>2. NoDuplicates(new_conn_queue[w])
    BY DEF ItemPlaces
  <2>3. NoDuplicates(Append(new_conn_queue[w], mitem))
    BY <2>1, <2>2, <1>1, <1>2, ElemsAppend
  <2>4. HoldsItem(w)' => HoldsItem(w) /\ witem'[w] = witem[w] /\ witem[w] # mitem
    BY <2>1, <1>1 DEF HoldsItem, ItemInHand
  <2> QED  BY <2>2, <2>3, <2>4, <1>3, <1>6 DEF ItemPlaces
<1> QED  BY <1>1, <1>9, <1>11 DEF ItemPlaces

LEMMA QueuePopItems ==
    ASSUME Typed, ItemPlaces, NEW w \in Workers, QueuePop(w)
    PROVE  ItemPlaces'
<1> DEFINE q == new_conn_queue[w]
           h == Head(q)
<1>1. /\ new_conn_queue \in [Workers -> Seq(Items)] /\ wpc[w] = "pop"
      /\ wpc \in [Workers -> WorkerSteps] /\ witem \in [Workers -> Items \cup {Nil}]
  BY DEF Typed, TypeOK, QueuePop
<1>2. /\ UNCHANGED <<cqi_freelist, itemCount>> /\ MasterItems' = MasterItems
  BY DEF QueuePop, itemVars, masterVars, MasterItems
<1>3. CASE q = <<>>
  <2>1. UNCHANGED <<new_conn_queue, witem>> /\ wpc' = [wpc EXCEPT ![w] = "loop"]
    BY <1>3 DEF QueuePop
  <2>2. \A v \in Workers : HoldsItem(v)' = HoldsItem(v)
    BY <2>1, <1>1 DEF HoldsItem
  <2> QED  BY <2>1, <2>2, <1>2, ItemFrame
<1>4. CASE q # <<>>
  <2>1. /\ witem' = [witem EXCEPT ![w] = h]
        /\ new_conn_queue' = [new_conn_queue EXCEPT ![w] = Tail(q)]
        /\ wpc' = [wpc EXCEPT ![w] = "conn"]
    BY <1>4 DEF QueuePop
  <2>2. /\ h \in Elems(q) /\ NoDuplicates(Tail(q))
        /\ \A x : x \in Elems(Tail(q)) <=> x \in Elems(q) /\ x # h
    BY <1>1, <1>4, ElemsTail DEF ItemPlaces
  <2>3. /\ \A v \in Workers : v # w => /\ new_conn_queue'[v] = new_conn_queue[v]
                                       /\ witem'[v] = witem[v] /\ wpc'[v] = wpc[v]
        /\ new_conn_queue'[w] = Tail(q) /\ witem'[w] = h /\ wpc'[w] = "conn"
    BY <2>1, <1>1
  <2> HIDE DEF h
  <2>4. ASSUME NEW v \in Workers, v # w
        PROVE  ItemInHand(v)' = ItemInHand(v) /\ HoldsItem(v)' = HoldsItem(v)
    BY <2>3, <2>4 DEF ItemInHand, HoldsItem
  <2>5. ItemInHand(w) = {} /\ ItemInHand(w)' = {h} /\ HoldsItem(w)'
    BY <2>3, <1>1 DEF ItemInHand, HoldsItem
  <2>6. \A v \in Workers : WorkerItems'[v] = WorkerItems[v]
    <3> SUFFICES ASSUME NEW v \in Workers PROVE WorkerItems'[v] = WorkerItems[v]
      OBVIOUS
    <3>1. CASE v = w
      <4>1. /\ WorkerItems[w] = Elems(q) \cup {}
            /\ WorkerItems'[w] = Elems(Tail(q)) \cup {h}
        BY <2>3, <2>5, WorkerItemsDef
      <4>2. Elems(Tail(q)) \cup {h} = Elems(q) \cup {}
        BY <2>2
      <4> QED  BY <4>1, <4>2, <3>1
    <3>2. CASE v # w
      BY <3>2, <2>3, <2>4, WorkerItemsDef
    <3> QED  BY <3>1, <3>2
  <2>7. Apart(FreeItems, MasterItems, WorkerItems, 1 .. itemCount)'
    <3>1. Apart(FreeItems, MasterItems, WorkerItems, 1 .. itemCount)
      BY DEF ItemPlaces
    <3>2. Apart(FreeItems, MasterItems, WorkerItems', 1 .. itemCount)
      BY <3>1, <2>6 DEF Apart
    <3> QED  BY <3>2, <1>2 DEF Apart, FreeItems
  <2>8. ASSUME NEW v \in Workers
        PROVE  /\ NoDuplicates(new_conn_queue'[v])
               /\ HoldsItem(v)' => witem'[v] \notin Elems(new_conn_queue'[v])
    <3>1. CASE v = w
      BY <3>1, <2>2, <2>3
    <3>2. CASE v # w
      BY <3>2, <2>3, <2>4 DEF ItemPlaces
    <3> QED  BY <3>1, <3>2
  <2> QED  BY <2>7, <2>8, <1>2 DEF ItemPlaces
<1> QED  BY <1>3, <1>4

LEMMA ItemFreeItems ==
    ASSUME Typed, ItemPlaces, NEW w \in Workers, ItemFree(w)
    PROVE  ItemPlaces'
<1> DEFINE h == witem[w]
<1>1. /\ wpc[w] = "itemfree" /\ h \in Items
      /\ wpc \in [Workers -> WorkerSteps] /\ witem \in [Workers -> Items \cup {Nil}]
      /\ cqi_freelist \in Seq(Items)
  BY DEF Typed, TypeOK, WorkerControl, HoldsItem, ItemFree
<1>2. /\ UNCHANGED <<itemCount, new_conn_queue>> /\ MasterItems' = MasterItems
      /\ cqi_freelist' = <<h>> \o cqi_freelist
      /\ witem' = [witem EXCEPT ![w] = Nil] /\ wpc' = [wpc EXCEPT ![w] = "loop"]
  BY DEF ItemFree, masterVars, queueVars, MasterItems
<1> HIDE DEF h
<1>3. <<h>> \in Seq(Items) /\ NoDuplicates(<<h>>) /\ \A x : x \in Elems(<<h>>) <=> x = h
  BY <1>1 DEF NoDuplicates, Elems
<1>4. \A v \in Workers : v # w => ItemInHand(v)' = ItemInHand(v) /\ HoldsItem(v)' = HoldsItem(v)
                                   /\ witem'[v] = witem[v]
  BY <1>1, <1>2 DEF ItemInHand, HoldsItem
<1>5. ItemInHand(w) = {h} /\ ItemInHand(w)' = {} /\ ~HoldsItem(w)' /\ HoldsItem(w)
  BY <1>1, <1>2 DEF ItemInHand, HoldsItem, h
<1>6. h \notin Elems(new_conn_queue[w]) /\ h \in WorkerItems[w]
  BY <1>5, WorkerItemsDef DEF ItemPlaces, h
<1>7. \A v \in Workers : \A x : x \in WorkerItems'[v]
                              <=> x \in WorkerItems[v] /\ ~(v = w /\ x = h)
  <2> SUFFICES ASSUME NEW v \in Workers
               PROVE  \A x : x \in WorkerItems'[v]
                              <=> x \in WorkerItems[v] /\ ~(v = w /\ x = h)
    OBVIOUS
  <2>1. CASE v = w
    BY <2>1, <1>2, <1>5, <1>6, WorkerItemsDef
  <2>2. CASE v # w
    BY <2>2, <1>2, <1>4, WorkerItemsDef
  <2> QED  BY <2>1, <2>2
<1>8. Apart(FreeItems, MasterItems, WorkerItems, 1 .. itemCount)
  BY DEF ItemPlaces
<1>9. h \notin FreeItems /\ h \notin MasterItems
  BY <1>6, <1>8 DEF Apart
<1>10. NoDuplicates(cqi_freelist')
  <2>1. NoDuplicates(cqi_freelist) /\ \A x \in Elems(<<h>>) : x \notin Elems(cqi_freelist)
    BY <1>3, <1>9 DEF ItemPlaces, FreeItems
  <2> QED  BY <2>1, <1>1, <1>2, <1>3, ElemsConcat
<1>11. \A x : x \in FreeItems' <=> x \in FreeItems \/ x = h
  BY <1>1, <1>2, <1>3, ElemsConcat DEF FreeItems
<1>12. Apart(FreeItems, MasterItems, WorkerItems, 1 .. itemCount)'
  <2>1. Apart(FreeItems', MasterItems, WorkerItems', 1 .. itemCount)
    BY <1>6, <1>7, <1>8, <1>9, <1>11 DEF Apart
  <2> QED  BY <2>1, <1>2 DEF Apart
<1>13. ASSUME NEW v \in Workers
       PROVE  /\ NoDuplicates(new_conn_queue'[v])
              /\ HoldsItem(v)' => witem'[v] \notin Elems(new_conn_queue'[v])
  BY <1>2, <1>4, <1>5 DEF ItemPlaces
<1> QED  BY <1>10, <1>12, <1>13 DEF ItemPlaces

LEMMA ItemNext ==
    ASSUME Typed, ItemPlaces, [Next]_vars
    PROVE  ItemPlaces'
<1>1. ASSUME UNCHANGED <<cqi_freelist, itemCount, new_conn_queue, witem>>,
             MasterItems' = MasterItems,
             \A v \in Workers : HoldsItem(v)' = HoldsItem(v)
      PROVE  ItemPlaces'
  BY <1>1, ItemFrame
<1> USE DEF masterVars, queueVars, itemVars, workerVars
<1>2. ASSUME NEW f \in Fds, Accept(f) PROVE ItemPlaces'
  BY <1>1, <1>2 DEF Accept, MasterItems, HoldsItem
<1>3. CASE NonBlockFails \/ TakeId \/ MapErase \/ MapInsert \/ Notify \/ NotifyFails
  BY <1>1, <1>3 DEF NonBlockFails, TakeId, MapErase, MapInsert, Notify,
     NotifyFails, MasterItems, HoldsItem
<1>4. ASSUME NEW w \in Workers,
             ReadNotify(w) \/ BevFree(w) \/ ConnFree(w) \/ \E b \in bevs : ErrorCb(w, b)
      PROVE  ItemPlaces'
  <2>1. \A v \in Workers : HoldsItem(v)' = HoldsItem(v)
    BY <1>4 DEF ReadNotify, BevFree, ConnFree, ErrorCb, HoldsItem, Typed, TypeOK
  <2> QED  BY <1>1, <1>4, <2>1 DEF ReadNotify, BevFree, ConnFree, ErrorCb, MasterItems
<1>5. ASSUME NEW w \in Workers,
             ConnFromFreelist(w) \/ ConnAlloc(w) \/ ConnAllocFails(w)
               \/ BevNew(w) \/ BevNewFails(w) \/ CloseSfd(w)
      PROVE  ItemPlaces'
  <2>1. \A v \in Workers : HoldsItem(v)' = HoldsItem(v)
    BY <1>5 DEF ConnFromFreelist, ConnAlloc, ConnAllocFails, BevNew, BevNewFails,
       CloseSfd, HoldsItem, Typed, TypeOK
  <2> QED  BY <1>1, <1>5, <2>1 DEF ConnFromFreelist, ConnAlloc, ConnAllocFails,
              BevNew, BevNewFails, CloseSfd, MasterItems
<1>6. CASE UNCHANGED vars
  BY <1>1, <1>6 DEF vars, MasterItems, HoldsItem
<1> QED
  BY <1>2, <1>3, <1>4, <1>5, <1>6, ItemPopStep, ItemAllocStep, ItemLinkStep,
     QueuePushItems, QueuePopItems, ItemFreeItems
     DEF Next, MasterAfterAccept, WorkerContinues

-----------------------------------------------------------------------------
(* Local variables.                                                         *)

\* A bufferevent is freed by the worker it lives on, so no other worker is
\* inside its error callback.
LEMMA LocalsNext ==
    ASSUME Typed, LocalsClear, [Next]_vars
    PROVE  LocalsClear'
<1> USE DEF LocalsClear, masterVars, workerVars
<1>1. /\ wpc \in [Workers -> WorkerSteps] /\ wbev \in [Workers -> Bevs \cup {NoBev}]
      /\ bevs \subseteq Bevs
  BY DEF Typed, TypeOK
<1>2. ASSUME NEW f \in Fds, Accept(f) PROVE LocalsClear'
  BY <1>2 DEF Accept
<1>3. CASE MasterAfterAccept
  BY <1>3 DEF MasterAfterAccept, NonBlockFails, TakeId, MapErase, MapInsert,
     ItemPop, ItemAlloc, ItemLink, QueuePush, Notify, NotifyFails
<1>4. ASSUME NEW w \in Workers,
             \/ ReadNotify(w) \/ QueuePop(w) \/ ConnFromFreelist(w)
             \/ ConnAlloc(w) \/ ConnAllocFails(w) \/ BevNewFails(w)
             \/ CloseSfd(w) \/ ItemFree(w) \/ ConnFree(w)
      PROVE  LocalsClear'
  <2>1. /\ wpc[w] \in {"connfree", "bevfree"} <=> wpc'[w] \in {"connfree", "bevfree"}
        /\ \A v \in Workers : v # w => wpc'[v] = wpc[v]
        /\ UNCHANGED <<bevs, wbev, mpc, msfd>>
    BY <1>1, <1>4 DEF ReadNotify, QueuePop, ConnFromFreelist, ConnAlloc,
       ConnAllocFails, BevNewFails, CloseSfd, ItemFree, ConnFree
  <2> QED  BY <2>1
<1>5. ASSUME NEW w \in Workers, BevNew(w) PROVE LocalsClear'
  <2>1. /\ wpc[w] \notin {"connfree", "bevfree"} /\ wpc'[w] \notin {"connfree", "bevfree"}
        /\ \A v \in Workers : v # w => wpc'[v] = wpc[v]
        /\ UNCHANGED <<wbev, mpc, msfd>> /\ bevs \subseteq bevs'
    BY <1>1, <1>5 DEF BevNew
  <2> QED  BY <2>1
<1>6. ASSUME NEW w \in Workers, BevFree(w) PROVE LocalsClear'
  <2>1. /\ wpc[w] = "bevfree" /\ wpc'[w] = "loop" /\ wbev'[w] = NoBev
        /\ \A v \in Workers : v # w => wpc'[v] = wpc[v] /\ wbev'[v] = wbev[v]
        /\ UNCHANGED <<mpc, msfd>> /\ bevs' = bevs \ {wbev[w]}
    BY <1>1, <1>6 DEF BevFree
  <2>2. \A v \in Workers :
           v # w /\ wpc[v] \in {"connfree", "bevfree"} => wbev[v] # wbev[w]
    BY <2>1
  <2> QED  BY <2>1, <2>2
<1>7. ASSUME NEW w \in Workers, NEW b \in bevs, ErrorCb(w, b) PROVE LocalsClear'
  <2>1. /\ b.base = w /\ wpc'[w] = "connfree" /\ wbev'[w] = b
        /\ \A v \in Workers : v # w => wpc'[v] = wpc[v] /\ wbev'[v] = wbev[v]
        /\ UNCHANGED <<mpc, msfd, bevs>>
    BY <1>1, <1>7 DEF ErrorCb
  <2> QED  BY <2>1
<1>8. CASE UNCHANGED vars
  BY <1>8 DEF vars
<1> QED
  BY <1>2, <1>3, <1>4, <1>5, <1>6, <1>7, <1>8 DEF Next, WorkerContinues

-----------------------------------------------------------------------------
(* Conns.                                                                   *)

LEMMA WorkerConnsDef ==
    ASSUME NEW w \in Workers
    PROVE  /\ WorkerConns[w] = IF wpc[w] = "bev" THEN {wconn[w]} ELSE {}
           /\ WorkerConns'[w] = IF wpc'[w] = "bev" THEN {wconn'[w]} ELSE {}
BY DEF WorkerConns

\* Steps that neither make, unhook nor drop a bufferevent.
LEMMA HookedFrame ==
    ASSUME UNCHANGED <<bevs, wbev>>,
           \A w \in Workers : wpc'[w] = "bevfree" <=> wpc[w] = "bevfree"
    PROVE  Hooked' = Hooked
BY DEF Hooked

\* The error callback of one of these bufferevents has only begun.
LEMMA HookedErrorCb ==
    ASSUME Typed, LocalsClear, NEW w \in Workers, \E b \in bevs : ErrorCb(w, b)
    PROVE  Hooked' = Hooked
<1>1. /\ bevs' = bevs
      /\ \A v \in Workers : /\ wpc'[v] = "bevfree" <=> wpc[v] = "bevfree"
                            /\ wpc[v] = "bevfree" => wbev'[v] = wbev[v]
  BY DEF ErrorCb, Typed, TypeOK
<1> QED  BY <1>1 DEF Hooked

\* conn_new makes one more, which no worker is freeing.
LEMMA HookedBevNew ==
    ASSUME Typed, LocalsClear, NEW w \in Workers, NEW b, bevs' = bevs \cup {b},
           b.base = w, wpc[w] = "bev", wpc' = [wpc EXCEPT ![w] = "itemfree"], wbev' = wbev
    PROVE  Hooked' = Hooked \cup {b}
<1>1. \A v \in Workers : wpc'[v] = "bevfree" <=> wpc[v] = "bevfree"
  BY DEF Typed, TypeOK
<1>2. \A v \in Workers : wpc[v] = "bevfree" => wbev[v] # b
  BY DEF LocalsClear
<1> QED  BY <1>1, <1>2 DEF Hooked

\* conn_close unhooks one.
LEMMA HookedConnFree ==
    ASSUME Typed, LocalsClear, NEW w \in Workers, ConnFree(w)
    PROVE  wbev[w] \in Hooked /\ Hooked' = Hooked \ {wbev[w]}
<1>1. /\ wpc[w] = "connfree" /\ UNCHANGED <<bevs, wbev>> /\ wpc'[w] = "bevfree"
      /\ \A v \in Workers : v # w => wpc'[v] = wpc[v]
  BY DEF ConnFree, Typed, TypeOK
<1>2. wbev[w] \in bevs /\ wbev[w].base = w
  BY <1>1 DEF LocalsClear
<1>3. \A v \in Workers : wpc[v] = "bevfree" => wbev[v] # wbev[w]
  BY <1>1, <1>2 DEF LocalsClear
<1>4. wbev[w] \in Hooked
  BY <1>2, <1>3 DEF Hooked
<1>5. \A b : b \in Hooked' <=> b \in Hooked /\ b # wbev[w]
  BY <1>1 DEF Hooked
<1> QED  BY <1>4, <1>5

\* The one that is dropped was unhooked before.
LEMMA HookedBevFree ==
    ASSUME Typed, LocalsClear, NEW w \in Workers, BevFree(w)
    PROVE  Hooked' = Hooked
<1>1. /\ wpc[w] = "bevfree" /\ bevs' = bevs \ {wbev[w]} /\ wpc'[w] = "loop"
      /\ \A v \in Workers : v # w => wpc'[v] = wpc[v] /\ wbev'[v] = wbev[v]
  BY DEF BevFree, Typed, TypeOK
<1>2. \A b : b \in Hooked' <=> b \in Hooked
  BY <1>1 DEF Hooked
<1> QED  BY <1>2

LEMMA ConnFrame ==
    ASSUME ConnPlaces, UNCHANGED <<vec_freeconn_, connCount>>, Hooked' = Hooked,
           \A w \in Workers : WorkerConns'[w] = WorkerConns[w]
    PROVE  ConnPlaces'
<1>1. Apart(FreeConns, ServingConns, WorkerConns, 1 .. connCount)
  BY DEF ConnPlaces
<1>2. Apart(FreeConns, ServingConns, WorkerConns', 1 .. connCount)
  BY <1>1 DEF Apart
<1>3. Apart(FreeConns, ServingConns, WorkerConns, 1 .. connCount)'
  BY <1>2 DEF Apart, FreeConns, ServingConns
<1> QED  BY <1>3 DEF ConnPlaces

LEMMA ConnFromFreelistConns ==
    ASSUME Typed, ConnPlaces, NEW w \in Workers, ConnFromFreelist(w)
    PROVE  ConnPlaces'
<1> DEFINE q == vec_freeconn_
           r == SubSeq(q, 1, Len(q) - 1)
           e == q[Len(q)]
<1>1. q \in Seq(Conns) /\ q # <<>> /\ NoDuplicates(q)
  BY DEF Typed, TypeOK, ConnFromFreelist, ConnPlaces
<1>2. /\ e \in Elems(q) /\ NoDuplicates(r)
      /\ \A x : x \in Elems(r) <=> x \in Elems(q) /\ x # e
  BY <1>1, ElemsFront
<1>3. /\ wpc \in [Workers -> WorkerSteps] /\ wconn \in [Workers -> Conns \cup {Nil}]
      /\ wpc[w] = "conn" /\ wpc' = [wpc EXCEPT ![w] = "bev"]
      /\ wconn' = [wconn EXCEPT ![w] = e] /\ vec_freeconn_' = r
      /\ UNCHANGED <<connCount, bevs, wbev>>
  BY DEF Typed, TypeOK, ConnFromFreelist
<1> HIDE DEF q, r, e
<1>8. Hooked' = Hooked
  BY <1>3, HookedFrame
<1>4. /\ wpc'[w] = "bev" /\ wconn'[w] = e
      /\ \A v \in Workers : v # w => wpc'[v] = wpc[v] /\ wconn'[v] = wconn[v]
  BY <1>3
<1>5. /\ WorkerConns[w] = {} /\ WorkerConns'[w] = {e}
      /\ \A v \in Workers : v # w => WorkerConns'[v] = WorkerConns[v]
  BY <1>3, <1>4, WorkerConnsDef
<1>6. \A x : x \in FreeConns' <=> x \in FreeConns /\ x # e
  BY <1>2, <1>3 DEF FreeConns, q
<1>7. Apart(FreeConns, ServingConns, WorkerConns, 1 .. connCount)'
  <2>1. Apart(FreeConns, ServingConns, WorkerConns, 1 .. connCount) /\ e \in FreeConns
    BY <1>2 DEF ConnPlaces, FreeConns, q
  <2>2. \A v \in Workers : \A x : x \in WorkerConns'[v]
                                <=> x \in WorkerConns[v] \/ (v = w /\ x = e)
    BY <1>5
  <2>3. Apart(FreeConns', ServingConns, WorkerConns', 1 .. connCount)
    BY <2>1, <2>2, <1>6 DEF Apart
  <2> QED  BY <2>3, <1>3, <1>8 DEF Apart, ServingConns
<1> QED  BY <1>2, <1>3, <1>7, <1>8 DEF ConnPlaces

LEMMA ConnAllocConns ==
    ASSUME Typed, ConnPlaces, NEW w \in Workers, ConnAlloc(w)
    PROVE  ConnPlaces'
<1> DEFINE e == connCount + 1
           U == 1 .. connCount
           V == 1 .. connCount + 1
<1>1. /\ wpc \in [Workers -> WorkerSteps] /\ wconn \in [Workers -> Conns \cup {Nil}]
      /\ connCount \in Nat /\ wpc[w] = "conn" /\ wpc' = [wpc EXCEPT ![w] = "bev"]
      /\ wconn' = [wconn EXCEPT ![w] = e] /\ connCount' = connCount + 1
      /\ UNCHANGED <<vec_freeconn_, bevs, wbev>>
  BY DEF Typed, TypeOK, ConnAlloc
<1>2. e \notin U /\ \A x : x \in V <=> x \in U \/ x = e
  BY <1>1
<1>3. Apart(FreeConns, ServingConns, WorkerConns, U)
  BY DEF ConnPlaces
<1> HIDE DEF e, U, V
<1>4. /\ wpc'[w] = "bev" /\ wconn'[w] = e
      /\ \A v \in Workers : v # w => wpc'[v] = wpc[v] /\ wconn'[v] = wconn[v]
  BY <1>1
<1>5. /\ WorkerConns[w] = {} /\ WorkerConns'[w] = {e}
      /\ \A v \in Workers : v # w => WorkerConns'[v] = WorkerConns[v]
  BY <1>1, <1>4, WorkerConnsDef
<1>6. Apart(FreeConns, ServingConns, WorkerConns', V)
  <2>1. \A v \in Workers : \A x : x \in WorkerConns'[v]
                                <=> x \in WorkerConns[v] \/ (v = w /\ x = e)
    BY <1>5
  <2> QED  BY <2>1, <1>2, <1>3 DEF Apart
<1>8. Hooked' = Hooked
  BY <1>1, HookedFrame
<1>7. Apart(FreeConns, ServingConns, WorkerConns, 1 .. connCount)'
  BY <1>1, <1>6, <1>8 DEF Apart, FreeConns, ServingConns, V
<1> QED  BY <1>1, <1>7, <1>8 DEF ConnPlaces

LEMMA BevNewConns ==
    ASSUME Typed, LocalsClear, ConnPlaces, NEW w \in Workers, BevNew(w)
    PROVE  ConnPlaces'
<1> DEFINE e == wconn[w]
           b == [base |-> w, sfd |-> item[witem[w]].sfd, arg |-> e]
<1>1. /\ wpc \in [Workers -> WorkerSteps] /\ wconn \in [Workers -> Conns \cup {Nil}]
      /\ wpc[w] = "bev" /\ wpc' = [wpc EXCEPT ![w] = "itemfree"]
      /\ wconn' = [wconn EXCEPT ![w] = Nil]
      /\ bevs' = bevs \cup {b} /\ UNCHANGED <<vec_freeconn_, connCount, wbev>>
  BY DEF Typed, TypeOK, BevNew
<1>2. b.arg = e /\ b.base = w
  OBVIOUS
<1> HIDE DEF b
<1>9. Hooked' = Hooked \cup {b}
  BY <1>1, <1>2, HookedBevNew
<1>3. /\ wpc'[w] = "itemfree"
      /\ \A v \in Workers : v # w => wpc'[v] = wpc[v] /\ wconn'[v] = wconn[v]
  BY <1>1
<1>4. /\ WorkerConns[w] = {e} /\ WorkerConns'[w] = {}
      /\ \A v \in Workers : v # w => WorkerConns'[v] = WorkerConns[v]
  BY <1>1, <1>3, WorkerConnsDef
<1> HIDE DEF e
<1>5. Apart(FreeConns, ServingConns, WorkerConns, 1 .. connCount)
  BY DEF ConnPlaces
<1>6. \A x : x \in ServingConns' <=> x \in ServingConns \/ x = e
  BY <1>2, <1>9 DEF ServingConns
<1>7. Apart(FreeConns, ServingConns, WorkerConns, 1 .. connCount)'
  <2>1. \A v \in Workers : \A x : x \in WorkerConns'[v]
                                <=> x \in WorkerConns[v] /\ ~(v = w /\ x = e)
    BY <1>4
  <2>2. e \in WorkerConns[w]
    BY <1>4
  <2>3. Apart(FreeConns, ServingConns', WorkerConns', 1 .. connCount)
    BY <2>1, <2>2, <1>5, <1>6 DEF Apart
  <2> QED  BY <2>3, <1>1 DEF Apart, FreeConns
<1>8. \A b1, b2 \in Hooked' : b1.arg = b2.arg => b1 = b2
  <2>1. e \notin ServingConns
    BY <1>4, <1>5 DEF Apart
  <2>2. \A b1 \in Hooked : b1.arg # e
    BY <2>1 DEF ServingConns
  <2> QED  BY <2>2, <1>2, <1>9 DEF ConnPlaces
<1> QED  BY <1>1, <1>7, <1>8 DEF ConnPlaces

LEMMA BevNewFailsConns ==
    ASSUME Typed, ConnPlaces, NEW w \in Workers, BevNewFails(w)
    PROVE  ConnPlaces'
<1> DEFINE e == wconn[w]
           q == vec_freeconn_
<1>1. /\ wpc \in [Workers -> WorkerSteps] /\ wconn \in [Workers -> Conns \cup {Nil}]
      /\ q \in Seq(Conns) /\ e \in Conns
      /\ wpc[w] = "bev" /\ wpc' = [wpc EXCEPT ![w] = "close"]
      /\ wconn' = [wconn EXCEPT ![w] = Nil]
      /\ vec_freeconn_' = Append(q, e) /\ UNCHANGED <<bevs, connCount, wbev>>
  BY DEF Typed, TypeOK, WorkerControl, BevNewFails, AddToFreelist
<1>2. /\ wpc'[w] = "close"
      /\ \A v \in Workers : v # w => wpc'[v] = wpc[v] /\ wconn'[v] = wconn[v]
  BY <1>1
<1>3. /\ WorkerConns[w] = {e} /\ WorkerConns'[w] = {}
      /\ \A v \in Workers : v # w => WorkerConns'[v] = WorkerConns[v]
  BY <1>1, <1>2, WorkerConnsDef
<1> HIDE DEF e, q
<1>9. Hooked' = Hooked
  BY <1>1, HookedFrame
<1>4. Apart(FreeConns, ServingConns, WorkerConns, 1 .. connCount)
  BY DEF ConnPlaces
<1>5. e \notin FreeConns
  BY <1>3, <1>4 DEF Apart
<1>6. NoDuplicates(vec_freeconn_')
  BY <1>1, <1>5, ElemsAppend DEF ConnPlaces, FreeConns, q
<1>7. \A x : x \in FreeConns' <=> x \in FreeConns \/ x = e
  BY <1>1, ElemsAppend DEF FreeConns, q
<1>8. Apart(FreeConns, ServingConns, WorkerConns, 1 .. connCount)'
  <2>1. \A v \in Workers : \A x : x \in WorkerConns'[v]
                                <=> x \in WorkerConns[v] /\ ~(v = w /\ x = e)
    BY <1>3
  <2>2. e \in WorkerConns[w]
    BY <1>3
  <2>3. Apart(FreeConns', ServingConns, WorkerConns', 1 .. connCount)
    BY <2>1, <2>2, <1>4, <1>7 DEF Apart
  <2> QED  BY <2>3, <1>1, <1>9 DEF Apart, ServingConns
<1> QED  BY <1>1, <1>6, <1>8, <1>9 DEF ConnPlaces

\* The conn of the bufferevent that is freed goes to the free list.
LEMMA ConnFreeConns ==
    ASSUME Typed, LocalsClear, ConnPlaces, NEW w \in Workers, ConnFree(w)
    PROVE  ConnPlaces'
<1> DEFINE b == wbev[w]
           e == b.arg
           q == vec_freeconn_
<1>1. /\ b \in Hooked /\ Hooked' = Hooked \ {b}
  BY HookedConnFree
<1>2. /\ q \in Seq(Conns) /\ e \in Conns
      /\ vec_freeconn_' = Append(q, e) /\ UNCHANGED <<connCount, wconn>>
  BY <1>1 DEF Typed, TypeOK, ConnFree, AddToFreelist, Hooked, Bevs
<1>3. \A v \in Workers : WorkerConns'[v] = WorkerConns[v]
  BY <1>2, WorkerConnsDef DEF ConnFree, Typed, TypeOK
<1>4. e \in ServingConns /\ \A x : x \in ServingConns' <=> x \in ServingConns /\ x # e
  BY <1>1 DEF ServingConns, ConnPlaces
<1> HIDE DEF b, e, q
<1>5. Apart(FreeConns, ServingConns, WorkerConns, 1 .. connCount)
  BY DEF ConnPlaces
<1>6. e \notin FreeConns
  BY <1>4, <1>5 DEF Apart
<1>7. NoDuplicates(vec_freeconn_')
  BY <1>2, <1>6, ElemsAppend DEF ConnPlaces, FreeConns, q
<1>8. \A x : x \in FreeConns' <=> x \in FreeConns \/ x = e
  BY <1>2, ElemsAppend DEF FreeConns, q
<1>9. Apart(FreeConns, ServingConns, WorkerConns, 1 .. connCount)'
  <2>1. Apart(FreeConns', ServingConns', WorkerConns, 1 .. connCount)
    BY <1>4, <1>5, <1>8 DEF Apart
  <2>2. Apart(FreeConns', ServingConns', WorkerConns', 1 .. connCount)
    BY <2>1, <1>3 DEF Apart
  <2> QED  BY <2>2, <1>2 DEF Apart
<1> QED  BY <1>1, <1>7, <1>9 DEF ConnPlaces

LEMMA ConnNext ==
    ASSUME Typed, LocalsClear, ConnPlaces, [Next]_vars
    PROVE  ConnPlaces'
<1> USE DEF connVars, workerVars
<1>1. ASSUME UNCHANGED <<vec_freeconn_, connCount, bevs, wpc, wconn, wbev>>
      PROVE  ConnPlaces'
  BY <1>1, HookedFrame, ConnFrame DEF WorkerConns
<1>2. ASSUME NEW f \in Fds, Accept(f) PROVE ConnPlaces'
  BY <1>1, <1>2 DEF Accept
<1>3. CASE MasterAfterAccept
  BY <1>1, <1>3 DEF MasterAfterAccept, NonBlockFails, TakeId, MapErase, MapInsert,
     ItemPop, ItemAlloc, ItemLink, QueuePush, Notify, NotifyFails
<1>4. ASSUME NEW w \in Workers,
             \/ ReadNotify(w) \/ QueuePop(w) \/ ConnAllocFails(w)
             \/ CloseSfd(w) \/ ItemFree(w) \/ BevFree(w) \/ \E b \in bevs : ErrorCb(w, b)
      PROVE  ConnPlaces'
  <2>1. /\ wpc[w] # "bev" /\ wpc'[w] # "bev"
        /\ \A v \in Workers : v # w => wpc'[v] = wpc[v]
        /\ UNCHANGED <<vec_freeconn_, connCount, wconn>>
    BY <1>4 DEF Typed, TypeOK, ReadNotify, QueuePop, ConnAllocFails, CloseSfd,
       ItemFree, BevFree, ErrorCb
  <2>2. \A v \in Workers : WorkerConns'[v] = WorkerConns[v]
    BY <2>1, WorkerConnsDef
  <2>3. Hooked' = Hooked
    <3>1. ReadNotify(w) \/ QueuePop(w) \/ ConnAllocFails(w) \/ CloseSfd(w) \/ ItemFree(w)
            => /\ UNCHANGED <<bevs, wbev>>
               /\ \A v \in Workers : wpc'[v] = "bevfree" <=> wpc[v] = "bevfree"
      BY DEF Typed, TypeOK, ReadNotify, QueuePop, ConnAllocFails, CloseSfd, ItemFree
    <3> QED  BY <1>4, <3>1, HookedFrame, HookedErrorCb, HookedBevFree
  <2> QED  BY <2>1, <2>2, <2>3, ConnFrame
<1>5. CASE UNCHANGED vars
  BY <1>1, <1>5 DEF vars
<1> QED
  BY <1>2, <1>3, <1>4, <1>5, ConnFromFreelistConns, ConnAllocConns, BevNewConns,
     BevNewFailsConns, ConnFreeConns DEF Next, WorkerContinues

-----------------------------------------------------------------------------
(* Descriptors.                                                             *)

LEMMA WorkerSfdsDef ==
    ASSUME NEW w \in Workers
    PROVE  /\ WorkerSfds[w] = QueueSfds(w) \cup SfdInHand(w)
           /\ WorkerSfds'[w] = QueueSfds(w)' \cup SfdInHand(w)'
BY DEF WorkerSfds

\* Steps after which every queue and every hand stands for the same sockets.
SameSockets ==
    \A w \in Workers :
        /\ new_conn_queue'[w] = new_conn_queue[w]
        /\ \A i \in Elems(new_conn_queue[w]) : item'[i] = item[i]
        /\ HoldsSfd(w)' = HoldsSfd(w)
        /\ HoldsSfd(w) => item'[witem'[w]] = item[witem[w]]

LEMMA SocketsFrame ==
    ASSUME SfdPlaces, SameSockets
    PROVE  /\ \A w \in Workers :
                /\ \A i, j \in Elems(new_conn_queue'[w]) :
                      item'[i].sfd = item'[j].sfd => i = j
                /\ HoldsSfd(w)' => item'[witem'[w]].sfd \notin QueueSfds(w)'
           /\ \A w \in Workers : WorkerSfds'[w] = WorkerSfds[w]
<1> SUFFICES ASSUME NEW w \in Workers
             PROVE  /\ \A i, j \in Elems(new_conn_queue'[w]) :
                          item'[i].sfd = item'[j].sfd => i = j
                    /\ HoldsSfd(w)' => item'[witem'[w]].sfd \notin QueueSfds(w)'
                    /\ WorkerSfds'[w] = WorkerSfds[w]
  OBVIOUS
<1>1. QueueSfds(w)' = QueueSfds(w)
  BY DEF SameSockets, QueueSfds
<1>2. SfdInHand(w)' = SfdInHand(w)
  BY DEF SameSockets, SfdInHand
<1>3. \A i, j \in Elems(new_conn_queue'[w]) : item'[i].sfd = item'[j].sfd => i = j
  BY DEF SfdPlaces, SameSockets
<1>4. HoldsSfd(w)' => item'[witem'[w]].sfd \notin QueueSfds(w)'
  BY <1>1 DEF SfdPlaces, SameSockets
<1> QED  BY <1>1, <1>2, <1>3, <1>4, WorkerSfdsDef

\* A step of the master or of libevent that leaves the workers' sockets alone.
LEMMA SfdFrame ==
    ASSUME SfdPlaces, SameSockets,
           \A b1, b2 \in bevs' : b1.sfd = b2.sfd => b1 = b2,
           Apart(ServingSfds', MasterSfds', WorkerSfds, openFds')
    PROVE  SfdPlaces'
<1>1. Apart(ServingSfds', MasterSfds', WorkerSfds', openFds')
  BY SocketsFrame DEF Apart
<1>2. Apart(ServingSfds, MasterSfds, WorkerSfds, openFds)'
  BY <1>1 DEF Apart
<1> QED  BY <1>2, SocketsFrame DEF SfdPlaces

LEMMA AcceptSfds ==
    ASSUME Typed, LocalsClear, SfdPlaces, NEW f \in Fds, Accept(f)
    PROVE  SfdPlaces'
<1>1. /\ mpc = "accept" /\ f \notin openFds /\ openFds' = openFds \cup {f}
      /\ msfd' = f /\ UNCHANGED <<item, new_conn_queue, bevs, wpc, witem>>
  BY DEF Accept, queueVars, itemVars, workerVars
<1>2. MasterSfds = {} /\ MasterSfds' = {f}
  BY <1>1 DEF MasterSfds, LocalsClear, NoFd
<1>3. SameSockets
  BY <1>1 DEF SameSockets, HoldsSfd
<1>4. Apart(ServingSfds', MasterSfds', WorkerSfds, openFds')
  BY <1>1, <1>2 DEF SfdPlaces, Apart, ServingSfds
<1> QED  BY <1>1, <1>3, <1>4, SfdFrame DEF SfdPlaces

LEMMA NonBlockFailsSfds ==
    ASSUME Typed, SfdPlaces, NonBlockFails
    PROVE  SfdPlaces'
<1>1. /\ mpc = "nonblock" /\ openFds' = openFds \ {msfd} /\ msfd' = NoFd
      /\ UNCHANGED <<item, new_conn_queue, bevs, wpc, witem>> /\ msfd \in Fds
  BY DEF NonBlockFails, queueVars, itemVars, workerVars, Typed, MasterControl
<1>2. MasterSfds = {msfd} /\ MasterSfds' = {}
  BY <1>1 DEF MasterSfds, NoFd
<1>3. SameSockets
  BY <1>1 DEF SameSockets, HoldsSfd
<1>4. Apart(ServingSfds', MasterSfds', WorkerSfds, openFds')
  BY <1>1, <1>2 DEF SfdPlaces, Apart, ServingSfds
<1> QED  BY <1>1, <1>3, <1>4, SfdFrame DEF SfdPlaces

LEMMA BevFreeSfds ==
    ASSUME Typed, LocalsClear, SfdPlaces, NEW w \in Workers, BevFree(w)
    PROVE  SfdPlaces'
<1> DEFINE b == wbev[w]
<1>1. /\ wpc[w] = "bevfree" /\ b \in bevs /\ bevs' = bevs \ {b}
      /\ openFds' = openFds \ {b.sfd} /\ wpc' = [wpc EXCEPT ![w] = "loop"]
      /\ UNCHANGED <<item, new_conn_queue, msfd, witem>>
      /\ wpc \in [Workers -> WorkerSteps]
  BY DEF BevFree, LocalsClear, queueVars, itemVars, masterVars, Typed, TypeOK
<1> HIDE DEF b
<1>2. SameSockets
  <2>1. \A v \in Workers : HoldsSfd(v)' = HoldsSfd(v)
    BY <1>1 DEF HoldsSfd
  <2> QED  BY <2>1, <1>1 DEF SameSockets
<1>3. b.sfd \in ServingSfds /\ \A x : x \in ServingSfds' <=> x \in ServingSfds /\ x # b.sfd
  BY <1>1 DEF ServingSfds, SfdPlaces
<1>4. Apart(ServingSfds', MasterSfds', WorkerSfds, openFds')
  <2>1. MasterSfds' = MasterSfds /\ Apart(ServingSfds, MasterSfds, WorkerSfds, openFds)
    BY <1>1 DEF MasterSfds, SfdPlaces
  <2>2. \A x : x \in openFds' <=> x \in openFds /\ x # b.sfd
    BY <1>1
  <2>3. Apart(ServingSfds', MasterSfds, WorkerSfds, openFds')
    BY <2>1, <2>2, <1>3 DEF Apart
  <2> QED  BY <2>1, <2>3
<1> QED  BY <1>1, <1>2, <1>4, SfdFrame DEF SfdPlaces

\* The item is filled in and queued: nobody else has it.
LEMMA QueuePushSfds ==
    ASSUME Typed, ItemPlaces, SfdPlaces, QueuePush
    PROVE  SfdPlaces'
<1> DEFINE n == NextThread
<1>1. /\ mpc = "push" /\ mitem \in Items /\ n \in Workers /\ msfd \in Fds
      /\ new_conn_queue' = [new_conn_queue EXCEPT ![n] = Append(@, mitem)]
      /\ item' = [item EXCEPT ![mitem] = [sfd |-> msfd, id |-> id_]]
      /\ msfd' = NoFd /\ UNCHANGED <<openFds, bevs, wpc, witem>>
  BY NextThreadIsWorker
     DEF QueuePush, workerVars, netVars, Typed, TypeOK, MasterControl
<1>2. /\ new_conn_queue \in [Workers -> Seq(Items)] /\ item \in [Items -> Payloads]
      /\ witem \in [Workers -> Items \cup {Nil}]
  BY DEF Typed, TypeOK
<1> HIDE DEF n
<1>3. \A w \in Workers : \A x : x \in Elems(new_conn_queue'[w])
                              <=> x \in Elems(new_conn_queue[w]) \/ (w = n /\ x = mitem)
  <2> SUFFICES ASSUME NEW w \in Workers
               PROVE  \A x : x \in Elems(new_conn_queue'[w])
                              <=> x \in Elems(new_conn_queue[w]) \/ (w = n /\ x = mitem)
    OBVIOUS
  <2>1. \A x : x \in Elems(Append(new_conn_queue[w], mitem))
                 <=> x \in Elems(new_conn_queue[w]) \/ x = mitem
    BY <1>1, <1>2, ElemsAppend
  <2>2. new_conn_queue'[w] = IF w = n THEN Append(new_conn_queue[w], mitem)
                             ELSE new_conn_queue[w]
    BY <1>1, <1>2
  <2> QED  BY <2>1, <2>2
<1>4. \A w \in Workers : mitem \notin WorkerItems[w]
  <2>1. mitem \in MasterItems
    BY <1>1 DEF MasterItems
  <2> QED  BY <2>1 DEF ItemPlaces, Apart
<1>5. /\ item'[mitem].sfd = msfd /\ item'[mitem].id = id_
      /\ \A i \in Items : i # mitem => item'[i] = item[i]
  BY <1>1, <1>2
<1>6. \A w \in Workers : \A i \in Elems(new_conn_queue[w]) :
        i \in Items /\ i # mitem /\ item'[i] = item[i]
  <2>1. \A w \in Workers : \A i \in Elems(new_conn_queue[w]) : i \in Items
    BY <1>2 DEF Elems
  <2>2. \A w \in Workers : mitem \notin Elems(new_conn_queue[w])
    BY <1>4, WorkerItemsDef
  <2> QED  BY <2>1, <2>2, <1>5
<1>7. \A w \in Workers : HoldsSfd(w) => item'[witem[w]] = item[witem[w]]
  <2>1. \A w \in Workers : HoldsSfd(w) => witem[w] \in Items /\ witem[w] # mitem
    BY <1>4, WorkerItemsDef DEF HoldsSfd, HoldsItem, ItemInHand, Typed, WorkerControl
  <2> QED  BY <2>1, <1>5
<1>8. \A w \in Workers : HoldsSfd(w)' = HoldsSfd(w) /\ SfdInHand(w)' = SfdInHand(w)
  BY <1>1, <1>7 DEF HoldsSfd, SfdInHand
<1>9. \A w \in Workers : \A x : x \in QueueSfds(w)'
                              <=> x \in QueueSfds(w) \/ (w = n /\ x = msfd)
  BY <1>3, <1>5, <1>6 DEF QueueSfds
<1>10. \A w \in Workers : \A x : x \in WorkerSfds'[w]
                              <=> x \in WorkerSfds[w] \/ (w = n /\ x = msfd)
  BY <1>8, <1>9, WorkerSfdsDef
<1>11. MasterSfds = {msfd} /\ MasterSfds' = {} /\ ServingSfds' = ServingSfds
  BY <1>1 DEF MasterSfds, NoFd, ServingSfds
<1>12. Apart(ServingSfds, {msfd}, WorkerSfds, openFds)
  BY <1>11 DEF SfdPlaces
<1>13. Apart(ServingSfds, MasterSfds, WorkerSfds, openFds)'
  <2>1. Apart(ServingSfds, {}, WorkerSfds', openFds)
    BY <1>1, <1>10, <1>12 DEF Apart
  <2> QED  BY <2>1, <1>1, <1>11 DEF Apart
<1>14. \A w \in Workers : msfd \notin QueueSfds(w) /\ msfd \notin SfdInHand(w)
  BY <1>12, WorkerSfdsDef DEF Apart
<1>15. ASSUME NEW w \in Workers
       PROVE  /\ \A i, j \in Elems(new_conn_queue'[w]) :
                    item'[i].sfd = item'[j].sfd => i = j
              /\ HoldsSfd(w)' => item'[witem'[w]].sfd \notin QueueSfds(w)'
  <2>1. \A i \in Elems(new_conn_queue[w]) : item[i].sfd # msfd
    BY <1>14 DEF QueueSfds
  <2>2. \A i, j \in Elems(new_conn_queue'[w]) : item'[i].sfd = item'[j].sfd => i = j
    <3> SUFFICES ASSUME NEW i \in Elems(new_conn_queue'[w]),
                        NEW j \in Elems(new_conn_queue'[w]), item'[i].sfd = item'[j].sfd
                 PROVE  i = j
      OBVIOUS
    <3>1. /\ i \in Elems(new_conn_queue[w]) \/ i = mitem
          /\ j \in Elems(new_conn_queue[w]) \/ j = mitem
      BY <1>3
    <3> QED  BY <3>1, <2>1, <1>5, <1>6 DEF SfdPlaces
  <2>3. HoldsSfd(w)' => item'[witem'[w]].sfd \notin QueueSfds(w)'
    <3> SUFFICES ASSUME HoldsSfd(w) PROVE item[witem[w]].sfd \notin QueueSfds(w)'
      BY <1>1, <1>7, <1>8
    <3>1. item[witem[w]].sfd # msfd
      BY <1>14 DEF SfdInHand
    <3> QED  BY <3>1, <1>9 DEF SfdPlaces
  <2> QED  BY <2>2, <2>3
<1> QED  BY <1>1, <1>13, <1>15 DEF SfdPlaces

LEMMA QueuePopSfds ==
    ASSUME Typed, ItemPlaces, SfdPlaces, NEW w \in Workers, QueuePop(w)
    PROVE  SfdPlaces'
<1> DEFINE q == new_conn_queue[w]
           h == Head(q)
<1>1. /\ new_conn_queue \in [Workers -> Seq(Items)] /\ wpc[w] = "pop"
      /\ wpc \in [Workers -> WorkerSteps] /\ witem \in [Workers -> Items \cup {Nil}]
      /\ UNCHANGED <<openFds, msfd, item, bevs>>
  BY DEF Typed, TypeOK, QueuePop, netVars, masterVars, itemVars
<1>2. /\ MasterSfds' = MasterSfds /\ ServingSfds' = ServingSfds
      /\ Apart(ServingSfds, MasterSfds, WorkerSfds, openFds)
  BY <1>1 DEF MasterSfds, ServingSfds, SfdPlaces
<1>3. CASE q = <<>>
  <2>1. UNCHANGED <<new_conn_queue, witem>> /\ wpc' = [wpc EXCEPT ![w] = "loop"]
    BY <1>3 DEF QueuePop
  <2>2. \A v \in Workers : HoldsSfd(v)' = HoldsSfd(v)
    BY <2>1, <1>1 DEF HoldsSfd
  <2>3. SameSockets
    BY <2>1, <2>2, <1>1 DEF SameSockets
  <2> QED  BY <2>3, <1>1, <1>2, SfdFrame DEF SfdPlaces
<1>4. CASE q # <<>>
  <2>1. /\ witem' = [witem EXCEPT ![w] = h]
        /\ new_conn_queue' = [new_conn_queue EXCEPT ![w] = Tail(q)]
        /\ wpc' = [wpc EXCEPT ![w] = "conn"]
    BY <1>4 DEF QueuePop
  <2>2. h \in Elems(q) /\ \A x : x \in Elems(Tail(q)) <=> x \in Elems(q) /\ x # h
    BY <1>1, <1>4, ElemsTail DEF ItemPlaces
  <2>3. /\ \A v \in Workers : v # w => /\ new_conn_queue'[v] = new_conn_queue[v]
                                       /\ witem'[v] = witem[v] /\ wpc'[v] = wpc[v]
        /\ new_conn_queue'[w] = Tail(q) /\ witem'[w] = h /\ wpc'[w] = "conn"
    BY <2>1, <1>1
  <2> HIDE DEF h
  <2>4. ASSUME NEW v \in Workers, v # w
        PROVE  /\ HoldsSfd(v)' = HoldsSfd(v) /\ SfdInHand(v)' = SfdInHand(v)
               /\ QueueSfds(v)' = QueueSfds(v)
    BY <2>3, <2>4, <1>1 DEF HoldsSfd, SfdInHand, QueueSfds
  <2>5. SfdInHand(w) = {} /\ SfdInHand(w)' = {item[h].sfd} /\ HoldsSfd(w)'
    BY <2>3, <1>1 DEF SfdInHand, HoldsSfd
  <2>6. /\ item[h].sfd \in QueueSfds(w)
        /\ \A x : x \in QueueSfds(w)' <=> x \in QueueSfds(w) /\ x # item[h].sfd
    BY <2>2, <2>3, <1>1 DEF QueueSfds, SfdPlaces
  <2>7. \A v \in Workers : WorkerSfds'[v] = WorkerSfds[v]
    <3> SUFFICES ASSUME NEW v \in Workers PROVE WorkerSfds'[v] = WorkerSfds[v]
      OBVIOUS
    <3>1. CASE v = w
      <4>1. /\ WorkerSfds[w] = QueueSfds(w) \cup {}
            /\ WorkerSfds'[w] = QueueSfds(w)' \cup {item[h].sfd}
        BY <2>5, WorkerSfdsDef
      <4>2. QueueSfds(w)' \cup {item[h].sfd} = QueueSfds(w) \cup {}
        BY <2>6
      <4> QED  BY <4>1, <4>2, <3>1
    <3>2. CASE v # w
      BY <3>2, <2>4, WorkerSfdsDef
    <3> QED  BY <3>1, <3>2
  <2>8. Apart(ServingSfds, MasterSfds, WorkerSfds, openFds)'
    <3>1. Apart(ServingSfds, MasterSfds, WorkerSfds', openFds)
      BY <2>7, <1>2 DEF Apart
    <3> QED  BY <3>1, <1>1, <1>2 DEF Apart
  <2>9. ASSUME NEW v \in Workers
        PROVE  /\ \A i, j \in Elems(new_conn_queue'[v]) :
                     item'[i].sfd = item'[j].sfd => i = j
               /\ HoldsSfd(v)' => item'[witem'[v]].sfd \notin QueueSfds(v)'
    <3>1. CASE v = w
      BY <3>1, <2>2, <2>3, <2>6, <1>1 DEF SfdPlaces
    <3>2. CASE v # w
      BY <3>2, <2>3, <2>4, <1>1 DEF SfdPlaces
    <3> QED  BY <3>1, <3>2
  <2> QED  BY <2>8, <2>9, <1>1 DEF SfdPlaces
<1> QED  BY <1>3, <1>4

\* The worker passes its socket on: what is left of its hand.
LEMMA SocketLeavesHand ==
    ASSUME Typed, SfdPlaces, NEW w \in Workers, HoldsSfd(w),
           wpc' = [wpc EXCEPT ![w] = "itemfree"],
           UNCHANGED <<item, new_conn_queue, witem>>
    PROVE  LET s == item[witem[w]].sfd
           IN  /\ s \in WorkerSfds[w]
               /\ \A v \in Workers : \A x : x \in WorkerSfds'[v]
                                          <=> x \in WorkerSfds[v] /\ ~(v = w /\ x = s)
               /\ \A v \in Workers :
                    /\ \A i, j \in Elems(new_conn_queue'[v]) :
                          item'[i].sfd = item'[j].sfd => i = j
                    /\ HoldsSfd(v)' => item'[witem'[v]].sfd \notin QueueSfds(v)'
<1> DEFINE s == item[witem[w]].sfd
<1>1. wpc \in [Workers -> WorkerSteps]
  BY DEF Typed, TypeOK
<1>2. ~HoldsSfd(w)' /\ \A v \in Workers : v # w => HoldsSfd(v)' = HoldsSfd(v)
  BY <1>1 DEF HoldsSfd
<1>3. \A v \in Workers : QueueSfds(v)' = QueueSfds(v)
  BY DEF QueueSfds
<1>4. /\ SfdInHand(w) = {s} /\ SfdInHand(w)' = {}
      /\ \A v \in Workers : v # w => SfdInHand(v)' = SfdInHand(v)
  BY <1>2 DEF SfdInHand
<1>5. s \notin QueueSfds(w)
  BY DEF SfdPlaces
<1> HIDE DEF s
<1>6. s \in WorkerSfds[w]
  BY <1>4, WorkerSfdsDef
<1>7. ASSUME NEW v \in Workers
      PROVE  \A x : x \in WorkerSfds'[v] <=> x \in WorkerSfds[v] /\ ~(v = w /\ x = s)
  <2>1. CASE v = w
    BY <2>1, <1>3, <1>4, <1>5, WorkerSfdsDef
  <2>2. CASE v # w
    BY <2>2, <1>3, <1>4, WorkerSfdsDef
  <2> QED  BY <2>1, <2>2
<1>8. ASSUME NEW v \in Workers
      PROVE  /\ \A i, j \in Elems(new_conn_queue'[v]) :
                   item'[i].sfd = item'[j].sfd => i = j
             /\ HoldsSfd(v)' => item'[witem'[v]].sfd \notin QueueSfds(v)'
  BY <1>2, <1>3 DEF SfdPlaces
<1> QED  BY <1>6, <1>7, <1>8 DEF s

LEMMA BevNewSfds ==
    ASSUME Typed, SfdPlaces, NEW w \in Workers, BevNew(w)
    PROVE  SfdPlaces'
<1> DEFINE s == item[witem[w]].sfd
           b == [base |-> w, sfd |-> s, arg |-> wconn[w]]
<1>1. /\ HoldsSfd(w) /\ wpc' = [wpc EXCEPT ![w] = "itemfree"] /\ bevs' = bevs \cup {b}
      /\ UNCHANGED <<openFds, msfd, item, new_conn_queue, witem>>
  BY DEF BevNew, HoldsSfd, netVars, masterVars, queueVars, itemVars
<1>2. b.sfd = s
  OBVIOUS
<1> HIDE DEF b
<1>3. /\ s \in WorkerSfds[w]
      /\ \A v \in Workers : \A x : x \in WorkerSfds'[v]
                                 <=> x \in WorkerSfds[v] /\ ~(v = w /\ x = s)
      /\ \A v \in Workers :
           /\ \A i, j \in Elems(new_conn_queue'[v]) :
                 item'[i].sfd = item'[j].sfd => i = j
           /\ HoldsSfd(v)' => item'[witem'[v]].sfd \notin QueueSfds(v)'
  BY <1>1, SocketLeavesHand
<1> HIDE DEF s
<1>4. \A x : x \in ServingSfds' <=> x \in ServingSfds \/ x = s
  BY <1>1, <1>2 DEF ServingSfds
<1>5. Apart(ServingSfds, MasterSfds, WorkerSfds, openFds)
  BY DEF SfdPlaces
<1>6. Apart(ServingSfds, MasterSfds, WorkerSfds, openFds)'
  <2>1. Apart(ServingSfds', MasterSfds, WorkerSfds', openFds)
    BY <1>3, <1>4, <1>5 DEF Apart
  <2> QED  BY <2>1, <1>1 DEF Apart, MasterSfds
<1>7. \A b1, b2 \in bevs' : b1.sfd = b2.sfd => b1 = b2
  <2>1. s \notin ServingSfds
    BY <1>3, <1>5 DEF Apart
  <2>2. \A b1 \in bevs : b1.sfd # s
    BY <2>1 DEF ServingSfds
  <2> QED  BY <2>2, <1>1, <1>2 DEF SfdPlaces
<1> QED  BY <1>3, <1>6, <1>7 DEF SfdPlaces

LEMMA CloseSfdSfds ==
    ASSUME Typed, SfdPlaces, NEW w \in Workers, CloseSfd(w)
    PROVE  SfdPlaces'
<1> DEFINE s == item[witem[w]].sfd
<1>1. /\ HoldsSfd(w) /\ wpc' = [wpc EXCEPT ![w] = "itemfree"]
      /\ openFds' = openFds \ {s}
      /\ UNCHANGED <<bevs, msfd, item, new_conn_queue, witem>>
  BY DEF CloseSfd, HoldsSfd, masterVars, queueVars, itemVars
<1>2. /\ s \in WorkerSfds[w]
      /\ \A v \in Workers : \A x : x \in WorkerSfds'[v]
                                 <=> x \in WorkerSfds[v] /\ ~(v = w /\ x = s)
      /\ \A v \in Workers :
           /\ \A i, j \in Elems(new_conn_queue'[v]) :
                 item'[i].sfd = item'[j].sfd => i = j
           /\ HoldsSfd(v)' => item'[witem'[v]].sfd \notin QueueSfds(v)'
  BY <1>1, SocketLeavesHand
<1> HIDE DEF s
<1>3. Apart(ServingSfds, MasterSfds, WorkerSfds, openFds)
  BY DEF SfdPlaces
<1>4. \A x : x \in openFds' <=> x \in openFds /\ x # s
  BY <1>1
<1>5. Apart(ServingSfds, MasterSfds, WorkerSfds, openFds)'
  <2>1. Apart(ServingSfds, MasterSfds, WorkerSfds', openFds')
    BY <1>2, <1>3, <1>4 DEF Apart
  <2> QED  BY <2>1, <1>1 DEF Apart, MasterSfds, ServingSfds
<1> QED  BY <1>1, <1>2, <1>5 DEF SfdPlaces

\* The freed item is in no queue and in no other hand.
LEMMA ItemFreeSfds ==
    ASSUME Typed, ItemPlaces, NEW w \in Workers, ItemFree(w)
    PROVE  SameSockets
<1> DEFINE h == witem[w]
<1>1. /\ wpc[w] = "itemfree" /\ item' = [item EXCEPT ![h] = NoPayload]
      /\ item \in [Items -> Payloads] /\ new_conn_queue \in [Workers -> Seq(Items)]
      /\ wpc \in [Workers -> WorkerSteps] /\ wpc' = [wpc EXCEPT ![w] = "loop"]
      /\ witem \in [Workers -> Items \cup {Nil}] /\ witem' = [witem EXCEPT ![w] = Nil]
      /\ UNCHANGED new_conn_queue
  BY DEF ItemFree, Typed, TypeOK, queueVars
<1>2. \A v \in Workers : HoldsSfd(v)' = HoldsSfd(v)
  BY <1>1 DEF HoldsSfd
<1>3. h \in WorkerItems[w] /\ h \notin Elems(new_conn_queue[w]) /\ ~HoldsSfd(w)
  BY <1>1, WorkerItemsDef DEF ItemPlaces, HoldsItem, HoldsSfd, ItemInHand
<1> HIDE DEF h
<1>4. \A v \in Workers : v # w => h \notin WorkerItems[v]
  BY <1>3 DEF ItemPlaces, Apart
<1>5. \A v \in Workers : \A i \in Elems(new_conn_queue[v]) : i \in Items /\ i # h
  <2>1. \A v \in Workers : h \notin Elems(new_conn_queue[v])
    BY <1>3, <1>4, WorkerItemsDef
  <2>2. \A v \in Workers : \A i \in Elems(new_conn_queue[v]) : i \in Items
    BY <1>1 DEF Elems
  <2> QED  BY <2>1, <2>2
<1>6. \A v \in Workers : HoldsSfd(v) => /\ witem'[v] = witem[v]
                                        /\ witem[v] \in Items /\ witem[v] # h
  <2> SUFFICES ASSUME NEW v \in Workers, HoldsSfd(v)
               PROVE  witem'[v] = witem[v] /\ witem[v] \in Items /\ witem[v] # h
    OBVIOUS
  <2>1. v # w /\ HoldsItem(v)
    BY <1>3 DEF HoldsSfd, HoldsItem
  <2>2. witem[v] \in WorkerItems[v]
    BY <2>1, WorkerItemsDef DEF ItemInHand
  <2> QED  BY <2>1, <2>2, <1>1, <1>4 DEF Typed, WorkerControl
<1>7. \A i \in Items : i # h => item'[i] = item[i]
  BY <1>1
<1> QED  BY <1>1, <1>2, <1>5, <1>6, <1>7 DEF SameSockets

LEMMA SfdNext ==
    ASSUME Typed, LocalsClear, ItemPlaces, SfdPlaces, [Next]_vars
    PROVE  SfdPlaces'
<1>1. ASSUME UNCHANGED <<bevs, openFds, msfd>>, SameSockets PROVE SfdPlaces'
  <2>1. Apart(ServingSfds', MasterSfds', WorkerSfds, openFds')
    BY <1>1 DEF SfdPlaces, ServingSfds, MasterSfds, Apart
  <2> QED  BY <2>1, <1>1, SfdFrame DEF SfdPlaces
<1>2. ASSUME UNCHANGED <<item, new_conn_queue, witem>>,
             \A v \in Workers : HoldsSfd(v)' = HoldsSfd(v)
      PROVE  SameSockets
  BY <1>2 DEF SameSockets
<1> USE DEF netVars, masterVars, queueVars, itemVars, workerVars
<1>3. CASE TakeId \/ MapErase \/ MapInsert \/ ItemPop \/ ItemAlloc \/ ItemLink
            \/ Notify \/ NotifyFails
  <2>1. UNCHANGED <<bevs, openFds, msfd, item, new_conn_queue, witem, wpc>>
    BY <1>3 DEF TakeId, MapErase, MapInsert, ItemPop, ItemAlloc, ItemLink, Notify,
       NotifyFails
  <2> QED  BY <2>1, <1>1, <1>2 DEF HoldsSfd
<1>4. ASSUME NEW w \in Workers,
             \/ ReadNotify(w) \/ ConnFromFreelist(w) \/ ConnAlloc(w)
             \/ ConnAllocFails(w) \/ BevNewFails(w) \/ ConnFree(w)
             \/ \E b \in bevs : ErrorCb(w, b)
      PROVE  SfdPlaces'
  <2>1. UNCHANGED <<bevs, openFds, msfd, item, new_conn_queue, witem>>
    BY <1>4 DEF ReadNotify, ConnFromFreelist, ConnAlloc, ConnAllocFails,
       BevNewFails, ConnFree, ErrorCb
  <2>2. \A v \in Workers : HoldsSfd(v)' = HoldsSfd(v)
    BY <1>4 DEF ReadNotify, ConnFromFreelist, ConnAlloc, ConnAllocFails,
       BevNewFails, ConnFree, ErrorCb, HoldsSfd, Typed, TypeOK
  <2> QED  BY <2>1, <2>2, <1>1, <1>2
<1>5. ASSUME NEW w \in Workers, ItemFree(w) PROVE SfdPlaces'
  BY <1>1, <1>5, ItemFreeSfds DEF ItemFree
<1>6. CASE UNCHANGED vars
  BY <1>1, <1>2, <1>6 DEF vars, HoldsSfd
<1> QED
  BY <1>3, <1>4, <1>5, <1>6, AcceptSfds, NonBlockFailsSfds, QueuePushSfds,
     QueuePopSfds, BevNewSfds, CloseSfdSfds, BevFreeSfds
     DEF Next, MasterAfterAccept, WorkerContinues

-----------------------------------------------------------------------------
(* The map.                                                                 *)

LEMMA SocketsAreFds ==
    ASSUME Typed, SfdPlaces
    PROVE  /\ \A w \in Workers :
                /\ \A i \in Elems(new_conn_queue[w]) : item[i].sfd \in Fds
                /\ HoldsSfd(w) => item[witem[w]].sfd \in Fds
           /\ \A b \in bevs : b.sfd \in Fds
<1>1. Apart(ServingSfds, MasterSfds, WorkerSfds, openFds) /\ openFds \subseteq Fds
  BY DEF SfdPlaces, Typed, TypeOK
<1>2. \A w \in Workers : QueueSfds(w) \subseteq Fds /\ SfdInHand(w) \subseteq Fds
  BY <1>1, WorkerSfdsDef DEF Apart
<1>3. ServingSfds \subseteq Fds
  BY <1>1 DEF Apart
<1> QED  BY <1>2, <1>3 DEF QueueSfds, SfdInHand, ServingSfds

\* The sockets of the workers and of the bufferevents are not the master's.
LEMMA NotTheMasters ==
    ASSUME SfdPlaces, msfd # NoFd
    PROVE  /\ \A w \in Workers :
                /\ \A i \in Elems(new_conn_queue[w]) : item[i].sfd # msfd
                /\ HoldsSfd(w) => item[witem[w]].sfd # msfd
           /\ \A b \in bevs : b.sfd # msfd
<1>1. Apart(ServingSfds, {msfd}, WorkerSfds, openFds)
  BY DEF SfdPlaces, MasterSfds
<1>2. \A w \in Workers : msfd \notin QueueSfds(w) /\ msfd \notin SfdInHand(w)
  BY <1>1, WorkerSfdsDef DEF Apart
<1>3. msfd \notin ServingSfds
  BY <1>1 DEF Apart
<1> QED  BY <1>2, <1>3 DEF QueueSfds, SfdInHand, ServingSfds

\* The sockets of the workers are not those of bufferevents.
LEMMA NotServed ==
    ASSUME SfdPlaces, NEW b \in bevs
    PROVE  /\ \A w \in Workers :
                /\ \A i \in Elems(new_conn_queue[w]) : item[i].sfd # b.sfd
                /\ HoldsSfd(w) => item[witem[w]].sfd # b.sfd
           /\ msfd # NoFd => msfd # b.sfd
<1>1. Apart(ServingSfds, MasterSfds, WorkerSfds, openFds) /\ b.sfd \in ServingSfds
  BY DEF SfdPlaces, ServingSfds
<1>2. \A w \in Workers : b.sfd \notin QueueSfds(w) /\ b.sfd \notin SfdInHand(w)
  BY <1>1, WorkerSfdsDef DEF Apart
<1>3. b.sfd \notin MasterSfds
  BY <1>1 DEF Apart
<1> QED  BY <1>2, <1>3 DEF QueueSfds, SfdInHand, MasterSfds

\* Steps after which a worker has no new sockets, and the entries of those it
\* has are as they were.
LEMMA WorkersMappedFrame ==
    ASSUME WorkersMapped,
           \A w \in Workers :
             /\ \A i \in Elems(new_conn_queue'[w]) :
                  /\ i \in Elems(new_conn_queue[w]) /\ item'[i] = item[i]
                  /\ map_csfd_id_'[item[i].sfd] = map_csfd_id_[item[i].sfd]
             /\ HoldsSfd(w)' =>
                  /\ HoldsSfd(w) /\ item'[witem'[w]] = item[witem[w]]
                  /\ map_csfd_id_'[item[witem[w]].sfd] = map_csfd_id_[item[witem[w]].sfd]
    PROVE  WorkersMapped'
BY DEF WorkersMapped

\* Steps that keep the conn of every bufferevent, its entry in the map and
\* which of them are being closed.
LEMMA BevsMappedFrame ==
    ASSUME BevsMapped,
           \A b \in Hooked' :
             /\ b \in Hooked /\ conn'[b.arg] = conn[b.arg]
             /\ (\A w \in Workers : wbev'[w] # b) =>
                  /\ \A w \in Workers : wbev[w] # b
                  /\ map_csfd_id_'[b.sfd] = map_csfd_id_[b.sfd]
    PROVE  BevsMapped'
BY DEF BevsMapped

\* MapErase and MapInsert write the entry of the master's socket only.
LEMMA MasterMapSteps ==
    ASSUME Typed, SfdPlaces, MapEntries, MapErase \/ MapInsert
    PROVE  MapEntries'
<1>1. /\ mpc \in {"erase", "insert"} /\ msfd \in Fds
      /\ UNCHANGED <<id_, msfd, item, new_conn_queue, conn, bevs, wpc, witem, wbev>>
      /\ map_csfd_id_ \in [Fds -> Ids \cup {NoId}]
  BY DEF MapErase, MapInsert, queueVars, itemVars, connVars, workerVars, Typed,
         TypeOK, MasterControl
<1>2. \A f \in Fds : f # msfd => map_csfd_id_'[f] = map_csfd_id_[f]
  BY <1>1 DEF MapErase, MapInsert
<1>3. /\ \A w \in Workers :
           /\ \A i \in Elems(new_conn_queue[w]) : item[i].sfd # msfd
           /\ HoldsSfd(w) => item[witem[w]].sfd # msfd
      /\ \A b \in bevs : b.sfd # msfd
  BY <1>1, NotTheMasters DEF NoFd
<1>4. WorkersMapped'
  BY <1>1, <1>2, <1>3, SocketsAreFds, WorkersMappedFrame DEF MapEntries, HoldsSfd
<1>5. BevsMapped'
  <2>1. Hooked' = Hooked /\ Hooked \subseteq bevs
    BY <1>1, HookedFrame DEF Hooked
  <2> QED  BY <2>1, <1>1, <1>2, <1>3, SocketsAreFds, BevsMappedFrame DEF MapEntries
<1>6. MasterMapped'
  BY <1>1 DEF MapErase, MapInsert, MasterMapped, MapEntries
<1> QED  BY <1>4, <1>5, <1>6 DEF MapEntries

LEMMA QueuePushMap ==
    ASSUME Typed, ItemPlaces, MapEntries, QueuePush
    PROVE  MapEntries'
<1> DEFINE n == NextThread
<1>1. /\ mpc = "push" /\ mpc' = "notify" /\ mitem \in Items /\ n \in Workers
      /\ new_conn_queue' = [new_conn_queue EXCEPT ![n] = Append(@, mitem)]
      /\ item' = [item EXCEPT ![mitem] = [sfd |-> msfd, id |-> id_]]
      /\ UNCHANGED <<map_csfd_id_, id_, bevs, conn, wpc, witem, wbev>>
      /\ new_conn_queue \in [Workers -> Seq(Items)] /\ item \in [Items -> Payloads]
  BY NextThreadIsWorker
     DEF QueuePush, workerVars, netVars, connVars, Typed, TypeOK, MasterControl
<1> HIDE DEF n
<1>2. map_csfd_id_[msfd] = id_
  BY <1>1 DEF MapEntries, MasterMapped
<1>3. \A w \in Workers : mitem \notin WorkerItems[w]
  <2>1. mitem \in MasterItems
    BY <1>1 DEF MasterItems
  <2> QED  BY <2>1 DEF ItemPlaces, Apart
<1>4. /\ item'[mitem].sfd = msfd /\ item'[mitem].id = id_
      /\ \A i \in Items : i # mitem => item'[i] = item[i]
  BY <1>1
<1>5. WorkersMapped'
  <2> SUFFICES ASSUME NEW w \in Workers
               PROVE  /\ \A i \in Elems(new_conn_queue'[w]) :
                           map_csfd_id_[item'[i].sfd] = item'[i].id
                      /\ HoldsSfd(w) =>
                           map_csfd_id_[item'[witem[w]].sfd] = item'[witem[w]].id
    BY <1>1 DEF WorkersMapped, HoldsSfd
  <2>1. mitem \notin Elems(new_conn_queue[w]) /\ mitem \notin ItemInHand(w)
    BY <1>3, WorkerItemsDef
  <2>2. ASSUME NEW i \in Elems(new_conn_queue'[w])
        PROVE  map_csfd_id_[item'[i].sfd] = item'[i].id
    <3>1. \A x : x \in Elems(Append(new_conn_queue[w], mitem))
                   <=> x \in Elems(new_conn_queue[w]) \/ x = mitem
      BY <1>1, ElemsAppend
    <3>2. new_conn_queue'[w] = IF w = n THEN Append(new_conn_queue[w], mitem)
                               ELSE new_conn_queue[w]
      BY <1>1
    <3>3. i \in Elems(new_conn_queue[w]) \/ i = mitem
      BY <3>1, <3>2
    <3>4. CASE i = mitem
      BY <3>4, <1>2, <1>4
    <3>5. CASE i \in Elems(new_conn_queue[w])
      <4>1. i \in Items /\ i # mitem
        BY <3>5, <2>1, <1>1 DEF Elems
      <4> QED  BY <4>1, <3>5, <1>4 DEF MapEntries, WorkersMapped
    <3> QED  BY <3>3, <3>4, <3>5
  <2>3. ASSUME HoldsSfd(w)
        PROVE  map_csfd_id_[item'[witem[w]].sfd] = item'[witem[w]].id
    <3>1. witem[w] \in Items /\ witem[w] # mitem
      BY <2>1, <2>3 DEF HoldsSfd, HoldsItem, ItemInHand, Typed, WorkerControl
    <3> QED  BY <3>1, <2>3, <1>4 DEF MapEntries, WorkersMapped
  <2> QED  BY <2>2, <2>3
<1>6. BevsMapped' /\ MasterMapped'
  <2>1. Hooked' = Hooked
    BY <1>1, HookedFrame
  <2> QED  BY <2>1, <1>1 DEF MapEntries, BevsMapped, MasterMapped
<1> QED  BY <1>5, <1>6 DEF MapEntries

LEMMA QueuePopMap ==
    ASSUME Typed, ItemPlaces, MapEntries, NEW w \in Workers, QueuePop(w)
    PROVE  MapEntries'
<1> DEFINE q == new_conn_queue[w]
           h == Head(q)
<1>1. /\ new_conn_queue \in [Workers -> Seq(Items)] /\ wpc[w] = "pop"
      /\ wpc \in [Workers -> WorkerSteps] /\ witem \in [Workers -> Items \cup {Nil}]
      /\ UNCHANGED <<map_csfd_id_, id_, mpc, msfd, item, conn, bevs, wbev>>
  BY DEF Typed, TypeOK, QueuePop, netVars, masterVars, itemVars, connVars
<1>2. BevsMapped' /\ MasterMapped'
  <2>1. Hooked' = Hooked
    BY <1>1, HookedFrame DEF QueuePop
  <2> QED  BY <2>1, <1>1 DEF MapEntries, BevsMapped, MasterMapped
<1>3. CASE q = <<>>
  <2>1. UNCHANGED <<new_conn_queue, witem>> /\ wpc' = [wpc EXCEPT ![w] = "loop"]
    BY <1>3 DEF QueuePop
  <2>2. \A v \in Workers : HoldsSfd(v)' = HoldsSfd(v)
    BY <2>1, <1>1 DEF HoldsSfd
  <2> QED  BY <2>1, <2>2, <1>1, <1>2, WorkersMappedFrame DEF MapEntries
<1>4. CASE q # <<>>
  <2>1. /\ witem' = [witem EXCEPT ![w] = h]
        /\ new_conn_queue' = [new_conn_queue EXCEPT ![w] = Tail(q)]
        /\ wpc' = [wpc EXCEPT ![w] = "conn"]
    BY <1>4 DEF QueuePop
  <2>2. h \in Elems(q) /\ \A x : x \in Elems(Tail(q)) <=> x \in Elems(q) /\ x # h
    BY <1>1, <1>4, ElemsTail DEF ItemPlaces
  <2>3. /\ \A v \in Workers : v # w => /\ new_conn_queue'[v] = new_conn_queue[v]
                                       /\ witem'[v] = witem[v] /\ wpc'[v] = wpc[v]
        /\ new_conn_queue'[w] = Tail(q) /\ witem'[w] = h
    BY <2>1, <1>1
  <2> HIDE DEF h
  <2>4. WorkersMapped'
    <3> SUFFICES ASSUME NEW v \in Workers
                 PROVE  /\ \A i \in Elems(new_conn_queue'[v]) :
                             map_csfd_id_[item[i].sfd] = item[i].id
                        /\ HoldsSfd(v)' =>
                             map_csfd_id_[item[witem'[v]].sfd] = item[witem'[v]].id
      BY <1>1 DEF WorkersMapped
    <3>1. CASE v = w
      BY <3>1, <2>2, <2>3 DEF MapEntries, WorkersMapped
    <3>2. CASE v # w
      BY <3>2, <2>3 DEF MapEntries, WorkersMapped, HoldsSfd
    <3> QED  BY <3>1, <3>2
  <2> QED  BY <2>4, <1>2 DEF MapEntries
<1> QED  BY <1>3, <1>4

\* conn_new hands the entry over from the item to the conn.
LEMMA BevNewMap ==
    ASSUME Typed, LocalsClear, ConnPlaces, MapEntries, NEW w \in Workers, BevNew(w)
    PROVE  MapEntries'
<1> DEFINE p == item[witem[w]]
           e == wconn[w]
           b == [base |-> w, sfd |-> p.sfd, arg |-> e]
<1>1. /\ wpc[w] = "bev" /\ wpc' = [wpc EXCEPT ![w] = "itemfree"] /\ e \in Conns
      /\ bevs' = bevs \cup {b} /\ conn' = [conn EXCEPT ![e] = p]
      /\ wpc \in [Workers -> WorkerSteps] /\ conn \in [Conns -> Payloads]
      /\ bevs \subseteq Bevs
      /\ UNCHANGED <<map_csfd_id_, id_, mpc, msfd, item, new_conn_queue, witem, wbev>>
  BY DEF BevNew, netVars, masterVars, queueVars, itemVars, Typed, TypeOK, WorkerControl
<1>2. b.sfd = p.sfd /\ b.arg = e /\ b.base = w
  OBVIOUS
<1>3. map_csfd_id_[p.sfd] = p.id
  BY <1>1 DEF MapEntries, WorkersMapped, HoldsSfd
<1>4. e \notin ServingConns
  <2>1. e \in WorkerConns[w]
    BY <1>1, WorkerConnsDef
  <2> QED  BY <2>1 DEF ConnPlaces, Apart
<1> HIDE DEF p, e, b
<1>10. Hooked' = Hooked \cup {b}
  BY <1>1, <1>2, HookedBevNew
<1>5. \A c \in Hooked : c.arg \in Conns /\ c.arg # e
  BY <1>1, <1>4 DEF ServingConns, Bevs, Hooked
<1>6. conn'[e] = p /\ \A c \in Hooked : conn'[c.arg] = conn[c.arg]
  BY <1>1, <1>5
<1>7. BevsMapped'
  BY <1>1, <1>2, <1>3, <1>6, <1>10 DEF MapEntries, BevsMapped
<1>8. WorkersMapped'
  <2>1. \A v \in Workers : HoldsSfd(v)' => HoldsSfd(v)
    BY <1>1 DEF HoldsSfd
  <2> QED  BY <2>1, <1>1, WorkersMappedFrame DEF MapEntries
<1>9. MasterMapped'
  BY <1>1 DEF MapEntries, MasterMapped
<1> QED  BY <1>7, <1>8, <1>9 DEF MapEntries

\* The conn that goes back to the free list serves no bufferevent.
LEMMA BevNewFailsMap ==
    ASSUME Typed, ConnPlaces, MapEntries, NEW w \in Workers, BevNewFails(w)
    PROVE  MapEntries'
<1> DEFINE e == wconn[w]
<1>1. /\ wpc[w] = "bev" /\ e \in Conns /\ bevs \subseteq Bevs
      /\ conn' = [conn EXCEPT ![e] = NoPayload] /\ conn \in [Conns -> Payloads]
      /\ UNCHANGED <<map_csfd_id_, id_, mpc, msfd, item, new_conn_queue, bevs, witem, wbev>>
  BY DEF BevNewFails, AddToFreelist, netVars, masterVars, queueVars,
         itemVars, Typed, TypeOK, WorkerControl
<1>2. e \notin ServingConns
  <2>1. e \in WorkerConns[w]
    BY <1>1, WorkerConnsDef
  <2> QED  BY <2>1 DEF ConnPlaces, Apart
<1> HIDE DEF e
<1>3. \A c \in Hooked : c.arg \in Conns /\ c.arg # e
  BY <1>1, <1>2 DEF ServingConns, Bevs, Hooked
<1>4. \A c \in Hooked : conn'[c.arg] = conn[c.arg]
  BY <1>1, <1>3
<1>5. BevsMapped'
  <2>1. Hooked' = Hooked
    BY <1>1, HookedFrame DEF BevNewFails, Typed, TypeOK
  <2> QED  BY <2>1, <1>1, <1>4, BevsMappedFrame DEF MapEntries
<1>6. \A v \in Workers : HoldsSfd(v)' = HoldsSfd(v)
  BY DEF BevNewFails, HoldsSfd, Typed, TypeOK
<1>7. WorkersMapped'
  BY <1>1, <1>6, WorkersMappedFrame DEF MapEntries
<1>8. MasterMapped'
  BY <1>1 DEF MapEntries, MasterMapped
<1> QED  BY <1>5, <1>7, <1>8 DEF MapEntries

\* The conn of the bufferevent that is freed serves no other.
LEMMA ConnFreeMap ==
    ASSUME Typed, LocalsClear, ConnPlaces, MapEntries, NEW w \in Workers, ConnFree(w)
    PROVE  MapEntries'
<1> DEFINE b == wbev[w]
<1>1. b \in Hooked /\ Hooked' = Hooked \ {b}
  BY HookedConnFree
<1>2. /\ conn' = [conn EXCEPT ![b.arg] = NoPayload] /\ conn \in [Conns -> Payloads]
      /\ Hooked \subseteq Bevs
      /\ UNCHANGED <<map_csfd_id_, id_, mpc, msfd, item, new_conn_queue, witem, wbev>>
  BY DEF ConnFree, AddToFreelist, netVars, masterVars, queueVars, itemVars, Typed,
         TypeOK, Hooked
<1> HIDE DEF b
<1>3. \A c \in Hooked' : c.arg # b.arg /\ c.arg \in Conns
  BY <1>1, <1>2 DEF ConnPlaces, Bevs
<1>4. \A c \in Hooked' : conn'[c.arg] = conn[c.arg]
  BY <1>2, <1>3
<1>5. BevsMapped'
  BY <1>1, <1>2, <1>4, BevsMappedFrame DEF MapEntries
<1>6. \A v \in Workers : HoldsSfd(v)' = HoldsSfd(v)
  BY DEF ConnFree, HoldsSfd, Typed, TypeOK
<1>7. WorkersMapped'
  BY <1>2, <1>6, WorkersMappedFrame DEF MapEntries
<1>8. MasterMapped'
  BY <1>2 DEF MapEntries, MasterMapped
<1> QED  BY <1>5, <1>7, <1>8 DEF MapEntries

\* ClientTcpErrorCb erases the entry of a socket that nobody else has.
LEMMA ErrorCbMap ==
    ASSUME Typed, LocalsClear, SfdPlaces, MapEntries, NEW w \in Workers,
           NEW b \in bevs, ErrorCb(w, b)
    PROVE  MapEntries'
<1>1. /\ wpc[w] = "loop" /\ wpc' = [wpc EXCEPT ![w] = "connfree"]
      /\ map_csfd_id_' = [map_csfd_id_ EXCEPT ![b.sfd] = NoId]
      /\ wbev' = [wbev EXCEPT ![w] = b] /\ wbev[w] = NoBev
      /\ map_csfd_id_ \in [Fds -> Ids \cup {NoId}] /\ bevs \subseteq Bevs
      /\ wbev \in [Workers -> Bevs \cup {NoBev}] /\ wpc \in [Workers -> WorkerSteps]
      /\ UNCHANGED <<id_, mpc, msfd, item, new_conn_queue, conn, bevs, witem>>
  BY DEF ErrorCb, masterVars, queueVars, itemVars, connVars, LocalsClear, Typed, TypeOK
<1>2. \A f \in Fds : f # b.sfd => map_csfd_id_'[f] = map_csfd_id_[f]
  BY <1>1
<1>3. WorkersMapped'
  <2>1. \A v \in Workers : HoldsSfd(v)' = HoldsSfd(v)
    BY <1>1 DEF HoldsSfd
  <2> QED
    BY <2>1, <1>1, <1>2, NotServed, SocketsAreFds, WorkersMappedFrame DEF MapEntries
<1>4. BevsMapped'
  <2>1. wbev'[w] = b /\ \A v \in Workers : v # w => wbev'[v] = wbev[v]
    BY <1>1
  <2>2. ASSUME NEW c \in bevs, \A v \in Workers : wbev'[v] # c
        PROVE  /\ \A v \in Workers : wbev[v] # c
               /\ map_csfd_id_'[c.sfd] = map_csfd_id_[c.sfd]
    <3>1. c # b /\ c # NoBev
      BY <2>1, <2>2, <1>1 DEF Bevs, NoBev, Conns, Nil
    <3>2. c.sfd # b.sfd /\ c.sfd \in Fds
      BY <3>1, SocketsAreFds DEF SfdPlaces
    <3> QED  BY <3>1, <3>2, <2>1, <2>2, <1>1, <1>2
  <2>3. Hooked' = Hooked /\ Hooked \subseteq bevs
    BY HookedErrorCb DEF Hooked
  <2> QED  BY <2>2, <2>3, <1>1, BevsMappedFrame DEF MapEntries
<1>5. MasterMapped'
  <2>1. mpc \in {"insert", "item", "link", "push"} => msfd \in Fds /\ msfd # b.sfd
    BY NotServed DEF Typed, MasterControl, NoFd
  <2> QED  BY <2>1, <1>1, <1>2 DEF MapEntries, MasterMapped
<1> QED  BY <1>3, <1>4, <1>5 DEF MapEntries

LEMMA BevFreeMap ==
    ASSUME Typed, LocalsClear, MapEntries, NEW w \in Workers, BevFree(w)
    PROVE  MapEntries'
<1>1. /\ wpc[w] = "bevfree" /\ bevs' = bevs \ {wbev[w]}
      /\ wbev' = [wbev EXCEPT ![w] = NoBev] /\ wpc' = [wpc EXCEPT ![w] = "loop"]
      /\ wbev \in [Workers -> Bevs \cup {NoBev}] /\ wpc \in [Workers -> WorkerSteps]
      /\ UNCHANGED <<map_csfd_id_, id_, mpc, msfd, item, new_conn_queue, conn, witem>>
  BY DEF BevFree, masterVars, queueVars, itemVars, connVars, Typed, TypeOK
<1>2. BevsMapped'
  <2>1. \A v \in Workers : v # w => wbev'[v] = wbev[v]
    BY <1>1
  <2>2. \A c \in bevs' : (\A v \in Workers : wbev'[v] # c) => \A v \in Workers : wbev[v] # c
    BY <2>1, <1>1
  <2>3. Hooked' = Hooked /\ Hooked' \subseteq bevs'
    BY HookedBevFree DEF Hooked
  <2> QED  BY <2>2, <2>3, <1>1, BevsMappedFrame DEF MapEntries
<1>3. \A v \in Workers : HoldsSfd(v)' = HoldsSfd(v)
  BY <1>1 DEF HoldsSfd
<1>4. WorkersMapped'
  BY <1>1, <1>3, WorkersMappedFrame DEF MapEntries
<1>5. MasterMapped'
  BY <1>1 DEF MapEntries, MasterMapped
<1> QED  BY <1>2, <1>4, <1>5 DEF MapEntries

LEMMA MapNext ==
    ASSUME Typed, LocalsClear, ItemPlaces, ConnPlaces, SfdPlaces, MapEntries, [Next]_vars
    PROVE  MapEntries'
<1>1. ASSUME UNCHANGED <<map_csfd_id_, conn, bevs, wbev>>, Hooked' = Hooked, MasterMapped',
             \A v \in Workers :
               /\ new_conn_queue'[v] = new_conn_queue[v]
               /\ \A i \in Elems(new_conn_queue[v]) : item'[i] = item[i]
               /\ HoldsSfd(v)' => HoldsSfd(v) /\ item'[witem'[v]] = item[witem[v]]
      PROVE  MapEntries'
  BY <1>1, WorkersMappedFrame, BevsMappedFrame DEF MapEntries
<1> USE DEF netVars, masterVars, queueVars, itemVars, connVars, workerVars
<1>2. ASSUME NEW f \in Fds, Accept(f) PROVE MapEntries'
  BY <1>1, <1>2, HookedFrame DEF Accept, MasterMapped, HoldsSfd
<1>3. CASE \/ NonBlockFails \/ TakeId \/ ItemPop \/ ItemAlloc \/ ItemLink
           \/ Notify \/ NotifyFails
  <2>1. /\ UNCHANGED <<map_csfd_id_, conn, bevs, wbev, wpc, witem, item, new_conn_queue>>
        /\ \/ mpc' \in {"accept", "erase"}
           \/ /\ mpc \in {"item", "link"} /\ mpc' \in {"link", "push"}
              /\ UNCHANGED <<msfd, id_>>
    BY <1>3 DEF NonBlockFails, TakeId, ItemPop, ItemAlloc, ItemLink, Notify, NotifyFails
  <2>2. MasterMapped'
    BY <2>1 DEF MapEntries, MasterMapped
  <2> QED  BY <2>1, <2>2, <1>1, HookedFrame DEF HoldsSfd
<1>4. ASSUME NEW w \in Workers,
             \/ ReadNotify(w) \/ ConnFromFreelist(w) \/ ConnAlloc(w)
             \/ ConnAllocFails(w) \/ CloseSfd(w)
      PROVE  MapEntries'
  <2>1. UNCHANGED <<map_csfd_id_, id_, mpc, msfd, conn, bevs, wbev, witem, item,
                    new_conn_queue>>
    BY <1>4 DEF ReadNotify, ConnFromFreelist, ConnAlloc, ConnAllocFails, CloseSfd
  <2>2. \A v \in Workers : HoldsSfd(v)' => HoldsSfd(v)
    BY <1>4 DEF ReadNotify, ConnFromFreelist, ConnAlloc, ConnAllocFails, CloseSfd,
       HoldsSfd, Typed, TypeOK
  <2>3. MasterMapped'
    BY <2>1 DEF MapEntries, MasterMapped
  <2>4. Hooked' = Hooked
    BY <2>1, <1>4, HookedFrame DEF ReadNotify, ConnFromFreelist, ConnAlloc,
       ConnAllocFails, CloseSfd, Typed, TypeOK
  <2> QED  BY <2>1, <2>2, <2>3, <2>4, <1>1
<1>5. ASSUME NEW w \in Workers, ItemFree(w) PROVE MapEntries'
  <2>1. UNCHANGED <<map_csfd_id_, id_, mpc, msfd, conn, bevs, wbev>>
    BY <1>5 DEF ItemFree
  <2>2. MasterMapped'
    BY <2>1 DEF MapEntries, MasterMapped
  <2>3. Hooked' = Hooked
    BY <2>1, <1>5, HookedFrame DEF ItemFree, Typed, TypeOK
  <2> QED  BY <2>1, <2>2, <2>3, <1>1, <1>5, ItemFreeSfds DEF SameSockets
<1>6. CASE UNCHANGED vars
  <2>1. MasterMapped'
    BY <1>6 DEF vars, MapEntries, MasterMapped
  <2> QED  BY <2>1, <1>1, <1>6, HookedFrame DEF vars, HoldsSfd
<1> QED
  BY <1>2, <1>3, <1>4, <1>5, <1>6, MasterMapSteps, QueuePushMap, QueuePopMap,
     BevNewMap, BevNewFailsMap, ErrorCbMap, ConnFreeMap, BevFreeMap
     DEF Next, MasterAfterAccept, WorkerContinues

-----------------------------------------------------------------------------
(* The ownership invariants.                                                *)

LEMMA OwnershipInit == Init => Ownership
<1> SUFFICES ASSUME Init PROVE Ownership
  OBVIOUS
<1>1. Typed
  BY TypedInit
<1>2. /\ mpc = "accept" /\ msfd = NoFd /\ bevs = {} /\ openFds = {}
      /\ cqi_freelist = <<>> /\ itemCount = 0 /\ vec_freeconn_ = <<>> /\ connCount = 0
      /\ \A w \in Workers : /\ new_conn_queue[w] = <<>> /\ wpc[w] = "loop"
                            /\ wbev[w] = NoBev
  BY DEF Init
<1>3. Elems(<<>>) = {} /\ NoDuplicates(<<>>)
  BY DEF Elems, NoDuplicates
<1>4. /\ \A w \in Workers : ~HoldsItem(w) /\ ~HoldsSfd(w)
      /\ \A x : x \notin 1 .. 0
  BY <1>2 DEF HoldsItem, HoldsSfd
<1>5. LocalsClear
  BY <1>2 DEF LocalsClear
<1>6. ItemPlaces
  <2>1. FreeItems = {} /\ MasterItems = {} /\ \A w \in Workers : WorkerItems[w] = {}
    BY <1>2, <1>3, <1>4 DEF FreeItems, MasterItems, WorkerItems, ItemInHand
  <2> QED  BY <2>1, <1>2, <1>3, <1>4 DEF ItemPlaces, Apart
<1>7. ConnPlaces
  <2>1. Hooked = {}
    BY <1>2 DEF Hooked
  <2>2. FreeConns = {} /\ ServingConns = {} /\ \A w \in Workers : WorkerConns[w] = {}
    BY <2>1, <1>2, <1>3 DEF FreeConns, ServingConns, WorkerConns
  <2> QED  BY <2>1, <2>2, <1>2, <1>3, <1>4 DEF ConnPlaces, Apart
<1>8. SfdPlaces
  <2>1. /\ ServingSfds = {} /\ MasterSfds = {}
        /\ \A w \in Workers : QueueSfds(w) = {} /\ WorkerSfds[w] = {}
    BY <1>2, <1>3, <1>4 DEF ServingSfds, MasterSfds, WorkerSfds, QueueSfds, SfdInHand
  <2> QED  BY <2>1, <1>2, <1>3, <1>4 DEF SfdPlaces, Apart
<1>9. MapEntries
  BY <1>2, <1>3, <1>4 DEF MapEntries, MasterMapped, WorkersMapped, BevsMapped, Hooked
<1> QED  BY <1>1, <1>5, <1>6, <1>7, <1>8, <1>9 DEF Ownership

LEMMA OwnershipNext == Ownership /\ [Next]_vars => Ownership'
BY TypedNext, LocalsNext, ItemNext, ConnNext, SfdNext, MapNext DEF Ownership

\* Local variables, the places of items, conns and descriptors and the entries
\* of map_csfd_id_ agree in every state: the one inductive invariant that the
\* four theorems below are read off.
THEOREM OwnershipInvariant == Spec => []Ownership
BY OwnershipInit, OwnershipNext, PTL DEF Spec

\* From the places to the invariants as ConnDispatch states them.
LEMMA ItemForm == Typed /\ ItemPlaces => ItemOwnedOnce
<1> SUFFICES ASSUME Typed, ItemPlaces PROVE ItemOwnedOnce
  OBVIOUS
<1> DEFINE InQueue(w) == Elems(new_conn_queue[w])
           Linking    == IF mpc = "link"
                         THEN mitem + 1 .. mitem + ITEMS_PER_ALLOC - 1 ELSE {}
           MasterHand == IF mpc \in {"link", "push"} THEN {mitem} ELSE {}
           Hand(w)    == IF HoldsItem(w) THEN {witem[w]} ELSE {}
           Free       == Elems(cqi_freelist)
<1>1. \A x : x \in MasterItems <=> x \in MasterHand \/ x \in Linking
  <2>1. CASE mpc = "link"
    BY <2>1, SizesAssumption DEF MasterItems, Typed, MasterControl, Items
  <2>2. CASE mpc # "link"
    BY <2>2 DEF MasterItems
  <2> QED  BY <2>1, <2>2
<1>2. \A w \in Workers : \A x : x \in WorkerItems[w] <=> x \in InQueue(w) \/ x \in Hand(w)
  BY WorkerItemsDef DEF ItemInHand
<1>3. Apart(Free, MasterItems, WorkerItems, 1 .. itemCount)
  BY DEF ItemPlaces, FreeItems
<1>4. \A w \in Workers : Hand(w) \cap InQueue(w) = {}
  BY DEF ItemPlaces
<1>5. NoDuplicates(cqi_freelist) /\ \A w \in Workers : NoDuplicates(new_conn_queue[w])
  BY DEF ItemPlaces
<1>6. ItemOwnedOnce <=>
        /\ NoDuplicates(cqi_freelist)
        /\ \A w \in Workers : NoDuplicates(new_conn_queue[w])
        /\ \A w \in Workers :
              /\ Free \cap (InQueue(w) \cup Hand(w)) = {}
              /\ Hand(w) \cap InQueue(w) = {}
              /\ (MasterHand \cup Linking) \cap (InQueue(w) \cup Hand(w)) = {}
              /\ \A v \in Workers \ {w} :
                    (InQueue(w) \cup Hand(w)) \cap (InQueue(v) \cup Hand(v)) = {}
        /\ Free \cap (MasterHand \cup Linking) = {}
        /\ Free \cup MasterHand \cup Linking
             \cup UNION {InQueue(w) \cup Hand(w) : w \in Workers} = 1 .. itemCount
  BY DEF ItemOwnedOnce
<1> HIDE DEF InQueue, Linking, MasterHand, Hand, Free
<1>7. \A w \in Workers :
         /\ Free \cap (InQueue(w) \cup Hand(w)) = {}
         /\ (MasterHand \cup Linking) \cap (InQueue(w) \cup Hand(w)) = {}
  BY <1>1, <1>2, <1>3 DEF Apart
<1>8. \A w \in Workers : \A v \in Workers \ {w} :
         (InQueue(w) \cup Hand(w)) \cap (InQueue(v) \cup Hand(v)) = {}
  BY <1>2, <1>3 DEF Apart
<1>9. Free \cap (MasterHand \cup Linking) = {}
  BY <1>1, <1>3 DEF Apart
<1>10. Free \cup MasterHand \cup Linking
         \cup UNION {InQueue(w) \cup Hand(w) : w \in Workers} = 1 .. itemCount
  <2>1. \A x : x \in UNION {InQueue(w) \cup Hand(w) : w \in Workers}
                 <=> \E w \in Workers : x \in WorkerItems[w]
    BY <1>2
  <2> QED  BY <2>1, <1>1, <1>3 DEF Apart
<1> QED  BY <1>4, <1>5, <1>6, <1>7, <1>8, <1>9, <1>10

LEMMA ConnForm == ConnPlaces => ConnOwnedOnce
<1> SUFFICES ASSUME ConnPlaces PROVE ConnOwnedOnce
  OBVIOUS
<1> DEFINE Hand(w) == IF wpc[w] = "bev" THEN {wconn[w]} ELSE {}
           Serving == {b.arg : b \in Hooked}
           Free    == Elems(vec_freeconn_)
<1>1. \A w \in Workers : WorkerConns[w] = Hand(w)
  BY DEF WorkerConns
<1>2. Apart(Free, Serving, WorkerConns, 1 .. connCount)
  BY DEF ConnPlaces, FreeConns, ServingConns
<1>3. ConnOwnedOnce <=>
        /\ NoDuplicates(vec_freeconn_)
        /\ \A b1, b2 \in Hooked : b1.arg = b2.arg => b1 = b2
        /\ Free \cap Serving = {}
        /\ \A w \in Workers :
              /\ Hand(w) \cap (Free \cup Serving) = {}
              /\ \A v \in Workers \ {w} : Hand(w) \cap Hand(v) = {}
        /\ Free \cup Serving \cup UNION {Hand(w) : w \in Workers} = 1 .. connCount
  BY DEF ConnOwnedOnce
<1> HIDE DEF Hand, Serving, Free
<1>4. /\ Free \cap Serving = {}
      /\ \A w \in Workers : /\ Hand(w) \cap (Free \cup Serving) = {}
                            /\ \A v \in Workers \ {w} : Hand(w) \cap Hand(v) = {}
  BY <1>1, <1>2 DEF Apart
<1>5. Free \cup Serving \cup UNION {Hand(w) : w \in Workers} = 1 .. connCount
  <2>1. \A x : x \in UNION {Hand(w) : w \in Workers}
                 <=> \E w \in Workers : x \in WorkerConns[w]
    BY <1>1
  <2> QED  BY <2>1, <1>2 DEF Apart
<1> QED  BY <1>3, <1>4, <1>5 DEF ConnPlaces

LEMMA SfdForm == Typed /\ ItemPlaces /\ SfdPlaces => SfdOwnedOnce
<1> SUFFICES ASSUME Typed, ItemPlaces, SfdPlaces PROVE SfdOwnedOnce
  OBVIOUS
<1> DEFINE Master  == IF msfd = NoFd THEN {} ELSE {msfd}
           Queued(w) == {item[new_conn_queue[w][i]].sfd :
                             i \in 1 .. Len(new_conn_queue[w])}
           Hand(w) == IF HoldsSfd(w) THEN {item[witem[w]].sfd} ELSE {}
           Serving == {b.sfd : b \in bevs}
<1>1. \A w \in Workers : Queued(w) = QueueSfds(w)
  BY DEF QueueSfds, Elems
<1>2. \A w \in Workers : \A x : x \in WorkerSfds[w] <=> x \in Queued(w) \/ x \in Hand(w)
  BY <1>1, WorkerSfdsDef DEF SfdInHand
<1>3. Apart(Serving, Master, WorkerSfds, openFds)
  BY DEF SfdPlaces, ServingSfds, MasterSfds
<1>4. \A w \in Workers : Hand(w) \cap Queued(w) = {}
  BY <1>1 DEF SfdPlaces
<1>5. \A w \in Workers : \A i, j \in 1 .. Len(new_conn_queue[w]) :
         item[new_conn_queue[w][i]].sfd = item[new_conn_queue[w][j]].sfd => i = j
  <2> SUFFICES ASSUME NEW w \in Workers, NEW i \in 1 .. Len(new_conn_queue[w]),
                      NEW j \in 1 .. Len(new_conn_queue[w]),
                      item[new_conn_queue[w][i]].sfd = item[new_conn_queue[w][j]].sfd
               PROVE  i = j
    OBVIOUS
  <2>1. /\ new_conn_queue[w][i] \in Elems(new_conn_queue[w])
        /\ new_conn_queue[w][j] \in Elems(new_conn_queue[w])
    BY DEF Elems
  <2>2. new_conn_queue[w][i] = new_conn_queue[w][j]
    BY <2>1 DEF SfdPlaces
  <2> QED  BY <2>2 DEF ItemPlaces, NoDuplicates
<1>6. SfdOwnedOnce <=>
        /\ openFds = Master \cup Serving
                       \cup UNION {Queued(w) \cup Hand(w) : w \in Workers}
        /\ \A b1, b2 \in bevs : b1.sfd = b2.sfd => b1 = b2
        /\ Master \cap Serving = {}
        /\ \A w \in Workers :
              /\ \A i, j \in 1 .. Len(new_conn_queue[w]) :
                    item[new_conn_queue[w][i]].sfd = item[new_conn_queue[w][j]].sfd
                      => i = j
              /\ Hand(w) \cap Queued(w) = {}
              /\ (Queued(w) \cup Hand(w)) \cap (Master \cup Serving) = {}
              /\ \A v \in Workers \ {w} :
                   (Queued(w) \cup Hand(w)) \cap (Queued(v) \cup Hand(v)) = {}
  BY DEF SfdOwnedOnce
<1> HIDE DEF Master, Queued, Hand, Serving
<1>7. openFds = Master \cup Serving \cup UNION {Queued(w) \cup Hand(w) : w \in Workers}
  <2>1. \A x : x \in UNION {Queued(w) \cup Hand(w) : w \in Workers}
                 <=> \E w \in Workers : x \in WorkerSfds[w]
    BY <1>2
  <2> QED  BY <2>1, <1>3 DEF Apart
<1>8. /\ Master \cap Serving = {}
      /\ \A w \in Workers :
            /\ (Queued(w) \cup Hand(w)) \cap (Master \cup Serving) = {}
            /\ \A v \in Workers \ {w} :
                 (Queued(w) \cup Hand(w)) \cap (Queued(v) \cup Hand(v)) = {}
  BY <1>2, <1>3 DEF Apart
<1>9. \A b1, b2 \in bevs : b1.sfd = b2.sfd => b1 = b2
  BY DEF SfdPlaces
<1> QED  BY <1>4, <1>5, <1>6, <1>7, <1>8, <1>9

LEMMA MapForm == MapEntries => MapNamesOwner
<1> SUFFICES ASSUME MapEntries PROVE MapNamesOwner
  OBVIOUS
<1>1. ASSUME NEW w \in Workers, NEW i \in 1 .. Len(new_conn_queue[w])
      PROVE  map_csfd_id_[item[new_conn_queue[w][i]].sfd] = item[new_conn_queue[w][i]].id
  <2>1. new_conn_queue[w][i] \in Elems(new_conn_queue[w])
    BY DEF Elems
  <2> QED  BY <2>1 DEF MapEntries, WorkersMapped
<1> QED
  BY <1>1 DEF MapNamesOwner, MapEntries, MasterMapped, WorkersMapped, BevsMapped

\* For every number of workers, descriptors and items per block: every CQ_ITEM
\* is in exactly one place however ConnQueueItemNew (whose second lock region
\* may find the list refilled), ConnQueuePush, ConnQueuePop and
\* ConnQueueItemFree interleave, so no two connections share an item.
THEOREM ItemOwnedOnceHolds == Spec => []ItemOwnedOnce
BY OwnershipInvariant, ItemForm, PTL DEF Ownership

\* Every conn object is in the free list, in one worker's hand or behind one
\* bufferevent, whichever workers run conn_from_freelist, conn_new and
\* conn_close at the same time.
THEOREM ConnOwnedOnceHolds == Spec => []ConnOwnedOnce
BY OwnershipInvariant, ConnForm, PTL DEF Ownership

\* Every open client descriptor belongs to exactly one connection and every
\* descriptor a connection stands for is open: ThreadLibeventProcess and
\* bufferevent_free never close a descriptor the kernel has given to another
\* client, and never leak one.
THEOREM SfdOwnedOnceHolds == Spec => []SfdOwnedOnce
BY OwnershipInvariant, SfdForm, PTL DEF Ownership

\* From the insert in AccepCb until ClientTcpErrorCb erases it, the entry of a
\* descriptor in map_csfd_id_ is the id of the connection that owns it.  The
\* proof rests on SfdPlaces: MapErase, MapInsert and ErrorCb write the entry of
\* a descriptor that no other connection has.
THEOREM MapNamesOwnerHolds == Spec => []MapNamesOwner
BY OwnershipInvariant, MapForm, PTL DEF Ownership
=============================================================================
