---------------------------- MODULE ConnDispatch ----------------------------
(***************************************************************************)
(* How a client connection travels from the master thread to a worker and  *)
(* back to the pools, in deviceOnline and userOnline (the two share this   *)
(* code): CMasterThread::AccepCb accepts a socket, binds it to an id in    *)
(* map_csfd_id_, and CWorkerThread::DispatchSfdToWorker hands it to a      *)
(* worker chosen round robin, through a queue of CQ_ITEMs and one byte     *)
(* written to the worker's pipe.  The worker takes a conn object from a    *)
(* free list and gives it a bufferevent; when the connection fails,        *)
(* ClientTcpErrorCb erases the id, returns the conn object to the free     *)
(* list and frees the bufferevent, which closes the socket in the end.     *)
(*                                                                         *)
(* Every lock region of the code is one step, so the steps of the master   *)
(* and of the workers interleave as the threads do.  What the messages on  *)
(* a connection do (login, cache, notices) is DeviceSession's subject.     *)
(***************************************************************************)
EXTENDS Integers, Sequences, FiniteSets

CONSTANTS
    thread_num_,     \* number of worker threads (CGlobalSettings)
    Fds,             \* descriptors the kernel can hand out for clients
    MaxId,           \* 65535 in GetClientfdMapId
    ITEMS_PER_ALLOC, \* CQ_ITEMs allocated at once (64)
    InitFreeTotal,   \* initial length of vec_freeconn_ (200 in conn_init)
    PipeCap,         \* bytes a notify pipe holds before write blocks
    MaxItems,        \* bound: CQ_ITEMs on the heap
    MaxConns,        \* bound: conn objects on the heap
    MaxNotifyFails   \* bound: writes to a notify pipe that may fail

ASSUME ThreadNumAssumption == thread_num_ \in Nat \ {0}
ASSUME FdsAssumption == Fds \subseteq Nat
ASSUME SizesAssumption ==
    /\ MaxId \in Nat
    /\ ITEMS_PER_ALLOC \in Nat \ {0, 1}
    /\ InitFreeTotal \in Nat \ {0}
    /\ PipeCap \in Nat \ {0}
    /\ MaxItems \in Nat
    /\ MaxConns \in Nat
    /\ MaxNotifyFails \in Nat

Workers == 0 .. thread_num_ - 1
Items   == 1 .. MaxItems
Conns   == 1 .. MaxConns
Ids     == 0 .. MaxId + 1
NoId    == -1
NoFd    == -1
Nil     == 0       \* the null pointer, for items and conns
NoBev   == [base |-> 0, sfd |-> NoFd, arg |-> Nil]

\* A CQ_ITEM's payload and the part of a conn that matters here.
Payloads == [sfd : Fds \cup {NoFd}, id : Ids \cup {NoId}]

NoPayload == [sfd |-> NoFd, id |-> NoId]

\* A bufferevent: the event base (worker) it lives on, the descriptor it owns
\* (BEV_OPT_CLOSE_ON_FREE) and the conn passed to its callbacks.
Bevs == [base : Workers, sfd : Fds \cup {NoFd}, arg : Conns]

VARIABLES
    openFds,        \* descriptors open in the kernel
    map_csfd_id_,   \* descriptor -> id, NoId when absent
    id_,            \* last id handed out
    mpc, msfd, mitem,        \* the master thread inside AccepCb
    last_thread,    \* worker of the last dispatch
    cqi_freelist,   \* free CQ_ITEMs, first is the list's head
    itemCount,      \* CQ_ITEMs allocated so far: 1 .. itemCount
    item,           \* payload of every CQ_ITEM
    new_conn_queue, \* per worker, CQ_ITEMs pushed by the master
    pipe,           \* per worker, bytes in the notify pipe
    notifyFails,    \* failed pipe writes so far
    vec_freeconn_,  \* slots 0 .. freecurr_ - 1 of the conn free list
    freetotal_,     \* its capacity
    connCount,      \* conn objects allocated so far: 1 .. connCount
    conn,           \* sfd and id of every conn
    bevs,           \* live bufferevents
    wpc, witem, wconn, wbev  \* the workers inside a callback

masterVars == <<mpc, msfd, mitem>>
itemVars   == <<cqi_freelist, itemCount, item>>
connVars   == <<vec_freeconn_, freetotal_, connCount, conn>>
workerVars == <<wpc, witem, wconn, wbev>>
netVars    == <<openFds, map_csfd_id_, id_>>
queueVars  == <<last_thread, new_conn_queue, pipe, notifyFails>>
vars == <<netVars, masterVars, queueVars, itemVars, connVars, bevs, workerVars>>

MasterSteps == {"accept", "nonblock", "erase", "insert", "item", "link",
                "push", "notify"}
WorkerSteps == {"loop", "pop", "conn", "bev", "close", "itemfree",
                "connfree", "bevfree"}

TypeOK ==
    /\ openFds \subseteq Fds
    /\ map_csfd_id_ \in [Fds -> Ids \cup {NoId}]
    /\ id_ \in Ids
    /\ mpc \in MasterSteps
    /\ msfd \in Fds \cup {NoFd}
    /\ mitem \in Items \cup {Nil}
    /\ last_thread \in Workers \cup {-1}
    /\ cqi_freelist \in Seq(Items)
    /\ itemCount \in 0 .. MaxItems
    /\ item \in [Items -> Payloads]
    /\ new_conn_queue \in [Workers -> Seq(Items)]
    /\ pipe \in [Workers -> 0 .. PipeCap]
    /\ notifyFails \in 0 .. MaxNotifyFails
    /\ vec_freeconn_ \in Seq(Conns)
    /\ freetotal_ \in Nat \ {0}
    /\ connCount \in 0 .. MaxConns
    /\ conn \in [Conns -> Payloads]
    /\ bevs \subseteq Bevs
    /\ wpc \in [Workers -> WorkerSteps]
    /\ witem \in [Workers -> Items \cup {Nil}]
    /\ wconn \in [Workers -> Conns \cup {Nil}]
    /\ wbev \in [Workers -> Bevs \cup {NoBev}]

Init ==
    /\ openFds = {}
    /\ map_csfd_id_ = [f \in Fds |-> NoId]
    /\ id_ = 0
    /\ mpc = "accept" /\ msfd = NoFd /\ mitem = Nil
    /\ last_thread = -1
    /\ cqi_freelist = <<>> /\ itemCount = 0
    /\ item = [i \in Items |-> NoPayload]
    /\ new_conn_queue = [w \in Workers |-> <<>>]
    /\ pipe = [w \in Workers |-> 0]
    /\ notifyFails = 0
    /\ vec_freeconn_ = <<>> /\ freetotal_ = InitFreeTotal
    /\ connCount = 0
    /\ conn = [c \in Conns |-> NoPayload]
    /\ bevs = {}
    /\ wpc = [w \in Workers |-> "loop"]
    /\ witem = [w \in Workers |-> Nil]
    /\ wconn = [w \in Workers |-> Nil]
    /\ wbev = [w \in Workers |-> NoBev]

-----------------------------------------------------------------------------
(* The master thread: AccepCb and DispatchSfdToWorker.                      *)

\* Never wraps.
Mut_NextId == id_ + 1

\* GetClientfdMapId: counts up and wraps to 0 after 65536.
NextId == IF id_ > MaxId THEN 0 ELSE id_ + 1

\* accept: the kernel returns some descriptor that is not open.
Accept(f) ==
    /\ mpc = "accept"
    /\ f \notin openFds
    /\ openFds' = openFds \cup {f}
    /\ msfd' = f
    /\ mpc' = "nonblock"
    /\ UNCHANGED <<map_csfd_id_, id_, mitem, queueVars, itemVars, connVars,
                   bevs, workerVars>>

\* SetSocketNoBlock fails: AccepCb closes the socket and returns.
NonBlockFails ==
    /\ mpc = "nonblock"
    /\ openFds' = openFds \ {msfd}
    /\ msfd' = NoFd
    /\ mpc' = "accept"
    /\ UNCHANGED <<map_csfd_id_, id_, mitem, queueVars, itemVars, connVars,
                   bevs, workerVars>>

\* The socket is non-blocking: take the next id.
TakeId ==
    /\ mpc = "nonblock"
    /\ id_' = NextId
    /\ mpc' = "erase"
    /\ UNCHANGED <<openFds, map_csfd_id_, msfd, mitem, queueVars, itemVars,
                   connVars, bevs, workerVars>>

\* A dispatch that trusts std::map::insert to overwrite.
Mut_MapErase ==
    /\ mpc = "erase"
    /\ mpc' = "insert"
    /\ UNCHANGED <<openFds, map_csfd_id_, id_, msfd, mitem, queueVars,
                   itemVars, connVars, bevs, workerVars>>

\* map_csfd_id_.erase(sfd): drops what an earlier owner of sfd left behind.
MapErase ==
    /\ mpc = "erase"
    /\ map_csfd_id_' = [map_csfd_id_ EXCEPT ![msfd] = NoId]
    /\ mpc' = "insert"
    /\ UNCHANGED <<openFds, id_, msfd, mitem, queueVars, itemVars, connVars,
                   bevs, workerVars>>

\* map_csfd_id_.insert(sfd, id_): std::map::insert keeps an existing entry.
MapInsert ==
    /\ mpc = "insert"
    /\ map_csfd_id_' = IF map_csfd_id_[msfd] = NoId
                       THEN [map_csfd_id_ EXCEPT ![msfd] = id_]
                       ELSE map_csfd_id_
    /\ mpc' = "item"
    /\ UNCHANGED <<openFds, id_, msfd, mitem, queueVars, itemVars, connVars,
                   bevs, workerVars>>

\* ConnQueueItemNew, first lock region: pop the free list, or else leave the
\* lock and allocate a block of items.
ItemPop ==
    /\ mpc = "item"
    /\ cqi_freelist # <<>>
    /\ mitem' = Head(cqi_freelist)
    /\ cqi_freelist' = Tail(cqi_freelist)
    /\ mpc' = "push"
    /\ UNCHANGED <<netVars, msfd, queueVars, itemCount, item, connVars, bevs,
                   workerVars>>

ItemAlloc ==
    /\ mpc = "item"
    /\ cqi_freelist = <<>>
    /\ itemCount + ITEMS_PER_ALLOC <= MaxItems
    /\ mitem' = itemCount + 1
    /\ itemCount' = itemCount + ITEMS_PER_ALLOC
    /\ mpc' = "link"
    /\ UNCHANGED <<netVars, msfd, queueVars, cqi_freelist, item, connVars,
                   bevs, workerVars>>

\* Links the whole block, the first item included.
Mut_ItemLink ==
    /\ mpc = "link"
    /\ cqi_freelist' = [i \in 1 .. ITEMS_PER_ALLOC |-> mitem + i - 1]
                           \o cqi_freelist
    /\ mpc' = "push"
    /\ UNCHANGED <<netVars, msfd, mitem, queueVars, itemCount, item, connVars,
                   bevs, workerVars>>

\* Second lock region: all items of the block but the first go in front of
\* the free list, which a worker may have refilled in the meantime.
ItemLink ==
    /\ mpc = "link"
    /\ cqi_freelist' = [i \in 1 .. ITEMS_PER_ALLOC - 1 |-> mitem + i]
                           \o cqi_freelist
    /\ mpc' = "push"
    /\ UNCHANGED <<netVars, msfd, mitem, queueVars, itemCount, item, connVars,
                   bevs, workerVars>>

\* The round-robin choice of DispatchSfdToWorker.
NextThread == (last_thread + 1) % thread_num_

\* Writes the byte before it pushes the item.
Mut_QueuePush ==
    /\ mpc = "push"
    /\ \/ /\ pipe[NextThread] < PipeCap
          /\ pipe' = [pipe EXCEPT ![NextThread] = @ + 1]
          /\ UNCHANGED <<new_conn_queue, last_thread, item, mpc, msfd, mitem>>
       \/ /\ last_thread' = NextThread
          /\ item' = [item EXCEPT ![mitem] = [sfd |-> msfd, id |-> id_]]
          /\ new_conn_queue' =
                [new_conn_queue EXCEPT ![NextThread] = Append(@, mitem)]
          /\ mpc' = "accept" /\ msfd' = NoFd /\ mitem' = Nil
          /\ UNCHANGED pipe
    /\ UNCHANGED <<netVars, notifyFails, cqi_freelist, itemCount, connVars,
                   bevs, workerVars>>

\* The item is filled in and ConnQueuePush appends it under the queue's lock.
QueuePush ==
    /\ mpc = "push"
    /\ last_thread' = NextThread
    /\ item' = [item EXCEPT ![mitem] = [sfd |-> msfd, id |-> id_]]
    /\ new_conn_queue' =
          [new_conn_queue EXCEPT ![NextThread] = Append(@, mitem)]
    /\ mpc' = "notify"
    /\ msfd' = NoFd
    /\ mitem' = Nil
    /\ UNCHANGED <<netVars, pipe, notifyFails, cqi_freelist, itemCount,
                   connVars, bevs, workerVars>>

\* Writes a byte only when the queue was empty before the push.
Mut_Notify ==
    /\ mpc = "notify"
    /\ pipe[last_thread] < PipeCap
    /\ pipe' = IF Len(new_conn_queue[last_thread]) > 1 THEN pipe
               ELSE [pipe EXCEPT ![last_thread] = @ + 1]
    /\ mpc' = "accept"
    /\ UNCHANGED <<netVars, msfd, mitem, last_thread, new_conn_queue,
                   notifyFails, itemVars, connVars, bevs, workerVars>>

\* write(notify_send_fd, "c", 1); the pipe is a blocking one.
Notify ==
    /\ mpc = "notify"
    /\ pipe[last_thread] < PipeCap
    /\ pipe' = [pipe EXCEPT ![last_thread] = @ + 1]
    /\ mpc' = "accept"
    /\ UNCHANGED <<netVars, msfd, mitem, last_thread, new_conn_queue,
                   notifyFails, itemVars, connVars, bevs, workerVars>>

\* The write fails; the code logs it and leaves the item in the queue.
NotifyFails ==
    /\ mpc = "notify"
    /\ notifyFails < MaxNotifyFails
    /\ notifyFails' = notifyFails + 1
    /\ mpc' = "accept"
    /\ UNCHANGED <<netVars, msfd, mitem, last_thread, new_conn_queue, pipe,
                   itemVars, connVars, bevs, workerVars>>

-----------------------------------------------------------------------------
(* A worker: ThreadLibeventProcess and conn_new.                            *)

\* read(fd, buf, 1): the pipe is readable.
ReadNotify(w) ==
    /\ wpc[w] = "loop"
    /\ pipe[w] > 0
    /\ pipe' = [pipe EXCEPT ![w] = @ - 1]
    /\ wpc' = [wpc EXCEPT ![w] = "pop"]
    /\ UNCHANGED <<netVars, masterVars, last_thread, new_conn_queue,
                   notifyFails, itemVars, connVars, bevs, witem, wconn, wbev>>

\* ConnQueuePop: NULL sends the worker back to its event loop.
QueuePop(w) ==
    /\ wpc[w] = "pop"
    /\ IF new_conn_queue[w] = <<>>
       THEN /\ wpc' = [wpc EXCEPT ![w] = "loop"]
            /\ UNCHANGED <<witem, new_conn_queue>>
       ELSE /\ witem' = [witem EXCEPT ![w] = Head(new_conn_queue[w])]
            /\ new_conn_queue' = [new_conn_queue EXCEPT ![w] = Tail(@)]
            /\ wpc' = [wpc EXCEPT ![w] = "conn"]
    /\ UNCHANGED <<netVars, masterVars, last_thread, pipe, notifyFails,
                   itemVars, connVars, bevs, wconn, wbev>>

\* Reads the slot without giving it up (vec_freeconn_.at(freecurr_ - 1)).
Mut_ConnFromFreelist(w) ==
    /\ wpc[w] = "conn"
    /\ vec_freeconn_ # <<>>
    /\ wconn' = [wconn EXCEPT ![w] = vec_freeconn_[Len(vec_freeconn_)]]
    /\ wpc' = [wpc EXCEPT ![w] = "bev"]
    /\ UNCHANGED <<netVars, masterVars, queueVars, itemVars, vec_freeconn_,
                   freetotal_, connCount, conn, bevs, witem, wbev>>

\* conn_from_freelist: the last used slot of vec_freeconn_.
ConnFromFreelist(w) ==
    /\ wpc[w] = "conn"
    /\ vec_freeconn_ # <<>>
    /\ wconn' = [wconn EXCEPT ![w] = vec_freeconn_[Len(vec_freeconn_)]]
    /\ vec_freeconn_' = SubSeq(vec_freeconn_, 1, Len(vec_freeconn_) - 1)
    /\ wpc' = [wpc EXCEPT ![w] = "bev"]
    /\ UNCHANGED <<netVars, masterVars, queueVars, itemVars, freetotal_,
                   connCount, conn, bevs, witem, wbev>>

\* The free list is empty: a new conn with its two buffers.
ConnAlloc(w) ==
    /\ wpc[w] = "conn"
    /\ vec_freeconn_ = <<>>
    /\ connCount < MaxConns
    /\ connCount' = connCount + 1
    /\ wconn' = [wconn EXCEPT ![w] = connCount + 1]
    /\ wpc' = [wpc EXCEPT ![w] = "bev"]
    /\ UNCHANGED <<netVars, masterVars, queueVars, itemVars, vec_freeconn_,
                   freetotal_, conn, bevs, witem, wbev>>

\* bad_alloc on a buffer: conn_free gives the new conn back to the heap and
\* conn_new returns NULL.  It also deletes buffer pointers that were never set:
\* where that ends the process, it ends the behaviour here.
ConnAllocFails(w) ==
    /\ wpc[w] = "conn"
    /\ vec_freeconn_ = <<>>
    /\ wpc' = [wpc EXCEPT ![w] = "close"]
    /\ UNCHANGED <<netVars, masterVars, queueVars, itemVars, connVars, bevs,
                   witem, wconn, wbev>>

\* conn_new fills the conn in and gives the socket a bufferevent.
BevNew(w) ==
    /\ wpc[w] = "bev"
    /\ conn' = [conn EXCEPT ![wconn[w]] = item[witem[w]]]
    /\ bevs' = bevs \cup {[base |-> w, sfd |-> item[witem[w]].sfd,
                           arg |-> wconn[w]]}
    /\ wconn' = [wconn EXCEPT ![w] = Nil]
    /\ wpc' = [wpc EXCEPT ![w] = "itemfree"]
    /\ UNCHANGED <<netVars, masterVars, queueVars, itemVars, vec_freeconn_,
                   freetotal_, connCount, witem, wbev>>

\* Tests freecurr_ <= freetotal_.
Mut_AddToFreelist(c) ==
    /\ conn' = [conn EXCEPT ![c] = NoPayload]
    /\ freetotal_' = IF Len(vec_freeconn_) <= freetotal_ THEN freetotal_
                     ELSE freetotal_ * 2
    /\ vec_freeconn_' = Append(vec_freeconn_, c)

\* conn_add_to_freelist: a full list doubles its capacity first.  The sfd and
\* id left in the conn are overwritten before they are read again (conn_new);
\* the model forgets them.
AddToFreelist(c) ==
    /\ conn' = [conn EXCEPT ![c] = NoPayload]
    /\ freetotal_' = IF Len(vec_freeconn_) < freetotal_ THEN freetotal_
                     ELSE freetotal_ * 2
    /\ vec_freeconn_' = Append(vec_freeconn_, c)

\* bufferevent_socket_new fails: the conn goes back, conn_new returns NULL.
BevNewFails(w) ==
    /\ wpc[w] = "bev"
    /\ AddToFreelist(wconn[w])
    /\ wconn' = [wconn EXCEPT ![w] = Nil]
    /\ wpc' = [wpc EXCEPT ![w] = "close"]
    /\ UNCHANGED <<netVars, masterVars, queueVars, itemVars, connCount, bevs,
                   witem, wbev>>

\* Returns without closing the socket.
Mut_CloseSfd(w) ==
    /\ wpc[w] = "close"
    /\ wpc' = [wpc EXCEPT ![w] = "itemfree"]
    /\ UNCHANGED <<netVars, masterVars, queueVars, itemVars, connVars, bevs,
                   witem, wconn, wbev>>

\* ThreadLibeventProcess after conn_new returned NULL: close(item->sfd).
CloseSfd(w) ==
    /\ wpc[w] = "close"
    /\ openFds' = openFds \ {item[witem[w]].sfd}
    /\ wpc' = [wpc EXCEPT ![w] = "itemfree"]
    /\ UNCHANGED <<map_csfd_id_, id_, masterVars, queueVars, itemVars,
                   connVars, bevs, witem, wconn, wbev>>

\* ConnQueueItemFree: the item becomes the head of the free list.  What it
\* still holds is overwritten before it is read again; the model forgets it.
ItemFree(w) ==
    /\ wpc[w] = "itemfree"
    /\ item' = [item EXCEPT ![witem[w]] = NoPayload]
    /\ cqi_freelist' = <<witem[w]>> \o cqi_freelist
    /\ witem' = [witem EXCEPT ![w] = Nil]
    /\ wpc' = [wpc EXCEPT ![w] = "loop"]
    /\ UNCHANGED <<netVars, masterVars, queueVars, itemCount, connVars, bevs,
                   wconn, wbev>>

-----------------------------------------------------------------------------
(* A worker: ClientTcpErrorCb and conn_close, for EOF, error and timeout.   *)

\* map_csfd_id_.erase(sfd), while the socket is still open.
ErrorCb(w, b) ==
    /\ wpc[w] = "loop"
    /\ b.base = w
    /\ map_csfd_id_' = [map_csfd_id_ EXCEPT ![b.sfd] = NoId]
    /\ wbev' = [wbev EXCEPT ![w] = b]
    /\ wpc' = [wpc EXCEPT ![w] = "connfree"]
    /\ UNCHANGED <<openFds, id_, masterVars, queueVars, itemVars, connVars,
                   bevs, witem, wconn>>

\* conn_close: bufferevent_free unhooks the bufferevent, and the conn object
\* goes back to the free list.
ConnFree(w) ==
    /\ wpc[w] = "connfree"
    /\ AddToFreelist(wbev[w].arg)
    /\ wpc' = [wpc EXCEPT ![w] = "bevfree"]
    /\ UNCHANGED <<netVars, masterVars, queueVars, itemVars, connCount, bevs,
                   witem, wconn, wbev>>

\* The map entry is erased (again) after the close.
Mut_BevFree(w) ==
    /\ wpc[w] = "bevfree"
    /\ \/ /\ wbev[w] \in bevs
          /\ bevs' = bevs \ {wbev[w]}
          /\ openFds' = openFds \ {wbev[w].sfd}
          /\ UNCHANGED <<map_csfd_id_, wbev, wpc>>
       \/ /\ wbev[w] \notin bevs
          /\ map_csfd_id_' = [map_csfd_id_ EXCEPT ![wbev[w].sfd] = NoId]
          /\ wbev' = [wbev EXCEPT ![w] = NoBev]
          /\ wpc' = [wpc EXCEPT ![w] = "loop"]
          /\ UNCHANGED <<bevs, openFds>>
    /\ UNCHANGED <<id_, masterVars, queueVars, itemVars, connVars, witem, wconn>>

\* The callback returns.  libevent has kept the bufferevent until now and drops
\* it: the socket is closed and may be reused from here on.
BevFree(w) ==
    /\ wpc[w] = "bevfree"
    /\ bevs' = bevs \ {wbev[w]}
    /\ openFds' = openFds \ {wbev[w].sfd}
    /\ wbev' = [wbev EXCEPT ![w] = NoBev]
    /\ wpc' = [wpc EXCEPT ![w] = "loop"]
    /\ UNCHANGED <<map_csfd_id_, id_, masterVars, queueVars, itemVars,
                   connVars, witem, wconn>>

-----------------------------------------------------------------------------
MasterAfterAccept ==
    \/ NonBlockFails \/ TakeId \/ MapErase \/ MapInsert
    \/ ItemPop \/ ItemAlloc \/ ItemLink \/ QueuePush \/ Notify \/ NotifyFails

WorkerContinues(w) ==
    \/ QueuePop(w) \/ ConnFromFreelist(w) \/ ConnAlloc(w) \/ ConnAllocFails(w)
    \/ BevNew(w) \/ BevNewFails(w) \/ CloseSfd(w) \/ ItemFree(w)
    \/ ConnFree(w) \/ BevFree(w)

Next ==
    \/ \E f \in Fds : Accept(f)
    \/ MasterAfterAccept
    \/ \E w \in Workers :
          \/ ReadNotify(w)
          \/ WorkerContinues(w)
          \/ \E b \in bevs : ErrorCb(w, b)

Spec == Init /\ [][Next]_vars

\* A thread inside a callback keeps running.  libevent runs every active event
\* of a base in each turn of its loop, so a readable pipe is served even when
\* connections of the same worker keep failing: strong fairness of ReadNotify.
Fairness ==
    /\ WF_vars(MasterAfterAccept)
    /\ \A w \in Workers : WF_vars(WorkerContinues(w)) /\ SF_vars(ReadNotify(w))

FairSpec == Spec /\ Fairness

-----------------------------------------------------------------------------
(* Properties.                                                              *)

Elems(s) == {s[i] : i \in 1 .. Len(s)}

NoDuplicates(s) == \A i, j \in 1 .. Len(s) : s[i] = s[j] => i = j

\* Workers between ConnQueuePop and ConnQueueItemFree, and those of them that
\* have not passed the socket on or closed it yet.
HoldsItem(w) == wpc[w] \in {"conn", "bev", "close", "itemfree"}
HoldsSfd(w)  == wpc[w] \in {"conn", "bev", "close"}

\* Every CQ_ITEM is in exactly one place: the free list, a worker's queue, the
\* hand of the master or the hand of a worker (ConnQueueItemNew, ConnQueuePush,
\* ConnQueuePop, ConnQueueItemFree).  An item in two places would hand one
\* worker the connection of another; the block being linked has no place yet.
ItemOwnedOnce ==
    LET InQueue(w) == Elems(new_conn_queue[w])
        Linking    == IF mpc = "link"
                      THEN mitem + 1 .. mitem + ITEMS_PER_ALLOC - 1 ELSE {}
        MasterHand == IF mpc \in {"link", "push"} THEN {mitem} ELSE {}
        Hand(w)    == IF HoldsItem(w) THEN {witem[w]} ELSE {}
        Free       == Elems(cqi_freelist)
    IN  /\ NoDuplicates(cqi_freelist)
        /\ \A w \in Workers : NoDuplicates(new_conn_queue[w])
        /\ \A w \in Workers :
              /\ Free \cap (InQueue(w) \cup Hand(w)) = {}
              /\ Hand(w) \cap InQueue(w) = {}
              /\ (MasterHand \cup Linking) \cap (InQueue(w) \cup Hand(w)) = {}
              /\ \A v \in Workers \ {w} :
                    (InQueue(w) \cup Hand(w)) \cap (InQueue(v) \cup Hand(v)) = {}
        /\ Free \cap (MasterHand \cup Linking) = {}
        /\ Free \cup MasterHand \cup Linking
             \cup UNION {InQueue(w) \cup Hand(w) : w \in Workers} = 1 .. itemCount

\* The bufferevents that bufferevent_free has not unhooked.
Hooked == {b \in bevs : \A w \in Workers : wpc[w] = "bevfree" => wbev[w] # b}

\* Every conn object is in exactly one place: the free list, a worker's hand or
\* one bufferevent (conn_from_freelist, conn_new, conn_close).  A conn in two
\* places would be filled in by one worker while another serves it.
ConnOwnedOnce ==
    LET Hand(w) == IF wpc[w] = "bev" THEN {wconn[w]} ELSE {}
        Serving == {b.arg : b \in Hooked}
        Free    == Elems(vec_freeconn_)
    IN  /\ NoDuplicates(vec_freeconn_)
        /\ \A b1, b2 \in Hooked : b1.arg = b2.arg => b1 = b2
        /\ Free \cap Serving = {}
        /\ \A w \in Workers :
              /\ Hand(w) \cap (Free \cup Serving) = {}
              /\ \A v \in Workers \ {w} : Hand(w) \cap Hand(v) = {}
        /\ Free \cup Serving \cup UNION {Hand(w) : w \in Workers} = 1 .. connCount

\* The descriptors that a queued item, a worker's item or a bufferevent stands
\* for are open and pairwise different, and no open one is forgotten: the code
\* never closes a descriptor that the kernel has meanwhile given to another
\* client, and never leaks one (close in ThreadLibeventProcess, and
\* BEV_OPT_CLOSE_ON_FREE).
SfdOwnedOnce ==
    LET Master   == IF msfd = NoFd THEN {} ELSE {msfd}
        QueueSfds(w) == {item[new_conn_queue[w][i]].sfd :
                             i \in 1 .. Len(new_conn_queue[w])}
        Hand(w)  == IF HoldsSfd(w) THEN {item[witem[w]].sfd} ELSE {}
        Serving  == {b.sfd : b \in bevs}
    IN  /\ openFds = Master \cup Serving
                       \cup UNION {QueueSfds(w) \cup Hand(w) : w \in Workers}
        /\ \A b1, b2 \in bevs : b1.sfd = b2.sfd => b1 = b2
        /\ Master \cap Serving = {}
        /\ \A w \in Workers :
              /\ \A i, j \in 1 .. Len(new_conn_queue[w]) :
                    item[new_conn_queue[w][i]].sfd = item[new_conn_queue[w][j]].sfd
                      => i = j
              /\ Hand(w) \cap QueueSfds(w) = {}
              /\ (QueueSfds(w) \cup Hand(w)) \cap (Master \cup Serving) = {}
              /\ \A v \in Workers \ {w} :
                   (QueueSfds(w) \cup Hand(w)) \cap (QueueSfds(v) \cup Hand(v)) = {}

\* map_csfd_id_ answers "which connection owns this descriptor" correctly for
\* as long as the connection exists: from the insert in AccepCb until
\* ClientTcpErrorCb erases it, the entry of a descriptor is the id of the
\* connection that owns it, wherever that connection is.  It holds only
\* because ClientTcpErrorCb erases the entry before the descriptor is closed.
MapNamesOwner ==
    /\ mpc \in {"item", "link", "push"} => map_csfd_id_[msfd] = id_
    /\ \A w \in Workers :
          /\ \A i \in 1 .. Len(new_conn_queue[w]) :
                LET p == item[new_conn_queue[w][i]] IN map_csfd_id_[p.sfd] = p.id
          /\ HoldsSfd(w) =>
                map_csfd_id_[item[witem[w]].sfd] = item[witem[w]].id
    /\ \A b \in Hooked :
          /\ conn[b.arg].sfd = b.sfd
          /\ (\A w \in Workers : wbev[w] # b)
                => map_csfd_id_[b.sfd] = conn[b.arg].id

\* Items of w's queue that no byte announces: not in the pipe, not read by the
\* worker and not about to be written by the master.
Unannounced(w) ==
    Len(new_conn_queue[w]) - pipe[w] - (IF wpc[w] = "pop" THEN 1 ELSE 0)
        - (IF mpc = "notify" /\ last_thread = w THEN 1 ELSE 0)

\* "a byte represents a connection": a worker that read a byte always finds an
\* item, because the item is pushed before the byte is written, and no item is
\* left without a byte unless a write to the pipe failed, one for each failure.
BytesMatchItems ==
    \A w \in Workers : 0 <= Unannounced(w) /\ Unannounced(w) <= notifyFails

\* vec_freeconn_.at(freecurr_++) stays inside the vector however many conns
\* come back at once.
FreelistInBounds == Len(vec_freeconn_) <= freetotal_

\* Every accepted socket is eventually given to libevent or closed, whatever
\* the other connections of its worker do and although a full pipe blocks the
\* master, unless a write to a pipe failed.
EventuallyServed ==
    \A f \in Fds : f \in openFds ~>
        (f \notin openFds \/ (\E b \in bevs : b.sfd = f) \/ notifyFails > 0)
=============================================================================
