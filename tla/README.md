# Verification of the alarm servers

TLA+ specifications of the servers in this repository, the TLC configurations
that check them on small instances, and TLAPS proofs of what matters most.
`PROJECT.json` lists the components, the runs, the map from definitions to
source lines, the mutants, the hazards and the theorems.

## 1. The system

The repository holds three C++ servers and what they share.

* **deviceOnline** keeps TCP connections of devices. A device logs in, sends
  heartbeats, receives pushed messages and replies to them.
* **userOnline** does the same for users; its connection code is the same,
  nearly line by line.
* **voice_server** joins a client and a device into a voice channel.

An HTTP server stands behind them: it learns from notices who is online, finds
a device's address in Redis and sends push requests over a local socket.

### Threads of deviceOnline and userOnline

| thread | code | does |
|---|---|---|
| main, then master | `master_thread.cc` | accepts sockets, hands them to workers |
| workers (`thread_num_`) | `worker_threads.cc`, `logic_opt.cc` | one libevent loop each: reads, session logic, disconnects |
| local transport | `local_transport.cc` | receives push requests of the HTTP server |
| push thread | `push_msg_queue.cc` | writes pushes to devices |
| HTTP client | `util/http_client.cc` | sends the state notices |

The voice server is written for two masters (JSON, TLV) with a worker each, and a
timer thread for pushes that wait for a reply. As it stands only the TLV master
starts and the timer thread never does (section 5).

### Inventory

| component | state | operations | hard behaviour | what makes it correct |
|---|---|---|---|---|
| connection dispatch | `map_csfd_id_`, id counter, CQ_ITEM free list, per-worker queue and pipe, conn free list, bufferevents | accept, dispatch, conn_new, disconnect | master and workers share lists and descriptors; descriptors are reused at once; allocations and writes fail | each item, conn and descriptor has one owner; the map names the owner; every queued item is announced; every socket is served |
| worker start-up | `init_count_`, condition variable | create, register, wait | a signal nobody waits for, a wake-up without a signal | InitThread returns, and not too early (it does neither) |
| CRLF framing | `rBuf`, `rlen` | ClientTcpReadCb | TCP cuts anywhere; one read per callback | each message handled once, in order |
| device session | `is_login`, `is_online`, `dev_id`; the device's hash in Redis; notices | login, heartbeat, disconnect, restart | failing commands, early disconnects, overlapping connections, crashes, reused descriptors | Redis and the notices agree with the connections |
| push relay | PushMsgQueue, WaitFinishPushMsgQueue, response contexts | HandleMsg, Entry, FinishPushMsg | reply races registration, repeated replies to contexts that are gone, lost wake-ups | requests are taken up in order; each is refused once or delivered and then answered by its own replies |
| local transport | sockets of requesters | AcceptCb, ReadCb, ErrorCb, the answer | a requester leaves before the answer; main creates the push queue late | every request it reads is taken up |
| Redis pool and commands | queue of `redisContext`; the databases | get, release, select, each command | a context freed on a missing reply is used again; NULL contexts | a context is held by one thread and is live; a refused call changed nothing |
| HTTP client | dispatch queue | SubmitMsg, Entry, MakeHttpReq, http_request_done, Stop | lost wake-ups, unanswered requests | every notice is requested once and in order |
| user session | `guid`, `is_online`, the session's descriptor in Redis | UserBeacon, disconnect, start-up | shared and changed sessions, failing commands | entries name open connections of their session |
| voice: masters, workers, framing | queue, pipe, `in_buffer` | AcceptCb, RecvNotifiedCb, ClientTcpReadCb | torn headers, lengths from the wire, refused messages | each message handled once; connections are served |
| voice: channels, dispatcher | maps of channels | build, free, route, push, reply | bufferevents and descriptors are freed and reused | the maps name live connections |
| voice: push timer | `schedule_`, `events_` | AddEventAfter, GetAndCancelEvent, Entry | a timeout races a reply; signals for a new first push only | each push is answered at most once, in time |

`PROJECT.json` "hazards" gives, for each hard spot, the line where it bites and
the properties that cover it.

### How the components interact

The master gives a worker a descriptor through a CQ_ITEM in the worker's queue
and one byte in its pipe (ConnDispatch). The worker's read callback cuts the
bytes into messages (CrlfFraming) and each message runs a handler
(DeviceSession, UserOnline), which takes a context from the pool (RedisPool),
runs commands (RedisOpt) and submits notices (HttpClient). Push requests come
through the local transport (LocalTransport) into the push queue (PushRelay);
the push thread reads Redis and writes to a descriptor it does not own. The reply comes back through a worker and is
matched by number (PushRelay). In the voice server, VoiceWorker hands messages
to the dispatcher (VoiceChannel), whose pushes wait in PushTimer.

## 2. Modules

One module for each component; an action is one lock region, one Redis command
or one system call, so threads interleave exactly where the code lets them. The
MC modules only give constants their values. Every definition that models code
is in the map with its lines. Definitions named `Mut_...` stand in no
specification: each is a plausible bug that one property must catch.

Compositions: LocalTransport extends PushRelay, VoiceChannel extends PushTimer,
RedisPool extends RedisOpt. Refinement: PushRelay implements PushService. The
theorems of a component are in its `_proofs` module; LocalTransport_proofs has
those of PushRelay, RedisPool_proofs those of RedisOpt, VoiceChannel_proofs
those of PushTimer. Framing_proofs is about CrlfFraming and VoiceWorker,
Threads_proofs about WorkerInit and HttpClient.

A history variable `disturbed` occurs in several modules. It remembers which of
the things the code does not stand have happened (a failed command, two
connections of one device, ...), and a property names the ones it tolerates; so
the properties hold of the code as it is, and say where its guarantees end.

### ConnDispatch

State: the descriptors open in the kernel, `map_csfd_id_`, the id counter; the
master's place in `AccepCb` (`mpc`, `msfd`, `mitem`); the CQ_ITEM and conn free
lists, the worker queues and pipes, the bufferevents; each worker's place in a
callback (`wpc`, `witem`, `wconn`, `wbev`).

| code | actions |
|---|---|
| `CMasterThread::AccepCb` | Accept, NonBlockFails, TakeId, MapErase, MapInsert |
| `ConnQueueItemNew` | ItemPop, ItemAlloc, ItemLink |
| `DispatchSfdToWorker` | QueuePush, Notify, NotifyFails |
| `ThreadLibeventProcess` | ReadNotify, QueuePop, CloseSfd, ItemFree |
| `conn_new` | ConnFromFreelist, ConnAlloc, ConnAllocFails, BevNew, BevNewFails |
| `ClientTcpErrorCb`, `conn_close` | ErrorCb, ConnFree, BevFree |

Abstractions: the payload of an item or a conn is its descriptor and id. What a
freed item or conn still holds is overwritten before it is read again; the
model forgets it at once. `std::map::insert` keeps an existing entry, and the
model says so. libevent closes the socket of a bufferevent that is freed inside
its own callback when that callback returns; so the conn is back in the free list
(ConnFree) before the descriptor is closed (BevFree). `conn_free` of a conn whose
buffers could not be allocated deletes pointers that were never set
(ConnAllocFails): where the process survives that, it goes on as modelled.

### WorkerInit

`InitThread`: CreateWorker, WaitForThreadRegistration, and
RegisterThreadInitialized of each worker. A signal moves the main thread only
when it waits. `pthread_cond_wait` is called once and without a predicate, so
SpuriousWakeup lets InitThread go on.

### CrlfFraming

One action, `ClientTcpReadCb(n)`: libevent takes `n` bytes from the socket and
calls back, and the callback reads once, as much as `rBuf` has room for; the rest
waits in the bufferevent for the next callback. A cut may fall anywhere, between
CR and LF too. Bytes are numbers, a body is any sequence of them without CR and
LF. `SplitData` (a recursive function over positions in the buffer), `FindCRLF`
and `find_last_of` are operators. `LostBy` says of the cuts alone which messages
they cost, and `Kept` and `CompleteIn` are the reference the callback is compared
with.
The token check in the callback never runs, because `conn_new` sets `isVerify`.

### DeviceSession

State: for each descriptor, the device at its other end, the conn's `is_login`,
`is_online` and `dev_id`, and where its worker is in a handler; the device's
hash in Redis (`fd` and three address fields); the last notice for each device.

One action for each Redis command, notice or socket operation of `DeviceLogin`,
`DeviceBeacon`, `ClientTcpErrorCb` and `ClearDeviceCache`. A failed command is an error reply.
`SetDeviceAddrCacheFails` lets the rollback's own commands fail. Commands fail
(at most `MaxFails` handlers), a connection fails between login and first
heartbeat, a device connects again while its old connection lingers,
ClearDeviceCache does not get through: each is a disturbance, and a start whose
ClearDeviceCache was complete clears them.

### PushRelay, PushService, LocalTransport

PushRelay: PushMsgQueue, the push thread's place in `Entry`,
WaitFinishPushMsgQueue, replies under way, and the response contexts by address:
what address each push's pointer holds (`ct`), which addresses hold a context
(`live`) and whose context was there last (`owner`). FinishPushMsg leaves the
entry in the map, so its pointer outlives the context, and a new context may get
the same address. `misused` remembers the pushes whose pointer was completed when
it no longer named their own context. Any device may reply with any push's
number, at any time, up to `MaxReplies` times. After a wait the thread tests `stop_` first, after a message
it does not; so a stop can leave requests in the queue, as in the code.

PushService is what this promises to the HTTP server: Ask, Deliver, Refuse and
Answer, without threads, queues and locks. The mapping (`Service`) counts what
is neither queued nor in hand as handled, takes the completed pushes that were
never registered for the refused ones, and counts answers by the push through
whose pointer they were given.

LocalTransport puts `CLocalTransport` in front of the relay: requesters connect,
send batches of messages and leave; main creates and starts the push queue after
the transport. Completing a context that is gone is a crash or has the effects of
Complete, whatever the memory holds. The answer goes to a bare descriptor that
the kernel may have given to somebody else, and WriteSfd gives up after three
seconds: nothing can be promised about who receives it, and descriptors are left
out. A push request that comes before the queue exists ends the process
(HandlePushTooEarly).

### RedisOpt, RedisPool

RedisOpt has every command of `CRedisOpt` as a function from a database to a
record: the database afterwards, what the call returns and hands out, and
whether it reads a reply that it has freed. The reply types are those the code
tests, command by command (`Hget` takes several for success, `LLen` returns a reply
type, `Hscan` is sent without a key and always refused). Strings are decimal
text or other text, because INCR tells them apart.

RedisPool: `GetRedisContext`, `SelectDB`, one command, `ReleaseRedisContext` for
each thread. A command without a reply may have been executed or not; it frees its
context while the caller keeps the address; the allocator may give the address out again (CreateNew picks any
free address). A dangling context is undefined behaviour: a crash, or
a command on whatever holds the address now.

### HttpClient

SubmitMsg, Entry, MakeHttpReq, http_request_done and Stop. The connection of a
request is freed in http_request_done only when there is a response.

### UserOnline

The sessions of userOnline: ClearGuidFdCache with SCAN and DEL at start-up,
conn_new, UserBeacon with CheckSessionId, the SET and DEL of the session's entry,
ClientTcpErrorCb with the logout notice. Its pushes go through copies of
deviceOnline's queue, map and transport (PushRelay, LocalTransport).
`Set`, `Del` and `Scan` are its own copy of `CRedisOpt`, each of which may
fail. CheckSessionId is an arbitrary answer of the web server's database.
`conn_->guid` is overwritten before it is compared, and the model keeps the code's order.

### VoiceWorker

Masters with one worker each: AcceptCb, the queue and pipe, RecvNotifiedCb,
ClientTcpReadCb for TLV, ClientTcpErrorCb. The run has the one master that
`run_master` starts, a TLV master; RunMaster is the call on NULL that ends the
process at any time after that. The JSON protocol is never served and
`Master::Shutdown` never called, so neither is modelled. A handler may refuse a
message or fail to write its answer, to a peer that left or that does not read
for three seconds (TlvRefused), and a heartbeat logged at debug level formats a
number as a string (TlvHeartbeatLogged). Streams are
counted in words of four bytes; `Ends` of the module Lengths says after how many
words each message ends, and `done` counts the messages handled. The header is tested with 8 bytes
(`kMsgHeaderSize`) and read with 12, so a torn header reads a stale length; an
incomplete message makes the read loop spin; lengths of 8 to 11 wrap below zero.

### VoiceChannel, PushTimer

PushTimer: `schedule_` (by time) and `events_` (by number) under one mutex, the
timer thread's loop with its stale clock reading, and its completion outside the
mutex. It is the class as it would run; whether something starts the thread is
the constant `MayStart`, and no code of this repository does. VoiceChannel: the
maps of VoiceChannelManager, the handlers of
TlvDispatcher, bufferevents and descriptors that are freed and reused, libevent's
delayed free inside a connection's own callback; freeing what is free is
ignored or a crash.

## 3. Runs

| run | shows | bounds |
|---|---|---|
| `dispatch` | ownership of items, conns and descriptors; `map_csfd_id_` names owners; bytes match items, and a failed pipe write strands one item and breaks nothing else; the free list stays in its vector; every accepted socket is served or closed unless a pipe write failed | 2 workers, 2 descriptors, ids wrap at once, pipes of 1 byte (the master blocks), blocks of 2 items, free list of 1, 1 failed write |
| `worker_init` | InitThread returns if it waits before the last worker registers | 6 workers |
| `worker_init_lost` (violated) | InitThread never returns: the last worker's signal came before the wait | 6 workers |
| `framing` | exactly the messages of `LostBy` are lost, all others handled once and in order; nothing waits in the bufferevent if messages leave room for a read | 4 messages of 2 to 12 bytes, reads of up to 6, `rBuf` of 11: some messages fill it or do not fit |
| `session` | Redis and the notices agree with the connections until a disturbance and again after a clean start; one failed command never leaves half an address; every online notice is sent with a complete entry | 2 descriptors, 2 devices, 2 failing handlers, 1 restart |
| `relay` | only a second reply makes the server complete a context that is gone or another's; the relay implements PushService; no request is lost by the start-up order or the condition variable | 2 pushes, 2 replies each, 2 addresses, 2 requesters, 2 messages in a read, a stop at any moment |
| `redis` | a context has one owner unless a reply was lost; commands run in their caller's database; a refused call changed nothing | 2 threads in different databases, 3 addresses, pool of 1, 2 faults, all commands on 1 key |
| `http` | each notice is requested once, in order and in the end | 4 notices, a stop at any moment |
| `user` | entries name open connections of their session, online users are found, logged-out ones are gone | 2 sessions, 3 descriptors, entries of an earlier process, 2 failing commands |
| `voice_worker` | messages are handled once; a worker hangs only on messages that came in torn; connections are served | the TLV master, 2 connections, 3 messages, a buffer that two messages overflow |
| `push_timer` | each push is answered at most once; the timer thread never sleeps past a deadline | 3 pushes, timeouts 1 and 2, clock to 3, the thread starts at any moment |
| `voice_channel` | the maps name live connections while the protocol is followed | 3 connections on 2 descriptors and 2 addresses, 3 channel requests, 1 push |

Why the bounds are enough. The interactions are pairwise: two owners of one
descriptor, one old and one new, two workers at a free list, a master and a
worker at a queue, a reply and a timeout. Two descriptors let one be reused
while the other lives; three connections on two of them let a third take over
from the first while the second holds on. A free list of one slot and blocks of
two items make growth and refilling happen in few steps. `MaxItems` and
`MaxConns` of ConnDispatch stop nothing: whenever the master finds
the free list empty, a block still fits. Two timeouts let a later push be due
first. In `redis`, a pool of one context and three addresses make threads create
contexts of their own and reuse freed addresses; two faults are a lost reply and
what follows from it. In `relay`, two addresses let the second push's context be
at the address that the first one's entry still names. Each property has a mutant (`PROJECT.json`) that it catches
at these bounds.

Symmetry is used for descriptors, devices, sessions, contexts and addresses,
which the modules only compare, and only where no liveness property is checked.

### Fairness

* ConnDispatch: a thread inside a callback keeps running (weak fairness of the
  master after an accept, of each worker inside a callback). A readable pipe is
  served although connections of the same worker keep failing, because one turn
  of libevent's loop runs every active event: strong fairness of ReadNotify.
  Clients get no fairness.
* LocalTransport: weak fairness of main, of the transport once it has messages,
  of the push thread and of the workers' handling of replies that have arrived.
  Requesters, devices, Stop and spurious wake-ups get none.
* HttpClient: the thread runs, and every request ends (its timeout is 200 ms).
* VoiceWorker: a master that has queued a connection notifies, and workers run.
  Peers and RunMaster get none.
* WorkerInit: every thread is scheduled; a wake-up without a signal is not owed.

CrlfFraming, PushTimer and VoiceChannel are checked without fairness: bytes in a
bufferevent get no callback of their own, and nothing starts the timer thread.

`CHECK_DEADLOCK FALSE` stands where the system really may stop: the bounded
requests are handled, the stream is read, the workers have started (or the main
thread waits for ever), the process has crashed.

## 4. Proofs

All are for every value of the constants, from the named assumptions on them
alone (`ThreadNumAssumption`, `SizesAssumption`, `PushAssumption`, ...: numbers
are numbers, sets have no null pointer in them, there is a worker). Each module
proves `Init => Inv`, `Inv /\ [Next]_vars => Inv'` and `Inv => property` for an
inductive invariant that TLC had checked first at the bounds of the run. An
action property is proved from the same invariant, step by step.

The properties `disturbed` guards are proved as they stand: the inductive
invariants carry the same guards, so the theorems say of every instance what
the runs say of the small one, and no more.

### ConnDispatch_proofs

`TypeCorrect`, `FreelistStaysInBounds`, `BytesMatchItemsAlways`,
`ItemOwnedOnceHolds`, `ConnOwnedOnceHolds`, `SfdOwnedOnceHolds`,
`MapNamesOwnerHolds`.

TypeOK is not inductive: that a worker in `conn_new` has a conn, that the master
before a push has an item and a socket and that a whole block was allocated must
be known for the types of the next state. `Typed` adds what each local variable
holds at each program counter. BytesMatchItems is inductive on top of it: each
action changes queue length, pipe and program counters together.

The ownership invariants need one another; together they are `Ownership`. Items,
conns and descriptors each are divided (`Apart`) among a pool or the bufferevents,
the master and the workers. An item must be in one place for the socket it names
to be in one place (`QueuePush` and `ItemFree` write items), and a socket in one
place for its entry in `map_csfd_id_` to stay (`MapErase`, `MapInsert` and
`ErrorCb` write entries). `LocalsClear` adds that the bufferevent in an error
callback is the worker's own, so no other worker frees it; `MapEntries` adds to
MapNamesOwner the hole that `erase` leaves for `insert`. The proof has a lemma
for each action that moves something and frame lemmas for the others. That
ItemLink finds a list refilled since ItemAlloc is the case a test would miss.

### DeviceSession_proofs

`CacheStaysExact`, `NoticeStaysExact`, `AddrAllOrNothingHolds`,
`OnlineNoticeMeansRegisteredHolds`, `SessionTypeCorrect`.

`CacheInv` adds to CacheExact that a conn's `dev_id` and program counter agree
with its `is_login`, `is_online` and peer, and that without an overlap no device
has two connections; without the second, the DEL of one connection would remove
the entry of the other. That a clean start repairs everything is the Restart
case. `DeviceInv` adds how far a login has come when its notice is due
(`LoginProgress`, which only an overlap can break) and what is stored of an
address at each step of SetDeviceAddrCache (`AddrStages`: a second login may meet
the complete address of the first).

### LocalTransport_proofs

`TransportImplementsRelay`, `RelayImplementsService`,
`MisuseNeedsSecondReplyHolds`, `FifoOrderHolds`, `LTTypeCorrect`.

A step of the transport is a step of the relay or leaves the relay's variables
alone, so the relay is proved about by itself. `RelayInv` says that the numbers
given out are the handled pushes, then the one in hand, then the queue
(`Numbering`), and what completions and replies of a push there can be follows
from where its number falls (`Completions`, `RepliesCounted`). Under `Service`
each step is then one of Ask, Deliver, Refuse and Answer, or a stutter: the second
reply to a push and a reply that comes before the registration are the cases in
which the count of replies is needed.

`Pointers` is what MisuseNeedsSecondReply rests on: until the first misuse, a
pointer that was not completed yet names its push's own live context. A new
context cannot take that address, because it is live. A pointer that was completed
dangles in the map, and only a reply can complete it again: by `RepliesCounted`
its second. After the first misuse nothing is known of the heap.

### RedisPool_proofs

`ContextHasOneOwnerHolds`, `NoContextTwiceInQueueHolds`,
`CommandsStayInTheirDatabaseHolds`, `RefusedCallChangesNothingHolds`,
`PoolTypeCorrect`.

`PoolInv` adds that a thread outside a call holds no context, that the queue has
no address twice (also after a lost reply, when contexts are shared) and that a
context a thread has selected its database on is in that database. For refused
calls there is a lemma on each command of RedisOpt; most are refused only when
the reply is an error, which leaves the key alone. The HGET of an absent field is
refused after the server has looked into the hash, so the proof needs
`StoreInv`: Redis keeps no empty hash, hence writing the hash back is no change.

### UserOnline_proofs

`EntryNamesItsUserHolds`, `OnlineUserIsFoundHolds`, `LoggedOutIsGoneHolds`,
`UserTypeCorrect`.

`SessionInv` adds that keys which SCAN has passed are gone until the server
starts (`ClearedAreGone`), that a conn's fields agree with its program counter,
that without a shared session no session has two connections, and that the entry
is gone from the DEL of a disconnect to its notice. A proof that failed here showed that the CASE of `UserBeacon` had two
guards that could hold at once, which TLC had resolved by their order; they are
disjoint now.

### VoiceChannel_proofs

`AnsweredAtMostOnce`, `SleepsNoLongerThanItMay`, `MapsAlwaysAgree`,
`NeverTooEarly` (of PushTimer), `ChannelsNameTheirConnsHolds`, `VcTypeCorrect`.

`TimerInv` adds that numbers not given yet are nowhere (or a new push could be
one that was answered), that the thread has a push in hand exactly while it
completes it, and that it took it because of a clock reading that is not in the
future. That NeverOversleeps survives AddEventAt, which signals only for a new
first push, is the interesting case: a push behind the first is not earlier than
it, and the thread sleeps no longer than to the first.

`VcInv` extends it to the dispatcher. `NetInv` says that a bufferevent belongs to
the connection it was made for, that a live connection has its descriptor, and
that the connection whose callback runs is live, because its own free is delayed;
it holds also after undefined behaviour that the process survived. `Entries` says that, while the protocol is followed, every entry was made
by a live connection of the right kind and no connection has two entries: a
FreeVc then frees the peer once, directly, and the sender once, at the return of
its callback, and what stays in the maps names neither. The assumptions on the
constants are the numbers, the empty device id among the ids, and that there is
a descriptor and an address at all.

### Framing_proofs

Of CrlfFraming: `EveryMessageDelivered`, `NothingWaits`. Of VoiceWorker:
`NothingEverSkipped`, `HangsOnlyOnTornHolds`, `TakesQueuedConnection`,
`WorkerTypeCorrect`.

Both framings compute over data of any length, with recursive functions. The
library's induction theorems take a predicate as parameter and cannot be used;
the proofs do induction on a set instead: every set of naturals that is not empty
has a least element (from `WellFoundedInduction`), so one that has 0 and the
successor of each of its elements has all of them (`NaturalsAllIn`). That a
recursive function satisfies its equation is proved in the same way, for `Ends`,
`Bytes`, `Kept` and `SplitData`: a function that satisfies it exists for every length,
hence the one that CHOOSE gives does.

CrlfFraming. `StreamFacts` and `EndBytes` say where in a stream each byte comes
from: the only CR and LF are those at the ends of messages, since bodies have
none. `FindAt` follows (behind the end of message j the first CR LF is that of
message j + 1), then what `SplitData` returns (`SplitIs`) and how much
`find_last_of` consumes (`ConsumedIs`) for every piece of a stream. With a CR at
the end of a read that `find_last_of` takes with it, the next read begins with the
LF, and the token in front of the next CR LF is that LF and a message, of which
the JSON parser skips the LF (`Text`), or the piece holds no CR LF at all and the
message before was lost. `Framed` says where in the stream `rBuf` begins in each
case and which messages are in `lost`; `ReadFrames` is the step, with `NoneLost`
and `OneLost` for the two outcomes of a cut. NothingWaits needs that `rBuf` never
keeps more bytes than one message has.

VoiceWorker. `WorkerInv` has a part about control and one about data. Control: a
callback runs for an open connection of its own worker (`Serving`); the queue's
length is the number of bytes in the pipe or about to be written, and no
connection is queued twice (`Queue`), from which TakesQueuedConnection follows;
a bufferevent has data left over only while its callback runs (`Leftover`), none
once it parses (`Drained`), unless the buffer was full (`FullBuffer`). Data: no
more messages are handled than were sent (`Account`), NothingSkipped, and what has
arrived of a connection whose reads were not torn ends with a message
(`WholeReads`). HangsOnlyOnTorn needs all of it: an incomplete message in
the buffer of an untorn connection would have to end behind what has arrived,
but the bufferevent is drained and the arrived words end with a message. There is
a lemma for each outcome of a look at the buffer.

Assumed of the constants: there is a master, messages have at least a header's
three words and fit the buffer.

### Threads_proofs

`NoticesAlwaysInOrder`, `LeaksAreUnanswered`: `InOrder` says position by
position that what is in hand and in the queue is the rest of what was
submitted; that a request in use has its connection (`HasConn`) keeps the count
of connections from going below zero.

### Only model-checked

Liveness (`EventuallyServed` of both, `EventuallyTakenUp`, `EventuallyRequested`,
`InitThreadReturns`): fairness and ENABLED are beyond the prover. Every invariant,
action property and refinement that a run checks is proved.

## 5. What the code does that a reader may not expect

Met while modelling; the modules follow the code in each case. The properties
above say that nothing else goes wrong, up to what each excludes by name.

Start-up and build

* The makefiles compile with `-DNDEBUG`: the assertion on a failed connect
  (`redis_conn_pool.cc:94`) is gone, and a NULL context reaches SelectDB.
* `voice_server/src/main.cc:54` assigns the TLV master to `json_master`: the JSON
  master never starts, and `tlv_master` is NULL when `Init` is called on it
  (`main.cc:67`), which ends the process (RunMaster).
* `voice_server`'s `main()` never calls `register_signal` (`main.cc:128`): SIGUSR1
  and SIGUSR2 do not reach `handle_signal` but end the process, so the
  configuration is read once (every push has the same timeout) and
  `Master::Shutdown` never runs. The deadlock written into Shutdown (it joins a
  worker whose loop nothing wakes) cannot be met.
* Nothing calls `PushMsgTimerQueue::Start`: in the shipped voice server no push
  times out (`MayStart = FALSE`), and one whose reply does not come stays in both
  maps for ever.
* WaitForThreadRegistration waits once without a predicate. A last worker that
  registers before the main thread waits signals nobody, and InitThread never
  returns (`worker_init_lost`); a wake-up without a signal makes it return before
  the workers are set up (SpuriousWakeup).
* A push request that the local transport reads before main has created
  `g_push_msg_queue` ends the process.

deviceOnline and userOnline

* The push is registered after it is written (`push_msg_queue.cc:119`, `:126`); a
  reply handled in between is dropped, and its requester is never answered.
* FinishPushMsg leaves the entry of a completed push in the map; a second reply
  completes a context that has deleted itself, or a later push's context that got
  its address: that requester is answered with the wrong reply.
* An answer is written to the descriptor the requester had; if the requester left,
  to whoever has it now. An answer that cannot be written for three seconds is
  dropped.
* `find_last_of` consumes a lone CR: if a read ends between the CR and the LF of a
  message and also brought the end of the message before, that message is lost.
* What `rBuf` has no room for waits in the bufferevent until the client sends more.
* A connection that fails between login and first heartbeat leaves its entry in
  Redis. The clean-up of an old connection deletes the entry of a new one. A push
  may be written to a descriptor that another device has just taken over.
* A login that failed half-way is answered with success when it is repeated,
  because `is_login` is set first.
* `isVerify` is set in conn_new, so the token check is dead code.
* userOnline overwrites `conn_->guid` before it compares it (`logic_opt.cc:126`):
  the branch for a changed session never runs, and the old entry stays. A user
  whose SET failed is online and not found until it reconnects.
* A command without a reply frees its context; the caller goes on with it and
  gives it back to the pool. LRange, SMembers and Hvals log a reply they have
  freed.
* http_request_done(NULL) and the error paths of MakeHttpReq do not free the
  connection.

voice_server

* A message that arrives in pieces makes ClientTcpReadCb spin
  (`worker.cc:147`); lengths of 8 to 11 bytes wrap below zero (`worker.cc:157`);
  a heartbeat at debug level is logged with `%s` for a number
  (`dispatcher.cc:309`).
* The JSON branch of ClientTcpReadCb (`worker.cc:95`), were it reached, would lose
  messages as deviceOnline's does (`worker.cc:113`), and log a number with `%s`
  when an answer cannot be written (`dispatcher.cc:95`).
* RouteClientToDev takes `dev_id` by value, so only the empty device id is
  routed. ConnectByClient with an id that is in use frees the new connection's
  bufferevent; ConnectByDev keeps the old entry; CloseConn leaves both maps with
  a dangling pointer. ChannelsNameTheirConns excludes these uses by name.

## 6. Plan

All components with state of their own are modelled, and every safety property
that a run checks is proved for every instance. What would come next: a module
for two threads that write to one socket (section 7), and the JSON side and the
Shutdown of the voice server once `main.cc` starts both masters and registers its
signals.

## 7. Not modelled

* Message formats (JSON, headers): parsing and joining without state. A message
  that parses or not is a choice in the modules that handle it.
* Configuration and logging: pure I/O.
* voice_server's JSON framing, JsonDispatcher, `Master::Shutdown` and
  `handle_signal`: no execution of the program reaches them.
* Who has a descriptor when an answer or a push is written to it (deviceOnline
  `push_msg_queue.cc:119`, `local_transport.cc:47`, voice_server
  `dispatcher.cc:544`): the code cannot tell, and promises nothing.
* Partial writes of two threads to one socket (`socket_wrapper.h:92`): the
  interleaving is of bytes and no code detects it; a write is one step here.
* The wrappers of threads, locks and clocks: the modules use their semantics (a
  mutex; a condition variable whose signal is lost when nobody waits).
* Failures that end the process at start-up (pipe, event_add, pthread_create)
  have no later state.
