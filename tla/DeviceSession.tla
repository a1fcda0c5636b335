---------------------------- MODULE DeviceSession ----------------------------
(***************************************************************************)
(* The life of a device's session in deviceOnline: login, heartbeat and    *)
(* disconnect, and what they do to the device's entry in Redis and to the  *)
(* state notices for the HTTP server.  (CLogicOpt, ClientTcpErrorCb,       *)
(* ClearDeviceCache.)  The push thread only reads the entry: PushRelay.    *)
(*                                                                         *)
(* A connection is named by its descriptor, which the kernel reuses once   *)
(* it is closed.  Connections live on different worker threads, so their   *)
(* handlers interleave; one Redis command is one step.  How a connection   *)
(* reaches its worker is ConnDispatch's subject.  A device logs in under   *)
(* its own id.  A failure of a Redis command is an error reply; a command  *)
(* that loses its connection to Redis also frees the context, which is     *)
(* left to a model of the connection pool.                                 *)
(***************************************************************************)
EXTENDS Naturals

CONSTANTS
    Fds,          \* descriptors for device connections
    Devices,
    NoFd, NoDev,  \* "none"
    MaxFails,     \* bound: handlers in which getpeername or Redis fails
    MaxRestarts   \* bound: crashes of the process

ASSUME SessionAssumption ==
    /\ NoFd \notin Fds /\ NoDev \notin Devices
    /\ MaxFails \in Nat /\ MaxRestarts \in Nat

VARIABLES
    peer,       \* the device at the other end, NoDev when closed
    is_login, is_online, dev_id,  \* the fields of the connection's conn
    pc,         \* where the connection's worker is in a handler
    fdCache,    \* Redis: field "fd" of the device's hash
    addrCache,  \* Redis: which address fields the hash has
    notice,     \* last state notice submitted for the device
    fails, restarts,
    disturbed   \* history: what went wrong outside since the last clean start

connVars  == <<peer, is_login, is_online, dev_id>>
redisVars == <<fdCache, addrCache>>
faultVars == <<fails, disturbed>>
vars == <<connVars, pc, redisVars, notice, faultVars, restarts>>

\* A failed getpeername or Redis command, a rollback that failed too, a
\* ClearDeviceCache that did not get through, a connection that fails between its
\* login and its first heartbeat, a device that connects while its old
\* connection lingers.
Disturbances == {"failure", "unrolled", "uncleared", "early", "overlap"}

AddrFields == {"public_addr", "private_addr", "dev_ip"}

Steps == {"idle", "setfd", "public", "private", "ip", "online",
          "del", "offline", "close"}

TypeOK ==
    /\ peer \in [Fds -> Devices \cup {NoDev}]
    /\ is_login \in [Fds -> BOOLEAN]
    /\ is_online \in [Fds -> BOOLEAN]
    /\ dev_id \in [Fds -> Devices \cup {NoDev}]
    /\ pc \in [Fds -> Steps]
    /\ fdCache \in [Devices -> Fds \cup {NoFd}]
    /\ addrCache \in [Devices -> SUBSET AddrFields]
    /\ notice \in [Devices -> {"none", "online", "offline"}]
    /\ fails \in 0 .. MaxFails
    /\ restarts \in 0 .. MaxRestarts
    /\ disturbed \subseteq Disturbances

Init ==
    /\ peer = [f \in Fds |-> NoDev]
    /\ is_login = [f \in Fds |-> FALSE]
    /\ is_online = [f \in Fds |-> FALSE]
    /\ dev_id = [f \in Fds |-> NoDev]
    /\ pc = [f \in Fds |-> "idle"]
    /\ fdCache = [d \in Devices |-> NoFd]
    /\ addrCache = [d \in Devices |-> {}]
    /\ notice = [d \in Devices |-> "none"]
    /\ fails = 0 /\ restarts = 0 /\ disturbed = {}

Idle(f) == peer[f] # NoDev /\ pc[f] = "idle"

Goto(f, s) == pc' = [pc EXCEPT ![f] = s]

FailAs(kind) ==
    /\ fails < MaxFails
    /\ fails' = fails + 1
    /\ disturbed' = disturbed \cup {kind}

Fail == FailAs("failure")

-----------------------------------------------------------------------------
(* Connecting and logging in: StartLogicOpt, DeviceLogin.                   *)

\* A conn as conn_new leaves it.
Connect(f, d) ==
    /\ peer[f] = NoDev
    /\ peer' = [peer EXCEPT ![f] = d]
    /\ disturbed' = IF \A g \in Fds : peer[g] # d THEN disturbed
                    ELSE disturbed \cup {"overlap"}
    /\ UNCHANGED <<is_login, is_online, dev_id, pc, redisVars, notice, fails, restarts>>

\* The first login of a connection: the conn is marked before anything that
\* can fail has been done.  A login on a conn that is marked already is only
\* answered with success.
LoginStart(f) ==
    /\ Idle(f) /\ ~is_login[f]
    /\ is_login' = [is_login EXCEPT ![f] = TRUE]
    /\ dev_id' = [dev_id EXCEPT ![f] = peer[f]]
    /\ Goto(f, "setfd")
    /\ UNCHANGED <<peer, is_online, redisVars, notice,
                   faultVars, restarts>>

\* getpeername fails (its length argument is not initialised): the device is
\* told that the login failed.
LoginPeernameFails(f) ==
    /\ Idle(f) /\ ~is_login[f]
    /\ Fail
    /\ is_login' = [is_login EXCEPT ![f] = TRUE]
    /\ dev_id' = [dev_id EXCEPT ![f] = peer[f]]
    /\ UNCHANGED <<peer, is_online, pc, redisVars, notice,
                   restarts>>

\* SetDeviceFdCache.
SetDeviceFdCache(f) ==
    /\ pc[f] = "setfd"
    /\ fdCache' = [fdCache EXCEPT ![dev_id[f]] = f]
    /\ Goto(f, "public")
    /\ UNCHANGED <<connVars, addrCache, notice, faultVars, restarts>>

SetDeviceFdCacheFails(f) ==
    /\ pc[f] = "setfd"
    /\ Fail
    /\ Goto(f, "idle")
    /\ UNCHANGED <<connVars, redisVars, notice, restarts>>

\* SetDeviceAddrCache: three commands, one field each.
AddrField(s) == CASE s = "public"  -> "public_addr"
                  [] s = "private" -> "private_addr"
                  [] s = "ip"      -> "dev_ip"

AfterField(s) == CASE s = "public"  -> "private"
                   [] s = "private" -> "ip"
                   [] s = "ip"      -> "online"

\* Rolls back only the last field written.
Mut_RolledBack(s) == CASE s = "public"  -> {}
                       [] s = "private" -> {"public_addr"}
                       [] s = "ip"      -> {"private_addr"}

\* The fields that SetDeviceAddrCache deletes again when a command fails.
RolledBack(s) == CASE s = "public"  -> {}
                   [] s = "private" -> {"public_addr"}
                   [] s = "ip"      -> {"public_addr", "private_addr"}

SetDeviceAddrCache(f) ==
    /\ pc[f] \in {"public", "private", "ip"}
    /\ addrCache' = [addrCache EXCEPT ![dev_id[f]] = @ \cup {AddrField(pc[f])}]
    /\ Goto(f, AfterField(pc[f]))
    /\ UNCHANGED <<connVars, fdCache, notice, faultVars, restarts>>

\* Without "goto out": the login goes on as if the addresses were stored.
Mut_SetDeviceAddrCacheFails(f) ==
    /\ pc[f] \in {"public", "private", "ip"}
    /\ Fail
    /\ addrCache' = [addrCache EXCEPT ![dev_id[f]] = @ \ RolledBack(pc[f])]
    /\ Goto(f, "online")
    /\ UNCHANGED <<connVars, fdCache, notice, restarts>>

\* A command is answered with an error: the fields written before it are
\* deleted again, and the result of each deletion is not looked at, so one that
\* fails too (kept) stays behind.
SetDeviceAddrCacheFails(f) ==
    /\ pc[f] \in {"public", "private", "ip"}
    /\ \E kept \in SUBSET RolledBack(pc[f]) :
          /\ FailAs(IF kept = {} THEN "failure" ELSE "unrolled")
          /\ addrCache' = [addrCache EXCEPT
                             ![dev_id[f]] = @ \ (RolledBack(pc[f]) \ kept)]
    /\ Goto(f, "idle")
    /\ UNCHANGED <<connVars, fdCache, notice, restarts>>

\* The notice that the device is online, and the answer to the device.
LoginNotice(f) ==
    /\ pc[f] = "online"
    /\ notice' = [notice EXCEPT ![dev_id[f]] = "online"]
    /\ Goto(f, "idle")
    /\ UNCHANGED <<connVars, redisVars, faultVars, restarts>>

\* DeviceBeacon: a heartbeat is refused before the login.
DeviceBeacon(f) ==
    /\ Idle(f) /\ is_login[f] /\ ~is_online[f]
    /\ is_online' = [is_online EXCEPT ![f] = TRUE]
    /\ UNCHANGED <<peer, is_login, dev_id, pc, redisVars, notice, faultVars, restarts>>

-----------------------------------------------------------------------------
(* Disconnecting: ClientTcpErrorCb (EOF, error or heartbeat timeout).       *)

ErrorCb(f) ==
    /\ Idle(f)
    /\ disturbed' = IF ~is_login[f] \/ is_online[f] THEN disturbed
                    ELSE disturbed \cup {"early"}
    /\ Goto(f, IF is_online[f] THEN "del" ELSE "close")
    /\ UNCHANGED <<connVars, redisVars, notice, fails, restarts>>

\* Removes only the addresses.
Mut_RemoveDeviceFromCache(f) ==
    /\ pc[f] = "del"
    /\ addrCache' = [addrCache EXCEPT ![dev_id[f]] = {}]
    /\ Goto(f, "offline")
    /\ UNCHANGED <<connVars, fdCache, notice, faultVars, restarts>>

\* RemoveDeviceFromCache: DEL of the whole hash; its result is not looked at.
RemoveDeviceFromCache(f) ==
    /\ pc[f] = "del"
    /\ \/ /\ fdCache' = [fdCache EXCEPT ![dev_id[f]] = NoFd]
          /\ addrCache' = [addrCache EXCEPT ![dev_id[f]] = {}]
          /\ UNCHANGED faultVars
       \/ Fail /\ UNCHANGED redisVars
    /\ Goto(f, "offline")
    /\ UNCHANGED <<connVars, notice, restarts>>

\* Submitted with the state of a login.
Mut_OfflineNotice(f) ==
    /\ pc[f] = "offline"
    /\ notice' = [notice EXCEPT ![dev_id[f]] = "online"]
    /\ Goto(f, "close")
    /\ UNCHANGED <<connVars, redisVars, faultVars, restarts>>

\* The notice that the device is offline.
OfflineNotice(f) ==
    /\ pc[f] = "offline"
    /\ notice' = [notice EXCEPT ![dev_id[f]] = "offline"]
    /\ Goto(f, "close")
    /\ UNCHANGED <<connVars, redisVars, faultVars, restarts>>

\* The conn is cleared and conn_close closes the socket.
Close(f) ==
    /\ pc[f] = "close"
    /\ peer' = [peer EXCEPT ![f] = NoDev]
    /\ is_login' = [is_login EXCEPT ![f] = FALSE]
    /\ is_online' = [is_online EXCEPT ![f] = FALSE]
    /\ dev_id' = [dev_id EXCEPT ![f] = NoDev]
    /\ Goto(f, "idle")
    /\ UNCHANGED <<redisVars, notice, faultVars, restarts>>

-----------------------------------------------------------------------------
(* The process's restart.                                                   *)

\* Starts without ClearDeviceCache.
Mut_Restart ==
    /\ restarts < MaxRestarts
    /\ restarts' = restarts + 1
    /\ peer' = [f \in Fds |-> NoDev]
    /\ is_login' = [f \in Fds |-> FALSE]
    /\ is_online' = [f \in Fds |-> FALSE]
    /\ dev_id' = [f \in Fds |-> NoDev]
    /\ pc' = [f \in Fds |-> "idle"]
    /\ disturbed' = {}
    /\ UNCHANGED <<redisVars, notice, fails>>

\* A crash closes all sockets; what is in Redis survives it.  The new process
\* runs ClearDeviceCache before it accepts anybody: all keys go, or only some
\* when a SCAN fails.
Restart ==
    /\ restarts < MaxRestarts
    /\ restarts' = restarts + 1
    /\ \/ /\ fdCache' = [d \in Devices |-> NoFd]
          /\ addrCache' = [d \in Devices |-> {}]
          /\ disturbed' = {}
          /\ UNCHANGED fails
       \/ /\ FailAs("uncleared")
          /\ \E kept \in SUBSET Devices :
                /\ fdCache' = [d \in Devices |->
                                 IF d \in kept THEN fdCache[d] ELSE NoFd]
                /\ addrCache' = [d \in Devices |->
                                   IF d \in kept THEN addrCache[d] ELSE {}]
    /\ peer' = [f \in Fds |-> NoDev]
    /\ is_login' = [f \in Fds |-> FALSE]
    /\ is_online' = [f \in Fds |-> FALSE]
    /\ dev_id' = [f \in Fds |-> NoDev]
    /\ pc' = [f \in Fds |-> "idle"]
    /\ UNCHANGED notice

-----------------------------------------------------------------------------
Handlers(f) ==
    \/ LoginStart(f) \/ LoginPeernameFails(f)
    \/ SetDeviceFdCache(f) \/ SetDeviceFdCacheFails(f)
    \/ SetDeviceAddrCache(f) \/ SetDeviceAddrCacheFails(f)
    \/ LoginNotice(f) \/ DeviceBeacon(f)
    \/ ErrorCb(f) \/ RemoveDeviceFromCache(f) \/ OfflineNotice(f) \/ Close(f)

Next ==
    \/ \E f \in Fds, d \in Devices : Connect(f, d)
    \/ \E f \in Fds : Handlers(f)
    \/ Restart

Spec == Init /\ [][Next]_vars

-----------------------------------------------------------------------------
(* Properties.                                                              *)

\* The connection's login has written the fd field and its disconnect has not
\* deleted the hash yet.
Registered(f) ==
    is_login[f] /\ pc[f] \in {"public", "private", "ip", "online", "idle", "del"}

\* Redis says which descriptor a device is connected on, exactly: an entry
\* names a descriptor if and only if the connection on it has logged in as
\* that device and is not past the DEL of its disconnect.  A disturbance may
\* end this, and a restart repairs it, because ClearDeviceCache runs before
\* anybody is accepted.
CacheExact ==
    disturbed = {} =>
        \A d \in Devices, f \in Fds :
            fdCache[d] = f <=> Registered(f) /\ dev_id[f] = d

\* The HTTP server's last notice about a device agrees with the session: it is
\* "online" exactly from the end of the login to the end of the disconnect.
\* (A crash sends no notice, so this is about runs without one.)
NoticeExact ==
    restarts = 0 /\ disturbed = {} =>
        \A d \in Devices : notice[d] = "online" <=>
            \E f \in Fds : /\ dev_id[f] = d
                           /\ is_login[f] /\ pc[f] \in {"idle", "del", "offline"}

\* Whenever a login announces its device as online, everything the HTTP server
\* will ask Redis for is there: this connection's descriptor and all three
\* address fields, whatever commands of this or of an earlier login failed,
\* whichever connections were lost early and however often the process crashed.
\* (Not when the device's old connection lingers: its disconnect deletes the
\* hash at any moment of the new login.)
OnlineNoticeMeansRegistered ==
    [][\A f \in Fds : LoginNotice(f) =>
          \/ "overlap" \in disturbed
          \/ fdCache[dev_id[f]] = f /\ addrCache[dev_id[f]] = AddrFields]_vars

\* SetDeviceAddrCache's rollback: one failed command never leaves the address
\* of a device half stored once the handler is done.
AddrAllOrNothing ==
    fails <= 1 /\ disturbed \subseteq {"failure"} =>
        \A d \in Devices :
            (\A f \in Fds : dev_id[f] = d => pc[f] \notin {"private", "ip"})
                => addrCache[d] \in {{}, AddrFields}
=============================================================================
