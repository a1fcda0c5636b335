---------------------------- MODULE VoiceChannel ----------------------------
(***************************************************************************)
(* voice_server: TlvDispatcher's handlers, VoiceChannelManager's maps and  *)
(* the pushes that wait for a reply (PushTimer), on the TLV worker's one   *)
(* thread.                                                                 *)
(*                                                                         *)
(* The maps keep a connection as a bufferevent pointer and a descriptor.   *)
(* Both are reused: "bev" addresses and descriptors are given to new       *)
(* connections once they are free.  Freeing a bufferevent closes its       *)
(* descriptor; inside a connection's own callback libevent delays that to  *)
(* the callback's return.  A free of an address that holds no bufferevent, *)
(* or a second one in the callback, is undefined: it is ignored, or the    *)
(* process crashes.                                                        *)
(***************************************************************************)
EXTENDS PushTimer, Sequences, SequencesExt

CONSTANTS
    Fds, Bevs,           \* descriptors, addresses of bufferevents
    ClientIds, DevIds,   \* "" among them: the empty id
    MaxConns,            \* bound: connections accepted
    MaxBuilds            \* bound: channel requests

ASSUME ChannelAssumption ==
    /\ Fds # {} /\ Bevs # {} /\ "" \in DevIds
    /\ MaxConns \in Nat /\ MaxBuilds \in Nat

Conns  == 1 .. MaxConns
NoConn == 0
None   == [none |-> TRUE]

VARIABLES
    alive,
    conns, cfd, buffer_event,   \* connections, and what each was given
    guid_type, guid,
    net,      \* libevent: bevConn and fdConn (whose they are now), and frees,
              \* the delayed frees of the connection whose callback runs
    cb,       \* that connection
    client_vc_map_, dev_vc_map_,
    builds,       \* channel requests so far
    disturbed     \* history: use of the protocol that the maps do not stand

connVars == <<conns, cfd, buffer_event>>
guidVars == <<guid_type, guid>>
mapVars  == <<client_vc_map_, dev_vc_map_, builds>>
allVars  == <<timerVars, alive, connVars, guidVars, net, cb, mapVars, disturbed>>

ClientVcInfo == [bev : Bevs, fd : Fds, dev_id : DevIds, by : Conns]
DevVcInfo    == [bev : Bevs, fd : Fds, dev_id : DevIds, client_id : ClientIds, by : Conns]

\* A connection with a channel ended without a FreeVc; a second channel on one
\* connection, or for the same ids; a FreeVc for other ids than the sender's.
Disturbances == {"dropped", "again", "foreign"}

VcTypeOK ==
    /\ TypeOK
    /\ alive \in BOOLEAN
    /\ conns \in 0 .. MaxConns
    /\ cfd \in [Conns -> Fds] /\ buffer_event \in [Conns -> Bevs]
    /\ guid_type \in [Conns -> {"none", "GUID_CLIENT", "GUID_DEV"}]
    /\ guid \in [Conns -> ClientIds \cup DevIds]
    /\ net.bevConn \in [Bevs -> Conns \cup {NoConn}]
    /\ net.fdConn \in [Fds -> Conns \cup {NoConn}]
    /\ net.frees \in Nat /\ net.ub = FALSE
    /\ cb \in Conns \cup {NoConn}
    /\ client_vc_map_ \in [ClientIds -> ClientVcInfo \cup {None}]
    /\ dev_vc_map_ \in Seq(DevVcInfo)
    /\ builds \in 0 .. MaxBuilds
    /\ disturbed \subseteq Disturbances

VcInit ==
    /\ Init
    /\ alive = TRUE
    /\ conns = 0
    /\ cfd = [c \in Conns |-> CHOOSE f \in Fds : TRUE]
    /\ buffer_event = [c \in Conns |-> CHOOSE b \in Bevs : TRUE]
    /\ guid_type = [c \in Conns |-> "none"] /\ guid = [c \in Conns |-> ""]
    /\ net = [bevConn |-> [b \in Bevs |-> NoConn], fdConn |-> [f \in Fds |-> NoConn],
              frees |-> 0, ub |-> FALSE]
    /\ cb = NoConn
    /\ client_vc_map_ = [id \in ClientIds |-> None]
    /\ dev_vc_map_ = <<>> /\ builds = 0
    /\ disturbed = {}

IsOpen(c) == \E b \in Bevs : net.bevConn[b] = c

-----------------------------------------------------------------------------
(* libevent and sockets.                                                    *)

\* The bufferevent at b is gone, and its descriptor closed.
Destroyed(n, b) ==
    [n EXCEPT !.fdConn[cfd[n.bevConn[b]]] = NoConn, !.bevConn[b] = NoConn]

\* bufferevent_free(b).
Free(n, b) ==
    CASE n.bevConn[b] = NoConn -> [n EXCEPT !.ub = TRUE]
      [] n.bevConn[b] = cb     -> [n EXCEPT !.frees = @ + 1, !.ub = @ \/ n.frees > 0]
      [] OTHER                 -> Destroyed(n, b)

\* What undefined behaviour in n leaves.
Survives(n) ==
    /\ alive' \in (IF n.ub THEN BOOLEAN ELSE {TRUE})
    /\ net' = [n EXCEPT !.ub = FALSE]

\* The callback of connection c goes on with n, or returns.
Continue(n) == Survives(n) /\ cb' = cb

Return(c, n) ==
    /\ Survives(IF n.frees > 0
                THEN [Destroyed(n, buffer_event[c]) EXCEPT !.frees = 0] ELSE n)
    /\ cb' = NoConn

\* The kind, if the condition holds.
If(kind, condition) == IF condition THEN {kind} ELSE {}

Disturb(kinds) == disturbed' = disturbed \cup kinds

\* CloseConn, from a handler that failed.
CloseErrorConn(c, n) == Return(c, Free(n, buffer_event[c]))

\* accept in the master, RecvNotifiedCb in the worker.
Accept ==
    /\ alive /\ cb = NoConn
    /\ conns < MaxConns
    /\ conns' = conns + 1
    /\ \E f \in Fds, b \in Bevs :
          /\ net.fdConn[f] = NoConn /\ net.bevConn[b] = NoConn
          /\ net' = [net EXCEPT !.fdConn[f] = conns', !.bevConn[b] = conns']
          /\ cfd' = [cfd EXCEPT ![conns'] = f]
          /\ buffer_event' = [buffer_event EXCEPT ![conns'] = b]
    /\ UNCHANGED <<timerVars, alive, guidVars, cb, mapVars, disturbed>>

ReadCb(c) ==
    /\ alive /\ cb = NoConn
    /\ IsOpen(c)
    /\ cb' = c
    /\ UNCHANGED <<timerVars, alive, connVars, guidVars, net, mapVars, disturbed>>

\* No further message in the buffer.
ReadCbReturns ==
    /\ alive /\ cb # NoConn
    /\ Return(cb, net)
    /\ UNCHANGED <<timerVars, connVars, guidVars, mapVars, disturbed>>

\* ClientTcpErrorCb: CloseConn and Dispatcher::HandleClose leave the channel
\* maps alone.
ClientTcpErrorCb(c) ==
    /\ alive /\ cb = NoConn
    /\ IsOpen(c)
    /\ Survives(Destroyed(net, buffer_event[c]))
    /\ Disturb(If("dropped", guid_type[c] # "none"))
    /\ UNCHANGED <<timerVars, connVars, guidVars, cb, mapVars>>

-----------------------------------------------------------------------------
(* VoiceChannelManager.                                                     *)

\* The first entry of the multimap for the device and the client.
DevEntry(dev_id, client_id) ==
    {i \in 1 .. Len(dev_vc_map_) :
        /\ dev_vc_map_[i].dev_id = dev_id /\ dev_vc_map_[i].client_id = client_id
        /\ \A j \in 1 .. i - 1 : dev_vc_map_[j].dev_id # dev_id
                                   \/ dev_vc_map_[j].client_id # client_id}

HasClient(client_id, dev_id) ==
    client_vc_map_[client_id] # None /\ client_vc_map_[client_id].dev_id = dev_id

\* The bufferevent of the pair's device, of its client, if there is one.
PeerOfClient(client_id, dev_id) ==
    {dev_vc_map_[i].bev : i \in DevEntry(dev_id, client_id)}

PeerOfDev(dev_id, client_id) ==
    IF HasClient(client_id, dev_id) THEN {client_vc_map_[client_id].bev} ELSE {}

FreeAll(n, bevs) == IF bevs = {} THEN n ELSE Free(n, CHOOSE b \in bevs : TRUE)

\* Each operation changes the maps, and leaves libevent's state as its ...Net
\* operator says.

\* A client id that is known: the bufferevent of the connection that asks is
\* freed, and its entry put in the place of the old one.
ConnectByClient(client_id, info) ==
    /\ client_vc_map_' = [client_vc_map_ EXCEPT ![client_id] = info]
    /\ UNCHANGED dev_vc_map_

ConnectByClientNet(client_id, info) ==
    IF client_vc_map_[client_id] = None THEN net ELSE Free(net, info.bev)

\* A pair that is known: its old bufferevent is freed, its entry stays.
ConnectByDev(dev_id, info) ==
    /\ dev_vc_map_' = Append(dev_vc_map_, info)
    /\ UNCHANGED client_vc_map_

ConnectByDevNet(dev_id, info) == FreeAll(net, PeerOfClient(info.client_id, dev_id))

\* Leaves the device's entry in the map.
Mut_DisconnectByClient(client_id, dev_id) ==
    /\ client_vc_map_' = IF HasClient(client_id, dev_id)
                         THEN [client_vc_map_ EXCEPT ![client_id] = None]
                         ELSE client_vc_map_
    /\ UNCHANGED dev_vc_map_

\* The pair's entries are erased and the peer's bufferevent is freed; the
\* sender's own connection is left to its worker.
DisconnectByClient(client_id, dev_id) ==
    /\ client_vc_map_' = IF HasClient(client_id, dev_id)
                         THEN [client_vc_map_ EXCEPT ![client_id] = None]
                         ELSE client_vc_map_
    /\ dev_vc_map_' = IF DevEntry(dev_id, client_id) = {} THEN dev_vc_map_
                      ELSE RemoveAt(dev_vc_map_, CHOOSE i \in DevEntry(dev_id, client_id) : TRUE)

DisconnectByClientNet(client_id, dev_id) == FreeAll(net, PeerOfClient(client_id, dev_id))

DisconnectByDev(dev_id, client_id) ==
    /\ dev_vc_map_' = IF DevEntry(dev_id, client_id) = {} THEN dev_vc_map_
                      ELSE RemoveAt(dev_vc_map_, CHOOSE i \in DevEntry(dev_id, client_id) : TRUE)
    /\ client_vc_map_' = IF HasClient(client_id, dev_id)
                         THEN [client_vc_map_ EXCEPT ![client_id] = None]
                         ELSE client_vc_map_

DisconnectByDevNet(dev_id, client_id) == FreeAll(net, PeerOfDev(dev_id, client_id))

\* dev_id is passed by value, and the callers' is empty: only a device with the
\* empty id is found.
RouteClientToDev(client_id, dev_id) ==
    IF HasClient(client_id, dev_id)
    THEN {dev_vc_map_[i] : i \in DevEntry(dev_id, client_id)} ELSE {}

-----------------------------------------------------------------------------
(* TlvDispatcher: one message of the connection whose callback runs.        *)

Handling == alive /\ cb # NoConn

\* The response goes out, or cannot be written and the connection is closed.
\* libevent is in state n, the use of the protocol was of these kinds.
RespondOrClose(n, kinds) ==
    \/ Continue(n) /\ Disturb(kinds)
    \/ CloseErrorConn(cb, n) /\ Disturb(kinds \cup If("dropped", guid_type'[cb] # "none"))

\* A heartbeat, ids that are too long, an unexpected length: a response only.
\* A message of another type: HandleMsg returns an uninitialized value.
HandleNoChange ==
    /\ Handling
    /\ UNCHANGED <<timerVars, connVars, guidVars, mapVars>>
    /\ RespondOrClose(net, {})

HandleClientBuildVc ==
    /\ Handling
    /\ builds < MaxBuilds /\ builds' = builds + 1
    /\ \E client_id \in ClientIds, dev_id \in DevIds :
        LET info == [bev |-> buffer_event[cb], fd |-> cfd[cb], dev_id |-> dev_id, by |-> cb]
        IN  /\ guid_type' = [guid_type EXCEPT ![cb] = "GUID_CLIENT"]
            /\ guid' = [guid EXCEPT ![cb] = client_id]
            /\ ConnectByClient(client_id, info)
            /\ RespondOrClose(ConnectByClientNet(client_id, info),
                 If("again", guid_type[cb] # "none" \/ client_vc_map_[client_id] # None))
    /\ UNCHANGED <<timerVars, connVars>>

HandleDevBuildVc ==
    /\ Handling
    /\ builds < MaxBuilds /\ builds' = builds + 1
    /\ \E client_id \in ClientIds, dev_id \in DevIds :
        LET info == [bev |-> buffer_event[cb], fd |-> cfd[cb], dev_id |-> dev_id,
                     client_id |-> client_id, by |-> cb]
        IN  /\ guid_type' = [guid_type EXCEPT ![cb] = "GUID_DEV"]
            /\ guid' = [guid EXCEPT ![cb] = dev_id]
            /\ ConnectByDev(dev_id, info)
            /\ RespondOrClose(ConnectByDevNet(dev_id, info),
                 If("again", guid_type[cb] # "none" \/ DevEntry(dev_id, client_id) # {}))
    /\ UNCHANGED <<timerVars, connVars>>

\* Both FreeVc handlers end with an error, to have the worker close the
\* connection they came on.
HandleClientFreeVc ==
    /\ Handling
    /\ UNCHANGED builds
    /\ \E client_id \in ClientIds, dev_id \in DevIds :
          /\ DisconnectByClient(client_id, dev_id)
          /\ CloseErrorConn(cb, DisconnectByClientNet(client_id, dev_id))
          /\ Disturb(If("foreign", guid_type[cb] # "none" /\
                ~(HasClient(client_id, dev_id) /\ client_vc_map_[client_id].by = cb)))
    /\ UNCHANGED <<timerVars, connVars, guidVars>>

HandleDevFreeVc ==
    /\ Handling
    /\ UNCHANGED builds
    /\ \E client_id \in ClientIds, dev_id \in DevIds :
          /\ DisconnectByDev(dev_id, client_id)
          /\ CloseErrorConn(cb, DisconnectByDevNet(dev_id, client_id))
          /\ Disturb(If("foreign", guid_type[cb] # "none" /\
                \A i \in DevEntry(dev_id, client_id) : dev_vc_map_[i].by # cb))
    /\ UNCHANGED <<timerVars, connVars, guidVars>>

Route == IF guid_type[cb] = "GUID_CLIENT" /\ guid[cb] # ""
         THEN RouteClientToDev(guid[cb], "") ELSE {}

\* The push is written to the descriptor the device had, whoever has it now,
\* and waits for its reply.  Its context keeps the sender's descriptor, to
\* answer to whoever has that by then: a write, which changes nothing here.
ForwardMsgToDev(e) ==
    /\ net.fdConn[e.fd] # NoConn
    /\ AddEventAfter
    /\ Continue(net)
    /\ UNCHANGED disturbed

\* It cannot be written: a number is used up, its context leaked.
ForwardFails ==
    /\ g_push_msg_mid < MaxPush
    /\ g_push_msg_mid' = g_push_msg_mid + 1
    /\ UNCHANGED <<clock, queueVars, stop_, threadVars, answered, guidVars>>
    /\ RespondOrClose(net, {})

\* HandleClientSendVoice: without a channel or a device the client gets an
\* error, which HandleNoChange covers.
HandleClientSendVoice ==
    /\ Handling
    /\ \E e \in Route :
          \/ ForwardMsgToDev(e) /\ UNCHANGED guidVars
          \/ ForwardFails
    /\ UNCHANGED <<connVars, mapVars>>

\* A message with a value gets an error; one without is forwarded the same way.
HandleClientStartSend == HandleClientSendVoice

\* The device's reply, for a number that waits; whose connection the reply comes
\* on is not looked at.
HandleOnPushStartSend ==
    /\ Handling
    /\ \E p \in Mids : GetAndCancelEvent(p)
    /\ UNCHANGED <<alive, connVars, guidVars, net, cb, mapVars, disturbed>>

\* The reply to forwarded voice is treated the same way.
HandleOnPushClientVoice == HandleOnPushStartSend

\* The timer thread, if it was started.
TimerStep ==
    /\ alive
    /\ Tick \/ Start \/ Top \/ TakeDue \/ Complete \/ Wait \/ WaitEnds
    /\ UNCHANGED <<alive, connVars, guidVars, net, cb, mapVars, disturbed>>

-----------------------------------------------------------------------------
HandleMsg ==
    \/ HandleNoChange \/ HandleClientBuildVc \/ HandleDevBuildVc
    \/ HandleClientFreeVc \/ HandleDevFreeVc \/ HandleClientStartSend
    \/ HandleOnPushClientVoice

VcNext ==
    \/ Accept \/ HandleMsg \/ ReadCbReturns \/ TimerStep
    \/ \E c \in Conns : ReadCb(c) \/ ClientTcpErrorCb(c)

VcSpec == VcInit /\ [][VcNext]_allVars

-----------------------------------------------------------------------------
(* Properties.                                                              *)

NamesItsConn(e) == net.bevConn[e.bev] = e.by /\ net.fdConn[e.fd] = e.by

\* As long as every connection builds one channel, for ids that have none, and
\* ends it with its own FreeVc, the entries of both maps name live bufferevents
\* and descriptors of the connections that built them, in whichever order the
\* two sides of a channel come and go, and nothing is freed twice.
ChannelsNameTheirConns ==
    disturbed = {} =>
        /\ alive
        /\ \A id \in ClientIds :
              client_vc_map_[id] # None => NamesItsConn(client_vc_map_[id])
        /\ \A i \in 1 .. Len(dev_vc_map_) : NamesItsConn(dev_vc_map_[i])
=============================================================================
