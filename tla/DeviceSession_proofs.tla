------------------------ MODULE DeviceSession_proofs ------------------------
(***************************************************************************)
(* Theorems about DeviceSession, for any sets of descriptors and devices   *)
(* and any number of failures and restarts of the process.                 *)
(***************************************************************************)
EXTENDS DeviceSession, TLAPS

USE SessionAssumption

-----------------------------------------------------------------------------
(* CacheExact is not inductive.  It also needs that a connection's fields   *)
(* agree with its place in the handlers, and that two connections never     *)
(* belong to one device.                                                    *)

\* The part of TypeOK that the cache depends on.
CacheTyped ==
    /\ peer \in [Fds -> Devices \cup {NoDev}]
    /\ is_login \in [Fds -> BOOLEAN]
    /\ is_online \in [Fds -> BOOLEAN]
    /\ dev_id \in [Fds -> Devices \cup {NoDev}]
    /\ pc \in [Fds -> Steps]
    /\ fdCache \in [Devices -> Fds \cup {NoFd}]
    /\ disturbed \subseteq Disturbances

\* A connection that is logged in carries its device's id; one that is not is
\* outside of the login's and the offline steps.
LoginMatchesPeer ==
    \A f \in Fds :
        /\ is_login[f] => peer[f] \in Devices /\ dev_id[f] = peer[f]
        /\ is_online[f] => is_login[f]
        /\ ~is_login[f] => pc[f] \in {"idle", "close"}

\* Only an overlap gives a device two connections.
OneConnectionPerDevice ==
    "overlap" \notin disturbed => \A f, g \in Fds : peer[f] = peer[g] /\ peer[f] # NoDev => f = g

CacheInv == CacheTyped /\ LoginMatchesPeer /\ OneConnectionPerDevice /\ CacheExact

\* Redis is empty and nobody is connected.
LEMMA CacheInit == Init => CacheInv
<1> SUFFICES ASSUME Init PROVE CacheInv  OBVIOUS
<1>1. CacheTyped
  BY DEF Init, CacheTyped, Steps
<1>2. LoginMatchesPeer /\ OneConnectionPerDevice
  BY DEF Init, LoginMatchesPeer, OneConnectionPerDevice
<1>3. CacheExact
  BY DEF Init, CacheExact, Registered
<1> QED  BY <1>1, <1>2, <1>3 DEF CacheInv

\* A step that leaves the cache and everybody's registration alone.
LEMMA CacheFrame ==
    ASSUME CacheExact, fdCache' = fdCache, disturbed' = {} => disturbed = {},
           \A f \in Fds : /\ Registered(f)' <=> Registered(f)
                          /\ Registered(f) => dev_id'[f] = dev_id[f]
    PROVE  CacheExact'
BY DEF CacheExact

\* Every step of the handlers and of a restart keeps the
\* cache exact.
LEMMA CacheNext == CacheInv /\ [Next]_vars => CacheInv'
<1> SUFFICES ASSUME CacheInv, [Next]_vars PROVE CacheInv'
  OBVIOUS
<1> USE DEF CacheInv, CacheTyped
<1>0. /\ Fail => disturbed' \in SUBSET Disturbances /\ disturbed' # {}
      /\ Fail /\ "overlap" \in disturbed => "overlap" \in disturbed'
  BY DEF Fail, FailAs, Disturbances
<1>1. ASSUME NEW f \in Fds, NEW d \in Devices, Connect(f, d) PROVE CacheInv'
  <2>0. /\ peer[f] = NoDev
        /\ peer' = [peer EXCEPT ![f] = d]
        /\ \/ disturbed' = disturbed /\ \A g \in Fds : peer[g] # d
           \/ disturbed' = disturbed \cup {"overlap"}
        /\ UNCHANGED <<is_login, is_online, dev_id, pc, fdCache>>
    BY <1>1 DEF Connect, redisVars
  <2>1. CacheTyped'
    BY <2>0 DEF Disturbances
  <2>2. LoginMatchesPeer'
    BY <2>0 DEF LoginMatchesPeer
  <2>3. OneConnectionPerDevice'
    BY <2>0 DEF OneConnectionPerDevice
  <2>4. CacheExact'
    BY <2>0, CacheFrame DEF Registered
  <2> QED  BY <2>1, <2>2, <2>3, <2>4
<1>2. ASSUME NEW f \in Fds, LoginStart(f) PROVE CacheInv'
  <2>0. /\ peer[f] \in Devices /\ pc[f] = "idle" /\ ~is_login[f]
        /\ is_login' = [is_login EXCEPT ![f] = TRUE]
        /\ dev_id' = [dev_id EXCEPT ![f] = peer[f]]
        /\ pc' = [pc EXCEPT ![f] = "setfd"]
        /\ UNCHANGED <<peer, is_online, fdCache, disturbed>>
    BY <1>2 DEF LoginStart, Idle, Goto, redisVars, faultVars
  <2>1. CacheTyped'
    BY <2>0 DEF Steps
  <2>2. LoginMatchesPeer' /\ OneConnectionPerDevice'
    BY <2>0 DEF LoginMatchesPeer, OneConnectionPerDevice
  <2>3. CacheExact'
    BY <2>0, CacheFrame DEF Registered
  <2> QED  BY <2>1, <2>2, <2>3
<1>3. ASSUME NEW f \in Fds, SetDeviceFdCache(f) PROVE CacheInv'
  <2>0. /\ pc[f] = "setfd"
        /\ fdCache' = [fdCache EXCEPT ![dev_id[f]] = f]
        /\ pc' = [pc EXCEPT ![f] = "public"]
        /\ UNCHANGED <<peer, is_login, is_online, dev_id, disturbed>>
    BY <1>3 DEF SetDeviceFdCache, Goto, connVars, faultVars
  <2>1. is_login[f] /\ dev_id[f] = peer[f] /\ dev_id[f] \in Devices
    BY <2>0 DEF LoginMatchesPeer
  <2>2. CacheTyped'
    BY <2>0 DEF Steps
  <2>3. LoginMatchesPeer' /\ OneConnectionPerDevice'
    BY <2>0, <2>1 DEF LoginMatchesPeer, OneConnectionPerDevice
  <2>4. ASSUME disturbed = {}, NEW d \in Devices, NEW g \in Fds
        PROVE  fdCache'[d] = g <=> Registered(g)' /\ dev_id'[g] = d
    <3>1. CASE g = f
      <4>1. Registered(f)' /\ ~Registered(f)
        BY <2>0, <2>1 DEF Registered
      <4>2. fdCache[d] # f
        BY <2>4, <4>1 DEF CacheExact
      <4> QED  BY <2>0, <3>1, <4>1, <4>2
    <3>2. CASE g # f
      <4>1. Registered(g)' <=> Registered(g)
        BY <2>0, <3>2 DEF Registered
      <4>2. Registered(g) => dev_id[g] # dev_id[f]
        BY <2>1, <2>4, <3>2 DEF Registered, LoginMatchesPeer, OneConnectionPerDevice
      <4> QED  BY <2>0, <2>1, <2>4, <3>2, <4>1, <4>2 DEF CacheExact
    <3> QED  BY <3>1, <3>2
  <2>5. CacheExact'
    BY <2>0, <2>4 DEF CacheExact
  <2> QED  BY <2>2, <2>3, <2>5
<1>4. ASSUME NEW f \in Fds, RemoveDeviceFromCache(f), UNCHANGED faultVars,
             fdCache' = [fdCache EXCEPT ![dev_id[f]] = NoFd]
      PROVE  CacheInv'
  <2>0. /\ pc[f] = "del"
        /\ fdCache' = [fdCache EXCEPT ![dev_id[f]] = NoFd]
        /\ pc' = [pc EXCEPT ![f] = "offline"]
        /\ UNCHANGED <<peer, is_login, is_online, dev_id, disturbed>>
    BY <1>4 DEF RemoveDeviceFromCache, Goto, connVars, faultVars
  <2>1. is_login[f] /\ dev_id[f] = peer[f] /\ dev_id[f] \in Devices
    BY <2>0 DEF LoginMatchesPeer
  <2>2. CacheTyped'
    BY <2>0 DEF Steps
  <2>3. LoginMatchesPeer' /\ OneConnectionPerDevice'
    BY <2>0, <2>1 DEF LoginMatchesPeer, OneConnectionPerDevice
  <2>4. ASSUME disturbed = {}, NEW d \in Devices, NEW g \in Fds
        PROVE  fdCache'[d] = g <=> Registered(g)' /\ dev_id'[g] = d
    <3>0. NoFd \notin Fds
      OBVIOUS
    <3>1. CASE g = f
      <4>1. ~Registered(f)' /\ Registered(f)
        BY <2>0, <2>1 DEF Registered
      <4>2. d # dev_id[f] => fdCache[d] # f
        BY <2>4, <4>1 DEF CacheExact
      <4> QED  BY <2>0, <3>0, <3>1, <4>1, <4>2
    <3>2. CASE g # f
      <4>1. Registered(g)' <=> Registered(g)
        BY <2>0, <3>2 DEF Registered
      <4>2. Registered(g) => dev_id[g] # dev_id[f]
        BY <2>1, <2>4, <3>2 DEF Registered, LoginMatchesPeer, OneConnectionPerDevice
      <4> QED  BY <2>0, <2>1, <2>4, <3>0, <3>2, <4>1, <4>2 DEF CacheExact
    <3> QED  BY <3>1, <3>2
  <2>5. CacheExact'
    BY <2>0, <2>4 DEF CacheExact
  <2> QED  BY <2>2, <2>3, <2>5
<1>5. ASSUME NEW f \in Fds,
             SetDeviceAddrCache(f) \/ LoginNotice(f) \/ OfflineNotice(f)
      PROVE  CacheInv'
  <2>0. /\ pc[f] \in {"public", "private", "ip", "online", "offline"}
        /\ \/ /\ pc[f] # "offline"
              /\ pc' \in {[pc EXCEPT ![f] = s] : s \in {"private", "ip", "online", "idle"}}
           \/ /\ pc[f] = "offline"
              /\ pc' = [pc EXCEPT ![f] = "close"]
        /\ UNCHANGED <<peer, is_login, is_online, dev_id, fdCache, disturbed>>
    BY <1>5 DEF SetDeviceAddrCache, LoginNotice, OfflineNotice, Goto,
       AfterField, connVars, redisVars, faultVars
  <2>1. is_login[f]
    BY <2>0 DEF LoginMatchesPeer
  <2>2. PICK s \in Steps : /\ pc' = [pc EXCEPT ![f] = s]
                           /\ IF pc[f] = "offline" THEN s = "close"
                              ELSE s \in {"private", "ip", "online", "idle"}
    BY <2>0 DEF Steps
  <2>3. CacheTyped'
    BY <2>0, <2>2
  <2>4. LoginMatchesPeer' /\ OneConnectionPerDevice'
    BY <2>0, <2>1, <2>2 DEF LoginMatchesPeer, OneConnectionPerDevice
  <2>5. CacheExact'
    BY <2>0, <2>1, <2>2, CacheFrame DEF Registered
  <2> QED  BY <2>3, <2>4, <2>5
<1>6. ASSUME NEW f \in Fds, ErrorCb(f) PROVE CacheInv'
  <2>0. /\ pc[f] = "idle" /\ peer[f] # NoDev
        /\ \/ disturbed' = disturbed /\ (~is_login[f] \/ is_online[f])
           \/ disturbed' = disturbed \cup {"early"}
        /\ pc' = [pc EXCEPT ![f] = IF is_online[f] THEN "del" ELSE "close"]
        /\ UNCHANGED <<peer, is_login, is_online, dev_id, fdCache>>
    BY <1>6 DEF ErrorCb, Idle, Goto, connVars, redisVars
  <2>1. CacheTyped'
    BY <2>0 DEF Steps, Disturbances
  <2>2. LoginMatchesPeer' /\ OneConnectionPerDevice'
    BY <2>0 DEF LoginMatchesPeer, OneConnectionPerDevice
  <2>3. CASE disturbed' = disturbed /\ (~is_login[f] \/ is_online[f])
    <3>1. CacheExact'
      BY <2>0, <2>3, CacheFrame DEF Registered, LoginMatchesPeer
    <3> QED  BY <2>1, <2>2, <3>1
  <2>4. CASE disturbed' = disturbed \cup {"early"}
    BY <2>1, <2>2, <2>4 DEF CacheExact
  <2> QED  BY <2>0, <2>3, <2>4
<1>7. ASSUME NEW f \in Fds, Close(f) PROVE CacheInv'
  <2>0. /\ pc[f] = "close"
        /\ peer' = [peer EXCEPT ![f] = NoDev]
        /\ is_login' = [is_login EXCEPT ![f] = FALSE]
        /\ is_online' = [is_online EXCEPT ![f] = FALSE]
        /\ dev_id' = [dev_id EXCEPT ![f] = NoDev]
        /\ pc' = [pc EXCEPT ![f] = "idle"]
        /\ UNCHANGED <<fdCache, disturbed>>
    BY <1>7 DEF Close, Goto, redisVars, faultVars
  <2>1. CacheTyped'
    BY <2>0 DEF Steps
  <2>2. LoginMatchesPeer' /\ OneConnectionPerDevice'
    BY <2>0 DEF LoginMatchesPeer, OneConnectionPerDevice
  <2>3. CacheExact'
    BY <2>0, CacheFrame DEF Registered
  <2> QED  BY <2>1, <2>2, <2>3
<1>8. ASSUME NEW f \in Fds, DeviceBeacon(f) PROVE CacheInv'
  <2>1. /\ is_login[f] /\ is_online' = [is_online EXCEPT ![f] = TRUE]
        /\ UNCHANGED <<peer, is_login, dev_id, pc, fdCache, disturbed>>
    BY <1>8 DEF DeviceBeacon, redisVars, faultVars
  <2> QED
    BY <2>1 DEF LoginMatchesPeer, OneConnectionPerDevice, CacheExact, Registered
<1>9. ASSUME NEW f \in Fds,
              \/ LoginPeernameFails(f) \/ SetDeviceFdCacheFails(f)
              \/ SetDeviceAddrCacheFails(f)
              \/ RemoveDeviceFromCache(f) /\ Fail /\ UNCHANGED redisVars
       PROVE  CacheInv'
  <2>0. /\ disturbed' \in SUBSET Disturbances /\ disturbed' # {}
        /\ "overlap" \in disturbed => "overlap" \in disturbed'
        /\ UNCHANGED <<peer, is_online, fdCache>>
    BY <1>0, <1>9 DEF LoginPeernameFails, SetDeviceFdCacheFails,
       SetDeviceAddrCacheFails, RemoveDeviceFromCache, FailAs, Disturbances,
       connVars, redisVars
  <2>1. CacheExact' /\ OneConnectionPerDevice'
    BY <2>0 DEF CacheExact, OneConnectionPerDevice
  <2>2. CASE LoginPeernameFails(f)
    <3>1. /\ peer[f] \in Devices /\ pc[f] = "idle"
          /\ is_login' = [is_login EXCEPT ![f] = TRUE]
          /\ dev_id' = [dev_id EXCEPT ![f] = peer[f]]
          /\ pc' = pc
      BY <2>2 DEF LoginPeernameFails, Idle
    <3>2. CacheTyped' /\ LoginMatchesPeer'
      BY <2>0, <3>1 DEF LoginMatchesPeer
    <3> QED  BY <2>1, <3>2
  <2>3. CASE ~LoginPeernameFails(f)
    <3>1. /\ pc[f] \in {"setfd", "public", "private", "ip", "del"}
          /\ \E s \in {"idle", "offline"} : pc' = [pc EXCEPT ![f] = s]
          /\ UNCHANGED <<is_login, dev_id>>
      BY <1>9, <2>3 DEF SetDeviceFdCacheFails, SetDeviceAddrCacheFails,
         RemoveDeviceFromCache, Goto, connVars
    <3>2. is_login[f]
      BY <3>1 DEF LoginMatchesPeer
    <3>3. CacheTyped' /\ LoginMatchesPeer'
      BY <2>0, <3>1, <3>2 DEF LoginMatchesPeer, Steps
    <3> QED  BY <2>1, <3>3
  <2> QED  BY <2>2, <2>3
<1>11. CASE UNCHANGED vars
  <2>1. UNCHANGED <<peer, is_login, is_online, dev_id, pc, fdCache, disturbed>>
    BY <1>11 DEF vars, connVars, redisVars, faultVars
  <2> QED
    BY <2>1 DEF LoginMatchesPeer, OneConnectionPerDevice, CacheExact, Registered
<1>12. CASE Restart
  <2>0. /\ \/ fdCache' = [d \in Devices |-> NoFd] /\ disturbed' = {}
           \/ /\ fdCache' \in [Devices -> Fds \cup {NoFd}]
              /\ disturbed' \in SUBSET Disturbances /\ disturbed' # {}
        /\ peer' = [f \in Fds |-> NoDev]
        /\ is_login' = [f \in Fds |-> FALSE]
        /\ is_online' = [f \in Fds |-> FALSE]
        /\ dev_id' = [f \in Fds |-> NoDev]
        /\ pc' = [f \in Fds |-> "idle"]
    BY <1>12 DEF Restart, FailAs, Disturbances
  <2>1. CacheTyped'
    BY <2>0 DEF Steps
  <2>2. LoginMatchesPeer' /\ OneConnectionPerDevice'
    BY <2>0 DEF LoginMatchesPeer, OneConnectionPerDevice
  <2>3. CacheExact'
    BY <2>0 DEF CacheExact, Registered
  <2> QED  BY <2>1, <2>2, <2>3
<1>13. ASSUME NEW f \in Fds, RemoveDeviceFromCache(f) PROVE CacheInv'
  BY <1>4, <1>9, <1>13 DEF RemoveDeviceFromCache
<1> QED
  BY <1>1, <1>2, <1>3, <1>4, <1>5, <1>6, <1>7, <1>8, <1>9, <1>11,
     <1>12, <1>13
     DEF Next, Handlers

\* Redis names the descriptor of a device if and only if the device is logged
\* in on it and its disconnect has not deleted the entry: for any number of
\* devices and descriptors, through every reuse of a descriptor, as long as
\* nothing disturbed the server since it last started with a complete
\* ClearDeviceCache, whatever happened before that start.
THEOREM CacheStaysExact == Spec => []CacheExact
<1>1. CacheInv => CacheExact
  BY DEF CacheInv
<1> QED  BY <1>1, CacheInit, CacheNext, PTL DEF Spec

-----------------------------------------------------------------------------
(* What the other variables look like; each of the following parts is kept  *)
(* by every step as long as CacheInv is.                                    *)

RestTyped ==
    /\ addrCache \in [Devices -> SUBSET AddrFields]
    /\ notice \in [Devices -> {"none", "online", "offline"}]
    /\ fails \in 0 .. MaxFails
    /\ restarts \in 0 .. MaxRestarts

NoIdBeforeLogin == \A f \in Fds : ~is_login[f] => dev_id[f] = NoDev

\* What a login has stored so far.
LoginProgress ==
    "overlap" \notin disturbed => \A f \in Fds :
        LET d == dev_id[f]
        IN  /\ pc[f] \in {"public", "private", "ip", "online"} => fdCache[d] = f
            /\ pc[f] \in {"private", "ip", "online"} => "public_addr" \in addrCache[d]
            /\ pc[f] \in {"ip", "online"} => "private_addr" \in addrCache[d]
            /\ pc[f] = "online" => "dev_ip" \in addrCache[d]

\* The address of a device that no login is storing: none, or the complete one
\* that the one DEL that may fail has left behind.
NothingStored(d) == addrCache[d] = {} \/ (addrCache[d] = AddrFields /\ fails = 1)

AddrStages ==
    fails <= 1 /\ disturbed \subseteq {"failure"} =>
        /\ \A d \in Devices : (\A f \in Fds : dev_id[f] # d) => NothingStored(d)
        /\ \A f \in Fds : is_login[f] =>
              LET d     == dev_id[f]
                  stale == addrCache[d] = AddrFields /\ fails = 1
              IN  /\ pc[f] \in {"setfd", "public", "offline", "close"} => NothingStored(d)
                  /\ pc[f] = "private" => addrCache[d] = {"public_addr"} \/ stale
                  /\ pc[f] = "ip" => addrCache[d] = {"public_addr", "private_addr"} \/ stale
                  /\ pc[f] = "online" => addrCache[d] = AddrFields
                  /\ pc[f] \in {"idle", "del"} => addrCache[d] \in {{}, AddrFields}

DeviceInv ==
    /\ CacheInv /\ RestTyped /\ NoIdBeforeLogin
    /\ NoticeExact /\ LoginProgress /\ AddrStages

LEMMA DeviceInit == Init => DeviceInv
<1> SUFFICES ASSUME Init PROVE DeviceInv
  OBVIOUS
<1>1. RestTyped /\ NoIdBeforeLogin
  <2>2. fails \in 0 .. MaxFails /\ restarts \in 0 .. MaxRestarts
    BY DEF Init
  <2>3. addrCache \in [Devices -> SUBSET AddrFields]
    BY DEF Init
  <2> QED BY <2>2, <2>3 DEF Init, RestTyped, NoIdBeforeLogin
<1>2. LoginProgress
  BY DEF Init, LoginProgress
<1>3. NoticeExact
  BY DEF Init, NoticeExact
<1>4. AddrStages
  BY DEF Init, AddrStages, NothingStored
<1> QED BY <1>1, <1>2, <1>3, <1>4, CacheInit DEF DeviceInv

\* Without an overlap two connections never carry one device's id.
LEMMA OneIdPerDevice ==
  ASSUME CacheInv, NoIdBeforeLogin, "overlap" \notin disturbed,
         NEW f \in Fds, NEW g \in Fds, dev_id[f] = dev_id[g], dev_id[f] # NoDev
  PROVE  f = g
<1>1. is_login[f] /\ is_login[g]
  BY DEF NoIdBeforeLogin
<1>2. peer[f] = dev_id[f] /\ peer[g] = dev_id[g]
  BY <1>1 DEF CacheInv, LoginMatchesPeer
<1> QED BY <1>2 DEF CacheInv, OneConnectionPerDevice

\* The connection is one of those the HTTP server was told of.
Announced(f) == is_login[f] /\ pc[f] \in {"idle", "del", "offline"}

LEMMA NoticeFrame ==
  ASSUME NoticeExact, UNCHANGED <<notice, restarts>>, disturbed \subseteq disturbed',
         disturbed' # {} \/
           \A g \in Fds : /\ Announced(g)' <=> Announced(g)
                          /\ Announced(g) => dev_id'[g] = dev_id[g]
  PROVE  NoticeExact'
<1> SUFFICES ASSUME restarts = 0, disturbed' = {}, NEW d \in Devices
             PROVE  notice'[d] = "online" <=>
                      \E f \in Fds : dev_id'[f] = d /\ Announced(f)'
  BY DEF NoticeExact, Announced
<1>1. notice[d] = "online" <=> \E f \in Fds : dev_id[f] = d /\ Announced(f)
  BY DEF NoticeExact, Announced
<1> QED BY <1>1

LEMMA ProgressFrame ==
  ASSUME LoginProgress, UNCHANGED redisVars, disturbed \subseteq disturbed',
         \A g \in Fds : \/ pc'[g] = pc[g] /\ dev_id'[g] = dev_id[g]
                        \/ pc'[g] \notin {"public", "private", "ip", "online"}
  PROVE  LoginProgress'
  BY DEF LoginProgress, redisVars

LEMMA AddrFrame ==
  ASSUME AddrStages, RestTyped, RestTyped', addrCache' = addrCache,
         disturbed \subseteq disturbed', fails <= fails',
         \A g \in Fds : UNCHANGED <<is_login[g], dev_id[g], pc[g]>>
  PROVE  AddrStages'
<1>1. fails \in Nat /\ fails' \in Nat
  BY DEF RestTyped
<1>2. fails' <= 1 => fails <= 1 /\ (fails = 1 => fails' = 1)
  BY <1>1
<1> QED BY <1>2 DEF AddrStages, NothingStored

-----------------------------------------------------------------------------
(* One lemma per step.  CacheNext gives CacheInv' for each of them.         *)

LEMMA DeviceConnect ==
  ASSUME DeviceInv, CacheInv', NEW f \in Fds, NEW d \in Devices, Connect(f, d)
  PROVE  DeviceInv'
<1> USE DEF DeviceInv
<1>1. /\ peer[f] = NoDev /\ peer' = [peer EXCEPT ![f] = d]
      /\ disturbed \subseteq disturbed'
      /\ UNCHANGED <<is_login, is_online, dev_id, pc, redisVars, notice, fails,
                     restarts>>
  BY DEF Connect
<1>2. RestTyped' /\ NoIdBeforeLogin'
  BY <1>1 DEF RestTyped, NoIdBeforeLogin, redisVars
<1>4. NoticeExact'
  BY <1>1, NoticeFrame DEF Announced
<1>5. LoginProgress'
  BY <1>1, ProgressFrame
<1>6. fails <= fails'
  BY <1>1 DEF RestTyped
<1>7. AddrStages'
  BY <1>1, <1>2, <1>6, AddrFrame DEF redisVars
<1> QED BY <1>2, <1>4, <1>5, <1>7

LEMMA DeviceLoginStart ==
  ASSUME DeviceInv, CacheInv', NEW f \in Fds, LoginStart(f) PROVE DeviceInv'
<1> USE DEF DeviceInv
<1>1. /\ peer[f] \in Devices /\ pc[f] = "idle" /\ ~is_login[f]
      /\ is_login' = [is_login EXCEPT ![f] = TRUE]
      /\ dev_id' = [dev_id EXCEPT ![f] = peer[f]]
      /\ pc' = [pc EXCEPT ![f] = "setfd"]
      /\ UNCHANGED <<peer, redisVars, notice, fails, disturbed, restarts>>
  BY DEF LoginStart, Idle, Goto, faultVars, CacheInv, CacheTyped
<1>2. /\ is_login'[f] /\ dev_id'[f] = peer[f] /\ pc'[f] = "setfd"
      /\ \A g \in Fds : g # f => UNCHANGED <<is_login[g], dev_id[g], pc[g]>>
  BY <1>1 DEF CacheInv, CacheTyped
<1>3. RestTyped' /\ NoIdBeforeLogin'
  BY <1>1, <1>2 DEF RestTyped, NoIdBeforeLogin, redisVars
<1>5. NoticeExact'
  <2>1. \A g \in Fds : /\ Announced(g)' <=> Announced(g)
                       /\ Announced(g) => dev_id'[g] = dev_id[g]
    BY <1>1, <1>2 DEF Announced
  <2> QED BY <1>1, <2>1, NoticeFrame
<1>6. LoginProgress'
  BY <1>1, <1>2, ProgressFrame
<1>7. AddrStages'
  <2> SUFFICES ASSUME fails <= 1, disturbed \subseteq {"failure"} PROVE AddrStages'
    BY <1>1 DEF AddrStages
  <2>1. \A g \in Fds : dev_id[g] # peer[f]
    BY <1>1 DEF CacheInv, OneConnectionPerDevice, LoginMatchesPeer, NoIdBeforeLogin
  <2>2. NothingStored(peer[f])
    BY <1>1, <2>1 DEF AddrStages
  <2>3. \A d \in Devices : NothingStored(d)' <=> NothingStored(d)
    BY <1>1 DEF NothingStored, redisVars
  <2>4. \A d \in Devices : (\A g \in Fds : dev_id'[g] # d) => NothingStored(d)'
    BY <1>1, <1>2, <2>3 DEF AddrStages, NoIdBeforeLogin
  <2> QED
    BY SMTT(30), <1>1, <1>2, <2>2, <2>3, <2>4 DEF AddrStages, redisVars, NothingStored
<1> QED BY <1>3, <1>5, <1>6, <1>7

LEMMA DevicePeernameFails ==
  ASSUME DeviceInv, CacheInv', NEW f \in Fds, LoginPeernameFails(f) PROVE DeviceInv'
<1> USE DEF DeviceInv
<1>1. /\ peer[f] \in Devices /\ pc[f] = "idle" /\ ~is_login[f]
      /\ is_login' = [is_login EXCEPT ![f] = TRUE]
      /\ dev_id' = [dev_id EXCEPT ![f] = peer[f]]
      /\ fails < MaxFails /\ fails' = fails + 1 /\ disturbed' = disturbed \cup {"failure"}
      /\ UNCHANGED <<peer, pc, redisVars, notice, restarts>>
  BY DEF LoginPeernameFails, Idle, Fail, FailAs, CacheInv, CacheTyped
<1>2. /\ is_login'[f] /\ dev_id'[f] = peer[f]
      /\ \A g \in Fds : g # f => UNCHANGED <<is_login[g], dev_id[g], pc[g]>>
  BY <1>1 DEF CacheInv, CacheTyped
<1>3. RestTyped' /\ NoIdBeforeLogin'
  BY <1>1, <1>2 DEF RestTyped, NoIdBeforeLogin, redisVars
<1>5. NoticeExact'
  BY <1>1, NoticeFrame
<1>6. LoginProgress'
  BY <1>1, <1>2, ProgressFrame
<1>7. AddrStages'
  <2> SUFFICES ASSUME fails + 1 <= 1, disturbed \subseteq {"failure"} PROVE AddrStages'
    BY <1>1 DEF AddrStages
  <2>0. fails = 0 /\ fails' = 1
    BY <1>1 DEF RestTyped
  <2>1. \A g \in Fds : dev_id[g] # peer[f]
    BY <1>1 DEF CacheInv, OneConnectionPerDevice, LoginMatchesPeer, NoIdBeforeLogin
  <2>2. NothingStored(peer[f])
    BY <1>1, <2>0, <2>1 DEF AddrStages
  <2>3. \A d \in Devices : NothingStored(d) => NothingStored(d)'
    BY <1>1, <2>0 DEF NothingStored, redisVars
  <2>4. \A d \in Devices : (\A g \in Fds : dev_id'[g] # d) => NothingStored(d)'
    BY <1>1, <1>2, <2>0, <2>3 DEF AddrStages, NoIdBeforeLogin
  <2> QED BY <1>1, <1>2, <2>0, <2>2, <2>3, <2>4 DEF AddrStages, redisVars, NothingStored
<1> QED BY <1>3, <1>5, <1>6, <1>7

LEMMA DeviceSetFd ==
  ASSUME DeviceInv, CacheInv', NEW f \in Fds, SetDeviceFdCache(f) PROVE DeviceInv'
<1> USE DEF DeviceInv
<1>1. /\ pc[f] = "setfd" /\ pc' = [pc EXCEPT ![f] = "public"]
      /\ fdCache' = [fdCache EXCEPT ![dev_id[f]] = f]
      /\ UNCHANGED <<connVars, addrCache, notice, fails, disturbed, restarts>>
  BY DEF SetDeviceFdCache, Goto, faultVars
<1>2. /\ pc'[f] = "public" /\ \A g \in Fds : g # f => pc'[g] = pc[g]
      /\ is_login[f] /\ dev_id[f] \in Devices
      /\ UNCHANGED <<peer, is_login, dev_id>>
  BY <1>1 DEF CacheInv, CacheTyped, LoginMatchesPeer, connVars
<1>3. RestTyped' /\ NoIdBeforeLogin'
  BY <1>1, <1>2 DEF RestTyped, NoIdBeforeLogin
<1>5. NoticeExact'
  BY <1>1, <1>2, NoticeFrame DEF Announced
<1>6. LoginProgress'
  <2> SUFFICES ASSUME "overlap" \notin disturbed PROVE LoginProgress'
    BY <1>1 DEF LoginProgress
  <2>1. fdCache'[dev_id[f]] = f
    BY <1>1, <1>2 DEF CacheInv, CacheTyped
  <2>2. \A g \in Fds : g # f /\ pc[g] \notin {"idle", "close"} =>
            dev_id[g] # dev_id[f] /\ dev_id[g] \in Devices
    BY <1>2, OneIdPerDevice DEF CacheInv, LoginMatchesPeer
  <2>3. \A g \in Fds : g # f /\ pc[g] \notin {"idle", "close"} =>
            fdCache'[dev_id[g]] = fdCache[dev_id[g]]
    BY <1>1, <2>2 DEF CacheInv, CacheTyped
  <2> QED BY <1>1, <1>2, <2>1, <2>3 DEF LoginProgress
<1>7. AddrStages'
  BY <1>1, <1>2 DEF AddrStages, NothingStored
<1> QED BY <1>3, <1>5, <1>6, <1>7

LEMMA DeviceSetFdFails ==
  ASSUME DeviceInv, CacheInv', NEW f \in Fds, SetDeviceFdCacheFails(f) PROVE DeviceInv'
<1> USE DEF DeviceInv
<1>1. /\ pc[f] = "setfd" /\ pc' = [pc EXCEPT ![f] = "idle"]
      /\ fails < MaxFails /\ fails' = fails + 1 /\ disturbed' = disturbed \cup {"failure"}
      /\ UNCHANGED <<connVars, redisVars, notice, restarts>>
  BY DEF SetDeviceFdCacheFails, Goto, Fail, FailAs
<1>2. /\ pc'[f] = "idle" /\ \A g \in Fds : g # f => pc'[g] = pc[g]
      /\ is_login[f] /\ dev_id[f] \in Devices
      /\ UNCHANGED <<peer, is_login, dev_id>>
  BY <1>1 DEF CacheInv, CacheTyped, LoginMatchesPeer, connVars
<1>3. RestTyped' /\ NoIdBeforeLogin'
  BY <1>1, <1>2 DEF RestTyped, NoIdBeforeLogin, redisVars
<1>5. NoticeExact'
  BY <1>1, NoticeFrame
<1>6. LoginProgress'
  BY <1>1, <1>2, ProgressFrame
<1>7. AddrStages'
  <2> SUFFICES ASSUME fails + 1 <= 1, disturbed \subseteq {"failure"} PROVE AddrStages'
    BY <1>1 DEF AddrStages
  <2>1. fails = 0 /\ fails' = 1
    BY <1>1 DEF RestTyped
  <2> QED BY <1>1, <1>2, <2>1 DEF AddrStages, redisVars, NothingStored
<1> QED BY <1>3, <1>5, <1>6, <1>7

LEMMA DeviceSetAddr ==
  ASSUME DeviceInv, CacheInv', NEW f \in Fds, SetDeviceAddrCache(f) PROVE DeviceInv'
<1> USE DEF DeviceInv
<1> DEFINE d == dev_id[f]
<1>1. /\ \/ pc[f] = "public" /\ pc' = [pc EXCEPT ![f] = "private"]
            /\ addrCache' = [addrCache EXCEPT ![d] = @ \cup {"public_addr"}]
         \/ pc[f] = "private" /\ pc' = [pc EXCEPT ![f] = "ip"]
            /\ addrCache' = [addrCache EXCEPT ![d] = @ \cup {"private_addr"}]
         \/ pc[f] = "ip" /\ pc' = [pc EXCEPT ![f] = "online"]
            /\ addrCache' = [addrCache EXCEPT ![d] = @ \cup {"dev_ip"}]
      /\ UNCHANGED <<connVars, fdCache, notice, fails, disturbed, restarts>>
  BY DEF SetDeviceAddrCache, Goto, AddrField, AfterField, faultVars
<1>2. /\ is_login[f] /\ d \in Devices /\ addrCache[d] \subseteq AddrFields
      /\ UNCHANGED <<peer, is_login, dev_id>>
  BY <1>1 DEF CacheInv, CacheTyped, LoginMatchesPeer, connVars, RestTyped
<1>3. /\ \A g \in Fds : g # f => pc'[g] = pc[g]
      /\ \/ pc[f] = "public" /\ pc'[f] = "private"
            /\ addrCache'[d] = addrCache[d] \cup {"public_addr"}
         \/ pc[f] = "private" /\ pc'[f] = "ip"
            /\ addrCache'[d] = addrCache[d] \cup {"private_addr"}
         \/ pc[f] = "ip" /\ pc'[f] = "online"
            /\ addrCache'[d] = addrCache[d] \cup {"dev_ip"}
      /\ \A e \in Devices : e # d => addrCache'[e] = addrCache[e]
  BY <1>1, <1>2 DEF CacheInv, CacheTyped, RestTyped
<1>4. "overlap" \notin disturbed =>
         \A g \in Fds : g # f /\ is_login[g] => dev_id[g] \in Devices /\ dev_id[g] # d
  BY <1>2, OneIdPerDevice DEF CacheInv, LoginMatchesPeer
<1>5. RestTyped' /\ NoIdBeforeLogin'
  <2>1. addrCache' \in [Devices -> SUBSET AddrFields]
    BY <1>1, <1>2 DEF RestTyped, AddrFields
  <2> QED BY <1>1, <1>2, <2>1 DEF RestTyped, NoIdBeforeLogin
<1>7. NoticeExact'
  BY <1>1, <1>2, <1>3, NoticeFrame DEF Announced
<1>8. LoginProgress'
  <2> SUFFICES ASSUME "overlap" \notin disturbed, NEW g \in Fds
               PROVE  LET e == dev_id[g]
                      IN  /\ pc'[g] \in {"public", "private", "ip", "online"} => fdCache[e] = g
                          /\ pc'[g] \in {"private", "ip", "online"} => "public_addr" \in addrCache'[e]
                          /\ pc'[g] \in {"ip", "online"} => "private_addr" \in addrCache'[e]
                          /\ pc'[g] = "online" => "dev_ip" \in addrCache'[e]
    BY <1>1, <1>2 DEF LoginProgress
  <2>1. CASE g = f
    BY <1>3, <2>1 DEF LoginProgress
  <2>2. CASE g # f
    <3>1. pc'[g] = pc[g]
      BY <1>3, <2>2
    <3>2. pc[g] \in {"public", "private", "ip", "online"} =>
             addrCache'[dev_id[g]] = addrCache[dev_id[g]]
      BY <1>3, <1>4, <2>2 DEF CacheInv, LoginMatchesPeer
    <3> QED BY <3>1, <3>2 DEF LoginProgress
  <2> QED BY <2>1, <2>2
<1>9. AddrStages'
  <2> SUFFICES ASSUME fails <= 1, disturbed \subseteq {"failure"} PROVE AddrStages'
    BY <1>1 DEF AddrStages
  <2>1. /\ \A e \in Devices : (\A g \in Fds : dev_id[g] # e) => NothingStored(e)'
    BY <1>1, <1>2, <1>3 DEF AddrStages, NothingStored
  <2>2. /\ pc'[f] = "private" => addrCache'[d] = {"public_addr"}
                                   \/ (addrCache'[d] = AddrFields /\ fails = 1)
        /\ pc'[f] = "ip" => addrCache'[d] = {"public_addr", "private_addr"}
                                   \/ (addrCache'[d] = AddrFields /\ fails = 1)
        /\ pc'[f] = "online" => addrCache'[d] = AddrFields
        /\ pc'[f] \in {"private", "ip", "online"}
    <3>1. CASE pc[f] = "public"
      <4>1. addrCache[d] = {} \/ (addrCache[d] = AddrFields /\ fails = 1)
        BY <1>2, <3>1 DEF AddrStages, NothingStored
      <4> QED BY <1>3, <3>1, <4>1 DEF AddrFields
    <3>2. CASE pc[f] = "private"
      <4>1. addrCache[d] = {"public_addr"} \/ (addrCache[d] = AddrFields /\ fails = 1)
        BY <1>2, <3>2 DEF AddrStages
      <4> QED BY <1>3, <3>2, <4>1 DEF AddrFields
    <3>3. CASE pc[f] = "ip"
      <4>1. addrCache[d] = {"public_addr", "private_addr"} \/ addrCache[d] = AddrFields
        BY <1>2, <3>3 DEF AddrStages
      <4> QED BY <1>3, <3>3, <4>1 DEF AddrFields
    <3> QED BY <1>3, <3>1, <3>2, <3>3
  <2>3. \A g \in Fds : g # f /\ is_login[g] =>
            pc'[g] = pc[g] /\ addrCache'[dev_id[g]] = addrCache[dev_id[g]]
    BY <1>3, <1>4
  <2> QED BY <1>1, <1>2, <2>1, <2>2, <2>3 DEF AddrStages, NothingStored
<1> QED BY <1>5, <1>7, <1>8, <1>9

LEMMA DeviceSetAddrFails ==
  ASSUME DeviceInv, CacheInv', NEW f \in Fds, SetDeviceAddrCacheFails(f) PROVE DeviceInv'
<1> USE DEF DeviceInv
<1> DEFINE d == dev_id[f]
<1>1. PICK kept \in SUBSET RolledBack(pc[f]) :
        /\ FailAs(IF kept = {} THEN "failure" ELSE "unrolled")
        /\ addrCache' = [addrCache EXCEPT ![d] = @ \ (RolledBack(pc[f]) \ kept)]
  BY DEF SetDeviceAddrCacheFails
<1>2. /\ pc[f] \in {"public", "private", "ip"} /\ pc' = [pc EXCEPT ![f] = "idle"]
      /\ fails < MaxFails /\ fails' = fails + 1 /\ disturbed \subseteq disturbed'
      /\ disturbed' # {}
      /\ kept = {} \/ "unrolled" \in disturbed'
      /\ UNCHANGED <<connVars, fdCache, notice, restarts>>
  BY <1>1 DEF SetDeviceAddrCacheFails, Goto, FailAs
<1>3. /\ is_login[f] /\ d \in Devices
      /\ UNCHANGED <<peer, is_login, dev_id>>
  BY <1>2 DEF CacheInv, CacheTyped, LoginMatchesPeer, connVars
<1>4. /\ pc'[f] = "idle" /\ \A g \in Fds : g # f => pc'[g] = pc[g]
      /\ addrCache'[d] = addrCache[d] \ (RolledBack(pc[f]) \ kept)
      /\ \A e \in Devices : e # d => addrCache'[e] = addrCache[e]
  BY <1>1, <1>2, <1>3 DEF CacheInv, CacheTyped, RestTyped
<1>5. "overlap" \notin disturbed =>
         \A g \in Fds : g # f /\ is_login[g] => dev_id[g] \in Devices /\ dev_id[g] # d
  BY <1>3, OneIdPerDevice DEF CacheInv, LoginMatchesPeer
<1>6. RestTyped' /\ NoIdBeforeLogin'
  <2>1. addrCache' \in [Devices -> SUBSET AddrFields]
    BY <1>1, <1>3 DEF RestTyped
  <2>2. fails' \in 0 .. MaxFails
    BY <1>2 DEF RestTyped
  <2> QED BY <1>2, <1>3, <2>1, <2>2 DEF RestTyped, NoIdBeforeLogin
<1>8. NoticeExact'
  BY <1>2, NoticeFrame
<1>9. LoginProgress'
  <2> SUFFICES ASSUME "overlap" \notin disturbed PROVE LoginProgress'
    BY <1>2 DEF LoginProgress
  <2>1. \A g \in Fds : g # f /\ pc[g] \in {"public", "private", "ip", "online"} =>
             addrCache'[dev_id[g]] = addrCache[dev_id[g]]
    BY <1>4, <1>5 DEF CacheInv, LoginMatchesPeer
  <2> QED BY <1>2, <1>3, <1>4, <2>1 DEF LoginProgress
<1>10. AddrStages'
  <2> SUFFICES ASSUME fails + 1 <= 1, disturbed' \subseteq {"failure"} PROVE AddrStages'
    BY <1>2 DEF AddrStages
  <2>1. /\ fails = 0 /\ fails' = 1 /\ kept = {} /\ disturbed \subseteq {"failure"}
        /\ "overlap" \notin disturbed
    BY <1>2 DEF RestTyped
  <2>2. addrCache'[d] = {}
    <3>1. addrCache'[d] = addrCache[d] \ RolledBack(pc[f])
      BY <1>4, <2>1
    <3>2. CASE pc[f] = "public"
      BY <1>3, <2>1, <3>1, <3>2 DEF AddrStages, NothingStored
    <3>3. CASE pc[f] = "private"
      <4>1. addrCache[d] = {"public_addr"} /\ RolledBack(pc[f]) = {"public_addr"}
        BY <1>3, <2>1, <3>3 DEF AddrStages, RolledBack
      <4> QED BY <3>1, <4>1
    <3>4. CASE pc[f] = "ip"
      <4>1. /\ addrCache[d] = {"public_addr", "private_addr"}
            /\ RolledBack(pc[f]) = {"public_addr", "private_addr"}
        BY <1>3, <2>1, <3>4 DEF AddrStages, RolledBack
      <4> QED BY <3>1, <4>1
    <3> QED BY <1>2, <3>2, <3>3, <3>4
  <2>3. \A e \in Devices : (\A g \in Fds : dev_id[g] # e) => NothingStored(e)'
    BY <1>3, <1>4, <2>1 DEF AddrStages, NothingStored
  <2>4. \A g \in Fds : g # f /\ is_login[g] =>
            pc'[g] = pc[g] /\ addrCache'[dev_id[g]] = addrCache[dev_id[g]]
    BY <1>4, <1>5, <2>1
  <2> QED BY SMTT(30), <1>2, <1>3, <1>4, <2>1, <2>2, <2>3, <2>4 DEF AddrStages, NothingStored
<1> QED BY <1>6, <1>8, <1>9, <1>10

LEMMA DeviceNotices ==
  ASSUME DeviceInv, CacheInv', NEW f \in Fds, LoginNotice(f) \/ OfflineNotice(f)
  PROVE  DeviceInv'
<1> USE DEF DeviceInv
<1> DEFINE d == dev_id[f]
<1>1. /\ \/ /\ pc[f] = "online" /\ pc' = [pc EXCEPT ![f] = "idle"]
            /\ notice' = [notice EXCEPT ![d] = "online"]
         \/ /\ pc[f] = "offline" /\ pc' = [pc EXCEPT ![f] = "close"]
            /\ notice' = [notice EXCEPT ![d] = "offline"]
      /\ UNCHANGED <<connVars, redisVars, fails, disturbed, restarts>>
  BY DEF LoginNotice, OfflineNotice, Goto, faultVars
<1>2. /\ is_login[f] /\ d \in Devices
      /\ UNCHANGED <<peer, is_login, dev_id>>
  BY <1>1 DEF CacheInv, CacheTyped, LoginMatchesPeer, connVars
<1>3. /\ \A g \in Fds : g # f => pc'[g] = pc[g]
      /\ \/ pc[f] = "online" /\ pc'[f] = "idle" /\ notice'[d] = "online"
         \/ pc[f] = "offline" /\ pc'[f] = "close" /\ notice'[d] = "offline"
      /\ \A e \in Devices : e # d => notice'[e] = notice[e]
  BY <1>1, <1>2 DEF CacheInv, CacheTyped, RestTyped
<1>4. RestTyped' /\ NoIdBeforeLogin'
  BY <1>1, <1>2 DEF RestTyped, NoIdBeforeLogin, redisVars
<1>6. NoticeExact'
  <2> SUFFICES ASSUME restarts = 0, disturbed = {}, NEW e \in Devices
               PROVE  notice'[e] = "online" <=>
                        \E g \in Fds : dev_id[g] = e /\ Announced(g)'
    BY <1>1, <1>2 DEF NoticeExact, Announced
  <2>1. notice[e] = "online" <=> \E g \in Fds : dev_id[g] = e /\ Announced(g)
    BY DEF NoticeExact, Announced
  <2>2. \A g \in Fds : g # f => (Announced(g)' <=> Announced(g))
    BY <1>2, <1>3 DEF Announced
  <2>3. CASE e = d
    <3>1. \A g \in Fds : dev_id[g] = d => g = f
      BY <1>2, OneIdPerDevice
    <3> QED BY <1>2, <1>3, <2>3, <3>1 DEF Announced
  <2>4. CASE e # d
    BY <1>3, <2>1, <2>2, <2>4
  <2> QED BY <2>3, <2>4
<1>7. LoginProgress'
  BY <1>1, <1>2, <1>3, ProgressFrame
<1>8. AddrStages'
  BY <1>1, <1>2, <1>3 DEF AddrStages, NothingStored, redisVars
<1> QED BY <1>4, <1>6, <1>7, <1>8

LEMMA DeviceErrorCb ==
  ASSUME DeviceInv, CacheInv', NEW f \in Fds, ErrorCb(f) PROVE DeviceInv'
<1> USE DEF DeviceInv
<1>1. /\ pc[f] = "idle"
      /\ disturbed \subseteq disturbed'
      /\ ~is_login[f] \/ is_online[f] \/ "early" \in disturbed'
      /\ \/ is_online[f] /\ pc' = [pc EXCEPT ![f] = "del"]
         \/ ~is_online[f] /\ pc' = [pc EXCEPT ![f] = "close"]
      /\ UNCHANGED <<connVars, redisVars, notice, fails, restarts>>
  BY DEF ErrorCb, Idle, Goto
<1>2. /\ UNCHANGED <<peer, is_login, dev_id>>
      /\ is_online[f] => is_login[f]
  BY <1>1 DEF CacheInv, CacheTyped, LoginMatchesPeer, connVars
<1>3. /\ \A g \in Fds : g # f => pc'[g] = pc[g]
      /\ \/ is_login[f] /\ pc'[f] = "del"
         \/ ~is_login[f] /\ pc'[f] = "close"
         \/ "early" \in disturbed' /\ pc'[f] \in {"del", "close"}
  BY <1>1, <1>2 DEF CacheInv, CacheTyped
<1>4. RestTyped' /\ NoIdBeforeLogin'
  BY <1>1, <1>2 DEF RestTyped, NoIdBeforeLogin, redisVars
<1>6. NoticeExact'
  <2>1. \/ disturbed' # {}
        \/ \A g \in Fds : /\ Announced(g)' <=> Announced(g)
                          /\ Announced(g) => dev_id'[g] = dev_id[g]
    BY <1>1, <1>2, <1>3 DEF Announced
  <2> QED BY <1>1, <2>1, NoticeFrame
<1>7. LoginProgress'
  BY <1>1, <1>2, <1>3, ProgressFrame
<1>8. AddrStages'
  BY <1>1, <1>2, <1>3 DEF AddrStages, NothingStored, redisVars
<1> QED BY <1>4, <1>6, <1>7, <1>8

LEMMA DeviceRemove ==
  ASSUME DeviceInv, CacheInv', NEW f \in Fds, RemoveDeviceFromCache(f) PROVE DeviceInv'
<1> USE DEF DeviceInv
<1> DEFINE d == dev_id[f]
<1>1. /\ pc[f] = "del" /\ pc' = [pc EXCEPT ![f] = "offline"]
      /\ UNCHANGED <<connVars, notice, restarts>>
  BY DEF RemoveDeviceFromCache, Goto
<1>2. /\ is_login[f] /\ d \in Devices
      /\ UNCHANGED <<peer, is_login, dev_id>>
      /\ pc'[f] = "offline" /\ \A g \in Fds : g # f => pc'[g] = pc[g]
  BY <1>1 DEF CacheInv, CacheTyped, LoginMatchesPeer, connVars
<1>3. \A g \in Fds : /\ Announced(g)' <=> Announced(g)
                     /\ Announced(g) => dev_id'[g] = dev_id[g]
  BY <1>1, <1>2 DEF Announced
<1>4. CASE /\ fdCache' = [fdCache EXCEPT ![d] = NoFd]
           /\ addrCache' = [addrCache EXCEPT ![d] = {}]
           /\ UNCHANGED faultVars
  <2>1. /\ UNCHANGED <<fails, disturbed>> /\ addrCache'[d] = {}
        /\ \A e \in Devices : e # d => addrCache'[e] = addrCache[e] /\ fdCache'[e] = fdCache[e]
    BY <1>2, <1>4 DEF faultVars, RestTyped, CacheInv, CacheTyped
  <2>2. "overlap" \notin disturbed =>
           \A g \in Fds : g # f /\ is_login[g] => dev_id[g] \in Devices /\ dev_id[g] # d
    BY <1>2, OneIdPerDevice DEF CacheInv, LoginMatchesPeer
  <2>3. RestTyped' /\ NoIdBeforeLogin'
    BY <1>1, <1>2, <1>4, <2>1 DEF RestTyped, NoIdBeforeLogin
  <2>4. NoticeExact'
    BY <1>1, <1>2, <1>3, <2>1, NoticeFrame
  <2>5. LoginProgress'
    <3> SUFFICES ASSUME "overlap" \notin disturbed PROVE LoginProgress'
      BY <2>1 DEF LoginProgress
    <3>1. \A g \in Fds : g # f /\ pc[g] \in {"public", "private", "ip", "online"} =>
             /\ addrCache'[dev_id[g]] = addrCache[dev_id[g]]
             /\ fdCache'[dev_id[g]] = fdCache[dev_id[g]]
      BY <2>1, <2>2 DEF CacheInv, LoginMatchesPeer
    <3> QED BY <1>2, <2>1, <3>1 DEF LoginProgress
  <2>6. AddrStages'
    <3> SUFFICES ASSUME fails <= 1, disturbed \subseteq {"failure"} PROVE AddrStages'
      BY <2>1 DEF AddrStages
    <3>1. \A e \in Devices : (\A g \in Fds : dev_id[g] # e) => NothingStored(e)'
      BY <1>2, <2>1 DEF AddrStages, NothingStored
    <3>2. \A g \in Fds : g # f /\ is_login[g] =>
              pc'[g] = pc[g] /\ addrCache'[dev_id[g]] = addrCache[dev_id[g]]
      BY <1>2, <2>1, <2>2
    <3> QED BY SMTT(30), <1>2, <2>1, <3>1, <3>2 DEF AddrStages, NothingStored
  <2> QED BY <2>3, <2>4, <2>5, <2>6
<1>5. CASE Fail /\ UNCHANGED redisVars
  <2>1. /\ fails < MaxFails /\ fails' = fails + 1 /\ disturbed' = disturbed \cup {"failure"}
        /\ UNCHANGED <<fdCache, addrCache>>
    BY <1>5 DEF Fail, FailAs, redisVars
  <2>2. RestTyped' /\ NoIdBeforeLogin'
    BY <1>1, <1>2, <2>1 DEF RestTyped, NoIdBeforeLogin
  <2>3. NoticeExact' /\ LoginProgress'
    BY <1>1, <1>2, <1>5, <2>1, NoticeFrame, ProgressFrame
  <2>4. AddrStages'
    <3> SUFFICES ASSUME fails + 1 <= 1, disturbed \subseteq {"failure"} PROVE AddrStages'
      BY <2>1 DEF AddrStages
    <3>1. fails = 0 /\ fails' = 1
      BY <2>1 DEF RestTyped
    <3> QED BY <1>2, <1>1, <2>1, <3>1 DEF AddrStages, NothingStored
  <2> QED BY <2>2, <2>3, <2>4
<1> QED BY <1>4, <1>5 DEF RemoveDeviceFromCache

LEMMA DeviceBeacons ==
  ASSUME DeviceInv, CacheInv', NEW f \in Fds, DeviceBeacon(f) PROVE DeviceInv'
<1> USE DEF DeviceInv
<1>1. UNCHANGED <<peer, is_login, dev_id, pc, redisVars, notice, fails,
                  disturbed, restarts>>
  BY DEF DeviceBeacon, faultVars
<1>2. RestTyped' /\ NoIdBeforeLogin'
  BY <1>1 DEF RestTyped, NoIdBeforeLogin, redisVars
<1>3. fails <= fails'
  BY <1>1 DEF RestTyped
<1>4. LoginProgress'
  BY <1>1, ProgressFrame
<1>5. NoticeExact'
  BY <1>1, NoticeFrame DEF Announced
<1>6. AddrStages'
  BY <1>1, <1>2, <1>3, AddrFrame DEF redisVars
<1> QED BY <1>2, <1>4, <1>5, <1>6

LEMMA DeviceClose ==
  ASSUME DeviceInv, CacheInv', NEW f \in Fds, Close(f) PROVE DeviceInv'
<1> USE DEF DeviceInv
<1>1. /\ pc[f] = "close" /\ pc' = [pc EXCEPT ![f] = "idle"]
      /\ peer' = [peer EXCEPT ![f] = NoDev]
      /\ is_login' = [is_login EXCEPT ![f] = FALSE]
      /\ dev_id' = [dev_id EXCEPT ![f] = NoDev]
      /\ UNCHANGED <<redisVars, notice, fails, disturbed, restarts>>
  BY DEF Close, Goto, faultVars
<1>2. /\ pc'[f] = "idle" /\ ~is_login'[f] /\ dev_id'[f] = NoDev
      /\ \A g \in Fds : g # f => UNCHANGED <<is_login[g], dev_id[g], pc[g], peer[g]>>
  BY <1>1 DEF CacheInv, CacheTyped
<1>3. RestTyped' /\ NoIdBeforeLogin'
  BY <1>1, <1>2 DEF RestTyped, NoIdBeforeLogin, redisVars
<1>5. NoticeExact'
  <2>1. \A g \in Fds : /\ Announced(g)' <=> Announced(g)
                       /\ Announced(g) => dev_id'[g] = dev_id[g]
    BY <1>1, <1>2 DEF Announced
  <2> QED BY <1>1, <2>1, NoticeFrame
<1>6. LoginProgress'
  BY <1>1, <1>2, ProgressFrame
<1>7. AddrStages'
  <2> SUFFICES ASSUME fails <= 1, disturbed \subseteq {"failure"} PROVE AddrStages'
    BY <1>1 DEF AddrStages
  <2>1. dev_id[f] \in Devices => NothingStored(dev_id[f])
    BY <1>1 DEF AddrStages, NoIdBeforeLogin
  <2>2. \A e \in Devices : (\A g \in Fds : dev_id'[g] # e) => NothingStored(e)'
    BY <1>1, <1>2, <2>1 DEF AddrStages, NothingStored, redisVars
  <2> QED BY <1>1, <1>2, <2>2 DEF AddrStages, NothingStored, redisVars
<1> QED BY <1>3, <1>5, <1>6, <1>7

LEMMA DeviceStutters == ASSUME DeviceInv, CacheInv', UNCHANGED vars PROVE DeviceInv'
<1> USE DEF DeviceInv
<1>1. /\ UNCHANGED <<connVars, pc, redisVars, notice, fails, disturbed, restarts>>
      /\ UNCHANGED <<peer, is_login, dev_id, fdCache, addrCache>>
  BY DEF vars, faultVars, connVars, redisVars
<1>2. RestTyped'
  BY <1>1 DEF RestTyped
<1>3. NoIdBeforeLogin' /\ LoginProgress'
  BY <1>1, ProgressFrame DEF NoIdBeforeLogin
<1>4. NoticeExact'
  BY <1>1, NoticeFrame DEF Announced
<1>5. fails <= fails'
  BY <1>1 DEF RestTyped
<1>6. AddrStages'
  BY <1>1, <1>2, <1>5, AddrFrame
<1> QED BY <1>2, <1>3, <1>4, <1>6

LEMMA DeviceRestart ==
  ASSUME DeviceInv, CacheInv', Restart PROVE DeviceInv'
<1> USE DEF DeviceInv
<1>1. /\ restarts < MaxRestarts /\ restarts' = restarts + 1
      /\ is_login' = [f \in Fds |-> FALSE] /\ dev_id' = [f \in Fds |-> NoDev]
      /\ pc' = [f \in Fds |-> "idle"]
      /\ notice' = notice
      /\ \/ addrCache' = [d \in Devices |-> {}] /\ fails' = fails
         \/ /\ "uncleared" \in disturbed' /\ fails < MaxFails /\ fails' = fails + 1
            /\ \E kept \in SUBSET Devices :
                  addrCache' = [d \in Devices |-> IF d \in kept THEN addrCache[d] ELSE {}]
  BY DEF Restart, FailAs
<1>3. RestTyped' /\ NoIdBeforeLogin'
  <2>1. addrCache' \in [Devices -> SUBSET AddrFields]
    BY <1>1 DEF RestTyped
  <2>2. fails' \in 0 .. MaxFails /\ restarts' \in 0 .. MaxRestarts
    BY <1>1 DEF RestTyped
  <2> QED BY <1>1, <2>1, <2>2 DEF RestTyped, NoIdBeforeLogin
<1>4. LoginProgress'
  BY <1>1 DEF LoginProgress
<1>5. NoticeExact'
  <2>1. restarts' # 0
    BY <1>1 DEF RestTyped
  <2> QED BY <2>1 DEF NoticeExact
<1>6. AddrStages'
  BY <1>1 DEF AddrStages, NothingStored
<1> QED BY <1>3, <1>4, <1>5, <1>6

LEMMA DeviceNext == DeviceInv /\ [Next]_vars => DeviceInv'
<1> SUFFICES ASSUME DeviceInv, [Next]_vars PROVE DeviceInv'
  OBVIOUS
<1>1. CacheInv'
  BY CacheNext DEF DeviceInv
<1> QED
  BY <1>1, DeviceConnect, DeviceLoginStart, DevicePeernameFails, DeviceSetFd,
     DeviceSetFdFails, DeviceSetAddr, DeviceSetAddrFails, DeviceNotices, DeviceErrorCb,
     DeviceRemove, DeviceBeacons, DeviceClose, DeviceStutters, DeviceRestart
     DEF Next, Handlers

LEMMA DeviceInvariant == Spec => []DeviceInv
  BY DeviceInit, DeviceNext, PTL DEF Spec

\* DeviceSession's state stays well typed.
THEOREM SessionTypeCorrect == Spec => []TypeOK
<1>1. DeviceInv => TypeOK
  BY DEF DeviceInv, CacheInv, CacheTyped, RestTyped, TypeOK
<1> QED BY <1>1, DeviceInvariant, PTL

\* The last notice submitted for a device says "online" exactly from the end of
\* its DeviceLogin to the end of its ClientTcpErrorCb.
THEOREM NoticeStaysExact == Spec => []NoticeExact
<1>1. DeviceInv => NoticeExact
  BY DEF DeviceInv
<1> QED BY <1>1, DeviceInvariant, PTL

\* SetDeviceAddrCache's rollback leaves no address half stored, whichever one
\* command of whichever handler fails.
THEOREM AddrAllOrNothingHolds == Spec => []AddrAllOrNothing
<1>1. DeviceInv => AddrAllOrNothing
  <2> SUFFICES ASSUME DeviceInv, fails <= 1, disturbed \subseteq {"failure"},
                      NEW d \in Devices,
                      \A f \in Fds : dev_id[f] = d => pc[f] \notin {"private", "ip"}
               PROVE  addrCache[d] \in {{}, AddrFields}
    BY DEF AddrAllOrNothing
  <2>1. CASE \A f \in Fds : dev_id[f] # d
    BY <2>1 DEF DeviceInv, AddrStages, NothingStored
  <2>2. ASSUME NEW f \in Fds, dev_id[f] = d PROVE addrCache[d] \in {{}, AddrFields}
    <3>1. is_login[f] /\ pc[f] \in Steps \ {"private", "ip"}
      BY <2>2 DEF DeviceInv, NoIdBeforeLogin, CacheInv, CacheTyped
    <3> QED BY <2>2, <3>1 DEF DeviceInv, AddrStages, NothingStored, Steps
  <2> QED BY <2>1, <2>2
<1> QED BY <1>1, DeviceInvariant, PTL

\* Every LoginNotice finds this connection's descriptor and all three address
\* fields in Redis, the ones that repeat an announcement after an early drop or
\* a crash included, unless the device's old connection lingers.
THEOREM OnlineNoticeMeansRegisteredHolds == Spec => OnlineNoticeMeansRegistered
<1> DEFINE A == \A f \in Fds : LoginNotice(f) =>
                  \/ "overlap" \in disturbed
                  \/ fdCache[dev_id[f]] = f /\ addrCache[dev_id[f]] = AddrFields
<1>1. DeviceInv /\ [Next]_vars => [A]_vars
  <2> SUFFICES ASSUME DeviceInv, NEW f \in Fds, LoginNotice(f), "overlap" \notin disturbed
               PROVE  fdCache[dev_id[f]] = f /\ addrCache[dev_id[f]] = AddrFields
    OBVIOUS
  <2>1. pc[f] = "online" /\ dev_id[f] \in Devices
    BY DEF LoginNotice, DeviceInv, CacheInv, LoginMatchesPeer
  <2> QED BY <2>1 DEF DeviceInv, LoginProgress, RestTyped, AddrFields
<1> QED BY <1>1, DeviceInvariant, PTL DEF Spec, OnlineNoticeMeansRegistered
=============================================================================
