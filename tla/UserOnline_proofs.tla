-------------------------- MODULE UserOnline_proofs --------------------------
(***************************************************************************)
(* Proofs about userOnline, for any sets of descriptors and sessions and   *)
(* any number of failures.                                                 *)
(***************************************************************************)
EXTENDS UserOnline, Integers, TLAPS

USE UserAssumption

-----------------------------------------------------------------------------
(* Sessions.                                                                *)

SessionTypes ==
    /\ logged_out \subseteq Guids
    /\ boot \in {"clear", "up"}
    /\ to_clear \subseteq Guids
    /\ guid_fd \in [Guids -> Fds \cup {NoFd}]
    /\ open \subseteq Fds
    /\ guid \in [Fds -> Guids \cup {NoGuid}]
    /\ is_online \in [Fds -> BOOLEAN]
    /\ pc \in [Fds -> {"idle", "reject", "set", "logout", "close"}]
    /\ fails \in 0 .. MaxFails /\ disturbed \subseteq Disturbances

\* What a conn looks like where its worker is.
ConnControl ==
    \A f \in Fds :
        /\ f \notin open => guid[f] = NoGuid /\ ~is_online[f] /\ pc[f] = "idle"
        /\ boot = "clear" => f \notin open
        /\ is_online[f] => guid[f] # NoGuid
        /\ pc[f] = "reject" => ~is_online[f] /\ guid[f] # NoGuid
        /\ pc[f] \in {"set", "logout"} => is_online[f]

\* Keys the clearing scan has passed are gone.
ClearedAreGone ==
    boot = "clear" /\ "undeleted" \notin disturbed =>
        \A g \in Guids \ to_clear : guid_fd[g] = NoFd

\* An entry names a connection whose disconnect has not deleted it yet.
EntryIsLive ==
    boot = "up" /\ disturbed \cap {"undeleted", "changed"} = {} =>
        \A g \in Guids, f \in Fds : guid_fd[g] = f =>
            /\ f \in open /\ guid[f] = g /\ pc[f] \notin {"logout", "close"}
            /\ is_online[f] \/ pc[f] = "reject"

OneConnPerSession ==
    "shared" \notin disturbed =>
        \A f, h \in Fds : guid[f] = guid[h] /\ guid[f] # NoGuid => f = h

\* The entry is gone from the DEL of a disconnect to the notice.
LeavingIsGone ==
    disturbed \cap {"undeleted", "shared", "changed"} = {} =>
        \A f \in Fds : pc[f] = "logout" => guid_fd[guid[f]] = NoFd

SessionInv ==
    /\ SessionTypes /\ ConnControl /\ ClearedAreGone /\ EntryIsLive
    /\ OneConnPerSession /\ OnlineUserIsFound /\ LeavingIsGone /\ LoggedOutIsGone

-----------------------------------------------------------------------------
(* The sessions' invariant.                                                 *)

LEMMA SessionInit == UserInit => SessionInv
<1> SUFFICES ASSUME UserInit PROVE SessionInv
  OBVIOUS
<1>1. SessionTypes
  BY DEF UserInit, SessionTypes, Disturbances
<1>2. ConnControl
  BY DEF UserInit, ConnControl
<1>3. ClearedAreGone /\ EntryIsLive /\ OneConnPerSession
  BY DEF UserInit, ClearedAreGone, EntryIsLive, OneConnPerSession
<1>4. OnlineUserIsFound /\ LeavingIsGone /\ LoggedOutIsGone
  BY DEF UserInit, OnlineUserIsFound, LeavingIsGone, LoggedOutIsGone
<1> QED BY <1>1, <1>2, <1>3, <1>4 DEF SessionInv

\* DEL removes the one entry, or its failure is on record.
LEMMA DelFacts ==
  ASSUME SessionTypes, NEW g \in Guids, Del(g)
  PROVE  /\ disturbed \subseteq disturbed' /\ disturbed' \subseteq Disturbances
         /\ fails' \in 0 .. MaxFails
         /\ guid_fd' \in [Guids -> Fds \cup {NoFd}]
         /\ \A k \in Guids : k # g => guid_fd'[k] = guid_fd[k]
         /\ guid_fd'[g] = NoFd \/ ("undeleted" \in disturbed' /\ guid_fd'[g] = guid_fd[g])
         /\ disturbed' \subseteq disturbed \cup {"undeleted"}
<1>1. CASE guid_fd' = [guid_fd EXCEPT ![g] = NoFd] /\ UNCHANGED faultVars
  BY <1>1 DEF SessionTypes, faultVars
<1>2. CASE FailAs("undeleted") /\ UNCHANGED guid_fd
  BY <1>2 DEF SessionTypes, FailAs, Disturbances
<1> QED BY <1>1, <1>2 DEF Del

LEMMA SessionClear == SessionInv /\ ClearGuidFdCache => SessionInv'
<1> SUFFICES ASSUME SessionInv, ClearGuidFdCache PROVE SessionInv'
  OBVIOUS
<1> USE DEF SessionInv
<1>1. /\ boot = "clear" /\ UNCHANGED <<logged_out, boot, open, guid, is_online, pc>>
  BY DEF ClearGuidFdCache, connVars
<1> DEFINE Cleared ==
      /\ disturbed \subseteq disturbed' /\ disturbed' \subseteq Disturbances
      /\ fails' \in 0 .. MaxFails /\ to_clear' \subseteq to_clear
      /\ guid_fd' \in [Guids -> Fds \cup {NoFd}]
      /\ disturbed' \subseteq disturbed \cup {"undeleted"}
      /\ \A k \in Guids : guid_fd'[k] = guid_fd[k] \/ guid_fd'[k] = NoFd
      /\ \/ "undeleted" \in disturbed'
         \/ \A k \in to_clear \ to_clear' : guid_fd'[k] = NoFd
<1>2. Cleared
  <2>1. CASE to_clear' = {} /\ FailAs("undeleted") /\ UNCHANGED guid_fd
    BY <2>1 DEF SessionTypes, FailAs, Disturbances
  <2>2. ASSUME NEW g \in Guids, Scan(g), Del(g)
        PROVE  Cleared
    BY <2>2, DelFacts DEF Scan, SessionTypes
  <2> HIDE DEF Cleared
  <2> QED BY <2>1, <2>2 DEF ClearGuidFdCache
<1>3. \A f \in Fds : f \notin open /\ ~is_online[f] /\ pc[f] = "idle"
  BY <1>1 DEF ConnControl
<1>4. SessionTypes'
  BY <1>1, <1>2 DEF SessionTypes
<1>5. ConnControl'
  BY <1>1 DEF ConnControl
<1>6. ClearedAreGone'
  BY <1>1, <1>2 DEF ClearedAreGone
<1>7. EntryIsLive'
  BY <1>1 DEF EntryIsLive
<1>8. OneConnPerSession'
  BY <1>1, <1>2 DEF OneConnPerSession
<1>9. OnlineUserIsFound' /\ LeavingIsGone'
  BY <1>1, <1>3 DEF OnlineUserIsFound, LeavingIsGone
<1>10. LoggedOutIsGone'
  BY <1>1, <1>2 DEF LoggedOutIsGone, SessionTypes
<1> QED BY <1>4, <1>5, <1>6, <1>7, <1>8, <1>9, <1>10

LEMMA SessionRun == SessionInv /\ Run => SessionInv'
<1> SUFFICES ASSUME SessionInv, Run PROVE SessionInv'
  OBVIOUS
<1> USE DEF SessionInv
<1>1. /\ boot = "clear" /\ to_clear = {} /\ boot' = "up"
      /\ UNCHANGED <<logged_out, to_clear, guid_fd, open, guid, is_online, pc, fails,
                     disturbed>>
  BY DEF Run, connVars, faultVars
<1>2. SessionTypes'
  BY <1>1 DEF SessionTypes
<1>3. ConnControl'
  BY <1>1 DEF ConnControl
<1>4. EntryIsLive'
  BY <1>1 DEF EntryIsLive, ClearedAreGone
<1>5. ClearedAreGone' /\ OneConnPerSession'
  BY <1>1 DEF ClearedAreGone, OneConnPerSession
<1>6. OnlineUserIsFound' /\ LeavingIsGone' /\ LoggedOutIsGone'
  BY <1>1 DEF OnlineUserIsFound, LeavingIsGone, LoggedOutIsGone
<1> QED BY <1>2, <1>3, <1>4, <1>5, <1>6

LEMMA SessionConnNew ==
  ASSUME SessionInv, NEW f \in Fds, conn_new(f) PROVE SessionInv'
<1> USE DEF SessionInv
<1>1. /\ boot = "up" /\ open' = open \cup {f}
      /\ UNCHANGED <<logged_out, boot, to_clear, guid_fd, guid, is_online, pc, fails,
                     disturbed>>
  BY DEF conn_new, faultVars
<1>2. SessionTypes'
  BY <1>1 DEF SessionTypes
<1>3. ConnControl'
  BY <1>1 DEF ConnControl
<1>4. EntryIsLive'
  BY <1>1 DEF EntryIsLive
<1>5. ClearedAreGone' /\ OneConnPerSession'
  BY <1>1 DEF ClearedAreGone, OneConnPerSession
<1>6. OnlineUserIsFound' /\ LeavingIsGone' /\ LoggedOutIsGone'
  BY <1>1 DEF OnlineUserIsFound, LeavingIsGone, LoggedOutIsGone
<1> QED BY <1>2, <1>3, <1>4, <1>5, <1>6

LEMMA SessionBeacon ==
  ASSUME SessionInv, NEW f \in Fds, NEW g \in Guids, UserBeacon(f, g) PROVE SessionInv'
<1> USE DEF SessionInv
<1>1. /\ f \in open /\ pc[f] = "idle"
      /\ guid' = [guid EXCEPT ![f] = g]
      /\ UNCHANGED <<logged_out, boot, to_clear, guid_fd, open, fails>>
  BY DEF UserBeacon, StartBeacon, Idle, Disturb
<1>2. /\ disturbed \subseteq disturbed' /\ disturbed' \subseteq Disturbances
      /\ guid[f] = NoGuid \/ guid[f] = g \/ "changed" \in disturbed'
      /\ \A h \in open : h = f \/ guid[h] # g \/ "shared" \in disturbed'
  BY DEF UserBeacon, StartBeacon, Disturb, SessionTypes, Disturbances
<1>3. PICK found \in BOOLEAN :
        /\ is_online' = [is_online EXCEPT ![f] = found]
        /\ Goto(f, CASE ~found                -> "reject"
                     [] found /\ is_online[f] -> "idle"
                     [] OTHER                 -> "set")
  BY DEF UserBeacon, CheckSessionId
<1>4. /\ guid'[f] = g
      /\ \A h \in Fds : h # f => /\ guid'[h] = guid[h] /\ pc'[h] = pc[h]
                                 /\ is_online'[h] = is_online[h]
  BY <1>1, <1>3 DEF SessionTypes, Goto
<1>5. \/ pc'[f] = "reject" /\ ~is_online'[f]
      \/ pc'[f] = "idle" /\ is_online'[f] /\ is_online[f]
      \/ pc'[f] = "set" /\ is_online'[f]
  <2>1. is_online'[f] = found /\ is_online[f] \in BOOLEAN
    BY <1>3 DEF SessionTypes
  <2>2. CASE ~found
    <3>1. pc'[f] = "reject"
      BY <2>2, <1>3 DEF SessionTypes, Goto
    <3> QED BY <2>1, <2>2, <3>1
  <2>3. CASE found /\ is_online[f]
    <3>1. pc'[f] = "idle"
      BY <2>3, <1>3 DEF SessionTypes, Goto
    <3> QED BY <2>1, <2>3, <3>1
  <2>4. CASE found /\ ~is_online[f]
    <3>1. pc'[f] = "set"
      BY <2>4, <1>3 DEF SessionTypes, Goto
    <3> QED BY <2>1, <2>4, <3>1
  <2> QED BY <2>2, <2>3, <2>4
<1>6. SessionTypes'
  <2>1. is_online' \in [Fds -> BOOLEAN]
    BY <1>3 DEF SessionTypes
  <2>2. pc' \in [Fds -> {"idle", "reject", "set", "logout", "close"}]
    BY <1>3 DEF SessionTypes, Goto
  <2>3. guid' \in [Fds -> Guids \cup {NoGuid}]
    BY <1>1 DEF SessionTypes
  <2> QED BY <1>1, <1>2, <2>1, <2>2, <2>3 DEF SessionTypes
<1>7. ConnControl'
  BY <1>1, <1>4, <1>5 DEF ConnControl
<1>8. ClearedAreGone'
  BY <1>1, <1>2 DEF ClearedAreGone
<1>9. EntryIsLive'
  <2> SUFFICES ASSUME boot = "up", disturbed' \cap {"undeleted", "changed"} = {},
                      NEW k \in Guids, NEW h \in Fds, guid_fd[k] = h
               PROVE  /\ h \in open /\ guid'[h] = k /\ pc'[h] \notin {"logout", "close"}
                      /\ is_online'[h] \/ pc'[h] = "reject"
    BY <1>1 DEF EntryIsLive
  <2>1. /\ h \in open /\ guid[h] = k /\ pc[h] \notin {"logout", "close"}
        /\ is_online[h] \/ pc[h] = "reject"
    BY <1>2 DEF EntryIsLive
  <2>2. CASE h = f
    BY <2>1, <2>2, <1>2, <1>4, <1>5
  <2>3. CASE h # f
    BY <2>1, <2>3, <1>4
  <2> QED BY <2>2, <2>3
<1>10. OneConnPerSession'
  BY <1>2, <1>4 DEF OneConnPerSession, ConnControl
<1>11. OnlineUserIsFound'
  <2> SUFFICES ASSUME disturbed' \cap {"unset", "changed", "shared"} = {},
                      NEW h \in Fds, is_online'[h], pc'[h] = "idle"
               PROVE  guid_fd[guid'[h]] = h
    BY <1>1 DEF OnlineUserIsFound
  <2>1. CASE h = f
    <3>1. is_online[f] /\ pc[f] = "idle" /\ guid[f] = g
      BY <2>1, <1>1, <1>2, <1>5 DEF ConnControl
    <3> QED BY <2>1, <3>1, <1>2, <1>4 DEF OnlineUserIsFound
  <2>2. CASE h # f
    BY <2>2, <1>2, <1>4 DEF OnlineUserIsFound
  <2> QED BY <2>1, <2>2
<1>12. LeavingIsGone'
  BY <1>1, <1>2, <1>4, <1>5 DEF LeavingIsGone
<1>13. LoggedOutIsGone'
  BY <1>1, <1>2 DEF LoggedOutIsGone
<1> QED BY <1>6, <1>7, <1>8, <1>9, <1>10, <1>11, <1>12, <1>13

LEMMA SessionReject ==
  ASSUME SessionInv, NEW f \in Fds, RejectBeacon(f) PROVE SessionInv'
<1> USE DEF SessionInv
<1>1. /\ pc[f] = "reject" /\ pc' = [pc EXCEPT ![f] = "idle"] /\ Del(guid[f])
      /\ UNCHANGED <<logged_out, boot, to_clear, open, guid, is_online>>
  BY DEF RejectBeacon, RemoveGuidFdFromCache, Goto, connVars
<1>2. guid[f] \in Guids /\ ~is_online[f] /\ f \in open
  BY <1>1 DEF ConnControl, SessionTypes
<1>3. /\ disturbed \subseteq disturbed' /\ disturbed' \subseteq Disturbances
      /\ fails' \in 0 .. MaxFails
      /\ guid_fd' \in [Guids -> Fds \cup {NoFd}]
      /\ \A k \in Guids : k # guid[f] => guid_fd'[k] = guid_fd[k]
      /\ guid_fd'[guid[f]] = NoFd
         \/ ("undeleted" \in disturbed' /\ guid_fd'[guid[f]] = guid_fd[guid[f]])
  BY <1>1, <1>2, DelFacts
<1>4. \A h \in Fds : (h = f => pc'[h] = "idle") /\ (h # f => pc'[h] = pc[h])
  BY <1>1 DEF SessionTypes
<1>5. SessionTypes'
  BY <1>1, <1>3 DEF SessionTypes
<1>6. ConnControl'
  BY <1>1, <1>4 DEF ConnControl
<1>7. ClearedAreGone'
  BY <1>1, <1>2 DEF ClearedAreGone, ConnControl
<1>8. EntryIsLive'
  BY <1>1, <1>3, <1>4 DEF EntryIsLive
<1>9. OneConnPerSession'
  BY <1>1, <1>3 DEF OneConnPerSession
<1>10. OnlineUserIsFound'
  BY <1>1, <1>2, <1>3, <1>4 DEF OnlineUserIsFound, OneConnPerSession, ConnControl,
                                SessionTypes
<1>11. LeavingIsGone'
  BY <1>1, <1>2, <1>3, <1>4 DEF LeavingIsGone, ConnControl, SessionTypes
<1>12. LoggedOutIsGone'
  BY <1>1, <1>3 DEF LoggedOutIsGone, SessionTypes
<1> QED BY <1>5, <1>6, <1>7, <1>8, <1>9, <1>10, <1>11, <1>12

LEMMA SessionSet ==
  ASSUME SessionInv, NEW f \in Fds, SetGuidFdCache(f) PROVE SessionInv'
<1> USE DEF SessionInv
<1>1. /\ pc[f] = "set" /\ pc' = [pc EXCEPT ![f] = "idle"] /\ Set(guid[f], f)
      /\ UNCHANGED <<boot, to_clear, open, guid, is_online>>
  BY DEF SetGuidFdCache, Goto, connVars
<1>2. guid[f] \in Guids /\ is_online[f] /\ f \in open /\ boot = "up"
  BY <1>1 DEF ConnControl, SessionTypes
<1>3. \A h \in Fds : (h = f => pc'[h] = "idle") /\ (h # f => pc'[h] = pc[h])
  BY <1>1 DEF SessionTypes
<1>4. pc' \in [Fds -> {"idle", "reject", "set", "logout", "close"}]
  BY <1>1 DEF SessionTypes
<1>5. ConnControl'
  BY <1>1, <1>3 DEF ConnControl
<1>6. ClearedAreGone'
  BY <1>1, <1>2 DEF ClearedAreGone
<1>7. CASE /\ guid_fd' = [guid_fd EXCEPT ![guid[f]] = f]
           /\ logged_out' = logged_out \ {guid[f]}
           /\ UNCHANGED faultVars
  <2>1. /\ guid_fd'[guid[f]] = f /\ UNCHANGED <<fails, disturbed>>
        /\ \A k \in Guids : k # guid[f] => guid_fd'[k] = guid_fd[k]
    BY <1>2, <1>7 DEF SessionTypes, faultVars
  <2>2. SessionTypes'
    BY <1>1, <1>4, <1>7, <2>1 DEF SessionTypes
  <2>3. EntryIsLive'
    BY <1>1, <1>2, <1>3, <2>1 DEF EntryIsLive
  <2>4. OneConnPerSession'
    BY <1>1, <2>1 DEF OneConnPerSession
  <2>5. OnlineUserIsFound'
    BY <1>1, <1>2, <1>3, <2>1 DEF OnlineUserIsFound, OneConnPerSession, ConnControl,
                                  SessionTypes
  <2>6. LeavingIsGone'
    BY <1>1, <1>2, <1>3, <2>1 DEF LeavingIsGone, OneConnPerSession, ConnControl, SessionTypes
  <2>7. LoggedOutIsGone'
    BY <1>1, <1>7, <2>1 DEF LoggedOutIsGone, SessionTypes
  <2> QED BY <1>5, <1>6, <2>2, <2>3, <2>4, <2>5, <2>6, <2>7
<1>8. CASE FailAs("unset") /\ UNCHANGED <<guid_fd, logged_out>>
  <2>1. /\ disturbed' = disturbed \cup {"unset"} /\ fails' \in 0 .. MaxFails
        /\ UNCHANGED <<guid_fd, logged_out>>
    BY <1>8 DEF FailAs, SessionTypes
  <2>2. SessionTypes'
    BY <1>1, <1>4, <2>1 DEF SessionTypes, Disturbances
  <2>3. EntryIsLive'
    BY <1>1, <1>2, <1>3, <2>1 DEF EntryIsLive
  <2>4. OneConnPerSession' /\ OnlineUserIsFound'
    BY <1>1, <2>1 DEF OneConnPerSession, OnlineUserIsFound
  <2>5. LeavingIsGone' /\ LoggedOutIsGone'
    BY <1>1, <1>3, <2>1 DEF LeavingIsGone, LoggedOutIsGone
  <2> QED BY <1>5, <1>6, <2>2, <2>3, <2>4, <2>5
<1> QED BY <1>1, <1>7, <1>8 DEF Set

LEMMA SessionError ==
  ASSUME SessionInv, NEW f \in Fds, ClientTcpErrorCb(f) PROVE SessionInv'
<1> USE DEF SessionInv
<1>1. /\ f \in open /\ pc[f] = "idle"
      /\ UNCHANGED <<logged_out, boot, to_clear, open, guid, is_online>>
  BY DEF ClientTcpErrorCb, Idle, connVars
<1>2. \E s \in {"logout", "close"} :
         pc' = [pc EXCEPT ![f] = s] /\ (s = "logout" => is_online[f])
  BY DEF ClientTcpErrorCb, Goto
<1>3. /\ \A h \in Fds : h # f => pc'[h] = pc[h]
      /\ pc'[f] = "close" \/ (pc'[f] = "logout" /\ is_online[f])
      /\ pc' \in [Fds -> {"idle", "reject", "set", "logout", "close"}]
  BY <1>2 DEF SessionTypes
<1>4. boot = "up"
  BY <1>1 DEF ConnControl, SessionTypes
<1>5. ConnControl'
  BY <1>1, <1>3 DEF ConnControl
<1>6. ClearedAreGone'
  BY <1>1, <1>4 DEF ClearedAreGone
<1>7. CASE is_online[f]
  <2>1. guid[f] \in Guids /\ Del(guid[f])
    BY <1>7 DEF ConnControl, SessionTypes, ClientTcpErrorCb, RemoveGuidFdFromCache
  <2>2. /\ disturbed \subseteq disturbed' /\ disturbed' \subseteq Disturbances
        /\ fails' \in 0 .. MaxFails
        /\ guid_fd' \in [Guids -> Fds \cup {NoFd}]
        /\ \A k \in Guids : k # guid[f] => guid_fd'[k] = guid_fd[k]
        /\ guid_fd'[guid[f]] = NoFd
           \/ ("undeleted" \in disturbed' /\ guid_fd'[guid[f]] = guid_fd[guid[f]])
    BY <2>1, DelFacts
  <2>3. SessionTypes'
    BY <1>1, <1>3, <2>2 DEF SessionTypes
  <2>4. EntryIsLive'
    BY <1>1, <1>3, <2>2 DEF EntryIsLive
  <2>5. OneConnPerSession'
    BY <1>1, <2>2 DEF OneConnPerSession
  <2>6. OnlineUserIsFound'
    BY <1>1, <1>3, <2>1, <2>2 DEF OnlineUserIsFound, OneConnPerSession, ConnControl,
                                  SessionTypes
  <2>7. LeavingIsGone'
    BY <1>1, <1>3, <2>1, <2>2 DEF LeavingIsGone, ConnControl, SessionTypes
  <2>8. LoggedOutIsGone'
    BY <1>1, <2>2 DEF LoggedOutIsGone, SessionTypes
  <2> QED BY <1>5, <1>6, <2>3, <2>4, <2>5, <2>6, <2>7, <2>8
<1>8. CASE ~is_online[f]
  <2>1. UNCHANGED <<guid_fd, fails, disturbed>>
    BY <1>8 DEF ClientTcpErrorCb, faultVars
  <2>2. SessionTypes'
    BY <1>1, <1>3, <2>1 DEF SessionTypes
  <2>3. EntryIsLive'
    BY <1>1, <1>3, <1>8, <2>1 DEF EntryIsLive
  <2>4. OneConnPerSession' /\ OnlineUserIsFound'
    BY <1>1, <1>3, <2>1 DEF OneConnPerSession, OnlineUserIsFound
  <2>5. LeavingIsGone' /\ LoggedOutIsGone'
    BY <1>1, <1>3, <1>8, <2>1 DEF LeavingIsGone, LoggedOutIsGone
  <2> QED BY <1>5, <1>6, <2>2, <2>3, <2>4, <2>5
<1> QED BY <1>7, <1>8

LEMMA SessionLogout ==
  ASSUME SessionInv, NEW f \in Fds, JsonJoinUserLogout(f) PROVE SessionInv'
<1> USE DEF SessionInv
<1>1. /\ pc[f] = "logout" /\ pc' = [pc EXCEPT ![f] = "close"]
      /\ logged_out' = logged_out \cup {guid[f]}
      /\ UNCHANGED <<boot, to_clear, guid_fd, open, guid, is_online, fails, disturbed>>
  BY DEF JsonJoinUserLogout, Goto, connVars, faultVars
<1>2. guid[f] \in Guids /\ is_online[f] /\ f \in open
  BY <1>1 DEF ConnControl, SessionTypes
<1>3. \A h \in Fds : (h = f => pc'[h] = "close") /\ (h # f => pc'[h] = pc[h])
  BY <1>1 DEF SessionTypes
<1>4. SessionTypes'
  BY <1>1, <1>2 DEF SessionTypes
<1>5. ConnControl'
  BY <1>1, <1>3 DEF ConnControl
<1>6. ClearedAreGone' /\ OneConnPerSession'
  BY <1>1 DEF ClearedAreGone, OneConnPerSession
<1>7. EntryIsLive'
  BY <1>1, <1>3 DEF EntryIsLive
<1>8. OnlineUserIsFound' /\ LeavingIsGone'
  BY <1>1, <1>3 DEF OnlineUserIsFound, LeavingIsGone
<1>9. LoggedOutIsGone'
  BY <1>1 DEF LoggedOutIsGone, LeavingIsGone
<1> QED BY <1>4, <1>5, <1>6, <1>7, <1>8, <1>9

LEMMA SessionClose ==
  ASSUME SessionInv, NEW f \in Fds, conn_close(f) PROVE SessionInv'
<1> USE DEF SessionInv
<1>1. /\ pc[f] = "close" /\ pc' = [pc EXCEPT ![f] = "idle"]
      /\ open' = open \ {f}
      /\ guid' = [guid EXCEPT ![f] = NoGuid]
      /\ is_online' = [is_online EXCEPT ![f] = FALSE]
      /\ UNCHANGED <<logged_out, boot, to_clear, guid_fd, fails, disturbed>>
  BY DEF conn_close, Goto, faultVars
<1>2. /\ pc'[f] = "idle" /\ guid'[f] = NoGuid /\ ~is_online'[f]
      /\ \A h \in Fds : h # f => /\ guid'[h] = guid[h] /\ pc'[h] = pc[h]
                                 /\ is_online'[h] = is_online[h]
  BY <1>1 DEF SessionTypes
<1>3. SessionTypes'
  BY <1>1 DEF SessionTypes
<1>4. ConnControl'
  BY <1>1, <1>2 DEF ConnControl
<1>5. EntryIsLive'
  BY <1>1, <1>2 DEF EntryIsLive
<1>6. ClearedAreGone' /\ OneConnPerSession'
  BY <1>1, <1>2 DEF ClearedAreGone, OneConnPerSession
<1>7. OnlineUserIsFound' /\ LeavingIsGone' /\ LoggedOutIsGone'
  BY <1>1, <1>2 DEF OnlineUserIsFound, LeavingIsGone, LoggedOutIsGone
<1> QED BY <1>3, <1>4, <1>5, <1>6, <1>7

LEMMA SessionNext == SessionInv /\ [UserNext]_vars => SessionInv'
<1> SUFFICES ASSUME SessionInv, [UserNext]_vars PROVE SessionInv'
  OBVIOUS
<1>1. CASE UNCHANGED vars
  BY <1>1 DEF vars, connVars, faultVars, SessionInv, SessionTypes, ConnControl,
         ClearedAreGone, EntryIsLive, OneConnPerSession, OnlineUserIsFound, LeavingIsGone,
         LoggedOutIsGone
<1>4. CASE ClearGuidFdCache \/ Run
  BY <1>4, SessionClear, SessionRun
<1>5. CASE \E f \in Fds : conn_new(f) \/ Worker(f) \/ \E g \in Guids : UserBeacon(f, g)
  BY <1>5, SessionConnNew, SessionBeacon, SessionReject, SessionSet, SessionError,
     SessionLogout, SessionClose DEF Worker
<1> QED BY <1>1, <1>4, <1>5 DEF UserNext

LEMMA SessionInvariant == UserSpec => []SessionInv
  BY SessionInit, SessionNext, PTL DEF UserSpec

\* An entry of Redis names an open connection of that session, however
\* heartbeats, rejections, disconnects and the start-up's ClearGuidFdCache
\* interleave, unless a DEL or SCAN failed or a connection changed its session.
THEOREM EntryNamesItsUserHolds == UserSpec => []EntryNamesItsUser
<1>1. SessionInv => EntryNamesItsUser
  BY DEF SessionInv, EntryIsLive, EntryNamesItsUser, SessionTypes
<1> QED BY <1>1, SessionInvariant, PTL

\* SetGuidFdCache runs on the first accepted heartbeat only; still a user that
\* is online and alone with its session is found by the push thread, unless that
\* one SET failed.
THEOREM OnlineUserIsFoundHolds == UserSpec => []OnlineUserIsFound
<1>1. SessionInv => OnlineUserIsFound
  BY DEF SessionInv
<1> QED BY <1>1, SessionInvariant, PTL

\* ClientTcpErrorCb deletes the entry before it submits the logout notice, so
\* once the notice is submitted Redis has no entry until the user is back.
THEOREM LoggedOutIsGoneHolds == UserSpec => []LoggedOutIsGone
<1>1. SessionInv => LoggedOutIsGone
  BY DEF SessionInv
<1> QED BY <1>1, SessionInvariant, PTL

\* userOnline's session state stays well typed: in particular every descriptor
\* the push thread looks up in Redis is one a connection has had.
THEOREM UserTypeCorrect == UserSpec => []UserTypeOK
<1>1. SessionInv => UserTypeOK
  BY DEF SessionInv, SessionTypes, UserTypeOK
<1> QED BY <1>1, SessionInvariant, PTL
=============================================================================
