----------------------------- MODULE UserOnline -----------------------------
(***************************************************************************)
(* The sessions of userOnline: start-up, heartbeats and disconnects of     *)
(* users, the session's descriptor in Redis, which the push thread looks   *)
(* up, and the logout notices, which HttpClient posts.                     *)
(*                                                                         *)
(* A connection is named by its descriptor, which is reused once closed.   *)
(* Connections live on different worker threads, so their handlers         *)
(* interleave; one Redis command is one step and may fail.  Whether a      *)
(* session exists is up to the web server, and can be different at every   *)
(* check.  A message that does not parse, or lacks what its method needs,  *)
(* changes nothing.  How connections reach their workers, how bytes become *)
(* messages, how requesters are served and how pushes are queued, written  *)
(* and answered is the same code as deviceOnline's (ConnDispatch,          *)
(* CrlfFraming, LocalTransport, PushRelay).                                *)
(***************************************************************************)
EXTENDS Naturals

CONSTANTS
    Fds,          \* descriptors for user connections
    Guids,        \* session ids
    NoFd, NoGuid, \* "none"
    MaxFails      \* bound: SET, DEL and SCAN that fail

ASSUME UserAssumption ==
    NoFd \notin Fds /\ NoGuid \notin Guids /\ MaxFails \in Nat

VARIABLES
    boot, to_clear,       \* main's progress, keys ClearGuidFdCache has not met
    guid_fd,              \* Redis: the descriptor of each session
    open, guid, is_online, pc,    \* connections, and where each one's worker is
    logged_out,           \* history: sessions whose logout was submitted since
                          \*   they were last stored
    fails, disturbed      \* history: what went wrong outside

connVars  == <<open, guid, is_online>>
faultVars == <<fails, disturbed>>
vars == <<logged_out, boot, to_clear, guid_fd, connVars, pc, faultVars>>

\* A DEL or SCAN that failed; a SET that failed; another session id on the same
\* connection; one session on two connections.
Disturbances == {"undeleted", "unset", "changed", "shared"}

UserTypeOK ==
    /\ logged_out \subseteq Guids
    /\ boot \in {"clear", "up"}
    /\ to_clear \subseteq Guids
    /\ guid_fd \in [Guids -> Fds \cup {NoFd}]
    /\ open \subseteq Fds
    /\ guid \in [Fds -> Guids \cup {NoGuid}]
    /\ is_online \in [Fds -> BOOLEAN]
    /\ pc \in [Fds -> {"idle", "reject", "set", "logout", "close"}]
    /\ fails \in 0 .. MaxFails /\ disturbed \subseteq Disturbances

\* A start of the process: Redis may hold whatever an earlier process left
\* behind when it crashed.
UserInit ==
    /\ logged_out = {}
    /\ boot = "clear" /\ to_clear = Guids
    /\ guid_fd \in [Guids -> Fds \cup {NoFd}]
    /\ open = {} /\ guid = [f \in Fds |-> NoGuid] /\ is_online = [f \in Fds |-> FALSE]
    /\ pc = [f \in Fds |-> "idle"]
    /\ fails = 0 /\ disturbed = {}

Disturb(kinds) == disturbed' = disturbed \cup kinds /\ UNCHANGED fails

\* A Redis command fails, with the given consequence.
FailAs(kind) ==
    /\ fails < MaxFails
    /\ fails' = fails + 1
    /\ disturbed' = disturbed \cup {kind}

Goto(f, s) == pc' = [pc EXCEPT ![f] = s]

-----------------------------------------------------------------------------
(* userOnline's CRedisOpt, as far as it is used: every reply that is not of *)
(* the expected type, and every missing one, is a failure.                  *)

Set(g, f) ==
    \/ /\ guid_fd' = [guid_fd EXCEPT ![g] = f]
       /\ logged_out' = logged_out \ {g}
       /\ UNCHANGED faultVars
    \/ FailAs("unset") /\ UNCHANGED <<guid_fd, logged_out>>

Del(g) ==
    \/ guid_fd' = [guid_fd EXCEPT ![g] = NoFd] /\ UNCHANGED faultVars
    \/ FailAs("undeleted") /\ UNCHANGED guid_fd

\* The cursor moves past one more key.
Scan(g) == g \in to_clear /\ to_clear' = to_clear \ {g}

-----------------------------------------------------------------------------
(* main.                                                                    *)

\* Deletes nothing.
Mut_ClearGuidFdCache ==
    /\ boot = "clear" /\ to_clear # {}
    /\ to_clear' = {}
    /\ UNCHANGED <<logged_out, boot, guid_fd, connVars, pc, faultVars>>

\* ClearGuidFdCache: a SCAN brings some of the keys that are left and they are
\* deleted; a SCAN that fails ends the loop.
ClearGuidFdCache ==
    /\ boot = "clear" /\ to_clear # {}
    /\ \/ \E g \in Guids : Scan(g) /\ Del(g)
       \/ to_clear' = {} /\ FailAs("undeleted") /\ UNCHANGED guid_fd
    /\ UNCHANGED <<logged_out, boot, connVars, pc>>

\* StartHttpClient, then Run: from now on users are accepted.
Run ==
    /\ boot = "clear" /\ to_clear = {}
    /\ boot' = "up"
    /\ UNCHANGED <<logged_out, to_clear, guid_fd, connVars, pc, faultVars>>

-----------------------------------------------------------------------------
(* A connection's worker: conn_new, UserBeacon, ClientTcpErrorCb.           *)

\* A conn as conn_new leaves it.
conn_new(f) ==
    /\ boot = "up" /\ f \notin open
    /\ open' = open \cup {f}
    /\ UNCHANGED <<logged_out, boot, to_clear, guid_fd, guid, is_online, pc, faultVars>>

\* ClientTcpReadCb or ClientTcpErrorCb may run, one message after the other
\* (conn_new sets isVerify, so the token of a first message is not asked for).
Idle(f) == f \in open /\ pc[f] = "idle"

\* What a heartbeat with session g does before it needs Redis: the session id
\* is stored in the conn before anything is checked, so UserBeacon's branch for
\* a changed id is never taken.
StartBeacon(f, g) ==
    /\ Idle(f)
    /\ guid' = [guid EXCEPT ![f] = g]
    /\ Disturb((IF guid[f] \in {NoGuid, g} THEN {} ELSE {"changed"}) \cup
               (IF \E h \in open \ {f} : guid[h] = g THEN {"shared"} ELSE {}))
    /\ UNCHANGED <<logged_out, boot, to_clear, guid_fd, open>>

\* Whether HEXISTS finds the session; a failure counts as not.
CheckSessionId == BOOLEAN

\* Stores the entry on every heartbeat of a connection that is not new.
Mut_UserBeacon(f, g) ==
    /\ StartBeacon(f, g)
    /\ \E found \in CheckSessionId :
          /\ is_online' = [is_online EXCEPT ![f] = found]
          /\ Goto(f, CASE ~found                    -> "reject"
                       [] found /\ guid[f] = NoGuid -> "idle"
                       [] OTHER                     -> "set")

\* UserBeacon up to the command that follows CheckSessionId.
UserBeacon(f, g) ==
    /\ StartBeacon(f, g)
    /\ \E found \in CheckSessionId :
          /\ is_online' = [is_online EXCEPT ![f] = found]
          /\ Goto(f, CASE ~found                -> "reject"
                       [] found /\ is_online[f] -> "idle"
                       [] OTHER                 -> "set")

\* Does not look at the result of DEL.
RemoveGuidFdFromCache(g) == Del(g)

\* The session is rejected.
RejectBeacon(f) ==
    /\ pc[f] = "reject"
    /\ RemoveGuidFdFromCache(guid[f])
    /\ Goto(f, "idle")
    /\ UNCHANGED <<logged_out, boot, to_clear, connVars>>

\* SetGuidFdCache; when it fails the connection stays marked as online.
SetGuidFdCache(f) ==
    /\ pc[f] = "set"
    /\ Set(guid[f], f)
    /\ Goto(f, "idle")
    /\ UNCHANGED <<boot, to_clear, connVars>>

\* Cleans up only after an EOF.
Mut_ClientTcpErrorCb(f) ==
    /\ Idle(f)
    /\ IF is_online[f]
       THEN \/ RemoveGuidFdFromCache(guid[f]) /\ Goto(f, "close")
            \/ Goto(f, "logout") /\ UNCHANGED <<guid_fd, faultVars>>
       ELSE Goto(f, "close") /\ UNCHANGED <<guid_fd, faultVars>>
    /\ UNCHANGED <<logged_out, boot, to_clear, connVars>>

\* EOF, error or heartbeat timeout: RemoveGuidFdFromCache, and a notice unless
\* it was EOF.
ClientTcpErrorCb(f) ==
    /\ Idle(f)
    /\ IF is_online[f]
       THEN RemoveGuidFdFromCache(guid[f]) /\ (Goto(f, "logout") \/ Goto(f, "close"))
       ELSE Goto(f, "close") /\ UNCHANGED <<guid_fd, faultVars>>
    /\ UNCHANGED <<logged_out, boot, to_clear, connVars>>

\* HttpClient::SubmitMsg of the notice that the user's heartbeat ended.
JsonJoinUserLogout(f) ==
    /\ pc[f] = "logout"
    /\ logged_out' = logged_out \cup {guid[f]}
    /\ Goto(f, "close")
    /\ UNCHANGED <<boot, to_clear, guid_fd, connVars, faultVars>>

\* The conn is cleared, conn_close closes the socket.
conn_close(f) ==
    /\ pc[f] = "close"
    /\ open' = open \ {f}
    /\ guid' = [guid EXCEPT ![f] = NoGuid]
    /\ is_online' = [is_online EXCEPT ![f] = FALSE]
    /\ Goto(f, "idle")
    /\ UNCHANGED <<logged_out, boot, to_clear, guid_fd, faultVars>>

-----------------------------------------------------------------------------
Worker(f) ==
    \/ RejectBeacon(f) \/ SetGuidFdCache(f) \/ ClientTcpErrorCb(f)
    \/ JsonJoinUserLogout(f) \/ conn_close(f)

UserNext ==
    \/ ClearGuidFdCache \/ Run
    \/ \E f \in Fds : conn_new(f) \/ Worker(f) \/ \E g \in Guids : UserBeacon(f, g)

UserSpec == UserInit /\ [][UserNext]_vars

-----------------------------------------------------------------------------
(* Properties.                                                              *)

\* An entry of Redis names an open connection of that session, whatever an
\* earlier process left behind, however users share a session, lose it, come
\* and go, and whichever other commands fail: a dangling entry would send a
\* user's messages to whoever gets the descriptor next.  Only a DEL that fails
\* and a session that changes on a connection break it.
EntryNamesItsUser ==
    boot = "up" /\ disturbed \cap {"undeleted", "changed"} = {} =>
        \A g \in Guids : guid_fd[g] # NoFd =>
            LET f == guid_fd[g]
            IN  f \in open /\ guid[f] = g /\ (is_online[f] \/ pc[f] = "reject")

\* A user that is online and alone with its session is found by the push
\* thread, unless the SET failed.
OnlineUserIsFound ==
    disturbed \cap {"unset", "changed", "shared"} = {} =>
        \A f \in Fds : is_online[f] /\ pc[f] = "idle" => guid_fd[guid[f]] = f

\* Once the HTTP server is told that a user is gone, Redis has no entry for
\* the session until the user is back, unless a DEL failed or the session had
\* another connection.
LoggedOutIsGone ==
    disturbed \cap {"undeleted", "shared", "changed"} = {} =>
        \A g \in logged_out : guid_fd[g] = NoFd
=============================================================================
