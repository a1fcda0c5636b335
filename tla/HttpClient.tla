----------------------------- MODULE HttpClient -----------------------------
(***************************************************************************)
(* util/http_client.cc: HttpClient, the thread that posts notices to the   *)
(* HTTP server for both servers.  Worker threads submit, the thread takes  *)
(* one notice at a time, makes a request for it and runs libevent until    *)
(* the request is done.  A notice whose request fails is not sent again.   *)
(*                                                                         *)
(* The mutex makes SubmitMsg, Stop and what Entry does between two of its  *)
(* lock operations one step each.  Nothing in the program calls Stop.      *)
(***************************************************************************)
EXTENDS Naturals, Sequences

CONSTANTS
    Notices,       \* what the notices say
    MaxNotices     \* bound: notices submitted

ASSUME HttpAssumption == MaxNotices \in Nat

VARIABLES
    dispatch_queue_,
    http_stop_,
    hpc,            \* the thread in Entry
    send_msg,       \* the notice it has in hand, as a sequence of at most one
    evhttp_conns,   \* connections that were made and not freed
    submitted,      \* history: the notices accepted by SubmitMsg,
    requests,       \*   how many of them went to MakeHttpReq
    unanswered      \*   and for how many of those there was no response

httpVars == <<dispatch_queue_, http_stop_, hpc, send_msg, evhttp_conns,
              submitted, requests, unanswered>>

HttpTypeOK ==
    /\ dispatch_queue_ \in Seq(Notices)
    /\ http_stop_ \in BOOLEAN
    /\ hpc \in {"created", "top", "inner", "request", "dispatch", "wait", "exit"}
    /\ send_msg \in {<<>>} \cup {<<n>> : n \in Notices}
    /\ evhttp_conns \in Nat /\ requests \in Nat /\ unanswered \in Nat
    /\ submitted \in Seq(Notices) /\ Len(submitted) <= MaxNotices

HttpInit ==
    /\ dispatch_queue_ = <<>> /\ http_stop_ = FALSE
    /\ hpc = "created" /\ send_msg = <<>>
    /\ evhttp_conns = 0
    /\ submitted = <<>> /\ requests = 0 /\ unanswered = 0

\* Cond::Signal: a waiting thread goes on when it has the mutex.
HttpSignal == hpc' = IF hpc = "wait" THEN "top" ELSE hpc

\* A stopped client accepts nothing, and does not say so.
SubmitMsg(n) ==
    IF http_stop_ THEN UNCHANGED httpVars
    ELSE /\ Len(submitted) < MaxNotices
         /\ submitted' = Append(submitted, n)
         /\ dispatch_queue_' = Append(dispatch_queue_, n)
         /\ HttpSignal
         /\ UNCHANGED <<http_stop_, send_msg, evhttp_conns, requests, unanswered>>

HttpStop ==
    /\ ~http_stop_ /\ hpc # "created"
    /\ http_stop_' = TRUE
    /\ HttpSignal
    /\ UNCHANGED <<dispatch_queue_, send_msg, evhttp_conns, submitted, requests,
                   unanswered>>

-----------------------------------------------------------------------------
(* The thread: Entry and MakeHttpReq.                                       *)

HttpGoto(s) ==
    /\ hpc' = s
    /\ UNCHANGED <<dispatch_queue_, http_stop_, send_msg, evhttp_conns, submitted,
                   requests, unanswered>>

\* The thread has the mutex and looks at the queue.
Looks == hpc = "inner" \/ (hpc = "top" /\ ~http_stop_)

\* Leaves the notice in the queue.
Mut_HttpPop ==
    /\ Looks /\ dispatch_queue_ # <<>>
    /\ send_msg' = <<Head(dispatch_queue_)>>
    /\ hpc' = "request"
    /\ UNCHANGED <<dispatch_queue_, http_stop_, evhttp_conns, submitted, requests,
                   unanswered>>

HttpPop ==
    /\ Looks /\ dispatch_queue_ # <<>>
    /\ send_msg' = <<Head(dispatch_queue_)>>
    /\ dispatch_queue_' = Tail(dispatch_queue_)
    /\ hpc' = "request"
    /\ UNCHANGED <<http_stop_, evhttp_conns, submitted, requests, unanswered>>

\* Waits before it looks at the queue.
Mut_HttpWait == Looks /\ ~http_stop_ /\ HttpGoto("wait")

HttpWait == Looks /\ dispatch_queue_ = <<>> /\ ~http_stop_ /\ HttpGoto("wait")

\* The outer loop's test, and the one behind the inner loop.
HttpLeave ==
    /\ hpc = "top" \/ (hpc = "inner" /\ dispatch_queue_ = <<>>)
    /\ http_stop_
    /\ HttpGoto("exit")

HttpSpuriousWakeup == hpc = "wait" /\ HttpGoto("top")

\* The URL cannot be used: the notice is given up before there is a connection.
ParseUrl ==
    /\ hpc = "request"
    /\ send_msg' = <<>> /\ requests' = requests + 1 /\ unanswered' = unanswered + 1
    /\ hpc' = "inner"
    /\ UNCHANGED <<dispatch_queue_, http_stop_, evhttp_conns, submitted>>

\* The request is made, and event_base_dispatch runs; or it cannot be made, and
\* the connection is not freed.
MakeHttpReq ==
    /\ hpc = "request"
    /\ send_msg' = <<>> /\ requests' = requests + 1
    /\ evhttp_conns' = evhttp_conns + 1
    /\ \/ hpc' = "dispatch" /\ UNCHANGED unanswered
       \/ hpc' = "inner" /\ unanswered' = unanswered + 1
    /\ UNCHANGED <<dispatch_queue_, http_stop_, submitted>>

\* A response arrives and the connection is freed; or the request ends without
\* one (its 200 ms pass, the server is not there): the callback is called with
\* NULL and returns at once.  Then there are no events left and
\* event_base_dispatch returns.
http_request_done ==
    /\ hpc = "dispatch"
    /\ hpc' = "inner"
    /\ \/ evhttp_conns' = evhttp_conns - 1 /\ UNCHANGED unanswered
       \/ unanswered' = unanswered + 1 /\ UNCHANGED evhttp_conns
    /\ UNCHANGED <<dispatch_queue_, http_stop_, send_msg, submitted, requests>>

HttpThread ==
    \/ HttpPop \/ HttpWait \/ HttpLeave \/ ParseUrl \/ MakeHttpReq \/ http_request_done

\* StartHttpClient: Init and Start.
HttpStart == hpc = "created" /\ HttpGoto("top")

HttpNext ==
    \/ HttpStart \/ HttpStop \/ HttpThread \/ HttpSpuriousWakeup
    \/ \E n \in Notices : SubmitMsg(n)

HttpSpec == HttpInit /\ [][HttpNext]_httpVars

\* The thread runs, and http_request_done is called for every request (the
\* request's timeout of 200 ms sees to that).
HttpFairSpec == HttpSpec /\ WF_httpVars(HttpStart) /\ WF_httpVars(HttpThread)

-----------------------------------------------------------------------------
(* Properties.                                                              *)

\* Notices are requested in the order in which the workers submitted them, each
\* once, and none is lost between SubmitMsg and MakeHttpReq.
NoticesOnceInOrder ==
    /\ requests <= Len(submitted)
    /\ SubSeq(submitted, requests + 1, Len(submitted)) = send_msg \o dispatch_queue_

\* The connections that pile up are those of requests without a response (which
\* http_request_done does not free), and the one in use.
OnlyUnansweredLeak ==
    evhttp_conns <= unanswered + (IF hpc = "dispatch" THEN 1 ELSE 0)

\* Every notice gets its request, however SubmitMsg's signal and the thread's
\* wait interleave, unless the client is stopped.
EventuallyRequested ==
    \A n \in 1 .. MaxNotices : (Len(submitted) >= n) ~> (requests >= n \/ http_stop_)
=============================================================================
