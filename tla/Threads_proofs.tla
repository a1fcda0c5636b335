--------------------------- MODULE Threads_proofs ---------------------------
(***************************************************************************)
(* Proofs about two small modules of threads that wait for each other.     *)
(*   WorkerInit, for any number of workers: init_count_ counts the workers *)
(* that registered.                                                        *)
(*   HttpClient, for any notices and any number of them: none is lost,     *)
(* repeated or overtaken between SubmitMsg and MakeHttpReq, and only       *)
(* connections of unanswered requests are left behind.                     *)
(***************************************************************************)
EXTENDS WorkerInit, HttpClient, FiniteSetTheorems, SequenceTheorems, TLAPS

-----------------------------------------------------------------------------
(* WorkerInit.                                                              *)

\* The count is the number of workers that registered; only created workers
\* register, and the main thread waits after it has created all of them.
CountInv ==
    /\ registered \subseteq Workers
    /\ IsFiniteSet(registered)
    /\ init_count_ = Cardinality(registered)
    /\ created \in 0 .. thread_num_
    /\ mainpc \in {"create", "wait", "waiting", "returned"}
    /\ mainpc = "create" => created < thread_num_

\* The count never exceeds the number of workers.
LEMMA CountBounded ==
    ASSUME NEW S, S \subseteq Workers
    PROVE  /\ IsFiniteSet(S) /\ Cardinality(S) \in Nat
           /\ Cardinality(S) <= thread_num_
<1>1. IsFiniteSet(Workers) /\ Cardinality(Workers) = thread_num_
  BY FS_Interval, ThreadNumAssumption DEF Workers
<1> QED
  BY <1>1, FS_Subset, FS_CardinalityType

\* The initial state satisfies the invariant.
LEMMA InitHolds == Init => CountInv
<1> SUFFICES ASSUME Init
             PROVE  CountInv
  OBVIOUS
<1>1. IsFiniteSet(registered) /\ Cardinality(registered) = 0
  BY FS_EmptySet DEF Init
<1> QED
  BY <1>1, ThreadNumAssumption DEF Init, CountInv

\* A registration counts its worker.
LEMMA RegisterHolds ==
    ASSUME NEW w \in Workers, CountInv, RegisterThreadInitialized(w)
    PROVE  CountInv'
<1>1. /\ registered' = registered \cup {w} /\ w \notin registered
      /\ init_count_' = init_count_ + 1 /\ created' = created
      /\ mainpc' = IF init_count_' = thread_num_ /\ mainpc = "waiting"
                   THEN "returned" ELSE mainpc
  BY DEF RegisterThreadInitialized
<1>2. registered' \subseteq Workers /\ IsFiniteSet(registered')
  BY <1>1, CountBounded DEF CountInv
<1>3. init_count_' = Cardinality(registered')
  BY <1>1, FS_AddElement DEF CountInv
<1> QED
  BY <1>1, <1>2, <1>3 DEF CountInv

\* Every step preserves the invariant.
LEMMA StepHolds == CountInv /\ [Next]_vars => CountInv'
<1> SUFFICES ASSUME CountInv, [Next]_vars
             PROVE  CountInv'
  OBVIOUS
<1>1. CASE CreateWorker
  BY <1>1, ThreadNumAssumption DEF CreateWorker, CountInv, Workers
<1>2. CASE WaitForThreadRegistration \/ SpuriousWakeup
  BY <1>2 DEF WaitForThreadRegistration, SpuriousWakeup, CountInv, Workers
<1>3. CASE \E w \in Workers : RegisterThreadInitialized(w)
  BY <1>3, RegisterHolds
<1>4. CASE UNCHANGED vars
  BY <1>4 DEF vars, CountInv, Workers
<1> QED
  BY <1>1, <1>2, <1>3, <1>4 DEF Next

-----------------------------------------------------------------------------
\* The invariant holds in every reachable state.
THEOREM Invariance == Spec => []CountInv
<1> QED
  BY InitHolds, StepHolds, PTL DEF Spec

\* Every variable has its type; in particular init_count_ stays within the number
\* of workers.
THEOREM TypeCorrect == Spec => []TypeOK
<1>1. CountInv => TypeOK
  <2> SUFFICES ASSUME CountInv
               PROVE  TypeOK
    OBVIOUS
  <2>1. init_count_ \in Nat /\ init_count_ <= thread_num_
    BY CountBounded DEF CountInv
  <2> QED
    BY <2>1, ThreadNumAssumption DEF CountInv, TypeOK
<1> QED
  BY Invariance, <1>1, PTL

-----------------------------------------------------------------------------
(* HttpClient.                                                              *)

InHand == IF hpc = "request" THEN 1 ELSE 0

\* The inductive form of NoticesOnceInOrder: position by position, what is in
\* hand and in the queue is the rest of what was submitted.
InOrder ==
    /\ Len(send_msg) = InHand
    /\ Len(submitted) = requests + InHand + Len(dispatch_queue_)
    /\ hpc = "request" => send_msg[1] = submitted[requests + 1]
    /\ \A i \in 1 .. Len(dispatch_queue_) :
          dispatch_queue_[i] = submitted[requests + InHand + i]

\* A request in use has its connection.
HasConn == hpc = "dispatch" => evhttp_conns > 0

HttpInv == HttpTypeOK /\ InOrder /\ HasConn /\ OnlyUnansweredLeak

-----------------------------------------------------------------------------
\* The initial state satisfies the invariant.
LEMMA HttpInitInv == HttpInit => HttpInv
<1> SUFFICES ASSUME HttpInit
             PROVE  HttpInv
  OBVIOUS
<1> USE DEF HttpInit
<1>1. HttpTypeOK
  <2>1. submitted \in Seq(Notices) /\ dispatch_queue_ \in Seq(Notices)
    OBVIOUS
  <2>2. Len(submitted) <= MaxNotices
    BY HttpAssumption
  <2>3. send_msg \in {<<>>} \cup {<<n>> : n \in Notices}
    OBVIOUS
  <2> QED
    BY <2>1, <2>2, <2>3 DEF HttpTypeOK
<1>2. InOrder
  BY DEF InOrder, InHand
<1>3. HasConn /\ OnlyUnansweredLeak
  BY DEF HasConn, OnlyUnansweredLeak
<1> QED
  BY <1>1, <1>2, <1>3 DEF HttpInv

\* A notice is appended to the queue and to the history alike.
LEMMA SubmitInv ==
    ASSUME NEW n \in Notices, HttpInv, SubmitMsg(n)
    PROVE  HttpInv'
<1>1. CASE http_stop_
  BY <1>1 DEF SubmitMsg, httpVars, HttpInv, HttpTypeOK, InOrder, InHand, HasConn,
              OnlyUnansweredLeak
<1>2. CASE ~http_stop_
  <2>1. /\ Len(submitted) < MaxNotices
        /\ submitted' = Append(submitted, n)
        /\ dispatch_queue_' = Append(dispatch_queue_, n)
        /\ UNCHANGED <<http_stop_, send_msg, evhttp_conns, requests, unanswered>>
        /\ hpc' = IF hpc = "wait" THEN "top" ELSE hpc
    BY <1>2 DEF SubmitMsg, HttpSignal
  <2>2. /\ submitted \in Seq(Notices) /\ dispatch_queue_ \in Seq(Notices)
        /\ requests \in Nat /\ InHand \in {0, 1} /\ InHand' = InHand
    BY <2>1 DEF HttpInv, HttpTypeOK, InHand
  <2>3. HttpTypeOK'
    BY <2>1, <2>2, HttpAssumption DEF HttpInv, HttpTypeOK
  <2>4. InOrder'
    <3>1. Len(submitted) = requests + InHand + Len(dispatch_queue_)
      BY DEF HttpInv, InOrder
    <3>2. /\ Len(submitted') = Len(submitted) + 1
          /\ Len(dispatch_queue_') = Len(dispatch_queue_) + 1
          /\ \A i \in 1 .. Len(submitted) : submitted'[i] = submitted[i]
          /\ submitted'[Len(submitted) + 1] = n
          /\ \A i \in 1 .. Len(dispatch_queue_) : dispatch_queue_'[i] = dispatch_queue_[i]
          /\ dispatch_queue_'[Len(dispatch_queue_) + 1] = n
      BY <2>1, <2>2
    <3>3. Len(submitted) \in Nat /\ Len(dispatch_queue_) \in Nat
      BY <2>2
    <3>4. Len(send_msg') = InHand'
      BY <2>1, <2>2 DEF HttpInv, InOrder
    <3>5. Len(submitted') = requests' + InHand' + Len(dispatch_queue_')
      BY <2>1, <2>2, <3>1, <3>2, <3>3
    <3>6. hpc' = "request" => send_msg'[1] = submitted'[requests' + 1]
      <4>1. SUFFICES ASSUME hpc' = "request"
                     PROVE  send_msg'[1] = submitted'[requests' + 1]
        OBVIOUS
      <4>2. hpc = "request" /\ InHand = 1
        BY <2>1, <4>1 DEF InHand
      <4>3. requests + 1 \in 1 .. Len(submitted)
        BY <2>2, <3>1, <3>3, <4>2
      <4>4. send_msg[1] = submitted[requests + 1]
        BY <4>2 DEF HttpInv, InOrder
      <4> QED
        BY <2>1, <3>2, <4>3, <4>4
    <3>7. ASSUME NEW i \in 1 .. Len(dispatch_queue_')
          PROVE  dispatch_queue_'[i] = submitted'[requests' + InHand' + i]
      <4>1. CASE i = Len(dispatch_queue_) + 1
        BY <2>1, <2>2, <3>1, <3>2, <3>3, <4>1
      <4>2. CASE i # Len(dispatch_queue_) + 1
        <5>1. i \in 1 .. Len(dispatch_queue_) /\ requests + InHand + i \in 1 .. Len(submitted)
          BY <2>2, <3>1, <3>2, <3>3, <4>2
        <5>2. dispatch_queue_[i] = submitted[requests + InHand + i]
          BY <5>1 DEF HttpInv, InOrder
        <5> QED
          BY <2>1, <2>2, <3>2, <5>1, <5>2
      <4> QED
        BY <4>1, <4>2
    <3> QED
      BY <3>4, <3>5, <3>6, <3>7 DEF InOrder
  <2>5. HasConn' /\ OnlyUnansweredLeak'
    BY <2>1 DEF HttpInv, HasConn, OnlyUnansweredLeak
  <2> QED
    BY <2>3, <2>4, <2>5 DEF HttpInv
<1> QED
  BY <1>1, <1>2

\* The front of the queue moves into the thread's hand.
LEMMA PopInv == HttpInv /\ HttpPop => HttpInv'
<1> SUFFICES ASSUME HttpInv, HttpPop
             PROVE  HttpInv'
  OBVIOUS
<1>1. /\ dispatch_queue_ \in Seq(Notices) /\ dispatch_queue_ # <<>>
      /\ submitted \in Seq(Notices) /\ requests \in Nat
      /\ hpc \in {"inner", "top"} /\ hpc' = "request"
      /\ send_msg' = <<Head(dispatch_queue_)>>
      /\ dispatch_queue_' = Tail(dispatch_queue_)
      /\ UNCHANGED <<http_stop_, evhttp_conns, submitted, requests, unanswered>>
  BY DEF HttpPop, Looks, HttpInv, HttpTypeOK
<1>2. InHand = 0 /\ InHand' = 1
  BY <1>1 DEF InHand
<1>3. HttpTypeOK'
  BY <1>1 DEF HttpInv, HttpTypeOK
<1>4. InOrder'
  <2>1. Len(submitted) = requests + Len(dispatch_queue_)
    BY <1>1, <1>2 DEF HttpInv, InOrder
  <2>2. \A i \in 1 .. Len(dispatch_queue_) : dispatch_queue_[i] = submitted[requests + i]
    BY <1>1, <1>2 DEF HttpInv, InOrder
  <2>3. /\ Len(dispatch_queue_) \in Nat /\ Len(dispatch_queue_) > 0
        /\ Len(dispatch_queue_') = Len(dispatch_queue_) - 1
        /\ \A i \in 1 .. Len(dispatch_queue_') : dispatch_queue_'[i] = dispatch_queue_[i + 1]
    BY <1>1
  <2>4. Len(send_msg') = InHand' /\ send_msg'[1] = dispatch_queue_[1]
    BY <1>1, <1>2
  <2>5. Len(submitted') = requests' + InHand' + Len(dispatch_queue_')
    BY <1>1, <1>2, <2>1, <2>3
  <2>6. send_msg'[1] = submitted'[requests' + 1]
    BY <1>1, <2>2, <2>3, <2>4
  <2>7. ASSUME NEW i \in 1 .. Len(dispatch_queue_')
        PROVE  dispatch_queue_'[i] = submitted'[requests' + InHand' + i]
    <3>1. i + 1 \in 1 .. Len(dispatch_queue_)
      BY <2>3
    <3>2. dispatch_queue_[i + 1] = submitted[requests + (i + 1)]
      BY <2>2, <3>1
    <3>3. requests + (i + 1) = requests' + InHand' + i
      BY <1>1, <1>2
    <3> QED
      BY <1>1, <2>3, <3>2, <3>3
  <2> QED
    BY <2>4, <2>5, <2>6, <2>7 DEF InOrder
<1>5. HasConn' /\ OnlyUnansweredLeak'
  BY <1>1 DEF HttpInv, HasConn, OnlyUnansweredLeak
<1> QED
  BY <1>3, <1>4, <1>5 DEF HttpInv

\* A notice leaves the thread's hand when its request is made or given up.
LEMMA RequestInv == HttpInv /\ (ParseUrl \/ MakeHttpReq) => HttpInv'
<1> SUFFICES ASSUME HttpInv, ParseUrl \/ MakeHttpReq
             PROVE  HttpInv'
  OBVIOUS
<1>1. /\ hpc = "request" /\ hpc' \in {"inner", "dispatch"}
      /\ send_msg' = <<>> /\ requests' = requests + 1
      /\ UNCHANGED <<dispatch_queue_, http_stop_, submitted>>
  BY DEF ParseUrl, MakeHttpReq
<1>2. /\ dispatch_queue_ \in Seq(Notices) /\ submitted \in Seq(Notices)
      /\ requests \in Nat /\ evhttp_conns \in Nat /\ unanswered \in Nat
      /\ InHand = 1 /\ InHand' = 0
  BY <1>1 DEF HttpInv, HttpTypeOK, InHand
<1>3. HttpTypeOK'
  BY <1>1, <1>2 DEF ParseUrl, MakeHttpReq, HttpInv, HttpTypeOK
<1>4. InOrder'
  BY <1>1, <1>2 DEF HttpInv, InOrder
<1>5. HasConn' /\ OnlyUnansweredLeak'
  BY <1>1, <1>2 DEF ParseUrl, MakeHttpReq, HttpInv, HasConn, OnlyUnansweredLeak
<1> QED
  BY <1>3, <1>4, <1>5 DEF HttpInv

\* The answer frees the connection, no answer is counted.
LEMMA DoneInv == HttpInv /\ http_request_done => HttpInv'
<1> SUFFICES ASSUME HttpInv, http_request_done
             PROVE  HttpInv'
  OBVIOUS
<1>1. /\ hpc = "dispatch" /\ hpc' = "inner"
      /\ UNCHANGED <<dispatch_queue_, http_stop_, send_msg, submitted, requests>>
  BY DEF http_request_done
<1>2. evhttp_conns \in Nat /\ evhttp_conns > 0 /\ unanswered \in Nat
  BY <1>1 DEF HttpInv, HttpTypeOK, HasConn
<1>3. HttpTypeOK'
  BY <1>1, <1>2 DEF http_request_done, HttpInv, HttpTypeOK
<1>4. InOrder'
  BY <1>1 DEF HttpInv, InOrder, InHand
<1>5. HasConn' /\ OnlyUnansweredLeak'
  BY <1>1, <1>2 DEF http_request_done, HttpInv, HasConn, OnlyUnansweredLeak
<1> QED
  BY <1>3, <1>4, <1>5 DEF HttpInv

\* The other steps move the thread only, and never from or to a request.
LEMMA MoveInv ==
    HttpInv /\ (HttpStart \/ HttpStop \/ HttpWait \/ HttpLeave \/ HttpSpuriousWakeup)
        => HttpInv'
<1> SUFFICES ASSUME HttpInv,
                    HttpStart \/ HttpStop \/ HttpWait \/ HttpLeave \/ HttpSpuriousWakeup
             PROVE  HttpInv'
  OBVIOUS
<1>1. /\ UNCHANGED <<dispatch_queue_, send_msg, evhttp_conns, submitted, requests,
                     unanswered>>
      /\ http_stop_' \in BOOLEAN
      /\ \/ hpc' = hpc
         \/ hpc \notin {"request", "dispatch"} /\ hpc' \in {"top", "wait", "exit"}
  BY DEF HttpInv, HttpTypeOK, HttpStart, HttpStop, HttpWait, HttpLeave,
         HttpSpuriousWakeup, HttpSignal, HttpGoto, Looks
<1>2. HttpTypeOK'
  BY <1>1 DEF HttpInv, HttpTypeOK
<1>3. InOrder'
  BY <1>1 DEF HttpInv, InOrder, InHand
<1>4. HasConn' /\ OnlyUnansweredLeak'
  BY <1>1 DEF HttpInv, HttpTypeOK, HasConn, OnlyUnansweredLeak
<1> QED
  BY <1>2, <1>3, <1>4 DEF HttpInv

\* Every step preserves the invariant.
LEMMA HttpStepInv == HttpInv /\ [HttpNext]_httpVars => HttpInv'
<1> SUFFICES ASSUME HttpInv, [HttpNext]_httpVars
             PROVE  HttpInv'
  OBVIOUS
<1>1. CASE UNCHANGED httpVars
  BY <1>1 DEF httpVars, HttpInv, HttpTypeOK, InOrder, InHand, HasConn, OnlyUnansweredLeak
<1>2. CASE HttpNext
  BY <1>2, SubmitInv, PopInv, RequestInv, DoneInv, MoveInv DEF HttpNext, HttpThread
<1> QED
  BY <1>1, <1>2

-----------------------------------------------------------------------------
\* The invariant holds in every reachable state.
THEOREM HttpInvariance == HttpSpec => []HttpInv
<1>1. QED
  BY HttpInitInv, HttpStepInv, PTL DEF HttpSpec

\* Every variable has its type.
THEOREM HttpTypeCorrect == HttpSpec => []HttpTypeOK
<1>1. HttpInv => HttpTypeOK
  BY DEF HttpInv
<1> QED
  BY HttpInvariance, <1>1, PTL

\* Notices are requested once each and in the order of their SubmitMsg, however
\* the workers and HttpClient::Entry interleave.
THEOREM NoticesAlwaysInOrder == HttpSpec => []NoticesOnceInOrder
<1>1. HttpInv => NoticesOnceInOrder
  <2> SUFFICES ASSUME HttpInv
               PROVE  NoticesOnceInOrder
    OBVIOUS
  <2> DEFINE rest  == SubSeq(submitted, requests + 1, Len(submitted))
             known == send_msg \o dispatch_queue_
  <2>1. /\ submitted \in Seq(Notices) /\ dispatch_queue_ \in Seq(Notices)
        /\ send_msg \in Seq(Notices) /\ requests \in Nat
    <3>1. send_msg \in {<<>>} \cup {<<n>> : n \in Notices}
      BY DEF HttpInv, HttpTypeOK
    <3>2. CASE send_msg = <<>>
      BY <3>2 DEF HttpInv, HttpTypeOK
    <3>3. ASSUME NEW n \in Notices, send_msg = <<n>>
          PROVE  send_msg \in Seq(Notices)
      BY <3>3
    <3> QED
      BY <3>1, <3>2, <3>3 DEF HttpInv, HttpTypeOK
  <2>2. /\ InHand \in {0, 1} /\ Len(send_msg) = InHand
        /\ Len(submitted) = requests + InHand + Len(dispatch_queue_)
    BY DEF HttpInv, InOrder, InHand
  <2>3. requests <= Len(submitted)
    BY <2>1, <2>2
  <2>4. rest \in Seq(Notices) /\ known \in Seq(Notices) /\ Len(rest) = Len(known)
    BY <2>1, <2>2, <2>3
  <2>5. ASSUME NEW i \in 1 .. Len(rest)
        PROVE  rest[i] = known[i]
    <3>1. rest[i] = submitted[requests + i]
      <4>1. Len(rest) = Len(submitted) - requests /\ Len(submitted) \in Nat
        BY <2>1, <2>3
      <4>2. i \in 1 .. Len(submitted) - (requests + 1) + 1
        BY <2>1, <4>1
      <4>3. rest[i] = submitted[(requests + 1) + i - 1]
        BY <2>1, <2>3, <4>2
      <4> QED
        BY <2>1, <4>3
    <3>2. CASE InHand = 0
      BY <2>1, <2>2, <2>4, <3>1, <3>2 DEF HttpInv, InOrder
    <3>3. CASE InHand = 1 /\ i = 1
      <4>1. Len(send_msg) = 1 /\ send_msg[1] = submitted[requests + 1]
        BY <3>3 DEF HttpInv, InOrder, InHand
      <4>2. known[1] = send_msg[1]
        <5>1. \A j \in 1 .. Len(send_msg) + Len(dispatch_queue_) :
                 known[j] = IF j <= Len(send_msg) THEN send_msg[j]
                            ELSE dispatch_queue_[j - Len(send_msg)]
          BY <2>1, ConcatProperties
        <5>2. Len(dispatch_queue_) \in Nat
          BY <2>1
        <5> HIDE DEF known
        <5> QED
          BY <4>1, <5>1, <5>2
      <4> QED
        BY <2>1, <3>1, <3>3, <4>1, <4>2
    <3>4. CASE InHand = 1 /\ i # 1
      <4>1. i - 1 \in 1 .. Len(dispatch_queue_) /\ known[i] = dispatch_queue_[i - 1]
        BY <2>1, <2>2, <2>4, <3>4
      <4>2. dispatch_queue_[i - 1] = submitted[requests + 1 + (i - 1)]
        BY <3>4, <4>1 DEF HttpInv, InOrder
      <4> QED
        BY <2>1, <3>1, <4>1, <4>2
    <3> QED
      BY <2>2, <3>2, <3>3, <3>4
  <2>6. rest = known
    BY <2>4, <2>5
  <2> QED
    BY <2>3, <2>6 DEF NoticesOnceInOrder
<1> QED
  BY HttpInvariance, <1>1, PTL

\* The connections that http_request_done leaves behind are those of requests
\* that were not answered.
THEOREM LeaksAreUnanswered == HttpSpec => []OnlyUnansweredLeak
<1>1. HttpInv => OnlyUnansweredLeak
  BY DEF HttpInv
<1> QED
  BY HttpInvariance, <1>1, PTL
=============================================================================
