------------------------ MODULE LocalTransport_proofs ------------------------
(***************************************************************************)
(* Proofs about the push relay and the local transport, for any numbers of *)
(* pushes, replies, connections and messages.                              *)
(*                                                                         *)
(* Every step of the transport is a step of the relay or leaves its        *)
(* variables alone, so the relay is treated first, by itself: the numbers  *)
(* given out so far are the handled ones, then the one in hand, then the   *)
(* queue, and how often a push was completed, its entry among the waiting  *)
(* ones and its replies follow from where its number falls.  The           *)
(* refinement of PushService rests on that, and so does the use of         *)
(* contexts: until some push is completed twice, every pointer that is     *)
(* still to be completed names its own context.                            *)
(***************************************************************************)
EXTENDS LocalTransport, TLAPS

USE PushAssumption, TransportAssumption

-----------------------------------------------------------------------------
(* The relay.                                                               *)

\* Pushes the push thread is done with: registered or refused.
HandledCount == g_push_msg_cnt - Len(push_msg_queue_) - (IF cur = NoPush THEN 0 ELSE 1)

InHand == ppc \in {"lookup", "write", "register", "finish"}

\* Handled, in hand, queued: the numbers given out, in this order.
Numbering ==
    /\ InHand <=> cur # NoPush
    /\ HandledCount >= 0
    /\ cur # NoPush => cur = HandledCount + 1
    /\ \A i \in 1 .. Len(push_msg_queue_) :
          push_msg_queue_[i] = g_push_msg_cnt - Len(push_msg_queue_) + i

\* A push's completions and entry, from its number.
Completions ==
    \A p \in Pushes :
        /\ p > HandledCount =>
              completed[p] = 0 /\ p \notin wait_finish_msg_queue_
        /\ p <= HandledCount /\ p \notin wait_finish_msg_queue_ => completed[p] = 1

\* No completion without a reply: what a context was completed with and what
\* is still to be handled are replies that came with its number.
RepliesCounted ==
    \A p \in Pushes :
        /\ p \in written =>
              p \in wait_finish_msg_queue_ \/ (cur = p /\ ppc = "register")
        /\ replies[p] <= replied[p]
        /\ p \in wait_finish_msg_queue_ => completed[p] + replies[p] <= replied[p]

\* As long as no pointer was misused, a push that was not completed has its own
\* context; the first misuse is a second completion.
Pointers ==
    /\ misused # {} => \E p \in misused : completed[p] > 1
    /\ misused = {} =>
          \A p \in Pushes :
              p <= g_push_msg_cnt /\ completed[p] = 0 => NamesItsContext(p)

RelayInv == TypeOK /\ Numbering /\ Completions /\ RepliesCounted /\ Pointers

-----------------------------------------------------------------------------
(* The transport.                                                           *)

\* LTTypeOK without the relay's part.
TransportTypes ==
    /\ mpc \in {"setup", "queue", "run"} /\ alive \in BOOLEAN
    /\ open \subseteq Conns
    /\ conns \in 0 .. MaxConns
    /\ reader \in Conns \cup {NoConn} /\ vec_str \in Seq(Messages)
    /\ vec_str # <<>> => reader \in open

-----------------------------------------------------------------------------
(* The relay's invariant.                                                   *)

LEMMA RelayInit == Init => RelayInv
<1> SUFFICES ASSUME Init PROVE RelayInv
  OBVIOUS
<1> USE DEF Init
<1>1. TypeOK
  <2>1. push_msg_queue_ \in Seq(Pushes)
    OBVIOUS
  <2>4. stop_ \in BOOLEAN
    BY Zenon
  <2>2. g_push_msg_cnt \in 0 .. MaxPush /\ cur \in Pushes \cup {NoPush}
    OBVIOUS
  <2>3. /\ completed \in [Pushes -> Nat] /\ replies \in [Pushes -> 0 .. MaxReplies]
        /\ replied \in [Pushes -> 0 .. MaxReplies]
        /\ ct \in [Pushes -> Addrs \cup {NoAddr}]
        /\ owner \in [Addrs -> Pushes \cup {NoPush}]
    OBVIOUS
  <2> QED BY <2>1, <2>2, <2>3, <2>4 DEF TypeOK
<1>2. Len(push_msg_queue_) = 0 /\ HandledCount = 0
  <2>1. Len(push_msg_queue_) = 0 /\ g_push_msg_cnt = 0 /\ cur = NoPush
    OBVIOUS
  <2> HIDE DEF Init
  <2> QED BY <2>1 DEF HandledCount, NoPush
<1>3. Numbering
  BY <1>2 DEF Numbering, InHand, NoPush
<1>4. Completions
  BY <1>2 DEF Completions, Pushes
<1>5. RepliesCounted
  BY DEF RepliesCounted
<1>6. Pointers
  BY DEF Pointers, Pushes
<1> QED BY <1>1, <1>3, <1>4, <1>5, <1>6 DEF RelayInv

LEMMA RelayHandleMsg == RelayInv /\ HandleMsg => RelayInv'
<1> SUFFICES ASSUME RelayInv, HandleMsg PROVE RelayInv'
  OBVIOUS
<1> DEFINE new == g_push_msg_cnt + 1
           q   == push_msg_queue_
<1> USE DEF RelayInv
<1>1. /\ new \in Pushes /\ g_push_msg_cnt \in Nat /\ q \in Seq(Pushes)
      /\ g_push_msg_cnt' = new /\ q' = Append(q, new)
      /\ ppc' = IF ppc = "wait" THEN "top" ELSE ppc
      /\ UNCHANGED <<stop_, cur, wait_finish_msg_queue_, completed, misused, written,
                     replies, replied>>
  BY DEF HandleMsg, SubmitMsg, TypeOK, Pushes, devVars
<1>0. PICK a \in Addrs : /\ a \notin live \/ misused # {}
                         /\ ct' = [ct EXCEPT ![new] = a]
                         /\ live' = live \cup {a}
                         /\ owner' = [owner EXCEPT ![a] = new]
  BY DEF HandleMsg
<1>2. /\ Len(q) \in Nat /\ Len(q') = Len(q) + 1
      /\ \A i \in 1 .. Len(q) : q'[i] = q[i]
      /\ q'[Len(q) + 1] = new
      /\ q' \in Seq(Pushes)
  BY <1>1
<1>3. HandledCount' = HandledCount /\ HandledCount \in Int
  BY <1>1, <1>2 DEF HandledCount
<1>4. TypeOK'
  <2>1. g_push_msg_cnt' \in 0 .. MaxPush
    BY <1>1 DEF Pushes
  <2>2. /\ ct' \in [Pushes -> Addrs \cup {NoAddr}] /\ live' \subseteq Addrs
        /\ owner' \in [Addrs -> Pushes \cup {NoPush}]
    BY <1>0, <1>1 DEF TypeOK
  <2> QED BY <2>1, <2>2, <1>1, <1>2 DEF TypeOK
<1>5. Numbering'
  <2>1. (InHand <=> cur # NoPush)'
    BY <1>1 DEF Numbering, InHand, NoPush
  <2>2. ASSUME NEW i \in 1 .. Len(q')
        PROVE  q'[i] = g_push_msg_cnt' - Len(q') + i
    <3>1. CASE i = Len(q) + 1
      BY <3>1, <1>1, <1>2
    <3>2. CASE i \in 1 .. Len(q)
      <4>1. q[i] = g_push_msg_cnt - Len(q) + i
        BY <3>2 DEF Numbering
      <4> QED BY <4>1, <3>2, <1>1, <1>2
    <3> QED BY <3>1, <3>2, <1>2
  <2> QED
    BY <2>1, <2>2, <1>1, <1>3 DEF Numbering, NoPush
<1>6. Completions'
  BY <1>1, <1>3 DEF Completions
<1>7. RepliesCounted'
  BY <1>1 DEF RepliesCounted
<1>8. Pointers'
  <2>1. CASE misused # {}
    BY <2>1, <1>1 DEF Pointers
  <2>2. CASE misused = {}
    <3>1. ASSUME NEW p \in Pushes, p <= new, completed[p] = 0
          PROVE  ct'[p] \in live' /\ owner'[ct'[p]] = p
      <4>1. CASE p = new
        BY <4>1, <1>0, <1>1 DEF TypeOK
      <4>2. CASE p # new
        <5>1. p <= g_push_msg_cnt
          BY <4>2, <3>1, <1>1 DEF Pushes
        <5>2. ct[p] \in live /\ owner[ct[p]] = p
          BY <5>1, <3>1, <2>2 DEF Pointers, NamesItsContext
        <5>3. ct'[p] = ct[p] /\ ct[p] # a
          BY <5>2, <4>2, <2>2, <1>0 DEF TypeOK
        <5> QED BY <5>2, <5>3, <1>0 DEF TypeOK
      <4> QED BY <4>1, <4>2
    <3> QED BY <3>1, <2>2, <1>1 DEF Pointers, NamesItsContext
  <2> QED BY <2>1, <2>2
<1> QED BY <1>4, <1>5, <1>6, <1>7, <1>8

LEMMA RelayPop == RelayInv /\ Pop => RelayInv'
<1> SUFFICES ASSUME RelayInv, Pop PROVE RelayInv'
  OBVIOUS
<1> DEFINE q == push_msg_queue_
<1> USE DEF RelayInv
<1>1. /\ q \in Seq(Pushes) /\ q # <<>> /\ q' = Tail(q) /\ cur' = Head(q)
      /\ ppc' = "lookup" /\ ppc \in {"inner", "top"} /\ g_push_msg_cnt \in Nat
      /\ UNCHANGED <<g_push_msg_cnt, stop_, wait_finish_msg_queue_, ct, live, owner,
                     completed, misused, written, replies, replied>>
  BY DEF Pop, TypeOK, ctVars, devVars
<1>2. /\ Len(q) \in Nat \ {0} /\ Len(q') = Len(q) - 1
      /\ \A i \in 1 .. Len(q') : q'[i] = q[i + 1]
      /\ cur' = q[1] /\ q' \in Seq(Pushes) /\ cur' \in Pushes
  BY <1>1
<1>3. cur = NoPush
  BY <1>1 DEF Numbering, InHand
<1>4. /\ HandledCount' = HandledCount /\ HandledCount = g_push_msg_cnt - Len(q)
      /\ HandledCount \in Int
  BY <1>1, <1>2, <1>3 DEF HandledCount, NoPush, Pushes
<1>5. TypeOK'
  BY <1>1, <1>2 DEF TypeOK
<1>6. Numbering'
  <2>1. (InHand <=> cur # NoPush)'
    BY <1>1, <1>2 DEF InHand, NoPush, Pushes
  <2>2. (cur = HandledCount + 1)'
    BY <1>2, <1>4 DEF Numbering
  <2>3. \A i \in 1 .. Len(q') : q'[i] = g_push_msg_cnt' - Len(q') + i
    BY <1>1, <1>2 DEF Numbering
  <2> QED BY <2>1, <2>2, <2>3, <1>4 DEF Numbering
<1>7. Completions'
  BY <1>1, <1>4 DEF Completions
<1>8. RepliesCounted'
  BY <1>1 DEF RepliesCounted
<1>9. Pointers'
  BY <1>1 DEF Pointers, NamesItsContext
<1> QED BY <1>5, <1>6, <1>7, <1>8, <1>9

\* Steps of the push thread and of its surroundings that move no push.
LEMMA RelayControl ==
  RelayInv /\ (Leave \/ Wait \/ SpuriousWakeup \/ Stop \/ Lookup \/ WriteFails) => RelayInv'
<1> SUFFICES ASSUME RelayInv, Leave \/ Wait \/ SpuriousWakeup \/ Stop \/ Lookup \/ WriteFails
             PROVE  RelayInv'
  OBVIOUS
<1> USE DEF RelayInv
<1>1. /\ UNCHANGED <<g_push_msg_cnt, push_msg_queue_, cur, wait_finish_msg_queue_, ct,
                     live, owner, completed, misused, written, replies, replied>>
      /\ stop_' \in BOOLEAN
      /\ \/ ~InHand /\ ppc' \in {"top", "wait", "exit", "inner"}
         \/ ppc \in {"lookup", "write"} /\ ppc' \in {"write", "finish"}
         \/ ppc' = ppc
  BY DEF Leave, Wait, SpuriousWakeup, Stop, Lookup, WriteFails, TypeOK, InHand, ctVars,
         devVars
<1>2. HandledCount' = HandledCount
  BY <1>1 DEF HandledCount
<1>3. TypeOK'
  BY <1>1 DEF TypeOK
<1>4. Numbering'
  BY <1>1, <1>2 DEF Numbering, InHand
<1>5. Completions'
  BY <1>1, <1>2 DEF Completions
<1>6. RepliesCounted'
  BY <1>1 DEF RepliesCounted, InHand
<1>7. Pointers'
  BY <1>1 DEF Pointers, NamesItsContext
<1> QED BY <1>3, <1>4, <1>5, <1>6, <1>7

LEMMA RelayWriteOk == RelayInv /\ WriteOk => RelayInv'
<1> SUFFICES ASSUME RelayInv, WriteOk PROVE RelayInv'
  OBVIOUS
<1> USE DEF RelayInv
<1>1. /\ UNCHANGED <<g_push_msg_cnt, push_msg_queue_, stop_, cur, wait_finish_msg_queue_,
                     ct, live, owner, completed, misused, replies, replied>>
      /\ ppc = "write" /\ ppc' = "register" /\ written' = written \cup {cur}
      /\ cur \in Pushes
  BY DEF WriteOk, TypeOK, Numbering, InHand, ctVars
<1>2. HandledCount' = HandledCount
  BY <1>1 DEF HandledCount
<1>3. TypeOK'
  BY <1>1 DEF TypeOK
<1>4. Numbering'
  BY <1>1, <1>2 DEF Numbering, InHand
<1>5. Completions'
  BY <1>1, <1>2 DEF Completions
<1>6. RepliesCounted'
  BY <1>1 DEF RepliesCounted
<1>7. Pointers'
  BY <1>1 DEF Pointers, NamesItsContext
<1> QED BY <1>3, <1>4, <1>5, <1>6, <1>7

LEMMA InHandLast ==
  ASSUME RelayInv, InHand
  PROVE  /\ cur \in Pushes /\ HandledCount \in Nat /\ cur = HandledCount + 1
         /\ completed[cur] = 0 /\ cur <= g_push_msg_cnt
         /\ cur \notin wait_finish_msg_queue_
         /\ HandledCount = g_push_msg_cnt - Len(push_msg_queue_) - 1
<1> USE DEF RelayInv
<1>1. cur # NoPush /\ cur \in Pushes /\ cur = HandledCount + 1
  BY DEF Numbering, TypeOK
<1>2. Len(push_msg_queue_) \in Nat /\ g_push_msg_cnt \in Nat
  BY DEF TypeOK
<1>3. /\ HandledCount = g_push_msg_cnt - Len(push_msg_queue_) - 1
      /\ HandledCount \in Nat
  BY <1>1, <1>2 DEF HandledCount, Numbering
<1> QED BY <1>1, <1>2, <1>3 DEF Completions, Pushes

LEMMA RelayRegister == RelayInv /\ Register => RelayInv'
<1> SUFFICES ASSUME RelayInv, Register PROVE RelayInv'
  OBVIOUS
<1> USE DEF RelayInv
<1>1. /\ UNCHANGED <<g_push_msg_cnt, push_msg_queue_, stop_, ct, live, owner, completed,
                     misused, written, replies, replied>>
      /\ ppc = "register" /\ ppc' = "inner" /\ cur' = NoPush
      /\ wait_finish_msg_queue_' = wait_finish_msg_queue_ \cup {cur}
  BY DEF Register, ctVars, devVars
<1>2. /\ cur \in Pushes /\ HandledCount \in Nat /\ cur = HandledCount + 1
      /\ completed[cur] = 0 /\ cur \notin wait_finish_msg_queue_
      /\ HandledCount = g_push_msg_cnt - Len(push_msg_queue_) - 1
      /\ Len(push_msg_queue_) \in Nat /\ g_push_msg_cnt \in Nat
  BY <1>1, InHandLast DEF InHand, TypeOK
<1>3. HandledCount' = HandledCount + 1
  BY <1>1, <1>2 DEF HandledCount
<1>4. TypeOK'
  BY <1>1, <1>2 DEF TypeOK
<1>5. Numbering'
  BY <1>1, <1>2, <1>3 DEF Numbering, InHand
<1>6. Completions'
  BY <1>1, <1>2, <1>3 DEF Completions, Pushes
<1>7. RepliesCounted'
  <2>1. \A p \in Pushes : replies[p] \in Nat /\ completed[p] \in Nat /\ replied[p] \in Nat
    BY DEF TypeOK
  <2> SUFFICES ASSUME NEW p \in Pushes
               PROVE  /\ p \in written => p \in wait_finish_msg_queue_'
                      /\ replies[p] <= replied[p]
                      /\ p \in wait_finish_msg_queue_' =>
                            completed[p] + replies[p] <= replied[p]
    BY <1>1 DEF RepliesCounted
  <2>2. CASE p = cur
    BY <2>1, <2>2, <1>1, <1>2 DEF RepliesCounted
  <2>3. CASE p # cur
    BY <2>3, <1>1 DEF RepliesCounted
  <2> QED BY <2>2, <2>3
<1>8. Pointers'
  BY <1>1 DEF Pointers, NamesItsContext
<1> QED BY <1>4, <1>5, <1>6, <1>7, <1>8

\* Completing a push through its pointer.
LEMMA CompleteKeepsPointers ==
  ASSUME TypeOK, Pointers, NEW d \in Pushes, d <= g_push_msg_cnt, Complete(d),
         UNCHANGED g_push_msg_cnt
  PROVE  Pointers'
<1>1. /\ completed'[d] = completed[d] + 1 /\ completed[d] \in Nat
      /\ \A p \in Pushes : p # d => completed'[p] = completed[p]
      /\ \A p \in Pushes : completed[p] > 1 => completed'[p] > 1
  <2>1. completed \in [Pushes -> Nat] /\ completed' = [completed EXCEPT ![d] = @ + 1]
    BY DEF TypeOK, Complete
  <2> QED BY <2>1
<1>2. /\ misused' = IF NamesItsContext(d) THEN misused ELSE misused \cup {d}
      /\ live' = live \ {ct[d]} /\ UNCHANGED <<ct, owner>>
      /\ misused \subseteq Pushes /\ ct \in [Pushes -> Addrs \cup {NoAddr}]
  BY DEF Complete, TypeOK
<1>3. CASE misused # {}
  BY <1>1, <1>2, <1>3 DEF Pointers
<1>4. CASE misused = {} /\ NamesItsContext(d)
  <2>1. misused' = {}
    BY <1>2, <1>4
  <2>2. ASSUME NEW p \in Pushes, p <= g_push_msg_cnt, completed'[p] = 0
        PROVE  ct[p] \in live' /\ owner[ct[p]] = p
    <3>1. p # d /\ completed[p] = 0
      BY <2>2, <1>1
    <3>2. ct[p] \in live /\ owner[ct[p]] = p
      BY <3>1, <2>2, <1>4 DEF Pointers, NamesItsContext
    <3>3. ct[p] # ct[d]
      BY <3>1, <3>2, <1>4 DEF NamesItsContext
    <3> QED BY <3>2, <3>3, <1>2
  <2> QED BY <2>1, <2>2, <1>2 DEF Pointers, NamesItsContext
<1>5. CASE misused = {} /\ ~NamesItsContext(d)
  <2>1. completed[d] # 0
    BY <1>5 DEF Pointers
  <2>2. completed'[d] > 1 /\ d \in misused'
    BY <2>1, <1>1, <1>2, <1>5
  <2> QED BY <2>2 DEF Pointers
<1> QED BY <1>3, <1>4, <1>5

LEMMA RelayFinish == RelayInv /\ Finish => RelayInv'
<1> SUFFICES ASSUME RelayInv, Finish PROVE RelayInv'
  OBVIOUS
<1> USE DEF RelayInv
<1>1. /\ UNCHANGED <<g_push_msg_cnt, push_msg_queue_, stop_, wait_finish_msg_queue_,
                     ct, owner, written, replies, replied>>
      /\ ppc = "finish" /\ ppc' = "inner" /\ cur' = NoPush
      /\ live' \subseteq live /\ misused' \subseteq misused \cup {cur}
      /\ completed' = [completed EXCEPT ![cur] = @ + 1]
  BY DEF Finish, Complete, devVars
<1>2. /\ cur \in Pushes /\ HandledCount \in Nat /\ cur = HandledCount + 1
      /\ completed[cur] = 0 /\ cur \notin wait_finish_msg_queue_
      /\ HandledCount = g_push_msg_cnt - Len(push_msg_queue_) - 1
      /\ Len(push_msg_queue_) \in Nat /\ g_push_msg_cnt \in Nat
      /\ cur <= g_push_msg_cnt
  BY <1>1, InHandLast DEF InHand, TypeOK
<1>3. HandledCount' = HandledCount + 1
  BY <1>1, <1>2 DEF HandledCount
<1>4. TypeOK'
  BY SMTT(30), <1>1, <1>2 DEF TypeOK
<1>5. Numbering'
  BY <1>1, <1>2, <1>3 DEF Numbering, InHand
<1>6. Completions'
  <2>1. \A p \in Pushes : p # cur => completed'[p] = completed[p]
    BY <1>1 DEF TypeOK
  <2>2. completed'[cur] = 1
    BY SMTT(30), <1>1, <1>2 DEF TypeOK
  <2>3. \A p \in Pushes : p # cur => /\ p > HandledCount + 1 <=> p > HandledCount
                                     /\ p <= HandledCount + 1 <=> p <= HandledCount
    BY <1>2 DEF Pushes
  <2> SUFFICES ASSUME NEW p \in Pushes
               PROVE  /\ p > HandledCount + 1 =>
                            completed'[p] = 0 /\ p \notin wait_finish_msg_queue_
                      /\ p <= HandledCount + 1 /\ p \notin wait_finish_msg_queue_
                            => completed'[p] = 1
    BY <1>1, <1>3 DEF Completions
  <2>4. CASE p = cur
    BY <2>2, <2>4, <1>2 DEF Pushes
  <2>5. CASE p # cur
    BY <2>1, <2>3, <2>5 DEF Completions
  <2> QED BY <2>4, <2>5
<1>7. RepliesCounted'
  BY <1>1, <1>2 DEF RepliesCounted, TypeOK
<1>8. Pointers'
  BY <1>1, <1>2, CompleteKeepsPointers DEF Finish
<1> QED BY <1>4, <1>5, <1>6, <1>7, <1>8

LEMMA RelayDeviceReplies ==
  ASSUME RelayInv, NEW d \in Pushes, DeviceReplies(d) PROVE RelayInv'
<1> USE DEF RelayInv
<1>1. /\ UNCHANGED <<g_push_msg_cnt, push_msg_queue_, stop_, ppc, cur,
                     wait_finish_msg_queue_, ct, live, owner, completed, misused, written>>
      /\ replied[d] < MaxReplies
      /\ replied' = [replied EXCEPT ![d] = @ + 1]
      /\ replies' = [replies EXCEPT ![d] = @ + 1]
  BY DEF DeviceReplies, queueVars, ctVars
<1>2. HandledCount' = HandledCount
  BY <1>1 DEF HandledCount
<1>3. \A p \in Pushes : replies[p] \in Nat /\ replied[p] \in Nat /\ replies[p] <= replied[p]
  BY DEF TypeOK, RepliesCounted
<1>4. TypeOK'
  <2>1. replies[d] + 1 \in 0 .. MaxReplies /\ replied[d] + 1 \in 0 .. MaxReplies
    BY <1>1, <1>3
  <2> QED BY <1>1, <2>1 DEF TypeOK
<1>5. Numbering'
  BY <1>1, <1>2 DEF Numbering, InHand
<1>6. Completions'
  BY <1>1, <1>2 DEF Completions
<1>7. RepliesCounted'
  BY <1>1, <1>3 DEF RepliesCounted, TypeOK
<1>8. Pointers'
  BY <1>1 DEF Pointers, NamesItsContext
<1> QED BY <1>4, <1>5, <1>6, <1>7, <1>8

LEMMA RelayFinishPushMsg ==
  ASSUME RelayInv, NEW d \in Pushes, FinishPushMsg(d) PROVE RelayInv'
<1> USE DEF RelayInv
<1>1. /\ UNCHANGED <<g_push_msg_cnt, push_msg_queue_, stop_, ppc, cur,
                     wait_finish_msg_queue_, written, replied>>
      /\ replies[d] > 0
      /\ replies' = [replies EXCEPT ![d] = @ - 1]
      /\ \/ /\ d \in wait_finish_msg_queue_
            /\ live' \subseteq live /\ misused' \subseteq misused \cup {d}
            /\ UNCHANGED <<ct, owner>>
            /\ completed' = [completed EXCEPT ![d] = @ + 1]
         \/ /\ d \notin wait_finish_msg_queue_
            /\ UNCHANGED <<ct, live, owner, completed, misused>>
  BY DEF FinishPushMsg, Complete, queueVars, ctVars
<1>2. HandledCount' = HandledCount
  BY <1>1 DEF HandledCount
<1>3. \A p \in Pushes : /\ replies[p] \in Nat /\ replied[p] \in Nat /\ completed[p] \in Nat
                        /\ replies[p] <= MaxReplies
  BY DEF TypeOK
<1>4. TypeOK'
  <2>1. replies[d] - 1 \in 0 .. MaxReplies /\ completed[d] + 1 \in Nat
    BY <1>1, <1>3
  <2> QED BY <1>1, <2>1 DEF TypeOK
<1>5. Numbering'
  BY <1>1, <1>2 DEF Numbering, InHand
<1>6. Completions'
  <2>1. CASE d \notin wait_finish_msg_queue_
    BY <2>1, <1>1, <1>2 DEF Completions
  <2>2. CASE d \in wait_finish_msg_queue_
    <3>1. \A p \in Pushes : p # d => completed'[p] = completed[p]
      BY <2>2, <1>1, <1>3 DEF TypeOK
    <3>2. ~(d > HandledCount)
      BY <2>2 DEF Completions
    <3> QED BY <3>1, <3>2, <2>2, <1>1, <1>2 DEF Completions
  <2> QED BY <2>1, <2>2
<1>7. RepliesCounted'
  BY <1>1, <1>3 DEF RepliesCounted, TypeOK
<1>8. Pointers'
  <2>1. CASE d \notin wait_finish_msg_queue_
    BY <2>1, <1>1 DEF Pointers, NamesItsContext
  <2>2. CASE d \in wait_finish_msg_queue_
    <3>1. /\ ~(d > HandledCount) /\ HandledCount <= g_push_msg_cnt
          /\ HandledCount \in Int /\ g_push_msg_cnt \in Int
      BY <2>2 DEF Completions, HandledCount, TypeOK
    <3>2. d <= g_push_msg_cnt
      BY <3>1 DEF Pushes
    <3>3. Complete(d)
      BY <2>2 DEF FinishPushMsg
    <3> QED BY <3>2, <3>3, <1>1, CompleteKeepsPointers
  <2> QED BY <2>1, <2>2
<1> QED BY <1>4, <1>5, <1>6, <1>7, <1>8

LEMMA RelayNext == RelayInv /\ [Next]_vars => RelayInv'
<1> SUFFICES ASSUME RelayInv, [Next]_vars PROVE RelayInv'
  OBVIOUS
<1>1. CASE UNCHANGED vars
  BY <1>1 DEF vars, queueVars, ctVars, devVars, RelayInv, TypeOK, Numbering,
              Completions, RepliesCounted, Pointers, NamesItsContext, HandledCount, InHand
<1>2. CASE Next
  BY <1>2, RelayHandleMsg, RelayPop, RelayControl, RelayWriteOk, RelayRegister,
     RelayFinish, RelayDeviceReplies, RelayFinishPushMsg DEF Next, PushThread
<1> QED BY <1>1, <1>2

-----------------------------------------------------------------------------
(* The transport runs the relay.                                            *)

\* Whatever the transport's thread, main, the push thread or a worker does, the
\* relay sees one of its own steps or none.
LEMMA TransportStepIsRelayStep == LTNext => [Next]_vars
<1> SUFFICES ASSUME LTNext PROVE Next \/ UNCHANGED vars
  OBVIOUS
<1>1. CASE Main
  BY <1>1 DEF Main, CreateQueue, StartQueue
<1>2. CASE Transport
  BY <1>2 DEF Transport, HandlePush, HandlePushTooEarly, HandleNoPush, Next
<1>3. CASE Relay
  BY <1>3 DEF Relay, PushThreadElse, FinishAndRespond, Next, PushThread
<1>4. CASE RelayEnvironment
  BY <1>4 DEF RelayEnvironment, Next
<1>5. CASE AcceptCb \/ \E c \in Conns : ErrorCb(c) \/ ReadCb(c)
  BY <1>5 DEF AcceptCb, ErrorCb, ReadCb
<1>6. CASE \E p \in Pushes : FinishPushMsgAndRespond(p)
  BY <1>6 DEF FinishPushMsgAndRespond, Next
<1> QED BY <1>1, <1>2, <1>3, <1>4, <1>5, <1>6 DEF LTNext

\* The composition of transport and relay is an implementation of the relay as
\* PushRelay specifies it alone: nothing the transport does disturbs the queues
\* and the contexts.
THEOREM TransportImplementsRelay == LTSpec => Spec
<1>1. LTInit => Init
  BY DEF LTInit
<1>2. [LTNext]_allVars => [Next]_vars
  BY TransportStepIsRelayStep DEF allVars
<1> QED BY <1>1, <1>2, PTL DEF LTSpec, Spec

LEMMA RelayInvariant == Spec => []RelayInv
  BY RelayInit, RelayNext, PTL DEF Spec

\* Where a push's number falls decides where its context is referenced from.
LEMMA PlacesFromNumber ==
  ASSUME RelayInv, NEW p \in Pushes
  PROVE  /\ InQueue(p) <=> /\ p > g_push_msg_cnt - Len(push_msg_queue_)
                           /\ p <= g_push_msg_cnt
         /\ cur = p => p = HandledCount + 1 /\ ~InQueue(p) /\ p <= g_push_msg_cnt
         /\ cur = NoPush => HandledCount = g_push_msg_cnt - Len(push_msg_queue_)
         /\ cur # NoPush => HandledCount = g_push_msg_cnt - Len(push_msg_queue_) - 1
         /\ HandledCount \in Nat /\ g_push_msg_cnt \in Nat /\ Len(push_msg_queue_) \in Nat
<1> DEFINE q == push_msg_queue_
<1> USE DEF RelayInv
<1>1. Len(q) \in Nat /\ g_push_msg_cnt \in Nat /\ p \in Nat
  BY DEF TypeOK, Pushes
<1>2. /\ cur = NoPush => HandledCount = g_push_msg_cnt - Len(q)
      /\ cur # NoPush => HandledCount = g_push_msg_cnt - Len(q) - 1
      /\ HandledCount \in Nat
  BY <1>1 DEF HandledCount, Numbering
<1>3. InQueue(p) <=> p > g_push_msg_cnt - Len(q) /\ p <= g_push_msg_cnt
  <2>1. ASSUME InQueue(p) PROVE p > g_push_msg_cnt - Len(q) /\ p <= g_push_msg_cnt
    BY <2>1, <1>1 DEF InQueue, Numbering
  <2>2. ASSUME p > g_push_msg_cnt - Len(q), p <= g_push_msg_cnt PROVE InQueue(p)
    <3> DEFINE i == p - (g_push_msg_cnt - Len(q))
    <3>1. i \in 1 .. Len(q) /\ g_push_msg_cnt - Len(q) + i = p
      BY <2>2, <1>1
    <3>2. q[i] = p
      BY <3>1 DEF Numbering
    <3> QED BY <3>1, <3>2 DEF InQueue
  <2> QED BY <2>1, <2>2
<1>4. cur = p => p = HandledCount + 1
  BY DEF Numbering, NoPush, Pushes
<1> QED BY <1>1, <1>2, <1>3, <1>4 DEF NoPush, Pushes

\* For any number of pushes and replies and wherever contexts are allocated,
\* the first context that is used after its deletion, or in place of another
\* push's, is reached through the pointer of a push whose number came in two
\* replies (WaitFinishPushMsgQueue::FinishPushMsg keeps the entry; Entry leaves
\* no second reference to a context it completes).
THEOREM MisuseNeedsSecondReplyHolds == LTSpec => []MisuseNeedsSecondReply
<1>1. RelayInv => MisuseNeedsSecondReply
  <2> SUFFICES ASSUME RelayInv, misused # {} PROVE \E p \in misused : replied[p] > 1
    BY DEF MisuseNeedsSecondReply
  <2>1. PICK p \in misused : completed[p] > 1
    BY DEF RelayInv, Pointers
  <2>2. p \in Pushes /\ HandledCount \in Int
    BY DEF RelayInv, TypeOK, HandledCount
  <2>3. p \in wait_finish_msg_queue_
    BY <2>1, <2>2 DEF RelayInv, Completions, Pushes
  <2>4. /\ completed[p] + replies[p] <= replied[p]
        /\ completed[p] \in Nat /\ replies[p] \in Nat /\ replied[p] \in Nat
    BY <2>2, <2>3 DEF RelayInv, RepliesCounted, TypeOK
  <2>5. replied[p] > 1
    BY <2>1, <2>4
  <2> QED BY <2>5
<1> QED BY <1>1, TransportImplementsRelay, RelayInvariant, PTL

\* Requests are written to devices in the order in which they were numbered:
\* SubmitMsg appends, Entry takes the first, and one push thread does both the
\* writing and the entering.
THEOREM FifoOrderHolds == LTSpec => []FifoOrder
<1>1. RelayInv => FifoOrder
  <2> SUFFICES ASSUME RelayInv PROVE FifoOrder
    OBVIOUS
  <2>1. \A i, j \in 1 .. Len(push_msg_queue_) :
            i < j => push_msg_queue_[i] < push_msg_queue_[j]
    BY DEF RelayInv, Numbering, TypeOK
  <2>2. ASSUME NEW p \in Pushes, InQueue(p),
               NEW r \in written \cup wait_finish_msg_queue_ \cup ({cur} \ {NoPush})
        PROVE  r < p
    <3>1. r \in Pushes
      BY DEF RelayInv, TypeOK
    <3>2. r = cur \/ r <= HandledCount
      <4>1. r \in wait_finish_msg_queue_ \/ r = cur
        BY <3>1 DEF RelayInv, RepliesCounted
      <4> QED BY <4>1, <3>1, PlacesFromNumber DEF RelayInv, Completions, Pushes
    <3>3. r = cur => r = HandledCount + 1 /\ cur # NoPush
      BY <3>1, PlacesFromNumber DEF Pushes, NoPush
    <3>4. /\ p > g_push_msg_cnt - Len(push_msg_queue_) /\ p \in Nat /\ r \in Nat
          /\ cur = NoPush => HandledCount = g_push_msg_cnt - Len(push_msg_queue_)
          /\ cur # NoPush => HandledCount = g_push_msg_cnt - Len(push_msg_queue_) - 1
          /\ HandledCount \in Nat /\ g_push_msg_cnt \in Nat /\ Len(push_msg_queue_) \in Nat
      BY <2>2, <3>1, PlacesFromNumber DEF Pushes
    <3> QED BY <3>2, <3>3, <3>4
  <2> QED BY <2>1, <2>2 DEF FifoOrder
<1> QED BY <1>1, TransportImplementsRelay, RelayInvariant, PTL

-----------------------------------------------------------------------------
(* The relay implements PushService.                                        *)

\* The refinement mapping: what PushService calls handled is HandledCount.
RefusedSet == {p \in Pushes : completed[p] > 0 /\ p \notin wait_finish_msg_queue_}

\* The service's variables stay as they are when the numbers given, the ones
\* handled, the contexts' completions and the waiting pushes do.
LEMMA ServiceStutters ==
  ASSUME g_push_msg_cnt' = g_push_msg_cnt, HandledCount' = HandledCount,
         RefusedSet' = RefusedSet, completed' = completed
  PROVE  UNCHANGED Service!vars
  BY DEF Service!vars, HandledCount, RefusedSet

LEMMA ServiceAsks ==
  ASSUME RelayInv, HandleMsg PROVE Service!Ask
<1>1. /\ g_push_msg_cnt < MaxPush /\ g_push_msg_cnt' = g_push_msg_cnt + 1
      /\ push_msg_queue_' = Append(push_msg_queue_, g_push_msg_cnt + 1)
      /\ UNCHANGED <<cur, wait_finish_msg_queue_, completed>>
  BY DEF HandleMsg, SubmitMsg
<1>2. Len(push_msg_queue_') = Len(push_msg_queue_) + 1
  BY <1>1 DEF RelayInv, TypeOK
<1>3. /\ g_push_msg_cnt \in Nat /\ Len(push_msg_queue_) \in Nat
  BY DEF RelayInv, TypeOK
<1>4. HandledCount' = HandledCount
  BY <1>1, <1>2, <1>3 DEF HandledCount
<1>5. RefusedSet' = RefusedSet
  BY <1>1 DEF RefusedSet
<1> QED BY <1>1, <1>4, <1>5 DEF Service!Ask, HandledCount, RefusedSet

LEMMA ServiceDelivers ==
  ASSUME RelayInv, Register PROVE Service!Deliver
<1>1. /\ ppc = "register" /\ cur' = NoPush
      /\ wait_finish_msg_queue_' = wait_finish_msg_queue_ \cup {cur}
      /\ UNCHANGED <<g_push_msg_cnt, push_msg_queue_, completed>>
  BY DEF Register, ctVars
<1>2. /\ cur \in Pushes /\ HandledCount \in Nat /\ cur = HandledCount + 1
      /\ completed[cur] = 0 /\ cur <= g_push_msg_cnt
      /\ HandledCount = g_push_msg_cnt - Len(push_msg_queue_) - 1
      /\ Len(push_msg_queue_) \in Nat /\ g_push_msg_cnt \in Nat
  BY <1>1, InHandLast DEF InHand, RelayInv, TypeOK
<1>3. HandledCount' = HandledCount + 1 /\ HandledCount < g_push_msg_cnt
  BY <1>1, <1>2 DEF HandledCount
<1>4. RefusedSet' = RefusedSet
  <2>1. ASSUME NEW p \in Pushes PROVE p \in RefusedSet' <=> p \in RefusedSet
    BY <1>1, <1>2 DEF RefusedSet
  <2> QED BY <2>1 DEF RefusedSet
<1> QED BY <1>1, <1>3, <1>4 DEF Service!Deliver, HandledCount, RefusedSet

LEMMA ServiceRefuses ==
  ASSUME RelayInv, Finish PROVE Service!Refuse
<1>1. /\ ppc = "finish" /\ cur' = NoPush
      /\ completed' = [completed EXCEPT ![cur] = @ + 1]
      /\ UNCHANGED <<g_push_msg_cnt, push_msg_queue_, wait_finish_msg_queue_>>
  BY DEF Finish, Complete
<1>2. /\ cur \in Pushes /\ HandledCount \in Nat /\ cur = HandledCount + 1
      /\ completed[cur] = 0 /\ cur <= g_push_msg_cnt
      /\ cur \notin wait_finish_msg_queue_
      /\ HandledCount = g_push_msg_cnt - Len(push_msg_queue_) - 1
      /\ Len(push_msg_queue_) \in Nat /\ g_push_msg_cnt \in Nat
      /\ completed \in [Pushes -> Nat]
  BY <1>1, InHandLast DEF InHand, RelayInv, TypeOK
<1>3. HandledCount' = HandledCount + 1 /\ HandledCount < g_push_msg_cnt
  BY <1>1, <1>2 DEF HandledCount
<1>4. RefusedSet' = RefusedSet \cup {HandledCount + 1}
  <2>1. ASSUME NEW p \in Pushes PROVE p \in RefusedSet' <=> p \in RefusedSet \/ p = cur
    <3>1. CASE p = cur
      BY <1>1, <1>2, <3>1 DEF RefusedSet
    <3>2. CASE p # cur
      <4>1. completed'[p] = completed[p]
        BY <1>1, <1>2, <3>2
      <4> QED BY <1>1, <4>1, <3>2 DEF RefusedSet
    <3> QED BY <3>1, <3>2
  <2>2. RefusedSet' \subseteq Pushes /\ RefusedSet \subseteq Pushes
    BY DEF RefusedSet
  <2> QED BY <2>1, <2>2, <1>2
<1>5. completed' = [completed EXCEPT ![HandledCount + 1] = @ + 1]
  BY <1>1, <1>2
<1> QED BY <1>1, <1>3, <1>4, <1>5 DEF Service!Refuse, HandledCount, RefusedSet

LEMMA ServiceAnswers ==
  ASSUME RelayInv, NEW d \in Pushes, FinishPushMsg(d)
  PROVE  Service!Answer(d) \/ UNCHANGED Service!vars
<1>1. /\ UNCHANGED <<g_push_msg_cnt, push_msg_queue_, cur, wait_finish_msg_queue_>>
      /\ replies[d] > 0
      /\ \/ /\ d \in wait_finish_msg_queue_
            /\ completed' = [completed EXCEPT ![d] = @ + 1]
         \/ d \notin wait_finish_msg_queue_ /\ completed' = completed
  BY DEF FinishPushMsg, Complete, queueVars, ctVars
<1>2. HandledCount' = HandledCount
  BY <1>1 DEF HandledCount
<1>3. CASE d \notin wait_finish_msg_queue_
  <2>1. RefusedSet' = RefusedSet
    BY <1>1, <1>3 DEF RefusedSet
  <2> QED BY <1>1, <1>2, <1>3, <2>1, ServiceStutters
<1>4. CASE d \in wait_finish_msg_queue_
  <2>1. /\ completed \in [Pushes -> Nat] /\ replies[d] \in Nat /\ replied[d] \in 0 .. MaxReplies
        /\ completed[d] + replies[d] <= replied[d] /\ HandledCount \in Int /\ d \in Nat
        /\ ~(d > HandledCount)
    BY <1>4 DEF RelayInv, TypeOK, RepliesCounted, Completions, HandledCount, Pushes
  <2>2. completed[d] < MaxReplies /\ d <= HandledCount
    BY <1>1, <2>1
  <2>3. RefusedSet' = RefusedSet /\ d \notin RefusedSet
    BY <1>1, <1>4, <2>1 DEF RefusedSet
  <2> QED BY <1>1, <1>2, <1>4, <2>2, <2>3 DEF Service!Answer, HandledCount, RefusedSet
<1> QED BY <1>3, <1>4

LEMMA ServiceStep ==
  RelayInv /\ [Next]_vars => [Service!Next]_(Service!vars)
<1> SUFFICES ASSUME RelayInv, [Next]_vars PROVE Service!Next \/ UNCHANGED Service!vars
  OBVIOUS
<1>1. CASE HandleMsg
  BY <1>1, ServiceAsks DEF Service!Next
<1>2. CASE Register
  BY <1>2, ServiceDelivers DEF Service!Next
<1>3. CASE Finish
  BY <1>3, ServiceRefuses DEF Service!Next
<1>4. CASE Pop
  <2>1. /\ cur = NoPush /\ cur' # NoPush /\ Len(push_msg_queue_') = Len(push_msg_queue_) - 1
        /\ UNCHANGED <<g_push_msg_cnt, wait_finish_msg_queue_, completed>>
        /\ g_push_msg_cnt \in Nat /\ Len(push_msg_queue_) \in Nat
    <3>1. /\ push_msg_queue_ \in Seq(Pushes) /\ push_msg_queue_ # <<>>
          /\ push_msg_queue_' = Tail(push_msg_queue_) /\ cur' = Head(push_msg_queue_)
          /\ UNCHANGED <<g_push_msg_cnt, wait_finish_msg_queue_, completed>>
          /\ cur = NoPush
      BY <1>4 DEF Pop, ctVars, RelayInv, TypeOK, Numbering, InHand
    <3>2. cur' \in Pushes /\ Len(push_msg_queue_') = Len(push_msg_queue_) - 1
      BY <3>1
    <3>3. g_push_msg_cnt \in Nat /\ Len(push_msg_queue_) \in Nat
      BY <3>1 DEF RelayInv, TypeOK
    <3> QED BY <3>1, <3>2, <3>3 DEF NoPush, Pushes
  <2>2. HandledCount' = HandledCount
    BY <2>1 DEF HandledCount
  <2>3. RefusedSet' = RefusedSet
    BY <2>1 DEF RefusedSet
  <2> QED BY <2>1, <2>2, <2>3, ServiceStutters
<1>5. CASE Leave \/ Wait \/ SpuriousWakeup \/ Stop \/ Lookup \/ WriteOk \/ WriteFails
           \/ (\E p \in Pushes : DeviceReplies(p)) \/ UNCHANGED vars
  <2>1. UNCHANGED <<g_push_msg_cnt, push_msg_queue_, cur, wait_finish_msg_queue_, completed>>
    BY <1>5 DEF Leave, Wait, SpuriousWakeup, Stop, Lookup, WriteOk, WriteFails,
                DeviceReplies, vars, queueVars, ctVars
  <2>2. HandledCount' = HandledCount /\ RefusedSet' = RefusedSet
    BY <2>1 DEF HandledCount, RefusedSet
  <2> QED BY <2>1, <2>2, ServiceStutters
<1>6. CASE \E p \in Pushes : FinishPushMsg(p)
  BY <1>6, ServiceAnswers DEF Service!Next, Service!Pushes, Pushes
<1> QED BY <1>1, <1>2, <1>3, <1>4, <1>5, <1>6 DEF Next, PushThread

\* Three threads, two queues and a map serve the HTTP server as PushService
\* says, for any number of requests and replies: in order, a refused request
\* completed exactly once, a delivered one at most as often as replies with its
\* number came (PushMsgQueue::Entry, FinishPushMsg, HandleMsg).
THEOREM RelayImplementsService == LTSpec => ImplementsPushService
<1>1. Init => Service!Init
  <2> SUFFICES ASSUME Init PROVE Service!Init
    OBVIOUS
  <2>1. HandledCount = 0
    <3>1. Len(push_msg_queue_) = 0 /\ g_push_msg_cnt = 0 /\ cur = NoPush
      BY DEF Init
    <3> QED BY <3>1 DEF HandledCount, NoPush
  <2>2. /\ g_push_msg_cnt = 0 /\ completed = [p \in Pushes |-> 0]
        /\ RefusedSet = {}
    BY DEF Init, RefusedSet
  <2> QED BY <2>1, <2>2 DEF Service!Init, HandledCount, RefusedSet, Service!Pushes, Pushes
<1> QED
  BY <1>1, RelayInvariant, ServiceStep, TransportImplementsRelay, PTL
     DEF ImplementsPushService, Service!Spec, Spec

-----------------------------------------------------------------------------
(* The transport's own variables.                                           *)

LEMMA TransportTypesNext == TransportTypes /\ [LTNext]_allVars => TransportTypes'
<1> SUFFICES ASSUME TransportTypes, [LTNext]_allVars PROVE TransportTypes'
  OBVIOUS
<1> USE DEF TransportTypes
<1>1. CASE UNCHANGED allVars
  BY <1>1 DEF allVars, ltVars, connVars, readVars
<1>2. CASE Main \/ PushThreadElse \/ RelayEnvironment
  BY <1>2 DEF Main, CreateQueue, StartQueue, PushThreadElse, RelayEnvironment, ltVars,
              connVars, readVars
<1>3. ASSUME NEW m, Handles(m), alive' \in BOOLEAN PROVE TransportTypes'
  <2>1. /\ vec_str # <<>> /\ vec_str' = Tail(vec_str)
        /\ reader' = IF vec_str' = <<>> THEN NoConn ELSE reader
        /\ UNCHANGED <<mpc, open, conns>>
    BY <1>3 DEF Handles, connVars
  <2>2. vec_str' \in Seq(Messages)
    BY <2>1
  <2>3. reader' \in Conns \cup {NoConn} /\ (vec_str' # <<>> => reader' \in open')
    BY <2>1
  <2> QED BY <2>1, <2>2, <2>3, <1>3
<1>4. CASE Transport
  <2>1. alive' \in BOOLEAN
    BY <1>4, Zenon DEF Transport, HandlePush, HandlePushTooEarly, HandleNoPush
  <2> QED BY <1>3, <1>4, <2>1 DEF Transport, HandlePush, HandlePushTooEarly, HandleNoPush
<1>5. CASE FinishAndRespond \/ \E p \in Pushes : FinishPushMsgAndRespond(p)
  <2>1. UNCHANGED <<mpc, open, conns, reader, vec_str>>
    BY <1>5 DEF FinishAndRespond, FinishPushMsgAndRespond, connVars, readVars
  <2>2. alive' \in BOOLEAN
    BY <1>5, Zenon DEF FinishAndRespond, FinishPushMsgAndRespond
  <2> QED BY <2>1, <2>2
<1>6. CASE AcceptCb
  BY <1>6 DEF AcceptCb, Idle, readVars, Conns
<1>7. ASSUME NEW c \in Conns, ErrorCb(c) PROVE TransportTypes'
  BY <1>7 DEF ErrorCb, Idle, readVars
<1>8. ASSUME NEW c \in Conns, ReadCb(c) PROVE TransportTypes'
  <2>1. PICK n \in 1 .. MaxMessages : vec_str' \in [1 .. n -> Messages]
    BY <1>8 DEF ReadCb
  <2>2. vec_str' \in Seq(Messages)
    BY <2>1
  <2> QED BY <2>2, <1>8 DEF ReadCb, connVars
<1> QED
  BY <1>1, <1>2, <1>4, <1>5, <1>6, <1>7, <1>8 DEF LTNext, Relay

\* The composition of relay and transport stays well typed, and a callback that
\* has messages left keeps its connection.
THEOREM LTTypeCorrect == LTSpec => []LTTypeOK
<1>1. LTInit => TransportTypes
  <2> SUFFICES ASSUME LTInit PROVE TransportTypes
    OBVIOUS
  <2>1. alive \in BOOLEAN
    BY Zenon DEF LTInit
  <2> QED BY <2>1 DEF LTInit, TransportTypes
<1>2. LTSpec => []TransportTypes
  BY <1>1, TransportTypesNext, PTL DEF LTSpec
<1>3. RelayInv /\ TransportTypes => LTTypeOK
  BY DEF RelayInv, TransportTypes, LTTypeOK
<1> QED BY <1>2, <1>3, TransportImplementsRelay, RelayInvariant, PTL
=============================================================================
