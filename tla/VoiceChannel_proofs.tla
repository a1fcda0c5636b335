------------------------- MODULE VoiceChannel_proofs -------------------------
(***************************************************************************)
(* Proofs about the voice server's dispatcher, its channel maps and its    *)
(* push timer, for any numbers of pushes, connections, descriptors, ids    *)
(* and channel requests, any timeouts and any bound on the clock.          *)
(*                                                                         *)
(* The timer comes first, by itself: the maps agree, a push is answered    *)
(* once, never too early, and the timer thread never sleeps past a         *)
(* deadline.  The channels and the dispatcher add who owns a bufferevent   *)
(* and a descriptor.                                                       *)
(***************************************************************************)
EXTENDS VoiceChannel, SequenceTheorems, TLAPS

\* Numbers that were not given yet are nowhere.
Numbered ==
    \A p \in Mids : p > g_push_msg_mid => p \notin events_ /\ p # due /\ answered[p] = 0

\* The thread has a push in hand exactly while it completes it, and took it
\* because of a reading of the clock.
InHand ==
    /\ tpc = "complete" <=> due # NoMid
    /\ now <= clock
    /\ due # NoMid => when[due] <= now

\* The inductive invariant.
TimerInv == TypeOK /\ MapsAgree /\ Numbered /\ InHand /\ AnsweredOnce /\ NeverOversleeps

-----------------------------------------------------------------------------
\* The initial state satisfies the invariant.
LEMMA InitInv == Init => TimerInv
<1> SUFFICES ASSUME Init
             PROVE  TimerInv
  OBVIOUS
<1> USE DEF Init
<1>1. TypeOK
  <2>1. when \in [Mids -> Nat] /\ answered \in [Mids -> Nat]
    OBVIOUS
  <2>2. clock \in 0 .. MaxTime /\ now \in 0 .. MaxTime /\ g_push_msg_mid \in 0 .. MaxPush
    BY TimerAssumption
  <2> QED
    BY <2>1, <2>2 DEF TypeOK
<1>2. MapsAgree
  BY DEF MapsAgree
<1>3. Numbered
  BY TimerAssumption DEF Numbered, Mids, NoMid
<1>4. InHand
  BY DEF InHand
<1>5. AnsweredOnce
  BY TimerAssumption DEF AnsweredOnce, Mids, NoMid
<1>6. NeverOversleeps
  BY DEF NeverOversleeps
<1> QED
  BY <1>1, <1>2, <1>3, <1>4, <1>5, <1>6 DEF TimerInv

\* A new push gets a number that is in neither map, and the thread is woken
\* where it would sleep too long.
LEMMA AddInv == TimerInv /\ AddEventAfter => TimerInv'
<1> SUFFICES ASSUME TimerInv, AddEventAfter
             PROVE  TimerInv'
  OBVIOUS
<1> DEFINE p == g_push_msg_mid + 1
<1>1. PICK seconds \in Timeouts : AddEventAt(p, clock + seconds)
  BY DEF AddEventAfter
<1> DEFINE w == clock + seconds
<1>2. p \in Mids /\ p \in Nat /\ w \in Nat /\ g_push_msg_mid' = p
  BY TimerAssumption DEF AddEventAfter, TimerInv, TypeOK, Mids
<1>3. p \notin events_ /\ p \notin schedule_ /\ p # due /\ answered[p] = 0
  BY <1>2 DEF TimerInv, Numbered, MapsAgree, TypeOK
<1>4. /\ schedule_' = schedule_ \cup {p}
      /\ events_' = events_ \cup {p}
      /\ when' = [when EXCEPT ![p] = w]
      /\ UNCHANGED <<clock, stop_, now, due, until, answered>>
  BY <1>1 DEF AddEventAt, AddEventAfter
<1>5. /\ tpc' \in {tpc, "top"}
      /\ tpc' # tpc => tpc \in {"wait", "timed"}
      /\ tpc' \in {"wait", "timed"} => \E q \in schedule_ : when[q] <= w
  <2>1. CASE \A q \in schedule_ : w < when[q]
    BY <1>1, <2>1 DEF AddEventAt, Signal
  <2>2. CASE ~ \A q \in schedule_ : w < when[q]
    BY <1>1, <1>2, <2>2 DEF AddEventAt, TimerInv, TypeOK
  <2> QED
    BY <2>1, <2>2
<1> HIDE DEF p, w
<1>6. TypeOK'
  BY <1>2, <1>4, <1>5 DEF TimerInv, TypeOK, Mids, AddEventAfter
<1>7. MapsAgree'
  BY <1>3, <1>4 DEF TimerInv, MapsAgree
<1>8. Numbered'
  BY <1>2, <1>4 DEF TimerInv, TypeOK, Numbered, Mids, p
<1>9. InHand'
  BY <1>2, <1>3, <1>4, <1>5 DEF TimerInv, TypeOK, InHand
<1>10. AnsweredOnce'
  BY <1>2, <1>3, <1>4 DEF TimerInv, TypeOK, AnsweredOnce
<1>11. NeverOversleeps'
  BY <1>2, <1>3, <1>4, <1>5 DEF TimerInv, TypeOK, NeverOversleeps
<1> QED
  BY <1>6, <1>7, <1>8, <1>9, <1>10, <1>11 DEF TimerInv

\* A reply takes its push out of both maps and answers it.
LEMMA CancelInv ==
    ASSUME NEW p \in Mids, TimerInv, GetAndCancelEvent(p)
    PROVE  TimerInv'
<1> USE DEF GetAndCancelEvent, CancelEventUnlocked, threadVars, TimerInv
<1>1. answered[p] = 0 /\ p # due
  BY DEF AnsweredOnce, TypeOK, MapsAgree
<1>2. TypeOK'
  BY DEF TypeOK
<1>3. MapsAgree'
  BY DEF MapsAgree
<1>4. Numbered'
  BY DEF Numbered, TypeOK
<1>5. InHand'
  BY DEF InHand
<1>6. AnsweredOnce'
  BY <1>1 DEF AnsweredOnce, TypeOK
<1>7. NeverOversleeps'
  BY DEF NeverOversleeps, TypeOK
<1> QED
  BY <1>2, <1>3, <1>4, <1>5, <1>6, <1>7

\* The timer thread takes a push that is due.
LEMMA TakeDueInv == TimerInv /\ TakeDue => TimerInv'
<1> SUFFICES ASSUME TimerInv, TakeDue
             PROVE  TimerInv'
  OBVIOUS
<1> USE DEF TimerInv
<1>1. /\ due' \in Mids /\ due' \in schedule_ /\ due' # NoMid /\ due = NoMid
      /\ due' \in events_ /\ answered[due'] = 0
  BY DEF TakeDue, IsFirst, InHand, MapsAgree, AnsweredOnce, TypeOK, Mids, NoMid
<1>2. when[due'] <= now
  <2>1. PICK q \in Mids : IsFirst(q) /\ when[q] <= now
    BY DEF TakeDue, FirstIsDue
  <2> QED
    BY <1>1, <2>1 DEF TakeDue, IsFirst, TypeOK, Mids
<1>3. TypeOK'
  BY <1>1 DEF TakeDue, TypeOK
<1>4. MapsAgree'
  BY DEF TakeDue, MapsAgree
<1>5. Numbered'
  BY <1>1 DEF TakeDue, Numbered, TypeOK
<1>6. InHand'
  BY <1>1, <1>2 DEF TakeDue, InHand
<1>7. AnsweredOnce'
  BY <1>1 DEF TakeDue, AnsweredOnce, TypeOK
<1>8. NeverOversleeps'
  BY DEF TakeDue, NeverOversleeps
<1> QED
  BY <1>3, <1>4, <1>5, <1>6, <1>7, <1>8

\* ... and completes it without the mutex.
LEMMA CompleteInv == TimerInv /\ Complete => TimerInv'
<1> SUFFICES ASSUME TimerInv, Complete
             PROVE  TimerInv'
  OBVIOUS
<1> USE DEF TimerInv, queueVars, Complete
<1>1. due \in Mids /\ due \notin events_ /\ answered[due] = 0
  BY DEF InHand, TypeOK, MapsAgree, AnsweredOnce
<1>2. TypeOK'
  BY <1>1 DEF TypeOK
<1>3. MapsAgree'
  BY DEF MapsAgree, TypeOK, Mids, NoMid
<1>4. Numbered'
  BY <1>1 DEF Numbered, TypeOK, Mids, NoMid
<1>5. InHand'
  BY DEF InHand, TypeOK
<1>6. AnsweredOnce'
  BY <1>1 DEF AnsweredOnce, TypeOK, Mids, NoMid
<1>7. NeverOversleeps'
  BY DEF NeverOversleeps
<1> QED
  BY <1>2, <1>3, <1>4, <1>5, <1>6, <1>7

\* The thread sleeps until the time of the first push, which is the earliest.
LEMMA WaitInv == TimerInv /\ Wait => TimerInv'
<1> SUFFICES ASSUME TimerInv, Wait
             PROVE  TimerInv'
  OBVIOUS
<1> USE DEF TimerInv, queueVars
<1>1. NeverOversleeps'
  BY DEF Wait, IsFirst, NeverOversleeps, TypeOK
<1>2. TypeOK'
  BY DEF Wait, TypeOK
<1> QED
  BY <1>1, <1>2 DEF Wait, MapsAgree, Numbered, InHand, AnsweredOnce

\* The other steps of the thread only move it, to a place where it holds no push
\* and does not sleep.
LEMMA MoveInv ==
    TimerInv /\ (Start \/ Top \/ WaitEnds \/ SpuriousWakeup \/ Leave \/ Shutdown) => TimerInv'
<1> SUFFICES ASSUME TimerInv,
                    Start \/ Top \/ WaitEnds \/ SpuriousWakeup \/ Leave \/ Shutdown
             PROVE  TimerInv'
  OBVIOUS
<1>1. /\ UNCHANGED <<clock, g_push_msg_mid, queueVars, due, until, answered>>
      /\ now' \in {now, clock}
      /\ stop_' \in BOOLEAN
      /\ \/ tpc' = tpc
         \/ tpc # "complete" /\ tpc' \in {"top", "loop", "exit"}
  BY DEF TimerInv, TypeOK, Start, Top, WaitEnds, SpuriousWakeup, Leave, Shutdown, Signal, Goto
<1> USE <1>1 DEF TimerInv, queueVars
<1>2. TypeOK'
  BY DEF TypeOK
<1>3. MapsAgree'
  BY DEF MapsAgree
<1>4. Numbered'
  BY DEF Numbered
<1>5. InHand'
  BY DEF InHand, TypeOK
<1>6. AnsweredOnce'
  BY DEF AnsweredOnce
<1>7. NeverOversleeps'
  BY DEF NeverOversleeps
<1> QED
  BY <1>2, <1>3, <1>4, <1>5, <1>6, <1>7

\* Time passes.
LEMMA TickInv == TimerInv /\ Tick => TimerInv'
  BY TimerAssumption
  DEF TimerInv, Tick, queueVars, threadVars, TypeOK, MapsAgree, Numbered, InHand,
      AnsweredOnce, NeverOversleeps

\* Every step preserves the invariant.
LEMMA StepInv == TimerInv /\ [TimerNext]_timerVars => TimerInv'
<1> SUFFICES ASSUME TimerInv, [TimerNext]_timerVars
             PROVE  TimerInv'
  OBVIOUS
<1>1. CASE UNCHANGED timerVars
  BY <1>1 DEF timerVars, queueVars, threadVars, TimerInv, TypeOK, MapsAgree, Numbered,
              InHand, AnsweredOnce, NeverOversleeps
<1>2. CASE TimerNext
  BY <1>2, AddInv, CancelInv, TakeDueInv, CompleteInv, WaitInv, MoveInv, TickInv
  DEF TimerNext, TimerThread
<1> QED
  BY <1>1, <1>2

-----------------------------------------------------------------------------
\* The invariant holds in every reachable state.
THEOREM Invariance == TimerSpec => []TimerInv
<1>1. QED
  BY InitInv, StepInv, PTL DEF TimerSpec

\* Every variable has its type.
THEOREM TypeCorrect == TimerSpec => []TypeOK
<1>1. TimerInv => TypeOK
  BY DEF TimerInv
<1> QED
  BY Invariance, <1>1, PTL

\* A push is answered by its device's reply or by its timeout and never by
\* both, however PushMsgTimerQueue::Entry's unlocked Complete and the worker's
\* GetAndCancelEvent interleave.
THEOREM AnsweredAtMostOnce == TimerSpec => []AnsweredOnce
<1>1. TimerInv => AnsweredOnce
  BY DEF TimerInv
<1> QED
  BY Invariance, <1>1, PTL

\* The thread never waits past the time of a push, although AddEventAt signals
\* for a new first push only.
THEOREM SleepsNoLongerThanItMay == TimerSpec => []NeverOversleeps
<1>1. TimerInv => NeverOversleeps
  BY DEF TimerInv
<1> QED
  BY Invariance, <1>1, PTL

\* schedule_ and events_ always hold the same pushes, and not the one that the
\* thread completes.
THEOREM MapsAlwaysAgree == TimerSpec => []MapsAgree
<1>1. TimerInv => MapsAgree
  BY DEF TimerInv
<1> QED
  BY Invariance, <1>1, PTL

\* No push times out before its time.
THEOREM NeverTooEarly == TimerSpec => []NotBeforeItsTime
<1>1. TimerInv => NotBeforeItsTime
  BY DEF TimerInv, InHand, NotBeforeItsTime, TypeOK, Mids, NoMid
<1> QED
  BY Invariance, <1>1, PTL

-----------------------------------------------------------------------------
(* The dispatcher and the channels.                                         *)

\* The bounds are numbers.
LEMMA Sizes == MaxConns \in Nat /\ MaxBuilds \in Nat
BY ChannelAssumption, Zenon

USE Sizes

Accepted == 1 .. conns

\* The connections whose bufferevent exists in libevent's state n.
Live(n) == {c \in Accepted : n.bevConn[buffer_event[c]] = c}

Nets == [bevConn : [Bevs -> Conns \cup {NoConn}], fdConn : [Fds -> Conns \cup {NoConn}],
         frees : Nat, ub : BOOLEAN]

\* A bufferevent belongs to the accepted connection it was made for, and the
\* descriptor of a live connection is that connection's.
NetOK(n) ==
    /\ n \in Nets
    /\ \A b \in Bevs : n.bevConn[b] # NoConn =>
          n.bevConn[b] \in Accepted /\ buffer_event[n.bevConn[b]] = b
    /\ \A c \in Live(n) : n.fdConn[cfd[c]] = c

ConnTypes ==
    /\ conns \in 0 .. MaxConns
    /\ cfd \in [Conns -> Fds] /\ buffer_event \in [Conns -> Bevs]

\* The connection whose callback runs is live: its frees are delayed.
NetInv ==
    /\ ConnTypes /\ NetOK(net) /\ net.ub = FALSE
    /\ cb \in Conns \cup {NoConn} /\ (cb # NoConn => cb \in Live(net))

\* Entry e was made by a live connection, of the kind t.
Entry(e, t) ==
    /\ e.by \in Live(net) /\ e.bev = buffer_event[e.by] /\ e.fd = cfd[e.by]
    /\ guid_type[e.by] = t

MapTypes ==
    /\ guid_type \in [Conns -> {"none", "GUID_CLIENT", "GUID_DEV"}]
    /\ client_vc_map_ \in [ClientIds -> ClientVcInfo \cup {None}]
    /\ dev_vc_map_ \in Seq(DevVcInfo)

\* While the protocol is followed, no connection has two entries.
ClientEntries ==
    /\ \A id \in ClientIds :
          client_vc_map_[id] # None => Entry(client_vc_map_[id], "GUID_CLIENT")
    /\ \A i, j \in ClientIds :
          /\ client_vc_map_[i] # None /\ client_vc_map_[j] # None
          /\ client_vc_map_[i].by = client_vc_map_[j].by
          => i = j
DevEntries ==
    /\ \A i \in 1 .. Len(dev_vc_map_) : Entry(dev_vc_map_[i], "GUID_DEV")
    /\ \A i, j \in 1 .. Len(dev_vc_map_) : dev_vc_map_[i].by = dev_vc_map_[j].by => i = j

Settled == net.frees = 0 /\ ClientEntries /\ DevEntries

Entries == disturbed = {} => alive /\ Settled

VcInv == TimerInv /\ NetInv /\ MapTypes /\ Entries

-----------------------------------------------------------------------------
(* libevent.                                                                *)

\* An accepted connection has an address and a descriptor.
LEMMA AcceptedConns ==
    ASSUME ConnTypes, NEW c \in Accepted
    PROVE  c \in Conns /\ c # NoConn /\ buffer_event[c] \in Bevs /\ cfd[c] \in Fds
BY DEF ConnTypes, Accepted, Conns, NoConn

\* Freeing the bufferevent of a live connection ends that connection only.
LEMMA DestroyedIs ==
    ASSUME ConnTypes, NEW n, NetOK(n), NEW c \in Live(n)
    PROVE  /\ NetOK(Destroyed(n, buffer_event[c]))
           /\ \A d : d \in Live(Destroyed(n, buffer_event[c])) <=> d \in Live(n) /\ d # c
           /\ Destroyed(n, buffer_event[c]).frees = n.frees
           /\ Destroyed(n, buffer_event[c]).ub = n.ub
<1> DEFINE b == buffer_event[c]
           m == Destroyed(n, b)
<1>1. c \in Accepted /\ b \in Bevs /\ cfd[c] \in Fds /\ n.bevConn[b] = c /\ c # NoConn
  BY AcceptedConns DEF Live
<1>2. /\ n \in Nets /\ n.bevConn \in [Bevs -> Conns \cup {NoConn}]
      /\ n.fdConn \in [Fds -> Conns \cup {NoConn}] /\ n.frees \in Nat
  BY DEF NetOK, Nets
<1>3. m = [n EXCEPT !.fdConn = [n.fdConn EXCEPT ![cfd[c]] = NoConn],
                    !.bevConn = [n.bevConn EXCEPT ![b] = NoConn]]
  BY <1>1, <1>2 DEF Destroyed, Nets
<1>4. /\ m.bevConn = [n.bevConn EXCEPT ![b] = NoConn]
      /\ m.fdConn = [n.fdConn EXCEPT ![cfd[c]] = NoConn]
      /\ m.frees = n.frees /\ m.ub = n.ub
  BY <1>2, <1>3 DEF Nets
<1>5. m \in Nets
  <2>1. /\ [n.bevConn EXCEPT ![b] = NoConn] \in [Bevs -> Conns \cup {NoConn}]
        /\ [n.fdConn EXCEPT ![cfd[c]] = NoConn] \in [Fds -> Conns \cup {NoConn}]
    BY <1>2
  <2> QED  BY <1>2, <1>3, <2>1, Zenon DEF Nets
<1> HIDE DEF m, b
<1>6. \A d \in Accepted : buffer_event[d] \in Bevs /\ d # NoConn /\ cfd[d] \in Fds
  BY AcceptedConns
<1>7. /\ \A a \in Bevs : m.bevConn[a] = IF a = b THEN NoConn ELSE n.bevConn[a]
      /\ \A f \in Fds : m.fdConn[f] = IF f = cfd[c] THEN NoConn ELSE n.fdConn[f]
  BY <1>1, <1>2, <1>4
<1>8. \A d : d \in Live(m) <=> d \in Live(n) /\ d # c
  BY <1>1, <1>6, <1>7 DEF Live, b
<1>9. NetOK(m)
  <2>1. \A a \in Bevs : m.bevConn[a] # NoConn =>
            m.bevConn[a] \in Accepted /\ buffer_event[m.bevConn[a]] = a
    BY <1>7 DEF NetOK
  <2>2. \A d \in Live(m) : m.fdConn[cfd[d]] = d
    <3> SUFFICES ASSUME NEW d \in Live(m) PROVE m.fdConn[cfd[d]] = d
      OBVIOUS
    <3>1. d \in Live(n) /\ d # c /\ d \in Accepted
      BY <1>8 DEF Live
    <3>2. n.fdConn[cfd[d]] = d /\ n.fdConn[cfd[c]] = c
      BY <3>1 DEF NetOK
    <3> QED  BY <3>1, <3>2, <1>6, <1>7
  <2> QED  BY <2>1, <2>2, <1>5 DEF NetOK
<1> QED  BY <1>4, <1>8, <1>9 DEF m, b

\* A change of the counters only.
LEMMA SameNet ==
    ASSUME NEW n, NEW m, NetOK(n), m \in Nets,
           m.bevConn = n.bevConn, m.fdConn = n.fdConn
    PROVE  NetOK(m) /\ Live(m) = Live(n)
BY DEF NetOK, Live

\* bufferevent_free, whatever is at the address.
LEMMA FreeIs ==
    ASSUME ConnTypes, NEW n, NetOK(n), NEW b \in Bevs, cb # NoConn
    PROVE  /\ NetOK(Free(n, b)) /\ Live(Free(n, b)) \subseteq Live(n)
           /\ cb \in Live(n) => cb \in Live(Free(n, b))
<1>1. /\ n \in Nets /\ n.frees \in Nat /\ n.bevConn[b] \in Conns \cup {NoConn}
      /\ n.bevConn[b] # NoConn =>
            n.bevConn[b] \in Accepted /\ buffer_event[n.bevConn[b]] = b
  BY DEF NetOK, Nets
<1>2. CASE n.bevConn[b] = NoConn
  <2> DEFINE m == [n EXCEPT !.ub = TRUE]
  <2>1. m \in Nets
    BY <1>1, Zenon DEF Nets
  <2>2. m.bevConn = n.bevConn /\ m.fdConn = n.fdConn
    BY <1>1, Zenon DEF Nets
  <2>3. Free(n, b) = m
    BY <1>2, Zenon DEF Free
  <2> HIDE DEF m
  <2> QED  BY <2>1, <2>2, <2>3, SameNet
<1>3. CASE n.bevConn[b] # NoConn /\ n.bevConn[b] = cb
  <2> DEFINE m == [n EXCEPT !.frees = @ + 1, !.ub = @ \/ n.frees > 0]
  <2>1. m \in Nets
    <3>1. n.frees + 1 \in Nat
      BY <1>1
    <3>2. (n.ub \/ n.frees > 0) \in BOOLEAN
      BY Zenon
    <3> QED  BY <1>1, <3>1, <3>2, Zenon DEF Nets
  <2>2. m.bevConn = n.bevConn /\ m.fdConn = n.fdConn
    BY <1>1 DEF Nets
  <2>3. Free(n, b) = m
    BY <1>3 DEF Free
  <2> HIDE DEF m
  <2> QED  BY <2>1, <2>2, <2>3, SameNet
<1>4. CASE n.bevConn[b] # NoConn /\ n.bevConn[b] # cb
  <2>1. n.bevConn[b] \in Live(n) /\ Free(n, b) = Destroyed(n, buffer_event[n.bevConn[b]])
    BY <1>1, <1>4 DEF Live, Free
  <2> QED  BY <2>1, <1>4, DestroyedIs
<1> QED  BY <1>2, <1>3, <1>4

\* ... of at most one peer.
LEMMA FreeAllIs ==
    ASSUME ConnTypes, NEW n, NetOK(n), NEW bevs \in SUBSET Bevs, cb # NoConn
    PROVE  /\ NetOK(FreeAll(n, bevs)) /\ Live(FreeAll(n, bevs)) \subseteq Live(n)
           /\ cb \in Live(n) => cb \in Live(FreeAll(n, bevs))
<1>1. CASE bevs = {}
  BY <1>1 DEF FreeAll
<1>2. CASE bevs # {}
  <2>1. (CHOOSE b \in bevs : TRUE) \in Bevs
    BY <1>2
  <2> QED  BY <2>1, <1>2, FreeIs DEF FreeAll
<1> QED  BY <1>1, <1>2

\* What is left of libevent's state n: the program crashes only where n met
\* undefined behaviour.
LEMMA SurvivesIs ==
    ASSUME NEW n, NetOK(n), Survives(n)
    PROVE  /\ NetOK(net') /\ Live(net') = Live(n) /\ net'.frees = n.frees
           /\ net'.ub = FALSE /\ (~n.ub => alive')
<1>1. n \in Nets /\ net' = [n EXCEPT !.ub = FALSE]
  BY DEF NetOK, Survives
<1>2. net' \in Nets
  BY <1>1, Zenon DEF Nets
<1>3. net'.bevConn = n.bevConn /\ net'.fdConn = n.fdConn /\ net'.frees = n.frees
  BY <1>1, Zenon DEF Nets
<1>4. net'.ub = FALSE
  BY <1>1, Zenon DEF Nets
<1>5. ~n.ub => alive'
  BY Zenon DEF Survives
<1> QED  BY <1>2, <1>3, <1>4, <1>5, SameNet

\* What a step of the worker may do to libevent's state n.
NetStep(n) ==
    /\ NetOK(net') /\ Live(net') \subseteq Live(n) /\ net'.ub = FALSE
    /\ cb' = NoConn \/ (cb' = cb /\ cb \in Live(net'))

\* The callback returns, and its delayed free happens.
LEMMA ReturnIs ==
    ASSUME ConnTypes, NEW n, NetOK(n), cb \in Live(n), Return(cb, n)
    PROVE  /\ NetStep(n) /\ cb' = NoConn
           /\ n.frees = 0 => Live(net') = Live(n)
           /\ n.frees > 0 => \A d : d \in Live(net') <=> d \in Live(n) /\ d # cb
           /\ net'.frees = 0 /\ (~n.ub => alive')
<1>1. n.frees \in Nat
  BY DEF NetOK, Nets
<1>2. CASE n.frees > 0
  <2> DEFINE d == Destroyed(n, buffer_event[cb])
             m == [d EXCEPT !.frees = 0]
  <2>1. NetOK(d) /\ (\A e : e \in Live(d) <=> e \in Live(n) /\ e # cb) /\ d.ub = n.ub
    BY DestroyedIs
  <2>2. Survives(m) /\ cb' = NoConn
    BY <1>2 DEF Return
  <2> HIDE DEF d
  <2>3. d \in Nets
    BY <2>1 DEF NetOK
  <2>4. m \in Nets /\ m.bevConn = d.bevConn /\ m.fdConn = d.fdConn /\ m.frees = 0
    BY <2>3 DEF Nets
  <2>5. m.ub = d.ub
    BY <2>3, Zenon DEF Nets
  <2> HIDE DEF m
  <2>6. NetOK(m) /\ Live(m) = Live(d)
    BY <2>1, <2>4, SameNet
  <2>7. /\ NetOK(net') /\ Live(net') = Live(m) /\ net'.frees = m.frees
        /\ net'.ub = FALSE
    BY <2>2, <2>6, SurvivesIs, Zenon
  <2>8. ~n.ub => alive'
    BY <2>1, <2>2, <2>5, <2>6, SurvivesIs, Zenon
  <2>9. NetStep(n)
    BY <2>1, <2>2, <2>6, <2>7, Zenon DEF NetStep
  <2> QED  BY <2>1, <2>2, <2>4, <2>6, <2>7, <2>8, <2>9, <1>2
<1>3. CASE n.frees = 0
  <2>1. Survives(n) /\ cb' = NoConn
    BY <1>3 DEF Return
  <2>2. /\ NetOK(net') /\ Live(net') = Live(n) /\ net'.frees = n.frees
        /\ net'.ub = FALSE
    BY <2>1, SurvivesIs, Zenon
  <2>3. ~n.ub => alive'
    BY <2>1, SurvivesIs, Zenon
  <2>4. NetStep(n)
    BY <2>1, <2>2, Zenon DEF NetStep
  <2> QED  BY <2>1, <2>2, <2>3, <2>4, <1>3
<1> QED  BY <1>1, <1>2, <1>3

\* The bufferevent of the running callback is freed and the callback returns.
LEMMA CloseIs ==
    ASSUME ConnTypes, NEW n, NetOK(n), cb # NoConn, cb \in Live(n), CloseErrorConn(cb, n)
    PROVE  /\ NetStep(n) /\ cb' = NoConn /\ net'.frees = 0
           /\ \A d : d \in Live(net') <=> d \in Live(n) /\ d # cb
           /\ ~n.ub /\ n.frees = 0 => alive'
<1> DEFINE b == buffer_event[cb]
           m == Free(n, b)
<1>1. b \in Bevs /\ n.bevConn[b] = cb /\ n \in Nets /\ n.frees \in Nat
  BY AcceptedConns DEF Live, NetOK, Nets
<1>2. m = [n EXCEPT !.frees = @ + 1, !.ub = @ \/ n.frees > 0]
  BY <1>1 DEF Free
<1>3. m.bevConn = n.bevConn /\ m.frees = n.frees + 1
  BY <1>1, <1>2 DEF Nets
<1>4. m.ub = (n.ub \/ n.frees > 0)
  BY <1>1, <1>2, Zenon DEF Nets
<1>5. NetOK(m) /\ Return(cb, m)
  BY <1>1, FreeIs DEF CloseErrorConn
<1>6. ~n.ub /\ n.frees = 0 => ~m.ub
  <2>1. n.frees = 0 => ~(n.frees > 0)
    OBVIOUS
  <2> QED  BY <2>1, <1>4, Zenon
<1> HIDE DEF m
<1>7. Live(m) = Live(n)
  BY <1>3 DEF Live
<1>8. /\ NetStep(m) /\ cb' = NoConn /\ net'.frees = 0
      /\ m.frees > 0 => \A d : d \in Live(net') <=> d \in Live(m) /\ d # cb
  BY <1>5, <1>7, ReturnIs, Zenon
<1>9. ~m.ub => alive'
  BY <1>5, <1>7, ReturnIs, Zenon
<1>10. m.frees > 0
  BY <1>1, <1>3
<1>11. NetStep(n)
  BY <1>7, <1>8, Zenon DEF NetStep
<1> QED  BY <1>6, <1>7, <1>8, <1>9, <1>10, <1>11, Zenon

\* A handler answers, or its connection is closed.
LEMMA RespondIs ==
    ASSUME ConnTypes, NEW n, NetOK(n), cb # NoConn, cb \in Live(n), NEW k, RespondOrClose(n, k)
    PROVE  NetStep(n)
<1>1. CASE Continue(n)
  BY <1>1, SurvivesIs DEF Continue, NetStep
<1>2. CASE CloseErrorConn(cb, n)
  BY <1>2, CloseIs
<1> QED  BY <1>1, <1>2 DEF RespondOrClose

\* Such a step keeps the invariant of libevent's state.
LEMMA NetStepInv ==
    ASSUME NetInv, NEW n, Live(n) \subseteq Live(net), NetStep(n), UNCHANGED connVars
    PROVE  NetInv' /\ Live(net)' \subseteq Live(net)
<1>1. /\ NetOK(net') /\ Live(net') \subseteq Live(net) /\ net'.ub = FALSE
      /\ cb' = NoConn \/ (cb' = cb /\ cb \in Live(net'))
  BY Zenon DEF NetStep
<1>2. Live(net)' = Live(net')
  BY DEF Live, Accepted, connVars
<1>3. NetOK(net)'
  BY <1>1, <1>2 DEF NetOK, Accepted, connVars
<1>4. ConnTypes' /\ cb' \in Conns \cup {NoConn} /\ (cb' # NoConn => cb' \in Live(net)')
  BY <1>1, <1>2 DEF NetInv, ConnTypes, connVars
<1> QED  BY <1>1, <1>2, <1>3, <1>4, Zenon DEF NetInv

\* The model's test for an open connection.
LEMMA OpenIsLive ==
    ASSUME NetInv, NEW c \in Conns
    PROVE  IsOpen(c) <=> c \in Live(net)
<1>1. c # NoConn /\ ConnTypes /\ NetOK(net)
  BY DEF Conns, NoConn, NetInv
<1>2. ASSUME IsOpen(c) PROVE c \in Live(net)
  BY <1>1, <1>2 DEF IsOpen, NetOK, Live
<1>3. ASSUME c \in Live(net) PROVE IsOpen(c)
  BY <1>1, <1>3 DEF IsOpen, Live, ConnTypes
<1> QED  BY <1>2, <1>3

\* The addresses that a FreeVc or a repeated channel frees.
LEMMA PeersAreBevs ==
    ASSUME MapTypes, NEW client_id \in ClientIds, NEW dev_id \in DevIds
    PROVE  /\ PeerOfClient(client_id, dev_id) \in SUBSET Bevs
           /\ PeerOfDev(dev_id, client_id) \in SUBSET Bevs
<1>1. \A i \in 1 .. Len(dev_vc_map_) : dev_vc_map_[i].bev \in Bevs
  <2>1. \A i \in 1 .. Len(dev_vc_map_) : dev_vc_map_[i] \in DevVcInfo
    BY DEF MapTypes
  <2>2. \A e \in DevVcInfo : e.bev \in Bevs
    BY DEF DevVcInfo
  <2> QED  BY <2>1, <2>2
<1>2. client_vc_map_[client_id] # None => client_vc_map_[client_id].bev \in Bevs
  BY DEF MapTypes, ClientVcInfo
<1> QED  BY <1>1, <1>2 DEF PeerOfClient, DevEntry, PeerOfDev, HasClient

\* A handler that frees, then answers or closes.
LEMMA FreedNet ==
    ASSUME NetInv, cb # NoConn, NEW bevs \in SUBSET Bevs
    PROVE  /\ ConnTypes /\ NetOK(FreeAll(net, bevs)) /\ cb \in Live(FreeAll(net, bevs))
           /\ Live(FreeAll(net, bevs)) \subseteq Live(net)
BY FreeAllIs DEF NetInv

\* The handlers and callbacks keep the invariant of libevent's state.
LEMMA BuildClientNet ==
    ASSUME NetInv, HandleClientBuildVc
    PROVE  NetInv' /\ Live(net)' \subseteq Live(net)
<1>1. cb # NoConn /\ cb \in Live(net) /\ ConnTypes /\ NetOK(net) /\ UNCHANGED connVars
  BY DEF HandleClientBuildVc, Handling, NetInv
<1>2. PICK client_id \in ClientIds, dev_id \in DevIds : \E k :
        RespondOrClose(ConnectByClientNet(client_id,
            [bev |-> buffer_event[cb], fd |-> cfd[cb], dev_id |-> dev_id, by |-> cb]), k)
  BY DEF HandleClientBuildVc
<1> DEFINE info == [bev |-> buffer_event[cb], fd |-> cfd[cb], dev_id |-> dev_id, by |-> cb]
           n == ConnectByClientNet(client_id, info)
<1>3. info.bev = buffer_event[cb] /\ buffer_event[cb] \in Bevs
  BY <1>1, AcceptedConns DEF Live
<1>4. PICK k : RespondOrClose(n, k)
  BY <1>2
<1> HIDE DEF info
<1>5. NetOK(n) /\ cb \in Live(n) /\ Live(n) \subseteq Live(net)
  BY <1>1, <1>3, FreeIs DEF ConnectByClientNet
<1> HIDE DEF n
<1> QED  BY <1>1, <1>4, <1>5, RespondIs, NetStepInv

\* A device's channel ...
LEMMA BuildDevNet ==
    ASSUME NetInv, MapTypes, HandleDevBuildVc
    PROVE  NetInv' /\ Live(net)' \subseteq Live(net)
<1>1. cb # NoConn /\ UNCHANGED connVars
  BY DEF HandleDevBuildVc, Handling
<1>2. PICK client_id \in ClientIds, dev_id \in DevIds : \E k :
        RespondOrClose(ConnectByDevNet(dev_id,
            [bev |-> buffer_event[cb], fd |-> cfd[cb], dev_id |-> dev_id,
             client_id |-> client_id, by |-> cb]), k)
  BY DEF HandleDevBuildVc
<1>3. PICK k : RespondOrClose(FreeAll(net, PeerOfClient(client_id, dev_id)), k)
  BY <1>2 DEF ConnectByDevNet
<1> QED  BY <1>1, <1>3, PeersAreBevs, FreedNet, RespondIs, NetStepInv

\* ... the end of a channel ...
LEMMA FreeVcNet ==
    ASSUME NetInv, MapTypes, HandleClientFreeVc \/ HandleDevFreeVc
    PROVE  NetInv' /\ Live(net)' \subseteq Live(net)
<1>1. cb # NoConn /\ UNCHANGED connVars
  BY DEF HandleClientFreeVc, HandleDevFreeVc, Handling
<1>2. PICK bevs \in SUBSET Bevs : CloseErrorConn(cb, FreeAll(net, bevs))
  BY PeersAreBevs
     DEF HandleClientFreeVc, HandleDevFreeVc, DisconnectByClientNet, DisconnectByDevNet
<1>3. NetStep(FreeAll(net, bevs))
  BY <1>1, <1>2, FreedNet, CloseIs
<1> QED  BY <1>1, <1>3, FreedNet, NetStepInv

\* A new connection gets a free address and a free descriptor.
LEMMA AcceptNet ==
    ASSUME NetInv, Accept
    PROVE  /\ NetInv' /\ conns' = conns + 1 /\ conns' \in Conns /\ net'.frees = net.frees
           /\ \A c \in Accepted : /\ cfd'[c] = cfd[c] /\ buffer_event'[c] = buffer_event[c]
                                  /\ c \in Live(net)' <=> c \in Live(net)
<1>1. PICK f \in Fds, b \in Bevs :
        /\ net.fdConn[f] = NoConn /\ net.bevConn[b] = NoConn
        /\ net' = [net EXCEPT !.fdConn[f] = conns', !.bevConn[b] = conns']
        /\ cfd' = [cfd EXCEPT ![conns'] = f]
        /\ buffer_event' = [buffer_event EXCEPT ![conns'] = b]
  BY DEF Accept
<1> DEFINE new == conns'
<1>2. /\ conns \in Nat /\ new = conns + 1 /\ new \in Conns /\ new # NoConn
      /\ cb = NoConn /\ cb' = NoConn
      /\ cfd \in [Conns -> Fds] /\ buffer_event \in [Conns -> Bevs]
      /\ conns' \in 0 .. MaxConns
  BY DEF Accept, NetInv, ConnTypes, Conns, NoConn
<1>3. /\ net \in Nets /\ net.bevConn \in [Bevs -> Conns \cup {NoConn}]
      /\ net.fdConn \in [Fds -> Conns \cup {NoConn}] /\ net.frees \in Nat
  BY DEF NetInv, NetOK, Nets
<1>4. net' = [net EXCEPT !.fdConn = [net.fdConn EXCEPT ![f] = new],
                         !.bevConn = [net.bevConn EXCEPT ![b] = new]]
  BY <1>1, <1>3 DEF Nets
<1>5. /\ net'.bevConn = [net.bevConn EXCEPT ![b] = new]
      /\ net'.fdConn = [net.fdConn EXCEPT ![f] = new] /\ net'.frees = net.frees
  BY <1>3, <1>4 DEF Nets
<1>6. net'.ub = FALSE
  BY <1>3, <1>4, Zenon DEF Nets, NetInv
<1>7. net' \in Nets
  <2>1. /\ [net.bevConn EXCEPT ![b] = new] \in [Bevs -> Conns \cup {NoConn}]
        /\ [net.fdConn EXCEPT ![f] = new] \in [Fds -> Conns \cup {NoConn}]
    BY <1>2, <1>3
  <2> QED  BY <1>3, <1>4, <2>1, Zenon DEF Nets
<1> HIDE DEF new
<1>8. ConnTypes'
  BY <1>1, <1>2 DEF ConnTypes, new
<1>9. /\ \A a \in Bevs : net'.bevConn[a] = IF a = b THEN new ELSE net.bevConn[a]
      /\ \A g \in Fds : net'.fdConn[g] = IF g = f THEN new ELSE net.fdConn[g]
      /\ \A c \in Conns : /\ cfd'[c] = IF c = new THEN f ELSE cfd[c]
                          /\ buffer_event'[c] = IF c = new THEN b ELSE buffer_event[c]
  BY <1>1, <1>2, <1>3, <1>5 DEF new
<1>10. /\ \A c : c \in Accepted' <=> c \in Accepted \/ c = new
       /\ \A c \in Accepted : c # new /\ c \in Conns /\ c # NoConn
                              /\ buffer_event[c] \in Bevs /\ cfd[c] \in Fds
  BY <1>2, AcceptedConns DEF Accepted, new, NetInv, Conns
<1>11. \A c : c \in Live(net)' <=> c \in Live(net) \/ c = new
  <2>1. \A c : c \in Live(net)' <=> c \in Accepted' /\ net'.bevConn[buffer_event'[c]] = c
    BY DEF Live
  <2>2. net'.bevConn[buffer_event'[new]] = new
    BY <1>2, <1>9
  <2>3. \A c \in Accepted : net'.bevConn[buffer_event'[c]] = c <=> net.bevConn[buffer_event[c]] = c
    BY <1>1, <1>9, <1>10
  <2> QED  BY <2>1, <2>2, <2>3, <1>10 DEF Live
<1>12. NetOK(net)'
  <2>1. ASSUME NEW a \in Bevs, net'.bevConn[a] # NoConn
        PROVE  net'.bevConn[a] \in Accepted' /\ buffer_event'[net'.bevConn[a]] = a
    <3>1. CASE a = b
      BY <3>1, <1>2, <1>9, <1>10
    <3>2. CASE a # b
      <4>1. /\ net'.bevConn[a] = net.bevConn[a] /\ net.bevConn[a] \in Accepted
            /\ buffer_event[net.bevConn[a]] = a
        BY <2>1, <3>2, <1>9 DEF NetInv, NetOK
      <4> QED  BY <4>1, <1>9, <1>10
    <3> QED  BY <3>1, <3>2
  <2>2. \A c \in Live(net)' : net'.fdConn[cfd'[c]] = c
    <3> SUFFICES ASSUME NEW c \in Live(net)' PROVE net'.fdConn[cfd'[c]] = c
      OBVIOUS
    <3>1. CASE c = new
      BY <3>1, <1>2, <1>9
    <3>2. CASE c # new
      <4>1. c \in Live(net) /\ c \in Accepted /\ net.fdConn[cfd[c]] = c
        BY <3>2, <1>11 DEF Live, NetInv, NetOK
      <4> QED  BY <4>1, <3>2, <1>1, <1>9, <1>10
    <3> QED  BY <3>1, <3>2
  <2> QED  BY <2>1, <2>2, <1>7 DEF NetOK
<1>13. NetInv'
  BY <1>2, <1>6, <1>8, <1>12, Zenon DEF NetInv
<1> QED  BY <1>2, <1>5, <1>9, <1>10, <1>11, <1>13 DEF new

\* ... and everything else.
LEMMA OtherNet ==
    ASSUME NetInv, \/ HandleNoChange \/ HandleClientSendVoice \/ HandleOnPushStartSend
                   \/ ReadCbReturns \/ TimerStep
                   \/ \E c \in Conns : ReadCb(c) \/ ClientTcpErrorCb(c)
    PROVE  NetInv' /\ Live(net)' \subseteq Live(net) /\ UNCHANGED connVars
<1>1. ConnTypes /\ NetOK(net) /\ (cb # NoConn => cb \in Live(net))
  BY DEF NetInv
<1>2. CASE HandleNoChange
  BY <1>1, <1>2, RespondIs, NetStepInv DEF HandleNoChange, Handling
<1>3. CASE HandleClientSendVoice
  <2>1. cb # NoConn /\ UNCHANGED connVars /\ (Continue(net) \/ RespondOrClose(net, {}))
    BY <1>3 DEF HandleClientSendVoice, Handling, ForwardMsgToDev, ForwardFails
  <2>2. CASE Continue(net)
    <3>1. NetStep(net)
      BY <1>1, <2>1, <2>2, SurvivesIs DEF Continue, NetStep
    <3> QED  BY <3>1, <2>1, NetStepInv
  <2>3. CASE RespondOrClose(net, {})
    BY <1>1, <2>1, <2>3, RespondIs, NetStepInv
  <2> QED  BY <2>1, <2>2, <2>3
<1>4. CASE ReadCbReturns
  BY <1>1, <1>4, ReturnIs, NetStepInv DEF ReadCbReturns
<1>5. CASE HandleOnPushStartSend \/ TimerStep
  <2>1. UNCHANGED <<connVars, net, cb>>
    BY <1>5 DEF HandleOnPushStartSend, TimerStep
  <2>2. NetOK(net') /\ Live(net') = Live(net) /\ net'.ub = FALSE
    BY <2>1, <1>1, Zenon DEF NetInv
  <2>3. NetStep(net)
    BY <2>1, <2>2, <1>1, Zenon DEF NetStep
  <2> QED  BY <2>1, <2>3, NetStepInv
<1>6. ASSUME NEW c \in Conns, ReadCb(c)
      PROVE  NetInv' /\ Live(net)' \subseteq Live(net) /\ UNCHANGED connVars
  <2>1. UNCHANGED <<connVars, net>> /\ cb' = c /\ c \in Live(net)
    BY <1>6, OpenIsLive DEF ReadCb
  <2>2. ConnTypes' /\ NetOK(net)' /\ Live(net)' = Live(net)
    BY <2>1, <1>1 DEF ConnTypes, NetOK, Live, Accepted, connVars
  <2>3. net'.ub = FALSE
    BY <2>1, Zenon DEF NetInv
  <2> QED  BY <2>1, <2>2, <2>3, Zenon DEF NetInv
<1>7. ASSUME NEW c \in Conns, ClientTcpErrorCb(c)
      PROVE  NetInv' /\ Live(net)' \subseteq Live(net) /\ UNCHANGED connVars
  <2> DEFINE n == Destroyed(net, buffer_event[c])
  <2>1. UNCHANGED <<connVars, cb>> /\ cb = NoConn /\ c \in Live(net) /\ Survives(n)
    BY <1>7, OpenIsLive DEF ClientTcpErrorCb
  <2>2. NetOK(n) /\ Live(n) \subseteq Live(net)
    BY <2>1, <1>1, DestroyedIs
  <2> HIDE DEF n
  <2>3. NetOK(net') /\ Live(net') = Live(n) /\ net'.ub = FALSE
    BY <2>1, <2>2, SurvivesIs, Zenon
  <2>4. NetStep(n)
    BY <2>1, <2>3, Zenon DEF NetStep
  <2> QED  BY <2>1, <2>2, <2>4, NetStepInv
<1> QED  BY <1>2, <1>3, <1>4, <1>5, <1>6, <1>7
         DEF HandleNoChange, HandleClientSendVoice, ReadCbReturns

\* Every step but Accept leaves the connections alone and ends some at most.
LEMMA NetNext ==
    ASSUME NetInv, MapTypes, [VcNext]_allVars
    PROVE  /\ NetInv'
           /\ Accept \/ (UNCHANGED connVars /\ Live(net)' \subseteq Live(net))
<1>1. CASE UNCHANGED allVars
  <2>1. UNCHANGED <<connVars, net, cb>>
    BY <1>1 DEF allVars
  <2>2. ConnTypes' /\ NetOK(net)' /\ Live(net)' = Live(net)
    BY <2>1 DEF NetInv, ConnTypes, NetOK, Live, Accepted, connVars
  <2>3. net'.ub = FALSE
    BY <2>1, Zenon DEF NetInv
  <2> QED  BY <2>1, <2>2, <2>3, Zenon DEF NetInv
<1>2. CASE Accept
  BY <1>2, AcceptNet
<1>3. CASE HandleClientBuildVc \/ HandleDevBuildVc \/ HandleClientFreeVc \/ HandleDevFreeVc
  <2>1. UNCHANGED connVars
    BY <1>3 DEF HandleClientBuildVc, HandleDevBuildVc, HandleClientFreeVc, HandleDevFreeVc
  <2> QED  BY <1>3, <2>1, BuildClientNet, BuildDevNet, FreeVcNet
<1>4. CASE \/ HandleNoChange \/ HandleClientSendVoice \/ HandleOnPushStartSend
           \/ ReadCbReturns \/ TimerStep
           \/ \E c \in Conns : ReadCb(c) \/ ClientTcpErrorCb(c)
  BY <1>4, OtherNet
<1> QED
  BY <1>1, <1>2, <1>3, <1>4
  DEF VcNext, HandleMsg, HandleClientStartSend, HandleOnPushClientVoice

\* The steps of the program are steps of its timer, or use up a number.
LEMMA TimerNextInv == TimerInv /\ [VcNext]_allVars => TimerInv'
<1> SUFFICES ASSUME TimerInv, [VcNext]_allVars
             PROVE  TimerInv'
  OBVIOUS
<1>1. CASE UNCHANGED timerVars
  BY <1>1, StepInv
<1>2. CASE AddEventAfter \/ (\E p \in Mids : GetAndCancelEvent(p)) \/ Complete
           \/ Tick \/ Start \/ Top \/ TakeDue \/ Wait \/ WaitEnds
  BY <1>2, StepInv DEF TimerNext, TimerThread
<1>3. CASE ForwardFails
  <2>1. /\ g_push_msg_mid' \in 0 .. MaxPush /\ g_push_msg_mid' = g_push_msg_mid + 1
        /\ UNCHANGED <<clock, queueVars, stop_, threadVars, answered>>
    BY <1>3, TimerAssumption DEF ForwardFails, TimerInv, TypeOK
  <2>2. Numbered'
    BY <2>1 DEF TimerInv, Numbered, TypeOK, Mids, queueVars, threadVars
  <2> QED
    BY <2>1, <2>2
    DEF TimerInv, TypeOK, MapsAgree, InHand, AnsweredOnce, NeverOversleeps, queueVars,
        threadVars
<1>4. \/ UNCHANGED timerVars \/ ForwardFails
      \/ AddEventAfter \/ (\E p \in Mids : GetAndCancelEvent(p)) \/ Complete
      \/ Tick \/ Start \/ Top \/ TakeDue \/ Wait \/ WaitEnds
  BY DEF VcNext, HandleMsg, allVars, Accept, ReadCb, ReadCbReturns, ClientTcpErrorCb,
         HandleNoChange, HandleClientBuildVc, HandleDevBuildVc, HandleClientFreeVc,
         HandleDevFreeVc, HandleClientStartSend, HandleClientSendVoice, ForwardMsgToDev,
         HandleOnPushClientVoice, HandleOnPushStartSend, TimerStep
<1> QED
  BY <1>1, <1>2, <1>3, <1>4

-----------------------------------------------------------------------------
(* The maps.                                                                *)

\* Erasing an entry of a multimap.
LEMMA RemoveAtIs ==
    ASSUME NEW S, NEW s \in Seq(S), NEW i \in 1 .. Len(s)
    PROVE  /\ RemoveAt(s, i) \in Seq(S) /\ Len(RemoveAt(s, i)) = Len(s) - 1
           /\ \A j \in 1 .. Len(s) - 1 :
                 RemoveAt(s, i)[j] = IF j < i THEN s[j] ELSE s[j + 1]
<1> DEFINE a == SubSeq(s, 1, i - 1)
           b == SubSeq(s, i + 1, Len(s))
<1>1. Len(s) \in Nat /\ i \in Nat /\ i - 1 \in Nat /\ i >= 1 /\ i <= Len(s)
  OBVIOUS
<1>2. a \in Seq(S) /\ Len(a) = i - 1 /\ \A j \in 1 .. i - 1 : a[j] = s[j]
  BY <1>1
<1>3. b \in Seq(S) /\ Len(b) = Len(s) - i /\ \A j \in 1 .. Len(s) - i : b[j] = s[i + j]
  BY <1>1
<1>4. RemoveAt(s, i) = a \o b
  BY DEF RemoveAt
<1> HIDE DEF a, b
<1>5. a \o b \in Seq(S) /\ Len(a \o b) = Len(s) - 1
  <2>1. a \o b \in Seq(S) /\ Len(a \o b) = Len(a) + Len(b)
    BY <1>2, <1>3, ConcatProperties
  <2> QED  BY <2>1, <1>1, <1>2, <1>3
<1>6. ASSUME NEW j \in 1 .. Len(s) - 1
      PROVE  (a \o b)[j] = IF j < i THEN s[j] ELSE s[j + 1]
  <2>1. CASE j < i
    BY <2>1, <1>1, <1>2, <1>3
  <2>2. CASE ~(j < i)
    <3>1. (a \o b)[j] = b[j - (i - 1)]
      BY <2>2, <1>1, <1>2, <1>3
    <3>2. j - (i - 1) \in 1 .. Len(s) - i /\ i + (j - (i - 1)) = j + 1
      BY <2>2, <1>1
    <3> QED  BY <2>2, <3>1, <3>2, <1>3
  <2> QED  BY <2>1, <2>2
<1> QED  BY <1>4, <1>5, <1>6

\* An entry that is found is in the map.
LEMMA DevEntryIs ==
    ASSUME NEW dev_id, NEW client_id, DevEntry(dev_id, client_id) # {}
    PROVE  \E i \in 1 .. Len(dev_vc_map_) :
              /\ i \in DevEntry(dev_id, client_id)
              /\ (CHOOSE j \in DevEntry(dev_id, client_id) : TRUE) = i
<1>1. (CHOOSE j \in DevEntry(dev_id, client_id) : TRUE) \in DevEntry(dev_id, client_id)
  OBVIOUS
<1> QED  BY <1>1 DEF DevEntry

\* What DisconnectByClient and DisconnectByDev leave: a client's entry may go, and a device's.
LEMMA FreeVcMaps ==
    ASSUME NEW client_id \in ClientIds, NEW dev_id \in DevIds,
           DisconnectByClient(client_id, dev_id) \/ DisconnectByDev(dev_id, client_id)
    PROVE  /\ \/ client_vc_map_' = client_vc_map_ /\ ~HasClient(client_id, dev_id)
              \/ /\ client_vc_map_' = [client_vc_map_ EXCEPT ![client_id] = None]
                 /\ HasClient(client_id, dev_id)
           /\ \/ dev_vc_map_' = dev_vc_map_ /\ DevEntry(dev_id, client_id) = {}
              \/ \E i \in 1 .. Len(dev_vc_map_) :
                    /\ dev_vc_map_' = RemoveAt(dev_vc_map_, i)
                    /\ i \in DevEntry(dev_id, client_id)
                    /\ (CHOOSE j \in DevEntry(dev_id, client_id) : TRUE) = i
<1>1. /\ client_vc_map_' = IF HasClient(client_id, dev_id)
                           THEN [client_vc_map_ EXCEPT ![client_id] = None]
                           ELSE client_vc_map_
      /\ dev_vc_map_' = IF DevEntry(dev_id, client_id) = {} THEN dev_vc_map_
                ELSE RemoveAt(dev_vc_map_, CHOOSE i \in DevEntry(dev_id, client_id) : TRUE)
  BY Zenon DEF DisconnectByClient, DisconnectByDev
<1>2. CASE DevEntry(dev_id, client_id) = {}
  BY <1>1, <1>2
<1>3. CASE DevEntry(dev_id, client_id) # {}
  BY <1>1, <1>3, DevEntryIs
<1> QED  BY <1>2, <1>3

\* The maps keep their types.
LEMMA MapTypesNext ==
    ASSUME NetInv, MapTypes, [VcNext]_allVars
    PROVE  MapTypes'
<1>1. CASE UNCHANGED <<guid_type, client_vc_map_, dev_vc_map_>>
  BY <1>1 DEF MapTypes
<1>2. ASSUME HandleClientBuildVc
      PROVE  MapTypes'
  <2>1. cb \in Conns /\ cfd[cb] \in Fds /\ buffer_event[cb] \in Bevs
    BY <1>2, AcceptedConns DEF HandleClientBuildVc, Handling, NetInv, Live
  <2>2. PICK client_id \in ClientIds, dev_id \in DevIds :
          /\ guid_type' = [guid_type EXCEPT ![cb] = "GUID_CLIENT"]
          /\ ConnectByClient(client_id,
               [bev |-> buffer_event[cb], fd |-> cfd[cb], dev_id |-> dev_id, by |-> cb])
    BY <1>2 DEF HandleClientBuildVc
  <2>3. [bev |-> buffer_event[cb], fd |-> cfd[cb], dev_id |-> dev_id, by |-> cb]
          \in ClientVcInfo
    BY <2>1 DEF ClientVcInfo
  <2> QED  BY <2>1, <2>2, <2>3 DEF MapTypes, ConnectByClient
<1>3. ASSUME HandleDevBuildVc
      PROVE  MapTypes'
  <2>1. cb \in Conns /\ cfd[cb] \in Fds /\ buffer_event[cb] \in Bevs
    BY <1>3, AcceptedConns DEF HandleDevBuildVc, Handling, NetInv, Live
  <2>2. PICK client_id \in ClientIds, dev_id \in DevIds :
          /\ guid_type' = [guid_type EXCEPT ![cb] = "GUID_DEV"]
          /\ ConnectByDev(dev_id, [bev |-> buffer_event[cb], fd |-> cfd[cb],
                dev_id |-> dev_id, client_id |-> client_id, by |-> cb])
    BY <1>3 DEF HandleDevBuildVc
  <2>3. [bev |-> buffer_event[cb], fd |-> cfd[cb], dev_id |-> dev_id,
         client_id |-> client_id, by |-> cb] \in DevVcInfo
    BY <2>1 DEF DevVcInfo
  <2>4. dev_vc_map_' \in Seq(DevVcInfo)
    BY <2>2, <2>3 DEF MapTypes, ConnectByDev
  <2> QED  BY <2>1, <2>2, <2>4 DEF MapTypes, ConnectByDev
<1>4. ASSUME HandleClientFreeVc \/ HandleDevFreeVc
      PROVE  MapTypes'
  <2>1. guid_type' = guid_type
    BY <1>4 DEF HandleClientFreeVc, HandleDevFreeVc, guidVars
  <2>2. PICK client_id \in ClientIds, dev_id \in DevIds :
          DisconnectByClient(client_id, dev_id) \/ DisconnectByDev(dev_id, client_id)
    BY <1>4 DEF HandleClientFreeVc, HandleDevFreeVc
  <2>3. client_vc_map_' \in [ClientIds -> ClientVcInfo \cup {None}]
    BY <2>2, FreeVcMaps DEF MapTypes
  <2>4. dev_vc_map_' \in Seq(DevVcInfo)
    <3>1. CASE dev_vc_map_' = dev_vc_map_
      BY <3>1 DEF MapTypes
    <3>2. ASSUME NEW i \in 1 .. Len(dev_vc_map_), dev_vc_map_' = RemoveAt(dev_vc_map_, i)
          PROVE  dev_vc_map_' \in Seq(DevVcInfo)
      BY <3>2, RemoveAtIs DEF MapTypes
    <3> QED  BY <2>2, <3>1, <3>2, FreeVcMaps
  <2> QED  BY <2>1, <2>3, <2>4 DEF MapTypes
<1>5. \/ UNCHANGED <<guid_type, client_vc_map_, dev_vc_map_>>
      \/ HandleClientBuildVc \/ HandleDevBuildVc \/ HandleClientFreeVc \/ HandleDevFreeVc
  BY DEF VcNext, HandleMsg, allVars, Accept, ReadCb, ReadCbReturns, ClientTcpErrorCb,
         HandleNoChange, HandleClientStartSend, HandleClientSendVoice, ForwardMsgToDev,
         ForwardFails, HandleOnPushClientVoice, HandleOnPushStartSend, TimerStep, guidVars, mapVars
<1> QED  BY <1>1, <1>2, <1>3, <1>4, <1>5

\* A connection that a step neither ends nor gives another kind.
Stays(c) ==
    /\ c \in Live(net)' /\ buffer_event'[c] = buffer_event[c] /\ cfd'[c] = cfd[c]
    /\ guid_type'[c] = guid_type[c]

\* Entries may go; those that stay name connections that stay.
LEMMA ClientEntriesKept ==
    ASSUME ClientEntries,
           \A id \in ClientIds : client_vc_map_'[id] # None =>
              client_vc_map_'[id] = client_vc_map_[id] /\ Stays(client_vc_map_[id].by)
    PROVE  ClientEntries'
<1>1. \A id \in ClientIds :
         client_vc_map_'[id] # None => Entry(client_vc_map_[id], "GUID_CLIENT")
  BY DEF ClientEntries
<1>2. \A id \in ClientIds :
         client_vc_map_'[id] # None => Entry(client_vc_map_[id], "GUID_CLIENT")'
  BY <1>1 DEF Entry, Stays
<1> QED  BY <1>2 DEF ClientEntries

\* The same for the devices' map, of which the entry at gone is erased, if any.
LEMMA DevEntriesKept ==
    ASSUME MapTypes, DevEntries, NEW gone \in 0 .. Len(dev_vc_map_),
           gone = 0 => dev_vc_map_' = dev_vc_map_,
           gone # 0 => dev_vc_map_' = RemoveAt(dev_vc_map_, gone),
           \A j \in 1 .. Len(dev_vc_map_) : j # gone => Stays(dev_vc_map_[j].by)
    PROVE  DevEntries'
<1> DEFINE s == dev_vc_map_
           from(j) == IF gone = 0 \/ j < gone THEN j ELSE j + 1
<1>1. s \in Seq(DevVcInfo) /\ Len(s) \in Nat /\ gone \in Nat
  BY DEF MapTypes
<1>2. \A j \in 1 .. Len(s') : /\ from(j) \in 1 .. Len(s) /\ from(j) # gone
                              /\ s'[j] = s[from(j)] /\ j \in Nat
  <2>1. CASE gone = 0
    BY <2>1, <1>1
  <2>2. CASE gone # 0
    <3>1. /\ Len(s') = Len(s) - 1
          /\ \A j \in 1 .. Len(s) - 1 : s'[j] = IF j < gone THEN s[j] ELSE s[j + 1]
      BY <2>2, <1>1, RemoveAtIs, SMTT(30)
    <3> HIDE DEF s
    <3> QED  BY <2>2, <3>1, <1>1
  <2> QED  BY <2>1, <2>2
<1>3. \A j, k \in 1 .. Len(s') : from(j) = from(k) => j = k
  BY <1>1, <1>2
<1> HIDE DEF from
<1>4. \A k \in 1 .. Len(s) : k # gone =>
          /\ s[k].by \in Live(net)' /\ s[k].bev = buffer_event'[s[k].by]
          /\ s[k].fd = cfd'[s[k].by] /\ guid_type'[s[k].by] = "GUID_DEV"
  BY DEF DevEntries, Entry, Stays
<1>5. \A j \in 1 .. Len(s') : Entry(s[j], "GUID_DEV")'
  BY <1>2, <1>4 DEF Entry
<1>6. \A j, k \in 1 .. Len(s') : s'[j].by = s'[k].by => j = k
  BY <1>2, <1>3 DEF DevEntries
<1> QED  BY <1>5, <1>6 DEF DevEntries

\* The maps stay, and so does every connection that built a channel.
LEMMA AllStay ==
    ASSUME MapTypes, ClientEntries, DevEntries, UNCHANGED <<client_vc_map_, dev_vc_map_>>,
           \A c \in Live(net) : guid_type[c] # "none" => Stays(c)
    PROVE  ClientEntries' /\ DevEntries'
<1>1. ClientEntries'
  <2>1. \A id \in ClientIds :
           client_vc_map_[id] # None => Stays(client_vc_map_[id].by)
    BY DEF ClientEntries, Entry
  <2> QED  BY <2>1, ClientEntriesKept
<1>2. DevEntries'
  <2>1. \A j \in 1 .. Len(dev_vc_map_) : Stays(dev_vc_map_[j].by)
    BY DEF DevEntries, Entry
  <2>2. 0 \in 0 .. Len(dev_vc_map_)
    BY DEF MapTypes
  <2> QED  BY <2>1, <2>2, DevEntriesKept
<1> QED  BY <1>1, <1>2

\* Steps that end a connection without a kind at most, and change no entry.
LEMMA QuietIs ==
    ASSUME MapTypes, Settled, UNCHANGED <<connVars, guid_type, client_vc_map_, dev_vc_map_>>,
           net'.frees = 0,
           \A c \in Live(net) : guid_type[c] # "none" => c \in Live(net')
    PROVE  Settled'
<1>1. Live(net)' = Live(net')
  BY DEF Live, Accepted, connVars
<1>2. \A c \in Live(net) : guid_type[c] # "none" => Stays(c)
  BY <1>1 DEF Stays, connVars
<1> QED  BY <1>2, AllStay DEF Settled

\* A response, or the close of a connection that built no channel.
LEMMA QuietRespond ==
    ASSUME NetInv, MapTypes, Settled, cb # NoConn, RespondOrClose(net, {}), disturbed' = {},
           UNCHANGED <<connVars, guid_type, client_vc_map_, dev_vc_map_>>
    PROVE  alive' /\ Settled'
<1>1. ConnTypes /\ NetOK(net) /\ cb \in Live(net) /\ net.frees = 0
  BY DEF NetInv, Settled
<1>2. ~net.ub
  BY Zenon DEF NetInv
<1>3. CASE Continue(net)
  <2>1. Live(net') = Live(net) /\ net'.frees = 0
    BY <1>1, <1>3, SurvivesIs DEF Continue
  <2>2. alive'
    BY <1>1, <1>2, <1>3, SurvivesIs, Zenon DEF Continue
  <2>3. Settled'
    BY <2>1, QuietIs
  <2> QED  BY <2>2, <2>3, Zenon
<1>4. CASE CloseErrorConn(cb, net) /\ Disturb({} \cup If("dropped", guid_type'[cb] # "none"))
  <2>1. guid_type[cb] = "none"
    BY <1>4 DEF Disturb, If
  <2>2. net'.frees = 0 /\ \A d : d \in Live(net') <=> d \in Live(net) /\ d # cb
    BY <1>1, <1>4, CloseIs
  <2>3. alive'
    BY <1>1, <1>2, <1>4, CloseIs, Zenon
  <2>4. Settled'
    BY <2>1, <2>2, QuietIs
  <2> QED  BY <2>3, <2>4, Zenon
<1> QED  BY <1>3, <1>4 DEF RespondOrClose

\* The steps that neither build nor end a channel keep the entries.
LEMMA QuietEntries ==
    ASSUME NetInv, MapTypes, alive, Settled, disturbed' = {},
           \/ Accept \/ HandleNoChange \/ HandleClientSendVoice \/ HandleOnPushStartSend
           \/ ReadCbReturns \/ TimerStep
           \/ \E c \in Conns : ReadCb(c) \/ ClientTcpErrorCb(c)
    PROVE  alive' /\ Settled'
<1>1. ConnTypes /\ NetOK(net) /\ (cb # NoConn => cb \in Live(net)) /\ net.frees = 0
  BY DEF NetInv, Settled
<1>2. ~net.ub
  BY Zenon DEF NetInv
<1>3. CASE Accept
  <2>1. alive'
    BY <1>3, Zenon DEF Accept
  <2>2. /\ net'.frees = 0
        /\ UNCHANGED <<guid_type, client_vc_map_, dev_vc_map_>>
    BY <1>1, <1>3, AcceptNet DEF Accept, guidVars, mapVars
  <2>3. \A c \in Live(net) : Stays(c)
    BY <1>3, <2>2, AcceptNet DEF Stays, Live
  <2>4. Settled'
    BY <2>2, <2>3, AllStay DEF Settled
  <2> QED  BY <2>1, <2>4, Zenon
<1>4. CASE HandleNoChange
  BY <1>4, QuietRespond DEF HandleNoChange, Handling, guidVars, mapVars
<1>5. CASE HandleClientSendVoice
  <2>1. /\ cb # NoConn /\ UNCHANGED <<connVars, guid_type, client_vc_map_, dev_vc_map_>>
        /\ Continue(net) \/ RespondOrClose(net, {})
    BY <1>5 DEF HandleClientSendVoice, Handling, ForwardMsgToDev, ForwardFails, guidVars,
                mapVars
  <2>2. CASE Continue(net)
    <3>1. Live(net') = Live(net) /\ net'.frees = 0
      BY <1>1, <2>2, SurvivesIs DEF Continue
    <3>2. alive'
      BY <1>1, <1>2, <2>2, SurvivesIs, Zenon DEF Continue
    <3>3. Settled'
      BY <2>1, <3>1, QuietIs
    <3> QED  BY <3>2, <3>3, Zenon
  <2>3. CASE RespondOrClose(net, {})
    BY <2>1, <2>3, QuietRespond
  <2> QED  BY <2>1, <2>2, <2>3
<1>6. CASE ReadCbReturns
  <2>1. /\ cb # NoConn /\ Return(cb, net)
        /\ UNCHANGED <<connVars, guid_type, client_vc_map_, dev_vc_map_>>
    BY <1>6 DEF ReadCbReturns, guidVars, mapVars
  <2>2. Live(net') = Live(net) /\ net'.frees = 0
    BY <1>1, <2>1, ReturnIs
  <2>3. alive'
    BY <1>1, <1>2, <2>1, ReturnIs, Zenon
  <2>4. Settled'
    BY <2>1, <2>2, QuietIs
  <2> QED  BY <2>3, <2>4, Zenon
<1>7. CASE HandleOnPushStartSend \/ TimerStep \/ \E c \in Conns : ReadCb(c)
  <2>1. UNCHANGED <<connVars, guid_type, client_vc_map_, dev_vc_map_, net>>
    BY <1>7 DEF HandleOnPushStartSend, TimerStep, ReadCb, guidVars, mapVars
  <2>2. alive'
    BY <1>7, Zenon DEF HandleOnPushStartSend, TimerStep, ReadCb
  <2>3. Settled'
    BY <1>1, <2>1, QuietIs
  <2> QED  BY <2>2, <2>3, Zenon
<1>8. ASSUME NEW c \in Conns, ClientTcpErrorCb(c)
      PROVE  alive' /\ Settled'
  <2> DEFINE n == Destroyed(net, buffer_event[c])
  <2>1. /\ UNCHANGED <<connVars, guid_type, client_vc_map_, dev_vc_map_>>
        /\ c \in Live(net) /\ Survives(n) /\ guid_type[c] = "none"
    BY <1>8, OpenIsLive DEF ClientTcpErrorCb, Disturb, If, guidVars, mapVars
  <2>2. NetOK(n) /\ (\A d : d \in Live(n) <=> d \in Live(net) /\ d # c) /\ n.frees = 0
    BY <2>1, <1>1, DestroyedIs
  <2>3. ~n.ub
    BY <2>1, <1>1, <1>2, DestroyedIs, Zenon
  <2> HIDE DEF n
  <2>4. Live(net') = Live(n) /\ net'.frees = 0
    BY <2>1, <2>2, SurvivesIs
  <2>5. alive'
    BY <2>1, <2>2, <2>3, SurvivesIs, Zenon
  <2>6. Settled'
    BY <2>1, <2>2, <2>4, QuietIs
  <2> QED  BY <2>5, <2>6, Zenon
<1> QED  BY <1>3, <1>4, <1>5, <1>6, <1>7, <1>8

\* A first channel on a connection, for ids that have none: nothing is freed, and
\* the response goes out, or "dropped" is noted.
LEMMA BuildIs ==
    ASSUME NetInv, Settled, cb # NoConn, NEW kind, RespondOrClose(net, kind), disturbed' = {},
           UNCHANGED connVars, guid_type \in [Conns -> {"none", "GUID_CLIENT", "GUID_DEV"}],
           NEW t \in {"GUID_CLIENT", "GUID_DEV"}, guid_type' = [guid_type EXCEPT ![cb] = t],
           guid_type[cb] = "none"
    PROVE  /\ alive' /\ net'.frees = 0 /\ cb \in Live(net)' /\ guid_type'[cb] = t
           /\ buffer_event'[cb] = buffer_event[cb] /\ cfd'[cb] = cfd[cb]
           /\ \A c \in Live(net) : guid_type[c] # "none" => Stays(c) /\ c # cb
<1>1. /\ ConnTypes /\ NetOK(net) /\ cb \in Live(net) /\ net.frees = 0 /\ cb \in Conns
      /\ \A c \in Live(net) : c \in Conns
  BY AcceptedConns DEF NetInv, Settled, Live
<1>2. ~net.ub
  BY Zenon DEF NetInv
<1>3. guid_type'[cb] = t /\ t # "none"
  BY <1>1
<1>4. Continue(net)
  BY <1>3 DEF RespondOrClose, Disturb, If
<1>5. Live(net') = Live(net) /\ net'.frees = 0
  BY <1>1, <1>4, SurvivesIs DEF Continue
<1>6. alive'
  BY <1>1, <1>2, <1>4, SurvivesIs, Zenon DEF Continue
<1>7. Live(net)' = Live(net')
  BY DEF Live, Accepted, connVars
<1>8. \A c \in Live(net) : guid_type[c] # "none" => Stays(c) /\ c # cb
  BY <1>1, <1>5, <1>7 DEF Stays, connVars
<1>9. buffer_event'[cb] = buffer_event[cb] /\ cfd'[cb] = cfd[cb]
  BY DEF connVars
<1> QED  BY <1>1, <1>3, <1>5, <1>6, <1>7, <1>8, <1>9, Zenon

\* A client's channel ...
LEMMA BuildClientEntries ==
    ASSUME NetInv, MapTypes, Settled, disturbed' = {}, HandleClientBuildVc
    PROVE  alive' /\ Settled'
<1>1. cb # NoConn /\ UNCHANGED connVars
  BY DEF HandleClientBuildVc, Handling
<1> DEFINE entry(d) == [bev |-> buffer_event[cb], fd |-> cfd[cb], dev_id |-> d, by |-> cb]
<1>2. PICK client_id \in ClientIds, dev_id \in DevIds :
        /\ guid_type' = [guid_type EXCEPT ![cb] = "GUID_CLIENT"]
        /\ ConnectByClient(client_id, entry(dev_id))
        /\ RespondOrClose(ConnectByClientNet(client_id, entry(dev_id)),
             If("again", guid_type[cb] # "none" \/ client_vc_map_[client_id] # None))
  BY DEF HandleClientBuildVc
<1> DEFINE info == entry(dev_id)
<1>3. info.bev = buffer_event[cb] /\ info.fd = cfd[cb] /\ info.by = cb
  OBVIOUS
<1> HIDE DEF entry
<1>4. guid_type[cb] = "none" /\ client_vc_map_[client_id] = None
  BY <1>2 DEF RespondOrClose, Disturb, If
<1>5. PICK kind : RespondOrClose(net, kind)
  BY <1>2, <1>4 DEF ConnectByClientNet
<1>6. /\ net'.frees = 0 /\ cb \in Live(net)' /\ guid_type'[cb] = "GUID_CLIENT"
      /\ buffer_event'[cb] = buffer_event[cb] /\ cfd'[cb] = cfd[cb]
      /\ \A c \in Live(net) : guid_type[c] # "none" => Stays(c) /\ c # cb
  BY <1>1, <1>2, <1>4, <1>5, BuildIs DEF MapTypes
<1>7. alive'
  <2>1. guid_type \in [Conns -> {"none", "GUID_CLIENT", "GUID_DEV"}]
    BY DEF MapTypes
  <2>2. "GUID_CLIENT" \in {"GUID_CLIENT", "GUID_DEV"}
    OBVIOUS
  <2> QED  BY <1>1, <1>2, <1>4, <1>5, <2>1, <2>2, BuildIs, Zenon
<1> HIDE DEF info
<1>8. ClientEntries /\ DevEntries
  BY DEF Settled
<1>9. /\ client_vc_map_' = [client_vc_map_ EXCEPT ![client_id] = info]
      /\ dev_vc_map_' = dev_vc_map_ /\ client_vc_map_ \in [ClientIds -> ClientVcInfo \cup {None}]
  BY <1>2 DEF ConnectByClient, info, MapTypes
<1>10. ClientEntries'
  <2>1. \A id \in ClientIds : client_vc_map_[id] # None =>
           /\ Entry(client_vc_map_[id], "GUID_CLIENT")
           /\ Stays(client_vc_map_[id].by) /\ client_vc_map_[id].by # cb
    BY <1>6, <1>8 DEF ClientEntries, Entry
  <2>2. client_vc_map_'[client_id] = info
        /\ \A id \in ClientIds : id # client_id => client_vc_map_'[id] = client_vc_map_[id]
    BY <1>9
  <2>3. \A id \in ClientIds :
           client_vc_map_'[id] # None => Entry(client_vc_map_[id], "GUID_CLIENT")'
    BY <2>1, <2>2, <1>3, <1>6 DEF Entry, Stays
  <2>4. \A i, j \in ClientIds :
           /\ client_vc_map_'[i] # None /\ client_vc_map_'[j] # None
           /\ client_vc_map_'[i].by = client_vc_map_'[j].by
           => i = j
    BY <2>1, <2>2, <1>3, <1>8 DEF ClientEntries
  <2> QED  BY <2>3, <2>4 DEF ClientEntries
<1>11. DevEntries'
  <2>1. \A j \in 1 .. Len(dev_vc_map_) : Stays(dev_vc_map_[j].by)
    BY <1>6, <1>8 DEF DevEntries, Entry
  <2>2. 0 \in 0 .. Len(dev_vc_map_)
    BY DEF MapTypes
  <2> QED  BY <1>8, <1>9, <2>1, <2>2, DevEntriesKept
<1>12. Settled'
  BY <1>6, <1>10, <1>11 DEF Settled
<1> QED  BY <1>7, <1>12, Zenon

\* ... and a device's add one entry, of the connection that asks.
LEMMA BuildDevEntries ==
    ASSUME NetInv, MapTypes, Settled, disturbed' = {}, HandleDevBuildVc
    PROVE  alive' /\ Settled'
<1>1. cb # NoConn /\ UNCHANGED connVars
  BY DEF HandleDevBuildVc, Handling
<1> DEFINE entry(d, c) == [bev |-> buffer_event[cb], fd |-> cfd[cb], dev_id |-> d,
                           client_id |-> c, by |-> cb]
<1>2. PICK client_id \in ClientIds, dev_id \in DevIds :
        /\ guid_type' = [guid_type EXCEPT ![cb] = "GUID_DEV"]
        /\ ConnectByDev(dev_id, entry(dev_id, client_id))
        /\ RespondOrClose(ConnectByDevNet(dev_id, entry(dev_id, client_id)),
             If("again", guid_type[cb] # "none" \/ DevEntry(dev_id, client_id) # {}))
  BY DEF HandleDevBuildVc
<1> DEFINE info == entry(dev_id, client_id)
<1>3. /\ info.bev = buffer_event[cb] /\ info.fd = cfd[cb] /\ info.by = cb
      /\ info.client_id = client_id
  OBVIOUS
<1> HIDE DEF entry
<1>4. guid_type[cb] = "none" /\ DevEntry(dev_id, client_id) = {}
  BY <1>2 DEF RespondOrClose, Disturb, If
<1>5. PICK kind : RespondOrClose(net, kind)
  BY <1>2, <1>3, <1>4 DEF ConnectByDevNet, FreeAll, PeerOfClient
<1>6. /\ net'.frees = 0 /\ cb \in Live(net)' /\ guid_type'[cb] = "GUID_DEV"
      /\ buffer_event'[cb] = buffer_event[cb] /\ cfd'[cb] = cfd[cb]
      /\ \A c \in Live(net) : guid_type[c] # "none" => Stays(c) /\ c # cb
  BY <1>1, <1>2, <1>4, <1>5, BuildIs DEF MapTypes
<1>7. alive'
  <2>1. guid_type \in [Conns -> {"none", "GUID_CLIENT", "GUID_DEV"}]
    BY DEF MapTypes
  <2>2. "GUID_DEV" \in {"GUID_CLIENT", "GUID_DEV"}
    OBVIOUS
  <2> QED  BY <1>1, <1>2, <1>4, <1>5, <2>1, <2>2, BuildIs, Zenon
<1> DEFINE s == dev_vc_map_
<1>8. ClientEntries /\ DevEntries /\ s \in Seq(DevVcInfo)
  BY DEF Settled, MapTypes
<1>9. s' = Append(s, info) /\ client_vc_map_' = client_vc_map_
  BY <1>2 DEF ConnectByDev
<1> HIDE DEF info
<1>10. ClientEntries'
  <2>1. \A id \in ClientIds : client_vc_map_[id] # None => Stays(client_vc_map_[id].by)
    BY <1>6, <1>8 DEF ClientEntries, Entry
  <2> QED  BY <1>8, <1>9, <2>1, ClientEntriesKept
<1>11. DevEntries'
  <2>1. \A j \in 1 .. Len(s) : /\ Entry(s[j], "GUID_DEV")
                               /\ Stays(s[j].by) /\ s[j].by # cb
    BY <1>6, <1>8 DEF DevEntries, Entry
  <2>2. /\ Len(s') = Len(s) + 1 /\ s'[Len(s) + 1] = info
        /\ \A j \in 1 .. Len(s) : s'[j] = s[j]
    BY <1>8, <1>9
  <2>3. \A j \in 1 .. Len(s') : j \in 1 .. Len(s) \/ j = Len(s) + 1
    BY <1>8, <2>2
  <2>4. \A j \in 1 .. Len(s') : Entry(s[j], "GUID_DEV")'
    BY <2>1, <2>2, <2>3, <1>3, <1>6 DEF Entry, Stays
  <2>5. \A i, j \in 1 .. Len(s') : s'[i].by = s'[j].by => i = j
    BY <2>1, <2>2, <2>3, <1>3, <1>8 DEF DevEntries
  <2> QED  BY <2>4, <2>5 DEF DevEntries
<1>12. Settled'
  BY <1>6, <1>10, <1>11 DEF Settled
<1> QED  BY <1>7, <1>12, Zenon

\* At most one entry is the first of a pair.
LEMMA DevEntryUnique ==
    ASSUME MapTypes, NEW dev_id, NEW client_id,
           NEW i \in DevEntry(dev_id, client_id), NEW j \in DevEntry(dev_id, client_id)
    PROVE  i = j
<1>1. i \in Nat /\ j \in Nat /\ i >= 1 /\ j >= 1
  BY DEF DevEntry, MapTypes
<1>2. ~(i < j) /\ ~(j < i)
  BY <1>1 DEF DevEntry
<1> QED  BY <1>1, <1>2

\* A FreeVc ends its own connection and the peer's, each once.
LEMMA FreeVcEnds ==
    ASSUME NetInv, Settled, cb # NoConn, UNCHANGED <<connVars, guid_type>>,
           NEW peers \in SUBSET Live(net), \A d, e \in peers : d = e, cb \notin peers,
           CloseErrorConn(cb, FreeAll(net, {buffer_event[d] : d \in peers}))
    PROVE  /\ alive' /\ net'.frees = 0
           /\ \A c \in Live(net) : c \notin peers /\ c # cb => Stays(c)
<1> DEFINE n == FreeAll(net, {buffer_event[d] : d \in peers})
<1>1. ConnTypes /\ NetOK(net) /\ cb \in Live(net) /\ net.frees = 0
  BY DEF NetInv, Settled
<1>2. ~net.ub
  BY Zenon DEF NetInv
<1>3. CASE peers = {}
  <2>1. n = net
    <3>1. {buffer_event[d] : d \in peers} = {}
      BY <1>3
    <3> QED  BY <3>1 DEF FreeAll
  <2> QED
    <3>1. net'.frees = 0 /\ \A d : d \in Live(net') <=> d \in Live(net) /\ d # cb
      BY <1>1, <2>1, CloseIs
    <3>2. alive'
      BY <1>1, <1>2, <2>1, CloseIs, Zenon
    <3>3. \A c \in Live(net) : c # cb => Stays(c)
      BY <3>1 DEF Stays, Live, Accepted, connVars
    <3> QED  BY <3>1, <3>2, <3>3, Zenon
<1>4. ASSUME NEW d \in peers
      PROVE  /\ alive' /\ net'.frees = 0
             /\ \A c \in Live(net) : c \notin peers /\ c # cb => Stays(c)
  <2>1. peers = {d} /\ d \in Live(net) /\ d # cb /\ d # NoConn
    BY <1>1, <1>4, AcceptedConns DEF Live
  <2>2. {buffer_event[e] : e \in peers} = {buffer_event[d]}
    BY <2>1
  <2>3. n = Free(net, buffer_event[d])
    BY <2>2 DEF FreeAll
  <2>4. n = Destroyed(net, buffer_event[d])
    <3>1. net.bevConn[buffer_event[d]] = d
      BY <2>1 DEF Live
    <3> QED  BY <2>1, <2>3, <3>1 DEF Free
  <2> HIDE DEF n
  <2>5. NetOK(n) /\ (\A e : e \in Live(n) <=> e \in Live(net) /\ e # d) /\ n.frees = 0
    BY <1>1, <2>1, <2>4, DestroyedIs
  <2>6. ~n.ub
    BY <1>1, <1>2, <2>1, <2>4, DestroyedIs, Zenon
  <2>7. cb \in Live(n) /\ CloseErrorConn(cb, n)
    BY <1>1, <2>1, <2>5 DEF n
  <2>8. net'.frees = 0 /\ \A e : e \in Live(net') <=> e \in Live(n) /\ e # cb
    BY <1>1, <2>5, <2>7, CloseIs
  <2>9. alive'
    BY <1>1, <2>5, <2>6, <2>7, CloseIs, Zenon
  <2>10. \A c \in Live(net) : c \notin peers /\ c # cb => Stays(c)
    <3>1. Live(net)' = Live(net')
      BY DEF Live, Accepted, connVars
    <3> QED  BY <2>1, <2>5, <2>8, <3>1 DEF Stays, connVars
  <2> QED  BY <2>8, <2>9, <2>10, Zenon
<1> QED  BY <1>3, <1>4

\* A client's FreeVc erases what named the connections it ends ...
LEMMA FreeClientEntries ==
    ASSUME NetInv, MapTypes, Settled, disturbed' = {}, HandleClientFreeVc
    PROVE  alive' /\ Settled'
<1>1. cb # NoConn /\ UNCHANGED <<connVars, guid_type>>
  BY DEF HandleClientFreeVc, Handling, guidVars
<1>2. ClientEntries /\ DevEntries
  BY DEF Settled
<1>3. PICK client_id \in ClientIds, dev_id \in DevIds :
        /\ DisconnectByClient(client_id, dev_id)
        /\ CloseErrorConn(cb, FreeAll(net, PeerOfClient(client_id, dev_id)))
        /\ guid_type[cb] # "none" =>
              HasClient(client_id, dev_id) /\ client_vc_map_[client_id].by = cb
  BY DEF HandleClientFreeVc, DisconnectByClientNet, Disturb, If
<1> DEFINE is == DevEntry(dev_id, client_id)
           peers == {dev_vc_map_[i].by : i \in is}
<1>4. guid_type[cb] \in {"none", "GUID_CLIENT"}
  BY <1>2, <1>3 DEF HasClient, ClientEntries, Entry
<1>5. \A i \in is : /\ i \in 1 .. Len(dev_vc_map_)
                    /\ Entry(dev_vc_map_[i], "GUID_DEV")
  BY <1>2 DEF DevEntry, DevEntries
<1>6. \A i, j \in is : i = j
  BY DevEntryUnique
<1>7. peers \in SUBSET Live(net) /\ (\A d, e \in peers : d = e) /\ cb \notin peers
  BY <1>4, <1>5, <1>6 DEF Entry
<1>8. PeerOfClient(client_id, dev_id) = {buffer_event[d] : d \in peers}
  BY <1>5 DEF PeerOfClient, Entry
<1> HIDE DEF is, peers
<1>9. net'.frees = 0 /\ \A c \in Live(net) : c \notin peers /\ c # cb => Stays(c)
  BY <1>1, <1>3, <1>7, <1>8, FreeVcEnds
<1>10. alive'
  BY <1>1, <1>3, <1>7, <1>8, FreeVcEnds, Zenon
<1>11. ClientEntries'
  <2> SUFFICES ASSUME NEW id \in ClientIds, client_vc_map_'[id] # None
               PROVE  /\ client_vc_map_'[id] = client_vc_map_[id]
                      /\ Stays(client_vc_map_[id].by)
    BY <1>2, ClientEntriesKept
  <2>1. /\ client_vc_map_'[id] = client_vc_map_[id]
        /\ HasClient(client_id, dev_id) => id # client_id
    BY <1>3, FreeVcMaps DEF MapTypes
  <2>2. Entry(client_vc_map_[id], "GUID_CLIENT")
    BY <1>2, <2>1 DEF ClientEntries
  <2>3. client_vc_map_[id].by # cb
    BY <1>2, <1>3, <2>1, <2>2 DEF ClientEntries, Entry, HasClient
  <2>4. client_vc_map_[id].by \notin peers
    BY <1>5, <2>2 DEF Entry, peers
  <2> QED  BY <1>9, <2>1, <2>2, <2>3, <2>4 DEF Entry
<1>12. DevEntries'
  <2>1. ASSUME NEW gone \in 0 .. Len(dev_vc_map_), gone = 0 => is = {}, gone # 0 => gone \in is
        PROVE  \A j \in 1 .. Len(dev_vc_map_) : j # gone => Stays(dev_vc_map_[j].by)
    <3> SUFFICES ASSUME NEW j \in 1 .. Len(dev_vc_map_), j # gone
                 PROVE  Stays(dev_vc_map_[j].by)
      OBVIOUS
    <3>1. Entry(dev_vc_map_[j], "GUID_DEV") /\ j \notin is
      BY <1>2, <1>6, <2>1 DEF DevEntries
    <3>2. dev_vc_map_[j].by # cb /\ dev_vc_map_[j].by \notin peers
      BY <1>2, <1>4, <1>5, <3>1 DEF DevEntries, Entry, peers
    <3> QED  BY <1>9, <3>1, <3>2 DEF Entry
  <2>2. CASE dev_vc_map_' = dev_vc_map_ /\ is = {}
    <3>1. 0 \in 0 .. Len(dev_vc_map_)
      BY DEF MapTypes
    <3> QED  BY <1>2, <2>1, <2>2, <3>1, DevEntriesKept
  <2>3. ASSUME NEW i \in 1 .. Len(dev_vc_map_), i \in is, dev_vc_map_' = RemoveAt(dev_vc_map_, i)
        PROVE  DevEntries'
    <3>1. i \in 0 .. Len(dev_vc_map_) /\ i # 0
      BY <2>3 DEF MapTypes
    <3> QED  BY <1>2, <2>1, <2>3, <3>1, DevEntriesKept
  <2> QED  BY <1>3, <2>2, <2>3, FreeVcMaps DEF is
<1>13. Settled'
  BY <1>9, <1>11, <1>12 DEF Settled
<1> QED  BY <1>10, <1>13, Zenon

\* ... and so does a device's.
LEMMA FreeDevEntries ==
    ASSUME NetInv, MapTypes, Settled, disturbed' = {}, HandleDevFreeVc
    PROVE  alive' /\ Settled'
<1>1. cb # NoConn /\ UNCHANGED <<connVars, guid_type>>
  BY DEF HandleDevFreeVc, Handling, guidVars
<1>2. ClientEntries /\ DevEntries
  BY DEF Settled
<1>3. PICK client_id \in ClientIds, dev_id \in DevIds :
        /\ DisconnectByDev(dev_id, client_id)
        /\ CloseErrorConn(cb, FreeAll(net, PeerOfDev(dev_id, client_id)))
        /\ guid_type[cb] # "none" =>
              \E i \in DevEntry(dev_id, client_id) : dev_vc_map_[i].by = cb
  BY DEF HandleDevFreeVc, DisconnectByDevNet, Disturb, If
<1> DEFINE is == DevEntry(dev_id, client_id)
           peers == {c \in {client_vc_map_[client_id].by} : HasClient(client_id, dev_id)}
<1>4. \A i \in is : /\ i \in 1 .. Len(dev_vc_map_)
                    /\ Entry(dev_vc_map_[i], "GUID_DEV")
  BY <1>2 DEF DevEntry, DevEntries
<1>5. guid_type[cb] \in {"none", "GUID_DEV"}
  BY <1>3, <1>4 DEF Entry
<1>6. \A i, j \in is : i = j
  BY DevEntryUnique
<1>7. HasClient(client_id, dev_id) => Entry(client_vc_map_[client_id], "GUID_CLIENT")
  BY <1>2 DEF HasClient, ClientEntries
<1>8. peers \in SUBSET Live(net) /\ (\A d, e \in peers : d = e) /\ cb \notin peers
  BY <1>5, <1>7 DEF Entry
<1>9. PeerOfDev(dev_id, client_id) = {buffer_event[d] : d \in peers}
  BY <1>7 DEF PeerOfDev, Entry
<1> HIDE DEF is, peers
<1>10. net'.frees = 0 /\ \A c \in Live(net) : c \notin peers /\ c # cb => Stays(c)
  BY <1>1, <1>3, <1>8, <1>9, FreeVcEnds
<1>11. alive'
  BY <1>1, <1>3, <1>8, <1>9, FreeVcEnds, Zenon
<1>12. ClientEntries'
  <2> SUFFICES ASSUME NEW id \in ClientIds, client_vc_map_'[id] # None
               PROVE  /\ client_vc_map_'[id] = client_vc_map_[id]
                      /\ Stays(client_vc_map_[id].by)
    BY <1>2, ClientEntriesKept
  <2>1. /\ client_vc_map_'[id] = client_vc_map_[id]
        /\ HasClient(client_id, dev_id) => id # client_id
    BY <1>3, FreeVcMaps DEF MapTypes
  <2>2. Entry(client_vc_map_[id], "GUID_CLIENT")
    BY <1>2, <2>1 DEF ClientEntries
  <2>3. client_vc_map_[id].by # cb
    BY <1>5, <2>2 DEF Entry
  <2>4. client_vc_map_[id].by \notin peers
    BY <1>2, <2>1 DEF ClientEntries, HasClient, peers
  <2> QED  BY <1>10, <2>1, <2>2, <2>3, <2>4 DEF Entry
<1>13. DevEntries'
  <2>1. ASSUME NEW gone \in 0 .. Len(dev_vc_map_), gone = 0 => is = {}, gone # 0 => gone \in is
        PROVE  \A j \in 1 .. Len(dev_vc_map_) : j # gone => Stays(dev_vc_map_[j].by)
    <3> SUFFICES ASSUME NEW j \in 1 .. Len(dev_vc_map_), j # gone
                 PROVE  Stays(dev_vc_map_[j].by)
      OBVIOUS
    <3>1. Entry(dev_vc_map_[j], "GUID_DEV") /\ j \notin is
      BY <1>2, <1>6, <2>1 DEF DevEntries
    <3>2. dev_vc_map_[j].by # cb
      <4>1. \A i \in is : dev_vc_map_[j].by # dev_vc_map_[i].by
        BY <1>2, <1>4, <3>1 DEF DevEntries
      <4>2. guid_type[cb] = "none" \/ \E i \in is : dev_vc_map_[i].by = cb
        BY <1>3 DEF is
      <4> QED  BY <3>1, <4>1, <4>2 DEF Entry
    <3>3. dev_vc_map_[j].by \notin peers
      BY <1>7, <3>1 DEF Entry, peers
    <3> QED  BY <1>10, <3>1, <3>2, <3>3 DEF Entry
  <2>2. CASE dev_vc_map_' = dev_vc_map_ /\ is = {}
    <3>1. 0 \in 0 .. Len(dev_vc_map_)
      BY DEF MapTypes
    <3> QED  BY <1>2, <2>1, <2>2, <3>1, DevEntriesKept
  <2>3. ASSUME NEW i \in 1 .. Len(dev_vc_map_), i \in is, dev_vc_map_' = RemoveAt(dev_vc_map_, i)
        PROVE  DevEntries'
    <3>1. i \in 0 .. Len(dev_vc_map_) /\ i # 0
      BY <2>3 DEF MapTypes
    <3> QED  BY <1>2, <2>1, <2>3, <3>1, DevEntriesKept
  <2> QED  BY <1>3, <2>2, <2>3, FreeVcMaps DEF is
<1>14. Settled'
  BY <1>10, <1>12, <1>13 DEF Settled
<1> QED  BY <1>11, <1>14, Zenon

\* While the protocol is followed, every step keeps the entries.
LEMMA EntriesNext ==
    ASSUME NetInv, MapTypes, Entries, [VcNext]_allVars
    PROVE  Entries'
<1>1. SUFFICES ASSUME disturbed' = {}
               PROVE  alive' /\ Settled'
  BY Zenon DEF Entries
<1>2. disturbed = {}
  BY <1>1
  DEF VcNext, HandleMsg, allVars, Accept, ReadCb, ReadCbReturns, ClientTcpErrorCb,
      HandleNoChange, HandleClientBuildVc, HandleDevBuildVc, HandleClientFreeVc,
      HandleDevFreeVc, HandleClientStartSend, HandleClientSendVoice, ForwardMsgToDev,
      ForwardFails, HandleOnPushClientVoice, HandleOnPushStartSend, TimerStep, RespondOrClose, Disturb
<1>3. alive
  BY <1>2, Zenon DEF Entries
<1>4. Settled
  BY <1>2, Zenon DEF Entries
<1>5. CASE UNCHANGED allVars
  <2>1. UNCHANGED <<connVars, guid_type, client_vc_map_, dev_vc_map_, net>>
    BY <1>5 DEF allVars, guidVars, mapVars
  <2>2. alive'
    BY <1>3, <1>5, Zenon DEF allVars
  <2>3. Settled'
    BY <1>4, <2>1, QuietIs DEF Settled
  <2> QED  BY <2>2, <2>3, Zenon
<1>6. CASE HandleClientBuildVc
  BY <1>1, <1>4, <1>6, BuildClientEntries, Zenon
<1>7. CASE HandleDevBuildVc
  BY <1>1, <1>4, <1>7, BuildDevEntries, Zenon
<1>8. CASE HandleClientFreeVc
  BY <1>1, <1>4, <1>8, FreeClientEntries, Zenon
<1>9. CASE HandleDevFreeVc
  BY <1>1, <1>4, <1>9, FreeDevEntries, Zenon
<1>10. CASE \/ Accept \/ HandleNoChange \/ HandleClientSendVoice \/ HandleOnPushStartSend
            \/ ReadCbReturns \/ TimerStep
            \/ \E c \in Conns : ReadCb(c) \/ ClientTcpErrorCb(c)
  BY <1>1, <1>3, <1>4, <1>10, QuietEntries, Zenon
<1>11. \/ UNCHANGED allVars
       \/ HandleClientBuildVc \/ HandleDevBuildVc \/ HandleClientFreeVc \/ HandleDevFreeVc
       \/ \/ Accept \/ HandleNoChange \/ HandleClientSendVoice \/ HandleOnPushStartSend
          \/ ReadCbReturns \/ TimerStep
          \/ \E c \in Conns : ReadCb(c) \/ ClientTcpErrorCb(c)
  BY DEF VcNext, HandleMsg, HandleClientStartSend, HandleOnPushClientVoice
<1> QED  BY <1>5, <1>6, <1>7, <1>8, <1>9, <1>10, <1>11, Zenon

-----------------------------------------------------------------------------
\* The initial state satisfies the invariant.
LEMMA VcInitInv == VcInit => VcInv
<1> SUFFICES ASSUME VcInit
             PROVE  VcInv
  OBVIOUS
<1>1. /\ Init /\ conns = 0
      /\ cfd = [c \in Conns |-> CHOOSE f \in Fds : TRUE]
      /\ buffer_event = [c \in Conns |-> CHOOSE b \in Bevs : TRUE]
      /\ guid_type = [c \in Conns |-> "none"]
      /\ net = [bevConn |-> [b \in Bevs |-> NoConn], fdConn |-> [f \in Fds |-> NoConn],
                frees |-> 0, ub |-> FALSE]
      /\ cb = NoConn
      /\ client_vc_map_ = [id \in ClientIds |-> None] /\ dev_vc_map_ = <<>>
  BY Zenon DEF VcInit
<1>2. alive
  BY Zenon DEF VcInit
<1>3. (CHOOSE f \in Fds : TRUE) \in Fds /\ (CHOOSE b \in Bevs : TRUE) \in Bevs
  <2>1. Fds # {} /\ Bevs # {}
    BY ChannelAssumption, Zenon
  <2> QED  BY <2>1
<1>4. TimerInv
  BY <1>1, InitInv
<1>5. NetInv
  <2>1. net \in Nets
    BY <1>1, Zenon DEF Nets
  <2>2. net.bevConn = [b \in Bevs |-> NoConn]
    BY <1>1
  <2>3. net.ub = FALSE
    BY <1>1, Zenon
  <2>4. Accepted = {}
    BY <1>1 DEF Accepted
  <2>5. Live(net) = {}
    BY <2>4 DEF Live
  <2>6. ConnTypes
    BY <1>1, <1>3 DEF ConnTypes
  <2>7. NetOK(net)
    BY <2>1, <2>2, <2>5 DEF NetOK
  <2> QED  BY <1>1, <2>3, <2>6, <2>7, Zenon DEF NetInv
<1>7. MapTypes
  BY <1>1 DEF MapTypes
<1>8. Entries
  <2>1. ClientEntries
    BY <1>1 DEF ClientEntries
  <2>2. DevEntries
    BY <1>1 DEF DevEntries
  <2>3. net.frees = 0
    BY <1>1
  <2>4. Settled
    BY <2>1, <2>2, <2>3 DEF Settled
  <2> QED  BY <1>2, <2>4, Zenon DEF Entries
<1> QED  BY <1>4, <1>5, <1>7, <1>8 DEF VcInv

\* Every step preserves it.
LEMMA VcStepInv == VcInv /\ [VcNext]_allVars => VcInv'
  BY TimerNextInv, NetNext, MapTypesNext, EntriesNext DEF VcInv

\* The invariant holds in every reachable state.
THEOREM VcInvariance == VcSpec => []VcInv
<1>1. QED
  BY VcInitInv, VcStepInv, PTL DEF VcSpec

\* Used as the protocol means it, VoiceChannelManager's entries keep naming live
\* bufferevents and descriptors of the connections that built them, although
\* FreeVc frees the peer's from the sender's callback, and the process does not
\* free anything twice.
THEOREM ChannelsNameTheirConnsHolds == VcSpec => []ChannelsNameTheirConns
<1>1. VcInv => ChannelsNameTheirConns
  <2>1. SUFFICES ASSUME VcInv, disturbed = {}
                 PROVE  /\ alive
                        /\ \A id \in ClientIds : client_vc_map_[id] # None =>
                              NamesItsConn(client_vc_map_[id])
                        /\ \A i \in 1 .. Len(dev_vc_map_) : NamesItsConn(dev_vc_map_[i])
    BY Zenon DEF ChannelsNameTheirConns
  <2>2. alive
    BY <2>1, Zenon DEF VcInv, Entries
  <2>3. ClientEntries /\ DevEntries /\ NetOK(net)
    BY <2>1, Zenon DEF VcInv, Entries, Settled, NetInv
  <2>4. ASSUME NEW e, NEW t, Entry(e, t)
        PROVE  NamesItsConn(e)
    BY <2>3, <2>4 DEF Entry, Live, NetOK, NamesItsConn
  <2>5. \A id \in ClientIds : client_vc_map_[id] # None =>
           NamesItsConn(client_vc_map_[id])
    BY <2>3, <2>4 DEF ClientEntries
  <2>6. \A i \in 1 .. Len(dev_vc_map_) : NamesItsConn(dev_vc_map_[i])
    BY <2>3, <2>4 DEF DevEntries
  <2> QED  BY <2>2, <2>5, <2>6, Zenon
<1> QED
  BY VcInvariance, <1>1, PTL

-----------------------------------------------------------------------------
(* What the type invariant says besides.                                    *)

RestTypes ==
    /\ alive \in BOOLEAN
    /\ guid \in [Conns -> ClientIds \cup DevIds]
    /\ builds \in 0 .. MaxBuilds
    /\ disturbed \subseteq Disturbances

\* Every step keeps the remaining types.
LEMMA RestNext == VcInv /\ RestTypes /\ [VcNext]_allVars => RestTypes'
<1> SUFFICES ASSUME VcInv, RestTypes, [VcNext]_allVars
             PROVE  RestTypes'
  OBVIOUS
<1> USE DEF VcNext, HandleMsg, allVars, HandleClientStartSend, HandleOnPushClientVoice
<1>1. alive' \in BOOLEAN
  <2>1. alive' = alive \/ \E n : Survives(n)
    BY DEF Accept, ReadCb, ReadCbReturns, ClientTcpErrorCb, HandleNoChange,
           HandleClientBuildVc, HandleDevBuildVc, HandleClientFreeVc, HandleDevFreeVc,
           HandleClientSendVoice, ForwardMsgToDev, ForwardFails, HandleOnPushStartSend,
           TimerStep, RespondOrClose, CloseErrorConn, Return, Continue
  <2>2. ASSUME NEW n, Survives(n) PROVE alive' \in BOOLEAN
    BY <2>2, Zenon DEF Survives
  <2>3. alive' = alive => alive' \in BOOLEAN
    BY Zenon DEF RestTypes
  <2> QED  BY <2>1, <2>2, <2>3, Zenon
<1>2. guid' \in [Conns -> ClientIds \cup DevIds]
  <2>1. guid' = guid \/ \E id \in ClientIds \cup DevIds : guid' = [guid EXCEPT ![cb] = id]
    BY DEF Accept, ReadCb, ReadCbReturns, ClientTcpErrorCb, HandleNoChange,
           HandleClientBuildVc, HandleDevBuildVc, HandleClientFreeVc, HandleDevFreeVc,
           HandleClientSendVoice, ForwardFails, HandleOnPushStartSend,
           TimerStep, guidVars
  <2> QED  BY <2>1 DEF RestTypes
<1>3. builds' \in 0 .. MaxBuilds
  <2>1. builds' = builds \/ (builds < MaxBuilds /\ builds' = builds + 1)
    BY DEF Accept, ReadCb, ReadCbReturns, ClientTcpErrorCb, HandleNoChange,
           HandleClientBuildVc, HandleDevBuildVc, HandleClientFreeVc, HandleDevFreeVc,
           HandleClientSendVoice, HandleOnPushStartSend, TimerStep, mapVars
  <2> QED  BY <2>1 DEF RestTypes
<1>5. disturbed' \subseteq Disturbances
  BY DEF Accept, ReadCb, ReadCbReturns, ClientTcpErrorCb, HandleNoChange,
         HandleClientBuildVc, HandleDevBuildVc, HandleClientFreeVc, HandleDevFreeVc,
         HandleClientSendVoice, ForwardMsgToDev, ForwardFails, HandleOnPushStartSend,
         TimerStep, RespondOrClose, Disturb, If, Disturbances, RestTypes
<1> QED  BY <1>1, <1>2, <1>3, <1>5, Zenon DEF RestTypes

\* Every variable of the dispatcher has its type, and undefined behaviour never
\* stays in libevent's state: a step that meets it ends or survives it.
THEOREM VcTypeCorrect == VcSpec => []VcTypeOK
<1>1. VcInit => RestTypes
  <2> SUFFICES ASSUME VcInit PROVE RestTypes
    OBVIOUS
  <2>1. alive = TRUE /\ builds = 0 /\ disturbed = {}
    BY Zenon DEF VcInit
  <2>2. guid \in [Conns -> ClientIds \cup DevIds]
    BY ChannelAssumption, Zenon DEF VcInit
  <2>3. builds \in 0 .. MaxBuilds
    BY <2>1
  <2> QED  BY <2>1, <2>2, <2>3, Zenon DEF RestTypes
<1>2. VcInv /\ RestTypes => VcTypeOK
  <2> SUFFICES ASSUME VcInv, RestTypes PROVE VcTypeOK
    OBVIOUS
  <2>1. /\ net.bevConn \in [Bevs -> Conns \cup {NoConn}]
        /\ net.fdConn \in [Fds -> Conns \cup {NoConn}] /\ net.frees \in Nat
    BY DEF VcInv, NetInv, NetOK, Nets
  <2> QED
    BY <2>1, Zenon
    DEF VcTypeOK, VcInv, TimerInv, NetInv, ConnTypes, MapTypes, RestTypes
<1> QED
  BY VcInvariance, RestNext, <1>1, <1>2, PTL DEF VcSpec
=============================================================================
