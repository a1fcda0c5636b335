--------------------------- MODULE Framing_proofs ---------------------------
(***************************************************************************)
(* Proofs about the two ways in which the servers cut a stream of bytes    *)
(* into messages.                                                          *)
(*   VoiceWorker, for any number of masters, connections and messages of   *)
(* any lengths that fit the buffer: no byte is skipped or looked at twice, *)
(* and a callback hangs only on a message whose length word is torn.       *)
(*   CrlfFraming, for any bodies, any length of rBuf and any cuts: exactly *)
(* the messages of LostBy are lost, all others are delivered; one read per *)
(* callback is enough for bodies that leave room for it.                   *)
(*                                                                         *)
(* What the recursive functions Ends, Bytes, Kept and SplitData compute is *)
(* shown by induction on a set of naturals (NaturalsAllIn): there is a     *)
(* function that satisfies the equation, so the one that CHOOSE gives      *)
(* satisfies it too.                                                       *)
(***************************************************************************)
EXTENDS VoiceWorker, CrlfFraming, SequenceTheorems, WellFoundedInduction, TLAPS

-----------------------------------------------------------------------------
(* Natural numbers: least and greatest elements, induction on a set.        *)

Less == {p \in Nat \X Nat : p[1] < p[2]}

\* A set of naturals that is not empty has a least element.
LEMMA LeastElement ==
    ASSUME NEW T \in SUBSET Nat, T # {}
    PROVE  \E x \in T : \A y \in T : x <= y
<1>1. IsWellFoundedOn(Less, Nat)
  BY NatLessThanWellFounded DEF OpToRel, Less
<1>2. PICK x \in T : \A y \in T : ~(<<y, x>> \in Less)
  BY <1>1, WFMin
<1>3. \A a, b \in Nat : a < b => <<a, b>> \in Less
  BY DEF Less
<1>4. ASSUME NEW y \in T
      PROVE  x <= y
  <2>1. x \in Nat /\ y \in Nat /\ ~(y < x)
    BY <1>2, <1>3
  <2> QED
    BY <2>1
<1> QED
  BY <1>4

\* ... and, if it is bounded, a greatest one.
LEMMA GreatestElement ==
    ASSUME NEW b \in Nat, NEW T \in SUBSET (0 .. b), T # {}
    PROVE  \E x \in T : \A y \in T : y <= x
<1> DEFINE D == {d \in 0 .. b : b - d \in T}
<1>1. D \in SUBSET Nat /\ D # {}
  <2>1. PICK t \in T : TRUE
    OBVIOUS
  <2>2. b - t \in D
    BY <2>1
  <2> QED
    BY <2>2
<1>2. PICK d \in D : \A e \in D : d <= e
  <2> HIDE DEF D
  <2> QED
    BY <1>1, LeastElement
<1>3. \A y \in T : b - y \in D
  OBVIOUS
<1>4. b - d \in T /\ d \in 0 .. b
  BY <1>2
<1>5. \A y \in T : d <= b - y
  BY <1>2, <1>3
<1>6. \A y \in T : y <= b - d
  BY <1>4, <1>5
<1> QED
  BY <1>4, <1>6

\* Induction: a set with 0 and the successors of its elements has every natural.
LEMMA NaturalsAllIn ==
    ASSUME NEW S, 0 \in S, \A n \in Nat : n \in S => n + 1 \in S
    PROVE  \A n \in Nat : n \in S
<1> DEFINE T == {n \in Nat : n \notin S}
<1> SUFFICES ASSUME T # {}
             PROVE  FALSE
  OBVIOUS
<1>1. PICK x \in T : \A y \in T : x <= y
  <2> HIDE DEF T
  <2>1. T \in SUBSET Nat
    BY DEF T
  <2> QED
    BY <2>1, LeastElement
<1>2. x - 1 \in Nat /\ x - 1 \notin T
  BY <1>1
<1> QED
  BY <1>1, <1>2

-----------------------------------------------------------------------------
(* Ends.                                                                    *)

\* What a function must satisfy to be the ends of the first k pieces.
IsEnds(f, lens, k) ==
    /\ f \in [0 .. k -> Nat]
    /\ f[0] = 0
    /\ \A n \in 1 .. k : f[n] = f[n - 1] + lens[n]

\* There is such a function for every k.
LEMMA EndsExist ==
    ASSUME NEW lens \in Seq(Nat)
    PROVE  \E f : IsEnds(f, lens, Len(lens))
<1> DEFINE S == {k \in Nat : k <= Len(lens) => \E f : IsEnds(f, lens, k)}
<1>1. 0 \in S
  <2>1. IsEnds([n \in 0 .. 0 |-> 0], lens, 0)
    BY DEF IsEnds
  <2> QED
    BY <2>1
<1>2. ASSUME NEW k \in Nat, k \in S
      PROVE  k + 1 \in S
  <2> SUFFICES ASSUME k + 1 <= Len(lens)
               PROVE  \E f : IsEnds(f, lens, k + 1)
    OBVIOUS
  <2>1. PICK f : IsEnds(f, lens, k)
    BY <1>2
  <2>2. lens[k + 1] \in Nat
    OBVIOUS
  <2> DEFINE g == [n \in 0 .. k + 1 |-> IF n = k + 1 THEN f[k] + lens[k + 1] ELSE f[n]]
  <2>3. g \in [0 .. k + 1 -> Nat] /\ g[0] = 0 /\ g[k + 1] = f[k] + lens[k + 1]
    BY <2>1, <2>2 DEF IsEnds
  <2>4. \A n \in 0 .. k : g[n] = f[n]
    OBVIOUS
  <2>5. ASSUME NEW n \in 1 .. k + 1
        PROVE  g[n] = g[n - 1] + lens[n]
    <3>1. CASE n = k + 1
      BY <2>3, <2>4, <3>1
    <3>2. CASE n # k + 1
      <4>1. n \in 1 .. k /\ n \in 0 .. k /\ n - 1 \in 0 .. k
        BY <3>2
      <4> QED
        BY <2>1, <2>4, <4>1 DEF IsEnds
    <3> QED
      BY <3>1, <3>2
  <2>6. IsEnds(g, lens, k + 1)
    <3> HIDE DEF g
    <3> QED
      BY <2>3, <2>5 DEF IsEnds
  <2> QED
    BY <2>6
<1>3. \A k \in Nat : k \in S
  <2> HIDE DEF S
  <2> QED
    BY <1>1, <1>2, NaturalsAllIn
<1>4. Len(lens) \in Nat
  OBVIOUS
<1> QED
  BY <1>3, <1>4

\* The recursive equation that defines Ends.
LEMMA EndsEquation ==
    ASSUME NEW lens \in Seq(Nat)
    PROVE  IsEnds(Ends(lens), lens, Len(lens))
<1> DEFINE Body(f) == [n \in 0 .. Len(lens) |-> IF n = 0 THEN 0 ELSE f[n - 1] + lens[n]]
<1>1. PICK f : IsEnds(f, lens, Len(lens))
  BY EndsExist
<1>2. Len(lens) \in Nat
  OBVIOUS
<1>3. f = Body(f)
  BY <1>1, <1>2 DEF IsEnds
<1>4. Ends(lens) = CHOOSE g : g = Body(g)
  BY DEF Ends
<1>5. Ends(lens) = Body(Ends(lens))
  <2> HIDE DEF Body
  <2> QED
    BY <1>3, <1>4
<1> DEFINE e == Ends(lens)
<1>6. /\ DOMAIN e = 0 .. Len(lens) /\ e = [n \in DOMAIN e |-> e[n]]
      /\ \A n \in 0 .. Len(lens) : e[n] = IF n = 0 THEN 0 ELSE e[n - 1] + lens[n]
  <2> HIDE DEF e
  <2>1. e = Body(e)
    BY <1>5 DEF e
  <2> QED
    BY <2>1
<1> HIDE DEF e
<1>7. \A n \in Nat : n <= Len(lens) => e[n] = f[n]
  <2> DEFINE S == {n \in Nat : n <= Len(lens) => e[n] = f[n]}
  <2>1. 0 \in S
    BY <1>1, <1>2, <1>6 DEF IsEnds
  <2>2. ASSUME NEW n \in Nat, n \in S
        PROVE  n + 1 \in S
    <3> SUFFICES ASSUME n + 1 <= Len(lens)
                 PROVE  e[n + 1] = f[n + 1]
      OBVIOUS
    <3>1. e[n] = f[n]
      BY <1>2, <2>2
    <3>2. e[n + 1] = e[n] + lens[n + 1]
      BY <1>2, <1>6, SMTT(30)
    <3>3. f[n + 1] = f[n] + lens[n + 1]
      BY <1>1, <1>2 DEF IsEnds
    <3> QED
      BY <3>1, <3>2, <3>3
  <2>3. \A n \in Nat : n \in S
    <3> HIDE DEF S
    <3> QED
      BY <2>1, <2>2, NaturalsAllIn
  <2> QED
    BY <2>3
<1>8. e = f
  BY <1>1, <1>2, <1>6, <1>7 DEF IsEnds
<1> QED
  BY <1>1, <1>8 DEF e

\* Later pieces end later.
LEMMA EndsMonotone ==
    ASSUME NEW lens \in Seq(Nat), NEW i \in 0 .. Len(lens), NEW j \in 0 .. Len(lens), i <= j
    PROVE  Ends(lens)[i] <= Ends(lens)[j]
<1> DEFINE e == Ends(lens)
           S == {d \in Nat : i + d <= Len(lens) => e[i] <= e[i + d]}
<1>1. IsEnds(e, lens, Len(lens)) /\ Len(lens) \in Nat
  BY EndsEquation
<1> HIDE DEF e
<1>2. 0 \in S
  <2>1. i + 0 = i /\ i \in 0 .. Len(lens)
    OBVIOUS
  <2>2. e[i] \in Nat
    BY <1>1 DEF IsEnds
  <2>3. e[i] <= e[i + 0]
    BY <2>1, <2>2
  <2> QED
    BY <2>3
<1>3. ASSUME NEW d \in Nat, d \in S
      PROVE  d + 1 \in S
  <2> SUFFICES ASSUME i + (d + 1) <= Len(lens)
               PROVE  e[i] <= e[i + (d + 1)]
    OBVIOUS
  <2>1. e[i] <= e[i + d]
    BY <1>1, <1>3
  <2>2. i + (d + 1) \in 1 .. Len(lens) /\ lens[i + (d + 1)] \in Nat
    BY <1>1
  <2>3. e[i + (d + 1)] = e[i + d] + lens[i + (d + 1)]
    <3>1. (i + (d + 1)) - 1 = i + d
      OBVIOUS
    <3> QED
      BY <1>1, <2>2, <3>1 DEF IsEnds
  <2>4. e[i] \in Nat /\ e[i + d] \in Nat
    <3>1. i + d \in 0 .. Len(lens)
      BY <1>1
    <3> QED
      BY <1>1, <3>1 DEF IsEnds
  <2> QED
    BY <2>1, <2>2, <2>3, <2>4
<1>4. \A d \in Nat : d \in S
  <2> HIDE DEF S
  <2> QED
    BY <1>2, <1>3, NaturalsAllIn
<1>5. j - i \in Nat /\ i + (j - i) = j /\ j <= Len(lens)
  BY <1>1
<1>6. e[i] <= e[i + (j - i)]
  BY <1>4, <1>5
<1> QED
  BY <1>5, <1>6 DEF e

\* One more piece leaves the ends of the others alone.
LEMMA EndsOfPrefix ==
    ASSUME NEW a \in Seq(Nat), NEW b \in Seq(Nat), Len(a) <= Len(b),
           \A i \in 1 .. Len(a) : b[i] = a[i]
    PROVE  \A n \in 0 .. Len(a) : Ends(b)[n] = Ends(a)[n]
<1> DEFINE e == Ends(a)
           g == Ends(b)
           S == {n \in Nat : n <= Len(a) => g[n] = e[n]}
<1>1. /\ IsEnds(e, a, Len(a)) /\ Len(a) \in Nat
      /\ IsEnds(g, b, Len(b)) /\ Len(b) \in Nat
  BY EndsEquation
<1> HIDE DEF e, g
<1>2. 0 \in S
  BY <1>1 DEF IsEnds
<1>3. ASSUME NEW n \in Nat, n \in S
      PROVE  n + 1 \in S
  <2> SUFFICES ASSUME n + 1 <= Len(a)
               PROVE  g[n + 1] = e[n + 1]
    OBVIOUS
  <2>1. n + 1 \in 1 .. Len(a) /\ n + 1 \in 1 .. Len(b) /\ g[n] = e[n]
    BY <1>1, <1>3
  <2> QED
    BY <1>1, <2>1 DEF IsEnds
<1>4. \A n \in Nat : n \in S
  <2> HIDE DEF S
  <2> QED
    BY <1>2, <1>3, NaturalsAllIn
<1> QED
  BY <1>1, <1>4 DEF e, g

-----------------------------------------------------------------------------
(* VoiceWorker: the invariant.                                              *)

Busy == {"read", "parse", "parse_full", "spin"}

\* A callback serves a connection of its own worker that is open.
Serving ==
    \A m \in Masters : wpc[m] \in Busy =>
        cb[m] \in Conns /\ masterOf[cb[m]] = m /\ cstate[cb[m]] = "served"

\* Connections are numbered in the order of their acceptance.
Fresh == \A c \in Conns : c > conns => cstate[c] = "none"

\* One byte in the pipe for each queued connection (or about to be written), and
\* a connection is queued once, for the worker of the master that accepted it.
Queue ==
    \A m \in Masters :
        /\ Len(conn_info_queue_[m]) = notified[m] + (IF mpc[m] = "notify" THEN 1 ELSE 0)
        /\ \A i \in 1 .. Len(conn_info_queue_[m]) :
              /\ cstate[conn_info_queue_[m][i]] = "queued"
              /\ masterOf[conn_info_queue_[m][i]] = m
              /\ \A j \in 1 .. Len(conn_info_queue_[m]) :
                    conn_info_queue_[m][i] = conn_info_queue_[m][j] => i = j

\* Once in "parse" the callback has read all there was; a callback that found
\* its buffer full reads again or closes the connection, so that bufferevent has
\* data left only during a callback.
Drained == \A m \in Masters : wpc[m] = "parse" => input[cb[m]] = 0

Leftover ==
    \A c \in Conns : input[c] # 0 =>
        \/ cstate[c] = "closed"
        \/ /\ cb[masterOf[c]] = c
           /\ wpc[masterOf[c]] \in {"read", "parse_full", "spin"}

Account == \A c \in Conns : done[c] <= Len(sent[c])

\* What has arrived ends with a message, unless a read was torn.
WholeReads == \A c \in Conns : ~torn[c] => Boundary(c, Words(c) - onwire[c])

WorkerInv ==
    /\ TypeOK /\ Serving /\ Fresh /\ Queue
    /\ Drained /\ Leftover
    /\ Account /\ NothingSkipped /\ WholeReads
    /\ HangsOnlyOnTorn

\* The part of the invariant that says who serves which connection.
Control == Serving /\ Fresh /\ Queue /\ Drained /\ Leftover

\* Messages have at least three words.
LEMMA MessageLength ==
    ASSUME NEW msg \in Msgs
    PROVE  msg.len \in Nat /\ msg.len >= 3 /\ msg.kind \in {"ok", "bad", "short"}
<1>1. msg.len \in Lens \cup {3} /\ msg.kind \in {"ok", "bad", "short"}
  BY DEF Msgs
<1>2. \A n \in Lens : n \in Nat /\ n >= 3
  BY WorkerAssumption
<1> QED
  BY <1>1, <1>2

\* The words of the first messages of a stream add up.
LEMMA WordsFacts ==
    ASSUME NEW msgs \in Seq(Msgs)
    PROVE  /\ Len(msgs) \in Nat
           /\ WordsEnd(msgs) \in [0 .. Len(msgs) -> Nat]
           /\ WordsEnd(msgs)[0] = 0
           /\ \A n \in 1 .. Len(msgs) :
                 WordsEnd(msgs)[n] = WordsEnd(msgs)[n - 1] + msgs[n].len
           /\ \A i, j \in 0 .. Len(msgs) : i <= j => WordsEnd(msgs)[i] <= WordsEnd(msgs)[j]
<1> DEFINE lens == [i \in 1 .. Len(msgs) |-> msgs[i].len]
<1>1. /\ lens \in Seq(Nat) /\ Len(lens) = Len(msgs) /\ Len(msgs) \in Nat
      /\ \A i \in 1 .. Len(msgs) : lens[i] = msgs[i].len
  <2>1. \A i \in 1 .. Len(msgs) : msgs[i].len \in Nat
    BY MessageLength
  <2> QED
    BY <2>1
<1>2. WordsEnd(msgs) = Ends(lens)
  BY DEF WordsEnd
<1> HIDE DEF lens
<1>3. IsEnds(Ends(lens), lens, Len(lens))
  BY <1>1, EndsEquation
<1>4. \A i, j \in 0 .. Len(msgs) : i <= j => WordsEnd(msgs)[i] <= WordsEnd(msgs)[j]
  BY <1>1, <1>2, EndsMonotone
<1> QED
  BY <1>1, <1>2, <1>3, <1>4 DEF IsEnds

\* Another message leaves the words of the first ones alone.
LEMMA WordsAppend ==
    ASSUME NEW msgs \in Seq(Msgs), NEW msg \in Msgs
    PROVE  /\ \A n \in 0 .. Len(msgs) : WordsEnd(Append(msgs, msg))[n] = WordsEnd(msgs)[n]
           /\ WordsEnd(Append(msgs, msg))[Len(msgs) + 1] = WordsEnd(msgs)[Len(msgs)] + msg.len
<1> DEFINE more == Append(msgs, msg)
           a == [i \in 1 .. Len(msgs) |-> msgs[i].len]
           b == [i \in 1 .. Len(more) |-> more[i].len]
<1>1. /\ more \in Seq(Msgs) /\ Len(more) = Len(msgs) + 1 /\ Len(msgs) \in Nat
      /\ more[Len(msgs) + 1] = msg /\ \A i \in 1 .. Len(msgs) : more[i] = msgs[i]
  OBVIOUS
<1> HIDE DEF more
<1>2. a \in Seq(Nat) /\ Len(a) = Len(msgs) /\ \A i \in 1 .. Len(msgs) : a[i] = msgs[i].len
  <2>1. \A i \in 1 .. Len(msgs) : msgs[i].len \in Nat
    BY MessageLength
  <2> QED
    BY <1>1, <2>1
<1>3. b \in Seq(Nat) /\ Len(b) = Len(more) /\ \A i \in 1 .. Len(more) : b[i] = more[i].len
  <2>1. \A i \in 1 .. Len(more) : more[i].len \in Nat
    BY <1>1, MessageLength
  <2> QED
    BY <1>1, <2>1
<1>4. WordsEnd(msgs) = Ends(a) /\ WordsEnd(more) = Ends(b)
  BY DEF WordsEnd
<1> HIDE DEF a, b
<1>5. \A n \in 0 .. Len(a) : Ends(b)[n] = Ends(a)[n]
  <2>1. \A i \in 1 .. Len(a) : i \in 1 .. Len(msgs) /\ i \in 1 .. Len(more)
    BY <1>1, <1>2
  <2>2. \A i \in 1 .. Len(a) : b[i] = a[i]
    BY <1>1, <1>2, <1>3, <2>1, Zenon
  <2>3. Len(a) <= Len(b)
    BY <1>1, <1>2, <1>3
  <2> QED
    BY <1>2, <1>3, <2>2, <2>3, EndsOfPrefix
<1>6. WordsEnd(more)[Len(msgs) + 1] = WordsEnd(more)[Len(msgs)] + msg.len
  <2>1. Len(msgs) + 1 \in 1 .. Len(more) /\ (Len(msgs) + 1) - 1 = Len(msgs)
    BY <1>1
  <2> QED
    BY <1>1, <2>1, WordsFacts
<1> QED
  BY <1>1, <1>2, <1>4, <1>5, <1>6 DEF more

-----------------------------------------------------------------------------
(* VoiceWorker: the initial state and the threads around the callback.      *)

\* The initial state satisfies the invariant.
LEMMA WorkerInitHolds == Init => WorkerInv
<1> SUFFICES ASSUME Init
             PROVE  WorkerInv
  OBVIOUS
<1>1. \A c \in Conns : sent[c] = <<>> /\ done[c] = 0 /\ WordsEnd(sent[c])[0] = 0
  <2>1. <<>> \in Seq(Msgs)
    OBVIOUS
  <2>2. WordsEnd(<<>>)[0] = 0
    BY <2>1, WordsFacts
  <2> QED
    BY <2>2 DEF Init
<1>2. (CHOOSE m \in Masters : TRUE) \in Masters
  BY WorkerAssumption
<1>3. TypeOK
  BY <1>2, WorkerAssumption DEF Init, TypeOK, Conns, NoConn
<1>4. Control
  BY DEF Init, Control, Serving, Fresh, Queue, Drained, Leftover, Busy
<1>5. Account /\ NothingSkipped
  BY <1>1 DEF Init, Account, NothingSkipped, Words
<1>6. WholeReads
  BY <1>1 DEF Init, WholeReads, Boundary, Words
<1>7. HangsOnlyOnTorn
  BY DEF Init, HangsOnlyOnTorn
<1> QED
  BY <1>3, <1>4, <1>5, <1>6, <1>7 DEF WorkerInv, Control

\* The peer sends a message.
LEMMA PeerStep ==
    ASSUME WorkerInv, NEW c \in Conns, PeerSends(c)
    PROVE  WorkerInv'
<1> USE DEF WorkerInv
<1>1. /\ UNCHANGED <<alive, mpc, conn_info_queue_, notified, wpc, cb, conns,
                     masterOf, cstate, input, in_buffer_len, done, torn>>
      /\ alive
  BY DEF PeerSends, masterVars, workerVars, dataVars
<1>2. Control'
  BY <1>1 DEF Control, Serving, Fresh, Queue, Drained, Leftover
<1>3. HangsOnlyOnTorn'
  BY <1>1 DEF HangsOnlyOnTorn
<1>5. CASE PeerSends(c)
  <2>1. PICK msg \in Msgs : /\ sent' = [sent EXCEPT ![c] = Append(@, msg)]
                            /\ onwire' = [onwire EXCEPT ![c] = @ + msg.len]
    BY <1>5 DEF PeerSends
  <2>3. msg.len \in Nat
    BY MessageLength
  <2>4. TypeOK'
    <3>1. sent' \in [Conns -> Seq(Msgs)]
      BY <2>1 DEF TypeOK
    <3>2. onwire' \in [Conns -> Nat]
      BY <2>1, <2>3 DEF TypeOK
    <3> QED
      BY <1>1, <3>1, <3>2 DEF TypeOK
  <2>5. ASSUME NEW d \in Conns
        PROVE  /\ done'[d] <= Len(sent'[d])
               /\ WordsEnd(sent'[d])[done'[d]] + in_buffer_len'[d] + input'[d] + onwire'[d]
                     = WordsEnd(sent'[d])[Len(sent'[d])]
               /\ ~torn'[d] => \E n \in 0 .. Len(sent'[d]) :
                     WordsEnd(sent'[d])[n] = WordsEnd(sent'[d])[Len(sent'[d])] - onwire'[d]
    <3>1. /\ done[d] <= Len(sent[d])
          /\ WordsEnd(sent[d])[done[d]] + in_buffer_len[d] + input[d] + onwire[d]
                = WordsEnd(sent[d])[Len(sent[d])]
          /\ ~torn[d] => \E n \in 0 .. Len(sent[d]) :
                WordsEnd(sent[d])[n] = WordsEnd(sent[d])[Len(sent[d])] - onwire[d]
      BY DEF Account, NothingSkipped, WholeReads, Boundary, Words
    <3>2. CASE d # c
      <4>1. sent'[d] = sent[d] /\ onwire'[d] = onwire[d]
        BY <2>1, <3>2 DEF TypeOK
      <4> QED
        BY <1>1, <3>1, <4>1
    <3>3. CASE d = c
      <4>1. sent'[c] = Append(sent[c], msg) /\ onwire'[c] = onwire[c] + msg.len
        BY <2>1 DEF TypeOK
      <4>2. sent[c] \in Seq(Msgs) /\ Len(sent[c]) \in Nat /\ done[c] \in Nat
            /\ onwire[c] \in Nat /\ input[c] \in Nat /\ in_buffer_len[c] \in Nat
        BY DEF TypeOK
      <4>3. Len(sent'[c]) = Len(sent[c]) + 1
        BY <4>1, <4>2
      <4>4. /\ \A n \in 0 .. Len(sent[c]) : WordsEnd(sent'[c])[n] = WordsEnd(sent[c])[n]
            /\ WordsEnd(sent'[c])[Len(sent[c]) + 1]
                  = WordsEnd(sent[c])[Len(sent[c])] + msg.len
        BY <4>1, <4>2, WordsAppend
      <4>5. \A n \in 0 .. Len(sent[c]) : WordsEnd(sent[c])[n] \in Nat
        BY <4>2, WordsFacts
      <4>6. done'[c] <= Len(sent'[c]) /\ done[c] \in 0 .. Len(sent[c])
        BY <1>1, <3>1, <3>3, <4>2, <4>3
      <4>7. WordsEnd(sent'[c])[done'[c]] + in_buffer_len'[c] + input'[c] + onwire'[c]
              = WordsEnd(sent'[c])[Len(sent'[c])]
        <5>1. WordsEnd(sent'[c])[done'[c]] = WordsEnd(sent[c])[done[c]]
          BY <1>1, <4>4, <4>6
        <5>2. WordsEnd(sent[c])[done[c]] \in Nat /\ WordsEnd(sent[c])[Len(sent[c])] \in Nat
          BY <4>2, <4>5, <4>6
        <5>3. WordsEnd(sent'[c])[Len(sent'[c])] = WordsEnd(sent[c])[Len(sent[c])] + msg.len
          BY <4>3, <4>4
        <5>4. WordsEnd(sent[c])[done[c]] + in_buffer_len[c] + input[c] + onwire[c]
                = WordsEnd(sent[c])[Len(sent[c])]
          BY <3>1, <3>3
        <5> QED
          BY <1>1, <2>3, <4>1, <4>2, <5>1, <5>2, <5>3, <5>4, SMTT(30)
      <4>8. ASSUME ~torn'[c]
            PROVE  \E n \in 0 .. Len(sent'[c]) :
                     WordsEnd(sent'[c])[n] = WordsEnd(sent'[c])[Len(sent'[c])] - onwire'[c]
        <5>1. PICK n \in 0 .. Len(sent[c]) :
                 WordsEnd(sent[c])[n] = WordsEnd(sent[c])[Len(sent[c])] - onwire[c]
          BY <1>1, <3>1, <3>3, <4>8
        <5>2. n \in 0 .. Len(sent'[c])
          BY <4>2, <4>3
        <5>3. WordsEnd(sent'[c])[n] = WordsEnd(sent[c])[n]
          BY <4>4
        <5>4. WordsEnd(sent[c])[Len(sent[c])] \in Nat
          BY <4>2, <4>5
        <5>5. WordsEnd(sent'[c])[n] = WordsEnd(sent'[c])[Len(sent'[c])] - onwire'[c]
          BY <2>3, <4>1, <4>2, <4>3, <4>4, <5>1, <5>3, <5>4
        <5> QED
          BY <5>2, <5>5
      <4> QED
        BY <3>3, <4>6, <4>7, <4>8
    <3> QED
      BY <3>2, <3>3
  <2>6. Account' /\ NothingSkipped' /\ WholeReads'
    BY <2>5 DEF Account, NothingSkipped, WholeReads, Boundary, Words
  <2> QED
    BY <1>2, <1>3, <2>4, <2>6 DEF Control
<1> QED
  BY <1>5

\* Every variable of a connection's data is left alone.
SameData == UNCHANGED <<sent, onwire, input, in_buffer_len, done, torn>>

\* The account of a connection's words depends on nothing else.
LEMMA SameAccount ==
    ASSUME Account, NothingSkipped, WholeReads, SameData
    PROVE  Account' /\ NothingSkipped' /\ WholeReads'
BY DEF Account, NothingSkipped, WholeReads, SameData, Boundary, Words

\* The master accepts a connection.
LEMMA AcceptStep ==
    ASSUME WorkerInv, NEW m \in Masters, AcceptCb(m)
    PROVE  WorkerInv'
<1> USE DEF WorkerInv
<1> DEFINE new == conns + 1
<1>1. /\ new \in Conns /\ conns < new /\ conns \in Nat /\ MaxConns \in Nat
      /\ conns' = new
      /\ masterOf' = [masterOf EXCEPT ![new] = m]
      /\ cstate' = [cstate EXCEPT ![new] = "queued"]
      /\ conn_info_queue_' = [conn_info_queue_ EXCEPT ![m] = Append(@, new)]
      /\ mpc' = [mpc EXCEPT ![m] = "notify"] /\ mpc[m] = "loop"
      /\ alive /\ alive'
      /\ UNCHANGED <<notified, wpc, cb, sent, onwire, input,
                     in_buffer_len, done, torn>>
  BY WorkerAssumption
     DEF AcceptCb, AcceptClient, PutConnInfo, TypeOK, Conns, workerVars, dataVars
<1> HIDE DEF new
<1>2. TypeOK'
  <2>1. conn_info_queue_' \in [Masters -> Seq(Conns)]
    BY <1>1 DEF TypeOK
  <2>2. conns' \in 0 .. MaxConns
    BY <1>1 DEF Conns
  <2>3. /\ masterOf' \in [Conns -> Masters]
        /\ cstate' \in [Conns -> {"none", "queued", "served", "leaked", "closed"}]
        /\ mpc' \in [Masters -> {"loop", "notify"}]
    BY <1>1 DEF TypeOK
  <2> QED
    BY <1>1, <2>1, <2>2, <2>3 DEF TypeOK
<1>3. cstate[new] = "none"
  BY <1>1 DEF Fresh
<1>4. \A c \in Conns : c # new => masterOf'[c] = masterOf[c] /\ cstate'[c] = cstate[c]
  BY <1>1 DEF TypeOK
<1>5. Serving' /\ Fresh'
  <2>1. Serving'
    BY <1>1, <1>3, <1>4 DEF Serving
  <2>2. \A c \in Conns : c > new => c > conns /\ c # new
    BY <1>1 DEF new, Conns
  <2>3. Fresh'
    BY <1>1, <1>4, <2>2 DEF Fresh
  <2> QED
    BY <2>1, <2>3
<1>6. Queue'
  <2> SUFFICES ASSUME NEW w \in Masters
               PROVE  /\ Len(conn_info_queue_'[w])
                           = notified'[w] + (IF mpc'[w] = "notify" THEN 1 ELSE 0)
                      /\ \A i \in 1 .. Len(conn_info_queue_'[w]) :
                            /\ cstate'[conn_info_queue_'[w][i]] = "queued"
                            /\ masterOf'[conn_info_queue_'[w][i]] = w
                            /\ \A j \in 1 .. Len(conn_info_queue_'[w]) :
                                  conn_info_queue_'[w][i] = conn_info_queue_'[w][j] => i = j
    BY DEF Queue
  <2>1. /\ conn_info_queue_[w] \in Seq(Conns) /\ notified[w] \in Nat
        /\ Len(conn_info_queue_[w]) \in Nat
        /\ \A i \in 1 .. Len(conn_info_queue_[w]) : conn_info_queue_[w][i] \in Conns
    BY DEF TypeOK
  <2>2. /\ Len(conn_info_queue_[w]) = notified[w] + (IF mpc[w] = "notify" THEN 1 ELSE 0)
        /\ \A i \in 1 .. Len(conn_info_queue_[w]) :
              /\ cstate[conn_info_queue_[w][i]] = "queued"
              /\ masterOf[conn_info_queue_[w][i]] = w
              /\ \A j \in 1 .. Len(conn_info_queue_[w]) :
                    conn_info_queue_[w][i] = conn_info_queue_[w][j] => i = j
    BY DEF Queue
  <2>3. \A i \in 1 .. Len(conn_info_queue_[w]) : conn_info_queue_[w][i] # new
    BY <1>3, <2>2
  <2>4. CASE w # m
    <3>1. conn_info_queue_'[w] = conn_info_queue_[w] /\ mpc'[w] = mpc[w]
      BY <1>1, <2>4 DEF TypeOK
    <3> QED
      <4>1. \A i \in 1 .. Len(conn_info_queue_[w]) :
               /\ cstate'[conn_info_queue_[w][i]] = cstate[conn_info_queue_[w][i]]
               /\ masterOf'[conn_info_queue_[w][i]] = masterOf[conn_info_queue_[w][i]]
        BY <1>4, <2>1, <2>3
      <4>2. notified'[w] = notified[w]
        BY <1>1
      <4>3. Len(conn_info_queue_'[w])
              = notified'[w] + (IF mpc'[w] = "notify" THEN 1 ELSE 0)
        BY <2>2, <3>1, <4>2
      <4>4. \A i \in 1 .. Len(conn_info_queue_[w]) :
               /\ cstate'[conn_info_queue_[w][i]] = "queued"
               /\ masterOf'[conn_info_queue_[w][i]] = w
               /\ \A j \in 1 .. Len(conn_info_queue_[w]) :
                     conn_info_queue_[w][i] = conn_info_queue_[w][j] => i = j
        BY <2>2, <4>1
      <4> QED
        BY <3>1, <4>3, <4>4
  <2>5. CASE w = m
    <3>1. conn_info_queue_'[w] = Append(conn_info_queue_[w], new) /\ mpc'[w] = "notify"
      BY <1>1, <2>5 DEF TypeOK
    <3> DEFINE q == conn_info_queue_[w]
               r == conn_info_queue_'[w]
    <3>2. /\ Len(r) = Len(q) + 1 /\ r[Len(q) + 1] = new
          /\ \A i \in 1 .. Len(q) : r[i] = q[i]
      BY <1>1, <2>1, <3>1
    <3>3. Len(r) = notified'[w] + 1
      BY <1>1, <2>1, <2>2, <2>5, <3>2
    <3>4. masterOf'[new] = w /\ cstate'[new] = "queued"
      BY <1>1, <2>5 DEF TypeOK
    <3> HIDE DEF q, r
    <3>5. ASSUME NEW i \in 1 .. Len(r)
          PROVE  /\ cstate'[r[i]] = "queued" /\ masterOf'[r[i]] = w
                 /\ \A j \in 1 .. Len(r) : r[i] = r[j] => i = j
      <4>0. /\ \A k \in 1 .. Len(r) : k \in 1 .. Len(q) \/ k = Len(q) + 1
            /\ \A k \in 1 .. Len(q) : q[k] \in Conns /\ q[k] # new
            /\ \A k \in 1 .. Len(q) : cstate[q[k]] = "queued" /\ masterOf[q[k]] = w
            /\ \A k, l \in 1 .. Len(q) : q[k] = q[l] => k = l
        <5>1. Len(q) \in Nat /\ Len(r) = Len(q) + 1
          BY <2>1, <3>2 DEF q
        <5>2. \A k \in 1 .. Len(r) : k \in 1 .. Len(q) \/ k = Len(q) + 1
          BY <5>1
        <5>3. \A k \in 1 .. Len(q) : q[k] \in Conns /\ q[k] # new
          BY <2>1, <2>3, Zenon DEF q
        <5>4. /\ \A k \in 1 .. Len(q) : cstate[q[k]] = "queued" /\ masterOf[q[k]] = w
              /\ \A k, l \in 1 .. Len(q) : q[k] = q[l] => k = l
          BY <2>2, Zenon DEF q
        <5> QED
          BY <5>2, <5>3, <5>4
      <4>1. \A k \in 1 .. Len(q) : cstate'[q[k]] = "queued" /\ masterOf'[q[k]] = w
        BY <1>4, <4>0
      <4> QED
        BY <3>2, <3>4, <4>0, <4>1
    <3> QED
      BY <3>1, <3>3, <3>5 DEF r
  <2> QED
    BY <2>4, <2>5
<1>7. Drained'
  BY <1>1 DEF Drained
<1>8. Leftover'
  <2> SUFFICES ASSUME NEW c \in Conns, input'[c] # 0
               PROVE  \/ cstate'[c] = "closed"
                      \/ /\ cb'[masterOf'[c]] = c
                         /\ wpc'[masterOf'[c]] \in {"read", "parse_full", "spin"}
    BY DEF Leftover
  <2>1. c # new
    <3> SUFFICES ASSUME c = new
                 PROVE  FALSE
      OBVIOUS
    <3>1. masterOf[new] \in Masters /\ input[new] # 0
      BY <1>1 DEF TypeOK
    <3>2. /\ cb[masterOf[new]] = new
          /\ wpc[masterOf[new]] \in Busy
      BY <1>1, <1>3, <3>1 DEF Leftover, Busy
    <3> QED
      BY <1>3, <3>1, <3>2 DEF Serving
  <2> QED
    BY <1>1, <1>4, <2>1 DEF Leftover
<1>9. Account' /\ NothingSkipped' /\ WholeReads'
  BY <1>1, SameAccount DEF SameData
<1>10. HangsOnlyOnTorn'
  BY <1>1 DEF HangsOnlyOnTorn
<1> QED
  BY <1>2, <1>5, <1>6, <1>7, <1>8, <1>9, <1>10

\* The master writes the byte that goes with a queued connection.
LEMMA NotifyStep ==
    ASSUME WorkerInv, NEW m \in Masters, WriteNotify(m)
    PROVE  WorkerInv'
<1> USE DEF WorkerInv
<1>1. /\ alive /\ alive'
      /\ UNCHANGED <<conn_info_queue_, wpc, cb, conns, masterOf, cstate, sent, onwire,
                     input, in_buffer_len, done, torn>>
  BY DEF WriteNotify, workerVars, dataVars
<1>2. /\ Serving' /\ Fresh' /\ Drained' /\ Leftover'
      /\ HangsOnlyOnTorn'
  BY <1>1 DEF Serving, Fresh, Drained, Leftover, HangsOnlyOnTorn
<1>3. Account' /\ NothingSkipped' /\ WholeReads'
  BY <1>1, SameAccount DEF SameData
<1>4. CASE WriteNotify(m)
  <2>1. /\ mpc[m] = "notify"
        /\ notified' = [notified EXCEPT ![m] = @ + 1] /\ mpc' = [mpc EXCEPT ![m] = "loop"]
    BY <1>4 DEF WriteNotify
  <2>2. TypeOK'
    <3>1. notified' \in [Masters -> Nat] /\ mpc' \in [Masters -> {"loop", "notify"}]
      BY <2>1 DEF TypeOK
    <3> QED
      BY <1>1, <2>1, <3>1 DEF TypeOK
  <2>3. ASSUME NEW w \in Masters
        PROVE  notified'[w] + (IF mpc'[w] = "notify" THEN 1 ELSE 0)
                 = notified[w] + (IF mpc[w] = "notify" THEN 1 ELSE 0)
    BY <2>1 DEF TypeOK
  <2>4. Queue'
    BY <1>1, <2>3 DEF Queue
  <2> QED
    BY <1>2, <1>3, <2>2, <2>4
<1> QED
  BY <1>4

-----------------------------------------------------------------------------
(* VoiceWorker: the callbacks.                                              *)

\* A callback that returns leaves the other workers alone.
LEMMA Returned ==
    ASSUME TypeOK, NEW m \in Masters, Return(m)
    PROVE  /\ wpc' \in [Masters -> {"loop", "read", "parse", "parse_full", "spin"}]
           /\ cb' \in [Masters -> Conns \cup {NoConn}]
           /\ wpc'[m] \notin Busy
           /\ \A w \in Masters : w # m => wpc'[w] = wpc[w] /\ cb'[w] = cb[w]
BY DEF Return, TypeOK, Busy, NoConn

\* The worker takes a connection from its queue, which is not empty.
LEMMA RecvStep ==
    ASSUME WorkerInv, NEW m \in Masters, RecvNotifiedCb(m)
    PROVE  WorkerInv'
<1> USE DEF WorkerInv
<1> DEFINE q == conn_info_queue_[m]
           h == q[1]
<1>1. /\ alive /\ alive' /\ wpc[m] = "loop" /\ notified[m] > 0
      /\ notified' = [notified EXCEPT ![m] = @ - 1]
      /\ conn_info_queue_' = [conn_info_queue_ EXCEPT ![m] = Tail(@)]
      /\ Return(m)
      /\ UNCHANGED <<mpc, conns, masterOf, sent, onwire, input,
                     in_buffer_len, done, torn>>
  BY DEF RecvNotifiedCb, dataVars
<1>2. /\ q \in Seq(Conns) /\ Len(q) \in Nat /\ notified[m] \in Nat
      /\ \A i \in 1 .. Len(q) : q[i] \in Conns
  BY DEF TypeOK
<1>3. /\ Len(q) = notified[m] + (IF mpc[m] = "notify" THEN 1 ELSE 0)
      /\ \A i \in 1 .. Len(q) : cstate[q[i]] = "queued" /\ masterOf[q[i]] = m
      /\ \A i, j \in 1 .. Len(q) : q[i] = q[j] => i = j
  BY DEF Queue
<1>4. /\ Len(q) >= 1 /\ h \in Conns /\ cstate[h] = "queued" /\ masterOf[h] = m
  BY <1>1, <1>2, <1>3
<1>5. PICK s \in {"served", "leaked"} : cstate' = [cstate EXCEPT ![h] = s]
  <2>1. Head(q) = h
    BY <1>2, <1>4
  <2> QED
    BY <2>1 DEF RecvNotifiedCb
<1>6. \A c \in Conns : c # h => cstate'[c] = cstate[c]
  BY <1>4, <1>5 DEF TypeOK
<1>7. /\ Tail(q) \in Seq(Conns) /\ Len(Tail(q)) = Len(q) - 1
      /\ \A i \in 1 .. Len(Tail(q)) :
            i + 1 \in 1 .. Len(q) /\ Tail(q)[i] = q[i + 1] /\ q[i + 1] # h
  BY <1>2, <1>3, <1>4
<1>8. conn_info_queue_'[m] = Tail(q) /\ notified'[m] = notified[m] - 1
  BY <1>1 DEF TypeOK
<1>9. /\ wpc' \in [Masters -> {"loop", "read", "parse", "parse_full", "spin"}]
      /\ cb' \in [Masters -> Conns \cup {NoConn}]
      /\ wpc'[m] \notin Busy
      /\ \A w \in Masters : w # m => wpc'[w] = wpc[w] /\ cb'[w] = cb[w]
  BY <1>1, Returned
<1>10. TypeOK'
  <2>1. conn_info_queue_' \in [Masters -> Seq(Conns)]
    BY <1>1, <1>7 DEF TypeOK
  <2>2. notified' \in [Masters -> Nat]
    BY <1>1, <1>2 DEF TypeOK
  <2>3. cstate' \in [Conns -> {"none", "queued", "served", "leaked", "closed"}]
    BY <1>5 DEF TypeOK
  <2> QED
    BY <1>1, <1>9, <2>1, <2>2, <2>3 DEF TypeOK
<1> HIDE DEF q, h
<1>11. Serving' /\ Fresh'
  <2>1. Serving'
    BY <1>1, <1>4, <1>6, <1>9 DEF Serving
  <2>2. Fresh'
    BY <1>1, <1>4, <1>6 DEF Fresh
  <2> QED
    BY <2>1, <2>2
<1>12. Queue'
  <2> SUFFICES ASSUME NEW w \in Masters
               PROVE  /\ Len(conn_info_queue_'[w])
                           = notified'[w] + (IF mpc'[w] = "notify" THEN 1 ELSE 0)
                      /\ \A i \in 1 .. Len(conn_info_queue_'[w]) :
                            /\ cstate'[conn_info_queue_'[w][i]] = "queued"
                            /\ masterOf'[conn_info_queue_'[w][i]] = w
                            /\ \A j \in 1 .. Len(conn_info_queue_'[w]) :
                                  conn_info_queue_'[w][i] = conn_info_queue_'[w][j] => i = j
    BY DEF Queue
  <2>1. CASE w = m
    <3> DEFINE t == Tail(q)
    <3>1. \A i \in 1 .. Len(t) : cstate'[t[i]] = "queued" /\ masterOf'[t[i]] = m
      <4>1. ASSUME NEW i \in 1 .. Len(t)
            PROVE  t[i] \in Conns /\ t[i] # h /\ cstate[t[i]] = "queued" /\ masterOf[t[i]] = m
        <5>1. i + 1 \in 1 .. Len(q) /\ t[i] = q[i + 1] /\ q[i + 1] # h
          BY <1>7
        <5>2. q[i + 1] \in Conns
          BY <1>2, <5>1
        <5>3. cstate[q[i + 1]] = "queued" /\ masterOf[q[i + 1]] = m
          BY <1>3, <5>1
        <5> HIDE DEF t
        <5> QED
          BY <5>1, <5>2, <5>3
      <4> QED
        BY <1>1, <1>6, <4>1
    <3>2. ASSUME NEW i \in 1 .. Len(t), NEW j \in 1 .. Len(t), t[i] = t[j]
          PROVE  i = j
      <4>1. i + 1 \in 1 .. Len(q) /\ j + 1 \in 1 .. Len(q) /\ q[i + 1] = q[j + 1]
        BY <1>7, <3>2
      <4> QED
        BY <1>3, <4>1
    <3>3. Len(t) = notified'[m] + (IF mpc'[m] = "notify" THEN 1 ELSE 0)
      BY <1>1, <1>2, <1>3, <1>7, <1>8
    <3> HIDE DEF t
    <3>4. conn_info_queue_'[m] = t
      BY <1>8 DEF t
    <3>5. conn_info_queue_'[w] = t /\ w = m
      BY <2>1, <3>4
    <3> QED
      BY <3>1, <3>2, <3>3, <3>5, Zenon
  <2>2. CASE w # m
    <3>1. conn_info_queue_'[w] = conn_info_queue_[w] /\ notified'[w] = notified[w]
      BY <1>1, <2>2 DEF TypeOK
    <3>2. /\ Len(conn_info_queue_[w]) = notified[w] + (IF mpc[w] = "notify" THEN 1 ELSE 0)
          /\ \A i \in 1 .. Len(conn_info_queue_[w]) :
                /\ cstate[conn_info_queue_[w][i]] = "queued"
                /\ masterOf[conn_info_queue_[w][i]] = w
                /\ \A j \in 1 .. Len(conn_info_queue_[w]) :
                      conn_info_queue_[w][i] = conn_info_queue_[w][j] => i = j
      BY DEF Queue
    <3>3. \A i \in 1 .. Len(conn_info_queue_[w]) : conn_info_queue_[w][i] \in Conns
      BY DEF TypeOK
    <3>4. \A i \in 1 .. Len(conn_info_queue_[w]) :
             cstate'[conn_info_queue_[w][i]] = cstate[conn_info_queue_[w][i]]
      BY <1>4, <1>6, <2>2, <3>2, <3>3
    <3>5. Len(conn_info_queue_[w]) = notified'[w] + (IF mpc'[w] = "notify" THEN 1 ELSE 0)
      BY <1>1, <3>1, <3>2
    <3>6. \A i \in 1 .. Len(conn_info_queue_[w]) :
             /\ cstate'[conn_info_queue_[w][i]] = "queued"
             /\ masterOf'[conn_info_queue_[w][i]] = w
      BY <1>1, <3>2, <3>4
    <3> QED
      BY <3>1, <3>2, <3>5, <3>6
  <2> QED
    BY <2>1, <2>2
<1>13. Drained'
  BY <1>1, <1>9 DEF Drained, Busy
<1>14. Leftover'
  <2> SUFFICES ASSUME NEW c \in Conns, input'[c] # 0
               PROVE  \/ cstate'[c] = "closed"
                      \/ /\ cb'[masterOf'[c]] = c
                         /\ wpc'[masterOf'[c]] \in {"read", "parse_full", "spin"}
    BY DEF Leftover
  <2>1. \/ cstate[c] = "closed"
        \/ /\ cb[masterOf[c]] = c
           /\ wpc[masterOf[c]] \in {"read", "parse_full", "spin"}
    BY <1>1 DEF Leftover
  <2>2. masterOf[c] \in Masters /\ masterOf'[c] = masterOf[c]
    BY <1>1 DEF TypeOK
  <2>3. c # h
    BY <1>1, <1>4, <2>1
  <2> QED
    BY <1>1, <1>6, <1>9, <2>1, <2>2, <2>3
<1>15. Account' /\ NothingSkipped' /\ WholeReads'
  BY <1>1, SameAccount DEF SameData
<1>16. HangsOnlyOnTorn'
  BY <1>1, <1>9 DEF HangsOnlyOnTorn, Busy
<1> QED
  BY <1>10, <1>11, <1>12, <1>13, <1>14, <1>15, <1>16

\* A worker closes an open connection of its own and returns: between two
\* callbacks, or the connection that the callback serves.
LEMMA CloseControl ==
    ASSUME TypeOK, Control, NEW m \in Masters, NEW c \in Conns,
           masterOf[c] = m, cstate[c] = "served", wpc[m] = "loop" \/ cb[m] = c,
           CloseConn(c), Return(m),
           UNCHANGED <<conns, masterOf, conn_info_queue_, notified, mpc, input>>
    PROVE  Control'
<1> USE DEF Control
<1>1. cstate'[c] = "closed" /\ \A d \in Conns : d # c => cstate'[d] = cstate[d]
  BY DEF CloseConn, TypeOK
<1>2. /\ wpc'[m] \notin Busy
      /\ \A w \in Masters : w # m => wpc'[w] = wpc[w] /\ cb'[w] = cb[w]
  BY Returned
<1>3. Serving'
  <2> SUFFICES ASSUME NEW w \in Masters, wpc'[w] \in Busy
               PROVE  cb'[w] \in Conns /\ masterOf'[cb'[w]] = w /\ cstate'[cb'[w]] = "served"
    BY DEF Serving
  <2>1. w # m /\ cb'[w] = cb[w] /\ wpc[w] \in Busy
    BY <1>2
  <2>2. cb[w] \in Conns /\ masterOf[cb[w]] = w /\ cstate[cb[w]] = "served"
    BY <2>1 DEF Serving
  <2> QED
    BY <1>1, <2>1, <2>2
<1>4. Fresh'
  BY <1>1 DEF Fresh
<1>5. Queue'
  <2>1. \A w \in Masters : \A i \in 1 .. Len(conn_info_queue_[w]) :
           /\ conn_info_queue_[w][i] \in Conns
           /\ cstate[conn_info_queue_[w][i]] = "queued"
    <3>1. \A w \in Masters : conn_info_queue_[w] \in Seq(Conns)
      BY DEF TypeOK
    <3>2. \A w \in Masters : \A i \in 1 .. Len(conn_info_queue_[w]) :
             conn_info_queue_[w][i] \in Conns
      BY <3>1
    <3> QED
      BY <3>2 DEF Queue
  <2>2. \A w \in Masters : \A i \in 1 .. Len(conn_info_queue_[w]) :
           cstate'[conn_info_queue_[w][i]] = "queued"
    BY <1>1, <2>1
  <2> QED
    BY <2>2 DEF Queue
<1>6. Drained'
  BY <1>2 DEF Drained, Busy
<1>7. Leftover'
  <2> SUFFICES ASSUME NEW d \in Conns, input[d] # 0, d # c
               PROVE  \/ cstate'[d] = "closed"
                      \/ /\ cb'[masterOf[d]] = d
                         /\ wpc'[masterOf[d]] \in {"read", "parse_full", "spin"}
    BY <1>1 DEF Leftover
  <2>1. \/ cstate[d] = "closed"
        \/ /\ cb[masterOf[d]] = d
           /\ wpc[masterOf[d]] \in {"read", "parse_full", "spin"}
    BY DEF Leftover
  <2>2. masterOf[d] \in Masters
    BY DEF TypeOK
  <2> QED
    BY <1>1, <1>2, <2>1, <2>2
<1> QED
  BY <1>3, <1>4, <1>5, <1>6, <1>7

\* A connection ends.
LEMMA ErrorStep ==
    ASSUME WorkerInv, NEW m \in Masters, ClientTcpErrorCb(m)
    PROVE  WorkerInv'
<1> USE DEF WorkerInv
<1>1. PICK c \in Conns : masterOf[c] = m /\ cstate[c] = "served" /\ CloseConn(c)
  BY DEF ClientTcpErrorCb
<1>2. /\ alive /\ alive' /\ wpc[m] = "loop" /\ Return(m)
      /\ UNCHANGED <<mpc, conn_info_queue_, notified, conns, masterOf,
                     sent, onwire, input, in_buffer_len, done, torn>>
  BY DEF ClientTcpErrorCb, masterVars, dataVars
<1>3. Control'
  BY <1>1, <1>2, CloseControl DEF Control
<1>4. /\ wpc' \in [Masters -> {"loop", "read", "parse", "parse_full", "spin"}]
      /\ cb' \in [Masters -> Conns \cup {NoConn}]
      /\ wpc'[m] \notin Busy
      /\ \A w \in Masters : w # m => wpc'[w] = wpc[w] /\ cb'[w] = cb[w]
  BY <1>2, Returned
<1>5. TypeOK'
  <2>1. cstate' \in [Conns -> {"none", "queued", "served", "leaked", "closed"}]
    BY <1>1 DEF TypeOK, CloseConn
  <2> QED
    BY <1>2, <1>4, <2>1 DEF TypeOK
<1>6. HangsOnlyOnTorn'
  BY <1>2, <1>4 DEF HangsOnlyOnTorn, Busy
<1>7. Account' /\ NothingSkipped' /\ WholeReads'
  BY <1>2, SameAccount DEF SameData
<1> QED
  BY <1>3, <1>5, <1>6, <1>7 DEF Control

\* Data arrives: bufferevent had none left, so none is overwritten.
LEMMA ReadStep ==
    ASSUME WorkerInv, NEW m \in Masters, ReadEvent(m)
    PROVE  WorkerInv'
<1> USE DEF WorkerInv
<1>0. PICK c \in Conns : \E k \in 1 .. onwire[c] :
          /\ masterOf[c] = m /\ cstate[c] = "served"
          /\ onwire' = [onwire EXCEPT ![c] = @ - k]
          /\ input' = [input EXCEPT ![c] = k]
          /\ cb' = [cb EXCEPT ![m] = c]
          /\ torn' = [torn EXCEPT ![c] = @ \/ ~Boundary(c, Words(c) - (onwire[c] - k))]
  BY DEF ReadEvent
<1>1. PICK k \in 1 .. onwire[c] :
          /\ masterOf[c] = m /\ cstate[c] = "served"
          /\ onwire' = [onwire EXCEPT ![c] = @ - k]
          /\ input' = [input EXCEPT ![c] = k]
          /\ cb' = [cb EXCEPT ![m] = c]
          /\ torn' = [torn EXCEPT ![c] = @ \/ ~Boundary(c, Words(c) - (onwire[c] - k))]
  BY <1>0
<1>2. /\ alive /\ alive' /\ wpc[m] = "loop" /\ wpc' = [wpc EXCEPT ![m] = "read"]
      /\ UNCHANGED <<mpc, conn_info_queue_, notified, conns, masterOf, cstate,
                     sent, in_buffer_len, done>>
  BY DEF ReadEvent, masterVars
<1>3. /\ wpc'[m] = "read" /\ cb'[m] = c
      /\ \A w \in Masters : w # m => wpc'[w] = wpc[w] /\ cb'[w] = cb[w]
  BY <1>1, <1>2 DEF TypeOK
<1>4. /\ onwire[c] \in Nat /\ k \in Nat /\ k > 0
      /\ onwire'[c] = onwire[c] - k /\ onwire'[c] \in Nat /\ input'[c] = k
      /\ \A d \in Conns : d # c => /\ onwire'[d] = onwire[d] /\ input'[d] = input[d]
                                   /\ torn'[d] = torn[d]
  BY <1>1 DEF TypeOK
<1>5. torn' \in [Conns -> BOOLEAN]
  <2>1. (torn[c] \/ ~Boundary(c, Words(c) - (onwire[c] - k))) \in BOOLEAN
    OBVIOUS
  <2> QED
    BY <1>1, <2>1, Zenon DEF TypeOK
<1>6. input[c] = 0
  BY <1>1, <1>2 DEF Leftover
<1>7. TypeOK'
  <2>1. onwire' \in [Conns -> Nat] /\ input' \in [Conns -> Nat]
    BY <1>1, <1>4 DEF TypeOK
  <2>2. /\ wpc' \in [Masters -> {"loop", "read", "parse", "parse_full", "spin"}]
        /\ cb' \in [Masters -> Conns \cup {NoConn}]
    BY <1>1, <1>2 DEF TypeOK
  <2> QED
    BY <1>2, <1>5, <2>1, <2>2 DEF TypeOK
<1>8. Serving' /\ Fresh' /\ Queue'
  BY <1>1, <1>2, <1>3 DEF Serving, Fresh, Queue
<1>9. \A w \in Masters : w # m /\ wpc[w] \in Busy => cb[w] \in Conns /\ cb[w] # c
  BY <1>1 DEF Serving
<1>10. Drained'
  BY <1>2, <1>3, <1>4, <1>9 DEF Drained, Busy
<1>11. Leftover'
  <2> SUFFICES ASSUME NEW d \in Conns, input'[d] # 0
               PROVE  \/ cstate[d] = "closed"
                      \/ /\ cb'[masterOf[d]] = d
                         /\ wpc'[masterOf[d]] \in {"read", "parse_full", "spin"}
    BY <1>2 DEF Leftover
  <2>1. CASE d = c
    BY <1>1, <1>3, <2>1
  <2>2. CASE d # c
    <3>1. /\ masterOf[d] \in Masters
          /\ \/ cstate[d] = "closed"
             \/ /\ cb[masterOf[d]] = d
                /\ wpc[masterOf[d]] \in {"read", "parse_full", "spin"}
      BY <1>4, <2>2 DEF Leftover, TypeOK
    <3> QED
      BY <1>2, <1>3, <3>1
  <2> QED
    BY <2>1, <2>2
<1>12. Account'
  BY <1>2 DEF Account
<1>13. NothingSkipped'
  <2> SUFFICES ASSUME NEW d \in Conns
               PROVE  WordsEnd(sent[d])[done[d]] + in_buffer_len[d] + input'[d] + onwire'[d]
                        = Words(d)
    BY <1>2 DEF NothingSkipped, Words
  <2>1. WordsEnd(sent[d])[done[d]] + in_buffer_len[d] + input[d] + onwire[d] = Words(d)
    BY DEF NothingSkipped
  <2>2. in_buffer_len[d] \in Nat /\ WordsEnd(sent[d])[done[d]] \in Nat
    <3>1. sent[d] \in Seq(Msgs) /\ done[d] \in 0 .. Len(sent[d])
      BY DEF TypeOK, Account
    <3>2. in_buffer_len[d] \in Nat
      BY WorkerAssumption DEF TypeOK
    <3>3. WordsEnd(sent[d])[done[d]] \in Nat
      BY <3>1, WordsFacts
    <3> QED
      BY <3>2, <3>3
  <2>3. CASE d = c
    <3>1. /\ onwire[d] \in Nat /\ k \in Nat /\ input[d] = 0
          /\ onwire'[d] = onwire[d] - k /\ input'[d] = k
      BY <1>4, <1>6, <2>3
    <3>2. PICK a \in Nat : a = WordsEnd(sent[d])[done[d]]
      BY <2>2
    <3>3. a + in_buffer_len[d] + input[d] + onwire[d]
            = a + in_buffer_len[d] + input'[d] + onwire'[d]
      BY <2>2, <3>1
    <3> QED
      BY <2>1, <3>2, <3>3, Zenon
  <2>4. CASE d # c
    BY <1>4, <2>1, <2>4
  <2> QED
    BY <2>3, <2>4
<1>14. WholeReads'
  <2> SUFFICES ASSUME NEW d \in Conns, ~torn'[d]
               PROVE  \E n \in 0 .. Len(sent[d]) :
                         WordsEnd(sent[d])[n] = Words(d) - onwire'[d]
    BY <1>2 DEF WholeReads, Boundary, Words
  <2>1. CASE d = c
    <3>1. torn'[c] = (torn[c] \/ ~Boundary(c, Words(c) - (onwire[c] - k)))
      BY <1>1, Zenon DEF TypeOK
    <3>2. Boundary(c, Words(c) - (onwire[c] - k))
      BY <2>1, <3>1
    <3> QED
      BY <1>4, <2>1, <3>2 DEF Boundary
  <2>2. CASE d # c
    BY <1>4, <2>2 DEF WholeReads, Boundary
  <2> QED
    BY <2>1, <2>2
<1>15. HangsOnlyOnTorn'
  BY <1>2, <1>3, <1>4, <1>9 DEF HangsOnlyOnTorn, Busy
<1> QED
  BY <1>7, <1>8, <1>10, <1>11, <1>12, <1>13, <1>14, <1>15

\* The buffer takes what bufferevent has, or as much as fits.
LEMMA MinOfTwo ==
    ASSUME NEW a \in Int, NEW b \in Int
    PROVE  Min({a, b}) = IF a <= b THEN a ELSE b
<1>1. \A x \in {a, b} : (\A y \in {a, b} : x <= y) <=> x = (IF a <= b THEN a ELSE b)
  OBVIOUS
<1>2. (IF a <= b THEN a ELSE b) \in {a, b}
  OBVIOUS
<1> QED
  BY <1>1, <1>2 DEF Min

\* Data moves from bufferevent into the buffer.
LEMMA FillStep ==
    ASSUME WorkerInv, NEW m \in Masters, FillBuffer(m)
    PROVE  WorkerInv'
<1> USE DEF WorkerInv
<1> DEFINE c    == cb[m]
           took == Min({input[c], CONN_BUFFER_LEN - in_buffer_len[c]})
           full == in_buffer_len[c] + took = CONN_BUFFER_LEN
<1>1. /\ alive /\ alive' /\ wpc[m] = "read"
      /\ input' = [input EXCEPT ![c] = @ - took]
      /\ in_buffer_len' = [in_buffer_len EXCEPT ![c] = @ + took]
      /\ wpc' = [wpc EXCEPT ![m] = IF full THEN "parse_full" ELSE "parse"]
      /\ UNCHANGED <<mpc, conn_info_queue_, notified, cb, conns, masterOf,
                     cstate, sent, onwire, done, torn>>
  BY DEF FillBuffer, masterVars
<1>2. c \in Conns /\ masterOf[c] = m /\ cstate[c] = "served"
  BY <1>1 DEF Serving, Busy
<1>3. /\ input[c] \in Nat /\ in_buffer_len[c] \in 0 .. CONN_BUFFER_LEN
      /\ CONN_BUFFER_LEN \in Nat
  BY <1>2, WorkerAssumption DEF TypeOK
<1>4. took = IF input[c] <= CONN_BUFFER_LEN - in_buffer_len[c] THEN input[c]
             ELSE CONN_BUFFER_LEN - in_buffer_len[c]
  BY <1>3, MinOfTwo
<1> HIDE DEF c, took
<1>5. /\ took \in Nat /\ input[c] - took \in Nat
      /\ in_buffer_len[c] + took \in 0 .. CONN_BUFFER_LEN
      /\ ~full => input[c] - took = 0
  BY <1>3, <1>4
<1>6. full \in BOOLEAN
  OBVIOUS
<1> HIDE DEF full
<1>7. /\ input'[c] = input[c] - took /\ in_buffer_len'[c] = in_buffer_len[c] + took
      /\ \A d \in Conns : d # c =>
            input'[d] = input[d] /\ in_buffer_len'[d] = in_buffer_len[d]
  BY <1>1, <1>2 DEF TypeOK
<1>9. /\ wpc'[m] = (IF full THEN "parse_full" ELSE "parse")
      /\ \A w \in Masters : w # m => wpc'[w] = wpc[w]
      /\ wpc' \in [Masters -> {"loop", "read", "parse", "parse_full", "spin"}]
  BY <1>1 DEF TypeOK
<1>10. \A w \in Masters : w # m /\ wpc[w] \in Busy => cb[w] \in Conns /\ cb[w] # c
  BY <1>2 DEF Serving
<1>11. TypeOK'
  <2>1. /\ input' \in [Conns -> Nat]
        /\ in_buffer_len' \in [Conns -> 0 .. CONN_BUFFER_LEN]
    BY <1>1, <1>2, <1>5 DEF TypeOK
  <2> QED
    BY <1>1, <1>9, <2>1 DEF TypeOK
<1>12. Serving' /\ Fresh' /\ Queue'
  <2>1. Serving'
    BY <1>1, <1>2, <1>9 DEF Serving, Busy, c
  <2> QED
    BY <1>1, <2>1 DEF Fresh, Queue
<1>13. Drained'
  <2> SUFFICES ASSUME NEW w \in Masters, wpc'[w] = "parse"
               PROVE  input'[cb[w]] = 0
    BY <1>1 DEF Drained
  <2>1. CASE w = m
    BY <1>5, <1>7, <1>9, <2>1 DEF c
  <2>2. CASE w # m
    BY <1>7, <1>9, <1>10, <2>2 DEF Drained, Busy
  <2> QED
    BY <2>1, <2>2
<1>16. Leftover'
  <2> SUFFICES ASSUME NEW d \in Conns, input'[d] # 0
               PROVE  \/ cstate[d] = "closed"
                      \/ /\ cb[masterOf[d]] = d
                         /\ wpc'[masterOf[d]] \in {"read", "parse_full", "spin"}
    BY <1>1 DEF Leftover
  <2>1. CASE d = c
    <3>1. full
      BY <1>5, <1>7, <2>1
    <3> QED
      BY <1>2, <1>9, <2>1, <3>1 DEF c
  <2>2. CASE d # c
    <3>1. /\ masterOf[d] \in Masters
          /\ \/ cstate[d] = "closed"
             \/ /\ cb[masterOf[d]] = d
                /\ wpc[masterOf[d]] \in {"read", "parse_full", "spin"}
      BY <1>7, <2>2 DEF Leftover, TypeOK
    <3>2. cb[masterOf[d]] = d => masterOf[d] # m
      BY <2>2 DEF c
    <3> QED
      BY <1>9, <3>1, <3>2
  <2> QED
    BY <2>1, <2>2
<1>17. Account' /\ WholeReads'
  BY <1>1 DEF Account, WholeReads, Boundary, Words
<1>18. NothingSkipped'
  <2> SUFFICES ASSUME NEW d \in Conns
               PROVE  WordsEnd(sent[d])[done[d]] + in_buffer_len'[d] + input'[d] + onwire[d]
                        = Words(d)
    BY <1>1 DEF NothingSkipped, Words
  <2>1. WordsEnd(sent[d])[done[d]] + in_buffer_len[d] + input[d] + onwire[d] = Words(d)
    BY DEF NothingSkipped
  <2>2. onwire[d] \in Nat /\ WordsEnd(sent[d])[done[d]] \in Nat
    <3>1. sent[d] \in Seq(Msgs) /\ done[d] \in 0 .. Len(sent[d])
      BY DEF TypeOK, Account
    <3>2. onwire[d] \in Nat
      BY DEF TypeOK
    <3>3. WordsEnd(sent[d])[done[d]] \in Nat
      BY <3>1, WordsFacts
    <3> QED
      BY <3>2, <3>3
  <2>3. CASE d = c
    BY <1>3, <1>5, <1>7, <2>1, <2>2, <2>3
  <2>4. CASE d # c
    BY <1>7, <2>1, <2>4
  <2> QED
    BY <2>3, <2>4
<1>19. HangsOnlyOnTorn'
  <2>1. ASSUME NEW w \in Masters, wpc'[w] = "spin"
        PROVE  torn[cb[w]]
    <3>1. w # m /\ wpc[w] = "spin"
      BY <1>9, <2>1
    <3> QED
      BY <1>7, <1>10, <3>1 DEF HangsOnlyOnTorn, Busy
  <2> QED
    BY <1>1, <2>1 DEF HangsOnlyOnTorn
<1> QED
  BY <1>11, <1>12, <1>13, <1>16, <1>17, <1>18, <1>19

-----------------------------------------------------------------------------
(* VoiceWorker: looking at the buffer.                                      *)

\* How a look at the buffer ends: the callback returns if it had read all there
\* was, it reads again if the buffer was full, it hangs, it closes its
\* connection, or it looks again.
Outcome(m) ==
    \/ wpc[m] = "parse" /\ Return(m) /\ UNCHANGED cstate
    \/ wpc[m] = "parse_full" /\ wpc' = [wpc EXCEPT ![m] = "read"] /\ UNCHANGED <<cb, cstate>>
    \/ Spin(m) /\ UNCHANGED cstate
    \/ CloseErrorConn(m, cb[m])
    \/ UNCHANGED <<wpc, cb, cstate>>

\* Every look at the buffer ends like that.
LEMMA ParseOutcome ==
    ASSUME NEW m \in Masters,
           \/ TlvNoHeader(m) \/ TlvInvalid(m) \/ TlvIncomplete(m) \/ TlvUnderflow(m)
           \/ TlvMessage(m) \/ TlvRefused(m) \/ TlvHeartbeatLogged(m)
    PROVE  /\ wpc[m] \in {"parse", "parse_full"} /\ alive /\ Outcome(m)
           /\ UNCHANGED <<mpc, conn_info_queue_, notified, conns, masterOf,
                          sent, onwire, input, torn>>
<1>1. Parsing(m)
  BY DEF TlvNoHeader, TlvInvalid, TlvIncomplete, TlvUnderflow, TlvMessage, TlvRefused,
         TlvHeartbeatLogged
<1>2. /\ wpc[m] \in {"parse", "parse_full"} /\ alive
      /\ UNCHANGED <<mpc, conn_info_queue_, notified, conns, masterOf,
                     sent, onwire, input, torn>>
  BY <1>1 DEF Parsing, masterVars
<1>4. Outcome(m)
  <2>1. CASE TlvNoHeader(m) \/ TlvIncomplete(m)
    BY <1>2, <2>1 DEF TlvNoHeader, TlvIncomplete, ReadAgainOr, Outcome
  <2>2. CASE TlvInvalid(m) \/ TlvRefused(m)
    BY <2>2 DEF TlvInvalid, TlvRefused, Outcome
  <2>3. CASE TlvUnderflow(m) \/ TlvMessage(m) \/ TlvHeartbeatLogged(m)
    BY <2>3 DEF TlvUnderflow, TlvMessage, TlvHeartbeatLogged, Outcome, workerVars
  <2> QED
    BY <2>1, <2>2, <2>3
<1> QED
  BY <1>2, <1>4

\* ... and none of these ends confuses the connections.
LEMMA ParseControl ==
    ASSUME TypeOK, Control, NEW m \in Masters, wpc[m] \in {"parse", "parse_full"}, Outcome(m),
           UNCHANGED <<conns, masterOf, conn_info_queue_, notified, mpc, input>>
    PROVE  /\ Control'
           /\ wpc' \in [Masters -> {"loop", "read", "parse", "parse_full", "spin"}]
           /\ cb' \in [Masters -> Conns \cup {NoConn}]
           /\ cstate' \in [Conns -> {"none", "queued", "served", "leaked", "closed"}]
           /\ \A w \in Masters : w # m => wpc'[w] = wpc[w] /\ cb'[w] = cb[w]
           /\ wpc'[m] \in Busy => cb'[m] = cb[m]
<1> USE DEF Control
<1>1. cb[m] \in Conns /\ masterOf[cb[m]] = m /\ cstate[cb[m]] = "served"
  BY DEF Serving, Busy
<1>2. CASE CloseErrorConn(m, cb[m])
  <2>1. CloseConn(cb[m]) /\ Return(m)
    BY <1>2 DEF CloseErrorConn
  <2>2. Control'
    BY <1>1, <2>1, CloseControl
  <2>3. cstate' \in [Conns -> {"none", "queued", "served", "leaked", "closed"}]
    BY <2>1 DEF CloseConn, TypeOK
  <2> QED
    BY <2>1, <2>2, <2>3, Returned
<1>3. CASE wpc[m] = "parse" /\ Return(m) /\ UNCHANGED cstate
  <2>1. /\ wpc' \in [Masters -> {"loop", "read", "parse", "parse_full", "spin"}]
        /\ cb' \in [Masters -> Conns \cup {NoConn}]
        /\ wpc'[m] \notin Busy
        /\ \A w \in Masters : w # m => wpc'[w] = wpc[w] /\ cb'[w] = cb[w]
    BY <1>3, Returned
  <2>2. Serving' /\ Fresh' /\ Queue'
    BY <1>3, <2>1 DEF Serving, Fresh, Queue
  <2>3. Drained'
    BY <2>1 DEF Drained, Busy
  <2>4. Leftover'
    <3> SUFFICES ASSUME NEW d \in Conns, input[d] # 0
                 PROVE  \/ cstate[d] = "closed"
                        \/ /\ cb'[masterOf[d]] = d
                           /\ wpc'[masterOf[d]] \in {"read", "parse_full", "spin"}
      BY <1>3 DEF Leftover
    <3>1. /\ masterOf[d] \in Masters
          /\ \/ cstate[d] = "closed"
             \/ /\ cb[masterOf[d]] = d
                /\ wpc[masterOf[d]] \in {"read", "parse_full", "spin"}
      BY DEF Leftover, TypeOK
    <3> QED
      BY <1>3, <2>1, <3>1
  <2> QED
    BY <1>3, <2>1, <2>2, <2>3, <2>4 DEF TypeOK
<1>4. ASSUME NEW pc \in {"read", "spin"}, pc = "read" => wpc[m] = "parse_full",
             wpc' = [wpc EXCEPT ![m] = pc], UNCHANGED <<cb, cstate>>
      PROVE  /\ Control'
             /\ wpc' \in [Masters -> {"loop", "read", "parse", "parse_full", "spin"}]
             /\ \A w \in Masters : w # m => wpc'[w] = wpc[w]
  <2>1. /\ wpc' \in [Masters -> {"loop", "read", "parse", "parse_full", "spin"}]
        /\ wpc'[m] = pc
        /\ \A w \in Masters : w # m => wpc'[w] = wpc[w]
    BY <1>4 DEF TypeOK
  <2>2. Serving' /\ Fresh' /\ Queue'
    BY <1>1, <1>4, <2>1 DEF Serving, Fresh, Queue
  <2>3. Drained'
    BY <1>4, <2>1 DEF Drained
  <2>4. Leftover'
    BY <1>4, <2>1 DEF Leftover, TypeOK
  <2> QED
    BY <2>1, <2>2, <2>3, <2>4
<1>5. CASE UNCHANGED <<wpc, cb, cstate>>
  BY <1>5, SMTT(30) DEF Serving, Fresh, Queue, Drained, Leftover, TypeOK
<1>6. CASE \/ wpc[m] = "parse_full" /\ wpc' = [wpc EXCEPT ![m] = "read"] /\ UNCHANGED <<cb, cstate>>
           \/ Spin(m) /\ UNCHANGED cstate
  BY <1>4, <1>6 DEF Spin, TypeOK
<1> QED
  BY <1>2, <1>3, <1>5, <1>6 DEF Outcome

\* A look at the buffer that consumes nothing.
LEMMA KeepStep ==
    ASSUME WorkerInv, NEW m \in Masters, wpc[m] \in {"parse", "parse_full"}, Outcome(m),
           UNCHANGED <<mpc, conn_info_queue_, notified, conns, masterOf,
                       sent, onwire, input, torn, in_buffer_len, done>>,
           alive' \in BOOLEAN, HangsOnlyOnTorn'
    PROVE  WorkerInv'
<1> USE DEF WorkerInv
<1>1. /\ Control'
      /\ wpc' \in [Masters -> {"loop", "read", "parse", "parse_full", "spin"}]
      /\ cb' \in [Masters -> Conns \cup {NoConn}]
      /\ cstate' \in [Conns -> {"none", "queued", "served", "leaked", "closed"}]
      /\ \A w \in Masters : w # m => wpc'[w] = wpc[w] /\ cb'[w] = cb[w]
      /\ wpc'[m] \in Busy => cb'[m] = cb[m]
  BY ParseControl DEF Control
<1>2. TypeOK'
  BY <1>1 DEF TypeOK
<1>4. Account' /\ NothingSkipped' /\ WholeReads'
  BY SameAccount DEF SameData
<1> QED
  BY <1>1, <1>2, <1>4 DEF Control

\* The words of the first n messages that are not handled yet.
FrontWords(c, n) == WordsEnd(sent[c])[done[c] + n] - WordsEnd(sent[c])[done[c]]

\* The words of the messages that are not handled yet.
LEMMA FrontFacts ==
    ASSUME WorkerInv, NEW c \in Conns
    PROVE  /\ sent[c] \in Seq(Msgs) /\ Len(sent[c]) \in Nat
           /\ done[c] \in 0 .. Len(sent[c])
           /\ in_buffer_len[c] \in Nat /\ input[c] \in Nat /\ onwire[c] \in Nat
           /\ WordsEnd(sent[c])[done[c]] \in Nat
           /\ \A n \in 0 .. Len(sent[c]) - done[c] :
                 /\ done[c] + n \in 0 .. Len(sent[c])
                 /\ FrontWords(c, n) \in Nat
                 /\ WordsEnd(sent[c])[done[c] + n] = WordsEnd(sent[c])[done[c]] + FrontWords(c, n)
           /\ FrontWords(c, 0) = 0
           /\ \A i, j \in 0 .. Len(sent[c]) - done[c] :
                 i <= j => FrontWords(c, i) <= FrontWords(c, j)
           /\ WordsEnd(sent[c])[done[c]] + in_buffer_len[c] + input[c] + onwire[c] = Words(c)
<1> USE DEF WorkerInv
<1>1. /\ sent[c] \in Seq(Msgs) /\ Len(sent[c]) \in Nat /\ done[c] \in 0 .. Len(sent[c])
      /\ in_buffer_len[c] \in Nat /\ input[c] \in Nat /\ onwire[c] \in Nat
  BY DEF TypeOK, Account
<1> DEFINE W == WordsEnd(sent[c])
<1>2. /\ \A n \in 0 .. Len(sent[c]) : W[n] \in Nat
      /\ \A i, j \in 0 .. Len(sent[c]) : i <= j => W[i] <= W[j]
  BY <1>1, WordsFacts
<1>3. \A n : FrontWords(c, n) = W[done[c] + n] - W[done[c]]
  BY DEF FrontWords
<1>4. W[done[c]] + in_buffer_len[c] + input[c] + onwire[c] = Words(c)
  BY DEF NothingSkipped
<1> HIDE DEF W
<1>5. \A n \in 0 .. Len(sent[c]) - done[c] : done[c] + n \in 0 .. Len(sent[c])
  BY <1>1
<1>6. \A n \in 0 .. Len(sent[c]) - done[c] : W[done[c]] <= W[done[c] + n]
  <2> TAKE n \in 0 .. Len(sent[c]) - done[c]
  <2>1. done[c] <= done[c] + n
    BY <1>1
  <2> QED
    BY <1>1, <1>2, <1>5, <2>1
<1>7. \A n \in 0 .. Len(sent[c]) - done[c] :
         FrontWords(c, n) \in Nat /\ W[done[c] + n] = W[done[c]] + FrontWords(c, n)
  <2> TAKE n \in 0 .. Len(sent[c]) - done[c]
  <2>1. PICK a \in Nat : a = W[done[c]]
    BY <1>1, <1>2
  <2>2. PICK b \in Nat : b = W[done[c] + n]
    BY <1>2, <1>5
  <2>3. a <= b /\ FrontWords(c, n) = b - a
    BY <1>3, <1>6, <2>1, <2>2
  <2> QED
    BY <2>1, <2>2, <2>3
<1>8. ASSUME NEW i \in 0 .. Len(sent[c]) - done[c], NEW j \in 0 .. Len(sent[c]) - done[c],
             i <= j
      PROVE  FrontWords(c, i) <= FrontWords(c, j)
  <2>1. done[c] + i <= done[c] + j
    BY <1>1, <1>8
  <2>2. W[done[c] + i] <= W[done[c] + j]
    BY <1>2, <1>5, <2>1
  <2>3. /\ W[done[c] + i] = W[done[c]] + FrontWords(c, i) /\ FrontWords(c, i) \in Nat
        /\ W[done[c] + j] = W[done[c]] + FrontWords(c, j) /\ FrontWords(c, j) \in Nat
    BY <1>7
  <2>4. W[done[c]] \in Nat
    BY <1>1, <1>2
  <2> QED
    BY <2>2, <2>3, <2>4
<1>9. FrontWords(c, 0) = 0
  <2>1. done[c] + 0 = done[c] /\ W[done[c]] \in Nat
    BY <1>1, <1>2
  <2> QED
    BY <1>3, <2>1
<1> QED
  BY <1>1, <1>2, <1>4, <1>5, <1>7, <1>8, <1>9 DEF W

\* Data in the buffer belongs to a message.
LEMMA FrontMessage ==
    ASSUME WorkerInv, NEW c \in Conns, in_buffer_len[c] > 0
    PROVE  /\ 1 \in 0 .. Len(sent[c]) - done[c]
           /\ done[c] + 1 \in 1 .. Len(sent[c])
           /\ FrontMsg(c) \in Msgs
           /\ FrontWords(c, 1) = FrontMsg(c).len
<1>1. /\ sent[c] \in Seq(Msgs) /\ Len(sent[c]) \in Nat /\ done[c] \in 0 .. Len(sent[c])
      /\ in_buffer_len[c] \in Nat /\ input[c] \in Nat /\ onwire[c] \in Nat
      /\ WordsEnd(sent[c])[done[c]] \in Nat
      /\ WordsEnd(sent[c])[done[c]] + in_buffer_len[c] + input[c] + onwire[c] = Words(c)
  BY FrontFacts
<1>2. done[c] # Len(sent[c])
  BY <1>1 DEF Words
<1>3. done[c] + 1 \in 1 .. Len(sent[c]) /\ (done[c] + 1) - 1 = done[c]
  BY <1>1, <1>2
<1>4. WordsEnd(sent[c])[done[c] + 1] = WordsEnd(sent[c])[done[c]] + sent[c][done[c] + 1].len
  BY <1>1, <1>3, WordsFacts
<1>5. FrontMsg(c) \in Msgs /\ FrontMsg(c).len \in Nat
  BY <1>1, <1>3, MessageLength DEF FrontMsg
<1>6. FrontMsg(c) = sent[c][done[c] + 1]
  BY DEF FrontMsg
<1>7. FrontWords(c, 1) = WordsEnd(sent[c])[done[c] + 1] - WordsEnd(sent[c])[done[c]]
  BY DEF FrontWords
<1>8. FrontWords(c, 1) = FrontMsg(c).len
  <2>1. PICK a \in Nat : a = WordsEnd(sent[c])[done[c]]
    BY <1>1
  <2>2. PICK len \in Nat : len = FrontMsg(c).len
    BY <1>5
  <2>3. WordsEnd(sent[c])[done[c] + 1] = a + len
    BY <1>4, <1>6, <2>1, <2>2
  <2> QED
    BY <1>7, <2>1, <2>2, <2>3
<1>9. 1 \in 0 .. Len(sent[c]) - done[c]
  BY <1>1, <1>3
<1> QED
  BY <1>3, <1>5, <1>8, <1>9

\* If no read was torn, the callback's buffer ends with a message.
LEMMA UntornEnds ==
    ASSUME WorkerInv, NEW c \in Conns, ~torn[c], input[c] = 0, in_buffer_len[c] > 0
    PROVE  \E n \in 1 .. Len(sent[c]) - done[c] : FrontWords(c, n) = in_buffer_len[c]
<1>1. /\ sent[c] \in Seq(Msgs) /\ Len(sent[c]) \in Nat /\ done[c] \in 0 .. Len(sent[c])
      /\ in_buffer_len[c] \in Nat /\ onwire[c] \in Nat
      /\ WordsEnd(sent[c])[done[c]] \in Nat
      /\ WordsEnd(sent[c])[done[c]] + in_buffer_len[c] + 0 + onwire[c] = Words(c)
  BY FrontFacts
<1>2. PICK k \in 0 .. Len(sent[c]) : WordsEnd(sent[c])[k] = Words(c) - onwire[c]
  BY DEF WorkerInv, WholeReads, Boundary
<1>3. WordsEnd(sent[c])[k] = WordsEnd(sent[c])[done[c]] + in_buffer_len[c]
  BY <1>1, <1>2
<1>4. k > done[c]
  <2> SUFFICES ASSUME k <= done[c]
               PROVE  FALSE
    BY <1>1
  <2>1. WordsEnd(sent[c])[k] <= WordsEnd(sent[c])[done[c]]
    BY <1>1, WordsFacts
  <2> QED
    BY <1>1, <1>3, <2>1
<1>5. k - done[c] \in 1 .. Len(sent[c]) - done[c] /\ done[c] + (k - done[c]) = k
  BY <1>1, <1>4
<1>6. FrontWords(c, k - done[c]) = in_buffer_len[c]
  BY <1>1, <1>3, <1>5 DEF FrontWords
<1> QED
  BY <1>5, <1>6

\* A look at the buffer that consumes the whole message at its front.
LEMMA ConsumeStep ==
    ASSUME WorkerInv, NEW m \in Masters, wpc[m] \in {"parse", "parse_full"}, Outcome(m),
           UNCHANGED <<mpc, conn_info_queue_, notified, conns, masterOf,
                       sent, onwire, input, torn>>,
           1 \in 0 .. Len(sent[cb[m]]) - done[cb[m]],
           FrontWords(cb[m], 1) <= in_buffer_len[cb[m]],
           msg_length(cb[m]) = FrontWords(cb[m], 1), Consume(cb[m]),
           alive' = alive, HangsOnlyOnTorn'
    PROVE  WorkerInv'
<1> USE DEF WorkerInv
<1> DEFINE c == cb[m]
<1>1. c \in Conns /\ masterOf[c] = m
  BY DEF Serving, Busy
<1> HIDE DEF c
<1>2. /\ sent[c] \in Seq(Msgs) /\ Len(sent[c]) \in Nat /\ done[c] \in 0 .. Len(sent[c])
      /\ in_buffer_len[c] \in 0 .. CONN_BUFFER_LEN /\ CONN_BUFFER_LEN \in Nat
      /\ WordsEnd(sent[c])[done[c]] \in Nat /\ input[c] \in Nat /\ onwire[c] \in Nat
      /\ done[c] + 1 \in 0 .. Len(sent[c]) /\ FrontWords(c, 1) \in Nat
      /\ WordsEnd(sent[c])[done[c] + 1] = WordsEnd(sent[c])[done[c]] + FrontWords(c, 1)
  <2>1. in_buffer_len[c] \in 0 .. CONN_BUFFER_LEN /\ CONN_BUFFER_LEN \in Nat
    BY <1>1, WorkerAssumption DEF TypeOK
  <2>2. 1 \in 0 .. Len(sent[c]) - done[c]
    BY DEF c
  <2> QED
    BY <1>1, <2>1, <2>2, FrontFacts
<1>3. /\ done' = [done EXCEPT ![c] = @ + 1]
      /\ in_buffer_len' = [in_buffer_len EXCEPT ![c] = @ - FrontWords(c, 1)]
  BY DEF Consume, c
<1>4. FrontWords(c, 1) <= in_buffer_len[c]
  BY DEF c
<1>5. /\ done'[c] = done[c] + 1 /\ in_buffer_len'[c] = in_buffer_len[c] - FrontWords(c, 1)
      /\ \A d \in Conns : d # c => done'[d] = done[d] /\ in_buffer_len'[d] = in_buffer_len[d]
  BY <1>1, <1>3 DEF TypeOK
<1>6. /\ Control'
      /\ wpc' \in [Masters -> {"loop", "read", "parse", "parse_full", "spin"}]
      /\ cb' \in [Masters -> Conns \cup {NoConn}]
      /\ cstate' \in [Conns -> {"none", "queued", "served", "leaked", "closed"}]
      /\ \A w \in Masters : w # m => wpc'[w] = wpc[w] /\ cb'[w] = cb[w]
      /\ wpc'[m] \in Busy => cb'[m] = cb[m]
  BY ParseControl DEF Control
<1>7. TypeOK'
  <2>1. in_buffer_len[c] - FrontWords(c, 1) \in 0 .. CONN_BUFFER_LEN /\ done[c] + 1 \in Nat
    <3>1. PICK f \in Nat : f = FrontWords(c, 1)
      BY <1>2
    <3>2. PICK l \in 0 .. CONN_BUFFER_LEN : l = in_buffer_len[c]
      BY <1>1 DEF TypeOK
    <3>3. f <= l
      BY <1>4, <3>1, <3>2
    <3>4. l - f \in 0 .. CONN_BUFFER_LEN
      BY <3>3, WorkerAssumption
    <3>5. done[c] + 1 \in Nat
      BY <1>2
    <3> QED
      BY <3>1, <3>2, <3>4, <3>5
  <2>2. done \in [Conns -> Nat] /\ in_buffer_len \in [Conns -> 0 .. CONN_BUFFER_LEN]
    BY DEF TypeOK
  <2>3. done' \in [Conns -> Nat]
    BY <1>3, <2>1, <2>2
  <2>4. in_buffer_len' \in [Conns -> 0 .. CONN_BUFFER_LEN]
    BY <1>3, <2>1, <2>2
  <2> QED
    BY <1>6, <2>3, <2>4 DEF TypeOK
<1>9. Account'
  BY <1>2, <1>5, SMTT(30) DEF Account
<1>10. NothingSkipped'
  <2> SUFFICES ASSUME NEW d \in Conns
               PROVE  WordsEnd(sent[d])[done'[d]] + in_buffer_len'[d] + input[d] + onwire[d]
                        = Words(d)
    BY DEF NothingSkipped, Words
  <2>1. WordsEnd(sent[d])[done[d]] + in_buffer_len[d] + input[d] + onwire[d] = Words(d)
    BY DEF NothingSkipped
  <2>2. CASE d = c
    BY <1>2, <1>5, <2>1, <2>2
  <2>3. CASE d # c
    BY <1>5, <2>1, <2>3
  <2> QED
    BY <2>2, <2>3
<1>11. WholeReads'
  BY DEF WholeReads, Boundary, Words
<1> QED
  BY <1>6, <1>7, <1>9, <1>10, <1>11 DEF Control

\* A step of a worker that hangs, if it does, on torn data.
LEMMA OthersAsBefore ==
    ASSUME WorkerInv, NEW m \in Masters, UNCHANGED torn,
           \A w \in Masters : w # m => wpc'[w] = wpc[w] /\ cb'[w] = cb[w],
           wpc'[m] = "spin" => torn[cb'[m]]
    PROVE  HangsOnlyOnTorn'
BY DEF WorkerInv, HangsOnlyOnTorn

\* TLV: too little for a header, or a header that is refused.
LEMMA TlvRejectStep ==
    ASSUME WorkerInv, NEW m \in Masters, TlvNoHeader(m) \/ TlvInvalid(m)
    PROVE  WorkerInv'
<1>1. /\ wpc[m] \in {"parse", "parse_full"} /\ alive /\ Outcome(m)
      /\ UNCHANGED <<mpc, conn_info_queue_, notified, conns, masterOf,
                     sent, onwire, input, torn>>
  BY ParseOutcome
<1>2. alive' = alive /\ UNCHANGED <<in_buffer_len, done>>
  BY DEF TlvNoHeader, TlvInvalid
<1>3. /\ \A w \in Masters : w # m => wpc'[w] = wpc[w] /\ cb'[w] = cb[w]
  BY <1>1, ParseControl DEF WorkerInv, Control
<1>4. wpc'[m] # "spin"
  <2>1. CASE Return(m)
    BY <2>1, Returned DEF WorkerInv, Busy
  <2>2. CASE wpc' = [wpc EXCEPT ![m] = "read"]
    BY <2>2 DEF WorkerInv, TypeOK
  <2> QED
    BY <2>1, <2>2 DEF TlvNoHeader, TlvInvalid, ReadAgainOr, CloseErrorConn
<1>5. HangsOnlyOnTorn'
  BY <1>1, <1>2, <1>3, <1>4, OthersAsBefore
<1> QED
  BY <1>1, <1>2, <1>5, KeepStep

\* TLV: a message is incomplete.  Where no read was torn that happens only with
\* a full buffer, and then the callback reads again.
LEMMA TlvIncompleteStep ==
    ASSUME WorkerInv, NEW m \in Masters, TlvIncomplete(m)
    PROVE  WorkerInv'
<1> DEFINE c == cb[m]
<1>1. /\ wpc[m] \in {"parse", "parse_full"} /\ alive /\ Outcome(m)
      /\ UNCHANGED <<mpc, conn_info_queue_, notified, conns, masterOf,
                     sent, onwire, input, torn>>
  BY ParseOutcome
<1>2. /\ alive' = alive /\ UNCHANGED <<in_buffer_len, done>>
      /\ HeaderOk(c) /\ in_buffer_len[c] < msg_length(c) /\ ReadAgainOr(m, Spin(m))
  BY DEF TlvIncomplete
<1>3. \A w \in Masters : w # m => wpc'[w] = wpc[w] /\ cb'[w] = cb[w]
  BY <1>1, ParseControl DEF WorkerInv, Control
<1>4. c \in Conns
  BY <1>1 DEF WorkerInv, Serving, Busy
<1> HIDE DEF c
<1>5. ASSUME wpc[m] = "parse", ~torn[c]
      PROVE  FALSE
  <2>1. input[c] = 0
    BY <1>5 DEF WorkerInv, Drained, c
  <2>2. in_buffer_len[c] \in Nat /\ in_buffer_len[c] >= 2
    BY <1>2, <1>4 DEF HeaderOk, kMsgHeaderSize, WorkerInv, TypeOK
  <2>3. in_buffer_len[c] > 0
    BY <2>2
  <2>4. /\ 1 \in 0 .. Len(sent[c]) - done[c]
        /\ FrontMsg(c) \in Msgs /\ FrontWords(c, 1) = FrontMsg(c).len
    BY <1>4, <2>3, FrontMessage
  <2>5. PICK n \in 1 .. Len(sent[c]) - done[c] : FrontWords(c, n) = in_buffer_len[c]
    BY <1>4, <1>5, <2>1, <2>3, UntornEnds
  <2>6. FrontWords(c, 1) <= FrontWords(c, n)
    BY <1>4, <2>4, FrontFacts
  <2>7. FrontMsg(c).len \in Nat /\ FrontMsg(c).len >= 3
    BY <2>4, MessageLength
  <2>8. in_buffer_len[c] >= 3 /\ FrontMsg(c).len <= in_buffer_len[c]
    BY <2>2, <2>4, <2>5, <2>6, <2>7
  <2>9. msg_length(c) = Claims(FrontMsg(c))
    BY <2>8 DEF msg_length, LengthWord
  <2>10. msg_length(c) <= in_buffer_len[c] /\ msg_length(c) \in Nat
    BY <2>2, <2>7, <2>8, <2>9 DEF Claims, kMsgHeaderSize
  <2> QED
    BY <1>2, <2>2, <2>10
<1>6. wpc'[m] = "spin" => torn[cb'[m]]
  <2>1. CASE wpc[m] = "parse_full"
    BY <1>2, <2>1 DEF ReadAgainOr, WorkerInv, TypeOK
  <2>2. CASE wpc[m] = "parse"
    BY <1>2, <1>5, <2>2 DEF ReadAgainOr, Spin, c
  <2> QED
    BY <1>1, <2>1, <2>2
<1>7. HangsOnlyOnTorn'
  BY <1>1, <1>2, <1>3, <1>6, OthersAsBefore
<1> QED
  BY <1>1, <1>2, <1>7, KeepStep

\* TLV: the process dies of a message that is too short for its length word, or of
\* the log line of a heartbeat.
LEMMA TlvDiesStep ==
    ASSUME WorkerInv, NEW m \in Masters, TlvUnderflow(m) \/ TlvHeartbeatLogged(m)
    PROVE  WorkerInv'
<1>1. /\ wpc[m] \in {"parse", "parse_full"} /\ alive /\ Outcome(m)
      /\ UNCHANGED <<mpc, conn_info_queue_, notified, conns, masterOf,
                     sent, onwire, input, torn>>
  BY ParseOutcome
<1>2. alive' = FALSE /\ UNCHANGED <<in_buffer_len, done, wpc, cb>>
  BY DEF TlvUnderflow, TlvHeartbeatLogged, workerVars
<1>3. HangsOnlyOnTorn'
  BY <1>1, <1>2 DEF WorkerInv, HangsOnlyOnTorn
<1> QED
  BY <1>1, <1>2, <1>3, KeepStep

\* TLV: a whole message is handled, or refused and the connection closed.
LEMMA TlvMessageStep ==
    ASSUME WorkerInv, NEW m \in Masters, TlvMessage(m) \/ TlvRefused(m)
    PROVE  WorkerInv'
<1> DEFINE c == cb[m]
<1>1. /\ wpc[m] \in {"parse", "parse_full"} /\ alive /\ Outcome(m)
      /\ UNCHANGED <<mpc, conn_info_queue_, notified, conns, masterOf,
                     sent, onwire, input, torn>>
  BY ParseOutcome
<1>2. /\ alive' = alive
      /\ HeaderOk(c) /\ in_buffer_len[c] >= msg_length(c) /\ msg_length(c) >= LengthWord
  BY DEF TlvMessage, TlvRefused, WholeMessage
<1>3. \A w \in Masters : w # m => wpc'[w] = wpc[w] /\ cb'[w] = cb[w]
  BY <1>1, ParseControl DEF WorkerInv, Control
<1>4. c \in Conns
  BY <1>1 DEF WorkerInv, Serving, Busy
<1>5. CASE Consume(c) /\ UNCHANGED <<wpc, cb, cstate>>
  <2> HIDE DEF c
  <2>1. in_buffer_len[c] \in Nat /\ msg_length(c) \in 2 .. CONN_BUFFER_LEN
        /\ CONN_BUFFER_LEN \in Nat
    BY <1>2, <1>4, WorkerAssumption DEF WorkerInv, TypeOK, HeaderOk, kMsgHeaderSize
  <2>2. in_buffer_len[c] >= 3 /\ in_buffer_len[c] > 0
    BY <1>2, <2>1 DEF LengthWord
  <2>3. /\ 1 \in 0 .. Len(sent[c]) - done[c]
        /\ FrontMsg(c) \in Msgs /\ FrontWords(c, 1) = FrontMsg(c).len
    BY <1>4, <2>2, FrontMessage
  <2>4. msg_length(c) = Claims(FrontMsg(c))
    BY <2>2 DEF msg_length, LengthWord
  <2>5. msg_length(c) = FrontMsg(c).len
    BY <1>2, <2>4 DEF Claims, LengthWord, kMsgHeaderSize
  <2>6. FrontWords(c, 1) <= in_buffer_len[c]
    BY <1>2, <2>1, <2>3, <2>5
  <2>7. wpc'[m] # "spin"
    BY <1>1, <1>5
  <2>8. HangsOnlyOnTorn'
    BY <1>1, <1>2, <1>3, <2>7, OthersAsBefore
  <2> QED
    BY <1>1, <1>2, <1>5, <2>3, <2>5, <2>6, <2>8, ConsumeStep DEF c
<1>6. CASE CloseErrorConn(m, c) /\ UNCHANGED <<in_buffer_len, done>>
  <2>1. wpc'[m] # "spin"
    BY <1>6, Returned DEF CloseErrorConn, WorkerInv, Busy
  <2>2. HangsOnlyOnTorn'
    BY <1>1, <1>2, <1>3, <2>1, OthersAsBefore
  <2> QED
    BY <1>1, <1>2, <1>6, <2>2, KeepStep
<1> QED
  BY <1>5, <1>6 DEF TlvMessage, TlvRefused, workerVars

-----------------------------------------------------------------------------
\* Every step preserves the invariant.
LEMMA WorkerStep == WorkerInv /\ [Next]_vars => WorkerInv'
<1> SUFFICES ASSUME WorkerInv, [Next]_vars
             PROVE  WorkerInv'
  OBVIOUS
<1>1. CASE UNCHANGED vars
  <2>1. TypeOK' /\ Control' /\ HangsOnlyOnTorn'
    <3>1. UNCHANGED <<alive, mpc, conn_info_queue_, notified, wpc, cb, conns,
                      masterOf, cstate, sent, onwire, input, in_buffer_len, done, torn>>
      BY <1>1 DEF vars, masterVars, workerVars, dataVars
    <3>2. TypeOK'
      BY <3>1 DEF WorkerInv, TypeOK
    <3>3. Serving' /\ Fresh' /\ Queue'
      BY <3>1 DEF WorkerInv, Serving, Fresh, Queue
    <3>4. Drained' /\ Leftover'
      BY <3>1 DEF WorkerInv, Drained, Leftover
    <3>5. HangsOnlyOnTorn'
      BY <3>1 DEF WorkerInv, HangsOnlyOnTorn
    <3> QED
      BY <3>2, <3>3, <3>4, <3>5 DEF Control
  <2>2. Account' /\ NothingSkipped' /\ WholeReads'
    BY <1>1, SameAccount DEF WorkerInv, SameData, vars, dataVars
  <2> QED
    BY <2>1, <2>2 DEF WorkerInv, Control
<1>2. ASSUME NEW c \in Conns, PeerSends(c)
      PROVE  WorkerInv'
  BY <1>2, PeerStep
<1>3. ASSUME NEW m \in Masters,
             AcceptCb(m) \/ WriteNotify(m) \/ RecvNotifiedCb(m)
               \/ ClientTcpErrorCb(m) \/ ReadEvent(m)
      PROVE  WorkerInv'
  BY <1>3, AcceptStep, NotifyStep, RecvStep, ErrorStep, ReadStep
<1>4. ASSUME NEW m \in Masters, Callback(m)
      PROVE  WorkerInv'
  BY <1>4, FillStep, TlvRejectStep, TlvIncompleteStep, TlvDiesStep, TlvMessageStep
     DEF Callback
<1>5. CASE RunMaster
  <2>1. /\ alive' \in BOOLEAN
        /\ UNCHANGED <<mpc, conn_info_queue_, notified, wpc, cb, conns, masterOf, cstate,
                       sent, onwire, input, in_buffer_len, done, torn>>
    BY <1>5 DEF RunMaster, masterVars, workerVars, dataVars
  <2>2. TypeOK'
    BY <2>1 DEF WorkerInv, TypeOK
  <2>3. Control' /\ HangsOnlyOnTorn'
    BY <2>1 DEF WorkerInv, Control, Serving, Fresh, Queue, Drained, Leftover, HangsOnlyOnTorn
  <2>4. Account' /\ NothingSkipped' /\ WholeReads'
    BY <2>1, SameAccount DEF WorkerInv, SameData
  <2> QED
    BY <2>2, <2>3, <2>4 DEF WorkerInv, Control
<1> QED
  BY <1>1, <1>2, <1>3, <1>4, <1>5 DEF Next, WorkerThread

\* The invariant holds in every reachable state.
THEOREM WorkerInvariance == Spec => []WorkerInv
<1> QED
  BY WorkerInitHolds, WorkerStep, PTL DEF Spec

\* Every variable has its type; in particular in_buffer_len never leaves the
\* buffer and never goes below zero when messages are dropped from its front.
THEOREM WorkerTypeCorrect == Spec => []TypeOK
<1>1. WorkerInv => TypeOK
  BY DEF WorkerInv
<1> QED
  BY WorkerInvariance, <1>1, PTL

\* For any buffer, message lengths and number of connections: no word of a
\* stream is dropped by ClientTcpReadCb or looked at as part of two messages.
THEOREM NothingEverSkipped == Spec => []NothingSkipped
<1>1. WorkerInv => NothingSkipped
  BY DEF WorkerInv
<1> QED
  BY WorkerInvariance, <1>1, PTL

\* For any buffer, message lengths and number of connections: ClientTcpReadCb goes
\* round for ever only on a connection on which a read ended inside a message.
THEOREM HangsOnlyOnTornHolds == Spec => []HangsOnlyOnTorn
<1>1. WorkerInv => HangsOnlyOnTorn
  BY DEF WorkerInv
<1> QED
  BY WorkerInvariance, <1>1, PTL

\* RecvNotifiedCb, which takes the front of the queue without a look at its size,
\* never finds it empty, and takes a connection that nobody has taken or closed.
THEOREM TakesQueuedConnection ==
    Spec => [][\A m \in Masters : RecvNotifiedCb(m) =>
                  /\ conn_info_queue_[m] # <<>>
                  /\ masterOf[Head(conn_info_queue_[m])] = m
                  /\ cstate[Head(conn_info_queue_[m])] = "queued"]_vars
<1> DEFINE Takes == \A m \in Masters : RecvNotifiedCb(m) =>
                       /\ conn_info_queue_[m] # <<>>
                       /\ masterOf[Head(conn_info_queue_[m])] = m
                       /\ cstate[Head(conn_info_queue_[m])] = "queued"
<1>1. WorkerInv => Takes
  <2> SUFFICES ASSUME WorkerInv, NEW m \in Masters, notified[m] > 0
               PROVE  /\ conn_info_queue_[m] # <<>>
                      /\ masterOf[Head(conn_info_queue_[m])] = m
                      /\ cstate[Head(conn_info_queue_[m])] = "queued"
    BY DEF RecvNotifiedCb
  <2>1. conn_info_queue_[m] \in Seq(Conns) /\ notified[m] \in Nat
    BY DEF WorkerInv, TypeOK
  <2>2. Len(conn_info_queue_[m]) >= 1
    BY <2>1 DEF WorkerInv, Queue
  <2>3. conn_info_queue_[m] # <<>> /\ Head(conn_info_queue_[m]) = conn_info_queue_[m][1]
    BY <2>1, <2>2
  <2>4. 1 \in 1 .. Len(conn_info_queue_[m])
    BY <2>1, <2>2
  <2> QED
    BY <2>3, <2>4 DEF WorkerInv, Queue
<1>2. WorkerInv => [Takes]_vars
  BY <1>1
<1> HIDE DEF Takes
<1>3. Spec => [][Takes]_vars
  BY WorkerInvariance, <1>2, PTL
<1> QED
  BY <1>3 DEF Takes

-----------------------------------------------------------------------------
(* CrlfFraming: the stream.                                                 *)

\* A body is made of bytes other than CR and LF.
LEMMA BodyBytes ==
    ASSUME NEW b \in Bodies
    PROVE  /\ b \in Seq(Byte) /\ Len(b) \in Nat
           /\ \A i \in 1 .. Len(b) : b[i] \in Byte /\ b[i] # CR /\ b[i] # LF
<1>1. b \in Seq(Byte \ {CR, LF})
  BY FramingAssumption
<1> HIDE DEF Byte, CR, LF
<1> QED
  BY <1>1

\* The bytes of a message on the wire.
LEMMA FrameBytes ==
    ASSUME NEW b \in Bodies
    PROVE  /\ b \o Crlf \in Seq(Byte)
           /\ Len(b \o Crlf) = Len(b) + 2
           /\ \A i \in 1 .. Len(b) : (b \o Crlf)[i] = b[i]
           /\ (b \o Crlf)[Len(b) + 1] = CR /\ (b \o Crlf)[Len(b) + 2] = LF
<1>1. b \in Seq(Byte) /\ Len(b) \in Nat
  BY BodyBytes
<1>2. CR \in Byte /\ LF \in Byte
  BY DEF CR, LF, Byte
<1>3. Crlf \in Seq(Byte) /\ Len(Crlf) = 2 /\ Crlf[1] = CR /\ Crlf[2] = LF
  BY <1>2 DEF Crlf
<1> HIDE DEF Crlf
<1>4. /\ b \o Crlf \in Seq(Byte) /\ Len(b \o Crlf) = Len(b) + Len(Crlf)
      /\ \A i \in 1 .. Len(b) + Len(Crlf) : (b \o Crlf)[i] =
                     IF i <= Len(b) THEN b[i] ELSE Crlf[i - Len(b)]
  BY <1>1, <1>3, ConcatProperties
<1> QED
  BY <1>1, <1>3, <1>4

\* What a function must satisfy to give the first k of the pieces w, put together.
IsConcat(f, w, k, X) ==
    /\ f \in [0 .. k -> Seq(X)]
    /\ f[0] = <<>>
    /\ \A n \in 1 .. k : f[n] = f[n - 1] \o w[n]

\* There is such a function for every k.
LEMMA ConcatExists ==
    ASSUME NEW X, NEW N \in Nat, NEW w \in [1 .. N -> Seq(X)]
    PROVE  \E f : IsConcat(f, w, N, X)
<1> DEFINE S == {k \in Nat : k <= N => \E f : IsConcat(f, w, k, X)}
<1>1. 0 \in S
  <2>1. IsConcat([n \in 0 .. 0 |-> <<>>], w, 0, X)
    BY DEF IsConcat
  <2> QED
    BY <2>1
<1>2. ASSUME NEW k \in Nat, k \in S
      PROVE  k + 1 \in S
  <2> SUFFICES ASSUME k + 1 <= N
               PROVE  \E f : IsConcat(f, w, k + 1, X)
    OBVIOUS
  <2>1. PICK f : IsConcat(f, w, k, X)
    BY <1>2
  <2> DEFINE last == f[k] \o w[k + 1]
  <2>2. last \in Seq(X)
    <3>1. f[k] \in Seq(X)
      BY <2>1 DEF IsConcat
    <3>2. w[k + 1] \in Seq(X)
      OBVIOUS
    <3> QED
      BY <3>1, <3>2, ConcatProperties
  <2> HIDE DEF last
  <2> DEFINE g == [n \in 0 .. k + 1 |-> IF n = k + 1 THEN last ELSE f[n]]
  <2>3. /\ g \in [0 .. k + 1 -> Seq(X)] /\ g[0] = <<>> /\ g[k + 1] = last
    <3>1. /\ f \in [0 .. k -> Seq(X)] /\ f[0] = <<>> /\ 0 # k + 1 /\ 0 \in 0 .. k + 1
          /\ \A n \in 0 .. k + 1 : n # k + 1 => n \in 0 .. k
      BY <2>1 DEF IsConcat
    <3>2. \A n \in 0 .. k + 1 : (IF n = k + 1 THEN last ELSE f[n]) \in Seq(X)
      BY <2>2, <3>1
    <3>3. k + 1 \in 0 .. k + 1
      OBVIOUS
    <3> QED
      BY <3>1, <3>2, <3>3
  <2>4. \A n \in 0 .. k : g[n] = f[n]
    OBVIOUS
  <2> HIDE DEF g
  <2>5. ASSUME NEW n \in 1 .. k + 1
        PROVE  g[n] = g[n - 1] \o w[n]
    <3>1. CASE n = k + 1
      <4>1. n - 1 = k /\ g[k] = f[k]
        BY <2>4, <3>1
      <4> QED
        BY <2>3, <3>1, <4>1, Zenon DEF last
    <3>2. CASE n # k + 1
      <4>1. n \in 1 .. k /\ n \in 0 .. k /\ n - 1 \in 0 .. k
        BY <3>2
      <4> QED
        BY <2>1, <2>4, <4>1 DEF IsConcat
    <3> QED
      BY <3>1, <3>2
  <2>6. IsConcat(g, w, k + 1, X)
    BY <2>3, <2>5 DEF IsConcat
  <2> QED
    BY <2>6
<1>3. \A k \in Nat : k \in S
  <2> HIDE DEF S
  <2> QED
    BY <1>1, <1>2, NaturalsAllIn
<1> QED
  BY <1>3

\* What a function must satisfy to give the bytes of the first k messages.
IsBytes(f, msgs, k) ==
    /\ f \in [0 .. k -> Seq(Byte)]
    /\ f[0] = <<>>
    /\ \A n \in 1 .. k : f[n] = f[n - 1] \o (msgs[n] \o Crlf)

\* There is such a function.
LEMMA BytesExist ==
    ASSUME NEW msgs \in Seq(Bodies)
    PROVE  \E f : IsBytes(f, msgs, Len(msgs))
<1> DEFINE w == [n \in 1 .. Len(msgs) |-> msgs[n] \o Crlf]
<1>1. Len(msgs) \in Nat /\ \A n \in 1 .. Len(msgs) : msgs[n] \in Bodies
  OBVIOUS
<1>2. \A n \in 1 .. Len(msgs) : msgs[n] \o Crlf \in Seq(Byte)
  BY <1>1, FrameBytes
<1>3. w \in [1 .. Len(msgs) -> Seq(Byte)]
  BY <1>2, Zenon
<1>4. \A n \in 1 .. Len(msgs) : w[n] = msgs[n] \o Crlf
  BY Zenon
<1> HIDE DEF w
<1>5. PICK f : IsConcat(f, w, Len(msgs), Byte)
  BY <1>1, <1>3, ConcatExists
<1> QED
  BY <1>4, <1>5, Zenon DEF IsConcat, IsBytes

\* The recursive equation that defines Bytes.
LEMMA BytesEquation ==
    ASSUME NEW msgs \in Seq(Bodies)
    PROVE  IsBytes(Bytes(msgs), msgs, Len(msgs))
<1> DEFINE Body(f) == [n \in 0 .. Len(msgs) |-> IF n = 0 THEN <<>>
                                               ELSE f[n - 1] \o (msgs[n] \o Crlf)]
<1>1. PICK f : IsBytes(f, msgs, Len(msgs))
  BY BytesExist
<1>2. Len(msgs) \in Nat
  OBVIOUS
<1>3. f = Body(f)
  <2>1. /\ f = [n \in 0 .. Len(msgs) |-> f[n]] /\ f[0] = <<>>
        /\ \A n \in 1 .. Len(msgs) : f[n] = f[n - 1] \o (msgs[n] \o Crlf)
    BY <1>1 DEF IsBytes
  <2>2. \A n \in 0 .. Len(msgs) : n = 0 \/ n \in 1 .. Len(msgs)
    BY <1>2
  <2>3. \A n \in 0 .. Len(msgs) : f[n] = IF n = 0 THEN <<>> ELSE f[n - 1] \o (msgs[n] \o Crlf)
    BY <2>1, <2>2, Zenon
  <2> QED
    BY <2>1, <2>3, Zenon
<1>4. Bytes(msgs) = CHOOSE g : g = Body(g)
  BY DEF Bytes
<1> DEFINE e == Bytes(msgs)
<1>5. e = Body(e)
  <2> HIDE DEF Body
  <2> QED
    BY <1>3, <1>4
<1> HIDE DEF e
<1>6. /\ e = [n \in 0 .. Len(msgs) |-> e[n]]
      /\ \A n \in 0 .. Len(msgs) :
            e[n] = IF n = 0 THEN <<>> ELSE e[n - 1] \o (msgs[n] \o Crlf)
  BY <1>5
<1>7. \A n \in Nat : n <= Len(msgs) => e[n] = f[n]
  <2> DEFINE S == {n \in Nat : n <= Len(msgs) => e[n] = f[n]}
  <2>1. 0 \in S
    <3>1. 0 \in 0 .. Len(msgs)
      BY <1>2
    <3>2. e[0] = <<>>
      BY <1>6, <3>1, Zenon
    <3> QED
      BY <1>1, <3>2 DEF IsBytes
  <2>2. ASSUME NEW n \in Nat, n \in S
        PROVE  n + 1 \in S
    <3> SUFFICES ASSUME n + 1 <= Len(msgs)
                 PROVE  e[n + 1] = f[n + 1]
      OBVIOUS
    <3>1. e[n] = f[n]
      BY <1>2, <2>2
    <3>2. n + 1 \in 1 .. Len(msgs) /\ n + 1 \in 0 .. Len(msgs) /\ (n + 1) - 1 = n /\ n + 1 # 0
      BY <1>2
    <3>3. e[n + 1] = e[n] \o (msgs[n + 1] \o Crlf)
      BY <1>6, <3>2
    <3>4. f[n + 1] = f[n] \o (msgs[n + 1] \o Crlf)
      BY <1>1, <3>2 DEF IsBytes
    <3> QED
      BY <3>1, <3>3, <3>4
  <2>3. \A n \in Nat : n \in S
    <3> HIDE DEF S
    <3> QED
      BY <2>1, <2>2, NaturalsAllIn
  <2> QED
    BY <2>3
<1>8. \A n \in 0 .. Len(msgs) : e[n] = f[n]
  BY <1>2, <1>7
<1>9. f = [n \in 0 .. Len(msgs) |-> f[n]]
  BY <1>1 DEF IsBytes
<1>10. e = f
  BY <1>6, <1>8, <1>9
<1> QED
  BY <1>1, <1>10 DEF e

\* Where the n-th message ends, and the stream, of any messages.
EndOf(msgs, n) == Len(Bytes(msgs)[n])
StreamOf(msgs) == Bytes(msgs)[Len(msgs)]

\* One message more.
LEMMA BytesStep ==
    ASSUME NEW msgs \in Seq(Bodies), NEW n \in 1 .. Len(msgs)
    PROVE  /\ msgs[n] \in Bodies /\ Len(msgs[n]) \in Nat
           /\ Bytes(msgs)[n] \in Seq(Byte) /\ Bytes(msgs)[n - 1] \in Seq(Byte)
           /\ EndOf(msgs, n) \in Nat /\ EndOf(msgs, n - 1) \in Nat
           /\ EndOf(msgs, n) = EndOf(msgs, n - 1) + Len(msgs[n]) + 2
           /\ \A p \in 1 .. EndOf(msgs, n - 1) : Bytes(msgs)[n][p] = Bytes(msgs)[n - 1][p]
           /\ \A i \in 1 .. Len(msgs[n]) : Bytes(msgs)[n][EndOf(msgs, n - 1) + i] = msgs[n][i]
           /\ Bytes(msgs)[n][EndOf(msgs, n) - 1] = CR
           /\ Bytes(msgs)[n][EndOf(msgs, n)] = LF
<1> DEFINE a == Bytes(msgs)[n - 1]
           b == msgs[n] \o Crlf
           s == Bytes(msgs)[n]
<1>1. msgs[n] \in Bodies /\ Len(msgs) \in Nat
  OBVIOUS
<1>2. IsBytes(Bytes(msgs), msgs, Len(msgs))
  BY BytesEquation
<1>3. n \in 0 .. Len(msgs) /\ n - 1 \in 0 .. Len(msgs)
  BY <1>1
<1>4. a \in Seq(Byte) /\ s \in Seq(Byte)
  BY <1>2, <1>3 DEF IsBytes
<1>5. s = a \o b
  BY <1>2, Zenon DEF IsBytes
<1>6. /\ b \in Seq(Byte) /\ Len(b) = Len(msgs[n]) + 2
      /\ \A i \in 1 .. Len(msgs[n]) : b[i] = msgs[n][i]
      /\ b[Len(msgs[n]) + 1] = CR /\ b[Len(msgs[n]) + 2] = LF
  BY <1>1, FrameBytes
<1>7. Len(msgs[n]) \in Nat
  BY <1>1, BodyBytes
<1>8. EndOf(msgs, n) = Len(s) /\ EndOf(msgs, n - 1) = Len(a)
  BY DEF EndOf
<1> HIDE DEF a, b, s
<1>9. /\ Len(s) = Len(a) + Len(b)
      /\ \A i \in 1 .. Len(a) + Len(b) : s[i] = IF i <= Len(a) THEN a[i] ELSE b[i - Len(a)]
  <2>1. /\ Len(a \o b) = Len(a) + Len(b)
        /\ \A i \in 1 .. Len(a) + Len(b) :
              (a \o b)[i] = IF i <= Len(a) THEN a[i] ELSE b[i - Len(a)]
    BY <1>4, <1>6, ConcatProperties
  <2> QED
    BY <1>5, <2>1, Zenon
<1>10. Len(a) \in Nat /\ Len(b) \in Nat /\ Len(s) \in Nat
  BY <1>4, <1>6
<1>11. \A p \in 1 .. Len(a) : s[p] = a[p]
  BY <1>9, <1>10
<1>12. \A i \in 1 .. Len(b) : s[Len(a) + i] = b[i]
  <2> TAKE i \in 1 .. Len(b)
  <2>1. /\ Len(a) + i \in 1 .. Len(a) + Len(b) /\ ~(Len(a) + i <= Len(a))
        /\ (Len(a) + i) - Len(a) = i
    BY <1>10
  <2> QED
    BY <1>9, <2>1
<1>13. \A i \in 1 .. Len(msgs[n]) : s[Len(a) + i] = msgs[n][i]
  BY <1>6, <1>7, <1>12
<1>14. s[Len(a) + (Len(msgs[n]) + 1)] = CR /\ s[Len(a) + (Len(msgs[n]) + 2)] = LF
  BY <1>6, <1>7, <1>12
<1>15. /\ Len(s) - 1 = Len(a) + (Len(msgs[n]) + 1) /\ Len(s) = Len(a) + (Len(msgs[n]) + 2)
       /\ Len(s) = Len(a) + Len(msgs[n]) + 2
  BY <1>6, <1>7, <1>9, <1>10
<1>16. s[Len(s) - 1] = CR /\ s[Len(s)] = LF
  BY <1>14, <1>15
<1> QED
  BY <1>1, <1>4, <1>7, <1>8, <1>10, <1>11, <1>13, <1>15, <1>16 DEF a, s

\* The bytes of the first i messages are the beginning of those of the first j.
LEMMA BytesPrefix ==
    ASSUME NEW msgs \in Seq(Bodies), NEW i \in 0 .. Len(msgs), NEW j \in 0 .. Len(msgs), i <= j
    PROVE  /\ EndOf(msgs, i) \in Nat /\ EndOf(msgs, j) \in Nat
           /\ EndOf(msgs, i) + 2 * (j - i) <= EndOf(msgs, j)
           /\ \A p \in 1 .. EndOf(msgs, i) : Bytes(msgs)[j][p] = Bytes(msgs)[i][p]
<1> DEFINE P(d) == /\ EndOf(msgs, i + d) \in Nat
                   /\ EndOf(msgs, i) + 2 * d <= EndOf(msgs, i + d)
                   /\ \A p \in 1 .. EndOf(msgs, i) : Bytes(msgs)[i + d][p] = Bytes(msgs)[i][p]
           S == {d \in Nat : i + d <= Len(msgs) => P(d)}
<1>1. Len(msgs) \in Nat
  OBVIOUS
<1>2. EndOf(msgs, i) \in Nat
  <2>1. Bytes(msgs)[i] \in Seq(Byte)
    BY BytesEquation DEF IsBytes
  <2> QED
    BY <2>1 DEF EndOf
<1>3. 0 \in S
  <2>1. i + 0 = i
    OBVIOUS
  <2>2. P(0)
    BY <1>2, <2>1
  <2> QED
    BY <2>2
<1>4. ASSUME NEW d \in Nat, d \in S
      PROVE  d + 1 \in S
  <2> SUFFICES ASSUME i + (d + 1) <= Len(msgs)
               PROVE  P(d + 1)
    OBVIOUS
  <2> DEFINE n == i + (d + 1)
  <2>1. n \in 1 .. Len(msgs) /\ n - 1 = i + d
    BY <1>1
  <2>2. P(d)
    BY <1>1, <1>4
  <2> HIDE DEF n
  <2>3. /\ Len(msgs[n]) \in Nat /\ EndOf(msgs, n) \in Nat
        /\ EndOf(msgs, n) = EndOf(msgs, i + d) + Len(msgs[n]) + 2
        /\ \A p \in 1 .. EndOf(msgs, i + d) : Bytes(msgs)[n][p] = Bytes(msgs)[i + d][p]
    BY <2>1, BytesStep
  <2>4. EndOf(msgs, i) + 2 * (d + 1) <= EndOf(msgs, n)
    <3>1. EndOf(msgs, i + d) \in Nat /\ EndOf(msgs, i) + 2 * d <= EndOf(msgs, i + d)
      BY <2>2
    <3>2. EndOf(msgs, n) >= EndOf(msgs, i + d) + 2
      BY <2>3, <3>1
    <3> QED
      BY <1>2, <2>3, <3>1, <3>2
  <2>5. \A p \in 1 .. EndOf(msgs, i) : p \in 1 .. EndOf(msgs, i + d)
    BY <1>2, <2>2
  <2>6. \A p \in 1 .. EndOf(msgs, i) : Bytes(msgs)[n][p] = Bytes(msgs)[i][p]
    BY <2>2, <2>3, <2>5
  <2> QED
    BY <2>3, <2>4, <2>6 DEF n
<1>5. \A d \in Nat : d \in S
  <2> HIDE DEF S
  <2> QED
    BY <1>3, <1>4, NaturalsAllIn
<1>6. j - i \in Nat /\ i + (j - i) = j /\ j <= Len(msgs)
  BY <1>1
<1>7. P(j - i)
  BY <1>5, <1>6
<1> QED
  BY <1>2, <1>6, <1>7

\* Bytes of the stream, and where its messages end.
LEMMA StreamFacts ==
    ASSUME NEW msgs \in Seq(Bodies)
    PROVE  /\ StreamOf(msgs) \in Seq(Byte)
           /\ Len(StreamOf(msgs)) = EndOf(msgs, Len(msgs))
           /\ EndOf(msgs, 0) = 0
           /\ \A n \in 0 .. Len(msgs) : EndOf(msgs, n) \in Nat
           /\ \A i, j \in 0 .. Len(msgs) : i <= j => EndOf(msgs, i) <= EndOf(msgs, j)
           /\ \A i, j \in 0 .. Len(msgs) : i < j => EndOf(msgs, i) + 2 <= EndOf(msgs, j)
           /\ \A n \in 1 .. Len(msgs) :
                 /\ EndOf(msgs, n) = EndOf(msgs, n - 1) + Len(msgs[n]) + 2
                 /\ \A i \in 1 .. Len(msgs[n]) :
                       StreamOf(msgs)[EndOf(msgs, n - 1) + i] = msgs[n][i]
                 /\ StreamOf(msgs)[EndOf(msgs, n) - 1] = CR
                 /\ StreamOf(msgs)[EndOf(msgs, n)] = LF
<1>1. Len(msgs) \in Nat /\ Len(msgs) \in 0 .. Len(msgs)
  OBVIOUS
<1>2. \A n \in 0 .. Len(msgs) : Bytes(msgs)[n] \in Seq(Byte)
  BY BytesEquation DEF IsBytes
<1>3. Bytes(msgs)[0] = <<>>
  BY BytesEquation DEF IsBytes
<1>4. EndOf(msgs, 0) = 0
  BY <1>3 DEF EndOf
<1>5. StreamOf(msgs) \in Seq(Byte) /\ Len(StreamOf(msgs)) = EndOf(msgs, Len(msgs))
  BY <1>1, <1>2 DEF StreamOf, EndOf
<1>6. \A n \in 0 .. Len(msgs) : EndOf(msgs, n) \in Nat
  BY <1>2 DEF EndOf
<1>7. ASSUME NEW i \in 0 .. Len(msgs), NEW j \in 0 .. Len(msgs), i <= j
      PROVE  /\ EndOf(msgs, i) <= EndOf(msgs, j)
             /\ i < j => EndOf(msgs, i) + 2 <= EndOf(msgs, j)
  <2>1. EndOf(msgs, i) + 2 * (j - i) <= EndOf(msgs, j)
    BY <1>7, BytesPrefix
  <2>2. EndOf(msgs, i) \in Nat /\ EndOf(msgs, j) \in Nat /\ j - i \in Nat
    BY <1>1, <1>6, <1>7
  <2> QED
    BY <2>1, <2>2
<1>8. ASSUME NEW n \in 1 .. Len(msgs)
      PROVE  /\ EndOf(msgs, n) = EndOf(msgs, n - 1) + Len(msgs[n]) + 2
             /\ \A i \in 1 .. Len(msgs[n]) :
                   StreamOf(msgs)[EndOf(msgs, n - 1) + i] = msgs[n][i]
             /\ StreamOf(msgs)[EndOf(msgs, n) - 1] = CR
             /\ StreamOf(msgs)[EndOf(msgs, n)] = LF
  <2>1. /\ Len(msgs[n]) \in Nat /\ EndOf(msgs, n) \in Nat /\ EndOf(msgs, n - 1) \in Nat
        /\ EndOf(msgs, n) = EndOf(msgs, n - 1) + Len(msgs[n]) + 2
        /\ \A i \in 1 .. Len(msgs[n]) : Bytes(msgs)[n][EndOf(msgs, n - 1) + i] = msgs[n][i]
        /\ Bytes(msgs)[n][EndOf(msgs, n) - 1] = CR
        /\ Bytes(msgs)[n][EndOf(msgs, n)] = LF
    BY BytesStep
  <2>2. \A p \in 1 .. EndOf(msgs, n) : StreamOf(msgs)[p] = Bytes(msgs)[n][p]
    <3>1. n \in 0 .. Len(msgs) /\ n <= Len(msgs)
      BY <1>1
    <3> QED
      BY <1>1, <3>1, BytesPrefix DEF StreamOf
  <2>3. /\ EndOf(msgs, n) \in 1 .. EndOf(msgs, n) /\ EndOf(msgs, n) - 1 \in 1 .. EndOf(msgs, n)
        /\ \A i \in 1 .. Len(msgs[n]) : EndOf(msgs, n - 1) + i \in 1 .. EndOf(msgs, n)
    BY <2>1
  <2> QED
    BY <2>1, <2>2, <2>3
<1>9. \A i, j \in 0 .. Len(msgs) : i < j => i <= j
  BY <1>1
<1> QED
  BY <1>4, <1>5, <1>6, <1>7, <1>8, <1>9

\* Every byte belongs to a message.
LEMMA Located ==
    ASSUME NEW msgs \in Seq(Bodies), NEW p \in 1 .. EndOf(msgs, Len(msgs))
    PROVE  \E n \in 1 .. Len(msgs) : EndOf(msgs, n - 1) < p /\ p <= EndOf(msgs, n)
<1> DEFINE T == {n \in 0 .. Len(msgs) : EndOf(msgs, n) < p}
<1>1. /\ Len(msgs) \in Nat /\ EndOf(msgs, 0) = 0
      /\ \A n \in 0 .. Len(msgs) : EndOf(msgs, n) \in Nat
  BY StreamFacts
<1>2. p \in Nat /\ p >= 1 /\ p <= EndOf(msgs, Len(msgs))
  BY <1>1
<1>3. T \in SUBSET (0 .. Len(msgs)) /\ 0 \in T
  BY <1>1, <1>2
<1>4. PICK g \in T : \A y \in T : y <= g
  <2> HIDE DEF T
  <2> QED
    BY <1>1, <1>3, GreatestElement
<1>5. g \in 0 .. Len(msgs) /\ EndOf(msgs, g) < p
  BY <1>4
<1>6. g # Len(msgs)
  BY <1>1, <1>2, <1>5
<1>7. g + 1 \in 1 .. Len(msgs) /\ g + 1 \in 0 .. Len(msgs) /\ (g + 1) - 1 = g
  BY <1>1, <1>5, <1>6
<1>8. g + 1 \notin T
  BY <1>4, <1>5
<1>9. p <= EndOf(msgs, g + 1)
  BY <1>1, <1>2, <1>7, <1>8
<1> QED
  BY <1>5, <1>7, <1>9

\* CR and LF are found at the ends of messages only.
LEMMA EndBytes ==
    ASSUME NEW msgs \in Seq(Bodies), NEW p \in 1 .. EndOf(msgs, Len(msgs))
    PROVE  /\ StreamOf(msgs)[p] = CR => \E n \in 1 .. Len(msgs) : p = EndOf(msgs, n) - 1
           /\ StreamOf(msgs)[p] = LF => \E n \in 1 .. Len(msgs) : p = EndOf(msgs, n)
<1>1. PICK n \in 1 .. Len(msgs) : EndOf(msgs, n - 1) < p /\ p <= EndOf(msgs, n)
  BY Located
<1>2. /\ msgs[n] \in Bodies /\ Len(msgs[n]) \in Nat
      /\ EndOf(msgs, n) \in Nat /\ EndOf(msgs, n - 1) \in Nat
      /\ EndOf(msgs, n) = EndOf(msgs, n - 1) + Len(msgs[n]) + 2
  BY BytesStep
<1>3. /\ \A i \in 1 .. Len(msgs[n]) : StreamOf(msgs)[EndOf(msgs, n - 1) + i] = msgs[n][i]
      /\ StreamOf(msgs)[EndOf(msgs, n) - 1] = CR
      /\ StreamOf(msgs)[EndOf(msgs, n)] = LF
  BY StreamFacts
<1>4. p \in Nat /\ CR # LF
  BY <1>1, <1>2, StreamFacts DEF CR, LF
<1>5. CASE p <= EndOf(msgs, n - 1) + Len(msgs[n])
  <2> DEFINE i == p - EndOf(msgs, n - 1)
  <2>1. i \in 1 .. Len(msgs[n]) /\ EndOf(msgs, n - 1) + i = p
    BY <1>1, <1>2, <1>4, <1>5
  <2>2. msgs[n][i] # CR /\ msgs[n][i] # LF
    BY <1>2, <2>1, BodyBytes
  <2>3. StreamOf(msgs)[p] = msgs[n][i]
    BY <1>3, <2>1
  <2> QED
    BY <2>2, <2>3
<1>6. CASE ~(p <= EndOf(msgs, n - 1) + Len(msgs[n]))
  <2>1. p = EndOf(msgs, n) - 1 \/ p = EndOf(msgs, n)
    BY <1>1, <1>2, <1>4, <1>6
  <2> QED
    BY <1>3, <1>4, <2>1
<1> QED
  BY <1>5, <1>6

-----------------------------------------------------------------------------
(* CrlfFraming: cutting what has been received.                             *)

\* The least element of a set of naturals.
LEMMA MinIs ==
    ASSUME NEW T, NEW x \in T, \A y \in T : y \in Int /\ x <= y
    PROVE  Min(T) = x
<1>1. \A z \in T : (\A y \in T : z <= y) => z = x
  OBVIOUS
<1>2. Min(T) \in T /\ \A y \in T : Min(T) <= y
  BY DEF Min
<1> QED
  BY <1>1, <1>2

\* ... and the greatest.
LEMMA MaxIs ==
    ASSUME NEW T, NEW x \in T, \A y \in T : y \in Int /\ y <= x
    PROVE  Max(T) = x
<1>1. \A z \in T : (\A y \in T : z >= y) => z = x
  OBVIOUS
<1>2. \A y \in T : x >= y
  OBVIOUS
<1>3. Max(T) \in T /\ \A y \in T : Max(T) >= y
  BY <1>2 DEF Max
<1> QED
  BY <1>1, <1>3

\* A CR LF that is found lies behind the first n bytes and has its LF.
LEMMA FindRange ==
    ASSUME NEW s \in Seq(Byte), NEW n \in 0 .. Len(s), Find(s, n) # 0
    PROVE  Find(s, n) \in n + 1 .. Len(s) - 1
<1> DEFINE hits == {i \in n + 1 .. Len(s) - 1 : s[i] = CR /\ s[i + 1] = LF}
<1>1. Len(s) \in Nat
  OBVIOUS
<1>2. hits # {} /\ Find(s, n) = Min(hits)
  BY DEF Find
<1>3. hits \in SUBSET Nat
  BY <1>1
<1>4. \E x \in hits : \A y \in hits : x <= y
  <2> HIDE DEF hits
  <2> QED
    BY <1>2, <1>3, LeastElement
<1>5. Min(hits) \in hits
  <2> HIDE DEF hits
  <2> QED
    BY <1>4 DEF Min
<1> QED
  BY <1>2, <1>5

\* What a function must satisfy to give the tokens behind the first n bytes of s,
\* for every n from lo.
IsSplit(f, s, lo) ==
    /\ f = [n \in lo .. Len(s) |-> f[n]]
    /\ \A n \in lo .. Len(s) :
          f[n] = IF Find(s, n) = 0 THEN <<>>
                 ELSE <<SubSeq(s, n + 1, Find(s, n) - 1)>> \o f[Find(s, n) + 1]

\* There is such a function: SplitData's loop ends.
LEMMA SplitExists ==
    ASSUME NEW s \in Seq(Byte)
    PROVE  \E f : IsSplit(f, s, 0)
<1> DEFINE S == {d \in Nat : d <= Len(s) => \E f : IsSplit(f, s, Len(s) - d)}
           Token(n) == <<SubSeq(s, n + 1, Find(s, n) - 1)>>
<1>1. Len(s) \in Nat
  OBVIOUS
<1>2. 0 \in S
  <2> DEFINE f == [n \in Len(s) .. Len(s) |-> <<>>]
  <2>1. Find(s, Len(s)) = 0
    <3>1. {i \in Len(s) + 1 .. Len(s) - 1 : s[i] = CR /\ s[i + 1] = LF} = {}
      BY <1>1
    <3> QED
      BY <3>1 DEF Find
  <2>2. \A n \in Len(s) .. Len(s) : n = Len(s)
    BY <1>1
  <2>3. IsSplit(f, s, Len(s))
    <3>1. \A n \in Len(s) .. Len(s) : f[n] = <<>> /\ Find(s, n) = 0
      BY <2>1, <2>2
    <3>2. f = [n \in Len(s) .. Len(s) |-> f[n]]
      OBVIOUS
    <3> HIDE DEF f
    <3> QED
      BY <3>1, <3>2, Zenon DEF IsSplit
  <2>4. Len(s) - 0 = Len(s)
    BY <1>1
  <2> QED
    BY <2>3, <2>4
<1>3. ASSUME NEW d \in Nat, d \in S
      PROVE  d + 1 \in S
  <2> SUFFICES ASSUME d + 1 <= Len(s)
               PROVE  \E f : IsSplit(f, s, Len(s) - (d + 1))
    OBVIOUS
  <2> DEFINE lo == Len(s) - (d + 1)
  <2>1. /\ lo \in 0 .. Len(s) /\ lo + 1 = Len(s) - d /\ lo \in Nat
        /\ lo \notin lo + 1 .. Len(s)
        /\ \A n \in lo .. Len(s) : n = lo \/ n \in lo + 1 .. Len(s)
        /\ \A n \in lo + 1 .. Len(s) : n # lo /\ n \in lo .. Len(s) /\ n \in 0 .. Len(s)
    BY <1>1
  <2>2. PICK f : IsSplit(f, s, lo + 1)
    <3>1. d <= Len(s)
      BY <1>1
    <3>2. \E f : IsSplit(f, s, Len(s) - d)
      BY <1>3, <3>1
    <3> QED
      BY <2>1, <3>2, Zenon
  <2> HIDE DEF lo, Token
  <2>3. \A n \in lo .. Len(s) : Find(s, n) # 0 => Find(s, n) + 1 \in lo + 1 .. Len(s)
    <3> SUFFICES ASSUME NEW n \in lo .. Len(s), Find(s, n) # 0
                 PROVE  Find(s, n) + 1 \in lo + 1 .. Len(s)
      OBVIOUS
    <3>1. n \in 0 .. Len(s)
      BY <1>1, <2>1
    <3>2. Find(s, n) \in n + 1 .. Len(s) - 1
      BY <3>1, FindRange
    <3> QED
      BY <1>1, <2>1, <3>2
  <2> DEFINE first == IF Find(s, lo) = 0 THEN <<>> ELSE Token(lo) \o f[Find(s, lo) + 1]
             g == [n \in lo .. Len(s) |-> IF n = lo THEN first ELSE f[n]]
  <2>4. /\ g = [n \in lo .. Len(s) |-> g[n]]
        /\ g[lo] = first
        /\ \A n \in lo + 1 .. Len(s) : g[n] = f[n]
    <3> HIDE DEF first
    <3> QED
      BY <1>1, <2>1
  <2> HIDE DEF g
  <2>5. ASSUME NEW n \in lo .. Len(s)
        PROVE  g[n] = IF Find(s, n) = 0 THEN <<>> ELSE Token(n) \o g[Find(s, n) + 1]
    <3>1. Find(s, n) # 0 => g[Find(s, n) + 1] = f[Find(s, n) + 1]
      BY <2>3, <2>4, Zenon
    <3>2. CASE n = lo
      BY <2>4, <3>1, <3>2, Zenon
    <3>3. CASE n \in lo + 1 .. Len(s)
      <4>1. f[n] = IF Find(s, n) = 0 THEN <<>> ELSE Token(n) \o f[Find(s, n) + 1]
        BY <2>2, <3>3, Zenon DEF IsSplit, Token
      <4>2. g[n] = f[n]
        BY <2>4, <3>3, Zenon
      <4> QED
        BY <3>1, <4>1, <4>2, Zenon
    <3> QED
      BY <2>1, <3>2, <3>3
  <2>6. IsSplit(g, s, lo)
    BY <2>4, <2>5, Zenon DEF IsSplit, Token
  <2> QED
    BY <2>6 DEF lo
<1>4. \A d \in Nat : d \in S
  <2> HIDE DEF S
  <2> QED
    BY <1>2, <1>3, NaturalsAllIn
<1>5. \E f : IsSplit(f, s, Len(s) - Len(s))
  BY <1>1, <1>4
<1>6. Len(s) - Len(s) = 0
  BY <1>1
<1> QED
  BY <1>5, <1>6

\* The recursive equation that defines SplitData.
LEMMA SplitEquation ==
    ASSUME NEW s \in Seq(Byte)
    PROVE  \E f : IsSplit(f, s, 0) /\ SplitData(s) = f[0]
<1> DEFINE Body(f) == [n \in 0 .. Len(s) |->
                         IF Find(s, n) = 0 THEN <<>>
                         ELSE <<SubSeq(s, n + 1, Find(s, n) - 1)>> \o f[Find(s, n) + 1]]
           split == CHOOSE g : g = Body(g)
<1>1. PICK f : IsSplit(f, s, 0)
  BY SplitExists
<1>2. f = Body(f)
  BY <1>1, Zenon DEF IsSplit
<1>3. SplitData(s) = split[0]
  BY DEF SplitData
<1>4. split = Body(split)
  <2> HIDE DEF Body
  <2> QED
    BY <1>2
<1> HIDE DEF split
<1>5. IsSplit(split, s, 0)
  BY <1>4, Zenon DEF IsSplit
<1> QED
  BY <1>3, <1>5

\* The elements of a subsequence.
LEMMA SubSeqFacts ==
    ASSUME NEW X, NEW s \in Seq(X), NEW a \in 1 .. Len(s) + 1, NEW b \in a - 1 .. Len(s)
    PROVE  /\ SubSeq(s, a, b) \in Seq(X)
           /\ Len(SubSeq(s, a, b)) = b - a + 1
           /\ \A i \in 1 .. b - a + 1 : SubSeq(s, a, b)[i] = s[a + i - 1]
<1>1. Len(s) \in Nat
  OBVIOUS
<1>2. \A i \in a .. b : s[i] \in X
  BY <1>1
<1> QED
  BY <1>1, <1>2, SubSeqProperties
\* A piece without its first d elements.
LEMMA SubSeqTail ==
    ASSUME NEW X, NEW s \in Seq(X), NEW a \in 1 .. Len(s) + 1, NEW c \in a - 1 .. Len(s),
           NEW d \in 0 .. c - a + 1
    PROVE  SubSeq(SubSeq(s, a, c), d + 1, Len(SubSeq(s, a, c))) = SubSeq(s, a + d, c)
<1> DEFINE r == SubSeq(s, a, c)
           t == SubSeq(r, d + 1, Len(r))
           u == SubSeq(s, a + d, c)
<1>1. Len(s) \in Nat /\ a \in Nat /\ c \in Nat /\ d \in Nat /\ 1 <= a /\ a <= c + 1 /\ c <= Len(s)
      /\ d <= c - a + 1
  OBVIOUS
<1>2. r \in Seq(X) /\ Len(r) = c - a + 1 /\ \A i \in 1 .. c - a + 1 : r[i] = s[a + i - 1]
  BY SubSeqFacts
<1> HIDE DEF r
<1>3. /\ t \in Seq(X) /\ Len(t) = Len(r) - (d + 1) + 1
      /\ \A i \in 1 .. Len(r) - (d + 1) + 1 : t[i] = r[(d + 1) + i - 1]
  <2>1. d + 1 \in 1 .. Len(r) + 1 /\ Len(r) \in (d + 1) - 1 .. Len(r)
    BY <1>1, <1>2
  <2> QED
    BY <1>2, <2>1, SubSeqFacts
<1>4. /\ u \in Seq(X) /\ Len(u) = c - (a + d) + 1
      /\ \A i \in 1 .. c - (a + d) + 1 : u[i] = s[(a + d) + i - 1]
  <2>1. a + d \in 1 .. Len(s) + 1 /\ c \in (a + d) - 1 .. Len(s)
    BY <1>1
  <2> QED
    BY <2>1, SubSeqFacts
<1> HIDE DEF t, u
<1>5. Len(t) = Len(u) /\ Len(u) \in Nat
  BY <1>1, <1>2, <1>3, <1>4
<1>6. ASSUME NEW i \in 1 .. Len(u)
      PROVE  t[i] = u[i]
  <2>1. /\ i \in 1 .. Len(r) - (d + 1) + 1 /\ (d + 1) + i - 1 \in 1 .. c - a + 1
        /\ a + ((d + 1) + i - 1) - 1 = (a + d) + i - 1 /\ i \in 1 .. c - (a + d) + 1
    <3>1. i \in Nat /\ 1 <= i /\ i <= c - (a + d) + 1 /\ Len(r) = c - a + 1
      BY <1>2, <1>4, <1>5
    <3> QED
      BY <1>1, <3>1
  <2>2. t[i] = r[(d + 1) + i - 1] /\ u[i] = s[(a + d) + i - 1]
    BY <1>3, <1>4, <2>1
  <2>3. r[(d + 1) + i - 1] = s[a + ((d + 1) + i - 1) - 1]
    BY <1>2, <2>1
  <2> QED
    BY <2>1, <2>2, <2>3
<1>7. t = u
  BY <1>3, <1>4, <1>5, <1>6, SeqEqual
<1> QED
  BY <1>7 DEF t, u, r

-----------------------------------------------------------------------------
(* CrlfFraming: cutting a piece of the stream.                              *)

\* s is the stream behind its first st bytes, up to byte q.  st is where message k
\* ends, or its LF is still to come; k2 is the last message that is complete in s, k
\* if there is none.
Received(msgs, st, k, k2, q, s) ==
    /\ k \in 0 .. Len(msgs) /\ k2 \in k .. Len(msgs) /\ st \in Nat
    /\ st = EndOf(msgs, k) \/ (k # 0 /\ st = EndOf(msgs, k) - 1)
    /\ q \in st .. EndOf(msgs, Len(msgs))
    /\ k2 = k \/ EndOf(msgs, k2) <= q
    /\ k2 < Len(msgs) => q < EndOf(msgs, k2 + 1)
    /\ s = SubSeq(StreamOf(msgs), st + 1, q)

\* What is received is a piece of the stream.
LEMMA ReceivedFacts ==
    ASSUME NEW msgs \in Seq(Bodies), NEW st, NEW k, NEW k2, NEW q, NEW s,
           Received(msgs, st, k, k2, q, s)
    PROVE  /\ Len(msgs) \in Nat /\ k \in Nat /\ k2 \in Nat /\ q \in Nat /\ st \in Nat /\ k <= k2
           /\ k2 <= Len(msgs) /\ k \in 0 .. Len(msgs) /\ k2 \in 0 .. Len(msgs)
           /\ \A n \in 0 .. Len(msgs) : EndOf(msgs, n) \in Nat
           /\ st <= q /\ q <= EndOf(msgs, Len(msgs))
           /\ st <= EndOf(msgs, k) /\ EndOf(msgs, k) <= st + 1
           /\ s \in Seq(Byte) /\ Len(s) = q - st
           /\ \A i \in 1 .. Len(s) : /\ st + i \in 1 .. EndOf(msgs, Len(msgs))
                                     /\ s[i] = StreamOf(msgs)[st + i]
           /\ \A n \in 0 .. Len(msgs) : EndOf(msgs, n) <= q => n <= k2
           /\ k # k2 => EndOf(msgs, k2) <= q
<1> DEFINE E(n) == EndOf(msgs, n)
           t == StreamOf(msgs)
<1>1. /\ Len(msgs) \in Nat
      /\ t \in Seq(Byte) /\ Len(t) = E(Len(msgs))
      /\ \A n \in 0 .. Len(msgs) : E(n) \in Nat
      /\ \A i, j \in 0 .. Len(msgs) : i <= j => E(i) <= E(j)
  <2>1. Len(msgs) \in Nat
    OBVIOUS
  <2> QED
    BY <2>1, StreamFacts, Zenon
<1>2. /\ k \in 0 .. Len(msgs) /\ k2 \in k .. Len(msgs) /\ st \in Nat
      /\ st = E(k) \/ st = E(k) - 1
      /\ q \in st .. E(Len(msgs)) /\ (k2 < Len(msgs) => q < E(k2 + 1))
      /\ k # k2 => E(k2) <= q
      /\ s = SubSeq(t, st + 1, q)
  BY DEF Received
<1> HIDE DEF E, t
<1>3. /\ k \in Nat /\ k2 \in Nat /\ k <= k2 /\ k2 <= Len(msgs) /\ k2 \in 0 .. Len(msgs)
      /\ Len(msgs) \in 0 .. Len(msgs)
  BY <1>1, <1>2
<1>4. E(k) \in Nat /\ E(Len(msgs)) \in Nat /\ st <= E(k) /\ E(k) <= st + 1
  <2>1. E(k) \in Nat /\ E(Len(msgs)) \in Nat
    BY <1>1, <1>2, <1>3
  <2> QED
    BY <1>2, <2>1
<1>5. q \in Nat /\ st <= q /\ q <= E(Len(msgs))
  BY <1>2, <1>4
<1>6. st + 1 \in 1 .. Len(t) + 1 /\ q \in (st + 1) - 1 .. Len(t)
  BY <1>1, <1>2, <1>4, <1>5
<1>7. /\ s \in Seq(Byte) /\ Len(s) = q - (st + 1) + 1
      /\ \A i \in 1 .. q - (st + 1) + 1 : s[i] = t[(st + 1) + i - 1]
  BY <1>1, <1>2, <1>6, SubSeqFacts
<1>8. Len(s) = q - st
  BY <1>2, <1>5, <1>7
<1>9. ASSUME NEW i \in 1 .. Len(s)
      PROVE  st + i \in 1 .. E(Len(msgs)) /\ s[i] = t[st + i]
  <2>1. i \in 1 .. q - (st + 1) + 1 /\ (st + 1) + i - 1 = st + i
    BY <1>2, <1>5, <1>7, <1>8
  <2>2. st + i \in 1 .. E(Len(msgs))
    BY <1>2, <1>4, <1>5, <1>8
  <2> QED
    BY <1>7, <2>1, <2>2
<1>10. ASSUME NEW n \in 0 .. Len(msgs), E(n) <= q
       PROVE  n <= k2
  <2> SUFFICES ASSUME n > k2
               PROVE  FALSE
    BY <1>3
  <2>1. k2 + 1 \in 0 .. Len(msgs) /\ k2 + 1 <= n /\ k2 < Len(msgs)
    BY <1>1, <1>3
  <2>2. E(k2 + 1) <= E(n) /\ E(k2 + 1) \in Nat /\ E(n) \in Nat
    BY <1>1, <2>1
  <2> QED
    BY <1>2, <1>5, <1>10, <2>1, <2>2
<1> QED
  BY <1>1, <1>2, <1>3, <1>4, <1>5, <1>7, <1>8, <1>9, <1>10 DEF E, t

\* n bytes of a piece that begins behind byte st are up to the end of message j, or
\* up to its LF.
UpTo(msgs, st, j, n) ==
    /\ n \in Nat
    /\ st + n = EndOf(msgs, j) \/ (j # 0 /\ st + n = EndOf(msgs, j) - 1)

\* Behind message j the first CR LF is that of message j + 1.
LEMMA FindAt ==
    ASSUME NEW msgs \in Seq(Bodies), NEW st, NEW k, NEW k2, NEW q, NEW s,
           Received(msgs, st, k, k2, q, s),
           NEW j \in k .. k2, NEW from, UpTo(msgs, st, j, from)
    PROVE  Find(s, from) = IF j = k2 THEN 0 ELSE EndOf(msgs, j + 1) - 1 - st
<1> DEFINE E(n) == EndOf(msgs, n)
           hits == {i \in from + 1 .. Len(s) - 1 : s[i] = CR /\ s[i + 1] = LF}
<1>1. /\ Len(msgs) \in Nat /\ k \in Nat /\ k2 \in Nat /\ q \in Nat /\ k2 <= Len(msgs)
      /\ st \in Nat
      /\ \A n \in 0 .. Len(msgs) : E(n) \in Nat
      /\ Len(s) = q - st /\ st <= q /\ (k # k2 => E(k2) <= q)
      /\ \A i \in 1 .. Len(s) : /\ st + i \in 1 .. E(Len(msgs))
                                /\ s[i] = StreamOf(msgs)[st + i]
      /\ \A n \in 0 .. Len(msgs) : E(n) <= q => n <= k2
  BY ReceivedFacts
<1>2. /\ \A a, b \in 0 .. Len(msgs) : a <= b => E(a) <= E(b)
      /\ \A a, b \in 0 .. Len(msgs) : a < b => E(a) + 2 <= E(b)
      /\ \A n \in 1 .. Len(msgs) : /\ StreamOf(msgs)[E(n) - 1] = CR
                                   /\ StreamOf(msgs)[E(n)] = LF
  BY StreamFacts
<1>3. Find(s, from) = IF hits = {} THEN 0 ELSE Min(hits)
  BY DEF Find
<1>4. \A p \in 1 .. E(Len(msgs)) : StreamOf(msgs)[p] = CR =>
         \E n \in 1 .. Len(msgs) : p = E(n) - 1
  BY EndBytes
<1>5. from \in Nat /\ (st + from = E(j) \/ st + from = E(j) - 1)
  BY DEF UpTo
<1> HIDE DEF E
<1>6. /\ j \in 0 .. Len(msgs) /\ E(j) \in Nat /\ k <= j /\ j <= k2 /\ j \in Nat
  BY <1>1
<1>7. ASSUME NEW i \in hits
      PROVE  \E n \in 1 .. Len(msgs) : n > j /\ n <= k2 /\ i = E(n) - 1 - st
  <2>1. i \in from + 1 .. Len(s) - 1 /\ s[i] = CR
    OBVIOUS
  <2>2. i \in 1 .. Len(s) /\ i >= from + 1 /\ i <= q - st - 1 /\ i \in Nat
    <3>1. PICK l \in Nat : l = Len(s)
      BY <1>1
    <3>2. l = q - st /\ q \in Nat /\ st \in Nat /\ from \in Nat
      BY <1>1, <1>5, <3>1
    <3>3. i \in from + 1 .. l - 1
      BY <2>1, <3>1, Zenon
    <3>4. i \in 1 .. l /\ i >= from + 1 /\ i <= q - st - 1 /\ i \in Nat
      BY <3>2, <3>3
    <3> QED
      BY <3>1, <3>4, Zenon
  <2>3. st + i \in 1 .. E(Len(msgs)) /\ StreamOf(msgs)[st + i] = CR
    BY <1>1, <2>1, <2>2
  <2>4. PICK n \in 1 .. Len(msgs) : st + i = E(n) - 1
    BY <1>4, <2>3
  <2>5. n \in 0 .. Len(msgs) /\ E(n) \in Nat
    BY <1>1
  <2>6. E(n) <= q /\ E(n) > E(j) /\ i = E(n) - 1 - st
    <3>1. /\ q \in Nat /\ E(j) \in Nat /\ st \in Nat /\ E(n) \in Nat /\ i \in Nat
          /\ from \in Nat /\ (st + from = E(j) \/ st + from = E(j) - 1)
      BY <1>1, <1>5, <1>6, <2>2, <2>5
    <3>2. i >= from + 1 /\ i <= q - st - 1
      BY <2>2
    <3> HIDE DEF hits
    <3> QED
      BY <2>4, <3>1, <3>2
  <2>7. n > j
    <3> SUFFICES ASSUME n <= j
                 PROVE  FALSE
      BY <1>1, <1>6
    <3>1. E(n) <= E(j)
      BY <1>2, <1>6, <2>5
    <3> QED
      BY <1>6, <2>5, <2>6, <3>1
  <2> QED
    BY <1>1, <2>5, <2>6, <2>7
<1>8. CASE j = k2
  <2>1. hits = {}
    BY <1>1, <1>7, <1>8
  <2> QED
    BY <1>3, <1>8, <2>1 DEF E
<1>9. CASE j # k2
  <2> DEFINE x == E(j + 1) - 1 - st
  <2>1. j + 1 \in 1 .. Len(msgs) /\ j + 1 \in 0 .. Len(msgs) /\ j + 1 <= k2 /\ k # k2
    BY <1>1, <1>6, <1>9
  <2>2. E(j + 1) \in Nat /\ E(j) + 2 <= E(j + 1) /\ E(j + 1) <= q
    <3>1. E(j + 1) <= E(k2) /\ E(j + 1) \in Nat /\ E(k2) \in Nat
      <4>1. k2 \in 0 .. Len(msgs)
        BY <1>1
      <4> QED
        BY <1>1, <1>2, <2>1, <4>1
    <3>2. j < j + 1
      BY <1>6
    <3>3. E(j) + 2 <= E(j + 1)
      BY <1>2, <1>6, <2>1, <3>2
    <3>4. E(k2) <= q /\ q \in Nat
      BY <1>1, <2>1
    <3> QED
      BY <3>1, <3>3, <3>4
  <2>3. /\ x \in from + 1 .. Len(s) - 1 /\ x \in 1 .. Len(s) /\ x + 1 \in 1 .. Len(s)
        /\ st + x = E(j + 1) - 1 /\ st + (x + 1) = E(j + 1)
    <3>1. q \in Nat /\ Len(s) = q - st /\ st \in Nat
      BY <1>1
    <3>2. PICK ej \in Nat : ej = E(j)
      BY <1>6
    <3>3. PICK en \in Nat : en = E(j + 1)
      BY <2>2
    <3>4. /\ ej + 2 <= en /\ en <= q /\ from \in Nat
          /\ st + from = ej \/ st + from = ej - 1
      BY <1>5, <2>2, <3>2, <3>3, Zenon
    <3>5. x = en - 1 - st
      BY <3>3, Zenon
    <3> HIDE DEF x
    <3>6. /\ x \in from + 1 .. Len(s) - 1 /\ x \in 1 .. Len(s) /\ x + 1 \in 1 .. Len(s)
          /\ st + x = en - 1 /\ st + (x + 1) = en
      BY <3>1, <3>4, <3>5
    <3> QED
      BY <3>3, <3>6, Zenon
  <2>4. s[x] = CR /\ s[x + 1] = LF
    BY <1>1, <1>2, <2>1, <2>3
  <2>5. x \in hits
    BY <2>3, <2>4
  <2>6. ASSUME NEW y \in hits
        PROVE  y \in Int /\ x <= y
    <3>1. PICK n \in 1 .. Len(msgs) : n > j /\ n <= k2 /\ y = E(n) - 1 - st
      BY <1>7
    <3>2. n \in 0 .. Len(msgs) /\ j + 1 <= n /\ E(n) \in Nat
      BY <1>1, <1>6, <3>1
    <3>3. E(j + 1) <= E(n)
      BY <1>2, <2>1, <3>2
    <3>4. st \in Nat
      BY <1>1
    <3>5. PICK ei \in Nat : ei = E(n)
      BY <3>2
    <3>6. PICK en \in Nat : en = E(j + 1)
      BY <2>2
    <3>7. y = ei - 1 - st /\ x = en - 1 - st /\ en <= ei
      BY <3>1, <3>3, <3>5, <3>6, Zenon
    <3> HIDE DEF x
    <3> QED
      BY <3>4, <3>7
  <2> HIDE DEF hits, x
  <2>7. Min(hits) = x
    BY <2>5, <2>6, MinIs
  <2> QED
    BY <1>3, <1>9, <2>5, <2>7 DEF E, x
<1> QED
  BY <1>8, <1>9

\* Message j + 1, cut out of a piece of the stream: its body, with the LF of message j
\* in front of it if that is still there.
LEMMA TokenIs ==
    ASSUME NEW msgs \in Seq(Bodies), NEW st, NEW k, NEW k2, NEW q, NEW s,
           Received(msgs, st, k, k2, q, s),
           NEW j \in k .. k2 - 1, NEW from, UpTo(msgs, st, j, from)
    PROVE  LET u == SubSeq(s, from + 1, (EndOf(msgs, j + 1) - 1 - st) - 1)
           IN  u \in Seq(Byte) /\ Text(u) = msgs[j + 1]
<1> DEFINE E(n) == EndOf(msgs, n)
           a == from + 1
           b == (E(j + 1) - 1 - st) - 1
           m == msgs[j + 1]
           u == SubSeq(s, a, b)
<1>1. /\ Len(msgs) \in Nat /\ k \in Nat /\ k2 \in Nat /\ q \in Nat /\ k2 <= Len(msgs)
      /\ st \in Nat /\ k <= k2 /\ (k # k2 => E(k2) <= q)
      /\ \A n \in 0 .. Len(msgs) : E(n) \in Nat
      /\ s \in Seq(Byte) /\ Len(s) = q - st /\ st <= q
      /\ \A i \in 1 .. Len(s) : s[i] = StreamOf(msgs)[st + i]
  BY ReceivedFacts
<1>2. \A x, y \in 0 .. Len(msgs) : x <= y => E(x) <= E(y)
  BY StreamFacts
<1>3. j + 1 \in 1 .. Len(msgs) /\ (j + 1) - 1 = j /\ (j # 0 => j \in 1 .. Len(msgs)) /\ k # k2
  BY <1>1
<1>4. /\ E(j + 1) = E(j) + Len(m) + 2
      /\ \A i \in 1 .. Len(m) : StreamOf(msgs)[E(j) + i] = m[i]
      /\ j # 0 => StreamOf(msgs)[E(j)] = LF
  BY <1>3, StreamFacts
<1>5. m \in Seq(Byte) /\ Len(m) \in Nat /\ \A i \in 1 .. Len(m) : m[i] # LF
  BY <1>3, BodyBytes
<1>6. from \in Nat /\ (st + from = E(j) \/ (j # 0 /\ st + from = E(j) - 1))
  BY DEF UpTo
<1> HIDE DEF E, m
<1>7. E(j) \in Nat /\ E(j + 1) \in Nat /\ E(j + 1) <= q
  <2>1. /\ j \in 0 .. Len(msgs) /\ j + 1 \in 0 .. Len(msgs)
        /\ k2 \in 0 .. Len(msgs) /\ j + 1 <= k2
    BY <1>1
  <2>2. E(j) \in Nat /\ E(j + 1) \in Nat /\ E(k2) \in Nat
    BY <1>1, <2>1
  <2>3. E(j + 1) <= E(k2)
    BY <1>2, <2>1
  <2>4. E(k2) <= q
    BY <1>1, <1>3
  <2> QED
    BY <1>1, <2>2, <2>3, <2>4
<1>8. /\ a \in 1 .. Len(s) + 1 /\ b \in a - 1 .. Len(s)
      /\ b - a + 1 = Len(m) + (E(j) - (st + from))
      /\ \A i \in 1 .. b - a + 1 : a + i - 1 \in 1 .. Len(s)
                                   /\ st + (a + i - 1) = (st + from) + i
  <2>1. /\ E(j + 1) = E(j) + Len(m) + 2 /\ q \in Nat /\ Len(s) = q - st /\ st \in Nat
        /\ from \in Nat
    BY <1>1, <1>4, <1>6
  <2>2. PICK ej \in Nat : ej = E(j)
    BY <1>7
  <2>3. PICK en \in Nat : en = E(j + 1)
    BY <1>7
  <2>4. PICK len \in Nat : len = Len(m)
    BY <1>5
  <2>5. /\ en = ej + len + 2 /\ en <= q /\ (st + from = ej \/ st + from = ej - 1)
    BY <1>6, <1>7, <2>1, <2>2, <2>3, <2>4, Zenon
  <2>6. b = (en - 1 - st) - 1
    BY <2>3, Zenon
  <2> HIDE DEF b
  <2>7. /\ a \in 1 .. Len(s) + 1 /\ b \in a - 1 .. Len(s)
        /\ b - a + 1 = len + (ej - (st + from))
        /\ \A i \in 1 .. b - a + 1 : a + i - 1 \in 1 .. Len(s)
                                     /\ st + (a + i - 1) = (st + from) + i
    BY <2>1, <2>5, <2>6
  <2> QED
    BY <2>2, <2>4, <2>7, Zenon
<1>9. /\ u \in Seq(Byte) /\ Len(u) = b - a + 1
      /\ \A i \in 1 .. b - a + 1 : u[i] = s[a + i - 1]
  <2>1. s \in Seq(Byte) /\ a \in 1 .. Len(s) + 1 /\ b \in a - 1 .. Len(s)
    BY <1>1, <1>8
  <2> HIDE DEF a, b
  <2> QED
    BY <2>1, SubSeqFacts
<1>10. ASSUME NEW i \in 1 .. Len(u)
       PROVE  u[i] = StreamOf(msgs)[(st + from) + i]
  <2> HIDE DEF a, b
  <2>1. /\ a + i - 1 \in 1 .. Len(s) /\ st + (a + i - 1) = (st + from) + i
        /\ u[i] = s[a + i - 1]
    BY <1>8, <1>9
  <2> QED
    BY <1>1, <2>1
<1> HIDE DEF a, b
<1>11. Len(u) = Len(m) + (E(j) - (st + from))
  BY <1>8, <1>9
<1> HIDE DEF u
<1>12. CASE st + from = E(j)
  <2>1. Len(u) = Len(m)
    BY <1>5, <1>7, <1>11, <1>12
  <2>2. \A i \in 1 .. Len(u) : u[i] = m[i]
    BY <1>4, <1>10, <1>12, <2>1
  <2>3. u = m
    BY <1>5, <1>9, <2>1, <2>2, SeqEqual
  <2>4. u # <<>> => u[1] # LF
    <3> SUFFICES ASSUME u # <<>>
                 PROVE  u[1] # LF
      OBVIOUS
    <3>1. Len(u) # 0
      BY <1>9, EmptySeq
    <3>2. 1 \in 1 .. Len(m)
      BY <1>5, <2>1, <3>1
    <3> QED
      BY <1>5, <2>3, <3>2
  <2>5. Text(u) = u
    BY <2>4, Zenon DEF Text
  <2> QED
    BY <1>9, <2>3, <2>5 DEF u, a, b, m, E
<1>13. CASE st + from # E(j)
  <2>1. st + from = E(j) - 1 /\ j # 0
    BY <1>6, <1>13
  <2>2. Len(u) = Len(m) + 1
    BY <1>5, <1>7, <1>11, <2>1
  <2>3. 1 \in 1 .. Len(u) /\ (st + from) + 1 = E(j)
    BY <1>5, <1>7, <2>1, <2>2
  <2>4. u[1] = LF /\ u # <<>>
    BY <1>4, <1>10, <2>1, <2>3
  <2>5. /\ Tail(u) \in Seq(Byte) /\ Len(Tail(u)) = Len(u) - 1
        /\ \A i \in 1 .. Len(Tail(u)) : Tail(u)[i] = u[i + 1]
    BY <1>9, <2>4, HeadTailProperties
  <2>6. Len(Tail(u)) = Len(m)
    BY <1>5, <2>2, <2>5
  <2>7. ASSUME NEW i \in 1 .. Len(Tail(u))
        PROVE  Tail(u)[i] = m[i]
    <3>1. i + 1 \in 1 .. Len(u) /\ i \in 1 .. Len(m)
      BY <1>5, <2>2, <2>6
    <3>2. (st + from) + (i + 1) = E(j) + i
      <4>1. PICK x \in Nat : x = st + from
        BY <1>1, <1>6
      <4>2. PICK e \in Nat : e = E(j)
        BY <1>7
      <4>3. x = e - 1 /\ i \in Nat
        BY <2>1, <3>1, <4>1, <4>2
      <4>4. x + (i + 1) = e + i
        BY <4>3
      <4> QED
        BY <4>1, <4>2, <4>4, Zenon
    <3>3. u[i + 1] = StreamOf(msgs)[E(j) + i]
      BY <1>10, <3>1, <3>2
    <3> QED
      BY <1>4, <2>5, <3>1, <3>3
  <2>8. Tail(u) = m
    BY <1>5, <2>5, <2>6, <2>7, SeqEqual
  <2>9. Text(u) = Tail(u)
    BY <2>4, Zenon DEF Text
  <2> QED
    BY <1>9, <2>8, <2>9 DEF u, a, b, m, E
<1> QED
  BY <1>12, <1>13

\* What the JSON parser makes of tokens.
Texts(toks) == [i \in 1 .. Len(toks) |-> Text(toks[i])]

\* toks are tokens with the texts given.
AreTokens(toks, texts) ==
    toks \in Seq(Seq(Byte)) /\ texts \in Seq(Bodies) /\ Texts(toks) = texts

\* Nothing has no tokens.
LEMMA NoTokens == AreTokens(<<>>, <<>>)
<1>1. Texts(<<>>) \in Seq(Bodies) /\ Len(Texts(<<>>)) = 0
  BY DEF Texts
<1>2. Texts(<<>>) = <<>>
  BY <1>1, EmptySeq
<1> QED
  BY <1>2 DEF AreTokens

\* One token has one text.
LEMMA OneToken ==
    ASSUME NEW u \in Seq(Byte), NEW b \in Bodies, Text(u) = b
    PROVE  AreTokens(<<u>>, <<b>>)
<1>1. <<u>> \in Seq(Seq(Byte)) /\ <<b>> \in Seq(Bodies) /\ Len(<<u>>) = 1 /\ <<u>>[1] = u
  OBVIOUS
<1>2. Texts(<<u>>) = [i \in 1 .. 1 |-> Text(<<u>>[i])]
  BY <1>1, Zenon DEF Texts
<1>3. \A i \in 1 .. 1 : Text(<<u>>[i]) = b
  <2>1. \A i \in 1 .. 1 : i = 1
    OBVIOUS
  <2> QED
    BY <1>1, <2>1, Zenon
<1>4. Texts(<<u>>) = [i \in 1 .. 1 |-> b]
  BY <1>2, <1>3, Zenon
<1>5. [i \in 1 .. 1 |-> b] = <<b>>
  OBVIOUS
<1> QED
  BY <1>1, <1>4, <1>5, Zenon DEF AreTokens

\* The texts of more tokens.
LEMMA MoreTokens ==
    ASSUME NEW g, NEW h, NEW x, NEW y, AreTokens(g, x), AreTokens(h, y)
    PROVE  AreTokens(g \o h, x \o y)
<1>1. /\ g \in Seq(Seq(Byte)) /\ h \in Seq(Seq(Byte)) /\ x \in Seq(Bodies) /\ y \in Seq(Bodies)
      /\ Texts(g) = x /\ Texts(h) = y
  BY DEF AreTokens
<1>2. /\ g \o h \in Seq(Seq(Byte)) /\ Len(g \o h) = Len(g) + Len(h)
      /\ \A i \in 1 .. Len(g) + Len(h) :
            (g \o h)[i] = IF i <= Len(g) THEN g[i] ELSE h[i - Len(g)]
  BY <1>1, ConcatProperties
<1>3. /\ x \o y \in Seq(Bodies) /\ Len(x \o y) = Len(x) + Len(y)
      /\ \A i \in 1 .. Len(x) + Len(y) :
            (x \o y)[i] = IF i <= Len(x) THEN x[i] ELSE y[i - Len(x)]
  BY <1>1, ConcatProperties
<1>4. Len(g) = Len(x) /\ Len(h) = Len(y) /\ Len(g) \in Nat /\ Len(h) \in Nat
  <2>1. Len(g) \in Nat /\ Len(h) \in Nat
    BY <1>1
  <2>2. x = [i \in 1 .. Len(g) |-> Text(g[i])] /\ y = [i \in 1 .. Len(h) |-> Text(h[i])]
    BY <1>1, Zenon DEF Texts
  <2>3. DOMAIN x = 1 .. Len(g) /\ DOMAIN y = 1 .. Len(h)
    BY <2>2, Zenon
  <2>4. DOMAIN x = 1 .. Len(x) /\ DOMAIN y = 1 .. Len(y) /\ Len(x) \in Nat /\ Len(y) \in Nat
    BY <1>1, LenProperties
  <2> QED
    BY <2>1, <2>3, <2>4
<1>5. /\ \A i \in 1 .. Len(g) : x[i] = Text(g[i])
      /\ \A i \in 1 .. Len(h) : y[i] = Text(h[i])
  BY <1>1, Zenon DEF Texts
<1>6. ASSUME NEW i \in 1 .. Len(g) + Len(h)
      PROVE  Text((g \o h)[i]) = (x \o y)[i]
  <2>1. CASE i <= Len(g)
    <3>1. i \in 1 .. Len(g)
      BY <1>4, <2>1
    <3>2. (g \o h)[i] = g[i] /\ (x \o y)[i] = x[i]
      BY <1>2, <1>3, <1>4, <2>1
    <3> QED
      BY <1>5, <3>1, <3>2, Zenon
  <2>2. CASE ~(i <= Len(g))
    <3>1. i - Len(g) \in 1 .. Len(h)
      BY <1>4, <2>2
    <3>2. (g \o h)[i] = h[i - Len(g)] /\ (x \o y)[i] = y[i - Len(g)]
      BY <1>2, <1>3, <1>4, <2>2
    <3> QED
      BY <1>5, <3>1, <3>2, Zenon
  <2> QED
    BY <2>1, <2>2
<1>7. Texts(g \o h) = [i \in 1 .. Len(g) + Len(h) |-> (x \o y)[i]]
  BY <1>2, <1>6, Zenon DEF Texts
<1>8. x \o y = [i \in 1 .. Len(g) + Len(h) |-> (x \o y)[i]]
  <2>1. x \o y = [i \in 1 .. Len(x \o y) |-> (x \o y)[i]]
    BY <1>3, LenProperties
  <2> QED
    BY <1>3, <1>4, <2>1, Zenon
<1> QED
  BY <1>2, <1>3, <1>7, <1>8, Zenon DEF AreTokens

\* SplitData gives the messages that are complete in a piece of the stream.
LEMMA SplitIs ==
    ASSUME NEW msgs \in Seq(Bodies), NEW st, NEW k, NEW k2, NEW q, NEW s,
           Received(msgs, st, k, k2, q, s)
    PROVE  AreTokens(SplitData(s), SubSeq(msgs, k + 1, k2))
<1> DEFINE E(n) == EndOf(msgs, n)
<1>1. /\ Len(msgs) \in Nat /\ k \in Nat /\ k2 \in Nat /\ q \in Nat /\ k2 <= Len(msgs) /\ k <= k2
      /\ st \in Nat /\ st <= q
      /\ \A n \in 0 .. Len(msgs) : E(n) \in Nat
      /\ s \in Seq(Byte) /\ Len(s) = q - st /\ (k # k2 => E(k2) <= q)
  BY ReceivedFacts
<1>2. /\ \A x, y \in 0 .. Len(msgs) : x <= y => E(x) <= E(y)
      /\ \A x, y \in 0 .. Len(msgs) : x < y => E(x) + 2 <= E(y)
  BY StreamFacts
<1>3. PICK f : IsSplit(f, s, 0) /\ SplitData(s) = f[0]
  BY <1>1, SplitEquation
<1>4. \A n \in 0 .. Len(s) :
         f[n] = IF Find(s, n) = 0 THEN <<>>
                ELSE <<SubSeq(s, n + 1, Find(s, n) - 1)>> \o f[Find(s, n) + 1]
  BY <1>3, Zenon DEF IsSplit
<1> DEFINE S == {d \in Nat : d <= k2 - k =>
                    \A n \in 0 .. Len(s) : UpTo(msgs, st, k2 - d, n) =>
                       AreTokens(f[n], SubSeq(msgs, (k2 - d) + 1, k2))}
<1>5. 0 \in S
  <2>1. k2 - 0 = k2 /\ k2 \in k .. k2 /\ k2 < k2 + 1
    BY <1>1
  <2>2. SubSeq(msgs, k2 + 1, k2) = <<>>
    BY <1>1, <2>1, SubSeqEmpty
  <2>3. ASSUME NEW n \in 0 .. Len(s), UpTo(msgs, st, k2, n)
        PROVE  AreTokens(f[n], SubSeq(msgs, k2 + 1, k2))
    <3>1. Find(s, n) = 0
      BY <2>1, <2>3, FindAt
    <3>2. f[n] = <<>>
      BY <1>4, <3>1, Zenon
    <3> QED
      BY <2>2, <3>2, NoTokens, Zenon
  <2> QED
    BY <2>1, <2>3
<1>6. ASSUME NEW d \in Nat, d \in S
      PROVE  d + 1 \in S
  <2> SUFFICES ASSUME d + 1 <= k2 - k,
                      NEW n \in 0 .. Len(s), UpTo(msgs, st, k2 - (d + 1), n)
               PROVE  AreTokens(f[n], SubSeq(msgs, (k2 - (d + 1)) + 1, k2))
    OBVIOUS
  <2> DEFINE j == k2 - (d + 1)
             x == E(j + 1) - 1 - st
             u == SubSeq(s, n + 1, x - 1)
  <2>1. /\ j \in k .. k2 /\ j \in k .. k2 - 1 /\ j # k2 /\ k2 - d = j + 1 /\ d <= k2 - k
        /\ j + 1 \in 1 .. Len(msgs) /\ k2 \in j + 1 .. Len(msgs) /\ j \in Nat
        /\ j \in 0 .. Len(msgs) /\ j + 1 \in 0 .. Len(msgs) /\ k2 \in 0 .. Len(msgs)
        /\ j + 1 <= k2 /\ j < j + 1 /\ k # k2
    BY <1>1
  <2>2. UpTo(msgs, st, j, n)
    OBVIOUS
  <2> HIDE DEF j
  <2>3. Find(s, n) = x
    BY <2>1, <2>2, FindAt
  <2>4. x # 0 /\ x + 1 \in 0 .. Len(s) /\ UpTo(msgs, st, j + 1, x + 1)
    <3>1. PICK en \in Nat : en = E(j + 1)
      BY <1>1, <2>1
    <3>2. PICK ej \in Nat : ej = E(j)
      BY <1>1, <2>1
    <3>3. ej + 2 <= en
      BY <1>2, <2>1, <3>1, <3>2
    <3>4. en <= q
      <4>1. E(j + 1) <= E(k2) /\ E(k2) \in Nat /\ E(k2) <= q
        BY <1>1, <1>2, <2>1
      <4> QED
        BY <1>1, <3>1, <4>1
    <3>5. n \in Nat /\ st + n <= ej /\ ej <= (st + n) + 1
      <4>1. n \in Nat /\ (st + n = ej \/ st + n = ej - 1)
        BY <2>2, <3>2 DEF UpTo
      <4> QED
        BY <1>1, <4>1
    <3>6. x = en - 1 - st
      BY <3>1
    <3> HIDE DEF x
    <3>7. x # 0 /\ x + 1 \in 0 .. Len(s) /\ st + (x + 1) = en /\ x + 1 \in Nat
      <4>1. st \in Nat /\ q \in Nat /\ Len(s) = q - st
        BY <1>1
      <4> QED
        BY <3>3, <3>4, <3>5, <3>6, <4>1
    <3> QED
      BY <3>1, <3>7 DEF UpTo
  <2>5. f[n] = <<u>> \o f[x + 1]
    <3> HIDE DEF x
    <3> QED
      BY <1>4, <2>3, <2>4, Zenon
  <2>6. u \in Seq(Byte) /\ Text(u) = msgs[j + 1]
    BY <2>1, <2>2, TokenIs
  <2>7. AreTokens(<<u>>, <<msgs[j + 1]>>)
    <3> HIDE DEF u
    <3>1. msgs[j + 1] \in Bodies
      BY <2>1
    <3> QED
      BY <2>6, <3>1, OneToken
  <2>8. AreTokens(f[x + 1], SubSeq(msgs, (j + 1) + 1, k2))
    <3>1. \A i \in 0 .. Len(s) : UpTo(msgs, st, k2 - d, i) =>
                AreTokens(f[i], SubSeq(msgs, (k2 - d) + 1, k2))
      BY <1>6, <2>1
    <3> HIDE DEF x
    <3> QED
      BY <2>1, <2>4, <3>1, Zenon
  <2> HIDE DEF u, x
  <2>9. AreTokens(<<u>> \o f[x + 1], <<msgs[j + 1]>> \o SubSeq(msgs, (j + 1) + 1, k2))
    BY <2>7, <2>8, MoreTokens
  <2>10. <<msgs[j + 1]>> \o SubSeq(msgs, (j + 1) + 1, k2) = SubSeq(msgs, j + 1, k2)
    BY <2>1, SubSeqRecursiveFirst
  <2>11. AreTokens(f[n], SubSeq(msgs, j + 1, k2))
    BY <2>5, <2>9, <2>10, Zenon
  <2> QED
    BY <2>11 DEF j
<1>7. \A d \in Nat : d \in S
  <2> HIDE DEF S
  <2> QED
    BY <1>5, <1>6, NaturalsAllIn
<1>8. k2 - k \in Nat /\ k2 - (k2 - k) = k /\ k2 - k <= k2 - k /\ 0 \in 0 .. Len(s)
  BY <1>1
<1>9. UpTo(msgs, st, k, 0)
  <2>1. st + 0 = st
    BY <1>1
  <2>2. st = E(k) \/ (k # 0 /\ st = E(k) - 1)
    BY DEF Received
  <2> QED
    BY <2>1, <2>2 DEF UpTo
<1>10. AreTokens(f[0], SubSeq(msgs, k + 1, k2))
  <2>1. k2 - k \in S
    BY <1>7, <1>8
  <2>2. \A n \in 0 .. Len(s) : UpTo(msgs, st, k2 - (k2 - k), n) =>
                AreTokens(f[n], SubSeq(msgs, (k2 - (k2 - k)) + 1, k2))
    BY <1>8, <2>1
  <2> QED
    BY <1>8, <1>9, <2>2, Zenon
<1> QED
  BY <1>3, <1>10, Zenon

\* The bytes up to the last CR or LF are those of the complete messages, or all bytes
\* if the last one is the CR of the next message.
LEMMA ConsumedIs ==
    ASSUME NEW msgs \in Seq(Bodies), NEW st, NEW k, NEW k2, NEW q, NEW s,
           Received(msgs, st, k, k2, q, s), k < k2
    PROVE  \/ /\ ConsumedLength(s) = EndOf(msgs, k2) - st
              /\ \A n \in 1 .. Len(msgs) : EndOf(msgs, n) # q + 1
           \/ /\ ConsumedLength(s) = Len(s)
              /\ k2 < Len(msgs) /\ q = EndOf(msgs, k2 + 1) - 1
<1> DEFINE E(n) == EndOf(msgs, n)
           T == {i \in 1 .. Len(s) : s[i] \in {CR, LF}}
           x == E(k2) - st
<1>1. /\ Len(msgs) \in Nat /\ k \in Nat /\ k2 \in Nat /\ q \in Nat /\ k2 <= Len(msgs)
      /\ st \in Nat /\ st <= q
      /\ \A n \in 0 .. Len(msgs) : E(n) \in Nat
      /\ s \in Seq(Byte) /\ Len(s) = q - st
      /\ \A i \in 1 .. Len(s) : /\ st + i \in 1 .. E(Len(msgs))
                                /\ s[i] = StreamOf(msgs)[st + i]
      /\ \A n \in 0 .. Len(msgs) : E(n) <= q => n <= k2
      /\ E(k2) <= q /\ st <= E(k)
  <2>1. k # k2
    BY ReceivedFacts
  <2> QED
    BY <2>1, ReceivedFacts
<1>2. /\ \A a, b \in 0 .. Len(msgs) : a <= b => E(a) <= E(b)
      /\ \A a, b \in 0 .. Len(msgs) : a < b => E(a) + 2 <= E(b)
      /\ \A n \in 1 .. Len(msgs) : /\ StreamOf(msgs)[E(n) - 1] = CR
                                   /\ StreamOf(msgs)[E(n)] = LF
  BY StreamFacts
<1>3. \A p \in 1 .. E(Len(msgs)) :
         /\ StreamOf(msgs)[p] = CR => \E n \in 1 .. Len(msgs) : p = E(n) - 1
         /\ StreamOf(msgs)[p] = LF => \E n \in 1 .. Len(msgs) : p = E(n)
  BY EndBytes
<1>4. ConsumedLength(s) = Max(T)
  BY DEF ConsumedLength
<1> HIDE DEF E
<1>5. E(k2) \in Nat /\ st + 2 <= E(k2)
  <2>1. k \in 0 .. Len(msgs) /\ k2 \in 0 .. Len(msgs)
    BY <1>1
  <2>2. E(k) \in Nat /\ E(k2) \in Nat /\ E(k) + 2 <= E(k2)
    BY <1>1, <1>2, <2>1
  <2> QED
    BY <1>1, <2>2
<1>6. CASE \A n \in 1 .. Len(msgs) : E(n) # q + 1
  <2>1. x \in T
    <3>1. x \in 1 .. Len(s) /\ st + x = E(k2) /\ k2 \in 1 .. Len(msgs)
      BY <1>1, <1>5
    <3>2. s[x] = LF
      BY <1>1, <1>2, <3>1
    <3> QED
      BY <3>1, <3>2
  <2>2. ASSUME NEW i \in T
        PROVE  i \in Int /\ i <= x
    <3>1. i \in 1 .. Len(s) /\ s[i] \in {CR, LF} /\ i \in Nat /\ i <= q - st
      BY <1>1
    <3>2. st + i \in 1 .. E(Len(msgs)) /\ StreamOf(msgs)[st + i] \in {CR, LF}
      BY <1>1, <3>1
    <3>3. PICK n \in 1 .. Len(msgs) : st + i = E(n) - 1 \/ st + i = E(n)
      BY <1>3, <3>2
    <3>4. n \in 0 .. Len(msgs) /\ E(n) \in Nat /\ k2 \in 0 .. Len(msgs)
      BY <1>1
    <3>5. E(n) <= q
      <4>1. E(n) # q + 1
        BY <1>6
      <4>2. st \in Nat /\ q \in Nat /\ E(n) \in Nat
        BY <1>1, <3>4
      <4> QED
        BY <3>1, <3>3, <4>1, <4>2
    <3>6. E(n) <= E(k2)
      BY <1>1, <1>2, <3>4, <3>5
    <3> QED
      BY <1>1, <1>5, <3>1, <3>3, <3>4, <3>6
  <2> HIDE DEF T, x
  <2>3. Max(T) = x
    BY <2>1, <2>2, MaxIs
  <2> QED
    BY <1>4, <1>6, <2>3 DEF x, E
<1>7. CASE \E n \in 1 .. Len(msgs) : E(n) = q + 1
  <2>1. PICK n \in 1 .. Len(msgs) : E(n) = q + 1
    BY <1>7
  <2>2. n \in 0 .. Len(msgs) /\ E(n) \in Nat /\ n \in Nat /\ n <= Len(msgs)
    BY <1>1
  <2>3. n = k2 + 1
    <3>1. n > k2
      <4> SUFFICES ASSUME n <= k2
                   PROVE  FALSE
        BY <1>1, <2>2
      <4>1. k2 \in 0 .. Len(msgs)
        BY <1>1
      <4>2. E(n) <= E(k2)
        BY <1>2, <2>2, <4>1
      <4> QED
        BY <1>1, <1>5, <2>1, <2>2, <4>2
    <3>2. ~(k2 + 1 < n)
      <4> SUFFICES ASSUME k2 + 1 < n
                   PROVE  FALSE
        OBVIOUS
      <4>1. k2 + 1 \in 0 .. Len(msgs)
        BY <1>1, <2>2
      <4>2. E(k2 + 1) + 2 <= E(n) /\ E(k2 + 1) \in Nat
        BY <1>1, <1>2, <2>2, <4>1
      <4>3. E(k2 + 1) <= q
        BY <1>1, <2>1, <4>2
      <4>4. k2 + 1 <= k2
        BY <1>1, <4>1, <4>3
      <4> QED
        BY <1>1, <4>4
    <3> QED
      BY <1>1, <2>2, <3>1, <3>2
  <2>4. Len(s) \in T
    <3>1. Len(s) \in 1 .. Len(s) /\ st + Len(s) = E(n) - 1
      BY <1>1, <1>5, <2>1
    <3>2. s[Len(s)] = CR
      BY <1>1, <1>2, <3>1
    <3> QED
      BY <3>1, <3>2
  <2>5. \A i \in T : i \in Int /\ i <= Len(s)
    BY <1>1
  <2> HIDE DEF T
  <2>6. Max(T) = Len(s)
    BY <2>4, <2>5, MaxIs
  <2>7. k2 < Len(msgs) /\ q = E(k2 + 1) - 1
    BY <1>1, <2>1, <2>2, <2>3
  <2> QED
    BY <1>4, <2>6, <2>7 DEF E
<1> QED
  BY <1>6, <1>7 DEF E

-----------------------------------------------------------------------------
(* CrlfFraming: the messages that are kept.                                 *)

\* Kept, for any messages and any set of lost ones.
KeptOf(msgs, L) ==
    LET kept[n \in 0 .. Len(msgs)] ==
            IF n = 0 THEN <<>>
            ELSE kept[n - 1] \o (IF n \in L THEN <<>> ELSE <<msgs[n]>>)
    IN  kept

\* Kept is that of the client's messages and the lost ones.
LEMMA KeptIs == Kept = KeptOf(bodies, lost)
  BY DEF Kept, KeptOf

\* The recursive equation that defines Kept.
LEMMA KeptEquation ==
    ASSUME NEW msgs \in Seq(Bodies), NEW L
    PROVE  /\ KeptOf(msgs, L)[0] = <<>>
           /\ \A n \in 1 .. Len(msgs) :
                 /\ n \in L => KeptOf(msgs, L)[n] = KeptOf(msgs, L)[n - 1] \o <<>>
                 /\ n \notin L => KeptOf(msgs, L)[n] = KeptOf(msgs, L)[n - 1] \o <<msgs[n]>>
<1> DEFINE Body(f) == [n \in 0 .. Len(msgs) |->
                         IF n = 0 THEN <<>>
                         ELSE f[n - 1] \o (IF n \in L THEN <<>> ELSE <<msgs[n]>>)]
           w == [n \in 1 .. Len(msgs) |-> IF n \in L THEN <<>> ELSE <<msgs[n]>>]
<1>1. Len(msgs) \in Nat
  OBVIOUS
<1>2. \A n \in 1 .. Len(msgs) : (IF n \in L THEN <<>> ELSE <<msgs[n]>>) \in Seq(Bodies)
  OBVIOUS
<1>3. w \in [1 .. Len(msgs) -> Seq(Bodies)]
  BY <1>2, Zenon
<1>4. \A n \in 1 .. Len(msgs) : w[n] = IF n \in L THEN <<>> ELSE <<msgs[n]>>
  BY Zenon
<1> HIDE DEF w
<1>5. PICK f : IsConcat(f, w, Len(msgs), Bodies)
  BY <1>1, <1>3, ConcatExists
<1>6. f = Body(f)
  <2>1. /\ f = [n \in 0 .. Len(msgs) |-> f[n]] /\ f[0] = <<>>
        /\ \A n \in 1 .. Len(msgs) : f[n] = f[n - 1] \o w[n]
    BY <1>5 DEF IsConcat
  <2>2. \A n \in 0 .. Len(msgs) : n = 0 \/ n \in 1 .. Len(msgs)
    BY <1>1
  <2>3. \A n \in 0 .. Len(msgs) :
           f[n] = IF n = 0 THEN <<>>
                  ELSE f[n - 1] \o (IF n \in L THEN <<>> ELSE <<msgs[n]>>)
    BY <1>4, <2>1, <2>2, Zenon
  <2> QED
    BY <2>1, <2>3, Zenon
<1>7. KeptOf(msgs, L) = CHOOSE g : g = Body(g)
  BY DEF KeptOf
<1> DEFINE e == KeptOf(msgs, L)
<1>8. e = Body(e)
  <2> HIDE DEF Body
  <2> QED
    BY <1>6, <1>7
<1> HIDE DEF e
<1>9. \A n \in 0 .. Len(msgs) :
         e[n] = IF n = 0 THEN <<>> ELSE e[n - 1] \o (IF n \in L THEN <<>> ELSE <<msgs[n]>>)
  BY <1>8, Zenon
<1>10. 0 \in 0 .. Len(msgs) /\ \A n \in 1 .. Len(msgs) : n \in 0 .. Len(msgs) /\ n # 0
  BY <1>1
<1>11. e[0] = <<>>
  BY <1>9, <1>10, Zenon
<1>12. \A n \in 1 .. Len(msgs) : /\ n \in L => e[n] = e[n - 1] \o <<>>
                                 /\ n \notin L => e[n] = e[n - 1] \o <<msgs[n]>>
  BY <1>9, <1>10, Zenon
<1> QED
  BY <1>11, <1>12 DEF e

\* What is kept are messages.
LEMMA KeptType ==
    ASSUME NEW msgs \in Seq(Bodies), NEW L, NEW k \in 0 .. Len(msgs)
    PROVE  KeptOf(msgs, L)[k] \in Seq(Bodies)
<1> DEFINE S == {n \in Nat : n <= Len(msgs) => KeptOf(msgs, L)[n] \in Seq(Bodies)}
<1>1. 0 \in S
  <2>1. KeptOf(msgs, L)[0] = <<>> /\ <<>> \in Seq(Bodies)
    BY KeptEquation
  <2> QED
    BY <2>1
<1>2. ASSUME NEW n \in Nat, n \in S
      PROVE  n + 1 \in S
  <2> SUFFICES ASSUME n + 1 <= Len(msgs)
               PROVE  KeptOf(msgs, L)[n + 1] \in Seq(Bodies)
    OBVIOUS
  <2> DEFINE a == KeptOf(msgs, L)[n]
             m == msgs[n + 1]
  <2>1. n + 1 \in 1 .. Len(msgs) /\ (n + 1) - 1 = n /\ m \in Bodies /\ a \in Seq(Bodies)
    BY <1>2
  <2>2. \/ KeptOf(msgs, L)[n + 1] = a \o <<>>
        \/ KeptOf(msgs, L)[n + 1] = a \o <<m>>
    BY <2>1, KeptEquation, Zenon
  <2> HIDE DEF a, m
  <2>3. <<>> \in Seq(Bodies) /\ <<m>> \in Seq(Bodies)
    BY <2>1
  <2>4. a \o <<>> \in Seq(Bodies) /\ a \o <<m>> \in Seq(Bodies)
    BY <2>1, <2>3, ConcatProperties
  <2> QED
    BY <2>2, <2>4, Zenon
<1>3. \A n \in Nat : n \in S
  <2> HIDE DEF S
  <2> QED
    BY <1>1, <1>2, NaturalsAllIn
<1> QED
  BY <1>3

\* Messages lost later change nothing.
LEMMA KeptSame ==
    ASSUME NEW msgs \in Seq(Bodies), NEW L, NEW M, NEW k \in 0 .. Len(msgs),
           \A n \in 1 .. k : n \in L <=> n \in M
    PROVE  KeptOf(msgs, L)[k] = KeptOf(msgs, M)[k]
<1> DEFINE S == {n \in Nat : n <= k => KeptOf(msgs, L)[n] = KeptOf(msgs, M)[n]}
<1>1. Len(msgs) \in Nat /\ k \in Nat /\ k <= Len(msgs)
  OBVIOUS
<1>2. 0 \in S
  <2>1. KeptOf(msgs, L)[0] = <<>> /\ KeptOf(msgs, M)[0] = <<>>
    BY KeptEquation
  <2> QED
    BY <2>1
<1>3. ASSUME NEW n \in Nat, n \in S
      PROVE  n + 1 \in S
  <2> SUFFICES ASSUME n + 1 <= k
               PROVE  KeptOf(msgs, L)[n + 1] = KeptOf(msgs, M)[n + 1]
    OBVIOUS
  <2>1. KeptOf(msgs, L)[n] = KeptOf(msgs, M)[n]
    BY <1>1, <1>3
  <2>2. n + 1 \in 1 .. Len(msgs) /\ (n + 1) - 1 = n /\ n + 1 \in 1 .. k
    BY <1>1
  <2>3. n + 1 \in L <=> n + 1 \in M
    BY <2>2
  <2>4. CASE n + 1 \in L
    <3>1. /\ KeptOf(msgs, L)[n + 1] = KeptOf(msgs, L)[(n + 1) - 1] \o <<>>
          /\ KeptOf(msgs, M)[n + 1] = KeptOf(msgs, M)[(n + 1) - 1] \o <<>>
      BY <2>2, <2>3, <2>4, KeptEquation, Zenon
    <3> QED
      BY <2>1, <2>2, <3>1, Zenon
  <2>5. CASE n + 1 \notin L
    <3>1. /\ KeptOf(msgs, L)[n + 1] = KeptOf(msgs, L)[(n + 1) - 1] \o <<msgs[n + 1]>>
          /\ KeptOf(msgs, M)[n + 1] = KeptOf(msgs, M)[(n + 1) - 1] \o <<msgs[n + 1]>>
      BY <2>2, <2>3, <2>5, KeptEquation, Zenon
    <3> QED
      BY <2>1, <2>2, <3>1, Zenon
  <2> QED
    BY <2>4, <2>5
<1>4. \A n \in Nat : n \in S
  <2> HIDE DEF S
  <2> QED
    BY <1>2, <1>3, NaturalsAllIn
<1> QED
  BY <1>1, <1>4

\* A message that is lost adds nothing.
LEMMA KeptLost ==
    ASSUME NEW msgs \in Seq(Bodies), NEW L, NEW n \in 1 .. Len(msgs), n \in L,
           KeptOf(msgs, L)[n - 1] \in Seq(Bodies)
    PROVE  KeptOf(msgs, L)[n] = KeptOf(msgs, L)[n - 1]
<1>1. KeptOf(msgs, L)[n] = KeptOf(msgs, L)[n - 1] \o <<>>
  BY KeptEquation
<1> DEFINE a == KeptOf(msgs, L)[n - 1]
<1>2. a \in Seq(Bodies)
  OBVIOUS
<1> HIDE DEF a
<1>3. a \o <<>> = a
  BY <1>2, ConcatEmptySeq
<1> QED
  BY <1>1, <1>3, Zenon DEF a

\* The messages behind k are kept if none of them is lost.
LEMMA KeptMore ==
    ASSUME NEW msgs \in Seq(Bodies), NEW L, NEW k \in 0 .. Len(msgs), NEW k2 \in k .. Len(msgs),
           KeptOf(msgs, L)[k] \in Seq(Bodies), \A n \in k + 1 .. k2 : n \notin L
    PROVE  KeptOf(msgs, L)[k2] = KeptOf(msgs, L)[k] \o SubSeq(msgs, k + 1, k2)
<1> DEFINE a == KeptOf(msgs, L)[k]
           P(d) == KeptOf(msgs, L)[k + d] = a \o SubSeq(msgs, k + 1, k + d)
           S == {d \in Nat : k + d <= k2 => P(d)}
<1>1. Len(msgs) \in Nat /\ k \in Nat /\ k2 \in Nat /\ k <= k2 /\ k2 <= Len(msgs)
  OBVIOUS
<1>2. a \in Seq(Bodies)
  OBVIOUS
<1>3. 0 \in S
  <2>1. k + 0 = k /\ k < k + 1
    BY <1>1
  <2>2. SubSeq(msgs, k + 1, k) = <<>>
    BY <1>1, <2>1, SubSeqEmpty
  <2>3. a \o <<>> = a
    <3> HIDE DEF a
    <3> QED
      BY <1>2, ConcatEmptySeq
  <2>4. P(0)
    BY <2>1, <2>2, <2>3, Zenon
  <2> HIDE DEF P
  <2> QED
    BY <2>4
<1>4. ASSUME NEW d \in Nat, d \in S
      PROVE  d + 1 \in S
  <2> SUFFICES ASSUME k + (d + 1) <= k2
               PROVE  P(d + 1)
    <3> HIDE DEF P
    <3> QED
      OBVIOUS
  <2> DEFINE n == k + (d + 1)
             u == SubSeq(msgs, k + 1, k + d)
  <2>1. KeptOf(msgs, L)[k + d] = a \o u
    <3>1. P(d)
      <4> HIDE DEF P
      <4> QED
        BY <1>1, <1>4
    <3> QED
      BY <3>1, Zenon
  <2>2. /\ n \in 1 .. Len(msgs) /\ n - 1 = k + d /\ n \in k + 1 .. k2 /\ k + 1 \in 1 .. Len(msgs)
        /\ n \in k + 1 .. Len(msgs) /\ k + 1 \in 1 .. Len(msgs) + 1
        /\ k + d \in (k + 1) - 1 .. Len(msgs)
    BY <1>1
  <2> HIDE DEF n
  <2>3. KeptOf(msgs, L)[n] = KeptOf(msgs, L)[n - 1] \o <<msgs[n]>>
    BY <2>2, KeptEquation
  <2>4. SubSeq(msgs, k + 1, n) = SubSeq(msgs, k + 1, n - 1) \o <<msgs[n]>>
    BY <2>2, SubSeqRecursiveSecond
  <2>5. u \in Seq(Bodies) /\ <<msgs[n]>> \in Seq(Bodies)
    <3>1. msgs[n] \in Bodies
      BY <2>2
    <3>2. u \in Seq(Bodies)
      BY <2>2, SubSeqFacts
    <3> QED
      BY <3>1, <3>2
  <2>6. KeptOf(msgs, L)[n] = (a \o u) \o <<msgs[n]>>
    BY <2>1, <2>2, <2>3, Zenon
  <2>7. SubSeq(msgs, k + 1, n) = u \o <<msgs[n]>>
    BY <2>2, <2>4, Zenon
  <2> HIDE DEF a, u
  <2>8. (a \o u) \o <<msgs[n]>> = a \o (u \o <<msgs[n]>>)
    BY <1>2, <2>5, ConcatAssociative, SMTT(30)
  <2>9. KeptOf(msgs, L)[n] = a \o SubSeq(msgs, k + 1, n)
    BY <2>6, <2>7, <2>8, Zenon
  <2> QED
    BY <2>9, Zenon DEF n
<1>5. \A d \in Nat : d \in S
  <2> HIDE DEF S
  <2> QED
    BY <1>3, <1>4, NaturalsAllIn
<1>6. k2 - k \in Nat /\ k + (k2 - k) = k2
  BY <1>1
<1>7. k2 - k \in S
  BY <1>5, <1>6
<1>8. P(k2 - k)
  <2> HIDE DEF P
  <2> QED
    BY <1>1, <1>6, <1>7
<1> QED
  BY <1>6, <1>8, Zenon

-----------------------------------------------------------------------------
(* CrlfFraming: one read.                                                   *)

\* What ClientTcpReadCb has made of the first q bytes: buf is what it keeps, behind
\* message k, the tokens are those of the first k messages that are not lost, and if
\* the LF of message k is not used up then message k is lost.
Framed(msgs, st, k, q, buf, toks, L) ==
    /\ Received(msgs, st, k, k, q, buf)
    /\ AreTokens(toks, KeptOf(msgs, L)[k])
    /\ \A n \in L : n \in 1 .. k
    /\ st # EndOf(msgs, k) => k \in L

\* LostBy, for any messages and any set of lost ones.
LostOf(msgs, L, a, b) ==
    {n \in 2 .. Len(msgs) : EndOf(msgs, n) = b + 1 /\ EndOf(msgs, n - 1) > a /\ n - 1 \notin L}

\* s is what was kept, followed by the bytes p + 1 .. q of the stream.
Joined(msgs, buf, p, q, s) == s = buf \o SubSeq(StreamOf(msgs), p + 1, q)

\* The last complete message of a piece that begins behind message k, k if there is no
\* CR LF in it.
LastIs(msgs, st, k, k2, q, s) ==
    /\ k2 \in 0 .. Len(msgs) /\ Received(msgs, st, k, k2, q, s)
    /\ FindCRLF(s) <=> k # k2

\* The bytes kept and those read are a piece of the stream, in which there is a CR LF
\* if there is a complete message.
LEMMA PieceIs ==
    ASSUME NEW msgs \in Seq(Bodies), NEW st, NEW k, NEW p, NEW buf,
           Received(msgs, st, k, k, p, buf),
           NEW q \in Nat, p <= q, q <= Len(StreamOf(msgs)),
           NEW s, Joined(msgs, buf, p, q, s)
    PROVE  \E k2 : LastIs(msgs, st, k, k2, q, s)
<1> DEFINE E(i) == EndOf(msgs, i)
           t == StreamOf(msgs)
<1>1. /\ Len(msgs) \in Nat /\ k \in Nat /\ p \in Nat /\ k <= Len(msgs) /\ k \in 0 .. Len(msgs)
      /\ \A i \in 0 .. Len(msgs) : E(i) \in Nat
      /\ st \in Nat /\ st <= p /\ p <= E(Len(msgs))
  BY ReceivedFacts
<1>2. /\ t \in Seq(Byte) /\ Len(t) = E(Len(msgs))
      /\ \A i, j \in 0 .. Len(msgs) : i < j => E(i) + 2 <= E(j)
  BY StreamFacts
<1>3. /\ buf = SubSeq(t, st + 1, p) /\ (st = E(k) \/ (k # 0 /\ st = E(k) - 1))
      /\ k < Len(msgs) => p < E(k + 1)
  BY DEF Received
<1>4. q \in Nat /\ p <= q /\ q <= Len(t) /\ s = buf \o SubSeq(t, p + 1, q)
  BY Zenon DEF Joined
<1> HIDE DEF E, t
<1>5. E(Len(msgs)) \in Nat /\ Len(msgs) \in 0 .. Len(msgs)
  BY <1>1
<1>6. st <= q /\ q <= E(Len(msgs)) /\ p <= Len(t) /\ Len(t) \in Nat
  BY <1>1, <1>2, <1>4, <1>5
<1>7. s = SubSeq(t, st + 1, q)
  <2>1. st + 1 \in 1 .. Len(t) + 1 /\ p \in (st + 1) - 1 .. Len(t) /\ q \in p .. Len(t)
    BY <1>1, <1>4, <1>6
  <2>2. SubSeq(t, st + 1, p) \o SubSeq(t, p + 1, q) = SubSeq(t, st + 1, q)
    BY <1>2, <2>1, ConcatAdjacentSubSeq
  <2> QED
    BY <1>3, <1>4, <2>2, Zenon
<1> DEFINE T == {i \in 0 .. Len(msgs) : i = k \/ (k < i /\ E(i) <= q)}
<1>8. PICK k2 \in T : \A i \in T : i <= k2
  <2>1. k \in T
    BY <1>1
  <2>2. T \in SUBSET (0 .. Len(msgs)) /\ T # {}
    BY <2>1
  <2> HIDE DEF T
  <2> QED
    BY <1>1, <2>2, GreatestElement
<1>9. /\ k2 \in 0 .. Len(msgs) /\ k2 \in k .. Len(msgs) /\ (k2 = k \/ E(k2) <= q)
      /\ k2 \in Nat /\ k <= k2 /\ k2 <= Len(msgs)
  <2>1. k2 \in 0 .. Len(msgs) /\ (k2 = k \/ (k < k2 /\ E(k2) <= q))
    BY <1>8
  <2> QED
    BY <1>1, <2>1
<1>10. ASSUME k2 < Len(msgs)
       PROVE  q < E(k2 + 1)
  <2>1. k2 + 1 \in 0 .. Len(msgs) /\ k2 + 1 \notin T
    BY <1>1, <1>8, <1>9, <1>10
  <2>2. ~(E(k2 + 1) <= q) /\ E(k2 + 1) \in Nat
    BY <1>1, <1>9, <2>1
  <2> QED
    BY <1>4, <2>2
<1> HIDE DEF T
<1>11. q \in st .. E(Len(msgs))
  BY <1>1, <1>4, <1>5, <1>6
<1>12. Received(msgs, st, k, k2, q, s)
  BY <1>1, <1>3, <1>7, <1>9, <1>10, <1>11 DEF Received, E, t
<1>13. FindCRLF(s) <=> k # k2
  <2>1. UpTo(msgs, st, k, 0)
    <3>1. st + 0 = st
      BY <1>1
    <3> QED
      BY <1>3, <3>1 DEF UpTo, E
  <2>2. k \in k .. k2
    BY <1>1, <1>9
  <2>3. Find(s, 0) = IF k = k2 THEN 0 ELSE E(k + 1) - 1 - st
    BY <1>12, <2>1, <2>2, FindAt DEF E
  <2>4. ASSUME k # k2
        PROVE  E(k + 1) - 1 - st # 0
    <3>1. k + 1 \in 0 .. Len(msgs) /\ k < k + 1
      BY <1>1, <1>9, <2>4
    <3>2. E(k) + 2 <= E(k + 1)
      BY <1>1, <1>2, <3>1
    <3>3. E(k + 1) \in Nat /\ E(k) \in Nat
      BY <1>1, <3>1
    <3> QED
      BY <1>1, <1>3, <3>2, <3>3, SMTT(30)
  <2> QED
    BY <2>3, <2>4, Zenon DEF FindCRLF
<1> QED
  BY <1>9, <1>12, <1>13 DEF LastIs

\* A read costs no message if none has become complete: the message whose LF it
\* leaves behind is the first in it.
LEMMA NoneLost ==
    ASSUME NEW msgs \in Seq(Bodies), NEW st, NEW k, NEW p, NEW buf, NEW toks, NEW L,
           Framed(msgs, st, k, p, buf, toks, L),
           NEW q, NEW s, p <= q, Received(msgs, st, k, k, q, s)
    PROVE  LostOf(msgs, L, p, q) = {}
<1> DEFINE E(i) == EndOf(msgs, i)
<1>1. /\ Len(msgs) \in Nat /\ k \in Nat /\ k \in 0 .. Len(msgs) /\ q \in Nat
      /\ \A i \in 0 .. Len(msgs) : E(i) \in Nat
      /\ \A i \in 0 .. Len(msgs) : E(i) <= q => i <= k
      /\ st \in Nat /\ st <= E(k) /\ E(k) <= st + 1
  BY ReceivedFacts
<1>2. p \in Nat /\ st <= p
  BY ReceivedFacts DEF Framed
<1>3. /\ \A i, j \in 0 .. Len(msgs) : i <= j => E(i) <= E(j)
      /\ \A i, j \in 0 .. Len(msgs) : i < j => E(i) + 2 <= E(j)
  BY StreamFacts
<1>4. (st = E(k) \/ st = E(k) - 1) /\ (st # E(k) => k \in L)
  BY DEF Framed, Received
<1>5. ASSUME NEW n \in 2 .. Len(msgs), E(n) = q + 1, E(n - 1) > p, n - 1 \notin L
      PROVE  FALSE
  <2> HIDE DEF E
  <2>1. n \in 0 .. Len(msgs) /\ n - 1 \in 0 .. Len(msgs) /\ n - 1 < n /\ n \in Nat
    BY <1>1
  <2>2. E(n) \in Nat /\ E(n - 1) \in Nat /\ E(n - 1) + 2 <= E(n) /\ E(k) \in Nat
    BY <1>1, <1>3, <2>1
  <2>3. E(n - 1) <= q
    BY <1>1, <1>5, <2>2
  <2>4. n - 1 <= k
    BY <1>1, <2>1, <2>3
  <2>5. E(n - 1) <= E(k)
    BY <1>1, <1>3, <2>1, <2>4
  <2>6. E(n - 1) = E(k) /\ st # E(k)
    BY <1>1, <1>2, <1>4, <1>5, <2>2, <2>5, SMTT(30)
  <2>7. n - 1 = k
    <3> SUFFICES ASSUME n - 1 < k
                 PROVE  FALSE
      BY <1>1, <2>1, <2>4
    <3>1. E(n - 1) + 2 <= E(k)
      BY <1>1, <1>3, <2>1
    <3> QED
      BY <2>2, <2>6, <3>1
  <2> QED
    BY <1>4, <1>5, <2>6, <2>7
<1> QED
  BY <1>5 DEF LostOf

\* A read that ends at the CR behind a complete message costs that message.
LEMMA OneLost ==
    ASSUME NEW msgs \in Seq(Bodies), NEW st, NEW k, NEW p, NEW buf, NEW toks, NEW L,
           Framed(msgs, st, k, p, buf, toks, L),
           NEW k2 \in Nat, NEW q \in Nat, NEW s, Received(msgs, st, k, k2, q, s), k # k2,
           k2 < Len(msgs), q = EndOf(msgs, k2 + 1) - 1
    PROVE  LostOf(msgs, L, p, q) = {k2 + 1}
<1> DEFINE E(i) == EndOf(msgs, i)
<1>1. /\ Len(msgs) \in Nat /\ k \in Nat /\ k \in 0 .. Len(msgs) /\ q \in Nat /\ k2 \in Nat
      /\ \A i \in 0 .. Len(msgs) : E(i) \in Nat /\ k <= k2 /\ k2 \in 0 .. Len(msgs)
  BY ReceivedFacts
<1>2. p \in Nat
  BY ReceivedFacts DEF Framed
<1>3. /\ \A i, j \in 0 .. Len(msgs) : i <= j => E(i) <= E(j)
      /\ \A i, j \in 0 .. Len(msgs) : i < j => E(i) + 2 <= E(j)
  BY StreamFacts
<1>4. (k < Len(msgs) => p < E(k + 1)) /\ \A n \in L : n \in 1 .. k
  BY DEF Framed, Received
<1>5. q = E(k2 + 1) - 1
  OBVIOUS
<1> HIDE DEF E
<1>6. /\ k2 + 1 \in 2 .. Len(msgs) /\ k2 + 1 \in 0 .. Len(msgs) /\ (k2 + 1) - 1 = k2
      /\ k + 1 \in 0 .. Len(msgs) /\ k + 1 <= k2 /\ k < Len(msgs)
  BY <1>1
<1>7. E(k2 + 1) \in Nat /\ E(k2 + 1) = q + 1
  <2>1. E(k2 + 1) \in Nat
    BY <1>1, <1>6
  <2> QED
    BY <1>1, <1>5, <2>1
<1>8. E((k2 + 1) - 1) > p
  <2>1. E(k + 1) <= E(k2) /\ E(k + 1) \in Nat /\ E(k2) \in Nat /\ p < E(k + 1)
    BY <1>1, <1>3, <1>4, <1>6
  <2>2. E(k2) > p
    BY <1>2, <2>1
  <2> QED
    BY <1>6, <2>2
<1>9. (k2 + 1) - 1 \notin L
  BY <1>1, <1>4, <1>6
<1>10. ASSUME NEW n \in 2 .. Len(msgs), E(n) = q + 1
       PROVE  n = k2 + 1
  <2>1. n \in 0 .. Len(msgs) /\ n \in Nat
    BY <1>1
  <2>2. ~(n < k2 + 1)
    <3> SUFFICES ASSUME n < k2 + 1
                 PROVE  FALSE
      OBVIOUS
    <3>1. E(n) + 2 <= E(k2 + 1)
      BY <1>3, <1>6, <2>1
    <3> QED
      BY <1>1, <1>7, <1>10, <3>1
  <2>3. ~(k2 + 1 < n)
    <3> SUFFICES ASSUME k2 + 1 < n
                 PROVE  FALSE
      OBVIOUS
    <3>1. E(k2 + 1) + 2 <= E(n)
      BY <1>3, <1>6, <2>1
    <3> QED
      BY <1>1, <1>7, <1>10, <3>1
  <2> QED
    BY <1>1, <2>1, <2>2, <2>3
<1>11. LostOf(msgs, L, p, q)
         = {n \in 2 .. Len(msgs) : E(n) = q + 1 /\ E(n - 1) > p /\ n - 1 \notin L}
  BY Zenon DEF LostOf, E
<1> QED
  BY <1>6, <1>7, <1>8, <1>9, <1>10, <1>11, Zenon

\* What ClientTcpReadCb does with the bytes s (HandleData): the tokens go from toks to
\* toks2, and buf2 is kept.
Handled(s, toks, toks2, buf2) ==
    \/ /\ FindCRLF(s)
       /\ toks2 = toks \o SplitData(s)
       /\ buf2 = SubSeq(s, ConsumedLength(s) + 1, Len(s))
    \/ ~FindCRLF(s) /\ toks2 = toks /\ buf2 = s

\* The tokens of a read with complete messages in it, when nothing that it completes
\* is lost.
LEMMA TokensOfRead ==
    ASSUME NEW msgs \in Seq(Bodies), NEW st, NEW k, NEW p, NEW buf, NEW toks, NEW L,
           Framed(msgs, st, k, p, buf, toks, L),
           NEW k2, NEW q, NEW s, Received(msgs, st, k, k2, q, s),
           NEW M, L \subseteq M, \A n \in M : n \in L \/ n = k2 + 1
    PROVE  AreTokens(toks \o SplitData(s), KeptOf(msgs, M)[k2])
<1>1. /\ Len(msgs) \in Nat /\ k \in Nat /\ k \in 0 .. Len(msgs) /\ k2 \in k .. Len(msgs)
      /\ k2 \in Nat /\ k <= k2
  BY ReceivedFacts DEF Received
<1>2. AreTokens(toks, KeptOf(msgs, L)[k]) /\ \A n \in L : n \in 1 .. k
  BY DEF Framed
<1>3. KeptOf(msgs, L)[k] = KeptOf(msgs, M)[k]
  <2>1. \A n \in 1 .. k : n \in L <=> n \in M
    BY <1>1
  <2> QED
    BY <1>1, <2>1, KeptSame
<1>4. AreTokens(toks, KeptOf(msgs, M)[k]) /\ KeptOf(msgs, M)[k] \in Seq(Bodies)
  BY <1>2, <1>3, Zenon DEF AreTokens
<1>5. KeptOf(msgs, M)[k2] = KeptOf(msgs, M)[k] \o SubSeq(msgs, k + 1, k2)
  <2>1. \A n \in k + 1 .. k2 : n \notin M
    BY <1>1, <1>2
  <2> QED
    BY <1>1, <1>4, <2>1, KeptMore
<1>6. AreTokens(SplitData(s), SubSeq(msgs, k + 1, k2))
  BY SplitIs
<1>7. AreTokens(toks \o SplitData(s), KeptOf(msgs, M)[k] \o SubSeq(msgs, k + 1, k2))
  BY <1>4, <1>6, MoreTokens
<1> QED
  BY <1>5, <1>7, Zenon

\* The bytes that are left of a piece s, when those up to byte e are consumed.
LeftBehind(msgs, st, e, q, s) ==
    SubSeq(s, (e - st) + 1, Len(s)) = SubSeq(StreamOf(msgs), e + 1, q)

\* They are the stream behind byte e.
LEMMA LeftOver ==
    ASSUME NEW msgs \in Seq(Bodies), NEW st \in Nat, NEW k, NEW k2, NEW q \in Nat, NEW s,
           Received(msgs, st, k, k2, q, s), NEW e \in Nat, st <= e, e <= q
    PROVE  LeftBehind(msgs, st, e, q, s)
<1> DEFINE t == StreamOf(msgs)
           d == e - st
<1>1. /\ q \in Nat /\ st \in Nat /\ st <= q /\ q <= EndOf(msgs, Len(msgs))
      /\ s = SubSeq(t, st + 1, q)
  BY ReceivedFacts DEF Received
<1>2. t \in Seq(Byte) /\ Len(t) = EndOf(msgs, Len(msgs)) /\ Len(t) \in Nat
  BY StreamFacts
<1> HIDE DEF t
<1>3. /\ st + 1 \in 1 .. Len(t) + 1 /\ q \in (st + 1) - 1 .. Len(t)
      /\ d \in 0 .. q - (st + 1) + 1 /\ (st + 1) + d = e + 1
  <2>1. q <= Len(t)
    BY <1>1, <1>2
  <2> QED
    BY <1>1, <1>2, <2>1
<1> HIDE DEF d
<1>4. SubSeq(SubSeq(t, st + 1, q), d + 1, Len(SubSeq(t, st + 1, q))) = SubSeq(t, (st + 1) + d, q)
  BY <1>2, <1>3, SubSeqTail
<1>5. SubSeq(s, d + 1, Len(s)) = SubSeq(t, e + 1, q)
  BY <1>1, <1>3, <1>4, Zenon
<1> QED
  BY <1>5, Zenon DEF d, t, LeftBehind

\* One read, of the bytes up to q, loses what LostBy says and no more.
LEMMA ReadFrames ==
    ASSUME NEW msgs \in Seq(Bodies), NEW st, NEW k, NEW p, NEW buf, NEW toks, NEW L,
           Framed(msgs, st, k, p, buf, toks, L),
           NEW q \in Nat, p <= q, NEW s, NEW k2, LastIs(msgs, st, k, k2, q, s),
           NEW toks2, NEW buf2, Handled(s, toks, toks2, buf2),
           NEW M, M = L \cup LostOf(msgs, L, p, q)
    PROVE  \E st2, n : st <= st2 /\ Framed(msgs, st2, n, q, buf2, toks2, M)
<1> DEFINE E(i) == EndOf(msgs, i)
           t == StreamOf(msgs)
<1>2. Handled(s, toks, toks2, buf2)
  OBVIOUS
<1>3. \A n \in L : n \in 1 .. k
  BY DEF Framed
<1>4. /\ k2 \in 0 .. Len(msgs) /\ Received(msgs, st, k, k2, q, s)
      /\ FindCRLF(s) <=> k # k2
  BY DEF LastIs
<1>5. /\ Len(msgs) \in Nat /\ k \in Nat /\ k2 \in Nat /\ st \in Nat /\ k <= k2
      /\ k2 <= Len(msgs) /\ st <= E(k) /\ E(k) \in Nat /\ E(k2) \in Nat
      /\ \A i \in 0 .. Len(msgs) : E(i) \in Nat
      /\ k \in 0 .. Len(msgs) /\ st <= q /\ q <= E(Len(msgs)) /\ (k # k2 => E(k2) <= q)
      /\ k2 < Len(msgs) => q < E(k2 + 1)
      /\ s \in Seq(Byte) /\ Len(s) = q - st
  <2>1. k2 < Len(msgs) => q < E(k2 + 1)
    BY <1>4 DEF Received
  <2> QED
    BY <1>4, <2>1, ReceivedFacts
<1>6. /\ \A i, j \in 0 .. Len(msgs) : i <= j => E(i) <= E(j)
      /\ \A i, j \in 0 .. Len(msgs) : i < j => E(i) + 2 <= E(j)
  BY StreamFacts
<1> HIDE DEF E, t
<1>7. CASE k = k2
  <2>1. Received(msgs, st, k, k, q, s)
    BY <1>4, <1>7
  <2>2. LostOf(msgs, L, p, q) = {}
    BY <2>1, NoneLost
  <2>3. M = L
    BY <2>2
  <2>4. toks2 = toks /\ buf2 = s
    BY <1>2, <1>4, <1>7, Zenon DEF Handled
  <2>5. Framed(msgs, st, k, q, buf2, toks2, M)
    BY <2>1, <2>3, <2>4, Zenon DEF Framed
  <2>6. st <= st
    BY <1>5
  <2> QED
    BY <2>5, <2>6, Zenon
<1>8. CASE k # k2
  <2>1. toks2 = toks \o SplitData(s) /\ buf2 = SubSeq(s, ConsumedLength(s) + 1, Len(s))
    BY <1>2, <1>4, <1>8, Zenon DEF Handled
  <2>2. k < k2
    BY <1>5, <1>8
  <2>3. \/ /\ ConsumedLength(s) = E(k2) - st
           /\ \A n \in 1 .. Len(msgs) : E(n) # q + 1
        \/ /\ ConsumedLength(s) = Len(s)
           /\ k2 < Len(msgs) /\ q = E(k2 + 1) - 1
    BY <1>4, <2>2, ConsumedIs DEF E
  <2>4. CASE /\ ConsumedLength(s) = E(k2) - st
             /\ \A n \in 1 .. Len(msgs) : E(n) # q + 1
    <3>1. LostOf(msgs, L, p, q) = {}
      <4>1. \A n \in 2 .. Len(msgs) : n \in 1 .. Len(msgs)
        BY <1>5
      <4> QED
        BY <2>4, <4>1 DEF LostOf, E
    <3>2. M = L
      BY <3>1
    <3>3. AreTokens(toks2, KeptOf(msgs, M)[k2])
      <4>1. AreTokens(toks \o SplitData(s), KeptOf(msgs, M)[k2])
        BY <1>4, <3>2, TokensOfRead
      <4> QED
        BY <2>1, <4>1, Zenon
    <3>4. buf2 = SubSeq(t, E(k2) + 1, q)
      <4>1. st <= E(k2) /\ E(k2) <= q
        <5>1. E(k) <= E(k2)
          BY <1>5, <1>6
        <5> QED
          BY <1>5, <1>8, <5>1
      <4>2. SubSeq(s, (E(k2) - st) + 1, Len(s)) = SubSeq(t, E(k2) + 1, q)
        <5>1. PICK e \in Nat : e = E(k2)
          BY <1>5
        <5>2. st <= e /\ e <= q /\ st \in Nat
          BY <1>5, <4>1, <5>1
        <5>3. LeftBehind(msgs, st, e, q, s)
          BY <1>4, <5>2, LeftOver
        <5> QED
          BY <5>1, <5>3, Zenon DEF t, LeftBehind
      <4> QED
        BY <2>1, <2>4, <4>2, Zenon
    <3>5. Received(msgs, E(k2), k2, k2, q, buf2)
      <4>1. k2 \in k2 .. Len(msgs) /\ q \in E(k2) .. E(Len(msgs))
        <5>1. E(Len(msgs)) \in Nat /\ E(k2) <= q
          BY <1>5, <1>8
        <5> QED
          BY <1>5, <5>1
      <4> QED
        BY <1>5, <3>4, <4>1 DEF Received, E, t
    <3>6. \A n \in M : n \in 1 .. k2
      BY <1>3, <1>5, <3>2
    <3>7. Framed(msgs, E(k2), k2, q, buf2, toks2, M)
      BY <3>3, <3>5, <3>6 DEF Framed, E
    <3>8. st <= E(k2)
      <4>1. E(k) <= E(k2)
        BY <1>5, <1>6
      <4> QED
        BY <1>5, <4>1
    <3> QED
      BY <3>7, <3>8, Zenon
  <2>5. CASE /\ ConsumedLength(s) = Len(s)
             /\ k2 < Len(msgs) /\ q = E(k2 + 1) - 1
    <3> DEFINE n == k2 + 1
    <3>1. n \in 1 .. Len(msgs) /\ n \in 0 .. Len(msgs) /\ n - 1 = k2 /\ n \in Nat
      BY <1>5, <2>5
    <3>2. LostOf(msgs, L, p, q) = {n}
      <4>1. k2 < Len(msgs) /\ q = EndOf(msgs, k2 + 1) - 1
        BY <2>5 DEF E
      <4>2. Received(msgs, st, k, k2, q, s) /\ k2 \in Nat
        BY <1>4, <1>5
      <4> QED
        BY <1>8, <4>1, <4>2, OneLost
    <3>3. M = L \cup {n} /\ n \in M
      BY <3>2
    <3>4. AreTokens(toks2, KeptOf(msgs, M)[k2])
      <4>1. L \subseteq M /\ \A i \in M : i \in L \/ i = k2 + 1
        BY <3>3
      <4>2. AreTokens(toks \o SplitData(s), KeptOf(msgs, M)[k2])
        BY <1>4, <4>1, TokensOfRead
      <4> QED
        BY <2>1, <4>2, Zenon
    <3> HIDE DEF n
    <3>5. AreTokens(toks2, KeptOf(msgs, M)[n])
      <4>1. KeptOf(msgs, M)[n - 1] \in Seq(Bodies)
        BY <3>1, <3>4, Zenon DEF AreTokens
      <4>2. KeptOf(msgs, M)[n] = KeptOf(msgs, M)[n - 1]
        BY <3>1, <3>3, <4>1, KeptLost
      <4> QED
        BY <3>1, <3>4, <4>2, Zenon
    <3>6. buf2 = SubSeq(t, q + 1, q)
      <4>1. SubSeq(s, (q - st) + 1, Len(s)) = SubSeq(t, q + 1, q)
        <5>1. q <= q
          OBVIOUS
        <5>2. LeftBehind(msgs, st, q, q, s)
          BY <1>4, <1>5, <5>1, LeftOver
        <5> QED
          BY <5>2, Zenon DEF t, LeftBehind
      <4> QED
        BY <1>5, <2>1, <2>5, <4>1, Zenon
    <3>7. Received(msgs, q, n, n, q, buf2)
      <4>1. q = E(n) - 1 /\ E(n) \in Nat
        BY <1>5, <2>5, <3>1 DEF n
      <4>2. n \in n .. Len(msgs) /\ q \in q .. E(Len(msgs)) /\ n # 0
        <5>1. E(Len(msgs)) \in Nat
          BY <1>5
        <5> QED
          BY <1>5, <3>1, <5>1
      <4>3. ASSUME n < Len(msgs)
            PROVE  q < E(n + 1)
        <5>1. n + 1 \in 0 .. Len(msgs) /\ n < n + 1
          BY <1>5, <3>1, <4>3
        <5>2. E(n) + 2 <= E(n + 1) /\ E(n + 1) \in Nat
          BY <1>5, <1>6, <3>1, <5>1
        <5> QED
          BY <4>1, <5>2
      <4> QED
        BY <3>1, <3>6, <4>1, <4>2, <4>3 DEF Received, E, t
    <3>8. \A i \in M : i \in 1 .. n
      <4>1. \A i \in 1 .. k : i \in 1 .. n
        BY <1>5, <3>1
      <4>2. n \in 1 .. n
        BY <3>1
      <4> QED
        BY <1>3, <3>3, <4>1, <4>2
    <3>9. Framed(msgs, q, n, q, buf2, toks2, M)
      BY <3>3, <3>5, <3>7, <3>8 DEF Framed
    <3> QED
      BY <1>5, <3>9, Zenon
  <2> QED
    BY <2>3, <2>4, <2>5
<1> QED
  BY <1>7, <1>8

-----------------------------------------------------------------------------
(* CrlfFraming: the invariant.                                              *)

\* What has been read is framed, rBuf never overflows, and NothingLeftBehind.
FramingInv ==
    /\ bodies \in Seq(Bodies)
    /\ \E st, k : Framed(bodies, st, k, pos, rBuf, delivered, lost)
    /\ arrived \in Nat /\ pos <= arrived /\ arrived <= Len(Stream)
    /\ Len(rBuf) <= DATA_BUFFER_SIZE
    /\ NothingLeftBehind

\* Stream is that of the messages in bodies.
LEMMA StreamIs == Stream = StreamOf(bodies)
  BY DEF Stream, StreamOf

\* LostBy is LostOf.
LEMMA LostIs ==
    ASSUME NEW a, NEW b
    PROVE  LostBy(a, b) = LostOf(bodies, lost, a, b)
  BY Zenon DEF LostBy, LostOf, End, EndOf

\* Nothing has been read yet.
LEMMA FramingInitHolds == FramingInit => FramingInv
<1> SUFFICES ASSUME FramingInit
             PROVE  FramingInv
  OBVIOUS
<1>1. bodies \in Seq(Bodies)
  <2>1. PICK n \in 0 .. MaxBodies : bodies \in [1 .. n -> Bodies]
    BY DEF FramingInit
  <2>2. n \in Nat
    BY FramingAssumption
  <2> QED
    BY <2>1, <2>2
<1>2. Len(bodies) \in Nat /\ 0 \in 0 .. Len(bodies) /\ Len(bodies) \in 0 .. Len(bodies)
  BY <1>1
<1>3. /\ StreamOf(bodies) \in Seq(Byte) /\ EndOf(bodies, 0) = 0
      /\ EndOf(bodies, Len(bodies)) \in Nat /\ Len(StreamOf(bodies)) \in Nat
  BY <1>1, <1>2, StreamFacts
<1>4. 0 < Len(bodies) => 0 < EndOf(bodies, 0 + 1)
  <2> SUFFICES ASSUME 0 < Len(bodies)
               PROVE  0 < EndOf(bodies, 0 + 1)
    OBVIOUS
  <2>1. 0 + 1 \in 0 .. Len(bodies) /\ 0 < 0 + 1
    BY <1>2
  <2>2. EndOf(bodies, 0 + 1) \in Nat /\ EndOf(bodies, 0) + 2 <= EndOf(bodies, 0 + 1)
    BY <1>1, <1>2, <2>1, StreamFacts
  <2> QED
    BY <1>3, <2>2
<1>5. SubSeq(StreamOf(bodies), 0 + 1, 0) = <<>>
  BY <1>3, SubSeqEmpty
<1>6. pos = 0 /\ rBuf = <<>> /\ delivered = <<>> /\ lost = {} /\ arrived = 0
  BY DEF FramingInit
<1>7. Received(bodies, 0, 0, 0, pos, rBuf)
  BY <1>2, <1>3, <1>4, <1>5, <1>6 DEF Received
<1>8. KeptOf(bodies, lost)[0] = <<>>
  BY <1>1, KeptEquation
<1>9. Framed(bodies, 0, 0, pos, rBuf, delivered, lost)
  <2>1. AreTokens(delivered, KeptOf(bodies, lost)[0])
    BY <1>6, <1>8, NoTokens, Zenon
  <2>2. (0 # EndOf(bodies, 0) => 0 \in lost) /\ \A n \in lost : n \in 1 .. 0
    BY <1>3, <1>6
  <2> QED
    BY <1>7, <2>1, <2>2 DEF Framed
<1>10. Len(rBuf) <= DATA_BUFFER_SIZE /\ arrived <= Len(Stream) /\ pos <= arrived
  BY <1>3, <1>6, StreamIs, FramingAssumption
<1>11. NothingLeftBehind
  BY <1>6 DEF NothingLeftBehind
<1> QED
  BY <1>1, <1>6, <1>9, <1>10, <1>11 DEF FramingInv

\* ClientTcpReadCb keeps it.
LEMMA ReadCbStep ==
    ASSUME FramingInv, NEW n \in 1 .. MaxRead, ClientTcpReadCb(n)
    PROVE  FramingInv'
<1> DEFINE want == arrived + n - pos
           recv_size == Min({want, Room})
           q == pos + recv_size
           s == rBuf \o SubSeq(Stream, pos + 1, q)
           Fits == \A i \in 1 .. Len(bodies) : Len(bodies[i]) + 2 + MaxRead <= DATA_BUFFER_SIZE
<1>1. PICK st, k : Framed(bodies, st, k, pos, rBuf, delivered, lost)
  BY DEF FramingInv
<1>2. bodies \in Seq(Bodies) /\ bodies' = bodies /\ Stream = StreamOf(bodies)
  BY StreamIs DEF FramingInv, ClientTcpReadCb
<1>3. n \in Nat /\ 1 <= n /\ n <= MaxRead /\ MaxRead \in Nat /\ DATA_BUFFER_SIZE \in Nat
  BY FramingAssumption
<1>4. /\ arrived \in Nat /\ pos <= arrived /\ arrived + n <= Len(Stream)
      /\ Len(rBuf) <= DATA_BUFFER_SIZE /\ (Fits => pos = arrived)
  BY DEF FramingInv, ClientTcpReadCb, NothingLeftBehind
<1>5. Received(bodies, st, k, k, pos, rBuf)
  BY <1>1 DEF Framed
<1>6. /\ pos \in Nat /\ st \in Nat /\ st <= pos /\ Len(rBuf) = pos - st /\ Len(bodies) \in Nat
      /\ k \in Nat /\ k <= Len(bodies) /\ EndOf(bodies, k) <= st + 1 /\ k \in 0 .. Len(bodies)
      /\ EndOf(bodies, k) \in Nat
  BY <1>2, <1>5, ReceivedFacts
<1>7. /\ arrived' = arrived + n /\ pos' = q
      /\ lost' = lost \cup LostBy(pos, q)
  BY Zenon DEF ClientTcpReadCb
<1>8. Handled(s, delivered, delivered', rBuf')
  <2>1. HandleData(s)
    BY Zenon DEF ClientTcpReadCb
  <2> HIDE DEF s
  <2> QED
    BY <2>1, Zenon DEF HandleData, Handled
<1>9. /\ recv_size \in Nat /\ recv_size <= want /\ recv_size <= Room
      /\ want <= Room => recv_size = want
      /\ Room = DATA_BUFFER_SIZE - Len(rBuf)
  <2>1. want \in Int /\ Room \in Int /\ 0 <= want /\ 0 <= Room
        /\ Room = DATA_BUFFER_SIZE - Len(rBuf)
    BY <1>3, <1>4, <1>6 DEF Room
  <2>2. recv_size = IF want <= Room THEN want ELSE Room
    BY <2>1, MinOfTwo
  <2> HIDE DEF want, recv_size
  <2> QED
    BY <2>1, <2>2
<1> HIDE DEF recv_size
<1>10. /\ q \in Nat /\ pos <= q /\ q <= arrived + n /\ q <= Len(StreamOf(bodies))
       /\ q - st <= DATA_BUFFER_SIZE
  <2>1. recv_size <= (arrived + n) - pos /\ recv_size <= DATA_BUFFER_SIZE - (pos - st)
    <3>1. want = (arrived + n) - pos /\ Room = DATA_BUFFER_SIZE - (pos - st)
      BY <1>3, <1>4, <1>6, <1>9
    <3> QED
      BY <1>9, <3>1, Zenon
  <2>2. q = pos + recv_size
    OBVIOUS
  <2>3. q \in Nat /\ pos <= q /\ q <= arrived + n /\ q - st <= DATA_BUFFER_SIZE
    BY <1>3, <1>4, <1>6, <1>9, <2>1, <2>2
  <2>4. arrived + n <= Len(StreamOf(bodies)) /\ Len(StreamOf(bodies)) \in Nat
    BY <1>2, <1>4, StreamFacts
  <2> HIDE DEF q
  <2> QED
    BY <1>3, <1>4, <2>3, <2>4
<1> HIDE DEF q
<1>11. PICK k2 : LastIs(bodies, st, k, k2, q, s)
  <2>1. Joined(bodies, rBuf, pos, q, s)
    BY <1>2, Zenon DEF Joined
  <2> HIDE DEF s
  <2> QED
    BY <1>2, <1>5, <1>10, <2>1, PieceIs
<1> HIDE DEF s
<1>12. lost' = lost \cup LostOf(bodies, lost, pos, q)
  BY <1>7, LostIs, Zenon
<1>13. \E st2, i : st <= st2 /\ Framed(bodies, st2, i, q, rBuf', delivered', lost')
  BY <1>1, <1>2, <1>8, <1>10, <1>11, <1>12, ReadFrames
<1>14. PICK st2, i : st <= st2 /\ Framed(bodies, st2, i, q, rBuf', delivered', lost')
  BY <1>13
<1>15. Len(rBuf') <= DATA_BUFFER_SIZE
  <2>1. Received(bodies, st2, i, i, q, rBuf')
    BY <1>14 DEF Framed
  <2>2. st2 \in Nat /\ Len(rBuf') = q - st2
    BY <1>2, <2>1, ReceivedFacts
  <2>3. st <= st2 /\ st \in Nat /\ q \in Nat /\ q - st <= DATA_BUFFER_SIZE
    BY <1>6, <1>10, <1>14
  <2> QED
    BY <1>3, <2>2, <2>3
<1>16. ASSUME Fits
       PROVE  q = arrived + n
  <2>1. k < Len(bodies) => pos < EndOf(bodies, k + 1)
    BY <1>5 DEF Received
  <2>2. pos = arrived
    BY <1>4, <1>16
  <2>3. PICK e \in Nat : e = EndOf(bodies, k)
    BY <1>6
  <2>4. (pos - st) + MaxRead <= DATA_BUFFER_SIZE
    <3>1. CASE k < Len(bodies)
      <4>1. k + 1 \in 1 .. Len(bodies) /\ (k + 1) - 1 = k
        BY <1>6, <3>1
      <4>2. EndOf(bodies, k + 1) = EndOf(bodies, k) + Len(bodies[k + 1]) + 2
        BY <1>2, <4>1, StreamFacts
      <4>3. PICK len \in Nat : len = Len(bodies[k + 1])
        BY <1>2, <4>1, BodyBytes
      <4>4. len + 2 + MaxRead <= DATA_BUFFER_SIZE
        BY <1>16, <4>1, <4>3
      <4>5. pos < e + len + 2 /\ e <= st + 1
        BY <1>6, <2>1, <2>3, <3>1, <4>2, <4>3
      <4> QED
        BY <1>3, <1>6, <4>4, <4>5
    <3>2. CASE k = Len(bodies)
      <4>1. pos < e
        <5>1. Len(Stream) = e
          BY <1>2, <2>3, <3>2, StreamFacts
        <5> QED
          BY <1>3, <1>4, <1>6, <2>2, <5>1
      <4>2. k # 0
        <5>1. EndOf(bodies, 0) = 0
          BY <1>2, StreamFacts
        <5> QED
          BY <1>6, <2>3, <4>1, <5>1
      <4>3. k \in 1 .. Len(bodies)
        BY <1>6, <4>2
      <4>4. PICK len \in Nat : len = Len(bodies[k])
        BY <1>2, <4>3, BodyBytes
      <4>5. len + 2 + MaxRead <= DATA_BUFFER_SIZE
        BY <1>16, <4>3, <4>4
      <4>6. e <= st + 1
        BY <1>6, <2>3
      <4> QED
        BY <1>3, <1>6, <4>1, <4>5, <4>6
    <3> QED
      BY <1>6, <3>1, <3>2
  <2>5. want <= Room /\ want = n
    <3>1. Room = DATA_BUFFER_SIZE - (pos - st)
      BY <1>6, <1>9
    <3>2. want = n
      BY <1>3, <1>6, <2>2
    <3> HIDE DEF want, Fits
    <3> QED
      BY <1>3, <1>6, <2>4, <3>1, <3>2
  <2>6. recv_size = n
    BY <1>9, <2>5
  <2> QED
    BY <2>2, <2>6 DEF q
<1>17. NothingLeftBehind'
  <2>1. Fits => pos' = arrived'
    BY <1>7, <1>16
  <2> QED
    BY <1>2, <2>1 DEF NothingLeftBehind
<1>18. \E st3, j : Framed(bodies', st3, j, pos', rBuf', delivered', lost')
  BY <1>2, <1>7, <1>14, Zenon
<1>19. arrived' \in Nat /\ pos' <= arrived' /\ arrived' <= Len(Stream')
  <2>1. Stream' = Stream
    BY <1>2 DEF Stream
  <2> QED
    BY <1>3, <1>4, <1>7, <1>10, <2>1
<1>20. bodies' \in Seq(Bodies)
  BY <1>2
<1> QED
  BY <1>15, <1>17, <1>18, <1>19, <1>20 DEF FramingInv

\* FramingInv is inductive.
LEMMA FramingStep == FramingInv /\ [FramingNext]_framingVars => FramingInv'
<1> SUFFICES ASSUME FramingInv, [FramingNext]_framingVars
             PROVE  FramingInv'
  OBVIOUS
<1>1. CASE UNCHANGED framingVars
  <2>1. /\ bodies' = bodies /\ pos' = pos /\ rBuf' = rBuf /\ delivered' = delivered
        /\ arrived' = arrived /\ lost' = lost
    BY <1>1 DEF framingVars
  <2>2. Stream' = Stream /\ NothingLeftBehind'
    BY <2>1 DEF Stream, FramingInv, NothingLeftBehind
  <2> QED
    BY <2>1, <2>2 DEF FramingInv
<1>2. CASE FramingNext
  BY <1>2, ReadCbStep DEF FramingNext
<1> QED
  BY <1>1, <1>2

\* Every reachable state satisfies the invariant.
THEOREM FramingInvariance == FramingSpec => []FramingInv
  BY FramingStep, FramingInitHolds, PTL DEF FramingSpec

\* The invariant gives what DeliveredExactly says.
LEMMA InvDelivers == FramingInv => DeliveredExactly
<1> SUFFICES ASSUME FramingInv
             PROVE  DeliveredExactly
  OBVIOUS
<1> DEFINE E(n) == EndOf(bodies, n)
           T == {n \in 0 .. Len(bodies) : E(n) <= pos}
           K == KeptOf(bodies, lost)
<1>1. PICK st, k : Framed(bodies, st, k, pos, rBuf, delivered, lost)
  BY DEF FramingInv
<1>2. bodies \in Seq(Bodies)
  BY DEF FramingInv
<1>3. /\ Received(bodies, st, k, k, pos, rBuf) /\ AreTokens(delivered, K[k])
      /\ st # E(k) => k \in lost
      /\ st = E(k) \/ (k # 0 /\ st = E(k) - 1)
  BY <1>1 DEF Framed, Received
<1>4. /\ Len(bodies) \in Nat /\ k \in Nat /\ pos \in Nat /\ k \in 0 .. Len(bodies)
      /\ st \in Nat /\ st <= pos
      /\ \A n \in 0 .. Len(bodies) : E(n) \in Nat
      /\ \A n \in 0 .. Len(bodies) : E(n) <= pos => n <= k
  BY <1>2, <1>3, ReceivedFacts
<1>5. \A i, j \in 0 .. Len(bodies) : i < j => E(i) + 2 <= E(j)
  BY <1>2, StreamFacts
<1>6. CompleteIn(pos) = Max(T)
  BY Zenon DEF CompleteIn, End, EndOf
<1> HIDE DEF E, K
<1>7. K[CompleteIn(pos)] = K[k]
  <2>1. CASE E(k) <= pos
    <3>1. k \in T /\ \A n \in T : n \in Int /\ n <= k
      BY <1>4, <2>1
    <3> HIDE DEF T
    <3>2. Max(T) = k
      BY <3>1, MaxIs
    <3> QED
      BY <1>6, <3>2
  <2>2. CASE ~(E(k) <= pos)
    <3>1. E(k) \in Nat
      BY <1>4
    <3>2. k # 0 /\ st = E(k) - 1 /\ st # E(k) /\ pos = E(k) - 1
      BY <1>3, <1>4, <2>2, <3>1
    <3>3. k - 1 \in 0 .. Len(bodies) /\ k - 1 < k /\ k \in 1 .. Len(bodies)
      BY <1>4, <3>2
    <3>4. E(k - 1) + 2 <= E(k) /\ E(k - 1) \in Nat
      BY <1>4, <1>5, <3>3
    <3>5. E(k - 1) <= pos
      BY <1>4, <3>1, <3>2, <3>4
    <3>6. k - 1 \in T
      BY <3>3, <3>5
    <3>7. \A n \in T : n \in Int /\ n <= k - 1
      <4> SUFFICES ASSUME NEW n \in T
                   PROVE  n \in Int /\ n <= k - 1
        OBVIOUS
      <4>1. n \in 0 .. Len(bodies) /\ E(n) <= pos
        OBVIOUS
      <4>2. n <= k /\ n # k
        BY <1>4, <2>2, <4>1
      <4> QED
        BY <1>4, <4>1, <4>2
    <3> HIDE DEF T
    <3>8. Max(T) = k - 1
      BY <3>6, <3>7, MaxIs
    <3>9. K[k] = K[k - 1]
      <4>1. K[k - 1] \in Seq(Bodies)
        BY <1>2, <3>3, KeptType DEF K
      <4> QED
        BY <1>2, <1>3, <3>2, <3>3, <4>1, KeptLost DEF K
    <3> QED
      BY <1>6, <3>8, <3>9
  <2> QED
    BY <2>1, <2>2
<1>8. Texts(delivered) = K[k]
  BY <1>3 DEF AreTokens
<1>9. Kept = K
  BY KeptIs DEF K
<1> QED
  BY <1>7, <1>8, <1>9, Zenon DEF DeliveredExactly, Texts

\* For any bodies, any length of rBuf and any way in which TCP, libevent and a full
\* rBuf cut the stream: StartLogicOpt has been given exactly the messages received in
\* full that are not lost in the sense of LostBy, once each and in order.
THEOREM EveryMessageDelivered == FramingSpec => []DeliveredExactly
  BY FramingInvariance, InvDelivers, PTL

\* For any bodies that leave room for a read from the socket behind them: the one
\* bufferevent_read of a callback takes all that has arrived.
THEOREM NothingWaits == FramingSpec => []NothingLeftBehind
<1>1. FramingInv => NothingLeftBehind
  BY DEF FramingInv
<1> QED
  BY <1>1, FramingInvariance, PTL
=============================================================================
