----------------------------- MODULE CrlfFraming -----------------------------
(***************************************************************************)
(* Cutting a client's byte stream into messages (CWorkerThread::           *)
(* ClientTcpReadCb; CLocalTransport::ReadCb has the same loop): a message  *)
(* ends with CR LF, the bytes after the last one stay in rBuf for the next *)
(* read.  A body has neither CR nor LF in it, as the JSON that both sides  *)
(* write.                                                                  *)
(*                                                                         *)
(* libevent reads up to MaxRead bytes from the socket and calls back; the  *)
(* callback reads once, as much as fits rBuf.  What does not fit waits for *)
(* the callback that the next bytes from the socket bring.                 *)
(*                                                                         *)
(* The token check of ClientTcpReadCb never runs (conn_new sets isVerify), *)
(* so there is nothing of it here.                                         *)
(***************************************************************************)
EXTENDS Integers, Sequences, FiniteSetsExt

CONSTANTS
    Bodies,            \* message bodies
    MaxBodies,         \* bound: messages of a client
    MaxRead,           \* bytes libevent takes from the socket at once, at most
    DATA_BUFFER_SIZE   \* length of rBuf

Byte == 0 .. 255
CR   == 13
LF   == 10
Crlf == <<CR, LF>>

ASSUME FramingAssumption ==
    /\ Bodies # {} /\ Bodies \subseteq Seq(Byte \ {CR, LF}) /\ MaxBodies \in Nat
    /\ MaxRead \in Nat /\ DATA_BUFFER_SIZE \in Nat

VARIABLES
    bodies,     \* the messages the client sends
    arrived,    \* bytes of the stream that libevent has read
    pos,        \* ... and bytes that bufferevent_read has taken of them
    rBuf,       \* bytes 0 .. rlen - 1 of rBuf
    delivered,  \* the messages given to StartLogicOpt, in order
    lost        \* history: messages whose CR LF was cut by a read (LostBy)

framingVars == <<bodies, arrived, pos, rBuf, delivered, lost>>

\* Bytes(msgs)[n] are the bytes of the first n messages.
Bytes(msgs) ==
    LET bytes[n \in 0 .. Len(msgs)] ==
            IF n = 0 THEN <<>> ELSE bytes[n - 1] \o (msgs[n] \o Crlf)
    IN  bytes

Stream == Bytes(bodies)[Len(bodies)]

\* Where message k ends in the stream.
End(k) == Len(Bytes(bodies)[k])

-----------------------------------------------------------------------------
(* The functions of utils.h and std::string that the callback uses.         *)

\* Position of the first CR LF behind the first n bytes of s, 0 if there is none
\* (std::string::find).
Find(s, n) ==
    LET hits == {i \in n + 1 .. Len(s) - 1 : s[i] = CR /\ s[i + 1] = LF}
    IN  IF hits = {} THEN 0 ELSE Min(hits)

FindCRLF(s) == Find(s, 0) # 0

\* SplitData: the tokens in front of each CR LF; what follows the last is left.
\* split[n] are those behind the first n bytes, which the loop has erased.
SplitData(s) ==
    LET split[n \in 0 .. Len(s)] ==
            IF Find(s, n) = 0 THEN <<>>
            ELSE <<SubSeq(s, n + 1, Find(s, n) - 1)>> \o split[Find(s, n) + 1]
    IN  split[0]

\* str_recv.find_last_of(CRLF) + 1: the length up to the last byte that is a CR
\* or an LF, not up to the last CR LF.
ConsumedLength(s) == Max({i \in 1 .. Len(s) : s[i] \in {CR, LF}})

-----------------------------------------------------------------------------
FramingInit ==
    /\ bodies \in UNION {[1 .. n -> Bodies] : n \in 0 .. MaxBodies}
    /\ arrived = 0
    /\ pos = 0
    /\ rBuf = <<>>
    /\ delivered = <<>>
    /\ lost = {}

\* Keeps a byte of rBuf for a terminating zero.
Mut_Room == DATA_BUFFER_SIZE - 1 - Len(rBuf)

\* DATA_BUFFER_SIZE - c->rlen.
Room == DATA_BUFFER_SIZE - Len(rBuf)

\* Said of the cuts alone: a read of the bytes a + 1 .. b costs message k if it
\* ends between k's CR and LF, begins before the LF of the message in front of
\* k, and that message is not lost itself.
LostBy(a, b) ==
    {k \in 2 .. Len(bodies) : End(k) = b + 1 /\ End(k - 1) > a /\ k - 1 \notin lost}

\* Delivers the first message of a read only.
Mut_HandleData(str_recv) ==
    IF FindCRLF(str_recv)
    THEN /\ delivered' = Append(delivered, SplitData(str_recv)[1])
         /\ rBuf' = SubSeq(str_recv, ConsumedLength(str_recv) + 1, Len(str_recv))
    ELSE /\ rBuf' = str_recv
         /\ UNCHANGED delivered

\* What ClientTcpReadCb does with the bytes in rBuf.
HandleData(str_recv) ==
    IF FindCRLF(str_recv)
    THEN /\ delivered' = delivered \o SplitData(str_recv)
         /\ rBuf' = SubSeq(str_recv, ConsumedLength(str_recv) + 1, Len(str_recv))
    ELSE /\ rBuf' = str_recv
         /\ UNCHANGED delivered

\* ClientTcpReadCb, after n more bytes have come from the socket.
ClientTcpReadCb(n) ==
    LET recv_size == Min({arrived + n - pos, Room})
    IN  /\ arrived + n <= Len(Stream)
        /\ arrived' = arrived + n
        /\ pos' = pos + recv_size
        /\ HandleData(rBuf \o SubSeq(Stream, pos + 1, pos + recv_size))
        /\ lost' = lost \cup LostBy(pos, pos + recv_size)
        /\ UNCHANGED bodies

FramingNext == \E n \in 1 .. MaxRead : ClientTcpReadCb(n)

FramingSpec == FramingInit /\ [][FramingNext]_framingVars

-----------------------------------------------------------------------------
\* What the JSON parser makes of a message: a line feed in front is white space.
Text(token) == IF token # <<>> /\ token[1] = LF THEN Tail(token) ELSE token

\* Kept[n]: those of the first n messages that no read has cut.
Kept ==
    LET kept[n \in 0 .. Len(bodies)] ==
            IF n = 0 THEN <<>>
            ELSE kept[n - 1] \o (IF n \in lost THEN <<>> ELSE <<bodies[n]>>)
    IN  kept

\* The number of messages that are complete in the first n bytes of the stream.
CompleteIn(n) == Max({k \in 0 .. Len(bodies) : End(k) <= n})

\* However TCP, libevent and a full rBuf cut the stream, the loop around
\* find_last_of(CRLF) loses exactly the messages of LostBy and no other: all
\* others that have arrived in full have been handled, once each, in order.
DeliveredExactly ==
    [i \in 1 .. Len(delivered) |-> Text(delivered[i])] = Kept[CompleteIn(pos)]

\* One bufferevent_read per callback is enough for messages that leave room for
\* a whole read from the socket behind them: nothing that has arrived is left
\* behind in the bufferevent, where it would wait for more data.
NothingLeftBehind ==
    (\A i \in 1 .. Len(bodies) : Len(bodies[i]) + 2 + MaxRead <= DATA_BUFFER_SIZE)
        => pos = arrived
=============================================================================
