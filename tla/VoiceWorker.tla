----------------------------- MODULE VoiceWorker -----------------------------
(***************************************************************************)
(* voice_server: Master and Worker, from accept to the message handlers.   *)
(*                                                                         *)
(* A master thread accepts connections, queues them for its worker (the    *)
(* program gives every master one) and writes a byte into the worker's     *)
(* pipe; the worker thread takes one connection per byte and runs its      *)
(* callbacks.  A connection's data is counted in words of four bytes:      *)
(* which messages a peer sends is known from "sent", so the buffer is its  *)
(* length and the number of messages already handled.  A master's name     *)
(* stands for its worker too.                                              *)
(*                                                                         *)
(* run_master (main.cc) assigns the TLV master to json_master, starts that *)
(* one, and then calls Init through tlv_master, which is NULL.  So only    *)
(* the TLV protocol is ever served, until the call on NULL ends the        *)
(* process (RunMaster).  Nothing installs handle_signal: there is no       *)
(* Shutdown.                                                               *)
(***************************************************************************)
EXTENDS Integers, Sequences, FiniteSets, SequencesExt, Lengths

CONSTANTS
    Masters,
    CONN_BUFFER_LEN,  \* words (10240 bytes in the program)
    Lens,             \* lengths of well-formed messages, in words
    MaxConns,         \* bound: connections accepted
    MaxMessages,      \* bound: messages all peers send
    DebugLog          \* TRUE: the configured log level is DEBUG or lower

ASSUME WorkerAssumption ==
    /\ Masters # {}
    /\ MaxConns \in Nat /\ MaxMessages \in Nat /\ DebugLog \in BOOLEAN
    /\ CONN_BUFFER_LEN \in Nat
    /\ Lens \subseteq 3 .. CONN_BUFFER_LEN

kMsgHeaderSize == 2   \* 8 bytes
LengthWord == 3       \* the message length is the third word of a TLV message

Conns  == 1 .. MaxConns
NoConn == 0

\* "ok" is handled and answered; "bad" is rejected by the framing or a handler;
\* "short" claims a length of 8 to 11 bytes.
Msgs == [kind : {"ok"}, len : Lens] \cup [kind : {"bad"}, len : {3}]
          \cup [kind : {"short"}, len : {3}]

VARIABLES
    alive,
    mpc,                   \* master: "loop", or "notify" inside AcceptCb
    conn_info_queue_, notified,   \* the worker's queue, and bytes in its pipe
    wpc, cb,               \* worker: where it is, the connection it serves
    conns, masterOf, cstate,
    sent, onwire,          \* messages of the peer; words that have not arrived
    input, in_buffer_len, done,   \* bufferevent, in_buffer, messages handled
    torn                   \* history: a read ended inside a message

masterVars == <<mpc, conn_info_queue_, notified>>
workerVars == <<wpc, cb>>
dataVars   == <<sent, onwire, input, in_buffer_len, done, torn>>
vars == <<alive, masterVars, workerVars, conns, masterOf, cstate, dataVars>>

TypeOK ==
    /\ alive \in BOOLEAN
    /\ mpc \in [Masters -> {"loop", "notify"}]
    /\ conn_info_queue_ \in [Masters -> Seq(Conns)]
    /\ notified \in [Masters -> Nat]
    /\ wpc \in [Masters -> {"loop", "read", "parse", "parse_full", "spin"}]
    /\ cb \in [Masters -> Conns \cup {NoConn}]
    /\ conns \in 0 .. MaxConns
    /\ masterOf \in [Conns -> Masters]
    /\ cstate \in [Conns -> {"none", "queued", "served", "leaked", "closed"}]
    /\ sent \in [Conns -> Seq(Msgs)]
    /\ onwire \in [Conns -> Nat] /\ input \in [Conns -> Nat]
    /\ in_buffer_len \in [Conns -> 0 .. CONN_BUFFER_LEN]
    /\ done \in [Conns -> Nat]
    /\ torn \in [Conns -> BOOLEAN]

Init ==
    /\ alive = TRUE
    /\ mpc = [m \in Masters |-> "loop"]
    /\ conn_info_queue_ = [m \in Masters |-> <<>>]
    /\ notified = [m \in Masters |-> 0]
    /\ wpc = [m \in Masters |-> "loop"] /\ cb = [m \in Masters |-> NoConn]
    /\ conns = 0
    /\ masterOf = [c \in Conns |-> CHOOSE m \in Masters : TRUE]
    /\ cstate = [c \in Conns |-> "none"]
    /\ sent = [c \in Conns |-> <<>>]
    /\ onwire = [c \in Conns |-> 0] /\ input = [c \in Conns |-> 0]
    /\ in_buffer_len = [c \in Conns |-> 0]
    /\ done = [c \in Conns |-> 0]
    /\ torn = [c \in Conns |-> FALSE]

-----------------------------------------------------------------------------
(* The peer.                                                                *)

MessagesSent == FoldFunction(LAMBDA q, n : n + Len(q), 0, sent)

PeerSends(c) ==
    /\ alive /\ cstate[c] \in {"queued", "served"}
    /\ MessagesSent < MaxMessages
    /\ \E msg \in Msgs :
          /\ sent' = [sent EXCEPT ![c] = Append(@, msg)]
          /\ onwire' = [onwire EXCEPT ![c] = @ + msg.len]
    /\ UNCHANGED <<alive, masterVars, workerVars, conns, masterOf, cstate, input,
                   in_buffer_len, done, torn>>

-----------------------------------------------------------------------------
(* The main thread and the master thread.                                   *)

\* tlv_master->Init() on NULL, after json_master->Start().
RunMaster ==
    /\ alive
    /\ alive' = FALSE
    /\ UNCHANGED <<masterVars, workerVars, conns, masterOf, cstate, dataVars>>

AcceptClient(m) ==
    /\ conns < MaxConns
    /\ conns' = conns + 1
    /\ masterOf' = [masterOf EXCEPT ![conns'] = m]

PutConnInfo(m, c) ==
    /\ cstate' = [cstate EXCEPT ![c] = "queued"]
    /\ conn_info_queue_' = [conn_info_queue_ EXCEPT ![m] = Append(@, c)]

\* AcceptCb: the connection is in the queue of the master's one worker.
AcceptCb(m) ==
    /\ alive /\ mpc[m] = "loop"
    /\ AcceptClient(m)
    /\ PutConnInfo(m, conns')
    /\ mpc' = [mpc EXCEPT ![m] = "notify"]
    /\ UNCHANGED <<alive, notified, workerVars, dataVars>>

\* Writes no second byte while one is in the pipe.
Mut_WriteNotify(m) ==
    /\ alive /\ mpc[m] = "notify"
    /\ notified' = [notified EXCEPT ![m] = 1]
    /\ mpc' = [mpc EXCEPT ![m] = "loop"]
    /\ UNCHANGED <<alive, conn_info_queue_, workerVars, conns, masterOf, cstate,
                   dataVars>>

\* ... and then the worker is notified.
WriteNotify(m) ==
    /\ alive /\ mpc[m] = "notify"
    /\ notified' = [notified EXCEPT ![m] = @ + 1]
    /\ mpc' = [mpc EXCEPT ![m] = "loop"]
    /\ UNCHANGED <<alive, conn_info_queue_, workerVars, conns, masterOf, cstate,
                   dataVars>>

-----------------------------------------------------------------------------
(* The worker thread.                                                       *)

\* A callback returns to the event loop.
Return(m) ==
    /\ wpc' = [wpc EXCEPT ![m] = "loop"]
    /\ cb' = [cb EXCEPT ![m] = NoConn]

\* CloseConn: bufferevent and ConnectionInfo are freed.
CloseConn(c) == cstate' = [cstate EXCEPT ![c] = "closed"]

CloseErrorConn(m, c) == CloseConn(c) /\ Return(m)

\* Worker::RecvNotifiedCb takes the front of the queue without a test for an
\* empty one (TLC would report the Head of <<>> as an error); without memory
\* for a bufferevent the connection is left behind.
RecvNotifiedCb(m) ==
    /\ alive /\ wpc[m] = "loop" /\ notified[m] > 0
    /\ notified' = [notified EXCEPT ![m] = @ - 1]
    /\ \E s \in {"served", "leaked"} :
          cstate' = [cstate EXCEPT ![Head(conn_info_queue_[m])] = s]
    /\ conn_info_queue_' = [conn_info_queue_ EXCEPT ![m] = Tail(@)]
    /\ Return(m)
    /\ UNCHANGED <<alive, mpc, conns, masterOf, dataVars>>

\* ClientTcpErrorCb: end of file, error or the read timeout.
ClientTcpErrorCb(m) ==
    /\ alive /\ wpc[m] = "loop"
    /\ \E c \in Conns :
          /\ masterOf[c] = m /\ cstate[c] = "served"
          /\ CloseConn(c)
    /\ Return(m)
    /\ UNCHANGED <<alive, masterVars, conns, masterOf, dataVars>>

\* WordsEnd(msgs)[n]: the words of the first n messages.
WordsEnd(msgs) == Ends([i \in 1 .. Len(msgs) |-> msgs[i].len])

Words(c) == WordsEnd(sent[c])[Len(sent[c])]

\* A message ends after k words of the stream.
Boundary(c, k) == \E n \in 0 .. Len(sent[c]) : WordsEnd(sent[c])[n] = k

\* libevent has read k words and calls ClientTcpReadCb.
ReadEvent(m) ==
    /\ alive /\ wpc[m] = "loop"
    /\ \E c \in Conns : \E k \in 1 .. onwire[c] :
          /\ masterOf[c] = m /\ cstate[c] = "served"
          /\ onwire' = [onwire EXCEPT ![c] = @ - k]
          /\ input' = [input EXCEPT ![c] = k]
          /\ cb' = [cb EXCEPT ![m] = c]
          /\ torn' = [torn EXCEPT ![c] =
                @ \/ ~Boundary(c, Words(c) - (onwire[c] - k))]
    /\ wpc' = [wpc EXCEPT ![m] = "read"]
    /\ UNCHANGED <<alive, masterVars, conns, masterOf, cstate, sent, in_buffer_len,
                   done>>

\* Reads until nothing is left or in_buffer is full.
FillBuffer(m) ==
    /\ alive /\ wpc[m] = "read"
    /\ LET c    == cb[m]
           took == Min({input[c], CONN_BUFFER_LEN - in_buffer_len[c]})
           full == in_buffer_len[c] + took = CONN_BUFFER_LEN
       IN  /\ input' = [input EXCEPT ![c] = @ - took]
           /\ in_buffer_len' = [in_buffer_len EXCEPT ![c] = @ + took]
           /\ wpc' = [wpc EXCEPT ![m] = IF full THEN "parse_full" ELSE "parse"]
    /\ UNCHANGED <<alive, masterVars, cb, conns, masterOf, cstate, sent, onwire, done,
                   torn>>

Parsing(m) ==
    /\ alive /\ wpc[m] \in {"parse", "parse_full"}
    /\ UNCHANGED <<masterVars, conns, masterOf, sent, onwire, input, torn>>

Spin(m) == wpc' = [wpc EXCEPT ![m] = "spin"] /\ UNCHANGED cb

\* Reads again if the buffer was full, else does the other thing.
ReadAgainOr(m, Else) ==
    IF wpc[m] = "parse_full"
    THEN wpc' = [wpc EXCEPT ![m] = "read"] /\ UNCHANGED cb
    ELSE Else

FrontMsg(c) == sent[c][done[c] + 1]

Claims(msg) == IF msg.kind = "short" THEN kMsgHeaderSize ELSE msg.len

\* The word at offset 8.  Where only the header has arrived it is what was
\* there before: zero, or the length of the last message.
msg_length(c) ==
    IF in_buffer_len[c] >= LengthWord THEN Claims(FrontMsg(c))
    ELSE IF done[c] = 0 THEN 0 ELSE Claims(sent[c][done[c]])

\* in_buffer_len -= msg_length, and memmove of what is left.
Consume(c) ==
    /\ done' = [done EXCEPT ![c] = @ + 1]
    /\ in_buffer_len' = [in_buffer_len EXCEPT ![c] = @ - msg_length(c)]

\* Too little for a header.
TlvNoHeader(m) ==
    /\ Parsing(m)
    /\ in_buffer_len[cb[m]] < kMsgHeaderSize
    /\ ReadAgainOr(m, Return(m))
    /\ UNCHANGED <<alive, cstate, in_buffer_len, done>>

HeaderOk(c) ==
    /\ in_buffer_len[c] >= kMsgHeaderSize
    /\ FrontMsg(c).kind # "bad"
    /\ msg_length(c) \in kMsgHeaderSize .. CONN_BUFFER_LEN

TlvInvalid(m) ==
    /\ Parsing(m)
    /\ in_buffer_len[cb[m]] >= kMsgHeaderSize
    /\ ~HeaderOk(cb[m])
    /\ CloseErrorConn(m, cb[m])
    /\ UNCHANGED <<alive, in_buffer_len, done>>

\* Takes a message that is just complete for an incomplete one.
Mut_TlvIncomplete(m) ==
    /\ Parsing(m)
    /\ HeaderOk(cb[m]) /\ in_buffer_len[cb[m]] <= msg_length(cb[m])
    /\ ReadAgainOr(m, Spin(m))
    /\ UNCHANGED <<alive, cstate, in_buffer_len, done>>

\* The message is incomplete: "continue" looks at the same bytes for ever.
TlvIncomplete(m) ==
    /\ Parsing(m)
    /\ HeaderOk(cb[m]) /\ in_buffer_len[cb[m]] < msg_length(cb[m])
    /\ ReadAgainOr(m, Spin(m))
    /\ UNCHANGED <<alive, cstate, in_buffer_len, done>>

\* msg_length - 12 wraps around for a length of 8 to 11: four gigabytes are
\* copied and the process dies.
TlvUnderflow(m) ==
    /\ Parsing(m)
    /\ HeaderOk(cb[m]) /\ in_buffer_len[cb[m]] >= msg_length(cb[m])
    /\ msg_length(cb[m]) < LengthWord
    /\ alive' = FALSE
    /\ UNCHANGED <<workerVars, cstate, in_buffer_len, done>>

\* Leaves the handled message in the buffer.
Mut_TlvMessage(m) ==
    /\ Parsing(m)
    /\ HeaderOk(cb[m]) /\ in_buffer_len[cb[m]] >= msg_length(cb[m])
    /\ done' = [done EXCEPT ![cb[m]] = @ + 1]
    /\ UNCHANGED <<alive, workerVars, cstate, in_buffer_len>>

WholeMessage(c) ==
    /\ HeaderOk(c) /\ in_buffer_len[c] >= msg_length(c)
    /\ msg_length(c) >= LengthWord

\* A whole message is handled.
TlvMessage(m) ==
    /\ Parsing(m)
    /\ WholeMessage(cb[m])
    /\ Consume(cb[m])
    /\ UNCHANGED <<alive, workerVars, cstate>>

\* Its handler fails: WriteSfd could not write the answer, to a peer that has
\* left or that does not read for three seconds, or the handler refuses it.
TlvRefused(m) ==
    /\ Parsing(m)
    /\ WholeMessage(cb[m])
    /\ CloseErrorConn(m, cb[m])
    /\ UNCHANGED <<alive, in_buffer_len, done>>

\* It is a heartbeat, and HandleHeartbeat logs the number mid with %s.
TlvHeartbeatLogged(m) ==
    /\ Parsing(m)
    /\ WholeMessage(cb[m])
    /\ DebugLog
    /\ alive' = FALSE
    /\ UNCHANGED <<workerVars, cstate, in_buffer_len, done>>

-----------------------------------------------------------------------------
Callback(m) ==
    \/ FillBuffer(m)
    \/ TlvNoHeader(m) \/ TlvInvalid(m) \/ TlvIncomplete(m) \/ TlvUnderflow(m)
    \/ TlvMessage(m) \/ TlvRefused(m) \/ TlvHeartbeatLogged(m)

WorkerThread(m) ==
    RecvNotifiedCb(m) \/ ClientTcpErrorCb(m) \/ ReadEvent(m) \/ Callback(m)

Next ==
    \/ RunMaster
    \/ \E c \in Conns : PeerSends(c)
    \/ \E m \in Masters : AcceptCb(m) \/ WriteNotify(m) \/ WorkerThread(m)

Spec == Init /\ [][Next]_vars

\* The master's thread and its worker run.  Peers get no fairness.
FairSpec ==
    /\ Spec
    /\ \A m \in Masters : WF_vars(WriteNotify(m)) /\ WF_vars(WorkerThread(m))

-----------------------------------------------------------------------------
(* Properties.                                                              *)

\* ClientTcpReadCb drops no word of a TLV stream and handles none twice, in
\* reads of any size and with a buffer smaller than the burst: what was handled,
\* buffered and not yet read is what was sent.
NothingSkipped ==
    \A c \in Conns :
        WordsEnd(sent[c])[done[c]] + in_buffer_len[c] + input[c] + onwire[c] = Words(c)

\* ClientTcpReadCb goes round for ever only on a connection whose data came in
\* torn: a message that arrives whole, in whatever company and however full the
\* buffer gets, never makes it look at the same bytes again.
HangsOnlyOnTorn == \A m \in Masters : wpc[m] = "spin" => torn[cb[m]]

\* An accepted connection is served in the end, one byte in the pipe after the
\* other, unless its worker hangs or the process died.
EventuallyServed ==
    \A c \in Conns :
        cstate[c] = "queued" ~>
            (cstate[c] # "queued" \/ wpc[masterOf[c]] = "spin" \/ ~alive)
=============================================================================
