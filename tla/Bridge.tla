------------------------------- MODULE Bridge -------------------------------
(***************************************************************************)
(* The TCP bridge of one connection (core/bridge.py) between an            *)
(* AsyncConnection (core/connection.py) and an AsyncSegmentedStream        *)
(* (noise/stream.py), with the two tasks of the bridge, the task that      *)
(* reads decrypted segments and the owner that tears everything down.      *)
(*                                                                         *)
(* Everything runs on one asyncio event loop: an action is what one task   *)
(* does between two suspension points, so awaits that never suspend (put   *)
(* on an unbounded queue, an uncontended lock) do not end an action.       *)
(*                                                                         *)
(* A byte is abstracted to a pair <<segment, position>>.  The first HDR    *)
(* positions of a segment are its length prefix, the others its payload.   *)
(***************************************************************************)
EXTENDS Integers, Sequences

CONSTANTS
    HDR,        \* bytes of the length prefix (3 in the code)
    Size,       \* Size[i]: payload bytes of the i-th segment of the server
    OutSegs,    \* how many segments the client writes that fit a frame
    OutLong,    \* how many over-long ones it writes besides
    Poison,     \* the None that cancel() puts in both queues
    TooLong     \* a segment of 2^24 bytes or more, which no prefix can tell

InSegs == Len(Size)

VARIABLES
    wire,       \* bytes the server sent and the kernel has not handed over
    sent,       \* segments the server has written, in order
    peer,       \* "up", "fin" (half closed) or "rst" (reset)
    transport,  \* asyncio transport: "open", "closing", "lost"
    rbuf,       \* bytes in the StreamReader
    reof,       \* StreamReader.feed_eof was called
    rexc,       \* StreamReader.set_exception was called
    connected,  \* AsyncConnection._connected
    running,    \* TCPStreamBridge._running
    rpc,        \* where _tcp_to_stream_loop is suspended
    wpc,        \* where _stream_to_tcp_loop is suspended
    buffer,     \* the bytes _tcp_to_stream_loop has not framed yet
    rq, wq,     \* AsyncSegmentedStream._read_queue and _write_queue
    cancelled,  \* AsyncSegmentedStream._cancelled
    reader,     \* the task in read_segment: "get", "check" or "stopped"
    got,        \* payloads the reader took
    written,    \* segments accepted by write_segment that fit, in order
    longs,      \* how many others it accepted
    delivered,  \* segments handed to the transport, in order
    emitted,    \* events of the bridge whose handlers were started
    shut,       \* AsyncEventEmitter._shutdown
    owner       \* WhatsAppClient: "up" or how far disconnect() has come

net    == <<wire, sent, peer>>
tcp    == <<transport, rbuf, reof, rexc>>
loops  == <<running, rpc, wpc, buffer>>
stream == <<rq, wq, cancelled>>
ends   == <<reader, got, written, longs, delivered>>
events == <<emitted, shut>>
vars   == <<net, tcp, connected, loops, stream, ends, events, owner>>

Byte       == (1..InSegs) \X Nat
Bytes(i)   == [k \in 1..(HDR + Size[i]) |-> <<i, k>>]
Payload(i) == SubSeq(Bytes(i), HDR + 1, HDR + Size[i])
Payloads   == {Payload(i) : i \in 1..InSegs}

ASSUME BridgeAssumption ==
    /\ HDR \in Nat \ {0}
    /\ Size \in Seq(Nat)
    /\ OutSegs \in Nat /\ OutLong \in Nat
    /\ Poison \notin Payloads /\ Poison \notin 1..OutSegs
    /\ TooLong \notin (1..OutSegs) \cup {Poison}

TypeOK ==
    /\ sent \in Seq(1..InSegs) /\ got \in Seq(Payloads)
    /\ peer \in {"up", "fin", "rst"}
    /\ transport \in {"open", "closing", "lost"}
    /\ {reof, rexc, connected, running, cancelled, shut} \subseteq BOOLEAN
    /\ rpc \in {"start", "wait", "woken", "raise", "done"}
    /\ wpc \in {"get", "drain", "sleep", "done"}
    /\ rq \in Seq(Payloads \cup {Poison})
    /\ wq \in Seq((1..OutSegs) \cup {Poison, TooLong}) /\ longs \in 0..OutLong
    /\ reader \in {"get", "check", "stopped"}
    /\ emitted \subseteq {"disconnected", "reconnect"}
    /\ owner \in {"up", "stopping", "cancelling", "closing", "down"}

(* AsyncConnection.is_connected *)
IsConnected == connected /\ transport = "open"

(* State after AsyncConnection.connect, AsyncSegmentedStream() and         *)
(* TCPStreamBridge.start.  The emitter belongs to the client: it is shut   *)
(* for good when an earlier connection of it was disconnected.             *)
Init ==
    /\ wire = <<>> /\ sent = <<>> /\ peer = "up"
    /\ transport = "open" /\ rbuf = <<>> /\ reof = FALSE /\ rexc = FALSE
    /\ connected = TRUE /\ running = TRUE
    /\ rpc = "start" /\ wpc = "get" /\ buffer = <<>>
    /\ rq = <<>> /\ wq = <<>> /\ cancelled = FALSE
    /\ reader = "get" /\ got = <<>> /\ written = <<>> /\ delivered = <<>>
    /\ longs = 0 /\ emitted = {} /\ shut \in BOOLEAN /\ owner = "up"
-----------------------------------------------------------------------------
(* The server and the event loop's transport (asyncio, not in the          *)
(* repository).                                                            *)

PeerSend ==
    /\ peer = "up" /\ Len(sent) < InSegs
    /\ sent' = Append(sent, Len(sent) + 1)
    /\ wire' = wire \o Bytes(Len(sent) + 1)
    /\ UNCHANGED <<peer, tcp, connected, loops, stream, ends, events, owner>>

PeerFin ==
    /\ peer = "up" /\ peer' = "fin"
    /\ UNCHANGED <<wire, sent, tcp, connected, loops, stream, ends, events, owner>>

(* A reset discards what the kernel has not handed over yet. *)
PeerReset ==
    /\ peer # "rst" /\ peer' = "rst" /\ wire' = <<>>
    /\ UNCHANGED <<sent, tcp, connected, loops, stream, ends, events, owner>>

(* A task suspended in StreamReader.read resumes on data and on EOF. *)
WakeReader == rpc' = IF rpc = "wait" THEN "woken" ELSE rpc

DataReceived ==
    /\ transport = "open" /\ peer # "rst"
    /\ \E n \in 1..Len(wire) :
          /\ rbuf' = rbuf \o SubSeq(wire, 1, n)
          /\ wire' = SubSeq(wire, n + 1, Len(wire))
    /\ WakeReader
    /\ UNCHANGED <<sent, peer, transport, reof, rexc, connected, running, wpc,
                   buffer, stream, ends, events, owner>>

EofReceived ==
    /\ transport = "open" /\ peer = "fin" /\ wire = <<>> /\ ~reof
    /\ reof' = TRUE
    /\ WakeReader
    /\ UNCHANGED <<net, transport, rbuf, rexc, connected, running, wpc, buffer,
                   stream, ends, events, owner>>

ResetSeen ==
    /\ transport = "open" /\ peer = "rst" /\ ~reof
    /\ transport' = "closing"
    /\ UNCHANGED <<net, rbuf, reof, rexc, connected, loops, stream, ends,
                   events, owner>>

ConnectionLost ==
    /\ transport = "closing" /\ transport' = "lost"
    /\ rexc' = (peer = "rst")
    /\ reof' = (reof \/ peer # "rst")
    /\ rpc' = CASE rpc = "wait" /\ rexc' -> "raise"
                [] rpc = "wait" /\ ~rexc' -> "woken"
                [] OTHER -> rpc
    /\ UNCHANGED <<net, rbuf, connected, running, wpc, buffer, stream, ends,
                   events, owner>>
-----------------------------------------------------------------------------
(* AsyncSegmentedStream *)

Cancel ==
    /\ cancelled' = TRUE
    /\ rq' = Append(rq, Poison)
    /\ wq' = Append(wq, Poison)

(* put_read_segment, once per segment of segs *)
PutRead_Front(segs) == rq' = IF cancelled THEN rq ELSE segs \o rq  \* variant
PutRead(segs) == rq' = IF cancelled THEN rq ELSE rq \o segs

PutWrite_Front(s) == wq' = <<s>> \o wq          \* variant: last in first out
PutWrite(s) == wq' = Append(wq, s)

(* write_segment: on a cancelled stream the segment is ignored *)
WriteSegment ==
    /\ Len(written) < OutSegs /\ ~cancelled
    /\ written' = Append(written, Len(written) + 1)
    /\ PutWrite(Len(written) + 1)
    /\ UNCHANGED <<net, tcp, connected, loops, rq, cancelled, reader, got,
                   longs, delivered, events, owner>>

WriteLongSegment ==
    /\ longs < OutLong /\ ~cancelled
    /\ longs' = longs + 1
    /\ PutWrite(TooLong)
    /\ UNCHANGED <<net, tcp, connected, loops, rq, cancelled, reader, got,
                   written, delivered, events, owner>>

(* read_segment: cancellation is looked at before the queue, and again     *)
(* after a timeout; a task already waiting in get() takes what comes.      *)
ReadSegment ==
    /\ reader = "get" /\ rq # <<>>
    /\ rq' = Tail(rq)
    /\ IF Head(rq) = Poison
       THEN reader' = "stopped" /\ UNCHANGED got
       ELSE reader' = "check" /\ got' = Append(got, Head(rq))
    /\ UNCHANGED <<net, tcp, connected, loops, wq, cancelled, written, longs,
                   delivered, events, owner>>

ReadSegmentTimeout ==
    /\ reader = "get" /\ rq = <<>> /\ reader' = "check"
    /\ UNCHANGED <<net, tcp, connected, loops, stream, got, written, longs,
                   delivered, events, owner>>

ReadSegmentAgain ==
    /\ reader = "check"
    /\ reader' = IF cancelled THEN "stopped" ELSE "get"
    /\ UNCHANGED <<net, tcp, connected, loops, stream, got, written, longs,
                   delivered, events, owner>>
-----------------------------------------------------------------------------
(* _tcp_to_stream_loop *)

(* The loop head and the start of StreamReader.read, which suspends only   *)
(* when there is neither data (left) nor EOF.                              *)
ReadLoopTop_EofIsClosed(left) ==    \* variant: is_connected() is false at EOF
    CASE ~running \/ ~IsConnected \/ reof  -> "done"
      [] left # <<>>                       -> "woken"
      [] OTHER                             -> "wait"
ReadLoopTop(left) ==
    CASE ~running \/ ~IsConnected  -> "done"
      [] left # <<>> \/ reof       -> "woken"
      [] OTHER                     -> "wait"

(* The loop sleeps 0.1 s before its first iteration. *)
ReadLoopStart ==
    /\ rpc = "start" /\ rpc' = ReadLoopTop(rbuf)
    /\ UNCHANGED <<net, tcp, connected, running, wpc, buffer, stream, ends,
                   events, owner>>

(* The length of a segment is read from the prefix at the front of the     *)
(* buffer; Split cuts off one segment, Framed and Rest all complete ones.  *)
Frame(b)    == HDR + Size[b[1][1]]
Complete_Strict(b) == Len(b) >= HDR /\ Len(b) > Frame(b)   \* variant
Complete(b) == Len(b) >= HDR /\ Len(b) >= Frame(b)
Split(b)    == SubSeq(b, Frame(b) + 1, Len(b))

Framed[b \in Seq(Byte)] ==
    IF Complete(b)
    THEN <<SubSeq(b, HDR + 1, Frame(b))>> \o Framed[Split(b)]
    ELSE <<>>

Rest[b \in Seq(Byte)] == IF Complete(b) THEN Rest[Split(b)] ELSE b

ReadChunk ==
    /\ rpc = "woken" /\ rbuf # <<>>
    /\ PutRead(Framed[buffer \o rbuf])
    /\ buffer' = Rest[buffer \o rbuf]
    /\ rbuf' = <<>> /\ rpc' = ReadLoopTop(<<>>)
    /\ UNCHANGED <<net, transport, reof, rexc, connected, running, wpc, wq,
                   cancelled, ends, events, owner>>

(* emit starts the handlers, unless the emitter was shut *)
Emit(e) == emitted' = (IF shut THEN emitted ELSE emitted \cup {e}) /\ UNCHANGED shut

(* read_chunk returns b'': cancel the stream and emit "disconnected" *)
ReadEof ==
    /\ rpc = "woken" /\ rbuf = <<>>
    /\ connected' = FALSE
    /\ Cancel
    /\ Emit("disconnected")
    /\ rpc' = "done"
    /\ UNCHANGED <<net, tcp, running, wpc, buffer, ends, owner>>

(* read_chunk raises: cancel the stream and emit "reconnect" *)
ReadError ==
    /\ rpc = "raise"
    /\ connected' = FALSE
    /\ Cancel
    /\ Emit("reconnect")
    /\ rpc' = "done"
    /\ UNCHANGED <<net, tcp, running, wpc, buffer, ends, owner>>
-----------------------------------------------------------------------------
(* _stream_to_tcp_loop *)

(* The loop head and the first test of get_write_segment. *)
WriteLoopTop_Unchecked == IF running /\ ~cancelled THEN "get" ELSE "done" \* variant
WriteLoopTop == IF running /\ IsConnected /\ ~cancelled THEN "get" ELSE "done"

WriteTimeout ==
    /\ wpc = "get" /\ wq = <<>> /\ wpc' = WriteLoopTop
    /\ UNCHANGED <<net, tcp, connected, running, rpc, buffer, stream, ends,
                   events, owner>>

(* The segment is dropped when the connection went away during the wait.   *)
WriteDropped ==
    /\ wpc = "get" /\ wq # <<>>
    /\ Head(wq) = Poison \/ ~IsConnected
    /\ wq' = Tail(wq) /\ wpc' = "done"
    /\ UNCHANGED <<net, tcp, connected, running, rpc, buffer, rq, cancelled,
                   ends, events, owner>>

(* write(): drain() may suspend, when the buffer of the transport is full  *)
WriteSent ==
    /\ wpc = "get" /\ wq # <<>> /\ Head(wq) \in 1..OutSegs /\ IsConnected
    /\ peer # "rst"
    /\ wq' = Tail(wq)
    /\ delivered' = Append(delivered, Head(wq))
    /\ wpc' \in {"drain", WriteLoopTop}
    /\ UNCHANGED <<net, tcp, connected, running, rpc, buffer, rq, cancelled,
                   reader, got, written, longs, events, owner>>

(* write() on a socket that was reset: the transport starts closing and    *)
(* drain() waits for connection_lost.                                      *)
WriteFails ==
    /\ wpc = "get" /\ wq # <<>> /\ Head(wq) \in 1..OutSegs /\ IsConnected
    /\ peer = "rst"
    /\ wq' = Tail(wq)
    /\ transport' = "closing"
    /\ wpc' = "drain"
    /\ UNCHANGED <<net, rbuf, reof, rexc, connected, running, rpc, buffer, rq,
                   cancelled, ends, events, owner>>

(* An over-long segment raises before the write; the last handler of the   *)
(* loop logs it, sleeps and goes on with the next segment.                 *)
WriteRefused ==
    /\ wpc = "get" /\ wq # <<>> /\ Head(wq) = TooLong /\ IsConnected
    /\ wq' = Tail(wq) /\ wpc' = "sleep"
    /\ UNCHANGED <<net, tcp, connected, running, rpc, buffer, rq, cancelled,
                   ends, events, owner>>

DrainReturns ==
    /\ wpc = "drain" /\ transport = "open"
    /\ wpc' = WriteLoopTop
    /\ UNCHANGED <<net, tcp, connected, running, rpc, buffer, stream, ends,
                   events, owner>>

(* AsyncConnection.write wraps the error in the ConnectionError of         *)
(* connection.py; the handler in the loop names the builtin one, so the    *)
(* error reaches the last handler, which only sleeps.                      *)
DrainRaises ==
    /\ wpc = "drain" /\ transport = "lost"
    /\ connected' = FALSE
    /\ wpc' = "sleep"
    /\ UNCHANGED <<net, tcp, running, rpc, buffer, stream, ends, events, owner>>

WriteRetry ==
    /\ wpc = "sleep" /\ wpc' = WriteLoopTop
    /\ UNCHANGED <<net, tcp, connected, running, rpc, buffer, stream, ends,
                   events, owner>>
-----------------------------------------------------------------------------
(* WhatsAppClient.disconnect, as far as the bridge sees it. *)

(* bridge.stop(): both tasks are cancelled where they are suspended *)
StopBridge ==
    /\ owner = "up" /\ owner' = "stopping"
    /\ running' = FALSE
    /\ rpc' = IF running THEN "done" ELSE rpc
    /\ wpc' = IF running THEN "done" ELSE wpc
    /\ UNCHANGED <<net, tcp, connected, buffer, stream, ends, events>>

CancelStream ==
    /\ owner = "stopping" /\ owner' = "cancelling"
    /\ Cancel
    /\ UNCHANGED <<net, tcp, connected, loops, ends, events>>

CloseConnection ==
    /\ owner = "cancelling" /\ owner' = "closing"
    /\ connected' = FALSE
    /\ transport' = IF transport = "open" THEN "closing" ELSE transport
    /\ UNCHANGED <<net, rbuf, reof, rexc, loops, stream, ends, events>>

WaitClosed ==
    /\ owner = "closing" /\ transport = "lost" /\ owner' = "down"
    /\ UNCHANGED <<net, tcp, connected, loops, stream, ends, events>>
-----------------------------------------------------------------------------
Environment == PeerSend \/ PeerFin \/ PeerReset
               \/ WriteSegment \/ WriteLongSegment
EventLoop   == DataReceived \/ EofReceived \/ ResetSeen \/ ConnectionLost
Reader      == ReadSegment \/ ReadSegmentTimeout \/ ReadSegmentAgain
ReadLoop    == ReadLoopStart \/ ReadChunk \/ ReadEof \/ ReadError
WriteLoop   == \/ WriteTimeout \/ WriteDropped \/ WriteSent \/ WriteFails
               \/ WriteRefused \/ DrainReturns \/ DrainRaises \/ WriteRetry
Disconnect  == StopBridge \/ CancelStream \/ CloseConnection \/ WaitClosed

Next == Environment \/ EventLoop \/ Reader \/ ReadLoop \/ WriteLoop \/ Disconnect

(* The event loop runs every ready task and callback; the client is only   *)
(* obliged to disconnect when a handler of the bridge's event runs, which  *)
(* a shut emitter does not start.                                          *)
Fairness ==
    /\ WF_vars(EventLoop) /\ WF_vars(Reader)
    /\ WF_vars(ReadLoop) /\ WF_vars(WriteLoop)
    /\ WF_vars(emitted # {} /\ StopBridge)
    /\ WF_vars(CancelStream \/ CloseConnection \/ WaitClosed)

Spec == Init /\ [][Next]_vars /\ Fairness
-----------------------------------------------------------------------------
(* Inbound segments: whatever the chunks TCP hands over, the reader gets   *)
(* an initial part of the server's segments, whole and in order            *)
(* (_tcp_to_stream_loop's reassembly and the read queue).                  *)
Inbound == INSTANCE SegmentChannel WITH
    Segment <- Payloads,
    sent <- [i \in 1..Len(sent) |-> Payload(sent[i])]
InboundFifo == Inbound!Spec

(* Outbound segments: what reaches the socket is an initial part of what   *)
(* write_segment accepted, over-long segments left out (write queue and    *)
(* _stream_to_tcp_loop).  A segment dropped or lost with the connection is *)
(* never followed by a later one; of an over-long one this is not so: the  *)
(* loop drops it and sends those behind it.                                *)
Outbound == INSTANCE SegmentChannel WITH
    Segment <- 1..OutSegs, sent <- written, got <- delivered
OutboundFifo == Outbound!Spec

(* When the socket is gone neither task of the bridge is left waiting on   *)
(* the reader, on the write queue or in drain().                           *)
LossEndsBridge == (transport = "lost") ~> (rpc = "done" /\ wpc = "done")

(* A server that closes its side without a reset is always noticed: the    *)
(* read loop sees the EOF and the client starts disconnecting.  This is    *)
(* said of the first connection of a client; on later ones the emitter is  *)
(* shut, the bridge's event starts no handler and nobody disconnects.      *)
GracefulCloseHeard ==
    [](peer # "rst") /\ ~shut => ((peer = "fin") ~> (owner # "up"))

(* While the connection is up nothing the server sent stays in the bridge. *)
InboundDelivered ==
    \A n \in 1..InSegs :
        (Len(sent) = n) ~> (Len(got) >= n \/ peer # "up" \/ owner # "up")

-----------------------------------------------------------------------------
(* What a comment of the code says and TLC refutes; the README tells how.  *)

(* A connection that is gone is announced: on the first connection the     *)
(* client starts disconnecting (bridge.py: "Emite evento de disconnect").  *)
LossAnnounced == ~shut => ((transport = "lost") ~> (owner # "up"))
=============================================================================
