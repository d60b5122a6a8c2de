---- MODULE ConnHandler ----
(***************************************************************************)
(* One connection of the gateway: handleConn of conn_handler.go with the   *)
(* frame decoder of protocol/, the router's Dispatch and the limits of     *)
(* conn_ctx.go, against a client that pipelines requests, stops reading    *)
(* responses or goes away, and a server that may close the connection      *)
(* under the handler (closeConnOnDone of main.go).                         *)
(*                                                                         *)
(* A byte is a position in a frame: [frame |-> k, off |-> i] is the i-th   *)
(* byte of the k-th frame sent.  The read buffer and the wire are          *)
(* sequences of such bytes, so a decoder that loses its place finds bytes  *)
(* that are no frame header.  A frame carries only what the code branches  *)
(* on: whether magic and version are right, the Length field, the flags,   *)
(* what the body decodes to and the command.  The request id of the k-th   *)
(* frame is k.                                                             *)
(***************************************************************************)
EXTENDS Integers, Sequences

CONSTANTS
    Frames,        \* the frames a client may send
    Handlers,      \* the router's table: command -> what its handler does
    HeaderLen,     \* protocol.FrameHeaderLen
    MaxFrameBody,  \* protocol.MaxFrameBody
    MaxBuffer,     \* ConnContext.maxBuffer
    ReadChunk,     \* len(state.tmp)
    Burst,         \* ConnContext.burst
    InitTokens,    \* ConnContext.tokens of a new connection
    SendBuffer,    \* responses the socket holds before Write blocks
    MaxFrames      \* bound on the frames the client sends

HandlerKinds == {"reply", "zeroid", "none", "fail", "huge"}
Flags == {"compressed", "encrypted", "oneway"}

ASSUME HandlerAssumption ==
    /\ HeaderLen \in Nat \ {0}
    /\ MaxFrameBody \in Nat
    /\ MaxBuffer \in Nat
    /\ ReadChunk \in Nat \ {0}
    /\ Burst \in Nat \ {0}
    /\ InitTokens \in 0..Burst
    /\ SendBuffer \in Nat \ {0}
    /\ MaxFrames \in Nat
    /\ \A f \in Frames : /\ f.valid \in BOOLEAN
                         /\ f.len \in Nat
                         /\ f.flags \in SUBSET Flags
                         /\ f.body \in {"message", "short", "garbage"}
    /\ \A c \in DOMAIN Handlers : Handlers[c] \in HandlerKinds

VARIABLES
    stream,        \* the frames the client has sent, in order
    wire,          \* bytes sent and not yet read
    eof,           \* the client has closed its end
    unread,        \* responses in the socket that the client has not read
    connClosed,    \* the server has closed the connection (closeConnOnDone)
    idleTimeout,   \* serveOptions.idleTimeout > 0
    writeTimeout,  \* serveOptions.writeTimeout > 0
    pc,            \* where the handler is
    result,        \* what handleConn returned
    buf,           \* connHandlerState.buf
    bufferUsed,    \* ConnContext.bufferUsed
    consumed,      \* local of processBufferedFrames
    tokens,        \* ConnContext.tokens
    sending,       \* the response being written
    torn,          \* a response was written in part only
    responses,     \* history: responses written in full
    dispatched,    \* history: requests given to a handler
    answered       \* history: frames handleFrame has finished without error

client == <<stream, wire, eof, unread>>
server == <<pc, result, buf, bufferUsed, consumed, tokens, sending, torn>>
history == <<responses, dispatched, answered>>
options == <<idleTimeout, writeTimeout>>
vars == <<client, server, history, options, connClosed>>

Size(f) == HeaderLen + f.len

Bytes(f, k) == [i \in 1..Size(f) |-> [frame |-> k, off |-> i]]

Alive == pc \in {"read", "decode", "write"}

NoResponse == [rid |-> 0, compressed |-> FALSE]

----
(* protocol.Decode on the bytes b.  Bytes that do not begin a frame hold   *)
(* no magic.                                                               *)
StartsFrame(b) ==
    /\ \A i \in 1..HeaderLen : b[i] = [frame |-> b[1].frame, off |-> i]
    /\ stream[b[1].frame].valid

Decode(b) ==
    IF Len(b) < HeaderLen THEN "incomplete"
    ELSE IF ~StartsFrame(b) \/ stream[b[1].frame].len > MaxFrameBody THEN "error"
    ELSE IF Len(b) < Size(stream[b[1].frame]) THEN "incomplete"
    ELSE "frame"

Rest == SubSeq(buf, consumed + 1, Len(buf))

(* DecodeFrameBody: encryption is not supported, and a compressed body     *)
(* must be gzip of at most MaxFrameBody bytes.                             *)
BadBody(f) ==
    \/ "encrypted" \in f.flags
    \/ "compressed" \in f.flags /\ f.body = "garbage"

(* DecodeMessage: shorter than a message header. *)
ShortMessage(f) == f.body = "short"

(* Dispatch: no handler in the router's table. *)
UnknownCommand(f) == f.cmd \notin DOMAIN Handlers

(* The errors handleFrame finds before a handler runs. *)
Rejected(f) == BadBody(f) \/ ShortMessage(f) \/ UnknownCommand(f)

(* Plausible bug: the handler's zero request id goes out as it is. *)
ResponseUnfilled(k) ==
    LET f == stream[k] IN
    [rid |-> IF Handlers[f.cmd] = "zeroid" THEN 0 ELSE k, compressed |-> "compressed" \in f.flags]

(* handleFrame fills in the request id a handler left at zero.             *)
ResponseTo(k) ==
    LET f == stream[k]
        rid == IF Handlers[f.cmd] = "zeroid" THEN 0 ELSE k
    IN  [rid |-> IF rid = 0 THEN k ELSE rid, compressed |-> "compressed" \in f.flags]

WantsResponse(f) == "oneway" \notin f.flags /\ Handlers[f.cmd] # "none"

(* protocol.Encode panics on a body over MaxFrameBody.  A handler of kind  *)
(* "huge" answers with such a message; gzip may bring it below the limit.  *)
MayPanic(f) == Handlers[f.cmd] = "huge"
MayFit(f) == Handlers[f.cmd] = "huge" => "compressed" \in f.flags

Reserve(used, n) == [used |-> used + n, ok |-> used + n <= MaxBuffer]

(* Plausible bug: the header is released twice. *)
ReleaseTooMuch(used, n) == IF n > 0 THEN used - n - HeaderLen ELSE used

Release(used, n) == used - n

CapAtBurst(t) == IF t > Burst THEN Burst ELSE t

Return(r) == pc' = "returned" /\ result' = r

----
(* The handler starts to read, or returns at once if its router is nil. *)
Init ==
    /\ stream = <<>> /\ wire = <<>> /\ eof = FALSE /\ unread = 0
    /\ connClosed = FALSE
    /\ idleTimeout \in BOOLEAN /\ writeTimeout \in BOOLEAN
    /\ \/ pc = "read" /\ result = "none"
       \/ pc = "returned" /\ result = "router"
    /\ buf = <<>> /\ bufferUsed = 0 /\ consumed = 0
    /\ tokens = InitTokens
    /\ sending = NoResponse /\ torn = FALSE
    /\ responses = <<>> /\ dispatched = <<>> /\ answered = 0

(* The client writes its next request. *)
ClientSend(f) ==
    /\ Alive /\ ~eof /\ Len(stream) < MaxFrames
    /\ stream' = Append(stream, f)
    /\ wire' = wire \o Bytes(f, Len(stream) + 1)
    /\ UNCHANGED <<eof, unread, server, history, options, connClosed>>

(* The client closes or dies; bytes still on their way may be lost. *)
ClientClose ==
    /\ Alive /\ ~eof
    /\ eof' = TRUE
    /\ \E n \in 0..Len(wire) : wire' = SubSeq(wire, 1, n)
    /\ UNCHANGED <<stream, unread, server, history, options, connClosed>>

(* The client reads a response from the socket. *)
ClientRead ==
    /\ unread > 0
    /\ unread' = unread - 1
    /\ UNCHANGED <<stream, wire, eof, server, history, options, connClosed>>

(* The context is cancelled and the watcher goroutine closes the connection. *)
CloseConn ==
    /\ Alive /\ ~connClosed
    /\ connClosed' = TRUE
    /\ UNCHANGED <<client, server, history, options>>

----
(* Plausible bug: the quota is tested before the new bytes are counted. *)
ReadCheckingOldUse(n) ==
    /\ pc = "read" /\ ~connClosed /\ n <= Len(wire)
    /\ wire' = SubSeq(wire, n + 1, Len(wire))
    /\ bufferUsed' = bufferUsed + n
    /\ IF bufferUsed <= MaxBuffer
         THEN buf' = buf \o SubSeq(wire, 1, n) /\ pc' = "decode" /\ UNCHANGED result
         ELSE Return("quota") /\ UNCHANGED buf
    /\ UNCHANGED <<stream, eof, unread, consumed, tokens, sending, torn, history, options, connClosed>>

(* readIntoBuffer: Read returns n bytes. *)
ReadIntoBuffer(n) ==
    LET q == Reserve(bufferUsed, n) IN
    /\ pc = "read" /\ ~connClosed /\ n <= Len(wire)
    /\ wire' = SubSeq(wire, n + 1, Len(wire))
    /\ bufferUsed' = q.used
    /\ IF q.ok
         THEN buf' = buf \o SubSeq(wire, 1, n) /\ pc' = "decode" /\ UNCHANGED result
         ELSE Return("quota") /\ UNCHANGED buf
    /\ UNCHANGED <<stream, eof, unread, consumed, tokens, sending, torn, history, options, connClosed>>

(* Plausible bug: no read deadline is set. *)
ReadFailsWithoutDeadline ==
    /\ pc = "read"
    /\ \/ eof /\ wire = <<>> /\ Return("nil")
       \/ (connClosed \/ eof) /\ Return("closed")
    /\ UNCHANGED <<client, buf, bufferUsed, consumed, tokens, sending, torn, history, options, connClosed>>

(* readIntoBuffer: Read fails.  End of stream and idle timeout are no      *)
(* errors of handleConn; a deadline can fire as data arrives.              *)
ReadFails ==
    /\ pc = "read"
    /\ \/ eof /\ wire = <<>> /\ Return("nil")
       \/ idleTimeout /\ Return("nil")
       \/ (connClosed \/ eof) /\ Return("closed")
    /\ UNCHANGED <<client, buf, bufferUsed, consumed, tokens, sending, torn, history, options, connClosed>>

(* processBufferedFrames: Decode finds no frame at this place. *)
DecodeFails ==
    /\ pc = "decode" /\ Decode(Rest) = "error"
    /\ Return("protocol")
    /\ UNCHANGED <<client, buf, bufferUsed, consumed, tokens, sending, torn, history, options, connClosed>>

(* Plausible bugs: compacting without Release, and dropping the whole      *)
(* buffer once a frame has been handled.                                   *)
CompactUnreleased ==
    /\ buf' = Rest /\ bufferUsed' = bufferUsed /\ consumed' = 0
CompactAll ==
    /\ buf' = IF consumed > 0 THEN <<>> ELSE buf
    /\ bufferUsed' = Release(bufferUsed, consumed)
    /\ consumed' = 0

(* The tail of processBufferedFrames: release and move the rest down. *)
Compact ==
    /\ buf' = Rest
    /\ bufferUsed' = Release(bufferUsed, consumed)
    /\ consumed' = 0

(* Plausible bug: one frame per read. *)
FinishAfterOneFrame ==
    /\ pc = "decode" /\ (Decode(Rest) = "incomplete" \/ consumed > 0)
    /\ Compact
    /\ pc' = "read"
    /\ UNCHANGED <<client, result, tokens, sending, torn, history, options, connClosed>>

(* processBufferedFrames: what is left is no complete frame. *)
FinishBatch ==
    /\ pc = "decode" /\ Decode(Rest) = "incomplete"
    /\ Compact
    /\ pc' = "read"
    /\ UNCHANGED <<client, result, tokens, sending, torn, history, options, connClosed>>

----
(* Plausible bug: the handled frame is left at the head of the batch. *)
FrameDoneInPlace(k) ==
    /\ pc' = "decode"
    /\ consumed' = consumed
    /\ answered' = answered + 1

(* A frame is done: back to the loop of processBufferedFrames. *)
FrameDone(k) ==
    /\ pc' = "decode"
    /\ consumed' = consumed + Size(stream[k])
    /\ answered' = answered + 1

(* The part of handleFrame after Allow, up to writeAll. *)
Serve(k) ==
    LET f == stream[k] IN
    \/ /\ Rejected(f)
       /\ Return("protocol")
       /\ UNCHANGED <<consumed, sending, dispatched, answered>>
    \/ /\ ~Rejected(f)
       /\ dispatched' = Append(dispatched, k)
       /\ \/ /\ Handlers[f.cmd] = "fail"
             /\ Return("handler")
             /\ UNCHANGED <<consumed, sending, answered>>
          \/ /\ Handlers[f.cmd] # "fail" /\ ~WantsResponse(f)
             /\ FrameDone(k)
             /\ UNCHANGED <<result, sending>>
          \/ /\ Handlers[f.cmd] # "fail" /\ WantsResponse(f) /\ MayFit(f)
             /\ sending' = ResponseTo(k)
             /\ pc' = "write"
             /\ UNCHANGED <<result, consumed, answered>>
          \/ /\ WantsResponse(f) /\ MayPanic(f)
             /\ pc' = "panicked"
             /\ UNCHANGED <<result, consumed, sending, answered>>

(* handleFrame: Allow, with add tokens earned since the last refill (see   *)
(* ConnContext), then the frame.                                           *)
HandleFrame(add) ==
    LET k == Rest[1].frame
        t == CapAtBurst(tokens + add)
    IN  /\ pc = "decode" /\ Decode(Rest) = "frame"
        /\ \/ /\ t <= 0
              /\ tokens' = t
              /\ Return("rate")
              /\ UNCHANGED <<consumed, sending, dispatched, answered>>
           \/ /\ t > 0
              /\ tokens' = t - 1
              /\ Serve(k)
        /\ UNCHANGED <<client, buf, bufferUsed, torn, responses, options, connClosed>>

(* writeAll: the socket takes the whole response. *)
WriteResponse ==
    /\ pc = "write" /\ ~connClosed /\ unread < SendBuffer
    /\ unread' = unread + 1
    /\ responses' = Append(responses, sending)
    /\ sending' = NoResponse
    /\ FrameDone(Rest[1].frame)
    /\ UNCHANGED <<stream, wire, eof, result, buf, bufferUsed, tokens, torn, dispatched, options, connClosed>>

(* writeAll: the write deadline passes, or the connection is gone; a part  *)
(* of the response may have been written.                                  *)
WriteFails ==
    /\ pc = "write"
    /\ connClosed \/ eof \/ (writeTimeout /\ unread = SendBuffer)
    /\ Return("write")
    /\ torn' \in BOOLEAN
    /\ UNCHANGED <<client, buf, bufferUsed, consumed, tokens, sending, history, options, connClosed>>

(* handleConn has returned, or the process is gone. *)
Terminated == ~Alive /\ UNCHANGED vars

HandlerStep ==
    \/ \E n \in 1..ReadChunk : ReadIntoBuffer(n)
    \/ ReadFails
    \/ DecodeFails
    \/ FinishBatch
    \/ \E add \in 0..1 : HandleFrame(add)
    \/ WriteResponse
    \/ WriteFails

Next ==
    \/ \E f \in Frames : ClientSend(f)
    \/ ClientClose
    \/ ClientRead
    \/ CloseConn
    \/ HandlerStep
    \/ Terminated

(* The handler goroutine is scheduled; nothing is assumed of the client.   *)
Spec == Init /\ [][Next]_vars /\ WF_vars(HandlerStep)

----
TypeOK ==
    /\ stream \in Seq(Frames) /\ Len(stream) <= MaxFrames
    /\ wire \in Seq([frame : 1..MaxFrames, off : Nat])
    /\ buf \in Seq([frame : 1..MaxFrames, off : Nat])
    /\ eof \in BOOLEAN /\ connClosed \in BOOLEAN /\ torn \in BOOLEAN
    /\ idleTimeout \in BOOLEAN /\ writeTimeout \in BOOLEAN
    /\ unread \in 0..SendBuffer
    /\ pc \in {"read", "decode", "write", "returned", "panicked"}
    /\ result \in {"none", "nil", "quota", "closed", "protocol", "handler", "rate", "write", "router"}
    /\ bufferUsed \in Nat
    /\ consumed \in 0..Len(buf)
    /\ tokens \in 0..Burst
    /\ answered \in 0..Len(stream)

(* The quota of conn_ctx.go and the buffer it stands for agree: as long as *)
(* the handler runs, bufferUsed is the length of buf, whatever mix of      *)
(* whole, split and pipelined frames was read and compacted, and the       *)
(* buffer itself never grows past the quota.                               *)
BufferAccounting ==
    /\ Len(buf) <= MaxBuffer
    /\ Alive => bufferUsed = Len(buf)

(* The byte after b in the client's stream. *)
Successor(b) ==
    IF b.off = Size(stream[b.frame])
      THEN [frame |-> b.frame + 1, off |-> 1]
      ELSE [frame |-> b.frame, off |-> b.off + 1]

(* The decoder never loses its place: the undecoded part of the buffer and *)
(* the bytes on the wire are, without gap, repeat or reorder, the client's *)
(* stream from the first frame that is not finished yet; nothing of it is  *)
(* missing unless the client went away.                                    *)
InSync ==
    Alive =>
      LET s == Rest \o wire IN
      /\ s # <<>> => s[1] = [frame |-> answered + 1, off |-> 1]
      /\ \A i \in 1..(Len(s) - 1) : s[i + 1] = Successor(s[i])
      /\ ~eof => IF s = <<>>
                   THEN answered = Len(stream)
                   ELSE Successor(s[Len(s)]) = [frame |-> Len(stream) + 1, off |-> 1]

(* The client can match answers to requests: the responses written so far  *)
(* are those of the finished requests that want one, in request order and  *)
(* with the compression of the request; one-way requests and handlers that *)
(* return no message produce none, and nothing follows a torn response.    *)
ResponsesMatchRequests ==
    LET sent == 1..Len(responses) IN
    /\ {responses[i].rid : i \in sent} = {k \in 1..answered : WantsResponse(stream[k])}
    /\ \A i, j \in sent : i < j => responses[i].rid < responses[j].rid
    /\ \A i \in sent :
         responses[i].compressed <=> "compressed" \in stream[responses[i].rid].flags
    /\ torn => ~Alive

(* Handlers run in request order, each request at most once, and when the  *)
(* connection ends at most one request has had its effect without the      *)
(* client being told all of its answer.                                    *)
DispatchedOnceInOrder ==
    /\ \A i \in 1..Len(dispatched) : dispatched[i] = i
    /\ Len(dispatched) \in answered..(answered + 1)

(* Pipelining never exhausts the quota: a connection is dropped for its    *)
(* buffer only when the client sent a frame that leaves no room for one    *)
(* full read after all but its last byte.                                  *)
QuotaOnlyForBigFrames ==
    result = "quota" =>
      \E k \in 1..Len(stream) : Size(stream[k]) > MaxBuffer - ReadChunk + 1

(* Every request that has been sent is worked off without the help of a    *)
(* later one: again and again the handler has ended, has finished all that *)
(* was sent, or is stuck writing to a client that does not read and has no *)
(* write timeout.                                                          *)
RequestsWorkedOff ==
    []<>( \/ ~Alive
          \/ answered = Len(stream) /\ wire = <<>> /\ ~eof
          \/ pc = "write" /\ ~writeTimeout /\ unread = SendBuffer )

(* With both timeouts set, a client that stops sending or stops reading    *)
(* does not hold the connection for ever.                                  *)
TimeoutsEndConnection == (idleTimeout /\ writeTimeout) => <>~Alive

====
