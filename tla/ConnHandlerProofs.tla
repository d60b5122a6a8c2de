---- MODULE ConnHandlerProofs ----
(***************************************************************************)
(* Proofs about ConnHandler, for every set of frames and handlers, every   *)
(* quota and every size of a read: the byte quota and the read buffer      *)
(* agree, the decoder keeps its place in the client's stream, responses    *)
(* match requests, and only a big frame can exhaust the quota.             *)
(***************************************************************************)
EXTENDS ConnHandler, SequenceTheorems, TLAPS

(* Bytes of frames that have been sent. *)
SentByte == [frame : 1..Len(stream), off : Nat]

(* The undecoded bytes begin with a whole frame. *)
HeadWhole ==
    /\ Len(Rest) > 0
    /\ Size(stream[Rest[1].frame]) <= Len(Rest)

(* The inductive invariant.  While a response is written, the frame it     *)
(* answers is still whole at the head of the undecoded bytes, so that      *)
(* finishing the frame consumes no more than the buffer holds.             *)
IInv ==
    /\ stream \in Seq(Frames)
    /\ wire \in Seq(SentByte)
    /\ buf \in Seq(SentByte)
    /\ consumed \in 0..Len(buf)
    /\ pc = "write" => HeadWhole
    /\ BufferAccounting

LEMMA SizeType ==
  ASSUME stream \in Seq(Frames), NEW k \in 1..Len(stream)
  PROVE  Size(stream[k]) \in Nat /\ Size(stream[k]) > 0
  BY HandlerAssumption DEF Size

(* What is left of the buffer after the frames consumed so far. *)
LEMMA RestFacts ==
  ASSUME NEW S, buf \in Seq(S), consumed \in 0..Len(buf)
  PROVE  Rest \in Seq(S) /\ Len(Rest) = Len(buf) - consumed
  BY SubSeqProperties DEF Rest

(* The bytes of frames sent remain so when another frame is sent. *)
LEMMA StillSent ==
  ASSUME stream \in Seq(Frames), NEW f \in Frames, stream' = Append(stream, f),
         NEW s \in Seq(SentByte)
  PROVE  /\ s \in Seq(SentByte')
         /\ \A k \in 1..Len(stream) : stream'[k] = stream[k]
         /\ Len(stream') = Len(stream) + 1
  <1>1. /\ Len(stream') = Len(stream) + 1
        /\ \A k \in 1..Len(stream) : stream'[k] = stream[k]
    BY AppendProperties
  <1>2. Len(stream) \in Nat
    BY LenProperties
  <1>3. SentByte \subseteq SentByte'
    BY <1>1, <1>2 DEF SentByte
  <1> QED
    BY <1>1, <1>3, SeqMonotonic

(* A frame at the head of the undecoded bytes is one the client sent. *)
LEMMA HeadSent ==
  ASSUME IInv, Len(Rest) > 0
  PROVE  /\ Rest[1].frame \in 1..Len(stream)
         /\ Size(stream[Rest[1].frame]) \in Nat
         /\ Size(stream[Rest[1].frame]) > 0
  <1>1. Rest \in Seq(SentByte)
    BY RestFacts DEF IInv
  <1>2. 1 \in 1..Len(Rest)
    BY <1>1, LenProperties
  <1>3. Rest[1] \in SentByte
    BY <1>1, <1>2, ElementOfSeq
  <1>4. Rest[1].frame \in 1..Len(stream)
    BY <1>3 DEF SentByte
  <1> QED
    BY <1>4, SizeType DEF IInv

(* A frame that Decode finds is whole. *)
LEMMA DecodedWhole ==
  ASSUME IInv, Decode(Rest) = "frame"
  PROVE  HeadWhole
  <1>1. Len(Rest) \in Nat
    BY RestFacts, LenProperties DEF IInv
  <1>2. HeaderLen \in Nat /\ HeaderLen > 0
    BY HandlerAssumption
  <1>3. Len(Rest) >= HeaderLen /\ ~(Len(Rest) < Size(stream[Rest[1].frame]))
    BY <1>1, <1>2 DEF Decode
  <1>4. Size(stream[Rest[1].frame]) \in Nat
    BY <1>1, <1>2, <1>3, HeadSent
  <1> QED
    BY <1>1, <1>2, <1>3, <1>4 DEF HeadWhole

(* Finishing the frame at the head of the undecoded bytes consumes no more *)
(* than there is.                                                          *)
LEMMA FrameDoneFacts ==
  ASSUME IInv, HeadWhole, FrameDone(Rest[1].frame)
  PROVE  consumed' \in 0..Len(buf)
  <1>1. Len(Rest) = Len(buf) - consumed
    BY RestFacts DEF IInv
  <1>2. Len(buf) \in Nat
    BY LenProperties DEF IInv
  <1>3. Size(stream[Rest[1].frame]) \in Nat
    BY HeadSent DEF HeadWhole
  <1> QED
    BY <1>1, <1>2, <1>3 DEF FrameDone, IInv, HeadWhole

LEMMA InitIInv == Init => IInv
  BY HandlerAssumption, EmptySeq DEF Init, IInv, BufferAccounting, Alive, Rest

(* The steps that read or write neither the stream nor the buffer; pc may  *)
(* only leave the three places where the handler runs.                     *)
LEMMA BufferUntouched ==
  ASSUME IInv, UNCHANGED <<stream, buf, bufferUsed, consumed>>,
         wire' \in Seq(SentByte),
         pc' = pc \/ pc' = "returned" \/ pc' = "panicked"
  PROVE  IInv'
  <1>1. Rest' = Rest /\ SentByte' = SentByte
    BY DEF Rest, SentByte
  <1>2. HeadWhole' <=> HeadWhole
    BY <1>1 DEF HeadWhole, Size
  <1>3. Alive' => Alive
    BY DEF Alive
  <1> QED
    BY <1>1, <1>2, <1>3 DEF IInv, BufferAccounting

(* ClientSend: the frame that is being answered stays where it is. *)
LEMMA ClientSendIInv ==
  ASSUME IInv, NEW f \in Frames, ClientSend(f)
  PROVE  IInv'
  <1>1. /\ stream' = Append(stream, f)
        /\ wire' = wire \o Bytes(f, Len(stream) + 1)
        /\ UNCHANGED <<buf, bufferUsed, consumed, pc>>
    BY DEF ClientSend, server
  <1>2. stream' \in Seq(Frames)
    BY <1>1, AppendProperties DEF IInv
  <1>3. /\ Len(stream') = Len(stream) + 1
        /\ \A k \in 1..Len(stream) : stream'[k] = stream[k]
        /\ wire \in Seq(SentByte') /\ buf \in Seq(SentByte')
    BY <1>1, StillSent DEF IInv
  <1>4. Bytes(f, Len(stream) + 1) \in Seq(SentByte')
    <2>1. Size(f) \in Nat
      BY HandlerAssumption DEF Size
    <2>2. Len(stream) + 1 \in 1..Len(stream')
      BY <1>3, LenProperties DEF IInv
    <2>3. Bytes(f, Len(stream) + 1) \in [1..Size(f) -> SentByte']
      BY <2>1, <2>2 DEF Bytes, SentByte
    <2> QED
      BY <2>1, <2>3, SeqDef
  <1>5. wire' \in Seq(SentByte')
    BY <1>1, <1>3, <1>4, ConcatProperties
  <1>6. Rest' = Rest
    BY <1>1 DEF Rest
  <1>7. HeadWhole => HeadWhole'
    <2> SUFFICES ASSUME HeadWhole
                 PROVE  HeadWhole'
      OBVIOUS
    <2>1. Rest[1].frame \in 1..Len(stream)
      BY HeadSent DEF HeadWhole
    <2>2. stream'[Rest[1].frame] = stream[Rest[1].frame]
      BY <1>3, <2>1
    <2> QED
      BY <1>6, <2>2 DEF HeadWhole, Size
  <1> QED
    BY <1>1, <1>2, <1>3, <1>5, <1>7 DEF IInv, BufferAccounting, Alive

(* A prefix and a suffix of the wire hold bytes of frames sent. *)
LEMMA WireParts ==
  ASSUME NEW S, NEW w \in Seq(S), NEW n \in 0..Len(w)
  PROVE  /\ SubSeq(w, 1, n) \in Seq(S) /\ Len(SubSeq(w, 1, n)) = n
         /\ SubSeq(w, n + 1, Len(w)) \in Seq(S)
  <1>1. Len(w) \in Nat
    BY LenProperties
  <1>2. \A i \in 1..Len(w) : w[i] \in S
    BY ElementOfSeq
  <1>3. /\ 1 \in Int /\ n \in Int /\ n + 1 \in Int /\ Len(w) \in Int
        /\ \A i \in 1..n : w[i] \in S
        /\ \A i \in (n + 1)..Len(w) : w[i] \in S
    BY <1>1, <1>2
  <1>4. SubSeq(w, 1, n) \in Seq(S) /\ Len(SubSeq(w, 1, n)) = IF 1 <= n THEN n - 1 + 1 ELSE 0
    BY <1>3, SubSeqProperties
  <1>5. SubSeq(w, n + 1, Len(w)) \in Seq(S)
    BY <1>3, SubSeqProperties
  <1> QED
    BY <1>4, <1>5

(* ReadIntoBuffer: the bytes that are kept are the bytes that are counted. *)
LEMMA ReadIInv ==
  ASSUME IInv, NEW n \in 1..ReadChunk, ReadIntoBuffer(n)
  PROVE  IInv'
  <1>1. /\ pc = "read" /\ n <= Len(wire) /\ bufferUsed' = bufferUsed + n
        /\ wire' = SubSeq(wire, n + 1, Len(wire))
        /\ UNCHANGED <<stream, consumed>>
    BY DEF ReadIntoBuffer, Reserve
  <1>2. n \in Nat /\ n \in 0..Len(wire) /\ Len(buf) \in Nat
    BY <1>1, HandlerAssumption, LenProperties DEF IInv
  <1>3. /\ SubSeq(wire, 1, n) \in Seq(SentByte) /\ Len(SubSeq(wire, 1, n)) = n
        /\ wire' \in Seq(SentByte)
    BY <1>1, <1>2, WireParts DEF IInv
  <1>4. SentByte' = SentByte
    BY <1>1 DEF SentByte
  <1>5. bufferUsed = Len(buf)
    BY <1>1 DEF IInv, BufferAccounting, Alive
  <1>6. CASE bufferUsed + n <= MaxBuffer
    <2>1. buf' = buf \o SubSeq(wire, 1, n) /\ pc' = "decode"
      BY <1>6 DEF ReadIntoBuffer, Reserve
    <2>2. buf' \in Seq(SentByte) /\ Len(buf') = Len(buf) + n
      BY <1>3, <2>1, ConcatProperties DEF IInv
    <2>3. consumed' \in 0..Len(buf')
      BY <1>1, <1>2, <2>2 DEF IInv
    <2> QED
      BY <1>1, <1>3, <1>4, <1>5, <1>6, <2>1, <2>2, <2>3 DEF IInv, BufferAccounting
  <1>7. CASE ~(bufferUsed + n <= MaxBuffer)
    <2>1. buf' = buf /\ pc' = "returned"
      BY <1>7 DEF ReadIntoBuffer, Reserve, Return
    <2> QED
      BY <1>1, <1>3, <1>4, <2>1 DEF IInv, BufferAccounting, Alive
  <1> QED
    BY <1>6, <1>7

(* FinishBatch: what is released is what leaves the buffer. *)
LEMMA FinishIInv ==
  ASSUME IInv, FinishBatch
  PROVE  IInv'
  <1>1. /\ pc = "decode" /\ pc' = "read" /\ buf' = Rest /\ consumed' = 0
        /\ bufferUsed' = bufferUsed - consumed
        /\ UNCHANGED <<stream, wire>>
    BY DEF FinishBatch, Compact, Release, client
  <1>2. Rest \in Seq(SentByte) /\ Len(Rest) = Len(buf) - consumed
    BY RestFacts DEF IInv
  <1>3. bufferUsed = Len(buf) /\ Len(buf) <= MaxBuffer
    BY <1>1 DEF IInv, BufferAccounting, Alive
  <1>4. Len(buf) \in Nat /\ Len(Rest) \in Nat /\ MaxBuffer \in Nat
    BY <1>2, LenProperties, HandlerAssumption DEF IInv
  <1>5. Len(buf') <= MaxBuffer /\ bufferUsed' = Len(buf')
    BY <1>1, <1>2, <1>3, <1>4 DEF IInv
  <1>6. SentByte' = SentByte
    BY <1>1 DEF SentByte
  <1> QED
    BY <1>1, <1>2, <1>4, <1>5, <1>6 DEF IInv, BufferAccounting

(* A step that finishes the frame at the head of the undecoded bytes. *)
LEMMA FrameDoneIInv ==
  ASSUME IInv, HeadWhole, FrameDone(Rest[1].frame), pc \in {"decode", "write"},
         UNCHANGED <<stream, wire, buf, bufferUsed>>
  PROVE  IInv'
  <1>1. consumed' \in 0..Len(buf')
    BY FrameDoneFacts
  <1>2. pc' = "decode" /\ SentByte' = SentByte
    BY DEF FrameDone, SentByte
  <1>3. BufferAccounting'
    BY DEF IInv, BufferAccounting, Alive
  <1> QED
    BY <1>1, <1>2, <1>3 DEF IInv

(* HandleFrame: the four ways out of handleFrame that return or panic, a   *)
(* frame without a response, and a response that is about to be written.   *)
LEMMA HandleIInv ==
  ASSUME IInv, NEW add \in 0..1, HandleFrame(add)
  PROVE  IInv'
  <1> DEFINE k == Rest[1].frame
  <1>1. /\ pc = "decode" /\ Decode(Rest) = "frame"
        /\ UNCHANGED <<stream, wire, buf, bufferUsed>>
    BY DEF HandleFrame, client
  <1>2. HeadWhole
    BY <1>1, DecodedWhole
  <1>3. \/ pc' = "returned" /\ consumed' = consumed
        \/ pc' = "panicked" /\ consumed' = consumed
        \/ FrameDone(k)
        \/ pc' = "write" /\ consumed' = consumed
    BY DEF HandleFrame, Serve, Return
  <1>4. wire' \in Seq(SentByte)
    BY <1>1 DEF IInv
  <1>5. CASE (pc' = "returned" \/ pc' = "panicked") /\ consumed' = consumed
    BY <1>1, <1>4, <1>5, BufferUntouched
  <1>6. CASE FrameDone(k)
    BY <1>1, <1>2, <1>6, FrameDoneIInv
  <1>7. CASE pc' = "write" /\ consumed' = consumed
    <2>1. Rest' = Rest /\ SentByte' = SentByte
      BY <1>1, <1>7 DEF Rest, SentByte
    <2>2. HeadWhole'
      BY <1>1, <1>2, <2>1 DEF HeadWhole, Size
    <2>3. BufferAccounting'
      BY <1>1 DEF IInv, BufferAccounting, Alive
    <2> QED
      BY <1>1, <1>7, <2>1, <2>2, <2>3 DEF IInv
  <1> QED
    BY <1>3, <1>5, <1>6, <1>7

LEMMA NextIInv == IInv /\ [Next]_vars => IInv'
  <1> SUFFICES ASSUME IInv, [Next]_vars
               PROVE  IInv'
    OBVIOUS
  <1>1. ASSUME NEW f \in Frames, ClientSend(f)
        PROVE  IInv'
    BY <1>1, ClientSendIInv
  <1>2. CASE ClientClose
    <2>1. PICK n \in 0..Len(wire) : wire' = SubSeq(wire, 1, n)
      BY <1>2 DEF ClientClose
    <2>2. wire' \in Seq(SentByte)
      BY <2>1, WireParts DEF IInv
    <2>3. UNCHANGED <<stream, buf, bufferUsed, consumed, pc>>
      BY <1>2 DEF ClientClose, server
    <2> QED
      BY <2>2, <2>3, BufferUntouched
  <1>3. CASE ClientRead \/ CloseConn \/ ReadFails \/ DecodeFails \/ WriteFails \/ UNCHANGED vars
    <2>1. /\ UNCHANGED <<stream, wire, buf, bufferUsed, consumed>>
          /\ pc' = pc \/ pc' = "returned"
      BY <1>3 DEF ClientRead, CloseConn, ReadFails, DecodeFails, WriteFails, Return,
                  vars, client, server
    <2>2. wire' \in Seq(SentByte)
      BY <2>1 DEF IInv
    <2> QED
      BY <2>1, <2>2, BufferUntouched
  <1>4. ASSUME NEW n \in 1..ReadChunk, ReadIntoBuffer(n)
        PROVE  IInv'
    BY <1>4, ReadIInv
  <1>5. CASE FinishBatch
    BY <1>5, FinishIInv
  <1>6. ASSUME NEW add \in 0..1, HandleFrame(add)
        PROVE  IInv'
    BY <1>6, HandleIInv
  <1>7. CASE WriteResponse
    <2>1. /\ pc = "write" /\ FrameDone(Rest[1].frame)
          /\ UNCHANGED <<stream, wire, buf, bufferUsed>>
      BY <1>7 DEF WriteResponse
    <2> QED
      BY <2>1, FrameDoneIInv DEF IInv
  <1>8. CASE Terminated
    BY <1>3, <1>8 DEF Terminated
  <1> QED
    BY <1>1, <1>2, <1>3, <1>4, <1>5, <1>6, <1>7, <1>8 DEF Next, HandlerStep

(* The byte quota of conn_ctx.go and the read buffer of conn_handler.go    *)
(* agree in every run: whatever frames are sent, however reads split them  *)
(* and whatever the handlers answer, the buffer never grows past the quota *)
(* and, while the handler runs, bufferUsed is exactly its length.          *)
THEOREM BufferAccountingHolds == Spec => []BufferAccounting
  <1>1. Init => IInv
    BY InitIInv
  <1>2. IInv /\ [Next]_vars => IInv'
    BY NextIInv
  <1>3. IInv => BufferAccounting
    BY DEF IInv
  <1> QED
    BY <1>1, <1>2, <1>3, PTL DEF Spec

(***************************************************************************)
(* The decoder's place in the stream.  The operators and lemmas below      *)
(* speak of any frames str and bytes s, so that they apply to the state    *)
(* before a step and to the state after it.                                *)
(***************************************************************************)
Byte(str) == [frame : 1..Len(str), off : Nat]

(* The byte after b in the frames str. *)
Following(str, b) ==
    IF b.off = Size(str[b.frame])
      THEN [frame |-> b.frame + 1, off |-> 1]
      ELSE [frame |-> b.frame, off |-> b.off + 1]

(* Every byte lies inside its frame and is followed by the next one; the   *)
(* third conjunct says so of several bytes of one frame at once, which     *)
(* spares the proofs an induction over the length of a frame.              *)
Solid(str, s) ==
    /\ s \in Seq(Byte(str))
    /\ \A i \in 1..Len(s) : s[i].off \in 1..Size(str[s[i].frame])
    /\ \A i \in 1..Len(s) : \A j \in 0..Len(s) :
         i + j <= Len(s) /\ s[i].off + j <= Size(str[s[i].frame])
           => s[i + j] = [frame |-> s[i].frame, off |-> s[i].off + j]
    /\ \A i \in 1..(Len(s) - 1) : s[i + 1] = Following(str, s[i])

(* The bytes begin with the frame after the first a, and end with the last *)
(* byte of the last frame.                                                 *)
StartsAt(s, a) == s # <<>> => s[1] = [frame |-> a + 1, off |-> 1]

EndsWith(str, s, a) ==
    IF s = <<>> THEN a = Len(str)
                ELSE Following(str, s[Len(s)]) = [frame |-> Len(str) + 1, off |-> 1]

LEMMA FrameSize ==
  ASSUME NEW str \in Seq(Frames), NEW k \in 1..Len(str)
  PROVE  Size(str[k]) \in Nat /\ Size(str[k]) > 0 /\ Size(str[k]) >= HeaderLen
  <1>1. str[k] \in Frames
    BY ElementOfSeq
  <1> QED
    BY <1>1, HandlerAssumption DEF Size

(* Dropping the whole frame at the head moves the start to the next frame. *)
LEMMA SolidDrop ==
  ASSUME NEW str \in Seq(Frames), NEW s, NEW a \in Nat, Solid(str, s), StartsAt(s, a),
         s # <<>>, Size(str[s[1].frame]) <= Len(s)
  PROVE  LET n == Size(str[s[1].frame])
             r == SubSeq(s, n + 1, Len(s))
         IN  /\ Solid(str, r) /\ StartsAt(r, a + 1)
             /\ a + 1 \in 1..Len(str)
             /\ EndsWith(str, s, a) => EndsWith(str, r, a + 1)
  <1> DEFINE n == Size(str[s[1].frame])
             r == SubSeq(s, n + 1, Len(s))
             k == a + 1
  <1>1. s \in Seq(Byte(str)) /\ Len(s) \in Nat /\ Len(s) > 0
    BY LenProperties, EmptySeq DEF Solid
  <1>2. s[1] = [frame |-> k, off |-> 1]
    BY DEF StartsAt
  <1>3. s[1].frame = k /\ s[1].off = 1 /\ k \in 1..Len(str)
    <2>1. 1 \in 1..Len(s)
      BY <1>1
    <2>2. s[1] \in Byte(str)
      BY <1>1, <2>1, ElementOfSeq
    <2> QED BY <1>2, <2>2 DEF Byte
  <1>4. n \in Nat /\ n > 0 /\ n <= Len(s) /\ n = Size(str[k])
    BY <1>3, FrameSize
  <1> HIDE DEF n, k
  <1>5. \A i \in 1..n : s[i] = [frame |-> k, off |-> i]
    <2> TAKE i \in 1..n
    <2>1. i - 1 \in 0..Len(s) /\ 1 + (i - 1) = i /\ 1 \in 1..Len(s)
      BY <1>1, <1>4
    <2>2. /\ 1 + (i - 1) <= Len(s)
          /\ s[1].off + (i - 1) <= Size(str[s[1].frame])
          /\ s[1].off + (i - 1) = i
      BY <1>1, <1>3, <1>4
    <2>3. s[1 + (i - 1)] = [frame |-> s[1].frame, off |-> s[1].off + (i - 1)]
      BY <2>1, <2>2 DEF Solid
    <2> QED BY <2>1, <2>2, <2>3, <1>3
  <1>6. \A i \in (n + 1)..Len(s) : s[i] \in Byte(str)
    BY <1>1, <1>4, ElementOfSeq
  <1>7. r \in Seq(Byte(str)) /\ Len(r) = Len(s) - n /\ \A i \in 1..Len(r) : r[i] = s[n + i]
    <2>1. n + 1 \in Int /\ Len(s) \in Int
      BY <1>1, <1>4
    <2>2. /\ SubSeq(s, n + 1, Len(s)) \in Seq(Byte(str))
          /\ Len(SubSeq(s, n + 1, Len(s))) =
               IF n + 1 <= Len(s) THEN Len(s) - (n + 1) + 1 ELSE 0
          /\ \A i \in 1..(Len(s) - (n + 1) + 1) :
               SubSeq(s, n + 1, Len(s))[i] = s[n + 1 + i - 1]
      BY <1>6, <2>1, SubSeqProperties
    <2> QED BY <2>2, <1>1, <1>4
  <1> HIDE DEF r
  <1>8. Solid(str, r)
    <2>0. /\ n \in Nat /\ Len(s) \in Nat /\ Len(r) = Len(s) - n /\ n <= Len(s)
          /\ \A i \in 1..Len(r) : n + i \in 1..Len(s)
      <3>1. n \in Nat /\ Len(s) \in Nat /\ Len(r) = Len(s) - n /\ n <= Len(s)
        BY <1>1, <1>4, <1>7
      <3> QED BY <3>1
    <2>1. \A i \in 1..Len(r) : r[i].off \in 1..Size(str[r[i].frame])
      BY <2>0, <1>7 DEF Solid
    <2>2. ASSUME NEW i \in 1..Len(r), NEW j \in 0..Len(r), i + j <= Len(r),
                 r[i].off + j <= Size(str[r[i].frame])
          PROVE  r[i + j] = [frame |-> r[i].frame, off |-> r[i].off + j]
      <3>1. /\ n + i \in 1..Len(s) /\ j \in 0..Len(s) /\ n + i + j <= Len(s)
            /\ i + j \in 1..Len(r)
        BY <2>0, <2>2
      <3>2. r[i] = s[n + i] /\ r[i + j] = s[n + (i + j)]
        BY <1>7, <3>1
      <3>3. s[(n + i) + j] = [frame |-> s[n + i].frame, off |-> s[n + i].off + j]
        BY <2>2, <3>1, <3>2 DEF Solid
      <3>4. (n + i) + j = n + (i + j)
        BY <1>4, <1>7, <1>1
      <3> QED BY <3>2, <3>3, <3>4
    <2>3. ASSUME NEW i \in 1..(Len(r) - 1) PROVE r[i + 1] = Following(str, r[i])
      <3>1. n + i \in 1..(Len(s) - 1) /\ i \in 1..Len(r) /\ i + 1 \in 1..Len(r) /\ n + (i + 1) = (n + i) + 1
        BY <1>1, <1>4, <1>7
      <3> QED BY <3>1, <1>7 DEF Solid
    <2> QED BY <1>7, <2>1, <2>2, <2>3 DEF Solid
  <1>9. CASE n = Len(s)
    <2>1. r = <<>>
      BY <1>1, <1>7, <1>9, EmptySeq
    <2>2. s[Len(s)] = [frame |-> k, off |-> n]
      BY <1>4, <1>5, <1>9
    <2>3. Following(str, s[Len(s)]) = [frame |-> k + 1, off |-> 1]
      BY <2>2, <1>4 DEF Following
    <2>4. EndsWith(str, s, a) => k + 1 = Len(str) + 1
      BY <2>3, <1>1 DEF EndsWith
    <2>5. Len(str) \in Nat
      BY LenProperties
    <2>6. EndsWith(str, s, a) => EndsWith(str, r, k)
      BY <2>1, <2>4, <2>5, <1>3 DEF EndsWith
    <2> QED BY <1>8, <1>3, <2>1, <2>6 DEF StartsAt, k, r, n
  <1>10. CASE n < Len(s)
    <2>1. n \in 1..(Len(s) - 1) /\ 1 \in 1..Len(r) /\ Len(r) \in 1..Len(r) /\ r # <<>>
      BY <1>1, <1>4, <1>7, <1>10, EmptySeq
    <2>2. r[1] = s[n + 1] /\ r[Len(r)] = s[Len(s)]
      BY <1>1, <1>4, <1>7, <2>1
    <2>3. s[n + 1] = Following(str, s[n]) /\ s[n] = [frame |-> k, off |-> n]
      BY <2>1, <1>5, <1>4 DEF Solid
    <2>4. r[1] = [frame |-> k + 1, off |-> 1]
      BY <2>2, <2>3, <1>4 DEF Following
    <2>5. EndsWith(str, s, a) => EndsWith(str, r, k)
      BY <1>1, <2>1, <2>2 DEF EndsWith
    <2> QED BY <1>8, <1>3, <2>4, <2>5 DEF StartsAt, k, r, n
  <1> QED BY <1>4, <1>9, <1>10, <1>1

(* A prefix keeps the start and the order. *)
LEMMA SolidCut ==
  ASSUME NEW str \in Seq(Frames), NEW s, NEW a \in Nat, Solid(str, s), StartsAt(s, a),
         NEW n \in 0..Len(s)
  PROVE  Solid(str, SubSeq(s, 1, n)) /\ StartsAt(SubSeq(s, 1, n), a)
  <1> DEFINE r == SubSeq(s, 1, n)
  <1>1. s \in Seq(Byte(str)) /\ Len(s) \in Nat /\ n \in Nat /\ n <= Len(s)
    BY LenProperties DEF Solid
  <1>2. r \in Seq(Byte(str)) /\ Len(r) = n /\ \A i \in 1..n : r[i] = s[i]
    <2>1. \A i \in 1..n : s[i] \in Byte(str)
      BY <1>1, ElementOfSeq
    <2>2. /\ SubSeq(s, 1, n) \in Seq(Byte(str))
          /\ Len(SubSeq(s, 1, n)) = IF 1 <= n THEN n - 1 + 1 ELSE 0
          /\ \A i \in 1..(n - 1 + 1) : SubSeq(s, 1, n)[i] = s[1 + i - 1]
      BY <1>1, <2>1, SubSeqProperties
    <2> QED BY <1>1, <2>2
  <1> HIDE DEF r
  <1>3. Solid(str, r)
    <2>1. \A i \in 1..Len(r) : r[i].off \in 1..Size(str[r[i].frame])
      BY <1>1, <1>2 DEF Solid
    <2>2. ASSUME NEW i \in 1..Len(r), NEW j \in 0..Len(r), i + j <= Len(r),
                 r[i].off + j <= Size(str[r[i].frame])
          PROVE  r[i + j] = [frame |-> r[i].frame, off |-> r[i].off + j]
      <3>1. i \in 1..Len(s) /\ j \in 0..Len(s) /\ i + j <= Len(s) /\ i \in 1..n /\ i + j \in 1..n
        BY <1>1, <1>2, <2>2
      <3> QED BY <1>2, <2>2, <3>1 DEF Solid
    <2>3. ASSUME NEW i \in 1..(Len(r) - 1) PROVE r[i + 1] = Following(str, r[i])
      <3>1. i \in 1..(Len(s) - 1) /\ i \in 1..n /\ i + 1 \in 1..n
        BY <1>1, <1>2
      <3> QED BY <3>1, <1>2 DEF Solid
    <2> QED BY <1>2, <2>1, <2>2, <2>3 DEF Solid
  <1>4. r # <<>> => 1 \in 1..n /\ s # <<>>
    BY <1>1, <1>2, EmptySeq
  <1> QED BY <1>2, <1>3, <1>4 DEF StartsAt, r

(* Appending the bytes of a new frame to all that was sent so far. *)
LEMMA SolidSend ==
  ASSUME NEW str \in Seq(Frames), NEW s, NEW a \in Nat, NEW f \in Frames,
         Solid(str, s), StartsAt(s, a), EndsWith(str, s, a)
  PROVE  LET str2 == Append(str, f)
             s2 == s \o Bytes(f, Len(str) + 1)
         IN  Solid(str2, s2) /\ StartsAt(s2, a) /\ EndsWith(str2, s2, a)
  <1> DEFINE str2 == Append(str, f)
             k == Len(str) + 1
             s2 == s \o Bytes(f, k)
             L == Len(s)
             n == Size(f)
  <1>1. /\ str2 \in Seq(Frames) /\ Len(str2) = k /\ str2[k] = f
        /\ \A i \in 1..Len(str) : str2[i] = str[i]
        /\ Len(str) \in Nat /\ k \in 1..Len(str2)
    BY AppendProperties, LenProperties
  <1>2. n \in Nat /\ n > 0
    BY HandlerAssumption DEF Size
  <1>3. s \in Seq(Byte(str)) /\ L \in Nat
    BY LenProperties DEF Solid
  <1> HIDE DEF str2, n
  <1>4. Bytes(f, k) \in Seq(Byte(str2)) /\ Len(Bytes(f, k)) = n
        /\ \A i \in 1..n : Bytes(f, k)[i] = [frame |-> k, off |-> i]
    <2>1. Bytes(f, k) = [i \in 1..n |-> [frame |-> k, off |-> i]]
      BY DEF Bytes, n
    <2>2. Bytes(f, k) \in [1..n -> Byte(str2)]
      BY <1>1, <1>2, <2>1 DEF Byte
    <2>3. Bytes(f, k) \in Seq(Byte(str2))
      BY <1>2, <2>2, SeqDef
    <2>4. DOMAIN Bytes(f, k) = 1..n /\ DOMAIN Bytes(f, k) = 1..Len(Bytes(f, k)) /\ Len(Bytes(f, k)) \in Nat
      BY <2>1, <2>3, LenProperties
    <2>5. Len(Bytes(f, k)) = n
      BY <2>4, <1>2
    <2> QED BY <2>1, <2>3, <2>5
  <1>5. s \in Seq(Byte(str2))
    <2>1. Byte(str) \subseteq Byte(str2)
      BY <1>1 DEF Byte
    <2> QED BY <1>3, <2>1, SeqMonotonic
  <1>6. /\ s2 \in Seq(Byte(str2)) /\ Len(s2) = L + n
        /\ \A i \in 1..L : s2[i] = s[i]
        /\ \A i \in 1..n : s2[L + i] = [frame |-> k, off |-> i]
    <2>1. /\ s2 \in Seq(Byte(str2)) /\ Len(s2) = L + n
          /\ \A i \in 1..(L + n) : s2[i] = IF i <= L THEN s[i] ELSE Bytes(f, k)[i - L]
      BY <1>4, <1>5, ConcatProperties
    <2>2. ASSUME NEW i \in 1..n PROVE s2[L + i] = [frame |-> k, off |-> i]
      <3>1. L + i \in 1..(L + n) /\ ~(L + i <= L) /\ (L + i) - L = i
        BY <1>2, <1>3
      <3> QED BY <1>4, <2>1, <3>1
    <2>3. ASSUME NEW i \in 1..L PROVE s2[i] = s[i]
      <3>1. i \in 1..(L + n) /\ i <= L
        BY <1>2, <1>3
      <3> QED BY <2>1, <3>1
    <2> QED BY <2>1, <2>2, <2>3
  <1> HIDE DEF s2, k, L
  <1>k. k = Len(str) + 1 /\ L = Len(s)
    BY DEF k, L
  <1>7. \A i \in 1..L : /\ s[i] \in Byte(str) /\ s[i].frame \in 1..Len(str)
                        /\ str2[s[i].frame] = str[s[i].frame]
                        /\ s[i].off \in Nat /\ s[i].off > 0
                        /\ s[i] = [frame |-> s[i].frame, off |-> s[i].off]
                        /\ Size(str[s[i].frame]) \in Nat
    <2> TAKE i \in 1..L
    <2>1. s[i] \in Byte(str)
      BY <1>3, <1>k, ElementOfSeq
    <2>2. s[i].frame \in 1..Len(str) /\ s[i] = [frame |-> s[i].frame, off |-> s[i].off]
      BY <2>1 DEF Byte
    <2>3. Size(str[s[i].frame]) \in Nat
      BY <2>2, FrameSize
    <2>4. s[i].off \in 1..Size(str[s[i].frame])
      BY <1>k DEF Solid
    <2> QED BY <1>1, <2>1, <2>2, <2>3, <2>4
  <1>8. L > 0 => s # <<>> /\ Following(str, s[L]) = [frame |-> k, off |-> 1]
    BY <1>k, EmptySeq DEF EndsWith
  <1>9. \A i \in 1..L : \A j \in Nat :
          i + j > L => ~(s[i].off + j <= Size(str[s[i].frame]))
    <2> SUFFICES ASSUME NEW i \in 1..L, NEW j \in Nat, i + j > L,
                        s[i].off + j <= Size(str[s[i].frame])
                 PROVE  FALSE
      OBVIOUS
    <2> DEFINE m == L - i
    <2>1. m \in 0..L /\ m \in Nat /\ i + m = L /\ m < j /\ L > 0 /\ i + m <= L
      BY <1>3
    <2> HIDE DEF m
    <2>2. s[i].off \in Nat /\ s[i].off > 0 /\ Size(str[s[i].frame]) \in Nat
      BY <1>7
    <2>3. s[i].off + m <= Size(str[s[i].frame]) /\ s[i].off + m # Size(str[s[i].frame])
      <3>1. \A o, z \in Nat : o + j <= z => o + m <= z /\ o + m # z
        BY <2>1
      <3> QED BY <2>2, <3>1
    <2>4. s[L] = [frame |-> s[i].frame, off |-> s[i].off + m]
      BY <2>1, <2>3, <1>k DEF Solid
    <2>5. Following(str, s[L]) = [frame |-> s[i].frame, off |-> s[i].off + m + 1]
      BY <2>3, <2>4 DEF Following
    <2>6. s[i].off + m + 1 = 1
      BY <2>1, <2>5, <1>8
    <2> QED BY <2>1, <2>2, <2>6
  <1>10. \A i \in 1..(L + n) : i \in 1..L \/ \E e \in 1..n : i = L + e
    <2> TAKE i \in 1..(L + n)
    <2>1. CASE i <= L
      BY <2>1, <1>2, <1>3
    <2>2. CASE ~(i <= L)
      <3>1. i - L \in 1..n /\ i = L + (i - L)
        BY <2>2, <1>2, <1>3
      <3> QED BY <3>1
    <2> QED BY <2>1, <2>2
  <1>11. ASSUME NEW i \in 1..Len(s2) PROVE s2[i].off \in 1..Size(str2[s2[i].frame])
    <2>1. CASE i \in 1..L
      BY <2>1, <1>6, <1>7, <1>k DEF Solid
    <2>2. ASSUME NEW e \in 1..n, i = L + e PROVE s2[i].off \in 1..Size(str2[s2[i].frame])
      <3>0. s2[i] = [frame |-> k, off |-> e]
        BY <1>6, <2>2
      <3>1. s2[i].off = e /\ s2[i].frame = k
        BY <3>0
      <3> QED BY <3>1, <1>1 DEF n
    <2> QED BY <1>6, <1>10, <2>1, <2>2
  <1>12. ASSUME NEW i \in 1..Len(s2), NEW j \in 0..Len(s2), i + j <= Len(s2),
                s2[i].off + j <= Size(str2[s2[i].frame])
         PROVE  s2[i + j] = [frame |-> s2[i].frame, off |-> s2[i].off + j]
    <2>0. j \in Nat /\ i + j <= L + n
      BY <1>2, <1>3, <1>6, <1>12
    <2>1. CASE i \in 1..L
      <3>1. s2[i] = s[i] /\ s[i].off + j <= Size(str[s[i].frame])
        BY <2>1, <1>6, <1>7, <1>12
      <3>2. ~(i + j > L)
        BY <2>0, <2>1, <3>1, <1>9
      <3>3. i + j \in 1..L /\ j \in 0..L /\ i + j <= L
        BY <2>0, <2>1, <3>2, <1>3
      <3>4. s[i + j] = [frame |-> s[i].frame, off |-> s[i].off + j]
        BY <2>1, <3>1, <3>3, <1>k DEF Solid
      <3> QED BY <3>1, <3>3, <3>4, <1>6
    <2>2. ASSUME NEW e \in 1..n, i = L + e
          PROVE  s2[i + j] = [frame |-> s2[i].frame, off |-> s2[i].off + j]
      <3>1. s2[i] = [frame |-> k, off |-> e]
        BY <1>6, <2>2
      <3>2. e + j \in 1..n /\ i + j = L + (e + j)
        BY <2>0, <2>2, <1>2, <1>3
      <3> QED BY <3>1, <3>2, <1>6
    <2> QED BY <1>6, <1>10, <2>1, <2>2
  <1>13. ASSUME NEW i \in 1..(Len(s2) - 1) PROVE s2[i + 1] = Following(str2, s2[i])
    <2>0. i \in 1..(L + n) /\ i < L + n
      BY <1>2, <1>3, <1>6
    <2>1. CASE i \in 1..L /\ i < L
      <3>1. i \in 1..(L - 1) /\ i + 1 \in 1..L
        BY <2>1, <1>3
      <3>2. s[i + 1] = Following(str, s[i])
        BY <3>1, <1>k DEF Solid
      <3> QED BY <2>1, <3>1, <3>2, <1>6, <1>7 DEF Following
    <2>2. CASE i \in 1..L /\ i = L
      <3>0. 1 \in 1..n /\ L > 0
        BY <1>2, <1>3, <2>2
      <3>1. s2[L + 1] = [frame |-> k, off |-> 1]
        BY <1>6, <3>0
      <3>2. s2[i] = s[L]
        BY <1>6, <2>2
      <3> QED BY <2>2, <3>0, <3>1, <3>2, <1>7, <1>8 DEF Following
    <2>3. ASSUME NEW e \in 1..n, i = L + e PROVE s2[i + 1] = Following(str2, s2[i])
      <3>1. e + 1 \in 1..n /\ i + 1 = L + (e + 1) /\ e # n
        BY <2>0, <2>3, <1>2, <1>3
      <3>2. s2[i] = [frame |-> k, off |-> e] /\ s2[i + 1] = [frame |-> k, off |-> e + 1]
        BY <1>6, <2>3, <3>1
      <3> QED BY <1>1, <3>1, <3>2 DEF Following, n
    <2> QED BY <1>10, <2>0, <2>1, <2>2, <2>3, <1>3
  <1>14. Solid(str2, s2)
    BY <1>6, <1>11, <1>12, <1>13 DEF Solid
  <1>15. s2 # <<>> /\ Len(s2) \in Nat /\ Len(s2) = L + n
    BY <1>2, <1>3, <1>6, EmptySeq
  <1>16. EndsWith(str2, s2, a)
    <2>1. s2[Len(s2)] = [frame |-> k, off |-> n]
      BY <1>2, <1>6, <1>15
    <2> QED BY <2>1, <1>1, <1>15 DEF EndsWith, Following, n
  <1>17. StartsAt(s2, a)
    <2>1. CASE L = 0
      <3>1. s = <<>>
        BY <2>1, <1>3, <1>k, EmptySeq
      <3>2. a = Len(str)
        BY <3>1 DEF EndsWith
      <3>3. s2[L + 1] = [frame |-> k, off |-> 1]
        BY <1>2, <1>6
      <3> QED BY <2>1, <3>2, <3>3, <1>k DEF StartsAt
    <2>2. CASE L # 0
      <3>1. 1 \in 1..L /\ s # <<>>
        BY <2>2, <1>3, <1>8
      <3> QED BY <3>1, <1>6 DEF StartsAt
    <2> QED BY <2>1, <2>2
  <1> QED BY <1>14, <1>16, <1>17 DEF str2, s2, k

(* The bytes that are not decoded yet: those of the buffer b after the     *)
(* first c, and those on the wire w.                                       *)
Undecoded(b, c, w) == SubSeq(b, c + 1, Len(b)) \o w

Pending == Undecoded(buf, consumed, wire)

(* The inductive form of InSync. *)
SyncInv ==
    Alive => /\ Solid(stream, Pending)
             /\ StartsAt(Pending, answered)
             /\ ~eof => EndsWith(stream, Pending, answered)
             /\ answered \in 0..Len(stream)

(* A sequence is its first c elements followed by the others. *)
LEMMA CutAt ==
  ASSUME NEW S, NEW s \in Seq(S), NEW c \in 0..Len(s)
  PROVE  /\ SubSeq(s, 1, c) \in Seq(S) /\ Len(SubSeq(s, 1, c)) = c
         /\ SubSeq(s, c + 1, Len(s)) \in Seq(S) /\ Len(SubSeq(s, c + 1, Len(s))) = Len(s) - c
         /\ SubSeq(s, 1, c) \o SubSeq(s, c + 1, Len(s)) = s
  <1>1. Len(s) \in Nat /\ c \in Nat /\ c <= Len(s)
    BY LenProperties
  <1>2. SubSeq(s, 1, c) \in Seq(S) /\ SubSeq(s, c + 1, Len(s)) \in Seq(S)
    BY WireParts
  <1>3. Len(SubSeq(s, 1, c)) = c
    BY WireParts
  <1>4. SubSeq(s, 1, c) \o SubSeq(s, c + 1, Len(s)) = s
    <2>1. 1 \in 1..(Len(s) + 1) /\ c \in (1 - 1)..Len(s) /\ Len(s) \in c..Len(s)
      BY <1>1
    <2>2. SubSeq(s, 1, c) \o SubSeq(s, c + 1, Len(s)) = SubSeq(s, 1, Len(s))
      BY <2>1, ConcatAdjacentSubSeq
    <2> QED BY <2>2, SubSeqFull
  <1>5. Len(s) = Len(SubSeq(s, 1, c)) + Len(SubSeq(s, c + 1, Len(s)))
    BY <1>2, <1>4, ConcatProperties
  <1>6. Len(SubSeq(s, c + 1, Len(s))) \in Nat
    BY <1>2, LenProperties
  <1>7. Len(SubSeq(s, c + 1, Len(s))) = Len(s) - c
    BY <1>1, <1>3, <1>5, <1>6
  <1> QED BY <1>2, <1>3, <1>4, <1>7

(* The first elements of a concatenation are those of its first part. *)
LEMMA FirstOfConcat ==
  ASSUME NEW S, NEW s \in Seq(S), NEW t \in Seq(S), NEW c \in 0..Len(s)
  PROVE  SubSeq(s \o t, 1, c) = SubSeq(s, 1, c)
  <1>1. Len(s) \in Nat /\ c \in Nat /\ c <= Len(s)
    BY LenProperties
  <1>2. CASE c = 0
    BY <1>2, SubSeqEmpty
  <1>3. CASE c # 0
    <2>1. 1 \in 1..Len(s) /\ c \in 1..Len(s)
      BY <1>1, <1>3
    <2> QED BY <2>1, SubSeqOfConcat1
  <1> QED BY <1>2, <1>3

(* What is pending is what buffer and wire hold together, without the      *)
(* first c bytes.                                                          *)
LEMMA UndecodedIsRest ==
  ASSUME NEW S, NEW b \in Seq(S), NEW w \in Seq(S), NEW c \in 0..Len(b)
  PROVE  /\ Undecoded(b, c, w) \in Seq(S)
         /\ Len(Undecoded(b, c, w)) = Len(b) - c + Len(w)
         /\ b \o w \in Seq(S) /\ c \in 0..Len(b \o w)
         /\ Undecoded(b, c, w) = SubSeq(b \o w, c + 1, Len(b \o w))
  <1> DEFINE f == SubSeq(b, 1, c)
             h == SubSeq(b, c + 1, Len(b))
             g == SubSeq(b \o w, c + 1, Len(b \o w))
  <1>1. f \in Seq(S) /\ h \in Seq(S) /\ Len(h) = Len(b) - c /\ f \o h = b
    BY CutAt
  <1>2. b \o w \in Seq(S) /\ Len(b \o w) = Len(b) + Len(w)
    BY ConcatProperties
  <1>3. c \in 0..Len(b \o w)
    BY <1>2, LenProperties
  <1>4. SubSeq(b \o w, 1, c) = f
    BY FirstOfConcat
  <1>5. g \in Seq(S) /\ f \o g = b \o w
    BY <1>2, <1>3, <1>4, CutAt
  <1> HIDE DEF f, g, h
  <1>6. h \o w \in Seq(S) /\ Len(h \o w) = Len(h) + Len(w)
    BY <1>1, ConcatProperties
  <1>7. f \o (h \o w) = b \o w
    <2>0. f \in Seq(S) /\ h \in Seq(S)
      BY <1>1
    <2>1. (f \o h) \o w = f \o (h \o w)
      BY <2>0, ConcatAssociative
    <2> QED BY <1>1, <2>1
  <1>8. h \o w = g
    <2>1. f \o (h \o w) = f \o g
      BY <1>5, <1>7
    <2> QED BY <1>1, <1>5, <1>6, <2>1, ConcatSimplifications
  <1> QED BY <1>1, <1>2, <1>3, <1>6, <1>8 DEF Undecoded, h, g

(* A read moves bytes from the wire to the buffer. *)
LEMMA ReadMoves ==
  ASSUME NEW S, NEW b \in Seq(S), NEW w \in Seq(S), NEW c \in 0..Len(b), NEW n \in 0..Len(w)
  PROVE  Undecoded(b \o SubSeq(w, 1, n), c, SubSeq(w, n + 1, Len(w))) = Undecoded(b, c, w)
  <1> DEFINE w1 == SubSeq(w, 1, n)
             w2 == SubSeq(w, n + 1, Len(w))
  <1>1. w1 \in Seq(S) /\ w2 \in Seq(S) /\ w1 \o w2 = w
    BY CutAt
  <1> HIDE DEF w1, w2
  <1>2. b \o w1 \in Seq(S) /\ Len(b \o w1) = Len(b) + Len(w1)
    BY <1>1, ConcatProperties
  <1>3. c \in 0..Len(b \o w1)
    BY <1>1, <1>2, LenProperties
  <1>4. (b \o w1) \o w2 = b \o w
    <2>0. w1 \in Seq(S) /\ w2 \in Seq(S)
      BY <1>1
    <2>a. ASSUME NEW y \in Seq(S), NEW z \in Seq(S) PROVE (b \o y) \o z = b \o (y \o z)
      OBVIOUS
    <2>1. (b \o w1) \o w2 = b \o (w1 \o w2)
      BY <2>0, <2>a
    <2> QED BY <1>1, <2>1
  <1> DEFINE v == b \o w1
  <1> HIDE DEF v
  <1>5. Undecoded(v, c, w2) = SubSeq(v \o w2, c + 1, Len(v \o w2))
    <2>1. v \in Seq(S) /\ c \in 0..Len(v)
      BY <1>2, <1>3 DEF v
    <2>2. w2 \in Seq(S)
      BY <1>1
    <2>3. \A x, y \in Seq(S) : c \in 0..Len(x) =>
             Undecoded(x, c, y) = SubSeq(x \o y, c + 1, Len(x \o y))
      BY UndecodedIsRest
    <2> QED BY <2>1, <2>2, <2>3
  <1>6. Undecoded(b, c, w) = SubSeq(b \o w, c + 1, Len(b \o w))
    BY UndecodedIsRest
  <1> QED BY <1>4, <1>5, <1>6 DEF v, w1, w2

(* Cutting the wire short cuts what is pending short. *)
LEMMA WireCut ==
  ASSUME NEW S, NEW b \in Seq(S), NEW w \in Seq(S), NEW c \in 0..Len(b), NEW n \in 0..Len(w)
  PROVE  \E m \in 0..Len(Undecoded(b, c, w)) :
            Undecoded(b, c, SubSeq(w, 1, n)) = SubSeq(Undecoded(b, c, w), 1, m)
  <1> DEFINE w1 == SubSeq(w, 1, n)
             w2 == SubSeq(w, n + 1, Len(w))
             h == SubSeq(b, c + 1, Len(b))
             x == h \o w1
  <1>1. w1 \in Seq(S) /\ w2 \in Seq(S) /\ w1 \o w2 = w
    BY CutAt
  <1>2. h \in Seq(S)
    BY CutAt
  <1> HIDE DEF w1, w2, h
  <1>3. x \in Seq(S)
    BY <1>1, <1>2, ConcatProperties
  <1>4. x \o w2 = h \o w
    <2>0. w1 \in Seq(S) /\ w2 \in Seq(S)
      BY <1>1
    <2>a. \A u, v, y \in Seq(S) : (u \o v) \o y = u \o (v \o y)
      OBVIOUS
    <2>1. (h \o w1) \o w2 = h \o (w1 \o w2)
      BY <1>2, <2>0, <2>a
    <2> QED BY <1>1, <2>1 DEF x
  <1> HIDE DEF x
  <1>5. Len(x) \in Nat /\ Len(w2) \in Nat /\ Len(x \o w2) = Len(x) + Len(w2)
    BY <1>1, <1>3, LenProperties, ConcatProperties
  <1>6. Len(x) \in 0..Len(x) /\ Len(x) \in 0..Len(x \o w2)
    BY <1>5
  <1>7. SubSeq(x \o w2, 1, Len(x)) = x
    <2>1. SubSeq(x \o w2, 1, Len(x)) = SubSeq(x, 1, Len(x))
      BY <1>1, <1>3, <1>6, FirstOfConcat
    <2> QED BY <1>3, <2>1, SubSeqFull
  <1> QED BY <1>4, <1>6, <1>7 DEF Undecoded, x, h, w1

(* Finishing a frame drops its bytes, compacting nothing. *)
LEMMA FrameLeaves ==
  ASSUME NEW S, NEW b \in Seq(S), NEW w \in Seq(S), NEW c \in 0..Len(b), NEW n \in 0..(Len(b) - c)
  PROVE  Undecoded(b, c + n, w) = SubSeq(Undecoded(b, c, w), n + 1, Len(Undecoded(b, c, w)))
  <1> DEFINE s == b \o w
  <1>1. Len(w) \in Nat /\ n \in Nat /\ Len(b) \in Nat /\ c \in Nat /\ c + n \in 0..Len(b)
    BY LenProperties
  <1>2. s \in Seq(S) /\ Len(s) = Len(b) + Len(w)
    BY ConcatProperties
  <1>3. /\ Undecoded(b, c, w) = SubSeq(s, c + 1, Len(s))
        /\ Len(Undecoded(b, c, w)) = Len(b) - c + Len(w)
        /\ Undecoded(b, c, w) \in Seq(S)
    BY UndecodedIsRest
  <1>4. Undecoded(b, c + n, w) = SubSeq(s, c + n + 1, Len(s))
    BY <1>1, UndecodedIsRest
  <1> HIDE DEF s
  <1>5. CASE c + n = Len(s)
    <2>1. /\ Len(s) \in Int /\ c + n + 1 \in Int /\ Len(s) < c + n + 1
          /\ n + 1 \in Int /\ Len(Undecoded(b, c, w)) \in Int /\ Len(Undecoded(b, c, w)) < n + 1
      BY <1>1, <1>2, <1>3, <1>5
    <2>2. SubSeq(s, c + n + 1, Len(s)) = <<>>
      BY <2>1, SubSeqEmpty
    <2>3. SubSeq(Undecoded(b, c, w), n + 1, Len(Undecoded(b, c, w))) = <<>>
      BY <2>1, SubSeqEmpty
    <2> QED BY <1>4, <2>2, <2>3
  <1>6. CASE c + n # Len(s)
    <2> DEFINE l == Len(s) - c
    <2>1. /\ c + 1 \in 1..Len(s) /\ Len(s) \in 1..Len(s)
          /\ n + 1 \in 1..(Len(s) - (c + 1) + 1) /\ l \in 1..(Len(s) - (c + 1) + 1)
          /\ l = Len(Undecoded(b, c, w))
          /\ (c + 1) + (n + 1) - 1 = c + n + 1 /\ (c + 1) + l - 1 = Len(s)
      BY <1>1, <1>2, <1>3, <1>6
    <2> HIDE DEF l
    <2>2. SubSeq(SubSeq(s, c + 1, Len(s)), n + 1, l)
            = SubSeq(s, (c + 1) + (n + 1) - 1, (c + 1) + l - 1)
      BY <1>2, <2>1, SubSeqOfSubSeq
    <2> QED BY <1>3, <1>4, <2>1, <2>2
  <1> QED BY <1>5, <1>6

(* Pending is what InSync speaks of. *)
LEMMA PendingFacts ==
  ASSUME IInv
  PROVE  /\ Pending = Rest \o wire
         /\ Pending \in Seq(SentByte) /\ Len(Pending) \in Nat
         /\ Len(Pending) = Len(Rest) + Len(wire)
         /\ Len(Rest) > 0 => Pending # <<>> /\ Pending[1] = Rest[1]
  <1>1. Rest \in Seq(SentByte) /\ wire \in Seq(SentByte)
    BY RestFacts DEF IInv
  <1>2. Pending = Rest \o wire
    BY DEF Pending, Undecoded, Rest
  <1>3. Len(Rest) \in Nat /\ Len(wire) \in Nat
    BY <1>1, LenProperties
  <1>4. /\ Rest \o wire \in Seq(SentByte) /\ Len(Rest \o wire) = Len(Rest) + Len(wire)
        /\ \A i \in 1..(Len(Rest) + Len(wire)) :
             (Rest \o wire)[i] = IF i <= Len(Rest) THEN Rest[i] ELSE wire[i - Len(Rest)]
    BY <1>1, ConcatProperties
  <1>5. Len(Rest) > 0 => 1 \in 1..(Len(Rest) + Len(wire)) /\ 1 <= Len(Rest)
    BY <1>3
  <1>6. Len(Rest) > 0 => Pending # <<>>
    BY <1>2, <1>3, <1>4, EmptySeq
  <1> QED BY <1>2, <1>3, <1>4, <1>5, <1>6

LEMMA InitSync == Init => SyncInv
  <1> SUFFICES ASSUME Init PROVE SyncInv
    OBVIOUS
  <1>1. /\ stream = <<>> /\ wire = <<>> /\ buf = <<>> /\ consumed = 0 /\ answered = 0
    BY DEF Init
  <1>2. stream \in Seq(Frames) /\ Len(stream) = 0
    BY <1>1, EmptySeq
  <1>3. Pending = <<>>
    <2>1. <<>> \in Seq(SentByte)
      BY EmptySeq
    <2>2. Len(<<>>) = 0
      BY EmptySeq
    <2>3. SubSeq(<<>>, 1, 0) = <<>>
      BY SubSeqEmpty
    <2>4. <<>> \o <<>> = <<>>
      BY <2>1, ConcatEmptySeq
    <2> QED BY <1>1, <2>2, <2>3, <2>4 DEF Pending, Undecoded
  <1>4. Solid(stream, <<>>)
    BY EmptySeq DEF Solid
  <1> QED BY <1>1, <1>2, <1>3, <1>4 DEF SyncInv, StartsAt, EndsWith

LEMMA SyncKept ==
  ASSUME SyncInv, Pending' = Pending, UNCHANGED <<stream, eof, answered>>, Alive' => Alive
  PROVE  SyncInv'
  BY DEF SyncInv

LEMMA ReadSync ==
  ASSUME IInv, SyncInv, NEW n \in 1..ReadChunk, ReadIntoBuffer(n)
  PROVE  SyncInv'
  <1>1. /\ pc = "read" /\ n <= Len(wire)
        /\ wire' = SubSeq(wire, n + 1, Len(wire))
        /\ UNCHANGED <<stream, consumed, eof, answered>>
    BY DEF ReadIntoBuffer, history
  <1>2. CASE pc' = "decode"
    <2>1. buf' = buf \o SubSeq(wire, 1, n)
      BY <1>2 DEF ReadIntoBuffer, Return
    <2>2. n \in 0..Len(wire)
      BY <1>1, HandlerAssumption, LenProperties DEF IInv
    <2>3. Undecoded(buf \o SubSeq(wire, 1, n), consumed, SubSeq(wire, n + 1, Len(wire)))
            = Undecoded(buf, consumed, wire)
      BY <2>2, ReadMoves DEF IInv
    <2>4. Pending' = Pending
      BY <1>1, <2>1, <2>3 DEF Pending
    <2> QED BY <1>1, <2>4, SyncKept DEF Alive
  <1>3. CASE pc' = "returned"
    BY <1>3 DEF SyncInv, Alive
  <1> QED BY <1>2, <1>3 DEF ReadIntoBuffer, Return

LEMMA FinishSync ==
  ASSUME IInv, SyncInv, FinishBatch
  PROVE  SyncInv'
  <1>1. /\ pc = "decode" /\ buf' = Rest /\ consumed' = 0
        /\ UNCHANGED <<stream, wire, eof, answered>>
    BY DEF FinishBatch, Compact, client, history
  <1>2. Rest \in Seq(SentByte)
    BY RestFacts DEF IInv
  <1>3. SubSeq(Rest, 1, Len(Rest)) = Rest
    BY <1>2, SubSeqFull
  <1>4. Pending' = Rest \o wire
    <2>1. Pending' = SubSeq(Rest, 0 + 1, Len(Rest)) \o wire
      BY <1>1 DEF Pending, Undecoded
    <2>2. 0 + 1 = 1
      OBVIOUS
    <2> QED BY <1>3, <2>1, <2>2
  <1> QED BY <1>1, <1>4, PendingFacts, SyncKept DEF Alive

(* A finished frame leaves the pending bytes as a whole. *)
LEMMA FrameDoneSync ==
  ASSUME IInv, SyncInv, HeadWhole, FrameDone(Rest[1].frame), pc \in {"decode", "write"},
         UNCHANGED <<stream, wire, buf, eof>>
  PROVE  /\ SyncInv'
         /\ Rest[1].frame = answered + 1 /\ answered + 1 \in 1..Len(stream)
  <1> DEFINE n == Size(stream[Rest[1].frame])
  <1>1. /\ consumed' = consumed + n /\ answered' = answered + 1 /\ pc' = "decode"
    BY DEF FrameDone
  <1>2. Pending # <<>> /\ Pending[1] = Rest[1] /\ Len(Pending) = Len(Rest) + Len(wire)
    BY PendingFacts DEF HeadWhole
  <1>3. n \in Nat /\ n <= Len(Rest) /\ Len(Rest) = Len(buf) - consumed
    BY HeadSent, RestFacts DEF HeadWhole, IInv
  <1>4. Len(wire) \in Nat /\ Len(Rest) \in Nat
    BY RestFacts, LenProperties DEF IInv
  <1>5. /\ Solid(stream, Pending) /\ StartsAt(Pending, answered)
        /\ ~eof => EndsWith(stream, Pending, answered)
        /\ answered \in Nat /\ stream \in Seq(Frames) /\ Len(stream) \in Nat
    BY LenProperties DEF SyncInv, Alive, IInv
  <1>6. Size(stream[Pending[1].frame]) <= Len(Pending)
    BY <1>2, <1>3, <1>4
  <1>7. LET r == SubSeq(Pending, n + 1, Len(Pending))
        IN  /\ Solid(stream, r) /\ StartsAt(r, answered + 1)
            /\ answered + 1 \in 1..Len(stream)
            /\ EndsWith(stream, Pending, answered) => EndsWith(stream, r, answered + 1)
    BY <1>2, <1>5, <1>6, SolidDrop
  <1>8. Pending' = SubSeq(Pending, n + 1, Len(Pending))
    <2>1. n \in 0..(Len(buf) - consumed)
      BY <1>3, <1>4
    <2> HIDE DEF n
    <2>2. Undecoded(buf, consumed + n, wire)
            = SubSeq(Undecoded(buf, consumed, wire), n + 1, Len(Undecoded(buf, consumed, wire)))
      BY <2>1, FrameLeaves DEF IInv
    <2> QED BY <1>1, <2>2 DEF Pending
  <1>9. Rest[1].frame = answered + 1
    BY <1>2, <1>5 DEF StartsAt
  <1> HIDE DEF n
  <1>10. answered + 1 \in 0..Len(stream)
    BY <1>5, <1>7
  <1> QED BY <1>1, <1>5, <1>7, <1>8, <1>9, <1>10 DEF SyncInv

LEMMA SendSync ==
  ASSUME IInv, SyncInv, NEW f \in Frames, ClientSend(f)
  PROVE  SyncInv'
  <1>1. /\ Alive /\ ~eof /\ stream' = Append(stream, f)
        /\ wire' = wire \o Bytes(f, Len(stream) + 1)
        /\ UNCHANGED <<eof, buf, consumed, answered, pc>>
    BY DEF ClientSend, server, history
  <1>2. /\ Solid(stream, Pending) /\ StartsAt(Pending, answered)
        /\ EndsWith(stream, Pending, answered)
        /\ answered \in 0..Len(stream)
        /\ answered \in Nat /\ stream \in Seq(Frames) /\ Len(stream) \in Nat
    BY <1>1, LenProperties DEF SyncInv, IInv
  <1>3. LET str2 == Append(stream, f)
            s2 == Pending \o Bytes(f, Len(stream) + 1)
        IN  Solid(str2, s2) /\ StartsAt(s2, answered) /\ EndsWith(str2, s2, answered)
    BY <1>2, SolidSend
  <1>4. Pending' = Pending \o Bytes(f, Len(stream) + 1)
    <2> DEFINE B == [frame : Nat, off : Nat]
    <2>1. /\ Rest \in Seq(B) /\ wire \in Seq(B)
          /\ Bytes(f, Len(stream) + 1) \in Seq(B)
      <3>1. SentByte \subseteq B
        BY <1>2 DEF SentByte
      <3>2. Rest \in Seq(SentByte) /\ wire \in Seq(SentByte)
        BY RestFacts DEF IInv
      <3>3. Size(f) \in Nat
        BY HandlerAssumption DEF Size
      <3>4. Bytes(f, Len(stream) + 1) \in [1..Size(f) -> B]
        BY <1>2, <3>3 DEF Bytes
      <3>5. Bytes(f, Len(stream) + 1) \in Seq(B)
        BY <3>3, <3>4, SeqDef
      <3> QED BY <3>1, <3>2, <3>5, SeqMonotonic
    <2> HIDE DEF B
    <2> DEFINE g == Bytes(f, Len(stream) + 1)
    <2>2. ASSUME NEW x \in Seq(B), NEW y \in Seq(B), NEW z \in Seq(B)
          PROVE  (x \o y) \o z = x \o (y \o z)
      OBVIOUS
    <2>3. (Rest \o wire) \o g = Rest \o (wire \o g)
      <3>1. g \in Seq(B) /\ Rest \in Seq(B) /\ wire \in Seq(B)
        BY <2>1
      <3> HIDE DEF g
      <3> QED BY <3>1, <2>2
    <2>4. Pending' = Rest \o (wire \o Bytes(f, Len(stream) + 1))
      BY <1>1 DEF Pending, Undecoded, Rest
    <2> QED BY <2>3, <2>4, PendingFacts
  <1>5. answered \in 0..Len(stream')
    BY <1>1, <1>2, AppendProperties
  <1> QED BY <1>1, <1>3, <1>4, <1>5 DEF SyncInv

LEMMA CloseSync ==
  ASSUME IInv, SyncInv, ClientClose
  PROVE  SyncInv'
  <1>1. /\ Alive /\ eof' = TRUE
        /\ UNCHANGED <<stream, buf, consumed, answered, pc>>
    BY DEF ClientClose, server, history
  <1>2. PICK n \in 0..Len(wire) : wire' = SubSeq(wire, 1, n)
    BY DEF ClientClose
  <1>3. \E m \in 0..Len(Undecoded(buf, consumed, wire)) :
           Undecoded(buf, consumed, SubSeq(wire, 1, n))
             = SubSeq(Undecoded(buf, consumed, wire), 1, m)
    BY WireCut DEF IInv
  <1>4. PICK m \in 0..Len(Pending) : Pending' = SubSeq(Pending, 1, m)
    BY <1>1, <1>2, <1>3 DEF Pending
  <1>5. /\ Solid(stream, Pending) /\ StartsAt(Pending, answered)
        /\ answered \in 0..Len(stream)
        /\ answered \in Nat /\ stream \in Seq(Frames)
    BY <1>1, LenProperties DEF SyncInv, IInv
  <1>6. Solid(stream, SubSeq(Pending, 1, m)) /\ StartsAt(SubSeq(Pending, 1, m), answered)
    BY <1>5, SolidCut
  <1> QED BY <1>1, <1>4, <1>5, <1>6 DEF SyncInv

(* While the handler runs, the frame at the head of the undecoded bytes is *)
(* the first that is not finished.                                         *)
LEMMA HeadIsNext ==
  ASSUME IInv, SyncInv, Alive, Len(Rest) > 0
  PROVE  Rest[1].frame = answered + 1 /\ answered + 1 \in 1..Len(stream)
  <1>1. Pending # <<>> /\ Pending[1] = Rest[1]
    BY PendingFacts
  <1>2. Rest[1].frame = answered + 1
    BY <1>1 DEF SyncInv, StartsAt
  <1> QED BY <1>2, HeadSent

LEMMA HandleSync ==
  ASSUME IInv, SyncInv, NEW add \in 0..1, HandleFrame(add)
  PROVE  SyncInv'
  <1>1. /\ pc = "decode" /\ Decode(Rest) = "frame"
        /\ UNCHANGED <<stream, wire, buf, bufferUsed, eof>>
    BY DEF HandleFrame, client
  <1>2. HeadWhole
    BY <1>1, DecodedWhole
  <1>3. \/ pc' = "returned" \/ pc' = "panicked"
        \/ FrameDone(Rest[1].frame)
        \/ pc' = "write" /\ UNCHANGED <<consumed, answered>>
    BY DEF HandleFrame, Serve, Return
  <1>4. CASE pc' = "returned" \/ pc' = "panicked"
    BY <1>4 DEF SyncInv, Alive
  <1>5. CASE FrameDone(Rest[1].frame)
    BY <1>1, <1>2, <1>5, FrameDoneSync
  <1>6. CASE pc' = "write" /\ UNCHANGED <<consumed, answered>>
    <2>1. Pending' = Pending
      BY <1>1, <1>6 DEF Pending
    <2> QED BY <1>1, <1>6, <2>1, SyncKept DEF Alive
  <1> QED BY <1>3, <1>4, <1>5, <1>6

LEMMA NextSync == IInv /\ SyncInv /\ [Next]_vars => SyncInv'
  <1> SUFFICES ASSUME IInv, SyncInv, [Next]_vars
               PROVE  SyncInv'
    OBVIOUS
  <1>1. ASSUME NEW f \in Frames, ClientSend(f)
        PROVE  SyncInv'
    BY <1>1, SendSync
  <1>2. CASE ClientClose
    BY <1>2, CloseSync
  <1>3. CASE ClientRead \/ CloseConn \/ ReadFails \/ DecodeFails \/ WriteFails \/ UNCHANGED vars
    <2>1. /\ UNCHANGED <<stream, wire, buf, consumed, eof, answered>>
          /\ pc' = pc \/ pc' = "returned"
      BY <1>3 DEF ClientRead, CloseConn, ReadFails, DecodeFails, WriteFails, Return,
                  vars, client, server, history
    <2>2. Pending' = Pending
      BY <2>1 DEF Pending
    <2> QED BY <2>1, <2>2, SyncKept DEF Alive
  <1>4. ASSUME NEW n \in 1..ReadChunk, ReadIntoBuffer(n)
        PROVE  SyncInv'
    BY <1>4, ReadSync
  <1>5. CASE FinishBatch
    BY <1>5, FinishSync
  <1>6. ASSUME NEW add \in 0..1, HandleFrame(add)
        PROVE  SyncInv'
    BY <1>6, HandleSync
  <1>7. CASE WriteResponse
    <2>1. /\ pc = "write" /\ FrameDone(Rest[1].frame)
          /\ UNCHANGED <<stream, wire, buf, eof>>
      BY <1>7 DEF WriteResponse
    <2> QED
      BY <2>1, FrameDoneSync DEF IInv
  <1>8. CASE Terminated
    BY <1>3, <1>8 DEF Terminated
  <1> QED
    BY <1>1, <1>2, <1>3, <1>4, <1>5, <1>6, <1>7, <1>8 DEF Next, HandlerStep

(* The decoder never loses its place, however frames are split, pipelined  *)
(* and compacted: while the handler runs, the undecoded bytes of the       *)
(* buffer and the bytes on the wire are the client's stream from the first *)
(* unfinished frame on, without gap, repeat or reorder.                    *)
THEOREM InSyncHolds == Spec => []InSync
  <1>1. Init => IInv /\ SyncInv
    BY InitIInv, InitSync
  <1>2. IInv /\ SyncInv /\ [Next]_vars => IInv' /\ SyncInv'
    BY NextIInv, NextSync
  <1>3. IInv /\ SyncInv => InSync
    <2> SUFFICES ASSUME IInv, SyncInv, Alive
                 PROVE  LET s == Rest \o wire IN
                        /\ s # <<>> => s[1] = [frame |-> answered + 1, off |-> 1]
                        /\ \A i \in 1..(Len(s) - 1) : s[i + 1] = Successor(s[i])
                        /\ ~eof => IF s = <<>>
                              THEN answered = Len(stream)
                              ELSE Successor(s[Len(s)]) = [frame |-> Len(stream) + 1, off |-> 1]
      BY DEF InSync
    <2>1. /\ Pending = Rest \o wire
          /\ Solid(stream, Pending) /\ StartsAt(Pending, answered)
          /\ ~eof => EndsWith(stream, Pending, answered)
      BY PendingFacts DEF SyncInv
    <2>2. ASSUME NEW b PROVE Successor(b) = Following(stream, b)
      BY DEF Successor, Following
    <2>3. \A i \in 1..(Len(Pending) - 1) : Pending[i + 1] = Following(stream, Pending[i])
      BY <2>1 DEF Solid
    <2>4. \A i \in 1..(Len(Pending) - 1) : Pending[i + 1] = Successor(Pending[i])
      BY <2>2, <2>3
    <2>5. ~eof => IF Pending = <<>> THEN answered = Len(stream)
                  ELSE Successor(Pending[Len(Pending)]) = [frame |-> Len(stream) + 1, off |-> 1]
      BY <2>1, <2>2 DEF EndsWith
    <2> QED BY <2>1, <2>4, <2>5 DEF StartsAt
  <1> QED
    BY <1>1, <1>2, <1>3, PTL DEF Spec

(* The responses rs answer the requests among the first a frames of str    *)
(* that want a response.                                                   *)
Response == [rid : Nat, compressed : BOOLEAN]

Matching(str, rs, a) ==
    /\ rs \in Seq(Response)
    /\ {rs[i].rid : i \in 1..Len(rs)} = {k \in 1..a : WantsResponse(str[k])}
    /\ \A i, j \in 1..Len(rs) : i < j => rs[i].rid < rs[j].rid
    /\ \A i \in 1..Len(rs) : rs[i].compressed <=> "compressed" \in str[rs[i].rid].flags

LEMMA MatchingSilent ==
  ASSUME NEW str, NEW rs, NEW a \in Nat, Matching(str, rs, a), ~WantsResponse(str[a + 1])
  PROVE  Matching(str, rs, a + 1)
  <1>1. \A k \in 1..(a + 1) : k \in 1..a \/ k = a + 1
    OBVIOUS
  <1>2. \A k \in 1..a : k \in 1..(a + 1)
    OBVIOUS
  <1>3. {k \in 1..(a + 1) : WantsResponse(str[k])} = {k \in 1..a : WantsResponse(str[k])}
    BY <1>1, <1>2
  <1> QED BY <1>3 DEF Matching

LEMMA MatchingAppend ==
  ASSUME NEW str, NEW rs, NEW a \in Nat, Matching(str, rs, a), WantsResponse(str[a + 1]),
         NEW r \in Response, r.rid = a + 1, r.compressed <=> "compressed" \in str[a + 1].flags
  PROVE  Matching(str, Append(rs, r), a + 1)
  <1> DEFINE L == Len(rs)
             rs2 == Append(rs, r)
  <1>1. /\ rs2 \in Seq(Response) /\ Len(rs2) = L + 1 /\ L \in Nat
        /\ \A i \in 1..L : rs2[i] = rs[i]
        /\ rs2[L + 1] = r
    BY AppendProperties, LenProperties DEF Matching
  <1> HIDE DEF rs2, L
  <1>2. \A i \in 1..(L + 1) : i \in 1..L \/ i = L + 1
    BY <1>1
  <1>3. \A i \in 1..L : i \in 1..(L + 1)
    BY <1>1
  <1>4. \A i \in 1..L : rs[i].rid \in 1..a /\ WantsResponse(str[rs[i].rid])
    BY DEF Matching, L
  <1>5. \A k \in 1..(a + 1) : k \in 1..a \/ k = a + 1
    OBVIOUS
  <1>6. \A k \in 1..a : k \in 1..(a + 1) /\ k < a + 1
    OBVIOUS
  <1>7. {rs2[i].rid : i \in 1..(L + 1)} = {k \in 1..(a + 1) : WantsResponse(str[k])}
    <2>1. ASSUME NEW i \in 1..(L + 1)
          PROVE  rs2[i].rid \in {k \in 1..(a + 1) : WantsResponse(str[k])}
      BY <1>1, <1>2, <1>4, <1>6
    <2>2. ASSUME NEW k \in 1..(a + 1), WantsResponse(str[k])
          PROVE  \E i \in 1..(L + 1) : rs2[i].rid = k
      <3>1. CASE k \in 1..a
        <4>1. \E i \in 1..L : rs[i].rid = k
          BY <2>2, <3>1 DEF Matching, L
        <4> QED BY <4>1, <1>1, <1>3
      <3>2. CASE k = a + 1
        <4>1. L + 1 \in 1..(L + 1)
          BY <1>1
        <4> QED BY <1>1, <3>2, <4>1
      <3> QED BY <1>5, <3>1, <3>2
    <2> QED BY <2>1, <2>2
  <1>8. ASSUME NEW i \in 1..(L + 1), NEW j \in 1..(L + 1), i < j
        PROVE  rs2[i].rid < rs2[j].rid
    <2>1. i \in 1..L
      BY <1>1, <1>8
    <2>2. CASE j \in 1..L
      <3>1. rs[i].rid < rs[j].rid
        BY <1>8, <2>1, <2>2 DEF Matching, L
      <3> QED BY <1>1, <2>1, <2>2, <3>1
    <2>3. CASE j = L + 1
      BY <1>1, <1>4, <1>6, <2>1, <2>3
    <2> QED BY <1>2, <2>2, <2>3
  <1>9. ASSUME NEW i \in 1..(L + 1)
        PROVE  rs2[i].compressed <=> "compressed" \in str[rs2[i].rid].flags
    <2>1. CASE i \in 1..L
      <3>1. rs[i].compressed <=> "compressed" \in str[rs[i].rid].flags
        BY <2>1 DEF Matching, L
      <3> QED BY <1>1, <2>1, <3>1
    <2>2. CASE i = L + 1
      BY <1>1, <2>2
    <2> QED BY <1>2, <2>1, <2>2
  <1> QED BY <1>1, <1>7, <1>8, <1>9 DEF Matching, rs2

(* Only the frames already finished matter to the responses. *)
LEMMA MatchingSame ==
  ASSUME NEW str, NEW str2, NEW rs, NEW a \in Nat, Matching(str, rs, a),
         \A k \in 1..a : str2[k] = str[k]
  PROVE  Matching(str2, rs, a)
  <1>1. {k \in 1..a : WantsResponse(str2[k])} = {k \in 1..a : WantsResponse(str[k])}
    OBVIOUS
  <1>2. \A i \in 1..Len(rs) : rs[i].rid \in 1..a
    BY DEF Matching
  <1>3. ASSUME NEW i \in 1..Len(rs)
        PROVE  rs[i].compressed <=> "compressed" \in str2[rs[i].rid].flags
    BY <1>2 DEF Matching
  <1> QED BY <1>1, <1>3 DEF Matching

(* What has been dispatched and answered, and the response in the making.  *)
LogInv ==
    /\ dispatched \in Seq(Nat)
    /\ \A i \in 1..Len(dispatched) : dispatched[i] = i
    /\ answered \in 0..Len(stream)
    /\ Len(dispatched) \in answered..(answered + 1)
    /\ pc \in {"read", "decode"} => Len(dispatched) = answered
    /\ pc = "write" =>
         /\ Len(dispatched) = answered + 1
         /\ answered + 1 \in 1..Len(stream)
         /\ WantsResponse(stream[answered + 1])
         /\ sending \in Response
         /\ sending.rid = answered + 1
         /\ sending.compressed <=> "compressed" \in stream[answered + 1].flags
    /\ Matching(stream, responses, answered)
    /\ torn => ~Alive

LEMMA InitLog == Init => LogInv
  <1> SUFFICES ASSUME Init PROVE LogInv
    OBVIOUS
  <1>1. Len(<<>>) = 0 /\ <<>> \in Seq(Nat) /\ <<>> \in Seq(Response)
    BY EmptySeq
  <1>2. Matching(stream, responses, answered)
    BY <1>1 DEF Init, Matching
  <1>3. 0 \in 0..0 /\ 0 \in 0..(0 + 1)
    OBVIOUS
  <1> QED BY <1>1, <1>2, <1>3 DEF Init, LogInv, Alive

(* Steps that touch no history; pc may leave the running states. *)
LEMMA LogKept ==
  ASSUME LogInv, UNCHANGED <<stream, sending, responses, dispatched, answered>>,
         \/ pc' = pc
         \/ pc' \in {"read", "decode"} /\ pc \in {"read", "decode"}
         \/ pc' = "returned",
         torn' = torn \/ pc' = "returned"
  PROVE  LogInv'
  BY DEF LogInv, Alive

LEMMA SendLog ==
  ASSUME IInv, LogInv, NEW f \in Frames, ClientSend(f)
  PROVE  LogInv'
  <1>1. /\ stream' = Append(stream, f)
        /\ UNCHANGED <<pc, sending, torn, responses, dispatched, answered>>
    BY DEF ClientSend, server, history
  <1>2. /\ Len(stream') = Len(stream) + 1 /\ Len(stream) \in Nat
        /\ \A k \in 1..Len(stream) : stream'[k] = stream[k]
    BY <1>1, AppendProperties, LenProperties DEF IInv
  <1>3. answered \in Nat /\ answered <= Len(stream) /\ answered \in 0..Len(stream')
    BY <1>2 DEF LogInv
  <1>4. \A k \in 1..answered : stream'[k] = stream[k]
    BY <1>2, <1>3
  <1>5. Matching(stream', responses, answered)
    BY <1>3, <1>4, MatchingSame DEF LogInv
  <1>6. \A k \in 1..Len(stream) : k \in 1..Len(stream')
    BY <1>2
  <1> QED BY <1>1, <1>2, <1>3, <1>5, <1>6 DEF LogInv, Alive

LEMMA DispatchGrows ==
  ASSUME LogInv, pc = "decode", dispatched' = Append(dispatched, answered + 1)
  PROVE  /\ dispatched' \in Seq(Nat) /\ Len(dispatched') = answered + 1
         /\ \A i \in 1..Len(dispatched') : dispatched'[i] = i
         /\ answered \in Nat
  <1>1. /\ dispatched \in Seq(Nat) /\ answered \in Nat /\ Len(dispatched) = answered
        /\ \A i \in 1..Len(dispatched) : dispatched[i] = i
    BY DEF LogInv
  <1>2. /\ dispatched' \in Seq(Nat) /\ Len(dispatched') = answered + 1
        /\ \A i \in 1..answered : dispatched'[i] = dispatched[i]
        /\ dispatched'[answered + 1] = answered + 1
    BY <1>1, AppendProperties
  <1>3. \A i \in 1..(answered + 1) : i \in 1..answered \/ i = answered + 1
    BY <1>1
  <1> QED BY <1>1, <1>2, <1>3

LEMMA HandleLog ==
  ASSUME IInv, SyncInv, LogInv, NEW add \in 0..1, HandleFrame(add)
  PROVE  LogInv'
  <1> DEFINE k == answered + 1
             f == stream[k]
  <1>1. /\ pc = "decode" /\ Decode(Rest) = "frame"
        /\ UNCHANGED <<stream, torn, responses>>
    BY DEF HandleFrame, client
  <1>2. Len(Rest) > 0
    BY <1>1, DecodedWhole DEF HeadWhole
  <1>3. Rest[1].frame = k /\ k \in 1..Len(stream)
    BY <1>1, <1>2, HeadIsNext DEF Alive
  <1>4. answered \in Nat /\ Len(dispatched) = answered /\ ~torn /\ k \in Nat /\ k # 0
        /\ Len(stream) \in Nat /\ answered \in 0..Len(stream)
    BY <1>1, LenProperties DEF LogInv, Alive, IInv
  <1>5. \/ /\ pc' = "returned" /\ UNCHANGED <<dispatched, answered, sending>>
        \/ /\ dispatched' = Append(dispatched, k)
           /\ \/ pc' \in {"returned", "panicked"} /\ UNCHANGED <<answered, sending>>
              \/ ~WantsResponse(f) /\ pc' = "decode" /\ answered' = k
              \/ WantsResponse(f) /\ pc' = "write" /\ sending' = ResponseTo(k) /\ answered' = answered
    BY <1>3 DEF HandleFrame, Serve, Return, FrameDone
  <1>6. CASE pc' = "returned" /\ UNCHANGED <<dispatched, answered, sending>>
    BY <1>1, <1>6, LogKept
  <1>7. CASE dispatched' = Append(dispatched, k)
    <2>1. /\ dispatched' \in Seq(Nat) /\ Len(dispatched') = k
          /\ \A i \in 1..Len(dispatched') : dispatched'[i] = i
      BY <1>1, <1>7, DispatchGrows
    <2>2. Matching(stream, responses, answered)
      BY DEF LogInv
    <2>3. CASE pc' \in {"returned", "panicked"} /\ UNCHANGED <<answered, sending>>
      <3>1. k \in answered..(answered + 1)
        BY <1>4
      <3> QED BY <1>1, <1>4, <2>1, <2>2, <2>3, <3>1 DEF LogInv, Alive
    <2>4. CASE ~WantsResponse(f) /\ pc' = "decode" /\ answered' = k
      <3>1. Matching(stream, responses, k)
        BY <1>4, <2>2, <2>4, MatchingSilent
      <3>2. k \in k..(k + 1) /\ k \in 0..Len(stream)
        BY <1>3, <1>4
      <3> QED BY <1>1, <1>4, <2>1, <2>4, <3>1, <3>2 DEF LogInv, Alive
    <2>5. CASE WantsResponse(f) /\ pc' = "write" /\ sending' = ResponseTo(k) /\ answered' = answered
      <3>1. ResponseTo(k) = [rid |-> k, compressed |-> "compressed" \in f.flags]
        BY <1>4 DEF ResponseTo
      <3>2. /\ sending' \in Response /\ sending'.rid = k
            /\ sending'.compressed <=> "compressed" \in f.flags
        <4> DEFINE c == "compressed" \in f.flags
        <4>1. c \in BOOLEAN
          OBVIOUS
        <4> HIDE DEF c, k
        <4>2. ASSUME NEW r, NEW d \in BOOLEAN, r = [rid |-> k, compressed |-> d]
              PROVE  r \in Response /\ r.rid = k /\ (r.compressed <=> d)
          BY <1>4, <4>2 DEF Response
        <4>3. sending' = [rid |-> k, compressed |-> c]
          BY <2>5, <3>1 DEF c, k
        <4>4. sending' \in Response /\ sending'.rid = k /\ (sending'.compressed <=> c)
          BY <4>1, <4>2, <4>3
        <4> QED BY <4>4 DEF c, k
      <3>3. k \in answered..(answered + 1)
        BY <1>4
      <3> QED BY <1>1, <1>3, <1>4, <2>1, <2>2, <2>5, <3>2, <3>3 DEF LogInv, Alive
    <2> QED BY <1>5, <1>7, <2>3, <2>4, <2>5, <1>6
  <1> QED BY <1>5, <1>6, <1>7

LEMMA WriteLog ==
  ASSUME IInv, SyncInv, LogInv, WriteResponse
  PROVE  LogInv'
  <1> DEFINE k == answered + 1
  <1>1. /\ pc = "write" /\ pc' = "decode" /\ answered' = k
        /\ responses' = Append(responses, sending)
        /\ UNCHANGED <<stream, torn, dispatched>>
    BY DEF WriteResponse, FrameDone
  <1>2. /\ Len(dispatched) = k /\ k \in 1..Len(stream)
        /\ WantsResponse(stream[k]) /\ sending \in Response /\ sending.rid = k
        /\ sending.compressed <=> "compressed" \in stream[k].flags
        /\ Matching(stream, responses, answered) /\ answered \in Nat /\ ~torn
    BY <1>1 DEF LogInv, Alive
  <1>3. Matching(stream, Append(responses, sending), k)
    BY <1>2, MatchingAppend
  <1>4. k \in k..(k + 1) /\ k \in 0..Len(stream)
    BY <1>2
  <1> QED BY <1>1, <1>2, <1>3, <1>4 DEF LogInv, Alive

LEMMA NextLog == IInv /\ SyncInv /\ LogInv /\ [Next]_vars => LogInv'
  <1> SUFFICES ASSUME IInv, SyncInv, LogInv, [Next]_vars
               PROVE  LogInv'
    OBVIOUS
  <1>1. ASSUME NEW f \in Frames, ClientSend(f)
        PROVE  LogInv'
    BY <1>1, SendLog
  <1>2. CASE \/ ClientClose \/ ClientRead \/ CloseConn \/ ReadFails \/ DecodeFails
             \/ FinishBatch \/ WriteFails \/ UNCHANGED vars
    <2>1. /\ UNCHANGED <<stream, sending, responses, dispatched, answered>>
          /\ \/ pc' = pc
             \/ pc' \in {"read", "decode"} /\ pc \in {"read", "decode"}
             \/ pc' = "returned"
          /\ torn' = torn \/ pc' = "returned"
      BY <1>2 DEF ClientClose, ClientRead, CloseConn, ReadFails, DecodeFails, FinishBatch,
                  WriteFails, Return, vars, client, server, history
    <2> QED BY <2>1, LogKept
  <1>3. ASSUME NEW n \in 1..ReadChunk, ReadIntoBuffer(n)
        PROVE  LogInv'
    <2>1. /\ UNCHANGED <<stream, sending, responses, dispatched, answered, torn>>
          /\ pc = "read" /\ pc' \in {"decode", "returned"}
      BY <1>3 DEF ReadIntoBuffer, Return, history
    <2> QED BY <2>1, LogKept
  <1>4. ASSUME NEW add \in 0..1, HandleFrame(add)
        PROVE  LogInv'
    BY <1>4, HandleLog
  <1>5. CASE WriteResponse
    BY <1>5, WriteLog
  <1>6. CASE Terminated
    BY <1>2, <1>6 DEF Terminated
  <1> QED
    BY <1>1, <1>2, <1>3, <1>4, <1>5, <1>6 DEF Next, HandlerStep

(* The client can match answers to requests: the responses written are,    *)
(* in request order and with the request's compression, those of exactly   *)
(* the finished requests that want one, and nothing follows a torn one.    *)
THEOREM ResponsesMatchRequestsHolds == Spec => []ResponsesMatchRequests
  <1>1. Init => IInv /\ SyncInv /\ LogInv
    BY InitIInv, InitSync, InitLog
  <1>2. IInv /\ SyncInv /\ LogInv /\ [Next]_vars => IInv' /\ SyncInv' /\ LogInv'
    BY NextIInv, NextSync, NextLog
  <1>3. LogInv => ResponsesMatchRequests
    BY DEF LogInv, Matching, ResponsesMatchRequests
  <1> QED
    BY <1>1, <1>2, <1>3, PTL DEF Spec

(* Handlers run in request order, each request at most once, and never     *)
(* more than one request ahead of the finished ones.                       *)
THEOREM DispatchedOnceInOrderHolds == Spec => []DispatchedOnceInOrder
  <1>1. Init => IInv /\ SyncInv /\ LogInv
    BY InitIInv, InitSync, InitLog
  <1>2. IInv /\ SyncInv /\ LogInv /\ [Next]_vars => IInv' /\ SyncInv' /\ LogInv'
    BY NextIInv, NextSync, NextLog
  <1>3. LogInv => DispatchedOnceInOrder
    BY DEF LogInv, DispatchedOnceInOrder
  <1> QED
    BY <1>1, <1>2, <1>3, PTL DEF Spec

(* Before a read the buffer holds less than one frame. *)
QuotaInv ==
    /\ pc = "read" => /\ consumed = 0
                      /\ Len(buf) > 0 => Len(buf) < Size(stream[buf[1].frame])
    /\ QuotaOnlyForBigFrames

(* Steps that send nothing and do not come back to the read. *)
LEMMA QuotaKept ==
  ASSUME QuotaInv, stream' = stream,
         \/ UNCHANGED <<pc, buf, consumed>>
         \/ pc' # "read",
         result' = result \/ result' # "quota"
  PROVE  QuotaInv'
  BY DEF QuotaInv, QuotaOnlyForBigFrames, Size

LEMMA QuotaSend ==
  ASSUME IInv, QuotaInv, NEW f \in Frames, ClientSend(f)
  PROVE  QuotaInv'
  <1>1. /\ stream' = Append(stream, f)
        /\ UNCHANGED <<pc, buf, consumed, result>>
    BY DEF ClientSend, server
  <1>2. /\ Len(stream') = Len(stream) + 1 /\ Len(stream) \in Nat
        /\ \A k \in 1..Len(stream) : stream'[k] = stream[k]
    BY <1>1, AppendProperties, LenProperties DEF IInv
  <1>3. QuotaOnlyForBigFrames'
    <2>1. \A k \in 1..Len(stream) : k \in 1..Len(stream') /\ Size(stream'[k]) = Size(stream[k])
      BY <1>2
    <2> QED BY <1>1, <2>1 DEF QuotaInv, QuotaOnlyForBigFrames, Size
  <1>4. ASSUME Len(buf) > 0
        PROVE  stream'[buf[1].frame] = stream[buf[1].frame]
    <2>1. 1 \in 1..Len(buf)
      BY <1>4, LenProperties DEF IInv
    <2>2. buf[1] \in SentByte
      BY <2>1, ElementOfSeq DEF IInv
    <2> QED BY <1>2, <2>2 DEF SentByte
  <1> QED BY <1>1, <1>3, <1>4 DEF QuotaInv, Size

LEMMA QuotaRead ==
  ASSUME IInv, QuotaInv, NEW n \in 1..ReadChunk, ReadIntoBuffer(n)
  PROVE  QuotaInv'
  <1>1. /\ pc = "read" /\ n <= Len(wire) /\ stream' = stream
        /\ \/ pc' = "decode" /\ result' = result
           \/ bufferUsed + n > MaxBuffer /\ pc' = "returned" /\ result' = "quota"
    <2>1. pc = "read"
      BY DEF ReadIntoBuffer
    <2>2. bufferUsed \in Nat /\ n \in Nat /\ MaxBuffer \in Nat
      BY <2>1, HandlerAssumption, LenProperties DEF IInv, BufferAccounting, Alive
    <2>3. ~(bufferUsed + n <= MaxBuffer) => bufferUsed + n > MaxBuffer
      BY <2>2
    <2> QED BY <2>1, <2>3 DEF ReadIntoBuffer, Reserve, Return
  <1>2. CASE pc' = "decode" /\ result' = result
    BY <1>1, <1>2, QuotaKept
  <1>3. CASE bufferUsed + n > MaxBuffer /\ pc' = "returned" /\ result' = "quota"
    <2>1. /\ bufferUsed = Len(buf) /\ Len(buf) \in Nat /\ Len(wire) \in Nat
          /\ n \in Nat /\ n > 0 /\ n <= ReadChunk /\ ReadChunk \in Nat /\ MaxBuffer \in Nat
      BY <1>1, HandlerAssumption, LenProperties DEF IInv, BufferAccounting, Alive
    <2>2. \E k \in 1..Len(stream) : Size(stream[k]) > MaxBuffer - ReadChunk + 1
      <3>1. CASE Len(buf) > 0
        <4>1. 1 \in 1..Len(buf)
          BY <2>1, <3>1
        <4>2. buf[1] \in SentByte
          BY <4>1, ElementOfSeq DEF IInv
        <4>3. buf[1].frame \in 1..Len(stream)
          BY <4>2 DEF SentByte
        <4>4. Size(stream[buf[1].frame]) \in Nat
          BY <4>3, SizeType DEF IInv
        <4>5. Len(buf) < Size(stream[buf[1].frame])
          BY <1>1, <3>1 DEF QuotaInv
        <4> DEFINE z == Size(stream[buf[1].frame])
        <4> HIDE DEF z
        <4>6. z > MaxBuffer - ReadChunk + 1
          BY <1>3, <2>1, <4>4, <4>5 DEF z
        <4> QED BY <4>3, <4>6 DEF z
      <3>2. CASE Len(buf) = 0
        <4>1. 1 \in 1..Len(wire)
          BY <1>1, <2>1
        <4>2. wire[1] \in SentByte
          BY <4>1, ElementOfSeq DEF IInv
        <4>3. wire[1].frame \in 1..Len(stream)
          BY <4>2 DEF SentByte
        <4>4. Size(stream[wire[1].frame]) \in Nat /\ Size(stream[wire[1].frame]) > 0
          BY <4>3, SizeType DEF IInv
        <4> DEFINE z == Size(stream[wire[1].frame])
        <4> HIDE DEF z
        <4>5. z > MaxBuffer - ReadChunk + 1
          BY <1>3, <2>1, <3>2, <4>4 DEF z
        <4> QED BY <4>3, <4>5 DEF z
      <3> QED BY <2>1, <3>1, <3>2
    <2> QED BY <1>1, <1>3, <2>2 DEF QuotaInv, QuotaOnlyForBigFrames, Size
  <1> QED BY <1>1, <1>2, <1>3

LEMMA QuotaFinish ==
  ASSUME IInv, QuotaInv, FinishBatch
  PROVE  QuotaInv'
  <1>1. /\ pc' = "read" /\ buf' = Rest /\ consumed' = 0
        /\ Decode(Rest) = "incomplete"
        /\ UNCHANGED <<stream, result>>
    BY DEF FinishBatch, Compact, client
  <1>2. Len(Rest) \in Nat
    BY RestFacts, LenProperties DEF IInv
  <1>3. ASSUME Len(Rest) > 0
        PROVE  Len(Rest) < Size(stream[Rest[1].frame])
    <2>1. Rest[1].frame \in 1..Len(stream)
      BY <1>3, HeadSent
    <2>2. /\ Size(stream[Rest[1].frame]) \in Nat /\ HeaderLen \in Nat
          /\ Size(stream[Rest[1].frame]) >= HeaderLen
      BY <2>1, FrameSize, HandlerAssumption DEF IInv
    <2>3. Len(Rest) < HeaderLen \/ Len(Rest) < Size(stream[Rest[1].frame])
      BY <1>1 DEF Decode
    <2> DEFINE z == Size(stream[Rest[1].frame])
    <2> HIDE DEF z
    <2>4. Len(Rest) < z
      BY <1>2, <2>2, <2>3 DEF z
    <2> QED BY <2>4 DEF z
  <1> QED BY <1>1, <1>3 DEF QuotaInv, QuotaOnlyForBigFrames, Size

LEMMA NextQuota == IInv /\ QuotaInv /\ [Next]_vars => QuotaInv'
  <1> SUFFICES ASSUME IInv, QuotaInv, [Next]_vars
               PROVE  QuotaInv'
    OBVIOUS
  <1>1. ASSUME NEW f \in Frames, ClientSend(f)
        PROVE  QuotaInv'
    BY <1>1, QuotaSend
  <1>2. CASE \/ ClientClose \/ ClientRead \/ CloseConn \/ ReadFails \/ DecodeFails
             \/ WriteFails \/ WriteResponse \/ UNCHANGED vars
    <2>1. /\ stream' = stream
          /\ UNCHANGED <<pc, buf, consumed>> \/ pc' # "read"
          /\ result' = result \/ result' # "quota"
      BY <1>2 DEF ClientClose, ClientRead, CloseConn, ReadFails, DecodeFails, FrameDone,
                  WriteFails, WriteResponse, Return, vars, client, server
    <2> QED BY <2>1, QuotaKept
  <1>3. ASSUME NEW n \in 1..ReadChunk, ReadIntoBuffer(n)
        PROVE  QuotaInv'
    BY <1>3, QuotaRead
  <1>4. ASSUME NEW add \in 0..1, HandleFrame(add)
        PROVE  QuotaInv'
    <2>1. stream' = stream /\ pc' # "read" /\ (result' = result \/ result' # "quota")
      BY <1>4 DEF HandleFrame, Serve, Return, FrameDone, client
    <2> QED BY <2>1, QuotaKept
  <1>5. CASE FinishBatch
    BY <1>5, QuotaFinish
  <1>6. CASE Terminated
    BY <1>2, <1>6 DEF Terminated
  <1> QED
    BY <1>1, <1>2, <1>3, <1>4, <1>5, <1>6 DEF Next, HandlerStep

(* Pipelining never exhausts the quota: a connection is dropped for its    *)
(* buffer only when the client sent a frame that leaves no room for one    *)
(* full read after all but its last byte.                                  *)
THEOREM QuotaOnlyForBigFramesHolds == Spec => []QuotaOnlyForBigFrames
  <1>1. Init => IInv /\ QuotaInv
    <2>1. Init => QuotaInv
      BY EmptySeq DEF Init, QuotaInv, QuotaOnlyForBigFrames
    <2> QED BY <2>1, InitIInv
  <1>2. IInv /\ QuotaInv /\ [Next]_vars => IInv' /\ QuotaInv'
    BY NextIInv, NextQuota
  <1>3. QuotaInv => QuotaOnlyForBigFrames
    BY DEF QuotaInv
  <1> QED
    BY <1>1, <1>2, <1>3, PTL DEF Spec

(* The parts of TypeOK that the other invariants leave out. *)
Places ==
    /\ Len(stream) <= MaxFrames
    /\ eof \in BOOLEAN /\ connClosed \in BOOLEAN /\ torn \in BOOLEAN
    /\ idleTimeout \in BOOLEAN /\ writeTimeout \in BOOLEAN
    /\ unread \in 0..SendBuffer
    /\ pc \in {"read", "decode", "write", "returned", "panicked"}
    /\ result \in {"none", "nil", "quota", "closed", "protocol", "handler", "rate", "write", "router"}
    /\ bufferUsed \in Nat
    /\ tokens \in 0..Burst

LEMMA InitPlaces == Init => Places
  <1> SUFFICES ASSUME Init PROVE Places
    OBVIOUS
  <1>1. Len(stream) <= MaxFrames /\ unread \in 0..SendBuffer /\ tokens \in 0..Burst
    BY HandlerAssumption, EmptySeq DEF Init
  <1>2. /\ pc \in {"read", "decode", "write", "returned", "panicked"}
        /\ result \in {"none", "nil", "quota", "closed", "protocol", "handler", "rate", "write", "router"}
    BY DEF Init
  <1> QED BY <1>1, <1>2 DEF Init, Places

(* The tokens stay between zero and the burst. *)
LEMMA TokensKept ==
  ASSUME Places, NEW add \in 0..1, HandleFrame(add)
  PROVE  tokens' \in 0..Burst
  <1> DEFINE t == CapAtBurst(tokens + add)
  <1>1. Burst \in Nat /\ tokens \in Nat /\ tokens <= Burst
    BY HandlerAssumption DEF Places
  <1>2. t \in 0..Burst
    BY <1>1 DEF CapAtBurst
  <1>3. (t <= 0 /\ tokens' = t) \/ (t > 0 /\ tokens' = t - 1)
    BY DEF HandleFrame
  <1> HIDE DEF t
  <1> QED BY <1>1, <1>2, <1>3

LEMMA NextPlaces == IInv /\ Places /\ [Next]_vars => Places'
  <1> SUFFICES ASSUME IInv, Places, [Next]_vars
               PROVE  Places'
    OBVIOUS
  <1>1. ASSUME NEW f \in Frames, ClientSend(f)
        PROVE  Places'
    <2>1. Len(stream') = Len(stream) + 1 /\ Len(stream) \in Nat /\ Len(stream) < MaxFrames
      BY <1>1, AppendProperties, LenProperties DEF ClientSend, IInv
    <2>2. Len(stream') <= MaxFrames
      BY <2>1, HandlerAssumption
    <2> QED BY <1>1, <2>2 DEF Places, ClientSend, server, options
  <1>2. CASE ClientClose
    BY <1>2 DEF Places, ClientClose, server, options
  <1>3. CASE ClientRead
    <2>1. unread' \in 0..SendBuffer
      BY <1>3, HandlerAssumption DEF Places, ClientRead
    <2> QED BY <1>3, <2>1 DEF Places, ClientRead, server, options
  <1>4. CASE CloseConn \/ ReadFails \/ DecodeFails \/ WriteFails \/ UNCHANGED vars
    <2>1. CASE CloseConn
      BY <2>1 DEF Places, CloseConn, client, server, options
    <2>2. CASE ReadFails
      BY <2>2 DEF Places, ReadFails, Return, client, options
    <2>3. CASE DecodeFails
      BY <2>3 DEF Places, DecodeFails, Return, client, options
    <2>4. CASE WriteFails
      BY <2>4 DEF Places, WriteFails, Return, client, options
    <2>5. CASE UNCHANGED vars
      BY <2>5 DEF Places, vars, client, server, options
    <2> QED BY <1>4, <2>1, <2>2, <2>3, <2>4, <2>5
  <1>5. ASSUME NEW n \in 1..ReadChunk, ReadIntoBuffer(n)
        PROVE  Places'
    <2>1. bufferUsed' \in Nat
      BY <1>5, HandlerAssumption DEF Places, ReadIntoBuffer, Reserve
    <2> QED BY <1>5, <2>1 DEF Places, ReadIntoBuffer, Return, options
  <1>6. CASE FinishBatch
    <2>1. pc = "decode" /\ buf' = Rest /\ bufferUsed' = bufferUsed - consumed
      BY <1>6 DEF FinishBatch, Compact, Release
    <2>2. bufferUsed = Len(buf) /\ Len(buf) \in Nat /\ consumed \in 0..Len(buf)
      BY <2>1, LenProperties DEF IInv, BufferAccounting, Alive
    <2>3. bufferUsed' \in Nat
      BY <2>1, <2>2
    <2> QED BY <1>6, <2>3 DEF Places, FinishBatch, client, options
  <1>7. ASSUME NEW add \in 0..1, HandleFrame(add)
        PROVE  Places'
    <2>1. tokens' \in 0..Burst
      BY <1>7, TokensKept
    <2>2. /\ pc' \in {"decode", "write", "returned", "panicked"}
          /\ result' = result \/ result' \in {"protocol", "handler", "rate"}
      BY <1>7 DEF HandleFrame, Serve, Return, FrameDone
    <2> QED BY <1>7, <2>1, <2>2 DEF Places, HandleFrame, client, options
  <1>8. CASE WriteResponse
    <2>1. unread' \in 0..SendBuffer
      BY <1>8, HandlerAssumption DEF Places, WriteResponse
    <2> QED BY <1>8, <2>1 DEF Places, WriteResponse, FrameDone, options
  <1>9. CASE Terminated
    BY <1>4, <1>9 DEF Terminated
  <1> QED
    BY <1>1, <1>2, <1>3, <1>4, <1>5, <1>6, <1>7, <1>8, <1>9 DEF Next, HandlerStep

(* Every variable keeps its type: no token balance below zero or over the  *)
(* burst, no more bytes consumed than the buffer holds.                    *)
THEOREM TypeOKHolds == Spec => []TypeOK
  <1>1. Init => IInv /\ SyncInv /\ LogInv /\ Places
    BY InitIInv, InitSync, InitLog, InitPlaces
  <1>2. IInv /\ SyncInv /\ LogInv /\ Places /\ [Next]_vars
          => IInv' /\ SyncInv' /\ LogInv' /\ Places'
    BY NextIInv, NextSync, NextLog, NextPlaces
  <1>3. IInv /\ LogInv /\ Places => TypeOK
    <2> SUFFICES ASSUME IInv, LogInv, Places
                 PROVE  TypeOK
      OBVIOUS
    <2>1. Len(stream) \in Nat /\ Len(stream) <= MaxFrames /\ MaxFrames \in Nat
      BY LenProperties, HandlerAssumption DEF IInv, Places
    <2>2. SentByte \subseteq [frame : 1..MaxFrames, off : Nat]
      BY <2>1 DEF SentByte
    <2>3. /\ wire \in Seq([frame : 1..MaxFrames, off : Nat])
          /\ buf \in Seq([frame : 1..MaxFrames, off : Nat])
      BY <2>2, SeqMonotonic DEF IInv
    <2> QED BY <2>3 DEF TypeOK, IInv, LogInv, Places
  <1> QED
    BY <1>1, <1>2, <1>3, PTL DEF Spec

====
