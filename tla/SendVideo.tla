------------------------------ MODULE SendVideo ------------------------------
(***************************************************************************)
(* One transfer: send_video() of src/server/stream.c, from the video that  *)
(* load_video() returned to the call of unload_video(). A stream is sent   *)
(* in one reply (one stream only, or a quality in the URL), or i-frame by  *)
(* i-frame, each i-frame in chunks of CHUNK_SIZE, while the code changes   *)
(* the stream (adaptive streaming) and the client may ask for another      *)
(* quality or position.                                                    *)
(***************************************************************************)
EXTENDS Integers, Sequences, SequencesExt

CONSTANTS
    Videos,             \* a video: its streams, from 0 (see IsVideo)
    Qualities,          \* what a client may ask for, in the URL and later
    Positions,
    NoParam,            \* the parameter is not there
    CHUNK_SIZE,
    HeaderLen,          \* length of the HTTP header in a reply
    UshortRange,        \* stands for 2^16
    PartialSends,       \* may send() take a part of the buffer?
    SendSeconds,        \* how long one send() takes, rounded up
    UPPER_LIMIT_TIME,
    LOWER_LIMIT_TIME,
    MaxRenew,           \* bound of the messages of a client
    MaxTime             \* bound of the times counted

\* A stream as load_video() leaves it: an array of i-frame offsets, of which it
\* has compared the last one, and no other, with the size.
IsStream(s) ==
    /\ s.iframe_num \in 1 .. UshortRange - 1
    /\ s.data_size \in Nat
    /\ s.iframe_offset \in [0 .. s.iframe_num - 1 -> Nat]
    /\ s.iframe_offset[s.iframe_num - 1] < s.data_size

IsVideo(v) ==
    /\ v.stream_num \in Nat \ {0}
    /\ DOMAIN v.streams = 0 .. v.stream_num - 1
    /\ \A p \in DOMAIN v.streams : IsStream(v.streams[p])

ASSUME SendAssumption ==
    /\ \A v \in Videos : IsVideo(v)
    /\ Qualities \cup Positions \subseteq Nat
    /\ NoParam \notin Nat
    /\ {CHUNK_SIZE, HeaderLen, UshortRange} \subseteq Nat \ {0}
    /\ PartialSends \in BOOLEAN
    /\ SendSeconds \subseteq Nat
    /\ {UPPER_LIMIT_TIME, LOWER_LIMIT_TIME, MaxRenew, MaxTime} \subseteq Nat

VARIABLES
    pc,
    cur_video,
    quality,            \* is there a quality in the URL?
    cur_stream_pos,
    cur_stream,         \* position of the stream that is being sent
    next_iframe,
    buf,                \* the data to send, as a part of the stream
    chunks_sent,
    sent,               \* is total_bytes_sent above 0?
    spent_time,
    cached_time,
    received,           \* the last part of a stream that the client received
    wish,               \* what the client asked for since the last part
    renews,             \* number of messages of the client
    references          \* this transfer's references to cur_video

request == <<cur_video, quality>>
place == <<cur_stream_pos, cur_stream, next_iframe>>
output == <<buf, chunks_sent>>
times == <<spent_time, cached_time>>
client == <<received, wish, renews>>
vars == <<pc, request, place, output, sent, times, client, references>>

-----------------------------------------------------------------------------
(* Streams and parts of them.                                              *)

Stream(p) == cur_video.streams[p]

\* Defect: the position stops at the number of i-frames.
get_next_offset_capped(s, first_offset, jump) ==
    IF first_offset + jump > s.iframe_num THEN s.iframe_num ELSE first_offset + jump

\* Defect: one i-frame too far.
get_next_offset_far(s, first_offset, jump) == first_offset + jump + 1

Ushort(n) == n % UshortRange

\* get_next_offset(): the next i-frame that has another offset.
get_next_offset(s, first_offset, jump) ==
    LET next == Ushort(first_offset + jump)
        other == { i \in next .. s.iframe_num - 1 :
                     s.iframe_offset[i] # s.iframe_offset[first_offset] }
    IN  IF next >= s.iframe_num THEN next ELSE Min(other \cup {s.iframe_num})

\* get_next_offset() would read the offset of an i-frame that does not exist.
ReadsBeyond(s, first_offset, jump) ==
    first_offset >= s.iframe_num /\ Ushort(first_offset + jump) < s.iframe_num

Part(from, to) == [from |-> from, to |-> to]

\* Defect: the last i-frame is taken to end at its own offset.
IframeDataCut(s, next) ==
    Part(s.iframe_offset[next - 1], s.iframe_offset[Min({next, s.iframe_num - 1})])

\* The data of the i-frame before `next'; the last one ends with the stream.
IframeData(s, next) ==
    Part(s.iframe_offset[next - 1],
         IF next = s.iframe_num THEN s.data_size ELSE s.iframe_offset[next])

\* The length of the part is not negative, and all of it is in memory.
Inside(s, part) == part.from <= part.to /\ part.to <= s.data_size

ChunksToSend(part) == (part.to - part.from + CHUNK_SIZE - 1) \div CHUNK_SIZE

\* Part number n of buf; the last one may be shorter than CHUNK_SIZE.
Chunk(n) ==
    LET from == buf.from + n * CHUNK_SIZE
    IN  Part(from, Min({from + CHUNK_SIZE, buf.to}))

\* Nothing is received yet.
NoPart == [stream |-> NoParam]

NoWish == [quality |-> NoParam, pos |-> NoParam]

Wish(q, p) == [quality |-> IF q = NoParam THEN wish.quality ELSE q,
               pos |-> IF p = NoParam THEN wish.pos ELSE p]

Init ==
    /\ pc = "idle"
    /\ cur_video \in Videos
    /\ quality = FALSE
    /\ cur_stream_pos = 0 /\ cur_stream = 0 /\ next_iframe = 0
    /\ buf = Part(0, 0)
    /\ chunks_sent = 0
    /\ sent = FALSE
    /\ spent_time = 0
    /\ cached_time = 0
    /\ received = NoPart
    /\ wish = NoWish
    /\ renews = 0
    /\ references = 0

-----------------------------------------------------------------------------
(* The outcomes of a send() of a part of the stream.                       *)

Taken(part, count) ==
    /\ sent' = TRUE
    /\ received' = [stream |-> cur_stream, from |-> part.from, to |-> part.from + count,
                    wish |-> wish]
    /\ wish' = NoWish
    /\ UNCHANGED renews

\* send() takes all, or, when its timeout expires, less.
SendOk(part) ==
    LET size == part.to - part.from
    IN  \E count \in IF PartialSends THEN 1 .. size ELSE {size} : Taken(part, count)

TimeSpent == \E d \in SendSeconds : spent_time' = Min({spent_time + d, MaxTime})

\* The client is gone: the video is unloaded and the function returns.
Stop ==
    /\ pc' = "stopped"
    /\ references' = references - 1
    /\ UNCHANGED <<request, place, output, sent, times, client>>

-----------------------------------------------------------------------------
(* The beginning.                                                          *)

\* load_video() returned the video; the stream and the first i-frame are those
\* of the URL, if they are there and within limits.
Start(q, p) ==
    LET stream_pos == IF q # NoParam /\ Ushort(q) <= cur_video.stream_num - 1
                      THEN Ushort(q) ELSE cur_video.stream_num \div 2
        s == Stream(stream_pos)
        first == IF p # NoParam /\ Ushort(p) <= s.iframe_num - 1 THEN Ushort(p) ELSE 0
        next == get_next_offset(s, first, 2)
        whole == cur_video.stream_num = 1 \/ q # NoParam
        part == Part(s.iframe_offset[first],
                     IF whole THEN s.data_size ELSE s.iframe_offset[next])
    IN
    /\ pc = "idle"
    /\ references' = 1
    /\ quality' = (q # NoParam)
    /\ cur_stream_pos' = stream_pos
    /\ cur_stream' = stream_pos
    /\ IF (whole \/ next < s.iframe_num) /\ Inside(s, part)
       THEN /\ buf' = [part EXCEPT !.from = @ - HeaderLen]
            /\ next_iframe' = IF whole THEN first ELSE get_next_offset(s, next, 1)
            /\ pc' = IF whole THEN "whole" ELSE "first"
       ELSE \* it reads behind an array: anything may follow
            /\ pc' = "undefined"
            /\ UNCHANGED <<buf, next_iframe>>
    /\ UNCHANGED <<cur_video, chunks_sent, sent, times, client>>

-----------------------------------------------------------------------------
(* One reply with the whole stream.                                        *)

SendWhole ==
    /\ pc = "whole"
    /\ SendOk(Chunk(chunks_sent))
    /\ chunks_sent' = chunks_sent + 1
    /\ TimeSpent
    /\ IF chunks_sent' < ChunksToSend(buf)
       THEN UNCHANGED <<pc, references>>
       ELSE pc' = "done" /\ references' = references - 1
    /\ UNCHANGED <<request, place, buf, cached_time>>

\* The send() timeout is computed before the error is looked at, and divides by
\* the number of bytes sent so far.
WholeFails ==
    /\ pc = "whole"
    /\ IF ~sent
       THEN /\ pc' = "divided by zero"
            /\ UNCHANGED <<request, place, output, sent, times, client, references>>
       ELSE Stop

-----------------------------------------------------------------------------
(* One chunk after the other.                                              *)

SendFirst ==
    /\ pc = "first"
    /\ SendOk(buf)
    /\ cached_time' = 0
    /\ pc' = "loop"
    /\ UNCHANGED <<request, place, output, spent_time, references>>

\* Defect: the video is not unloaded.
FirstFailsLoaded ==
    /\ pc = "first"
    /\ pc' = "stopped"
    /\ UNCHANGED <<request, place, output, sent, times, client, references>>

FirstFails == pc = "first" /\ Stop

NextIframe ==
    LET data == IframeData(Stream(cur_stream), next_iframe) IN
    /\ pc = "loop"
    /\ next_iframe <= Stream(cur_stream).iframe_num
    /\ IF Inside(Stream(cur_stream), data)
       THEN pc' = "chunks" /\ buf' = data /\ chunks_sent' = 0
       ELSE pc' = "undefined" /\ UNCHANGED output
    /\ UNCHANGED <<request, place, sent, times, client, references>>

SendChunk ==
    /\ pc = "chunks"
    /\ chunks_sent < ChunksToSend(buf)
    /\ SendOk(Chunk(chunks_sent))
    /\ chunks_sent' = chunks_sent + 1
    /\ TimeSpent
    /\ UNCHANGED <<pc, request, place, buf, cached_time, references>>

ChunkFails == pc = "chunks" /\ chunks_sent < ChunksToSend(buf) /\ Stop

\* Adaptive streaming, when an i-frame is sent.
Adapt ==
    LET cached == IF cached_time + (1 - spent_time) > 0
                  THEN Min({cached_time + (1 - spent_time), MaxTime}) ELSE cached_time
    IN
    /\ pc = "chunks"
    /\ chunks_sent >= ChunksToSend(buf)
    /\ cached_time' = cached
    /\ \/ /\ cached > UPPER_LIMIT_TIME /\ cur_stream_pos < cur_video.stream_num - 1
          /\ cur_stream_pos' = cur_stream_pos + 1
          /\ cur_stream' = cur_stream_pos'
       \/ /\ ~(cached > UPPER_LIMIT_TIME /\ cur_stream_pos < cur_video.stream_num - 1)
          /\ cached < LOWER_LIMIT_TIME /\ cur_stream_pos > 0
          /\ cur_stream_pos' = cur_stream_pos - 1
          /\ cur_stream' = cur_stream_pos'
       \/ /\ ~(cached > UPPER_LIMIT_TIME /\ cur_stream_pos < cur_video.stream_num - 1)
          /\ ~(cached < LOWER_LIMIT_TIME /\ cur_stream_pos > 0)
          /\ UNCHANGED <<cur_stream_pos, cur_stream>>
    /\ IF ReadsBeyond(Stream(cur_stream'), next_iframe, 1)
       THEN pc' = "undefined" /\ UNCHANGED next_iframe
       ELSE /\ next_iframe' = get_next_offset(Stream(cur_stream'), next_iframe, 1)
            /\ pc' = "renew"
    /\ UNCHANGED <<request, output, sent, spent_time, client, references>>

NoMessage ==
    /\ pc = "renew"
    /\ pc' = "loop"
    /\ UNCHANGED <<request, place, output, sent, times, client, references>>

\* Defect: the quality is not limited to the streams there are.
RenewUnlimited(q, p) ==
    /\ pc = "renew"
    /\ renews < MaxRenew
    /\ cur_stream_pos' = IF q = NoParam THEN cur_stream_pos ELSE q
    /\ wish' = Wish(q, p)
    /\ renews' = renews + 1
    /\ pc' = "loop"
    /\ UNCHANGED <<request, cur_stream, next_iframe, output, sent, times,
                   received, references>>

\* The client sends another quality, or another position, or both.
Renew(q, p) ==
    /\ pc = "renew"
    /\ renews < MaxRenew
    /\ cur_stream_pos' = IF q = NoParam THEN cur_stream_pos
                         ELSE Min({Ushort(q), cur_video.stream_num - 1})
    /\ next_iframe' = IF p # NoParam /\ Ushort(p) \in 1 .. Stream(cur_stream).iframe_num - 1
                      THEN Ushort(p) ELSE next_iframe
    /\ wish' = Wish(q, p)
    /\ renews' = renews + 1
    /\ pc' = "loop"
    /\ UNCHANGED <<request, cur_stream, output, sent, times, received, references>>

\* The ending chunk, with no data.
SendEnd ==
    /\ pc = "loop"
    /\ next_iframe > Stream(cur_stream).iframe_num
    /\ \/ /\ pc' = "done"
          /\ references' = references - 1
          /\ UNCHANGED <<request, place, output, sent, times, client>>
       \/ Stop

-----------------------------------------------------------------------------
Over == pc \in {"done", "stopped", "undefined", "divided by zero"}

send_video ==
    \/ SendWhole \/ WholeFails
    \/ SendFirst \/ FirstFails
    \/ NextIframe \/ SendChunk \/ ChunkFails \/ Adapt
    \/ NoMessage
    \/ \E q \in Qualities \cup {NoParam}, p \in Positions \cup {NoParam} : Renew(q, p)
    \/ SendEnd

Next ==
    \/ \E q \in Qualities \cup {NoParam}, p \in Positions \cup {NoParam} : Start(q, p)
    \/ send_video

Spec == Init /\ [][Next]_vars

\* Every send() returns: it has a timeout (SO_SNDTIMEO).
FairSpec == Spec /\ WF_vars(send_video)

-----------------------------------------------------------------------------
(* Properties.                                                             *)

\* The stream in use exists, and there is one reference at most.
TypeOK ==
    /\ pc \in {"idle", "whole", "first", "loop", "chunks", "renew"} \/ Over
    /\ cur_video \in Videos
    /\ quality \in BOOLEAN
    /\ cur_stream_pos \in DOMAIN cur_video.streams
    /\ cur_stream \in DOMAIN cur_video.streams
    /\ next_iframe \in 0 .. UshortRange - 1
    /\ buf.from \in Int /\ buf.to \in Int
    /\ sent \in BOOLEAN
    /\ chunks_sent \in Nat
    /\ {spent_time, cached_time} \subseteq 0 .. MaxTime
    /\ renews \in 0 .. MaxRenew
    /\ references \in 0 .. 1

\* The offsets of a stream are in order, as the chopper writes them unless its
\* file is cut, and they can be counted.
WellFormed(s) ==
    /\ s.iframe_num < UshortRange - 1
    /\ \A i, j \in 0 .. s.iframe_num - 1 : i <= j => s.iframe_offset[i] <= s.iframe_offset[j]

\* The i-frame before next_iframe is one of the stream while it is sent, and its
\* data is in memory. Once a part is sent, only streams with offsets that are
\* out of order, or too many, lead behind the arrays: that the number of
\* i-frames differs between streams does not.
PlaceInv ==
    /\ pc \in {"first", "loop", "chunks", "renew"} => next_iframe > 0
    /\ pc \in {"first", "chunks"} => next_iframe <= Stream(cur_stream).iframe_num
    /\ pc = "chunks" => Inside(Stream(cur_stream), buf)
    /\ pc = "undefined" /\ sent =>
            \E p \in DOMAIN cur_video.streams : ~WellFormed(Stream(p))

InBounds == TypeOK /\ PlaceInv

\* The i-frames of all streams of the video are the same moments of it, as far as
\* their number tells. Neither the chopper nor load_video() sees to it.
Aligned ==
    \A p, q \in DOMAIN cur_video.streams : Stream(p).iframe_num = Stream(q).iframe_num

\* Part b carries on where part a ended: at the same byte of the same stream,
\* or at the same i-frame of another one.
Follows(a, b) ==
    IF a.stream = b.stream THEN b.from = a.to
    ELSE LET s == Stream(a.stream) r == Stream(b.stream) IN
         \E i \in 0 .. s.iframe_num - 1 :
             a.to = s.iframe_offset[i] /\ b.from = r.iframe_offset[i]

\* Where the streams are aligned, the client receives the video in order, nothing
\* twice and nothing left out, over changes of the stream, unless it asked for
\* another position.
Contiguous ==
    [][ Aligned /\ received # NoPart /\ received' # received /\ received'.wish.pos = NoParam
          => Follows(received, received') ]_vars

\* Where the streams are aligned, a transfer that comes to its end sent the stream
\* to its last byte.
Complete == pc = "done" /\ Aligned => received.to = Stream(received.stream).data_size

\* The video is unloaded once, on every path out of the function, and not
\* before its data was used for the last time.
Released ==
    references = IF pc \in {"idle", "done", "stopped"} THEN 0 ELSE 1

\* A transfer ends, if its client stops asking for other positions.
TransferEnds == (pc # "idle") ~> Over

-----------------------------------------------------------------------------
(* The inductive invariants behind Complete and Contiguous, where send()    *)
(* takes what it is given and the streams are aligned: what the client has *)
(* fits the next i-frame.                                                  *)

\* The i-frame before number i has data in stream s; the last one always has.
HasData(s, i) == i = s.iframe_num \/ s.iframe_offset[i - 1] # s.iframe_offset[i]

\* The client received a part of one of the streams.
SomeReceived ==
    /\ received # NoPart
    /\ received.stream \in DOMAIN cur_video.streams
    /\ received.to \in Int

\* The part of the current stream that begins at a byte follows what the client
\* received.
Continues(from) == Follows(received, [stream |-> cur_stream, from |-> from])

\* The byte where the transfer of buf is.
Sent ==
    IF chunks_sent < ChunksToSend(buf) THEN buf.from + chunks_sent * CHUNK_SIZE ELSE buf.to

\* One reply: buf is the rest of the stream, and is sent from its beginning.
WholeInv ==
    pc = "whole" =>
        /\ buf.from < buf.to /\ buf.to = Stream(cur_stream).data_size
        /\ chunks_sent < ChunksToSend(buf)
        /\ IF chunks_sent = 0 THEN received = NoPart
           ELSE received # NoPart /\ received.stream = cur_stream /\ received.to = Sent

\* The first reply ends where the i-frame before next_iframe begins.
FirstInv ==
    /\ pc = "idle" => chunks_sent = 0 /\ received = NoPart
    /\ pc = "first" =>
        /\ received = NoPart
        /\ HasData(Stream(cur_stream), next_iframe)
        /\ buf.to = Stream(cur_stream).iframe_offset[next_iframe - 1]

\* Between i-frames: all is sent, or the i-frame before next_iframe is next and
\* has data, unless the client asked for a position.
LoopInv ==
    pc \in {"loop", "renew"} =>
        /\ SomeReceived
        /\ IF next_iframe > Stream(cur_stream).iframe_num
           THEN received.to = Stream(received.stream).data_size
           ELSE wish.pos = NoParam =>
                    /\ HasData(Stream(cur_stream), next_iframe)
                    /\ Continues(Stream(cur_stream).iframe_offset[next_iframe - 1])

\* In an i-frame: the client has it up to the byte where its transfer is.
ChunksInv ==
    pc = "chunks" =>
        /\ SomeReceived
        /\ buf = IframeData(Stream(cur_stream), next_iframe)
        /\ chunks_sent <= ChunksToSend(buf)
        /\ IF chunks_sent > 0
           THEN received.stream = cur_stream /\ received.to = Sent
           ELSE wish.pos = NoParam =>
                    HasData(Stream(cur_stream), next_iframe) /\ Continues(buf.from)

OrderInv ==
    /\ WholeInv
    /\ FirstInv
    /\ LoopInv
    /\ ChunksInv
    /\ Complete

SendInv == Aligned => OrderInv
=============================================================================
