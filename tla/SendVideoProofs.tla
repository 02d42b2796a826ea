--------------------------- MODULE SendVideoProofs ---------------------------
(***************************************************************************)
(* Proofs about SendVideo, for every video, chunk length, message and      *)
(* limit of the adaptive streaming: types, the reference that is given     *)
(* back, and, where send() takes all it is given, that the client receives *)
(* the video in order and to its last byte.                                *)
(***************************************************************************)
EXTENDS SendVideo, NatLemmas, TLAPS

\* The values of the constants that the proofs use.
LEMMA Constants ==
    /\ CHUNK_SIZE \in Nat \ {0} /\ HeaderLen \in Nat \ {0} /\ UshortRange \in Nat \ {0}
    /\ MaxTime \in Nat /\ MaxRenew \in Nat
    /\ UPPER_LIMIT_TIME \in Nat /\ LOWER_LIMIT_TIME \in Nat
    /\ NoParam \notin Nat
    /\ \A d \in SendSeconds : d \in Nat
    /\ \A q \in Qualities \cup Positions : q \in Nat
BY SendAssumption

\* The streams of a video, with the offsets of their i-frames.
LEMMA StreamFacts ==
    ASSUME NEW v \in Videos, NEW p \in DOMAIN v.streams
    PROVE  LET s == v.streams[p] IN
           /\ v.stream_num \in Nat \ {0}
           /\ DOMAIN v.streams = 0 .. v.stream_num - 1
           /\ p \in Nat
           /\ s.iframe_num \in Nat \ {0} /\ s.iframe_num < UshortRange
           /\ s.data_size \in Nat
           /\ \A i \in 0 .. s.iframe_num - 1 : s.iframe_offset[i] \in Nat
           /\ s.iframe_offset[s.iframe_num - 1] < s.data_size
<1>1. IsVideo(v)
    BY SendAssumption
<1>2. IsStream(v.streams[p])
    BY <1>1 DEF IsVideo
<1> DEFINE s == v.streams[p]
<1>3. UshortRange \in Nat
    BY Constants
<1>4. /\ v.stream_num \in Nat \ {0}
      /\ DOMAIN v.streams = 0 .. v.stream_num - 1
      /\ p \in Nat
    BY <1>1 DEF IsVideo
<1>5. /\ s.iframe_num \in Nat \ {0} /\ s.iframe_num < UshortRange
      /\ s.data_size \in Nat
      /\ s.iframe_offset \in [0 .. s.iframe_num - 1 -> Nat]
      /\ s.iframe_offset[s.iframe_num - 1] < s.data_size
    BY <1>2, <1>3 DEF IsStream
<1> HIDE DEF s
<1>6. \A i \in 0 .. s.iframe_num - 1 : s.iframe_offset[i] \in Nat
    BY <1>5
<1>7. QED
    BY <1>4, <1>5, <1>6 DEF s

\* An unsigned short.
LEMMA UshortFacts ==
    ASSUME NEW n \in Nat
    PROVE  Ushort(n) \in 0 .. UshortRange - 1 /\ (n < UshortRange => Ushort(n) = n)
<1>1. UshortRange \in Nat \ {0}
    BY Constants
<1>2. n % UshortRange \in 0 .. UshortRange - 1
    BY <1>1
<1>3. n < UshortRange => n % UshortRange = n
    BY <1>1, ModOfSmall
<1>4. QED
    BY <1>2, <1>3 DEF Ushort

\* get_next_offset() skips the i-frames that begin where the first one does,
\* unless there is no first one.
LEMMA NextOffset ==
    ASSUME NEW v \in Videos, NEW p \in DOMAIN v.streams,
           NEW first \in 0 .. UshortRange - 1, NEW jump \in {1, 2},
           ~ReadsBeyond(v.streams[p], first, jump)
    PROVE  LET s == v.streams[p]
               next == Ushort(first + jump)
               n == get_next_offset(s, first, jump)
           IN  /\ n \in 0 .. UshortRange - 1
               /\ next >= s.iframe_num => n = next
               /\ next < s.iframe_num =>
                    /\ first < s.iframe_num
                    /\ n \in next .. s.iframe_num
                    /\ n < s.iframe_num => s.iframe_offset[n] # s.iframe_offset[first]
                    /\ \A i \in next .. n - 1 :
                           s.iframe_offset[i] = s.iframe_offset[first]
<1> DEFINE s == v.streams[p]
           next == Ushort(first + jump)
           other == { i \in next .. s.iframe_num - 1 :
                        s.iframe_offset[i] # s.iframe_offset[first] }
           n == get_next_offset(s, first, jump)
<1>1. s.iframe_num \in Nat \ {0} /\ s.iframe_num < UshortRange /\ UshortRange \in Nat
    BY StreamFacts, Constants
<1>2. next \in 0 .. UshortRange - 1
    BY <1>1, UshortFacts
<1>3. n = IF next >= s.iframe_num THEN next ELSE Min(other \cup {s.iframe_num})
    BY DEF get_next_offset
<1>4. next < s.iframe_num => first < s.iframe_num
    BY <1>1 DEF ReadsBeyond
<1> HIDE DEF next, s
<1>5. CASE next >= s.iframe_num
    BY <1>1, <1>2, <1>3, <1>5 DEF next, s
<1>6. CASE ~(next >= s.iframe_num)
  <2> DEFINE T == other \cup {s.iframe_num}
  <2>1. T \subseteq Nat /\ T # {}
      BY <1>1, <1>2
  <2> HIDE DEF T
  <2>2. Min(T) \in T /\ \A y \in T : Min(T) <= y
      BY <2>1, MinOfSet
  <2>3. n = Min(T)
      BY <1>3, <1>6 DEF T
  <2> HIDE DEF n
  <2>4. n \in T /\ \A y \in T : n <= y
      BY <2>2, <2>3
  <2>5. n \in next .. s.iframe_num /\ (n < s.iframe_num => n \in other)
      BY <1>1, <1>2, <1>6, <2>4 DEF T
  <2>6. \A i \in next .. n - 1 : i \notin other
      BY <1>1, <1>2, <2>4, <2>5 DEF T
  <2>7. n \in 0 .. UshortRange - 1
      BY <1>1, <1>2, <2>5
  <2>8. /\ n < s.iframe_num => s.iframe_offset[n] # s.iframe_offset[first]
        /\ \A i \in next .. n - 1 : s.iframe_offset[i] = s.iframe_offset[first]
      BY <1>1, <1>2, <2>5, <2>6
  <2>9. QED
      BY <1>1, <1>2, <1>4, <1>6, <2>5, <2>7, <2>8 DEF n, next, s
<1>7. QED
    BY <1>5, <1>6

\* The next i-frame but for those without data: it has data, and begins where
\* the one before number `first' ends.
LEMMA NextHasData ==
    ASSUME NEW v \in Videos, NEW p \in DOMAIN v.streams,
           NEW first \in 0 .. v.streams[p].iframe_num - 1
    PROVE  LET s == v.streams[p]
               n == get_next_offset(s, first, 1)
           IN  /\ n \in first + 1 .. s.iframe_num
               /\ HasData(s, n)
               /\ s.iframe_offset[n - 1] = s.iframe_offset[first]
<1> DEFINE s == v.streams[p]
           n == get_next_offset(s, first, 1)
<1>1. /\ s.iframe_num \in Nat \ {0} /\ s.iframe_num < UshortRange /\ UshortRange \in Nat
      /\ \A i \in 0 .. s.iframe_num - 1 : s.iframe_offset[i] \in Nat
    BY StreamFacts, Constants
<1>2. first \in 0 .. UshortRange - 1 /\ first + 1 \in Nat /\ first + 1 < UshortRange
    BY <1>1
<1>3. Ushort(first + 1) = first + 1 /\ ~ReadsBeyond(s, first, 1)
    BY <1>1, <1>2, UshortFacts DEF ReadsBeyond
<1>4. /\ first + 1 >= s.iframe_num => n = first + 1
      /\ first + 1 < s.iframe_num =>
           /\ n \in first + 1 .. s.iframe_num
           /\ n < s.iframe_num => s.iframe_offset[n] # s.iframe_offset[first]
           /\ \A i \in first + 1 .. n - 1 : s.iframe_offset[i] = s.iframe_offset[first]
    BY <1>2, <1>3, NextOffset
<1> HIDE DEF n
<1>5. n \in first + 1 .. s.iframe_num
    BY <1>1, <1>4
<1>6. s.iframe_offset[n - 1] = s.iframe_offset[first]
  <2>1. n - 1 = first \/ (first + 1 < s.iframe_num /\ n - 1 \in first + 1 .. n - 1)
      BY <1>1, <1>4, <1>5
  <2>2. QED
      BY <1>4, <2>1
<1>7. HasData(s, n)
    BY <1>1, <1>4, <1>5, <1>6, SMTT(20) DEF HasData
<1>8. QED
    BY <1>5, <1>6, <1>7 DEF n

\* Where the offsets are in order and can be counted, the data of every i-frame
\* is inside the stream, and an i-frame that exists has a number behind it.
LEMMA WellFormedFacts ==
    ASSUME NEW v \in Videos, NEW p \in DOMAIN v.streams, WellFormed(v.streams[p]),
           NEW next \in 1 .. v.streams[p].iframe_num
    PROVE  /\ Inside(v.streams[p], IframeData(v.streams[p], next))
           /\ Ushort(next + 1) = next + 1
<1> DEFINE s == v.streams[p]
<1>1. /\ s.iframe_num \in Nat \ {0} /\ s.iframe_num < UshortRange /\ UshortRange \in Nat
      /\ s.data_size \in Nat
      /\ \A i \in 0 .. s.iframe_num - 1 : s.iframe_offset[i] \in Nat
      /\ s.iframe_offset[s.iframe_num - 1] < s.data_size
    BY StreamFacts, Constants
<1>2. /\ s.iframe_num < UshortRange - 1
      /\ \A i, j \in 0 .. s.iframe_num - 1 :
           i <= j => s.iframe_offset[i] <= s.iframe_offset[j]
    BY DEF WellFormed
<1> HIDE DEF s
<1>3. next \in 1 .. s.iframe_num
    BY DEF s
<1>4. next - 1 \in 0 .. s.iframe_num - 1 /\ s.iframe_num - 1 \in 0 .. s.iframe_num - 1
    BY <1>1, <1>3
<1>5. s.iframe_offset[next - 1] <= s.iframe_offset[s.iframe_num - 1]
    BY <1>1, <1>2, <1>4
<1>6. Inside(s, IframeData(s, next))
  <2>1. CASE next = s.iframe_num
      BY <1>1, <1>4, <1>5, <2>1 DEF Inside, IframeData, Part
  <2>2. CASE next # s.iframe_num
    <3>1. next \in 0 .. s.iframe_num - 1 /\ next - 1 <= next /\ next <= s.iframe_num - 1
        BY <1>1, <1>3, <2>2
    <3>2. /\ s.iframe_offset[next - 1] <= s.iframe_offset[next]
          /\ s.iframe_offset[next] <= s.iframe_offset[s.iframe_num - 1]
        BY <1>2, <1>4, <3>1
    <3>3. QED
        BY <1>1, <1>4, <2>2, <3>1, <3>2 DEF Inside, IframeData, Part
  <2>3. QED
      BY <2>1, <2>2
<1>7. Ushort(next + 1) = next + 1
  <2>1. next + 1 \in Nat /\ next + 1 < UshortRange
      BY <1>1, <1>2, <1>3
  <2>2. QED
      BY <2>1, UshortFacts
<1>8. QED
    BY <1>6, <1>7 DEF s

-----------------------------------------------------------------------------
(* Types, and the reference to the video.                                  *)

\* The streams of the video that is sent.
LEMMA CurrentStream ==
    ASSUME TypeOK, NEW p \in DOMAIN cur_video.streams
    PROVE  /\ Stream(p).iframe_num \in Nat \ {0}
           /\ Stream(p).iframe_num < UshortRange
           /\ Stream(p).data_size \in Nat
           /\ \A i \in 0 .. Stream(p).iframe_num - 1 : Stream(p).iframe_offset[i] \in Nat
BY StreamFacts DEF TypeOK, Stream

\* The data of the i-frame before a number of the stream.
LEMMA IframeIsPart ==
    ASSUME TypeOK, next_iframe \in 1 .. Stream(cur_stream).iframe_num
    PROVE  LET part == IframeData(Stream(cur_stream), next_iframe) IN
           /\ part.from = Stream(cur_stream).iframe_offset[next_iframe - 1]
           /\ part.to = IF next_iframe = Stream(cur_stream).iframe_num
                        THEN Stream(cur_stream).data_size
                        ELSE Stream(cur_stream).iframe_offset[next_iframe]
           /\ part.from \in Nat /\ part.to \in Nat
           /\ part.from # part.to <=> HasData(Stream(cur_stream), next_iframe)
<1> DEFINE s == Stream(cur_stream)
<1>1. /\ s.iframe_num \in Nat \ {0}
      /\ s.data_size \in Nat
      /\ \A i \in 0 .. s.iframe_num - 1 : s.iframe_offset[i] \in Nat
      /\ s.iframe_offset[s.iframe_num - 1] < s.data_size
    BY StreamFacts DEF TypeOK, Stream
<1> HIDE DEF s
<1>2. next_iframe - 1 \in 0 .. s.iframe_num - 1
    BY <1>1 DEF s
<1>3. CASE next_iframe = s.iframe_num
    BY <1>1, <1>2, <1>3 DEF s, IframeData, Part, HasData
<1>4. CASE next_iframe \in 1 .. s.iframe_num - 1
    BY <1>1, <1>2, <1>4 DEF s, IframeData, Part, HasData
<1>5. QED
    BY <1>1, <1>3, <1>4 DEF s

\* Nothing is sent before the beginning.
Fresh == pc = "idle" => ~sent

TypeInv == TypeOK /\ PlaceInv /\ Released /\ Fresh

\* The time stays within its bound.
LEMMA TimeBounded ==
    ASSUME TypeOK, TimeSpent
    PROVE  spent_time' \in 0 .. MaxTime
<1>1. PICK d \in SendSeconds : spent_time' = Min({spent_time + d, MaxTime})
    BY DEF TimeSpent
<1>2. d \in Nat /\ MaxTime \in Nat /\ spent_time \in 0 .. MaxTime
    BY Constants DEF TypeOK
<1>3. QED
    BY <1>1, <1>2, MinOfTwo

\* What send_video() begins with: the whole reply ends with the stream, the first
\* one of several ends where the i-frame before next_iframe begins.
LEMMA StartFacts ==
    ASSUME TypeInv, NEW q \in Qualities \cup {NoParam}, NEW p \in Positions \cup {NoParam},
           Start(q, p)
    PROVE  LET s == Stream(cur_stream') IN
           /\ cur_stream' = cur_stream_pos' /\ cur_stream' \in DOMAIN cur_video.streams
           /\ UNCHANGED <<cur_video, chunks_sent, sent, times, client>>
           /\ s.iframe_num \in Nat /\ buf'.from \in Int /\ buf'.to \in Int
           /\ next_iframe' \in 0 .. UshortRange - 1
           /\ \/ /\ pc' = "whole"
                 /\ buf'.from < buf'.to /\ buf'.to = s.data_size
              \/ /\ pc' = "first"
                 /\ next_iframe' \in 1 .. s.iframe_num
                 /\ HasData(s, next_iframe')
                 /\ buf'.to = s.iframe_offset[next_iframe' - 1]
              \/ pc' = "undefined"
<1> DEFINE stream_pos == IF q # NoParam /\ Ushort(q) <= cur_video.stream_num - 1
                         THEN Ushort(q) ELSE cur_video.stream_num \div 2
           s == Stream(stream_pos)
           first == IF p # NoParam /\ Ushort(p) <= s.iframe_num - 1 THEN Ushort(p) ELSE 0
           next == get_next_offset(s, first, 2)
           whole == cur_video.stream_num = 1 \/ q # NoParam
           part == Part(s.iframe_offset[first],
                        IF whole THEN s.data_size ELSE s.iframe_offset[next])
           after == get_next_offset(s, next, 1)
<1>1. /\ cur_video \in Videos
      /\ cur_video.stream_num \in Nat \ {0}
      /\ DOMAIN cur_video.streams = 0 .. cur_video.stream_num - 1
      /\ buf.from \in Int /\ buf.to \in Int
      /\ next_iframe \in 0 .. UshortRange - 1
    BY StreamFacts DEF TypeInv, TypeOK
<1>2. stream_pos \in DOMAIN cur_video.streams
  <2>1. q # NoParam => Ushort(q) \in Nat
      BY Constants, UshortFacts
  <2>2. QED
      BY <1>1, <2>1
<1>3. /\ cur_stream_pos' = stream_pos /\ cur_stream' = stream_pos
      /\ \/ /\ (whole \/ next < s.iframe_num) /\ Inside(s, part)
            /\ buf' = [part EXCEPT !.from = @ - HeaderLen]
            /\ next_iframe' = IF whole THEN first ELSE after
            /\ pc' = IF whole THEN "whole" ELSE "first"
         \/ pc' = "undefined" /\ UNCHANGED <<buf, next_iframe>>
      /\ UNCHANGED <<cur_video, chunks_sent, sent, times, client>>
    BY ZenonT(20) DEF Start
<1> HIDE DEF stream_pos
<1>4. /\ s.iframe_num \in Nat \ {0} /\ s.iframe_num < UshortRange
      /\ s.data_size \in Nat
      /\ \A i \in 0 .. s.iframe_num - 1 : s.iframe_offset[i] \in Nat
    BY <1>1, <1>2, StreamFacts DEF Stream
<1>5. s = cur_video.streams[stream_pos]
    BY DEF Stream
<1> HIDE DEF s
<1>6. first \in 0 .. s.iframe_num - 1 /\ first \in 0 .. UshortRange - 1
  <2>1. p # NoParam => Ushort(p) \in Nat
      BY Constants, UshortFacts
  <2>2. UshortRange \in Nat
      BY Constants
  <2>3. QED
      BY <1>4, <2>1, <2>2
<1> HIDE DEF first
<1>7. next \in Nat
  <2>1. ~ReadsBeyond(s, first, 2)
      BY <1>4, <1>6 DEF ReadsBeyond
  <2>2. next \in 0 .. UshortRange - 1
      BY <1>1, <1>2, <1>5, <1>6, <2>1, NextOffset
  <2> HIDE DEF next
  <2>3. QED
      BY <2>2
<1> HIDE DEF next
<1>8. next < s.iframe_num =>
          /\ after \in 1 .. s.iframe_num
          /\ HasData(s, after)
          /\ s.iframe_offset[after - 1] = s.iframe_offset[next]
          /\ s.iframe_offset[next] \in Nat
  <2> SUFFICES ASSUME next < s.iframe_num
               PROVE  /\ after \in 1 .. s.iframe_num
                      /\ HasData(s, after)
                      /\ s.iframe_offset[after - 1] = s.iframe_offset[next]
                      /\ s.iframe_offset[next] \in Nat
      OBVIOUS
  <2>1. next \in 0 .. s.iframe_num - 1
      BY <1>4, <1>7
  <2>2. /\ after \in next + 1 .. s.iframe_num
        /\ HasData(s, after)
        /\ s.iframe_offset[after - 1] = s.iframe_offset[next]
      BY <1>1, <1>2, <1>5, <2>1, NextHasData
  <2> HIDE DEF after
  <2>3. QED
      BY <1>4, <2>1, <2>2
<1> HIDE DEF after
<1>9. Stream(cur_stream') = s
    BY <1>3, <1>5 DEF Stream
<1>10. /\ buf'.from \in Int /\ buf'.to \in Int
       /\ next_iframe' \in 0 .. UshortRange - 1
       /\ \/ /\ pc' = "whole"
             /\ buf'.from < buf'.to /\ buf'.to = s.data_size
          \/ /\ pc' = "first"
             /\ next_iframe' \in 1 .. s.iframe_num
             /\ HasData(s, next_iframe')
             /\ buf'.to = s.iframe_offset[next_iframe' - 1]
          \/ pc' = "undefined"
  <2>1. CASE pc' = "undefined" /\ UNCHANGED <<buf, next_iframe>>
      BY <1>1, <2>1
  <2>2. CASE /\ (whole \/ next < s.iframe_num) /\ Inside(s, part)
             /\ buf' = [part EXCEPT !.from = @ - HeaderLen]
             /\ next_iframe' = IF whole THEN first ELSE after
             /\ pc' = IF whole THEN "whole" ELSE "first"
    <3>1. /\ part.from = s.iframe_offset[first] /\ part.from \in Nat
          /\ part.to = IF whole THEN s.data_size ELSE s.iframe_offset[next]
        BY <1>4, <1>6 DEF Part
    <3>2. part.from <= part.to
        BY <2>2 DEF Inside
    <3>3. buf'.from = part.from - HeaderLen /\ buf'.to = part.to
        BY <2>2 DEF Part
    <3>4. HeaderLen \in Nat \ {0} /\ UshortRange \in Nat
        BY Constants
    <3>5. CASE whole
      <4>1. part.to = s.data_size
          BY <3>1, <3>5
      <4> HIDE DEF part
      <4>2. QED
          BY <1>4, <1>6, <2>2, <3>1, <3>2, <3>3, <3>4, <3>5, <4>1
    <3>6. CASE ~whole
      <4>1. part.to = s.iframe_offset[next] /\ next < s.iframe_num
          BY <2>2, <3>1, <3>6
      <4> HIDE DEF part
      <4>2. /\ pc' = "first" /\ next_iframe' = after
            /\ after \in 1 .. s.iframe_num
            /\ HasData(s, after)
            /\ buf'.to = s.iframe_offset[after - 1]
            /\ buf'.to \in Nat
          BY <1>8, <2>2, <3>3, <3>6, <4>1
      <4>3. QED
          BY <1>4, <3>1, <3>3, <3>4, <4>2
    <3>7. QED
        BY <3>5, <3>6
  <2>3. QED
      BY <1>3, <2>1, <2>2
<1>11. QED
    BY <1>2, <1>3, <1>4, <1>9, <1>10

LEMMA StartTypes ==
    ASSUME TypeInv, NEW q \in Qualities \cup {NoParam}, NEW p \in Positions \cup {NoParam},
           Start(q, p)
    PROVE  TypeInv'
<1> DEFINE s == Stream(cur_stream')
<1>1. /\ cur_stream' = cur_stream_pos' /\ cur_stream' \in DOMAIN cur_video.streams
      /\ UNCHANGED <<cur_video, chunks_sent, sent, times, client>>
      /\ s.iframe_num \in Nat /\ buf'.from \in Int /\ buf'.to \in Int
      /\ next_iframe' \in 0 .. UshortRange - 1
      /\ \/ pc' = "whole"
         \/ pc' = "first" /\ next_iframe' \in 1 .. s.iframe_num
         \/ pc' = "undefined"
    BY StartFacts
<1>2. references' = 1 /\ quality' = (q # NoParam) /\ pc = "idle"
    BY DEF Start
<1>3. s = Stream(cur_stream)'
    BY <1>1 DEF Stream
<1>4. TypeOK'
  <2>1. quality' \in BOOLEAN
      BY <1>2
  <2>2. (pc \in {"idle", "whole", "first", "loop", "chunks", "renew"} \/ Over)'
      BY <1>1 DEF Over
  <2>3. /\ cur_video' \in Videos
        /\ references' \in 0 .. 1
      BY <1>1, <1>2 DEF TypeInv, TypeOK
  <2>4. /\ (cur_stream_pos \in DOMAIN cur_video.streams)'
        /\ (cur_stream \in DOMAIN cur_video.streams)'
      BY <1>1
  <2>5. /\ sent' \in BOOLEAN /\ chunks_sent' \in Nat
        /\ {spent_time, cached_time}' \subseteq 0 .. MaxTime
        /\ renews' \in 0 .. MaxRenew
      BY <1>1 DEF TypeInv, TypeOK, times, client
  <2>6. QED
      BY <1>1, <2>1, <2>2, <2>3, <2>4, <2>5 DEF TypeOK
<1>5. PlaceInv' /\ Fresh'
  <2>1. sent' = FALSE
      BY <1>1, <1>2 DEF TypeInv, TypeOK, Fresh
  <2> HIDE DEF s
  <2>2. QED
      BY <1>1, <1>3, <2>1 DEF PlaceInv, Fresh
<1>6. Released'
    BY <1>1, <1>2 DEF Released
<1>7. QED
    BY <1>4, <1>5, <1>6 DEF TypeInv

\* A step that leaves the stream alone.
LEMMA TypeFrame ==
    ASSUME TypeInv, UNCHANGED <<request, cur_stream>>,
           (pc \in {"idle", "whole", "first", "loop", "chunks", "renew"} \/ Over)',
           cur_stream_pos' \in DOMAIN cur_video.streams,
           next_iframe' \in 0 .. UshortRange - 1,
           buf'.from \in Int, buf'.to \in Int, chunks_sent' \in Nat,
           sent' \in BOOLEAN,
           spent_time' \in 0 .. MaxTime, cached_time' \in 0 .. MaxTime,
           renews' \in 0 .. MaxRenew, references' \in 0 .. 1
    PROVE  TypeOK'
<1>1. /\ cur_video' \in Videos
      /\ (cur_stream_pos \in DOMAIN cur_video.streams)'
      /\ (cur_stream \in DOMAIN cur_video.streams)'
    BY DEF TypeInv, TypeOK, request
<1>2. quality' \in BOOLEAN
    BY DEF TypeInv, TypeOK, request
<1>3. QED
    BY <1>1, <1>2 DEF TypeOK

\* The client is gone: the reference is given back.
LEMMA StopTypes ==
    ASSUME TypeInv, pc \in {"whole", "first", "loop", "chunks"}, Stop
    PROVE  TypeInv'
<1>1. references = 1
    BY DEF TypeInv, Released
<1>2. /\ pc' = "stopped" /\ references' = 0
      /\ UNCHANGED <<request, place, output, sent, times, client>>
    BY <1>1 DEF Stop
<1>3. TypeOK'
  <2>1. /\ UNCHANGED <<request, cur_stream>>
        /\ cur_stream_pos' \in DOMAIN cur_video.streams
        /\ next_iframe' \in 0 .. UshortRange - 1
        /\ buf'.from \in Int /\ buf'.to \in Int /\ chunks_sent' \in Nat
        /\ sent' \in BOOLEAN
        /\ spent_time' \in 0 .. MaxTime /\ cached_time' \in 0 .. MaxTime
        /\ renews' \in 0 .. MaxRenew /\ references' \in 0 .. 1
      BY <1>2 DEF TypeInv, TypeOK, place, output, times, client
  <2>2. (pc \in {"idle", "whole", "first", "loop", "chunks", "renew"} \/ Over)'
      BY <1>2 DEF Over
  <2>3. QED
      BY <2>1, <2>2, TypeFrame
<1>4. PlaceInv' /\ Released' /\ Fresh'
    BY <1>2 DEF PlaceInv, Released, Fresh
<1>5. QED
    BY <1>3, <1>4 DEF TypeInv

\* A send() of the stream leaves types alone.
LEMMA SendTypes ==
    ASSUME TypeInv, NEW part, SendOk(part)
    PROVE  sent' \in BOOLEAN /\ renews' = renews
BY DEF SendOk, Taken

LEMMA SendWholeTypes ==
    ASSUME TypeInv, SendWhole
    PROVE  TypeInv'
<1>1. references = 1
    BY DEF TypeInv, Released, SendWhole
<1>2. /\ pc = "whole"
      /\ \/ pc' = "whole" /\ references' = 1
         \/ pc' = "done" /\ references' = 0
      /\ chunks_sent' = chunks_sent + 1
      /\ SendOk(Chunk(chunks_sent)) /\ TimeSpent
      /\ UNCHANGED <<request, place, buf, cached_time>>
    BY <1>1 DEF SendWhole
<1>3. sent' \in BOOLEAN /\ renews' = renews /\ spent_time' \in 0 .. MaxTime
    BY <1>2, SendTypes, TimeBounded DEF TypeInv
<1>4. TypeOK'
  <2>1. /\ UNCHANGED <<request, cur_stream>>
        /\ cur_stream_pos' \in DOMAIN cur_video.streams
        /\ next_iframe' \in 0 .. UshortRange - 1
        /\ buf'.from \in Int /\ buf'.to \in Int /\ chunks_sent' \in Nat
        /\ cached_time' \in 0 .. MaxTime
        /\ renews' \in 0 .. MaxRenew /\ references' \in 0 .. 1
      BY <1>2, <1>3 DEF TypeInv, TypeOK, place
  <2>2. (pc \in {"idle", "whole", "first", "loop", "chunks", "renew"} \/ Over)'
      BY <1>2 DEF Over
  <2>3. QED
      BY <1>3, <2>1, <2>2, TypeFrame
<1>5. PlaceInv' /\ Released' /\ Fresh'
    BY <1>2 DEF PlaceInv, Released, Fresh
<1>6. QED
    BY <1>4, <1>5 DEF TypeInv

\* The send() timeout is divided by zero: the process ends, with the video.
LEMMA WholeFailsTypes ==
    ASSUME TypeInv, WholeFails
    PROVE  TypeInv'
<1>1. CASE Stop
    BY <1>1, StopTypes DEF WholeFails
<1>2. CASE /\ pc' = "divided by zero"
           /\ UNCHANGED <<request, place, output, sent, times, client, references>>
  <2>1. /\ UNCHANGED <<request, cur_stream>>
        /\ cur_stream_pos' \in DOMAIN cur_video.streams
        /\ next_iframe' \in 0 .. UshortRange - 1
        /\ buf'.from \in Int /\ buf'.to \in Int /\ chunks_sent' \in Nat
        /\ sent' \in BOOLEAN
        /\ spent_time' \in 0 .. MaxTime /\ cached_time' \in 0 .. MaxTime
        /\ renews' \in 0 .. MaxRenew /\ references' \in 0 .. 1
      BY <1>2 DEF TypeInv, TypeOK, place, output, times, client
  <2>2. (pc \in {"idle", "whole", "first", "loop", "chunks", "renew"} \/ Over)'
      BY <1>2 DEF Over
  <2>3. TypeOK'
      BY <2>1, <2>2, TypeFrame
  <2>4. PlaceInv' /\ Released' /\ Fresh'
      BY <1>2 DEF WholeFails, TypeInv, PlaceInv, Released, Fresh
  <2>5. QED
      BY <2>3, <2>4 DEF TypeInv
<1>3. QED
    BY <1>1, <1>2 DEF WholeFails

LEMMA SendFirstTypes ==
    ASSUME TypeInv, SendFirst
    PROVE  TypeInv'
<1>1. /\ pc = "first" /\ pc' = "loop"
      /\ SendOk(buf)
      /\ cached_time' = 0
      /\ UNCHANGED <<request, place, output, spent_time, references>>
    BY DEF SendFirst
<1>2. sent' \in BOOLEAN /\ renews' = renews
    BY <1>1, SendTypes
<1>3. TypeOK'
  <2>1. /\ UNCHANGED <<request, cur_stream>>
        /\ cur_stream_pos' \in DOMAIN cur_video.streams
        /\ next_iframe' \in 0 .. UshortRange - 1
        /\ buf'.from \in Int /\ buf'.to \in Int /\ chunks_sent' \in Nat
        /\ spent_time' \in 0 .. MaxTime /\ cached_time' \in 0 .. MaxTime
        /\ renews' \in 0 .. MaxRenew /\ references' \in 0 .. 1
      BY <1>1, <1>2, Constants DEF TypeInv, TypeOK, place, output
  <2>2. (pc \in {"idle", "whole", "first", "loop", "chunks", "renew"} \/ Over)'
      BY <1>1
  <2>3. QED
      BY <1>2, <2>1, <2>2, TypeFrame
<1>4. PlaceInv' /\ Released' /\ Fresh'
    BY <1>1 DEF TypeInv, PlaceInv, Released, place, Fresh
<1>5. QED
    BY <1>3, <1>4 DEF TypeInv

LEMMA NextIframeTypes ==
    ASSUME TypeInv, NextIframe
    PROVE  TypeInv'
<1> DEFINE s == Stream(cur_stream)
           data == IframeData(s, next_iframe)
<1>1. /\ pc = "loop" /\ next_iframe <= s.iframe_num
      /\ \/ Inside(s, data) /\ pc' = "chunks" /\ buf' = data /\ chunks_sent' = 0
         \/ ~Inside(s, data) /\ pc' = "undefined" /\ UNCHANGED output
      /\ UNCHANGED <<request, place, sent, times, client, references>>
    BY DEF NextIframe
<1>2. next_iframe \in 1 .. s.iframe_num
  <2>1. s.iframe_num \in Nat
      BY CurrentStream DEF TypeInv, TypeOK
  <2>2. QED
      BY <1>1, <2>1 DEF TypeInv, TypeOK, PlaceInv
<1>3. buf'.from \in Int /\ buf'.to \in Int /\ chunks_sent' \in Nat
  <2>1. data.from \in Int /\ data.to \in Int
      BY <1>2, IframeIsPart DEF TypeInv
  <2>2. buf.from \in Int /\ buf.to \in Int /\ chunks_sent \in Nat
      BY DEF TypeInv, TypeOK
  <2> HIDE DEF data
  <2>3. QED
      BY <1>1, <2>1, <2>2 DEF output
<1>4. TypeOK'
  <2>1. /\ UNCHANGED <<request, cur_stream>>
        /\ cur_stream_pos' \in DOMAIN cur_video.streams
        /\ next_iframe' \in 0 .. UshortRange - 1
        /\ sent' \in BOOLEAN
        /\ spent_time' \in 0 .. MaxTime /\ cached_time' \in 0 .. MaxTime
        /\ renews' \in 0 .. MaxRenew /\ references' \in 0 .. 1
      BY <1>1 DEF TypeInv, TypeOK, place, times, client
  <2>2. (pc \in {"idle", "whole", "first", "loop", "chunks", "renew"} \/ Over)'
      BY <1>1 DEF Over
  <2>3. QED
      BY <1>3, <2>1, <2>2, TypeFrame
<1>5. ~Inside(s, data) => ~WellFormed(s)
  <2>1. cur_video \in Videos /\ cur_stream \in DOMAIN cur_video.streams
      BY DEF TypeInv, TypeOK
  <2>2. s = cur_video.streams[cur_stream]
      BY DEF Stream
  <2> HIDE DEF s
  <2>3. QED
      BY <1>2, <2>1, <2>2, WellFormedFacts
<1>6. PlaceInv'
  <2>1. /\ next_iframe' = next_iframe /\ cur_video' = cur_video /\ cur_stream' = cur_stream
        /\ \A p : Stream(p)' = Stream(p)
      BY <1>1 DEF place, request, Stream
  <2>2. CASE Inside(s, data) /\ pc' = "chunks" /\ buf' = data
    <3>1. next_iframe > 0
        BY <1>2
    <3> HIDE DEF data
    <3>2. Inside(Stream(cur_stream), buf)'
        BY <2>1, <2>2 DEF Inside
    <3>3. QED
        BY <1>1, <2>1, <2>2, <3>1, <3>2 DEF PlaceInv
  <2>3. CASE ~Inside(s, data) /\ pc' = "undefined"
    <3>1. ~WellFormed(Stream(cur_stream))'
        BY <1>5, <2>1, <2>3 DEF WellFormed
    <3>2. cur_stream \in DOMAIN cur_video.streams
        BY DEF TypeInv, TypeOK
    <3>3. (\E p \in DOMAIN cur_video.streams : ~WellFormed(Stream(p)))'
        BY <2>1, <3>1, <3>2
    <3>4. QED
        BY <2>3, <3>3 DEF PlaceInv
  <2>4. QED
      BY <1>1, <2>2, <2>3
<1>7. Released' /\ Fresh'
    BY <1>1 DEF TypeInv, Released, Fresh
<1>8. QED
    BY <1>4, <1>6, <1>7 DEF TypeInv

LEMMA SendChunkTypes ==
    ASSUME TypeInv, SendChunk
    PROVE  TypeInv'
<1>1. /\ pc = "chunks" /\ chunks_sent' = chunks_sent + 1
      /\ SendOk(Chunk(chunks_sent)) /\ TimeSpent
      /\ UNCHANGED <<pc, request, place, buf, cached_time, references>>
    BY DEF SendChunk
<1>2. sent' \in BOOLEAN /\ renews' = renews /\ spent_time' \in 0 .. MaxTime
    BY <1>1, SendTypes, TimeBounded DEF TypeInv
<1>3. TypeOK'
  <2>1. /\ UNCHANGED <<request, cur_stream>>
        /\ cur_stream_pos' \in DOMAIN cur_video.streams
        /\ next_iframe' \in 0 .. UshortRange - 1
        /\ buf'.from \in Int /\ buf'.to \in Int /\ chunks_sent' \in Nat
        /\ cached_time' \in 0 .. MaxTime
        /\ renews' \in 0 .. MaxRenew /\ references' \in 0 .. 1
      BY <1>1, <1>2 DEF TypeInv, TypeOK, place
  <2>2. (pc \in {"idle", "whole", "first", "loop", "chunks", "renew"} \/ Over)'
      BY <1>1
  <2>3. QED
      BY <1>2, <2>1, <2>2, TypeFrame
<1>4. PlaceInv'
  <2>1. /\ next_iframe' = next_iframe /\ buf' = buf
        /\ Stream(cur_stream)' = Stream(cur_stream)
      BY <1>1 DEF place, request, Stream
  <2>2. QED
      BY <1>1, <2>1 DEF TypeInv, PlaceInv, Inside
<1>5. Released' /\ Fresh'
    BY <1>1 DEF TypeInv, Released, Fresh
<1>6. QED
    BY <1>3, <1>4, <1>5 DEF TypeInv

\* Adaptive streaming stays between the streams there are, and the number of the
\* next i-frame grows, unless the streams have too many of them.
LEMMA AdaptTypes ==
    ASSUME TypeInv, Adapt
    PROVE  TypeInv'
<1> DEFINE s == Stream(cur_stream)
           r == Stream(cur_stream')
<1>1. /\ pc = "chunks"
      /\ \/ ReadsBeyond(r, next_iframe, 1) /\ pc' = "undefined" /\ UNCHANGED next_iframe
         \/ /\ ~ReadsBeyond(r, next_iframe, 1) /\ pc' = "renew"
            /\ next_iframe' = get_next_offset(r, next_iframe, 1)
      /\ UNCHANGED <<request, output, sent, spent_time, client, references>>
    BY DEF Adapt
<1>2. /\ cur_video \in Videos
      /\ cur_video.stream_num \in Nat
      /\ DOMAIN cur_video.streams = 0 .. cur_video.stream_num - 1
      /\ cur_stream_pos \in DOMAIN cur_video.streams
      /\ cur_stream \in DOMAIN cur_video.streams
    BY StreamFacts DEF TypeInv, TypeOK
<1>3. /\ cur_stream_pos' \in DOMAIN cur_video.streams
      /\ cur_stream' \in DOMAIN cur_video.streams
    BY <1>2 DEF Adapt
<1>4. cached_time' \in 0 .. MaxTime
  <2> DEFINE saved == cached_time + (1 - spent_time)
  <2>1. saved \in Int /\ MaxTime \in Nat /\ cached_time \in 0 .. MaxTime
      BY Constants DEF TypeInv, TypeOK
  <2>2. Min({saved, MaxTime}) = IF saved <= MaxTime THEN saved ELSE MaxTime
      BY <2>1, MinOfTwo
  <2>3. cached_time' = IF saved > 0 THEN Min({saved, MaxTime}) ELSE cached_time
      BY DEF Adapt
  <2>4. QED
      BY <2>1, <2>2, <2>3
<1>5. /\ s = cur_video.streams[cur_stream] /\ r = cur_video.streams[cur_stream']
      /\ s.iframe_num \in Nat \ {0} /\ s.iframe_num < UshortRange
      /\ r.iframe_num \in Nat \ {0} /\ r.iframe_num < UshortRange
      /\ UshortRange \in Nat
    BY <1>2, <1>3, StreamFacts, Constants DEF Stream
<1> HIDE DEF s, r
<1>6. next_iframe \in 1 .. s.iframe_num /\ next_iframe \in 0 .. UshortRange - 1
    BY <1>1, <1>5 DEF TypeInv, TypeOK, PlaceInv, s
<1>7. next_iframe' \in 0 .. UshortRange - 1 /\ (pc' = "renew" => next_iframe' > 0)
  <2>1. CASE ReadsBeyond(r, next_iframe, 1) /\ pc' = "undefined" /\ UNCHANGED next_iframe
      BY <1>6, <2>1
  <2>2. CASE /\ ~ReadsBeyond(r, next_iframe, 1)
             /\ next_iframe' = get_next_offset(r, next_iframe, 1)
    <3> DEFINE next == Ushort(next_iframe + 1)
    <3>1. /\ next_iframe' \in 0 .. UshortRange - 1
          /\ next >= r.iframe_num => next_iframe' = next
          /\ next < r.iframe_num => /\ next_iframe < r.iframe_num
                                    /\ next_iframe' \in next .. r.iframe_num
        BY <1>2, <1>3, <1>5, <1>6, <2>2, NextOffset, SMTT(30)
    <3>2. /\ next \in 0 .. UshortRange - 1
          /\ next_iframe + 1 < UshortRange => next = next_iframe + 1
        BY <1>6, UshortFacts
    <3> HIDE DEF next
    <3>3. next_iframe' > 0
        BY <1>5, <1>6, <3>1, <3>2
    <3>4. QED
        BY <3>1, <3>3
  <2>3. QED
      BY <1>1, <2>1, <2>2
<1>8. TypeOK'
  <2>1. /\ cur_video' \in Videos
        /\ (cur_stream_pos \in DOMAIN cur_video.streams)'
        /\ (cur_stream \in DOMAIN cur_video.streams)'
      BY <1>1, <1>2, <1>3 DEF request
  <2>2. /\ quality' \in BOOLEAN /\ sent' \in BOOLEAN
        /\ buf'.from \in Int /\ buf'.to \in Int /\ chunks_sent' \in Nat
        /\ renews' \in 0 .. MaxRenew /\ references' \in 0 .. 1
        /\ spent_time' \in 0 .. MaxTime
      BY <1>1 DEF TypeInv, TypeOK, request, output, client
  <2>3. (pc \in {"idle", "whole", "first", "loop", "chunks", "renew"} \/ Over)'
      BY <1>1 DEF Over
  <2>4. QED
      BY <1>4, <1>7, <2>1, <2>2, <2>3 DEF TypeOK
<1>9. ReadsBeyond(r, next_iframe, 1) => ~WellFormed(s)
  <2> SUFFICES ASSUME WellFormed(s)
               PROVE  ~ReadsBeyond(r, next_iframe, 1)
      OBVIOUS
  <2>1. Ushort(next_iframe + 1) = next_iframe + 1
      BY <1>2, <1>5, <1>6, WellFormedFacts
  <2>2. QED
      BY <1>5, <1>6, <2>1 DEF ReadsBeyond
<1>10. PlaceInv'
  <2>1. CASE pc' = "renew"
      BY <1>7, <2>1 DEF PlaceInv
  <2>2. CASE ReadsBeyond(r, next_iframe, 1) /\ pc' = "undefined"
    <3>1. cur_video' = cur_video /\ \A p : Stream(p)' = Stream(p)
        BY <1>1 DEF request, Stream
    <3>2. ~WellFormed(Stream(cur_stream))
        BY <1>9, <2>2 DEF s
    <3>3. \E p \in DOMAIN cur_video.streams : ~WellFormed(Stream(p))
        BY <1>2, <3>2
    <3>4. (\E p \in DOMAIN cur_video.streams : ~WellFormed(Stream(p)))'
        BY <3>1, <3>3 DEF WellFormed
    <3>5. QED
        BY <2>2, <3>4 DEF PlaceInv
  <2>3. QED
      BY <1>1, <2>1, <2>2
<1>11. Released' /\ Fresh'
    BY <1>1 DEF TypeInv, Released, Fresh
<1>12. QED
    BY <1>8, <1>10, <1>11 DEF TypeInv

LEMMA NoMessageTypes ==
    ASSUME TypeInv, NoMessage
    PROVE  TypeInv'
<1>1. /\ pc = "renew" /\ pc' = "loop"
      /\ UNCHANGED <<request, place, output, sent, times, client, references>>
    BY DEF NoMessage
<1>2. TypeOK'
  <2>1. /\ UNCHANGED <<request, cur_stream>>
        /\ cur_stream_pos' \in DOMAIN cur_video.streams
        /\ next_iframe' \in 0 .. UshortRange - 1
        /\ buf'.from \in Int /\ buf'.to \in Int /\ chunks_sent' \in Nat
        /\ sent' \in BOOLEAN
        /\ spent_time' \in 0 .. MaxTime /\ cached_time' \in 0 .. MaxTime
        /\ renews' \in 0 .. MaxRenew /\ references' \in 0 .. 1
      BY <1>1 DEF TypeInv, TypeOK, place, output, times, client
  <2>2. (pc \in {"idle", "whole", "first", "loop", "chunks", "renew"} \/ Over)'
      BY <1>1
  <2>3. QED
      BY <2>1, <2>2, TypeFrame
<1>3. PlaceInv' /\ Released' /\ Fresh'
    BY <1>1 DEF TypeInv, PlaceInv, Released, place, Fresh
<1>4. QED
    BY <1>2, <1>3 DEF TypeInv

\* A message of the client names a stream that is there, or the best one, and
\* an i-frame inside the stream.
LEMMA RenewTypes ==
    ASSUME TypeInv, NEW q \in Qualities \cup {NoParam}, NEW p \in Positions \cup {NoParam},
           Renew(q, p)
    PROVE  TypeInv'
<1>1. /\ pc = "renew" /\ pc' = "loop"
      /\ renews < MaxRenew /\ renews' = renews + 1
      /\ cur_stream_pos' = IF q = NoParam THEN cur_stream_pos
                           ELSE Min({Ushort(q), cur_video.stream_num - 1})
      /\ next_iframe' = IF p # NoParam /\ Ushort(p) \in 1 .. Stream(cur_stream).iframe_num - 1
                        THEN Ushort(p) ELSE next_iframe
      /\ UNCHANGED <<request, cur_stream, output, sent, times, received, references>>
    BY DEF Renew
<1>2. cur_stream_pos' \in DOMAIN cur_video.streams
  <2>1. /\ cur_video.stream_num \in Nat \ {0}
        /\ DOMAIN cur_video.streams = 0 .. cur_video.stream_num - 1
        /\ cur_stream_pos \in DOMAIN cur_video.streams
      BY StreamFacts DEF TypeInv, TypeOK
  <2>2. q # NoParam => Ushort(q) \in Nat
      BY Constants, UshortFacts
  <2>3. CASE q = NoParam
      BY <1>1, <2>1, <2>3
  <2>4. CASE q # NoParam
    <3>1. cur_stream_pos' = IF Ushort(q) <= cur_video.stream_num - 1
                            THEN Ushort(q) ELSE cur_video.stream_num - 1
        BY <1>1, <2>1, <2>2, <2>4, MinOfTwo
    <3>2. QED
        BY <2>1, <2>2, <2>4, <3>1
  <2>5. QED
      BY <2>3, <2>4
<1>3. next_iframe' \in 0 .. UshortRange - 1 /\ next_iframe' > 0
  <2>1. Stream(cur_stream).iframe_num \in Nat
      BY CurrentStream DEF TypeInv, TypeOK
  <2>2. next_iframe \in 0 .. UshortRange - 1 /\ next_iframe > 0
      BY <1>1 DEF TypeInv, TypeOK, PlaceInv
  <2>3. p # NoParam => Ushort(p) \in 0 .. UshortRange - 1
      BY Constants, UshortFacts
  <2>4. QED
      BY <1>1, <2>1, <2>2, <2>3
<1>4. TypeOK'
  <2>1. /\ buf'.from \in Int /\ buf'.to \in Int /\ chunks_sent' \in Nat
        /\ sent' \in BOOLEAN
        /\ spent_time' \in 0 .. MaxTime /\ cached_time' \in 0 .. MaxTime
        /\ references' \in 0 .. 1
      BY <1>1 DEF TypeInv, TypeOK, output, times
  <2>2. renews' \in 0 .. MaxRenew
      BY <1>1, Constants DEF TypeInv, TypeOK
  <2>3. next_iframe' \in 0 .. UshortRange - 1
      BY <1>3
  <2>4. (pc \in {"idle", "whole", "first", "loop", "chunks", "renew"} \/ Over)'
      BY <1>1
  <2>5. UNCHANGED <<request, cur_stream>>
      BY <1>1
  <2>6. QED
      BY <1>2, <2>1, <2>2, <2>3, <2>4, <2>5, TypeFrame
<1>5. PlaceInv' /\ Released' /\ Fresh'
    BY <1>1, <1>3 DEF TypeInv, PlaceInv, Released, Fresh
<1>6. QED
    BY <1>4, <1>5 DEF TypeInv

LEMMA SendEndTypes ==
    ASSUME TypeInv, SendEnd
    PROVE  TypeInv'
<1>1. pc = "loop" /\ references = 1
    BY DEF SendEnd, TypeInv, Released
<1>2. CASE Stop
    BY <1>1, <1>2, StopTypes
<1>3. CASE /\ pc' = "done" /\ references' = references - 1
           /\ UNCHANGED <<request, place, output, sent, times, client>>
  <2>1. /\ UNCHANGED <<request, cur_stream>>
        /\ cur_stream_pos' \in DOMAIN cur_video.streams
        /\ next_iframe' \in 0 .. UshortRange - 1
        /\ buf'.from \in Int /\ buf'.to \in Int /\ chunks_sent' \in Nat
        /\ sent' \in BOOLEAN
        /\ spent_time' \in 0 .. MaxTime /\ cached_time' \in 0 .. MaxTime
        /\ renews' \in 0 .. MaxRenew /\ references' \in 0 .. 1
      BY <1>1, <1>3 DEF TypeInv, TypeOK, place, output, times, client
  <2>2. (pc \in {"idle", "whole", "first", "loop", "chunks", "renew"} \/ Over)'
      BY <1>3 DEF Over
  <2>3. TypeOK'
      BY <2>1, <2>2, TypeFrame
  <2>4. PlaceInv' /\ Released' /\ Fresh'
      BY <1>1, <1>3 DEF PlaceInv, Released, Fresh
  <2>5. QED
      BY <2>3, <2>4 DEF TypeInv
<1>4. QED
    BY <1>2, <1>3 DEF SendEnd

LEMMA InitTypes ==
    ASSUME Init
    PROVE  TypeInv
<1>1. cur_video \in Videos /\ 0 \in DOMAIN cur_video.streams
    BY StreamFacts, SendAssumption DEF Init, IsVideo
<1>2. TypeOK
  <2>1. /\ cur_stream_pos \in DOMAIN cur_video.streams
        /\ cur_stream \in DOMAIN cur_video.streams
        /\ next_iframe \in 0 .. UshortRange - 1
      BY <1>1, Constants DEF Init
  <2>2. /\ buf.from \in Int /\ buf.to \in Int /\ chunks_sent \in Nat
        /\ {spent_time, cached_time} \subseteq 0 .. MaxTime
        /\ renews \in 0 .. MaxRenew /\ references \in 0 .. 1
      BY Constants DEF Init, Part
  <2>3. quality \in BOOLEAN /\ sent \in BOOLEAN
      BY DEF Init
  <2>4. pc \in {"idle", "whole", "first", "loop", "chunks", "renew"}
      BY DEF Init
  <2>5. QED
      BY <1>1, <2>1, <2>2, <2>3, <2>4 DEF TypeOK
<1>3. PlaceInv /\ Released /\ Fresh
    BY DEF Init, PlaceInv, Released, Fresh
<1>4. QED
    BY <1>2, <1>3 DEF TypeInv

LEMMA NextTypes ==
    ASSUME TypeInv, [Next]_vars
    PROVE  TypeInv'
<1>1. CASE \E q \in Qualities \cup {NoParam}, p \in Positions \cup {NoParam} : Start(q, p)
    BY <1>1, StartTypes
<1>2. CASE SendWhole \/ WholeFails
    BY <1>2, SendWholeTypes, WholeFailsTypes
<1>3. CASE SendFirst \/ NextIframe
    BY <1>3, SendFirstTypes, NextIframeTypes
<1>4. CASE FirstFails \/ ChunkFails
    BY <1>4, StopTypes DEF FirstFails, ChunkFails
<1>5. CASE SendChunk \/ Adapt
    BY <1>5, SendChunkTypes, AdaptTypes
<1>6. CASE NoMessage \/ SendEnd
    BY <1>6, NoMessageTypes, SendEndTypes
<1>7. CASE \E q \in Qualities \cup {NoParam}, p \in Positions \cup {NoParam} : Renew(q, p)
    BY <1>7, RenewTypes
<1>8. CASE UNCHANGED vars
    BY <1>8 DEF TypeInv, TypeOK, PlaceInv, Released, Fresh, Over, Stream, Inside, WellFormed,
                vars, request, place, output, times, client
<1>9. QED
    BY <1>1, <1>2, <1>3, <1>4, <1>5, <1>6, <1>7, <1>8 DEF Next, send_video

\* Every index of a stream and of an i-frame that send_video() uses after the
\* first reply is inside the arrays, and so is the data, whatever the client asks
\* for, in the URL or later, however send() splits the data, and however the
\* streams differ in number of i-frames, if in each of them the offsets are in
\* order and there are less than 65535 of them.
THEOREM IndexesInBounds == Spec => []InBounds
<1>1. Init => TypeInv
    BY InitTypes
<1>2. TypeInv /\ [Next]_vars => TypeInv'
    BY NextTypes
<1>3. TypeInv => InBounds
    BY DEF TypeInv, InBounds
<1>4. QED
    BY <1>1, <1>2, <1>3, PTL DEF Spec

\* The video is unloaded once on every path out of send_video().
THEOREM VideoReleased == Spec => []Released
<1>1. Init => TypeInv
    BY InitTypes
<1>2. TypeInv /\ [Next]_vars => TypeInv'
    BY NextTypes
<1>3. TypeInv => Released
    BY DEF TypeInv
<1>4. QED
    BY <1>1, <1>2, <1>3, PTL DEF Spec

-----------------------------------------------------------------------------
(* What the client receives, where send() takes what it is given.          *)

\* send() takes a part: the client has it, and what it wished for is used up.
LEMMA PartTaken ==
    ASSUME ~PartialSends, TypeOK, NEW part, part.from \in Int, part.to \in Int, SendOk(part)
    PROVE  /\ received' # NoPart
           /\ received'.stream = cur_stream
           /\ received'.from = part.from
           /\ received'.to = part.to
           /\ received'.wish = wish
<1>1. cur_stream \in Nat /\ NoParam \notin Nat
    BY StreamFacts, Constants DEF TypeOK
<1>2. Taken(part, part.to - part.from)
    BY DEF SendOk
<1>3. received' = [stream |-> cur_stream, from |-> part.from,
                   to |-> part.from + (part.to - part.from), wish |-> wish]
    BY <1>2 DEF Taken
<1>4. /\ received'.stream = cur_stream
      /\ received'.from = part.from
      /\ received'.to = part.to
      /\ received'.wish = wish
    BY <1>3
<1>5. received' # NoPart
    BY <1>1, <1>4 DEF NoPart
<1>6. QED
    BY <1>4, <1>5

\* The chunks of a part, one after the other, end where the next one begins,
\* and the last one where the part ends.
LEMMA ChunkFacts ==
    ASSUME TypeOK, buf.from <= buf.to, chunks_sent < ChunksToSend(buf)
    PROVE  LET sent_then == IF chunks_sent + 1 < ChunksToSend(buf)
                            THEN buf.from + (chunks_sent + 1) * CHUNK_SIZE ELSE buf.to
           IN  /\ Chunk(chunks_sent).from = Sent
               /\ Chunk(chunks_sent).to = sent_then
               /\ Sent \in Int /\ sent_then \in Int
               /\ chunks_sent = 0 => Sent = buf.from
               /\ ChunksToSend(buf) \in Nat
<1> DEFINE size == buf.to - buf.from
           n == chunks_sent
           c == CHUNK_SIZE
<1>1. size \in Nat /\ n \in Nat /\ c \in Nat \ {0} /\ buf.from \in Int /\ buf.to \in Int
    BY Constants DEF TypeOK
<1>2. ChunksToSend(buf) = (size + c - 1) \div c
    BY DEF ChunksToSend
<1>3. /\ ChunksToSend(buf) \in Nat
      /\ n * c < size /\ n * c \in Nat
      /\ (n + 1) * c = n * c + c
      /\ n + 1 < ChunksToSend(buf) <=> (n + 1) * c < size
  <2> HIDE DEF size, n, c
  <2>1. n + 1 \in Nat /\ n < (size + c - 1) \div c
      BY <1>1, <1>2 DEF n
  <2>2. /\ (size + c - 1) \div c \in Nat
        /\ n < (size + c - 1) \div c <=> n * c < size
        /\ n * c \in Nat
        /\ (n + 1) * c = n * c + c
      BY <1>1, ChunkBounds
  <2>3. n + 1 < (size + c - 1) \div c <=> (n + 1) * c < size
      BY <1>1, <2>1, ChunkBounds
  <2>4. QED
      BY <1>2, <2>1, <2>2, <2>3
<1> DEFINE a == buf.from + n * c
           b == buf.from + (n + 1) * c
<1>4. a \in Int /\ b = a + c /\ b \in Int /\ a < buf.to
    BY <1>1, <1>3
<1>5. Sent = a
    BY DEF Sent
<1>6. n + 1 < ChunksToSend(buf) <=> b < buf.to
    BY <1>1, <1>3
<1>7. Chunk(n).from = a /\ Chunk(n).to = Min({a + c, buf.to})
    BY DEF Chunk, Part
<1>8. n = 0 => a = buf.from
    BY <1>1
<1> HIDE DEF n, c, size, a, b
<1>9. Min({a + c, buf.to}) = IF a + c <= buf.to THEN a + c ELSE buf.to
    BY <1>1, <1>4, MinOfTwo
<1>10. Chunk(n).to = IF n + 1 < ChunksToSend(buf) THEN b ELSE buf.to
    BY <1>1, <1>4, <1>6, <1>7, <1>9
<1>11. QED
    BY <1>1, <1>3, <1>4, <1>5, <1>7, <1>8, <1>10 DEF n, c, a, b

\* A part with data takes a chunk at least, one without takes none.
LEMMA DataHasChunks ==
    ASSUME NEW part, part.from \in Int, part.to \in Int, part.from <= part.to
    PROVE  ChunksToSend(part) \in Nat /\ (0 < ChunksToSend(part) <=> part.from < part.to)
<1>1. part.to - part.from \in Nat /\ CHUNK_SIZE \in Nat \ {0}
    BY Constants
<1>2. /\ ChunksToSend(part) \in Nat
      /\ 0 < ChunksToSend(part) <=> 0 * CHUNK_SIZE < part.to - part.from
    BY <1>1, ChunkBounds DEF ChunksToSend
<1>3. QED
    BY <1>1, <1>2

\* A transfer that is given up owes the client nothing more.
LEMMA GivenUpKeepsOrder ==
    ASSUME pc' \in {"stopped", "undefined", "divided by zero"}
    PROVE  OrderInv'
BY DEF OrderInv, WholeInv, FirstInv, LoopInv, ChunksInv, Complete

LEMMA StartKeepsOrder ==
    ASSUME TypeInv, OrderInv,
           NEW q \in Qualities \cup {NoParam}, NEW p \in Positions \cup {NoParam}, Start(q, p)
    PROVE  OrderInv'
<1> DEFINE s == Stream(cur_stream')
<1>1. /\ UNCHANGED <<cur_video, chunks_sent, sent, times, client>>
      /\ buf'.from \in Int /\ buf'.to \in Int
      /\ \/ pc' = "whole" /\ buf'.from < buf'.to /\ buf'.to = s.data_size
         \/ /\ pc' = "first" /\ HasData(s, next_iframe')
            /\ buf'.to = s.iframe_offset[next_iframe' - 1]
         \/ pc' = "undefined"
    BY StartFacts
<1>2. chunks_sent' = 0 /\ received' = NoPart
    BY <1>1 DEF Start, OrderInv, FirstInv, client
<1>3. s = Stream(cur_stream)'
    BY <1>1 DEF Stream
<1>4. WholeInv'
  <2> SUFFICES ASSUME pc' = "whole"
               PROVE  /\ (buf.from < buf.to)' /\ buf'.to = Stream(cur_stream)'.data_size
                      /\ (chunks_sent < ChunksToSend(buf))'
                      /\ chunks_sent' = 0 /\ received' = NoPart
      BY DEF WholeInv
  <2>1. buf'.from < buf'.to /\ buf'.to = s.data_size
      BY <1>1
  <2>2. 0 < ChunksToSend(buf')
      BY <1>1, <2>1, DataHasChunks
  <2>3. ChunksToSend(buf') = ChunksToSend(buf)'
      BY DEF ChunksToSend
  <2>4. QED
      BY <1>2, <1>3, <2>1, <2>2, <2>3
<1>5. FirstInv'
  <2> HIDE DEF s
  <2>1. QED
      BY <1>1, <1>2, <1>3 DEF FirstInv, HasData
<1>6. LoopInv' /\ ChunksInv' /\ Complete'
    BY <1>1 DEF LoopInv, ChunksInv, Complete
<1>7. QED
    BY <1>4, <1>5, <1>6 DEF OrderInv

\* One reply: the next chunk begins where the client is.
LEMMA SendWholeKeepsOrder ==
    ASSUME ~PartialSends, TypeInv, OrderInv, SendWhole
    PROVE  OrderInv'
<1>1. /\ TypeOK /\ pc = "whole"
      /\ buf.from < buf.to /\ buf.to = Stream(cur_stream).data_size
      /\ chunks_sent < ChunksToSend(buf)
      /\ buf.from \in Int /\ buf.to \in Int /\ chunks_sent \in Nat
    BY DEF TypeInv, TypeOK, OrderInv, WholeInv, SendWhole
<1> DEFINE sent_then == IF chunks_sent + 1 < ChunksToSend(buf)
                        THEN buf.from + (chunks_sent + 1) * CHUNK_SIZE ELSE buf.to
<1>2. /\ Chunk(chunks_sent).from = Sent /\ Chunk(chunks_sent).to = sent_then
      /\ Sent \in Int /\ sent_then \in Int
    BY <1>1, ChunkFacts
<1>3. /\ SendOk(Chunk(chunks_sent))
      /\ chunks_sent' = chunks_sent + 1
      /\ IF chunks_sent + 1 < ChunksToSend(buf) THEN pc' = "whole" ELSE pc' = "done"
      /\ UNCHANGED <<request, place, buf>>
    BY <1>1 DEF SendWhole
<1>4. received' # NoPart /\ received'.stream = cur_stream /\ received'.to = sent_then
    BY <1>1, <1>2, <1>3, PartTaken
<1>5. /\ ChunksToSend(buf)' = ChunksToSend(buf) /\ buf' = buf
      /\ cur_stream' = cur_stream
      /\ \A p : Stream(p)' = Stream(p)
    BY <1>3 DEF ChunksToSend, Stream, place, request
<1>6. CASE chunks_sent + 1 < ChunksToSend(buf)
  <2>1. Sent' = sent_then
      BY <1>3, <1>5, <1>6 DEF Sent
  <2>2. WholeInv'
      BY <1>1, <1>3, <1>4, <1>5, <1>6, <2>1 DEF WholeInv
  <2>3. QED
      BY <1>3, <1>6, <2>2 DEF OrderInv, FirstInv, LoopInv, ChunksInv, Complete
<1>7. CASE ~(chunks_sent + 1 < ChunksToSend(buf))
  <2>1. (received.to = Stream(received.stream).data_size)'
      BY <1>1, <1>3, <1>4, <1>7 DEF Stream, request
  <2>2. pc' = "done"
      BY <1>3, <1>7
  <2>3. QED
      BY <2>1, <2>2 DEF OrderInv, WholeInv, FirstInv, LoopInv, ChunksInv, Complete
<1>8. QED
    BY <1>6, <1>7

\* The first reply ends where the loop begins.
LEMMA SendFirstKeepsOrder ==
    ASSUME ~PartialSends, TypeInv, OrderInv, SendFirst
    PROVE  OrderInv'
<1> DEFINE s == Stream(cur_stream)
<1>1. /\ TypeOK /\ pc = "first" /\ pc' = "loop"
      /\ SendOk(buf)
      /\ buf.from \in Int /\ buf.to \in Int
      /\ next_iframe <= s.iframe_num
      /\ HasData(s, next_iframe)
      /\ buf.to = s.iframe_offset[next_iframe - 1]
      /\ UNCHANGED <<request, place>>
    BY DEF TypeInv, TypeOK, PlaceInv, OrderInv, FirstInv, SendFirst
<1>2. received' # NoPart /\ received'.stream = cur_stream /\ received'.to = buf.to
    BY <1>1, PartTaken
<1>3. /\ cur_stream' = cur_stream /\ next_iframe' = next_iframe /\ cur_video' = cur_video
      /\ s.iframe_num \in Nat /\ next_iframe \in Nat
      /\ cur_stream \in DOMAIN cur_video.streams
    BY <1>1, CurrentStream DEF place, request, TypeOK
<1>4. s = Stream(cur_stream)'
    BY <1>3 DEF Stream
<1> HIDE DEF s
<1>5. SomeReceived'
    BY <1>1, <1>2, <1>3 DEF SomeReceived
<1>6. Continues(Stream(cur_stream).iframe_offset[next_iframe - 1])'
    BY <1>1, <1>2, <1>3, <1>4 DEF Continues, Follows
<1>7. HasData(Stream(cur_stream), next_iframe)'
    BY <1>1, <1>3, <1>4 DEF HasData
<1>8. LoopInv'
  <2>1. (~(next_iframe > Stream(cur_stream).iframe_num))'
      BY <1>1, <1>3, <1>4
  <2>2. QED
      BY <1>5, <1>6, <1>7, <2>1 DEF LoopInv
<1>9. QED
    BY <1>1, <1>8 DEF OrderInv, WholeInv, FirstInv, ChunksInv, Complete

\* The i-frame that is sent next follows what the client has.
LEMMA NextIframeKeepsOrder ==
    ASSUME TypeInv, OrderInv, NextIframe, pc' = "chunks"
    PROVE  OrderInv'
<1> DEFINE s == Stream(cur_stream)
           part == IframeData(s, next_iframe)
<1>1. /\ TypeOK /\ pc = "loop" /\ pc' = "chunks"
      /\ next_iframe <= s.iframe_num /\ next_iframe > 0
      /\ Inside(s, part)
      /\ buf' = part /\ chunks_sent' = 0
      /\ UNCHANGED <<request, place, client>>
    BY DEF TypeInv, PlaceInv, NextIframe
<1>2. s.iframe_num \in Nat /\ next_iframe \in Nat
    BY <1>1, CurrentStream DEF TypeOK
<1>3. /\ SomeReceived
      /\ wish.pos = NoParam => /\ HasData(s, next_iframe)
                               /\ Continues(s.iframe_offset[next_iframe - 1])
    BY <1>1, <1>2 DEF OrderInv, LoopInv
<1>4. /\ part.from = s.iframe_offset[next_iframe - 1]
      /\ part.from \in Nat /\ part.to \in Nat /\ part.from <= part.to
    BY <1>1, <1>2, IframeIsPart DEF Inside
<1>5. /\ cur_stream' = cur_stream /\ next_iframe' = next_iframe /\ cur_video' = cur_video
      /\ received' = received /\ wish' = wish
    BY <1>1 DEF place, request, client
<1>6. s = Stream(cur_stream)'
    BY <1>5 DEF Stream
<1>7. ChunksToSend(buf)' \in Nat
  <2>1. ChunksToSend(part) \in Nat
      BY <1>4, DataHasChunks
  <2>2. QED
      BY <1>1, <2>1 DEF ChunksToSend
<1> HIDE DEF s
<1>8. (buf = IframeData(Stream(cur_stream), next_iframe))'
    BY <1>1, <1>5, <1>6 DEF IframeData, Part
<1> HIDE DEF part
<1>9. SomeReceived'
    BY <1>3, <1>5 DEF SomeReceived
<1>10. (wish.pos = NoParam => HasData(Stream(cur_stream), next_iframe) /\ Continues(buf.from))'
    BY <1>1, <1>3, <1>4, <1>5, <1>6 DEF HasData, Continues, Follows, Stream
<1>11. ChunksInv'
    BY <1>1, <1>7, <1>8, <1>9, <1>10 DEF ChunksInv
<1>12. QED
    BY <1>1, <1>11 DEF OrderInv, WholeInv, FirstInv, LoopInv, Complete

\* The next chunk of an i-frame begins where the client is.
LEMMA SendChunkKeepsOrder ==
    ASSUME ~PartialSends, TypeInv, OrderInv, SendChunk
    PROVE  OrderInv'
<1> DEFINE s == Stream(cur_stream)
           sent_then == IF chunks_sent + 1 < ChunksToSend(buf)
                        THEN buf.from + (chunks_sent + 1) * CHUNK_SIZE ELSE buf.to
<1>1. /\ TypeOK /\ pc = "chunks" /\ pc' = "chunks"
      /\ next_iframe \in 1 .. s.iframe_num
      /\ cur_stream \in DOMAIN cur_video.streams
      /\ buf = IframeData(s, next_iframe)
      /\ chunks_sent < ChunksToSend(buf) /\ chunks_sent \in Nat
      /\ SendOk(Chunk(chunks_sent)) /\ chunks_sent' = chunks_sent + 1
      /\ UNCHANGED <<request, place, buf>>
  <2>1. /\ TypeOK /\ pc = "chunks" /\ next_iframe > 0 /\ next_iframe <= s.iframe_num
        /\ next_iframe \in Nat
        /\ cur_stream \in DOMAIN cur_video.streams /\ chunks_sent \in Nat
      BY DEF TypeInv, TypeOK, PlaceInv, SendChunk
  <2>2. s.iframe_num \in Nat
      BY <2>1, CurrentStream
  <2>3. QED
      BY <2>1, <2>2 DEF OrderInv, ChunksInv, SendChunk
<1>2. buf.from \in Int /\ buf.to \in Int /\ buf.from <= buf.to
    BY <1>1 DEF TypeInv, TypeOK, PlaceInv, Inside
<1>3. /\ Chunk(chunks_sent).from = Sent /\ Chunk(chunks_sent).to = sent_then
      /\ Sent \in Int /\ sent_then \in Int
      /\ ChunksToSend(buf) \in Nat
    BY <1>1, <1>2, ChunkFacts
<1>4. received' # NoPart /\ received'.stream = cur_stream /\ received'.to = sent_then
    BY <1>1, <1>3, PartTaken
<1>5. /\ ChunksToSend(buf)' = ChunksToSend(buf) /\ buf' = buf
      /\ cur_stream' = cur_stream /\ cur_video' = cur_video /\ next_iframe' = next_iframe
      /\ Stream(cur_stream)' = s
    BY <1>1 DEF ChunksToSend, Stream, place, request
<1>6. Sent' = sent_then
    BY <1>1, <1>5 DEF Sent
<1>7. SomeReceived'
    BY <1>1, <1>3, <1>4, <1>5 DEF SomeReceived
<1>8. (buf = IframeData(Stream(cur_stream), next_iframe))'
    BY <1>1, <1>5 DEF IframeData, Part
<1>9. (chunks_sent <= ChunksToSend(buf) /\ chunks_sent > 0)'
    BY <1>1, <1>3, <1>5
<1>10. ChunksInv'
    BY <1>4, <1>5, <1>6, <1>7, <1>8, <1>9 DEF ChunksInv
<1>11. QED
    BY <1>1, <1>10 DEF OrderInv, WholeInv, FirstInv, LoopInv, Complete

\* After an i-frame, in the same stream or in another one: the next i-frame that
\* has data begins where the client is, or the client has everything.
LEMMA AdaptKeepsOrder ==
    ASSUME Aligned, TypeInv, OrderInv, Adapt, pc' = "renew"
    PROVE  OrderInv'
<1> DEFINE s == Stream(cur_stream)
           r == Stream(cur_stream')
<1>1. /\ TypeOK /\ pc = "chunks" /\ pc' = "renew"
      /\ next_iframe > 0 /\ next_iframe <= s.iframe_num
      /\ next_iframe \in Nat
      /\ buf.from <= buf.to
      /\ cur_video \in Videos
      /\ chunks_sent >= ChunksToSend(buf)
      /\ next_iframe' = get_next_offset(r, next_iframe, 1)
      /\ UNCHANGED <<request, output, client>>
    BY DEF TypeInv, TypeOK, PlaceInv, Inside, Adapt
<1>2. /\ SomeReceived
      /\ buf = IframeData(s, next_iframe)
      /\ chunks_sent <= ChunksToSend(buf)
      /\ IF chunks_sent > 0
         THEN received.stream = cur_stream /\ received.to = Sent
         ELSE wish.pos = NoParam => HasData(s, next_iframe) /\ Continues(buf.from)
    BY <1>1 DEF OrderInv, ChunksInv
<1>3. cur_stream \in DOMAIN cur_video.streams /\ cur_stream' \in DOMAIN cur_video.streams
  <2>1. TypeOK'
      BY AdaptTypes DEF TypeInv
  <2>2. QED
      BY <1>1, <2>1 DEF TypeOK, request
<1>4. /\ r = Stream(cur_stream)' /\ cur_video' = cur_video
      /\ received' = received /\ wish' = wish
    BY <1>1 DEF request, client, Stream
<1>5. /\ s.iframe_num \in Nat /\ s.iframe_num < UshortRange /\ UshortRange \in Nat
      /\ r.iframe_num = s.iframe_num
    BY <1>1, <1>3, CurrentStream, Constants DEF Aligned
<1>6. next_iframe \in 1 .. s.iframe_num
    BY <1>1, <1>5
<1>7. /\ buf.from \in Nat /\ buf.to \in Nat /\ buf.from <= buf.to
      /\ buf.from < buf.to <=> HasData(s, next_iframe)
      /\ buf.to = IF next_iframe = s.iframe_num
                  THEN s.data_size ELSE s.iframe_offset[next_iframe]
    BY <1>1, <1>2, <1>6, IframeIsPart
<1>8. /\ ChunksToSend(buf) \in Nat
      /\ 0 < ChunksToSend(buf) <=> HasData(s, next_iframe)
    BY <1>7, DataHasChunks
<1>9. chunks_sent = ChunksToSend(buf)
    BY <1>1, <1>2, <1>8 DEF TypeOK
<1>10. HasData(s, next_iframe) => received.stream = cur_stream /\ received.to = buf.to
  <2>1. Sent = buf.to
      BY <1>8, <1>9 DEF Sent
  <2>2. QED
      BY <1>2, <1>8, <1>9, <2>1
<1>11. SomeReceived'
    BY <1>2, <1>4 DEF SomeReceived
<1>12. CASE next_iframe = s.iframe_num
  <2>1. next_iframe' = next_iframe + 1
    <3>1. next_iframe \in 0 .. UshortRange - 1 /\ next_iframe >= r.iframe_num
        BY <1>5, <1>6, <1>12
    <3>2. ~ReadsBeyond(r, next_iframe, 1)
        BY DEF Adapt
    <3>3. Ushort(next_iframe + 1) >= r.iframe_num
      <4>1. Ushort(next_iframe + 1) \in Nat /\ r.iframe_num \in Nat
          BY <1>5, <3>1, UshortFacts
      <4>2. QED
          BY <3>1, <3>2, <4>1 DEF ReadsBeyond
    <3>4. next_iframe' = Ushort(next_iframe + 1)
        BY <1>1, <1>3, <3>1, <3>2, <3>3, NextOffset DEF Stream
    <3>5. next_iframe + 1 # UshortRange
      <4>1. UshortRange % UshortRange = 0
          BY <1>5
      <4>2. r.iframe_num > 0
          BY <1>5, <1>6
      <4>3. QED
          BY <1>5, <3>3, <4>1, <4>2 DEF Ushort
    <3>6. next_iframe + 1 \in Nat /\ next_iframe + 1 < UshortRange
        BY <1>5, <3>1, <3>5
    <3>7. QED
        BY <3>4, <3>6, UshortFacts
  <2> HIDE DEF r, s
  <2>2. (next_iframe > Stream(cur_stream).iframe_num)'
      BY <1>4, <1>5, <1>12, <2>1
  <2>3. received.stream = cur_stream /\ received.to = s.data_size
      BY <1>7, <1>10, <1>12 DEF HasData
  <2>4. (received.to = Stream(received.stream).data_size)'
      BY <1>4, <2>3 DEF s, Stream
  <2>5. LoopInv'
      BY <1>11, <2>2, <2>4 DEF LoopInv
  <2>6. QED
      BY <1>1, <2>5 DEF OrderInv, WholeInv, FirstInv, ChunksInv, Complete
<1>13. CASE next_iframe # s.iframe_num
  <2>1. next_iframe \in 0 .. r.iframe_num - 1
      BY <1>5, <1>6, <1>13
  <2>2. /\ next_iframe' \in next_iframe + 1 .. r.iframe_num
        /\ HasData(r, next_iframe')
        /\ r.iframe_offset[next_iframe' - 1] = r.iframe_offset[next_iframe]
      BY <1>1, <1>3, <2>1, NextHasData DEF Stream
  <2> HIDE DEF r, s
  <2>3. HasData(Stream(cur_stream), next_iframe)'
      BY <1>4, <2>2 DEF HasData
  <2>4. (~(next_iframe > Stream(cur_stream).iframe_num))'
      BY <1>4, <1>5, <2>1, <2>2
  <2>5. wish.pos = NoParam =>
            received.stream = cur_stream /\ received.to = s.iframe_offset[next_iframe]
      BY <1>2, <1>7, <1>8, <1>9, <1>10, <1>13
  <2>6. (wish.pos = NoParam => Continues(Stream(cur_stream).iframe_offset[next_iframe - 1]))'
    <3>1. wish.pos = NoParam =>
              Follows(received, [stream |-> cur_stream',
                                 from |-> r.iframe_offset[next_iframe]])
        BY <1>5, <2>1, <2>5 DEF Follows, r, s
    <3>2. QED
        BY <1>4, <2>2, <3>1 DEF Continues, Follows, Stream
  <2>7. LoopInv'
      BY <1>11, <2>3, <2>4, <2>6 DEF LoopInv
  <2>8. QED
      BY <1>1, <2>7 DEF OrderInv, WholeInv, FirstInv, ChunksInv, Complete
<1>14. QED
    BY <1>12, <1>13

LEMMA NoMessageKeepsOrder ==
    ASSUME OrderInv, NoMessage
    PROVE  OrderInv'
<1>1. /\ pc = "renew" /\ pc' = "loop"
      /\ UNCHANGED <<request, place, client>>
    BY DEF NoMessage
<1>2. LoopInv
    BY DEF OrderInv
<1>3. LoopInv'
    BY <1>1, <1>2 DEF LoopInv, SomeReceived, HasData, Continues, Follows, Stream,
                      request, place, client
<1>4. QED
    BY <1>1, <1>3 DEF OrderInv, WholeInv, FirstInv, ChunksInv, Complete

\* A client that asks for a position gives up what follows; another quality
\* takes effect after the next i-frame.
LEMMA RenewKeepsOrder ==
    ASSUME TypeInv, OrderInv,
           NEW q \in Qualities \cup {NoParam}, NEW p \in Positions \cup {NoParam}, Renew(q, p)
    PROVE  OrderInv'
<1>1. /\ pc = "renew" /\ pc' = "loop"
      /\ wish' = Wish(q, p)
      /\ next_iframe' = IF p # NoParam /\ Ushort(p) \in 1 .. Stream(cur_stream).iframe_num - 1
                        THEN Ushort(p) ELSE next_iframe
      /\ UNCHANGED <<request, cur_stream, received>>
    BY DEF Renew
<1>2. wish'.pos = IF p = NoParam THEN wish.pos ELSE p
    BY <1>1 DEF Wish
<1>3. LoopInv
    BY DEF OrderInv
<1>4. Stream(cur_stream)' = Stream(cur_stream)
    BY <1>1 DEF Stream, request
<1>5. SomeReceived'
    BY <1>1, <1>3 DEF LoopInv, SomeReceived, request
<1>6. CASE p = NoParam
  <2>1. next_iframe' = next_iframe /\ wish'.pos = wish.pos
      BY <1>1, <1>2, <1>6
  <2>2. LoopInv'
      BY <1>1, <1>3, <1>4, <1>5, <2>1
      DEF LoopInv, SomeReceived, HasData, Continues, Follows, Stream, request
  <2>3. QED
      BY <1>1, <2>2 DEF OrderInv, WholeInv, FirstInv, ChunksInv, Complete
<1>7. CASE p # NoParam
  <2>1. wish'.pos # NoParam
      BY <1>2, <1>7
  <2>2. (next_iframe > Stream(cur_stream).iframe_num)' =>
            (received.to = Stream(received.stream).data_size)'
    <3>1. Ushort(p) \in Nat /\ Stream(cur_stream).iframe_num \in Nat
        BY <1>7, Constants, CurrentStream, UshortFacts DEF TypeInv, TypeOK
    <3>2. (next_iframe > Stream(cur_stream).iframe_num)' =>
              next_iframe > Stream(cur_stream).iframe_num
        BY <1>1, <1>4, <3>1
    <3>3. next_iframe > Stream(cur_stream).iframe_num =>
              received.to = Stream(received.stream).data_size
        BY <1>1, <1>3 DEF LoopInv
    <3>4. QED
        BY <1>1, <3>2, <3>3 DEF Stream, request
  <2>3. LoopInv'
      BY <1>5, <2>1, <2>2 DEF LoopInv
  <2>4. QED
      BY <1>1, <2>3 DEF OrderInv, WholeInv, FirstInv, ChunksInv, Complete
<1>8. QED
    BY <1>6, <1>7

\* The transfer ends after the last i-frame.
LEMMA SendEndKeepsOrder ==
    ASSUME OrderInv, SendEnd
    PROVE  OrderInv'
<1>1. CASE Stop
    BY <1>1, GivenUpKeepsOrder DEF Stop
<1>2. CASE pc' = "done" /\ UNCHANGED <<request, place, output, sent, times, client>>
  <2>1. received.to = Stream(received.stream).data_size
      BY DEF SendEnd, OrderInv, LoopInv
  <2>2. Complete'
      BY <1>2, <2>1 DEF Complete, Stream, request, client
  <2>3. QED
      BY <1>2, <2>2 DEF OrderInv, WholeInv, FirstInv, LoopInv, ChunksInv
<1>3. QED
    BY <1>1, <1>2 DEF SendEnd

LEMMA InitOrder ==
    ASSUME Init
    PROVE  OrderInv
BY DEF Init, OrderInv, WholeInv, FirstInv, LoopInv, ChunksInv, Complete

LEMMA NextKeepsOrder ==
    ASSUME ~PartialSends, Aligned, TypeInv, OrderInv, [Next]_vars
    PROVE  OrderInv'
<1>1. CASE \E q \in Qualities \cup {NoParam}, p \in Positions \cup {NoParam} : Start(q, p)
    BY <1>1, StartKeepsOrder
<1>2. CASE SendWhole \/ SendFirst \/ SendChunk
    BY <1>2, SendWholeKeepsOrder, SendFirstKeepsOrder, SendChunkKeepsOrder
<1>3. CASE WholeFails \/ FirstFails \/ ChunkFails
    BY <1>3, GivenUpKeepsOrder DEF WholeFails, FirstFails, ChunkFails, Stop
<1>4. CASE NextIframe \/ Adapt
  <2>1. pc' = "undefined" \/ (NextIframe /\ pc' = "chunks") \/ (Adapt /\ pc' = "renew")
      BY <1>4 DEF NextIframe, Adapt
  <2>2. QED
      BY <1>4, <2>1, GivenUpKeepsOrder, NextIframeKeepsOrder, AdaptKeepsOrder
<1>5. CASE NoMessage \/ SendEnd
    BY <1>5, NoMessageKeepsOrder, SendEndKeepsOrder
<1>6. CASE \E q \in Qualities \cup {NoParam}, p \in Positions \cup {NoParam} : Renew(q, p)
    BY <1>6, RenewKeepsOrder
<1>7. CASE UNCHANGED vars
    BY <1>7 DEF OrderInv, WholeInv, FirstInv, LoopInv, ChunksInv, Complete, SomeReceived, Aligned,
                HasData, Continues, Follows, Sent, IframeData, ChunksToSend, Stream, Part,
                vars, request, place, output, times, client
<1>8. QED
    BY <1>1, <1>2, <1>3, <1>4, <1>5, <1>6, <1>7 DEF Next, send_video

\* A part that the client receives follows the one before.
LEMMA NextFollows ==
    ASSUME ~PartialSends, TypeInv, OrderInv, [Next]_vars,
           received # NoPart, received' # received, received'.wish.pos = NoParam
    PROVE  Follows(received, received')
<1>1. pc = "idle" => received = NoPart
    BY DEF OrderInv, FirstInv
<1>2. SendWhole \/ SendFirst \/ SendChunk
  <2>1. ~ \E q \in Qualities \cup {NoParam}, p \in Positions \cup {NoParam} : Start(q, p)
      BY StartFacts DEF client
  <2>2. ~ \E q \in Qualities \cup {NoParam}, p \in Positions \cup {NoParam} : Renew(q, p)
      BY DEF Renew
  <2>3. ~(WholeFails \/ FirstFails \/ ChunkFails)
      BY DEF WholeFails, FirstFails, ChunkFails, Stop, client
  <2>4. ~(NextIframe \/ Adapt \/ NoMessage \/ SendEnd \/ UNCHANGED vars)
      BY DEF NextIframe, Adapt, NoMessage, SendEnd, Stop, client, vars
  <2>5. QED
      BY <2>1, <2>2, <2>3, <2>4 DEF Next, send_video
<1>3. ~SendFirst
    BY DEF SendFirst, OrderInv, FirstInv
<1>4. CASE SendWhole
  <2>1. /\ TypeOK /\ buf.from <= buf.to /\ chunks_sent < ChunksToSend(buf)
        /\ received.stream = cur_stream /\ received.to = Sent
        /\ SendOk(Chunk(chunks_sent))
    <3>1. /\ TypeOK /\ buf.from \in Int /\ buf.to \in Int /\ pc = "whole" /\ WholeInv
          /\ SendOk(Chunk(chunks_sent))
        BY <1>4 DEF TypeInv, TypeOK, OrderInv, SendWhole
    <3>2. QED
        BY <3>1 DEF WholeInv
  <2>2. Chunk(chunks_sent).from = Sent /\ Chunk(chunks_sent).to \in Int /\ Sent \in Int
      BY <2>1, ChunkFacts
  <2>3. received'.stream = cur_stream /\ received'.from = Sent
      BY <2>1, <2>2, PartTaken
  <2>4. QED
      BY <2>1, <2>3 DEF Follows
<1>5. CASE SendChunk
  <2>1. /\ TypeOK /\ pc = "chunks"
        /\ buf = IframeData(Stream(cur_stream), next_iframe)
        /\ chunks_sent < ChunksToSend(buf)
        /\ IF chunks_sent > 0
           THEN received.stream = cur_stream /\ received.to = Sent
           ELSE wish.pos = NoParam => Continues(buf.from)
        /\ SendOk(Chunk(chunks_sent))
      BY <1>5 DEF TypeInv, OrderInv, ChunksInv, SendChunk
  <2>2. buf.from <= buf.to
      BY <2>1 DEF TypeInv, PlaceInv, Inside
  <2>4. /\ Chunk(chunks_sent).from = Sent /\ Chunk(chunks_sent).to \in Int /\ Sent \in Int
        /\ chunks_sent = 0 => Sent = buf.from
      BY <2>1, <2>2, ChunkFacts
  <2>5. received'.stream = cur_stream /\ received'.from = Sent /\ received'.wish = wish
      BY <2>1, <2>4, PartTaken
  <2>6. CASE chunks_sent > 0
      BY <2>1, <2>5, <2>6 DEF Follows
  <2>7. CASE ~(chunks_sent > 0)
    <3>1. Continues(buf.from) /\ Sent = buf.from
        BY <2>1, <2>4, <2>5, <2>7 DEF TypeOK
    <3>2. QED
        BY <2>5, <3>1 DEF Continues, Follows
  <2>8. QED
      BY <2>6, <2>7
<1>6. QED
    BY <1>2, <1>3, <1>4, <1>5

\* The video stays the same, and with it the number of i-frames of its streams.
LEMMA NextKeepsSendInv ==
    ASSUME ~PartialSends, TypeInv, SendInv, [Next]_vars
    PROVE  SendInv'
<1>1. cur_video' = cur_video
  <2>1. CASE \E q \in Qualities \cup {NoParam}, p \in Positions \cup {NoParam} :
                 Start(q, p) \/ Renew(q, p)
      BY <2>1, StartFacts DEF Renew, request
  <2>2. CASE SendWhole \/ WholeFails \/ SendFirst \/ FirstFails
      BY <2>2 DEF SendWhole, WholeFails, SendFirst, FirstFails, Stop, request
  <2>3. CASE NextIframe \/ SendChunk \/ ChunkFails
      BY <2>3 DEF NextIframe, SendChunk, ChunkFails, Stop, request
  <2>4. CASE Adapt \/ NoMessage \/ SendEnd \/ UNCHANGED vars
      BY <2>4 DEF Adapt, NoMessage, SendEnd, Stop, vars, request
  <2>5. QED
      BY <2>1, <2>2, <2>3, <2>4 DEF Next, send_video
<1>2. Aligned' => Aligned
    BY <1>1 DEF Aligned, Stream
<1>3. QED
    BY <1>2, NextKeepsOrder DEF SendInv

\* Where send() takes what it is given and the streams of the video have the same
\* number of i-frames, a transfer that comes to its end sent the stream to its
\* last byte, over every change of the stream and of the position.
THEOREM TransferComplete ==
    ASSUME ~PartialSends
    PROVE  Spec => []Complete
<1>1. Init => TypeInv /\ SendInv
    BY InitTypes, InitOrder DEF SendInv
<1>2. TypeInv /\ SendInv /\ [Next]_vars => (TypeInv /\ SendInv)'
    BY NextTypes, NextKeepsSendInv
<1>3. TypeInv /\ SendInv => Complete
    BY DEF SendInv, OrderInv, Complete
<1>4. QED
    BY <1>1, <1>2, <1>3, PTL DEF Spec

\* Where send() takes what it is given and the streams of the video have the same
\* number of i-frames, the client receives the video in order: nothing twice,
\* nothing left out, except for a position that it asked for.
THEOREM TransferContiguous ==
    ASSUME ~PartialSends
    PROVE  Spec => Contiguous
<1>1. Init => TypeInv /\ SendInv
    BY InitTypes, InitOrder DEF SendInv
<1>2. TypeInv /\ SendInv /\ [Next]_vars => (TypeInv /\ SendInv)'
    BY NextTypes, NextKeepsSendInv
<1>3. TypeInv /\ SendInv /\ [Next]_vars =>
          [ Aligned /\ received # NoPart /\ received' # received
                /\ received'.wish.pos = NoParam
              => Follows(received, received') ]_vars
    BY NextFollows DEF SendInv
<1>4. QED
    BY <1>1, <1>2, <1>3, PTL DEF Spec, Contiguous
=============================================================================
