-------------------------- MODULE VideoHandlesProofs --------------------------
(***************************************************************************)
(* Proofs about what the video cache gives to its callers, beyond the      *)
(* memory safety of VideoCacheProofs: the video that was asked for and     *)
(* authorised, one that does not change while it is streamed, a vector in  *)
(* which it is found, and the promise of VideoHandles.                     *)
(***************************************************************************)
EXTENDS VideoCacheProofs, NatLemmas

\* A step of a thread.
Step(t) == Request(t) \/ load_video(t) \/ StopPlaying(t) \/ unload_video(t)

\* The steps that leave the Videos and who has them alone.
Control(t) ==
    \/ Request(t) \/ LockToLoad(t) \/ CacheMiss(t) \/ NoInfoFile(t)
    \/ InvalidSign(t) \/ StopPlaying(t) \/ LockToUnload(t)

LEMMA ControlChanges ==
    ASSUME NEW t \in Threads, Control(t)
    PROVE  UNCHANGED <<videos, heap, allocated, mem_used, cur_video>>
BY DEF Control, Request, LockToLoad, CacheMiss, NoInfoFile, InvalidSign, StopPlaying,
       LockToUnload

\* A thread changes nothing that is local to another.
LEMMA OthersWait ==
    ASSUME TypeOK, NEW t \in Threads, Step(t), NEW u \in Threads, u # t
    PROVE  pc'[u] = pc[u] /\ request'[u] = request[u] /\ cur_video'[u] = cur_video[u]
<1> USE DEF TypeOK
<1>1. CASE Control(t)
    BY <1>1 DEF Control, Request, LockToLoad, CacheMiss, NoInfoFile, InvalidSign, StopPlaying,
                LockToUnload, GiveUp
<1>2. CASE CacheHit(t) \/ ReadInfoFile(t) \/ LoadStream(t) \/ DropStream(t)
    BY <1>2 DEF CacheHit, ReadInfoFile, LoadStream, DropStream
<1>3. CASE NoStreamAvailable(t) \/ AddVideo(t)
    BY <1>3 DEF NoStreamAvailable, AddVideo, GiveUp
<1>4. CASE ReleaseVideo(t) \/ FreeStreams(t) \/ RemoveVideo(t)
    BY <1>4 DEF ReleaseVideo, FreeStreams, RemoveVideo, GiveUp
<1>5. QED
    BY <1>1, <1>2, <1>3, <1>4 DEF Step, load_video, unload_video, Control

\* The thread's own Video is in memory.
LEMMA OwnVideo ==
    ASSUME TypeOK, CacheInv, NEW t \in Threads, pc[t] \in HasVideo
    PROVE  /\ cur_video[t] \in allocated /\ cur_video[t] \in Videos
           /\ heap[cur_video[t]] \in VideoRecords
BY DEF TypeOK, CacheInv, HandleInv

\* The id, the directory and the sign of a Video stay, as long as it is in memory.
LEMMA IdentityKept ==
    ASSUME TypeOK, CacheInv, NEW t \in Threads, Step(t), NEW v \in allocated, v \in allocated'
    PROVE  /\ heap'[v].id = heap[v].id /\ heap'[v].dir = heap[v].dir
           /\ heap'[v].sign = heap[v].sign
<1>1. /\ v \in Videos /\ heap[v] \in VideoRecords
      /\ heap \in [Videos -> VideoRecords]
    BY DEF TypeOK
<1>2. CASE Control(t)
    BY <1>2, ControlChanges
<1>3. CASE CacheHit(t)
  <2>1. PICK k \in DOMAIN videos : heap' = [heap EXCEPT ![videos[k]].counter = @ + 1]
      BY <1>3 DEF CacheHit
  <2>2. QED
      BY <1>1, <2>1 DEF VideoRecords
<1>4. CASE ReadInfoFile(t)
  <2>1. PICK w \in Videos \ allocated, info \in InfoFiles, size \in Garbage :
            heap' = [heap EXCEPT ![w] = NewVideo(request[t], info, size)]
      BY <1>4 DEF ReadInfoFile
  <2>2. QED
      BY <1>1, <2>1
<1>5. CASE LoadStream(t) \/ DropStream(t)
  <2>1. PICK n \in Int : \/ heap' = [heap EXCEPT ![cur_video[t]].streams = @ + 1,
                                                 ![cur_video[t]].size = @ + n]
                         \/ heap' = [heap EXCEPT ![cur_video[t]].stream_num = @ - 1]
      BY <1>5, SizesAssumption DEF LoadStream, DropStream
  <2>2. QED
      BY <1>1, <2>1 DEF VideoRecords
<1>6. CASE NoStreamAvailable(t) \/ RemoveVideo(t)
    BY <1>1, <1>6 DEF NoStreamAvailable, RemoveVideo
<1>7. CASE AddVideo(t)
    BY <1>7 DEF AddVideo
<1>8. CASE ReleaseVideo(t) \/ FreeStreams(t)
  <2>1. \/ heap' = [heap EXCEPT ![cur_video[t]].counter = @ - 1]
        \/ heap' = [heap EXCEPT ![cur_video[t]].counter = @ - 1, ![cur_video[t]].streams = 0]
      BY <1>8 DEF ReleaseVideo, FreeStreams
  <2>2. QED
      BY <1>1, <2>1 DEF VideoRecords
<1>9. QED
    BY <1>2, <1>3, <1>4, <1>5, <1>6, <1>7, <1>8 DEF Step, load_video, unload_video, Control

-----------------------------------------------------------------------------
(* The video that was asked for.                                           *)

\* The same Video under the same request.
LEMMA RequestKept ==
    ASSUME TypeOK, CacheInv, RequestInv, NEW t \in Threads, Step(t), NEW u \in Threads,
           pc[u] \in {"streams", "playing", "unload", "release"},
           cur_video'[u] = cur_video[u], request'[u] = request[u],
           cur_video[u] \in allocated'
    PROVE  /\ heap'[cur_video'[u]].id = request'[u].id
           /\ SignedAuth => heap'[cur_video'[u]].sign.head = request'[u].sign.head
<1>1. cur_video[u] \in allocated
    BY OwnVideo DEF HasVideo
<1>2. /\ heap'[cur_video[u]].id = heap[cur_video[u]].id
      /\ heap'[cur_video[u]].sign = heap[cur_video[u]].sign
    BY <1>1, IdentityKept
<1>3. QED
    BY <1>2 DEF RequestInv

\* What a step makes of the thread that takes it.
LEMMA OwnRequestKept ==
    ASSUME TypeOK, CacheInv, RequestInv, NEW t \in Threads, Step(t)
    PROVE  /\ pc'[t] # "idle" =>
                /\ request'[t].name \in Names
                /\ request'[t].id = Atoi[request'[t].name]
           /\ pc'[t] \in {"streams", "playing", "unload", "release"} =>
                /\ heap'[cur_video'[t]].id = request'[t].id
                /\ SignedAuth => heap'[cur_video'[t]].sign.head = request'[t].sign.head
<1> USE DEF TypeOK
<1>1. CASE Request(t)
  <2>1. PICK r \in Asked :
            request' = [request EXCEPT ![t] =
                [name |-> r.name, id |-> Atoi[r.name], sign |-> r.sign]]
      BY <1>1 DEF Request
  <2>2. r.name \in Names /\ pc'[t] = "load"
      BY <1>1, NamesAssumption DEF Request
  <2>3. QED
      BY <2>1, <2>2
<1>2. CASE LockToLoad(t) \/ CacheMiss(t)
    BY <1>2 DEF LockToLoad, CacheMiss, RequestInv
<1>3. CASE NoInfoFile(t) \/ InvalidSign(t) \/ NoStreamAvailable(t) \/ ReleaseVideo(t)
            \/ RemoveVideo(t)
    BY <1>3 DEF NoInfoFile, InvalidSign, NoStreamAvailable, ReleaseVideo, RemoveVideo, GiveUp
<1>4. CASE CacheHit(t)
  <2>1. PICK k \in Bsearch(request[t].id) \cap DOMAIN videos :
          /\ SignedAuth => SameSign(videos[k], request[t].sign)
          /\ cur_video' = [cur_video EXCEPT ![t] = videos[k]]
      BY <1>4 DEF CacheHit
  <2>2. heap[videos[k]].id = request[t].id
      BY <2>1 DEF Bsearch
  <2>3. videos[k] \in allocated /\ allocated' = allocated
      BY <1>4, <2>1 DEF CacheInv, VectorInv, CacheHit
  <2>4. cur_video'[t] = videos[k] /\ pc[t] = "search" /\ request' = request
      BY <1>4, <2>1 DEF CacheHit
  <2>5. heap'[videos[k]].id = heap[videos[k]].id /\ heap'[videos[k]].sign = heap[videos[k]].sign
      BY <2>3, IdentityKept
  <2>6. QED
      BY <2>1, <2>2, <2>4, <2>5 DEF RequestInv, SameSign
<1>5. CASE ReadInfoFile(t)
  <2>1. PICK v \in Videos \ allocated, info \in InfoFiles, size \in Garbage :
          /\ SignedAuth => ValidSign(info, request[t].sign)
          /\ heap' = [heap EXCEPT ![v] = NewVideo(request[t], info, size)]
          /\ cur_video' = [cur_video EXCEPT ![t] = v]
      BY <1>5 DEF ReadInfoFile
  <2>2. heap'[v] = NewVideo(request[t], info, size) /\ cur_video'[t] = v
      BY <2>1
  <2>3. request' = request /\ pc[t] = "info"
      BY <1>5 DEF ReadInfoFile
  <2>4. QED
      BY <2>1, <2>2, <2>3 DEF RequestInv, NewVideo, ValidSign
<1>6. CASE LoadStream(t) \/ DropStream(t) \/ AddVideo(t) \/ StopPlaying(t)
            \/ LockToUnload(t) \/ FreeStreams(t)
  <2>1. /\ pc[t] \in {"streams", "playing", "unload", "release"}
        /\ cur_video' = cur_video /\ request' = request /\ allocated' = allocated
      BY <1>6 DEF LoadStream, DropStream, AddVideo, StopPlaying, LockToUnload, FreeStreams
  <2>2. cur_video[t] \in allocated
      BY <2>1, OwnVideo DEF HasVideo
  <2>3. QED
      BY <2>1, <2>2, RequestKept DEF RequestInv
<1>7. QED
    BY <1>1, <1>2, <1>3, <1>4, <1>5, <1>6 DEF Step, load_video, unload_video

\* A Video that joins the others is from the directory, and has the sign, that
\* its loader asked with.
LEMMA OriginsKept ==
    ASSUME TypeOK, CacheInv, RequestInv, NEW t \in Threads, Step(t), NEW v \in allocated'
    PROVE  /\ heap'[v].dir \in Names
           /\ heap'[v].id = Atoi[heap'[v].dir]
           /\ SignedAuth => heap'[v].sign.head # ShortSign
<1>1. CASE v \in allocated
    BY <1>1, IdentityKept DEF RequestInv
<1>2. CASE v \notin allocated
  <2>1. ReadInfoFile(t)
      BY <1>2, ControlChanges
      DEF Step, load_video, unload_video, Control, CacheHit, LoadStream, DropStream,
          NoStreamAvailable, AddVideo, ReleaseVideo, FreeStreams, RemoveVideo
  <2>2. PICK w \in Videos \ allocated, info \in InfoFiles, size \in Garbage :
          /\ SignedAuth => ValidSign(info, request[t].sign)
          /\ heap' = [heap EXCEPT ![w] = NewVideo(request[t], info, size)]
          /\ allocated' = allocated \cup {w}
      BY <2>1 DEF ReadInfoFile
  <2>3. v = w /\ heap'[v] = NewVideo(request[t], info, size)
      BY <1>2, <2>2 DEF TypeOK
  <2>4. pc[t] = "info" /\ request[t].name \in Names /\ request[t].id = Atoi[request[t].name]
      BY <2>1 DEF ReadInfoFile, RequestInv
  <2>5. SignedAuth => info.sign.head # ShortSign
    <3> SUFFICES ASSUME SignedAuth, ValidSign(info, request[t].sign)
                 PROVE  request[t].sign.head # ShortSign
        BY <2>2 DEF ValidSign
    <3>1. request[t].sign \in AnySign /\ request[t].sign # TooShort
        BY DEF ValidSign, TypeOK, Requests
    <3>2. QED
        BY <3>1, SignsAssumption DEF AnySign
  <2>6. QED
      BY <2>3, <2>4, <2>5 DEF NewVideo
<1>3. QED
    BY <1>1, <1>2

LEMMA StepKeepsRequests ==
    ASSUME TypeOK, CacheInv, HandleInv', RequestInv, NEW t \in Threads, Step(t)
    PROVE  RequestInv'
<1>1. ASSUME NEW u \in Threads
      PROVE  /\ pc'[u] # "idle" =>
                  /\ request'[u].name \in Names
                  /\ request'[u].id = Atoi[request'[u].name]
             /\ pc'[u] \in {"streams", "playing", "unload", "release"} =>
                  /\ heap'[cur_video'[u]].id = request'[u].id
                  /\ SignedAuth => heap'[cur_video'[u]].sign.head = request'[u].sign.head
  <2>1. CASE u = t
      BY <2>1, OwnRequestKept
  <2>2. CASE u # t
    <3>1. pc'[u] = pc[u] /\ request'[u] = request[u] /\ cur_video'[u] = cur_video[u]
        BY <2>2, OthersWait
    <3>2. pc'[u] \in HasVideo => cur_video'[u] \in allocated'
        BY DEF HandleInv
    <3>3. QED
        BY <3>1, <3>2, RequestKept DEF RequestInv, HasVideo
  <2>3. QED
      BY <2>1, <2>2
<1>2. \A v \in allocated' : /\ heap'[v].dir \in Names
                            /\ heap'[v].id = Atoi[heap'[v].dir]
                            /\ SignedAuth => heap'[v].sign.head # ShortSign
    BY OriginsKept
<1>3. QED
    BY <1>1, <1>2 DEF RequestInv

\* Every thread streams a video with the number that it was asked for, from the
\* directory that it was asked for unless another has the same number, and
\* where signs are required only with the sign of that video, however the
\* video came to memory.
THEOREM RequestsAuthorised == Spec => []Authorised
<1>1. Init => RequestInv
    BY DEF Init, RequestInv
<1>2. TypeOK /\ CacheInv /\ (TypeOK /\ CacheInv)' /\ RequestInv /\ [Next]_vars => RequestInv'
  <2> SUFFICES ASSUME TypeOK, CacheInv, CacheInv', RequestInv, [Next]_vars
               PROVE  RequestInv'
      OBVIOUS
  <2>1. ASSUME NEW t \in Threads, Step(t)
        PROVE  RequestInv'
      BY <2>1, StepKeepsRequests DEF CacheInv
  <2>2. CASE UNCHANGED vars
      BY <2>2 DEF RequestInv, vars
  <2>3. QED
      BY <2>1, <2>2 DEF Next, Step
<1>3. TypeOK /\ CacheInv /\ RequestInv => Authorised
  <2> SUFFICES ASSUME TypeOK, CacheInv, RequestInv, NEW t \in Threads,
                      pc[t] \in {"playing", "unload"}
               PROVE  LET v == heap[cur_video[t]] IN
                      /\ v.id = request[t].id
                      /\ Unmistakable(request[t].name) => v.dir = request[t].name
                      /\ SignedAuth => /\ request[t].sign.head # ShortSign
                                       /\ v.sign.head = request[t].sign.head
      BY DEF Authorised
  <2>1. cur_video[t] \in allocated
      BY OwnVideo DEF HasVideo
  <2>2. /\ request[t].id = Atoi[request[t].name]
        /\ heap[cur_video[t]].id = request[t].id
        /\ heap[cur_video[t]].dir \in Names
        /\ heap[cur_video[t]].id = Atoi[heap[cur_video[t]].dir]
      BY <2>1 DEF RequestInv
  <2>3. Unmistakable(request[t].name) => heap[cur_video[t]].dir = request[t].name
      BY <2>2 DEF Unmistakable
  <2>4. QED
      BY <2>1, <2>2, <2>3 DEF RequestInv
<1>4. QED
    BY <1>1, <1>2, <1>3, CacheInvariant, PTL DEF Spec

-----------------------------------------------------------------------------
(* A video does not change while it is streamed.                           *)

\* A thread that builds or frees a Video is the only one that knows it.
LEMMA BuiltAlone ==
    ASSUME TypeOK, CacheInv, NEW t \in Threads, NEW u \in Threads, u # t,
           pc[t] \in {"streams", "remove"}
    PROVE  cur_video[u] # cur_video[t]
BY DEF CacheInv, PrivateInv

\* The thread that frees the streams is the only one that has them.
LEMMA FreedAlone ==
    ASSUME TypeOK, CacheInv, NEW t \in Threads, NEW u \in Threads, u # t,
           FreeStreams(t), pc[u] # "remove"
    PROVE  cur_video[u] # cur_video[t]
<1>1. pc[t] = "release" /\ heap[cur_video[t]].counter - 1 <= 0
    BY DEF FreeStreams, LastReference
<1>2. /\ cur_video[t] \in allocated /\ cur_video[t] \in Videos
      /\ heap[cur_video[t]].counter \in Nat
    BY <1>1, OwnVideo DEF HasVideo, VideoRecords
<1>3. t \in Holders(cur_video[t]) /\ heap[cur_video[t]].counter <= 1
    BY <1>1, <1>2 DEF Holders, Holds
<1>4. Holders(cur_video[t]) = {t}
    BY <1>2, <1>3, LastHolder
<1>5. QED
    BY <1>4 DEF Holders, Holds

\* Only the counter of a Video changes, but for those that one thread knows.
LEMMA OnlyCounters ==
    ASSUME TypeOK, CacheInv, NEW t \in Threads, Step(t), NEW u \in Threads, u # t,
           pc[u] = "playing"
    PROVE  LET v == cur_video[u] IN heap'[v] = [heap[v] EXCEPT !.counter = heap'[v].counter]
<1> DEFINE v == cur_video[u]
<1>1. /\ v \in allocated /\ v \in Videos /\ heap[v] \in VideoRecords
      /\ heap \in [Videos -> VideoRecords]
    BY OwnVideo DEF HasVideo, TypeOK
<1> HIDE DEF v
<1>2. heap[v] = [heap[v] EXCEPT !.counter = heap[v].counter]
    BY <1>1 DEF VideoRecords
<1>3. CASE Control(t) \/ AddVideo(t)
    BY <1>2, <1>3, ControlChanges DEF AddVideo, v
<1>4. CASE CacheHit(t) \/ ReleaseVideo(t)
  <2>1. PICK w \in Videos, n \in Int : heap' = [heap EXCEPT ![w].counter = n]
    <3>1. CASE CacheHit(t)
      <4>1. PICK k \in DOMAIN videos : heap' = [heap EXCEPT ![videos[k]].counter = @ + 1]
          BY <3>1 DEF CacheHit
      <4>2. videos[k] \in Videos /\ heap[videos[k]].counter + 1 \in Int
          BY DEF CacheInv, VectorInv, TypeOK, VideoRecords
      <4>3. QED
          BY <4>1, <4>2
    <3>2. CASE ReleaseVideo(t)
      <4>1. /\ heap' = [heap EXCEPT ![cur_video[t]].counter = @ - 1]
            /\ cur_video[t] \in Videos /\ heap[cur_video[t]].counter - 1 \in Int
          BY <3>2, OwnVideo DEF ReleaseVideo, HasVideo, VideoRecords
      <4>2. QED
          BY <4>1
    <3>3. QED
        BY <1>4, <3>1, <3>2
  <2>2. CASE w # v
      BY <1>1, <1>2, <2>1, <2>2 DEF v
  <2>3. CASE w = v
    <3>1. heap'[v] = [heap[v] EXCEPT !.counter = n]
        BY <1>1, <2>1, <2>3
    <3>2. heap'[v].counter = n
        BY <1>1, <3>1 DEF VideoRecords
    <3>3. QED
        BY <3>1, <3>2 DEF v
  <2>4. QED
      BY <2>2, <2>3
<1>5. CASE ReadInfoFile(t)
  <2>1. heap'[v] = heap[v]
      BY <1>1, <1>5 DEF ReadInfoFile
  <2>2. QED
      BY <1>2, <2>1 DEF v
<1>6. CASE \/ LoadStream(t) \/ DropStream(t) \/ NoStreamAvailable(t)
           \/ FreeStreams(t) \/ RemoveVideo(t)
  <2>1. v # cur_video[t]
      BY <1>6, BuiltAlone, FreedAlone
      DEF v, LoadStream, DropStream, NoStreamAvailable, RemoveVideo
  <2>2. heap'[v] = heap[v]
      BY <1>1, <1>6, <2>1
      DEF LoadStream, DropStream, NoStreamAvailable, FreeStreams, RemoveVideo
  <2>3. QED
      BY <1>2, <2>2 DEF v
<1>7. QED
    BY <1>3, <1>4, <1>5, <1>6 DEF Step, load_video, unload_video, Control

\* While a thread streams without the lock, the others change nothing of its
\* video but the counter.
THEOREM VideoFrozen == Spec => FrozenWhilePlaying
<1> DEFINE Frozen ==
        \A t \in Threads : pc[t] = "playing" /\ pc'[t] = "playing" =>
            LET v == cur_video[t] IN
            /\ cur_video'[t] = v
            /\ heap'[v] = [heap[v] EXCEPT !.counter = heap'[v].counter]
<1>1. TypeOK /\ CacheInv /\ [Next]_vars => [Frozen]_vars
  <2> SUFFICES ASSUME TypeOK, CacheInv, NEW t \in Threads, Step(t),
                      NEW u \in Threads, pc[u] = "playing", pc'[u] = "playing"
               PROVE  LET v == cur_video[u] IN
                      /\ cur_video'[u] = v
                      /\ heap'[v] = [heap[v] EXCEPT !.counter = heap'[v].counter]
      BY DEF Next, Step
  <2>1. u # t
      BY DEF TypeOK, Step, Request, load_video, StopPlaying, unload_video, LockToLoad, CacheHit,
             CacheMiss, NoInfoFile, InvalidSign, ReadInfoFile, LoadStream, DropStream,
             NoStreamAvailable, AddVideo, LockToUnload, ReleaseVideo, FreeStreams, RemoveVideo
  <2>2. QED
      BY <2>1, OthersWait, OnlyCounters
<1>2. QED
    BY <1>1, CacheInvariant, PTL DEF Spec, FrozenWhilePlaying

-----------------------------------------------------------------------------
(* The vector, where it is never lost.                                     *)

\* qsort() keeps the elements of the vector.
LEMMA QsortRange ==
    ASSUME NEW s, NEW mem, NEW r \in Qsort(s, mem)
    PROVE  Range(r) = Range(s)
<1>1. PICK p \in Bijection(DOMAIN s, DOMAIN s) : r = [k \in DOMAIN s |-> s[p[k]]]
    BY DEF Qsort
<1>2. /\ p \in [DOMAIN s -> DOMAIN s]
      /\ \A j \in DOMAIN s : \E k \in DOMAIN s : p[k] = j
    BY <1>1 DEF Bijection, Injection, Surjection
<1>3. QED
    BY <1>1, <1>2 DEF Range

\* A new Video joins the vector.
LEMMA RangeOfAppend ==
    ASSUME NEW S, NEW s \in Seq(S), NEW x \in S
    PROVE  Range(Append(s, x)) = Range(s) \cup {x}
<1>1. /\ DOMAIN Append(s, x) = 1 .. Len(s) + 1
      /\ Append(s, x)[Len(s) + 1] = x
      /\ \A k \in 1 .. Len(s) : Append(s, x)[k] = s[k]
      /\ DOMAIN s = 1 .. Len(s) /\ Len(s) \in Nat
    OBVIOUS
<1>2. Range(Append(s, x)) \subseteq Range(s) \cup {x}
    BY <1>1 DEF Range
<1>3. Range(s) \cup {x} \subseteq Range(Append(s, x))
    BY <1>1 DEF Range
<1>4. QED
    BY <1>2, <1>3

\* What unload_video() leaves is in order, and is all but the victim.
LEMMA OnlyVictimLeaves ==
    ASSUME TypeOK, CacheInv, ~ReallocMayFail, NEW v \in allocated, v \in Range(videos),
           NEW s \in Qsort(videos, [heap EXCEPT ![v].id = INT_MAX]), NEW r \in Shrunk(s)
    PROVE  /\ Sorted(r, heap)
           /\ Range(r) = Range(videos) \ {v}
<1> DEFINE marked == [heap EXCEPT ![v].id = INT_MAX]
<1>1. /\ videos \in Seq(Videos) /\ v \in Videos
      /\ heap \in [Videos -> VideoRecords]
    BY DEF TypeOK
<1>2. \A w \in Videos \ {v} : marked[w] = heap[w]
    BY <1>1
<1> HIDE DEF marked
<1>3. s \in Qsort(videos, marked)
    BY DEF marked
<1>4. /\ s \in Seq(Videos) /\ Sorted(s, marked)
      /\ DOMAIN s = 1 .. Len(s) /\ Len(s) \in Nat
    BY <1>1, <1>3, QsortPermutes
<1>5. Range(s) = Range(videos)
    BY <1>3, QsortRange
<1>6. r = SubSeq(s, 1, Len(s) - 1)
    BY DEF Shrunk
<1>7. \A k \in DOMAIN r : r[k] \in allocated \ {v}
    BY VictimLeaves
<1>8. Len(s) > 0
    BY <1>4, <1>5 DEF Range
<1>9. /\ DOMAIN r = 1 .. Len(s) - 1
      /\ \A k \in 1 .. Len(s) - 1 : r[k] = s[k]
    BY <1>4, <1>6, <1>8
<1>10. Sorted(r, heap)
  <2>1. \A k \in DOMAIN r : marked[r[k]] = heap[r[k]] /\ k \in DOMAIN s /\ r[k] = s[k]
      BY <1>2, <1>4, <1>7, <1>9 DEF TypeOK
  <2>2. QED
      BY <1>4, <2>1 DEF Sorted
<1>11. s[Len(s)] = v
  <2>1. PICK k \in 1 .. Len(s) : s[k] = v
      BY <1>4, <1>5 DEF Range
  <2>2. k \notin DOMAIN r
      BY <1>7, <1>9, <2>1
  <2>3. QED
      BY <1>4, <1>9, <2>1, <2>2
<1>12. Range(s) = Range(r) \cup {v}
    BY <1>4, <1>8, <1>9, <1>11 DEF Range
<1>13. v \notin Range(r)
    BY <1>7 DEF Range
<1>14. QED
    BY <1>5, <1>10, <1>12, <1>13

\* A vector that stays stays in order.
LEMMA OrderKept ==
    ASSUME TypeOK, CacheInv, VectorInv', OrderInv, NEW t \in Threads, Step(t),
           videos' = videos
    PROVE  Sorted(videos, heap)'
<1>1. \A k \in DOMAIN videos : videos[k] \in allocated /\ videos[k] \in allocated'
    BY DEF CacheInv, VectorInv
<1>2. \A k \in DOMAIN videos : heap'[videos[k]].id = heap[videos[k]].id
    BY <1>1, IdentityKept
<1>3. QED
    BY <1>2 DEF OrderInv, Sorted

\* The thread that tears a Video down finds it in the vector.
LEMMA VictimInVector ==
    ASSUME TypeOK, CacheInv, OrderInv, NEW t \in Threads, pc[t] = "remove"
    PROVE  cur_video[t] \in Range(videos)
<1>1. cur_video[t] \in allocated
    BY OwnVideo DEF HasVideo
<1>2. \A u \in Threads : pc[u] = "streams" => u = t
    BY Exclusive DEF Critical
<1>3. QED
    BY <1>1, <1>2 DEF OrderInv

LEMMA StepKeepsOrder ==
    ASSUME ~ReallocMayFail, TypeOK, CacheInv, VectorInv', OrderInv, NEW t \in Threads, Step(t)
    PROVE  OrderInv'
<1> DEFINE Built(v) == \E u \in Threads : pc[u] = "streams" /\ cur_video[u] = v
<1>1. \A u \in Threads : u # t => pc'[u] = pc[u] /\ cur_video'[u] = cur_video[u]
    BY OthersWait
<1>2. \A v \in allocated : v \in Range(videos) \/ Built(v)
    BY DEF OrderInv
<1>3. CASE Control(t) \/ CacheHit(t) \/ ReleaseVideo(t) \/ FreeStreams(t)
           \/ LoadStream(t) \/ DropStream(t)
  <2>1. videos' = videos /\ allocated' = allocated
      BY <1>3, ControlChanges
      DEF CacheHit, ReleaseVideo, FreeStreams, LoadStream, DropStream
  <2>2. pc[t] = "streams" => pc'[t] = "streams" /\ cur_video'[t] = cur_video[t]
      BY <1>3 DEF Control, Request, LockToLoad, CacheMiss, NoInfoFile, InvalidSign, StopPlaying,
                  LockToUnload, CacheHit, ReleaseVideo, FreeStreams, LoadStream, DropStream
  <2>3. \A v : Built(v) => Built(v)'
      BY <1>1, <2>2
  <2>4. QED
      BY <1>2, <2>1, <2>3, OrderKept DEF OrderInv
<1>4. CASE ReadInfoFile(t)
  <2>1. PICK v \in Videos \ allocated : /\ allocated' = allocated \cup {v}
                                       /\ cur_video' = [cur_video EXCEPT ![t] = v]
      BY <1>4 DEF ReadInfoFile
  <2>2. /\ videos' = videos /\ pc[t] = "info" /\ pc'[t] = "streams" /\ cur_video'[t] = v
      BY <1>4, <2>1 DEF ReadInfoFile, TypeOK
  <2>3. \A w : Built(w) => Built(w)'
      BY <1>1, <2>2
  <2>4. Built(v)'
      BY <2>2
  <2>5. QED
      BY <1>2, <2>1, <2>2, <2>3, <2>4, OrderKept DEF OrderInv
<1>5. CASE NoStreamAvailable(t)
  <2>1. videos' = videos /\ allocated' = allocated \ {cur_video[t]}
      BY <1>5 DEF NoStreamAvailable
  <2>2. \A w : Built(w) /\ w # cur_video[t] => Built(w)'
      BY <1>1
  <2>3. QED
      BY <1>2, <2>1, <2>2, OrderKept DEF OrderInv
<1>6. CASE AddVideo(t)
  <2>1. /\ videos' \in Qsort(Append(videos, cur_video[t]), heap)
        /\ pc[t] = "streams"
        /\ heap' = heap /\ allocated' = allocated
      BY <1>6 DEF AddVideo
  <2>2. videos \in Seq(Videos) /\ cur_video[t] \in Videos
      BY <2>1, OwnVideo DEF HasVideo, TypeOK
  <2>3. Append(videos, cur_video[t]) \in Seq(Videos)
      BY <2>2
  <2>4. Sorted(videos', heap)
      BY <2>1, <2>3, QsortPermutes
  <2>5. Range(videos') = Range(videos) \cup {cur_video[t]}
      BY <2>1, <2>2, QsortRange, RangeOfAppend
  <2>6. \A w : Built(w) /\ w # cur_video[t] => Built(w)'
      BY <1>1
  <2>7. \A w \in allocated' : w \in Range(videos') \/ Built(w)'
      BY <1>2, <2>1, <2>5, <2>6
  <2>8. Sorted(videos, heap)'
      BY <2>1, <2>4
  <2>9. QED
      BY <2>7, <2>8 DEF OrderInv, Range
<1>7. CASE RemoveVideo(t)
  <2>1. PICK v \in Videos : v = cur_video[t] /\ v \in allocated /\ v \in Range(videos)
      BY <1>7, VictimInVector, OwnVideo DEF RemoveVideo, HasVideo
  <2>2. PICK s \in Qsort(videos, [heap EXCEPT ![v].id = INT_MAX]) : videos' \in Shrunk(s)
      BY <1>7, <2>1 DEF RemoveVideo
  <2>3. Sorted(videos', heap) /\ Range(videos') = Range(videos) \ {v}
      BY <2>1, <2>2, OnlyVictimLeaves
  <2>4. allocated' = allocated \ {v} /\ pc[t] = "remove"
        /\ heap' = [heap EXCEPT ![v] = Freed]
      BY <1>7, <2>1 DEF RemoveVideo
  <2>5. Sorted(videos', heap')
    <3>1. \A k \in DOMAIN videos' : videos'[k] \in allocated /\ videos'[k] # v
        BY <2>4 DEF VectorInv
    <3>2. \A k \in DOMAIN videos' : heap'[videos'[k]] = heap[videos'[k]]
        BY <2>4, <3>1 DEF TypeOK
    <3>3. QED
        BY <2>3, <3>2 DEF Sorted
  <2>6. \A w : Built(w) => Built(w)'
      BY <1>1, <2>4
  <2>7. \A w \in allocated' : w \in Range(videos') \/ Built(w)'
      BY <1>2, <2>3, <2>4, <2>6
  <2>8. QED
      BY <2>5, <2>7 DEF OrderInv, Sorted, Range
<1>8. QED
    BY <1>3, <1>4, <1>5, <1>6, <1>7 DEF Step, load_video, unload_video, Control

LEMMA NextKeepsOrder ==
    ASSUME ~ReallocMayFail, TypeOK, CacheInv, CacheInv', OrderInv, [Next]_vars
    PROVE  OrderInv'
<1>1. ASSUME NEW t \in Threads, Step(t)
      PROVE  OrderInv'
    BY <1>1, StepKeepsOrder DEF CacheInv
<1>2. CASE UNCHANGED vars
    BY <1>2 DEF OrderInv, Sorted, Range, vars
<1>3. QED
    BY <1>1, <1>2 DEF Next, Step

\* While nobody has the mutex, the vector holds every Video.
LEMMA OrderFinds ==
    ASSUME TypeOK, CacheInv, OrderInv
    PROVE  Findable
<1> SUFFICES ASSUME stream_lock = NoThread
             PROVE  /\ allocated = Range(videos)
                    /\ Cardinality(allocated) = Len(videos)
                    /\ Sorted(videos, heap)
    BY DEF Findable
<1>1. \A t \in Threads : pc[t] # "streams"
    BY ThreadsAssumption DEF CacheInv, LockInv, Critical
<1>2. allocated \subseteq Range(videos)
    BY <1>1 DEF OrderInv
<1>3. /\ DOMAIN videos = 1 .. Len(videos) /\ Len(videos) \in Nat
      /\ \A k \in DOMAIN videos : videos[k] \in allocated
      /\ \A i, j \in DOMAIN videos : videos[i] = videos[j] => i = j
    BY DEF TypeOK, CacheInv, VectorInv
<1>4. allocated = Range(videos)
    BY <1>2, <1>3 DEF Range
<1>5. videos \in Bijection(1 .. Len(videos), allocated)
  <2>1. videos \in [1 .. Len(videos) -> allocated]
      BY <1>3 DEF TypeOK
  <2>2. \A v \in allocated : \E k \in 1 .. Len(videos) : videos[k] = v
      BY <1>3, <1>4 DEF Range
  <2>3. QED
      BY <1>3, <2>1, <2>2 DEF Bijection, Injection, Surjection, IsInjective
<1>6. Cardinality(allocated) = Len(videos)
    BY <1>3, <1>5, FS_CountingElements DEF ExistsBijection
<1>7. QED
    BY <1>4, <1>6 DEF OrderInv

\* Where the shrinking realloc() never fails, every Video in memory is in the
\* vector, once, and the vector is in the order that bsearch() needs, whenever
\* nobody has the mutex.
THEOREM VideosFindable ==
    ASSUME ~ReallocMayFail
    PROVE  Spec => []Findable
<1>1. Init => OrderInv
    BY DEF Init, OrderInv, Sorted
<1>2. TypeOK /\ CacheInv /\ (TypeOK /\ CacheInv)' /\ OrderInv /\ [Next]_vars => OrderInv'
    BY NextKeepsOrder
<1>3. TypeOK /\ CacheInv /\ OrderInv => Findable
    BY OrderFinds
<1>4. QED
    BY <1>1, <1>2, <1>3, CacheInvariant, PTL DEF Spec

-----------------------------------------------------------------------------
(* One copy of a video, where signs cannot tell copies apart.              *)

\* A search that misses the vector of all Videos misses the id in memory.
LEMMA MissedIsNew ==
    ASSUME ~SignedAuth, TypeOK, CacheInv, OrderInv, NEW t \in Threads, CacheMiss(t)
    PROVE  \A v \in allocated : heap[v].id # request[t].id
<1> DEFINE hits == { k \in DOMAIN videos : heap[videos[k]].id = request[t].id }
<1>1. PICK k \in Bsearch(request[t].id) : k \notin DOMAIN videos
    BY DEF CacheMiss
<1>2. Bsearch(request[t].id) = IF hits = {} THEN hits \cup {0} ELSE hits
    BY DEF Bsearch, OrderInv
<1>3. hits = {}
    BY <1>1, <1>2
<1>4. \A u \in Threads : pc[u] # "streams"
    BY Exclusive DEF CacheMiss, Critical
<1>5. allocated \subseteq Range(videos)
    BY <1>4 DEF OrderInv
<1>6. QED
    BY <1>3, <1>5 DEF Range

LEMMA StepKeepsUnique ==
    ASSUME ~SignedAuth, TypeOK, CacheInv, OrderInv, UniqueInv, NEW t \in Threads, Step(t)
    PROVE  UniqueInv'
<1>1. \A v \in allocated \cap allocated' : heap'[v].id = heap[v].id
    BY IdentityKept
<1>2. \A u \in Threads : u # t => pc'[u] = pc[u] /\ request'[u] = request[u]
    BY OthersWait
<1>3. CASE ReadInfoFile(t)
  <2>1. PICK w \in Videos \ allocated, info \in InfoFiles, size \in Garbage :
            /\ heap' = [heap EXCEPT ![w] = NewVideo(request[t], info, size)]
            /\ allocated' = allocated \cup {w}
      BY <1>3 DEF ReadInfoFile
  <2>2. heap'[w].id = request[t].id
      BY <2>1 DEF TypeOK, NewVideo
  <2>3. pc[t] = "info" /\ pc'[t] = "streams"
      BY <1>3 DEF ReadInfoFile, TypeOK
  <2>4. \A v \in allocated : heap'[v].id # request[t].id
      BY <1>1, <2>1, <2>3 DEF UniqueInv
  <2>5. \A v, x \in allocated' : heap'[v].id = heap'[x].id => v = x
      BY <1>1, <2>1, <2>2, <2>4 DEF UniqueInv
  <2>6. \A u \in Threads : pc'[u] # "info"
      BY <1>2, <2>3, Exclusive DEF Critical
  <2>7. QED
      BY <2>5, <2>6 DEF UniqueInv
<1>4. CASE ~ReadInfoFile(t)
  <2>1. allocated' \subseteq allocated
      BY <1>4, ControlChanges
      DEF Step, load_video, unload_video, Control, CacheHit, LoadStream, DropStream,
          NoStreamAvailable, AddVideo, ReleaseVideo, FreeStreams, RemoveVideo
  <2>2. \A v, x \in allocated' : heap'[v].id = heap'[x].id => v = x
      BY <1>1, <2>1 DEF UniqueInv
  <2>3. ASSUME NEW u \in Threads, pc'[u] = "info"
        PROVE  \A v \in allocated' : heap'[v].id # request'[u].id
    <3>1. CASE u # t
        BY <1>1, <1>2, <2>1, <2>3, <3>1 DEF UniqueInv
    <3>2. CASE u = t
      <4>1. CacheMiss(t)
          BY <1>4, <2>3, <3>2
          DEF Step, load_video, unload_video, TypeOK, Request, LockToLoad, CacheHit, NoInfoFile,
              InvalidSign, LoadStream, DropStream, NoStreamAvailable, AddVideo, StopPlaying,
              LockToUnload, ReleaseVideo, FreeStreams, RemoveVideo, GiveUp
      <4>2. heap' = heap /\ request' = request
          BY <4>1 DEF CacheMiss
      <4>3. QED
          BY <2>1, <3>2, <4>1, <4>2, MissedIsNew
    <3>3. QED
        BY <3>1, <3>2
  <2>4. QED
      BY <2>2, <2>3 DEF UniqueInv
<1>5. QED
    BY <1>3, <1>4

LEMMA NextKeepsUnique ==
    ASSUME ~SignedAuth, TypeOK, CacheInv, OrderInv, UniqueInv, [Next]_vars
    PROVE  UniqueInv'
<1>1. ASSUME NEW t \in Threads, Step(t)
      PROVE  UniqueInv'
    BY <1>1, StepKeepsUnique
<1>2. CASE UNCHANGED vars
    BY <1>2 DEF UniqueInv, vars
<1>3. QED
    BY <1>1, <1>2 DEF Next, Step

\* Without signs no video is in memory twice, however many threads miss it at
\* the same time.
THEOREM OneCopyEach ==
    ASSUME ~SignedAuth, ~ReallocMayFail
    PROVE  Spec => []OneCopy
<1>1. Init => OrderInv /\ UniqueInv
    BY DEF Init, OrderInv, Sorted, UniqueInv
<1>2. TypeOK /\ CacheInv /\ (TypeOK /\ CacheInv)' /\ OrderInv /\ UniqueInv /\ [Next]_vars
          => (OrderInv /\ UniqueInv)'
    BY NextKeepsOrder, NextKeepsUnique
<1>3. TypeOK /\ CacheInv /\ OrderInv /\ UniqueInv => OneCopy
    BY DEF CacheInv, VectorInv, UniqueInv, OneCopy, Range
<1>4. QED
    BY <1>1, <1>2, <1>3, CacheInvariant, PTL DEF Spec

-----------------------------------------------------------------------------
(* The promise of VideoHandles.                                            *)

\* A thread that gives back one reference of several leaves another holder.
LEMMA OthersHold ==
    ASSUME TypeOK, CacheInv, NEW t \in Threads, ReleaseVideo(t)
    PROVE  \E u \in Threads \ {t} : Holds(u, cur_video[t])
<1> DEFINE v == cur_video[t]
<1>1. pc[t] = "release" /\ ~(heap[v].counter - 1 <= 0)
    BY DEF ReleaseVideo, LastReference
<1>2. v \in allocated /\ heap[v].counter \in Nat
    BY <1>1, OwnVideo DEF HasVideo, VideoRecords
<1>3. heap[v].counter = Cardinality(Holders(v))
    BY <1>2 DEF CacheInv, RefCount
<1>4. Holders(v) # {t}
    BY <1>1, <1>3, FS_Singleton
<1>5. t \in Holders(v)
    BY <1>1 DEF Holders, Holds
<1>6. QED
    BY <1>4, <1>5 DEF Holders

LEMMA StepKeepsOwned ==
    ASSUME TypeOK, CacheInv, OwnedInv, NEW t \in Threads, Step(t)
    PROVE  OwnedInv'
<1> SUFFICES ASSUME NEW v \in allocated'
             PROVE  \E u \in Threads : cur_video'[u] = v
    BY DEF OwnedInv
<1>1. \A u \in Threads : u # t => cur_video'[u] = cur_video[u]
    BY OthersWait
<1>2. CASE ReadInfoFile(t)
  <2>1. PICK w \in Videos \ allocated : /\ allocated' = allocated \cup {w}
                                       /\ cur_video' = [cur_video EXCEPT ![t] = w]
      BY <1>2 DEF ReadInfoFile
  <2>2. cur_video'[t] = w /\ cur_video[t] = NoVideo
      BY <1>2, <2>1 DEF ReadInfoFile, TypeOK, CacheInv, HandleInv, HasVideo
  <2>3. QED
      BY <1>1, <2>1, <2>2, ThreadsAssumption DEF OwnedInv, TypeOK
<1>3. CASE CacheHit(t)
  <2>1. cur_video[t] = NoVideo /\ allocated' = allocated
      BY <1>3 DEF CacheHit, CacheInv, HandleInv, HasVideo
  <2>2. QED
      BY <1>1, <2>1, ThreadsAssumption DEF OwnedInv, TypeOK
<1>4. CASE ReleaseVideo(t)
  <2>1. allocated' = allocated
      BY <1>4 DEF ReleaseVideo
  <2>2. \E u \in Threads \ {t} : cur_video[u] = cur_video[t]
      BY <1>4, OthersHold DEF Holds
  <2>3. \E u \in Threads \ {t} : cur_video[u] = v
      BY <2>1, <2>2 DEF OwnedInv
  <2>4. QED
      BY <1>1, <2>3
<1>5. CASE NoStreamAvailable(t) \/ RemoveVideo(t)
  <2>1. allocated' = allocated \ {cur_video[t]}
      BY <1>5 DEF NoStreamAvailable, RemoveVideo
  <2>2. QED
      BY <1>1, <2>1 DEF OwnedInv
<1>6. CASE Control(t) \/ LoadStream(t) \/ DropStream(t) \/ AddVideo(t) \/ FreeStreams(t)
    BY <1>6, ControlChanges DEF OwnedInv, LoadStream, DropStream, AddVideo, FreeStreams
<1>7. QED
    BY <1>2, <1>3, <1>4, <1>5, <1>6 DEF Step, load_video, unload_video, Control

\* An open video is in memory.
LEMMA OpenInMemory ==
    ASSUME TypeOK, CacheInv, NEW v \in Handles!Open
    PROVE  v \in allocated
<1>1. PICK u \in Threads : handle[u] = v /\ v \in Videos
    BY DEF Handles!Open
<1>2. pc[u] \in {"playing", "unload", "release"} /\ cur_video[u] = v
    BY <1>1, ThreadsAssumption DEF handle
<1>3. QED
    BY <1>2, OwnVideo DEF HasVideo

\* Two identities are equal if they agree on every Video.
LEMMA IdentityIsFunction ==
    /\ identity = [v \in Videos |-> identity[v]]
    /\ identity' = [v \in Videos |-> identity'[v]]
BY DEF identity

\* A step changes the handle of one thread only, and the identity of no Video
\* that stays open.
LEMMA OneHandle ==
    ASSUME TypeOK, CacheInv, TypeOK', CacheInv', NEW t \in Threads, Step(t)
    PROVE  /\ \A u \in Threads : u # t => handle'[u] = handle[u]
           /\ handle' = [handle EXCEPT ![t] = handle'[t]]
           /\ \A v \in Handles!Open : v \in Handles!Open' => identity'[v] = identity[v]
<1>1. \A u \in Threads : u # t => handle'[u] = handle[u]
    BY OthersWait DEF handle
<1>2. handle' = [handle EXCEPT ![t] = handle'[t]]
    BY <1>1 DEF handle
<1>3. ASSUME NEW v \in Handles!Open, v \in Handles!Open'
      PROVE  identity'[v] = identity[v]
  <2>1. v \in allocated /\ v \in Videos
      BY <1>3, OpenInMemory DEF Handles!Open
  <2>2. v \in allocated'
    <3>1. PICK u \in Threads : handle'[u] = v
        BY <1>3 DEF Handles!Open
    <3>2. pc'[u] \in {"playing", "unload", "release"} /\ cur_video'[u] = v
        BY <2>1, <3>1, ThreadsAssumption DEF handle
    <3>3. QED
        BY <3>2 DEF CacheInv, HandleInv, HasVideo
  <2>3. heap'[v].id = heap[v].id
      BY <2>1, <2>2, IdentityKept
  <2>4. identity[v] = heap[v].id /\ identity'[v] = heap'[v].id
      BY <1>3, <2>1 DEF identity, Handles!Open
  <2>5. QED
      BY <2>3, <2>4
<1>4. QED
    BY <1>1, <1>2, <1>3

\* A step that leaves the thread's handle alone is a stutter.
LEMMA HandleKept ==
    ASSUME TypeOK, CacheInv, TypeOK', CacheInv', NEW t \in Threads, Step(t),
           handle'[t] = handle[t]
    PROVE  UNCHANGED <<handle, identity>>
<1>1. handle' = handle
    BY OneHandle DEF handle
<1>2. Handles!Open' = Handles!Open
    BY <1>1 DEF Handles!Open
<1>3. \A v \in Videos : identity'[v] = identity[v]
  <2>1. \A v \in Handles!Open : identity'[v] = identity[v]
      BY <1>2, OneHandle
  <2>2. \A v \in Videos : v \notin Handles!Open => identity'[v] = identity[v]
      BY <1>2 DEF identity, Handles!Open
  <2>3. QED
      BY <2>1, <2>2
<1>4. identity' = identity
    BY <1>3 DEF identity
<1>5. QED
    BY <1>1, <1>4

\* A hit shares the video with somebody who has it open.
LEMMA HitShares ==
    ASSUME TypeOK, CacheInv, TypeOK', CacheInv', OwnedInv, NEW t \in Threads, CacheHit(t)
    PROVE  \E v \in Videos : Handles!Share(t, v)
<1>1. PICK k \in DOMAIN videos : cur_video' = [cur_video EXCEPT ![t] = videos[k]]
    BY DEF CacheHit
<1> DEFINE v == videos[k]
<1>2. pc[t] = "search" /\ pc'[t] = "playing" /\ cur_video'[t] = v /\ Step(t)
    BY <1>1 DEF CacheHit, TypeOK, Step, load_video
<1>3. v \in allocated /\ v \in Videos
    BY DEF CacheInv, VectorInv, TypeOK
<1> HIDE DEF v
<1>4. PICK u \in Threads : cur_video[u] = v
    BY <1>3 DEF OwnedInv
<1>5. pc[u] \in {"playing", "unload"}
  <2>1. pc[u] \in HasVideo
      BY <1>3, <1>4, ThreadsAssumption DEF CacheInv, HandleInv
  <2>2. pc[u] \in Critical => u = t
      BY <1>2, Exclusive DEF Critical
  <2>3. QED
      BY <1>2, <2>1, <2>2 DEF HasVideo, Critical
<1>6. handle[t] = NoVideo /\ handle'[t] = v /\ handle[u] = v
    BY <1>2, <1>4, <1>5 DEF handle
<1>7. v \in Handles!Open
    BY <1>3, <1>6 DEF Handles!Open
<1>8. handle' = [handle EXCEPT ![t] = v]
    BY <1>2, <1>6, OneHandle
<1>9. identity' = identity
  <2>1. \A w \in Videos : w \in Handles!Open' <=> w \in Handles!Open
    <3>1. \A x \in Threads : x # t => handle'[x] = handle[x]
        BY <1>2, OneHandle
    <3>2. u # t
        BY <1>2, <1>5
    <3>3. QED
        BY <1>3, <1>6, <3>1, <3>2, ThreadsAssumption DEF Handles!Open
  <2>2. \A w \in Videos : identity'[w] = identity[w]
    <3>1. \A w \in Handles!Open : identity'[w] = identity[w]
        BY <1>2, <2>1, OneHandle DEF Handles!Open
    <3>2. \A w \in Videos : w \notin Handles!Open => identity'[w] = identity[w]
        BY <2>1 DEF identity, Handles!Open
    <3>3. QED
        BY <3>1, <3>2
  <2>3. QED
      BY <2>2 DEF identity
<1>10. QED
    BY <1>3, <1>6, <1>7, <1>8, <1>9 DEF Handles!Share

\* A miss loads the video at an address that nobody has open, and where copies
\* cannot be told apart nobody has the video open at another.
LEMMA AddLoads ==
    ASSUME TypeOK, CacheInv, TypeOK', CacheInv', RequestInv,
           ~(SignedAuth \/ ReallocMayFail) => UniqueInv, NEW t \in Threads, AddVideo(t)
    PROVE  \E v \in Videos, id \in Ids : Handles!Load(t, v, id)
<1> DEFINE v == cur_video[t]
           id == heap[v].id
<1>1. /\ pc[t] = "streams" /\ pc'[t] = "playing" /\ cur_video'[t] = v
      /\ heap' = heap /\ Step(t)
    BY DEF AddVideo, TypeOK, Step, load_video
<1>2. v \in allocated /\ v \in Videos
    BY <1>1, OwnVideo DEF HasVideo
<1>3. id \in Ids
    BY <1>1, <1>2 DEF RequestInv, Ids, Names, Range
<1>4. \A u \in Threads : u # t => cur_video[u] # v
    BY <1>1, BuiltAlone
<1> HIDE DEF v, id
<1>5. handle[t] = NoVideo /\ handle'[t] = v
    BY <1>1 DEF handle
<1>6. \A u \in Threads : handle[u] # v
    BY <1>2, <1>4, <1>5, ThreadsAssumption DEF handle
<1>7. v \notin Handles!Open
    BY <1>6 DEF Handles!Open
<1>8. \A x \in Threads : x # t => handle'[x] = handle[x]
    BY <1>1, OneHandle
<1>9. handle' = [handle EXCEPT ![t] = v]
    BY <1>1, <1>5, OneHandle
<1>10. \A w \in Videos : w \in Handles!Open' <=> w = v \/ w \in Handles!Open
    BY <1>2, <1>5, <1>8, ThreadsAssumption DEF Handles!Open
<1>11. identity' = [identity EXCEPT ![v] = id]
  <2>1. identity'[v] = id
      BY <1>1, <1>2, <1>10 DEF identity, Handles!Open, id
  <2>2. \A w \in Videos : w # v => identity'[w] = identity[w]
    <3>1. \A w \in Handles!Open : identity'[w] = identity[w]
        BY <1>1, <1>10, OneHandle DEF Handles!Open
    <3>2. \A w \in Videos : w # v /\ w \notin Handles!Open => identity'[w] = identity[w]
        BY <1>10 DEF identity, Handles!Open
    <3>3. QED
        BY <3>1, <3>2
  <2>3. QED
      BY <1>2, <2>1, <2>2, IdentityIsFunction
<1>12. ~(SignedAuth \/ ReallocMayFail) => \A w \in Handles!Open : identity[w] # id
  <2> SUFFICES ASSUME UniqueInv, NEW w \in Handles!Open
               PROVE  identity[w] # id
      OBVIOUS
  <2>1. w \in allocated /\ w \in Videos
      BY OpenInMemory DEF Handles!Open
  <2>2. w # v /\ identity[w] = heap[w].id
      BY <1>7, <2>1 DEF identity, Handles!Open
  <2>3. QED
      BY <1>2, <2>1, <2>2 DEF UniqueInv, id
<1>13. QED
    BY <1>2, <1>3, <1>5, <1>7, <1>9, <1>11, <1>12 DEF Handles!Load

\* What happens to the others when a thread closes its video.
LEMMA CloseHandle ==
    ASSUME TypeOK, CacheInv, TypeOK', CacheInv', NEW t \in Threads, Step(t),
           NEW v \in Videos, handle[t] = v, handle'[t] = NoVideo
    PROVE  Handles!Close(t)
<1>1. \A x \in Threads : x # t => handle'[x] = handle[x]
    BY OneHandle
<1>2. handle' = [handle EXCEPT ![t] = NoVideo]
    BY OneHandle
<1>3. v # NoVideo
    BY ThreadsAssumption
<1>4. \A w \in Videos : w # v => (w \in Handles!Open' <=> w \in Handles!Open)
    BY <1>1, ThreadsAssumption DEF Handles!Open
<1>5. v \in Handles!Open
    BY DEF Handles!Open
<1>6. v \in Handles!Open' <=> \E u \in Threads \ {t} : handle[u] = v
    BY <1>1, <1>3 DEF Handles!Open
<1>7. \A w \in Videos : w # v => identity'[w] = identity[w]
  <2>1. \A w \in Handles!Open : w # v => identity'[w] = identity[w]
      BY <1>4, OneHandle DEF Handles!Open
  <2>2. \A w \in Videos : w # v /\ w \notin Handles!Open => identity'[w] = identity[w]
      BY <1>4 DEF identity, Handles!Open
  <2>3. QED
      BY <2>1, <2>2
<1>8. identity'[v] = IF \E u \in Threads \ {t} : handle[u] = v THEN identity[v] ELSE 0
  <2>1. CASE \E u \in Threads \ {t} : handle[u] = v
    <3>1. identity'[v] = identity[v]
        BY <1>5, <1>6, <2>1, OneHandle
    <3>2. QED
        BY <2>1, <3>1
  <2>2. CASE ~(\E u \in Threads \ {t} : handle[u] = v)
    <3>1. v \notin Handles!Open'
        BY <1>6, <2>2
    <3>2. identity'[v] = 0
        BY <3>1 DEF identity, Handles!Open
    <3>3. QED
        BY <2>2, <3>2
  <2>3. QED
      BY <2>1, <2>2
<1>9. identity' = [identity EXCEPT ![v] =
                      IF \E u \in Threads \ {t} : handle[u] = v THEN identity[v] ELSE 0]
    BY <1>7, <1>8, IdentityIsFunction
<1>10. QED
    BY <1>2, <1>3, <1>9 DEF Handles!Close

\* The reference of the thread is taken away: the video is closed.
LEMMA ReleaseCloses ==
    ASSUME TypeOK, CacheInv, TypeOK', CacheInv', NEW t \in Threads,
           ReleaseVideo(t) \/ FreeStreams(t)
    PROVE  Handles!Close(t)
<1>1. pc[t] = "release" /\ pc'[t] \in {"idle", "remove"} /\ Step(t)
    BY DEF ReleaseVideo, FreeStreams, GiveUp, TypeOK, Step, unload_video
<1>2. cur_video[t] \in Videos
    BY <1>1, OwnVideo DEF HasVideo
<1>3. handle[t] = cur_video[t] /\ handle'[t] = NoVideo
    BY <1>1 DEF handle
<1>4. QED
    BY <1>1, <1>2, <1>3, CloseHandle

\* All other steps leave the handle alone.
LEMMA OtherStepsStutter ==
    ASSUME TypeOK, CacheInv, TypeOK', CacheInv', NEW t \in Threads,
           \/ Control(t) \/ ReadInfoFile(t) \/ LoadStream(t) \/ DropStream(t)
           \/ NoStreamAvailable(t) \/ RemoveVideo(t)
    PROVE  UNCHANGED <<handle, identity>>
<1>1. Step(t)
    BY DEF Step, load_video, unload_video, Control
<1>2. \/ /\ pc[t] \notin {"playing", "unload", "release"}
         /\ pc'[t] \notin {"playing", "unload", "release"}
      \/ /\ pc[t] \in {"playing", "unload", "release"}
         /\ pc'[t] \in {"playing", "unload", "release"}
         /\ cur_video' = cur_video
    BY DEF Control, Request, LockToLoad, CacheMiss, NoInfoFile, InvalidSign, StopPlaying,
           LockToUnload, ReadInfoFile, LoadStream, DropStream, NoStreamAvailable, RemoveVideo,
           GiveUp, TypeOK
<1>3. handle'[t] = handle[t]
    BY <1>2 DEF handle
<1>4. QED
    BY <1>1, <1>3, HandleKept

\* What the refinement needs to know of the cache.
HandlesInv ==
    /\ RequestInv
    /\ OwnedInv
    /\ ~ReallocMayFail => OrderInv
    /\ ~(SignedAuth \/ ReallocMayFail) => UniqueInv

LEMMA NextKeepsHandles ==
    ASSUME TypeOK, CacheInv, CacheInv', HandlesInv, [Next]_vars
    PROVE  HandlesInv'
<1>1. ASSUME NEW t \in Threads, Step(t)
      PROVE  RequestInv' /\ OwnedInv'
  <2>1. RequestInv /\ OwnedInv
      BY DEF HandlesInv
  <2>2. HandleInv'
      BY DEF CacheInv
  <2>3. QED
      BY <1>1, <2>1, <2>2, StepKeepsRequests, StepKeepsOwned
<1>2. ASSUME UNCHANGED vars
      PROVE  RequestInv' /\ OwnedInv'
    BY <1>2 DEF HandlesInv, RequestInv, OwnedInv, vars
<1>3. RequestInv' /\ OwnedInv'
    BY <1>1, <1>2 DEF Next, Step
<1>4. ~ReallocMayFail => OrderInv'
    BY NextKeepsOrder DEF HandlesInv
<1>5. ~(SignedAuth \/ ReallocMayFail) => UniqueInv'
    BY NextKeepsUnique DEF HandlesInv
<1>6. QED
    BY <1>3, <1>4, <1>5 DEF HandlesInv

LEMMA StepKeepsPromise ==
    ASSUME TypeOK, CacheInv, TypeOK', CacheInv', HandlesInv, NEW t \in Threads, Step(t)
    PROVE  Handles!Next \/ UNCHANGED <<handle, identity>>
<1>1. CASE CacheHit(t)
    BY <1>1, HitShares DEF HandlesInv, Handles!Next
<1>2. CASE AddVideo(t)
    BY <1>2, AddLoads DEF HandlesInv, Handles!Next
<1>3. CASE ReleaseVideo(t) \/ FreeStreams(t)
    BY <1>3, ReleaseCloses DEF Handles!Next
<1>4. CASE \/ Control(t) \/ ReadInfoFile(t) \/ LoadStream(t) \/ DropStream(t)
           \/ NoStreamAvailable(t) \/ RemoveVideo(t)
    BY <1>4, OtherStepsStutter
<1>5. QED
    BY <1>1, <1>2, <1>3, <1>4 DEF Step, load_video, unload_video, Control

\* The cache keeps the promise of VideoHandles: a video that somebody has open
\* is shared, and the last one to close it frees it; where copies cannot be told
\* apart and the vector is never lost, no video is open twice.
THEOREM CacheImplementsHandles == Spec => ImplementsHandles
<1>1. Init => HandlesInv /\ Handles!Init
  <2>1. Init => HandlesInv
      BY DEF Init, HandlesInv, RequestInv, OwnedInv, OrderInv, Sorted, UniqueInv
  <2>2. Init => Handles!Init
    <3> SUFFICES ASSUME Init
                 PROVE  Handles!Init
        OBVIOUS
    <3>1. \A t \in Threads : handle[t] = NoVideo
        BY DEF Init, handle
    <3>2. \A v \in Videos : identity[v] = 0
        BY <3>1, ThreadsAssumption DEF identity
    <3>3. QED
        BY <3>1, <3>2 DEF handle, identity, Handles!Init
  <2>3. QED
      BY <2>1, <2>2
<1>2. TypeOK /\ CacheInv /\ (TypeOK /\ CacheInv)' /\ HandlesInv /\ [Next]_vars => HandlesInv'
    BY NextKeepsHandles
<1>3. TypeOK /\ CacheInv /\ (TypeOK /\ CacheInv)' /\ HandlesInv /\ [Next]_vars
          => [Handles!Next]_(Handles!vars)
  <2> SUFFICES ASSUME TypeOK, CacheInv, TypeOK', CacheInv', HandlesInv, [Next]_vars
               PROVE  Handles!Next \/ UNCHANGED <<handle, identity>>
      BY DEF Handles!vars
  <2>1. ASSUME NEW t \in Threads, Step(t)
        PROVE  Handles!Next \/ UNCHANGED <<handle, identity>>
      BY <2>1, StepKeepsPromise
  <2>2. CASE UNCHANGED vars
      BY <2>2 DEF handle, identity, vars
  <2>3. QED
      BY <2>1, <2>2 DEF Next, Step
<1>4. QED
    BY <1>1, <1>2, <1>3, CacheInvariant, PTL DEF Spec, ImplementsHandles, Handles!Spec

-----------------------------------------------------------------------------
(* The memory in use.                                                      *)

\* What each Video takes.
Sizes == [v \in Videos |-> heap[v].size]

LEMMA CountedFinite ==
    ASSUME TypeOK, MemInv
    PROVE  IsFiniteSet(Counted) /\ \A v \in Counted : Sizes[v] \in Int
<1>1. Counted \subseteq allocated
    BY DEF Counted
<1>2. IsFiniteSet(Counted)
    BY <1>1, FS_Subset DEF MemInv
<1>3. QED
    BY <1>1, <1>2 DEF TypeOK, Sizes, VideoRecords

\* A step that changes neither what is counted nor the sizes.
LEMMA MemUsedSame ==
    ASSUME TypeOK, MemInv, mem_used' = mem_used, Counted' = Counted,
           \A v \in Counted : heap'[v].size = heap[v].size
    PROVE  MemUsedExact'
<1>1. IsFiniteSet(Counted)
    BY CountedFinite
<1>2. Counted \subseteq Videos
    BY DEF Counted, TypeOK
<1>3. \A v \in Counted : Sizes'[v] = Sizes[v]
    BY <1>2 DEF Sizes
<1>4. SumFunctionOnSet(Sizes', Counted) = SumFunctionOnSet(Sizes, Counted)
    BY <1>1, <1>3, SumOfSame
<1>5. QED
    BY <1>4 DEF MemInv, MemUsedExact, Sizes

\* Who is counted depends on what a step makes of its own thread.
LEMMA CountedStays ==
    ASSUME TypeOK, NEW t \in Threads, Step(t), allocated' = allocated,
           pc[t] # "streams", pc'[t] # "streams"
    PROVE  Counted' = Counted
<1>1. \A u \in Threads \ {t} : pc'[u] = pc[u] /\ cur_video'[u] = cur_video[u]
    BY OthersWait
<1>2. QED
    BY <1>1 DEF Counted

\* The steps that leave what is counted alone.
LEMMA OtherStepsUncounted ==
    ASSUME TypeOK, CacheInv, MemInv, NEW t \in Threads, Step(t),
           ~NoStreamAvailable(t), ~AddVideo(t), ~RemoveVideo(t)
    PROVE  MemUsedExact'
<1> USE DEF TypeOK
<1>1. CASE Control(t) \/ FreeStreams(t) \/ ReleaseVideo(t)
  <2>1. /\ pc[t] # "streams" /\ pc'[t] # "streams"
        /\ allocated' = allocated /\ mem_used' = mem_used
      BY <1>1 DEF Control, Request, LockToLoad, CacheMiss, NoInfoFile, InvalidSign, StopPlaying,
                  LockToUnload, FreeStreams, ReleaseVideo, GiveUp
  <2>2. \A v \in Videos : heap'[v].size = heap[v].size
    <3>1. CASE heap' = heap
        BY <3>1
    <3>2. CASE heap' = [heap EXCEPT ![cur_video[t]].counter = @ - 1]
        BY <3>2 DEF VideoRecords
    <3>3. CASE heap' = [heap EXCEPT ![cur_video[t]].counter = @ - 1,
                                    ![cur_video[t]].streams = 0]
        BY <3>3 DEF VideoRecords
    <3>4. QED
        BY <1>1, <3>1, <3>2, <3>3, ControlChanges DEF ReleaseVideo, FreeStreams
  <2>3. QED
      BY <2>1, <2>2, CountedStays, MemUsedSame DEF Counted
<1>2. CASE CacheHit(t)
  <2>1. /\ pc[t] # "streams" /\ pc'[t] # "streams"
        /\ allocated' = allocated /\ mem_used' = mem_used
      BY <1>2 DEF CacheHit
  <2>2. PICK k \in DOMAIN videos : heap' = [heap EXCEPT ![videos[k]].counter = @ + 1]
      BY <1>2 DEF CacheHit
  <2>3. \A v \in Videos : heap'[v].size = heap[v].size
      BY <2>2 DEF VideoRecords
  <2>4. QED
      BY <2>1, <2>3, CountedStays, MemUsedSame DEF Counted
<1>3. CASE ReadInfoFile(t)
  <2>1. PICK v \in Videos \ allocated, info \in InfoFiles, size \in Garbage :
          /\ heap' = [heap EXCEPT ![v] = NewVideo(request[t], info, size)]
          /\ allocated' = allocated \cup {v}
          /\ cur_video' = [cur_video EXCEPT ![t] = v]
      BY <1>3 DEF ReadInfoFile
  <2>2. /\ pc[t] = "info" /\ pc' = [pc EXCEPT ![t] = "streams"]
        /\ mem_used' = mem_used
      BY <1>3 DEF ReadInfoFile
  <2>3. cur_video[t] \notin allocated
      BY <2>2, ThreadsAssumption DEF CacheInv, HandleInv, HasVideo
  <2>4. Counted' = Counted
      BY <2>1, <2>2, <2>3 DEF Counted
  <2>5. \A w \in Counted : heap'[w].size = heap[w].size
      BY <2>1 DEF Counted
  <2>6. QED
      BY <2>2, <2>4, <2>5, MemUsedSame
<1>4. CASE LoadStream(t) \/ DropStream(t)
  <2>1. /\ pc[t] = "streams"
        /\ UNCHANGED <<pc, cur_video, allocated, mem_used>>
      BY <1>4 DEF LoadStream, DropStream
  <2>2. cur_video[t] \notin Counted /\ Counted' = Counted
      BY <2>1 DEF Counted
  <2>3. PICK n \in Int : \/ heap' = [heap EXCEPT ![cur_video[t]].streams = @ + 1,
                                                 ![cur_video[t]].size = @ + n]
                         \/ heap' = [heap EXCEPT ![cur_video[t]].stream_num = @ - 1]
      BY <1>4, SizesAssumption DEF LoadStream, DropStream
  <2>4. \A w \in Counted : heap'[w].size = heap[w].size
      BY <2>2, <2>3 DEF Counted
  <2>5. QED
      BY <2>1, <2>2, <2>4, MemUsedSame
<1>5. QED
    BY <1>1, <1>2, <1>3, <1>4 DEF Step, load_video, unload_video, Control

\* The Video that joins the vector is counted from then on.
LEMMA AddVideoCounts ==
    ASSUME TypeOK, CacheInv, MemInv, NEW t \in Threads, AddVideo(t)
    PROVE  MemUsedExact'
<1> DEFINE v == cur_video[t]
<1>1. /\ pc[t] = "streams" /\ pc' = [pc EXCEPT ![t] = "playing"]
      /\ mem_used' = (mem_used + heap[v].size) % MemMod
      /\ heap' = heap /\ allocated' = allocated /\ cur_video' = cur_video
    BY DEF AddVideo
<1>2. v \in allocated /\ v \in Videos /\ heap[v] \in VideoRecords
    BY <1>1, OwnVideo DEF HasVideo
<1>3. \A u \in Threads \ {t} : cur_video[u] # v
    BY <1>1 DEF CacheInv, PrivateInv
<1>4. v \notin Counted /\ Counted' = Counted \cup {v}
    BY <1>1, <1>2, <1>3 DEF TypeOK, Counted
<1>5. Sizes' = Sizes /\ Sizes[v] = heap[v].size /\ Sizes[v] \in Int
    BY <1>1, <1>2 DEF Sizes, VideoRecords
<1> HIDE DEF v
<1>6. SumFunctionOnSet(Sizes, Counted \cup {v}) = Sizes[v] + SumFunctionOnSet(Sizes, Counted)
    BY <1>4, <1>5, CountedFinite, SumWith
<1>7. SumFunctionOnSet(Sizes, Counted) \in Int
    BY CountedFinite, SumWithout
<1>8. mem_used = SumFunctionOnSet(Sizes, Counted) % MemMod
    BY DEF MemInv, MemUsedExact, Sizes
<1>9. mem_used' = (SumFunctionOnSet(Sizes, Counted) + Sizes[v]) % MemMod
    BY <1>1, <1>5, <1>7, <1>8, ModAdd, SizesAssumption
<1>10. mem_used' = SumFunctionOnSet(Sizes, Counted \cup {v}) % MemMod
    BY <1>5, <1>6, <1>7, <1>9
<1>11. QED
    BY <1>4, <1>5, <1>10 DEF MemUsedExact, Sizes

\* The Video that is freed is counted until then.
LEMMA RemoveVideoCounts ==
    ASSUME TypeOK, CacheInv, MemInv, NEW t \in Threads, RemoveVideo(t)
    PROVE  MemUsedExact'
<1> DEFINE v == cur_video[t]
           rest == Counted \ {v}
<1>1. /\ pc[t] = "remove" /\ pc' = [pc EXCEPT ![t] = "idle"]
      /\ mem_used' = (mem_used - heap[v].size) % MemMod
      /\ heap' = [heap EXCEPT ![v] = Freed] /\ allocated' = allocated \ {v}
      /\ cur_video' = [cur_video EXCEPT ![t] = NoVideo]
    BY DEF RemoveVideo, GiveUp, MemReleased
<1>2. v \in allocated /\ v \in Videos /\ heap[v] \in VideoRecords
    BY <1>1, OwnVideo DEF HasVideo
<1>3. \A u \in Threads \ {t} : cur_video[u] # v
    BY <1>1 DEF CacheInv, PrivateInv
<1>4. v \in Counted /\ Counted' = rest
  <2>1. v \in Counted
      BY <1>1, <1>2, <1>3 DEF Counted
  <2>2. Counted' = rest
      BY <1>1, <1>2, <1>3 DEF TypeOK, Counted
  <2>3. QED
      BY <2>1, <2>2
<1>5. /\ Sizes[v] = heap[v].size /\ Sizes[v] \in Int
      /\ \A w \in rest : Sizes'[w] = Sizes[w]
    BY <1>1, <1>2 DEF Sizes, VideoRecords, Counted, TypeOK
<1>6. IsFiniteSet(rest) /\ rest \subseteq Counted
    BY CountedFinite, FS_RemoveElement
<1>7. SumFunctionOnSet(Sizes', rest) = SumFunctionOnSet(Sizes, rest)
  <2> HIDE DEF rest
  <2>1. QED
      BY <1>5, <1>6, SumOfSame
<1> HIDE DEF v
<1>8. SumFunctionOnSet(Sizes, Counted) = Sizes[v] + SumFunctionOnSet(Sizes, rest)
    BY <1>4, CountedFinite, SumWithout
<1>9. SumFunctionOnSet(Sizes, rest) \in Int /\ SumFunctionOnSet(Sizes, Counted) \in Int
  <2> HIDE DEF rest
  <2>1. \A w \in rest : Sizes[w] \in Int
      BY <1>6, CountedFinite
  <2>2. QED
      BY <1>6, <2>1, CountedFinite, SumWithout
<1>10. mem_used = SumFunctionOnSet(Sizes, Counted) % MemMod
    BY DEF MemInv, MemUsedExact, Sizes
<1> HIDE DEF rest
<1>11. PICK less \in Int : less = 0 - Sizes[v]
    BY <1>5
<1>12. mem_used' = (mem_used + less) % MemMod
  <2>1. mem_used \in Int
      BY DEF TypeOK
  <2>2. mem_used - heap[v].size = mem_used + less
      BY <1>5, <1>11, <2>1
  <2>3. QED
      BY <1>1, <2>2
<1>13. mem_used' = (SumFunctionOnSet(Sizes, Counted) + less) % MemMod
    BY <1>9, <1>10, <1>12, ModAdd, SizesAssumption
<1>14. mem_used' = SumFunctionOnSet(Sizes, rest) % MemMod
  <2>1. SumFunctionOnSet(Sizes, Counted) + less = SumFunctionOnSet(Sizes, rest)
      BY <1>5, <1>8, <1>9, <1>11
  <2>2. QED
      BY <1>13, <2>1
<1>15. QED
    BY <1>4, <1>7, <1>14 DEF MemUsedExact, Sizes

\* A step adds at most one Video to the memory.
LEMMA MemoryFinite ==
    ASSUME IsFiniteSet(allocated), NEW t \in Threads, Step(t)
    PROVE  IsFiniteSet(allocated')
<1>1. \/ allocated' = allocated
      \/ \E v : allocated' = allocated \cup {v}
      \/ \E v : allocated' = allocated \ {v}
    BY ControlChanges
    DEF Step, load_video, unload_video, Control, CacheHit, ReadInfoFile, LoadStream, DropStream,
        NoStreamAvailable, AddVideo, ReleaseVideo, FreeStreams, RemoveVideo
<1>2. QED
    BY <1>1, FS_AddElement, FS_RemoveElement

\* A thread at work on a Video has streams to load, if the files are there.
LEMMA StreamsListed ==
    ASSUME FilesIntact, \A n \in StreamNums : n > 0,
           TypeOK, CacheInv, MemInv, NEW t \in Threads, Step(t),
           NEW u \in Threads, pc'[u] = "streams"
    PROVE  heap'[cur_video'[u]].stream_num > 0
<1> USE DEF TypeOK
<1>1. CASE u # t
  <2>1. pc[u] = "streams" /\ cur_video'[u] = cur_video[u]
      BY <1>1, OthersWait
  <2>2. /\ cur_video[u] \in allocated /\ cur_video[u] \in Videos
        /\ cur_video[t] # cur_video[u] /\ heap[cur_video[u]].stream_num > 0
      BY <1>1, <2>1, OwnVideo, BuiltAlone DEF HasVideo, MemInv
  <2>3. stream_lock = u /\ pc[t] \notin Critical
      BY <1>1, <2>1 DEF CacheInv, LockInv, Critical
  <2>4. heap' = heap
      BY <2>3, ControlChanges
      DEF Step, load_video, unload_video, Control, CacheHit, ReadInfoFile, LoadStream, DropStream,
          NoStreamAvailable, AddVideo, ReleaseVideo, FreeStreams, RemoveVideo, Critical
  <2>5. QED
      BY <2>1, <2>2, <2>4
<1>2. CASE u = t
  <2>1. CASE ReadInfoFile(t)
    <3>1. PICK v \in Videos \ allocated, info \in InfoFiles, size \in Garbage :
            /\ heap' = [heap EXCEPT ![v] = NewVideo(request[t], info, size)]
            /\ cur_video' = [cur_video EXCEPT ![t] = v]
        BY <2>1 DEF ReadInfoFile
    <3>2. info.stream_num \in StreamNums
        BY DEF InfoFiles
    <3>3. QED
        BY <1>2, <3>1, <3>2 DEF NewVideo
  <2>2. CASE LoadStream(t)
    <3>1. pc[t] = "streams" /\ cur_video' = cur_video
        BY <2>2 DEF LoadStream
    <3>2. PICK n \in StreamSizes :
            heap' = [heap EXCEPT ![cur_video[t]].streams = @ + 1, ![cur_video[t]].size = @ + n]
        BY <2>2 DEF LoadStream
    <3>3. heap[cur_video[t]].stream_num > 0 /\ cur_video[t] \in Videos
          /\ heap[cur_video[t]] \in VideoRecords
        BY <3>1, OwnVideo DEF MemInv, HasVideo
    <3>4. heap'[cur_video[t]].stream_num = heap[cur_video[t]].stream_num
        BY <3>2, <3>3 DEF VideoRecords
    <3>5. QED
        BY <1>2, <3>1, <3>3, <3>4
  <2>3. ReadInfoFile(t) \/ LoadStream(t)
      BY <1>2
      DEF Step, load_video, unload_video, Request, LockToLoad, CacheMiss, NoInfoFile, InvalidSign,
          StopPlaying, LockToUnload, CacheHit, ReadInfoFile, LoadStream, DropStream,
          NoStreamAvailable, AddVideo, ReleaseVideo, FreeStreams, RemoveVideo, GiveUp
  <2>4. QED
      BY <2>1, <2>2, <2>3
<1>3. QED
    BY <1>1, <1>2

\* mem_used is the memory of the videos in the cache, whatever malloc() left in
\* their `size', if every load finds its streams: the load that finds none
\* (NoStreamAvailable) adds the garbage for good.
THEOREM MemoryCounted ==
    ASSUME FilesIntact, \A n \in StreamNums : n > 0
    PROVE  Spec => []MemUsedExact
<1>1. Init => MemInv
  <2> SUFFICES ASSUME Init PROVE MemInv
      OBVIOUS
  <2>1. Counted = {}
      BY DEF Init, Counted
  <2>2. SumFunctionOnSet([v \in Videos |-> heap[v].size], {}) = 0
      BY SumOfNone
  <2>3. 0 % MemMod = 0
      BY SizesAssumption
  <2>4. IsFiniteSet({})
      BY FS_EmptySet
  <2>5. QED
      BY <2>1, <2>2, <2>3, <2>4 DEF Init, MemInv, MemUsedExact
<1>2. TypeOK /\ CacheInv /\ MemInv /\ [Next]_vars => MemInv'
  <2> SUFFICES ASSUME TypeOK, CacheInv, MemInv, [Next]_vars
               PROVE  MemInv'
      OBVIOUS
  <2>1. ASSUME NEW t \in Threads, Step(t)
        PROVE  MemInv'
    <3>1. ~NoStreamAvailable(t)
      <4>1. pc[t] = "streams" => heap[cur_video[t]].stream_num > 0
                             /\ heap[cur_video[t]] \in VideoRecords
          BY OwnVideo DEF MemInv, HasVideo
      <4>2. QED
          BY <4>1 DEF NoStreamAvailable, VideoRecords
    <3>2. MemUsedExact'
        BY <2>1, <3>1, AddVideoCounts, RemoveVideoCounts, OtherStepsUncounted
    <3>3. IsFiniteSet(allocated')
        BY <2>1, MemoryFinite DEF MemInv
    <3>4. QED
        BY <2>1, <3>2, <3>3, StreamsListed DEF MemInv
  <2>2. CASE UNCHANGED vars
      BY <2>2 DEF MemInv, MemUsedExact, Counted, vars
  <2>3. QED
      BY <2>1, <2>2 DEF Next, Step
<1>3. QED
    BY <1>1, <1>2, CacheInvariant, PTL DEF Spec, MemInv
=============================================================================
