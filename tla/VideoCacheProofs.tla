--------------------------- MODULE VideoCacheProofs ---------------------------
(***************************************************************************)
(* Proofs about VideoCache, for every set of threads, addresses, ids,      *)
(* signs and files and for every setting of the flags: CacheInv is         *)
(* inductive, and NoDangling and RefCount follow from it.                  *)
(***************************************************************************)
EXTENDS VideoCache, FiniteSetTheorems, TLAPS

\* qsort() keeps the length of the vector and leaves it in the order of the
\* comparator.
LEMMA QsortPermutes ==
    ASSUME NEW S, NEW s \in Seq(S), NEW mem, NEW r \in Qsort(s, mem)
    PROVE  /\ r \in Seq(S)
           /\ Len(r) = Len(s)
           /\ Sorted(r, mem)
<1>1. PICK p \in Bijection(DOMAIN s, DOMAIN s) :
          r = [k \in DOMAIN s |-> s[p[k]]] /\ Sorted(r, mem)
    BY DEF Qsort
<1>2. /\ DOMAIN s = 1 .. Len(s)
      /\ Len(s) \in Nat
    OBVIOUS
<1>3. /\ p \in [1 .. Len(s) -> 1 .. Len(s)]
      /\ \A i, j \in 1 .. Len(s) : p[i] = p[j] => i = j
      /\ \A j \in 1 .. Len(s) : \E k \in 1 .. Len(s) : p[k] = j
    BY <1>1, <1>2 DEF Bijection, Injection, Surjection, IsInjective
<1>4. /\ r \in Seq(S)
      /\ Len(r) = Len(s)
    BY <1>1, <1>2, <1>3
<1>5. QED
    BY <1>1, <1>2, <1>3, <1>4

\* qsort() puts nothing into the vector that was not there.
LEMMA QsortElements ==
    ASSUME NEW s, NEW mem, NEW r \in Qsort(s, mem), NEW k \in DOMAIN r
    PROVE  \E j \in DOMAIN s : r[k] = s[j]
<1>1. PICK p \in Bijection(DOMAIN s, DOMAIN s) : r = [i \in DOMAIN s |-> s[p[i]]]
    BY DEF Qsort
<1>2. p \in [DOMAIN s -> DOMAIN s]
    BY <1>1 DEF Bijection, Injection
<1>3. QED
    BY <1>1, <1>2

\* qsort() of a vector of distinct pointers is one of distinct pointers.
LEMMA QsortDistinct ==
    ASSUME NEW s, NEW mem, NEW r \in Qsort(s, mem),
           \A i, j \in DOMAIN s : s[i] = s[j] => i = j
    PROVE  \A i, j \in DOMAIN r : r[i] = r[j] => i = j
<1>1. PICK p \in Bijection(DOMAIN s, DOMAIN s) : r = [k \in DOMAIN s |-> s[p[k]]]
    BY DEF Qsort
<1>2. /\ p \in [DOMAIN s -> DOMAIN s]
      /\ \A i, j \in DOMAIN s : p[i] = p[j] => i = j
    BY <1>1 DEF Bijection, Injection, IsInjective
<1>3. QED
    BY <1>1, <1>2

\* The threads that hold a Video are finitely many, so they can be counted.
LEMMA HoldersFinite ==
    ASSUME NEW v
    PROVE  IsFiniteSet(Holders(v)) /\ Cardinality(Holders(v)) \in Nat
<1>1. Holders(v) \in SUBSET Threads
    BY DEF Holders
<1>2. IsFiniteSet(Threads)
    BY ThreadsAssumption
<1>3. QED
    BY <1>1, <1>2, FS_Subset, FS_CardinalityType

\* A step that leaves the memory, the vector and the local pointers alone and
\* moves one thread between states with the same rights keeps CacheInv.
LEMMA ControlStep ==
    ASSUME TypeOK, CacheInv, NEW t \in Threads, NEW s \in States,
           pc' = [pc EXCEPT ![t] = s],
           UNCHANGED <<videos, heap, allocated, mem_used, cur_video>>,
           stream_lock' \in Threads \cup {NoThread},
           request' \in [Threads -> Requests],
           LockInv',
           \A u \in Threads : request'[u].id < INT_MAX,
           pc[t] \notin {"streams", "remove"},
           s \notin {"streams", "remove"},
           pc[t] \in HasVideo <=> s \in HasVideo
    PROVE  TypeOK' /\ CacheInv'
<1> USE DEF TypeOK, CacheInv
<1>1. TypeOK'
    OBVIOUS
<1>2. \A u \in Threads : (pc'[u] \in HasVideo <=> pc[u] \in HasVideo)
                      /\ (pc'[u] = "streams" <=> pc[u] = "streams")
                      /\ (pc'[u] = "remove" <=> pc[u] = "remove")
    OBVIOUS
<1>3. HandleInv'
    BY <1>2 DEF HandleInv
<1>4. PrivateInv'
    BY <1>2 DEF PrivateInv
<1>5. VectorInv'
    BY DEF VectorInv
<1>6. StreamsInv'
    BY <1>2 DEF StreamsInv, Complete
<1>7. IdInv'
    BY DEF IdInv
<1>8. RefCount'
  <2>1. \A v : Holders(v)' = Holders(v)
      BY <1>2 DEF Holders, Holds
  <2>2. QED
      BY <2>1 DEF RefCount
<1>9. QED
    BY <1>1, <1>3, <1>4, <1>5, <1>6, <1>7, <1>8

\* The steps that only move a thread, with or without the mutex.
LEMMA ControlSteps ==
    ASSUME TypeOK, CacheInv, NEW t \in Threads,
           \/ Request(t) \/ LockToLoad(t) \/ CacheMiss(t) \/ NoInfoFile(t)
           \/ InvalidSign(t) \/ StopPlaying(t) \/ LockToUnload(t)
    PROVE  TypeOK' /\ CacheInv'
<1>1. /\ request \in [Threads -> Requests]
      /\ \A u \in Threads : request[u].id < INT_MAX
      /\ stream_lock \in Threads \cup {NoThread}
      /\ pc \in [Threads -> States]
      /\ LockInv
    BY DEF TypeOK, CacheInv, IdInv
<1>2. CASE Request(t)
  <2>1. PICK r \in Asked :
            /\ Atoi[r.name] <= MAXNUMPATH
            /\ request' = [request EXCEPT ![t] =
                    [name |-> r.name, id |-> Atoi[r.name], sign |-> r.sign]]
      BY <1>2 DEF Request
  <2> DEFINE asked == [name |-> r.name, id |-> Atoi[r.name], sign |-> r.sign]
  <2>a. /\ r.name \in Names /\ r.sign \in AnySign
        /\ Atoi[r.name] \in Int
      BY NamesAssumption DEF Names
  <2>2. asked \in Requests /\ asked.id < INT_MAX
      BY <2>1, <2>a DEF MAXNUMPATH, INT_MAX, Requests
  <2>3. /\ request' \in [Threads -> Requests]
        /\ \A u \in Threads : request'[u].id < INT_MAX
      BY <1>1, <2>1, <2>2
  <2>4. /\ pc[t] = "idle" /\ pc' = [pc EXCEPT ![t] = "load"]
        /\ UNCHANGED <<stream_lock, videos, heap, allocated, mem_used, cur_video>>
      BY <1>2 DEF Request
  <2>5. LockInv'
      BY <1>1, <2>4 DEF LockInv, Critical
  <2>6. "load" \in States /\ (pc[t] \in HasVideo <=> "load" \in HasVideo)
      BY <2>4 DEF States, HasVideo
  <2>7. QED
      BY <1>1, <2>3, <2>4, <2>5, <2>6, ControlStep
<1>3. CASE LockToLoad(t) \/ LockToUnload(t)
  <2> DEFINE s == IF pc[t] = "load" THEN "search" ELSE "release"
  <2>1. /\ pc[t] \in {"load", "unload"} /\ pc' = [pc EXCEPT ![t] = s]
        /\ stream_lock = NoThread /\ stream_lock' = t
        /\ UNCHANGED <<videos, heap, allocated, mem_used, request, cur_video>>
      BY <1>3 DEF LockToLoad, LockToUnload
  <2>2. LockInv'
      BY <1>1, <2>1, ThreadsAssumption DEF LockInv, Critical
  <2>3. s \in States /\ s \notin {"streams", "remove"}
        /\ (pc[t] \in HasVideo <=> s \in HasVideo)
      BY <2>1 DEF States, Critical, HasVideo
  <2> HIDE DEF s
  <2>4. QED
      BY <1>1, <2>1, <2>2, <2>3, ControlStep
<1>4. CASE CacheMiss(t) \/ StopPlaying(t)
  <2> DEFINE s == IF pc[t] = "search" THEN "info" ELSE "unload"
  <2>1. /\ pc[t] \in {"search", "playing"} /\ pc' = [pc EXCEPT ![t] = s]
        /\ UNCHANGED <<stream_lock, videos, heap, allocated, mem_used, request, cur_video>>
      BY <1>4 DEF CacheMiss, StopPlaying
  <2>2. LockInv'
      BY <1>1, <2>1 DEF LockInv, Critical
  <2>3. s \in States /\ s \notin {"streams", "remove"}
        /\ (pc[t] \in HasVideo <=> s \in HasVideo)
      BY <2>1 DEF States, Critical, HasVideo
  <2> HIDE DEF s
  <2>4. QED
      BY <1>1, <2>1, <2>2, <2>3, ControlStep
<1>5. CASE NoInfoFile(t) \/ InvalidSign(t)
  <2>1. /\ pc[t] = "info" /\ pc' = [pc EXCEPT ![t] = "idle"]
        /\ stream_lock = t /\ stream_lock' = NoThread
        /\ request' = [request EXCEPT ![t] = NoRequest]
        /\ UNCHANGED <<videos, heap, allocated, mem_used, cur_video>>
      BY <1>5 DEF NoInfoFile, InvalidSign, GiveUp, Unlock
  <2>2. NoRequest \in Requests /\ NoRequest.id < INT_MAX
      BY DEF NoRequest, TooShort, AnySign, Requests, INT_MAX
  <2>3. /\ request' \in [Threads -> Requests]
        /\ \A u \in Threads : request'[u].id < INT_MAX
      BY <1>1, <2>1, <2>2
  <2>4. LockInv'
      BY <1>1, <2>1, ThreadsAssumption DEF LockInv, Critical
  <2>5. "idle" \in States /\ (pc[t] \in HasVideo <=> "idle" \in HasVideo)
      BY <2>1 DEF States, HasVideo
  <2>6. QED
      BY <1>1, <2>1, <2>3, <2>4, <2>5, ControlStep
<1>6. QED
    BY <1>2, <1>3, <1>4, <1>5

\* A thread that has no video, and is not about to hold one, counts nowhere.
LEMMA NotHolder ==
    ASSUME TypeOK, CacheInv, NEW t \in Threads, pc[t] \notin HasVideo, NEW v \in Videos
    PROVE  t \notin Holders(v)
BY ThreadsAssumption DEF TypeOK, CacheInv, HandleInv, Holders, Holds

\* Two threads are never in critical sections at once.
LEMMA Exclusive ==
    ASSUME TypeOK, CacheInv, NEW t \in Threads, NEW u \in Threads,
           pc[t] \in Critical, pc[u] \in Critical
    PROVE  t = u
BY DEF TypeOK, CacheInv, LockInv

\* A thread that holds the only reference is the only holder.
LEMMA LastHolder ==
    ASSUME TypeOK, CacheInv, NEW t \in Threads, NEW v \in allocated,
           t \in Holders(v), heap[v].counter <= 1
    PROVE  heap[v].counter = 1 /\ Holders(v) = {t}
<1>1. /\ heap[v].counter = Cardinality(Holders(v))
      /\ IsFiniteSet(Holders(v))
      /\ Cardinality(Holders(v)) \in Nat
    BY HoldersFinite DEF CacheInv, RefCount
<1>2. Cardinality(Holders(v)) # 0
    BY <1>1, FS_EmptySet
<1>3. Cardinality(Holders(v)) = 1
    BY <1>1, <1>2
<1>4. PICK x : Holders(v) = {x}
    BY <1>1, <1>3, FS_Singleton
<1>5. QED
    BY <1>1, <1>3, <1>4

\* Updating the counter of a Video changes nothing else.
LEMMA CounterUpdate ==
    ASSUME NEW h \in [Videos -> VideoRecords], NEW v \in Videos, NEW n \in Nat
    PROVE  LET g == [h EXCEPT ![v].counter = n] IN
           /\ g \in [Videos -> VideoRecords]
           /\ g[v].counter = n
           /\ \A w \in Videos : /\ w # v => g[w] = h[w]
                                /\ g[w].id = h[w].id
                                /\ g[w].stream_num = h[w].stream_num
                                /\ g[w].streams = h[w].streams
<1> DEFINE g == [h EXCEPT ![v].counter = n]
<1>1. g[v] = [h[v] EXCEPT !.counter = n]
    OBVIOUS
<1>2. /\ g[v] \in VideoRecords
      /\ g[v].counter = n
      /\ g[v].id = h[v].id
      /\ g[v].stream_num = h[v].stream_num
      /\ g[v].streams = h[v].streams
    BY <1>1 DEF VideoRecords
<1>3. /\ DOMAIN g = Videos
      /\ \A w \in Videos \ {v} : g[w] = h[w]
      /\ g = [w \in Videos |-> g[w]]
    OBVIOUS
<1> HIDE DEF g
<1>4. g \in [Videos -> VideoRecords]
    BY <1>2, <1>3
<1>5. QED
    BY <1>2, <1>3, <1>4 DEF g

\* A hit adds a reference to a Video that somebody else holds already.
LEMMA CacheHitStep ==
    ASSUME TypeOK, CacheInv, NEW t \in Threads, CacheHit(t)
    PROVE  TypeOK' /\ CacheInv'
<1>1. PICK k \in DOMAIN videos :
        /\ heap' = [heap EXCEPT ![videos[k]].counter = @ + 1]
        /\ cur_video' = [cur_video EXCEPT ![t] = videos[k]]
    BY DEF CacheHit
<1> DEFINE v == videos[k]
<1>2. v \in allocated /\ v \in Videos
    BY DEF TypeOK, CacheInv, VectorInv
<1>3. /\ pc[t] = "search" /\ pc' = [pc EXCEPT ![t] = "playing"]
      /\ stream_lock = t /\ stream_lock' = NoThread
      /\ UNCHANGED <<videos, allocated, mem_used, request>>
    BY DEF CacheHit, Unlock
<1>4. heap[v].counter \in Nat /\ heap[v].counter + 1 \in Nat
  <2>1. heap[v] \in VideoRecords
      BY <1>2 DEF TypeOK
  <2>2. QED
      BY <2>1 DEF VideoRecords
<1>5. /\ heap' \in [Videos -> VideoRecords]
      /\ heap'[v].counter = heap[v].counter + 1
      /\ \A w \in Videos : /\ w # v => heap'[w] = heap[w]
                           /\ heap'[w].id = heap[w].id
                           /\ heap'[w].stream_num = heap[w].stream_num
                           /\ heap'[w].streams = heap[w].streams
  <2>1. heap' = [heap EXCEPT ![v].counter = heap[v].counter + 1]
      BY <1>1
  <2>2. heap \in [Videos -> VideoRecords]
      BY DEF TypeOK
  <2> HIDE DEF v
  <2>3. QED
      BY <1>2, <1>4, <2>1, <2>2, CounterUpdate
<1> HIDE DEF v
<1>6. /\ cur_video' = [cur_video EXCEPT ![t] = v]
      /\ pc'[t] = "playing" /\ cur_video'[t] = v
      /\ \A u \in Threads \ {t} : /\ pc'[u] = pc[u]
                                  /\ cur_video'[u] = cur_video[u]
                                  /\ pc[u] \notin {"streams", "remove"}
    BY <1>1, <1>3, Exclusive DEF v, Critical, TypeOK
<1>7. TypeOK'
    BY <1>2, <1>3, <1>5, <1>6 DEF TypeOK, States, HasVideo
<1>8. LockInv'
    BY <1>3, ThreadsAssumption DEF CacheInv, LockInv, Critical, TypeOK
<1>9. HandleInv'
    BY <1>2, <1>3, <1>6 DEF CacheInv, HandleInv, HasVideo
<1>10. PrivateInv'
    BY <1>6 DEF PrivateInv
<1>11. VectorInv'
    BY <1>3 DEF CacheInv, VectorInv
<1>12. StreamsInv'
  <2>1. \A w \in allocated : Complete(w)
      BY <1>3, <1>6 DEF CacheInv, StreamsInv
  <2>2. QED
      BY <1>3, <1>5, <2>1 DEF StreamsInv, Complete, TypeOK
<1>13. IdInv'
    BY <1>3, <1>5 DEF CacheInv, IdInv, TypeOK
<1>14. RefCount'
  <2> SUFFICES ASSUME NEW w \in allocated
               PROVE  heap'[w].counter = Cardinality(Holders(w)')
      BY <1>3 DEF RefCount
  <2>1. w \in Videos /\ heap[w].counter = Cardinality(Holders(w))
      BY DEF TypeOK, CacheInv, RefCount
  <2>2. t \notin Holders(w) /\ IsFiniteSet(Holders(w))
      BY <1>3, <2>1, NotHolder, HoldersFinite DEF HasVideo
  <2>3. Holders(w)' = IF w = v THEN Holders(w) \cup {t} ELSE Holders(w)
      BY <1>6, <2>2 DEF Holders, Holds
  <2>4. Cardinality(Holders(w) \cup {t}) = Cardinality(Holders(w)) + 1
      BY <2>2, FS_AddElement
  <2>5. QED
      BY <1>5, <2>1, <2>3, <2>4
<1>15. QED
    BY <1>7, <1>8, <1>9, <1>10, <1>11, <1>12, <1>13, <1>14 DEF CacheInv

\* A Video that is read from disk is at an address nobody knows.
LEMMA ReadInfoFileStep ==
    ASSUME TypeOK, CacheInv, NEW t \in Threads, ReadInfoFile(t)
    PROVE  TypeOK' /\ CacheInv'
<1>1. PICK v \in Videos \ allocated, info \in InfoFiles, size \in Garbage :
        /\ heap' = [heap EXCEPT ![v] = NewVideo(request[t], info, size)]
        /\ allocated' = allocated \cup {v}
        /\ cur_video' = [cur_video EXCEPT ![t] = v]
    BY DEF ReadInfoFile
<1>2. /\ pc[t] = "info" /\ pc' = [pc EXCEPT ![t] = "streams"]
      /\ UNCHANGED <<stream_lock, videos, mem_used, request>>
    BY DEF ReadInfoFile
<1> DEFINE new == NewVideo(request[t], info, size)
<1>3. /\ new \in VideoRecords /\ new.id = request[t].id
      /\ new.counter = 1 /\ new.streams = 0
  <2>1. /\ request[t].id \in Int /\ request[t].name \in Names \cup {NoName}
        /\ size \in Int
      BY SizesAssumption DEF TypeOK, Requests
  <2>2. info.sign \in AnySign /\ info.stream_num \in Int
      BY SizesAssumption DEF InfoFiles
  <2>3. QED
      BY <2>1, <2>2 DEF NewVideo, VideoRecords
<1>4. heap' = [heap EXCEPT ![v] = new]
    BY <1>1
<1> HIDE DEF new
<1>5. /\ heap' \in [Videos -> VideoRecords]
      /\ heap'[v] = new
      /\ \A w \in allocated : heap'[w] = heap[w]
    BY <1>1, <1>3, <1>4 DEF TypeOK
<1>6. \A u \in Threads : cur_video[u] # v
    BY <1>1, ThreadsAssumption DEF CacheInv, HandleInv, TypeOK
<1>7. \A k \in DOMAIN videos : videos[k] # v /\ videos[k] \in allocated
    BY <1>1 DEF CacheInv, VectorInv
<1>8. /\ pc'[t] = "streams" /\ cur_video'[t] = v
      /\ \A u \in Threads \ {t} : /\ pc'[u] = pc[u]
                                  /\ cur_video'[u] = cur_video[u]
                                  /\ pc[u] \notin {"streams", "remove"}
    BY <1>1, <1>2, Exclusive DEF TypeOK, Critical
<1>9. TypeOK'
    BY <1>1, <1>2, <1>5 DEF TypeOK, States, HasVideo
<1>10. LockInv'
    BY <1>2 DEF CacheInv, LockInv, Critical, TypeOK
<1>11. HandleInv'
    BY <1>1, <1>8 DEF CacheInv, HandleInv, HasVideo
<1>12. PrivateInv'
  <2>1. heap'[v].streams = 0
      BY <1>3, <1>5
  <2>2. heap'[v].stream_num \in Int
      BY <1>1, <1>5 DEF VideoRecords
  <2>3. QED
      BY <1>2, <1>6, <1>7, <1>8, <2>1, <2>2 DEF PrivateInv
<1>13. VectorInv'
    BY <1>1, <1>2 DEF CacheInv, VectorInv
<1>14. StreamsInv'
  <2>1. \A w \in allocated : Complete(w)
      BY <1>2, <1>8 DEF CacheInv, StreamsInv
  <2>2. QED
      BY <1>1, <1>5, <1>8, <2>1 DEF StreamsInv, Complete
<1>15. IdInv'
    BY <1>1, <1>2, <1>3, <1>5 DEF CacheInv, IdInv
<1>16. RefCount'
  <2>1. ASSUME NEW w \in allocated
        PROVE  heap'[w].counter = Cardinality(Holders(w)')
    <3>1. w # v /\ w \in Videos
        BY <1>1 DEF TypeOK
    <3>2. t \notin Holders(w)
        BY <1>2, <3>1, NotHolder DEF HasVideo
    <3>3. Holders(w)' = Holders(w)
        BY <1>8, <3>1, <3>2 DEF Holders, Holds
    <3>4. QED
        BY <1>5, <3>3 DEF CacheInv, RefCount
  <2>2. heap'[v].counter = Cardinality(Holders(v)')
    <3>1. Holders(v)' = {t}
        BY <1>6, <1>8 DEF Holders, Holds
    <3>2. QED
        BY <1>3, <1>5, <3>1, FS_Singleton
  <2>3. QED
      BY <1>1, <2>1, <2>2 DEF RefCount
<1>17. QED
    BY <1>9, <1>10, <1>11, <1>12, <1>13, <1>14, <1>15, <1>16 DEF CacheInv

\* Reading or dropping a stream changes a Video that only its loader knows.
LEMMA StreamLoopStep ==
    ASSUME TypeOK, CacheInv, NEW t \in Threads, LoadStream(t) \/ DropStream(t)
    PROVE  TypeOK' /\ CacheInv'
<1> DEFINE v == cur_video[t]
<1>1. /\ pc[t] = "streams"
      /\ heap[v].streams < heap[v].stream_num
      /\ UNCHANGED <<stream_lock, videos, allocated, mem_used, pc, request, cur_video>>
    BY DEF LoadStream, DropStream
<1>2. v \in allocated /\ v \in Videos /\ heap[v] \in VideoRecords
    BY <1>1 DEF TypeOK, CacheInv, HandleInv, HasVideo
<1>3. PICK r \in VideoRecords :
        /\ heap' = [heap EXCEPT ![v] = r]
        /\ r.id = heap[v].id /\ r.counter = heap[v].counter
        /\ r.streams <= r.stream_num
  <2>1. CASE LoadStream(t)
    <3>1. PICK n \in StreamSizes :
            heap' = [heap EXCEPT ![v].streams = @ + 1, ![v].size = @ + n]
        BY <2>1 DEF LoadStream
    <3> DEFINE r == [heap[v] EXCEPT !.streams = @ + 1, !.size = @ + n]
    <3>2. n \in Int
        BY SizesAssumption
    <3>3. /\ r \in VideoRecords
          /\ r.id = heap[v].id /\ r.counter = heap[v].counter
          /\ r.streams <= r.stream_num
      <4>1. /\ heap[v].streams + 1 \in Nat /\ heap[v].size + n \in Int
            /\ heap[v].stream_num \in Int
            /\ heap[v].streams + 1 <= heap[v].stream_num
          BY <1>1, <1>2, <3>2 DEF VideoRecords
      <4> DEFINE x == heap[v].streams + 1
                 y == heap[v].size + n
      <4>2. /\ [heap[v] EXCEPT !.streams = x, !.size = y] \in VideoRecords
            /\ [heap[v] EXCEPT !.streams = x, !.size = y].id = heap[v].id
            /\ [heap[v] EXCEPT !.streams = x, !.size = y].counter = heap[v].counter
            /\ [heap[v] EXCEPT !.streams = x, !.size = y].streams = x
            /\ [heap[v] EXCEPT !.streams = x, !.size = y].stream_num = heap[v].stream_num
        <5>1. x \in Nat /\ y \in Int
            BY <4>1
        <5> HIDE DEF x, y
        <5>2. QED
            BY <1>2, <5>1 DEF VideoRecords
      <4>3. QED
          BY <4>1, <4>2
    <3>4. heap' = [heap EXCEPT ![v] = r]
        BY <1>2, <3>1 DEF TypeOK, VideoRecords
    <3> HIDE DEF r
    <3>5. QED
        BY <3>3, <3>4
  <2>2. CASE DropStream(t)
    <3>1. heap' = [heap EXCEPT ![v].stream_num = @ - 1]
        BY <2>2 DEF DropStream
    <3> DEFINE r == [heap[v] EXCEPT !.stream_num = @ - 1]
    <3>2. /\ r \in VideoRecords
          /\ r.id = heap[v].id /\ r.counter = heap[v].counter
          /\ r.streams <= r.stream_num
        BY <1>1, <1>2 DEF VideoRecords
    <3>3. heap' = [heap EXCEPT ![v] = r]
        BY <1>2, <3>1 DEF TypeOK, VideoRecords
    <3> HIDE DEF r
    <3>4. QED
        BY <3>2, <3>3
  <2>3. QED
      BY <2>1, <2>2
<1> HIDE DEF v
<1>4. /\ heap' \in [Videos -> VideoRecords]
      /\ heap'[v] = r
      /\ \A w \in Videos : /\ w # v => heap'[w] = heap[w]
                           /\ heap'[w].id = heap[w].id
                           /\ heap'[w].counter = heap[w].counter
    BY <1>2, <1>3 DEF TypeOK
<1>5. TypeOK'
    BY <1>1, <1>4 DEF TypeOK
<1>6. LockInv' /\ HandleInv' /\ VectorInv'
    BY <1>1 DEF CacheInv, LockInv, HandleInv, VectorInv
<1>7. \A u \in Threads : pc[u] \in {"streams", "remove"} => u = t
    BY <1>1, Exclusive DEF Critical
<1>8. PrivateInv'
    BY <1>1, <1>3, <1>4, <1>7 DEF CacheInv, PrivateInv, v
<1>9. StreamsInv'
  <2>1. \A w \in allocated \ {v} : Complete(w)
      BY <1>7 DEF CacheInv, StreamsInv, v
  <2>2. QED
      BY <1>1, <1>4, <2>1 DEF StreamsInv, Complete, v, TypeOK
<1>10. IdInv'
    BY <1>1, <1>4 DEF CacheInv, IdInv, TypeOK
<1>11. RefCount'
  <2>1. \A w : Holders(w)' = Holders(w)
      BY <1>1 DEF Holders, Holds
  <2>2. QED
      BY <1>1, <1>4, <2>1 DEF CacheInv, RefCount, TypeOK
<1>12. QED
    BY <1>5, <1>6, <1>8, <1>9, <1>10, <1>11 DEF CacheInv

\* Freeing a Video that nobody else knows, and that the vector has lost.
LEMMA FreeVideo ==
    ASSUME TypeOK, CacheInv, NEW t \in Threads, NEW v \in Videos,
           pc[t] \in {"streams", "remove"}, v = cur_video[t],
           GiveUp(t),
           heap' = [heap EXCEPT ![v] = Freed],
           allocated' = allocated \ {v},
           cur_video' = [cur_video EXCEPT ![t] = NoVideo],
           mem_used' \in 0 .. MemMod - 1,
           videos' \in Seq(Videos),
           \A k \in DOMAIN videos' : videos'[k] \in allocated \ {v},
           \A i, j \in DOMAIN videos' : videos'[i] = videos'[j] => i = j
    PROVE  TypeOK' /\ CacheInv'
<1>1. /\ stream_lock = t /\ stream_lock' = NoThread
      /\ pc' = [pc EXCEPT ![t] = "idle"]
      /\ request' = [request EXCEPT ![t] = NoRequest]
    BY DEF GiveUp, Unlock
<1>2. /\ Freed \in VideoRecords
      /\ NoRequest \in Requests /\ NoRequest.id < INT_MAX
    BY DEF Freed, VideoRecords, NoRequest, TooShort, AnySign, Requests, INT_MAX
<1>3. /\ heap' \in [Videos -> VideoRecords]
      /\ \A w \in allocated \ {v} : heap'[w] = heap[w]
    BY <1>2 DEF TypeOK
<1>4. request' \in [Threads -> Requests]
    BY <1>1, <1>2 DEF TypeOK
<1>5. TypeOK'
    BY <1>1, <1>3, <1>4 DEF TypeOK, States
<1>6. /\ pc'[t] = "idle" /\ cur_video'[t] = NoVideo
      /\ \A u \in Threads \ {t} : /\ pc'[u] = pc[u]
                                  /\ cur_video'[u] = cur_video[u]
                                  /\ cur_video[u] # v
                                  /\ pc[u] \notin {"streams", "remove"}
    BY <1>1, Exclusive DEF TypeOK, CacheInv, PrivateInv, Critical
<1>7. LockInv'
    BY <1>1, ThreadsAssumption DEF CacheInv, LockInv, Critical, TypeOK
<1>8. HandleInv'
    BY <1>6 DEF CacheInv, HandleInv, HasVideo
<1>9. PrivateInv'
    BY <1>6 DEF PrivateInv
<1>10. VectorInv'
    BY DEF VectorInv
<1>11. StreamsInv'
  <2>1. \A w \in allocated \ {v} : Complete(w)
      BY <1>6 DEF CacheInv, StreamsInv
  <2>2. QED
      BY <1>3, <2>1 DEF StreamsInv, Complete
<1>12. IdInv'
    BY <1>1, <1>2, <1>3 DEF CacheInv, IdInv, TypeOK
<1>13. RefCount'
  <2> SUFFICES ASSUME NEW w \in allocated \ {v}
               PROVE  heap'[w].counter = Cardinality(Holders(w)')
      BY DEF RefCount
  <2>1. w \in Videos /\ w # NoVideo
      BY ThreadsAssumption DEF TypeOK
  <2>2. Holders(w)' = Holders(w)
      BY <1>6, <2>1 DEF Holders, Holds
  <2>3. QED
      BY <1>3, <2>2 DEF CacheInv, RefCount
<1>14. QED
    BY <1>5, <1>7, <1>8, <1>9, <1>10, <1>11, <1>12, <1>13 DEF CacheInv

\* mem_used stays in its range, whatever `size' holds.
LEMMA MemRange ==
    ASSUME NEW x \in Int
    PROVE  x % MemMod \in 0 .. MemMod - 1
BY SizesAssumption

\* The load that finds no stream frees what it built.
LEMMA NoStreamAvailableStep ==
    ASSUME TypeOK, CacheInv, NEW t \in Threads, NoStreamAvailable(t)
    PROVE  TypeOK' /\ CacheInv'
<1> DEFINE v == cur_video[t]
<1>1. /\ pc[t] = "streams"
      /\ mem_used' = (mem_used + heap[v].size) % MemMod
      /\ heap' = [heap EXCEPT ![v] = Freed]
      /\ allocated' = allocated \ {v}
      /\ cur_video' = [cur_video EXCEPT ![t] = NoVideo]
      /\ GiveUp(t)
      /\ videos' = videos
    BY DEF NoStreamAvailable
<1>2. v \in Videos /\ heap[v] \in VideoRecords
    BY <1>1 DEF TypeOK, CacheInv, HandleInv, HasVideo
<1>3. mem_used' \in 0 .. MemMod - 1
  <2>1. mem_used \in Int /\ heap[v].size \in Int
      BY <1>2, SizesAssumption DEF TypeOK, VideoRecords
  <2>2. mem_used + heap[v].size \in Int
      BY <2>1
  <2>3. QED
      BY <1>1, <2>2, MemRange
<1>4. /\ videos' \in Seq(Videos)
      /\ \A k \in DOMAIN videos' : videos'[k] \in allocated \ {v}
      /\ \A i, j \in DOMAIN videos' : videos'[i] = videos'[j] => i = j
    BY <1>1 DEF TypeOK, CacheInv, VectorInv, PrivateInv
<1> HIDE DEF v
<1>5. v = cur_video[t]
    BY DEF v
<1>6. QED
    BY <1>1, <1>2, <1>3, <1>4, <1>5, FreeVideo

\* The Video that joins the vector is complete and was not in it.
LEMMA AddVideoStep ==
    ASSUME TypeOK, CacheInv, NEW t \in Threads, AddVideo(t)
    PROVE  TypeOK' /\ CacheInv'
<1> DEFINE v == cur_video[t]
           s == Append(videos, v)
<1>1. /\ pc[t] = "streams" /\ pc' = [pc EXCEPT ![t] = "playing"]
      /\ stream_lock = t /\ stream_lock' = NoThread
      /\ heap[v].streams >= heap[v].stream_num
      /\ heap[v].stream_num > 0
      /\ mem_used' = (mem_used + heap[v].size) % MemMod
      /\ videos' \in Qsort(s, heap)
      /\ UNCHANGED <<heap, allocated, request, cur_video>>
    BY DEF AddVideo, Unlock
<1>2. v \in allocated /\ v \in Videos /\ heap[v] \in VideoRecords
    BY <1>1 DEF TypeOK, CacheInv, HandleInv, HasVideo
<1>3. mem_used' \in 0 .. MemMod - 1
  <2>1. mem_used \in Int /\ heap[v].size \in Int
      BY <1>2, SizesAssumption DEF TypeOK, VideoRecords
  <2>2. mem_used + heap[v].size \in Int
      BY <2>1
  <2>3. QED
      BY <1>1, <2>2, MemRange
<1>4. /\ s \in Seq(Videos) /\ Len(s) = Len(videos) + 1
      /\ \A k \in 1 .. Len(s) : s[k] = IF k = Len(s) THEN v ELSE videos[k]
      /\ \A k \in 1 .. Len(s) : s[k] \in allocated
      /\ \A i, j \in 1 .. Len(s) : s[i] = s[j] => i = j
    BY <1>1, <1>2 DEF TypeOK, CacheInv, VectorInv, PrivateInv
<1> HIDE DEF s
<1>5. /\ videos' \in Seq(Videos)
      /\ \A k \in DOMAIN videos' : videos'[k] \in allocated
      /\ \A i, j \in DOMAIN videos' : videos'[i] = videos'[j] => i = j
  <2>1. PICK r \in Qsort(s, heap) : videos' = r
      BY <1>1
  <2>2. /\ r \in Seq(Videos)
        /\ Len(r) = Len(s)
        /\ \A k \in 1 .. Len(s) : \E j \in 1 .. Len(s) : r[k] = s[j]
        /\ \A i, j \in 1 .. Len(s) : r[i] = r[j] => i = j
    <3>1. s \in Seq(Videos)
        BY <1>4
    <3>2. /\ r \in Seq(Videos)
          /\ Len(r) = Len(s)
        BY <3>1, QsortPermutes
    <3>3. \A k \in 1 .. Len(s) : \E j \in 1 .. Len(s) : r[k] = s[j]
      <4>1. DOMAIN r = 1 .. Len(s) /\ DOMAIN s = 1 .. Len(s)
          BY <3>1, <3>2
      <4>2. QED
          BY <4>1, QsortElements
    <3>4. \A i, j \in 1 .. Len(s) : r[i] = r[j] => i = j
      <4>1. \A i, j \in DOMAIN s : s[i] = s[j] => i = j
          BY <1>4
      <4>2. \A i, j \in DOMAIN r : r[i] = r[j] => i = j
          BY <4>1, QsortDistinct
      <4>3. QED
          BY <3>2, <4>2
    <3>5. QED
        BY <1>4, <3>2, <3>3, <3>4
  <2>3. DOMAIN r = 1 .. Len(s)
      BY <2>2
  <2>4. QED
      BY <1>4, <2>1, <2>2, <2>3
<1>6. TypeOK'
    BY <1>1, <1>3, <1>5 DEF TypeOK, States, HasVideo
<1>7. \A u \in Threads \ {t} : pc'[u] = pc[u] /\ pc[u] \notin {"streams", "remove"}
    BY <1>1, Exclusive DEF Critical, TypeOK
<1>8. pc'[t] = "playing"
    BY <1>1 DEF TypeOK
<1>9. LockInv'
    BY <1>1, ThreadsAssumption DEF CacheInv, LockInv, Critical, TypeOK
<1>10. HandleInv'
    BY <1>1, <1>7, <1>8 DEF CacheInv, HandleInv, HasVideo
<1>11. PrivateInv'
    BY <1>7, <1>8 DEF PrivateInv
<1>12. VectorInv'
    BY <1>1, <1>5 DEF VectorInv
<1>13. StreamsInv'
  <2>1. \A w \in allocated \ {v} : Complete(w)
      BY <1>7 DEF CacheInv, StreamsInv
  <2>2. Complete(v)
      BY <1>1, <1>2 DEF Complete, CacheInv, PrivateInv, VideoRecords
  <2>3. QED
      BY <1>1, <2>1, <2>2 DEF StreamsInv, Complete
<1>14. IdInv'
    BY <1>1 DEF CacheInv, IdInv
<1>15. RefCount'
  <2>1. \A w : Holders(w)' = Holders(w)
      BY <1>1, <1>7, <1>8 DEF Holders, Holds
  <2>2. QED
      BY <1>1, <2>1 DEF CacheInv, RefCount
<1>16. QED
    BY <1>6, <1>9, <1>10, <1>11, <1>12, <1>13, <1>14, <1>15 DEF CacheInv

\* A thread that leaves while others hold the Video takes its reference away.
LEMMA ReleaseVideoStep ==
    ASSUME TypeOK, CacheInv, NEW t \in Threads, ReleaseVideo(t)
    PROVE  TypeOK' /\ CacheInv'
<1> DEFINE v == cur_video[t]
<1>1. /\ pc[t] = "release" /\ pc' = [pc EXCEPT ![t] = "idle"]
      /\ stream_lock = t /\ stream_lock' = NoThread
      /\ request' = [request EXCEPT ![t] = NoRequest]
      /\ heap[v].counter - 1 > 0
      /\ heap' = [heap EXCEPT ![v].counter = @ - 1]
      /\ cur_video' = [cur_video EXCEPT ![t] = NoVideo]
      /\ UNCHANGED <<videos, allocated, mem_used>>
  <2>1. v \in allocated /\ heap[v] \in VideoRecords
      BY DEF ReleaseVideo, TypeOK, CacheInv, HandleInv, HasVideo
  <2>2. QED
      BY <2>1 DEF ReleaseVideo, GiveUp, Unlock, LastReference, VideoRecords
<1>2. v \in allocated /\ v \in Videos
    BY <1>1 DEF TypeOK, CacheInv, HandleInv, HasVideo
<1>3. heap[v].counter \in Nat /\ heap[v].counter - 1 \in Nat
    BY <1>1, <1>2 DEF TypeOK, VideoRecords
<1>4. heap \in [Videos -> VideoRecords]
    BY DEF TypeOK
<1>5. heap' = [heap EXCEPT ![v].counter = heap[v].counter - 1]
    BY <1>1
<1>6. v = cur_video[t]
    OBVIOUS
<1> HIDE DEF v
<1>7. /\ heap' \in [Videos -> VideoRecords]
      /\ heap'[v].counter = heap[v].counter - 1
      /\ \A w \in Videos : /\ w # v => heap'[w] = heap[w]
                           /\ heap'[w].id = heap[w].id
                           /\ heap'[w].stream_num = heap[w].stream_num
                           /\ heap'[w].streams = heap[w].streams
    BY <1>2, <1>3, <1>4, <1>5, CounterUpdate
<1>8. /\ NoRequest \in Requests /\ NoRequest.id < INT_MAX
      /\ request' \in [Threads -> Requests]
    BY <1>1 DEF TypeOK, NoRequest, TooShort, AnySign, Requests, INT_MAX
<1>9. /\ pc'[t] = "idle" /\ cur_video'[t] = NoVideo
      /\ \A u \in Threads \ {t} : /\ pc'[u] = pc[u]
                                  /\ cur_video'[u] = cur_video[u]
                                  /\ pc[u] \notin {"streams", "remove"}
    BY <1>1, Exclusive DEF TypeOK, Critical
<1>10. TypeOK'
    BY <1>1, <1>7, <1>8 DEF TypeOK, States
<1>11. LockInv'
    BY <1>1, ThreadsAssumption DEF CacheInv, LockInv, Critical, TypeOK
<1>12. HandleInv'
    BY <1>1, <1>9 DEF CacheInv, HandleInv, HasVideo
<1>13. PrivateInv'
    BY <1>9 DEF PrivateInv
<1>14. VectorInv'
    BY <1>1 DEF CacheInv, VectorInv
<1>15. StreamsInv'
  <2>1. \A w \in allocated : Complete(w)
      BY <1>1, <1>9 DEF CacheInv, StreamsInv
  <2>2. QED
      BY <1>1, <1>7, <2>1 DEF StreamsInv, Complete, TypeOK
<1>16. IdInv'
    BY <1>1, <1>7, <1>8 DEF CacheInv, IdInv, TypeOK
<1>17. RefCount'
  <2> SUFFICES ASSUME NEW w \in allocated
               PROVE  heap'[w].counter = Cardinality(Holders(w)')
      BY <1>1 DEF RefCount
  <2>1. /\ w \in Videos /\ w # NoVideo
        /\ heap[w].counter = Cardinality(Holders(w))
        /\ IsFiniteSet(Holders(w))
      BY ThreadsAssumption, HoldersFinite DEF TypeOK, CacheInv, RefCount
  <2>2. Holders(w)' = Holders(w) \ {t}
      BY <1>9, <2>1 DEF Holders, Holds
  <2>3. t \in Holders(w) <=> w = v
      BY <1>1, <1>6 DEF Holders, Holds
  <2>4. Cardinality(Holders(w) \ {t}) = IF w = v THEN Cardinality(Holders(w)) - 1
                                        ELSE Cardinality(Holders(w))
      BY <2>1, <2>3, FS_RemoveElement
  <2>5. QED
      BY <1>7, <2>1, <2>2, <2>4
<1>18. QED
    BY <1>10, <1>11, <1>12, <1>13, <1>14, <1>15, <1>16, <1>17 DEF CacheInv

\* The thread that frees the streams held the last reference.
LEMMA FreeStreamsStep ==
    ASSUME TypeOK, CacheInv, NEW t \in Threads, FreeStreams(t)
    PROVE  TypeOK' /\ CacheInv'
<1> DEFINE v == cur_video[t]
<1>1. /\ pc[t] = "release" /\ pc' = [pc EXCEPT ![t] = "remove"]
      /\ heap[v].counter - 1 <= 0
      /\ heap' = [heap EXCEPT ![v].counter = @ - 1, ![v].streams = 0]
      /\ UNCHANGED <<stream_lock, videos, allocated, mem_used, request, cur_video>>
    BY DEF FreeStreams, LastReference
<1>2. v \in allocated /\ v \in Videos /\ heap[v] \in VideoRecords
    BY <1>1 DEF TypeOK, CacheInv, HandleInv, HasVideo
<1>3. t \in Holders(v)
    BY <1>1 DEF Holders, Holds
<1>4. heap[v].counter <= 1
    BY <1>1, <1>2 DEF VideoRecords
<1>5. v = cur_video[t]
    OBVIOUS
<1> HIDE DEF v
<1>6. heap[v].counter = 1 /\ Holders(v) = {t}
    BY <1>2, <1>3, <1>4, LastHolder
<1> DEFINE r == [heap[v] EXCEPT !.counter = 0, !.streams = 0]
<1>7. /\ r \in VideoRecords /\ r.counter = 0 /\ r.id = heap[v].id
      /\ heap' = [heap EXCEPT ![v] = r]
  <2>1. heap' = [heap EXCEPT ![v].counter = 0, ![v].streams = 0]
      BY <1>1, <1>2, <1>5, <1>6
  <2>2. QED
      BY <1>2, <2>1 DEF VideoRecords, TypeOK
<1> HIDE DEF r
<1>8. /\ heap' \in [Videos -> VideoRecords]
      /\ heap'[v] = r
      /\ \A w \in Videos : w # v => heap'[w] = heap[w]
    BY <1>2, <1>7 DEF TypeOK
<1>9. /\ pc'[t] = "remove"
      /\ \A u \in Threads \ {t} : /\ pc'[u] = pc[u]
                                  /\ pc[u] \notin {"streams", "remove"}
                                  /\ cur_video[u] # v
    BY <1>1, <1>6, Exclusive DEF TypeOK, Critical, Holders, Holds
<1>10. TypeOK'
    BY <1>1, <1>8 DEF TypeOK, States, Critical
<1>11. LockInv'
    BY <1>1 DEF CacheInv, LockInv, Critical, TypeOK
<1>12. HandleInv'
    BY <1>1, <1>9 DEF CacheInv, HandleInv, HasVideo
<1>13. PrivateInv'
    BY <1>1, <1>5, <1>9 DEF PrivateInv
<1>14. VectorInv'
    BY <1>1 DEF CacheInv, VectorInv
<1>15. StreamsInv'
  <2>1. \A w \in allocated : Complete(w)
      BY <1>1, <1>9 DEF CacheInv, StreamsInv
  <2>2. \A w \in allocated \ {v} : heap'[w] = heap[w]
      BY <1>8 DEF TypeOK
  <2>3. QED
      BY <1>1, <1>5, <1>9, <2>1, <2>2 DEF StreamsInv, Complete
<1>16. IdInv'
    BY <1>1, <1>7, <1>8 DEF CacheInv, IdInv, TypeOK
<1>17. RefCount'
  <2>1. ASSUME NEW w \in allocated, w # v
        PROVE  heap'[w].counter = Cardinality(Holders(w)')
    <3>1. Holders(w)' = Holders(w)
        BY <1>1, <1>5, <1>9, <2>1 DEF Holders, Holds
    <3>2. QED
        BY <1>8, <2>1, <3>1 DEF CacheInv, RefCount, TypeOK
  <2>2. heap'[v].counter = Cardinality(Holders(v)')
    <3>1. v' = v
        BY <1>1 DEF v
    <3>2. Holders(v)' = {}
        BY <1>1, <1>9, <3>1 DEF Holders, Holds
    <3>3. QED
        BY <1>7, <1>8, <3>2, FS_EmptySet
  <2>3. v' = v
      BY <1>1 DEF v
  <2>4. QED
      BY <1>1, <2>1, <2>2, <2>3 DEF RefCount
<1>18. QED
    BY <1>10, <1>11, <1>12, <1>13, <1>14, <1>15, <1>16, <1>17 DEF CacheInv

\* Marked with INT_MAX, the victim is the last element of the sorted vector,
\* if the vector has it at all: what is cut off is the victim, or the vector
\* had lost it before.
LEMMA VictimLeaves ==
    ASSUME TypeOK, CacheInv, NEW v \in allocated,
           NEW s \in Qsort(videos, [heap EXCEPT ![v].id = INT_MAX]), NEW r \in Shrunk(s)
    PROVE  /\ r \in Seq(Videos)
           /\ \A k \in DOMAIN r : r[k] \in allocated \ {v}
           /\ \A i, j \in DOMAIN r : r[i] = r[j] => i = j
<1> DEFINE marked == [heap EXCEPT ![v].id = INT_MAX]
<1>1. /\ videos \in Seq(Videos) /\ Len(videos) \in Nat
      /\ DOMAIN videos = 1 .. Len(videos)
      /\ v \in Videos
    BY DEF TypeOK
<1>2. /\ marked[v].id = INT_MAX
      /\ \A w \in allocated \ {v} : marked[w].id = heap[w].id
                                 /\ heap[w].id \in Int /\ heap[w].id < INT_MAX
  <2>1. heap \in [Videos -> VideoRecords]
      BY DEF TypeOK
  <2>2. marked[v] = [heap[v] EXCEPT !.id = INT_MAX]
      BY <1>1, <2>1
  <2>3. marked[v].id = INT_MAX
      BY <1>1, <2>1, <2>2 DEF VideoRecords
  <2>4. \A w \in allocated \ {v} : marked[w] = heap[w] /\ heap[w].id \in Int
      BY <2>1 DEF TypeOK, VideoRecords
  <2>5. QED
      BY <2>3, <2>4 DEF CacheInv, IdInv
<1> HIDE DEF marked
<1>3. s \in Qsort(videos, marked)
    BY DEF marked
<1>4. /\ s \in Seq(Videos)
      /\ Len(s) = Len(videos)
    BY <1>1, <1>3, QsortPermutes
<1>5. DOMAIN s = 1 .. Len(s) /\ Len(s) \in Nat
    BY <1>4
<1>6. \A k \in 1 .. Len(s) : s[k] \in allocated
  <2>1. \A k \in DOMAIN s : \E j \in DOMAIN videos : s[k] = videos[j]
      BY <1>3, QsortElements
  <2>2. QED
      BY <1>1, <1>5, <2>1 DEF CacheInv, VectorInv
<1>7. \A i, j \in DOMAIN s : s[i] = s[j] => i = j
  <2>1. \A i, j \in DOMAIN videos : videos[i] = videos[j] => i = j
      BY DEF CacheInv, VectorInv
  <2>2. QED
      BY <1>3, <2>1, QsortDistinct
<1>8. Sorted(s, marked)
    BY <1>1, <1>3, QsortPermutes
<1>9. \A k \in 1 .. Len(s) : s[k] = v => k = Len(s)
  <2> SUFFICES ASSUME NEW k \in 1 .. Len(s), s[k] = v, k # Len(s)
               PROVE  FALSE
      OBVIOUS
  <2>1. k < Len(s) /\ Len(s) \in DOMAIN s /\ k \in DOMAIN s
      BY <1>5
  <2>2. s[Len(s)] \in allocated \ {v}
      BY <1>6, <1>7, <2>1, <1>5
  <2>3. marked[s[k]].id - marked[s[Len(s)]].id <= 0
      BY <1>8, <2>1 DEF Sorted
  <2>4. QED
      BY <1>2, <2>2, <2>3 DEF INT_MAX
<1>10. CASE r = SubSeq(s, 1, Len(s) - 1)
  <2>1. /\ r \in Seq(Videos)
        /\ \A k \in DOMAIN r : k \in 1 .. Len(s) /\ k # Len(s) /\ r[k] = s[k]
    <3>1. CASE Len(s) = 0
        BY <1>4, <1>10, <3>1
    <3>2. CASE Len(s) > 0
        BY <1>4, <1>5, <1>10, <3>2
    <3>3. QED
        BY <1>5, <3>1, <3>2
  <2>2. QED
      BY <1>5, <1>6, <1>7, <1>9, <2>1
<1>11. CASE r = <<>>
    BY <1>11
<1>12. QED
    BY <1>10, <1>11 DEF Shrunk

\* The last holder frees a Video that the vector no longer points to.
LEMMA RemoveVideoStep ==
    ASSUME TypeOK, CacheInv, NEW t \in Threads, RemoveVideo(t)
    PROVE  TypeOK' /\ CacheInv'
<1>1. PICK v \in Videos : v = cur_video[t] /\ v \in allocated /\ heap[v] \in VideoRecords
    BY DEF RemoveVideo, TypeOK, CacheInv, HandleInv, HasVideo
<1>2. /\ pc[t] = "remove"
      /\ mem_used' = (mem_used - heap[v].size) % MemMod
      /\ \E s \in Qsort(videos, [heap EXCEPT ![v].id = INT_MAX]) : videos' \in Shrunk(s)
      /\ heap' = [heap EXCEPT ![v] = Freed]
      /\ allocated' = allocated \ {v}
      /\ cur_video' = [cur_video EXCEPT ![t] = NoVideo]
      /\ GiveUp(t)
    BY <1>1 DEF RemoveVideo, MemReleased
<1>3. mem_used' \in 0 .. MemMod - 1
  <2>1. mem_used \in Int /\ heap[v].size \in Int
      BY <1>1, SizesAssumption DEF TypeOK, VideoRecords
  <2>2. mem_used - heap[v].size \in Int
      BY <2>1
  <2>3. QED
      BY <1>2, <2>2, MemRange
<1>4. PICK s \in Qsort(videos, [heap EXCEPT ![v].id = INT_MAX]) : videos' \in Shrunk(s)
    BY <1>2
<1>5. PICK r \in Shrunk(s) : videos' = r
    BY <1>4
<1>6. /\ r \in Seq(Videos)
      /\ \A k \in DOMAIN r : r[k] \in allocated \ {v}
      /\ \A i, j \in DOMAIN r : r[i] = r[j] => i = j
    BY <1>1, VictimLeaves
<1>7. QED
    BY <1>1, <1>2, <1>3, <1>5, <1>6, FreeVideo

-----------------------------------------------------------------------------
(* The theorems.                                                           *)

\* CacheInv is inductive: the mutex, the private phases of a Video and the
\* count of its holders keep each other true through every step of
\* load_video() and unload_video().
THEOREM CacheInvariant == Spec => [](TypeOK /\ CacheInv)
<1>1. Init => TypeOK /\ CacheInv
  <2> SUFFICES ASSUME Init
               PROVE  TypeOK /\ CacheInv
      OBVIOUS
  <2> USE DEF Init
  <2>1. Freed \in VideoRecords /\ NoRequest \in Requests
      BY DEF Freed, VideoRecords, NoRequest, TooShort, AnySign, Requests
  <2>2. NoRequest.id < INT_MAX
      BY DEF NoRequest, INT_MAX
  <2>3. TypeOK
      BY <2>1, SizesAssumption DEF TypeOK, States
  <2>4. LockInv
      BY ThreadsAssumption DEF LockInv, Critical
  <2>5. HandleInv /\ PrivateInv /\ VectorInv
      BY DEF HandleInv, HasVideo, PrivateInv, VectorInv
  <2>6. StreamsInv /\ IdInv /\ RefCount
      BY <2>2 DEF StreamsInv, IdInv, RefCount
  <2>7. QED
      BY <2>3, <2>4, <2>5, <2>6 DEF CacheInv
<1>2. TypeOK /\ CacheInv /\ [Next]_vars => (TypeOK /\ CacheInv)'
  <2> SUFFICES ASSUME TypeOK, CacheInv, [Next]_vars
               PROVE  TypeOK' /\ CacheInv'
      OBVIOUS
  <2>1. ASSUME NEW t \in Threads, Request(t) \/ StopPlaying(t)
        PROVE  TypeOK' /\ CacheInv'
      BY <2>1, ControlSteps
  <2>2. ASSUME NEW t \in Threads, load_video(t)
        PROVE  TypeOK' /\ CacheInv'
      BY <2>2, ControlSteps, CacheHitStep, ReadInfoFileStep, StreamLoopStep,
         NoStreamAvailableStep, AddVideoStep DEF load_video
  <2>3. ASSUME NEW t \in Threads, unload_video(t)
        PROVE  TypeOK' /\ CacheInv'
      BY <2>3, ControlSteps, ReleaseVideoStep, FreeStreamsStep, RemoveVideoStep
         DEF unload_video
  <2>4. CASE UNCHANGED vars
    <3> USE <2>4 DEF vars
    <3>1. TypeOK'
        BY DEF TypeOK
    <3>2. \A v : Holders(v)' = Holders(v)
        BY DEF Holders, Holds
    <3>3. RefCount'
        BY <3>2 DEF CacheInv, RefCount
    <3>4. CacheInv'
        BY <3>3 DEF CacheInv, LockInv, HandleInv, PrivateInv, VectorInv,
                    StreamsInv, Complete, IdInv
    <3>5. QED
        BY <3>1, <3>4
  <2>5. QED
      BY <2>1, <2>2, <2>3, <2>4 DEF Next
<1>3. QED
    BY <1>1, <1>2, PTL DEF Spec

\* No thread streams from freed memory, and the vector points to none: for
\* any number of threads, and also when the shrinking realloc() fails.
THEOREM NoUseAfterFree == Spec => []NoDangling
<1>1. TypeOK /\ CacheInv => NoDangling
  <2> SUFFICES ASSUME TypeOK, CacheInv
               PROVE  NoDangling
      OBVIOUS
  <2>1. ASSUME NEW t \in Threads, pc[t] \in {"playing", "unload"}
        PROVE  cur_video[t] \in allocated /\ Complete(cur_video[t])
    <3>1. cur_video[t] \in allocated
        BY <2>1 DEF CacheInv, HandleInv, HasVideo
    <3>2. \A u \in Threads : pc[u] \in {"streams", "remove"} => cur_video[u] # cur_video[t]
        BY <2>1 DEF CacheInv, PrivateInv
    <3>3. QED
        BY <3>1, <3>2 DEF CacheInv, StreamsInv
  <2>2. QED
      BY <2>1 DEF NoDangling, CacheInv, VectorInv
<1>2. QED
    BY <1>1, CacheInvariant, PTL

\* The counter of a Video is always the number of threads that have yet to
\* unload it.
THEOREM CountersExact == Spec => []RefCount
<1>1. TypeOK /\ CacheInv => RefCount
    BY DEF CacheInv
<1>2. QED
    BY <1>1, CacheInvariant, PTL
=============================================================================
