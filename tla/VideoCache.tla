------------------------------ MODULE VideoCache ------------------------------
(***************************************************************************)
(* The video cache of the streaming server (src/server/stream.c): the      *)
(* vector `videos', sorted by id and shared by all the child threads under *)
(* `stream_lock', and the reference counter of each Video.                 *)
(*                                                                         *)
(* A request takes a reference with load_video(), streams from the Video   *)
(* WITHOUT the lock, and gives the reference back with unload_video(); the *)
(* last one to leave frees the Video and removes it from the vector.       *)
(* Every step of the two functions that reads or writes shared state, or   *)
(* a file, is an action: what the lock protects is not assumed atomic.     *)
(***************************************************************************)
EXTENDS Integers, Sequences, FiniteSets, Functions

CONSTANTS
    Threads,        \* child threads (conn.c), the callers of send_video()
    NoThread,       \* owner of a free mutex
    Videos,         \* addresses malloc() may return for a Video
    NoVideo,        \* NULL
    Atoi,           \* what atoi() makes of each directory name
    NoName,         \* no directory
    Signs,          \* strings of SIGN_LEN characters
    ShortSign,      \* any shorter string
    Tails,          \* what may follow the first SIGN_LEN characters, or "none"
    Asked,          \* the names and signs that clients ask with
    StreamNums,     \* stream counts an info file may declare
    StreamSizes,    \* sizes of the files of streams
    Garbage,        \* what malloc() may leave in the field `size'
    MemMod,         \* stands for 2^64, the range of mem_used
    SignedAuth,     \* signed_auth: requests must carry the sign of the video
    ReallocMayFail, \* the realloc() that shrinks `videos' may return NULL
    FilesIntact     \* no listed file is missing or shorter than its offsets

\* common.c: smallest and largest directory name; limits.h: INT_MAX.
MINNUMPATH == 100
MAXNUMPATH == 999999999
INT_MAX == 2147483647

\* The names of directories under video_path, and their numbers. Two names may
\* have one number: 100, 0100 and 100x are all 100.
Names == DOMAIN Atoi
Ids == Range(Atoi)

\* The sign of a request, or the sign line of an info file.
TooShort == [head |-> ShortSign, tail |-> "none"]
AnySign == [head : Signs, tail : Tails] \cup {TooShort}

ASSUME ThreadsAssumption ==
    /\ IsFiniteSet(Threads)
    /\ NoThread \notin Threads
    /\ NoVideo \notin Videos
ASSUME NamesAssumption ==
    /\ Atoi \in [DOMAIN Atoi -> Int]
    /\ Asked \subseteq [name : Names, sign : AnySign]
ASSUME SignsAssumption == ShortSign \notin Signs
ASSUME SizesAssumption ==
    /\ StreamNums \subseteq Int
    /\ StreamSizes \subseteq Int
    /\ Garbage \subseteq Int
    /\ MemMod \in Nat \ {0}
ASSUME FlagsAssumption == {SignedAuth, ReallocMayFail, FilesIntact} \subseteq BOOLEAN

VARIABLES
    stream_lock,    \* the thread that owns the mutex
    videos,         \* the vector of cached videos; videos_num is its length
    heap,           \* what each Video address holds
    allocated,      \* the Video addresses that are not free
    mem_used,
    pc,             \* where each thread is in load_video / unload_video
    request,        \* name, its number and sign each thread was asked for
    cur_video       \* the local variable of each thread

vars == <<stream_lock, videos, heap, allocated, mem_used, pc, request, cur_video>>

\* The info file data.txt as far as load_video tells files apart.
InfoFiles == [sign : AnySign, stream_num : StreamNums]

\* `streams' counts the elements of the vector of streams that point to a
\* stream in memory; stream_num is the declared length of that vector. `dir',
\* the directory that the Video was read from, is for the properties only.
Freed == [id |-> 0, dir |-> NoName, sign |-> TooShort, counter |-> 0,
          stream_num |-> 0, streams |-> 0, size |-> 0]

NoRequest == [name |-> NoName, id |-> 0, sign |-> TooShort]

Init ==
    /\ stream_lock = NoThread
    /\ videos = <<>>
    /\ heap = [v \in Videos |-> Freed]
    /\ allocated = {}
    /\ mem_used = 0
    /\ pc = [t \in Threads |-> "idle"]
    /\ request = [t \in Threads |-> NoRequest]
    /\ cur_video = [t \in Threads |-> NoVideo]

-----------------------------------------------------------------------------
(* The C library, by its contract.                                         *)

\* The order of compare_video_id over a vector of pointers into `mem'.
Sorted(s, mem) == \A i, j \in DOMAIN s : i < j => mem[s[i]].id - mem[s[j]].id <= 0

\* Defect: the vector is not sorted again.
QsortSkipped(s, mem) == {s}

\* qsort(): any order of the same elements in which the comparator agrees;
\* the standard says nothing of the order of equal ones.
Qsort(s, mem) ==
    { r \in { [k \in DOMAIN s |-> s[p[k]]] : p \in Bijection(DOMAIN s, DOMAIN s) } :
        Sorted(r, mem) }

\* Defect: the last element is not searched.
BsearchShort(id) ==
    LET hits == { k \in 1 .. Len(videos) - 1 : heap[videos[k]].id = id }
    IN  IF hits = {} THEN {0} ELSE hits

\* bsearch(): the position of one match, 0 for NULL. On a vector that is out
\* of order it may miss.
Bsearch(id) ==
    LET hits == { k \in DOMAIN videos : heap[videos[k]].id = id }
    IN  IF hits = {} \/ ~Sorted(videos, heap) THEN hits \cup {0} ELSE hits

\* Defect: the first element is cut off.
ShrunkAtFront(s) == {SubSeq(s, 2, Len(s))}

\* realloc() of the vector after its last element was dropped: size 0 gives
\* NULL, which is also what a failure gives.
Shrunk(s) ==
    {SubSeq(s, 1, Len(s) - 1)} \cup (IF ReallocMayFail THEN {<<>>} ELSE {})

-----------------------------------------------------------------------------
(* load_video()                                                            *)

Unlock(t) ==
    /\ stream_lock = t
    /\ stream_lock' = NoThread

\* send_video() asks for a video: check_supported_dir() filters the name
\* without the lock.
Request(t) ==
    /\ pc[t] = "idle"
    /\ \E r \in Asked :
        /\ MINNUMPATH <= Atoi[r.name] /\ Atoi[r.name] <= MAXNUMPATH
        /\ request' = [request EXCEPT ![t] =
                [name |-> r.name, id |-> Atoi[r.name], sign |-> r.sign]]
    /\ pc' = [pc EXCEPT ![t] = "load"]
    /\ UNCHANGED <<stream_lock, videos, heap, allocated, mem_used, cur_video>>

LockToLoad(t) ==
    /\ pc[t] = "load"
    /\ stream_lock = NoThread
    /\ stream_lock' = t
    /\ pc' = [pc EXCEPT ![t] = "search"]
    /\ UNCHANGED <<videos, heap, allocated, mem_used, request, cur_video>>

\* Defect: a hit does not compare signs.
SameSignUnchecked(v, sign) == TRUE

\* strcmp() of the cached sign line with the requested sign, of any length.
SameSign(v, sign) == heap[v].sign = sign

\* strlen() of the requested sign, and strncmp() with the sign line just read.
ValidSign(info, sign) ==
    /\ sign # TooShort /\ sign.tail = "none"
    /\ info.sign.head = sign.head

CacheHit(t) ==
    /\ pc[t] = "search"
    /\ \E k \in Bsearch(request[t].id) \cap DOMAIN videos :
        /\ SignedAuth => SameSign(videos[k], request[t].sign)
        /\ heap' = [heap EXCEPT ![videos[k]].counter = @ + 1]
        /\ cur_video' = [cur_video EXCEPT ![t] = videos[k]]
    /\ Unlock(t)
    /\ pc' = [pc EXCEPT ![t] = "playing"]
    /\ UNCHANGED <<videos, allocated, mem_used, request>>

CacheMiss(t) ==
    /\ pc[t] = "search"
    /\ \E k \in Bsearch(request[t].id) :
        k \in DOMAIN videos => SignedAuth /\ ~SameSign(videos[k], request[t].sign)
    /\ pc' = [pc EXCEPT ![t] = "info"]
    /\ UNCHANGED <<stream_lock, videos, heap, allocated, mem_used, request, cur_video>>

\* Defect: the file is tried again with the mutex held.
GiveUpNever(t) ==
    /\ stream_lock = t
    /\ pc' = [pc EXCEPT ![t] = "search"]
    /\ UNCHANGED <<stream_lock, request>>

GiveUp(t) ==
    /\ Unlock(t)
    /\ pc' = [pc EXCEPT ![t] = "idle"]
    /\ request' = [request EXCEPT ![t] = NoRequest]

\* There is no info file, it is empty or it cannot be read.
NoInfoFile(t) ==
    /\ pc[t] = "info"
    /\ GiveUp(t)
    /\ UNCHANGED <<videos, heap, allocated, mem_used, cur_video>>

\* The sign is not that of the info file: the Video just allocated is freed.
InvalidSign(t) ==
    /\ pc[t] = "info"
    /\ SignedAuth
    /\ \E info \in InfoFiles : ~ValidSign(info, request[t].sign)
    /\ GiveUp(t)
    /\ UNCHANGED <<videos, heap, allocated, mem_used, cur_video>>

\* Defect: the reference of the loader is not counted.
NewVideoUncounted(req, info, size) ==
    [id |-> req.id, dir |-> req.name, sign |-> info.sign, counter |-> 0,
     stream_num |-> info.stream_num, streams |-> 0, size |-> size]

\* The info file is read into a new Video, with the caller's reference and
\* with a `size' nobody initialises.
NewVideo(req, info, size) ==
    [id |-> req.id, dir |-> req.name, sign |-> info.sign, counter |-> 1,
     stream_num |-> info.stream_num, streams |-> 0, size |-> size]

ReadInfoFile(t) ==
    /\ pc[t] = "info"
    /\ \E v \in Videos \ allocated, info \in InfoFiles, size \in Garbage :
        /\ SignedAuth => ValidSign(info, request[t].sign)
        /\ heap' = [heap EXCEPT ![v] = NewVideo(request[t], info, size)]
        /\ allocated' = allocated \cup {v}
        /\ cur_video' = [cur_video EXCEPT ![t] = v]
    /\ pc' = [pc EXCEPT ![t] = "streams"]
    /\ UNCHANGED <<stream_lock, videos, mem_used, request>>

\* One iteration of the loop over the listed streams: the file is read.
LoadStream(t) ==
    LET v == cur_video[t] IN
    /\ pc[t] = "streams"
    /\ heap[v].streams < heap[v].stream_num
    /\ \E n \in StreamSizes :
        heap' = [heap EXCEPT ![v].streams = @ + 1, ![v].size = @ + n]
    /\ UNCHANGED <<stream_lock, videos, allocated, mem_used, pc, request, cur_video>>

\* One iteration that drops the stream: its file is missing, or its last
\* offset lies beyond its end.
DropStream(t) ==
    LET v == cur_video[t] IN
    /\ pc[t] = "streams"
    /\ ~FilesIntact
    /\ heap[v].streams < heap[v].stream_num
    /\ heap' = [heap EXCEPT ![v].stream_num = @ - 1]
    /\ UNCHANGED <<stream_lock, videos, allocated, mem_used, pc, request, cur_video>>

\* The loop ended without a stream. What `size' held stays in mem_used.
NoStreamAvailable(t) ==
    LET v == cur_video[t] IN
    /\ pc[t] = "streams"
    /\ heap[v].streams >= heap[v].stream_num
    /\ heap[v].stream_num <= 0
    /\ mem_used' = (mem_used + heap[v].size) % MemMod
    /\ heap' = [heap EXCEPT ![v] = Freed]
    /\ allocated' = allocated \ {v}
    /\ cur_video' = [cur_video EXCEPT ![t] = NoVideo]
    /\ GiveUp(t)
    /\ UNCHANGED videos

\* The loop ended with streams: the Video joins the vector.
AddVideo(t) ==
    LET v == cur_video[t] IN
    /\ pc[t] = "streams"
    /\ heap[v].streams >= heap[v].stream_num
    /\ heap[v].stream_num > 0
    /\ mem_used' = (mem_used + heap[v].size) % MemMod
    /\ videos' \in Qsort(Append(videos, v), heap)
    /\ Unlock(t)
    /\ pc' = [pc EXCEPT ![t] = "playing"]
    /\ UNCHANGED <<heap, allocated, request, cur_video>>

-----------------------------------------------------------------------------
(* send_video() returns: unload_video()                                    *)

\* Every return of send_video() after load_video() unloads the video first.
StopPlaying(t) ==
    /\ pc[t] = "playing"
    /\ pc' = [pc EXCEPT ![t] = "unload"]
    /\ UNCHANGED <<stream_lock, videos, heap, allocated, mem_used, request, cur_video>>

LockToUnload(t) ==
    /\ pc[t] = "unload"
    /\ stream_lock = NoThread
    /\ stream_lock' = t
    /\ pc' = [pc EXCEPT ![t] = "release"]
    /\ UNCHANGED <<videos, heap, allocated, mem_used, request, cur_video>>

\* Defects: off by one in either direction.
LastReferenceEarly(v) == heap[v].counter - 1 <= 1
LastReferenceNever(v) == heap[v].counter - 1 < 0

\* --counter <= 0
LastReference(v) == heap[v].counter - 1 <= 0

\* Others still hold the video.
ReleaseVideo(t) ==
    LET v == cur_video[t] IN
    /\ pc[t] = "release"
    /\ ~LastReference(v)
    /\ heap' = [heap EXCEPT ![v].counter = @ - 1]
    /\ cur_video' = [cur_video EXCEPT ![t] = NoVideo]
    /\ GiveUp(t)
    /\ UNCHANGED <<videos, allocated, mem_used>>

\* The last holder frees the streams, and keeps the lock.
FreeStreams(t) ==
    LET v == cur_video[t] IN
    /\ pc[t] = "release"
    /\ LastReference(v)
    /\ heap' = [heap EXCEPT ![v].counter = @ - 1, ![v].streams = 0]
    /\ pc' = [pc EXCEPT ![t] = "remove"]
    /\ UNCHANGED <<stream_lock, videos, allocated, mem_used, request, cur_video>>

\* Defect: the memory is not given back.
MemReleasedNot(v) == mem_used

MemReleased(v) == (mem_used - heap[v].size) % MemMod

\* The id INT_MAX sends the video to the end of the vector, whose last
\* element is cut off, whatever it is.
RemoveVideo(t) ==
    LET v == cur_video[t]
        marked == [heap EXCEPT ![v].id = INT_MAX]
    IN
    /\ pc[t] = "remove"
    /\ mem_used' = MemReleased(v)
    /\ \E s \in Qsort(videos, marked) : videos' \in Shrunk(s)
    /\ heap' = [heap EXCEPT ![v] = Freed]
    /\ allocated' = allocated \ {v}
    /\ cur_video' = [cur_video EXCEPT ![t] = NoVideo]
    /\ GiveUp(t)

-----------------------------------------------------------------------------
load_video(t) ==
    \/ LockToLoad(t)
    \/ CacheHit(t)
    \/ CacheMiss(t)
    \/ NoInfoFile(t)
    \/ InvalidSign(t)
    \/ ReadInfoFile(t)
    \/ LoadStream(t)
    \/ DropStream(t)
    \/ NoStreamAvailable(t)
    \/ AddVideo(t)

unload_video(t) ==
    \/ LockToUnload(t)
    \/ ReleaseVideo(t)
    \/ FreeStreams(t)
    \/ RemoveVideo(t)

Next == \E t \in Threads : Request(t) \/ load_video(t) \/ StopPlaying(t) \/ unload_video(t)

Spec == Init /\ [][Next]_vars

\* A thread that can take its next step is not starved for ever by the
\* kernel; a mutex is no more than that (it has no queue, so a thread may
\* lose every race for it). Nobody has to ask for a video.
Fairness ==
    \A t \in Threads : WF_vars(load_video(t) \/ unload_video(t)) /\ WF_vars(StopPlaying(t))

FairSpec == Spec /\ Fairness

-----------------------------------------------------------------------------
(* Properties.                                                             *)

Critical == {"search", "info", "streams", "release", "remove"}
HasVideo == {"streams", "playing", "unload", "release", "remove"}
States == {"idle", "load"} \cup Critical \cup HasVideo

VideoRecords ==
    [id : Int, dir : Names \cup {NoName}, sign : AnySign, counter : Nat,
     stream_num : Int, streams : Nat, size : Int]

Requests == [name : Names \cup {NoName}, id : Int, sign : AnySign]

\* The vector has addresses of Videos, and the mutex has one owner.
TypeOK ==
    /\ stream_lock \in Threads \cup {NoThread}
    /\ videos \in Seq(Videos)
    /\ heap \in [Videos -> VideoRecords]
    /\ allocated \subseteq Videos
    /\ mem_used \in 0 .. MemMod - 1
    /\ pc \in [Threads -> States]
    /\ request \in [Threads -> Requests]
    /\ cur_video \in [Threads -> Videos \cup {NoVideo}]

\* A thread's reference counts until unload_video() has decremented for it.
Holds(t, v) == cur_video[t] = v /\ pc[t] # "remove"
Holders(v) == { t \in Threads : Holds(t, v) }

\* All the streams the vector declares are in memory.
Complete(v) == heap[v].stream_num > 0 /\ heap[v].streams = heap[v].stream_num

\* No use after free: a thread that streams without the lock reads from a
\* Video, and from streams, that are in memory; and the vector that bsearch()
\* and qsort() walk points to no freed Video. It holds even when the shrinking
\* realloc() fails and the cache forgets videos that are being streamed.
NoDangling ==
    /\ \A k \in DOMAIN videos : videos[k] \in allocated
    /\ \A t \in Threads : pc[t] \in {"playing", "unload"} =>
            cur_video[t] \in allocated /\ Complete(cur_video[t])

\* The counter of every Video in memory is the number of threads that still
\* have to unload it, so that the last one, and only that one, frees it.
RefCount ==
    \A v \in allocated : heap[v].counter = Cardinality(Holders(v))

\* Videos that are in memory while nobody works on the cache can be found:
\* the vector holds them all, once each, in the order bsearch() needs. It
\* needs the vector never to be lost by realloc().
Findable ==
    stream_lock = NoThread =>
        /\ allocated = Range(videos)
        /\ Cardinality(allocated) = Len(videos)
        /\ Sorted(videos, heap)

\* Without signs a video is never in memory twice, however many threads miss
\* it at the same time.
OneCopy ==
    \A v, w \in Range(videos) : heap[v].id = heap[w].id => v = w

\* No other directory has the number of this one.
Unmistakable(name) == \A n \in Names : Atoi[n] = Atoi[name] => n = name

\* A thread streams a video of the number it was asked for, read from the very
\* directory it was asked for unless another one has the same number; and,
\* when signs are required, only if the request began with the sign of that
\* video, whether it was read from disk or found in memory.
Authorised ==
    \A t \in Threads : pc[t] \in {"playing", "unload"} =>
        LET v == heap[cur_video[t]] IN
        /\ v.id = request[t].id
        /\ Unmistakable(request[t].name) => v.dir = request[t].name
        /\ SignedAuth => /\ request[t].sign.head # ShortSign
                         /\ v.sign.head = request[t].sign.head

\* mem_used is what the videos that joined the vector take, and the garbage
\* that malloc() left in their `size' cancels out, as long as every load
\* finds its streams.
Counted == { v \in allocated :
    \A t \in Threads : cur_video[t] = v => pc[t] # "streams" }
MemUsedExact ==
    mem_used = SumFunctionOnSet([v \in Videos |-> heap[v].size], Counted) % MemMod

\* While a thread streams, nobody changes the Video it reads without the
\* lock, apart from the counter.
FrozenWhilePlaying ==
    [][ \A t \in Threads : pc[t] = "playing" /\ pc'[t] = "playing" =>
            LET v == cur_video[t] IN
            /\ cur_video'[t] = v
            /\ heap'[v] = [heap[v] EXCEPT !.counter = heap'[v].counter]
      ]_vars

\* Whatever path load_video() and unload_video() take, the mutex is given back.
LockReleased == \A t \in Threads : stream_lock = t ~> stream_lock # t

\* Once requests stop coming, every video is freed and the vector is empty.
CacheDrains ==
    (<>[][~ \E t \in Threads : Request(t)]_vars) => <>[](allocated = {} /\ videos = <<>>)

-----------------------------------------------------------------------------
(* The inductive invariant behind NoDangling and RefCount.                 *)

\* The mutex is owned exactly by the thread in a critical section.
LockInv == \A t \in Threads : stream_lock = t <=> pc[t] \in Critical

\* A thread's local pointer is NULL or points to memory.
HandleInv == \A t \in Threads :
    IF pc[t] \in HasVideo THEN cur_video[t] \in allocated ELSE cur_video[t] = NoVideo

\* While a Video is built or torn down only the lock's owner knows it, and
\* one that is being built is not in the vector.
PrivateInv == \A t \in Threads : pc[t] \in {"streams", "remove"} =>
    /\ \A u \in Threads \ {t} : cur_video[u] # cur_video[t]
    /\ pc[t] = "streams" =>
        /\ \A k \in DOMAIN videos : videos[k] # cur_video[t]
        /\ heap[cur_video[t]].stream_num > 0 =>
               heap[cur_video[t]].streams <= heap[cur_video[t]].stream_num

\* The vector points to memory, and to each Video once.
VectorInv ==
    /\ \A k \in DOMAIN videos : videos[k] \in allocated
    /\ \A i, j \in DOMAIN videos : videos[i] = videos[j] => i = j

\* Only a Video that is being built or torn down lacks streams.
StreamsInv == \A v \in allocated :
    \/ Complete(v)
    \/ \E t \in Threads : pc[t] \in {"streams", "remove"} /\ cur_video[t] = v

\* No id in use is the INT_MAX that unload_video() marks the victim with.
IdInv ==
    /\ \A v \in allocated : heap[v].id < INT_MAX
    /\ \A t \in Threads : request[t].id < INT_MAX

\* What the two functions keep true at every step.
CacheInv ==
    /\ LockInv
    /\ HandleInv
    /\ PrivateInv
    /\ VectorInv
    /\ StreamsInv
    /\ IdInv
    /\ RefCount

\* A thread's request is for a known name, and the Video it works with has the
\* number and the sign that it asked for, from the moment the info file is
\* read. Every Video in memory has the number of the directory it was read
\* from and, where signs are required, a whole sign.
RequestInv ==
    /\ \A t \in Threads :
        /\ pc[t] # "idle" =>
            /\ request[t].name \in Names
            /\ request[t].id = Atoi[request[t].name]
        /\ pc[t] \in {"streams", "playing", "unload", "release"} =>
            /\ heap[cur_video[t]].id = request[t].id
            /\ SignedAuth => heap[cur_video[t]].sign.head = request[t].sign.head
    /\ \A v \in allocated :
        /\ heap[v].dir \in Names
        /\ heap[v].id = Atoi[heap[v].dir]
        /\ SignedAuth => heap[v].sign.head # ShortSign

\* Every Video in memory is known to a thread that has to unload it.
OwnedInv == \A v \in allocated : \E t \in Threads : cur_video[t] = v

\* Where the vector is never lost, it is in order and holds every Video but the
\* one that is being built.
OrderInv ==
    /\ Sorted(videos, heap)
    /\ \A v \in allocated :
        v \in Range(videos) \/ \E t \in Threads : pc[t] = "streams" /\ cur_video[t] = v

\* Where signs are not required either, all ids differ, and differ from the one
\* whose info file is about to be read.
UniqueInv ==
    /\ \A v, w \in allocated : heap[v].id = heap[w].id => v = w
    /\ \A t \in Threads : pc[t] = "info" =>
        \A v \in allocated : heap[v].id # request[t].id

\* Where every load finds its streams, no load is left without one, and the sum
\* that mem_used stands for is one over a finite set.
MemInv ==
    /\ IsFiniteSet(allocated)
    /\ \A t \in Threads : pc[t] = "streams" => heap[cur_video[t]].stream_num > 0
    /\ MemUsedExact

-----------------------------------------------------------------------------
(* Refinement: a thread has a video open from the end of load_video() to   *)
(* the moment unload_video() takes its reference away.                     *)

handle == [t \in Threads |->
    IF pc[t] \in {"playing", "unload", "release"} THEN cur_video[t] ELSE NoVideo]

identity == [v \in Videos |->
    IF \E t \in Threads : handle[t] = v THEN heap[v].id ELSE 0]

Handles == INSTANCE VideoHandles
    WITH NoId <- 0, Unique <- ~(SignedAuth \/ ReallocMayFail)

\* The cache keeps the promise of VideoHandles: everybody who asks for a
\* video that is open shares it, and the last one to leave frees it. Copies
\* of one video are only promised away where signs cannot differ and the
\* vector is never lost.
ImplementsHandles == Handles!Spec
=============================================================================
