# A verification project for ichoppedthatvideo

The repository holds a threaded HTTP server that streams videos from memory
(`src/server`, C with POSIX threads and MySQL), an offline analyser that finds
the i-frames of video files and writes the info files the server reads
(`src/chopper`), and administration scripts (`src/util`). This directory holds
TLA+ models of the parts whose correctness depends on more than one thread, one
request or one step, the TLC runs that check them, and TLAPS proofs.

## 1. Inventory

| Part | State it keeps | Operations | Interacts with | Hard because |
|---|---|---|---|---|
| Video cache (`stream.c`) | `videos`, `videos_num`, a counter per Video, `mem_used`, `stream_lock` | `load_video`, `unload_video`, `close_videos` | the files under `video_path`; `send_video` of every thread | shared pointers used without the lock, reference counts, early returns with the lock held, `realloc` failure |
| `send_video` (`stream.c`) | locals per request: stream, next i-frame, chunks, times | whole-file transfer, chunked adaptive transfer, changes on the fly | the cache, the client's socket | i-frame arithmetic at the ends, `send` that fails or sends part, change of stream mid-way |
| Request limiter (`security.c`) | `backlog`, `blacklist`, their last positions, `sec_lock` | `init_security`, `check_client`, `close_security` | `manage_request` of every thread, the clock | circular overwriting of sorted lists, comparison of 64-bit values in an `int`, rates |
| Connections (`conn.c`) | `children`, `child_num`, `alive_flag`, `conn_lock` | `init_conn`, `child_main`, `get_child_pos`, `close_conn` | the listening socket, `manage_request` | a new thread runs before it is registered; shutdown while threads block |
| Statistics (`stat.c`) | MySQL connection, `stat_lock` | `new_request_stat`, `new_stream_stat` | the database, `get_child_pos` | INSERT and SELECT MAX(id) are two critical sections |
| Requests (`request.c`, `file.c`, `reply.c`) | locals, the files | `manage_request`, `parse_request`, `get_file_by_id`, `compose_reply` | all of the above | order of early returns, one `recv` for a request, lengths and error codes kept in unsigned types, files that change between the calls that look at them |
| Helpers (`common.c`) | none | string cutting, `parse_key_value`, atomics, file reading | everybody | boundary cases of pure functions |
| Chopper (`chopper/*.c`) | the video's entries, the info file `data.txt` | `load_videos`, `save_common_info`, `save_stream_info` | the server, through the file | the server may read the file between two writes |
| Start-up, signals | the process | `main`, the `init_*` functions, `default_handler` | everybody | the process ends at any moment, and what it wrote to the database stays |
| Logging | a log level | `init_log`, `log_message` | everybody | no state other parts depend on; not modelled |
| `async_clean.c`, `util/*` | - | - | - | not built, or stand-alone scripts; not modelled |

Correctness in one line each: the cache never frees what a thread still streams
and frees it when nobody does; a transfer sends the video in order, without a
gap, from memory that belongs to the stream; the limiter bans who exceeds the
rate and nobody else, for the configured time; each thread finds its own
position; a client gets one answer, and the statistic of its stream refers to
its own request, also across a restart; the parameters of a request are those
the client wrote, and a file it gets is one version of the file; the info file
read by the server is one the chopper meant to write.

`PROJECT.json` lists the hazards of the code at their lines with the properties
that would catch them.

## 2. Modules

| Module | Models | Uses |
|---|---|---|
| `VideoCache` | `load_video`, `unload_video` and the threads that call them | `VideoHandles` (refinement) |
| `VideoHandles` | what the two functions promise, without locks, vectors and counters | |
| `VideoCacheProofs` | theorems about the pointers and the counters of the cache, and their proofs | `VideoCache` |
| `VideoHandlesProofs` | theorems about what the cache promises, among them the refinement, and their proofs | `VideoCacheProofs`, `NatLemmas` |
| `SendVideo` | one transfer, `send_video` | |
| `SendVideoProofs` | theorems about a transfer and their proofs | `SendVideo`, `NatLemmas` |
| `Security` | the request limiter, `check_client` | |
| `SecurityProofs` | theorems about the limiter and their proofs | `Security`, `NatLemmas` |
| `Server` | the process, `init_conn`, the child threads, `manage_request`, the statistics and their database | `Service` (refinement) |
| `Service` | what the server promises to its clients | |
| `Request` | the text of one request and its answer: `parse_request`, `get_file_by_id`, `compose_reply` and the helpers of `common.c` they use | |
| `ServerProofs` | theorems about the server and their proofs | `Server`, `NatLemmas` |
| `RequestProofs` | theorems about the text and the files of a request, and their proofs | `Request` |
| `InfoFile` | the chopper's `load_videos` and the reading of its file in `load_video` | |
| `InfoFileProofs` | theorems about the info file, its writer and its reader, and their proofs | `InfoFile` |
| `NatLemmas` | least elements, remainders, chunks and sums over finite sets | |
| `MCVideoCache`, `MCSendVideo`, `MCSecurity`, `MCServer`, `MCRequest`, `MCInfoFile` | constants for TLC | the module of the same name |

Each module takes one mutex, one function or one file as its subject and sees
the others through their results: `Server` knows of a transfer only how it
ended, `VideoCache` of the loop over the streams only which were loaded,
`SendVideo` gets a Video whose streams are as `load_video` leaves them. The
assumptions that one module makes about another are properties of that other
module: that a Video does not change during a transfer is `FrozenWhilePlaying`,
that a transfer ends is `TransferEnds`, that i-frame offsets are inside the
stream is in part `WithinFile`; what `Server` leaves free about the text of a
request is in `Request`. `SendVideo` assumes no more of a stream than line 369 of
`load_video` checks: offsets may be out of order, and the streams of a video may
differ in the number of i-frames.

Calls of the operating system on one file, `read`, `write` and `fstat`, are taken
to be atomic with respect to each other, as POSIX has it.

Operators whose comment starts with "Defect:" are not part of a model. Each is
a definition changed by a plausible mistake, which is put in its place to see
that the property it goes with is violated.

### VideoCache

Every thread that serves a stream request is a process. `pc` says where it is:
`idle`, `load` (it wants the mutex), `search` (`bsearch` in the vector), `info`
(a miss: `data.txt` is read), `streams` (the loop over the listed files),
`playing` (`send_video`, without the mutex), `unload` (it wants the mutex
again), `release` (the counter is decremented) and `remove` (the last holder
takes the Video out of the vector). `request` and `cur_video` are its locals,
`videos` is the vector with `videos_num` as its length, `heap` and `allocated`
are what `malloc` handed out, and an address that is freed can be handed out
again.

The critical sections are not assumed to be atomic. They are split at each
access to shared state and at each file, and mutual exclusion is what the
mutex gives (`LockInv`, proved).

Data is abstracted to what the properties tell apart. A sign, of a request or of
the sign line of an info file, is its first 40 characters (`ShortSign` if there
are less) and what follows them: a load compares the first 40 and the length of
the requested sign, a hit compares all with `strcmp` (`SameSign`), so that a line
and a request that are equally too long agree. A video is asked for by the name of
its directory; `Atoi` gives the number that `bsearch` compares, and two names may
have one number. `dir` in a Video is for the properties: it says where the Video
was read. `Asked` are the pairs of name and sign that clients ask with. A stream
is its size. The files
may change at any moment (the chopper rewrites them), so each read may find any
file, or none: a stream that is missing and one with an offset beyond its end
are both `DropStream`. `qsort` and `bsearch` are modelled by the contract of
the C standard: any sorted order of the elements, any one of the matches.
`mem_used` is kept modulo `MemMod`, which stands for 2^64, and `size` starts as
garbage because the code never initialises it.

The promise (`VideoHandles`) is that a request opens a video shared with
everybody who has it open, or loaded anew at an unused address, that its
identity does not change while it is open, and that it is gone when the last
one closes it. The refinement `ImplementsHandles` maps a thread's handle to its
`cur_video` from the end of `load_video` to the moment its reference is taken
away.

### SendVideo

One transfer is modelled from the Video that `load_video` returned to the call
of `unload_video`. `Start` chooses the stream and the first i-frame from the
URL. With one stream, or a quality in the URL, the rest of the stream goes out
in one reply (`SendWhole`); otherwise a first part (`SendFirst`) is followed by
the main loop: `NextIframe`, `SendChunk` for each chunk, `Adapt` (the choice of
another stream), `Renew` or `NoMessage` (the non-blocking `recv`), and
`SendEnd` in the end. Every `send` may fail, and each failing path is a
disjunct of its own, because each unloads the video for itself.

Bytes are not modelled; a buffer is a range of a stream (`Part`), and
`received` is the last range the client got, with what it asked for since the
one before (`wish`). The i-frame index is an unsigned short (`UshortRange`).
A stream is what `load_video` lets pass: at least one i-frame, as many as an
unsigned short counts, and a last offset inside the data (`IsStream`). Where the
code reads behind the array of offsets, or copies data of a negative length or
from behind the stream, the transfer becomes `undefined`; where it divides by zero
it stops. `InBounds` says when this cannot happen once the first reply is sent:
in streams whose offsets are in order and that have less than 65535 i-frames
(`WellFormed`), even if their numbers of i-frames differ. `Complete` and
`Contiguous` are about videos whose streams have the same number of i-frames
(`Aligned`). That is no property of the code; what happens without it is in
section 5.

### Security

Two sorted vectors of fixed length, `backlog` and `blacklist`, with the index
of the slot written last. A thread reads the clock (`Arrive`), takes the mutex
(`Lock`), looks into the blacklist (`RefuseClient`, `ForgetBan`, `NotBanned`)
and then into the backlog (`BanClient`, `CountRequest`, `RecordClient`).
`Compare` cuts the difference of two addresses to an `int` of `IntRange`
values. `Bsearch` is the binary search of the C library, and not just any
match, because with a comparator that is no order its result depends on the
path it takes; `Qsort` leaves neighbours in order, which is all a merge sort
guarantees with such a comparator. A free slot has the address `ULONG_MAX`,
which the comparator sees as -1.

### Server

`main` is `down` while there is no process. `Start` stands for `main()` up to
`init_conn`, which nothing else interleaves with: the options, the log, the
modules, among them `init_stat` if statistics are asked for. `StartFails` is
any of its early returns. `init_conn` creates each thread and counts it in
`child_num` in a second step; the thread may run in between, and clients may
connect, because the socket listens already. A thread takes `conn_lock`,
accepts, and goes through `manage_request` with all its returns.
`new_request_stat` is two critical sections, an INSERT and a SELECT MAX(id) for
this child, and `new_stream_stat` a third.

The process ends by a signal (`Signal`, the handler of `signal.c`), by an error
of `init_conn` (`CreateFails`), or by a crash: the name of an empty request is
looked up beyond its array (`ComposeCrashes`), the maximum of no rows is
converted to a number (`SelectCrashes`). `EndProcess` takes the threads, the
mutexes and the locals away and resets the connections that are open; the tables
`requests` and `streams` stay. The server is started `MaxStarts` times.

A thread that serves a client before it is registered gets an error code from
`get_child_pos` and uses it as its child id. The column is unsigned
(`create_db.py`): the database clips the value to 0 (`Column`), or refuses the
row, which is `InsertFails`. The SELECT for the negative id then finds no row
and the process ends. The clipped row is there for thread 0, which takes its id if
the row is inserted between the INSERT and the SELECT of thread 0, and books its
stream on the request of another client. This is the finding of `server_early`;
`OwnRequest` has the condition that every row was written by a registered thread
(`by` in a row is history and says who wrote it).

A thread that reads a request, or sends a file, depends on its client for any
length of time (`Held`): these calls block, and only `send_video` sets a timeout.

accept(), the database, the start and the creation of a thread may fail, and
signals arrive, `MaxFailures` times altogether. The answers of the limiter, of
`parse_request`, of `send_video` and of `get_file_by_id` are free. A transfer may
be so long that `total_bytes_sent`, an `int`, overflows (`SendLongVideo`);
whatever the sum becomes, it is taken for an error if it is negative.

`Service` is what a client may rely on: connected, answered, closed, in this
order, its stream booked at most once and only after it was answered; or lost
with everybody else when the process ends. `ImplementsService` maps a client to
the state of its connection and of its answer, and `booked` to the connections
of the rows in `streams`.

### Request

One request, from `recv` to the reply. A text is a sequence of tokens (a key, a
name of a file, a delimiter, a word); lengths are counted in tokens, with the
widths of the code (`UshortRange` stands for 2^16) and its off-by-ones: a
length that counts the final byte, `snprintf` with a length of 0 (`Printed`).
`recv` returns any beginning of the text (`Recv`). `KnownType` is the part of
`parse_request` that looks for the parameters, with `parse_key_value` and
`get_valid_substr_len` as operators; `FirstAt` is `strchr` and `strstr`.
`get_file_by_id` is one action for each system call, because somebody else
removes and replaces the files: `check_file_exists`, `OpenFile`, `ReadFile`
(`stat` of the name, then `read` of the descriptor, cut to what `stat` said).
`seen` is history, what was found call by call. `SendFile` is the rest, with
`find_and_replace` for `data.xml` and `strlen`, which stops at a NUL. A reply is
the record of the fields that `compose_reply` fills in, with its defaults.
`AnswerOf` is the whole file, with the name of the server in `data.xml`;
`WholeIfStill` demands it of texts (`IsText`, no NUL) whose parts an unsigned
short can count, and of other files only that the length announced is that of
what is sent. `OneVersion` is about replacement, that is by `rename`: of a file that
is written in place `read` could return a mixture. The mark `SERVER_URL` is one
token, so that no reading ends inside it.

`ParsedAsWritten` compares `parse_key_value` with a reference definition
(`ValueOf`) that looks for pairs, for the queries in which every key begins a
pair and is there once. For others they differ (section 5).

### InfoFile

The chopper goes through the files of a directory (`LoadStream`), sorts the
vector of streams with a comparator that compares bytes of pointers, so that
any order may result (`Truncate`), and writes: the head, and for each stream
its name and number, every offset, and the end of the line. Between any two
writes the chopper may be stopped; it can be run again. The server reads the whole
file at some moment and goes through its copy: `MissingFile`, `AddStream`,
`EndLoad`. Video files are removed or replaced meanwhile.

No result of `write` is looked at. A `write` that fails, or writes a part and ends
inside a number, leaves a text in which the next ones may continue that number,
and which may be any text from there on: `info` is `Torn`. The same holds where the
chopper overwrites its memory, because `load_stream` has room for four i-frames a
second and does not count them (`Overflow`), and of a copy for which the server
asked the size before the chopper emptied and wrote the file anew (`rewritten`):
as many bytes are read as the old file had. Of a copy that is `Torn` the reader
loads any streams with any offsets of which the last one passes the check
(`TornStream`), or ends (`TornEnds`). The number of i-frames is an `int` in the
chopper and an unsigned short in the server (`IframeNum`, modulo `UshortRange`);
where it does not fit, the reader stays between the offsets and takes the rest for
what it is not, so that its copy is `Torn` from there on (`AddStream`).

The file is a sequence of tokens (names, numbers, newlines) and the reader is
modelled by what `strchr`, `strtod` and `strtoll` do with them, including a
`strtoll` that finds no number and returns 0. Path and sign, the first two
lines, are left out. Names are taken not to begin with a digit. `origin` is
history: the streams that belong in the file that was read, whether it is
complete, and whether it was torn when it was read. Of the offsets the model
assumes (`InfoFileAssumption`) that they do not decrease and lie inside the file:
the chopper takes them from `url_ftell` before the i-frame is read, and stores the
same offset again for an i-frame that follows another one.

The stat and read of `get_file_contents` are one step; what changes in between is
in `rewritten`, which is set from the first look at the size on. A video file is read, and its size asked for
after that, in two steps (`ReadStream`, then `AddStream` or `NotWellFormed`);
`meanwhile` is history and says whether it was replaced in between. A server
that ends while it loads is `crashed`, and `CrashExplained` says what may have
happened: the info file was emptied after its size was checked, a stream is listed
without i-frames or with more than an unsigned short counts, or the text is torn.

## 3. Runs

| Run | Instance | Shows |
|---|---|---|
| `cache_shared` | 3 threads, 3 addresses, 2 ids (and one that is refused), 0 to 2 streams | no use after free (`NoDangling`), exact counters (`RefCount`), `bsearch` finds what is loaded (`Findable`), one copy of an id (`OneCopy`), a video does not change during a transfer (`FrozenWhilePlaying`), and the refinement of `VideoHandles` |
| `cache_signed` | 3 threads, 3 addresses, 3 names of which two have one number, sign lines that change and may be too long, requests with a good, a long and a short sign | nobody gets a video whose sign it did not present, nor one of another number, nor of another directory unless that has the same number (`Authorised`), also when several copies of the id are cached; every video is found (`Findable`); the mutex is always given back (`LockReleased`), and the cache empties when requests stop (`CacheDrains`) |
| `cache_realloc` | 2 threads, 2 ids, sizes 1 and 2 modulo 16, garbage sizes | the refinement of `VideoHandles` survives a failing `realloc`, although the vector then lacks videos in use; `mem_used` is exact (`MemUsedExact`) |
| `send_order` | 3 aligned videos of 1 to 3 streams with 3 or 5 i-frames, some empty; one with 3 and 5 i-frames, one with an offset that was missing, one with as many i-frames as the index counts; chunks of 2 bytes, 2 messages | only offsets out of order, or too many, lead behind the arrays after the first reply (`InBounds`); the client receives an aligned video in order (`Contiguous`) to the last byte (`Complete`); any video is unloaded once on every path (`Released`), and the transfer ends (`TransferEnds`) |
| `security_limiter` | 2 threads, 3 clients, lists of 2, clock 0 to 2 | every entry is found (`Searchable`), a ban holds (`BannedRefused`), and only a newer ban overwrites it (`BanStays`) |
| `security_comparator` | 1 thread, addresses more than half of the range apart | a finding: `BannedRefused` is violated |
| `server_requests` | 2 threads, 2 connections, one failure or signal, 2 starts | as long as only registered threads insert rows, statistics of streams refer to their own requests (`OwnRequest`), also across restarts; each connection is served by one thread and answered (`ServedOnce`), once unless the count of bytes overflows (`AnsweredOnce`), the database has one query at a time (`OneQuery`), the counters add up (`CountersAddUp`), every client that is not silent is served unless the process ends or silent clients hold all threads (`AllServed`), and the server implements `Service` (`ImplementsService`) |
| `server_early` | the same | a finding: `NewlyGenerated` is violated |
| `request_files` | every query of up to 5 tokens and of two pairs of up to 3, requests for 3 files, 5 contents | the parameters of a proper query are those that were written, although `recv` may return a part of it (`ParsedAsWritten`); no value leaves its buffer or names a path (`ValuesClean`); a text that nobody touches and whose parts the types can count is sent whole, and every file with the length of what is sent (`WholeIfStill`), of one that is replaced the client gets one version (`OneVersion`), and the answer fits what was found (`AnswerFitsFiles`) |
| `info_load` | 2 files of 0 to 4 i-frames, one of them too many for the array of the chopper and for the count of the server, 2 runs of the chopper with writes that are torn, one file changed | where no write was torn and the i-frames can be counted: what is loaded is what was analysed (`RoundTrip`), only the last stream of an unfinished file is wrong (`OnlyLastIsCut`), offsets are inside the file although only one is checked (`WithinFile`); in any case: the server ends for the causes listed only (`CrashExplained`), the loop makes progress (`LoadProgress`) |
| `info_chopper` | 2 files, one of which cannot be decoded | a finding: `ListsEachFound` is violated |
| `info_missing` | 2 good files, one removed | a finding: `LoadsEachFound` is violated |

The inductive invariants, and the type invariants of `VideoCache` and `Server`,
are in no run: section 4 proves them for every value of the constants. Each was
an invariant of the runs' instances before it was proved.

### Bounds

- Threads. Two threads race for a video, a slot or a mutex; a third one is
  there while two race (`cache_shared`, `cache_signed`), so that an address is
  reused while an older copy is still in use.
- Lists of the limiter: with three clients and lists of two every list
  overflows, in every order, and wraps. `MaxCounter` 2 lets a client be counted
  and banned with `MaxRequest` 1; `MaxClock` 2 lets a ban of `MaxTime` 1 end.
  `IntRange` is 16 where addresses are close to each other, 8 where they are
  not.
- Transfers: chunks of 2 bytes and i-frames of 0 to 3 bytes give i-frames
  without data, of one short chunk, of one full chunk and of several.
  `UshortRange` 8 is just above the number of i-frames, so an index that leaves
  the array shows, and the video with 7 i-frames makes the index wrap. `MaxTime` 3 and `MaxRenew` 2 bound the times and messages.
- Server: `MaxFailures` 1 reaches each failure, or a signal, at each place; two
  failures in one request are independent of each other, each ends the part it
  is in. `MaxStarts` 2 has one process work on the rows of another; the crashes
  are not counted. With two threads both may be unregistered, or one, and with two
  connections one client may be silent while the other is served.
- Requests: five tokens have room for a pair, a delimiter and a second key, and
  two pairs of up to three tokens for every value beside every other;
  `ParamMaxLen` 3 cuts values of two words to one, and `UshortRange` 20 is
  above all texts and below two of the contents, so that the lengths of
  `find_and_replace` wrap for these only. `MinLen` 4 is the shortest text with
  a command, a path, a space and a line end.
- Info file: two streams are the first and the last; the second run rewrites
  the file under a reader. `MaxChanges` is the number of video files that
  change, each any number of times. `UshortRange` 3 is above two of the contents
  and below the one with four i-frames. `AnyNumbers`, the numbers read of a torn
  text, is {2} in the run: a stream with two i-frames behind the end of some files
  and inside others. The proofs have any set of numbers.

`PartialSends` is FALSE in all runs. The sockets block, so that `send` takes
everything unless `SO_SNDTIMEO` ends in the middle, and then the code counts
the chunk as sent (section 5).

### Fairness and deadlock

- `VideoCache`: weak fairness of each thread's steps inside `load_video` and
  `unload_video`, that is of the scheduler, and of the return from `send_video`,
  which `TransferEnds` shows. Nothing makes a client ask for a video. The mutex
  is not fair; `CacheDrains` does not need it to be, since once requests stop
  every thread that loses a race sees the winner leave.
- `SendVideo`: weak fairness of the function. Every `send` returns, because the
  socket has a timeout. A client may send messages for ever, which `MaxRenew`
  excludes: `TransferEnds` is about clients that stop asking.
- `Server`: weak fairness of `init_conn` and of each thread, but for a thread that
  is in the `recv` of a request or in the `send` of a file (`Proceed`): these
  block without a timeout, and a client that is silent, or does not read, holds
  its thread for ever. `AllServed` therefore is about clients that are not
  silent, as long as silent ones do not hold every thread. A thread may be passed
  over at a mutex, but connections are finitely many. Nobody has to start a server
  that ended, and no signal has to arrive.
- Deadlock is checked for the cache. It is not in the other runs, where clients
  may stop arriving, the transfer ends, or the bound of the clock is reached.

## 4. Proofs

`VideoCacheProofs` proves, for any set of threads, addresses, ids, signs and
numbers of streams:

- `CacheInvariant`: `Spec => [](TypeOK /\ CacheInv)`,
- `NoUseAfterFree`: `Spec => []NoDangling`,
- `CountersExact`: `Spec => []RefCount`.

`NoDangling` is not inductive: that the counter of a video is right says
nothing unless a thread that has it also has a reference, that the vector
points to no video that is being torn down, and that only one thread works on
the vector. `CacheInv` is the conjunction of those parts: `LockInv` (the mutex
is owned exactly by the thread in a critical section), `HandleInv` (who has a
Video in hand has one that is allocated), `PrivateInv` (a Video under
construction or in removal belongs to one thread, and one under construction is
not in the vector), `VectorInv` (the pointers of the vector are distinct and
allocated), `StreamsInv` (every other Video has the streams it declares),
`RefCount` (the counter is the number of holders), `IdInv` (no id equals the
INT_MAX of the victim, so that sorting really moves it to the end). `TypeOK /\ CacheInv` is inductive; there
is one lemma per action that touches shared state (`CacheHitStep`,
`AddVideoStep`, `ReleaseVideoStep`, ...) and one for all that only move a
thread (`ControlSteps`). The proofs use the assumptions `ThreadsAssumption`
(finitely many threads, none of which is `NoThread`), `IdsAssumption` and
`SizesAssumption` (ids, numbers of streams and sizes are integers); that ids are
below INT_MAX follows from the filter of `check_supported_dir`. A failing `realloc` is included: the theorems do not need the vector to be
complete.

`ServerProofs` proves, for any number of threads, clients, failures, and ends and
starts of the process:

- `ServerInvariant`: `Spec => [](TypeOK /\ ServerInv)`,
- `StreamsBookedOnOwnRequest`: `Spec => []OwnRequest`, which has the condition
  that every row was inserted by a registered thread,
- `ConnectionsServedOnce`: `Spec => []ServedOnce`,
- `QueriesExclusive`: `Spec => []OneQuery`,
- `ClientsAnsweredOnce`: `Spec => AnsweredOnce`, an action property,
- `ServerImplementsService`: `Spec => ImplementsService`, the refinement.

`ServerInv` has three parts. `CoreInv` is inductive by itself: `ConnInv` says who
has a connection (`HoldInv`), that it is nobody else's (`OwnerInv`), and whether
its client was answered (`ReplyInv`), which depends on where its thread is;
`StartInv` says that a thread that was not created does nothing; `RowInv`
follows the row of a request through the critical sections: from the INSERT to
the SELECT it is the last of the rows that its thread wrote under its own id
(`LastRow`), because no other thread writes such rows, and after the SELECT
`stat_req_id` names it, or a row that another thread wrote before it was
registered (`OwnRow`). The mutex `stat_lock` is not needed for it, and indeed it
is no part of this invariant: what makes the SELECT safe is the child id. On
`CoreInv` rest `BookInv` (a client whose stream is booked was answered, and its
thread has only `close` left to do), which the refinement needs to know that no
stream is booked twice, and `LockInv` (a thread in a critical section owns its
mutex). The lemmas are laid out by action; `ConnMove`, `RowFrame` and
`UnlockStatStep` say once what a step of one thread leaves alone, and
`NextCases` sorts all steps by what they mean for the clients: `Quiet`, a reply,
or one of the five that change a connection or a row of `streams`. The proofs use
`ServerAssumption` only.

`CountersExact` in `ServerProofs`, `Spec => []CountersAddUp`, says that the
counters of the threads add up to the connections that this process accepted and
the accepts that failed. The sum over the threads is a function defined by
recursion over sets, out of reach of induction over data; `NatLemmas` shows that
there is such a function by the least cardinality at which there would be none
(`SumExists`, `SumIsSum`), and what is cited is that two sums differ by the one
term that changed (`SumOfChanged`). `CountInv` adds that only finitely
many connections were accepted, and that those of earlier processes are closed.

`VideoHandlesProofs` proves what the cache promises, on top of `CacheInvariant`:

- `RequestsAuthorised`: `Spec => []Authorised`, for any `Atoi` and signs of any
  length. `RequestInv` carries the number, the directory and the sign of a Video
  from the read of the info file to the end of the transfer.
- `VideoFrozen`: `Spec => FrozenWhilePlaying`, an action property.
- `VideosFindable`: `Spec => []Findable` if `~ReallocMayFail`. `OrderInv` says
  that the vector is sorted and holds every Video but the one being built. Where the
  shrinking `realloc` fails, the vector is lost, videos in memory are in it no
  more, and the property is false; the runs that check it have the flag FALSE,
  too.
- `OneCopyEach`: `Spec => []OneCopy` if `~SignedAuth` and `~ReallocMayFail`.
  `UniqueInv`: an id that was looked up and missed stays missed until its
  Video is added. With signs a Video of the same id and another sign is a miss.
- `CacheImplementsHandles`: `Spec => ImplementsHandles`, the refinement, without
  conditions. Each step is one of `VideoHandles` or a stutter; `HandlesInv` adds
  to the above that every Video in memory is known to a thread that has to
  unload it (`OwnedInv`), so that the last one to close it is the last one to
  know it.
- `MemoryCounted`: `Spec => []MemUsedExact` if `FilesIntact` and every info file
  lists a stream. `MemInv` is a sum modulo `MemMod` over the Videos that are
  counted, so the garbage in `size` cancels. The conditions exclude
  `NoStreamAvailable`, after which `mem_used` keeps the garbage.

`SendVideoProofs` proves for any videos, chunk length, header length and
messages:

- `IndexesInBounds`: `Spec => []InBounds`: after the first reply, the stream, the
  index of the i-frame and the data are inside the arrays, unless a stream has
  offsets out of order or 65535 i-frames. `SendAssumption` takes of a stream what
  lines 353 and 369 of `load_video` see to.
- `VideoReleased`: `Spec => []Released`.
- `TransferComplete` and `TransferContiguous`: `Spec => []Complete` and
  `Spec => Contiguous` if `~PartialSends`; both are about aligned videos. `SendInv`
  says that for these `OrderInv` holds, which has a part for each place
  of the function: the rest of the stream in one reply (`WholeInv`), the first
  part (`FirstInv`), between two i-frames (`LoopInv`) and in one (`ChunksInv`),
  and says in each which byte the client has and that the next part begins
  there. That the chunks of an i-frame tile it is `ChunkBounds` of `NatLemmas`;
  that a change of stream fits is what `Aligned` is needed for.

`SecurityProofs` proves for any clients, limits and lengths of the lists:

- `PositionsInBounds`: `Spec => []TypeOK`, for any addresses.
- `ListsInOrder`: the lists are sorted, with each client once, and only the
  owner of the mutex is in them (`LimiterInv`).
- `ClientsFound`, `BannedStaysOut`, `BansStay`: `Spec => []Searchable`,
  `Spec => BannedRefused` and `Spec => BanStays`.

The last four assume `AddressesNear`: no two addresses, nor one and that of a
free slot, are half the range of an `int` apart, so that `Compare` is an order.
Without it they are false, which is the finding of `security_comparator`. That the
binary search finds an element of a sorted list (`BsearchFinds`) is about a
recursive function of the interval: the proof gives that function in closed form
(the place of the client in the interval, if it has one), and shows that there is
no other, by the shortest interval on which two would differ.

`RequestProofs` proves for any texts, contents and lengths:

- `RequestInvariant`: `Spec => []IInv`, with `TextInv` (`recv` returned a
  beginning of the text) and `FileInv` (what `get_file_by_id` knows of the file
  after each system call).
- `PathsListed`, `QueriesParsed`, `ValuesShortAndClean`: `Spec => []TypeOK`,
  `[]ParsedAsWritten` and `[]ValuesClean`. `FirstFound` says what `strchr` and
  `strstr` return, `ValueCut` and `WrittenValue` what `parse_key_value` cuts out.
- `StillFilesWhole`, `VersionsNotMixed`, `AnswersFit`: `Spec => []WholeIfStill`,
  `[]OneVersion` and `[]AnswerFitsFiles`, with the conditions of these properties
  (texts whose parts an unsigned short can count). `ReplacedString` says what
  `find_and_replace` makes of a text, also where its unsigned shorts wrap.

`InfoFileProofs` proves for any numbers of files and of runs of the chopper, and
any contents:

- `InfoInvariant`: `Spec => []IInv`,
- `InfoTypes`, `OneStreamIsCut`, `WrittenIsRead`, `OffsetsWithinFile`,
  `CrashesExplained`: `Spec => []P` for `TypeOK`, `OnlyLastIsCut`, `RoundTrip`,
  `WithinFile` and `CrashExplained`; the three in the middle are about files that
  are not torn and streams whose i-frames an unsigned short can count,
- `ReaderProgresses`: `Spec => LoadProgress`, an action property.

`IInv` follows the text of a file that is not torn. `Lists` says that a text is a head and
entries of streams of a set, token by token: each token fits those before it, up
to the name that its entry begins with (`ListedAt`). This has two merits: it
stays true when the text is cut anywhere (which is what a stopped chopper, or a
read in between leave), and an added token disturbs nothing
before it (`NameAdded`, `TokenAdded`). `NotCut` and `Whole` say that the last
entry is complete, or all are. `WriteInv` says where the writer is, for each of
its writes, `EmptyInv` when the file may be empty, and `StillInv` what the
chopper's copy has to do with files that were not replaced. `LoadInv` says that a
copy is torn only if it was read so or a stream has too many i-frames, and has the
reader between two entries of any other copy (`ListLoaded`): it has loaded, in order, those before
that could be read, each `ReadAt` a name of the copy; since no name is inside an
entry (`NoNameInside`), the search for the next one finds the next entry. For
`RoundTrip` the number of streams in the head is compared with the number of
names (cardinalities). `InfoFileAssumption` takes the offsets of a stream not to
decrease and to lie inside it; `OffsetsWithinFile` rests on that.

The theorems say all that the passing runs say of safety, under the conditions
named above, which hold of the instances in the runs. Only model-checked are the
liveness properties (`LockReleased`, `CacheDrains`, `TransferEnds`, `AllServed`):
they rest on fairness, and so on ENABLED, which is out of reach of the prover.
The four findings are runs that must fail, and no theorems.

## 5. Where code and documents disagree

Four disagreements have a run of their own (`findings` in `PROJECT.json`): the
comparator of the limiter, the row of a thread that is not registered yet, the
hole that an undecodable file leaves in the chopper, and the missing video file
that takes the following streams with it.

Others were met while modelling. The models have the behaviour unless it says
otherwise:

- `stream.c:255,277,292`: videos are found by `atoi` of the name and read from the
  directory of the name (lines 228-229: "under a specific directory"). `100`,
  `0100` and `100x` pass `check_supported_dir`; whoever asks for one of them while
  another is cached gets the other one's video.
- `stream.c:265,298`: a sign line that is longer than 40 characters never matches
  on a load with a sign as long as itself, but does on a hit.
- `stream.c:316-384`: nothing sees to it that the streams of a video have the same
  number of i-frames, or at the same moments, and only the last offset is
  compared with the size. At a change between streams that are not aligned parts are
  lost or sent twice, and a switch to a shorter stream may end the loop (line 776)
  before the last byte. In a stream with zeros for offsets that were missing in a
  cut info file, line 780 gives a negative length (`undefined`).
- `stream.c:104,353`: the number of i-frames is an unsigned short, that of the
  chopper an `int` (`video.c:41`), where line 102 speaks of all the i-frame offsets
  in the file. From 65536 on it wraps, to 0 at first, and the next name
  is read as a number. With 65535, the index of `send_video` wraps (line 535) before
  it passes the number of i-frames.
- `video.c:144,175`: the array of a stream has room for four i-frames per second of
  its duration and is filled without a look at that.
- `file.c:60,89,96,102` (chopper): a `write` that is short cuts a number, and what
  the next one writes continues it: neither the offset nor 0.
- `stream.c:861`: the time that a client has in its buffer is counted in seconds and
  compared with a limit in nanoseconds, so that the stream is always lowered
  (`Adapt`). No line says what should be kept, and no property does.
- `request.c:229`: the `recv` of a request has no timeout. As many silent clients as
  there are threads leave all others in the queue for ever.
- `file.c:125-126`: "If there is no ad with the id provided, return the default
  one." Lines 149-156 return NULL for an unknown id, which the client gets as 404,
  and the default file only if there is no id. The model has that, and
  `WholeIfStill` and `AnswerFitsFiles` are about the path that was chosen.
- `stream.c:713`: if the first `send` of a whole stream fails, the timeout is
  computed with a division by zero bytes.
- `request.c:250`: the name of an empty request is looked up at index 99 of an
  array of 7.
- `conn.c:146-150`, `stat.c:141-208`: a thread that is not registered yet uses
  the error code of `get_child_pos` as its child id, which the unsigned column
  of `create_db.py:28` does not take; the SELECT for it finds no row, and
  `atoi(NULL)` ends the process. Where the value is clipped to 0, thread 0 may book
  its stream on that row (`server_early`), against `stat.c:117-118`.
- `request.c:150`: when the path ends with the type, `params_len` wraps (-1 in an
  unsigned short) and the headers are searched for parameters.
- `common.c:384`: a key is found anywhere in the text, so that the value of an
  earlier pair may hide it, and the value goes on over "=" (`valid_symbols`
  contains the delimiters), where line 355 speaks of alphanumeric values.
- `file.c:74-100`: the last of the six names, `sfMovie.js`, is not found: the
  length of the vector is 5.
- `file.c:149`: the parameter code used here is defined nowhere in the
  repository; the model takes it for the video id, the only id there is.
- `file.c:189,209`: a file that goes between `check_file_exists` and
  `get_file_contents`, or that the server's user may not open with `O_NOATIME`,
  gives NULL, and `strlen(NULL)` ends the process.
- `file.c:209`, `request.c:289`: the contents go through `strlen` twice, so that a
  player (`player.swf`) is sent up to its first NUL, where `common.c:71-73` and
  `reply.c:219` speak of binary data.
- `common.c:287`: `find_and_replace` counts in unsigned shorts; parts of a
  `data.xml` of 64 KB or more are lost.
- `security.c:177-180`: the counter of a client is never reset, so that a client
  that paces its requests is banned in the end; line 44 speaks of requests per
  second.
- `security.c:161`: every attempt prolongs a ban, line 47 calls `max_time` the
  maximum.
- `security.c:206-208`: the slot that is overwritten is a position in the list
  sorted by address, line 205 speaks of a list sorted by date.
- `stream.c:804-823`: a chunk of which a part was sent counts as sent. With
  `PartialSends` TRUE `Contiguous` is violated.
- `stream.c:822`: the sum of the bytes sent is an `int`; after 2 GB it is negative
  and `manage_request` appends a "not found" page to the video.
- `stream.c:734`: a position at one of the last i-frames, which lines 609-612
  allow, reads behind the array of offsets.
- `stream.c:886`: a quality message changes the position of the stream, not the
  stream, which changes when the adaptive step moves the next time.
- `stream.c:911`: a position message starts one i-frame early, because line 782
  sends the data before `next_iframe`.
- `stream.c:111`: streams are said to be ordered from higher to lower size; the
  comparator sorts them in ascending order, and `Adapt` relies on that.
- `stream.c:354`: a stream without i-frames stops the server (division by zero).
- `stream.c:945`: `close_videos` says it frees all memory, its loop ends after
  the last video (not modelled, nothing calls it).

## 6. Plan

In order; each part gets a module, or theorems in a module of its own.

1. `Server` composed with `VideoCache` and `Security`: the thread that serves a
   stream holds the Video between two steps of `manage_request`.
2. `Complete` and `Contiguous` with partial sends: what the client has when a
   chunk that was sent in part counts as sent.
3. `get_first_substr`, `get_last_substr` and `concat` as functions on short
   sequences.
4. `WF` of the abstract handles, to carry `CacheDrains` over the refinement.

## 7. Not modelled

Logging (no state other parts depend on), the values of the options other than
that of the statistics, `daemon_mode` and `dump_core`, the layout, date and
expiration of HTTP headers, the user agent (copied, never used), libavcodec (it
says of a file what it says), the loop of the chopper over directories and
`get_sign` (one directory is independent of another), `async_clean.c` (not
built), `src/util` but for the schema of the tables. `close_videos`,
`close_conn`, `close_stat`, `close_security` and `get_conn_served` are called by
nobody: `default_handler` ends the process without them. `default_handler`
calls `asprintf` and `printf`, which a signal handler must not do while the
thread it interrupts is in `malloc`; the model takes it to reach `kill`.
