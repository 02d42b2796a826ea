------------------------------- MODULE Server -------------------------------
(***************************************************************************)
(* The process of the server, its threads, and the way of a request        *)
(* through them: main() of src/server/ichoppedthatvideo.c and the handler  *)
(* of signal.c, init_conn() and child_main() of conn.c, manage_request()   *)
(* of request.c, new_request_stat() and new_stream_stat() of stat.c, with  *)
(* the database that outlives the process. check_client(), send_video()    *)
(* and what becomes of the text of a request are seen from here through    *)
(* their results; Security, VideoCache, SendVideo and Request model them.  *)
(***************************************************************************)
EXTENDS Integers, Sequences, FiniteSets, Functions

CONSTANTS
    NumChildren,        \* num_children
    Conns,              \* connections of clients
    NoConn,             \* the socket -1
    NoThread,           \* owner of a free mutex
    MaxFailures,        \* bound of the failures of accept(), start and database
    MaxStarts           \* bound: how often the server is started

ASSUME ServerAssumption ==
    /\ NumChildren \in Nat \ {0}
    /\ NoConn \notin Conns
    /\ NoThread \notin Nat
    /\ {MaxFailures, MaxStarts} \subseteq Nat

Children == 0 .. NumChildren - 1

VARIABLES
    stats_enabled,      \* set at start-up, or not
    main,               \* where main() is; "down" when there is no process
    child_num,
    conn_lock,
    stat_lock,
    pc,                 \* where each thread is
    client_sd,          \* its connection
    type,               \* its request, as parse_request() finds it
    child_id,           \* what get_child_pos() returned to it
    stat_req_id,
    conn_count,         \* children[].conn_count
    conns,              \* "new", "queued", "accepted", "closed", or "reset"
    replies,            \* what each client was answered
    requests,           \* table of the database; the id is the position
    streams,            \* table of the database
    failures,
    starts,
    failed_accepts,     \* history of this process: failures of accept()
    earlier             \* history: connections that earlier processes closed

threads == <<pc, client_sd, type, child_id, stat_req_id>>
locks == <<conn_lock, stat_lock>>
database == <<requests, streams>>
network == <<conns, replies, conn_count, failed_accepts>>
process == <<stats_enabled, starts, earlier>>
vars == <<process, main, child_num, locks, threads, database, network, failures>>

ECOD_CHILDNOTFOUND == -77
ECOD_INSERT == -86
ECOD_SELECT == -87

Init ==
    /\ stats_enabled = FALSE
    /\ main = "down"
    /\ child_num = 0
    /\ conn_lock = NoThread
    /\ stat_lock = NoThread
    /\ pc = [t \in Children |-> "none"]
    /\ client_sd = [t \in Children |-> NoConn]
    /\ type = [t \in Children |-> "none"]
    /\ child_id = [t \in Children |-> ECOD_CHILDNOTFOUND]
    /\ stat_req_id = [t \in Children |-> 0]
    /\ conn_count = [t \in Children |-> 0]
    /\ conns = [c \in Conns |-> "new"]
    /\ replies = [c \in Conns |-> "none"]
    /\ requests = <<>>
    /\ streams = {}
    /\ failures = 0
    /\ starts = 0
    /\ failed_accepts = 0
    /\ earlier = {}

Goto(t, label) == pc' = [pc EXCEPT ![t] = label]

MayFail == failures < MaxFailures /\ failures' = failures + 1

-----------------------------------------------------------------------------
(* The process, the main thread and the clients.                           *)

\* The login is read, and the database connected, if statistics are asked for.
init_stat(gather_stats) == stats_enabled' = gather_stats

\* main() has looked at its options, gone to the background, and initialised
\* every module; init_conn() listens.
Start ==
    /\ main = "down"
    /\ starts < MaxStarts
    /\ starts' = starts + 1
    /\ main' = "create"
    /\ \E gather_stats \in BOOLEAN : init_stat(gather_stats)
    /\ UNCHANGED <<child_num, locks, threads, database, network, failures, earlier>>

\* One of the modules cannot be initialised, or the socket: main() returns.
StartFails ==
    /\ main = "down"
    /\ starts < MaxStarts
    /\ starts' = starts + 1
    /\ MayFail
    /\ UNCHANGED <<stats_enabled, earlier, main, child_num, locks, threads, database, network>>

\* With the process its threads and its memory go, and the system resets the
\* connections, those too that wait to be accepted.
EndProcess ==
    /\ main' = "down"
    /\ child_num' = 0
    /\ conn_lock' = NoThread
    /\ stat_lock' = NoThread
    /\ pc' = [t \in Children |-> "none"]
    /\ client_sd' = [t \in Children |-> NoConn]
    /\ type' = [t \in Children |-> "none"]
    /\ child_id' = [t \in Children |-> ECOD_CHILDNOTFOUND]
    /\ stat_req_id' = [t \in Children |-> 0]
    /\ conn_count' = [t \in Children |-> 0]
    /\ conns' = [c \in Conns |-> IF conns[c] \in {"queued", "accepted"} THEN "reset" ELSE conns[c]]
    /\ failed_accepts' = 0
    /\ earlier' = { c \in Conns : conns[c] = "closed" }
    /\ stats_enabled' = FALSE
    /\ UNCHANGED <<replies, database, starts>>

\* default_handler(), at any moment: nothing is finished or closed in order.
Signal ==
    /\ main # "down"
    /\ EndProcess
    /\ MayFail

\* The thread may run before the main thread counts it.
create_child ==
    /\ main = "create"
    /\ Goto(child_num, "accept")
    /\ main' = "register"
    /\ UNCHANGED <<child_num, locks, client_sd, type, child_id, stat_req_id,
                   database, network, failures>>

\* init_conn() returns an error, and main() ends the process.
CreateFails ==
    /\ main = "create"
    /\ MayFail
    /\ EndProcess

atomic_add_child ==
    /\ main = "register"
    /\ child_num' = child_num + 1
    /\ main' = IF child_num' < NumChildren THEN "create" ELSE "running"
    /\ UNCHANGED <<locks, threads, database, network, failures>>

\* The socket listens before the first thread is created.
Connect(c) ==
    /\ conns[c] = "new"
    /\ main # "down"
    /\ conns' = [conns EXCEPT ![c] = "queued"]
    /\ UNCHANGED <<main, child_num, locks, threads, database, replies, conn_count,
                   failed_accepts, failures>>

-----------------------------------------------------------------------------
(* child_main()                                                            *)

LockConn(t) ==
    /\ pc[t] = "accept"
    /\ conn_lock = NoThread
    /\ conn_lock' = t
    /\ Goto(t, "accepting")
    /\ UNCHANGED <<main, child_num, stat_lock, client_sd, type, child_id, stat_req_id,
                   database, network, failures>>

\* Defect: the mutex is kept.
AcceptLocked(t) ==
    /\ pc[t] = "accepting"
    /\ \E c \in Conns :
        /\ conns[c] = "queued"
        /\ conns' = [conns EXCEPT ![c] = "accepted"]
        /\ client_sd' = [client_sd EXCEPT ![t] = c]
    /\ conn_count' = [conn_count EXCEPT ![t] = @ + 1]
    /\ Goto(t, "check")
    /\ UNCHANGED <<main, child_num, locks, type, child_id, stat_req_id, database,
                   replies, failed_accepts, failures>>

Accept(t) ==
    /\ pc[t] = "accepting"
    /\ \E c \in Conns :
        /\ conns[c] = "queued"
        /\ conns' = [conns EXCEPT ![c] = "accepted"]
        /\ client_sd' = [client_sd EXCEPT ![t] = c]
    /\ conn_lock' = NoThread
    /\ conn_count' = [conn_count EXCEPT ![t] = @ + 1]
    /\ Goto(t, "check")
    /\ UNCHANGED <<main, child_num, stat_lock, type, child_id, stat_req_id, database,
                   replies, failed_accepts, failures>>

\* accept() fails: nobody looks at the result, the request of socket -1 is managed.
AcceptFails(t) ==
    /\ pc[t] = "accepting"
    /\ MayFail
    /\ failed_accepts' = failed_accepts + 1
    /\ client_sd' = [client_sd EXCEPT ![t] = NoConn]
    /\ conn_lock' = NoThread
    /\ conn_count' = [conn_count EXCEPT ![t] = @ + 1]
    /\ Goto(t, "check")
    /\ UNCHANGED <<main, child_num, stat_lock, type, child_id, stat_req_id, database,
                   conns, replies>>

\* The local variables of manage_request() and of what it called.
ForgetRequest(t) ==
    /\ client_sd' = [client_sd EXCEPT ![t] = NoConn]
    /\ type' = [type EXCEPT ![t] = "none"]
    /\ child_id' = [child_id EXCEPT ![t] = ECOD_CHILDNOTFOUND]
    /\ stat_req_id' = [stat_req_id EXCEPT ![t] = 0]

\* Defect: a request is counted when its connection is closed, too.
CloseCounted(t) ==
    /\ pc[t] = "close"
    /\ conns' = IF client_sd[t] = NoConn THEN conns
                ELSE [conns EXCEPT ![client_sd[t]] = "closed"]
    /\ ForgetRequest(t)
    /\ conn_count' = [conn_count EXCEPT ![t] = @ + 1]
    /\ Goto(t, "accept")
    /\ UNCHANGED <<main, child_num, locks, database, replies, failed_accepts, failures>>

Close(t) ==
    /\ pc[t] = "close"
    /\ conns' = IF client_sd[t] = NoConn THEN conns
                ELSE [conns EXCEPT ![client_sd[t]] = "closed"]
    /\ ForgetRequest(t)
    /\ Goto(t, "accept")
    /\ UNCHANGED <<main, child_num, locks, database, replies, conn_count, failed_accepts,
                   failures>>

-----------------------------------------------------------------------------
(* manage_request()                                                        *)

\* The client is answered, and the function returns or goes on.
Reply(t, answer, label) ==
    /\ replies' = IF client_sd[t] = NoConn THEN replies
                  ELSE [replies EXCEPT ![client_sd[t]] = answer]
    /\ Goto(t, label)
    /\ UNCHANGED <<main, child_num, locks, client_sd, type, child_id, stat_req_id,
                   database, conns, conn_count, failed_accepts, failures>>

\* Defect: a refused client is served after its refusal.
RefuseOnly(t) == pc[t] = "check" /\ Reply(t, "unavailable", "parse")

Refuse(t) == pc[t] = "check" /\ Reply(t, "unavailable", "close")

Admit(t) ==
    /\ pc[t] = "check"
    /\ Goto(t, "parse")
    /\ UNCHANGED <<main, child_num, locks, client_sd, type, child_id, stat_req_id,
                   database, network, failures>>

\* Defect: the client is not answered.
ParseFailsSilent(t) ==
    /\ pc[t] = "parse"
    /\ Goto(t, "close")
    /\ UNCHANGED <<main, child_num, locks, client_sd, type, child_id, stat_req_id,
                   database, network, failures>>

\* A malformed or unknown request. The result of recv() is kept in an unsigned
\* short, so that an error is taken for a long request, of zeros.
ParseFails(t) == pc[t] = "parse" /\ Reply(t, "not found", "close")

parse_request(t) ==
    /\ pc[t] = "parse"
    /\ client_sd[t] # NoConn
    /\ \E found \in {"stream", "empty", "file"} : type' = [type EXCEPT ![t] = found]
    /\ Goto(t, "request_stat")
    /\ UNCHANGED <<main, child_num, locks, client_sd, child_id, stat_req_id,
                   database, network, failures>>

\* send_video() comes to its end; the bytes sent go into the statistics.
SendVideo(t) ==
    /\ pc[t] = "serve" /\ type[t] = "stream"
    /\ Reply(t, "stream", IF stat_req_id[t] >= 0 THEN "stream_stat" ELSE "close")

\* A transfer of INT_MAX bytes or more: total_bytes_sent overflows, and
\* send_video() returns a negative number after the video was sent.
SendLongVideo(t) ==
    /\ pc[t] = "serve" /\ type[t] = "stream"
    /\ Reply(t, "long stream", "lost")

\* send_video() finds no video or seems not to, or get_file_by_id() no file.
NotFound(t) ==
    /\ \/ pc[t] = "lost"
       \/ pc[t] = "serve" /\ type[t] # "empty"
    /\ Reply(t, "not found", "close")

SendOk(t) == pc[t] = "serve" /\ type[t] = "empty" /\ Reply(t, "ok", "close")

SendFile(t) == pc[t] = "serve" /\ type[t] = "file" /\ Reply(t, "file", "close")

manage_request(t) ==
    \/ Refuse(t) \/ Admit(t)
    \/ ParseFails(t) \/ parse_request(t)
    \/ SendVideo(t) \/ SendLongVideo(t) \/ NotFound(t) \/ SendOk(t) \/ SendFile(t)

-----------------------------------------------------------------------------
(* new_request_stat() and new_stream_stat()                                *)

get_child_pos(t) == IF t < child_num THEN t ELSE ECOD_CHILDNOTFOUND

ComposeInsert(t) ==
    /\ pc[t] = "request_stat" /\ stats_enabled
    /\ child_id' = [child_id EXCEPT ![t] = get_child_pos(t)]
    /\ Goto(t, "insert")
    /\ UNCHANGED <<main, child_num, locks, client_sd, type, stat_req_id, database,
                   network, failures>>

\* The query has the name of the request type in it: the name of an empty
\* request is read beyond the end of request_names. If what is found there is
\* no string, the process ends.
ComposeCrashes(t) ==
    /\ pc[t] = "request_stat" /\ stats_enabled
    /\ type[t] = "empty"
    /\ EndProcess
    /\ UNCHANGED failures

NoStats(t) ==
    /\ pc[t] \in {"request_stat", "stream_stat"} /\ ~stats_enabled
    /\ stat_req_id' = [stat_req_id EXCEPT ![t] = 0]
    /\ Goto(t, IF pc[t] = "request_stat" THEN "serve" ELSE "close")
    /\ UNCHANGED <<main, child_num, locks, client_sd, type, child_id, database,
                   network, failures>>

\* Defect: the mutex is not waited for.
LockStatBusy(t) ==
    /\ \/ pc[t] = "insert" /\ Goto(t, "inserting")
       \/ pc[t] = "select" /\ Goto(t, "selecting")
       \/ pc[t] = "stream_stat" /\ stats_enabled /\ Goto(t, "streaming")
    /\ stat_lock' = t
    /\ UNCHANGED <<main, child_num, conn_lock, client_sd, type, child_id, stat_req_id,
                   database, network, failures>>

LockStat(t) ==
    /\ \/ pc[t] = "insert" /\ Goto(t, "inserting")
       \/ pc[t] = "select" /\ Goto(t, "selecting")
       \/ pc[t] = "stream_stat" /\ stats_enabled /\ Goto(t, "streaming")
    /\ stat_lock = NoThread
    /\ stat_lock' = t
    /\ UNCHANGED <<main, child_num, conn_lock, client_sd, type, child_id, stat_req_id,
                   database, network, failures>>

UnlockStat(t, label) ==
    /\ stat_lock' = NoThread
    /\ Goto(t, label)
    /\ UNCHANGED <<main, child_num, conn_lock, client_sd, type, child_id, network>>

\* The column is unsigned: the id of a child that was not found is clipped.
Column(id) == IF id < 0 THEN 0 ELSE id

\* `by' is history: the thread that inserts the row.
InsertRequest(t) ==
    /\ pc[t] = "inserting"
    /\ requests' = Append(requests, [child_id |-> Column(child_id[t]), conn |-> client_sd[t],
                                     by |-> t])
    /\ UnlockStat(t, "select")
    /\ UNCHANGED <<stat_req_id, streams, failures>>

\* Defect: the id is looked up although the row was not inserted.
InsertFailsOn(t) ==
    /\ pc[t] = "inserting"
    /\ MayFail
    /\ UnlockStat(t, "select")
    /\ UNCHANGED <<stat_req_id, database>>

InsertFails(t) ==
    /\ pc[t] = "inserting"
    /\ MayFail
    /\ stat_req_id' = [stat_req_id EXCEPT ![t] = ECOD_INSERT]
    /\ UnlockStat(t, "serve")
    /\ UNCHANGED database

RowsOf(id) == { n \in DOMAIN requests : requests[n].child_id = id }

\* SELECT MAX(id): the last row of this child.
SelectMax(t) ==
    /\ pc[t] = "selecting"
    /\ \E n \in RowsOf(child_id[t]) :
        /\ \A m \in RowsOf(child_id[t]) : m <= n
        /\ stat_req_id' = [stat_req_id EXCEPT ![t] = n]
    /\ UnlockStat(t, "serve")
    /\ UNCHANGED <<database, failures>>

\* The maximum of no rows is NULL, and atoi() of it ends the process.
SelectCrashes(t) ==
    /\ pc[t] = "selecting"
    /\ RowsOf(child_id[t]) = {}
    /\ EndProcess
    /\ UNCHANGED failures

SelectFails(t) ==
    /\ pc[t] = "selecting"
    /\ MayFail
    /\ stat_req_id' = [stat_req_id EXCEPT ![t] = ECOD_SELECT]
    /\ UnlockStat(t, "serve")
    /\ UNCHANGED database

InsertStream(t) ==
    /\ pc[t] = "streaming"
    /\ \/ /\ streams' = streams \cup {[request_id |-> stat_req_id[t], conn |-> client_sd[t]]}
          /\ UNCHANGED failures
       \/ MayFail /\ UNCHANGED streams
    /\ UnlockStat(t, "close")
    /\ UNCHANGED <<stat_req_id, requests>>

new_stat(t) ==
    \/ ComposeInsert(t) \/ NoStats(t)
    \/ LockStat(t)
    \/ InsertRequest(t) \/ InsertFails(t)
    \/ SelectMax(t) \/ SelectFails(t)
    \/ InsertStream(t)

-----------------------------------------------------------------------------
child_main(t) ==
    \/ LockConn(t) \/ Accept(t) \/ AcceptFails(t)
    \/ manage_request(t)
    \/ new_stat(t)
    \/ Close(t)

init_conn == create_child \/ atomic_add_child

Crash(t) == ComposeCrashes(t) \/ SelectCrashes(t)

Next ==
    \/ Start \/ StartFails \/ Signal
    \/ init_conn /\ UNCHANGED process
    \/ CreateFails
    \/ \E c \in Conns : Connect(c) /\ UNCHANGED process
    \/ \E t \in Children : child_main(t) /\ UNCHANGED process
    \/ \E t \in Children : Crash(t)

Spec == Init /\ [][Next]_vars

\* A thread that depends on its client, for any length of time: recv() of a request
\* and send() of a file block, and only send_video() sets a timeout.
Held(t) ==
    /\ client_sd[t] # NoConn
    /\ pc[t] = "parse" \/ (pc[t] = "serve" /\ type[t] = "file")

Proceed(t) == ~Held(t) /\ ((child_main(t) /\ UNCHANGED process) \/ Crash(t))

\* Every thread that can go on by itself does. A thread may be passed over at a
\* mutex, but not for ever, as connections are finitely many. No client has to
\* send its request or to read a file, and nobody to start a server that ended.
FairSpec ==
    /\ Spec
    /\ WF_vars(init_conn /\ UNCHANGED process)
    /\ \A t \in Children : WF_vars(Proceed(t))

-----------------------------------------------------------------------------
(* Properties.                                                             *)

Labels == {"none", "accept", "accepting", "check", "parse", "request_stat", "insert",
           "inserting", "select", "selecting", "serve", "lost", "stream_stat",
           "streaming", "close"}

Querying == {"inserting", "selecting", "streaming"}

Answers == {"unavailable", "not found", "stream", "long stream", "ok", "file"}

\* The mutexes have one owner, and the rows of the tables belong to connections.
TypeOK ==
    /\ stats_enabled \in BOOLEAN
    /\ main \in {"down", "create", "register", "running"}
    /\ child_num \in 0 .. NumChildren
    /\ conn_lock \in Children \cup {NoThread}
    /\ stat_lock \in Children \cup {NoThread}
    /\ pc \in [Children -> Labels]
    /\ client_sd \in [Children -> Conns \cup {NoConn}]
    /\ type \in [Children -> {"none", "stream", "empty", "file"}]
    /\ child_id \in [Children -> Children \cup {ECOD_CHILDNOTFOUND}]
    /\ stat_req_id \in [Children -> Nat \cup {ECOD_INSERT, ECOD_SELECT}]
    /\ conn_count \in [Children -> Nat]
    /\ conns \in [Conns -> {"new", "queued", "accepted", "closed", "reset"}]
    /\ replies \in [Conns -> Answers \cup {"none"}]
    /\ requests \in Seq([child_id : Children, conn : Conns, by : Children])
    /\ streams \subseteq [request_id : Nat, conn : Conns]

RefersToOwn(s) ==
    /\ s.request_id \in DOMAIN requests
    /\ requests[s.request_id].conn = s.conn

\* As long as every row was inserted by a registered thread, a row about a stream
\* refers to the row of the request that asked for it, although the id is looked
\* up in a critical section of its own, and the server may end and be started
\* again in between.
OwnRequest ==
    (\A n \in DOMAIN requests : requests[n].by = requests[n].child_id)
        => \A s \in streams : RefersToOwn(s)

\* stat.c says that new_request_stat() returns the id of the row it has just
\* generated. It does not if a thread that is not registered yet inserts its row
\* between the INSERT and the SELECT of thread 0.
NewlyGenerated == \A s \in streams : RefersToOwn(s)

\* No connection is served by two threads, and none is closed before its client
\* was answered, on any return of manage_request().
ServedOnce ==
    /\ \A t, u \in Children : client_sd[t] = client_sd[u] /\ client_sd[t] # NoConn => t = u
    /\ \A c \in Conns : conns[c] = "closed" => replies[c] # "none"

\* The first answer a client gets is the only one: no return of
\* manage_request() is followed by a second reply, except that "not found" is
\* added to a video whose length overflowed total_bytes_sent.
AnsweredOnce ==
    [][ \A c \in Conns : replies[c] # "none" =>
            \/ replies'[c] = replies[c]
            \/ replies[c] = "long stream" /\ replies'[c] = "not found" ]_vars

\* What get_conn_served() reports adds up to the returns of accept().
CountersAddUp ==
    SumFunction(conn_count) =
        failed_accepts
            + Cardinality({ c \in Conns : conns[c] \in {"accepted", "closed"} } \ earlier)

\* The connection to the database is used by one thread at a time, and one
\* thread at a time waits for a client.
OneQuery ==
    \A t, u \in Children :
        \/ {pc[t], pc[u]} \subseteq Querying
        \/ {pc[t], pc[u]} \subseteq {"accepting"}
        => t = u

\* Every client that connects is served, whatever fails on the way, unless the
\* process ends, the client itself is silent, or every thread is held by a client
\* for ever.
AllServed ==
    \A c \in Conns :
        \/ conns[c] = "queued" ~> conns[c] \in {"closed", "reset"}
        \/ <>[](\E t \in Children : client_sd[t] = c /\ Held(t))
        \/ <>[](\A t \in Children : Held(t))

\* The server keeps what Service promises.
ClientState(c) ==
    CASE conns[c] = "new" -> "new"
      [] conns[c] = "queued" -> "connected"
      [] conns[c] = "accepted" -> IF replies[c] = "none" THEN "connected" ELSE "answered"
      [] conns[c] = "closed" -> "closed"
      [] conns[c] = "reset" -> "lost"

Promise == INSTANCE Service WITH
    client <- [c \in Conns |-> ClientState(c)],
    booked <- { s.conn : s \in streams }

ImplementsService == Promise!Spec

-----------------------------------------------------------------------------
(* The inductive invariant behind OwnRequest, ServedOnce and AnsweredOnce. *)

\* A request was read, and its client is there.
Identified == {"request_stat", "insert", "inserting", "select", "selecting", "serve",
               "lost", "stream_stat", "streaming"}
Unanswered == {"check", "parse", "request_stat", "insert", "inserting", "select",
               "selecting", "serve"}
Answered == {"lost", "stream_stat", "streaming", "close"}

Serves(t, c) == client_sd[t] = c /\ c # NoConn

\* A thread has a connection from accept() to close().
HoldInv == \A t \in Children :
    /\ pc[t] \in {"none", "accept", "accepting"} => client_sd[t] = NoConn
    /\ pc[t] \in Identified => client_sd[t] # NoConn

\* A connection belongs to the one thread that accepted it.
OwnerInv ==
    /\ \A t \in Children, c \in Conns : Serves(t, c) => conns[c] = "accepted"
    /\ \A t, u \in Children, c \in Conns : Serves(t, c) /\ Serves(u, c) => t = u

\* A client is answered once, in the middle of its request.
ReplyInv ==
    /\ \A c \in Conns : conns[c] \in {"new", "queued"} => replies[c] = "none"
    /\ \A c \in Conns : conns[c] = "closed" => replies[c] # "none"
    /\ \A t \in Children, c \in Conns : Serves(t, c) =>
        /\ pc[t] \in Unanswered => replies[c] = "none"
        /\ pc[t] \in Answered => replies[c] # "none"
        /\ pc[t] = "lost" => replies[c] = "long stream"

ConnInv == HoldInv /\ OwnerInv /\ ReplyInv

\* A thread that was not created does nothing.
StartInv ==
    /\ main \in {"down", "create", "register"} => child_num < NumChildren
    /\ \A t \in Children :
        \/ main = "down"
        \/ main = "create" /\ t >= child_num
        \/ main = "register" /\ t > child_num
        => pc[t] = "none"

\* Of the rows that a child wrote under its own id the last one is that of the
\* request it works on, from the INSERT to the SELECT.
LastRow(t, n) ==
    /\ n \in DOMAIN requests
    /\ requests[n].child_id = t /\ requests[n].by = t
    /\ requests[n].conn = client_sd[t]
    /\ \A m \in DOMAIN requests : requests[m].child_id = t /\ requests[m].by = t => m <= n

\* The id names that row, or one that a thread wrote before it was registered.
OwnRow(t, n) ==
    /\ n \in DOMAIN requests
    /\ requests[n].conn = client_sd[t] \/ requests[n].by # requests[n].child_id

RowOf(t) ==
    /\ child_id[t] \in {t, ECOD_CHILDNOTFOUND}
    /\ pc[t] \in {"insert", "inserting", "select", "selecting", "streaming"} => stats_enabled
    /\ pc[t] \in {"select", "selecting"} /\ child_id[t] = t
           => \E n \in DOMAIN requests : LastRow(t, n)
    /\ pc[t] \in {"stream_stat", "streaming"} => stat_req_id[t] >= 0
    /\ pc[t] \in {"serve", "stream_stat", "streaming"} /\ stats_enabled /\ stat_req_id[t] >= 0
           => OwnRow(t, stat_req_id[t])

RowInv == \A t \in Children : RowOf(t)

\* What was booked refers to such a row, too.
BookedRowInv ==
    \A s \in streams :
        /\ s.request_id \in DOMAIN requests
        /\ LET row == requests[s.request_id] IN row.conn = s.conn \/ row.by # row.child_id

\* What every step keeps true by itself.
CoreInv == ConnInv /\ StartInv /\ RowInv /\ BookedRowInv

\* A client whose stream is booked was answered, and only close() is left to do.
BookInv ==
    /\ \A s \in streams : replies[s.conn] # "none"
    /\ \A t \in Children, s \in streams : Serves(t, s.conn) => pc[t] = "close"

\* A thread in a critical section owns its mutex.
LockInv ==
    \A t \in Children :
        /\ pc[t] = "accepting" => conn_lock = t
        /\ pc[t] \in Querying => stat_lock = t

ServerInv == CoreInv /\ BookInv /\ LockInv

\* The connections that this process accepted; only finitely many are.
Accepted == { c \in Conns : conns[c] \in {"accepted", "closed"} } \ earlier

CountInv ==
    /\ earlier \subseteq { c \in Conns : conns[c] = "closed" }
    /\ failed_accepts \in Nat
    /\ IsFiniteSet(Accepted)
    /\ CountersAddUp
=============================================================================
