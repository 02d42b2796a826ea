------------------------------- MODULE Security -------------------------------
(***************************************************************************)
(* The request limiter of the server (src/server/security.c): two vectors  *)
(* of entries, sorted by address, that all the child threads share under   *)
(* `sec_lock'. check_client() looks for the client in `blacklist' and then *)
(* in `backlog', and puts it on the blacklist when it asks too often. Both *)
(* vectors have a fixed length: a new entry overwrites the slot after the  *)
(* last one written, and the vector is sorted again.                       *)
(***************************************************************************)
EXTENDS Integers, Sequences, FiniteSets, Functions

CONSTANTS
    Threads,        \* child threads (conn.c), the callers of check_client()
    NoThread,       \* owner of a free mutex
    Clients,        \* addresses, as getpeername() gives them
    IntRange,       \* stands for 2^32, the values of the int of a comparator
    BacklogLen,
    BlacklistLen,
    MaxRequest,     \* max_request: requests per second
    MaxTime,        \* max_time: length of a ban
    Second,         \* NANOSEC_IN_SEC in the unit of the clock
    Gaps,           \* what the clock may advance between two arrivals
    MaxClock,       \* bound of the clock
    MaxCounter      \* bound of the counters: a client that reached it stays away

ASSUME SecurityAssumption ==
    /\ NoThread \notin Threads
    /\ Clients \subseteq Nat
    /\ {IntRange, BacklogLen, BlacklistLen, Second} \subseteq Nat \ {0}
    /\ {MaxRequest, MaxTime, MaxClock, MaxCounter} \subseteq Nat
    /\ Gaps \subseteq Nat

VARIABLES
    sec_lock,       \* the thread that owns the mutex
    backlog,        \* clients seen
    backlog_last,
    blacklist,      \* clients banned
    blacklist_last,
    clock,          \* get_time()
    pc,
    tmp_entry,      \* the entry each thread fills in before it locks
    verdict         \* what check_client() returned to each thread

vars == <<sec_lock, backlog, backlog_last, blacklist, blacklist_last,
          clock, pc, tmp_entry, verdict>>

\* ULONG_MAX, the address of a free slot. Only its difference to other
\* addresses matters, and there it is -1.
NoAddress == -1

Entry(ip, counter, timestamp) == [ip_num |-> ip, counter |-> counter, timestamp |-> timestamp]

Init ==
    /\ sec_lock = NoThread
    /\ backlog = [i \in 1 .. BacklogLen |-> Entry(NoAddress, 0, 0)]
    /\ backlog_last = 0
    /\ blacklist = [i \in 1 .. BlacklistLen |-> Entry(NoAddress, 0, 0)]
    /\ blacklist_last = 0
    /\ clock = 0
    /\ pc = [t \in Threads |-> "idle"]
    /\ tmp_entry = [t \in Threads |-> Entry(NoAddress, 0, 0)]
    /\ verdict = [t \in Threads |-> "none"]

-----------------------------------------------------------------------------
(* Sorting and searching.                                                  *)

\* compare_entry_ip(): the difference of two unsigned longs, cut to an int.
Compare(a, b) ==
    LET d == (a - b) % IntRange
    IN  IF 2 * d >= IntRange THEN d - IntRange ELSE d

\* Defect: the vector is not sorted again.
QsortSkipped(s) == {s}

\* qsort() of the C library merges sorted runs, so that the comparator, even
\* one that is not an order, never finds neighbours the wrong way round.
Qsort(s) ==
    { r \in { [k \in DOMAIN s |-> s[p[k]]] : p \in Bijection(DOMAIN s, DOMAIN s) } :
        \A k \in 1 .. Len(r) - 1 : Compare(r[k].ip_num, r[k + 1].ip_num) <= 0 }

\* bsearch() of the C library: the position of a match, 0 for NULL.
Bsearch(ip, s) ==
    LET find[r \in (1 .. Len(s) + 1) \X (1 .. Len(s) + 1)] ==
            LET l == r[1]
                u == r[2]
                m == (l + u) \div 2
                c == Compare(ip, s[m].ip_num)
            IN  IF l >= u THEN 0
                ELSE IF c = 0 THEN m
                ELSE IF c < 0 THEN find[<<l, m>>] ELSE find[<<m + 1, u>>]
    IN  find[<<1, Len(s) + 1>>]

\* Put an entry into the slot after the one written last (counted from 0).
Overwrite(s, last, entry) == [s EXCEPT ![((last + 1) % Len(s)) + 1] = entry]

-----------------------------------------------------------------------------
(* check_client()                                                          *)

\* A client connects; the time is taken before the mutex is.
Arrive(t) ==
    /\ pc[t] = "idle"
    /\ \E ip \in Clients, gap \in Gaps :
        /\ clock + gap <= MaxClock
        /\ \A s \in {backlog, blacklist} : \A k \in DOMAIN s :
               s[k].ip_num = ip => s[k].counter < MaxCounter
        /\ clock' = clock + gap
        /\ tmp_entry' = [tmp_entry EXCEPT ![t] = Entry(ip, 1, clock + gap)]
    /\ pc' = [pc EXCEPT ![t] = "arrived"]
    /\ verdict' = [verdict EXCEPT ![t] = "none"]
    /\ UNCHANGED <<sec_lock, backlog, backlog_last, blacklist, blacklist_last>>

Lock(t) ==
    /\ pc[t] = "arrived"
    /\ sec_lock = NoThread
    /\ sec_lock' = t
    /\ pc' = [pc EXCEPT ![t] = "blacklist"]
    /\ UNCHANGED <<backlog, backlog_last, blacklist, blacklist_last, clock, tmp_entry, verdict>>

Return(t, code) ==
    /\ sec_lock' = NoThread
    /\ pc' = [pc EXCEPT ![t] = "idle"]
    /\ verdict' = [verdict EXCEPT ![t] = code]
    /\ UNCHANGED <<clock, tmp_entry>>

\* Defect: the ban is taken for over one tick early.
ExpiredEarly(entry) == clock - entry.timestamp >= MaxTime

Expired(entry) == clock - entry.timestamp > MaxTime

\* The client is banned, and the attempt prolongs the ban.
RefuseClient(t) ==
    LET k == Bsearch(tmp_entry[t].ip_num, blacklist) IN
    /\ pc[t] = "blacklist"
    /\ k # 0 /\ ~Expired(blacklist[k])
    /\ blacklist' = [blacklist EXCEPT ![k].counter = @ + 1, ![k].timestamp = clock]
    /\ Return(t, "blacklisted")
    /\ UNCHANGED <<backlog, backlog_last, blacklist_last>>

\* Defect: the first slot becomes free, not the one found.
ForgetBanFirst(t) ==
    LET k == Bsearch(tmp_entry[t].ip_num, blacklist) IN
    /\ pc[t] = "blacklist"
    /\ k # 0 /\ Expired(blacklist[k])
    /\ blacklist' \in Qsort([blacklist EXCEPT ![1] = Entry(NoAddress, 0, -1)])
    /\ pc' = [pc EXCEPT ![t] = "backlog"]
    /\ UNCHANGED <<sec_lock, backlog, backlog_last, blacklist_last, clock, tmp_entry, verdict>>

\* The ban is over: its slot becomes free. The timestamp is ULONG_MAX in an
\* int64_t.
ForgetBan(t) ==
    LET k == Bsearch(tmp_entry[t].ip_num, blacklist) IN
    /\ pc[t] = "blacklist"
    /\ k # 0 /\ Expired(blacklist[k])
    /\ blacklist' \in Qsort([blacklist EXCEPT ![k] = Entry(NoAddress, 0, -1)])
    /\ pc' = [pc EXCEPT ![t] = "backlog"]
    /\ UNCHANGED <<sec_lock, backlog, backlog_last, blacklist_last, clock, tmp_entry, verdict>>

NotBanned(t) ==
    /\ pc[t] = "blacklist"
    /\ Bsearch(tmp_entry[t].ip_num, blacklist) = 0
    /\ pc' = [pc EXCEPT ![t] = "backlog"]
    /\ UNCHANGED <<sec_lock, backlog, backlog_last, blacklist, blacklist_last,
                   clock, tmp_entry, verdict>>

\* The integer quotient of requests and elapsed time is above max_request.
\* Two readings of the clock in one tick are apart by less than a tick.
TooOften(entry) ==
    (entry.counter + 1) * Second >= (MaxRequest + 1) * (clock - entry.timestamp)

BanClient(t) ==
    LET k == Bsearch(tmp_entry[t].ip_num, backlog) IN
    /\ pc[t] = "backlog"
    /\ k # 0 /\ TooOften(backlog[k])
    /\ backlog' = [backlog EXCEPT ![k].counter = @ + 1]
    /\ blacklist_last' = (blacklist_last + 1) % BlacklistLen
    /\ blacklist' \in Qsort(Overwrite(blacklist, blacklist_last, tmp_entry[t]))
    /\ Return(t, "add_blacklist")
    /\ UNCHANGED backlog_last

CountRequest(t) ==
    LET k == Bsearch(tmp_entry[t].ip_num, backlog) IN
    /\ pc[t] = "backlog"
    /\ k # 0 /\ ~TooOften(backlog[k])
    /\ backlog' = [backlog EXCEPT ![k].counter = @ + 1, ![k].timestamp = clock]
    /\ Return(t, "success")
    /\ UNCHANGED <<backlog_last, blacklist, blacklist_last>>

\* Defect: the position of the backlog does not wrap.
RecordClientNoWrap(t) ==
    /\ pc[t] = "backlog"
    /\ Bsearch(tmp_entry[t].ip_num, backlog) = 0
    /\ backlog_last' = backlog_last + 1
    /\ backlog' \in Qsort(Overwrite(backlog, backlog_last, tmp_entry[t]))
    /\ Return(t, "success")
    /\ UNCHANGED <<blacklist, blacklist_last>>

RecordClient(t) ==
    /\ pc[t] = "backlog"
    /\ Bsearch(tmp_entry[t].ip_num, backlog) = 0
    /\ backlog_last' = (backlog_last + 1) % BacklogLen
    /\ backlog' \in Qsort(Overwrite(backlog, backlog_last, tmp_entry[t]))
    /\ Return(t, "success")
    /\ UNCHANGED <<blacklist, blacklist_last>>

check_client(t) ==
    \/ Lock(t)
    \/ RefuseClient(t)
    \/ ForgetBan(t)
    \/ NotBanned(t)
    \/ BanClient(t)
    \/ CountRequest(t)
    \/ RecordClient(t)

Next == \E t \in Threads : Arrive(t) \/ check_client(t)

Spec == Init /\ [][Next]_vars

-----------------------------------------------------------------------------
(* Properties.                                                             *)

Entries == [ip_num : Clients \cup {NoAddress}, counter : Nat, timestamp : Int]

\* The positions stay inside the lists, whose length does not change.
TypeOK ==
    /\ sec_lock \in Threads \cup {NoThread}
    /\ backlog \in [1 .. BacklogLen -> Entries]
    /\ blacklist \in [1 .. BlacklistLen -> Entries]
    /\ backlog_last \in 0 .. BacklogLen - 1
    /\ blacklist_last \in 0 .. BlacklistLen - 1
    /\ clock \in 0 .. MaxClock
    /\ pc \in [Threads -> {"idle", "arrived", "blacklist", "backlog"}]
    /\ tmp_entry \in [Threads -> Entries]
    /\ verdict \in [Threads -> {"none", "success", "blacklisted", "add_blacklist"}]

\* Every client on a list is found by bsearch(), and is there once: no
\* request is counted apart from the earlier ones, and no ban is overlooked.
Searchable ==
    \A s \in {backlog, blacklist} : \A k \in DOMAIN s :
        s[k].ip_num # NoAddress => Bsearch(s[k].ip_num, s) = k

\* The client is on the blacklist since max_time at most.
LiveBan(ip) ==
    \E k \in DOMAIN blacklist :
        blacklist[k].ip_num = ip /\ clock - blacklist[k].timestamp <= MaxTime

\* A client that is on the blacklist, and whose ban is not over, does not get
\* past it.
BannedRefused ==
    [][ \A t \in Threads :
            pc[t] = "blacklist" /\ pc'[t] = "backlog" => ~LiveBan(tmp_entry[t].ip_num)
      ]_vars

Lost(ip) == LiveBan(ip) /\ ~LiveBan(ip)'

\* A ban that is not over is lost in one way only, and alone: a new ban is
\* written over it. Sorting the list again, the end of another ban and
\* further attempts leave it in place.
BanStays ==
    [][ clock' = clock =>
            \A ip \in Clients : Lost(ip) =>
                /\ \E t \in Threads : verdict[t] = "none" /\ verdict'[t] = "add_blacklist"
                /\ \A other \in Clients : Lost(other) => other = ip
      ]_vars

-----------------------------------------------------------------------------
(* The inductive invariant behind Searchable, BannedRefused and BanStays,  *)
(* where the comparator is an order.                                       *)

\* No two addresses, nor an address and that of a free slot, are half the range
\* of an int apart.
AddressesNear == \A a, b \in Clients \cup {NoAddress} : 2 * (a - b) < IntRange

\* A list is in the order of addresses, and has each client once.
InOrder(s) == \A i, j \in DOMAIN s : i < j => s[i].ip_num <= s[j].ip_num
Once(s) == \A i, j \in DOMAIN s :
    s[i].ip_num = s[j].ip_num /\ s[i].ip_num # NoAddress => i = j

\* The mutex is owned by the thread that uses the lists; the client of a thread
\* that has got past the blacklist is not on it.
LimiterInv ==
    /\ \A t \in Threads : pc[t] \in {"blacklist", "backlog"} => sec_lock = t
    /\ \A t \in Threads : pc[t] # "idle" =>
        tmp_entry[t].ip_num \in Clients /\ verdict[t] = "none"
    /\ \A t \in Threads : pc[t] = "backlog" =>
        \A k \in DOMAIN blacklist : blacklist[k].ip_num # tmp_entry[t].ip_num
    /\ \A s \in {backlog, blacklist} : InOrder(s) /\ Once(s)
=============================================================================
