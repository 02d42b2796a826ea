---------------------------- MODULE ServerProofs ----------------------------
(***************************************************************************)
(* Theorems about Server: the rows of the statistics refer to their own    *)
(* requests, a connection is served by one thread, its client gets one     *)
(* answer, and the server keeps what Service promises, for any number of   *)
(* threads, clients, failures, and ends of the process.                    *)
(***************************************************************************)
EXTENDS Server, NatLemmas, TLAPS

-----------------------------------------------------------------------------
(* What a step of one thread leaves alone.                                 *)

\* A thread that moves on with its connection, before or after the answer.
LEMMA ConnMove ==
    ASSUME ConnInv, NEW t \in Children, NEW label, pc \in [Children -> Labels],
           Goto(t, label), UNCHANGED <<client_sd, conns, replies>>,
           label \in {"none", "accept", "accepting"} => client_sd[t] = NoConn,
           label \in Identified => client_sd[t] # NoConn,
           label \in Unanswered => pc[t] \in Unanswered,
           label \in Answered => pc[t] \in Answered,
           label # "lost"
    PROVE  ConnInv'
<1>1. /\ pc'[t] = label
      /\ \A u \in Children : u # t => pc'[u] = pc[u]
  BY DEF Goto
<1>2. HoldInv'
  BY <1>1 DEF ConnInv, HoldInv
<1>3. OwnerInv'
  BY DEF ConnInv, OwnerInv, Serves
<1>4. ReplyInv'
  BY <1>1 DEF ConnInv, ReplyInv, Serves
<1> QED  BY <1>2, <1>3, <1>4 DEF ConnInv

\* No thread's connection is touched.
LEMMA ConnStay ==
    ASSUME ConnInv, UNCHANGED <<pc, client_sd, conns, replies>>
    PROVE  ConnInv'
BY DEF ConnInv, HoldInv, OwnerInv, ReplyInv, Serves

\* A step of one thread that inserts no request leaves the rows of the others.
LEMMA RowFrame ==
    ASSUME RowInv, NEW t \in Children, UNCHANGED <<stats_enabled, requests>>,
           \A u \in Children : u # t => /\ pc'[u] = pc[u]
                                        /\ client_sd'[u] = client_sd[u]
                                        /\ child_id'[u] = child_id[u]
                                        /\ stat_req_id'[u] = stat_req_id[u],
           RowOf(t)'
    PROVE  RowInv'
<1>1. ASSUME NEW u \in Children, u # t
      PROVE  RowOf(u)'
  BY <1>1 DEF RowInv, RowOf, LastRow, OwnRow
<1> QED  BY <1>1 DEF RowInv

\* A step of nobody leaves all rows.
LEMMA RowStay ==
    ASSUME RowInv, UNCHANGED <<stats_enabled, requests, pc, client_sd, child_id, stat_req_id>>
    PROVE  RowInv'
BY DEF RowInv, RowOf, LastRow, OwnRow

\* A thread that moves on was created before.
LEMMA StartMove ==
    ASSUME StartInv, NEW t \in Children, NEW label, pc \in [Children -> Labels],
           Goto(t, label), pc[t] # "none", UNCHANGED <<main, child_num>>
    PROVE  StartInv'
<1>1. \A u \in Children : pc[u] = "none" => pc'[u] = "none"
  BY DEF Goto
<1> QED  BY <1>1 DEF StartInv

-----------------------------------------------------------------------------
(* The initial state, and the steps of the main thread and the clients.    *)

LEMMA InitInv ==
    ASSUME Init
    PROVE  TypeOK /\ ServerInv
<1>1. TypeOK
  <2>1. child_num \in 0 .. NumChildren /\ 0 \in Nat
    BY ServerAssumption DEF Init
  <2>2. requests \in Seq([child_id : Children, conn : Conns, by : Children])
    BY DEF Init
  <2> QED  BY <2>1, <2>2 DEF Init, TypeOK, Labels
<1>2. ConnInv
  BY DEF Init, ConnInv, HoldInv, OwnerInv, ReplyInv, Serves, Identified, Unanswered, Answered
<1>3. StartInv /\ BookedRowInv
  BY ServerAssumption DEF Init, StartInv, BookedRowInv
<1>4. RowInv
  BY DEF Init, RowInv, RowOf, ECOD_CHILDNOTFOUND
<1>5. BookInv /\ LockInv
  BY DEF Init, BookInv, LockInv, Querying
<1> QED  BY <1>1, <1>2, <1>3, <1>4, <1>5 DEF CoreInv, ServerInv

LEMMA ChildNumber ==
    ASSUME TypeOK
    PROVE  /\ NumChildren \in Nat
           /\ child_num \in Nat
           /\ child_num < NumChildren => child_num \in Children
<1>1. child_num \in 0 .. NumChildren
  BY DEF TypeOK
<1> QED  BY <1>1, ServerAssumption DEF Children

\* Every thread starts from nothing when the process starts again, and the rows
\* of the tables stay what they were.
LEMMA EndStep ==
    ASSUME TypeOK, CoreInv, EndProcess
    PROVE  TypeOK' /\ CoreInv'
<1>1. /\ \A t \in Children : pc'[t] = "none" /\ client_sd'[t] = NoConn
                              /\ child_id'[t] = ECOD_CHILDNOTFOUND
      /\ UNCHANGED <<requests, streams, replies>>
      /\ main' = "down"
  BY DEF EndProcess, database
<1>2. \A c \in Conns : conns'[c] = IF conns[c] \in {"queued", "accepted"} THEN "reset" ELSE conns[c]
  BY DEF EndProcess
<1>3. TypeOK'
  <2>1. conns' \in [Conns -> {"new", "queued", "accepted", "closed", "reset"}]
    BY DEF EndProcess, TypeOK
  <2>2. /\ pc' \in [Children -> Labels] /\ client_sd' \in [Children -> Conns \cup {NoConn}]
        /\ type' \in [Children -> {"none", "stream", "empty", "file"}]
        /\ child_id' \in [Children -> Children \cup {ECOD_CHILDNOTFOUND}]
    BY DEF EndProcess, Labels
  <2>3. /\ stat_req_id' \in [Children -> Nat \cup {ECOD_INSERT, ECOD_SELECT}]
        /\ conn_count' \in [Children -> Nat]
        /\ child_num' \in 0 .. NumChildren
    BY ServerAssumption DEF EndProcess
  <2> QED  BY <1>1, <2>1, <2>2, <2>3 DEF EndProcess, TypeOK
<1>4. ConnInv'
  <2>1. HoldInv' /\ OwnerInv'
    BY <1>1 DEF HoldInv, OwnerInv, Serves, Identified
  <2>2. ReplyInv'
    BY <1>1, <1>2 DEF CoreInv, ConnInv, ReplyInv, Serves
  <2> QED  BY <2>1, <2>2 DEF ConnInv
<1>5. StartInv' /\ BookedRowInv'
  <2>1. child_num' < NumChildren
    BY ServerAssumption DEF EndProcess
  <2> QED  BY <1>1, <2>1 DEF CoreInv, StartInv, BookedRowInv
<1>6. RowInv'
  BY <1>1 DEF RowInv, RowOf
<1> QED  BY <1>3, <1>4, <1>5, <1>6 DEF CoreInv

LEMMA StartStep ==
    ASSUME TypeOK, CoreInv, Start \/ StartFails
    PROVE  TypeOK' /\ CoreInv'
<1>1. UNCHANGED <<child_num, locks, threads, database, network>>
  BY DEF Start, StartFails
<1>2. TypeOK'
  BY <1>1 DEF Start, StartFails, init_stat, TypeOK, locks, threads, database, network
<1>3. ConnInv'
  BY <1>1, ConnStay DEF threads, network, CoreInv
<1>4. \A t \in Children : pc[t] = "none"
  BY DEF Start, StartFails, CoreInv, StartInv
<1>5. RowInv'
  <2>1. \A t \in Children : child_id[t] \in {t, ECOD_CHILDNOTFOUND}
    BY DEF CoreInv, RowInv, RowOf
  <2> QED  BY <1>1, <1>4, <2>1 DEF threads, RowInv, RowOf
<1>6. StartInv' /\ BookedRowInv'
  <2>1. child_num < NumChildren
    BY DEF Start, StartFails, CoreInv, StartInv
  <2> QED  BY <1>1, <1>4, <2>1 DEF Start, StartFails, threads, database, CoreInv, StartInv, BookedRowInv
<1> QED  BY <1>2, <1>3, <1>5, <1>6 DEF CoreInv

LEMMA CreateChildStep ==
    ASSUME TypeOK, CoreInv, create_child, UNCHANGED stats_enabled
    PROVE  TypeOK' /\ CoreInv'
<1>1. main = "create" /\ child_num < NumChildren
  BY DEF create_child, CoreInv, StartInv
<1>2. child_num \in Children /\ child_num \in Nat
  BY <1>1, ChildNumber
<1>3. pc[child_num] = "none" /\ client_sd[child_num] = NoConn
  BY <1>1, <1>2 DEF CoreInv, ConnInv, HoldInv, StartInv
<1>4. /\ pc'[child_num] = "accept" /\ main' = "register"
      /\ \A u \in Children : u # child_num => pc'[u] = pc[u]
      /\ UNCHANGED <<child_num, client_sd, child_id, stat_req_id, database, network>>
  BY <1>2 DEF create_child, Goto, TypeOK
<1>5. TypeOK'
  BY DEF create_child, Goto, TypeOK, Labels, locks, database, network
<1>6. ConnInv'
  BY <1>2, <1>3, ConnMove DEF create_child, TypeOK, network, CoreInv, Identified, Unanswered, Answered
<1>7. StartInv'
  <2>1. \A t \in Children : t > child_num => pc'[t] = "none"
    <3>1. Children \subseteq Nat
      BY DEF Children
    <3>2. ASSUME NEW t \in Children, t > child_num
          PROVE  t >= child_num /\ t # child_num
      BY <1>2, <3>1, <3>2
    <3> QED  BY <1>1, <1>4, <3>2 DEF CoreInv, StartInv
  <2> QED  BY <1>1, <1>4, <2>1 DEF StartInv
<1>8. BookedRowInv'
  BY DEF create_child, database, CoreInv, BookedRowInv
<1>9. RowOf(child_num)'
  BY <1>2, <1>4 DEF CoreInv, RowInv, RowOf
<1>10. RowInv'
  BY <1>2, <1>4, <1>9, RowFrame DEF database, CoreInv
<1> QED  BY <1>5, <1>6, <1>7, <1>8, <1>10 DEF CoreInv

LEMMA AddChildStep ==
    ASSUME TypeOK, CoreInv, atomic_add_child, UNCHANGED stats_enabled
    PROVE  TypeOK' /\ CoreInv'
<1>1. child_num \in Nat /\ child_num < NumChildren /\ NumChildren \in Nat
  BY ChildNumber DEF atomic_add_child, CoreInv, StartInv
<1>2. /\ child_num' = child_num + 1
      /\ child_num' \in 0 .. NumChildren
      /\ main' \in {"create", "running"}
      /\ main' = "create" => child_num' < NumChildren
  BY <1>1 DEF atomic_add_child
<1>3. TypeOK'
  BY <1>2 DEF atomic_add_child, TypeOK, locks, threads, database, network
<1>4. ConnInv' /\ RowInv'
  BY ConnStay, RowStay DEF atomic_add_child, threads, database, network, CoreInv
<1>5. StartInv'
  <2>1. Children \subseteq Nat
    BY DEF Children
  <2>2. ASSUME NEW t \in Children, t >= child_num'
        PROVE  t > child_num
    BY <1>1, <1>2, <2>1, <2>2
  <2>3. \A t \in Children : t > child_num => pc[t] = "none"
    BY DEF atomic_add_child, CoreInv, StartInv
  <2> QED  BY <1>2, <2>2, <2>3 DEF atomic_add_child, threads, StartInv
<1>6. BookedRowInv'
  BY DEF atomic_add_child, database, CoreInv, BookedRowInv
<1> QED  BY <1>3, <1>4, <1>5, <1>6 DEF CoreInv

LEMMA ConnectStep ==
    ASSUME TypeOK, CoreInv, NEW c \in Conns, Connect(c), UNCHANGED stats_enabled
    PROVE  TypeOK' /\ CoreInv'
<1>1. /\ conns[c] = "new" /\ conns'[c] = "queued"
      /\ \A d \in Conns : d # c => conns'[d] = conns[d]
      /\ UNCHANGED <<pc, client_sd, replies>>
  BY DEF Connect, TypeOK, threads
<1>2. TypeOK'
  BY DEF Connect, TypeOK, locks, threads, database
<1>3. HoldInv'
  BY <1>1 DEF CoreInv, ConnInv, HoldInv
<1>4. OwnerInv'
  BY <1>1 DEF CoreInv, ConnInv, OwnerInv, Serves
<1>5. ReplyInv'
  BY <1>1 DEF CoreInv, ConnInv, ReplyInv, Serves
<1>6. StartInv' /\ BookedRowInv'
  BY <1>1 DEF Connect, database, CoreInv, StartInv, BookedRowInv
<1>7. RowInv'
  BY RowStay DEF Connect, threads, database, CoreInv
<1> QED  BY <1>2, <1>3, <1>4, <1>5, <1>6, <1>7 DEF CoreInv, ConnInv

-----------------------------------------------------------------------------
(* accept() and close().                                                   *)

LEMMA LockConnStep ==
    ASSUME TypeOK, CoreInv, NEW t \in Children, LockConn(t), UNCHANGED stats_enabled
    PROVE  TypeOK' /\ CoreInv'
<1>1. TypeOK'
  BY DEF LockConn, Goto, TypeOK, Labels, database, network
<1>2. ConnInv'
  <2>1. client_sd[t] = NoConn
    BY DEF LockConn, CoreInv, ConnInv, HoldInv
  <2> QED  BY <2>1, ConnMove DEF LockConn, TypeOK, network, CoreInv, Identified, Unanswered, Answered
<1>3. StartInv' /\ BookedRowInv'
  BY StartMove DEF LockConn, TypeOK, database, CoreInv, BookedRowInv
<1>4. RowOf(t)'
  BY DEF LockConn, Goto, TypeOK, CoreInv, RowInv, RowOf
<1>5. RowInv'
  BY <1>4, RowFrame DEF LockConn, Goto, TypeOK, database, CoreInv
<1> QED  BY <1>1, <1>2, <1>3, <1>5 DEF CoreInv

LEMMA AcceptStep ==
    ASSUME TypeOK, CoreInv, NEW t \in Children, Accept(t), UNCHANGED stats_enabled
    PROVE  TypeOK' /\ CoreInv'
<1>1. PICK c \in Conns : /\ conns[c] = "queued"
                         /\ conns' = [conns EXCEPT ![c] = "accepted"]
                         /\ client_sd' = [client_sd EXCEPT ![t] = c]
  BY DEF Accept
<1>2. /\ pc[t] = "accepting" /\ pc'[t] = "check" /\ client_sd'[t] = c /\ conns'[c] = "accepted"
      /\ \A u \in Children : u # t => pc'[u] = pc[u] /\ client_sd'[u] = client_sd[u]
      /\ \A d \in Conns : d # c => conns'[d] = conns[d]
      /\ UNCHANGED replies
  BY <1>1 DEF Accept, Goto, TypeOK
<1>3. \A u \in Children : client_sd[u] # c
  BY <1>1, ServerAssumption DEF CoreInv, ConnInv, OwnerInv, Serves
<1>4. replies[c] = "none"
  BY <1>1 DEF CoreInv, ConnInv, ReplyInv
<1>6. TypeOK'
  <2>1. conns' \in [Conns -> {"new", "queued", "accepted", "closed", "reset"}]
        /\ client_sd' \in [Children -> Conns \cup {NoConn}]
    BY <1>1 DEF TypeOK
  <2>2. pc' \in [Children -> Labels] /\ conn_count' \in [Children -> Nat]
    <3>1. pc \in [Children -> Labels] /\ conn_count \in [Children -> Nat]
      BY DEF TypeOK
    <3>2. pc' \in [Children -> Labels]
      BY <3>1 DEF Accept, Goto, Labels
    <3>3. conn_count' \in [Children -> Nat]
      BY <3>1 DEF Accept
    <3> QED  BY <3>2, <3>3
  <2> QED  BY <2>1, <2>2 DEF Accept, TypeOK, database
<1>7. HoldInv'
  BY <1>2, ServerAssumption DEF CoreInv, ConnInv, HoldInv, Identified
<1>8. OwnerInv'
  BY <1>2, <1>3 DEF CoreInv, ConnInv, OwnerInv, Serves
<1>9. ReplyInv'
  <2>1. \A d \in Conns : conns'[d] \in {"new", "queued"} => replies'[d] = "none"
    BY <1>2 DEF CoreInv, ConnInv, ReplyInv
  <2>2. \A d \in Conns : conns'[d] = "closed" => replies'[d] # "none"
    BY <1>2 DEF CoreInv, ConnInv, ReplyInv
  <2>3. ASSUME NEW u \in Children, NEW d \in Conns, Serves(u, d)'
        PROVE  /\ pc'[u] \in Unanswered => replies'[d] = "none"
               /\ pc'[u] \in Answered => replies'[d] # "none"
               /\ pc'[u] = "lost" => replies'[d] = "long stream"
    <3>1. CASE u = t
      BY <1>2, <1>4, <2>3, <3>1 DEF Serves, Answered
    <3>2. CASE u # t
      BY <1>2, <2>3, <3>2 DEF CoreInv, ConnInv, ReplyInv, Serves
    <3> QED  BY <3>1, <3>2
  <2> QED  BY <2>1, <2>2, <2>3 DEF ReplyInv
<1>10. StartInv' /\ BookedRowInv'
  BY <1>2, StartMove DEF Accept, TypeOK, database, CoreInv, BookedRowInv
<1>11. RowOf(t)'
  BY <1>2 DEF Accept, CoreInv, RowInv, RowOf
<1>12. RowInv'
  BY <1>2, <1>11, RowFrame DEF Accept, database, CoreInv
<1> QED  BY <1>6, <1>7, <1>8, <1>9, <1>10, <1>12 DEF CoreInv, ConnInv

LEMMA AcceptFailsStep ==
    ASSUME TypeOK, CoreInv, NEW t \in Children, AcceptFails(t), UNCHANGED stats_enabled
    PROVE  TypeOK' /\ CoreInv'
<1>1. client_sd[t] = NoConn
  BY DEF AcceptFails, CoreInv, ConnInv, HoldInv
<1>2. UNCHANGED <<client_sd, conns, replies>> /\ Goto(t, "check")
  BY <1>1 DEF AcceptFails, TypeOK
<1>3. TypeOK'
  <2>1. pc' \in [Children -> Labels] /\ conn_count' \in [Children -> Nat]
    <3>1. pc \in [Children -> Labels] /\ conn_count \in [Children -> Nat]
      BY DEF TypeOK
    <3>2. pc' \in [Children -> Labels]
      BY <3>1 DEF AcceptFails, Goto, Labels
    <3>3. conn_count' \in [Children -> Nat]
      BY <3>1 DEF AcceptFails
    <3> QED  BY <3>2, <3>3
  <2> QED  BY <1>2, <2>1 DEF AcceptFails, TypeOK, database
<1>4. ConnInv'
  <2>1. pc[t] = "accepting"
    BY DEF AcceptFails
  <2>2. pc'[t] = "check" /\ \A u \in Children : u # t => pc'[u] = pc[u]
    BY <1>2 DEF Goto, TypeOK
  <2>3. HoldInv'
    BY <1>2, <2>2 DEF CoreInv, ConnInv, HoldInv, Identified
  <2>4. OwnerInv'
    BY <1>2 DEF CoreInv, ConnInv, OwnerInv, Serves
  <2>5. ReplyInv'
    BY <1>1, <1>2, <2>2 DEF CoreInv, ConnInv, ReplyInv, Serves
  <2> QED  BY <2>3, <2>4, <2>5 DEF ConnInv
<1>5. StartInv' /\ BookedRowInv'
  BY <1>2, StartMove DEF AcceptFails, TypeOK, database, CoreInv, BookedRowInv
<1>6. RowOf(t)'
  BY <1>2 DEF AcceptFails, Goto, TypeOK, CoreInv, RowInv, RowOf
<1>7. RowInv'
  BY <1>2, <1>6, RowFrame DEF AcceptFails, Goto, TypeOK, database, CoreInv
<1> QED  BY <1>3, <1>4, <1>5, <1>7 DEF CoreInv

LEMMA CloseStep ==
    ASSUME TypeOK, CoreInv, NEW t \in Children, Close(t), UNCHANGED stats_enabled
    PROVE  TypeOK' /\ CoreInv'
<1>1. /\ pc[t] = "close" /\ pc'[t] = "accept" /\ client_sd'[t] = NoConn
      /\ child_id'[t] = ECOD_CHILDNOTFOUND
      /\ \A u \in Children : u # t => /\ pc'[u] = pc[u] /\ client_sd'[u] = client_sd[u]
                                   /\ child_id'[u] = child_id[u]
                                   /\ stat_req_id'[u] = stat_req_id[u]
      /\ UNCHANGED replies
  BY DEF Close, ForgetRequest, Goto, TypeOK
<1>2. \A c \in Conns : conns'[c] = IF client_sd[t] = c THEN "closed" ELSE conns[c]
  BY ServerAssumption DEF Close, TypeOK
<1>3. \A u \in Children, c \in Conns : Serves(u, c) /\ u # t => client_sd[t] # c
  BY DEF CoreInv, ConnInv, OwnerInv, Serves
<1>4. TypeOK'
  <2>1. conns' \in [Conns -> {"new", "queued", "accepted", "closed", "reset"}]
    BY DEF Close, TypeOK
  <2>2. pc' \in [Children -> Labels] /\ client_sd' \in [Children -> Conns \cup {NoConn}]
    BY DEF Close, ForgetRequest, Goto, TypeOK, Labels
  <2>3. /\ type' \in [Children -> {"none", "stream", "empty", "file"}]
        /\ child_id' \in [Children -> Children \cup {ECOD_CHILDNOTFOUND}]
        /\ stat_req_id' \in [Children -> Nat \cup {ECOD_INSERT, ECOD_SELECT}]
    BY DEF Close, ForgetRequest, TypeOK
  <2> QED  BY <2>1, <2>2, <2>3 DEF Close, TypeOK, locks, database
<1>5. HoldInv'
  BY <1>1 DEF CoreInv, ConnInv, HoldInv, Identified
<1>6. OwnerInv'
  BY <1>1, <1>2, <1>3 DEF CoreInv, ConnInv, OwnerInv, Serves
<1>7. ReplyInv'
  <2>1. \A c \in Conns : client_sd[t] = c => conns[c] = "accepted" /\ replies[c] # "none"
    BY <1>1, ServerAssumption DEF CoreInv, ConnInv, OwnerInv, ReplyInv, Serves, Answered
  <2>2. \A c \in Conns : conns'[c] \in {"new", "queued"} => replies'[c] = "none"
    BY <1>1, <1>2 DEF CoreInv, ConnInv, ReplyInv
  <2>3. ASSUME NEW c \in Conns, conns'[c] = "closed"
        PROVE  replies'[c] # "none"
    <3>1. client_sd[t] = c \/ conns[c] = "closed"
      BY <1>2, <2>3
    <3>2. conns[c] = "closed" => replies[c] # "none"
      BY DEF CoreInv, ConnInv, ReplyInv
    <3> QED  BY <1>1, <2>1, <3>1, <3>2
  <2>4. ASSUME NEW u \in Children, NEW c \in Conns, Serves(u, c)'
        PROVE  Serves(u, c) /\ pc'[u] = pc[u]
    BY <1>1, <2>4 DEF Serves
  <2> QED  BY <1>1, <2>2, <2>3, <2>4 DEF CoreInv, ConnInv, ReplyInv
<1>8. StartInv'
  BY <1>1, StartMove DEF Close, TypeOK, CoreInv
<1>9. BookedRowInv'
  BY DEF Close, database, CoreInv, BookedRowInv
<1>10. RowOf(t)'
  BY <1>1 DEF RowOf
<1>11. RowInv'
  BY <1>1, <1>10, RowFrame DEF Close, database, CoreInv
<1> QED  BY <1>4, <1>5, <1>6, <1>7, <1>8, <1>9, <1>11 DEF CoreInv, ConnInv

-----------------------------------------------------------------------------
(* manage_request()                                                        *)

LEMMA ReplyStep ==
    ASSUME TypeOK, CoreInv, NEW t \in Children, UNCHANGED stats_enabled,
           NEW answer \in Answers, NEW label \in {"close", "stream_stat", "lost"},
           pc[t] \in {"check", "parse", "serve", "lost"},
           label = "lost" => pc[t] = "serve" /\ answer = "long stream",
           label = "stream_stat" => pc[t] = "serve" /\ stat_req_id[t] >= 0,
           Reply(t, answer, label)
    PROVE  TypeOK' /\ CoreInv'
<1> USE DEF Answers
<1>1. /\ pc'[t] = label
      /\ \A u \in Children : u # t => pc'[u] = pc[u]
      /\ UNCHANGED <<client_sd, conns, child_id, stat_req_id>>
  BY DEF Reply, Goto, TypeOK
<1>2. \A c \in Conns : replies'[c] = IF client_sd[t] = c THEN answer ELSE replies[c]
  BY ServerAssumption DEF Reply, TypeOK
<1>3. \A u \in Children, c \in Conns : Serves(u, c) /\ u # t => client_sd[t] # c
  BY DEF CoreInv, ConnInv, OwnerInv, Serves
<1>4. TypeOK'
  <2>1. replies' \in [Conns -> Answers \cup {"none"}]
    BY DEF Reply, TypeOK
  <2>2. pc' \in [Children -> Labels]
    BY DEF Reply, Goto, TypeOK, Labels
  <2> QED  BY <2>1, <2>2 DEF Reply, TypeOK, locks, database
<1>5. HoldInv'
  BY <1>1 DEF CoreInv, ConnInv, HoldInv, Identified
<1>6. OwnerInv'
  BY <1>1 DEF CoreInv, ConnInv, OwnerInv, Serves
<1>7. ReplyInv'
  <2>1. \A c \in Conns : client_sd[t] = c => conns[c] = "accepted"
    BY ServerAssumption DEF CoreInv, ConnInv, OwnerInv, Serves
  <2>2. answer # "none" /\ label \notin Unanswered /\ label \in Answered
    BY DEF Unanswered, Answered
  <2>3. \A c \in Conns : conns'[c] \in {"new", "queued"} => replies'[c] = "none"
    BY <1>1, <1>2, <2>1 DEF CoreInv, ConnInv, ReplyInv
  <2>4. \A c \in Conns : conns'[c] = "closed" => replies'[c] # "none"
    BY <1>1, <1>2, <2>2 DEF CoreInv, ConnInv, ReplyInv
  <2>5. ASSUME NEW u \in Children, NEW c \in Conns, Serves(u, c)'
        PROVE  /\ pc'[u] \in Unanswered => replies'[c] = "none"
               /\ pc'[u] \in Answered => replies'[c] # "none"
               /\ pc'[u] = "lost" => replies'[c] = "long stream"
    <3>1. Serves(u, c)
      BY <1>1, <2>5 DEF Serves
    <3>2. CASE u = t
      BY <1>1, <1>2, <2>2, <3>1, <3>2 DEF Serves
    <3>3. CASE u # t
      BY <1>1, <1>2, <1>3, <3>1, <3>3, ZenonT(40) DEF CoreInv, ConnInv, ReplyInv
    <3> QED  BY <3>2, <3>3
  <2> QED  BY <2>3, <2>4, <2>5 DEF ReplyInv
<1>8. StartInv' /\ BookedRowInv'
  BY StartMove DEF Reply, TypeOK, database, CoreInv, BookedRowInv
<1>9. RowOf(t)'
  BY <1>1 DEF Reply, database, CoreInv, RowInv, RowOf, OwnRow
<1>10. RowInv'
  BY <1>1, <1>9, RowFrame DEF Reply, database, CoreInv
<1> QED  BY <1>4, <1>5, <1>6, <1>7, <1>8, <1>10 DEF CoreInv, ConnInv

LEMMA AdmitStep ==
    ASSUME TypeOK, CoreInv, NEW t \in Children, Admit(t), UNCHANGED stats_enabled
    PROVE  TypeOK' /\ CoreInv'
<1>1. TypeOK'
  BY DEF Admit, Goto, TypeOK, Labels, locks, database, network
<1>2. ConnInv'
  BY ConnMove DEF Admit, TypeOK, network, CoreInv, Identified, Unanswered, Answered
<1>3. StartInv' /\ BookedRowInv'
  BY StartMove DEF Admit, TypeOK, database, CoreInv, BookedRowInv
<1>4. RowOf(t)'
  BY DEF Admit, Goto, TypeOK, CoreInv, RowInv, RowOf
<1>5. RowInv'
  BY <1>4, RowFrame DEF Admit, Goto, TypeOK, database, CoreInv
<1> QED  BY <1>1, <1>2, <1>3, <1>5 DEF CoreInv

LEMMA ParseRequestStep ==
    ASSUME TypeOK, CoreInv, NEW t \in Children, parse_request(t), UNCHANGED stats_enabled
    PROVE  TypeOK' /\ CoreInv'
<1>1. TypeOK'
  <2>1. pc' \in [Children -> Labels]
    BY DEF parse_request, Goto, TypeOK, Labels
  <2>2. type' \in [Children -> {"none", "stream", "empty", "file"}]
    BY DEF parse_request, TypeOK
  <2> QED  BY <2>1, <2>2 DEF parse_request, TypeOK, locks, database, network
<1>2. ConnInv'
  BY ConnMove DEF parse_request, TypeOK, network, CoreInv, Unanswered, Answered
<1>3. StartInv' /\ BookedRowInv'
  BY StartMove DEF parse_request, TypeOK, database, CoreInv, BookedRowInv
<1>4. RowOf(t)'
  BY DEF parse_request, Goto, TypeOK, CoreInv, RowInv, RowOf
<1>5. RowInv'
  BY <1>4, RowFrame DEF parse_request, Goto, TypeOK, database, CoreInv
<1> QED  BY <1>1, <1>2, <1>3, <1>5 DEF CoreInv

LEMMA ManageRequestStep ==
    ASSUME TypeOK, CoreInv, NEW t \in Children, manage_request(t), UNCHANGED stats_enabled
    PROVE  TypeOK' /\ CoreInv'
<1>1. CASE Refuse(t) \/ ParseFails(t) \/ NotFound(t) \/ SendOk(t) \/ SendFile(t)
  BY <1>1, ReplyStep DEF Refuse, ParseFails, NotFound, SendOk, SendFile, Answers
<1>2. CASE SendVideo(t) \/ SendLongVideo(t)
  BY <1>2, ReplyStep DEF SendVideo, SendLongVideo, Answers
<1> QED  BY <1>1, <1>2, AdmitStep, ParseRequestStep DEF manage_request

-----------------------------------------------------------------------------
(* new_request_stat() and new_stream_stat()                                *)

LEMMA ComposeInsertStep ==
    ASSUME TypeOK, CoreInv, NEW t \in Children, ComposeInsert(t), UNCHANGED stats_enabled
    PROVE  TypeOK' /\ CoreInv'
<1>1. client_sd[t] # NoConn
  BY DEF ComposeInsert, CoreInv, ConnInv, HoldInv, Identified
<1>2. get_child_pos(t) \in {t, ECOD_CHILDNOTFOUND}
  BY DEF get_child_pos
<1>3. TypeOK'
  <2>1. pc' \in [Children -> Labels]
    BY DEF ComposeInsert, Goto, TypeOK, Labels
  <2>2. child_id' \in [Children -> Children \cup {ECOD_CHILDNOTFOUND}]
    BY <1>2 DEF ComposeInsert, TypeOK
  <2> QED  BY <2>1, <2>2 DEF ComposeInsert, TypeOK, locks, database, network
<1>4. ConnInv'
  BY <1>1, ConnMove DEF ComposeInsert, TypeOK, network, CoreInv, Unanswered, Answered
<1>5. StartInv' /\ BookedRowInv'
  BY StartMove DEF ComposeInsert, TypeOK, database, CoreInv, BookedRowInv
<1>6. RowOf(t)'
  BY <1>2 DEF ComposeInsert, Goto, TypeOK, RowOf
<1>7. RowInv'
  BY <1>6, RowFrame DEF ComposeInsert, Goto, TypeOK, database, CoreInv
<1> QED  BY <1>3, <1>4, <1>5, <1>7 DEF CoreInv

LEMMA NoStatsStep ==
    ASSUME TypeOK, CoreInv, NEW t \in Children, NoStats(t), UNCHANGED stats_enabled
    PROVE  TypeOK' /\ CoreInv'
<1> DEFINE label == IF pc[t] = "request_stat" THEN "serve" ELSE "close"
<1>1. /\ Goto(t, label)
      /\ pc[t] \in {"request_stat", "stream_stat"} /\ ~ stats_enabled
      /\ label = "serve" => pc[t] = "request_stat"
      /\ label = "close" => pc[t] = "stream_stat"
      /\ label \in {"serve", "close"}
  BY DEF NoStats
<1> HIDE DEF label
<1>2. TypeOK'
  <2>1. pc' \in [Children -> Labels]
    BY <1>1 DEF Goto, TypeOK, Labels
  <2>2. stat_req_id' \in [Children -> Nat \cup {ECOD_INSERT, ECOD_SELECT}]
    BY DEF NoStats, TypeOK
  <2> QED  BY <2>1, <2>2 DEF NoStats, TypeOK, locks, database, network
<1>3. ConnInv'
  <2>1. label \in Identified => client_sd[t] # NoConn
    BY <1>1 DEF CoreInv, ConnInv, HoldInv, Identified
  <2>2. UNCHANGED <<client_sd, conns, replies>>
    BY DEF NoStats, network
  <2> QED  BY <1>1, <2>1, <2>2, ConnMove DEF TypeOK, CoreInv, Unanswered, Answered
<1>4. StartInv' /\ BookedRowInv'
  BY <1>1, StartMove DEF NoStats, TypeOK, database, CoreInv, BookedRowInv
<1>5. RowOf(t)'
  BY <1>1 DEF NoStats, Goto, TypeOK, CoreInv, RowInv, RowOf
<1>6. RowInv'
  BY <1>1, <1>5, RowFrame DEF NoStats, Goto, TypeOK, database, CoreInv
<1> QED  BY <1>2, <1>3, <1>4, <1>6 DEF CoreInv

LEMMA LockStatStep ==
    ASSUME TypeOK, CoreInv, NEW t \in Children, LockStat(t), UNCHANGED stats_enabled
    PROVE  TypeOK' /\ CoreInv'
<1>1. PICK label \in {"inserting", "selecting", "streaming"} :
        /\ Goto(t, label)
        /\ label = "inserting" => pc[t] = "insert"
        /\ label = "selecting" => pc[t] = "select"
        /\ label = "streaming" => pc[t] = "stream_stat" /\ stats_enabled
  BY DEF LockStat
<1>2. UNCHANGED <<main, child_num, client_sd, child_id, stat_req_id, database, network>>
  BY DEF LockStat
<1>3. TypeOK'
  <2>1. pc' \in [Children -> Labels]
    BY <1>1 DEF Goto, TypeOK, Labels
  <2> QED  BY <2>1 DEF LockStat, TypeOK, database, network
<1>4. ConnInv'
  <2>1. client_sd[t] # NoConn
    BY <1>1 DEF CoreInv, ConnInv, HoldInv, Identified
  <2> QED  BY <1>1, <1>2, <2>1, ConnMove DEF TypeOK, network, CoreInv, Unanswered, Answered
<1>5. StartInv' /\ BookedRowInv'
  BY <1>1, <1>2, StartMove DEF TypeOK, database, CoreInv, BookedRowInv
<1>6. RowOf(t)'
  <2>1. pc'[t] = label
    BY <1>1 DEF Goto, TypeOK
  <2> QED  BY <1>1, <1>2, <2>1 DEF database, CoreInv, RowInv, RowOf, LastRow, OwnRow
<1>7. RowInv'
  BY <1>1, <1>2, <1>6, RowFrame DEF Goto, TypeOK, database, CoreInv
<1> QED  BY <1>3, <1>4, <1>5, <1>7 DEF CoreInv

\* The end of a critical section of the statistics: the thread keeps its
\* connection, and its client is answered before or after.
LEMMA UnlockStatStep ==
    ASSUME TypeOK, CoreInv, NEW t \in Children, NEW label \in {"select", "serve", "close"},
           UnlockStat(t, label),
           label \in {"select", "serve"} => pc[t] \in {"inserting", "selecting"},
           label = "close" => pc[t] = "streaming"
    PROVE  /\ stat_lock' \in Children \cup {NoThread} /\ pc' \in [Children -> Labels]
           /\ pc'[t] = label
           /\ \A u \in Children : u # t => pc'[u] = pc[u]
           /\ UNCHANGED <<main, child_num, conn_lock, client_sd, type, child_id, conns, replies,
                          conn_count, failed_accepts>>
           /\ ConnInv' /\ StartInv'
<1>1. stat_lock' \in Children \cup {NoThread} /\ pc' \in [Children -> Labels]
  BY DEF UnlockStat, Goto, TypeOK, Labels
<1>2. pc'[t] = label /\ \A u \in Children : u # t => pc'[u] = pc[u]
  BY DEF UnlockStat, Goto, TypeOK
<1>3. UNCHANGED <<main, child_num, conn_lock, client_sd, type, child_id, conns, replies,
                  conn_count, failed_accepts>>
  BY DEF UnlockStat, network
<1>4. StartInv'
  BY <1>3, StartMove DEF UnlockStat, TypeOK, CoreInv
<1>5. client_sd[t] # NoConn
  BY DEF CoreInv, ConnInv, HoldInv, Identified
<1>6. ConnInv'
  BY <1>3, <1>5, ConnMove DEF UnlockStat, TypeOK, CoreInv, Unanswered, Answered
<1> QED  BY <1>1, <1>2, <1>3, <1>4, <1>6

LEMMA InsertRequestStep ==
    ASSUME TypeOK, CoreInv, NEW t \in Children, InsertRequest(t), UNCHANGED stats_enabled
    PROVE  TypeOK' /\ CoreInv'
<1> DEFINE row == [child_id |-> Column(child_id[t]), conn |-> client_sd[t], by |-> t]
           Row == [child_id : Children, conn : Conns, by : Children]
<1>1. client_sd[t] \in Conns /\ child_id[t] \in {t, ECOD_CHILDNOTFOUND} /\ stats_enabled
  BY DEF InsertRequest, TypeOK, CoreInv, RowInv, RowOf, ConnInv, HoldInv, Identified
<1>2. /\ row.conn = client_sd[t] /\ row.by = t
      /\ child_id[t] = t => row.child_id = t
      /\ row \in Row
  <2>1. t \in Nat /\ 0 \in Children
    BY ServerAssumption DEF Children
  <2>2. Column(t) = t /\ Column(ECOD_CHILDNOTFOUND) = 0
    BY <2>1 DEF Column, ECOD_CHILDNOTFOUND
  <2> QED  BY <1>1, <2>1, <2>2
<1>3. requests \in Seq(Row) /\ requests' = Append(requests, row)
  BY DEF InsertRequest, TypeOK
<1> HIDE DEF row, Row
<1>4. /\ requests' \in Seq(Row)
      /\ Len(requests) \in Nat
      /\ DOMAIN requests = 1 .. Len(requests)
      /\ DOMAIN requests' = 1 .. Len(requests) + 1
      /\ \A n \in DOMAIN requests : requests'[n] = requests[n]
      /\ requests'[Len(requests) + 1] = row
  BY <1>2, <1>3
<1>5. /\ pc'[t] = "select"
      /\ \A u \in Children : u # t => pc'[u] = pc[u]
      /\ UNCHANGED <<client_sd, child_id, stat_req_id, streams>>
      /\ ConnInv' /\ StartInv'
  BY UnlockStatStep DEF InsertRequest
<1>6. TypeOK'
  BY <1>4, UnlockStatStep DEF InsertRequest, TypeOK, Row
<1>7. BookedRowInv'
  <2>1. \A n \in DOMAIN requests : n \in DOMAIN requests'
    BY <1>4
  <2> QED  BY <1>4, <1>5, <2>1 DEF CoreInv, BookedRowInv
<1>8. PICK last \in Nat : last = Len(requests) + 1
  BY <1>4
<1>9. RowOf(t)'
  <2>1. child_id[t] = t => LastRow(t, last)'
    BY <1>2, <1>4, <1>5, <1>8 DEF LastRow
  <2>2. last \in DOMAIN requests'
    BY <1>4, <1>8
  <2> QED  BY <1>1, <1>5, <2>1, <2>2 DEF RowOf
<1>10. ASSUME NEW u \in Children, u # t
       PROVE  RowOf(u)'
  <2>1. RowOf(u)
    BY DEF CoreInv, RowInv
  <2>2. ASSUME NEW n, LastRow(u, n)
        PROVE  LastRow(u, n)'
    <3>1. n \in DOMAIN requests' /\ requests'[n] = requests[n]
      BY <1>4, <2>2 DEF LastRow
    <3>2. \A m \in DOMAIN requests' : requests'[m].by = u =>
              m \in DOMAIN requests /\ requests'[m] = requests[m]
      BY <1>2, <1>4, <1>10
    <3> QED  BY <1>5, <2>2, <3>1, <3>2 DEF LastRow
  <2>3. ASSUME NEW n, OwnRow(u, n)
        PROVE  OwnRow(u, n)'
    BY <1>4, <1>5, <2>3 DEF OwnRow
  <2>4. (\E n \in DOMAIN requests : LastRow(u, n)) => (\E n \in DOMAIN requests : LastRow(u, n))'
    BY <2>2 DEF LastRow
  <2> QED  BY <1>5, <1>10, <2>1, <2>3, <2>4 DEF RowOf
<1> QED  BY <1>5, <1>6, <1>7, <1>9, <1>10 DEF CoreInv, RowInv

\* The maximum that SELECT finds: the row of this request, or a later one that
\* another thread wrote under this child id before it was registered.
LEMMA SelectMaxStep ==
    ASSUME TypeOK, CoreInv, NEW t \in Children, SelectMax(t), UNCHANGED stats_enabled
    PROVE  TypeOK' /\ CoreInv'
<1>1. PICK n \in DOMAIN requests :
          /\ requests[n].child_id = child_id[t]
          /\ \A m \in DOMAIN requests : requests[m].child_id = child_id[t] => m <= n
          /\ stat_req_id' = [stat_req_id EXCEPT ![t] = n]
  BY DEF SelectMax, RowsOf
<1>2. DOMAIN requests \subseteq Nat /\ \A m \in DOMAIN requests : requests[m].child_id \in Children
  <2> DEFINE Row == [child_id : Children, conn : Conns, by : Children]
  <2>1. requests \in Seq(Row)
    BY DEF TypeOK
  <2>2. \A r \in Row : r.child_id \in Children
    OBVIOUS
  <2> HIDE DEF Row
  <2> QED  BY <2>1, <2>2
<1>3. child_id[t] = t
  <2>1. ECOD_CHILDNOTFOUND \notin Children
    BY DEF ECOD_CHILDNOTFOUND, Children
  <2> QED  BY <1>1, <1>2, <2>1 DEF CoreInv, RowInv, RowOf
<1>4. OwnRow(t, n)
  <2>1. PICK k \in DOMAIN requests : LastRow(t, k)
    BY <1>3 DEF SelectMax, CoreInv, RowInv, RowOf
  <2>2. k <= n /\ (requests[n].by = t => n <= k)
    BY <1>1, <1>3, <2>1 DEF LastRow
  <2>3. CASE requests[n].by = t
    <3>1. n = k
      BY <1>2, <2>2, <2>3
    <3> QED  BY <2>1, <3>1 DEF LastRow, OwnRow
  <2>4. CASE requests[n].by # t
    BY <1>1, <1>3, <2>4 DEF OwnRow
  <2> QED  BY <2>3, <2>4
<1>5. /\ pc'[t] = "serve"
      /\ \A u \in Children : u # t => pc'[u] = pc[u]
      /\ UNCHANGED <<client_sd, child_id, database>>
      /\ ConnInv' /\ StartInv'
  BY UnlockStatStep DEF SelectMax
<1>6. TypeOK'
  <2>1. stat_req_id' \in [Children -> Nat \cup {ECOD_INSERT, ECOD_SELECT}]
    BY <1>1, <1>2 DEF TypeOK
  <2> QED  BY <2>1, UnlockStatStep DEF SelectMax, TypeOK, database
<1>7. BookedRowInv'
  BY <1>5 DEF database, CoreInv, BookedRowInv
<1>8. RowOf(t)'
  <2>1. stat_req_id'[t] = n
    BY <1>1 DEF TypeOK
  <2> QED  BY <1>3, <1>4, <1>5, <2>1 DEF database, RowOf, OwnRow
<1>9. RowInv'
  <2>1. \A u \in Children : u # t => stat_req_id'[u] = stat_req_id[u]
    BY <1>1 DEF TypeOK
  <2> QED  BY <1>5, <1>8, <2>1, RowFrame DEF database, CoreInv
<1> QED  BY <1>5, <1>6, <1>7, <1>9 DEF CoreInv

LEMMA NoIdStep ==
    ASSUME TypeOK, CoreInv, NEW t \in Children, InsertFails(t) \/ SelectFails(t),
           UNCHANGED stats_enabled
    PROVE  TypeOK' /\ CoreInv'
<1>1. PICK code \in {ECOD_INSERT, ECOD_SELECT} :
          stat_req_id' = [stat_req_id EXCEPT ![t] = code]
  BY DEF InsertFails, SelectFails
<1>2. pc[t] \in {"inserting", "selecting"} /\ UnlockStat(t, "serve") /\ MayFail
      /\ UNCHANGED database
  BY DEF InsertFails, SelectFails
<1>3. /\ pc'[t] = "serve"
      /\ \A u \in Children : u # t => pc'[u] = pc[u]
      /\ UNCHANGED <<client_sd, child_id>>
      /\ ConnInv' /\ StartInv'
  BY <1>2, UnlockStatStep
<1>4. TypeOK'
  <2>1. stat_req_id' \in [Children -> Nat \cup {ECOD_INSERT, ECOD_SELECT}]
    BY <1>1 DEF TypeOK
  <2> QED  BY <1>2, <2>1, UnlockStatStep DEF TypeOK, database
<1>5. BookedRowInv'
  BY <1>2 DEF database, CoreInv, BookedRowInv
<1>6. RowOf(t)'
  <2>1. stat_req_id'[t] = code /\ ~ (code >= 0)
    <3>1. DOMAIN stat_req_id = Children
      BY DEF TypeOK
    <3> QED  BY <1>1, <3>1 DEF ECOD_INSERT, ECOD_SELECT
  <2>2. child_id[t] \in {t, ECOD_CHILDNOTFOUND}
    BY DEF CoreInv, RowInv, RowOf
  <2> QED  BY <1>3, <2>1, <2>2 DEF RowOf
<1>7. RowInv'
  <2>1. \A u \in Children : u # t => stat_req_id'[u] = stat_req_id[u]
    BY <1>1 DEF TypeOK
  <2> QED  BY <1>2, <1>3, <1>6, <2>1, RowFrame DEF database, CoreInv
<1> QED  BY <1>3, <1>4, <1>5, <1>7 DEF CoreInv

LEMMA InsertStreamStep ==
    ASSUME TypeOK, CoreInv, NEW t \in Children, InsertStream(t), UNCHANGED stats_enabled
    PROVE  TypeOK' /\ CoreInv'
<1> DEFINE s == [request_id |-> stat_req_id[t], conn |-> client_sd[t]]
<1>1. stat_req_id[t] >= 0 /\ OwnRow(t, stat_req_id[t])
  BY DEF InsertStream, CoreInv, RowInv, RowOf
<1>2. client_sd[t] \in Conns
  BY DEF InsertStream, TypeOK, CoreInv, ConnInv, HoldInv, Identified
<1>3. stat_req_id[t] \in Nat
  <2>1. stat_req_id[t] \in Nat \cup {ECOD_INSERT, ECOD_SELECT}
    BY DEF TypeOK
  <2> QED  BY <1>1, <2>1 DEF ECOD_INSERT, ECOD_SELECT
<1>4. UNCHANGED <<stat_req_id, requests>> /\ (streams' = streams \/ streams' = streams \cup {s})
  BY DEF InsertStream
<1>5. /\ pc'[t] = "close"
      /\ \A u \in Children : u # t => pc'[u] = pc[u]
      /\ UNCHANGED <<client_sd, child_id>>
      /\ ConnInv' /\ StartInv'
  BY UnlockStatStep DEF InsertStream
<1>6. TypeOK'
  <2>1. s \in [request_id : Nat, conn : Conns]
    BY <1>2, <1>3
  <2>2. streams \subseteq [request_id : Nat, conn : Conns]
    BY DEF TypeOK
  <2> HIDE DEF s
  <2>3. streams' \subseteq [request_id : Nat, conn : Conns]
    BY <1>4, <2>1, <2>2
  <2> QED  BY <1>4, <2>3, UnlockStatStep DEF InsertStream, TypeOK
<1>7. BookedRowInv'
  <2>1. /\ s.request_id \in DOMAIN requests
        /\ \/ requests[s.request_id].conn = s.conn
           \/ requests[s.request_id].by # requests[s.request_id].child_id
    BY <1>1 DEF OwnRow
  <2> HIDE DEF s
  <2> QED  BY <1>4, <2>1 DEF CoreInv, BookedRowInv
<1>8. RowOf(t)'
  <2>1. child_id[t] \in {t, ECOD_CHILDNOTFOUND}
    BY DEF CoreInv, RowInv, RowOf
  <2> QED  BY <1>5, <2>1 DEF RowOf
<1>9. RowInv'
  BY <1>4, <1>5, <1>8, RowFrame DEF CoreInv
<1> QED  BY <1>5, <1>6, <1>7, <1>9 DEF CoreInv

LEMMA NewStatStep ==
    ASSUME TypeOK, CoreInv, NEW t \in Children, new_stat(t), UNCHANGED stats_enabled
    PROVE  TypeOK' /\ CoreInv'
BY ComposeInsertStep, NoStatsStep, LockStatStep, InsertRequestStep, NoIdStep, SelectMaxStep,
   InsertStreamStep DEF new_stat

LEMMA NextStep ==
    ASSUME TypeOK, CoreInv, [Next]_vars
    PROVE  TypeOK' /\ CoreInv'
<1>1. CASE Start \/ StartFails
  BY <1>1, StartStep
<1>2. CASE EndProcess
  BY <1>2, EndStep
<1>3. CASE init_conn /\ UNCHANGED process
  BY <1>3, CreateChildStep, AddChildStep DEF init_conn, process
<1>4. ASSUME NEW c \in Conns, Connect(c), UNCHANGED process
      PROVE  TypeOK' /\ CoreInv'
  BY <1>4, ConnectStep DEF process
<1>5. ASSUME NEW t \in Children, child_main(t), UNCHANGED process
      PROVE  TypeOK' /\ CoreInv'
  BY <1>5, LockConnStep, AcceptStep, AcceptFailsStep, ManageRequestStep, NewStatStep, CloseStep
     DEF child_main, process
<1>6. CASE UNCHANGED vars
  <2>1. TypeOK'
    BY <1>6 DEF vars, process, locks, threads, database, network, TypeOK
  <2>2. ConnInv' /\ RowInv'
    BY <1>6, ConnStay, RowStay DEF vars, process, threads, database, network, CoreInv
  <2>3. StartInv' /\ BookedRowInv'
    BY <1>6 DEF vars, threads, database, CoreInv, StartInv, BookedRowInv
  <2> QED  BY <2>1, <2>2, <2>3 DEF CoreInv
<1>7. Signal \/ CreateFails \/ (\E t \in Children : Crash(t)) => EndProcess
  BY DEF Signal, CreateFails, Crash, ComposeCrashes, SelectCrashes
<1> QED  BY <1>1, <1>2, <1>3, <1>4, <1>5, <1>6, <1>7 DEF Next

-----------------------------------------------------------------------------
(* What the steps mean for the clients.                                    *)

\* Nobody connects, is answered or closed, and nothing is booked.
Quiet ==
    /\ UNCHANGED <<client_sd, conns, replies, streams>>
    /\ \A t \in Children : pc[t] = "close" => pc'[t] = "close"

\* manage_request() answers.
Replies(t) ==
    /\ pc[t] \in {"check", "parse", "serve", "lost"}
    /\ \E answer \in Answers, label \in {"close", "stream_stat", "lost"} :
        /\ pc[t] = "lost" => answer = "not found"
        /\ Reply(t, answer, label)

LEMMA ManageRequestCases ==
    ASSUME TypeOK, NEW t \in Children, manage_request(t)
    PROVE  Quiet \/ Replies(t)
<1>1. CASE Admit(t) \/ parse_request(t)
  BY <1>1 DEF Admit, parse_request, Goto, TypeOK, Quiet, network, database
<1>2. CASE Refuse(t) \/ ParseFails(t) \/ SendOk(t) \/ SendFile(t)
  BY <1>2 DEF Refuse, ParseFails, SendOk, SendFile, Replies, Answers
<1>3. CASE SendVideo(t) \/ SendLongVideo(t)
  BY <1>3 DEF SendVideo, SendLongVideo, Replies, Answers
<1>4. CASE NotFound(t)
  BY <1>4 DEF NotFound, Replies, Answers
<1> QED  BY <1>1, <1>2, <1>3, <1>4 DEF manage_request

LEMMA NewStatCases ==
    ASSUME TypeOK, NEW t \in Children, new_stat(t)
    PROVE  Quiet \/ InsertStream(t)
<1>1. CASE ComposeInsert(t) \/ NoStats(t) \/ LockStat(t)
  <2>1. UNCHANGED <<client_sd, conns, replies, streams>>
    BY <1>1 DEF ComposeInsert, NoStats, LockStat, network, database
  <2>2. pc[t] # "close" /\ \E label \in Labels : Goto(t, label)
    BY <1>1 DEF ComposeInsert, NoStats, LockStat, Labels
  <2> QED  BY <2>1, <2>2 DEF Goto, TypeOK, Quiet
<1>2. CASE InsertRequest(t) \/ InsertFails(t) \/ SelectMax(t) \/ SelectFails(t)
  BY <1>2 DEF InsertRequest, InsertFails, SelectMax, SelectFails, UnlockStat, Goto, TypeOK,
     Quiet, network, database
<1> QED  BY <1>1, <1>2 DEF new_stat

LEMMA NextCases ==
    ASSUME TypeOK, CoreInv, [Next]_vars
    PROVE  \/ Quiet
           \/ EndProcess
           \/ \E c \in Conns : Connect(c)
           \/ \E t \in Children : Accept(t) \/ Replies(t) \/ InsertStream(t) \/ Close(t)
<1>1. CASE Start \/ StartFails \/ UNCHANGED vars
  BY <1>1 DEF Start, StartFails, vars, threads, database, network, Quiet
<1>2. CASE Signal \/ CreateFails \/ \E t \in Children : Crash(t)
  BY <1>2 DEF Signal, CreateFails, Crash, ComposeCrashes, SelectCrashes
<1>3. CASE init_conn
  <2>1. UNCHANGED <<client_sd, conns, replies, streams>>
    BY <1>3 DEF init_conn, create_child, atomic_add_child, threads, database, network
  <2>2. CASE create_child
    <3>1. child_num \in Children /\ pc[child_num] = "none"
      BY <2>2, ChildNumber DEF create_child, CoreInv, StartInv
    <3> QED  BY <2>1, <2>2, <3>1 DEF create_child, Goto, TypeOK, Quiet
  <2>3. CASE atomic_add_child
    BY <2>1, <2>3 DEF atomic_add_child, threads, Quiet
  <2> QED  BY <1>3, <2>2, <2>3 DEF init_conn
<1>4. ASSUME NEW t \in Children, LockConn(t) \/ AcceptFails(t)
      PROVE  Quiet
  <2>1. client_sd[t] = NoConn
    BY <1>4 DEF LockConn, AcceptFails, CoreInv, ConnInv, HoldInv
  <2> QED  BY <1>4, <2>1 DEF LockConn, AcceptFails, Goto, TypeOK, database, network, Quiet
<1> QED  BY <1>1, <1>2, <1>3, <1>4, ManageRequestCases, NewStatCases DEF Next, child_main

\* What a reply changes.
LEMMA ReplyTo ==
    ASSUME TypeOK, CoreInv, NEW t \in Children, Replies(t)
    PROVE  /\ pc[t] # "close"
           /\ \A u \in Children : u # t => pc'[u] = pc[u]
           /\ UNCHANGED <<client_sd, conns, streams>>
           /\ \A c \in Conns : ~ Serves(t, c) => replies'[c] = replies[c]
           /\ \A c \in Conns : Serves(t, c) =>
                /\ replies'[c] # "none"
                /\ replies[c] = "none" \/ (replies[c] = "long stream" /\ replies'[c] = "not found")
<1>1. PICK answer \in Answers, label \in {"close", "stream_stat", "lost"} :
        /\ pc[t] = "lost" => answer = "not found"
        /\ Reply(t, answer, label)
  BY DEF Replies
<1>2. \A c \in Conns : replies'[c] = IF Serves(t, c) THEN answer ELSE replies[c]
  BY <1>1, ServerAssumption DEF Reply, TypeOK, Serves
<1>3. \A c \in Conns : Serves(t, c) =>
          replies[c] = "none" \/ (replies[c] = "long stream" /\ answer = "not found")
  <2>1. pc[t] = "lost" \/ pc[t] \in Unanswered
    BY DEF Replies, Unanswered
  <2> QED  BY <1>1, <2>1 DEF CoreInv, ConnInv, ReplyInv
<1>4. /\ pc[t] # "close" /\ UNCHANGED <<client_sd, conns, streams>>
      /\ \A u \in Children : u # t => pc'[u] = pc[u]
  BY <1>1 DEF Replies, Reply, Goto, TypeOK, database
<1>5. answer # "none"
  BY DEF Answers
<1> QED  BY <1>2, <1>3, <1>4, <1>5

-----------------------------------------------------------------------------
(* The invariants that rest on CoreInv.                                    *)

LEMMA StreamConns ==
    ASSUME TypeOK, NEW s \in streams
    PROVE  s.conn \in Conns
BY DEF TypeOK

\* Nothing is booked, and no client that was answered gets another thread.
LEMMA BookFrame ==
    ASSUME TypeOK, BookInv, UNCHANGED streams,
           \A c \in Conns : replies[c] # "none" => replies'[c] # "none",
           \A t \in Children, c \in Conns : Serves(t, c)' /\ replies[c] # "none" =>
               /\ Serves(t, c)
               /\ pc[t] = "close" => pc'[t] = "close"
    PROVE  BookInv'
BY StreamConns DEF BookInv

LEMMA BookStep ==
    ASSUME TypeOK, CoreInv, BookInv, [Next]_vars
    PROVE  BookInv'
<1>1. CASE Quiet
  BY <1>1, BookFrame DEF Quiet, Serves
<1>2. CASE EndProcess
  <2>1. UNCHANGED <<streams, replies>> /\ \A t \in Children : client_sd'[t] = NoConn
    BY <1>2 DEF EndProcess, database
  <2> QED  BY <2>1, BookFrame DEF Serves
<1>3. CASE \E c \in Conns : Connect(c)
  BY <1>3, BookFrame DEF Connect, threads, database, Serves
<1>4. ASSUME NEW t \in Children, Accept(t)
      PROVE  BookInv'
  <2>1. PICK c \in Conns : conns[c] = "queued" /\ client_sd' = [client_sd EXCEPT ![t] = c]
    BY <1>4 DEF Accept
  <2>2. replies[c] = "none"
    BY <2>1 DEF CoreInv, ConnInv, ReplyInv
  <2>3. /\ UNCHANGED <<streams, replies>> /\ client_sd'[t] = c
        /\ \A u \in Children : u # t => pc'[u] = pc[u] /\ client_sd'[u] = client_sd[u]
    BY <1>4, <2>1 DEF Accept, Goto, TypeOK, database
  <2> QED  BY <2>2, <2>3, BookFrame DEF Serves
<1>5. ASSUME NEW t \in Children, Replies(t)
      PROVE  BookInv'
  <2>1. \A c \in Conns : replies[c] # "none" => replies'[c] # "none"
    BY <1>5, ReplyTo
  <2>2. \A u \in Children, c \in Conns : Serves(u, c)' =>
            Serves(u, c) /\ (pc[u] = "close" => pc'[u] = "close")
    BY <1>5, ReplyTo DEF Serves
  <2> QED  BY <1>5, <2>1, <2>2, ReplyTo, BookFrame
<1>6. ASSUME NEW t \in Children, InsertStream(t)
      PROVE  BookInv'
  <2>1. /\ pc[t] = "streaming" /\ pc'[t] = "close"
        /\ \A u \in Children : u # t => pc'[u] = pc[u]
        /\ UNCHANGED <<client_sd, replies>>
    BY <1>6 DEF InsertStream, UnlockStat, Goto, TypeOK, network
  <2>2. \A s \in streams' : s \in streams \/ s.conn = client_sd[t]
    BY <1>6 DEF InsertStream
  <2>3. client_sd[t] \in Conns /\ Serves(t, client_sd[t])
    BY <2>1, ServerAssumption DEF TypeOK, CoreInv, ConnInv, HoldInv, Identified, Serves
  <2>4. replies[client_sd[t]] # "none"
    BY <2>1, <2>3 DEF CoreInv, ConnInv, ReplyInv, Answered
  <2>5. \A u \in Children : Serves(u, client_sd[t]) => u = t
    BY <2>3 DEF CoreInv, ConnInv, OwnerInv
  <2>6. \A s \in streams' : replies'[s.conn] # "none"
    BY <2>1, <2>2, <2>4 DEF BookInv
  <2>7. ASSUME NEW u \in Children, NEW s \in streams', Serves(u, s.conn)'
        PROVE  pc'[u] = "close"
    <3>1. Serves(u, s.conn)
      BY <2>1, <2>7 DEF Serves
    <3> QED  BY <2>1, <2>2, <2>5, <3>1 DEF BookInv
  <2> QED  BY <2>6, <2>7 DEF BookInv
<1>7. ASSUME NEW t \in Children, Close(t)
      PROVE  BookInv'
  <2>1. /\ UNCHANGED <<streams, replies>> /\ client_sd'[t] = NoConn
        /\ \A u \in Children : u # t => pc'[u] = pc[u] /\ client_sd'[u] = client_sd[u]
    BY <1>7 DEF Close, ForgetRequest, Goto, TypeOK, database
  <2> QED  BY <2>1, BookFrame DEF Serves
<1> QED  BY <1>1, <1>2, <1>3, <1>4, <1>5, <1>6, <1>7, NextCases

\* A thread that moves on without a mutex.
LEMMA LockMove ==
    ASSUME TypeOK, LockInv, NEW t \in Children, NEW label, Goto(t, label),
           UNCHANGED <<conn_lock, stat_lock>>,
           label \notin Querying \cup {"accepting"}
    PROVE  LockInv'
<1>1. pc'[t] = label /\ \A u \in Children : u # t => pc'[u] = pc[u]
  BY DEF Goto, TypeOK
<1> QED  BY <1>1 DEF LockInv

\* A thread enters a critical section when its mutex is free, and leaves it with
\* the mutex.
LEMMA LockStep ==
    ASSUME TypeOK, CoreInv, LockInv, [Next]_vars
    PROVE  LockInv'
<1>1. CASE Start \/ StartFails \/ UNCHANGED vars
  BY <1>1 DEF Start, StartFails, vars, locks, threads, LockInv
<1>2. CASE EndProcess
  BY <1>2 DEF EndProcess, LockInv, Querying
<1>3. CASE create_child
  <2>1. child_num \in Children
    BY <1>3, ChildNumber DEF create_child, CoreInv, StartInv
  <2> QED  BY <1>3, <2>1, LockMove DEF create_child, locks, Querying
<1>4. CASE atomic_add_child \/ \E c \in Conns : Connect(c)
  BY <1>4 DEF atomic_add_child, Connect, locks, threads, LockInv
<1>5. ASSUME NEW t \in Children, LockConn(t) \/ Accept(t) \/ AcceptFails(t)
      PROVE  LockInv'
  <2>1. \/ LockConn(t) /\ conn_lock = NoThread /\ conn_lock' = t /\ Goto(t, "accepting")
        \/ pc[t] = "accepting" /\ conn_lock' = NoThread /\ Goto(t, "check")
    BY <1>5 DEF LockConn, Accept, AcceptFails
  <2>2. UNCHANGED stat_lock
    BY <1>5 DEF LockConn, Accept, AcceptFails
  <2>3. NoThread \notin Children
    BY ServerAssumption DEF Children
  <2> QED  BY <2>1, <2>2, <2>3 DEF Goto, TypeOK, LockInv, Querying
<1>6. ASSUME NEW t \in Children,
             manage_request(t) \/ ComposeInsert(t) \/ NoStats(t) \/ Close(t)
      PROVE  LockInv'
  <2>1. UNCHANGED <<conn_lock, stat_lock>>
    BY <1>6 DEF manage_request, Refuse, Admit, ParseFails, parse_request, SendVideo, SendLongVideo,
       NotFound, SendOk, SendFile, Reply, ComposeInsert, NoStats, Close, locks
  <2>2. PICK label \in Labels \ (Querying \cup {"accepting"}) : Goto(t, label)
    BY <1>6 DEF manage_request, Refuse, Admit, ParseFails, parse_request, SendVideo, SendLongVideo,
       NotFound, SendOk, SendFile, Reply, ComposeInsert, NoStats, Close, Labels, Querying
  <2> QED  BY <2>1, <2>2, LockMove
<1>7. ASSUME NEW t \in Children, LockStat(t)
      PROVE  LockInv'
  <2>1. PICK label \in Querying : Goto(t, label)
    BY <1>7 DEF LockStat, Querying
  <2>2. stat_lock = NoThread /\ stat_lock' = t /\ UNCHANGED conn_lock
    BY <1>7 DEF LockStat
  <2>3. NoThread \notin Children
    BY ServerAssumption DEF Children
  <2> QED  BY <2>1, <2>2, <2>3 DEF Goto, TypeOK, LockInv, Querying
<1>8. ASSUME NEW t \in Children, InsertRequest(t) \/ InsertFails(t) \/ SelectMax(t)
             \/ SelectFails(t) \/ InsertStream(t)
      PROVE  LockInv'
  <2>1. PICK label \in {"select", "serve", "close"} : Goto(t, label)
    BY <1>8 DEF InsertRequest, InsertFails, SelectMax, SelectFails, InsertStream, UnlockStat
  <2>2. pc[t] \in Querying /\ UNCHANGED conn_lock
    BY <1>8 DEF InsertRequest, InsertFails, SelectMax, SelectFails, InsertStream, UnlockStat, Querying
  <2>3. NoThread \notin Children
    BY ServerAssumption DEF Children
  <2> QED  BY <2>1, <2>2, <2>3 DEF Goto, TypeOK, LockInv, Querying
<1>9. CASE Signal \/ CreateFails \/ \E t \in Children : Crash(t)
  BY <1>2, <1>9 DEF Signal, CreateFails, Crash, ComposeCrashes, SelectCrashes
<1> QED  BY <1>1, <1>3, <1>4, <1>5, <1>6, <1>7, <1>8, <1>9
         DEF Next, init_conn, child_main, new_stat

-----------------------------------------------------------------------------
(* The theorems.                                                           *)

\* The inductive invariant holds in every state of every server: any number of
\* threads, of clients, of failures, and of ends and starts of the process.
THEOREM ServerInvariant == Spec => [](TypeOK /\ ServerInv)
<1>1. Init => TypeOK /\ ServerInv
  BY InitInv
<1>2. TypeOK /\ ServerInv /\ [Next]_vars => (TypeOK /\ ServerInv)'
  BY NextStep, BookStep, LockStep DEF ServerInv
<1> QED  BY <1>1, <1>2, PTL DEF Spec

\* new_stream_stat() books a stream on the row of the request that asked for it,
\* although SELECT MAX(id) runs in a critical section of its own and the rows
\* outlive the process, as long as no thread wrote a row before it was registered.
THEOREM StreamsBookedOnOwnRequest == Spec => []OwnRequest
<1>1. TypeOK /\ ServerInv => OwnRequest
  <2> SUFFICES ASSUME BookedRowInv,
                      \A n \in DOMAIN requests : requests[n].by = requests[n].child_id,
                      NEW s \in streams
               PROVE  RefersToOwn(s)
    BY DEF ServerInv, CoreInv, OwnRequest
  <2> QED  BY DEF BookedRowInv, RefersToOwn
<1> QED  BY <1>1, ServerInvariant, PTL

\* child_main() never shares a connection with another thread, and never
\* closes one whose client was not answered.
THEOREM ConnectionsServedOnce == Spec => []ServedOnce
<1>1. ASSUME TypeOK, CoreInv
      PROVE  ServedOnce
  <2>1. ASSUME NEW t \in Children, NEW u \in Children,
               client_sd[t] = client_sd[u], client_sd[t] # NoConn
        PROVE  t = u
    <3>1. client_sd[t] \in Conns
      BY <1>1, <2>1 DEF TypeOK
    <3> QED  BY <1>1, <2>1, <3>1 DEF CoreInv, ConnInv, OwnerInv, Serves
  <2>2. \A c \in Conns : conns[c] = "closed" => replies[c] # "none"
    BY <1>1 DEF CoreInv, ConnInv, ReplyInv
  <2> QED  BY <2>1, <2>2 DEF ServedOnce
<1> QED  BY <1>1, ServerInvariant, PTL DEF ServerInv

\* Two threads never use the connection to the database at the same time, and
\* never wait in accept() at the same time.
THEOREM QueriesExclusive == Spec => []OneQuery
<1>1. LockInv => OneQuery
  BY DEF LockInv, OneQuery
<1> QED  BY <1>1, ServerInvariant, PTL DEF ServerInv

\* manage_request() gives each client one answer, whichever way it returns.
THEOREM ClientsAnsweredOnce == Spec => AnsweredOnce
<1> DEFINE Once(c) == \/ replies'[c] = replies[c]
                      \/ replies[c] = "long stream" /\ replies'[c] = "not found"
<1>1. ASSUME TypeOK, CoreInv, [Next]_vars, NEW c \in Conns, replies[c] # "none"
      PROVE  Once(c)
  <2>1. CASE Quiet \/ EndProcess \/ \E d \in Conns : Connect(d)
    BY <2>1 DEF Quiet, EndProcess, Connect
  <2>2. ASSUME NEW t \in Children, Accept(t) \/ InsertStream(t) \/ Close(t)
        PROVE  Once(c)
    BY <2>2 DEF Accept, InsertStream, UnlockStat, Close, network
  <2>3. ASSUME NEW t \in Children, Replies(t)
        PROVE  Once(c)
    BY <1>1, <2>3, ReplyTo
  <2> QED  BY <1>1, <2>1, <2>2, <2>3, NextCases
<1>2. TypeOK /\ ServerInv /\ [Next]_vars => [\A c \in Conns : replies[c] # "none" => Once(c)]_vars
  BY <1>1 DEF ServerInv
<1> QED  BY <1>2, ServerInvariant, PTL DEF Spec, AnsweredOnce

-----------------------------------------------------------------------------
(* The refinement: every step is one of Service, or a stutter.             *)

Client == [c \in Conns |-> ClientState(c)]
Booked == { s.conn : s \in streams }

LEMMA ClientAfter ==
    ASSUME NEW c \in Conns, conns'[c] = conns[c],
           conns[c] = "accepted" => (replies'[c] = "none" <=> replies[c] = "none")
    PROVE  ClientState(c)' = ClientState(c)
BY DEF ClientState

\* Nothing a client can see.
LEMMA Stutters ==
    ASSUME UNCHANGED streams, \A c \in Conns : ClientState(c)' = ClientState(c)
    PROVE  UNCHANGED <<Client, Booked>>
BY DEF Client, Booked

\* One client goes on.
LEMMA ClientSteps ==
    ASSUME UNCHANGED streams, NEW c \in Conns,
           \A d \in Conns : d # c => ClientState(d)' = ClientState(d)
    PROVE  /\ UNCHANGED Booked
           /\ Client' = [Client EXCEPT ![c] = ClientState(c)']
BY DEF Client, Booked

LEMMA ReplyPromised ==
    ASSUME TypeOK, CoreInv, NEW t \in Children, Replies(t)
    PROVE  Promise!Next \/ UNCHANGED <<Client, Booked>>
<1>1. ASSUME NEW c \in Conns, ~ Serves(t, c)
      PROVE  ClientState(c)' = ClientState(c)
  BY <1>1, ReplyTo, ClientAfter
<1>2. CASE \E c \in Conns : Serves(t, c) /\ replies[c] = "none"
  <2>1. PICK c \in Conns : Serves(t, c) /\ replies[c] = "none"
    BY <1>2
  <2>2. conns[c] = "accepted" /\ conns'[c] = "accepted" /\ replies'[c] # "none"
    BY <2>1, ReplyTo DEF CoreInv, ConnInv, OwnerInv
  <2>3. ClientState(c) = "connected" /\ ClientState(c)' = "answered"
    BY <2>1, <2>2 DEF ClientState
  <2>4. \A d \in Conns : d # c => ClientState(d)' = ClientState(d)
    BY <1>1, <2>1 DEF Serves
  <2>5. UNCHANGED Booked /\ Client' = [Client EXCEPT ![c] = "answered"] /\ Client[c] = "connected"
    BY <2>3, <2>4, ReplyTo, ClientSteps DEF Client
  <2> QED  BY <2>5 DEF Promise!Next, Promise!Answer, Promise!Step, Client, Booked
<1>3. CASE ~ \E c \in Conns : Serves(t, c) /\ replies[c] = "none"
  <2>1. ASSUME NEW c \in Conns, Serves(t, c)
        PROVE  ClientState(c)' = ClientState(c)
    <3>1. replies[c] # "none" /\ replies'[c] # "none" /\ conns'[c] = conns[c]
      BY <1>3, <2>1, ReplyTo
    <3> QED  BY <3>1, ClientAfter
  <2> QED  BY <1>1, <2>1, ReplyTo, Stutters
<1> QED  BY <1>2, <1>3

LEMMA ConnectPromised ==
    ASSUME TypeOK, NEW c \in Conns, Connect(c)
    PROVE  Promise!Next
<1>1. /\ conns[c] = "new" /\ conns'[c] = "queued" /\ UNCHANGED <<replies, streams>>
      /\ \A d \in Conns : d # c => conns'[d] = conns[d]
  BY DEF Connect, TypeOK, database
<1>2. \A d \in Conns : d # c => ClientState(d)' = ClientState(d)
  BY <1>1, ClientAfter
<1>3. ClientState(c) = "new" /\ ClientState(c)' = "connected"
  BY <1>1 DEF ClientState
<1>4. UNCHANGED Booked /\ Client' = [Client EXCEPT ![c] = "connected"] /\ Client[c] = "new"
  BY <1>1, <1>2, <1>3, ClientSteps DEF Client
<1> QED  BY <1>4 DEF Promise!Next, Promise!Connect, Promise!Step, Client, Booked

LEMMA AcceptPromised ==
    ASSUME TypeOK, CoreInv, NEW t \in Children, Accept(t)
    PROVE  UNCHANGED <<Client, Booked>>
<1>1. PICK c \in Conns : conns[c] = "queued" /\ conns' = [conns EXCEPT ![c] = "accepted"]
  BY DEF Accept
<1>2. /\ conns'[c] = "accepted" /\ UNCHANGED <<replies, streams>>
      /\ \A d \in Conns : d # c => conns'[d] = conns[d]
  BY <1>1 DEF Accept, TypeOK, database
<1>3. replies[c] = "none"
  BY <1>1 DEF CoreInv, ConnInv, ReplyInv
<1>4. ClientState(c)' = ClientState(c)
  BY <1>1, <1>2, <1>3 DEF ClientState
<1>5. \A d \in Conns : d # c => ClientState(d)' = ClientState(d)
  BY <1>2, ClientAfter
<1> QED  BY <1>2, <1>4, <1>5, Stutters

LEMMA ClosePromised ==
    ASSUME TypeOK, CoreInv, NEW t \in Children, Close(t)
    PROVE  Promise!Next \/ UNCHANGED <<Client, Booked>>
<1>1. UNCHANGED <<replies, streams>>
  BY DEF Close, database
<1>2. CASE client_sd[t] = NoConn
  <2>1. UNCHANGED conns
    BY <1>2 DEF Close
  <2> QED  BY <1>1, <2>1, ClientAfter, Stutters
<1>3. CASE client_sd[t] # NoConn
  <2>1. PICK c \in Conns : client_sd[t] = c
    BY <1>3 DEF TypeOK
  <2>2. conns[c] = "accepted" /\ replies[c] # "none"
    BY <1>3, <2>1 DEF Close, CoreInv, ConnInv, OwnerInv, ReplyInv, Serves, Answered
  <2>3. conns'[c] = "closed" /\ \A d \in Conns : d # c => conns'[d] = conns[d]
    BY <1>3, <2>1 DEF Close, TypeOK
  <2>4. ClientState(c) = "answered" /\ ClientState(c)' = "closed"
    BY <2>2, <2>3 DEF ClientState
  <2>5. \A d \in Conns : d # c => ClientState(d)' = ClientState(d)
    BY <1>1, <2>3, ClientAfter
  <2>6. UNCHANGED Booked /\ Client' = [Client EXCEPT ![c] = "closed"] /\ Client[c] = "answered"
    BY <1>1, <2>4, <2>5, ClientSteps DEF Client
  <2> QED  BY <2>6 DEF Promise!Next, Promise!Close, Promise!Step, Client, Booked
<1> QED  BY <1>2, <1>3

LEMMA InsertStreamPromised ==
    ASSUME TypeOK, CoreInv, BookInv, NEW t \in Children, InsertStream(t)
    PROVE  Promise!Next \/ UNCHANGED <<Client, Booked>>
<1>1. UNCHANGED <<conns, replies>> /\ pc[t] = "streaming"
  BY DEF InsertStream, UnlockStat, network
<1>2. UNCHANGED Client
  BY <1>1, ClientAfter DEF Client
<1>3. CASE UNCHANGED streams
  BY <1>2, <1>3 DEF Booked
<1>4. CASE streams' = streams \cup {[request_id |-> stat_req_id[t], conn |-> client_sd[t]]}
  <2>1. PICK c \in Conns : client_sd[t] = c /\ Serves(t, c)
    BY <1>1, ServerAssumption DEF TypeOK, CoreInv, ConnInv, HoldInv, Identified, Serves
  <2>2. Booked' = Booked \cup {c}
    <3> DEFINE s == [request_id |-> stat_req_id[t], conn |-> client_sd[t]]
    <3>1. streams' = streams \cup {s} /\ s.conn = c
      BY <1>4, <2>1
    <3> HIDE DEF s
    <3> QED  BY <3>1, Zenon DEF Booked
  <2>3. c \notin Booked
    BY <1>1, <2>1 DEF BookInv, Booked
  <2>4. conns[c] = "accepted" /\ replies[c] # "none"
    BY <1>1, <2>1 DEF CoreInv, ConnInv, OwnerInv, ReplyInv, Answered
  <2>5. Client[c] = "answered"
    BY <2>4 DEF Client, ClientState
  <2> QED  BY <1>2, <2>2, <2>3, <2>5 DEF Promise!Next, Promise!Book, Client, Booked
<1> QED  BY <1>3, <1>4 DEF InsertStream

LEMMA EndPromised ==
    ASSUME TypeOK, CoreInv, EndProcess
    PROVE  Promise!Next
<1>1. UNCHANGED <<replies, streams>>
  BY DEF EndProcess, database
<1>2. UNCHANGED Booked
  BY <1>1 DEF Booked
<1>3. ASSUME NEW c \in Conns
      PROVE  ClientState(c)' = IF ClientState(c) \in {"connected", "answered"} THEN "lost"
                               ELSE ClientState(c)
  <2>1. conns'[c] = IF conns[c] \in {"queued", "accepted"} THEN "reset" ELSE conns[c]
    BY DEF EndProcess
  <2>2. conns[c] \in {"new", "queued", "accepted", "closed", "reset"}
    BY DEF TypeOK
  <2> QED  BY <2>1, <2>2 DEF ClientState
<1>4. Client' = [c \in Conns |->
          IF Client[c] \in {"connected", "answered"} THEN "lost" ELSE Client[c]]
  BY <1>3 DEF Client
<1> QED  BY <1>2, <1>4 DEF Promise!Next, Promise!End, Client, Booked

\* The server implements Service: no client is answered before it is connected
\* or closed before it is answered, no stream is booked twice or before its
\* client has it, and the end of the process loses every client that is there.
THEOREM ServerImplementsService == Spec => ImplementsService
<1>1. Init => Promise!Init
  BY DEF Init, Promise!Init, ClientState
<1>2. TypeOK /\ ServerInv /\ [Next]_vars => [Promise!Next]_(Promise!vars)
  <2> SUFFICES ASSUME TypeOK, CoreInv, BookInv, [Next]_vars
               PROVE  Promise!Next \/ UNCHANGED <<Client, Booked>>
    BY DEF ServerInv, Promise!vars, Client, Booked
  <2>1. CASE Quiet
    <3>1. UNCHANGED <<conns, replies, streams>>
      BY <2>1 DEF Quiet
    <3>2. \A c \in Conns : ClientState(c)' = ClientState(c)
      BY <3>1, ClientAfter
    <3> QED  BY <3>1, <3>2, Stutters
  <2>2. CASE EndProcess
    BY <2>2, EndPromised
  <2>3. CASE \E c \in Conns : Connect(c)
    BY <2>3, ConnectPromised
  <2>4. CASE \E t \in Children : Accept(t) \/ Replies(t) \/ InsertStream(t) \/ Close(t)
    BY <2>4, AcceptPromised, ReplyPromised, InsertStreamPromised, ClosePromised
  <2> QED  BY <2>1, <2>2, <2>3, <2>4, NextCases
<1> QED  BY <1>1, <1>2, ServerInvariant, PTL DEF Spec, ImplementsService, Promise!Spec

-----------------------------------------------------------------------------
(* The counters of the children.                                           *)

LEMMA CountersFinite ==
    ASSUME TypeOK
    PROVE  /\ IsFiniteSet(Children) /\ DOMAIN conn_count = Children
           /\ \A t \in Children : conn_count[t] \in Int
           /\ SumFunction(conn_count) \in Int
<1>1. IsFiniteSet(Children)
  BY ServerAssumption, FS_Interval DEF Children
<1>2. DOMAIN conn_count = Children /\ \A t \in Children : conn_count[t] \in Int
  BY DEF TypeOK
<1> QED  BY <1>1, <1>2, SumWithout DEF SumFunction

\* Counters that are reset.
LEMMA NoCount == SumFunction([t \in Children |-> 0]) = 0
<1> DEFINE F == [t \in Children |-> 0]
<1>1. IsFiniteSet(Children)
  BY ServerAssumption, FS_Interval DEF Children
<1>2. DOMAIN F = Children /\ \A t \in Children : F[t] = 0
  OBVIOUS
<1> HIDE DEF F
<1>3. SumFunction(F) = 0
  BY <1>1, <1>2, SumOfZeros DEF SumFunction
<1> QED  BY <1>3 DEF F

\* A child counts one more return of accept().
LEMMA CountOne ==
    ASSUME TypeOK, NEW t \in Children, conn_count' = [conn_count EXCEPT ![t] = @ + 1]
    PROVE  SumFunction(conn_count') = SumFunction(conn_count) + 1
<1> DEFINE more == [conn_count EXCEPT ![t] = @ + 1]
<1>1. /\ DOMAIN more = Children /\ more[t] = conn_count[t] + 1
      /\ \A u \in Children : /\ more[u] \in Int
                             /\ u # t => conn_count[u] = more[u]
  BY DEF TypeOK
<1> HIDE DEF more
<1>2. SumFunctionOnSet(more, Children)
        = SumFunctionOnSet(conn_count, Children) + (more[t] - conn_count[t])
  BY <1>1, CountersFinite, SumOfChanged
<1>3. conn_count[t] \in Int /\ SumFunction(conn_count) \in Int
  BY CountersFinite
<1>4. SumFunction(more) = SumFunction(conn_count) + 1
  BY <1>1, <1>2, <1>3, CountersFinite DEF SumFunction
<1> QED  BY <1>4 DEF more

\* What the counters are compared with does not change.
LEMMA CountStay ==
    ASSUME CountInv, UNCHANGED <<conn_count, failed_accepts, earlier>>,
           \A c \in Conns :
                \/ conns'[c] = conns[c]
                \/ conns[c] = "new" /\ conns'[c] = "queued"
                \/ conns[c] = "accepted" /\ conns'[c] = "closed"
    PROVE  CountInv'
<1>1. Accepted' = Accepted
  <2>1. ASSUME NEW c \in Conns
        PROVE  conns'[c] \in {"accepted", "closed"} <=> conns[c] \in {"accepted", "closed"}
    OBVIOUS
  <2> QED  BY <2>1 DEF Accepted
<1>2. earlier' \subseteq { c \in Conns : conns'[c] = "closed" }
  BY DEF CountInv
<1> QED  BY <1>1, <1>2 DEF CountInv, CountersAddUp, Accepted

LEMMA CountStep ==
    ASSUME TypeOK, CoreInv, CountInv, [Next]_vars
    PROVE  CountInv'
<1>1. CASE UNCHANGED <<conn_count, failed_accepts, earlier, conns>>
  BY <1>1, CountStay
<1>2. CASE EndProcess
  <2>1. /\ conn_count' = [t \in Children |-> 0] /\ failed_accepts' = 0
        /\ earlier' = { c \in Conns : conns[c] = "closed" }
        /\ conns' = [c \in Conns |-> IF conns[c] \in {"queued", "accepted"} THEN "reset"
                                     ELSE conns[c]]
    BY <1>2 DEF EndProcess
  <2>2. Accepted' = {}
    BY <2>1 DEF Accepted
  <2>3. IsFiniteSet(Accepted') /\ Cardinality(Accepted') = 0
    BY <2>2, FS_EmptySet
  <2>4. SumFunction(conn_count') = 0
    BY <2>1, NoCount
  <2>5. earlier' \subseteq { c \in Conns : conns'[c] = "closed" }
    BY <2>1
  <2> QED  BY <2>1, <2>3, <2>4, <2>5 DEF CountInv, CountersAddUp, Accepted
<1>3. ASSUME NEW c \in Conns, Connect(c), UNCHANGED process
      PROVE  CountInv'
  BY <1>3, CountStay DEF Connect, process, TypeOK
<1>4. ASSUME NEW t \in Children, Accept(t), UNCHANGED process
      PROVE  CountInv'
  <2>1. PICK c \in Conns : conns[c] = "queued" /\ conns' = [conns EXCEPT ![c] = "accepted"]
    BY <1>4 DEF Accept
  <2>2. /\ conn_count' = [conn_count EXCEPT ![t] = @ + 1]
        /\ UNCHANGED <<failed_accepts, earlier>>
    BY <1>4 DEF Accept, process
  <2>3. /\ conns'[c] = "accepted"
        /\ \A d \in Conns : d # c => conns'[d] = conns[d]
    BY <2>1 DEF TypeOK
  <2>4. c \notin earlier /\ c \notin Accepted
    BY <2>1 DEF CountInv, Accepted
  <2>5. Accepted' = Accepted \cup {c}
    BY <2>2, <2>3, <2>4 DEF Accepted
  <2>6. /\ IsFiniteSet(Accepted') /\ Cardinality(Accepted') = Cardinality(Accepted) + 1
    BY <2>4, <2>5, FS_AddElement DEF CountInv
  <2>7. Cardinality(Accepted) \in Nat
    BY FS_CardinalityType DEF CountInv
  <2>8. SumFunction(conn_count') = SumFunction(conn_count) + 1
    BY <2>2, CountOne
  <2>9. earlier' \subseteq { d \in Conns : conns'[d] = "closed" }
    BY <2>2, <2>3, <2>4 DEF CountInv
  <2> QED  BY <2>2, <2>6, <2>7, <2>8, <2>9 DEF CountInv, CountersAddUp, Accepted
<1>5. ASSUME NEW t \in Children, AcceptFails(t), UNCHANGED process
      PROVE  CountInv'
  <2>1. /\ conn_count' = [conn_count EXCEPT ![t] = @ + 1]
        /\ failed_accepts' = failed_accepts + 1
        /\ UNCHANGED <<conns, earlier>>
    BY <1>5 DEF AcceptFails, process
  <2>2. SumFunction(conn_count') = SumFunction(conn_count) + 1
    BY <2>1, CountOne
  <2>3. Cardinality(Accepted) \in Nat /\ failed_accepts \in Nat
    BY FS_CardinalityType DEF CountInv
  <2>4. Accepted' = Accepted
    BY <2>1 DEF Accepted
  <2> QED  BY <2>1, <2>2, <2>3, <2>4 DEF CountInv, CountersAddUp, Accepted
<1>6. ASSUME NEW t \in Children, Close(t), UNCHANGED process
      PROVE  CountInv'
  <2>1. UNCHANGED <<conn_count, failed_accepts, earlier>>
    BY <1>6 DEF Close, process
  <2>2. ASSUME NEW c \in Conns
        PROVE  \/ conns'[c] = conns[c]
               \/ conns[c] = "accepted" /\ conns'[c] = "closed"
    <3>1. CASE client_sd[t] = NoConn
      BY <1>6, <3>1 DEF Close
    <3>2. CASE client_sd[t] # NoConn
      <4>1. client_sd[t] \in Conns /\ conns[client_sd[t]] = "accepted"
        BY <3>2 DEF TypeOK, CoreInv, ConnInv, OwnerInv, Serves
      <4> QED  BY <1>6, <3>2, <4>1 DEF Close, TypeOK
    <3> QED  BY <3>1, <3>2
  <2> QED  BY <2>1, <2>2, CountStay
<1>7. ASSUME NEW t \in Children, UNCHANGED process,
             LockConn(t) \/ manage_request(t) \/ new_stat(t)
      PROVE  UNCHANGED <<conn_count, failed_accepts, earlier, conns>>
  BY <1>7 DEF process, network, LockConn, manage_request, Refuse, Admit, ParseFails,
              parse_request, SendVideo, SendLongVideo, NotFound, SendOk, SendFile, Reply,
              new_stat, ComposeInsert, NoStats, LockStat, InsertRequest, InsertFails,
              SelectMax, SelectFails, InsertStream, UnlockStat
<1>8. CASE Start \/ StartFails \/ (init_conn /\ UNCHANGED process) \/ UNCHANGED vars
  BY <1>1, <1>8 DEF Start, StartFails, init_conn, create_child, atomic_add_child, process,
                    network, vars
<1>9. Signal \/ CreateFails \/ (\E t \in Children : Crash(t)) => EndProcess
  BY DEF Signal, CreateFails, Crash, ComposeCrashes, SelectCrashes
<1>10. CASE \E t \in Children : child_main(t) /\ UNCHANGED process
  BY <1>1, <1>4, <1>5, <1>6, <1>7, <1>10 DEF child_main
<1> QED  BY <1>2, <1>3, <1>8, <1>9, <1>10 DEF Next

\* What get_conn_served() reports is the number of connections that this process
\* accepted and of those it failed to, over any number of earlier processes.
THEOREM CountersExact == Spec => []CountersAddUp
<1>1. Init => CountInv
  <2> SUFFICES ASSUME Init
               PROVE  CountInv
    OBVIOUS
  <2>1. Accepted = {} /\ earlier = {} /\ failed_accepts = 0
    BY DEF Init, Accepted
  <2>2. IsFiniteSet(Accepted) /\ Cardinality(Accepted) = 0
    BY <2>1, FS_EmptySet
  <2>3. SumFunction(conn_count) = 0
    BY NoCount DEF Init
  <2> QED  BY <2>1, <2>2, <2>3 DEF CountInv, CountersAddUp, Accepted
<1>2. TypeOK /\ CoreInv /\ CountInv /\ [Next]_vars => CountInv'
  BY CountStep
<1>3. CountInv => CountersAddUp
  BY DEF CountInv
<1>4. TypeOK /\ ServerInv => CoreInv
  BY DEF ServerInv
<1> QED  BY <1>1, <1>2, <1>3, <1>4, ServerInvariant, PTL DEF Spec
=============================================================================
