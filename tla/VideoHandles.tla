----------------------------- MODULE VideoHandles -----------------------------
(***************************************************************************)
(* What load_video() and unload_video() of src/server/stream.c promise to  *)
(* send_video(), free of locks, vectors, counters and files: a request     *)
(* opens a video, shared with everybody who has it open or loaded anew at  *)
(* an address nobody uses, and closes it. A video is in memory exactly     *)
(* while somebody has it open, and its identity does not change meanwhile. *)
(***************************************************************************)
CONSTANTS
    Threads,
    Videos,         \* addresses
    NoVideo,
    Ids,            \* identities of videos
    NoId,
    Unique          \* two videos that are open never have the same identity

VARIABLES
    handle,         \* the video each thread has open
    identity        \* the identity of the video at each address

vars == <<handle, identity>>

Open == { v \in Videos : \E t \in Threads : handle[t] = v }

Init ==
    /\ handle = [t \in Threads |-> NoVideo]
    /\ identity = [v \in Videos |-> NoId]

\* Join the others who have the video open.
Share(t, v) ==
    /\ handle[t] = NoVideo
    /\ v \in Open
    /\ handle' = [handle EXCEPT ![t] = v]
    /\ UNCHANGED identity

\* Load it at a free address.
Load(t, v, id) ==
    /\ handle[t] = NoVideo
    /\ v \notin Open
    /\ Unique => \A w \in Open : identity[w] # id
    /\ handle' = [handle EXCEPT ![t] = v]
    /\ identity' = [identity EXCEPT ![v] = id]

\* The last one to close the video frees its address.
Close(t) ==
    LET v == handle[t] IN
    /\ v # NoVideo
    /\ handle' = [handle EXCEPT ![t] = NoVideo]
    /\ identity' = [identity EXCEPT ![v] =
            IF \E u \in Threads \ {t} : handle[u] = v THEN @ ELSE NoId]

Next ==
    \E t \in Threads :
        \/ \E v \in Videos : Share(t, v) \/ \E id \in Ids : Load(t, v, id)
        \/ Close(t)

Spec == Init /\ [][Next]_vars
=============================================================================
