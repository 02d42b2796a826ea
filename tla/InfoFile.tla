------------------------------ MODULE InfoFile ------------------------------
(***************************************************************************)
(* The info file (data.txt) of a directory of videos. The chopper          *)
(* (src/chopper) analyses the video files and writes the file in place,    *)
(* one write() after the other; load_video() of the server reads it, at    *)
(* any moment, and the video files it names. Nothing but the file system   *)
(* is between the two programs, and somebody else manages the videos.      *)
(*                                                                         *)
(* The path and the sign at the head of the file are left out, and what    *)
(* the server does with them is in VideoCache.                             *)
(***************************************************************************)
EXTENDS Integers, Sequences, FiniteSets, Functions, SequencesExt

CONSTANTS
    NumFiles,       \* video files of the directory, in the order of alphasort()
    Contents,       \* contents of a video file, and what libavcodec says of it
    Missing,        \* there is no such file
    Torn,           \* an info file that may have any text
    AnyNumbers,     \* numbers in a text that may be any
    UshortRange,    \* stands for 2^16
    NoStream,       \* NULL for a Stream
    MaxRuns,        \* bound: runs of the chopper
    MaxChanges      \* bound: video files removed or replaced

Files == 1 .. NumFiles
Stream(f, offs) == [filename |-> f, iframe_offset |-> offs]

\* The lines of the info file are made of these.
NL == [kind |-> "newline"]
Name(f) == [kind |-> "name", val |-> f]
Num(n) == [kind |-> "number", val |-> n]
Tokens == {NL} \cup [kind : {"name"}, val : Files] \cup [kind : {"number"}, val : Nat]

\* url_ftell() was behind the last frame that was no i-frame, before the packet of
\* the i-frame was read: the offsets do not decrease and are inside the file.
ASSUME InfoFileAssumption ==
    /\ {NumFiles, MaxRuns, MaxChanges} \subseteq Nat
    /\ \A c \in Contents :
        /\ DOMAIN c = {"data_size", "duration", "iframe_offset", "decodes"}
        /\ {c.data_size, c.duration} \subseteq Nat /\ c.decodes \in BOOLEAN
        /\ c.iframe_offset \in Seq(0 .. c.data_size - 1)
        /\ \A j, k \in DOMAIN c.iframe_offset : j <= k => c.iframe_offset[j] <= c.iframe_offset[k]
        /\ \A f \in Files : NoStream # Stream(f, c.iframe_offset)
    /\ Missing \notin Contents /\ {Missing, Torn} \cap Seq(Tokens) = {} /\ Missing # Torn
    /\ AnyNumbers \subseteq Nat
    /\ UshortRange \in Nat \ {0}

VARIABLES
    disk,           \* the video files
    info,           \* the info file: a sequence of tokens, or Missing, or Torn
    chopper,        \* where load_videos() of the chopper is
    video_files,    \* its local variables
    streams,
    num_entries,
    i,
    j,
    loader,         \* where load_video() of the server is
    file_data,      \* its local variables
    offset,
    stream_num,
    data,           \* the length of the data in memory of the stream it loads
    loaded,
    runs,           \* history: runs of the chopper, and how the last one ended
    outcome,
    written,        \* history: the streams that belong in the info file
    origin,         \* history: those of the info file that was read
    rewritten,      \* history: was it emptied after the server looked at its size?
    changed,        \* history: video files removed or replaced
    meanwhile       \* history: those of them that were while the server loaded

choppers == <<chopper, video_files, streams, num_entries, i, j, runs, outcome, written>>
loaders == <<loader, file_data, offset, stream_num, data, loaded, origin, meanwhile>>
outside == <<disk, changed>>
infos == <<info, rewritten>>
vars == <<infos, choppers, loaders, outside>>

NoOrigin == [streams |-> {}, complete |-> FALSE, torn |-> FALSE]

Init ==
    /\ disk \in [Files -> Contents]
    /\ info = Missing
    /\ rewritten = FALSE
    /\ chopper = "idle" /\ video_files = <<>> /\ streams = <<>>
    /\ num_entries = 0 /\ i = 1 /\ j = 1
    /\ loader = "idle" /\ file_data = <<>> /\ offset = 0 /\ stream_num = 0 /\ data = 0
    /\ loaded = <<>>
    /\ runs = 0 /\ outcome = "none"
    /\ written = {} /\ origin = NoOrigin /\ changed = {} /\ meanwhile = {}

-----------------------------------------------------------------------------
(* The chopper: load_videos().                                             *)

\* scandir() with alphasort().
Alphasort(names) ==
    { s \in [1 .. Cardinality(names) -> names] : \A k, l \in DOMAIN s : k < l => s[k] < s[l] }

Scan ==
    /\ chopper = "idle"
    /\ runs < MaxRuns
    /\ \E f \in Files : disk[f] # Missing
    /\ video_files' \in Alphasort({ f \in Files : disk[f] # Missing })
    /\ num_entries' = Len(video_files')
    /\ streams' = <<>>
    /\ i' = 1
    /\ chopper' = "load"
    /\ runs' = runs + 1
    /\ outcome' = "none"
    /\ UNCHANGED <<infos, j, written, loaders, outside>>

\* load_stream(): NULL for a file that is gone or cannot be decoded.
load_stream(f) ==
    IF disk[f] = Missing THEN NoStream
    ELSE IF disk[f].decodes THEN Stream(f, disk[f].iframe_offset) ELSE NoStream

\* A stream that is NULL stays in the vector and shortens the loop.
LoadStream ==
    /\ chopper = "load"
    /\ i <= num_entries
    /\ streams' = Append(streams, load_stream(video_files[i]))
    /\ num_entries' = IF Last(streams') = NoStream THEN num_entries - 1 ELSE num_entries
    /\ i' = i + 1
    /\ UNCHANGED <<infos, chopper, video_files, j, runs, outcome, written, loaders, outside>>

\* compare_stream_size() casts the elements of the vector to Stream, they are
\* Stream *: it compares bytes of other pointers, and any order may result.
Qsort(s) == { [k \in DOMAIN s |-> s[p[k]]] : p \in Bijection(DOMAIN s, DOMAIN s) }

\* The vector is sorted, and save_common_info() empties the info file.
Truncate ==
    /\ chopper = "load"
    /\ i > num_entries
    /\ streams' \in Qsort(SubSeq(streams, 1, num_entries))
    /\ info' = <<>> /\ rewritten' = (loader = "read")
    /\ written' = ToSet(streams') \ {NoStream}
    /\ chopper' = "header"
    /\ UNCHANGED <<video_files, num_entries, i, j, runs, outcome, loaders, outside>>

\* write(), whose result is not looked at. It may fail, or write a part that ends
\* inside a number, and what the next one writes may continue that number.
Write(tokens) ==
    /\ \/ info # Torn /\ info' = info \o tokens
       \/ info' = Torn
    /\ UNCHANGED <<rewritten, outside>>

WriteHeader ==
    /\ chopper = "header"
    /\ Write(<<Num(num_entries), NL>>)
    /\ i' = 1
    /\ chopper' = "stream"
    /\ UNCHANGED <<video_files, streams, num_entries, j, runs, outcome, written, loaders>>

\* save_stream_info() for the next stream: name and number of i-frames.
WriteName ==
    /\ chopper = "stream"
    /\ i <= num_entries
    /\ streams[i] # NoStream
    /\ Write(<<Name(streams[i].filename), NL, Num(Len(streams[i].iframe_offset)), NL>>)
    /\ j' = 1
    /\ chopper' = "offsets"
    /\ UNCHANGED <<video_files, streams, num_entries, i, runs, outcome, written, loaders>>

WriteOffset ==
    /\ chopper = "offsets"
    /\ j <= Len(streams[i].iframe_offset)
    /\ Write(<<Num(streams[i].iframe_offset[j])>>)
    /\ j' = j + 1
    /\ UNCHANGED <<chopper, video_files, streams, num_entries, i, runs, outcome, written, loaders>>

\* Defect: the line of offsets is not closed.
WriteEndOpen ==
    /\ chopper = "offsets"
    /\ j > Len(streams[i].iframe_offset)
    /\ i' = i + 1
    /\ chopper' = "stream"
    /\ UNCHANGED <<infos, video_files, streams, num_entries, j, runs, outcome, written, loaders, outside>>

WriteEnd ==
    /\ chopper = "offsets"
    /\ j > Len(streams[i].iframe_offset)
    /\ Write(<<NL>>)
    /\ i' = i + 1
    /\ chopper' = "stream"
    /\ UNCHANGED <<video_files, streams, num_entries, j, runs, outcome, written, loaders>>

\* The process ends, and its variables with it.
Ends(how) ==
    /\ chopper' = "idle"
    /\ outcome' = how
    /\ video_files' = <<>> /\ streams' = <<>>
    /\ num_entries' = 0 /\ i' = 1 /\ j' = 1
    /\ UNCHANGED <<runs, written, loaders, outside>>

Stop(how) == Ends(how) /\ UNCHANGED infos

Done == chopper = "stream" /\ i > num_entries /\ Stop("ended")

\* streams[i]->filename of a NULL stream.
Segfault == chopper = "stream" /\ i <= num_entries /\ streams[i] = NoStream /\ Stop("crashed")

\* open() fails in save_common_info() or save_stream_info().
OpenFails ==
    /\ \/ chopper = "load" /\ i > num_entries
       \/ chopper = "stream" /\ i <= num_entries /\ streams[i] # NoStream
    /\ Stop("stopped")

\* load_stream() has room for four i-frames a second and does not count: behind
\* that, the chopper may go on as if nothing were (LoadStream), or end, then or
\* later, and what it leaves in the file may be any text.
Overflow ==
    /\ chopper = "load" /\ i <= num_entries
    /\ load_stream(video_files[i]) # NoStream
    /\ Len(disk[video_files[i]].iframe_offset) > 4 * disk[video_files[i]].duration
    /\ \/ Stop("stopped")
       \/ /\ Ends("stopped") \/ Ends("ended")
          /\ info' = Torn /\ rewritten' = (loader = "read")

Killed == chopper # "idle" /\ Stop("stopped")

load_videos ==
    \/ Scan
    \/ LoadStream
    \/ Truncate
    \/ WriteHeader
    \/ WriteName
    \/ WriteOffset
    \/ WriteEnd
    \/ Done
    \/ Segfault
    \/ OpenFails
    \/ Overflow

-----------------------------------------------------------------------------
(* The server: load_video(), under the mutex.                              *)

\* Defect: the size is not looked at.
CheckSizeNot ==
    /\ loader = "idle"
    /\ info # Missing
    /\ loader' = "read"
    /\ UNCHANGED <<infos, file_data, offset, stream_num, data, loaded, origin, meanwhile,
                   choppers, outside>>

\* get_file_size() is positive.
CheckSize ==
    /\ loader = "idle"
    /\ info \notin {Missing, <<>>}
    /\ loader' = "read"
    /\ UNCHANGED <<infos, file_data, offset, stream_num, data, loaded, origin, meanwhile,
                   choppers, outside>>

\* get_file_contents(), and the number of streams; `offset' is the token read last.
\* Of a file that was written anew since its size was taken, as many bytes are
\* read as the old one had.
ReadInfo ==
    /\ loader = "read"
    /\ info # <<>>
    /\ file_data' \in IF rewritten THEN {info, Torn} ELSE {info}
    /\ IF file_data' = Torn THEN stream_num' \in AnyNumbers ELSE stream_num' = info[1].val
    /\ offset' = 1
    /\ loaded' = <<>>
    /\ origin' = [streams |-> written, torn |-> file_data' = Torn,
                  complete |-> outcome = "ended" /\ file_data' # Torn]
    /\ meanwhile' = {}
    /\ loader' = "loop"
    /\ rewritten' = FALSE
    /\ UNCHANGED <<info, data, choppers, outside>>

\* The file was emptied after its size was checked: strchr() finds no newline,
\* and the code reads from the address behind NULL.
ReadEmpty ==
    /\ loader = "read"
    /\ info = <<>>
    /\ loader' = "crashed"
    /\ rewritten' = FALSE
    /\ UNCHANGED <<info, file_data, offset, stream_num, data, loaded, origin, meanwhile,
                   choppers, outside>>

\* The first newline after a position, Len + 1 if there is none.
Newline(pos) ==
    LET after == { q \in pos + 1 .. Len(file_data) : file_data[q] = NL }
    IN  IF after = {} THEN Len(file_data) + 1 ELSE CHOOSE q \in after : \A r \in after : q <= r

\* get_between_delim(): the position of the name of the next stream, which is
\* no file if the second newline is not there.
Field == Newline(offset) + 1

HasFile ==
    /\ file_data # Torn
    /\ Field + 1 <= Len(file_data)
    /\ file_data[Field].kind = "name"
    /\ disk[file_data[Field].val] # Missing

\* get_file_size() of a file that was removed after it was read is 0.
DataSize ==
    LET f == disk[file_data[Field].val] IN IF f = Missing THEN 0 ELSE f.data_size

\* strtod() after the name, into an unsigned short.
IframeNum == file_data[Field + 2].val % UshortRange

\* Defect: the first number is skipped.
IframeOffsetSkip ==
    [k \in 1 .. IframeNum |->
        LET q == Field + 4 + k IN
        IF q <= Len(file_data) /\ file_data[q].kind = "number" THEN file_data[q].val ELSE 0]

\* strtoll(), which returns 0 where there is no number to read.
IframeOffset ==
    [k \in 1 .. IframeNum |->
        LET q == Field + 3 + k IN
        IF q <= Len(file_data) /\ file_data[q].kind = "number" THEN file_data[q].val ELSE 0]

\* Defect: the first offset is compared with the size.
WellFormedFirst == IframeOffset[1] < DataSize

\* Only the last offset is compared with the size.
WellFormed == IframeOffset[IframeNum] < DataSize

\* Defect: the reader leaves the file where offsets are missing.
AdvanceBeyond == offset' = Field + 3 + IframeNum

Advance ==
    LET end == Field + 3 + IframeNum
    IN  offset' = IF end < Len(file_data) THEN end ELSE Len(file_data)

\* The reader stays before the name of a stream whose file is missing.
MissingFile ==
    /\ loader = "loop"
    /\ Len(loaded) < stream_num
    /\ ~HasFile
    /\ stream_num' = stream_num - 1
    /\ UNCHANGED <<infos, loader, file_data, offset, data, loaded, origin, meanwhile,
                   choppers, outside>>

\* get_file_contents() of the video file; its size is asked for after that.
ReadStream ==
    /\ loader = "loop"
    /\ Len(loaded) < stream_num
    /\ HasFile
    /\ data' = DataSize
    /\ loader' = "data"
    /\ UNCHANGED <<infos, file_data, offset, stream_num, loaded, origin, meanwhile,
                   choppers, outside>>

\* Defect: a stream that is not well formed is still waited for.
NotWellFormedCounted == ~WellFormed /\ UNCHANGED <<stream_num, loaded>>

NotWellFormed ==
    /\ ~WellFormed
    /\ stream_num' = stream_num - 1
    /\ UNCHANGED loaded

\* Where the number of i-frames did not fit, the reader stays between the offsets,
\* and takes the name of the next stream for a number: from here on, the text is
\* as good as any.
AddStream ==
    /\ loader = "data"
    /\ IframeNum > 0
    /\ Advance
    /\ file_data' = IF file_data[Field + 2].val < UshortRange THEN file_data ELSE Torn
    /\ \/ /\ WellFormed
          /\ loaded' = Append(loaded, [filename |-> file_data[Field].val,
                                       iframe_offset |-> IframeOffset,
                                       data |-> data,
                                       data_size |-> DataSize])
          /\ UNCHANGED stream_num
       \/ NotWellFormed
    /\ data' = 0
    /\ loader' = "loop"
    /\ UNCHANGED <<infos, origin, meanwhile, choppers, outside>>

\* In a text that may be any, the next stream may be any file with any offsets of
\* which the last one passes the check, or not; it may have no i-frames, and a
\* newline may be missing.
TornStream ==
    /\ loader = "loop" /\ file_data = Torn
    /\ Len(loaded) < stream_num
    /\ \E f \in Files, n \in AnyNumbers \ {0} : \E o \in [1 .. n -> AnyNumbers] :
        /\ disk[f] # Missing
        /\ \/ /\ o[n] < disk[f].data_size
              /\ loaded' = Append(loaded, [filename |-> f, iframe_offset |-> o,
                                           data |-> disk[f].data_size,
                                           data_size |-> disk[f].data_size])
              /\ UNCHANGED stream_num
           \/ o[n] >= disk[f].data_size /\ stream_num' = stream_num - 1 /\ UNCHANGED loaded
    /\ UNCHANGED <<infos, loader, file_data, offset, data, origin, meanwhile, choppers, outside>>

TornEnds ==
    /\ loader = "loop" /\ file_data = Torn
    /\ loader' = "crashed"
    /\ UNCHANGED <<infos, file_data, offset, stream_num, data, loaded, origin, meanwhile,
                   choppers, outside>>

\* A stream without i-frames: data_size / iframe_num, of integers.
NoIframes ==
    /\ loader = "data"
    /\ IframeNum = 0
    /\ loader' = "crashed"
    /\ UNCHANGED <<infos, file_data, offset, stream_num, data, loaded, origin, meanwhile,
                   choppers, outside>>

\* The streams in ascending order of size; without any the result is NULL.
EndLoad ==
    /\ loader = "loop"
    /\ Len(loaded) >= stream_num
    /\ \E s \in Qsort(loaded) :
        /\ \A k \in 2 .. Len(s) : s[k - 1].data_size <= s[k].data_size
        /\ loaded' = s
    /\ loader' = "loaded"
    /\ UNCHANGED <<infos, file_data, offset, stream_num, data, origin, meanwhile, choppers,
                   outside>>

load_video ==
    \/ CheckSize \/ ReadInfo \/ ReadEmpty
    \/ MissingFile \/ ReadStream \/ AddStream \/ NoIframes
    \/ TornStream \/ TornEnds
    \/ EndLoad

-----------------------------------------------------------------------------
(* Who uses the programs.                                                  *)

\* The video is unloaded, or the server started again.
Again ==
    /\ loader \in {"loaded", "crashed"}
    /\ loader' = "idle"
    /\ file_data' = <<>> /\ offset' = 0 /\ stream_num' = 0 /\ data' = 0 /\ loaded' = <<>>
    /\ origin' = NoOrigin
    /\ meanwhile' = {}
    /\ UNCHANGED <<infos, choppers, outside>>

\* A video file is removed, or replaced by another one.
ChangeFile ==
    /\ Cardinality(changed) < MaxChanges
    /\ \E f \in Files, c \in Contents \cup {Missing} :
        /\ disk[f] # c
        /\ disk' = [disk EXCEPT ![f] = c]
        /\ changed' = changed \cup {f}
        /\ meanwhile' = IF loader \in {"loop", "data"} THEN meanwhile \cup {f} ELSE meanwhile
    /\ UNCHANGED <<infos, choppers, loader, file_data, offset, stream_num, data,
                   loaded, origin>>

Next == load_videos \/ Killed \/ load_video \/ Again \/ ChangeFile

Spec == Init /\ [][Next]_vars

-----------------------------------------------------------------------------
(* Properties.                                                             *)

Streams == [filename : Files, iframe_offset : { c.iframe_offset : c \in Contents }]

\* The tokens of the info file and the streams of both programs are well formed,
\* and the reader is inside its copy of the file.
TypeOK ==
    /\ disk \in [Files -> Contents \cup {Missing}]
    /\ info \notin {Missing, Torn} =>
        \A q \in DOMAIN info :
            /\ info[q].kind = "name" => info[q].val \in Files
            /\ info[q].kind = "number" => info[q].val \in Nat
    /\ chopper \in {"idle", "load", "header", "stream", "offsets"}
    /\ \A k \in DOMAIN streams : streams[k] \in Streams \cup {NoStream}
    /\ num_entries \in 0 .. NumFiles
    /\ chopper = "offsets" => streams[i] \in Streams /\ j \in 1 .. Len(streams[i].iframe_offset) + 1
    /\ loader \in {"idle", "read", "loop", "data", "loaded", "crashed"}
    /\ stream_num \in Nat
    /\ loader \in {"loop", "data"} =>
        /\ Len(loaded) <= stream_num
        /\ file_data # Torn => offset \in 1 .. Len(file_data)
    /\ {rewritten, origin.torn, origin.complete} \subseteq BOOLEAN
    /\ written \subseteq Streams /\ origin.streams \subseteq Streams

\* An unsigned short can count the i-frames of the streams.
Countable(set) == \A s \in set : Len(s.iframe_offset) < UshortRange

\* Whenever the server reads the file (while the chopper writes it, or after it
\* was killed or crashed), every stream it loads but one has exactly the offsets
\* the chopper found, and that one, the last in the file, has a part of them and
\* zeros (save_stream_info, load_video). It needs that every write() wrote all it
\* was given, that the file was not written anew while it was read, and that an
\* unsigned short can count the i-frames.
OnlyLastIsCut ==
    loader = "loaded" /\ ~origin.torn /\ Countable(origin.streams) =>
        LET cut == { k \in DOMAIN loaded :
                Stream(loaded[k].filename, loaded[k].iframe_offset) \notin origin.streams }
        IN  /\ Cardinality(cut) <= 1
            /\ \A k \in cut : \E s \in origin.streams :
                /\ s.filename = loaded[k].filename
                /\ Len(s.iframe_offset) = Len(loaded[k].iframe_offset)
                /\ \A n \in DOMAIN s.iframe_offset :
                    loaded[k].iframe_offset[n] \in {0, s.iframe_offset[n]}

\* What a chopper that came to its end wrote, and wrote whole, is what the
\* server loads: each stream once, with its offsets, as long as nobody
\* touches the video files and an unsigned short can count the i-frames.
RoundTrip ==
    loader = "loaded" /\ origin.complete /\ changed = {} /\ Countable(origin.streams) =>
        /\ { Stream(s.filename, s.iframe_offset) : s \in ToSet(loaded) } = origin.streams
        /\ Len(loaded) = Cardinality(origin.streams)

\* Looking at the last offset is enough: in a complete info file, no stream is
\* loaded with an offset behind its end, whatever became of the video file
\* since it was chopped (load_video, "well formed"). The size is that of the
\* data in memory unless the file was replaced between the two questions.
WithinFile ==
    loader = "loaded" /\ origin.complete /\ Countable(origin.streams) =>
        \A s \in ToSet(loaded) : \A n \in DOMAIN s.iframe_offset :
            /\ s.iframe_offset[n] < s.data_size
            /\ s.filename \notin meanwhile => s.iframe_offset[n] < s.data

\* The server ends while it loads for no other cause than these: a stream without
\* i-frames, or with more than an unsigned short counts; a second run of the
\* chopper that empties the file between the look at its size and the reading;
\* a text that is torn. That the chopper was killed, and left a part of the file,
\* is no cause.
CrashExplained ==
    loader = "crashed" =>
        \/ file_data = <<>> /\ runs > 1
        \/ \E s \in origin.streams : Len(s.iframe_offset) \notin 1 .. UshortRange - 1
        \/ origin.torn

\* The loop of load_video() counts what it loads up and what it drops down:
\* with every round less is left to do, whatever is in the info file, so that
\* it ends and gives the mutex back.
LoadProgress ==
    [][MissingFile \/ AddStream \/ TornStream
        => stream_num' - Len(loaded') < stream_num - Len(loaded)]_vars

\* load_videos() loads "each file found": when it is over by itself, the info
\* file has every video file that can be decoded.
ListsEachFound ==
    outcome \in {"ended", "crashed"} /\ info # Torn /\ changed = {} =>
        \A f \in Files :
            disk[f] # Missing => (disk[f].decodes <=> \E q \in DOMAIN info : info[q] = Name(f))

\* load_video() loads "each video file found": a stream of a complete info file
\* whose file was not touched is loaded.
LoadsEachFound ==
    loader = "loaded" /\ origin.complete /\ Countable(origin.streams) =>
        \A s \in origin.streams :
            s.filename \notin changed => s.filename \in { r.filename : r \in ToSet(loaded) }

-----------------------------------------------------------------------------
(* The inductive invariant behind them: each token of the file fits those  *)
(* before it, wherever the chopper was stopped.                            *)

\* A stream begins at position q of a text, which may end inside it.
ListedAt(text, q, s) ==
    LET end == q + 4 + Len(s.iframe_offset)
    IN  /\ q + 3 <= Len(text)
        /\ text[q] = Name(s.filename) /\ text[q + 1] = NL
        /\ text[q + 2] = Num(Len(s.iframe_offset)) /\ text[q + 3] = NL
        /\ \A n \in DOMAIN s.iframe_offset :
            q + 3 + n <= Len(text) => text[q + 3 + n] = Num(s.iframe_offset[n])
        /\ end <= Len(text) => text[end] = NL
        /\ end < Len(text) => text[end + 1].kind = "name"

\* A text lists streams of a set, each once, after a line of its own.
Lists(text, set) ==
    /\ text \in Seq(Tokens)
    /\ text # <<>> => Len(text) >= 2 /\ text[1].kind = "number" /\ text[2] = NL
    /\ Len(text) > 2 => text[3].kind = "name"
    /\ \A q \in DOMAIN text : text[q].kind = "name" => \E s \in set : ListedAt(text, q, s)
    /\ \A p, q \in DOMAIN text : text[p].kind = "name" /\ text[p] = text[q] => p = q

\* The text does not end inside a stream.
NotCut(text, set) ==
    \A q \in DOMAIN text, s \in set :
        text[q] = Name(s.filename) => q + 4 + Len(s.iframe_offset) <= Len(text)

NamesIn(text) == { f \in Files : \E q \in DOMAIN text : text[q] = Name(f) }

OneEach(set) == \A r, s \in set : r.filename = s.filename => r = s

\* All of the set is in the text, and its number before it.
Whole(text, set) ==
    /\ IsFiniteSet(set)
    /\ Len(text) >= 2 /\ text[1] = Num(Cardinality(set))
    /\ NotCut(text, set)
    /\ \A s \in set : s.filename \in NamesIn(text)

\* While it loads, the chopper has a stream or NULL for each file so far.
ScanInv ==
    /\ streams \in Seq(Streams \cup {NoStream})
    /\ {i, j} \subseteq Nat \ {0} /\ runs \in Nat
    /\ chopper = "load" =>
        /\ video_files \in Seq(Files)
        /\ \A k, l \in DOMAIN video_files : k < l => video_files[k] < video_files[l]
        /\ num_entries <= Len(video_files)
        /\ Len(streams) = i - 1 /\ i - 1 <= Len(video_files)
        /\ \A k \in DOMAIN streams :
            streams[k] # NoStream => streams[k].filename = video_files[k]

\* While it writes, the file has the streams before the current one, and a part
\* of that one, unless something was not written.
WriteInv ==
    /\ chopper \in {"header", "stream", "offsets"} =>
        /\ num_entries = Len(streams)
        /\ \A k, l \in DOMAIN streams :
            /\ streams[k] # NoStream /\ streams[l] # NoStream
            /\ streams[k].filename = streams[l].filename
            => k = l
        /\ written = ToSet(streams) \ {NoStream}
    /\ chopper = "header" => info = <<>>
    /\ chopper = "stream" =>
        /\ i <= num_entries + 1
        /\ \A k \in 1 .. i - 1 : streams[k] # NoStream
        /\ info # Torn =>
            /\ NamesIn(info) \subseteq { streams[k].filename : k \in 1 .. i - 1 }
            /\ Len(info) >= 2 /\ info[1] = Num(num_entries)
            /\ NotCut(info, written)
            /\ \A k \in 1 .. i - 1 : streams[k].filename \in NamesIn(info)
    /\ chopper = "offsets" =>
        /\ i <= num_entries
        /\ \A k \in 1 .. i : streams[k] # NoStream
        /\ info # Torn =>
            /\ NamesIn(info) \subseteq { streams[k].filename : k \in 1 .. i }
            /\ Len(info) >= 2 /\ info[1] = Num(num_entries)
            /\ \E q \in DOMAIN info :
                info[q] = Name(streams[i].filename) /\ Len(info) = q + 2 + j
            /\ \A k \in 1 .. i : streams[k].filename \in NamesIn(info)

\* The file at any moment, and what the history says of it.
TextInv ==
    /\ chopper # "idle" => outcome = "none"
    /\ OneEach(written)
    /\ \/ info = Missing /\ chopper \in {"idle", "load"} /\ loader = "idle"
       \/ info = Torn
       \/ Lists(info, written)
    /\ outcome = "ended" /\ info # Torn => Whole(info, written)

\* Only a second run empties a file that has something in it.
EmptyInv ==
    /\ runs = 0 => chopper = "idle" /\ info = Missing
    /\ runs = 1 /\ chopper = "load" => info = Missing
    /\ loader = "idle" => file_data = <<>>
    /\ loader = "read" => file_data = <<>> /\ info # Missing
    /\ loader = "read" /\ info = <<>> => runs > 1

\* Without a change, the files have what the chopper found.
StillInv ==
    changed = {} =>
        \A s \in written \cup origin.streams \cup (ToSet(streams) \ {NoStream}) :
            disk[s.filename] # Missing /\ disk[s.filename].iframe_offset = s.iframe_offset

LoadedStreams == [filename : Files, iframe_offset : Seq(Nat), data : Nat, data_size : Nat]

\* What strtoll() reads of a stream that may be cut.
ReadOffsets(q, s) ==
    [n \in DOMAIN s.iframe_offset |->
        IF q + 3 + n <= Len(file_data) THEN s.iframe_offset[n] ELSE 0]

\* The stream l was read at a position before the offset.
ReadAt(l, q, s) ==
    /\ q < offset /\ l.filename = s.filename
    /\ ListedAt(file_data, q, s)
    /\ l.iframe_offset = ReadOffsets(q, s)
    /\ l.iframe_offset # <<>> /\ l.iframe_offset[Len(l.iframe_offset)] < l.data_size
    /\ l.data = l.data_size \/ l.filename \in meanwhile

\* What is loaded was listed before the offset, each stream once.
ListLoaded ==
    /\ Lists(file_data, origin.streams) /\ OneEach(origin.streams)
    /\ origin.complete => Whole(file_data, origin.streams)
    /\ offset \in DOMAIN file_data
    /\ offset = Len(file_data) \/ file_data[offset + 1] = NL
    /\ offset + 2 <= Len(file_data) => file_data[offset + 2].kind = "name"
    /\ \A k \in DOMAIN loaded :
        \E q \in DOMAIN file_data, s \in origin.streams : ReadAt(loaded[k], q, s)
    /\ \A k, l \in DOMAIN loaded : loaded[k].filename = loaded[l].filename => k = l
    /\ loader = "data" =>
        /\ Len(loaded) < stream_num /\ data \in Nat
        /\ offset + 2 <= Len(file_data)
        /\ data = DataSize \/ file_data[Field].val \in meanwhile
    /\ origin.complete /\ changed = {} =>
        /\ stream_num = Cardinality(origin.streams)
        /\ \A q \in 1 .. offset : file_data[q].kind = "name" =>
            \E k \in DOMAIN loaded : file_data[q] = Name(loaded[k].filename)

\* The server is between two streams of its copy, and has those before.
LoadInv ==
    loader \in {"loop", "data", "loaded"} =>
        /\ loaded \in Seq(LoadedStreams) /\ Len(loaded) <= stream_num
        /\ loader = "loaded" => Len(loaded) = stream_num
        /\ IF file_data = Torn
           THEN loader # "data" /\ (origin.torn \/ ~Countable(origin.streams))
           ELSE ~origin.torn /\ ListLoaded
        /\ origin.torn => ~origin.complete

IInv ==
    /\ TypeOK /\ ScanInv /\ WriteInv /\ TextInv /\ EmptyInv /\ StillInv /\ LoadInv
    /\ CrashExplained
=============================================================================
