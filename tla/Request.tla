------------------------------ MODULE Request ------------------------------
(***************************************************************************)
(* The text of one request and its answer: parse_request() and the         *)
(* dispatch of manage_request() (src/server/request.c) with the helpers of *)
(* common.c that cut strings, get_file_by_id() (file.c) and the replies of *)
(* reply.c. The files are managed by somebody else, who may remove or      *)
(* replace them between any two system calls.                              *)
(*                                                                         *)
(* A text is a sequence of tokens: a name, a key, a delimiter or another   *)
(* character. Lengths are counted in tokens. A text has no token after     *)
(* what recv() returned; a buffer that was not filled is empty.            *)
(***************************************************************************)
EXTENDS Integers, Sequences, FiniteSets, SequencesExt

CONSTANTS
    Inputs,         \* texts of requests
    MinLen,         \* the 14 bytes of the shortest request
    Alnum,          \* letters, digits, and words of them
    Dirs,           \* ids that are directory names between 100 and 999999999
    Contents,       \* contents of files
    Missing,        \* no file, or none that can be read
    NULL,
    ParamMaxLen,    \* PARAM_MAX_LEN
    UshortRange     \* 2^16

request_names == <<"crossdomain.xml", "data.xml", "intro.swf", "player.swf",
                   "robots.txt", "sfMovie.js", "stream">>
files_supported == SubSeq(request_names, 1, 6)
http_types == <<"application/xml", "application/xml", "application/x-shockwave-flash",
                "application/x-shockwave-flash", "text/plain", "text/html">>

\* The keys that the server uses. The id names the directory of a file, too.
req_param_names == {"video_id", "sign", "quality", "pos", "cache"}

\* Tokens: "GET" is "GET /", with which a request begins, "SP" a space, "CR" the
\* end of the line, "NUL" a byte 0.
Commands == {"GET"}
AnyToken == Alnum \cup req_param_names \cup Commands \cup Range(request_names)
                  \cup {"?", "=", "&", "/", "SP", "CR", "NUL", "SERVER_URL"}

ASSUME RequestAssumption ==
    /\ Inputs \subseteq Seq(AnyToken \ {"NUL"})
    /\ Contents \subseteq Seq(AnyToken)
    /\ Alnum \cap {"?", "=", "&", "/", "SP", "CR", "NUL"} = {}
    /\ Dirs \subseteq Seq(Alnum)
    /\ Missing \notin Contents
    /\ NULL \notin {"200", "404", "503"}
    /\ {MinLen, ParamMaxLen, UshortRange} \subseteq Nat \ {0}
    /\ \A text \in Inputs : Len(text) < UshortRange

VARIABLES
    sent,           \* history: the text that the client sends
    input,          \* client_req.input, what one recv() returns of it
    pc,             \* where manage_request() is
    type,           \* the name of client_req.type
    params,         \* client_req.params
    path,           \* the path that get_file_by_id() composed
    fd,             \* the file that open() found there
    contents,       \* what was read of it
    reply,          \* what the client is sent
    seen            \* history: what was found under the path, call by call

request == <<sent, input, type, params>>
file == <<path, fd, contents, seen>>
vars == <<request, file, pc, reply>>

NoParams == [k \in req_param_names |-> NULL]

Init ==
    /\ sent = <<>>
    /\ input = <<>>
    /\ pc = "recv"
    /\ type = NULL
    /\ params = NoParams
    /\ path = NULL
    /\ fd = NULL
    /\ contents = <<>>
    /\ reply = NULL
    /\ seen = <<>>

-----------------------------------------------------------------------------
(* common.c: strings. Positions count from 1.                              *)

\* strchr(), strstr(): the first of some tokens from a position on, the
\* position after the end (where the code sees NULL) if there is none.
FirstAt(str, tokens, from) ==
    LET hits == { q \in from .. Len(str) : str[q] \in tokens }
    IN  IF hits = {} THEN Len(str) + 1 ELSE Min(hits)

Least(a, b) == IF a <= b THEN a ELSE b

\* Defect: everything is valid.
get_valid_substr_lenAll(str, valid) == Len(str)

get_valid_substr_len(str, valid) ==
    LET bad == { q \in DOMAIN str : str[q] \notin valid }
    IN  IF bad = {} THEN Len(str) ELSE Min(bad) - 1

\* The prefix comparison of find_vector_first(): a word of the text is found
\* when it begins with an element of the vector, 0 stands for -1.
find_vector_first(word) ==
    IF word \in Range(request_names)
    THEN CHOOSE n \in DOMAIN request_names : request_names[n] = word
    ELSE 0

\* value_len counts the byte that ends the string: a value is shorter than it.
parse_key_value(str) ==
    [k \in req_param_names |->
        LET key == FirstAt(str, {k}, 1)
            value_len == Least(FirstAt(str, {"&"}, key) - (key + 1), ParamMaxLen)
            value == SubSeq(str, key + 2, key + value_len)
        IN  IF key < Len(str) /\ str[key + 1] = "="
            THEN SubSeq(value, 1, get_valid_substr_len(value, Alnum \cup {"=", "&"}))
            ELSE NULL]

\* strlen(): a text ends before its first NUL.
CString(str) == SubSeq(str, 1, FirstAt(str, {"NUL"}, 1) - 1)

\* malloc(len) and snprintf(len): with a length of 0 nobody writes the memory
\* that is read as a string later.
Printed(str, len) == IF len = 0 THEN {<<>>, <<"heap">>} ELSE {SubSeq(str, 1, len - 1)}

\* Defect: the tail is one too short.
find_and_replaceShort(src) ==
    LET init == FirstAt(src, {"SERVER_URL"}, 1)
        head_len == init % UshortRange
        tail_len == (Len(src) + 1 - head_len - 1) % UshortRange
    IN  IF init > Len(src) THEN {src}
        ELSE { head \o <<"SERVER_NAME">> \o tail :
                head \in Printed(src, head_len),
                tail \in Printed(SubSeq(src, init + 1, Len(src)), tail_len) }

\* Defect: the head is one too short.
find_and_replaceHead(src) ==
    LET init == FirstAt(src, {"SERVER_URL"}, 1)
        head_len == (init - 1) % UshortRange
        tail_len == (Len(src) + 1 - init - 1 + 1) % UshortRange
    IN  IF init > Len(src) THEN {src}
        ELSE { head \o <<"SERVER_NAME">> \o tail :
                head \in Printed(src, head_len),
                tail \in Printed(SubSeq(src, init + 1, Len(src)), tail_len) }

\* All lengths are unsigned shorts; the old text is one token long.
find_and_replace(src) ==
    LET init == FirstAt(src, {"SERVER_URL"}, 1)
        head_len == init % UshortRange
        tail_len == (Len(src) + 1 - head_len - 1 + 1) % UshortRange
    IN  IF init > Len(src) THEN {src}
        ELSE { head \o <<"SERVER_NAME">> \o tail :
                head \in Printed(src, head_len),
                tail \in Printed(SubSeq(src, init + 1, Len(src)), tail_len) }

-----------------------------------------------------------------------------
(* reply.c                                                                 *)

Default(field, default) == IF field = NULL THEN default ELSE field

\* The header has a chunked or a length field, and the contents follow it.
compose_reply(p, content, content_len) ==
    [first |-> IF p.http_command = NULL THEN Default(p.http_code, "200")
               ELSE p.http_command,
     content_type |-> Default(p.content_type, "text/html"),
     cache_control |-> Default(p.cache_control, <<"no-cache">>),
     var_field |-> IF p.transfer_encoding = NULL THEN content_len ELSE p.transfer_encoding,
     body |-> SubSeq(content, 1, content_len)]

\* The page of a code; its text is one token.
Page(code) ==
    compose_reply([http_command |-> NULL, http_code |-> code, content_type |-> "text/html",
                   cache_control |-> <<"no-cache">>, transfer_encoding |-> NULL], <<code>>, 1)

ok_reply == Page("200")
not_found_reply == Page("404")
serv_unavail_reply == Page("503")

\* The client is sent a reply, and manage_request() is over.
Send(r) == reply' = r /\ pc' = "done"

-----------------------------------------------------------------------------
(* manage_request() and parse_request()                                    *)

\* check_client() refuses the client (see Security).
Refuse ==
    /\ pc = "recv"
    /\ Send(serv_unavail_reply)
    /\ UNCHANGED <<request, file>>

\* One recv() returns as much of the text as has arrived. When it fails nobody
\* sees it, and the buffer is empty.
Recv ==
    /\ pc = "recv"
    /\ sent' \in Inputs
    /\ \E n \in 0 .. Len(sent') : input' = SubSeq(sent', 1, n)
    /\ pc' = "parse"
    /\ UNCHANGED <<type, params, file, reply>>

\* Defect: the first line need not be there to its end.
WellFormedOpen ==
    /\ Len(input) >= MinLen
    /\ input[1] = "GET"

WellFormed ==
    /\ Len(input) >= MinLen
    /\ input[1] = "GET"
    /\ FirstAt(input, {"CR"}, 1) < Len(input)

BadRequest ==
    /\ pc = "parse"
    /\ ~WellFormed
    /\ Send(not_found_reply)
    /\ UNCHANGED <<request, file>>

\* Without a space the length is the difference of NULL and an address.
PathLens ==
    LET space == FirstAt(input, {"SP"}, 2)
    IN  IF space <= Len(input) THEN {space - 2} ELSE 0 .. UshortRange - 1

EmptyRequest ==
    /\ pc = "parse"
    /\ WellFormed
    /\ 0 \in PathLens
    /\ Send(ok_reply)
    /\ UNCHANGED <<request, file>>

\* strtok_r() passes over delimiters at the beginning.
TypeStart == FirstAt(input, AnyToken \ {"?", "SP"}, 2)

UnknownType ==
    /\ pc = "parse"
    /\ WellFormed
    /\ PathLens # {0}
    /\ \/ TypeStart > Len(input)
       \/ TypeStart = 2 /\ find_vector_first(input[2]) = 0
    /\ Send(not_found_reply)
    /\ UNCHANGED <<request, file>>

\* What strtok_r() returned is freed; if it is not where the text begins,
\* free() ends the process.
InvalidFree ==
    /\ pc = "parse"
    /\ WellFormed
    /\ PathLens # {0}
    /\ TypeStart \in 3 .. Len(input)
    /\ pc' = "crashed"
    /\ UNCHANGED <<request, file, reply>>

\* The parameters begin one character after the name of the type. When there is
\* nothing after it params_len wraps, and they are all the rest of the text.
KnownType ==
    /\ pc = "parse"
    /\ WellFormed
    /\ TypeStart = 2
    /\ find_vector_first(input[2]) > 0
    /\ \E path_len \in PathLens \ {0} :
        LET params_len == (path_len - 2) % UshortRange
        IN  params' = parse_key_value(SubSeq(input, 4, Least(3 + params_len, Len(input))))
    /\ type' = request_names[find_vector_first(input[2])]
    /\ pc' = IF type' = "stream" THEN "send_video" ELSE "file"
    /\ UNCHANGED <<sent, input, file, reply>>

parse_request == BadRequest \/ EmptyRequest \/ UnknownType \/ InvalidFree \/ KnownType

-----------------------------------------------------------------------------
(* get_file_by_id()                                                        *)

\* The loop ends before the last of the six names.
check_supported_file(name) == find_vector_first(name) \in 1 .. 5

UnsupportedFile ==
    /\ pc = "file"
    /\ ~check_supported_file(type)
    /\ Send(not_found_reply)
    /\ UNCHANGED <<request, file>>

\* Defect: any name is a directory.
check_supported_dirAny(id) == TRUE

check_supported_dir(id) == id \in Dirs

\* The id is no number in the range, or there is no such directory.
UnsupportedDir ==
    /\ pc = "file"
    /\ check_supported_file(type)
    /\ params["video_id"] # NULL
    /\ seen' = Append(seen, Missing)
    /\ Send(not_found_reply)
    /\ UNCHANGED <<request, path, fd, contents>>

BuildPath ==
    /\ pc = "file"
    /\ check_supported_file(type)
    /\ params["video_id"] # NULL => check_supported_dir(params["video_id"])
    /\ path' = [dir |-> params["video_id"], name |-> type]
    /\ pc' = "exists"
    /\ UNCHANGED <<request, fd, contents, seen, reply>>

\* Defect: nobody looks at the result.
check_file_existsIgnored ==
    /\ pc = "exists"
    /\ \E f \in Contents \cup {Missing} : seen' = Append(seen, f)
    /\ pc' = "open"
    /\ UNCHANGED <<request, path, fd, contents, reply>>

check_file_exists ==
    /\ pc = "exists"
    /\ \/ /\ seen' = Append(seen, Missing)
          /\ Send(not_found_reply)
       \/ /\ \E f \in Contents : seen' = Append(seen, f)
          /\ pc' = "open"
          /\ UNCHANGED reply
    /\ UNCHANGED <<request, path, fd, contents>>

\* get_file_contents(): open(), then stat() of the same name. A replaced file
\* is read through the descriptor, up to the size of the one that replaces it.
OpenFile ==
    /\ pc = "open"
    /\ fd' \in Contents
    /\ seen' = Append(seen, fd')
    /\ pc' = "read"
    /\ UNCHANGED <<request, path, contents, reply>>

ReadFile ==
    /\ pc = "read"
    /\ \E f \in Contents :
        /\ seen' = Append(seen, f)
        /\ contents' = SubSeq(fd, 1, Least(Len(f), Len(fd)))
    /\ pc' = "compose"
    /\ UNCHANGED <<request, path, fd, reply>>

\* NULL is returned, and strlen() of it ends the process.
FileVanishes ==
    /\ pc \in {"open", "read"}
    /\ seen' = Append(seen, Missing)
    /\ pc' = "crashed"
    /\ UNCHANGED <<request, path, fd, contents, reply>>

CacheControl ==
    IF params["cache"] = NULL THEN <<"no-cache">> ELSE <<"max-age=">> \o params["cache"]

\* The reply has what strlen() sees of the contents.
SendFile ==
    /\ pc = "compose"
    /\ \E text \in IF path.name = "data.xml" THEN find_and_replace(CString(contents))
                   ELSE {CString(contents)} :
        Send(compose_reply([http_command |-> NULL, http_code |-> "200",
                            content_type |-> http_types[find_vector_first(type)],
                            cache_control |-> CacheControl,
                            transfer_encoding |-> NULL], text, Len(text)))
    /\ UNCHANGED <<request, file>>

get_file_by_id ==
    \/ UnsupportedFile
    \/ UnsupportedDir
    \/ BuildPath
    \/ check_file_exists
    \/ OpenFile
    \/ ReadFile
    \/ FileVanishes
    \/ SendFile

Next == Refuse \/ Recv \/ parse_request \/ get_file_by_id

Spec == Init /\ [][Next]_vars

-----------------------------------------------------------------------------
(* Properties.                                                             *)

\* The directory in the path of a file is one of the server's.
TypeOK ==
    /\ input \in Seq(AnyToken)
    /\ pc \in {"recv", "parse", "send_video", "file", "exists", "open", "read", "compose",
              "done", "crashed"}
    /\ type \in Range(request_names) \cup {NULL}
    /\ params \in [req_param_names -> Seq(AnyToken) \cup {NULL}]
    /\ path # NULL => path.dir \in Dirs \cup {NULL} /\ path.name \in Range(files_supported)
    /\ Range(seen) \subseteq Contents \cup {Missing}

\* What the client wrote after "?", up to the space.
Query(text) == SubSeq(text, 4, FirstAt(text, {"SP"}, 2) - 1)

\* Each key begins a pair, and no key is there twice.
ProperQuery(q) ==
    \A i, j \in DOMAIN q : q[i] \in req_param_names =>
        /\ i = 1 \/ q[i - 1] = "&"
        /\ q[i] = q[j] => i = j

\* The value that the pair with a key has: its longest clean beginning.
ValueOf(q, k) ==
    LET pairs == { i \in 1 .. Len(q) - 1 : q[i] = k /\ q[i + 1] = "=" }
        Clean(i, n) == \A j \in i + 2 .. i + 1 + n : q[j] \in Alnum \cup {"="}
        lens(i) == { n \in 0 .. ParamMaxLen - 1 : i + 1 + n <= Len(q) /\ Clean(i, n) }
    IN  IF pairs = {} THEN NULL
        ELSE LET i == Min(pairs) IN SubSeq(q, i + 2, i + 1 + Max(lens(i)))

\* The parameters of a proper query are those that the client wrote, although
\* recv() may have returned a part of the request only: a query that is cut is
\* never used.
ParsedAsWritten ==
    /\ type # NULL
    /\ Len(sent) > 3 /\ sent[2] \in Range(request_names) /\ sent[3] = "?"
    /\ FirstAt(sent, {"SP"}, 2) < FirstAt(sent, {"CR"}, 2)
    /\ ProperQuery(Query(sent)) /\ Query(sent) # <<>>
    => type = sent[2] /\ \A k \in req_param_names : params[k] = ValueOf(Query(sent), k)

\* No value goes beyond its buffer, and none has a character that could lead out
\* of the directory of the files, whatever part of the request it was found in.
ValuesClean ==
    \A k \in req_param_names : params[k] # NULL =>
        Len(params[k]) < ParamMaxLen /\ Range(params[k]) \subseteq Alnum \cup {"="}

\* What a file should be answered with: all of it, in data.xml with the name of
\* the server.
AnswerOf(f) ==
    IF path.name # "data.xml" THEN f
    ELSE [n \in DOMAIN f |->
            IF n = FirstAt(f, {"SERVER_URL"}, 1) THEN "SERVER_NAME" ELSE f[n]]

\* A file without a NUL. A binary file, as a player is one, is cut at its first.
IsText(f) == "NUL" \notin Range(f)

\* The parts around the name are no longer than an unsigned short can count.
FitsUshort(f) ==
    LET text == CString(f)
        init == FirstAt(text, {"SERVER_URL"}, 1)
    IN  init > Len(text) \/ (init < UshortRange /\ Len(text) + 1 - init < UshortRange)

FileSent == pc = "done" /\ path # NULL /\ reply.first = "200"

\* A text file that nobody touches is sent whole; of any file the length that is
\* announced is that of what is sent.
WholeIfStill ==
    FileSent =>
        /\ reply.var_field = Len(reply.body)
        /\ \A f \in Contents :
            Range(seen) = {f} /\ IsText(f) /\ FitsUshort(f) => reply.body = AnswerOf(f)

\* Of a file that is replaced by another one while it is read the client gets one
\* version, or the beginning of one, and never a mixture.
OneVersion ==
    FileSent /\ (\A f \in Range(seen) : FitsUshort(f)) =>
        \E f \in Range(seen) : IsPrefix(reply.body, AnswerOf(f))

\* Once it knows the path, the server answers that there is no file if, and only
\* if, the file was missing when it looked; it ends only when the file goes after
\* it was seen, or when the path of the request begins with a delimiter.
AnswerFitsFiles ==
    /\ path # NULL /\ pc = "done" => (reply.first = "404") = (Missing \in Range(seen))
    /\ pc = "crashed" =>
        \/ Len(seen) > 1 /\ seen[1] # Missing
        \/ input[2] \in {"?", "SP"}

-----------------------------------------------------------------------------
(* The inductive invariant behind them.                                    *)

\* recv() returned a part of a text from its beginning.
TextInv ==
    /\ sent \in Inputs \cup {<<>>}
    /\ \E n \in 0 .. Len(sent) : input = SubSeq(sent, 1, n)

\* What get_file_by_id() knows of the file at each of its steps.
FileInv ==
    /\ pc \in {"recv", "parse"} => type = NULL
    /\ pc \in {"recv", "parse", "send_video", "file"} => path = NULL
    /\ pc \in {"recv", "parse", "send_video", "file", "exists"} => seen = <<>>
    /\ pc = "file" => type \in Range(files_supported)
    /\ pc \in {"exists", "open", "read", "compose"} =>
        check_supported_file(type) /\ path.name = type
    /\ pc \in {"open", "read", "compose"} => seen \in Seq(Contents)
    /\ pc = "open" => Len(seen) = 1
    /\ pc = "read" => Len(seen) = 2 /\ fd = seen[2]
    /\ pc = "compose" =>
        /\ Len(seen) = 3 /\ fd = seen[2]
        /\ contents = SubSeq(fd, 1, Least(Len(seen[3]), Len(fd)))

IInv ==
    /\ TypeOK /\ TextInv /\ FileInv
    /\ ParsedAsWritten /\ ValuesClean
    /\ WholeIfStill /\ OneVersion /\ AnswerFitsFiles
=============================================================================
