----------------------------- MODULE MCRequest -----------------------------
(* Instances of Request: every short query of a stream, some requests for   *)
(* files, and texts that are no requests.                                   *)
EXTENDS Request

CONSTANTS w, y      \* a word, the id of a directory

MCAlnum == {w, y}
MCDirs == {<<y>>}

Get(path_) == <<"GET">> \o path_ \o <<"SP", "/", "CR", "/">>

Pair(n) == UNION { [1 .. k -> {"pos", "quality", "=", w, "/"}] : k \in 0 .. n }
Queries == Pair(5) \cup { p \o <<"&">> \o q : p \in Pair(3), q \in Pair(3) }

FileQueries ==
    { <<>>, <<"?">>, <<"?", "video_id", "=", y>>, <<"?", "video_id", "=", w>>,
      <<"?", "video_id", "=", y, "/", y, "&", "cache", "=", w>>, <<"?", "cache", "=", w>> }

MCInputs ==
    { Get(<<"stream", "?">> \o q) : q \in Queries }
    \cup { Get(<<f>> \o q) : f \in {"data.xml", "player.swf", "sfMovie.js"}, q \in FileQueries }
    \cup { Get(q) : q \in {<<>>, <<w>>, <<"?", "data.xml">>, <<"data.xml", w>>} }
    \cup { <<"GET", "data.xml", "SP", "CR", "video_id", "=", y, "CR">>,
           <<"GET", "data.xml", "?", "cache", "=", w, "CR", "/">>,
           <<"/", "data.xml", "SP", "/", "CR", "/">> }

Long == [n \in 1 .. 19 |-> w]

MCContents ==
    { <<w, "SERVER_URL", "/">>, <<w, "NUL", "SERVER_URL">>, <<"/", w>>,
      Long \o <<"SERVER_URL">>, <<w, "SERVER_URL">> \o Long \o <<"/">> }
=============================================================================
