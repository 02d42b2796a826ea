----------------------------- MODULE MCInfoFile -----------------------------
(***************************************************************************)
(* Values for model-checking InfoFile.                                     *)
(***************************************************************************)
EXTENDS InfoFile

Video(size, duration, offsets, ok) ==
    [data_size |-> size, duration |-> duration, iframe_offset |-> offsets, decodes |-> ok]

\* A usual one; one without i-frames that ends where the last i-frame of the usual
\* one begins; one with more i-frames than there is room for in no time, and than
\* the smallest numbers count; and one that cannot be decoded.
Usual == Video(3, 1, <<0, 2>>, TRUE)
SomeContents == {Usual, Video(2, 1, <<>>, TRUE), Video(2, 0, <<0, 0, 1, 1>>, TRUE)}
Refused == Video(1, 1, <<>>, FALSE)
RepeatedContents == {Usual, Video(2, 1, <<1, 1>>, TRUE)}
SafeContents == {Usual, Refused}
=============================================================================
