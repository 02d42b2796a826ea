----------------------------- MODULE MCSendVideo -----------------------------
(***************************************************************************)
(* Videos for model-checking SendVideo.                                    *)
(***************************************************************************)
EXTENDS SendVideo, TLC

AStream(offsets, size) ==
    [iframe_num |-> Len(offsets),
     iframe_offset |-> [i \in 0 .. Len(offsets) - 1 |-> offsets[i + 1]],
     data_size |-> size]

AVideo(streams) ==
    [stream_num |-> Len(streams),
     streams |-> [p \in 0 .. Len(streams) - 1 |-> streams[p + 1]]]

\* Offsets that repeat, at the beginning and in between, and i-frames of less
\* than a chunk and of several chunks.
Single == AVideo(<<AStream(<<0, 2, 3>>, 6)>>)
Double == AVideo(<<AStream(<<0, 1, 1, 3, 4>>, 5), AStream(<<0, 1, 3, 3, 6>>, 9)>>)
Triple == AVideo(<<AStream(<<0, 1, 2, 2, 3>>, 4), AStream(<<0, 0, 2, 5, 6>>, 7),
                   AStream(<<0, 3, 4, 7, 8>>, 11)>>)

\* Streams with other numbers of i-frames; one with offsets that were missing in
\* the info file; as many i-frames as an unsigned short can count.
Uneven == AVideo(<<AStream(<<0, 1, 3>>, 5), AStream(<<0, 1, 3, 5, 6>>, 9)>>)
Cut == AVideo(<<AStream(<<0, 1, 3, 0>>, 5), AStream(<<0, 2, 3, 5>>, 8)>>)
Many == AVideo(<<AStream(<<0, 1, 2, 3, 4, 5, 6>>, 7), AStream(<<0, 2, 4, 6>>, 8)>>)

SomeVideos == {Single, Double, Triple, Uneven, Cut, Many}
=============================================================================
