---------------------------- MODULE MCVideoCache ----------------------------
(***************************************************************************)
(* Values for model-checking VideoCache: directory names the server        *)
(* accepts, two of them with one number, and one below MINNUMPATH.         *)
(***************************************************************************)
EXTENDS VideoCache, TLC

CONSTANTS t1, t2, t3, v1, v2, v3, signA

\* The name 0100 has the number of 100.
Numbers == [name \in {"7", "100", "0100", "101"} |->
    CASE name = "7" -> 7 [] name = "101" -> 101 [] OTHER -> 100]

WithoutSigns == [name : Names, sign : {TooShort}]

\* With the right sign for two videos; under the name that has the number of
\* the first one, with a sign that is too long and with one that is too short.
Ask(name, head, tail) == [name |-> name, sign |-> [head |-> head, tail |-> tail]]
WithSigns ==
    {Ask("100", signA, "none"), Ask("101", signA, "none"),
     Ask("0100", signA, "x"), Ask("0100", ShortSign, "none")}

TwoThreads == {t1, t2}
ThreeThreads == {t1, t2, t3}
TwoVideos == {v1, v2}
ThreeVideos == {v1, v2, v3}

\* Threads are interchangeable, and so are addresses.
TwoSymmetry == Permutations(TwoThreads) \cup Permutations(TwoVideos)
ThreeSymmetry == Permutations(ThreeThreads) \cup Permutations(ThreeVideos)

ZeroGarbage == {0}
SomeGarbage == {0, -5, 3}
=============================================================================
