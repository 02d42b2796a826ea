-------------------------- MODULE InfoFileProofs --------------------------
(***************************************************************************)
(* Proofs about InfoFile, for any number of video files with any contents, *)
(* and any number of runs and changes: where each token of the file is,    *)
(* however far the chopper got, and what the server makes of it.           *)
(***************************************************************************)
EXTENDS InfoFile, NatLemmas, FiniteSetTheorems, TLAPS

-----------------------------------------------------------------------------
(* The text of an info file.                                               *)

LEMMA Constants ==
    /\ NumFiles \in Nat /\ MaxRuns \in Nat /\ MaxChanges \in Nat
    /\ UshortRange \in Nat \ {0} /\ AnyNumbers \subseteq Nat
    /\ Missing \notin Contents /\ Missing \notin Seq(Tokens)
    /\ Torn \notin Seq(Tokens) /\ Missing # Torn
    /\ \A c \in Contents :
        /\ c.data_size \in Nat
        /\ c.iframe_offset \in Seq(Nat)
        /\ \A n \in DOMAIN c.iframe_offset : c.iframe_offset[n] < c.data_size
        /\ \A m, n \in DOMAIN c.iframe_offset : m <= n => c.iframe_offset[m] <= c.iframe_offset[n]
<1>1. /\ {NumFiles, MaxRuns, MaxChanges} \subseteq Nat
      /\ UshortRange \in Nat \ {0} /\ AnyNumbers \subseteq Nat
      /\ Missing \notin Contents /\ {Missing, Torn} \cap Seq(Tokens) = {} /\ Missing # Torn
    BY InfoFileAssumption
<1>2. ASSUME NEW c \in Contents
      PROVE  /\ c.data_size \in Nat
             /\ c.iframe_offset \in Seq(Nat)
             /\ \A n \in DOMAIN c.iframe_offset : c.iframe_offset[n] < c.data_size
             /\ \A m, n \in DOMAIN c.iframe_offset :
                    m <= n => c.iframe_offset[m] <= c.iframe_offset[n]
  <2>1. /\ c.data_size \in Nat /\ c.iframe_offset \in Seq(0 .. c.data_size - 1)
        /\ \A m, n \in DOMAIN c.iframe_offset :
                m <= n => c.iframe_offset[m] <= c.iframe_offset[n]
      BY InfoFileAssumption
  <2>2. c.iframe_offset \in Seq(Nat)
      BY <2>1
  <2>3. \A n \in DOMAIN c.iframe_offset : c.iframe_offset[n] \in 0 .. c.data_size - 1
      BY <2>1
  <2>4. QED
      BY <2>1, <2>2, <2>3
<1>3. QED
    BY <1>1, <1>2

LEMMA StreamFacts ==
    /\ NoStream \notin Streams
    /\ \A s \in Streams :
        /\ s.filename \in Files /\ s.iframe_offset \in Seq(Nat)
        /\ Len(s.iframe_offset) \in Nat
        /\ DOMAIN s.iframe_offset = 1 .. Len(s.iframe_offset)
        /\ s = Stream(s.filename, s.iframe_offset)
        /\ \A m, n \in DOMAIN s.iframe_offset :
            m <= n => s.iframe_offset[m] <= s.iframe_offset[n]
<1>1. NoStream \notin Streams
    BY InfoFileAssumption DEF Streams, Stream
<1>2. QED
    BY <1>1, Constants DEF Streams, Stream

LEMMA TokenFacts ==
    /\ NL \in Tokens /\ NL.kind = "newline"
    /\ \A f \in Files : Name(f) \in Tokens /\ Name(f).kind = "name" /\ Name(f).val = f
    /\ \A n \in Nat : Num(n) \in Tokens /\ Num(n).kind = "number" /\ Num(n).val = n
    /\ \A tok \in Tokens :
        /\ tok.kind = "name" => tok.val \in Files /\ tok = Name(tok.val)
        /\ tok.kind = "number" => tok.val \in Nat /\ tok = Num(tok.val)
BY DEF Tokens, NL, Name, Num

LEMMA Appended ==
    ASSUME NEW text \in Seq(Tokens), NEW more \in Seq(Tokens)
    PROVE  /\ text \o more \in Seq(Tokens)
           /\ Len(text \o more) = Len(text) + Len(more)
           /\ DOMAIN (text \o more) = 1 .. Len(text) + Len(more)
           /\ \A p \in 1 .. Len(text) : (text \o more)[p] = text[p]
           /\ \A p \in Len(text) + 1 .. Len(text) + Len(more) :
                (text \o more)[p] = more[p - Len(text)]
OBVIOUS

\* The tokens after the name of a stream are its own, up to its end.
LEMMA NoNameInside ==
    ASSUME NEW text \in Seq(Tokens), NEW s \in Streams, NEW q \in DOMAIN text,
           ListedAt(text, q, s), NEW p \in DOMAIN text, p > q, text[p].kind = "name"
    PROVE  p > q + 4 + Len(s.iframe_offset)
<1> DEFINE len == Len(s.iframe_offset)
<1>1. /\ len \in Nat /\ DOMAIN s.iframe_offset = 1 .. len
      /\ \A n \in 1 .. len : s.iframe_offset[n] \in Nat
      /\ q \in Nat /\ p \in Nat /\ p <= Len(text) /\ Len(text) \in Nat
    BY StreamFacts
<1>2. p # q + 1 /\ p # q + 2 /\ p # q + 3
    BY <1>1, TokenFacts DEF ListedAt
<1>3. ASSUME p > q + 3, p <= q + 3 + len
      PROVE  FALSE
  <2> DEFINE n == p - q - 3
  <2>1. n \in 1 .. len /\ p = q + 3 + n
      BY <1>1, <1>3, SMTT(30)
  <2>2. text[p] = Num(s.iframe_offset[n])
      BY <1>1, <2>1 DEF ListedAt
  <2>3. QED
      BY <1>1, <2>1, <2>2, TokenFacts
<1>4. p # q + 4 + len
    BY <1>1, TokenFacts DEF ListedAt
<1>5. p > q + 4 + len
  <2>1. len \in Nat /\ p \in Nat /\ q \in Nat
      BY <1>1
  <2> HIDE DEF len
  <2> QED
      BY <1>2, <1>3, <1>4, <2>1, SMTT(30)
<1>6. QED
    BY <1>5

\* A name stands for the same stream at every place.
LEMMA ListedOnce ==
    ASSUME NEW text, NEW set, OneEach(set), set \subseteq Streams, Lists(text, set),
           NEW s \in set, NEW q \in DOMAIN text, text[q] = Name(s.filename)
    PROVE  ListedAt(text, q, s)
<1>1. text[q].kind = "name" /\ text[q].val = s.filename
    BY StreamFacts, TokenFacts
<1>2. PICK r \in set : ListedAt(text, q, r)
    BY <1>1 DEF Lists
<1>3. r.filename = s.filename
    BY <1>1, <1>2, StreamFacts, TokenFacts DEF ListedAt
<1>4. QED
    BY <1>2, <1>3 DEF OneEach

\* Names are listed once the list is long enough.
LEMMA NamesAreListed ==
    ASSUME NEW text \in Seq(Tokens), NEW q \in DOMAIN text
    PROVE  text[q].kind = "name" <=> \E f \in NamesIn(text) : text[q] = Name(f)
<1>1. text[q] \in Tokens
    OBVIOUS
<1>2. ASSUME text[q].kind = "name" PROVE \E f \in NamesIn(text) : text[q] = Name(f)
    BY <1>1, <1>2, TokenFacts DEF NamesIn
<1>3. QED
    BY <1>2, TokenFacts DEF NamesIn

\* The first line of a text.
LEMMA HeaderListed ==
    ASSUME NEW set, NEW n \in Nat
    PROVE  LET text == <<Num(n), NL>>
           IN  /\ Lists(text, set) /\ NotCut(text, set) /\ NamesIn(text) = {}
               /\ Len(text) = 2 /\ text[1] = Num(n)
<1> DEFINE text == <<Num(n), NL>>
<1>1. /\ text \in Seq(Tokens) /\ Len(text) = 2 /\ DOMAIN text = 1 .. 2
      /\ text[1] = Num(n) /\ text[2] = NL
    BY TokenFacts
<1>2. \A q \in DOMAIN text : text[q].kind # "name"
    BY <1>1, TokenFacts
<1>3. text[1].kind = "number"
    BY <1>1, TokenFacts
<1> HIDE DEF text
<1>4. \A q \in DOMAIN text : \A f : text[q] # Name(f)
    BY <1>2 DEF Name
<1>5. Lists(text, set)
    BY <1>1, <1>2, <1>3 DEF Lists
<1>6. NotCut(text, set) /\ NamesIn(text) = {}
    BY <1>4 DEF NotCut, NamesIn
<1>7. QED
    BY <1>1, <1>5, <1>6 DEF text

\* A stream is begun behind a text that is not cut.
LEMMA NameAdded ==
    ASSUME NEW text, NEW set, set \subseteq Streams, Lists(text, set), NotCut(text, set),
           Len(text) >= 2, NEW s \in set, s.filename \notin NamesIn(text)
    PROVE  LET longer == text \o <<Name(s.filename), NL, Num(Len(s.iframe_offset)), NL>>
           IN  /\ Lists(longer, set)
               /\ NamesIn(longer) = NamesIn(text) \cup {s.filename}
               /\ Len(longer) = Len(text) + 4 /\ longer[1] = text[1]
               /\ longer[Len(text) + 1] = Name(s.filename)
<1> DEFINE more == <<Name(s.filename), NL, Num(Len(s.iframe_offset)), NL>>
           longer == text \o more
           len == Len(text)
<1>1. /\ s.filename \in Files /\ Len(s.iframe_offset) \in Nat
      /\ DOMAIN s.iframe_offset = 1 .. Len(s.iframe_offset)
    BY StreamFacts
<1>2. /\ more \in Seq(Tokens) /\ Len(more) = 4
      /\ more[1] = Name(s.filename) /\ more[2] = NL
      /\ more[3] = Num(Len(s.iframe_offset)) /\ more[4] = NL
    BY <1>1, TokenFacts
<1>3. text \in Seq(Tokens) /\ len \in Nat /\ len >= 2 /\ DOMAIN text = 1 .. len
    BY DEF Lists
<1>33. Len(text) = len
    OBVIOUS
<1>0. longer = text \o more
    OBVIOUS
<1> HIDE DEF more, longer, len
<1>4. /\ longer \in Seq(Tokens) /\ Len(longer) = len + 4 /\ DOMAIN longer = 1 .. len + 4
      /\ \A p \in 1 .. len : longer[p] = text[p]
      /\ \A p \in len + 1 .. len + 4 : longer[p] = more[p - len]
  <2>1. /\ text \o more \in Seq(Tokens) /\ Len(text \o more) = Len(text) + Len(more)
        /\ DOMAIN (text \o more) = 1 .. Len(text) + Len(more)
      BY <1>2, <1>3, Appended
  <2>2. \A p \in 1 .. Len(text) : (text \o more)[p] = text[p]
      BY <1>2, <1>3, Appended
  <2>3. \A p \in Len(text) + 1 .. Len(text) + Len(more) :
            (text \o more)[p] = more[p - Len(text)]
      BY <1>2, <1>3, Appended
  <2>4. QED
      BY <1>0, <1>2, <1>33, <2>1, <2>2, <2>3
<1>5. /\ longer[len + 1] = Name(s.filename) /\ longer[len + 2] = NL
      /\ longer[len + 3] = Num(Len(s.iframe_offset)) /\ longer[len + 4] = NL
  <2>1. /\ len + 1 \in len + 1 .. len + 4 /\ len + 2 \in len + 1 .. len + 4
        /\ len + 3 \in len + 1 .. len + 4 /\ len + 4 \in len + 1 .. len + 4
        /\ (len + 1) - len = 1 /\ (len + 2) - len = 2 /\ (len + 3) - len = 3
        /\ (len + 4) - len = 4
      BY <1>3
  <2>2. QED
      BY <1>2, <1>4, <2>1
<1>6. \A q \in DOMAIN longer : longer[q].kind = "name" => q \in 1 .. len \/ q = len + 1
  <2> SUFFICES ASSUME NEW q \in DOMAIN longer, q \notin 1 .. len, q # len + 1
               PROVE  longer[q].kind # "name"
      OBVIOUS
  <2>1. q = len + 2 \/ q = len + 3 \/ q = len + 4
      BY <1>3, <1>4
  <2>2. QED
      BY <1>1, <1>5, <2>1, TokenFacts
<1>7. ListedAt(longer, len + 1, s)
  <2> DEFINE q == len + 1
             m == Len(s.iframe_offset)
  <2>1. m \in Nat /\ DOMAIN s.iframe_offset = 1 .. m
      BY <1>1
  <2>2. m = Len(s.iframe_offset)
      OBVIOUS
  <2> HIDE DEF m
  <2>3. q + 1 = len + 2 /\ q + 2 = len + 3 /\ q + 3 = len + 4 /\ q \in Nat
      BY <1>3
  <2>4. /\ longer[q] = Name(s.filename) /\ longer[q + 1] = NL
        /\ longer[q + 2] = Num(m) /\ longer[q + 3] = NL
      BY <1>5, <2>2, <2>3
  <2>5. /\ q + 3 <= Len(longer)
        /\ \A n \in 1 .. m : ~(q + 3 + n <= Len(longer))
        /\ ~(q + 4 + m <= Len(longer)) /\ ~(q + 4 + m < Len(longer))
      BY <1>3, <1>4, <2>1
  <2> HIDE DEF q
  <2>6. ListedAt(longer, q, s)
      BY <2>1, <2>2, <2>4, <2>5 DEF ListedAt
  <2>7. QED
      BY <2>6 DEF q
<1>8. ASSUME NEW q \in 1 .. len, NEW r \in set, ListedAt(text, q, r)
      PROVE  ListedAt(longer, q, r)
  <2> DEFINE m == Len(r.iframe_offset)
             end == q + 4 + m
  <2>1. m \in Nat /\ DOMAIN r.iframe_offset = 1 .. m
      BY StreamFacts
  <2>2. m = Len(r.iframe_offset)
      OBVIOUS
  <2>3. end <= len
    <3>1. text[q] = Name(r.filename) /\ q \in DOMAIN text
        BY <1>3, <1>8 DEF ListedAt
    <3>2. q + 4 + Len(r.iframe_offset) <= Len(text)
        BY <3>1 DEF NotCut
    <3>3. QED
        BY <1>33, <3>2
  <2> HIDE DEF m
  <2>4. /\ q + 1 \in 1 .. len /\ q + 2 \in 1 .. len /\ q + 3 \in 1 .. len
        /\ end \in 1 .. len
        /\ \A n \in 1 .. m : q + 3 + n \in 1 .. len
        /\ end < len => end + 1 \in 1 .. len
        /\ ~(end < len) => end = len
      BY <1>3, <2>1, <2>3
  <2>5. end = q + 4 + m
      OBVIOUS
  <2> HIDE DEF end
  <2>6. /\ text[q] = Name(r.filename) /\ text[q + 1] = NL
        /\ text[q + 2] = Num(m) /\ text[q + 3] = NL
        /\ text[end] = NL
        /\ \A n \in 1 .. m : text[q + 3 + n] = Num(r.iframe_offset[n])
        /\ end < len => text[end + 1].kind = "name"
    <3>1. /\ \A n \in 1 .. m : q + 3 + n <= Len(text)
          /\ end <= Len(text) /\ (end < len => end < Len(text))
        BY <1>33, <2>3, <2>4, <1>3
    <3>2. QED
        BY <1>8, <2>1, <2>2, <2>5, <3>1 DEF ListedAt
  <2>7. /\ longer[q] = Name(r.filename) /\ longer[q + 1] = NL
        /\ longer[q + 2] = Num(m) /\ longer[q + 3] = NL
        /\ longer[end] = NL
        /\ \A n \in 1 .. m : longer[q + 3 + n] = Num(r.iframe_offset[n])
        /\ end < len => longer[end + 1].kind = "name"
      BY <1>4, <2>4, <2>6
  <2>8. longer[end + 1].kind = "name"
    <3>1. CASE end = len
        BY <1>1, <1>5, <3>1, TokenFacts
    <3>2. QED
        BY <2>4, <2>7, <3>1
  <2>9. q + 3 <= Len(longer)
      BY <1>3, <1>4, <2>4
  <2>10. QED
      BY <2>1, <2>2, <2>5, <2>7, <2>8, <2>9 DEF ListedAt
<1>9. NamesIn(longer) = NamesIn(text) \cup {s.filename}
  <2>1. NamesIn(text) \cup {s.filename} \subseteq NamesIn(longer)
    <3>1. \A q \in DOMAIN text : q \in DOMAIN longer /\ longer[q] = text[q]
        BY <1>3, <1>4
    <3>2. len + 1 \in DOMAIN longer
        BY <1>3, <1>4
    <3>3. QED
        BY <1>1, <1>5, <3>1, <3>2 DEF NamesIn
  <2>2. ASSUME NEW f \in NamesIn(longer)
        PROVE  f \in NamesIn(text) \cup {s.filename}
    <3>1. PICK q \in DOMAIN longer : longer[q] = Name(f) /\ f \in Files
        BY DEF NamesIn
    <3>2. q \in 1 .. len \/ q = len + 1
        BY <1>6, <3>1, TokenFacts
    <3>3. CASE q \in 1 .. len
        BY <1>3, <1>4, <3>1, <3>3 DEF NamesIn
    <3>4. CASE q = len + 1
        BY <1>1, <1>5, <3>1, <3>4, TokenFacts
    <3>5. QED
        BY <3>2, <3>3, <3>4
  <2>3. QED
      BY <2>1, <2>2
<1>10. \A q \in DOMAIN longer : longer[q].kind = "name" => \E r \in set : ListedAt(longer, q, r)
  <2> SUFFICES ASSUME NEW q \in DOMAIN longer, longer[q].kind = "name"
               PROVE  \E r \in set : ListedAt(longer, q, r)
      OBVIOUS
  <2>1. CASE q = len + 1
      BY <1>7, <2>1
  <2>2. CASE q \in 1 .. len
    <3>1. \E r \in set : ListedAt(text, q, r)
        BY <1>3, <1>4, <2>2 DEF Lists
    <3>2. QED
        BY <1>8, <2>2, <3>1
  <2>3. QED
      BY <1>6, <2>1, <2>2
<1>11. \A p, q \in DOMAIN longer : longer[p].kind = "name" /\ longer[p] = longer[q] => p = q
  <2> SUFFICES ASSUME NEW p \in DOMAIN longer, NEW q \in DOMAIN longer,
                      longer[p].kind = "name", longer[p] = longer[q]
               PROVE  p = q
      OBVIOUS
  <2>1. \A m \in 1 .. len : longer[m] # Name(s.filename)
      BY <1>1, <1>3, <1>4 DEF NamesIn
  <2>2. CASE p \in 1 .. len /\ q \in 1 .. len
      BY <1>3, <1>4, <2>2 DEF Lists
  <2>3. QED
      BY <1>5, <1>6, <2>1, <2>2
<1>12. /\ longer # <<>> => Len(longer) >= 2 /\ longer[1].kind = "number" /\ longer[2] = NL
       /\ Len(longer) > 2 => longer[3].kind = "name"
       /\ longer[1] = text[1]
  <2>1. 1 \in 1 .. len /\ 2 \in 1 .. len /\ text # <<>>
      BY <1>3
  <2>2. longer[1] = text[1] /\ longer[2] = text[2]
      BY <1>4, <2>1
  <2>3. text[1].kind = "number" /\ text[2] = NL
      BY <2>1 DEF Lists
  <2>4. longer[3].kind = "name"
    <3>1. CASE len = 2
        BY <1>1, <1>5, <3>1, TokenFacts
    <3>2. CASE len > 2
      <4>1. 3 \in 1 .. len /\ text[3].kind = "name"
          BY <1>3, <3>2 DEF Lists
      <4>2. QED
          BY <1>4, <4>1
    <3>3. QED
        BY <1>3, <3>1, <3>2
  <2>5. QED
      BY <1>3, <1>4, <2>2, <2>3, <2>4
<1>13. Lists(longer, set)
    BY <1>4, <1>10, <1>11, <1>12 DEF Lists
<1>14. QED
    BY <1>4, <1>5, <1>9, <1>12, <1>13, SMTT(30) DEF longer, more

\* What follows the text that ends in the stream at q.
Follows(text, q, s, tok) ==
    LET len == Len(s.iframe_offset)
    IN  /\ Len(text) \in q + 3 .. q + 3 + len
        /\ Len(text) < q + 3 + len => tok = Num(s.iframe_offset[Len(text) - q - 2])
        /\ Len(text) = q + 3 + len => tok = NL

\* A text goes on where it ends, in its last stream.
LEMMA TokenAdded ==
    ASSUME NEW text, NEW set, set \subseteq Streams, OneEach(set), Lists(text, set),
           NEW s \in set, NEW q \in DOMAIN text, text[q] = Name(s.filename),
           NEW tok \in Tokens, tok.kind # "name",
           Follows(text, q, s, tok)
    PROVE  LET longer == text \o <<tok>>
           IN  /\ Lists(longer, set)
               /\ NamesIn(longer) = NamesIn(text)
               /\ Len(longer) = Len(text) + 1
               /\ \A p \in DOMAIN text : p \in DOMAIN longer /\ longer[p] = text[p]
               /\ Len(longer) = q + 4 + Len(s.iframe_offset) => NotCut(longer, set)
<1> DEFINE longer == text \o <<tok>>
           len == Len(text)
           m == Len(s.iframe_offset)
           more == <<tok>>
<1>1. /\ s.filename \in Files /\ m \in Nat
      /\ DOMAIN s.iframe_offset = 1 .. m
    BY StreamFacts
<1>2. /\ text \in Seq(Tokens) /\ len \in Nat /\ DOMAIN text = 1 .. len
      /\ more \in Seq(Tokens) /\ Len(more) = 1 /\ more[1] = tok
    BY DEF Lists
<1>3. len \in q + 3 .. q + 3 + m /\ q \in 1 .. len
    BY <1>2 DEF Follows
<1>33. /\ len < q + 3 + m => tok = Num(s.iframe_offset[len - q - 2])
       /\ len = q + 3 + m => tok = NL
    BY DEF Follows
<1>4. Len(text) = len /\ Len(s.iframe_offset) = m /\ longer = text \o more
    OBVIOUS
<1>5. ListedAt(text, q, s)
    BY ListedOnce
<1> HIDE DEF longer, len, m, more
<1>6. /\ longer \in Seq(Tokens) /\ Len(longer) = len + 1 /\ DOMAIN longer = 1 .. len + 1
      /\ \A p \in 1 .. len : longer[p] = text[p]
      /\ longer[len + 1] = tok
  <2>1. /\ text \o more \in Seq(Tokens) /\ Len(text \o more) = Len(text) + Len(more)
        /\ DOMAIN (text \o more) = 1 .. Len(text) + Len(more)
      BY <1>2, Appended
  <2>2. \A p \in 1 .. Len(text) : (text \o more)[p] = text[p]
      BY <1>2, Appended
  <2>3. \A p \in Len(text) + 1 .. Len(text) + Len(more) :
            (text \o more)[p] = more[p - Len(text)]
      BY <1>2, Appended
  <2>4. len + 1 \in len + 1 .. len + 1 /\ (len + 1) - len = 1
      BY <1>2
  <2>5. QED
      BY <1>2, <1>4, <2>1, <2>2, <2>3, <2>4
\* The other streams end before this one begins.
<1>7. ASSUME NEW p \in 1 .. len, NEW r \in set, ListedAt(text, p, r), p # q
      PROVE  p + 4 + Len(r.iframe_offset) < q
  <2>1. text[q].kind = "name" /\ text[p].kind = "name" /\ p \in DOMAIN text
      BY <1>1, <1>2, <1>7, TokenFacts, StreamFacts DEF ListedAt
  <2>2. CASE p > q
    <3>1. p > q + 4 + m
        BY <1>2, <1>4, <1>5, <2>1, <2>2, NoNameInside
    <3>2. QED
        BY <1>1, <1>2, <1>3, <3>1
  <2>3. CASE p < q
    <3>1. q > p + 4 + Len(r.iframe_offset)
        BY <1>2, <1>7, <2>1, <2>3, NoNameInside
    <3> DEFINE k == Len(r.iframe_offset)
    <3>2. k \in Nat
        BY StreamFacts
    <3> HIDE DEF k
    <3>3. q > p + 4 + k
        BY <3>1 DEF k
    <3>4. p + 4 + k < q
        BY <1>3, <3>2, <3>3
    <3>5. QED
        BY <3>4 DEF k
  <2>4. p > q \/ p < q
      BY <1>2, <1>3, <1>7
  <2>5. QED
      BY <2>2, <2>3, <2>4
<1>8. ListedAt(longer, q, s)
  <2>1. /\ q + 1 \in 1 .. len /\ q + 2 \in 1 .. len /\ q + 3 \in 1 .. len
        /\ q + 3 <= len + 1 /\ ~(q + 4 + m < len + 1)
    <3>1. m \in Nat /\ len \in Nat /\ q \in Nat /\ 1 <= q /\ q + 3 <= len /\ len <= q + 3 + m
        BY <1>1, <1>2, <1>3
    <3>2. QED
        BY <3>1
  <2>2. /\ longer[q] = Name(s.filename) /\ longer[q + 1] = NL
        /\ longer[q + 2] = Num(m) /\ longer[q + 3] = NL
      BY <1>3, <1>4, <1>5, <1>6, <2>1 DEF ListedAt
  <2>3. ASSUME NEW n \in 1 .. m, q + 3 + n <= len + 1
        PROVE  longer[q + 3 + n] = Num(s.iframe_offset[n])
    <3>1. CASE q + 3 + n <= len
      <4>1. text[q + 3 + n] = Num(s.iframe_offset[n])
          BY <1>1, <1>4, <1>5, <3>1 DEF ListedAt
      <4>2. q + 3 + n \in 1 .. len
          BY <1>2, <1>3, <3>1
      <4>3. QED
          BY <1>6, <4>1, <4>2
    <3>2. CASE q + 3 + n = len + 1
      <4>1. len < q + 3 + m /\ len - q - 2 = n
          BY <1>1, <1>2, <1>3, <3>2
      <4>2. tok = Num(s.iframe_offset[n])
          BY <1>33, <4>1
      <4>3. QED
          BY <1>6, <3>2, <4>2
    <3>3. q + 3 + n <= len \/ q + 3 + n = len + 1
        BY <1>1, <1>2, <1>3, <2>3
    <3>4. QED
        BY <3>1, <3>2, <3>3
  <2>4. ASSUME q + 4 + m <= len + 1
        PROVE  longer[q + 4 + m] = NL
    <3>1. len = q + 3 + m /\ q + 4 + m = len + 1
        BY <1>1, <1>2, <1>3, <2>4, SMTT(30)
    <3>2. QED
        BY <1>33, <1>6, <3>1
  <2>5. QED
      BY <1>1, <1>4, <1>6, <2>1, <2>2, <2>3, <2>4 DEF ListedAt
<1>9. ASSUME NEW p \in 1 .. len, NEW r \in set, ListedAt(text, p, r), p # q
      PROVE  ListedAt(longer, p, r)
  <2> DEFINE k == Len(r.iframe_offset)
             end == p + 4 + k
  <2>1. k \in Nat /\ DOMAIN r.iframe_offset = 1 .. k /\ end < q
      BY <1>7, <1>9, StreamFacts
  <2>2. k = Len(r.iframe_offset)
      OBVIOUS
  <2> HIDE DEF k
  <2>3. /\ p + 1 \in 1 .. len /\ p + 2 \in 1 .. len /\ p + 3 \in 1 .. len
        /\ end \in 1 .. len /\ end + 1 \in 1 .. len /\ end < len
        /\ \A n \in 1 .. k : p + 3 + n \in 1 .. len
        /\ p + 3 <= len + 1 /\ end < len + 1
      BY <1>2, <1>3, <2>1
  <2>4. end = p + 4 + k
      OBVIOUS
  <2> HIDE DEF end
  <2>5. /\ text[p] = Name(r.filename) /\ text[p + 1] = NL
        /\ text[p + 2] = Num(k) /\ text[p + 3] = NL
        /\ text[end] = NL
        /\ \A n \in 1 .. k : text[p + 3 + n] = Num(r.iframe_offset[n])
        /\ text[end + 1].kind = "name"
    <3>1. /\ \A n \in 1 .. k : p + 3 + n <= Len(text)
          /\ end <= Len(text) /\ end < Len(text)
        BY <1>2, <1>4, <2>3
    <3>2. QED
        BY <1>9, <2>1, <2>2, <2>4, <3>1 DEF ListedAt
  <2>6. /\ longer[p] = Name(r.filename) /\ longer[p + 1] = NL
        /\ longer[p + 2] = Num(k) /\ longer[p + 3] = NL
        /\ longer[end] = NL
        /\ \A n \in 1 .. k : longer[p + 3 + n] = Num(r.iframe_offset[n])
        /\ longer[end + 1].kind = "name"
      BY <1>6, <2>3, <2>5
  <2>7. QED
      BY <1>6, <2>1, <2>2, <2>3, <2>4, <2>6 DEF ListedAt
<1>10. ASSUME NEW p \in DOMAIN longer, longer[p].kind = "name"
       PROVE  p \in 1 .. len /\ text[p] = longer[p]
  <2>1. p # len + 1
      BY <1>6, <1>10
  <2>2. QED
      BY <1>2, <1>6, <2>1
<1>11. ASSUME NEW p \in DOMAIN longer, longer[p].kind = "name"
       PROVE  \E r \in set : ListedAt(longer, p, r) /\ ListedAt(text, p, r)
  <2>1. PICK r \in set : ListedAt(text, p, r)
      BY <1>2, <1>10, <1>11 DEF Lists
  <2>2. CASE p = q
      BY <1>5, <1>8, <2>2
  <2>3. CASE p # q
      BY <1>9, <1>10, <1>11, <2>1, <2>3
  <2>4. QED
      BY <2>2, <2>3
<1>12. \A p, r \in DOMAIN longer : longer[p].kind = "name" /\ longer[p] = longer[r] => p = r
  <2> SUFFICES ASSUME NEW p \in DOMAIN longer, NEW r \in DOMAIN longer,
                      longer[p].kind = "name", longer[p] = longer[r]
               PROVE  p = r
      OBVIOUS
  <2>1. p \in DOMAIN text /\ r \in DOMAIN text /\ text[p] = longer[p] /\ text[r] = longer[r]
      BY <1>2, <1>10
  <2>2. QED
      BY <2>1 DEF Lists
<1>13. /\ longer # <<>> => Len(longer) >= 2 /\ longer[1].kind = "number" /\ longer[2] = NL
       /\ Len(longer) > 2 => longer[3].kind = "name"
  <2>1. 1 \in 1 .. len /\ 2 \in 1 .. len /\ 3 \in 1 .. len /\ text # <<>> /\ Len(text) > 2
      BY <1>2, <1>3, <1>4
  <2>2. text[1].kind = "number" /\ text[2] = NL /\ text[3].kind = "name"
      BY <2>1 DEF Lists
  <2>3. longer[1] = text[1] /\ longer[2] = text[2] /\ longer[3] = text[3]
      BY <1>6, <2>1, Zenon
  <2>4. Len(longer) >= 2
      BY <1>2, <1>6, <2>1
  <2>5. QED
      BY <2>2, <2>3, <2>4
<1>14. Lists(longer, set)
    BY <1>6, <1>11, <1>12, <1>13 DEF Lists
<1>15. \A p \in DOMAIN text : p \in DOMAIN longer /\ longer[p] = text[p]
    BY <1>2, <1>6
<1>16. NamesIn(longer) = NamesIn(text)
  <2>1. ASSUME NEW f \in Files, NEW p \in DOMAIN longer, longer[p] = Name(f)
        PROVE  p \in DOMAIN text /\ text[p] = Name(f)
    <3>1. longer[p].kind = "name"
        BY <2>1, TokenFacts
    <3>2. QED
        BY <1>2, <1>10, <2>1, <3>1
  <2>2. QED
      BY <1>15, <2>1 DEF NamesIn
<1>17. Len(longer) = q + 4 + m => NotCut(longer, set)
  <2> SUFFICES ASSUME Len(longer) = q + 4 + m,
                      NEW p \in DOMAIN longer, NEW r \in set, longer[p] = Name(r.filename)
               PROVE  p + 4 + Len(r.iframe_offset) <= Len(longer)
      BY DEF NotCut
  <2>1. p \in 1 .. len /\ p \in DOMAIN text /\ text[p] = Name(r.filename)
    <3>1. longer[p].kind = "name"
        BY TokenFacts, StreamFacts
    <3>2. QED
        BY <1>2, <1>10, <3>1
  <2>2. ListedAt(text, p, r)
      BY <2>1, ListedOnce
  <2>3. CASE p = q
    <3>1. r = s
      <4>1. Name(r.filename) = Name(s.filename)
          BY <2>1, <2>3
      <4>2. r.filename = s.filename
          BY <4>1 DEF Name
      <4>3. QED
          BY <4>2 DEF OneEach
    <3>2. QED
        BY <1>4, <1>1, <1>3, <2>3, <3>1
  <2>4. CASE p # q
    <3> DEFINE k == Len(r.iframe_offset)
    <3>1. p + 4 + k < q /\ k \in Nat
        BY <1>7, <2>1, <2>2, <2>4, StreamFacts
    <3> HIDE DEF k
    <3>2. p + 4 + k <= Len(longer)
        BY <1>1, <1>3, <2>1, <3>1
    <3>3. QED
        BY <3>2 DEF k
  <2>5. QED
      BY <2>3, <2>4
<1>18. QED
    BY <1>4, <1>6, <1>14, <1>15, <1>16, <1>17 DEF longer, more

-----------------------------------------------------------------------------
(* The chopper.                                                            *)

\* What a step of one program leaves to the other.
LEMMA ChopperFrame ==
    ASSUME load_videos \/ Killed
    PROVE  /\ UNCHANGED <<loader, file_data, offset, stream_num, data, loaded, origin, meanwhile>>
           /\ UNCHANGED <<disk, changed>>
BY DEF load_videos, Killed, Scan, LoadStream, Truncate, WriteHeader, WriteName, WriteOffset,
       WriteEnd, Done, Segfault, OpenFails, Overflow, Stop, Ends, Write, loaders, outside

LEMMA OtherFrame ==
    ASSUME load_video \/ Again \/ ChangeFile \/ UNCHANGED vars
    PROVE  /\ UNCHANGED <<info, chopper, video_files, streams, num_entries, i, j, runs>>
           /\ UNCHANGED <<outcome, written>>
BY DEF load_video, Again, ChangeFile, vars, CheckSize, ReadInfo, ReadEmpty, MissingFile,
       ReadStream, AddStream, NoIframes, TornStream, TornEnds, EndLoad, choppers, outside, infos

\* The ways the chopper ends, and what it leaves.
LEMMA EndCases ==
    ASSUME Done \/ Segfault \/ OpenFails \/ Overflow \/ Killed
    PROVE  \E how \in {"ended", "crashed", "stopped"} :
            /\ Ends(how) /\ chopper # "idle"
            /\ info' = info \/ (info' = Torn /\ chopper = "load")
            /\ how = "ended" => Done \/ info' = Torn
BY DEF Done, Segfault, OpenFails, Overflow, Killed, Stop, infos

\* A list of names is one of existing files, each once.
LEMMA NamesSorted ==
    ASSUME NEW names \in SUBSET Files, NEW s \in Alphasort(names)
    PROVE  /\ s \in Seq(Files) /\ Len(s) \in 0 .. NumFiles
           /\ \A k \in DOMAIN s : s[k] \in names
           /\ \A k, l \in DOMAIN s : k < l => s[k] < s[l]
<1>1. /\ IsFiniteSet(Files) /\ Cardinality(Files) = NumFiles
  <2>1. 1 \in Int /\ NumFiles \in Int /\ NumFiles >= 0
      BY Constants
  <2>2. QED
      BY <2>1, FS_Interval DEF Files
<1>2. Cardinality(names) \in Nat /\ Cardinality(names) <= NumFiles
    BY <1>1, FS_Subset, FS_CardinalityType
<1>3. s \in [1 .. Cardinality(names) -> names]
    BY DEF Alphasort
<1>4. s \in Seq(names) /\ Len(s) = Cardinality(names) /\ DOMAIN s = 1 .. Len(s)
    BY <1>2, <1>3
<1>5. s \in Seq(Files)
    BY <1>3, <1>4
<1>6. QED
    BY <1>2, <1>3, <1>4, <1>5, Constants DEF Alphasort

\* Entry k of the vector r is entry p[k] of s, and each is there once.
Moves(p, s, r) ==
    /\ p \in [DOMAIN s -> DOMAIN s]
    /\ \A k \in DOMAIN s : r[k] = s[p[k]]
    /\ \A k, l \in DOMAIN s : p[k] = p[l] => k = l
    /\ \A l \in DOMAIN s : \E k \in DOMAIN s : p[k] = l

\* A sorted vector has the same elements.
LEMMA SortedStreams ==
    ASSUME NEW S, NEW s \in Seq(S), NEW r \in Qsort(s)
    PROVE  /\ r \in Seq(S) /\ Len(r) = Len(s) /\ DOMAIN r = DOMAIN s
           /\ \E p : Moves(p, s, r)
<1>1. PICK p \in Bijection(DOMAIN s, DOMAIN s) : r = [k \in DOMAIN s |-> s[p[k]]]
    BY DEF Qsort
<1>2. /\ p \in [DOMAIN s -> DOMAIN s]
      /\ \A k, l \in DOMAIN s : p[k] = p[l] => k = l
      /\ \A l \in DOMAIN s : \E k \in DOMAIN s : p[k] = l
    BY DEF Bijection, Injection, Surjection, IsInjective
<1>3. DOMAIN s = 1 .. Len(s) /\ Len(s) \in Nat /\ \A k \in DOMAIN s : s[k] \in S
    OBVIOUS
<1>4. r \in [1 .. Len(s) -> S]
    BY <1>1, <1>2, <1>3
<1>5. r \in Seq(S) /\ Len(r) = Len(s)
    BY <1>3, <1>4
<1>6. Moves(p, s, r)
    BY <1>1, <1>2 DEF Moves
<1>7. QED
    BY <1>1, <1>5, <1>6

LEMMA ChopperTypes ==
    ASSUME IInv, load_videos \/ Killed
    PROVE  /\ ScanInv'
           /\ chopper' \in {"idle", "load", "header", "stream", "offsets"}
           /\ num_entries' \in 0 .. NumFiles
           /\ chopper' = "offsets" =>
                streams'[i'] \in Streams /\ j' \in 1 .. Len(streams'[i'].iframe_offset) + 1
           /\ written' \subseteq Streams
<1>1. /\ streams \in Seq(Streams \cup {NoStream}) /\ i \in Nat \ {0} /\ j \in Nat \ {0}
      /\ runs \in Nat /\ num_entries \in 0 .. NumFiles /\ written \subseteq Streams
      /\ DOMAIN streams = 1 .. Len(streams)
      /\ disk \in [Files -> Contents \cup {Missing}] /\ NumFiles \in Nat
      /\ Len(streams) \in Nat
    BY Constants DEF IInv, TypeOK, ScanInv
<1>2. CASE Scan
  <2> DEFINE found == { f \in Files : disk[f] # Missing }
  <2>1. /\ video_files' \in Alphasort(found) /\ num_entries' = Len(video_files')
        /\ streams' = <<>> /\ i' = 1 /\ j' = j /\ runs' = runs + 1 /\ chopper' = "load"
        /\ written' = written
      BY <1>2 DEF Scan
  <2> HIDE DEF found
  <2>2. found \in SUBSET Files
      BY DEF found
  <2>3. /\ video_files' \in Seq(Files) /\ Len(video_files') \in 0 .. NumFiles
        /\ \A k, l \in DOMAIN video_files' : k < l => video_files'[k] < video_files'[l]
      BY <2>1, <2>2, NamesSorted
  <2>4. <<>> \in Seq(Streams \cup {NoStream}) /\ Len(<<>>) = 0 /\ DOMAIN <<>> = {}
      OBVIOUS
  <2>5. ScanInv'
      BY <1>1, <2>1, <2>3, <2>4 DEF ScanInv
  <2>6. QED
      BY <1>1, <2>1, <2>3, <2>5
<1>3. CASE LoadStream
  <2> DEFINE new == load_stream(video_files[i])
  <2>1. /\ chopper = "load" /\ i <= num_entries /\ chopper' = "load"
        /\ streams' = Append(streams, new)
        /\ num_entries' = IF Last(streams') = NoStream THEN num_entries - 1 ELSE num_entries
        /\ i' = i + 1 /\ j' = j /\ runs' = runs /\ written' = written
        /\ video_files' = video_files
      BY <1>3 DEF LoadStream
  <2>2. /\ video_files \in Seq(Files) /\ num_entries <= Len(video_files)
        /\ \A k, l \in DOMAIN video_files : k < l => video_files[k] < video_files[l]
        /\ Len(streams) = i - 1 /\ Len(video_files) \in Nat
        /\ \A k \in DOMAIN streams :
            streams[k] # NoStream => streams[k].filename = video_files[k]
      BY <2>1 DEF IInv, ScanInv
  <2>3. video_files[i] \in Files
      BY <1>1, <2>1, <2>2
  <2>4. /\ new \in Streams \cup {NoStream}
        /\ new # NoStream => new.filename = video_files[i]
      BY <1>1, <2>3 DEF load_stream, Streams, Stream
  <2> HIDE DEF new
  <2>5. /\ streams' \in Seq(Streams \cup {NoStream}) /\ Len(streams') = i
        /\ DOMAIN streams' = 1 .. i
        /\ \A k \in 1 .. i - 1 : streams'[k] = streams[k]
        /\ streams'[i] = new
      BY <1>1, <2>1, <2>2, <2>4
  <2>6. num_entries' \in 0 .. NumFiles /\ num_entries' <= num_entries
      BY <1>1, <2>1
  <2>7. \A k \in DOMAIN streams' :
            streams'[k] # NoStream => streams'[k].filename = video_files'[k]
    <3> SUFFICES ASSUME NEW k \in 1 .. i, streams'[k] # NoStream
                 PROVE  streams'[k].filename = video_files[k]
        BY <2>1, <2>5
    <3>1. CASE k = i
        BY <2>4, <2>5, <3>1
    <3>2. CASE k # i
      <4>1. k \in 1 .. i - 1 /\ k \in DOMAIN streams
          BY <1>1, <2>2, <3>2
      <4>2. QED
          BY <2>2, <2>5, <4>1
    <3>3. QED
        BY <3>1, <3>2
  <2>8. /\ {i', j'} \subseteq Nat \ {0} /\ runs' \in Nat
        /\ num_entries' <= Len(video_files') /\ Len(streams') = i' - 1
        /\ i' - 1 <= Len(video_files')
      BY <1>1, <2>1, <2>2, <2>5, <2>6
  <2>9. ScanInv'
      BY <2>1, <2>2, <2>5, <2>7, <2>8 DEF ScanInv
  <2>10. QED
      BY <1>1, <2>1, <2>6, <2>9
<1>4. CASE Truncate
  <2> DEFINE kept == SubSeq(streams, 1, num_entries)
  <2>1. /\ chopper = "load" /\ i > num_entries /\ chopper' = "header"
        /\ streams' \in Qsort(kept)
        /\ written' = ToSet(streams') \ {NoStream}
        /\ UNCHANGED <<i, j, runs, num_entries>>
      BY <1>4 DEF Truncate
  <2>2. num_entries <= Len(streams)
      BY <1>1, <2>1 DEF IInv, ScanInv
  <2>3. kept \in Seq(Streams \cup {NoStream})
      BY <1>1, <2>2
  <2>4. streams' \in Seq(Streams \cup {NoStream})
      BY <2>1, <2>3, SortedStreams
  <2>5. written' \subseteq Streams
      BY <2>1, <2>4 DEF ToSet
  <2>6. QED
      BY <1>1, <2>1, <2>4, <2>5 DEF ScanInv
<1>5. CASE WriteHeader
    BY <1>1, <1>5 DEF WriteHeader, ScanInv
<1>6. CASE WriteName
  <2>1. /\ chopper = "stream" /\ chopper' = "offsets" /\ i <= num_entries
        /\ streams[i] # NoStream /\ j' = 1
        /\ UNCHANGED <<i, runs, num_entries, streams, written>>
      BY <1>6 DEF WriteName
  <2>2. num_entries = Len(streams)
      BY <2>1 DEF IInv, WriteInv
  <2>3. streams[i] \in Streams
      BY <1>1, <2>1, <2>2
  <2>4. Len(streams[i].iframe_offset) \in Nat
      BY <2>3, StreamFacts
  <2>5. QED
      BY <1>1, <2>1, <2>3, <2>4 DEF ScanInv
<1>7. CASE WriteOffset
  <2>1. /\ chopper = "offsets" /\ chopper' = "offsets" /\ j' = j + 1
        /\ j <= Len(streams[i].iframe_offset)
        /\ UNCHANGED <<i, runs, num_entries, streams, written>>
      BY <1>7 DEF WriteOffset
  <2>2. streams[i] \in Streams
      BY <2>1 DEF IInv, TypeOK
  <2>3. Len(streams[i].iframe_offset) \in Nat
      BY <2>2, StreamFacts
  <2>4. QED
      BY <1>1, <2>1, <2>2, <2>3 DEF ScanInv
<1>8. CASE WriteEnd
    BY <1>1, <1>8 DEF WriteEnd, ScanInv
<1>9. CASE Done \/ Segfault \/ OpenFails \/ Overflow \/ Killed
  <2>1. PICK how \in {"ended", "crashed", "stopped"} : Ends(how)
      BY <1>9, EndCases
  <2>2. /\ chopper' = "idle" /\ streams' = <<>> /\ num_entries' = 0 /\ i' = 1 /\ j' = 1
        /\ runs' = runs /\ written' = written
      BY <2>1 DEF Ends
  <2>3. QED
      BY <1>1, <2>2 DEF ScanInv
<1>10. QED
    BY <1>2, <1>3, <1>4, <1>5, <1>6, <1>7, <1>8, <1>9 DEF load_videos

\* A sequence without repetition has as many elements as its set.
LEMMA CountOnce ==
    ASSUME NEW S, NEW s \in Seq(S), \A k, l \in DOMAIN s : s[k] = s[l] => k = l
    PROVE  IsFiniteSet(ToSet(s)) /\ Cardinality(ToSet(s)) = Len(s)
<1>1. Len(s) \in Nat /\ DOMAIN s = 1 .. Len(s) /\ s \in [1 .. Len(s) -> ToSet(s)]
    BY DEF ToSet
<1>2. s \in Bijection(1 .. Len(s), ToSet(s))
    BY <1>1 DEF Bijection, Injection, Surjection, IsInjective, ToSet
<1>3. IsFiniteSet(1 .. Len(s)) /\ Cardinality(1 .. Len(s)) = Len(s)
    BY <1>1, FS_Interval, SMTT(30)
<1>4. ExistsBijection(1 .. Len(s), ToSet(s))
    BY <1>2 DEF ExistsBijection
<1>5. QED
    BY <1>3, <1>4, FS_Bijection

\* While the chopper writes, the file is a list of its streams, or torn.
LEMMA Writing ==
    ASSUME IInv, chopper \in {"header", "stream", "offsets"}
    PROVE  /\ info # Torn => Lists(info, written)
           /\ OneEach(written) /\ written \subseteq Streams
           /\ outcome = "none"
           /\ num_entries = Len(streams) /\ Len(streams) \in Nat
           /\ streams \in Seq(Streams \cup {NoStream})
           /\ i \in Nat \ {0} /\ j \in Nat \ {0}
           /\ \A k \in 1 .. Len(streams) :
                streams[k] # NoStream => streams[k] \in written /\ streams[k] \in Streams
           /\ \A k, l \in 1 .. Len(streams) :
                /\ streams[k] # NoStream /\ streams[l] # NoStream
                /\ streams[k].filename = streams[l].filename
                => k = l
<1>1. /\ info # Torn => Lists(info, written)
      /\ OneEach(written) /\ outcome = "none"
    BY DEF IInv, TextInv
<1>2. /\ streams \in Seq(Streams \cup {NoStream}) /\ i \in Nat \ {0} /\ j \in Nat \ {0}
      /\ written \subseteq Streams
    BY DEF IInv, ScanInv, TypeOK
<1>3. Len(streams) \in Nat /\ DOMAIN streams = 1 .. Len(streams)
    BY <1>2
<1>4. /\ num_entries = Len(streams) /\ written = ToSet(streams) \ {NoStream}
      /\ \A k, l \in DOMAIN streams :
            /\ streams[k] # NoStream /\ streams[l] # NoStream
            /\ streams[k].filename = streams[l].filename
            => k = l
    BY DEF IInv, WriteInv
<1>5. \A k \in 1 .. Len(streams) :
        streams[k] # NoStream => streams[k] \in written /\ streams[k] \in Streams
    BY <1>2, <1>3, <1>4 DEF ToSet
<1>6. QED
    BY <1>1, <1>2, <1>3, <1>4, <1>5

\* The write() of these tokens, or not of all of them.
LEMMA WriteCases ==
    ASSUME NEW tokens, Write(tokens)
    PROVE  info' # Torn => info # Torn /\ info' = info \o tokens
BY DEF Write

LEMMA TruncateKeepsText ==
    ASSUME IInv, Truncate
    PROVE  WriteInv' /\ TextInv'
<1> DEFINE kept == SubSeq(streams, 1, num_entries)
<1>1. /\ chopper = "load" /\ i > num_entries /\ chopper' = "header"
      /\ streams' \in Qsort(kept)
      /\ written' = ToSet(streams') \ {NoStream} /\ info' = <<>>
      /\ UNCHANGED <<num_entries, outcome>>
    BY DEF Truncate
<1>2. /\ streams \in Seq(Streams \cup {NoStream}) /\ num_entries \in Nat
      /\ num_entries <= Len(streams) /\ Len(streams) \in Nat
      /\ Len(streams) <= Len(video_files)
      /\ i \in Nat /\ video_files \in Seq(Files)
      /\ \A k, l \in DOMAIN video_files : k < l => video_files[k] < video_files[l]
      /\ \A k \in DOMAIN streams : streams[k] # NoStream => streams[k].filename = video_files[k]
    BY <1>1 DEF IInv, ScanInv, TypeOK
<1>3. /\ kept \in Seq(Streams \cup {NoStream}) /\ Len(kept) = num_entries
      /\ DOMAIN kept = 1 .. num_entries
      /\ \A k \in 1 .. num_entries : kept[k] = streams[k] /\ k \in DOMAIN streams
    BY <1>2
<1> HIDE DEF kept
<1>4. /\ streams' \in Seq(Streams \cup {NoStream}) /\ Len(streams') = num_entries
      /\ DOMAIN streams' = 1 .. num_entries
    BY <1>1, <1>3, SortedStreams
<1>5. PICK p \in [1 .. num_entries -> 1 .. num_entries] :
        /\ \A k \in 1 .. num_entries : streams'[k] = kept[p[k]]
        /\ \A k, l \in 1 .. num_entries : p[k] = p[l] => k = l
  <2>1. PICK f : Moves(f, kept, streams')
      BY <1>1, <1>3, SortedStreams
  <2>2. /\ f \in [1 .. num_entries -> 1 .. num_entries]
        /\ \A k \in 1 .. num_entries : streams'[k] = kept[f[k]]
        /\ \A k, l \in 1 .. num_entries : f[k] = f[l] => k = l
      BY <1>3, <2>1, ZenonT(40) DEF Moves
  <2>3. QED
      BY <2>2
<1>6. \A k, l \in 1 .. num_entries :
        /\ streams'[k] # NoStream /\ streams'[l] # NoStream
        /\ streams'[k].filename = streams'[l].filename
        => k = l
  <2> SUFFICES ASSUME NEW k \in 1 .. num_entries, NEW l \in 1 .. num_entries,
                      streams'[k] # NoStream, streams'[l] # NoStream,
                      streams'[k].filename = streams'[l].filename
               PROVE  k = l
      OBVIOUS
  <2>1. p[k] \in 1 .. num_entries /\ p[l] \in 1 .. num_entries
      BY <1>5
  <2>2. /\ streams'[k] = streams[p[k]] /\ p[k] \in DOMAIN streams
        /\ streams'[l] = streams[p[l]] /\ p[l] \in DOMAIN streams
      BY <1>3, <1>5, <2>1
  <2>3. video_files[p[k]] = video_files[p[l]]
      BY <1>2, <2>2
  <2>4. /\ p[k] \in Int /\ p[l] \in Int
        /\ p[k] \in DOMAIN video_files /\ p[l] \in DOMAIN video_files
        /\ video_files[p[k]] \in Int
    <3>1. DOMAIN video_files = 1 .. Len(video_files) /\ Len(video_files) \in Nat
        BY <1>2
    <3>2. 1 .. num_entries \subseteq DOMAIN video_files
        BY <1>2, <3>1
    <3>3. p[k] \in DOMAIN video_files /\ p[l] \in DOMAIN video_files
        BY <2>1, <3>2
    <3>4. video_files[p[k]] \in Files
        BY <1>2, <3>3
    <3>5. Files \subseteq Int
        BY Constants DEF Files
    <3>6. p[k] \in Int /\ p[l] \in Int
        BY <2>1
    <3>7. video_files[p[k]] \in Int
        BY <3>4, <3>5, Zenon
    <3>8. QED
        BY <3>3, <3>6, <3>7
  <2>5. p[k] = p[l]
    <3>1. ~(p[k] < p[l]) /\ ~(p[l] < p[k])
      <4>1. ~(video_files[p[k]] < video_files[p[l]]) /\ ~(video_files[p[l]] < video_files[p[k]])
          BY <2>3, <2>4
      <4>2. QED
          BY <1>2, <2>4, <4>1
    <3>2. QED
        BY <2>4, <3>1
  <2>6. QED
      BY <1>5, <2>5
<1>7. OneEach(written')
    BY <1>1, <1>4, <1>6 DEF OneEach, ToSet
<1>8. Lists(<<>>, written')
  <2>1. <<>> \in Seq(Tokens) /\ Len(<<>>) = 0 /\ DOMAIN <<>> = {}
      OBVIOUS
  <2>2. QED
      BY <2>1 DEF Lists
<1>9. outcome = "none"
    BY <1>1 DEF IInv, TextInv
<1>10. WriteInv'
    BY <1>1, <1>4, <1>6 DEF WriteInv
<1>11. QED
    BY <1>1, <1>7, <1>8, <1>9, <1>10 DEF TextInv

LEMMA WriteHeaderKeepsText ==
    ASSUME IInv, WriteHeader
    PROVE  WriteInv' /\ TextInv'
<1>1. /\ chopper = "header" /\ chopper' = "stream" /\ i' = 1
      /\ Write(<<Num(num_entries), NL>>)
      /\ UNCHANGED <<streams, num_entries, outcome, written>>
    BY DEF WriteHeader
<1>2. /\ OneEach(written) /\ outcome = "none" /\ num_entries = Len(streams)
      /\ Len(streams) \in Nat
    BY <1>1, Writing
<1>3. info = <<>>
    BY <1>1 DEF IInv, WriteInv
<1> DEFINE text == <<Num(num_entries), NL>>
<1>4. /\ Lists(text, written) /\ NotCut(text, written) /\ NamesIn(text) = {}
      /\ Len(text) = 2 /\ text[1] = Num(num_entries)
    BY <1>2, HeaderListed
<1>5. info \o text = text
    BY <1>2, <1>3, TokenFacts
<1> HIDE DEF text
<1>7. info' # Torn => info' = text
    BY <1>1, <1>3, <1>5, WriteCases DEF text
<1>8. info' # Torn => Lists(info', written') /\ NamesIn(info') = {}
    BY <1>1, <1>2, <1>4, <1>7
<1>9. info' # Torn => NotCut(info', written') /\ Len(info') >= 2 /\ info'[1] = Num(num_entries)
    BY <1>1, <1>4, <1>7
<1>10. /\ num_entries' = Len(streams') /\ written' = ToSet(streams') \ {NoStream}
       /\ \A k, l \in DOMAIN streams' :
            /\ streams'[k] # NoStream /\ streams'[l] # NoStream
            /\ streams'[k].filename = streams'[l].filename
            => k = l
    BY <1>1 DEF IInv, WriteInv
<1>11. i' <= num_entries' + 1 /\ 1 .. i' - 1 = {}
    BY <1>1, <1>2
<1>12. WriteInv'
    BY <1>1, <1>8, <1>9, <1>10, <1>11 DEF WriteInv
<1>13. QED
    BY <1>1, <1>2, <1>8, <1>12 DEF TextInv

LEMMA WriteNameKeepsText ==
    ASSUME IInv, WriteName
    PROVE  WriteInv' /\ TextInv'
<1> DEFINE s == streams[i]
           more == <<Name(s.filename), NL, Num(Len(s.iframe_offset)), NL>>
           longer == info \o more
<1>1. /\ chopper = "stream" /\ chopper' = "offsets" /\ i <= num_entries
      /\ s # NoStream /\ j' = 1 /\ Write(more)
      /\ UNCHANGED <<streams, num_entries, i, outcome, written>>
    BY DEF WriteName
<1>2. /\ info # Torn => Lists(info, written)
      /\ OneEach(written) /\ written \subseteq Streams
      /\ outcome = "none"
      /\ num_entries = Len(streams) /\ Len(streams) \in Nat
      /\ i \in Nat \ {0} /\ i \in 1 .. Len(streams) /\ DOMAIN streams = 1 .. Len(streams)
      /\ s \in written /\ s \in Streams
      /\ written = ToSet(streams) \ {NoStream}
  <2>1. /\ info # Torn => Lists(info, written)
        /\ OneEach(written) /\ written \subseteq Streams
        /\ outcome = "none"
        /\ num_entries = Len(streams) /\ Len(streams) \in Nat
        /\ i \in Nat \ {0} /\ DOMAIN streams = 1 .. Len(streams)
      BY <1>1, Writing
  <2>2. i \in 1 .. Len(streams)
      BY <1>1, <2>1
  <2>3. s \in written /\ s \in Streams
      BY <1>1, <2>2, Writing
  <2>4. written = ToSet(streams) \ {NoStream}
      BY <1>1 DEF IInv, WriteInv
  <2>5. QED
      BY <2>1, <2>2, <2>3, <2>4
<1>3. \A k, l \in DOMAIN streams :
        /\ streams[k] # NoStream /\ streams[l] # NoStream
        /\ streams[k].filename = streams[l].filename
        => k = l
    BY <1>1 DEF IInv, WriteInv
<1>4. /\ \A k \in 1 .. i - 1 : streams[k] # NoStream
      /\ info # Torn =>
        /\ NamesIn(info) \subseteq { streams[k].filename : k \in 1 .. i - 1 }
        /\ Len(info) >= 2 /\ info[1] = Num(num_entries)
        /\ NotCut(info, written)
        /\ \A k \in 1 .. i - 1 : streams[k].filename \in NamesIn(info)
    BY <1>1 DEF IInv, WriteInv
<1>5. /\ 1 .. i = (1 .. i - 1) \cup {i} /\ i \notin 1 .. i - 1
      /\ 1 .. i - 1 \subseteq DOMAIN streams
    BY <1>2
<1>6. info # Torn => s.filename \notin NamesIn(info)
  <2>1. ASSUME NEW k \in 1 .. i - 1 PROVE streams[k].filename # s.filename
    <3>1. k \in DOMAIN streams /\ i \in DOMAIN streams /\ k # i
        BY <1>2, <1>5
    <3>2. streams[k] # NoStream
        BY <1>4
    <3>3. QED
        BY <1>1, <1>3, <3>1, <3>2
  <2>2. info # Torn => NamesIn(info) \subseteq { streams[k].filename : k \in 1 .. i - 1 }
      BY <1>4
  <2>3. QED
      BY <2>1, <2>2
<1>7. \A k \in 1 .. i : streams[k] # NoStream
    BY <1>1, <1>4, <1>5
<1>8. info' # Torn => info # Torn /\ info' = longer
    BY <1>1, WriteCases
<1>9. ASSUME info # Torn
      PROVE  /\ Lists(longer, written)
             /\ NamesIn(longer) = NamesIn(info) \cup {s.filename}
             /\ Len(longer) = Len(info) + 4 /\ longer[1] = info[1]
             /\ longer[Len(info) + 1] = Name(s.filename)
             /\ longer \in Seq(Tokens) /\ Len(info) \in Nat
  <2>1. Len(info) >= 2 /\ NotCut(info, written)
      BY <1>4, <1>9
  <2> HIDE DEF s
  <2>2. /\ Lists(longer, written)
        /\ NamesIn(longer) = NamesIn(info) \cup {s.filename}
        /\ Len(longer) = Len(info) + 4 /\ longer[1] = info[1]
        /\ longer[Len(info) + 1] = Name(s.filename)
      BY <1>2, <1>6, <1>9, <2>1, NameAdded
  <2>3. longer \in Seq(Tokens) /\ Len(info) \in Nat
      BY <1>2, <1>9, <2>2 DEF Lists
  <2>4. QED
      BY <2>2, <2>3
<1>10. info' # Torn => Lists(info', written')
    BY <1>1, <1>8, <1>9
<1>11. info' # Torn => NamesIn(info') \subseteq { streams[k].filename : k \in 1 .. i }
  <2>1. info # Torn =>
            NamesIn(info) \cup {s.filename} \subseteq { streams[k].filename : k \in 1 .. i }
      BY <1>4, <1>5
  <2>2. info' # Torn => info # Torn /\ NamesIn(info') = NamesIn(info) \cup {s.filename}
      BY <1>8, <1>9
  <2>3. QED
      BY <2>1, <2>2
<1>12. ASSUME info' # Torn
       PROVE  /\ Len(info') >= 2 /\ info'[1] = Num(num_entries)
              /\ \E q \in DOMAIN info' :
                    info'[q] = Name(s.filename) /\ Len(info') = q + 2 + j'
              /\ \A k \in 1 .. i : streams[k].filename \in NamesIn(info')
  <2>1. info # Torn /\ info' = longer
      BY <1>8, <1>12
  <2>2. Len(longer) >= 2 /\ longer[1] = Num(num_entries)
      BY <1>4, <1>9, <2>1
  <2>3. /\ Len(info) + 1 \in DOMAIN longer /\ longer[Len(info) + 1] = Name(s.filename)
        /\ Len(longer) = (Len(info) + 1) + 2 + 1
      BY <1>9, <2>1
  <2>4. \A k \in 1 .. i : streams[k].filename \in NamesIn(longer)
      BY <1>4, <1>5, <1>9, <2>1
  <2>5. QED
      BY <1>1, <2>1, <2>2, <2>3, <2>4
<1> HIDE DEF longer, more
<1>13. WriteInv'
    BY <1>1, <1>2, <1>3, <1>7, <1>11, <1>12 DEF WriteInv
<1>14. QED
    BY <1>1, <1>2, <1>10, <1>13 DEF TextInv

\* The tokens written for the offsets of the current stream.
LEMMA OffsetsWritten ==
    ASSUME IInv, chopper = "offsets"
    PROVE  /\ streams[i] \in written /\ streams[i] \in Streams
           /\ i \in 1 .. Len(streams) /\ num_entries = Len(streams)
           /\ \A k \in 1 .. i : streams[k] # NoStream
           /\ j \in 1 .. Len(streams[i].iframe_offset) + 1
           /\ Len(streams[i].iframe_offset) \in Nat
           /\ info # Torn =>
                /\ NamesIn(info) \subseteq { streams[k].filename : k \in 1 .. i }
                /\ Len(info) >= 2 /\ info[1] = Num(num_entries)
                /\ \E q \in DOMAIN info :
                    info[q] = Name(streams[i].filename) /\ Len(info) = q + 2 + j
                /\ \A k \in 1 .. i : streams[k].filename \in NamesIn(info)
<1>1. /\ i <= num_entries
      /\ \A k \in 1 .. i : streams[k] # NoStream
      /\ info # Torn =>
            /\ NamesIn(info) \subseteq { streams[k].filename : k \in 1 .. i }
            /\ Len(info) >= 2 /\ info[1] = Num(num_entries)
            /\ \E q \in DOMAIN info :
                info[q] = Name(streams[i].filename) /\ Len(info) = q + 2 + j
            /\ \A k \in 1 .. i : streams[k].filename \in NamesIn(info)
    BY DEF IInv, WriteInv
<1>2. i \in 1 .. Len(streams) /\ i \in 1 .. i /\ num_entries = Len(streams)
    BY <1>1, Writing
<1>3. streams[i] \in written
    BY <1>1, <1>2, Writing
<1>4. streams[i] \in Streams /\ j \in 1 .. Len(streams[i].iframe_offset) + 1
    BY DEF IInv, TypeOK
<1>5. Len(streams[i].iframe_offset) \in Nat
    BY <1>4, StreamFacts
<1>6. QED
    BY <1>1, <1>2, <1>3, <1>4, <1>5

\* A token after the last: where it is, and that names stay.
LEMMA NextToken ==
    ASSUME IInv, chopper = "offsets", info # Torn, NEW tok \in Tokens, tok.kind # "name",
           j <= Len(streams[i].iframe_offset) => tok = Num(streams[i].iframe_offset[j]),
           j > Len(streams[i].iframe_offset) => tok = NL
    PROVE  LET longer == info \o <<tok>>
           IN  /\ Lists(longer, written)
               /\ NamesIn(longer) = NamesIn(info)
               /\ Len(longer) >= 2 /\ longer[1] = info[1]
               /\ \E q \in DOMAIN longer :
                    longer[q] = Name(streams[i].filename) /\ Len(longer) = q + 2 + (j + 1)
               /\ j > Len(streams[i].iframe_offset) => NotCut(longer, written)
<1> DEFINE s == streams[i]
           longer == info \o <<tok>>
           m == Len(s.iframe_offset)
<1>1. /\ s \in written /\ s \in Streams /\ m \in Nat /\ j \in 1 .. m + 1
      /\ Lists(info, written) /\ OneEach(written) /\ written \subseteq Streams
      /\ Len(info) >= 2
    BY OffsetsWritten, Writing
<1>2. PICK q \in DOMAIN info : info[q] = Name(s.filename) /\ Len(info) = q + 2 + j
    BY OffsetsWritten
<1>3. info \in Seq(Tokens) /\ q \in 1 .. Len(info) /\ Len(info) \in Nat /\ 1 \in DOMAIN info
  <2>1. info \in Seq(Tokens)
      BY <1>1 DEF Lists
  <2>2. QED
      BY <1>1, <2>1
<1>33. m = Len(s.iframe_offset) /\ j <= m => tok = Num(s.iframe_offset[j])
    OBVIOUS
<1>34. j > m => tok = NL
    OBVIOUS
<1>35. m = Len(streams[i].iframe_offset) /\ s = streams[i]
    OBVIOUS
<1> HIDE DEF s, m
<1>4. Follows(info, q, s, tok)
  <2>1. Len(info) \in q + 3 .. q + 3 + m
      BY <1>1, <1>2, <1>3
  <2>2. Len(info) - q - 2 = j /\ (Len(info) < q + 3 + m => j <= m)
        /\ (Len(info) = q + 3 + m => j > m)
      BY <1>1, <1>2, <1>3, SMTT(30)
  <2>3. m = Len(s.iframe_offset)
      BY <1>35
  <2>4. QED
      BY <1>33, <1>34, <2>1, <2>2, <2>3 DEF Follows
<1> HIDE DEF longer
<1>5. /\ Lists(longer, written)
      /\ NamesIn(longer) = NamesIn(info)
      /\ Len(longer) = Len(info) + 1
      /\ \A p \in DOMAIN info : p \in DOMAIN longer /\ longer[p] = info[p]
      /\ Len(longer) = q + 4 + Len(s.iframe_offset) => NotCut(longer, written)
    BY <1>1, <1>2, <1>4, TokenAdded DEF longer
<1>6. Len(longer) >= 2 /\ longer[1] = info[1]
    BY <1>1, <1>3, <1>5
<1>7. q \in DOMAIN longer /\ longer[q] = Name(s.filename) /\ Len(longer) = q + 2 + (j + 1)
    BY <1>1, <1>2, <1>3, <1>5
<1>8. j > m => NotCut(longer, written)
  <2>1. j > m => Len(longer) = q + 4 + m
    <3>1. j > m => j = m + 1
        BY <1>1
    <3>2. QED
        BY <1>1, <1>3, <1>7, <3>1
  <2>2. QED
      BY <1>35, <1>5, <2>1
<1>9. QED
    BY <1>35, <1>5, <1>6, <1>7, <1>8 DEF longer

LEMMA WriteOffsetKeepsText ==
    ASSUME IInv, WriteOffset
    PROVE  WriteInv' /\ TextInv'
<1> DEFINE s == streams[i]
           tok == Num(s.iframe_offset[j])
<1>1. /\ chopper = "offsets" /\ j <= Len(s.iframe_offset) /\ chopper' = chopper
      /\ j' = j + 1 /\ Write(<<tok>>)
      /\ UNCHANGED <<streams, num_entries, i, outcome, written>>
    BY DEF WriteOffset
<1>2. /\ s \in Streams /\ num_entries = Len(streams) /\ i \in 1 .. Len(streams)
      /\ \A k \in 1 .. i : streams[k] # NoStream
      /\ j \in 1 .. Len(s.iframe_offset) + 1 /\ Len(s.iframe_offset) \in Nat
      /\ info # Torn =>
        /\ NamesIn(info) \subseteq { streams[k].filename : k \in 1 .. i }
        /\ info[1] = Num(num_entries)
        /\ \A k \in 1 .. i : streams[k].filename \in NamesIn(info)
    BY <1>1, OffsetsWritten
<1>3. j \in DOMAIN s.iframe_offset
    BY <1>1, <1>2, StreamFacts
<1>4. tok \in Tokens /\ tok.kind # "name"
    BY <1>2, <1>3, StreamFacts, TokenFacts
<1>5. ~(j > Len(s.iframe_offset))
    BY <1>1, <1>2
<1>6. OneEach(written) /\ outcome = "none"
    BY <1>1, Writing
<1>7. info' # Torn => info # Torn /\ info' = info \o <<tok>>
    BY <1>1, WriteCases
<1>8. j <= Len(streams[i].iframe_offset) => tok = Num(streams[i].iframe_offset[j])
    OBVIOUS
<1>9. ~(j > Len(streams[i].iframe_offset))
    BY <1>5
<1> HIDE DEF tok
<1>10. ASSUME info # Torn
       PROVE  LET longer == info \o <<tok>>
              IN  /\ Lists(longer, written)
                  /\ NamesIn(longer) = NamesIn(info)
                  /\ Len(longer) >= 2 /\ longer[1] = info[1]
                  /\ \E q \in DOMAIN longer :
                        longer[q] = Name(streams[i].filename) /\ Len(longer) = q + 2 + (j + 1)
    BY <1>1, <1>4, <1>8, <1>9, <1>10, NextToken
<1>11. info' # Torn => Lists(info', written') /\ NamesIn(info') = NamesIn(info)
    BY <1>1, <1>7, <1>10
<1>12. ASSUME info' # Torn
       PROVE  /\ NamesIn(info') \subseteq { streams[k].filename : k \in 1 .. i }
              /\ Len(info') >= 2 /\ info'[1] = Num(num_entries)
              /\ \E q \in DOMAIN info' :
                    info'[q] = Name(streams[i].filename) /\ Len(info') = q + 2 + j'
              /\ \A k \in 1 .. i : streams[k].filename \in NamesIn(info')
  <2>1. info # Torn /\ info' = info \o <<tok>>
      BY <1>7, <1>12
  <2>2. QED
      BY <1>1, <1>2, <1>10, <2>1
<1>13. /\ written = ToSet(streams) \ {NoStream}
       /\ \A k, l \in DOMAIN streams :
            /\ streams[k] # NoStream /\ streams[l] # NoStream
            /\ streams[k].filename = streams[l].filename
            => k = l
    BY <1>1 DEF IInv, WriteInv
<1>14. i <= num_entries /\ num_entries = Len(streams)
       /\ \A k \in 1 .. i : streams[k] # NoStream
    BY <1>2
<1> HIDE DEF s
<1>15. WriteInv'
    BY <1>1, <1>12, <1>13, <1>14 DEF WriteInv
<1>16. QED
    BY <1>1, <1>6, <1>11, <1>15 DEF TextInv

LEMMA WriteEndKeepsText ==
    ASSUME IInv, WriteEnd
    PROVE  WriteInv' /\ TextInv'
<1>1. /\ chopper = "offsets" /\ j > Len(streams[i].iframe_offset) /\ chopper' = "stream"
      /\ i' = i + 1 /\ Write(<<NL>>)
      /\ UNCHANGED <<streams, num_entries, outcome, written>>
    BY DEF WriteEnd
<1>2. /\ num_entries = Len(streams) /\ i \in 1 .. Len(streams)
      /\ \A k \in 1 .. i : streams[k] # NoStream
      /\ j \in Nat /\ Len(streams[i].iframe_offset) \in Nat
      /\ info # Torn =>
        /\ NamesIn(info) \subseteq { streams[k].filename : k \in 1 .. i }
        /\ info[1] = Num(num_entries)
        /\ \A k \in 1 .. i : streams[k].filename \in NamesIn(info)
    BY <1>1, OffsetsWritten, Writing
<1>3. NL \in Tokens /\ NL.kind # "name" /\ ~(j <= Len(streams[i].iframe_offset))
    BY <1>1, <1>2, TokenFacts
<1>4. OneEach(written) /\ outcome = "none" /\ Len(streams) \in Nat
    BY <1>1, Writing
<1>5. info' # Torn => info # Torn /\ info' = info \o <<NL>>
    BY <1>1, WriteCases
<1>6. ASSUME info # Torn
      PROVE  LET longer == info \o <<NL>>
             IN  /\ Lists(longer, written)
                 /\ NamesIn(longer) = NamesIn(info)
                 /\ Len(longer) >= 2 /\ longer[1] = info[1]
                 /\ NotCut(longer, written)
    BY <1>1, <1>3, <1>6, NextToken
<1>7. info' # Torn => Lists(info', written') /\ NamesIn(info') = NamesIn(info)
    BY <1>1, <1>5, <1>6
<1>8. i' - 1 = i /\ i' <= num_entries + 1
    BY <1>1, <1>2
<1>9. ASSUME info' # Torn
      PROVE  /\ Len(info') >= 2 /\ info'[1] = Num(num_entries)
             /\ NotCut(info', written)
             /\ \A k \in 1 .. i : streams[k].filename \in NamesIn(info')
  <2>1. info # Torn /\ info' = info \o <<NL>>
      BY <1>5, <1>9
  <2>2. QED
      BY <1>2, <1>6, <2>1
<1>10. /\ written = ToSet(streams) \ {NoStream}
       /\ \A k, l \in DOMAIN streams :
            /\ streams[k] # NoStream /\ streams[l] # NoStream
            /\ streams[k].filename = streams[l].filename
            => k = l
    BY <1>1 DEF IInv, WriteInv
<1>11. WriteInv'
    BY <1>1, <1>2, <1>5, <1>7, <1>8, <1>9, <1>10 DEF WriteInv
<1>12. QED
    BY <1>1, <1>4, <1>7, <1>11 DEF TextInv

\* The list is whole when the chopper comes to its end.
LEMMA DoneIsWhole ==
    ASSUME IInv, Done, info # Torn
    PROVE  Whole(info, written)
<1>1. chopper = "stream" /\ i > num_entries
    BY DEF Done
<1>2. /\ num_entries = Len(streams) /\ Len(streams) \in Nat /\ i \in Nat \ {0}
      /\ streams \in Seq(Streams \cup {NoStream}) /\ DOMAIN streams = 1 .. Len(streams)
    BY <1>1, Writing
<1>3. /\ written = ToSet(streams) \ {NoStream} /\ i <= num_entries + 1
      /\ \A k \in 1 .. i - 1 : streams[k] # NoStream
      /\ Len(info) >= 2 /\ info[1] = Num(num_entries)
      /\ NotCut(info, written)
      /\ \A k \in 1 .. i - 1 : streams[k].filename \in NamesIn(info)
    BY <1>1 DEF IInv, WriteInv
<1>4. i - 1 = Len(streams)
    BY <1>1, <1>2, <1>3
<1>5. /\ \A k \in DOMAIN streams : streams[k] # NoStream
      /\ \A k \in DOMAIN streams : streams[k].filename \in NamesIn(info)
    BY <1>2, <1>3, <1>4
<1>6. written = ToSet(streams)
    BY <1>3, <1>5 DEF ToSet
<1>7. \A k, l \in DOMAIN streams : streams[k] = streams[l] => k = l
    BY <1>1, <1>2, <1>5, Writing
<1>8. IsFiniteSet(written) /\ Cardinality(written) = num_entries
    BY <1>2, <1>6, <1>7, CountOnce
<1>9. \A s \in written : s.filename \in NamesIn(info)
    BY <1>5, <1>6 DEF ToSet
<1>10. QED
    BY <1>3, <1>8, <1>9 DEF Whole

LEMMA ChopperKeepsText ==
    ASSUME IInv, load_videos \/ Killed
    PROVE  WriteInv' /\ TextInv'
<1>1. CASE Scan \/ LoadStream
  <2>1. /\ chopper \in {"idle", "load"} /\ chopper' = "load"
        /\ UNCHANGED <<info, written, loader>>
        /\ outcome' = "none"
    <3>1. CASE Scan
        BY <3>1 DEF Scan, loaders, outside, infos
    <3>2. CASE LoadStream
        BY <3>2 DEF LoadStream, loaders, outside, infos, IInv, TextInv
    <3>3. QED
        BY <1>1, <3>1, <3>2
  <2>2. WriteInv'
      BY <2>1 DEF WriteInv
  <2>3. /\ OneEach(written')
        /\ (info = Missing /\ loader = "idle") \/ info = Torn \/ Lists(info, written)
      BY <2>1 DEF IInv, TextInv
  <2>4. QED
      BY <2>1, <2>2, <2>3 DEF TextInv
<1>2. CASE Truncate
    BY <1>2, TruncateKeepsText
<1>3. CASE WriteHeader
    BY <1>3, WriteHeaderKeepsText
<1>4. CASE WriteName
    BY <1>4, WriteNameKeepsText
<1>5. CASE WriteOffset
    BY <1>5, WriteOffsetKeepsText
<1>6. CASE WriteEnd
    BY <1>6, WriteEndKeepsText
<1>7. CASE Done \/ Segfault \/ OpenFails \/ Overflow \/ Killed
  <2>1. PICK how \in {"ended", "crashed", "stopped"} :
            /\ Ends(how) /\ chopper # "idle"
            /\ info' = info \/ info' = Torn
            /\ how = "ended" => Done \/ info' = Torn
      BY <1>7, EndCases
  <2>2. /\ chopper' = "idle" /\ outcome' = how
        /\ UNCHANGED <<written, loader>>
      BY <2>1 DEF Ends, loaders
  <2>3. WriteInv'
      BY <2>2 DEF WriteInv
  <2>4. /\ OneEach(written')
        /\ (info = Missing /\ loader = "idle") \/ info = Torn \/ Lists(info, written)
      BY <2>2 DEF IInv, TextInv
  <2>5. outcome' = "ended" /\ info' # Torn => Whole(info', written')
      BY <2>1, <2>2, DoneIsWhole
  <2>6. QED
      BY <2>1, <2>2, <2>3, <2>4, <2>5 DEF TextInv
<1>8. QED
    BY <1>1, <1>2, <1>3, <1>4, <1>5, <1>6, <1>7 DEF load_videos

LEMMA OthersKeepText ==
    ASSUME IInv, load_video \/ Again \/ ChangeFile \/ UNCHANGED vars
    PROVE  WriteInv' /\ TextInv' /\ ScanInv'
<1>1. /\ UNCHANGED <<info, chopper, video_files, streams, num_entries, i, j, runs>>
      /\ UNCHANGED <<outcome, written>>
    BY OtherFrame
<1>2. info = Missing /\ loader = "idle" => loader' = "idle"
    BY DEF load_video, Again, ChangeFile, vars, CheckSize, ReadInfo, ReadEmpty, MissingFile,
           ReadStream, AddStream, NoIframes, TornStream, TornEnds, EndLoad, loaders
<1>3. WriteInv'
    BY <1>1 DEF IInv, WriteInv
<1>4. ScanInv'
    BY <1>1 DEF IInv, ScanInv
<1>5. TextInv'
  <2>1. /\ chopper # "idle" => outcome = "none"
        /\ OneEach(written)
        /\ \/ info = Missing /\ chopper \in {"idle", "load"} /\ loader = "idle"
           \/ info = Torn
           \/ Lists(info, written)
        /\ outcome = "ended" /\ info # Torn => Whole(info, written)
      BY DEF IInv, TextInv
  <2>2. QED
      BY <1>1, <1>2, <2>1 DEF TextInv
<1>6. QED
    BY <1>3, <1>4, <1>5

\* No write() empties the file, and a list is not a file that is missing.
LEMMA ListIsThere ==
    ASSUME NEW text, NEW set, Lists(text, set)
    PROVE  text # Missing
BY Constants DEF Lists

LEMMA LongerText ==
    ASSUME NEW text \in Seq(Tokens), NEW a, NEW b, NEW c, NEW d
    PROVE  text \o <<a>> # <<>> /\ text \o <<a, b>> # <<>> /\ text \o <<a, b, c, d>> # <<>>
<1>1. Len(text \o <<a>>) >= 1
    OBVIOUS
<1>2. Len(text \o <<a, b>>) >= 1
    OBVIOUS
<1>3. Len(text \o <<a, b, c, d>>) >= 1
    OBVIOUS
<1>4. Len(<<>>) = 0
    OBVIOUS
<1>5. QED
    BY <1>1, <1>2, <1>3, <1>4

LEMMA ChopperKeepsEmpty ==
    ASSUME IInv, load_videos \/ Killed
    PROVE  EmptyInv'
<1>1. /\ loader' = loader /\ file_data' = file_data
    BY ChopperFrame
<1>2. /\ runs = 0 => chopper = "idle" /\ info = Missing
      /\ runs = 1 /\ chopper = "load" => info = Missing
      /\ loader = "idle" => file_data = <<>>
      /\ loader = "read" => file_data = <<>> /\ info # Missing
      /\ loader = "read" /\ info = <<>> => runs > 1
      /\ runs \in Nat
    BY DEF IInv, EmptyInv, ScanInv
<1>3. CASE Scan
  <2>1. runs' = runs + 1 /\ info' = info /\ chopper' = "load" /\ chopper = "idle"
      BY <1>3 DEF Scan, infos
  <2>2. QED
      BY <1>1, <1>2, <2>1 DEF EmptyInv
<1>4. CASE LoadStream
  <2>1. runs' = runs /\ info' = info /\ chopper' = "load" /\ chopper = "load"
      BY <1>4 DEF LoadStream, infos
  <2>2. QED
      BY <1>1, <1>2, <2>1 DEF EmptyInv
<1>5. CASE Truncate
  <2>1. runs' = runs /\ info' = <<>> /\ chopper' = "header" /\ chopper = "load"
      BY <1>5 DEF Truncate
  <2>2. loader = "read" => runs > 1
      BY <1>2, <2>1
  <2>3. <<>> # Missing
    <3>1. <<>> \in Seq(Tokens)
        OBVIOUS
    <3>2. QED
        BY <3>1, Constants
  <2>4. QED
      BY <1>1, <1>2, <2>1, <2>2, <2>3 DEF EmptyInv
<1>6. CASE WriteHeader \/ WriteName \/ WriteOffset \/ WriteEnd
  <2>1. /\ chopper \in {"header", "stream", "offsets"} /\ chopper' \in {"stream", "offsets"}
        /\ runs' = runs
        /\ \E tokens : Write(tokens) /\ \A text \in Seq(Tokens) : text \o tokens # <<>>
    <3>1. CASE WriteHeader
        BY <3>1, LongerText DEF WriteHeader
    <3>2. CASE WriteName
      <4> DEFINE tokens == <<Name(streams[i].filename), NL,
                             Num(Len(streams[i].iframe_offset)), NL>>
      <4>1. Write(tokens) /\ chopper = "stream" /\ chopper' = "offsets" /\ runs' = runs
          BY <3>2 DEF WriteName
      <4>2. \A text \in Seq(Tokens) : text \o tokens # <<>>
          BY LongerText
      <4> HIDE DEF tokens
      <4>3. QED
          BY <4>1, <4>2
    <3>3. CASE WriteOffset
        BY <3>3, LongerText DEF WriteOffset
    <3>4. CASE WriteEnd
        BY <3>4, LongerText DEF WriteEnd
    <3>5. QED
        BY <1>6, <3>1, <3>2, <3>3, <3>4
  <2>2. (info # Torn => Lists(info, written)) /\ runs # 0
      BY <1>2, <2>1, Writing
  <2>3. info' # Missing
      BY <2>1, ChopperKeepsText, ListIsThere, Constants DEF TextInv
  <2>4. info' # <<>>
    <3>1. info # Torn => info \in Seq(Tokens)
        BY <2>2 DEF Lists
    <3>2. Torn # <<>>
      <4>1. <<>> \in Seq(Tokens)
          OBVIOUS
      <4>2. QED
          BY <4>1, Constants
    <3>3. QED
        BY <2>1, <3>1, <3>2, WriteCases
  <2>5. QED
      BY <1>1, <1>2, <2>1, <2>2, <2>3, <2>4 DEF EmptyInv
<1>7. CASE Done \/ Segfault \/ OpenFails \/ Overflow \/ Killed
  <2>1. PICK how : Ends(how) /\ chopper # "idle" /\ (info' = info \/ info' = Torn)
      BY <1>7, EndCases
  <2>2. /\ chopper' = "idle" /\ runs' = runs /\ runs # 0
      BY <1>2, <2>1 DEF Ends
  <2>3. Torn # Missing /\ Torn # <<>>
    <3>1. <<>> \in Seq(Tokens)
        OBVIOUS
    <3>2. QED
        BY <3>1, Constants
  <2>4. QED
      BY <1>1, <1>2, <2>1, <2>2, <2>3 DEF EmptyInv
<1>8. QED
    BY <1>3, <1>4, <1>5, <1>6, <1>7 DEF load_videos

LEMMA OthersKeepEmpty ==
    ASSUME IInv, load_video \/ Again \/ ChangeFile \/ UNCHANGED vars
    PROVE  EmptyInv'
<1>1. UNCHANGED <<info, chopper, runs>>
    BY OtherFrame
<1>2. /\ runs = 0 => chopper = "idle" /\ info = Missing
      /\ runs = 1 /\ chopper = "load" => info = Missing
      /\ loader = "idle" => file_data = <<>>
      /\ loader = "read" => file_data = <<>> /\ info # Missing
      /\ loader = "read" /\ info = <<>> => runs > 1
    BY DEF IInv, EmptyInv
<1>3. /\ loader' = "idle" => file_data' = <<>>
      /\ loader' = "read" => file_data' = <<>> /\ info # Missing
      /\ loader' = "read" /\ info = <<>> => runs > 1
  <2>1. CASE CheckSize \/ Again
      BY <1>2, <2>1 DEF CheckSize, Again
  <2>2. CASE ReadInfo \/ ReadEmpty \/ NoIframes \/ EndLoad \/ ReadStream \/ TornEnds
      BY <2>2 DEF ReadInfo, ReadEmpty, NoIframes, EndLoad, ReadStream, TornEnds
  <2>3. CASE MissingFile \/ AddStream \/ TornStream
      BY <2>3 DEF MissingFile, AddStream, TornStream
  <2>4. CASE ChangeFile
      BY <1>2, <2>4 DEF ChangeFile
  <2>5. CASE UNCHANGED vars
      BY <1>2, <2>5 DEF vars, loaders
  <2>6. QED
      BY <2>1, <2>2, <2>3, <2>4, <2>5 DEF load_video
<1>4. QED
    BY <1>1, <1>2, <1>3 DEF EmptyInv

\* A vector that is sorted has no other elements.
LEMMA SortedSubset ==
    ASSUME NEW S, NEW s \in Seq(S), NEW n \in Nat, n <= Len(s), NEW r \in Qsort(SubSeq(s, 1, n))
    PROVE  ToSet(r) \subseteq ToSet(s)
<1> DEFINE kept == SubSeq(s, 1, n)
<1>1. /\ kept \in Seq(ToSet(s))
  <2>1. kept \in Seq(S) /\ Len(kept) = n /\ DOMAIN kept = 1 .. n
      OBVIOUS
  <2>2. \A k \in 1 .. n : kept[k] = s[k] /\ k \in DOMAIN s
      OBVIOUS
  <2>3. \A k \in 1 .. n : kept[k] \in ToSet(s)
      BY <2>2 DEF ToSet
  <2> HIDE DEF kept
  <2>4. QED
      BY <2>1, <2>3
<1> HIDE DEF kept
<1>2. r \in Seq(ToSet(s))
    BY <1>1, SortedStreams DEF kept
<1>3. QED
    BY <1>2 DEF ToSet

LEMMA KeepsStill ==
    ASSUME IInv, Next \/ UNCHANGED vars
    PROVE  StillInv'
<1> DEFINE Fits(s) == disk[s.filename] # Missing /\ disk[s.filename].iframe_offset = s.iframe_offset
           known == written \cup origin.streams \cup (ToSet(streams) \ {NoStream})
<1>1. CASE ChangeFile
  <2>1. changed' # {}
      BY <1>1 DEF ChangeFile
  <2>2. QED
      BY <2>1 DEF StillInv
<1>2. ASSUME ~ChangeFile PROVE UNCHANGED <<disk, changed>>
  <2>1. CASE load_videos \/ Killed
      BY <2>1, ChopperFrame
  <2>2. CASE load_video \/ Again \/ UNCHANGED vars
      BY <2>2 DEF load_video, Again, vars, CheckSize, ReadInfo, ReadEmpty, MissingFile,
                  ReadStream, AddStream, NoIframes, TornStream, TornEnds, EndLoad, outside
  <2>3. QED
      BY <1>2, <2>1, <2>2 DEF Next
<1>3. ASSUME changed = {} PROVE \A s \in known : Fits(s)
    BY <1>3 DEF IInv, StillInv
<1>4. ASSUME NEW new, new # NoStream => Fits(new), ~ChangeFile,
             (written' \cup origin'.streams \cup (ToSet(streams') \ {NoStream}))
                \subseteq known \cup ({new} \ {NoStream})
      PROVE  StillInv'
  <2>1. changed' = {} => \A s \in known \cup ({new} \ {NoStream}) : Fits(s)
      BY <1>2, <1>3, <1>4
  <2>2. QED
      BY <1>2, <1>4, <2>1 DEF StillInv
<1>5. ASSUME ~ChangeFile,
             (written' \cup origin'.streams \cup (ToSet(streams') \ {NoStream})) \subseteq known
      PROVE  StillInv'
    BY <1>4, <1>5
<1>6. streams \in Seq(Streams \cup {NoStream}) /\ num_entries \in Nat
    BY DEF IInv, ScanInv, TypeOK
<1>7. ToSet(<<>>) = {}
    BY DEF ToSet
<1>8. CASE LoadStream /\ ~ChangeFile
  <2>1. /\ streams' = Append(streams, load_stream(video_files[i]))
        /\ written' = written /\ origin' = origin
      BY <1>8 DEF LoadStream, loaders
  <2>2. /\ chopper = "load" /\ i <= num_entries
      BY <1>8 DEF LoadStream
  <2>3. video_files[i] \in Files
    <3>1. /\ video_files \in Seq(Files) /\ num_entries <= Len(video_files) /\ i \in Nat \ {0}
        BY <2>2 DEF IInv, ScanInv
    <3>2. QED
        BY <1>6, <2>2, <3>1
  <2>4. load_stream(video_files[i]) # NoStream => Fits(load_stream(video_files[i]))
      BY DEF load_stream, Stream
  <2>5. ToSet(streams') = ToSet(streams) \cup {load_stream(video_files[i])}
    <3>1. /\ DOMAIN streams' = DOMAIN streams \cup {Len(streams) + 1}
          /\ \A k \in DOMAIN streams : streams'[k] = streams[k]
          /\ streams'[Len(streams) + 1] = load_stream(video_files[i])
        BY <1>6, <2>1
    <3>2. QED
        BY <3>1 DEF ToSet
  <2> HIDE DEF Fits
  <2>6. (written' \cup origin'.streams \cup (ToSet(streams') \ {NoStream}))
            \subseteq known \cup ({load_stream(video_files[i])} \ {NoStream})
      BY <2>1, <2>5
  <2>7. QED
      BY <1>4, <1>8, <2>4, <2>6
<1>9. CASE Truncate /\ ~ChangeFile
  <2>1. /\ streams' \in Qsort(SubSeq(streams, 1, num_entries))
        /\ written' = ToSet(streams') \ {NoStream} /\ origin' = origin
        /\ chopper = "load" /\ i > num_entries
      BY <1>9 DEF Truncate, loaders
  <2>2. num_entries <= Len(streams)
    <3>1. Len(streams) = i - 1 /\ i \in Nat
        BY <2>1 DEF IInv, ScanInv
    <3>2. QED
        BY <1>6, <2>1, <3>1
  <2>3. ToSet(streams') \subseteq ToSet(streams)
      BY <1>6, <2>1, <2>2, SortedSubset
  <2>4. QED
      BY <1>5, <1>9, <2>1, <2>3
<1>10. CASE (Scan \/ Done \/ Segfault \/ OpenFails \/ Overflow \/ Killed) /\ ~ChangeFile
  <2>1. streams' = <<>> /\ written' = written /\ origin' = origin
      BY <1>10, EndCases DEF Scan, Ends, loaders
  <2>2. QED
      BY <1>5, <1>7, <1>10, <2>1
<1>11. CASE (WriteHeader \/ WriteName \/ WriteOffset \/ WriteEnd) /\ ~ChangeFile
  <2>1. streams' = streams /\ written' = written /\ origin' = origin
      BY <1>11 DEF WriteHeader, WriteName, WriteOffset, WriteEnd, loaders
  <2>2. QED
      BY <1>5, <1>11, <2>1
<1>12. CASE (load_video \/ Again \/ UNCHANGED vars) /\ ~ChangeFile
  <2>1. streams' = streams /\ written' = written
      BY <1>12, OtherFrame
  <2>2. origin'.streams \subseteq written \cup origin.streams
    <3>1. CASE ReadInfo
        BY <3>1 DEF ReadInfo
    <3>2. CASE Again
        BY <3>2 DEF Again, NoOrigin
    <3>3. CASE UNCHANGED vars
        BY <3>3 DEF vars, loaders
    <3>4. CASE load_video /\ ~ReadInfo
        BY <3>4 DEF load_video, CheckSize, ReadEmpty, MissingFile, ReadStream, AddStream,
                    NoIframes, TornStream, TornEnds, EndLoad
    <3>5. QED
        BY <1>12, <3>1, <3>2, <3>3, <3>4
  <2>3. QED
      BY <1>5, <1>12, <2>1, <2>2
<1>13. QED
    BY <1>1, <1>8, <1>9, <1>10, <1>11, <1>12 DEF Next, load_videos

-----------------------------------------------------------------------------
(* The server.                                                             *)

\* What is known between two streams of the copy, whatever it is.
LEMMA LoadingAny ==
    ASSUME IInv, loader \in {"loop", "data", "loaded"}
    PROVE  /\ loaded \in Seq(LoadedStreams) /\ Len(loaded) <= stream_num
           /\ Len(loaded) \in Nat /\ DOMAIN loaded = 1 .. Len(loaded)
           /\ stream_num \in Nat
           /\ origin.streams \subseteq Streams
           /\ loader = "loaded" => Len(loaded) = stream_num
           /\ file_data = Torn =>
                loader # "data" /\ (origin.torn \/ ~Countable(origin.streams))
           /\ file_data # Torn => ~origin.torn /\ ListLoaded
           /\ origin.torn => ~origin.complete
<1>1. /\ loaded \in Seq(LoadedStreams) /\ Len(loaded) <= stream_num
      /\ loader = "loaded" => Len(loaded) = stream_num
      /\ file_data = Torn =>
            loader # "data" /\ (origin.torn \/ ~Countable(origin.streams))
      /\ file_data # Torn => ~origin.torn /\ ListLoaded
      /\ origin.torn => ~origin.complete
    BY DEF IInv, LoadInv, ListLoaded
<1>2. Len(loaded) \in Nat /\ DOMAIN loaded = 1 .. Len(loaded)
    BY <1>1
<1>3. origin.streams \subseteq Streams /\ stream_num \in Nat
    BY DEF IInv, TypeOK
<1>4. QED
    BY <1>1, <1>2, <1>3

\* What is known of a copy that lists streams.
LEMMA Loading ==
    ASSUME IInv, loader \in {"loop", "data", "loaded"}, file_data # Torn
    PROVE  /\ Lists(file_data, origin.streams) /\ OneEach(origin.streams)
           /\ origin.streams \subseteq Streams
           /\ origin.complete => Whole(file_data, origin.streams)
           /\ file_data \in Seq(Tokens) /\ Len(file_data) \in Nat
           /\ DOMAIN file_data = 1 .. Len(file_data)
           /\ offset \in 1 .. Len(file_data)
           /\ offset = Len(file_data) \/ file_data[offset + 1] = NL
           /\ offset + 2 <= Len(file_data) => file_data[offset + 2].kind = "name"
           /\ loaded \in Seq(LoadedStreams) /\ Len(loaded) <= stream_num
           /\ Len(loaded) \in Nat /\ DOMAIN loaded = 1 .. Len(loaded)
           /\ stream_num \in Nat
<1>1. ListLoaded /\ loaded \in Seq(LoadedStreams) /\ Len(loaded) <= stream_num
      /\ Len(loaded) \in Nat /\ DOMAIN loaded = 1 .. Len(loaded) /\ stream_num \in Nat
      /\ origin.streams \subseteq Streams
    BY LoadingAny
<1>2. /\ Lists(file_data, origin.streams) /\ OneEach(origin.streams)
      /\ origin.complete => Whole(file_data, origin.streams)
      /\ offset \in DOMAIN file_data
      /\ offset = Len(file_data) \/ file_data[offset + 1] = NL
      /\ offset + 2 <= Len(file_data) => file_data[offset + 2].kind = "name"
    BY <1>1 DEF ListLoaded
<1>3. file_data \in Seq(Tokens)
    BY <1>2 DEF Lists
<1>4. Len(file_data) \in Nat /\ DOMAIN file_data = 1 .. Len(file_data)
    BY <1>3
<1>5. QED
    BY <1>1, <1>2, <1>3, <1>4

\* The name of the next stream is behind the next newline.
LEMMA NextField ==
    ASSUME IInv, loader \in {"loop", "data", "loaded"}, file_data # Torn
    PROVE  Field = offset + 2
<1> DEFINE after == { q \in offset + 1 .. Len(file_data) : file_data[q] = NL }
<1>1. /\ Len(file_data) \in Nat /\ offset \in 1 .. Len(file_data)
      /\ offset = Len(file_data) \/ file_data[offset + 1] = NL
    BY Loading
<1>2. CASE offset = Len(file_data)
  <2>1. after = {}
      BY <1>1, <1>2
  <2>2. QED
      BY <1>1, <1>2, <2>1 DEF Field, Newline
<1>3. CASE offset # Len(file_data)
  <2>1. offset + 1 \in after /\ \A r \in after : r \in Int /\ offset + 1 <= r
      BY <1>1, <1>3
  <2> DEFINE first == CHOOSE q \in after : \A r \in after : q <= r
  <2>2. first \in after /\ \A r \in after : first <= r
    <3>1. \E q \in after : \A r \in after : q <= r
        BY <2>1
    <3> HIDE DEF after
    <3>2. QED
        BY <3>1
  <2>3. Newline(offset) = first
    <3>1. after # {}
        BY <2>1
    <3>2. QED
        BY <3>1 DEF Newline
  <2> HIDE DEF first, after
  <2>4. first = offset + 1
      BY <1>1, <2>1, <2>2
  <2>5. QED
      BY <1>1, <2>3, <2>4 DEF Field
<1>4. QED
    BY <1>2, <1>3

\* The fields that are read there are those of a stream that was written.
LEMMA FieldIsStream ==
    ASSUME IInv, loader \in {"loop", "data"}, file_data # Torn, offset + 2 <= Len(file_data)
    PROVE  /\ Field \in 1 .. Len(file_data) /\ Field = offset + 2
           /\ \E s \in origin.streams :
                /\ ListedAt(file_data, Field, s)
                /\ file_data[Field].kind = "name" /\ file_data[Field].val = s.filename
                /\ file_data[Field + 2].val = Len(s.iframe_offset)
                /\ Len(s.iframe_offset) < UshortRange =>
                    /\ IframeNum = Len(s.iframe_offset)
                    /\ IframeOffset = ReadOffsets(Field, s)
<1>1. /\ Field = offset + 2 /\ offset \in 1 .. Len(file_data) /\ Len(file_data) \in Nat
      /\ DOMAIN file_data = 1 .. Len(file_data) /\ file_data \in Seq(Tokens)
      /\ origin.streams \subseteq Streams
    BY NextField, Loading
<1>2. Field \in 1 .. Len(file_data)
    BY <1>1
<1>3. file_data[Field].kind = "name"
    BY <1>1, Loading
<1>4. PICK s \in origin.streams : ListedAt(file_data, Field, s)
    BY <1>1, <1>2, <1>3, Loading DEF Lists
<1>5. s \in Streams
    BY <1>1, <1>4
<1>6. file_data[Field].val = s.filename
    BY <1>4, <1>5, StreamFacts, TokenFacts DEF ListedAt
<1>7. file_data[Field + 2].val = Len(s.iframe_offset)
    BY <1>4, <1>5, StreamFacts, TokenFacts DEF ListedAt
<1> DEFINE m == Len(s.iframe_offset)
<1>8. /\ DOMAIN s.iframe_offset = 1 .. m /\ m \in Nat
      /\ \A n \in 1 .. m : s.iframe_offset[n] \in Nat
    BY <1>5, StreamFacts
<1>88. Len(s.iframe_offset) = m
    OBVIOUS
<1> HIDE DEF m
<1>89. m < UshortRange => IframeNum = m
    BY <1>7, <1>8, <1>88, ModOfSmall, Constants DEF IframeNum
<1>9. \A n \in 1 .. m :
        (LET q == Field + 3 + n IN
         IF q <= Len(file_data) /\ file_data[q].kind = "number" THEN file_data[q].val ELSE 0)
        = IF Field + 3 + n <= Len(file_data) THEN s.iframe_offset[n] ELSE 0
  <2> SUFFICES ASSUME NEW n \in 1 .. m, Field + 3 + n <= Len(file_data)
               PROVE  /\ file_data[Field + 3 + n].kind = "number"
                      /\ file_data[Field + 3 + n].val = s.iframe_offset[n]
      OBVIOUS
  <2>1. file_data[Field + 3 + n] = Num(s.iframe_offset[n])
      BY <1>4, <1>8 DEF ListedAt
  <2>2. QED
      BY <1>8, <2>1, TokenFacts
<1>10. m < UshortRange => IframeOffset = ReadOffsets(Field, s)
    BY <1>8, <1>89, <1>9 DEF IframeOffset, ReadOffsets
<1>11. QED
    BY <1>1, <1>2, <1>3, <1>4, <1>6, <1>7, <1>88, <1>89, <1>10

\* Of a file that is complete and still, every stream is well formed.
LEMMA CompleteFits ==
    ASSUME IInv, loader \in {"loop", "data", "loaded"}, file_data # Torn, origin.complete,
           NEW s \in origin.streams,
           NEW q \in DOMAIN file_data, ListedAt(file_data, q, s)
    PROVE  ReadOffsets(q, s) = s.iframe_offset
<1>1. Whole(file_data, origin.streams) /\ Len(file_data) \in Nat /\ q \in Nat
    BY Loading
<1>2. q + 4 + Len(s.iframe_offset) <= Len(file_data)
    BY <1>1 DEF Whole, NotCut, ListedAt
<1> DEFINE m == Len(s.iframe_offset)
<1>3. /\ DOMAIN s.iframe_offset = 1 .. m /\ m \in Nat
      /\ s.iframe_offset = [n \in 1 .. m |-> s.iframe_offset[n]]
  <2>1. s \in Streams
      BY Loading
  <2>2. s.iframe_offset \in Seq(Nat)
      BY <2>1, StreamFacts
  <2>3. QED
      BY <2>2, SMTT(30)
<1>4. q + 4 + m <= Len(file_data)
    BY <1>2
<1> HIDE DEF m
<1>5. \A n \in 1 .. m : q + 3 + n <= Len(file_data)
    BY <1>1, <1>3, <1>4
<1>6. QED
    BY <1>3, <1>5 DEF ReadOffsets

\* Its offsets fit the video file, if nobody touched that.
LEMMA StillFits ==
    ASSUME IInv, loader \in {"loop", "data"}, file_data # Torn, changed = {},
           NEW s \in origin.streams
    PROVE  /\ disk[s.filename] # Missing
           /\ disk[s.filename].iframe_offset = s.iframe_offset
           /\ disk[s.filename] \in Contents
<1>1. s \in Streams
    BY Loading
<1>2. s.filename \in Files
    BY <1>1, StreamFacts
<1>3. /\ disk[s.filename] # Missing
      /\ disk[s.filename].iframe_offset = s.iframe_offset
    BY DEF IInv, StillInv
<1>4. QED
    BY <1>2, <1>3 DEF IInv, TypeOK

LEMMA OffsetsRead ==
    ASSUME NEW s \in Streams, NEW q
    PROVE  /\ ReadOffsets(q, s) \in Seq(Nat)
           /\ Len(ReadOffsets(q, s)) = Len(s.iframe_offset)
           /\ DOMAIN ReadOffsets(q, s) = DOMAIN s.iframe_offset
<1> DEFINE m == Len(s.iframe_offset)
<1>1. /\ DOMAIN s.iframe_offset = 1 .. m /\ m \in Nat
      /\ \A n \in 1 .. m : s.iframe_offset[n] \in Nat
    BY StreamFacts
<1>2. m = Len(s.iframe_offset)
    OBVIOUS
<1> HIDE DEF m
<1>3. ReadOffsets(q, s) \in [1 .. m -> Nat]
    BY <1>1 DEF ReadOffsets
<1>4. QED
    BY <1>1, <1>2, <1>3

LEMMA ChopperKeepsLoad ==
    ASSUME IInv, load_videos \/ Killed \/ UNCHANGED vars
    PROVE  LoadInv'
<1>1. /\ UNCHANGED <<loader, file_data, offset, stream_num, data, loaded, origin, meanwhile>>
      /\ UNCHANGED <<disk, changed>>
  <2>1. CASE load_videos \/ Killed
      BY <2>1, ChopperFrame
  <2>2. CASE UNCHANGED vars
      BY <2>2 DEF vars, loaders, outside
  <2>3. QED
      BY <2>1, <2>2
<1>2. DataSize' = DataSize /\ Field' = Field
    BY <1>1 DEF DataSize, Field, Newline
<1>3. \A l, q, s : ReadAt(l, q, s) => ReadAt(l, q, s)'
    BY <1>1 DEF ReadAt, ReadOffsets
<1>4. ASSUME ListLoaded PROVE ListLoaded'
    BY <1>1, <1>2, <1>3, <1>4 DEF ListLoaded
<1>5. QED
    BY <1>1, <1>4 DEF IInv, LoadInv

LEMMA ReadInfoStarts ==
    ASSUME IInv, ReadInfo
    PROVE  LoadInv'
<1>0. /\ loader = "read" /\ loader' = "loop" /\ info # <<>> /\ file_data' \in {info, Torn}
      /\ file_data' = Torn => stream_num' \in AnyNumbers
      /\ file_data' # Torn => stream_num' = info[1].val
      /\ offset' = 1 /\ loaded' = <<>>
      /\ origin' = [streams |-> written, torn |-> file_data' = Torn,
                    complete |-> outcome = "ended" /\ file_data' # Torn]
      /\ changed' = changed
    BY DEF ReadInfo, outside
<1>00. <<>> \in Seq(LoadedStreams) /\ Len(<<>>) = 0
    OBVIOUS
<1>01. CASE file_data' = Torn
  <2>0. loader' = "loop" /\ offset' = 1 /\ loaded' = <<>> /\ stream_num' \in AnyNumbers
      BY <1>0, <1>01, Zenon
  <2>1. origin'.torn /\ ~origin'.complete
    <3> DEFINE torn == file_data' = Torn
               complete == outcome = "ended" /\ file_data' # Torn
    <3>1. torn = TRUE /\ complete = FALSE
        BY <1>01
    <3>2. origin' = [streams |-> written, torn |-> torn, complete |-> complete]
        BY <1>0
    <3> HIDE DEF torn, complete
    <3>3. QED
        BY <3>1, <3>2
  <2>2. loaded' \in Seq(LoadedStreams) /\ Len(loaded') <= stream_num'
      BY <1>00, <2>0, Constants
  <2>3. loader' # "data" /\ loader' # "loaded"
      BY <2>0
  <2>4. QED
      BY <1>01, <2>1, <2>2, <2>3, Zenon DEF LoadInv
<1>02. SUFFICES ASSUME file_data' # Torn PROVE LoadInv'
    BY <1>01
<1>1. /\ file_data' = info /\ info # Torn /\ stream_num' = info[1].val
      /\ offset' = 1 /\ loaded' = <<>> /\ loader' = "loop" /\ info # <<>>
      /\ origin'.complete = (outcome = "ended") /\ origin'.streams = written
      /\ origin'.torn = FALSE /\ changed' = changed
    BY <1>0, <1>02
<1>2. /\ Lists(info, written) /\ OneEach(written)
      /\ outcome = "ended" => Whole(info, written)
    BY <1>0, <1>1 DEF IInv, TextInv
<1>3. /\ info \in Seq(Tokens) /\ Len(info) >= 2 /\ info[1].kind = "number" /\ info[2] = NL
      /\ Len(info) > 2 => info[3].kind = "name"
    BY <1>1, <1>2 DEF Lists
<1>4. Len(info) \in Nat /\ 1 \in DOMAIN info /\ info[1] \in Tokens
    BY <1>3
<1>5. info[1].val \in Nat
    BY <1>3, <1>4, TokenFacts
<1>6. /\ <<>> \in Seq(LoadedStreams) /\ Len(<<>>) = 0 /\ DOMAIN <<>> = {}
    OBVIOUS
<1>7. origin'.streams = written /\ (origin'.complete <=> outcome = "ended")
    BY <1>1
<1>8. origin'.complete => stream_num' = Cardinality(written)
  <2>1. SUFFICES ASSUME origin'.complete PROVE info[1].val = Cardinality(written)
      BY <1>1
  <2>2. info[1] = Num(Cardinality(written))
      BY <1>2, <1>7, <2>1 DEF Whole
  <2>3. QED
      BY <2>2 DEF Num
<1>9. \A q \in 1 .. offset' : file_data'[q].kind # "name"
    BY <1>1, <1>3
<1>10. /\ offset' \in DOMAIN file_data' /\ file_data'[offset' + 1] = NL
       /\ offset' + 2 <= Len(file_data') => file_data'[offset' + 2].kind = "name"
  <2>1. 1 + 1 = 2 /\ 1 + 2 = 3 /\ (3 <= Len(info) => Len(info) > 2)
      BY <1>4
  <2>2. QED
      BY <1>1, <1>3, <1>4, <2>1
<1>11. Len(loaded') <= stream_num' /\ loaded' \in Seq(LoadedStreams) /\ DOMAIN loaded' = {}
    BY <1>1, <1>5, <1>6
<1>12. Lists(file_data', origin'.streams) /\ OneEach(origin'.streams)
       /\ (origin'.complete => Whole(file_data', origin'.streams))
    BY <1>1, <1>2, <1>7
<1>13. ListLoaded'
    BY <1>1, <1>7, <1>8, <1>9, <1>10, <1>11, <1>12 DEF ListLoaded
<1>14. QED
    BY <1>1, <1>02, <1>11, <1>13 DEF LoadInv

LEMMA ReadStreamKeepsLoad ==
    ASSUME IInv, ReadStream
    PROVE  LoadInv'
<1>1. /\ loader = "loop" /\ loader' = "data" /\ Len(loaded) < stream_num /\ HasFile
      /\ data' = DataSize
      /\ UNCHANGED <<file_data, offset, stream_num, loaded, origin, meanwhile, disk, changed>>
    BY DEF ReadStream, outside
<1>11. file_data # Torn
    BY <1>1 DEF HasFile
<1>2. DataSize' = DataSize /\ Field' = Field
    BY <1>1 DEF DataSize, Field, Newline
<1>3. \A l, q, s : ReadAt(l, q, s) => ReadAt(l, q, s)'
    BY <1>1 DEF ReadAt, ReadOffsets
<1>4. offset + 2 <= Len(file_data)
    BY <1>1, <1>11, NextField, Loading DEF HasFile
<1>5. DataSize \in Nat
  <2>1. PICK s \in origin.streams : file_data[Field].val = s.filename
      BY <1>1, <1>11, <1>4, FieldIsStream
  <2>2. disk[s.filename] \in Contents \cup {Missing}
      BY <1>1, <1>11, <2>1, Loading, StreamFacts DEF IInv, TypeOK
  <2>3. QED
      BY <2>1, <2>2, Constants DEF DataSize
<1>6. ListLoaded'
  <2>1. ListLoaded
      BY <1>1, <1>11, LoadingAny
  <2>2. QED
      BY <1>1, <1>2, <1>3, <1>4, <1>5, <2>1 DEF ListLoaded
<1>7. QED
    BY <1>1, <1>11, <1>6, LoadingAny DEF LoadInv

\* Streams with names of their own are no more than those that have the names.
LEMMA CountNames ==
    ASSUME NEW set, OneEach(set), NEW n \in Nat, NEW s,
           \A r \in set : \E k \in 1 .. n : s[k].filename = r.filename
    PROVE  IsFiniteSet(set) /\ Cardinality(set) <= n
<1> DEFINE f == [r \in set |-> CHOOSE k \in 1 .. n : s[k].filename = r.filename]
<1>1. f \in [set -> 1 .. n] /\ \A r \in set : s[f[r]].filename = r.filename
    OBVIOUS
<1> HIDE DEF f
<1>2. \A r, q \in set : f[r] = f[q] => r = q
  <2> SUFFICES ASSUME NEW r \in set, NEW q \in set, f[r] = f[q] PROVE r = q
      OBVIOUS
  <2>1. r.filename = q.filename
      BY <1>1
  <2>2. QED
      BY <2>1 DEF OneEach
<1>3. f \in Injection(set, 1 .. n)
    BY <1>1, <1>2 DEF Injection, IsInjective
<1>4. IsFiniteSet(1 .. n) /\ Cardinality(1 .. n) = n
    BY FS_Interval
<1>5. QED
    BY <1>3, <1>4, FS_Injection

\* What is named up to the end of a whole file is all there is.
LEMMA AllRead ==
    ASSUME IInv, loader = "loop", file_data # Torn, origin.complete, changed = {},
           offset + 2 > Len(file_data)
    PROVE  Len(loaded) >= stream_num
<1>1. /\ Whole(file_data, origin.streams) /\ Len(file_data) \in Nat /\ Len(loaded) \in Nat
      /\ DOMAIN file_data = 1 .. Len(file_data) /\ DOMAIN loaded = 1 .. Len(loaded)
      /\ offset \in 1 .. Len(file_data)
      /\ offset = Len(file_data) \/ file_data[offset + 1] = NL
      /\ OneEach(origin.streams)
    BY Loading
<1>2. /\ stream_num = Cardinality(origin.streams)
      /\ \A q \in 1 .. offset : file_data[q].kind = "name" =>
            \E k \in DOMAIN loaded : file_data[q] = Name(loaded[k].filename)
    BY LoadingAny DEF ListLoaded
<1>3. \A r \in origin.streams : \E k \in 1 .. Len(loaded) : loaded[k].filename = r.filename
  <2> SUFFICES ASSUME NEW r \in origin.streams
               PROVE  \E k \in 1 .. Len(loaded) : loaded[k].filename = r.filename
      OBVIOUS
  <2>1. PICK q \in DOMAIN file_data : file_data[q] = Name(r.filename)
      BY <1>1 DEF Whole, NamesIn
  <2>2. file_data[q].kind = "name" /\ file_data[q] # NL
      BY <2>1, TokenFacts DEF Name, NL
  <2>3. q \in 1 .. offset
    <3>0. /\ DOMAIN file_data = 1 .. Len(file_data) /\ Len(file_data) \in Nat
          /\ offset \in 1 .. Len(file_data)
        BY <1>1
    <3>1. q # offset + 1 \/ offset = Len(file_data)
        BY <1>1, <2>2
    <3>2. q \in 1 .. Len(file_data) /\ offset \in Int
        BY <2>1, <3>0
    <3>3. q # offset + 1
      <4>1. offset = Len(file_data) => q < offset + 1
          BY <3>0, <3>2
      <4>2. QED
          BY <3>1, <4>1
    <3>4. q <= offset
        BY <3>0, <3>2, <3>3
    <3>5. QED
        BY <3>2, <3>4
  <2>4. PICK k \in DOMAIN loaded : file_data[q] = Name(loaded[k].filename)
      BY <1>2, <2>2, <2>3
  <2>5. loaded[k].filename = r.filename
      BY <2>1, <2>4 DEF Name
  <2>6. QED
      BY <1>1, <2>4, <2>5
<1>4. Cardinality(origin.streams) <= Len(loaded)
  <2>1. Len(loaded) \in Nat /\ OneEach(origin.streams)
      BY <1>1
  <2>2. QED
      BY <1>3, <2>1, CountNames, ZenonT(40)
<1>5. QED
    BY <1>1, <1>2, <1>4, Loading

LEMMA MissingFileKeepsLoad ==
    ASSUME IInv, MissingFile
    PROVE  LoadInv'
<1>1. /\ loader = "loop" /\ loader' = loader /\ Len(loaded) < stream_num /\ ~HasFile
      /\ stream_num' = stream_num - 1
      /\ UNCHANGED <<file_data, offset, loaded, origin, meanwhile, changed>>
    BY DEF MissingFile, outside
<1>4. Len(loaded') <= stream_num'
    BY <1>1, LoadingAny
<1>5. CASE file_data = Torn
    BY <1>1, <1>4, <1>5, LoadingAny DEF LoadInv
<1>6. SUFFICES ASSUME file_data # Torn PROVE LoadInv'
    BY <1>5
<1>2. \A l, q, s : ReadAt(l, q, s) => ReadAt(l, q, s)'
    BY <1>1 DEF ReadAt, ReadOffsets
<1>3. ~(origin.complete /\ changed = {})
  <2> SUFFICES ASSUME origin.complete, changed = {} PROVE FALSE
      OBVIOUS
  <2>1. CASE offset + 2 <= Len(file_data)
    <3>1. PICK s \in origin.streams :
            /\ ListedAt(file_data, Field, s)
            /\ file_data[Field].kind = "name" /\ file_data[Field].val = s.filename
        BY <1>1, <1>6, <2>1, FieldIsStream
    <3>2. Field + 1 <= Len(file_data)
        BY <1>1, <1>6, <2>1, <3>1, Loading, NextField DEF ListedAt
    <3>3. disk[s.filename] # Missing
        BY <1>1, <1>6, StillFits
    <3>4. QED
        BY <1>1, <1>6, <3>1, <3>2, <3>3 DEF HasFile
  <2>2. CASE offset + 2 > Len(file_data)
    <3>1. Len(loaded) >= stream_num
        BY <1>1, <1>6, <2>2, AllRead
    <3>2. QED
        BY <1>1, <1>6, <3>1, Loading
  <2>3. QED
      BY <1>1, <1>6, <2>1, <2>2, Loading
<1>7. ListLoaded'
  <2>1. ListLoaded
      BY <1>1, <1>6, LoadingAny
  <2>2. QED
      BY <1>1, <1>2, <1>3, <2>1 DEF ListLoaded
<1>8. QED
    BY <1>1, <1>4, <1>6, <1>7, LoadingAny DEF LoadInv

\* The reader goes on to the end of the stream, or of the file.
LEMMA AdvanceFacts ==
    ASSUME IInv, loader = "data", file_data # Torn, offset + 2 <= Len(file_data), Advance,
           NEW s \in origin.streams, ListedAt(file_data, Field, s),
           IframeNum = Len(s.iframe_offset)
    PROVE  /\ offset' \in 1 .. Len(file_data) /\ offset < offset' /\ Field < offset'
           /\ offset' <= Field + 3 + Len(s.iframe_offset)
           /\ offset' = Len(file_data) \/ file_data[offset' + 1] = NL
           /\ offset' + 2 <= Len(file_data) => file_data[offset' + 2].kind = "name"
<1> DEFINE m == Len(s.iframe_offset)
<1>1. s \in Streams /\ m \in Nat
    BY Loading, StreamFacts
<1>2. /\ Field = offset + 2 /\ offset \in 1 .. Len(file_data) /\ Len(file_data) \in Nat
    BY NextField, Loading
<1>3. /\ Field + 3 <= Len(file_data)
      /\ Field + 4 + m <= Len(file_data) => file_data[Field + 4 + m] = NL
      /\ Field + 4 + m < Len(file_data) => file_data[Field + 4 + m + 1].kind = "name"
    BY DEF ListedAt
<1>4. offset' = IF Field + 3 + m < Len(file_data) THEN Field + 3 + m ELSE Len(file_data)
    BY DEF Advance
<1>5. m = Len(s.iframe_offset)
    OBVIOUS
<1> HIDE DEF m
<1>6. CASE Field + 3 + m < Len(file_data)
  <2>1. /\ offset' = Field + 3 + m /\ offset' + 1 = Field + 4 + m
        /\ offset' + 2 = Field + 4 + m + 1
      BY <1>1, <1>2, <1>4, <1>6
  <2>2. file_data[offset' + 1] = NL
      BY <1>1, <1>2, <1>3, <1>6, <2>1
  <2>3. offset' + 2 <= Len(file_data) => file_data[offset' + 2].kind = "name"
      BY <1>1, <1>2, <1>3, <1>6, <2>1
  <2>4. offset' \in 1 .. Len(file_data) /\ offset < offset' /\ Field < offset'
    <3>1. Field \in Nat /\ offset \in Nat /\ Field = offset + 2 /\ Len(file_data) \in Nat
        BY <1>2
    <3>2. offset' = Field + 3 + m /\ Field + 3 + m < Len(file_data)
        BY <1>6, <2>1
    <3>3. QED
        BY <1>1, <3>1, <3>2
  <2>5. offset' <= Field + 3 + Len(s.iframe_offset)
      BY <1>1, <1>2, <1>5, <2>1, <2>4
  <2>6. QED
      BY <2>2, <2>3, <2>4, <2>5
<1>7. CASE ~(Field + 3 + m < Len(file_data))
  <2>1. offset' = Len(file_data)
      BY <1>4, <1>7
  <2>2. offset' \in 1 .. Len(file_data) /\ offset < offset' /\ Field < offset'
      BY <1>2, <1>3, <2>1
  <2>3. offset' <= Field + 3 + m
      BY <1>1, <1>2, <1>7, <2>1
  <2>4. ~(offset' + 2 <= Len(file_data))
      BY <1>2, <2>1
  <2>5. QED
      BY <1>5, <2>1, <2>2, <2>3, <2>4
<1>8. QED
    BY <1>6, <1>7

LEMMA OneMore ==
    ASSUME NEW S, NEW s \in Seq(S), NEW e \in S
    PROVE  /\ Append(s, e) \in Seq(S) /\ Len(Append(s, e)) = Len(s) + 1
           /\ DOMAIN Append(s, e) = DOMAIN s \cup {Len(s) + 1}
           /\ \A k \in DOMAIN s : Append(s, e)[k] = s[k]
           /\ Append(s, e)[Len(s) + 1] = e
           /\ Len(s) + 1 \notin DOMAIN s
OBVIOUS

\* What strtoll() reads of any text is numbers.
LEMMA OffsetsTyped ==
    ASSUME file_data \in Seq(Tokens), file_data[Field + 2].val \in Nat, Field \in Nat
    PROVE  /\ IframeNum \in Nat /\ Len(IframeOffset) = IframeNum
           /\ IframeOffset \in Seq(Nat)
<1>1. IframeNum \in Nat
    BY ModAtMost, Constants DEF IframeNum
<1>2. \A q \in Nat \ {0} :
        q <= Len(file_data) /\ file_data[q].kind = "number" => file_data[q].val \in Nat
    BY TokenFacts
<1>3. \A k \in 1 .. IframeNum :
        (LET q == Field + 3 + k IN
         IF q <= Len(file_data) /\ file_data[q].kind = "number" THEN file_data[q].val ELSE 0)
        \in Nat
  <2> SUFFICES ASSUME NEW k \in 1 .. IframeNum, Field + 3 + k <= Len(file_data),
                      file_data[Field + 3 + k].kind = "number"
               PROVE  file_data[Field + 3 + k].val \in Nat
      OBVIOUS
  <2>1. Field + 3 + k \in Nat \ {0}
      BY <1>1
  <2>2. QED
      BY <1>2, <2>1
<1>4. IframeOffset \in [1 .. IframeNum -> Nat]
    BY <1>3 DEF IframeOffset
<1>5. QED
    BY <1>1, <1>4

LEMMA AddStreamKeepsLoad ==
    ASSUME IInv, AddStream
    PROVE  LoadInv'
<1>0. PICK l : l = [filename |-> file_data[Field].val, iframe_offset |-> IframeOffset,
                    data |-> data, data_size |-> DataSize]
    OBVIOUS
<1>1. /\ loader = "data" /\ loader' = "loop" /\ IframeNum > 0 /\ Advance
      /\ \/ WellFormed /\ loaded' = Append(loaded, l) /\ stream_num' = stream_num
         \/ ~WellFormed /\ loaded' = loaded /\ stream_num' = stream_num - 1
      /\ file_data' = IF file_data[Field + 2].val < UshortRange THEN file_data ELSE Torn
      /\ UNCHANGED <<origin, meanwhile, disk, changed>>
    BY <1>0 DEF AddStream, NotWellFormed, outside
<1>t. file_data # Torn /\ ListLoaded
    BY <1>1, LoadingAny
<1>2. /\ Len(loaded) < stream_num /\ data \in Nat
      /\ offset + 2 <= Len(file_data)
      /\ data = DataSize \/ file_data[Field].val \in meanwhile
      /\ \A k \in DOMAIN loaded :
            \E q \in DOMAIN file_data, s \in origin.streams : ReadAt(loaded[k], q, s)
      /\ \A k, n \in DOMAIN loaded : loaded[k].filename = loaded[n].filename => k = n
      /\ origin.complete /\ changed = {} =>
            /\ stream_num = Cardinality(origin.streams)
            /\ \A q \in 1 .. offset : file_data[q].kind = "name" =>
                \E k \in DOMAIN loaded : file_data[q] = Name(loaded[k].filename)
    BY <1>1, <1>t DEF ListLoaded
<1>3. /\ file_data \in Seq(Tokens) /\ Len(file_data) \in Nat
      /\ DOMAIN file_data = 1 .. Len(file_data)
      /\ offset \in 1 .. Len(file_data)
      /\ offset = Len(file_data) \/ file_data[offset + 1] = NL
      /\ loaded \in Seq(LoadedStreams) /\ Len(loaded) \in Nat
      /\ DOMAIN loaded = 1 .. Len(loaded)
      /\ stream_num \in Nat
      /\ Lists(file_data, origin.streams)
    BY <1>1, <1>t, Loading
<1>33. /\ DOMAIN file_data = 1 .. Len(file_data)
       /\ Len(file_data) \in Nat /\ offset \in 1 .. Len(file_data)
    BY <1>1, <1>t, Loading
<1>34. DOMAIN file_data \subseteq Int /\ offset \in Nat
    BY <1>33
<1>p. PICK s \in origin.streams :
        /\ ListedAt(file_data, Field, s)
        /\ file_data[Field].kind = "name" /\ file_data[Field].val = s.filename
        /\ file_data[Field + 2].val = Len(s.iframe_offset)
        /\ Len(s.iframe_offset) < UshortRange =>
            /\ IframeNum = Len(s.iframe_offset)
            /\ IframeOffset = ReadOffsets(Field, s)
    BY <1>1, <1>t, <1>2, FieldIsStream
<1>5. /\ Field \in 1 .. Len(file_data) /\ Field = offset + 2
    BY <1>1, <1>t, <1>2, FieldIsStream
<1>6. s \in Streams
    BY <1>1, <1>p, LoadingAny
<1>10. IframeOffset \in Seq(Nat) /\ Len(IframeOffset) = IframeNum /\ IframeNum \in Nat
  <2>1. Field \in Nat /\ file_data[Field + 2].val \in Nat
      BY <1>33, <1>5, <1>p, <1>6, StreamFacts
  <2>2. QED
      BY <1>3, <2>1, OffsetsTyped
<1>11. DataSize \in Nat
  <2>1. disk[s.filename] \in Contents \cup {Missing}
      BY <1>6, StreamFacts DEF IInv, TypeOK
  <2>2. QED
      BY <1>p, <2>1, Constants DEF DataSize
<1>l. l \in LoadedStreams
    BY <1>0, <1>2, <1>p, <1>6, <1>10, <1>11, StreamFacts DEF LoadedStreams
<1>n. loaded' \in Seq(LoadedStreams) /\ Len(loaded') <= stream_num'
  <2> Len(loaded) < stream_num /\ stream_num \in Nat /\ Len(loaded) \in Nat
      BY <1>2, <1>3
  <2> loaded \in Seq(LoadedStreams)
      BY <1>3
  <2>1. CASE loaded' = Append(loaded, l) /\ stream_num' = stream_num
      BY <1>l, <2>1, OneMore
  <2>2. CASE loaded' = loaded /\ stream_num' = stream_num - 1
      BY <2>2
  <2>3. QED
      BY <1>1, <2>1, <2>2
\* A number of i-frames that does not fit.
<1>w. CASE ~(Len(s.iframe_offset) < UshortRange)
  <2>1. file_data' = Torn /\ ~Countable(origin'.streams)
      BY <1>1, <1>p, <1>w DEF Countable
  <2>2. QED
      BY <1>1, <1>n, <2>1, LoadingAny DEF LoadInv
<1>s. SUFFICES ASSUME Len(s.iframe_offset) < UshortRange PROVE LoadInv'
    BY <1>w
<1>f. file_data' = file_data
    BY <1>1, <1>p, <1>s
<1>4. /\ ListedAt(file_data, Field, s)
      /\ file_data[Field].kind = "name" /\ file_data[Field].val = s.filename
      /\ IframeNum = Len(s.iframe_offset)
      /\ IframeOffset = ReadOffsets(Field, s)
    BY <1>p, <1>s
<1>7. /\ offset' \in 1 .. Len(file_data) /\ offset < offset' /\ Field < offset'
      /\ offset' <= Field + 3 + Len(s.iframe_offset)
      /\ offset' = Len(file_data) \/ file_data[offset' + 1] = NL
      /\ offset' + 2 <= Len(file_data) => file_data[offset' + 2].kind = "name"
    BY <1>1, <1>t, <1>2, <1>4, AdvanceFacts
<1>8. \A r, q, t : q \in DOMAIN file_data /\ ReadAt(r, q, t) => ReadAt(r, q, t)'
  <2>1. \A q \in DOMAIN file_data : q < offset => q < offset'
    <3>1. DOMAIN file_data \subseteq Int /\ offset \in Int /\ offset' \in Int
        BY <1>34, <1>7
    <3>2. offset < offset'
        BY <1>7
    <3>3. QED
        BY <3>1, <3>2
  <2>2. file_data' = file_data /\ meanwhile' = meanwhile
      BY <1>1, <1>f
  <2>3. QED
      BY <2>1, <2>2 DEF ReadAt, ReadOffsets
\* Nothing is named between the two offsets but the stream.
<1>9. \A q \in 1 .. offset' :
        file_data[q].kind = "name" => q \in 1 .. offset \/ file_data[q] = Name(s.filename)
  <2> SUFFICES ASSUME NEW q \in 1 .. offset', file_data[q].kind = "name", q \notin 1 .. offset
               PROVE  file_data[q] = Name(s.filename)
      OBVIOUS
  <2>1. q # offset + 1
    <3>1. file_data[q] # NL
        BY TokenFacts
    <3>2. Len(file_data) \in Nat /\ offset \in Nat
        BY <1>33, <1>34
    <3>3. offset # Len(file_data)
        BY <1>2, <3>2
    <3>4. QED
        BY <1>3, <3>1, <3>3
  <2>2. q \in DOMAIN file_data /\ q >= Field
    <3>1. q \in Int /\ 1 <= q /\ q <= Len(file_data)
        BY <1>7, <1>33
    <3>2. ~(1 <= q /\ q <= offset)
        BY <1>34, <3>1
    <3>3. QED
        BY <1>5, <1>33, <1>34, <2>1, <3>1, <3>2
  <2>3. CASE q > Field
    <3>1. q > Field + 4 + Len(s.iframe_offset)
        BY <1>3, <1>4, <1>5, <1>6, <2>2, <2>3, NoNameInside
    <3> DEFINE m == Len(s.iframe_offset)
    <3>2. m \in Nat
        BY <1>6, StreamFacts
    <3>3. q > Field + 4 + m /\ offset' <= Field + 3 + m
        BY <1>7, <3>1
    <3> HIDE DEF m
    <3>4. QED
        BY <1>5, <1>7, <3>2, <3>3
  <2>4. CASE q = Field
      BY <1>4, <2>4 DEF ListedAt
  <2>5. QED
      BY <1>5, <1>7, <2>2, <2>3, <2>4
<1>12. CASE WellFormed /\ loaded' = Append(loaded, l) /\ stream_num' = stream_num
  <2>2. /\ l.filename = s.filename /\ l.iframe_offset = IframeOffset
        /\ l.data = data /\ l.data_size = DataSize
      BY <1>0, <1>4
  <2>3. /\ loaded' \in Seq(LoadedStreams) /\ Len(loaded') = Len(loaded) + 1
        /\ DOMAIN loaded' = DOMAIN loaded \cup {Len(loaded) + 1}
        /\ \A k \in DOMAIN loaded : loaded'[k] = loaded[k]
        /\ loaded'[Len(loaded) + 1] = l
        /\ Len(loaded) + 1 \notin DOMAIN loaded
    <3>1. loaded' = Append(loaded, l) /\ loaded \in Seq(LoadedStreams)
        BY <1>3, <1>12
    <3>2. QED
        BY <1>l, <3>1, OneMore
  <2>4. \A q : q = Field => ReadAt(l, q, s)'
    <3>1. l.iframe_offset # <<>>
      <4>1. Len(l.iframe_offset) # 0
          BY <1>1, <1>10, <2>2
      <4>2. QED
          BY <4>1
    <3>2. l.iframe_offset[Len(l.iframe_offset)] < l.data_size
        BY <1>10, <1>12, <2>2 DEF WellFormed
    <3>3. l.data = l.data_size \/ l.filename \in meanwhile'
        BY <1>1, <1>2, <1>4, <2>2
    <3>4. /\ Field < offset' /\ l.filename = s.filename
          /\ ListedAt(file_data, Field, s)
          /\ l.iframe_offset = ReadOffsets(Field, s)
        BY <1>4, <1>7, <2>2
    <3>5. QED
        BY <1>1, <1>f, <3>1, <3>2, <3>3, <3>4 DEF ReadAt, ReadOffsets
  <2>5. \A k \in DOMAIN loaded : loaded[k].filename # s.filename
    <3> SUFFICES ASSUME NEW k \in DOMAIN loaded, loaded[k].filename = s.filename
                 PROVE  FALSE
        OBVIOUS
    <3>1. PICK q \in DOMAIN file_data, r \in origin.streams : ReadAt(loaded[k], q, r)
        BY <1>2
    <3>2. q < offset /\ file_data[q] = Name(s.filename)
        BY <3>1 DEF ReadAt, ListedAt
    <3>3. file_data[Field] = Name(s.filename) /\ file_data[q].kind = "name"
        BY <1>4, <3>2, TokenFacts DEF ListedAt, Name
    <3>4. q = Field
        BY <1>3, <1>5, <3>2, <3>3 DEF Lists
    <3>5. q = offset + 2
        BY <1>5, <3>4, Zenon
    <3>6. q \in Int /\ offset \in Int
        BY <1>34
    <3>7. QED
        BY <3>2, <3>5, <3>6
  <2>6. \A k, n \in DOMAIN loaded' : loaded'[k].filename = loaded'[n].filename => k = n
      BY <1>2, <2>2, <2>3, <2>5
  <2>7. ASSUME NEW k \in DOMAIN loaded'
        PROVE  \E q \in DOMAIN file_data', t \in origin'.streams : ReadAt(loaded[k], q, t)'
    <3>1. CASE k \in DOMAIN loaded
      <4>1. PICK q \in DOMAIN file_data, t \in origin.streams : ReadAt(loaded[k], q, t)
          BY <1>2, <3>1
      <4>2. loaded'[k] = loaded[k]
          BY <2>3, <3>1
      <4>3. \A r : r = loaded[k] => ReadAt(r, q, t)'
          BY <1>8, <4>1
      <4>4. QED
          BY <1>1, <1>f, <4>1, <4>2, <4>3
    <3>2. CASE k = Len(loaded) + 1
      <4>1. loaded'[k] = l
          BY <2>3, <3>2
      <4>2. Field \in DOMAIN file_data /\ s \in origin.streams
          BY <1>3, <1>5
      <4>3. \A r, q : r = l /\ q = Field => ReadAt(r, q, s)'
          BY <2>4
      <4>4. QED
          BY <1>1, <1>f, <4>1, <4>2, <4>3
    <3>3. QED
        BY <2>3, <3>1, <3>2
  <2>8. ASSUME origin'.complete, changed' = {}
        PROVE  /\ stream_num' = Cardinality(origin'.streams)
               /\ \A q \in 1 .. offset' : file_data'[q].kind = "name" =>
                    \E k \in DOMAIN loaded' : file_data'[q] = Name(loaded'[k].filename)
    <3>1. /\ stream_num = Cardinality(origin.streams)
          /\ \A q \in 1 .. offset : file_data[q].kind = "name" =>
                \E k \in DOMAIN loaded : file_data[q] = Name(loaded[k].filename)
        BY <1>1, <1>2, <2>8
    <3>2. Len(loaded) + 1 \in DOMAIN loaded' /\ loaded'[Len(loaded) + 1].filename = s.filename
        BY <2>2, <2>3
    <3>3. ASSUME NEW q \in 1 .. offset', file_data[q].kind = "name"
          PROVE  \E k \in DOMAIN loaded' : file_data[q] = Name(loaded'[k].filename)
      <4>1. CASE q \in 1 .. offset
        <5>1. PICK k \in DOMAIN loaded : file_data[q] = Name(loaded[k].filename)
            BY <3>1, <3>3, <4>1
        <5>2. k \in DOMAIN loaded' /\ loaded'[k] = loaded[k]
            BY <2>3
        <5>3. QED
            BY <5>1, <5>2
      <4>2. CASE file_data[q] = Name(s.filename)
          BY <3>2, <4>2
      <4>3. QED
          BY <1>9, <3>3, <4>1, <4>2
    <3>4. QED
        BY <1>1, <1>f, <1>12, <3>1, <3>3
  <2>9. ListLoaded'
      BY <1>1, <1>f, <1>t, <1>3, <1>7, <2>6, <2>7, <2>8, Loading DEF ListLoaded
  <2>10. QED
      BY <1>1, <1>f, <1>t, <1>n, <2>9, LoadingAny DEF LoadInv
<1>13. CASE ~WellFormed /\ loaded' = loaded /\ stream_num' = stream_num - 1
  <2>1. ~(origin.complete /\ changed = {})
    <3> SUFFICES ASSUME origin.complete, changed = {} PROVE WellFormed
        BY <1>13
    <3>1. /\ disk[s.filename] # Missing /\ disk[s.filename] \in Contents
          /\ disk[s.filename].iframe_offset = s.iframe_offset
        BY <1>1, <1>t, <1>4, StillFits
    <3>2. IframeOffset = s.iframe_offset
        BY <1>1, <1>t, <1>3, <1>4, <1>5, CompleteFits
    <3>3. IframeNum \in DOMAIN s.iframe_offset
        BY <1>1, <1>4, <1>6, <1>10, StreamFacts
    <3>4. DataSize = disk[s.filename].data_size
        BY <1>4, <3>1 DEF DataSize
    <3>5. QED
        BY <3>1, <3>2, <3>3, <3>4, Constants DEF WellFormed
  <2>2. \A k \in DOMAIN loaded' :
            \E q \in DOMAIN file_data', t \in origin'.streams : ReadAt(loaded[k], q, t)'
    <3> SUFFICES ASSUME NEW k \in DOMAIN loaded
                 PROVE  \E q \in DOMAIN file_data', t \in origin'.streams :
                            ReadAt(loaded[k], q, t)'
        BY <1>13
    <3>1. PICK q \in DOMAIN file_data, t \in origin.streams : ReadAt(loaded[k], q, t)
        BY <1>2
    <3>2. \A r : r = loaded[k] => ReadAt(r, q, t)'
        BY <1>8, <3>1
    <3>3. QED
        BY <1>1, <1>f, <1>13, <3>1, <3>2
  <2>3. ListLoaded'
      BY <1>1, <1>f, <1>t, <1>2, <1>3, <1>7, <1>13, <2>1, <2>2, Loading DEF ListLoaded
  <2>4. QED
      BY <1>1, <1>f, <1>t, <1>n, <2>3, LoadingAny DEF LoadInv
<1>14. QED
    BY <1>1, <1>12, <1>13

\* Of a text that may be any, any stream may be loaded.
LEMMA TornStreamKeepsLoad ==
    ASSUME IInv, TornStream
    PROVE  LoadInv'
<1>1. /\ loader = "loop" /\ loader' = "loop" /\ file_data = Torn /\ Len(loaded) < stream_num
      /\ UNCHANGED <<file_data, origin>>
    BY DEF TornStream
<1>2. PICK f \in Files, n \in AnyNumbers \ {0} : \E o \in [1 .. n -> AnyNumbers] :
        /\ disk[f] # Missing
        /\ \/ /\ loaded' = Append(loaded, [filename |-> f, iframe_offset |-> o,
                                           data |-> disk[f].data_size,
                                           data_size |-> disk[f].data_size])
              /\ stream_num' = stream_num
           \/ stream_num' = stream_num - 1 /\ loaded' = loaded
    BY DEF TornStream
<1>3. PICK o \in [1 .. n -> AnyNumbers] :
        /\ disk[f] # Missing
        /\ \/ /\ loaded' = Append(loaded, [filename |-> f, iframe_offset |-> o,
                                           data |-> disk[f].data_size,
                                           data_size |-> disk[f].data_size])
              /\ stream_num' = stream_num
           \/ stream_num' = stream_num - 1 /\ loaded' = loaded
    BY <1>2
<1> DEFINE l == [filename |-> f, iframe_offset |-> o,
                 data |-> disk[f].data_size, data_size |-> disk[f].data_size]
<1>4. l \in LoadedStreams
  <2>1. n \in Nat /\ o \in [1 .. n -> Nat]
      BY Constants
  <2>2. o \in Seq(Nat)
      BY <2>1
  <2>3. disk[f].data_size \in Nat
    <3>1. disk[f] \in Contents
        BY <1>3 DEF IInv, TypeOK
    <3>2. QED
        BY <3>1, Constants
  <2>4. QED
      BY <2>2, <2>3 DEF LoadedStreams
<1>5. /\ loaded \in Seq(LoadedStreams) /\ Len(loaded) \in Nat /\ stream_num \in Nat
    BY <1>1, LoadingAny
<1>6. \/ loaded' = Append(loaded, l) /\ stream_num' = stream_num
      \/ loaded' = loaded /\ stream_num' = stream_num - 1
    BY <1>3
<1> HIDE DEF l
<1>7. loaded' \in Seq(LoadedStreams) /\ Len(loaded') <= stream_num'
  <2>1. CASE loaded' = Append(loaded, l) /\ stream_num' = stream_num
      BY <1>1, <1>4, <1>5, <2>1, OneMore
  <2>2. CASE loaded' = loaded /\ stream_num' = stream_num - 1
      BY <1>1, <1>5, <2>2
  <2>3. QED
      BY <1>6, <2>1, <2>2
<1>8. QED
    BY <1>1, <1>7, LoadingAny DEF LoadInv

LEMMA EndLoadKeepsLoad ==
    ASSUME IInv, EndLoad
    PROVE  LoadInv'
<1>1. /\ loader = "loop" /\ loader' = "loaded" /\ loaded' \in Qsort(loaded)
      /\ Len(loaded) >= stream_num
      /\ UNCHANGED <<file_data, offset, stream_num, origin, meanwhile, changed>>
    BY DEF EndLoad, outside
<1>2. loaded \in Seq(LoadedStreams) /\ DOMAIN loaded = 1 .. Len(loaded)
    BY <1>1, LoadingAny
<1>3. PICK p : /\ loaded' \in Seq(LoadedStreams) /\ Len(loaded') = Len(loaded)
               /\ DOMAIN loaded' = DOMAIN loaded /\ Moves(p, loaded, loaded')
    BY <1>1, <1>2, SortedStreams
<1>4. /\ \A k \in DOMAIN loaded : p[k] \in DOMAIN loaded /\ loaded'[k] = loaded[p[k]]
      /\ \A k, n \in DOMAIN loaded : p[k] = p[n] => k = n
      /\ \A n \in DOMAIN loaded : \E k \in DOMAIN loaded : p[k] = n
    BY <1>3 DEF Moves
<1>10. Len(loaded') = stream_num' /\ Len(loaded') <= stream_num'
    BY <1>1, <1>3, LoadingAny
<1>t. CASE file_data = Torn
    BY <1>1, <1>3, <1>10, <1>t, LoadingAny DEF LoadInv
<1>s. SUFFICES ASSUME file_data # Torn PROVE LoadInv'
    BY <1>t
<1>5. /\ Lists(file_data, origin.streams) /\ OneEach(origin.streams)
      /\ origin.complete => Whole(file_data, origin.streams)
      /\ offset \in DOMAIN file_data
      /\ offset = Len(file_data) \/ file_data[offset + 1] = NL
      /\ offset + 2 <= Len(file_data) => file_data[offset + 2].kind = "name"
      /\ \A k \in DOMAIN loaded :
            \E q \in DOMAIN file_data, s \in origin.streams : ReadAt(loaded[k], q, s)
      /\ \A k, n \in DOMAIN loaded : loaded[k].filename = loaded[n].filename => k = n
      /\ origin.complete /\ changed = {} =>
            /\ stream_num = Cardinality(origin.streams)
            /\ \A q \in 1 .. offset : file_data[q].kind = "name" =>
                \E k \in DOMAIN loaded : file_data[q] = Name(loaded[k].filename)
    BY <1>1, <1>s, LoadingAny DEF ListLoaded
<1>6. \A l, q, s : ReadAt(l, q, s) => ReadAt(l, q, s)'
    BY <1>1 DEF ReadAt, ReadOffsets
<1>7. \A k \in DOMAIN loaded' :
        \E q \in DOMAIN file_data', s \in origin'.streams : ReadAt(loaded[k], q, s)'
  <2> SUFFICES ASSUME NEW k \in DOMAIN loaded
               PROVE  \E q \in DOMAIN file_data', s \in origin'.streams : ReadAt(loaded[k], q, s)'
      BY <1>3
  <2>1. PICK q \in DOMAIN file_data, s \in origin.streams : ReadAt(loaded[p[k]], q, s)
      BY <1>4, <1>5
  <2>2. \A r : r = loaded[p[k]] => ReadAt(r, q, s)'
      BY <1>6, <2>1
  <2>3. QED
      BY <1>1, <1>4, <2>1, <2>2
<1>8. \A k, n \in DOMAIN loaded' : loaded'[k].filename = loaded'[n].filename => k = n
  <2> SUFFICES ASSUME NEW k \in DOMAIN loaded, NEW n \in DOMAIN loaded,
                      loaded'[k].filename = loaded'[n].filename
               PROVE  k = n
      BY <1>3
  <2>1. p[k] \in DOMAIN loaded /\ p[n] \in DOMAIN loaded
      BY <1>4
  <2>2. loaded[p[k]].filename = loaded[p[n]].filename
      BY <1>4
  <2>3. p[k] = p[n]
      BY <1>5, <2>1, <2>2
  <2>4. QED
      BY <1>4, <2>3
<1>9. \A f : (\E k \in DOMAIN loaded : f = Name(loaded[k].filename))
                => \E k \in DOMAIN loaded' : f = Name(loaded'[k].filename)
  <2> SUFFICES ASSUME NEW n \in DOMAIN loaded
               PROVE  \E k \in DOMAIN loaded' : Name(loaded[n].filename) = Name(loaded'[k].filename)
      OBVIOUS
  <2>1. PICK k \in DOMAIN loaded : p[k] = n
      BY <1>4
  <2>2. loaded'[k] = loaded[n]
      BY <1>4, <2>1
  <2>3. QED
      BY <1>3, <2>1, <2>2
<1>11. origin'.complete /\ changed' = {} =>
        /\ stream_num' = Cardinality(origin'.streams)
        /\ \A q \in 1 .. offset' : file_data'[q].kind = "name" =>
            \E k \in DOMAIN loaded' : file_data'[q] = Name(loaded'[k].filename)
  <2>1. origin' = origin /\ changed' = changed /\ file_data' = file_data
        /\ offset' = offset /\ stream_num' = stream_num
      BY <1>1
  <2>2. origin.complete /\ changed = {} =>
            /\ stream_num = Cardinality(origin.streams)
            /\ \A q \in 1 .. offset : file_data[q].kind = "name" =>
                \E k \in DOMAIN loaded : file_data[q] = Name(loaded[k].filename)
      BY <1>5
  <2>3. QED
      BY <1>9, <2>1, <2>2, Zenon
<1>12. /\ Lists(file_data', origin'.streams) /\ OneEach(origin'.streams)
       /\ origin'.complete => Whole(file_data', origin'.streams)
       /\ offset' \in DOMAIN file_data'
       /\ offset' = Len(file_data') \/ file_data'[offset' + 1] = NL
       /\ offset' + 2 <= Len(file_data') => file_data'[offset' + 2].kind = "name"
    BY <1>1, <1>5
<1>13. loaded' \in Seq(LoadedStreams) /\ loader' # "data"
    BY <1>1, <1>3
<1>14. ListLoaded'
    BY <1>7, <1>8, <1>11, <1>12, <1>13 DEF ListLoaded
<1>15. QED
    BY <1>1, <1>s, <1>10, <1>13, <1>14, LoadingAny DEF LoadInv

LEMMA ChangeFileKeepsLoad ==
    ASSUME IInv, ChangeFile
    PROVE  LoadInv'
<1>1. PICK f \in Files, c \in Contents \cup {Missing} :
        /\ disk' = [disk EXCEPT ![f] = c]
        /\ changed' = changed \cup {f}
        /\ meanwhile' = IF loader \in {"loop", "data"} THEN meanwhile \cup {f} ELSE meanwhile
    BY DEF ChangeFile
<1>2. UNCHANGED <<loader, file_data, offset, stream_num, data, loaded, origin>>
    BY DEF ChangeFile
<1>3. \A l, q, s : ReadAt(l, q, s) => ReadAt(l, q, s)'
    BY <1>1, <1>2 DEF ReadAt, ReadOffsets
<1>4. Field' = Field
    BY <1>2 DEF Field, Newline
<1>5. ASSUME loader = "data", data = DataSize \/ file_data[Field].val \in meanwhile
      PROVE  data' = DataSize' \/ file_data'[Field'].val \in meanwhile'
  <2>1. disk \in [Files -> Contents \cup {Missing}]
      BY DEF IInv, TypeOK
  <2>2. CASE file_data[Field].val = f
      BY <1>1, <1>2, <1>4, <1>5, <2>2
  <2>3. CASE file_data[Field].val # f
    <3>1. offset + 2 <= Len(file_data)
        BY <1>5, LoadingAny DEF ListLoaded
    <3>2. file_data[Field].val \in Files
        BY <1>5, <3>1, FieldIsStream, LoadingAny, StreamFacts
    <3>3. disk'[file_data[Field].val] = disk[file_data[Field].val]
        BY <1>1, <2>1, <2>3, <3>2
    <3>4. DataSize' = DataSize
        BY <1>2, <1>4, <3>3 DEF DataSize
    <3>5. QED
        BY <1>1, <1>2, <1>4, <1>5, <3>4
  <2>4. QED
      BY <2>2, <2>3
<1>6. changed' # {}
    BY <1>1
<1>7. ASSUME ListLoaded PROVE ListLoaded'
    BY <1>2, <1>3, <1>5, <1>6, <1>7 DEF ListLoaded
<1>8. QED
    BY <1>2, <1>7 DEF IInv, LoadInv

LEMMA KeepsLoad ==
    ASSUME IInv, Next \/ UNCHANGED vars
    PROVE  LoadInv'
<1>1. CASE CheckSize \/ ReadEmpty \/ NoIframes \/ TornEnds \/ Again
  <2>1. loader' \notin {"loop", "data", "loaded"}
      BY <1>1 DEF CheckSize, ReadEmpty, NoIframes, TornEnds, Again
  <2>2. QED
      BY <2>1 DEF LoadInv
<1>2. QED
    BY <1>1, ChopperKeepsLoad, ReadInfoStarts, ReadStreamKeepsLoad, MissingFileKeepsLoad,
       AddStreamKeepsLoad, TornStreamKeepsLoad, EndLoadKeepsLoad, ChangeFileKeepsLoad
       DEF Next, load_video

\* The variables of the server keep their types.
LEMMA LoaderTypes ==
    ASSUME IInv, Next \/ UNCHANGED vars
    PROVE  /\ disk' \in [Files -> Contents \cup {Missing}]
           /\ loader' \in {"idle", "read", "loop", "data", "loaded", "crashed"}
           /\ stream_num' \in Nat
           /\ origin'.streams \subseteq Streams
           /\ {rewritten', origin'.torn, origin'.complete} \subseteq BOOLEAN
<1>1. /\ disk \in [Files -> Contents \cup {Missing}]
      /\ loader \in {"idle", "read", "loop", "data", "loaded", "crashed"}
      /\ stream_num \in Nat
      /\ origin.streams \subseteq Streams /\ written \subseteq Streams
      /\ {rewritten, origin.torn, origin.complete} \subseteq BOOLEAN
    BY DEF IInv, TypeOK
<1>2. CASE load_videos \/ Killed
  <2>1. rewritten' \in BOOLEAN
      BY <1>1, <1>2 DEF load_videos, Killed, Scan, LoadStream, Truncate, WriteHeader, WriteName,
              WriteOffset, WriteEnd, Done, Segfault, OpenFails, Overflow, Stop, Write, infos
  <2>2. QED
      BY <1>1, <1>2, <2>1, ChopperFrame
<1>3. CASE UNCHANGED vars
    BY <1>1, <1>3 DEF vars, loaders, outside, infos
<1>4. CASE ChangeFile
    BY <1>1, <1>4 DEF ChangeFile, infos
<1>5. CASE Again
    BY <1>1, <1>5 DEF Again, NoOrigin, outside, infos
<1>6. CASE CheckSize \/ ReadEmpty \/ ReadStream \/ NoIframes \/ TornEnds \/ EndLoad
    BY <1>1, <1>6 DEF CheckSize, ReadEmpty, ReadStream, NoIframes, TornEnds, EndLoad, outside,
                      infos
<1>7. CASE ReadInfo
  <2>1. info # Torn => info[1].val \in Nat
    <3> SUFFICES ASSUME info # Torn PROVE info[1].val \in Nat
        OBVIOUS
    <3>1. Lists(info, written) /\ info # <<>>
        BY <1>7 DEF ReadInfo, IInv, TextInv
    <3>2. info[1].kind = "number" /\ info[1] \in Tokens
        BY <3>1 DEF Lists
    <3>3. QED
        BY <3>2, TokenFacts
  <2>2. stream_num' \in Nat
      BY <1>7, <2>1, Constants DEF ReadInfo
  <2>3. QED
      BY <1>1, <1>7, <2>2 DEF ReadInfo, outside
<1>8. CASE MissingFile \/ AddStream \/ TornStream
  <2>1. /\ loader' \in {"loop", "data"} /\ disk' = disk /\ origin' = origin
        /\ rewritten' = rewritten
        /\ stream_num' \in {stream_num, stream_num - 1}
      BY <1>8 DEF MissingFile, AddStream, TornStream, NotWellFormed, outside, infos
  <2>2. Len(loaded) < stream_num /\ Len(loaded) \in Nat
    <3>1. CASE MissingFile \/ TornStream
        BY <3>1, LoadingAny DEF MissingFile, TornStream
    <3>2. CASE AddStream
        BY <3>2, LoadingAny DEF AddStream, ListLoaded
    <3>3. QED
        BY <1>8, <3>1, <3>2
  <2>3. QED
      BY <1>1, <2>1, <2>2
<1>9. QED
    BY <1>2, <1>3, <1>4, <1>5, <1>6, <1>7, <1>8 DEF Next, load_video

LEMMA KeepsCrash ==
    ASSUME IInv, Next \/ UNCHANGED vars
    PROVE  CrashExplained'
<1>1. loader = "crashed" =>
        \/ file_data = <<>> /\ runs > 1
        \/ \E s \in origin.streams : Len(s.iframe_offset) \notin 1 .. UshortRange - 1
        \/ origin.torn
    BY DEF IInv, CrashExplained
<1>2. CASE load_videos \/ Killed
  <2>1. runs' = runs \/ runs' = runs + 1
      BY <1>2 DEF load_videos, Killed, Scan, LoadStream, Truncate, WriteHeader, WriteName,
                  WriteOffset, WriteEnd, Done, Segfault, OpenFails, Overflow, Stop, Ends
  <2>2. runs > 1 => runs' > 1
      BY <2>1 DEF IInv, ScanInv
  <2>3. QED
      BY <1>1, <1>2, <2>2, ChopperFrame DEF CrashExplained
<1>3. CASE ReadEmpty
  <2>1. file_data = <<>> /\ runs > 1
      BY <1>3 DEF ReadEmpty, IInv, EmptyInv
  <2>2. QED
      BY <1>3, <2>1 DEF ReadEmpty, choppers, CrashExplained
<1>4. CASE NoIframes
  <2>1. loader = "data" /\ IframeNum = 0 /\ origin' = origin
      BY <1>4 DEF NoIframes
  <2>2. file_data # Torn /\ offset + 2 <= Len(file_data)
      BY <2>1, LoadingAny DEF ListLoaded
  <2>3. PICK s \in origin.streams :
            Len(s.iframe_offset) < UshortRange => IframeNum = Len(s.iframe_offset)
      BY <2>1, <2>2, FieldIsStream
  <2>4. Len(s.iframe_offset) \notin 1 .. UshortRange - 1
      BY <2>1, <2>3, Constants
  <2>5. QED
      BY <2>1, <2>4 DEF CrashExplained
<1>8. CASE TornEnds
  <2>1. file_data = Torn /\ loader = "loop" /\ origin' = origin
      BY <1>8 DEF TornEnds
  <2>2. origin.torn \/ ~Countable(origin.streams)
      BY <2>1, LoadingAny
  <2>3. ~Countable(origin.streams) =>
            \E s \in origin.streams : Len(s.iframe_offset) \notin 1 .. UshortRange - 1
    <3> SUFFICES ASSUME NEW s \in origin.streams, ~(Len(s.iframe_offset) < UshortRange)
                 PROVE  Len(s.iframe_offset) \notin 1 .. UshortRange - 1
        BY DEF Countable
    <3>1. QED
        BY Constants
  <2>4. QED
      BY <2>1, <2>2, <2>3 DEF CrashExplained
<1>5. CASE ChangeFile \/ UNCHANGED vars
    BY <1>1, <1>5 DEF ChangeFile, vars, choppers, loaders, CrashExplained
<1>6. CASE (load_video /\ ~ReadEmpty /\ ~NoIframes /\ ~TornEnds) \/ Again
  <2>1. loader' # "crashed"
      BY <1>6 DEF load_video, Again, CheckSize, ReadInfo, MissingFile, ReadStream, AddStream,
                  TornStream, EndLoad
  <2>2. QED
      BY <2>1 DEF CrashExplained
<1>7. QED
    BY <1>2, <1>3, <1>4, <1>8, <1>5, <1>6 DEF Next, load_video

-----------------------------------------------------------------------------
(* The theorems.                                                           *)

LEMMA InfoInit == Init => IInv
<1> SUFFICES ASSUME Init PROVE IInv
    OBVIOUS
<1>1. /\ disk \in [Files -> Contents] /\ info = Missing
      /\ chopper = "idle" /\ streams = <<>> /\ num_entries = 0 /\ i = 1 /\ j = 1
      /\ loader = "idle" /\ file_data = <<>> /\ stream_num = 0 /\ loaded = <<>>
      /\ runs = 0 /\ outcome = "none"
      /\ rewritten = FALSE /\ written = {}
      /\ origin = [streams |-> {}, complete |-> FALSE, torn |-> FALSE]
    BY DEF Init, NoOrigin
<1>2. /\ <<>> \in Seq(Streams \cup {NoStream}) /\ DOMAIN <<>> = {} /\ ToSet(<<>>) = {}
    BY DEF ToSet
<1>3. TypeOK
  <2>1. {rewritten, origin.torn, origin.complete} \subseteq BOOLEAN
      BY <1>1
  <2>2. disk \in [Files -> Contents \cup {Missing}] /\ origin.streams = {}
      BY <1>1
  <2>3. QED
      BY <1>1, <1>2, <2>1, <2>2, Constants DEF TypeOK
<1>4. ScanInv /\ WriteInv
    BY <1>1, <1>2 DEF ScanInv, WriteInv
<1>5. TextInv
    BY <1>1 DEF TextInv, OneEach
<1>6. EmptyInv /\ StillInv /\ LoadInv /\ CrashExplained
    BY <1>1, <1>2 DEF EmptyInv, StillInv, LoadInv, CrashExplained
<1>7. QED
    BY <1>3, <1>4, <1>5, <1>6 DEF IInv

LEMMA InfoNext == IInv /\ [Next]_vars => IInv'
<1> SUFFICES ASSUME IInv, Next \/ UNCHANGED vars PROVE IInv'
    OBVIOUS
<1>1. (load_videos \/ Killed) \/ (load_video \/ Again \/ ChangeFile \/ UNCHANGED vars)
    BY DEF Next
<1>2. ScanInv' /\ WriteInv' /\ TextInv' /\ EmptyInv'
    BY <1>1, ChopperTypes, ChopperKeepsText, ChopperKeepsEmpty, OthersKeepText, OthersKeepEmpty
<1>3. StillInv' /\ LoadInv' /\ CrashExplained'
    BY KeepsStill, KeepsLoad, KeepsCrash
<1>4. /\ chopper' \in {"idle", "load", "header", "stream", "offsets"}
      /\ num_entries' \in 0 .. NumFiles
      /\ chopper' = "offsets" =>
            streams'[i'] \in Streams /\ j' \in 1 .. Len(streams'[i'].iframe_offset) + 1
      /\ written' \subseteq Streams
  <2>1. CASE load_videos \/ Killed
      BY <2>1, ChopperTypes
  <2>2. CASE load_video \/ Again \/ ChangeFile \/ UNCHANGED vars
      BY <2>2, OtherFrame DEF IInv, TypeOK
  <2>3. QED
      BY <1>1, <2>1, <2>2
<1>5. info' \notin {Missing, Torn} =>
        \A q \in DOMAIN info' :
            /\ info'[q].kind = "name" => info'[q].val \in Files
            /\ info'[q].kind = "number" => info'[q].val \in Nat
  <2> SUFFICES ASSUME info' # Missing, info' # Torn, NEW q \in DOMAIN info'
               PROVE  /\ info'[q].kind = "name" => info'[q].val \in Files
                      /\ info'[q].kind = "number" => info'[q].val \in Nat
      OBVIOUS
  <2>1. info' \in Seq(Tokens)
      BY <1>2 DEF TextInv, Lists
  <2>2. info'[q] \in Tokens
      BY <2>1
  <2>3. QED
      BY <2>2, TokenFacts
<1>6. \A k \in DOMAIN streams' : streams'[k] \in Streams \cup {NoStream}
    BY <1>2 DEF ScanInv
<1>7. loader' \in {"loop", "data"} =>
        /\ Len(loaded') <= stream_num'
        /\ file_data' # Torn => offset' \in 1 .. Len(file_data')
  <2> SUFFICES ASSUME loader' \in {"loop", "data"}
               PROVE  /\ Len(loaded') <= stream_num'
                      /\ file_data' # Torn => offset' \in 1 .. Len(file_data')
      OBVIOUS
  <2>1. /\ Len(loaded') <= stream_num'
        /\ file_data' # Torn => ListLoaded'
      BY <1>3 DEF LoadInv
  <2>2. file_data' # Torn => file_data' \in Seq(Tokens) /\ offset' \in DOMAIN file_data'
      BY <2>1 DEF ListLoaded, Lists
  <2>3. QED
      BY <2>1, <2>2
<1>8. TypeOK'
    BY <1>4, <1>5, <1>6, <1>7, LoaderTypes DEF TypeOK
<1>9. QED
    BY <1>2, <1>3, <1>8 DEF IInv

\* Between any two writes and reads of the two programs, with whatever becomes
\* of the video files, the chopper, and what it writes.
THEOREM InfoInvariant == Spec => []IInv
<1>1. QED
    BY InfoInit, InfoNext, PTL DEF Spec

\* TypeOK of InfoFile: the tokens of the file are well formed, save_stream_info()
\* is inside the list of i-frames it writes, and load_video() inside its copy of a
\* file that is not torn. (load_stream() of the chopper may leave the array it
\* fills, and is out of the model from there on: Overflow.)
THEOREM InfoTypes == Spec => []TypeOK
<1>1. IInv => TypeOK
    BY DEF IInv
<1>2. QED
    BY <1>1, InfoInvariant, PTL

\* The server ends while it loads only for a stream whose number of i-frames is 0
\* or not in the range of an unsigned short, a file that a second run of the
\* chopper empties at that moment, or a text that is torn (load_video).
THEOREM CrashesExplained == Spec => []CrashExplained
<1>1. IInv => CrashExplained
    BY DEF IInv
<1>2. QED
    BY <1>1, InfoInvariant, PTL

\* To compare the last offset with the size is enough, for a file that is complete
\* and whose i-frames an unsigned short can count (load_video). It rests on the
\* offsets not decreasing, as url_ftell() gives them to the chopper.
THEOREM OffsetsWithinFile == Spec => []WithinFile
<1>1. IInv => WithinFile
  <2> SUFFICES ASSUME IInv, loader = "loaded", origin.complete,
                      Countable(origin.streams),
                      NEW k \in DOMAIN loaded, NEW n \in DOMAIN loaded[k].iframe_offset
               PROVE  /\ loaded[k].iframe_offset[n] < loaded[k].data_size
                      /\ loaded[k].filename \notin meanwhile =>
                            loaded[k].iframe_offset[n] < loaded[k].data
      BY DEF WithinFile, ToSet
  <2>t. file_data # Torn /\ ListLoaded
      BY LoadingAny
  <2>1. PICK q \in DOMAIN file_data, s \in origin.streams : ReadAt(loaded[k], q, s)
      BY <2>t DEF ListLoaded
  <2>2. s \in Streams /\ loaded[k] \in LoadedStreams
      BY LoadingAny
  <2> DEFINE offs == s.iframe_offset
             m == Len(offs)
  <2>3. loaded[k].iframe_offset = offs
      BY <2>1, <2>t, CompleteFits DEF ReadAt
  <2>4. /\ m \in Nat /\ DOMAIN offs = 1 .. m
        /\ \A p, r \in DOMAIN offs : p <= r => offs[p] <= offs[r]
        /\ \A p \in 1 .. m : offs[p] \in Nat
      BY <2>2, StreamFacts
  <2>5. offs[m] < loaded[k].data_size /\ (loaded[k].data = loaded[k].data_size
            \/ loaded[k].filename \in meanwhile)
      BY <2>1, <2>3 DEF ReadAt
  <2>6. loaded[k].data_size \in Nat /\ loaded[k].data \in Nat
      BY <2>2 DEF LoadedStreams
  <2> HIDE DEF m, offs
  <2>7. n \in 1 .. m /\ m \in 1 .. m
      BY <2>3, <2>4
  <2>8. offs[n] <= offs[m]
      BY <2>4, <2>7
  <2>9. offs[n] < loaded[k].data_size
      BY <2>4, <2>5, <2>6, <2>7, <2>8
  <2>10. QED
      BY <2>3, <2>5, <2>9
<1>2. QED
    BY <1>1, InfoInvariant, PTL

\* A chopper that is killed costs the server one stream at most, the last in the
\* file, if each write() before wrote all it was given, the file was not written
\* anew while it was read, and an unsigned short can count the i-frames
\* (save_stream_info, load_video).
THEOREM OneStreamIsCut == Spec => []OnlyLastIsCut
<1>1. IInv => OnlyLastIsCut
  <2> SUFFICES ASSUME IInv, loader = "loaded", ~origin.torn, Countable(origin.streams)
               PROVE  OnlyLastIsCut
      BY DEF OnlyLastIsCut
  <2> DEFINE cut == { k \in DOMAIN loaded :
                Stream(loaded[k].filename, loaded[k].iframe_offset) \notin origin.streams }
  <2>t. file_data # Torn /\ ListLoaded
      BY LoadingAny
  <2>1. \A k \in DOMAIN loaded :
            \E q \in DOMAIN file_data, s \in origin.streams : ReadAt(loaded[k], q, s)
      BY <2>t DEF ListLoaded
  <2>2. \A k, l \in DOMAIN loaded : loaded[k].filename = loaded[l].filename => k = l
      BY <2>t DEF ListLoaded
  <2>3. /\ file_data \in Seq(Tokens) /\ Len(file_data) \in Nat
        /\ DOMAIN file_data = 1 .. Len(file_data) /\ origin.streams \subseteq Streams
      BY <2>t, Loading
  <2>4. ASSUME NEW k \in cut, NEW q \in DOMAIN file_data, NEW s \in origin.streams,
               ReadAt(loaded[k], q, s), NEW p \in DOMAIN file_data,
               file_data[p].kind = "name"
        PROVE  p <= q
    <3> DEFINE m == Len(s.iframe_offset)
    <3>1. s \in Streams /\ m \in Nat /\ DOMAIN s.iframe_offset = 1 .. m
        BY <2>3, StreamFacts
    <3>2. ListedAt(file_data, q, s) /\ loaded[k].filename = s.filename
          /\ loaded[k].iframe_offset = ReadOffsets(q, s)
        BY <2>4 DEF ReadAt
    <3>3. s.iframe_offset \in Seq(Nat) /\ s = Stream(s.filename, s.iframe_offset)
        BY <3>1, StreamFacts
    <3>4. p > q => p > q + 4 + m
        BY <2>3, <2>4, <3>1, <3>2, NoNameInside
    <3>5. ReadOffsets(q, s) # s.iframe_offset
        BY <3>2, <3>3
    <3> HIDE DEF m
    <3>6. ~(q + 4 + m < p /\ p <= Len(file_data))
      <4> SUFFICES ASSUME q + 4 + m < p, p <= Len(file_data) PROVE FALSE
          OBVIOUS
      <4>1. \A n \in 1 .. m : q + 3 + n <= Len(file_data)
          BY <2>3, <3>1
      <4>2. ReadOffsets(q, s) = [n \in 1 .. m |-> s.iframe_offset[n]]
          BY <3>1, <4>1 DEF ReadOffsets
      <4>3. s.iframe_offset = [n \in 1 .. m |-> s.iframe_offset[n]]
          BY <3>1, <3>3
      <4>4. QED
          BY <3>5, <4>2, <4>3
    <3>7. QED
        BY <2>3, <3>1, <3>4, <3>6
  <2>5. ASSUME NEW k \in cut, NEW l \in cut PROVE k = l
    <3>1. PICK q \in DOMAIN file_data, s \in origin.streams : ReadAt(loaded[k], q, s)
        BY <2>1
    <3>2. PICK p \in DOMAIN file_data, r \in origin.streams : ReadAt(loaded[l], p, r)
        BY <2>1
    <3>3. /\ file_data[q] = Name(loaded[k].filename)
          /\ file_data[p] = Name(loaded[l].filename)
        BY <3>1, <3>2 DEF ReadAt, ListedAt
    <3>4. file_data[q].kind = "name" /\ file_data[p].kind = "name"
        BY <3>3, TokenFacts DEF Name
    <3>5. p <= q
        BY <2>4, <3>1, <3>4
    <3>6. q <= p
        BY <2>4, <3>2, <3>4
    <3>7. q = p
        BY <2>3, <3>5, <3>6
    <3>8. loaded[k].filename = loaded[l].filename
        BY <3>3, <3>7 DEF Name
    <3>9. QED
        BY <2>2, <3>8
  <2>6. Cardinality(cut) <= 1
    <3>1. CASE cut = {}
        BY <3>1, FS_EmptySet
    <3>2. CASE cut # {}
      <4>1. PICK k \in cut : TRUE
          BY <3>2
      <4>2. cut = {k}
          BY <2>5, <4>1
      <4> HIDE DEF cut
      <4>3. Cardinality({k}) = 1
          BY FS_Singleton
      <4>4. QED
          BY <4>2, <4>3
    <3>3. QED
        BY <3>1, <3>2
  <2>7. ASSUME NEW k \in cut
        PROVE  \E s \in origin.streams :
                /\ s.filename = loaded[k].filename
                /\ Len(s.iframe_offset) = Len(loaded[k].iframe_offset)
                /\ \A n \in DOMAIN s.iframe_offset :
                    loaded[k].iframe_offset[n] \in {0, s.iframe_offset[n]}
    <3>1. PICK q \in DOMAIN file_data, s \in origin.streams : ReadAt(loaded[k], q, s)
        BY <2>1
    <3>2. loaded[k].filename = s.filename /\ loaded[k].iframe_offset = ReadOffsets(q, s)
        BY <3>1 DEF ReadAt
    <3>3. Len(ReadOffsets(q, s)) = Len(s.iframe_offset)
        BY <2>3, OffsetsRead
    <3>4. \A n \in DOMAIN s.iframe_offset : ReadOffsets(q, s)[n] \in {0, s.iframe_offset[n]}
        BY DEF ReadOffsets
    <3>5. QED
        BY <3>2, <3>3, <3>4
  <2>8. QED
      BY <2>6, <2>7 DEF OnlyLastIsCut
<1>2. QED
    BY <1>1, InfoInvariant, PTL

\* What load_videos() wrote to the end, each write() whole, load_video() reads, as
\* long as nobody touches the video files and an unsigned short can count the
\* i-frames.
THEOREM WrittenIsRead == Spec => []RoundTrip
<1>1. IInv => RoundTrip
  <2> SUFFICES ASSUME IInv, loader = "loaded", origin.complete, changed = {},
                      Countable(origin.streams)
               PROVE  /\ { Stream(s.filename, s.iframe_offset) : s \in ToSet(loaded) }
                            = origin.streams
                      /\ Len(loaded) = Cardinality(origin.streams)
      BY DEF RoundTrip
  <2> DEFINE t == [k \in 1 .. Len(loaded) |->
                    Stream(loaded[k].filename, loaded[k].iframe_offset)]
  <2>t. file_data # Torn /\ ListLoaded
      BY LoadingAny
  <2>1. /\ \A k \in DOMAIN loaded :
            \E q \in DOMAIN file_data, s \in origin.streams : ReadAt(loaded[k], q, s)
        /\ \A k, l \in DOMAIN loaded : loaded[k].filename = loaded[l].filename => k = l
        /\ Len(loaded) = stream_num /\ stream_num = Cardinality(origin.streams)
      BY <2>t, LoadingAny DEF ListLoaded
  <2>2. /\ DOMAIN loaded = 1 .. Len(loaded) /\ Len(loaded) \in Nat
        /\ origin.streams \subseteq Streams /\ Whole(file_data, origin.streams)
      BY <2>t, Loading
  <2>3. ASSUME NEW k \in 1 .. Len(loaded)
        PROVE  t[k] \in origin.streams
    <3>1. PICK q \in DOMAIN file_data, s \in origin.streams : ReadAt(loaded[k], q, s)
        BY <2>1, <2>2
    <3>2. loaded[k].iframe_offset = s.iframe_offset /\ loaded[k].filename = s.filename
        BY <2>t, <3>1, CompleteFits DEF ReadAt
    <3>3. s = Stream(s.filename, s.iframe_offset)
        BY <2>2, StreamFacts
    <3>4. QED
        BY <3>2, <3>3
  <2>4. \A k, l \in 1 .. Len(loaded) : t[k] = t[l] => k = l
      BY <2>1, <2>2 DEF Stream
  <2>5. { Stream(s.filename, s.iframe_offset) : s \in ToSet(loaded) } = ToSet(t)
      BY <2>2 DEF ToSet
  <2> HIDE DEF t
  <2>6. t \in Seq(origin.streams) /\ Len(t) = Len(loaded) /\ DOMAIN t = 1 .. Len(loaded)
    <3>1. t \in [1 .. Len(loaded) -> origin.streams]
        BY <2>3 DEF t
    <3>2. QED
        BY <2>2, <3>1
  <2>7. Cardinality(ToSet(t)) = Len(loaded)
      BY <2>4, <2>6, CountOnce
  <2>8. ToSet(t) \subseteq origin.streams /\ IsFiniteSet(origin.streams)
      BY <2>2, <2>6 DEF ToSet, Whole
  <2>9. ToSet(t) = origin.streams
      BY <2>1, <2>7, <2>8, FS_Subset
  <2>10. QED
      BY <2>1, <2>5, <2>9
<1>2. QED
    BY <1>1, InfoInvariant, PTL

\* Every round of the loop of load_video() brings it closer to its end, whatever
\* is in the info file.
THEOREM ReaderProgresses == Spec => LoadProgress
<1>1. ASSUME IInv, MissingFile \/ AddStream \/ TornStream
      PROVE  stream_num' - Len(loaded') < stream_num - Len(loaded)
  <2>1. loader \in {"loop", "data"}
      BY <1>1 DEF MissingFile, AddStream, TornStream
  <2>2. stream_num \in Nat /\ loaded \in Seq(LoadedStreams) /\ Len(loaded) \in Nat
      BY <1>1, <2>1, LoadingAny
  <2>3. \/ stream_num' = stream_num - 1 /\ loaded' = loaded
        \/ stream_num' = stream_num /\ \E l : loaded' = Append(loaded, l)
      BY <1>1 DEF MissingFile, AddStream, TornStream, NotWellFormed
  <2>4. \A l : Len(Append(loaded, l)) = Len(loaded) + 1
      BY <2>2
  <2>5. QED
      BY <2>2, <2>3, <2>4
<1>2. IInv /\ [Next]_vars =>
        [MissingFile \/ AddStream \/ TornStream
            => stream_num' - Len(loaded') < stream_num - Len(loaded)]_vars
    BY <1>1
<1>3. QED
    BY <1>2, InfoInvariant, PTL DEF Spec, LoadProgress
=============================================================================
