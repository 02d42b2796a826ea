--------------------------- MODULE RequestProofs ---------------------------
(***************************************************************************)
(* Proofs about Request, for every set of texts, names and files and every *)
(* width of the lengths: what the helpers of common.c cut out of a string, *)
(* that the parameters are those that the client wrote, and that a file is *)
(* sent whole, or one version of it.                                       *)
(***************************************************************************)
EXTENDS Request, NatLemmas

-----------------------------------------------------------------------------
(* The helpers of common.c.                                                *)

\* The first token is where it is found, and no other is before it.
LEMMA FirstFound ==
    ASSUME NEW str \in Seq(AnyToken), NEW tokens, NEW from \in Nat \ {0}
    PROVE  /\ FirstAt(str, tokens, from) \in 1 .. Len(str) + 1
           /\ FirstAt(str, tokens, from) <= Len(str) =>
                /\ from <= FirstAt(str, tokens, from)
                /\ str[FirstAt(str, tokens, from)] \in tokens
           /\ \A q \in from .. Len(str) :
                str[q] \in tokens => FirstAt(str, tokens, from) <= q
<1> DEFINE hits == { q \in from .. Len(str) : str[q] \in tokens }
<1>1. FirstAt(str, tokens, from) = IF hits = {} THEN Len(str) + 1 ELSE Min(hits)
    BY DEF FirstAt
<1>2. hits \subseteq Nat /\ Len(str) \in Nat
    OBVIOUS
<1>3. CASE hits = {}
    BY <1>1, <1>2, <1>3
<1>4. CASE hits # {}
  <2>1. Min(hits) \in hits /\ \A q \in hits : Min(hits) <= q
      BY <1>2, <1>4, MinOfSet
  <2>2. QED
      BY <1>1, <1>2, <1>4, <2>1
<1>5. QED
    BY <1>3, <1>4

\* All that get_valid_substr_len() counts is valid, and what follows is not.
LEMMA ValidCounted ==
    ASSUME NEW str \in Seq(AnyToken), NEW valid
    PROVE  /\ get_valid_substr_len(str, valid) \in 0 .. Len(str)
           /\ \A q \in 1 .. get_valid_substr_len(str, valid) : str[q] \in valid
           /\ get_valid_substr_len(str, valid) < Len(str) =>
                str[get_valid_substr_len(str, valid) + 1] \notin valid
<1> DEFINE bad == { q \in DOMAIN str : str[q] \notin valid }
<1>1. get_valid_substr_len(str, valid) = IF bad = {} THEN Len(str) ELSE Min(bad) - 1
    BY DEF get_valid_substr_len
<1>2. bad \subseteq Nat /\ Len(str) \in Nat /\ DOMAIN str = 1 .. Len(str)
    OBVIOUS
<1>3. CASE bad = {}
    BY <1>1, <1>2, <1>3
<1>4. CASE bad # {}
  <2>1. Min(bad) \in bad /\ \A q \in bad : Min(bad) <= q
      BY <1>2, <1>4, MinOfSet
  <2>2. PICK b \in bad : b = Min(bad) /\ \A q \in bad : b <= q
      BY <2>1
  <2>3. /\ b \in 1 .. Len(str) /\ str[b] \notin valid
        /\ \A q \in 1 .. b - 1 : str[q] \in valid
    <3>1. \A q \in 1 .. Len(str) : q \in bad <=> str[q] \notin valid
        BY <1>2
    <3>2. bad \subseteq 1 .. Len(str)
        BY <1>2
    <3> HIDE DEF bad
    <3>3. b \in 1 .. Len(str)
        BY <2>2, <3>2
    <3>4. QED
        BY <1>2, <2>2, <3>1, <3>3
  <2>4. get_valid_substr_len(str, valid) = b - 1 /\ b - 1 + 1 = b
      BY <1>1, <1>4, <2>2
  <2>5. QED
      BY <1>2, <2>3, <2>4
<1>5. QED
    BY <1>3, <1>4

\* find_vector_first() finds a name, and only names.
LEMMA NameFound ==
    ASSUME NEW word
    PROVE  /\ find_vector_first(word) \in 0 .. 7
           /\ find_vector_first(word) > 0 =>
                word \in Range(request_names) /\ request_names[find_vector_first(word)] = word
<1>1. CASE word \in Range(request_names)
  <2>1. PICK n \in DOMAIN request_names : request_names[n] = word
      BY <1>1 DEF Range
  <2>2. /\ find_vector_first(word) \in DOMAIN request_names
        /\ request_names[find_vector_first(word)] = word
      BY <1>1, <2>1 DEF find_vector_first
  <2>3. DOMAIN request_names = 1 .. 7
      BY DEF request_names
  <2>4. QED
      BY <1>1, <2>2, <2>3
<1>2. CASE word \notin Range(request_names)
    BY <1>2 DEF find_vector_first
<1>3. QED
    BY <1>1, <1>2

\* The names, and those of files.
LEMMA NamesListed ==
    /\ Range(request_names) = {"crossdomain.xml", "data.xml", "intro.swf", "player.swf",
                                "robots.txt", "sfMovie.js", "stream"}
    /\ Range(files_supported) = {"crossdomain.xml", "data.xml", "intro.swf", "player.swf",
                                  "robots.txt", "sfMovie.js"}
<1>1. \A n \in 1 .. 7 : n = 1 \/ n = 2 \/ n = 3 \/ n = 4 \/ n = 5 \/ n = 6 \/ n = 7
    OBVIOUS
<1>2. Len(request_names) = 7 /\ DOMAIN request_names = 1 .. 7
    BY DEF request_names
<1>3. /\ request_names[1] = "crossdomain.xml" /\ request_names[2] = "data.xml"
      /\ request_names[3] = "intro.swf" /\ request_names[4] = "player.swf"
      /\ request_names[5] = "robots.txt" /\ request_names[6] = "sfMovie.js"
      /\ request_names[7] = "stream"
    BY DEF request_names
<1>4. Range(request_names) = { request_names[n] : n \in 1 .. 7 }
    BY <1>2 DEF Range
<1>5. /\ DOMAIN files_supported = 1 .. 6
      /\ \A n \in 1 .. 6 : files_supported[n] = request_names[n]
    BY <1>2 DEF files_supported, request_names
<1>6. Range(files_supported) = { request_names[n] : n \in 1 .. 6 }
    BY <1>5 DEF Range
<1>7. QED
    BY <1>1, <1>3, <1>4, <1>6

\* The names of the files, by their positions: all but the last are sent.
LEMMA FilesNamed ==
    ASSUME NEW word
    PROVE  /\ word \in Range(files_supported) <=> word \in Range(request_names) /\ word # "stream"
           /\ check_supported_file(word) => word \in Range(files_supported) /\ word # "sfMovie.js"
           /\ word \in Range(files_supported) /\ ~check_supported_file(word)
                => word = "sfMovie.js"
<1>1. /\ Range(request_names) = {"crossdomain.xml", "data.xml", "intro.swf", "player.swf",
                                 "robots.txt", "sfMovie.js", "stream"}
      /\ Range(files_supported) = {"crossdomain.xml", "data.xml", "intro.swf", "player.swf",
                                   "robots.txt", "sfMovie.js"}
    BY NamesListed
<1>2. find_vector_first(word) \in 0 .. 7
    BY NameFound
<1>3. /\ request_names[1] = "crossdomain.xml" /\ request_names[2] = "data.xml"
      /\ request_names[3] = "intro.swf" /\ request_names[4] = "player.swf"
      /\ request_names[5] = "robots.txt" /\ request_names[6] = "sfMovie.js"
      /\ request_names[7] = "stream"
    BY DEF request_names
<1>4. check_supported_file(word) => word \in Range(files_supported) /\ word # "sfMovie.js"
  <2>1. ASSUME check_supported_file(word)
        PROVE  word \in Range(files_supported) /\ word # "sfMovie.js"
    <3>1. /\ find_vector_first(word) \in 1 .. 5
          /\ request_names[find_vector_first(word)] = word
        BY <2>1, NameFound DEF check_supported_file
    <3>2. \A n \in 1 .. 5 : n = 1 \/ n = 2 \/ n = 3 \/ n = 4 \/ n = 5
        OBVIOUS
    <3>3. QED
        BY <1>1, <1>3, <3>1, <3>2
  <2>2. QED
      BY <2>1
<1>5. word \in Range(files_supported) /\ ~check_supported_file(word) => word = "sfMovie.js"
  <2>1. ASSUME word \in Range(files_supported), word # "sfMovie.js"
        PROVE  check_supported_file(word)
    <3>1. /\ find_vector_first(word) \in DOMAIN request_names
          /\ request_names[find_vector_first(word)] = word
      <4>1. word \in Range(request_names)
          BY <1>1, <2>1
      <4>2. \E n \in DOMAIN request_names : request_names[n] = word
          BY <4>1 DEF Range
      <4>3. QED
          BY <4>1, <4>2 DEF find_vector_first
    <3>2. find_vector_first(word) \notin {0, 6, 7}
      <4>1. 0 \notin DOMAIN request_names
          BY DEF request_names
      <4>2. QED
          BY <1>1, <1>3, <2>1, <3>1, <4>1
    <3>3. QED
        BY <1>2, <3>2 DEF check_supported_file
  <2>2. QED
      BY <2>1
<1>6. QED
    BY <1>1, <1>4, <1>5

\* The beginning of a string, token by token.
LEMMA Beginning ==
    ASSUME NEW S, NEW str \in Seq(S), NEW a \in Nat \ {0}, NEW b \in 0 .. Len(str)
    PROVE  /\ SubSeq(str, a, b) \in Seq(S)
           /\ Len(SubSeq(str, a, b)) = IF a <= b THEN b - a + 1 ELSE 0
           /\ \A q \in 1 .. Len(SubSeq(str, a, b)) : SubSeq(str, a, b)[q] = str[a + q - 1]
OBVIOUS

\* Two strings of the same tokens are the same.
LEMMA SameString ==
    ASSUME NEW S, NEW str \in Seq(S), NEW T, NEW other \in Seq(T), Len(str) = Len(other),
           \A q \in 1 .. Len(str) : str[q] = other[q]
    PROVE  str = other
OBVIOUS

\* One string after another.
LEMMA Concatenation ==
    ASSUME NEW S, NEW str \in Seq(S), NEW other \in Seq(S)
    PROVE  /\ str \o other \in Seq(S)
           /\ Len(str \o other) = Len(str) + Len(other)
           /\ \A q \in 1 .. Len(str) : (str \o other)[q] = str[q]
           /\ \A q \in Len(str) + 1 .. Len(str) + Len(other) :
                (str \o other)[q] = other[q - Len(str)]
OBVIOUS

-----------------------------------------------------------------------------
(* parse_key_value().                                                      *)

\* Where the key is found, the value is the longest clean beginning of what
\* follows it, up to the next pair, that is shorter than the buffer.
LEMMA ValueCut ==
    ASSUME NEW str \in Seq(AnyToken), NEW k \in req_param_names,
           FirstAt(str, {k}, 1) < Len(str), str[FirstAt(str, {k}, 1) + 1] = "="
    PROVE  \E n \in 0 .. ParamMaxLen - 1 :
             /\ FirstAt(str, {k}, 1) + 1 + n <= Len(str)
             /\ parse_key_value(str)[k] =
                  SubSeq(str, FirstAt(str, {k}, 1) + 2, FirstAt(str, {k}, 1) + 1 + n)
             /\ \A q \in 1 .. n : str[FirstAt(str, {k}, 1) + 1 + q] \in Alnum \cup {"="}
             /\ n < ParamMaxLen - 1 /\ FirstAt(str, {k}, 1) + 1 + n < Len(str)
                  => str[FirstAt(str, {k}, 1) + 1 + n + 1] \notin Alnum \cup {"="}
<1> DEFINE key == FirstAt(str, {k}, 1)
           amp == FirstAt(str, {"&"}, key)
           value_len == Least(amp - (key + 1), ParamMaxLen)
           value == SubSeq(str, key + 2, key + value_len)
           valid == Alnum \cup {"=", "&"}
           n == get_valid_substr_len(value, valid)
<1>1. parse_key_value(str)[k] = SubSeq(value, 1, n)
    BY DEF parse_key_value
<1>2. ParamMaxLen \in Nat \ {0} /\ Len(str) \in Nat
  <2>1. ParamMaxLen \in Nat \ {0}
      BY RequestAssumption
  <2>2. QED
      BY <2>1
<1>3. key \in 1 .. Len(str) - 1 /\ str[key] = k /\ str[key + 1] = "="
    BY FirstFound
<1> HIDE DEF key
<1>4. /\ amp \in key + 2 .. Len(str) + 1
      /\ \A q \in key + 2 .. amp - 1 : str[q] # "&"
      /\ amp <= Len(str) => str[amp] = "&"
  <2>1. /\ amp \in 1 .. Len(str) + 1
        /\ amp <= Len(str) => key <= amp /\ str[amp] = "&"
        /\ \A q \in key .. Len(str) : str[q] = "&" => amp <= q
      BY <1>3, FirstFound
  <2>2. k # "&"
      BY DEF req_param_names
  <2> HIDE DEF amp
  <2>3. amp # key /\ amp # key + 1
      BY <1>2, <1>3, <2>1, <2>2
  <2>4. amp \in key + 2 .. Len(str) + 1
      BY <1>2, <1>3, <2>1, <2>3
  <2>5. \A q \in key + 2 .. amp - 1 : str[q] # "&"
      BY <1>2, <1>3, <2>1, <2>4
  <2>6. QED
      BY <2>1, <2>4, <2>5
<1> HIDE DEF amp
<1>5. value_len \in 1 .. ParamMaxLen /\ key + value_len <= amp - 1
      /\ (value_len < ParamMaxLen => key + value_len = amp - 1)
    BY <1>2, <1>3, <1>4 DEF Least
<1> HIDE DEF value_len
<1>6. key + 2 \in Nat \ {0} /\ key + value_len \in 0 .. Len(str)
    BY <1>2, <1>3, <1>4, <1>5
<1>7. /\ value \in Seq(AnyToken)
      /\ Len(value) = value_len - 1
      /\ \A q \in 1 .. Len(value) : value[q] = str[key + 1 + q]
  <2>1. PICK a \in Nat \ {0}, b \in 0 .. Len(str) : a = key + 2 /\ b = key + value_len
      BY <1>6
  <2>2. value = SubSeq(str, a, b)
      BY <2>1
  <2> HIDE DEF value
  <2>3. /\ value \in Seq(AnyToken)
        /\ Len(value) = IF a <= b THEN b - a + 1 ELSE 0
        /\ \A q \in 1 .. Len(value) : value[q] = str[a + q - 1]
      BY <2>2, Beginning
  <2>4. Len(value) = value_len - 1
      BY <1>3, <1>5, <2>1, <2>3
  <2>5. \A q \in 1 .. Len(value) : a + q - 1 = key + 1 + q
      BY <1>3, <1>5, <2>1, <2>4
  <2>6. \A q \in 1 .. Len(value) : value[q] = str[key + 1 + q]
      BY <2>3, <2>5
  <2>7. QED
      BY <2>3, <2>4, <2>6
<1> HIDE DEF value
<1>8. /\ n \in 0 .. Len(value)
      /\ \A q \in 1 .. n : value[q] \in valid
      /\ n < Len(value) => value[n + 1] \notin valid
    BY <1>7, ValidCounted
<1> HIDE DEF n, valid
<1>9. n \in 0 .. ParamMaxLen - 1 /\ n \in 0 .. Len(value) /\ key + 1 + n <= amp - 1
      /\ key + 1 + n <= Len(str)
    BY <1>2, <1>3, <1>4, <1>5, <1>7, <1>8
<1>10. SubSeq(value, 1, n) = SubSeq(str, key + 2, key + 1 + n)
  <2>1. /\ SubSeq(value, 1, n) \in Seq(AnyToken) /\ Len(SubSeq(value, 1, n)) = n
        /\ \A q \in 1 .. n : SubSeq(value, 1, n)[q] = value[q]
      BY <1>7, <1>9
  <2>2. PICK a \in Nat \ {0}, b \in 0 .. Len(str) : a = key + 2 /\ b = key + 1 + n
      BY <1>2, <1>3, <1>9
  <2>3. /\ SubSeq(str, a, b) \in Seq(AnyToken)
        /\ Len(SubSeq(str, a, b)) = IF a <= b THEN b - a + 1 ELSE 0
        /\ \A q \in 1 .. Len(SubSeq(str, a, b)) : SubSeq(str, a, b)[q] = str[a + q - 1]
      BY Beginning
  <2>4. Len(SubSeq(str, a, b)) = n
      BY <1>3, <1>9, <2>2, <2>3
  <2>5. \A q \in 1 .. n : a + q - 1 = key + 1 + q /\ q \in 1 .. Len(value)
      BY <1>3, <1>9, <2>2
  <2>6. \A q \in 1 .. n : SubSeq(str, a, b)[q] = value[q]
      BY <1>7, <2>3, <2>4, <2>5
  <2>7. SubSeq(value, 1, n) = SubSeq(str, a, b)
      BY <2>1, <2>3, <2>4, <2>6, SameString
  <2>8. QED
      BY <2>2, <2>7
<1>11. \A q \in 1 .. n : str[key + 1 + q] \in Alnum \cup {"="}
  <2> TAKE q \in 1 .. n
  <2>1. key + 1 + q \in key + 2 .. amp - 1 /\ q \in 1 .. Len(value)
      BY <1>3, <1>4, <1>9
  <2>2. str[key + 1 + q] = value[q] /\ value[q] \in valid /\ str[key + 1 + q] # "&"
      BY <1>4, <1>7, <1>8, <2>1
  <2>3. QED
      BY <2>2 DEF valid
<1>12. n < ParamMaxLen - 1 /\ key + 1 + n < Len(str)
         => str[key + 1 + n + 1] \notin Alnum \cup {"="}
  <2> SUFFICES ASSUME n < ParamMaxLen - 1, key + 1 + n < Len(str)
               PROVE  str[key + 1 + n + 1] \notin Alnum \cup {"="}
      OBVIOUS
  <2>1. CASE n < Len(value)
    <3>1. n + 1 \in 1 .. Len(value) /\ key + 1 + n + 1 = key + 1 + (n + 1)
        BY <1>3, <1>7, <1>8, <2>1
    <3>2. value[n + 1] = str[key + 1 + (n + 1)]
        BY <1>7, <3>1
    <3>3. str[key + 1 + n + 1] \notin valid
        BY <1>8, <2>1, <3>1, <3>2
    <3>4. QED
        BY <3>3 DEF valid
  <2>2. CASE n = Len(value)
    <3>1. key + 1 + n + 1 = amp /\ amp <= Len(str)
        BY <1>2, <1>3, <1>4, <1>5, <1>7, <2>2
    <3>2. "&" \notin Alnum \cup {"="}
        BY RequestAssumption
    <3>3. QED
        BY <1>4, <3>1, <3>2
  <2>3. QED
      BY <1>7, <1>8, <2>1, <2>2
<1>13. QED
    BY <1>1, <1>9, <1>10, <1>11, <1>12 DEF key

\* A key without a value has none, wherever the text was cut.
LEMMA NoValue ==
    ASSUME NEW str, NEW k \in req_param_names,
           ~(FirstAt(str, {k}, 1) < Len(str) /\ str[FirstAt(str, {k}, 1) + 1] = "=")
    PROVE  parse_key_value(str)[k] = NULL
BY DEF parse_key_value

\* Values are short and clean, whatever the text.
LEMMA CleanValues ==
    ASSUME NEW str \in Seq(AnyToken)
    PROVE  /\ parse_key_value(str) \in [req_param_names -> Seq(AnyToken) \cup {NULL}]
           /\ \A k \in req_param_names : parse_key_value(str)[k] # NULL =>
                /\ Len(parse_key_value(str)[k]) < ParamMaxLen
                /\ Range(parse_key_value(str)[k]) \subseteq Alnum \cup {"="}
<1>1. ASSUME NEW k \in req_param_names, parse_key_value(str)[k] # NULL
      PROVE  /\ parse_key_value(str)[k] \in Seq(AnyToken)
             /\ Len(parse_key_value(str)[k]) < ParamMaxLen
             /\ Range(parse_key_value(str)[k]) \subseteq Alnum \cup {"="}
  <2> DEFINE key == FirstAt(str, {k}, 1)
  <2>1. key < Len(str) /\ str[key + 1] = "="
      BY <1>1, NoValue
  <2>2. key \in 1 .. Len(str) - 1
      BY <2>1, FirstFound
  <2>3. PICK n \in 0 .. ParamMaxLen - 1 :
          /\ key + 1 + n <= Len(str)
          /\ parse_key_value(str)[k] = SubSeq(str, key + 2, key + 1 + n)
          /\ \A q \in 1 .. n : str[key + 1 + q] \in Alnum \cup {"="}
      BY <2>1, ValueCut
  <2> HIDE DEF key
  <2> DEFINE cut == SubSeq(str, key + 2, key + 1 + n)
  <2>4. /\ cut \in Seq(AnyToken) /\ Len(cut) = n
        /\ \A q \in 1 .. n : cut[q] = str[key + 1 + q]
      BY <2>2, <2>3
  <2> HIDE DEF cut
  <2>5. \A q \in 1 .. n : cut[q] \in Alnum \cup {"="}
      BY <2>2, <2>3, <2>4
  <2>6. ParamMaxLen \in Nat \ {0}
      BY RequestAssumption
  <2>7. Range(cut) \subseteq Alnum \cup {"="}
      BY <2>4, <2>5 DEF Range
  <2>8. QED
      BY <2>3, <2>4, <2>6, <2>7 DEF cut
<1>2. parse_key_value(str) \in [req_param_names -> Seq(AnyToken) \cup {NULL}]
  <2>1. parse_key_value(str) = [k \in req_param_names |-> parse_key_value(str)[k]]
      BY DEF parse_key_value
  <2>2. QED
      BY <1>1, <2>1
<1>3. QED
    BY <1>1, <1>2

\* The largest element of a set that is known to have one.
LEMMA MaxIs ==
    ASSUME NEW T, T \subseteq Int, NEW n \in T, \A y \in T : n >= y
    PROVE  Max(T) = n
<1>1. \A x \in T : (\A y \in T : x >= y) => x = n
    OBVIOUS
<1>2. Max(T) \in T /\ \A y \in T : Max(T) >= y
    BY DEF Max
<1>3. QED
    BY <1>1, <1>2

\* In a proper query each parameter is what the client wrote after its key.
LEMMA WrittenValue ==
    ASSUME NEW str \in Seq(AnyToken), ProperQuery(str), NEW k \in req_param_names
    PROVE  parse_key_value(str)[k] = ValueOf(str, k)
<1> DEFINE key == FirstAt(str, {k}, 1)
           pairs == { i \in 1 .. Len(str) - 1 : str[i] = k /\ str[i + 1] = "=" }
           clean(i, n) == \A j \in i + 2 .. i + 1 + n : str[j] \in Alnum \cup {"="}
           lens(i) == { n \in 0 .. ParamMaxLen - 1 : i + 1 + n <= Len(str) /\ clean(i, n) }
<1>1. ValueOf(str, k) = IF pairs = {} THEN NULL
                        ELSE SubSeq(str, Min(pairs) + 2, Min(pairs) + 1 + Max(lens(Min(pairs))))
    BY DEF ValueOf
<1>2. Len(str) \in Nat /\ DOMAIN str = 1 .. Len(str)
    OBVIOUS
<1>3. \A i \in pairs : i = key
  <2> TAKE i \in pairs
  <2>1. i \in 1 .. Len(str) - 1 /\ str[i] = k
      OBVIOUS
  <2>2. key \in 1 .. Len(str) /\ str[key] = k
    <3>1. /\ key \in 1 .. Len(str) + 1 /\ (key <= Len(str) => str[key] = k)
          /\ \A q \in 1 .. Len(str) : str[q] = k => key <= q
        BY FirstFound
    <3> HIDE DEF key
    <3>2. QED
        BY <1>2, <2>1, <3>1
  <2>3. QED
      BY <1>2, <2>1, <2>2 DEF ProperQuery
<1>4. CASE ~(key < Len(str) /\ str[key + 1] = "=")
  <2>1. pairs = {}
      BY <1>2, <1>3, <1>4
  <2>2. parse_key_value(str)[k] = NULL
      BY <1>4, NoValue
  <2>3. QED
      BY <1>1, <2>1, <2>2
<1>5. CASE key < Len(str) /\ str[key + 1] = "="
  <2>1. key \in 1 .. Len(str) - 1 /\ str[key] = k
      BY <1>5, FirstFound
  <2>2. PICK n \in 0 .. ParamMaxLen - 1 :
          /\ key + 1 + n <= Len(str)
          /\ parse_key_value(str)[k] = SubSeq(str, key + 2, key + 1 + n)
          /\ \A q \in 1 .. n : str[key + 1 + q] \in Alnum \cup {"="}
          /\ n < ParamMaxLen - 1 /\ key + 1 + n < Len(str)
               => str[key + 1 + n + 1] \notin Alnum \cup {"="}
      BY <1>5, ValueCut
  <2> HIDE DEF key
  <2>3. pairs = {key}
      BY <1>3, <1>5, <2>1
  <2>4. Min(pairs) = key
    <3>1. pairs \subseteq Nat /\ pairs # {}
        BY <2>3
    <3>2. Min(pairs) \in pairs
        BY <3>1, MinOfSet
    <3>3. QED
        BY <2>3, <3>2
  <2>5. n \in lens(key)
    <3>1. \A j \in key + 2 .. key + 1 + n : j - (key + 1) \in 1 .. n /\ key + 1 + (j - (key + 1)) = j
        BY <2>1
    <3>2. clean(key, n)
        BY <2>2, <3>1
    <3>3. QED
        BY <2>2, <3>2
  <2>6. \A m \in lens(key) : n >= m
    <3> SUFFICES ASSUME NEW m \in lens(key), m > n
                 PROVE  FALSE
        BY <2>2
    <3>1. m \in 0 .. ParamMaxLen - 1 /\ key + 1 + m <= Len(str) /\ clean(key, m)
        OBVIOUS
    <3>2. ParamMaxLen \in Nat
        BY RequestAssumption
    <3>3. n < ParamMaxLen - 1 /\ key + 1 + n < Len(str) /\ key + 1 + n + 1 \in key + 2 .. key + 1 + m
        BY <1>2, <2>1, <2>2, <3>1, <3>2
    <3>4. QED
        BY <2>2, <3>1, <3>3
  <2>7. Max(lens(key)) = n
    <3>1. lens(key) \subseteq Int
        OBVIOUS
    <3> HIDE DEF lens
    <3>2. QED
        BY <2>5, <2>6, <3>1, MaxIs
  <2>8. QED
      BY <1>1, <2>2, <2>3, <2>4, <2>7
<1>6. QED
    BY <1>4, <1>5

\* What recv() returned begins the text that was sent.
LEMMA PartOfText ==
    ASSUME TextInv
    PROVE  /\ sent \in Seq(AnyToken) /\ input \in Seq(AnyToken)
           /\ Len(sent) < UshortRange /\ UshortRange \in Nat
           /\ Len(input) <= Len(sent)
           /\ \A q \in 1 .. Len(input) : input[q] = sent[q]
<1>1. sent \in Seq(AnyToken) /\ Len(sent) < UshortRange /\ UshortRange \in Nat
  <2>1. UshortRange \in Nat \ {0}
      BY RequestAssumption
  <2>2. CASE sent = <<>>
      BY <2>1, <2>2
  <2>3. CASE sent \in Inputs
      BY <2>1, <2>3, RequestAssumption
  <2>4. QED
      BY <2>2, <2>3 DEF TextInv
<1>2. PICK n \in 0 .. Len(sent) : input = SubSeq(sent, 1, n)
    BY DEF TextInv
<1>3. /\ input \in Seq(AnyToken) /\ Len(input) = n
      /\ \A q \in 1 .. Len(input) : input[q] = sent[q]
    BY <1>1, <1>2
<1>4. QED
    BY <1>1, <1>2, <1>3

\* parse_request() finds the query that the client wrote, if its line is there.
LEMMA QueryFound ==
    ASSUME TextInv, KnownType,
           Len(sent) > 3, sent[2] \in Range(request_names), sent[3] = "?",
           FirstAt(sent, {"SP"}, 2) < FirstAt(sent, {"CR"}, 2), Query(sent) # <<>>
    PROVE  params' = parse_key_value(Query(sent)) /\ Query(sent) \in Seq(AnyToken)
<1> DEFINE space == FirstAt(sent, {"SP"}, 2)
           cr == FirstAt(input, {"CR"}, 1)
<1>1. /\ sent \in Seq(AnyToken) /\ input \in Seq(AnyToken)
      /\ Len(sent) \in Nat /\ Len(input) \in Nat
      /\ Len(sent) < UshortRange /\ UshortRange \in Nat
      /\ Len(input) <= Len(sent)
      /\ \A q \in 1 .. Len(input) : input[q] = sent[q]
    BY PartOfText
<1>2. cr \in 2 .. Len(input) - 1 /\ sent[cr] = "CR"
  <2>1. input[1] = "GET" /\ cr < Len(input)
      BY DEF KnownType, WellFormed
  <2>2. cr \in 1 .. Len(input) + 1 /\ (cr <= Len(input) => input[cr] = "CR")
      BY <1>1, FirstFound
  <2> HIDE DEF cr
  <2>3. QED
      BY <1>1, <2>1, <2>2
<1>3. space \in 5 .. cr - 1
  <2>1. space < cr
    <3>1. \A q \in 2 .. Len(sent) : sent[q] = "CR" => FirstAt(sent, {"CR"}, 2) <= q
        BY <1>1, FirstFound
    <3>2. FirstAt(sent, {"CR"}, 2) <= cr /\ FirstAt(sent, {"CR"}, 2) \in Nat
      <4>1. FirstAt(sent, {"CR"}, 2) \in Nat
          BY <1>1, FirstFound
      <4> HIDE DEF cr
      <4>2. QED
          BY <1>1, <1>2, <3>1, <4>1
    <3>3. space \in Nat
        BY <1>1, FirstFound
    <3> HIDE DEF cr, space
    <3>4. QED
        BY <1>2, <3>2, <3>3 DEF space
  <2>2. space \in 1 .. Len(sent) + 1 /\ (space <= Len(sent) => 2 <= space /\ sent[space] = "SP")
      BY <1>1, FirstFound
  <2>3. sent[2] # "SP"
      BY NamesListed
  <2>4. Query(sent) = SubSeq(sent, 4, space - 1)
      BY DEF Query
  <2> HIDE DEF cr, space
  <2>5. space \in 4 .. cr - 1
      BY <1>1, <1>2, <2>1, <2>2, <2>3
  <2>6. space # 4
      BY <1>1, <2>4
  <2>7. QED
      BY <2>5, <2>6
<1>4. FirstAt(input, {"SP"}, 2) = space
  <2> DEFINE other == FirstAt(input, {"SP"}, 2)
  <2>1. /\ other \in 1 .. Len(input) + 1
        /\ (other <= Len(input) => 2 <= other /\ input[other] = "SP")
        /\ \A q \in 2 .. Len(input) : input[q] = "SP" => other <= q
      BY <1>1, FirstFound
  <2>2. /\ space <= Len(sent) => sent[space] = "SP"
        /\ \A q \in 2 .. Len(sent) : sent[q] = "SP" => space <= q
      BY <1>1, FirstFound
  <2> HIDE DEF cr, space, other
  <2>3. other <= space
      BY <1>1, <1>2, <1>3, <2>1, <2>2
  <2>4. space <= other
      BY <1>1, <1>2, <1>3, <2>1, <2>2, <2>3
  <2>5. QED
      BY <1>2, <1>3, <2>1, <2>3, <2>4 DEF other
<1> HIDE DEF cr, space
<1>5. PathLens = {space - 2}
    BY <1>1, <1>2, <1>3, <1>4 DEF PathLens
<1>6. (space - 2 - 2) % UshortRange = space - 4
  <2>1. space - 4 \in Nat /\ space - 4 < UshortRange /\ space - 2 - 2 = space - 4
      BY <1>1, <1>2, <1>3
  <2>2. QED
      BY <1>1, <2>1, ModOfSmall
<1>7. Least(3 + (space - 4), Len(input)) = space - 1
    BY <1>1, <1>2, <1>3 DEF Least
<1>8. params' = parse_key_value(SubSeq(input, 4, space - 1))
    BY <1>5, <1>6, <1>7 DEF KnownType
<1>9. SubSeq(input, 4, space - 1) = SubSeq(sent, 4, space - 1)
      /\ SubSeq(sent, 4, space - 1) \in Seq(AnyToken)
  <2>1. PICK b \in 4 .. Len(input) : b = space - 1
      BY <1>1, <1>2, <1>3
  <2>2. /\ SubSeq(input, 4, b) \in Seq(AnyToken) /\ Len(SubSeq(input, 4, b)) = b - 3
        /\ \A q \in 1 .. b - 3 : SubSeq(input, 4, b)[q] = input[3 + q]
      BY <1>1, <2>1
  <2>3. /\ SubSeq(sent, 4, b) \in Seq(AnyToken) /\ Len(SubSeq(sent, 4, b)) = b - 3
        /\ \A q \in 1 .. b - 3 : SubSeq(sent, 4, b)[q] = sent[3 + q]
      BY <1>1, <2>1
  <2>4. \A q \in 1 .. b - 3 : SubSeq(input, 4, b)[q] = SubSeq(sent, 4, b)[q]
    <3>1. \A q \in 1 .. b - 3 : 3 + q \in 1 .. Len(input)
        BY <1>1, <2>1
    <3>2. QED
        BY <1>1, <2>2, <2>3, <3>1
  <2>5. SubSeq(input, 4, b) = SubSeq(sent, 4, b)
      BY <2>2, <2>3, <2>4, SameString
  <2>6. QED
      BY <2>1, <2>3, <2>5
<1>10. QED
    BY <1>8, <1>9 DEF Query, space

-----------------------------------------------------------------------------
(* The contents of files.                                                  *)

\* strlen() of what was read of a file: what the whole file has up to its first
\* NUL, or less.
LEMMA TextCut ==
    ASSUME NEW f \in Seq(AnyToken), NEW m \in 0 .. Len(f)
    PROVE  /\ CString(f) \in Seq(AnyToken) /\ CString(SubSeq(f, 1, m)) \in Seq(AnyToken)
           /\ Len(CString(SubSeq(f, 1, m))) <= Len(CString(f))
           /\ m = Len(f) => Len(CString(SubSeq(f, 1, m))) = Len(CString(f))
           /\ \A q \in 1 .. Len(CString(SubSeq(f, 1, m))) :
                CString(SubSeq(f, 1, m))[q] = CString(f)[q]
<1> DEFINE g == SubSeq(f, 1, m)
           a == FirstAt(f, {"NUL"}, 1)
           b == FirstAt(g, {"NUL"}, 1)
<1>1. /\ g \in Seq(AnyToken) /\ Len(g) = m /\ Len(f) \in Nat
      /\ \A q \in 1 .. m : g[q] = f[q]
    OBVIOUS
<1> HIDE DEF g
<1>2. /\ a \in 1 .. Len(f) + 1 /\ (a <= Len(f) => f[a] = "NUL")
      /\ \A q \in 1 .. Len(f) : f[q] = "NUL" => a <= q
    BY FirstFound
<1>3. /\ b \in 1 .. m + 1 /\ (b <= m => g[b] = "NUL")
      /\ \A q \in 1 .. m : g[q] = "NUL" => b <= q
    BY <1>1, FirstFound
<1>4. CString(f) = SubSeq(f, 1, a - 1) /\ CString(g) = SubSeq(g, 1, b - 1)
    BY DEF CString
<1> HIDE DEF a, b
<1>5. b <= a
  <2>1. CASE a <= m
      BY <1>1, <1>2, <1>3, <2>1
  <2>2. CASE a > m
      BY <1>1, <1>2, <1>3, <2>2
  <2>3. QED
      BY <1>1, <1>2, <2>1, <2>2
<1>6. m = Len(f) => b = a
    BY <1>1, <1>2, <1>3, <1>5
<1>7. /\ CString(f) \in Seq(AnyToken) /\ Len(CString(f)) = a - 1
      /\ \A q \in 1 .. a - 1 : CString(f)[q] = f[q]
    BY <1>1, <1>2, <1>4
<1>8. /\ CString(g) \in Seq(AnyToken) /\ Len(CString(g)) = b - 1
      /\ \A q \in 1 .. b - 1 : CString(g)[q] = g[q]
    BY <1>1, <1>3, <1>4
<1>9. \A q \in 1 .. b - 1 : CString(g)[q] = CString(f)[q]
    BY <1>1, <1>3, <1>5, <1>7, <1>8, <1>2
<1>10. QED
    BY <1>5, <1>6, <1>7, <1>8, <1>9, <1>2, <1>3 DEF g

\* The text with the name of the server in the place of the first SERVER_URL.
WithName(str) ==
    [n \in DOMAIN str |->
        IF n = FirstAt(str, {"SERVER_URL"}, 1) THEN "SERVER_NAME" ELSE str[n]]

LEMMA NameInPlace ==
    ASSUME NEW str \in Seq(AnyToken)
    PROVE  /\ WithName(str) \in Seq(AnyToken \cup {"SERVER_NAME"})
           /\ Len(WithName(str)) = Len(str)
           /\ \A q \in 1 .. Len(str) : WithName(str)[q] =
                IF q = FirstAt(str, {"SERVER_URL"}, 1) THEN "SERVER_NAME" ELSE str[q]
BY DEF WithName

\* find_and_replace() replaces one token and keeps the others, if no length
\* wraps around.
LEMMA Replaced ==
    ASSUME NEW str \in Seq(AnyToken), NEW out \in find_and_replace(str),
           \/ FirstAt(str, {"SERVER_URL"}, 1) > Len(str)
           \/ /\ FirstAt(str, {"SERVER_URL"}, 1) < UshortRange
              /\ Len(str) + 1 - FirstAt(str, {"SERVER_URL"}, 1) < UshortRange
    PROVE  out = WithName(str)
<1> DEFINE init == FirstAt(str, {"SERVER_URL"}, 1)
           All == AnyToken \cup {"SERVER_NAME"}
           head_len == init % UshortRange
           tail_len == (Len(str) + 1 - head_len - 1 + 1) % UshortRange
           rest == SubSeq(str, init + 1, Len(str))
<1>1. init \in 1 .. Len(str) + 1 /\ Len(str) \in Nat /\ UshortRange \in Nat \ {0}
    BY FirstFound, RequestAssumption
<1>2. /\ WithName(str) \in Seq(All) /\ Len(WithName(str)) = Len(str)
      /\ \A q \in 1 .. Len(str) : WithName(str)[q] = IF q = init THEN "SERVER_NAME" ELSE str[q]
    BY NameInPlace
<1>3. CASE init > Len(str)
  <2>1. out = str
      BY <1>3 DEF find_and_replace
  <2> HIDE DEF init
  <2>2. \A q \in 1 .. Len(str) : WithName(str)[q] = str[q]
      BY <1>1, <1>2, <1>3
  <2>3. QED
      BY <1>2, <2>1, <2>2, SameString
<1>4. CASE init <= Len(str)
  <2>1. PICK head \in Printed(str, head_len), tail \in Printed(rest, tail_len) :
            out = head \o <<"SERVER_NAME">> \o tail
    <3> DEFINE joined(head, tail) == head \o <<"SERVER_NAME">> \o tail
               parts == { joined(head, tail) :
                            head \in Printed(str, head_len), tail \in Printed(rest, tail_len) }
    <3>1. find_and_replace(str) = IF init > Len(str) THEN {str} ELSE parts
        BY DEF find_and_replace
    <3>2. ~(init > Len(str))
        BY <1>1, <1>4
    <3>3. out \in parts
      <4> HIDE DEF parts, init
      <4>1. QED
          BY <3>1, <3>2
    <3>4. \E head \in Printed(str, head_len), tail \in Printed(rest, tail_len) :
              out = joined(head, tail)
      <4> HIDE DEF joined, init, head_len, tail_len, rest
      <4>1. QED
          BY <3>3
    <3>5. QED
        BY <3>4
  <2>2. init < UshortRange /\ Len(str) + 1 - init < UshortRange
    <3>1. ~(init > Len(str))
        BY <1>1, <1>4
    <3>2. QED
        BY <3>1
  <2> HIDE DEF init
  <2>3. head_len = init
    <3>1. init \in Nat /\ UshortRange \in Nat /\ init < UshortRange
        BY <1>1, <2>2
    <3>2. QED
        BY <3>1, ModOfSmall
  <2>4. tail_len = Len(str) - init + 1
    <3>1. PICK n \in Nat : n = Len(str) - init + 1
        BY <1>1, <1>4
    <3>2. n < UshortRange /\ Len(str) + 1 - head_len - 1 + 1 = n
        BY <1>1, <2>2, <2>3, <3>1
    <3>3. n % UshortRange = n
        BY <1>1, <3>1, <3>2, ModOfSmall
    <3>4. QED
        BY <3>1, <3>2, <3>3
  <2> HIDE DEF head_len, tail_len
  <2>5. Printed(str, head_len) = {SubSeq(str, 1, init - 1)}
      BY <1>1, <2>3 DEF Printed
  <2>6. Printed(rest, tail_len) = {SubSeq(rest, 1, Len(str) - init)}
    <3>1. tail_len # 0 /\ tail_len - 1 = Len(str) - init
        BY <1>1, <1>4, <2>4
    <3>2. QED
        BY <3>1 DEF Printed
  <2>7. head = SubSeq(str, 1, init - 1) /\ tail = SubSeq(rest, 1, Len(str) - init)
      BY <2>5, <2>6
  <2>8. /\ head \in Seq(All) /\ Len(head) = init - 1
        /\ \A q \in 1 .. init - 1 : head[q] = str[q]
      BY <1>1, <1>4, <2>7
  <2>9. /\ rest \in Seq(AnyToken) /\ Len(rest) = Len(str) - init
        /\ \A q \in 1 .. Len(str) - init : rest[q] = str[init + q]
    <3>1. PICK a \in Nat \ {0} : a = init + 1
        BY <1>1
    <3>2. PICK b \in 0 .. Len(str) : b = Len(str)
        BY <1>1
    <3>3. rest = SubSeq(str, a, b)
        BY <3>1, <3>2
    <3> HIDE DEF rest
    <3>4. /\ rest \in Seq(AnyToken) /\ Len(rest) = IF a <= b THEN b - a + 1 ELSE 0
          /\ \A q \in 1 .. Len(rest) : rest[q] = str[a + q - 1]
        BY <3>3, Beginning
    <3>5. Len(rest) = Len(str) - init
        BY <1>1, <1>4, <3>1, <3>2, <3>4
    <3>6. \A q \in 1 .. Len(str) - init : a + q - 1 = init + q
        BY <1>1, <3>1
    <3>7. QED
        BY <3>4, <3>5, <3>6
  <2> HIDE DEF rest
  <2>10. /\ tail \in Seq(All) /\ Len(tail) = Len(str) - init
         /\ \A q \in 1 .. Len(str) - init : tail[q] = str[init + q]
      BY <1>1, <1>4, <2>7, <2>9
  <2>11. /\ out \in Seq(All) /\ Len(out) = Len(str)
         /\ \A q \in 1 .. init - 1 : out[q] = head[q]
         /\ out[init] = "SERVER_NAME"
         /\ \A q \in init + 1 .. Len(str) : out[q] = tail[q - init]
    <3> DEFINE front == head \o <<"SERVER_NAME">>
    <3>1. /\ front \in Seq(All) /\ Len(front) = init
          /\ \A q \in 1 .. init - 1 : front[q] = head[q]
          /\ front[init] = "SERVER_NAME"
        BY <1>1, <1>4, <2>8
    <3>2. out = front \o tail
        BY <2>1
    <3> HIDE DEF front
    <3>3. /\ out \in Seq(All) /\ Len(out) = init + (Len(str) - init)
          /\ \A q \in 1 .. init : out[q] = front[q]
          /\ \A q \in init + 1 .. Len(str) : out[q] = tail[q - init]
      <4>1. Len(out) = init + (Len(str) - init)
          BY <1>1, <1>4, <2>10, <3>1, <3>2, Concatenation
      <4>2. \A q \in 1 .. init : out[q] = front[q]
          BY <2>10, <3>1, <3>2, Concatenation
      <4>3. \A q \in init + 1 .. init + (Len(str) - init) : out[q] = tail[q - init]
          BY <2>10, <3>1, <3>2, Concatenation, SMTT(20)
      <4>4. out \in Seq(All)
          BY <2>10, <3>1, <3>2, Concatenation
      <4>5. init + (Len(str) - init) = Len(str)
          BY <1>1
      <4>6. QED
          BY <4>1, <4>2, <4>3, <4>4, <4>5
    <3>4. QED
        BY <1>1, <3>1, <3>3
  <2>12. \A q \in init + 1 .. Len(str) : tail[q - init] = str[q]
    <3> TAKE q \in init + 1 .. Len(str)
    <3>1. q - init \in 1 .. Len(str) - init /\ init + (q - init) = q
        BY <1>1
    <3>2. QED
        BY <2>10, <3>1
  <2>13. \A q \in 1 .. Len(str) : out[q] = WithName(str)[q]
    <3> TAKE q \in 1 .. Len(str)
    <3>1. q \in 1 .. init - 1 \/ q = init \/ q \in init + 1 .. Len(str)
        BY <1>1
    <3>2. QED
        BY <1>1, <1>2, <2>8, <2>11, <2>12, <3>1
  <2>14. QED
      BY <1>2, <2>11, <2>13, SameString
<1>5. QED
    BY <1>1, <1>3, <1>4

\* Even where a length wraps around, it counts tokens that are there.
LEMMA ReplacedString ==
    ASSUME NEW str \in Seq(AnyToken), NEW out \in find_and_replace(str)
    PROVE  out \in Seq(AnyToken \cup {"SERVER_NAME", "heap"})
<1> DEFINE init == FirstAt(str, {"SERVER_URL"}, 1)
           All == AnyToken \cup {"SERVER_NAME", "heap"}
           head_len == init % UshortRange
           tail_len == (Len(str) + 1 - head_len - 1 + 1) % UshortRange
           rest == SubSeq(str, init + 1, Len(str))
           joined(head, tail) == head \o <<"SERVER_NAME">> \o tail
           parts == { joined(head, tail) :
                        head \in Printed(str, head_len), tail \in Printed(rest, tail_len) }
<1>1. init \in 1 .. Len(str) + 1 /\ Len(str) \in Nat /\ UshortRange \in Nat \ {0}
    BY FirstFound, RequestAssumption
<1>2. find_and_replace(str) = IF init > Len(str) THEN {str} ELSE parts
    BY DEF find_and_replace
<1>3. CASE init > Len(str)
  <2>1. out = str
    <3> HIDE DEF parts, init
    <3>1. QED
        BY <1>2, <1>3
  <2>2. QED
      BY <2>1
<1>4. CASE init <= Len(str)
  <2>1. \E head \in Printed(str, head_len), tail \in Printed(rest, tail_len) :
            out = joined(head, tail)
    <3>1. out \in parts
      <4> HIDE DEF parts, init
      <4>1. ~(init > Len(str))
          BY <1>1, <1>4
      <4>2. QED
          BY <1>2, <4>1
    <3> HIDE DEF joined, init, head_len, tail_len, rest
    <3>2. QED
        BY <3>1
  <2>2. PICK head \in Printed(str, head_len), tail \in Printed(rest, tail_len) :
            out = head \o <<"SERVER_NAME">> \o tail
      BY <2>1
  <2> HIDE DEF init
  <2>3. head_len \in Nat /\ head_len <= init
    <3>1. init \in Nat
        BY <1>1
    <3>2. init % UshortRange \in Nat /\ init % UshortRange <= init
        BY <1>1, <3>1, ModAtMost
    <3>3. QED
        BY <3>2
  <2>4. tail_len \in Nat /\ tail_len <= Len(str) - init + 1
    <3>1. PICK n \in Nat : n = Len(str) + 1 - init
        BY <1>1, <1>4
    <3>2. PICK a \in Int : a = Len(str) + 1
        BY <1>1
    <3>3. (a - (init % UshortRange)) % UshortRange = (a - init) % UshortRange
      <4>1. init \in Int
          BY <1>1
      <4>2. QED
          BY <1>1, <4>1, ModLess
    <3>4. PICK d \in Nat : d = init % UshortRange /\ d = head_len
        BY <2>3
    <3>5. (a - d) % UshortRange = (a - init) % UshortRange
        BY <3>3, <3>4
    <3> HIDE DEF head_len
    <3>6. a - init = n /\ Len(str) + 1 - head_len - 1 + 1 = a - d
        BY <1>1, <3>1, <3>2, <3>4
    <3>7. tail_len = n % UshortRange
        BY <3>5, <3>6
    <3>8. n % UshortRange \in Nat /\ n % UshortRange <= n
        BY <1>1, ModAtMost
    <3> HIDE DEF tail_len
    <3>9. QED
        BY <1>1, <3>1, <3>7, <3>8
  <2>5. rest \in Seq(AnyToken) /\ Len(rest) = Len(str) - init
    <3>1. PICK a \in Nat \ {0} : a = init + 1
        BY <1>1
    <3>2. PICK b \in 0 .. Len(str) : b = Len(str)
        BY <1>1
    <3>3. rest = SubSeq(str, a, b)
        BY <3>1, <3>2
    <3> HIDE DEF rest
    <3>4. rest \in Seq(AnyToken) /\ Len(rest) = IF a <= b THEN b - a + 1 ELSE 0
        BY <3>3, Beginning
    <3>5. QED
        BY <1>1, <1>4, <3>1, <3>2, <3>4
  <2> HIDE DEF head_len, tail_len, rest
  <2>6. head \in Seq(All)
    <3>1. CASE head_len = 0
      <4>1. head = <<>> \/ head = <<"heap">>
          BY <3>1 DEF Printed
      <4>2. <<>> \in Seq(All) /\ <<"heap">> \in Seq(All)
          OBVIOUS
      <4>3. QED
          BY <4>1, <4>2
    <3>2. CASE head_len # 0
      <4>1. head = SubSeq(str, 1, head_len - 1) /\ head_len - 1 \in 0 .. Len(str)
          BY <1>1, <1>4, <2>3, <3>2 DEF Printed
      <4>2. head \in Seq(AnyToken)
          BY <4>1, Beginning
      <4>3. QED
          BY <4>2
    <3>3. QED
        BY <3>1, <3>2
  <2>7. tail \in Seq(All)
    <3>1. CASE tail_len = 0
      <4>1. tail = <<>> \/ tail = <<"heap">>
          BY <3>1 DEF Printed
      <4>2. <<>> \in Seq(All) /\ <<"heap">> \in Seq(All)
          OBVIOUS
      <4>3. QED
          BY <4>1, <4>2
    <3>2. CASE tail_len # 0
      <4>1. tail = SubSeq(rest, 1, tail_len - 1) /\ tail_len - 1 \in 0 .. Len(rest)
          BY <1>1, <1>4, <2>4, <2>5, <3>2 DEF Printed
      <4>2. tail \in Seq(AnyToken)
          BY <2>5, <4>1, Beginning
      <4>3. QED
          BY <4>2
    <3>3. QED
        BY <3>1, <3>2
  <2>8. head \o <<"SERVER_NAME">> \in Seq(All)
      BY <2>6, Concatenation
  <2>9. QED
      BY <2>2, <2>7, <2>8, Concatenation
<1>5. QED
    BY <1>1, <1>3, <1>4

\* The string in a file is its beginning, and all of a file without a NUL.
LEMMA StringOfFile ==
    ASSUME NEW f \in Seq(AnyToken)
    PROVE  /\ CString(f) \in Seq(AnyToken) /\ Len(CString(f)) <= Len(f)
           /\ \A q \in 1 .. Len(CString(f)) : CString(f)[q] = f[q]
           /\ IsText(f) => Len(CString(f)) = Len(f)
<1> DEFINE a == FirstAt(f, {"NUL"}, 1)
<1>1. /\ a \in 1 .. Len(f) + 1 /\ (a <= Len(f) => f[a] = "NUL")
      /\ Len(f) \in Nat
    BY FirstFound
<1>2. CString(f) = SubSeq(f, 1, a - 1)
    BY DEF CString
<1>3. IsText(f) => a = Len(f) + 1
    BY <1>1 DEF IsText, Range
<1> HIDE DEF a
<1>4. QED
    BY <1>1, <1>2, <1>3

\* The text that is sent for a file of which a part was read.
LEMMA AnswerCut ==
    ASSUME NEW f \in Seq(AnyToken), NEW m \in 0 .. Len(f), FitsUshort(f),
           NEW text \in IF path.name = "data.xml"
                        THEN find_and_replace(CString(SubSeq(f, 1, m)))
                        ELSE {CString(SubSeq(f, 1, m))}
    PROVE  IsPrefix(text, AnswerOf(f)) /\ (m = Len(f) /\ IsText(f) => text = AnswerOf(f))
<1> DEFINE All == AnyToken \cup {"SERVER_NAME"}
           t == f
           c == CString(f)
           g == CString(SubSeq(f, 1, m))
           whole == m = Len(f) /\ IsText(f)
<1>0. /\ c \in Seq(AnyToken) /\ g \in Seq(AnyToken)
      /\ Len(g) <= Len(c) /\ Len(c) <= Len(t)
      /\ \A q \in 1 .. Len(g) : g[q] = c[q]
      /\ \A q \in 1 .. Len(c) : c[q] = t[q]
      /\ whole => Len(g) = Len(t)
    BY TextCut, StringOfFile
<1>1. /\ t \in Seq(AnyToken) /\ g \in Seq(AnyToken)
      /\ Len(g) <= Len(t) /\ (whole => Len(g) = Len(t))
      /\ \A q \in 1 .. Len(g) : g[q] = t[q]
  <2> HIDE DEF t, c, g, whole
  <2>1. t \in Seq(AnyToken)
      BY DEF t
  <2>2. QED
      BY <1>0, <2>1
<1> HIDE DEF whole
<1>2. ASSUME NEW x \in Seq(All), NEW z \in Seq(All), Len(x) = Len(g), Len(z) = Len(t),
             \A q \in 1 .. Len(g) : x[q] = z[q]
      PROVE  IsPrefix(x, z) /\ (whole => x = z)
  <2> HIDE DEF t, g
  <2>1. /\ SubSeq(x, 1, Len(x)) \in Seq(All) /\ Len(SubSeq(x, 1, Len(x))) = Len(x)
        /\ \A q \in 1 .. Len(x) : SubSeq(x, 1, Len(x))[q] = x[q]
      BY <1>2
  <2>2. /\ SubSeq(z, 1, Len(x)) \in Seq(All) /\ Len(SubSeq(z, 1, Len(x))) = Len(x)
        /\ \A q \in 1 .. Len(x) : SubSeq(z, 1, Len(x))[q] = z[q]
      BY <1>1, <1>2
  <2>3. SubSeq(x, 1, Len(x)) = SubSeq(z, 1, Len(x))
      BY <1>2, <2>1, <2>2, SameString
  <2>4. whole => x = z
      BY <1>1, <1>2, SameString
  <2>5. QED
      BY <1>1, <1>2, <2>3, <2>4 DEF IsPrefix
<1>3. CASE path.name # "data.xml"
  <2>1. text = g /\ AnswerOf(f) = t
      BY <1>3 DEF AnswerOf
  <2> HIDE DEF t, g
  <2>2. g \in Seq(All) /\ t \in Seq(All)
      BY <1>1
  <2>3. QED
      BY <1>1, <1>2, <2>1, <2>2 DEF whole
<1>4. CASE path.name = "data.xml"
  <2> DEFINE i == FirstAt(t, {"SERVER_URL"}, 1)
             j == FirstAt(g, {"SERVER_URL"}, 1)
  <2>1. AnswerOf(f) = WithName(t) /\ text \in find_and_replace(g)
      BY <1>4 DEF AnswerOf, WithName
  <2> DEFINE k == FirstAt(c, {"SERVER_URL"}, 1)
  <2>2. k > Len(c) \/ (k < UshortRange /\ Len(c) + 1 - k < UshortRange)
      BY DEF FitsUshort
  <2> HIDE DEF t, c, g
  <2>14. /\ k \in 1 .. Len(c) + 1 /\ (k <= Len(c) => c[k] = "SERVER_URL")
         /\ \A q \in 1 .. Len(c) : c[q] = "SERVER_URL" => k <= q
      BY <1>0, FirstFound
  <2>3. /\ i \in 1 .. Len(t) + 1 /\ (i <= Len(t) => t[i] = "SERVER_URL")
        /\ \A q \in 1 .. Len(t) : t[q] = "SERVER_URL" => i <= q
      BY <1>1, FirstFound
  <2>4. /\ j \in 1 .. Len(g) + 1 /\ (j <= Len(g) => g[j] = "SERVER_URL")
        /\ \A q \in 1 .. Len(g) : g[q] = "SERVER_URL" => j <= q
      BY <1>1, FirstFound
  <2>5. \A q \in 1 .. Len(t) : WithName(t)[q] = IF q = i THEN "SERVER_NAME" ELSE t[q]
      BY <1>1, NameInPlace
  <2>6. \A q \in 1 .. Len(g) : WithName(g)[q] = IF q = j THEN "SERVER_NAME" ELSE g[q]
      BY <1>1, NameInPlace
  <2>7. /\ WithName(t) \in Seq(All) /\ Len(WithName(t)) = Len(t)
        /\ WithName(g) \in Seq(All) /\ Len(WithName(g)) = Len(g)
      BY <1>1, NameInPlace
  <2>8. UshortRange \in Nat
      BY RequestAssumption
  <2>9. i <= Len(g) \/ j <= Len(g) => i = j
    <3> HIDE DEF i, j
    <3>1. i <= Len(g) => j <= i
        BY <1>1, <2>3, <2>4
    <3>2. j <= Len(g) => i <= j
        BY <1>1, <2>3, <2>4
    <3>3. QED
        BY <1>1, <2>3, <2>4, <3>1, <3>2
  <2>10. j > Len(g) \/ (j < UshortRange /\ Len(g) + 1 - j < UshortRange)
    <3> HIDE DEF i, j, k
    <3>1. j <= Len(g) => k = j
      <4>1. j <= Len(g) => j \in 1 .. Len(g) /\ j \in 1 .. Len(c) /\ c[j] = "SERVER_URL"
          BY <1>0, <2>4
      <4>2. j <= Len(g) => k <= j
          BY <2>14, <4>1
      <4>3. j <= Len(g) => k \in 1 .. Len(g) /\ g[k] = "SERVER_URL"
          BY <1>0, <2>14, <4>1, <4>2
      <4>4. QED
          BY <2>4, <2>14, <4>2, <4>3
    <3>2. QED
        BY <1>0, <1>1, <2>2, <2>4, <2>14, <2>8, <3>1
  <2>11. text = WithName(g)
      BY <1>1, <2>1, <2>10, Replaced
  <2>12. \A q \in 1 .. Len(g) : WithName(g)[q] = WithName(t)[q]
    <3> HIDE DEF i, j
    <3> TAKE q \in 1 .. Len(g)
    <3>1. q \in 1 .. Len(t) /\ g[q] = t[q] /\ (q = i <=> q = j)
        BY <1>1, <2>3, <2>4, <2>9
    <3>2. QED
        BY <2>5, <2>6, <3>1
  <2>13. QED
      BY <1>2, <2>1, <2>7, <2>11, <2>12 DEF whole
<1>5. QED
    BY <1>3, <1>4

-----------------------------------------------------------------------------
(* What each step of manage_request() keeps.                               *)

\* The pages of the codes.
LEMMA Pages ==
    /\ ok_reply.first = "200"
    /\ not_found_reply.first = "404"
    /\ serv_unavail_reply.first = "503"
<1>1. "200" # NULL /\ "404" # NULL /\ "503" # NULL
    BY RequestAssumption
<1>2. QED
    BY <1>1 DEF ok_reply, not_found_reply, serv_unavail_reply, Page, compose_reply, Default

\* The steps that are over with a page, before a path is composed.
Pageful == Refuse \/ BadRequest \/ EmptyRequest \/ UnknownType \/ UnsupportedFile \/ UnsupportedDir

LEMMA PagefulSteps ==
    ASSUME FileInv, Pageful
    PROVE  /\ pc' = "done" /\ path' = path /\ path = NULL
           /\ UNCHANGED <<request, fd, contents>>
BY DEF Pageful, Refuse, BadRequest, EmptyRequest, UnknownType, UnsupportedFile, UnsupportedDir,
       Send, file, FileInv

\* One more thing is seen of the file.
LEMMA SeenMore ==
    ASSUME NEW s \in Seq(Contents), NEW x
    PROVE  /\ Range(Append(s, x)) = Range(s) \cup {x}
           /\ Range(s) \subseteq Contents
           /\ Len(Append(s, x)) = Len(s) + 1
           /\ \A n \in 1 .. Len(s) : Append(s, x)[n] = s[n]
           /\ \A n \in Nat : n = Len(s) + 1 => Append(s, x)[n] = x
           /\ x \in Contents => Append(s, x) \in Seq(Contents)
<1>1. /\ Len(s) \in Nat /\ DOMAIN s = 1 .. Len(s)
      /\ DOMAIN Append(s, x) = 1 .. Len(s) + 1
      /\ Len(Append(s, x)) = Len(s) + 1
      /\ \A n \in 1 .. Len(s) : Append(s, x)[n] = s[n]
      /\ Append(s, x)[Len(s) + 1] = x
    OBVIOUS
<1>2. Range(s) \subseteq Contents
    BY DEF Range
<1>3. Range(Append(s, x)) = Range(s) \cup {x}
  <2>1. ASSUME NEW e \in Range(Append(s, x))
        PROVE  e \in Range(s) \cup {x}
    <3>1. PICK n \in 1 .. Len(s) + 1 : e = Append(s, x)[n]
        BY <1>1 DEF Range
    <3>2. n \in 1 .. Len(s) \/ n = Len(s) + 1
        BY <1>1
    <3>3. QED
        BY <1>1, <3>1, <3>2 DEF Range
  <2>2. ASSUME NEW e \in Range(s)
        PROVE  e \in Range(Append(s, x))
    <3>1. PICK n \in 1 .. Len(s) : e = s[n]
        BY <1>1, <2>2 DEF Range
    <3>2. n \in 1 .. Len(s) + 1 /\ e = Append(s, x)[n]
        BY <1>1, <3>1
    <3>3. QED
        BY <1>1, <3>2 DEF Range
  <2>3. x \in Range(Append(s, x))
    <3>1. Len(s) + 1 \in 1 .. Len(s) + 1
        BY <1>1
    <3>2. QED
        BY <1>1, <3>1 DEF Range
  <2>4. QED
      BY <2>1, <2>2, <2>3
<1>4. x \in Contents => Append(s, x) \in Seq(Contents)
    OBVIOUS
<1>5. QED
    BY <1>1, <1>2, <1>3, <1>4

\* At every step of get_file_by_id(), what was seen until then was there.
LEMMA SeenSoFar ==
    ASSUME FileInv, pc \in {"recv", "parse", "send_video", "file", "exists", "open", "read", "compose"}
    PROVE  /\ seen \in Seq(Contents)
           /\ Len(seen) = IF pc = "open" THEN 1
                          ELSE IF pc = "read" THEN 2 ELSE IF pc = "compose" THEN 3 ELSE 0
<1>1. CASE pc \in {"open", "read", "compose"}
    BY <1>1 DEF FileInv
<1>2. CASE pc \in {"recv", "parse", "send_video", "file", "exists"}
  <2>1. seen = <<>>
      BY <1>2 DEF FileInv
  <2>2. QED
      BY <1>2, <2>1
<1>3. QED
    BY <1>1, <1>2

\* parse_key_value() is given a part of the text.
LEMMA KnownParams ==
    ASSUME TextInv, KnownType
    PROVE  \E str \in Seq(AnyToken) : params' = parse_key_value(str)
<1>1. PICK path_len \in PathLens :
          params' = parse_key_value(SubSeq(input, 4,
                        Least(3 + ((path_len - 2) % UshortRange), Len(input))))
    BY DEF KnownType
<1>2. /\ input \in Seq(AnyToken) /\ Len(input) \in Nat /\ UshortRange \in Nat \ {0}
    BY PartOfText, RequestAssumption
<1>3. path_len \in Int
  <2>1. FirstAt(input, {"SP"}, 2) \in Int
      BY <1>2, FirstFound
  <2>2. QED
      BY <1>2, <2>1 DEF PathLens
<1>4. (path_len - 2) % UshortRange \in Nat
    BY <1>2, <1>3
<1>5. PICK b \in 0 .. Len(input) :
          b = Least(3 + ((path_len - 2) % UshortRange), Len(input))
  <2>1. PICK n \in Nat : n = (path_len - 2) % UshortRange
      BY <1>4
  <2>2. Least(3 + n, Len(input)) \in 0 .. Len(input)
      BY <1>2, <2>1 DEF Least
  <2>3. QED
      BY <2>1, <2>2
<1>6. SubSeq(input, 4, b) \in Seq(AnyToken)
    BY <1>2, Beginning
<1>7. QED
    BY <1>1, <1>5, <1>6

\* The name that is found is the one in the text.
LEMMA KnownName ==
    ASSUME KnownType
    PROVE  /\ type' = input[2] /\ type' \in Range(request_names)
           /\ pc' = (IF type' = "stream" THEN "send_video" ELSE "file")
           /\ pc = "parse"
           /\ UNCHANGED <<sent, input, file, reply>>
BY NameFound DEF KnownType

LEMMA NextKeepsText ==
    ASSUME TextInv, Next
    PROVE  TextInv'
<1>1. CASE Recv
    BY <1>1 DEF Recv, TextInv
<1>2. CASE ~Recv
  <2>1. sent' = sent /\ input' = input
      BY <1>2 DEF Next, parse_request, get_file_by_id, Refuse, BadRequest, EmptyRequest,
                  UnknownType, InvalidFree, KnownType, UnsupportedFile, UnsupportedDir, BuildPath,
                  check_file_exists, OpenFile, ReadFile, FileVanishes, SendFile, request
  <2>2. QED
      BY <2>1 DEF TextInv
<1>3. QED
    BY <1>1, <1>2

LEMMA NextKeepsFile ==
    ASSUME FileInv, Next
    PROVE  FileInv'
<1>1. CASE Pageful
    BY <1>1, PagefulSteps DEF FileInv
<1>2. CASE Recv
    BY <1>2 DEF Recv, FileInv, file
<1>3. CASE InvalidFree
    BY <1>3 DEF InvalidFree, FileInv, file
<1>4. CASE KnownType
    BY <1>4, KnownName, FilesNamed DEF FileInv, file
<1>5. CASE BuildPath
    BY <1>5 DEF BuildPath, FileInv, request
<1>6. CASE check_file_exists
  <2>1. pc = "exists" /\ seen \in Seq(Contents) /\ Len(seen) = 0
      BY <1>6, SeenSoFar DEF check_file_exists
  <2>2. CASE pc' = "done"
      BY <2>2 DEF FileInv
  <2>3. CASE pc' # "done"
    <3>1. PICK f \in Contents : seen' = Append(seen, f)
        BY <1>6, <2>3 DEF check_file_exists, Send
    <3>2. pc' = "open" /\ path' = path /\ type' = type
        BY <1>6, <2>3 DEF check_file_exists, Send, request
    <3>3. seen' \in Seq(Contents) /\ Len(seen') = 1
        BY <2>1, <3>1, SeenMore
    <3>4. QED
        BY <2>1, <3>2, <3>3 DEF FileInv
  <2>4. QED
      BY <2>2, <2>3
<1>7. CASE OpenFile
  <2>1. pc = "open" /\ seen \in Seq(Contents) /\ Len(seen) = 1
      BY <1>7, SeenSoFar DEF OpenFile
  <2>2. /\ pc' = "read" /\ path' = path /\ type' = type
        /\ fd' \in Contents /\ seen' = Append(seen, fd')
      BY <1>7 DEF OpenFile, request
  <2>3. seen' \in Seq(Contents) /\ Len(seen') = 2 /\ seen'[2] = fd'
    <3>1. 2 \in Nat /\ 2 = Len(seen) + 1
        BY <2>1
    <3>2. QED
        BY <2>1, <2>2, <3>1, SeenMore
  <2>4. QED
      BY <2>1, <2>2, <2>3 DEF FileInv
<1>8. CASE ReadFile
  <2>1. /\ pc = "read" /\ seen \in Seq(Contents) /\ Len(seen) = 2 /\ fd = seen[2]
      BY <1>8, SeenSoFar DEF ReadFile, FileInv
  <2>2. PICK f \in Contents :
          seen' = Append(seen, f) /\ contents' = SubSeq(fd, 1, Least(Len(f), Len(fd)))
      BY <1>8 DEF ReadFile
  <2>3. pc' = "compose" /\ path' = path /\ type' = type /\ fd' = fd
      BY <1>8 DEF ReadFile, request
  <2>4. seen' \in Seq(Contents) /\ Len(seen') = 3 /\ seen'[2] = fd /\ seen'[3] = f
    <3>1. 2 \in 1 .. Len(seen) /\ 3 \in Nat /\ 3 = Len(seen) + 1
        BY <2>1
    <3>2. Append(seen, f)[2] = seen[2]
      <4>1. \A n \in 1 .. Len(seen) : Append(seen, f)[n] = seen[n]
          BY <2>1, SeenMore, SMTT(20)
      <4>2. QED
          BY <3>1, <4>1
    <3>3. Append(seen, f)[3] = f
        BY <2>1, <3>1, SeenMore
    <3>4. Append(seen, f) \in Seq(Contents) /\ Len(Append(seen, f)) = 3
        BY <2>1, <3>1, SeenMore
    <3>5. QED
        BY <2>1, <2>2, <3>2, <3>3, <3>4
  <2>5. QED
      BY <2>1, <2>2, <2>3, <2>4 DEF FileInv
<1>9. CASE FileVanishes
    BY <1>9 DEF FileVanishes, FileInv
<1>10. CASE SendFile
    BY <1>10 DEF SendFile, Send, FileInv
<1>11. QED
    BY <1>1, <1>2, <1>3, <1>4, <1>5, <1>6, <1>7, <1>8, <1>9, <1>10
    DEF Next, parse_request, get_file_by_id, Pageful

LEMMA FilesAreStrings ==
    ASSUME NEW f \in Contents
    PROVE  f \in Seq(AnyToken)
BY RequestAssumption

LEMMA NextKeepsTypes ==
    ASSUME TypeOK, TextInv, FileInv, Next
    PROVE  TypeOK'
<1>1. input' \in Seq(AnyToken)
  <2>1. CASE Recv
    <3>1. PICK n \in 0 .. Len(sent') : input' = SubSeq(sent', 1, n)
        BY <2>1 DEF Recv
    <3>2. sent' \in Seq(AnyToken)
        BY <2>1, RequestAssumption DEF Recv
    <3>3. QED
        BY <3>1, <3>2, Beginning
  <2>2. CASE ~Recv
    <3>1. input' = input
        BY <2>2 DEF Next, parse_request, get_file_by_id, Refuse, BadRequest, EmptyRequest,
                    UnknownType, InvalidFree, KnownType, UnsupportedFile, UnsupportedDir, BuildPath,
                    check_file_exists, OpenFile, ReadFile, FileVanishes, SendFile, request
    <3>2. QED
        BY <3>1 DEF TypeOK
  <2>3. QED
      BY <2>1, <2>2
<1>2. params' \in [req_param_names -> Seq(AnyToken) \cup {NULL}]
  <2>1. CASE KnownType
      BY <2>1, KnownParams, CleanValues
  <2>2. CASE ~KnownType
    <3>1. params' = params
        BY <2>2 DEF Next, parse_request, get_file_by_id, Refuse, Recv, BadRequest, EmptyRequest,
                    UnknownType, InvalidFree, UnsupportedFile, UnsupportedDir, BuildPath,
                    check_file_exists, OpenFile, ReadFile, FileVanishes, SendFile, request
    <3>2. QED
        BY <3>1 DEF TypeOK
  <2>3. QED
      BY <2>1, <2>2
<1>3. type' \in Range(request_names) \cup {NULL}
  <2>1. CASE KnownType
      BY <2>1, KnownName
  <2>2. CASE ~KnownType
    <3>1. type' = type
        BY <2>2 DEF Next, parse_request, get_file_by_id, Refuse, Recv, BadRequest, EmptyRequest,
                    UnknownType, InvalidFree, UnsupportedFile, UnsupportedDir, BuildPath,
                    check_file_exists, OpenFile, ReadFile, FileVanishes, SendFile, request
    <3>2. QED
        BY <3>1 DEF TypeOK
  <2>3. QED
      BY <2>1, <2>2
<1>4. path' # NULL => path'.dir \in Dirs \cup {NULL} /\ path'.name \in Range(files_supported)
  <2>1. CASE BuildPath
      BY <2>1, FilesNamed DEF BuildPath, check_supported_dir
  <2>2. CASE ~BuildPath
    <3>1. path' = path
        BY <2>2 DEF Next, parse_request, get_file_by_id, Refuse, Recv, BadRequest, EmptyRequest,
                    UnknownType, InvalidFree, KnownType, UnsupportedFile, UnsupportedDir,
                    check_file_exists, OpenFile, ReadFile, FileVanishes, SendFile, file
    <3>2. QED
        BY <3>1 DEF TypeOK
  <2>3. QED
      BY <2>1, <2>2
<1>5. Range(seen') \subseteq Contents \cup {Missing}
  <2>1. CASE \E x \in Contents \cup {Missing} : seen' = Append(seen, x)
    <3>1. pc \in {"recv", "parse", "send_video", "file", "exists", "open", "read", "compose"}
        BY DEF Next, parse_request, get_file_by_id, Refuse, Recv, BadRequest, EmptyRequest,
               UnknownType, InvalidFree, KnownType, UnsupportedFile, UnsupportedDir, BuildPath,
               check_file_exists, OpenFile, ReadFile, FileVanishes, SendFile
    <3>2. seen \in Seq(Contents)
        BY <3>1, SeenSoFar
    <3>3. QED
        BY <2>1, <3>2, SeenMore
  <2>2. CASE seen' = seen
      BY <2>2 DEF TypeOK
  <2>3. QED
      BY <2>1, <2>2
      DEF Next, parse_request, get_file_by_id, Refuse, Recv, BadRequest, EmptyRequest,
          UnknownType, InvalidFree, KnownType, UnsupportedFile, UnsupportedDir, BuildPath,
          check_file_exists, OpenFile, ReadFile, FileVanishes, SendFile, file
<1>6. pc' \in {"recv", "parse", "send_video", "file", "exists", "open", "read", "compose",
               "done", "crashed"}
    BY DEF Next, parse_request, get_file_by_id, Refuse, Recv, BadRequest, EmptyRequest,
           UnknownType, InvalidFree, KnownType, UnsupportedFile, UnsupportedDir, BuildPath,
           check_file_exists, OpenFile, ReadFile, FileVanishes, SendFile, Send
<1>7. QED
    BY <1>1, <1>2, <1>3, <1>4, <1>5, <1>6 DEF TypeOK

\* The parameters are set once, from a text that does not change after that.
LEMMA NextKeepsParams ==
    ASSUME TextInv, FileInv, ParsedAsWritten, ValuesClean, Next
    PROVE  ParsedAsWritten' /\ ValuesClean'
<1>1. CASE KnownType
  <2>1. PICK str \in Seq(AnyToken) : params' = parse_key_value(str)
      BY <1>1, KnownParams
  <2>2. ValuesClean'
      BY <2>1, CleanValues DEF ValuesClean
  <2>3. ParsedAsWritten'
    <3> SUFFICES ASSUME Len(sent) > 3, sent[2] \in Range(request_names), sent[3] = "?",
                        FirstAt(sent, {"SP"}, 2) < FirstAt(sent, {"CR"}, 2),
                        ProperQuery(Query(sent)), Query(sent) # <<>>
                 PROVE  type' = sent[2] /\ \A k \in req_param_names :
                            params'[k] = ValueOf(Query(sent), k)
      <4>1. sent' = sent
          BY <1>1, KnownName
      <4>2. QED
          BY <4>1 DEF ParsedAsWritten
    <3>1. params' = parse_key_value(Query(sent)) /\ Query(sent) \in Seq(AnyToken)
        BY <1>1, QueryFound
    <3>2. \A k \in req_param_names : params'[k] = ValueOf(Query(sent), k)
        BY <3>1, WrittenValue
    <3>3. type' = sent[2]
      <4>1. PICK cr \in Nat : cr = FirstAt(input, {"CR"}, 1) /\ 1 <= cr
          BY PartOfText, FirstFound
      <4>2. 2 \in 1 .. Len(input)
        <5>1. cr < Len(input) /\ Len(input) \in Nat
            BY <1>1, <4>1, PartOfText DEF KnownType, WellFormed
        <5>2. QED
            BY <4>1, <5>1
      <4>3. QED
          BY <1>1, <4>2, KnownName, PartOfText
    <3>4. QED
        BY <3>2, <3>3
  <2>4. QED
      BY <2>2, <2>3
<1>2. CASE Recv
  <2>1. type' = NULL /\ params' = params
      BY <1>2 DEF Recv, FileInv
  <2>2. QED
      BY <2>1 DEF ParsedAsWritten, ValuesClean
<1>3. CASE ~KnownType /\ ~Recv
  <2>1. sent' = sent /\ type' = type /\ params' = params
      BY <1>3 DEF Next, parse_request, get_file_by_id, Refuse, BadRequest, EmptyRequest,
                  UnknownType, InvalidFree, UnsupportedFile, UnsupportedDir, BuildPath,
                  check_file_exists, OpenFile, ReadFile, FileVanishes, SendFile, request
  <2>2. QED
      BY <2>1 DEF ParsedAsWritten, ValuesClean
<1>4. QED
    BY <1>1, <1>2, <1>3

\* The file is sent as it was read, which is one version of it or a part.
LEMMA SendFileAnswers ==
    ASSUME TypeOK, FileInv, SendFile
    PROVE  WholeIfStill' /\ OneVersion' /\ AnswerFitsFiles'
<1>1. /\ pc = "compose" /\ pc' = "done" /\ path' = path /\ seen' = seen /\ type' = type
      /\ path.name = type /\ check_supported_file(type)
    BY DEF SendFile, Send, FileInv, request, file
<1>2. /\ seen \in Seq(Contents) /\ Len(seen) = 3 /\ fd = seen[2]
      /\ contents = SubSeq(fd, 1, Least(Len(seen[3]), Len(fd)))
    BY <1>1 DEF FileInv
<1>3. /\ fd \in Contents /\ seen[3] \in Contents
      /\ fd \in Range(seen) /\ seen[3] \in Range(seen) /\ Range(seen) \subseteq Contents
  <2>1. DOMAIN seen = 1 .. 3
      BY <1>2
  <2>2. 2 \in 1 .. 3 /\ 3 \in 1 .. 3
      OBVIOUS
  <2>3. seen[2] \in Contents /\ seen[3] \in Contents
    <3>1. \A n \in 1 .. Len(seen) : seen[n] \in Contents
      <4>1. seen \in Seq(Contents)
          BY <1>2
      <4>2. QED
          BY <4>1
    <3>2. Len(seen) = 3
        BY <1>2
    <3>3. QED
        BY <2>2, <3>1, <3>2
  <2>4. Range(seen) \subseteq Contents
      BY <1>2, SeenMore
  <2>5. QED
      BY <1>2, <2>1, <2>2, <2>3, <2>4 DEF Range
<1>4. fd \in Seq(AnyToken) /\ seen[3] \in Seq(AnyToken)
    BY <1>3, FilesAreStrings
<1>5. PICK m \in 0 .. Len(fd) :
        /\ contents = SubSeq(fd, 1, m)
        /\ Len(seen[3]) = Len(fd) => m = Len(fd)
    BY <1>2, <1>4 DEF Least
<1>6. contents \in Seq(AnyToken) /\ CString(contents) \in Seq(AnyToken)
  <2>1. contents \in Seq(AnyToken)
      BY <1>4, <1>5, Beginning
  <2>2. CString(SubSeq(fd, 1, m)) \in Seq(AnyToken)
      BY <1>4, TextCut
  <2>3. QED
      BY <1>5, <2>1, <2>2
<1> DEFINE texts == IF path.name = "data.xml" THEN find_and_replace(CString(contents))
                    ELSE {CString(contents)}
<1>7. PICK text \in texts :
        /\ reply'.first = "200"
        /\ reply'.var_field = Len(text)
        /\ reply'.body = SubSeq(text, 1, Len(text))
  <2>1. "200" # NULL
      BY RequestAssumption
  <2>2. QED
      BY <2>1 DEF SendFile, Send, compose_reply, Default
<1>8. text \in Seq(AnyToken \cup {"SERVER_NAME", "heap"})
    BY <1>6, ReplacedString
<1>9. reply'.body = text /\ reply'.var_field = Len(reply'.body)
  <2>1. /\ SubSeq(text, 1, Len(text)) \in Seq(AnyToken \cup {"SERVER_NAME", "heap"})
        /\ Len(SubSeq(text, 1, Len(text))) = Len(text)
        /\ \A q \in 1 .. Len(text) : SubSeq(text, 1, Len(text))[q] = text[q]
      BY <1>8
  <2>2. SubSeq(text, 1, Len(text)) = text
      BY <1>8, <2>1, SameString
  <2>3. QED
      BY <1>7, <2>2
<1>10. FitsUshort(fd) =>
        IsPrefix(text, AnswerOf(fd)) /\ (m = Len(fd) /\ IsText(fd) => text = AnswerOf(fd))
    BY <1>4, <1>5, AnswerCut
<1>11. \A f : AnswerOf(f)' = AnswerOf(f) /\ FitsUshort(f)' = FitsUshort(f)
    BY <1>1 DEF AnswerOf, FitsUshort
<1>12. WholeIfStill'
  <2>1. ASSUME NEW f \in Contents, Range(seen) = {f}, IsText(f), FitsUshort(f)
        PROVE  reply'.body = AnswerOf(f)
    <3>1. fd = f /\ seen[3] = f
        BY <1>3, <2>1
    <3>2. QED
        BY <1>5, <1>9, <1>10, <2>1, <3>1
  <2>2. QED
      BY <1>1, <1>9, <1>11, <2>1 DEF WholeIfStill
<1>13. OneVersion'
    BY <1>1, <1>3, <1>9, <1>10, <1>11 DEF OneVersion
<1>14. AnswerFitsFiles'
  <2>1. Missing \notin Range(seen)
      BY <1>3, RequestAssumption
  <2>2. QED
      BY <1>1, <1>7, <2>1 DEF AnswerFitsFiles
<1>15. QED
    BY <1>12, <1>13, <1>14

\* No other step sends a file.
LEMMA NothingSent ==
    ASSUME FileInv, Next, ~SendFile
    PROVE  ~FileSent'
<1>1. CASE Pageful
    BY <1>1, PagefulSteps DEF FileSent
<1>2. CASE check_file_exists
    BY <1>2, Pages DEF check_file_exists, Send, FileSent
<1>3. CASE ~Pageful /\ ~check_file_exists
  <2>1. pc' # "done"
      BY <1>3 DEF Next, parse_request, get_file_by_id, Pageful, Recv, InvalidFree, KnownType,
                  BuildPath, OpenFile, ReadFile, FileVanishes
  <2>2. QED
      BY <2>1 DEF FileSent
<1>4. QED
    BY <1>1, <1>2, <1>3

\* The answer fits what was found, whatever step gives it.
LEMMA OtherAnswers ==
    ASSUME TypeOK, TextInv, FileInv, Next, ~SendFile
    PROVE  AnswerFitsFiles'
<1>1. CASE Pageful
  <2>1. path' = NULL /\ pc' = "done"
      BY <1>1, PagefulSteps
  <2>2. QED
      BY <2>1 DEF AnswerFitsFiles
<1>3. CASE check_file_exists /\ pc' = "done"
  <2>1. pc' = "done" /\ reply'.first = "404" /\ seen' = Append(seen, Missing)
      BY <1>3, Pages DEF check_file_exists, Send
  <2>2. seen \in Seq(Contents)
      BY <1>3, SeenSoFar DEF check_file_exists
  <2>3. Missing \in Range(seen')
      BY <2>1, <2>2, SeenMore
  <2>4. QED
      BY <2>1, <2>3 DEF AnswerFitsFiles
<1>4. CASE InvalidFree
  <2>1. pc' = "crashed" /\ input' = input /\ TypeStart \in 3 .. Len(input)
      BY <1>4 DEF InvalidFree, request
  <2>2. input \in Seq(AnyToken) /\ Len(input) \in Nat
      BY DEF TypeOK
  <2>3. \A q \in 2 .. Len(input) : input[q] \in AnyToken \ {"?", "SP"} => TypeStart <= q
      BY <2>2, FirstFound DEF TypeStart
  <2>4. input[2] \in {"?", "SP"}
      BY <2>1, <2>2, <2>3
  <2>5. QED
      BY <2>1, <2>4 DEF AnswerFitsFiles
<1>5. CASE FileVanishes
  <2>1. pc' = "crashed" /\ seen' = Append(seen, Missing) /\ pc \in {"open", "read"}
      BY <1>5 DEF FileVanishes
  <2>2. seen \in Seq(Contents) /\ Len(seen) \in {1, 2}
      BY <2>1, SeenSoFar
  <2>3. 1 \in 1 .. Len(seen) /\ seen[1] \in Contents
      BY <2>2
  <2>4. Len(seen') > 1 /\ seen'[1] = seen[1]
      BY <2>1, <2>2, <2>3
  <2>5. Missing \notin Contents
      BY RequestAssumption
  <2>6. QED
      BY <2>1, <2>3, <2>4, <2>5 DEF AnswerFitsFiles
<1>6. CASE Recv \/ KnownType \/ BuildPath \/ OpenFile \/ ReadFile
            \/ (check_file_exists /\ pc' # "done")
  <2>1. pc' \notin {"done", "crashed"}
      BY <1>6 DEF Recv, KnownType, BuildPath, OpenFile, ReadFile, check_file_exists, Send
  <2>2. QED
      BY <2>1 DEF AnswerFitsFiles
<1>7. QED
    BY <1>1, <1>3, <1>4, <1>5, <1>6 DEF Next, parse_request, get_file_by_id, Pageful

LEMMA NextKeepsIInv ==
    ASSUME IInv, [Next]_vars
    PROVE  IInv'
<1>1. CASE Next
  <2>1. TypeOK' /\ TextInv' /\ FileInv' /\ ParsedAsWritten' /\ ValuesClean'
      BY <1>1, NextKeepsTypes, NextKeepsText, NextKeepsFile, NextKeepsParams DEF IInv
  <2>2. WholeIfStill' /\ OneVersion' /\ AnswerFitsFiles'
    <3>1. CASE SendFile
        BY <3>1, SendFileAnswers DEF IInv
    <3>2. CASE ~SendFile
        BY <1>1, <3>2, NothingSent, OtherAnswers DEF IInv, WholeIfStill, OneVersion
    <3>3. QED
        BY <3>1, <3>2
  <2>3. QED
      BY <2>1, <2>2 DEF IInv
<1>2. CASE UNCHANGED vars
  <2>1. /\ sent' = sent /\ input' = input /\ type' = type /\ params' = params /\ pc' = pc
        /\ path' = path /\ fd' = fd /\ contents' = contents /\ seen' = seen /\ reply' = reply
      BY <1>2 DEF vars, request, file
  <2>2. TypeOK' /\ TextInv' /\ FileInv'
      BY <2>1, SMTT(20) DEF IInv, TypeOK, TextInv, FileInv
  <2>3. ParsedAsWritten' /\ ValuesClean'
      BY <2>1 DEF IInv, ParsedAsWritten, ValuesClean
  <2>4. WholeIfStill' /\ OneVersion' /\ AnswerFitsFiles'
    <3>1. \A f : AnswerOf(f)' = AnswerOf(f)
        BY <2>1 DEF AnswerOf
    <3>2. QED
        BY <2>1, <3>1 DEF IInv, WholeIfStill, OneVersion, AnswerFitsFiles, FileSent
  <2>5. QED
      BY <2>2, <2>3, <2>4 DEF IInv
<1>3. QED
    BY <1>1, <1>2

LEMMA InitIInv ==
    ASSUME Init
    PROVE  IInv
<1>1. TypeOK
    BY DEF Init, TypeOK, NoParams, Range
<1>2. TextInv
    BY DEF Init, TextInv
<1>3. FileInv
    BY DEF Init, FileInv
<1>4. ParsedAsWritten /\ ValuesClean
    BY DEF Init, ParsedAsWritten, ValuesClean, NoParams
<1>5. WholeIfStill /\ OneVersion /\ AnswerFitsFiles
    BY DEF Init, WholeIfStill, OneVersion, AnswerFitsFiles, FileSent
<1>6. QED
    BY <1>1, <1>2, <1>3, <1>4, <1>5 DEF IInv

\* The inductive invariant of a request, at every step.
THEOREM RequestInvariant == Spec => []IInv
<1>1. IInv /\ [Next]_vars => IInv'
    BY NextKeepsIInv
<1>2. QED
    BY <1>1, InitIInv, PTL DEF Spec

\* Every text that may be sent leaves manage_request() with fields of their types:
\* the path that is opened is that of a listed file, in a directory of the server.
THEOREM PathsListed == Spec => []TypeOK
<1>1. IInv => TypeOK
    BY DEF IInv
<1>2. QED
    BY <1>1, RequestInvariant, PTL

\* A proper query is parsed as the client wrote it, wherever recv() cut the
\* request, or not used at all.
THEOREM QueriesParsed == Spec => []ParsedAsWritten
<1>1. IInv => ParsedAsWritten
    BY DEF IInv
<1>2. QED
    BY <1>1, RequestInvariant, PTL

\* No value of a parameter overflows its buffer or has a character that is not
\* valid, whatever the text.
THEOREM ValuesShortAndClean == Spec => []ValuesClean
<1>1. IInv => ValuesClean
    BY DEF IInv
<1>2. QED
    BY <1>1, RequestInvariant, PTL

\* A text file that nobody touches is sent whole, under the length that is
\* announced, if the unsigned shorts of find_and_replace() can count its parts.
THEOREM StillFilesWhole == Spec => []WholeIfStill
<1>1. IInv => WholeIfStill
    BY DEF IInv
<1>2. QED
    BY <1>1, RequestInvariant, PTL

\* Of a file that is replaced between two system calls one version is sent.
THEOREM VersionsNotMixed == Spec => []OneVersion
<1>1. IInv => OneVersion
    BY DEF IInv
<1>2. QED
    BY <1>1, RequestInvariant, PTL

\* Once the path is known 404 is the answer exactly when the file was not there, and
\* the process ends only for the two known reasons.
THEOREM AnswersFit == Spec => []AnswerFitsFiles
<1>1. IInv => AnswerFitsFiles
    BY DEF IInv
<1>2. QED
    BY <1>1, RequestInvariant, PTL
=============================================================================
