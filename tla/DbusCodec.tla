----------------------------- MODULE DbusCodec -----------------------------
(***************************************************************************)
(* The D-Bus values of the client and their conversion to and from the     *)
(* wire under the configured limits.  A value is a tree                    *)
(*   t  its alternative: "none", "basic", "bytes", "array", "dict",        *)
(*      "struct" or "variant"                                              *)
(*   e  the signature it declares: its own code (basic), that of its       *)
(*      elements (array) or keys (dict);  d that of the values of a dict   *)
(*   x  the datum of a basic value, the length of a byte array             *)
(*   k  its parts; keys and values of a dict alternate                     *)
(* A signature is a sequence of type codes.  A wire value holds its        *)
(* signature, its datum and the wire values inside.                        *)
(***************************************************************************)
EXTENDS Integers, Sequences, SequencesExt

CONSTANTS
  MaxBytes,    \* limits.max_message_bytes
  MaxDepth,    \* limits.max_container_depth
  MaxValues    \* limits.max_values

Bad == -1   \* the datum of a text, path or signature libdbus does not accept; others are naturals

BasicCodes == {"b", "n", "q", "i", "u", "x", "t", "d", "y", "s", "o", "g"}

None == [t |-> "none", e |-> <<>>, d |-> <<>>, x |-> 0, k |-> <<>>]

Basic(code, x) == [None EXCEPT !.t = "basic", !.e = <<code>>, !.x = x]

ByteArray(n) == [None EXCEPT !.t = "bytes", !.x = n]

Array(e, vs) == [None EXCEPT !.t = "array", !.e = e, !.k = vs]

Dictionary(e, d, kvs) == [None EXCEPT !.t = "dict", !.e = e, !.d = d, !.k = kvs]

Structure(vs) == [None EXCEPT !.t = "struct", !.k = vs]

Variant(v) == [None EXCEPT !.t = "variant", !.k = <<v>>]

RECURSIVE Signature(_)
Signature(v) ==
  CASE v.t = "none" -> <<>>
    [] v.t = "basic" -> v.e
    [] v.t = "bytes" -> <<"a", "y">>
    [] v.t = "array" -> <<"a">> \o v.e
    [] v.t = "dict" -> <<"a", "{">> \o v.e \o v.d \o <<"}">>
    [] v.t = "struct" ->
         <<"(">> \o FlattenSeq([i \in DOMAIN v.k |-> Signature(v.k[i])]) \o <<")">>
    [] v.t = "variant" -> <<"v">>

\* length of the first complete type of s; 0 when there is none
RECURSIVE TypeLength(_), FieldsEnd(_, _)

AfterField(s, i, l) == IF l = 0 THEN 0 ELSE FieldsEnd(s, i + l)

\* where the bracket s[1] closes, with a field or the end at i
FieldsEnd(s, i) ==
  IF i > Len(s) THEN 0
  ELSE IF s[i] = (IF s[1] = "(" THEN ")" ELSE "}") THEN i
  ELSE AfterField(s, i, TypeLength(SubSeq(s, i, Len(s))))

TypeLength(s) ==
  CASE s = <<>> -> 0
    [] s # <<>> /\ s[1] = "a" -> 1 + TypeLength(Tail(s))
    [] s # <<>> /\ s[1] \in {"(", "{"} -> FieldsEnd(s, 2)
    [] OTHER -> 1

\* dbus_signature_validate_single
ValidSignature(s) ==
  /\ s # <<>> /\ TypeLength(s) = Len(s)
  /\ \A i \in DOMAIN s : s[i] \in BasicCodes \cup {"a", "(", ")", "{", "}", "v"}
  /\ \A i \in DOMAIN s : s[i] = "{" => i > 1 /\ s[i - 1] = "a"
  /\ \A i \in DOMAIN s : s[i] = "a" => i < Len(s) /\ s[i + 1] \notin {")", "}"}

ValidBasic(v) == v.e \in {<<"s">>, <<"o">>, <<"g">>} => v.x # Bad

Wire(s, x, k) == [s |-> s, x |-> x, k |-> k]

\* an error stops the fold; n counts the values met
Ok(n, out) == [err |-> "no", n |-> n, out |-> out]

Failed(why, n) == [err |-> why, n |-> n, out |-> <<>>]

\* what encodeValue() tests before it opens a container
Encodable(v) ==
  CASE v.t = "none" -> FALSE
    [] v.t = "basic" -> ValidBasic(v)
    [] v.t = "dict" ->
         /\ ValidSignature(v.e) /\ ValidSignature(v.d) /\ Len(v.e) = 1
         /\ v.e[1] \in BasicCodes
    [] v.t = "array" ->
         /\ v.e # <<"y">> /\ ValidSignature(v.e)
         /\ \A i \in DOMAIN v.k : Signature(v.k[i]) = v.e
    [] v.t = "variant" -> ValidSignature(Signature(v.k[1]))
    [] OTHER -> TRUE

\* the result r of a part after those of the parts before it
Joined(acc, r) == [r EXCEPT !.out = IF r.err = "no" THEN Append(acc.out, r.out) ELSE <<>>]

RECURSIVE EncodeValue(_, _, _)

EncodeAll(vs, depth, n) ==
  FoldLeft(LAMBDA acc, v :
             IF acc.err # "no" THEN acc ELSE Joined(acc, EncodeValue(v, depth, acc.n)),
           Ok(n, <<>>), vs)

\* the entries of a dictionary before the first whose types do not match
MatchingParts(v) ==
  IF v.t # "dict" THEN v.k
  ELSE LET bad == {i \in DOMAIN v.k : Signature(v.k[i]) # IF i % 2 = 1 THEN v.e ELSE v.d}
           first == CHOOSE i \in bad : \A j \in bad : i <= j
       IN IF bad = {} THEN v.k ELSE SubSeq(v.k, 1, 2 * ((first - 1) \div 2))

TooMuch(depth, n) == depth > MaxDepth \/ n > MaxValues

EncodedParts(v, parts, inner) ==
  IF inner.err # "no" THEN inner
  ELSE IF parts # v.k THEN Failed("invalid", inner.n)
  ELSE Ok(inner.n, Wire(Signature(v), v.x, inner.out))

EncodeValue(v, depth, n) ==
  IF TooMuch(depth, n + 1) THEN Failed("limit", n + 1)
  ELSE IF ~Encodable(v) THEN Failed("invalid", n + 1)
  ELSE IF v.t = "bytes" /\ v.x > MaxBytes THEN Failed("limit", n + 1)
  ELSE EncodedParts(v, MatchingParts(v), EncodeAll(MatchingParts(v), depth + 1, n + 1))

\* dbus_message_marshal: a unit per datum or container, and the header
RECURSIVE WireSize(_)
WireSize(w) ==
  FoldLeft(LAMBDA a, i : a + WireSize(i), 1 + (IF w.s = <<"a", "y">> THEN w.x ELSE 0), w.k)

MessageSize(ws) == FoldLeft(LAMBDA a, w : a + WireSize(w), 1, ws)

\* the size is tested after every argument and at the end
EncodeArguments(vs) ==
  LET r == EncodeAll(vs, 0, 0)
      over == \E i \in DOMAIN vs : LET p == EncodeAll(SubSeq(vs, 1, i), 0, 0) IN
                p.err = "no" /\ MessageSize(p.out) > MaxBytes
  IN IF over THEN Failed("limit", r.n) ELSE r

RECURSIVE DecodeValue(_, _, _)

DecodeAll(ws, depth, n) ==
  FoldLeft(LAMBDA acc, w :
             IF acc.err # "no" THEN acc ELSE Joined(acc, DecodeValue(w, depth, acc.n)),
           Ok(n, <<>>), ws)

IsDict(s) == Len(s) > 2 /\ s[1] = "a" /\ s[2] = "{"

\* a dictionary whose entries have the signature `entry`, of which the key takes l
SplitDictionary(entry, l, ws) ==
  Dictionary(SubSeq(entry, 1, l), SubSeq(entry, l + 1, Len(entry)), ws)

DecodedParts(w, s, l, inner) ==
  IF inner.err # "no" THEN inner
  ELSE Ok(inner.n,
          CASE s[1] \in BasicCodes -> Basic(s[1], w.x)
            [] s = <<"a", "y">> -> ByteArray(w.x)
            [] IsDict(s) -> SplitDictionary(SubSeq(s, 3, Len(s) - 1), l, inner.out)
            [] s[1] = "a" /\ ~IsDict(s) /\ s # <<"a", "y">> -> Array(Tail(s), inner.out)
            [] s[1] = "(" -> Structure(inner.out)
            [] s = <<"v">> -> Variant(inner.out[1]))

DecodeValue(w, depth, n) ==
  LET s == w.s
      l == IF IsDict(s) THEN TypeLength(SubSeq(s, 3, Len(s) - 1)) ELSE 0
  IN IF TooMuch(depth, n + 1) THEN Failed("limit", n + 1)
     ELSE IF (IsDict(s) /\ l \notin 1..(Len(s) - 4)) \/ (s = <<"v">> /\ w.k = <<>>) THEN Failed("codec", n + 1)
     ELSE DecodedParts(w, s, l, DecodeAll(w.k, depth + 1, n + 1))

DecodeArguments(ws) ==
  IF MessageSize(ws) > MaxBytes THEN Failed("limit", 0) ELSE DecodeAll(ws, 0, 0)
=============================================================================
