------------------------------- MODULE Codecs -------------------------------
(***************************************************************************)
(* The codecs of sigil-ingest (json, syslog, CEF, LEEF, raw) and the       *)
(* template miner.  A codec takes a frame and returns records; a record is *)
(* a function from field names to values, and always has a message or says *)
(* why it could not be decoded.                                            *)
(*                                                                         *)
(* A text is a sequence of characters, where a month, a mark ("CEF:"), a   *)
(* time and the name of a field count as one character; "\" is the escape  *)
(* character and NL a line feed.  The miner cuts at blanks: its messages   *)
(* are sequences of words.                                                 *)
(***************************************************************************)
EXTENDS Integers, Sequences, FiniteSets, SequencesExt

CONSTANTS
    CefHeader,      \* the header fields of CEF, in order (seven in the code)
    Letter,         \* characters of keys
    Month,          \* names of months
    Digit,          \* decimal digits
    CharOf          \* CharOf[n]: the character of code n, for the codes of characters

NL == "NL"
Esc == "\\"
CR == "CR"

\* dead_letter: nothing is lost of a line that does not parse.
DeadLetter(line) == [f \in {"message", "decode_error"} |-> IF f = "message" THEN line ELSE <<"error">>]

Positions(s, c) == {i \in DOMAIN s : s[i] = c}
FirstOf(S) == CHOOSE i \in S : \A j \in S : i <= j

\* The text from its i-th character on.
From(s, i) == SubSeq(s, i, Len(s))

\* trim_start, trim_end, trim
Space == {" ", NL, CR, "TAB"}
Solid(s) == {i \in DOMAIN s : s[i] \notin Space}
TrimStart(s) == IF Solid(s) = {} THEN <<>> ELSE From(s, FirstOf(Solid(s)))
TrimEnd(s) == IF Solid(s) = {} THEN <<>> ELSE SubSeq(s, 1, CHOOSE i \in Solid(s) : \A j \in Solid(s) : i >= j)
Trimmed(s) == TrimStart(TrimEnd(s))

\* splitn(n, c): at most n pieces, the last one whole.
RECURSIVE SplitN(_, _, _)
SplitN(s, c, n) ==
    IF n = 1 \/ Positions(s, c) = {} THEN <<s>>
    ELSE LET i == FirstOf(Positions(s, c))
         IN  <<SubSeq(s, 1, i - 1)>> \o SplitN(From(s, i + 1), c, n - 1)

---------------------------------------------------------------------------
(* CEF                                                                     *)

\* split_header: at the bars that are not escaped, until every header field
\* is there; the rest is the extension.  `\|` and `\\` are unescaped, in the
\* extension too.  The state of the loop is the parts so far and the current.
RECURSIVE SplitHeader(_, _, _)
SplitHeader(s, parts, cur) ==
    IF s = <<>> THEN Append(parts, cur)
    ELSE LET c == Head(s)
             n == IF Len(s) > 1 THEN s[2] ELSE "end"
         IN  CASE c = Esc /\ n \in {"|", Esc} -> SplitHeader(From(s, 3), parts, Append(cur, n))
               [] c = Esc /\ n = "end" -> SplitHeader(<<>>, parts, Append(cur, Esc))
               [] c = Esc -> SplitHeader(From(s, 3), parts, cur \o <<Esc, n>>)
               [] c = "|" /\ Len(parts) < Len(CefHeader) -> SplitHeader(Tail(s), Append(parts, cur), <<>>)
               [] OTHER -> SplitHeader(Tail(s), parts, Append(cur, c))

\* unescape
RECURSIVE Unescape(_)
Unescape(s) ==
    IF s = <<>> THEN <<>>
    ELSE LET n == IF Len(s) > 1 THEN s[2] ELSE "end" rest == From(s, 3)
         IN  CASE s[1] # Esc -> <<s[1]>> \o Unescape(Tail(s))
               [] n \in {"=", Esc} -> <<n>> \o Unescape(rest)
               [] n = "n" -> <<NL>> \o Unescape(rest)
               [] n = "r" -> <<CR>> \o Unescape(rest)
               [] n = "end" -> <<Esc>>
               [] OTHER -> <<Esc, n>> \o Unescape(rest)

\* Mutant: a key may start anywhere.
KeyStartsAnywhere(ext) == {i \in 1 .. Len(ext) - 1 : ext[i] \in Letter /\ ext[i + 1] = "="}

\* Where a `key=` starts: at the beginning or after a blank.
KeyStarts(ext) ==
    {i \in 1 .. Len(ext) - 1 : ext[i] \in Letter /\ ext[i + 1] = "=" /\ (i = 1 \/ ext[i - 1] \in Space)}

\* parse_extension: a value runs to the next key.  Of a repeated key the last
\* value stays.
ParseExtension(ext) ==
    LET keys == KeyStarts(ext)
        end(i) == IF \E j \in keys : j > i THEN FirstOf({j \in keys : j > i}) - 1 ELSE Len(ext)
        last == {i \in keys : \A j \in keys : ext[j] = ext[i] => j <= i}
    IN  [k \in {ext[i] : i \in last} |->
            LET i == CHOOSE i \in last : ext[i] = k IN Unescape(Trimmed(SubSeq(ext, i + 2, end(i))))]

\* The fields of a CEF line from the parts of its header and its extension.
\* The name in the header is the message.
CefRecord(parts, ext) ==
    [f \in Range(CefHeader) \cup {"message"} \cup DOMAIN ext |->
        IF f \in DOMAIN ext THEN ext[f]
        ELSE parts[CHOOSE k \in DOMAIN CefHeader : CefHeader[k] = IF f = "message" THEN "name" ELSE f]]

\* parse_cef: a line without the mark or with too few header fields is a dead
\* letter.
CefDecoded(line, parts) ==
    LET n == Len(CefHeader)
    IN  IF Len(parts) < n THEN DeadLetter(line)
        ELSE CefRecord(parts, IF Len(parts) > n THEN ParseExtension(parts[n + 1]) ELSE <<>>)
ParseCef(line) ==
    IF "CEF:" \notin Range(line) THEN DeadLetter(line)
    ELSE CefDecoded(line, SplitHeader(From(line, FirstOf(Positions(line, "CEF:")) + 1), <<>>, <<>>))

---------------------------------------------------------------------------
(* LEEF                                                                    *)

\* The value of a hexadecimal digit.
HexDigits == <<{"0"}, {"1"}, {"2"}, {"3"}, {"4"}, {"5"}, {"6"}, {"7"}, {"8"}, {"9"},
               {"a", "A"}, {"b", "B"}, {"c", "C"}, {"d", "D"}, {"e", "E"}, {"f", "F"}>>
HexValue(c) == (CHOOSE i \in DOMAIN HexDigits : c \in HexDigits[i]) - 1

\* parse_delim: the tab for none, the character of a hexadecimal code after x
\* or 0x, or else the first character.
ParseDelim(spec) ==
    LET s == Trimmed(spec)
        hex == IF IsPrefix(<<"0", "x">>, s) THEN From(s, 3) ELSE IF IsPrefix(<<"x">>, s) THEN Tail(s) ELSE <<>>
        code == FoldLeft(LAMBDA n, c : 16 * n + HexValue(c), 0, hex)
    IN  IF s = <<>> THEN "TAB"
        ELSE IF hex # <<>> /\ Range(hex) \subseteq UNION Range(HexDigits) /\ code \in DOMAIN CharOf THEN CharOf[code]
        ELSE s[1]

\* The two sides of the first equals sign.
PairKey(pair) == Trimmed(SubSeq(pair, 1, FirstOf(Positions(pair, "=")) - 1))
PairValue(pair) == From(pair, FirstOf(Positions(pair, "=")) + 1)

\* The attributes: what has no key is skipped, and of a repeated key the last
\* value stays.
Attributes(pairs) ==
    LET keyed == {k \in DOMAIN pairs : "=" \in Range(pairs[k]) /\ PairKey(pairs[k]) # <<>>}
    IN  [f \in {PairKey(pairs[k])[1] : k \in keyed} |->
            LET same == {k \in keyed : PairKey(pairs[k]) = <<f>>}
            IN  PairValue(pairs[CHOOSE k \in same : \A j \in same : k >= j])]

\* The message is the attribute msg (`m`), or made from the event id.
LeefRecord(id, attrs) ==
    [f \in {"event_id", "message"} \cup DOMAIN attrs |->
        CASE f = "message" -> IF "m" \in DOMAIN attrs THEN attrs["m"] ELSE <<"event">> \o id
          [] f \in DOMAIN attrs -> attrs[f]
          [] OTHER -> id]

\* What follows the mark: the version, four header fields, for version 2 the
\* delimiter (n = 5), then the attributes.
LeefSegments(rest, n) == Tail(SplitN(rest, "|", n + 2))
LeefDecoded(line, segs, n) ==
    IF Len(segs) < n + 1 THEN DeadLetter(line)
    ELSE LeefRecord(segs[4], Attributes(SplitN(segs[n + 1], IF n = 5 THEN ParseDelim(segs[5]) ELSE "TAB", Len(line) + 2)))
LeefVersioned(line, rest, n) == LeefDecoded(line, LeefSegments(rest, n), n)

\* parse_leef
ParseLeef(line) ==
    LET rest == From(line, FirstOf(Positions(line, "LEEF:")) + 1)
    IN  IF "LEEF:" \notin Range(line) THEN DeadLetter(line)
        ELSE LeefVersioned(line, rest, IF IsPrefix(<<"2">>, Trimmed(SplitN(rest, "|", 2)[1])) THEN 5 ELSE 4)

---------------------------------------------------------------------------
(* Syslog, JSON, raw                                                       *)

\* split_tag: before the first colon with a blank after it is the tag, and in
\* the tag the process id after its first bracket.
SplitTag(rest) ==
    LET colon == {i \in 1 .. Len(rest) - 1 : rest[i] = ":" /\ rest[i + 1] = " "}
        tag == SplitN(SubSeq(rest, 1, FirstOf(colon) - 1), "[", 2)
        kept == {i \in DOMAIN tag[2] : tag[2][i] # "]"}
    IN  IF colon = {} THEN [message |-> rest]
        ELSE [f \in {"app", "message"} \cup (IF Len(tag) = 2 THEN {"procid"} ELSE {}) |->
                CASE f = "app" -> tag[1]
                  [] f = "procid" -> SubSeq(tag[2], 1, IF kept = {} THEN 0 ELSE CHOOSE i \in kept : \A j \in kept : i >= j)
                  [] OTHER -> From(rest, FirstOf(colon) + 2)]

\* strip_structured_data: one block, or the dash that says there is none.
StripStructured(text) ==
    LET s == TrimStart(text)
        close == Positions(s, "]")
    IN  CASE IsPrefix(<<"[">>, s) /\ close # {} -> TrimStart(From(s, FirstOf(close) + 1))
          [] IsPrefix(<<"-">>, s) -> TrimStart(Tail(s))
          [] OTHER -> s

NilToEmpty(w) == IF w = <<"-">> THEN <<>> ELSE w

\* Mutant: a line is RFC 5424 whatever it starts with.
Is5424Always(rest) == " " \in Range(rest)

\* RFC 5424 starts with its version.
Is5424(rest) ==
    LET v == SplitN(rest, " ", 2)[1]
    IN  v # rest /\ Len(v) \in 1 .. 2 /\ Range(v) \subseteq Digit

\* parse_syslog, after the <PRI>: the two formats by position, anything else
\* is a message.
ParseSyslog(rest) ==
    LET names == <<"timestamp", "host", "app", "procid", "msgid", "message">>
        w == SplitN(rest, " ", 7)
        t == SplitN(rest, " ", 5)
        tagged == IF Len(t) > 4 THEN SplitTag(t[5]) ELSE <<>>
    IN  IF Is5424(rest)
          THEN [f \in {names[i] : i \in 1 .. Len(w) - 1} |->
                  LET i == CHOOSE i \in DOMAIN names : names[i] = f
                  IN  CASE f = "timestamp" -> w[2] [] f = "message" -> StripStructured(w[7]) [] OTHER -> NilToEmpty(w[i + 1])]
        ELSE IF Len(t) >= 4 /\ \E m \in Month : t[1] = <<m>>
          THEN [f \in {"timestamp", "host"} \cup DOMAIN tagged |->
                  CASE f = "timestamp" -> t[1] \o <<" ">> \o t[2] \o <<" ">> \o t[3]
                    [] f = "host" -> t[4]
                    [] OTHER -> tagged[f]]
        ELSE [message |-> rest]

\* JsonCodec::decode: an object is a record, an array one for each element,
\* anything else a message, and what is not JSON a dead letter.  An element
\* is a function from names to values, or a text.
DecodeJson(doc) ==
    LET one(v) == IF v.is = "object" THEN v.fields ELSE [message |-> v.text]
    IN  CASE doc.is = "array" -> [i \in DOMAIN doc.items |-> one(doc.items[i])]
          [] doc.is = "bad" -> <<DeadLetter(doc.text)>>
          [] OTHER -> <<one(doc)>>

\* build_codec: an unknown kind passes the frame through.
Decode(kind, frame) ==
    CASE kind = "json" -> DecodeJson(frame)
      [] kind = "syslog" -> <<ParseSyslog(TrimEnd(frame))>>
      [] kind = "cef" -> <<ParseCef(TrimEnd(frame))>>
      [] kind = "leef" -> <<ParseLeef(TrimEnd(frame))>>
      [] OTHER -> <<[message |-> frame]>>

---------------------------------------------------------------------------
(* TemplateMiner                                                           *)

Wildcard == "<*>"

\* similarity, in percent: a wildcard agrees with everything.
Similarity(t, words) ==
    IF t = <<>> THEN 100
    ELSE (100 * Cardinality({i \in DOMAIN t : t[i] \in {Wildcard, words[i]}})) \div Len(t)

\* Mutant: positions that disagree take the new word.
WidenReplace(t, words) == words

\* merge: positions that disagree become wildcards.
Widen(t, words) == [i \in DOMAIN t |-> IF t[i] = words[i] THEN t[i] ELSE Wildcard]

\* mine: the most similar template of the same length, the last of equals, if
\* at least half of it agrees; otherwise a new one.  m.given is the id each
\* message so far was given.
Mine(m, words) ==
    LET same == {k \in DOMAIN m.templates : Len(m.templates[k]) = Len(words)}
        best == CHOOSE k \in same : \A j \in same :
                   \/ Similarity(m.templates[k], words) > Similarity(m.templates[j], words)
                   \/ Similarity(m.templates[k], words) = Similarity(m.templates[j], words) /\ k >= j
    IN  IF same # {} /\ Similarity(m.templates[best], words) >= 50
          THEN [templates |-> [m.templates EXCEPT ![best] = Widen(@, words)], given |-> Append(m.given, best)]
          ELSE [templates |-> Append(m.templates, words), given |-> Append(m.given, Len(m.templates) + 1)]

Mined(messages) == FoldLeft(Mine, [templates |-> <<>>, given |-> <<>>], messages)

---------------------------------------------------------------------------
(* Properties                                                              *)

\* Ingestion never loses a frame: a codec yields one record for it (for a JSON
\* array one for each element), and the dead letter of a frame it cannot read,
\* like the record of a codec nobody knows, is the frame whole.
KeptIn(rs, kind, frame) ==
    LET text == IF kind = "json" THEN frame.text ELSE TrimEnd(frame)
        readable == \/ kind = "json" /\ frame.is # "bad"
                    \/ kind = "cef" /\ "CEF:" \in Range(frame) /\ Cardinality(Positions(frame, "|")) >= Len(CefHeader) - 1
                    \/ kind = "leef" /\ "LEEF:" \in Range(frame)
                          /\ Cardinality(Positions(frame, "|")) >= IF "2" \in Range(frame) THEN 6 ELSE 5
                    \/ kind \notin {"json", "cef", "leef"}
    IN  /\ Len(rs) = IF kind = "json" /\ frame.is = "array" THEN Len(frame.items) ELSE 1
        /\ ~readable => rs[1]["message"] = text
        /\ \A i \in DOMAIN rs : "decode_error" \in DOMAIN rs[i] <=> ~readable
        /\ kind \notin {"json", "syslog", "cef", "leef"} => rs = <<[message |-> frame]>>
FramesKept(kind, frame) == KeptIn(Decode(kind, frame), kind, frame)

\* How the formats are written: escapes in CEF, none in LEEF.
EscapeIn(s, set) == FlattenSeq([i \in DOMAIN s |->
    IF s[i] = NL THEN <<Esc, "n">> ELSE IF s[i] \in set \cup {Esc} THEN <<Esc, s[i]>> ELSE <<s[i]>>])

\* An equals sign in a value is escaped, or is as it is in one without blanks.
WriteCef(header, ext, always) ==
    FlattenSeq([i \in DOMAIN header |-> EscapeIn(header[i], {"|"}) \o <<"|">>])
    \o FlattenSeq([i \in DOMAIN ext |-> (IF i = 1 THEN <<>> ELSE <<" ">>) \o <<ext[i][1], "=">> \o EscapeIn(ext[i][2], IF always \/ " " \in Range(ext[i][2]) THEN {"="} ELSE {})])

\* A CEF line written by its rules reads back as the header and the extension
\* it was written from, its name also as the message: bars, blanks and equals
\* signs do not move a border.
CefReads(header, ext) ==
    \A always \in BOOLEAN :
        LET r == ParseCef(<<"CEF:">> \o WriteCef(header, ext, always))
        IN
        /\ DOMAIN r = Range(CefHeader) \cup {"message"} \cup {ext[i][1] : i \in DOMAIN ext}
        /\ \A i \in DOMAIN header : r[CefHeader[i]] = header[i] /\ (CefHeader[i] = "name" => r["message"] = header[i])
        /\ \A i \in DOMAIN ext : r[ext[i][1]] = ext[i][2]

\* A LEEF line of either version reads back as its event id and attributes,
\* however the header of version 2 spells the delimiter: as it is, in blanks, by
\* its code, or not at all for the tab.  by = [v2, spec, delim].  Any other
\* spelling is left out: leef.rs:104 says tab, parse_delim its first character.
LeefReads(by, id, attrs) ==
    LET line == <<"LEEF:", IF by.v2 THEN "2" ELSE "1", "|", "v", "|", "p", "|", "1", "|">> \o id \o <<"|">>
                \o (IF by.v2 THEN by.spec \o <<"|">> ELSE <<>>)
                \o FlattenSeq([i \in DOMAIN attrs |->
                     (IF i = 1 THEN <<>> ELSE <<by.delim>>) \o <<attrs[i][1], "=">> \o attrs[i][2]])
        r == ParseLeef(line)
    IN  /\ DOMAIN r = {"event_id", "message"} \cup {attrs[i][1] : i \in DOMAIN attrs}
        /\ r["event_id"] = id
        /\ \A i \in DOMAIN attrs : r[attrs[i][1]] = attrs[i][2]
        /\ r["message"] = IF \E i \in DOMAIN attrs : attrs[i][1] = "m"
                            THEN attrs[CHOOSE i \in DOMAIN attrs : attrs[i][1] = "m"][2] ELSE <<"event">> \o id

Ends(w, c) == w[Len(w)] = c
Starts(w, c) == w[1] = c
Spaced(words) == IF words = <<>> THEN <<>> ELSE Tail(FlattenSeq([i \in DOMAIN words |-> <<" ">> \o words[i]]))

\* What the record of a line of words is, read from the two formats (fields in
\* the order of the line, a dash for none):
\*   RFC 5424  version time host app procid msgid data message, where data is a
\*             dash or a block in brackets, with blanks in it or not; a rest that
\*             starts as neither is all message;
\*   RFC 3164  month day time host tag: message, where the tag is one word,
\*             with its process id in brackets or without; a rest in which
\*             no word before the last ends in a colon is all message;
\*   neither   all message.
\* Left out: a day below ten, whose second blank moves every field by one; a
\* block that is not closed or touches the message, a dash that is the first
\* character of a longer word (the code drops it); a tag of several words.
RecordSays(words, r) ==
    LET last == Len(words)
        rest(i) == Spaced(From(words, i))
        is(f, v) == f \in DOMAIN r /\ r[f] = v
        closing == {i \in 7 .. last : Ends(words[i], "]")}
        tags == {i \in 5 .. last - 1 : Ends(words[i], ":")}
    IN  IF last > 1 /\ Range(words[1]) \subseteq Digit
          THEN /\ DOMAIN r = {<<"timestamp", "host", "app", "procid", "msgid", "message">>[i] : i \in 1 .. IF last < 7 THEN last - 1 ELSE 6}
               /\ is("timestamp", words[2])
               /\ last > 2 => is("host", NilToEmpty(words[3]))
               /\ last > 3 => is("app", NilToEmpty(words[4]))
               /\ last > 4 => is("procid", NilToEmpty(words[5]))
               /\ last > 5 => is("msgid", NilToEmpty(words[6]))
               /\ last > 6 /\ words[7] = <<"-">> => is("message", rest(8))
               /\ last > 6 /\ Starts(words[7], "[") /\ closing # {} /\ (\A i \in 7 .. FirstOf(closing) - 1 : "]" \notin Range(words[i]))
                    /\ Cardinality(Positions(words[FirstOf(closing)], "]")) = 1 => is("message", rest(FirstOf(closing) + 1))
               /\ last > 6 /\ ~Starts(words[7], "[") /\ ~Starts(words[7], "-") => is("message", rest(7))
        ELSE IF last > 3 /\ \E m \in Month : words[1] = <<m>>
          THEN /\ is("timestamp", Spaced(SubSeq(words, 1, 3))) /\ is("host", words[4])
               /\ tags = {} => IF last = 4 THEN DOMAIN r = {"timestamp", "host"}
                               ELSE DOMAIN r = {"timestamp", "host", "message"} /\ is("message", rest(5))
               /\ tags # {} => is("message", rest(FirstOf(tags) + 1))
               /\ 5 \in tags =>
                    LET tag == words[5]
                        open == Positions(tag, "[")
                    IN  IF open = {} THEN is("app", SubSeq(tag, 1, Len(tag) - 1)) /\ "procid" \notin DOMAIN r
                        ELSE tag[Len(tag) - 1] = "]" =>
                             /\ is("app", SubSeq(tag, 1, FirstOf(open) - 1))
                             /\ is("procid", SubSeq(tag, FirstOf(open) + 1, Len(tag) - 2))
        ELSE r = [message |-> Spaced(words)]

\* The codec's record of such a line says that.
SyslogReads(words) == RecordSays(words, ParseSyslog(Spaced(words)))

\* A template keeps matching every message that was put under its id, however
\* it was widened since, and no two templates are the same.
TemplatesCover(messages) ==
    LET m == Mined(messages)
    IN  /\ \A i \in DOMAIN messages :
              LET t == m.templates[m.given[i]]
              IN  Len(t) = Len(messages[i]) /\ \A k \in DOMAIN t : t[k] \in {Wildcard, messages[i][k]}
        /\ \A i, j \in DOMAIN m.templates : m.templates[i] = m.templates[j] => i = j
============================================================================
