----------------------------- MODULE HttpValues -----------------------------
(***************************************************************************)
(* http::HeaderValue, the typed values of header fields with their parsers *)
(* and generators, and parseUrl of the client.                             *)
(*                                                                         *)
(* A text is what its parser tells apart: a date is its form and its       *)
(* numbers, the time of day as one, names of days and months as numbers; a *)
(* list of codings is a sequence of names with weights, and an address a   *)
(* sequence of words and signs.                                            *)
(***************************************************************************)
EXTENDS Integers, Sequences, SequencesExt

CONSTANTS
    Moments,        \* times since 1970, a day having DayTicks
    DayTicks,
    CodingLists,    \* texts for the two kinds of coding lists
    Urls,           \* addresses, as records of their parts
    SizeLimit       \* numbers from here on do not fit size_t

Signs == {":", "/", "?", "#"}
Ports == {"80", "443", "8080"}

(* Words, "a" standing for any other: a host has no signs, a path begins   *)
(* with one, and so does an anchor, in which anything may follow.          *)
UrlWords == Signs \cup Ports \cup {"http", "s", "a"}
WithoutSigns(words) == words # <<>> /\ \A i \in DOMAIN words : words[i] \notin Signs
Begins(words, signs) == words = <<>> \/ words[1] \in signs
Address(a) ==
    /\ a.scheme \in {"none", "http", "https"} /\ a.port \in Ports \cup {""}
    /\ {a.host, a.path, a.anchor} \subseteq Seq(UrlWords)
    /\ WithoutSigns(a.host) /\ Begins(a.path, {"/", "?"}) /\ Begins(a.anchor, {"#"})
    /\ \A i \in DOMAIN a.path : a.path[i] # "#"

(* Mentions of codings, "other" being any name that is not known. *)
Items == [name : {"identity", "chunked", "gzip", "compress", "deflate", "*", "other"}, q : Int]

(* Times are those of a 32-bit time_t. *)
ASSUME ValuesAssumption ==
    /\ DayTicks \in Nat \ {0} /\ Moments \subseteq Nat /\ \A t \in Moments : t < 24856 * DayTicks
    /\ CodingLists \subseteq Seq(Items)
    /\ SizeLimit \in Nat \ {0}
    /\ \A a \in Urls : Address(a)

VARIABLE
    headerValue     \* a HeaderValue: its kind, value and _isCorrect; the text it had

-----------------------------------------------------------------------------
(* Dates. *)

(* timegm and gmtime_r *)
DaysTo(y, m) ==
    LET x   == IF m <= 2 THEN y - 1 ELSE y
        era == x \div 400
        yoe == x - era * 400
        doy == (153 * (IF m > 2 THEN m - 3 ELSE m + 9) + 2) \div 5
    IN  era * 146097 + yoe * 365 + yoe \div 4 - yoe \div 100 + doy - 719468
timegm(tm) ==
    (DaysTo(tm.year + 1900, tm.mon + 1) + tm.mday - 1) * DayTicks + tm.time
gmtime(t) ==
    LET days == t \div DayTicks
        y == CHOOSE y \in 1969 .. 2038 : DaysTo(y, 1) <= days /\ days < DaysTo(y + 1, 1)
        m == CHOOSE m \in 1 .. 12 : DaysTo(y, m) <= days /\ (m = 12 \/ days < DaysTo(y, m + 1))
    IN  [year |-> y - 1900, mon |-> m - 1, mday |-> days - DaysTo(y, m) + 1, wday |-> (days + 4) % 7,
         time |-> t % DayTicks]

(* HeaderValue<Date>::generate, always an rfc1123-date. *)
DateText(tm, year, form, days) ==
    [year |-> year, mon |-> tm.mon, mday |-> tm.mday, wday |-> tm.wday, time |-> tm.time,
     form |-> form, days |-> days]
GenerateDate(t) == DateText(gmtime(t), gmtime(t).year + 1900, "rfc1123", "short")

(* The year of a text: of rfc850 it has two digits, which are of this century. *)
YearOf(text) == IF text.form = "rfc850" THEN text.year + 100 ELSE text.year - 1900

(* HeaderValue<Date>::parse; the days of asctime are expected in full. *)
ParseDate(text) ==
    IF text.form = "none" \/ (text.form = "rfc1123") # (text.days = "short")
    THEN [ok |-> FALSE, value |-> 0]
    ELSE [ok |-> TRUE,
          value |-> timegm([text EXCEPT !.year = YearOf(text)])]

-----------------------------------------------------------------------------
(* Codings. *)

Codings(kind) ==
    IF kind = "TransferEncoding" THEN {"identity", "chunked", "gzip", "compress", "deflate"}
    ELSE {"identity", "gzip", "compress", "deflate"}
AnyCoding(kind) == Codings(kind) \ (IF kind = "TransferEncoding" THEN {"identity"} ELSE {})
Mentioned(kind, name) == IF name = "*" THEN AnyCoding(kind) ELSE {name} \cap Codings(kind)

(* HeaderValue<TransferEncoding>::parse and HeaderValue<ContentEncoding>::parse *)
Weighed(kind, codings, item) ==
    IF item.q > 0 THEN codings \cup Mentioned(kind, item.name) ELSE codings \ Mentioned(kind, item.name)
Known(kind, items) ==
    LET bad == {i \in DOMAIN items : Mentioned(kind, items[i].name) = {}}
    IN  IF bad = {} THEN items ELSE SubSeq(items, 1, (CHOOSE i \in bad : \A j \in bad : i <= j) - 1)
ReadCodings(kind, items) ==
    LET upto[n \in 0 .. Len(items)] == IF n = 0 THEN {} ELSE Weighed(kind, upto[n - 1], items[n])
    IN  upto[Len(items)]
ParseCodings(kind, items) ==
    [ok |-> Known(kind, items) # <<>>, value |-> ReadCodings(kind, Known(kind, items))]

(* generate: in a fixed order, and identity if there is nothing else. *)
GenerateCodings(kind, codings) ==
    LET If(c) == IF c \in codings THEN <<c>> ELSE <<>>
        order == If("chunked") \o If("gzip") \o If("deflate") \o If("compress")
        all   == IF order = <<>> \/ "identity" \in codings THEN Append(order, "identity") ELSE order
    IN  [i \in DOMAIN all |-> [name |-> all[i], q |-> 1]]

-----------------------------------------------------------------------------
(* HeaderValue<Unsigned> and HeaderValue<Connection> *)

(* The first characters have to be a number that size_t can hold. *)
ParseUnsigned(text) ==
    IF text.n >= 0 /\ text.n < SizeLimit THEN [ok |-> TRUE, value |-> text.n] ELSE [ok |-> FALSE, value |-> 0]

(* The field has to begin with a name, in whatever case; what follows does *)
(* not matter.                                                             *)
ParseConnection(words) ==
    IF Head(words) \in {"close", "Close"} THEN [ok |-> TRUE, value |-> "close"]
    ELSE IF Head(words) \in {"keep-alive", "Keep-Alive"} THEN [ok |-> TRUE, value |-> "keepAlive"]
    ELSE [ok |-> FALSE, value |-> "none"]
GenerateConnection(v) == <<IF v = "close" THEN "Close" ELSE "Keep-Alive">>

Parse(kind, text) ==
    CASE kind = "Date" -> ParseDate(text)
      [] kind = "Unsigned" -> ParseUnsigned(text)
      [] kind = "Connection" -> ParseConnection(text)
      [] OTHER -> ParseCodings(kind, text)
Generate(kind, v) ==
    CASE kind = "Date" -> GenerateDate(v)
      [] kind = "Unsigned" -> [n |-> v]
      [] kind = "Connection" -> GenerateConnection(v)
      [] OTHER -> GenerateCodings(kind, v)

-----------------------------------------------------------------------------
(* parseUrl *)

(* An address as it is put together of its parts. *)
SchemeWords(scheme) ==
    CASE scheme = "none" -> <<>>
      [] scheme = "http" -> <<"http", ":", "/", "/">>
      [] OTHER -> <<"http", "s", ":", "/", "/">>
PortWords(port) == IF port = "" THEN <<>> ELSE <<":", port>>
Words(a) == SchemeWords(a.scheme) \o (a.host \o (PortWords(a.port) \o (a.path \o a.anchor)))

(* The longest prefix of words that are not signs in stop. *)
UntilSign(words, stop) ==
    LET ends == {i \in DOMAIN words : words[i] \in stop}
    IN  IF ends = {} THEN words ELSE SubSeq(words, 1, (CHOOSE i \in ends : \A j \in ends : i <= j) - 1)
After(words, n) == SubSeq(words, n + 1, Len(words))

(* What is noted of a scheme stays noted when no "://" follows. *)
parseUrl(words) ==
    LET http   == words # <<>> /\ words[1] = "http"
        https  == http /\ Len(words) > 1 /\ words[2] = "s"
        scheme == IF https THEN 2 ELSE 1
        rest   == IF http /\ IsPrefix(<<":", "/", "/">>, After(words, scheme))
                  THEN After(words, scheme + 3) ELSE words
        host   == UntilSign(rest, Signs)
        tail   == After(rest, Len(host))
        port   == Len(tail) > 1 /\ tail[1] = ":" /\ tail[2] \in Ports
        path   == UntilSign(IF port THEN After(tail, 2) ELSE tail, {"#"})
        service == IF port THEN tail[2] ELSE IF https THEN "443" ELSE "80"
    IN  [ok |-> host # <<>>, host |-> host, service |-> service,
         path |-> IF path = <<>> THEN <<"/">> ELSE path,
         ssl |-> https \/ (~http /\ service = "443")]

-----------------------------------------------------------------------------
(* A HeaderValue in use. *)

Kinds == {"Date", "Unsigned", "Connection", "TransferEncoding", "ContentEncoding"}
ValuesStart == headerValue = [kind |-> "none"]

(* Texts as other programs write them. *)
Forms(t) ==
    LET tm == gmtime(t) IN
    {DateText(tm, tm.year + 1900, f, d) : f \in {"rfc1123", "asctime"}, d \in {"short", "full"}}
    \cup {DateText(tm, tm.year % 100, "rfc850", d) : d \in {"short", "full"}}
HeaderTexts(kind) ==
    CASE kind = "Date" -> UNION {Forms(t) : t \in Moments}
      [] kind = "Unsigned" -> {[n |-> n] : n \in {-1, 0, 1, SizeLimit - 1, SizeLimit}}
      [] kind = "Connection" -> {<<w>> \o r : w \in {"close", "Keep-Alive", "Upgrade"}, r \in {<<>>, <<"close">>}}
      [] OTHER -> CodingLists
ValuesOf(kind) ==
    CASE kind = "Date" -> Moments
      [] kind = "Unsigned" -> {0, SizeLimit - 1}
      [] kind = "Connection" -> {"close", "keepAlive"}
      [] OTHER -> SUBSET Codings(kind)

(* operator=(Segment), operator=(Value) followed by generate, a field that *)
(* is not there, and parseUrl.                                             *)
AssignText(kind, text) ==
    headerValue' = [kind |-> kind, given |-> TRUE, text |-> text, value |-> Parse(kind, text).value,
                    isCorrect |-> Parse(kind, text).ok]
AssignValue(kind, v) ==
    headerValue' = [kind |-> kind, given |-> TRUE, text |-> Generate(kind, v), value |-> v, isCorrect |-> TRUE]
AssignNothing(kind) ==
    headerValue' = [kind |-> kind, given |-> FALSE, isCorrect |-> FALSE]
ParseAddress(a) == headerValue' = [kind |-> "address", of |-> a, to |-> parseUrl(Words(a))]

ValuesNext ==
    \/ \E kind \in Kinds :
         \/ \E text \in HeaderTexts(kind) : AssignText(kind, text)
         \/ \E v \in ValuesOf(kind) : AssignValue(kind, v)
         \/ AssignNothing(kind)
    \/ \E a \in Urls : ParseAddress(a)

-----------------------------------------------------------------------------
(* Properties. *)

(* Of what moment a text speaks, if it is written as HTTP says. *)
Moment(text) == CHOOSE t \in Moments : text \in Forms(t)
Proper(text) == (text.form = "rfc850") = (text.days = "full")

(* Reference definition: the last mention of a coding, by name or by "*",  *)
(* says whether it is acceptable.                                          *)
Acceptable(kind, items) ==
    {c \in Codings(kind) :
       \E i \in DOMAIN items :
         /\ items[i].q > 0 /\ c \in Mentioned(kind, items[i].name)
         /\ \A j \in DOMAIN items : j > i /\ c \in Mentioned(kind, items[j].name) => items[j].q > 0}

(* The address that a text was put together from; a scheme's name at the   *)
(* start of the host is taken for half a scheme, and a query without a     *)
(* path does not get one.                                                  *)
AddressExact(a, to) ==
    a.host[1] # "http" \/ a.scheme # "none" =>
      /\ to.ok /\ to.host = a.host
      /\ to.service = (IF a.port # "" THEN a.port ELSE IF a.scheme = "https" THEN "443" ELSE "80")
      /\ to.ssl = (a.scheme = "https" \/ (a.scheme = "none" /\ a.port = "443"))
      /\ to.path = (IF a.path = <<>> THEN <<"/">> ELSE a.path)

(* What a header field means is what is read out of it, and what is        *)
(* generated is read back; an address is taken apart as it was put         *)
(* together.  Excepted are asctime-dates, which are refused, and the years *)
(* of rfc850-dates before 2000.                                            *)
Exact(h) ==
    IF h.kind = "none" THEN TRUE
    ELSE IF h.kind = "address" THEN AddressExact(h.of, h.to)
    ELSE IF ~h.given THEN ~h.isCorrect
    ELSE IF h.kind = "Date" /\ h.text.form = "rfc1123" /\ Proper(h.text) THEN
           h.isCorrect /\ h.value = Moment(h.text)
    ELSE IF h.kind = "Date" /\ h.text.form = "rfc850" THEN
           /\ h.isCorrect = Proper(h.text)
           /\ h.isCorrect /\ gmtime(Moment(h.text)).year >= 100 => h.value = Moment(h.text)
    ELSE IF h.kind \in {"TransferEncoding", "ContentEncoding"} THEN
           h.isCorrect =>
             \/ h.value = Acceptable(h.kind, Known(h.kind, h.text))
             \/ h.value = {} /\ Parse(h.kind, h.text).value = {"identity"}
    ELSE h.isCorrect => Parse(h.kind, h.text).value = h.value
ValuesExact == Exact(headerValue)
=============================================================================
