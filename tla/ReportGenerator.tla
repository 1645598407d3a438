-------------------------- MODULE ReportGenerator --------------------------
(***************************************************************************)
(* What scom::impl::Service::workerMerger does with a complete instance:   *)
(* it reads the pages in portions, outside of any transaction, and hands   *)
(* them to a scom::impl::ReportGenerator, which counts the phrases that    *)
(* pages have in common.                                                   *)
(*                                                                         *)
(* pushPageText cuts a text as spider's TextParser does, so this extends   *)
(* SpiderText.  A phrase that is in the text of a page with an amount is   *)
(* an entry; the entries of a size are a sequence whose order does not     *)
(* matter, as the code sorts them.                                         *)
(***************************************************************************)
EXTENDS SpiderText, Integers, FiniteSetsExt

CONSTANTS
    Tables,         \* the table of pages: id -> [selected, refs, text]
    Stems,          \* hunspell: the stems of the words it knows
    crc32,          \* the checksums of words and stems
    RowGranula,     \* PAGESGRANULA
    MaxFlips        \* bound: changes of the table while it is read

VARIABLES
    pages,          \* the table
    reportAt, offset,               \* where workerMerger is
    pagesAmount,
    pageIds,        \* _pageIds
    phrases,        \* _phrases1, 2, 3
    crossCounters,  \* _crossCounters1, 2, 3
    reportDb,       \* the tables page, page_ref_page and page_phrase_page
    flips           \* history: changes of the table while it was read
reportVars == <<pages, reportAt, offset, pagesAmount, pageIds, phrases, crossCounters, reportDb, flips>>

Sizes == 1 .. 3
Zero == [all |-> 0, gt1c |-> 0, gt1m1 |-> 0, gt2c |-> 0, gt2m2 |-> 0]

ReportStart(table) ==
    /\ pages = table /\ reportAt = "count" /\ offset = 0 /\ pagesAmount = 0 /\ pageIds = <<>>
    /\ phrases = [s \in Sizes |-> <<>>] /\ crossCounters = [s \in Sizes |-> <<>>]
    /\ reportDb = [page |-> {}, ref |-> {}, phrase |-> {}] /\ flips = 0
ReportInit == \E table \in Tables : ReportStart(table)

-----------------------------------------------------------------------------
(* What PostgreSQL answers: ids ORDER BY id LIMIT RowGranula OFFSET offset. *)
Selected == {id \in DOMAIN pages : pages[id].selected}
Portion ==
    LET all == SetToSortSeq(Selected, LAMBDA a, b : a < b)
        end == IF offset + RowGranula < Len(all) THEN offset + RowGranula ELSE Len(all)
    IN  SubSeq(all, offset + 1, end)

(* Somebody else decides anew about the access of a page. *)
Flip(id) ==
    /\ flips < MaxFlips /\ reportAt \in {"ids", "content"}
    /\ pages' = [pages EXCEPT ![id].selected = ~@]
    /\ flips' = flips + 1
    /\ UNCHANGED <<reportAt, offset, pagesAmount, pageIds, phrases, crossCounters, reportDb>>

CountPages ==
    /\ reportAt = "count"
    /\ pagesAmount' = Cardinality(Selected) /\ reportAt' = "ids"
    /\ UNCHANGED <<pages, offset, pageIds, phrases, crossCounters, reportDb, flips>>

(* The loop over offsets that both passes go through. *)
Advance(next) ==
    IF offset + RowGranula < pagesAmount THEN offset' = offset + RowGranula /\ UNCHANGED reportAt
    ELSE offset' = 0 /\ reportAt' = next

AddPageIds ==
    /\ reportAt = "ids"
    /\ IF pagesAmount = 0 THEN UNCHANGED pageIds ELSE pageIds' = pageIds \o Portion
    /\ Advance("fix")
    /\ UNCHANGED <<pages, pagesAmount, phrases, crossCounters, reportDb, flips>>

FixPageIds ==
    /\ reportAt = "fix" /\ reportAt' = "content"
    /\ pageIds' = SortSeq(pageIds, LAMBDA a, b : a < b)
    /\ UNCHANGED <<pages, offset, pagesAmount, phrases, crossCounters, reportDb, flips>>

(* lower_bound: of an id that is not there, the place of the next one. *)
pageId(id) == Cardinality({i \in DOMAIN pageIds : pageIds[i] < id}) + 1
InReport(id) == pageId(id) <= Len(pageIds)

-----------------------------------------------------------------------------
(* pushPageText: a word is its stem, or itself; short unknown ones are *)
(* dropped.                                                            *)
stem(word) ==
    IF word \in DOMAIN Stems THEN <<crc32[Stems[word]]>>
    ELSE IF Len(word) <= 2 THEN <<>> ELSE <<crc32[word]>>
CompressedWords(t) == FoldLeft(LAMBDA ws, w : ws \o stem(w), <<>>, Words(t))

(* Where the words of a phrase are, from the first one. *)
Offsets(size) ==
    CASE size = 1 -> {<<0>>}
      [] size = 2 -> {<<0, a>> : a \in 1 .. 3}
      [] OTHER -> {<<0, a, a + b>> : a, b \in 1 .. 3}

(* fillPhrases, compactPhrases: one entry for each phrase of a page. *)
Beginnings(ws, offs) == {i \in DOMAIN ws : i + offs[Len(offs)] <= Len(ws)}
LastMissed(ws, offs) == {i \in DOMAIN ws : i + offs[Len(offs)] < Len(ws)}
Fits(ws, offs) == Beginnings(ws, offs)
fillPhrases(size, id, ws) ==
    LET places == UNION {{<<i, offs>> : i \in Fits(ws, offs)} : offs \in Offsets(size)}
        At(p) == [k \in 1 .. size |-> ws[p[1] + p[2][k]]]
    IN  FoldSet(LAMBDA w, es : Append(es, [page |-> id, words |-> w,
                                           amount |-> Cardinality({p \in places : At(p) = w})]),
                <<>>, {At(p) : p \in places})

(* setPagesContent, row by row; page and reference are left out if their *)
(* ids are beyond the last one.                                          *)
PushRow(s, id) ==
    IF ~InReport(id) THEN s
    ELSE LET ws == CompressedWords(pages[id].text) IN
         [phrases |-> [size \in Sizes |-> s.phrases[size] \o fillPhrases(size, pageId(id), ws)],
          page |-> s.page \cup {[id |-> pageId(id), of |-> id, volume |-> Len(ws)]},
          ref |-> s.ref \cup {<<pageId(id), pageId(r)>> : r \in {r \in pages[id].refs : InReport(r)}}]
SetPagesContent ==
    /\ reportAt = "content"
    /\ LET rows == IF pagesAmount = 0 THEN <<>> ELSE Portion
           s == FoldLeft(PushRow, [phrases |-> phrases, page |-> reportDb.page, ref |-> reportDb.ref], rows)
       IN  /\ phrases' = s.phrases
           /\ reportDb' = [reportDb EXCEPT !.page = s.page, !.ref = s.ref]
    /\ Advance("eval3")
    /\ UNCHANGED <<pages, pagesAmount, pageIds, crossCounters, flips>>

-----------------------------------------------------------------------------
(* evalPhraseWeights *)

(* Half a matrix of pages. *)
crossIdx(page1Id, page2Id) == ((page2Id - 1) * (page2Id - 2)) \div 2 + page1Id - 1

(* How often two pages have a phrase, added up over the pairs of entries. *)
LocalCross(entries, words, key) ==
    MapThenSumSet(LAMBDA ij : entries[ij[1]].amount + entries[ij[2]].amount,
                  {ij \in (DOMAIN entries) \X (DOMAIN entries) :
                     /\ ij[1] < ij[2]
                     /\ entries[ij[1]].words = words /\ entries[ij[2]].words = words
                     /\ {entries[ij[1]].page, entries[ij[2]].page} = {key[1], key[2]}})

Over(n, m) == IF n > m THEN n - m ELSE 0
More(n, m) == IF n > m THEN 1 ELSE 0
AddCross(cc, n) ==
    [all |-> cc.all + n, gt1c |-> cc.gt1c + More(n, 1), gt1m1 |-> cc.gt1m1 + Over(n, 1),
     gt2c |-> cc.gt2c + More(n, 2), gt2m2 |-> cc.gt2m2 + Over(n, 2)]

(* The counters of all pairs of pages; two assertions say that there is *)
(* more than one page.                                                  *)
PagePairs == {key \in (DOMAIN pageIds) \X (DOMAIN pageIds) : key[1] < key[2]}
EvalWeights(size, next) ==
    /\ reportAt = "eval" \o ToString(size)
    /\ LET entries == phrases[size]
           n == crossIdx(1, Len(pageIds) + 1)
           AddAll(cc, key) == FoldSet(LAMBDA w, c : AddCross(c, LocalCross(entries, w, key)), cc,
                                      {w \in {entries[i].words : i \in DOMAIN entries} :
                                         LocalCross(entries, w, key) > 0})
       IN  IF Len(pageIds) < 2 THEN reportAt' = "aborted" /\ UNCHANGED <<crossCounters, phrases>>
           ELSE /\ crossCounters' =
                     [crossCounters EXCEPT ![size] =
                        [ix \in 0 .. n - 1 |->
                           FoldSet(LAMBDA key, cc : AddAll(cc, key), Zero,
                                   {key \in PagePairs : crossIdx(key[1], key[2]) = ix})]]
                /\ phrases' = [phrases EXCEPT ![size] = <<>>]
                /\ reportAt' = next
    /\ UNCHANGED <<pages, offset, pagesAmount, pageIds, reportDb, flips>>

StorePhrases ==
    /\ reportAt = "store" /\ reportAt' = "done"
    /\ reportDb' = [reportDb EXCEPT !.phrase =
         {[page1 |-> key[1], page2 |-> key[2],
           intersect |-> [s \in Sizes |-> crossCounters[s][crossIdx(key[1], key[2])]]] : key \in PagePairs}]
    /\ UNCHANGED <<pages, offset, pagesAmount, pageIds, phrases, crossCounters, flips>>

(* A query fails: the merger returns and what it has is lost. *)
ReportFails ==
    /\ reportAt \in {"count", "ids", "content"} /\ reportAt' = "failed"
    /\ UNCHANGED <<pages, offset, pagesAmount, pageIds, phrases, crossCounters, reportDb, flips>>

ReportNext ==
    \/ \E id \in DOMAIN pages : Flip(id)
    \/ CountPages \/ AddPageIds \/ FixPageIds \/ SetPagesContent
    \/ EvalWeights(3, "eval2") \/ EvalWeights(2, "eval1") \/ EvalWeights(1, "store")
    \/ StorePhrases \/ ReportFails

-----------------------------------------------------------------------------
(* Properties. *)

(* Reference definition: a phrase occurs wherever its words stand in this  *)
(* order with at most two others between neighbours; what two pages have   *)
(* in common is how often they both have it, for each phrase in both.      *)
Occurrences(ws, size) == {pos \in [1 .. size -> DOMAIN ws] : Near(pos)}
PhrasesOf(ws, size) == {[k \in 1 .. size |-> ws[pos[k]]] : pos \in Occurrences(ws, size)}
Often(ws, w) ==
    Cardinality({pos \in Occurrences(ws, Len(w)) : \A k \in DOMAIN w : ws[pos[k]] = w[k]})
InCommon(a, b, size) ==
    LET both == PhrasesOf(a, size) \cap PhrasesOf(b, size)
        n == [w \in both |-> Often(a, w) + Often(b, w)]
    IN  [all |-> MapThenSumSet(LAMBDA w : n[w], both),
         gt1c |-> Cardinality({w \in both : n[w] > 1}),
         gt1m1 |-> MapThenSumSet(LAMBDA w : n[w] - 1, {w \in both : n[w] > 1}),
         gt2c |-> Cardinality({w \in both : n[w] > 2}),
         gt2m2 |-> MapThenSumSet(LAMBDA w : n[w] - 2, {w \in both : n[w] > 2})]

(* A report is about the selected pages, numbered by their ids, with their *)
(* references and what every two of them have in common, however they were *)
(* read in portions.  A change between two portions makes it inexact; and  *)
(* a reference to a page that is not in the report is taken for one to the *)
(* next page that is.                                                      *)
Ranked == SetToSortSeq(Selected, LAMBDA a, b : a < b)
WordsOf(i) == CompressedWords(pages[Ranked[i]].text)
ReportExact ==
    reportAt = "done" /\ flips = 0 =>
      /\ reportDb.page = {[id |-> i, of |-> Ranked[i], volume |-> Len(WordsOf(i))] : i \in DOMAIN Ranked}
      /\ \A i, j \in DOMAIN Ranked :
           /\ Ranked[j] \in pages[Ranked[i]].refs => <<i, j>> \in reportDb.ref
           /\ <<i, j>> \in reportDb.ref /\ pages[Ranked[i]].refs \subseteq Selected =>
                Ranked[j] \in pages[Ranked[i]].refs
      /\ reportDb.phrase =
           {[page1 |-> key[1], page2 |-> key[2],
             intersect |-> [s \in Sizes |-> InCommon(WordsOf(key[1]), WordsOf(key[2]), s)]] :
              key \in {k \in (DOMAIN Ranked) \X (DOMAIN Ranked) : k[1] < k[2]}}

(* Texts are cut into words and phrases, and phrases are counted, as the   *)
(* definitions say.                                                        *)
TextsCounted == TextExact /\ ReportExact
=============================================================================
