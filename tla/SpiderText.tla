----------------------------- MODULE SpiderText -----------------------------
(***************************************************************************)
(* What spider makes of the text of a page: TextParser                     *)
(* (src/spider/textParser.cpp) cuts it into words, each a bucket of        *)
(* meanings, and PhraseStreamer and Phrase (phraseStreamer.hpp,            *)
(* phrase.hpp) go through all phrases of two and three words with up to    *)
(* two words skipped between them.                                         *)
(*                                                                         *)
(* A character is a category and a letter; a word is a sequence of         *)
(* characters.  hunspell is external: it knows meanings of some words.     *)
(* The checksum of a meaning is the meaning itself.                        *)
(***************************************************************************)
EXTENDS Naturals, Sequences, FiniteSets, SequencesExt, Folds

CONSTANTS Texts,       \* texts pushed, sequences of characters
          Meanings,    \* hunspell: the meanings of a word
          BucketLists  \* what the phrases are made of

VARIABLES text, textWords, buckets, visited, textAt
textVars == <<text, textWords, buckets, visited, textAt>>

-----------------------------------------------------------------------------
(* TextParser::push *)

(* The letter or symbol the switch over the category finds: an upper case  *)
(* letter is lowered, digits are all alike; letters that have no case are  *)
(* neither, and no space.                                                  *)
KindOf(c) ==
    CASE c.category \in {"LU", "LL", "LT"} -> "letters"
      [] c.category \in {"N", "S", "P", "M"} -> "symbols"
      [] c.category \in {"LO", "LM"} -> "nothing"
      [] OTHER -> "space"
CharOf(c) ==
    CASE c.category = "LU" -> [c EXCEPT !.category = "LL"]
      [] c.category = "N" -> [c EXCEPT !.letter = "N"]
      [] OTHER -> c

(* pushWord: an empty word is none. *)
Pushed(state) == [state EXCEPT !.words = IF state.chars = <<>> THEN @ ELSE Append(@, state.chars),
                               !.chars = <<>>, !.ewt = "null"]

(* One round of the loop over the characters. *)
MixedKinds(state, c) ==
    IF KindOf(c) = "nothing" THEN state
    ELSE IF KindOf(c) = "space" THEN Pushed(state)
    ELSE [state EXCEPT !.chars = Append(@, CharOf(c)), !.ewt = KindOf(c)]
PushChar(state, c) ==
    IF KindOf(c) = "nothing" THEN state
    ELSE IF KindOf(c) = "space" THEN Pushed(state)
    ELSE LET s == IF state.ewt \in {"null", KindOf(c)} THEN state ELSE Pushed(state)
         IN  [s EXCEPT !.chars = Append(@, CharOf(c)), !.ewt = KindOf(c)]

Words(t) == Pushed(FoldLeft(PushChar, [words |-> <<>>, chars |-> <<>>, ewt |-> "null"], t)).words

(* pushWord of a string: what hunspell says of it, and the word itself. *)
Bucket(word) == Meanings[word] \cup {word}

PushText ==
    /\ textAt = "text"
    /\ textWords' = Words(text)
    /\ buckets' = [i \in DOMAIN Words(text) |-> Bucket(Words(text)[i])]
    /\ textAt' = "parsed"
    /\ UNCHANGED <<text, visited>>

-----------------------------------------------------------------------------
(* PhraseStreamer<volume, sp1, sp2> and Phrase<volume>.  A phrase is the   *)
(* positions of its words, a combination chooses a meaning for each.       *)

AreaSize(volume, gaps) == volume + gaps[1] + (IF volume > 2 THEN gaps[2] ELSE 0)
WordIndices(gaps) == <<0, 1 + gaps[1], 2 + gaps[1] + gaps[2]>>

(* next, until it returns false. *)
Phrases(length, volume, gaps) ==
    IF length < AreaSize(volume, gaps) THEN {}
    ELSE {[i \in 1 .. volume |-> pos + WordIndices(gaps)[i]] : pos \in 1 .. length - AreaSize(volume, gaps) + 1}

(* nextCombination counts _wordIndices up, the first one fastest, ... *)
CountUp(ix, sizes) ==
    LET step[i \in 0 .. Len(ix) - 1] ==
          IF i = 0 THEN [ix EXCEPT ![1] = @ + 1]
          ELSE IF step[i - 1][i] >= sizes[i]
          THEN [step[i - 1] EXCEPT ![i] = 0, ![i + 1] = @ + 1]
          ELSE step[i - 1]
    IN  step[Len(ix) - 1]

(* ... and has finished when the last one has run over. *)
Combinations(sizes) ==
    LET volume == Len(sizes)
        bound == FoldFunction(LAMBDA a, b : a * b, 1, sizes)
        at[n \in 0 .. bound] ==
          IF n = 0 THEN [i \in 1 .. volume |-> 0] ELSE CountUp(at[n - 1], sizes)
        ends == {n \in 0 .. bound : at[n][volume] >= sizes[volume]}
    IN  [n \in 1 .. CHOOSE e \in ends : \A m \in ends : e <= m |-> at[n - 1]]

(* The streamers of updatePageWords: two words, then three. *)
Streamers == {<<2, <<g, 0>>>> : g \in 0 .. 2} \cup {<<3, <<g, h>>>> : g, h \in 0 .. 2}

SizesAt(phrase) == [i \in DOMAIN phrase |-> Cardinality(buckets[phrase[i]])]
Visits(s) ==
    UNION {{<<phrase, n, Combinations(SizesAt(phrase))[n]>> : n \in DOMAIN Combinations(SizesAt(phrase))} :
             phrase \in Phrases(Len(buckets), s[1], s[2])}

(* updatePageWords: every combination reaches updatePageWords2 or 3, which *)
(* return before they write it.                                            *)
StreamPhrases ==
    /\ textAt = "parsed"
    /\ visited' = UNION {Visits(s) : s \in Streamers}
    /\ textAt' = "streamed"
    /\ UNCHANGED <<text, textWords, buckets>>

TextStart(t) ==
    /\ text = t /\ textWords = <<>> /\ buckets = <<>> /\ visited = {} /\ textAt = "text"

(* A text, or a list of buckets from a longer one. *)
TextInit ==
    \/ \E t \in Texts : TextStart(t)
    \/ \E b \in BucketLists :
         text = <<>> /\ textWords = <<>> /\ buckets = b /\ visited = {} /\ textAt = "parsed"

TextNext == PushText \/ StreamPhrases
TextSpec == TextInit /\ [][TextNext]_textVars

-----------------------------------------------------------------------------
(* Properties. *)

(* Reference definition: the pieces of the text that lie between two       *)
(* characters of different kinds, without the characters that are nothing. *)
Audible(t) == SelectSeq(t, LAMBDA c : KindOf(c) # "nothing")
Pieces(t) ==
    {p \in {<<i, j>> : i, j \in DOMAIN t} :
       /\ p[1] <= p[2]
       /\ KindOf(t[p[1]]) # "space"
       /\ \A k \in p[1] .. p[2] : KindOf(t[k]) = KindOf(t[p[1]])
       /\ p[1] = 1 \/ KindOf(t[p[1] - 1]) # KindOf(t[p[1]])
       /\ p[2] = Len(t) \/ KindOf(t[p[2] + 1]) # KindOf(t[p[2]])}
WordsExact ==
    text # <<>> /\ textAt = "parsed" =>
      textWords = [n \in 1 .. Cardinality(Pieces(Audible(text))) |->
                     LET p == CHOOSE q \in Pieces(Audible(text)) :
                                Cardinality({o \in Pieces(Audible(text)) : o[1] <= q[1]}) = n
                     IN  [k \in 1 .. p[2] - p[1] + 1 |-> CharOf(Audible(text)[p[1] + k - 1])]]

(* Every choice of two or three words with at most two between neighbours, *)
(* and every choice of their meanings, is visited once, however many       *)
(* meanings the words have, and also at both ends of the text.             *)
Near(phrase) == \A i \in 1 .. Len(phrase) - 1 : phrase[i + 1] - phrase[i] \in 1 .. 3
MeaningsOf(phrase) == {c \in [DOMAIN phrase -> 0 .. 3] : \A i \in DOMAIN phrase : c[i] < SizesAt(phrase)[i]}
PhrasesExact ==
    textAt = "streamed" =>
      LET all == UNION {{phrase \in [1 .. n -> DOMAIN buckets] : Near(phrase)} : n \in {2, 3}}
      IN  /\ {<<v[1], v[3]>> : v \in visited} = UNION {{<<phrase, c>> : c \in MeaningsOf(phrase)} : phrase \in all}
          /\ \A v, w \in visited : v[1] = w[1] /\ v[3] = w[3] => v = w

(* TextParser and the streamers agree with their references. *)
TextExact == WordsExact /\ PhrasesExact
=============================================================================
