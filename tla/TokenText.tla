------------------------------ MODULE TokenText ------------------------------
(***************************************************************************)
(* Text to tokens and back (tokenizer.rs).  A text is a sequence of code   *)
(* points.  A vocabulary v is what from_gguf builds: its `model', the      *)
(* dialect `pre', `tokens' (a function of the ids; a token has a text, a   *)
(* kind, a score, and a `byte' when its text is <0xNN>, which no text      *)
(* spells), the merge `ranks', the `special' ids, the set `eog' and flags. *)
(* A sequence with NoToken in it, or a text with NoByte, is an error.      *)
(***************************************************************************)
EXTENDS Integers, SequencesExt

CONSTANTS
    EOG_MARKER_TEXTS,       \* the well-known ends of a turn
    BeginText, EndText, EotText,        \* <|begin_of_text|> and its like
    InstText, EndInstText   \* [INST] and [/INST]

NoToken == -1
NoByte == -1

SPM_SPACE == 9601
SPACE == 32
NewLines == {10, 13}
IsLetter(c) == c \in (65..90) \cup (97..122) \cup (192..255)
IsNumber(c) == c \in 48..57
IsWhitespace(c) == c \in NewLines \cup {9, SPACE, 160}
IsMark(c) == c \in 768..879
Lower(c) == IF c \in 65..90 THEN c + 32 ELSE c

-----------------------------------------------------------------------------
(* UTF-8, and what of it str::from_utf8 takes.                              *)

Utf8(c) ==
    CASE c < 128 -> <<c>>
      [] c \in 128..2047 -> <<192 + (c \div 64), 128 + (c % 64)>>
      [] c \in 2048..65535 -> <<224 + (c \div 4096), 128 + ((c \div 64) % 64), 128 + (c % 64)>>
BytesOf(text) == FlattenSeq([i \in DOMAIN text |-> Utf8(text[i])])

Width(b) == CASE b < 128 -> 1 [] b \in 194..223 -> 2 [] b \in 224..239 -> 3
              [] b \in 240..244 -> 4 [] OTHER -> 0
SecondByte(b) == CASE b = 224 -> 160..191 [] b = 237 -> 128..159
                   [] b = 240 -> 144..191 [] b = 244 -> 128..143 [] OTHER -> 128..191
Follow(bytes, i, j) ==      \* the bytes up to j go on with the character at i
    \A k \in (i + 1)..j : bytes[k] \in (IF k = i + 1 THEN SecondByte(bytes[i]) ELSE 128..191)
Complete(bytes, i) ==
    LET last == i + Width(bytes[i]) - 1 IN
    last \in i..Len(bytes) /\ Follow(bytes, i, last)
\* Mutant: what is incomplete is shown.
X_ValidUpTo_All(bytes) == Len(bytes)
ValidUpTo(bytes) ==
    LET upTo[i \in 1..(Len(bytes) + 1)] ==
            IF i <= Len(bytes) /\ Complete(bytes, i) THEN upTo[i + Width(bytes[i])] ELSE i - 1
    IN upTo[1]
Valid(bytes) == SubSeq(bytes, 1, ValidUpTo(bytes))

-----------------------------------------------------------------------------
(* The vocabulary. *)

Ids(v) == DOMAIN v.tokens
WithText(v, text) == {id \in Ids(v) : v.tokens[id].byte = NoByte /\ v.tokens[id].text = text}
Greatest(ids) == IF ids = {} THEN NoToken ELSE CHOOSE id \in ids : \A other \in ids : other <= id
\* token_to_id and byte_token_to_id: of equal texts the last one stays.
TokenToId(v, text) == Greatest(WithText(v, text))
ByteToId(v, byte) == Greatest({id \in Ids(v) : v.tokens[id].byte = byte})

SpecialNames == {"bos", "eos", "eot", "eom", "unk", "sep", "pad", "mask"}
IsSpecial(v, id) == \E name \in SpecialNames \ {"unk"} : v.special[name] = id
IsChatControlMarker(token) ==
    LET n == Len(token.text) IN
    /\ token.kind = "UserDefined" /\ token.byte = NoByte /\ n >= 2
    /\ SubSeq(token.text, 1, 2) = <<60, 124>> /\ SubSeq(token.text, n - 1, n) = <<124, 62>>

\* from_gguf, of the tokenizer's metadata m: absent arrays are <<>>, absent ids NoToken.
TokenizerIsSound(m) ==
    /\ m.model \in {"llama", "gemma4", "gpt2"}
    /\ m.texts # <<>>
    /\ m.model = "gpt2" => \/ m.pre \in {"llama-bpe", "qwen2", "qwen35"}
                           \/ m.pre = "absent" /\ m.llama3Signature
    /\ \A length \in {Len(m.scores), Len(m.kinds)} : length = 0 \/ length >= Len(m.texts)
Dialect(m) == CASE m.model # "gpt2" \/ m.pre \in {"llama-bpe", "absent"} -> "Llama3"
                [] m.model = "gpt2" /\ m.pre = "qwen2" -> "Qwen2"
                [] m.model = "gpt2" /\ m.pre = "qwen35" -> "Qwen35"
FromGguf(m) ==
    LET spm == m.model # "gpt2"
        Or(id, other) == IF id = NoToken THEN other ELSE id
        tokens == [id \in 0..(Len(m.texts) - 1) |->
                      [text |-> m.texts[id + 1], byte |-> m.bytes[id + 1],
                       score |-> IF m.scores = <<>> THEN 0 ELSE m.scores[id + 1],
                       kind |-> IF m.kinds = <<>> THEN "Normal" ELSE m.kinds[id + 1]]]
        IdOfText(text) == TokenToId([tokens |-> tokens], text)
        defaults == [bos |-> IF spm THEN 1 ELSE IdOfText(BeginText),
                     eos |-> IF spm THEN 2 ELSE IdOfText(EndText),
                     unk |-> IF spm THEN 0 ELSE NoToken,
                     eot |-> IdOfText(EotText)]
        special == [name \in SpecialNames |->
                       IF name \in DOMAIN defaults THEN Or(m.ids[name], defaults[name])
                                                   ELSE m.ids[name]]
    IN [model |-> IF spm THEN "LlamaSpm" ELSE "Gpt2Bpe", pre |-> Dialect(m), tokens |-> tokens,
        ranks |-> m.merges, special |-> special,
        eog |-> ({special.eos, special.eot, special.eom}
                 \cup {IdOfText(text) : text \in EOG_MARKER_TEXTS}) \ {NoToken},
        addBos |-> m.model = "gemma4" \/ m.addBos, addEos |-> m.addEos,
        addSpacePrefix |-> m.addSpacePrefix]
SpecialIdsAreSound(v) ==
    \A name \in SpecialNames : v.special[name] \in Ids(v) \cup {NoToken}

-----------------------------------------------------------------------------
(* The byte-level alphabet and the split into segments.                     *)

VisibleBytes == (33..126) \cup (161..172) \cup (174..255)
BpeByteToChar ==
    [b \in 0..255 |-> IF b \in VisibleBytes THEN b
                      ELSE 256 + Cardinality((0..(b - 1)) \ VisibleBytes)]
BpeCharToByte(c) ==
    IF \E b \in 0..255 : BpeByteToChar[b] = c THEN CHOOSE b \in 0..255 : BpeByteToChar[b] = c
                                              ELSE NoByte

DigitGroupMax(d) == IF d = "Llama3" THEN 3 ELSE 1
IsLetterClass(d, c) == IsLetter(c) \/ (d = "Qwen35" /\ IsMark(c))
IsPunctuation(d, c) == ~IsWhitespace(c) /\ ~IsLetterClass(d, c) /\ ~IsNumber(c)

\* The end of the run, from i, of characters a test accepts: i - 1 when there is none.
RunEnd(text, i, Test(_)) ==
    LET stops == {k \in i..Len(text) : ~Test(text[k])} IN
    IF stops = {} THEN Len(text) ELSE (CHOOSE k \in stops : \A l \in stops : k <= l) - 1

Contractions == {<<39, 115>>, <<39, 116>>, <<39, 114, 101>>, <<39, 118, 101>>, <<39, 109>>,
                 <<39, 108, 108>>, <<39, 100>>}
ConsumeContraction(text, i) ==
    LET Matches(s) == /\ i + Len(s) - 1 <= Len(text)
                      /\ \A k \in DOMAIN s : Lower(text[i + k - 1]) = s[k]
        found == {s \in Contractions : Matches(s)}
    IN IF found = {} THEN 0 ELSE i + Len(CHOOSE s \in found : TRUE) - 1
ConsumeOptionalPrefixLetters(text, i, d) ==
    LET Letter(c) == IsLetterClass(d, c) IN
    CASE Letter(text[i]) -> RunEnd(text, i, Letter)
      [] /\ ~Letter(text[i]) /\ text[i] \notin NewLines /\ ~IsNumber(text[i])
         /\ i < Len(text) /\ Letter(text[i + 1]) -> RunEnd(text, i + 1, Letter)
      [] OTHER -> 0
ConsumeDigits(text, i, d) ==
    LET end == RunEnd(text, i, IsNumber) IN
    IF end < i + DigitGroupMax(d) THEN end ELSE i + DigitGroupMax(d) - 1
ConsumeOptionalSpacePunctuation(text, i, d) ==
    LET Mark(c) == IsPunctuation(d, c)
        start == IF text[i] = SPACE THEN i + 1 ELSE i
    IN IF start <= Len(text) /\ Mark(text[start])
       THEN RunEnd(text, RunEnd(text, start, Mark) + 1, LAMBDA c : c \in NewLines) ELSE 0
\* Mutant: the whole run of whitespace, whatever follows its last newline.
X_ConsumeWhitespaceWithNewline_Whole(text, i) ==
    LET end == RunEnd(text, i, IsWhitespace) IN
    IF \E k \in i..end : text[k] \in NewLines THEN end ELSE 0
ConsumeWhitespaceWithNewline(text, i) ==
    LET newlines == {k \in i..RunEnd(text, i, IsWhitespace) : text[k] \in NewLines} IN
    IF newlines = {} THEN 0 ELSE CHOOSE k \in newlines : \A l \in newlines : l <= k
\* One space is left for the segment that follows.
ConsumeWhitespaceBeforeNonspace(text, i) ==
    LET end == RunEnd(text, i, IsWhitespace) IN
    IF end < Len(text) /\ end > i THEN end - 1 ELSE end

\* next_llama_bpe_segment_end: the first that consumes anything.
NextSegmentEnd(text, i, d) ==
    LET contraction == ConsumeContraction(text, i)
        letters == ConsumeOptionalPrefixLetters(text, i, d)
        punctuation == ConsumeOptionalSpacePunctuation(text, i, d)
        newline == ConsumeWhitespaceWithNewline(text, i)
    IN CASE contraction # 0 -> contraction
         [] contraction = 0 /\ letters # 0 -> letters
         [] contraction = 0 /\ letters = 0 /\ IsNumber(text[i]) -> ConsumeDigits(text, i, d)
         [] contraction = 0 /\ letters = 0 /\ ~IsNumber(text[i]) /\ punctuation # 0 -> punctuation
         [] contraction = 0 /\ letters = 0 /\ punctuation = 0 /\ newline # 0 -> newline
         [] letters = 0 /\ newline = 0 /\ IsWhitespace(text[i]) /\ punctuation = 0 ->
                ConsumeWhitespaceBeforeNonspace(text, i)

\* The pieces of a text cut where EndOf says.
Cut(text, EndOf(_)) ==
    LET from[i \in 1..(Len(text) + 1)] ==
            IF i > Len(text) THEN <<>> ELSE <<SubSeq(text, i, EndOf(i))>> \o from[EndOf(i) + 1]
    IN from[1]
PreTokenize(text, d) == Cut(text, LAMBDA i : NextSegmentEnd(text, i, d))

-----------------------------------------------------------------------------
(* Merging. *)

NoRank == 0
\* Of two merges of one pair the later one counts.
Rank(ranks, left, right) ==
    LET at == {r \in DOMAIN ranks : ranks[r] = <<left, right>>} IN
    IF at = {} THEN NoRank ELSE CHOOSE r \in at : \A other \in at : other <= r
\* Every occurrence of the pair, from the left.
MergePair(symbols, left, right) ==
    LET n == Len(symbols)
        from[i \in 1..(n + 2)] ==
            CASE i > n -> <<>>
              [] i < n /\ SubSeq(symbols, i, i + 1) = <<left, right>> -> <<left \o right>> \o from[i + 2]
              [] OTHER -> <<symbols[i]>> \o from[i + 1]
    IN from[1]
MergeBest(ranks, symbols) ==
    LET RankAt(i) == Rank(ranks, symbols[i], symbols[i + 1])
        ranked == {i \in 1..(Len(symbols) - 1) : RankAt(i) # NoRank}
        best == CHOOSE i \in ranked : \A j \in ranked : RankAt(i) < RankAt(j)
                                                        \/ (RankAt(i) = RankAt(j) /\ i <= j)
    IN IF ranked = {} THEN symbols ELSE MergePair(symbols, symbols[best], symbols[best + 1])
\* A step leaves one symbol less, or nothing is left to merge.
Merged(Step(_), symbols) == FoldLeft(LAMBDA s, i : Step(s), symbols, symbols)
MergeSymbols(ranks, symbols) == Merged(LAMBDA s : MergeBest(ranks, s), symbols)

Symbols(text) == [i \in DOMAIN text |-> <<text[i]>>]
DoubleSpace(text) ==
    \E i \in 1..(Len(text) - 1) : SubSeq(text, i, i + 1) = <<SPM_SPACE, SPM_SPACE>>
\* merge_spm_symbols_by_score: the pair whose token scores best, the first of equals.
MergeByScore(v, symbols) ==
    LET Joined(i) == symbols[i] \o symbols[i + 1]
        Score(i) == v.tokens[TokenToId(v, Joined(i))].score
        scored == {i \in 1..(Len(symbols) - 1) :
                      ~DoubleSpace(Joined(i)) /\ TokenToId(v, Joined(i)) # NoToken}
        best == CHOOSE i \in scored : \A j \in scored : Score(i) > Score(j)
                                                        \/ (Score(i) = Score(j) /\ i <= j)
    IN IF scored = {} THEN symbols
       ELSE SubSeq(symbols, 1, best - 1) \o <<Joined(best)>>
            \o SubSeq(symbols, best + 2, Len(symbols))

-----------------------------------------------------------------------------
(* Special tokens in a text. *)

StartsWith(text, i, word) ==
    i + Len(word) - 1 <= Len(text) /\ SubSeq(text, i, i + Len(word) - 1) = word
\* longest_control_token_at: <<>> when there is none.
LongestSpecialAt(v, text, i, control) ==
    LET kinds == {"UserDefined"} \cup (IF control THEN {"Control"} ELSE {})
        texts == {v.tokens[id].text : id \in {j \in Ids(v) : v.tokens[j].kind \in kinds
                                                  /\ v.tokens[j].byte = NoByte}}
        found == {word \in texts : word # <<>> /\ StartsWith(text, i, word)}
    IN IF found = {} THEN <<>>
       ELSE CHOOSE word \in found : \A other \in found : Len(other) <= Len(word)
\* The end of what lies before the next special token.
PlainEnd(v, text, i, control) ==
    LET special == {k \in i..Len(text) : LongestSpecialAt(v, text, k, control) # <<>>} IN
    IF special = {} THEN Len(text) ELSE (CHOOSE k \in special : \A l \in special : k <= l) - 1
\* A text taken from the left: a special token at a time, or what lies before the next one.
Partitioned(v, text, control, OfSpecial(_, _), OfPlain(_)) ==
    LET from[i \in 1..(Len(text) + 1)] ==
            IF i > Len(text) THEN <<>>
            ELSE LET word == LongestSpecialAt(v, text, i, control)
                     end == PlainEnd(v, text, i, control) IN
                 IF word # <<>> THEN OfSpecial(word, i + Len(word)) \o from[i + Len(word)]
                                ELSE OfPlain(SubSeq(text, i, end)) \o from[end + 1]
    IN from[1]

EncodeBpeSegment(v, segment) ==
    LET symbols == MergeSymbols(v.ranks, Symbols([i \in DOMAIN BytesOf(segment) |->
                                                     BpeByteToChar[BytesOf(segment)[i]]]))
    IN [i \in DOMAIN symbols |-> TokenToId(v, symbols[i])]
EncodeBpeText(v, text, parseSpecial) ==
    Partitioned(v, text, parseSpecial,
        LAMBDA word, next : <<TokenToId(v, word)>>,
        LAMBDA plain : LET segments == PreTokenize(plain, v.pre) IN
            FlattenSeq([i \in DOMAIN segments |-> EncodeBpeSegment(v, segments[i])]))

-----------------------------------------------------------------------------
(* SentencePiece. *)

ShouldInsertDummyAfter(v, word, text, next) ==
    LET instruct == TokenToId(v, InstText) # NoToken /\ TokenToId(v, EndInstText) # NoToken
        bos == v.special.bos # NoToken /\ word = v.tokens[v.special.bos].text
    IN /\ next <= Len(text)
       /\ LongestSpecialAt(v, text, next, TRUE) = <<>>
       /\ ~(instruct /\ bos /\ StartsWith(text, next, InstText))
       /\ (instruct /\ word = InstText) \/ text[next] # SPM_SPACE

\* add_dummy_prefix_after_control_tokens
AddDummyPrefixes(v, text) ==
    IF ~v.addSpacePrefix THEN text
    ELSE Partitioned(v, text, TRUE,
             LAMBDA word, next :
                 word \o IF ShouldInsertDummyAfter(v, word, text, next) THEN <<SPM_SPACE>> ELSE <<>>,
             LAMBDA plain : plain)
Normalize(v, text, parseSpecial) ==
    LET prefix == v.addSpacePrefix /\ ~(parseSpecial /\ LongestSpecialAt(v, text, 1, TRUE) # <<>>)
        spaced == [i \in DOMAIN text |-> IF text[i] = SPACE THEN SPM_SPACE ELSE text[i]]
        whole == (IF prefix THEN <<SPM_SPACE>> ELSE <<>>) \o spaced
    IN IF text = <<>> THEN <<>> ELSE IF parseSpecial THEN whole ELSE AddDummyPrefixes(v, whole)

EncodeUnknownSymbol(v, c) ==
    [i \in DOMAIN Utf8(c) |->
        IF ByteToId(v, Utf8(c)[i]) # NoToken THEN ByteToId(v, Utf8(c)[i]) ELSE v.special.unk]
\* The longest token from here on, of any kind; a character that begins none goes by its bytes.
EncodePieceGreedy(v, piece) ==
    LET from[i \in 1..(Len(piece) + 1)] ==
            LET ends == {k \in i..Len(piece) : /\ ~DoubleSpace(SubSeq(piece, i, k))
                                               /\ TokenToId(v, SubSeq(piece, i, k)) # NoToken}
                end == CHOOSE k \in ends : \A l \in ends : l <= k
            IN CASE i > Len(piece) -> <<>>
                 [] i <= Len(piece) /\ ends = {} -> EncodeUnknownSymbol(v, piece[i]) \o from[i + 1]
                 [] i <= Len(piece) /\ ends # {} ->
                        <<TokenToId(v, SubSeq(piece, i, end))>> \o from[end + 1]
    IN from[1]
\* What no token spells is gathered until one comes, and then taken greedily.
EncodeSpmSegment(v, segment) ==
    LET symbols == IF v.ranks = <<>> THEN Merged(LAMBDA s : MergeByScore(v, s), Symbols(segment))
                                     ELSE MergeSymbols(v.ranks, Symbols(segment))
        Deferred(symbol) == (v.ranks = <<>> /\ DoubleSpace(symbol)) \/ TokenToId(v, symbol) = NoToken
        Take(acc, symbol) ==
            IF Deferred(symbol) THEN [acc EXCEPT !.unresolved = @ \o symbol]
            ELSE [out |-> acc.out \o EncodePieceGreedy(v, acc.unresolved) \o <<TokenToId(v, symbol)>>,
                  unresolved |-> <<>>]
        taken == FoldLeft(Take, [out |-> <<>>, unresolved |-> <<>>], symbols)
    IN taken.out \o EncodePieceGreedy(v, taken.unresolved)
EncodePiece(v, piece, parseSpecial) ==
    LET dummy == TokenToId(v, <<SPM_SPACE>>)
        OfSpecial(word, next) ==
            <<TokenToId(v, word)>>
            \o IF /\ v.addSpacePrefix /\ dummy # NoToken
                  /\ ShouldInsertDummyAfter(v, word, piece, next) THEN <<dummy>> ELSE <<>>
    IN CASE parseSpecial ->
              Partitioned(v, piece, TRUE, OfSpecial, LAMBDA plain : EncodeSpmSegment(v, plain))
         [] ~parseSpecial /\ v.ranks = <<>> -> EncodePieceGreedy(v, piece)
         [] ~parseSpecial /\ v.ranks # <<>> -> EncodeSpmSegment(v, piece)

EncodeText(v, text, parseSpecial) ==
    IF v.model = "LlamaSpm" THEN EncodePiece(v, Normalize(v, text, parseSpecial), parseSpecial)
                            ELSE EncodeBpeText(v, text, parseSpecial)
Encode(v, text, addSpecial, parseSpecial) ==
    LET Framing(add, id) == IF addSpecial /\ add /\ id # NoToken THEN <<id>> ELSE <<>> IN
    Framing(v.addBos, v.special.bos) \o EncodeText(v, text, parseSpecial)
        \o Framing(v.addEos, v.special.eos)

-----------------------------------------------------------------------------
(* Decoding: the bytes of a text. *)

\* Mutant: the special ids are shown.
X_IsRemoved_No(v, id) == FALSE
IsRemoved(v, id) ==
    IsSpecial(v, id) \/ v.tokens[id].kind = "Control" \/ IsChatControlMarker(v.tokens[id])
Kept(v, ids, removeSpecial) == SelectSeq(ids, LAMBDA id : ~(removeSpecial /\ IsRemoved(v, id)))

\* flush_bytes: of the bytes gathered, what is valid; the rest is lost.
Flushed(acc) == [text |-> acc.text \o Valid(acc.bytes), bytes |-> <<>>]
DecodeSpm(v, ids) ==
    LET Take(acc, id) ==
            LET token == v.tokens[id]
                shown == [i \in DOMAIN token.text |->
                             IF token.text[i] = SPM_SPACE THEN SPACE ELSE token.text[i]]
            IN IF token.byte # NoByte THEN [acc EXCEPT !.bytes = Append(@, token.byte)]
               ELSE [Flushed(acc) EXCEPT !.text = @ \o BytesOf(shown)]
    IN Flushed(FoldLeft(Take, [text |-> <<>>, bytes |-> <<>>], ids)).text
BpeBytes(v, id) == LET text == v.tokens[id].text IN [i \in DOMAIN text |-> BpeCharToByte(text[i])]
DecodeBpe(v, ids) ==
    LET bytes == FlattenSeq([i \in DOMAIN ids |-> BpeBytes(v, ids[i])]) IN
    IF NoByte \in Range(bytes) THEN <<NoByte>> ELSE Valid(bytes)
Decode(v, ids, removeSpecial) ==
    IF v.model = "LlamaSpm" THEN DecodeSpm(v, Kept(v, ids, removeSpecial))
                            ELSE DecodeBpe(v, Kept(v, ids, removeSpecial))

\* IncrementalDecoder: an id too many leaves it as it was.
NewDecoder == [ids |-> <<>>, emitted |-> <<>>]
PushFails(v, decoder, id) ==
    LET decoded == Decode(v, Append(decoder.ids, id), TRUE) IN
    decoded = <<NoByte>> \/ ~IsPrefix(decoder.emitted, decoded)
Pushed(v, decoder, id) ==
    [ids |-> Append(decoder.ids, id), emitted |-> Decode(v, Append(decoder.ids, id), TRUE)]
Delta(before, after) == SubSeq(after.emitted, Len(before.emitted) + 1, Len(after.emitted))

-----------------------------------------------------------------------------
(* What the comment on bpe_pretokenize_with says the split is: at every place *)
(* the first alternative of the expression that matches, as far as it goes.  *)

Alternatives(text, i, d) ==
    LET n == Len(text)
        All(from, to, Test(_)) == \A k \in from..to : Test(text[k])
        Letter(c) == IsLetterClass(d, c)
        Mark(c) == IsPunctuation(d, c)
        Newline(c) == c \in NewLines
        NonSpaceFollows(k) == k < n /\ ~IsWhitespace(text[k + 1])
    IN <<{k \in i..n : [j \in 1..(k - i + 1) |-> Lower(text[i + j - 1])] \in Contractions},
         {k \in i..n : \E j \in {i, i + 1} :
              /\ j <= k /\ All(j, k, Letter)
              /\ All(i, j - 1, LAMBDA c : ~Newline(c) /\ ~IsLetter(c) /\ ~IsNumber(c))},
         {k \in i..n : k - i < DigitGroupMax(d) /\ All(i, k, IsNumber)},
         {k \in i..n : \E j \in {i, i + 1}, m \in i..k :
              /\ All(i, j - 1, LAMBDA c : c = SPACE) /\ j <= m
              /\ All(j, m, Mark) /\ All(m + 1, k, Newline)},
         {k \in i..n : All(i, k, IsWhitespace) /\ Newline(text[k])},
         {k \in i..n : All(i, k, IsWhitespace) /\ ~NonSpaceFollows(k)},
         {k \in i..n : All(i, k, IsWhitespace)}>>
MatchEnd(text, i, d) ==
    LET alternatives == Alternatives(text, i, d)
        ends == alternatives[CHOOSE a \in 1..7 : /\ alternatives[a] # {}
                                                 /\ \A b \in 1..(a - 1) : alternatives[b] = {}]
    IN CHOOSE k \in ends : \A l \in ends : l <= k
SplitByExpression(text, d) == Cut(text, LAMBDA i : MatchEnd(text, i, d))
=============================================================================
