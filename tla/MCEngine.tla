------------------------------- MODULE MCEngine -------------------------------
(* Small files, whole and flawed, three kinds of vocabulary and short texts. *)
EXTENDS Engine

-----------------------------------------------------------------------------
(* Vocabularies over a, s, ', 1, ., <, |, >, [, ], space, newline, e acute, the euro
   sign and an accent; b is spelled by none of their tokens. *)

Bos == <<60, 115, 62>>          \* <s>
Eos == <<60, 62>>               \* <>
Think == <<60, 97, 62>>         \* <a>
Marker == <<60, 124, 62>>       \* <|>: begins "<|" and ends "|>"
MCMarkers == {Marker}
MCBegin == Bos
MCEnd == Eos
MCEot == <<60, 124, 115>>
MCInst == <<91>>
MCEndInst == <<93>>

UsedBytes == <<10, 32, 39, 46, 49, 60, 62, 91, 93, 97, 115, 124, 129, 130, 169, 172, 195, 204, 226>>
EntryOf(text, kind, score) == [text |-> text, byte |-> NoByte, kind |-> kind, score |-> score]
Padded(entries, n) == entries \o [i \in 1..(n - Len(entries)) |-> EntryOf(<<>>, "Unused", 0)]

Metadata(entries, model, pre, merges) ==
    [model |-> model, pre |-> pre, llama3Signature |-> FALSE, merges |-> merges,
     texts |-> [i \in DOMAIN entries |-> entries[i].text],
     bytes |-> [i \in DOMAIN entries |-> entries[i].byte],
     kinds |-> [i \in DOMAIN entries |-> entries[i].kind],
     scores |-> [i \in DOMAIN entries |-> entries[i].score],
     ids |-> [name \in SpecialNames |-> NoToken],
     addBos |-> TRUE, addEos |-> FALSE, addSpacePrefix |-> TRUE]

SpmEntries ==
    <<EntryOf(<<60>>, "Unknown", 0), EntryOf(Bos, "Control", 0), EntryOf(Eos, "Control", 0),
      EntryOf(Think, "UserDefined", 0), EntryOf(Marker, "UserDefined", 0),
      EntryOf(MCInst, "UserDefined", 0), EntryOf(MCEndInst, "UserDefined", 0),
      EntryOf(<<9601>>, "Normal", -9), EntryOf(<<97>>, "Normal", -8), EntryOf(<<115>>, "Normal", -8),
      EntryOf(<<9601, 97>>, "Normal", -2), EntryOf(<<97, 115>>, "Normal", -1),
      EntryOf(<<9601, 97, 115>>, "Normal", -3), EntryOf(<<9601, 9601>>, "Normal", -1)>>
    \o [i \in DOMAIN UsedBytes |-> [EntryOf(<<>>, "Byte", 0) EXCEPT !.byte = UsedBytes[i]]]
SpmOf(n) == Metadata(Padded(SpmEntries, n), "llama", "absent", <<>>)
Spm == SpmOf(34)
Bare == [Spm EXCEPT !.addSpacePrefix = FALSE, !.addEos = TRUE]
Gemma == Metadata(Padded(SpmEntries, 34), "gemma4", "absent",
                  << <<<<9601>>, <<9601>>>>, <<<<97>>, <<115>>>>, <<<<9601>>, <<97, 115>>>>,
                     <<<<97>>, <<97>>>> >>)

Visible(text) == [i \in DOMAIN text |-> BpeByteToChar[text[i]]]
BpeEntries ==
    <<EntryOf(Bos, "Control", 0), EntryOf(Eos, "Control", 0), EntryOf(Think, "UserDefined", 0),
      EntryOf(Marker, "UserDefined", 0), EntryOf(Visible(<<32, 97>>), "Normal", 0),
      EntryOf(Visible(<<97, 115>>), "Normal", 0), EntryOf(Visible(<<97, 97>>), "Normal", 0),
      EntryOf(Visible(<<130, 172>>), "Normal", 0), EntryOf(<<9601>>, "Normal", 0)>>
    \o [i \in DOMAIN UsedBytes |-> EntryOf(Visible(<<UsedBytes[i]>>), "Normal", 0)]
Bpe(pre) ==
    Metadata(Padded(BpeEntries, 34), "gpt2", pre,
             << <<Visible(<<97>>), Visible(<<97>>)>>, <<Visible(<<97>>), Visible(<<115>>)>>,
                <<Visible(<<32>>), Visible(<<97>>)>>, <<Visible(<<130>>), Visible(<<172>>)>> >>)

-----------------------------------------------------------------------------
(* Files. *)

Laid(list, alignment) ==
    LET Place(acc, t) ==
            [at |-> AlignTo(acc.at + NBytes(t), alignment),
             out |-> Append(acc.out, [t EXCEPT !.offset = acc.at])]
    IN FoldLeft(Place, [at |-> 0, out |-> <<>>], list).out
EndOf(tensors) == LET t == tensors[Len(tensors)] IN t.offset + NBytes(t)

T(layer, role, dims, type) ==
    [name |-> <<layer, role>>, dims |-> dims, type |-> type, offset |-> 0, shortName |-> TRUE]
M(key, value) == <<key, "U32", value>>

\* A model of these sizes, its linears of this type, in this orientation.
ListOf(p) ==
    LET hd == IF p.keyLength = NoValue THEN p.embedding \div p.heads ELSE p.keyLength
        W(layer, role, in, out) == T(layer, role, IF p.turned THEN <<out, in>> ELSE <<in, out>>, p.type)
        V(layer, role, n) == T(layer, role, <<n>>, "F32")
        e == p.embedding   q == p.heads * hd   kv == p.kvHeads * hd
        Layer(l) ==
            <<V(l, "attn_norm.weight", e), W(l, "attn_q.weight", e, q), W(l, "attn_k.weight", e, kv),
              W(l, "attn_v.weight", e, kv), W(l, "attn_output.weight", q, e),
              V(l, "ffn_norm.weight", e), W(l, "ffn_gate.weight", e, p.feedForward),
              W(l, "ffn_up.weight", e, p.feedForward), W(l, "ffn_down.weight", p.feedForward, e)>>
            \o (IF p.architecture = "qwen3"
                THEN <<V(l, "attn_q_norm.weight", hd), V(l, "attn_k_norm.weight", hd)>> ELSE <<>>)
    IN <<T(Top, "token_embd.weight", <<e, p.vocab>>, p.type), V(Top, "output_norm.weight", e)>>
       \o (IF p.tied THEN <<>> ELSE <<T(Top, "output.weight", <<e, p.vocab>>, p.type)>>)
       \o (IF p.freqs THEN <<V(Top, "rope_freqs.weight", p.ropeDim \div 2)>> ELSE <<>>)
       \o FlattenSeq([l \in 1..p.blocks |-> Layer(l - 1)])
KeysOf(p) ==
    <<M("context_length", 5), M("embedding_length", p.embedding), M("block_count", p.blocks),
      M("feed_forward_length", p.feedForward), M("attention.head_count", p.heads),
      M("attention.head_count_kv", p.kvHeads), M("rope.dimension_count", p.ropeDim)>>
    \o IF p.keyLength = NoValue THEN <<>>
       ELSE <<M("attention.key_length", p.keyLength), M("attention.value_length", p.keyLength)>>
FileOf(p, keys, list, tokens, alignment) ==
    [path |-> "other", magic |-> TRUE, version |-> 3, architecture |-> p.architecture, metadata |-> keys,
     tensors |-> Laid(list, alignment), header |-> 50,
     length |-> AlignTo(50, alignment) + EndOf(Laid(list, alignment)),
     tokens |-> Len(tokens.texts), tokenizer |-> tokens,
     frequenciesArePositive |-> TRUE, ropeBaseIsSound |-> TRUE, ropeScalingIsSound |-> TRUE]
Whole(p, tokens) == FileOf(p, KeysOf(p), ListOf(p), tokens, 32)

Llama == [architecture |-> "llama", embedding |-> 12, heads |-> 4, kvHeads |-> 2, keyLength |-> 4,
          ropeDim |-> 2, feedForward |-> 20, blocks |-> 2, type |-> "F32", turned |-> FALSE,
          tied |-> FALSE, freqs |-> FALSE, vocab |-> 34]
Qwen3 == [Llama EXCEPT !.architecture = "qwen3", !.ropeDim = 4, !.kvHeads = 1, !.tied = TRUE]
Quantized == [Llama EXCEPT !.type = "Q8_0", !.embedding = 32, !.heads = 2, !.kvHeads = 1,
                           !.keyLength = NoValue, !.feedForward = 64, !.ropeDim = 16,
                           !.freqs = TRUE, !.blocks = 1]
Turned == [Qwen3 EXCEPT !.turned = TRUE, !.blocks = 1]

At(path, f) == [f EXCEPT !.path = path]
Speaking == {At("spm", Whole(Llama, Spm)), At("qwen", Whole(Qwen3, Bpe("qwen2")))}
Reading == {At("gemma", Whole(Turned, Gemma)), At("bare", Whole(Turned, Bare)),
            At("llama3", Whole(Turned, Bpe("llama-bpe"))), At("marks", Whole(Turned, Bpe("qwen35")))}

\* One thing changed in a file.
Flawed(p, tokens) ==
    LET keys == KeysOf(p)   list == ListOf(p)   f == Whole(p, tokens)
        Listed(l) == FileOf(p, keys, l, tokens, 32)
        Keyed(k) == FileOf(p, k, list, tokens, 32)
        n == Len(list)
    IN
    {Listed([list EXCEPT ![i].dims = d]) : i \in 1..n, d \in {<<p.embedding, 7>>, <<p.embedding>>, <<32, 32>>}}
    \cup {Listed([list EXCEPT ![i].dims = Reverse(@)]) : i \in 1..n}
    \cup {Listed([list EXCEPT ![i].dims[1] = @ + 32]) : i \in 1..n}
    \cup {Listed([list EXCEPT ![i].dims = Append(@, 1)]) : i \in 1..n}
    \cup {Listed([list EXCEPT ![i].type = t]) :
             i \in 1..n, t \in {"F16", "Q8_0", "F64"}}
    \cup {Listed(RemoveAt(list, i)) : i \in 1..n}
    \cup {Listed([list EXCEPT ![i].name = list[n].name]) : i \in {1, n - 1}}
    \cup {[f EXCEPT !.tensors[i].offset = @ + d] : i \in {2, n}, d \in {-32, 32}}
    \cup {Keyed([keys EXCEPT ![i][3] = v]) : i \in 1..Len(keys), v \in {0, 1, 3, 6}}
    \cup {Keyed([keys EXCEPT ![i][2] = t]) : i \in 1..Len(keys), t \in {"U64", "String", "Unreadable"}}
    \cup {Keyed(RemoveAt(keys, i)) : i \in 1..Len(keys)}
    \cup {Keyed(Append(keys, k)) : k \in {keys[1], M("vocab_size", 33), M("vocab_size", 34)}}
    \cup {[Keyed(Append(keys, M("general.alignment", a))) EXCEPT !.magic = TRUE] : a \in {0, 3, 32, 64}}
    \cup {FileOf(p, Append(keys, M("general.alignment", 64)), list, tokens, 64)}
    \cup {[f EXCEPT !.magic = FALSE], [f EXCEPT !.version = 1], [f EXCEPT !.architecture = "gemma"],
          [f EXCEPT !.length = @ - 1], [f EXCEPT !.length = 40], [f EXCEPT !.header = 70],
          [f EXCEPT !.tensors[1].shortName = FALSE], [f EXCEPT !.frequenciesArePositive = FALSE],
          [f EXCEPT !.ropeBaseIsSound = FALSE]}
    \cup {[f EXCEPT !.tokens = Len(t.texts), !.tokenizer = t] :
             t \in {[tokens EXCEPT !.texts = Tail(@)], [tokens EXCEPT !.texts = <<>>],
                    [tokens EXCEPT !.scores = Tail(@)], [tokens EXCEPT !.model = "bert"],
                    [tokens EXCEPT !.model = "gpt2"],
                    [tokens EXCEPT !.ids["pad"] = 34], [tokens EXCEPT !.ids["eos"] = 3]}}
    \cup {Listed([list EXCEPT ![i].name[2] = "attn_qkv.weight", ![i].dims = <<p.embedding, 64>>]) :
             i \in {j \in 1..n : list[j].name[2] = "attn_q.weight"}}

Wide == [Quantized EXCEPT !.embedding = 256, !.feedForward = 256, !.ropeDim = 128, !.vocab = 257]
OfEachType == {Whole([Quantized EXCEPT !.type = t], Spm) : t \in TensorTypes \ {"Unknown"}}
          \cup {[Whole(Quantized, Spm) EXCEPT !.tensors[1].type = "Unknown"]}
          \cup {Whole([Wide EXCEPT !.type = t], SpmOf(257)) :
                   t \in {u \in TensorTypes : Layout(u).elements = 256}}
\* The blocks of every linear are a multiple of twelve.
Misread == [Quantized EXCEPT !.type = "Q5_1", !.embedding = 96, !.feedForward = 128, !.vocab = 100]
MCFiles == Speaking \cup Reading \cup OfEachType \cup {Whole(Misread, SpmOf(100))}
           \cup Flawed([Llama EXCEPT !.blocks = 1], Spm) \cup Flawed(Quantized, Spm)
           \cup Flawed([Qwen3 EXCEPT !.blocks = 1], Spm)

-----------------------------------------------------------------------------
(* Texts and ids. *)

UpTo(n, S) == UNION {[1..k -> S] : k \in 0..n}
Around(words, S) == {<<c>> \o w : c \in S, w \in words} \cup {w \o <<c>> : c \in S, w \in words}
                    \cup {w \o x : w \in words, x \in words}
MCContinued == {<<>>, <<97>>, <<97, 97>>}
SpmTexts == UpTo(3, {97, 115, 32, 60, 62, 233, 91}) \cup [1..4 -> {97, 32, 115}]
            \cup Around({Bos, Think, Marker, MCInst}, {97, 32, 8364, 91}) \cup {<<98>>}
BpeTexts == UpTo(3, {97, 115, 39, 49, 32, 10, 46, 769}) \cup [1..4 -> {32, 10, 97, 49}]
            \cup Around({Bos, Think, Marker}, {97, 32, 233}) \cup {<<8364>>, <<98>>}
Paths == {"other", "spm", "qwen", "gemma", "bare", "llama3", "marks"}
MCTexts == [path \in Paths |-> CASE path = "other" -> {}
                                 [] path \in {"spm", "gemma", "bare"} -> SpmTexts
                                 [] OTHER -> BpeTexts]
MCBudgets == [path \in Paths |-> IF path \in {"spm", "qwen"} THEN {0, 2, 4, 5} ELSE {}]

\* The bytes of the euro sign, a letter or what is no text, the marker and the end.
MCSampled ==
    [path \in Paths |->
        LET spm == path = "spm"
            v == FromGguf(IF spm THEN Spm ELSE Bpe("qwen2"))
            Of(byte) == IF spm THEN ByteToId(v, byte) ELSE TokenToId(v, <<BpeByteToChar[byte]>>)
        IN {Of(226), Of(130), Of(172), v.special.eos, TokenToId(v, Marker),
            TokenToId(v, IF spm THEN <<9601, 97>> ELSE <<9601>>)}]
Fractions == {0, 1, 2, 3, 511, 512, 1021, 1022, 1023}
MCHalves == {e * 1024 + x : e \in 0..30, x \in Fractions}
            \cup {31 * 1024 + x : x \in Fractions \ {1023}}
=============================================================================
