-------------------------------- MODULE Engine --------------------------------
(***************************************************************************)
(* The in-tree engine as serving uses it (runtime.rs): a model is loaded   *)
(* from a file or refused, a prompt is encoded, and tokens are generated   *)
(* one forward pass at a time, each shown to the consumer, who may cancel, *)
(* before the next pass (forward/compute.rs).  A tensor may also be read   *)
(* alone (tensor/store.rs).                                                *)
(*                                                                         *)
(* The weights are numbers, and so are the logits: any id of the           *)
(* vocabulary may be the argmax, and a logit or a softmax may be no finite *)
(* number, which ends the generation with an error.                        *)
(***************************************************************************)
EXTENDS ForwardPass, TokenText

CONSTANTS
    Files,      \* the files there are to load; a file has a path
    Texts,      \* the texts a model is asked to encode; with Continued,
    Continued,  \* those it is asked to continue,
    Budgets,    \* for how many tokens, and
    Sampled,    \* the ids the argmax may be: functions of the path
    Halves      \* magnitudes of the f16 tensors that are read

\* The entries of a file's tokenizer are counted by its texts.
ASSUME FileAssumption == \A f \in Files : IsFile(f) /\ f.tokens = Len(f.tokenizer.texts)
ASSUME BudgetAssumption == \A f \in Files : Budgets[f.path] \subseteq Nat

VARIABLES
    phase,      \* what the engine has done last
    file,       \* the file it was asked to load
    tokenizer,  \* of the loaded model
    asked,      \* the encoding: its text, its flags and its ids
    cache,      \* the decoder's
    decoder,    \* the text decoder's
    output      \* the budget, the generated ids, the pieces shown, the passes made, the reason it stopped

engineVars == <<phase, file, tokenizer, asked, cache, decoder, output>>

NoFile == [none |-> TRUE]
NoOutput == [budget |-> 0, generated |-> <<>>, pieces |-> <<>>, passes |-> 0, stop |-> "None"]

EngineInit ==
    /\ phase = "idle" /\ file = NoFile /\ tokenizer = NoFile /\ asked = NoFile
    /\ cache = NewCache /\ decoder = NewDecoder /\ output = NoOutput

-----------------------------------------------------------------------------

\* load_with_q8_projection
ModelLoads(f) ==
    /\ TokenizerIsSound(f.tokenizer) /\ SpecialIdsAreSound(FromGguf(f.tokenizer))
    /\ Loads(f)
LoadModel(f) ==
    /\ phase = "idle"
    /\ file' = f
    /\ IF ModelLoads(f) THEN phase' = "loaded" /\ tokenizer' = FromGguf(f.tokenizer)
                        ELSE phase' = "refused" /\ UNCHANGED tokenizer
    /\ UNCHANGED <<asked, cache, decoder, output>>

\* A tensor of n rows of one block, of one type, is read by a function of the
\* store; or the f16 number h is.
ReadTensor(t, n, loader) ==
    /\ phase = "idle" /\ Layout(t) # NoLayout
    /\ phase' = "tensor"
    /\ LET dims == IF n = 1 THEN <<Layout(t).elements>> ELSE <<Layout(t).elements, n>> IN
       asked' = [type |-> t, elements |-> n * Layout(t).elements, bytes |-> n * Layout(t).bytes,
                 loader |-> loader, tensor |-> LoadBy(loader, [type |-> t, dims |-> dims])]
    /\ UNCHANGED <<file, tokenizer, cache, decoder, output>>
ReadHalf(h) ==
    /\ phase = "idle"
    /\ phase' = "half" /\ asked' = [half |-> h]
    /\ UNCHANGED <<file, tokenizer, cache, decoder, output>>

\* encode_prompt; encode_completion is encode_prompt(text, TRUE, FALSE).  What no token
\* of the vocabulary spells is an error.
EncodePrompt(text, addSpecial, parseSpecial) ==
    /\ phase = "loaded"
    /\ LET ids == Encode(tokenizer, text, addSpecial, parseSpecial) IN
       /\ phase' = IF ids \in Seq(Ids(tokenizer)) THEN "encoded" ELSE "failed"
       /\ asked' = [text |-> text, addSpecial |-> addSpecial, parseSpecial |-> parseSpecial,
                    ids |-> ids]
    /\ UNCHANGED <<file, tokenizer, cache, decoder, output>>

\* validate_generation_request
RequestFits(max) ==
    /\ asked.ids # <<>>
    /\ Len(asked.ids) + max <= Config(file).context

\* generate_incremental, up to its first forward pass
Generate(max) ==
    /\ phase = "encoded"
    /\ output' = [output EXCEPT !.budget = max,
                                !.stop = IF RequestFits(max) /\ PlanIsSound(Config(file)) /\ max = 0
                                         THEN "Length" ELSE @]
    /\ phase' = CASE ~(RequestFits(max) /\ PlanIsSound(Config(file))) -> "failed"
                  [] RequestFits(max) /\ PlanIsSound(Config(file)) /\ max = 0 -> "completed"
                  [] OTHER -> "forward"
    /\ cache' = NewCache /\ decoder' = NewDecoder
    /\ UNCHANGED <<file, tokenizer, asked>>

Geometry ==
    LET c == Config(file) IN
    [layers |-> c.blocks, heads |-> c.heads, kvHeads |-> c.kvHeads, headDim |-> HeadDim(c),
     ropeDim |-> RopeDim(c), neox |-> c.neox, context |-> c.context]
Sequence == asked.ids \o output.generated

\* forward_token, of the next token of the prompt or of the one just generated.
Forward ==
    /\ phase = "forward"
    /\ LET token == Sequence[cache.position + 1] IN
       IF CanAppend(Geometry, cache) /\ ForwardTokenRuns(file, {token})
       THEN /\ cache' = Forwarded(Geometry, cache, token)
            /\ phase' = IF cache.position + 1 < Len(Sequence) THEN "forward" ELSE "sample"
            /\ output' = [output EXCEPT !.passes = @ + 1]
       ELSE /\ phase' = "failed"
            /\ UNCHANGED <<cache, output>>
    /\ UNCHANGED <<file, tokenizer, asked, decoder>>

\* The softmax of a layer, or a logit, is no finite number.
NotFinite ==
    /\ phase \in {"forward", "sample"}
    /\ phase' = "failed"
    /\ UNCHANGED <<file, tokenizer, asked, cache, decoder, output>>

\* Mutant: a consumer's stop hides the end of the generation.
X_StopReason_ConsumerFirst(id, cancels, count) ==
    CASE cancels -> "Consumer"
      [] ~cancels /\ id \in tokenizer.eog -> "TokenPredicate"
      [] ~cancels /\ id \notin tokenizer.eog /\ count = output.budget -> "Length"
      [] OTHER -> "None"
StopReason(id, cancels, count) ==
    CASE id \in tokenizer.eog -> "TokenPredicate"
      [] id \notin tokenizer.eog /\ cancels -> "Consumer"
      [] id \notin tokenizer.eog /\ ~cancels /\ count = output.budget -> "Length"
      [] OTHER -> "None"

\* One turn of generate_until_with_callback: a token is chosen, decoded and shown.
Emit(id, cancels) ==
    /\ phase = "sample"
    /\ IF PushFails(tokenizer, decoder, id)
       THEN phase' = "failed" /\ UNCHANGED <<decoder, output>>
       ELSE LET after == Pushed(tokenizer, decoder, id)
                stop == StopReason(id, cancels, Len(output.generated) + 1) IN
            /\ decoder' = after
            /\ output' = [output EXCEPT !.generated = Append(@, id),
                                        !.pieces = Append(@, Delta(decoder, after)),
                                        !.stop = stop]
            /\ phase' = CASE stop = "None" -> "forward"
                          [] stop = "Consumer" -> "cancelled"
                          [] OTHER -> "completed"
    /\ UNCHANGED <<file, tokenizer, asked, cache>>

\* The engine's part is over.
Ended ==
    /\ phase \in {"refused", "tensor", "half", "failed", "completed", "cancelled"}
           \/ (phase = "loaded" /\ Texts[file.path] = {})
           \/ (phase = "encoded" /\ (asked.text \notin Continued \/ Budgets[file.path] = {}))
    /\ UNCHANGED engineVars

EngineNext ==
    \/ \E f \in Files : LoadModel(f)
    \/ \E t \in TensorTypes, n \in {1, 2, 12}, loader \in Loaders : ReadTensor(t, n, loader)
    \/ \E h \in Halves : ReadHalf(h)
    \/ /\ phase = "loaded"
       /\ \E text \in Texts[file.path], addSpecial, parseSpecial \in BOOLEAN :
             EncodePrompt(text, addSpecial, parseSpecial)
    \/ /\ phase = "encoded" /\ asked.text \in Continued
       /\ \E max \in Budgets[file.path] : Generate(max)
    \/ Forward
    \/ NotFinite
    \/ /\ phase = "sample"
       /\ \E id \in Sampled[file.path] \cap Ids(tokenizer), cancels \in BOOLEAN : Emit(id, cancels)
    \/ Ended

EngineSpec == EngineInit /\ [][EngineNext]_engineVars

-----------------------------------------------------------------------------
(* Properties. *)

\* The tensors a loaded model is made of lie one after the other in its file.
TensorsAreApart(f) ==
    \A i \in DOMAIN f.tensors :
        LET t == f.tensors[i] IN
        /\ DataStart(f) + t.offset + NBytes(t) <= f.length
        /\ \A j \in DOMAIN f.tensors : i < j => t.offset + NBytes(t) <= f.tensors[j].offset

\* The parser and the decoder take the blocks of every tensor to be as long: they
\* differ on Q5_1, and where the bytes happen to be whole blocks to both the decoder
\* makes fewer values of them than the shape says, which no check of the load sees.
BlocksAgree(f) ==
    \A i \in DOMAIN f.tensors : BlockBytes(f.tensors[i].type) = Layout(f.tensors[i].type).bytes

\* A model the loader accepts runs: whatever the file declares, every weight of
\* every layer has, in the file, its own bytes, and every row the pass of any
\* token takes or makes is as wide as the next kernel wants it, so that no pass of
\* a generation is refused, for its widths or for want of a position (binding.rs,
\* weights.rs, and the errors of compute.rs and tensor/mod.rs).  Left to the
\* request by the code are what LeftToTheRequest and BlocksAgree name.
LoadedModelRuns ==
    /\ phase = "loaded" =>
           /\ TensorsAreApart(file)
           /\ DOMAIN tokenizer.tokens = 0..(Config(file).vocab - 1)
           /\ LeftToTheRequest(file) /\ BlocksAgree(file) =>
                  ForwardTokenRuns(file, DOMAIN tokenizer.tokens)
    /\ phase = "forward" /\ LeftToTheRequest(file) /\ BlocksAgree(file) =>
           CanAppend(Geometry, cache) /\ ForwardTokenRuns(file, {Sequence[cache.position + 1]})

\* A head attends to the keys and values its own layer wrote, for its own
\* key/value head, at every position so far, of the tokens that stand there, each
\* key turned pairwise; and the passes made are one for each of those tokens, so
\* that a generation that ended made none for its last (compute.rs, kv_cache.rs,
\* rope.rs).
AttentionReadsItsOwnPast ==
    phase \in {"forward", "sample", "completed", "cancelled"} /\ cache.position > 0 =>
        LET g == Geometry   last == cache.position - 1 IN
        /\ output.passes = cache.position /\ cache.position <= cache.allocated
        /\ phase # "forward" => cache.position = Len(asked.ids) + Len(output.pieces)
                                                 - IF phase = "sample" THEN 0 ELSE 1
        /\ \A layer \in 0..(g.layers - 1), head \in 0..(g.heads - 1) :
              LET kvHead == (head * g.kvHeads) \div g.heads
                  keys == KeysRead(g, cache, layer, last, head)
                  values == ValuesRead(g, cache, layer, last, head) IN
              \A p \in 0..last, d \in 1..g.headDim :
                  /\ keys[p][d] = Key(g, Sequence[p + 1], layer, p, kvHead, d - 1)
                  /\ values[p][d] = Val(g, Sequence[p + 1], layer, p, kvHead, d - 1)
        /\ \A d \in 0..(g.headDim - 1) :
              Cardinality(Turns(g, d)) = IF d < g.ropeDim THEN 1 ELSE 0

\* The bytes the shown tokens of a byte-level vocabulary, or of byte tokens, spell.
Spelled(v, ids) ==
    LET kept == SelectSeq(ids, LAMBDA id : /\ v.tokens[id].kind # "Control"
                                           /\ id \notin {v.special[n] : n \in SpecialNames \ {"unk"}}
                                           /\ ~IsChatControlMarker(v.tokens[id]))
        Of(token) == CASE token.byte # NoByte -> <<token.byte>>
                       [] token.byte = NoByte /\ v.model = "LlamaSpm" ->
                              BytesOf([i \in DOMAIN token.text |->
                                  IF token.text[i] = SPM_SPACE THEN SPACE ELSE token.text[i]])
                       [] token.byte = NoByte /\ v.model # "LlamaSpm" ->
                              [i \in DOMAIN token.text |-> BpeCharToByte(token.text[i])]
    IN FlattenSeq([i \in DOMAIN kept |-> Of(v.tokens[kept[i]])])
\* Every byte belongs to a character.
IsText(bytes) ==
    \A i \in DOMAIN bytes : \E j \in 1..i : Complete(bytes, j) /\ i < j + Width(bytes[j])
\* The first k bytes are a text, and what follows them is no more than the beginning of a character.
EndsAt(bytes, k) ==
    /\ IsText(SubSeq(bytes, 1, k))
    /\ k < Len(bytes) => /\ k + Width(bytes[k + 1]) > Len(bytes)
                         /\ Follow(bytes, k + 1, Len(bytes))

\* What a consumer is shown piece by piece is, put together, the text of the
\* completion, and while the tokens spell a text, all of it but the last
\* character they have not finished; a token that is not text shows nothing; and
\* the reason a generation ended is the one its last token and its budget give
\* (tokenizer.rs's IncrementalDecoder, runtime.rs's generate_incremental).
PiecesAddUp ==
    phase \in {"forward", "completed", "cancelled"} =>
        LET shown == FlattenSeq(output.pieces)
            spelled == Spelled(tokenizer, output.generated)
            last == output.generated[Len(output.generated)] IN
        /\ shown = Decode(tokenizer, output.generated, TRUE)
        /\ \A k \in 0..Len(spelled) : EndsAt(spelled, k) => shown = SubSeq(spelled, 1, k)
        /\ phase = "cancelled" => last \notin tokenizer.eog
        /\ phase = "completed" =>
              Len(output.generated) = output.budget \/ last \in tokenizer.eog

\* Does the text spell a special token of the vocabulary?
HasSpecial(v, text) == \E i \in DOMAIN text : LongestSpecialAt(v, text, i, TRUE) # <<>>
NoSpaces(bytes) == SelectSeq(bytes, LAMBDA b : b # SPACE)

\* An encoded prompt is the text that was asked for: the segments are those of the
\* expression the code says it is equivalent to, and the ids decode to the text,
\* but for the one space SentencePiece puts before it and after special tokens
\* (tokenizer.rs's encode).
EncodingIsTheText ==
    phase = "encoded" =>
        LET v == tokenizer
            From == IF asked.addSpecial /\ v.addBos /\ v.special.bos # NoToken THEN 2 ELSE 1
            To == IF asked.addSpecial /\ v.addEos /\ v.special.eos # NoToken
                  THEN Len(asked.ids) - 1 ELSE Len(asked.ids)
            decoded == Decode(v, SubSeq(asked.ids, From, To), FALSE)
            text == BytesOf(asked.text) IN
        IF v.model = "LlamaSpm"
        THEN v.special.unk \notin Range(asked.ids) =>
             /\ NoSpaces(decoded) = NoSpaces(text)
             /\ asked.text # <<>> /\ ~HasSpecial(v, asked.text) =>
                   decoded = IF v.addSpacePrefix THEN <<SPACE>> \o text ELSE text
        ELSE /\ decoded = text
             /\ PreTokenize(asked.text, v.pre) = SplitByExpression(asked.text, v.pre)

\* A tensor's values are each read from bits of their own, no bit of a block is
\* left out, and the scales are those of the value's group; a half is the f32 it
\* says, comes back from it, and is the nearest to what lies around it, in the
\* storage and in the cache alike (blocks.rs, kv_cache.rs).
CacheRounds(h) ==
    /\ h <= 31744 => F32ToF16Kv(F16ToF32Kv(h)) = h
    /\ h > 31744 => F32ToF16Kv(F16ToF32Kv(h)) = 32256
    /\ h \in 1..31742 => \A between \in {-1, 0, 1} :
          LET f == F16ToF32(h) + ((F16ToF32(h + 1) - F16ToF32(h)) \div 2) + between IN
          F32ToF16Kv(f) = F32ToF16(f)
DecodingIsExact ==
    /\ phase = "tensor" /\ asked.tensor # NotLoaded
          /\ BlockBytes(asked.type) = Layout(asked.type).bytes =>
          asked.tensor.amount = IF asked.tensor.kept = "wire" THEN asked.bytes ELSE asked.elements
    /\ phase = "tensor" /\ asked.type \in Decoded => BlockIsReadOnce(asked.type)
    /\ phase = "tensor" => TablesAreSound
    /\ phase = "half" => HalfIsNearest(asked.half) /\ CacheRounds(asked.half)

\* load_cpu_f32 names the types it supports (store.rs), and each block struct mirrors
\* the wire layout byte for byte (blocks.rs): whole blocks of such a type are all decoded.
SupportedTypesLoad ==
    phase = "tensor" /\ asked.loader = "cpu_f32" /\ asked.type \in Loadable =>
        asked.tensor # NotLoaded /\ asked.tensor.amount = asked.elements
=============================================================================
