------------------------------ MODULE ModelFile ------------------------------
(***************************************************************************)
(* From a GGUF file to a loaded model: the header and its descriptors      *)
(* (gguf.rs), the configuration (model/config.rs), the binding of tensors  *)
(* by name and shape (model/binding.rs), their payloads (tensor/store.rs)  *)
(* and the materialized weights (model/weights.rs, runtime.rs).            *)
(*                                                                         *)
(* A file is what its bytes say: `metadata' a sequence of <<key, type,     *)
(* value>>, the keys under the file's own architecture by their suffix;    *)
(* `tensors' a sequence of descriptors [name, dims, type, offset], a name  *)
(* being <<layer, role>>; `header' the length of all that; `length' the    *)
(* length of the file.  Which of its errors a refusal names is left out.   *)
(***************************************************************************)
EXTENDS QuantBlocks

CONSTANTS MaxU64,       \* the largest u64; TLC takes a small one
          MaxU32

ASSUME WidthAssumption == MaxU32 \in Nat /\ MaxU64 \in Nat /\ MaxU32 <= MaxU64

NoValue == -1
Top == -1
Named(role) == <<Top, role>>

\* What can be read from a file: descriptors of these types, the integers of a
\* typed entry, and lengths.
Descriptors == [name : Int \X STRING, dims : Seq(Int), type : TensorTypes, offset : Nat,
                shortName : BOOLEAN]
IsFile(f) ==
    /\ f.tensors \in Seq(Descriptors)
    /\ \A i \in DOMAIN f.metadata : f.metadata[i][2] \in {"U32", "U64"} => f.metadata[i][3] \in Nat
    /\ f.header \in Nat /\ f.length \in Nat

-----------------------------------------------------------------------------
(* gguf.rs *)

Keys(f) == {f.metadata[i][1] : i \in DOMAIN f.metadata}
Entry(f, key) == f.metadata[CHOOSE i \in DOMAIN f.metadata : f.metadata[i][1] = key]
\* What a typed accessor finds: an absent key, or one of another type, is no value.
Typed(f, key, types) ==
    IF key \in Keys(f) /\ Entry(f, key)[2] \in types THEN Entry(f, key)[3] ELSE NoValue
MetadataU32(f, key) ==
    LET v == Typed(f, key, {"U32", "U64"}) IN IF v <= MaxU32 THEN v ELSE NoValue

\* Types a value of which cannot be read: an unknown one, an array of arrays or
\* one too long, a string too long or not UTF-8.
UnreadableTypes == {"Unreadable"}

DEFAULT_ALIGNMENT == 32
MAX_TENSOR_DIMS == 4
Alignment(f) ==
    IF "general.alignment" \in Keys(f) THEN Typed(f, "general.alignment", {"U32", "U64"})
                                       ELSE DEFAULT_ALIGNMENT
PowersOfTwo == {1, 2, 4, 8, 16, 32, 64, 128, 256, 512, 1024, 2048, 4096, 8192, 16384, 32768, 65536}

AlignTo(value, alignment) == ((value + alignment - 1) \div alignment) * alignment
DataStart(f) == AlignTo(f.header, Alignment(f))

\* The product of the first k dimensions, of which there are no more than MAX_TENSOR_DIMS.
Product(dims, k) ==
    LET Dim(i) == IF i <= k THEN dims[i] ELSE 1 IN Dim(1) * Dim(2) * Dim(3) * Dim(4)
Elements(t) == Product(t.dims, Len(t.dims))
\* tensor_nbytes, of a descriptor whose size is sound.
NBytes(t) == (Elements(t) \div Layout(t.type).elements) * Layout(t.type).bytes
SizeIsSound(t) ==
    /\ Layout(t.type) # NoLayout
    /\ t.dims[1] % Layout(t.type).elements = 0
    /\ \A k \in DOMAIN t.dims : Product(t.dims, k) <= MaxU64
    /\ NBytes(t) <= MaxU64

\* Each tensor starts where the aligned span of the one before it ended; that one
\* has been found to start where it should.
ExpectedOffset(f, i) ==
    IF i = 1 THEN 0
    ELSE AlignTo(f.tensors[i - 1].offset + NBytes(f.tensors[i - 1]), Alignment(f))

HeaderIsSound(f) ==
    /\ f.magic /\ f.version \in 2..3
    /\ f.header <= f.length
    /\ \A i, j \in DOMAIN f.metadata : f.metadata[i][1] = f.metadata[j][1] => i = j
    /\ \A i \in DOMAIN f.metadata : f.metadata[i][2] \notin UnreadableTypes
    /\ Alignment(f) \in PowersOfTwo
    /\ \A i \in DOMAIN f.tensors :
          /\ f.tensors[i].shortName
          /\ Len(f.tensors[i].dims) \in 1..MAX_TENSOR_DIMS
          /\ \A k \in DOMAIN f.tensors[i].dims : f.tensors[i].dims[k] >= 0
    /\ DataStart(f) <= f.length

\* Mutant: a tensor may start anywhere before its expected place.
X_OffsetFits_Any(f, i) == f.tensors[i].offset <= ExpectedOffset(f, i)
OffsetFits(f, i) == f.tensors[i].offset = ExpectedOffset(f, i)

DescriptorsAreSound(f) ==
    \A i \in DOMAIN f.tensors :
        LET t == f.tensors[i] IN
        /\ \A j \in 1..(i - 1) : f.tensors[j].name # t.name
        /\ SizeIsSound(t)
        /\ OffsetFits(f, i)
        /\ DataStart(f) + t.offset + NBytes(t) <= f.length
        /\ t.offset + NBytes(t) + Alignment(f) - 1 <= MaxU64

\* read_metadata
Parses(f) == HeaderIsSound(f) /\ DescriptorsAreSound(f)

TensorNames(f) == {f.tensors[i].name : i \in DOMAIN f.tensors}
Tensor(f, name) == f.tensors[CHOOSE i \in DOMAIN f.tensors : f.tensors[i].name = name]

-----------------------------------------------------------------------------
(* model/config.rs *)

ImplementedArchitectures == {"llama", "mistral", "qwen2", "qwen3"}
RequiredKeys == {"context_length", "embedding_length", "block_count",
                 "feed_forward_length", "attention.head_count"}

Default(v, d) == IF v = NoValue THEN d ELSE v

\* The vocabulary is the dimension of the token embedding that is not its width.
InferredVocabSize(f, embedding) ==
    IF Named("token_embd.weight") \notin TensorNames(f) THEN NoValue
    ELSE LET dims == Tensor(f, Named("token_embd.weight")).dims IN
         CASE Len(dims) = 2 /\ dims[1] = embedding /\ dims[2] <= MaxU32 -> dims[2]
           [] Len(dims) = 2 /\ dims[1] # embedding /\ dims[2] = embedding
                            /\ dims[1] <= MaxU32 -> dims[1]
           [] OTHER -> NoValue

Configurable(f) ==
    /\ f.architecture \in ImplementedArchitectures
    /\ \A key \in RequiredKeys : MetadataU32(f, key) # NoValue

Config(f) ==
    LET U32(key) == MetadataU32(f, key) IN
    [context |-> U32("context_length"),   embedding |-> U32("embedding_length"),
     blocks |-> U32("block_count"),       feedForward |-> U32("feed_forward_length"),
     heads |-> U32("attention.head_count"),
     kvHeads |-> Default(U32("attention.head_count_kv"), U32("attention.head_count")),
     ropeDim |-> U32("rope.dimension_count"),
     keyLength |-> U32("attention.key_length"),
     valueLength |-> U32("attention.value_length"),
     vocab |-> Default(U32("vocab_size"), InferredVocabSize(f, U32("embedding_length"))),
     qkNorm |-> f.architecture = "qwen3",
     neox |-> f.architecture = "qwen3"]

\* DenseLlamaDims::from_config
DimsAreSound(c) ==
    /\ c.heads > 0 /\ c.embedding % c.heads = 0
    /\ c.kvHeads > 0 /\ c.heads % c.kvHeads = 0
    /\ c.vocab > 0
HeadDim(c) == IF c.keyLength > 0 THEN c.keyLength ELSE c.embedding \div c.heads
QWidth(c)  == c.heads * HeadDim(c)
KvWidth(c) == c.kvHeads * HeadDim(c)
RopeDim(c) == Default(c.ropeDim, HeadDim(c))
RopeDimIsSound(c) == RopeDim(c) \in 1..HeadDim(c) /\ RopeDim(c) % 2 = 0

-----------------------------------------------------------------------------
(* model/binding.rs *)

Vector(n) == {<<n>>}
\* Mutant: only the input width of a matrix is looked at.
X_Matrix_AnyOutput(in, out) == {<<in, n>> : n \in 1..64} \cup {<<n, in>> : n \in 1..64}
\* A 2-D linear may be declared in either orientation.
Matrix(in, out) == {<<in, out>>, <<out, in>>}

QkNorms == {"attn_q_norm.weight", "attn_k_norm.weight"}
LayerShapes(c, role) ==
    CASE role \in {"attn_norm.weight", "ffn_norm.weight"} -> Vector(c.embedding)
      [] role \in QkNorms -> Vector(HeadDim(c))
      [] role = "attn_q.weight" -> Matrix(c.embedding, QWidth(c))
      [] role \in {"attn_k.weight", "attn_v.weight"} -> Matrix(c.embedding, KvWidth(c))
      [] role = "attn_output.weight" -> Matrix(QWidth(c), c.embedding)
      [] role \in {"ffn_gate.weight", "ffn_up.weight"} -> Matrix(c.embedding, c.feedForward)
      [] role = "ffn_down.weight" -> Matrix(c.feedForward, c.embedding)
TopShapes(c, role) ==
    CASE role \in {"token_embd.weight", "output.weight"} -> Matrix(c.embedding, c.vocab)
      [] role = "output_norm.weight" -> Vector(c.embedding)
      [] role = "rope_freqs.weight" -> Vector(RopeDim(c) \div 2)

Layers(c) == 0..(c.blocks - 1)
LayerRoles(c) ==
    {"attn_norm.weight", "attn_q.weight", "attn_k.weight", "attn_v.weight", "attn_output.weight",
     "ffn_norm.weight", "ffn_gate.weight", "ffn_up.weight", "ffn_down.weight"}
    \cup (IF c.qkNorm THEN QkNorms ELSE {})
TopRoles(f) ==
    {"token_embd.weight", "output_norm.weight"}
    \cup {role \in {"output.weight", "rope_freqs.weight"} : Named(role) \in TensorNames(f)}
Bound(f, c) == {Named(role) : role \in TopRoles(f)} \cup (Layers(c) \X LayerRoles(c))

\* The output projection is the token embedding's when the file has none.
OutputName(f) == Named(IF Named("output.weight") \in TensorNames(f)
                       THEN "output.weight" ELSE "token_embd.weight")

\* expand_fused_dense_tensors: a fused projection in the place of a split one.
FusedProjection(f, c) ==
    \E layer \in Layers(c) :
        LET headDim == Default(c.keyLength, c.embedding \div (IF c.heads = 0 THEN 1 ELSE c.heads))
            Fused(missing, role, rows) ==
                /\ <<layer, missing>> \notin TensorNames(f)
                /\ <<layer, role>> \in TensorNames(f)
                /\ Len(Tensor(f, <<layer, role>>).dims) = 2
                /\ Tensor(f, <<layer, role>>).dims[2] = rows
        IN \/ Fused("attn_q.weight", "attn_qkv.weight", headDim * (c.heads + 2 * c.kvHeads))
           \/ Fused("ffn_gate.weight", "ffn_up.weight", 2 * c.feedForward)

\* The bytes of the output projection are those of its rows, one per token.
OutputLayoutIsSound(f, c) ==
    LET t == Tensor(f, OutputName(f))   l == Layout(t.type) IN
    /\ c.embedding % l.elements = 0
    /\ NBytes(t) = (c.embedding \div l.elements) * l.bytes * c.vocab

Binds(f, c) ==
    /\ Bound(f, c) \subseteq TensorNames(f)
    /\ c.qkNorm => \/ NoValue \in {c.keyLength, c.valueLength}
                   \/ c.keyLength = c.valueLength
    /\ ~c.qkNorm => (Layers(c) \X QkNorms) \cap TensorNames(f) = {}
    /\ DimsAreSound(c)
    /\ \A role \in TopRoles(f) \ {"rope_freqs.weight"} :
          Tensor(f, Named(role)).dims \in TopShapes(c, role)
    /\ OutputLayoutIsSound(f, c)
    /\ Named("rope_freqs.weight") \in TensorNames(f) =>
          /\ RopeDimIsSound(c)
          /\ Tensor(f, Named("rope_freqs.weight")).dims \in TopShapes(c, "rope_freqs.weight")
    /\ \A layer \in Layers(c), role \in LayerRoles(c) :
          Tensor(f, <<layer, role>>).dims \in LayerShapes(c, role)

-----------------------------------------------------------------------------
(* tensor/store.rs: a tensor in memory has its shape, how it is kept, and   *)
(* how many values (or, of wire bytes, bytes) there are of it.              *)

InMemory(t, kept, amount) ==
    [shape |-> t.dims, type |-> t.type, kept |-> kept, amount |-> amount]
NotLoaded == [shape |-> <<>>, type |-> "Unknown", kept |-> "nothing", amount |-> 0]
OrNotLoaded(t, kept, amount) == IF amount = Refused THEN NotLoaded ELSE InMemory(t, kept, amount)

LoadCpuF32(t) ==
    IF t.type \in Loadable
    THEN OrNotLoaded(t, "f32", DecodedLength(t.type, NBytes(t), Elements(t)))
    ELSE NotLoaded

\* load_q8_0_block_backed_linear
LoadLinear(t) ==
    IF t.type = "Q8_0" /\ Len(t.dims) = 2
    THEN OrNotLoaded(t, "blocks", DecodedLength("Q8_0", NBytes(t), Elements(t)))
    ELSE LoadCpuF32(t)

\* The wire-only loaders keep the bytes of a matrix as they are.
LoadKquantWireLinear(t) ==
    CASE Len(t.dims) = 2 /\ t.type \in {"Q4K", "Q5K", "Q6K"} -> InMemory(t, "wire", NBytes(t))
      [] Len(t.dims) = 2 /\ t.type \in {"Q2K", "Q3K"} -> NotLoaded
      [] OTHER -> LoadCpuF32(t)
LoadWireLinear(t, own) ==
    IF t.type = own /\ Len(t.dims) = 2 THEN InMemory(t, "wire", NBytes(t)) ELSE LoadCpuF32(t)

\* cpu_tensor_from_gguf_bytes: what it decodes to f32 does not say its type.
FromGgufBytes(t) ==
    IF t.type \notin {"F32", "F16", "BF16", "Q8_0"} THEN NotLoaded
    ELSE IF LoadLinear(t).kept = "blocks" THEN LoadLinear(t)
    ELSE [LoadLinear(t) EXCEPT !.type = "None"]
LoadBlocks(t) ==
    IF t.type = "Q8_0" THEN OrNotLoaded(t, "blocks", DecodedLength("Q8_0", NBytes(t), Elements(t)))
                       ELSE NotLoaded
Loaders == {"cpu_f32", "q8_0_blocks", "q8_0_linear", "kquant_wire", "tq2_0_wire", "iq4_xs_wire", "bytes"}
LoadBy(loader, t) ==
    CASE loader = "cpu_f32" -> LoadCpuF32(t)
      [] loader = "q8_0_blocks" -> LoadBlocks(t)
      [] loader = "q8_0_linear" -> LoadLinear(t)
      [] loader = "kquant_wire" -> LoadKquantWireLinear(t)
      [] loader = "tq2_0_wire" -> LoadWireLinear(t, "Tq2_0")
      [] loader = "iq4_xs_wire" -> LoadWireLinear(t, "IQ4XS")
      [] loader = "bytes" -> FromGgufBytes(t)

-----------------------------------------------------------------------------
(* model/weights.rs and runtime.rs: the whole of a load.                   *)

\* The token embedding's shape is turned to [vocab, embedding], its bytes are not.
Normalized(w) ==
    IF w # NotLoaded /\ w.shape[1] < w.shape[2] THEN [w EXCEPT !.shape = <<@[2], @[1]>>] ELSE w

Norms == {"attn_norm.weight", "ffn_norm.weight", "output_norm.weight",
          "rope_freqs.weight"} \cup QkNorms
Load(f, name) ==
    LET t == Tensor(f, name) IN
    CASE name[2] \in Norms -> LoadCpuF32(t)
      [] name = Named("token_embd.weight") -> Normalized(LoadLinear(t))
      [] OTHER -> LoadLinear(t)
Weights(f, c) == [name \in Bound(f, c) |-> Load(f, name)]
OutputProjection(f) == LoadLinear(Tensor(f, OutputName(f)))

\* validate_dense_shapes, of the weights
WeightsAreSound(f, c, w) ==
    /\ \A name \in DOMAIN w : w[name] # NotLoaded
    /\ OutputProjection(f) # NotLoaded
    /\ w[Named("token_embd.weight")].shape = <<c.vocab, c.embedding>>
    /\ w[Named("output_norm.weight")].shape \in Vector(c.embedding)
    /\ OutputProjection(f).shape \in Matrix(c.embedding, c.vocab)
    /\ Named("rope_freqs.weight") \in DOMAIN w => f.frequenciesArePositive
    /\ \A layer \in Layers(c), role \in LayerRoles(c) :
          w[<<layer, role>>].shape \in LayerShapes(c, role)

\* load_with_q8_projection and from_components, but for the tokenizer, whose entries are counted.
\* Mutant: a tokenizer of any size.
X_VocabularyFits_Any(f, c) == f.tokens > 0
VocabularyFits(f, c) == f.tokens = c.vocab
Loads(f) ==
    /\ Parses(f) /\ Configurable(f)
    /\ f.tokens > 0
    /\ ~FusedProjection(f, Config(f))
    /\ Binds(f, Config(f))
    /\ WeightsAreSound(f, Config(f), Weights(f, Config(f)))
    /\ VocabularyFits(f, Config(f))
=============================================================================
