----------------------------- MODULE ForwardPass -----------------------------
(***************************************************************************)
(* One token through a loaded model (forward/compute.rs, kv_cache.rs,      *)
(* rope.rs and the kernels of tensor/mod.rs they use).  No number is       *)
(* computed: a row is how wide it is, and an element of the key/value      *)
(* cache is where it came from.                                            *)
(***************************************************************************)
EXTENDS ModelFile

CONSTANT GrowChunk      \* positions the cache grows by at least; 256 in the code

ASSUME GrowAssumption == GrowChunk \in Nat \ {0}

-----------------------------------------------------------------------------
(* Widths. *)

\* linear_row: the weight's rows are as wide as the input, whatever its shape says.
LinearRow(w, in) ==
    IF /\ in > 0
       /\ w.kept = "blocks" => in % 32 = 0
       /\ w.kept = "f32" => w.amount > 0
       /\ w.amount % in = 0
    THEN w.amount \div in ELSE Refused

\* rms_norm: a weight of the row's width, with that many values.
RmsNorms(w, width) == w.shape = <<width>> /\ w.amount >= width

\* embedding_lookup of any token: a tensor that has kept its blocks or its wire
\* bytes is gathered by whole blocks, any other by rows.
RetainedBlock(w) == CASE w.type = "Q8_0" -> 32 [] w.type \in {"Q4K", "Q6K"} -> 256 [] OTHER -> 1
EmbeddingLookups(w, token) ==
    /\ Len(w.shape) = 2 /\ token < w.shape[1]
    /\ w.shape[2] % RetainedBlock(w) = 0
    /\ IF RetainedBlock(w) = 1 THEN (token + 1) * w.shape[2] <= w.amount
                               ELSE w.amount = w.shape[1] * w.shape[2]

\* apply_rope, of a row with this many heads
Ropes(f, c, width, heads) ==
    /\ heads > 0 /\ width % heads = 0
    /\ Default(c.ropeDim, width \div heads) \in 1..(width \div heads)
    /\ Default(c.ropeDim, width \div heads) % 2 = 0
    /\ f.ropeBaseIsSound /\ f.ropeScalingIsSound
    /\ Named("rope_freqs.weight") \in TensorNames(f) =>
          Tensor(f, Named("rope_freqs.weight")).dims = <<Default(c.ropeDim, width \div heads) \div 2>>

\* forward_layer on a hidden row of the embedding's width: what it gives has that width too.
ForwardLayerRuns(f, c, w, layer) ==
    LET W(role) == w[<<layer, role>>]
        q == LinearRow(W("attn_q.weight"), c.embedding)
        k == LinearRow(W("attn_k.weight"), c.embedding)
        v == LinearRow(W("attn_v.weight"), c.embedding)
        gate == LinearRow(W("ffn_gate.weight"), c.embedding)
    IN
    /\ RmsNorms(W("attn_norm.weight"), c.embedding)
    /\ Refused \notin {q, k, v, gate}
    /\ c.qkNorm => /\ q % c.heads = 0 /\ RmsNorms(W("attn_q_norm.weight"), q \div c.heads)
                   /\ k % c.kvHeads = 0 /\ RmsNorms(W("attn_k_norm.weight"), k \div c.kvHeads)
    /\ Ropes(f, c, q, c.heads) /\ Ropes(f, c, k, c.kvHeads)
    /\ KvWidth(c) <= k /\ KvWidth(c) <= v /\ QWidth(c) <= q
    /\ LinearRow(W("attn_output.weight"), QWidth(c)) = c.embedding
    /\ RmsNorms(W("ffn_norm.weight"), c.embedding)
    /\ LinearRow(W("ffn_up.weight"), c.embedding) = gate
    /\ LinearRow(W("ffn_down.weight"), gate) = c.embedding

\* forward_token and argmax, of each of these tokens
ForwardTokenRuns(f, tokens) ==
    LET c == Config(f)   w == Weights(f, c)   embedding == w[Named("token_embd.weight")] IN
    /\ \A token \in tokens : EmbeddingLookups(embedding, token)
    /\ embedding.shape[2] = c.embedding
    /\ \A layer \in Layers(c) : ForwardLayerRuns(f, c, w, layer)
    /\ RmsNorms(w[Named("output_norm.weight")], c.embedding)
    /\ LinearRow(OutputProjection(f), c.embedding) = c.vocab

\* What no check of the load looks at, and a request meets.
PlanIsSound(c) == c.blocks > 0 /\ c.kvHeads > 0 /\ HeadDim(c) > 0
LeftToTheRequest(f) ==
    LET c == Config(f)   w == Weights(f, c)   token == w[Named("token_embd.weight")]
        InputWidth(role) == CASE role = "attn_output.weight" -> QWidth(c)
                              [] role = "ffn_down.weight" -> c.feedForward
                              [] OTHER -> c.embedding IN
    /\ PlanIsSound(c) /\ c.embedding > 0 /\ c.feedForward > 0
    /\ RopeDimIsSound(c) /\ f.ropeBaseIsSound /\ f.ropeScalingIsSound
    /\ c.embedding % RetainedBlock(token) = 0
    /\ OutputProjection(f).kept = "blocks" => c.embedding % 32 = 0
    /\ \A name \in DOMAIN w : w[name].kept = "blocks" => InputWidth(name[2]) % 32 = 0

-----------------------------------------------------------------------------
(* The rotation: pair p of a head turns two of its first ropeDim places.    *)

Pair(g, p) == IF g.neox THEN <<p, p + g.ropeDim \div 2>> ELSE <<2 * p, 2 * p + 1>>
Pairs(g) == 0..(g.ropeDim \div 2 - 1)
\* The pairs a place of a head is turned with.
Turns(g, d) == {p \in Pairs(g) : d \in {Pair(g, p)[1], Pair(g, p)[2]}}

-----------------------------------------------------------------------------
(* The cache.  g is the geometry of a decoder: its layers, kvHeads, heads,  *)
(* headDim, ropeDim, pairing and context.                                   *)

Empty == [what |-> "zero"]
Key(g, token, layer, position, kvHead, d) ==
    [what |-> "key", token |-> token, layer |-> layer, position |-> position,
     kvHead |-> kvHead, dim |-> d, turns |-> Turns(g, d)]
Val(g, token, layer, position, kvHead, d) ==
    [what |-> "value", token |-> token, layer |-> layer, position |-> position,
     kvHead |-> kvHead, dim |-> d]

\* f32_to_f16_kv and f16_to_f32_kv, of magnitudes: every NaN becomes one, and comes back quiet.
RoundedUp(mant, shift) ==
    LET half == mant \div 2^shift   low == mant % 2^shift IN
    IF low >= 2^(shift - 1) /\ (low % 2^(shift - 1) # 0 \/ half % 2 = 1) THEN half + 1 ELSE half
F32ToF16Kv(f) ==
    LET exp == f \div 2^23   mant == f % 2^23   halfExp == exp - 127 + 15 IN
    CASE exp = 255 -> IF mant = 0 THEN 31744 ELSE 32256
      [] exp # 255 /\ halfExp >= 31 -> 31744
      [] halfExp < -10 -> 0
      [] halfExp \in -10..0 -> RoundedUp(mant + 2^23, 14 - halfExp)
      [] halfExp \in 1..30 -> RoundedUp(halfExp * 2^23 + mant, 13)
F16ToF32Kv(h) ==
    IF h > 31744 THEN F32Bits(255, 2^22 + ((h % 512) * 2^13)) ELSE F16ToF32(h)

NewCache == [keys |-> <<>>, values |-> <<>>, allocated |-> 0, position |-> 0]
PositionStride(g) == g.layers * g.kvHeads * g.headDim

\* Mutant: the layers of a position overlap.
X_Offset_NoLayers(g, layer, position, kvHead) ==
    ((position * g.layers + layer) * 1 + kvHead) * g.headDim
Offset(g, layer, position, kvHead) ==
    ((position * g.layers + layer) * g.kvHeads + kvHead) * g.headDim

CanAppend(g, cache) == cache.position < g.context
Larger(a, b) == IF a > b THEN a ELSE b
Smaller(a, b) == IF a < b THEN a ELSE b
EnsurePositionCapacity(g, cache, required) ==
    IF required <= cache.allocated THEN cache
    ELSE LET target == Smaller(Larger(Larger(required, 2 * cache.allocated), GrowChunk), g.context)
             Resized(cells) == [i \in 1..(target * PositionStride(g)) |->
                                   IF i \in DOMAIN cells THEN cells[i] ELSE Empty]
         IN [cache EXCEPT !.keys = Resized(@), !.values = Resized(@), !.allocated = target]

\* forward_token's effect: room, every layer's rows of every head, then the position.
Rows(g, cells, position, elements) ==
    LET Of(layer, kvHead) == Offset(g, layer, position, kvHead)
        Written(i) == {r \in (0..(g.layers - 1)) \X (0..(g.kvHeads - 1)) :
                          i - 1 - Of(r[1], r[2]) \in 0..(g.headDim - 1)}
        \* a later row overwrites an earlier one
        Latest(rows) == CHOOSE r \in rows : \A s \in rows : s[1] < r[1] \/ (s[1] = r[1] /\ s[2] <= r[2])
    IN [i \in DOMAIN cells |->
           IF Written(i) = {} THEN cells[i]
           ELSE LET r == Latest(Written(i)) IN elements[r[1]][r[2]][i - 1 - Of(r[1], r[2])]]
Forwarded(g, cache, token) ==
    LET room == EnsurePositionCapacity(g, cache, cache.position + 1)
        p == cache.position
        layers == 0..(g.layers - 1)   kvHeads == 0..(g.kvHeads - 1)   ds == 0..(g.headDim - 1)
        keys == [l \in layers |-> [h \in kvHeads |-> [d \in ds |-> Key(g, token, l, p, h, d)]]]
        values == [l \in layers |-> [h \in kvHeads |-> [d \in ds |-> Val(g, token, l, p, h, d)]]]
    IN [room EXCEPT !.keys = Rows(g, @, p, keys), !.values = Rows(g, @, p, values),
                    !.position = p + 1]

\* attention_context: the rows a head reads at a position.
KvHeadOf(g, head) == head \div (g.heads \div g.kvHeads)
Row(g, cells, layer, position, kvHead) ==
    SubSeq(cells, Offset(g, layer, position, kvHead) + 1,
           Offset(g, layer, position, kvHead) + g.headDim)
KeysRead(g, cache, layer, position, head) ==
    [p \in 0..position |-> Row(g, cache.keys, layer, p, KvHeadOf(g, head))]
ValuesRead(g, cache, layer, position, head) ==
    [p \in 0..position |-> Row(g, cache.values, layer, p, KvHeadOf(g, head))]
=============================================================================
