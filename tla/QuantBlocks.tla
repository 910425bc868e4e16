----------------------------- MODULE QuantBlocks -----------------------------
(***************************************************************************)
(* The block formats of a GGUF file and their decoding to f32              *)
(* (engine-core/src/tensor/blocks.rs).  A block is `bytes' bytes that hold  *)
(* `elements' values.  What a decoder does is given by where each value     *)
(* comes from: a bit is <<byte, bit>>, counted from 0 and the low bit       *)
(* first, a number is the sequence of its bits.  A product of f32 is not    *)
(* computed; which integers are multiplied, and that they fit the types     *)
(* the code keeps them in, is.                                              *)
(***************************************************************************)
EXTENDS Integers, Sequences, SequencesExt, FiniteSetsExt

Bits(byte, from, width) == [k \in 1..width |-> <<byte, from + k - 1>>]
LowNibble(byte)  == Bits(byte, 0, 4)
HighNibble(byte) == Bits(byte, 4, 4)
Nibble(byte, n)  == Bits(byte, 4 * n, 4)
Bytes(first, n)  == [k \in 1..(8 * n) |-> <<first + (k - 1) \div 8, (k - 1) % 8>>]
Half(first)      == Bytes(first, 2)

\* A value: its own bits and what is added to their number, the integer it is
\* scaled by with its bias, the integer that is taken off, and the block's
\* factors of the two.  <<>> is a part the format does not have.
Value(own, bias, scale, scaleBias, min, d, dMin) ==
    [own |-> own, bias |-> bias, scale |-> scale, scaleBias |-> scaleBias,
     min |-> min, d |-> d, dMin |-> dMin]
Scaled(own, bias, d) == Value(own, bias, <<>>, 0, <<>>, d, <<>>)

TensorTypes == {"F32", "F16", "BF16", "I8", "I16", "I32", "I64", "F64", "Q8_1", "Unknown",
                "Q4_0", "Q4_1", "Q5_0", "Q5_1", "Q8_0", "Q2K", "Q3K", "Q4K", "Q5K", "Q6K",
                "Q8K", "IQ4NL", "IQ4XS", "Tq1_0", "Tq2_0", "NVFP4"}

\* What the parser takes a block of a type to be.
NoLayout == [elements |-> 0, bytes |-> 0]
Layout(t) ==
    LET Of(e, b) == [elements |-> e, bytes |-> b] IN
    CASE t = "F32" -> Of(1, 4)       [] t = "F16" -> Of(1, 2)     [] t = "BF16" -> Of(1, 2)
      [] t = "I8" -> Of(1, 1)        [] t = "I16" -> Of(1, 2)     [] t = "I32" -> Of(1, 4)
      [] t \in {"I64", "F64"} -> Of(1, 8)
      [] t = "Q4_0" -> Of(32, 18)    [] t = "Q4_1" -> Of(32, 20)
      [] t \in {"Q5_0", "Q5_1"} -> Of(32, 22)
      [] t = "Q8_0" -> Of(32, 34)    [] t = "Q8_1" -> Of(32, 36)
      [] t = "Q2K" -> Of(256, 84)    [] t = "Q3K" -> Of(256, 110)
      [] t = "Q4K" -> Of(256, 144)   [] t = "Q5K" -> Of(256, 176)
      [] t = "Q6K" -> Of(256, 210)   [] t = "Q8K" -> Of(256, 292)
      [] t = "IQ4NL" -> Of(32, 18)   [] t = "IQ4XS" -> Of(256, 136)
      [] t = "Tq1_0" -> Of(256, 54)  [] t = "Tq2_0" -> Of(256, 66)
      [] t = "NVFP4" -> Of(64, 36)   [] t = "Unknown" -> NoLayout

-----------------------------------------------------------------------------
(* The decoders: where the value at index e of a block comes from. *)
F32(e)  == Scaled(Bytes(0, 4), 0, <<>>)
F16(e)  == Scaled(Bytes(0, 2), 0, <<>>)
BF16(e) == Scaled(Bytes(0, 2), 0, <<>>)
Q8_0(e) == Scaled(Bytes(2 + e, 1), 0, Half(0))

\* The 32-value formats: byte k of the nibbles holds the values k and k + 16.
Q4_0(e) == Scaled(Nibble(2 + (e % 16), e \div 16), -8, Half(0))
\* Mutant: values k and k + 1 share a byte.
X_Q4_1_Adjacent(e) == Value(Nibble(4 + (e % 16), e % 2), 0, <<>>, 0, <<>>, Half(0), Half(2))

Q4_1(e) == Value(Nibble(4 + (e % 16), e \div 16), 0, <<>>, 0, <<>>, Half(0), Half(2))
HighBit(first, e) == <<Bytes(first, 4)[e + 1]>>
Q5_0(e) == Scaled(Nibble(6 + (e % 16), e \div 16) \o HighBit(2, e), -16, Half(0))
Q5_1(e) == Value(Nibble(8 + (e % 16), e \div 16) \o HighBit(4, e), 0, <<>>, 0, <<>>,
                 Half(0), Half(2))

\* The 256-value formats.  Q2_K and Q3_K keep four planes of two bits per half.
Plane2(first, e) == Bits(first + 32 * (e \div 128) + (e % 32), 2 * ((e % 128) \div 32), 2)

Q2K(e) ==
    LET s == e \div 16 IN
    Value(Plane2(16, e), 0, LowNibble(s), 0, HighNibble(s), Half(80), Half(82))

\* Mutant: the bits of the last four bytes are taken from the same place for every word.
X_ExpandedScale_OnePlace(k) ==
    LET word == k \div 4   byte == k % 4 IN
    Nibble(96 + 4 * (word % 2) + byte, word \div 2) \o Bits(96 + 8 + byte, 0, 2)

\* The 16 scales of Q3_K: four words, the low or the high nibbles of the first
\* eight bytes, each with two bits out of the last four.
ExpandedScale(k) ==
    LET word == k \div 4   byte == k % 4 IN
    Nibble(96 + 4 * (word % 2) + byte, word \div 2) \o Bits(96 + 8 + byte, 2 * word, 2)

\* A set high bit keeps the two-bit number, a clear one takes 4 off it.
Q3K(e) ==
    Value(Plane2(32, e) \o Bits(e % 32, e \div 32, 1), -4,
          ExpandedScale(e \div 16), -32, <<>>, Half(108), <<>>)

\* q4_k_scale_min: the scale and the minimum of one of eight groups of 32.
ScaleMin(idx) ==
    LET At(k) == 4 + k IN
    IF idx < 4
    THEN [scale |-> Bits(At(idx), 0, 6), min |-> Bits(At(idx + 4), 0, 6)]
    ELSE [scale |-> LowNibble(At(idx + 4)) \o Bits(At(idx - 4), 6, 2),
          min   |-> HighNibble(At(idx + 4)) \o Bits(At(idx), 6, 2)]

Q4K(e) ==
    LET sm == ScaleMin(e \div 32) IN
    Value(Nibble(16 + 32 * (e \div 64) + (e % 32), (e % 64) \div 32), 0,
          sm.scale, 0, sm.min, Half(0), Half(2))
Q5K(e) ==
    LET sm == ScaleMin(e \div 32) IN
    Value(Nibble(48 + 32 * (e \div 64) + (e % 32), (e % 64) \div 32)
              \o Bits(16 + (e % 32), e \div 32, 1), 0,
          sm.scale, 0, sm.min, Half(0), Half(2))

Q6K(e) ==
    LET n == e \div 128   quarter == (e % 128) \div 32   l == e % 32 IN
    Value(Nibble(64 * n + l + 32 * (quarter % 2), quarter \div 2)
              \o Bits(128 + 32 * n + l, 2 * quarter, 2), -32,
          Bytes(192 + 8 * n + l \div 16 + 2 * quarter, 1), 0, <<>>, Half(208), <<>>)

Q8K(e) == Scaled(Bytes(4 + e, 1), 0, Bytes(0, 4))
\* The 16 sums of Q8_K are kept for other kernels; decoding reads none.
BSums  == UNION {ToSet(Half(260 + 2 * i)) : i \in 0..15}

IQ4NL(e) == Scaled(Nibble(2 + (e % 16), e \div 16), 0, Half(0))
SubBlockScale(ib) == Nibble(4 + ib \div 2, ib % 2) \o SubSeq(Half(2), 2 * ib + 1, 2 * ib + 2)
IQ4XS(e) ==
    LET ib == e \div 32 IN
    Value(Nibble(8 + 16 * ib + (e % 16), (e % 32) \div 16), 0,
          SubBlockScale(ib), -32, <<>>, Half(0), <<>>)

\* Five ternary digits share a byte of TQ1_0, four one of its last four bytes.
\* A digit is <<byte, which>>.
POW3 == <<1, 3, 9, 27, 81>>
Digit(byte, n) == (((byte * POW3[n + 1]) % 256) * 3) \div 256
Tq1_0(e) ==
    LET At(first, width, from) == <<<<first + ((e - from) % width), (e - from) \div width>>>> IN
    Scaled(CASE e < 160 -> At(0, 32, 0) [] e \in 160..239 -> At(32, 16, 160)
             [] e >= 240 -> At(48, 4, 240), -1, Half(52))
Tq2_0(e) == Scaled(Plane2(0, e), -1, Half(64))

NVFP4(e) ==
    LET s == e \div 16 IN
    Value(Nibble(4 + 8 * s + (e % 8), (e % 16) \div 8), 0, Bytes(s, 1), 0, <<>>, <<>>, <<>>)

ValueAt(t, e) ==
    CASE t = "F32" -> F32(e)     [] t = "F16" -> F16(e)     [] t = "BF16" -> BF16(e)
      [] t = "Q4_0" -> Q4_0(e)   [] t = "Q4_1" -> Q4_1(e)   [] t = "Q5_0" -> Q5_0(e)
      [] t = "Q5_1" -> Q5_1(e)   [] t = "Q8_0" -> Q8_0(e)   [] t = "Q2K" -> Q2K(e)
      [] t = "Q3K" -> Q3K(e)     [] t = "Q4K" -> Q4K(e)     [] t = "Q5K" -> Q5K(e)
      [] t = "Q6K" -> Q6K(e)     [] t = "Q8K" -> Q8K(e)     [] t = "IQ4NL" -> IQ4NL(e)
      [] t = "IQ4XS" -> IQ4XS(e) [] t = "Tq1_0" -> Tq1_0(e) [] t = "Tq2_0" -> Tq2_0(e)
      [] t = "NVFP4" -> NVFP4(e)

\* The types load_cpu_f32 decodes, and with the 4-bit floats those that are decoded at all.
Loadable == {"F32", "F16", "BF16", "Q8_0", "Q4_0", "Q4_1", "Q5_0", "Q5_1", "Q2K", "Q3K",
             "Q4K", "Q5K", "Q6K", "Q8K", "IQ4NL", "IQ4XS", "Tq1_0", "Tq2_0"}
Decoded  == Loadable \cup {"NVFP4"}

\* The codebook IQ4_NL and IQ4_XS index, and the doubled 4-bit floats.
KVALUES_IQ4NL == <<-127, -104, -83, -65, -49, -35, -22, -10, 1, 13, 25, 38, 53, 69, 89, 113>>
KVALUES_MXFP4 == <<0, 1, 2, 3, 4, 6, 8, 12, 0, -1, -2, -3, -4, -6, -8, -12>>

\* A scale byte of NVFP4, in units of 2^-10: half of man * 2^-9 when the
\* exponent is 0, else half of (1 + man / 8) * 2^(exp - 7).
Ue4m3(byte) ==
    LET exp == (byte \div 8) % 16   man == byte % 8 IN
    CASE byte \in {0, 127} -> 0
      [] byte \notin {0, 127} /\ exp = 0 -> man
      [] byte \notin {0, 127} /\ exp > 0 -> (8 + man) * 2^(exp - 1)
NanScale(byte) == byte \in {127, 255}

\* What the decoder of a type takes a block to be.
BlockBytes(t) == IF t = "Q5_1" THEN 4 + 4 + 16 ELSE Layout(t).bytes

\* How many values the decoder of a tensor yields for this many bytes; most
\* take the number of values they expect for a capacity only.
Refused == -1
DecodedLength(t, nBytes, expected) ==
    LET l == [Layout(t) EXCEPT !.bytes = BlockBytes(t)] IN
    IF \/ nBytes % l.bytes # 0
       \/ t \in {"F32", "F16", "BF16", "Q8_0", "NVFP4"} /\ expected % l.elements # 0
       \/ t \in {"F32", "F16", "BF16", "Q8_0", "NVFP4"} /\ nBytes # (expected \div l.elements) * l.bytes
    THEN Refused
    ELSE (nBytes \div l.bytes) * l.elements

-----------------------------------------------------------------------------
(* Half floats.  An f32 is its sign and the number its other 31 bits write, *)
(* so that the order of the numbers is the order of the magnitudes.         *)

F32Bits(exp, frac) == exp * 2^23 + frac

\* f16_bits_to_f32: exact; a subnormal half is shifted until its leading bit shows.
F16ToF32(h) ==
    LET exp == h \div 1024   frac == h % 1024
        shift == CHOOSE k \in 0..10 : frac * 2^k \in 1024..2047 IN
    CASE h = 0 -> 0
      [] h # 0 /\ exp = 0 -> F32Bits(113 - shift, ((frac * 2^shift) % 1024) * 2^13)
      [] exp = 31 -> F32Bits(255, frac * 2^13)
      [] exp \in 1..30 -> F32Bits(exp + 127 - 15, frac * 2^13)

\* fast_f16_to_f32: the same but for the way it is written.
FastF16ToF32(h) ==
    LET exponent == h \div 1024   fraction == h % 1024 IN
    CASE exponent = 0 /\ fraction = 0 -> 0
      [] exponent = 0 /\ fraction # 0 -> F16ToF32(h)
      [] exponent = 31 -> 255 * 2^23 + fraction * 2^13
      [] exponent \in 1..30 -> (exponent + 112) * 2^23 + fraction * 2^13

\* f32_to_f16_bits: the nearest, of two equally near the even one.
RoundedShift(mant, shift) ==
    LET half == mant \div 2^shift   rem == mant % 2^shift   halfway == 2^(shift - 1) IN
    IF rem > halfway \/ (rem = halfway /\ half % 2 = 1) THEN half + 1 ELSE half
F32ToF16(f) ==
    LET exp == f \div 2^23   frac == f % 2^23   halfExp == exp - 127 + 15 IN
    CASE exp = 255 /\ frac # 0 -> 31 * 1024 + 512 + ((frac \div 2^13) % 512)
      [] exp = 255 /\ frac = 0 -> 31 * 1024
      [] exp # 255 /\ halfExp >= 31 -> 31 * 1024
      [] halfExp < -10 -> 0
      [] halfExp \in -10..0 -> RoundedShift(frac + 2^23, 14 - halfExp)
      [] halfExp \in 1..30 -> RoundedShift(halfExp * 2^23 + frac, 13)

-----------------------------------------------------------------------------
(* What the decoding of a type promises. *)

Block(t) == [e \in 0..(Layout(t).elements - 1) |-> ValueAt(t, e)]
Places(t) ==
    IF t = "Tq1_0" THEN ((0..47) \X (0..4)) \cup ((48..51) \X (0..3)) \cup ToSet(Half(52))
                   ELSE ((0..(BlockBytes(t) - 1)) \X (0..7))
                        \ (IF t = "Q8K" THEN BSums ELSE {})

AllOf(numbers) == UNION {ToSet(n) : n \in numbers}
\* Numbers of one width that are written apart: no bit belongs to two of them.
Apart(numbers) ==
    LET written == numbers \ {<<>>}   width == Len(CHOOSE n \in written : TRUE) IN
    written # {} =>
        /\ \A n \in written : Len(n) = width
        /\ Cardinality(AllOf(written)) = Cardinality(written) * width

\* Consecutive values share a scale and a minimum, and only those do.
GroupSize(t) == CASE t \in {"Q2K", "Q3K", "Q6K", "NVFP4"} -> 16
                  [] t \in {"Q4K", "Q5K", "IQ4XS"} -> 32
                  [] OTHER -> Layout(t).elements

IntegerFits(bits, bias) ==
    Len(bits) < 8 => bias >= -128 /\ 2^Len(bits) - 1 + bias <= 127

BlockIsReadOnce(t) ==
    LET b == Block(t)   I == DOMAIN b
        own == {b[e].own : e \in I}         scales == {b[e].scale : e \in I}
        mins == {b[e].min : e \in I}        factors == {b[e].d : e \in I} \cup {b[e].dMin : e \in I}
    IN
    /\ Cardinality(own) = Layout(t).elements
    /\ \A numbers \in {own, scales, mins, factors} : Apart(numbers)
    /\ Cardinality(AllOf(own)) + Cardinality(AllOf(scales)) + Cardinality(AllOf(mins))
           + Cardinality(AllOf(factors)) = Cardinality(Places(t))
    /\ UNION {AllOf(n) : n \in {own, scales, mins, factors}} = Places(t)
    /\ \A e \in I : LET first == GroupSize(t) * (e \div GroupSize(t)) IN
          b[e].scale = b[first].scale /\ b[e].min = b[first].min
    /\ scales # {<<>>} => Cardinality(scales) = Layout(t).elements \div GroupSize(t)
    /\ mins # {<<>>} => Cardinality(mins) = Layout(t).elements \div GroupSize(t)
    /\ \A e \in I : IntegerFits(b[e].own, b[e].bias) /\ IntegerFits(b[e].scale, b[e].scaleBias)

\* Every tuple of digits is written by some byte, and the tables are what the
\* formats index: increasing, and a 4-bit float and its negative.
TablesAreSound ==
    /\ {[n \in 0..4 |-> Digit(byte, n)] : byte \in 0..255} = [0..4 -> 0..2]
    /\ \A i, j \in 1..16 : i < j => KVALUES_IQ4NL[i] < KVALUES_IQ4NL[j]
    /\ \A i \in 1..8 : KVALUES_MXFP4[i + 8] = -KVALUES_MXFP4[i]
    /\ \A i, j \in 1..8 : i < j => KVALUES_MXFP4[i] < KVALUES_MXFP4[j]
    /\ \A i, j \in 0..126 : i < j => Ue4m3(i) < Ue4m3(j)
    /\ \A i \in 0..127 : ~NanScale(i) => (Ue4m3(i) = 0 <=> i = 0)

\* The halves around h in the order of magnitudes: what lies between two
\* neighbours goes to the nearer, the middle to the even one, and a half goes to f32 and back.
HalfIsNearest(h) ==
    LET next == h + 1   low == F16ToF32(h)   high == F16ToF32(next)
        middle == low + (high - low) \div 2 IN
    /\ FastF16ToF32(h) = low
    /\ h <= 31 * 1024 => F32ToF16(low) = h
    /\ h > 31 * 1024 => F32ToF16(low) > 31 * 1024
    /\ h \in 1..(31 * 1024 - 2) =>
          /\ F32ToF16(middle - 1) = h /\ F32ToF16(middle + 1) = next
          /\ F32ToF16(middle) = IF h % 2 = 0 THEN h ELSE next
=============================================================================
