-------------------------------- MODULE Codec --------------------------------
(***************************************************************************)
(* G.711 mu-law as src/decana/bridge/codec.py computes it, one sample or   *)
(* one code at a time.  A code is stored complemented: once inverted it is *)
(* a sign bit, a 3-bit segment and a 4-bit quantum.                        *)
(***************************************************************************)
EXTENDS Integers, Sequences

Sample == -32768 .. 32767       \* int16
Code == 0 .. 255

Bias == 132                     \* 0x84
Clip == 8159                    \* the largest magnitude in 14-bit space
SegUEnd == <<63, 127, 255, 511, 1023, 2047, 4095, 8191>>
Pow2 == <<1, 2, 4, 8, 16, 32, 64, 128, 256, 512>>

\* Mutated form: the segment shifts one place too far.
DecodeShiftedOnce(code) ==
    LET inverted == 255 - code
        magnitude == ((inverted % 16) * 8 + Bias) * Pow2[((inverted \div 16) % 8) + 2]
    IN IF inverted >= 128 THEN Bias - magnitude ELSE magnitude - Bias

DecodeSample(code) ==
    LET inverted == 255 - code
        magnitude == ((inverted % 16) * 8 + Bias) * Pow2[((inverted \div 16) % 8) + 1]
    IN IF inverted >= 128 THEN Bias - magnitude ELSE magnitude - Bias

\* The first segment that holds a biased magnitude, 8 when it is above them all.
Segment(magnitude) ==
    CHOOSE i \in 0 .. 8 : /\ i < 8 => magnitude <= SegUEnd[i + 1]
                          /\ \A j \in 1 .. i : magnitude > SegUEnd[j]

\* The 14-bit magnitude: `>> 2` floors, so -1 becomes 1 and not 0.
Magnitude(sample) ==
    LET scaled == sample \div 4
        absolute == IF scaled < 0 THEN -scaled ELSE scaled
    IN (IF absolute > Clip THEN Clip ELSE absolute) + Bias \div 4

\* Mutated form: what is above every segment is not saturated.
PackedWrapping(segment, magnitude) ==
    (16 * segment + ((magnitude \div Pow2[segment + 2]) % 16)) % 128

\* Segment and quantum; a magnitude above every segment is the loudest code.
Packed(segment, magnitude) ==
    IF segment = 8 THEN 127
    ELSE 16 * segment + ((magnitude \div Pow2[segment + 2]) % 16)

\* The packed value is below 128, so xor with the mask is a subtraction.
EncodeSample(sample) ==
    LET mask == IF sample \div 4 < 0 THEN 127 ELSE 255
    IN mask - Packed(Segment(Magnitude(sample)), Magnitude(sample))

MulawDecode(codes) == [i \in 1 .. Len(codes) |-> DecodeSample(codes[i])]
MulawEncode(samples) == [i \in 1 .. Len(samples) |-> EncodeSample(samples[i])]

-----------------------------------------------------------------------------
(* What G.711 promises, whatever computes it.                              *)

Distance(x, y) == IF x < y THEN y - x ELSE x - y

\* A code stands for a sample up to 1/32 of its level and 8 steps.
Faithful(sample, code) ==
    32 * Distance(sample, DecodeSample(code)) <= Distance(sample, 0) + 256
=============================================================================
