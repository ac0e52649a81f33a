----------------------------- MODULE BridgeProofs -----------------------------
(***************************************************************************)
(* Theorems about the codec, for every sample and every code, and about    *)
(* Bridge, for any frames, chunks, bounds and faults: the types, that no   *)
(* audio is lost, what the timing log claims, what the recordings hold and *)
(* what the caller hears.                                                  *)
(***************************************************************************)
EXTENDS Bridge, TLAPS, SequenceTheorems

-----------------------------------------------------------------------------
(* The codec.                                                              *)

\* The powers of two a shift multiplies or divides by.
LEMMA Powers ==
    /\ Pow2[1] = 1 /\ Pow2[2] = 2 /\ Pow2[3] = 4 /\ Pow2[4] = 8 /\ Pow2[5] = 16
    /\ Pow2[6] = 32 /\ Pow2[7] = 64 /\ Pow2[8] = 128 /\ Pow2[9] = 256
  BY DEF Pow2

\* The bounds of the segments.
LEMMA Bounds ==
    /\ SegUEnd[1] = 63 /\ SegUEnd[2] = 127 /\ SegUEnd[3] = 255 /\ SegUEnd[4] = 511
    /\ SegUEnd[5] = 1023 /\ SegUEnd[6] = 2047 /\ SegUEnd[7] = 4095
    /\ SegUEnd[8] = 8191
  BY DEF SegUEnd

\* What a code decodes to, by its quantum and segment.
Level(quantum, segment) == (quantum * 8 + Bias) * Pow2[segment + 1]

\* Every code of a sign decodes to its level without the bias.
LEMMA DecodeForm ==
    ASSUME NEW quantum \in 0 .. 15, NEW segment \in 0 .. 7
    PROVE  /\ DecodeSample(255 - (16 * segment + quantum)) = Level(quantum, segment) - Bias
           /\ DecodeSample(127 - (16 * segment + quantum)) = Bias - Level(quantum, segment)
<1> DEFINE v == 16 * segment + quantum
<1>1. /\ v \in 0 .. 127 /\ v % 16 = quantum /\ v \div 16 = segment /\ segment % 8 = segment
      /\ (v + 128) % 16 = quantum /\ (v + 128) \div 16 = segment + 8
      /\ (segment + 8) % 8 = segment
  OBVIOUS
<1>2. 255 - (255 - v) = v /\ 255 - (127 - v) = v + 128
  BY <1>1
<1> QED
  BY <1>1, <1>2 DEF DecodeSample, Level

\* The segment of a biased magnitude.
LEMMA SegmentIs ==
    ASSUME NEW m \in Int, 33 <= m, m <= 8192
    PROVE  /\ Segment(m) \in 0 .. 8
           /\ Segment(m) = 0 => m <= 63
           /\ Segment(m) = 1 => 63 < m /\ m <= 127
           /\ Segment(m) = 2 => 127 < m /\ m <= 255
           /\ Segment(m) = 3 => 255 < m /\ m <= 511
           /\ Segment(m) = 4 => 511 < m /\ m <= 1023
           /\ Segment(m) = 5 => 1023 < m /\ m <= 2047
           /\ Segment(m) = 6 => 2047 < m /\ m <= 4095
           /\ Segment(m) = 7 => 4095 < m /\ m <= 8191
           /\ Segment(m) = 8 => 8191 < m
<1> DEFINE In(i) == /\ i < 8 => m <= SegUEnd[i + 1]
                    /\ \A j \in 1 .. i : m > SegUEnd[j]
<1>1. \E i \in 0 .. 8 : In(i)
  <2>1. 32 < m /\ m <= 63 => In(0)
    BY Bounds
  <2>2. 63 < m /\ m <= 127 => In(1)
    BY Bounds
  <2>3. 127 < m /\ m <= 255 => In(2)
    BY Bounds
  <2>4. 255 < m /\ m <= 511 => In(3)
    BY Bounds
  <2>5. 511 < m /\ m <= 1023 => In(4)
    BY Bounds
  <2>6. 1023 < m /\ m <= 2047 => In(5)
    BY Bounds
  <2>7. 2047 < m /\ m <= 4095 => In(6)
    BY Bounds
  <2>8. 4095 < m /\ m <= 8191 => In(7)
    BY Bounds
  <2>9. 8191 < m /\ m <= 8192 => In(8)
    BY Bounds
  <2> HIDE DEF In
  <2> QED
    BY <2>1, <2>2, <2>3, <2>4, <2>5, <2>6, <2>7, <2>8, <2>9
<1>2. Segment(m) \in 0 .. 8 /\ In(Segment(m))
  BY <1>1 DEF Segment
<1> QED
  BY <1>2, Bounds

\* What a magnitude is packed to decodes next to it, within its segment's step.
LEMMA PackedIs ==
    ASSUME NEW m \in Int, 33 <= m, m <= 8192
    PROVE  \E segment \in 0 .. 7, quantum \in 0 .. 15 :
              /\ Packed(Segment(m), m) = 16 * segment + quantum
              /\ Level(quantum, segment) - 4 * Pow2[segment + 1] <= 4 * m
              /\ 4 * m <= Level(quantum, segment) + 4 * Pow2[segment + 1]
              /\ 128 * Pow2[segment + 1] <= 4 * m
              /\ m = 8192 => Level(quantum, segment) = 32256
<1> DEFINE Near(p, s, q) == /\ p = 16 * s + q
                            /\ Level(q, s) - 4 * Pow2[s + 1] <= 4 * m
                            /\ 4 * m <= Level(q, s) + 4 * Pow2[s + 1]
                            /\ 128 * Pow2[s + 1] <= 4 * m
                            /\ m = 8192 => Level(q, s) = 32256
<1>1. CASE Segment(m) = 0
  <2>1. 32 < m /\ m <= 63
    BY <1>1, SegmentIs
  <2>2. PICK q \in 0 .. 15 : m \div 2 = 16 + q
    BY <2>1
  <2>3. Packed(0, m) = 0 + q
    <3>1. (m \div 2) % 16 = q
      BY <2>2
    <3>2. Pow2[0 + 2] = 2
      BY Powers
    <3> QED BY <3>1, <3>2 DEF Packed
  <2>4. Near(0 + q, 0, q)
    BY <2>1, <2>2, Powers DEF Level, Bias
  <2> QED BY <1>1, <2>3, <2>4
<1>2. CASE Segment(m) = 1
  <2>1. 63 < m /\ m <= 127
    BY <1>2, SegmentIs
  <2>2. PICK q \in 0 .. 15 : m \div 4 = 16 + q
    BY <2>1
  <2>3. Packed(1, m) = 16 + q
    <3>1. (m \div 4) % 16 = q
      BY <2>2
    <3>2. Pow2[1 + 2] = 4
      BY Powers
    <3> QED BY <3>1, <3>2 DEF Packed
  <2>4. Near(16 + q, 1, q)
    BY <2>1, <2>2, Powers DEF Level, Bias
  <2> QED BY <1>2, <2>3, <2>4
<1>3. CASE Segment(m) = 2
  <2>1. 127 < m /\ m <= 255
    BY <1>3, SegmentIs
  <2>2. PICK q \in 0 .. 15 : m \div 8 = 16 + q
    BY <2>1
  <2>3. Packed(2, m) = 32 + q
    <3>1. (m \div 8) % 16 = q
      BY <2>2
    <3>2. Pow2[2 + 2] = 8
      BY Powers
    <3> QED BY <3>1, <3>2 DEF Packed
  <2>4. Near(32 + q, 2, q)
    BY <2>1, <2>2, Powers DEF Level, Bias
  <2> QED BY <1>3, <2>3, <2>4
<1>4. CASE Segment(m) = 3
  <2>1. 255 < m /\ m <= 511
    BY <1>4, SegmentIs
  <2>2. PICK q \in 0 .. 15 : m \div 16 = 16 + q
    BY <2>1
  <2>3. Packed(3, m) = 48 + q
    <3>1. (m \div 16) % 16 = q
      BY <2>2
    <3>2. Pow2[3 + 2] = 16
      BY Powers
    <3> QED BY <3>1, <3>2 DEF Packed
  <2>4. Near(48 + q, 3, q)
    BY <2>1, <2>2, Powers DEF Level, Bias
  <2> QED BY <1>4, <2>3, <2>4
<1>5. CASE Segment(m) = 4
  <2>1. 511 < m /\ m <= 1023
    BY <1>5, SegmentIs
  <2>2. PICK q \in 0 .. 15 : m \div 32 = 16 + q
    BY <2>1
  <2>3. Packed(4, m) = 64 + q
    <3>1. (m \div 32) % 16 = q
      BY <2>2
    <3>2. Pow2[4 + 2] = 32
      BY Powers
    <3> QED BY <3>1, <3>2 DEF Packed
  <2>4. Near(64 + q, 4, q)
    BY <2>1, <2>2, Powers DEF Level, Bias
  <2> QED BY <1>5, <2>3, <2>4
<1>6. CASE Segment(m) = 5
  <2>1. 1023 < m /\ m <= 2047
    BY <1>6, SegmentIs
  <2>2. PICK q \in 0 .. 15 : m \div 64 = 16 + q
    BY <2>1
  <2>3. Packed(5, m) = 80 + q
    <3>1. (m \div 64) % 16 = q
      BY <2>2
    <3>2. Pow2[5 + 2] = 64
      BY Powers
    <3> QED BY <3>1, <3>2 DEF Packed
  <2>4. Near(80 + q, 5, q)
    BY <2>1, <2>2, Powers DEF Level, Bias
  <2> QED BY <1>6, <2>3, <2>4
<1>7. CASE Segment(m) = 6
  <2>1. 2047 < m /\ m <= 4095
    BY <1>7, SegmentIs
  <2>2. PICK q \in 0 .. 15 : m \div 128 = 16 + q
    BY <2>1
  <2>3. Packed(6, m) = 96 + q
    <3>1. (m \div 128) % 16 = q
      BY <2>2
    <3>2. Pow2[6 + 2] = 128
      BY Powers
    <3> QED BY <3>1, <3>2 DEF Packed
  <2>4. Near(96 + q, 6, q)
    BY <2>1, <2>2, Powers DEF Level, Bias
  <2> QED BY <1>7, <2>3, <2>4
<1>8. CASE Segment(m) = 7
  <2>1. 4095 < m /\ m <= 8191
    BY <1>8, SegmentIs
  <2>2. PICK q \in 0 .. 15 : m \div 256 = 16 + q
    BY <2>1
  <2>3. Packed(7, m) = 112 + q
    <3>1. (m \div 256) % 16 = q
      BY <2>2
    <3>2. Pow2[7 + 2] = 256
      BY Powers
    <3> QED BY <3>1, <3>2 DEF Packed
  <2>4. Near(112 + q, 7, q)
    BY <2>1, <2>2, Powers DEF Level, Bias
  <2> QED BY <1>8, <2>3, <2>4
<1>9. CASE Segment(m) = 8
  <2>1. m = 8192
    BY <1>9, SegmentIs
  <2>2. Near(127, 7, 15)
    BY <2>1, Powers DEF Level, Bias
  <2> QED BY <1>9, <2>2 DEF Packed
<1> QED
  BY <1>1, <1>2, <1>3, <1>4, <1>5, <1>6, <1>7, <1>8, <1>9, SegmentIs

\* The magnitude is that of the sample, a quarter of it, until it clips.
LEMMA MagnitudeIs ==
    ASSUME NEW sample \in Sample
    PROVE  /\ Magnitude(sample) \in Int
           /\ 33 <= Magnitude(sample) /\ Magnitude(sample) <= 8192
           /\ Magnitude(sample) < 8192 =>
                 IF sample \div 4 < 0
                 THEN -sample \in 4 * Magnitude(sample) - 135 .. 4 * Magnitude(sample) - 132
                 ELSE sample \in 4 * Magnitude(sample) - 132 .. 4 * Magnitude(sample) - 129
           /\ Magnitude(sample) = 8192 =>
                 IF sample \div 4 < 0 THEN -sample \in 32633 .. 32768
                                     ELSE sample \in 32636 .. 32767
<1> DEFINE scaled == sample \div 4
<1>1. sample \in Int /\ -32768 <= sample /\ sample <= 32767 /\ Bias \div 4 = 33
  BY DEF Sample, Bias
<1>2. /\ scaled \in Int /\ -8192 <= scaled /\ scaled <= 8191
      /\ 4 * scaled <= sample /\ sample <= 4 * scaled + 3
  BY <1>1
<1>3. CASE scaled < 0
  <2>1. Magnitude(sample) = (IF -scaled > 8159 THEN 8159 ELSE -scaled) + 33
    BY <1>1, <1>3 DEF Magnitude, Clip
  <2> HIDE DEF scaled
  <2> QED BY <1>1, <1>2, <1>3, <2>1 DEF scaled
<1>4. CASE ~ (scaled < 0)
  <2>1. Magnitude(sample) = (IF scaled > 8159 THEN 8159 ELSE scaled) + 33
    BY <1>1, <1>4 DEF Magnitude, Clip
  <2> HIDE DEF scaled
  <2> QED BY <1>1, <1>2, <1>4, <2>1 DEF scaled
<1> QED BY <1>3, <1>4

\* A level is at most 252 * 128, whatever the code.
LEMMA LevelBounds ==
    ASSUME NEW quantum \in 0 .. 15, NEW segment \in 0 .. 7
    PROVE  /\ Level(quantum, segment) \in Int
           /\ 132 <= Level(quantum, segment) /\ Level(quantum, segment) <= 32256
  BY Powers DEF Level, Bias

\* The interval of a sample, from its bounds.
LEMMA InSample ==
    ASSUME NEW x \in Int, -32768 <= x, x <= 32767
    PROVE  x \in Sample
<1> DEFINE low == -32768
           high == 32767
<1>1. low \in Int /\ high \in Int /\ low <= x /\ x <= high
  OBVIOUS
<1> HIDE DEF low, high
<1>2. x \in low .. high
  BY <1>1
<1> QED
  BY <1>2 DEF low, high, Sample

\* Every byte decodes to a 16-bit sample: struct.pack cannot raise.
THEOREM Decoded ==
    ASSUME NEW code \in Code
    PROVE  DecodeSample(code) \in Sample
<1>0. code \in Int /\ 0 <= code /\ code <= 255
  BY DEF Code
<1>1. CASE code >= 128
  <2>1. PICK segment \in 0 .. 7, quantum \in 0 .. 15 :
              code = 255 - (16 * segment + quantum)
    <3> DEFINE v == 255 - code
    <3>1. v \in Int /\ 0 <= v /\ v <= 127 /\ code = 255 - v
      BY <1>0, <1>1
    <3> HIDE DEF v
    <3>2. v \div 16 \in 0 .. 7 /\ v % 16 \in 0 .. 15 /\ v = 16 * (v \div 16) + (v % 16)
      BY <3>1
    <3>3. code = 255 - (16 * (v \div 16) + (v % 16))
      BY <3>1, <3>2
    <3> QED BY <3>2, <3>3
  <2>2. DecodeSample(code) = Level(quantum, segment) - 132
    BY <2>1, DecodeForm DEF Bias
  <2>3. /\ Level(quantum, segment) \in Int
        /\ 132 <= Level(quantum, segment) /\ Level(quantum, segment) <= 32256
    BY LevelBounds
  <2>4. /\ DecodeSample(code) \in Int
        /\ -32768 <= DecodeSample(code) /\ DecodeSample(code) <= 32767
    BY <2>2, <2>3
  <2> QED BY <2>4, InSample
<1>2. CASE code < 128
  <2>1. PICK segment \in 0 .. 7, quantum \in 0 .. 15 :
              code = 127 - (16 * segment + quantum)
    <3> DEFINE v == 127 - code
    <3>1. v \in Int /\ 0 <= v /\ v <= 127 /\ code = 127 - v
      BY <1>0, <1>2
    <3> HIDE DEF v
    <3>2. v \div 16 \in 0 .. 7 /\ v % 16 \in 0 .. 15 /\ v = 16 * (v \div 16) + (v % 16)
      BY <3>1
    <3>3. code = 127 - (16 * (v \div 16) + (v % 16))
      BY <3>1, <3>2
    <3> QED BY <3>2, <3>3
  <2>2. DecodeSample(code) = 132 - Level(quantum, segment)
    BY <2>1, DecodeForm DEF Bias
  <2>3. /\ Level(quantum, segment) \in Int
        /\ 132 <= Level(quantum, segment) /\ Level(quantum, segment) <= 32256
    BY LevelBounds
  <2>4. /\ DecodeSample(code) \in Int
        /\ -32768 <= DecodeSample(code) /\ DecodeSample(code) <= 32767
    BY <2>2, <2>3
  <2> QED BY <2>4, InSample
<1> QED BY <1>0, <1>1, <1>2

(***************************************************************************)
(* Every 16-bit sample is coded as one byte, which decodes to it up to     *)
(* 1/32 of its level and 8 steps: nothing wraps, changes sign or lands in  *)
(* a wrong segment, the rails and minus one included (codec.py:110-129).   *)
(***************************************************************************)
THEOREM Coded ==
    ASSUME NEW sample \in Sample
    PROVE  EncodeSample(sample) \in Code /\ Faithful(sample, EncodeSample(sample))
<1> DEFINE m == Magnitude(sample)
<1>1. m \in Int /\ 33 <= m /\ m <= 8192
  BY MagnitudeIs
<1>2. PICK segment \in 0 .. 7, quantum \in 0 .. 15 :
              /\ Packed(Segment(m), m) = 16 * segment + quantum
              /\ Level(quantum, segment) - 4 * Pow2[segment + 1] <= 4 * m
              /\ 4 * m <= Level(quantum, segment) + 4 * Pow2[segment + 1]
              /\ 128 * Pow2[segment + 1] <= 4 * m
              /\ m = 8192 => Level(quantum, segment) = 32256
  BY <1>1, PackedIs
<1> DEFINE p == Pow2[segment + 1]
           v == Level(quantum, segment)
<1>3. p \in Nat /\ v \in Int
  BY Powers DEF Level, Bias
<1>4. /\ v - 4 * p <= 4 * m /\ 4 * m <= v + 4 * p /\ 128 * p <= 4 * m
      /\ m = 8192 => v = 32256
  BY <1>2
<1>5. sample \in Int
  BY DEF Sample
<1>6. CASE sample \div 4 < 0
  <2>1. EncodeSample(sample) = 127 - (16 * segment + quantum)
    BY <1>2, <1>6 DEF EncodeSample
  <2>2. DecodeSample(EncodeSample(sample)) = 132 - v
    BY <2>1, DecodeForm DEF Bias
  <2>3. /\ m < 8192 => -sample \in 4 * m - 135 .. 4 * m - 132
        /\ m = 8192 => -sample \in 32633 .. 32768
    BY <1>6, MagnitudeIs
  <2>4. Faithful(sample, EncodeSample(sample))
    <3> HIDE DEF m, p, v
    <3> QED BY <1>1, <1>3, <1>4, <1>5, <2>2, <2>3 DEF Faithful, Distance
  <2> QED BY <2>1, <2>4 DEF Code
<1>7. CASE ~ (sample \div 4 < 0)
  <2>1. EncodeSample(sample) = 255 - (16 * segment + quantum)
    BY <1>2, <1>7 DEF EncodeSample
  <2>2. DecodeSample(EncodeSample(sample)) = v - 132
    BY <2>1, DecodeForm DEF Bias
  <2>3. /\ m < 8192 => sample \in 4 * m - 132 .. 4 * m - 129
        /\ m = 8192 => sample \in 32636 .. 32767
    BY <1>7, MagnitudeIs
  <2>4. Faithful(sample, EncodeSample(sample))
    <3> HIDE DEF m, p, v
    <3> QED BY <1>1, <1>3, <1>4, <1>5, <2>2, <2>3 DEF Faithful, Distance
  <2> QED BY <2>1, <2>4 DEF Code
<1> QED BY <1>6, <1>7

-----------------------------------------------------------------------------
(* Sequences of samples and of codes.                                      *)

\* Coding is done sample by sample.
LEMMA EncodedForm ==
    ASSUME NEW u \in Seq(Sample)
    PROVE  /\ MulawEncode(u) \in Seq(Code)
           /\ Len(MulawEncode(u)) = Len(u)
           /\ \A i \in 1 .. Len(u) : MulawEncode(u)[i] = EncodeSample(u[i]) /\ u[i] \in Sample
<1>1. Len(u) \in Nat
  OBVIOUS
<1>2. ASSUME NEW i \in 1 .. Len(u) PROVE u[i] \in Sample /\ EncodeSample(u[i]) \in Code
  BY <1>2, ElementOfSeq, Coded
<1>3. MulawEncode(u) \in [1 .. Len(u) -> Code]
  BY <1>2 DEF MulawEncode
<1>4. MulawEncode(u) \in Seq(Code)
  BY <1>1, <1>3
<1>5. Len(MulawEncode(u)) = Len(u)
  BY <1>1, <1>3, <1>4, LenProperties
<1> QED
  BY <1>2, <1>4, <1>5 DEF MulawEncode

\* So it respects concatenation.
LEMMA EncodeConcat ==
    ASSUME NEW s \in Seq(Sample), NEW t \in Seq(Sample)
    PROVE  MulawEncode(s \o t) = MulawEncode(s) \o MulawEncode(t)
<1> DEFINE x == MulawEncode(s)
           y == MulawEncode(t)
           z == MulawEncode(s \o t)
<1>1. s \o t \in Seq(Sample) /\ Len(s) \in Nat /\ Len(t) \in Nat /\ Len(s \o t) = Len(s) + Len(t)
  OBVIOUS
<1>2. /\ x \in Seq(Code) /\ Len(x) = Len(s) /\ y \in Seq(Code) /\ Len(y) = Len(t)
      /\ z \in Seq(Code) /\ Len(z) = Len(s) + Len(t)
      /\ \A i \in 1 .. Len(s) : x[i] = EncodeSample(s[i])
      /\ \A i \in 1 .. Len(t) : y[i] = EncodeSample(t[i])
      /\ \A i \in 1 .. Len(s) + Len(t) : z[i] = EncodeSample((s \o t)[i])
  BY <1>1, EncodedForm
<1> HIDE DEF x, y, z
<1>3. x \o y \in Seq(Code) /\ Len(x \o y) = Len(z)
  <2>1. x \o y \in Seq(Code) /\ Len(x \o y) = Len(x) + Len(y)
    BY <1>2, ConcatProperties
  <2> QED BY <1>2, <2>1
<1>4. ASSUME NEW i \in 1 .. Len(z) PROVE z[i] = (x \o y)[i]
  <2>1. (s \o t)[i] = IF i <= Len(s) THEN s[i] ELSE t[i - Len(s)]
    BY <1>2, ConcatProperties
  <2>2. (x \o y)[i] = IF i <= Len(s) THEN x[i] ELSE y[i - Len(s)]
    BY <1>2, ConcatProperties
  <2>3. z[i] = EncodeSample((s \o t)[i])
    BY <1>2
  <2>4. CASE i <= Len(s)
    <3>1. i \in 1 .. Len(s)
      BY <1>1, <1>2, <2>4
    <3>2. x[i] = EncodeSample(s[i])
      BY <1>2, <3>1
    <3> QED BY <2>1, <2>2, <2>3, <2>4, <3>2
  <2>5. CASE ~ (i <= Len(s))
    <3>1. i - Len(s) \in 1 .. Len(t)
      BY <1>1, <1>2, <2>5
    <3>2. y[i - Len(s)] = EncodeSample(t[i - Len(s)])
      BY <1>2, <3>1
    <3> QED BY <2>1, <2>2, <2>3, <2>5, <3>2
  <2> QED BY <2>4, <2>5
<1>5. z = x \o y
  BY <1>2, <1>3, <1>4, SeqEqual
<1> QED BY <1>5 DEF x, y, z

\* Decoding is done code by code.
LEMMA DecodedForm ==
    ASSUME NEW u \in Seq(Code)
    PROVE  /\ MulawDecode(u) \in Seq(Sample)
           /\ Len(MulawDecode(u)) = Len(u)
           /\ \A i \in 1 .. Len(u) : MulawDecode(u)[i] = DecodeSample(u[i]) /\ u[i] \in Code
<1>1. Len(u) \in Nat
  OBVIOUS
<1>2. ASSUME NEW i \in 1 .. Len(u) PROVE u[i] \in Code /\ DecodeSample(u[i]) \in Sample
  BY <1>2, ElementOfSeq, Decoded
<1>3. MulawDecode(u) \in [1 .. Len(u) -> Sample]
  BY <1>2 DEF MulawDecode
<1>4. MulawDecode(u) \in Seq(Sample)
  BY <1>1, <1>3
<1>5. Len(MulawDecode(u)) = Len(u)
  BY <1>1, <1>3, <1>4, LenProperties
<1> QED
  BY <1>2, <1>4, <1>5 DEF MulawDecode

\* So it respects concatenation.
LEMMA DecodeConcat ==
    ASSUME NEW s \in Seq(Code), NEW t \in Seq(Code)
    PROVE  MulawDecode(s \o t) = MulawDecode(s) \o MulawDecode(t)
<1> DEFINE x == MulawDecode(s)
           y == MulawDecode(t)
           z == MulawDecode(s \o t)
<1>1. s \o t \in Seq(Code) /\ Len(s) \in Nat /\ Len(t) \in Nat /\ Len(s \o t) = Len(s) + Len(t)
  OBVIOUS
<1>2. /\ x \in Seq(Sample) /\ Len(x) = Len(s) /\ y \in Seq(Sample) /\ Len(y) = Len(t)
      /\ z \in Seq(Sample) /\ Len(z) = Len(s) + Len(t)
      /\ \A i \in 1 .. Len(s) : x[i] = DecodeSample(s[i])
      /\ \A i \in 1 .. Len(t) : y[i] = DecodeSample(t[i])
      /\ \A i \in 1 .. Len(s) + Len(t) : z[i] = DecodeSample((s \o t)[i])
  BY <1>1, DecodedForm
<1> HIDE DEF x, y, z
<1>3. x \o y \in Seq(Sample) /\ Len(x \o y) = Len(z)
  <2>1. x \o y \in Seq(Sample) /\ Len(x \o y) = Len(x) + Len(y)
    BY <1>2, ConcatProperties
  <2> QED BY <1>2, <2>1
<1>4. ASSUME NEW i \in 1 .. Len(z) PROVE z[i] = (x \o y)[i]
  <2>1. (s \o t)[i] = IF i <= Len(s) THEN s[i] ELSE t[i - Len(s)]
    BY <1>2, ConcatProperties
  <2>2. (x \o y)[i] = IF i <= Len(s) THEN x[i] ELSE y[i - Len(s)]
    BY <1>2, ConcatProperties
  <2>3. z[i] = DecodeSample((s \o t)[i])
    BY <1>2
  <2>4. CASE i <= Len(s)
    <3>1. i \in 1 .. Len(s)
      BY <1>1, <1>2, <2>4
    <3>2. x[i] = DecodeSample(s[i])
      BY <1>2, <3>1
    <3> QED BY <2>1, <2>2, <2>3, <2>4, <3>2
  <2>5. CASE ~ (i <= Len(s))
    <3>1. i - Len(s) \in 1 .. Len(t)
      BY <1>1, <1>2, <2>5
    <3>2. y[i - Len(s)] = DecodeSample(t[i - Len(s)])
      BY <1>2, <3>1
    <3> QED BY <2>1, <2>2, <2>3, <2>5, <3>2
  <2> QED BY <2>4, <2>5
<1>5. z = x \o y
  BY <1>2, <1>3, <1>4, SeqEqual
<1> QED BY <1>5 DEF x, y, z

\* What a leg carries over the wire.
Wire(leg) == IF leg = "in" THEN Sample ELSE Code

\* A payload is made piece by piece, and is empty only if it is made of nothing.
LEMMA PayloadConcat ==
    ASSUME NEW leg \in Legs, NEW s \in Seq(Sample), NEW t \in Seq(Sample)
    PROVE  /\ Payload(leg, s) \in Seq(Wire(leg))
           /\ Payload(leg, s \o t) = Payload(leg, s) \o Payload(leg, t)
           /\ Payload(leg, s) = <<>> <=> s = <<>>
<1>1. MulawEncode(s) = <<>> <=> s = <<>>
  <2>1. Len(MulawEncode(s)) = 0 <=> Len(s) = 0
    BY EncodedForm
  <2> QED BY <2>1, EncodedForm, EmptySeq
<1> QED
  BY <1>1, EncodedForm, EncodeConcat DEF Payload, Wire, Legs

\* A buffer is what is given back and what is kept, in that order.
LEMMA Split ==
    ASSUME NEW b \in Seq(Sample), NEW n \in 0 .. Len(b)
    PROVE  /\ SubSeq(b, 1, n) \in Seq(Sample)
           /\ SubSeq(b, n + 1, Len(b)) \in Seq(Sample)
           /\ SubSeq(b, 1, n) \o SubSeq(b, n + 1, Len(b)) = b
<1>1. Len(b) \in Nat /\ \A i \in 1 .. Len(b) : b[i] \in Sample
  BY ElementOfSeq, LenProperties
<1>2. SubSeq(b, 1, n) \in Seq(Sample)
  <2>1. \A i \in 1 .. n : b[i] \in Sample
    BY <1>1
  <2> QED BY <2>1, SubSeqProperties
<1>3. SubSeq(b, n + 1, Len(b)) \in Seq(Sample)
  <2>1. n + 1 \in Int /\ Len(b) \in Int /\ \A i \in n + 1 .. Len(b) : b[i] \in Sample
    BY <1>1
  <2> QED BY <2>1, SubSeqProperties
<1>4. SubSeq(b, 1, n) \o SubSeq(b, n + 1, Len(b)) = SubSeq(b, 1, Len(b))
  <2>1. 1 \in 1 .. Len(b) + 1 /\ n \in 1 - 1 .. Len(b) /\ Len(b) \in n .. Len(b)
    BY <1>1
  <2> QED BY <2>1, ConcatAdjacentSubSeq
<1> QED
  BY <1>2, <1>3, <1>4, SubSeqFull

\* A prefix stays one when the sequence grows.
LEMMA PrefixKept ==
    ASSUME NEW S, NEW s \in Seq(S), NEW t \in Seq(S), NEW r \in Seq(S),
           Len(r) <= Len(s), r = SubSeq(s, 1, Len(r))
    PROVE  Len(r) <= Len(s \o t) /\ r = SubSeq(s \o t, 1, Len(r))
<1>0. /\ Len(r) \in Nat /\ Len(s) \in Nat /\ Len(t) \in Nat
      /\ Len(s \o t) = Len(s) + Len(t)
  BY LenProperties, ConcatProperties
<1>1. CASE Len(r) = 0
  <2>1. SubSeq(s, 1, 0) = <<>> /\ SubSeq(s \o t, 1, 0) = <<>>
    BY SubSeqEmpty
  <2> QED BY <1>0, <1>1, <2>1
<1>2. CASE Len(r) # 0
  <2>1. 1 \in 1 .. Len(s) /\ Len(r) \in 1 .. Len(s)
    BY <1>0, <1>2
  <2>2. SubSeq(s \o t, 1, Len(r)) = SubSeq(s, 1, Len(r))
    BY <2>1, SubSeqOfConcat1
  <2> QED BY <1>0, <2>2
<1> QED BY <1>1, <1>2

\* Two payloads sent one after the other are the payload of both.
LEMMA SentTwice ==
    ASSUME NEW leg \in Legs, NEW u \in Seq(Sample), NEW v \in Seq(Sample),
           NEW sent \in Seq(Wire(leg))
    PROVE  (sent \o Payload(leg, u)) \o Payload(leg, v) = sent \o Payload(leg, u \o v)
<1>1. Payload(leg, u) \in Seq(Wire(leg)) /\ Payload(leg, v) \in Seq(Wire(leg))
  BY PayloadConcat
<1>2. (sent \o Payload(leg, u)) \o Payload(leg, v)
         = sent \o (Payload(leg, u) \o Payload(leg, v))
  BY <1>1, ConcatAssociative
<1>3. Payload(leg, u \o v) = Payload(leg, u) \o Payload(leg, v)
  BY PayloadConcat
<1> QED BY <1>2, <1>3

-----------------------------------------------------------------------------
(* The inductive invariant.                                                *)

\* What a leg has taken, kept, sent, got through and logged agree.
Flow(leg) ==
    /\ handed[leg] \o Payload(leg, held[leg]) = Payload(leg, taken[leg])
    /\ Len(reached[leg]) <= Len(handed[leg])
    /\ reached[leg] = SubSeq(handed[leg], 1, Len(reached[leg]))
    /\ leg \in open => reached[leg] = handed[leg]
    /\ leg \in final => held[leg] = <<>>
    /\ claims[leg] <= forwards[leg] /\ forwards[leg] <= claims[leg] + lost[leg]

\* The recorder follows the legs until close() writes the files.
Whole ==
    /\ model = handed["out"]
    /\ "in" \notin final => MulawDecode(caller) = taken["in"]
    /\ phase = "open" => final = {}
    /\ phase = "closed" => final = Legs
    /\ phase # "closed" => wav["in"] = None /\ wav["out"] = None
    /\ wav["in"] # None => wav["in"] = taken["in"]
    /\ wav["out"] # None => wav["out"] = MulawDecode(MulawEncode(taken["out"]))
    /\ errors \subseteq {<<"in", "base64">>, <<"in", "codec">>, <<"out", "resample">>}

BridgeInv == TypeOK /\ (\A leg \in Legs : Flow(leg)) /\ Whole

\* What a forward does to the audio of a leg.
LEMMA ForwardedAudio ==
    ASSUME TypeOK, NEW legs, NEW given \in [Legs -> Seq(Sample)], NEW line,
           Forward(legs, given, line), NEW leg \in Legs
    PROVE  /\ handed[leg] \in Seq(Wire(leg)) /\ reached[leg] \in Seq(Wire(leg))
           /\ handed'[leg] = handed[leg] \o Payload(leg, given[leg])
           /\ reached'[leg] = IF leg \in open THEN reached[leg] \o Payload(leg, given[leg])
                                             ELSE reached[leg]
           /\ handed'[leg] \in Seq(Wire(leg)) /\ reached'[leg] \in Seq(Wire(leg))
<1>1. Payload(leg, given[leg]) \in Seq(Wire(leg))
  BY PayloadConcat
<1>2. handed[leg] \in Seq(Wire(leg)) /\ reached[leg] \in Seq(Wire(leg))
  BY DEF TypeOK, Legs, Wire
<1>3. /\ handed'[leg] = handed[leg] \o Payload(leg, given[leg])
      /\ reached'[leg] = IF leg \in open THEN reached[leg] \o Payload(leg, given[leg])
                                        ELSE reached[leg]
  BY DEF Forward
<1>4. handed[leg] \o Payload(leg, given[leg]) \in Seq(Wire(leg))
  BY <1>1, <1>2, ConcatProperties
<1>5. reached[leg] \o Payload(leg, given[leg]) \in Seq(Wire(leg))
  BY <1>1, <1>2, ConcatProperties
<1> QED BY <1>2, <1>3, <1>4, <1>5

\* What it does to the counts of a leg.
LEMMA ForwardedLog ==
    ASSUME TypeOK, NEW legs, NEW given \in [Legs -> Seq(Sample)],
           NEW line \in [Legs -> Lines], Forward(legs, given, line), NEW leg \in Legs
    PROVE  /\ forwards'[leg] = IF given[leg] = <<>> THEN forwards[leg] ELSE forwards[leg] + 1
           /\ claims'[leg] = IF leg \in legs /\ given[leg] # <<>>
                             THEN claims[leg] + line[leg] ELSE claims[leg]
           /\ lost'[leg] = IF leg \in legs /\ given[leg] # <<>>
                           THEN lost[leg] + 1 - line[leg] ELSE lost[leg]
           /\ line[leg] \in {0, 1}
           /\ forwards[leg] \in Nat /\ claims[leg] \in Nat /\ lost[leg] \in Nat
<1>1. Payload(leg, given[leg]) = <<>> <=> given[leg] = <<>>
  BY PayloadConcat
<1>2. forwards'[leg] = IF Payload(leg, given[leg]) = <<>> THEN forwards[leg]
                                                         ELSE forwards[leg] + 1
  BY DEF Forward
<1>3. /\ claims'[leg] = IF leg \in legs /\ given[leg] # <<>>
                        THEN claims[leg] + line[leg] ELSE claims[leg]
      /\ lost'[leg] = IF leg \in legs /\ given[leg] # <<>>
                      THEN lost[leg] + 1 - line[leg] ELSE lost[leg]
  BY DEF Forward, NothingEmitted
<1>4. line[leg] \in {0, 1}
  BY DEF Lines
<1> QED BY <1>1, <1>2, <1>3, <1>4 DEF TypeOK

\* It logs what it counts, or loses the line.
LEMMA ClaimsKept ==
    ASSUME TypeOK, NEW legs, NEW given \in [Legs -> Seq(Sample)],
           NEW line \in [Legs -> Lines], Forward(legs, given, line), NEW leg \in Legs
    PROVE  /\ leg \notin legs => given[leg] = <<>>
           /\ claims[leg] <= forwards[leg] /\ forwards[leg] <= claims[leg] + lost[leg]
           => /\ claims'[leg] <= forwards'[leg]
              /\ forwards'[leg] <= claims'[leg] + lost'[leg]
<1>1. /\ forwards'[leg] = IF given[leg] = <<>> THEN forwards[leg] ELSE forwards[leg] + 1
      /\ claims'[leg] = IF leg \in legs /\ given[leg] # <<>>
                        THEN claims[leg] + line[leg] ELSE claims[leg]
      /\ lost'[leg] = IF leg \in legs /\ given[leg] # <<>>
                      THEN lost[leg] + 1 - line[leg] ELSE lost[leg]
      /\ line[leg] \in {0, 1}
      /\ forwards[leg] \in Nat /\ claims[leg] \in Nat /\ lost[leg] \in Nat
  BY ForwardedLog
<1> QED BY <1>1

\* A forward keeps the types of what it changes.
LEMMA ForwardedTypes ==
    ASSUME TypeOK, NEW legs, NEW given \in [Legs -> Seq(Sample)],
           NEW line \in [Legs -> Lines], Forward(legs, given, line)
    PROVE  /\ handed'["in"] \in Seq(Sample) /\ handed'["out"] \in Seq(Code)
           /\ reached'["in"] \in Seq(Sample) /\ reached'["out"] \in Seq(Code)
           /\ forwards' \in [Legs -> Nat] /\ claims' \in [Legs -> Nat]
           /\ lost' \in [Legs -> Nat]
           /\ model' = model \o Payload("out", given["out"]) /\ model' \in Seq(Code)
<1>1. ASSUME NEW leg \in Legs
      PROVE  handed'[leg] \in Seq(Wire(leg)) /\ reached'[leg] \in Seq(Wire(leg))
  BY ForwardedAudio
<1>2. ASSUME NEW leg \in Legs
      PROVE  forwards'[leg] \in Nat /\ claims'[leg] \in Nat /\ lost'[leg] \in Nat
  BY ForwardedLog
<1>3. DOMAIN forwards' = Legs /\ DOMAIN claims' = Legs /\ DOMAIN lost' = Legs
      /\ forwards' = [leg \in Legs |-> forwards'[leg]]
      /\ claims' = [leg \in Legs |-> claims'[leg]] /\ lost' = [leg \in Legs |-> lost'[leg]]
  BY DEF Forward
<1>4. forwards' \in [Legs -> Nat] /\ claims' \in [Legs -> Nat] /\ lost' \in [Legs -> Nat]
  BY <1>2, <1>3
<1>5. "in" \in Legs /\ Wire("in") = Sample /\ "out" \in Legs /\ Wire("out") = Code
  BY DEF Legs, Wire
<1>6. model' = model \o Payload("out", given["out"])
  BY <1>5 DEF Forward, Recorded
<1>7. Payload("out", given["out"]) \in Seq(Code)
  BY <1>5, PayloadConcat
<1>8. model' \in Seq(Code)
  BY <1>6, <1>7, ConcatProperties DEF TypeOK
<1> QED BY <1>1, <1>4, <1>5, <1>6, <1>8

\* A leg's flow is kept when it forwards what it lets go of.
LEMMA FlowKept ==
    ASSUME TypeOK, NEW leg \in Legs, Flow(leg), NEW legs \in SUBSET Legs,
           NEW given \in [Legs -> Seq(Sample)], NEW line \in [Legs -> Lines],
           Forward(legs, given, line), leg \notin legs => given[leg] = <<>>,
           NEW s \in Seq(Sample), held'[leg] \in Seq(Sample),
           given[leg] \o held'[leg] = held[leg] \o s,
           taken'[leg] = taken[leg] \o s, open' = open,
           leg \in final' => held'[leg] = <<>>
    PROVE  Flow(leg)'
<1>1. /\ handed[leg] \in Seq(Wire(leg)) /\ reached[leg] \in Seq(Wire(leg))
      /\ handed'[leg] = handed[leg] \o Payload(leg, given[leg])
      /\ reached'[leg] = IF leg \in open THEN reached[leg] \o Payload(leg, given[leg])
                                        ELSE reached[leg]
      /\ handed'[leg] \in Seq(Wire(leg))
  BY ForwardedAudio
<1>2. /\ given[leg] \in Seq(Sample) /\ held[leg] \in Seq(Sample)
      /\ taken[leg] \in Seq(Sample)
  BY DEF TypeOK
<1>3. handed'[leg] \o Payload(leg, held'[leg]) = Payload(leg, taken'[leg])
  <2>1. handed[leg] \o Payload(leg, held[leg]) = Payload(leg, taken[leg])
    BY DEF Flow
  <2>2. (handed[leg] \o Payload(leg, given[leg])) \o Payload(leg, held'[leg])
           = handed[leg] \o Payload(leg, given[leg] \o held'[leg])
    BY <1>1, <1>2, SentTwice
  <2>3. (handed[leg] \o Payload(leg, held[leg])) \o Payload(leg, s)
           = handed[leg] \o Payload(leg, held[leg] \o s)
    BY <1>1, <1>2, SentTwice
  <2>4. Payload(leg, taken[leg] \o s) = Payload(leg, taken[leg]) \o Payload(leg, s)
    BY <1>2, PayloadConcat
  <2> QED BY <1>1, <2>1, <2>2, <2>3, <2>4
<1>4. /\ Len(reached'[leg]) <= Len(handed'[leg])
      /\ reached'[leg] = SubSeq(handed'[leg], 1, Len(reached'[leg]))
      /\ leg \in open' => reached'[leg] = handed'[leg]
  <2>1. CASE leg \in open
    <3>1. reached'[leg] = handed'[leg]
      BY <1>1, <2>1 DEF Flow
    <3>2. Len(handed'[leg]) \in Nat
      BY <1>1, LenProperties
    <3>3. SubSeq(handed'[leg], 1, Len(handed'[leg])) = handed'[leg]
      BY <1>1, SubSeqFull
    <3> QED BY <3>1, <3>2, <3>3
  <2>2. CASE leg \notin open
    <3>1. Payload(leg, given[leg]) \in Seq(Wire(leg))
      BY <1>2, PayloadConcat
    <3>2. Len(reached[leg]) <= Len(handed[leg])
      BY DEF Flow
    <3>3. reached[leg] = SubSeq(handed[leg], 1, Len(reached[leg]))
      BY DEF Flow
    <3>4. /\ Len(reached[leg]) <= Len(handed[leg] \o Payload(leg, given[leg]))
          /\ reached[leg] = SubSeq(handed[leg] \o Payload(leg, given[leg]), 1,
                                   Len(reached[leg]))
      BY <1>1, <3>1, <3>2, <3>3, PrefixKept
    <3> QED BY <1>1, <2>2, <3>4
  <2> QED BY <2>1, <2>2
<1>5. claims'[leg] <= forwards'[leg] /\ forwards'[leg] <= claims'[leg] + lost'[leg]
  <2>1. claims[leg] <= forwards[leg] /\ forwards[leg] <= claims[leg] + lost[leg]
    BY DEF Flow
  <2> QED BY <2>1, ClaimsKept
<1> QED BY <1>3, <1>4, <1>5 DEF Flow

-----------------------------------------------------------------------------
(* The initial states and the steps.                                       *)

\* A bridge that has heard nothing has lost nothing.
LEMMA InitInv == Init => BridgeInv
<1> SUFFICES ASSUME Init PROVE BridgeInv
  OBVIOUS
<1>1. TypeOK
  BY EmptySeq DEF Init, TypeOK, Legs
<1>2. ASSUME NEW leg \in Legs PROVE Flow(leg)
  <2>1. /\ handed[leg] = <<>> /\ held[leg] = <<>> /\ taken[leg] = <<>>
        /\ reached[leg] = <<>> /\ claims[leg] = 0 /\ forwards[leg] = 0 /\ lost[leg] = 0
    BY DEF Init
  <2>2. <<>> \in Seq(Sample) /\ <<>> \in Seq(Wire(leg)) /\ Len(<<>>) = 0
    BY EmptySeq
  <2>3. Payload(leg, <<>>) = <<>>
    BY <2>2, PayloadConcat
  <2>4. <<>> \o <<>> = <<>>
    BY <2>2, ConcatEmptySeq
  <2>5. SubSeq(<<>>, 1, 0) = <<>>
    BY SubSeqEmpty
  <2> QED BY <2>1, <2>2, <2>3, <2>4, <2>5 DEF Flow
<1>3. Whole
  <2>1. MulawDecode(<<>>) = <<>>
    BY EmptySeq, DecodedForm
  <2> QED BY <2>1 DEF Init, Whole, Legs
<1> QED BY <1>1, <1>2, <1>3 DEF BridgeInv

\* A frame that is dropped leaves every flow as it was.
LEMMA DroppedKeepsFlow ==
    ASSUME BridgeInv, Dropped, UNCHANGED <<final, claims>>, NEW leg \in Legs,
           lost'[leg] \in Nat, lost[leg] <= lost'[leg]
    PROVE  Flow(leg)'
<1>1. /\ handed' = handed /\ held' = held /\ taken' = taken /\ reached' = reached
      /\ open' = open /\ forwards' = forwards /\ final' = final /\ claims' = claims
  BY DEF Dropped, peers
<1>2. forwards[leg] \in Nat /\ claims[leg] \in Nat /\ lost[leg] \in Nat
  BY DEF BridgeInv, TypeOK
<1>3. Flow(leg)
  BY DEF BridgeInv
<1> QED BY <1>1, <1>2, <1>3 DEF Flow

\* The log of a frame that is dropped.
LEMMA ErrorLogged ==
    ASSUME BridgeInv, NEW leg \in Legs, NEW stage,
           <<leg, stage>> \in {<<"in", "base64">>, <<"in", "codec">>, <<"out", "resample">>},
           FrameError(leg, stage), Dropped, UNCHANGED final
    PROVE  /\ \A l \in Legs : Flow(l)'
           /\ errors' \subseteq {<<"in", "base64">>, <<"in", "codec">>, <<"out", "resample">>}
           /\ lost' \in [Legs -> Nat] /\ claims' = claims
<1>1. PICK n \in {0, 1} : /\ errors' = IF n = 1 THEN errors \cup {<<leg, stage>>} ELSE errors
                          /\ lost' = [lost EXCEPT ![leg] = @ + 1 - n]
                          /\ claims' = claims
  BY DEF FrameError, Lines
<1>2. lost \in [Legs -> Nat]
  BY DEF BridgeInv, TypeOK
<1>3. lost' \in [Legs -> Nat] /\ \A l \in Legs : lost[l] <= lost'[l]
  BY <1>1, <1>2
<1>4. ASSUME NEW l \in Legs PROVE Flow(l)'
  BY <1>1, <1>3, DroppedKeepsFlow
<1>5. errors \subseteq {<<"in", "base64">>, <<"in", "codec">>, <<"out", "resample">>}
  BY DEF BridgeInv, Whole
<1> QED BY <1>1, <1>3, <1>4, <1>5

\* A push keeps every flow, and the recorder sees what it forwards.
LEMMA Pushed ==
    ASSUME BridgeInv, NEW leg \in Legs, leg \notin final, NEW samples \in Seq(Sample),
           Push(leg, samples), UNCHANGED final
    PROVE  /\ \A l \in Legs : Flow(l)'
           /\ held' \in [Legs -> Seq(Sample)] /\ taken' \in [Legs -> Seq(Sample)]
           /\ taken' = [taken EXCEPT ![leg] = @ \o samples]
           /\ handed'["in"] \in Seq(Sample) /\ handed'["out"] \in Seq(Code)
           /\ reached'["in"] \in Seq(Sample) /\ reached'["out"] \in Seq(Code)
           /\ forwards' \in [Legs -> Nat] /\ claims' \in [Legs -> Nat]
           /\ lost' \in [Legs -> Nat]
           /\ model' = handed'["out"] /\ model' \in Seq(Code)
           /\ open' = open /\ errors' = errors
<1> DEFINE buffer == held[leg] \o samples
<1>1. /\ TypeOK /\ held \in [Legs -> Seq(Sample)] /\ taken \in [Legs -> Seq(Sample)]
      /\ \A l \in Legs : held[l] \in Seq(Sample) /\ taken[l] \in Seq(Sample)
  BY DEF BridgeInv, TypeOK
<1>2. buffer \in Seq(Sample)
  BY <1>1, ConcatProperties
<1>3. PICK n \in 0 .. Len(buffer), line \in [Legs -> Lines] :
         /\ taken' = [taken EXCEPT ![leg] = @ \o samples]
         /\ held' = [held EXCEPT ![leg] = SubSeq(buffer, n + 1, Len(buffer))]
         /\ Forward({leg}, [l \in Legs |-> IF l = leg THEN SubSeq(buffer, 1, n) ELSE <<>>],
                    line)
         /\ open' = open /\ errors' = errors
  BY DEF Push
<1> DEFINE given == [l \in Legs |-> IF l = leg THEN SubSeq(buffer, 1, n) ELSE <<>>]
           kept == SubSeq(buffer, n + 1, Len(buffer))
<1>4. /\ SubSeq(buffer, 1, n) \in Seq(Sample) /\ kept \in Seq(Sample)
      /\ SubSeq(buffer, 1, n) \o kept = buffer
  BY <1>2, Split
<1>5. given \in [Legs -> Seq(Sample)] /\ Forward({leg}, given, line)
  BY <1>3, <1>4, EmptySeq
<1>6. taken[leg] \o samples \in Seq(Sample)
  BY <1>1, ConcatProperties
<1>7. held' \in [Legs -> Seq(Sample)] /\ taken' \in [Legs -> Seq(Sample)]
  BY <1>1, <1>3, <1>4, <1>6
<1>8. ASSUME NEW l \in Legs PROVE Flow(l)'
  <2>1. Flow(l) /\ final' = final
    BY DEF BridgeInv
  <2>2. CASE l = leg
    <3>1. /\ given[l] = SubSeq(buffer, 1, n) /\ held'[l] = kept
          /\ taken'[l] = taken[l] \o samples
      BY <1>1, <1>3, <2>2
    <3>2. given[l] \o held'[l] = held[l] \o samples /\ held'[l] \in Seq(Sample)
      BY <1>4, <2>2, <3>1
    <3>3. l \notin final' /\ l \in {leg}
      BY <2>1, <2>2
    <3> HIDE DEF given, kept, buffer
    <3> QED BY <1>1, <1>3, <1>5, <2>1, <3>1, <3>2, <3>3, FlowKept
  <2>3. CASE l # leg
    <3>1. given[l] = <<>> /\ held'[l] = held[l] /\ taken'[l] = taken[l]
      BY <1>1, <1>3, <2>3
    <3>2. <<>> \in Seq(Sample)
      BY EmptySeq
    <3>3. given[l] \o held'[l] = held[l] \o <<>>
      BY <1>1, <3>1, ConcatEmptySeq
    <3>4. taken'[l] = taken[l] \o <<>>
      BY <1>1, <3>1, ConcatEmptySeq
    <3>5. held'[l] \in Seq(Sample) /\ (l \in final' => held'[l] = <<>>)
      BY <1>1, <2>1, <3>1 DEF Flow
    <3> HIDE DEF given, kept, buffer
    <3> QED BY <1>1, <1>3, <1>5, <2>1, <3>1, <3>2, <3>3, <3>4, <3>5, FlowKept
  <2> QED BY <2>2, <2>3
<1>9. model' = handed'["out"]
  <2>1. "out" \in Legs
    BY DEF Legs
  <2> HIDE DEF given
  <2>2. model' = model \o Payload("out", given["out"])
    BY <1>1, <1>5, ForwardedTypes
  <2>3. handed'["out"] = handed["out"] \o Payload("out", given["out"])
    BY <1>1, <1>5, <2>1, ForwardedAudio
  <2> QED BY <2>2, <2>3 DEF BridgeInv, Whole
<1>10. /\ handed'["in"] \in Seq(Sample) /\ handed'["out"] \in Seq(Code)
       /\ reached'["in"] \in Seq(Sample) /\ reached'["out"] \in Seq(Code)
       /\ forwards' \in [Legs -> Nat] /\ claims' \in [Legs -> Nat]
       /\ lost' \in [Legs -> Nat] /\ model' \in Seq(Code)
  <2> HIDE DEF given
  <2> QED BY <1>1, <1>5, ForwardedTypes
<1> QED BY <1>3, <1>7, <1>8, <1>9, <1>10

\* A handler that drops its frame.
LEMMA DroppedKeeps ==
    ASSUME BridgeInv, Dropped, UNCHANGED <<phase, final, wav>>,
           caller' \in Seq(Code), "in" \notin final => caller' = caller,
           handled' \in [Legs -> Nat],
           \/ Raises
           \/ \E error \in {<<"in", "base64">>, <<"in", "codec">>, <<"out", "resample">>} :
                 FrameError(error[1], error[2])
    PROVE  BridgeInv'
<1>1. TypeOK /\ Whole
  BY DEF BridgeInv
<1>2. /\ \A l \in Legs : Flow(l)'
      /\ errors' \subseteq {<<"in", "base64">>, <<"in", "codec">>, <<"out", "resample">>}
      /\ lost' \in [Legs -> Nat] /\ claims' = claims
  <2>1. CASE Raises
    <3>1. claims' = claims /\ lost' = lost /\ errors' = errors
      BY <2>1 DEF Raises, log
    <3>2. /\ lost \in [Legs -> Nat]
          /\ \A l \in Legs : lost'[l] \in Nat /\ lost[l] <= lost'[l]
      BY <1>1, <3>1 DEF TypeOK
    <3>3. \A l \in Legs : Flow(l)'
      BY <3>1, <3>2, DroppedKeepsFlow
    <3> QED BY <1>1, <3>1, <3>2, <3>3 DEF Whole
  <2>2. CASE FrameError("in", "base64") \/ FrameError("in", "codec")
    BY <2>2, ErrorLogged DEF Legs
  <2>3. CASE FrameError("out", "resample")
    BY <2>3, ErrorLogged DEF Legs
  <2> QED BY <2>1, <2>2, <2>3
<1>3. /\ held' = held /\ taken' = taken /\ open' = open /\ handed' = handed
      /\ reached' = reached /\ forwards' = forwards /\ model' = model
      /\ phase' = phase /\ final' = final /\ wav' = wav
  BY DEF Dropped, peers
<1>4. TypeOK'
  <2>1. errors' \in SUBSET (Legs \X {"base64", "codec", "gain", "resample"})
    BY <1>2 DEF Legs
  <2> QED BY <1>1, <1>2, <1>3, <2>1 DEF TypeOK
<1>5. Whole'
  BY <1>1, <1>2, <1>3 DEF Whole
<1> QED BY <1>2, <1>4, <1>5 DEF BridgeInv

\* A handler that pushes what it was given.
LEMMA PushKeeps ==
    ASSUME BridgeInv, NEW leg \in Legs, leg \notin final, NEW samples \in Seq(Sample),
           Push(leg, samples), UNCHANGED <<phase, final, wav>>,
           caller' \in Seq(Code), handled' \in [Legs -> Nat],
           "in" \notin final => MulawDecode(caller') = taken'["in"]
    PROVE  BridgeInv'
<1>1. TypeOK /\ Whole /\ phase' = phase /\ final' = final /\ wav' = wav
  BY DEF BridgeInv
<1>2. /\ \A l \in Legs : Flow(l)'
      /\ held' \in [Legs -> Seq(Sample)] /\ taken' \in [Legs -> Seq(Sample)]
      /\ handed'["in"] \in Seq(Sample) /\ handed'["out"] \in Seq(Code)
      /\ reached'["in"] \in Seq(Sample) /\ reached'["out"] \in Seq(Code)
      /\ forwards' \in [Legs -> Nat] /\ claims' \in [Legs -> Nat]
      /\ lost' \in [Legs -> Nat]
      /\ model' = handed'["out"] /\ model' \in Seq(Code)
      /\ open' = open /\ errors' = errors
  BY <1>1, Pushed
<1>3. phase # "closed" /\ wav["in"] = None /\ wav["out"] = None
  BY <1>1 DEF Whole
<1>4. TypeOK'
  BY <1>1, <1>2 DEF TypeOK
<1>5. Whole'
  BY <1>1, <1>2, <1>3 DEF Whole
<1> QED BY <1>2, <1>4, <1>5 DEF BridgeInv

\* A frame of the caller.
LEMMA TwilioStep ==
    ASSUME BridgeInv, NEW frame \in Frames, HandleTwilioFrame(frame)
    PROVE  BridgeInv'
<1>1. TypeOK /\ Whole /\ frame.codes \in Seq(Code) /\ "in" \in Legs
  BY FramesAssumption DEF BridgeInv, Legs
<1>2. /\ phase' = phase /\ final' = final /\ wav' = wav
      /\ caller' = IF frame.kind = "mulaw" THEN caller \o frame.codes ELSE caller
      /\ handled' = [handled EXCEPT !["in"] = @ + 1]
  BY DEF HandleTwilioFrame, Handles
<1>3. /\ caller \in Seq(Code) /\ handled \in [Legs -> Nat] /\ taken \in [Legs -> Seq(Sample)]
  BY <1>1 DEF TypeOK
<1>4. caller' \in Seq(Code) /\ handled' \in [Legs -> Nat]
  <2>1. caller \o frame.codes \in Seq(Code)
    BY <1>1, <1>3, ConcatProperties
  <2>2. handled["in"] + 1 \in Nat
    BY <1>1, <1>3
  <2>3. handled' \in [Legs -> Nat]
    BY <1>2, <1>3, <2>2
  <2> QED BY <1>2, <1>3, <2>1, <2>3
<1>5. CASE frame.kind = "notAscii" /\ Raises
  BY <1>2, <1>4, <1>5, DroppedKeeps DEF Raises
<1>6. CASE frame.kind = "notBase64" /\ FrameError("in", "base64") /\ Dropped
  BY <1>2, <1>4, <1>6, DroppedKeeps
<1>7. CASE frame.kind = "mulaw" /\ frame.codes = <<>> /\ FrameError("in", "codec") /\ Dropped
  <2>1. caller' = caller
    BY <1>2, <1>3, <1>7, ConcatEmptySeq
  <2> QED BY <1>2, <1>4, <1>7, <2>1, DroppedKeeps
<1>8. CASE frame.kind = "mulaw" /\ "in" \in final /\ Raises
  BY <1>2, <1>4, <1>8, DroppedKeeps DEF Raises
<1>9. CASE /\ frame.kind = "mulaw" /\ "in" \notin final
           /\ Push("in", ApplyGain(MulawDecode(frame.codes)))
  <2>1. MulawDecode(frame.codes) \in Seq(Sample) /\ Push("in", MulawDecode(frame.codes))
    BY <1>1, <1>9, DecodedForm DEF ApplyGain
  <2>2. taken'["in"] = taken["in"] \o MulawDecode(frame.codes)
    BY <1>1, <1>3, <2>1 DEF Push
  <2>3. MulawDecode(caller') = MulawDecode(caller) \o MulawDecode(frame.codes)
    BY <1>1, <1>2, <1>3, <1>9, DecodeConcat
  <2>4. MulawDecode(caller') = taken'["in"]
    BY <1>1, <1>9, <2>2, <2>3 DEF Whole
  <2> QED BY <1>1, <1>2, <1>4, <1>9, <2>1, <2>4, PushKeeps
<1> QED BY <1>5, <1>6, <1>7, <1>8, <1>9 DEF HandleTwilioFrame

\* A chunk of the model.
LEMMA GeminiStep ==
    ASSUME BridgeInv, NEW chunk \in Chunks, HandleGeminiChunk(chunk)
    PROVE  BridgeInv'
<1>1. TypeOK /\ Whole /\ chunk.samples \in Seq(Sample) /\ "in" \in Legs /\ "out" \in Legs
  BY ChunksAssumption DEF BridgeInv, Legs
<1>2. /\ phase' = phase /\ final' = final /\ wav' = wav /\ caller' = caller
      /\ handled' = [handled EXCEPT !["out"] = @ + 1]
  BY DEF HandleGeminiChunk, Handles
<1>3. /\ caller \in Seq(Code) /\ handled \in [Legs -> Nat] /\ taken \in [Legs -> Seq(Sample)]
  BY <1>1 DEF TypeOK
<1>4. caller' \in Seq(Code) /\ handled' \in [Legs -> Nat]
  <2>1. handled["out"] + 1 \in Nat
    BY <1>1, <1>3
  <2> QED BY <1>2, <1>3, <2>1
<1>5. CASE FrameError("out", "resample") /\ Dropped
  BY <1>2, <1>4, <1>5, DroppedKeeps
<1>6. CASE Raises
  BY <1>2, <1>4, <1>6, DroppedKeeps DEF Raises
<1>7. CASE "out" \notin final /\ Push("out", chunk.samples)
  <2>1. taken'["in"] = taken["in"]
    BY <1>1, <1>3, <1>7 DEF Push
  <2>2. "in" \notin final => MulawDecode(caller') = taken'["in"]
    BY <1>1, <1>2, <2>1 DEF Whole
  <2> QED BY <1>1, <1>2, <1>4, <1>7, <2>2, PushKeeps
<1> QED BY <1>5, <1>6, <1>7 DEF HandleGeminiChunk

\* The flush of both legs.
LEMMA CloseStep ==
    ASSUME BridgeInv, Close
    PROVE  BridgeInv'
<1>1. /\ TypeOK /\ Whole /\ phase = "open" /\ final = {}
      /\ wav["in"] = None /\ wav["out"] = None
      /\ "in" \in Legs /\ "out" \in Legs /\ <<>> \in Seq(Sample)
      /\ \A l \in Legs : held[l] \in Seq(Sample) /\ taken[l] \in Seq(Sample)
  BY EmptySeq DEF BridgeInv, TypeOK, Whole, Close, Legs
<1>2. PICK line \in [Legs -> Lines], legs \in {{"in"}, Legs} :
         /\ Forward(legs, [l \in Legs |-> IF l \in legs THEN held[l] ELSE <<>>], line)
         /\ final' = legs
         /\ held' = [l \in Legs |-> IF l \in legs THEN <<>> ELSE held[l]]
         /\ phase' = "raised" \/ (phase' = "closed" /\ legs = Legs)
         /\ IF phase' = "raised" THEN UNCHANGED wav
            ELSE \E c \in Recording(caller), m \in Recording(model') :
                    wav' = [leg \in Legs |-> IF leg = "in" THEN c ELSE m]
  <2>1. PICK line \in [Legs -> Lines] :
           LET raises == [leg \in Legs |-> line[leg] = 0 /\ ~ NothingEmitted(held[leg])]
               legs == Flushed(raises["in"])
           IN /\ Forward(legs, [l \in Legs |-> IF l \in legs THEN held[l] ELSE <<>>], line)
              /\ final' = legs
              /\ held' = [l \in Legs |-> IF l \in legs THEN <<>> ELSE held[l]]
              /\ phase' = IF \E l \in legs : raises[l] THEN "raised" ELSE "closed"
              /\ IF phase' = "raised" THEN UNCHANGED wav
                 ELSE \E c \in Recording(caller), m \in Recording(model') :
                         wav' = [leg \in Legs |-> IF leg = "in" THEN c ELSE m]
    BY DEF Close
  <2> DEFINE raises == [leg \in Legs |-> line[leg] = 0 /\ ~ NothingEmitted(held[leg])]
             legs == Flushed(raises["in"])
  <2>2. legs \in {{"in"}, Legs} /\ (raises["in"] => legs = {"in"})
        /\ (~ raises["in"] => legs = Legs)
    BY DEF Flushed
  <2>3. phase' = IF \E l \in legs : raises[l] THEN "raised" ELSE "closed"
    BY <2>1
  <2>4. phase' = "raised" \/ (phase' = "closed" /\ legs = Legs)
    <3> HIDE DEF raises, legs
    <3>1. CASE raises["in"]
      BY <2>2, <2>3, <3>1
    <3>2. CASE ~ raises["in"]
      BY <2>2, <2>3, <3>2
    <3> QED BY <3>1, <3>2
  <2> QED BY <2>1, <2>2, <2>4
<1> DEFINE given == [l \in Legs |-> IF l \in legs THEN held[l] ELSE <<>>]
<1>3. /\ open' = open /\ errors' = errors /\ caller' = caller /\ taken' = taken
      /\ handled' = handled
  BY DEF Close
<1>4. legs \in SUBSET Legs /\ "in" \in legs
  BY <1>2 DEF Legs
<1>5. given \in [Legs -> Seq(Sample)] /\ Forward(legs, given, line)
  BY <1>1, <1>2
<1>6. held' \in [Legs -> Seq(Sample)]
  BY <1>1, <1>2
<1>7. ASSUME NEW l \in Legs PROVE Flow(l)'
  <2>1. /\ given[l] = IF l \in legs THEN held[l] ELSE <<>>
        /\ held'[l] = IF l \in legs THEN <<>> ELSE held[l]
    BY <1>2
  <2>2. held[l] \o <<>> = held[l] /\ <<>> \o held[l] = held[l] /\ taken[l] \o <<>> = taken[l]
    BY <1>1, ConcatEmptySeq
  <2>3. /\ l \notin legs => given[l] = <<>>
        /\ held'[l] \in Seq(Sample) /\ (l \in final' => held'[l] = <<>>)
    BY <1>1, <1>2, <2>1
  <2>4. given[l] \o held'[l] = held[l] \o <<>> /\ taken'[l] = taken[l] \o <<>>
    BY <1>3, <2>1, <2>2
  <2>5. Flow(l)
    BY DEF BridgeInv
  <2> HIDE DEF given
  <2> QED BY <1>1, <1>3, <1>4, <1>5, <2>3, <2>4, <2>5, FlowKept
<1>8. /\ handed'["in"] \in Seq(Sample) /\ handed'["out"] \in Seq(Code)
      /\ reached'["in"] \in Seq(Sample) /\ reached'["out"] \in Seq(Code)
      /\ forwards' \in [Legs -> Nat] /\ claims' \in [Legs -> Nat] /\ lost' \in [Legs -> Nat]
      /\ model' = model \o Payload("out", given["out"]) /\ model' \in Seq(Code)
  <2> HIDE DEF given
  <2> QED BY <1>1, <1>5, ForwardedTypes
<1>9. model' = handed'["out"]
  <2> HIDE DEF given
  <2>1. handed'["out"] = handed["out"] \o Payload("out", given["out"])
    BY <1>1, <1>5, ForwardedAudio
  <2> QED BY <1>1, <1>8, <2>1 DEF Whole
<1>10. /\ phase' # "closed" => wav'["in"] = None /\ wav'["out"] = None
       /\ wav'["in"] # None => wav'["in"] = taken'["in"]
       /\ wav'["out"] # None => wav'["out"] = MulawDecode(MulawEncode(taken'["out"]))
       /\ wav' \in [Legs -> Seq(Sample) \cup {None}]
  <2>1. CASE phase' = "raised"
    BY <1>1, <1>2, <2>1 DEF TypeOK
  <2>2. CASE phase' = "closed" /\ legs = Legs
    <3>1. PICK c \in Recording(caller), m \in Recording(model') :
             wav' = [leg \in Legs |-> IF leg = "in" THEN c ELSE m]
      BY <1>2, <2>2
    <3>2. MulawDecode(caller) = taken["in"]
      BY <1>1 DEF Whole
    <3>3. model' = MulawEncode(taken["out"])
      <4>1. held'["out"] = <<>>
        BY <1>1, <1>2, <2>2
      <4>2. handed'["out"] \o Payload("out", held'["out"]) = Payload("out", taken'["out"])
        BY <1>1, <1>7 DEF Flow
      <4>3. Payload("out", <<>>) = <<>>
        BY <1>1, PayloadConcat
      <4>4. handed'["out"] \o <<>> = handed'["out"]
        BY <1>8, ConcatEmptySeq
      <4>5. Payload("out", taken["out"]) = MulawEncode(taken["out"])
        BY DEF Payload
      <4> QED BY <1>3, <1>9, <4>1, <4>2, <4>3, <4>4, <4>5
    <3>4. /\ c \in {None, taken["in"]} /\ m \in {None, MulawDecode(MulawEncode(taken["out"]))}
      BY <3>1, <3>2, <3>3 DEF Recording
    <3>5. MulawDecode(MulawEncode(taken["out"])) \in Seq(Sample) /\ taken["in"] \in Seq(Sample)
      BY <1>1, EncodedForm, DecodedForm
    <3>6. wav'["in"] = c /\ wav'["out"] = m
      BY <1>1, <3>1
    <3>7. c \in Seq(Sample) \cup {None} /\ m \in Seq(Sample) \cup {None}
      BY <3>4, <3>5
    <3> QED BY <1>3, <2>2, <3>1, <3>4, <3>6, <3>7
  <2> QED BY <1>2, <2>1, <2>2
<1>11. TypeOK'
  <2>1. phase' \in {"open", "closed", "raised"} /\ final' \in SUBSET Legs
    BY <1>2, <1>4
  <2> QED BY <1>1, <1>3, <1>6, <1>8, <1>10, <2>1 DEF TypeOK
<1>12. Whole'
  BY <1>1, <1>2, <1>3, <1>4, <1>9, <1>10 DEF Whole
<1> QED BY <1>7, <1>11, <1>12 DEF BridgeInv

\* A peer that stops listening.
LEMMA PeerStep ==
    ASSUME BridgeInv, NEW leg \in Legs, PeerStops(leg)
    PROVE  BridgeInv'
<1>1. /\ open' \subseteq open /\ phase' = phase /\ final' = final /\ held' = held
      /\ handed' = handed /\ reached' = reached /\ forwards' = forwards
      /\ claims' = claims /\ errors' = errors /\ lost' = lost /\ caller' = caller
      /\ model' = model /\ wav' = wav /\ taken' = taken /\ handled' = handled
  BY DEF PeerStops, log
<1>2. TypeOK'
  BY <1>1 DEF BridgeInv, TypeOK
<1>3. \A l \in Legs : Flow(l)'
  BY <1>1 DEF BridgeInv, Flow
<1>4. Whole'
  BY <1>1 DEF BridgeInv, Whole
<1> QED BY <1>2, <1>3, <1>4 DEF BridgeInv

\* Every step keeps BridgeInv.
LEMMA StepInv == BridgeInv /\ [Next]_vars => BridgeInv'
<1> SUFFICES ASSUME BridgeInv, [Next]_vars PROVE BridgeInv'
  OBVIOUS
<1>1. CASE \E frame \in Frames : HandleTwilioFrame(frame)
  BY <1>1, TwilioStep
<1>2. CASE \E chunk \in Chunks : HandleGeminiChunk(chunk)
  BY <1>2, GeminiStep
<1>3. CASE Close
  BY <1>3, CloseStep
<1>4. CASE \E leg \in Legs : PeerStops(leg)
  BY <1>4, PeerStep
<1>5. CASE UNCHANGED vars
  BY <1>5 DEF vars, peers, log, BridgeInv, TypeOK, Flow, Whole
<1> QED BY <1>1, <1>2, <1>3, <1>4, <1>5 DEF Next

\* BridgeInv in every reachable state.
LEMMA Inductive == Spec => []BridgeInv
  BY InitInv, StepInv, PTL DEF Spec

-----------------------------------------------------------------------------
(* The theorems.                                                           *)

\* Every variable has its type in every reachable state.
THEOREM TypeCorrect == Spec => []TypeOK
<1>1. BridgeInv => TypeOK
  BY DEF BridgeInv
<1> QED BY <1>1, Inductive, PTL

(***************************************************************************)
(* No audio is lost, repeated or reordered on its way to a peer's client,  *)
(* however the resamplers batch and whoever stops listening, and a close() *)
(* that did not raise leaves none behind (session.py:238-257).             *)
(***************************************************************************)
THEOREM NothingLostHolds == Spec => []NothingLost
<1>1. BridgeInv => NothingLost
  BY DEF BridgeInv, Flow, Whole, NothingLost
<1> QED BY <1>1, Inductive, PTL

(***************************************************************************)
(* The timing log claims only what was handed on and misses only what it   *)
(* could not write (session.py:123-130, 165-170).                          *)
(***************************************************************************)
THEOREM ClaimsTrueHolds == Spec => []ClaimsTrue
<1>1. BridgeInv => ClaimsTrue
  BY DEF BridgeInv, Flow, Whole, ClaimsTrue
<1> QED BY <1>1, Inductive, PTL

(***************************************************************************)
(* A recording that was written is complete, also where the socket dropped *)
(* what it holds (session.py:229-236, 250-257).                            *)
(***************************************************************************)
THEOREM RecordingComplete == Spec => []RecordingHolds
<1>1. BridgeInv => RecordingHolds
  <2> SUFFICES ASSUME BridgeInv PROVE RecordingHolds
    OBVIOUS
  <2>1. ASSUME wav["in"] # None PROVE wav["in"] = handed["in"]
    <3>1. held["in"] = <<>> /\ wav["in"] = taken["in"]
      BY <2>1 DEF BridgeInv, Whole, Flow, Legs
    <3>2. handed["in"] \o held["in"] = taken["in"]
      BY DEF BridgeInv, Flow, Legs, Payload
    <3>3. handed["in"] \o <<>> = handed["in"]
      BY ConcatEmptySeq DEF BridgeInv, TypeOK
    <3> QED BY <3>1, <3>2, <3>3
  <2> QED BY <2>1 DEF BridgeInv, Whole, RecordingHolds
<1> QED BY <1>1, Inductive, PTL

(***************************************************************************)
(* What the caller is sent decodes to what was spoken, to 1/32 of its      *)
(* level and 8 steps, for every 16-bit sample (codec.py:110-129).          *)
(***************************************************************************)
THEOREM HeardAsSpokenHolds == Spec => []HeardAsSpoken
<1>1. BridgeInv => HeardAsSpoken
  <2> SUFFICES ASSUME BridgeInv, NEW i \in 1 .. Len(handed["out"])
               PROVE  Faithful(taken["out"][i], handed["out"][i])
    BY DEF HeardAsSpoken
  <2> DEFINE sent == handed["out"]
             kept == MulawEncode(held["out"])
             spoken == taken["out"]
  <2>1. /\ sent \in Seq(Code) /\ spoken \in Seq(Sample) /\ held["out"] \in Seq(Sample)
        /\ sent \o kept = MulawEncode(spoken)
    BY DEF BridgeInv, TypeOK, Flow, Legs, Payload
  <2>2. kept \in Seq(Code)
    BY <2>1, EncodedForm
  <2> HIDE DEF kept
  <2>3. Len(sent) \in Nat /\ Len(kept) \in Nat /\ Len(sent \o kept) = Len(sent) + Len(kept)
    BY <2>1, <2>2, LenProperties, ConcatProperties
  <2>4. (sent \o kept)[i] = sent[i]
    BY <2>1, <2>2, <2>3, ConcatProperties
  <2>5. Len(MulawEncode(spoken)) = Len(spoken)
    BY <2>1, EncodedForm
  <2>6. i \in 1 .. Len(spoken)
    BY <2>1, <2>3, <2>5
  <2>7. MulawEncode(spoken)[i] = EncodeSample(spoken[i]) /\ spoken[i] \in Sample
    BY <2>1, <2>6, EncodedForm
  <2>8. Faithful(spoken[i], EncodeSample(spoken[i]))
    BY <2>7, Coded
  <2> QED BY <2>1, <2>4, <2>7, <2>8
<1> QED BY <1>1, Inductive, PTL
=============================================================================
