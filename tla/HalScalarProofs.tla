-------------------------- MODULE HalScalarProofs --------------------------
(***************************************************************************)
(* Proofs about scalar_quantize_i2 for every block size G, tensor shape,  *)
(* threshold and weight tensor: when the tensor holds whole blocks, the   *)
(* packed buffer decodes, at the slot the I2_S layout assigns each       *)
(* weight, to the raw code of that weight's ternary value.                *)
(***************************************************************************)
EXTENDS HalScalar, NatOrder, TLAPS

-----------------------------------------------------------------------------
(* Division of naturals, as the index arithmetic of the kernels uses it. *)

(* a = b * (a / b) + a % b, with the remainder below b.                  *)
LEMMA DivFacts ==
    ASSUME NEW a \in Nat, NEW b \in Nat \ {0}
    PROVE  /\ a \div b \in Nat
           /\ a % b \in 0..(b - 1)
           /\ a = b * (a \div b) + (a % b)
<1>1. a % b \in 0..(b - 1)
  BY Z3
<1>2. a = b * (a \div b) + (a % b)
  BY Z3
<1>3. a \div b \in Int
  BY Z3
<1>4. a \div b >= 0
  <2>. SUFFICES ASSUME a \div b < 0 PROVE FALSE
    BY <1>3
  <2>1. b * (a \div b) <= -b
    BY <1>3, Z3
  <2>. QED
    BY <1>1, <1>2, <2>1
<1>. QED
  BY <1>1, <1>2, <1>3, <1>4

(* The quotient and the remainder are the only ones.                      *)
LEMMA DivUnique ==
    ASSUME NEW a \in Int, NEW b \in Nat \ {0}, NEW q \in Int,
           NEW r \in 0..(b - 1), a = b * q + r
    PROVE  a \div b = q /\ a % b = r
  OBVIOUS

-----------------------------------------------------------------------------
(* Arithmetic of the packing.                                             *)

(* Four codes below 4 placed at shifts 6, 4, 2 and 0 are read back by     *)
(* (byte >> (6 - 2 * group)) & 0x03: the shifts and the mask of the      *)
(* kernels undo the packing.                                              *)
LEMMA DigitsDecode ==
    ASSUME NEW f \in [0..3 -> 0..3], NEW g0 \in 0..3
    PROVE  ((f[0] * 2^6 + f[1] * 2^4 + f[2] * 2^2 + f[3] * 2^0)
              \div 2^(6 - 2 * g0)) % 4 = f[g0]
<1>1. 2^6 = 64 /\ 2^4 = 16 /\ 2^2 = 4 /\ 2^0 = 1
  OBVIOUS
<1>2. CASE g0 = 0
  BY <1>1, <1>2
<1>3. CASE g0 = 1
  BY <1>1, <1>3
<1>4. CASE g0 = 2
  BY <1>1, <1>4
<1>5. CASE g0 = 3
  BY <1>1, <1>5
<1>. QED
  BY <1>2, <1>3, <1>4, <1>5

(* Where weight i lies in the I2_S layout: its block, its offset in the  *)
(* block, its group (the bit pair of the byte) and its position in the   *)
(* group; and how many whole blocks the tensor holds.                     *)
Blk(i) == i \div QK
Off(i) == i % QK
Grp(i) == Off(i) \div G
Pos(i) == Off(i) % G
NBlk == N \div QK

(* The spec's layout, for a tensor of whole blocks: weight i is weight   *)
(* Pos(i) of group Grp(i) of block Blk(i); its byte is one of the n / 4   *)
(* bytes the packing loop writes, the byte the loop fills for that block *)
(* and position; and the four weights that share it are weights of the  *)
(* tensor.                                                                 *)
LEMMA Layout ==
    ASSUME N % QK = 0, NEW i \in Range0(N)
    PROVE  /\ SpecByte(i) \in Range0(N \div 4)
           /\ SpecByte(i) \div G = Blk(i) /\ SpecByte(i) % G = Pos(i)
           /\ Blk(i) < N \div QK
           /\ Grp(i) \in 0..3
           /\ i = Blk(i) * QK + Grp(i) * G + Pos(i)
           /\ \A g \in 0..3 : Blk(i) * QK + g * G + Pos(i) \in Range0(N)
<1>1. G \in Nat \ {0} /\ QK = 4 * G /\ QK \in Nat \ {0} /\ N \in Nat
      /\ i \in Nat /\ i < N
  BY HalAssumption DEF QK, N, Range0
<1>2. Blk(i) \in Nat /\ Off(i) \in 0..(QK - 1) /\ i = QK * Blk(i) + Off(i)
  BY <1>1, DivFacts, Zenon DEF Blk, Off
<1>3. Grp(i) \in Nat /\ Pos(i) \in 0..(G - 1) /\ Off(i) = G * Grp(i) + Pos(i)
  <2>1. Off(i) \in Nat
    BY <1>1, <1>2
  <2>2. /\ Off(i) \div G \in Nat
        /\ Off(i) % G \in 0..(G - 1)
        /\ Off(i) = G * (Off(i) \div G) + (Off(i) % G)
    BY <1>1, <2>1, DivFacts, Zenon
  <2>. QED
    BY <2>2, Zenon DEF Grp, Pos
<1>4. Grp(i) \in 0..3
  <2>. SUFFICES ASSUME Grp(i) >= 4 PROVE FALSE
    BY <1>3
  <2>1. G * Grp(i) >= G * 4
    BY <1>1, <1>3, Z3
  <2>. QED
    BY <1>1, <1>2, <1>3, <2>1
<1>5. NBlk \in Nat /\ N = QK * NBlk
  <2>1. NBlk \in Nat /\ N = QK * NBlk + (N % QK)
    BY <1>1, DivFacts, Zenon DEF NBlk
  <2>. QED
    BY <1>1, <2>1
<1>6. N \div 4 = G * NBlk
  <2>1. N = 4 * (G * NBlk) + 0
    BY <1>1, <1>5
  <2>. QED
    BY <1>1, <1>5, <2>1, DivUnique
<1>7. Blk(i) < NBlk
  <2>. SUFFICES ASSUME Blk(i) >= NBlk PROVE FALSE
    BY <1>2, <1>5
  <2>1. QK * Blk(i) >= QK * NBlk
    BY <1>1, <1>2, <1>5, Z3
  <2>. QED
    BY <1>1, <1>2, <1>5, <2>1
<1>8. SpecByte(i) = G * Blk(i) + Pos(i)
  BY <1>1, <1>2 DEF SpecByte, Blk, Off, Pos
<1>9. (G * Blk(i) + Pos(i)) \div G = Blk(i) /\ (G * Blk(i) + Pos(i)) % G = Pos(i)
  <2>1. G * Blk(i) + Pos(i) \in Int /\ Blk(i) \in Int
    BY <1>1, <1>2, <1>3
  <2>. QED
    BY <1>1, <1>3, <2>1, DivUnique, Zenon
<1>10. G * Blk(i) + Pos(i) < G * NBlk
  <2>1. G * (Blk(i) + 1) <= G * NBlk
    BY <1>1, <1>2, <1>5, <1>7, Z3
  <2>2. G * (Blk(i) + 1) = G * Blk(i) + G
    BY <1>1, <1>2, Z3
  <2>. QED
    BY <1>1, <1>2, <1>3, <1>5, <2>1, <2>2
<1>11. ASSUME NEW g \in 0..3 PROVE Blk(i) * QK + g * G + Pos(i) \in Range0(N)
  <2>1. QK * (Blk(i) + 1) <= QK * NBlk
    BY <1>1, <1>2, <1>5, <1>7, Z3
  <2>2. G * g + Pos(i) < QK
    <3>1. G * g <= G * 3
      BY <1>1, Z3
    <3>. QED
      BY <1>1, <1>3, <3>1
  <2>. QED
    BY <1>1, <1>2, <1>3, <1>5, <2>1, <2>2, Z3 DEF Range0
<1>12. SpecByte(i) \in Range0(N \div 4)
  BY <1>1, <1>2, <1>3, <1>5, <1>6, <1>8, <1>10 DEF Range0
<1>13. i = Blk(i) * QK + Grp(i) * G + Pos(i)
  BY <1>1, <1>2, <1>3
<1>. QED
  BY <1>4, <1>7, <1>8, <1>9, <1>11, <1>12, <1>13 DEF NBlk

-----------------------------------------------------------------------------
(* The scale of step 1.                                                    *)

(* The magnitudes of the first k weights, with the 0 max_val starts at.  *)
Seen(t, k) == {0} \cup {Abs(t[j]) : j \in 0..(k - 1)}

(* The loop of step 1 has a largest value to keep after k iterations.    *)
HasMax(t, k) == \E x \in Seen(t, k) : \A y \in Seen(t, k) : y <= x

(* Whatever the tensor, the scale step 1 computes is a natural number at *)
(* least the magnitude of every weight.  The argument is by the least    *)
(* number of iterations after which no largest value would exist.        *)
LEMMA MaxAbsBound ==
    ASSUME NEW t \in [Range0(N) -> Int]
    PROVE  /\ MaxAbs(t) \in Nat
           /\ \A i \in Range0(N) : Abs(t[i]) <= MaxAbs(t)
<1>1. N \in Nat
  BY HalAssumption DEF N
<1>2. \A k \in 0..N : Seen(t, k) \subseteq Nat
  BY <1>1 DEF Seen, Abs, Range0
<1>3. \A k \in 0..N : HasMax(t, k)
  <2>. DEFINE Bad == {k \in 0..N : ~HasMax(t, k)}
  <2>. SUFFICES ASSUME Bad # {} PROVE FALSE
    OBVIOUS
  <2>0. Bad \in SUBSET Nat
    BY <1>1
  <2>. HIDE DEF Bad
  <2>1. PICK k \in Bad : \A l \in Bad : k <= l
    BY <2>0, MinExists
  <2>. USE DEF Bad
  <2>2. k # 0
    <3>1. Seen(t, 0) = {0}
      BY DEF Seen
    <3>2. 0 \in Seen(t, 0) /\ \A y \in Seen(t, 0) : y <= 0
      BY <3>1
    <3>3. HasMax(t, 0)
      BY <3>2, Zenon DEF HasMax
    <3>. QED
      BY <2>1, <3>3
  <2>3. k - 1 \in 0..N /\ k - 1 \notin Bad
    BY <1>1, <2>1, <2>2
  <2>4. PICK x \in Seen(t, k - 1) : \A y \in Seen(t, k - 1) : y <= x
    BY <2>3 DEF HasMax
  <2>5. Seen(t, k) = Seen(t, k - 1) \cup {Abs(t[k - 1])}
    BY <1>1, <2>1, <2>2 DEF Seen
  <2>6. Abs(t[k - 1]) \in Nat /\ x \in Nat
    BY <1>1, <1>2, <2>1, <2>2, <2>3, <2>4 DEF Abs, Range0
  <2>7. HasMax(t, k)
    <3>1. CASE Abs(t[k - 1]) <= x
      BY <2>4, <2>5, <3>1 DEF HasMax
    <3>2. CASE x < Abs(t[k - 1])
      <4>1. \A y \in Seen(t, k) : y <= Abs(t[k - 1])
        BY <1>2, <2>3, <2>4, <2>5, <2>6, <3>2
      <4>. QED
        BY <2>5, <4>1 DEF HasMax
    <3>. QED
      BY <2>6, <3>1, <3>2
  <2>. QED
    BY <2>1, <2>7
<1>4. Seen(t, N) = {0} \cup {Abs(t[i]) : i \in Range0(N)}
  BY DEF Seen, Range0
<1>5. \E x \in Seen(t, N) : \A y \in Seen(t, N) : x >= y
  BY <1>1, <1>2, <1>3 DEF HasMax
<1>6. MaxAbs(t) \in Seen(t, N) /\ \A y \in Seen(t, N) : MaxAbs(t) >= y
  BY <1>4, <1>5 DEF MaxAbs, Max
<1>. QED
  BY <1>1, <1>2, <1>4, <1>6

-----------------------------------------------------------------------------
(* The codes of step 2 and the packed bytes of step 3.                     *)

(* With a scale at least |x|, step 2 gives x the raw code of its ternary *)
(* value: below 1e-6 the code 1, otherwise the sign of x * scale, which  *)
(* is the sign of x because the scale is then positive.                   *)
LEMMA CodeRaw ==
    ASSUME NEW x \in Int, NEW s \in Nat, Abs(x) <= s
    PROVE  /\ Code(x, s) = SpecRaw(x)
           /\ Code(x, s) \in 0..3
<1>1. Eps \in Nat \ {0}
  BY HalAssumption
<1>2. CASE Abs(x) < Eps
  BY <1>2 DEF Code, SpecRaw, Ternary
<1>3. CASE ~(Abs(x) < Eps) /\ x > 0
  <2>1. s > 0
    BY <1>1, <1>3 DEF Abs
  <2>2. x * s > 0
    BY <1>3, <2>1, Z3
  <2>. QED
    BY <1>3, <2>2 DEF Code, SpecRaw, Ternary
<1>4. CASE ~(Abs(x) < Eps) /\ x <= 0
  <2>1. x < 0 /\ s > 0
    BY <1>1, <1>4 DEF Abs
  <2>2. ~(x * s > 0)
    BY <2>1, Z3
  <2>. QED
    BY <1>4, <2>1, <2>2 DEF Code, SpecRaw, Ternary
<1>. QED
  BY <1>2, <1>3, <1>4

(* The codes step 2 writes into q8, and the four that share the byte of *)
(* weight i, in the order of their groups.                                *)
Codes(t) == [j \in Range0(N) |-> Code(t[j], MaxAbs(t))]
Slots(t, i) == [g \in 0..3 |-> Codes(t)[Blk(i) * QK + g * G + Pos(i)]]

(* For a tensor of whole blocks, the buffer scalar_quantize_i2 fills     *)
(* holds, at the slot the spec's layout assigns weight i, the raw code   *)
(* of weight i's ternary value.                                           *)
LEMMA QuantizeDecodes ==
    ASSUME N % QK = 0, NEW t \in [Range0(N) -> Int], NEW i \in Range0(N)
    PROVE  /\ SpecByte(i) \in DOMAIN QuantizeI2(t).bytes
           /\ SpecDecode(QuantizeI2(t).bytes, i) = SpecRaw(t[i])
<1>1. QuantizeI2(t).bytes = PackedBytes(Codes(t))
  BY DEF QuantizeI2, Codes
<1>2. \A j \in Range0(N) : Codes(t)[j] = SpecRaw(t[j]) /\ Codes(t)[j] \in 0..3
  <2>1. MaxAbs(t) \in Nat /\ \A j \in Range0(N) : Abs(t[j]) <= MaxAbs(t)
    BY MaxAbsBound
  <2>. QED
    BY <2>1, CodeRaw DEF Codes
<1>3. /\ SpecByte(i) \in Range0(N \div 4)
      /\ SpecByte(i) \div G = Blk(i) /\ SpecByte(i) % G = Pos(i)
      /\ Blk(i) < N \div QK
      /\ Grp(i) \in 0..3
      /\ i = Blk(i) * QK + Grp(i) * G + Pos(i)
      /\ \A g \in 0..3 : Blk(i) * QK + g * G + Pos(i) \in Range0(N)
  BY Layout
<1>4. Slots(t, i) \in [0..3 -> 0..3]
  BY <1>2, <1>3 DEF Slots
<1>5. PackedBytes(Codes(t))[SpecByte(i)]
        = Slots(t, i)[0] * 2^6 + Slots(t, i)[1] * 2^4
          + Slots(t, i)[2] * 2^2 + Slots(t, i)[3] * 2^0
  BY <1>3 DEF PackedBytes, Slots
<1>6. SpecDecode(PackedBytes(Codes(t)), i)
        = ((Slots(t, i)[0] * 2^6 + Slots(t, i)[1] * 2^4
            + Slots(t, i)[2] * 2^2 + Slots(t, i)[3] * 2^0)
           \div 2^(6 - 2 * Grp(i))) % 4
  BY <1>5 DEF SpecDecode, Grp, Off
<1>7. SpecDecode(PackedBytes(Codes(t)), i) = Slots(t, i)[Grp(i)]
  BY <1>3, <1>4, <1>6, DigitsDecode, Zenon
<1>8. Slots(t, i)[Grp(i)] = SpecRaw(t[i])
  BY <1>2, <1>3 DEF Slots
<1>. QED
  BY <1>1, <1>3, <1>7, <1>8 DEF PackedBytes

(* Four codes below 4 at shifts 6, 4, 2 and 0 make a uint8.              *)
LEMMA DigitsByte ==
    ASSUME NEW f \in [0..3 -> 0..3]
    PROVE  f[0] * 2^6 + f[1] * 2^4 + f[2] * 2^2 + f[3] * 2^0 \in 0..255
<1>1. 2^6 = 64 /\ 2^4 = 16 /\ 2^2 = 4 /\ 2^0 = 1
  OBVIOUS
<1>. QED
  BY <1>1

(* Step 3 reads q8 only at indices of the tensor, and every byte it      *)
(* leaves is a uint8, whether or not n is a multiple of QK_I2_S.         *)
LEMMA PackedBytesType ==
    ASSUME NEW q \in [Range0(N) -> 0..3]
    PROVE  PackedBytes(q) \in [Range0(N \div 4) -> 0..255]
<1>1. G \in Nat \ {0} /\ QK = 4 * G /\ QK \in Nat \ {0} /\ N \in Nat
  BY HalAssumption DEF QK, N
<1>2. NBlk \in Nat /\ N >= QK * NBlk
  <2>1. NBlk \in Nat /\ N % QK \in 0..(QK - 1) /\ N = QK * NBlk + (N % QK)
    BY <1>1, DivFacts, Zenon DEF NBlk
  <2>. QED
    BY <1>1, <2>1
<1>3. ASSUME NEW k \in Range0(N \div 4), k \div G < N \div QK
      PROVE  [g \in 0..3 |-> q[(k \div G) * QK + g * G + (k % G)]] \in [0..3 -> 0..3]
  <2>1. k \in Nat
    BY <1>1 DEF Range0
  <2>2. k \div G \in Nat /\ k % G \in 0..(G - 1)
    BY <1>1, <2>1, DivFacts, Zenon
  <2>3. ASSUME NEW g \in 0..3
        PROVE  (k \div G) * QK + g * G + (k % G) \in Range0(N)
    <3>1. QK * ((k \div G) + 1) <= QK * NBlk
      BY <1>1, <1>2, <2>2, <1>3, Z3 DEF NBlk
    <3>2. G * g <= G * 3
      BY <1>1, Z3
    <3>3. QK * ((k \div G) + 1) = (k \div G) * QK + 4 * G
      BY <1>1, <2>2, Z3
    <3>4. g * G + (k % G) \in 0..(4 * G - 1)
      BY <1>1, <2>2, <3>2
    <3>5. (k \div G) * QK \in Nat /\ (k \div G) * QK + 4 * G <= N
      BY <1>1, <1>2, <2>2, <3>1, <3>3
    <3>6. N \in Nat /\ G \in Nat
      BY <1>1
    <3>. DEFINE a == (k \div G) * QK
                b1 == g * G
                b2 == k % G
    <3>7. a \in Nat /\ a + 4 * G <= N /\ b1 \in Int /\ b2 \in Int
          /\ b1 + b2 \in 0..(4 * G - 1)
      BY <1>1, <2>2, <3>4, <3>5
    <3>. HIDE DEF a, b1, b2
    <3>8. a + b1 + b2 \in 0..(N - 1)
      BY <3>6, <3>7
    <3>. QED
      BY <3>8 DEF Range0, a, b1, b2
  <2>. QED
    BY <2>3
<1>4. ASSUME NEW k \in Range0(N \div 4) PROVE PackedBytes(q)[k] \in 0..255
  <2>1. CASE k \div G < N \div QK
    <3>. DEFINE f == [g \in 0..3 |-> q[(k \div G) * QK + g * G + (k % G)]]
    <3>1. f \in [0..3 -> 0..3]
      BY <1>3, <2>1
    <3>2. f[0] * 2^6 + f[1] * 2^4 + f[2] * 2^2 + f[3] * 2^0 \in 0..255
      BY <3>1, DigitsByte
    <3>3. PackedBytes(q)[k] = f[0] * 2^6 + f[1] * 2^4 + f[2] * 2^2 + f[3] * 2^0
      BY <2>1 DEF PackedBytes, f
    <3>. QED
      BY <3>2, <3>3
  <2>2. CASE ~(k \div G < N \div QK)
    BY <2>2 DEF PackedBytes
  <2>. QED
    BY <2>1, <2>2
<1>. QED
  BY <1>4 DEF PackedBytes

-----------------------------------------------------------------------------
(* The behaviour: a tensor is quantized once, then multiplied.             *)

(* The inductive invariant: the tensor never changes, and the buffer is  *)
(* either untouched or exactly what scalar_quantize_i2 writes for it     *)
(* (a failed malloc leaves it as it was).                                 *)
IInv ==
    /\ w \in [Range0(N) -> Int]
    /\ dst = None \/ dst = QuantizeI2(w)

LEMMA InitIInv == Init => IInv
<1>. SUFFICES ASSUME Init PROVE IInv
  OBVIOUS
<1>1. Probes(N, WVals) \subseteq [Range0(N) -> Int]
  BY HalAssumption DEF Probes, Flat, Spike
<1>. QED
  BY <1>1 DEF Init, IInv

LEMMA NextIInv == IInv /\ [Next]_vars => IInv'
<1>. SUFFICES ASSUME IInv, [Next]_vars PROVE IInv'
  OBVIOUS
<1>1. CASE Quantize
  BY <1>1 DEF Quantize, IInv
<1>2. CASE \E y \in Acts, bx \in Strides : VecDot(y, bx)
  BY <1>2 DEF VecDot, IInv
<1>3. CASE \E y \in Acts : Gemv(y)
  BY <1>3 DEF Gemv, IInv
<1>4. CASE \E ys \in [Range0(NCols) -> Acts] : Gemm(ys)
  BY <1>4 DEF Gemm, IInv
<1>5. CASE UNCHANGED vars
  BY <1>5 DEF vars, IInv
<1>. QED
  BY <1>1, <1>2, <1>3, <1>4, <1>5 DEF Next

(* For every tensor of whole blocks (n a multiple of QK_I2_S, as every   *)
(* BitNet weight tensor is), and every block size, threshold and weight  *)
(* value: whenever scalar_quantize_i2 has filled the buffer, every weight *)
(* decodes, at the slot the spec's layout assigns it, to the raw code of *)
(* its ternary value (SignsPreserved).                                    *)
THEOREM SignsPreservedWholeBlocks ==
    ASSUME N % QK = 0
    PROVE  Spec => []SignsPreserved
<1>1. IInv => SignsPreserved
  <2>. SUFFICES ASSUME IInv, dst # None, NEW i \in Range0(N)
                PROVE  /\ SpecByte(i) \in DOMAIN dst.bytes
                       /\ SpecDecode(dst.bytes, i) = SpecRaw(w[i])
    BY DEF SignsPreserved
  <2>1. dst = QuantizeI2(w) /\ w \in [Range0(N) -> Int]
    BY DEF IInv
  <2>. QED
    BY <2>1, QuantizeDecodes
<1>. QED
  BY <1>1, InitIInv, NextIInv, PTL DEF Spec

(* The buffer clause of TypeOK: scalar_quantize_i2 writes exactly n / 4   *)
(* packed bytes, each a uint8, and a scale.                                *)
BufferOK == dst = None \/ dst \in [bytes : [Range0(N \div 4) -> 0..255], scale : Nat]

(* For every tensor shape, block size, threshold and weight value, the    *)
(* buffer scalar_quantize_i2 fills has n / 4 bytes, each of which the     *)
(* or-ing of four 2-bit codes keeps within a uint8, followed by a scale.  *)
THEOREM BufferTyped == Spec => []BufferOK
<1>1. IInv => BufferOK
  <2>. SUFFICES ASSUME IInv, dst # None PROVE BufferOK
    BY DEF BufferOK
  <2>1. dst = QuantizeI2(w) /\ w \in [Range0(N) -> Int]
    BY DEF IInv
  <2>2. MaxAbs(w) \in Nat /\ \A j \in Range0(N) : Abs(w[j]) <= MaxAbs(w)
    BY <2>1, MaxAbsBound
  <2>3. Codes(w) \in [Range0(N) -> 0..3]
    BY <2>1, <2>2, CodeRaw DEF Codes
  <2>4. PackedBytes(Codes(w)) \in [Range0(N \div 4) -> 0..255]
    BY <2>3, PackedBytesType
  <2>. QED
    BY <2>1, <2>2, <2>4 DEF QuantizeI2, Codes, BufferOK
<1>. QED
  BY <1>1, InitIInv, NextIInv, PTL DEF Spec

=============================================================================
