----------------------------- MODULE HalScalar -----------------------------
(***************************************************************************)
(* The portable scalar backend of the HAL (hal_scalar.c, in               *)
(* src/unnamed/part_001): scalar_quantize_i2 packs a float tensor into    *)
(* I2_S ternary codes, and scalar_vec_dot_i2_i8, scalar_gemv_i2_i8 and    *)
(* scalar_gemm_i2_i8 multiply the packed rows with int8 activations.      *)
(*                                                                         *)
(* The kernels are pure functions; the engine calls them in a fixed      *)
(* pattern: a weight tensor is quantized once, then multiplied with one  *)
(* activation vector after another.  The state records the tensor, the    *)
(* quantized buffer, the last call and its output, so that every output  *)
(* can be compared with a reference product computed from the weights    *)
(* and the encoding the spec defines.                                    *)
(*                                                                         *)
(* The block is scaled down: a block of QK_I2_S = 4 * G weights is packed *)
(* into G bytes, four 2-bit slots per byte (G = 32 in the code, so        *)
(* QK_I2_S = 128).  Weights are integers in units of Eps^-1 * 1e-6, so    *)
(* |w| < 1e-6 reads |w| < Eps.                                            *)
(***************************************************************************)
EXTENDS Integers, Sequences, FiniteSetsExt

CONSTANTS
    G,          \* bytes of one 2-bit slice of a block (32 in the code)
    NPerRow,    \* n_per_row of the weight tensor, n of the dot products
    NRow,       \* rows of the weight tensor
    NCols,      \* activation columns handed to gemm
    Eps,        \* 1e-6 in weight units
    WVals,      \* weight values the probes use
    YVals,      \* int8 activation values the probes use
    Strides,    \* bx values callers pass to vec_dot
    Unwritten   \* an output element no kernel wrote

ASSUME HalAssumption ==
    /\ G \in Nat \ {0}
    /\ NPerRow \in Nat \ {0} /\ NPerRow % 4 = 0
    /\ NRow \in Nat \ {0} /\ NCols \in Nat \ {0}
    /\ Eps \in Nat \ {0}
    /\ WVals \subseteq Int /\ YVals \subseteq -128..127
    /\ Strides \subseteq Nat

QK == 4 * G                    \* SCALAR_QK_I2_S
N == NRow * NPerRow            \* n = nrow * n_per_row
Abs(x) == IF x < 0 THEN -x ELSE x
Range0(k) == 0..(k - 1)        \* the indices of a C array of k elements

-----------------------------------------------------------------------------
(* Reference definitions, from the spec: the ternary value of a weight   *)
(* (0 below 1e-6, else its sign), its raw code v with v - 1 the ternary  *)
(* value, the byte holding weight i and its 2-bit slot there.            *)
Ternary(w) == IF Abs(w) < Eps THEN 0 ELSE IF w > 0 THEN 1 ELSE -1
SpecRaw(w) == Ternary(w) + 1
SpecByte(i) == (i \div QK) * G + ((i % QK) % G)
SpecDecode(bytes, i) == (bytes[SpecByte(i)] \div 2^(6 - 2 * ((i % QK) \div G))) % 4

(* The product the kernels must compute for row r and activations y:     *)
(* the raw codes times the int8 activations, accumulated over the row.  *)
RefDot(w, r, y) == MapThenSumSet(LAMBDA j : SpecRaw(w[r * NPerRow + j]) * y[j],
                                 Range0(NPerRow))

-----------------------------------------------------------------------------
(* scalar_quantize_i2, steps 1 and 2: the scale is the largest |w| (0 for *)
(* an all-zero tensor), and each weight becomes a code in {0, 1, 2}.     *)
MaxAbs(w) == Max({0} \cup {Abs(w[i]) : i \in Range0(N)})

(* Mutant: a weight below 1e-6 encoded as 2, as the spec's prose has it. *)
CodeZeroAsTwo(w, scale) ==
    IF Abs(w) < Eps THEN 2 ELSE IF w * scale > 0 THEN 2 ELSE 0

Code(w, scale) ==
    IF Abs(w) < Eps THEN 1 ELSE IF w * scale > 0 THEN 2 ELSE 0

(* Mutant: the memset and the packing loop run over n bytes, not n / 4. *)
PackedBytesMemsetN(q) ==
    [k \in Range0(N) |->
       LET blk == k \div G
           pos == k % G
           slot(g) == q[blk * QK + g * G + pos] * 2^(6 - 2 * g)
       IN  IF blk < N \div QK
           THEN slot(0) + slot(1) + slot(2) + slot(3)
           ELSE 0]

(* Step 3: memset(out, 0, n / 4), then for each of the n / QK whole      *)
(* blocks, out[blk * G + pos] |= code << (6 - 2 * group) for j = group * *)
(* G + pos.  The bytes of a trailing partial block stay 0.  The four     *)
(* codes of a byte, each below 4, land in its disjoint bit pairs 7-6,    *)
(* 5-4, 3-2 and 1-0 of a byte the memset zeroed, so or-ing them in is    *)
(* adding them.                                                           *)
PackedBytes(q) ==
    [k \in Range0(N \div 4) |->
       LET blk == k \div G
           pos == k % G
           slot(g) == q[blk * QK + g * G + pos] * 2^(6 - 2 * g)
       IN  IF blk < N \div QK
           THEN slot(0) + slot(1) + slot(2) + slot(3)
           ELSE 0]

(* The buffer scalar_quantize_i2 fills: the packed bytes, then the scale *)
(* as a float after them.                                                 *)
QuantizeI2(w) ==
    LET scale == MaxAbs(w)
    IN  [bytes |-> PackedBytes([i \in Range0(N) |-> Code(w[i], scale)]),
         scale |-> scale]

-----------------------------------------------------------------------------
(* The inner loops of vec_dot and gemv: the int32 sum over the n / QK     *)
(* whole blocks of a row starting at byte off of raw * y[j], the raw code *)
(* being (byte >> (6 - 2 * group)) & 0x03, which for a uint8 is            *)
(* (byte \div 2^(6 - 2 * group)) % 4.  The sums stay far inside          *)
(* int32 (|sum| <= 2 * 128 * n), so no wrap-around is modelled.           *)

(* Mutant: the slots read in the opposite order, bits [1:0] first.       *)
RowSumSlotsReversed(x, off, y) ==
    MapThenSumSet(
      LAMBDA bj : ((x[off + bj[1] * G + (bj[2] % G)] \div 2^(2 * (bj[2] \div G))) % 4)
                  * y[bj[1] * QK + bj[2]],
      Range0(NPerRow \div QK) \X Range0(QK))

RowSum(x, off, y) ==
    MapThenSumSet(
      LAMBDA bj : ((x[off + bj[1] * G + (bj[2] % G)] \div 2^(6 - 2 * (bj[2] \div G))) % 4)
                  * y[bj[1] * QK + bj[2]],
      Range0(NPerRow \div QK) \X Range0(QK))

(* scalar_vec_dot_i2_i8: row r starts at byte r * (bx / 4); s[row] is    *)
(* written without the bs stride.                                        *)
VecDotI2I8(x, bx, y) == [r \in Range0(NRow) |-> RowSum(x, r * (bx \div 4), y)]

(* scalar_gemv_i2_i8: row r starts at byte r * (n / QK) * G.              *)
GemvI2I8(x, y) == [r \in Range0(NRow) |-> RowSum(x, r * ((NPerRow \div QK) * G), y)]

(* scalar_gemm_i2_i8 calls scalar_gemv_i2_i8 with nc passed through and *)
(* ignored: only the first activation column is multiplied, and the      *)
(* outputs of the other columns are never written.                       *)
GemmI2I8(x, ys) ==
    [rc \in Range0(NRow) \X Range0(NCols) |->
       IF rc[2] = 0 THEN GemvI2I8(x, ys[0])[rc[1]] ELSE Unwritten]

-----------------------------------------------------------------------------
(* The inputs the engine hands the backend: weight tensors and           *)
(* activation vectors built to expose the layout (all one value, or one *)
(* position set against a background of zeros).                         *)
Spike(len, i, v) == [k \in Range0(len) |-> IF k = i THEN v ELSE 0]
Flat(len, v) == [k \in Range0(len) |-> v]
Probes(len, vals) ==
    {Flat(len, v) : v \in vals} \cup
    {Spike(len, i, v) : i \in Range0(len), v \in vals \ {0}}

VARIABLES
    w,      \* the f32 weight tensor, nrow * n_per_row values
    dst,    \* the buffer scalar_quantize_i2 filled, or None
    act,    \* the activation columns of the last kernel call
    out,    \* the output elements of the last call, by (row, column)
    op      \* the last call

vars == <<w, dst, act, out, op>>

None == [bytes |-> << >>, scale |-> -1]
NoOutput == [rc \in Range0(NRow) \X Range0(NCols) |-> Unwritten]

Init ==
    /\ w \in Probes(N, WVals)
    /\ dst = None
    /\ act = << >>
    /\ out = NoOutput
    /\ op = "none"

(* scalar_quantize_i2(src = w, dst, nrow, n_per_row): malloc of the code *)
(* array fails (returns 0, dst untouched), or dst is filled.             *)
Quantize ==
    /\ \/ dst' = QuantizeI2(w)
       \/ UNCHANGED dst
    /\ op' = "quantize"
    /\ UNCHANGED <<w, act, out>>

(* scalar_vec_dot_i2_i8(n, s, bs, dst, bx, y, by, nrc = nrow).           *)
VecDot(y, bx) ==
    /\ dst # None
    /\ act' = [c \in {0} |-> y]
    /\ out' = [rc \in Range0(NRow) \X Range0(NCols) |->
                 IF rc[2] = 0 THEN VecDotI2I8(dst.bytes, bx, y)[rc[1]] ELSE Unwritten]
    /\ op' = "vec_dot"
    /\ UNCHANGED <<w, dst>>

(* scalar_gemv_i2_i8(n, s, bs, dst, y, nr = nrow, nc).                   *)
Gemv(y) ==
    /\ dst # None
    /\ act' = [c \in {0} |-> y]
    /\ out' = [rc \in Range0(NRow) \X Range0(NCols) |->
                 IF rc[2] = 0 THEN GemvI2I8(dst.bytes, y)[rc[1]] ELSE Unwritten]
    /\ op' = "gemv"
    /\ UNCHANGED <<w, dst>>

(* scalar_gemm_i2_i8(n, s, bs, dst, ys, nr = nrow, nc = NCols).          *)
Gemm(ys) ==
    /\ dst # None
    /\ act' = ys
    /\ out' = GemmI2I8(dst.bytes, ys)
    /\ op' = "gemm"
    /\ UNCHANGED <<w, dst>>

Acts == Probes(NPerRow, YVals)

Next ==
    \/ Quantize
    \/ \E y \in Acts, bx \in Strides : VecDot(y, bx)
    \/ \E y \in Acts : Gemv(y)
    \/ \E ys \in [Range0(NCols) -> Acts] : Gemm(ys)

Spec == Init /\ [][Next]_vars

-----------------------------------------------------------------------------
(* Properties.                                                            *)

(* Every variable has its type; scalar_quantize_i2 writes exactly n / 4  *)
(* packed bytes, each a uint8.                                           *)
TypeOK ==
    /\ w \in [Range0(N) -> WVals]
    /\ dst = None \/ dst \in [bytes : [Range0(N \div 4) -> 0..255], scale : Nat]
    /\ out \in [Range0(NRow) \X Range0(NCols) -> Int \cup {Unwritten}]
    /\ op \in {"none", "quantize", "vec_dot", "gemv", "gemm"}

(* The packed buffer holds, for every weight of the tensor, the raw code *)
(* of its ternary value at the slot the spec's layout assigns it: the    *)
(* slot lies inside the bytes scalar_quantize_i2 wrote and decodes to    *)
(* the weight's sign.                                                    *)
SignsPreserved ==
    dst # None =>
       \A i \in Range0(N) : /\ SpecByte(i) \in DOMAIN dst.bytes
                          /\ SpecDecode(dst.bytes, i) = SpecRaw(w[i])

(* Every output element a kernel call returns is the reference product   *)
(* of its weight row with its activation column, computed from the      *)
(* float weights without any packing.                                    *)
KernelMatchesReference ==
    op \in {"vec_dot", "gemv", "gemm"} =>
       \A r \in Range0(NRow), c \in DOMAIN act : out[<<r, c>>] = RefDot(w, r, act[c])

=============================================================================
