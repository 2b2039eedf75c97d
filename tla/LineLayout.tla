----------------------------- MODULE LineLayout -----------------------------
(* Where the host finds the bytes of a DPU: the address translation of the   *)
(* xeon_sp mapping and the byte interleaving of a line.                      *)
(*                                                                           *)
(* A 64-byte line of the rank holds the same 64-bit word of the eight DPUs   *)
(* that have the same number on the eight control interfaces. Addresses are  *)
(* bytes from the base of the region.                                        *)
EXTENDS Integers, Sequences

BANK_CHUNK_SIZE == 131072
BANK_NEXT_CHUNK_OFFSET == 1048576
\* write_to_cis and read_from_cis: the lines of the control interfaces.
CI_WRITE_LINE == 131072
CI_READ_LINE == 131072 + 32 * 1024

\* BANK_START: four banks per chunk, two DPUs side by side in a bank.
BankStartAlone(dpu_id) == 262144 * (dpu_id % 4)
BankStart(dpu_id) == 262144 * (dpu_id % 4) + (IF dpu_id >= 4 THEN 64 ELSE 0)

\* Bits 21..15 move down by one, bit 14 becomes bit 21.
apply_address_translation_on_mram_offset(byte_offset) ==
  LET unchanged  == (byte_offset \div 4194304) * 4194304 + (byte_offset % 16384)
      bits_21_15 == (byte_offset \div 32768) % 128
      bit_14     == (byte_offset \div 16384) % 2
  IN  unchanged + bits_21_15 * 16384 + bit_14 * 2097152

\* The offset of a word inside its bank: one line out of two, and a jump to
\* the next chunk every BANK_CHUNK_SIZE bytes.
WordOffset(byte_offset) ==
  LET word == apply_address_translation_on_mram_offset(byte_offset) \div 8
      next == 16 * (word * 8)
  IN  (next % BANK_CHUNK_SIZE) + (next \div BANK_CHUNK_SIZE) * BANK_NEXT_CHUNK_OFFSET

LineAddress(dpu_id, byte_offset) == BankStart(dpu_id) + WordOffset(byte_offset)

(* Byte interleaving. A register is a function from byte positions to the    *)
(* positions of the input they come from; the instructions used by the       *)
(* implementations are functions on registers.                               *)
Input == [i \in 0 .. 63 |-> i]

\* The definition: byte j of word i comes from byte i of word j.
byte_interleave == [k \in 0 .. 63 |-> Input[8 * (k % 8) + (k \div 8)]]

\* Gather of 32-bit elements at the byte offsets of vindex.
Gather32(src, vindex) == [k \in 0 .. (4 * Len(vindex) - 1) |-> src[vindex[(k \div 4) + 1] + (k % 4)]]
\* Byte shuffle inside each 128-bit lane.
ShuffleBytes(reg, mask) == [k \in DOMAIN reg |-> reg[16 * (k \div 16) + mask[(k % 16) + 1]]]
\* Permutation of 32-bit elements.
Permute32(reg, perm) == [k \in DOMAIN reg |-> reg[4 * perm[(k \div 4) + 1] + (k % 4)]]
\* Selection of 32-bit elements: of b where the set holds the index.
Blend(a, b, sel) == [k \in DOMAIN a |-> IF (k \div 4) \in sel THEN b[k] ELSE a[k]]
Load128(at) == [k \in 0 .. 15 |-> Input[at + k]]
Stores(regs, width) == [k \in 0 .. 63 |-> regs[(k \div width) + 1][k % width]]

TransposeMask == <<0, 4, 8, 12, 1, 5, 9, 13, 2, 6, 10, 14, 3, 7, 11, 15>>
LanePermNone == <<0, 1, 2, 3, 4, 5, 6, 7>>
LanePerm == <<0, 4, 1, 5, 2, 6, 3, 7>>

byte_interleave_sse4_1 ==
  LET swap == <<1, 0, 3, 2>>
      odd == {1, 3}
      even == {0, 2}
      c0 == <<0, 8, 4, 12, 2, 10, 6, 14, 1, 9, 5, 13, 3, 11, 7, 15>>
      c1 == <<2, 10, 6, 14, 0, 8, 4, 12, 3, 11, 7, 15, 1, 9, 5, 13>>
      c2 == <<4, 12, 0, 8, 6, 14, 2, 10, 5, 13, 1, 9, 7, 15, 3, 11>>
      c3 == <<6, 14, 2, 10, 4, 12, 0, 8, 7, 15, 3, 11, 5, 13, 1, 9>>
      b1 == Permute32(Load128(16), swap)
      b3 == Permute32(Load128(48), swap)
      s0 == ShuffleBytes(Blend(Load128(0), b1, odd), c0)
      s1 == ShuffleBytes(Blend(Load128(32), b3, odd), c1)
      s2 == ShuffleBytes(Blend(Load128(0), b1, even), c2)
      s3 == ShuffleBytes(Blend(Load128(32), b3, even), c3)
  IN  Stores(<<Blend(s0, s1, odd), Permute32(Blend(s0, s1, even), swap),
               Blend(s2, s3, odd), Permute32(Blend(s2, s3, even), swap)>>, 16)

byte_interleave_avx2 ==
  LET vindex == <<0, 8, 16, 24, 32, 40, 48, 56>>
      half(at) == Permute32(ShuffleBytes(Gather32([k \in 0 .. (63 - at) |-> Input[at + k]], vindex),
                                         TransposeMask), LanePerm)
  IN  Stores(<<half(0), half(4)>>, 32)

byte_interleave_avx512 ==
  LET vindex == <<0, 8, 16, 24, 32, 40, 48, 56, 4, 12, 20, 28, 36, 44, 52, 60>>
      perm == LanePerm \o [k \in 1 .. 8 |-> 8 + LanePerm[k]]
  IN  Permute32(ShuffleBytes(Gather32(Input, vindex), TransposeMask), perm)

\* The table of this one holds 16 byte positions, repeated for every 128 bits, and
\* its permutation takes them as positions in the whole line.
byte_interleave_avx512vbmi == [k \in 0 .. 63 |-> Input[TransposeMask[(k % 16) + 1]]]
=============================================================================
