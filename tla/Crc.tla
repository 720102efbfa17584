-------------------------------- MODULE Crc --------------------------------
(* The cyclic redundancy code that turns the name of a method into its number: *)
(* the bitwise crc_basic, the table-driven crc_optimal that the plugin uses,   *)
(* and augmented_crc.  A value is the set of the positions of its one bits, 0  *)
(* the lowest, so that ^ is the symmetric difference.                          *)

EXTENDS Integers

CONSTANTS
  Bits,        \* the width of the code
  CharBit,     \* CHAR_BIT
  Digits,      \* the digits of the type that holds a remainder
  Polys,       \* truncated polynomials
  Remainders,  \* initial remainders
  FinalXors    \* final values

Values == SUBSET (0 .. Bits - 1)
Bytes == SUBSET (0 .. CharBit - 1)

ASSUME WidthAssumption ==
  /\ Bits \in Nat \ {0} /\ CharBit \in Nat \ {0}
  /\ Digits \in Nat /\ Bits <= Digits /\ CharBit <= Digits
  /\ Polys \subseteq Values /\ Remainders \subseteq Values /\ FinalXors \subseteq Values

VARIABLES
  type,      \* the template arguments
  table,     \* crc_table_t::table_
  didInit,   \* init_table's did_init
  basic,     \* rem_ of a crc_basic
  optimal,   \* rem_ of a crc_optimal that processes the same bytes
  augmented, \* the remainder of augmented_crc over the same bytes
  other,     \* rem_ of a crc_optimal that processes other bytes
  since      \* how many bytes ago those first differed, 0 if they never did

vars == <<type, table, didInit, basic, optimal, augmented, other, since>>

Xor(x, y) == (x \ y) \cup (y \ x)
ShiftRight(x, n) == {i - n : i \in {k \in x : k >= n}}

ShiftLeft(x, n) == {i + n : i \in x} \cap 0 .. Digits - 1

SigBits(x) == x \cap 0 .. Bits - 1
Byte(x) == x \cap 0 .. CharBit - 1
Reflect(bits, x) == {bits - 1 - i : i \in x \cap 0 .. bits - 1}
ReflectIf(reflect, bits, x) == IF reflect THEN Reflect(bits, x) ELSE x

-----------------------------------------------------------------------------
\* crc_basic::process_bit, also the body of the loop in init_table.
ProcessBit(poly, rem, bit) ==
  LET compared == IF bit THEN Xor(rem, {Bits - 1}) ELSE rem
      shifted == ShiftLeft(compared, 1)
  IN  IF Bits - 1 \in compared THEN Xor(shifted, poly) ELSE shifted

\* crc_basic::process_bits for a whole byte, from its upper bit down.
ProcessBits(poly, rem, byte) ==
  LET processed[k \in 0 .. CharBit] ==
        IF k = 0 THEN rem ELSE ProcessBit(poly, processed[k - 1], CharBit - k \in byte)
  IN  processed[CharBit]

BasicByte(rem, byte) ==
  ProcessBits(type.poly, rem, ReflectIf(type.reflectIn, CharBit, byte))

BasicChecksum ==
  SigBits(Xor(ReflectIf(type.reflectRem, Bits, basic), type.final))

\* Mutant of Table: a reflected remainder at an index that is not reflected.
TableUnreflected(t) ==
  [index \in Bytes |->
     ReflectIf(t.reflectIn, Bits, ProcessBits(t.poly, {}, index))]

\* The table that init_table computes.
Table(t) ==
  [index \in Bytes |->
     ReflectIf(t.reflectIn, Bits,
       ProcessBits(t.poly, {}, ReflectIf(t.reflectIn, CharBit, index)))]

\* crc_helper::index with remainder::align_msb, and crc_helper::shift
Index(rem, byte) ==
  Byte(Xor(byte, IF type.reflectIn THEN rem
                 ELSE IF Bits > CharBit THEN ShiftRight(rem, Bits - CharBit)
                 ELSE ShiftLeft(rem, CharBit - Bits)))

Shift(rem) == IF type.reflectIn THEN ShiftRight(rem, CharBit) ELSE ShiftLeft(rem, CharBit)

\* Mutant of OptimalByte: what is left of the remainder is lost.
OptimalByteLoses(rem, byte) == table[Index(rem, byte)]

\* One round of crc_optimal::process_block.
OptimalByte(rem, byte) == Xor(Shift(rem), table[Index(rem, byte)])

OptimalChecksum(rem) ==
  SigBits(Xor(ReflectIf(type.reflectRem # type.reflectIn, Bits, rem), type.final))

\* Mutant of AugmentedByte: the index is taken after the shift.
AugmentedByteLate(rem, byte) ==
  LET shifted == ShiftLeft(rem, CharBit)
  IN  Xor(shifted \cup byte, table[Byte(ShiftRight(shifted, Bits - CharBit))])

\* One round of augmented_crc, for codes that are as wide as a byte at least.
AugmentedByte(rem, byte) ==
  Xor(ShiftLeft(rem, CharBit) \cup byte, table[Byte(ShiftRight(rem, Bits - CharBit))])

-----------------------------------------------------------------------------
NoTable == [index \in Bytes |-> {}]

\* All remainders start over: the two optimal codes start over with equal bytes.
ResetTo(rem) ==
  /\ basic' = rem /\ augmented' = rem
  /\ optimal' = ReflectIf(type.reflectIn, Bits, rem)
  /\ other' = ReflectIf(type.reflectIn, Bits, rem)
  /\ since' = 0

Init ==
  /\ type \in [poly : Polys, init : Remainders, final : FinalXors,
               reflectIn : BOOLEAN, reflectRem : BOOLEAN]
  /\ table = NoTable /\ didInit = FALSE
  /\ basic = {} /\ optimal = {} /\ augmented = {} /\ other = {} /\ since = 0

\* The constructors; init_table() fills the table on the first run only.
Construct ==
  /\ table' = IF didInit THEN table ELSE Table(type)
  /\ didInit' = TRUE
  /\ ResetTo(type.init)
  /\ UNCHANGED type

\* reset() without an argument.
Reset ==
  /\ didInit
  /\ ResetTo(type.init)
  /\ UNCHANGED <<type, table, didInit>>

\* The bytes of a window of Bits bits.
Window == Bits \div CharBit

\* process_byte of every code; the other bytes differ in one window only.
ProcessByte(byte, otherByte) ==
  /\ didInit
  /\ byte = otherByte \/ since < Window
  /\ basic' = BasicByte(basic, byte)
  /\ optimal' = OptimalByte(optimal, byte)
  /\ augmented' = IF Bits >= CharBit THEN AugmentedByte(augmented, byte) ELSE augmented
  /\ other' = OptimalByte(other, otherByte)
  /\ since' = IF byte = otherByte /\ since = 0 THEN 0
              ELSE IF since < Window THEN since + 1 ELSE since
  /\ UNCHANGED <<type, table, didInit>>

Next ==
  \/ Construct
  \/ Reset
  \/ \E byte, otherByte \in Bytes : ProcessByte(byte, otherByte)

Spec == Init /\ [][Next]_vars

-----------------------------------------------------------------------------
(* The table-driven code computes what the bitwise one does, for every width,  *)
(* polynomial and combination of reflections, after any bytes, also when the   *)
(* registers are wider than the code (crc.hpp:486-534, 707-802, 953-1012):     *)
(* the number of a method does not depend on the way it is computed.           *)
ChecksumsAgree ==
  /\ OptimalChecksum(optimal) = BasicChecksum
  /\ SigBits(ReflectIf(type.reflectIn, Bits, optimal)) = SigBits(basic)

(* Names of one length that differ in four neighbouring bytes at most, as many *)
(* as the code has, never get the same checksum, whatever follows              *)
(* (crc.hpp:953-970): methods such as get1 and get2 of one service get         *)
(* different hashes, although not different numbers.                           *)
NearNamesDiffer ==
  since # 0 /\ 0 \in type.poly => OptimalChecksum(optimal) # OptimalChecksum(other)

(* augmented_crc over a message that is followed by as many zero bits as the   *)
(* code has is the plain checksum of the message (crc.hpp:1042-1081).          *)
AugmentedAgrees ==
  LET flushed[k \in 0 .. Window] ==
        IF k = 0 THEN augmented ELSE AugmentedByte(flushed[k - 1], {})
      plain == ~type.reflectIn /\ ~type.reflectRem /\ type.final = {} /\ type.init = {}
  IN  didInit /\ plain /\ Bits = Window * CharBit =>
        SigBits(flushed[Window]) = BasicChecksum

=============================================================================
