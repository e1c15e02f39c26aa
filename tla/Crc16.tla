-------------------------------- MODULE Crc16 -------------------------------
(***************************************************************************)
(* crc16_update of common/src/nros_stream_parser.c.                        *)
(***************************************************************************)
EXTENDS Integers, Bitwise, SequencesExt

Crc16Poly == 4129       \* NROS_CRC16_POLY, 0x1021
Crc16Init == 65535      \* NROS_CRC16_INIT, 0xFFFF

\* One turn of the loop over the bits of a byte.
Crc16Shift(crc) ==
    IF crc >= 32768 THEN ((2 * crc) % 65536) ^^ Crc16Poly ELSE 2 * crc

\* A byte that is added after the shifts instead of before.
Crc16Update_NoShift(crc, byte) == crc ^^ byte

Crc16Update(crc, byte) ==
    FoldLeft(LAMBDA c, i : Crc16Shift(c), crc ^^ (256 * byte), <<1, 2, 3, 4, 5, 6, 7, 8>>)
=============================================================================
