----------------------------- MODULE PacketUtil -----------------------------
(* The length in front of every packet (PacketUtil.h): four bytes, the most *)
(* significant first.                                                       *)
EXTENDS Integers

Byte == 0..255

(* __int32. *)
Int32 == ((-128) * 2^24)..(127 * 2^24 + 2^24 - 1)

(* Shifts of a negative value keep its sign, as \div does. *)
Int32ToByteArr(value) ==
  <<(value \div 2^24) % 256, (value \div 2^16) % 256, (value \div 2^8) % 256, value % 256>>

(* The first byte holds the sign. *)
ByteArrToInt32(bytes) ==
  (IF bytes[1] >= 128 THEN bytes[1] - 256 ELSE bytes[1]) * 2^24
    + bytes[2] * 2^16 + bytes[3] * 2^8 + bytes[4]
=============================================================================
