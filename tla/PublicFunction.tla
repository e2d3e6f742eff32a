--------------------------- MODULE PublicFunction ---------------------------
(***************************************************************************)
(* The helpers of public_function.cpp.  get_bcc_data, GenerateCRC32,       *)
(* tohex and DecTo2Hex are functions, compared with reference definitions  *)
(* over bounded inputs.  AsciiStrToBcd is a loop whose counter is an       *)
(* unsigned char while its bound is an int, and so is a state machine.     *)
(* A 32-bit word is a sequence of bits, the most significant one first.    *)
(***************************************************************************)
EXTENDS Integers, Sequences, SequencesExt, Bitwise

CONSTANTS Byte,     \* the byte values that data is made of
          Lens,     \* the values of the parameter len of AsciiStrToBcd
          CharBits  \* the width of an unsigned char

VARIABLES data,   \* a data buffer of two words
          len,    \* the parameter len, after it was made even
          k,      \* the loop counter of AsciiStrToBcd
          m,      \* bytes written to outbuf
          done    \* the loop has ended

vars == <<data, len, k, m, done>>

-----------------------------------------------------------------------------
(* Checksums                                                               *)

(* The exclusive or of all bytes.                                          *)
get_bcc_data(bytes) == FoldLeft(LAMBDA x, y : x ^^ y, 0, bytes)

Bits(byte) == [i \in 1 .. 8 |-> (byte \div 2 ^ (8 - i)) % 2]

(* The first byte is the most significant one.                             *)
byte_int(bytes) == FlattenSeq([i \in DOMAIN bytes |-> Bits(bytes[i])])

WordXor(v, w) == [i \in DOMAIN v |-> (v[i] + w[i]) % 2]
ShiftLeft(w) == Append(Tail(w), 0)

Polynomial == byte_int(<<4, 193, 29, 183>>)     \* 0x04C11DB7

(* One round of the inner loop, for one bit of temp.                       *)
CrcRound(crc, bit) ==
    IF (crc[1] + bit) % 2 = 1 THEN WordXor(Polynomial, ShiftLeft(crc))
                              ELSE ShiftLeft(crc)

(* In the last word a byte 0xcd, which a debugging heap puts into fresh    *)
(* memory, counts as zero, and is set to zero in the caller's buffer.      *)
Padded(bytes) ==
    [i \in DOMAIN bytes |->
        IF i > Len(bytes) - 4 /\ bytes[i] = 205 THEN 0 ELSE bytes[i]]

GenerateCRC32(bytes) ==
    FoldLeft(CrcRound, [i \in 1 .. 32 |-> 1], byte_int(Padded(bytes)))

(* tohex: the value of a hexadecimal digit given by its code, "=" counting *)
(* as D, and 0 for anything else.                                          *)
tohex(c) ==
    CASE c \in 48 .. 57 -> c - 48
      [] c = 61 -> 13
      [] c \in 65 .. 70 -> c - 55
      [] c \in 97 .. 102 -> c - 87
      [] OTHER -> 0

(* Mutant of Pack: the first digit is not shifted.                          *)
Mutant_pack_lower(c1, c2) == tohex(c1) + tohex(c2)

(* The body of AsciiStrToBcd's loop: two digits make a byte.               *)
Pack(c1, c2) == tohex(c1) * 16 + tohex(c2)

(* Two bytes, the high one first; dec keeps its low 16 bits.               *)
DecTo2Hex(dec) == <<(dec \div 256) % 256, dec % 256>>

-----------------------------------------------------------------------------
(* AsciiStrToBcd                                                           *)

Wrap(n) == n % 2 ^ CharBits

Init ==
    /\ \E first, fifth, last \in Byte :
          data = [i \in 1 .. 8 |-> IF i = 5 THEN fifth ELSE IF i = 8 THEN last ELSE first]
    /\ \E l \in Lens : len = IF l % 2 # 0 THEN l + 1 ELSE l
    /\ k = 0 /\ m = 0
    /\ done = FALSE

(* Two characters make a byte; k is advanced in the body and by the for.   *)
bcd_round ==
    /\ ~done
    /\ k < len
    /\ m' = Wrap(m + 1)
    /\ k' = Wrap(k + 2)
    /\ UNCHANGED <<data, len, done>>

bcd_end ==
    /\ ~done
    /\ k >= len
    /\ done' = TRUE
    /\ UNCHANGED <<data, len, k, m>>

Next == bcd_round \/ bcd_end

Spec == Init /\ [][Next]_vars
-----------------------------------------------------------------------------
(* Properties                                                              *)

(* A message followed by its check byte has the check byte 0, and bytes    *)
(* that change places do not change it (public_function.cpp:18-26).        *)
BccIsCheckByte ==
    /\ get_bcc_data(Append(data, get_bcc_data(data))) = 0
    /\ get_bcc_data(Reverse(data)) = get_bcc_data(data)

(* The remainder of the message, its first 32 bits inverted and 32 zero    *)
(* bits appended, under division by x^32 + Polynomial.                     *)
Remainder(bytes) ==
    LET msg == byte_int(bytes)
        inverted == [i \in 1 .. Len(msg) + 32 |->
                       CASE i <= 32 -> 1 - msg[i]
                         [] i > Len(msg) -> 0
                         [] OTHER -> msg[i]]
        step(r, i) ==
            IF r[i] = 0 THEN r
            ELSE [j \in DOMAIN r |->
                    IF j = i THEN 0
                    ELSE IF j \in i + 1 .. i + 32
                         THEN (r[j] + Polynomial[j - i]) % 2
                         ELSE r[j]]
        divided == FoldLeft(step, inverted, [i \in 1 .. Len(msg) |-> i])
    IN  SubSeq(divided, Len(msg) + 1, Len(msg) + 32)

(* GenerateCRC32 is the CRC of the message, by long division, if its last  *)
(* word has no byte 0xcd; a message that has one gets the sum of the one   *)
(* with zeros in their place, so that it is not the CRC that the comment   *)
(* names (public_function.cpp:28-93).                                      *)
CrcIsRemainder ==
    k = 0 =>
        /\ (\A i \in 5 .. 8 : data[i] # 205) => GenerateCRC32(data) = Remainder(data)
        /\ GenerateCRC32(data) = Remainder(Padded(data))

HexDigit(n) == IF n < 10 THEN n + 48 ELSE n + 87

(* A byte is recovered from its two hexadecimal digits, and the low 16     *)
(* bits of a number from its two bytes                                     *)
(* (public_function.cpp:104-120, 133-137, 150-154).                        *)
ConversionsInvert ==
    /\ \A i \in DOMAIN data :
          Pack(HexDigit(data[i] \div 16), HexDigit(data[i] % 16)) = data[i]
    /\ \A high \in {0, 1, 255} :
          DecTo2Hex(high * 65536 + data[1] * 256 + data[5])
              = <<data[1], data[5]>>

(* A conversion writes one byte for every two characters, an odd last one *)
(* counting as two, and ends; but not that of 255 characters, a length     *)
(* that the comment allows: an unsigned char is never 256                  *)
(* (public_function.cpp:96-140).                                           *)
BcdSize ==
    /\ done => m = len \div 2
    /\ IF len < 2 ^ CharBits THEN k <= len /\ m = k \div 2 ELSE ~done

=============================================================================
