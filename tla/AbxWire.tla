------------------------------ MODULE AbxWire ------------------------------
(***************************************************************************)
(* The wire format of Android Binary XML (src/wire.rs): the header, the    *)
(* token bytes and the 16-bit fields.                                      *)
(*                                                                         *)
(* A token byte holds a command in its low nibble and a value type in its  *)
(* high nibble.  Lengths and pool indices are two bytes, most significant  *)
(* first.  The base of those two digits is the constant Radix: 256 in the  *)
(* code; a smaller one gives a format with the same shape whose limits     *)
(* (65,534 pool entries, 65,535 bytes of payload) come within TLC's reach. *)
(***************************************************************************)
EXTENDS Naturals, Sequences

CONSTANT Radix

ASSUME RadixAssumption == Radix \in 2..256

Byte == 0..255

\* A string or a blob is the sequence of its bytes.
Bytes == Seq(Byte)
MAX_UNSIGNED_SHORT == (Radix * Radix) - 1   \* the longest of a payload

MAGIC == <<65, 66, 88, 0>>

CMD_START_DOCUMENT         == 0
CMD_END_DOCUMENT           == 1
CMD_START_TAG              == 2
CMD_END_TAG                == 3
CMD_TEXT                   == 4
CMD_CDSECT                 == 5
CMD_ENTITY_REF             == 6
CMD_IGNORABLE_WHITESPACE   == 7
CMD_PROCESSING_INSTRUCTION == 8
CMD_COMMENT                == 9
CMD_DOCDECL                == 10
CMD_ATTRIBUTE              == 15

TYPE_NULL            == 16
TYPE_STRING          == 32
TYPE_STRING_INTERNED == 48
TYPE_BYTES_HEX       == 64
TYPE_BYTES_BASE64    == 80
TYPE_INT             == 96
TYPE_INT_HEX         == 112
TYPE_LONG            == 128
TYPE_LONG_HEX        == 144
TYPE_FLOAT           == 160
TYPE_DOUBLE          == 176
TYPE_BOOLEAN_TRUE    == 192
TYPE_BOOLEAN_FALSE   == 208

\* The commands that carry one optional string.
TextCommands == CMD_TEXT..CMD_DOCDECL

BlobTypes    == {TYPE_BYTES_HEX, TYPE_BYTES_BASE64}
NoBytesTypes == {TYPE_NULL, TYPE_BOOLEAN_TRUE, TYPE_BOOLEAN_FALSE}
FourByteTypes  == {TYPE_INT, TYPE_INT_HEX, TYPE_FLOAT}
EightByteTypes == {TYPE_LONG, TYPE_LONG_HEX, TYPE_DOUBLE}

\* The types of a value in memory, AttributeValue's variants (event.rs): an
\* interned string is a string once it is read.
ValueTypes == NoBytesTypes \cup BlobTypes \cup {TYPE_STRING}
                \cup FourByteTypes \cup EightByteTypes

\* `token & 0x0F` and `token & 0xF0`.
Command(token)    == token % 16
TypeNibble(token) == token - (token % 16)

\* The largest value of a two-byte field: it marks a string that is new to the
\* pool, and it is the longest payload.
INTERNED_NEW == (Radix * Radix) - 1

\* A two-byte field read from its bytes, and written as them.
U16(hi, lo)  == (hi % Radix) * Radix + (lo % Radix)
U16Bytes(n)  == <<(n \div Radix) % Radix, n % Radix>>
=============================================================================
