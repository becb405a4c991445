-------------------------------- MODULE XidOps --------------------------------
(***************************************************************************)
(* The bit operations of src/XIA-Poptrie/xid_operations.c (the other       *)
(* directories have copies of the file): an XID is an array of bytes, and  *)
(* shifts work byte by byte in place, so that the order in which the bytes *)
(* are visited matters.                                                    *)
(***************************************************************************)
EXTENDS Integers

CONSTANTS HexXid,   \* bytes of an XID (20 in the code)
          Byte,     \* bits of a byte (8)
          Word      \* bytes of a uint32_t (4)

ASSUME XidAssumption == HexXid \in Nat \ {0, 1} /\ Byte \in Nat \ {0} /\ Word \in 1 .. HexXid

(* 1 << n *)
Pow2[n \in Nat] == IF n = 0 THEN 1 ELSE 2 * Pow2[n - 1]

Bits == HexXid * Byte
Base == Pow2[Byte]
Xids == [0 .. (HexXid - 1) -> 0 .. (Base - 1)]
Zero == [n \in 0 .. (HexXid - 1) |-> 0]

(* One assignment of the last loops: the bits that stay in the byte and    *)
(* those that its neighbour, if there is one, hands over.                  *)
LeftAt(w, n, s) ==
  ((w[n] * Pow2[s]) % Base)
    + (IF n = HexXid - 1 THEN 0 ELSE w[n + 1] \div Pow2[Byte - s])
RightAt(w, n, s) ==
  (w[n] \div Pow2[s])
    + (IF n = 0 THEN 0 ELSE (w[n - 1] * Pow2[Byte - s]) % Base)

BytesLeft(w, m) == [n \in DOMAIN w |-> IF n + m < HexXid THEN w[n + m] ELSE 0]
BytesRight(w, m) == [n \in DOMAIN w |-> IF n >= m THEN w[n - m] ELSE 0]

(* The last loops, over m bytes: the first from byte 0 upwards, the second *)
(* from the last byte downwards.  after[k] is the XID after k assignments. *)
BitsLeft(w, m, s) ==
  LET after[k \in 0 .. m] ==
        IF k = 0 THEN w
        ELSE LET v == after[k - 1] IN [v EXCEPT ![k - 1] = LeftAt(v, k - 1, s)]
  IN after[m]

BitsRightUpwards(w, m, s) ==   \* deviation: the first of the bytes comes first
  LET after[k \in 0 .. m] ==
        IF k = 0 THEN w
        ELSE LET v == after[k - 1]
                 n == HexXid - m + k - 1
             IN [v EXCEPT ![n] = RightAt(v, n, s)]
  IN after[m]
BitsRight(w, m, s) ==
  LET after[k \in 0 .. m] ==
        IF k = 0 THEN w
        ELSE LET v == after[k - 1] IN [v EXCEPT ![HexXid - k] = RightAt(v, HexXid - k, s)]
  IN after[m]

shift_left(w, s) ==
  IF s >= Bits THEN Zero
  ELSE BitsLeft(BytesLeft(w, s \div Byte), HexXid - s \div Byte, s % Byte)

shift_right(w, s) ==
  IF s >= Bits THEN Zero
  ELSE BitsRight(BytesRight(w, s \div Byte), HexXid - s \div Byte, s % Byte)

extractXID(pos, length, w) == shift_right(shift_left(w, pos), Bits - length)
removeXID(bits, w) == shift_right(shift_left(w, bits), bits)

(* The number that the first k bytes from byte m on stand for.             *)
Value(w, m) ==
  LET value[k \in 0 .. (HexXid - m)] ==
        IF k = 0 THEN 0 ELSE value[k - 1] * Base + w[m + k - 1]
  IN value

(* The number an XID stands for; XIDtounsigned: that of the last bytes. *)
Number(w) == Value(w, 0)[HexXid]
XIDtounsigned(w) == Value(w, HexXid - Word)[Word]
=============================================================================
