------------------------- MODULE BridgeCodecProofs -------------------------
(***************************************************************************)
(* The sign conversions of the bridge's codecs lose nothing: a uint8 byte *)
(* memcpy'd into a jbyte and masked back with & 0xff is the same byte,    *)
(* and a status code or gas count converted to the unsigned type of its   *)
(* width and read back into the signed one is the same value. These are  *)
(* the steps of encode_result and parse_result around write_int,          *)
(* write_long, read_int and read_long.                                     *)
(*                                                                         *)
(* The provers know no facts of 2^k for a variable k, so the width lemma  *)
(* takes the two facts it needs of 2^(8n) as hypotheses, and is then      *)
(* used at read_int's width, 4 bytes (uint32_t), where the powers are    *)
(* computed. The provers do not evaluate 2^64, so the 8-byte instance of *)
(* read_long stays with TLC's runs.                                        *)
(***************************************************************************)
EXTENDS BridgeCodec, TLAPS

JBytes == -128..127
UBytes == 0..255

\* A uint8 byte stored into a jbyte and masked with & 0xff is unchanged,
\* and every jbyte is the image of the byte it masks to.
LEMMA ByteRoundTrip ==
    /\ \A u \in UBytes : S8(u) \in JBytes /\ U8(S8(u)) = u
    /\ \A b \in JBytes : U8(b) \in UBytes /\ S8(U8(b)) = b
<1>1. ASSUME NEW u \in UBytes PROVE S8(u) \in JBytes /\ U8(S8(u)) = u
  <2>1. CASE u > 127
    BY <2>1 DEF S8, U8, UBytes, JBytes
  <2>2. CASE ~(u > 127)
    BY <2>2 DEF S8, U8, UBytes, JBytes
  <2> QED BY <2>1, <2>2
<1>2. ASSUME NEW b \in JBytes PROVE U8(b) \in UBytes /\ S8(U8(b)) = b
  <2>1. CASE b < 0
    <3>1. U8(b) = b + 256
      BY <2>1 DEF U8, JBytes
    <3> QED BY <2>1, <3>1 DEF S8, UBytes, JBytes
  <2>2. CASE b >= 0
    <3>1. U8(b) = b
      BY <2>2 DEF U8, JBytes
    <3> QED BY <2>2, <3>1 DEF S8, UBytes, JBytes
  <2> QED BY <2>1, <2>2 DEF JBytes
<1> QED BY <1>1, <1>2

\* Converting a value of the signed n-byte type to the unsigned one and
\* back gives it back, and the reverse for the unsigned type, for a width
\* whose powers P = 2^(8n-1) and 2^(8n) = 2P are given.
LEMMA SignRoundTrip ==
    ASSUME NEW n, NEW P \in Nat \ {0}, Pow2(8 * n - 1) = P, Pow2(8 * n) = 2 * P
    PROVE  /\ \A x \in -P..(P - 1) : /\ ToUnsigned(x, n) \in 0..(2 * P - 1)
                                      /\ ToSigned(ToUnsigned(x, n), n) = x
           /\ \A u \in 0..(2 * P - 1) : /\ ToSigned(u, n) \in -P..(P - 1)
                                         /\ ToUnsigned(ToSigned(u, n), n) = u
<1>1. ASSUME NEW x \in -P..(P - 1)
      PROVE  ToUnsigned(x, n) \in 0..(2 * P - 1) /\ ToSigned(ToUnsigned(x, n), n) = x
  <2>1. CASE x < 0
    <3>1. ToUnsigned(x, n) = x + 2 * P
      BY <2>1 DEF ToUnsigned
    <3> QED BY <2>1, <3>1 DEF ToSigned
  <2>2. CASE x >= 0
    <3>1. ToUnsigned(x, n) = x
      BY <2>2 DEF ToUnsigned
    <3> QED BY <2>2, <3>1 DEF ToSigned
  <2> QED BY <2>1, <2>2
<1>2. ASSUME NEW u \in 0..(2 * P - 1)
      PROVE  ToSigned(u, n) \in -P..(P - 1) /\ ToUnsigned(ToSigned(u, n), n) = u
  <2>1. CASE u >= P
    <3>1. ToSigned(u, n) = u - 2 * P
      BY <2>1 DEF ToSigned
    <3> QED BY <2>1, <3>1 DEF ToUnsigned
  <2>2. CASE u < P
    <3>1. ToSigned(u, n) = u
      BY <2>2 DEF ToSigned
    <3> QED BY <2>2, <3>1 DEF ToUnsigned
  <2> QED BY <2>1, <2>2
<1> QED BY <1>1, <1>2

\* encode_result's status code, an int32 written by write_int, comes back
\* unchanged from parse_result's conversion of the uint32 read_int
\* returns, and every uint32 read_int returns is the image of the int32
\* the field holds.
THEOREM IntRoundTrip ==
    /\ \A x \in -(2^31)..(2^31 - 1) :
           /\ ToUnsigned(x, 4) \in 0..(2^32 - 1)
           /\ ToSigned(ToUnsigned(x, 4), 4) = x
    /\ \A u \in 0..(2^32 - 1) : ToUnsigned(ToSigned(u, 4), 4) = u
<1>1. Pow2(8 * 4 - 1) = 2^31 /\ Pow2(8 * 4) = 2 * 2^31 /\ 2^31 \in Nat \ {0}
      /\ 2^32 = 2 * 2^31
  BY DEF Pow2
<1> QED BY <1>1, SignRoundTrip
=============================================================================
