----------------------------- MODULE BridgeCodec -----------------------------
(***************************************************************************)
(* The byte codecs of the native bridge (src/jni/org_aion_fastvm_        *)
(* FastVM.cpp): read_int/read_long/write_int/write_long over Java's      *)
(* signed jbytes, and the layouts parse_context, encode_message,         *)
(* parse_result and encode_result read and write.                        *)
(*                                                                         *)
(* A buffer is a sequence of jbytes (-128..127); the engine's byte       *)
(* fields (addresses, words, input, output) are sequences of uint8. The  *)
(* Java side is not in this repository: the context buffer it builds and *)
(* its decoding of an encoded message follow the specification's binary *)
(* layouts (big-endian, fixed widths). Each pipeline takes one value     *)
(* through one encoder and the matching decoder.                         *)
(***************************************************************************)
EXTENDS Integers, Sequences

CONSTANTS
    AddrLen,    \* bytes of an address, 32 in the code
    WordLen,    \* bytes of a word (value, gas price, difficulty), 16
    IntLen,     \* bytes read_int/write_int move, 4 (uint32_t)
    LongLen,    \* bytes read_long/write_long move, 8 (uint64_t)
    Messages,   \* evm_message values the engine passes to call
    Results,    \* evm_result values the engine returns
    Contexts,   \* the fields the Java host puts in a context buffer
    None        \* no output yet

ASSUME CodecAssumption ==
    /\ {AddrLen, WordLen, IntLen, LongLen} \subseteq Nat \ {0}
    /\ None \notin Messages \cup Results \cup Contexts

(***************************************************************************)
(* Integer and byte conversions.                                           *)
(***************************************************************************)
Pow2(n) == 2^n

\* b & 0xff on a jbyte promoted to int: the byte's unsigned value.
U8(b) == b % 256

\* An unsigned byte stored into a jbyte (modular on every target the code
\* is built for).
S8(u) == IF u > 127 THEN u - 256 ELSE u

\* An n-byte unsigned value read back into the signed type of that width.
ToSigned(u, n) == IF u >= Pow2(8 * n - 1) THEN u - Pow2(8 * n) ELSE u

\* A signed or wider value converted to the n-byte unsigned type.
ToUnsigned(x, n) == x % Pow2(8 * n)

\* uint8 bytes copied (memcpy) into a jbyte buffer, and back.
ToJBytes(s) == [k \in 1..Len(s) |-> S8(s[k])]
ToUBytes(s) == [k \in 1..Len(s) |-> U8(s[k])]

\* Mutant: the & 0xff is dropped; a negative jbyte is added sign-extended.
ReadUIntNoMask(b, off, n) ==
    LET ret[k \in 0..n] ==
            IF k = 0 THEN 0
            ELSE ((ret[k - 1] % Pow2(8 * (n - 1))) * 256 + b[off + k]) % Pow2(8 * n)
    IN  ret[n]

\* read_int (n = IntLen) and read_long (n = LongLen) at byte offset off:
\* shift the accumulator left a byte (dropping its top byte, as << 8 does
\* in the n-byte unsigned type) and add the next byte & 0xff (lines
\* 261-277).
ReadUInt(b, off, n) ==
    LET ret[k \in 0..n] ==
            IF k = 0 THEN 0
            ELSE ((ret[k - 1] % Pow2(8 * (n - 1))) * 256 + U8(b[off + k])) % Pow2(8 * n)
    IN  ret[n]

\* Mutant: b[i] for b[3 - i]; the bytes come out little-endian.
WriteUIntLE(num, n) == [k \in 1..n |-> S8((num \div Pow2(8 * (k - 1))) % 256)]

\* write_int and write_long: byte n-1-i is (num >> 8i) & 0xff
\* (lines 283-296).
WriteUInt(num, n) == [k \in 1..n |-> S8((num \div Pow2(8 * (n - k))) % 256)]

\* The bytes of b after offset off, len of them.
Slice(b, off, len) == [k \in 1..len |-> b[off + k]]

(***************************************************************************)
(* The layouts.                                                            *)
(***************************************************************************)
\* encode_message: address, caller, gas, value, input size, input, depth,
\* kind, flags, in a buffer of `size` bytes (lines 330-354).
EncodeMessage(msg) ==
    LET size == ToUnsigned(2 * AddrLen + LongLen + WordLen + IntLen
                           + Len(msg.input) + 3 * IntLen, IntLen)
        buf  == ToJBytes(msg.address) \o ToJBytes(msg.caller)
                \o WriteUInt(ToUnsigned(msg.gas, LongLen), LongLen)
                \o ToJBytes(msg.value)
                \o WriteUInt(ToUnsigned(Len(msg.input), IntLen), IntLen)
                \o ToJBytes(msg.input)
                \o WriteUInt(ToUnsigned(msg.depth, IntLen), IntLen)
                \o WriteUInt(msg.kind, IntLen) \o WriteUInt(msg.flags, IntLen)
    IN  SubSeq(buf, 1, size)

\* encode_result: status code, gas left, output size, output (lines
\* 373-391).
EncodeResult(res) ==
    LET size == ToUnsigned(IntLen + LongLen + IntLen + Len(res.output), IntLen)
        buf  == WriteUInt(ToUnsigned(res.status, IntLen), IntLen)
                \o WriteUInt(ToUnsigned(res.gas, LongLen), LongLen)
                \o WriteUInt(ToUnsigned(Len(res.output), IntLen), IntLen)
                \o ToJBytes(res.output)
    IN  SubSeq(buf, 1, size)

\* Mutant: the output is read without skipping the output size field.
ParseResultNoSizeSkip(p) ==
    LET o == IntLen + LongLen
    IN  [status |-> ToSigned(ReadUInt(p, 0, IntLen), IntLen),
         gas    |-> ToSigned(ReadUInt(p, IntLen, LongLen), LongLen),
         output |-> ToUBytes(Slice(p, o, ReadUInt(p, o, IntLen)))]

\* parse_result: the status cast to the (int) enum, gas_left from the
\* unsigned read, and output_size bytes copied by alloc_and_copy (lines
\* 44-49, 357-370).
ParseResult(p) ==
    LET o == IntLen + LongLen
    IN  [status |-> ToSigned(ReadUInt(p, 0, IntLen), IntLen),
         gas    |-> ToSigned(ReadUInt(p, IntLen, LongLen), LongLen),
         output |-> ToUBytes(Slice(p, o + IntLen, ReadUInt(p, o, IntLen)))]

\* parse_context: the message and transaction-context fields at their
\* offsets, skipping the gas price; msg->input points into the buffer
\* (lines 301-326).
ParseContext(b) ==
    LET g    == 3 * AddrLen + WordLen
        s    == g + LongLen + WordLen
        size == ReadUInt(b, s, IntLen)
        o    == s + IntLen + size
        c    == o + 3 * IntLen
        n    == c + AddrLen
    IN  [address    |-> ToUBytes(Slice(b, 0, AddrLen)),
         origin     |-> ToUBytes(Slice(b, AddrLen, AddrLen)),
         caller     |-> ToUBytes(Slice(b, 2 * AddrLen, AddrLen)),
         gas        |-> ToSigned(ReadUInt(b, g, LongLen), LongLen),
         value      |-> ToUBytes(Slice(b, g + LongLen, WordLen)),
         input      |-> ToUBytes(Slice(b, s + IntLen, size)),
         depth      |-> ToSigned(ReadUInt(b, o, IntLen), IntLen),
         kind       |-> ReadUInt(b, o + IntLen, IntLen),
         flags      |-> ReadUInt(b, o + 2 * IntLen, IntLen),
         coinbase   |-> ToUBytes(Slice(b, c, AddrLen)),
         number     |-> ToSigned(ReadUInt(b, n, LongLen), LongLen),
         timestamp  |-> ToSigned(ReadUInt(b, n + LongLen, LongLen), LongLen),
         gasLimit   |-> ToSigned(ReadUInt(b, n + 2 * LongLen, LongLen), LongLen),
         difficulty |-> ToUBytes(Slice(b, n + 3 * LongLen, WordLen))]

(***************************************************************************)
(* The Java side, from the specification's layouts: a big-endian value is *)
(* the sum of its bytes' weights.                                          *)
(***************************************************************************)
BigEndian(s) ==
    LET acc[k \in 0..Len(s)] ==
            IF k = 0 THEN 0 ELSE acc[k - 1] + U8(s[k]) * Pow2(8 * (Len(s) - k))
    IN  acc[Len(s)]

\* n bytes of x, big-endian, two's complement.
BigEndianBytes(x, n) ==
    [k \in 1..n |-> S8((ToUnsigned(x, n) \div Pow2(8 * (n - k))) % 256)]

\* The host decoding an encoded message.
HostDecode(b) ==
    LET g    == 2 * AddrLen
        s    == g + LongLen + WordLen
        size == BigEndian(Slice(b, s, IntLen))
        o    == s + IntLen + size
    IN  [address |-> ToUBytes(Slice(b, 0, AddrLen)),
         caller  |-> ToUBytes(Slice(b, AddrLen, AddrLen)),
         gas     |-> ToSigned(BigEndian(Slice(b, g, LongLen)), LongLen),
         value   |-> ToUBytes(Slice(b, g + LongLen, WordLen)),
         input   |-> ToUBytes(Slice(b, s + IntLen, size)),
         depth   |-> ToSigned(BigEndian(Slice(b, o, IntLen)), IntLen),
         kind    |-> BigEndian(Slice(b, o + IntLen, IntLen)),
         flags   |-> BigEndian(Slice(b, o + 2 * IntLen, IntLen))]

\* The host building a context buffer.
HostContext(c) ==
    ToJBytes(c.address) \o ToJBytes(c.origin) \o ToJBytes(c.caller)
    \o BigEndianBytes(c.gasPrice, WordLen) \o BigEndianBytes(c.gas, LongLen)
    \o ToJBytes(c.value) \o BigEndianBytes(Len(c.input), IntLen)
    \o ToJBytes(c.input) \o BigEndianBytes(c.depth, IntLen)
    \o BigEndianBytes(c.kind, IntLen) \o BigEndianBytes(c.flags, IntLen)
    \o ToJBytes(c.coinbase) \o BigEndianBytes(c.number, LongLen)
    \o BigEndianBytes(c.timestamp, LongLen)
    \o BigEndianBytes(c.gasLimit, LongLen) \o ToJBytes(c.difficulty)

(***************************************************************************)
(* The pipelines: a value, the bytes on the wire, what the other side     *)
(* decodes.                                                                *)
(***************************************************************************)
VARIABLES value, wire, decoded

vars == <<value, wire, decoded>>

Init ==
    /\ value \in Messages \cup Results \cup Contexts
    /\ wire = <<>>
    /\ decoded = None

\* The call callback encodes the engine's message for the host.
CallEncode ==
    /\ value \in Messages /\ decoded = None /\ wire = <<>>
    /\ wire' = EncodeMessage(value)
    /\ UNCHANGED <<value, decoded>>

HostDecodeMessage ==
    /\ value \in Messages /\ decoded = None /\ wire # <<>>
    /\ decoded' = HostDecode(wire)
    /\ UNCHANGED <<value, wire>>

\* run encodes the engine's result; the host hands the same layout back
\* as the reply of a nested call, which call parses.
RunEncode ==
    /\ value \in Results /\ decoded = None /\ wire = <<>>
    /\ wire' = EncodeResult(value)
    /\ UNCHANGED <<value, decoded>>

CallParseResult ==
    /\ value \in Results /\ decoded = None /\ wire # <<>>
    /\ decoded' = ParseResult(wire)
    /\ UNCHANGED <<value, wire>>

\* The host builds a context buffer; run parses it.
HostBuildContext ==
    /\ value \in Contexts /\ decoded = None /\ wire = <<>>
    /\ wire' = HostContext(value)
    /\ UNCHANGED <<value, decoded>>

RunParseContext ==
    /\ value \in Contexts /\ decoded = None /\ wire # <<>>
    /\ decoded' = ParseContext(wire)
    /\ UNCHANGED <<value, wire>>

Next ==
    \/ CallEncode \/ HostDecodeMessage
    \/ RunEncode \/ CallParseResult
    \/ HostBuildContext \/ RunParseContext

Spec == Init /\ [][Next]_vars

(***************************************************************************)
(* Properties.                                                             *)
(***************************************************************************)
\* The specification's round trip (property 15): a message encode_message
\* writes decodes, per the layout, to the engine's address, caller, gas,
\* value, input, depth, kind and flags.
MessageRoundTrip ==
    value \in Messages /\ decoded # None => decoded = value

\* The result run encodes parses back (as call's reply) to the status,
\* the signed gas left and the output bytes it was made from.
ResultRoundTrip ==
    value \in Results /\ decoded # None => decoded = value

\* parse_context recovers every field of the host's context buffer it
\* stores: the message fields, origin and the block fields (the gas price
\* it skips is the subject of the bridge's gas-price finding).
ContextParsed ==
    value \in Contexts /\ decoded # None =>
        decoded = [f \in DOMAIN value \ {"gasPrice"} |-> value[f]]
=============================================================================
