------------------------------- MODULE Engine -------------------------------
(***************************************************************************)
(* The execution engine's behavioural contract for the AION revision      *)
(* (specification, section 4.2). The engine (evmjit) is a native library  *)
(* outside this repository, so every definition here is modelled from the *)
(* specification; the conformance suite (Suite.tla) drives it through the *)
(* mock host (MockHost.tla).                                               *)
(*                                                                         *)
(* One frame executes at a time: the mock host answers a nested call      *)
(* itself and never re-enters the engine. A Word is a 16-tuple of bytes.  *)
(* A byte the model does not compute (a digest, a product too wide for    *)
(* TLC's integers, a host reply no assertion reads) is Unknown; a step    *)
(* whose control depends on an Unknown byte is never enabled, so a test   *)
(* that reached one would never finish (SuiteCompletes rules that out).   *)
(***************************************************************************)
EXTENDS Integers, Sequences, FiniteSets

CONSTANT LiteralSchedule  \* TRUE: the CALL, CALLCODE and SELFDESTRUCT costs as 4.2 words them

ASSUME LiteralScheduleAssumption == LiteralSchedule \in BOOLEAN

VARIABLE frame

\* The gas schedule of section 4.2.
G == [zero |-> 0, base |-> 1, verylow |-> 1, low |-> 1, mid |-> 1, high |-> 1,
      jumpdest |-> 1, extcode |-> 1000, balance |-> 1000, sload |-> 1000,
      blockhash |-> 20, sset |-> 20000, sreset |-> 8000, selfdestruct |-> 5000,
      create |-> 200000, callBase |-> 1000, callValue |-> 15000,
      callStipend |-> 2300, callNewAccount |-> 25000, expBase |-> 1, expByte |-> 1,
      memoryWord |-> 1, logBase |-> 500, logDataByte |-> 20, logTopic |-> 500,
      sha3Base |-> 30, sha3Word |-> 6, copyWord |-> 3]

(***************************************************************************)
(* Words.                                                                  *)
(***************************************************************************)
Unknown == -1
Byte == 0..255
Word == [1..16 -> Byte \cup {Unknown}]
ZeroWord == [i \in 1..16 |-> 0]
UnknownWord == [i \in 1..16 |-> Unknown]
Known(w) == \A i \in 1..16 : w[i] # Unknown
IsZero(w) == \A i \in 1..16 : w[i] = 0
NonZero(w) == \E i \in 1..16 : w[i] \in 1..255

\* The word of the big-endian bytes s (at most 16), left-padded with zeros.
WordOf(s) == [i \in 1..16 |-> IF i > 16 - Len(s) THEN s[i - 16 + Len(s)] ELSE 0]

\* A word the model reads as a number: known, below 2^24.
Small(w) == Known(w) /\ \A i \in 1..13 : w[i] = 0
Num(w) == (w[14] * 256 + w[15]) * 256 + w[16]
NumWord(n) == WordOf(<<n \div 65536, (n \div 256) % 256, n % 256>>)
Flag(b) == IF b THEN NumWord(1) ELSE ZeroWord

\* Addition and subtraction modulo 2^128, byte by byte with the carry.
AddW(a, b) ==
    LET c[i \in 1..17] == IF i = 17 THEN 0 ELSE (a[i] + b[i] + c[i + 1]) \div 256
    IN  [i \in 1..16 |-> (a[i] + b[i] + c[i + 1]) % 256]
SubW(a, b) ==
    LET d[i \in 1..17] == IF i = 17 THEN 0 ELSE IF a[i] - b[i] - d[i + 1] < 0 THEN 1 ELSE 0
    IN  [i \in 1..16 |-> (a[i] - b[i] - d[i + 1] + 256) % 256]

\* Unsigned and two's-complement order of known words.
LtW(a, b) == \E i \in 1..16 : a[i] < b[i] /\ \A j \in 1..(i - 1) : a[j] = b[j]
Negative(w) == w[1] >= 128
SLtW(a, b) == IF Negative(a) = Negative(b) THEN LtW(a, b) ELSE Negative(a)

\* A bitwise operation on two bytes, bit by bit.
ByteOp(x, y, op(_, _)) ==
    LET s[k \in 0..8] == IF k = 8 THEN 0
                         ELSE op((x \div 2^k) % 2, (y \div 2^k) % 2) * 2^k + s[k + 1]
    IN  s[0]
BitwiseW(a, b, op(_, _)) == [i \in 1..16 |-> ByteOp(a[i], b[i], op)]

\* The number of significant bytes of a known word.
SigBytes(w) == IF IsZero(w) THEN 0
               ELSE 17 - (CHOOSE i \in 1..16 : w[i] # 0 /\ \A j \in 1..(i - 1) : w[j] = 0)

\* The result of a one- or two-operand arithmetic, comparison or bitwise
\* opcode on a (top) and b. Products, quotients and powers are computed
\* when the operands are small; the signed and modular forms otherwise
\* give an Unknown word.
Exact(a, b) == Small(a) /\ Small(b)
Arith(op, a, b) ==
    CASE op = \h01 /\ Known(a) /\ Known(b) -> AddW(a, b)
      [] op = \h03 /\ Known(a) /\ Known(b) -> SubW(a, b)
      [] op = \h02 /\ Exact(a, b) /\ Num(a) * Num(b) < 2^24 -> NumWord(Num(a) * Num(b))
      [] op \in {\h04, \h06} /\ Known(b) /\ IsZero(b) -> ZeroWord
      [] op = \h04 /\ Exact(a, b) -> NumWord(Num(a) \div Num(b))
      [] op = \h06 /\ Exact(a, b) -> NumWord(Num(a) % Num(b))
      [] op = \h0a /\ Known(b) /\ IsZero(b) -> NumWord(1)
      [] op = \h0a /\ Small(a) /\ Num(a) <= 1 -> a
      [] op = \h0a /\ Exact(a, b) /\ Num(a) < 256 /\ Num(b) <= 3 -> NumWord(Num(a) ^ Num(b))
      [] op \in {\h10, \h11, \h12, \h13, \h14} /\ Known(a) /\ Known(b) ->
            Flag(CASE op = \h10 -> LtW(a, b) [] op = \h11 -> LtW(b, a)
                   [] op = \h12 -> SLtW(a, b) [] op = \h13 -> SLtW(b, a)
                   [] op = \h14 -> a = b)
      [] op = \h15 /\ (Known(a) \/ NonZero(a)) -> Flag(IsZero(a))
      [] op = \h16 /\ Known(a) /\ Known(b) -> BitwiseW(a, b, LAMBDA x, y : x * y)
      [] op = \h17 /\ Known(a) /\ Known(b) -> BitwiseW(a, b, LAMBDA x, y : x + y - x * y)
      [] op = \h18 /\ Known(a) /\ Known(b) -> BitwiseW(a, b, LAMBDA x, y : (x + y) % 2)
      [] op = \h19 -> [i \in 1..16 |-> IF a[i] = Unknown THEN Unknown ELSE 255 - a[i]]
      [] op = \h1a /\ Small(a) -> IF Num(a) < 16 THEN WordOf(<<b[Num(a) + 1]>>) ELSE ZeroWord
      [] OTHER -> UnknownWord

(***************************************************************************)
(* The instruction set: opcode families and their stack arity, which the  *)
(* word model of 4.2 fixes (an address or a hash is two words).           *)
(***************************************************************************)
ArithOps   == {\h01, \h02, \h03, \h04, \h05, \h06, \h07, \h08, \h09, \h0a, \h0b,
               \h10, \h11, \h12, \h13, \h14, \h15, \h16, \h17, \h18, \h19, \h1a}
EnvOps     == {\h30, \h31, \h32, \h33, \h34, \h35, \h36, \h38, \h3a, \h3b, \h3d,
               \h40, \h41, \h42, \h43, \h44, \h45, \h58, \h59, \h5a}
CopyOps    == {\h37, \h39, \h3c, \h3e}
MemOps     == {\h51, \h52, \h53}
JumpOps    == {\h56, \h57, \h5b}
PushOps    == \h60..\h7f
DupOps     == \h80..\h8f
SwapOps    == \h90..\h9f
LogOps     == \ha0..\ha4
CallOps    == {\hf1, \hf2, \hf4, \hfa}
HaltOps    == {\h00, \hf3, \hfd}
Defined    == ArithOps \cup EnvOps \cup CopyOps \cup MemOps \cup JumpOps \cup PushOps
              \cup DupOps \cup SwapOps \cup LogOps \cup CallOps \cup HaltOps
              \cup {\h20, \h50, \h54, \h55, \hf0, \hff}

Arity(op) ==
    CASE op \in {\h15, \h19, \h35, \h40, \h50, \h51, \h54, \h56} -> 1
      [] op \in {\h08, \h09, \h37, \h39, \h3e, \hf0} -> 3
      [] op \in ArithOps \cup {\h20, \h31, \h3b, \h52, \h53, \h55, \h57, \hf3, \hfd, \hff} -> 2
      [] op = \h3c -> 5
      [] op \in DupOps -> op - \h7f
      [] op \in SwapOps -> op - \h8e
      [] op \in LogOps -> 2 + 2 * (op - \ha0)
      [] op \in {\hf1, \hf2} -> 8
      [] op \in {\hf4, \hfa} -> 7
      [] OTHER -> 0

\* The instruction widths and the JUMPDESTs that start an instruction.
Width(code, p) == IF code[p + 1] \in PushOps THEN code[p + 1] - \h5e ELSE 1
JumpDests(code) ==
    LET starts[p \in 0..(Len(code) + 33)] ==
            IF p >= Len(code) THEN {} ELSE {p} \cup starts[p + Width(code, p)]
    IN  {p \in starts[0] : code[p + 1] = \h5b}

(***************************************************************************)
(* A frame: the code and message it runs, and its running state.          *)
(***************************************************************************)
NewFrame(code, input, value, static, gas) ==
    [code |-> code, input |-> input, value |-> value, static |-> static,
     jd |-> JumpDests(code), pc |-> 0, stack |-> <<>>, mem |-> <<>>, hw |-> 0,
     gas |-> gas, rd |-> 0, status |-> "running"]

Op(f) == IF f.pc < Len(f.code) THEN f.code[f.pc + 1] ELSE \h00
\* The k-th word from the top of the stack.
A(f, k) == f.stack[Len(f.stack) - k + 1]

\* The memory ranges <<offset, size>> an instruction touches.
Ranges(f) ==
    LET op == Op(f) IN
    CASE op \in {\h20, \ha0, \ha1, \ha2, \ha3, \ha4, \hf3, \hfd} -> {<<A(f, 1), A(f, 2)>>}
      [] op \in {\h37, \h39, \h3e} -> {<<A(f, 1), A(f, 3)>>}
      [] op = \h3c -> {<<A(f, 3), A(f, 5)>>}
      [] op \in {\h51, \h52} -> {<<A(f, 1), NumWord(16)>>}
      [] op = \h53 -> {<<A(f, 1), NumWord(1)>>}
      [] op = \hf0 -> {<<A(f, 2), A(f, 3)>>}
      [] op \in {\hf1, \hf2} -> {<<A(f, 5), A(f, 6)>>, <<A(f, 7), A(f, 8)>>}
      [] op \in {\hf4, \hfa} -> {<<A(f, 4), A(f, 5)>>, <<A(f, 6), A(f, 7)>>}
      [] OTHER -> {}

\* Memory cost (4.2): f(w) = w*memory_word + floor(w*w/512), charged as the
\* difference between the new and the old high-water mark. A range ending
\* beyond MemCap bytes costs more than any budget of the suite (Huge).
MemCap == 2^20
Huge == 2^28
MemFn(w) == w * G.memoryWord + (w * w) \div 512
Touched(r) == Known(r[2]) /\ NonZero(r[2])
Fits(r) == Small(r[1]) /\ Small(r[2]) /\ Num(r[1]) + Num(r[2]) <= MemCap
EndWords(r) == (Num(r[1]) + Num(r[2]) + 31) \div 32
NewHW(f) ==
    LET ws == {EndWords(r) : r \in {r \in Ranges(f) : Touched(r) /\ Fits(r)}}
    IN  IF \E w \in ws : w > f.hw THEN CHOOSE w \in ws : \A v \in ws : v <= w ELSE f.hw
MemFee(f) ==
    IF \E r \in Ranges(f) : Touched(r) /\ ~Fits(r) THEN Huge
    ELSE MemFn(NewHW(f)) - MemFn(f.hw)

\* A per-word charge on a size operand.
PerWord(rate, size) == IF Small(size) THEN rate * ((Num(size) + 31) \div 32) ELSE Huge

\* The cost of the current instruction before any refund (4.2).
Cost(f) ==
    LET op == Op(f) IN
    MemFee(f) +
    CASE op \in HaltOps -> 0
      [] op \in {\h02, \h04, \h05, \h07, \h0b} -> G.low
      [] op \in {\h08, \h09} -> G.mid
      [] op = \h0a -> G.expBase + G.expByte * SigBytes(A(f, 2))
      [] op = \h20 -> G.sha3Base + PerWord(G.sha3Word, A(f, 2))
      [] op = \h31 -> G.balance
      [] op \in {\h3b, \h3c} -> G.extcode + (IF op = \h3c THEN PerWord(G.copyWord, A(f, 5)) ELSE 0)
      [] op \in {\h37, \h39, \h3e} -> G.verylow + PerWord(G.copyWord, A(f, 3))
      [] op = \h40 -> G.blockhash
      [] op \in EnvOps \cup {\h50} -> G.base
      [] op = \h54 -> G.sload
      [] op = \h56 -> G.mid
      [] op = \h57 -> G.high
      [] op = \h5b -> G.jumpdest
      [] op \in LogOps -> G.logBase + G.logTopic * (op - \ha0)
                          + (IF Small(A(f, 2)) THEN G.logDataByte * Num(A(f, 2)) ELSE Huge)
      [] op = \hf0 -> G.create
      [] op \in CallOps \cup {\h55} -> 0
      [] op = \hff -> G.selfdestruct + (IF LiteralSchedule THEN G.verylow ELSE 0)
      [] OTHER -> G.verylow

(***************************************************************************)
(* The host's answers an instruction's cost depends on: the word stored   *)
(* at an SSTORE's key (get_storage), and whether a call's target exists   *)
(* (account_exists).                                                       *)
(***************************************************************************)
Answer == [stored : Word, exists : BOOLEAN]

\* The value operand of CALL and CALLCODE is nonzero.
Valued(f) == Op(f) \in {\hf1, \hf2} /\ NonZero(A(f, 4))

\* A mutant of HostCost that forgets the call_value charge of a valued call.
HostCostNoValue(f, h) ==
    CASE Op(f) = \h55 -> IF IsZero(h.stored) /\ NonZero(A(f, 2)) THEN G.sset ELSE G.sreset
      [] Op(f) \in CallOps -> G.callBase
      [] OTHER -> 0

\* SSTORE: sset when the key goes from zero to non-zero, sreset otherwise.
\* CALL: call_base, call_value when valued, call_newaccount for a target
\* that does not exist (as the suite expects: only when valued); CALLCODE
\* as CALL but never call_newaccount; DELEGATECALL and STATICCALL only
\* call_base. LiteralSchedule reads "call_newaccount when the target does
\* not exist" for CALL and CALLCODE alike.
HostCost(f, h) ==
    CASE Op(f) = \h55 -> IF IsZero(h.stored) /\ NonZero(A(f, 2)) THEN G.sset ELSE G.sreset
      [] Op(f) \in CallOps ->
            G.callBase
            + (IF Valued(f) THEN G.callValue ELSE 0)
            + (IF /\ Op(f) \in {\hf1, \hf2} /\ ~h.exists
                  /\ (IF LiteralSchedule THEN TRUE ELSE Op(f) = \hf1 /\ Valued(f))
               THEN G.callNewAccount ELSE 0)
      [] OTHER -> 0
Charge(f, h) == Cost(f) + HostCost(f, h)

(***************************************************************************)
(* Failure (4.2): an undefined or INVALID opcode, stack underflow, a      *)
(* state change in a static frame, a charge beyond the gas left, a        *)
(* RETURNDATACOPY beyond the last call's output, or a jump to a byte that *)
(* is not a JUMPDEST starting an instruction.                              *)
(***************************************************************************)
StaticViolation(f) ==
    /\ f.static
    /\ \/ Op(f) \in {\h55, \hf0, \hff} \cup LogOps
       \/ Op(f) \in {\hf1, \hf2} /\ NonZero(A(f, 4))
RdOutOfRange(f) ==
    /\ Op(f) = \h3e
    /\ ~(Small(A(f, 2)) /\ Small(A(f, 3)) /\ Num(A(f, 2)) + Num(A(f, 3)) <= f.rd)
BadJump(f) ==
    \/ Op(f) = \h56 /\ Small(A(f, 1)) /\ Num(A(f, 1)) \notin f.jd
    \/ Op(f) = \h57 /\ NonZero(A(f, 2)) /\ Small(A(f, 1)) /\ Num(A(f, 1)) \notin f.jd
Faulty(f, h) ==
    \/ Op(f) \notin Defined
    \/ Len(f.stack) < Arity(Op(f))
    \/ /\ Op(f) \in Defined /\ Len(f.stack) >= Arity(Op(f))
       /\ \/ StaticViolation(f)
          \/ Charge(f, h) > f.gas
          \/ RdOutOfRange(f)
          \/ BadJump(f)

\* The words an instruction pops must be known where the cost or the
\* control flow depends on them (an underflow fails whatever they are).
Decidable(f) ==
    Len(f.stack) >= Arity(Op(f)) =>
    /\ Op(f) = \h0a => Known(A(f, 2))
    /\ Op(f) = \h56 => Small(A(f, 1))
    /\ Op(f) = \h57 => Known(A(f, 2)) /\ (NonZero(A(f, 2)) => Small(A(f, 1)))
    /\ \A r \in Ranges(f) : Known(r[2]) /\ (NonZero(r[2]) => Known(r[1]))
    /\ Op(f) \in {\hf1, \hf2} => Known(A(f, 2)) /\ Known(A(f, 4))
    /\ Op(f) \in {\h54, \h55} => \A i \in 14..16 : A(f, 1)[i] # Unknown
    /\ Op(f) = \h55 => Known(A(f, 2))
    /\ Op(f) = \h35 => Known(A(f, 1))

Running(f) == f.status = "running" /\ Decidable(f)

\* The frame after the current instruction: its operands popped, the words
\* pushed (the last one on top), the charge taken and memory grown.
Next1(f, pushed) ==
    [f EXCEPT !.pc = @ + 1,
              !.stack = SubSeq(@, 1, Len(@) - Arity(Op(f))) \o pushed,
              !.gas = @ - Cost(f),
              !.hw = NewHW(f)]

\* Memory: bytes written at an offset, and bytes read (unwritten read 0).
WriteMem(mem, off, bytes) ==
    [a \in DOMAIN mem \cup {off + i - 1 : i \in 1..Len(bytes)} |->
        IF a - off + 1 \in 1..Len(bytes) THEN bytes[a - off + 1] ELSE mem[a]]
ReadMem(mem, off, n) == [i \in 1..n |-> IF off + i - 1 \in DOMAIN mem THEN mem[off + i - 1] ELSE 0]
\* n bytes of data from src on, zero-filled past its end.
Slice(data, src, n) ==
    [i \in 1..n |-> IF Small(src) /\ Num(src) + i <= Len(data) THEN data[Num(src) + i] ELSE 0]

(***************************************************************************)
(* The steps that do not call the host. Each is enabled in a running      *)
(* frame whose current instruction belongs to its family and does not     *)
(* fail.                                                                   *)
(***************************************************************************)
NoAnswer == [stored |-> ZeroWord, exists |-> TRUE]

Ready(ops) ==
    /\ Running(frame)
    /\ Op(frame) \in ops
    /\ ~Faulty(frame, NoAnswer)

\* PUSH1..PUSH32: n code bytes, zero-padded past the end of the code; more
\* than 16 bytes are two words, the high word on top.
PushData(f) ==
    LET n == Op(f) - \h5f
    IN  [i \in 1..n |-> IF f.pc + 1 + i <= Len(f.code) THEN f.code[f.pc + 1 + i] ELSE 0]
PushWords(d) ==
    IF Len(d) <= 16 THEN <<WordOf(d)>>
    ELSE LET wide == [i \in 1..(32 - Len(d)) |-> 0] \o d
         IN  <<SubSeq(wide, 17, 32), SubSeq(wide, 1, 16)>>
Push ==
    /\ Ready(PushOps)
    /\ frame' = [Next1(frame, PushWords(PushData(frame))) EXCEPT !.pc = frame.pc + 1 + Len(PushData(frame))]

\* POP, DUPn, SWAPn.
StackOp ==
    /\ Ready({\h50} \cup DupOps \cup SwapOps)
    /\ LET f == frame
           n == Arity(Op(f))
       IN  frame' = Next1(f,
             CASE Op(f) = \h50 -> <<>>
               [] Op(f) \in DupOps -> [i \in 1..n |-> A(f, n + 1 - i)] \o <<A(f, n)>>
               [] OTHER -> [i \in 1..n |-> IF i = 1 THEN A(f, 1)
                                            ELSE IF i = n THEN A(f, n) ELSE A(f, n + 1 - i)])

\* Arithmetic, comparison and bitwise opcodes; SHA3's digest is not computed.
Compute ==
    /\ Ready(ArithOps \cup {\h20})
    /\ LET f == frame IN
       frame' = Next1(f, IF Op(f) = \h20 THEN <<UnknownWord, UnknownWord>>
                         ELSE <<Arith(Op(f), A(f, 1), IF Arity(Op(f)) = 1 THEN A(f, 1) ELSE A(f, 2))>>)

\* Environment reads. The message's value, the sizes, PC, MSIZE and GAS
\* (after its own charge) are computed; the transaction context, balances,
\* code sizes and block hashes are host replies no assertion reads.
Environment ==
    /\ Ready(EnvOps)
    /\ LET f == frame
           op == Op(f)
       IN  frame' = Next1(f,
             CASE op \in {\h30, \h32, \h33, \h40, \h41} -> <<UnknownWord, UnknownWord>>
               [] op = \h34 -> <<f.value>>
               [] op = \h35 -> <<WordOf(Slice(f.input, A(f, 1), 16))>>
               [] op = \h36 -> <<NumWord(Len(f.input))>>
               [] op = \h38 -> <<NumWord(Len(f.code))>>
               [] op = \h3d -> <<NumWord(f.rd)>>
               [] op = \h58 -> <<NumWord(f.pc)>>
               [] op = \h59 -> <<NumWord(f.hw * 32)>>
               [] op = \h5a -> <<NumWord(f.gas - Cost(f))>>
               [] OTHER -> <<UnknownWord>>)

\* CALLDATACOPY, CODECOPY, EXTCODECOPY, RETURNDATACOPY: the input and the
\* code zero-filled past their end; the other code and the returned data
\* are host replies whose bytes are not tracked.
Copy ==
    /\ Ready(CopyOps)
    /\ LET f == frame
           op == Op(f)
           dst == IF op = \h3c THEN A(f, 3) ELSE A(f, 1)
           src == IF op = \h3c THEN A(f, 4) ELSE A(f, 2)
           size == IF op = \h3c THEN A(f, 5) ELSE A(f, 3)
           bytes == CASE op = \h37 -> Slice(f.input, src, Num(size))
                      [] op = \h39 -> Slice(f.code, src, Num(size))
                      [] OTHER -> [i \in 1..Num(size) |-> Unknown]
       IN  frame' = [Next1(f, <<>>) EXCEPT
                        !.mem = IF IsZero(size) THEN f.mem ELSE WriteMem(f.mem, Num(dst), bytes)]

\* MLOAD, MSTORE (16 bytes) and MSTORE8 (the low byte).
Memory ==
    /\ Ready(MemOps)
    /\ LET f == frame
           off == Num(A(f, 1))
       IN  frame' = CASE Op(f) = \h51 -> Next1(f, <<WordOf(ReadMem(f.mem, off, 16))>>)
                      [] Op(f) = \h52 -> [Next1(f, <<>>) EXCEPT !.mem = WriteMem(f.mem, off, A(f, 2))]
                      [] OTHER -> [Next1(f, <<>>) EXCEPT !.mem = WriteMem(f.mem, off, <<A(f, 2)[16]>>)]

\* JUMP, JUMPI (taken when the condition is non-zero), JUMPDEST.
Jump ==
    /\ Ready(JumpOps)
    /\ LET f == frame
           taken == Op(f) = \h56 \/ (Op(f) = \h57 /\ NonZero(A(f, 2)))
       IN  frame' = [Next1(f, <<>>) EXCEPT !.pc = IF taken THEN Num(A(f, 1)) ELSE f.pc + 1]

\* STOP (or the end of the code) and RETURN halt with success, REVERT with
\* revert; the gas left is what remains after the slice's memory charge.
Halt ==
    /\ Ready(HaltOps)
    /\ frame' = [Next1(frame, <<>>) EXCEPT !.status = IF Op(frame) = \hfd THEN "revert" ELSE "success"]

\* Every failure forces gas_left to 0 (4.2).
Fail(h) ==
    /\ Running(frame)
    /\ Faulty(frame, h)
    /\ frame' = [frame EXCEPT !.status = "failure", !.gas = 0]

(***************************************************************************)
(* The steps that call the host: the host's reply is a parameter, and the *)
(* composing module (Suite) performs the callback on the mock's state.    *)
(***************************************************************************)
HostReady(ops, h) ==
    /\ Running(frame)
    /\ Op(frame) \in ops
    /\ ~Faulty(frame, h)

\* SLOAD pushes the word get_storage returns.
SLoad(word) ==
    /\ HostReady({\h54}, NoAnswer)
    /\ frame' = Next1(frame, <<word>>)

\* SSTORE is priced on the word stored before, then set_storage writes.
SStore(h) ==
    /\ HostReady({\h55}, h)
    /\ frame' = [Next1(frame, <<>>) EXCEPT !.gas = frame.gas - Charge(frame, h)]

\* LOGn hands the host 2n topic words and the data slice.
LogTopicsCountOneMore(f) == 2 * (Op(f) - \ha0 + 1)
LogTopicsCount(f) == 2 * (Op(f) - \ha0)
LogDataSize(f) == Num(A(f, 2))
Log ==
    /\ HostReady(LogOps, NoAnswer)
    /\ frame' = Next1(frame, <<>>)

\* SELFDESTRUCT hands the host the beneficiary (two words, high on top)
\* and halts with success.
Beneficiary(f) == A(f, 1) \o A(f, 2)
SelfDestruct ==
    /\ HostReady({\hff}, NoAnswer)
    /\ frame' = [Next1(frame, <<>>) EXCEPT !.status = "success"]

\* The message CREATE and the call opcodes hand the host's call (4.2):
\* depth one more than the top-level message's 0, the static flag kept
\* (and set by STATICCALL), the caller the executing contract except for
\* DELEGATECALL, which passes on the outer caller and value. Forwarded gas:
\* all that is left for CREATE; min(requested, left) plus the stipend when
\* valued for the calls. Kinds: EVM_CALL 0, EVM_DELEGATECALL 1,
\* EVM_CALLCODE 2, EVM_CREATE 3 (evm.h).
Left(f, h) == f.gas - Charge(f, h)
Forwarded(f, h) ==
    IF Op(f) = \hf0 THEN Left(f, h)
    ELSE LET req == IF Small(A(f, 1)) /\ Num(A(f, 1)) < Left(f, h) THEN Num(A(f, 1)) ELSE Left(f, h)
         IN  req + (IF Valued(f) THEN G.callStipend ELSE 0)
InputRange(f) ==
    CASE Op(f) = \hf0 -> <<A(f, 2), A(f, 3)>>
      [] Op(f) \in {\hf1, \hf2} -> <<A(f, 5), A(f, 6)>>
      [] OTHER -> <<A(f, 4), A(f, 5)>>
CallMsg(f, h) ==
    LET op == Op(f)
        in == InputRange(f)
    IN  [kind |-> CASE op = \hf0 -> 3 [] op = \hf2 -> 2 [] op = \hf4 -> 1 [] OTHER -> 0,
         depth |-> 1,
         flags |-> IF f.static \/ op = \hfa THEN 1 ELSE 0,
         address |-> IF op = \hf0 THEN [i \in 1..32 |-> Unknown] ELSE A(f, 2) \o A(f, 3),
         caller |-> IF op = \hf4 THEN "caller" ELSE "address",
         value |-> CASE op = \hf0 -> A(f, 1) [] op \in {\hf1, \hf2} -> A(f, 4)
                     [] op = \hf4 -> f.value [] OTHER -> ZeroWord,
         inputSize |-> Num(in[2]),
         input14 |-> IF Known(in[1]) THEN ReadMem(f.mem, Num(in[1]), 15)[15] ELSE Unknown,
         gas |-> Forwarded(f, h)]

\* The frame after the host's call returns r: the gas the callee left is
\* refunded, the status (calls) or the new address (CREATE) is pushed, and
\* the output's size is the return data's.
AfterCall(f, h, r) ==
    [Next1(f, IF Op(f) # \hf0 THEN <<Flag(r.status = "success")>>
              ELSE IF r.status = "success"
                   THEN <<SubSeq(r.output, 17, 32), SubSeq(r.output, 1, 16)>>
                   ELSE <<UnknownWord, UnknownWord>>)
        EXCEPT !.gas = Left(f, h) - CallMsg(f, h).gas + r.gasLeft
                       + (IF Valued(f) THEN G.callStipend ELSE 0),
               !.rd = Len(r.output)]
Call(h, r) ==
    /\ HostReady(CallOps \cup {\hf0}, h)
    /\ frame' = AfterCall(frame, h, r)
=============================================================================
