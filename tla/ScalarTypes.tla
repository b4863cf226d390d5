----------------------------- MODULE ScalarTypes -----------------------------
(***************************************************************************)
(* The scalar categories of the front end's type system                    *)
(* (src/solidity/libsolidity/ast/Types.cpp): Integer (with Address),       *)
(* FixedPoint, RationalNumber (numeric literals), FixedBytes and Bool;    *)
(* their implicit and explicit conversions, mobile types, commonType and  *)
(* the result types of unary and binary operators.                         *)
(*                                                                         *)
(* Types are records keyed by their category. The code's 256-bit bound on *)
(* every width (u256(-1), bigint(1) << 256) is the constant MaxBits, its  *)
(* 80-digit bound on fractional digits MaxDigits, and the uint32 bound on *)
(* literal exponents and shift amounts ExpLimit, so that TLC reaches the  *)
(* boundaries. The token classes (Token.h) and the defaults of the Type   *)
(* base class (Types.h: conversion is equality, a type is its own mobile  *)
(* type, explicit conversion is implicit conversion) are not in this      *)
(* repository; they are taken as the specification states them.           *)
(***************************************************************************)
EXTENDS Integers

CONSTANTS MaxBits, MaxDigits, ExpLimit

ASSUME ScalarAssumption ==
    /\ MaxBits \in {8 * k : k \in 1..3}
    /\ MaxDigits \in Nat /\ ExpLimit \in Nat

\* Outcomes that are not types: TypePointer() and a failed solAssert.
None == [cat |-> "None"]
InternalError == [cat |-> "InternalError"]
Tuple == [cat |-> "Tuple"]   \* make_shared<TupleType>(): the type of `delete`

IntegerT(b, m)       == [cat |-> "Integer", bits |-> b, mod |-> m]
Fixed(b, d, s)  == [cat |-> "FixedPoint", bits |-> b, digits |-> d, signed |-> s]
Bytes(n)        == [cat |-> "FixedBytes", bytes |-> n]
Bool            == [cat |-> "Bool"]

\* Exact rationals, normalised as boost::rational keeps them.
Gcd(x, y) ==
    LET g[p \in Nat \X Nat] == IF p[2] = 0 THEN p[1] ELSE g[<<p[2], p[1] % p[2]>>]
    IN  g[<<x, y>>]
Abs(x) == IF x < 0 THEN -x ELSE x
Rat(n, d) ==
    LET g == Gcd(Abs(n), Abs(d))
        s == IF d < 0 THEN -1 ELSE 1
    IN  [cat |-> "RationalNumber", num |-> s * (n \div g), den |-> s * (d \div g)]

\* bigint division and remainder truncate toward zero.
TDiv(a, b) == IF (a < 0) = (b < 0) THEN Abs(a) \div Abs(b) ELSE -(Abs(a) \div Abs(b))
TMod(a, b) == a - b * TDiv(a, b)

MaxUInt == 2^MaxBits - 1   \* u256(-1)

\* dev::bytesRequired: the bytes needed to hold a non-negative value.
BytesRequired(v) == CHOOSE k \in 0..(MaxBits \div 8 + 1) : v < 256^k /\ (k = 0 \/ v >= 256^(k - 1))

Signed(t)     == t.mod = "Signed"
IsAddress(t)  == t.mod = "Address"
Fractional(r) == r.den # 1

\* Token classes (Token.h).
CompareOps == {"Equal", "NotEqual", "LessThan", "GreaterThan", "LessThanOrEqual", "GreaterThanOrEqual"}
BooleanOps == {"And", "Or"}
BitOps     == {"BitOr", "BitXor", "BitAnd"}
ShiftOps   == {"SHL", "SAR", "SHR"}

\* IntegerType minValue/maxValue (lines 416-430); Address is 256 bits.
MinValue(t) == IF Signed(t) THEN -(2^(t.bits - 1)) ELSE 0
MaxValue(t) == IF Signed(t) THEN 2^(t.bits - 1) - 1 ELSE 2^t.bits - 1

\* FixedPointType maxIntegerValue/minIntegerValue (lines 557-571).
MaxIntegerValue(t) == (2^(t.bits - (IF t.signed THEN 1 ELSE 0)) - 1) \div 10^t.digits
MinIntegerValue(t) == IF t.signed THEN TDiv(-(2^(t.bits - 1)), 10^t.digits) ELSE 0

\* Mutant: a negative value is sized without the decrement.
IntegerTypeOfNoDecrement(r) ==
    IF Fractional(r) THEN InternalError
    ELSE LET v == IF r.num < 0 THEN (0 - r.num) * 2 ELSE r.num
         IN  IF v > MaxUInt THEN None
             ELSE IntegerT(IF BytesRequired(v) > 1 THEN 8 * BytesRequired(v) ELSE 8,
                           IF r.num < 0 THEN "Signed" ELSE "Unsigned")

\* RationalNumberType::integerType (lines 992-1006); a failed solAssert
\* on a fractional value.
IntegerTypeOf(r) ==
    IF Fractional(r) THEN InternalError
    ELSE LET v == IF r.num < 0 THEN ((0 - r.num) - 1) * 2 ELSE r.num
         IN  IF v > MaxUInt THEN None
             ELSE IntegerT(IF BytesRequired(v) > 1 THEN 8 * BytesRequired(v) ELSE 8,
                      IF r.num < 0 THEN "Signed" ELSE "Unsigned")

\* RationalNumberType::fixedPointType (lines 1008-1042): scale |r| by ten
\* while it stays in range, is not whole and has fewer than MaxDigits
\* digits; round toward zero.
FixedPointTypeOf(r) ==
    LET neg    == r.num < 0
        limit  == IF neg THEN 2^(MaxBits - 1) ELSE 2^MaxBits - 1
        n      == Abs(r.num)
        Scaled(d) == Rat(n * 10^d, r.den)
        Goes(d)   == Scaled(d).num * 10 <= limit * Scaled(d).den
                     /\ Scaled(d).den # 1 /\ d < MaxDigits
        digits == CHOOSE d \in 0..MaxDigits : ~Goes(d) /\ \A e \in 0..(d - 1) : Goes(e)
        val    == Scaled(digits)
        whole  == val.num \div val.den
        v      == IF neg THEN (whole - 1) * 2 ELSE whole
    IN  IF val.num > limit * val.den \/ v > MaxUInt THEN None
        ELSE Fixed(IF BytesRequired(v) > 1 THEN 8 * BytesRequired(v) ELSE 8, digits, neg)

\* mobileType: a literal's integer or fixed point type (lines 984-990);
\* every other type is its own.
MobileType(t) ==
    IF t.cat # "RationalNumber" THEN t
    ELSE IF Fractional(t) THEN FixedPointTypeOf(t) ELSE IntegerTypeOf(t)

(***************************************************************************)
(* Implicit conversion.                                                    *)
(***************************************************************************)
\* Mutant: unsigned converts to signed of the same width.
IntegerImplicitSameWidth(a, b) ==
    CASE b.cat = "Integer" ->
            /\ b.bits >= a.bits
            /\ IF IsAddress(a) THEN IsAddress(b)
               ELSE IF Signed(a) THEN Signed(b)
               ELSE ~Signed(b) \/ b.bits >= a.bits
      [] b.cat = "FixedPoint" ->
            /\ ~IsAddress(a)
            /\ MaxValue(a) <= MaxIntegerValue(b) /\ MinValue(a) >= MinIntegerValue(b)
      [] OTHER -> FALSE

\* IntegerType::isImplicitlyConvertibleTo (lines 339-364).
IntegerImplicit(a, b) ==
    CASE b.cat = "Integer" ->
            /\ b.bits >= a.bits
            /\ IF IsAddress(a) THEN IsAddress(b)
               ELSE IF Signed(a) THEN Signed(b)
               ELSE ~Signed(b) \/ b.bits > a.bits
      [] b.cat = "FixedPoint" ->
            /\ ~IsAddress(a)
            /\ MaxValue(a) <= MaxIntegerValue(b) /\ MinValue(a) >= MinIntegerValue(b)
      [] OTHER -> FALSE

\* FixedPointType::isImplicitlyConvertibleTo (lines 506-517).
FixedImplicit(a, b) ==
    /\ b.cat = "FixedPoint"
    /\ b.bits >= a.bits /\ b.digits >= a.digits
    /\ MaxIntegerValue(b) >= MaxIntegerValue(a) /\ MinIntegerValue(b) <= MinIntegerValue(a)

\* Mutant: the sign bit is not taken off the signed target's range.
RationalFitsNoSignBit(r, b) ==
    IF r.num > 0 THEN r.num <= 2^b.bits - 1
    ELSE Signed(b) /\ -r.num <= 2^b.bits

\* The range test of RationalNumberType::isImplicitlyConvertibleTo for a
\* whole non-zero literal and an integer target (lines 744-753).
RationalFits(r, b) ==
    LET forSignBit == IF Signed(b) THEN 1 ELSE 0
    IN  IF r.num > 0 THEN r.num <= 2^(b.bits - forSignBit) - 1
        ELSE Signed(b) /\ -r.num <= 2^(b.bits - forSignBit)

\* RationalNumberType::isImplicitlyConvertibleTo (lines 737-776).
\* fx and it are the literal's fixedPointType and integerType.
RationalImplicitAs(r, b, fx, it) ==
    CASE b.cat = "Integer" ->
            r.num = 0 \/ (~Fractional(r) /\ RationalFits(r, b))
      [] b.cat = "FixedPoint" -> fx # None /\ FixedImplicit(fx, b)
      [] b.cat = "FixedBytes" -> ~Fractional(r) /\ it # None /\ b.bytes * 8 >= it.bits
      [] OTHER -> FALSE

RationalImplicit(r, b) ==
    RationalImplicitAs(r, b, FixedPointTypeOf(r), IntegerTypeOf(r))

\* FixedBytesType::isImplicitlyConvertibleTo (lines 1109-1115).
BytesImplicit(a, b) == b.cat = "FixedBytes" /\ b.bytes >= a.bytes

Implicit(a, b) ==
    CASE a.cat = "Integer"        -> IntegerImplicit(a, b)
      [] a.cat = "FixedPoint"     -> FixedImplicit(a, b)
      [] a.cat = "RationalNumber" -> RationalImplicit(a, b)
      [] a.cat = "FixedBytes"     -> BytesImplicit(a, b)
      [] OTHER                    -> a = b

\* Mutant: FixedPoint is missing from the integer's explicit targets.
IntegerExplicitNoFixed(b) == b.cat \in {"Integer", "Contract", "Enum", "FixedBytes"}

\* IntegerType::isExplicitlyConvertibleTo (lines 366-373).
IntegerExplicit(b) == b.cat \in {"Integer", "Contract", "Enum", "FixedBytes", "FixedPoint"}

\* FixedPointType::isExplicitlyConvertibleTo (lines 519-524).
FixedExplicit(b) == b.cat \in {"FixedPoint", "Integer", "FixedBytes"}

\* Explicit conversion; a literal converts as its mobile type
\* (RationalNumberType, lines 778-782), FixedBytes by lines 1117-1123.
\* m is a's mobile type.
ExplicitAs(a, b, m) ==
    CASE a.cat = "Integer"        -> IntegerExplicit(b)
      [] a.cat = "FixedPoint"     -> FixedExplicit(b)
      [] a.cat = "RationalNumber" -> /\ m # None
                                     /\ IF m.cat = "Integer" THEN IntegerExplicit(b)
                                                             ELSE FixedExplicit(b)
      [] a.cat = "FixedBytes"     -> b.cat \in {"Integer", "FixedPoint", "Contract", "FixedBytes"}
      [] OTHER                    -> Implicit(a, b)

Explicit(a, b) == ExplicitAs(a, b, MobileType(a))

\* Mutant: the first operand's mobile type is taken without checking
\* that the second converts to it.
CommonTypeOfNoCheck(a, b, ma, mb) ==
    CASE ma # None -> ma
      [] mb # None /\ Implicit(a, mb) -> mb
      [] OTHER -> None

\* Type::commonType (lines 252-262); ma and mb are the mobile types.
CommonTypeOf(a, b, ma, mb) ==
    CASE ma # None /\ Implicit(b, ma) -> ma
      [] mb # None /\ Implicit(a, mb) -> mb
      [] OTHER -> None

CommonType(a, b) == CommonTypeOf(a, b, MobileType(a), MobileType(b))
(***************************************************************************)
(* Operators.                                                              *)
(***************************************************************************)
\* isValidShiftAndAmountType (lines 307-318). integerType() asserts that
\* the literal is whole: a fractional amount fails the assertion.
ShiftAmountAsserts(op, b) == op # "SHR" /\ b.cat = "RationalNumber" /\ Fractional(b)

UnsignedAmount(t) == t # None /\ ~Signed(t)

ShiftAmount(op, b) ==
    CASE op = "SHR"                -> FALSE
      [] b.cat = "Integer"         -> ~IsAddress(b)
      [] b.cat = "RationalNumber"  -> UnsignedAmount(IntegerTypeOf(b))
      [] OTHER                     -> FALSE

\* The shift rule shared by Integer and FixedBytes: the left type, if the
\* amount is valid.
ShiftResult(a, op, b) ==
    CASE ShiftAmountAsserts(op, b) -> InternalError
      [] ShiftAmount(op, b)        -> a
      [] OTHER                     -> None

\* Mutant: a signed EXP is not vetoed.
IntegerBinarySignedExpOn(a, op, b, c) ==
    CASE b.cat \notin {"RationalNumber", "FixedPoint", "Integer"} -> None
      [] op \in ShiftOps -> IF IsAddress(a) THEN None ELSE ShiftResult(a, op, b)
      [] c = None        -> None
      [] op \in CompareOps -> c
      [] op \in BooleanOps -> None
      [] c.cat = "Integer" /\ IsAddress(c) -> None
      [] c.cat = "FixedPoint" /\ op = "Exp" -> None
      [] OTHER -> c

\* IntegerType::binaryOperatorResult (lines 432-473); c is the common type.
IntegerBinaryOn(a, op, b, c) ==
    CASE b.cat \notin {"RationalNumber", "FixedPoint", "Integer"} -> None
      [] op \in ShiftOps -> IF IsAddress(a) THEN None ELSE ShiftResult(a, op, b)
      [] c = None        -> None
      [] op \in CompareOps -> c
      [] op \in BooleanOps -> None
      [] c.cat = "Integer" /\ (IsAddress(c) \/ (op = "Exp" /\ Signed(c))) -> None
      [] c.cat = "FixedPoint" /\ op = "Exp" -> None
      [] OTHER -> c

IntegerBinary(a, op, b) == IntegerBinaryOn(a, op, b, CommonType(a, b))

\* FixedPointType::binaryOperatorResult (lines 574-601).
FixedBinaryOn(a, op, b, c) ==
    CASE b.cat \notin {"RationalNumber", "FixedPoint", "Integer"} -> None
      [] c = None        -> None
      [] op \in CompareOps -> c
      [] op \in BitOps \cup BooleanOps -> None
      [] c.cat = "FixedPoint" /\ op = "Exp" -> None
      [] c.cat = "Integer" /\ IsAddress(c) -> None
      [] OTHER -> c

FixedBinary(a, op, b) == FixedBinaryOn(a, op, b, CommonType(a, b))

\* The operator result of a mobile type (Integer or FixedPoint).
MobileBinary(m, op, b) ==
    IF m.cat = "Integer" THEN IntegerBinary(m, op, b) ELSE FixedBinary(m, op, b)

\* Two's complement bitwise operations on bigints, over enough bits for
\* every value the literals reach.
BitWidth == MaxBits + 4
Bit(x, i) == ((x % 2^BitWidth) \div 2^i) % 2
BitCombine(x, y, op) ==
    LET B(p, q) == CASE op = "BitOr" -> IF p + q > 0 THEN 1 ELSE 0
                     [] op = "BitXor" -> (p + q) % 2
                     [] op = "BitAnd" -> p * q
        u == LET f[i \in 0..BitWidth] ==
                   IF i = 0 THEN 0 ELSE f[i - 1] + 2^(i - 1) * B(Bit(x, i - 1), Bit(y, i - 1))
             IN  f[BitWidth]
    IN  IF u >= 2^(BitWidth - 1) THEN u - 2^BitWidth ELSE u

\* boost::multiprecision::pow, with pow(0, 0) = 1.
Pow(x, e) == IF e = 0 THEN 1 ELSE x^e

\* The exact arithmetic of two literals (lines 842-926).
RationalArith(a, op, b) ==
    LET frac == Fractional(a) \/ Fractional(b)
        q    == Rat(a.num * b.den, a.den * b.num)          \* a / b
        e    == Abs(b.num)
    IN  CASE op \in BitOps -> IF frac THEN None ELSE Rat(BitCombine(a.num, b.num, op), 1)
          [] op = "Add" -> Rat(a.num * b.den + b.num * a.den, a.den * b.den)
          [] op = "Sub" -> Rat(a.num * b.den - b.num * a.den, a.den * b.den)
          [] op = "Mul" -> Rat(a.num * b.num, a.den * b.den)
          [] op = "Div" -> IF b.num = 0 THEN None ELSE q
          [] op = "Mod" ->
                IF b.num = 0 THEN None
                ELSE IF frac
                     THEN LET t == TDiv(q.num, q.den)
                          IN  Rat(a.num * b.den - t * b.num * a.den, a.den * b.den)
                     ELSE Rat(TMod(a.num, b.num), 1)
          [] op = "Exp" ->
                (CASE Fractional(b) -> None
                   [] e > ExpLimit  -> None
                   [] b.num >= 0    -> Rat(Pow(a.num, e), Pow(a.den, e))
                   [] a.num = 0     -> InternalError   \* rational(d, 0) throws bad_rational
                   [] OTHER         -> Rat(Pow(a.den, e), Pow(a.num, e)))
          [] op = "SHL" ->
                IF frac \/ b.num < 0 \/ b.num > ExpLimit THEN None
                ELSE Rat(a.num * 2^b.num, 1)
          [] op = "SAR" ->
                IF frac \/ b.num < 0 \/ b.num > ExpLimit THEN None
                ELSE Rat(TDiv(a.num, 2^b.num), 1)
          [] OTHER -> None

\* RationalNumberType::binaryOperatorResult (lines 808-930): against a
\* non-literal it is its mobile type; two literals compare as their
\* mobile types and otherwise combine exactly.
\* ma and mb are the mobile types.
RationalBinaryOn(a, op, b, ma, mb) ==
    CASE b.cat \notin {"Integer", "FixedPoint", "RationalNumber"} -> None
      [] b.cat = "RationalNumber" /\ op \notin CompareOps -> RationalArith(a, op, b)
      [] ma = None \/ mb = None -> None
      [] OTHER -> MobileBinary(ma, op, mb)

RationalBinary(a, op, b) == RationalBinaryOn(a, op, b, MobileType(a), MobileType(b))

\* FixedBytesType::binaryOperatorResult (lines 1136-1155).
BytesBinaryOn(a, op, b, c) ==
    CASE op \in ShiftOps -> ShiftResult(a, op, b)
      [] c.cat # "FixedBytes" -> None
      [] op \in CompareOps \cup BitOps -> c
      [] OTHER -> None

BytesBinary(a, op, b) == BytesBinaryOn(a, op, b, CommonType(a, b))

\* BoolType::binaryOperatorResult (lines 1193-1200).
BoolBinary(a, op, b) ==
    IF b.cat = "Bool" /\ op \in CompareOps \cup BooleanOps THEN b ELSE None

\* The left operand's binaryOperatorResult, as the type checker calls it.
BinaryOperatorResult(a, op, b) ==
    CASE a.cat = "Integer"        -> IntegerBinary(a, op, b)
      [] a.cat = "FixedPoint"     -> FixedBinary(a, op, b)
      [] a.cat = "RationalNumber" -> RationalBinary(a, op, b)
      [] a.cat = "FixedBytes"     -> BytesBinary(a, op, b)
      [] a.cat = "Bool"           -> BoolBinary(a, op, b)

\* IntegerType::unaryOperatorResult (lines 375-398).
IntegerUnary(a, op) ==
    CASE op = "Delete" -> Tuple
      [] IsAddress(a)  -> None
      [] op \in {"Add", "Sub", "Inc", "Dec", "BitNot"} -> a
      [] OTHER -> None

\* FixedPointType::unaryOperatorResult (lines 526-549).
FixedUnary(a, op) ==
    CASE op = "Delete" -> Tuple
      [] op \in {"Add", "Sub", "Inc", "Dec"} -> a
      [] OTHER -> None

\* RationalNumberType::unaryOperatorResult (lines 784-806): the literal
\* the operator computes.
RationalUnary(a, op) ==
    CASE op = "BitNot" -> IF Fractional(a) THEN None ELSE Rat(-a.num - 1, 1)
      [] op = "Add"    -> a
      [] op = "Sub"    -> Rat(-a.num, a.den)
      [] op = "After"  -> a
      [] OTHER         -> None

\* FixedBytesType::unaryOperatorResult (lines 1125-1134).
BytesUnary(a, op) ==
    CASE op = "Delete" -> Tuple
      [] op = "BitNot" -> a
      [] OTHER -> None

\* BoolType::unaryOperatorResult (lines 1186-1191).
BoolUnary(a, op) ==
    CASE op = "Delete" -> Tuple
      [] op = "Not"    -> a
      [] OTHER -> None

UnaryOperatorResult(a, op) ==
    CASE a.cat = "Integer"        -> IntegerUnary(a, op)
      [] a.cat = "FixedPoint"     -> FixedUnary(a, op)
      [] a.cat = "RationalNumber" -> RationalUnary(a, op)
      [] a.cat = "FixedBytes"     -> BytesUnary(a, op)
      [] a.cat = "Bool"           -> BoolUnary(a, op)

(***************************************************************************)
(* The type checker's queries. Each expression of the analysed source is  *)
(* typed once: a binary or unary operation by its left operand's          *)
(* operator rule, a conversion of a value of one type to a declared type  *)
(* (through an intermediate variable, or directly, or by an explicit      *)
(* conversion) by the conversion predicates.                              *)
(***************************************************************************)
CONSTANTS Universe, Ops, UnaryOps

\* The scalar types the code can build: integer widths that are multiples
\* of 8 up to the bound (an address has the full width), fixed point
\* types of those widths with up to MaxDigits digits, literals with a
\* positive denominator, bytes1 to bytesN of the bound, and bool.
ScalarTypeSet ==
    {IntegerT(8 * k, m) : k \in 1..(MaxBits \div 8), m \in {"Signed", "Unsigned"}}
    \cup {IntegerT(MaxBits, "Address")}
    \cup {Fixed(8 * k, d, s) : k \in 1..(MaxBits \div 8), d \in 0..MaxDigits, s \in BOOLEAN}
    \cup [cat : {"RationalNumber"}, num : Int, den : Nat \ {0}]
    \cup {Bytes(n) : n \in 1..(MaxBits \div 8)}
    \cup {Bool}

ASSUME UniverseAssumption == Universe \subseteq ScalarTypeSet

IntegerTypes == {IntegerT(8 * k, m) : k \in 1..(MaxBits \div 8), m \in {"Signed", "Unsigned"}}

Exprs ==
    [kind : {"binary"}, lhs : Universe, op : Ops, rhs : Universe]
    \cup [kind : {"unary"}, op : UnaryOps, arg : Universe]
    \cup [kind : {"conversion"}, from : Universe, via : Universe, to : Universe]

Pending == [phase |-> "pending"]

VARIABLES expr, type

vars == <<expr, type>>

Init ==
    /\ expr \in Exprs
    /\ type = Pending

\* A binary operation: the left operand's binaryOperatorResult; the
\* common type of the operands is recorded beside it.
TypeBinaryOperation ==
    /\ expr.kind = "binary" /\ type = Pending
    /\ type' = [phase  |-> "typed",
                result |-> BinaryOperatorResult(expr.lhs, expr.op, expr.rhs),
                common |-> CommonType(expr.lhs, expr.rhs)]
    /\ UNCHANGED expr

TypeUnaryOperation ==
    /\ expr.kind = "unary" /\ type = Pending
    /\ type' = [phase |-> "typed", result |-> UnaryOperatorResult(expr.arg, expr.op)]
    /\ UNCHANGED expr

\* A value assigned to `via` and then to `to`, or to `to` at once, or
\* converted explicitly; a literal's mobile type is recorded beside it.
TypeConversion ==
    /\ expr.kind = "conversion" /\ type = Pending
    /\ type' = [phase    |-> "typed",
                first    |-> Implicit(expr.from, expr.via),
                second   |-> Implicit(expr.via, expr.to),
                direct   |-> Implicit(expr.from, expr.to),
                explicit |-> Explicit(expr.from, expr.to),
                mobile   |-> MobileType(expr.from)]
    /\ UNCHANGED expr

Next == TypeBinaryOperation \/ TypeUnaryOperation \/ TypeConversion

Spec == Init /\ [][Next]_vars

(***************************************************************************)
(* Properties.                                                             *)
(***************************************************************************)
Typed(k) == expr.kind = k /\ type # Pending

WholeLiteral(t) == t.cat = "RationalNumber" /\ ~Fractional(t)

\* The specification's rule for literals (and its property 13): a whole
\* literal converts implicitly to an integer type exactly when it is zero
\* or lies in the type's range; the shift bounds of isImplicitlyConvertibleTo
\* must agree with minValue/maxValue at every width and sign.
LiteralConvertibleInRange ==
    Typed("conversion") /\ WholeLiteral(expr.from) /\ expr.to.cat = "Integer"
        => (type.direct <=> \/ expr.from.num = 0
                            \/ MinValue(expr.to) <= expr.from.num /\ expr.from.num <= MaxValue(expr.to))

\* A whole literal's mobile type holds it, and no integer type of fewer
\* bits does: integerType picks the smallest width.
MobileTypeSmallest ==
    Typed("conversion") /\ WholeLiteral(expr.from) /\ type.mobile # None
        => /\ Implicit(expr.from, type.mobile)
           /\ \A t \in IntegerTypes : t.bits < type.mobile.bits => ~Implicit(expr.from, t)

\* Assigning through an intermediate variable never accepts a value the
\* direct assignment would reject: implicit conversion is transitive
\* across categories and literals (a literal converted to a fixed point
\* type is the question of LiteralFixedInRange).
ImplicitTransitive ==
    Typed("conversion") /\ ~(expr.from.cat = "RationalNumber" /\ expr.to.cat = "FixedPoint")
        => (type.first /\ type.second => type.direct)

\* A whole literal converts implicitly to a fixed point type exactly when
\* its value lies in the type's integer range, as it does to an integer
\* type and as a variable of the literal's integer type does.
LiteralFixedInRange ==
    Typed("conversion") /\ WholeLiteral(expr.from) /\ expr.to.cat = "FixedPoint"
        => (type.direct <=> MinIntegerValue(expr.to) <= expr.from.num
                            /\ expr.from.num <= MaxIntegerValue(expr.to))

\* Every implicit conversion is also allowed explicitly.
ImplicitImpliesExplicit ==
    Typed("conversion") => (type.direct => type.explicit)

\* commonType is a type both operands convert to.
CommonTypeBound ==
    Typed("binary") /\ type.common # None
        => Implicit(expr.lhs, type.common) /\ Implicit(expr.rhs, type.common)

\* The operator vetoes the specification states for integers, fixed bytes
\* and bools: no boolean operator on numbers, no EXP on a signed integer,
\* only comparisons on addresses, no arithmetic on fixed bytes.
OperatorVetoes ==
    Typed("binary") =>
        LET r == type.result IN
        /\ r.cat = "Integer" =>
               /\ expr.op \notin BooleanOps
               /\ expr.op = "Exp" => ~Signed(r)
               /\ IsAddress(r) => expr.op \in CompareOps
        /\ r.cat = "FixedBytes" => expr.op \in CompareOps \cup BitOps \cup ShiftOps
        /\ r.cat = "Bool" => expr.op \in CompareOps \cup BooleanOps

\* The specification: fixed point operations forbid all bitwise and
\* boolean operators and EXP, whichever operand is the fixed point one.
FixedNoBitwise ==
    Typed("binary") /\ type.result.cat = "FixedPoint"
        => expr.op \notin BitOps \cup BooleanOps \cup {"Exp"}

\* The specification (section 5): no type query raises; every operation
\* that has no type yields no type. A failed solAssert or a throwing
\* boost::rational while typing an operation breaks this.
NoInternalError ==
    Typed("binary") \/ Typed("unary") => type.result # InternalError
=============================================================================
