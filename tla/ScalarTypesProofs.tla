------------------------- MODULE ScalarTypesProofs -------------------------
(***************************************************************************)
(* Proofs about the conversion rules of Types.cpp for every width bound   *)
(* MaxBits the model allows (8, 16 or 24 bits standing for the code's     *)
(* 256), every digit bound and every set of well-formed scalar types.     *)
(*                                                                         *)
(* The state machine only types one expression once, so each invariant    *)
(* reduces to a fact about the conversion operators over ScalarTypeSet;   *)
(* Recorded says that what the machine records is what the operators      *)
(* compute. Powers of two are handled width by width.                     *)
(***************************************************************************)
EXTENDS ScalarTypes, WellFoundedInduction, TLAPS

USE ScalarAssumption, UniverseAssumption

Literals == [cat : {"RationalNumber"}, num : Int, den : Nat \ {0}]

\* What the machine records is what the conversion operators compute.
Recorded ==
    /\ expr \in Exprs
    /\ type # Pending /\ expr.kind = "conversion" =>
           /\ type.first = Implicit(expr.from, expr.via)
           /\ type.second = Implicit(expr.via, expr.to)
           /\ type.direct = Implicit(expr.from, expr.to)
           /\ type.explicit = Explicit(expr.from, expr.to)
           /\ type.mobile = MobileType(expr.from)
    /\ type # Pending /\ expr.kind = "binary" =>
           /\ type.common = CommonType(expr.lhs, expr.rhs)
           /\ type.result = BinaryOperatorResult(expr.lhs, expr.op, expr.rhs)

LEMMA RecordedInit == Init => Recorded
BY DEF Init, Recorded

LEMMA RecordedStep == Recorded /\ [Next]_vars => Recorded'
<1> SUFFICES ASSUME Recorded, [Next]_vars PROVE Recorded'
  OBVIOUS
<1>1. CASE TypeBinaryOperation
  BY <1>1 DEF TypeBinaryOperation, Recorded, Pending
<1>2. CASE TypeUnaryOperation
  BY <1>2 DEF TypeUnaryOperation, Recorded, Pending
<1>3. CASE TypeConversion
  BY <1>3 DEF TypeConversion, Recorded, Pending
<1>4. CASE UNCHANGED vars
  BY <1>4 DEF vars, Recorded
<1>. QED
  BY <1>1, <1>2, <1>3, <1>4 DEF Next

\* The widths the model allows.
LEMMA WidthCases == MaxBits \div 8 \in {1, 2, 3} /\ MaxBits = 8 * (MaxBits \div 8)
BY DEF ScalarAssumption

\* Two to a width, width by width.
LEMMA PowWidth ==
    ASSUME NEW n \in {8, 16, 24}
    PROVE  /\ 2^(n - 1) \in Nat \ {0}
           /\ 2^n = 2 * 2^(n - 1)
<1>1. CASE n = 8
  BY <1>1
<1>2. CASE n = 16
  BY <1>2
<1>3. CASE n = 24
  BY <1>3
<1>. QED
  BY <1>1, <1>2, <1>3

\* An integer type of ScalarTypeSet.
LEMMA IntegerShape ==
    ASSUME NEW b \in ScalarTypeSet, b.cat = "Integer"
    PROVE  /\ b.bits \in {8, 16, 24}
           /\ b.mod \in {"Signed", "Unsigned", "Address"}
           /\ b = IntegerT(b.bits, b.mod)
<1>1. \A k \in 1..(MaxBits \div 8) : 8 * k \in {8, 16, 24}
  BY WidthCases
<1>2. MaxBits \in {8, 16, 24}
  BY WidthCases
<1>. QED
  BY <1>1, <1>2 DEF ScalarTypeSet, IntegerT, Fixed, Bytes, Bool

\* The operands of an expression of each kind.
LEMMA ConversionExpr ==
    ASSUME expr \in Exprs, expr.kind = "conversion"
    PROVE  expr.from \in Universe /\ expr.via \in Universe /\ expr.to \in Universe
<1>1. expr \in [kind : {"conversion"}, from : Universe, via : Universe, to : Universe]
  BY DEF Exprs
<1>. QED
  BY <1>1

LEMMA BinaryExpr ==
    ASSUME expr \in Exprs, expr.kind = "binary"
    PROVE  expr.lhs \in Universe /\ expr.rhs \in Universe /\ expr.op \in Ops
<1>1. expr \in [kind : {"binary"}, lhs : Universe, op : Ops, rhs : Universe]
  BY DEF Exprs
<1>. QED
  BY <1>1

-----------------------------------------------------------------------------
(* Literals and integer types (RationalNumberType, lines 737-776).        *)

\* A whole literal converts implicitly to an integer type exactly when it
\* is zero or within minValue..maxValue.
LEMMA LiteralToInteger ==
    ASSUME NEW r \in Literals, ~Fractional(r),
           NEW b \in ScalarTypeSet, b.cat = "Integer"
    PROVE  Implicit(r, b) <=> \/ r.num = 0
                              \/ MinValue(b) <= r.num /\ r.num <= MaxValue(b)
<1>1. Implicit(r, b) <=> r.num = 0 \/ RationalFits(r, b)
  BY DEF Literals, Implicit, RationalImplicit, RationalImplicitAs
<1> DEFINE P == 2^(b.bits - 1)
<1>2. P \in Nat \ {0} /\ 2^b.bits = 2 * P /\ 2^(b.bits - 0) = 2^b.bits
  <2>1. b.bits \in {8, 16, 24}
    BY IntegerShape
  <2>2. b.bits - 0 = b.bits
    BY <2>1
  <2>. QED
    BY <2>1, <2>2, PowWidth DEF P
<1>3. r.num \in Int
  BY DEF Literals
<1>4. CASE Signed(b)
  <2>1. RationalFits(r, b) <=> IF r.num > 0 THEN r.num <= P - 1 ELSE -r.num <= P
    BY <1>4 DEF RationalFits, P
  <2>2. MinValue(b) = -P /\ MaxValue(b) = P - 1
    BY <1>4 DEF MinValue, MaxValue, P
  <2>. QED
    BY <1>1, <1>2, <1>3, <2>1, <2>2
<1>5. CASE ~Signed(b)
  <2>1. RationalFits(r, b) <=> r.num > 0 /\ r.num <= 2 * P - 1
    BY <1>2, <1>5 DEF RationalFits
  <2>2. MinValue(b) = 0 /\ MaxValue(b) = 2 * P - 1
    BY <1>2, <1>5 DEF MinValue, MaxValue
  <2>. QED
    BY <1>1, <1>2, <1>3, <2>1, <2>2
<1>. QED
  BY <1>4, <1>5

\* The specification's rule for literals, for every width: the shift bounds
\* of RationalNumberType::isImplicitlyConvertibleTo (lines 744-753) accept
\* a whole literal for an integer type exactly when it is zero or lies in
\* minValue..maxValue of the type (LiteralConvertibleInRange).
THEOREM LiteralRange == Spec => []LiteralConvertibleInRange
<1>1. Recorded => LiteralConvertibleInRange
  <2> SUFFICES ASSUME Recorded, Typed("conversion"), WholeLiteral(expr.from),
                      expr.to.cat = "Integer"
               PROVE  type.direct <=> \/ expr.from.num = 0
                                      \/ /\ MinValue(expr.to) <= expr.from.num
                                         /\ expr.from.num <= MaxValue(expr.to)
    BY DEF LiteralConvertibleInRange
  <2>1. expr.from \in ScalarTypeSet /\ expr.to \in ScalarTypeSet
    BY ConversionExpr DEF Recorded, Typed, UniverseAssumption
  <2>2. expr.from \in Literals /\ ~Fractional(expr.from)
    BY <2>1 DEF WholeLiteral, ScalarTypeSet, Literals, IntegerT, Fixed, Bytes, Bool
  <2>3. type.direct = Implicit(expr.from, expr.to)
    BY DEF Recorded, Typed
  <2>. QED
    BY <2>1, <2>2, <2>3, LiteralToInteger
<1>. QED
  BY <1>1, RecordedInit, RecordedStep, PTL DEF Spec

-----------------------------------------------------------------------------
(* Literal normalisation (Rat, boost::rational's gcd). Gcd's recursive    *)
(* function is well defined because Euclid's step lowers the second       *)
(* argument; that gives its fixpoint equation, and from it the two values *)
(* the conversion proofs need: gcd(x, 1) = 1 and gcd(0, d) = d.            *)

\* The function Gcd is the value of, and one step of its definition.
GcdOf[p \in Nat \X Nat] == IF p[2] = 0 THEN p[1] ELSE GcdOf[<<p[2], p[1] % p[2]>>]
GcdStep(g, p) == IF p[2] = 0 THEN p[1] ELSE g[<<p[2], p[1] % p[2]>>]

\* Pairs ordered by their second component.
BySecond == {ss \in (Nat \X Nat) \X (Nat \X Nat) : ss[1][2] < ss[2][2]}

\* No pair has an infinite chain below it: the second components would
\* descend forever in Nat.
LEMMA GcdWF == IsWellFoundedOn(BySecond, Nat \X Nat)
<1> SUFFICES ASSUME NEW f \in [Nat -> Nat \X Nat],
                    \A n \in Nat : <<f[n + 1], f[n]>> \in BySecond
             PROVE  FALSE
  BY DEF IsWellFoundedOn
<1> DEFINE g == [n \in Nat |-> f[n][2]]
<1>1. g \in [Nat -> Nat]
  OBVIOUS
<1>2. \A n \in Nat : <<g[n + 1], g[n]>> \in OpToRel(<, Nat)
  <2> TAKE n \in Nat
  <2>1. f[n + 1][2] < f[n][2] /\ f[n + 1][2] \in Nat /\ f[n][2] \in Nat
    BY DEF BySecond
  <2> QED BY <2>1 DEF OpToRel
<1>3. ~ \E h \in [Nat -> Nat] : \A n \in Nat : <<h[n + 1], h[n]>> \in OpToRel(<, Nat)
  BY NatLessThanWellFounded DEF IsWellFoundedOn
<1> QED BY <1>1, <1>2, <1>3

\* Euclid's step only reads the function below its argument.
LEMMA GcdDefOn == WFDefOn(BySecond, Nat \X Nat, GcdStep)
<1> SUFFICES ASSUME NEW g, NEW h, NEW x \in Nat \X Nat,
                    \A y \in SetLessThan(x, BySecond, Nat \X Nat) : g[y] = h[y]
             PROVE  GcdStep(g, x) = GcdStep(h, x)
  BY DEF WFDefOn
<1>1. CASE x[2] = 0
  BY <1>1 DEF GcdStep
<1>2. CASE x[2] # 0
  <2>1. <<x[2], x[1] % x[2]>> \in SetLessThan(x, BySecond, Nat \X Nat)
    BY <1>2 DEF SetLessThan, BySecond
  <2> QED BY <1>2, <2>1 DEF GcdStep
<1> QED BY <1>1, <1>2

LEMMA GcdFix == GcdOf = [p \in Nat \X Nat |-> GcdStep(GcdOf, p)]
<1>1. OpDefinesFcn(GcdOf, Nat \X Nat, GcdStep)
  BY DEF OpDefinesFcn, GcdOf, GcdStep
<1>2. WFInductiveDefines(GcdOf, Nat \X Nat, GcdStep)
  BY <1>1, GcdWF, GcdDefOn, WFInductiveDef
<1> QED BY <1>2 DEF WFInductiveDefines

\* Rat's gcd of a numerator and 1, and of 0 and a positive denominator.
LEMMA GcdEdges ==
    ASSUME NEW x \in Nat, NEW d \in Nat \ {0}
    PROVE  Gcd(x, 1) = 1 /\ Gcd(0, d) = d
<1>1. Gcd(x, 1) = GcdOf[<<x, 1>>] /\ Gcd(0, d) = GcdOf[<<0, d>>]
  BY DEF Gcd, GcdOf
<1>2. GcdOf[<<x, 1>>] = GcdOf[<<1, 0>>] /\ GcdOf[<<1, 0>>] = 1
  BY GcdFix DEF GcdStep
<1>3. GcdOf[<<0, d>>] = GcdOf[<<d, 0>>] /\ GcdOf[<<d, 0>>] = d
  BY GcdFix DEF GcdStep
<1> QED BY <1>1, <1>2, <1>3

\* A whole number is already normal, and so is zero over any denominator.
LEMMA RatNormal ==
    ASSUME NEW n \in Int, NEW d \in Nat \ {0}
    PROVE  /\ Rat(n, 1) = [cat |-> "RationalNumber", num |-> n, den |-> 1]
           /\ Rat(0, d) = [cat |-> "RationalNumber", num |-> 0, den |-> 1]
<1>1. Gcd(Abs(n), Abs(1)) = 1 /\ Gcd(Abs(0), Abs(d)) = d
  <2>1. Abs(n) \in Nat /\ Abs(1) = 1 /\ Abs(0) = 0 /\ Abs(d) = d
    BY DEF Abs
  <2> QED BY <2>1, GcdEdges
<1> QED BY <1>1 DEF Rat

-----------------------------------------------------------------------------
(* Implicit conversion implies explicit conversion. A literal converts    *)
(* explicitly as its mobile type, so the point is that a literal that     *)
(* converts implicitly has a mobile type at all: fixedPointType of a     *)
(* whole literal scales nothing, and then integerType sees the same       *)
(* value; zero has a type; a literal that fits an integer type fits the   *)
(* 256-bit bound.                                                          *)

\* The powers of two at the bound are numbers.
LEMMA MaxUIntNat ==
    MaxUInt \in Nat /\ 2^MaxBits \in Nat \ {0} /\ 2^(MaxBits - 1) \in Nat \ {0}
<1>1. MaxBits \in {8, 16, 24}
  BY WidthCases
<1>2. 2^MaxBits = 2 * 2^(MaxBits - 1) /\ 2^(MaxBits - 1) \in Nat \ {0}
  BY <1>1, PowWidth, Zenon
<1> QED BY <1>2 DEF MaxUInt

\* fixedPointType of a literal that Rat leaves whole: no digits are added
\* (the loop stops at once, lines 1019-1027), so the value is the
\* literal's magnitude, tested against the sign's limit and u256(-1).
LEMMA FixedWhole ==
    ASSUME NEW r \in Literals,
           Rat(Abs(r.num) * 10^0, r.den)
               = [cat |-> "RationalNumber", num |-> Abs(r.num), den |-> 1]
    PROVE  FixedPointTypeOf(r) # None
               <=> /\ Abs(r.num) <= (IF r.num < 0 THEN 2^(MaxBits - 1) ELSE 2^MaxBits - 1)
                   /\ (IF r.num < 0 THEN (Abs(r.num) - 1) * 2 ELSE Abs(r.num)) <= MaxUInt
<1> DEFINE neg    == r.num < 0
           limit  == IF neg THEN 2^(MaxBits - 1) ELSE 2^MaxBits - 1
           n      == Abs(r.num)
           Scaled(d) == Rat(n * 10^d, r.den)
           Goes(d)   == Scaled(d).num * 10 <= limit * Scaled(d).den
                        /\ Scaled(d).den # 1 /\ d < MaxDigits
<1>1. ~Goes(0)
  OBVIOUS
<1>2. (CHOOSE d \in 0..MaxDigits : ~Goes(d) /\ \A e \in 0..(d - 1) : Goes(e)) = 0
  <2>1. 0 \in 0..MaxDigits /\ ~Goes(0) /\ \A e \in 0..(0 - 1) : Goes(e)
    BY <1>1
  <2>2. ASSUME NEW d \in 0..MaxDigits, ~Goes(d), \A e \in 0..(d - 1) : Goes(e)
        PROVE  d = 0
    <3> SUFFICES ASSUME d # 0 PROVE FALSE
      OBVIOUS
    <3>1. 0 \in 0..(d - 1)
      OBVIOUS
    <3> QED BY <1>1, <2>2, <3>1
  <2> QED BY <2>1, <2>2
<1>3. n \in Nat /\ n \div 1 = n
  BY DEF Abs, Literals
<1>4. Scaled(0) = [cat |-> "RationalNumber", num |-> n, den |-> 1]
  OBVIOUS
<1>5. FixedPointTypeOf(r) # None
        <=> ~ \/ Scaled(0).num > limit * Scaled(0).den
              \/ (IF neg THEN (Scaled(0).num \div Scaled(0).den - 1) * 2
                         ELSE Scaled(0).num \div Scaled(0).den) > MaxUInt
  <2>1. \A x, y, z : Fixed(x, y, z) # None
    BY DEF Fixed, None
  <2> QED BY <1>2, <2>1 DEF FixedPointTypeOf
<1>6. limit \in Int
  BY MaxUIntNat DEF limit, neg
<1>7. Scaled(0).num > limit * Scaled(0).den <=> ~(n <= limit)
  BY <1>3, <1>4, <1>6
<1>8. (IF neg THEN (Scaled(0).num \div Scaled(0).den - 1) * 2
               ELSE Scaled(0).num \div Scaled(0).den) > MaxUInt
        <=> ~((IF neg THEN (n - 1) * 2 ELSE n) <= MaxUInt)
  BY <1>3, <1>4, MaxUIntNat
<1> QED BY <1>5, <1>7, <1>8

\* Two to a width is monotone in the width, width by width.
LEMMA PowMono ==
    ASSUME NEW x \in {8, 16, 24}, NEW y \in {8, 16, 24}, x <= y
    PROVE  2^x <= 2^y
<1>1. CASE x = y
  BY <1>1
<1>2. CASE x = 8 /\ y = 16
  BY <1>2
<1>3. CASE x = 8 /\ y = 24
  BY <1>3
<1>4. CASE x = 16 /\ y = 24
  BY <1>4
<1> QED BY <1>1, <1>2, <1>3, <1>4

\* u256(-1) bounds every power of two up to the width, width by width.
LEMMA PowBound ==
    ASSUME NEW a \in {8, 16, 24}, a <= MaxBits
    PROVE  2^a - 1 <= MaxUInt /\ 2^(a - 1) \in Nat \ {0} /\ 2^a = 2 * 2^(a - 1)
<1>1. MaxBits \in {8, 16, 24}
  BY WidthCases
<1>2. 2^a <= 2^MaxBits
  BY <1>1, PowMono, Zenon
<1>3. 2^(a - 1) \in Nat \ {0} /\ 2^a = 2 * 2^(a - 1)
  BY PowWidth, Zenon
<1> QED BY <1>2, <1>3 DEF MaxUInt

\* None is no sized integer type.
LEMMA IntegerNotNone == \A x, y : IntegerT(x, y) # None
BY DEF IntegerT, None

\* integerType of a whole literal gives a type when its magnitude, one
\* less and doubled if negative, is within u256(-1).
LEMMA IntegerTypeSome ==
    ASSUME NEW r, r.den = 1, r.num \in Int,
           (IF r.num < 0 THEN ((0 - r.num) - 1) * 2 ELSE r.num) <= MaxUInt
    PROVE  IntegerTypeOf(r) # None
<1>1. ~Fractional(r)
  BY DEF Fractional
<1>2. IntegerTypeOf(r) = IntegerT(IF BytesRequired(IF r.num < 0 THEN ((0 - r.num) - 1) * 2 ELSE r.num) > 1
                                  THEN 8 * BytesRequired(IF r.num < 0 THEN ((0 - r.num) - 1) * 2 ELSE r.num)
                                  ELSE 8,
                                  IF r.num < 0 THEN "Signed" ELSE "Unsigned")
  BY <1>1, MaxUIntNat DEF IntegerTypeOf
<1> QED BY <1>2, IntegerNotNone

\* A whole literal whose fixedPointType exists has an integerType too:
\* both test the same value against u256(-1).
LEMMA WholeMobile ==
    ASSUME NEW r \in Literals, ~Fractional(r), FixedPointTypeOf(r) # None
    PROVE  IntegerTypeOf(r) # None
<1>1. r.den = 1 /\ r.num \in Int
  BY DEF Fractional, Literals
<1>2. Rat(Abs(r.num) * 10^0, r.den)
          = [cat |-> "RationalNumber", num |-> Abs(r.num), den |-> 1]
  <2>1. Abs(r.num) \in Int /\ Abs(r.num) * 10^0 = Abs(r.num)
    BY <1>1 DEF Abs
  <2> QED BY <1>1, <2>1, RatNormal
<1>3. (IF r.num < 0 THEN (Abs(r.num) - 1) * 2 ELSE Abs(r.num)) <= MaxUInt
  BY <1>2, FixedWhole
<1>4. (IF r.num < 0 THEN ((0 - r.num) - 1) * 2 ELSE r.num) <= MaxUInt
  BY <1>1, <1>3 DEF Abs
<1> QED BY <1>1, <1>4, IntegerTypeSome

\* Zero, whole or over any denominator, has a mobile type.
LEMMA ZeroMobile ==
    ASSUME NEW r \in Literals, r.num = 0
    PROVE  MobileType(r) # None
<1>1. 0 <= MaxUInt /\ 0 <= 2^MaxBits - 1
  BY WidthCases, PowBound DEF MaxUInt
<1>2. CASE ~Fractional(r)
  <2>1. r.den = 1
    BY <1>2 DEF Fractional
  <2>2. IntegerTypeOf(r) # None
    BY <1>1, <2>1, IntegerTypeSome DEF Literals
  <2> QED BY <1>2, <2>2 DEF MobileType, Literals
<1>3. CASE Fractional(r)
  <2>1. Rat(Abs(r.num) * 10^0, r.den)
            = [cat |-> "RationalNumber", num |-> Abs(r.num), den |-> 1]
    <3>1. Abs(r.num) = 0 /\ Abs(r.num) * 10^0 = 0 /\ r.den \in Nat \ {0}
      BY DEF Abs, Literals
    <3> QED BY <3>1, RatNormal
  <2>2. FixedPointTypeOf(r) # None
    <3>1. Abs(r.num) = 0 /\ ~(r.num < 0)
      BY DEF Abs
    <3> QED BY <1>1, <2>1, <3>1, FixedWhole
  <2> QED BY <1>3, <2>2 DEF MobileType, Literals
<1> QED BY <1>2, <1>3

\* A whole literal in an integer type's range is within u256(-1), so
\* integerType gives it a type.
LEMMA FitsMobile ==
    ASSUME NEW r \in Literals, ~Fractional(r),
           NEW b \in ScalarTypeSet, b.cat = "Integer", RationalFits(r, b)
    PROVE  IntegerTypeOf(r) # None
<1>1. b.bits \in {8, 16, 24} /\ b.bits <= MaxBits
  <2>1. \A k \in 1..(MaxBits \div 8) : 8 * k <= MaxBits
    BY WidthCases
  <2> QED BY <2>1, IntegerShape DEF ScalarTypeSet, IntegerT, Fixed, Bytes, Bool
<1>2. PICK P \in Nat \ {0} : P = 2^(b.bits - 1) /\ 2^b.bits = 2 * P /\ 2 * P - 1 <= MaxUInt
  BY <1>1, PowBound
<1>3. 2^(b.bits - 0) = 2 * P /\ r.num \in Int /\ MaxUInt \in Int
  BY <1>1, <1>2 DEF MaxUInt, Literals
<1>4. IF r.num > 0 THEN r.num <= 2 * P - 1 ELSE -r.num <= P
  BY <1>2, <1>3 DEF RationalFits
<1>5. (IF r.num < 0 THEN ((0 - r.num) - 1) * 2 ELSE r.num) <= MaxUInt
  BY <1>2, <1>3, <1>4
<1> QED BY <1>3, <1>5, IntegerTypeSome DEF Fractional

\* Every conversion isImplicitlyConvertibleTo accepts,
\* isExplicitlyConvertibleTo accepts: integers and fixed point types go
\* to integers and fixed point types, bytes to bytes, bool to itself, and
\* a literal that converts implicitly has a mobile type, whose explicit
\* targets include every integer, fixed point and bytes type.
LEMMA ImplicitExplicit ==
    ASSUME NEW a \in ScalarTypeSet, NEW b \in ScalarTypeSet, Implicit(a, b)
    PROVE  Explicit(a, b)
<1>1. CASE a.cat = "Integer"
  <2>1. b.cat \in {"Integer", "FixedPoint"}
    BY <1>1 DEF Implicit, IntegerImplicit
  <2> QED BY <1>1, <2>1 DEF Explicit, ExplicitAs, IntegerExplicit
<1>2. CASE a.cat = "FixedPoint"
  <2>1. b.cat = "FixedPoint"
    BY <1>2 DEF Implicit, FixedImplicit
  <2> QED BY <1>2, <2>1 DEF Explicit, ExplicitAs, FixedExplicit
<1>3. CASE a.cat = "FixedBytes"
  <2>1. b.cat = "FixedBytes"
    BY <1>3 DEF Implicit, BytesImplicit
  <2> QED BY <1>3, <2>1 DEF Explicit, ExplicitAs
<1>4. CASE a.cat = "Bool"
  BY <1>4 DEF Implicit, Explicit, ExplicitAs
<1>5. CASE a.cat = "RationalNumber"
  <2>1. a \in Literals
    BY <1>5 DEF ScalarTypeSet, Literals, IntegerT, Fixed, Bytes, Bool
  <2>2. RationalImplicitAs(a, b, FixedPointTypeOf(a), IntegerTypeOf(a))
    BY <1>5 DEF Implicit, RationalImplicit
  <2>3. b.cat \in {"Integer", "FixedPoint", "FixedBytes"}
    BY <2>2 DEF RationalImplicitAs
  <2>4. MobileType(a) # None
    <3>1. CASE b.cat = "Integer"
      <4>1. a.num = 0 \/ (~Fractional(a) /\ RationalFits(a, b))
        BY <2>2, <3>1 DEF RationalImplicitAs
      <4> QED BY <1>5, <2>1, <3>1, <4>1, ZeroMobile, FitsMobile DEF MobileType
    <3>2. CASE b.cat = "FixedPoint"
      <4>1. FixedPointTypeOf(a) # None
        BY <2>2, <3>2 DEF RationalImplicitAs
      <4> QED BY <1>5, <2>1, <4>1, WholeMobile DEF MobileType
    <3>3. CASE b.cat = "FixedBytes"
      <4>1. ~Fractional(a) /\ IntegerTypeOf(a) # None
        BY <2>2, <3>3 DEF RationalImplicitAs
      <4> QED BY <1>5, <4>1 DEF MobileType
    <3> QED BY <2>3, <3>1, <3>2, <3>3
  <2> QED BY <1>5, <2>3, <2>4 DEF Explicit, ExplicitAs, IntegerExplicit, FixedExplicit
<1> QED BY <1>1, <1>2, <1>3, <1>4, <1>5 DEF ScalarTypeSet, IntegerT, Fixed, Bytes, Bool

\* Whatever the machine types, a conversion the checker accepts
\* implicitly (an assignment, a return, an argument) it also accepts
\* written as an explicit conversion (ImplicitImpliesExplicit), for every
\* width bound and every set of well-formed scalar types.
THEOREM ImplicitToExplicit == Spec => []ImplicitImpliesExplicit
<1>1. Recorded => ImplicitImpliesExplicit
  <2> SUFFICES ASSUME Recorded, Typed("conversion"), type.direct
               PROVE  type.explicit
    BY DEF ImplicitImpliesExplicit
  <2>1. expr.from \in ScalarTypeSet /\ expr.to \in ScalarTypeSet
    BY ConversionExpr DEF Recorded, Typed, UniverseAssumption
  <2>2. type.direct = Implicit(expr.from, expr.to)
        /\ type.explicit = Explicit(expr.from, expr.to)
    BY DEF Recorded, Typed
  <2> QED BY <2>1, <2>2, ImplicitExplicit
<1> QED BY <1>1, RecordedInit, RecordedStep, PTL DEF Spec

-----------------------------------------------------------------------------
(* The operator vetoes (binaryOperatorResult, lines 432-473, 574-601,     *)
(* 808-930, 1136-1155, 1193-1200). What a rule returns depends on the     *)
(* category of the common type only: the vetoes hold whatever the         *)
(* literals' values, so no rational is ever computed in these proofs.     *)

\* The vetoes OperatorVetoes states of a result r of operator op.
Vetoes(r, op) ==
    /\ r.cat = "Integer" =>
           /\ op \notin BooleanOps
           /\ op = "Exp" => ~Signed(r)
           /\ IsAddress(r) => op \in CompareOps
    /\ r.cat = "FixedBytes" => op \in CompareOps \cup BitOps \cup ShiftOps
    /\ r.cat = "Bool" => op \in CompareOps \cup BooleanOps

\* A literal's mobile type is none, a sized integer that is not an
\* address, or a fixed point type (integerType, lines 992-1006;
\* fixedPointType, lines 1008-1042).
LEMMA LiteralMobile ==
    ASSUME NEW a \in Literals
    PROVE  \/ MobileType(a) = None
           \/ MobileType(a).cat = "Integer" /\ ~IsAddress(MobileType(a))
           \/ MobileType(a).cat = "FixedPoint"
<1>1. CASE Fractional(a)
  <2>1. FixedPointTypeOf(a) = None \/ FixedPointTypeOf(a).cat = "FixedPoint"
    BY DEF FixedPointTypeOf, Fixed
  <2>2. QED
    BY <1>1, <2>1 DEF MobileType, Literals
<1>2. CASE ~Fractional(a)
  <2>1. \/ IntegerTypeOf(a) = None
        \/ IntegerTypeOf(a).cat = "Integer" /\ ~IsAddress(IntegerTypeOf(a))
    BY <1>2 DEF IntegerTypeOf, IntegerT, IsAddress
  <2>2. QED
    BY <1>2, <2>1 DEF MobileType, Literals
<1>3. QED
  BY <1>1, <1>2

\* Type::commonType (lines 252-262) of an integer type is none, the type
\* itself or the other operand's mobile type when the integer converts to
\* it, which IntegerType allows only for integer and fixed point types.
LEMMA IntegerCommon ==
    ASSUME NEW a, a.cat = "Integer", NEW b
    PROVE  \/ CommonType(a, b) = None
           \/ CommonType(a, b).cat \in {"Integer", "FixedPoint"}
<1>1. MobileType(a) = a
  BY DEF MobileType
<1>2. Implicit(a, MobileType(b)) => MobileType(b).cat \in {"Integer", "FixedPoint"}
  BY DEF Implicit, IntegerImplicit
<1>3. QED
  BY <1>1, <1>2 DEF CommonType, CommonTypeOf

\* ... and of a fixed point type, none or a fixed point type.
LEMMA FixedCommon ==
    ASSUME NEW a, a.cat = "FixedPoint", NEW b
    PROVE  CommonType(a, b) = None \/ CommonType(a, b).cat = "FixedPoint"
<1>1. MobileType(a) = a
  BY DEF MobileType
<1>2. Implicit(a, MobileType(b)) => MobileType(b).cat = "FixedPoint"
  BY DEF Implicit, FixedImplicit
<1>3. QED
  BY <1>1, <1>2 DEF CommonType, CommonTypeOf

\* ... and of a fixed bytes type, none or a fixed bytes type.
LEMMA BytesCommon ==
    ASSUME NEW a, a.cat = "FixedBytes", NEW b
    PROVE  CommonType(a, b) = None \/ CommonType(a, b).cat = "FixedBytes"
<1>1. MobileType(a) = a
  BY DEF MobileType
<1>2. Implicit(a, MobileType(b)) => MobileType(b).cat = "FixedBytes"
  BY DEF Implicit, BytesImplicit
<1>3. QED
  BY <1>1, <1>2 DEF CommonType, CommonTypeOf

\* IntegerType::binaryOperatorResult keeps the vetoes whenever its common
\* type is none, an integer or a fixed point type: a shift yields the
\* left type only when it is not an address, and every integer result
\* past the comparisons has been checked against boolean operators,
\* addresses and a signed EXP.
LEMMA IntegerRule ==
    ASSUME NEW a, a.cat = "Integer", NEW op, NEW b, NEW c,
           c = None \/ c.cat \in {"Integer", "FixedPoint"}
    PROVE  Vetoes(IntegerBinaryOn(a, op, b, c), op)
<1>1. Vetoes(None, op) /\ Vetoes(InternalError, op)
  BY DEF Vetoes, None, InternalError
<1>2. op \in ShiftOps /\ ~IsAddress(a) => Vetoes(ShiftResult(a, op, b), op)
  BY <1>1 DEF ShiftResult, Vetoes, ShiftOps, BooleanOps
<1>3. op \in CompareOps => Vetoes(c, op)
  BY <1>1 DEF Vetoes, CompareOps, BooleanOps
<1>4. /\ op \notin ShiftOps \cup CompareOps \cup BooleanOps
      /\ ~(c.cat = "Integer" /\ (IsAddress(c) \/ (op = "Exp" /\ Signed(c))))
      => Vetoes(c, op)
  BY <1>1 DEF Vetoes
<1>5. QED
  BY <1>1, <1>2, <1>3, <1>4 DEF IntegerBinaryOn

\* FixedPointType::binaryOperatorResult returns none or its common type,
\* a fixed point type, which no veto concerns.
LEMMA FixedRule ==
    ASSUME NEW a, NEW op, NEW b, NEW c, c = None \/ c.cat = "FixedPoint"
    PROVE  Vetoes(FixedBinaryOn(a, op, b, c), op)
<1>1. Vetoes(None, op) /\ Vetoes(c, op)
  BY DEF Vetoes, None
<1>2. QED
  BY <1>1 DEF FixedBinaryOn

\* FixedBytesType::binaryOperatorResult: a shift yields the bytes type,
\* otherwise only comparisons and bit operators yield the common type.
LEMMA BytesRule ==
    ASSUME NEW a, a.cat = "FixedBytes", NEW op, NEW b, NEW c,
           c = None \/ c.cat = "FixedBytes"
    PROVE  Vetoes(BytesBinaryOn(a, op, b, c), op)
<1>1. Vetoes(None, op) /\ Vetoes(InternalError, op)
  BY DEF Vetoes, None, InternalError
<1>2. op \in ShiftOps => Vetoes(ShiftResult(a, op, b), op)
  BY <1>1 DEF ShiftResult, Vetoes
<1>3. op \in CompareOps \cup BitOps => Vetoes(c, op)
  BY <1>1 DEF Vetoes
<1>4. QED
  BY <1>1, <1>2, <1>3 DEF BytesBinaryOn

\* The exact arithmetic of two literals yields a literal, none, or the
\* assertion failure of rational(d, 0).
LEMMA ArithShape ==
    ASSUME NEW a, NEW op, NEW b
    PROVE  RationalArith(a, op, b).cat \in {"RationalNumber", "None", "InternalError"}
<1>1. \A n, d : Rat(n, d).cat = "RationalNumber"
  BY DEF Rat
<1>2. QED
  BY <1>1 DEF RationalArith, None, InternalError

\* The scalar categories.
LEMMA ScalarCats ==
    ASSUME NEW a \in ScalarTypeSet
    PROVE  /\ a.cat \in {"Integer", "FixedPoint", "RationalNumber", "FixedBytes", "Bool"}
           /\ a.cat = "RationalNumber" => a \in Literals
BY DEF ScalarTypeSet, IntegerT, Fixed, Bytes, Bool, Literals

\* Whatever two scalar types the type checker combines with whatever
\* operator, the left operand's binaryOperatorResult respects the vetoes.
LEMMA ResultVetoed ==
    ASSUME NEW a \in ScalarTypeSet, NEW op, NEW b \in ScalarTypeSet
    PROVE  Vetoes(BinaryOperatorResult(a, op, b), op)
<1>1. CASE a.cat = "Integer"
  <2>1. Vetoes(IntegerBinaryOn(a, op, b, CommonType(a, b)), op)
    BY <1>1, IntegerCommon, IntegerRule
  <2>2. QED
    BY <1>1, <2>1 DEF BinaryOperatorResult, IntegerBinary
<1>2. CASE a.cat = "FixedPoint"
  <2>1. Vetoes(FixedBinaryOn(a, op, b, CommonType(a, b)), op)
    BY <1>2, FixedCommon, FixedRule
  <2>2. QED
    BY <1>2, <2>1 DEF BinaryOperatorResult, FixedBinary
<1>3. CASE a.cat = "RationalNumber"
  <2> DEFINE ma == MobileType(a)
             mb == MobileType(b)
  <2>1. Vetoes(None, op)
    BY DEF Vetoes, None
  <2>2. Vetoes(RationalArith(a, op, b), op)
    BY ArithShape DEF Vetoes
  <2>3. ma # None => Vetoes(MobileBinary(ma, op, mb), op)
    <3>1. a \in Literals
      BY <1>3, ScalarCats
    <3>2. CASE ma.cat = "Integer"
      <4>1. Vetoes(IntegerBinaryOn(ma, op, mb, CommonType(ma, mb)), op)
        BY <3>2, IntegerCommon, IntegerRule
      <4>2. QED
        BY <3>2, <4>1 DEF MobileBinary, IntegerBinary
    <3>3. CASE ma.cat = "FixedPoint"
      <4>1. Vetoes(FixedBinaryOn(ma, op, mb, CommonType(ma, mb)), op)
        BY <3>3, FixedCommon, FixedRule
      <4>2. QED
        BY <3>3, <4>1 DEF MobileBinary, FixedBinary
    <3>4. QED
      BY <3>1, <3>2, <3>3, LiteralMobile DEF ma
  <2>4. QED
    BY <1>3, <2>1, <2>2, <2>3 DEF BinaryOperatorResult, RationalBinary, RationalBinaryOn, ma, mb
<1>4. CASE a.cat = "FixedBytes"
  <2>1. Vetoes(BytesBinaryOn(a, op, b, CommonType(a, b)), op)
    BY <1>4, BytesCommon, BytesRule
  <2>2. QED
    BY <1>4, <2>1 DEF BinaryOperatorResult, BytesBinary
<1>5. CASE a.cat = "Bool"
  BY <1>5 DEF BinaryOperatorResult, BoolBinary, Vetoes, None
<1>6. QED
  BY <1>1, <1>2, <1>3, <1>4, <1>5, ScalarCats

\* The vetoes the specification states for integers, fixed bytes and
\* bools hold of every binary operation the type checker types, for every
\* width bound and every pair of scalar operands: binaryOperatorResult
\* never accepts a boolean operator on numbers, an EXP on a signed
\* integer, arithmetic on addresses or on fixed bytes, or a non-boolean
\* operator on bools (OperatorVetoes).
THEOREM VetoesHold == Spec => []OperatorVetoes
<1>1. Recorded => OperatorVetoes
  <2> SUFFICES ASSUME Recorded, Typed("binary")
               PROVE  Vetoes(type.result, expr.op)
    BY DEF OperatorVetoes, Vetoes
  <2>1. expr.lhs \in ScalarTypeSet /\ expr.rhs \in ScalarTypeSet
    BY BinaryExpr DEF Recorded, Typed, UniverseAssumption
  <2>2. type.result = BinaryOperatorResult(expr.lhs, expr.op, expr.rhs)
    BY DEF Recorded, Typed
  <2>3. QED
    BY <2>1, <2>2, ResultVetoed
<1>2. QED
  BY <1>1, RecordedInit, RecordedStep, PTL DEF Spec
=============================================================================
