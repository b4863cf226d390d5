---------------------------- MODULE MCScalarTypes ----------------------------
(* Scalar types at widths up to 16 bits, two fractional digits and          *)
(* exponents up to 2: every integer and fixed point width below the bound,  *)
(* literals at the edges of the 8- and 16-bit ranges, beyond every range,   *)
(* and fractional ones.                                                      *)
EXTENDS ScalarTypes

MCMaxBits == 16
MCMaxDigits == 2
MCExpLimit == 2

MCUniverse ==
    {IntegerT(b, m) : b \in {8, 16}, m \in {"Signed", "Unsigned"}}
    \cup {IntegerT(16, "Address")}
    \cup {Fixed(b, d, s) : b \in {8, 16}, d \in {0, 2}, s \in BOOLEAN}
    \cup {Rat(n, 1) : n \in {0, 1, 200, 300, -1, -128, -129, 65536}}
    \cup {Rat(1, 2), Rat(-3, 2), Rat(1, 3)}
    \cup {Bytes(1), Bytes(2), Bool}

MCOps == {"Add", "Exp", "Mod", "BitAnd", "SHL", "SAR", "SHR", "LessThan", "And"}
MCUnaryOps == {"Delete", "Not", "BitNot", "Sub", "Inc"}
\* The operators that reach an internal error: the shifts, whose amount
\* may be a fractional literal, and EXP and MOD between literals.
MCInternalErrorOps == {"SHL", "SAR", "SHR", "Exp", "Mod"}
=============================================================================
