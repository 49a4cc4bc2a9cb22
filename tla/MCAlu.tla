--------------------------------- MODULE MCAlu ---------------------------------
(***************************************************************************)
(* The arithmetic unit alone, over the field of 2^9 elements.              *)
(***************************************************************************)
VARIABLES op, in, pb, executed

F == INSTANCE BinaryField
Alu == INSTANCE Instructions WITH
    \oplus <- F!\oplus, \odot <- F!\odot, inverse <- F!inverse, power <- F!power,
    xPower <- F!xPower, log <- F!log, invExtrConst <- F!invExtrConst,
    extractBit <- F!extractBit

Spec == Alu!Spec

\* UDIV gives the quotient and UMOD the remainder (ALU_UTEST.cpp), and the
\* witness of either satisfies its constraints, "dividor!=0 -> res*divisor +
\* remainder == arg1" among them (ALU.cpp).
AluDivides == Alu!AluDivides
=============================================================================
