------------------------------- MODULE Rijndael -------------------------------
(***************************************************************************)
(* The arithmetic of GF(2^64) over the bytes of AES.                       *)
(***************************************************************************)
EXTENDS DpmRegisters

CONSTANTS \* the arithmetic of the bytes; module ByteArithmetic
    byteSum(_, _),
    byteProduct(_, _),
    byteInverse(_)

a (+) b ==
    only({<<byteSum(d[1], e[1]), byteSum(d[2], e[2]), byteSum(d[3], e[3]),
            byteSum(d[4], e[4]), byteSum(d[5], e[5]), byteSum(d[6], e[6]),
            byteSum(d[7], e[7]), byteSum(d[8], e[8])>> : d \in {a}, e \in {b}})

scale(a, b) ==
    only({<<byteProduct(k, e[1]), byteProduct(k, e[2]), byteProduct(k, e[3]),
            byteProduct(k, e[4]), byteProduct(k, e[5]), byteProduct(k, e[6]),
            byteProduct(k, e[7]), byteProduct(k, e[8])>> : k \in {a}, e \in {b}})

\* x^8, by the minimal polynomial of x over the bytes.
xFE_8 == <<48, 51, 197, 31, 249, 75, 255, 3>>
timesX(a) ==
    only({<<0, e[1], e[2], e[3], e[4], e[5], e[6], e[7]>> (+) scale(e[8], xFE_8)
            : e \in {a}})

\* The sum of s[i] * x^(i - 1).
pack(s) ==
    LET from[i \in 1 .. Len(s) + 1] ==
            IF i > Len(s) THEN zero
            ELSE only({s[i] (+) timesX(rest) : rest \in {from[i + 1]}})
    IN from[1]

a (.) b ==
    only({IF isByte(d) THEN scale(d[1], e)
          ELSE IF isByte(e) THEN scale(e[1], d)
          ELSE pack([i \in 1 .. 8 |-> scale(d[i], e)]) : d \in {a}, e \in {b}})

square(a) == only({e (.) e : e \in {a}})

xPower(n) ==
    LET upTo[k \in 0 .. n] == IF k = 0 THEN one ELSE timesX(upTo[k - 1])
    IN upTo[n]

\* The conjugate e^256: it leaves the bytes as they are.
conjugateOfX ==
    square(square(square(square(square(square(square(square(xFE))))))))
conjugate(a) ==
    LET from(e, x) ==
            LET rest[i \in 1 .. 9] ==
                    IF i = 9 THEN zero
                    ELSE only({byte(e[i]) (+) (r (.) x) : r \in {rest[i + 1]}})
            IN rest[1]
    IN only({from(e, x) : e \in {a}, x \in {conjugateOfX}})

\* The product of e with its seven conjugates is a byte.
inverse(a) ==
    LET conjugates(e) ==
            LET upTo[k \in 1 .. 7] ==
                    IF k = 1 THEN conjugate(e)
                    ELSE only({conjugate(e (.) r) : r \in {upTo[k - 1]}})
            IN upTo[7]
        over(e, rest) == scale(byteInverse((rest (.) e)[1]), rest)
    IN only({IF isByte(e) THEN byte(byteInverse(e[1]))
             ELSE only({over(e, rest) : rest \in {conjugates(e)}}) : e \in {a}})
=============================================================================
