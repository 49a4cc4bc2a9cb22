------------------------------- MODULE Reduction -------------------------------
(***************************************************************************)
(* The reduction of a BAIR instance and its witness to ACSP                *)
(* (libstark/src/reductions/BairToAcsp): the witness is embedded into the  *)
(* layers of the ACSP witness, the permuted variables through the routing  *)
(* network of module Routing, and the constraints become tests that read   *)
(* the layers through neighbour polynomials.                               *)
(*                                                                         *)
(* The colour of variable v in row i is a value of its own, different from *)
(* every other, so a test that reads a wrong cell is told apart.  Rows,    *)
(* columns and layers are laid out in the bits of a field element exactly  *)
(* as in the code; the instances stay below x^9, so that the products by x *)
(* and by the moduli are never reduced, as in GF(2^64).                    *)
(***************************************************************************)
EXTENDS Routing, TLC

CONSTANT
    Instances   \* records [net, k, vars, routed, permutation]

VARIABLES
    instance,
    stage,      \* "rout", "chi", "network", "verify", "done"
    row,        \* the next row of mapNetwork
    mapping,    \* the witness, from cells <<layer, index>> to values
    accepted

vars == <<networkVars, instance, stage, row, mapping, accepted>>

domainSize == 2^instance.k - 1
numVars == instance.vars
routed == instance.routed

\* getVarLocation(v).index
location(v) == Cardinality({u \in 0 .. v - 1 : (u \in routed) = (v \in routed)})

color(i, v) == 2 + i * numVars + v

\* paddingPi, the colour of the vector that is added.
padding(v) == color(domainSize, v)
random == 2 + (domainSize + 1) * numVars

-----------------------------------------------------------------------------
(* Sizes. *)

findPrimitive(dim) == <<1, 2, 7, 11, 19>>[dim + 1]

heightDim == instance.k
widthDim == IF routed = {} THEN 0 ELSE CeilLog2(heightDim + 2)
imageWidth == 2^widthDim
permutationLayers == IF routed = {} THEN 0 ELSE 2 * (1 + Cardinality(routed))
vanishingLayersDim ==
    CeilLog2(permutationLayers + ((2 + imageWidth - 1) \div imageWidth))
vanishingSpace == 0 .. 2^(heightDim + widthDim + vanishingLayersDim) - 1

rowsModulus == findPrimitive(heightDim)
columnsModulus == findPrimitive(widthDim)

\* x^e modulo a polynomial of degree dim, by repeated shifts.
xPowerModulo(e, modulus, dim) ==
    LET reduced(r) == IF r >= 2^dim THEN r (+) modulus ELSE r
        res[i \in 0 .. e] == IF i = 0 THEN 1 ELSE reduced(2 * res[i - 1])
    IN res[e]

-----------------------------------------------------------------------------
(* Where a value lives. *)

rowIndex(i) == xPowerModulo(i, rowsModulus, heightDim)

columnIndex(c) == xPowerModulo(c, columnsModulus, widthDim) * 2^heightDim

layerIndex(l) == l * 2^(heightDim + widthDim)

permutationElement(column, layer) == columnIndex(column) (+) layerIndex(layer)

firstNonPermUsableIndex == imageWidth * permutationLayers
nonPermutationElement(id) == (firstNonPermUsableIndex + id) * 2^heightDim

witnessIndex(i) ==
    <<i \div 2^(heightDim + widthDim), i % 2^(heightDim + widthDim)>>

mapVariable(v) ==
    witnessIndex(IF v \in routed THEN permutationElement(0, 2 * location(v))
                 ELSE nonPermutationElement(location(v)))

-----------------------------------------------------------------------------
(* The embedding of the witness. *)

expPerm(n, i) ==
    IF i = 2^n - 1 THEN 0 ELSE xPowerModulo(i, findPrimitive(n), n)
logPerm(n, e) == CHOOSE i \in 0 .. 2^n - 1 : expPerm(n, i) = e

\* The permutation of the instance, with the added vector fixed, conjugated
\* by the numbering of the rows.
permToRout(in) ==
    [e \in 0 .. 2^in.k - 1 |->
        LET i == logPerm(in.k, e)
        IN expPerm(in.k, IF i = 2^in.k - 1 THEN i ELSE in.permutation[i])]

sequenceToRout(in) ==
    IF in.net = "symmetric" THEN fixIndexes(permToRout(in), in.k)
    ELSE straightSequence(permToRout(in), in.k)

Init ==
    /\ instance \in Instances
    /\ constructBenes(instance.k, sequenceToRout(instance))
    /\ stage = "rout" /\ row = 0 /\ mapping = <<>> /\ accepted = FALSE

Rout ==
    /\ stage = "rout"
    /\ \/ Route /\ UNCHANGED stage
       \/ /\ Routed
          /\ stage' = IF instance.net = "symmetric" THEN "chi" ELSE "done"
          /\ UNCHANGED networkVars
    /\ UNCHANGED <<instance, row, mapping, accepted>>

Written(writes) ==
    [cell \in {w[1] : w \in writes} |-> (CHOOSE w \in writes : w[1] = cell)[2]]

mapChi ==
    /\ stage = "chi"
    /\ mapping' =
         Written({<<witnessIndex(rowIndex(i) (+) nonPermutationElement(location(v))),
                    color(i, v)>> :
                  i \in 0 .. domainSize - 1, v \in (0 .. numVars - 1) \ routed})
    /\ stage' = IF routed = {} THEN "verify" ELSE "network"
    /\ UNCHANGED <<networkVars, instance, row, accepted>>

networkCell(column, layer) == witnessIndex(row (+) permutationElement(column, layer))

\* One row of the two wings: the routed variables, and the routing bits of
\* every column but the last.
mapNetwork ==
    /\ stage = "network" /\ row \in labels
    /\ mapping' =
         Written({<<networkCell(c, 2 * location(v) + net),
                    color(logPerm(degree, wingDataID(net, c, row)), v)>> :
                  net \in {0, 1}, c \in 0 .. halfWidth - 1, v \in routed}
                 \cup
                 {<<networkCell(c, 2 * Cardinality(routed) + net),
                    bit(wingRoutingBit(net, c, row))>> :
                  net \in {0, 1}, c \in 0 .. halfWidth - 2})
         @@ mapping
    /\ row' = row + 1
    /\ stage' = IF row + 1 \in labels THEN stage ELSE "verify"
    /\ UNCHANGED <<networkVars, instance, accepted>>

-----------------------------------------------------------------------------
(* The tests of the reduced instance.                                      *)

\* The cells that no map writes hold random values.
read(layer, x) ==
    IF <<layer, x>> \in DOMAIN mapping THEN mapping[<<layer, x>>] ELSE random

\* Whether the polynomial that vanishes on the span of x^i, i in bits, has
\* the same value at x and at shift.
agrees(x, bits, shift) ==
    \A i \in 0 .. ExtensionDegree - 1 : isBit(x (+) shift, i) => i \in bits
rowBits == 0 .. heightDim - 1
inColumn(x, shift) == agrees(x, rowBits, shift)

testLocation(constraint) == nonPermutationElement(constraint)
zeroRow(constraint) == testLocation(constraint)
lastRow(constraint) == testLocation(constraint) (+) (rowsModulus \div 2)

\* The neighbours of a test at x, each with the layer it reads.
moveTo(cell, location0, x) == read(cell[1], x (+) cell[2] (+) location0)

permCS(x, v) ==
    IF v < numVars THEN moveTo(mapVariable(v), testLocation(0), x)
    ELSE moveTo(witnessIndex(permutationElement(0, 2 * location(v - numVars) + 1)),
                testLocation(0), x)

nextRow(x, withCarry) ==
    (xFE (.) (x (+) testLocation(1))) (+) (IF withCarry THEN rowsModulus ELSE zero)

assignmentCS(x, v, withCarry) ==
    IF v < numVars THEN moveTo(mapVariable(v), testLocation(1), x)
    ELSE moveTo(mapVariable(v - numVars), zero, nextRow(x, withCarry))

idNeighbor(x, layer) == read(layer, x (+) layerIndex(layer))
twinLayer(x, layer) == read(layer (+) 1, x (+) layerIndex(layer))
routingBit(x, layer) ==
    read(2 * Cardinality(routed) + (layer % 2), x (+) layerIndex(layer))

mutantFixRowIdCarry == 2^heightDim
fixRowIdCarry == one (+) 2^heightDim
fixColumnIdCarry == columnsModulus (.) 2^heightDim
fixByCoset(c) ==
    (IF isBit(c, 0) THEN fixColumnIdCarry ELSE zero)
      (+) (IF isBit(c, 1) THEN fixRowIdCarry ELSE zero)

deBruijn(x, n, cosetId, layer) ==
    read(layer, (xFE (.) (x (+) layerIndex(layer) (+) bit(n = 1)))
                    (+) fixByCoset(cosetId))

\* The BAIR constraint systems: the pairs of rows the witness has.
constraintsPi(a) ==
    \E i \in 0 .. domainSize - 2 :
        /\ \A v \in 0 .. numVars - 1 : a[v] = color(i, v)
        /\ \A v \in routed : a[v + numVars] = color(instance.permutation[i], v)
constraintsChi(a) ==
    \E i \in 0 .. domainSize - 2 :
        \A v \in 0 .. numVars - 1 :
            a[v] = color(i, v) /\ a[v + numVars] = color(i + 1, v)

\* A summand P / (Z_S + c) * W is a polynomial when P or W is zero wherever
\* the denominator is: the tests below have the form
\*    the denominator is zero at x => some factor of W is, or P is.

permutationCS_test(x) ==
    inColumn(x, testLocation(0)) =>
        \/ x \in {zeroRow(0), lastRow(0)}
        \/ constraintsPi([v \in (0 .. numVars - 1) \cup {r + numVars : r \in routed}
                             |-> permCS(x, v)])

\* The rows whose top bit is set are reduced when they are multiplied by x.
assignmentCS_test(x) ==
    LET holds(withCarry) ==
            constraintsChi([v \in 0 .. 2 * numVars - 1 |->
                                assignmentCS(x, v, withCarry)])
        noCarry == 0 .. heightDim - 2
        carryBit == 2^(heightDim - 1)
        usesVarFromNextLine == \E v \in 0 .. 2 * numVars - 1 : v > numVars
    IN /\ agrees(x, noCarry, testLocation(1)) => x = zeroRow(1) \/ holds(FALSE)
       /\ usesVarFromNextLine /\ agrees(x, noCarry, carryBit (+) testLocation(1))
            => x = lastRow(1) \/ holds(TRUE)

lastColumn == columnIndex(imageWidth - 2)
inLayer(layer, x) == x (+) layerIndex(layer)
layerBits == 0 .. heightDim + widthDim - 1
atEnds(x, l) == \/ inColumn(x, layerIndex(l))
                \/ inColumn(x, inLayer(l, lastColumn))

booleanityTest(x, l) ==
    agrees(x, layerBits, layerIndex(l)) =>
        atEnds(x, l) \/ idNeighbor(x, l) \in {zero, one}

equivalenceTest(x, l) ==
    inColumn(x, inLayer(l, lastColumn)) => idNeighbor(x, l) = twinLayer(x, l)

constValTest(x, l, v) ==
    x = permutationElement(0, l) => idNeighbor(x, l) = padding(v)

\* The top bits of the column and of the row tell the cosets apart.
cosetShift(c) ==
    (IF isBit(c, 0) THEN 2^(heightDim + widthDim - 1) ELSE 0)
      + (IF isBit(c, 1) THEN 2^(heightDim - 1) ELSE 0)
DeBruijnRoutingTest(x, l, c) ==
    agrees(x, layerBits \ {heightDim + widthDim - 1, heightDim - 1},
           inLayer(l, cosetShift(c))) =>
        \/ atEnds(x, l)
        \/ idNeighbor(x, l) = deBruijn(x, routingBit(x, l), c, l)

routingNetwork_test(x) ==
    LET firstBits == 2 * Cardinality(routed)
    IN /\ \A l \in firstBits .. firstBits + 1 : booleanityTest(x, l)
       /\ \A v \in routed : equivalenceTest(x, 2 * location(v))
       /\ \A v \in routed, net \in {0, 1} : constValTest(x, 2 * location(v) + net, v)
       /\ \A l \in 0 .. firstBits - 1, c \in 0 .. 3 : DeBruijnRoutingTest(x, l, c)

\* addSummand stops the program at a shift outside of the vanishing space.
shiftsInSpace ==
    {testLocation(0), lastRow(0), testLocation(1), lastRow(1),
     2^(heightDim - 1) (+) testLocation(1)}
    \cup (IF routed = {} THEN {}
          ELSE {inLayer(l, y) : l \in 0 .. permutationLayers - 1,
                                y \in {lastColumn, cosetShift(3)}})
        \subseteq vanishingSpace

boundaryConstraints ==
    \A i \in 0 .. domainSize - 1, v \in 0 .. numVars - 1 :
        LET cell == mapVariable(v)
        IN read(cell[1], cell[2] (+) rowIndex(i)) = color(i, v)

\* AcspWitnessChecker: the constraint polynomial at every point of the
\* vanishing space, then the boundary.  The degrees, which it checks between
\* them, are those of interpolations over the image space.
verify ==
    /\ stage = "verify"
    /\ accepted' = /\ shiftsInSpace
                   /\ \A x \in vanishingSpace :
                         /\ permutationCS_test(x)
                         /\ assignmentCS_test(x)
                         /\ routed # {} => routingNetwork_test(x)
                   /\ boundaryConstraints
    /\ stage' = "done"
    /\ UNCHANGED <<networkVars, instance, row, mapping>>

Next == Rout \/ mapChi \/ mapNetwork \/ verify

Spec == Init /\ [][Next]_vars

-----------------------------------------------------------------------------
\* A routed network carries the datum of every node to the neighbour that the
\* routing bit names, from a first column in order to the permuted last one.
NetworkRoutes ==
    LET p == permToRout(instance)
    IN IF instance.net = "symmetric"
       THEN /\ \A w \in labels : longDataID(0, w) = w /\ longDataID(longWidth - 1, w) = p[w]
            /\ \A w \in labels, l \in 0 .. longWidth - 2 :
                  longDataID(l, w) =
                    longDataID(l + 1, longNeighbor(l, w, longRoutingBit(l, w)))
            /\ \A w \in labels, l \in 0 .. halfWidth - 2, net \in {0, 1} :
                  wingDataID(net, l, w) =
                    wingDataID(net, l + 1, wingNeighbor(w, wingRoutingBit(net, l, w)))
       ELSE /\ \A w \in labels : /\ straightDataID(0, w) = w
                                 /\ straightDataID(straightWidth - 1, w) = p[w]
            /\ \A w \in labels, l \in 0 .. straightWidth - 2 :
                  straightDataID(l, w) =
                    straightDataID(l + 1, shiftRight(w, 1) (+) bit(straightRoutingBit(l, w)))

\* The reduction is complete.  The network the Benes loop has routed takes
\* every datum along its edges to its place, and the ACSP witness that
\* reduceWitness lays out, ZK padding included, passes every test of the
\* instance that reduceInstance builds: each neighbour polynomial reads the
\* cell its test means, carries and the last row included, and every shift
\* lies in the vanishing space, outside of which addSummand stops.
ReductionRight ==
    /\ stage = "rout" /\ Routed => NetworkRoutes
    /\ stage = "done" /\ instance.net = "symmetric" => accepted
=============================================================================
