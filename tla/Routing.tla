-------------------------------- MODULE Routing --------------------------------
(***************************************************************************)
(* The permutation routing networks of the reduction of BAIR to ACSP       *)
(* (libstark/src/reductions/BairToAcsp/Routing): the Benes network and its *)
(* routing loop, and the DeBruijn networks that are read out of it.        *)
(*                                                                         *)
(* A layer is the vector of the data its 2^k nodes hold.  The recursion of *)
(* constructBenes_recursive is unwound into a stack of sub-networks still  *)
(* to be routed, each given by its degree and its offset; one step is one  *)
(* turn of the inner loop.                                                 *)
(***************************************************************************)
EXTENDS FieldOperations, FiniteSetsExt

VARIABLES
    degree,     \* the degree of the network
    rev,        \* the layers of the reverse butterfly
    btrfly,     \* the layers of the butterfly
    work,       \* the calls still to be made, the current one first
    unrouted,   \* the sources of the current call that are not routed yet
    src         \* the source the inner loop looks at next

networkVars == <<degree, rev, btrfly, work, unrouted, src>>

labels == 0 .. 2^degree - 1

\* The least n with 2^n >= a.
CeilLog2(a) == Min({n \in 0 .. 8 : 2^n >= a})

\* Cyclic shifts of a label of degree bits.
shiftLeft(w, s) == ((w * 2^s) % 2^degree) + (w \div 2^(degree - s))
shiftRight(w, s) == shiftLeft(w, degree - s)

\* reverseBits, followed by the shift that leaves the low n bits.
reverseBits(w, n) ==
    FieldSum([i \in 0 .. n - 1 |-> IF isBit(w, i) THEN 2^(n - 1 - i) ELSE 0],
             0, n - 1)

-----------------------------------------------------------------------------
(* The Benes network. *)

\* rout: a sequence that is no permutation stops the program.
isPermutation(p) == \A i \in DOMAIN p : p[i] \in DOMAIN p
                        /\ \A j \in DOMAIN p : p[i] = p[j] => i = j

\* The first layer in order, the last one permuted, the others still the
\* zeros of setSize.
constructBenes(n, p) ==
    /\ isPermutation(p)
    /\ degree = n
    /\ rev = [l \in 0 .. n |-> [i \in 0 .. 2^n - 1 |-> IF l = 0 THEN i ELSE 0]]
    /\ btrfly = [l \in 0 .. n |-> [i \in 0 .. 2^n - 1 |-> IF l = n THEN p[i] ELSE 0]]
    /\ work = <<[k |-> n, offset |-> 0]>>
    /\ unrouted = 0 .. 2^n - 1
    /\ src = 0

current_k == work[1].k
offset == work[1].offset
mask == 2^(current_k - 1)

firstLayer == rev[degree - current_k]
lastLayer == btrfly[current_k]
find(layer, data) == Min({i \in labels : layer[i] = data})

cleared(w) == IF isBit(w, current_k - 1) THEN w - mask ELSE w
raised(w) == IF isBit(w, current_k - 1) THEN w ELSE w + mask
twin(w) == w (+) mask

\* The call returns, or is replaced by the two calls it makes.
Continue(calls) ==
    LET rest == calls \o Tail(work)
    IN /\ work' = rest
       /\ unrouted' = IF rest = <<>> THEN {} ELSE 0 .. 2^rest[1].k - 1
       /\ src' = IF rest = <<>> THEN 0 ELSE rest[1].offset
       /\ UNCHANGED degree

\* The recursion stops at two labels.
RouteTwo ==
    /\ work # <<>> /\ current_k = 1
    /\ rev' = [rev EXCEPT ![degree] =
                  [w \in labels |-> IF w \in {offset, offset + 1}
                                    THEN firstLayer[w] ELSE @[w]]]
    /\ btrfly' = [btrfly EXCEPT ![0] =
                  [w \in labels |-> IF w \in {offset, offset + 1}
                                    THEN lastLayer[w] ELSE @[w]]]
    /\ Continue(<<>>)

\* One turn of the loop: a source and its destination go through the upper
\* half, the twin of the destination and its source through the lower one.
RoutePair ==
    /\ work # <<>> /\ current_k > 1 /\ unrouted # {}
    /\ LET src_indx == IF src - offset \in unrouted THEN src
                       ELSE offset + Min(unrouted)
           currData == firstLayer[src_indx]
           dst_indx == find(lastLayer, currData)
           twinData == lastLayer[twin(dst_indx)]
           src_twin == find(firstLayer, twinData)
       IN /\ rev' = [rev EXCEPT ![degree - current_k + 1] =
                        [[@ EXCEPT ![cleared(src_indx)] = currData]
                            EXCEPT ![raised(src_twin)] = twinData]]
          /\ btrfly' = [btrfly EXCEPT ![current_k - 1] =
                        [[@ EXCEPT ![cleared(dst_indx)] = currData]
                            EXCEPT ![raised(dst_indx)] = twinData]]
          /\ unrouted' = unrouted \ {src_indx - offset, src_twin - offset}
          /\ src' = twin(src_twin)
    /\ UNCHANGED <<degree, work>>

RouteHalves ==
    /\ work # <<>> /\ current_k > 1 /\ unrouted = {}
    /\ Continue(<<[k |-> current_k - 1, offset |-> offset],
                  [k |-> current_k - 1, offset |-> offset + mask]>>)
    /\ UNCHANGED <<rev, btrfly>>

Route == RouteTwo \/ RoutePair \/ RouteHalves

Routed == work = <<>>

\* The two networks in tandem: the layer they share is the first one's last.
benesDataID(l, w) == IF l <= degree THEN rev[l][w] ELSE btrfly[l - degree][w]

-----------------------------------------------------------------------------
(* The symmetric DeBruijn network, and the long one the reduction uses.    *)

\* The sequence handed to the Benes network, so that the first column is
\* read in increasing order.
fixIndexes(p, n) ==
    LET left(w) == ((2 * w) % 2^n) + (w \div 2^(n - 1))
        right(w) == (w \div 2) + (w % 2) * 2^(n - 1)
    IN [i \in 0 .. 2^n - 1 |-> right(p[left(i)])]

btrflyToDebruijn(l, w) == shiftLeft(w, (l + degree - 1) % degree)

symmetricDataID(l, w) ==
    LET orig == btrflyToDebruijn(IF l < degree THEN degree - l ELSE l - degree, w)
    IN shiftLeft(benesDataID(l, orig), 1)

halfWidth == 2^CeilLog2(degree + 2) - 1
longWidth == 2 * halfWidth - 1

longDataID(l, w) ==
    CASE l <= degree -> symmetricDataID(l, w)
      [] l > degree /\ longWidth - 1 - l <= degree ->
            symmetricDataID(2 * degree + 1 - (longWidth - l), w)
      [] l > degree /\ longWidth - 1 - l > degree /\ l < halfWidth ->
            symmetricDataID(degree, shiftRight(w, l - degree))
      [] OTHER ->
            symmetricDataID(degree, shiftRight(w, longWidth - (degree + 1) - l))

\* routingBit: whether the datum goes on to the second neighbour.
longNeighbor(l, w, second) ==
    IF l < halfWidth - 1
    THEN shiftLeft(w, 1) (+) (IF second THEN shiftLeft(1, 1) ELSE 0)
    ELSE shiftRight(w, 1) (+) bit(second)
longRoutingBit(l, w) ==
    longDataID(l, w) = longDataID(l + 1, longNeighbor(l, w, TRUE))

\* The two wings, which meet in the central column.
wingDataID(net, l, w) == longDataID(IF net = 0 THEN l ELSE longWidth - 1 - l, w)
wingNeighbor(w, second) == shiftLeft(IF second THEN w (+) 1 ELSE w, 1)
wingRoutingBit(net, l, w) ==
    wingDataID(net, l, w) = wingDataID(net, l + 1, wingNeighbor(w, TRUE))

-----------------------------------------------------------------------------
(* The straight DeBruijn network: a Benes network with a bit reversal made *)
(* of folds in its middle, and constant routing up to a power of two.      *)

middleMask(w) == IF degree % 2 = 1 /\ isBit(w, degree \div 2) THEN 2^(degree \div 2) ELSE 0
withMiddle(r, w) ==
    IF middleMask(w) # 0 /\ ~isBit(r, degree \div 2) THEN r + middleMask(w) ELSE r

foldLeft(l, w) ==
    LET folded == w \div 2^(degree - l)
    IN withMiddle(w (+) reverseBits(folded, l), w)

foldRight(l, w) ==
    LET folded == (w \div 2^(degree \div 2 - l)) % 2^l
    IN withMiddle(w (+) (reverseBits(folded, l) * 2^(degree - degree \div 2)), w)

ceilHalf == degree - degree \div 2

bitReverseDataID(l, w) ==
    LET left3 == IF l > degree THEN foldLeft(l - degree, w) ELSE w
        l2 == Min({l, degree})
        right2 == IF l2 > ceilHalf THEN foldRight(l2 - ceilHalf, left3) ELSE left3
        l1 == Min({l2, ceilHalf})
    IN CASE l >= degree + ceilHalf -> reverseBits(w, degree)
         [] l < degree + ceilHalf /\ l1 > 0 -> foldLeft(l1, right2)
         [] OTHER -> right2

btrflyBasedDataID(l, w) ==
    LET middle == IF l > degree THEN bitReverseDataID(l - degree, w) ELSE w
    IN reverseBits(IF l >= 3 * degree THEN benesDataID(l - 2 * degree, w)
                   ELSE benesDataID(Min({l, degree}), reverseBits(middle, degree)),
                   degree)

\* rout: the sequence handed to the Benes network by the long network, the
\* DeBruijn network and the butterflies, in this order.
straightSequence(p, n) ==
    LET shifts == (2^CeilLog2(4 * n + 1) - (4 * n + 1)) % n
        back(i) == (i \div 2^shifts) + (i % 2^shifts) * 2^(n - shifts)
        indexes == [i \in 0 .. 2^n - 1 |-> p[back(i)]]
        fixed == fixIndexes(indexes, n)
    IN [i \in 0 .. 2^n - 1 |-> reverseBits(fixed[i], n)]

deBruijnDataID(l, w) ==
    shiftLeft(btrflyBasedDataID(l, shiftLeft(w, (l + degree - 1) % degree)), 1)

straightWidth == 2^CeilLog2(4 * degree + 1)

straightDataID(l, w) ==
    IF l <= 4 * degree THEN deBruijnDataID(l, w)
    ELSE deBruijnDataID(4 * degree, shiftLeft(w, (l - 4 * degree) % degree))

straightRoutingBit(l, w) ==
    /\ l < 4 * degree
    /\ deBruijnDataID(l, w) = deBruijnDataID(l + 1, shiftRight(w, 1) (+) 1)
=============================================================================
