--------------------------------- MODULE Haifa ---------------------------------
(***************************************************************************)
(* The hash interface of SWIFFTX (crypto/SWIFFTX, SHA3.c): Init, Update,   *)
(* Final, Hash and SetSalt over the HAIFA construction.                    *)
(*                                                                         *)
(* The compression function is free: the current output block is the       *)
(* sequence of the blocks compressed so far, each with its part of the     *)
(* message, its bit counter, its salt and whether it is smoothed.  A cell  *)
(* is a byte of the message, told apart by its place, or a byte of the     *)
(* padding.  Bytes have ByteBits bits, blocks InputBytes bytes and the bit *)
(* counters CounterSize digits in base 2^ByteBits; in the code these are   *)
(* 8, 175 and 8.  The bits of a last byte past the end of the message are  *)
(* taken to be zero, as the interface's test vectors have them.            *)
(***************************************************************************)
EXTENDS Integers, Sequences

CONSTANTS
    ByteBits, InputBytes, CounterSize,
    Lengths,        \* the databitlen of an Update
    MaxUpdates,     \* bound on the calls of Update of one computation
    HashLengths     \* the databitlen of a Hash

VARIABLES
    caller,         \* "none", "stream", or "hash": Hash runs the loop itself
    pc,             \* "idle", "update" (in the loop of Update) or "done"
    saltValueChar,  \* the global default, which SetSalt writes
    salt, wasUpdated, remaining, remainingSize, numOfBits, currOutputBlock,
    data,           \* the byte of the message that the data pointer is at
    databitlen,     \* what is left of the current call
    wasSingleBlockHandled,
    hashLeft,       \* what Hash has not given to Update yet
    updates,
    accepted, rejected   \* history: the bits taken, a refused call

hashState == <<salt, wasUpdated, remaining, remainingSize, numOfBits,
               currOutputBlock>>
hashVars == <<caller, pc, saltValueChar, hashState, data, databitlen,
          wasSingleBlockHandled, hashLeft, updates, accepted, rejected>>

Base == 2^ByteBits
BlockBits == InputBytes * ByteBits

\* A block and its counter have room for the padding, and the bits of a block
\* fit two digits of the counter with a carry.
ASSUME HashAssumption ==
    /\ ByteBits \in Nat \ {0} /\ Base \in Nat /\ Base >= 2
    /\ CounterSize \in Nat \ {0} /\ InputBytes \in Nat /\ InputBytes >= CounterSize + 2
    /\ BlockBits < Base * (Base - 1)
    /\ Lengths \subseteq Nat /\ HashLengths \subseteq Nat

ZeroByte == <<"zero">>
OneByte == <<"one">>
messageByte(i) == <<"message", i, ByteBits, FALSE>>
partialByte(i, n) == <<"message", i, n, FALSE>>
withOne(cell) == <<"message", cell[2], cell[3], TRUE>>

\* The bytes that memcpy takes from the data: a last partial byte included.
dataByte(i) ==
    LET left == databitlen - (i - data) * ByteBits
    IN IF left >= ByteBits THEN messageByte(i) ELSE partialByte(i, left)

\* A number in CounterSize digits, by repeated division; the most significant
\* digit comes first.
quotientsOf(n) ==
    LET rest[i \in 1 .. CounterSize] ==
            IF i = CounterSize THEN n ELSE rest[i + 1] \div Base
    IN rest
digitsOf(n) == [i \in 1 .. CounterSize |-> quotientsOf(n)[i] % Base]

\* The carries are moved into the digits that are still to be added, which are
\* bytes themselves.
sumsOf(value, currValueInBase256) ==
    LET temp[i \in 1 .. CounterSize] ==
            LET carry == IF i < CounterSize /\ temp[i + 1] > Base - 1 THEN 1 ELSE 0
            IN value[i] + ((currValueInBase256[i] + carry) % Base)
    IN temp
AddToCurrInBase256(value, toAdd) ==
    [i \in 1 .. CounterSize |-> sumsOf(value, digitsOf(toAdd))[i] % Base]

Compressed(input, bits, smooth) ==
    Append(currOutputBlock,
           [input |-> input, bits |-> bits, salt |-> salt, smooth |-> smooth])

-----------------------------------------------------------------------------
NoCounter == [i \in 1 .. CounterSize |-> 0]

HashInit ==
    /\ caller = "none" /\ pc = "idle"
    /\ saltValueChar = "default" /\ salt = "default"
    /\ wasUpdated = FALSE
    /\ remaining = [i \in 0 .. InputBytes |-> ZeroByte] /\ remainingSize = 0
    /\ numOfBits = NoCounter /\ currOutputBlock = <<>>
    /\ data = 0 /\ databitlen = 0 /\ wasSingleBlockHandled = FALSE
    /\ hashLeft = 0 /\ updates = 0 /\ accepted = 0 /\ rejected = FALSE

InitState(who, length) ==
    /\ caller = "none" /\ pc = "idle"
    /\ caller' = who /\ hashLeft' = length
    /\ salt' = saltValueChar
    /\ UNCHANGED <<pc, saltValueChar, wasUpdated, remaining, remainingSize,
                   numOfBits, currOutputBlock, data, databitlen,
                   wasSingleBlockHandled, updates, accepted, rejected>>

\* Of this computation or, before it begins, of an earlier one: the salt that
\* is written is the one the next Init reads.
SetSalt ==
    /\ pc = "idle" /\ ~wasUpdated
    /\ saltValueChar' = "given"
    /\ UNCHANGED <<caller, pc, hashState, data, databitlen, wasSingleBlockHandled,
                   hashLeft, updates, accepted, rejected>>

\* Update up to its loop, which counts the remaining data in bytes.
BeginUpdate(n) ==
    /\ wasUpdated' = TRUE
    /\ LET aligned == remainingSize % ByteBits = 0
       IN IF n = 0 \/ ~aligned
          THEN /\ rejected' = (rejected \/ n > 0)
               /\ UNCHANGED <<pc, remainingSize, databitlen, accepted>>
          ELSE /\ pc' = "update"
               /\ remainingSize' = remainingSize \div ByteBits
               /\ databitlen' = n /\ accepted' = accepted + n
               /\ UNCHANGED rejected
    /\ data' = accepted \div ByteBits
    /\ wasSingleBlockHandled' = FALSE
    /\ updates' = updates + 1
    /\ UNCHANGED <<caller, saltValueChar, salt, remaining, numOfBits,
                   currOutputBlock>>

Update(n) ==
    /\ caller = "stream" /\ pc = "idle" /\ updates < MaxUpdates
    /\ BeginUpdate(n) /\ UNCHANGED hashLeft

\* Hash gives its input block by block; its last call ends the message.
HashChunk(n) == IF n \div ByteBits > InputBytes THEN BlockBits ELSE n
HashUpdate ==
    /\ caller = "hash" /\ pc = "idle" /\ hashLeft >= 0
    /\ BeginUpdate(HashChunk(hashLeft))
    /\ hashLeft' = IF hashLeft \div ByteBits > InputBytes
                   THEN hashLeft - BlockBits ELSE -1

blockIsFull == (databitlen \div ByteBits) + remainingSize >= InputBytes

UpdateBlock ==
    /\ pc = "update" /\ blockIsFull
    /\ LET sizeOfInputAfterRemaining == InputBytes - remainingSize
       IN /\ currOutputBlock' =
               Compressed([i \in 0 .. InputBytes - 1 |->
                              IF i < remainingSize THEN remaining[i]
                              ELSE dataByte(data + i - remainingSize)],
                          numOfBits, FALSE)
          /\ data' = data + sizeOfInputAfterRemaining
          /\ databitlen' = databitlen - sizeOfInputAfterRemaining * ByteBits
    /\ numOfBits' = AddToCurrInBase256(numOfBits, BlockBits)
    /\ wasSingleBlockHandled' = TRUE
    /\ remainingSize' = 0
    /\ UNCHANGED <<caller, pc, saltValueChar, salt, wasUpdated, remaining,
                   hashLeft, updates, accepted, rejected>>

\* The data that is left is kept, behind what remained before or alone.
mutantKeptData ==
    LET from == IF wasSingleBlockHandled THEN 0 ELSE remainingSize
    IN [i \in 0 .. InputBytes |->
           IF i >= from /\ (i - from) * ByteBits < databitlen
           THEN dataByte(data + i) ELSE remaining[i]]
keptData ==
    LET from == IF wasSingleBlockHandled THEN 0 ELSE remainingSize
    IN [i \in 0 .. InputBytes |->
           IF i >= from /\ (i - from) * ByteBits < databitlen
           THEN dataByte(data + i - from) ELSE remaining[i]]

EndUpdate ==
    /\ pc = "update" /\ ~blockIsFull
    /\ remaining' = keptData
    /\ remainingSize' = (IF wasSingleBlockHandled THEN 0
                         ELSE remainingSize * ByteBits) + databitlen
    /\ databitlen' = 0
    /\ pc' = "idle"
    /\ UNCHANGED <<caller, saltValueChar, salt, wasUpdated, numOfBits,
                   currOutputBlock, data, wasSingleBlockHandled, hashLeft,
                   updates, accepted, rejected>>

-----------------------------------------------------------------------------
(* Final. *)

sizeOfLastInputBlock == (remainingSize + 1 + ByteBits - 1) \div ByteBits
numOfZeroBytesInPadding == InputBytes - sizeOfLastInputBlock - CounterSize - 2
toAddFinalBlock == numOfZeroBytesInPadding < 1

withLastOne ==
    [remaining EXCEPT ![sizeOfLastInputBlock - 1] =
        IF remainingSize % ByteBits = 0 THEN OneByte ELSE withOne(@)]

\* The length that the padding records, after blocks of the given bits and with
\* the given size left: up to the end of the byte of the last one.
messageLengthChar(bits, size) ==
    AddToCurrInBase256(bits, ((size + 1 + ByteBits - 1) \div ByteBits) * ByteBits)
messageLength == messageLengthChar(numOfBits, remainingSize)

\* The message length and the digest size end the last block.
tail(i) ==
    LET first == InputBytes - CounterSize - 2
    IN IF i < first + CounterSize THEN <<"length", messageLength[i - first + 1]>>
       ELSE <<"digest size", i - first - CounterSize>>

lastInput ==
    [i \in 0 .. InputBytes - 1 |->
        CASE i < sizeOfLastInputBlock -> withLastOne[i]
          [] ~toAddFinalBlock /\ i >= InputBytes - CounterSize - 2 -> tail(i)
          [] OTHER -> ZeroByte]

addedInput ==
    [i \in 0 .. InputBytes - 1 |->
        IF i < InputBytes - CounterSize - 2 THEN ZeroByte ELSE tail(i)]

Final ==
    /\ pc = "idle"
    /\ \/ caller = "stream"
       \/ caller = "hash" /\ hashLeft < 0
    /\ remaining' = withLastOne
    /\ LET last == Compressed(lastInput, numOfBits, ~toAddFinalBlock)
       IN currOutputBlock' =
            IF toAddFinalBlock
            THEN Append(last, [input |-> addedInput, bits |-> NoCounter,
                               salt |-> salt, smooth |-> TRUE])
            ELSE last
    /\ pc' = "done"
    /\ UNCHANGED <<caller, saltValueChar, salt, wasUpdated, remainingSize,
                   numOfBits, data, databitlen, wasSingleBlockHandled, hashLeft,
                   updates, accepted, rejected>>

HashNext ==
    \/ InitState("stream", 0)
    \/ \E n \in HashLengths : InitState("hash", n)
    \/ SetSalt
    \/ \E n \in Lengths : Update(n)
    \/ HashUpdate
    \/ UpdateBlock
    \/ EndUpdate
    \/ Final

HashSpec == HashInit /\ [][HashNext]_hashVars

-----------------------------------------------------------------------------
(* The blocks of a message, from its length alone: whole bytes and rest     *)
(* more bits, which fill the given number of blocks and part of another.   *)
(* What the length field holds is left to Final's own formula, which rounds *)
(* up to bytes: HashRight is that it comes to the same for every split.     *)

closingPlace == InputBytes - CounterSize - 2

\* The data of the last of these blocks, with the one that ends it, leaves
\* room for the padding.
closesThere(whole, full) == whole + 1 - full * InputBytes < closingPlace

lastByte(whole, rest) ==
    IF rest = 0 THEN OneByte ELSE withOne(partialByte(whole, rest))

lengthOf(whole, full, rest) ==
    messageLengthChar(digitsOf(full * BlockBits),
                      (whole - full * InputBytes) * ByteBits + rest)

closingByte(whole, full, rest, i) ==
    IF i < closingPlace + CounterSize
    THEN <<"length", lengthOf(whole, full, rest)[i - closingPlace + 1]>>
    ELSE <<"digest size", i - closingPlace - CounterSize>>

paddedByte(whole, full, rest, b, i) ==
    LET place == b * InputBytes + i
    IN CASE place < whole -> messageByte(place)
         [] place = whole -> lastByte(whole, rest)
         [] /\ place > whole /\ i >= closingPlace
            /\ b > full \/ closesThere(whole, full) -> closingByte(whole, full, rest, i)
         [] OTHER -> ZeroByte

PaddedBlocks(whole, full, rest, theSalt) ==
    LET number == full + (IF closesThere(whole, full) THEN 1 ELSE 2)
    IN [n \in 1 .. number |->
           [input |-> [i \in 0 .. InputBytes - 1 |->
                          paddedByte(whole, full, rest, n - 1, i)],
            bits |-> IF n - 1 > full THEN NoCounter ELSE digitsOf((n - 1) * BlockBits),
            salt |-> theSalt,
            smooth |-> n = number]]

BlocksOf(bits, theSalt) ==
    LET whole == bits \div ByteBits
    IN PaddedBlocks(whole, whole \div InputBytes, bits % ByteBits, theSalt)

\* A digest depends on the message and on the salt in use alone: however Update
\* is called, with what split and with which refused calls in between, Final has
\* compressed the padded blocks of the bits that were taken, each with the
\* count of the bits before it and all with the salt of the state, and Hash
\* compresses the same ones.  Messages of different lengths never compress the
\* same blocks.
HashRight ==
    pc = "done" =>
        /\ currOutputBlock = BlocksOf(accepted, salt)
        /\ \A other \in Lengths \cup HashLengths :
              other # accepted => BlocksOf(other, salt) # currOutputBlock
=============================================================================
