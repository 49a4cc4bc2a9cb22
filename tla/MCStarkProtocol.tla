-------------------------- MODULE MCStarkProtocol --------------------------
(* Three witnesses and two repetitions: the committed matrix is eight       *)
(* columns wide, and three witnesses and one mask would fit four.           *)
EXTENDS StarkProtocol

MCPathSets == <<{{<<1>>}, {<<1>>, <<2>>}}, {{<<1, 1>>, <<1, 2>>}}>>
=============================================================================
