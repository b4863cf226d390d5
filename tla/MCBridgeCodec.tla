---------------------------- MODULE MCBridgeCodec ----------------------------
(***************************************************************************)
(* BridgeCodec for TLC, whose integers are 32-bit: addresses and words of *)
(* 2 bytes, ints of 2 bytes and longs of 3. Byte fields take an all-zero  *)
(* value and one whose bytes cross 0x7f (negative as jbytes); integers   *)
(* take 0, small values and the values with the sign bit or the top byte *)
(* of their width set, where a missing mask or a wrong signedness shows. *)
(***************************************************************************)
EXTENDS BridgeCodec

CONSTANT NoValue

MCAddrLen == 2
MCWordLen == 2
MCIntLen  == 2
MCLongLen == 3

Addr0 == <<0, 0>>
Addr1 == <<128, 17>>
Word0 == <<0, 0>>
Word1 == <<255, 1>>

MCInputs == {<<>>, <<128>>, <<0, 255, 1>>}
MCGas    == {0, 1021, -1, 2^23 - 1, -(2^23)}

MCMessages ==
    [address : {Addr0, Addr1}, caller : {Addr1}, gas : MCGas,
     value : {Word0, Word1}, input : MCInputs, depth : {0, 1024},
     kind : {0, 3}, flags : {0, 2^15}]

\* Status codes: success, failure, revert, and a negative enumerator.
MCResults ==
    [status : {0, 1, 2, -1}, gas : MCGas, output : MCInputs]

MCContexts ==
    [address : {Addr1}, origin : {Addr0}, caller : {Addr1},
     gasPrice : {7}, gas : MCGas, value : {Word1}, input : MCInputs,
     depth : {0}, kind : {0, 3}, flags : {2^15}, coinbase : {Addr1},
     number : {16}, timestamp : {2^23 - 2}, gasLimit : {65536, -1},
     difficulty : {Word1}]
=============================================================================
