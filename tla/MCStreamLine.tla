---------------------------- MODULE MCStreamLine ----------------------------
(***************************************************************************)
(* StreamLine for TLC, with the CRC the code uses: a frame without payload, *)
(* one that carries the magic number, and a DISCOVER with an old payload.  *)
(***************************************************************************)
EXTENDS StreamLine, Crc16

Bytes == 0 .. 255

Ack == [type |-> 3, length |-> 0, payload |-> <<>>]
Data == [type |-> 2, length |-> 2, payload |-> <<170, 85>>]
UsedDiscover == [type |-> 5, length |-> 0, payload |-> <<1, 3>>]
TrafficAny == {Ack, Data, UsedDiscover}
=============================================================================
