--------------------------- MODULE MCNanoRosOpen ----------------------------
(***************************************************************************)
(* NanoRosOpen for TLC: two topics, and a host that knows every kind of    *)
(* frame, DATA for a topic without a callback included.                    *)
(***************************************************************************)
EXTENDS NanoRosOpen, TLC

Table2 == 0 :> 0 @@ 1 :> 127
Qos2 == 0 :> 0 @@ 1 :> 5

HostAny == {DataFrame(0, 1), DataFrame(127, 1), AckFrame(0, AckOk), Discover,
            RegisterDone, RegisterFrame(0), Torn}
=============================================================================
