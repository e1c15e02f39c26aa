-------------------------------- MODULE Link --------------------------------
(***************************************************************************)
(* The serial line between a board and its agent, one FIFO of frames per   *)
(* direction, as nros_stream_parser.c presents it to either side: whole    *)
(* frames with a matching CRC, in the order they were written.             *)
(*                                                                         *)
(* A Torn entry is a run of bytes that does not check.  The receiver's     *)
(* parser never delivers it, but its header may already have promised more *)
(* bytes than were sent, and then the parser eats the start of what comes  *)
(* next: the frame after a Torn may be swallowed and become part of it.    *)
(* StreamParser.tla models that at the level of bytes.                     *)
(***************************************************************************)
EXTENDS Protocol, SequencesExt

VARIABLES toAgent,      \* bytes written by the board, as frames
          toClient      \* bytes written by the agent, as frames

link == <<toAgent, toClient>>

LinkInit == toAgent = <<>> /\ toClient = <<>>

\* The next thing the parser finds on wire w is a good frame of this type.
Arrives(w, type) == w # <<>> /\ Head(w).type = type

\* The ways the parser can get past a Torn at the head of w: it regains sync
\* before the next frame, or it has swallowed that frame too.
Resyncs(w) ==
    IF ~Arrives(w, "TORN") THEN {}
    ELSE {Tail(w)} \cup (IF Len(w) > 1 THEN {RemoveAt(w, 2)}
                                       ELSE {})

\* Frame i of w loses or gains bytes on the way.
Corrupted(w, i) == [w EXCEPT ![i] = Torn]
=============================================================================
