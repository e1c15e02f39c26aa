----------------------------- MODULE DropOldest -----------------------------
(***************************************************************************)
(* What ThreadSafeQueue promises its users: a queue that always takes an   *)
(* item, forgets its oldest one when it is full, and gives the others out  *)
(* in order.  Items are numbered as they are put in.  Nothing of mutexes,  *)
(* sleeping or stopping is left here.                                      *)
(***************************************************************************)
EXTENDS Naturals, Sequences

CONSTANT Capacity

VARIABLES puts, items, taken

dropOldestVars == <<puts, items, taken>>

\* What a full queue keeps.
Newest(s) == IF Len(s) > Capacity THEN Tail(s) ELSE s

DropOldestInit == puts = 0 /\ items = <<>> /\ taken = <<>>

Put == /\ puts' = puts + 1
       /\ items' = Newest(Append(items, puts'))
       /\ UNCHANGED taken

Take == /\ items # <<>>
        /\ items' = Tail(items)
        /\ taken' = Append(taken, Head(items))
        /\ UNCHANGED puts

DropOldestNext == Put \/ Take

DropOldestSpec == DropOldestInit /\ [][DropOldestNext]_dropOldestVars
=============================================================================
