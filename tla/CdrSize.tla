------------------------------ MODULE CdrSize -------------------------------
(***************************************************************************)
(* How long a message can get: the generator's worst case against what     *)
(* Micro-CDR writes on the board, field by field.                          *)
(*                                                                         *)
(* CDR aligns a field to its own size, so its padding depends on all that  *)
(* precedes it, strings of any length included.  The generator keeps what  *)
(* it knows of the position, `r' modulo `m' (CdrPos in codegen.rs); the    *)
(* board has the position itself.  Writing an array of n elements is       *)
(* writing n elements (ArrayIsElements in Generator_proofs), n > 0.          *)
(***************************************************************************)
EXTENDS PrimTypes, FiniteSetsExt

CONSTANT StringMaxBytes     \* STRING_MAX_BYTES: characters and terminator

ASSUME StringAssumption == StringMaxBytes \in Nat \ {0}

VARIABLES pos,              \* CdrPos: what the generator knows
          total,            \* what max_cdr_size has added up
          writer,           \* the board's ucdrBuffer
          loose             \* whether a string has been met

walkVars == <<pos, total, writer, loose>>

-----------------------------------------------------------------------------
(* The generator                                                           *)

Alignments == {1, 2, 4, 8}

\* What may be known of a position.
Positions == {p \in [r : 0 .. 7, m : Alignments] : p.r < p.m}

\* Bytes up to the next multiple of `align' from a position.
Gap(position, align) == (align - (position % align)) % align

\* Fault: a position known to less than `align' is taken for the residue itself.
Pad_KnownOnly(p, align) == Gap(p.r, align)

Pad(p, align) ==
    IF align <= p.m THEN Gap(p.r, align)
    ELSE Max({Gap(p.r + k * p.m, align) : k \in 0 .. (align \div p.m - 1)})

\* Fault: what was known modulo more than `align' is forgotten.
Moved_Forgets(p, align, size) == [r |-> size % align, m |-> align]

Moved(p, align, size) ==
    IF align > p.m THEN [r |-> size % align, m |-> align]
    ELSE [p EXCEPT !.r = (p.r + Pad(p, align) + size) % p.m]

PrimBytes(p, prim) ==
    IF prim = "string" THEN Pad(p, 4) + 4 + StringMaxBytes
    ELSE Pad(p, Align(prim)) + Size(prim)

AfterPrim(p, prim) ==
    IF prim = "string" THEN [r |-> 0, m |-> 1]
    ELSE Moved(p, Align(prim), Size(prim))

\* Right behind the encapsulation header.
StartPos == [r |-> 0, m |-> 8]
EncapHeaderLen == 4

-----------------------------------------------------------------------------
(* The board.  Micro-CDR pads to the size of the C type, and only if that  *)
(* is larger than the size of what it wrote last.                          *)

WriterStart == [offset |-> 0, last |-> 0]

BufferAlignment(w, n) == IF n > w.last THEN Gap(w.offset, n) ELSE 0

\* An array of `count' values of n bytes; a scalar is an array of one.
Written(w, n, count) ==
    [offset |-> w.offset + BufferAlignment(w, n) + count * n, last |-> n]

\* Its length and its bytes, the terminator among them.
StringWritten(w, bytes) == Written(Written(w, 4, 1), 1, bytes)

-----------------------------------------------------------------------------
WalkInit ==
    /\ pos = StartPos /\ total = 0 /\ writer = WriterStart /\ loose = FALSE

\* A message is begun.
WalkStart ==
    /\ pos' = StartPos /\ total' = 0 /\ writer' = WriterStart /\ loose' = FALSE

Analyse(prim) ==
    /\ total' = total + PrimBytes(pos, prim)
    /\ pos' = AfterPrim(pos, prim)

WalkFixed(prim) ==
    /\ prim # "string"
    /\ Analyse(prim)
    /\ writer' = Written(writer, Width(CType(prim)), 1)
    /\ UNCHANGED loose

WalkString(bytes) ==
    /\ Analyse("string")
    /\ writer' = StringWritten(writer, bytes)
    /\ loose' = TRUE

\* An element of string[N]: the generated struct and serialiser make it one
\* char, the analysis takes it for a string.
WalkStringElement ==
    /\ Analyse("string")
    /\ writer' = Written(writer, Width(CType("string")), 1)
    /\ loose' = TRUE

WalkNext ==
    \/ \E prim \in Prims : WalkFixed(prim)
    \/ \E bytes \in 1 .. StringMaxBytes : WalkString(bytes)
    \/ WalkStringElement

WalkSpec == WalkInit /\ [][WalkNext]_walkVars

-----------------------------------------------------------------------------
WalkTypeOK ==
    /\ pos \in Positions
    /\ writer \in [offset : Nat, last : {0} \cup Alignments]
    /\ total \in Nat /\ loose \in BOOLEAN

\* The static assertion on <TOPIC>_MAX_SIZE is only worth something if no
\* message is longer: whatever the strings, the board never writes past what
\* max_cdr_size has added up.
MaxSizeIsUpperBound == writer.offset <= total

\* And it is not merely large: a message type without strings has exactly its
\* computed size, so none that fits is turned away.
SizeIsExactWithoutStrings == ~loose => total = writer.offset

\* Micro-CDR's shortcut (no padding after something at least as large) is
\* natural alignment: it always stands at a multiple of what it wrote last.
ShortcutIsNaturalAlignment == writer.last > 0 => writer.offset % writer.last = 0

\* Why the two above hold: what the generator believes of the position is so.
PosIsKnown ==
    /\ writer.offset % pos.m = pos.r
    /\ ~loose => pos.m = 8

WalkIInv ==
    /\ WalkTypeOK
    /\ PosIsKnown
    /\ ShortcutIsNaturalAlignment
    /\ MaxSizeIsUpperBound
    /\ SizeIsExactWithoutStrings
=============================================================================
