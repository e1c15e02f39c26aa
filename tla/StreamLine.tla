----------------------------- MODULE StreamLine -----------------------------
(***************************************************************************)
(* One direction of the serial line, byte by byte: frames go in through    *)
(* nros_stream_encode_frame, the line loses, adds and alters bytes, and    *)
(* nros_stream_parser_feed reads what is left.  Link is what the protocol  *)
(* modules assume of it.                                                   *)
(*                                                                         *)
(* Frames are numbered in their topic byte.  A frame is only written when  *)
(* the line is empty: the parser's result depends on the bytes and their   *)
(* order, not on when they come.                                           *)
(***************************************************************************)
EXTENDS StreamParser

CONSTANTS Traffic,      \* what may be written: [type, length, payload]
          MaxFrames,    \* frames written
          MaxNoise,     \* faults of the line
          NoiseBytes,   \* bytes it adds, and puts for others
          Recovery      \* frames after a fault until the parser is in sync

\* The n-th frame written, if it is f.
Written(f, n) == EncodeFrame(f.type, n, f.length, f.payload)

\* A frame as it is on the line, up to its CRC.
FrameBody(f) == Magic \o <<f.type, f.topic>> \o U16Bytes(Len(f.payload)) \o f.payload

Frames ==
    {[type |-> f.type, topic |-> n, payload |-> f.payload] :
        f \in Traffic, n \in 1 .. MaxFrames}

ASSUME LineAssumption ==
    /\ {MaxFrames, MaxNoise, Recovery} \subseteq Nat
    /\ NoiseBytes \subseteq Byte
    /\ Traffic \subseteq [type : Byte, length : Nat, payload : Seq(Byte)]
    /\ 1 .. MaxFrames \subseteq Byte
    /\ \A f \in Traffic, n \in 1 .. MaxFrames : Written(f, n) \in Seq(Byte)

\* crc16_buf returns a uint16_t.
ASSUME CrcAssumption ==
    \A f \in Frames : CrcOf(FrameBody(f)) \in Nat /\ CrcOf(FrameBody(f)) < 256 * 256

\* What the parser may still take for a frame after its magic number, HeaderSize
\* - 2 + BufferSize + CrcSize bytes, is no longer than Recovery empty frames.
ASSUME RecoveryAssumption ==
    (HeaderSize + CrcSize) * Recovery >= HeaderSize - 2 + BufferSize + CrcSize

VARIABLES wire,     \* bytes on the line
          frames,   \* history: frames written
          noise,    \* faults so far
          quiet,    \* plain frames written since the last other, or fault
          heard     \* history: bytes the parser has read

vars == <<parserVars, wire, frames, noise, quiet, heard>>

Init ==
    /\ ParserInit
    /\ wire = <<>> /\ frames = <<>> /\ noise = 0 /\ quiet = 0 /\ heard = <<>>

\* Besides its first two bytes, the frame has no magic number in it.
Plain(bytes) ==
    \A i \in 2 .. (Len(bytes) - 1) : SubSeq(bytes, i, i + 1) # Magic

\* A frame whose length is not that of its payload, as Agent::run makes of a
\* DISCOVER in a used WireFrame, is a fault too.  Of one that is too big to
\* encode nothing is written.
Write ==
    /\ wire = <<>>
    /\ Len(frames) < MaxFrames
    /\ \E f \in Traffic :
         LET whole == f.length = Len(f.payload)
         IN /\ wire' = Written(f, Len(frames) + 1)
            /\ wire' # <<>>
            /\ frames' = Append(frames, [type |-> f.type,
                                         topic |-> Len(frames) + 1,
                                         payload |-> f.payload])
            /\ quiet' = IF whole /\ Plain(wire') THEN quiet + 1 ELSE 0
            /\ noise' = IF whole THEN noise ELSE noise + 1
    /\ noise' <= MaxNoise
    /\ UNCHANGED <<parserVars, heard>>

Read ==
    /\ wire # <<>>
    /\ Feed(Head(wire))
    /\ wire' = Tail(wire)
    /\ heard' = Append(heard, Head(wire))
    /\ UNCHANGED <<frames, noise, quiet>>

Lose == wire' = Tail(wire)
Alter == \E b \in NoiseBytes \ {Head(wire)} : wire' = <<b>> \o Tail(wire)
Insert == \E b \in NoiseBytes : wire' = <<b>> \o wire

\* The sender stops in the middle of a frame: send_frame times out, the board
\* reboots or starts another frame in tx.buffer.
CutShort == wire' = <<>>

Disturb ==
    /\ wire # <<>>
    /\ noise < MaxNoise /\ noise' = noise + 1
    /\ Lose \/ Alter \/ Insert \/ CutShort
    /\ quiet' = 0
    /\ UNCHANGED <<parserVars, frames, heard>>

Next == Write \/ Read \/ Disturb

Spec == Init /\ [][Next]_vars

-----------------------------------------------------------------------------
\* The parser never writes behind the end of header_buf, payload_buf or
\* crc_buf, whatever it is fed.
BuffersHold ==
    /\ Len(headerBuf) <= HeaderSize
    /\ Len(payloadBuf) <= BufferSize
    /\ Len(crcBuf) <= CrcSize

\* What the callback gets was written so, and in this order: noise may cost
\* frames but makes none, alters none and repeats none.
DeliveredWasWritten ==
    /\ \A i \in DOMAIN delivered :
         /\ delivered[i].topic \in DOMAIN frames
         /\ delivered[i] = frames[delivered[i].topic]
    /\ \A i, j \in DOMAIN delivered :
         i < j => delivered[i].topic < delivered[j].topic

\* On a quiet line nothing is lost.
QuietLineDelivers == noise = 0 /\ wire = <<>> => delivered = frames

\* Nor after a fault, once some plain frames have gone by: whatever state it
\* has left the parser in, it cannot stay out of step.  (Of frames that hold a
\* magic number the parser may lose any number.)
ParserResyncs ==
    wire = <<>> /\ quiet > Recovery =>
        delivered # <<>> /\ Last(delivered) = Last(frames)

\* What is delivered was heard: the last bytes, before the two of the CRC, are
\* this frame from its magic number to the end of its payload.
DeliveredWasHeard ==
    [][delivered' # delivered =>
         \E n \in 0 .. Len(heard) :
            SubSeq(heard', n + 1, Len(heard') - CrcSize)
                = FrameBody(Last(delivered'))]_vars

EndsWith(s, t) ==
    /\ Len(t) <= Len(s)
    /\ \A i \in 1 .. Len(t) : s[Len(s) - Len(t) + i] = t[i]

\* "re seed magic number window": in whatever way the parser has come to hunt, it
\* begins a header at every magic number it hears from then on, one whose first
\* byte is the last of a header thrown away for its length included, and at
\* nothing else.  Only the last byte of a frame, good or bad, begins no other: its
\* window is still on the magic number of that frame.
MagicIsNeverMissed ==
    [][state = "HUNT_SYNC" /\ heard' # heard =>
         (state' = "WAIT_HEADER" <=> headerBuf # Magic /\ EndsWith(heard', Magic))]_vars

-----------------------------------------------------------------------------
\* The invariant behind BuffersHold and DeliveredWasHeard.

\* How much each buffer holds in each state.
Fill ==
    /\ state = "HUNT_SYNC" => Len(headerBuf) = 2
    /\ state = "WAIT_HEADER" => Len(headerBuf) \in 2 .. (HeaderSize - 1)
    /\ state \in {"WAIT_PAYLOAD", "WAIT_CRC"} =>
         Len(headerBuf) = HeaderSize /\ LengthOf(headerBuf) <= BufferSize
    /\ state = "WAIT_PAYLOAD" =>
         Len(payloadBuf) < LengthOf(headerBuf) /\ Len(crcBuf) = 0
    /\ state = "WAIT_CRC" =>
         Len(payloadBuf) = LengthOf(headerBuf) /\ Len(crcBuf) < CrcSize
    /\ Len(payloadBuf) <= BufferSize
    /\ Len(crcBuf) <= CrcSize

\* The part of a frame the parser has in hand.
Held == IF state = "WAIT_HEADER" THEN headerBuf
                                 ELSE headerBuf \o payloadBuf \o crcBuf

HeldWasHeard ==
    /\ state = "HUNT_SYNC" /\ headerBuf[2] = Magic0 =>
         Len(heard) > 0 /\ heard[Len(heard)] = Magic0
    /\ state # "HUNT_SYNC" =>
         /\ headerBuf[1] = Magic0 /\ headerBuf[2] = Magic1
         /\ EndsWith(heard, Held)

ParserInv ==
    /\ ParserTypeOK
    /\ heard \in Seq(Byte)
    /\ Fill
    /\ HeldWasHeard

\* The invariant behind MagicIsNeverMissed, on top of it: of the window, what
\* counts is the last byte heard.
WindowIsLastHeard ==
    state = "HUNT_SYNC" /\ headerBuf # Magic /\ heard # <<>> => headerBuf[2] = Last(heard)

LineTypeOK == wire \in Seq(Byte) /\ frames \in Seq(Frames)

IInv == ParserInv /\ LineTypeOK

-----------------------------------------------------------------------------
\* The invariant behind QuietLineDelivers and ParserResyncs: how far the parser
\* is in the frame that was written last.

\* The bytes of a frame whose length is that of its payload.
OnLine(f) == EncodeFrame(f.type, f.topic, Len(f.payload), f.payload)

\* How many bytes of the last frame have left the line.
BytesGone == Len(OnLine(Last(frames))) - Len(wire)

\* The line holds the end of the last frame, and nothing else.
Undisturbed ==
    /\ frames # <<>> /\ OnLine(Last(frames)) # <<>>
    /\ Len(wire) <= Len(OnLine(Last(frames)))
    /\ wire = SubSeq(OnLine(Last(frames)), BytesGone + 1, Len(OnLine(Last(frames))))

\* The parser has the first k bytes of frame f in hand, and only them.
HasRead(f, k) ==
    /\ k < 2 => state = "HUNT_SYNC"
    /\ k = 1 => headerBuf[2] = Magic0
    /\ k >= 2 => state # "HUNT_SYNC" /\ Held = SubSeq(OnLine(f), 1, k)

InStep == wire # <<>> /\ HasRead(Last(frames), BytesGone)

\* The parser has a frame in hand that is not the last one; Remaining bounds the
\* bytes it may still take for it.
Remaining ==
    IF state = "WAIT_HEADER" THEN HeaderSize - Len(headerBuf) + BufferSize + CrcSize
    ELSE LengthOf(headerBuf) - Len(payloadBuf) + CrcSize - Len(crcBuf)

Astray ==
    /\ state # "HUNT_SYNC"
    /\ Remaining + (HeaderSize + CrcSize) * (quiet - 1) + BytesGone
         <= HeaderSize - 2 + BufferSize + CrcSize

\* It has given that frame up in the middle of the last one.
Hunting ==
    /\ state = "HUNT_SYNC"
    /\ BytesGone > 0
    /\ headerBuf[2] = Magic0 => OnLine(Last(frames))[BytesGone] = Magic0
    /\ quiet <= Recovery

LastDelivered ==
    /\ wire = <<>> /\ state = "HUNT_SYNC"
    /\ delivered # <<>> /\ Last(delivered) = Last(frames)

RunningCrcCovers ==
    state \in {"WAIT_PAYLOAD", "WAIT_CRC"} =>
        runningCrc = CrcOf(headerBuf \o payloadBuf)

AfterNoise ==
    quiet > 0 =>
        /\ Undisturbed /\ Plain(OnLine(Last(frames)))
        /\ InStep \/ Astray \/ Hunting \/ LastDelivered

WithoutNoise ==
    noise = 0 =>
        IF wire = <<>> THEN state = "HUNT_SYNC" /\ delivered = frames
        ELSE Undisturbed /\ InStep /\ frames = Append(delivered, Last(frames))

TrackInv ==
    /\ IInv
    /\ {noise, quiet} \subseteq Nat
    /\ RunningCrcCovers
    /\ AfterNoise
    /\ WithoutNoise
=============================================================================
