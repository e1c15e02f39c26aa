---------------------------- MODULE StreamParser ----------------------------
(***************************************************************************)
(* common/src/nros_stream_parser.c: nros_stream_parser_feed, one byte per  *)
(* step, and nros_stream_encode_frame.  Board and agent run the same code. *)
(*                                                                         *)
(* A buffer is the sequence of the bytes written to it so far; what a      *)
(* *_bytes_have counter says is out of date is left out, and p->header is  *)
(* headerBuf.  The counters of resyncs and CRC failures are never read.    *)
(***************************************************************************)
EXTENDS Integers, SequencesExt

CONSTANTS Byte,             \* uint8_t
          Magic0, Magic1,   \* NROS_MAGIC0, NROS_MAGIC1
          BufferSize,       \* NROS_BUFFER_SIZE
          CrcInit,          \* NROS_CRC16_INIT
          CrcUpdate(_, _)   \* crc16_update(crc, byte)

ASSUME ParserAssumption ==
    /\ Byte \subseteq 0 .. 255
    /\ Magic0 \in Byte /\ Magic1 \in Byte
    /\ Magic0 # 0 /\ Magic0 # Magic1
    /\ 0 \in Byte
    /\ BufferSize \in Nat

\* A length up to the size of the buffer fits header.length, a uint16_t.
ASSUME LengthAssumption == BufferSize < 256 * 256

Magic == <<Magic0, Magic1>>
HeaderSize == 6     \* magic, type, topic_id, 16-bit length
CrcSize == 2

VARIABLES state,        \* p->state
          headerBuf,    \* p->header_buf; in HUNT_SYNC only its two-byte window
          payloadBuf,   \* p->payload_buf
          crcBuf,       \* p->crc_buf
          runningCrc,   \* p->running_crc
          delivered     \* history: frames given to the callback

parserVars == <<state, headerBuf, payloadBuf, crcBuf, runningCrc, delivered>>

\* get_u16 and put_u16: little-endian.
U16(lo, hi) == lo + 256 * hi
U16Bytes(v) == <<v % 256, (v \div 256) % 256>>

LengthOf(header) == U16(header[5], header[6])

\* crc16_buf
CrcOf(bytes) ==
    LET crc[n \in 0 .. Len(bytes)] ==
            IF n = 0 THEN CrcInit ELSE CrcUpdate(crc[n - 1], bytes[n])
    IN crc[Len(bytes)]

\* What the callback gets.
Frame(header, payload) ==
    [type |-> header[3], topic |-> header[4], payload |-> payload]

\* nros_stream_parser_init
ParserInit ==
    /\ state = "HUNT_SYNC"
    /\ headerBuf = <<0, 0>>
    /\ payloadBuf = <<>>
    /\ crcBuf = <<>>
    /\ runningCrc = 0
    /\ delivered = <<>>

-----------------------------------------------------------------------------
(* A definition whose name ends in an underscore and a remark is a mutated *)
(* form of the one after it; nothing uses it.                              *)

\* A window that keeps its first byte.
Slide_Stuck(b) == <<headerBuf[1], b>>

\* The window of HUNT_SYNC after one more byte.
Slide(b) == <<headerBuf[2], b>>

HuntSync(b) ==
    /\ state = "HUNT_SYNC"
    /\ headerBuf' = Slide(b)
    /\ state' = IF headerBuf' = Magic THEN "WAIT_HEADER" ELSE "HUNT_SYNC"
    /\ UNCHANGED <<payloadBuf, crcBuf, runningCrc, delivered>>

CollectHeader(b) ==
    /\ state = "WAIT_HEADER"
    /\ Len(headerBuf) + 1 < HeaderSize
    /\ headerBuf' = Append(headerBuf, b)
    /\ UNCHANGED <<state, payloadBuf, crcBuf, runningCrc, delivered>>

LengthFits_NotChecked(header) == LengthOf(header) < 65536

LengthFits(header) == LengthOf(header) <= BufferSize

HeaderComplete_KeepsPayload(b) ==
    /\ state = "WAIT_HEADER"
    /\ Len(headerBuf) + 1 = HeaderSize
    /\ headerBuf' = Append(headerBuf, b)
    /\ LengthFits(headerBuf')
    /\ runningCrc' = CrcOf(headerBuf')
    /\ crcBuf' = <<>>
    /\ state' = IF LengthOf(headerBuf') = 0 THEN "WAIT_CRC" ELSE "WAIT_PAYLOAD"
    /\ UNCHANGED <<payloadBuf, delivered>>

\* The bytes that follow are the payload of this header.
HeaderComplete(b) ==
    /\ state = "WAIT_HEADER"
    /\ Len(headerBuf) + 1 = HeaderSize
    /\ headerBuf' = Append(headerBuf, b)
    /\ LengthFits(headerBuf')
    /\ runningCrc' = CrcOf(headerBuf')
    /\ payloadBuf' = <<>>
    /\ crcBuf' = <<>>
    /\ state' = IF LengthOf(headerBuf') = 0 THEN "WAIT_CRC" ELSE "WAIT_PAYLOAD"
    /\ UNCHANGED delivered

\* Fault: the window is left to what memmove has put there.
HeaderRejected_NotReseeded(b) ==
    /\ state = "WAIT_HEADER"
    /\ Len(headerBuf) + 1 = HeaderSize
    /\ ~LengthFits(Append(headerBuf, b))
    /\ state' = "HUNT_SYNC"
    /\ headerBuf' = <<headerBuf[2], headerBuf[3]>>
    /\ UNCHANGED <<payloadBuf, crcBuf, runningCrc, delivered>>

\* The length is trash.  memmove has shifted the header by one byte, so the
\* window becomes b twice; Slide only ever uses the second.
HeaderRejected(b) ==
    /\ state = "WAIT_HEADER"
    /\ Len(headerBuf) + 1 = HeaderSize
    /\ ~LengthFits(Append(headerBuf, b))
    /\ state' = "HUNT_SYNC"
    /\ headerBuf' = <<b, b>>
    /\ UNCHANGED <<payloadBuf, crcBuf, runningCrc, delivered>>

CollectPayload(b) ==
    /\ state = "WAIT_PAYLOAD"
    /\ payloadBuf' = Append(payloadBuf, b)
    /\ runningCrc' = CrcUpdate(runningCrc, b)
    /\ state' = IF Len(payloadBuf') < LengthOf(headerBuf) THEN "WAIT_PAYLOAD"
                                                          ELSE "WAIT_CRC"
    /\ UNCHANGED <<headerBuf, crcBuf, delivered>>

CollectCrc(b) ==
    /\ state = "WAIT_CRC"
    /\ Len(crcBuf) + 1 < CrcSize
    /\ crcBuf' = Append(crcBuf, b)
    /\ UNCHANGED <<state, headerBuf, payloadBuf, runningCrc, delivered>>

CrcMatches_Always(crc) == TRUE

CrcMatches(crc) == U16(crc[1], crc[2]) = runningCrc

\* reset_to_hunt leaves the window on the magic number of the past frame.
CrcComplete(b) ==
    /\ state = "WAIT_CRC"
    /\ Len(crcBuf) + 1 = CrcSize
    /\ crcBuf' = Append(crcBuf, b)
    /\ delivered' = IF CrcMatches(crcBuf')
                    THEN Append(delivered, Frame(headerBuf, payloadBuf))
                    ELSE delivered
    /\ state' = "HUNT_SYNC"
    /\ headerBuf' = Magic
    /\ UNCHANGED <<payloadBuf, runningCrc>>

Feed(b) ==
    \/ HuntSync(b)
    \/ CollectHeader(b) \/ HeaderComplete(b) \/ HeaderRejected(b)
    \/ CollectPayload(b)
    \/ CollectCrc(b) \/ CrcComplete(b)

-----------------------------------------------------------------------------
\* nros_stream_encode_frame: <<>> when the frame does not fit.  The length in
\* the header is the caller's and need not be that of the payload.
EncodeFrame(type, topic, length, payload) ==
    LET body == Magic \o <<type, topic>> \o U16Bytes(length) \o payload
    IN IF Len(body) + CrcSize > BufferSize THEN <<>>
                                           ELSE body \o U16Bytes(CrcOf(body))

ParserTypeOK ==
    /\ state \in {"HUNT_SYNC", "WAIT_HEADER", "WAIT_PAYLOAD", "WAIT_CRC"}
    /\ headerBuf \in Seq(Byte)
    /\ payloadBuf \in Seq(Byte)
    /\ crcBuf \in Seq(Byte)
    /\ delivered \in Seq([type : Byte, topic : Byte, payload : Seq(Byte)])
=============================================================================
