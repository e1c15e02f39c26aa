# nano_ros in TLA+

nano_ros connects microcontroller boards to ROS 2 without micro-ROS.  A board
runs `libnanoros`, a C library with static memory and no threads; a Linux host
runs `nano_ros_agent`, which owns one serial port and one ROS node for the
board; `nano_ros_codegen` turns a `ros.toml` and the `.msg` files it names into
the C tables and serialisers the board is built with.  This directory holds
models of the parts that decide whether a message gets through, the TLC runs
that check them on small instances, and the theorems TLAPS proves about them.

## The system

| part | state | operations |
|---|---|---|
| **client library** `libnanoros/src/nano_ros.c` | `rx` and `tx` contexts (one receive and one transmit buffer), `topic_registration_idx`, `is_registration`, `sending_reg_done_frame`, `awaiting_ack`, `registration_complete` | `nros_init`, `nros_spin` = `rx_poll` (parser, `nros_dispatch`) then `tx_poll`, `nros_publish` |
| **agent loop** `nano_ros_agent/src/agent.cpp` | `need_registration`, `ack_` (one slot), `new_topics_`, `client_`, `to_client_msg_queue_` | `run`: `recv_frame`, `frame_dispatch`, one DISCOVER, one queued message, one ACK per turn; `spawn_client` |
| **client handler node** `client_handler.cpp` | `topics_[]` with publisher and subscription handles | `on_client_connect`, `client_publish`, `client_subscription_callback` (on the executor's thread) |
| **thread-safe queue** `thread_safe_queue.hpp` | a bounded deque, mutex, condition variable, `stopping_` | `push` (drops the oldest), `wait_and_pop`, `size`, `stop` |
| **stream parser** `common/src/nros_stream_parser.c` | state, header, payload and CRC buffers with counters, running CRC | `nros_stream_parser_feed` byte by byte, `nros_stream_encode_frame`; the same code on both sides |
| **serial transport** `transport/serial.cpp` | file descriptor, parser, `completed_frames` | `send_frame`, `recv_frame`, `wait_ready`, `init`, `fini` |
| **message files** `nano_ros_codegen/src/msg_file_parser.rs` | two package indexes, `visited`, `read_files`, the recursion of the parser | `build_package_index`, `find_msg_file`, `parse_type` |
| **code generator** `codegen.rs`, `ros_toml_schema.rs` | `emitted` sets of structs and functions, the ids, `CdrPos` | topic ids, structs, serialisers, sizes, wire checks, topic table |
| **codegen in a build** `main.rs`, `libnanoros/cmake/nano_ros_generate.cmake` | ros.toml, the outputs, the depfile; between runs the build tool's memory of them | a run of the command, again after every edit it is told of |
| **Micro-CDR** (vendored) | offset and `last_data_size` of a buffer | aligns and writes values, arrays and strings |

How they interact.  The agent sends DISCOVER once; the board answers with one
REGISTER per topic, each answered by an ACK, and ends with REGISTER_DONE; the
agent then spawns the node.  After that DATA flows both ways.  Board and agent
share nothing but the two directions of the line; inside the agent the loop
and the executor thread share the queue; on the board everything shares one
transmit buffer.  There are no retries, sequence numbers or timeouts in the
protocol: a lost frame stays lost.

What is hard here: the transmit buffer of the board is reloaded by whoever
comes (an ACK, a DISCOVER, `nros_publish`) while part of it may be on the wire;
which frame has just gone out is inferred from two flags; an ACK is not
compared with the topic it answers; an agent that restarts meets a board in the
middle of something; a byte lost on the line puts the parser out of step; the
queue is full; the tty takes half a frame.  In the generator: a message type is
used in many places, its file read again for each; the padding behind a string is
unknown, and the board pads by a rule of its own; links make cycles; files are
edited while a run is reading them, and runs are cut off while they write.  PROJECT.json lists each such hazard
at its line, with the properties that watch it.

What makes each part correct:

* client: the registration index stays inside the table; `nros_publish` opens
  by REGISTER_DONE alone; no DATA frame is overwritten half sent; the
  transmitter is released;
* agent and node: DATA meets a node with a publisher; the ACK sent is the
  answer to the last REGISTER; an unacceptable topic is refused, and stops
  nothing else;
* the session: registration is a conversation in which somebody always has the
  next turn, and it ends with every acceptable topic; messages arrive unaltered,
  once and in order, and all of them if the line loses nothing;
* queue: keeps the newest messages in order; a waiter is woken;
* parser: stays inside its buffers; delivers what was sent; comes back in step;
* message files: no package is missed, in a tree with links and cycles; a type
  that contains itself ends the run;
* generator: ids are distinct and on the side of 127 the agent expects; structs
  and functions come once and before what uses them; sizes are upper bounds,
  exact where they can be;
* codegen in a build: when there is nothing to do, the outputs are those of the
  files as they are now.

## Modules

| module | stands for |
|---|---|
| `Protocol` | packet types, QoS, ACK status, the topic table, sets of frames (`protocol.h`, `nano_ros.h`); `TopicTableAssumption` is what the generator guarantees of a table |
| `Link` | the line in both directions as two FIFO sequences of frames; a damaged frame is `TORN`, and takes what follows with it or not (`Resyncs`) |
| `NanoRos` | the client library: `RxPoll`, `RxTorn`, `TxPoll`, `Publish`, `ClientReset` |
| `Agent` | agent loop and node: `AgentLoop` (its steps in the order of `Agent::run`, by `agentPc`), `RecvTorn`, `SubscriptionCallback`, `AgentRestart` |
| `ThreadSafeQueue` | the queue between the executor thread and the loop, at the grain of its mutex and condition variable |
| `DropOldest` | what the queue promises |
| `ThreadSafeQueue_proofs` | theorems about `ThreadSafeQueue` |
| `Session` | NanoRos and Agent on one Link, with restarts, reboots and corrupted frames |
| `NanoRos_proofs` | lemmas about the client library that both its environments use |
| `Session_proofs` | theorems about `Session` |
| `Pipe` | what the way from `nros_publish` to ROS promises: a reliable FIFO pipe |
| `NanoRosOpen` | NanoRos against a host that sends anything in any order |
| `NanoRosOpen_proofs` | theorems about `NanoRosOpen` |
| `StreamParser` | parser and encoder, one byte per step |
| `Crc16` | the CRC (TLC only: it uses `Bitwise`) |
| `StreamLine` | encoder, a line that loses, adds and alters bytes, parser |
| `StreamLine_proofs` | theorems about `StreamLine` |
| `PrimTypes` | the primitive types, their sizes, alignments and C types |
| `PackageIndex` | `build_package_index` |
| `MsgFields` | the fields of a message, nested types included: what the parser hands to the generator |
| `MsgFiles` | `MsgResolver` and the parser of `.msg` files; what the fields of a type are by the files, for comparison |
| `CdrSize` | `CdrPos` against the buffer of Micro-CDR, field by field |
| `TopicIds` | `generate_topic_ids` |
| `Generator_proofs` | theorems about `PackageIndex`, `CdrSize` and `TopicIds`, each on its own, and lemmas about what `Emitter` writes |
| `Emitter` | what codegen.rs writes for the fields of a topic |
| `Codegen` | the generator's run from command line to depfile, the build tool and editors around it, the board behind it |
| `Codegen_proofs` | theorems about `Codegen` |
| `NatInduction` | induction over the natural numbers, for the proof modules |
| `MCSession`, `MCNanoRosOpen`, `MCStreamLine`, `MCThreadSafeQueue`, `MCCodegen` | values of the constants for TLC |

### Client library (`NanoRos`)

One action of the model is one pass of the code that cannot be interrupted on a
single-threaded board.  `RxPoll` takes the next frame and runs the whole of
`nros_dispatch` for it: `RxData` (callback), `RxAckIgnored`, `RxAckAdvances`
(index, `load_next_registration_frame`, REGISTER_DONE at the end), `RxDiscover`
(`register_topics_start`), `RxIgnored`.  `TxPoll` offers the rest of the buffer
to the port, which takes any part of it, and ends in `tx_frame_complete`.  A
frame is `FrameLen` pieces; a buffer overwritten while `MidFrame` puts a `TORN`
frame on the line, because the receiver will see the start of one frame and the
rest of another.  `txState`, `isRegistration`, `sendingRegDone`, `awaitingAck`,
`regIdx`, `registrationComplete` are the variables of the same names in the
code; `accepted` and `received` are histories of what `nros_publish` took and
what callbacks saw; `clientFault` stands for the call through a null callback.

### Agent (`Agent`)

`agentPc` walks through `Agent::run`: receive and dispatch, DISCOVER, one
queued message, the ACK.  `SubscriptionCallback` interleaves with these, as it
runs on the executor's thread.  `send_frame` has timeout 0 and may give up in
the middle of a frame (`SendsMayFail`).  DISCOVER is sent in the `WireFrame`
that was received last: its payload is still there although the header says 0,
so after a frame with a payload the DISCOVER fails its check; `NothingTorn`
says that in a clean session this does not happen.  `agentPc = "crashed"`
stands for a null `client_` or a null publisher, `"aborted"` for an exception of
`create_generic_*` (`CreateMayThrow`), which nobody catches.

### Queue (`ThreadSafeQueue`, `DropOldest`)

In `Agent`, `push` and the loop's `size() > 0` followed by `wait_and_pop` are
one step each.  `ThreadSafeQueue` takes them apart and shows that this is sound:
what `size` has seen is still there when `wait_and_pop` gets the mutex, so the
loop never blocks, and the whole implements `DropOldest`.  What `push` and
`size` do under the mutex is one step, because it touches nothing but the
queue; `wait_and_pop` also reads the unprotected `stopping_`, so its steps under
the mutex (`holding`, `dozing`, `popping`) are told apart.  Two producers stand
for the executor threads of two nodes: `spawn_client` builds the new node while
the old one still spins.  `Block` (`wait_and_pop` without `size`) and `stop` are
operations of the class that the agent does not use.

### Stream parser (`StreamParser`, `StreamLine`)

`Feed(b)` is the `switch` of `nros_stream_parser_feed`.  Each state has one or
two actions, split where the code has a `break`: `HuntSync`, `CollectHeader`,
`HeaderComplete`, `HeaderRejected`, `CollectPayload`, `CollectCrc`,
`CrcComplete`.  A buffer is the sequence of bytes written to it, so its length
is the `*_bytes_have` counter, and a write behind the end of the C array would
be a sequence longer than the array.  `StreamLine` writes a frame when the line
is empty, which loses nothing: the parser's result depends on the bytes and
their order, not on when they come.

### Message files (`PackageIndex`, `MsgFiles`)

`scan_dir` is recursive; its activations are the sequence `todo`, the directory
in hand first.  One step is one call: skipped by name, already visited, a
package, a directory to descend into, an error, which ends the whole scan.  The
two indexes are `rosPkgs` and `index`.  `find_msg_file` is an operator, as it
reads and changes nothing: ROS before user, the conventional place before the
search, which goes four levels down and, having no visited set, is ended by its
depth.  The parser is a machine: `stack` holds the files that are open, innermost
last, each with the lines it still has of the text it was opened with; one step is
one line, and a line with a nested type opens a file (`NestedField`), which is read
again for every use.  Where Rust's recursion would overflow the stack of the
process, `MaxNesting` ends the run.  So fields are nested no deeper than that:
`FieldTrees[depth]` are those with up to `depth` files below one another.
`FieldsFrom(files, pkgs)` is not the parser but its reference: the fields of every
type if `files` are read at once, by recursion over the depth.

Lines, names and paths are abstracted to what the code tells apart: a type is
the parts of its path, a line its type, brackets, name and whether there are an
`=` and a `<=`; package.xml is a sequence of tags, comment marks and words.

### Sizes and ids (`CdrSize`, `TopicIds`)

`CdrSize` goes through the fields of a message with two counters side by side:
what `CdrPos::add` believes and adds up, and where Micro-CDR, which pads only
before something larger than what it wrote last, really is.  `TopicIds` is the
loop of `generate_topic_ids` with its two 8-bit counters.

### A run of the generator (`Emitter`, `Codegen`)

`phase` goes through `main`: `args`, `toml`, `ros` and `user` (the two scans),
`parse`, `ids`, `emit`, `depfile`, back to `idle`; an error on the way ends the
run (`Fail`).  `output` is what is on disk: structs, serialisers, user functions,
rows of the table, sizes; `disk` is `partial` from the moment the files are
truncated, and from `WriteTables` on `whole` or `cut`, as an error at the end of a file
is seen by nobody.  `UpToDate` is about what the writers were given; a board (`Publish`)
is built from `whole` files.  `EmitTopic` is the body of the loop in `generate_core_code`,
`WriteTables` what comes behind it.  `UserCStructs`, `SerdeFunctions` and
`MaxCdrSize` recurse over the fields as the functions of their names do; `Loop` is
the `for` inside them, one pass per field, and `Same` the pass over a field that
is left out.

Around the process: `EditMsg` and `EditToml` change a file at any time;
`Interrupt` kills the process at any time; `Begin` is the build tool, which runs
the command when it has not succeeded since the last edit of ros.toml or of a
file in the depfile of its last success.  An edit during a run makes it dirty
again: Ninja (1.11 and later) compares files with the start of a command, not
with its outputs; a tool that compares them with the outputs misses such an
edit, and this is outside the model.  `Publish` and `Serialize` are firmware
built from outputs that are up to date and pass `WireChecks`: the calls of the
generated serialiser, one after another, move the buffer of `CdrSize`, while
`pos` and `total` repeat the analysis beside it.

## Runs

| run | instance | shows |
|---|---|---|
| `session_clean` | 4 topics (publishers around a subscriber, so that index order is not id order, and a subscriber with a QoS the agent does not know), 3 messages from the board, 4 from ROS, queue of 2 | registration alternates strictly (`OneTurn`, `AckAnswersRegister`), ends with every acceptable topic (`RegistrationCompletes`), nothing is torn, DATA always meets its publisher, handles are final, the board-to-ROS path implements `Pipe` |
| `session_faults` | 2 topics; 2 restarts, 1 reboot, 1 corrupted frame, sends that give up, 2 messages each way | messages are still never altered, repeated or reordered (`RosOutIsOrdered`, `ReceivedIsOrdered`, which also says that no callback is null); the agent only uses a null pointer after its own restart or a damaged frame; without a restart of the agent, what is lost or cut off may stall the registration but never lets REGISTER_DONE through early (`LossOnlyStalls`) |
| `open` | 2 topics, 5 host frames out of 7 kinds, 2 messages | bounds of the index, what opens the gate, what may be overwritten, release of the transmitter |
| `open_oversized` | as `open`, the second topic too long to register | the board never publishes |
| `queue` | 2 producers, capacity 2, 5 items | no sleep after `size() > 0`, no lost wakeup, no front of an empty queue before `stop`, drop-oldest, every item leaves |
| `stream_line` | buffer of 10 bytes, 5 frames of 3 kinds (without payload, a payload that is the magic number, a DISCOVER with a stale payload), one fault | buffers, no invented, altered or repeated frame, no magic number missed (`MagicIsNeverMissed`), no loss without a fault, in step again after 2 plain frames |
| `codegen` | 14 directories with a link up and a cycle, user directories that scan and that do not; 6 message files with 12 contents; 7 ros.toml; 7 command lines; 1 edit, 1 interruption | outputs are up to date when the build tool is content (`UpToDate`), closed and in order (`OutputsAreClosed`), messages fit their frame (`MessagesFitTheirFrame`), the invariants of ids, sizes and scan in the composition, and every run ends (`RunEnds`) |
| `session_restart`, `session_stale`, `session_discover`, `session_rejected`, `session_throws` | small instances | disagreements with what the code's own comments and documents say; see below |

Why the bounds are enough.  The client is a function of a handful of flags and
of the next frame: five host frames reach every combination of flags, and the four
topics of `session_clean` show an index that is neither first nor last.  The
queue bound is 2, and ROS may send 4, so it overflows; in `queue` five items
overflow it from both producers.  One corrupted frame, two restarts and one
reboot can fall in any order between any two steps.  In `stream_line` the
buffer of 10 holds the largest frame of the traffic; a length byte the line
turns into 85 or 170 is past it, 10 is exactly at it, and five frames have more
bytes than an unchecked length would need to overrun it.  `Recovery = 2` is tight:
with 1 the property fails.  A second fault in `stream_line` would only put the
parser in a state a single one does not while the first is still in the window.

In `codegen` strings are of up to 9 bytes, which reach every residue modulo 8;
there are two ids of either kind, and a ros.toml with three subscribers runs out
of them; a payload of 150 bytes is above every message but one, which then fails
its static assertion.  One edit can fall between any two steps of a first,
second or interrupted run.  The message that is edited into one that contains
itself, one that names a missing type, one that is not UTF-8 and one with a bad
array length each end a run at a different place; a type of four parts resolves to
no message, and one of two parts only once `msg` is put between them.
`MaxNesting` is an assumption: the code has no guard against nesting, so no property
says anything about where a process gives up.

Runs that set `CHECK_DEADLOCK FALSE` do so because all bounded sources of work
run dry (or the agent has crashed): the real program would idle in its poll.

**Fairness** (`FairSpec` in `Session`): weak fairness of `RxPoll` and `TxPoll`,
because firmware calls `nros_spin` in its main loop and the port keeps
draining; weak fairness of `AgentLoop`, because `Agent::run` never blocks for
good (every call has a timeout); strong fairness of the receipt of a frame,
because each `recv_frame` may time out an instant before the bytes come, but
not for ever.  Faults, restarts and publications have none.  In `NanoRosOpen`:
the transmitter is polled and the host reads.  In `ThreadSafeQueue`: the loop
polls for ever and gets the mutex when it asks for it, and a thread inside
`push` comes to its `notify_one`; a spurious wakeup, a `Block` and a `stop` are
never owed.  In `Codegen`: a process that was started is run (weak fairness of
`Run`); nobody has to start one, edit a file or publish.

## What the runs found

* `session_restart` — an agent started beside a board that is already
  registered reads DATA before any REGISTER_DONE and dereferences `client_`,
  which is null (agent.cpp:152).
* `session_stale` — an agent that has sent DISCOVER is restarted and sends it
  again.  The board, idle both times, sends the REGISTER of its first topic twice, and
  the agent acknowledges it twice.  The first ACK loads the REGISTER of the second
  topic; before any of it is sent, the second ACK, again for the first topic, is
  taken for that of the second (nano_ros.c:249), and REGISTER_DONE takes the place of
  the unsent REGISTER.  The agent is told the end of a registration of which it
  has heard half (`RegistrationIsWhole`).  The line has lost nothing.
* `session_discover` — `register_topics_start` gives up when the transmitter is
  busy and nothing repeats the DISCOVER.
* `session_rejected` — a board publishes on a topic that was refused, since the
  ACK's status is only printed, and the agent calls `publish` on a null handle.
* `session_throws` — `create_generic_publisher` throws for a type whose package is
  not installed beside the agent, and nothing up to `main` catches it
  (client_handler.cpp:33): one topic of the board ends the agent.

Seen while reading, and not runs of their own: protocol.h:27 says REGISTER from
the host means "reregister", the client ignores it;
protocol.md:3 and the comment at codegen.rs:331 set the ids 0-127 aside for
subscribers, but the first publisher gets 127 (codegen.rs:299) — the agent agrees
with the generator, so nothing is lost by it, and `IdsTellTopicsApart` is checked for
the split the code makes (`PubIdStart`); after a trash
length the parser's window holds the last byte twice ("re seed magic number window",
nros_stream_parser.c:76-77), which changes nothing, as the next byte overwrites the
first of the two before it is compared; the parser accepts payloads of up to `NROS_BUFFER_SIZE`, more than `NROS_MAX_PAYLOAD` and than a frame can
carry; a QoS above 5 is refused by the agent (the generator writes only 0 to 5,
so it takes a board built against a later protocol.h).

In the generator: the outputs are written through `BufWriter`s that nobody flushes
(codegen.rs:378-380): an error as they are dropped is lost, the run succeeds and its
files are cut short.  README.md:108 and nano_ros_generate.cmake:1 call `USER_MSGS`
optional, but without `--user-msgs` the user directory is "", which is no
directory, and every run fails (main.rs:83, msg_file_parser.rs:122; in `codegen`
a command line without it never comes past the second scan).  Two topics of one
name, or that differ in case only, define the same `<NAME>_ID` and
`<NAME>_MAX_SIZE`: properties about them assume `MacrosDiffer`.  A file is read
once per use of its type: if it is edited in between, one run writes the struct
of one version and measures another; it is only because the build tool runs it
again that this does not last.  Without a depfile (nano_ros_generate.cmake:87) it
does not, and a serialiser then goes with the size of another version: `UpToDate`
and `MessagesFitTheirFrame` are stated for builds with a depfile.  `string[N]` becomes `char[N]` in the struct and on the
wire, while the size analysis takes N strings: an upper bound, but not the message
ROS expects.  Arrays without a length are left out of struct and wire with a
warning.  Fields of ROS messages with a default value that has an `=` are taken
for constants.

## Proofs

All theorems hold for every value of the constants that meets the named
assumptions: any topic table (`TopicTableAssumption`), frame length, set of host
frames and bound; for the parser, any buffer size, any set of bytes with a
magic number of two different bytes, the first not 0, and any CRC function.

**`Session_proofs`, under every fault.**  That ROS gets no message altered,
repeated or out of order (`RosOutIsOrdered`) says nothing of what is still on its
way, so it is not inductive.  `FlowInv` speaks of the whole way at once: history at
ROS, line, what the board has in hand (`Upward`), and in the other direction history
of the callbacks, line, queue (`Downward`): the DATA frames of either are some of
what was accepted, in that order.  Every fault (a torn or swallowed frame, the end
or the beginning of a line lost at a restart, a dropped item of the queue) leaves
of a way some of its frames in the order they have there (`Thins`), and the lemma
`FlowSteps` says that thinning a way, adding a newer message at its end or taking
one out at its front keeps the flow.  Nothing is assumed of the faults, not even
that there are few.

**`Session_proofs`, without faults.**  `CleanSession` names the premises: no
restart, reboot or corruption, sends that succeed, no topic that is too long, no
exception, and publishers whose QoS the agent knows.  Each of the five session
runs that find a violation drops one of them.  `PhaseInv` is the inductive invariant: seven phases
up to the last byte of REGISTER_DONE, one per holder of the turn, each with all
there is on both lines, then `Running`, where what was accepted is what ROS has,
followed by what is carried (`accepted = rosOut \o Msgs(Carried)`).  From it follow
`NothingTorn`, `AckAnswersRegister`, `DataFindsPublisher`, `OneTurn`, `HandlesAreFinal`, that the agent never uses a
null pointer, and that every step is one of the abstract `Pipe` or a stutter
(`PublishIsAPipe`); that what is in the pipe also comes out is liveness, and checked
by TLC.

**`Session_proofs`, sends that fail and boards that reboot.**  `CrashNeedsLoss`
needs an invariant of its own, as the phases do not survive a lost ACK.  `CalmInv`
holds while the agent has not been restarted and the line has lost nothing: the
board is `Asking` for registration, one turn at a time, or the session is
`Settled`: no DISCOVER is left to start another one, each DATA frame is behind a
REGISTER_DONE or finds its node open, and a torn frame, of which a reboot can make
one, is the last on the line, so that it swallows nothing.

**`Session_proofs`, whatever is lost.**  `LossOnlyStalls` is about frames that are lost
in any number, sends that give up and boards that reboot, so neither the phases nor
`CalmInv` help: after a loss nobody may have the turn.  But two never have it
(`OneTurnAtMost`), and whoever has it knows no less than before: what the agent has
been told is all there is before the index of the board, and one more while the ACK
for it is on its way (`KnownSoFar`).  `StallInv` is the conjunction; `LossInv` is that it
holds until the agent is restarted, since `session_stale` shows what a second DISCOVER
does to it.  A step is either `Quiet`, so that each line keeps part of its frames of
registration (`Fewer`) and nothing begins, and then it preserves `StallInv` whatever it does; or
it is one of the few that hand on the turn, each a lemma of its own.  The theorem has no
premise: it holds for refused and oversized topics, and for an agent that `create_generic_publisher`
ends.  TLC has checked `LossInv` on small instances before.

**`NanoRosOpen_proofs`.**  `TypeOK`, `IndexInBounds`, `AwaitedTopicExists` and
`OversizedBlocksPublishing` are not inductive.  That the index stays in bounds
needs to know that an ACK is only awaited below the end of the table; that the
gate opens with REGISTER_DONE needs to know which frame the flags stand for
(`FlagsNameTheFrame`); that an oversized topic is never passed needs to know
that all topics up to an awaited one are sendable (`OversizedIsNeverPassed`).
`IInv` is their conjunction, preserved by each action in a lemma of its own;
the action properties follow from `IInv` and one step.

**`StreamLine_proofs`, the parser.**  `IInv` says how full each buffer is in each
state (`Fill`) and that the part of a frame in hand is the end of what has been heard
(`HeldWasHeard`).  In `HUNT_SYNC` only the second byte of the window counts, as the
first is overwritten before the window is compared.  That a magic number is never missed
(`NoMagicIsMissed`) needs this byte to be the last one heard (`WindowIsLastHeard`), after
a rejected header too, which is what line 77 is there for; the one exception is stated in
the property: behind a frame, good or bad, the window is still on the magic number of
that frame, and the last byte of the frame does not begin another.
From it: the parser writes inside its buffers for every stream of bytes
(`BuffersAlwaysHold`), and what it delivers was spelt out whole just before
(`DeliveredIsHeard`).

**`StreamLine_proofs`, the line.**  For any frames, any CRC of 16 bits, any buffer
below 65536 bytes, any bytes of noise and any number of faults: without a fault all
is delivered (`QuietLineAlwaysDelivers`), and after one the parser is in step again
when `Recovery` plain frames have gone by (`ParserAlwaysResyncs`).  Neither is
inductive: both speak of an empty line.  `TrackInv` says at every byte where
the parser is in the frame written last.  It is `InStep`, with exactly the bytes
in hand that have left the line; or `Astray` in something it takes for a
frame; or `Hunting` in the middle of the frame; or the line is empty and the
frame `LastDelivered`.  That a parser does not stay astray is a variant: what it may
still take for a frame (`Remaining`, at most a header and the largest
payload) shrinks by every byte, and a plain frame has no second magic number that could
lead it astray again.  `RecoveryAssumption` relates `Recovery` to the size of the
buffer; in the run it asks for two frames, and with one the property fails.  That a
frame read in step passes the check needs that `crc16_update` byte by byte is what
`crc16_buf` computes in one go (`CrcOfAppend`): an induction over the bytes, through
sets of natural numbers (`NatSetInduction`).  TLC has checked `TrackInv` on
the instance of `stream_line`; it takes four minutes and is in no run.

**`ThreadSafeQueue_proofs`.**  For any number of producers and any capacity.
`PolledNeverSleeps` and `SleeperIsNotified` need to know what the consumer
carries from one step to the next: after `size() > 0`, or a true predicate, the
item is still there (`PolledHasItem`, `PopperMayPop`), since only the consumer
pops and a push leaves at least its own item; after a false one the queue stays
empty until the consumer sleeps (`DozerHasNoItem`), since it holds the mutex.
Type correctness alone gives the refinement: `Pushed` is the abstract
`Newest(Append(...))`, and every other step but `Pop` stutters.

**`Generator_proofs`, sizes.**  For every sequence of fields and every string length.
That the computed size bounds the real one needs to know that what `CdrPos`
believes of the position is true (`PosIsKnown`), and that Micro-CDR's rule is
natural alignment (`ShortcutIsNaturalAlignment`): then `Pad` is the gap itself
where the position is known, and otherwise the largest over the residues it
may have, of which the real one is one (`PadCoversGap`).  Alignments divide one
another, so the prover splits into the cases 1, 2, 4, 8.  `ArrayIsElements`
shows that an array is its elements one by one, for any number of them above 0.

**`Generator_proofs`, ids.**  For every list of topics and limits up to 255: what has
been given out lies below what comes next on its own side (`IdsBelowNext`), so
a new id is new and the 8-bit counters never wrap.

**`Generator_proofs`, packages.**  For every tree of directories and links.
`EveryPackageIsFound` speaks of the end of a scan; the invariant
(`VisitedIsClosed`) says of any time that what a visited directory leads to has
been visited or is in `todo`.  At the end `todo` is empty, so the visited set is
closed, and it contains all that is reachable from any of its members.

**`Codegen_proofs`, the parts in the whole.**  The three are theorems about a walk, a
scan and an assignment on their own.  Every step of `Codegen` is, for each part, a
start, a step or a stutter of that part (`ScanStep`, `IdsStep`, `WalkStep`), so
that their invariants hold of every run of the generator, interrupted and failed
ones included, and of the board.

**`Codegen_proofs`, types.**  `TypeOK` has each file on the
stack of the parser stand for a message of some package and carry only fields as deep as its place allows (`FieldTrees[Depth(i)]`);
with this a nested type's fields fit into the file below it, and those of a topic are
of `MaxNesting` at most.  `PhasesInv` adds how far each phase has come.  The
functions this goes by are recursive (`FieldTrees`, `SearchForMsg`), and TLA+ lets a
proof use the equation of such a function only if a function with that equation
exists: `TreesExist`, `SearchesExist` and, further on, `LinesExist` and `FieldsExist`
build it up to each depth, by `NatSetInduction`.  Assumed are
`TextsAssumption` (every listed message has a file, and what files hold are lines),
`NestingAssumption`, and `WordsAreStrings`, that four literals are strings, which the
provers cannot see.

**`Codegen_proofs`, outputs and files.**  `UpToDate` relates what is on disk when the
build tool is content to the files at that time, although a run reads its files one
after another, one line at a time, and anybody edits them meanwhile.  The difficulty
is to say what is true of a half-parsed message whose nested files have not been opened
yet and may still be edited.  `BuildIInv` says it of every contents the files might
have: let `Agreeing` be the contents that agree with the present ones on the files
read so far; if none of those has been edited since the process began
(`Untouched`), what has been parsed is what any contents of `Agreeing` would give.
An edit of a file not yet read leaves `Agreeing` as it is, an edit of one that has been
read ends `Untouched`, and reading another file makes `Agreeing` smaller.  On the stack,
each file but the last waits (`WaitsAt`) at the line whose type the next one is
parsed for, and the last is `ParsedTo` a number of lines; `EndNested` and `EndTopic` then
are the recursion of `FieldsFrom`.  From there the outputs are followed phase by
phase (`OutputIsTrue`), and a success carries it all over, with the depfile, to the
time when nothing runs (`Ends`).  The theorem `OutputsAreUpToDate` so holds for every
tree of directories and types, every ros.toml and any number of edits, failures and
interruptions.  TLC has checked `BuildIInv` on the instance of `codegen` without the
interruption; it takes longer than a run may and is in none.

**`Generator_proofs` and `Codegen_proofs`, structs and functions.**  That what is
written is closed and in order (`OutputsAreClosed`) goes by a recursion that carries
along which names it has met, and marks a name before it has written it.  So the
lemma about one call, `EmitsAll`, speaks of the types written so far, a list without
repetitions in which each is behind those inside it (`Ordered`), and of the set of
those that are begun and not written (`open`): coming to a type takes the structs
and the serialisers from such a list to a longer one that has the type, and leaves
`open` alone.  The recursion is on the depth of the fields.  A type that is begun is not
met again inside, because its fields would have to be deeper than they are.  This
needs every use of a type to have the same fields, which a run that reads a file
anew for each use does not promise; it is so for types whose files hold still:
`SoundTypes`, the types that are parsed without error with all that is inside
them, for which `FieldsAreTrue` says that what has been parsed is what the files
say.  Here `BuildIInv` is about the present files, as `Undisturbed` says that
nobody has edited any.  The ids are then found by name (`IdsAreTrue`) and differ by
`IdsTellTopicsApart`.  `StructFunctionExists` and `SerdeFunctionExists` give the
equations of the two recursive functions; `NamesAreStrings` is assumed, that the
names of C types are strings, which the provers cannot see.

**`Generator_proofs` and `Codegen_proofs`, messages and their size.**  The
theorems about sizes bound any sequence of calls by the analysis of the same calls.
The generator, however, sizes the tree of fields (`MaxCdrSize`), and a board makes the
calls of generated functions that call one another (`CallsOf`).
`MessagesFitTheirFrame` needs both to be the same walk.  `Analysed(calls)` is what the
analysis makes of calls one after the other, and a sequence of calls `Means` a
pass if it takes every position, known or not, and total where the pass does.  Calls
joined mean their passes one after the other (`AnalysedConcat`, `FlatMeans`), by the
lemmas on `Loop` (`LoopSplit`, `LoopsAgree`).  With that `CallsMean` goes through the
serialisers in the order in which `EmitsAll` has them written, each behind those it
calls: the function of a type means the `MaxCdrSize` of its fields, with arrays, and
arrays of nested types, as that many passes.  Both recursive functions are shown to
exist first: `CallsExist` along that order, `SizeFunctionExists` on the depth of the
fields.  `BoardIsTrue` then is inductive on top of `BuildIInv`: the size in the
header is what is known of the message so far, analysed on over the calls still to be
made; and that size has been checked against the frame (`SizesAreChecked`).  At the
first call this is the size of the topic, each call takes as much from the rest as it adds
to the total, and with no call left the size is the total, which bounds what has
been written (`MaxSizeIsUpperBound`).  The premises are those of the property, that
the names of topics give different macros and that a depfile was asked for; the
constants need meet only what the sections above assume.  TLC has checked
`BoardIsTrue` on the instance of `codegen`.

**Only model-checked.**  All liveness (out of the prover's reach), and of the safety
invariants one, `DeliveredWasWritten`, that what is delivered was written: it is so as
long as the CRC tells every fault from a frame; no CRC does that for every fault, and
the run says that this one does for those of its instance.

## Not modelled, and why

Formatting and logging; opening and configuring the tty; the deadline of
`recv_frame`, which is about time; the CAN transport, which the server refuses
to build; the TCP transport, which is empty; the micro-ROS transports under
`libnanoros/nano_ros_transport`, which nothing compiles; `main` of the agent,
which calls `Agent::run` and has no state; `Agent::stop`, which nothing calls.
More than one client per agent does not exist in the code (`client_id` is not
used to route).

Of Micro-CDR: byte order, what happens at the end of a buffer, fragmentation.
Of the generator: how characters make words, paths and C text; files whose
presence changes (only contents are edited); arrays of length 0, which C does
not allow either; type names that end in `_t`, which ROS does not allow; the
default output directory, which nothing else depends on.

## Plan

Done, in this order: Protocol and Link; NanoRos, Agent, Session and Pipe;
NanoRosOpen and its proofs; StreamParser, StreamLine and its proofs;
ThreadSafeQueue, DropOldest and their proofs; CdrSize, TopicIds and
PackageIndex with their proofs; MsgFiles, Emitter and Codegen; NanoRos_proofs and
Session_proofs; the line in StreamLine_proofs; Codegen_proofs, with MsgFields taken out
of MsgFiles and Emitter so that fields have a type; what Emitter writes, in
Generator_proofs and Codegen_proofs; that the calls of a serialiser come to the
size of its fields, in Generator_proofs, and with it the board in Codegen_proofs; what a
loss cannot do to a registration, in Session_proofs.
Nothing is left of the plan.  Outside of it are the deadline of `recv_frame`, which
needs a model of time, and a bound on the faults within which the CRC provably tells
them from frames (bursts of up to 16 bits), for `DeliveredWasWritten`.
