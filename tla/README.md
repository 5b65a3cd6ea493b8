# A TLA+ model of the raw helper

LightLoft decodes raw photographs in a separate, confined process. This
directory models that process and its protocol in TLA+, checks the models with
TLC on small instances, and proves with TLAPS what matters most for every value
of the constants. Definitions are translated from the code under `src/`;
`PROJECT.json` gives the lines of each.

## 1. The system

| Part | Source | State | Operations |
|---|---|---|---|
| Helper process | `helper/src/main.rs` | the table `files` of open files (descriptor, mapping, rawler or not, cached system decoder), `sandboxed`, one request and one reply in hand | `main` (warm-up, sandbox, loop), `handle` (Hello, Open, Preview, Sensor, SandboxCheck, Close), `OpenFile::system`, `join`, `failed`, `guarded`, `sandbox_escapes` |
| Messages | `protocol/src/lib.rs` | none | `Request`, `Reply`, sizes of the layouts |
| Channel | `protocol/src/channel.rs` | a socket; the part of a frame written, the part read | `send`, `recv` |
| Shared memory | `protocol/src/shm.rs` | kernel objects and names, descriptors, mappings, a process-wide counter | `SharedBuffer::create`, `map_received`, drop |
| DNG linearisation | `helper/src/opcodes.rs` | reader position, tables | `Reader`, `each`, `whole_image`, `linearization`, `apply` |
| DNG lens corrections | `helper/src/corrections.rs` | what was kept so far | `gain_maps`, `gain_map`, `lens` |
| rawler decoding | `helper/src/decode.rs` | none | `preview`, `sensor`, `describe`, `analog_balance` |
| System decoders | `helper/src/system/macos.rs`, `unsupported.rs` | a lazily opened `SystemFile` | `open`, `preview`, `develop`, `warm_up` |
| Sandbox | `helper/src/system/sandbox*.rs`, `sandbox.sb` | the process's confinement | `enter` |
| Allocator | `helper/src/alloc.rs` | none | refuses an allocation above 2 GiB |
| Application | not in this repository (`README.md`, `alloc.rs`) | the requests it sent, what it opened, a timer | sends, reads, kills and restarts helpers |
| Fuzz targets | `fuzz/` | none | call the parts above |

The application and the helper share a Unix stream socket, whose messages may
carry one descriptor each. The application sends the descriptor of a file; the
helper maps it, decodes it, and answers with metadata and the descriptor of a
shared memory object that it unlinked as soon as it was created. The helper is
single-threaded and answers one request at a time, in order; replies carry the
id of the file, never the number of the request.

What is hard:

- *Descriptors.* They arrive with any message, are owned by the table, by the
  message in hand or by the reply about to leave, and every early return, every
  replaced entry and every failed decoder must close the right ones once.
- *Framing.* `sendmsg`, `write`, `recvmsg` and `read` may all be short; only
  `sendmsg` and `recvmsg` carry a descriptor, and a byte taken by the wrong call
  loses it.
- *Ends of processes.* Either side may end between any two steps: in the middle
  of a frame, between two calls of `create`, with a reply unread. A restarted
  helper may get the process number of a dead one.
- *Two decoders.* Each may succeed, fail, panic or take the process down; the
  second is opened on demand, and its failure is cached with it.
- *Pipelining.* A helper that dies takes several requests with it, and the sides
  of a socket that both write may wait for one another.
- *Untrusted input.* Lengths, counts and sizes come from the peer or the file,
  and are cast, multiplied and compared in several widths.

What makes each part correct:

- Helper: a descriptor has one owner; places of the table are neither lost nor
  gained; replies answer requests in order; pixels are those of the file the id
  names; nothing is read unconfined on macOS; everything is answered while
  decoders return; the process ends with its application.
- Channel: messages arrive whole, once, in order, with their own descriptor; a
  message cut short is not delivered; a length never decides an allocation
  above the limit.
- Shared memory: nothing readable is left under a name; what travels is
  complete; nothing is held between two buffers; a mapping stays within its
  object.
- Decoding: what a reply announces is what its buffer holds, whichever decoder
  filled it; no buffer is larger than an allocation may be.
- Session: a crash or a hang costs the file being read and no other; every file
  is settled; the sides never wait for one another.
- Opcodes and corrections: what is found is what was written, wherever the list
  is cut and whatever it announces; mappings compose in order; an opcode that
  cannot be read changes nothing; the loops end with the bytes.

## 2. The modules

| Module | Models |
|---|---|
| `Protocol` | requests, replies and reasons, reduced to what the control flow tells apart |
| `Helper` | one life of the helper against any application (extends `Protocol`) |
| `RawService` | abstract specification: a table from ids to files and one answer per request |
| `HelperProofs`, `HelperAnswers` | theorems about `Helper`: its descriptors and its table; its replies, and that it implements `RawService` |
| `Channel` | one direction of the socket, byte by byte |
| `MessageStream` | abstract specification: a FIFO of messages with their descriptors |
| `ChannelProofs` | theorems about `Channel` and that it implements `MessageStream` |
| `Layouts` | the sizes both sides compute, in the width of their integers |
| `SharedMemory` | `create` call by call, the kernel's objects, the application's side (extends `Layouts`) |
| `SharedMemoryProofs` | theorems about `SharedMemory` |
| `OpcodeReader` | the big-endian `Reader` |
| `Opcodes` | `each` and `linearization` (extends `OpcodeReader`) |
| `Corrections` | `gain_maps` and `lens` over what `each` found (extends `Opcodes`) |
| `OpcodesProofs`, `CorrectionsProofs` | theorems about `Opcodes` and about `Corrections`, all of the behaviours of `Corrections` |
| `Decoding` | `preview` and `sensor` of `decode.rs`, the system's `preview` and `develop` behind them (extends `Layouts`) |
| `DecodingProofs` | theorems about `Decoding` |
| `Session` | the application, its helpers one after the other, and the socket (extends `RawService`) |
| `SessionProofs` | theorems about `Session` |
| `MCHelper`, `MCOpcodes`, `MCCorrections`, `MCDecoding` | inputs of the small instances |

**Helper.** `pc` is the place in `main`'s loop: `"start"`, `"recv"`,
`"handle"`, `"return"`, `"send"`, or how the process ended. `Start` is lines 56-73 (a
helper that cannot enter its sandbox exits on macOS and goes on elsewhere);
`Recv`, `RecvFails`, `RecvEof` are the three arms of `channel.recv`; each
request is one disjunct of `Handle`; `Send` and `SendFails` are the end of the
loop's body. A Preview or a Sensor that has its pixels takes two steps: `Deliver`,
where `SharedBuffer::create` has opened the buffer's descriptor, and
`ReturnPixels`, where `handle` returns and drops its parameters. A descriptor that
came with the request, where none belongs, is open until then, beside the
buffer's. Every other return drops what was received in the step that makes the
reply, since nothing is opened in between. `fdTable` is the kernel's table: what each descriptor number
refers to. A new descriptor gets the lowest free number, as the kernel gives it,
so a number closed is at once another file's: closing twice, or using a number
after it was closed, shows as a file confused with another.
A call of a decoder is an `Outcome`: `ok`, `err`, `panic`, which `guarded`
turns into an error, or `abort`, which ends the process (a refused allocation,
a signal); at `Start`, and where a step is not guarded, nothing else is assumed.
`Fallback` is `file.system()?` followed by the system's decoder: the cache is
written before the second call, so a failure of the second leaves it. A reply
with strings or corrections of the file may be refused by `send` as too large,
which ends the process.

The application may send any of the configured messages, close its end, or kill
the process between any two steps. `requests` and `replies` are all that was
sent each way: most properties are stated over these histories, as the application
sees them, and not over the helper's table.

**RawService** is `Helper` without descriptors, decoders and buffers. The
refinement mapping reads `bound[id]` off the table's entry for `id` (the file
that was mapped), `pending` off the reply while `pc` is `"return"` or `"send"`,
`stopped` off the end of the process.

**Channel.** A byte is a frame number, a place in the frame, and the descriptor
that rides on it. `Send` is `sendmsg`, with any short count; `Write` the loop
after it. `RecvHeader` is `recvmsg` with a buffer of one header; `ReadExact`
the two `read_exact`; a plain read discards a descriptor it meets, since it
takes no ancillary data. If the ends ever disagreed on where a frame starts,
`Announced` and `Decoded` would return anything. With `Foreign`, frames may
come from a peer that is not `send`: over the limit, or not decodable.

**SharedMemory.** An object lives while it has a name or a handle: the helper's
descriptor or mapping, the descriptor in the socket, the application's
descriptor or mapping. The five calls of a buffer's life are five steps, each of
which may fail or be the helper's last. `Spawn` reuses process numbers and
starts the counter at 0. `map_received` is two steps: `Stat` is its `fstat` and
the comparisons, `MapReceived` the `mmap` with the size that was read. With
`Foreign`, an object's size and the announced length are any two numbers of
`Lengths`, and the peer may size the object again (`Resize`) at any moment after
its first size: before it is sent, between the application's `fstat` and `mmap`,
or under the mapping. `resized` remembers that an object which had a size was
given another.

**Decoding.** Where `Helper` sees a decoding step through its outcome, this
module takes one Preview or Sensor of a file rawler recognised through its
steps: rawler's, and after an error or a panic (`Misses`) the system's, each of
which computes a layout and a number of bytes on its own and fills a buffer.
`raw_image` may return sizes that do not agree with its samples. Casts and
products wrap at the widths of `Layouts`; an extent of Core Image is counted in
thirds of a pixel, so that it is whole, fractional, smaller than a pixel, not
finite, or larger than a u32. `Refused` is the allocator's comparison. `Fill` is
the copy, which panics unless both sides have the same length, or the render,
and then `describe` with the analog balance, which acts on rows: a colour matrix
is the sequence of its rows, a row a number.

**Session.** The helper is `RawService`, which `Helper` implements, and what the
socket holds survives it. A request is a few bytes and enters the socket whole:
it holds `ToHelper` of them. Replies are counted in parts, a part being what a
short reply takes, and the socket holds `ToApp` parts: a reply that describes a
file (Opened, Sensor) has `parts` of them, a number of `Sizes` that may be less
than `ToApp`, as much, or more. `Publishes` is one turn of the writing in `send`:
it puts one part in the socket when there is room, and with the last part the
reply is sent; until then `send` blocks in the middle of the reply and the helper
serves nothing. `Reads` takes one part, and with the last the application has
the reply (`Receives`). `put` and `got` count the parts written and read, and
`edges` is where each reply begins and ends.

`Dies` is a helper that ends with a request in hand: a decoder takes it down (a
refused allocation, a signal), or `send` refuses its reply as too large and `main`
returns. The application is not in the repository and is modelled from what the
repository expects of it. It pipelines: `send` and `recv` borrow the channel
exclusively, so it writes or reads, never both, and only its timer runs beside.
It reads a reply it has begun to its end before it writes again. It keeps count
of the files it has open, without waiting for replies. When the stream ends, in
the middle of a reply perhaps, it has read all that was sent, so the first request
without a reply is the one that cost it the helper; after a kill of its own it is
the one it waited for, whatever the helper has answered since. That file is given
up and a new helper is started for the others. Each file is opened, its samples
asked for, and closed.

How many requests the application may leave unanswered is `MayAsk`. Without a
timer it is as many as the code permits: of `n` requests not answered `ToHelper`
fit in the socket, and the replies to the others, of any size, must fit in the
socket while it writes, `(n - ToHelper) * parts <= ToApp` before it begins one
more. When a reply is larger than the socket this leaves `ToHelper` requests, and
with one more both sides do wait for one another: TLC finds it as soon as the
bound is relaxed. With a timer it never waits for room to write, so that what it
times is always a reply.

**OpcodeReader, Opcodes, Corrections.** Bytes are counted in units of four: a
u32 and an f32 are a unit, an f64 two, and a u16 of a MapTable counts as one.
Floats are small integers, with one value for those that are not finite; a
table has a point at every step of its values, so that no rounding is left out
that the properties could see, and MapTable's index is exact. `Fields` is a run
of reads of one width: `Reader` does not move when it cannot read, so what comes
after a missing field of a run is missing too, and a run after an incomplete
one is never used. The two loops of `opcodes.rs` (`each` and `linearization`)
read a list in the same way and are one loop; those of `gain_maps` and `lens` go
through what it found, and are one loop after it, over one list that holds
opcodes of both kinds. The reference the result is compared with is the
list's *writing*: every list of the instances is encoded from a list of records,
and the properties say what of those records must come back.

## 3. The runs

| Run | Instance | Shows |
|---|---|---|
| `table` | 3 ids, 2 files, 2 places, 5 descriptors, 4 requests, 2 unanswered, requests for pixels with a descriptor or without, not macOS | `TypeOK`; descriptors have one owner; replies answer requests in order; pixels are those of the file last opened; no more than `MAX_OPEN_FILES` files, two descriptors more while a request is handled and none between requests; "too many" is answered only when the application holds that many; `Helper` implements `RawService` |
| `protocol` | macOS, 1 id, every request of the protocol, malformed ones and stray descriptors included, every outcome of both decoders | descriptors have one owner; nothing read unconfined; `Helper` implements `RawService`; the system decoder and its failure are kept while the file is open; every request is answered; the process ends with its application |
| `stream` | frames of 2 to 5 bytes, socket of 3, limit of 2 | `Channel` implements `MessageStream`; `recvmsg` is made at the first byte of each frame and meets every descriptor; frames arrive |
| `restart` | 2 process numbers, counter of 2, 3 lives, 2 objects, lengths on both sides of a page, peers that size and announce otherwise than `create` and size again at any moment | named objects are empty; what travels is complete; nothing is held between buffers; mappings stay within what was checked, and within an object sized once |
| `opcodes` | 2 planes, values of 3 steps, degree 1, tables of 3, grids up to 3 x 3 by 2 planes, 6 gains, 2 maps, lists of 1 to 5 opcodes | what fits is found; tables compose in order and end with the planes; the first sound maps and the last sound lens are kept; each pass consumes the list |
| `session` | a sound file, one that may crash the helper, one that may hang it; 2 places, a socket of 1 request and 2 parts of replies, replies of 1, 2 and 3 parts, with a timer and without | the sides never both wait for room, a reply larger than the socket included; only the culprits are given up; an application that counts is never refused; every file is settled |
| `decoding` | u8, u32 and usize of 4, 64 and 4096 values, pages of 16, allocations of 48, developed images of 4 pixels; sizes on both sides of each | what a reply announces is what was decoded and what its buffer holds; no buffer exceeds the cap |
| `version`, `reasons`, `names`, `message`, `balance` | | disagreements between code and comments, section 5 |

*Bounds.* `MaxRequests` bounds one life of the helper, `Window` the requests
not yet answered. Four requests are enough to open, replace, close and ask again
with another file under the same id, and to fill two places, close one and fill
it again. The helper holds at most two descriptors beyond the table: the stray one
of a request for pixels and the pixels'. In `table`, with two places, that is four,
and there are five; in `protocol`, with one place, three, and there are four: a
leak is a descriptor without owner and not a lack of descriptors. `Capacity` is
smaller than the longest frames and larger than a header, so that a write is cut in the header and in the payload, and two
frames can share the socket; `HEADER` is 2 instead of 4, one cut inside it being
like another. `MaxFrames` is 3: the frame in the middle has both neighbours.
`U32` is 2 in `restart`, so that the counter wraps within one life, and three lives with
two process numbers always reuse one. Opcode lists have an opcode before and an
opcode after each cut; every limit of the readers has values at it and one past
it, and gains, coefficients and fields each of their invalid values. In `session`
one file of each kind is enough for a culprit to be in flight between two
others, in every order; its socket fills both ways, a reply is smaller than it, as
large, or larger by a part, and the table has a place less than there are files. In `decoding` a size of `U32` or `U8` is one that a
cast turns into 0, and one more, into 1, for which sample counts that agree
before and after the cast are both tried. Ids and files are interchangeable in
`table`, which uses this as symmetry: its one temporal property, the refinement,
is a safety property that treats them alike. Runs with liveness use none.

*Fairness.* `Helper!FairSpec` assumes weak fairness of the helper's own steps:
its loop has no condition other than the calls it makes, so it goes on as long
as those return, which for decoders is the assumption that they do not hang (a
helper that does is killed by the application: `Kill`, which is not fair).
Nothing is assumed of the application: `EveryRequestAnswered` holds of what it
did send. `Channel!FairSpec` assumes that a `send` begun writes on while there
is room and that the receiver keeps calling `recv`, as `main` does; neither the
ends nor their closing are forced. `SessionSpec` assumes that the helper answers
what is not slow (nothing when there is no timer) and sends the part it has room for,
that the application goes on with its work and that its timer runs; no crash and
no slowness is forced, and no answer of a slow file is.

`Finished` and `Done` are the steps of a system that has stopped; deadlock is
checked in every run.

## 4. The proofs

Every theorem holds for every value of the constants: any sets of ids, files,
descriptors and messages, sockets and frames of any size, integers of any width,
lists of any length. Each theorem that a run checks names the same definition.
The assumptions are those the modules state of their constants, and TLC
evaluates them in the runs: limits are positive, `None` and `Missing` are none
of the values they stand beside, messages are messages of the protocol. Those
that say more are named below.

**`HelperProofs`**: `TypeCorrect`, `DescriptorsHaveOneOwner`,
`DescriptorsStayBounded`. `TypeOK` is not inductive: `Open` stores the file that
the received descriptor refers to, and `Send` the one whose pixels the buffer
holds, whose types come from the descriptor table's contents. Conversely, that
closing an entry's descriptor leaves the others' alone needs the entries to be
typed and their numbers distinct. The inductive invariant is therefore

    IInv == TypeOK /\ Control /\ DescriptorsOwnedOnce

where `Control` says when there is a message, a reply and a buffer in hand. It
is preserved action by action (`NextKeepsInvariant`), from lemmas for what many
actions share: the end of the process, a reply that leaves without a buffer,
`Insert`, `Deliver`, `ReturnPixels`, `Close`. The bound is a second induction on top of `IInv`:
only `Insert` lets the table grow, by one, and `Admitted` has just tested it
(`TableGrowsByOne`, `TableBoundedKept`); with one owner per descriptor, the
descriptors in use are those of the table, the one received and the buffer's, and
while the helper waits for a request there is neither (`DescriptorsFollowTable`). Nothing here depends on which free number a new
descriptor gets: `NewFd` is used only for being free.

**`HelperAnswers`**: `RepliesInOrder`, `PixelsAreOfBoundFile`,
`RefusalsAreJustified`, `NeverUnconfined`, `HelperImplementsService`,
`DecoderOpenedOnce`. The first four are about the histories of
requests and replies, and the helper remembers neither. `AnswersInv` ties the
table to them: while the process lives, the table binds each id to what the
requests and replies so far bind it to (`TableAgrees`), the descriptor in hand
is the one attached to the message taken last (`InHand`), and the reply about to
leave is one that the histories justify (`ReplyReady`). The disjuncts of
`Handle` fall into six kinds by what can be seen of them (`HandleSeen`: greets,
tests, refuses, binds, gives pixels, unbinds), and the invariant is preserved
kind by kind. Uses `AnswerAssumption`: `None` is not an answer.

`HelperImplementsService` goes step by step over the same six kinds: what `Handle` does, a silent `Send`, an end of the process, each is an
action of `RawService` or a stutter. For `DecoderOpenedOnce`, an entry is either
untouched by a step, or replaced, or only its cached decoder goes from unopened
to opened.

**`ChannelProofs`**: `TypeCorrect`, `DescriptorsAreMet`,
`ChannelImplementsStream`. The invariant is that the two ends never lose step:
the bytes in the socket are consecutive (`StreamInStep`), the first of them is
the one the reader expects next (`MeetsReader`), what it has read of the frame
it is in is a prefix of that frame (`ReaderInStep`), and what was delivered is
what was sent so far (`DeliveredInStep`). That `recvmsg` meets every descriptor
cannot be shown alone: it is made at the first byte of a frame only because no
read ever took a byte more or less than its frame has.

**`SharedMemoryProofs`**: `TypeCorrect`, `NamesLeadNowhere`, `SentIsComplete`,
`BuffersGivenBack`, `MappingsFit`. None of these is inductive alone: that a name
leads to an empty object needs that only an object without a name is sized,
which is a matter of the order of the calls. The invariant adds to them what
the helper holds at each place of `pc` (`InTheHand`), and that who has checked or
mapped an object has a handle to it (`CheckedByHandle`, `MappedByHandle`), so that
its place is not given to a new object meanwhile. `MappingsFit` says that what is
mapped is no more than `fstat` found, for any peer; and that it lies within the
object if this was sized once. A crash forgets `pc` and not the objects, so
what is said of names is said of objects nobody holds too.

**`SessionProofs`**: `NeverWaitForEachOther`, `OthersAreNotGivenUp`,
`NothingIsRefused`. For the first, the helper is in the middle of a reply
and the socket is full. What is in the socket is then less than the parts of the
replies the application has not received, the one being written included
(`UnreadFits`). This needs to know where the two ends are in the stream: the edges
of the replies rise by at most `parts` (`EdgesRise`), the reader is between the
edges of the reply it reads and the writer has not passed the end of the one it
writes (`StreamFits`). The products of replies and parts are compared by `OneMore`
and `Monotone`; that the application began its request under `MayAsk`
(`Counted`) then leaves no room for both to wait. That nothing is left unread at
the end of the stream (`AllReceived`) comes from the same two parts. The two other
theorems need more: which files the helper's table holds follows
from the prefix of requests it has served (`TableFollows`), and the request that
the application blames when the stream ends is the one the helper stopped on
(`BlameKnown`).

**`DecodingProofs`**: `AnswersAreTrue`, `SharedMemoryWithinCap`. The invariant
says which calls belong to the request, that a size computed is within the cap
and that a layout agrees with what is filled. `LimitsAssumption` says how the
limits of the code compare: 100 million pixels of eight bytes and a thumbnail's
square of four bytes are allowed as an allocation, and an allocation plus a page
does not wrap. `AnnouncedIsDecoded` speaks of `bytes()` as the code computes it,
in the width of `usize`: of a layout that wraps modulo 2^64 the announced number
of bytes, wrapped, is the one decoded, but its sides multiplied without bound are
not, since the comparison at `decode.rs:124` is itself modulo `usize`. Rawler
returns no image of 2^64 samples; the model allows one, and the `decoding` run
has an image whose product wraps.

**`OpcodesProofs`**: `FoundIsWhatFits`, `NoPassIsIdle`, `MappingsComposeInOrder`,
`TablesOfMappedPlanes`. `ReadingInv` says that the list is as it was written, that what was
found are its first opcodes and that the reader is at the end of the last of
them; when it stops, why the next does not fit. `TablesInv` says on top of it that
the tables are the composition of the mappings found. `ListsAssumption` is how
lists come to be: written from any records, announcing any number of them, cut
anywhere, and so every list of units; `IsMapping` of an opcode is the same for its body.
A body is read back as it was written (`BodyOfMapping`, `WholeImageRead`,
`PolynomialRead`, `TableRead`), an opcode is skipped exactly when the reference
maps no plane by it (`MappingRead`), and Horner's scheme is the sum of the terms
(`HornerIsSum`). The recursive functions (`Encoding`, `Horner`, `Power`,
`SumOfTerms`, `Through`) have no induction principle that the installed provers
can instantiate; each is unfolded by induction in the form of a set: a set of
numbers with 0 and, with each number, the next one, is all of them
(`InductionTo`), since a number outside would have a least such
(`LeastNumber`). `Recursion` gives the existence of the function in the
same way.

**`CorrectionsProofs`**: `GainMapsAreTheFirstSound`, `LensIsTheLastSound`.
`CorrectionsInv` says that the opcodes of the list hold what `IsCorrection` says
of them, that nothing is kept before `each` is done, and the two properties up to
the opcode read last; `ReadingInv` gives that what was found are the first
opcodes written. The work is in one step of the loop. A body read as far as it goes
gives back the fields it was written from, run by run (`GainMapRead`,
`VignetteRead`, `WarpRead`, from the places of the fields in what was written,
`GainMapLayout` and `WarpLayout`), so an opcode is skipped exactly when the
reference does not call it `Sound`. `CorrectionsAssumption` says that the
three identifiers differ and that the body of a correction is the encoding of
some content, cut anywhere or longer. The content is any numbers, the limits
exceeded or not, and a gain map's gains are as many as its grid has places: a
reader that took fewer or more would read the next field at the wrong place.

Model-checked only:

- the liveness properties (`EveryRequestAnswered`, `EndsWithApplication`,
  `FramesArrive`, `EveryFileSettled`), which need fairness and ENABLED;
- the disagreements of section 5, which are counterexamples.

## 5. Where the code and its comments disagree

Each is a run that TLC must find violated.

- `version`: `PROTOCOL_VERSION` is documented as checked by both sides, and the
  helper serves a peer that announced another one.
- `reasons`: `join` is documented to give both decoders' reasons; when the
  system's decoder cannot be opened, rawler's reason is dropped.
- `names`: an object is documented to disappear with its last handle; one whose
  creator dies between `shm_open` and `shm_unlink` keeps its name for ever. (It
  is empty: `NamedObjectsAreEmpty`.)
- `message`: messages are documented as small, and large buffers as never
  copied through the socket; the limits on gain maps let one of them exceed the
  limit of a message four times over, and the helper then exits.
- `balance`: each row of a colour matrix is documented to be multiplied by its
  analog gain; three gains are kept, so the fourth row of a camera of four
  channels is not, though the file has its gain.

## 6. Not modelled

- Pixels, and what rawler, ImageIO and Core Image do: a decoder may return
  anything of the right shape, fail, panic, or take the process down.
- Metadata (`info`, `describe`, `file_info`, EXIF ratios), the text of errors,
  postcard's encoding: they are copied and decide nothing. That their sum fits a
  message is not guaranteed, which `SendFails` and the `message` run show.
- `warm_up`, type hints, colour spaces, the Core Image context: no effect on
  what a request may find.
- The rules of the sandbox profile, which the operating system enforces; only
  whether the helper is inside is modelled.
- The memory of the machine: the cap is on one allocation, and neither the sum
  of allocations nor the system decoder's copy of the file is counted.
- Fractions of a pixel in what Core Image renders: `render` passes it the extent
  itself, whose last part of a pixel has no place in the buffer.
- Objects that are sized again under a mapping. `README.md` of the repository
  says of the application that "a compromised helper must not be able to crash it",
  and that the receiver checks the real size before mapping. `MappedWithinObject`
  establishes it for an object that was sized once, and the bytes mapped are never
  more than the check found; macOS refuses to size an object of `shm_open` again.
  Where the system allows it, as Linux does, a helper that keeps its descriptor can
  make the object smaller after `fstat`, and `fstat` before `mmap` cannot see it:
  the sentence is not established there, by the code or by these models. `resized`
  marks these states, and every other property of `restart` includes them.
- A width or a height that loses its high bits in the cast of `decode.rs:116-118` and
  whose samples agree with what is left: it is answered as an image of that smaller
  size, and `AnnouncedIsDecoded` holds of it. The samples would have to be those of
  the smaller image; rawler gives as many as its sizes say.
- Requests cut by the socket in `Session`: they are a few bytes and enter whole.
  `Channel` has every cut, of one direction.
- The fuzz targets, which hold no state.

## 7. Plan

All modules of the plan are written, and every safety property and every
refinement of the passing runs is proved; the liveness properties and the
disagreements stay with TLC. What is left is to shorten the longest proofs
(`OpcodesProofs`, `CorrectionsProofs`), whose lemmas on what is read at a place
of a sequence overlap, and to weaken `ListsAssumption` and
`CorrectionsAssumption` where a proof turns out not to need a part of them.
