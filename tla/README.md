# A verification of Audio Selector

Audio Selector is a small Bluetooth device (an ESP32 with an LCD and a jog
switch, `src/firmware`) that shows the default audio endpoints of a Windows PC
and lets its user choose others.  A resident Windows program (`src/windows`)
enumerates the endpoints, sends them over a Bluetooth serial link
(`src/protocol/protocol.md`) and carries out the requests the device sends.

This directory holds TLA+ models of both programs and of their composition,
TLC configurations that check them on small instances, and proofs checked by
TLAPS.  `PROJECT.json` maps each definition to the lines it models.

## 1. Inventory

| Part | State it keeps | Operations | Talks to |
| --- | --- | --- | --- |
| Device state (`firmware/src/state/device_state.cpp`) | the committed list, the list being received, announced counts, four mode flags, request ids, last error | begin/add/current/commit/cancel of a sync; begin/finish/cancel of a set request; cycle; end of session; clear | called by the main loop only |
| Main loop (`firmware/src/main.cpp`) | handshake flag, connection status, screen mode | connection edges, one handler per frame type, jog events | all firmware parts |
| SPP transport (`firmware/src/bluetooth`) | started, connected, four write slots | begin, end, reconnect, update, read, enqueue | Bluetooth stack |
| Stream parsers (`*/protocol/parser.*`) | a receive buffer | push, clear | transport, message codec |
| Message codec (`*/protocol/message.*`) | none | encode, decode with validation | parsers, handlers |
| Jog switch (`firmware/src/input`) | debounce and long-press timers | update | main loop |
| Display (`firmware/src/display`) | what is drawn, marquee offsets | draw, update | LCD |
| Host session (`windows/src/main.rs`) | generation, last snapshot, keepalive deadlines, debouncer | connect, handshake, full sync, set request, keepalive, give up | audio service, connection, notifications |
| Audio service (`windows/src/audio/mod.rs`) | none (COM objects) | enumerate, read defaults, set the three roles and verify | Core Audio, PolicyConfig |
| Notifications (`windows/src/audio/notification.rs`) | an unbounded queue, a 250 ms deadline | callback on a Windows thread, drain, take due | Core Audio, session loop |
| Bluetooth connection (`windows/src/bluetooth`) | a pending read, the parser, the backoff | connect, handshake, receive, send | Bluetooth stack |
| Process (`windows/src/runtime.rs`, `lib.rs`, `config.rs`) | single-instance mutex, shutdown flag, log | start, stop | Windows |

What makes the system hard:

- **Three actors and no common clock.**  Windows changes its devices and calls
  back on threads of its own; the host polls; the firmware polls.  A list is
  read by many separate Core Audio calls.
- **A request crosses a list.**  While the user's request travels, the host may
  send a new list, and the firmware refuses it because a request is
  outstanding.  The list that follows the result must repair everything.
- **No timeout on the device.**  After a request it waits for the result, and
  after the result for a list, with no timer of its own, although protocol.md
  sections 8 and 12 describe timers: only the host, or the end of the link,
  ends a wait.
- **The link ends anywhere**: in the middle of a list, between result and list,
  or because the user asked for it, in which case the firmware sees no
  disconnect event.
- **Reads are not frames.**  Every byte-level layer has to survive any cut, and
  two programs in two languages have to agree on every offset of a frame.
- **The firmware polls its link.**  A link that goes down and up between two
  polls leaves no edge: its queue, its handshake and its screen outlive the
  session they belong to.
- **The host must neither stop nor miss anything**: it retries for ever, sleeps
  in between, hears of changes through a callback on another thread, and still
  has to end when the console is closed.

What makes each part correct is stated as properties (section 4); the hazards
they are for are listed in `PROJECT.json` with the line where each bites.

## 2. Modules

| Module | Models | State and actions |
| --- | --- | --- |
| `AudioTypes` | flows, roles, handles common to both programs | constants only |
| `DeviceState` | class `DeviceState` | one variable per field; one action per public operation, each with its refusals |
| `SelectionContract` | *abstract*: what the class promises the rest of the firmware | mode, what is on offer, the choice, what was asked |
| `SppLink` | the serial link as both programs use it | `link`, one queue of frames per direction |
| `Selector` | `main.cpp` around `DeviceState` | flags of the main loop; an action per connection edge, frame handler and user operation |
| `WindowsAudio` | Core Audio (external) and how `AudioService` reads it | devices, defaults, owed callback, queued event |
| `HostSession` | `run_spp_session` and what it calls | program counter, capture in progress, generation, snapshot, debouncer, messages read |
| `AudioSession` | the system: the four modules above | their actions interleaved, plus loss of the link, failing sessions, reconnect and restart of the selector |
| `KeepAlive` | the host's idle deadline and PONG wait | ticks, attempts, a stream cut into reads |
| `SetDefault` | one set request of the host, call by call | devices that anybody changes at any time, round of calls in progress, what was read, what failed; every call may fail |
| `JogSwitch` | class `JogSwitch` | one variable per field, a wrapping clock; one action per branch of `update()` |
| `ProtocolFrame` | the frame of both programs | lengths, the magic, encoding a frame |
| `StreamParser` | `StreamParser` of both programs, which are one algorithm | the buffer; `Push`, and one action per way through the loop of `push` |
| `MessageCodec` | `message.rs` and `message.cpp` | tables of layouts with the ranges each side checks; encode and decode of each side |
| `Wire` | one direction of the byte stream, from one codec to the other | the stream with noise or one damaged byte, the reads, what was cut out and acted upon |
| `FrameChannel` | *abstract*: messages arrive once, in order and unchanged | what is sent, what is delivered |
| `SppTransport` | `spp_transport.cpp` | the ring of writes with its offsets, the callbacks' flags |
| `SendQueue` | *abstract*: a bounded queue of whole frames | what waits, how much of the first is written |
| `SelectorScreens` | the five screens of `main.cpp` and its error display | mode, cursor, restart choice, error, unsigned difference to its end |
| `DeviceLoop` | `loop()` around the two modules above, and a host | the stages of a loop, HELLO and PING, sessions of the host |
| `Discovery` | `find_paired_audio_selector` | the walk over the paired devices |
| `Notifications` | `notification.rs` with its time | callbacks owed, channel, deadline, the read under way |
| `HostRuntime` | `runtime.rs` | the named mutex among several processes, the console handler and its flag |
| `HostProcess` | `main.rs` around a session: the command line, every command, `run_spp_session_loop`, `interruptible_sleep`, `ReconnectBackoff` | what is still to do as a sequence of operations, failures, backoff, sleep, finish time |
| `MCDeviceState`, `MCAudioSession`, `MCWire`, `MCHostProcess` | instances for TLC | constants only |
| `DeviceStateProofs`, `AudioSessionProofs`, `DeviceLoopProofs`, `WireProofs`, `KeepAliveProofs`, `SetDefaultProofs`, `JogSwitchProofs`, `HostProcessProofs` | theorems about these modules | proofs |

How they are composed: `AudioSession` is `Selector` (which is `DeviceState` and
the main loop) and `HostSession` (which is `WindowsAudio` and the session loop)
over `SppLink`.  `DeviceLoop` is `SppTransport` and `SelectorScreens` under the
stages of `loop()`.  `Wire` is `MessageCodec` and `StreamParser` over a stream of
bytes.  `HostProcess` is `Notifications`, `HostRuntime` and `Discovery` under
`main`.  The main loop and the host therefore appear in more than one
composition, each time with the part of their state the question is about: a
product of all of them has far too many states.

`Selector` uses the actions of `DeviceState` as they are, so what is proved of
the class under *every* caller holds in the composition.  Two handlers call two
operations in one step; they are written as one action with the combined
effect: a sync that does not commit is also cancelled (`CommitRejected`), and a
request that cannot be queued is cancelled (`PressCenterQueueFull`).

A request's fields are kept in `request` while it is outstanding.  The class
stores only its id; the rest is in the frame that was sent.

Steps are as fine as the code's interleavings need.  The firmware is one
thread, so a handler is one step; the user may act between any two frames,
which is finer than `loop()`.  The Bluetooth stack changes the link at any
time, so in `DeviceLoop` each stage of `loop()` is a step.  The host is one
thread too, but Windows is not: a capture has a step for the collection of each
flow (`EnumAudioEndpoints`) and one for each of the six defaults; what is read
of an endpoint after its collection, its state, id and name, never changes in
the model, so it counts as read with the collection.  Resolving a request and
setting the endpoint are two steps.  The frames of one list are sent in one
step because nothing the host looks at can change in between.

### Three abstract specifications

- `DeviceState` implements `SelectionContract`: a new list is offered as a
  whole and never while an answer is due, a choice that is still on offer
  stays, one question is asked at a time and about what was on offer.  The mode
  of the contract is a function of the four flags of the class.  Proved.
- The ring of `SppTransport`, inside `DeviceLoop`, implements `SendQueue`: the
  frames between head and tail are the queue, the offset of the first is what
  is written of it.  Proved.
- `Wire` implements `FrameChannel`: on an undisturbed stream the messages
  arrive once, in order and unchanged, and all of them do; noise without a
  magic before them makes no difference.  That they do all arrive is
  model-checked, the rest (`ChannelSafety`) is proved too.

## 3. Abstractions

- *Names* are abstract in `DeviceState` and in the composition;
  `OversizedName` stands for every name the class refuses.  In `MessageCodec` a
  text is a sequence of bytes, some of which are never UTF-8 (`IllFormedBytes`).
- *Frames* are records in the composition.  What bytes they are is the subject
  of `Wire`, how the firmware writes them in pieces that of `DeviceLoop`, what
  the host makes of parts of them that of `KeepAlive`.
- *Bytes* have seven bits in `MCWire` (`Base` = 128), so that a number of four
  bytes fits the integers of TLC; every module is written for any base.
- *Time* is left out of `AudioSession`: a debounce may end at any moment after
  the queue was drained without a new event, an error display may end at any
  time.  `KeepAlive`, `HostProcess`, `JogSwitch` and `SelectorScreens` count
  ticks.  Of `millis()` and the end of an error only the unsigned difference is
  kept: the code uses nothing else, and the comparison of a signed difference
  is a comparison with half the range.
- *Handles* are positions in the sorted list, as `normalize_endpoints` makes
  them: the endpoint at a place is the one with as many endpoints before it.
- *Setting a default* calls Windows once per role; in the composition the three
  calls are one step whose outcome is a set of roles that were reached.
  `SetDefault` has a step for every call, in which a call may also report
  success and do nothing, or an error and do its work.  It leaves the order of
  the list open, and the generation is accepted already.
- *Buttons* of the jog switch are read at least every `MaxStep` ticks, and
  contacts bounce for at most `MaxBounce` ticks, so that the clock cannot go
  round while they do.  `touched`, `sent`, `age`, `steady` and `bounce` are
  history: no guard of the code's branches reads them.  So is `shownFor` of the
  screens, and `answered` and the `for` of a frame in `DeviceLoop`.
- *In `AudioSession` the firmware sees a lost link before the host connects
  again*: the host waits at least a second before it reconnects, the loop polls
  every 10 ms.  `DeviceLoop` is without this assumption, for the handshake and
  what the screen says.
- *Screens* are left out of `AudioSession`, where every user operation is
  offered at all times.  In `SelectorScreens` the cursor of the settings is
  forgotten while the main screen is shown, because it is set anew on entry.
- *An event* says only that something changed; `Notifications` counts events,
  and `shown` and `fresh` say whether what was read is what Windows has.
- *An operation of the host* fails by chance at most `MaxFailures` times per
  process; a selector that is not paired makes it fail every time.

## 4. Runs

| Run | Bounds | What it shows |
| --- | --- | --- |
| `device` | output lists of two out of three handles, no input, capacity 2, 2 generations, 2 ids | for every order of calls: committed lists are consistent, LEFT and RIGHT are inverse, a request keeps naming what is shown, modes exclude each other, lists are replaced whole, refusals are harmless, a wait ends only in a commit or with the session; the class implements its contract |
| `session_audio` | 2 endpoints; 2 audio changes, or 1 change with 1 break and 1 request, or 2 breaks and 1 request, or 3 breaks | generations name snapshots; one request is under way at most, and its result is the one awaited |
| `session_breaks` | 2 endpoints, 1 request, 2 breaks anywhere or 1 audio change | recovery: the screen never claims a handshake that did not happen, no frame is refused for its content, both waits end, the display converges; also after a torn capture or a refused list |
| `keep_alive` | 2 ticks idle, 2 ticks per PONG, 2 requests | a silent device is dropped, a stale PONG answers nothing, requests survive the wait |
| `set_default` | 2 endpoints, list limit 2, handles up to 3 | the result of a request agrees with the devices, whichever calls fail, unless they were changed during the reads |
| `jog_switch` | 2 directions and CENTER; debounce 2, long press 3, step 2, bounce 2 ticks; the clock wraps at 10 | one event per gesture, of a button pressed alone; the time held decides between short and long; no lock is forever |
| `wire` | each of 17 messages, 8 noises or a message with one byte replaced, followed by a message; reads of 1, 7 and 32 bytes in any order; both receivers | what is cut out does not depend on the cut, the buffer suffices, both codecs agree, a damaged frame is never taken for a message, what is understood is acted upon, the stream implements the channel |
| `host_process` | 3 processes, 3 failures, backoff 1, 2, 4, finish after 4 ticks, debounce 2, 2 events under way | one instance is resident, the wait follows the failures, no change is missed, a shutdown is obeyed, the selector is reached |
| `device_loop` | ring of 3, frames of 2 pieces, 3 sessions, or one, a restart of the program and one; session numbers 1 and 2, of which the nonce keeps all; error of 2 loops, the clock wraps at 8 | the answer to another session counts only where the nonce repeats, the screen says what is so, errors go away in time, the ring is a queue |
| `stale_selection` | 1 audio change, 1 request | *violation*, finding 1 |
| `handle_reuse` | 1 audio change | *violation*, finding 2 |
| `fragmented_pong` | no request | *violation*, finding 3 |

`jog_switch` checks what PROJECT.md section 8.4 asks of the switch.  Its short
press is stated for two reads in a row that agree: a button that is let go in
the last milliseconds before 800, or bounces over them, may be reported either
way, but once only.

Why these bounds are enough.  *The class*: operations on one flow never read
the other, so one long list and an empty one show what two long ones would; two
out of three handles in any order reach the capacity and tell a kept choice
from a new one, two generations tell the announced from the committed one, two
ids make the id wrap.  That LEFT and RIGHT differ needs three endpoints and is
left to the proof.  *The composition*: two endpoints of one flow make every list
of interest (empty, one, both, with positions that shift), a second audio
change can hit the sync the first caused, and a second break can hit the
recovery from the first.  `Budget` bounds breaks, changes and presses together,
each counted with its weight, `MaxChanges` and `MaxPresses` each alone; a second
press is beyond the runs and covered by the theorem about requests, as are the
mixes the budget leaves out.  *The wire*: a message before
another one is enough for the parser to lose its place and find it again, the
noise holds every beginning of a frame that the loop distinguishes, and the
messages have each field at its least and greatest value and bytes like those
of the magic.  *The device*: three sessions leave the answers of two in the ring, and as there
are two session numbers the third session has the nonce of the first, so the
repeat that `AcceptedAnswerIsOurs` allows for does happen; one session before a
restart of the program is enough to repeat the nonce of the first after it; two
pieces are the least that can be cut, three slots make head and tail
pass each other.  *The process*: three failures reach the limit of the delay and
one beyond, three processes let one refused instance stand between two others.

Every bound that cuts a counter off stands in the guard of an action of the
environment (`MaxChanges`, `MaxPresses`, `MaxRequests`, `MaxNotices`,
`MaxAsked`, `MaxSessions`, `MaxPrograms`, `MaxEarlier`, `MaxFailures`) and never in one of the program's;
`ManyFailures` only stops counting once the delay has reached its limit.
`set_default`, `jog_switch` and `device` have no counters to cut: every order of
calls, failures, interference, presses and bounces is explored without end.
Two endpoints never exceed the list limit of 2; that case is left to the proof,
which is for every limit.  The clocks of `jog_switch` and `device_loop` wrap at
the smallest value that leaves room for their deadlines, so every press and
every error can meet the wrap.

Deadlock is checked in all runs but `keep_alive` and `fragmented_pong`, where a
closed session is the end, and `wire`, where a stream ends.  In the composition
it says little, since LEFT and RIGHT can always be pressed; the liveness
properties say what matters.

### Fairness

`FairSession` assumes weak fairness of the host's steps, of a due debounce and
of waiting messages within them, of the firmware's steps, of connecting while
the selector is up, and of the callback Windows owes.  The first four are
polling loops without a wait that could last forever (`main.rs:240`,
`main.cpp:530`); reconnecting is retried without limit (`main.rs:191`).
Nothing is assumed of the user, of audio changes or of the radio: they may stop
at any time, and the link may be lost at any time within the bound.
`FairKeepAlive` assumes that the loop runs and that time passes, and `Spec` of
`JogSwitch` that `update()` goes on being called.  `HostSpec` assumes that the
thread of the process runs on, every call it makes returning some time with
success or an error, and that time passes; nothing of Windows, the user or
other processes.  `WireSpec` assumes that both programs go on reading what was
written.  `device` and `device_loop` assume nothing.

## 5. Findings

1. **A request can select what the user did not see** (`stale_selection`).
   `handle_set_request` compares generations, but then looks the handle up in a
   *new* enumeration, where handles are positions.  An endpoint that appeared
   less than 250 ms ago shifts them while the generation is still current.
   protocol.md section 6 gives the generation check as the protection against
   exactly this.
2. **Handles move to other endpoints** (`handle_reuse`).  Sections 6 and 11 of
   protocol.md forbid to give a handle to another endpoint within a
   connection, and keep the candidate by its handle for that reason.
   `normalize_endpoints` numbers every enumeration anew.
3. **A PONG that is cut in two ends the session** (`fragmented_pong`).  A read
   without a complete frame makes `receive_messages` return an empty list, and
   the PONG wait takes that for a timeout.  Two such reads and the session is
   closed although the device answered.

Two more disagreements with protocol.md have no run of their own.  The properties
about this code state what it does, not what the document promises:

- **A bad frame ends the host's session.**  protocol.md:73, 301-304 and 420
  have every receiver consume a frame of an unknown type or with a bad length,
  payload or text, answer `ERROR` and go on.  `receive_messages` fails on the
  first such frame, and the session with it (`bluetooth/mod.rs:228`,
  `main.rs:254`).  The device does go on, but only logs (`main.cpp:135`), also for
  another version of the frame, over which it should close the connection (line
  300); neither program ever sends the `ERROR`.  Run `wire` meets all of this:
  its damaged bytes reach every field.  `UnderstoodIsActedUpon` therefore takes no
  side on whether to go on: whoever goes on acts upon every frame it understands,
  whoever stops has acted upon a beginning of them without a gap (the host drops
  what came before the bad frame in the same read).
- **Nonces are not random and repeat.**  protocol.md:110 asks for a random
  nonce for each connection, and line 132 has the host check it.  `main.rs:226`
  takes the low 16 bits of the number of the session, which starts at 1 in every
  run of the program.  An answer to a session of an earlier run therefore passes
  for the answer to the session with its number; within one run it has to be
  65535 or 65536 sessions old (the number skips 0 when it wraps).  Such an answer
  can still be under way because the ring of the firmware outlives a link that
  goes down and up between two passes of `loop()`.  `AcceptedAnswerIsOurs` names
  both cases as its exceptions, and run `device_loop` reaches both.

Also seen:

- The device has none of the timers of protocol.md section 12 and never sends
  SYNC_REQ.
- The host may start a list between reading a request and answering it
  (section 8 forbids it; the request is then answered as stale, the list is
  refused, and the runs show that both recover).
- The backoff doubles up to 30 s and is reset after the first full sync, where
  section 12 has 10 s and the handshake.
- protocol.md:33 has a receiver ignore reserved fields; `message.rs:198`
  refuses a message in which they are not zero.
- The host drops what comes in one read behind HELLO_RESP.
- The device does not answer a HELLO_REQ without a version in common; protocol.md
  section 5.2 has it send an `ERROR` and end the connection.  The host always
  offers version 1, so this does not happen between these programs.
- `--run-spp` takes no part in the single instance, `--test-spp` always uses
  the same nonce.
- An instance that is refused has the mutex open for a moment, in which it can
  make a third one be refused although nobody is resident.
- An endpoint without a name makes every sync fail after its SYNC_BEGIN
  (`message.rs:322`).
- One paired device whose name cannot be read, or a second AudioSelector without
  a serial port, listed before the selector, keeps the host from finding it
  (`bluetooth/mod.rs:349`).
- The Bluetooth information screen is drawn once and does not follow the link.

## 6. Proofs

| Module | Theorem | Statement, for every value of the constants |
| --- | --- | --- |
| `DeviceStateProofs` | `TypeCorrect`, `ModesAreExclusive`, `DisplayIsWellFormed`, `RequestsNameWhatIsShown` | the invariants of run `device` |
| | `DisplayIsReplacedWhole`, `RefusalsAreHarmless`, `WaitIsForAList` | its action properties |
| | `TurningBackUndoes` | LEFT and RIGHT are inverse |
| | `ClassImplementsContract` | `DeviceState` implements `SelectionContract` |
| `AudioSessionProofs` | `RequestsAreAnsweredOnce` | a request is at one place at a time, a result on its way is the awaited one |
| | `ScreenSaysTheTruth` | what the screen and `ready` say of the session |
| | `OnlyTheMomentIsRefused` | a list is refused for the moment it comes at, never for what is in it |
| | `GenerationsNameSnapshots` | a generation names one list, as long as the session has generations left |
| `DeviceLoopProofs` | `SessionsAreToldApart` | the answer a session accepts is its own, or from an earlier run of the program, or as old as it takes the nonce to come round |
| | `SessionsAreShown` | the screen shows a session that is used |
| | `TransportIsAQueue` | the ring implements `SendQueue` |
| | `ErrorsLastTheirTime` | the time of an error, across the wrap |
| `WireProofs` | `ParserTypeCorrect`, `BufferSuffices` | the buffer and its room |
| | `LoopShrinksBuffer` | every step of the loop but the last makes the buffer shorter |
| | `EveryCutGivesTheSame` | the frames cut out of a stream do not depend on how it is read |
| | `NothingIsMadeUp` | a frame that is acted upon is what the other program writes for that message |
| | `UnderstoodFramesCount` | what is understood of a stream is acted upon, whatever lies in between, as long as the receiver goes on |
| | `MessagesComeBack` | every message is decoded as it was encoded, in both directions |
| | `MessagesArriveInOrder` | `Wire` implements the safety of `FrameChannel` |
| `KeepAliveProofs` | `PongsAnswerTheirPing`, `EveryRequestIsHandled` | the safety properties of run `keep_alive` |
| `SetDefaultProofs` | `AccurateResults` | the result of a set request |
| `JogSwitchProofs` | `OneEvent`, `SingleButtons` | the gestures |
| | `HoldTimeIsDecisive` | short or long, across the wrap of the clock |
| `HostProcessProofs` | `ResidentsAreAlone` | one resident instance |
| | `ChangesAreNotMissed` | no change of the audio devices is missed |
| | `WaitsAreRight` | the wait before the next attempt follows the failures |

They rest on the named assumptions about constants alone, which TLC evaluates
in the runs of the same modules; `GenerationsNameSnapshots` has a hypothesis
besides, explained below.  None of the properties is inductive; what
has to be added is the argument.

*The class.*  That a committed list is well-formed follows from what
`commitSync` validates *and* from what it does not: it checks counts and roles,
while distinct handles and the absence of a candidate in the received list come
from `addEndpoint` and `beginSync`.  `ReceivingFresh` states this of a list in
the making.  That a request names what is shown needs `ModesExclusive`: no
commit and no cycling can happen while a request is outstanding, because a sync
cannot begin then, and none was in progress when the request began.  `Inv` is
the conjunction of the five.  Each operation has a lemma that it keeps `Inv`;
`NextInv` puts them together.  The contract follows call by call from `Inv`,
most of it from the commit: the roles of a valid list are listed, so a choice
falls back to an endpoint that is on offer.

*Requests in the composition.*  While the link is up and the host has its answer
to HELLO, the request is at rest, in the channel to the host, read by the host,
or answered (`Resting`, `Sending`, `Serving`, `Answered` in
`AudioSessionProofs`), with every other place empty.  Before that, the only
frame under way is the HELLO or its answer (`Greeting`): this is what makes the
channels of a new session empty although the selector, which saw no end of the
old one after a reconnect by the user, may still have its handshake flag set.
The lists on the way do not matter, but have to be sequences without results
in them (`SyncListFrames`), for which captures have to be sequences
(`CaptureShape`) and endpoints finitely many.  A press leads from rest to the
channel because `ScreenInv` has it that a committed list implies a finished
handshake on this link.

*Lists on their way.*  What a reader of the frames has seen so far is a stage:
between two lists, or within one with so many endpoints of each flow and such
defaults read.  `StreamInv` says that the frames under way lead, each from one
stage to the next (`Step`), from the stage the firmware is at to the one the
host is at.  The stages know the whole list and its generation, so a frame
that arrives is the next of a list as the host captured it: of the counts it was
announced with, no handle twice, and defaults that are in it, because a
capture reads the lists before the defaults and looks these up in what it read
(`CaptureInv`).  The firmware is allowed to be within no list where the stage is
within one: it has refused the beginning then, and refuses the rest as out of
place.  That is `OnlyTheMomentIsRefused`, which needs nothing of the
generations (order `"any"`).  For `GenerationsNameSnapshots` the same invariant
is kept with order `"rising"`: every list under way has a higher generation than
those before it, and two stages of one generation have one list.  It is proved
as long as the last generation of a session is not reached.  Without this it is
false of an unbounded channel: 2^32 - 1 lists later the generation comes again,
and a list that is still under way has it too.

*The firmware's sessions.*  `RingInv` says that head, tail and count agree, only
the first frame is partly written, and every slot in use holds a frame; each
operation of the ring keeps it and is a step of the queue.  `DeviceInv` says what
these frames can be: answers to hellos of this and earlier sessions, of this and
earlier runs of the host's program, and one to the present hello only once the
handshake is shown.  The host takes no answer but one with its own nonce.  Two
sessions of one run have the same nonce only if they are at least
`NonceRange - 1` apart (`NoncesComeRound`): nonces are remainders of numbers that
follow each other, but for the 0 left out where the numbers wrap, and that costs
one, because `NonceRange` divides `NumberRange`, as 2^16 divides 2^32.  That the
screen shows the session does not need the nonce: while the firmware knows of the
connection an answer to a hello, of whichever session, is in the ring only if the
handshake is shown.

*Errors.*  While an error is on the main screen, the loops it has been there and
the unsigned difference to its end grow together; the difference passes
half the range exactly at the end.

*The parser.*  Between two pushes the buffer holds less than a frame of greatest
length, which with a read of at most one frame stays within the capacity: the
branch for an overflow is dead in both programs.

*The cut.*  `FramesOf` is a reader without a buffer, a recursive function on the
bytes that are left; `FramesStep` is its equation, and all that is used of it.  `CutInv`
says for every continuation x that the frames in what was read, followed by x,
are those taken so far and then those in the buffer followed by x.  The
continuation makes it inductive: a read is a continuation that was allowed for
already.  It remains that no way through the loop of `push` takes anything from
what `FramesOf` finds (`DiscardingKeeps`, `SkippingKeeps`, `TakingKeeps`) and that
what waits holds no frame (`WaitingHoldsNone`).

*The codecs.*  The four tables are one (`TablesAgree`): the offsets at which the
host and the firmware read are the sums of the widths the host writes
(`OneAfterTheOther`).  In every layout of it each byte belongs to exactly one
number (`WellLaid`), a number of one, two or four bytes is the sum of its bytes,
each times the power of the base (`ValueByWidth`), and dividing by the power
gives the byte back (`ByteOfValue`).  So writing what was read gives the bytes
that were there (`FramesComeBack`), which needs that nothing between or behind
the numbers is passed over: the decoders insist on the length of the text and
on reserved numbers being 0.  The converse, `MessagesComeBack`, needs in its
place that every range a message may use fits the bytes of its number
(`TableFits`; for the length of a text this is `CodecAssumption`), so that the
bytes add up to it again (`ValueOfBytes`), and that no two messages have the same
number (`TypesDiffer`).

*In order.*  As long as a stream is what a sender wrote, what is in the buffer
and what is still to be read are, together, bytes without a magic and behind
them the frames not yet taken (`OnTrack`).  The first magic is therefore where the next
frame starts, also when the noise or the read ends in half a magic
(`MagicBehindQuiet`), so `discard_before_magic` takes nothing of a frame
(`DiscardingQuiet`); the length in the header is the sender's, so it is never
refused, and what is taken is the frame and nothing else (`TakingFrame`).
Nothing is wrong with such a frame, so the host never ends the session over it.

*What is acted upon.*  `DeliveredInv` follows the two ways to deal with what
`push` returned; the one for the device needs that leaving out what is not
understood can be done read by read (`AcceptedJoins`).

*The keepalive.*  Of the PINGs of a wait, those not answered yet are with the
device, in order, and the answers to the others are on their way, in order
(`PongInv`); between two waits there is neither, so of the tokens only the last
two are ever about and three are enough to tell them apart.  A request under way counts at its last piece, so it is handled in the
read that takes this piece, whatever the host waits for.

*The switch.*  `chordLocked` and `longSent` together say how many events the
gesture has had.  `Unlocked` states it (a direction has had one, CENTER one if
it turned long, and the buttons touched so far are just the one that is held),
`AtRest` that nothing is left when all buttons are released, and `Locked` that a
lock adds none.  For the time a press was held, `HoldInv` says that a press
that is not long yet was not long at the last read that agreed with the one
before it; so it is younger than a turn of the clock, and the difference of two
wrapped times is its age.

*A set request at the host.*  `ReadsAreCurrent` says that what a round has read so
far is still the case if nobody disturbed it, `HandleNamesTarget` that only the
target has the requested handle while defaults are compared by handle.  The
second is where it matters that handles start at 1, because a default that is
not in the list has handle 0.

*One instance.*  Whoever is past `CreateMutexW` has the mutex open, so whoever
finds it absent is alone with it (`MutexInv`).

*The wait.*  `WaitInv` has it that the backoff is a function of the failures
(`DelayAfter`): the first delay times a power of two, or the limit.  The model
stops counting failures at `ManyFailures`; that the limit is reached by then is
an assumption on the constants, under which one more doubling changes nothing.

*No change missed.*  `ControlInv` is about all operations still to come: before
each that follows the devices there is a read, and before the read the callback
is registered; or the read has taken place, nothing that registers anew is left,
and every change since is announced, or being read.  It is kept because
operations are only taken from the front, and because the session loop and the
commands put no others there.  `ReadInv` adds that a read which something has
overtaken has left an announcement.

Only model-checked: all liveness, that is `EventuallyConverged`,
`RequestResolves`, `AwaitResolves`, `SilentDeviceIsDropped`, `LockEnds`,
`ParserTerminates`, `ShutdownIsObeyed` and `SelectorIsReached` (temporal reasoning
with ENABLED is beyond the prover), and of `ImplementsChannel` that what was sent
arrives in the end.

## 7. Not modelled, and the plan

Not modelled for good: drawing and marquee (no state of the system), logging,
the constants of `config.rs` beyond their use as parameters, and the COM and
WinRT objects behind a call, of which the models have only success, failure and
silent failure.  A SYNC_REQUEST, PING or ERROR from the device is decoded in
`MessageCodec` but handled nowhere in the models: the firmware has no code that
sends one.

What could follow:

1. A set request outstanding across a link that blinks between two polls:
   `DeviceLoop` with the mode of `SelectionContract`, whose refinement would
   carry the result over to the class.
2. `SetDefault` shown to implement the two steps the composition makes of a
   request (`ResolveHandle`, `Apply`).
3. An abstract specification of the whole, "a display that shows one snapshot
   of the host at a time and sends requests about it", and `AudioSession` shown
   to implement it.
