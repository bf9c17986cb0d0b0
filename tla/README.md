# Ventilation controller: verification project

TLA+ models of the ventilation system of this repository: firmware for a Pico W
that drives a fan over Modbus (`main.cpp`, `src/`), the MQTT client it is built
with (`paho.mqtt.embedded-c/`), a Flask server (`FlaskSrv/`) and a web page
(`website/`). TLC checks the models on small instances; TLAPS proves the
safety properties of thirteen of them for every value of their constants.

## 1. The system

```
 buttons, knob --interrupts--> [mailbox] --\
 pressure sensor --I2C--------------------> main loop --Modbus--> fan, sensors
 browser --HTTP--> Flask --MQTT--> broker --TCP--> IPStack -> MQTT client -> message_arrived()
                     ^                                                          |
                     '------------- status, QoS 0 <---- CommHandler::send() <---'
```

| Component | State it keeps | Operations | What makes it correct | Hard part |
|---|---|---|---|---|
| Modbus master (`modbus_controller`, `dma_channel`) | `busy`, `current_user`, DMA channels, alarm, UART FIFO | `start`, `end` (from the DMA interrupt and from an alarm), `isbusy` | one transfer at a time, an idle bus is quiet, a register only holds bytes of its own answers, every transfer ends | two interrupts against the thread; an alarm that is never cancelled |
| Fan (`fan.cpp`) | speed, pressure, error flag and its timer | `set_speed`, `adjust_speed` | corrections go the right way, the loop settles, the error flag tells the truth | integer arithmetic, limits, time |
| Main loop (`main.cpp`, `input.cpp`, `graphics.cpp`) | mode, set points, last values seen, the interrupt mailbox | keys, knob, fan update, status, settings | what the operator or the network asks is carried out; the status tells it | values read twice with interrupts and callbacks between |
| IPStack (`IPStack.cpp`) | ring buffer, `count`, `rd`, `wr`, lwIP control block | connect, disconnect, read, write, the lwIP callbacks | a bounded byte queue | wrap-around, overflow, freed control block |
| MQTT client and CommHandler | session, handlers, timers, packet buffer | connect, subscribe, publish, `yield` | packets read in step, what is acknowledged was handled, every call returns, a dead peer is noticed | deadlines between any two reads, failed reads, unexpected packets |
| Log in EEPROM (`logHandler.cpp`, `eeprom.c`) | status byte and entry per slot; next address in RAM | push, clear when full, find first free at boot | entries survive until the region is full; boot ends | power failure inside and between writes |
| Flask server | attributes of the ventilator, readings table, MQTT client queue | status messages, settings requests, start-up query, HTTP answers | last settings stand, readings are stored, answers are true | threads, reconnection, failing queries |
| Website | status section, tables | polls, settings | the page catches up, shows each reading once | overlapping requests |
| Set-up menu, stored credentials | input string, stage; four pages in EEPROM | text input, connect, store | what connected is what is stored, a key acts once, a character comes from its table | interrupt mailbox with two readers, crash between and within pages |
| MQTT packets (`MQTTPacket/src`) | the reader's place in a packet (`MQTTTransport`) | serialize, deserialize, `MQTTPacket_readnb()` | what is received is what was sent, or is refused | lengths at their boundaries, input in pieces, broken connections |
| Handler table (`MQTTClient.h`) | one slot per subscription | set, remove, deliver, match | each topic reaches exactly the handlers of its filters | wildcards, a full table, freed slots |
| Modbus registers (`modbus_register.cpp`) | two frames | request, `is_ok()`, `get16()`, `get32()` | a damaged or short answer is not read as a value | byte and word order, CRC |
| Display (`src/display`) | frame buffer, panel memory | line, rect, text, blit, scroll, show | the picture is what geometry says | eight rows to a byte, clipping, moving within one buffer |

`PROJECT.json` lists every component with its status, and under `hazards` each
place where the code is hard to test, with the property that watches it.

## 2. The modules

### ModbusCtrl, SerialBus
`ModbusCtrl` has the statements of `start()` as single steps (`pc`), because
both interrupts may come between any two of them; `end()` is one step for
each of its callers. Variables: `busy`, `user` (`current_user`), the receive
DMA channel `rx`, `alarm`, the characters on the line, and `rxbuf`/`rxLen` of
every register object. Slaves answer, answer with an exception, answer late or
not at all. `SerialBus` is the abstract promise (one owner at a time, each
transfer ends and changes only its own register); `ModbusCtrl` implements it
under `AnswersInTime /\ ~AlarmDuringStart` (property `ImplementsSerialBus`).
`AnswersInTime` says that a slave that answers has finished before the 500 ms
alarm; `AlarmDuringStart` says whether the alarm of the last, finished exchange
may hit the few instructions of the next `start()`. `quiet` counts the time since
`ctrl_time` in bits on the line: `get_char_delay` is 8*4 of them, a character of this
UART is `CHAR_BITS = 11` (a start bit, eight of data, two stop bits). `Pauses` are the
times at which the thread may look at the clock.

### Fan, FanLoop
`Fan` is the arithmetic of `fan.cpp` with its integer division and limits, and
the age of `error_time_ms`, capped at `AGE_BOUND`; its sensor may report any
integer. `FanLoop` EXTENDS it with what `main` does: `set_speed()` in manual
mode, `adjust_speed()` every `ADJUST_DELAY` in automatic mode, changes of mode
at any time, and a duct (not in the repository) whose pressure is proportional
to the speed with a measuring error of at most `Noise`. That the loop takes only
steps of `Fan` is a theorem (`LoopImplementsFan`).

### VentControl
The loop of `main.cpp` after set-up, cut wherever an interrupt or
`message_arrived()` can change what is read next: `mainMenu()` reading and
clearing the button mailbox, the rotary count, the comparison with
`old_set_point`, the fan request, the status. Interrupts are actions of the
operator; network messages come in only inside `yield()`. `StatusConsistent`
relates a published status to the request made to the fan; `ModeObeyed` and
`FreshCommandObeyed` say that the last input takes effect, `ModeKeyServed` that a
pending press does not stay stuck (not that none is lost: one overwritten in the
mailbox is).

### IPStack, ByteFifo
`IPStack` copies in and out in one or two parts round the ring as the code
does, drops what finds it full, and keeps the control block lwIP has freed
(`pcb = "gone"`) after an error callback. `ByteFifo` is a bounded queue of bytes
that drops the tail of a segment that does not fit; the refinement mapping reads `count` cells from `rd`.
`MCStores` checks this ring and the region of `EepromLog` side by side.

### MqttSession
The client on top of that stream: each read of `readPacket()`, each branch of
`cycle()`, `keepalive()`, the loops of `yield()` and `waitfor()`, with the
deadline free to pass at any point. A packet is head, length and body. The
byte stream is reliable as TCP's is. `late = "overdue"` is a deadline passed by
a millisecond or more, the case in which `left_ms()` is negative; a `read()` may
then be `patient` and wait for weeks, which `Overslept` names. A stream read from
the middle of a packet is read as packets with any effect a foreign packet can
have (`ReadAstray`). After a failure the loop of `main` goes on calling
`yield()`, as it does in the code. The rigid variable `world` says what a
behaviour may meet: the QoS of deliveries, packets cut after their head,
deadlines overrun; `MCMqttSession` names the sets of worlds the runs use.

### EepromLog
One region of slots; `pushLog()` and the reboot log are the same on regions
that do not overlap. Each EEPROM write is a step that a power failure can
forestall or tear; at boot the first slot whose status byte is zero is
searched. Two history variables: `kept`, the entries written whole since the
last clearing began, and `revived`, the slots in which a write torn after the
status byte made the entry cleared from it valid again. `LogOrder` leaves the
latter out, because in the code such an entry does reappear out of order.

### FlaskServer, Website
`FlaskServer` has `handle_message()` in three steps, the start-up thread and
one thread per HTTP request, with QoS 1 towards the broker and repeated sending
after a reconnection. `Website` EXTENDS it with one browser; calls of `fetch()`
are slots, so that answers come in any order; the history variable
`overlapped` tells refreshes of the history that overlapped. The module's `Next` is the
composed system; the controller is the external pair `ControllerTakes`,
`ControllerReports`.

### SetupMenu
`main.cpp` before the control loop. A character is the index of a table and one
within it. The cursor starts at `START` (10000) and is taken modulo the length of
the table with C's remainder (`Rem`): turned below zero it lies before the table, and what
is typed then is a stray, any byte. `textInput()` and the looks of `main` at
pin and flag are steps of their own, since the button interrupt
(`Press`) may come between any two of them. Its `Confirm` is
the field stages with `std::stoi()`, to which a stray may be a digit, a sign or the end
of the number (`Ports`). `AttemptFails` and `AttemptSucceeds` the
connection, `WritePage` one page of `storeCredentials()` with its CRC (`sealed`),
`Reset` a restart that may tear the page being written. The pages may hold settings
stored before this power-up (`OldSettings`), so every store is over older pages.
A port longer than `portStr` (`ShortPorts` are the others) overwrites what lies
behind it: its page may be garbled or without a fitting CRC (`Pages`). `verified`,
`presses` and `served` are history. `Fetched` is what `fetchCredentials()` would accept.

### MqttPacket, PacketLink
`MqttPacket` has the codecs of `MQTTPacket/src` as operators, byte by byte, with
the refusals for buffers that are too short. A deserializer that meets a packet
too short returns what `MQTTPacket_decodeBuf()` returned, which is 1, success, for a length of
one byte, with its outputs not written (`Unfilled`): no serializer produces such a
packet, so no property meets one. `PacketLink` puts a sender and
a receiver at the ends of a connection: `MQTTPacket_readnb()` with the state it keeps
between calls, `MQTTPacket_read()`, bytes in any pieces, and connections
that break at any byte. `Packets` are the packets that can be sent: fields no
longer than the wire has room for, at most `MaxCount` filters, no empty user name
or password. `ReceivedAsSent` says that each packet deserializes to the record
that was serialized, and that a break leaves nothing behind.

### MqttHandlers
`setMessageHandler()` as `subscribe()` and `unsubscribe()` call it, and
`deliverMessage()`; `isTopicMatched()` follows the place in the name over the
characters of the filter. `RightHandlers` compares it with the definition of matching by
levels, for filters in the format the comment at `MQTTClient.h:489` asks for and
names without wildcards or empty levels (`HandlersAssumption`).

### ModbusFrame
Words are sets of bits, so that the CRC is symmetric difference and the table of
`modbus_crc.h` is computed, not copied. A slave answers what it was asked, or with an
exception. One thing may fail in an exchange (`Fails`): the line flips a burst of bits within
sixteen, the alarm ends the answer after any number of characters (`ReceiveCut`), or
one character is lost and those behind it move up (`ReceiveLost`). The receive buffers keep
what earlier exchanges, or nobody (`Unset`), wrote behind `rx_len`.
`AcceptedIsTrue` is about what `is_ok()` and `get32()` make of that; nothing in `src/`
calls `is_ok()`: `main.cpp:253` and `:312` take `get_float()` and `fan.cpp:34` takes
`get16()` whatever came.

### FrameBuf, Canvas
`FrameBuf` is `framebuf.cpp` over the bytes of `mono_vlsb.cpp`, in unsigned 16
bit coordinates, and `show()`, which sends the buffer to the panel. `Canvas` is the picture
as a set of pixels, each operation defined by geometry; the mapping takes the
lit bits of the buffer. It is shown to be implemented (`ImplementsCanvas`), for
the drawings `CanDraw` allows, which are all the callers' and more: the arguments have
the types of `framebuf.h`; rectangles lie on the screen, since `fill_rect` does not
clip them; a text may begin left of the screen, as the input field's does when it is full
(`graphics.cpp:108`), but does not pass 2^16; sprites have two colors.

`MCInterfaces` checks these five together: they share nothing that is modelled,
and the variable `subject` says which of them a behaviour is about.

Definitions under "Mutated forms" or "Slips" are used to see that each
property can fail; no specification uses them. `MC*` modules give constants
that a `.cfg` cannot write.

## 3. What the runs check

Passing runs:

| Run | States | What it shows |
|---|---|---|
| `modbus_clean` | 11 669 | with punctual slaves and no alarm inside `start()`: an idle bus is stopped, buffers hold only own bytes, full length means a whole answer, the bus is quiet for 32 bit times before each request; SerialBus is implemented |
| `modbus_adverse` | 295 829 | late answers, stale alarms: a busy bus always has an alarm set; `start()` and the wait of `main` end (`CallsReturn`) |
| `fan_loop` | 306 658 | through any changes of mode no adjustment moves away from the target; left in automatic mode the fan reaches and holds a reachable target and reports an unreachable one |
| `vent_control` | 897 696 | statuses agree with the fan; the last mode, fresh command and key are obeyed |
| `mqtt_session` | 4 474 919 | packets are read in step, the session is closed only for a cause (QoS 2 apart) |
| `mqtt_live` | 377 535 | acknowledged settings were handled; operations end and a dead peer is noticed, unless a read oversleeps; settings arrive or the session is closed |
| `stores` | 145 877 | the ring buffer is a bounded queue; log entries written whole are readable, in order, until a clearing; boot ends |
| `web` | 450 914 | the page shows the last reading in the end; the history shows each reading once, newest first; settings confirmed before others were applied do not stand |
| `interfaces` | 2 402 314 | packets, topics, Modbus frames, pictures and set-up arrive as they were meant: see the five modules |

Three runs expect a violation; each checks a sentence of the repository's own
comments that the code does not keep, quoted in `PROJECT.json`:
`modbus_stale_alarm` (the bus reads idle while a transfer runs),
`modbus_silence` (the "4 characters" of `get_char_delay()` are less than three of
this UART's, and less than the three and a half that Modbus asks for; with the one
stop bit of the test box, `main.cpp:79`, they would be 3.2) and
`mqtt_partial` (a packet cut after its first byte leaves the session open and
out of step).

### Disagreements seen, without a run
The models contain these behaviours; the passing properties are stated so that
they hold in their presence, which says exactly how far the code goes.

- `fan.cpp:55`: `error_time_ms` is refreshed only by an adjustment inside the
  tolerance, so the first adjustment after 30 s of manual mode raises the flag
  that `website/script.js:110` reads as "Unable to reach target set point".
  `Settles` says that it comes down again.
- `main.cpp:265` and `:281`: a set point equal to the one last taken up is not a
  new command, in either mode (`MQTT-Topics-readme.md:5`: "send commands here").
  `FreshCommandObeyed` is about all others.
- `IPStack.cpp:136`: the handle of the control block survives the error
  callback, though the comment at `:128` says that the block is freed.
- `IPStack.cpp:205`: `left_ms()` is negative after a deadline and `read()` takes
  it for an unsigned timeout of 49 days (`MQTTClient.h:444`); with a peer that
  stays silent then, `yield()` does not return. `mqtt_live` has such reads;
  `OperationsEnd` and `DeadPeerNoticed` name them (`Overslept`) as the one thing that keeps an
  operation from ending.
- `commhandler.cpp:76` subscribes with QoS 2, which the client is built without
  (`MQTTClient.h:590`): the PUBREL that ends a delivery closes the session. The
  run `mqtt_session` has such a world; `ClosedForCause` is about the others and does
  not catch it.
- `main.cpp:318` ignores what `yield()` returns (`MQTTClient.h:225`): a closed
  client goes on reading and acknowledging. `AckedDelivered` is about open ones.
- `script.js:40`: two refreshes of the history under way at once show every row
  twice. `HistoryNewestFirst` is about all others.
- `app.py:169`: `set_mode()` answers OK although publishing failed
  (`mqttImports.py:84`). `LastSettingsStand` is about published settings.
- `dbImports.py:155`: the error flag is assigned to a local variable, so the
  server answers a constant.
- `dbImports.py:272`: the start-up thread may overwrite the mode of a newer
  status with that of the last row it read.

- `modbus_register.cpp:96`: `ReadRegister::is_ok()` asks for a CRC that fits and for a
  length other than five. It accepts an answer for two registers cut after six
  characters when the last two of them happen to be the CRC of the four before;
  `get32()` then adds a character of an earlier answer. Without its condition on
  `rx_len`, TLC refutes `AcceptedIsTrue` by such an answer in eight steps (the first value of
  `MCData`); `AcceptedIsTrue` is about answers that came at least to the end of the
  value, and about reads of which no character within was lost.
- `MQTTConnectClient.c:149`, `MQTTDeserializePublish.c:58`, `:99`,
  `MQTTSubscribeClient.c:116`, `MQTTUnsubscribeServer.c:58`: a packet too short is reported as a
  success (`Unfilled`). `MQTTSubscribeClient.c:123`: one granted QoS more than there is room for is
  written past the array and counted.
- `MQTTPacket.c:84`: `MQTTPacket_len()` counts one byte too many for lengths one
  below a boundary, so a packet that just fits is refused; no property says
  it must be accepted. The server's `connack` and `unsuback` guard two bytes and
  write four; `unsubscribe` ignores `maxcount`. `PacketLink` gives them room.
- `MQTTClient.h:509`: `a/#` does not match `a`, and names with empty levels match
  nothing they should; `RightHandlers` is about the others.
- `logHandler.cpp:316` counts a CRC for the SSID, which is then not appended, so
  `fetchCredentials()` (commented out in `main`) never accepts it; a text of sixty
  characters runs past the page. `LeavesStored` leaves both out, and ports of more than nine
  characters, which run past `portStr[10]` (`logHandler.cpp:328`).
- `graphics.cpp:84`: with the knob turned back more than 10000 times the remainder
  is negative and the character is read before its table. `WrittenInTable` says
  that it takes that many turns.
- `logHandler.cpp:356`: a reset between two page writes leaves fields of two settings, all
  accepted. `AcceptedWasVerified` says of each field that a connection was made
  with it, not of the four together.
- `graphics.cpp:97`: a text of sixty characters has no room for its terminator.
- `graphics.cpp:87`: `textInput()` clears the mailbox whatever the pin, so pins 7 and 12,
  which `main` looks for next, only act when pressed after that look; and since
  pin and flag are two reads, a key may act in place of another.
  `NoMoreThanPressed` says that none acts twice.
- `main.cpp:166`: `std::stoi()` throws on an empty port or one too large, which
  nobody catches (`pc = "halted"`). "Use previous" (`main.cpp:187`) connects with
  the defaults after a reset, since the fetch is commented out.
- `ssd1306.cpp:120`: the comment says a narrow display is centred; the last columns
  are used.

### Bounds
- Modbus: two registers of different answer length, so that an answer can be
  taken for the other's; two unanswered requests and four characters on the
  line, enough for a late answer to run into a later request's.
- Fan: targets and speeds in `MCFanLoop` over their whole range with both ends,
  ducts from too weak for any target to twice what the code assumes.
- VentControl: two commands, one press, one turn: every pair of competing inputs.
- IPStack: a ring of four with segments and reads of one to five, eleven bytes:
  every position of wrap-around and every fill level, twice over.
- MQTT: two settings on one identifier (reuse) for liveness; one setting where
  packets may be cut, deadlines overrun or QoS 2 is used, which any first
  packet can meet. A closed session's timers stand still (`Elapse`): its pings
  only come back.
- EEPROM: four slots, nine entries, four failures: two clearings with failures
  in and after them.
- Web: two calls side by side, so that any two can overtake each other; the
  rigid `world` is either two statuses and a failure, or two settings and two
  losses of the connection. `History` bounds the rows that can pile up.
- Packets: every kind of packet with each optional part present and absent, alone and
  before another, payloads on both sides of the length of 127 and of the end of
  the buffer (`BUFLEN` 132); pieces of one byte or many; one break at any byte.
- Handlers: two slots for eleven filters, so that the table is full and has
  holes; topics of one to three levels.
- Frames: one burst of at most sixteen bits, the width of the CRC, at any place, or one
  cut or lost character at any place; two values to write, of which one begins with the
  CRC of an answer's header (the six characters above); exchange after exchange,
  the line failing once (`MaxFaults`).
- Silence: looks at the clock 0, 32 and 44 bit times after the end of an exchange,
  the two delays in question and none.
- Display: two drawings, so that one covers another, on 12 by 16 pixels: two
  bytes high, on a panel of 14 columns; shapes over every edge.
- Set-up: `INPUT_SIZE` 2, `MAX_INT` 3, tables of two, two, two and one characters and a cursor
  that starts at 0, so that a text can be full, a port too large, long or
  garbled, and one turn leads before the table; seven presses, which reach the last
  field and a correction; `MaxHasty` of them before the last was served; one reset and
  two attempts. The pages are empty at first or hold older settings (`MCOldSettings`),
  so that the first store already mixes with them. The proofs of this
  module need none of these bounds.

`CHECK_DEADLOCK FALSE` is set where the behaviour ends by itself: the EEPROM
when power fails for the last time, the MQTT model when set-up has failed
(the program then starts with new objects), and `interfaces`, where all that was
to be sent, drawn or typed has been. In the web run and the rest deadlock is
checked.

### Fairness
- Modbus: the thread runs on, interrupts are delivered, an alarm fires; no
  slave is assumed to answer. SerialBus asks only that a transfer ends.
- VentControl: the main loop has no blocking call but `yield(100)` and
  the waits shown to end, so its steps are weakly fair; its delays pass.
- MQTT: the client, the deadlines and the three timers are weakly fair, and a
  living broker and network do their part. `Again` is strongly fair: the 100 ms
  of `yield()` are not over, call after call, before its first `cycle()`.
- EEPROM: the handler's steps after a power failure; failures are bounded.
- FanLoop: time passes and an adjustment that is due is made while the mode is
  automatic; nothing forces a change of mode or a manual setting.
- Web: server threads are weakly fair, the page's timer fires again and again
  (`RefreshStatus` is strongly fair: the slots are a bound of the model, and
  the browser would not keep a poll waiting for them); losses and failures are
  bounded in number.

## 4. What is proved

All by invariants, for every value of the constants under the named ASSUMEs.
TLC confirmed each strengthening it can evaluate on an instance before it was
proved: all but `LinkInv`, which ranges over all sequences of bytes.

- `ModbusCtrlProofs`: `TypeCorrect`, `BusyHasAlarmAlways` for every
  specification (the first says that the receive channel stays inside its buffer, also with
  late answers); under `Clean` (punctual slaves, no alarm inside `start()`),
  which the run `modbus_stale_alarm` shows to be needed, `OwnBytesAlways`,
  `IdleMeansStoppedAlways`, `FullLengthIsWholeAlways`, `QuietBeforeRequestAlways`
  (of the 32 bit times, for every set of pauses) and `TakesBusSteps`: `ModbusCtrl` starts as `SerialBus` does, and each step
  is a step of it or a stutter, which is `ImplementsSerialBus` but for the
  fairness of `SerialBus`. The strengthening (`SafeInv`) ties `busy`, the alarm
  and the DMA channel to the step of `start()`, and the characters on the line
  to the transfer under way: without it nothing excludes a late character of an
  earlier answer in the buffer, nor a second `end()` that rewrites the length
  of another register.
- `FanProofs`: `TypeCorrect`, and `MovesTowardTargetAlways` for every target and
  pressure; the division is bounded by a lemma, no invariant beyond the type is
  needed. `LoopImplementsFan`: `LoopSpec => Spec`, for every duct and noise, so
  that both hold of the fan as `main` drives it. `SteadyAlways` is what
  `Settles` rests on: over ducts up to twice as strong as `adjust_speed()`
  assumes (`PRESSURE_MAX`), no adjustment carries the pressure past the target
  by more than the noise, plus one pascal of rounding below it. The speed
  moves by at most 10/3 per pascal measured (`CorrectionBound`), and the
  pressure by at most 0.3 pascal for each step of speed.
- `EepromLogProofs`: `TypeCorrect`, `KeptReadableAlways`,
  `ClearOnlyWhenFullAlways`, `LogOrderAlways`. The invariant of the first three
  adds that every slot before the next one is in use and that an entry written
  whole lies in such a slot. The order needs where free slots lie: in front of
  the handler they come before any slot that an interrupted clearing left in
  use (`FreeRun`), so that a restart finds the place it was at, the one after
  it, or the first.
- `IPStackProofs`: `TypeCorrect`, `IndicesAgreeAlways` (the write index is
  `count` ahead of the read index), and `Refinement`: `StackSpec` implements
  `ByteFifo`. The steps of the refinement rest on lemmas about the cells ahead
  of an index modulo the ring's size.
- `VentControlProofs`: `TypeCorrect`, `StatusConsistentAlways` and
  `CommandReportedAlways`, for every set of commands and buttons and any number
  of each. `RoundInv` says how far the knob may have moved a value out of its
  range at which step, and that the mode read stands until the status; `FanInv`
  ties the request to the fan to both. The types alone are not inductive: a
  clamp lies two steps after the turn. `CommandReported` is the safety part of
  `ModeObeyed` and `FreshCommandObeyed`: a status published after a command,
  with no key or knob used since, tells of that command's mode and new value,
  wherever in the round the inputs before it fell. `ModeInv` says that main's
  copy of the mode agrees with the command except between `yield()` and the
  read, so that writing it back loses nothing; `ValueInv` that the knob was
  read before the value was taken up, so that nothing is added to it after.
- `MqttSessionProofs`: `TypeCorrect`, `InStepAlways`, `FailureMeansClosedAlways`,
  `ClosedForCauseAlways`, `AckedDeliveredAlways`, `NothingLostAlways`. `StreamInv`
  says that the unread stream is a run of packets, also when a read goes astray
  or the peer dies; `SyncInv` that until a read fails its first byte is the one
  waited for, in the middle of a packet too; `PlainInv` that without QoS 2 no
  packet of its exchange is on the way. Closing for a cause needs all three:
  only a read astray or a PUBREL would close otherwise. That what is
  acknowledged was handled needs `Exchanges`: of each identifier a setting is
  in the stream, being read, or acknowledged and not yet answered for, one of
  these at a time (`ExchangeInv`); the broker grants a subscription before it
  publishes to it (`GrantInv`, `SubackInv`), so the handler is in place when
  the first setting is read (`HandlerInv`). `NothingLost` is the safety part of
  `SettingsDelivered`: in an orderly world (nothing failed, session open) each
  setting sent is delivered, being read, or still in the stream.
- `WebsiteProofs`: `TypeCorrect`, `HistoryNewestFirstAlways` and
  `QuietSettingsStandAlways`, for any number of calls at a time and every world.
  Readings stay in the order of publication through client, handler and
  database (`ReadingsInOrder`), and unless refreshes overlapped one answer at
  most can still come, to an empty table (`OneAnswer`). The settings published
  last end every queue of settings that is not empty, however often the
  connection is lost (`EndsWith`), and none confirmed earlier is still on its
  way: so a system that has come to rest holds no settings that were confirmed
  before published ones were applied. That is `LastSettingsStand` without its
  "sooner or later".
- `InterfacesProofs`: of `MqttHandlers`, `OneSlotPerFilterAlways` and
  `RightHandlersAlways`, for every size of the table, any subscriptions, and filters
  and topics of any length. After some characters of both, the loop is at the
  same place of a level that has been the same so far, at the end of one that `+`
  stands for, or at the end of all, after `#`, and the levels before match
  (`Halfway`, kept by `TopicStep`); if the levels match it does not stop before the
  end of the filter (`TopicGoesOn`). Of `SetupMenu`,
  `NoMoreThanPressedAlways` (a press that is flagged or about to act is still
  owed), `AcceptedWasVerifiedAlways` and `LeavesStoredAlways` (which pages hold
  the settings after which step of storing), `WrittenInTableAlways`, for tables of any length (the
  position is within the table, or before it, while a key is about to act; a cursor
  below 0 was turned there from `START`, one step a turn: `CursorInv`).
  Of `ModbusFrame`, `AcceptedIsTrueAlways` and `OnlyRequestedWrittenAlways`. The
  CRC of `modbus_crc.h` is linear, and eight steps of a division by its
  polynomial for each byte: so a damaged frame has the CRC of the undamaged one plus
  that of the burst alone (`crc` of the difference), and a burst within sixteen
  bits leaves a remainder (`DamageSeen`). A frame is then accepted only undamaged,
  and `FrameInvariant` says what each frame of an exchange holds: what was received is
  the beginning of an answer that says what the slave holds (`AnswerBegun`), wherever
  it was cut, and `rx_len` tells how much of the buffer that is.
  Of `PacketLink`, `PacketsTravel` and `ReceivedAsSentAlways`. The first is about
  the codecs: what a serializer does not refuse is one frame, whose length decodes
  to the length of its body, and deserializes to the packet. The second says of a
  reader that may stop anywhere where it stands (`LinkInv`): before a frame; within a
  length, with `len`, `rem` and `multiplier` the digits already taken (`LengthAhead`);
  or within a body, with the part kept and the part still to come together the
  frame (`BodyAhead`); with the frames not yet read behind it (`Behind`).
  Of `FrameBuf`, `CanvasTypes` and `ImplementsCanvasAlways`, for displays of every
  size that is whole bytes high, every font and all drawings. Pixels and bits of
  the buffer correspond one to one (`CellIs`, `CellsDiffer`), so writing the bits of a
  set of pixels paints that set and nothing else (`SetPaints`); each operation then
  needs only its set of pixels. For a line that is `WalkIs`: after i points the
  minor axis has moved i * dy / dx, rounded to the nearest, by an error term that stays within
  its bounds (`WalkStep`). A letter left of the screen has coordinates that wrap
  to columns beyond it (`WrapsLeft`). `scroll` reads each pixel before it is
  overwritten, because it scans against the step (`ScrollPaints`).
  Recursive functions of the models are shown to exist, and to be what their
  equations say, from a fold over `0..n` (`RecursionExists`), and what they compute
  by induction over a set of numbers (`SetInduction`, from the well-foundedness of
  `<`); neither needs an operator as a parameter.

Only model-checked: everything under fairness (liveness, `CallsReturn`,
`Settles`, `PageCatchesUp`, `OperationsEnd` and the like), which the prover
does not reach; and of `ImplementsSerialBus` the fairness conjunct, which is of
that kind.

## 5. What is not modelled, and why

- JSON and how packets are worded for a log (`MQTTFormat.c`): wording. The models keep
  whether a message is accepted.
- UART, I2C, lwIP, broker, browser, database, duct: external; modelled as far
  as the code's use of them shows.
- Debouncing by time, where the menus place their texts, pressure scaling: no
  property tells them apart.
- Server endpoints `/since` and the log tab repeat the history; `push_log` is
  unreachable, its topic is not subscribed to.
- `reconnect()`, `unsubscribe()` of CommHandler and publishing with QoS 1 or 2 are never
  called.
- The C client (`MQTTClient-C`), the samples and tests of the vendored library:
  the firmware does not build them.

## 6. What could follow

1. `VentSystem`: VentControl with Fan instead of its request record; the
   composition Website, FlaskServer, MqttSession, VentControl as an abstract
   "the last setting applied reaches the fan".
2. Proofs: the safety part of `PageCatchesUp`.
