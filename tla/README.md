# gate433: a verification project for the gate controller

This directory holds TLA+ models of the gate433 firmware, the TLC runs that
check them on small instances, and proofs, checked by TLAPS, of what its parts
promise for every instance. The models follow the STM32 firmware
(`src/gate433-stm32/application`) and its driver library (`src/stm32goodies`).
The Arduino version, which `src/Readme.md` calls obsolete, is not modelled.

| files | contents |
|---|---|
| `GateControl`, `GateSite` | the state machine of the main loop, alone and at its site |
| `PulsingOutput`, `InductiveLoop` | the two drivers that run in SysTick |
| `TxFifo`, `UsartTx`, `Usart` | serial port: its promise, its transmit side, the whole of it |
| `RecordStore`, `Storage`, `Records` | vehicle records: the promise, the drivers down to the chip, the commands above |
| `Clock` | summer time, setting, exceptional days |
| `Radio` | the decoder of the remotes' codes |
| `MCGateControl`, `MCGateSite`, `MCClock` | what a `.cfg` cannot say |
| `GateControlProofs`, `GateSiteProofs`, `PulsingOutputProofs`, `InductiveLoopProofs`, `UsartProofs`, `ClockProofs`, `RadioProofs` | theorems about the module of that name |
| `RecordsProofs` | theorems about `Storage` and `Records` |
| `PROJECT.json` | runs, mutants, hazards, findings, theorems, and the source lines of every definition |

Definitions called "Mutant" in a comment are deliberately wrong variants of the
definition after them, used to see that a property notices the mistake; no
specification uses them.

## The system

One microcontroller controls one gate. Two inductive loops lie on its inner and
outer side. A vehicle that stops on a loop sends the code of its 433 MHz remote;
the controller looks the code up, opens the gate or refuses, and remembers on
which side of the gate every vehicle is.

There is one thread, `MainLoop::Loop`, and interrupts: SysTick (debounces the
loops, pulses the opener output, animates the lights), the radio capture timer
(assembles codes), two UARTs (command lines), I2C, and the rotary encoder.
SysTick, UART and encoder share one priority; I2C and radio interrupt them.

| component | state | operations | interacts with |
|---|---|---|---|
| main loop, `mainloop.cpp` | `m_state`, its start tick, `m_cycleInner`, `m_code`, `m_countedCode`, `m_codeReceived`, sampled loop status | `Loop` (one pass), `ChangeState`, `Authorize`, `CodeReceived`, `LineReceived`, `CheckDateTime`, `UpdateDow` | everything below |
| opener output, `pulsingoutput.cpp` | active flag, lengths, time of the last change, the pin | `Set`, `Reset` (main loop), `Tick` (SysTick) | `ChangeState` |
| loops, `inductiveloop.cpp` | debounced levels, status, conflict | `Tick` (SysTick), sampled under a lock | main loop |
| serial ports, `Usart.cpp` + HAL | transmit ring, HAL handle, line buffer | `Send`, `Receive` (main loop), callbacks (UART interrupt) | command line, log dump |
| vehicle records, `i2cdb.cpp`, `database.cpp` | 1024 records of 8 bytes | `getParams`, `setParams`, `setStatus`, `setInfo` | main loop, command line |
| I2C master and EEPROM, `I2cMaster.cpp`, `I2cEeprom.cpp` | expected callback, last error, poll flag | read and write memory, page by page | records, configuration, clock, LCD |
| configuration, `config.cpp` | five values | `Load`, `Save`, `Reset`, `Set` | EEPROM, main loop |
| command line, `commandprocessor.cpp` | none | some twenty commands | records, clock, log, configuration |
| clock, `Ds3231.cpp` | registers, summer time flag | `Get`, `Set`, `CheckDst` | main loop |
| radio decoder, `rfdecoder.cpp` | bit count, bits, pulse times | `CaptureCallback`, `ProcessPeriod` | `CodeReceived` |
| log and files, `sdlogwriter.cpp`, `thindb.cpp` | queue, file positions | `log`, `LogFromQueue`, `dump`, `truncate` | main loop, SD card |
| lights, LCD, encoder | blink phases, text, counter | `Tick`, `SetMode`, `Update...` | SysTick, main loop |

What is hard, and what must hold in spite of it (`hazards` in `PROJECT.json`
gives the lines):

- *Main loop.* Codes arrive between any two steps; a pass that falls in the same
  millisecond as the one before acts on the same "loops changed" flag again;
  PASSING inherits an old start tick; the EEPROM may fail. It must answer only
  the vehicle that waits, on two receptions, keep the gate open only while
  somebody may pass, and record passes of exactly the vehicles that passed.
- *Opener output.* The main loop writes its fields while SysTick reads them, with
  a `now` from the past. Pulses must keep their shape, and end after `Reset`.
- *Loops.* The status decides the direction, so it must name an occupied loop
  whatever the order of the inputs, and not turn round under a long vehicle.
- *Serial port.* Both ends of the transmit ring move concurrently: nothing may be
  lost, doubled or reordered, and a blocked sender must get on. The receiver is
  rearmed by the main loop and from inside the HAL's callback; it must not fall
  deaf, nor write a line that is being processed.
- *Records, I2C, EEPROM.* Callbacks race the code that waits for them; an error,
  once seen, refuses every later transfer on the bus; a configuration is saved
  without waiting, and the next call finds the chip busy; the power is cut during a
  write cycle. What a call answers must be true, and damage must stay in the record
  being written. (A record has 8 bytes at a multiple of 8 in pages of 128, so no
  record is ever split between pages.)
- *Commands.* An import goes over many records and may fail half way; what it
  prints must say how far it came, and it must not set back the positions of records
  the file does not change.
- *Clock.* Summer time is computed only now and then and must be right at every
  reading; what is set must be what is shown; exceptional days replace the weekday.
- *Radio.* The capture interrupt overtakes the overflow interrupt whose count it
  reads; noise in a transmission. A reported code must be the one sent, and a clean
  one must be reported.

## The models

### GateControl: the state machine of the main loop

The variables are the members of `MainLoop` (`state`, `cycleInner`, `code`,
`codeReceived`, `countedCode`), the two variables SysTick writes (`loopStatus`,
`loopConflict`), their sampled copies (`ilStatus`, `ilConflict`, `ilChanged`),
the opener output, the records, and three histories used only by properties
(`heard`, `grant`, `lastPass`).

A pass of `Loop` is two steps: a sampling step (`NewTick`, or `SameTick` when
the millisecond has not changed and `ilChanged` keeps its value) and one step of
the `switch` (one action per branch). Interrupts (`CodeReceived`, `LoopTick`)
come between. They could also come inside the switch, where they change nothing
it reads: `m_code` is frozen while `m_codeReceived` is set, and the loop status
is used through its sampled copy. Commands that change records (`SetRecord`,
`ClearStatus`) run at the top of a pass.

Time is the age of the current state in ticks, saturated at `MaxAge`, just above
the longest timeout. `MaxLag` is the most ticks one pass may take; tests such as
`ellapsed > passTimeout * 1000` are tests of `age`.

A record is `registered` (a non-zero entry window), `exempt` (flag 0x80) and a
position. Whether the clock is inside its window is chosen at each decision; so
is whether the EEPROM answers, which decides between `Authorize` and the ACCEPT
that `Authorize` returns on a read error. A code is an id of 10 bits and a button
of 2: `Authorize` looks up the id, `setStatus` addresses with both.

### GateSite: the state machine at its site

`GateSite` extends `GateControl` with what the controller cannot see: where the
vehicle at the gate stands and on which side each vehicle really is. The loops
follow the vehicle and codes come from its driver. So the remembered positions
can be compared with the truth, which is what anti-passback is about. The
assumptions are the ones named in its header: one vehicle at a time, a working
EEPROM, drivers who clear the loops in time. `MayTurnBack` lets a driver leave
the way he came after the gate opened; both layouts of the loops (a vehicle on
both at once, or on none in the middle) are included.

### PulsingOutput, InductiveLoop

`PulsingOutput` cuts `Set` and `Reset` at every write, because SysTick may run
between; `OffWhenReset` depends on it. Its `width` history measures real pulse
lengths, `raced` marks the one interleaving in which `Reset` loses.
`InductiveLoop` is `Tick` with `Debounce`; `settled` says what debouncing should
have concluded from the raw inputs. `GateControl!LoopTick` is its abstraction: any
change of the debounced loops, with the same rule for the status.

### TxFifo, UsartTx, Usart

`TxFifo` is what a blocking port promises: bytes leave in order, once each, at
most the capacity waiting, until it is `broken`. `UsartTx` is the code: `Send` and
`FillTxBuffer` cut at the locked sections, the copy and the start of a transmission; the
UART interrupt with the HAL's byte counter; the handle lock that `HAL_UART_Receive_IT`
takes; and `cr1`, the register with both directions' interrupt enables. The main loop
changes it by plain read-modify-writes with the interrupts on, so each change is two
steps, a load (`copied`) and a store, and any interrupt may come between. Bytes are
numbered in the order they are sent. The refinement is the identity on `accepted` and
`wire`, with `broken <- overwritten`: the ring is what `TxFifo` does not have.

`Usart` extends it with reception: the data register with its overrun, the
interrupt that stores bytes and ends lines (`LineReceived` inside it), errors
(`errorCode`, `eie`), and the part of `MainLoop::Loop` that takes lines and errors and
receives again. `at` is where the main loop is in this: an abort and a new
`HAL_UART_Receive_IT` are ten steps, cut wherever an interrupt finds something different.
The same lock is taken by both directions. A byte is a line end or not; `rxCount` is
the HAL's 16 bit counter, which really wraps when a reception is started inside the
callback (`CountModulus`). Five histories record the interleavings in which the model
found the code to go wrong:

- `missed`: a chunk is not started because the lock is held;
- `overwritten`: a store of the main loop to CR1 (`HAL_UART_Transmit_IT`,
  `HAL_UART_Receive_IT`, the abort) undoes what the transmit interrupt changed since the
  load. From then on the chunk's counts mean nothing: the model goes up to that store and
  no further;
- `dropped`: a line is forgotten after an error;
- `rearmed`: a reception is started inside the callback, whose count is then cleared;
- `hung`: the interrupt handler cannot remove its own cause and is entered for ever.

### RecordStore, Storage, Records

`RecordStore` is what the main loop expects of `i2cdb`: one request at a time, TRUE
only for what is really read or stored, no other record touched, and a power cut that
damages at most the record written last (`db` is what a read finds, `safe` what
survives a cut). `Storage` is the code from `getParams`, `setParams` and `setStatus`
through `Eeprom` to `I2cMaster`: a call polls if a write went before, starts a
transfer, sets the expected callback *after* that, and spins until the interrupt
clears it. The interrupt completes or fails the transfer at any time, before the
callback is expected too (`early`); the chip latches what it was sent and then
programs it, deaf in the meantime; the power may be cut. `Config::Save` starts its
transfer and returns: the next call meets it on the bus. Refinement: `db` is the memory
with the write cycle under way finished, `safe` the memory without it.

`Records` puts the users on top: single calls (`Authorize`, the recorded pass, `sdb`,
`gdb`, saving the configuration) and the loops of `idb` and `cs`, with the ranges they
compute from any entered numbers, `DB.TXT` as any table of records, and file errors.

### Clock

`DS3231_DST::Get` and `Set`, the calendar under them, `CheckDateTime` and
`UpdateDow`. The chip holds standard time and goes on hour by hour; the clock is read,
fails to be read, or is set at any moment. Minutes are left out: every decision of the
code is about whole hours. `suspect` records that a `Set` failed after it had already
changed the summer time flag; `entered` what was set last; `unread` bounds how long
nobody looks.

### Radio

A remote sends frames (gap, sync, bits as pairs of halves); the decoder sees captures of a
16 bit timer and overflows. A half may be shorter or longer than it should be by `Jitter`.
A long half may so exceed twice the sync pulse, where `ProcessPeriod` drops the code
(`rfdecoder.cpp:78`, `:83`: the upper limit has no tolerance); `clean` excludes such a
frame, and every other disturbance.

Noise (`Spoilt`) has any length of `Noise`, ends any level, replaces or adds an edge, and
comes in the gap too. Noise that comes too fast loses edges, or leaves both captures
pending: `HAL_TIM_IRQHandler` then serves channel 1 first, and a rise is measured from
the fall behind it (`OutOfOrder`; the input filter is 0, `tim.c:103`). `disguised` records
that since the gap some noise was measured like a half that could belong to a frame. A
frame has no checksum, so the decoder cannot tell such noise from a bit.

A capture up to `Latency` after an overflow may be handled first, or in the middle of
the overflow's handler. The overflow then still waits, or counts for the next half, once
or twice (the capture's handler may serve the flag that the interrupted one has
tested), or is lost in `++m_overflow` (`CountedLate`). `m_overflow` stops at
`MaxOverflow`, 0xff in the code.

## What the runs show

| run | instance | shows |
|---|---|---|
| `gate_control` | 2 vehicles, 1 button, timeouts 1 and 2 ticks | the safety properties of `GateControl` |
| `gate_liveness` | 1 vehicle, every kind of record, relaxed times | `GateCloses`, `IdleWhenEmpty` |
| `gate_any_button` | 2 buttons | a violation: finding 1 |
| `gate_site` | 2 vehicles, no turning back | positions are true, drivers are answered |
| `gate_turn_back` | 1 vehicle, turning back | a violation: finding 2 |
| `pulsing_output` | pulse 3, cycle 8, lag 2 | shape and end of pulses |
| `inductive_loop` | debounce 5 | debouncing and status |
| `usart` | ring of 2, messages up to 3, 4 bytes; lines of 2 | both directions: FIFO refinement, ownership, progress, the receiver listens, the handler returns |
| `records` | 2 records, 2 infos, 2 positions | `RecordStore` implemented, answers and counts true, commands end |
| `clock` | 2 years, hours 0 to 3 and 23 | summer time right at every reading, what is set is shown |
| `exceptional_day` | the same | a violation: finding 3 |
| `radio` | 3 bits, timer of 32, 2 sync lengths, jitter 1, 5 lengths of noise | only sent codes reported, clean frames reported |

Bounds. The properties of the gate speak of one vehicle, or of one and "another":
two ids give the other. No definition tells ids apart, so `gate_control` uses
them as a symmetry set. Timeouts of 1 and 2 ticks with passes of one tick make
every order of "before, at, after the timeout" happen, and differ so that mixing
them up shows. A pulse of 3 of 8 ticks leaves a pause longer than the pulse, as in
the firmware (500 of 1500 ms), and `MaxLag` is below the pulse length: a pass of the
main loop that took longer than 500 ms would shorten the following pause too. Debounce
5 leaves room for glitches of every length up to it.

A ring of 2 has both a chunk that ends at the end of the buffer and one that stops short
of it; a message of 3 is longer than the ring, so a single `Send` must block and resume;
4 bytes go round the ring twice. A line buffer of 2 with a counter modulo 5 lets a line
end by its length, by a line end, and run past the buffer. Two records are one that a command works on and one that it must leave alone,
and every range of two; two infos are enough for a torn one, which a third value stands
for. Two years (one a leap year) put the changes on different days of the month; the
hours are those at which the code decides something, and the day's ends; up to four of
the five pass unread, so any boundary may be missed by a reading. With a fifth, a
whole day, `RightHour` fails: at level Hour the code compares hours, and the day of the
change is over when the same hour comes again. Three bits with a timer of 32
(all lengths are scaled together) let overflows fall into every half, and counting
overflows up to 3 tells apart 0, 1 and more, which is all the code asks; gaps are longer
than one period, as in reality. Jitter 1 is a quarter of the shorter sync pulse, and makes
long halves of one tick too many. Of the noise, 1 is too short for any half, 5 is as long as
a sound one, 31 and 70 are overlong, and 36 is more than a period and so overlong too,
unless an overflow is handled late: then it is measured as 4 and fits.
The proofs need none of these bounds.

Fairness. `FairSpec` assumes that the main loop takes its steps (nothing else is
scheduled there) and, strongly, that it samples: SysTick keeps moving the clock,
so a pass with a new tick comes again and again even if passes in the same tick
come between. `GateCloses` has a premise, that samples without a loop change keep
coming, because the timeout is only looked at in such passes. `GateSite` adds the
driver: he keeps pressing and does not stop in the gate. `PulsingOutput` assumes
SysTick. `UsartSpec` assumes that the main loop's sends are reached, that a receive or error
interrupt that stays pending is served, and, strongly, the same of the transmit
interrupt, which the handler looks at last: a byte takes longer to arrive than the handler
to run, so between two bytes the transmitter has its turn. It assumes no byte from outside.
`RecordsSpec` assumes that the main loop runs on and that a transfer
comes to an end, well or with an error (the HAL's interrupt), but not that the
chip's write cycle does: polling gives up after 100 ms. Nothing is assumed of the
radio, the commands or the loops of `GateControl`.

Deadlock is checked everywhere but in `clock` and `exceptional_day`, whose years are bounded.

## Findings

1. `AntiPassbackAnyButton` (run `gate_any_button`). The decision reads record
   `id & 0x3ff`; the pass is stored at the whole 12-bit code. With any button but
   the one numbered 0 the position of the vehicle never changes, and anti-passback
   (`src/Readme.md:12`) does not work for it.
2. `PositionIsTrue` (run `gate_turn_back`). An accepted vehicle that backs off
   the loop it came to is recorded as having passed. It is then remembered on the wrong
   side and refused the next time: one that stayed outside is remembered inside, and one
   that stayed inside outside. There are mirror behaviours of the same length; the
   run shows either.
3. `ExceptionalDay` (run `exceptional_day`). `UpdateDow` stores the result of the
   comparison `!= 0xff` (`mainloop.cpp:625`) instead of the weekday the file gives, and
   `CheckDateTime` takes the chip's weekday again a second later. `src/Readme.md:17`
   promises "Exceptional days (e.g. National holydays) database on SD card".

Further hazards are written into properties as their exception rather than
reported as disagreements, because no document speaks of them:

- `raced` (`OffWhenReset`): a tick between the two writes of `PulsingOutput::Reset`
  leaves the opener output on.
- `missed` (`Drains`, `SenderGetsOn`): a transmit-complete interrupt inside
  `HAL_UART_Receive_IT` cannot start the next chunk, and then nobody does; the next
  `Send` that fills the ring waits for ever.
- `overwritten` (`TransmitterOwnsItsChunk`, `ImplementsFifo`, `Drains`): the transmit interrupt
  changes CR1 (`stm32f1xx_hal_uart.c:2367`, `:2370`, `:2389`) between the load and the store
  of the main loop (`:838`, `:880`, `:886`, `:1270`), and the store undoes it. With TXEIE
  restored, the byte counter runs below zero and up to 65536 bytes behind the chunk are
  sent; with it cleared, the chunk is never finished.
- `hung` (`HandlerReturns`): the handler returns early and leaves its cause, so nothing else
  ever runs. It happens where an error is flagged, and a transmit interrupt comes, after
  the parity interrupt is enabled (`:880`) and before the error interrupt is (`:883`), and
  where a byte waits, nobody receives, and RXNEIE is on because a stale store put it back.
- `dropped` (`ReceiverListens`): a line that ends between the restart of the receiver
  and the clearing of `m_serialLineReceived` is forgotten, and the port stays deaf.
- `rearmed` (`InputBufferKept`): a reception started inside the callback runs without
  a count and may write behind the line buffer.
- `disguised` (`OnlySentCodes`): noise that is measured like a half changes a code
  unnoticed, as a frame carries no checksum.
- A long half one tick above twice the sync pulse loses its frame (`CleanFramesReported`,
  through `clean`), though a short one may be a quarter too long.
- `early` (`CommandsAnswer`): an I2C interrupt before `m_expectedCallback` is set
  leaves `WaitCallback` spinning. What is answered stays true even then.
- `suspect` (`RightHour`): a `Set` that is refused or fails has already changed the
  summer time shown for the old time.

The model `Storage` also has a consequence that no property forbids: after one
error interrupt, every transfer is refused until the next reset, because only an
expected callback clears `m_callbackError` and none comes any more.

## What is proved

Proofs hold for every value of the constants that satisfies the named assumptions of
the module they are about.

*`GateControlProofs`*: for every set of ids and buttons, all timeouts, both settings of
the two "relaxed" options and any stored records, each safety property of
`gate_control` is a theorem of `Spec`. Assumptions: `MainButton` is a button, the
timeouts are natural numbers and a pass takes at least one tick, the options are
Booleans, stored records are records, and `None` is no code, grant or pass. None of
the properties is inductive alone. The invariant `IInv` joins:

- `TypeInv`: types, and that a received flag means there is a code;
- `Placed`: what each state says of the sampled loops and the side of the cycle,
  in the weaker form that survives the step between sampling and the switch;
- `Granted`: in the opening states, `grant` is the decision that led there;
- `CountedOnceHeard`: a code that waits or is counted was heard since the wait
  began, and if both, twice; this is why clearing `m_codeReceived` and
  `m_countedCode` on entry to CODEWAIT matters;
- `GateOpenOnlyToPass`;
- `PassRemembered`: the record of a vehicle whose last pass was made with the main
  button, and not touched since by a command or a failed write, holds that
  pass's destination; with `Verdict` it gives `AntiPassback`.

Each conjunct has a lemma of its own with one step per action; `Inductive` joins
them, and every theorem follows from it. `NoPassbackOneButton` proves that finding 1
is all that separates the code from the promise: with only the main button,
`AntiPassbackAnyButton` holds. `OnlyThePassIsRecorded` is an action property and
follows from `Granted` and `Placed`.

*`GateSiteProofs`*: every behaviour of the site is one of the controller
(`SiteIsController`), so the theorems above hold there; whatever is answered is
answered to the driver at the gate (`DriverAnswered`); and, for drivers who drive on, the
remembered positions are the real ones (`PositionsTrue`) and never speak against an
entitled vehicle (`EntitledAccepted`). The last two have the hypothesis
`MayTurnBack = FALSE`: finding 2 is what happens without it. `None` is no vehicle
(`DriverAssumption`); the rest that is assumed of vehicles is in the actions of
`GateSite`. `GateInv` adds to `IInv` what the controller knows of a vehicle that has not
driven on (`AtFirst`: its own loop and its own code at most) and that HURRY and PASSING
never time out under one (`InTime`). `PassInv` follows the pass itself: `Underway` (the gate
stays open for the vehicle between the loops), `Gone` (a vehicle that left before its pass
is recorded went the way it was granted), `Alone` (nobody is heard when nobody waits) and
`Remembered`, which says where the controller is right to believe a vehicle at each
moment: a pass is recorded when the first loop is left, before the vehicle is through.

*`RecordsProofs`*, first `Storage`: for any records and any sequence of errors and power cuts, the
driver never addresses a chip in its write cycle (`NeverBusy`) and implements
`RecordStore` (`Implements`). Assumptions (`StorageAssumption`): there is a record, the
configuration is none, and the values that stand for "none" and "torn" are not used as
data. The invariant says what each variable of the driver knows of the bus and the
chip: `Expected` (a transfer on the bus is expected, but between its start and the line that
says so, and a call that waits waits for its own), `KnownBusy` (a chip that may be busy
is one the driver will poll), `Unanswered` (while a call is on its way no answer is there),
`Done` (a call whose callback came without error has done its work: the buffer is the
record, or the write is in the chip). With them, each step of the driver is a step of
`RecordStore` or leaves its state unchanged: `Complete` and `Error` are `Put`, `Programmed` is
`Settle`, `Synced` is the answer.

Then `Records`: any number of records, any file. The steps of `Records` are steps of
`Storage`, so both theorems carry over (`CommandsKeepStore`); and what `idb` and `cs`
answer is true (`ReportsTrue`). The loop invariant is `Progress` (records before the
current one are what the command is to make of them, those behind it are untouched, the
current one is between the two), `Asked` (the call under way is the loop's own) and
`Counted` (the count is the number of records that differed). Beyond `StorageAssumption`
it needs that record numbers are `0..MaxCode` (`MaxCodeAssumption`).

*`UsartProofs`*: for rings, messages and runs of any size and any interrupt between the
halves of a change of CR1, the transmit side implements `TxFifo` inside the whole port
(`RingIsFifo`), and main loop and interrupt never use the same part of the ring
(`ChunkOwned`), both up to the first store that undoes a change of the interrupt
(`overwritten`). The invariant `IInv` is `Waiting` (the ring holds the bytes accepted last, in
order), `Chunk` (what is on its way is the ring's first contiguous part, and the wire has
what the ring has given up), `Filling` (what the main loop computed from old copies stays
true, because the interrupt only makes room and leaves `txStart + txCount` where it is)
and, while nothing was overwritten, `Enabled`: CR1 enables exactly what the chunk under
way needs. `TransmitByte` relies on that, as it would else run past its chunk.

On the receive side, for lines of any length, the receiver is never forgotten but for
`dropped` (`PortListens`), a line is neither overwritten while it is processed nor overrun
but for `rearmed` (`LineKept`), and the handler removes its cause but where nobody
receives and at the one place of `Receive` named above (`PortReturns`). Their invariant
`RInv` has `Ownership` (who may receive, at each place of the main loop), `Listening`
(something will end the wait for a line), `RxEnabled` (the receiver's enables, in CR1 and in
the main loop's copy, fit its state) and `Counted` (unless a reception was started inside
the callback, pointer and counter add up to the buffer).

*`InductiveLoopProofs`*: for every debounce time, the debounced level is the last one
held for longer (`Debouncing`), and the status follows it (`StatusCorrect`),
of the right type (`LoopTypes`). The invariant `Measures` ties `m_lastEquals` to the time
an input has really been steady; `Unknown` is the first tick after power-up.

*`PulsingOutputProofs`*: for any lengths, the output is off after a `Reset`, but for
`raced` (`OffAfterReset`); and pulses and pauses have their lengths (`PulsesKeepShape`) if
a pass of the main loop is shorter than a pulse and a pulse not longer than a pause,
premises of that theorem which the firmware's 500 of 1500 ms meet. `Written` says what
each write of `Set` and `Reset` leaves behind, `Timed` how `m_changedAt` and the real
length of a pulse or pause go together. `OutputTypes` is the type invariant.

*`ClockProofs`*: for any years from 1 to 99, any hours looked at (with 0 and 23) and any
`SHUFFLE.TXT`. The calendar comes first: `Weekday` and `MonthEnds` (the table of month
offsets agrees with the lengths of the months and the leap years), so that the chip's next
day has the next weekday (`NextDayIs`), and the last Sunday found from the 31st is the one
found from any day of the month (`LastSunday`). Then `CheckDstRight`: `CheckDst` is summer time as it is
defined. `ClockTypes` says that no day is shown that its month has not. `SetIsShown` rests
on `JustSet`: behind a `Set` the chip and the flag are what `Set` computed, and asking again
changes nothing (`DayLevel`). `HourRight`, that summer time is right at every reading, has the hypothesis
`MaxUnread < Cardinality(Hours)`, that the clock never goes unread for a whole day; it is
read every second. Its invariant `Current` says that at some moment less than a day ago the
flag was right and the level told when to ask again (`Knows`); `LaterToday` and `Tomorrow` show
that a reading then either asks or need not. The odd comparison of a weekday with a day of
the month at level Day is harmless because it can only be skipped for one day, in the
first days of a month, where the next comparison fails.

*`RadioProofs`*: for any timer period, number of bits, gaps, and noise of any lengths that
satisfy `RadioAssumption`. The firmware's constants do: two of the longest sync pulses fit
in one period of the timer, with a shortest one or the latency besides; a gap is longer
than a period; and twice the `Latency` is at most the shortest sync pulse, so the captures
may wait up to 4000 ticks of 3/72 MHz, or 167 us. `DecoderInv` is the types (`RadioTypes`)
and `Late`: an overflow is left over only at an edge that closely followed it. Then the
next half fits nothing, whatever its length, and by `UnfitDropped` a half that fits nothing
stops the decoder.

The other theorems are about remotes whose jitter is at most a quarter of the sync
pulse (`Tolerated`, what `ProcessPeriod` allows for). An undisturbed frame with no half
longer than twice its sync pulse is reported (`CleanReported`); by `Followed`, after each
half the decoder holds the bits sent so far. Behind an undisturbed start, a longer half
always stops the decoder (`OverlongDropped`), so the restriction is the code's own. Only
the code of the frame that just ended is reported (`OnlySentReported`), whatever noise adds,
loses or swaps, unless it is `disguised`. Its invariant `FrameInv` says (`Behind`) that a decoder
that took a half inside the frame for a sync pulse has fewer bits than were sent, and the
gap stops it before it has all.

Every invariant and every action property that the passing runs check is a theorem. Only
model-checked is liveness (`GateCloses`, `IdleWhenEmpty`, `DriverIsAnswered`, `Drains`,
`SenderGetsOn`, `KeepsPulsing`, `CommandsAnswer`), which is beyond the prover. The constants
of `TLC`'s runs satisfy the hypotheses of the theorems.

## What is not modelled

- The log, its queue and the text database on the SD card, with the SD card driver and
  FatFs: their state is the layout of files. The core reads two files, modelled by
  their content: `DB.TXT` (`Records`) and `SHUFFLE.TXT` (`Clock`); how they are parsed is
  left out.
- Traffic lights and LCD: output only. The rotary encoder: a counter that is echoed.
- The configuration's content: `Load`, `Set` and `Reset` only change values the gate
  model takes as constants, and happen before or between its steps.
- Commands that only print or use the SD card (dump, export, log, lights, tests).
- The polled users of the I2C bus (clock, LCD): they share `m_callbackError`, which
  `Clock` covers as readings that fail.
- The HAL apart from the UART and I2C functions on the modelled paths, generated
  start-up code, the Arduino version, bench tools and scripts.
- The transmitter behind a store that undid its interrupt's change (`overwritten`).
- A capture whose flag the update handler reads just before the capture's own interrupt
  preempts it, and which is so processed twice, the second time with length 0.
- Inside the modelled parts: log lines, LCD updates and lights that the main loop calls,
  which keep no state it reads; changes of the configuration while the machine runs; the
  wrap of the 32-bit tick counter, which unsigned differences hide; the packing of a
  record's bytes; `setInfo`, which nothing calls.

Most of the repository's lines are vendor headers, HAL drivers and CMSIS libraries, twice
over (firmware and board test). The share of all lines that the models cover is therefore
small; of the firmware's own logic they cover the parts listed above.

## Plan

1. *Log*: the code log queue, which is filled by the main loop and emptied from its end.
2. *Site*: slow vehicles that stay on a loop after a timeout, and two remotes pressed
   alternately, in `GateSite`.
3. *Proofs*: the steps on which the liveness properties rest, as action properties: what
   brings an opening, a refusal or a waiting call closer to its end.
