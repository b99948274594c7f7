# LuCNes in TLA+

A formal model of LuCNes, an emulator of the NES game console in C.  It says
what the emulator's parts promise each other, checks those promises with TLC on
small instances, and proves some of them with TLAPS for every value of the
parameters.  Line numbers refer to the sources; `PROJECT.json` maps every
definition that models code to the lines it stands for.

## 1. The system

LuCNes is one thread that interprets 6502 instructions (`CpuMainLoop`), and
devices that it runs when it must.  It gets its speed from being lazy, and so its
hard behaviour, too:

* CPU time is only counted (`cpu->sync.pending`, `cpu->ioInsnCycles`).  The PPU and
  the APU are run up to it (`CpuSyncDevices`) when an instruction touches one of
  their registers, when an interrupt could be due (`cpu->sync.deadline`), and for
  OAM DMA.
* A device that is run for `n` cycles does not count them: the PPU draws in pieces
  as long as a line, the APU steps from event to event and keeps its outputs cached.
* Some effects are late by a cycle or some dots (frame counter signals, the IRQ
  flag, the rendering switch), and program writes can come in between.

Four things are really concurrent: the audio thread of CoreAudio, the player
process behind the pipe, the clock that the rate limiter sleeps by, and signals
in a terminal.

| Component (source) | State | Operations | What makes it correct |
|---|---|---|---|
| CPU main loop (`cpu/cpu.c`) | pending cycles, deadline, `irqDisabled` | tick, sync, access, poll and enter NMI/IRQ | an interrupt is polled neither too late nor twice; CLI latency; a device sees an access in its own cycle |
| CPU instructions (`cpu/emulate.c`) | registers, flags, stack | the operations, interrupt entry | flags are right over many bytes; returns go back; cycles are those of the table |
| PPU timing (`ppu/ppu.c`) | line, dot, status, NMI latch, odd frame | run n cycles, $2000-$2002, NMI deadline | vblank flag, its races, one NMI a frame, frame shown once |
| PPU rendering (`ppu/render.c`) | scroll address, tiles fetched, sprites of the line, toggle delay, OAMADDR | stages of a line, $2000/1/5/6 | the picture does not depend on the batches, and shows what a program scrolled to |
| OAM DMA (`ppu/ppu.c` 432-462) | OAMADDR as loop counter | copy 256 bytes while devices run | it ends and copies all |
| PPU memory (`ppu/ppu.c` 179-246, 337-414, 521-584) | page table, palette, address and its toggle | $2005, $2006, $2007, mirrors | addresses reach the cell they name |
| APU frame counter, length (`apu/apu.c`) | step, countdown, delayed signals, IRQ | run, $4015, $4017, length writes | skipping is exact; silenced stays silent; IRQ deadline |
| APU DMC (`apu/apu.c`) | output unit, reader, IRQ | run, $4010-$4013, $4015 | skipping is exact; no stale IRQ; deadline; a sample ends |
| APU tone channels, sampler (`apu/apu.c`) | timers, sequencers, envelopes, sweep, counters, cached outputs | run, $4000-$400F, $4015, clocks | skipping wraps is exact; the caches are fresh |
| Mappers (`mapper/`) | bank registers, MMC1 shift register | lookup, bank switch | windows follow registers; the serial port |
| ROM loading (`rom/`) | the file, its descriptor | recognise, parse | every segment is found where it is |
| Controllers (`controller/controller.c`) | strobe, shift registers | $4016, $4017 | a report is one moment's buttons |
| Terminal input (`input/vt_backend.c`) | key state, time to live, keyboard mode | read keys, timer signal, set up, undo | keys become buttons, Ctrl-C ends |
| Terminal output (`video/vt_backend.c`) | terminal mode, handlers | take and give back the terminal | it is given back once, however the program ends |
| Start and end (`main.c`) | what has been acquired | initialise, unwind, release | everything released once, in reverse |
| CoreAudio (`audio/coreaudio_backend.c`) | two buffers, semaphore | push sample, callback | buffers are not shared; the push returns |
| Pipe (`audio/pipe_backend.c`) | a batch, the pipe, the player | push sample, write | the push returns, though the player dies |
| Rate limiter (`audio/rate_limiter.c`) | baseline, samples since | tick | the emulator keeps its pace after stalls and overflows |
| SDL2 and empty back ends, `vtrenderlib`, `utils/` | buffers of libraries | copy, draw | plain I/O |

How they interact: register reads and writes are calls out of an instruction into
a device (after a sync); NMI and IRQ are flags the loop polls; the devices tell the
loop a deadline; a sample is a call from inside the APU's loop to the back end,
which may block; a frame is a call from inside the PPU's; strobing the controller
calls the input back end, which its timer signal calls, too; a bank switch is a
write to ROM that changes the tables of the CPU and of the PPU.

## 2. The modules

| Module | Models | Extends / instantiates |
|---|---|---|
| `PpuTiming` | scan line machine, $2000-$2002, NMI latch, deadline | |
| `PpuBatching` | the same PPU twice, in batches and cycle by cycle | `PpuTiming`, twice |
| `NmiLine` | abstract: what the CPU may rely on about the NMI line | |
| `CpuNmi` | main loop, lazy sync and OAM DMA over the PPU | `PpuTiming`, refines `NmiLine` |
| `CpuAccess` | the bus cycles of an instruction, and the sync in its middle | |
| `PpuRender` | the stages of a line with their pixels, scrolling, toggle delay, DMA | |
| `ApuFrame` | frame counter, delayed signals, frame IRQ, a length counter | |
| `ApuBatching` | that APU twice, skipping and cycle by cycle | `ApuFrame`, twice |
| `CpuIrq` | main loop, lazy sync and IRQ over the APU | `ApuFrame` |
| `ApuDmc`, `ApuDmcBatching` | the DMC channel; twice | |
| `ApuTone` | a pulse, the triangle and the noise with their registers, clocks and caches; the sampler | |
| `CoreAudio` | double buffering with an audio thread | |
| `PipeAudio` | batches through a pipe to a player that may die | |
| `RateLimiter` | pacing by the clock | |
| `Sound` | the APU pushing samples to each of these outputs | `ApuTone` and the three |
| `RomFile` | recognising and parsing an image | |
| `SerialPort` | abstract: the MMC1's port as a program sees it | |
| `Mapper` | mapper lookup and every bank switch | refines `SerialPort` |
| `PpuMemory` | the VRAM address and what it reaches through the windows | `Mapper` |
| `Cartridge` | from a file to what CPU and PPU see of it | `PpuMemory`, `RomFile` |
| `VtInput` | terminal keys, both protocols, SIGALRM | |
| `Controller` | $4016/$4017 | `VtInput` |
| `Session` | the program from `main` to its end, with signals anywhere | `Controller` |
| `CpuAlu` | arithmetic of the instructions, for any width of a byte | |
| `CpuCore` | the instructions, stack and interrupt entry | `CpuAlu` |
| `*_proofs` | theorems | see section 6 |
| `MC*` | values of the constants for TLC | |

How state and actions correspond to the code:

* **PPU.** `scanLine`, `dot`, `lastDot`, `oddFrame` are the fields of `LuCNesPPU`;
  `vblank` is bit 7 of the status, `nmiEnabled` bit 7 of the control register,
  `rendering` the two enable bits of the mask.  `PpuTicksExecute(n)` is the action
  `Ticks(n)` and then one action per iteration of its loop (`VisibleLine`,
  `PostRender`, `VblankStart`, ...).  The CPU can act only when the loop is done
  (`AtRest`).
* **Rendering.** In `PpuRender` a call of `PpuTicksExecute` is one operator that
  runs the whole loop, because there the question is what a whole call leaves
  behind.  A pixel is the backdrop, the background or one of the sprites, opaque or
  not; colours and the patterns of tiles are constants.  A tile is fetched two ahead
  and the sprites of a line one line ahead, as in the code, so that a property about a
  picture relates writes of one line to pixels of another.
* **Main loop.** In `CpuNmi` and `CpuIrq`, `pc` is the place in `CpuMainLoop`, or the
  instruction's register access; `lag` is `sync.pending` and `deadline` is
  `sync.deadline`.  An instruction is its cycles: a plain one, or so many up to a
  register access and so many after.  That an instruction is like this is what
  `CpuAccess` shows: there it is the sequence of bus cycles its handler makes
  (`Handler`), by addressing mode, kind of access and region; `Count`, `CpuMemRead8`,
  `CpuMemWrite8` and `DmaWrite` make one of them each, `End` is `CpuTick`.
* **APU.** `todo` is `cpuCycles` of the running `ApuTicksExecute`; each iteration
  is `ApuStep(n)` (`DmcStep`, `ToneStep`), where `n` is any length up to this
  channel's own next event: another channel may have an event sooner, and the
  channels are modelled apart.  That is why the twin modules show more
  than the code needs: exactness for every way of cutting the time.  The tone channels
  are one record; a register write or a pending clock is an operator on it, so that
  `StepIsExact` can compare a step of `n` ticks with `n` steps of one.
* **Sound.** `backend` says which output the program was built with.
  `AudioPushSample` of CoreAudio is three steps (call, wait for the semaphore,
  store and perhaps enqueue), that of the pipe one per `write`; the callback and the
  player are the other side.  The fourth output, "direct", takes every sample at once:
  with it alone the channels get register writes and clocks, which no output can tell.
* **Cartridge.** `image` is what a file was made of, `rom` what the loader makes of
  it.  `prgWin`, `chrWin` and `screens` hold the number of the bank that each window
  shows, where the code holds a pointer.  The VRAM address is a number with its
  fields in their order and fewer bits in each.
* **Input and session.** An event stands for an escape sequence.  A read takes those
  that fit the buffer and may cut the next.  `ScanKitty` knows the end of a sequence by
  one of the letters `uABCD`, so that the sequence of an unbound key that ends otherwise
  (Delete, Home, F1) and the one behind it in the same read are one to it: `TakenAs` says
  what becomes of that.  Events of a button come in any order: two
  keys may be bound to it, and a repeat is taken for a press.  `held` is the set of
  buttons whose last event was a press.  `InputRead` is two steps, poll and read,
  so that SIGALRM can come between them.  `place` is the next call of `main`,
  `VideoInit`, `InputInit` or their reverse; `frames` are the handlers that run, one
  inside the other.  Both meanings of `signal` are modelled, because the flags of the
  Makefile decide which one the program gets.
* **CPU.** Each function of `emulate.c` is an operator of its name; addressing
  modes fall together in an operand that is immediate or one byte of memory.  A
  byte has `2 * Half` values.  A ROM gives each address the set of instructions
  that may be found there, and says which interrupts come.

Definitions whose comment starts with "Faulty:" are not part of a specification:
each is a variant of the definition after it with a plausible bug, which the
properties must be able to find (`mutants` in `PROJECT.json`).

## 3. The runs

Run one with `tlc -config MCx.cfg MCx`.  Each takes less than five minutes.

| Run | Question | Distinct states |
|---|---|---|
| `ppu_batching` | flags, frames and deadline of the PPU; can the CPU see batches? | 76 237 |
| `cpu_nmi` | is the NMI polled in time, once, and entered? | 489 451 |
| `bus` | what does an instruction cost the devices, and when do they see its access? | 87 030 |
| `apu_frame` | frame counter, IRQ and length counter; is skipping exact? | 389 944 |
| `cpu_irq` | CLI latency; is the frame IRQ seen in time? | 2 094 976 |
| `irq_three_times` | *violation*: see section 5 | |
| `apu_dmc` | level, IRQ, deadline, end of sample; is skipping exact? | 203 152 |
| `sound` | are steps and caches of the channels exact? do the outputs pace the emulator and let it go on? | 626 932 |
| `cartridge` | from any image: segments, mapper, banks, serial port, VRAM address | 297 358 |
| `ppu_render` | does the picture follow the scrolling and not the batches? does DMA end? | 451 049 |
| `cpu_core` | arithmetic on long numbers, nested calls and interrupts | 191 641 |
| `host` | do keys become reports? is everything released once and the terminal restored, whatever fails or is signalled? | 371 889 |

What they show, by hazard:

* *Batches.*  `BatchingIsInvisible`, `SkippingIsExact`, `DmcSkippingIsExact`,
  `StepIsExact`, `RenderingIsExact`: a device run in batches is in the same state
  as one run cycle by cycle, whenever the CPU can look.  The one visible difference is
  intended, and stated: whether a vblank NMI is armed at once or pending for one
  more poll depends on the batch in which it came.
* *Deadlines and cycles.*  `DeadlineCoversVblank`, `NeverOverdue`,
  `FrameIrqNotOverdue`, `DmcDeadlineHolds`: no interrupt is older at its poll than the
  code allows.  `CyclesAreDocumented` and `DeviceSeesItsCycle`: however an
  instruction's cycles are split between its own count, the pending ones and a sync in
  its middle, they add up to the opcode table, and the device sees the access in
  the cycle in which the processor makes it.
* *Races.*  `RaceMarkIsFresh`, `ShownOncePerFrame`: register accesses at the dots
  that count.  `NmiLineSpec` sums them up: the loop and the PPU implement the abstract
  line, in which a young request can be taken back and an old one cannot, and there is
  one at most, unless a DMA that rendering holds up has kept the CPU from its poll.
* *Silence, stale flags and stale caches.*  `DisabledIsSilent`, `SilencedStaysSilent`,
  `IrqMeansSampleRead`, `CachesAreFresh` (the cached outputs of the channels are what
  their registers say, after any write, clock or sweep), `ReportIsHeld`.
* *Data in many hands.*  `LoaderFindsImage`, `LookupIsExact`, `MapsFollowRegisters`,
  `WindowsInMemory`, `PortSpec`: from the header of an image to the banks shown.
  `AddressIsSet`, `AddressesFollowMap`: the halves of the VRAM address arrive in the
  right order, and it reaches the cell that the mirrors and banks give it.
  `PictureFollowsScroll`: each pixel of a frame shows the tile and the sprites that the
  last scroll position or address asks for.
* *Pace.*  `PaceIsKept`: over no stretch of time does the emulator get ahead
  of its samples by more than a drift and a batch or two, with sleeps cut short by SIGALRM,
  stalls, and samples that outgrow 64 bits.
* *Start and end.*  `ReleasedOnce`, `TerminalRestored`: whatever initialisation fails
  and whenever SIGINT or SIGTERM comes.  The moments in which the code is not prepared
  for a signal are named in `excused` (section 5).
* *Liveness.*  `NmiIsEntered`, `SampleEnds`, `PushReturns`, `DmaEnds`,
  `QuitIsHonoured`.

### Bounds

The models count dots, lines and cycles as the code does, so a frame of the
real size is out of reach; the constants shrink it and keep every kind of line, of
dot and of batch that the code tells apart.  Each MC module says which.

* `ppu_batching`: five lines of eight dots, batches of 1, 2, 3 and 7 cycles, that
  is within a line, across one and across several.  `cpu_nmi`: twelve lines of
  eight dots, because interrupt entry and several instructions must fit between two
  vblanks, and a DMA of three bytes, which is longer than the way from one reset of the
  OAM address to the next: begun with rendering on, it lasts to the vblank.  A frame of
  five lines, and an odd frame of twelve, are no whole number of CPU cycles, so that
  every alignment occurs.
* `bus`: every addressing mode, kind, region, carry and bank boundary, with the real
  cycles; the deadlines 0, 3, 7 and 12 fall before an instruction, into one and behind
  one or several.
* `ppu_render`: lines of four tiles of two by two dots, frames of three lines, with all
  the stage boundaries; three sprites of which two (`SpritesPerLine`) fit a line, of
  both heights, flipped, behind and before the background; `MaxWrites = 1` register write
  at any dot of any line, from each of three masks.  A DMA takes more than a line and
  less than the vertical blank.
* `apu_frame`, `cpu_irq`: frame steps two and three ticks apart, so that delayed
  signals overlap the next step.  `apu_dmc`: two rates, samples of one and two
  bytes of two bits.  `QuarterWrap` counts quarter frame clocks modulo 4.
* `sound`: channels at power up or started by a program, then `MaxEvents = 2` register
  writes or clocks; periods that mute a pulse and that do not, until a sweep takes one to the
  largest and past it; a noise register of three bits; samples of three and four
  cycles in buffers of two, `MaxFailures = 1`; a pipe of two batches.  For the limiter a
  sample lasts three units, the drift is eight, stalls last ten samples, and the product overflows
  at the 22nd sample, `MaxOverflows` times in a stretch.
* `cartridge`: all 256 ids; images of every format with each segment there and
  missing, at the ends of iNES's counts and in the exponent form; ROMs of one to six
  16 KB banks, powers of two and not; addresses of `Tiles = 4` tiles a side, `Low = 8`.
* `host`: two opposite directions, queue of two events, buffers of one or two, so that
  a read cuts a sequence, or reads that of an unbound key together with the next; the
  unbound key only goes up (`UnboundMoves`), which can turn the press behind it into a
  release; `MaxSignals = 2` signals from outside, so that a handler is
  interrupted by another.
* `cpu_core`: three-bit bytes (`Half = 4`), numbers of up to `MaxBytes = 2` bytes,
  ten small ROMs that between them hold all the operations, each with a bound
  `nested` on open interrupts.

`CHECK_DEADLOCK FALSE` is said where the system may stop: `cpu_core` (an invalid
opcode, or calls deeper than the stack), `host` (the program has ended) and
`cartridge` (no mapper was found, so that `main` ends).

### Fairness

* `cpu_nmi`: WF of the whole next-state relation.  The loop is one thread
  that never waits, so it always takes a step.
* `apu_dmc`: WF of handing out cycles, and of the steps of each twin, which are
  iterations of terminating loops.
* `sound`: WF of the push (a thread that can go on does) and of playing (the device,
  or the player while it lives, plays what it was given).  None of a player's death or
  of a signal.
* `host`: WF of the program's own steps (`Runs`): the calls of `main` and of the
  handlers, and reading the keys or SIGALRM.  Every `InputRead` rearms the interval timer,
  so if the program does not read, the signal comes.
* `ppu_render`: WF of the DMA loop's own steps.  `DmaGoesOn` says it without
  `ENABLED`: while a DMA runs, one of these steps is always possible and nothing else is.

## 4. What is only model-checked

* Liveness (`NmiIsEntered`, `SampleEnds`, `PushReturns`, `DmaEnds`, `QuitIsHonoured`):
  fairness and `ENABLED` are out of the prover's reach.

Every safety invariant and action property that a passing run checks has a theorem.

## 5. Where the code disagrees with what is said of it

Shown by a run:

* `irq_three_times`: `apu.c` 740-745 says that the frame IRQ flag is set in three
  cycles running.  The second and third setting are left to the next time the APU
  is run, and `ApuCyclesToFrameIRQ` does not count them.  A $4015 read in the cycle
  of the first takes the IRQ back, for as long as a video frame.

Met while modelling, without a run of their own; a property that would fail is stated
with the exception, and the exception is named in it or under `hazards`:

* CPU.  `CpuMemRead16` counts four cycles for an operand across a bank boundary, two
  otherwise (`cpu.c` 249-256; `Slip`); the assertion at `emulate.c` 1873 does not allow
  it.  `push16` and `pop16` do not wrap in the stack page as `push8` and `pop8` do.
  Reads of $4000-$4013 and $4018-$5FFF find a device without a read function.
* PPU.  `PpuRenderingEnabled` returns the negation of the new state during the delay of a
  toggle, where the comment at `ppu.c` 287-290 says the old state; they differ when
  only one of background and sprites is switched.  Rendering that is off at dot 256 leaves
  the sprites of an earlier line for the next.  $3F20-$3FFF are not mirrored down to 32
  bytes (`ppu.c` 222-223, comment at 562).  The 15-bit VRAM address indexes a table of 16
  pages of 1 KB (`ppu.c` 239).
* OAM DMA.  Its loop counts in `oam.addr` (`ppu.c` 447-454), which rendering sets to 0 at
  the end of every line of the picture (`render.c` 498-581).  A DMA begun with rendering on
  therefore starts over in every line and lasts into the vertical blank, not 513 or 514 cycles.
  An NMI that was waiting when it began meets the one of that vblank; if both are in the
  same of the two flags, one is lost.
* APU.  A period write in the cycle of a pending half frame clock sets the period
  before `ApuFlushFrameSignals` runs, so that the sweep may overwrite it with a target
  computed from the old one (`apu.c` 226-231).  The first step after `ApuInit` mixes with
  `outputMix` 0, and a pulse with period 0 is not muted by its sweep before the first write.
* Cartridge.  A mapper id of 12 bits is passed to an 8-bit parameter (`mapper.c` 198).
  `mapper.h` 11 says that NROM has no mapper; a write to ROM switches its banks all the
  same, without a modulus (`mapper.c` 58-71).  MMC1 counts the banks of CHR RAM that the
  header asks for, while 8 KB are allocated (`ppu.c` 542).  CNROM with CHR RAM switches to
  what follows the PRG in the file (`cnrom.c` 46-49).
* Sound.  An `AudioQueueEnqueueBuffer` that fails loses its token; after two failures
  `AudioPushSample` waits for ever (`MaxFailures = 2` shows it).  SIGALRM in a `write`
  to the pipe may lose a batch, and once the player is gone nothing paces the emulator.
  The model is the release build: one without `NDEBUG` aborts at `pipe_backend.c` 38-41 as
  soon as the player is dead.
  The 64-bit product of the limiter wraps after days and is taken for a stall.
* Input and session.  A key release that SIGALRM swallows leaves the button pressed.
  `ScanKitty` ends a sequence at the first of `uABCD` (`vt_backend.c` 127, 140-150).  The
  sequence of an unbound key that ends in another letter (Delete, Home, most function keys)
  takes the one behind it in the same read with it: the two are dropped if they are 16 bytes or
  more, and otherwise an arrow is applied, but as a release if either was one, and a sequence
  in `u` is taken for the key of the first number (behind F3, whose number is 13, for
  Enter).  So a press, a release or Ctrl-C can be lost.  Ctrl-C with Caps or Num Lock on has
  other modifiers than the `99;5` that is looked for, and is not found.  Without the Kitty
  protocol an arrow with a modifier is typed as its letters (`vt_backend.c` 174-190).
  Select and Start of the first pad have two keys each (`vt_backend.c` 75-78): letting go of
  one releases the button while the other is still down, and a repeat of that one presses
  it again.
  With `--std=c11` and without `_DEFAULT_SOURCE`, `signal` is that of System V: a second SIGALRM
  finds the default handler and kills the program with the terminal unrestored.
  A signal in the calls around taking or giving back the terminal, or inside a handler, may leave it
  altered or close it twice; and `MemAlloc` calls `exit(1)` with the terminal
  already taken.

## 6. What is proved

`tlapm M_proofs.tla` checks each module.  The theorems hold for every value of the
constants that satisfies the assumption named, as the code's own tables do; TLC evaluates the
assumption in each run of the module.  The inductive invariants were checked by TLC on the
instances of section 3 before they were proved.

* **`CpuNmi_proofs`, the PPU** (`PpuConstants`: the lines and dots that matter come in
  their order).  The flags do not have the properties by themselves: each is allowed
  only in a stretch of lines and dots.  `PpuInv` therefore joins `TypeOK` and
  `Windows`, which ties the vblank flag, the race mark and the frame to the scan
  line machine.  `PpuInvariant` proves it inductive, one step per kind of line and
  per register; `PpuTypeCorrect`, `VblankFlagTheorem`, `RaceMarkTheorem`,
  `ShownOnceTheorem`, `NmiOnlyInBlankTheorem` (an action property) and
  `DeadlineTheorem` (no vblank comes before the deadline told to the CPU) follow.
* **`CpuNmi_proofs`, the main loop** (`CpuConstants`; `FrameIsLong`: a frame is
  longer than the longest two instructions with the entry of an interrupt before each, those
  with a DMA included that copies straight through, as the real one is by far; `DmaIsLong`: a DMA
  takes longer than two lines, so that no line lets it end between two resets).  `NeverOverdue` is about polls, and polls come when the loop gets
  there; the invariant is about every place of the loop.  It compares `RoomToVblank`,
  the dots up to the next vblank, with what is `Owed` to the PPU and what the loop will count
  before it polls (`ToPoll`).  While no device runs, the PPU has caught up and the cycles
  kept back are fewer than the deadline (`InTime`); a run of the devices goes past the next
  vblank by an instruction at most (`OverrunIsShort`); there is one request at most
  (`OneRequest`), and it is served before the next vblank can raise another (`ServedInTime`).
  A DMA that rendering holds up is an instruction of no fixed length.  `HeldUp` and `HeldOn`
  say where it can be: at every line of the picture it has more bytes to copy than there is time
  for before it must start over, and after the last line more than there is before the vblank,
  so that it ends only inside it, with a whole picture to the next.  `dmaHeld` says that this has
  happened since the last poll: until then the requests of two vblanks may be there together.
  `NeverOverdueTheorem` follows, and so does `NmiLineTheorem`: each step of the loop
  is a step of the abstract line, or a stutter.
* **`CpuIrq_proofs`, the APU** (`ApuConstants`).  A step may be as long as the next event
  allows, so that nothing is skipped only if the countdown has not passed the step
  it waits for: `InTime`, which has to survive $4017 and its delayed reset.  `ApuInv`
  joins it to the types, to `DisabledIsSilent` (a frame IRQ disabled by $4017 cannot
  be set by the two late settings) and to `SilencedStaysSilent`.  `OvershootTheorem`
  is the action property that no step goes past an event.
* **`CpuIrq_proofs`, the main loop** (`IrqConstants`).  `Covered` says in every place
  of the loop that the deadline it goes by is at most one cycle past the one that sets the
  frame IRQ (`FrameIrqIn`), which $4017 moves and its delayed reset moves again.  With `LagOK` (what is
  pending) and `KeptOK` it is inductive; `FrameIrqTheorem` and `OneInsnTheorem` follow.
  `KeptOK` is about the flag that delays an IRQ: only CLI and PLP leave the mask that is polled
  set with the flag clear (`cleared`), so an IRQ waits for one instruction after them and for
  none after any other, RTI included.
* **`ApuDmc_proofs`** (`DmcConstants`).  `PromiseKept` says what is left of a deadline once
  given: not more than the channel still needs, counted to the half of an APU cycle, because a
  step of an odd number of CPU cycles moves the phase.  It gives the action property
  `DmcDeadlineHolds`; `SampleReadTheorem` is `IrqMeansSampleRead`.
* **Twins** (in the three modules above).  `BatchingTheorem`, `SkippingTheorem` and
  `DmcSkippingTheorem` are `BatchingIsInvisible`, `SkippingIsExact` and
  `DmcSkippingIsExact`: of two devices that see the same accesses, one run in batches and
  one cycle by cycle, nobody can tell which is which.  The two runs differ in length, by a
  number that no bound limits.  The invariant carries the whole way between them: a function
  of the states that the slow device passes through, cycle by cycle, until it is where the
  fast one already is (`Way`).  A batch makes it longer (`LongerWay`), a cycle of the slow
  device makes it shorter (`ShorterWay`), and a way of length zero is equality.  What the
  proof needs of the code is one lemma about it, `OneMore`: `k + 1` cycles at once are `k`
  and one more.  For the PPU this holds up to the names of a moment, the end of a line
  being the beginning of the next, and `Normal` chooses one.
* **`CpuInsn_proofs`, the bus cycles** (`AccessConstants`: deadlines and stolen cycles of any size,
  any table of the instructions that reach no device).  What a handler has still to do is
  an ending of what it does (`EndOf`), so that the number of bus cycles left tells which is
  next (`OpFromEnd`) and what the rest will count (`Left`).  `AccessInv` says that
  what the devices have got, what is pending, what is counted and what is left add up
  to the table; `AccessInvariant` proves it, one lemma per action, all of them through
  `Balanced`.  `TableCounts` is the one fact about the instructions themselves.
  `CyclesTheorem` is `CyclesAreDocumented`, `DeviceTheorem` the action property
  `DeviceSeesItsCycle`.
* **`CpuInsn_proofs`, the arithmetic** (`HalfAssumption`).  A byte has `2 * Half` values.
  `AddExact`, `SubExact`, `AddSigned` and `SubSigned` say that a chain of ADC or SBC that is
  right for some bytes is right with one byte more: the carry and the overflow flag are those of
  the number as a whole.  `CompareExact` says that CMP, CPX and CPY order two bytes, by the
  carry and by the zero flag, and that SBCs may follow one as higher bytes.  The carry is as
  right after the shifts, up and down.
* **`CpuInsn_proofs`, the programs** (`CoreConstants`: any ROMs of well-formed instructions,
  any reset and interrupt vectors).  `CoreInv` says of every frame (a JSR or an interrupt
  that has not returned) that the cells under it hold the address and the flags it pushed,
  and that the chain it cut is exact with those flags; together with the chain that is
  being worked on.  Each instruction has a lemma, most of them through what an instruction
  `Leaves`.  `WideTheorem` and `ReturnsTheorem` are `WideIsExact` and `ReturnsExactly`.
  The attempt showed that the model's history kept a frame whose cell an interrupt on a
  wrapped stack had overwritten: frames are given up after the word is pushed and
  again after the flags are.
* **`PpuRender_proofs`** (`RenderConstants`: lines and frames of any size whose stages come
  in their order, any tiles, any sprites, batches of any length).  `PictureFollowsScroll`
  speaks of the pixels of a line, but they were decided before: the address is up to two tiles ahead of
  the beam, the sprites were found on the line before, and a hit with sprite zero is noted when its
  tile is drawn and told when the beam comes by.  `RenderInv` says where each of these is.
  Up to the end of the tiles (`InTiles`) the address is in the row of this line, as many tiles from
  the scroll position as were drawn, the sprites are the foremost of each pixel, and the hit
  is the first of `Met`, where sprite zero meets the background in these tiles.  Behind it
  (`BehindTiles`) the row is the next one's and so are the sprites.  `Calm` carries a steady frame
  through the pre-render line, `Cleared` and `Swept` what a line must find at its beginning.
  The loops of the code are functions that call themselves, and nothing says at first that such a
  function exists: `LoopExists` exhibits it, as the least set of pairs closed under
  a turn, and `LoopKeeps` follows its turns by a measure (`InductionAlong`).  With these,
  `TilesKeep` follows the tiles of a stage, `SpritesForemost` the search for the sprites of a line, and
  `TicksKeep` the rounds of a batch, one lemma per stage.  `GroundDrawn` is what the fine scroll
  does to a tile and the one after it, `RowBelow` what the carries of `IRegIncY` do to a row:
  both rest on division with remainder.  `RenderInvariant` makes it inductive under all register
  writes and DMA, `PictureTheorem` is `PictureFollowsScroll`.
* **`PpuRender_proofs`, the batches** (the same assumptions).  `RenderingIsExact` says that a batch
  is its single cycles, in a disturbed frame too: all seventeen fields are equal.  `RoundJoined` puts a stage of the
  longer batch beside the same stage of a part: either both go equally far, and the part has
  the rest to come (`Plus`), or the part stops where its dots end and its next stage brings it
  to where the longer batch is at once (`Joined`).  The tiles are the hard stage (`TilesJoined`): a part
  that stops inside a tile has drawn it whole, and what it notes of a sprite zero hit must be
  told once and at the same dot (`TilesHit`, `TilesBeam`), whether rendering is on, off or
  being switched (`EndsAre`).  `CatchUpSplits` follows the stages by `InductionAlong` with the measure
  of `TicksKeep`: catching up in between changes nothing.  So `k + 1` cycles are `k` and one more,
  and `SinglyIs` counts up to the batch by its least counterexample.  `BatchesTheorem` is `RenderingIsExact`.
* **`Sound_proofs`, the limiter** (`RateConstants`: any rate, batch, drift and width of the
  counter).  `Account` is what the limiter goes by, the samples since the baseline less the time.
  It tells how far ahead the emulator is but for `Slack`, what a stall wiped out and
  what each overflow gave away (`AccountTells`), and it is never high by more than a
  rounding and, after a sleep cut short, a batch (`AccountLow`).  While the product does
  not fit, the account says nothing, and a bound of its own must hold (`WrappedLow`).
  `RateInv` is inductive with these three, and implies `PaceIsKept`; the argument is
  where the rounding that each overflow adds to its bound comes from.
* **`Sound_proofs`, CoreAudio** (`AudioConstants`).  `Balance`
  accounts for every buffer: free with its token, being filled, queued, or lost to an
  enqueue that failed.  `InTurn` says which of them comes last in the queue;
  `BufferIsFree` needs both, because one buffer queued must be the other one.
  `NotStarvedTheorem` is the safety half of `PushReturns`.
* **`Sound_proofs`, the channels** (`ToneConstants`: a sweep shifts by three bits, the
  volume a program writes is a number, the noise has a period, and samples are rarer than
  cycles).
  `CachesAreFresh` speaks of every cache at once, but the code refreshes them one by one and
  late: a write of a period changes what the sweep's target must be, and a
  clock of the sweep changes the period.  `ToneInv` therefore has a part for each moment: the
  registers keep their shape, a sweep that is off has no target to write (`SweepOK`), the target is
  that of the period (`TargetFresh`), the outputs are those of the registers
  (`OutputsFresh`).  Lemmas say which of them each register write and each clock keeps.
* **`Sound_proofs`, the steps.**  `StepTheorem` is `StepIsExact`.  Each timer is a function
  of its own channel (`PulseRan`, `TriangleRan`, `NoiseRan`), and `ServeIs` puts a step
  together from them, field by field.  `OneMore` is again the lemma about the code: `k + 1`
  cycles at once are `k` and one more as long as no event comes before the last of them.
  For a silent channel there is no such event, and the lemma rests on what division does
  when one more tick wraps the countdown once more (`SkippedOneMore`); for the sampler, on
  the number of cycles that `ApuCyclesToChannelEvent` rounds up (`NoSampleBefore`).  `Counts`, the
  second half of the invariant (`ToneCounts`), says that all this is done with numbers.
  `CycleByCycleIs` then goes from one cycle to `n` by induction (`Induct`, from the
  least element of a set of numbers).  Pending clocks need no such argument: a step with
  them is one cycle long.
* `SoundImplementsAudio`, `SoundImplementsRate` and `SoundImplementsTone` carry the results
  from a part of `Sound` to the whole: the APU is one of the callers that a part may have.
* **`Cartridge_proofs`** (`MapperConstants`, `PortConstants`).  `MapperInv` says that the
  registers determine the windows, and that the windows lie in the memory.  The second
  half has the hypothesis `WholeBanks`: PRG and CHR are whole in the largest banks that
  the board switches (32 KB for MMC1 and AxROM), and CNROM, which switches nothing else, has
  a CHR ROM.  The sizes need not be powers of
  two: `MaskedFacts` is what the code's `& (size - 1)` does to any size.  The attempt
  to prove `MapsFollowRegisters` found it wrong, because the number of the 16 KB bank has
  four bits of the five that MMC1's register keeps; both the property and the mask were
  corrected.  `SerialPortTheorem` is the refinement of `SerialPort`: the bits above the
  marker in the shift register are the sequence of bits that a program has written
  (`Bits`), and `BitsAppend`, `BitsFull` and `BitsReset` what a write does to it.
  `AddressTheorem` and `MapTheorem` are about $2005 and $2006 and the page table;
  `LoaderTheorem` is `LoaderFindsImage` for all images that their format can describe
  (`WellFormed`), whatever their sizes.  `LookupTheorem` is `LookupIsExact`: the binary search
  is a recursion, so that first a function that solves it is exhibited, in layers of the ranges
  that halving comes through (`SearchExists`); then the turns of the loop are followed
  (`Turn`, `Row`), for any id.
* **`Session_proofs`** (`SessionConstants`: any number of signals, either meaning of
  `signal`, either protocol of the keyboard).  While no handler runs, the
  place in the program says everything: what is owned, the state of the terminal and every
  handler (`SessInv`, with `OwnedOK`, `CalmOK`, `OrigOK`).  While some run, `StackOK` says
  what each has done and has still to do, and which of them may be under another;
  `ClosedOK` and `RestoredOK` are what is left after the last.  `ReleasedTheorem` and
  `TerminalTheorem` are `ReleasedOnce` and `TerminalRestored`.
* **`Session_proofs`, the pads** (`InputConstants`: any binding of keys to buttons, any
  buffers).  `ReportTheorem` is `ReportIsHeld`.  `After` says what a queue of events makes of
  a button: the last event that moves it decides.  `QueueOK` is the part that is not
  obvious: as long as no event was lost (to the timer, to a cut, or to the sequence of an
  unbound key), what is held is the state of the pads with the whole queue applied, also
  while half of it is read.  What `ScanKitty` makes of the events is the events themselves
  in that case (`TakenIsEvents`), and an unbound key moves no button.  A key that moves adds an event at the end
  (`AppendIs`), and a read takes some from the beginning and applies them (`TakenIs`); that
  the fold over these events in the model is `After` is an induction on their number
  (`FoldIsScanned`, `FoldIsTyped`), by a closed form that solves the recursion of the fold.
  `LatchOK` keeps what a pad shifts out equal to what was held when it was latched.

Out of the prover's reach: liveness and `ENABLED`, and whatever uses a recursive operator.

## 7. Not modelled, and why

* Data that no property tells apart: colours and palettes, the mixer's tables, the
  bytes of PRG and CHR, the copied bytes of DMA; the sums by which an opcode forms its
  address (their cycles and page carries are in `CpuAccess`).
* The read buffer of $2007, the write protection of CHR ROM, $2003 and $2004: one line
  each, with no state that anything else depends on.
* The second pulse channel, which differs from the first in `OnesComplement`, a
  constant of the model.
* I/O: the SDL2 and the empty back ends, drawing on the terminal, the vendored
  `vtrenderlib`, the choice of a player, the command line, `utils/` and the test
  runner.

`components` in `PROJECT.json` has the reason for each.

## 8. Plan

The order follows how much depends on a part: time and interrupts first, then what
they drive, then the edges.

1. Done: PPU timing, NMI and their proofs; the APU with all kinds of channels; IRQ;
   bus cycles of the instructions with their proofs; rendering with pixels; cartridge
   from file to VRAM address; CPU operations and the proofs of their arithmetic; every
   audio output with a queue or a clock, with proofs of two; input, start and end.
2. Done: an inductive invariant and its theorems for every module; the three
   twins; the refinements; the chains of bytes with calls and interrupts among them; the picture and its
   independence of the batches.
3. Next: the data port's read buffer and OAMDATA, with `PpuMemory` and `PpuRender`
   composed, so that a program's writes to video memory become a picture.
