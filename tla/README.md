# droid99: specifications and proofs

droid99 is a TI-99/4A emulator for Android: a native core (`src/jni`, C) that
emulates the TMS9900 processor and its peripherals, and a Java shell
(`src/src/com/emllabs/droid99`) with the activity, the renderer, the sound and a
socket debugger. Several threads work on one native machine that has almost no
locks, and that is where most of its difficulty lies. This directory models it
in TLA+, checks the models with TLC and proves the main properties with TLAPS.

Source files are named below without their directories.

## 1. The system

### Threads

| thread | code | what it does to the shared state |
|---|---|---|
| simulator | `TI99Simulator.run` | executes instructions in slices (`RunCPU`) and single steps (`StepCPU`); traps to the debugger |
| UI | `And99Activity`, `MyGLSurfaceView`, `SettingsActivity` | posts key changes; pauses, continues, saves, restores, resets |
| debugger | `SocketDebugBridge.run` | breaks, continues, steps, saves, restores; runs Lua code |
| renderer | `MyRenderer.onDrawFrame` | reads the VDP memory, raises the vertical interrupt |
| sound | `TISoundGenerator.run` | consumes the queue of sound register changes |

They meet at `breakLock` with `debugBreak` (Java), at `keyboard.lock` (C), at the
sound generator's `waitLock` and lock-free queue, and otherwise at plain,
unsynchronised fields of `struct TMS9900` and of the VDP and GROM structures.

### Components

| component | state | operations | interacts with | what is hard |
|---|---|---|---|---|
| keyboard matrix and queue (`tms9900-core.c`) | `keys[8]`, `data[3][3]`, `queued`, `lock` | `TMS9900_Keyboard`, drain in `StepCPU`, `Reset` | UI thread, executing threads | bounded queue, order of events, reset without the lock |
| touch and hardware input (`MyGLSurfaceView`, joystick of `And99Activity`) | three one-shot modifier latches | `onTouchEvent`, `onKeyDown`, `onKeyUp` | up to three posts per touch | modifiers left pressed, instructions between the posts of a chord |
| vertical interrupt (`tms9900-core.c`, `TMS9900JNI.c`) | `interrupt`, `vdp_int`, PC, WP, ST, frame at >83C0 | `VDPInterrupt`, `TMS9900_Interrupt`, LIMI, TB, RTWP | renderer, console ROM | one frame, no mask change, two unordered flags |
| run control (`TI99Simulator`, `And99Activity`, `SocketDebugBridge`) | `debugBreak`, `breakLock`, `mPaused`, `debugger`, `out`, `contLoop`, `exception` | `breakCPU`, `continueCPU`, `reset`, `run`, `trap`, commands | all threads | lost wake-ups, check-then-act, null references, undone breaks |
| CPU instructions (`tms9900-core.c`) | registers, `cycles`, `icount` | 69 instructions, addressing modes, status bits | memory, CRU | 8- and 16-bit edges of flags, shifts, division |
| memory map (`tms9900-memory.c`, `external_*`) | RAM, expansion, cartridge, peripheral ROM | read and write, byte and word | ports, controller | byte order, odd addresses, WR against REGADDR |
| trace and replay (`tms9900-core.c`) | trace file, `next_event`, `icount` | record, `read_replay` | interrupts, keyboard | equal `icount`s, state not in the record |
| floppy controller (`ti99-fdc.c`) | registers, sector buffer, `bp`, `blen`, `wp`, image | commands, data register | snapshot, peripheral ROM | positions, no range test, no image |
| snapshot (`SaveImage`, `LoadImage`) | `image.dat`, `floppy.dsk` | save, restore | everything | taken from a running machine, partial files, what is not saved |
| VDP and GROM ports (`TMS9900JNI.c`) | addresses, latches, VDP registers | two-byte writes, auto-increment | renderer | latches reset by some accesses only, wrap of addresses |
| sound (`TMS9900JNI.c`, `TISoundGenerator`) | registers, work queue, sample clock | register writes, `generateSamples` | simulator thread, sound thread | rounding of time, ahead and behind real time |
| Lua bridge (`tms9900-lua.c`) | `lua_State`, trace flags | execute, callbacks | debugger and simulator threads | one stack, two threads, failing callbacks |
| renderer drawing, settings screen, bootstrap | UI | | | I/O only |

Vendored LuaJIT, ROM images, resources and the generated `opcodes.h` are left aside.

What makes each part correct: the *keyboard* shows the program what the user did,
in order, and loses nothing; *input* leaves no modifier behind and never shows
half a chord as another key; an *interrupt* is taken once, not inside itself, is
acknowledged, and leaves the program as it was; *run control* stops what it is
told to stop within a bound, wakes what it is told to continue, and keeps the
sound with the CPU; *replay* takes the path that was recorded; the *controller*
reads back what was written and stays inside the image; a *snapshot* restored is
the machine that was saved; *ports* form the address from the two bytes last
written; *memory* reads back what was stored; *sound* plays what the program told
each generator last; an *instruction* leaves the numbers and flags that the
instructions after it rely on, and takes exactly its own words.

## 2. Modules

| module | role |
|---|---|
| `KeyQueue` | the native keyboard: posts, drains by several threads, reset |
| `TouchInput` | extends `KeyQueue` with the UI handlers that post to it |
| `Preemption` | what an interrupt promises to the program it interrupts |
| `Interrupts` | the vertical interrupt, from the renderer's stores to RTWP, and the refinement mapping to `Preemption` |
| `RunControl` | the four threads that start, stop and step the CPU |
| `Alu` | arithmetic, shifts and status bits, as operators for numbers below any even modulus |
| `Cpu` | the instructions, over ROM, scratchpad and CRU |
| `MemoryMap` | the memory expansion, and the exception of an address nothing answers |
| `Vdp`, `Grom`, `Sound` | the ports behind the memory map |
| `Devices` | the memory map with all of them, under reset, save and restore |
| `SectorStore` | what a floppy controller promises: sectors with contents |
| `Disk` | the floppy controller, and the refinement mapping to `SectorStore` |
| `Storage` | the controller in a process that saves, restores and is killed |
| `TraceReplay` | the recording of a session and its replay |
| `MC*` with their `.cfg` | instances for TLC |
| `*Proofs` | theorems about `KeyQueue`, `TouchInput`, `Interrupts`, `RunControl`, `Cpu`, `Devices`, `Storage`, `TraceReplay` |

`TouchInput` composes input with the queue: its handlers leave their posts in
`outbox`, so that instructions, drains and other threads fall between them, and
`TouchImplementsQueue` proves that to the queue it is nothing but `KeyQueue`'s
abstract environment. `KeyQueue` is thus the specification the input handlers
implement.

### KeyQueue

`Post` is `TMS9900_Keyboard`: the state is inverted, the event goes to slot
`queued`, under the lock. `Acquire`, `DrainOne` and `Release` are the drain at
the start of every `StepCPU`, for each thread that may execute instructions
(the simulator; the debugger, which single-steps without asking whether the
simulator is still running). `Reset` takes no lock. `StopStart` stands for
everything that makes `StepCPU` not be called or return at its exception test.
A fourth event and a reset during a drain are undefined behaviour in C; from
there on (`fault`) nothing more is said. The events are recorded as written in
the drain's trace record, which is in `TraceReplay`.

Two history variables make the properties sayable: `level` is the last change
the user made of each key since a reset, and `doubled` the keys that shared their
last batch with themselves, for which the newest-first drain is wrong.

### TouchInput

`TouchDown` and `TouchOther` are `onTouchEvent` for `ACTION_DOWN` and for every
other action, on a key that is not a modifier; `PressChanges` and
`ReleaseChanges` list the calls the handler makes, in order, with the early
return of an FCTN chord; `Consumed` says which latches a release clears.
`TouchModifier` sets a latch. `HwKey` stands for `onKeyDown`, `onKeyUp` and the
joystick buttons, which post at once; the posts of a touch wait in `outbox`.
`UiReset` is the settings dialog's reset. `Recreate` is the
rotation of the device: the manifest has no `configChanges`, so a new view with
clear latches replaces the old one. Which key is under the finger is a free
choice, so every slide, and every touch that ends off the keyboard, is included.

`HeldStaysLatched` compares what was posted with what is latched: between two
handlers, a modifier whose last posted change is a press (`level`) is in `latch`.
`foreign` excepts those that another than this view has pressed, a hardware key
or the view before the rotation, until they are released. A handler that clears a
latch without posting the release, in whatever order the latches and keys came,
breaks it.

### Interrupts

One `StepCPU` call is up to four steps: `TestInterrupt`, `Serve`
(`TMS9900_Interrupt`, which goes on to the instruction at >0900 in the same
call), one instruction, and for TB the separate read and clear of `vdp_int`
(`TestBit`, `ClearBit`). The renderer's `VDPInterrupt` is two stores that the
CPU may see in either order. `Tick` calls it only while `ticking`: the frame tests bit
>40 of VDP register 1 and that no replay runs, and `DoVDPInterrupt` that the machine is not
paused. The program and the user change these at any time (`SwitchTicking`), and between
the two stores nothing is tested. The console ROM's routine is external: it is known
to start with LIMI 0, to test CRU bit 2, to leave its mask and the frame at >83C0
alone and to end in RTWP in its own workspace. The main program may do anything
to PC, WP and ST.

`Preemption` is what an interrupt promises the program it stops: it is suspended
only when there is a request and its own mask allows it, once per request, and
goes on with the context it had. `Interrupts` implements it under `Preempted`:
the program's context (`Program`) is the frame at >83C0 while the routine runs,
and otherwise the registers of the machine.

### RunControl

Every thread has a program place (`sim`, `ui`, `dbg`, `gl`); `breakLock` is
explicit, and `breakCPU` and `continueCPU` are two steps each, so that what runs
without the lock (the native calls, the sound resumed by `reset`) falls between.
`wait` releases the lock, may wake for no reason, and is re-tested. The debugger
sets `attached`, then `out`, then breaks; the simulator reads `attached` twice; a
null reference sends `sim` to `dead`. `exception`, breakpoints and jumps to self
are choices of `EndRun`. `late` counts, for the last break, what was begun after
it. The pause of 10 ms in the Save and Load buttons is not a step: nothing makes
it long enough.

### Alu and Cpu

`Cpu` executes one fetched word per step: `Fetch` reads it, and one action per
family of instructions does what its case in `TMS9900_StepCPU` does, ending at the
common `Retire`. `Execute` (the X instruction) replaces the word instead, as the
code's `goto`. `AddressOf` gives the address of an operand and the machine
after locating it, because locating an operand advances PC or increments a register;
`Operands` does so twice, source first, before either is read; `OperandsRead` says which bytes
are, since reading one where no device answers (`Silent`) raises the exception too. `WR` and `RegAddr`
are the code's two ways to a register: an index into RAM, and an address of the memory
map. `StoreRam` past the end of RAM changes other fields of the structure, and a word
stored to nothing raises the exception: `cpu.stop` says which, and nothing is fetched
afterwards (`Stopped`). The CRU is what `CRU_write_bit`, `CRU_read_bit`, LDCR and STCR know: the
keyboard's column and matrix, the alpha lock, the card and its side.

The flags are those of the code where it is known to differ from the processor:
`StepStatus` and `SumStatus` have its carry tests (a subtraction is tested as if it
were a sum), `ShiftOverflows` its overflow of SLA (a shift of 16 shifts by -1: either
outcome), `Negated` and `Absolute` take the tests for >8000 to never succeed, because
the word is signed. `compared` is the comparison the flags stand for, and `frames`
are the contexts saved by BLWP; both are history.

Words and bytes have any size; bitwise operators, the decoding table and the ROM
are constants. Cycle counts are left out: they end a slice, which `RunControl` lets end
anywhere. An overflow of the `int` products in MPY and DIV is not modelled; the products
are taken as they come out with the wrapping arithmetic of the build.

### MemoryMap, Vdp, Grom, Sound, Devices

The two windows of the expansion, >2000 and >A000, count from the start of one array, so
a cell is a window and an offset, and two cells with one offset are one byte. `VdpSetAddress` and `GromSetAddress`
take one byte of a pair each, by a latch; the VDP's low byte comes first and the GROM's
high byte. `VdpData` and `GromData` are accesses that advance the address.
`GromReadAddress` has the second latch, `latch` of the file, which a reset does not
clear. `VdpReset`, `VdpSave` and `VdpLoad` (and the GROM's) are the device's part of
`ResetCPU`, `SaveImage` and `LoadImage`; `Devices` makes them one step each, for
all devices together. The first byte of a pair (`newaddress`) is in no image: `Torn` is
half an address whose other half belongs to the machine before. The contents of VDP
and GROM memory are left out. An index outside of an array
(`fault`) is undefined behaviour, and nothing is said after it.

`Sound` has the registers, the generator a second byte belongs to, `SetupSound` in its two
steps beside the running program, and the queue, which the sound thread takes changes
from at any time. A frequency is a set of bits, because the code joins its bytes
by `|=`. What the program *means* (`vdpSent`, `gromSent`, `meant`) is history.

A behaviour of `Devices` talks to one unit: they share nothing but the exception, the
reset and the image.

### SectorStore, Disk, Storage

`SectorStore` is abstract: `Name` chooses side, track and sector, `Load` delivers the content of the
sector they name and no other, `Open` begins to write that sector, `Send` adds a byte to the
sector being written, which has its new content with the last one and none (`Partial`)
until then. `Insert` replaces the disk while a write goes on; a sector that got its
bytes on two disks has no content either (`transfer.from`).

`Disk` is the code: `track`, `sector`, `data`, `side`, the buffer with `blen` and `bp`, the
count `wp` of bytes still to come and `idx`, where they go. Every command and register
is an action; the mapping takes `named` from the registers, so that a read of another
sector than the one they name is no step of the store. READ ID fills the first `IdSize` bytes of the
buffer (6 in the code). The bus is inverted, as in the code. No operand is tested: a `Place` that leaves the image is a
`fault`, one that stays inside may be a sector of another track, and `Sector` of the
abstract module says so too.

`Storage` puts the controller into the process. `OpenImage`, `OpenFloppy`,
`WriteFloppy` and `CloseImage` are the steps of `SaveImage` a kill can fall between:
`fopen` for writing truncates, and `image.dat` is closed last. Other threads go on
meanwhile (`Work`), since nothing makes the saving thread wait for the slice in
progress. `CreateCPU` reads `floppy.dsk` at the start, and `LoadImage` reads `image.dat`
and leaves the disk alone. Of the machine in the image only a counter is kept (`ram`);
it is copied in one step.

### TraceReplay

`RecordEvents` is the part of `StepCPU` before the fetch: it takes an interrupt, drains
the keys and writes the records; `RecordExecute` is the instruction. `ReplayEvents`
and `ReplayExecute` are the same with `replay` set. `VDPInterrupt` is two stores, as in
`Interrupts`. The program is any short one that reads its inputs by TB and by STCR.
`path` is what each recorded instruction saw. `unlike` is set by the three things the
trace cannot tell: two records of one `icount` (the replay takes one per
instruction), an interrupt taken before its `vdp_int`, and a bit test that sees `vdp_int`
before the interrupt. In each of these the replay may go another way; the properties say that there
are no others. A reset in the middle of a replay is left out.

## 3. Runs

| run | instance | result |
|---|---|---|
| `key_queue` | 2 keys, 2 executing threads, 3 slots | `TypeOK`, `MatrixTracksLevel`, `QueueDrains` hold |
| `touch_input` | 1 letter (screen and hardware), 3 modifiers, 1 thread, 3 slots | `TouchTypeOK`, `HeldStaysLatched`, `FctnCoversLetter` hold |
| `interrupts` | registers of 4 values, 2 workspaces, masks 0, 1, 2 | `TypeOK`, `NoNesting`, `ResumesInterrupted`, `ImplementsPreemption`, `TickSeen` hold; the frames raise ticks, and stop to, at any time |
| `run_control` | 4 threads, `cont 1` at most | `TypeOK`, `NoLostWakeup`, `RunningHasSound`, `BreakBoundsExecution`, `BreakParks`, `ContinueRuns` hold |
| `cpu` | words of 10 bits, bytes of 5; 9 routines, each from 256 contents of R1 to R4 | `CpuTypeOK`, `JumpsFollowComparison`, `OnBoundary`, `RoutinesCompute`, `ReturnRestores`, `TakesItsWords`, `BranchesLand`, `SumsSetFlags`, `ProductsAndQuotients` hold; its `ASSUME`s hold, `WellFormed` of the ROM with them |
| `devices` | bytes of 3 bits, 4 bytes per port, 2 accesses between addresses; 1 tone and 1 noise generator, 2 queued changes | `DevicesTypeOK`, `OneWindowReadsBack`, `VdpAddressAsSent`, `GromAddressAsSent`, `ReadPairsInOrder`, `SoundAsMeant` hold |
| `storage` | 2 sides, 2 tracks, 1 sector of 2 bytes; numbers 0 and 1; 2 writes begun | `DiskTypeOK`, `InTransfer`, `ReadsInOrder`, `ImplementsStore`, `RestoresSaved` hold |
| `trace_replay` | all programs of 2 instructions and the routine; 7 instructions, 2 ticks, 1 key change | `ReplayFollows`, `ReplayUsesTrace` hold |
| `queue_depth` | as `key_queue` | `QueueDepthAsserted` is violated |
| `key_bits` | as `key_queue` | `BitSetMeansReleased` is violated |
| `vdp_interrupt` | as `interrupts` | `InterruptIsVdp` is violated |
| `reset_paused` | as `run_control` | `ResetOnlyWhenPaused` is violated |

Why the bounds are enough. Keys do not influence each other in the matrix, so two
show all that an order of events can do; the queue has the depth of the code, so
that it is full and overflows; the second thread is what makes the lock matter.
One letter is enough for the latches, which are about a modifier and *a* key; that
it is also a hardware key interleaves the two sources. Registers of two bits have
a top bit to lose, and masks on both sides of the threshold 2. "cont 1" is the
smallest count that makes the trap continue by itself; a debugger that connects,
fails and connects again is included, since its places form a loop.

Words of 10 bits are the smallest with six flags above a four-bit mask, as ST has them;
their bytes of 5 bits keep the ratio of the code. The registers begin with 0, 1, the
sign bit and all ones, at the edges of every flag, in all combinations. The routines use all
instructions the code has a case for, IDLE for those it has none for, and all addressing
modes; they compute checkable results (sums and quotients of two words, a sort by both
orders, nested calls, a copy, changes that undo each other, a keyboard scan,
comparisons without a sign, reads where no device answers), so that a wrong flag or address shows in the end. Bytes of 3 bits give the VDP's address
register-name and address bits, and a last address to leave; the windows have one
and two words, so that they overlap in part. The queue of two is enough for a change to
overtake none and to follow another. Two sides and two tracks tell every factor of
the index apart, and number 1 is a track, and one sector too many. One
interrupt and one key change are enough for two records to meet; the second tick
makes an interrupt follow another.

Deadlock is checked in every run.

### What the violations show

* `QueueDepthAsserted`: the comment asks for an assertion that is not there.
  Four changes between two `StepCPU` calls (a paused or waiting CPU is enough) write
  past `data` into the mutex.
* `BitSetMeansReleased`: two opposite changes of one key in one batch are applied in the
  opposite order. The shortest traces post two changes before a drain: a release, as a
  finger that slides onto a key posts it, and then a press, after which the key is
  down and its bit set, so that the program sees it released; or a press and then a release,
  after which it is up and seen pressed. TLC reports whichever it meets first. Either lasts
  until the key is used again. `MatrixTracksLevel` says exactly
  when this does not happen, and is proved.
* `InterruptIsVdp`: replay presumes that an interrupt finds `vdp_int` set. It
  need not, and then replay takes a path that was not recorded.
* `ResetOnlyWhenPaused`: the settings dialog relies on the pause made before it,
  which a debugger can undo.

### Fairness

* `KeyQueue`: weak fairness of the drain as a whole. The executing threads are
  scheduled and call `StepCPU` in a loop; a thread leaves its critical section.
  No fairness on posts, resets or stops; the property excuses a CPU that is not
  running.
* `Interrupts`: weak fairness of the CPU, which loops for ever, and of the renderer, whose
  stores are made once begun; strong fairness of the routine's bit test and RTWP, that is, the ROM's
  routine terminates. That the main program enables interrupts again and again
  (`KeepsEnabling`), and that frames go on raising them (`KeepsTicking`), are
  hypotheses of `TickSeen`, not fairness conditions. The second is needed: an interrupt
  taken between the two stores finds no `vdp_int`, and if the display is blanked then, the
  `vdp_int` stored after it stays set with no interrupt to bring it to light.
* `RunControl`: weak fairness of the simulator thread and of every thread inside a
  critical section; strong fairness of the simulator's steps that need
  `breakLock` (the sections are a few instructions long, and users and clients
  slow) and of `StartRun` (real time passes, so `TooEarly` cannot be for ever).
  Nobody has to press a button or send a command.
* `Cpu`: weak fairness of the execution loop; no property uses it, it says that routines end.
* The other modules state safety only, and no fairness.

## 4. Proofs

For every value of the constants, from the `ASSUME`s of the modules (all of them
evaluated by the runs):

| theorem | states | argument |
|---|---|---|
| `KeyQueueProofs!TypeCorrect` | `TypeOK` | inductive as it stands |
| `KeyQueueProofs!MatrixTracksUser` | `MatrixTracksLevel` | `TrackInv` |
| `TouchInputProofs!TouchImplementsQueue` | `TouchSpec => Safety` of `KeyQueue` | step simulation, with `OwnTypeOK` |
| `TouchInputProofs!TouchKeepsMatrix` | `MatrixTracksLevel` | from the two above |
| `TouchInputProofs!NoModifierLeftBehind` | `HeldStaysLatched` | `HeldInv` |
| `TouchInputProofs!TouchTypeCorrect` | `TouchTypeOK` | inductive as it stands |
| `TouchInputProofs!ChordsAreRead` | `FctnCoversLetter` | `ChordInv`, `TrackInv` |
| `InterruptsProofs!TypeCorrect` | `TypeOK` | needs `AddressRoundTrip` on register arithmetic |
| `InterruptsProofs!InterruptsDoNotNest` | `NoNesting` | `ContextInv` |
| `InterruptsProofs!RoutineResumesProgram` | `ResumesInterrupted` | `ContextInv`, `AddressRoundTrip` |
| `InterruptsProofs!InterruptsAreTransparent` | `ImplementsPreemption` | step simulation, from `TypeOK`, `ContextInv` and `ServiceInv` |
| `RunControlProofs!TypeCorrect` | `TypeOK` | `LoopInv`: `sim = "dec"` finds `contLoop >= 0` |
| `RunControlProofs!WakeupsAreNotLost` | `NoLostWakeup` | `SectionInv` |
| `RunControlProofs!SoundFollowsCpu` | `RunningHasSound` | `SectionInv` |
| `RunControlProofs!BreakIsPrompt` | `BreakBoundsExecution` | `LateInv` |
| `DevicesProofs!VdpStandsAsSent` | `VdpAddressAsSent` | `VdpInv`: the image, too, agrees with what was sent before it |
| `DevicesProofs!GromStandsAsSent` | `GromAddressAsSent` | `GromInv` |
| `DevicesProofs!PairsAreRead` | `ReadPairsInOrder` | `GotInv` |
| `DevicesProofs!WindowReadsBack` | `OneWindowReadsBack` | inductive with the shape of memory |
| `DevicesProofs!SoundReachesPlayer` | `SoundAsMeant` | `SoundInv`: registers, the last change queued and the player, per generator |
| `DevicesProofs!DevicesTypeCorrect` | `DevicesTypeOK` | `VdpBounds`, `GromBounds`, and the invariants above |
| `CpuProofs!CpuTypeCorrect` | `CpuTypeOK` | `CpuInv`, and a lemma on every result and status |
| `CpuProofs!ComparisonsDecideJumps` | `JumpsFollowComparison` | `ComparedRight`, for any even modulus |
| `CpuProofs!InstructionsTakeTheirWords` | `TakesItsWords` | `CpuInv`; `AddressSkips`, `StoresStay`, and one lemma per family of instructions |
| `CpuProofs!ProgramsStayOnBoundary` | `WellFormed`, `BranchesLand` give `OnBoundary` | `BoundaryInv`, and the words each instruction takes |
| `CpuProofs!SumsTellTheNumbers` | `SumsSetFlags` | `SumTold`, for any even modulus |
| `CpuProofs!ProductsAndQuotientsAreWhole` | `ProductsAndQuotients` | `DividesRight`, `WholeProduct`, `PairReadsBack` |
| `CpuProofs!CallsCanReturn` | an action property of BLWP | `StatusReadsBack`, `SavedReadsBack` |
| `StorageProofs!TypeCorrect` | `DiskTypeOK` | `Typed` |
| `StorageProofs!WritesStayInSector` | `InTransfer` | `Transfer` |
| `StorageProofs!ReadsAreOrdered` | `ReadsInOrder` | `ReadBack` |
| `StorageProofs!SavedIsRestored` | `RestoresSaved` | `Backup` |
| `StorageProofs!DiskIsSectorStore` | `ImplementsStore` | step simulation from `Typed` and `Transfer` |
| `TraceReplayProofs!ReplayIsFollowed` | `ReplayFollows` | `TraceInv`: a run of the replay beside the recording |
| `TraceReplayProofs!TraceIsUsed` | `ReplayUsesTrace` | `TraceInv` |

*TrackInv.* `MatrixTracksLevel` speaks only of keys with nothing in the queue, so
a drain step cannot be shown to preserve it alone. Added are: the newest queued
event of a key carries its last posted state, and while a drain is in progress a key
that is not `doubled` has at most one event left. Then the last event drained for
such a key is its newest.

*HeldInv.* While a touch handler's posts are on their way, what is posted and what is
latched disagree: the latch is cleared before the release is posted, and a modifier
may be pressed by the first of three posts. The invariant says what the rest of `outbox` owes: a
press that is still to be posted is of a latched modifier, and a modifier that is down, not `foreign`
and not latched has its release still to come. It rests on `PressesAreLatched` and
`ConsumedIsReleased`: the changes of a handler press only what is latched, and release whatever
`Consumed` takes out of `latch`.

*ChordInv.* The letter of a chord is seen without FCTN only if the queue loses their order.
The invariant follows the order through the three places a change can be in. In `outbox`
the letter's press stands behind FCTN's, or FCTN is posted already; FCTN's release stands
behind the letter's, or the letter is released already; so in what has been posted (`level`) a
letter that is down has FCTN down. What has been posted and drained is `TrackInv`'s: the
matrix differs from `level` only by events still queued, and a letter drained before the
FCTN of its own batch is not visible to an instruction, since the batch is drained under the lock.

*ContextInv.* `NoNesting` holds although taking an interrupt does not lower
the mask, because the same `StepCPU` call executes the routine's LIMI 0 before the
next test. The invariant follows the mask through the routine (0 from the
LIMI on, so that no call is about to serve) and says that the frame holds the
interrupted context. `AddressRoundTrip` shows what the shifts lose: the top bit of
a word address, which no memory access uses.

*ServiceInv.* The program of `Preemption` is what the registers hold while no interrupt is taken,
and what the saved frame holds while one is: its address has lost a bit that no fetch looks at, and
this is the same loss in both. A call of `StepCPU` that has found an interrupt to serve has a
request, no routine in progress and a mask that allows one, though the test and the service are
two steps; with `ContextInv`, which keeps the frame, every step of the machine is then a step of
the abstract program, a request, a suspension, a resumption, or none of these.

*SectionInv.* A waiting simulator with `debugBreak` clear and no notification, or a
silent sound with `debugBreak` clear, is always the work of a `continueCPU` that is
between its two effects, and the lock is then held.

*LateInv.* The simulator tests `debugBreak` before every slice, so what it begins
after a break belongs to the turn that was under way; at each place of the turn the
counts say how much of it is still to come.

*VdpInv, GromInv.* An image is restored long after it was saved, so that
what holds of the running latch and address must be carried for the image too, together with the
history that was saved beside it; and the value of two bytes joined must be in
range for the latch to be compared.

*SoundInv.* Of several changes in the queue only the last of a generator counts, and the player
may be behind by all of them. For each generator that the program has told something, the
register holds it, the last change queued for the generator carries it, and if there is none the
player has it; a frequency of which only the first byte was sent is in the registers, not
in the queue. Nothing of this holds while `SetupSound` is between its steps, so it starts with
the callback. `SilentAssumption` (the silent level is one of the attenuations) is what the
initialisation of the code stores.

*CpuInv.* The types, with the CRU's: the column LDCR selects is a byte, which bounds what STCR
reads. Every instruction is a composition of reads, a result, a status and stores, and for each
there is a lemma that it stays in its width; those for which this is not plain are the quotient
(only because DIV tests the divisor against the high word first, `ProductsFit`), the rotation of
SRC and the shifts by a whole word (`ShiftsFit`), LIMI's mask within the low bits (`MaskFits`) and the
status as a word (`StatusIsWord`). `ComparedRight` says that the three flags the code computes from
signs and one difference are the unsigned and the signed order and equality, for numbers below any even
modulus; what keeps them, after that, is that every other step either leaves the flags the jumps
read alone or clears the history `compared` (`RetireKeeps`).

*Contexts.* BLWP stores three words and RTWP loads them. `NextRegister` follows the registers
around the end of the scratchpad to its beginning (it answers at several addresses), `SavedReadsBack`
shows that the three stay apart there, and `StatusReadsBack` that the status survives its packing.
`CallsCanReturn` says what holds of every BLWP of every program; that a *program* then leaves the
three registers alone and ends its routine in the right workspace is its own affair, and
`ReturnRestores` checks it of the routines of the run. A program counter with the top bit set
is excepted: R14 has no place for it.

*Sums, products and quotients.* The code computes the carry from a result that is already cut to
its width, the overflow from signs, and whether DIV may go ahead from one word of two. `SumTold` and
`DividesRight` say that these tests are the ones on the numbers themselves. MPY and DIV read their
operands from RAM and store their results through the memory map; `PairReadsBack` is that the second store does
not touch the first register, where the pair is the last and the first word of the scratchpad
too. Differences are not among them: S takes its carry as if it were A.

*Words.* `TakesItsWords` is the half of `OnBoundary` that does not depend on the program: an
instruction that does not branch moves the program counter by its own words and no others, even
when it is reached from X or lies across the end of the address space. `AddressSkips` counts the
words `AddressOf` skips for each mode, `StoresStay` shows that no store, of a byte, a word or a
register, moves the program counter, and each family of instructions combines the two.

*BoundaryInv.* The other half is of the program, and is split again. That each instruction in the
ROM is followed by one, and each jump led to one, can be read off the ROM: `WellFormed`, a formula
without variables, which the run evaluates as an `ASSUME` of `MCCpu`. Where a branch, a return or
X goes depends on registers: `BranchesLand`, which the run checks of its routines. From
the two, for any program, the program counter is never on an operand between instructions; the
invariant adds that the instruction in progress leads to one from where it is executed, which X
needs, since its operand is executed where X stands. An instruction during which the machine stops is excused, so it must
be known that no store lets a stopped machine go on (`GoesOn`).

*TraceInv.* A replay starts from the first machine and has only the trace, so the invariant
runs it beside the recording: two sequences, the replayed machine before and after the events of
each instruction (`Run`, `Fed`), of which it says that they exist. While recording, the
shadow sees what the recorded machine sees at every instruction, but may not know yet of a tick whose
interrupt has not been taken (`Lags`); no record is due later than the instruction in
progress, and no two have one `icount`. While replaying, the machine is the one in the sequence at
this `icount`, and `next` is the first record not used. That the sequences exist is proved step by
step: each recording step extends them, and a replay step keeps them.

*Transfer.* `idx` is not a function of the registers, which change while a write goes on. The
invariant ties it to the sector named at the beginning and to `wp`, says that the
count and the bytes sent make a sector, and that the sectors not torn hold what was
sent for them (`Written`). The refinement follows: a byte goes to exactly one sector of the abstract store,
by the arithmetic of `Place` and `Here`, proved for any geometry.

*ReadBack.* Behind the bytes read are the bytes of the buffer still to be read, so that
`bp` counts what was got. WRITE SECTOR leaves both alone, which is why reading on is harmless.

*Backup.* While a save is in progress and nothing else has happened, the file being written
agrees with the machine; once it is complete, `kept` is in the files until the next save
begins, through any number of kills and starts.

These assume the `ASSUME`s of the modules. Of `MemoryMap`, `Vdp`, `Grom`, `Disk` and `Storage`: sizes are
positive, a byte size is divisible by four (two bits of an address byte are not address),
a disk has two sides at least and sectors two bytes, and None, Partial and Garbage are no contents.
Of `TraceReplay`: a program has an instruction wherever one of its instructions can lead. Of `Cpu`:
a word is two bytes and has room for six flags above the mask; two to the power of a count is a
factor of the word's size (arithmetic the prover does not know: `^` has no theory there); the bitwise operators
give numbers of their operands' width; ROM, the bytes behind RAM, the devices and the key matrix
hold bytes and words, and the silent addresses are neither ROM nor scratchpad; the decoding table gives registers below 16 and counts no wider than a word, which are its
fields of the instruction word; the scratchpad has room for a context and its size is a factor of
the address space (256 of 65536). All are facts of the C types and of `RAM[256]`, and TLC
evaluates each on its instance; `MCCpu` computes the bitwise operators from tables of bytes so
that it can.

Only model-checked: of `cpu`, `RoutinesCompute`, `ReturnRestores` and `BranchesLand`, which speak of the
program in the ROM and hold of the routines of the run (`OnBoundary` is a theorem for those programs
that keep the last); the liveness properties
`QueueDrains`, `TickSeen`, `BreakParks` and `ContinueRuns` (liveness under fairness
is out of the prover's reach); and the violations, which are counterexamples. Every other
property of a run is a theorem.

## 5. Not modelled, and the plan

Left out of modelled parts:

* the memories of cartridge and disk card (>6000, >4000), which are only read, and the
  speech ports, which do nothing; the contents of VDP and GROM memory;
* cycle and instruction counts, the decoding of words (generated), and the status
  register of the controller, on none of which a state change here depends;
* the copy of the 266 bytes of the CPU in `SaveImage`, which instructions can overtake:
  `RunControl` shows that they can, and `Storage` what this does to the disk;
* the sound's sample clock (real time and rounding), and its noise generator, which the
  code ignores;
* a reset in the middle of a replay, and a trace cut short; the teardown of `DestroyCPU`,
  after which the process ends.

Not modelled: the Lua bridge, which hands values to an external library whose own state is
what two threads would damage; the drawing of the screen and the settings dialog (output of
state, no decisions of their own); formatting in the debug bridge; the application's
start-up (its result is `Init` of `RunControl`; its race with the sound is in `Sound`;
the moment in which the debugger thread runs before the sound is registered is left
out); LuaJIT, ROM images and the generated decode table.

What could be added: the records of `Storage` for the CPU's own part of an image; and a condition on
a program, like `WellFormed`, under which `ReturnRestores` is a theorem.
