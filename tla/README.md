# NiceTop OS: models, checks and proofs

NiceTop OS is a small 32-bit kernel: one program, `kernel_main`, that brings the
machine up and then runs a shell for ever, interrupted by the timer and the keyboard.
There are no processes. What can go wrong is therefore of three kinds: long sequences
of calls that wear down a data structure (heap, file table, editor), an interrupt
handler running between two statements of the main program (keyboard, text screen), and
hardware that writes the same memory or runs at its own pace (network card, interrupt controllers).
The modules here model these parts from the source under `kernel/`; TLC checks them on
small instances, and TLAPS proves the safety of the heap, the file table, the shell, the
command line, the keyboard driver, the interrupt path and the card driver for every
instance.

File names below are relative to `kernel/`.

## Inventory

| Part | State | Operations | What makes it correct |
|---|---|---|---|
| Heap `heap.c` | the list at `heap_head` inside 1 MB, `heap_current` | `kmalloc`, `kfree`, `heap_stats`, `kmalloc_a` (+ two wrappers) | blocks cover the heap, no two share a byte, free neighbours are merged, a grant is aligned and long enough, nothing is refused that would fit |
| File table `vfs.c` | 64 slots `files[]`, contents in heap blocks | `vfs_init/create/open/write/read/delete/list` | one block per content and one owner per block; a call touches one file; names are unique |
| Shell and editor `kernel.c` | command line; `edit_buffer`, `edit_pos`, `cmd_buf`, `current_line` | one `if` per command; two key modes in the editor | a file reads as last saved; buffers are not overrun; reports are true |
| Command line `kernel.c` | `command_buffer`, `cmd_pos`, `cursor_x`, `line_y`, the prompt's row of the screen | printable, backspace, Tab, Enter with its commands | the line stays in its 256 bytes; the row shows what Enter will run; completions are right; the prompt stays on the screen |
| Keyboard `drivers/keyboard.c` | ring of 256 keys, `shift_pressed`, the controller's one-byte buffer | IRQ1 handler, `keyboard_poll/available/getchar` | no stale key is read, no buffered key is left, polling keeps order |
| Interrupts `irq.c`, `idt.c`, `arch/x86_64/isr.asm` | gates, `interrupt_handlers`, stack, 8259 registers | boot steps, stubs, `irq_handler`, `isr_handler` | every vector has a gate, contexts are restored, no line stays blocked, the line's handler runs |
| Timer `drivers/timer.c` | `tick` | handler, `timer_init` | its line is served |
| Network card `drivers/e1000.c` | two descriptor rings, `tx_cur`, `rx_cur`, card registers | `e1000_driver_init/send/receive` | packets whole, in order, reports true; reception never stands still |
| Network `net.c`, `pci.c` | interface addresses; three `net_initialized` flags in `kernel.c` | `net_init`, `net_ping`, `net_http_get`, address conversions | the driver is brought up once; packets that leave have right checksums and the card's address |
| Text screen `drivers/vga.c` | display memory, `vga_row`, `vga_column`, the display controller's index and cursor registers | `vga_putchar` from the main program and from the keyboard handler | the screen shows what was written; the position stays on it |
| Framebuffer and serial `drivers/framebuffer.c`, `serial.c` | pixels | drawing | output only |
| Start-up `boot.asm`, `gdt.c`, `multiboot2.c` | the loader's tags, `fb_info`, descriptor tables | walk over the tags, choice of screen, straight-line set-up | every tag is seen |
| `disabled/memory/*` | | | not compiled by the Makefile |

How the parts interact: the shell is the only caller of the file table, the file table
and the card driver are the only callers of the heap, and no interrupt handler calls
either, so calls into heap and file table never overlap. The keyboard handler and the
main loop share the ring and the controller's data port with no lock. The driver and
the card share the rings through the head and tail registers. The keyboard handler
echoes keys through the same `vga_putchar` as the main program. The dispatcher of
`irq.c` stands between every line and its handler.

The behaviours that are hard to test are listed, each at its line, under `hazards` in
`PROJECT.json`, with the properties that cover them.

## Modules

| Module | Models | Built on |
|---|---|---|
| `HeapBlocks` | the list operations of `heap.c` as operators on sequences of blocks | |
| `Heap` | the calls as actions, with what the callers hold | `HeapBlocks` |
| `Allocator`, `HeapRefinement` | what `kmalloc`/`kfree` promise; the mapping of `Heap` onto it | |
| `HeapBlocksProofs` | lemmas about block lists, sums over them and a free block that must be there | `HeapBlocks` |
| `HeapProofs` | the heap's invariants and the refinement, proved | `HeapRefinement`, `HeapBlocksProofs` |
| `VFS` | `vfs.c` over the block list | `HeapBlocks` |
| `FileStore`, `VFSRefinement` | the map from names to contents that the table promises | `VFS` |
| `VFSProofs` | the table's invariants and the refinement, proved | `VFSRefinement`, `HeapBlocksProofs` |
| `FileCommands` | what save, `wget` and `rm` do with a file by name | `VFS` |
| `Shell` | `touch`, `rm`, `wget`, `edit` and the editor's keys | `FileCommands` |
| `CommandLine` | typing, backspace, Tab, Enter and every command, with the prompt's row | `FileCommands` |
| `ShellProofs`, `CommandLineProofs` | the invariants of both, proved | `Shell` or `CommandLine`, `VFSProofs` |
| `Keyboard` | `keyboard.c`, statement by statement where the handler can come between | |
| `Interrupts` | `irq.c`, `idt.c`, `isr.asm`, boot order, the two 8259 controllers | |
| `E1000` | `e1000.c` and the three commands that initialise it, with the card | |
| `ConsoleProofs` | the safety of the keyboard driver and of the text screen at boot, proved | `Keyboard`, `Boot` |
| `InterruptsProofs` | the safety of the interrupt path, proved | `Interrupts` |
| `NetPackets` | the address conversions, the checksum and the headers of `net.c` | |
| `Network` | `net_init` and `net_ping` over the driver | `E1000`, `NetPackets` |
| `NetworkProofs` | the safety of the card's rings and of the packets on them, proved | `Network` |
| `VgaText` | `vga.c`, one whole call at a time, and the sheet of text it should show | |
| `Boot` | `multiboot2.c`, the choice of screen, and `vga.c` access by access under the handler's echo | `VgaText` |
| `MC*` | values of the constants for one run each | the module named |

How state and actions correspond to the code:

- **Heap.** A list node is a record of its address and fields; `next` is the next
  position of the sequence. `Taken` is the body of the first-fit branch, `Freed` the two
  merges of `kfree` in their order. `size_t` arithmetic is modulo `WORD`. `live` and
  `pages` are history variables for what callers hold. `kfree` is only called with
  pointers that `kmalloc` returned, as `vfs.c` does.
- **File table.** A state `[files, blocks, mem]` goes through the functions of `vfs.c`;
  `mem` says which content was last copied behind a pointer. Contents are values with a
  size; names are values with a `Stored` form, which is what 31 characters keep of them.
  `vfs_write` frees first and keeps the old size when no memory is found, as the code does.
- **Shell.** One step is one command line, or one key inside the editor. Texts are
  sequences of two characters, an ordinary one and a newline. `saved` is a history
  variable: what was last written to each file.
- **Command line.** A step is one key. Characters are one-letter strings and names are
  sequences of them, because completion compares them one by one. `row` is the screen
  behind the prompt in cells of eight pixels; a completion erases the partial word in
  front of the cursor and draws the whole line anew from cell 1, as the code does. Output
  is counted in rows of 20 pixels. A command is one step with the rows it takes and what
  it does to the files; an editor session is one step that saves some content or none
  (`Shell` has its keys). A line that has outgrown the buffer takes no further key: what
  lies behind the buffer is the compiler's choice.
- **Keyboard.** The Makefile sets no optimisation level, so each statement of the main
  loop loads and stores the static variables; each is a step. The handler runs with
  interrupts off and is one step. Whether it runs at all on IRQ1 is left open
  (`setup.runs`), because the dispatcher reads its line number from the wrong place; for
  the same reason it may run on an interrupt of another line (`Stray`), where it reads the
  data port without looking at the status and decodes the old byte again. `MaxBytes`
  bounds those interrupts by the keys that were returned.
  `setup` is chosen once, at the start: which bytes are typed, whether the handler may
  run, and whether `keyboard_getchar` is called only after `keyboard_available`.
- **Interrupts.** `stack` holds what the CPU and the stubs push; `Stub`, the handler
  steps, `Unstack`, `Sti` and `Iret` are the stub's stretches between which something can
  change. The handlers' argument is never pushed, so `regs->int_no` is an arbitrary word:
  `int_no' \in Words`, and words past the table may reach a wild address (`lost`).
- **E1000.** A transmit descriptor carries the packet whose bytes are in its buffer and
  the packet whose length is in its length field, so a torn packet would show. Commands
  run `net_init` under their own flag. The card owns descriptors from head up to tail.
- **Network.** `net_init` and `net_ping` are the driver's bring-up and copy steps with the
  interface and the packet added; `frames[k]` is the packet `E1000` counts as its `k`-th,
  made for the address `Typed[k]`. A header is its bytes in the order of memory, so the
  checksum is summed here in this machine's byte order and verified in the network's.
- **Text screen.** Without optimisation every expression that names `vga_row` or
  `vga_column` loads or stores it: each access of the main program is a step, each
  `outb` of `update_cursor` is one, and the handler's echo is one step between any two.
  `sheet` is the text put on the screen since it was cleared, laid out by the
  abstract `Write` without a screen, a position or a scroll; `met` holds the places
  inside a call where an echo came in. `Placed` is what a loader does: each tag at the
  next multiple of eight, and the end tag last. `TagAt` reads a tag where the loader put
  one and the walk reads nothing defined anywhere else. The main program writes to this screen
  only its message that there is no framebuffer; with one, the echo still writes to text
  memory that is not displayed. `vga_init` sets the position and leaves the cells and the
  display controller alone, so `PoweredOn` is a set of screens: the cursor may stand
  anywhere until the first `update_cursor`.

Every module also holds, next to the definitions of the code, variants marked "seeded
fault": the definition with a plausible bug in it. Each property was seen to fail with
one of them; `mutants` in `PROJECT.json` says which.

## Runs

| Run | Bounds | Shows |
|---|---|---|
| `heap` | 96-byte heap, requests 0, 6, 20, 68, two page grants | list shape, grants, statistics, refusals, refinement of `Allocator` |
| `vfs` | 3 slots, 3 names, sizes 3, 14, 40, 61 in a 108-byte heap | ownership, content and its zero inside the block, one file at a time, refinement of `FileStore` |
| `vfs_long_names` | the same with names that are cut | **violated:** `UniqueNames` |
| `shell` | 2 slots, 3 names, texts of up to 6 characters, 2 command characters | saved texts stay readable, buffers fit, line numbers, writes find memory |
| `command_line` | buffer of 9, rows of 9 cells, 3 names, the beginnings of 14 lines | row and line agree, completions are right, one way out of the buffer |
| `keyboard` | ring of 3, 4 bytes; handler found or not, or run for another line, with letters, or not run with all six kinds of bytes | stale slots, blocking, draining; order and shift state of what is polled |
| `keyboard_add` | ring of 3, 3 bytes | **violated:** `AddedKeyIsBuffered` |
| `interrupts` | lines 0, 1, 12; faults 0 and 13; five words | gates, context, controllers, timer line |
| `irq_handler` | the same | **violated:** `HandlerOfLineRuns` |
| `network` | rings of 3, 6 packets to 6 addresses, 5 frames, ping only | whole packets in order, true reports, frames once, no standstill; checksums, sender, logged address |
| `net_first_use` | the same with ping, ifconfig and wget | **violated:** `InitOnFirstUse` |
| `boot` | screen of 2 rows of 3, 3 keys of 4 kinds, 3 tag lists or none | the screen shows the text and the position is true, except where the handler meets one window; every tag is seen |

Why the bounds are enough to see the interesting cases: the heap of 96 bytes holds
three blocks, so both merges, both split outcomes, refusals and the swallowing of a
block between two others all occur. The file heap holds two or three contents, so
writes reuse the file's own block, split another and fail. The ring of three wraps and
fills. The card rings of three wrap twice, and enough sends can time out to bring the
tail back to the head. The shell's heap is as roomy for its files as the kernel's
megabyte is for 64 files of 4 KB; without that ratio `WritesNeverFail` would be false.
The command line's names contain one another and one completes past the end of the
buffer; with a height of 150 the prompt reaches the bottom margin after one command. The
text screen wraps after three characters and scrolls at the second newline; three keys
are one to bring it to the bottom and two to meet the main program. The tag sizes 9 and
38 are not multiples of eight. The addresses make a header sum carry twice
(240.13.240.14), an octet run over (10.300), and cover zeros inside and in front of a
number. Lines 0 and 1 belong to the first controller and 12 to the second, and the words make
the dispatcher hit, miss, confuse the controllers and leave its table.

The four violated properties are each a sentence of the source's own comments; the
findings in `PROJECT.json` quote them.

Some properties hold for a reason worth knowing. `NoStaleKeyReadable` survives every
interleaving although keys are lost (`keyboard_add`): the main loop's late store
sets `buffer_end` to the position just behind a slot that has been filled, so what it
cuts off is lost and nothing unfilled is exposed. `ContextRestored` holds
with `sti` in front of `iret` because the processor takes no interrupt directly
after `sti`. `ChecksumsVerify` holds although the kernel sums words in the wrong byte
order, because a one's complement sum commutes with swapping bytes. `SourceIsCard` holds
although a failed `net_init` sets a fallback address, because `ping` tries again until
one succeeds and the driver has no rings to send from before. `CursorTrue` and
`OverrunOnlyByFileName` are the exact edge of two defects: the position does leave the
screen, but only when a key arrives between an increment and its test, and a line does
leave its buffer, but only by a completed file name. `CursorTrue` speaks of the blinking
cursor only once `update_cursor` has run (`CursorSent`): before that it stands where the
loader left it, since `vga_init` does not move it.

Runs that check deadlock off: `network` and `net_first_use` stop when their bounded
packets and frames are used up, `interrupts` and `irq_handler` when the kernel has
panicked or jumped to a wild address, `boot` when the message is out and no key is left,
`command_line` when a line has outgrown its buffer.

Of the type invariants, those of the heap and the command line (which includes the file
table's) are checked in the runs; those of `Shell`, `Keyboard`, `E1000` and `Interrupts`
are proved (`ShellTyped`, `KeyboardTypeOK`, `E1000TypeOK`, `InterruptsTypeOK`).

Three hypotheses of theorems are assumptions of the modules that the runs check, so TLC
evaluates them there: `NoWrap` in `MCHeap`, `ShortNames` and `DefaultsWritten` in `MCVFS`,
`NoSpaces` in `MCCommandLine`.

### Fairness

`Keyboard` assumes that the processor keeps executing the main loop (`WF(Main)`) and
takes a latched interrupt some time (`WF(Interrupt)`): the loop runs with interrupts
enabled except inside a handler. In `hlt` the timer's 100 Hz interrupt wakes it, which is
part of `Main`. Nothing is assumed of the keyboard. `Interrupts` assumes the processor
goes on through boot, delivery and the stubs; devices and faults are free to come or
not. The other modules state safety only.

## Proofs

A theorem here holds for every value of the constants that satisfies the named
assumptions of its module: any heap geometry with start, size and header multiples of
four, any number of slots, any names and contents, rings of any size, any lines and
words. A hypothesis beyond these stands in the theorem itself as `ASSUME`. None of the
properties is inductive alone; what follows is, for each part, what had to be added.

**Heap** (`HeapBlocksProofs`, `HeapProofs`).
`HeapInv` is typed lists, tiling, coalescing, alignment, and `live` naming exactly the
used blocks with grants long enough. That a merge keeps the tiling needs that neighbours
touch, that one merge on each side is enough needs that nothing was left to merge before,
and that `kfree` finds its block needs that the held pointers are the used blocks. From
it: `HeapTypeOK`, `HeapTiled`, `HeapCoalesced`, `HeapHeld`, `HeapCovers`, `HeapAligned`
and the action property `HeapHeldBlocksStay`. In `HeapRefusesOnlyWhenFull`
a run of bytes outside the held blocks lies in one free block, because coalescing has left
no two side by side (`RunFitsBlock`); `HeapStatsExact` follows the sums of
`heap_stats` along the list, by induction over the natural numbers stated with sets
(`NatInductive`), the form that needs no operator parameter. `HeapImplementsAllocator`
maps every step of the list to a grant, a return or no step of `Allocator`, under
`NoWrap`: no request lies within three of the word size, where rounding up would wrap to
nothing.

**File table** (`VFSProofs`).
`StateOK` says of a state `[files, blocks, mem]` that the list is well formed and
coalesced and that the slots with data and the used blocks correspond one to one, each
block long enough for the content behind it and a zero. It is a property of a state and
not of a step, because `vfs_write` passes through a state in which the file has given its
block back (`Detached`) and one in which it has another (`Attached`); both are shown to keep it, and
so is each step of the fold over the default files at boot. From it: `VFSTypeOK`,
`VFSOneOwner`, `VFSContent` and the action property `VFSOneFileAtATime`.
`VFSImplementsFileStore` and `VFSUniqueNames` are under `ShortNames` (no name is cut at 31
characters; with cut names the run `vfs_long_names` shows two files of one name) and, the
first, under `DefaultsWritten` (the files written at boot fit).

**Shell and editor** (`ShellProofs`).
All rests on `WritesNeverFail`: as long as no write has been refused, a file without data
is an empty file, and the text the editor loads is one that was saved. That no write is
refused is counting. No used block is longer than the largest request and the slack that
splitting leaves (`SmallBlocks`); after `vfs_write` has freed the old block there are
fewer than `MAX_FILES` used ones; coalescing leaves at most one gap more than blocks; so if no gap
were large enough the heap would be smaller than it is. The assumption is
`RoomForFiles`, an inequality between constants. For the kernel (64 files of
4096 bytes, 12-byte headers) the need is under 530,000 of 1,048,576 bytes; in the `shell`
run it is 88 of 108. From the invariant: `ShellTyped`, `ShellEditFits`,
`ShellLineNumber`, `ShellWritesNeverFail`, and under `ShortNames` `ShellSavedReadable`.

**Command line** (`CommandLineProofs`).
`LineInv` adds to the file table's invariant that the row shows the line from cell 0 or 1
on and blanks behind it. A completion erases the partial word before the cursor and draws
from cell 1, which may be one cell off; the proof goes through because a completed line
is never shorter than the line it replaces, so the drawing covers what the erasing left.
From it: `LineTypes` (the prompt stays on every screen at least 150 pixels high),
`LineTextAtCursor` and `LineOverrun`. The assumptions are those of `LineParameters`: the
buffer holds the longest command name (8 characters), and names and lines are printable.
`LineCompletion` is under `NoSpaces`: that a second Tab changes nothing needs that the
completed word holds no space, and `touch` accepts names with spaces. The same
observation shaped `OverrunOnlyByFileName`, which says that some tail of the line behind a
space names a file and not that the last word does.

**Card driver** (`NetworkProofs`).
`E1000Inv` describes both rings from their heads: from the card's next descriptor to
transmit on, and from the driver's next frame to read on, the descriptors hold
consecutive numbers, as many as the indices are apart, and the descriptor in the middle
of being filled is known from the place in the driver. It holds until the driver is
brought up a second time, whatever commands are given (`E1000UntilSecondInit`): a second
bring-up starts new rings under packets in flight, and `net_first_use` shows that the
code does it as soon as two different commands use the network. `E1000WholePackets`,
`E1000SentWasSent`, `E1000FramesInOrder` and `E1000NeverWedges` are for one command
(`OneCommand`), the case of the `network` run. They are
about the specification of `E1000`, and `NetworkImplementsDriver` shows that pings and
set-ups make no step outside it.

**Network** (`NetworkProofs`).
`net_checksum` and both address conversions run over a sequence of terms. The recursion
is a function defined inside `Accumulated`; `AccumulatedRuns` gives its first values and
the step from each to the next, by induction stated with sets, and the rest follows that
table. Adding the words in this machine's order is 256 times adding them in network order
but for multiples of 65535 (`Match`, kept byte by byte in `SumsAgree`), and folding the
carries twice leaves 16 bits and the same remainder (`FoldedKeeps`); so a header of any
content up to 65,000 bytes verifies, if its checksum stands at an even place
(`ChecksumVerifies`). For addresses, `BitsOf` puts eight bits together again and
`DecimalReads` shows that digits without a leading zero come back from the number they
make (`AddressReads`). `PacketInv` says that every packet built verifies and that no
descriptor or transmission names a packet that was not built, which gives
`NetworkChecksums` and `NetworkLoggedAsTyped` for any commands, failures and timeouts.
`SourceInv` adds that while the rings exist the interface has the card's address; it is
kept because one command never sets up again after a success (`NetworkSourceIsCard`,
under `OneCommand`).

**Keyboard** (`ConsoleProofs`).
`RingInv` says that every slot from `buffer_start` up to `buffer_end` has been written
since it was last read, also while `keyboard_available` is between computing `next` and
storing it: its late store sets `buffer_end` just behind a slot that has been filled, so
keys may be lost but no old one shows. From it: `KeyboardTypeOK`, `KeyboardNoStaleKey`,
`KeyboardNeverBlocks`. `PolledInv` is about the main loop without the handler: what was
returned, what stands in the ring and the shift state are the decoding of a beginning of
the bytes sent (`KeyboardPolledInOrder`).

**Interrupts** (`InterruptsProofs`).
Interrupts are enabled only in `kernel_main` and in the instruction behind the stub's
`sti`, where the processor takes none. So a request or a fault always finds an empty
stack, and each place in a handler knows the whole stack (`StackInv`), the registers
(`CpuInv`), which gates are set (`GateInv`) and which lines are in service (`ServiceInv`). From it:
`InterruptsTypeOK`, `InterruptsGateReady`, `InterruptsContextRestored`,
`InterruptsMasterReleased`.

**Text screen and boot** (`ConsoleProofs`).
`PlaceInv` (`RowInv`, `ColInv`, `CursorInv`) says that `vga_row` and `vga_column` are on
the screen except one increment ahead of the test that brings them back, and that only an
echo that met the main program inside a call can break this; the hardware cursor then
shows the position that the main program last sent (`BootCursorTrue`). Of the cursor the
invariant says nothing between calls until one was sent (`CursorSent`). For the text,
`CallInv` looks at the screen as it will be when the call under way ends (`OutcomeOf`)
and says that this screen shows the sheet. Each access within a call keeps it, also
through the middle of a scroll (`PartlyScrolled`), where the screen by itself shows
nothing that was ever written; only the step that stores the character changes the sheet,
and `LaidShows` relates `vga_putchar` to the abstract `Write` there. An echo that comes between two
calls is a whole call. From it `BootScreenShowsText`, for every size of screen, message
and sequence of keys. `WalkInv` says that the tag walker stands on a tag and has taken
the width from those before it; the tags ascend and `StepLands` shows that the aligned
step leads from one to the next (`BootEveryTagSeen`, under `WidthsGiven`: a framebuffer
that a loader announces has a width). `BootTypes` is the type invariant.

Before being proved, `KeyboardInv` and `InterruptsInv`, the parts of the boot invariant and
those of `PacketInv` and `SourceInv` were checked by TLC (7,194,964 states with 6 bytes and
1,464,417 with 5 for the two keyboard setups, 7,304 for interrupts, 494,600 for boot, 32,917
for the network).

Only model-checked:

- Liveness (`RingDrains`, `PolledEventually`, `TimerServed`): TLAPS has no rule here for
  fairness with `ENABLED`.
- What the four expected violations show.


## What is not modelled, and why

- Colours, glyphs, pixels, the screens of `top` and the editor, panic texts and the
  serial line: output that nothing reads. What the user acts on is modelled: the prompt's
  row, the text screen, the editor's line number.
- `net_set_ip` and `net_receive_packet` have no caller; `net_http_get` is a fixed answer,
  an input of `Shell` and `CommandLine`. An address with more than three dots shifts by a
  negative count, which is undefined.
- That addresses and the length leave in the machine's byte order (10.0.2.15 as 15.2.0.10)
  is in the bytes of `IpHeader`; recorded as a hazard, since nothing here receives them.
- The scan of the PCI bus, `gdt.c`, `boot.asm`: straight-line port and table writes.
- `vga_putchar` interrupted by the handler inside the handler cannot happen: the handler
  runs with interrupts off. The main program's own `keyboard_getchar` echo goes to the
  text memory too, in framebuffer mode only, where it is not displayed.
- `disabled/memory`: the Makefile does not compile it.
- The overlap of the heap with the kernel image at 1 MB: a matter of the linked layout;
  recorded as a hazard. `kmalloc_a` overlapping `kmalloc`: it has no caller.
- Failing allocations while the card is brought up: three sets of rings and 64 full files
  need about 660 KB of the 1 MB, so they do not fail.
- A fault inside an interrupt handler, and spurious interrupts of the controllers.
- `e1000_driver_receive` has no caller in the kernel; it is modelled for a caller that
  saw `net_init` succeed.

## Plan

1. Done: the models and runs of every part above.
2. Done: the proofs of heap, file table, shell, command line, keyboard, interrupts, card
   driver, packets, text screen and boot: every invariant and action property of the
   passing runs.
3. Left: a property of what the screen's cells show after an echo inside a call.
