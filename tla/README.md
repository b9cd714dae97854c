# Trundle in TLA+

Trundle ("MyOS") is a small i386 kernel in C: it boots from GRUB with a ramdisk as
module, sets up paging and a heap, mounts the ramdisk, starts the PS/2 keyboard and
then only serves interrupts. This directory holds TLA+ models of its parts, the TLC
configurations that check them and TLAPS proofs of what matters most.

The repository has no tests and no design document; what the code is meant to do is
in its comments, assertions and panics. Where a comment says one thing and the code
does another, section 5 says so, and four runs exhibit such a difference.

## 1. The system

| Part | Source | State | Operations |
|---|---|---|---|
| Placement allocator | `kernel/kernel/vmm.c` | `placement_address` | bump it, page aligned or not; nothing is freed |
| Physical memory, paging | `kernel/arch/i386/pmm.c` | `bit_frames`, the page directory and its tables, `heap_location` | boot loops; allocate and map a run of heap pages; free a run; map, unmap, get a page |
| Heap (liballoc) | `kernel/kernel/liballoc.c` | lists of majors and minors in the heap itself, `l_memRoot`, `l_bestBet`, counters | `kmalloc`, `kfree`, `krealloc`, `kcalloc` |
| PS/2 | `kernel/ps2_keyboard.c`, `kernel/arch/i386/gdt.c`, `descriptor.S` | `shift`, `alt`, `control`, and the controller's own state | start-up over two ports; the handler of interrupt 33 |
| Devices, VFS | `kernel/kernel/device.c`, `kernel/fs/vfs.c` | `devices`, `mount_points`, open `file_t`s | register, look up; mount, open, read, write, close |
| Initial ramdisk | `kernel/fs/initrd.c`, `utilities/ramdisk.c` | the image | written on the build machine; looked up and read in the kernel |
| tty file system | `kernel/fs/tty.c` | two buffers nobody can reach | register and mount, which panics |
| ext2 probe | `kernel/fs/ext2.c` | none | looks for a signature |
| Interrupt tables | `kernel/arch/i386/gdt.c`, `descriptor.S` | descriptor tables, `interrupt_handlers`, the interrupt controllers, the stack | make descriptors, remap the controllers, register a handler; enter and leave |
| Terminal | `kernel/arch/i386/tty.c` | screen, cursor | put a character, scroll |
| `printf` | `libc/stdio` | one static buffer | format a directive; print |
| Queue, strings | `libc/queue.c`, `libc/string` | a list on the heap | enqueue, dequeue |
| Boot | `kernel/kernel/kernel.c` | none | calls the others in order, `sti`, `hlt` |

**How they interact.** `kernel_main` calls everything in one order with interrupts
off. liballoc gets pages through two hooks (`liballoc_alloc`, `liballoc_free`), and the
page allocator and the VMM share `heap_location`. Page tables come from the placement
allocator even while the identity loop is running towards `placement_address`. Drivers
put a `device_t` in the device table and mount it; `vfs_mount` probes it through the
device's own function pointers; `vfs_open` calls back into the driver, which calls the
VFS again to find its own mount point. Every part prints through `printf` and the
terminal, `page_fault` in the middle of whatever faulted. Exceptions and interrupts
come in through one stub each and two common ones; the keyboard's is the only line with
a handler, all others are just ended.

**What is hard here.** There is one processor, one thread and nothing on disk, so there
is no locking and no crash recovery. The difficulties are: data structures that stay
right over any history of calls (the heap's lists, the bitmap, the page tables); cached
state that goes stale (`l_bestBet`, the TLB, the mount index in a `file_t`, the
configuration byte of the controller); units (frame numbers, addresses, bytes, words);
a loop whose bound its own body moves; the PS/2 start-up, which runs against a
controller and a person who may act between any two port accesses; the words on the
stack between an interrupt and its `iret`, and requests that are withdrawn before they
are served; the edges of the screen, of a field and of a word.

`PROJECT.json` lists every part with what is modelled of it, and every hazard at its
line with the properties that would catch it going wrong.

At this commit `fs/tty.c` calls `tty_write` and `vfs_check_mount`, which exist nowhere,
so the kernel does not link, and if it did `tty_init` would panic (section 5).
The models therefore take each part as its callers would use it, not only as far as
this boot sequence gets: the VFS with drivers in any order, the keyboard after a boot
that reaches it.

## 2. Modules

| Module | Models | Composes or implements |
|---|---|---|
| `PageProvider` | what liballoc may assume of the page allocator | abstract |
| `Pmm` | bitmap, page tables, boot loops, heap pages, TLB | implements `PageProvider` |
| `PmmProofs` | theorems about `Pmm` | |
| `Liballoc` | malloc, free, realloc | |
| `LiballocProofs` | theorems about `Liballoc` | |
| `KernelHeap` | liballoc over the page allocator | `INSTANCE`s of `Liballoc` and `Pmm` |
| `KernelHeapProofs` | theorems about `KernelHeap` | uses `LiballocProofs` and `PmmProofs` |
| `Ps2` | driver, controller, device, interrupt latch, person | |
| `Ps2Proofs` | theorems about `Ps2` | |
| `Initrd` | ramdisk writer and the walk of `initrd_open` | |
| `InitrdProofs` | theorems about `Initrd` | |
| `Vfs` | device table, mount table, path resolution, files | |
| `VfsProofs` | theorems about `Vfs` | |
| `Paper` | what a terminal promises: a roll of paper without end | abstract |
| `Terminal` | screen, cursor, `terminal_putchar` | implements `Paper` |
| `Printf` | what `vsprintf` writes for each directive, as operators | |
| `Console` | `printf`, its buffer, a fault in the middle | extends `Terminal` and `Printf` |
| `ConsoleProofs` | theorems about `Console` | |
| `Interrupts` | descriptors, stubs, dispatch, both controllers | |
| `InterruptsProofs` | theorems about `Interrupts` | |
| `MC...` | values for TLC | |

### Pmm

Addresses are counted in pages. `used` is the set of frames whose bit is set, `pt` the
present pages of the kernel directory, `tables` where each page table is stored,
`blocks` the runs liballoc holds and `tlb` the translations the processor may have
cached; the last two are history the code does not keep. `pmm_allocate_pages` keeps the
quirk of the scan: a full word is skipped without resetting the count of free frames.
`Cleared` is what `pmm_unmap_page` clears when it divides a frame number by the page
size a second time. One action is one iteration of a boot loop, or one service call.
The TLB is filled by any access to a page the kernel touches and may forget an entry at
any time.

`StaleBits` are the bits that happen to be set in the three quarters of the bitmap that
are never cleared (`INDEX_FROM_BIT(frame_count)` bytes are reserved and cleared where as
many words are used). The kernel is too small to reach them, so every run and every
theorem has `StaleBits = {}`.

An observation worth keeping: the two flaws cover for one another. If the free were
mended alone (the mutant `ReleasesFrames`), holes would appear in the bitmap, and the
scan, which may count across a full word, would hand out frames in use
(`NoFrameAliasing` fails). `FramesArePrefix` is why it does not today.

### Liballoc

`major` and `minor` are the two kinds of headers as functions of their addresses. One
action is one iteration of the search loop, and `call` holds malloc's locals. The
magic number is membership in `DOMAIN minor`. A pointer handed out is never followed by
the model; `PointersSound` says that it is aligned, that its bytes fit, and that the
word stored below it leads back to the header.
`HeapExhausted` lets the page allocator refuse at any time, as `PageProvider` does.

### KernelHeap

Both modules are instantiated with one `heap_location`. Each step of liballoc that
changes its set of majors is joined with the step of `Pmm` its hook causes.
`HooksAgreed` ([][Memory!Next]) says that liballoc does nothing to the page allocator
that `Pmm` was not checked and proved for, which is why the two can be studied apart:
what holds of `Pmm` for every sequence of requests holds here.

### Ps2

`ps2_keyboard_init` is straight-line code over two ports and is represented as data: a
sequence of port operations, composed from one operator per C function. One action
executes the next operation; the device, the controller and the person act between any
two. The handler runs one action per byte it waits for. The controller executes a
command at once (the driver's `ps2_wait_write` does not wait for the controller's input
buffer). The configuration byte is the set of its bits. The rigid variable `env`
says which keys the person uses and whether before `sti`, whether the controller refills
its output buffer before the driver's next access, and how many bytes may wait in the
device; Init takes it from the constant `Environments`. The interrupt controller is one
latch here, which only the delivery of its interrupt clears; `Interrupts` has both in
full.

`BytesRead` is about the time after the start, in both environments, the one in which keys
were used early and the controller is slow included. It says that a byte enters the output
buffer as long as a keyboard that was found has one to send, that a byte in the buffer is
read, and that a handler which has read a prefix returns. `ps2_enable` writes back the
configuration byte with the clock still off, so the first rests on the commands that
`ps2_identify` sends afterwards (mutant `WithoutIdentify`). Where the test of the port
failed they are not sent and the keyboard is never heard: the property is about one that
was found. `NoLostInterrupt` rests on the other bit of that byte (mutant
`EnablesClockOnly`).

The handler may be called for a byte that an earlier call has read already, and then
spins, interrupts off, until the next key. That is a wait for the person and no property
excludes it; see `Interrupts`.

### Initrd

`header` maps the offsets at which a header was written to its contents. The walk reads
the header at its own offset; where none was written it reads bytes of a file, and may
take them for any name and any size up to `MaxGarbage`.

### Vfs

A path is the sequence of what stands between its slashes, so that comparing strings is
comparing sequences and `remove_until` is a cut. One action is one iteration of the
search for the mount point; `initrd_open` searches again, as in the code.

### Terminal, Printf and Console

`screen` is `terminal_buffer` without its colours, and one action is one
`terminal_putchar`, with its wrap and its scroll. `above` and `gone` are history: the
lines that have left the screen. With them the terminal is compared with `Paper`, which
knows one line to write on, a carriage and lines that are finished for good.

A format is given as a sequence of directives, that is, parsed; `Printf` says what one
round of the loop of `vsprintf` appends for each. A width or precision `*` takes its
argument and is not skipped, so the code takes the `*` for a conversion and prints it;
such a directive is one with the conversion `*`, followed by text. A word has
`2 * HalfWord` values (2^32) and `num = -num` is what it is in them. `Shown` reads a
numeral back and is the reference that `NumbersReadBack` compares with.

`Console` formats one directive per action into `buf`, which keeps what it held, and then
prints one character per action. A `%s` whose argument is not mapped faults: `page_fault`
and `abort` call `printf` again, with the same buffer, and the kernel halts.

`MessagesAssumption` says what the callers of `printf` have to see to. Every directive
gets an argument of its kind (`WellTyped`), as `va_arg` takes it for one without a look;
its flags are those that a format can give, which `FLAG_SIGN` and `FLAG_SMALL` are not.
And the text of a message fits the buffer with its final zero, up to its end or up to
the directive that faults (`Fits`), since `vsprintf` is not told how long its buffer is.

### Interrupts

The boot sequence is data here too: the descriptors, the ten bytes that remap the
controllers, the tables loaded and the two handlers registered. The stack is the sequence
of its words, the top last, one word standing for the eight of `pusha`; the processor,
the stub and the common stub push in three actions, and `regs` reads the frame where
`registers_t` does, counted from the address pushed last. Each controller has its mask,
requests and lines in service, priorities, and the spurious answer to a request that was
withdrawn; a line may rise or fall at any moment. `Interrupt` is not enabled before
`iret` although `sti` comes just before it, since the processor waits one instruction.
`source` and `context` are history: what really happened, and what was pushed for it.

What the keyboard's handler does is one step here, `HandlerReturns`, and nothing ensures
that it is ever taken: the handler begins with `ps2_wait_read` (`ps2_keyboard.c:264`) and
may be there until the next key. So `LoneRequestServed` says that a line which goes on
asking alone is served unless the processor stays in that handler for ever.

## 3. Runs that pass

| Run | Instance | Shows |
|---|---|---|
| `pmm` | 32 frames, 4 per word, five kernel sizes, heap of 12 pages, blocks of 3 to 5 | paging sound from boot to exhaustion; implements `PageProvider`; boot ends |
| `liballoc` | sizes that fit a major several times, or not at all | the lists, accounts and pointers are right; pages are asked for only when no major has a gap; every call returns |
| `kernel_heap` | 16 frames, a heap of 6 pages, three kernel sizes | liballoc keeps to what the page allocator relies on; live data is never remapped |
| `ps2` | two shifts and the right alt, used at any time, slow controller; plain and long codes after an undisturbed start, prompt controller | answers are never mixed with scan codes; no interrupt lost; no modifier stuck; an undisturbed start-up ends; what a keyboard that was found sends is read, whatever the start was like |
| `initrd` | up to four files, any read failing | lookups are exact up to the first failed read; they end |
| `vfs` | four nested locations, three mount points, two files | resolution finds the deepest mount point; files stay on the device they were found on |
| `console` | screen of 2 lines of 3, tabs of 2, words of 4 bits; all numerals, six characters, two messages and a fault | the terminal is a window on paper; numerals read back, at the end of their field they should be at; no stale text |
| `interrupts` | lines 0, 1, 7, 8 and 12, exceptions 0, 13 and 14 | every handler finds its own number, every return is right, nothing stays in service, a line that asks alone is served unless the keyboard's handler waits for ever |

**Bounds.** Each was chosen so that its limit is reached. In `pmm` the largest kernels
exhaust memory in the identity loop and in the heap loop, another needs a second page
table for itself, and three blocks fill the heap window exactly. Words of four bits let
blocks start, end and span words in all ways. In `liballoc` the heap ends after a few
majors, a major holds several allocations with gaps of each size between them, and one
request needs more pages than the minimum. In `kernel_heap` one kernel leaves frames for
the whole window a second time (the boot loop has taken them once) and two do not. In
`ps2` three keys give both plain and prefixed codes, presses while the other shift is
held and releases of keys pressed before start-up; `txMax` holds the longest single code. Firmware is
taken to leave translation on, as it does for a keyboard on IRQ 1; where it is off the
driver turns it on (section 5).
In `initrd` a file may be empty, smaller than a header or larger than an image, and four
files leave room for one of each kind before and after a failed read. In `vfs` three
mount points can be a location, a directory of it and the root. In `console` six
characters fill the screen, wrap and scroll it; widths and precisions are missing, too
small and large enough, and the numbers are zero, the largest positive or negative one
and the smallest; the buffer holds the longest text with its final zero, which `TypeOK`
checks. In `interrupts` the five lines are the timer, the keyboard, the line that a
spurious interrupt of the master stands for, and two lines of the slave, whose own
spurious interrupt (15) comes from them; the exceptions are one without a code, one with
a code and no handler, and the page fault.

**Fairness.** Only weak fairness, on what runs by itself: the boot loops, one call of
malloc or `vfs_open`, one lookup, the port operations and the handler, the controller's
delivery of a byte it has, and the processor, which goes on executing and takes an
interrupt that is ready. Interrupts are off or nothing else runs, so a step that can be
taken is. No fairness is assumed of callers, of the person or of the lines, nor, in
`Interrupts`, of the return of the keyboard's handler, which may wait for the person; in
`Ps2` that wait is a step that is not enabled.
Deadlock is checked except in `Ps2`, where a wait for the controller may spin for ever.

## 4. Proofs

Every theorem below holds for every value of the constants that the module's named
assumptions allow. Each invariant was first checked by TLC on the run of its module.

`PmmProofs` proves, for every memory size, word size, kernel image, set of request sizes
and sequence of calls: `TypeOK`, `NoFrameAliasing`, `FramesArePrefix`,
`TablesReachable` and `TlbCoherent` as theorems of `Spec`, and that `Pmm` implements
`PageProvider` (`Implements`). It also proves three facts that no run lists because
`ProvidesPages` rests on them: `MappedFramesReserved`, `BlocksDisjointAndBacked` and
`LiveMappingsStable`. All of them assume `StaleBits = {}`.

The argument: while frames in use form a prefix of memory, the scan is exact (`FirstFit`):
it returns the first frame past the prefix, or the error value exactly when too few are
left. Marking extends the prefix, and a free clears only frame 0, so the prefix survives
everything (`FramesArePrefix`). Every mapped frame lies in the prefix and a new one lies
beyond it, hence no aliasing. The invariant adds to the checked properties the shape of
the boot loops: in the identity loop page i is mapped to frame i, every page table lies
below the moving bound, and the prefix is as long as the loop is far. That is what makes
every table identity mapped when the loop ends, including the one of the heap window,
which is placed on the "one page above". For the refinement, a block handed out is a
set of pages that was beyond `heap_location`, so it meets no held one.

`LiballocProofs` proves, for every page and header size, alignment, heap and history of
calls: `TypeOK`, `ListsSound`, `AllocationsDisjoint`, `PointersSound`, `AccountsExact`,
`NoIdleMajor`, and the action property `GrowsOnlyWhenFull`. None of these is inductive. The invariant is
`HeapSound` (typed headers, sound lists, disjoint allocations, and majors with room for
what they count), `CallSound` (the locals of the call in progress lead into the lists they
were read from) and `EmptyAwaited`: the only empty major is one that was just made for
the call in progress, with room for its request. The second case of malloc takes an
empty major without looking whether the request fits, and this is why it may.
`GrowsOnlyWhenFull` needs to know what the search has seen. `UsageCounted` says that the
usage of a major, taken from its size, leaves exactly the bytes no header and no
allocation covers; so a major that malloc skips for its usage has no gap that is large
enough. `SearchedMajors` and `SearchedMinors` say that a search on its way from the root
has left no such gap behind; one that began at `l_bestBet` starts again at the root
before it asks for pages.

The counters are sums over all blocks and over all majors. `Accounted` says that the heap
is finite and that the usage of each major and the two totals are the sums that
`AccountsExact` names (`AccountsStayExact`); the blocks being no smaller than nothing, no
unsigned counter is ever taken below zero (`CountersNeverWrap`). Under it lie lemmas about
sums: one is the same in whichever larger set it is worked out (`SumsAgree`), so a block
more or less adds or takes its own size (`SumGrows`, `SumWithout`) and a change elsewhere
does nothing (`SumOfSame`).

`KernelHeapProofs` proves `HooksAgreed` and `ContentsKept`. The
invariants of `LiballocProofs` and `PmmProofs` are used for the two instances, not
proved again; added is `RunsHeld`, by which the runs the page allocator has given away
are exactly the majors, of the same size in pages. A major liballoc unlinks is therefore
a block that `Pmm` may be asked to free, and a run it gets meets no held one.

`InitrdProofs` proves `TypeOK`, `LookupExact` and `DataInImage` for every set of files
and any reads that fail. Each header ends, with the data that follows it, where the next
begins or the image ends (`Chained`). The walk is at such a place and has met neither the
name nor a header without its data (`OnCourse`), or it has met a header without its data
and may be anywhere (`LostAfter`), which matters to no file before that header.

`VfsProofs` proves `TypeOK`, `OpenedInPlace` and `ResolvesToDeepest` for every depth of
paths and any drivers. The search cuts one part of the path per round, so what is left is
always one of the path's levels (`Level`, `Cut`), and no level it has passed is mounted
(`NoneDeeper`); the second search, of the driver, stops where the first did. The
assumption that no file of an image has the empty name (`FileAssumption`) is used: a
lookup of the mount point itself must find nothing.

`InterruptsProofs` proves `TypeOK`, `NumberFound`, `ReturnsWhereInterrupted` and
`ServiceEnds`. Where the processor is between an interrupt and its `iret` determines the
stack word by word (`StackSound`), what the controllers have in service
(`ServiceSound`), and what the boot sequence has set up so far; the invariant is this
function of the place.

`Ps2Proofs` proves `TypeOK`, `AnswersExpected`, `NoLostInterrupt` and `NoStuckModifier`.
`ProgramOps` first composes the program from its functions and numbers its 61 operations.
The driver's place then determines the bits of the configuration byte, in the controller
and in `local` (`ConfigSound`), what stands in the output buffer (`AnswersSound`), and what
the device has yet to send (`DeviceSound`): the keyboard's clock is off while the controller
is asked, and scanning is off while the device is. After the start the bytes under way,
the one in the buffer included, lead the handler to a state between two codes in which no
modifier is on without its key (`Decodes`). `Leads` says so with a sequence of states as a
witness rather than by recursion, so that a byte may be taken off one end (`FirstByte`) and
a key's codes added at the other (`OneAfterTheOther`); `PressLeads` and `ReleaseLeads` are
about the code of each key. Assumed of the hardware: firmware leaves translation on
(`FirmwareTranslates`), keys are those of `Code` (`KeysHaveCodes`), and an answer to
"identify" has one byte at least, of which none after the first is a byte the handler looks
for (`IdentityAssumption`). The last is needed because `ps2_identify` reads the second byte
without a wait, so that a byte that comes late is given to the handler.
`PrefixesAreFollowed` adds that a handler which has read the first part of a code never
waits in vain for the rest, with any timing: no code ends in a prefix, and unless the
keyboard was not found its clock stays on (`ClockSound`).

`ConsoleProofs` proves, for every screen, tab width, set of characters, buffer size, size
of a word and set of messages that fit, all four properties of the `console` run.

- *Paper.* The cursor stays on the screen with blank lines below it (`CursorOnScreen`),
  and the terminal implements `Paper` (`PrintsOnPaper`). Both rest on one invariant, the
  type of the terminal's variables and `BlankBelow`: without the second a line feed would
  land on old text, and the scroll would not be the paper moving up. A character is a
  strike when it is a glyph, a feed when it ends the line or a tab passes the last column,
  and otherwise a move of the carriage; the proof of each is a lemma that compares the
  lines before and after, split into whether the screen scrolls.
- *Messages.* `TypeOK` (`ConsoleTypes`) and `NoStaleText` (`PrintsItsMessage`). While a
  message is formatted there is a k such that the buffer begins with the texts of its
  first k directives, `str` stands behind them (`Formatted`), and `fmt` holds the rest
  (`Remaining`); once it is formatted, all of it is there with a zero behind it
  (`InPrint`). The first zero in the buffer is therefore that one or a character of the
  message, and never lies in what an older message left (`Strnlen`).
- *Numerals.* `NumbersReadBack` (`NumeralsReadBack`). `TempRead`: the digits of a word,
  read in its base, are the word. `NumberRead`: a numeral is seven pieces, padding, sign,
  prefix, zeros, precision, digits and padding (`Parts`); without its spaces it is
  a sign, a prefix, zeros and the digits (`Compact`); sign and prefix can be told from
  digits and are read off (`PartsShown`); zeros in front add nothing (`ValueZeros`).
  Negating the smallest number leaves its word as it is, and without a sign that word is
  the magnitude meant. `NumberWidens` is about the width, and `NumberLeads` about numerals
  that stand at the left: what fills the field comes behind what a numeral without a
  width consists of.

**Induction over data.** The induction theorems of the library take an operator and can
not be used. Both `LiballocProofs` (sums over finite sets) and `ConsoleProofs` (digits,
values, texts) therefore argue with a least counterexample: `LeastNumber` gives a set of
natural numbers that is not empty its least element, `RecursionDefines` gives a recursive
function its equations, and a claim over sequences, words or finite sets is that
the set of the lengths, words or sizes at which it fails is empty. The functions the
models define recursively (`Temp`, `FullTexts`, `Without`, `Value`) are functions on a
range of numbers, not RECURSIVE operators, for this reason.

**Termination.** The prover has no ENABLED and no fairness rules, but for five of the
loops the arithmetic by which they end is proved. Each theorem is an action property: while the
loop runs, only its own steps are taken, and each leaves a natural number smaller.

| Theorem | Loop | What decreases |
|---|---|---|
| `BootAdvances` | the identity loop and the heap loop of `pmm_initialize` | pages to map; a new table moves the loop's bound, but only the first page of a table needs one |
| `CallAdvances` | `malloc`, alone or in `realloc` and `calloc` | the addresses ahead of the search, twice if it began at `l_bestBet`; a new major lies ahead of all others |
| `LookupAdvances` | `initrd_open` | bytes of the image ahead |
| `OpenAdvances` | `vfs_open` | parts of the path, in the search for the device and then in that for the driver |
| `StartAdvances` | `ps2_keyboard_init` | operations of the program, and bytes the device has yet to send |

They rest on the invariants above. Assumed are, for boot, no stale bits and more than one entry
in a table (with one, each page mapped would move the bound by a page, for ever); for
`vfs_open`, paths that begin with a slash (`remove_until` finds nothing to cut in one
without, `vfs.c:19`, and the search would spin); for the keyboard, that nobody types during the start, that the
controller is prompt, and that the device answers "identify" with at most the two bytes
that are read (a third would stay in the buffer, and the last wait would spin). Under these
three `NoWaitIsInVain` also proves that each wait of `ps2_keyboard_init` finds the buffer
as it should be, so that it is not only true that steps are few but also that none of the
waits blocks.

**Only model-checked:** the seven liveness properties `BootEnds`, `CallsReturn`,
`InitCompletes`, `BytesRead`, `LookupEnds`, `OpenReturns` and `LoneRequestServed`; of the
first three and of `LookupEnds` and `OpenReturns` what is left to TLC is that a step is
enabled wherever the loop is not over, and that fairness takes it. And the four runs of
section 5, which are counterexamples. Every other property of a run is a theorem.

## 5. Where code and comments differ

In four runs TLC must find a property violated that states what the repository says.

| Run | What is said | What happens |
|---|---|---|
| `pmm_free_releases` | freeing frees memory (`liballoc.h:55`) | the bit of frame 0 is cleared, the frames stay marked (`pmm.c:199`) |
| `vfs_below` | finds the part that is the mount point (`vfs.c:110`) | nothing below `/dev/initrd` resolves (`vfs.c:19`) |
| `page_fault_code` | a page fault is told from its code (`pmm.c:79-82`) | the stub pushes a zero above the code, which is what is read (`descriptor.S:35`) |
| `segments` | the data segment reaches to `MEMORY_MAX` (`gdt.c:37`) | four bits of its limit are lost, and it ends at 256 MiB, below the heap (`gdt.c:28`) |

An emulator that does not check limits hides the last one; the other modules are about
such a machine.

Others were met while modelling. The models do what the code does, and no run states
what is said:

| What is said | What happens |
|---|---|
| the kernel is identity mapped (`pmm.c:243`) | with a stale bit in the part of the bitmap that is not cleared a kernel of more than 4 MiB would not be (`pmm.c:256`) |
| NULL if pages were not allocated (`liballoc.h:49`) | 0xFFFFFFFF, through which a header would be written (`pmm.c:163`, `liballoc.c:222`), were the frames to run out before the heap window |
| it panics when the heap is full (`pmm.c:170`) | freed pages are never handed out again, so it panics when little is allocated |
| the major with the most free memory (`liballoc.c:92`) | any major that once had it |
| scan codes of set 2 (`ps2_keyboard.c:15`) | translation is flipped, not cleared (`ps2_keyboard.c:179`); Pause with a shift reads beyond the table (`ps2_keyboard.c:323`) |
| "Successfully wrote file" (`ramdisk.c:68`) | the file is not found if an earlier read failed (`ramdisk.c:59`) |
| respecting the boundary (`initrd.c:36`) | the length of the image is never looked at (`initrd.c:48`) |
| returns a uid (`device.c:11`) | returns a place in the table (`device.c:18`) |
| the tty is mounted on `/dev/tty` (`tty.c:2`) | mounting it panics (`vfs.c:152`, `ext2.c:14`) |
| a width or a precision may be an argument (`printf.c:181`, `printf.c:195`) | the `*` is not skipped, and is printed |
| the screen is moved up with `memcpy` (`arch/i386/tty.c:84`) | it is given two cells for addresses; the loop below it does the work |
| `isr_common_stub` restores the segments (`descriptor.S:67`) | from `ax`, which holds no selector; no exception handler returns |

## 6. Not modelled

The queue (`libc/queue.c`): the kernel creates one and never uses it, and `queue_create`
returns no value. String functions have no state. Overflow in `calloc`, a double free and
a free of a foreign pointer are outside `Liballoc`: no caller does either, and the outcome
depends on bytes liballoc does not write. The buffers of `fs/tty.c` can not be reached.
Reads and writes through the VFS change no state. Sizes that wrap around 32 bits do not
occur in `Initrd`. In `Ps2`, what is printed, overruns of the device's own buffer, a keyboard that
answers "identify" with no bytes and the mouse port are left out. In `Printf`, reading
the format, `%n`, which stores a number through its argument (`printf.c:279`), and a `%`
with nothing behind it as a directive (it prints itself, so it is text; `WellTyped` admits
neither); in `Terminal`, colours and two functions nobody calls. In
`Interrupts`, what a handler does (that is `Ps2`) and the return from an exception.
`kernel_main` is not a module: `tty_init` panics before it gets to its end.

## 7. Plan

1. Done: all modules of section 2, a proof of every safety property they are checked for,
   and the measures by which five of their loops end.
2. `kernel_main` as the composition of the drivers, the VFS and the heap, once it links.
3. What `Fits` asks of the callers of `printf`, as a property of each caller: the longest
   texts they print are paths and the names of devices.
