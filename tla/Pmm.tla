-------------------------------- MODULE Pmm --------------------------------
(***************************************************************************)
(* The physical and virtual memory manager of the kernel                   *)
(* (kernel/arch/i386/pmm.c): the frame bitmap, the one page directory, the *)
(* boot loops that identity-map the kernel and premap the heap window, and *)
(* the two services liballoc is built on, allocating and freeing runs of   *)
(* heap pages.                                                             *)
(*                                                                         *)
(* Addresses are counted in pages.  Every address the code handles here is *)
(* page aligned but one, placement_address just after the page directory,  *)
(* and the page table allocated next rounds it up: `placement' is the      *)
(* rounded value.                                                          *)
(***************************************************************************)
EXTENDS Integers, FiniteSets, FiniteSetsExt

CONSTANTS
    FrameCount,     \* frame_count: frames of physical memory (4096)
    StaleBits,      \* frames whose bit is set before the bitmap is cleared
    WordBits,       \* frames per word of bit_frames (32)
    PageSize,       \* PAGE_SIZE in bytes (4096), used by pmm_unmap_page only
    TableEntries,   \* pages per page table (1024)
    HeapStart,      \* HEAP_START, as a page number
    HeapPages,      \* HEAP_INITIAL_SIZE in pages (256)
    OUT_OF_MEMORY,  \* the error value, as a page number
    ImageEnds,      \* first page past the kernel image, initrd and directory
    TlbSize,        \* bound on the translations cached at a time
    Requests        \* page counts liballoc asks for (l_pageCount and more)

\* pmm_initialize: frame_count is 4096 and bit_frames has 32 bits per word.
ASSUME BitmapAssumption ==
    /\ WordBits \in Nat \ {0, 1}
    /\ FrameCount \in Nat \ {0, 1}
    /\ FrameCount % WordBits = 0

\* pmm_initialize reserves and clears one byte for each word of the bitmap, so
\* a quarter of it; the rest holds what was in memory.
ASSUME StaleAssumption == StaleBits \subseteq (FrameCount \div 4)..(FrameCount - 1)

\* 4096 frames, numbered below PAGE_SIZE = 4096: what pmm_unmap_page turns on.
ASSUME PageSizeAssumption == PageSize \in Nat /\ FrameCount <= PageSize

\* vmm.h: the 256 pages of the heap window lie in one page table, and at 3 GB,
\* above every physical address.
ASSUME HeapAssumption ==
    /\ TableEntries \in Nat \ {0}
    /\ HeapStart \in Nat /\ FrameCount <= HeapStart
    /\ HeapPages \in Nat \ {0}
    /\ (HeapStart + HeapPages - 1) \div TableEntries
           = HeapStart \div TableEntries

\* 0xFFFFFFFF is no address of a frame.
ASSUME OutOfMemoryAssumption ==
    OUT_OF_MEMORY \in Nat /\ OUT_OF_MEMORY >= FrameCount

\* The kernel is loaded above frame 0, so at least two pages are identity
\* mapped; liballoc's only caller asks for l_pageCount = 16 pages or more.
ASSUME RequestAssumption ==
    /\ ImageEnds \subseteq Nat \ {0}
    /\ Requests \subseteq Nat \ {0, 1}

VARIABLES
    mode,           \* "identity", "heap", "running" or "halted"
    next,           \* the page the boot loop maps next
    used,           \* frames whose bit is set in bit_frames
    pt,             \* present pages of pmm_kernel_directory -> frame
    tables,         \* index in dir->tables -> page the table is stored in
    placement,      \* placement_address
    heap_location,  \* heap_location: next heap page to hand out
    blocks,         \* runs of pages handed to liballoc and not yet freed
    tlb             \* translations the processor may have cached

vars == <<mode, next, used, pt, tables, placement, heap_location, blocks, tlb>>

----------------------------------------------------------------------------
(* The frame bitmap.                                                       *)

Frames == 0..(FrameCount - 1)
HeapEnd == HeapStart + HeapPages
WordOf(f) == f \div WordBits

\* A word of bit_frames equal to 0xFFFFFFFF, which the scan skips without
\* looking at its bits and without resetting its count of free frames.
FullWord(w) == \A f \in Frames : WordOf(f) = w => f \in used

\* free_frames once the scan has counted the free frame f: the free frames up
\* to f with no reset in between, a reset being a used frame that is looked at.
RunLength(f) ==
    Cardinality({g \in 0..f :
        /\ g \notin used
        /\ \A h \in g..f : h \in used => FullWord(WordOf(h))})

RunEnds(n) == {f \in Frames \ used : RunLength(f) = n}

\* pmm_allocate_pages, the frame it returns; the caller marks the n frames.
pmm_allocate_pages(n) ==
    IF RunEnds(n) = {} THEN OUT_OF_MEMORY ELSE Min(RunEnds(n)) - n + 1

\* Mutant: the loop that marks the frames stops one short.
MarksOneShort(p, n) == used \cup p..(p + n - 2)

Marked(p, n) == used \cup p..(p + n - 1)

----------------------------------------------------------------------------
(* Page tables.                                                            *)

TableOf(v) == v \div TableEntries
Override(f, S, m) == [v \in DOMAIN f \cup S |-> IF v \in S THEN m[v] ELSE f[v]]
Without(f, S) == [v \in DOMAIN f \ S |-> f[v]]
Pages(b) == b.start..(b.start + b.pages - 1)

\* _kmalloc_physical_aligned of a page, which is at placement_address.
PlacePage == placement' = placement + 1

\* pmm_get_page with create: a missing table is placed just above the kernel.
pmm_get_page(v) ==
    IF TableOf(v) \in DOMAIN tables
    THEN UNCHANGED <<tables, placement>>
    ELSE /\ tables' = Override(tables, {TableOf(v)}, [t \in {TableOf(v)} |-> placement])
         /\ PlacePage

\* pmm_map_page for the pages of S: writes the entries, flushes nothing.
pmm_map_page(S, frame) == pt' = Override(pt, S, frame)

----------------------------------------------------------------------------
Init ==
    /\ mode = "identity"
    /\ next = 0
    /\ used = StaleBits
    /\ pt = [v \in {} |-> 0]
    /\ tables = [t \in {} |-> 0]
    /\ placement \in ImageEnds
    /\ heap_location = HeapStart
    /\ blocks = {}
    /\ tlb = [v \in {} |-> 0]

\* Mutant: the bound of the loop is the end of the kernel, without the extra
\* page of the comment above pmm_initialize.
NoExtraPage == next < placement

\* i < placement_address + PAGE_SIZE, evaluated again before each iteration.
MoreToIdentityMap == next < placement + 1

\* One iteration of "Identity mapping kernel".  The frame is not checked: when
\* memory is exhausted the page is mapped to the error value.
IdentityMapPage ==
    LET p == pmm_allocate_pages(1) IN
    /\ mode = "identity" /\ MoreToIdentityMap
    /\ used' = IF p = OUT_OF_MEMORY THEN used ELSE Marked(p, 1)
    /\ pmm_get_page(next)
    /\ pmm_map_page({next}, [v \in {next} |-> p])
    /\ next' = next + 1
    /\ UNCHANGED <<mode, heap_location, blocks, tlb>>

StartHeapLoop ==
    /\ mode = "identity" /\ ~MoreToIdentityMap
    /\ mode' = "heap"
    /\ next' = HeapStart
    /\ UNCHANGED <<used, pt, tables, placement, heap_location, blocks, tlb>>

\* One iteration of "Identity mapping the heap".
HeapMapPage ==
    LET p == pmm_allocate_pages(1) IN
    /\ mode = "heap" /\ next < HeapEnd
    /\ p # OUT_OF_MEMORY
    /\ used' = Marked(p, 1)
    /\ pmm_get_page(next)
    /\ pmm_map_page({next}, [v \in {next} |-> p])
    /\ next' = next + 1
    /\ UNCHANGED <<mode, heap_location, blocks, tlb>>

\* Mutant: the heap loop tries the same page again instead of stopping.
RetriesHeapPage ==
    /\ mode = "heap" /\ next < HeapEnd
    /\ pmm_allocate_pages(1) = OUT_OF_MEMORY
    /\ UNCHANGED vars

\* panic("Out of memory!")
HeapMapPanics ==
    /\ mode = "heap" /\ next < HeapEnd
    /\ pmm_allocate_pages(1) = OUT_OF_MEMORY
    /\ mode' = "halted"
    /\ UNCHANGED <<next, used, pt, tables, placement, heap_location, blocks, tlb>>

\* pmm_switch_page_directory: paging is on, nothing is cached yet.
EnablePaging ==
    /\ mode = "heap" /\ next = HeapEnd
    /\ mode' = "running"
    /\ UNCHANGED <<next, used, pt, tables, placement, heap_location, blocks, tlb>>

----------------------------------------------------------------------------
(* Services of the running kernel.                                         *)

\* pmm_allocate_and_map_for_heap when no run of n frames is free: it returns
\* OUT_OF_MEMORY and has changed nothing.
HeapAllocFails(n) ==
    /\ mode = "running"
    /\ pmm_allocate_pages(n) = OUT_OF_MEMORY
    /\ UNCHANGED vars

\* Mutant: the test forgets the size of the request.
IgnoresRequest(n) == heap_location > HeapEnd

WindowExceeded(n) == heap_location + n > HeapEnd

\* The frames are marked before the heap window is found too small: panic.
HeapAllocPanics(n) ==
    LET p == pmm_allocate_pages(n) IN
    /\ mode = "running"
    /\ p # OUT_OF_MEMORY
    /\ WindowExceeded(n)
    /\ used' = Marked(p, n)
    /\ mode' = "halted"
    /\ UNCHANGED <<next, pt, tables, placement, heap_location, blocks, tlb>>

\* Mutant: the window is not advanced, so the next call maps over this block.
KeepsHeapLocation(n) == heap_location

HeapLocationAfter(n) == heap_location + n

\* The pages take the place of the mappings the boot loop made for them.
HeapAllocMaps(n) ==
    LET p == pmm_allocate_pages(n)
        S == heap_location..(heap_location + n - 1) IN
    /\ mode = "running"
    /\ p # OUT_OF_MEMORY
    /\ ~WindowExceeded(n)
    /\ used' = Marked(p, n)
    /\ pmm_map_page(S, [v \in S |-> p + (v - heap_location)])
    /\ heap_location' = HeapLocationAfter(n)
    /\ blocks' = blocks \cup {[start |-> heap_location, pages |-> n]}
    /\ UNCHANGED <<mode, next, tables, placement, tlb>>

\* Mutant: pmm_clear_frame is handed the address of the frame.
ReleasesFrames(S) == {pt[v] : v \in S}

\* The bits pmm_unmap_page clears for the pages of S: it hands page->address, a
\* frame number, to pmm_clear_frame, which divides it by PAGE_SIZE again; the
\* loop of pmm_free_pages then visits every further byte of the page, whose
\* entry is by now zero.
Cleared(S) == {pt[v] \div PageSize : v \in S} \cup {0}

\* Mutant: pmm_unmap_page leaves out invlpg.
NoFlush(S) == tlb

Flushed(S) == Without(tlb, S)

\* liballoc_free -> pmm_free_pages -> pmm_free_page -> pmm_unmap_page
pmm_free_pages(b) ==
    /\ mode = "running"
    /\ used' = used \ Cleared(Pages(b))
    /\ pt' = Without(pt, Pages(b))
    /\ tlb' = Flushed(Pages(b))
    /\ blocks' = blocks \ {b}
    /\ UNCHANGED <<mode, next, tables, placement, heap_location>>

\* Pages the kernel touches: itself and the blocks it holds.
Touched == {v \in DOMAIN pt : v < HeapStart \/ \E b \in blocks : v \in Pages(b)}

\* An access fills the translation cache, which forgets entries as it likes.
Touch(v) ==
    /\ mode = "running"
    /\ v \in Touched
    /\ Cardinality(DOMAIN tlb) < TlbSize
    /\ tlb' = Override(tlb, {v}, [w \in {v} |-> pt[v]])
    /\ UNCHANGED <<mode, next, used, pt, tables, placement, heap_location, blocks>>

Evict(v) ==
    /\ tlb' = Without(tlb, {v})
    /\ UNCHANGED <<mode, next, used, pt, tables, placement, heap_location, blocks>>

\* abort() loops for ever.
Halted == mode = "halted" /\ UNCHANGED vars

BootStep ==
    \/ IdentityMapPage
    \/ StartHeapLoop
    \/ HeapMapPage
    \/ HeapMapPanics
    \/ EnablePaging

Next ==
    \/ BootStep
    \/ \E n \in Requests :
          HeapAllocFails(n) \/ HeapAllocPanics(n) \/ HeapAllocMaps(n)
    \/ \E b \in blocks : pmm_free_pages(b)
    \/ \E v \in Touched : Touch(v)
    \/ \E v \in DOMAIN tlb : Evict(v)
    \/ Halted

\* Boot is straight-line code with interrupts off: it does not stop by itself.
Fairness == WF_vars(BootStep)

Spec == Init /\ [][Next]_vars /\ Fairness

----------------------------------------------------------------------------
(* Properties.                                                             *)

PartialFunction(f, S, T) == DOMAIN f \subseteq S /\ f \in [DOMAIN f -> T]

\* The variables have the shapes the code's types give them; every mapped page
\* leads to a frame of physical memory or, unchecked, to the error value.
TypeOK ==
    /\ mode \in {"identity", "heap", "running", "halted"}
    /\ next \in Nat
    /\ used \subseteq Frames
    /\ PartialFunction(pt, Nat, Frames \cup {OUT_OF_MEMORY})
    /\ PartialFunction(tables, Nat, Nat)
    /\ placement \in Nat \ {0}
    /\ heap_location \in HeapStart..HeapEnd
    /\ blocks \subseteq [start : HeapStart..HeapEnd, pages : Requests]
    /\ PartialFunction(tlb, Nat, Frames)

\* Once paging is on, no two pages share a frame, and none is mapped to the
\* error value of an allocation nobody checked: although the identity loop does
\* not test for it, freed pages give their frames back wrongly, and blocks are
\* mapped over the boot-time heap pages.
NoFrameAliasing ==
    mode = "running" =>
        /\ \A v, w \in DOMAIN pt : pt[v] = pt[w] => v = w
        /\ \A v \in DOMAIN pt : pt[v] # OUT_OF_MEMORY

\* The frames in use are an initial segment of memory, frame 0 aside: no hole
\* ever opens below a used frame, so the scan never carries its count of free
\* frames across a full word it skips.
FramesArePrefix ==
    \E k \in 0..FrameCount :
        /\ used \cup {0} = 0..(k - 1) \cup {0}
        /\ \A v \in DOMAIN pt : pt[v] < k \/ pt[v] = OUT_OF_MEMORY

\* A frame some page is mapped to stays marked in bit_frames; frame 0, which
\* every free clears, is the only exception.
MappedFramesReserved ==
    mode = "running" =>
        \A v \in DOMAIN pt : pt[v] \in used \cup {0}

\* Every page table is identity mapped when paging is turned on and after: the
\* kernel reaches it through dir->tables by its physical address.  The table
\* of the heap window lands on the "one page above" the kernel, and the bound
\* of the identity loop moves with each table the loop itself adds.
TablesReachable ==
    mode = "running" =>
        \A t \in DOMAIN tables :
            tables[t] \in DOMAIN pt /\ pt[tables[t]] = tables[t]

\* Blocks handed to liballoc lie in the heap window below heap_location, do not
\* overlap, and every page of theirs is mapped.
BlocksDisjointAndBacked ==
    /\ \A b \in blocks :
          /\ Pages(b) \subseteq HeapStart..(heap_location - 1)
          /\ Pages(b) \subseteq DOMAIN pt
    /\ \A b, c \in blocks : b # c => Pages(b) \cap Pages(c) = {}

\* What the processor has cached is what the page tables say.  pmm_map_page
\* flushes nothing although it replaces present mappings of the heap window, so
\* this rests on no page of a block being touched before it is handed out.
TlbCoherent ==
    \A v \in DOMAIN tlb : v \in DOMAIN pt /\ tlb[v] = pt[v]

\* While a block is held, no step moves one of its pages to another frame.
LiveMappingsStable ==
    [][\A b \in blocks \cap blocks' : \A v \in Pages(b) :
          v \in DOMAIN pt' /\ pt'[v] = pt[v]]_vars

\* The runs of pages held and the frames behind them.
Held == {Pages(b) : b \in blocks}
Backing == [v \in UNION Held |-> pt[v]]

Provider == INSTANCE PageProvider
    WITH Page <- HeapStart..(HeapEnd - 1), Frame <- Frames,
         held <- Held, frame <- Backing

\* The bitmap, the page tables and heap_location together are the page provider
\* liballoc relies on: no run is handed out twice, each page of a run keeps a
\* frame of its own while the run is held, and freeing one run leaves the others
\* alone.
ProvidesPages == Provider!Spec

\* Boot ends, running or in a panic, although each page table the identity loop
\* adds moves the loop's own bound.
BootEnds == <>(mode \in {"running", "halted"})

\* liballoc.h:54-62 says of liballoc_free that it "frees previously allocated
\* memory": the frames behind the freed pages become available again.
FreeReleasesFrames ==
    [][\A b \in blocks \ blocks' : {pt[v] : v \in Pages(b)} \cap used' = {}]_vars

=============================================================================
