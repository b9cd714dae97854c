----------------------------- MODULE KernelHeap -----------------------------
(***************************************************************************)
(* The kernel's heap as a whole: liballoc over the page allocator, through *)
(* the hooks liballoc_alloc and liballoc_free (liballoc.c:109-117), after  *)
(* the boot loops have run.  The two components share heap_location; what  *)
(* liballoc believes of its majors and what the memory manager knows of    *)
(* the runs it handed out are otherwise kept apart, in two sets of         *)
(* variables and in two units, bytes and pages.                            *)
(***************************************************************************)
EXTENDS Integers

CONSTANTS
    FrameCount, WordBits, PageSize, TableEntries, HeapStart, HeapPages,
    OUT_OF_MEMORY, ImageEnds,                                    \* see Pmm
    PageCount, MajorSize, MinorSize, Alignment, AlignInfo, ReqSizes \* see Liballoc

VARIABLES mode, next, used, pt, tables, placement, blocks, tlb
VARIABLES major, minor, l_memRoot, l_bestBet, l_allocated, l_inuse, call
VARIABLE heap_location

memory == <<mode, next, used, pt, tables, placement, blocks, tlb>>
heap == <<major, minor, l_memRoot, l_bestBet, l_allocated, l_inuse>>
vars == <<memory, heap, call, heap_location>>

Heap == INSTANCE Liballoc
Memory == INSTANCE Pmm
    WITH StaleBits <- {}, TlbSize <- 0,
         Requests <- {Heap!PagesFor(Heap!SizeFor(req)) : req \in ReqSizes}

\* What each component asks of its constants.
ASSUME HeapConstants == Heap!SizesAssumption
ASSUME MemoryConstants ==
    /\ Memory!BitmapAssumption /\ Memory!StaleAssumption /\ Memory!PageSizeAssumption
    /\ Memory!HeapAssumption /\ Memory!OutOfMemoryAssumption /\ Memory!RequestAssumption

----------------------------------------------------------------------------
(* The hooks.                                                              *)

\* What liballoc asks for in this step: a run for the size it is to hold.
Wanted == Heap!PagesFor(call.size)

\* The run of a major, as the hooks pass it: its address and its page count.
Run(M) == [start |-> M \div PageSize, pages |-> major[M].pages]

\* liballoc_alloc returns a run, where liballoc then writes the header.
AllocHook ==
    \E M \in DOMAIN major' \ DOMAIN major :
        /\ Memory!HeapAllocMaps(Wanted)
        /\ M = heap_location * PageSize

\* liballoc_alloc panics, or returns the error value, which is no NULL.
RefusedHook ==
    /\ call.op # "halted" /\ call'.op = "halted"
    /\ \/ Memory!HeapAllocPanics(Wanted)
       \/ Memory!HeapAllocFails(Wanted)

\* Mutant: liballoc_free is given the least a major may have.
GivesBackMinimum(M) == [Run(M) EXCEPT !.pages = PageCount]

\* Mutant: liballoc_free is given the first major instead of the one unlinked.
GivesBackRoot(M) == Run(l_memRoot)

GivenBack(M) == Run(M)

\* liballoc_free(maj, maj->pages).
FreeHook ==
    \E M \in DOMAIN major \ DOMAIN major' : Memory!pmm_free_pages(GivenBack(M))

\* The step needs no pages and gives none back.
NoHook ==
    /\ DOMAIN major' = DOMAIN major
    /\ call'.op # "halted"
    /\ UNCHANGED memory

----------------------------------------------------------------------------
Init == Memory!Init /\ Heap!Init

\* pmm_initialize, before anybody calls kmalloc.
Boot ==
    /\ Memory!BootStep
    /\ UNCHANGED <<heap, call>>

\* One step of liballoc and what it makes the memory manager do.
Serve ==
    /\ mode = "running" /\ call.op # "halted"
    /\ Heap!Next
    /\ AllocHook \/ RefusedHook \/ FreeHook \/ NoHook

\* A panic, or a page fault of liballoc's.
Halted == (mode = "halted" \/ call.op = "halted") /\ UNCHANGED vars

Next == Boot \/ Serve \/ Halted

Spec == Init /\ [][Next]_vars

----------------------------------------------------------------------------
(* Properties.                                                             *)

\* liballoc keeps to what the memory manager relies on: it asks for runs of the
\* sizes Pmm is checked and proved for, and gives back exactly a run it holds.
HooksAgreed == [][Memory!Next]_<<memory, heap_location>>

\* The pages from address a up to address b.
PagesOf(a, b) == (a \div PageSize)..((b - 1) \div PageSize)

\* What was written to an allocation stays where it is read: while it lives, no
\* step of either component moves one of its pages to another frame.
ContentsKept ==
    [][\A m \in DOMAIN minor \cap DOMAIN minor' :
          \A v \in PagesOf(m, Heap!EndOfMinor(m)) :
              v \in DOMAIN pt' /\ pt'[v] = pt[v]]_vars

=============================================================================
