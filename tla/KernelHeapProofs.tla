-------------------------- MODULE KernelHeapProofs --------------------------
(***************************************************************************)
(* What liballoc and the memory manager guarantee together, for every size *)
(* of memory, heap, header and request: liballoc keeps to what the memory  *)
(* manager asks of its callers, and what is written to an allocation stays *)
(* where it is.                                                            *)
(*                                                                         *)
(* The two components are proved sound on their own (LiballocProofs,       *)
(* PmmProofs), each for any steps the other's interface allows.  Here the  *)
(* two sets of accounts are shown to agree: the runs the memory manager    *)
(* knows of are those of liballoc's majors (RunsHeld).  StepShape says     *)
(* what a step of liballoc's does to its majors; whichever hook the step   *)
(* takes then does the same to the runs.                                   *)
(***************************************************************************)
EXTENDS KernelHeap, TLAPS

HeapP == INSTANCE LiballocProofs
MemoryP == INSTANCE PmmProofs
    WITH StaleBits <- {}, TlbSize <- 0,
         Requests <- {Heap!PagesFor(Heap!SizeFor(req)) : req \in ReqSizes}

----------------------------------------------------------------------------
(* The components and their proofs speak of the same thing.                *)

\* What the proofs assume of the constants is what the components ask of them.
LEMMA Assumptions ==
    /\ HeapP!SizesAssumption
    /\ MemoryP!BitmapAssumption /\ MemoryP!StaleAssumption /\ MemoryP!PageSizeAssumption
    /\ MemoryP!HeapAssumption /\ MemoryP!OutOfMemoryAssumption /\ MemoryP!RequestAssumption
<1>1. HeapP!SizesAssumption
  BY HeapConstants DEF Heap!SizesAssumption, HeapP!SizesAssumption
<1>2. MemoryP!BitmapAssumption /\ MemoryP!StaleAssumption /\ MemoryP!PageSizeAssumption
  BY MemoryConstants
  DEF Memory!BitmapAssumption, Memory!StaleAssumption, Memory!PageSizeAssumption,
      MemoryP!BitmapAssumption, MemoryP!StaleAssumption, MemoryP!PageSizeAssumption
<1>3. MemoryP!HeapAssumption /\ MemoryP!OutOfMemoryAssumption /\ MemoryP!RequestAssumption
  BY MemoryConstants
  DEF Memory!HeapAssumption, Memory!OutOfMemoryAssumption, Memory!RequestAssumption,
      MemoryP!HeapAssumption, MemoryP!OutOfMemoryAssumption, MemoryP!RequestAssumption
<1> QED BY <1>1, <1>2, <1>3

\* The steps of liballoc and the steps its proofs are about.
LEMMA SameHeap == Heap!Next <=> HeapP!Next
  BY DEF Heap!heap, HeapP!heap, Heap!vars, HeapP!vars, Heap!NULL, HeapP!NULL,
      Heap!Idle, HeapP!Idle, Heap!SizeFor, HeapP!SizeFor, Heap!PagesFor, HeapP!PagesFor,
      Heap!EndOfMinor, HeapP!EndOfMinor, Heap!EndOfMajor, HeapP!EndOfMajor,
      Heap!Free, HeapP!Free, Heap!Room, HeapP!Room, Heap!FrontGap, HeapP!FrontGap,
      Heap!GapAfter, HeapP!GapAfter, Heap!HeapEnd, HeapP!HeapEnd,
      Heap!PagesLeft, HeapP!PagesLeft, Heap!NewMajor, HeapP!NewMajor,
      Heap!AppendMajor, HeapP!AppendMajor, Heap!HeapExhausted, HeapP!HeapExhausted,
      Heap!Starting, HeapP!Starting, Heap!Malloc, HeapP!Malloc,
      Heap!CreateRoot, HeapP!CreateRoot, Heap!StartSearch, HeapP!StartSearch,
      Heap!BetterBet, HeapP!BetterBet, Heap!RememberBet, HeapP!RememberBet,
      Heap!ConsiderBet, HeapP!ConsiderBet, Heap!Searching, HeapP!Searching,
      Heap!Sufficient, HeapP!Sufficient, Heap!Case1Hop, HeapP!Case1Hop,
      Heap!AtRoot, HeapP!AtRoot, Heap!MayRestart, HeapP!MayRestart,
      Heap!Case1Restart, HeapP!Case1Restart, Heap!Case1Grow, HeapP!Case1Grow,
      Heap!Returned, HeapP!Returned, Heap!LinkedMinors, HeapP!LinkedMinors,
      Heap!Place, HeapP!Place, Heap!Case2, HeapP!Case2, Heap!FrontFits, HeapP!FrontFits,
      Heap!Case3, HeapP!Case3, Heap!EnterBlock, HeapP!EnterBlock,
      Heap!InMinors, HeapP!InMinors, Heap!Case4End, HeapP!Case4End,
      Heap!Case4Between, HeapP!Case4Between, Heap!NextMinor, HeapP!NextMinor,
      Heap!BlockFull, HeapP!BlockFull, Heap!Case5Hop, HeapP!Case5Hop,
      Heap!Case5Restart, HeapP!Case5Restart, Heap!Case5Grow, HeapP!Case5Grow,
      Heap!Unlinked, HeapP!Unlinked, Heap!EmptiesMajor, HeapP!EmptiesMajor,
      Heap!RootWithout, HeapP!RootWithout, Heap!BetWithout, HeapP!BetWithout,
      Heap!ReleaseMajor, HeapP!ReleaseMajor, Heap!Footprint, HeapP!Footprint,
      Heap!ShrinkMajor, HeapP!ShrinkMajor, Heap!FreeMinor, HeapP!FreeMinor,
      Heap!Kfree, HeapP!Kfree, Heap!ReallocInPlace, HeapP!ReallocInPlace,
      Heap!ReallocGrow, HeapP!ReallocGrow, Heap!ReallocRelease, HeapP!ReallocRelease,
      Heap!Halted, HeapP!Halted, Heap!MallocStep, HeapP!MallocStep, Heap!Next, HeapP!Next,
      Heap!Max, HeapP!Max

\* The steps of the memory manager and the steps its proofs are about.
LEMMA SameMemory == Memory!Next <=> MemoryP!Next
  BY DEF Memory!vars, MemoryP!vars, Memory!Frames, MemoryP!Frames,
      Memory!HeapEnd, MemoryP!HeapEnd, Memory!WordOf, MemoryP!WordOf,
      Memory!FullWord, MemoryP!FullWord, Memory!RunLength, MemoryP!RunLength,
      Memory!RunEnds, MemoryP!RunEnds,
      Memory!pmm_allocate_pages, MemoryP!pmm_allocate_pages, Memory!Marked, MemoryP!Marked,
      Memory!TableOf, MemoryP!TableOf, Memory!Override, MemoryP!Override,
      Memory!Without, MemoryP!Without, Memory!Pages, MemoryP!Pages,
      Memory!PlacePage, MemoryP!PlacePage, Memory!pmm_get_page, MemoryP!pmm_get_page,
      Memory!pmm_map_page, MemoryP!pmm_map_page,
      Memory!MoreToIdentityMap, MemoryP!MoreToIdentityMap,
      Memory!IdentityMapPage, MemoryP!IdentityMapPage,
      Memory!StartHeapLoop, MemoryP!StartHeapLoop, Memory!HeapMapPage, MemoryP!HeapMapPage,
      Memory!HeapMapPanics, MemoryP!HeapMapPanics,
      Memory!EnablePaging, MemoryP!EnablePaging,
      Memory!HeapAllocFails, MemoryP!HeapAllocFails,
      Memory!WindowExceeded, MemoryP!WindowExceeded,
      Memory!HeapAllocPanics, MemoryP!HeapAllocPanics,
      Memory!HeapLocationAfter, MemoryP!HeapLocationAfter,
      Memory!HeapAllocMaps, MemoryP!HeapAllocMaps, Memory!Cleared, MemoryP!Cleared,
      Memory!Flushed, MemoryP!Flushed, Memory!pmm_free_pages, MemoryP!pmm_free_pages,
      Memory!Touched, MemoryP!Touched, Memory!Touch, MemoryP!Touch,
      Memory!Evict, MemoryP!Evict, Memory!Halted, MemoryP!Halted,
      Memory!BootStep, MemoryP!BootStep, Memory!Next, MemoryP!Next, Memory!Min, MemoryP!Min,
      Memory!Cardinality, MemoryP!Cardinality

----------------------------------------------------------------------------
(* The inductive invariant.                                                *)

\* What the memory manager has handed out is what the majors were made of, and
\* both count it alike, in pages and in bytes.
RunsHeld ==
    /\ blocks = {Run(M) : M \in DOMAIN major}
    /\ \A M \in DOMAIN major : /\ M = (M \div PageSize) * PageSize
                               /\ major[M].size = major[M].pages * PageSize

KInv == HeapP!IInv /\ MemoryP!IInv /\ RunsHeld

\* A live allocation keeps its pages in a step.
ContentsStay ==
    \A m \in DOMAIN minor \cap DOMAIN minor' :
        \A v \in PagesOf(m, Heap!EndOfMinor(m)) :
            v \in DOMAIN pt' /\ pt'[v] = pt[v]

\* The numbers the two components share are numbers.
LEMMA Typed ==
    ASSUME KInv
    PROVE  /\ PageSize \in Nat \ {0} /\ MajorSize \in Nat /\ MinorSize \in Nat
           /\ heap_location \in Nat
           /\ DOMAIN major \subseteq Nat /\ DOMAIN minor \subseteq Nat
           /\ \A M \in DOMAIN major : major[M].pages \in Nat /\ major[M].size \in Nat
           /\ \A m \in DOMAIN minor : /\ minor[m].block \in DOMAIN major
                                      /\ minor[m].size \in Nat
<1>1. PageSize \in Nat \ {0} /\ MajorSize \in Nat /\ MinorSize \in Nat
  BY Assumptions DEF HeapP!SizesAssumption
<1>2. HeapStart \in Nat /\ HeapPages \in Nat
  BY Assumptions DEF HeapP!SizesAssumption
<1> QED
  BY <1>1, <1>2 DEF KInv, HeapP!IInv, HeapP!HeapSound, HeapP!MajorsTyped, HeapP!MinorsTyped,
                    HeapP!NULL, HeapP!HeapEnd

\* liballoc asks for runs only in a call, and for one of the sizes Pmm has.
LEMMA WantedIsRequest ==
    ASSUME KInv, HeapP!InCall
    PROVE  Wanted \in {Heap!PagesFor(Heap!SizeFor(req)) : req \in ReqSizes}
<1>1. call.req \in ReqSizes /\ call.size = HeapP!SizeFor(call.req)
  BY DEF KInv, HeapP!IInv, HeapP!CallSound, HeapP!Requested
<1>2. call.size = Heap!SizeFor(call.req)
  BY <1>1 DEF HeapP!SizeFor, Heap!SizeFor
<1> QED BY <1>1, <1>2 DEF Wanted

\* Different majors are different runs.
LEMMA RunsDiffer ==
    ASSUME KInv, NEW M \in DOMAIN major, NEW N \in DOMAIN major, Run(M) = Run(N)
    PROVE  M = N
<1>1. M \div PageSize = N \div PageSize
  BY DEF Run
<1> QED BY <1>1 DEF KInv, RunsHeld

\* A step of the memory manager's is one its proofs are about.
LEMMA MemoryMoves ==
    ASSUME KInv, Memory!Next \/ UNCHANGED <<memory, heap_location>>
    PROVE  /\ MemoryP!IInv' /\ MemoryP!LivePagesStay
           /\ [Memory!Next]_<<memory, heap_location>>
<1>1. [MemoryP!Next]_(MemoryP!vars)
  BY SameMemory DEF memory, MemoryP!vars
<1>2. MemoryP!IInv' /\ MemoryP!LivePagesStay
  BY <1>1, MemoryP!StepInv, MemoryP!LivePagesStep, Assumptions DEF KInv
<1> QED BY <1>2

\* A step of liballoc's, and what it does to the majors.
LEMMA HeapMoves ==
    ASSUME KInv, Heap!Next \/ UNCHANGED <<heap, call, heap_location>>
    PROVE  /\ HeapP!IInv' /\ HeapP!ExtentsKept
           /\ HeapP!Grown \/ HeapP!Shrunk \/ HeapP!Steady
<1>1. [HeapP!Next]_(HeapP!vars)
  BY SameHeap DEF heap, HeapP!vars
<1> QED BY <1>1, HeapP!IInvStep, HeapP!StepShape, Assumptions DEF KInv

\* The boot loops run before liballoc does.
LEMMA BootAgrees ==
    ASSUME KInv, Boot
    PROVE  /\ Memory!Next \/ UNCHANGED <<memory, heap_location>>
           /\ Heap!Next \/ UNCHANGED <<heap, call, heap_location>>
           /\ RunsHeld'
<1>1. Memory!BootStep /\ UNCHANGED <<heap, call>>
  BY DEF Boot
<1>2. UNCHANGED <<heap_location, blocks>>
  BY <1>1 DEF Memory!BootStep, Memory!IdentityMapPage, Memory!StartHeapLoop,
              Memory!HeapMapPage, Memory!HeapMapPanics, Memory!EnablePaging
<1>3. RunsHeld'
  BY <1>1, <1>2 DEF KInv, RunsHeld, heap, Run
<1> QED BY <1>1, <1>2, <1>3 DEF Memory!Next

\* A page number comes back from the address of the page.
LEMMA PageBack ==
    ASSUME NEW p \in Nat, NEW d \in Nat \ {0}
    PROVE  (p * d) \div d = p
  OBVIOUS

\* Whichever hook a step of liballoc's takes, it is a call the memory manager is
\* made for, and the runs held are again those of the majors.
LEMMA ServeAgrees ==
    ASSUME KInv, Serve
    PROVE  (Memory!Next \/ UNCHANGED <<memory, heap_location>>) /\ RunsHeld'
<1>1. Heap!Next /\ mode = "running" /\ call.op # "halted"
  BY DEF Serve
<1>2. /\ HeapP!IInv' /\ HeapP!ExtentsKept
      /\ HeapP!Grown \/ HeapP!Shrunk \/ HeapP!Steady
  BY <1>1, HeapMoves
<1>3. /\ PageSize \in Nat \ {0} /\ heap_location \in Nat
      /\ blocks = {Run(M) : M \in DOMAIN major}
      /\ \A M \in DOMAIN major : /\ M = (M \div PageSize) * PageSize
                                 /\ major[M].size = major[M].pages * PageSize
  BY Typed DEF KInv, RunsHeld
<1>4. \A M \in DOMAIN major \cap DOMAIN major' :
          /\ major'[M].pages = major[M].pages /\ major'[M].size = major[M].size
          /\ Run(M)' = Run(M)
  BY <1>2 DEF HeapP!ExtentsKept, Run
<1>5. CASE AllocHook
  <2>1. PICK N \in DOMAIN major' \ DOMAIN major :
            Memory!HeapAllocMaps(Wanted) /\ N = heap_location * PageSize
    BY <1>5 DEF AllocHook
  <2>2. HeapP!Grown
    BY <1>2, <2>1 DEF HeapP!Shrunk, HeapP!Steady
  <2>3. /\ HeapP!InCall /\ DOMAIN major' = DOMAIN major \cup {N}
        /\ major'[N].pages = HeapP!PagesFor(call.size)
        /\ major'[N].size = HeapP!PagesFor(call.size) * PageSize
    BY <2>1, <2>2 DEF HeapP!Grown
  <2>4. Wanted = HeapP!PagesFor(call.size)
    BY DEF Wanted, Heap!PagesFor, HeapP!PagesFor, Heap!Max, HeapP!Max
  <2>5. Memory!Next
    BY <2>1, <2>3, WantedIsRequest DEF Memory!Next
  <2>6. N \div PageSize = heap_location
    BY <1>3, <2>1, PageBack
  <2>7. Run(N)' = [start |-> heap_location, pages |-> Wanted]
    BY <2>3, <2>4, <2>6 DEF Run
  <2>8. blocks' = blocks \cup {[start |-> heap_location, pages |-> Wanted]}
    BY <2>1 DEF Memory!HeapAllocMaps
  <2>9. blocks' = {Run(M)' : M \in DOMAIN major'}
    BY <1>3, <1>4, <2>1, <2>3, <2>7, <2>8
  <2>10. \A M \in DOMAIN major' : /\ M = (M \div PageSize) * PageSize
                                  /\ major'[M].size = major'[M].pages * PageSize
    BY <1>3, <1>4, <2>1, <2>3, <2>6
  <2> QED BY <2>5, <2>9, <2>10 DEF RunsHeld, Run
<1>6. CASE RefusedHook
  <2>1. call'.op = "halted"
    BY <1>6 DEF RefusedHook
  <2>2. HeapP!Steady
    BY <1>2, <2>1 DEF HeapP!Grown, HeapP!Shrunk
  <2>3. DOMAIN major' = DOMAIN major /\ HeapP!InCall
    BY <1>1, <2>1, <2>2 DEF HeapP!Steady
  <2>4. Memory!Next /\ blocks' = blocks
    BY <1>6, <2>3, WantedIsRequest
    DEF RefusedHook, Memory!Next, Memory!HeapAllocPanics, Memory!HeapAllocFails, Memory!vars
  <2> QED BY <1>3, <1>4, <2>3, <2>4 DEF RunsHeld, Run
<1>7. CASE FreeHook
  <2>1. PICK B \in DOMAIN major \ DOMAIN major' : Memory!pmm_free_pages(Run(B))
    BY <1>7 DEF FreeHook, GivenBack
  <2>2. DOMAIN major' = DOMAIN major \ {B}
    BY <1>2, <2>1 DEF HeapP!Grown, HeapP!Shrunk, HeapP!Steady
  <2>3. Run(B) \in blocks
    BY <1>3, <2>1
  <2>4. Memory!Next
    BY <2>1, <2>3 DEF Memory!Next
  <2>5. blocks' = blocks \ {Run(B)}
    BY <2>1 DEF Memory!pmm_free_pages
  <2>6. \A M \in DOMAIN major' : M # B /\ Run(M) # Run(B)
    BY <2>1, <2>2, RunsDiffer
  <2>7. blocks' = {Run(M)' : M \in DOMAIN major'}
    BY <1>3, <1>4, <2>1, <2>2, <2>5, <2>6
  <2>8. \A M \in DOMAIN major' : /\ M = (M \div PageSize) * PageSize
                                 /\ major'[M].size = major'[M].pages * PageSize
    BY <1>3, <1>4, <2>2
  <2> QED BY <2>4, <2>7, <2>8 DEF RunsHeld, Run
<1>8. CASE NoHook
  <2>1. DOMAIN major' = DOMAIN major /\ UNCHANGED memory
    BY <1>8 DEF NoHook
  <2>2. HeapP!Steady
    BY <1>2, <2>1 DEF HeapP!Grown, HeapP!Shrunk
  <2>3. UNCHANGED heap_location /\ blocks' = blocks
    BY <2>1, <2>2 DEF HeapP!Steady, memory
  <2> QED BY <1>3, <1>4, <2>1, <2>3 DEF RunsHeld, Run
<1> QED BY <1>5, <1>6, <1>7, <1>8 DEF Serve

\* The invariant is inductive, and a step is one of the memory manager or none.
LEMMA KInvStep ==
    ASSUME KInv, [Next]_vars
    PROVE  /\ KInv' /\ MemoryP!LivePagesStay /\ HeapP!ExtentsKept
           /\ [Memory!Next]_<<memory, heap_location>>
<1>1. /\ Memory!Next \/ UNCHANGED <<memory, heap_location>>
      /\ Heap!Next \/ UNCHANGED <<heap, call, heap_location>>
      /\ RunsHeld'
  <2>1. CASE Boot
    BY <2>1, BootAgrees
  <2>2. CASE Serve
    BY <2>2, ServeAgrees DEF Serve
  <2>3. CASE UNCHANGED vars
    BY <2>3 DEF vars, memory, heap, KInv, RunsHeld, Run
  <2> QED BY <2>1, <2>2, <2>3 DEF Next, Halted
<1> QED BY <1>1, MemoryMoves, HeapMoves DEF KInv

\* Nothing is handed out and no major made before the kernel boots.
LEMMA KInvInit == Init => KInv
<1> SUFFICES ASSUME Init PROVE KInv
  OBVIOUS
<1>1. MemoryP!Init
  BY DEF Init, Memory!Init, MemoryP!Init
<1>2. MemoryP!IInv
  BY <1>1, MemoryP!InitInv, Assumptions
<1>3. HeapP!Init
  BY DEF Init, Heap!Init, HeapP!Init, Heap!NewMajor, HeapP!NewMajor, Heap!Idle, HeapP!Idle,
         Heap!NULL, HeapP!NULL
<1>4. HeapP!IInv
  BY <1>3, HeapP!IInvInit, Assumptions
<1>5. DOMAIN major = {} /\ blocks = {}
  BY DEF Init, Memory!Init, Heap!Init
<1> QED BY <1>2, <1>4, <1>5 DEF KInv, RunsHeld

\* Bytes from a up to b inside n pages from page k on are on those pages.
LEMMA OnThePages ==
    ASSUME NEW k \in Nat, NEW n \in Nat, NEW d \in Nat \ {0}, NEW a \in Nat, NEW b \in Nat \ {0},
           k * d <= a, b <= k * d + n * d, NEW v \in (a \div d)..((b - 1) \div d)
    PROVE  v \in k..(k + n - 1)
<1>1. v \in Int /\ a \div d \in Int /\ (b - 1) \div d \in Int
  OBVIOUS
<1>2. k <= a \div d
  OBVIOUS
<1>3. (b - 1) \div d < k + n
  <2> DEFINE q == (b - 1) \div d
  <2>1. q * d <= b - 1
    OBVIOUS
  <2>2. b - 1 < (k + n) * d
    <3>1. (k + n) * d = k * d + n * d
      OBVIOUS
    <3> QED BY <3>1
  <2> QED BY <1>1, <2>1, <2>2
<1> QED BY <1>1, <1>2, <1>3

\* A live allocation lies on the pages of its major's run, and that run stays held.
LEMMA ContentsStep ==
    ASSUME KInv, [Next]_vars
    PROVE  ContentsStay
<1>1. KInv' /\ MemoryP!LivePagesStay /\ HeapP!ExtentsKept
  BY KInvStep
<1> SUFFICES ASSUME NEW m \in DOMAIN minor, m \in DOMAIN minor',
                    NEW v \in PagesOf(m, Heap!EndOfMinor(m))
             PROVE  v \in DOMAIN pt' /\ pt'[v] = pt[v]
  BY DEF ContentsStay
<1>2. PICK M \in DOMAIN major : M = minor[m].block
  BY Typed
<1>3. M \in DOMAIN major'
  <2>1. minor'[m].block = M
    BY <1>1, <1>2 DEF HeapP!ExtentsKept
  <2> QED BY <1>1, <2>1 DEF KInv, HeapP!IInv, HeapP!HeapSound, HeapP!MinorsTyped
<1>4. Run(M)' = Run(M)
  BY <1>1, <1>2, <1>3 DEF HeapP!ExtentsKept, Run
<1>5. Run(M) \in blocks /\ Run(M) \in blocks'
  <2>1. Run(M)' \in blocks'
    BY <1>1, <1>3 DEF KInv, RunsHeld, Run
  <2> QED BY <1>2, <1>4, <2>1 DEF KInv, RunsHeld
<1>6. v \in MemoryP!Pages(Run(M))
  <2>1. /\ PageSize \in Nat \ {0} /\ MajorSize \in Nat /\ MinorSize \in Nat \ {0}
        /\ m \in Nat /\ minor[m].size \in Nat /\ M \in Nat
        /\ major[M].pages \in Nat /\ major[M].size \in Nat
    BY <1>2, Typed, Assumptions DEF HeapP!SizesAssumption
  <2>2. /\ M + MajorSize <= m
        /\ m + MinorSize + minor[m].size <= M + major[M].size
    BY <1>2 DEF KInv, HeapP!IInv, HeapP!HeapSound, HeapP!AllocationsDisjoint,
                HeapP!EndOfMinor, HeapP!EndOfMajor
  <2> DEFINE k == M \div PageSize
             n == major[M].pages
             e == m + MinorSize + minor[m].size
  <2>3. M = k * PageSize /\ major[M].size = n * PageSize
    BY <1>2 DEF KInv, RunsHeld
  <2>4. k \in Nat /\ n \in Nat /\ e \in Nat \ {0}
    BY <2>1
  <2>5. k * PageSize <= m /\ e <= k * PageSize + n * PageSize
    BY <2>1, <2>2, <2>3
  <2>6. v \in (m \div PageSize)..((e - 1) \div PageSize)
    BY DEF PagesOf, Heap!EndOfMinor
  <2> HIDE DEF k, n, e
  <2>7. v \in k..(k + n - 1)
    BY <2>1, <2>4, <2>5, <2>6, OnThePages
  <2>8. MemoryP!Pages(Run(M)) = k..(k + n - 1)
    BY DEF MemoryP!Pages, Run, k, n
  <2> QED BY <2>7, <2>8
<1> QED BY <1>1, <1>5, <1>6 DEF MemoryP!LivePagesStay

----------------------------------------------------------------------------
(* The theorems.                                                           *)

\* liballoc and the memory manager are each in the states their own proofs are
\* about, and agree on the runs handed out.
THEOREM AccountsAgree == Spec => []KInv
<1>1. KInv /\ [Next]_vars => KInv'
  BY KInvStep
<1> QED BY <1>1, KInvInit, PTL DEF Spec

\* liballoc asks only for runs of sizes the memory manager is proved for, and gives
\* back exactly a run it was handed, whatever is allocated, freed and resized: so
\* all that is proved of Pmm holds of the memory manager under liballoc.
THEOREM HooksAgree == Spec => HooksAgreed
<1>1. KInv /\ [Next]_vars => [Memory!Next]_<<memory, heap_location>>
  BY KInvStep
<1> QED BY <1>1, AccountsAgree, PTL DEF Spec, HooksAgreed

\* No step of either component moves a page under a live allocation: what the
\* kernel wrote to it is what it reads.
THEOREM ContentsStayPut == Spec => ContentsKept
<1>1. KInv /\ [Next]_vars => [ContentsStay]_vars
  BY ContentsStep
<1> QED BY <1>1, AccountsAgree, PTL DEF Spec, ContentsKept, ContentsStay
=============================================================================
