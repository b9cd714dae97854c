------------------------------ MODULE Liballoc ------------------------------
(***************************************************************************)
(* The kernel's heap allocator (kernel/kernel/liballoc.c): kmalloc, kfree  *)
(* and krealloc over blocks of pages obtained from the page allocator.     *)
(*                                                                         *)
(* Memory holds two kinds of headers, each the value of a function from    *)
(* its address: a major at the start of every run of pages, and a minor in *)
(* front of every allocation.  Both are doubly linked lists with NULL = 0. *)
(* malloc is a search with several loops; each action is one iteration, so *)
(* the code's own control flow decides where an allocation goes.           *)
(***************************************************************************)
EXTENDS Integers, FiniteSets, FiniteSetsExt, Functions

CONSTANTS
    PageSize,       \* l_pageSize (4096)
    PageCount,      \* l_pageCount (16)
    MajorSize,      \* sizeof(struct liballoc_major) (24)
    MinorSize,      \* sizeof(struct liballoc_minor) (24)
    Alignment,      \* ALIGNMENT (16)
    AlignInfo,      \* ALIGN_INFO (16)
    HeapStart,      \* HEAP_START, as a page number
    HeapPages,      \* HEAP_INITIAL_SIZE in pages (256)
    ReqSizes        \* sizes the kernel asks for

ASSUME SizesAssumption ==
    /\ {PageSize, PageCount, MajorSize, MinorSize} \subseteq Nat \ {0}
    /\ {Alignment, AlignInfo} \subseteq Nat \ {0}
    /\ {HeapStart, HeapPages} \subseteq Nat \ {0}
    /\ ReqSizes \subseteq Nat

VARIABLES
    major,          \* address -> struct liballoc_major
    minor,          \* address -> struct liballoc_minor with LIBALLOC_MAGIC
    l_memRoot, l_bestBet, l_allocated, l_inuse,
    heap_location,  \* next page the page allocator hands out
    call            \* the call in progress and its local variables

heap == <<major, minor, l_memRoot, l_bestBet, l_allocated, l_inuse>>
vars == <<major, minor, l_memRoot, l_bestBet, l_allocated, l_inuse, heap_location, call>>

NULL == 0

Idle == [op |-> "idle", req |-> 0, size |-> 0, maj |-> NULL, min |-> NULL,
         startedBet |-> FALSE, bestSize |-> 0, old |-> NULL]

----------------------------------------------------------------------------
(* Sizes and gaps.                                                         *)

\* Mutant: no room for the word that ALIGN leaves below the pointer.
ForgetsAlignInfo(req) == req + Alignment

\* size, what malloc reserves for a request: room to align the pointer.
SizeFor(req) == req + Alignment + AlignInfo

\* ALIGN: the offset from the minor's payload to the pointer handed out, which
\* is also the word it leaves ALIGN_INFO bytes below that pointer.
AlignDiff(p) == AlignInfo + ((Alignment - ((p + AlignInfo) % Alignment)) % Alignment)

\* Mutant: the page count is rounded down.
RoundsDown(size) == Max({(size + MajorSize + MinorSize) \div PageSize, PageCount})

\* allocate_new_page: the pages of a major that is to hold size bytes.
PagesFor(size) ==
    Max({(size + MajorSize + MinorSize + PageSize - 1) \div PageSize, PageCount})

EndOfMinor(m) == m + MinorSize + minor[m].size
EndOfMajor(M) == M + major[M].size

\* diff in CASE 1, and the room a new minor takes.
Free(M) == major[M].size - major[M].usage
Room == call.size + MinorSize

\* diff in CASE 3.
FrontGap(M) == major[M].first - M - MajorSize

\* diff in CASE 4.1 (the last minor of the block) and 4.2 (between two).
GapAfter(m) ==
    (IF minor[m].next = NULL THEN EndOfMajor(minor[m].block) ELSE minor[m].next)
        - EndOfMinor(m)

----------------------------------------------------------------------------
(* liballoc_alloc and allocate_new_page.                                   *)

HeapEnd == HeapStart + HeapPages
PagesLeft(n) == heap_location + n <= HeapEnd

\* The header of a new major; the page allocator returns heap_location.
NewMajor(size, prev) ==
    [prev |-> prev, next |-> NULL, pages |-> PagesFor(size),
     size |-> PagesFor(size) * PageSize, usage |-> MajorSize, first |-> NULL]

\* A new major linked after the major `last' (NULL: there is none).
AppendMajor(last) ==
    LET M == heap_location * PageSize
        new == NewMajor(call.size, last) IN
    /\ major' = [X \in DOMAIN major \cup {M} |->
                    IF X = M THEN new
                    ELSE IF X = last THEN [major[X] EXCEPT !.next = M]
                    ELSE major[X]]
    /\ l_allocated' = l_allocated + new.size
    /\ heap_location' = heap_location + new.pages

\* The page allocator refuses, for want of heap or of frames: it panics, or it
\* returns its error value, which is not NULL, and the store to the header faults.
HeapExhausted ==
    /\ call' = [Idle EXCEPT !.op = "halted"]
    /\ UNCHANGED <<heap, heap_location>>

----------------------------------------------------------------------------
(* malloc.                                                                 *)

Init ==
    /\ major = [M \in {} |-> NewMajor(0, NULL)]
    /\ minor = [m \in {} |-> Idle]
    /\ l_memRoot = NULL /\ l_bestBet = NULL
    /\ l_allocated = 0 /\ l_inuse = 0
    /\ heap_location = HeapStart
    /\ call = Idle

Starting(req, old) ==
    [Idle EXCEPT !.op = "start", !.req = req, !.size = SizeFor(req), !.old = old]

\* kmalloc(req), and kcalloc, which clears what kmalloc returns.
Malloc(req) ==
    /\ call.op = "idle"
    /\ call' = Starting(req, NULL)
    /\ UNCHANGED <<heap, heap_location>>

\* "This is the first time we are being used", or nothing is allocated any more.
CreateRoot ==
    /\ call.op = "start" /\ l_memRoot = NULL
    /\ \/ /\ PagesLeft(PagesFor(call.size))
          /\ AppendMajor(NULL)
          /\ l_memRoot' = heap_location * PageSize
          /\ UNCHANGED <<minor, l_bestBet, l_inuse, call>>
       \/ HeapExhausted

\* "Start at the best bet...."
StartSearch ==
    LET best == IF l_bestBet = NULL THEN 0 ELSE Free(l_bestBet)
        bet == l_bestBet # NULL /\ best > Room IN
    /\ call.op = "start" /\ l_memRoot # NULL
    /\ call' = [call EXCEPT !.op = "search", !.bestSize = best,
                            !.startedBet = bet,
                            !.maj = IF bet THEN l_bestBet ELSE l_memRoot]
    /\ UNCHANGED <<heap, heap_location>>

\* The top of the loop over majors: "this one has more memory then our bestBet".
BetterBet == call.bestSize < Free(call.maj)
RememberBet == l_bestBet' = IF BetterBet THEN call.maj ELSE l_bestBet
ConsiderBet(next) ==
    /\ RememberBet
    /\ call' = [next EXCEPT !.bestSize = IF BetterBet THEN Free(call.maj) ELSE @]

Searching == call.op = "search"
Sufficient == Free(call.maj) >= Room

\* CASE 1 with another major next to this one.
Case1Hop ==
    /\ Searching /\ ~Sufficient
    /\ major[call.maj].next # NULL
    /\ ConsiderBet([call EXCEPT !.maj = major[call.maj].next])
    /\ UNCHANGED <<major, minor, l_memRoot, l_allocated, l_inuse, heap_location>>

\* Mutant: the search starts again at the root without clearing startedBet.
RestartsForEver == [call EXCEPT !.op = "search", !.maj = l_memRoot]

AtRoot == [call EXCEPT !.op = "search", !.maj = l_memRoot, !.startedBet = FALSE]

\* Mutant: the search ends at the last major wherever it started.
NeverRestarts == FALSE

MayRestart == call.startedBet

\* CASE 1 at the last major, the search having started at the best bet.
Case1Restart ==
    /\ Searching /\ ~Sufficient
    /\ major[call.maj].next = NULL /\ MayRestart
    /\ ConsiderBet(AtRoot)
    /\ UNCHANGED <<major, minor, l_memRoot, l_allocated, l_inuse, heap_location>>

\* CASE 1 at the last major: a new major, which goes on at CASE 2.
Case1Grow ==
    /\ Searching /\ ~Sufficient
    /\ major[call.maj].next = NULL /\ ~MayRestart
    /\ \/ /\ PagesLeft(PagesFor(call.size))
          /\ AppendMajor(call.maj)
          /\ ConsiderBet([call EXCEPT !.op = "fresh", !.maj = heap_location * PageSize])
          /\ UNCHANGED <<minor, l_memRoot, l_inuse>>
       \/ HeapExhausted

\* The allocation is made and malloc returns; krealloc goes on to copy.
Returned(m) ==
    IF call.old = NULL THEN Idle
    ELSE [Idle EXCEPT !.op = "copy", !.old = call.old, !.min = m]

\* Mutant: CASE 4.2 leaves out min->next->prev = new_min.
ForgetsNextPrev(m, prev, next) ==
    [x \in DOMAIN minor \cup {m} |->
        IF x = m THEN [prev |-> prev, next |-> next, block |-> call.maj,
                       size |-> call.size, req_size |-> call.req]
        ELSE IF x = prev THEN [minor[x] EXCEPT !.next = m]
        ELSE minor[x]]

\* The header of the new minor m, linked between its neighbours.
LinkedMinors(m, prev, next) ==
    [x \in DOMAIN minor \cup {m} |->
        IF x = m THEN [prev |-> prev, next |-> next, block |-> call.maj,
                       size |-> call.size, req_size |-> call.req]
        ELSE IF x = prev THEN [minor[x] EXCEPT !.next = m]
        ELSE IF x = next THEN [minor[x] EXCEPT !.prev = m]
        ELSE minor[x]]

\* What CASES 2, 3 and 4 do once they have found a gap at m.
Place(m, prev, next) ==
    /\ minor' = LinkedMinors(m, prev, next)
    /\ major' = [major EXCEPT ![call.maj].usage = @ + Room,
                              ![call.maj].first = IF prev = NULL THEN m ELSE @]
    /\ l_inuse' = l_inuse + call.size
    /\ call' = Returned(m)
    /\ UNCHANGED <<l_memRoot, l_allocated, heap_location>>

\* CASE 2: the block is brand new (or "fresh", falling through from CASE 1).
Case2 ==
    /\ \/ Searching /\ Sufficient /\ RememberBet
       \/ call.op = "fresh" /\ UNCHANGED l_bestBet
    /\ major[call.maj].first = NULL
    /\ Place(call.maj + MajorSize, NULL, NULL)

FrontFits == FrontGap(call.maj) >= Room

\* CASE 3: "Yes, space in front. Squeeze in."
Case3 ==
    /\ Searching /\ Sufficient
    /\ major[call.maj].first # NULL
    /\ FrontFits
    /\ RememberBet
    /\ Place(call.maj + MajorSize, NULL, major[call.maj].first)

\* CASE 4: "There is enough space in this block. But is it contiguous?"
EnterBlock ==
    /\ Searching /\ Sufficient
    /\ major[call.maj].first # NULL
    /\ ~FrontFits
    /\ ConsiderBet([call EXCEPT !.op = "minors", !.min = major[call.maj].first])
    /\ UNCHANGED <<major, minor, l_memRoot, l_allocated, l_inuse, heap_location>>

InMinors == call.op = "minors" /\ call.min # NULL

\* CASE 4.1: the rest of the block after its last minor is big enough.
Case4End ==
    /\ InMinors
    /\ minor[call.min].next = NULL
    /\ GapAfter(call.min) >= Room
    /\ Place(EndOfMinor(call.min), call.min, NULL)
    /\ UNCHANGED l_bestBet

\* CASE 4.2: the space between two minors is.
Case4Between ==
    /\ InMinors
    /\ minor[call.min].next # NULL
    /\ GapAfter(call.min) >= Room
    /\ Place(EndOfMinor(call.min), call.min, minor[call.min].next)
    /\ UNCHANGED l_bestBet

NextMinor ==
    /\ InMinors
    /\ GapAfter(call.min) < Room
    /\ call' = [call EXCEPT !.min = minor[call.min].next]
    /\ UNCHANGED <<heap, heap_location>>

BlockFull == call.op = "minors" /\ call.min = NULL

\* CASE 5, "Block full! Ensure next block and loop": there is a next block.
Case5Hop ==
    /\ BlockFull
    /\ major[call.maj].next # NULL
    /\ call' = [call EXCEPT !.op = "search", !.maj = major[call.maj].next]
    /\ UNCHANGED <<heap, heap_location>>

\* There is none, but the search did not start at the root.
Case5Restart ==
    /\ BlockFull
    /\ major[call.maj].next = NULL /\ MayRestart
    /\ call' = AtRoot
    /\ UNCHANGED <<heap, heap_location>>

\* "we've run out. we need more..."
Case5Grow ==
    /\ BlockFull
    /\ major[call.maj].next = NULL /\ ~MayRestart
    /\ \/ /\ PagesLeft(PagesFor(call.size))
          /\ AppendMajor(call.maj)
          /\ call' = [call EXCEPT !.op = "search", !.maj = heap_location * PageSize]
          /\ UNCHANGED <<minor, l_memRoot, l_bestBet, l_inuse>>
       \/ HeapExhausted

----------------------------------------------------------------------------
(* free and realloc.                                                       *)

Unlinked(m) ==
    [x \in DOMAIN minor \ {m} |->
        IF x = minor[m].next THEN [minor[x] EXCEPT !.prev = minor[m].prev]
        ELSE IF x = minor[m].prev THEN [minor[x] EXCEPT !.next = minor[m].next]
        ELSE minor[x]]

\* Mutant: the root major is kept when it empties.
KeepsRootMajor(m) ==
    minor[m].prev = NULL /\ minor[m].next = NULL /\ minor[m].block # l_memRoot

\* The only minor of its major: the major is emptied, unlinked and its pages go
\* back to the page allocator.
EmptiesMajor(m) == minor[m].prev = NULL /\ minor[m].next = NULL

\* Mutant: the best bet is left pointing at the pages given back.
KeepsBet(M) == l_bestBet

\* Mutant: l_memRoot is left pointing at the pages given back.
KeepsRoot(M) == l_memRoot

RootWithout(M) == IF l_memRoot = M THEN major[M].next ELSE l_memRoot

BetWithout(M) == IF l_bestBet = M THEN NULL ELSE l_bestBet

ReleaseMajor(M) ==
    /\ l_memRoot' = RootWithout(M)
    /\ l_bestBet' = BetWithout(M)
    /\ major' = [X \in DOMAIN major \ {M} |->
                    IF X = major[M].prev THEN [major[X] EXCEPT !.next = major[M].next]
                    ELSE IF X = major[M].next THEN [major[X] EXCEPT !.prev = major[M].prev]
                    ELSE major[X]]
    /\ l_allocated' = l_allocated - major[M].size

\* Mutant: the header of the freed minor stays counted.
KeepsHeaderUsage(m) == minor[m].size

\* What a minor takes of its major.
Footprint(m) == minor[m].size + MinorSize

\* The major keeps other minors; it becomes the best bet if it has more room.
ShrinkMajor(M, m) ==
    LET free == Free(M) + Footprint(m) IN
    /\ major' = [major EXCEPT ![M].usage = @ - Footprint(m),
                              ![M].first = IF minor[m].prev = NULL
                                           THEN minor[m].next ELSE @]
    /\ l_bestBet' = IF l_bestBet \notin {NULL, M} /\ free > Free(l_bestBet)
                    THEN M ELSE l_bestBet
    /\ UNCHANGED <<l_memRoot, l_allocated>>

\* kfree of the pointer of minor m, a live allocation.
FreeMinor(m) ==
    /\ minor' = Unlinked(m)
    /\ l_inuse' = l_inuse - minor[m].size
    /\ IF EmptiesMajor(m) THEN ReleaseMajor(minor[m].block)
                          ELSE ShrinkMajor(minor[m].block, m)
    /\ UNCHANGED heap_location

\* kfree, and krealloc to size 0.
Kfree(m) ==
    /\ call.op = "idle"
    /\ FreeMinor(m)
    /\ UNCHANGED call

\* krealloc to a size that fits what was asked for before: only req_size changes.
ReallocInPlace(m, size) ==
    /\ call.op = "idle"
    /\ size > 0 /\ minor[m].req_size >= size
    /\ minor' = [minor EXCEPT ![m].req_size = size]
    /\ UNCHANGED <<major, l_memRoot, l_bestBet, l_allocated, l_inuse, heap_location, call>>

\* krealloc to a larger size: a new allocation first.
ReallocGrow(m, size) ==
    /\ call.op = "idle"
    /\ minor[m].req_size < size
    /\ call' = Starting(size, m)
    /\ UNCHANGED <<heap, heap_location>>

\* ... then real_size bytes are copied and the old allocation is freed.
ReallocRelease ==
    /\ call.op = "copy"
    /\ FreeMinor(call.old)
    /\ call' = Idle

Halted == call.op = "halted" /\ UNCHANGED vars

MallocStep ==
    \/ CreateRoot \/ StartSearch
    \/ Case1Hop \/ Case1Restart \/ Case1Grow
    \/ Case2 \/ Case3
    \/ EnterBlock \/ Case4End \/ Case4Between \/ NextMinor
    \/ Case5Hop \/ Case5Restart \/ Case5Grow
    \/ ReallocRelease

Next ==
    \/ \E req \in ReqSizes : Malloc(req)
    \/ MallocStep
    \/ \E m \in DOMAIN minor :
          \/ Kfree(m)
          \/ \E size \in ReqSizes : ReallocInPlace(m, size) \/ ReallocGrow(m, size)
    \/ Halted

\* Once called, the allocator runs: nothing else executes in the kernel.
Spec == Init /\ [][Next]_vars /\ WF_vars(MallocStep)

----------------------------------------------------------------------------
(* Properties.                                                             *)

MinorsOf(M) == {m \in DOMAIN minor : minor[m].block = M}

\* The shapes of the C structures and locals: every pointer is NULL or leads to
\* a header that is there.  That the counters never go below zero, as unsigned
\* numbers would, is part of AccountsExact.
TypeOK ==
    /\ DOMAIN major \subseteq Nat \ {NULL}
    /\ major \in [DOMAIN major ->
            [prev : DOMAIN major \cup {NULL}, next : DOMAIN major \cup {NULL},
             pages : Nat, size : Nat, usage : Int, first : DOMAIN minor \cup {NULL}]]
    /\ DOMAIN minor \subseteq Nat \ {NULL}
    /\ minor \in [DOMAIN minor ->
            [prev : DOMAIN minor \cup {NULL}, next : DOMAIN minor \cup {NULL},
             block : DOMAIN major, size : Nat, req_size : Nat]]
    /\ l_memRoot \in DOMAIN major \cup {NULL}
    /\ l_bestBet \in DOMAIN major \cup {NULL}
    /\ l_allocated \in Int /\ l_inuse \in Int
    /\ heap_location \in HeapStart..HeapEnd
    /\ call \in [op : {"idle", "start", "search", "fresh", "minors", "copy", "halted"},
                 req : Nat, size : Nat, bestSize : Int, startedBet : BOOLEAN,
                 maj : DOMAIN major \cup {NULL},
                 min : DOMAIN minor \cup {NULL}, old : DOMAIN minor \cup {NULL}]

\* The list over a set of addresses runs through all of them upwards.
IsFirst(f, S) ==
    \/ f = NULL /\ S = {}
    \/ f \in S /\ \A y \in S : f <= y
IsNext(n, x, S) ==
    \/ n = NULL /\ \A y \in S : y <= x
    \/ n \in S /\ n > x /\ \A y \in S : y <= x \/ n <= y
IsPrev(p, x, S) ==
    \/ p = NULL /\ \A y \in S : x <= y
    \/ p \in S /\ p < x /\ \A y \in S : x <= y \/ y <= p

\* From l_memRoot the majors are linked both ways in address order, none left
\* out, whichever were freed and wherever new ones were appended.
MajorListSound ==
    /\ IsFirst(l_memRoot, DOMAIN major)
    /\ \A M \in DOMAIN major :
          /\ IsNext(major[M].next, M, DOMAIN major)
          /\ IsPrev(major[M].prev, M, DOMAIN major)

\* So are the minors of each major, wherever CASES 2 to 4 put a new one and
\* whichever was unlinked.
MinorListsSound ==
    /\ \A M \in DOMAIN major : IsFirst(major[M].first, MinorsOf(M))
    /\ \A m \in DOMAIN minor :
          LET S == MinorsOf(minor[m].block) IN
          IsNext(minor[m].next, m, S) /\ IsPrev(minor[m].prev, m, S)

\* Both levels of lists stay whole through every history of calls.
ListsSound == MajorListSound /\ MinorListsSound

\* Allocations, headers included, lie inside their major past its header and
\* never overlap; nor do majors.
AllocationsDisjoint ==
    /\ \A m \in DOMAIN minor :
          /\ minor[m].block + MajorSize <= m
          /\ EndOfMinor(m) <= EndOfMajor(minor[m].block)
    /\ \A m, n \in DOMAIN minor : m < n => EndOfMinor(m) <= n
    /\ \A M, N \in DOMAIN major : M < N => EndOfMajor(M) <= N
    /\ \A M \in DOMAIN major : EndOfMajor(M) <= heap_location * PageSize

\* The pointer ALIGN makes of an allocation is aligned, leaves room below it for
\* the word UNALIGN reads and above it for the bytes asked for, and the word
\* passes UNALIGN's test, so that kfree finds the header again.
PointersSound ==
    \A m \in DOMAIN minor :
        LET p == m + MinorSize
            diff == AlignDiff(p) IN
        /\ (p + diff) % Alignment = 0
        /\ p + diff - AlignInfo >= p
        /\ p + diff + minor[m].req_size <= EndOfMinor(m)
        /\ diff < Alignment + AlignInfo

\* The counters CASE 1 and the best bet rely on are exact: the usage of each major
\* is its header and what its minors take, and the totals are the sums of the sizes
\* of all minors and of all majors.
AccountsExact ==
    LET footprints == [m \in DOMAIN minor |-> Footprint(m)] IN
    /\ \A M \in DOMAIN major :
          major[M].usage = MajorSize + SumFunctionOnSet(footprints, MinorsOf(M))
    /\ l_inuse = SumFunction([m \in DOMAIN minor |-> minor[m].size])
    /\ l_allocated = SumFunction([M \in DOMAIN major |-> major[M].size])

\* Between calls no major is kept without an allocation in it: what is not in
\* use goes back to the page allocator, and all of it once everything is freed.
NoIdleMajor ==
    call.op = "idle" => \A M \in DOMAIN major : MinorsOf(M) # {}

\* A gap of the size searched for, at any address of major M.
HasGap(M) ==
    \E a \in (M + MajorSize)..(EndOfMajor(M) - Room) :
        \A m \in MinorsOf(M) : EndOfMinor(m) <= a \/ a + Room <= m

\* Pages are asked for, and the kernel halts for want of them, only when no major has
\* a gap for the request, wherever the search started and however it restarted.
GrowsOnlyWhenFull ==
    [][(~(DOMAIN major' \subseteq DOMAIN major) \/ (call.op # "halted" /\ call'.op = "halted"))
          => \A M \in DOMAIN major : ~HasGap(M)]_vars

\* Every call returns, or the kernel halts for want of pages: the search, which
\* may start at the best bet and once more at the root, does not go round.
CallsReturn == call.op # "idle" ~> call.op \in {"idle", "halted"}

=============================================================================
