----------------------------- MODULE PmmProofs -----------------------------
(***************************************************************************)
(* What Pmm guarantees for every memory size, kernel image and sequence of *)
(* calls.                                                                  *)
(*                                                                         *)
(* The argument rests on the frames in use being an initial segment of     *)
(* memory (FrameInv).  It makes the first-fit scan of the bitmap return    *)
(* the first frame past the segment (lemma FirstFit), so that an           *)
(* allocation extends the segment and meets no frame that is mapped; and a *)
(* free only ever clears the bit of frame 0, too small a hole for any      *)
(* later request.                                                          *)
(*                                                                         *)
(* All of it assumes that the part of the bitmap nobody clears held zeros  *)
(* (StaleBits = {}); Pmm's KernelIdentityMapped fails without it.          *)
(***************************************************************************)
EXTENDS Pmm, FiniteSetTheorems, TLAPS

----------------------------------------------------------------------------
(* The scan of the bitmap.                                                 *)

\* The segment of frames in use: frames below k, less frame 0 once it was
\* cleared by a free.
Segment(k) ==
    \/ used = 0..(k - 1)
    \/ used = 1..(k - 1) /\ k >= 2

\* A word with a free frame in it is never skipped.
LEMMA FirstWordNotFull ==
    ASSUME 0 \notin used
    PROVE  ~FullWord(WordOf(1))
  <1>1. WordOf(0) = 0 /\ WordOf(1) = 0
    BY BitmapAssumption DEF WordOf
  <1>2. 0 \in Frames
    BY BitmapAssumption DEF Frames
  <1> QED
    BY <1>1, <1>2 DEF FullWord

\* Past the segment the scan has counted exactly the frames since its end.
LEMMA RunLengthPastSegment ==
    ASSUME NEW k \in 0..FrameCount, Segment(k),
           NEW f \in Frames, f >= k
    PROVE  RunLength(f) = f - k + 1
  <1> DEFINE Run == {g \in 0..f :
                        /\ g \notin used
                        /\ \A h \in g..f : h \in used => FullWord(WordOf(h))}
  <1>1. k \in Int /\ f \in Int /\ 0 <= k
    BY BitmapAssumption DEF Frames
  <1>2. \A g \in k..f : g \in Run
    BY <1>1 DEF Segment
  <1>3. \A g \in Run : g >= k
    <2> SUFFICES ASSUME NEW g \in 0..f, g \notin used, g < k,
                        \A h \in g..f : h \in used => FullWord(WordOf(h))
                 PROVE  FALSE
      BY <1>1
    <2>1. g = 0 /\ used = 1..(k - 1) /\ k >= 2
      BY <1>1 DEF Segment
    <2>2. 1 \in g..f /\ 1 \in used
      BY <2>1, <1>1
    <2> QED
      BY <2>1, <2>2, FirstWordNotFull
  <1>4. Run = k..f
    BY <1>1, <1>2, <1>3
  <1>5. RunLength(f) = Cardinality(Run)
    BY DEF RunLength
  <1>6. Cardinality(k..f) = f - k + 1
    BY <1>1, FS_Interval
  <1> QED
    BY <1>4, <1>5, <1>6

\* First fit finds the frame past the segment, or nothing.
LEMMA FirstFit ==
    ASSUME NEW k \in 0..FrameCount, Segment(k),
           NEW n \in Nat \ {0}, n >= 2 \/ used = 0..(k - 1)
    PROVE  pmm_allocate_pages(n) =
               IF k + n <= FrameCount THEN k ELSE OUT_OF_MEMORY
  <1>1. k \in Int /\ 0 <= k /\ FrameCount \in Nat
    BY BitmapAssumption
  <1>2. \A f \in Frames \ used : f >= k \/ (f = 0 /\ n >= 2 /\ k >= 2)
    BY <1>1 DEF Frames, Segment
  <1>3. ASSUME 0 \notin used, n >= 2, k >= 2
        PROVE  RunLength(0) = 1
    <2>1. \A h \in 0..0 : h = 0
      OBVIOUS
    <2>2. {g \in 0..0 : /\ g \notin used
                        /\ \A h \in g..0 : h \in used => FullWord(WordOf(h))} = {0}
      BY <1>3, <2>1
    <2> QED
      BY <2>2, FS_Singleton DEF RunLength
  <1>4. RunEnds(n) = {f \in Frames : f = k + n - 1}
    <2>1. ASSUME NEW f \in RunEnds(n)
          PROVE  f \in Frames /\ f = k + n - 1
      BY <1>1, <1>2, <1>3, RunLengthPastSegment DEF RunEnds, Frames
    <2>2. ASSUME NEW f \in Frames, f = k + n - 1
          PROVE  f \in RunEnds(n)
      <3>1. f >= k /\ f \notin used
        BY <1>1, <2>2 DEF Segment
      <3> QED
        BY <1>1, <2>2, <3>1, RunLengthPastSegment DEF RunEnds, Frames
    <2> QED
      BY <2>1, <2>2
  <1>5. CASE k + n <= FrameCount
    <2>1. RunEnds(n) = {k + n - 1}
      BY <1>1, <1>4, <1>5 DEF Frames
    <2>2. Min(RunEnds(n)) = k + n - 1
      BY <1>1, <2>1 DEF Min
    <2> QED
      BY <1>1, <1>5, <2>1, <2>2 DEF pmm_allocate_pages
  <1>6. CASE ~(k + n <= FrameCount)
    BY <1>1, <1>4, <1>6 DEF pmm_allocate_pages, Frames
  <1> QED
    BY <1>5, <1>6

----------------------------------------------------------------------------
(* The inductive invariant.                                                *)

\* The first k frames are in use and every page is mapped below k, to a frame
\* of its own; pages mapped to the error value exist only until the heap loop
\* meets the exhausted memory that produced them.
FramesUpTo(k) ==
    /\ Segment(k)
    /\ mode \in {"identity", "heap"} => used = 0..(k - 1)
    /\ mode = "identity" => k = IF next <= FrameCount THEN next ELSE FrameCount
    /\ mode # "identity" => k >= 2
    /\ \A v \in DOMAIN pt : pt[v] < k \/ pt[v] = OUT_OF_MEMORY
    /\ \A v, w \in DOMAIN pt : pt[v] = pt[w] => v = w \/ pt[v] = OUT_OF_MEMORY
    /\ (\E v \in DOMAIN pt : pt[v] = OUT_OF_MEMORY) =>
           /\ k = FrameCount
           /\ mode # "running"
           /\ mode = "heap" => next = HeapStart

FrameInv == \E k \in 0..FrameCount : FramesUpTo(k)

\* Blocks exist only once paging is on.
BlockInv ==
    /\ BlocksDisjointAndBacked
    /\ mode \in {"identity", "heap"} => blocks = {} /\ heap_location = HeapStart

IInv == TypeOK /\ FrameInv /\ BlockInv

\* What an allocation returns in a state of the invariant.
LEMMA AllocateInInv ==
    ASSUME NEW k \in 0..FrameCount, FramesUpTo(k), TypeOK,
           NEW n \in Nat \ {0}, n >= 2 \/ mode \in {"identity", "heap"}
    PROVE  pmm_allocate_pages(n) =
               IF k + n <= FrameCount THEN k ELSE OUT_OF_MEMORY
  <1>1. n >= 2 \/ used = 0..(k - 1)
    BY DEF FramesUpTo
  <1> QED
    BY <1>1, FirstFit DEF FramesUpTo

\* At the start nothing is in use, mapped or handed out.
LEMMA InitInv ==
    ASSUME StaleBits = {}
    PROVE  Init => IInv
  <1> SUFFICES ASSUME Init PROVE IInv
    OBVIOUS
  <1>1. TypeOK
    BY BitmapAssumption, HeapAssumption, RequestAssumption
    DEF Init, TypeOK, PartialFunction, HeapEnd
  <1>2. FramesUpTo(0)
    BY BitmapAssumption DEF Init, FramesUpTo, Segment
  <1>3. FrameInv
    BY <1>2, BitmapAssumption DEF FrameInv
  <1>4. BlockInv
    BY DEF Init, BlockInv, BlocksDisjointAndBacked
  <1> QED
    BY <1>1, <1>3, <1>4 DEF IInv

\* Marking the n frames past the segment and mapping pages to them, one each,
\* makes a longer segment in which every page still has a frame of its own.
LEMMA ExtendSegment ==
    ASSUME NEW k \in 0..FrameCount, FramesUpTo(k), TypeOK,
           NEW n \in Nat \ {0}, k + n <= FrameCount,
           NEW S \in SUBSET Nat, NEW m \in [S -> k..(k + n - 1)],
           \A v, w \in S : m[v] = m[w] => v = w,
           used' = Marked(k, n),
           pt' = Override(pt, S, m)
    PROVE  /\ used' \subseteq Frames
           /\ PartialFunction(pt, Nat, Frames)'
           /\ used = 0..(k - 1) => used' = 0..((k + n) - 1)
           /\ used = 1..(k - 1) /\ k >= 2 => used' = 1..((k + n) - 1)
           /\ \A v \in DOMAIN pt' : pt'[v] < k + n /\ pt'[v] # OUT_OF_MEMORY
           /\ \A v, w \in DOMAIN pt' : pt'[v] = pt'[w] => v = w
  <1>1. k \in Nat /\ FrameCount \in Nat
        /\ OUT_OF_MEMORY \in Nat /\ OUT_OF_MEMORY >= FrameCount
    BY BitmapAssumption, OutOfMemoryAssumption
  <1>2. PartialFunction(pt, Nat, Frames \cup {OUT_OF_MEMORY}) /\ used \subseteq Frames
    BY DEF TypeOK
  <1>3. \A v \in DOMAIN pt : pt[v] \in Frames /\ pt[v] < k
    BY <1>1, <1>2 DEF FramesUpTo, PartialFunction, Frames
  <1>4. \A v \in S : m[v] \in Frames /\ m[v] >= k /\ m[v] < k + n
    BY <1>1 DEF Frames
  <1>5. /\ DOMAIN pt' = DOMAIN pt \cup S
        /\ \A v \in S : pt'[v] = m[v]
        /\ \A v \in DOMAIN pt \ S : pt'[v] = pt[v]
    BY DEF Override
  <1>6. pt' \in [DOMAIN pt' -> Frames]
    BY <1>3, <1>4, <1>5 DEF Override
  <1>7. used' = used \cup k..(k + n - 1)
    BY DEF Marked
  <1>8. k..(k + n - 1) \subseteq Frames
    BY <1>1 DEF Frames
  <1>9. used = 0..(k - 1) => used' = 0..((k + n) - 1)
    BY <1>1, <1>7
  <1>10. used = 1..(k - 1) /\ k >= 2 => used' = 1..((k + n) - 1)
    BY <1>1, <1>7
  <1>a. \A v \in S : pt'[v] \in k..(k + n - 1)
    BY <1>5
  <1>b. \A v \in DOMAIN pt' \ S : pt'[v] \in 0..(k - 1)
    <2>1. \A v \in DOMAIN pt : pt[v] \in 0..(k - 1)
      BY <1>1, <1>3 DEF Frames
    <2> QED
      BY <2>1, <1>5
  <1>11. \A v \in DOMAIN pt' : pt'[v] < k + n /\ pt'[v] # OUT_OF_MEMORY
    <2>1. \A f \in 0..(k + n - 1) : f < k + n /\ f # OUT_OF_MEMORY
      BY <1>1
    <2>2. 0..(k - 1) \subseteq 0..(k + n - 1) /\ k..(k + n - 1) \subseteq 0..(k + n - 1)
      BY <1>1
    <2>3. \A v \in DOMAIN pt' : pt'[v] \in 0..(k + n - 1)
      BY <1>a, <1>b, <2>2
    <2> QED
      BY <2>1, <2>3
  <1>12. \A v, w \in DOMAIN pt' : pt'[v] = pt'[w] => v = w
    <2> SUFFICES ASSUME NEW v \in DOMAIN pt', NEW w \in DOMAIN pt', pt'[v] = pt'[w]
                 PROVE  v = w
      OBVIOUS
    <2>1. CASE v \in S /\ w \in S
      BY <1>5, <2>1
    <2>2. CASE v \notin S /\ w \notin S
      BY <1>1, <1>3, <1>5, <2>2 DEF FramesUpTo, Frames
    <2>3. 0..(k - 1) \cap k..(k + n - 1) = {}
      BY <1>1
    <2>4. CASE ~(v \in S <=> w \in S)
      BY <1>a, <1>b, <2>3, <2>4
    <2> QED
      BY <2>1, <2>2, <2>4
  <1> QED
    BY <1>2, <1>5, <1>6, <1>7, <1>8, <1>9, <1>10, <1>11, <1>12 DEF PartialFunction

\* The two boot loops each map one page to the next frame.
LEMMA IdentityMapPageInv ==
    ASSUME IInv, IdentityMapPage
    PROVE  IInv'
  <1> DEFINE p == pmm_allocate_pages(1)
  <1>1. PICK k \in 0..FrameCount : FramesUpTo(k)
    BY DEF IInv, FrameInv
  <1>2. p = IF k + 1 <= FrameCount THEN k ELSE OUT_OF_MEMORY
    BY <1>1, AllocateInInv DEF IInv, IdentityMapPage
  <1>3. k \in Nat /\ FrameCount \in Nat /\ FrameCount >= 2
        /\ OUT_OF_MEMORY \in Nat /\ OUT_OF_MEMORY >= FrameCount
        /\ HeapStart \in Nat /\ HeapPages \in Nat
    BY BitmapAssumption, OutOfMemoryAssumption, HeapAssumption
  <1>4. /\ next \in Nat /\ mode = "identity"
        /\ PartialFunction(pt, Nat, Frames \cup {OUT_OF_MEMORY})
        /\ PartialFunction(tables, Nat, Nat)
        /\ placement \in Nat \ {0}
    BY DEF IInv, TypeOK, IdentityMapPage
  <1>5. p \in Frames \cup {OUT_OF_MEMORY}
    BY <1>2, <1>3 DEF Frames
  <1>a. used' = IF p = OUT_OF_MEMORY THEN used ELSE used \cup p..(p + 1 - 1)
    BY DEF IdentityMapPage, Marked
  <1> HIDE DEF p
  <1>b. used' = IF p = OUT_OF_MEMORY THEN used ELSE used \cup {p}
    <2>1. p \in Nat
      BY <1>3, <1>5 DEF Frames
    <2>2. p..(p + 1 - 1) = {p}
      BY <2>1
    <2> QED
      BY <1>a, <2>2
  <1>6. /\ DOMAIN pt' = DOMAIN pt \cup {next}
        /\ pt'[next] = p
        /\ \A v \in DOMAIN pt : v # next => pt'[v] = pt[v]
        /\ pt' \in [DOMAIN pt' -> Frames \cup {OUT_OF_MEMORY}]
    BY <1>4, <1>5 DEF IdentityMapPage, pmm_map_page, Override, p, PartialFunction
  <1>7. TypeOK'
    <2>1. PartialFunction(pt, Nat, Frames \cup {OUT_OF_MEMORY})'
      BY <1>4, <1>6 DEF PartialFunction, Frames
    <2>2. PartialFunction(tables, Nat, Nat)' /\ placement' \in Nat \ {0}
      <3>1. TableOf(next) \in Nat
        BY <1>4, HeapAssumption DEF TableOf
      <3> QED
        BY <3>1, <1>4 DEF IdentityMapPage, pmm_get_page, PlacePage, Override, PartialFunction
    <2>3. used' \subseteq Frames
      BY <1>b, <1>5 DEF IInv, TypeOK
    <2> QED
      BY <2>1, <2>2, <2>3, <1>4 DEF IInv, TypeOK, IdentityMapPage, Frames, HeapEnd, PartialFunction
  <1>8. FrameInv'
    <2>1. CASE k + 1 <= FrameCount
      <3>1. p = k /\ used = 0..(k - 1) /\ next = k
        BY <1>1, <1>2, <1>3, <1>4, <2>1 DEF FramesUpTo
      <3>2. used' = 0..k
        <4>1. p # OUT_OF_MEMORY
          BY <1>3, <2>1, <3>1
        <4>2. 0..(k - 1) \cup {k} = 0..k
          BY <1>3
        <4> QED
          BY <1>b, <3>1, <4>1, <4>2
      <3>3. FramesUpTo(k + 1)'
        <4>1. mode' = "identity" /\ next' = next + 1
          BY <1>4 DEF IdentityMapPage
        <4>2. used' = 0..((k + 1) - 1)
          BY <1>3, <3>2
        <4>3. \A v \in DOMAIN pt : pt[v] < k
          BY <1>1, <1>3, <1>4, <2>1 DEF FramesUpTo
        <4>4. \A v \in DOMAIN pt' : pt'[v] < k + 1 /\ (v # next => pt'[v] < k)
          BY <1>3, <1>4, <1>6, <3>1, <4>3 DEF PartialFunction, Frames
        <4>5. \A v, w \in DOMAIN pt' : pt'[v] = pt'[w] => v = w
          BY <1>1, <1>3, <1>6, <3>1, <4>3, <4>4 DEF FramesUpTo
        <4> QED
          BY <1>3, <2>1, <3>1, <4>1, <4>2, <4>4, <4>5 DEF FramesUpTo, Segment
      <3> QED
        BY <1>3, <2>1, <3>3 DEF FrameInv
    <2>2. CASE ~(k + 1 <= FrameCount)
      <3>1. p = OUT_OF_MEMORY /\ k = FrameCount /\ used' = used /\ next >= k
        BY <1>1, <1>2, <1>3, <1>4, <2>2 DEF FramesUpTo, IdentityMapPage, p
      <3>2. FramesUpTo(k)'
        BY <1>1, <1>3, <1>4, <1>6, <3>1 DEF FramesUpTo, Segment, IdentityMapPage
      <3> QED
        BY <1>3, <3>2 DEF FrameInv
    <2> QED
      BY <2>1, <2>2
  <1>9. BlockInv'
    BY <1>4 DEF IInv, BlockInv, BlocksDisjointAndBacked, IdentityMapPage
  <1> QED
    BY <1>7, <1>8, <1>9 DEF IInv

\* The heap loop takes the frame past the segment, or panics.
LEMMA HeapMapPageInv ==
    ASSUME IInv, HeapMapPage
    PROVE  IInv'
  <1> DEFINE p == pmm_allocate_pages(1)
             m == [v \in {next} |-> p]
  <1>1. PICK k \in 0..FrameCount : FramesUpTo(k)
    BY DEF IInv, FrameInv
  <1>2. k \in Nat /\ FrameCount \in Nat
    BY BitmapAssumption
  <1>3. TypeOK /\ mode = "heap" /\ next \in Nat
    BY DEF IInv, TypeOK, HeapMapPage
  <1>4. p = k /\ k + 1 <= FrameCount /\ used = 0..(k - 1)
    BY <1>1, <1>3, AllocateInInv DEF HeapMapPage, FramesUpTo
  <1> HIDE DEF p
  <1>5. /\ used' = Marked(k, 1)
        /\ pt' = Override(pt, {next}, m)
        /\ m \in [{next} -> k..(k + 1 - 1)]
    BY <1>2, <1>4 DEF HeapMapPage, pmm_map_page, p
  <1>6. /\ used' \subseteq Frames
        /\ PartialFunction(pt, Nat, Frames)'
        /\ used' = 0..((k + 1) - 1)
        /\ \A v \in DOMAIN pt' : pt'[v] < k + 1 /\ pt'[v] # OUT_OF_MEMORY
        /\ \A v, w \in DOMAIN pt' : pt'[v] = pt'[w] => v = w
    <2>1. \A v, w \in {next} : m[v] = m[w] => v = w
      OBVIOUS
    <2>2. {next} \in SUBSET Nat /\ 1 \in Nat \ {0}
      BY <1>3
    <2> HIDE DEF m
    <2> QED
      BY <1>1, <1>3, <1>4, <1>5, <2>1, <2>2, ExtendSegment
  <1>7. TypeOK'
    <2>1. PartialFunction(tables, Nat, Nat)' /\ placement' \in Nat \ {0}
      <3>1. TableOf(next) \in Nat
        BY <1>3, HeapAssumption DEF TableOf
      <3> QED
        BY <3>1, <1>3 DEF HeapMapPage, pmm_get_page, PlacePage, Override, PartialFunction, TypeOK
    <2>2. PartialFunction(pt, Nat, Frames \cup {OUT_OF_MEMORY})'
      BY <1>6 DEF PartialFunction, Frames
    <2> QED
      BY <2>1, <2>2, <1>3, <1>6 DEF TypeOK, HeapMapPage, Frames, HeapEnd, PartialFunction
  <1>8. FrameInv'
    <2>1. FramesUpTo(k + 1)'
      BY <1>1, <1>2, <1>3, <1>6 DEF FramesUpTo, Segment, HeapMapPage
    <2> QED
      BY <1>2, <1>4, <2>1 DEF FrameInv
  <1>9. BlockInv'
    BY <1>3 DEF IInv, BlockInv, BlocksDisjointAndBacked, HeapMapPage
  <1> QED
    BY <1>7, <1>8, <1>9 DEF IInv

\* The steps of boot that map nothing.
LEMMA BootControlInv ==
    ASSUME IInv, StartHeapLoop \/ HeapMapPanics \/ EnablePaging
    PROVE  IInv'
  <1>1. PICK k \in 0..FrameCount : FramesUpTo(k)
    BY DEF IInv, FrameInv
  <1>2. k \in Nat /\ FrameCount \in Nat /\ FrameCount >= 2
        /\ HeapStart \in Nat /\ HeapPages \in Nat \ {0}
    BY BitmapAssumption, HeapAssumption
  <1>3. TypeOK'
    BY <1>2 DEF IInv, TypeOK, StartHeapLoop, HeapMapPanics, EnablePaging,
                HeapEnd, PartialFunction
  <1>4. FramesUpTo(k)'
    <2>1. CASE StartHeapLoop
      <3>1. next >= 2 /\ mode = "identity" /\ next \in Nat
        BY <2>1 DEF IInv, TypeOK, StartHeapLoop, MoreToIdentityMap
      <3>2. k >= 2 /\ used = 0..(k - 1)
        BY <1>1, <1>2, <3>1 DEF FramesUpTo
      <3> QED
        BY <1>1, <2>1, <3>1, <3>2 DEF StartHeapLoop, FramesUpTo, Segment
    <2>2. CASE HeapMapPanics
      BY <1>1, <2>2 DEF HeapMapPanics, FramesUpTo, Segment
    <2>3. CASE EnablePaging
      <3>1. next # HeapStart
        BY <1>2, <2>3 DEF EnablePaging, HeapEnd
      <3> QED
        BY <1>1, <2>3, <3>1 DEF EnablePaging, FramesUpTo, Segment
    <2> QED
      BY <2>1, <2>2, <2>3
  <1>5. FrameInv'
    BY <1>4 DEF FrameInv
  <1>6. BlockInv'
    BY DEF IInv, BlockInv, BlocksDisjointAndBacked,
           StartHeapLoop, HeapMapPanics, EnablePaging
  <1> QED
    BY <1>3, <1>5, <1>6 DEF IInv

\* A panic for want of heap leaves the frames marked.
LEMMA HeapAllocPanicsInv ==
    ASSUME IInv, NEW n \in Requests, HeapAllocPanics(n)
    PROVE  IInv'
  <1>1. PICK k \in 0..FrameCount : FramesUpTo(k)
    BY DEF IInv, FrameInv
  <1>2. k \in Nat /\ FrameCount \in Nat /\ n \in Nat /\ n >= 2
    BY BitmapAssumption, RequestAssumption
  <1>3. TypeOK /\ mode = "running"
    BY DEF IInv, HeapAllocPanics
  <1>4. pmm_allocate_pages(n) = k /\ k + n <= FrameCount
    BY <1>1, <1>2, <1>3, AllocateInInv DEF HeapAllocPanics
  <1>5. used' = used \cup k..(k + n - 1) /\ pt' = pt /\ mode' = "halted"
    BY <1>4 DEF HeapAllocPanics, Marked
  <1>6. /\ used = 0..(k - 1) => used' = 0..((k + n) - 1)
        /\ used = 1..(k - 1) /\ k >= 2 => used' = 1..((k + n) - 1)
    BY <1>2, <1>5
  <1>7. TypeOK'
    <2>1. used' \subseteq Frames
      BY <1>2, <1>3, <1>4, <1>5 DEF TypeOK, Frames
    <2> QED
      BY <1>3, <2>1 DEF TypeOK, HeapAllocPanics, PartialFunction
  <1>8. FrameInv'
    <2>1. \A v \in DOMAIN pt : pt[v] \in Frames /\ pt[v] < k
      BY <1>1, <1>2, <1>3 DEF TypeOK, FramesUpTo, PartialFunction, Frames
    <2>2. \A v \in DOMAIN pt' : pt'[v] < k + n
      BY <1>2, <1>5, <2>1 DEF Frames
    <2>3. FramesUpTo(k + n)'
      BY <1>1, <1>2, <1>3, <1>5, <1>6, <2>2 DEF FramesUpTo, Segment
    <2> QED
      BY <1>2, <1>4, <2>3 DEF FrameInv
  <1>9. BlockInv'
    BY DEF IInv, BlockInv, BlocksDisjointAndBacked, HeapAllocPanics
  <1> QED
    BY <1>7, <1>8, <1>9 DEF IInv

\* A new block takes the pages from heap_location on, past every other block.
LEMMA HeapAllocMapsInv ==
    ASSUME IInv, NEW n \in Requests, HeapAllocMaps(n)
    PROVE  IInv'
  <1>1. PICK k \in 0..FrameCount : FramesUpTo(k)
    BY DEF IInv, FrameInv
  <1> DEFINE S == heap_location..(heap_location + n - 1)
             m == [v \in S |-> k + (v - heap_location)]
             b == [start |-> heap_location, pages |-> n]
  <1>2. k \in Nat /\ FrameCount \in Nat /\ n \in Nat /\ n >= 2
        /\ HeapStart \in Nat /\ HeapPages \in Nat
    BY BitmapAssumption, RequestAssumption, HeapAssumption
  <1>3. TypeOK /\ mode = "running" /\ heap_location \in HeapStart..HeapEnd
    BY DEF IInv, TypeOK, HeapAllocMaps
  <1>4. heap_location \in Nat /\ heap_location + n \in HeapStart..HeapEnd
    BY <1>2, <1>3 DEF HeapAllocMaps, WindowExceeded, HeapEnd
  <1>5. pmm_allocate_pages(n) = k /\ k + n <= FrameCount
    BY <1>1, <1>2, <1>3, AllocateInInv DEF HeapAllocMaps
  <1>6. /\ used' = Marked(k, n)
        /\ pt' = Override(pt, S, m)
        /\ heap_location' = heap_location + n
        /\ blocks' = blocks \cup {b}
        /\ UNCHANGED <<mode, next, tables, placement, tlb>>
    BY <1>5 DEF HeapAllocMaps, pmm_map_page, HeapLocationAfter
  <1>7. Pages(b) = S
    BY DEF Pages
  <1>8. /\ used' \subseteq Frames
        /\ PartialFunction(pt, Nat, Frames)'
        /\ used = 0..(k - 1) => used' = 0..((k + n) - 1)
        /\ used = 1..(k - 1) /\ k >= 2 => used' = 1..((k + n) - 1)
        /\ \A v \in DOMAIN pt' : pt'[v] < k + n /\ pt'[v] # OUT_OF_MEMORY
        /\ \A v, w \in DOMAIN pt' : pt'[v] = pt'[w] => v = w
    <2>1. S \in SUBSET Nat
      BY <1>2, <1>4
    <2>2. m \in [S -> k..(k + n - 1)]
      BY <1>2, <1>4
    <2>3. \A v, w \in S : m[v] = m[w] => v = w
      BY <1>2, <1>4
    <2>4. n \in Nat \ {0} /\ k + n <= FrameCount
      BY <1>2, <1>5
    <2>5. used' = Marked(k, n) /\ pt' = Override(pt, S, m)
      BY <1>6
    <2> HIDE DEF m, S
    <2> QED
      BY <1>1, <1>3, <2>1, <2>2, <2>3, <2>4, <2>5, ExtendSegment
  <1>9. TypeOK'
    <2>1. PartialFunction(pt, Nat, Frames \cup {OUT_OF_MEMORY})'
      BY <1>8 DEF PartialFunction, Frames
    <2>2. b \in [start : HeapStart..HeapEnd, pages : Requests]
      BY <1>3
    <2>3. blocks' \subseteq [start : HeapStart..HeapEnd, pages : Requests]
      BY <1>3, <1>6, <2>2 DEF TypeOK
    <2> HIDE DEF b
    <2> QED
      BY <1>3, <1>4, <1>6, <1>8, <2>1, <2>3
      DEF TypeOK, Frames, HeapEnd, PartialFunction
  <1>10. FrameInv'
    <2>1. FramesUpTo(k + n)'
      BY <1>1, <1>2, <1>3, <1>6, <1>8 DEF FramesUpTo, Segment
    <2> QED
      BY <1>2, <1>5, <2>1 DEF FrameInv
  <1>11. BlockInv'
    <2>1. DOMAIN pt' = DOMAIN pt \cup S
      BY <1>6 DEF Override
    <2>2. ASSUME NEW c \in blocks'
          PROVE  /\ Pages(c) \subseteq HeapStart..(heap_location' - 1)
                 /\ Pages(c) \subseteq DOMAIN pt'
      <3>1. CASE c = b
        <4>1. S \subseteq HeapStart..(heap_location' - 1)
          BY <1>2, <1>3, <1>4, <1>6
        <4>2. S \subseteq DOMAIN pt'
          BY <2>1
        <4>3. Pages(c) = S
          BY <1>7, <3>1
        <4> QED BY <4>1, <4>2, <4>3
      <3>2. CASE c \in blocks
        <4>1. /\ Pages(c) \subseteq HeapStart..(heap_location - 1)
              /\ Pages(c) \subseteq DOMAIN pt
          BY <3>2 DEF IInv, BlockInv, BlocksDisjointAndBacked
        <4>2. HeapStart..(heap_location - 1) \subseteq HeapStart..(heap_location' - 1)
          BY <1>2, <1>4, <1>6
        <4> QED
          BY <2>1, <4>1, <4>2
      <3> QED
        BY <1>6, <3>1, <3>2
    <2>3. ASSUME NEW c \in blocks
          PROVE  Pages(c) \cap S = {}
      <3>1. Pages(c) \subseteq HeapStart..(heap_location - 1)
        BY DEF IInv, BlockInv, BlocksDisjointAndBacked
      <3>2. HeapStart..(heap_location - 1) \cap S = {}
        BY <1>2, <1>4
      <3> QED
        BY <3>1, <3>2
    <2>4. \A c, d \in blocks : c # d => Pages(c) \cap Pages(d) = {}
      BY DEF IInv, BlockInv, BlocksDisjointAndBacked
    <2>5. \A c, d \in blocks' : c # d => Pages(c) \cap Pages(d) = {}
      BY <1>6, <1>7, <2>3, <2>4
    <2> QED
      BY <1>3, <1>6, <2>2, <2>5 DEF BlockInv, BlocksDisjointAndBacked
  <1> QED
    BY <1>9, <1>10, <1>11 DEF IInv

\* Every frame number divided by PAGE_SIZE is zero: a free clears the bit of
\* frame 0, whatever the pages it unmaps.
LEMMA ClearedIsFrameZero ==
    ASSUME NEW S, \A v \in S : pt[v] \in Frames
    PROVE  Cleared(S) = {0}
  <1>1. ASSUME NEW f \in Frames
        PROVE  f \div PageSize = 0
    <2>1. f \in Nat /\ f < PageSize /\ PageSize \in Nat \ {0}
      BY BitmapAssumption, PageSizeAssumption DEF Frames
    <2> QED
      BY <2>1
  <1> QED
    BY <1>1 DEF Cleared

\* A free clears the bit of frame 0 and takes the pages of its run out.
LEMMA FreeInv ==
    ASSUME IInv, NEW b \in blocks, pmm_free_pages(b)
    PROVE  IInv'
  <1>1. PICK k \in 0..FrameCount : FramesUpTo(k)
    BY DEF IInv, FrameInv
  <1>2. k \in Nat /\ k >= 2 /\ mode = "running" /\ TypeOK
    BY <1>1, BitmapAssumption DEF FramesUpTo, IInv, pmm_free_pages
  <1>3. \A v \in Pages(b) : pt[v] \in Frames
    <2>1. Pages(b) \subseteq DOMAIN pt
      BY DEF IInv, BlockInv, BlocksDisjointAndBacked
    <2>2. \A v \in DOMAIN pt : pt[v] \in Frames
      BY <1>1, <1>2 DEF FramesUpTo, TypeOK, PartialFunction
    <2> QED
      BY <2>1, <2>2
  <1>4. /\ used' = used \ {0}
        /\ pt' = Without(pt, Pages(b))
        /\ blocks' = blocks \ {b}
        /\ tlb' = Without(tlb, Pages(b))
        /\ UNCHANGED <<mode, next, tables, placement, heap_location>>
    BY <1>3, ClearedIsFrameZero DEF pmm_free_pages, Flushed
  <1>5. /\ DOMAIN pt' = DOMAIN pt \ Pages(b)
        /\ \A v \in DOMAIN pt' : pt'[v] = pt[v]
    BY <1>4 DEF Without
  <1>6. TypeOK'
    <2>1. PartialFunction(pt, Nat, Frames \cup {OUT_OF_MEMORY})'
      BY <1>2, <1>4 DEF TypeOK, PartialFunction, Without, Frames
    <2>2. PartialFunction(tlb, Nat, Frames)'
      BY <1>2, <1>4 DEF TypeOK, PartialFunction, Without, Frames
    <2> QED
      BY <1>2, <1>4, <2>1, <2>2 DEF TypeOK, Frames, HeapEnd, PartialFunction
  <1>7. FrameInv'
    <2>1. Segment(k)'
      <3>1. 0..(k - 1) \ {0} = 1..(k - 1) /\ 1..(k - 1) \ {0} = 1..(k - 1)
        BY <1>2
      <3> QED
        BY <1>1, <1>2, <1>4, <3>1 DEF FramesUpTo, Segment
    <2>2. FramesUpTo(k)'
      BY <1>1, <1>2, <1>4, <1>5, <2>1 DEF FramesUpTo
    <2> QED
      BY <2>2 DEF FrameInv
  <1>8. BlockInv'
    BY <1>2, <1>4, <1>5 DEF IInv, BlockInv, BlocksDisjointAndBacked
  <1> QED
    BY <1>6, <1>7, <1>8 DEF IInv

\* The translation cache is all these steps change.
LEMMA CacheInv ==
    ASSUME IInv, (\E v \in Touched : Touch(v)) \/ (\E v \in DOMAIN tlb : Evict(v))
    PROVE  IInv'
  <1>1. UNCHANGED <<mode, next, used, pt, tables, placement, heap_location, blocks>>
    BY DEF Touch, Evict
  <1>2. PICK k \in 0..FrameCount : FramesUpTo(k)
    BY DEF IInv, FrameInv
  <1>3. PartialFunction(tlb, Nat, Frames)'
    <2>1. PartialFunction(tlb, Nat, Frames)
          /\ PartialFunction(pt, Nat, Frames \cup {OUT_OF_MEMORY})
      BY DEF IInv, TypeOK
    <2>2. CASE \E v \in Touched : Touch(v)
      <3>1. PICK v \in Touched : Touch(v)
        BY <2>2
      <3>2. v \in Nat /\ pt[v] \in Frames
        BY <1>2, <2>1, <3>1 DEF Touch, Touched, FramesUpTo, PartialFunction
      <3> QED
        BY <2>1, <3>1, <3>2 DEF Touch, Override, PartialFunction, Frames
    <2>3. CASE \E v \in DOMAIN tlb : Evict(v)
      BY <2>1, <2>3 DEF Evict, Without, PartialFunction, Frames
    <2> QED
      BY <2>2, <2>3
  <1>4. TypeOK'
    BY <1>1, <1>3 DEF IInv, TypeOK, Frames, HeapEnd, PartialFunction
  <1>5. FramesUpTo(k)'
    BY <1>1, <1>2 DEF FramesUpTo, Segment
  <1>6. BlockInv'
    BY <1>1 DEF IInv, BlockInv, BlocksDisjointAndBacked
  <1> QED
    BY <1>4, <1>5, <1>6 DEF IInv, FrameInv

----------------------------------------------------------------------------
(* Theorems.                                                               *)

\* The invariant is inductive.
LEMMA StepInv == IInv /\ [Next]_vars => IInv'
  <1> SUFFICES ASSUME IInv, [Next]_vars PROVE IInv'
    OBVIOUS
  <1>1. CASE IdentityMapPage
    BY <1>1, IdentityMapPageInv
  <1>2. CASE StartHeapLoop \/ HeapMapPanics \/ EnablePaging
    BY <1>2, BootControlInv
  <1>3. CASE HeapMapPage
    BY <1>3, HeapMapPageInv
  <1>4. CASE \E n \in Requests : HeapAllocPanics(n)
    BY <1>4, HeapAllocPanicsInv
  <1>5. CASE \E n \in Requests : HeapAllocMaps(n)
    BY <1>5, HeapAllocMapsInv
  <1>6. CASE \E b \in blocks : pmm_free_pages(b)
    BY <1>6, FreeInv
  <1>7. CASE (\E v \in Touched : Touch(v)) \/ (\E v \in DOMAIN tlb : Evict(v))
    BY <1>7, CacheInv
  <1>8. CASE UNCHANGED vars
    BY <1>8 DEF vars, IInv, TypeOK, FrameInv, FramesUpTo, Segment, BlockInv,
                BlocksDisjointAndBacked, Frames, HeapEnd, PartialFunction, Pages
  <1>9. CASE (\E n \in Requests : HeapAllocFails(n)) \/ Halted
    BY <1>8, <1>9 DEF HeapAllocFails, Halted
  <1> QED
    BY <1>1, <1>2, <1>3, <1>4, <1>5, <1>6, <1>7, <1>8, <1>9 DEF Next, BootStep

\* The frames in use are always an initial segment of memory, frame 0 aside, whatever
\* is allocated and freed, and the runs handed out are disjoint and backed.
THEOREM Invariance ==
    ASSUME StaleBits = {}
    PROVE  Spec => []IInv
  <1> QED
    BY InitInv, StepInv, PTL DEF Spec

\* The memory manager's variables keep their types: in particular every page is
\* mapped to a frame that exists, whatever the sizes and the calls.
THEOREM TypeCorrect ==
    ASSUME StaleBits = {}
    PROVE  Spec => []TypeOK
  <1>1. IInv => TypeOK
    BY DEF IInv
  <1> QED
    BY <1>1, Invariance, PTL

\* No two pages ever share a frame while the kernel runs, although
\* pmm_unmap_page gives the wrong frame back and the identity loop of
\* pmm_initialize does not test for exhausted memory.
THEOREM NoAliasing ==
    ASSUME StaleBits = {}
    PROVE  Spec => []NoFrameAliasing
  <1>1. IInv => NoFrameAliasing
    BY DEF IInv, FrameInv, FramesUpTo, NoFrameAliasing
  <1> QED
    BY <1>1, Invariance, PTL

\* The frames in use stay an initial segment of memory: the scan of
\* pmm_allocate_pages never counts across a full word it skips.
THEOREM PrefixAllocation ==
    ASSUME StaleBits = {}
    PROVE  Spec => []FramesArePrefix
  <1>1. IInv => FramesArePrefix
    <2> SUFFICES ASSUME IInv PROVE FramesArePrefix
      OBVIOUS
    <2>1. PICK k \in 0..FrameCount : FramesUpTo(k)
      BY DEF IInv, FrameInv
    <2>2. used \cup {0} = 0..(k - 1) \cup {0}
      BY <2>1, BitmapAssumption DEF FramesUpTo, Segment
    <2> QED
      BY <2>1, <2>2 DEF FramesArePrefix, FramesUpTo
  <1> QED
    BY <1>1, Invariance, PTL

\* A mapped frame other than frame 0 is never free in bit_frames.
THEOREM ReservedFrames ==
    ASSUME StaleBits = {}
    PROVE  Spec => []MappedFramesReserved
  <1>1. IInv => MappedFramesReserved
    <2> SUFFICES ASSUME IInv, mode = "running", NEW v \in DOMAIN pt
                 PROVE  pt[v] \in used \cup {0}
      BY DEF MappedFramesReserved
    <2>1. PICK k \in 0..FrameCount : FramesUpTo(k)
      BY DEF IInv, FrameInv
    <2>2. pt[v] \in Frames /\ pt[v] < k
      BY <2>1 DEF IInv, TypeOK, FramesUpTo, PartialFunction
    <2> QED
      BY <2>1, <2>2, BitmapAssumption DEF FramesUpTo, Segment, Frames
  <1> QED
    BY <1>1, Invariance, PTL

\* Blocks handed to liballoc are backed by mapped pages and disjoint.
THEOREM BlocksSound ==
    ASSUME StaleBits = {}
    PROVE  Spec => []BlocksDisjointAndBacked
  <1>1. IInv => BlocksDisjointAndBacked
    BY DEF IInv, BlockInv
  <1> QED
    BY <1>1, Invariance, PTL

----------------------------------------------------------------------------
(* Translations and live pages.                                            *)

\* Only pages below heap_location can be cached.
TlbInv ==
    /\ TlbCoherent
    /\ DOMAIN tlb \subseteq Touched
    /\ mode \in {"identity", "heap"} => DOMAIN tlb = {}

\* The pages a new block takes belong to no other block and are not cached.
LEMMA NewPagesUntouched ==
    ASSUME IInv, NEW n \in Requests, HeapAllocMaps(n),
           NEW v \in heap_location..(heap_location + n - 1)
    PROVE  v \notin Touched /\ \A b \in blocks : v \notin Pages(b)
  <1>1. HeapStart \in Nat /\ heap_location \in Nat /\ heap_location >= HeapStart
        /\ n \in Nat
    BY HeapAssumption, RequestAssumption DEF IInv, TypeOK, HeapEnd
  <1>2. \A b \in blocks : Pages(b) \subseteq HeapStart..(heap_location - 1)
    BY DEF IInv, BlockInv, BlocksDisjointAndBacked
  <1>3. v \notin HeapStart..(heap_location - 1) /\ ~(v < HeapStart)
    BY <1>1
  <1> QED
    BY <1>2, <1>3 DEF Touched

\* No step changes the mapping of a cached page and leaves it cached.
LEMMA TlbStep == IInv /\ TlbInv /\ [Next]_vars => TlbInv'
  <1> SUFFICES ASSUME IInv, TlbInv, [Next]_vars PROVE TlbInv'
    OBVIOUS
  <1>1. CASE BootStep
    <2>1. mode \in {"identity", "heap"} /\ tlb' = tlb /\ DOMAIN tlb = {}
      BY <1>1 DEF BootStep, IdentityMapPage, StartHeapLoop, HeapMapPage,
                  HeapMapPanics, EnablePaging, TlbInv
    <2> QED
      BY <2>1 DEF TlbInv, TlbCoherent
  <1>2. CASE \E n \in Requests : HeapAllocMaps(n)
    <2>1. PICK n \in Requests : HeapAllocMaps(n)
      BY <1>2
    <2> DEFINE S == heap_location..(heap_location + n - 1)
    <2>2. /\ DOMAIN pt' = DOMAIN pt \cup S
          /\ \A v \in DOMAIN pt \ S : pt'[v] = pt[v]
          /\ blocks \subseteq blocks' /\ tlb' = tlb /\ mode = "running" /\ mode' = mode
      BY <2>1 DEF HeapAllocMaps, pmm_map_page, Override
    <2>3. \A v \in DOMAIN tlb : v \notin S
      BY <2>1, NewPagesUntouched DEF TlbInv
    <2> HIDE DEF S
    <2>4. TlbCoherent'
      BY <2>2, <2>3 DEF TlbInv, TlbCoherent
    <2>5. (DOMAIN tlb \subseteq Touched)'
      BY <2>2 DEF TlbInv, Touched, Pages
    <2> QED
      BY <2>2, <2>4, <2>5 DEF TlbInv
  <1>3. CASE \E b \in blocks : pmm_free_pages(b)
    <2>1. PICK b \in blocks : pmm_free_pages(b)
      BY <1>3
    <2>2. /\ DOMAIN pt' = DOMAIN pt \ Pages(b)
          /\ \A v \in DOMAIN pt' : pt'[v] = pt[v]
          /\ DOMAIN tlb' = DOMAIN tlb \ Pages(b)
          /\ \A v \in DOMAIN tlb' : tlb'[v] = tlb[v]
          /\ blocks' = blocks \ {b} /\ mode = "running" /\ mode' = mode
      BY <2>1 DEF pmm_free_pages, Flushed, Without
    <2>3. TlbCoherent'
      BY <2>2 DEF TlbInv, TlbCoherent
    <2>4. (DOMAIN tlb \subseteq Touched)'
      BY <2>2 DEF TlbInv, Touched, Pages
    <2> QED
      BY <2>2, <2>3, <2>4 DEF TlbInv
  <1>4. CASE \E v \in Touched : Touch(v)
    <2>1. PICK v \in Touched : Touch(v)
      BY <1>4
    <2>2. /\ DOMAIN tlb' = DOMAIN tlb \cup {v}
          /\ tlb'[v] = pt[v] /\ \A w \in DOMAIN tlb : w # v => tlb'[w] = tlb[w]
          /\ UNCHANGED <<pt, blocks, mode>> /\ mode = "running"
      BY <2>1 DEF Touch, Override
    <2> QED
      BY <2>2 DEF TlbInv, TlbCoherent, Touched, Pages
  <1>5. CASE \E v \in DOMAIN tlb : Evict(v)
    <2>1. /\ DOMAIN tlb' \subseteq DOMAIN tlb
          /\ \A w \in DOMAIN tlb' : tlb'[w] = tlb[w]
          /\ UNCHANGED <<pt, blocks, mode>>
      BY <1>5 DEF Evict, Without
    <2> QED
      BY <2>1 DEF TlbInv, TlbCoherent, Touched, Pages
  <1>6. CASE \E n \in Requests : HeapAllocPanics(n)
    BY <1>6 DEF HeapAllocPanics, TlbInv, TlbCoherent, Touched, Pages
  <1>7. CASE UNCHANGED vars
    BY <1>7 DEF vars, TlbInv, TlbCoherent, Touched, Pages
  <1>8. CASE (\E n \in Requests : HeapAllocFails(n)) \/ Halted
    BY <1>7, <1>8 DEF HeapAllocFails, Halted
  <1> QED
    BY <1>1, <1>2, <1>3, <1>4, <1>5, <1>6, <1>7, <1>8 DEF Next

\* The processor never uses a translation the page tables do not hold, although
\* pmm_map_page replaces present mappings without flushing them.
THEOREM TlbSound ==
    ASSUME StaleBits = {}
    PROVE  Spec => []TlbCoherent
  <1>1. Init => TlbInv
    BY DEF Init, TlbInv, TlbCoherent
  <1>2. TlbInv => TlbCoherent
    BY DEF TlbInv
  <1> QED
    BY <1>1, <1>2, TlbStep, Invariance, PTL DEF Spec

\* What LiveMappingsStable asks of a step.
LivePagesStay ==
    \A b \in blocks \cap blocks' : \A v \in Pages(b) :
        v \in DOMAIN pt' /\ pt'[v] = pt[v]

\* Only pages past heap_location are mapped, and only those of the freed run unmapped.
LEMMA LivePagesStep ==
    ASSUME IInv, [Next]_vars
    PROVE  LivePagesStay
  <1> SUFFICES ASSUME NEW b \in blocks, b \in blocks', NEW v \in Pages(b)
               PROVE  v \in DOMAIN pt' /\ pt'[v] = pt[v]
    BY DEF LivePagesStay
  <1>1. v \in DOMAIN pt
    BY DEF IInv, BlockInv, BlocksDisjointAndBacked
  <1>2. CASE BootStep
    BY <1>2 DEF BootStep, IdentityMapPage, StartHeapLoop, HeapMapPage,
                HeapMapPanics, EnablePaging, IInv, BlockInv
  <1>3. CASE \E n \in Requests : HeapAllocMaps(n)
    <2>1. PICK n \in Requests : HeapAllocMaps(n)
      BY <1>3
    <2>2. v \notin heap_location..(heap_location + n - 1)
      BY <2>1, NewPagesUntouched
    <2> QED
      BY <1>1, <2>1, <2>2 DEF HeapAllocMaps, pmm_map_page, Override
  <1>4. CASE \E c \in blocks : pmm_free_pages(c)
    <2>1. PICK c \in blocks : pmm_free_pages(c)
      BY <1>4
    <2>2. b # c
      BY <2>1 DEF pmm_free_pages
    <2>3. v \notin Pages(c)
      BY <2>2 DEF IInv, BlockInv, BlocksDisjointAndBacked
    <2> QED
      BY <1>1, <2>1, <2>3 DEF pmm_free_pages, Without
  <1>5. CASE pt' = pt
    BY <1>1, <1>5
  <1> QED
    BY <1>2, <1>3, <1>4, <1>5
    DEF Next, HeapAllocFails, HeapAllocPanics, Touch, Evict, Halted, vars

\* No step moves a page of a block that stays allocated to another frame.
THEOREM LivePagesKept ==
    ASSUME StaleBits = {}
    PROVE  Spec => LiveMappingsStable
  <1>1. IInv /\ [Next]_vars => [LivePagesStay]_vars
    BY LivePagesStep
  <1> QED
    BY <1>1, Invariance, PTL DEF Spec, LiveMappingsStable, LivePagesStay

----------------------------------------------------------------------------
(* Page tables.                                                            *)

\* Page v is below the heap window and mapped to itself.
SelfMapped(v) == v \in DOMAIN pt /\ v < HeapStart /\ pt[v] = v

MemorySufficed == \A v \in DOMAIN pt : pt[v] # OUT_OF_MEMORY

\* The identity loop maps the pages below `next' and tables lie below
\* placement; when it ends, all of them and the one page above are mapped, and
\* that page is where the only later table goes, the one of the heap window.
TableInv ==
    /\ mode = "identity" =>
          /\ DOMAIN pt = 0..(next - 1)
          /\ \A v \in DOMAIN pt : pt[v] = v \/ pt[v] = OUT_OF_MEMORY
          /\ \A t \in DOMAIN tables : tables[t] < placement
    /\ mode \in {"heap", "running"} /\ MemorySufficed =>
          \A t \in DOMAIN tables : SelfMapped(tables[t])
    /\ mode = "heap" =>
          /\ next \in HeapStart..HeapEnd
          /\ MemorySufficed /\ TableOf(HeapStart) \notin DOMAIN tables =>
                SelfMapped(placement) /\ next = HeapStart

\* The heap window has one page table.
LEMMA OneHeapTable ==
    ASSUME NEW v \in HeapStart..(HeapEnd - 1)
    PROVE  TableOf(v) = TableOf(HeapStart)
  <1>1. ASSUME NEW a \in Nat, NEW b \in Nat, a <= b, NEW e \in Nat \ {0}
        PROVE  a \div e <= b \div e
    BY <1>1
  <1>2. HeapStart <= v /\ v <= HeapStart + HeapPages - 1 /\ v \in Nat
    BY HeapAssumption DEF HeapEnd
  <1> PICK z : z = HeapStart + HeapPages - 1
    OBVIOUS
  <1>3. /\ HeapStart <= v /\ v <= z /\ TableEntries \in Nat \ {0}
        /\ HeapStart \in Nat /\ v \in Nat /\ z \in Nat
    BY <1>2, HeapAssumption
  <1>4. HeapStart \div TableEntries <= v \div TableEntries
    BY <1>1, <1>3
  <1>5. v \div TableEntries <= z \div TableEntries
    BY <1>1, <1>3
  <1>6. \A a \in Nat, e \in Nat \ {0} : a \div e \in Int
    OBVIOUS
  <1>7. v \div TableEntries \in Int /\ HeapStart \div TableEntries \in Int
    BY <1>3, <1>6
  <1>8. z \div TableEntries = HeapStart \div TableEntries
    BY HeapAssumption
  <1> QED
    BY <1>4, <1>5, <1>7, <1>8 DEF TableOf

\* Where the page tables are kept stays as TableInv has it.
LEMMA TableStep == IInv /\ TableInv /\ [Next]_vars => TableInv'
  <1> SUFFICES ASSUME IInv, TableInv, [Next]_vars PROVE TableInv'
    OBVIOUS
  <1>a. /\ FrameCount \in Nat /\ HeapStart \in Nat /\ FrameCount <= HeapStart
        /\ OUT_OF_MEMORY \in Nat /\ HeapPages \in Nat \ {0}
    BY BitmapAssumption, HeapAssumption, OutOfMemoryAssumption
  <1>b. /\ next \in Nat /\ placement \in Nat
        /\ PartialFunction(pt, Nat, Frames \cup {OUT_OF_MEMORY})
        /\ PartialFunction(tables, Nat, Nat)
    BY DEF IInv, TypeOK
  <1>1. CASE IdentityMapPage
    <2>1. PICK k \in 0..FrameCount : FramesUpTo(k)
      BY DEF IInv, FrameInv
    <2> DEFINE p == pmm_allocate_pages(1)
    <2>2. p = next \/ p = OUT_OF_MEMORY
      BY <1>1, <1>a, <2>1, AllocateInInv DEF IInv, IdentityMapPage, FramesUpTo
    <2> HIDE DEF p
    <2>3. /\ DOMAIN pt' = DOMAIN pt \cup {next} /\ pt'[next] = p
          /\ \A v \in DOMAIN pt : v # next => pt'[v] = pt[v]
          /\ mode = "identity" /\ mode' = mode /\ next' = next + 1
      BY <1>1 DEF IdentityMapPage, pmm_map_page, Override, p
    <2>4. DOMAIN pt' = 0..(next' - 1)
      BY <1>b, <2>3 DEF TableInv
    <2>5. \A v \in DOMAIN pt' : pt'[v] = v \/ pt'[v] = OUT_OF_MEMORY
      BY <2>2, <2>3 DEF TableInv
    <2>6. \A t \in DOMAIN tables' : tables'[t] < placement'
      <3>1. \A t \in DOMAIN tables : tables[t] < placement /\ tables[t] \in Nat
        BY <1>b, <2>3 DEF TableInv, PartialFunction
      <3> QED
        BY <1>1, <1>b, <3>1 DEF IdentityMapPage, pmm_get_page, PlacePage, Override
    <2> QED
      BY <2>3, <2>4, <2>5, <2>6 DEF TableInv
  <1>2. CASE StartHeapLoop
    <2>1. /\ mode = "identity" /\ mode' = "heap" /\ next' = HeapStart
          /\ next > placement
          /\ UNCHANGED <<pt, tables, placement>>
      BY <1>2, <1>b DEF StartHeapLoop, MoreToIdentityMap
    <2>2. ASSUME MemorySufficed, NEW v \in 0..placement
          PROVE  SelfMapped(v)
      <3>1. v \in DOMAIN pt /\ pt[v] = v
        BY <1>b, <2>1, <2>2 DEF TableInv, MemorySufficed
      <3>2. v \in Frames
        BY <2>2, <3>1, <1>b DEF PartialFunction, MemorySufficed
      <3> QED
        BY <1>a, <3>1, <3>2 DEF SelfMapped, Frames
    <2>3. ASSUME NEW t \in DOMAIN tables
          PROVE  tables[t] \in 0..placement
      BY <1>b, <2>1 DEF TableInv, PartialFunction
    <2>4. placement \in 0..placement /\ HeapStart \in HeapStart..HeapEnd
      BY <1>a, <1>b DEF HeapEnd
    <2> QED
      BY <2>1, <2>2, <2>3, <2>4 DEF TableInv, SelfMapped, MemorySufficed
  <1>3. CASE HeapMapPage
    <2>1. PICK k \in 0..FrameCount : FramesUpTo(k)
      BY DEF IInv, FrameInv
    <2>2. /\ mode = "heap" /\ mode' = mode /\ next' = next + 1
          /\ next \in HeapStart..(HeapEnd - 1)
          /\ DOMAIN pt' = DOMAIN pt \cup {next}
          /\ \A v \in DOMAIN pt : v # next => pt'[v] = pt[v]
      BY <1>3, <1>a, <1>b DEF HeapMapPage, pmm_map_page, Override, TableInv, HeapEnd
    <2>3. MemorySufficed
      <3>1. k + 1 <= FrameCount
        BY <1>3, <1>a, <2>1, <2>2, AllocateInInv DEF IInv, HeapMapPage
      <3> QED
        BY <1>a, <2>1, <3>1 DEF FramesUpTo, MemorySufficed
    <2>4. \A v : SelfMapped(v) => SelfMapped(v)'
      BY <1>a, <2>2 DEF SelfMapped
    <2>5. TableOf(next) = TableOf(HeapStart)
      BY <2>2, OneHeapTable
    <2>6. TableOf(HeapStart) \in DOMAIN tables'
      BY <1>3, <2>5 DEF HeapMapPage, pmm_get_page, PlacePage, Override
    <2>7. \A t \in DOMAIN tables' : SelfMapped(tables'[t])
      BY <1>3, <2>2, <2>3, <2>5 DEF HeapMapPage, pmm_get_page, PlacePage, Override, TableInv
    <2>8. next' \in HeapStart..HeapEnd
      BY <1>a, <2>2 DEF HeapEnd
    <2> QED
      BY <2>2, <2>4, <2>6, <2>7, <2>8 DEF TableInv, SelfMapped
  <1>4. CASE EnablePaging
    BY <1>4 DEF EnablePaging, TableInv, SelfMapped, MemorySufficed
  <1>5. CASE \E n \in Requests : HeapAllocMaps(n)
    <2>1. PICK n \in Requests : HeapAllocMaps(n)
      BY <1>5
    <2>2. /\ mode = "running" /\ mode' = mode /\ tables' = tables
          /\ \A v \in DOMAIN pt : v < HeapStart => v \in DOMAIN pt' /\ pt'[v] = pt[v]
      <3>1. heap_location \in Nat /\ heap_location >= HeapStart /\ n \in Nat
        BY <1>a, RequestAssumption DEF IInv, TypeOK, HeapEnd
      <3>2. \A v \in heap_location..(heap_location + n - 1) : ~(v < HeapStart)
        BY <1>a, <3>1
      <3> QED
        BY <2>1, <3>2 DEF HeapAllocMaps, pmm_map_page, Override
    <2>3. MemorySufficed
      BY <2>2 DEF IInv, FrameInv, FramesUpTo, MemorySufficed
    <2> QED
      BY <2>2, <2>3 DEF TableInv, SelfMapped
  <1>6. CASE \E b \in blocks : pmm_free_pages(b)
    <2>1. PICK b \in blocks : pmm_free_pages(b)
      BY <1>6
    <2>2. /\ mode = "running" /\ mode' = mode /\ tables' = tables
          /\ DOMAIN pt' = DOMAIN pt \ Pages(b)
          /\ \A v \in DOMAIN pt' : pt'[v] = pt[v]
      BY <2>1 DEF pmm_free_pages, Without
    <2>3. \A v \in Pages(b) : ~(v < HeapStart)
      <3>1. Pages(b) \subseteq HeapStart..(heap_location - 1)
        BY DEF IInv, BlockInv, BlocksDisjointAndBacked
      <3> QED
        BY <1>a, <3>1
    <2>4. MemorySufficed
      BY <2>2 DEF IInv, FrameInv, FramesUpTo, MemorySufficed
    <2> QED
      BY <2>2, <2>3, <2>4 DEF TableInv, SelfMapped
  <1>7. CASE (\E v \in Touched : Touch(v)) \/ (\E v \in DOMAIN tlb : Evict(v))
    BY <1>7 DEF Touch, Evict, TableInv, SelfMapped, MemorySufficed
  <1>8. CASE HeapMapPanics \/ \E n \in Requests : HeapAllocPanics(n)
    BY <1>8 DEF HeapMapPanics, HeapAllocPanics, TableInv
  <1>9. CASE UNCHANGED vars
    BY <1>9 DEF vars, TableInv, SelfMapped, MemorySufficed
  <1>10. CASE (\E n \in Requests : HeapAllocFails(n)) \/ Halted
    BY <1>9, <1>10 DEF HeapAllocFails, Halted
  <1> QED
    BY <1>1, <1>2, <1>3, <1>4, <1>5, <1>6, <1>7, <1>8, <1>9, <1>10
    DEF Next, BootStep

\* Every page table stays identity mapped, the one of the heap window included,
\* whatever the size of the kernel: the one page above it is always enough.
THEOREM TablesMapped ==
    ASSUME StaleBits = {}
    PROVE  Spec => []TablesReachable
  <1>1. Init => TableInv
    BY DEF Init, TableInv
  <1>2. IInv /\ TableInv => TablesReachable
    <2> SUFFICES ASSUME IInv, TableInv, mode = "running" PROVE TablesReachable
      BY DEF TablesReachable
    <2>1. MemorySufficed
      BY DEF IInv, FrameInv, FramesUpTo, MemorySufficed
    <2> QED
      BY <2>1 DEF TableInv, SelfMapped, TablesReachable
  <1> QED
    BY <1>1, <1>2, TableStep, Invariance, PTL DEF Spec

----------------------------------------------------------------------------
(* The memory manager implements the page provider.                        *)

\* The members of one set more.
LEMMA UnionWith ==
    ASSUME NEW H, NEW S
    PROVE  UNION (H \cup {S}) = (UNION H) \cup S
  OBVIOUS

\* The members of one set less, when the others have none of them.
LEMMA UnionWithout ==
    ASSUME NEW H, NEW S \in H, \A r \in H : r # S => r \cap S = {}
    PROVE  UNION (H \ {S}) = (UNION H) \ S
  <1>1. ASSUME NEW v \in UNION (H \ {S}) PROVE v \in (UNION H) \ S
    OBVIOUS
  <1>2. ASSUME NEW v \in (UNION H) \ S PROVE v \in UNION (H \ {S})
    OBVIOUS
  <1> QED
    BY <1>1, <1>2

\* Handing out a run: its pages were nobody's, and get frames of their own.
LEMMA AllocateRun ==
    ASSUME IInv, IInv', NEW n \in Requests, HeapAllocMaps(n)
    PROVE  [Provider!Next]_<<Held, Backing>>
  <1> DEFINE S == heap_location..(heap_location + n - 1)
             new == [start |-> heap_location, pages |-> n]
  <1>1. /\ n \in Nat /\ n > 1 /\ HeapStart \in Nat /\ HeapEnd \in Nat
        /\ heap_location \in HeapStart..HeapEnd /\ heap_location + n <= HeapEnd
    BY HeapAssumption, RequestAssumption
    DEF IInv, TypeOK, HeapAllocMaps, WindowExceeded, HeapEnd
  <1>2. Pages(new) = S
    BY DEF Pages
  <1>3. blocks' = blocks \cup {new} /\ mode = "running" /\ mode' = "running"
    BY DEF HeapAllocMaps
  <1>4. Held' = Held \cup {S}
    BY <1>2, <1>3 DEF Held, Pages
  <1>5. S \cap UNION Held = {}
    BY NewPagesUntouched DEF Held
  <1>6. S # {} /\ S \subseteq HeapStart..(HeapEnd - 1)
    <2>1. heap_location \in S
      BY <1>1
    <2> QED
      BY <1>1, <2>1
  <1>7. UNION (Held') = (UNION Held) \cup S
    <2> HIDE DEF S
    <2> QED
      BY <1>4, UnionWith
  <1>8. /\ \A v \in UNION Held : v \in DOMAIN pt
        /\ \A v \in UNION (Held') : v \in DOMAIN pt'
    BY DEF IInv, BlockInv, BlocksDisjointAndBacked, Held
  <1>9. \A v \in UNION Held : pt'[v] = pt[v]
    BY <1>5, <1>8 DEF HeapAllocMaps, pmm_map_page, Override
  <1>10. \A v, w \in DOMAIN pt' : pt'[v] = pt'[w] => v = w
    BY <1>3 DEF IInv, FrameInv, FramesUpTo, NoFrameAliasing
  <1>11. \A v \in DOMAIN pt' : pt'[v] \in Frames
    <2>1. \A v \in DOMAIN pt' : pt'[v] \in Frames \cup {OUT_OF_MEMORY}
      BY DEF IInv, TypeOK, PartialFunction
    <2>2. \A v \in DOMAIN pt' : pt'[v] # OUT_OF_MEMORY
      BY <1>3 DEF IInv, FrameInv, FramesUpTo, NoFrameAliasing
    <2> QED
      BY <2>1, <2>2
  <1> HIDE DEF S
  <1>12. Backing' = [v \in (UNION Held) \cup S |-> pt'[v]]
    <2>1. Backing' = [v \in UNION (Held') |-> pt'[v]]
      BY DEF Backing
    <2> QED
      BY <1>7, <2>1
  <1>15. \A v \in (UNION Held) \cup S : v \in DOMAIN pt'
    BY <1>7, <1>8
  <1>16. /\ Backing' \in [(UNION Held) \cup S -> Frames]
         /\ \A v \in UNION Held : Backing'[v] = Backing[v]
         /\ \A v, w \in DOMAIN Backing' : Backing'[v] = Backing'[w] => v = w
    <2>1. Backing' \in [(UNION Held) \cup S -> Frames]
      BY <1>11, <1>12, <1>15
    <2>2. \A v \in UNION Held : Backing'[v] = Backing[v]
      BY <1>9, <1>12 DEF Backing
    <2>3. \A v, w \in DOMAIN Backing' : Backing'[v] = Backing'[w] => v = w
      BY <1>10, <1>12, <1>15
    <2> QED
      BY <2>1, <2>2, <2>3
  <1>13. Provider!Allocate(S)
    BY <1>4, <1>5, <1>6, <1>16 DEF Provider!Allocate, Provider!Injective, Backing
  <1>14. S \in Held' \ Held
    BY <1>4, <1>5, <1>6
  <1> QED
    BY <1>13, <1>14 DEF Provider!Next

\* Taking one back: the other runs share no page with it and keep theirs.
LEMMA FreeRun ==
    ASSUME IInv, NEW b \in blocks, pmm_free_pages(b)
    PROVE  [Provider!Next]_<<Held, Backing>>
  <1>1. \A c \in blocks : c # b => Pages(c) \cap Pages(b) = {}
    BY DEF IInv, BlockInv, BlocksDisjointAndBacked
  <1>2. Pages(b) # {}
    <2>1. b.start \in HeapStart..HeapEnd /\ b.pages \in Requests
      BY DEF IInv, TypeOK
    <2>2. b.start \in Nat /\ b.pages \in Nat /\ b.pages > 1
      <3>1. HeapStart \in Nat /\ HeapEnd \in Nat
        BY HeapAssumption DEF HeapEnd
      <3>2. b.start \in Nat
        BY <2>1, <3>1
      <3>3. b.pages \in Nat \ {0, 1}
        BY <2>1, RequestAssumption
      <3> QED
        BY <3>2, <3>3
    <2>3. b.start \in Pages(b)
      BY <2>2 DEF Pages
    <2> QED
      BY <2>3
  <1>3. blocks' = blocks \ {b}
    BY DEF pmm_free_pages
  <1>4. Held' = Held \ {Pages(b)}
    BY <1>1, <1>2, <1>3 DEF Held, Pages
  <1>5. UNION (Held') = (UNION Held) \ Pages(b)
    <2>1. \A r \in Held : r # Pages(b) => r \cap Pages(b) = {}
      BY <1>1 DEF Held
    <2>2. Pages(b) \in Held
      BY DEF Held
    <2> QED
      BY <1>4, <2>1, <2>2, UnionWithout
  <1>6. UNION Held \subseteq DOMAIN pt
    BY DEF IInv, BlockInv, BlocksDisjointAndBacked, Held
  <1>7. Backing' = [v \in (UNION Held) \ Pages(b) |-> Backing[v]]
    <2>1. pt' = [v \in DOMAIN pt \ Pages(b) |-> pt[v]]
      BY DEF pmm_free_pages, Without
    <2>2. \A v \in (UNION Held) \ Pages(b) : pt'[v] = pt[v] /\ Backing[v] = pt[v]
      BY <1>6, <2>1 DEF Backing
    <2>3. Backing' = [v \in UNION (Held') |-> pt'[v]]
      BY DEF Backing
    <2> QED
      BY <1>5, <2>2, <2>3
  <1>8. Provider!Free(Pages(b)) /\ Pages(b) \in Held \ Held'
    <2>1. Pages(b) \in Held
      BY DEF Held
    <2>2. DOMAIN Backing = UNION Held
      BY DEF Backing
    <2> QED
      BY <1>4, <1>7, <2>1, <2>2 DEF Provider!Free
  <1> QED
    BY <1>8 DEF Provider!Next

\* The bitmap, the page tables and heap_location implement PageProvider: runs
\* held are disjoint, each page of them keeps a frame of its own, and giving one
\* back changes nothing of the others.
THEOREM Implements ==
    ASSUME StaleBits = {}
    PROVE  Spec => ProvidesPages
  <1>1. Init => Provider!Init
    <2> SUFFICES ASSUME Init PROVE Provider!Init
      OBVIOUS
    <2>1. Held = {}
      BY DEF Init, Held
    <2>2. Backing = [v \in {} |-> v]
      BY <2>1 DEF Backing
    <2> QED
      BY <2>1, <2>2 DEF Provider!Init
  <1>2. ASSUME IInv, IInv', [Next]_vars PROVE [Provider!Next]_<<Held, Backing>>
    <2>1. CASE \E n \in Requests : HeapAllocMaps(n)
      BY <1>2, <2>1, AllocateRun
    <2>2. CASE \E b \in blocks : pmm_free_pages(b)
      BY <1>2, <2>2, FreeRun
    <2>3. CASE BootStep
      <3>1. blocks = {} /\ blocks' = blocks
        BY <1>2, <2>3 DEF BootStep, IdentityMapPage, StartHeapLoop, HeapMapPage,
                          HeapMapPanics, EnablePaging, IInv, BlockInv
      <3>2. Held = {} /\ Held' = {}
        BY <3>1 DEF Held
      <3> QED
        BY <3>2 DEF Backing
    <2>4. CASE pt' = pt /\ blocks' = blocks
      BY <2>4 DEF Held, Backing, Pages
    <2> QED
      BY <1>2, <2>1, <2>2, <2>3, <2>4
      DEF Next, HeapAllocFails, HeapAllocPanics, Touch, Evict, Halted, vars
  <1> QED
    BY <1>1, <1>2, Invariance, PTL
    DEF Spec, ProvidesPages, Provider!Spec, Provider!pages

----------------------------------------------------------------------------
(* That boot comes to an end.                                              *)

\* In the identity loop every page below next has its table, and the bound is not
\* behind next; the heap loop stays in the window.
LoopInv ==
    /\ mode = "identity" =>
          /\ next <= placement + 1
          /\ \A v \in 0..(next - 1) : TableOf(v) \in DOMAIN tables
    /\ mode = "heap" => next \in HeapStart..HeapEnd

\* Every step keeps that.
LEMMA LoopStep == IInv /\ LoopInv /\ [Next]_vars => LoopInv'
  <1> SUFFICES ASSUME IInv, LoopInv, [Next]_vars PROVE LoopInv'
    OBVIOUS
  <1>1. next \in Nat /\ placement \in Nat /\ HeapStart \in Nat /\ HeapPages \in Nat \ {0}
    BY HeapAssumption DEF IInv, TypeOK
  <1>2. CASE IdentityMapPage
    <2>1. /\ next' = next + 1 /\ mode' = mode /\ mode = "identity"
          /\ next < placement + 1
      BY <1>2 DEF IdentityMapPage, MoreToIdentityMap
    <2>2. placement' \in Nat /\ placement' >= placement
      BY <1>1, <1>2 DEF IdentityMapPage, pmm_get_page, PlacePage
    <2>3. DOMAIN tables' = DOMAIN tables \cup {TableOf(next)}
      BY <1>2 DEF IdentityMapPage, pmm_get_page, Override
    <2>4. \A v \in 0..(next' - 1) : v = next \/ v \in 0..(next - 1)
      BY <1>1, <2>1
    <2>5. \A v \in 0..(next' - 1) : TableOf(v) \in DOMAIN tables'
      BY <2>1, <2>3, <2>4 DEF LoopInv
    <2>6. next' <= placement' + 1
      <3>1. \A a, b, c \in Nat : a < b + 1 /\ c >= b => a + 1 <= c + 1
        OBVIOUS
      <3> QED BY <1>1, <2>1, <2>2, <3>1
    <2>7. mode' = "identity"
      BY <2>1
    <2>8. (\A v \in 0..(next - 1) : TableOf(v) \in DOMAIN tables)'
      BY <2>5 DEF TableOf
    <2> QED BY <2>6, <2>7, <2>8 DEF LoopInv
  <1>3. CASE StartHeapLoop
    BY <1>1, <1>3 DEF StartHeapLoop, LoopInv, HeapEnd
  <1>4. CASE HeapMapPage
    BY <1>1, <1>4 DEF HeapMapPage, LoopInv, HeapEnd
  <1>5. CASE HeapMapPanics \/ EnablePaging
    BY <1>5 DEF HeapMapPanics, EnablePaging, LoopInv
  <1>6. CASE \/ \E n \in Requests : HeapAllocFails(n) \/ HeapAllocPanics(n) \/ HeapAllocMaps(n)
             \/ \E b \in blocks : pmm_free_pages(b)
             \/ \E v \in Touched : Touch(v)
    <2>1. mode = "running" /\ mode' \in {"running", "halted"}
      BY <1>6 DEF HeapAllocFails, HeapAllocPanics, HeapAllocMaps, pmm_free_pages, Touch, vars
    <2> QED BY <2>1 DEF LoopInv
  <1>7. CASE (\E v \in DOMAIN tlb : Evict(v)) \/ Halted \/ UNCHANGED vars
    <2>1. UNCHANGED <<mode, next, tables, placement>>
      BY <1>7 DEF Evict, Halted, vars
    <2> QED BY <2>1 DEF LoopInv, TableOf, HeapEnd
  <1> QED
    BY <1>2, <1>3, <1>4, <1>5, <1>6, <1>7 DEF Next, BootStep

\* The translations are cached from when paging is on.
NothingCached == mode \in {"identity", "heap"} => DOMAIN tlb = {}

\* Every step keeps that, too.
LEMMA CacheEmpty == NothingCached /\ [Next]_vars => NothingCached'
  <1> SUFFICES ASSUME NothingCached, [Next]_vars, mode' \in {"identity", "heap"}
               PROVE  DOMAIN tlb' = {}
    BY DEF NothingCached
  <1>1. CASE BootStep \/ Halted \/ UNCHANGED vars
    BY <1>1 DEF NothingCached, BootStep, IdentityMapPage, StartHeapLoop, HeapMapPage,
                HeapMapPanics, EnablePaging, Halted, vars
  <1>2. CASE \E v \in DOMAIN tlb : Evict(v)
    BY <1>2 DEF NothingCached, Evict
  <1>3. CASE \/ \E n \in Requests : HeapAllocFails(n) \/ HeapAllocPanics(n) \/ HeapAllocMaps(n)
             \/ \E b \in blocks : pmm_free_pages(b)
             \/ \E v \in Touched : Touch(v)
    <2>1. mode' \in {"running", "halted"}
      BY <1>3 DEF HeapAllocFails, HeapAllocPanics, HeapAllocMaps, pmm_free_pages, Touch, vars
    <2> QED BY <2>1
  <1> QED
    BY <1>1, <1>2, <1>3 DEF Next

InBoot == mode \in {"identity", "heap"}

\* How many steps boot has left, or more.  A page that needs a table moves the bound
\* along with next; but it is the first of its table, and the one after it needs none.
BootLeft ==
    CASE mode = "identity" ->
            2 * (placement + 1 - next)
                + (IF TableOf(next) \in DOMAIN tables THEN 0 ELSE 1) + HeapPages + 2
      [] mode = "heap" -> HeapEnd - next + 1
      [] OTHER -> 0

\* The page after the first of a table is in the same table, and the first is the one
\* for which the table is missing.
LEMMA SameTable ==
    ASSUME TableEntries > 1, NEW n \in Nat,
           \A v \in 0..(n - 1) : TableOf(v) # TableOf(n)
    PROVE  TableOf(n + 1) = TableOf(n)
  <1> DEFINE T == TableEntries
             q == n \div T
             r == n % T
  <1>1. T \in Nat /\ T > 1
    BY HeapAssumption
  <1> HIDE DEF T
  <1>2. q \in Int /\ r \in 0..(T - 1) /\ n = T * q + r
    BY <1>1
  <1>3. r = 0
    <2> SUFFICES ASSUME r # 0 PROVE FALSE
      OBVIOUS
    <2>1. n >= 1
      BY <1>1, <1>2
    <2>2. (n - 1) \div T = q
      <3> HIDE DEF q, r
      <3>1. n - 1 = T * q + (r - 1) /\ r - 1 \in 0..(T - 1) /\ n - 1 \in Int
        BY <1>1, <1>2
      <3> QED BY <1>1, <1>2, <3>1
    <2>3. n - 1 \in 0..(n - 1)
      BY <2>1
    <2> QED BY <2>2, <2>3 DEF TableOf, T
  <1>4. (n + 1) \div T = q
    <2> HIDE DEF q, r
    <2>1. n + 1 = T * q + 1 /\ 1 \in 0..(T - 1)
      BY <1>1, <1>2, <1>3
    <2> QED BY <1>1, <1>2, <2>1
  <1> QED
    BY <1>4 DEF TableOf, T

\* Boot cannot go on for ever, whatever the size of the kernel and of memory, although
\* each table the identity loop adds moves the loop's own bound: every step leaves
\* fewer to come, if a table has more than one entry.
THEOREM BootAdvances ==
    ASSUME StaleBits = {}, TableEntries > 1
    PROVE  Spec => [][InBoot => BootStep /\ BootLeft' \in Nat /\ BootLeft' < BootLeft]_vars
  <1>1. Init => LoopInv /\ NothingCached
    BY RequestAssumption DEF Init, LoopInv, NothingCached
  <1>2. IInv /\ LoopInv /\ NothingCached /\ [Next]_vars =>
          [InBoot => BootStep /\ BootLeft' \in Nat /\ BootLeft' < BootLeft]_vars
    <2> SUFFICES ASSUME IInv, LoopInv, NothingCached, Next, ~UNCHANGED vars,
                        mode \in {"identity", "heap"}
                 PROVE  BootStep /\ BootLeft' \in Nat /\ BootLeft' < BootLeft
      BY DEF InBoot
    <2>1. BootStep
      BY DEF Next, NothingCached, HeapAllocFails, HeapAllocPanics, HeapAllocMaps,
             pmm_free_pages, Touch, Halted
    <2>2. next \in Nat /\ placement \in Nat /\ HeapStart \in Nat /\ HeapPages \in Nat \ {0}
      BY HeapAssumption DEF IInv, TypeOK
    <2>3. CASE IdentityMapPage
      <3> DEFINE t == IF TableOf(next) \in DOMAIN tables THEN 0 ELSE 1
                 u == IF TableOf(next + 1) \in DOMAIN tables' THEN 0 ELSE 1
      <3>1. /\ mode = "identity" /\ mode' = mode /\ next' = next + 1
            /\ next < placement + 1 /\ pmm_get_page(next)
        BY <2>3 DEF IdentityMapPage, MoreToIdentityMap
      <3>2. BootLeft = 2 * (placement + 1 - next) + t + HeapPages + 2
        BY <3>1 DEF BootLeft
      <3>3. BootLeft' = 2 * (placement' + 1 - (next + 1)) + u + HeapPages + 2
        BY <3>1 DEF BootLeft, TableOf
      <3>4. CASE TableOf(next) \in DOMAIN tables
        <4>1. placement' = placement /\ t = 0 /\ u \in {0, 1}
          BY <3>1, <3>4 DEF pmm_get_page
        <4> HIDE DEF t, u
        <4> QED BY <2>1, <2>2, <3>1, <3>2, <3>3, <4>1
      <3>5. CASE TableOf(next) \notin DOMAIN tables
        <4>1. placement' = placement + 1 /\ t = 1
          BY <3>1, <3>5 DEF pmm_get_page, PlacePage
        <4>2. DOMAIN tables' = DOMAIN tables \cup {TableOf(next)}
          BY <3>1, <3>5 DEF pmm_get_page, Override
        <4>3. TableOf(next + 1) = TableOf(next)
          BY <2>2, <3>1, <3>5, SameTable DEF LoopInv
        <4>4. u = 0
          BY <4>2, <4>3
        <4> HIDE DEF t, u
        <4> QED BY <2>1, <2>2, <3>1, <3>2, <3>3, <4>1, <4>4
      <3> QED BY <3>4, <3>5
    <2>4. CASE StartHeapLoop
      <3>1. mode = "identity" /\ mode' = "heap" /\ next' = HeapStart
        BY <2>4 DEF StartHeapLoop
      <3>2. BootLeft' = HeapPages + 1
        BY <2>2, <3>1 DEF BootLeft, HeapEnd
      <3>3. next <= placement + 1
        BY <3>1 DEF LoopInv
      <3> DEFINE t == IF TableOf(next) \in DOMAIN tables THEN 0 ELSE 1
      <3>4. BootLeft = 2 * (placement + 1 - next) + t + HeapPages + 2 /\ t \in {0, 1}
        BY <3>1 DEF BootLeft
      <3> HIDE DEF t
      <3> QED BY <2>1, <2>2, <3>2, <3>3, <3>4
    <2>5. CASE HeapMapPage
      BY <2>1, <2>2, <2>5 DEF HeapMapPage, BootLeft, HeapEnd
    <2>6. CASE HeapMapPanics \/ EnablePaging
      <3>1. BootLeft' = 0 /\ mode = "heap" /\ next \in HeapStart..HeapEnd
        BY <2>6 DEF HeapMapPanics, EnablePaging, BootLeft, LoopInv
      <3>2. BootLeft = HeapEnd - next + 1
        BY <3>1 DEF BootLeft
      <3> QED BY <2>1, <2>2, <3>1, <3>2 DEF HeapEnd
    <2> QED BY <2>1, <2>3, <2>4, <2>5, <2>6 DEF BootStep
  <1> QED
    BY <1>1, <1>2, Invariance, LoopStep, CacheEmpty, PTL DEF Spec

=============================================================================
