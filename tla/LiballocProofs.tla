--------------------------- MODULE LiballocProofs ---------------------------
(***************************************************************************)
(* What liballoc guarantees for every page size, header size, alignment,   *)
(* size of heap and history of calls.                                      *)
(*                                                                         *)
(* The memory is sound (HeapSound): both levels of lists run through their *)
(* addresses upwards, and nothing overlaps.  A step only inserts a header  *)
(* between two neighbours (InsertInList, PlaceSound, AppendSound) or takes *)
(* one out (RemoveFromList, FreeSound).  That the search comes to the      *)
(* right neighbours is the business of the invariant of the call           *)
(* (CallSound, EmptyAwaited): its pointers lead into the lists, and a      *)
(* major without minors is one just made for it, with room enough, which   *)
(* CASE 2 relies on without looking.                                       *)
(*                                                                         *)
(* That the search overlooks nothing takes more: the usage of each major   *)
(* is the number of its bytes that are taken (UsageCounted), so CASE 1     *)
(* passes over no major with a gap, and a search under way from the root   *)
(* has left none behind (SearchedMajors, SearchedMinors).                  *)
(*                                                                         *)
(* That the counters are the sums of what they count (Accounted) needs the *)
(* sum over a finite set: that it exists, and that it does not matter      *)
(* which element is added first.                                           *)
(***************************************************************************)
EXTENDS Liballoc, FiniteSetTheorems, WellFoundedInduction, TLAPS

----------------------------------------------------------------------------
(* Lists in address order.                                                 *)

\* p and n are the neighbours in S of an address m that is not in it.
Between(m, p, n, S) ==
    /\ m \in Nat \ S /\ m # NULL
    /\ p # NULL => p \in S /\ p < m
    /\ n # NULL => n \in S /\ m < n
    /\ \A y \in S : (p # NULL /\ y <= p) \/ (n # NULL /\ n <= y)

\* A new address comes between its neighbours, and nothing else changes.
LEMMA InsertInList ==
    ASSUME NEW S \in SUBSET (Nat \ {NULL}), NEW m \in Nat, NEW p \in Nat, NEW n \in Nat,
           Between(m, p, n, S)
    PROVE  /\ IsNext(n, m, S \cup {m}) /\ IsPrev(p, m, S \cup {m})
           /\ p # NULL => IsNext(m, p, S \cup {m})
           /\ n # NULL => IsPrev(m, n, S \cup {m})
           /\ \A x \in S, f \in Nat : x # p /\ IsNext(f, x, S) => IsNext(f, x, S \cup {m})
           /\ \A x \in S, f \in Nat : x # n /\ IsPrev(f, x, S) => IsPrev(f, x, S \cup {m})
           /\ \A f \in Nat : IsFirst(f, S) => IsFirst(IF p = NULL THEN m ELSE f, S \cup {m})
<1> USE DEF NULL
<1>0. \A y \in S : y \in Nat /\ y # 0
  OBVIOUS
<1>1. IsNext(n, m, S \cup {m}) /\ IsPrev(p, m, S \cup {m})
  BY <1>0 DEF Between, IsNext, IsPrev
<1>2. p # NULL => IsNext(m, p, S \cup {m})
  BY <1>0 DEF Between, IsNext
<1>3. n # NULL => IsPrev(m, n, S \cup {m})
  BY <1>0 DEF Between, IsPrev
<1>4. \A x \in S, f \in Nat : x # p /\ IsNext(f, x, S) => IsNext(f, x, S \cup {m})
  BY <1>0 DEF Between, IsNext
<1>5. \A x \in S, f \in Nat : x # n /\ IsPrev(f, x, S) => IsPrev(f, x, S \cup {m})
  BY <1>0 DEF Between, IsPrev
<1>6. \A f \in Nat : IsFirst(f, S) => IsFirst(IF p = NULL THEN m ELSE f, S \cup {m})
  BY <1>0 DEF Between, IsFirst
<1> QED BY <1>1, <1>2, <1>3, <1>4, <1>5, <1>6

\* A member goes, and its neighbours become each other's.
LEMMA RemoveFromList ==
    ASSUME NEW S \in SUBSET (Nat \ {NULL}), NEW m \in S, NEW p \in Nat, NEW n \in Nat,
           IsNext(n, m, S), IsPrev(p, m, S)
    PROVE  /\ p # NULL => IsNext(n, p, S \ {m})
           /\ n # NULL => IsPrev(p, n, S \ {m})
           /\ \A x \in S, f \in Nat : x # m /\ x # p /\ IsNext(f, x, S) => IsNext(f, x, S \ {m})
           /\ \A x \in S, f \in Nat : x # m /\ x # n /\ IsPrev(f, x, S) => IsPrev(f, x, S \ {m})
           /\ \A f \in Nat : IsFirst(f, S) => IsFirst(IF f = m THEN n ELSE f, S \ {m})
           /\ \A f \in Nat : IsFirst(f, S) => (f = m <=> p = NULL)
           /\ p = NULL /\ n = NULL => S = {m}
           /\ p # NULL => p # n /\ p # m
           /\ n # NULL => n # m
<1> USE DEF NULL
<1>0. \A y \in S : y \in Nat /\ y # 0
  OBVIOUS
<1>1. p # NULL => IsNext(n, p, S \ {m})
  BY <1>0 DEF IsNext, IsPrev
<1>2. n # NULL => IsPrev(p, n, S \ {m})
  BY <1>0 DEF IsNext, IsPrev
<1>3. \A x \in S, f \in Nat : x # m /\ x # p /\ IsNext(f, x, S) => IsNext(f, x, S \ {m})
  BY <1>0 DEF IsNext, IsPrev
<1>4. \A x \in S, f \in Nat : x # m /\ x # n /\ IsPrev(f, x, S) => IsPrev(f, x, S \ {m})
  BY <1>0 DEF IsNext, IsPrev
<1>5. \A f \in Nat : IsFirst(f, S) => IsFirst(IF f = m THEN n ELSE f, S \ {m})
  BY <1>0 DEF IsFirst, IsNext
<1>6. \A f \in Nat : IsFirst(f, S) => (f = m <=> p = NULL)
  BY <1>0 DEF IsFirst, IsPrev
<1>7. ASSUME p = NULL, n = NULL PROVE S = {m}
  <2>1. \A y \in S : y = m
    BY <1>0, <1>7 DEF IsNext, IsPrev
  <2> QED BY <2>1
<1>8. p # NULL => p # n /\ p # m
  BY <1>0 DEF IsNext, IsPrev
<1>9. n # NULL => n # m
  BY <1>0 DEF IsNext
<1> QED BY <1>1, <1>2, <1>3, <1>4, <1>5, <1>6, <1>7, <1>8, <1>9

----------------------------------------------------------------------------
(* The invariant of the heap, apart from the call in progress.             *)

MajorsTyped ==
    /\ DOMAIN major \subseteq Nat \ {NULL}
    /\ major \in [DOMAIN major ->
            [prev : Nat, next : Nat, pages : Nat, size : Nat, usage : Int, first : Nat]]
    /\ \A M \in DOMAIN major : major[M].size > 0

MinorsTyped ==
    /\ DOMAIN minor \subseteq Nat \ {NULL}
    /\ minor \in [DOMAIN minor ->
            [prev : Nat, next : Nat, block : DOMAIN major, size : Nat, req_size : Nat]]

\* Whatever ALIGN adds to the pointer fits in what malloc reserved.
Roomy == \A m \in DOMAIN minor : minor[m].req_size + Alignment + AlignInfo <= minor[m].size

HeapSound ==
    /\ MajorsTyped /\ MinorsTyped
    /\ l_memRoot \in Nat /\ heap_location \in HeapStart..HeapEnd
    /\ ListsSound
    /\ AllocationsDisjoint
    /\ Roomy

\* The constants, one by one.
LEMMA Constants ==
    /\ PageSize \in Nat \ {0} /\ PageCount \in Nat \ {0}
    /\ MajorSize \in Nat \ {0} /\ MinorSize \in Nat \ {0}
    /\ Alignment \in Nat \ {0} /\ AlignInfo \in Nat \ {0}
    /\ HeapStart \in Nat \ {0} /\ HeapPages \in Nat \ {0}
    /\ HeapEnd \in Nat /\ HeapStart <= HeapEnd
<1>1. HeapStart \in Nat \ {0} /\ HeapPages \in Nat \ {0}
  BY SizesAssumption
<1> QED BY <1>1, SizesAssumption DEF HeapEnd

\* A place for the new minor in major B: between its neighbours there, past the
\* header and the end of the one before, with room up to the one behind.
Fits(m, p, n, B) ==
    /\ Between(m, p, n, MinorsOf(B))
    /\ B + MajorSize <= m /\ m + Room <= EndOfMajor(B)
    /\ p # NULL => EndOfMinor(p) <= m
    /\ n # NULL => m + Room <= n

\* The request malloc is working on.
Requested == call.req \in ReqSizes /\ call.size = SizeFor(call.req)

\* The bytes asked for and ALIGN's padding fit in what malloc reserves.
LEMMA RequestFits ==
    ASSUME Requested
    PROVE  /\ call.req \in Nat /\ call.size \in Nat
           /\ call.req + Alignment + AlignInfo <= call.size
<1>1. call.req \in Nat
  BY SizesAssumption DEF Requested
<1> QED BY <1>1, Constants DEF Requested, SizeFor

\* A minor that fits keeps the heap sound.
LEMMA PlaceSound ==
    ASSUME HeapSound, Requested, NEW B \in DOMAIN major, B = call.maj,
           NEW m \in Nat, NEW p \in Nat, NEW n \in Nat, Fits(m, p, n, B),
           Place(m, p, n)
    PROVE  /\ HeapSound'
           /\ DOMAIN minor' = DOMAIN minor \cup {m} /\ m # NULL /\ m \notin DOMAIN minor
           /\ DOMAIN major' = DOMAIN major
           /\ MinorsOf(B)' # {}
           /\ \A C \in DOMAIN major : MinorsOf(C)' = {} => MinorsOf(C) = {}
           /\ \A C \in DOMAIN major : /\ major'[C].size = major[C].size
                                      /\ major'[C].pages = major[C].pages
           /\ \A x \in DOMAIN minor : minor'[x].block = minor[x].block
<1> USE DEF NULL
<1>1. /\ DOMAIN major \subseteq Nat \ {0} /\ DOMAIN minor \subseteq Nat \ {0}
      /\ \A C \in DOMAIN major : /\ major[C] \in [prev : Nat, next : Nat, pages : Nat,
                                       size : Nat, usage : Int, first : Nat]
                                 /\ major[C].size > 0
      /\ \A x \in DOMAIN minor : minor[x] \in [prev : Nat, next : Nat, block : DOMAIN major,
                                               size : Nat, req_size : Nat]
  BY DEF HeapSound, MajorsTyped, MinorsTyped
<1>2. call.size \in Nat /\ call.req \in Nat /\ MinorSize \in Nat \ {0} /\ MajorSize \in Nat \ {0}
  BY Constants, RequestFits
<1>3. /\ DOMAIN minor' = DOMAIN minor \cup {m}
      /\ minor'[m] = [prev |-> p, next |-> n, block |-> B, size |-> call.size,
                      req_size |-> call.req]
      /\ \A x \in DOMAIN minor : x # m =>
            /\ minor'[x].block = minor[x].block /\ minor'[x].size = minor[x].size
            /\ minor'[x].req_size = minor[x].req_size
            /\ minor'[x].next = (IF x = p THEN m ELSE minor[x].next)
            /\ minor'[x].prev = (IF x = n /\ x # p THEN m ELSE minor[x].prev)
            /\ minor'[x] \in [prev : Nat, next : Nat, block : DOMAIN major,
                              size : Nat, req_size : Nat]
  BY <1>1 DEF Place, LinkedMinors
<1>4. /\ DOMAIN major' = DOMAIN major
      /\ \A C \in DOMAIN major :
            /\ major'[C].prev = major[C].prev /\ major'[C].next = major[C].next
            /\ major'[C].size = major[C].size /\ major'[C].pages = major[C].pages
            /\ major'[C].first = (IF C = B /\ p = NULL THEN m ELSE major[C].first)
            /\ major'[C] \in [prev : Nat, next : Nat, pages : Nat, size : Nat,
                              usage : Int, first : Nat]
  BY <1>1, <1>2 DEF Place, Room
<1>5. \A x \in DOMAIN minor : /\ x # m
                              /\ x < m => EndOfMinor(x) <= m
                              /\ m < x => m + Room <= x
  <2> SUFFICES ASSUME NEW x \in DOMAIN minor
               PROVE  x # m /\ (x < m => EndOfMinor(x) <= m) /\ (m < x => m + Room <= x)
    OBVIOUS
  <2> DEFINE C == minor[x].block
  <2>1. /\ C \in DOMAIN major /\ x \in Nat /\ minor[x].size \in Nat
        /\ C + MajorSize <= x /\ EndOfMinor(x) <= EndOfMajor(C)
    BY <1>1 DEF HeapSound, AllocationsDisjoint
  <2>2. EndOfMinor(x) \in Nat /\ x < EndOfMinor(x)
    BY <2>1, <1>2 DEF EndOfMinor
  <2>3. CASE C = B
    <3>1. x \in MinorsOf(B)
      BY <2>3 DEF MinorsOf
    <3>2. \/ p # NULL /\ x <= p /\ p \in DOMAIN minor /\ p < m
          \/ n # NULL /\ n <= x /\ m < n
      BY <3>1 DEF Fits, Between, MinorsOf
    <3>3. CASE p # NULL /\ x <= p /\ p \in DOMAIN minor /\ p < m
      <4>1. x < p => EndOfMinor(x) <= p
        BY <3>3 DEF HeapSound, AllocationsDisjoint
      <4>2. EndOfMinor(p) <= m
        BY <3>3 DEF Fits
      <4> QED BY <4>1, <4>2, <3>3, <2>1, <2>2
    <3>4. CASE n # NULL /\ n <= x /\ m < n
      BY <3>4, <2>1, <1>2 DEF Fits, Room
    <3> QED BY <3>2, <3>3, <3>4
  <2>4. CASE C < B
    <3>1. EndOfMajor(C) <= B
      BY <2>1, <2>4 DEF HeapSound, AllocationsDisjoint
    <3>2. EndOfMajor(C) \in Nat
      BY <2>1, <1>1 DEF EndOfMajor
    <3> QED BY <3>1, <3>2, <2>1, <2>2, <1>1, <1>2 DEF Fits
  <2>5. CASE B < C
    <3>1. EndOfMajor(B) <= C /\ EndOfMajor(B) \in Nat
      BY <2>1, <2>5, <1>1 DEF HeapSound, AllocationsDisjoint, EndOfMajor
    <3>2. m + Room <= C /\ C < x /\ m < m + Room
      BY <3>1, <2>1, <1>1, <1>2 DEF Fits, Room
    <3> QED BY <3>2, <2>1, <1>1, <1>2 DEF Room
  <2> QED BY <2>1, <2>3, <2>4, <2>5, <1>1
<1>6. /\ \A x \in DOMAIN minor : EndOfMinor(x)' = EndOfMinor(x)
      /\ \A x : x = m => EndOfMinor(x)' = m + Room
      /\ \A C \in DOMAIN major : EndOfMajor(C)' = EndOfMajor(C)
  <2>1. \A x \in DOMAIN minor : EndOfMinor(x)' = EndOfMinor(x)
    BY <1>3, <1>5 DEF EndOfMinor
  <2>2. \A x : x = m => EndOfMinor(x)' = m + Room
    BY <1>2, <1>3 DEF EndOfMinor, Room
  <2>3. \A C \in DOMAIN major : EndOfMajor(C)' = EndOfMajor(C)
    BY <1>4 DEF EndOfMajor
  <2> QED BY <2>1, <2>2, <2>3
<1>7. /\ MinorsOf(B)' = MinorsOf(B) \cup {m}
      /\ \A C \in DOMAIN major : C # B => MinorsOf(C)' = MinorsOf(C)
  BY <1>3, <1>5 DEF MinorsOf
<1>8. MajorsTyped'
  <2>1. major' = [C \in DOMAIN major |-> major'[C]]
    BY <1>1 DEF Place, HeapSound, MajorsTyped
  <2> QED BY <2>1, <1>1, <1>4 DEF MajorsTyped
<1>9. MinorsTyped'
  <2>1. minor'[m] \in [prev : Nat, next : Nat, block : DOMAIN major, size : Nat, req_size : Nat]
    BY <1>2, <1>3
  <2>2. \A x \in DOMAIN minor' :
          minor'[x] \in [prev : Nat, next : Nat, block : DOMAIN major, size : Nat, req_size : Nat]
    BY <2>1, <1>3, <1>5
  <2>3. m # NULL
    BY DEF Fits, Between
  <2>4. minor' = [x \in DOMAIN minor' |-> minor'[x]]
    BY <1>3 DEF Place, LinkedMinors
  <2> QED BY <2>2, <2>3, <2>4, <1>1, <1>3, <1>4 DEF MinorsTyped
<1>10. MajorListSound'
  BY <1>4 DEF MajorListSound, Place, HeapSound, ListsSound
<1>11. MinorListsSound'
  <2>1. MinorsOf(B) \in SUBSET (Nat \ {NULL})
    BY <1>1 DEF MinorsOf
  <2> DEFINE S == MinorsOf(B)
  <2>2. /\ IsNext(n, m, S \cup {m}) /\ IsPrev(p, m, S \cup {m})
        /\ p # NULL => IsNext(m, p, S \cup {m})
        /\ n # NULL => IsPrev(m, n, S \cup {m})
        /\ \A x \in S, f \in Nat : x # p /\ IsNext(f, x, S) => IsNext(f, x, S \cup {m})
        /\ \A x \in S, f \in Nat : x # n /\ IsPrev(f, x, S) => IsPrev(f, x, S \cup {m})
        /\ \A f \in Nat : IsFirst(f, S) => IsFirst(IF p = NULL THEN m ELSE f, S \cup {m})
    BY <2>1, InsertInList DEF Fits
  <2>3. ASSUME NEW C \in DOMAIN major PROVE IsFirst(major'[C].first, MinorsOf(C)')
    <3>1. IsFirst(major[C].first, MinorsOf(C)) /\ major[C].first \in Nat
      BY <1>1 DEF HeapSound, ListsSound, MinorListsSound
    <3>2. CASE C = B
      BY <3>1, <3>2, <2>2, <1>4, <1>7
    <3>3. CASE C # B
      BY <3>1, <3>3, <1>4, <1>7
    <3> QED BY <3>2, <3>3
  <2>4. ASSUME NEW x \in DOMAIN minor'
        PROVE  /\ IsNext(minor'[x].next, x, MinorsOf(minor[x].block)')
               /\ IsPrev(minor'[x].prev, x, MinorsOf(minor[x].block)')
    <3>1. CASE x = m
      <4>1. minor'[m].block = B /\ minor'[m].next = n /\ minor'[m].prev = p
        BY <1>3
      <4>2. MinorsOf(B)' = S \cup {m}
        BY <1>7
      <4>3. \A D : D = B => MinorsOf(D)' = S \cup {m}
        BY <4>2
      <4> QED BY <3>1, <2>2, <4>1, <4>3
    <3>2. CASE x \in DOMAIN minor /\ minor[x].block = B
      <4>1. /\ x \in S /\ minor[x].next \in Nat /\ minor[x].prev \in Nat
            /\ IsNext(minor[x].next, x, S) /\ IsPrev(minor[x].prev, x, S)
        BY <3>2, <1>1 DEF HeapSound, ListsSound, MinorListsSound, MinorsOf
      <4>2. /\ minor'[x].block = B
            /\ minor'[x].next = (IF x = p THEN m ELSE minor[x].next)
            /\ minor'[x].prev = (IF x = n /\ x # p THEN m ELSE minor[x].prev)
        BY <3>2, <1>3, <1>5
      <4>0. x # NULL
        BY <4>1, <1>1 DEF MinorsOf
      <4>3. x = n => x # p
        BY <4>0 DEF Fits, Between
      <4>4. IsNext(minor'[x].next, x, S \cup {m})
        <5>1. x = p => IsNext(m, x, S \cup {m})
          BY <4>0, <2>2
        <5>2. x # p => IsNext(minor[x].next, x, S \cup {m})
          BY <4>1, <2>2
        <5> QED BY <5>1, <5>2, <4>2
      <4>5. IsPrev(minor'[x].prev, x, S \cup {m})
        <5>1. x = n => IsPrev(m, x, S \cup {m})
          BY <4>0, <2>2
        <5>2. x # n => IsPrev(minor[x].prev, x, S \cup {m})
          BY <4>1, <2>2
        <5> QED BY <5>1, <5>2, <4>2, <4>3
      <4> QED BY <4>2, <4>4, <4>5, <1>7
    <3>3. CASE x \in DOMAIN minor /\ minor[x].block # B
      <4>1. x # p /\ x # n
        BY <3>3, <1>1 DEF Fits, Between, MinorsOf
      <4>2. /\ minor'[x].block = minor[x].block /\ minor[x].block \in DOMAIN major
            /\ minor'[x].next = minor[x].next /\ minor'[x].prev = minor[x].prev
        BY <3>3, <4>1, <1>1, <1>3, <1>5
      <4>3. /\ IsNext(minor[x].next, x, MinorsOf(minor[x].block))
            /\ IsPrev(minor[x].prev, x, MinorsOf(minor[x].block))
        BY <3>3 DEF HeapSound, ListsSound, MinorListsSound
      <4> QED BY <3>3, <4>2, <4>3, <1>7
    <3> QED BY <3>1, <3>2, <3>3, <1>3
  <2> QED BY <2>3, <2>4, <1>4 DEF MinorListsSound
<1>12. AllocationsDisjoint'
  <2>1. ASSUME NEW x \in DOMAIN minor'
        PROVE  /\ minor'[x].block + MajorSize <= x
               /\ EndOfMinor(x)' <= EndOfMajor(minor[x].block)'
    <3>1. CASE x = m
      BY <3>1, <1>3, <1>6 DEF Fits
    <3>2. CASE x \in DOMAIN minor
      BY <3>2, <1>1, <1>3, <1>5, <1>6 DEF HeapSound, AllocationsDisjoint
    <3> QED BY <3>1, <3>2, <1>3
  <2>2. ASSUME NEW x \in DOMAIN minor', NEW y \in DOMAIN minor', x < y
        PROVE  EndOfMinor(x)' <= y
    <3>1. CASE x \in DOMAIN minor /\ y \in DOMAIN minor
      BY <3>1, <2>2, <1>6 DEF HeapSound, AllocationsDisjoint
    <3>2. CASE x = m /\ y \in DOMAIN minor
      BY <3>2, <2>2, <1>5, <1>6
    <3>3. CASE x \in DOMAIN minor /\ y = m
      BY <3>3, <2>2, <1>5, <1>6
    <3> QED BY <3>1, <3>2, <3>3, <2>2, <1>3
  <2>3. /\ \A C, D \in DOMAIN major' : C < D => EndOfMajor(C)' <= D
        /\ \A C \in DOMAIN major' : EndOfMajor(C)' <= heap_location' * PageSize
    BY <1>4, <1>6 DEF HeapSound, AllocationsDisjoint, Place
  <2> QED BY <2>1, <2>2, <2>3 DEF AllocationsDisjoint
<1>13. Roomy'
  BY <1>2, <1>3, <1>5, RequestFits DEF HeapSound, Roomy
<1>14. HeapSound'
  BY <1>8, <1>9, <1>10, <1>11, <1>12, <1>13 DEF HeapSound, ListsSound, Place
<1>15. m # NULL
  BY DEF Fits, Between
<1> QED BY <1>3, <1>4, <1>5, <1>7, <1>14, <1>15

\* The larger of two numbers.
LEMMA MaxOfTwo ==
    ASSUME NEW a \in Nat, NEW b \in Nat
    PROVE  Max({a, b}) \in Nat /\ Max({a, b}) >= a /\ Max({a, b}) >= b
<1>1. \E x \in {a, b} : \A y \in {a, b} : x >= y
  <2>1. CASE a >= b
    BY <2>1
  <2>2. CASE b >= a
    BY <2>2
  <2> QED BY <2>1, <2>2
<1>2. Max({a, b}) \in {a, b} /\ \A y \in {a, b} : Max({a, b}) >= y
  BY <1>1 DEF Max
<1> QED BY <1>2

\* Rounding a number of bytes up to pages loses none of them.
LEMMA RoundsUp ==
    ASSUME NEW x \in Nat, NEW d \in Nat \ {0}
    PROVE  /\ (x + d - 1) \div d \in Nat
           /\ x <= ((x + d - 1) \div d) * d
<1> DEFINE q == (x + d - 1) \div d
<1>1. q \in Int /\ q * d \in Int
  OBVIOUS
<1>2. x + d - 1 < q * d + d
  OBVIOUS
<1>3. x <= q * d
  BY <1>1, <1>2
<1>4. q >= 0
  OBVIOUS
<1> QED BY <1>1, <1>3, <1>4

\* The pages of a major hold what it was asked for and both headers.
LEMMA PagesForEnough ==
    ASSUME NEW size \in Nat
    PROVE  /\ PagesFor(size) \in Nat \ {0}
           /\ PagesFor(size) * PageSize \in Nat \ {0}
           /\ size + MajorSize + MinorSize <= PagesFor(size) * PageSize
<1> DEFINE x == size + MajorSize + MinorSize
           q == (x + PageSize - 1) \div PageSize
<1>1. x \in Nat /\ x > 0 /\ PageSize \in Nat \ {0} /\ PageCount \in Nat \ {0}
  BY Constants
<1>2. q \in Nat /\ x <= q * PageSize
  BY <1>1, RoundsUp
<1>3. PagesFor(size) \in Nat /\ PagesFor(size) >= q /\ PagesFor(size) >= PageCount
  BY <1>1, <1>2, MaxOfTwo DEF PagesFor
<1>4. q * PageSize <= PagesFor(size) * PageSize
  BY <1>1, <1>2, <1>3
<1>5. PagesFor(size) * PageSize \in Nat /\ q * PageSize \in Nat
  BY <1>1, <1>2, <1>3
<1> QED BY <1>1, <1>2, <1>3, <1>4, <1>5

\* The run the page allocator hands out lies behind all majors, and no page of
\* the heap comes first.
LEMMA NewRun ==
    ASSUME HeapSound
    PROVE  /\ heap_location * PageSize \in Nat \ {NULL}
           /\ \A C \in DOMAIN major : C < heap_location * PageSize
<1>1. heap_location \in Nat \ {0} /\ PageSize \in Nat \ {0}
  BY Constants DEF HeapSound
<1>2. heap_location * PageSize \in Nat \ {0}
  BY <1>1
<1>3. ASSUME NEW C \in DOMAIN major PROVE C < heap_location * PageSize
  <2>1. C \in Nat /\ major[C].size \in Nat /\ major[C].size > 0
    BY DEF HeapSound, MajorsTyped
  <2>2. C + major[C].size <= heap_location * PageSize
    BY DEF HeapSound, AllocationsDisjoint, EndOfMajor
  <2> QED BY <1>2, <2>1, <2>2
<1> QED BY <1>2, <1>3 DEF NULL

\* A major at the end of the list keeps the heap sound.
LEMMA AppendSound ==
    ASSUME HeapSound, call.size \in Nat, NEW last \in DOMAIN major \cup {NULL},
           IF last = NULL THEN DOMAIN major = {} ELSE major[last].next = NULL,
           PagesLeft(PagesFor(call.size)),
           AppendMajor(last), UNCHANGED minor,
           l_memRoot' = IF last = NULL THEN heap_location * PageSize ELSE l_memRoot,
           NEW N, N = heap_location * PageSize
    PROVE  /\ HeapSound'
           /\ DOMAIN major' = DOMAIN major \cup {N} /\ N \notin DOMAIN major
           /\ N # NULL /\ MinorsOf(N)' = {}
           /\ major'[N].usage = MajorSize /\ major'[N].first = NULL
           /\ major'[N].next = NULL
           /\ major'[N].size >= call.size + MajorSize + MinorSize
           /\ major'[N].size = major'[N].pages * PageSize
           /\ major'[N].pages = PagesFor(call.size)
           /\ heap_location' = heap_location + PagesFor(call.size)
           /\ \A C \in DOMAIN major : /\ MinorsOf(C)' = MinorsOf(C)
                                      /\ major'[C].usage = major[C].usage
                                      /\ major'[C].size = major[C].size
                                      /\ major'[C].pages = major[C].pages
                                      /\ major'[C].first = major[C].first
<1> USE DEF NULL
<1> DEFINE R == [prev : Nat, next : Nat, pages : Nat, size : Nat, usage : Int, first : Nat]
           n == PagesFor(call.size)
<1>1. /\ DOMAIN major \subseteq Nat \ {0} /\ DOMAIN minor \subseteq Nat \ {0}
      /\ \A C \in DOMAIN major : major[C] \in R /\ major[C].size > 0
      /\ \A x \in DOMAIN minor : minor[x].block \in DOMAIN major
  BY DEF HeapSound, MajorsTyped, MinorsTyped
<1>2. /\ N \in Nat \ {0} /\ \A C \in DOMAIN major : C < N
  BY NewRun
<1>3. n \in Nat \ {0} /\ n * PageSize \in Nat \ {0} /\ MajorSize \in Nat
      /\ call.size + MajorSize + MinorSize <= n * PageSize
  BY PagesForEnough, Constants
<1>4. N \notin DOMAIN major
  BY <1>1, <1>2
<1>5. /\ DOMAIN major' = DOMAIN major \cup {N}
      /\ major' = [C \in DOMAIN major' |-> major'[C]]
      /\ major'[N] = [prev |-> last, next |-> 0, pages |-> n, size |-> n * PageSize,
                      usage |-> MajorSize, first |-> 0]
      /\ \A C \in DOMAIN major :
            /\ major'[C] \in R
            /\ major'[C].next = (IF C = last THEN N ELSE major[C].next)
            /\ major'[C].prev = major[C].prev
            /\ major'[C].usage = major[C].usage /\ major'[C].size = major[C].size
            /\ major'[C].pages = major[C].pages /\ major'[C].first = major[C].first
  BY <1>1, <1>2, <1>4 DEF AppendMajor, NewMajor
<1>6. last \in Nat
  BY <1>1
<1>7. MajorsTyped'
  <2>1. \A C \in DOMAIN major' : major'[C] \in R /\ major'[C].size > 0
    BY <1>1, <1>3, <1>5, <1>6
  <2> QED BY <2>1, <1>1, <1>2, <1>5 DEF MajorsTyped
<1>8. MinorsTyped'
  BY <1>1, <1>5 DEF HeapSound, MinorsTyped
<1>9. heap_location' \in HeapStart..HeapEnd /\ heap_location' = heap_location + n
  <2>1. heap_location' = heap_location + n
    BY DEF AppendMajor, NewMajor
  <2>2. heap_location \in HeapStart..HeapEnd /\ heap_location + n <= HeapEnd
    BY DEF HeapSound, PagesLeft
  <2>3. HeapStart \in Nat /\ HeapEnd \in Nat
    BY Constants
  <2> HIDE DEF n
  <2> QED BY <1>3, <2>1, <2>2, <2>3
<1>10. /\ MinorsOf(N)' = {}
       /\ \A C \in DOMAIN major : MinorsOf(C)' = MinorsOf(C)
  BY <1>1, <1>4 DEF MinorsOf
<1>11. Between(N, last, 0, DOMAIN major)
  <2>1. last # 0 => \A C \in DOMAIN major : C <= last
    BY <1>1 DEF HeapSound, ListsSound, MajorListSound, IsNext
  <2>2. last = 0 => DOMAIN major = {}
    OBVIOUS
  <2>3. last # 0 => last \in DOMAIN major /\ last < N
    BY <1>2
  <2>4. \A C \in DOMAIN major : last # 0 /\ C <= last
    BY <2>1, <2>2
  <2> QED BY <2>3, <2>4, <1>2, <1>4 DEF Between
<1>12. MajorListSound'
  <2> DEFINE S == DOMAIN major
  <2>1. /\ IsNext(0, N, S \cup {N}) /\ IsPrev(last, N, S \cup {N})
        /\ last # 0 => IsNext(N, last, S \cup {N})
        /\ \A x \in S, f \in Nat : x # last /\ IsNext(f, x, S) => IsNext(f, x, S \cup {N})
        /\ \A x \in S, f \in Nat : x # 0 /\ IsPrev(f, x, S) => IsPrev(f, x, S \cup {N})
        /\ \A f \in Nat : IsFirst(f, S) => IsFirst(IF last = 0 THEN N ELSE f, S \cup {N})
    BY <1>1, <1>2, <1>6, <1>11, InsertInList
  <2>2. IsFirst(l_memRoot', S \cup {N})
    BY <2>1 DEF HeapSound, ListsSound, MajorListSound
  <2>3. ASSUME NEW C \in DOMAIN major'
        PROVE  IsNext(major'[C].next, C, S \cup {N}) /\ IsPrev(major'[C].prev, C, S \cup {N})
    <3>1. CASE C = N
      BY <3>1, <2>1, <1>5
    <3>2. CASE C \in S
      <4>1. /\ IsNext(major[C].next, C, S) /\ IsPrev(major[C].prev, C, S)
            /\ major[C].next \in Nat /\ major[C].prev \in Nat /\ C # 0
        BY <3>2, <1>1 DEF HeapSound, ListsSound, MajorListSound
      <4>2. C = last => IsNext(N, C, S \cup {N})
        BY <4>1, <2>1
      <4>3. C # last => IsNext(major[C].next, C, S \cup {N})
        BY <3>2, <4>1, <2>1
      <4>4. IsPrev(major[C].prev, C, S \cup {N})
        BY <3>2, <4>1, <2>1
      <4> QED BY <3>2, <4>2, <4>3, <4>4, <1>5
    <3> QED BY <3>1, <3>2, <1>5
  <2> QED BY <2>2, <2>3, <1>5 DEF MajorListSound
<1>13. MinorListsSound'
  <2>1. ASSUME NEW C \in DOMAIN major' PROVE IsFirst(major'[C].first, MinorsOf(C)')
    <3>1. CASE C = N
      BY <3>1, <1>5, <1>10 DEF IsFirst
    <3>2. CASE C \in DOMAIN major
      BY <3>2, <1>5, <1>10 DEF HeapSound, ListsSound, MinorListsSound
    <3> QED BY <3>1, <3>2, <1>5
  <2>2. ASSUME NEW x \in DOMAIN minor'
        PROVE  /\ IsNext(minor'[x].next, x, MinorsOf(minor[x].block)')
               /\ IsPrev(minor'[x].prev, x, MinorsOf(minor[x].block)')
    BY <1>1, <1>10 DEF HeapSound, ListsSound, MinorListsSound
  <2> QED BY <2>1, <2>2 DEF MinorListsSound
<1>14. \A C \in DOMAIN major : EndOfMajor(C)' = EndOfMajor(C)
  BY <1>5 DEF EndOfMajor
<1>15. \A C : C = N => EndOfMajor(C)' = heap_location' * PageSize
  <2>1. (heap_location + n) * PageSize = heap_location * PageSize + n * PageSize
    BY <1>3, <1>9, Constants DEF HeapSound
  <2> QED BY <2>1, <1>5, <1>9 DEF EndOfMajor
<1>16. N <= heap_location' * PageSize
  <2>1. (heap_location + n) * PageSize = heap_location * PageSize + n * PageSize
    BY <1>3, <1>9, Constants DEF HeapSound
  <2> QED BY <2>1, <1>2, <1>3, <1>9
<1>17. AllocationsDisjoint'
  <2>1. \A x \in DOMAIN minor : EndOfMinor(x)' = EndOfMinor(x)
    BY DEF EndOfMinor
  <2>2. ASSUME NEW x \in DOMAIN minor'
        PROVE  /\ minor'[x].block + MajorSize <= x
               /\ EndOfMinor(x)' <= EndOfMajor(minor[x].block)'
    BY <2>1, <1>1, <1>14 DEF HeapSound, AllocationsDisjoint
  <2>3. \A x, y \in DOMAIN minor' : x < y => EndOfMinor(x)' <= y
    BY <2>1 DEF HeapSound, AllocationsDisjoint
  <2>4. ASSUME NEW C \in DOMAIN major', NEW D \in DOMAIN major', C < D
        PROVE  EndOfMajor(C)' <= D
    <3>1. C \in DOMAIN major
      BY <2>4, <1>1, <1>2, <1>5
    <3>2. CASE D \in DOMAIN major
      BY <2>4, <3>1, <3>2, <1>14 DEF HeapSound, AllocationsDisjoint
    <3>3. CASE D = N
      BY <3>1, <3>3, <1>14 DEF HeapSound, AllocationsDisjoint
    <3> QED BY <3>2, <3>3, <1>5
  <2>5. ASSUME NEW C \in DOMAIN major' PROVE EndOfMajor(C)' <= heap_location' * PageSize
    <3>1. heap_location' * PageSize \in Nat
      BY <1>9, Constants
    <3>2. CASE C = N
      BY <3>1, <3>2, <1>15
    <3>3. CASE C \in DOMAIN major
      <4>1. EndOfMajor(C) <= N /\ EndOfMajor(C) \in Nat
        <5>1. EndOfMajor(C) <= heap_location * PageSize
          BY <3>3 DEF HeapSound, AllocationsDisjoint
        <5>2. C \in Nat /\ major[C].size \in Nat
          BY <3>3, <1>1
        <5> QED BY <5>1, <5>2 DEF EndOfMajor
      <4>2. EndOfMajor(C)' = EndOfMajor(C)
        BY <3>3, <1>14
      <4>3. PICK e \in Nat : e = heap_location' * PageSize
        BY <3>1
      <4>4. EndOfMajor(C) <= e
        BY <1>2, <1>16, <4>1, <4>3
      <4> QED BY <4>2, <4>3, <4>4
    <3> QED BY <3>2, <3>3, <1>5
  <2> QED BY <2>2, <2>3, <2>4, <2>5 DEF AllocationsDisjoint
<1>18. l_memRoot' \in Nat
  BY <1>2 DEF HeapSound
<1>19. HeapSound'
  BY <1>7, <1>8, <1>9, <1>12, <1>13, <1>17, <1>18 DEF HeapSound, ListsSound, Roomy
<1> QED BY <1>2, <1>3, <1>4, <1>5, <1>9, <1>10, <1>19

\* What unlinking a minor leaves, whatever becomes of its major.
LEMMA UnlinkedMinors ==
    ASSUME HeapSound, NEW m \in DOMAIN minor, NEW B, B = minor[m].block,
           minor' = Unlinked(m)
    PROVE  /\ DOMAIN minor' = DOMAIN minor \ {m}
           /\ minor' = [x \in DOMAIN minor' |-> minor'[x]]
           /\ \A x \in DOMAIN minor' :
                 /\ minor'[x] \in [prev : Nat, next : Nat, block : DOMAIN major,
                                   size : Nat, req_size : Nat]
                 /\ minor'[x].block = minor[x].block /\ minor'[x].size = minor[x].size
                 /\ minor'[x].req_size = minor[x].req_size
                 /\ EndOfMinor(x)' = EndOfMinor(x)
                 /\ IsNext(minor'[x].next, x, MinorsOf(minor[x].block)')
                 /\ IsPrev(minor'[x].prev, x, MinorsOf(minor[x].block)')
           /\ MinorsOf(B)' = MinorsOf(B) \ {m}
           /\ \A C \in DOMAIN major : C # B => MinorsOf(C)' = MinorsOf(C)
           /\ EmptiesMajor(m) => MinorsOf(B) = {m}
           /\ ~EmptiesMajor(m) =>
                 /\ MinorsOf(B)' # {}
                 /\ IsFirst(IF minor[m].prev = NULL THEN minor[m].next ELSE major[B].first,
                            MinorsOf(B)')
<1> USE DEF NULL
<1> DEFINE R == [prev : Nat, next : Nat, block : DOMAIN major, size : Nat, req_size : Nat]
           S == MinorsOf(B)
           p == minor[m].prev
           n == minor[m].next
<1>1. /\ DOMAIN minor \subseteq Nat \ {0} /\ \A x \in DOMAIN minor : minor[x] \in R
      /\ B \in DOMAIN major /\ major[B].first \in Nat
  BY DEF HeapSound, MinorsTyped, MajorsTyped
<1>2. S \in SUBSET (Nat \ {0}) /\ m \in S /\ p \in Nat /\ n \in Nat
  BY <1>1 DEF MinorsOf
<1>3. IsNext(n, m, S) /\ IsPrev(p, m, S) /\ IsFirst(major[B].first, S)
  BY <1>1 DEF HeapSound, ListsSound, MinorListsSound
<1>4. /\ p # 0 => IsNext(n, p, S \ {m})
      /\ n # 0 => IsPrev(p, n, S \ {m})
      /\ \A x \in S, f \in Nat : x # m /\ x # p /\ IsNext(f, x, S) => IsNext(f, x, S \ {m})
      /\ \A x \in S, f \in Nat : x # m /\ x # n /\ IsPrev(f, x, S) => IsPrev(f, x, S \ {m})
      /\ \A f \in Nat : IsFirst(f, S) => IsFirst(IF f = m THEN n ELSE f, S \ {m})
      /\ \A f \in Nat : IsFirst(f, S) => (f = m <=> p = 0)
      /\ p = 0 /\ n = 0 => S = {m}
      /\ p # 0 => p # n /\ p # m
      /\ n # 0 => n # m
  <2> HIDE DEF S, p, n
  <2> QED BY <1>2, <1>3, RemoveFromList
<1>5. /\ DOMAIN minor' = DOMAIN minor \ {m}
      /\ minor' = [x \in DOMAIN minor' |-> minor'[x]]
      /\ \A x \in DOMAIN minor' :
            /\ minor'[x] \in R
            /\ minor'[x].block = minor[x].block /\ minor'[x].size = minor[x].size
            /\ minor'[x].req_size = minor[x].req_size
            /\ minor'[x].prev = (IF x = n THEN p ELSE minor[x].prev)
            /\ minor'[x].next = (IF x = p /\ x # n THEN n ELSE minor[x].next)
  BY <1>1, <1>2 DEF Unlinked
<1>6. MinorsOf(B)' = S \ {m} /\ \A C \in DOMAIN major : C # B => MinorsOf(C)' = MinorsOf(C)
  BY <1>5 DEF MinorsOf
<1>7. \A x \in DOMAIN minor' : EndOfMinor(x)' = EndOfMinor(x)
  BY <1>5 DEF EndOfMinor
<1>8. ASSUME NEW x \in DOMAIN minor'
      PROVE  /\ IsNext(minor'[x].next, x, MinorsOf(minor[x].block)')
             /\ IsPrev(minor'[x].prev, x, MinorsOf(minor[x].block)')
  <2>1. /\ x \in DOMAIN minor /\ x # m /\ x # 0 /\ minor'[x].block = minor[x].block
        /\ IsNext(minor[x].next, x, MinorsOf(minor[x].block))
        /\ IsPrev(minor[x].prev, x, MinorsOf(minor[x].block))
        /\ minor[x].next \in Nat /\ minor[x].prev \in Nat
        /\ minor'[x].prev = (IF x = n THEN p ELSE minor[x].prev)
        /\ minor'[x].next = (IF x = p /\ x # n THEN n ELSE minor[x].next)
    BY <1>1, <1>5 DEF HeapSound, ListsSound, MinorListsSound
  <2>2. CASE minor[x].block = B
    <3>1. x \in S
      BY <2>1, <2>2 DEF MinorsOf
    <3>2. x = p => x # n
      BY <2>1, <1>4
    <3>3. x = p => IsNext(n, x, S \ {m})
      BY <2>1, <1>4
    <3>4. x # p => IsNext(minor[x].next, x, S \ {m})
      BY <2>1, <2>2, <3>1, <1>4
    <3>5. x = n => IsPrev(p, x, S \ {m})
      BY <2>1, <1>4
    <3>6. x # n => IsPrev(minor[x].prev, x, S \ {m})
      BY <2>1, <2>2, <3>1, <1>4
    <3> QED BY <2>1, <2>2, <3>2, <3>3, <3>4, <3>5, <3>6, <1>6
  <2>3. CASE minor[x].block # B
    <3>1. x \notin S
      BY <2>3 DEF MinorsOf
    <3>2. x # p /\ x # n
      BY <3>1, <2>1, <1>3 DEF IsNext, IsPrev
    <3> QED BY <2>1, <2>3, <3>2, <1>1, <1>6
  <2> QED BY <2>2, <2>3
<1>9. EmptiesMajor(m) => S = {m}
  BY <1>4 DEF EmptiesMajor
<1>10. ASSUME ~EmptiesMajor(m)
       PROVE  MinorsOf(B)' # {} /\ IsFirst(IF p = 0 THEN n ELSE major[B].first, MinorsOf(B)')
  <2>1. p # 0 \/ n # 0
    BY <1>10 DEF EmptiesMajor
  <2>2. \E y \in S : y # m
    BY <2>1, <1>3, <1>4 DEF IsNext, IsPrev
  <2>3. major[B].first = m <=> p = 0
    BY <1>1, <1>3, <1>4
  <2>4. IsFirst(IF major[B].first = m THEN n ELSE major[B].first, S \ {m})
    BY <1>1, <1>3, <1>4
  <2> QED BY <2>2, <2>3, <2>4, <1>6
<1> QED BY <1>5, <1>6, <1>7, <1>8, <1>9, <1>10

\* What the steps of kfree do to the majors, apart from their lists.
Kept(B, m) ==
    /\ DOMAIN major' = IF EmptiesMajor(m) THEN DOMAIN major \ {B} ELSE DOMAIN major
    /\ \A C \in DOMAIN major' :
          /\ major'[C].size = major[C].size /\ major'[C].pages = major[C].pages
          /\ C # B => major'[C].usage = major[C].usage

\* Freeing a minor, and its major with it if it was the last, keeps the heap sound.
LEMMA FreeSound ==
    ASSUME HeapSound, NEW m \in DOMAIN minor, NEW B, B = minor[m].block, FreeMinor(m)
    PROVE  /\ HeapSound'
           /\ DOMAIN minor' = DOMAIN minor \ {m}
           /\ Kept(B, m)
           /\ \A C \in DOMAIN major' : MinorsOf(C)' = {} => MinorsOf(C) = {}
           /\ l_bestBet \in DOMAIN major \cup {NULL} => l_bestBet' \in DOMAIN major' \cup {NULL}
<1> USE DEF NULL
<1> DEFINE R == [prev : Nat, next : Nat, pages : Nat, size : Nat, usage : Int, first : Nat]
           S == DOMAIN major
           p == major[B].prev
           n == major[B].next
<1>1. /\ S \subseteq Nat \ {0} /\ B \in S
      /\ \A C \in S : major[C] \in R /\ major[C].size > 0
      /\ DOMAIN minor \subseteq Nat \ {0}
      /\ \A x \in DOMAIN minor : minor[x].block \in S /\ minor[x].next \in Nat
                                 /\ minor[x].size \in Nat
      /\ major = [C \in S |-> major[C]]
  BY DEF HeapSound, MajorsTyped, MinorsTyped
<1>2. /\ DOMAIN minor' = DOMAIN minor \ {m}
      /\ minor' = [x \in DOMAIN minor' |-> minor'[x]]
      /\ \A x \in DOMAIN minor' :
            /\ minor'[x] \in [prev : Nat, next : Nat, block : DOMAIN major,
                              size : Nat, req_size : Nat]
            /\ minor'[x].block = minor[x].block /\ minor'[x].size = minor[x].size
            /\ minor'[x].req_size = minor[x].req_size
            /\ EndOfMinor(x)' = EndOfMinor(x)
            /\ IsNext(minor'[x].next, x, MinorsOf(minor[x].block)')
            /\ IsPrev(minor'[x].prev, x, MinorsOf(minor[x].block)')
      /\ MinorsOf(B)' = MinorsOf(B) \ {m}
      /\ \A C \in DOMAIN major : C # B => MinorsOf(C)' = MinorsOf(C)
      /\ EmptiesMajor(m) => MinorsOf(B) = {m}
      /\ ~EmptiesMajor(m) =>
            /\ MinorsOf(B)' # {}
            /\ IsFirst(IF minor[m].prev = NULL THEN minor[m].next ELSE major[B].first,
                       MinorsOf(B)')
  <2>1. minor' = Unlinked(m)
    BY DEF FreeMinor
  <2>2. ASSUME NEW C \in DOMAIN major, C # B PROVE MinorsOf(C)' = MinorsOf(C)
    BY <2>1, <2>2, UnlinkedMinors DEF MinorsOf
  <2> QED BY <2>1, <2>2, UnlinkedMinors
<1>3. /\ UNCHANGED heap_location
      /\ EmptiesMajor(m) => ReleaseMajor(B)
      /\ ~EmptiesMajor(m) => ShrinkMajor(B, m)
  BY DEF FreeMinor
<1>4. IsNext(n, B, S) /\ IsPrev(p, B, S) /\ IsFirst(l_memRoot, S)
      /\ p \in Nat /\ n \in Nat /\ l_memRoot \in Nat
  BY <1>1 DEF HeapSound, ListsSound, MajorListSound
<1>5. /\ p # 0 => IsNext(n, p, S \ {B})
      /\ n # 0 => IsPrev(p, n, S \ {B})
      /\ \A x \in S, f \in Nat : x # B /\ x # p /\ IsNext(f, x, S) => IsNext(f, x, S \ {B})
      /\ \A x \in S, f \in Nat : x # B /\ x # n /\ IsPrev(f, x, S) => IsPrev(f, x, S \ {B})
      /\ \A f \in Nat : IsFirst(f, S) => IsFirst(IF f = B THEN n ELSE f, S \ {B})
      /\ \A f \in Nat : IsFirst(f, S) => (f = B <=> p = 0)
      /\ p = 0 /\ n = 0 => S = {B}
      /\ p # 0 => p # n /\ p # B
      /\ n # 0 => n # B
  <2>1. S \in SUBSET (Nat \ {0}) /\ B \in S /\ p \in Nat /\ n \in Nat
    BY <1>1, <1>4
  <2>2. IsNext(n, B, S) /\ IsPrev(p, B, S)
    BY <1>4
  <2> HIDE DEF S, p, n
  <2> QED BY ONLY <2>1, <2>2, RemoveFromList, SMTT(60)
<1>6. /\ DOMAIN major' = (IF EmptiesMajor(m) THEN S \ {B} ELSE S)
      /\ major' = [C \in DOMAIN major' |-> major'[C]]
      /\ \A C \in DOMAIN major' :
            /\ major'[C] \in R
            /\ major'[C].size = major[C].size /\ major'[C].pages = major[C].pages
            /\ C # B => major'[C].usage = major[C].usage
            /\ ~EmptiesMajor(m) => /\ major'[C].next = major[C].next
                                   /\ major'[C].prev = major[C].prev
            /\ EmptiesMajor(m) =>
                  /\ major'[C].next = (IF C = p THEN n ELSE major[C].next)
                  /\ major'[C].prev = (IF C = n /\ C # p THEN p ELSE major[C].prev)
            /\ C # B => major'[C].first = major[C].first
      /\ ~EmptiesMajor(m) => major'[B].first =
                                (IF minor[m].prev = 0 THEN minor[m].next ELSE major[B].first)
  <2>1. CASE EmptiesMajor(m)
    BY <2>1, <1>1, <1>3, <1>4 DEF ReleaseMajor
  <2>2. CASE ~EmptiesMajor(m)
    <3>1. Footprint(m) \in Nat
      BY <1>1, Constants DEF Footprint
    <3>2. major' = [major EXCEPT ![B].usage = @ - Footprint(m),
                                 ![B].first = IF minor[m].prev = 0
                                              THEN minor[m].next ELSE @]
      BY <2>2, <1>3 DEF ShrinkMajor
    <3>3. DOMAIN major' = S /\ major' = [C \in S |-> major'[C]]
      BY <3>2, <1>1
    <3>4. \A C \in S \ {B} : major'[C] = major[C]
      BY <3>2, <1>1
    <3>5. major'[B] = [major[B] EXCEPT !.usage = @ - Footprint(m),
                                       !.first = IF minor[m].prev = 0
                                                 THEN minor[m].next ELSE @]
      BY <3>2, <1>1
    <3>6. /\ major[B].prev \in Nat /\ major[B].next \in Nat /\ major[B].pages \in Nat
          /\ major[B].size \in Nat /\ major[B].usage \in Int /\ major[B].first \in Nat
          /\ minor[m].next \in Nat /\ DOMAIN major[B] = DOMAIN major'[B]
      BY <3>5, <1>1
    <3>7. major'[B] = [prev |-> major[B].prev, next |-> major[B].next,
                       pages |-> major[B].pages, size |-> major[B].size,
                       usage |-> major[B].usage - Footprint(m),
                       first |-> IF minor[m].prev = 0 THEN minor[m].next ELSE major[B].first]
      BY <3>5, <1>1
    <3>8. major'[B] \in R
      BY <3>1, <3>6, <3>7
    <3>9. \A C \in S : C = B \/ C \in S \ {B}
      OBVIOUS
    <3>10. \A C \in S \ {B} : /\ major'[C] \in R /\ C # B /\ major'[C] = major[C]
      BY <3>4, <1>1
    <3> QED BY <2>2, <3>3, <3>7, <3>8, <3>9, <3>10
  <2> QED BY <2>1, <2>2
<1>7. MajorsTyped'
  BY <1>1, <1>6 DEF MajorsTyped
<1>8. \A x \in DOMAIN minor' : minor'[x].block \in DOMAIN major'
  <2>1. ASSUME NEW x \in DOMAIN minor', EmptiesMajor(m) PROVE minor'[x].block # B
    BY <2>1, <1>2 DEF MinorsOf
  <2> QED BY <2>1, <1>2, <1>6
<1>9. MinorsTyped'
  <2>1. \A x \in DOMAIN minor' :
          minor'[x] \in [prev : Nat, next : Nat, block : DOMAIN major', size : Nat, req_size : Nat]
    BY <1>2, <1>8
  <2> QED BY <2>1, <1>1, <1>2 DEF MinorsTyped
<1>10. MajorListSound' /\ l_memRoot' \in Nat
  <2>1. CASE EmptiesMajor(m)
    <3>1. l_memRoot' = IF l_memRoot = B THEN n ELSE l_memRoot
      BY <2>1, <1>3 DEF ReleaseMajor, RootWithout
    <3>2. IsFirst(l_memRoot', S \ {B})
      BY <3>1, <1>4, <1>5
    <3>3. ASSUME NEW C \in DOMAIN major'
          PROVE  IsNext(major'[C].next, C, S \ {B}) /\ IsPrev(major'[C].prev, C, S \ {B})
      <4>1. /\ C \in S /\ C # B /\ C # 0
            /\ IsNext(major[C].next, C, S) /\ IsPrev(major[C].prev, C, S)
            /\ major[C].next \in Nat /\ major[C].prev \in Nat
            /\ major'[C].next = (IF C = p THEN n ELSE major[C].next)
            /\ major'[C].prev = (IF C = n /\ C # p THEN p ELSE major[C].prev)
        BY <2>1, <1>1, <1>6 DEF HeapSound, ListsSound, MajorListSound
      <4>2. C = n => C # p
        BY <4>1, <1>5
      <4>3. C = p => IsNext(n, C, S \ {B})
        BY <4>1, <1>5
      <4>4. C # p => IsNext(major[C].next, C, S \ {B})
        BY <4>1, <1>5
      <4>5. C = n => IsPrev(p, C, S \ {B})
        BY <4>1, <1>5
      <4>6. C # n => IsPrev(major[C].prev, C, S \ {B})
        BY <4>1, <1>5
      <4> QED BY <4>1, <4>2, <4>3, <4>4, <4>5, <4>6
    <3>4. DOMAIN major' = S \ {B}
      BY <2>1, <1>6
    <3> QED BY <3>1, <3>2, <3>3, <3>4, <1>4 DEF MajorListSound
  <2>2. CASE ~EmptiesMajor(m)
    BY <2>2, <1>3, <1>6 DEF ShrinkMajor, HeapSound, ListsSound, MajorListSound
  <2> QED BY <2>1, <2>2
<1>11. MinorListsSound'
  <2>1. ASSUME NEW C \in DOMAIN major' PROVE IsFirst(major'[C].first, MinorsOf(C)')
    <3>1. CASE C = B
      BY <3>1, <1>2, <1>6
    <3>2. CASE C # B
      BY <3>2, <1>2, <1>6 DEF HeapSound, ListsSound, MinorListsSound
    <3> QED BY <3>1, <3>2
  <2> QED BY <2>1, <1>2 DEF MinorListsSound
<1>12. \A C \in DOMAIN major' : EndOfMajor(C)' = EndOfMajor(C)
  BY <1>6 DEF EndOfMajor
<1>13. AllocationsDisjoint'
  <2>1. \A x \in DOMAIN minor' : /\ minor'[x].block + MajorSize <= x
                                 /\ EndOfMinor(x)' <= EndOfMajor(minor[x].block)'
    BY <1>2, <1>8, <1>12 DEF HeapSound, AllocationsDisjoint
  <2>2. \A x, y \in DOMAIN minor' : x < y => EndOfMinor(x)' <= y
    BY <1>2 DEF HeapSound, AllocationsDisjoint
  <2>3. \A C, D \in DOMAIN major' : C < D => EndOfMajor(C)' <= D
    BY <1>6, <1>12 DEF HeapSound, AllocationsDisjoint
  <2>4. \A C \in DOMAIN major' : EndOfMajor(C)' <= heap_location' * PageSize
    BY <1>3, <1>6, <1>12 DEF HeapSound, AllocationsDisjoint
  <2> QED BY <2>1, <2>2, <2>3, <2>4 DEF AllocationsDisjoint
<1>14. Roomy'
  BY <1>2 DEF HeapSound, Roomy
<1>15. HeapSound'
  BY <1>3, <1>7, <1>9, <1>10, <1>11, <1>13, <1>14 DEF HeapSound, ListsSound
<1>16. \A C \in DOMAIN major' : MinorsOf(C)' = {} => MinorsOf(C) = {}
  BY <1>2, <1>6
<1>17. ASSUME l_bestBet \in S \cup {0} PROVE l_bestBet' \in DOMAIN major' \cup {0}
  <2>1. CASE EmptiesMajor(m)
    BY <1>17, <2>1, <1>3, <1>6 DEF ReleaseMajor, BetWithout
  <2>2. CASE ~EmptiesMajor(m)
    BY <1>17, <2>2, <1>1, <1>3, <1>6 DEF ShrinkMajor
  <2> QED BY <2>1, <2>2
<1> QED BY <1>2, <1>6, <1>15, <1>16, <1>17 DEF Kept

----------------------------------------------------------------------------
(* The inductive invariant.                                                *)

InCall == call.op \in {"start", "search", "fresh", "minors"}
AtMajor == call.op \in {"search", "fresh", "minors"}

CallType ==
    call \in [op : {"idle", "start", "search", "fresh", "minors", "copy", "halted"},
              req : Nat, size : Nat, bestSize : Int, startedBet : BOOLEAN,
              maj : DOMAIN major \cup {NULL},
              min : DOMAIN minor \cup {NULL}, old : DOMAIN minor \cup {NULL}]

\* The locals of the call fit the place it has come to.
CallSound ==
    /\ call.op = "idle" => call = Idle
    /\ InCall => Requested
    /\ AtMajor => call.maj \in DOMAIN major
    /\ InMinors => minor[call.min].block = call.maj
    /\ call.op = "fresh" => major[call.maj].first = NULL
    /\ call.op = "copy" => call.old \in DOMAIN minor

\* The only major that may be empty is one made for the call in progress, and
\* it holds nothing but its header and has room for what the call asks for.
Awaited(M) ==
    /\ major[M].usage = MajorSize
    /\ major[M].size >= call.size + MajorSize + MinorSize
    /\ \/ call.op = "start" /\ M = l_memRoot /\ l_bestBet = NULL
       \/ call.op \in {"search", "fresh"} /\ M = call.maj

EmptyAwaited == \A M \in DOMAIN major : MinorsOf(M) = {} => Awaited(M)

IInv ==
    /\ HeapSound
    /\ l_bestBet \in DOMAIN major \cup {NULL}
    /\ l_allocated \in Int /\ l_inuse \in Int
    /\ CallType /\ CallSound /\ EmptyAwaited

----------------------------------------------------------------------------
(* What a step does to the pages of the majors, for those who provide them. *)

\* A major is made of the run the page allocator hands out next.
Grown ==
    LET N == heap_location * PageSize IN
    /\ InCall /\ call'.op # "halted"
    /\ N \notin DOMAIN major /\ DOMAIN major' = DOMAIN major \cup {N}
    /\ major'[N].pages = PagesFor(call.size)
    /\ major'[N].size = PagesFor(call.size) * PageSize
    /\ heap_location' = heap_location + PagesFor(call.size)

\* A major goes.
Shrunk ==
    /\ \E B \in DOMAIN major : DOMAIN major' = DOMAIN major \ {B}
    /\ call'.op # "halted"
    /\ UNCHANGED heap_location

\* None does, unless the allocator halts for want of pages.
Steady ==
    /\ UNCHANGED heap_location /\ DOMAIN major' = DOMAIN major
    /\ call.op # "halted" /\ call'.op = "halted" => InCall

\* A header that stays says the same of its extent.
ExtentsKept ==
    /\ \A M \in DOMAIN major \cap DOMAIN major' :
          major'[M].pages = major[M].pages /\ major'[M].size = major[M].size
    /\ \A m \in DOMAIN minor \cap DOMAIN minor' : minor'[m].block = minor[m].block

----------------------------------------------------------------------------
(* The steps.                                                              *)

\* Nothing in HeapSound changes when the memory and the root do not.
LEMMA HeapUnchanged ==
    ASSUME HeapSound, UNCHANGED <<major, minor, l_memRoot, heap_location>>
    PROVE  HeapSound' /\ \A C \in DOMAIN major : MinorsOf(C)' = MinorsOf(C)
<1>1. \A C : MinorsOf(C)' = MinorsOf(C)
  BY DEF MinorsOf
<1>2. (\A x : EndOfMinor(x)' = EndOfMinor(x)) /\ \A C : EndOfMajor(C)' = EndOfMajor(C)
  BY DEF EndOfMinor, EndOfMajor
<1>3. MajorsTyped' /\ MinorsTyped' /\ Roomy'
  BY DEF HeapSound, MajorsTyped, MinorsTyped, Roomy
<1>4. AllocationsDisjoint'
  BY <1>2 DEF HeapSound, AllocationsDisjoint
<1>5. MajorListSound'
  BY DEF HeapSound, ListsSound, MajorListSound
<1>6. MinorListsSound'
  <2>1. \A M \in DOMAIN major : IsFirst(major[M].first, MinorsOf(M)')
    BY <1>1 DEF HeapSound, ListsSound, MinorListsSound
  <2>2. \A m \in DOMAIN minor : /\ IsNext(minor[m].next, m, MinorsOf(minor[m].block)')
                                /\ IsPrev(minor[m].prev, m, MinorsOf(minor[m].block)')
    BY DEF HeapSound, ListsSound, MinorListsSound, MinorsOf
  <2> QED BY <2>1, <2>2 DEF MinorListsSound
<1> QED BY <1>1, <1>3, <1>4, <1>5, <1>6 DEF HeapSound, ListsSound

\* The pointers of the lists lead to headers that are there.
LEMMA PointersLead ==
    ASSUME IInv
    PROVE  /\ l_memRoot \in DOMAIN major \cup {NULL}
           /\ l_memRoot = NULL => DOMAIN major = {} /\ l_bestBet = NULL
           /\ \A M \in DOMAIN major :
                 /\ major[M].next \in DOMAIN major \cup {NULL}
                 /\ major[M].prev \in DOMAIN major \cup {NULL}
                 /\ major[M].first \in DOMAIN minor \cup {NULL}
                 /\ major[M].first = NULL => MinorsOf(M) = {}
                 /\ major[M].first # NULL => minor[major[M].first].block = M
                 /\ major[M].size \in Nat /\ major[M].usage \in Int /\ Free(M) \in Int
           /\ \A m \in DOMAIN minor :
                 /\ minor[m].block \in DOMAIN major
                 /\ minor[m].next \in DOMAIN minor \cup {NULL}
                 /\ minor[m].prev \in DOMAIN minor \cup {NULL}
                 /\ minor[m].next # NULL => minor[minor[m].next].block = minor[m].block
<1> USE DEF NULL
<1>1. /\ DOMAIN major \subseteq Nat \ {0} /\ DOMAIN minor \subseteq Nat \ {0}
      /\ \A M \in DOMAIN major : /\ major[M].size \in Nat /\ major[M].usage \in Int
                                 /\ Free(M) \in Int
      /\ \A m \in DOMAIN minor : minor[m].block \in DOMAIN major
  BY DEF IInv, HeapSound, MajorsTyped, MinorsTyped, Free
<1>2. /\ l_memRoot \in DOMAIN major \cup {0}
      /\ l_memRoot = 0 => DOMAIN major = {} /\ l_bestBet = 0
  BY <1>1 DEF IInv, HeapSound, ListsSound, MajorListSound, IsFirst
<1>3. \A M \in DOMAIN major : /\ major[M].next \in DOMAIN major \cup {0}
                              /\ major[M].prev \in DOMAIN major \cup {0}
  BY DEF IInv, HeapSound, ListsSound, MajorListSound, IsNext, IsPrev
<1>4. ASSUME NEW M \in DOMAIN major
      PROVE  /\ major[M].first \in DOMAIN minor \cup {0}
             /\ major[M].first = 0 => MinorsOf(M) = {}
             /\ major[M].first # 0 => minor[major[M].first].block = M
  <2>1. IsFirst(major[M].first, MinorsOf(M))
    BY DEF IInv, HeapSound, ListsSound, MinorListsSound
  <2>2. 0 \notin MinorsOf(M)
    BY <1>1 DEF MinorsOf
  <2> QED BY <2>1, <2>2 DEF IsFirst, MinorsOf
<1>5. ASSUME NEW m \in DOMAIN minor
      PROVE  /\ minor[m].next \in DOMAIN minor \cup {0}
             /\ minor[m].prev \in DOMAIN minor \cup {0}
             /\ minor[m].next # 0 => minor[minor[m].next].block = minor[m].block
  <2>1. /\ IsNext(minor[m].next, m, MinorsOf(minor[m].block))
        /\ IsPrev(minor[m].prev, m, MinorsOf(minor[m].block))
    BY DEF IInv, HeapSound, ListsSound, MinorListsSound
  <2> QED BY <2>1 DEF IsNext, IsPrev, MinorsOf
<1> QED BY <1>1, <1>2, <1>3, <1>4, <1>5

\* Which steps find no empty major: those outside a search, and CASE 1.
LEMMA NoneEmpty ==
    ASSUME IInv, \/ call.op \in {"idle", "minors", "copy", "halted"}
                 \/ call.op = "search" /\ ~Sufficient
    PROVE  \A M \in DOMAIN major : MinorsOf(M) # {}
<1>1. SUFFICES ASSUME NEW M \in DOMAIN major, MinorsOf(M) = {} PROVE FALSE
  OBVIOUS
<1>2. Awaited(M)
  BY <1>1 DEF IInv, EmptyAwaited
<1>3. call.op = "search" /\ ~Sufficient /\ M = call.maj
  BY <1>2 DEF Awaited
<1>4. /\ major[M].size \in Nat /\ call.size \in Nat
      /\ MajorSize \in Nat /\ MinorSize \in Nat
  BY Constants, PointersLead DEF IInv, CallType
<1> QED BY <1>2, <1>3, <1>4 DEF Awaited, Sufficient, Free, Room

\* What is left to show of a step that leaves the memory alone.
LEMMA CallMoves ==
    ASSUME IInv, UNCHANGED <<major, minor, l_memRoot, l_allocated, l_inuse, heap_location>>,
           l_bestBet' \in DOMAIN major \cup {NULL}, CallType', CallSound',
           \A M \in DOMAIN major : MinorsOf(M) = {} => Awaited(M)'
    PROVE  IInv'
<1>1. HeapSound' /\ \A M \in DOMAIN major : MinorsOf(M)' = MinorsOf(M)
  BY HeapUnchanged DEF IInv
<1>2. EmptyAwaited'
  BY <1>1 DEF EmptyAwaited
<1> QED BY <1>1, <1>2 DEF IInv

\* malloc starts, for kmalloc or for krealloc.
LEMMA StartSound ==
    ASSUME IInv, call.op = "idle", NEW req \in ReqSizes, NEW old \in DOMAIN minor \cup {NULL},
           call' = Starting(req, old), UNCHANGED <<heap, heap_location>>
    PROVE  IInv'
<1>1. req \in Nat /\ SizeFor(req) \in Nat /\ req + Alignment + AlignInfo <= SizeFor(req)
  BY Constants, SizesAssumption DEF SizeFor
<1>2. call' = [op |-> "start", req |-> req, size |-> SizeFor(req), maj |-> NULL, min |-> NULL,
               startedBet |-> FALSE, bestSize |-> 0, old |-> old]
  BY DEF Starting, Idle
<1>3. CallType'
  BY <1>1, <1>2 DEF CallType, heap
<1>4. CallSound'
  BY <1>1, <1>2 DEF CallSound, InCall, AtMajor, InMinors, Requested
<1>5. \A M \in DOMAIN major : MinorsOf(M) # {}
  BY NoneEmpty
<1> QED BY <1>3, <1>4, <1>5, CallMoves DEF heap, IInv

\* The kernel halts, if it does so at a place where no major is empty.
LEMMA HaltSound ==
    ASSUME IInv, HeapExhausted, \A M \in DOMAIN major : MinorsOf(M) # {}
    PROVE  IInv'
<1>1. call' = [op |-> "halted", req |-> 0, size |-> 0, maj |-> NULL, min |-> NULL,
               startedBet |-> FALSE, bestSize |-> 0, old |-> NULL]
  BY DEF HeapExhausted, Idle
<1>2. CallType' /\ CallSound'
  BY <1>1 DEF CallType, CallSound, InCall, AtMajor, InMinors
<1> QED BY <1>2, CallMoves DEF HeapExhausted, heap, IInv

\* The search goes on at major M: it comes from another one or starts there.
LEMMA SearchSound ==
    ASSUME IInv, InCall, UNCHANGED <<major, minor, l_memRoot, l_allocated, l_inuse, heap_location>>,
           l_bestBet' \in DOMAIN major \cup {NULL},
           NEW M \in DOMAIN major, NEW bet \in BOOLEAN, NEW best \in Int,
           call' = [op |-> "search", req |-> call.req, size |-> call.size, maj |-> M,
                    min |-> call.min, startedBet |-> bet, bestSize |-> best, old |-> call.old],
           \A C \in DOMAIN major : MinorsOf(C) = {} => C = M
    PROVE  IInv'
<1>1. /\ call.req \in Nat /\ call.size \in Nat
      /\ call.min \in DOMAIN minor \cup {NULL} /\ call.old \in DOMAIN minor \cup {NULL}
      /\ Requested
  BY DEF IInv, CallType, CallSound
<1>2. CallType'
  BY <1>1 DEF CallType
<1>3. CallSound'
  BY <1>1 DEF CallSound, InCall, AtMajor, InMinors, Requested
<1>4. ASSUME NEW C \in DOMAIN major, MinorsOf(C) = {} PROVE Awaited(C)'
  <2>1. Awaited(C) /\ C = M
    BY <1>4 DEF IInv, EmptyAwaited
  <2> QED BY <2>1 DEF Awaited
<1> QED BY <1>2, <1>3, <1>4, CallMoves

\* The search is among the minors of its major, or past the last.
LEMMA MinorsSound ==
    ASSUME IInv, AtMajor, UNCHANGED <<major, minor, l_memRoot, l_allocated, l_inuse, heap_location>>,
           l_bestBet' \in DOMAIN major \cup {NULL},
           NEW m \in DOMAIN minor \cup {NULL}, m # NULL => minor[m].block = call.maj,
           NEW best \in Int,
           call' = [op |-> "minors", req |-> call.req, size |-> call.size, maj |-> call.maj,
                    min |-> m, startedBet |-> call.startedBet, bestSize |-> best,
                    old |-> call.old],
           \A C \in DOMAIN major : MinorsOf(C) # {}
    PROVE  IInv'
<1>1. /\ call.req \in Nat /\ call.size \in Nat /\ call.maj \in DOMAIN major
      /\ call.old \in DOMAIN minor \cup {NULL} /\ call.startedBet \in BOOLEAN
      /\ Requested
  BY DEF IInv, CallType, CallSound, InCall, AtMajor
<1>2. CallType'
  BY <1>1 DEF CallType
<1>3. CallSound'
  BY <1>1 DEF CallSound, InCall, AtMajor, InMinors, Requested
<1> QED BY <1>2, <1>3, CallMoves

\* A call in progress, and what a comparison with the best bet leaves.
LEMMA InProgress ==
    ASSUME IInv, AtMajor
    PROVE  /\ call.maj \in DOMAIN major /\ Free(call.maj) \in Int /\ InCall
           /\ call.req \in Nat /\ call.size \in Nat /\ call.bestSize \in Int
           /\ call.startedBet \in BOOLEAN
           /\ call = [op |-> call.op, req |-> call.req, size |-> call.size, maj |-> call.maj,
                      min |-> call.min, startedBet |-> call.startedBet,
                      bestSize |-> call.bestSize, old |-> call.old]
           /\ RememberBet => l_bestBet' \in DOMAIN major \cup {NULL}
           /\ (IF BetterBet THEN Free(call.maj) ELSE call.bestSize) \in Int
<1>1. call.maj \in DOMAIN major
  BY DEF IInv, CallSound
<1>2. Free(call.maj) \in Int
  BY <1>1, PointersLead
<1>3. RememberBet => l_bestBet' \in DOMAIN major \cup {NULL}
  BY <1>1 DEF RememberBet, IInv
<1> QED BY <1>1, <1>2, <1>3 DEF IInv, CallType, AtMajor, InCall

\* The steps of the search that go to a major.
LEMMA SearchSteps ==
    ASSUME IInv, \/ StartSearch \/ Case1Hop \/ Case1Restart \/ Case5Hop \/ Case5Restart
    PROVE  IInv'
<1>1. CASE StartSearch
  <2> DEFINE best == IF l_bestBet = NULL THEN 0 ELSE Free(l_bestBet)
             bet == l_bestBet # NULL /\ best > Room
             M == IF bet THEN l_bestBet ELSE l_memRoot
  <2>1. call.op = "start" /\ UNCHANGED <<heap, heap_location>> /\ l_memRoot # NULL
    BY <1>1 DEF StartSearch
  <2>2. M \in DOMAIN major /\ bet \in BOOLEAN /\ best \in Int
    BY <2>1, PointersLead DEF IInv
  <2>3. call' = [op |-> "search", req |-> call.req, size |-> call.size, maj |-> M,
                 min |-> call.min, startedBet |-> bet, bestSize |-> best, old |-> call.old]
    BY <1>1 DEF StartSearch, IInv, CallType
  <2>4. \A C \in DOMAIN major : MinorsOf(C) = {} => C = M
    BY <2>1 DEF IInv, EmptyAwaited, Awaited
  <2>5. InCall /\ l_bestBet' \in DOMAIN major \cup {NULL}
    BY <2>1 DEF InCall, IInv, heap
  <2>6. UNCHANGED <<major, minor, l_memRoot, l_allocated, l_inuse, heap_location>>
    BY <2>1 DEF heap
  <2> HIDE DEF best, bet, M
  <2> QED BY <2>2, <2>3, <2>4, <2>5, <2>6, SearchSound
<1>2. ASSUME AtMajor, NEW M \in DOMAIN major, NEW bet \in BOOLEAN, NEW best \in Int,
             UNCHANGED <<major, minor, l_memRoot, l_allocated, l_inuse, heap_location>>,
             l_bestBet' \in DOMAIN major \cup {NULL},
             call' = [op |-> "search", req |-> call.req, size |-> call.size, maj |-> M,
                      min |-> call.min, startedBet |-> bet, bestSize |-> best, old |-> call.old],
             \/ call.op = "minors" \/ (call.op = "search" /\ ~Sufficient)
      PROVE  IInv'
  BY <1>2, InProgress, NoneEmpty, SearchSound
<1>3. CASE Case1Hop
  <2> DEFINE M == major[call.maj].next
             best == IF BetterBet THEN Free(call.maj) ELSE call.bestSize
  <2>1. /\ AtMajor /\ call.op = "search" /\ ~Sufficient /\ M # NULL
        /\ ConsiderBet([call EXCEPT !.maj = M])
        /\ UNCHANGED <<major, minor, l_memRoot, l_allocated, l_inuse, heap_location>>
    BY <1>3 DEF Case1Hop, Searching, AtMajor
  <2>2. M \in DOMAIN major
    BY <2>1, InProgress, PointersLead
  <2>3. call' = [op |-> "search", req |-> call.req, size |-> call.size, maj |-> M,
                 min |-> call.min, startedBet |-> call.startedBet, bestSize |-> best,
                 old |-> call.old]
    <3>1. [call EXCEPT !.maj = M] =
            [op |-> "search", req |-> call.req, size |-> call.size, maj |-> M,
             min |-> call.min, startedBet |-> call.startedBet, bestSize |-> call.bestSize,
             old |-> call.old]
      BY <2>1 DEF IInv, CallType
    <3> QED BY <2>1, <3>1 DEF ConsiderBet
  <2>4. best \in Int /\ call.startedBet \in BOOLEAN /\ l_bestBet' \in DOMAIN major \cup {NULL}
    BY <2>1, InProgress DEF ConsiderBet
  <2> HIDE DEF M, best
  <2> QED BY <2>1, <2>2, <2>3, <2>4, <1>2
<1>4. CASE Case1Restart
  <2> DEFINE best == IF BetterBet THEN Free(call.maj) ELSE call.bestSize
  <2>1. /\ AtMajor /\ call.op = "search" /\ ~Sufficient
        /\ ConsiderBet(AtRoot)
        /\ UNCHANGED <<major, minor, l_memRoot, l_allocated, l_inuse, heap_location>>
    BY <1>4 DEF Case1Restart, Searching, AtMajor
  <2>2. l_memRoot \in DOMAIN major
    BY <2>1, InProgress, PointersLead
  <2>3. call' = [op |-> "search", req |-> call.req, size |-> call.size, maj |-> l_memRoot,
                 min |-> call.min, startedBet |-> FALSE, bestSize |-> best, old |-> call.old]
    <3>1. AtRoot = [op |-> "search", req |-> call.req, size |-> call.size, maj |-> l_memRoot,
                    min |-> call.min, startedBet |-> FALSE, bestSize |-> call.bestSize,
                    old |-> call.old]
      <4>1. call.op = "search"
        BY <2>1
      <4>2. SUFFICES ASSUME NEW r, r = AtRoot
            PROVE  r = [op |-> "search", req |-> call.req, size |-> call.size,
                        maj |-> l_memRoot, min |-> call.min, startedBet |-> FALSE,
                        bestSize |-> call.bestSize, old |-> call.old]
        OBVIOUS
      <4> QED BY <4>1, <4>2 DEF AtRoot, IInv, CallType
    <3> QED BY <2>1, <3>1 DEF ConsiderBet
  <2>4. best \in Int /\ l_bestBet' \in DOMAIN major \cup {NULL} /\ FALSE \in BOOLEAN
    BY <2>1, InProgress DEF ConsiderBet
  <2> HIDE DEF best
  <2> QED BY <2>1, <2>2, <2>3, <2>4, <1>2
<1>5. CASE Case5Hop
  <2> DEFINE M == major[call.maj].next
  <2>1. /\ AtMajor /\ call.op = "minors" /\ M # NULL
        /\ UNCHANGED <<heap, heap_location>>
    BY <1>5 DEF Case5Hop, BlockFull, AtMajor
  <2>2. M \in DOMAIN major
    BY <2>1, InProgress, PointersLead
  <2>3. call' = [op |-> "search", req |-> call.req, size |-> call.size, maj |-> M,
                 min |-> call.min, startedBet |-> call.startedBet,
                 bestSize |-> call.bestSize, old |-> call.old]
    BY <1>5 DEF Case5Hop, IInv, CallType
  <2>4. /\ call.bestSize \in Int /\ call.startedBet \in BOOLEAN
        /\ l_bestBet' \in DOMAIN major \cup {NULL}
    BY <2>1, InProgress DEF heap, IInv
  <2>5. UNCHANGED <<major, minor, l_memRoot, l_allocated, l_inuse, heap_location>>
    BY <2>1 DEF heap
  <2> HIDE DEF M
  <2> QED BY <2>1, <2>2, <2>3, <2>4, <2>5, <1>2
<1>6. CASE Case5Restart
  <2>1. AtMajor /\ call.op = "minors" /\ UNCHANGED <<heap, heap_location>>
    BY <1>6 DEF Case5Restart, BlockFull, AtMajor
  <2>2. l_memRoot \in DOMAIN major
    BY <2>1, InProgress, PointersLead
  <2>3. call' = [op |-> "search", req |-> call.req, size |-> call.size, maj |-> l_memRoot,
                 min |-> call.min, startedBet |-> FALSE,
                 bestSize |-> call.bestSize, old |-> call.old]
    BY <1>6 DEF Case5Restart, AtRoot, IInv, CallType
  <2>4. /\ call.bestSize \in Int /\ FALSE \in BOOLEAN
        /\ l_bestBet' \in DOMAIN major \cup {NULL}
    BY <2>1, InProgress DEF heap, IInv
  <2>5. UNCHANGED <<major, minor, l_memRoot, l_allocated, l_inuse, heap_location>>
    BY <2>1 DEF heap
  <2> QED BY <2>1, <2>2, <2>3, <2>4, <2>5, <1>2
<1> QED BY <1>1, <1>3, <1>4, <1>5, <1>6

\* The steps of the search among the minors of a major.
LEMMA MinorsSteps ==
    ASSUME IInv, EnterBlock \/ NextMinor
    PROVE  IInv'
<1>1. CASE EnterBlock
  <2> DEFINE m == major[call.maj].first
             best == IF BetterBet THEN Free(call.maj) ELSE call.bestSize
  <2>1. /\ AtMajor /\ call.op = "search" /\ Sufficient /\ m # NULL
        /\ ConsiderBet([call EXCEPT !.op = "minors", !.min = m])
        /\ UNCHANGED <<major, minor, l_memRoot, l_allocated, l_inuse, heap_location>>
    BY <1>1 DEF EnterBlock, Searching, AtMajor
  <2>2. m \in DOMAIN minor /\ minor[m].block = call.maj /\ call.maj \in DOMAIN major
    BY <2>1, InProgress, PointersLead
  <2>3. call' = [op |-> "minors", req |-> call.req, size |-> call.size, maj |-> call.maj,
                 min |-> m, startedBet |-> call.startedBet, bestSize |-> best,
                 old |-> call.old]
    <3>1. ASSUME NEW r, r = [call EXCEPT !.op = "minors", !.min = m]
          PROVE  r = [op |-> "minors", req |-> call.req, size |-> call.size,
                      maj |-> call.maj, min |-> m, startedBet |-> call.startedBet,
                      bestSize |-> call.bestSize, old |-> call.old]
      BY <3>1 DEF IInv, CallType
    <3>2. [call EXCEPT !.op = "minors", !.min = m]
            = [op |-> "minors", req |-> call.req, size |-> call.size,
               maj |-> call.maj, min |-> m, startedBet |-> call.startedBet,
               bestSize |-> call.bestSize, old |-> call.old]
      BY <3>1
    <3> QED BY <2>1, <3>2 DEF ConsiderBet
  <2>4. best \in Int /\ l_bestBet' \in DOMAIN major \cup {NULL}
    BY <2>1, InProgress DEF ConsiderBet
  <2>5. \A C \in DOMAIN major : MinorsOf(C) # {}
    <3>1. SUFFICES ASSUME NEW C \in DOMAIN major, MinorsOf(C) = {} PROVE FALSE
      OBVIOUS
    <3>2. C = call.maj
      BY <2>1, <3>1 DEF IInv, EmptyAwaited, Awaited
    <3>3. m \in MinorsOf(C)
      BY <2>2, <3>2 DEF MinorsOf
    <3> QED BY <3>1, <3>3
  <2> HIDE DEF m, best
  <2> QED BY <2>1, <2>2, <2>3, <2>4, <2>5, MinorsSound
<1>2. CASE NextMinor
  <2> DEFINE m == minor[call.min].next
  <2>1. /\ AtMajor /\ call.op = "minors" /\ call.min # NULL /\ InMinors
        /\ UNCHANGED <<heap, heap_location>>
    BY <1>2 DEF NextMinor, InMinors, AtMajor
  <2>2. /\ m \in DOMAIN minor \cup {NULL}
        /\ m # NULL => minor[m].block = call.maj
    <3>1. call.min \in DOMAIN minor /\ minor[call.min].block = call.maj
      BY <2>1 DEF IInv, CallType, CallSound
    <3> QED BY <3>1, PointersLead
  <2>3. call' = [op |-> "minors", req |-> call.req, size |-> call.size, maj |-> call.maj,
                 min |-> m, startedBet |-> call.startedBet, bestSize |-> call.bestSize,
                 old |-> call.old]
    BY <1>2, <2>1 DEF NextMinor, IInv, CallType
  <2>4. call.bestSize \in Int /\ l_bestBet' \in DOMAIN major \cup {NULL}
    BY <2>1, InProgress DEF heap, IInv
  <2>5. UNCHANGED <<major, minor, l_memRoot, l_allocated, l_inuse, heap_location>>
    BY <2>1 DEF heap
  <2> HIDE DEF m
  <2> QED BY <2>1, <2>2, <2>3, <2>4, <2>5, NoneEmpty, MinorsSound
<1> QED BY <1>1, <1>2

\* A new major for the call, at a place where no major is empty.
LEMMA GrowSound ==
    ASSUME IInv, InCall, NEW last \in DOMAIN major \cup {NULL},
           IF last = NULL THEN DOMAIN major = {} ELSE major[last].next = NULL,
           PagesLeft(PagesFor(call.size)),
           AppendMajor(last), UNCHANGED <<minor, l_inuse>>,
           l_memRoot' = IF last = NULL THEN heap_location * PageSize ELSE l_memRoot,
           l_bestBet' \in DOMAIN major \cup {NULL},
           NEW N, N = heap_location * PageSize,
           \A C \in DOMAIN major : MinorsOf(C) # {},
           call' \in [op : {"start", "search", "fresh"}, req : {call.req}, size : {call.size},
                      bestSize : Int, startedBet : BOOLEAN, maj : {N, NULL},
                      min : {call.min}, old : {call.old}],
           IF call'.op = "start" THEN last = NULL /\ l_bestBet' = NULL ELSE call'.maj = N
    PROVE  IInv'
<1>1. call.size \in Nat /\ Requested
  BY DEF IInv, CallType, CallSound
<1>2. /\ HeapSound'
      /\ DOMAIN major' = DOMAIN major \cup {N} /\ N \notin DOMAIN major
      /\ N # NULL /\ MinorsOf(N)' = {}
      /\ major'[N].usage = MajorSize /\ major'[N].first = NULL
      /\ major'[N].size >= call.size + MajorSize + MinorSize
      /\ \A C \in DOMAIN major : MinorsOf(C)' = MinorsOf(C)
  <2>1. UNCHANGED minor /\ HeapSound
    BY DEF IInv
  <2>2. ASSUME NEW C \in DOMAIN major PROVE MinorsOf(C)' = MinorsOf(C)
    BY <2>1 DEF MinorsOf
  <2> QED BY <1>1, <2>1, <2>2, AppendSound
<1>3. l_bestBet' \in DOMAIN major' \cup {NULL} /\ l_inuse' \in Int /\ l_allocated' \in Int
  BY <1>1, <1>2, PagesForEnough DEF IInv, AppendMajor, NewMajor
<1>4. CallType'
  BY <1>2 DEF IInv, CallType
<1>5. CallSound'
  BY <1>1, <1>2 DEF CallSound, InCall, AtMajor, InMinors, Requested
<1>6. EmptyAwaited'
  <2>1. SUFFICES ASSUME NEW M \in DOMAIN major', MinorsOf(M)' = {} PROVE Awaited(M)'
    BY DEF EmptyAwaited
  <2>2. M = N
    BY <1>2, <2>1
  <2> QED BY <1>2, <2>2 DEF Awaited
<1> QED BY <1>2, <1>3, <1>4, <1>5, <1>6 DEF IInv

\* The steps that ask for pages.
LEMMA GrowSteps ==
    ASSUME IInv, CreateRoot \/ Case1Grow \/ Case5Grow
    PROVE  IInv'
<1> DEFINE N == heap_location * PageSize
<1>1. CASE CreateRoot
  <2>1. call.op = "start" /\ l_memRoot = NULL /\ InCall
    BY <1>1 DEF CreateRoot, InCall
  <2>2. DOMAIN major = {} /\ l_bestBet = NULL
    BY <2>1, PointersLead
  <2>3. CASE HeapExhausted
    BY <2>2, <2>3, HaltSound
  <2>4. CASE ~HeapExhausted
    <3>1. /\ PagesLeft(PagesFor(call.size)) /\ AppendMajor(NULL) /\ l_memRoot' = N
          /\ UNCHANGED <<minor, l_bestBet, l_inuse, call>>
      BY <1>1, <2>4 DEF CreateRoot
    <3>2. call' \in [op : {"start", "search", "fresh"}, req : {call.req}, size : {call.size},
                     bestSize : Int, startedBet : BOOLEAN, maj : {N, NULL},
                     min : {call.min}, old : {call.old}]
      <4>1. call.maj = NULL
        BY <2>1, <2>2 DEF IInv, CallType
      <4> QED BY <2>1, <3>1, <4>1 DEF IInv, CallType
    <3> HIDE DEF N
    <3> QED BY <2>1, <2>2, <3>1, <3>2, GrowSound DEF N
  <2> QED BY <2>3, <2>4
<1>2. CASE Case1Grow
  <2>1. call.op = "search" /\ AtMajor /\ ~Sufficient /\ major[call.maj].next = NULL
    BY <1>2 DEF Case1Grow, Searching, AtMajor
  <2>2. \A C \in DOMAIN major : MinorsOf(C) # {}
    BY <2>1, NoneEmpty
  <2>3. CASE HeapExhausted
    BY <2>2, <2>3, HaltSound
  <2>4. CASE ~HeapExhausted
    <3>1. /\ PagesLeft(PagesFor(call.size)) /\ AppendMajor(call.maj)
          /\ ConsiderBet([call EXCEPT !.op = "fresh", !.maj = N])
          /\ UNCHANGED <<minor, l_memRoot, l_inuse>>
      BY <1>2, <2>4 DEF Case1Grow
    <3>2. call' \in [op : {"start", "search", "fresh"}, req : {call.req}, size : {call.size},
                     bestSize : Int, startedBet : BOOLEAN, maj : {N, NULL},
                     min : {call.min}, old : {call.old}] /\ call'.op = "fresh" /\ call'.maj = N
      <4>1. [call EXCEPT !.op = "fresh", !.maj = N] \in
              [op : {"fresh"}, req : {call.req}, size : {call.size},
               bestSize : Int, startedBet : BOOLEAN, maj : {N},
               min : {call.min}, old : {call.old}]
        BY DEF IInv, CallType
      <4> QED BY <2>1, <3>1, <4>1, InProgress DEF ConsiderBet
    <3>3. /\ InCall /\ call.maj \in DOMAIN major /\ call.maj # NULL
          /\ l_bestBet' \in DOMAIN major \cup {NULL}
      BY <2>1, <3>1, InProgress DEF ConsiderBet, IInv, HeapSound, MajorsTyped
    <3> HIDE DEF N
    <3> QED BY <2>1, <2>2, <3>1, <3>2, <3>3, GrowSound DEF N
  <2> QED BY <2>3, <2>4
<1>3. CASE Case5Grow
  <2>1. call.op = "minors" /\ AtMajor /\ major[call.maj].next = NULL
    BY <1>3 DEF Case5Grow, BlockFull, AtMajor
  <2>2. \A C \in DOMAIN major : MinorsOf(C) # {}
    BY <2>1, NoneEmpty
  <2>3. CASE HeapExhausted
    BY <2>2, <2>3, HaltSound
  <2>4. CASE ~HeapExhausted
    <3>1. /\ PagesLeft(PagesFor(call.size)) /\ AppendMajor(call.maj)
          /\ call' = [call EXCEPT !.op = "search", !.maj = N]
          /\ UNCHANGED <<minor, l_memRoot, l_bestBet, l_inuse>>
      BY <1>3, <2>4 DEF Case5Grow
    <3>2. call' \in [op : {"start", "search", "fresh"}, req : {call.req}, size : {call.size},
                     bestSize : Int, startedBet : BOOLEAN, maj : {N, NULL},
                     min : {call.min}, old : {call.old}] /\ call'.op = "search" /\ call'.maj = N
      BY <3>1 DEF IInv, CallType
    <3>3. /\ InCall /\ call.maj \in DOMAIN major /\ call.maj # NULL
          /\ l_bestBet' \in DOMAIN major \cup {NULL}
      BY <2>1, <3>1, InProgress DEF IInv, HeapSound, MajorsTyped
    <3> HIDE DEF N
    <3> QED BY <2>1, <2>2, <3>1, <3>2, <3>3, GrowSound DEF N
  <2> QED BY <2>3, <2>4
<1> QED BY <1>1, <1>2, <1>3

\* A minor placed where it fits ends malloc in a sound state.
LEMMA PlaceKeeps ==
    ASSUME IInv, AtMajor, NEW m \in Nat, NEW p \in Nat, NEW n \in Nat,
           Fits(m, p, n, call.maj), Place(m, p, n),
           l_bestBet' \in DOMAIN major \cup {NULL}
    PROVE  IInv' /\ Steady /\ ExtentsKept
<1>1. PICK B \in DOMAIN major : B = call.maj
  BY InProgress
<1>2. /\ HeapSound'
      /\ DOMAIN minor' = DOMAIN minor \cup {m} /\ m # NULL
      /\ DOMAIN major' = DOMAIN major
      /\ MinorsOf(B)' # {}
      /\ \A C \in DOMAIN major : MinorsOf(C)' = {} => MinorsOf(C) = {}
      /\ \A C \in DOMAIN major : /\ major'[C].size = major[C].size
                                 /\ major'[C].pages = major[C].pages
      /\ \A x \in DOMAIN minor : minor'[x].block = minor[x].block
  <2>1. HeapSound /\ Requested /\ Fits(m, p, n, B)
    BY <1>1 DEF IInv, CallSound, InCall, AtMajor
  <2> QED BY <1>1, <2>1, PlaceSound
<1>3. l_inuse' \in Int /\ l_allocated' \in Int
  BY InProgress DEF Place, IInv
<1>4. call.old \in DOMAIN minor \cup {NULL}
  BY DEF IInv, CallType
<1>5. call' = IF call.old = NULL THEN Idle
              ELSE [op |-> "copy", req |-> 0, size |-> 0, maj |-> NULL, min |-> m,
                    startedBet |-> FALSE, bestSize |-> 0, old |-> call.old]
  <2>1. call' = Returned(m)
    BY DEF Place
  <2>2. CASE call.old = NULL
    BY <2>1, <2>2 DEF Returned
  <2>3. CASE call.old # NULL
    <3>1. call' = [Idle EXCEPT !.op = "copy", !.old = call.old, !.min = m]
      BY <2>1, <2>3 DEF Returned
    <3>2. call' = [op |-> "copy", req |-> 0, size |-> 0, maj |-> NULL, min |-> m,
                   startedBet |-> FALSE, bestSize |-> 0, old |-> call.old]
      BY <3>1 DEF Idle
    <3> QED BY <2>3, <3>2
  <2> QED BY <2>2, <2>3
<1>6. CallType'
  BY <1>2, <1>4, <1>5 DEF CallType, Idle
<1>7. CallSound'
  <2>1. call'.op \in {"idle", "copy"} /\ (call'.op = "idle" => call' = Idle)
    BY <1>5 DEF Idle
  <2>2. call'.op = "copy" => call'.old \in DOMAIN minor'
    BY <1>2, <1>4, <1>5 DEF Idle
  <2> QED BY <2>1, <2>2 DEF CallSound, InCall, AtMajor, InMinors, Idle
<1>8. EmptyAwaited'
  <2>1. SUFFICES ASSUME NEW C \in DOMAIN major', MinorsOf(C)' = {} PROVE FALSE
    BY DEF EmptyAwaited
  <2>2. C \in DOMAIN major /\ MinorsOf(C) = {}
    BY <1>2, <2>1
  <2>3. C = call.maj
    BY <2>2 DEF IInv, EmptyAwaited, Awaited, AtMajor
  <2> QED BY <1>1, <1>2, <2>1, <2>3
<1>9. Steady /\ ExtentsKept
  BY <1>2, <1>5 DEF Steady, ExtentsKept, Place, Idle
<1> QED BY <1>2, <1>3, <1>6, <1>7, <1>8, <1>9 DEF IInv, Place

\* Every case of malloc puts its minor where it fits.
LEMMA PlacesFit ==
    ASSUME IInv, \/ Case2 \/ Case3 \/ Case4End \/ Case4Between
    PROVE  /\ AtMajor /\ l_bestBet' \in DOMAIN major \cup {NULL}
           /\ \E m, p, n \in Nat : Fits(m, p, n, call.maj) /\ Place(m, p, n)
<1> USE DEF NULL
<1> DEFINE B == call.maj
           S == MinorsOf(B)
<1>1. AtMajor
  BY DEF Case2, Case3, Case4End, Case4Between, Searching, InMinors, AtMajor
<1>2. /\ B \in Nat \ {0} /\ B \in DOMAIN major /\ major[B].size \in Nat
      /\ call.size \in Nat /\ MinorSize \in Nat \ {0} /\ MajorSize \in Nat \ {0}
      /\ Room \in Nat \ {0}
      /\ l_bestBet \in DOMAIN major \cup {0}
      /\ RememberBet => l_bestBet' \in DOMAIN major \cup {0}
  <2>1. /\ B \in DOMAIN major /\ call.size \in Nat
        /\ RememberBet => l_bestBet' \in DOMAIN major \cup {0}
    BY <1>1, InProgress
  <2>2. B \in Nat \ {0} /\ major[B].size \in Nat /\ l_bestBet \in DOMAIN major \cup {0}
    BY <2>1, PointersLead DEF IInv, HeapSound, MajorsTyped
  <2>3. MinorSize \in Nat \ {0} /\ MajorSize \in Nat \ {0} /\ Room \in Nat \ {0}
    BY <2>1, Constants DEF Room
  <2> QED BY <2>1, <2>2, <2>3
<1>3. \A x \in S : /\ x \in DOMAIN minor /\ x \in Nat \ {0} /\ minor[x].block = B
                   /\ minor[x].size \in Nat
                   /\ B + MajorSize <= x /\ EndOfMinor(x) <= EndOfMajor(B)
                   /\ EndOfMinor(x) \in Nat /\ x < EndOfMinor(x)
  <2> SUFFICES ASSUME NEW x \in S
               PROVE  /\ x \in DOMAIN minor /\ x \in Nat \ {0} /\ minor[x].block = B
                      /\ minor[x].size \in Nat
                      /\ B + MajorSize <= x /\ EndOfMinor(x) <= EndOfMajor(B)
                      /\ EndOfMinor(x) \in Nat /\ x < EndOfMinor(x)
    OBVIOUS
  <2>1. x \in DOMAIN minor /\ minor[x].block = B
    BY DEF MinorsOf
  <2>2. x \in Nat \ {0} /\ minor[x].size \in Nat
    BY <2>1 DEF IInv, HeapSound, MinorsTyped
  <2>3. B + MajorSize <= x /\ EndOfMinor(x) <= EndOfMajor(B)
    BY <2>1 DEF IInv, HeapSound, AllocationsDisjoint
  <2> QED BY <1>2, <2>1, <2>2, <2>3 DEF EndOfMinor
<1>4. CASE Case2
  <2>1. /\ major[B].first = 0 /\ Place(B + MajorSize, 0, 0)
        /\ l_bestBet' \in DOMAIN major \cup {0}
    BY <1>2, <1>4 DEF Case2
  <2>2. S = {}
    BY <1>2, <2>1, PointersLead
  <2>3. major[B].size >= call.size + MajorSize + MinorSize
    BY <1>2, <2>2 DEF IInv, EmptyAwaited, Awaited
  <2>4. B + MajorSize \in Nat \ {0} /\ B + MajorSize + Room <= EndOfMajor(B)
    BY <1>2, <2>3 DEF EndOfMajor, Room
  <2>5. Fits(B + MajorSize, 0, 0, B)
    BY <1>2, <2>2, <2>4 DEF Fits, Between
  <2> QED BY <1>1, <2>1, <2>4, <2>5
<1>5. CASE Case3
  <2> DEFINE f == major[B].first
             m == B + MajorSize
  <2>1. /\ f # 0 /\ Place(m, 0, f) /\ f - B - MajorSize >= Room
        /\ l_bestBet' \in DOMAIN major \cup {0}
    BY <1>2, <1>5 DEF Case3, FrontFits, FrontGap
  <2>2. f \in S /\ \A y \in S : f <= y
    BY <1>2, <2>1 DEF IInv, HeapSound, ListsSound, MinorListsSound, IsFirst
  <2>3. f \in Nat /\ f < EndOfMinor(f) /\ EndOfMinor(f) <= EndOfMajor(B) /\ EndOfMinor(f) \in Nat
    BY <1>3, <2>2
  <2>4. m \in Nat \ {0} /\ m + Room <= f /\ m < f /\ EndOfMajor(B) \in Nat
    BY <1>2, <2>1, <2>3 DEF EndOfMajor
  <2>5. m \notin S /\ B + MajorSize <= m /\ m + Room <= EndOfMajor(B)
    BY <1>2, <2>2, <2>3, <2>4
  <2>6. Fits(m, 0, f, B)
    BY <2>2, <2>4, <2>5 DEF Fits, Between
  <2> HIDE DEF m, f
  <2> QED BY <1>1, <2>1, <2>3, <2>4, <2>6 DEF m, f
<1>6. ASSUME InMinors, GapAfter(call.min) >= Room, UNCHANGED l_bestBet, NEW n,
             n = minor[call.min].next, Place(EndOfMinor(call.min), call.min, n)
      PROVE  \E mm, pp, nn \in Nat : Fits(mm, pp, nn, call.maj) /\ Place(mm, pp, nn)
  <2> DEFINE c == call.min
             m == EndOfMinor(c)
  <2>1. c \in S /\ c # 0
    BY <1>6 DEF IInv, CallType, CallSound, InMinors, MinorsOf
  <2>2. /\ c \in DOMAIN minor /\ c \in Nat /\ minor[c].block = B /\ B + MajorSize <= c
        /\ m \in Nat /\ c < m /\ m <= EndOfMajor(B)
    BY <1>3, <2>1
  <2>3. IsNext(n, c, S)
    BY <1>6, <2>2 DEF IInv, HeapSound, ListsSound, MinorListsSound
  <2>4. EndOfMajor(B) \in Nat /\ m # 0 /\ n \in Nat
    BY <1>2, <1>6, <2>2 DEF EndOfMajor, IInv, HeapSound, MinorsTyped
  <2>5. m \notin S
    <3>1. ASSUME m \in S PROVE FALSE
      <4>1. n # 0 /\ n \in S /\ n <= m
        BY <2>2, <2>3, <3>1 DEF IsNext
      <4>2. n - m >= Room
        BY <1>6, <2>2, <4>1 DEF GapAfter
      <4> QED BY <1>2, <2>2, <2>4, <4>1, <4>2
    <3> QED BY <3>1
  <2>6. m + Room <= EndOfMajor(B) /\ (n # 0 => n \in S /\ m + Room <= n /\ m < n)
    <3>1. CASE n = 0
      <4>1. EndOfMajor(B) - m >= Room
        BY <1>6, <2>2, <3>1 DEF GapAfter
      <4> QED BY <1>2, <2>2, <2>4, <3>1, <4>1
    <3>2. CASE n # 0
      <4>1. n - m >= Room /\ n \in S
        BY <1>6, <2>2, <2>3, <3>2 DEF GapAfter, IsNext
      <4>2. n < EndOfMinor(n) /\ EndOfMinor(n) <= EndOfMajor(B) /\ EndOfMinor(n) \in Nat
        BY <1>3, <4>1
      <4> QED BY <1>2, <2>2, <2>4, <4>1, <4>2
    <3> QED BY <3>1, <3>2
  <2>7. Between(m, c, n, S)
    <3>1. \A y \in S : y <= c \/ (n # 0 /\ n <= y)
      BY <1>3, <2>2, <2>3 DEF IsNext
    <3> QED BY <2>1, <2>2, <2>4, <2>5, <2>6, <3>1 DEF Between
  <2>8. B + MajorSize <= m
    BY <1>2, <2>2
  <2>9. Fits(m, c, n, B)
    BY <2>6, <2>7, <2>8, <2>2 DEF Fits
  <2>10. l_bestBet' \in DOMAIN major \cup {0} /\ Place(m, c, n)
    BY <1>2, <1>6
  <2> HIDE DEF m, c, B
  <2> QED BY <2>2, <2>4, <2>9, <2>10 DEF B
<1>7. CASE Case4End
  BY <1>1, <1>2, <1>6, <1>7 DEF Case4End
<1>8. CASE Case4Between
  BY <1>1, <1>2, <1>6, <1>8 DEF Case4Between
<1> QED BY <1>4, <1>5, <1>7, <1>8

\* Whichever case places the new minor, malloc ends in a sound state.
LEMMA PlaceSteps ==
    ASSUME IInv, \/ Case2 \/ Case3 \/ Case4End \/ Case4Between
    PROVE  IInv' /\ Steady /\ ExtentsKept
BY PlacesFit, PlaceKeeps

\* kfree, and krealloc when it gives the old allocation back.
LEMMA FreeSteps ==
    ASSUME IInv, (\E m \in DOMAIN minor : Kfree(m)) \/ ReallocRelease
    PROVE  IInv' /\ (Shrunk \/ Steady) /\ ExtentsKept
<1>1. PICK m \in DOMAIN minor : /\ FreeMinor(m) /\ call.op \in {"idle", "copy"}
                                /\ call' = Idle
  BY DEF Kfree, ReallocRelease, IInv, CallSound
<1>2. PICK B : B = minor[m].block
  OBVIOUS
<1>3. /\ HeapSound'
      /\ \A C \in DOMAIN major' : MinorsOf(C)' = {} => MinorsOf(C) = {}
      /\ l_bestBet' \in DOMAIN major' \cup {NULL}
      /\ DOMAIN major' \subseteq DOMAIN major
  BY <1>1, <1>2, FreeSound DEF IInv, Kept
<1>4. EmptyAwaited'
  BY <1>1, <1>3, NoneEmpty DEF EmptyAwaited
<1>5. CallType' /\ CallSound'
  BY <1>1 DEF CallType, CallSound, Idle, InCall, AtMajor, InMinors
<1>6. l_inuse' \in Int /\ l_allocated' \in Int
  <2>1. B \in DOMAIN major /\ minor[m].size \in Nat /\ major[B].size \in Nat
    BY <1>2 DEF IInv, HeapSound, MinorsTyped, MajorsTyped
  <2> QED BY <1>1, <1>2, <2>1 DEF FreeMinor, ReleaseMajor, ShrinkMajor, IInv
<1>7. (Shrunk \/ Steady) /\ ExtentsKept
  <2>1. B \in DOMAIN major /\ Kept(B, m) /\ UNCHANGED heap_location /\ call'.op = "idle"
    BY <1>1, <1>2, FreeSound DEF IInv, HeapSound, MinorsTyped, FreeMinor, Idle
  <2>2. \A x \in DOMAIN minor' : minor'[x].block = minor[x].block
    BY <1>1, UnlinkedMinors DEF FreeMinor, IInv
  <2> QED BY <2>1, <2>2 DEF Shrunk, Steady, ExtentsKept, Kept
<1> QED BY <1>3, <1>4, <1>5, <1>6, <1>7 DEF IInv

\* krealloc in place: only what was asked for changes, and it does not grow.
LEMMA InPlaceSound ==
    ASSUME IInv, NEW m \in DOMAIN minor, NEW size \in ReqSizes, ReallocInPlace(m, size)
    PROVE  IInv' /\ Steady /\ ExtentsKept
<1>1. /\ size \in Nat /\ minor[m].req_size >= size
      /\ minor' = [minor EXCEPT ![m].req_size = size]
      /\ UNCHANGED <<major, l_memRoot, l_bestBet, l_allocated, l_inuse, heap_location, call>>
      /\ call.op = "idle"
  BY SizesAssumption DEF ReallocInPlace
<1>2. /\ DOMAIN minor' = DOMAIN minor
      /\ minor' = [x \in DOMAIN minor |-> minor'[x]]
      /\ \A x \in DOMAIN minor :
            /\ minor'[x] \in [prev : Nat, next : Nat, block : DOMAIN major,
                              size : Nat, req_size : Nat]
            /\ minor'[x].block = minor[x].block /\ minor'[x].size = minor[x].size
            /\ minor'[x].next = minor[x].next /\ minor'[x].prev = minor[x].prev
            /\ minor'[x].req_size <= minor[x].req_size
  <2>1. /\ minor = [x \in DOMAIN minor |-> minor[x]]
        /\ \A x \in DOMAIN minor : minor[x] \in [prev : Nat, next : Nat, block : DOMAIN major,
                                                 size : Nat, req_size : Nat]
    BY DEF IInv, HeapSound, MinorsTyped
  <2>2. \A x \in DOMAIN minor : x # m => minor'[x] = minor[x]
    BY <1>1, <2>1
  <2>3. minor'[m] = [minor[m] EXCEPT !.req_size = size]
    BY <1>1, <2>1
  <2>4. minor'[m] = [prev |-> minor[m].prev, next |-> minor[m].next, block |-> minor[m].block,
                     size |-> minor[m].size, req_size |-> size]
    BY <2>1, <2>3
  <2>5. DOMAIN minor' = DOMAIN minor /\ minor' = [x \in DOMAIN minor |-> minor'[x]]
    BY <1>1, <2>1
  <2> QED BY <1>1, <2>1, <2>2, <2>4, <2>5
<1>3. \A C : MinorsOf(C)' = MinorsOf(C)
  BY <1>1, <1>2 DEF MinorsOf
<1>4. /\ \A x \in DOMAIN minor : EndOfMinor(x)' = EndOfMinor(x)
      /\ \A C : EndOfMajor(C)' = EndOfMajor(C)
  BY <1>1, <1>2 DEF EndOfMinor, EndOfMajor
<1>5. MajorsTyped' /\ MajorListSound'
  BY <1>1 DEF IInv, HeapSound, MajorsTyped, ListsSound, MajorListSound
<1>6. MinorsTyped'
  BY <1>1, <1>2 DEF IInv, HeapSound, MinorsTyped
<1>7. Roomy'
  BY <1>1, <1>2, Constants DEF IInv, HeapSound, MinorsTyped, Roomy
<1>8. MinorListsSound'
  <2>1. \A M \in DOMAIN major : IsFirst(major[M].first, MinorsOf(M)')
    BY <1>3 DEF IInv, HeapSound, ListsSound, MinorListsSound
  <2>2. \A x \in DOMAIN minor :
            /\ IsNext(minor[x].next, x, MinorsOf(minor[x].block))
            /\ IsPrev(minor[x].prev, x, MinorsOf(minor[x].block))
    BY DEF IInv, HeapSound, ListsSound, MinorListsSound
  <2>3. ASSUME NEW x \in DOMAIN minor
        PROVE  MinorsOf(minor[x].block)' = MinorsOf(minor[x].block)
    BY <1>2 DEF MinorsOf
  <2> QED BY <1>1, <1>2, <2>1, <2>2, <2>3 DEF MinorListsSound
<1>9. AllocationsDisjoint'
  <2>1. ASSUME NEW x \in DOMAIN minor
        PROVE  /\ minor'[x].block + MajorSize <= x
               /\ EndOfMinor(x)' <= EndOfMajor(minor[x].block)'
    BY <1>1, <1>2, <1>4 DEF IInv, HeapSound, AllocationsDisjoint, EndOfMajor
  <2> QED BY <1>1, <1>2, <1>4, <2>1 DEF IInv, HeapSound, AllocationsDisjoint
<1>10. EmptyAwaited'
  BY <1>1, <1>3, NoneEmpty DEF EmptyAwaited
<1>11. CallType' /\ CallSound'
  BY <1>1 DEF IInv, CallType, CallSound, Idle, InCall, AtMajor, InMinors
<1>12. Steady /\ ExtentsKept
  BY <1>1, <1>2 DEF Steady, ExtentsKept
<1> QED BY <1>1, <1>12, <1>5, <1>6, <1>7, <1>8, <1>9, <1>10, <1>11 DEF IInv, HeapSound, ListsSound

\* An empty heap with no call in progress is sound.
LEMMA IInvInit == Init => IInv
<1> SUFFICES ASSUME Init PROVE IInv
  OBVIOUS
<1>1. DOMAIN major = {} /\ DOMAIN minor = {} /\ major = [M \in {} |-> 0] /\ minor = [M \in {} |-> 0]
  BY DEF Init
<1>2. MajorsTyped /\ MinorsTyped /\ Roomy
  BY <1>1 DEF MajorsTyped, MinorsTyped, Roomy
<1>3. ListsSound
  BY <1>1 DEF Init, ListsSound, MajorListSound, MinorListsSound, IsFirst
<1>4. AllocationsDisjoint
  BY <1>1 DEF AllocationsDisjoint
<1>5. heap_location \in HeapStart..HeapEnd /\ l_memRoot \in Nat
  BY Constants DEF Init, NULL
<1>6. CallType /\ CallSound
  BY DEF Init, CallType, CallSound, Idle, NULL, InCall, AtMajor, InMinors
<1> QED BY <1>1, <1>2, <1>3, <1>4, <1>5, <1>6 DEF IInv, HeapSound, EmptyAwaited, Init

\* Every step keeps the invariant.
LEMMA IInvStep == IInv /\ [Next]_vars => IInv'
<1> SUFFICES ASSUME IInv, [Next]_vars PROVE IInv'
  OBVIOUS
<1>1. ASSUME NEW req \in ReqSizes, Malloc(req) PROVE IInv'
  BY <1>1, StartSound DEF Malloc
<1>2. CASE CreateRoot \/ Case1Grow \/ Case5Grow
  BY <1>2, GrowSteps
<1>3. CASE StartSearch \/ Case1Hop \/ Case1Restart \/ Case5Hop \/ Case5Restart
  BY <1>3, SearchSteps
<1>4. CASE Case2 \/ Case3 \/ Case4End \/ Case4Between
  BY <1>4, PlaceSteps
<1>5. CASE EnterBlock \/ NextMinor
  BY <1>5, MinorsSteps
<1>6. CASE (\E m \in DOMAIN minor : Kfree(m)) \/ ReallocRelease
  BY <1>6, FreeSteps
<1>7. ASSUME NEW m \in DOMAIN minor, NEW size \in ReqSizes, ReallocInPlace(m, size)
      PROVE  IInv'
  BY <1>7, InPlaceSound
<1>8. ASSUME NEW m \in DOMAIN minor, NEW size \in ReqSizes, ReallocGrow(m, size)
      PROVE  IInv'
  BY <1>8, StartSound DEF ReallocGrow
<1>9. CASE UNCHANGED vars
  <2>1. CallType' /\ CallSound'
    BY <1>9 DEF vars, IInv, CallType, CallSound, InCall, AtMajor, InMinors, Requested
  <2>2. \A M \in DOMAIN major : MinorsOf(M) = {} => Awaited(M)'
    BY <1>9 DEF vars, IInv, EmptyAwaited, Awaited
  <2> QED BY <1>9, <2>1, <2>2, CallMoves DEF vars, IInv
<1> QED
  BY <1>1, <1>2, <1>3, <1>4, <1>5, <1>6, <1>7, <1>8, <1>9 DEF Next, MallocStep, Halted

\* Every step makes one major of the next run, gives one up, or keeps them all.
LEMMA StepShape == IInv /\ [Next]_vars => (Grown \/ Shrunk \/ Steady) /\ ExtentsKept
<1> SUFFICES ASSUME IInv, [Next]_vars PROVE (Grown \/ Shrunk \/ Steady) /\ ExtentsKept
  OBVIOUS
<1>1. ASSUME UNCHANGED <<major, minor, heap_location>>,
             (call.op # "halted" /\ call'.op = "halted") => InCall
      PROVE  Steady /\ ExtentsKept
  BY <1>1 DEF Steady, ExtentsKept
<1>2. call \in [op : {"idle", "start", "search", "fresh", "minors", "copy", "halted"},
                req : Nat, size : Nat, bestSize : Int, startedBet : BOOLEAN,
                maj : DOMAIN major \cup {NULL},
                min : DOMAIN minor \cup {NULL}, old : DOMAIN minor \cup {NULL}]
  BY DEF IInv, CallType
<1>3. ASSUME NEW req, NEW old, call' = Starting(req, old), UNCHANGED <<heap, heap_location>>
      PROVE  Steady /\ ExtentsKept
  BY <1>1, <1>3 DEF Starting, Idle, heap
<1>4. CASE StartSearch \/ Case5Hop \/ Case5Restart \/ NextMinor
  <2>1. call'.op # "halted" /\ UNCHANGED <<heap, heap_location>>
    BY <1>2, <1>4 DEF StartSearch, Case5Hop, Case5Restart, AtRoot, NextMinor, InMinors
  <2> QED BY <1>1, <2>1 DEF heap
<1>5. CASE Case1Hop \/ Case1Restart \/ EnterBlock
  <2>1. call'.op = "search" \/ call'.op = "minors"
    BY <1>2, <1>5 DEF Case1Hop, Case1Restart, EnterBlock, ConsiderBet, AtRoot, Searching
  <2> QED BY <1>1, <1>5, <2>1 DEF Case1Hop, Case1Restart, EnterBlock
<1>6. CASE HeapExhausted /\ (CreateRoot \/ Case1Grow \/ Case5Grow)
  <2>1. InCall
    BY <1>6 DEF CreateRoot, Case1Grow, Case5Grow, Searching, BlockFull, InCall
  <2> QED BY <1>1, <1>6, <2>1 DEF HeapExhausted, heap
<1>7. CASE ~HeapExhausted /\ (CreateRoot \/ Case1Grow \/ Case5Grow)
  <2>1. PICK last \in DOMAIN major \cup {NULL} :
            /\ AppendMajor(last) /\ PagesLeft(PagesFor(call.size)) /\ UNCHANGED minor
            /\ IF last = NULL THEN DOMAIN major = {} ELSE major[last].next = NULL
            /\ l_memRoot' = IF last = NULL THEN heap_location * PageSize ELSE l_memRoot
            /\ InCall /\ call'.op # "halted"
    <3>1. CASE CreateRoot
      <4>1. l_memRoot = NULL /\ DOMAIN major = {}
        BY <3>1, PointersLead DEF CreateRoot
      <4> QED BY <1>7, <3>1, <4>1 DEF CreateRoot, InCall
    <3>2. CASE Case1Grow
      <4>1. AtMajor /\ call.op = "search"
        BY <3>2 DEF Case1Grow, Searching, AtMajor
      <4>2. call.maj \in DOMAIN major /\ call.maj # NULL
        BY <4>1, InProgress DEF IInv, HeapSound, MajorsTyped
      <4>3. call'.op # "halted"
        <5>1. ConsiderBet([call EXCEPT !.op = "fresh", !.maj = heap_location * PageSize])
          BY <1>7, <3>2 DEF Case1Grow
        <5>2. call'.op = "fresh"
          BY <1>2, <5>1 DEF ConsiderBet
        <5> QED BY <5>2
      <4> QED BY <1>7, <3>2, <4>1, <4>2, <4>3 DEF Case1Grow, InCall
    <3>3. CASE Case5Grow
      <4>1. AtMajor /\ call.op = "minors"
        BY <3>3 DEF Case5Grow, BlockFull, AtMajor
      <4>2. call.maj \in DOMAIN major /\ call.maj # NULL
        BY <4>1, InProgress DEF IInv, HeapSound, MajorsTyped
      <4>3. call'.op # "halted"
        BY <1>2, <1>7, <3>3 DEF Case5Grow
      <4> QED BY <1>7, <3>3, <4>1, <4>2, <4>3 DEF Case5Grow, InCall
    <3> QED BY <1>7, <3>1, <3>2, <3>3
  <2>2. PICK N : N = heap_location * PageSize
    OBVIOUS
  <2>3. HeapSound /\ call.size \in Nat
    BY <1>2 DEF IInv
  <2>4. /\ DOMAIN major' = DOMAIN major \cup {N} /\ N \notin DOMAIN major
        /\ major'[N].size = major'[N].pages * PageSize
        /\ major'[N].pages = PagesFor(call.size)
        /\ heap_location' = heap_location + PagesFor(call.size)
        /\ \A C \in DOMAIN major : /\ major'[C].size = major[C].size
                                   /\ major'[C].pages = major[C].pages
    BY <2>1, <2>2, <2>3, AppendSound
  <2> QED BY <2>1, <2>2, <2>4 DEF Grown, ExtentsKept
<1>8. CASE Case2 \/ Case3 \/ Case4End \/ Case4Between
  BY <1>8, PlaceSteps
<1>9. CASE (\E m \in DOMAIN minor : Kfree(m)) \/ ReallocRelease
  BY <1>9, FreeSteps
<1>10. ASSUME NEW m \in DOMAIN minor, NEW size \in ReqSizes, ReallocInPlace(m, size)
       PROVE  Steady /\ ExtentsKept
  BY <1>10, InPlaceSound
<1>11. CASE UNCHANGED vars
  BY <1>1, <1>11 DEF vars
<1> QED
  BY <1>3, <1>4, <1>5, <1>6, <1>7, <1>8, <1>9, <1>10, <1>11
  DEF Next, MallocStep, Malloc, ReallocGrow, Halted

\* The memory is sound before, during and after every call: kmalloc, kfree and krealloc
\* each leave it so at every iteration of their loops.
THEOREM HeapInvariant == Spec => []IInv
<1> QED BY IInvInit, IInvStep, PTL DEF Spec

----------------------------------------------------------------------------
(* The properties of the runs.                                             *)

\* Type correctness of the allocator for every size of page, header, heap and
\* request: in particular every pointer that malloc, kfree and krealloc follow
\* leads to a header that is there.
THEOREM TypeCorrect == Spec => []TypeOK
<1>1. IInv => TypeOK
  <2> SUFFICES ASSUME IInv PROVE TypeOK
    OBVIOUS
  <2>1. /\ major = [M \in DOMAIN major |-> major[M]]
        /\ \A M \in DOMAIN major : major[M] \in
              [prev : Nat, next : Nat, pages : Nat, size : Nat, usage : Int, first : Nat]
    BY DEF IInv, HeapSound, MajorsTyped
  <2>2. \A M \in DOMAIN major : major[M] \in
            [prev : DOMAIN major \cup {NULL}, next : DOMAIN major \cup {NULL},
             pages : Nat, size : Nat, usage : Int, first : DOMAIN minor \cup {NULL}]
    BY <2>1, PointersLead
  <2>3. /\ minor = [m \in DOMAIN minor |-> minor[m]]
        /\ \A m \in DOMAIN minor : minor[m] \in
              [prev : Nat, next : Nat, block : DOMAIN major, size : Nat, req_size : Nat]
    BY DEF IInv, HeapSound, MinorsTyped
  <2>4. \A m \in DOMAIN minor : minor[m] \in
            [prev : DOMAIN minor \cup {NULL}, next : DOMAIN minor \cup {NULL},
             block : DOMAIN major, size : Nat, req_size : Nat]
    BY <2>3, PointersLead
  <2>5. DOMAIN major \subseteq Nat \ {NULL} /\ DOMAIN minor \subseteq Nat \ {NULL}
    BY DEF IInv, HeapSound, MajorsTyped, MinorsTyped
  <2> QED
    BY <2>1, <2>2, <2>3, <2>4, <2>5, PointersLead DEF TypeOK, IInv, HeapSound, CallType
<1> QED BY <1>1, HeapInvariant, PTL

\* Whatever is allocated, freed and resized, in whatever order, the lists of majors
\* and of the minors of each major stay doubly linked, in address order and complete.
THEOREM ListsStaySound == Spec => []ListsSound
<1>1. IInv => ListsSound
  BY DEF IInv, HeapSound
<1> QED BY <1>1, HeapInvariant, PTL

\* CASES 2 to 4 never give out memory that overlaps another allocation, a header, or
\* the end of the pages the major has.
THEOREM AllocationsStayDisjoint == Spec => []AllocationsDisjoint
<1>1. IInv => AllocationsDisjoint
  BY DEF IInv, HeapSound
<1> QED BY <1>1, HeapInvariant, PTL

\* A number rounded up by the modulus of its complement is a multiple.
LEMMA AlignsUp ==
    ASSUME NEW x \in Nat, NEW a \in Nat \ {0}
    PROVE  /\ (x + ((a - (x % a)) % a)) % a = 0
           /\ (a - (x % a)) % a \in Nat /\ (a - (x % a)) % a < a
<1> DEFINE q == x \div a
           r == x % a
<1>1. x = a * q + r /\ r \in 0..(a - 1) /\ q \in Nat
  OBVIOUS
<1>2. CASE r = 0
  <2>1. (a - r) % a = 0
    BY <1>2
  <2> QED BY <1>1, <1>2, <2>1
<1>3. CASE r # 0
  <2>1. (a - r) % a = a - r
    BY <1>1, <1>3
  <2>2. x + (a - r) = (q + 1) * a
    BY <1>1
  <2>3. ((q + 1) * a) % a = 0
    BY <1>1
  <2> QED BY <1>1, <1>3, <2>1, <2>2, <2>3
<1> QED BY <1>2, <1>3

\* ALIGN's pointer is aligned and leaves room for the word below it and the bytes
\* asked for above, so kfree and krealloc find the header of whatever they are given.
THEOREM PointersStaySound == Spec => []PointersSound
<1>1. IInv => PointersSound
  <2> SUFFICES ASSUME IInv, NEW m \in DOMAIN minor
               PROVE  LET p == m + MinorSize
                          diff == AlignDiff(p) IN
                      /\ (p + diff) % Alignment = 0
                      /\ p + diff - AlignInfo >= p
                      /\ p + diff + minor[m].req_size <= EndOfMinor(m)
                      /\ diff < Alignment + AlignInfo
    BY DEF PointersSound
  <2> DEFINE p == m + MinorSize
             x == p + AlignInfo
             up == (Alignment - (x % Alignment)) % Alignment
  <2>1. /\ m \in Nat /\ minor[m].size \in Nat /\ minor[m].req_size \in Nat
        /\ minor[m].req_size + Alignment + AlignInfo <= minor[m].size
    BY DEF IInv, HeapSound, MinorsTyped, Roomy
  <2>2. /\ MinorSize \in Nat /\ AlignInfo \in Nat /\ Alignment \in Nat \ {0}
        /\ p \in Nat /\ x \in Nat
    BY <2>1, Constants
  <2>3. (x + up) % Alignment = 0 /\ up \in Nat /\ up < Alignment
    BY <2>2, AlignsUp
  <2>4. AlignDiff(p) = AlignInfo + up
    BY DEF AlignDiff
  <2>5. EndOfMinor(m) = p + minor[m].size
    BY DEF EndOfMinor
  <2> HIDE DEF up, x
  <2>6. p + (AlignInfo + up) = x + up
    BY <2>2, <2>3 DEF x
  <2>7. (p + AlignDiff(p)) % Alignment = 0
    BY <2>3, <2>4, <2>6
  <2>8. /\ p + AlignDiff(p) - AlignInfo >= p
        /\ p + AlignDiff(p) + minor[m].req_size <= EndOfMinor(m)
        /\ AlignDiff(p) < Alignment + AlignInfo
    <3>1. /\ p + (AlignInfo + up) - AlignInfo >= p
          /\ p + (AlignInfo + up) + minor[m].req_size <= p + minor[m].size
          /\ AlignInfo + up < Alignment + AlignInfo
      <4> HIDE DEF p
      <4> QED BY <2>1, <2>2, <2>3
    <3> QED BY <3>1, <2>4, <2>5
  <2> QED BY <2>7, <2>8
<1> QED BY <1>1, HeapInvariant, PTL

\* The pages of a major go back as soon as the last allocation in it is freed, and
\* no major made for a request is left behind when malloc returns.
THEOREM NoMajorStaysIdle == Spec => []NoIdleMajor
<1>1. IInv => NoIdleMajor
  BY NoneEmpty DEF NoIdleMajor
<1> QED BY <1>1, HeapInvariant, PTL

----------------------------------------------------------------------------
(* The counters and the bytes.                                             *)

\* The bytes of a minor, and those of a major that no header or minor has.
Taken(m) == m..(EndOfMinor(m) - 1)
FreeBytes(M) ==
    {a \in (M + MajorSize)..(EndOfMajor(M) - 1) : \A m \in MinorsOf(M) : a \notin Taken(m)}

\* What CASE 1 goes by is the number of bytes that are really free.
UsageCounted == \A M \in DOMAIN major : Free(M) = Cardinality(FreeBytes(M))

\* A run of n bytes that is taken from a set of bytes, or given back to it.
LEMMA RunTaken ==
    ASSUME NEW F, IsFiniteSet(F), NEW a \in Int, NEW n \in Nat, a..(a + n - 1) \subseteq F
    PROVE  Cardinality(F \ (a..(a + n - 1))) = Cardinality(F) - n
<1> DEFINE T == a..(a + n - 1)
<1>1. Cardinality(T) = n
  BY FS_Interval
<1>2. F \cap T = T
  OBVIOUS
<1> HIDE DEF T
<1>3. Cardinality(F \ T) = Cardinality(F) - Cardinality(F \cap T)
  BY FS_Difference
<1> QED BY <1>1, <1>2, <1>3 DEF T

LEMMA RunGiven ==
    ASSUME NEW F, IsFiniteSet(F), NEW a \in Int, NEW n \in Nat, F \cap (a..(a + n - 1)) = {}
    PROVE  Cardinality(F \cup (a..(a + n - 1))) = Cardinality(F) + n
<1> DEFINE T == a..(a + n - 1)
<1>1. Cardinality(T) = n /\ IsFiniteSet(T)
  BY FS_Interval
<1>2. F \cap T = {} /\ Cardinality({}) = 0
  BY FS_EmptySet
<1>4. Cardinality(F) \in Nat
  BY FS_CardinalityType
<1> HIDE DEF T
<1>3. Cardinality(F \cup T) = Cardinality(F) + Cardinality(T) - Cardinality(F \cap T)
  BY <1>1, FS_Union
<1>5. Cardinality(F \cap T) = 0
  BY <1>2
<1>6. Cardinality(F \cup T) = Cardinality(F) + n
  BY <1>1, <1>3, <1>4, <1>5
<1> QED BY <1>6 DEF T

\* The free bytes of a major can be counted.
LEMMA FreeFinite ==
    ASSUME HeapSound, NEW M \in DOMAIN major
    PROVE  IsFiniteSet(FreeBytes(M)) /\ Cardinality(FreeBytes(M)) \in Nat
<1>1. M \in Nat /\ major[M].size \in Nat /\ MajorSize \in Nat
  BY Constants DEF HeapSound, MajorsTyped
<1>2. IsFiniteSet((M + MajorSize)..(EndOfMajor(M) - 1))
  <2>1. M + MajorSize \in Int /\ EndOfMajor(M) - 1 \in Int
    BY <1>1 DEF EndOfMajor
  <2> QED BY <2>1, FS_Interval
<1>3. FreeBytes(M) \subseteq (M + MajorSize)..(EndOfMajor(M) - 1)
  BY DEF FreeBytes
<1>4. IsFiniteSet(FreeBytes(M))
  BY <1>2, <1>3, FS_Subset
<1> QED BY <1>4, FS_CardinalityType

\* A major whose extent and minors stay has the same bytes free.
LEMMA SameBytes ==
    ASSUME NEW M, EndOfMajor(M)' = EndOfMajor(M), MinorsOf(M)' = MinorsOf(M),
           \A m \in MinorsOf(M) : EndOfMinor(m)' = EndOfMinor(m)
    PROVE  FreeBytes(M)' = FreeBytes(M)
BY DEF FreeBytes, Taken

\* The minors of a major, their places and their ends.
LEMMA MinorsPlaced ==
    ASSUME HeapSound, NEW M \in DOMAIN major
    PROVE  /\ M \in Nat /\ EndOfMajor(M) \in Nat /\ MajorSize \in Nat
           /\ \A m \in MinorsOf(M) :
                 /\ m \in DOMAIN minor /\ minor[m].block = M
                 /\ m \in Nat \ {0} /\ EndOfMinor(m) \in Nat /\ m < EndOfMinor(m)
                 /\ M + MajorSize <= m /\ EndOfMinor(m) <= EndOfMajor(M)
                 /\ EndOfMinor(m) = m + Footprint(m) /\ Footprint(m) \in Nat
<1>1. M \in Nat /\ major[M].size \in Nat /\ MajorSize \in Nat /\ MinorSize \in Nat \ {0}
  BY Constants DEF HeapSound, MajorsTyped
<1>2. SUFFICES ASSUME NEW m \in MinorsOf(M)
               PROVE  /\ m \in DOMAIN minor /\ minor[m].block = M
                      /\ m \in Nat \ {0} /\ EndOfMinor(m) \in Nat /\ m < EndOfMinor(m)
                      /\ M + MajorSize <= m /\ EndOfMinor(m) <= EndOfMajor(M)
                      /\ EndOfMinor(m) = m + Footprint(m) /\ Footprint(m) \in Nat
  BY <1>1 DEF EndOfMajor
<1>3. m \in DOMAIN minor /\ minor[m].block = M
  BY DEF MinorsOf
<1>4. m \in Nat \ {0} /\ minor[m].size \in Nat
  BY <1>3 DEF HeapSound, MinorsTyped, NULL
<1>5. M + MajorSize <= m /\ EndOfMinor(m) <= EndOfMajor(M)
  BY <1>3 DEF HeapSound, AllocationsDisjoint
<1> QED BY <1>1, <1>3, <1>4, <1>5 DEF EndOfMinor, Footprint

\* Placing a minor takes its room from the free bytes and from the counter.
LEMMA PlaceCounted ==
    ASSUME IInv, UsageCounted, AtMajor, NEW m \in Nat, NEW p \in Nat, NEW n \in Nat,
           Fits(m, p, n, call.maj), Place(m, p, n)
    PROVE  UsageCounted'
<1>1. PICK B \in DOMAIN major : B = call.maj
  BY InProgress
<1>2. Requested /\ HeapSound /\ call.size \in Nat /\ Room \in Nat
  BY InProgress, Constants DEF IInv, CallSound, Room
<1>3. /\ HeapSound' /\ DOMAIN minor' = DOMAIN minor \cup {m} /\ m \notin DOMAIN minor
      /\ DOMAIN major' = DOMAIN major
      /\ \A C \in DOMAIN major : major'[C].size = major[C].size
      /\ \A x \in DOMAIN minor : minor'[x].block = minor[x].block
  BY <1>1, <1>2, PlaceSound
<1>4. /\ minor'[m].block = B /\ minor'[m].size = call.size
      /\ \A x \in DOMAIN minor : minor'[x].size = minor[x].size
  BY <1>1, <1>3 DEF Place, LinkedMinors, IInv, HeapSound, MinorsTyped
<1>5. /\ EndOfMinor(m)' = m + Room
      /\ \A x \in DOMAIN minor : EndOfMinor(x)' = EndOfMinor(x)
      /\ \A C \in DOMAIN major : EndOfMajor(C)' = EndOfMajor(C)
  BY <1>2, <1>3, <1>4, Constants DEF EndOfMinor, EndOfMajor, Room
<1>6. /\ MinorsOf(B)' = MinorsOf(B) \cup {m}
      /\ \A C \in DOMAIN major : C # B => MinorsOf(C)' = MinorsOf(C)
  BY <1>3, <1>4 DEF MinorsOf
<1>7. \A C \in DOMAIN major :
          major'[C].usage = IF C = B THEN major[C].usage + Room ELSE major[C].usage
  BY <1>1 DEF Place, IInv, HeapSound, MajorsTyped
<1>8. ASSUME NEW C \in DOMAIN major, C # B
      PROVE  Free(C)' = Cardinality(FreeBytes(C)')
  <2>1. FreeBytes(C)' = FreeBytes(C)
    BY <1>5, <1>6, <1>8, SameBytes DEF MinorsOf
  <2> QED BY <1>3, <1>7, <1>8, <2>1 DEF Free, UsageCounted
<1>9. Free(B)' = Cardinality(FreeBytes(B)')
  <2> DEFINE T == m..(m + Room - 1)
  <2>1. T \subseteq FreeBytes(B)
    <3>1. /\ B + MajorSize <= m /\ m + Room <= EndOfMajor(B)
          /\ B \in Nat /\ EndOfMajor(B) \in Nat /\ MajorSize \in Nat
      BY <1>1, <1>2, MinorsPlaced DEF Fits
    <3>2. ASSUME NEW a \in T, NEW x \in MinorsOf(B), a \in Taken(x) PROVE FALSE
      <4>1. x \in DOMAIN minor /\ x \in Nat /\ EndOfMinor(x) \in Nat
        BY <1>2, MinorsPlaced
      <4>2. /\ x < m => EndOfMinor(x)' <= m
            /\ m < x => EndOfMinor(m)' <= x
        BY <1>3, <4>1 DEF HeapSound, AllocationsDisjoint
      <4>3. /\ x < m => EndOfMinor(x) <= m
            /\ m < x => m + Room <= x
            /\ x # m
        BY <1>3, <1>5, <4>1, <4>2
      <4>4. x <= a /\ a < EndOfMinor(x) /\ m <= a /\ a < m + Room /\ a \in Int
        BY <1>2, <3>2, <4>1 DEF Taken
      <4> QED BY <1>2, <4>1, <4>3, <4>4
    <3>3. \A a \in T : a \in (B + MajorSize)..(EndOfMajor(B) - 1)
      BY <1>2, <3>1
    <3> QED BY <3>2, <3>3 DEF FreeBytes
  <2>2. FreeBytes(B)' = FreeBytes(B) \ T
    <3>1. Taken(m)' = T /\ \A x \in MinorsOf(B) : Taken(x)' = Taken(x)
      <4>0. \A x : Taken(x)' = x..(EndOfMinor(x)' - 1)
        BY DEF Taken
      <4>1. Taken(m)' = T
        <5>1. Taken(m)' = m..(EndOfMinor(m)' - 1)
          BY <4>0
        <5> QED BY <1>2, <1>5, <5>1
      <4>2. \A x \in DOMAIN minor : Taken(x)' = Taken(x)
        BY <1>5, <4>0 DEF Taken
      <4> QED BY <4>1, <4>2 DEF MinorsOf
    <3> HIDE DEF T
    <3> QED BY <1>5, <1>6, <3>1 DEF FreeBytes
  <2>3. Cardinality(FreeBytes(B)') = Cardinality(FreeBytes(B)) - Room
    <3>1. IsFiniteSet(FreeBytes(B)) /\ m \in Int
      BY <1>2, FreeFinite
    <3>2. Cardinality(FreeBytes(B) \ T) = Cardinality(FreeBytes(B)) - Room
      BY <1>2, <2>1, <3>1, RunTaken
    <3> QED BY <2>2, <3>2
  <2>4. Free(B) = Cardinality(FreeBytes(B)) /\ Free(B)' = Free(B) - Room
    <3>1. major[B].size \in Nat /\ major[B].usage \in Int
      BY DEF IInv, HeapSound, MajorsTyped
    <3> QED BY <1>2, <1>3, <1>7, <3>1 DEF Free, UsageCounted
  <2> QED BY <2>3, <2>4
<1> QED BY <1>3, <1>8, <1>9 DEF UsageCounted

\* A minor that is freed gives its bytes back, to the set and to the counter.
LEMMA FreeCounted ==
    ASSUME IInv, UsageCounted, NEW m \in DOMAIN minor, FreeMinor(m)
    PROVE  UsageCounted' /\ DOMAIN major' \subseteq DOMAIN major
<1>1. PICK B \in DOMAIN major : B = minor[m].block
  BY DEF IInv, HeapSound, MinorsTyped
<1>2. HeapSound /\ minor' = Unlinked(m)
  BY DEF IInv, FreeMinor
<1>3. /\ \A x \in DOMAIN minor' : EndOfMinor(x)' = EndOfMinor(x)
      /\ DOMAIN minor' = DOMAIN minor \ {m}
      /\ MinorsOf(B)' = MinorsOf(B) \ {m}
      /\ \A C \in DOMAIN major : C # B => MinorsOf(C)' = MinorsOf(C)
  <2> HIDE DEF NULL
  <2> QED BY <1>1, <1>2, UnlinkedMinors, SMTT(30)
<1>4. Kept(B, m)
  BY <1>1, <1>2, FreeSound
<1>5. /\ DOMAIN major' \subseteq DOMAIN major
      /\ \A C \in DOMAIN major' : /\ EndOfMajor(C)' = EndOfMajor(C)
                                  /\ major'[C].size = major[C].size
                                  /\ C # B => major'[C].usage = major[C].usage
  BY <1>4 DEF Kept, EndOfMajor
<1>6. ASSUME NEW C \in DOMAIN major', C # B
      PROVE  Free(C)' = Cardinality(FreeBytes(C)')
  <2>1. C \in DOMAIN major /\ MinorsOf(C)' = MinorsOf(C)
    BY <1>3, <1>5, <1>6
  <2>2. \A x \in MinorsOf(C) : EndOfMinor(x)' = EndOfMinor(x)
    BY <1>1, <1>3, <1>6, <2>1 DEF MinorsOf
  <2>3. FreeBytes(C)' = FreeBytes(C)
    BY <1>5, <2>1, <2>2, SameBytes
  <2> QED BY <1>5, <1>6, <2>1, <2>3 DEF Free, UsageCounted
<1>7. ASSUME B \in DOMAIN major'
      PROVE  Free(B)' = Cardinality(FreeBytes(B)')
  <2>1. ~EmptiesMajor(m)
    BY <1>4, <1>7 DEF Kept
  <2>2. major'[B].usage = major[B].usage - Footprint(m)
    BY <1>1, <2>1 DEF FreeMinor, ShrinkMajor, IInv, HeapSound, MajorsTyped
  <2> DEFINE T == m..(m + Footprint(m) - 1)
  <2>3. /\ m \in MinorsOf(B) /\ m \in Nat /\ Footprint(m) \in Nat
        /\ B + MajorSize <= m /\ m + Footprint(m) <= EndOfMajor(B)
        /\ B \in Nat /\ MajorSize \in Nat /\ EndOfMajor(B) \in Nat
        /\ Taken(m) = T
    <3>1. m \in MinorsOf(B)
      BY <1>1 DEF MinorsOf
    <3> QED BY <1>2, <3>1, MinorsPlaced DEF Taken
  <2>4. FreeBytes(B) \cap T = {}
    BY <2>3 DEF FreeBytes
  <2>5. ASSUME NEW a \in T
        PROVE  /\ a \in (B + MajorSize)..(EndOfMajor(B) - 1)
               /\ \A x \in MinorsOf(B) \ {m} : a \notin Taken(x)
    <3>1. a \in Int /\ m <= a /\ a < m + Footprint(m)
      BY <2>3
    <3>2. a \in (B + MajorSize)..(EndOfMajor(B) - 1)
      BY <2>3, <3>1
    <3>3. ASSUME NEW x \in MinorsOf(B), x # m PROVE a \notin Taken(x)
      <4>1. /\ x \in DOMAIN minor /\ x \in Nat /\ EndOfMinor(x) \in Nat
            /\ EndOfMinor(m) = m + Footprint(m)
        BY <1>2, <2>3, MinorsPlaced
      <4>2. /\ x < m => EndOfMinor(x) <= m
            /\ m < x => EndOfMinor(m) <= x
        BY <1>2, <4>1 DEF HeapSound, AllocationsDisjoint
      <4> QED BY <2>3, <3>1, <3>3, <4>1, <4>2 DEF Taken
    <3> QED BY <3>2, <3>3
  <2>6. FreeBytes(B)' = FreeBytes(B) \cup T
    <3>1. EndOfMajor(B)' = EndOfMajor(B)
      BY <1>5, <1>7
    <3>2. \A x \in MinorsOf(B) \ {m} : Taken(x)' = Taken(x)
      <4>1. \A x \in DOMAIN minor' : Taken(x)' = Taken(x)
        BY <1>3 DEF Taken
      <4> QED BY <1>3, <4>1 DEF MinorsOf
    <3>3. FreeBytes(B)' = {a \in (B + MajorSize)..(EndOfMajor(B) - 1) :
                              \A x \in MinorsOf(B) \ {m} : a \notin Taken(x)}
      BY <1>3, <3>1, <3>2 DEF FreeBytes
    <3>4. \A a : a \in FreeBytes(B)' => a \in FreeBytes(B) \/ a \in T
      <4>1. Taken(m) = T
        BY <2>3
      <4> HIDE DEF T
      <4> QED BY <3>3, <4>1 DEF FreeBytes
    <3>5. \A a \in FreeBytes(B) : a \in FreeBytes(B)'
      BY <3>3 DEF FreeBytes
    <3>6. \A a \in T : a \in FreeBytes(B)'
      <4> HIDE DEF T
      <4> QED BY <2>5, <3>3
    <3> HIDE DEF T
    <3> QED BY <3>4, <3>5, <3>6
  <2>7. Cardinality(FreeBytes(B)') = Cardinality(FreeBytes(B)) + Footprint(m)
    BY <1>2, <2>3, <2>4, <2>6, FreeFinite, RunGiven
  <2>8. major[B].size \in Nat /\ major[B].usage \in Int
    BY DEF IInv, HeapSound, MajorsTyped
  <2>9. Free(B) = Cardinality(FreeBytes(B))
    BY DEF UsageCounted
  <2> QED BY <1>5, <1>7, <2>2, <2>3, <2>7, <2>8, <2>9 DEF Free
<1> QED BY <1>5, <1>6, <1>7 DEF UsageCounted

\* A new major is free but for its header, and the others stay as they are.
LEMMA AppendCounted ==
    ASSUME IInv, UsageCounted, call.size \in Nat, NEW last \in DOMAIN major \cup {NULL},
           IF last = NULL THEN DOMAIN major = {} ELSE major[last].next = NULL,
           PagesLeft(PagesFor(call.size)),
           AppendMajor(last), UNCHANGED minor,
           l_memRoot' = IF last = NULL THEN heap_location * PageSize ELSE l_memRoot,
           NEW N, N = heap_location * PageSize
    PROVE  /\ UsageCounted'
           /\ DOMAIN major' = DOMAIN major \cup {N}
           /\ \A C \in DOMAIN major : /\ EndOfMajor(C)' = EndOfMajor(C)
                                      /\ MinorsOf(C)' = MinorsOf(C)
                                      /\ C < N
<1>1. HeapSound
  BY DEF IInv
<1>2. /\ HeapSound' /\ DOMAIN major' = DOMAIN major \cup {N} /\ N \notin DOMAIN major
      /\ MinorsOf(N)' = {} /\ major'[N].usage = MajorSize
      /\ major'[N].size >= call.size + MajorSize + MinorSize
      /\ \A C \in DOMAIN major : /\ MinorsOf(C)' = MinorsOf(C)
                                 /\ major'[C].usage = major[C].usage
                                 /\ major'[C].size = major[C].size
  BY <1>1, AppendSound
<1>3. \A C \in DOMAIN major : EndOfMajor(C)' = EndOfMajor(C) /\ C < N
  BY <1>1, <1>2, NewRun DEF EndOfMajor
<1>4. \A x : EndOfMinor(x)' = EndOfMinor(x)
  BY DEF EndOfMinor
<1>5. ASSUME NEW C \in DOMAIN major PROVE Free(C)' = Cardinality(FreeBytes(C)')
  <2>1. FreeBytes(C)' = FreeBytes(C)
    BY <1>2, <1>3, <1>4, SameBytes
  <2> QED BY <1>2, <2>1 DEF Free, UsageCounted
<1>6. Free(N)' = Cardinality(FreeBytes(N)')
  <2>1. /\ N \in Nat /\ MajorSize \in Nat /\ MinorSize \in Nat /\ major'[N].size \in Nat
        /\ major'[N].size >= MajorSize
    <3>1. N \in Nat /\ MajorSize \in Nat /\ MinorSize \in Nat
      BY <1>1, Constants, NewRun
    <3>2. N \in DOMAIN major'
      BY <1>2
    <3>3. major'[N].size \in Nat
      BY <1>2, <3>2 DEF HeapSound, MajorsTyped
    <3> QED BY <1>2, <3>1, <3>3
  <2>2. FreeBytes(N)' = (N + MajorSize)..(N + major'[N].size - 1)
    <3>1. EndOfMajor(N)' = N + major'[N].size
      BY DEF EndOfMajor
    <3>2. FreeBytes(N)' = {a \in (N + MajorSize)..(EndOfMajor(N)' - 1) :
                              \A m \in MinorsOf(N)' : a \notin Taken(m)'}
      BY DEF FreeBytes
    <3>3. (N + MajorSize)..(EndOfMajor(N)' - 1)
            = (N + MajorSize)..(N + major'[N].size - 1)
      BY <2>1, <3>1
    <3>4. MinorsOf(N)' = {}
      BY <1>2
    <3> QED BY <3>2, <3>3, <3>4, Zenon
  <2>3. N + MajorSize \in Int /\ N + major'[N].size - 1 \in Int
    BY <2>1
  <2>4. Cardinality(FreeBytes(N)') = major'[N].size - MajorSize
    <3> DEFINE a == N + MajorSize
               b == N + major'[N].size - 1
    <3>1. Cardinality(a..b) = IF a > b THEN 0 ELSE b - a + 1
      BY <2>3, FS_Interval
    <3> QED BY <2>1, <2>2, <3>1
  <2> QED BY <1>2, <2>4 DEF Free
<1> QED BY <1>2, <1>3, <1>5, <1>6 DEF UsageCounted

----------------------------------------------------------------------------
(* How far the search for a gap has come.                                  *)

\* No gap for the request starts in major M at or below the room before e.
NoGapBelow(M, e) ==
    \A a \in (M + MajorSize)..(e - Room) :
        \E m \in MinorsOf(M) : a < EndOfMinor(m) /\ m < a + Room

\* A search that is on its way from the root has left no gap behind, among the
\* majors and in the major it is in.
SearchedMajors ==
    call.op \in {"search", "minors"} /\ ~call.startedBet
        => \A M \in DOMAIN major : M < call.maj => ~HasGap(M)
SearchedMinors ==
    call.op = "minors"
        => NoGapBelow(call.maj, IF call.min = NULL THEN EndOfMajor(call.maj) ELSE call.min)

SearchInv == IInv /\ UsageCounted /\ SearchedMajors /\ SearchedMinors

\* A major without a gap is one that was gone through to its end.
LEMMA FullMajor ==
    ASSUME HeapSound, call.size \in Nat, NEW M \in DOMAIN major,
           NoGapBelow(M, EndOfMajor(M))
    PROVE  ~HasGap(M)
<1>1. SUFFICES ASSUME NEW a \in (M + MajorSize)..(EndOfMajor(M) - Room),
                      \A m \in MinorsOf(M) : EndOfMinor(m) <= a \/ a + Room <= m
               PROVE  FALSE
  BY DEF HasGap
<1>2. PICK m \in MinorsOf(M) : a < EndOfMinor(m) /\ m < a + Room
  BY <1>1 DEF NoGapBelow
<1>3. m \in Nat /\ EndOfMinor(m) \in Nat /\ Room \in Nat
  BY <1>2, MinorsPlaced, Constants DEF Room
<1>4. EndOfMinor(m) <= a \/ a + Room <= m
  BY <1>1
<1>5. a \in Int
  BY <1>1
<1> QED BY <1>2, <1>3, <1>4, <1>5

\* CASE 1 passes over a major only if its free bytes are fewer than the room asked for:
\* then they cannot hold a gap of that size.
LEMMA GapWithin ==
    ASSUME HeapSound, UsageCounted, call.size \in Nat, NEW M \in DOMAIN major,
           ~(Free(M) >= Room)
    PROVE  ~HasGap(M)
<1>1. SUFFICES ASSUME NEW a \in (M + MajorSize)..(EndOfMajor(M) - Room),
                      \A m \in MinorsOf(M) : EndOfMinor(m) <= a \/ a + Room <= m
               PROVE  FALSE
  BY DEF HasGap
<1>2. /\ M \in Nat /\ MajorSize \in Nat /\ EndOfMajor(M) \in Nat /\ Room \in Nat
      /\ a \in Int /\ M + MajorSize <= a /\ a + Room <= EndOfMajor(M)
  <2>1. M \in Nat /\ MajorSize \in Nat /\ EndOfMajor(M) \in Nat /\ Room \in Nat
    BY MinorsPlaced, Constants DEF Room
  <2> QED BY <1>1, <2>1
<1>3. a..(a + Room - 1) \subseteq FreeBytes(M)
  <2>1. SUFFICES ASSUME NEW b \in a..(a + Room - 1) PROVE b \in FreeBytes(M)
    OBVIOUS
  <2>2. b \in Int /\ a <= b /\ b < a + Room
    BY <1>2
  <2>3. b \in (M + MajorSize)..(EndOfMajor(M) - 1)
    BY <1>2, <2>2
  <2>4. ASSUME NEW m \in MinorsOf(M) PROVE b \notin Taken(m)
    <3>1. m \in Nat /\ EndOfMinor(m) \in Nat
      BY MinorsPlaced
    <3>2. EndOfMinor(m) <= a \/ a + Room <= m
      BY <1>1
    <3> QED BY <1>2, <2>2, <3>1, <3>2 DEF Taken
  <2> QED BY <2>3, <2>4 DEF FreeBytes
<1>4. IsFiniteSet(FreeBytes(M)) /\ Cardinality(FreeBytes(M)) \in Nat
  BY FreeFinite
<1>5. Cardinality(FreeBytes(M) \ (a..(a + Room - 1))) = Cardinality(FreeBytes(M)) - Room
  BY <1>2, <1>3, <1>4, RunTaken
<1>6. Cardinality(FreeBytes(M) \ (a..(a + Room - 1))) \in Nat
  <2>1. IsFiniteSet(FreeBytes(M) \ (a..(a + Room - 1)))
    BY <1>4, FS_Difference
  <2> QED BY <2>1, FS_CardinalityType
<1>7. Free(M) = Cardinality(FreeBytes(M))
  BY DEF UsageCounted
<1> QED BY <1>2, <1>4, <1>5, <1>6, <1>7

\* Going past a minor with too little room behind it leaves no gap behind.
LEMMA GapPassed ==
    ASSUME HeapSound, call.size \in Nat, NEW M \in DOMAIN major, NEW m \in MinorsOf(M),
           NoGapBelow(M, m), NEW e \in Nat, e - EndOfMinor(m) < Room
    PROVE  NoGapBelow(M, e)
<1>1. SUFFICES ASSUME NEW a \in (M + MajorSize)..(e - Room)
               PROVE  \E x \in MinorsOf(M) : a < EndOfMinor(x) /\ x < a + Room
  BY DEF NoGapBelow
<1>2. /\ m \in Nat /\ EndOfMinor(m) \in Nat /\ Room \in Nat /\ M \in Nat /\ MajorSize \in Nat
      /\ a \in Int /\ M + MajorSize <= a /\ a <= e - Room
  <2>1. /\ m \in Nat /\ EndOfMinor(m) \in Nat /\ Room \in Nat /\ M \in Nat /\ MajorSize \in Nat
    BY MinorsPlaced, Constants DEF Room
  <2> QED BY <1>1, <2>1
<1>3. CASE a <= m - Room
  <2>1. a \in (M + MajorSize)..(m - Room)
    BY <1>2, <1>3
  <2> QED BY <2>1 DEF NoGapBelow
<1>4. CASE ~(a <= m - Room)
  <2>1. a < EndOfMinor(m) /\ m < a + Room
    BY <1>2, <1>4
  <2> QED BY <2>1
<1> QED BY <1>3, <1>4

\* Neither is there a gap before the first minor if CASE 3 finds too little room there.
LEMMA FrontPassed ==
    ASSUME HeapSound, call.size \in Nat, NEW M \in DOMAIN major, ~(FrontGap(M) >= Room)
    PROVE  NoGapBelow(M, major[M].first)
<1>1. M \in Nat /\ MajorSize \in Nat /\ Room \in Nat /\ major[M].first \in Nat
  BY Constants DEF Room, HeapSound, MajorsTyped
<1>2. major[M].first - Room < M + MajorSize
  BY <1>1 DEF FrontGap
<1>3. \A a \in (M + MajorSize)..(major[M].first - Room) : FALSE
  BY <1>1, <1>2
<1> QED BY <1>3 DEF NoGapBelow

\* A major whose extent and minors stay has the same gaps for the same request.
LEMMA SameGaps ==
    ASSUME call'.size = call.size, NEW M, EndOfMajor(M)' = EndOfMajor(M),
           MinorsOf(M)' = MinorsOf(M),
           \A m \in MinorsOf(M) : EndOfMinor(m)' = EndOfMinor(m)
    PROVE  /\ HasGap(M)' <=> HasGap(M)
           /\ \A e : NoGapBelow(M, e)' <=> NoGapBelow(M, e)
<1>1. Room' = Room
  BY DEF Room
<1> QED BY <1>1 DEF HasGap, NoGapBelow

\* The next major comes right behind, and the last one is behind them all.
LEMMA NextMajor ==
    ASSUME HeapSound, NEW M \in DOMAIN major, NEW C \in DOMAIN major
    PROVE  /\ C \in Nat /\ M \in Nat
           /\ major[M].next # NULL /\ C < major[M].next => C <= M
           /\ major[M].next = NULL => C <= M
           /\ l_memRoot # NULL => ~(C < l_memRoot)
<1>1. /\ M \in Nat /\ C \in Nat /\ DOMAIN major \subseteq Nat \ {NULL}
      /\ major[M].next \in Nat /\ l_memRoot \in Nat
  BY DEF HeapSound, MajorsTyped
<1>2. IsNext(major[M].next, M, DOMAIN major) /\ IsFirst(l_memRoot, DOMAIN major)
  BY DEF HeapSound, ListsSound, MajorListSound
<1>3. major[M].next # NULL => major[M].next \in DOMAIN major /\ (C <= M \/ major[M].next <= C)
  BY <1>1, <1>2 DEF IsNext
<1>4. major[M].next = NULL => C <= M
  BY <1>1, <1>2 DEF IsNext
<1>5. l_memRoot # NULL => l_memRoot <= C
  BY <1>1, <1>2 DEF IsFirst
<1> QED BY <1>1, <1>3, <1>4, <1>5

\* The steps of the search keep the memory and the request; those among the minors
\* keep the major and where the search began.
LEMMA SearchMoves ==
    ASSUME IInv,
           \/ StartSearch \/ Case1Hop \/ Case1Restart \/ Case5Hop \/ Case5Restart
           \/ EnterBlock \/ NextMinor
    PROVE  /\ UNCHANGED <<major, minor>> /\ call'.size = call.size
           /\ StartSearch => /\ call'.op = "search"
                             /\ ~call'.startedBet => call'.maj = l_memRoot
           /\ Case1Restart \/ Case5Restart => call'.op = "search" /\ call'.maj = l_memRoot
           /\ Case1Hop \/ Case5Hop => /\ call'.op = "search"
                                      /\ call'.startedBet = call.startedBet
                                      /\ call'.maj = major[call.maj].next
           /\ EnterBlock => call'.op = "minors" /\ call'.min = major[call.maj].first
           /\ NextMinor => call'.op = "minors" /\ call'.min = minor[call.min].next
           /\ EnterBlock \/ NextMinor => /\ call'.maj = call.maj
                                         /\ call'.startedBet = call.startedBet
<1>1. call \in [op : {"idle", "start", "search", "fresh", "minors", "copy", "halted"},
                req : Nat, size : Nat, bestSize : Int, startedBet : BOOLEAN,
                maj : DOMAIN major \cup {NULL},
                min : DOMAIN minor \cup {NULL}, old : DOMAIN minor \cup {NULL}]
  BY DEF IInv, CallType
<1>2. ASSUME StartSearch
      PROVE  /\ UNCHANGED <<major, minor>> /\ call'.size = call.size /\ call'.op = "search"
             /\ ~call'.startedBet => call'.maj = l_memRoot
  BY <1>1, <1>2 DEF StartSearch, heap
<1>3. ASSUME Case5Hop
      PROVE  /\ UNCHANGED <<major, minor>> /\ call'.size = call.size /\ call'.op = "search"
             /\ call'.startedBet = call.startedBet /\ call'.maj = major[call.maj].next
  BY <1>1, <1>3 DEF Case5Hop, heap
<1>4. ASSUME Case1Hop
      PROVE  /\ UNCHANGED <<major, minor>> /\ call'.size = call.size /\ call'.op = "search"
             /\ call'.startedBet = call.startedBet /\ call'.maj = major[call.maj].next
  BY <1>1, <1>4 DEF Case1Hop, Searching, ConsiderBet
<1>5. ASSUME Case5Restart
      PROVE  /\ UNCHANGED <<major, minor>> /\ call'.size = call.size /\ call'.op = "search"
             /\ call'.maj = l_memRoot
  BY <1>1, <1>5 DEF Case5Restart, AtRoot, heap
<1>6. ASSUME Case1Restart
      PROVE  /\ UNCHANGED <<major, minor>> /\ call'.size = call.size /\ call'.op = "search"
             /\ call'.maj = l_memRoot
  BY <1>1, <1>6 DEF Case1Restart, ConsiderBet, AtRoot
<1>7. ASSUME EnterBlock
      PROVE  /\ UNCHANGED <<major, minor>> /\ call'.size = call.size /\ call'.op = "minors"
             /\ call'.min = major[call.maj].first
             /\ call'.maj = call.maj /\ call'.startedBet = call.startedBet
  BY <1>1, <1>7 DEF EnterBlock, ConsiderBet
<1>8. ASSUME NextMinor
      PROVE  /\ UNCHANGED <<major, minor>> /\ call'.size = call.size /\ call'.op = "minors"
             /\ call'.min = minor[call.min].next
             /\ call'.maj = call.maj /\ call'.startedBet = call.startedBet
  BY <1>1, <1>8 DEF NextMinor, InMinors, heap
<1> QED BY <1>2, <1>3, <1>4, <1>5, <1>6, <1>7, <1>8

\* Where pages are asked for, no major has a gap for the request.
LEMMA FullWhenGrowing ==
    ASSUME SearchInv, CreateRoot \/ Case1Grow \/ Case5Grow, NEW M \in DOMAIN major
    PROVE  ~HasGap(M)
<1>1. IInv /\ UsageCounted /\ SearchedMajors /\ SearchedMinors /\ HeapSound
  BY DEF SearchInv, IInv
<1>2. ~CreateRoot
  <2>1. l_memRoot # NULL
    BY <1>1, PointersLead
  <2> QED BY <2>1 DEF CreateRoot
<1>3. CASE Case1Grow
  <2>1. /\ call.op = "search" /\ AtMajor /\ ~Sufficient /\ major[call.maj].next = NULL
        /\ ~call.startedBet
    BY <1>3 DEF Case1Grow, Searching, AtMajor, MayRestart
  <2>2. call.maj \in DOMAIN major /\ call.size \in Nat
    BY <1>1, <2>1, InProgress
  <2>3. M < call.maj \/ M = call.maj
    BY <1>1, <2>1, <2>2, NextMajor
  <2>4. CASE M = call.maj
    <3>1. ~(Free(M) >= Room)
      BY <2>1, <2>4 DEF Sufficient
    <3> QED BY <1>1, <2>2, <3>1, GapWithin
  <2> QED BY <1>1, <2>1, <2>3, <2>4 DEF SearchedMajors
<1>4. CASE Case5Grow
  <2>1. /\ call.op = "minors" /\ AtMajor /\ call.min = NULL /\ major[call.maj].next = NULL
        /\ ~call.startedBet
    BY <1>4 DEF Case5Grow, BlockFull, AtMajor, MayRestart
  <2>2. call.maj \in DOMAIN major /\ call.size \in Nat
    BY <1>1, <2>1, InProgress
  <2>3. M < call.maj \/ M = call.maj
    BY <1>1, <2>1, <2>2, NextMajor
  <2>4. CASE M = call.maj
    <3>1. NoGapBelow(M, EndOfMajor(M))
      BY <1>1, <2>1, <2>4 DEF SearchedMinors
    <3> QED BY <1>1, <2>2, <3>1, FullMajor
  <2> QED BY <1>1, <2>1, <2>3, <2>4 DEF SearchedMajors
<1> QED BY <1>2, <1>3, <1>4

\* The search goes on, and has left no gap behind.
LEMMA SearchGoesOn ==
    ASSUME SearchInv,
           \/ StartSearch \/ Case1Hop \/ Case1Restart \/ Case5Hop \/ Case5Restart
           \/ EnterBlock \/ NextMinor
    PROVE  SearchedMajors' /\ SearchedMinors'
<1>1. IInv /\ UsageCounted /\ SearchedMajors /\ SearchedMinors /\ HeapSound
  BY DEF SearchInv, IInv
<1>2. UNCHANGED <<major, minor>> /\ call'.size = call.size
  BY <1>1, SearchMoves
<1>3. \A M \in DOMAIN major : HasGap(M)' <=> HasGap(M)
  BY <1>2, SameGaps DEF MinorsOf, EndOfMinor, EndOfMajor
<1>4. \A M \in DOMAIN major : \A e : NoGapBelow(M, e)' <=> NoGapBelow(M, e)
  BY <1>2, SameGaps DEF MinorsOf, EndOfMinor, EndOfMajor
<1>5. CASE StartSearch \/ Case1Restart \/ Case5Restart
  <2>1. l_memRoot # NULL
    <3>1. Case1Restart \/ Case5Restart => AtMajor
      BY DEF Case1Restart, Case5Restart, Searching, BlockFull, AtMajor
    <3>2. AtMajor => l_memRoot # NULL
      BY <1>1, InProgress, PointersLead DEF IInv, HeapSound, MajorsTyped
    <3> QED BY <1>5, <3>1, <3>2 DEF StartSearch
  <2>2. call'.op = "search" /\ (~call'.startedBet => call'.maj = l_memRoot)
    BY <1>1, <1>5, SearchMoves
  <2>3. \A M \in DOMAIN major : ~(M < l_memRoot)
    BY <1>1, <2>1, NextMajor
  <2> QED BY <1>2, <2>2, <2>3 DEF SearchedMajors, SearchedMinors
<1>6. CASE Case1Hop \/ Case5Hop
  <2>1. /\ AtMajor /\ major[call.maj].next # NULL
        /\ Case1Hop => call.op = "search" /\ ~Sufficient
        /\ Case5Hop => call.op = "minors" /\ call.min = NULL
    BY <1>6 DEF Case1Hop, Case5Hop, Searching, BlockFull, AtMajor
  <2>2. /\ call'.op = "search" /\ call'.startedBet = call.startedBet
        /\ call'.maj = major[call.maj].next
    BY <1>1, <1>6, SearchMoves
  <2>3. call.maj \in DOMAIN major /\ call.size \in Nat
    BY <1>1, <2>1, InProgress
  <2>4. ~HasGap(call.maj)
    <3>1. CASE Case1Hop
      <4>1. ~(Free(call.maj) >= Room)
        BY <2>1, <3>1 DEF Sufficient
      <4> QED BY <1>1, <2>3, <4>1, GapWithin
    <3>2. CASE Case5Hop
      <4>1. NoGapBelow(call.maj, EndOfMajor(call.maj))
        BY <1>1, <2>1, <3>2 DEF SearchedMinors
      <4> QED BY <1>1, <2>3, <4>1, FullMajor
    <3> QED BY <1>6, <3>1, <3>2
  <2>5. ASSUME ~call.startedBet, NEW M \in DOMAIN major, M < call'.maj PROVE ~HasGap(M)
    <3>1. M < call.maj \/ M = call.maj
      BY <1>1, <2>1, <2>2, <2>3, <2>5, NextMajor
    <3> QED BY <1>1, <1>6, <2>1, <2>4, <2>5, <3>1 DEF SearchedMajors
  <2> QED BY <1>2, <1>3, <2>2, <2>5 DEF SearchedMajors, SearchedMinors
<1>7. CASE EnterBlock \/ NextMinor
  <2>1. /\ AtMajor /\ call.op \in {"search", "minors"}
        /\ EnterBlock => major[call.maj].first # NULL /\ ~FrontFits
        /\ NextMinor => InMinors /\ call.min # NULL /\ GapAfter(call.min) < Room
    BY <1>7 DEF EnterBlock, NextMinor, InMinors, Searching, AtMajor
  <2>2. call'.op = "minors" /\ call'.maj = call.maj /\ call'.startedBet = call.startedBet
    BY <1>1, <1>7, SearchMoves
  <2>3. PICK B \in DOMAIN major : B = call.maj /\ call.size \in Nat
    BY <1>1, <2>1, InProgress
  <2>4. SearchedMajors'
    BY <1>1, <1>2, <1>3, <2>1, <2>2 DEF SearchedMajors
  <2>5. PICK e : e = IF call'.min = NULL THEN EndOfMajor(B) ELSE call'.min
    OBVIOUS
  <2>6. NoGapBelow(B, e)
    <3>1. CASE EnterBlock
      <4>1. e = major[B].first /\ ~(FrontGap(B) >= Room)
        BY <1>1, <2>1, <2>3, <2>5, <3>1, SearchMoves DEF FrontFits
      <4> QED BY <1>1, <2>3, <4>1, FrontPassed
    <3>2. CASE NextMinor
      <4>1. call.min \in MinorsOf(B) /\ minor[call.min].block = B
        BY <1>1, <2>1, <2>3, <3>2 DEF IInv, CallType, CallSound, InMinors, MinorsOf
      <4>2. call'.min = minor[call.min].next
        BY <1>1, <3>2, SearchMoves
      <4>3. e - EndOfMinor(call.min) < Room
        BY <2>1, <2>5, <3>2, <4>1, <4>2 DEF GapAfter
      <4>4. e \in Nat
        <5>1. EndOfMajor(B) \in Nat
          BY <1>1, MinorsPlaced
        <5>2. minor[call.min].next \in Nat
          BY <1>1, <4>1 DEF HeapSound, MinorsTyped, MinorsOf
        <5> QED BY <2>5, <4>2, <5>1, <5>2
      <4>5. NoGapBelow(B, call.min)
        BY <1>1, <2>1, <2>3, <3>2 DEF SearchedMinors, InMinors
      <4> QED BY <1>1, <2>3, <4>1, <4>3, <4>4, <4>5, GapPassed
    <3> QED BY <1>7, <3>1, <3>2
  <2>7. SearchedMinors'
    <3>1. NoGapBelow(B, e)'
      BY <1>4, <2>6
    <3>2. EndOfMajor(B)' = EndOfMajor(B)
      BY <1>2 DEF EndOfMajor
    <3>3. e = IF call'.min = NULL THEN EndOfMajor(B)' ELSE call'.min
      BY <2>5, <3>2
    <3> QED BY <2>2, <2>3, <3>1, <3>3 DEF SearchedMinors
  <2> QED BY <2>4, <2>7
<1> QED BY <1>5, <1>6, <1>7

\* The steps that ask for pages, whether they get them or not.
LEMMA GrowthCounted ==
    ASSUME SearchInv, CreateRoot \/ Case1Grow \/ Case5Grow
    PROVE  UsageCounted' /\ SearchedMajors' /\ SearchedMinors'
<1>1. IInv /\ UsageCounted /\ HeapSound
  BY DEF SearchInv, IInv
<1>2. call \in [op : {"idle", "start", "search", "fresh", "minors", "copy", "halted"},
                req : Nat, size : Nat, bestSize : Int, startedBet : BOOLEAN,
                maj : DOMAIN major \cup {NULL},
                min : DOMAIN minor \cup {NULL}, old : DOMAIN minor \cup {NULL}]
  BY <1>1 DEF IInv, CallType
<1>3. CASE HeapExhausted
  <2>1. call'.op = "halted" /\ UNCHANGED <<major, minor>>
    BY <1>3 DEF HeapExhausted, Idle, heap
  <2>2. UsageCounted'
    BY <1>1, <2>1 DEF UsageCounted, Free, FreeBytes, Taken, EndOfMajor, EndOfMinor, MinorsOf
  <2> QED BY <2>1, <2>2 DEF SearchedMajors, SearchedMinors
<1>4. CASE ~HeapExhausted
  <2>1. PICK N : N = heap_location * PageSize
    OBVIOUS
  <2>2. PICK last \in DOMAIN major \cup {NULL} :
            /\ AppendMajor(last) /\ PagesLeft(PagesFor(call.size)) /\ UNCHANGED minor
            /\ IF last = NULL THEN DOMAIN major = {} ELSE major[last].next = NULL
            /\ l_memRoot' = IF last = NULL THEN heap_location * PageSize ELSE l_memRoot
            /\ call'.op \in {"start", "fresh"} \/ (Case5Grow /\ call'.op = "search")
    <3>1. CASE CreateRoot
      <4>1. l_memRoot = NULL /\ DOMAIN major = {}
        BY <1>1, <3>1, PointersLead DEF CreateRoot
      <4> QED BY <1>4, <3>1, <4>1 DEF CreateRoot
    <3>2. CASE Case1Grow
      <4>1. AtMajor
        BY <3>2 DEF Case1Grow, Searching, AtMajor
      <4>2. call.maj \in DOMAIN major /\ call.maj # NULL
        BY <1>1, <4>1, InProgress DEF HeapSound, MajorsTyped
      <4>3. call'.op = "fresh"
        BY <1>2, <1>4, <3>2 DEF Case1Grow, ConsiderBet
      <4> QED BY <1>4, <3>2, <4>2, <4>3 DEF Case1Grow
    <3>3. CASE Case5Grow
      <4>1. AtMajor
        BY <3>3 DEF Case5Grow, BlockFull, AtMajor
      <4>2. call.maj \in DOMAIN major /\ call.maj # NULL
        BY <1>1, <4>1, InProgress DEF HeapSound, MajorsTyped
      <4>3. call'.op = "search"
        BY <1>2, <1>4, <3>3 DEF Case5Grow
      <4> QED BY <1>4, <3>3, <4>2, <4>3 DEF Case5Grow
    <3> QED BY <3>1, <3>2, <3>3
  <2>3. /\ UsageCounted'
        /\ DOMAIN major' = DOMAIN major \cup {N}
        /\ \A C \in DOMAIN major : /\ EndOfMajor(C)' = EndOfMajor(C)
                                   /\ MinorsOf(C)' = MinorsOf(C)
                                   /\ C < N
    BY <1>1, <1>2, <2>1, <2>2, AppendCounted
  <2>4. SearchedMinors'
    BY <2>2 DEF SearchedMinors
  <2>5. ASSUME Case5Grow, call'.op = "search" PROVE SearchedMajors'
    <3>1. call'.size = call.size /\ call'.maj = N
      BY <1>2, <1>4, <2>1, <2>5 DEF Case5Grow
    <3>2. ASSUME NEW M \in DOMAIN major', M < call'.maj PROVE ~HasGap(M)'
      <4>1. M \in DOMAIN major
        <5>1. N \in Nat
          BY <1>1, <2>1, NewRun
        <5> QED BY <2>3, <3>1, <3>2, <5>1
      <4>2. HasGap(M)' <=> HasGap(M)
        BY <2>2, <2>3, <3>1, <4>1, SameGaps DEF EndOfMinor
      <4> QED BY <2>5, <4>1, <4>2, FullWhenGrowing
    <3> QED BY <3>2 DEF SearchedMajors
  <2>6. call'.op \in {"start", "fresh"} => SearchedMajors'
    BY DEF SearchedMajors
  <2> QED BY <2>2, <2>3, <2>4, <2>5, <2>6
<1> QED BY <1>3, <1>4

\* What every other step leaves: the counters agree with the bytes, nothing more was
\* gone through, no major is added and the kernel goes on.
Calm ==
    /\ UsageCounted' /\ SearchedMajors' /\ SearchedMinors'
    /\ DOMAIN major' \subseteq DOMAIN major
    /\ call'.op = "halted" => call.op = "halted"

\* Headers that keep their extent keep the bytes and the counters.
LEMMA CountersStay ==
    ASSUME UsageCounted, UNCHANGED major, DOMAIN minor' = DOMAIN minor,
           \A x \in DOMAIN minor : minor'[x].block = minor[x].block
                                   /\ minor'[x].size = minor[x].size
    PROVE  UsageCounted'
<1>1. ASSUME NEW C \in DOMAIN major PROVE FreeBytes(C)' = FreeBytes(C)
  <2>1. MinorsOf(C)' = MinorsOf(C) /\ EndOfMajor(C)' = EndOfMajor(C)
    BY DEF MinorsOf, EndOfMajor
  <2>2. \A m \in MinorsOf(C) : EndOfMinor(m)' = EndOfMinor(m)
    BY DEF MinorsOf, EndOfMinor
  <2> QED BY <2>1, <2>2, SameBytes
<1> QED BY <1>1 DEF UsageCounted, Free

\* The steps of a call other than those that ask for pages, and the calls that take one step.
LEMMA CalmSteps ==
    ASSUME SearchInv, [Next]_vars, ~(CreateRoot \/ Case1Grow \/ Case5Grow)
    PROVE  Calm
<1>1. IInv /\ UsageCounted /\ SearchedMajors /\ SearchedMinors /\ HeapSound
  BY DEF SearchInv, IInv
<1>2. ASSUME NEW req, NEW old, call' = Starting(req, old), UNCHANGED <<heap, heap_location>>
      PROVE  Calm
  <2>1. UNCHANGED <<major, minor>> /\ call'.op = "start"
    BY <1>2 DEF heap, Starting, Idle
  <2> QED BY <1>1, <2>1, CountersStay DEF Calm, SearchedMajors, SearchedMinors
<1>3. CASE \/ StartSearch \/ Case1Hop \/ Case1Restart \/ Case5Hop \/ Case5Restart
           \/ EnterBlock \/ NextMinor
  <2>1. UNCHANGED <<major, minor>> /\ call'.op # "halted"
    BY <1>1, <1>3, SearchMoves
  <2> QED BY <1>1, <1>3, <2>1, CountersStay, SearchGoesOn DEF Calm
<1>4. CASE Case2 \/ Case3 \/ Case4End \/ Case4Between
  <2>1. AtMajor /\ \E m, p, n \in Nat : Fits(m, p, n, call.maj) /\ Place(m, p, n)
    BY <1>1, <1>4, PlacesFit
  <2>2. PICK m, p, n \in Nat : Fits(m, p, n, call.maj) /\ Place(m, p, n)
    BY <2>1
  <2>3. UsageCounted'
    BY <1>1, <2>1, <2>2, PlaceCounted
  <2>4. call'.op \in {"idle", "copy"} /\ DOMAIN major' = DOMAIN major
    BY <2>2 DEF Place, Returned, Idle, LinkedMinors
  <2> QED BY <2>3, <2>4 DEF Calm, SearchedMajors, SearchedMinors
<1>5. CASE (\E m \in DOMAIN minor : Kfree(m)) \/ ReallocRelease
  <2>1. PICK m \in DOMAIN minor : FreeMinor(m) /\ call'.op = "idle"
    BY <1>1, <1>5 DEF Kfree, ReallocRelease, IInv, CallSound, Idle
  <2> QED BY <1>1, <2>1, FreeCounted DEF Calm, SearchedMajors, SearchedMinors
<1>6. ASSUME NEW m \in DOMAIN minor, NEW size \in ReqSizes, ReallocInPlace(m, size)
      PROVE  Calm
  <2>1. /\ UNCHANGED <<major, call>> /\ call.op = "idle"
        /\ minor' = [minor EXCEPT ![m].req_size = size]
    BY <1>6 DEF ReallocInPlace
  <2>2. \A x \in DOMAIN minor : minor[x] \in [prev : Nat, next : Nat, block : DOMAIN major,
                                              size : Nat, req_size : Nat]
    BY <1>1 DEF HeapSound, MinorsTyped
  <2>3. /\ DOMAIN minor' = DOMAIN minor
        /\ \A x \in DOMAIN minor : minor'[x].block = minor[x].block
                                   /\ minor'[x].size = minor[x].size
    BY <1>1, <2>1, <2>2
  <2> QED BY <1>1, <2>1, <2>3, CountersStay DEF Calm, SearchedMajors, SearchedMinors
<1>7. CASE UNCHANGED vars
  <2>1. UNCHANGED <<major, minor, call>>
    BY <1>7 DEF vars
  <2>2. UsageCounted'
    BY <1>1, <2>1, CountersStay
  <2>3. SearchedMajors' /\ SearchedMinors'
    BY <1>1, <2>1 DEF SearchedMajors, SearchedMinors, HasGap, NoGapBelow, MinorsOf,
                      EndOfMajor, EndOfMinor, Room
  <2> QED BY <2>1, <2>2, <2>3 DEF Calm
<1> QED
  BY <1>2, <1>3, <1>4, <1>5, <1>6, <1>7 DEF Next, MallocStep, Malloc, ReallocGrow, Halted

\* The counters agree with the bytes, and what was searched has no gap, from the start on.
LEMMA SearchInvariant == Spec => []SearchInv
<1>1. Init => SearchInv
  BY IInvInit DEF Init, SearchInv, UsageCounted, SearchedMajors, SearchedMinors, Idle
<1>2. SearchInv /\ [Next]_vars => SearchInv'
  BY IInvStep, GrowthCounted, CalmSteps DEF SearchInv, Calm
<1> QED BY <1>1, <1>2, PTL DEF Spec

\* The number CASE 1 and the best bet go by, size less usage, is at every moment the
\* number of bytes of the major that no header and no allocation occupies.
THEOREM UsageStaysCounted == Spec => []UsageCounted
<1>1. SearchInv => UsageCounted
  BY DEF SearchInv
<1> QED BY <1>1, SearchInvariant, PTL

\* malloc asks for pages, and the kernel halts for want of them, only when no major
\* has a gap for the request: the counters turn away no major that has one, and the
\* walk through the minors of the others overlooks none.
THEOREM GrowsWhenFullOnly == Spec => GrowsOnlyWhenFull
<1>1. ASSUME SearchInv, [Next]_vars
      PROVE  [(~(DOMAIN major' \subseteq DOMAIN major)
                  \/ (call.op # "halted" /\ call'.op = "halted"))
                => \A M \in DOMAIN major : ~HasGap(M)]_vars
  BY <1>1, FullWhenGrowing, CalmSteps DEF Calm
<1> QED BY <1>1, SearchInvariant, PTL DEF Spec, GrowsOnlyWhenFull

----------------------------------------------------------------------------
(* Induction.  The library's theorems on it take a predicate as a parameter;  *)
(* least elements of sets do as well, and need none.                        *)

\* A set of natural numbers with an element has a least one.
LEMMA LeastNumber ==
    ASSUME NEW T, T \subseteq Nat, T # {}
    PROVE  \E n \in T : \A k \in T : n <= k
<1>1. PICK n \in T : \A k \in T : ~(<<k, n>> \in OpToRel(<, Nat))
  BY NatLessThanWellFounded, WFMin
<1>2. ASSUME NEW k \in T PROVE n <= k
  <2>1. k \in Nat /\ n \in Nat
    OBVIOUS
  <2>2. ~(<<k, n>> \in OpToRel(<, Nat))
    BY <1>1
  <2>3. ~(k < n)
    BY <2>1, <2>2 DEF OpToRel
  <2> QED BY <2>1, <2>3
<1> QED BY <1>2

\* f is defined on S by recursion: base on B, elsewhere G of its value at pred.
Recursive(f, S, B, base, G, pred) ==
    \A s \in S : f[s] = IF s \in B THEN base[s] ELSE G[s][f[pred[s]]]

\* pred lowers the rank of what is not in B.
Descends(pred, S, B, rank) == \A s \in S \ B : rank[pred[s]] < rank[s]

\* A value for every element of S is defined by recursion on the element that
\* pred leads to, as long as that lowers a bounded rank.
LEMMA RecursionDefines ==
    ASSUME NEW S, NEW V, NEW N \in Nat,
           NEW rank \in [S -> 0..N], NEW pred \in [S -> S],
           NEW B \in SUBSET S, NEW base \in [S -> V], NEW G \in [S -> [V -> V]],
           Descends(pred, S, B, rank)
    PROVE  \E f \in [S -> V] : Recursive(f, S, B, base, G, pred)
<1> USE DEF Descends
<1> DEFINE Solves(f, n) ==
              \A s \in S : rank[s] <= n =>
                  f[s] = IF s \in B THEN base[s] ELSE G[s][f[pred[s]]]
           Bad == {n \in Nat : ~\E f \in [S -> V] : Solves(f, n)}
<1>1. \E f \in [S -> V] : Solves(f, 0)
  <2>1. \A s \in S : rank[s] <= 0 => s \in B
    OBVIOUS
  <2> QED BY <2>1
<1>2. ASSUME NEW n \in Nat, NEW f \in [S -> V], Solves(f, n)
      PROVE  \E h \in [S -> V] : Solves(h, n + 1)
  <2> DEFINE h == [s \in S |-> IF rank[s] <= n THEN f[s]
                               ELSE IF s \in B THEN base[s] ELSE G[s][f[pred[s]]]]
  <2>1. h \in [S -> V]
    OBVIOUS
  <2>2. ASSUME NEW s \in S, rank[s] <= n + 1
        PROVE  h[s] = IF s \in B THEN base[s] ELSE G[s][h[pred[s]]]
    <3>1. CASE s \in B
      BY <3>1, <1>2
    <3>2. CASE s \notin B
      <4>1. rank[pred[s]] < rank[s] /\ rank[s] \in Nat /\ rank[pred[s]] \in Nat /\ pred[s] \in S
        BY <3>2
      <4>2. rank[pred[s]] <= n
        BY <4>1, <2>2
      <4>3. h[pred[s]] = f[pred[s]]
        BY <4>1, <4>2
      <4>4. h[s] = G[s][f[pred[s]]]
        BY <3>2, <1>2
      <4> QED BY <4>3, <4>4, <3>2
    <3> QED BY <3>1, <3>2
  <2>3. Solves(h, n + 1)
    BY <2>2
  <2> QED BY <2>1, <2>3
<1> HIDE DEF Solves
<1>3. Bad = {}
  <2> SUFFICES ASSUME Bad # {} PROVE FALSE
    OBVIOUS
  <2>1. PICK n \in Bad : \A k \in Bad : n <= k
    <3>1. Bad \subseteq Nat
      OBVIOUS
    <3> HIDE DEF Bad
    <3> QED BY <3>1, LeastNumber
  <2>2. n \in Nat /\ n # 0
    BY <1>1
  <2>3. n - 1 \in Nat /\ n - 1 \notin Bad /\ (n - 1) + 1 = n
    BY <2>1, <2>2
  <2>4. PICK f \in [S -> V] : Solves(f, n - 1)
    BY <2>3
  <2>5. \E h \in [S -> V] : Solves(h, n)
    BY <2>3, <2>4, <1>2
  <2> QED BY <2>5
<1>4. PICK f \in [S -> V] : Solves(f, N)
  BY <1>3
<1>5. \A s \in S : rank[s] <= N
  OBVIOUS
<1> QED BY <1>4, <1>5 DEF Solves, Recursive

----------------------------------------------------------------------------
(* Sums over a finite set.                                                 *)

\* One of the elements, the way a sum picks them.
Any(S) == CHOOSE x \in S : TRUE

\* sums holds the sums of f over the subsets of S.
Sums(sums, f, S) ==
    sums = [s \in SUBSET S |-> IF s = {} THEN 0 ELSE f[Any(s)] + sums[s \ {Any(s)}]]

\* There are such sums for every finite set.
LEMMA SumsExist ==
    ASSUME NEW S, IsFiniteSet(S), NEW f, \A x \in S : f[x] \in Int
    PROVE  \E sums \in [SUBSET S -> Int] : Sums(sums, f, S)
<1> DEFINE rank == [s \in SUBSET S |-> Cardinality(s)]
           pred == [s \in SUBSET S |-> s \ {Any(s)}]
           base == [s \in SUBSET S |-> 0]
           B == {{}}
           U == SUBSET S
           N == Cardinality(S)
           G == [s \in SUBSET S |-> [v \in Int |-> IF s = {} THEN 0 ELSE f[Any(s)] + v]]
<1>0. \A s \in SUBSET S : s # {} => Any(s) \in s
  BY DEF Any
<1>1. rank \in [U -> 0..N] /\ N \in Nat
  BY FS_CardinalityType, FS_Subset
<1>2. pred \in [U -> U]
  OBVIOUS
<1>3. G \in [U -> [Int -> Int]]
  BY <1>0
<1>4. base \in [U -> Int]
  OBVIOUS
<1>5. Descends(pred, U, B, rank)
  <2> SUFFICES \A s \in U \ B : rank[pred[s]] < rank[s]
    BY DEF Descends
  <2> TAKE s \in U \ B
  <2>1. IsFiniteSet(s)
    BY FS_Subset
  <2>2. Cardinality(s \ {Any(s)}) = Cardinality(s) - 1 /\ Cardinality(s) \in Nat
    BY <2>1, <1>0, FS_RemoveElement, FS_CardinalityType
  <2> QED BY <2>2
<1>6. B \in SUBSET U
  OBVIOUS
<1>7. PICK sums \in [U -> Int] : Recursive(sums, U, B, base, G, pred)
  <2> HIDE DEF rank, pred, base, G, B, U, N
  <2> QED BY <1>1, <1>2, <1>3, <1>4, <1>5, <1>6, RecursionDefines
<1>8. \A s \in SUBSET S : sums[s] = IF s = {} THEN 0 ELSE f[Any(s)] + sums[s \ {Any(s)}]
  <2> TAKE s \in SUBSET S
  <2>1. CASE s = {}
    BY <1>7, <2>1 DEF Recursive, base
  <2>2. CASE s # {}
    <3>1. sums[s \ {Any(s)}] \in Int
      OBVIOUS
    <3> QED BY <1>7, <2>2, <3>1 DEF Recursive, G, pred
  <2> QED BY <2>1, <2>2
<1> QED BY <1>8 DEF Sums

\* A finite set on which something holds has a smallest such subset.
LEMMA SmallestSet ==
    ASSUME NEW C, C # {}, \A s \in C : IsFiniteSet(s)
    PROVE  \E s \in C : \A x \in s : s \ {x} \notin C
<1> DEFINE T == {Cardinality(s) : s \in C}
<1>1. T \subseteq Nat /\ T # {}
  BY FS_CardinalityType
<1>2. PICK n \in T : \A k \in T : n <= k
  <2> HIDE DEF T
  <2> QED BY <1>1, LeastNumber
<1>3. PICK s \in C : n = Cardinality(s)
  BY <1>2
<1>4. ASSUME NEW x \in s, s \ {x} \in C PROVE FALSE
  <2>1. Cardinality(s \ {x}) \in T
    BY <1>4
  <2>2. Cardinality(s \ {x}) = n - 1 /\ n \in Nat
    BY <1>3, FS_RemoveElement, FS_CardinalityType
  <2>3. n <= n - 1
    BY <1>2, <2>1, <2>2
  <2> QED BY <2>2, <2>3
<1> QED BY <1>4

\* The sum over a set is the same in whichever larger set it is worked out.
LEMMA SumsAgree ==
    ASSUME NEW S, NEW T, IsFiniteSet(S), IsFiniteSet(T), NEW f, NEW g, NEW h,
           Sums(g, f, S), Sums(h, f, T),
           NEW s, s \subseteq S, s \subseteq T
    PROVE  g[s] = h[s]
<1> DEFINE C == {t \in SUBSET s : g[t] # h[t]}
<1>1. C = {}
  <2> SUFFICES ASSUME C # {} PROVE FALSE
    OBVIOUS
  <2>1. \A t \in C : IsFiniteSet(t)
    BY FS_Subset
  <2>2. PICK t \in C : \A x \in t : t \ {x} \notin C
    <3> HIDE DEF C
    <3> QED BY <2>1, SmallestSet
  <2>3. t \in SUBSET S /\ t \in SUBSET T
    OBVIOUS
  <2>4. g[t] = IF t = {} THEN 0 ELSE f[Any(t)] + g[t \ {Any(t)}]
    BY <2>3 DEF Sums
  <2>5. h[t] = IF t = {} THEN 0 ELSE f[Any(t)] + h[t \ {Any(t)}]
    BY <2>3 DEF Sums
  <2>6. t # {} => Any(t) \in t
    BY DEF Any
  <2>7. t # {} => g[t \ {Any(t)}] = h[t \ {Any(t)}]
    BY <2>2, <2>6
  <2>8. g[t] = h[t]
    BY <2>4, <2>5, <2>7
  <2> QED BY <2>8
<1> QED BY <1>1

\* SumFunctionOnSet is the sum so defined.
LEMMA SumSolves ==
    ASSUME NEW S, IsFiniteSet(S), NEW f, \A x \in S : f[x] \in Int,
           NEW sums, Sums(sums, f, S)
    PROVE  SumFunctionOnSet(f, S) = sums[S]
<1> DEFINE it == CHOOSE g : Sums(g, f, S)
<1>1. Sums(it, f, S)
  OBVIOUS
<1>2. SumFunctionOnSet(f, S) = it[S]
  BY DEF SumFunctionOnSet, FoldFunctionOnSet, MapThenFoldSet, Sums, Any
<1> HIDE DEF it
<1> QED BY <1>1, <1>2, SumsAgree

\* A sum of integers is one.
LEMMA SumType ==
    ASSUME NEW S, IsFiniteSet(S), NEW f, \A x \in S : f[x] \in Int
    PROVE  SumFunctionOnSet(f, S) \in Int
<1>1. PICK sums \in [SUBSET S -> Int] : Sums(sums, f, S)
  BY SumsExist
<1> QED BY <1>1, SumSolves

\* Nothing adds up to zero.
LEMMA SumOfNone == ASSUME NEW f PROVE SumFunctionOnSet(f, {}) = 0
<1>1. IsFiniteSet({})
  BY FS_EmptySet
<1>2. PICK sums \in [SUBSET {} -> Int] : Sums(sums, f, {})
  BY <1>1, SumsExist
<1>3. sums[{}] = 0
  BY <1>2 DEF Sums
<1> QED BY <1>1, <1>2, <1>3, SumSolves

\* A sum takes one of its elements first.
LEMMA SumStarts ==
    ASSUME NEW S, IsFiniteSet(S), NEW f, \A x \in S : f[x] \in Int, S # {}
    PROVE  Any(S) \in S /\ SumFunctionOnSet(f, S) = f[Any(S)] + SumFunctionOnSet(f, S \ {Any(S)})
<1> DEFINE R == S \ {Any(S)}
<1>1. Any(S) \in S
  BY DEF Any
<1>2. IsFiniteSet(R)
  BY FS_RemoveElement
<1>3. PICK sums \in [SUBSET S -> Int] : Sums(sums, f, S)
  BY SumsExist
<1>4. PICK rest \in [SUBSET R -> Int] : Sums(rest, f, R)
  BY <1>2, SumsExist
<1>5. sums[S] = f[Any(S)] + sums[R]
  BY <1>3 DEF Sums
<1>6. sums[R] = rest[R]
  BY <1>2, <1>3, <1>4, SumsAgree
<1>7. SumFunctionOnSet(f, S) = sums[S] /\ SumFunctionOnSet(f, R) = rest[R]
  BY <1>2, <1>3, <1>4, SumSolves
<1> QED BY <1>1, <1>5, <1>6, <1>7

\* It may take any of them first.
LEMMA SumWithout ==
    ASSUME NEW S, IsFiniteSet(S), NEW f, \A x \in S : f[x] \in Int, NEW x \in S
    PROVE  SumFunctionOnSet(f, S) = f[x] + SumFunctionOnSet(f, S \ {x})
<1> DEFINE Total(T) == SumFunctionOnSet(f, T)
           C == {T \in SUBSET S : \E y \in T : Total(T) # f[y] + Total(T \ {y})}
<1>1. C = {}
  <2> SUFFICES ASSUME C # {} PROVE FALSE
    OBVIOUS
  <2>1. \A T \in C : IsFiniteSet(T)
    BY FS_Subset
  <2>2. PICK T \in C : \A z \in T : T \ {z} \notin C
    <3> HIDE DEF C
    <3> QED BY <2>1, SmallestSet
  <2>3. PICK y \in T : Total(T) # f[y] + Total(T \ {y})
    OBVIOUS
  <2> DEFINE c == Any(T)
  <2>4. IsFiniteSet(T) /\ T \in SUBSET S
    BY <2>1
  <2>5. c \in T /\ Total(T) = f[c] + Total(T \ {c})
    BY <2>4, SumStarts
  <2>6. c # y
    BY <2>3, <2>5
  <2>7. Total(T \ {c}) = f[y] + Total((T \ {c}) \ {y})
    <3>1. T \ {c} \notin C /\ y \in T \ {c} /\ T \ {c} \in SUBSET S
      BY <2>2, <2>4, <2>5, <2>6
    <3> QED BY <3>1
  <2>8. Total(T \ {y}) = f[c] + Total((T \ {y}) \ {c})
    <3>1. T \ {y} \notin C /\ c \in T \ {y} /\ T \ {y} \in SUBSET S
      BY <2>2, <2>4, <2>5, <2>6
    <3> QED BY <3>1
  <2>9. (T \ {c}) \ {y} = (T \ {y}) \ {c}
    OBVIOUS
  <2>10. Total((T \ {c}) \ {y}) \in Int
    <3>1. IsFiniteSet((T \ {c}) \ {y}) /\ (T \ {c}) \ {y} \in SUBSET S
      BY <2>4, FS_Subset
    <3> QED BY <3>1, SumType
  <2>11. f[c] \in Int /\ f[y] \in Int
    BY <2>4, <2>5
  <2> HIDE DEF Total, c
  <2> QED BY <2>3, <2>5, <2>7, <2>8, <2>9, <2>10, <2>11
<1> QED BY <1>1

\* A sum only depends on what it adds up.
LEMMA SumOfSame ==
    ASSUME NEW S, IsFiniteSet(S), NEW f, NEW g, \A x \in S : f[x] = g[x] /\ f[x] \in Int
    PROVE  SumFunctionOnSet(f, S) = SumFunctionOnSet(g, S)
<1> DEFINE C == {T \in SUBSET S : SumFunctionOnSet(f, T) # SumFunctionOnSet(g, T)}
<1>1. C = {}
  <2> SUFFICES ASSUME C # {} PROVE FALSE
    OBVIOUS
  <2>1. \A T \in C : IsFiniteSet(T)
    BY FS_Subset
  <2>2. PICK T \in C : \A z \in T : T \ {z} \notin C
    <3> HIDE DEF C
    <3> QED BY <2>1, SmallestSet
  <2>3. T # {}
    BY SumOfNone
  <2>4. IsFiniteSet(T) /\ T \in SUBSET S
    BY <2>1
  <2>5. Any(T) \in T /\ SumFunctionOnSet(f, T) = f[Any(T)] + SumFunctionOnSet(f, T \ {Any(T)})
    BY <2>3, <2>4, SumStarts
  <2>6. SumFunctionOnSet(g, T) = g[Any(T)] + SumFunctionOnSet(g, T \ {Any(T)})
    BY <2>3, <2>4, SumStarts
  <2>7. SumFunctionOnSet(f, T \ {Any(T)}) = SumFunctionOnSet(g, T \ {Any(T)})
    BY <2>2, <2>4, <2>5
  <2> QED BY <2>4, <2>5, <2>6, <2>7
<1> QED BY <1>1

\* f and g give the same numbers on S.
SameNumbers(f, g, S) == \A y \in S : f[y] = g[y] /\ f[y] \in Int

\* T is S with one more element.
OneMore(S, T, x) == x \notin S /\ T = S \cup {x}

\* One more element adds its value.
LEMMA SumGrows ==
    ASSUME NEW S, NEW T, NEW x, IsFiniteSet(S), OneMore(S, T, x), NEW f, NEW g,
           SameNumbers(f, g, S), g[x] \in Int
    PROVE  SumFunctionOnSet(g, T) = SumFunctionOnSet(f, S) + g[x]
<1>1. IsFiniteSet(T) /\ x \in T /\ T \ {x} = S
  BY FS_AddElement DEF OneMore
<1>2. \A y \in T : g[y] \in Int
  BY DEF SameNumbers, OneMore
<1>3. SumFunctionOnSet(g, T) = g[x] + SumFunctionOnSet(g, T \ {x})
  BY <1>1, <1>2, SumWithout
<1>4. SumFunctionOnSet(f, S) = SumFunctionOnSet(g, S)
  BY SumOfSame DEF SameNumbers
<1>5. SumFunctionOnSet(f, S) \in Int
  BY SumType DEF SameNumbers
<1>6. SumFunctionOnSet(g, T) = g[x] + SumFunctionOnSet(f, S)
  BY <1>1, <1>3, <1>4, Zenon
<1> QED BY <1>5, <1>6

\* A sum of natural numbers is one.
LEMMA SumNatural ==
    ASSUME NEW S, IsFiniteSet(S), NEW f, \A x \in S : f[x] \in Nat
    PROVE  SumFunctionOnSet(f, S) \in Nat
<1> DEFINE C == {T \in SUBSET S : SumFunctionOnSet(f, T) \notin Nat}
<1>1. C = {}
  <2> SUFFICES ASSUME C # {} PROVE FALSE
    OBVIOUS
  <2>1. \A T \in C : IsFiniteSet(T)
    BY FS_Subset
  <2>2. PICK T \in C : \A z \in T : T \ {z} \notin C
    <3> HIDE DEF C
    <3> QED BY <2>1, SmallestSet
  <2>3. T # {}
    BY SumOfNone
  <2>4. IsFiniteSet(T) /\ T \in SUBSET S
    BY <2>1
  <2>5. Any(T) \in T /\ SumFunctionOnSet(f, T) = f[Any(T)] + SumFunctionOnSet(f, T \ {Any(T)})
    BY <2>3, <2>4, SumStarts
  <2>6. SumFunctionOnSet(f, T \ {Any(T)}) \in Nat
    BY <2>2, <2>4, <2>5
  <2> QED BY <2>4, <2>5, <2>6
<1> QED BY <1>1

----------------------------------------------------------------------------
(* The counters and the sums.                                              *)

\* What is added up.
Footprints == [m \in DOMAIN minor |-> Footprint(m)]
MinorSizes == [m \in DOMAIN minor |-> minor[m].size]
MajorSizes == [M \in DOMAIN major |-> major[M].size]

Finite == IsFiniteSet(DOMAIN minor) /\ IsFiniteSet(DOMAIN major)

UsageExact == \A M \in DOMAIN major :
    major[M].usage = MajorSize + SumFunctionOnSet(Footprints, MinorsOf(M))
TotalsExact ==
    /\ l_inuse = SumFunctionOnSet(MinorSizes, DOMAIN minor)
    /\ l_allocated = SumFunctionOnSet(MajorSizes, DOMAIN major)

\* The heap is finite, and its counters are exact.
Accounted == Finite /\ UsageExact /\ TotalsExact

\* That is what AccountsExact says.
LEMMA AccountedExact == Accounted => AccountsExact
BY DEF Accounted, UsageExact, TotalsExact, AccountsExact, Footprints, MinorSizes, MajorSizes,
       SumFunction

\* What is added up are numbers.
LEMMA SizesTyped ==
    ASSUME HeapSound, Finite
    PROVE  /\ \A m \in DOMAIN minor : /\ MinorSizes[m] = minor[m].size
                                      /\ Footprints[m] = minor[m].size + MinorSize
                                      /\ Footprints[m] \in Nat /\ MinorSizes[m] \in Nat
           /\ \A M \in DOMAIN major : MajorSizes[M] = major[M].size /\ MajorSizes[M] \in Nat
           /\ \A M : IsFiniteSet(MinorsOf(M)) /\ MinorsOf(M) \subseteq DOMAIN minor
<1>1. \A m \in DOMAIN minor : minor[m].size \in Nat
  BY DEF HeapSound, MinorsTyped
<1>2. \A M \in DOMAIN major : major[M].size \in Nat
  BY DEF HeapSound, MajorsTyped
<1>3. \A M : MinorsOf(M) \subseteq DOMAIN minor
  BY DEF MinorsOf
<1>4. \A M : IsFiniteSet(MinorsOf(M))
  BY <1>3, FS_Subset DEF Finite
<1> QED BY <1>1, <1>2, <1>3, <1>4, Constants DEF MinorSizes, MajorSizes, Footprints, Footprint

\* Headers that keep their sizes and stay where they are keep the accounts.
LEMMA AccountsStay ==
    ASSUME HeapSound, Accounted, UNCHANGED <<major, l_inuse, l_allocated>>,
           DOMAIN minor' = DOMAIN minor,
           \A x \in DOMAIN minor : minor'[x].block = minor[x].block
                                   /\ minor'[x].size = minor[x].size
    PROVE  Accounted'
<1>1. Finite' /\ Finite
  BY DEF Accounted, Finite
<1>2. Footprints' = Footprints /\ MinorSizes' = MinorSizes /\ MajorSizes' = MajorSizes
  BY DEF Footprints, Footprint, MinorSizes, MajorSizes
<1>3. \A M : MinorsOf(M)' = MinorsOf(M)
  BY DEF MinorsOf
<1> QED BY <1>1, <1>2, <1>3 DEF Accounted, UsageExact, TotalsExact

\* A new major adds its size to the total; it has nothing in it but its header.
LEMMA AppendAccounted ==
    ASSUME HeapSound, Accounted, call.size \in Nat, NEW last \in DOMAIN major \cup {NULL},
           IF last = NULL THEN DOMAIN major = {} ELSE major[last].next = NULL,
           PagesLeft(PagesFor(call.size)),
           AppendMajor(last), UNCHANGED <<minor, l_inuse>>,
           l_memRoot' = IF last = NULL THEN heap_location * PageSize ELSE l_memRoot
    PROVE  Accounted'
<1>0. PICK N : N = heap_location * PageSize
  OBVIOUS
<1>1. /\ HeapSound' /\ DOMAIN major' = DOMAIN major \cup {N} /\ N \notin DOMAIN major
      /\ MinorsOf(N)' = {} /\ major'[N].usage = MajorSize
      /\ \A C \in DOMAIN major : /\ MinorsOf(C)' = MinorsOf(C)
                                 /\ major'[C].usage = major[C].usage
                                 /\ major'[C].size = major[C].size
  BY <1>0, AppendSound
<1>2. l_allocated' = l_allocated + major'[N].size
  <2>1. major'[N] = NewMajor(call.size, last)
    BY <1>0, <1>1 DEF AppendMajor
  <2> QED BY <1>0, <2>1 DEF AppendMajor
<1>3. Finite /\ UsageExact /\ TotalsExact
  BY DEF Accounted
<1>4. Finite'
  <2>1. IsFiniteSet(DOMAIN major \cup {N})
    BY <1>3, FS_AddElement DEF Finite
  <2> QED BY <1>1, <1>3, <2>1 DEF Finite
<1>5. Footprints' = Footprints /\ MinorSizes' = MinorSizes
  BY DEF Footprints, Footprint, MinorSizes
<1>6. UsageExact'
  <2>1. SumFunctionOnSet(Footprints, {}) = 0
    BY SumOfNone
  <2>2. ASSUME NEW M \in DOMAIN major'
        PROVE  major'[M].usage = MajorSize + SumFunctionOnSet(Footprints, MinorsOf(M)')
    <3>1. CASE M = N
      <4>1. SumFunctionOnSet(Footprints, MinorsOf(M)') = 0
        BY <1>1, <2>1, <3>1, Zenon
      <4> QED BY <1>1, <3>1, <4>1, Constants
    <3>2. CASE M # N
      BY <1>1, <1>3, <3>2 DEF UsageExact
    <3> QED BY <3>1, <3>2
  <2> QED BY <1>5, <2>2 DEF UsageExact
<1>7. l_inuse' = SumFunctionOnSet(MinorSizes', DOMAIN minor')
  BY <1>3, <1>5 DEF TotalsExact
<1>8. l_allocated' = SumFunctionOnSet(MajorSizes', DOMAIN major')
  <2>1. /\ \A C \in DOMAIN major : MajorSizes'[C] = MajorSizes[C] /\ MajorSizes[C] \in Int
        /\ MajorSizes'[N] = major'[N].size
    BY <1>1, <1>3, SizesTyped DEF MajorSizes
  <2>2. major'[N].size \in Int
    BY <1>1 DEF HeapSound, MajorsTyped
  <2>3. SumFunctionOnSet(MajorSizes', DOMAIN major')
          = SumFunctionOnSet(MajorSizes, DOMAIN major) + MajorSizes'[N]
    <3>1. PICK f, g, S, T : /\ f = MajorSizes /\ g = MajorSizes'
                            /\ S = DOMAIN major /\ T = DOMAIN major'
      OBVIOUS
    <3>2. IsFiniteSet(S) /\ OneMore(S, T, N)
      BY <1>1, <1>3, <3>1 DEF Finite, OneMore
    <3>3. g[N] \in Int /\ SameNumbers(f, g, S)
      BY <2>1, <2>2, <3>1 DEF SameNumbers
    <3>4. SumFunctionOnSet(g, T) = SumFunctionOnSet(f, S) + g[N]
      BY <3>2, <3>3, SumGrows
    <3> QED BY <3>1, <3>4
  <2> QED BY <1>1, <1>2, <1>3, <2>1, <2>3 DEF TotalsExact
<1> QED BY <1>4, <1>6, <1>7, <1>8 DEF Accounted, TotalsExact

\* Placing a minor adds what it takes to its major and its size to the total.
LEMMA PlaceAccounted ==
    ASSUME IInv, Accounted, AtMajor, NEW m \in Nat, NEW p \in Nat, NEW n \in Nat,
           Fits(m, p, n, call.maj), Place(m, p, n)
    PROVE  Accounted'
<1>1. PICK B \in DOMAIN major : B = call.maj
  BY InProgress
<1>2. Requested /\ HeapSound /\ call.size \in Nat /\ MinorSize \in Nat
  BY InProgress, Constants DEF IInv, CallSound
<1>3. /\ HeapSound' /\ DOMAIN minor' = DOMAIN minor \cup {m} /\ m \notin DOMAIN minor
      /\ DOMAIN major' = DOMAIN major
      /\ \A C \in DOMAIN major : major'[C].size = major[C].size
      /\ \A x \in DOMAIN minor : minor'[x].block = minor[x].block
  BY <1>1, <1>2, PlaceSound
<1>4. /\ minor'[m].block = B /\ minor'[m].size = call.size
      /\ \A x \in DOMAIN minor : minor'[x].size = minor[x].size
  BY <1>1, <1>3 DEF Place, LinkedMinors, IInv, HeapSound, MinorsTyped
<1>5. /\ MinorsOf(B)' = MinorsOf(B) \cup {m}
      /\ m \notin MinorsOf(B)
      /\ \A C \in DOMAIN major : C # B => MinorsOf(C)' = MinorsOf(C)
  BY <1>3, <1>4 DEF MinorsOf
<1>6. /\ \A C \in DOMAIN major :
            major'[C].usage = IF C = B THEN major[C].usage + Room ELSE major[C].usage
      /\ l_inuse' = l_inuse + call.size /\ l_allocated' = l_allocated
  BY <1>1 DEF Place, IInv, HeapSound, MajorsTyped
<1>7. Finite /\ UsageExact /\ TotalsExact
  BY DEF Accounted
<1>8. Finite'
  <2>1. IsFiniteSet(DOMAIN minor \cup {m})
    BY <1>7, FS_AddElement DEF Finite
  <2> QED BY <1>3, <1>7, <2>1 DEF Finite
<1>9. /\ Footprints'[m] = call.size + MinorSize /\ MinorSizes'[m] = call.size
      /\ \A x \in DOMAIN minor : /\ Footprints'[x] = Footprints[x] /\ Footprints[x] \in Nat
                                 /\ MinorSizes'[x] = MinorSizes[x] /\ MinorSizes[x] \in Nat
  BY <1>2, <1>3, <1>4, <1>7, SizesTyped DEF Footprints, Footprint, MinorSizes
<1>10. \A C : IsFiniteSet(MinorsOf(C)) /\ MinorsOf(C) \subseteq DOMAIN minor
  BY <1>2, <1>7, SizesTyped
<1>11. UsageExact'
  <2>1. PICK f, g : f = Footprints /\ g = Footprints'
    OBVIOUS
  <2>2. ASSUME NEW M \in DOMAIN major'
        PROVE  major'[M].usage = MajorSize + SumFunctionOnSet(g, MinorsOf(M)')
    <3>1. PICK S, T : S = MinorsOf(M) /\ T = MinorsOf(M)'
      OBVIOUS
    <3>2. IsFiniteSet(S) /\ SameNumbers(f, g, S)
      BY <1>9, <1>10, <2>1, <3>1 DEF SameNumbers
    <3>3. major[M].usage = MajorSize + SumFunctionOnSet(f, S)
      BY <1>3, <1>7, <2>1, <2>2, <3>1 DEF UsageExact
    <3>4. CASE M = B
      <4>1. OneMore(S, T, m) /\ g[m] \in Int /\ g[m] = Room
        BY <1>2, <1>5, <1>9, <2>1, <3>1, <3>4 DEF Room, OneMore
      <4>2. SumFunctionOnSet(g, T) = SumFunctionOnSet(f, S) + g[m]
        BY <3>2, <4>1, SumGrows
      <4>3. SumFunctionOnSet(f, S) \in Int
        BY <3>2, SumType DEF SameNumbers
      <4> QED BY <1>3, <1>6, <2>2, <3>1, <3>3, <3>4, <4>1, <4>2, <4>3, Constants
    <3>5. CASE M # B
      <4>1. T = S
        BY <1>3, <1>5, <2>2, <3>1, <3>5
      <4>2. SumFunctionOnSet(f, S) = SumFunctionOnSet(g, S)
        BY <3>2, SumOfSame DEF SameNumbers
      <4> QED BY <1>3, <1>6, <2>2, <3>1, <3>3, <3>5, <4>1, <4>2
    <3> QED BY <3>4, <3>5
  <2> QED BY <2>1, <2>2 DEF UsageExact
<1>12. l_inuse' = SumFunctionOnSet(MinorSizes', DOMAIN minor')
  <2>1. PICK f, g, S, T : /\ f = MinorSizes /\ g = MinorSizes'
                          /\ S = DOMAIN minor /\ T = DOMAIN minor'
    OBVIOUS
  <2>2. IsFiniteSet(S) /\ OneMore(S, T, m)
    BY <1>3, <1>7, <2>1 DEF Finite, OneMore
  <2>3. SameNumbers(f, g, S) /\ g[m] \in Int
    BY <1>2, <1>9, <2>1 DEF SameNumbers
  <2>4. SumFunctionOnSet(g, T) = SumFunctionOnSet(f, S) + g[m]
    BY <2>2, <2>3, SumGrows
  <2> QED BY <1>6, <1>7, <1>9, <2>1, <2>4 DEF TotalsExact
<1>13. l_allocated' = SumFunctionOnSet(MajorSizes', DOMAIN major')
  <2>1. MajorSizes' = MajorSizes
    BY <1>3 DEF MajorSizes
  <2> QED BY <1>3, <1>6, <1>7, <2>1 DEF TotalsExact
<1> QED BY <1>8, <1>11, <1>12, <1>13 DEF Accounted, TotalsExact

\* A minor that is freed takes them away again, and with the last one its major's size.
LEMMA FreeAccounted ==
    ASSUME IInv, Accounted, NEW m \in DOMAIN minor, FreeMinor(m)
    PROVE  Accounted'
<1>1. PICK B \in DOMAIN major : B = minor[m].block
  BY DEF IInv, HeapSound, MinorsTyped
<1>2. HeapSound /\ minor' = Unlinked(m) /\ l_inuse' = l_inuse - minor[m].size
  BY DEF IInv, FreeMinor
<1>3. /\ DOMAIN minor' = DOMAIN minor \ {m}
      /\ MinorsOf(B)' = MinorsOf(B) \ {m}
      /\ \A C \in DOMAIN major : C # B => MinorsOf(C)' = MinorsOf(C)
      /\ \A x \in DOMAIN minor' : minor'[x].size = minor[x].size
  <2>1. HeapSound /\ minor' = Unlinked(m)
    BY <1>2
  <2>2. /\ DOMAIN minor' = DOMAIN minor \ {m}
        /\ \A x \in DOMAIN minor' : /\ minor'[x].size = minor[x].size
                                    /\ minor'[x].block = minor[x].block
    BY <1>1, <2>1, UnlinkedMinors
  <2>3. MinorsOf(B)' = MinorsOf(B) \ {m}
    BY <1>1, <2>1, UnlinkedMinors
  <2>4. \A C \in DOMAIN major : C # B => MinorsOf(C)' = MinorsOf(C)
    BY <1>1, <2>2 DEF MinorsOf
  <2> QED BY <2>2, <2>3, <2>4
<1>4. Kept(B, m)
  BY <1>1, <1>2, FreeSound
<1>5. Finite /\ UsageExact /\ TotalsExact
  BY DEF Accounted
<1>6. Finite'
  <2>1. IsFiniteSet(DOMAIN minor \ {m}) /\ IsFiniteSet(DOMAIN major \ {B})
    BY <1>5, FS_RemoveElement DEF Finite
  <2> QED BY <1>3, <1>4, <1>5, <2>1 DEF Finite, Kept
<1>7. /\ \A x \in DOMAIN minor : /\ Footprints[x] = Footprint(x) /\ Footprints[x] \in Nat
                                 /\ MinorSizes[x] = minor[x].size /\ MinorSizes[x] \in Nat
      /\ \A x \in DOMAIN minor' : /\ Footprints'[x] = Footprints[x]
                                  /\ MinorSizes'[x] = MinorSizes[x]
  BY <1>2, <1>3, <1>5, SizesTyped DEF Footprints, Footprint, MinorSizes
<1>8. \A C : IsFiniteSet(MinorsOf(C)) /\ MinorsOf(C) \subseteq DOMAIN minor
  BY <1>2, <1>5, SizesTyped
<1>9. \A C \in DOMAIN major' : C \in DOMAIN major
  BY <1>4 DEF Kept
<1>10. UsageExact'
  <2>1. PICK f, g : f = Footprints' /\ g = Footprints
    OBVIOUS
  <2>2. ASSUME NEW M \in DOMAIN major'
        PROVE  major'[M].usage = MajorSize + SumFunctionOnSet(f, MinorsOf(M)')
    <3>1. PICK S, T : S = MinorsOf(M)' /\ T = MinorsOf(M)
      OBVIOUS
    <3>2. S \subseteq T /\ S \subseteq DOMAIN minor' /\ IsFiniteSet(S)
      <4>1. S \subseteq T /\ S \subseteq DOMAIN minor'
        BY <1>3, <1>9, <3>1 DEF MinorsOf
      <4> QED BY <1>8, <3>1, <4>1, FS_Subset
    <3>3. SameNumbers(f, g, S)
      BY <1>3, <1>7, <2>1, <3>2 DEF SameNumbers
    <3>4. major[M].usage = MajorSize + SumFunctionOnSet(g, T)
      BY <1>5, <1>9, <2>1, <2>2, <3>1 DEF UsageExact
    <3>5. CASE M = B
      <4>1. OneMore(S, T, m) /\ g[m] \in Int /\ g[m] = Footprint(m)
        <5>1. m \in T
          BY <1>1, <3>1, <3>5 DEF MinorsOf
        <5> QED BY <1>3, <1>7, <2>1, <3>1, <3>5, <5>1 DEF OneMore
      <4>2. SumFunctionOnSet(g, T) = SumFunctionOnSet(f, S) + g[m]
        BY <3>2, <3>3, <4>1, SumGrows
      <4>3. SumFunctionOnSet(f, S) \in Int
        BY <3>2, <3>3, SumType DEF SameNumbers
      <4>4. major'[B].usage = major[B].usage - Footprint(m)
        <5>1. ~EmptiesMajor(m)
          BY <1>4, <2>2, <3>5 DEF Kept
        <5> QED BY <1>1, <5>1 DEF FreeMinor, ShrinkMajor, IInv, HeapSound, MajorsTyped
      <4> QED BY <3>1, <3>4, <3>5, <4>1, <4>2, <4>3, <4>4, Constants
    <3>6. CASE M # B
      <4>1. T = S
        BY <1>3, <1>9, <2>2, <3>1, <3>6
      <4>2. SumFunctionOnSet(f, S) = SumFunctionOnSet(g, S)
        BY <3>2, <3>3, SumOfSame DEF SameNumbers
      <4>3. major'[M].usage = major[M].usage
        BY <1>4, <2>2, <3>6 DEF Kept
      <4> QED BY <3>1, <3>4, <4>1, <4>2, <4>3
    <3> QED BY <3>5, <3>6
  <2> QED BY <2>1, <2>2 DEF UsageExact
<1>11. l_inuse' = SumFunctionOnSet(MinorSizes', DOMAIN minor')
  <2>1. PICK f, g, S, T : /\ f = MinorSizes' /\ g = MinorSizes
                          /\ S = DOMAIN minor' /\ T = DOMAIN minor
    OBVIOUS
  <2>2. IsFiniteSet(S) /\ OneMore(S, T, m)
    BY <1>3, <1>6, <2>1 DEF Finite, OneMore
  <2>3. SameNumbers(f, g, S) /\ g[m] \in Int
    BY <1>3, <1>7, <2>1 DEF SameNumbers
  <2>4. SumFunctionOnSet(g, T) = SumFunctionOnSet(f, S) + g[m]
    BY <2>2, <2>3, SumGrows
  <2>5. SumFunctionOnSet(f, S) \in Int
    BY <2>2, <2>3, SumType DEF SameNumbers
  <2> QED BY <1>2, <1>5, <1>7, <2>1, <2>3, <2>4, <2>5 DEF TotalsExact
<1>12. l_allocated' = SumFunctionOnSet(MajorSizes', DOMAIN major')
  <2>1. PICK f, g, S, T : /\ f = MajorSizes' /\ g = MajorSizes
                          /\ S = DOMAIN major' /\ T = DOMAIN major
    OBVIOUS
  <2>2. /\ \A C \in T : g[C] = major[C].size /\ g[C] \in Nat
        /\ \A C \in S : f[C] = g[C] /\ C \in T
    <3>1. \A C \in DOMAIN major : MajorSizes[C] = major[C].size /\ MajorSizes[C] \in Nat
      BY <1>2, <1>5, SizesTyped
    <3>2. \A C \in DOMAIN major' : MajorSizes'[C] = major[C].size
      BY <1>4 DEF MajorSizes, Kept
    <3> QED BY <1>9, <2>1, <3>1, <3>2
  <2>3. IsFiniteSet(S) /\ SameNumbers(f, g, S)
    BY <1>6, <2>1, <2>2 DEF Finite, SameNumbers
  <2>4. CASE EmptiesMajor(m)
    <3>1. OneMore(S, T, B)
      BY <1>4, <2>1, <2>4 DEF Kept, OneMore
    <3>0. g[B] \in Int /\ g[B] = major[B].size
      BY <2>1, <2>2
    <3>2. SumFunctionOnSet(g, T) = SumFunctionOnSet(f, S) + g[B]
      BY <2>3, <3>0, <3>1, SumGrows
    <3>3. SumFunctionOnSet(f, S) \in Int
      BY <2>3, SumType DEF SameNumbers
    <3>4. l_allocated' = l_allocated - major[B].size
      BY <1>1, <2>4 DEF FreeMinor, ReleaseMajor
    <3>5. l_allocated = SumFunctionOnSet(g, T)
      BY <1>5, <2>1 DEF TotalsExact
    <3>6. l_allocated' = SumFunctionOnSet(f, S)
      BY <3>0, <3>2, <3>3, <3>4, <3>5
    <3> QED BY <2>1, <3>6
  <2>5. CASE ~EmptiesMajor(m)
    <3>1. S = T
      BY <1>4, <2>1, <2>5 DEF Kept
    <3>2. SumFunctionOnSet(f, S) = SumFunctionOnSet(g, S)
      BY <2>3, SumOfSame DEF SameNumbers
    <3>3. l_allocated' = l_allocated
      BY <2>5 DEF FreeMinor, ShrinkMajor
    <3> QED BY <1>5, <2>1, <3>1, <3>2, <3>3 DEF TotalsExact
  <2> QED BY <2>4, <2>5
<1> QED BY <1>6, <1>10, <1>11, <1>12 DEF Accounted, TotalsExact

\* A step that neither places nor frees a minor nor asks for pages.
LEMMA OtherAccounted ==
    ASSUME IInv, Accounted, [Next]_vars,
           ~(CreateRoot \/ Case1Grow \/ Case5Grow),
           ~(Case2 \/ Case3 \/ Case4End \/ Case4Between),
           ~((\E m \in DOMAIN minor : Kfree(m)) \/ ReallocRelease)
    PROVE  Accounted'
<1>0. HeapSound
  BY DEF IInv
<1>1. CASE UNCHANGED heap
  <2>1. UNCHANGED <<major, minor, l_inuse, l_allocated>>
    BY <1>1 DEF heap
  <2> QED BY <1>0, <2>1, AccountsStay
<1>2. ASSUME NEW m \in DOMAIN minor, NEW size \in ReqSizes, ReallocInPlace(m, size)
      PROVE  Accounted'
  <2>1. /\ UNCHANGED <<major, l_inuse, l_allocated>>
        /\ minor' = [minor EXCEPT ![m].req_size = size]
    BY <1>2 DEF ReallocInPlace
  <2>2. \A x \in DOMAIN minor : minor[x] \in [prev : Nat, next : Nat, block : DOMAIN major,
                                              size : Nat, req_size : Nat]
    BY <1>0 DEF HeapSound, MinorsTyped
  <2>3. /\ DOMAIN minor' = DOMAIN minor
        /\ \A x \in DOMAIN minor : minor'[x].block = minor[x].block
                                   /\ minor'[x].size = minor[x].size
    BY <2>1, <2>2
  <2> QED BY <1>0, <2>1, <2>3, AccountsStay
<1>3. CASE \/ StartSearch \/ Case1Hop \/ Case1Restart \/ Case5Hop \/ Case5Restart
           \/ EnterBlock \/ NextMinor
  <2>1. UNCHANGED <<major, minor, l_inuse, l_allocated>>
    BY <1>3 DEF StartSearch, Case1Hop, Case1Restart, Case5Hop, Case5Restart, EnterBlock,
                NextMinor, heap
  <2> QED BY <1>0, <2>1, AccountsStay
<1>4. CASE UNCHANGED vars
  BY <1>1, <1>4 DEF vars, heap
<1> QED
  BY <1>1, <1>2, <1>3, <1>4 DEF Next, MallocStep, Malloc, ReallocGrow, Halted

\* The steps that ask for pages, whether they get them or not.
LEMMA GrowthAccounted ==
    ASSUME IInv, Accounted, CreateRoot \/ Case1Grow \/ Case5Grow
    PROVE  Accounted'
<1>1. HeapSound /\ call.size \in Nat
  BY DEF IInv, CallType
<1>2. CASE HeapExhausted
  <2>1. UNCHANGED <<major, minor, l_inuse, l_allocated>>
    BY <1>2 DEF HeapExhausted, heap
  <2> QED BY <1>1, <2>1, AccountsStay
<1>3. CASE ~HeapExhausted
  <2>1. PICK last \in DOMAIN major \cup {NULL} :
            /\ AppendMajor(last) /\ PagesLeft(PagesFor(call.size))
            /\ UNCHANGED <<minor, l_inuse>>
            /\ IF last = NULL THEN DOMAIN major = {} ELSE major[last].next = NULL
            /\ l_memRoot' = IF last = NULL THEN heap_location * PageSize ELSE l_memRoot
    <3>1. CASE CreateRoot
      <4>1. l_memRoot = NULL /\ DOMAIN major = {}
        BY <3>1, PointersLead DEF CreateRoot
      <4> QED BY <1>3, <3>1, <4>1 DEF CreateRoot
    <3>2. CASE Case1Grow
      <4>1. call.maj \in DOMAIN major /\ call.maj # NULL
        BY <1>1, <3>2, InProgress DEF Case1Grow, Searching, AtMajor, HeapSound, MajorsTyped
      <4> QED BY <1>3, <3>2, <4>1 DEF Case1Grow
    <3>3. CASE Case5Grow
      <4>1. call.maj \in DOMAIN major /\ call.maj # NULL
        BY <1>1, <3>3, InProgress DEF Case5Grow, BlockFull, AtMajor, HeapSound, MajorsTyped
      <4> QED BY <1>3, <3>3, <4>1 DEF Case5Grow
    <3> QED BY <3>1, <3>2, <3>3
  <2> QED BY <1>1, <2>1, AppendAccounted
<1> QED BY <1>2, <1>3

\* Every step keeps the accounts.
LEMMA AccountedStep ==
    ASSUME IInv, Accounted, [Next]_vars
    PROVE  Accounted'
<1>1. CASE Case2 \/ Case3 \/ Case4End \/ Case4Between
  <2>1. AtMajor /\ \E m, p, n \in Nat : Fits(m, p, n, call.maj) /\ Place(m, p, n)
    BY <1>1, PlacesFit
  <2> QED BY <2>1, PlaceAccounted
<1>2. CASE (\E m \in DOMAIN minor : Kfree(m)) \/ ReallocRelease
  <2>1. PICK m \in DOMAIN minor : FreeMinor(m)
    BY <1>2 DEF Kfree, ReallocRelease, IInv, CallSound
  <2> QED BY <2>1, FreeAccounted
<1> QED BY <1>1, <1>2, GrowthAccounted, OtherAccounted

\* The heap starts with nothing in it, and nothing counted.
LEMMA AccountedInit == Init => Accounted
<1> SUFFICES ASSUME Init PROVE Accounted
  OBVIOUS
<1>1. DOMAIN minor = {} /\ DOMAIN major = {} /\ l_inuse = 0 /\ l_allocated = 0
  BY DEF Init
<1>2. Finite /\ UsageExact
  BY <1>1, FS_EmptySet DEF Finite, UsageExact
<1>3. SumFunctionOnSet(MinorSizes, {}) = 0 /\ SumFunctionOnSet(MajorSizes, {}) = 0
  BY SumOfNone
<1>4. TotalsExact
  BY <1>1, <1>3 DEF TotalsExact
<1> QED BY <1>2, <1>4 DEF Accounted

\* The accounts are kept from the start on.
LEMMA AccountedAlways == Spec => [](IInv /\ Accounted)
<1>1. Init => IInv /\ Accounted
  BY IInvInit, AccountedInit
<1>2. (IInv /\ Accounted) /\ [Next]_vars => (IInv /\ Accounted)'
  BY IInvStep, AccountedStep
<1> QED BY <1>1, <1>2, PTL DEF Spec

\* The usage of every major, l_inuse and l_allocated are exact.
THEOREM AccountsStayExact == Spec => []AccountsExact
<1>1. IInv /\ Accounted => AccountsExact
  BY AccountedExact
<1> QED BY <1>1, AccountedAlways, PTL

\* Unsigned, they never go below zero.
THEOREM CountersNeverWrap ==
    Spec => [](/\ l_inuse \in Nat /\ l_allocated \in Nat
               /\ \A M \in DOMAIN major : major[M].usage \in Nat)
<1>1. ASSUME IInv, Accounted
      PROVE  /\ l_inuse \in Nat /\ l_allocated \in Nat
             /\ \A M \in DOMAIN major : major[M].usage \in Nat
  <2>1. HeapSound /\ Finite /\ UsageExact /\ TotalsExact
    BY <1>1 DEF IInv, Accounted
  <2>2. l_inuse \in Nat /\ l_allocated \in Nat
    BY <2>1, SizesTyped, SumNatural DEF TotalsExact, Finite
  <2>3. ASSUME NEW M \in DOMAIN major PROVE major[M].usage \in Nat
    <3>1. PICK S : S = MinorsOf(M)
      OBVIOUS
    <3>2. IsFiniteSet(S) /\ \A m \in S : Footprints[m] \in Nat
      BY <2>1, <3>1, SizesTyped
    <3>3. SumFunctionOnSet(Footprints, S) \in Nat
      BY <3>2, SumNatural
    <3> QED BY <2>1, <3>1, <3>3, Constants DEF UsageExact
  <2> QED BY <2>2, <2>3
<1> QED BY <1>1, AccountedAlways, PTL

----------------------------------------------------------------------------
(* That every call comes to an end.                                        *)

\* The address past the heap.
HeapTop == HeapEnd * PageSize

\* How far the search has come, in addresses: at a header, or past the last minor of
\* its major.  Twice the address leaves a place before the next major.
Passed ==
    IF call.op # "minors" THEN 2 * call.maj
    ELSE IF call.min # NULL THEN 2 * call.min
    ELSE 2 * EndOfMajor(call.maj) - 1

\* More than the search can come to.
Span == 2 * HeapTop + 2

\* How many steps a call has left, or more; a search that began at the best bet may
\* go through the heap once more.
CallLeft ==
    CASE call.op = "start" -> 2 * Span + (IF l_memRoot = NULL THEN 2 ELSE 1)
      [] AtMajor -> (IF call.startedBet THEN 2 * Span ELSE Span) - Passed
      [] call.op = "copy" -> 1
      [] OTHER -> 0

\* Where the headers are: those of a major lie within it, and it ends in the heap.
LEMMA HeadersBelow ==
    ASSUME IInv
    PROVE  /\ HeapTop \in Nat /\ heap_location * PageSize \in Nat
           /\ heap_location * PageSize <= HeapTop
           /\ \A M \in DOMAIN major :
                 /\ M \in Nat \ {0} /\ EndOfMajor(M) \in Nat /\ M < EndOfMajor(M)
                 /\ EndOfMajor(M) <= heap_location * PageSize
                 /\ \A N \in DOMAIN major : M < N => EndOfMajor(M) <= N
           /\ \A m \in DOMAIN minor :
                 /\ minor[m].block \in DOMAIN major /\ m \in Nat \ {0}
                 /\ minor[m].block < m /\ m < EndOfMajor(minor[m].block)
<1>1. /\ PageSize \in Nat /\ HeapEnd \in Nat /\ heap_location \in Nat
      /\ heap_location <= HeapEnd
      /\ MajorSize \in Nat \ {0} /\ MinorSize \in Nat \ {0}
  BY Constants DEF IInv, HeapSound
<1>2. \A a, b, c \in Nat : a <= b => a * c <= b * c /\ a * c \in Nat /\ b * c \in Nat
  OBVIOUS
<1>3. /\ HeapTop \in Nat /\ heap_location * PageSize \in Nat
      /\ heap_location * PageSize <= HeapTop
  BY <1>1, <1>2 DEF HeapTop
<1>4. MajorsTyped /\ MinorsTyped /\ AllocationsDisjoint
  BY DEF IInv, HeapSound
<1>5. ASSUME NEW M \in DOMAIN major
      PROVE  /\ M \in Nat \ {0} /\ EndOfMajor(M) \in Nat /\ M < EndOfMajor(M)
             /\ EndOfMajor(M) <= heap_location * PageSize
             /\ \A N \in DOMAIN major : M < N => EndOfMajor(M) <= N
  <2>1. M \in Nat \ {0} /\ major[M].size \in Nat /\ major[M].size > 0
    BY <1>4 DEF MajorsTyped, NULL
  <2>2. EndOfMajor(M) \in Nat /\ M < EndOfMajor(M)
    BY <2>1 DEF EndOfMajor
  <2> QED BY <1>4, <2>1, <2>2 DEF AllocationsDisjoint
<1>6. ASSUME NEW m \in DOMAIN minor
      PROVE  /\ minor[m].block \in DOMAIN major /\ m \in Nat \ {0}
             /\ minor[m].block < m /\ m < EndOfMajor(minor[m].block)
  <2>1. m \in Nat \ {0} /\ minor[m].size \in Nat /\ minor[m].block \in DOMAIN major
    BY <1>4 DEF MinorsTyped, NULL
  <2> PICK B : B = minor[m].block
    OBVIOUS
  <2>2. B \in Nat /\ EndOfMajor(B) \in Nat
    BY <1>5, <2>1
  <2>3. B + MajorSize <= m /\ m + MinorSize + minor[m].size <= EndOfMajor(B)
    BY <1>4 DEF AllocationsDisjoint, EndOfMinor
  <2> QED BY <1>1, <2>1, <2>2, <2>3
<1> QED BY <1>3, <1>5, <1>6

\* The search is in the heap.
LEMMA PassedInHeap ==
    ASSUME IInv, AtMajor
    PROVE  Passed \in 1..(2 * HeapTop)
<1>1. call.maj \in DOMAIN major /\ call.min \in DOMAIN minor \cup {NULL}
  BY DEF IInv, CallSound, CallType
<1>2. \A a, b, c \in Nat : b <= c /\ a > 0 =>
         (a <= b => 2 * a \in 1..(2 * c)) /\ (b > 0 => 2 * b - 1 \in 1..(2 * c))
  OBVIOUS
<1> PICK N : N = heap_location * PageSize
  OBVIOUS
<1>3. /\ call.maj \in Nat \ {0} /\ EndOfMajor(call.maj) \in Nat \ {0}
      /\ HeapTop \in Nat /\ call.maj <= HeapTop /\ EndOfMajor(call.maj) <= HeapTop
  <2>1. /\ call.maj \in Nat \ {0} /\ EndOfMajor(call.maj) \in Nat
        /\ call.maj < EndOfMajor(call.maj) /\ EndOfMajor(call.maj) <= N
        /\ N \in Nat /\ HeapTop \in Nat /\ N <= HeapTop
    BY <1>1, HeadersBelow
  <2> QED BY <2>1
<1>4. CASE call.op # "minors"
  BY <1>2, <1>3, <1>4 DEF Passed
<1>5. CASE call.op = "minors" /\ call.min # NULL
  <2>1. call.min \in DOMAIN minor /\ minor[call.min].block = call.maj
    BY <1>1, <1>5 DEF IInv, CallSound, InMinors
  <2>2. call.min \in Nat \ {0} /\ call.min < EndOfMajor(call.maj)
    BY <2>1, HeadersBelow
  <2>3. call.min <= HeapTop
    BY <1>3, <2>2
  <2> QED BY <1>2, <1>3, <1>5, <2>2, <2>3 DEF Passed
<1>6. CASE call.op = "minors" /\ call.min = NULL
  BY <1>2, <1>3, <1>6 DEF Passed
<1> QED BY <1>4, <1>5, <1>6

\* What the steps of a call do to the search: it goes on upwards, starts again at the
\* root, or ends.
Onward == AtMajor' /\ call'.startedBet = call.startedBet /\ Passed' > Passed
Again == AtMajor' /\ call.startedBet /\ ~call'.startedBet
Ended == call'.op \in {"idle", "copy", "halted"}

\* Each of the three leaves fewer steps.
LEMMA FewerLeft ==
    ASSUME IInv, IInv', AtMajor, Onward \/ Again \/ Ended
    PROVE  CallLeft' \in Nat /\ CallLeft' < CallLeft
<1>1. HeapTop \in Nat /\ HeapTop' = HeapTop /\ Span \in Nat /\ Span' = Span
      /\ Span = 2 * HeapTop + 2
  BY HeadersBelow DEF Span, HeapTop, HeapEnd
<1>2. Passed \in 1..(2 * HeapTop)
  BY PassedInHeap
<1>3. CallLeft = (IF call.startedBet THEN 2 * Span ELSE Span) - Passed
  BY DEF CallLeft, AtMajor
<1>4. call.startedBet \in BOOLEAN /\ call'.startedBet \in BOOLEAN
  BY DEF IInv, CallType
<1>5. ASSUME AtMajor'
      PROVE  /\ CallLeft' = (IF call'.startedBet THEN 2 * Span ELSE Span) - Passed'
             /\ Passed' \in 1..(2 * HeapTop)
  <2>1. CallLeft' = (IF call'.startedBet THEN 2 * Span ELSE Span) - Passed'
    BY <1>1, <1>5 DEF CallLeft, AtMajor
  <2>2. (IInv /\ AtMajor => Passed \in 1..(2 * HeapTop))'
    BY PassedInHeap, PTL
  <2> QED BY <1>1, <1>5, <2>1, <2>2
<1>6. CASE Onward
  <2>1. Passed' > Passed /\ call'.startedBet = call.startedBet /\ AtMajor'
    BY <1>6 DEF Onward
  <2>2. \A s, h, p, q \in Nat : s = 2 * h + 2 /\ q > p /\ q <= 2 * h =>
           /\ s - q \in Nat /\ s - q < s - p
           /\ 2 * s - q \in Nat /\ 2 * s - q < 2 * s - p
    OBVIOUS
  <2>3. Passed \in Nat /\ Passed' \in Nat /\ Passed' <= 2 * HeapTop
    BY <1>1, <1>2, <1>5, <2>1
  <2> QED BY <1>1, <1>3, <1>5, <2>1, <2>2, <2>3
<1>7. CASE Again
  <2>1. CallLeft = 2 * Span - Passed /\ CallLeft' = Span - Passed'
    BY <1>3, <1>5, <1>7 DEF Again
  <2>2. Passed' \in 1..(2 * HeapTop)
    BY <1>5, <1>7 DEF Again
  <2>3. \A a, h, p, q \in Nat : a = 2 * h + 2 /\ p <= 2 * h /\ q <= 2 * h /\ q >= 1 =>
           a - q \in Nat /\ a - q < 2 * a - p
    OBVIOUS
  <2>4. Passed \in Nat /\ Passed <= 2 * HeapTop
        /\ Passed' \in Nat /\ Passed' <= 2 * HeapTop /\ Passed' >= 1
    BY <1>1, <1>2, <2>2
  <2> QED BY <1>1, <2>1, <2>3, <2>4
<1>8. CASE Ended
  <2>1. CallLeft' \in {0, 1}
    BY <1>8 DEF CallLeft, AtMajor, Ended
  <2>2. \A s, h, p \in Nat : s = 2 * h + 2 /\ p <= 2 * h => s - p > 1 /\ 2 * s - p > 1
    OBVIOUS
  <2>3. CallLeft > 1 /\ CallLeft \in Int
    BY <1>1, <1>2, <1>3, <2>2
  <2> QED BY <2>1, <2>3
<1> QED BY <1>6, <1>7, <1>8

\* The next header of a list is further up.
LEMMA NextFurther ==
    ASSUME IInv
    PROVE  /\ \A M \in DOMAIN major : major[M].next # NULL =>
                 major[M].next \in DOMAIN major /\ M < major[M].next
           /\ \A m \in DOMAIN minor : minor[m].next # NULL => m < minor[m].next
<1>1. \A M \in DOMAIN major : IsNext(major[M].next, M, DOMAIN major)
  BY DEF IInv, HeapSound, ListsSound, MajorListSound
<1>2. \A m \in DOMAIN minor : IsNext(minor[m].next, m, MinorsOf(minor[m].block))
  BY DEF IInv, HeapSound, ListsSound, MinorListsSound
<1>3. DOMAIN major \subseteq Nat /\ DOMAIN minor \subseteq Nat
  BY DEF IInv, HeapSound, MajorsTyped, MinorsTyped
<1> QED BY <1>1, <1>2, <1>3 DEF IsNext, MinorsOf

\* A search that goes to a major past all it has seen of the one it is in goes on.
LEMMA MajorOnward ==
    ASSUME IInv, AtMajor, NEW N \in Nat, EndOfMajor(call.maj) <= N,
           call'.op \in {"search", "fresh"}, call'.maj = N,
           call'.startedBet = call.startedBet
    PROVE  Onward
<1>1. Passed' = 2 * N
  BY DEF Passed
<1>2. call.maj \in DOMAIN major /\ call.min \in DOMAIN minor \cup {NULL}
  BY DEF IInv, CallSound, CallType
<1>3. /\ call.maj \in Nat /\ EndOfMajor(call.maj) \in Nat
      /\ call.maj < EndOfMajor(call.maj)
  BY <1>2, HeadersBelow
<1>4. Passed < 2 * N
  <2>1. CASE call.op # "minors"
    BY <1>3, <2>1 DEF Passed
  <2>2. CASE call.op = "minors" /\ call.min # NULL
    <3>1. call.min \in DOMAIN minor /\ minor[call.min].block = call.maj
      BY <1>2, <2>2 DEF IInv, CallSound, InMinors
    <3>2. call.min \in Nat /\ call.min < EndOfMajor(call.maj)
      BY <3>1, HeadersBelow
    <3> QED BY <1>3, <2>2, <3>2 DEF Passed
  <2>3. CASE call.op = "minors" /\ call.min = NULL
    BY <1>3, <2>3 DEF Passed
  <2> QED BY <2>1, <2>2, <2>3
<1> QED BY <1>1, <1>4 DEF Onward, AtMajor

\* Every step of a search goes on, starts again or ends it.
LEMMA SearchAdvances ==
    ASSUME IInv, AtMajor, MallocStep
    PROVE  Onward \/ Again \/ Ended
<1> USE DEF NULL
<1>1. /\ call.maj \in DOMAIN major /\ call.startedBet \in BOOLEAN
      /\ call = [op |-> call.op, req |-> call.req, size |-> call.size, maj |-> call.maj,
                 min |-> call.min, startedBet |-> call.startedBet,
                 bestSize |-> call.bestSize, old |-> call.old]
  BY InProgress
<1>2. /\ call.maj \in Nat /\ EndOfMajor(call.maj) \in Nat
      /\ call.maj < EndOfMajor(call.maj)
      /\ heap_location * PageSize \in Nat
      /\ EndOfMajor(call.maj) <= heap_location * PageSize
      /\ \A N \in DOMAIN major : call.maj < N => EndOfMajor(call.maj) <= N /\ N \in Nat
  BY <1>1, HeadersBelow
<1>3. CASE Case1Hop \/ Case5Hop
  <2> PICK N : N = major[call.maj].next
    OBVIOUS
  <2>1. N # 0 /\ call'.op = "search" /\ call'.maj = N /\ call'.startedBet = call.startedBet
    <3>1. CASE Case1Hop
      <4>1. /\ N # 0 /\ call.op = "search"
            /\ ConsiderBet([call EXCEPT !.maj = N])
        BY <3>1 DEF Case1Hop, Searching
      <4> QED BY <1>1, <4>1 DEF ConsiderBet
    <3>2. CASE Case5Hop
      BY <1>1, <3>2 DEF Case5Hop
    <3> QED BY <1>3, <3>1, <3>2
  <2>2. N \in Nat /\ EndOfMajor(call.maj) <= N
    BY <1>1, <1>2, <2>1, NextFurther
  <2> QED BY <2>1, <2>2, MajorOnward
<1>4. CASE Case1Restart \/ Case5Restart
  <2>1. /\ call.startedBet /\ call'.op = "search" /\ call'.startedBet = FALSE
    <3>1. CASE Case1Restart
      <4>1. call.startedBet /\ ConsiderBet(AtRoot)
        BY <3>1 DEF Case1Restart, MayRestart
      <4> QED BY <1>1, <4>1 DEF ConsiderBet, AtRoot
    <3>2. CASE Case5Restart
      BY <1>1, <3>2 DEF Case5Restart, MayRestart, AtRoot
    <3> QED BY <1>4, <3>1, <3>2
  <2> QED BY <2>1 DEF Again, AtMajor
<1>5. CASE HeapExhausted
  BY <1>5 DEF HeapExhausted, Idle, Ended
<1>6. CASE ~HeapExhausted /\ (Case1Grow \/ Case5Grow)
  <2> PICK N : N = heap_location * PageSize
    OBVIOUS
  <2>1. /\ call'.op \in {"search", "fresh"} /\ call'.maj = N
        /\ call'.startedBet = call.startedBet
    <3>1. CASE Case1Grow
      <4>1. ConsiderBet([call EXCEPT !.op = "fresh", !.maj = N])
        BY <1>6, <3>1 DEF Case1Grow
      <4> QED BY <1>1, <4>1 DEF ConsiderBet
    <3>2. CASE Case5Grow
      BY <1>1, <1>6, <3>2 DEF Case5Grow
    <3> QED BY <1>6, <3>1, <3>2
  <2>2. N \in Nat /\ EndOfMajor(call.maj) <= N
    BY <1>2
  <2> QED BY <2>1, <2>2, MajorOnward
<1>7. CASE Case2 \/ Case3 \/ Case4End \/ Case4Between
  <2>1. PICK m : call' = Returned(m)
    BY <1>7 DEF Case2, Case3, Case4End, Case4Between, Place
  <2> QED BY <2>1 DEF Returned, Idle, Ended
<1>8. CASE EnterBlock
  <2> PICK f : f = major[call.maj].first
    OBVIOUS
  <2>1. /\ call.op = "search" /\ f # 0 /\ call'.op = "minors" /\ call'.min = f
        /\ call'.startedBet = call.startedBet
    <3>1. call.op = "search" /\ f # 0
          /\ ConsiderBet([call EXCEPT !.op = "minors", !.min = f])
      BY <1>8 DEF EnterBlock, Searching
    <3> QED BY <1>1, <3>1 DEF ConsiderBet
  <2>2. f \in DOMAIN minor /\ minor[f].block = call.maj
    BY <1>1, <2>1, PointersLead
  <2>3. f \in Nat /\ call.maj < f
    BY <2>2, HeadersBelow
  <2>4. Passed = 2 * call.maj /\ Passed' = 2 * f
    BY <2>1 DEF Passed
  <2>5. Passed' > Passed
    BY <1>2, <2>3, <2>4
  <2> QED BY <2>1, <2>5 DEF Onward, AtMajor
<1>9. CASE NextMinor
  <2> PICK n : n = minor[call.min].next
    OBVIOUS
  <2>1. /\ call.op = "minors" /\ call.min # 0 /\ call'.op = "minors"
        /\ call'.min = n /\ call'.maj = call.maj /\ call'.startedBet = call.startedBet
        /\ UNCHANGED major
    BY <1>1, <1>9 DEF NextMinor, InMinors, heap
  <2>2. call.min \in DOMAIN minor /\ minor[call.min].block = call.maj
    BY <2>1 DEF IInv, CallSound, CallType, InMinors
  <2>3. call.min \in Nat /\ call.min < EndOfMajor(call.maj)
    BY <2>2, HeadersBelow
  <2>4. Passed = 2 * call.min
    BY <2>1 DEF Passed
  <2>5. CASE n # 0
    <3>1. n \in Nat /\ call.min < n
      BY <2>2, <2>5, NextFurther, PointersLead, HeadersBelow
    <3>2. Passed' = 2 * n
      BY <2>1, <2>5 DEF Passed
    <3>3. Passed' > Passed
      BY <2>3, <2>4, <3>1, <3>2
    <3> QED BY <2>1, <3>3 DEF Onward, AtMajor
  <2>6. CASE n = 0
    <3>1. EndOfMajor(call.maj)' = EndOfMajor(call.maj)
      BY <2>1 DEF EndOfMajor
    <3>2. Passed' = 2 * EndOfMajor(call.maj) - 1
      BY <2>1, <2>6, <3>1 DEF Passed
    <3>3. Passed' > Passed
      BY <1>2, <2>3, <2>4, <3>2
    <3> QED BY <2>1, <3>3 DEF Onward, AtMajor
  <2> QED BY <2>5, <2>6
<1>10. ~CreateRoot /\ ~StartSearch /\ ~ReallocRelease
  BY DEF AtMajor, CreateRoot, StartSearch, ReallocRelease
<1> QED
  BY <1>3, <1>4, <1>5, <1>6, <1>7, <1>8, <1>9, <1>10 DEF MallocStep

Called == call.op \notin {"idle", "halted"}

\* No call of the allocator can go on for ever, however many majors and minors there
\* are, wherever its search begins and however often it asks for pages: the search only
\* goes up through the heap, starts again once at most, and each step leaves fewer.
THEOREM CallAdvances ==
    Spec => [][Called => MallocStep /\ CallLeft' \in Nat /\ CallLeft' < CallLeft]_vars
<1>1. IInv /\ IInv' /\ [Next]_vars =>
        [Called => MallocStep /\ CallLeft' \in Nat /\ CallLeft' < CallLeft]_vars
  <2> SUFFICES ASSUME IInv, IInv', Next, Called
               PROVE  MallocStep /\ CallLeft' \in Nat /\ CallLeft' < CallLeft
    OBVIOUS
  <2>1. MallocStep
    BY DEF Called, Next, Malloc, Kfree, ReallocInPlace, ReallocGrow, Halted
  <2>2. call.op \in {"start", "search", "fresh", "minors", "copy"}
    BY DEF Called, IInv, CallType
  <2>3. CASE AtMajor
    BY <2>1, <2>3, SearchAdvances, FewerLeft
  <2>4. CASE call.op = "start"
    <3>1. HeapTop \in Nat /\ HeapTop' = HeapTop /\ Span \in Nat /\ Span' = Span
          /\ Span = 2 * HeapTop + 2
      BY HeadersBelow DEF Span, HeapTop, HeapEnd
    <3>2. CallLeft = 2 * Span + (IF l_memRoot = NULL THEN 2 ELSE 1)
      BY <2>4 DEF CallLeft, AtMajor
    <3>3. CASE HeapExhausted
      <4>1. CallLeft' = 0
        BY <3>3 DEF HeapExhausted, Idle, CallLeft, AtMajor
      <4> QED BY <2>1, <3>1, <3>2, <4>1
    <3>4. CASE CreateRoot /\ ~HeapExhausted
      <4>1. l_memRoot = NULL /\ l_memRoot' = heap_location * PageSize /\ call' = call
        BY <3>4 DEF CreateRoot
      <4>2. heap_location \in Nat \ {0} /\ PageSize \in Nat \ {0}
        BY Constants DEF IInv, HeapSound
      <4>3. \A a, b \in Nat \ {0} : a * b # 0
        OBVIOUS
      <4>4. l_memRoot' # NULL
        BY <4>1, <4>2, <4>3 DEF NULL
      <4>5. CallLeft = 2 * Span + 2 /\ CallLeft' = 2 * Span + 1
        <5>1. CallLeft' = 2 * Span + 1
          BY <2>4, <3>1, <4>1, <4>4 DEF CallLeft, AtMajor
        <5> QED BY <3>2, <4>1, <5>1
      <4> QED BY <2>1, <3>1, <4>5
    <3>5. CASE StartSearch
      <4>1. l_memRoot # NULL /\ call'.op = "search"
        <5>1. /\ l_memRoot # NULL
              /\ call' = [call EXCEPT !.op = "search", !.bestSize = call'.bestSize,
                                      !.startedBet = call'.startedBet, !.maj = call'.maj]
          BY <3>5 DEF StartSearch, IInv, CallType
        <5>2. "op" \in DOMAIN call
          BY DEF IInv, CallType
        <5> QED BY <5>1, <5>2
      <4>2. CallLeft' = (IF call'.startedBet THEN 2 * Span ELSE Span) - Passed'
        BY <3>1, <4>1 DEF CallLeft, AtMajor
      <4>3. (IInv /\ AtMajor => Passed \in 1..(2 * HeapTop))'
        BY PassedInHeap, PTL
      <4>4. Passed' \in 1..(2 * HeapTop)
        BY <3>1, <4>1, <4>3 DEF AtMajor
      <4>5. CallLeft = 2 * Span + 1
        BY <3>2, <4>1
      <4>6. CallLeft' \in {2 * Span - Passed', Span - Passed'}
        BY <4>2
      <4>7. \A a, h, q \in Nat : a = 2 * h + 2 /\ q <= 2 * h =>
               /\ a - q \in Nat /\ a - q < 2 * a + 1
               /\ 2 * a - q \in Nat /\ 2 * a - q < 2 * a + 1
        OBVIOUS
      <4>8. Passed' \in Nat /\ Passed' <= 2 * HeapTop
        BY <3>1, <4>4
      <4>9. CallLeft' \in Nat /\ CallLeft' < CallLeft
        BY <3>1, <4>5, <4>6, <4>7, <4>8
      <4> QED BY <2>1, <4>9
    <3>6. CreateRoot \/ StartSearch
      BY <2>1, <2>4
      DEF MallocStep, Searching, InMinors, BlockFull, Case1Hop, Case1Restart, Case1Grow,
          Case2, Case3, EnterBlock, Case4End, Case4Between, NextMinor, Case5Hop,
          Case5Restart, Case5Grow, ReallocRelease
    <3> QED BY <3>3, <3>4, <3>5, <3>6
  <2>5. CASE call.op = "copy"
    <3>1. ReallocRelease
      BY <2>1, <2>5
      DEF MallocStep, Searching, InMinors, BlockFull, Case1Hop, Case1Restart, Case1Grow,
          Case2, Case3, EnterBlock, Case4End, Case4Between, NextMinor, Case5Hop,
          Case5Restart, Case5Grow, CreateRoot, StartSearch
    <3>2. CallLeft = 1 /\ CallLeft' = 0
      BY <2>5, <3>1 DEF ReallocRelease, Idle, CallLeft, AtMajor
    <3> QED BY <2>1, <3>2
  <2> QED BY <2>2, <2>3, <2>4, <2>5 DEF AtMajor
<1> QED BY <1>1, HeapInvariant, PTL DEF Spec

=============================================================================
