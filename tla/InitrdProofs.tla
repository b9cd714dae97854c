---------------------------- MODULE InitrdProofs ----------------------------
(***************************************************************************)
(* That looking a file up in the ramdisk finds it, for every sequence of   *)
(* files on the command line, failed reads included, and whatever bytes a  *)
(* walk that has lost its way takes for headers.                           *)
(*                                                                         *)
(* The argument: the image is a chain.  Each header ends, with the data    *)
(* that follows it, where the next header begins or the image ends         *)
(* (Chained).  So the walk steps from header to header until it meets the  *)
(* name or a header without its data; what it meets after such a header    *)
(* does not matter to a file that lies before it (Walk).                   *)
(***************************************************************************)
EXTENDS Initrd, TLAPS

\* Where the file whose header is at p ends in the image.
EndOf(p) == p + FileHeader + IF p \in wrote THEN header[p].size ELSE 0

\* The places where a header begins or the image ends.
Ends == DOMAIN header \cup {pos}

Chained ==
    /\ ImageHeader \in Ends
    /\ \A p \in DOMAIN header : ImageHeader <= p /\ EndOf(p) \in Ends /\ EndOf(p) <= pos
    /\ \A p, q \in DOMAIN header : p < q => EndOf(p) <= q

\* The walk has met none of the name before p, and no header without its data.
OnCourse(p) ==
    /\ p \in Ends
    /\ \A q \in DOMAIN header : q < p => q \in wrote /\ header[q].name # name

\* It went past a header without its data, and met none of the name up to there.
LostAfter(p) ==
    /\ p \in DOMAIN header \ wrote
    /\ \A q \in Named(name) : p < q

Walk ==
    pc = "scan" => /\ found = None /\ raw > 0
                   /\ OnCourse(raw) \/ \E p \in DOMAIN header : LostAfter(p)

\* What was handed out of an image without failed reads is one of its files.
HandedOut ==
    pc = "idle" /\ found # None /\ DOMAIN header = wrote =>
        \E p \in DOMAIN header :
            found = [data |-> p + FileHeader, size |-> header[p].size]

Phases ==
    /\ pc = "write" => raw = 0 /\ found = None /\ total_length = 0
    /\ pc # "write" => total_length = pos

IInv == TypeOK /\ Chained /\ Phases /\ Walk /\ LookupExact /\ HandedOut

----------------------------------------------------------------------------

\* A file that make_initrd wrote is a chain of headers, not yet walked.
LEMMA InitInv == Init => IInv
<1> SUFFICES ASSUME Init PROVE IInv
  OBVIOUS
<1>1. TypeOK
  BY SizesAssumption DEF Init, TypeOK, None
<1>2. Chained
  BY DEF Init, Chained, Ends
<1>3. Phases /\ Walk /\ LookupExact /\ HandedOut
  BY DEF Init, Phases, Walk, LookupExact, HandedOut
<1> QED BY <1>1, <1>2, <1>3 DEF IInv

\* A header at the end of the image, with or without its data, keeps the chain.
LEMMA Extends ==
    ASSUME TypeOK, Chained, NEW n \in Names, NEW size \in Nat,
           header' = Appended(n, size),
           \/ wrote' = wrote /\ pos' = pos + FileHeader
           \/ wrote' = wrote \cup {pos} /\ pos' = pos + FileHeader + size
    PROVE  /\ Chained'
           /\ DOMAIN header' = DOMAIN header \cup {pos}
           /\ header' \in [DOMAIN header' -> [name : Names, size : Nat]]
           /\ pos' \in Nat /\ wrote' \subseteq DOMAIN header'
<1>1. /\ DOMAIN header \subseteq Nat /\ pos \in Nat /\ wrote \subseteq DOMAIN header
      /\ header \in [DOMAIN header -> [name : Names, size : Nat]]
      /\ FileHeader \in Nat \ {0}
  BY SizesAssumption DEF TypeOK
<1>2. \A p \in DOMAIN header : p < pos
  BY <1>1 DEF Chained, EndOf
<1>3. /\ DOMAIN header' = DOMAIN header \cup {pos}
      /\ \A p \in DOMAIN header : header'[p] = header[p]
      /\ header'[pos] = [name |-> n, size |-> size]
  BY <1>2, <1>1 DEF Appended
<1>4. header' \in [DOMAIN header' -> [name : Names, size : Nat]]
  BY <1>1, <1>3 DEF Appended
<1>5. pos' \in Nat /\ pos' > pos /\ wrote' \subseteq DOMAIN header'
  BY <1>1, <1>3
<1>6. ASSUME NEW p \in DOMAIN header PROVE EndOf(p)' = EndOf(p)
  <2>1. p \in wrote' <=> p \in wrote
    BY <1>1, <1>2
  <2>2. header'[p].size = header[p].size
    BY <1>3
  <2> QED BY <2>1, <2>2, Zenon DEF EndOf
<1>7. ASSUME NEW p, p = pos PROVE EndOf(p)' = pos'
  <2>1. p \notin wrote
    BY <1>1, <1>2, <1>7
  <2>2. CASE wrote' = wrote /\ pos' = pos + FileHeader
    BY <1>1, <1>7, <2>1, <2>2 DEF EndOf
  <2>3. CASE wrote' = wrote \cup {pos} /\ pos' = pos + FileHeader + size
    BY <1>1, <1>3, <1>7, <2>3 DEF EndOf
  <2> QED BY <2>2, <2>3
<1>8. ImageHeader \in Nat /\ ImageHeader <= pos
  BY <1>1, <1>2, SizesAssumption DEF Chained, Ends
<1>9. Chained'
  <2>1. Ends' = Ends \cup {pos'}
    BY <1>3 DEF Ends
  <2>2. ImageHeader \in Ends'
    BY <2>1 DEF Chained
  <2>3. ASSUME NEW p \in DOMAIN header'
        PROVE  ImageHeader <= p /\ EndOf(p)' \in Ends' /\ EndOf(p)' <= pos'
    <3>1. CASE p \in DOMAIN header
      <4>1. EndOf(p)' = EndOf(p) /\ ImageHeader <= p /\ EndOf(p) \in Ends /\ EndOf(p) <= pos
        BY <3>1, <1>6 DEF Chained
      <4>2. EndOf(p) \in Nat
        BY <4>1, <1>1 DEF Ends
      <4> QED BY <4>1, <4>2, <2>1, <1>1, <1>5
    <3>2. CASE p = pos
      BY <3>2, <1>1, <1>5, <1>7, <1>8, <2>1
    <3> QED BY <3>1, <3>2, <1>3
  <2>4. ASSUME NEW p \in DOMAIN header', NEW q \in DOMAIN header', p < q
        PROVE  EndOf(p)' <= q
    <3>1. p \in DOMAIN header
      BY <2>4, <1>1, <1>2, <1>3
    <3> QED BY <3>1, <2>4, <1>3, <1>6 DEF Chained
  <2> QED BY <2>2, <2>3, <2>4 DEF Chained
<1> QED BY <1>3, <1>4, <1>5, <1>9

\* The writer's steps: nothing has been looked up yet.
LEMMA WriterStep ==
    ASSUME IInv, NEW n \in Names, NEW size \in Sizes,
           WriteFile(n, size) \/ FailRead(n, size)
    PROVE  IInv'
<1>1. size \in Nat
  BY SizesAssumption
<1>2. /\ pc = "write" /\ pc' = pc /\ name' = name /\ raw' = raw /\ found' = found
      /\ total_length' = total_length /\ arg' \in 0..MaxFiles
      /\ header' = Appended(n, size)
      /\ \/ wrote' = wrote /\ pos' = pos + FileHeader
         \/ wrote' = wrote \cup {pos} /\ pos' = pos + FileHeader + size
  BY SizesAssumption DEF IInv, TypeOK, WriteFile, FailRead, After
<1>3. /\ Chained'
      /\ DOMAIN header' = DOMAIN header \cup {pos}
      /\ header' \in [DOMAIN header' -> [name : Names, size : Nat]]
      /\ pos' \in Nat /\ wrote' \subseteq DOMAIN header'
  BY <1>1, <1>2, Extends DEF IInv
<1>4. TypeOK' /\ Phases'
  BY <1>2, <1>3 DEF IInv, TypeOK, Phases
<1>5. Walk' /\ LookupExact' /\ HandedOut'
  BY <1>2, <1>4 DEF Phases, Walk, LookupExact, HandedOut
<1> QED BY <1>3, <1>4, <1>5 DEF IInv

\* One step of the walk: over a header of another name with its data, on to the
\* next; over one without, off course.
LEMMA WalkStep == IInv /\ NextFile => IInv'
<1> SUFFICES ASSUME IInv, NextFile PROVE IInv'
  OBVIOUS
<1>1. PICK h \in HeaderAt : h.name # name /\ raw' = raw + FileHeader + h.size
  BY DEF NextFile, NextRaw
<1>2. /\ pc = "scan" /\ raw < pos /\ found = None /\ raw > 0
      /\ UNCHANGED <<arg, header, pos, wrote, total_length, pc, name, found>>
  BY DEF NextFile, Scanning, IInv, Phases, Walk, writer
<1>3. /\ DOMAIN header \subseteq Nat /\ pos \in Nat /\ wrote \subseteq DOMAIN header
      /\ header \in [DOMAIN header -> [name : Names, size : Nat]]
      /\ FileHeader \in Nat \ {0} /\ raw \in Nat
  BY SizesAssumption DEF IInv, TypeOK
<1>4. h.size \in Nat
  BY <1>3, SizesAssumption DEF HeaderAt
<1>5. raw' \in Nat /\ raw' > 0
  BY <1>1, <1>3, <1>4
<1>6. OnCourse(raw)' \/ \E p \in DOMAIN header : LostAfter(p)'
  <2>1. CASE \E p \in DOMAIN header : LostAfter(p)
    BY <2>1, <1>2 DEF LostAfter, Named
  <2>2. CASE OnCourse(raw)
    <3>1. raw \in DOMAIN header /\ h = header[raw]
      BY <2>2, <1>2, <1>3 DEF OnCourse, Ends, HeaderAt
    <3>2. CASE raw \in wrote
      <4>1. raw' = EndOf(raw)
        BY <3>1, <3>2, <1>1 DEF EndOf
      <4>2. raw' \in Ends
        BY <4>1, <3>1 DEF IInv, Chained
      <4>3. ASSUME NEW q \in DOMAIN header, q < raw'
            PROVE  q \in wrote /\ header[q].name # name
        <5>1. ~(raw < q)
          BY <4>1, <4>3, <3>1, <1>3, <1>5 DEF IInv, Chained
        <5> QED BY <5>1, <3>1, <3>2, <2>2, <1>1, <1>3 DEF OnCourse
      <4>4. OnCourse(raw)'
        BY <4>2, <4>3, <1>2 DEF OnCourse, Ends
      <4> QED BY <4>4
    <3>3. CASE raw \notin wrote
      <4>1. LostAfter(raw)
        BY <2>2, <3>1, <3>3, <1>1, <1>3 DEF OnCourse, LostAfter, Named
      <4>2. \E p \in DOMAIN header : LostAfter(p)
        BY <4>1, <3>1
      <4> QED BY <4>2, <1>2 DEF LostAfter, Named
    <3> QED BY <3>2, <3>3
  <2> QED BY <2>1, <2>2, <1>2 DEF IInv, Walk
<1>7. Walk'
  BY <1>2, <1>5, <1>6 DEF Walk
<1>8. Chained'
  BY <1>2 DEF IInv, Chained, Ends, EndOf
<1>9. TypeOK' /\ Phases' /\ LookupExact' /\ HandedOut'
  BY <1>2, <1>5 DEF IInv, TypeOK, Phases, LookupExact, HandedOut
<1> QED BY <1>7, <1>8, <1>9 DEF IInv

\* The name is met at a header on course, or after the last file that counts.
LEMMA FoundStep == IInv /\ Found => IInv'
<1> SUFFICES ASSUME IInv, Found PROVE IInv'
  OBVIOUS
<1>1. PICK h \in HeaderAt :
          h.name = name /\ found' = [data |-> raw + FileHeader, size |-> h.size]
  BY DEF Found
<1>2. /\ pc = "scan" /\ raw < pos /\ found = None /\ raw > 0 /\ pc' = "idle"
      /\ UNCHANGED <<arg, header, pos, wrote, total_length, name, raw>>
  BY DEF Found, Scanning, IInv, Phases, Walk, writer
<1>3. /\ DOMAIN header \subseteq Nat /\ pos \in Nat /\ wrote \subseteq DOMAIN header
      /\ header \in [DOMAIN header -> [name : Names, size : Nat]]
      /\ FileHeader \in Nat \ {0} /\ raw \in Nat
  BY SizesAssumption DEF IInv, TypeOK
<1>4. h.size \in Nat
  BY <1>3, SizesAssumption DEF HeaderAt
<1>5. found' \in [data : Nat, size : Nat]
  BY <1>1, <1>3, <1>4
<1>6. \/ /\ raw \in DOMAIN header /\ h = header[raw]
         /\ \A q \in DOMAIN header : q < raw => q \in wrote /\ header[q].name # name
      \/ \E p \in DOMAIN header : LostAfter(p)
  BY <1>2, <1>3 DEF IInv, Walk, OnCourse, Ends, HeaderAt
<1>7. ASSUME NEW p \in Named(name), IsFirst(p, name), Intact(p)
      PROVE  found' = [data |-> p + FileHeader, size |-> header[p].size]
  <2>1. \A q \in DOMAIN header : ~LostAfter(q)
    BY <1>7, <1>3 DEF LostAfter, Intact, IsFirst, Named
  <2>2. /\ raw \in DOMAIN header /\ h = header[raw]
        /\ \A q \in DOMAIN header : q < raw => header[q].name # name
    BY <2>1, <1>6
  <2>3. raw \in Named(name) /\ p \in DOMAIN header /\ header[p].name = name
    BY <2>2, <1>1 DEF Named
  <2>4. p <= raw /\ ~(p < raw)
    BY <2>2, <2>3, <1>7 DEF IsFirst
  <2>5. p = raw
    BY <2>3, <2>4, <1>3
  <2> QED BY <2>2, <2>5, <1>1
<1>8. DOMAIN header = wrote =>
          \E p \in Named(name) : found' = [data |-> p + FileHeader, size |-> header[p].size]
  BY <1>1, <1>6 DEF LostAfter, Named
<1>9. LookupExact'
  BY <1>2, <1>7, <1>8 DEF LookupExact, Named, IsFirst, Intact
<1>10. HandedOut'
  BY <1>2, <1>8 DEF HandedOut, Named
<1>11. Chained'
  BY <1>2 DEF IInv, Chained, Ends, EndOf
<1>12. TypeOK' /\ Phases' /\ Walk'
  BY <1>2, <1>5 DEF IInv, TypeOK, Phases, Walk
<1> QED BY <1>9, <1>10, <1>11, <1>12 DEF IInv

\* The walk has come to the end of the image.
LEMMA NotFoundStep == IInv /\ NotFound => IInv'
<1> SUFFICES ASSUME IInv, NotFound PROVE IInv'
  OBVIOUS
<1>1. /\ pc = "scan" /\ raw >= pos /\ found = None /\ raw > 0 /\ pc' = "idle"
      /\ UNCHANGED <<arg, header, pos, wrote, total_length, name, raw, found>>
  BY DEF NotFound, IInv, Phases, Walk, writer
<1>2. /\ DOMAIN header \subseteq Nat /\ pos \in Nat /\ FileHeader \in Nat \ {0}
      /\ header \in [DOMAIN header -> [name : Names, size : Nat]]
  BY SizesAssumption DEF IInv, TypeOK
<1>3. \A p \in DOMAIN header : p < pos
  BY <1>2 DEF IInv, Chained, EndOf
<1>4. \/ \A q \in DOMAIN header : header[q].name # name
      \/ \E p \in DOMAIN header : LostAfter(p)
  BY <1>1, <1>2, <1>3 DEF IInv, Walk, OnCourse, Ends, TypeOK
<1>5. ASSUME NEW p \in Named(name), Intact(p)
      PROVE  FALSE
  BY <1>4, <1>5, <1>2 DEF Named, LostAfter, Intact
<1>6. LookupExact'
  BY <1>1, <1>5 DEF LookupExact, Named, IsFirst, Intact
<1>7. HandedOut'
  BY <1>1 DEF HandedOut
<1>8. Chained'
  BY <1>1 DEF IInv, Chained, Ends, EndOf
<1>9. TypeOK' /\ Phases' /\ Walk'
  BY <1>1 DEF IInv, TypeOK, Phases, Walk
<1> QED BY <1>6, <1>7, <1>8, <1>9 DEF IInv

\* The invariant is inductive.
LEMMA NextInv == IInv /\ [Next]_vars => IInv'
<1> SUFFICES ASSUME IInv, [Next]_vars PROVE IInv'
  OBVIOUS
<1>1. CASE SkipFile
  <2>1. /\ arg' \in 0..MaxFiles
        /\ UNCHANGED <<header, pos, wrote, total_length, pc, name, raw, found>>
    BY <1>1, SizesAssumption DEF SkipFile, IInv, TypeOK
  <2> QED BY <2>1 DEF IInv, TypeOK, Chained, Ends, EndOf, Phases, Walk, OnCourse, LostAfter,
                      LookupExact, Named, IsFirst, Intact, HandedOut
<1>2. CASE \E n \in Names, size \in Sizes : WriteFile(n, size) \/ FailRead(n, size)
  BY <1>2, WriterStep
<1>3. CASE Finish
  <2>1. /\ pc = "write" /\ pc' = "idle" /\ total_length' = pos
        /\ UNCHANGED <<arg, header, pos, wrote, name, raw, found>>
    BY <1>3 DEF Finish
  <2>2. raw = 0 /\ found = None
    BY <2>1 DEF IInv, Phases
  <2> QED BY <2>1, <2>2 DEF IInv, TypeOK, Chained, Ends, EndOf, Phases, Walk, LookupExact,
                           HandedOut
<1>4. CASE \E n \in Names : Open(n)
  <2>1. PICK n \in Names : Open(n)
    BY <1>4
  <2>2. /\ pc = "idle" /\ pc' = "scan" /\ name' = n /\ raw' = ImageHeader /\ found' = None
        /\ UNCHANGED <<arg, header, pos, wrote, total_length>>
    BY <2>1 DEF Open, writer
  <2>3. TypeOK'
    BY <2>2, SizesAssumption DEF IInv, TypeOK, None
  <2>4. Chained'
    BY <2>2 DEF IInv, Chained, Ends, EndOf
  <2>5. ImageHeader \in Ends /\ \A q \in DOMAIN header : ~(q < ImageHeader)
    <3>1. DOMAIN header \subseteq Nat /\ ImageHeader \in Nat
      BY SizesAssumption DEF IInv, TypeOK
    <3> QED BY <3>1 DEF IInv, Chained
  <2>6. Walk'
    BY <2>2, <2>5, SizesAssumption DEF Walk, OnCourse, Ends
  <2> QED BY <2>2, <2>3, <2>4, <2>6 DEF IInv, Phases, LookupExact, HandedOut
<1>5. CASE ScanStep
  BY <1>5, FoundStep, WalkStep, NotFoundStep DEF ScanStep
<1>6. CASE UNCHANGED vars
  BY <1>6 DEF vars, IInv, TypeOK, Chained, Ends, EndOf, Phases, Walk, OnCourse, LostAfter,
              LookupExact, Named, IsFirst, Intact, HandedOut
<1> QED BY <1>1, <1>2, <1>3, <1>4, <1>5, <1>6 DEF Next

\* What is handed out lies in the image and meets no other file, by the chain.
LEMMA DataFromChain == IInv => DataInImage
<1> SUFFICES ASSUME IInv, pc = "idle", found # None, DOMAIN header = wrote
             PROVE  /\ found.data + found.size <= total_length
                    /\ \A p \in DOMAIN header :
                          \/ p + FileHeader = found.data
                          \/ p >= found.data + found.size
                          \/ p + FileHeader + header[p].size <= found.data - FileHeader
  BY DEF DataInImage
<1>1. PICK f \in DOMAIN header :
          found = [data |-> f + FileHeader, size |-> header[f].size]
  BY DEF IInv, HandedOut
<1>2. /\ DOMAIN header \subseteq Nat /\ FileHeader \in Nat
      /\ header \in [DOMAIN header -> [name : Names, size : Nat]]
      /\ total_length = pos
  BY SizesAssumption DEF IInv, TypeOK, Phases
<1>3. \A p \in DOMAIN header : EndOf(p) = p + FileHeader + header[p].size
  BY DEF EndOf
<1>4. found.data + found.size = EndOf(f)
  BY <1>1, <1>3
<1>5. found.data - FileHeader = f
  BY <1>1, <1>2
<1>6. ASSUME NEW p \in DOMAIN header
      PROVE  p = f \/ p >= EndOf(f) \/ EndOf(p) <= f
  BY <1>2, <1>3 DEF IInv, Chained
<1> QED BY <1>1, <1>2, <1>3, <1>4, <1>5, <1>6 DEF IInv, Chained

----------------------------------------------------------------------------

\* So it holds in every state.
LEMMA Invariant == Spec => []IInv
<1> QED BY InitInv, NextInv, PTL DEF Spec

\* The variables keep their types, whatever the walk reads.
THEOREM TypeCorrect == Spec => []TypeOK
<1>1. IInv => TypeOK
  BY DEF IInv
<1> QED BY Invariant, <1>1, PTL

\* initrd_open gives the first file written under a name that no failed read
\* precedes, with its place and size, and no file for a name that was not written.
THEOREM LookupIsExact == Spec => []LookupExact
<1>1. IInv => LookupExact
  BY DEF IInv
<1> QED BY Invariant, <1>1, PTL

\* The data of the file_t that initrd_open returns lies in the image and in no
\* other file, if no read failed on the build machine.
THEOREM DataIsInImage == Spec => []DataInImage
<1> QED BY Invariant, DataFromChain, PTL

----------------------------------------------------------------------------
(* That a lookup comes to an end.                                         *)

\* How far the walk has to go, and the step that ends it.
LeftToWalk ==
    CASE pc = "scan" /\ raw < total_length -> total_length - raw + 1
      [] pc = "scan" /\ raw >= total_length -> 1
      [] OTHER -> 0

\* A lookup cannot go on for ever, however many files there are and whatever bytes it
\* takes for headers: each step leaves less to walk.
THEOREM LookupAdvances ==
    Spec => [][pc = "scan" =>
                  ScanStep /\ LeftToWalk' \in Nat /\ LeftToWalk' < LeftToWalk]_vars
<1>1. IInv /\ [Next]_vars =>
        [pc = "scan" => ScanStep /\ LeftToWalk' \in Nat /\ LeftToWalk' < LeftToWalk]_vars
  <2> SUFFICES ASSUME IInv, Next, pc = "scan"
               PROVE  ScanStep /\ LeftToWalk' \in Nat /\ LeftToWalk' < LeftToWalk
    OBVIOUS
  <2>1. ScanStep
    BY DEF Next, SkipFile, WriteFile, FailRead, Finish, Open
  <2>2. /\ raw \in Nat /\ total_length \in Nat
        /\ header \in [DOMAIN header -> [name : Names, size : Nat]]
    BY DEF IInv, TypeOK
  <2>3. LeftToWalk = IF raw < total_length THEN total_length - raw + 1 ELSE 1
    BY <2>2 DEF LeftToWalk
  <2>4. CASE Found \/ NotFound
    <3>1. LeftToWalk' = 0
      BY <2>4 DEF Found, NotFound, LeftToWalk
    <3> QED BY <2>1, <2>2, <2>3, <3>1
  <2>5. CASE NextFile
    <3>1. PICK h \in HeaderAt : raw' = raw + FileHeader + h.size
      BY <2>5 DEF NextFile, NextRaw
    <3>2. h.size \in Nat /\ FileHeader \in Nat \ {0}
      BY <2>2, SizesAssumption DEF HeaderAt
    <3>3. raw < total_length /\ pc' = "scan" /\ total_length' = total_length
      BY <2>5 DEF NextFile, Scanning, writer
    <3>4. raw' \in Nat /\ raw' > raw
      BY <2>2, <3>1, <3>2
    <3>5. LeftToWalk' = IF raw' < total_length THEN total_length - raw' + 1 ELSE 1
      BY <2>2, <3>3, <3>4 DEF LeftToWalk
    <3> QED BY <2>1, <2>2, <2>3, <3>3, <3>4, <3>5
  <2> QED BY <2>1, <2>4, <2>5 DEF ScanStep
<1> QED BY <1>1, Invariant, PTL DEF Spec

=============================================================================
