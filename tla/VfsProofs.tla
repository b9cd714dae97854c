----------------------------- MODULE VfsProofs -----------------------------
(***************************************************************************)
(* Proofs about Vfs, for every set of drivers, locations, paths and files:  *)
(* that a search finds the deepest mount point that leads to a path, and    *)
(* that an open file stays with the device and the place it was found at.   *)
(*                                                                         *)
(* What is left of a path in a search is one of its levels: the path        *)
(* itself, or the path cut behind its k-th slash.  The invariant says that  *)
(* no mount point stands at a level the search has gone past, and that the  *)
(* second search, the file system's own, has not gone past the mount point  *)
(* the first one found.                                                     *)
(***************************************************************************)
EXTENDS Vfs, SequenceTheorems, WellFoundedInduction, TLAPS

Names == STRING \cup {NoName}

\* The path cut behind its k-th slash.
Cut(p, k) == SubSeq(p, 1, k) \o <<NoName>>

\* What is left of p at its n-th level.
Level(p, n) == IF n = Len(p) THEN p ELSE Cut(p, n)

----------------------------------------------------------------------------
(* Paths.                                                                  *)

\* The first words of a path.
LEMMA FirstWords ==
    ASSUME NEW p \in Seq(Names), NEW k \in 0..Len(p)
    PROVE  /\ SubSeq(p, 1, k) \in Seq(Names) /\ Len(SubSeq(p, 1, k)) = k
           /\ \A i \in 1..k : SubSeq(p, 1, k)[i] = p[i]
<1>1. Len(p) \in Nat /\ k \in Nat
  BY LenProperties
<1>2. ASSUME NEW i \in 1..k PROVE p[i] \in Names
  <2>1. i \in 1..Len(p)
    BY <1>1
  <2> QED BY <2>1, ElementOfSeq, Zenon
<1> PICK u : u = SubSeq(p, 1, k)
  OBVIOUS
<1>3. /\ u \in Seq(Names) /\ Len(u) = IF 1 <= k THEN k - 1 + 1 ELSE 0
      /\ \A i \in 1..(k - 1 + 1) : u[i] = p[1 + i - 1]
  BY <1>1, <1>2, SubSeqProperties
<1>4. k - 1 + 1 = k /\ \A i \in 1..k : 1 + i - 1 = i
  BY <1>1
<1>5. Len(u) = k
  BY <1>1, <1>3
<1> QED BY <1>3, <1>4, <1>5

\* A path cut behind a slash has the words before it, and a last one that is empty.
LEMMA CutWords ==
    ASSUME NEW p \in Seq(Names), NEW k \in 0..Len(p)
    PROVE  /\ Cut(p, k) \in Seq(Names) /\ Len(Cut(p, k)) = k + 1
           /\ \A i \in 1..k : Cut(p, k)[i] = p[i]
           /\ Cut(p, k)[k + 1] = NoName
<1> PICK s : s = SubSeq(p, 1, k)
  OBVIOUS
<1> PICK t : t = <<NoName>>
  OBVIOUS
<1> PICK u : u = s \o t
  OBVIOUS
<1>1. k \in Nat
  BY LenProperties
<1>2. s \in Seq(Names) /\ Len(s) = k /\ \A i \in 1..k : s[i] = p[i]
  BY FirstWords
<1>3. t \in Seq(Names) /\ Len(t) = 1 /\ t[1] = NoName
  BY DEF Names
<1>4. /\ u \in Seq(Names) /\ Len(u) = Len(s) + Len(t)
      /\ \A i \in 1..(Len(s) + Len(t)) : u[i] = IF i <= Len(s) THEN s[i] ELSE t[i - Len(s)]
  <2>1. s \in Seq(Names) /\ t \in Seq(Names)
    BY <1>2, <1>3
  <2> QED BY <2>1, ConcatProperties
<1>5. Len(u) = k + 1 /\ \A i \in 1..(k + 1) : u[i] = IF i <= k THEN s[i] ELSE t[i - k]
  BY <1>2, <1>3, <1>4
<1>6. u[k + 1] = NoName
  <2>1. k + 1 \in 1..(k + 1) /\ ~(k + 1 <= k) /\ (k + 1) - k = 1
    BY <1>1
  <2> QED BY <1>3, <1>5, <2>1
<1>7. \A i \in 1..k : u[i] = p[i]
  BY <1>1, <1>2, <1>5
<1>8. u = Cut(p, k)
  BY DEF Cut
<1> QED BY <1>4, <1>5, <1>6, <1>7, <1>8

\* What comes before a path's last slash when it has been cut there.
LEMMA FrontOfCut ==
    ASSUME NEW p \in Seq(Names), NEW k \in 0..Len(p)
    PROVE  Last(Cut(p, k)) = NoName /\ Front(Cut(p, k)) = SubSeq(p, 1, k)
<1> PICK u : u = Cut(p, k)
  OBVIOUS
<1>1. /\ u \in Seq(Names) /\ Len(u) = k + 1
      /\ \A i \in 1..k : u[i] = p[i]
      /\ u[k + 1] = NoName /\ k \in Nat
  BY CutWords, LenProperties
<1>2. Last(u) = NoName
  BY <1>1 DEF Last
<1>3. Front(u) = SubSeq(u, 1, k)
  <2>1. (k + 1) - 1 = k
    BY <1>1
  <2> QED BY <1>1, <2>1 DEF Front
<1>4. SubSeq(u, 1, k) = SubSeq(p, 1, k)
  <2>1. k \in 0..Len(u)
    BY <1>1
  <2> PICK v : v = SubSeq(u, 1, k)
    OBVIOUS
  <2> PICK w : w = SubSeq(p, 1, k)
    OBVIOUS
  <2>2. v \in Seq(Names) /\ Len(v) = k /\ \A i \in 1..k : v[i] = u[i]
    BY <1>1, <2>1, FirstWords
  <2>3. w \in Seq(Names) /\ Len(w) = k /\ \A i \in 1..k : w[i] = p[i]
    BY FirstWords
  <2>4. \A i \in 1..k : v[i] = w[i]
    BY <1>1, <2>2, <2>3
  <2> QED BY <2>2, <2>3, <2>4, SeqEqual
<1> QED BY <1>2, <1>3, <1>4

\* A path that ends with a slash is what it is when cut behind that.
LEMMA CutAtEnd ==
    ASSUME NEW p \in Seq(Names), p # <<>>, Last(p) = NoName
    PROVE  Cut(p, Len(p) - 1) = p
<1> PICK n : n = Len(p)
  OBVIOUS
<1>1. n \in Nat /\ n >= 1 /\ n - 1 \in 0..Len(p)
  BY EmptySeq
<1> PICK u : u = Cut(p, n - 1)
  OBVIOUS
<1>2. /\ u \in Seq(Names) /\ Len(u) = (n - 1) + 1
      /\ \A i \in 1..(n - 1) : u[i] = p[i]
      /\ u[(n - 1) + 1] = NoName
  BY <1>1, CutWords
<1>3. (n - 1) + 1 = n /\ p[n] = NoName
  BY <1>1 DEF Last
<1>4. \A i \in 1..n : u[i] = p[i]
  <2>1. \A i \in 1..n : i = n \/ i \in 1..(n - 1)
    BY <1>1
  <2> QED BY <1>2, <1>3, <2>1
<1>5. Len(u) = Len(p)
  BY <1>2, <1>3
<1>6. u = p
  BY <1>2, <1>4, <1>5, SeqEqual
<1> QED BY <1>6

\* Cutting twice is cutting at the earlier slash.
LEMMA CutTwice ==
    ASSUME NEW p \in Seq(Names), NEW k \in 0..Len(p), NEW j \in 0..k
    PROVE  Cut(Cut(p, k), j) = Cut(p, j)
<1> PICK u : u = Cut(p, k)
  OBVIOUS
<1>1. /\ u \in Seq(Names) /\ Len(u) = k + 1
      /\ \A i \in 1..k : u[i] = p[i] /\ k \in Nat
  BY CutWords, LenProperties
<1>2. j \in 0..Len(u) /\ j \in 0..Len(p)
  BY <1>1, LenProperties
<1> PICK v : v = Cut(u, j)
  OBVIOUS
<1> PICK w : w = Cut(p, j)
  OBVIOUS
<1>3. /\ v \in Seq(Names) /\ Len(v) = j + 1
      /\ \A i \in 1..j : v[i] = u[i]
      /\ v[j + 1] = NoName
  BY <1>1, <1>2, CutWords
<1>4. /\ w \in Seq(Names) /\ Len(w) = j + 1
      /\ \A i \in 1..j : w[i] = p[i]
      /\ w[j + 1] = NoName
  BY <1>2, CutWords
<1>5. \A i \in 1..(j + 1) : v[i] = w[i]
  <2>1. \A i \in 1..(j + 1) : i = j + 1 \/ i \in 1..j
    BY <1>2
  <2>2. \A i \in 1..j : i \in 1..k
    OBVIOUS
  <2> QED BY <1>1, <1>3, <1>4, <2>1, <2>2
<1>6. v = w
  BY <1>3, <1>4, <1>5, SeqEqual
<1> QED BY <1>6

\* remove_until takes what is left of a path to an earlier level, passing over
\* nothing else: between the two there is only what was left already.
LEMMA RemovedLevel ==
    ASSUME NEW p \in Seq(Names), p # <<>>, NEW n \in 1..Len(p)
    PROVE  \E m \in 1..n : /\ RemoveUntil(Level(p, n)) = Level(p, m)
                           /\ \A i \in (m + 1)..n : Level(p, i) = Level(p, n)
<1> PICK l : l = Len(p)
  OBVIOUS
<1>1. l \in Nat /\ l >= 1
  BY EmptySeq
<1>2. CASE RemoveUntil(Level(p, n)) = Level(p, n)
  <2>1. n \in 1..n /\ \A i \in (n + 1)..n : FALSE
    OBVIOUS
  <2> QED BY <1>2, <2>1
<1>3. CASE RemoveUntil(Level(p, n)) # Level(p, n) /\ n = l
  <2>1. Level(p, n) = p
    BY <1>3 DEF Level
  <2>2. CASE Last(p) = NoName
    <3>1. l - 2 > 0 /\ RemoveUntil(p) = Cut(p, l - 2)
      BY <1>1, <1>3, <2>1, <2>2 DEF RemoveUntil, Cut
    <3>2. l - 2 \in 1..n /\ l - 2 # l
      BY <1>1, <1>3, <3>1
    <3>3. RemoveUntil(p) = Level(p, l - 2)
      BY <3>1, <3>2 DEF Level
    <3>4. Level(p, l - 1) = p
      <4>1. l - 1 # l
        BY <1>1
      <4> QED BY <2>2, <4>1, CutAtEnd DEF Level
    <3>5. \A i \in ((l - 2) + 1)..n : i = l - 1 \/ i = n
      BY <1>1, <1>3
    <3>6. \A i \in ((l - 2) + 1)..n : Level(p, i) = p
      BY <2>1, <3>4, <3>5
    <3> QED BY <2>1, <3>2, <3>3, <3>6
  <2>3. CASE Last(p) # NoName
    <3>1. l - 1 > 0 /\ RemoveUntil(p) = Cut(p, l - 1)
      BY <1>1, <1>3, <2>1, <2>3 DEF RemoveUntil, Cut
    <3>2. l - 1 \in 1..n /\ l - 1 # l
      BY <1>1, <1>3, <3>1
    <3>3. RemoveUntil(p) = Level(p, l - 1)
      BY <3>1, <3>2 DEF Level
    <3>4. \A i \in ((l - 1) + 1)..n : i = n
      BY <1>1, <1>3
    <3> QED BY <2>1, <3>2, <3>3, <3>4
  <2> QED BY <2>2, <2>3
<1>4. CASE RemoveUntil(Level(p, n)) # Level(p, n) /\ n # l
  <2> PICK q : q = Cut(p, n)
    OBVIOUS
  <2>1. Level(p, n) = q /\ n \in 0..Len(p)
    BY <1>4 DEF Level
  <2>2. Len(q) = n + 1 /\ Last(q) = NoName
    BY <2>1, CutWords, FrontOfCut
  <2>3. (n + 1) - 2 = n - 1 /\ n - 1 \in 0..n
    OBVIOUS
  <2>4. n - 1 > 0 /\ RemoveUntil(q) = Cut(q, n - 1)
    BY <1>4, <2>1, <2>2, <2>3 DEF RemoveUntil, Cut
  <2>5. Cut(q, n - 1) = Cut(p, n - 1)
    BY <2>1, <2>3, CutTwice
  <2>6. n - 1 \in 1..n /\ n - 1 # l /\ \A i \in ((n - 1) + 1)..n : i = n
    BY <2>4
  <2>7. RemoveUntil(q) = Level(p, n - 1)
    BY <2>4, <2>5, <2>6 DEF Level
  <2> QED BY <2>1, <2>6, <2>7
<1> QED BY <1>2, <1>3, <1>4

\* Each level of a path leads to it ...
LEMMA LevelLeads ==
    ASSUME NEW p \in Seq(Names), NEW n \in 1..Len(p)
    PROVE  Leads(Level(p, n), p)
<1>1. CASE n = Len(p)
  BY <1>1 DEF Level, Leads
<1>2. CASE n # Len(p)
  <2> PICK u : u = SubSeq(p, 1, n)
    OBVIOUS
  <2>1. n \in 0..Len(p) /\ Len(p) \in Nat
    BY LenProperties
  <2>2. Level(p, n) = Cut(p, n) /\ Last(Cut(p, n)) = NoName /\ Front(Cut(p, n)) = u
    BY <1>2, <2>1, FrontOfCut DEF Level
  <2>3. u \in Seq(Names) /\ Len(u) = n
    BY <2>1, FirstWords
  <2>4. SubSeq(u, 1, Len(u)) = u
    BY <2>3, SubSeqFull
  <2>5. Len(u) <= Len(p) /\ u # p
    BY <1>2, <2>1, <2>3
  <2>6. IsStrictPrefix(u, p)
    BY <2>3, <2>4, <2>5 DEF IsStrictPrefix, IsPrefix
  <2> QED BY <2>2, <2>6 DEF Leads
<1> QED BY <1>1, <1>2

\* ... and nothing else does.
LEMMA LeadsIsLevel ==
    ASSUME NEW p \in Seq(Names), p # <<>>, NEW loc \in Seq(Names), Len(loc) >= 2,
           Leads(loc, p), loc # p
    PROVE  \E n \in 1..(Len(p) - 1) : loc = Level(p, n) /\ Len(loc) = n + 1
<1> PICK n : n = Len(loc) - 1
  OBVIOUS
<1> PICK u : u = Front(loc)
  OBVIOUS
<1>1. Len(loc) \in Nat /\ Len(p) \in Nat /\ n \in 1..Len(loc) /\ Len(loc) = n + 1
  <2>1. Len(loc) \in Nat /\ Len(p) \in Nat
    BY LenProperties
  <2> QED BY <2>1
<1>2. Last(loc) = NoName /\ IsStrictPrefix(u, p)
  BY DEF Leads
<1>3. u = SubSeq(loc, 1, n) /\ u \in Seq(Names) /\ Len(u) = n
  <2>1. u = SubSeq(loc, 1, n)
    BY DEF Front
  <2>2. n \in 0..Len(loc)
    BY <1>1
  <2> QED BY <2>1, <2>2, FirstWords
<1>4. n <= Len(p) /\ SubSeq(u, 1, n) = SubSeq(p, 1, n) /\ u # p
  BY <1>2, <1>3 DEF IsStrictPrefix, IsPrefix
<1>5. u = SubSeq(p, 1, n)
  BY <1>3, <1>4, SubSeqFull
<1>6. n \in 1..(Len(p) - 1)
  <2>1. n # Len(p)
    BY <1>4, <1>5, SubSeqFull
  <2> QED BY <1>1, <1>4, <2>1
<1>7. loc = Cut(loc, n)
  <2>1. loc # <<>>
    BY <1>1
  <2>2. Len(loc) - 1 = n
    BY <1>1
  <2> QED BY <1>2, <2>1, <2>2, CutAtEnd
<1>8. Cut(loc, n) = Cut(p, n)
  BY <1>3, <1>5 DEF Cut
<1>9. n # Len(p)
  BY <1>1, <1>6
<1> QED BY <1>1, <1>6, <1>7, <1>8, <1>9 DEF Level

\* What initrd_open looks up is what stands behind the slash the path was cut at.
LEMMA RestOfPath ==
    ASSUME NEW p \in Seq(Names), NEW n \in 1..Len(p), Rest(p, Level(p, n)) # <<NoName>>
    PROVE  p = Front(Level(p, n)) \o Rest(p, Level(p, n))
<1>1. Len(p) \in Nat /\ n \in 0..Len(p)
  BY LenProperties
<1>2. Level(p, n) # p /\ Level(p, n) = Cut(p, n)
  BY DEF Rest, Level
<1>3. Rest(p, Level(p, n)) = SubSeq(p, n + 1, Len(p))
  <2>1. Len(Cut(p, n)) = n + 1
    BY <1>1, CutWords
  <2> QED BY <1>2, <2>1 DEF Rest
<1>4. Front(Level(p, n)) = SubSeq(p, 1, n)
  BY <1>1, <1>2, FrontOfCut
<1>5. SubSeq(p, 1, n) \o SubSeq(p, n + 1, Len(p)) = SubSeq(p, 1, Len(p))
  <2>1. 1 \in 1..(Len(p) + 1) /\ n \in (1 - 1)..Len(p) /\ Len(p) \in n..Len(p)
    BY <1>1
  <2> QED BY <2>1, ConcatAdjacentSubSeq
<1>6. SubSeq(p, 1, Len(p)) = p
  BY SubSeqFull
<1> QED BY <1>3, <1>4, <1>5, <1>6

----------------------------------------------------------------------------
(* The invariant.                                                          *)

\* The mount points have different locations, and devices that exist.
MountsSound ==
    /\ devices \in Seq(Drivers) /\ Len(devices) <= DeviceCount
    /\ mounts \in Seq([location : Locations, device : 1..Len(devices)])
    /\ \A i, j \in 1..Len(mounts) : mounts[i].location = mounts[j].location => i = j

\* No mount point stands at a level of p deeper than n.
NoneDeeper(p, n) ==
    \A j \in 1..Len(mounts), m \in (n + 1)..Len(p) : mounts[j].location # Level(p, m)

\* What is left of the path is one of its levels.  The first search has seen all
\* mount points deeper than that; the second has still to come to what the first
\* one found.
SearchSound ==
    /\ call = [op |-> call.op, path |-> call.path, filename |-> call.filename,
               mount |-> call.mount]
    /\ call.op \in {"idle", "vfs_open", "initrd_open"}
    /\ call.mount \in (1..Len(mounts)) \cup {None}
    /\ call.op # "idle" => call.path \in Paths
    /\ call.op = "vfs_open" =>
          \E n \in 1..Len(call.path) :
             call.filename = Level(call.path, n) /\ NoneDeeper(call.path, n)
    /\ call.op = "initrd_open" =>
          /\ call.mount \in 1..Len(mounts)
          /\ \E n \in 1..Len(call.path), c \in 1..Len(call.path) :
                /\ c <= n
                /\ call.filename = Level(call.path, n)
                /\ mounts[call.mount].location = Level(call.path, c)
                /\ NoneDeeper(call.path, c)

\* The files that may be open: each on the device its mount point has, under the
\* name that follows the mount point's location in its path.
OpenFiles ==
    {f \in [path : Paths, name : Files, mount_index : 1..Len(mounts), device : 1..Len(devices)] :
        /\ mounts[f.mount_index].device = f.device
        /\ f.path = Front(mounts[f.mount_index].location) \o f.name}

IInv ==
    /\ MountsSound /\ SearchSound
    /\ files \in Seq(OpenFiles)
    /\ mode \in {"running", "halted"}

----------------------------------------------------------------------------
(* Devices and mount points.                                               *)

\* The least of some numbers is one of them.
LEMMA LeastOf ==
    ASSUME NEW S \in SUBSET Nat, S # {}
    PROVE  Min(S) \in S
<1>1. \E x \in S : \A y \in S : x <= y
  <2> DEFINE R == OpToRel(<, Nat)
  <2>1. IsWellFoundedOn(R, Nat)
    BY NatLessThanWellFounded
  <2>2. PICK x \in S : \A y \in S : ~(<<y, x>> \in R)
    BY <2>1, WFMin, Zenon
  <2>3. ASSUME NEW y \in S PROVE x <= y
    <3>1. x \in Nat /\ y \in Nat
      BY <2>2
    <3>2. ~(y < x)
      BY <2>2, <3>1 DEF OpToRel
    <3> HIDE DEF R
    <3> QED BY <3>1, <3>2
  <2> QED BY <2>3
<1> QED BY <1>1 DEF Min

\* A device is found if there is one.
LEMMA FoundSlot ==
    ASSUME NEW table \in Seq(Drivers), NEW j \in 1..Len(table)
    PROVE  OfUid(table, table[j].uid) \in 1..Len(table)
<1> DEFINE I == {i \in 1..Len(table) : table[i].uid = table[j].uid}
<1>1. I # {} /\ I \in SUBSET Nat
  OBVIOUS
<1>2. Min(I) \in I
  BY <1>1, LeastOf
<1>3. OfUid(table, table[j].uid) = Min(I)
  BY <1>1 DEF OfUid, SelectInSeq
<1> QED BY <1>2, <1>3

\* A sequence over a set is one over a wider set.
LEMMA WiderSet ==
    ASSUME NEW S, NEW T, S \subseteq T, NEW s \in Seq(S)
    PROVE  s \in Seq(T)
OBVIOUS

\* Mount points are mount points still when there are more devices.
LEMMA MoreDevices ==
    ASSUME NEW m \in Nat, NEW n \in Nat, m <= n,
           NEW s \in Seq([location : Locations, device : 1..m])
    PROVE  s \in Seq([location : Locations, device : 1..n])
<1> DEFINE S == [location : Locations, device : 1..m]
           T == [location : Locations, device : 1..n]
<1>1. S \subseteq T
  <2>1. \A e \in S : e \in T
    OBVIOUS
  <2> QED BY <2>1, Zenon
<1>2. s \in Seq(S)
  OBVIOUS
<1> HIDE DEF S, T
<1>3. s \in Seq(T)
  BY <1>1, <1>2, WiderSet
<1> QED BY <1>3 DEF T

\* A path and a location are sequences of names.
LEMMA PathsAreNames ==
    /\ \A p \in Paths : p \in Seq(Names) /\ p # <<>>
    /\ \A loc \in Locations : loc \in Seq(Names) /\ Len(loc) >= 2
<1>1. \A s \in Seq(STRING) : s \in Seq(Names)
  BY DEF Names
<1> QED BY <1>1, PathAssumption, Zenon

\* The firmware's state: nothing registered, mounted or open.
LEMMA Starts == Init => IInv
<1> SUFFICES ASSUME Init PROVE IInv
  OBVIOUS
<1>1. /\ devices = <<>> /\ mounts = <<>> /\ files = <<>> /\ mode = "running"
      /\ call.op = "idle" /\ call.mount = None
      /\ call = [op |-> call.op, path |-> call.path, filename |-> call.filename,
                mount |-> call.mount]
  BY DEF Init, Idle
<1>2. MountsSound
  BY <1>1, DeviceAssumption DEF MountsSound
<1>3. SearchSound
  BY <1>1 DEF SearchSound
<1> QED BY <1>1, <1>2, <1>3 DEF IInv

\* Files stay open as they are while devices and mount points are added.
LEMMA FilesStay ==
    ASSUME files \in Seq(OpenFiles), UNCHANGED files,
           Len(devices) \in Nat, Len(devices') \in Nat, Len(devices) <= Len(devices'),
           Len(mounts) \in Nat, Len(mounts') \in Nat, Len(mounts) <= Len(mounts'),
           \A i \in 1..Len(mounts) : mounts'[i] = mounts[i]
    PROVE  files' \in Seq(OpenFiles')
<1>1. OpenFiles \subseteq OpenFiles'
  <2> SUFFICES ASSUME NEW f \in OpenFiles PROVE f \in OpenFiles'
    OBVIOUS
  <2>1. /\ f \in [path : Paths, name : Files, mount_index : 1..Len(mounts),
                  device : 1..Len(devices)]
        /\ mounts[f.mount_index].device = f.device
        /\ f.path = Front(mounts[f.mount_index].location) \o f.name
    BY DEF OpenFiles
  <2>2. f.mount_index \in 1..Len(mounts) /\ mounts'[f.mount_index] = mounts[f.mount_index]
    BY <2>1
  <2>3. f \in [path : Paths, name : Files, mount_index : 1..Len(mounts'),
               device : 1..Len(devices')]
    BY <2>1
  <2> QED BY <2>1, <2>2, <2>3 DEF OpenFiles
<1>2. PICK S, T : S = OpenFiles /\ T = OpenFiles'
  OBVIOUS
<1>3. S \subseteq T /\ files \in Seq(S)
  BY <1>1, <1>2
<1>4. files \in Seq(T)
  BY <1>3, WiderSet
<1> QED BY <1>2, <1>4

\* A mount point is added where there was none, on a device that exists.
LEMMA MountKeeps ==
    ASSUME IInv, call = Idle, UNCHANGED <<files, call>>,
           NEW table, table = devices', table \in Seq(Drivers),
           Len(devices) <= Len(table), Len(table) <= DeviceCount,
           NEW i \in 1..Len(table), NEW loc \in Locations, Mount(table, i, loc)
    PROVE  IInv'
<1> PICK M : M = [location : Locations, device : 1..Len(table)]
  OBVIOUS
<1>1. /\ Len(devices) \in Nat /\ Len(table) \in Nat /\ Len(mounts) \in Nat
      /\ mounts \in Seq([location : Locations, device : 1..Len(devices)])
      /\ \A k, j \in 1..Len(mounts) : mounts[k].location = mounts[j].location => k = j
      /\ files \in Seq(OpenFiles) /\ mode \in {"running", "halted"}
  BY LenProperties DEF IInv, MountsSound
<1>2. mounts \in Seq(M)
  BY <1>1, MoreDevices
<1>3. /\ mode' \in {"running", "halted"}
      /\ \/ mounts' = mounts
         \/ ~MountedAt(loc) /\ mounts' = Append(mounts, [location |-> loc, device |-> i])
  BY <1>1 DEF Mount, MountPoint
<1>4. /\ mounts' \in Seq(M) /\ Len(mounts') \in Nat /\ Len(mounts) <= Len(mounts')
      /\ \A k \in 1..Len(mounts) : mounts'[k] = mounts[k]
      /\ \A k, j \in 1..Len(mounts') : mounts'[k].location = mounts'[j].location => k = j
  <2>1. CASE mounts' = mounts
    BY <1>1, <1>2, <2>1
  <2>2. CASE ~MountedAt(loc) /\ mounts' = Append(mounts, [location |-> loc, device |-> i])
    <3> PICK e : e = [location |-> loc, device |-> i]
      OBVIOUS
    <3> PICK new : new = Append(mounts, e)
      OBVIOUS
    <3>1. e \in M /\ e.location = loc
      OBVIOUS
    <3>2. /\ new \in Seq(M) /\ Len(new) = Len(mounts) + 1
          /\ \A k \in 1..Len(mounts) : new[k] = mounts[k]
          /\ new[Len(mounts) + 1] = e
      BY <1>2, <3>1, AppendProperties
    <3>3. \A k \in 1..Len(mounts) : mounts[k].location # loc
      <4>1. DOMAIN mounts = 1..Len(mounts)
        BY <1>2, LenProperties
      <4> QED BY <2>2, <4>1 DEF MountedAt
    <3>4. ASSUME NEW k \in 1..Len(new), NEW j \in 1..Len(new), new[k].location = new[j].location
          PROVE  k = j
      <4>1. k \in 1..Len(mounts) \/ k = Len(mounts) + 1
        BY <1>1, <3>2
      <4>2. j \in 1..Len(mounts) \/ j = Len(mounts) + 1
        BY <1>1, <3>2
      <4> QED BY <1>1, <3>1, <3>2, <3>3, <3>4, <4>1, <4>2
    <3>5. new = mounts' /\ Len(new) \in Nat /\ Len(mounts) <= Len(new)
      BY <1>1, <2>2, <3>2
    <3> QED BY <3>2, <3>4, <3>5
  <2> QED BY <1>3, <2>1, <2>2
<1>5. MountsSound'
  BY <1>4 DEF MountsSound
<1>6. SearchSound'
  BY DEF SearchSound, Idle
<1>7. files' \in Seq(OpenFiles')
  BY <1>1, <1>4, FilesStay
<1> QED BY <1>3, <1>5, <1>6, <1>7 DEF IInv

\* A driver registers a device and mounts what it finds under its uid.
LEMMA InitDriverKeeps ==
    \A d \in Drivers, loc \in Locations : IInv /\ InitDriver(d, loc) => IInv'
<1> SUFFICES ASSUME NEW d \in Drivers, NEW loc \in Locations, IInv, InitDriver(d, loc)
             PROVE  IInv'
  OBVIOUS
<1> PICK table : table = Append(devices, d)
  OBVIOUS
<1>1. /\ call = Idle /\ Len(devices) < DeviceCount /\ devices' = table
      /\ Mount(table, OfUid(table, d.uid), loc) /\ UNCHANGED <<files, call>>
  BY DEF InitDriver, Ready, device_register
<1>2. devices \in Seq(Drivers) /\ Len(devices) \in Nat
  BY LenProperties DEF IInv, MountsSound
<1>3. table \in Seq(Drivers) /\ Len(table) = Len(devices) + 1 /\ table[Len(devices) + 1] = d
  BY <1>2, AppendProperties
<1>4. OfUid(table, d.uid) \in 1..Len(table)
  <2>1. Len(devices) + 1 \in 1..Len(table)
    BY <1>2, <1>3
  <2> QED BY <1>3, <2>1, FoundSlot
<1>5. Len(devices) <= Len(table) /\ Len(table) <= DeviceCount
  BY <1>1, <1>2, <1>3, DeviceAssumption
<1> QED BY <1>1, <1>3, <1>4, <1>5, MountKeeps

\* A device registered before is mounted once more.
LEMMA VfsMountKeeps ==
    \A i \in DOMAIN devices, loc \in Locations : IInv /\ vfs_mount(i, loc) => IInv'
<1> SUFFICES ASSUME NEW i \in DOMAIN devices, NEW loc \in Locations, IInv, vfs_mount(i, loc)
             PROVE  IInv'
  OBVIOUS
<1>1. /\ call = Idle /\ Mount(devices, i, loc) /\ UNCHANGED <<devices, files, call>>
  BY DEF vfs_mount, Ready
<1>2. devices \in Seq(Drivers) /\ Len(devices) <= DeviceCount
  BY DEF IInv, MountsSound
<1>3. i \in 1..Len(devices) /\ Len(devices) <= Len(devices)
  BY <1>2, LenProperties
<1> QED BY <1>1, <1>2, <1>3, MountKeeps

----------------------------------------------------------------------------
(* The search for a mount point.                                           *)

\* What a step of a search leaves.
LEMMA SearchKeeps ==
    ASSUME IInv, UNCHANGED <<devices, mounts, mode>>, SearchSound', files' \in Seq(OpenFiles)
    PROVE  IInv'
<1>1. MountsSound' /\ mode' \in {"running", "halted"}
  BY DEF IInv, MountsSound
<1>2. OpenFiles' = OpenFiles
  BY DEF OpenFiles
<1> QED BY <1>1, <1>2 DEF IInv

\* A search begins with the whole path, and nothing is deeper than that.
LEMMA VfsOpenKeeps == \A p \in Paths : IInv /\ vfs_open(p) => IInv'
<1> SUFFICES ASSUME NEW p \in Paths, IInv, vfs_open(p) PROVE IInv'
  OBVIOUS
<1>1. /\ call' = [op |-> "vfs_open", path |-> p, filename |-> p, mount |-> None]
      /\ UNCHANGED <<devices, mounts, files, mode>>
  BY DEF vfs_open, Ready, Idle
<1>2. p \in Seq(Names) /\ p # <<>>
  BY PathsAreNames
<1>3. Len(p) \in Nat /\ Len(p) \in 1..Len(p)
  BY <1>2, EmptySeq
<1>4. Level(p, Len(p)) = p /\ NoneDeeper(p, Len(p))'
  BY <1>3 DEF Level, NoneDeeper
<1>5. SearchSound'
  BY <1>1, <1>3, <1>4 DEF SearchSound
<1> QED BY <1>1, <1>5, SearchKeeps DEF IInv

\* What the invariant says of a search under way.
LEMMA Searching ==
    ASSUME IInv, Resolving
    PROVE  /\ call.path \in Paths /\ call.path \in Seq(Names) /\ call.path # <<>>
           /\ Len(call.path) \in Nat /\ Len(mounts) \in Nat
           /\ DOMAIN mounts = 1..Len(mounts)
           /\ \A j \in 1..Len(mounts) :
                 /\ mounts[j].location \in Locations
                 /\ mounts[j].location \in Seq(Names) /\ Len(mounts[j].location) >= 2
                 /\ mounts[j].device \in 1..Len(devices)
<1>1. call.path \in Paths
  BY DEF IInv, SearchSound, Resolving
<1>2. call.path \in Seq(Names) /\ call.path # <<>>
  BY <1>1, PathsAreNames
<1>3. Len(call.path) \in Nat
  BY <1>2, LenProperties
<1>4. mounts \in Seq([location : Locations, device : 1..Len(devices)])
  BY DEF IInv, MountsSound
<1>5. Len(mounts) \in Nat /\ DOMAIN mounts = 1..Len(mounts)
  BY <1>4, LenProperties
<1>6. ASSUME NEW j \in 1..Len(mounts)
      PROVE  mounts[j] \in [location : Locations, device : 1..Len(devices)]
  BY <1>4, ElementOfSeq, Zenon
<1>7. ASSUME NEW j \in 1..Len(mounts)
      PROVE  mounts[j].location \in Locations /\ mounts[j].device \in 1..Len(devices)
  BY <1>6
<1> QED BY <1>1, <1>2, <1>3, <1>5, <1>7, PathsAreNames

\* A search that has seen nothing yet goes on having seen nothing, and does not go
\* past a mount point it has not seen.
LEMMA CutPathKeeps == IInv /\ CutPath => IInv'
<1> SUFFICES ASSUME IInv, CutPath PROVE IInv'
  OBVIOUS
<1>1. /\ Resolving /\ Matches = {}
      /\ call' = [call EXCEPT !.filename = RemoveUntil(@)]
      /\ UNCHANGED <<devices, mounts, files, mode>>
  BY DEF CutPath
<1> PICK p : p = call.path
  OBVIOUS
<1>2. p \in Paths /\ p \in Seq(Names) /\ p # <<>> /\ Len(p) \in Nat
  BY <1>1, Searching
<1>3. \A j \in 1..Len(mounts) : mounts[j].location # call.filename
  BY <1>1, Searching DEF Matches
<1>4. ASSUME NEW n \in 1..Len(p), call.filename = Level(p, n)
      PROVE  \E m \in 1..n :
                /\ RemoveUntil(call.filename) = Level(p, m)
                /\ \A i \in (m + 1)..n : Level(p, i) = call.filename
  <2> PICK m \in 1..n : /\ RemoveUntil(Level(p, n)) = Level(p, m)
                        /\ \A i \in (m + 1)..n : Level(p, i) = Level(p, n)
    BY <1>2, RemovedLevel
  <2> QED BY <1>4
<1>5. /\ call'.op = call.op /\ call'.path = p /\ call'.mount = call.mount
      /\ call'.filename = RemoveUntil(call.filename)
      /\ call' = [op |-> call'.op, path |-> call'.path, filename |-> call'.filename,
                 mount |-> call'.mount]
  <2> PICK r : r = RemoveUntil(call.filename)
    OBVIOUS
  <2>1. call' = [op |-> call.op, path |-> p, filename |-> r, mount |-> call.mount]
    BY <1>1 DEF IInv, SearchSound
  <2> QED BY <2>1
<1>6. CASE call.op = "vfs_open"
  <2>1. PICK n \in 1..Len(p) : call.filename = Level(p, n) /\ NoneDeeper(p, n)
    BY <1>6 DEF IInv, SearchSound
  <2>2. PICK m \in 1..n : /\ RemoveUntil(call.filename) = Level(p, m)
                         /\ \A i \in (m + 1)..n : Level(p, i) = call.filename
    BY <1>4, <2>1
  <2>3. NoneDeeper(p, m)
    <3> SUFFICES ASSUME NEW j \in 1..Len(mounts), NEW i \in (m + 1)..Len(p)
                 PROVE  mounts[j].location # Level(p, i)
      BY DEF NoneDeeper
    <3>1. CASE i <= n
      <4>1. i \in (m + 1)..n
        BY <3>1
      <4> QED BY <1>3, <2>2, <4>1
    <3>2. CASE i > n
      <4>1. i \in (n + 1)..Len(p)
        BY <1>2, <3>2
      <4> QED BY <2>1, <4>1 DEF NoneDeeper
    <3> QED BY <1>2, <3>1, <3>2
  <2>4. m \in 1..Len(p)
    BY <1>2
  <2>5. NoneDeeper(p, m)'
    BY <1>1, <2>3 DEF NoneDeeper
  <2>6. call'.mount \in (1..Len(mounts')) \cup {None}
    BY <1>1, <1>5 DEF IInv, SearchSound
  <2>7. SearchSound'
    BY <1>2, <1>5, <1>6, <2>2, <2>4, <2>5, <2>6 DEF SearchSound
  <2> QED BY <1>1, <2>7, SearchKeeps DEF IInv
<1>7. CASE call.op = "initrd_open"
  <2>1. PICK n \in 1..Len(p), c \in 1..Len(p) :
           /\ c <= n /\ call.filename = Level(p, n)
           /\ mounts[call.mount].location = Level(p, c) /\ NoneDeeper(p, c)
    BY <1>7 DEF IInv, SearchSound
  <2>2. PICK m \in 1..n : /\ RemoveUntil(call.filename) = Level(p, m)
                         /\ \A i \in (m + 1)..n : Level(p, i) = call.filename
    BY <1>4, <2>1
  <2>3. call.mount \in 1..Len(mounts)
    BY <1>7 DEF IInv, SearchSound
  <2>4. c <= m
    <3>1. Level(p, c) # call.filename
      BY <1>3, <2>1, <2>3
    <3>2. c \notin (m + 1)..n
      BY <2>2, <3>1
    <3> QED BY <1>2, <2>1, <3>2
  <2>5. m \in 1..Len(p)
    BY <1>2
  <2>6. NoneDeeper(p, c)' /\ mounts'[call'.mount].location = Level(p, c)
    BY <1>1, <1>5, <2>1 DEF NoneDeeper
  <2>7. call'.mount \in 1..Len(mounts')
    BY <1>1, <1>5, <2>3
  <2>8. SearchSound'
    BY <1>2, <1>5, <1>7, <2>2, <2>4, <2>5, <2>6, <2>7 DEF SearchSound
  <2> QED BY <1>1, <2>8, SearchKeeps DEF IInv
<1> QED BY <1>1, <1>6, <1>7 DEF Resolving

\* The search that finds nothing leaves what it found.
LEMMA NotMountedKeeps == IInv /\ NotMounted => IInv'
<1> SUFFICES ASSUME IInv, NotMounted PROVE IInv'
  OBVIOUS
<1>1. call' = Idle /\ UNCHANGED <<devices, mounts, files, mode>>
  BY DEF NotMounted
<1>2. SearchSound'
  BY <1>1 DEF SearchSound, Idle
<1> QED BY <1>1, <1>2, SearchKeeps DEF IInv

\* What is found stands at the level the search is at.
LEMMA Match ==
    ASSUME IInv, Resolving, NEW i \in Matches
    PROVE  i \in 1..Len(mounts) /\ mounts[i].location = call.filename
BY Searching DEF Matches

\* vfs_open goes on with the file system's open, which begins with the whole path.
LEMMA DescendKeeps == IInv /\ Descend => IInv'
<1> SUFFICES ASSUME IInv, Descend PROVE IInv'
  OBVIOUS
<1>1. PICK i \in Matches :
         call' = [call EXCEPT !.op = "initrd_open", !.filename = call.path, !.mount = i]
  BY DEF Descend
<1>2. Resolving /\ call.op = "vfs_open" /\ UNCHANGED <<devices, mounts, files, mode>>
  BY DEF Descend, Resolving
<1> PICK p : p = call.path
  OBVIOUS
<1>3. p \in Paths /\ p \in Seq(Names) /\ p # <<>> /\ Len(p) \in Nat
  BY <1>2, Searching
<1>4. i \in 1..Len(mounts) /\ mounts[i].location = call.filename
  BY <1>1, <1>2, Match
<1>5. call' = [op |-> "initrd_open", path |-> p, filename |-> p, mount |-> i]
  <2>1. call = [op |-> "vfs_open", path |-> p, filename |-> call.filename, mount |-> call.mount]
    BY <1>2 DEF IInv, SearchSound
  <2> DEFINE q == [call EXCEPT !.op = "initrd_open"]
             r == [q EXCEPT !.filename = p]
  <2>2. q = [op |-> "initrd_open", path |-> p, filename |-> call.filename, mount |-> call.mount]
    BY <2>1
  <2>3. call' = [r EXCEPT !.mount = i]
    BY <1>1
  <2> HIDE DEF q
  <2>4. r = [op |-> "initrd_open", path |-> p, filename |-> p, mount |-> call.mount]
    BY <2>2
  <2> HIDE DEF r
  <2> QED BY <2>3, <2>4
<1>6. PICK c \in 1..Len(p) : call.filename = Level(p, c) /\ NoneDeeper(p, c)
  BY <1>2 DEF IInv, SearchSound
<1>7. Len(p) \in 1..Len(p) /\ c <= Len(p) /\ Level(p, Len(p)) = p
  BY <1>3, EmptySeq DEF Level
<1>8. NoneDeeper(p, c)' /\ mounts'[i].location = Level(p, c) /\ i \in 1..Len(mounts')
  BY <1>2, <1>4, <1>6 DEF NoneDeeper
<1>9. SearchSound'
  BY <1>3, <1>5, <1>7, <1>8 DEF SearchSound
<1> QED BY <1>2, <1>9, SearchKeeps DEF IInv

\* The second search ends at the mount point the first one found.
LEMMA FoundAgain ==
    ASSUME IInv, call.op = "initrd_open", NEW i \in Matches
    PROVE  i = call.mount
<1> PICK p : p = call.path
  OBVIOUS
<1>1. PICK n \in 1..Len(p), c \in 1..Len(p) :
         /\ c <= n /\ call.filename = Level(p, n)
         /\ mounts[call.mount].location = Level(p, c) /\ NoneDeeper(p, c)
  BY DEF IInv, SearchSound
<1>2. Resolving /\ call.mount \in 1..Len(mounts)
  BY DEF Resolving, IInv, SearchSound
<1>3. i \in 1..Len(mounts) /\ mounts[i].location = Level(p, n)
  BY <1>1, <1>2, Match
<1>4. n = c
  <2>1. n \notin (c + 1)..Len(p)
    BY <1>1, <1>3 DEF NoneDeeper
  <2>2. Len(p) \in Nat
    BY <1>2, Searching
  <2> QED BY <1>1, <2>1, <2>2
<1> QED BY <1>1, <1>2, <1>3, <1>4 DEF IInv, MountsSound

\* A file that is found is opened under what follows its mount point in the path.
LEMMA LookupKeeps == IInv /\ Lookup => IInv'
<1> SUFFICES ASSUME IInv, Lookup PROVE IInv'
  OBVIOUS
<1> PICK p, name : p = call.path /\ name = Rest(call.path, call.filename)
  OBVIOUS
<1>1. PICK i \in Matches :
         files' = IF name \in Files
                  THEN Append(files, [path |-> p, name |-> name, mount_index |-> i,
                                      device |-> mounts[call.mount].device])
                  ELSE files
  BY DEF Lookup
<1>2. /\ Resolving /\ call.op = "initrd_open" /\ call' = Idle
      /\ UNCHANGED <<devices, mounts, mode>>
  BY DEF Lookup, Resolving
<1>3. /\ p \in Paths /\ p \in Seq(Names) /\ i \in 1..Len(mounts)
      /\ mounts[i].location = call.filename /\ mounts[i].device \in 1..Len(devices)
  BY <1>1, <1>2, Searching, Match
<1>4. i = call.mount
  BY <1>1, <1>2, FoundAgain
<1>5. PICK n \in 1..Len(p) : call.filename = Level(p, n)
  BY <1>2 DEF IInv, SearchSound
<1>6. files' \in Seq(OpenFiles)
  <2>1. files \in Seq(OpenFiles)
    BY DEF IInv
  <2>2. CASE name \in Files
    <3> PICK f : f = [path |-> p, name |-> name, mount_index |-> i,
                      device |-> mounts[call.mount].device]
      OBVIOUS
    <3>1. /\ f \in [path : Paths, name : Files, mount_index : 1..Len(mounts),
                   device : 1..Len(devices)]
          /\ f.mount_index = i /\ f.device = mounts[i].device /\ f.path = p /\ f.name = name
      BY <1>3, <1>4, <2>2
    <3>2. name # <<NoName>>
      BY <2>2, FileAssumption
    <3>3. p = Front(mounts[i].location) \o name
      <4>1. Rest(p, Level(p, n)) # <<NoName>>
        BY <1>5, <3>2
      <4>2. p = Front(Level(p, n)) \o Rest(p, Level(p, n))
        BY <1>3, <4>1, RestOfPath
      <4> QED BY <1>3, <1>5, <4>2
    <3>4. f \in OpenFiles
      BY <3>1, <3>3 DEF OpenFiles
    <3>5. files' = Append(files, f)
      BY <1>1, <2>2
    <3> QED BY <2>1, <3>4, <3>5, AppendProperties
  <2>3. CASE name \notin Files
    BY <1>1, <2>1, <2>3
  <2> QED BY <2>2, <2>3
<1>7. SearchSound'
  BY <1>2 DEF SearchSound, Idle
<1> QED BY <1>2, <1>6, <1>7, SearchKeeps

\* The other files stay open when one is closed.
LEMMA CloseKeeps == \A k \in DOMAIN files : IInv /\ vfs_close(k) => IInv'
<1> SUFFICES ASSUME NEW k \in DOMAIN files, IInv, vfs_close(k) PROVE IInv'
  OBVIOUS
<1>1. files' = RemoveAt(files, k) /\ UNCHANGED <<devices, mounts, call, mode>>
  BY DEF vfs_close
<1> PICK S : S = OpenFiles
  OBVIOUS
<1>2. files \in Seq(S) /\ Len(files) \in Nat /\ k \in 1..Len(files)
  BY LenProperties DEF IInv
<1>3. files' \in Seq(S)
  <2>1. \A j \in 1..(k - 1) : files[j] \in S
    BY <1>2, ElementOfSeq
  <2>2. \A j \in (k + 1)..Len(files) : files[j] \in S
    BY <1>2, ElementOfSeq
  <2>3. SubSeq(files, 1, k - 1) \in Seq(S) /\ SubSeq(files, k + 1, Len(files)) \in Seq(S)
    BY <1>2, <2>1, <2>2, SubSeqProperties
  <2> QED BY <1>1, <2>3, ConcatProperties DEF RemoveAt
<1>4. SearchSound'
  BY <1>1 DEF IInv, SearchSound, NoneDeeper
<1> QED BY <1>1, <1>3, <1>4, SearchKeeps

----------------------------------------------------------------------------
(* The invariant is kept.                                                  *)

\* Every step of the program keeps the invariant.
LEMMA EveryStepKeeps == IInv /\ [Next]_vars => IInv'
<1> SUFFICES ASSUME IInv, [Next]_vars PROVE IInv'
  OBVIOUS
<1>1. ASSUME UNCHANGED vars PROVE IInv'
  <2>1. UNCHANGED <<devices, mounts, files, call, mode>>
    BY <1>1 DEF vars
  <2>2. SearchSound'
    BY <2>1 DEF IInv, SearchSound, NoneDeeper
  <2> QED BY <2>1, <2>2, SearchKeeps DEF IInv
<1>2. ASSUME OpenStep PROVE IInv'
  BY <1>2, CutPathKeeps, NotMountedKeeps, DescendKeeps, LookupKeeps DEF OpenStep
<1>3. ASSUME Halted PROVE IInv'
  BY <1>1, <1>3 DEF Halted
<1> QED BY <1>1, <1>2, <1>3, InitDriverKeeps, VfsMountKeeps, VfsOpenKeeps, CloseKeeps DEF Next

\* The mount points, the files that are open and the search for one stay sound
\* whatever is registered, mounted, opened and closed.
THEOREM VfsInvariant == Spec => []IInv
<1>1. Init => IInv
  BY Starts
<1>2. IInv /\ [Next]_vars => IInv'
  BY EveryStepKeeps
<1> QED BY <1>1, <1>2, PTL DEF Spec

\* The variables have the shapes of the C structures.
THEOREM TypeCorrect == Spec => []TypeOK
<1>1. IInv => TypeOK
  <2> SUFFICES ASSUME IInv PROVE TypeOK
    OBVIOUS
  <2>1. /\ devices \in Seq(Drivers) /\ Len(devices) <= DeviceCount
        /\ mounts \in Seq([location : Locations, device : 1..Len(devices)])
        /\ files \in Seq(OpenFiles)
    BY DEF IInv, MountsSound
  <2>2. /\ DOMAIN devices = 1..Len(devices) /\ DOMAIN mounts = 1..Len(mounts)
        /\ DOMAIN files = 1..Len(files)
    BY <2>1, LenProperties
  <2>3. ASSUME NEW k \in DOMAIN files
        PROVE  /\ files[k].path \in Paths /\ files[k].name \in Files
               /\ files[k].mount_index \in DOMAIN mounts
               /\ files[k].device \in DOMAIN devices
    <3>1. files[k] \in OpenFiles
      BY <2>1, <2>2, ElementOfSeq, Zenon
    <3> QED BY <2>2, <3>1 DEF OpenFiles
  <2>4. /\ call.op \in {"idle", "vfs_open", "initrd_open"}
        /\ call.mount \in DOMAIN mounts \cup {None}
        /\ mode \in {"running", "halted"}
    BY <2>2 DEF IInv, SearchSound
  <2>5. mounts \in Seq([location : Locations, device : DOMAIN devices])
    BY <2>1, <2>2
  <2> QED BY <2>1, <2>3, <2>4, <2>5 DEF TypeOK
<1> QED BY <1>1, VfsInvariant, PTL

\* An open file stays with the device it was found on, and its path is its mount
\* point's location followed by its name there: mounting and closing others does not
\* move it.
THEOREM OpenStaysInPlace == Spec => []OpenedInPlace
<1>1. IInv => OpenedInPlace
  <2> SUFFICES ASSUME IInv, NEW k \in DOMAIN files
               PROVE  /\ mounts[files[k].mount_index].device = files[k].device
                      /\ files[k].path = Front(mounts[files[k].mount_index].location)
                                            \o files[k].name
    BY Zenon DEF OpenedInPlace
  <2>1. files \in Seq(OpenFiles) /\ DOMAIN files = 1..Len(files)
    BY LenProperties DEF IInv
  <2>2. files[k] \in OpenFiles
    BY <2>1, ElementOfSeq, Zenon
  <2> QED BY <2>2 DEF OpenFiles
<1> QED BY <1>1, VfsInvariant, PTL

----------------------------------------------------------------------------
(* What a search finds.                                                    *)

\* A mount point that leads to a path stands at one of its levels.
LEMMA LevelOf ==
    ASSUME NEW p \in Seq(Names), p # <<>>, NEW loc \in Seq(Names), Len(loc) >= 2,
           Leads(loc, p)
    PROVE  \E n \in 1..Len(p) : loc = Level(p, n) /\ (n < Len(p) => Len(loc) = n + 1)
<1>1. Len(p) \in Nat /\ Len(p) \in 1..Len(p)
  BY EmptySeq
<1>2. CASE loc = p
  <2>1. Level(p, Len(p)) = p /\ ~(Len(p) < Len(p))
    BY <1>1 DEF Level
  <2> QED BY <1>1, <1>2, <2>1
<1>3. CASE loc # p
  <2>1. PICK n \in 1..(Len(p) - 1) : loc = Level(p, n) /\ Len(loc) = n + 1
    BY <1>3, LeadsIsLevel
  <2>2. n \in 1..Len(p)
    BY <1>1
  <2> QED BY <2>1, <2>2
<1> QED BY <1>2, <1>3

\* The levels of a path before the last are as long as they are deep.
LEMMA LevelLength ==
    ASSUME NEW p \in Seq(Names), NEW n \in 1..Len(p), n # Len(p)
    PROVE  Len(Level(p, n)) = n + 1
<1>1. n \in 0..Len(p)
  BY LenProperties
<1> QED BY <1>1, CutWords DEF Level

\* A search that ends at the root without a mount point has passed none.
LEMMA NoneLeads ==
    ASSUME IInv, NotMounted, call.op = "vfs_open"
    PROVE  Leading(call.path) = {}
<1> PICK p : p = call.path
  OBVIOUS
<1>1. Resolving /\ Matches = {} /\ call.filename = Root
  BY DEF NotMounted
<1>2. p \in Seq(Names) /\ p # <<>> /\ Len(p) \in Nat
  BY <1>1, Searching
<1>3. PICK n \in 1..Len(p) : call.filename = Level(p, n) /\ NoneDeeper(p, n)
  BY DEF IInv, SearchSound
<1> SUFFICES ASSUME NEW i \in Leading(p) PROVE FALSE
  OBVIOUS
<1> PICK loc : loc = mounts[i].location
  OBVIOUS
<1>4. /\ i \in 1..Len(mounts) /\ Leads(loc, p)
      /\ loc \in Seq(Names) /\ Len(loc) >= 2 /\ loc # Root
  <2>1. i \in DOMAIN mounts /\ Leads(loc, p)
    BY DEF Leading
  <2>2. i \in 1..Len(mounts) /\ loc \in Seq(Names) /\ Len(loc) >= 2
    BY <1>1, <2>1, Searching
  <2>3. loc # Root
    BY <1>1, <2>1 DEF Matches
  <2> QED BY <2>1, <2>2, <2>3
<1>5. PICK k \in 1..Len(p) : loc = Level(p, k) /\ (k < Len(p) => Len(loc) = k + 1)
  BY <1>2, <1>4, LevelOf
<1>6. k < n
  <2>1. k \notin (n + 1)..Len(p)
    BY <1>3, <1>4, <1>5 DEF NoneDeeper
  <2>2. k # n
    BY <1>1, <1>3, <1>4, <1>5
  <2> QED BY <1>2, <2>1, <2>2
<1>7. Level(p, n) = Root /\ Len(Root) = 2 /\ Last(Root) = NoName
  <2>1. Len(Root) = 2 /\ Last(Root) = NoName
    BY DEF Root, Last
  <2> QED BY <1>1, <1>3, <2>1
<1>8. n = Len(p)
  <2>1. ASSUME n # Len(p) PROVE FALSE
    <3>1. Len(Level(p, n)) = n + 1
      BY <1>2, <2>1, LevelLength
    <3>2. Len(Level(p, n)) = 2
      BY <1>7, Zenon
    <3>3. n + 1 = 2
      BY <3>1, <3>2, Zenon
    <3>4. n = 1
      BY <1>2, <3>3
    <3> QED BY <1>5, <1>6, <3>4
  <2> QED BY <2>1
<1>9. p = Root
  BY <1>7, <1>8 DEF Level
<1>10. k = 1 /\ Len(p) - 1 = 1 /\ k # Len(p)
  BY <1>6, <1>7, <1>8, <1>9
<1>11. Cut(p, Len(p) - 1) = p
  BY <1>2, <1>7, <1>9, CutAtEnd
<1>12. loc = Root
  BY <1>5, <1>9, <1>10, <1>11 DEF Level
<1> QED BY <1>4, <1>12

\* What the first search finds is deeper than every other that leads to the path.
LEMMA DeepestFound ==
    ASSUME IInv, call.op = "vfs_open", NEW i \in Matches
    PROVE  Deepest(i, call.path)
<1> PICK p : p = call.path
  OBVIOUS
<1>1. Resolving
  BY DEF Resolving
<1>2. p \in Seq(Names) /\ p # <<>> /\ Len(p) \in Nat
  BY <1>1, Searching
<1>3. PICK n \in 1..Len(p) : call.filename = Level(p, n) /\ NoneDeeper(p, n)
  BY DEF IInv, SearchSound
<1>4. i \in 1..Len(mounts) /\ mounts[i].location = Level(p, n)
  BY <1>1, <1>3, Match
<1>5. i \in Leading(p)
  BY <1>1, <1>2, <1>4, LevelLeads, Searching DEF Leading
<1>6. ASSUME NEW j \in Leading(p) \ {i}, mounts[i].location # p
      PROVE  mounts[j].location # p /\ Len(mounts[j].location) < Len(mounts[i].location)
  <2> PICK loc : loc = mounts[j].location
    OBVIOUS
  <2>1. j \in 1..Len(mounts) /\ Leads(loc, p) /\ loc \in Seq(Names) /\ Len(loc) >= 2
    BY <1>1, Searching DEF Leading
  <2>2. PICK k \in 1..Len(p) : loc = Level(p, k) /\ (k < Len(p) => Len(loc) = k + 1)
    BY <1>2, <2>1, LevelOf
  <2>3. n # Len(p)
    BY <1>4, <1>6 DEF Level
  <2>4. k < n
    <3>1. k \notin (n + 1)..Len(p)
      BY <1>3, <2>1, <2>2 DEF NoneDeeper
    <3>2. k # n
      BY <1>4, <1>6, <2>1, <2>2 DEF IInv, MountsSound
    <3> QED BY <1>2, <3>1, <3>2
  <2>5. loc # p
    <3>1. Len(p) \in (n + 1)..Len(p) /\ Level(p, Len(p)) = p
      BY <1>2, <2>3 DEF Level
    <3> QED BY <1>3, <2>1, <3>1 DEF NoneDeeper
  <2>6. Len(mounts[i].location) = n + 1
    BY <1>2, <1>4, <2>3, LevelLength
  <2>7. Len(loc) = k + 1
    BY <1>2, <2>2, <2>4
  <2> QED BY <2>4, <2>5, <2>6, <2>7
<1> QED BY <1>5, <1>6 DEF Deepest

\* A path that is opened is looked for at the deepest mount point that leads to it,
\* and is refused only if none does.
THEOREM ResolvesDeepest == Spec => ResolvesToDeepest
<1> DEFINE Refused == Resolving /\ call' = Idle /\ files' = files
                         => Leading(call.path) = {} \/ call.op = "initrd_open"
           Found == call.op = "vfs_open" /\ call'.op = "initrd_open"
                         => Deepest(call'.mount, call.path)
<1>1. IInv /\ [Next]_vars => [Refused /\ Found]_vars
  <2> SUFFICES ASSUME IInv, Next, call.op = "vfs_open" PROVE Refused /\ Found
    BY DEF Resolving
  <2>1. CutPath \/ NotMounted \/ Descend \/ Halted
    <3>1. call # Idle
      BY DEF Idle
    <3>2. ~Lookup
      BY DEF Lookup
    <3>3. ~Ready
      BY <3>1 DEF Ready
    <3> QED BY <3>2, <3>3 DEF Next, OpenStep, InitDriver, vfs_mount, vfs_open, vfs_close
  <2>2. CASE CutPath
    <3>1. call'.op = "vfs_open"
      BY <2>2 DEF CutPath, IInv, SearchSound
    <3> QED BY <3>1 DEF Idle
  <2>3. CASE NotMounted
    <3>1. Leading(call.path) = {} /\ call'.op = "idle"
      BY <2>3, NoneLeads DEF NotMounted, Idle
    <3> QED BY <3>1
  <2>4. CASE Descend
    <3>1. PICK i \in Matches :
             call' = [call EXCEPT !.op = "initrd_open", !.filename = call.path, !.mount = i]
      BY <2>4 DEF Descend
    <3>2. call'.op = "initrd_open" /\ call'.mount = i
      BY <3>1 DEF IInv, SearchSound
    <3> QED BY <3>2, DeepestFound DEF Idle
  <2>5. CASE Halted
    BY <2>5 DEF Halted, vars, Idle
  <2> QED BY <2>1, <2>2, <2>3, <2>4, <2>5
<1> QED BY <1>1, VfsInvariant, PTL DEF Spec, ResolvesToDeepest

----------------------------------------------------------------------------
(* That vfs_open comes to an end.                                          *)

\* A path that begins with a slash.
Absolute(p) == Len(p) >= 2 /\ p[1] = NoName

\* How often remove_until can still cut something off, or more.
Extent(f) == 2 * Len(f) - IF Last(f) = NoName THEN 1 ELSE 0

\* How many steps a call has left, or more: the second search begins anew.
StepsLeft ==
    CASE call.op = "vfs_open" -> 2 * Len(call.path) + Extent(call.filename) + 2
      [] call.op = "initrd_open" -> Extent(call.filename) + 1
      [] OTHER -> 0

\* What is left of such a path in a search begins with a slash as well.
LEMMA LevelAbsolute ==
    ASSUME NEW p \in Seq(Names), Absolute(p), NEW n \in 1..Len(p)
    PROVE  Level(p, n) \in Seq(Names) /\ Absolute(Level(p, n))
<1>1. CASE n = Len(p)
  BY <1>1 DEF Level
<1>2. CASE n # Len(p)
  <2> PICK u : u = Cut(p, n)
    OBVIOUS
  <2>1. n \in 0..Len(p) /\ n \in Nat /\ n >= 1
    BY LenProperties
  <2>2. u \in Seq(Names) /\ Len(u) = n + 1 /\ \A i \in 1..n : u[i] = p[i]
    BY <2>1, CutWords
  <2>3. Len(u) >= 2 /\ u[1] = NoName
    BY <2>1, <2>2 DEF Absolute
  <2> QED BY <1>2, <2>2, <2>3 DEF Level, Absolute
<1> QED BY <1>1, <1>2

\* What is cut is shorter, or ends in the slash that it did not end in before.
LEMMA CutShortens ==
    ASSUME NEW f \in Seq(Names), Absolute(f), f # Root
    PROVE  Extent(RemoveUntil(f)) \in Nat /\ Extent(RemoveUntil(f)) < Extent(f)
<1> PICK l : l = Len(f)
  OBVIOUS
<1>1. l \in Nat /\ l >= 2 /\ f[1] = NoName
  BY LenProperties DEF Absolute
<1> PICK kept : kept = IF Last(f) = NoName THEN l - 2 ELSE l - 1
  OBVIOUS
<1>2. kept \in 1..l
  <2>1. CASE Last(f) = NoName
    <3>1. l # 2
      <4>1. ASSUME l = 2 PROVE FALSE
        <5> PICK r : r = Root
          OBVIOUS
        <5>1. Len(r) = 2 /\ r[1] = NoName /\ r[2] = NoName /\ r \in Seq(Names)
          BY DEF Root, Names
        <5>2. f[2] = NoName
          BY <2>1, <4>1 DEF Last
        <5>3. \A i \in 1..2 : f[i] = r[i]
          BY <1>1, <5>1, <5>2
        <5> QED BY <4>1, <5>1, <5>3, SeqEqual
      <4> QED BY <4>1
    <3> QED BY <1>1, <2>1, <3>1
  <2>2. CASE Last(f) # NoName
    BY <1>1, <2>2
  <2> QED BY <2>1, <2>2
<1>3. kept > 0 /\ kept \in 0..Len(f)
  BY <1>1, <1>2
<1> PICK u : u = Cut(f, kept)
  OBVIOUS
<1>4. RemoveUntil(f) = u
  BY <1>3 DEF RemoveUntil, Cut
<1>5. Len(u) = kept + 1 /\ Last(u) = NoName
  BY <1>3, CutWords, FrontOfCut
<1>6. Extent(u) = 2 * kept + 1
  <2>1. Extent(u) = 2 * (kept + 1) - 1
    BY <1>5 DEF Extent
  <2> QED BY <1>2, <2>1
<1>7. 2 * kept + 1 < Extent(f)
  <2>1. CASE Last(f) = NoName
    <3>1. kept = l - 2 /\ Extent(f) = 2 * l - 1
      BY <2>1 DEF Extent
    <3> QED BY <1>1, <3>1
  <2>2. CASE Last(f) # NoName
    <3>1. kept = l - 1 /\ Extent(f) = 2 * l - 0
      BY <2>2 DEF Extent
    <3> QED BY <1>1, <3>1
  <2> QED BY <2>1, <2>2
<1> QED BY <1>2, <1>4, <1>6, <1>7

\* vfs_open of an absolute path cannot go on for ever, however deep the path and
\* whatever is mounted: each step leaves fewer to come.  A path without a slash
\* would never be cut.
THEOREM OpenAdvances ==
    ASSUME \A p \in Paths : Absolute(p)
    PROVE  Spec => [][Resolving => OpenStep /\ StepsLeft' \in Nat /\ StepsLeft' < StepsLeft]_vars
<1>1. IInv /\ [Next]_vars =>
        [Resolving => OpenStep /\ StepsLeft' \in Nat /\ StepsLeft' < StepsLeft]_vars
  <2> SUFFICES ASSUME IInv, Next, Resolving, ~UNCHANGED vars
               PROVE  OpenStep /\ StepsLeft' \in Nat /\ StepsLeft' < StepsLeft
    OBVIOUS
  <2>1. OpenStep
    <3>1. call # Idle
      BY DEF Resolving, Idle
    <3>2. ~Ready
      BY <3>1 DEF Ready
    <3> QED BY <3>2 DEF Next, InitDriver, vfs_mount, vfs_open, vfs_close, Halted
  <2> PICK p : p = call.path
    OBVIOUS
  <2>2. p \in Seq(Names) /\ Absolute(p) /\ Len(p) \in Nat /\ Len(p) \in 1..Len(p)
    <3>1. call.path \in Paths /\ call.path \in Seq(Names) /\ Len(call.path) \in Nat
      BY Searching
    <3> QED BY <3>1 DEF Absolute
  <2> PICK f : f = call.filename
    OBVIOUS
  <2>3. f \in Seq(Names) /\ Absolute(f)
    <3>1. PICK n \in 1..Len(p) : f = Level(p, n)
      BY DEF Resolving, IInv, SearchSound
    <3> QED BY <2>2, <3>1, LevelAbsolute
  <2>4. /\ Extent(f) \in Nat /\ Extent(p) \in Nat /\ Extent(p) <= 2 * Len(p)
    <3>1. \A s \in Seq(Names) : Absolute(s) => Extent(s) \in Nat /\ Extent(s) <= 2 * Len(s)
      <4> SUFFICES ASSUME NEW s \in Seq(Names), Absolute(s)
                   PROVE  Extent(s) \in Nat /\ Extent(s) <= 2 * Len(s)
        OBVIOUS
      <4>1. Len(s) \in Nat /\ Len(s) >= 2
        BY LenProperties DEF Absolute
      <4>2. CASE Last(s) = NoName
        BY <4>1, <4>2 DEF Extent
      <4>3. CASE Last(s) # NoName
        BY <4>1, <4>3 DEF Extent
      <4> QED BY <4>2, <4>3
    <3> QED BY <2>2, <2>3, <3>1
  <2>5. /\ call = [op |-> call.op, path |-> p, filename |-> f, mount |-> call.mount]
        /\ call.op \in {"vfs_open", "initrd_open"}
    BY DEF IInv, SearchSound, Resolving
  <2>6. CASE call.op = "vfs_open"
    <3>1. StepsLeft = 2 * Len(p) + Extent(f) + 2
      BY <2>6 DEF StepsLeft
    <3>2. CASE CutPath
      <4>1. call' = [op |-> "vfs_open", path |-> p, filename |-> RemoveUntil(f),
                     mount |-> call.mount]
        BY <2>5, <2>6, <3>2 DEF CutPath
      <4>2. StepsLeft' = 2 * Len(p) + Extent(RemoveUntil(f)) + 2
        BY <4>1 DEF StepsLeft
      <4>3. Extent(RemoveUntil(f)) \in Nat /\ Extent(RemoveUntil(f)) < Extent(f)
        BY <2>3, <3>2, CutShortens DEF CutPath
      <4>4. \A a, b, c \in Nat : b < a =>
               2 * c + b + 2 \in Nat /\ 2 * c + b + 2 < 2 * c + a + 2
        OBVIOUS
      <4>5. StepsLeft' \in Nat /\ StepsLeft' < StepsLeft
        BY <2>2, <2>4, <3>1, <4>2, <4>3, <4>4
      <4> QED BY <2>1, <4>5
    <3>3. CASE Descend
      <4>1. call'.op = "initrd_open" /\ call'.filename = p
        <5>1. PICK i \in Matches :
                 call' = [call EXCEPT !.op = "initrd_open", !.filename = call.path, !.mount = i]
          BY <3>3 DEF Descend
        <5>2. "op" \in DOMAIN call /\ "filename" \in DOMAIN call
          BY <2>5
        <5> QED BY <5>1, <5>2
      <4>2. StepsLeft' = Extent(p) + 1
        BY <4>1 DEF StepsLeft
      <4> QED BY <2>1, <2>2, <2>4, <3>1, <4>2
    <3>4. CASE NotMounted
      <4>1. StepsLeft' = 0
        BY <3>4 DEF NotMounted, Idle, StepsLeft
      <4> QED BY <2>1, <2>2, <2>4, <3>1, <4>1
    <3>5. ~Lookup
      BY <2>6 DEF Lookup
    <3> QED BY <2>1, <3>2, <3>3, <3>4, <3>5 DEF OpenStep
  <2>7. CASE call.op = "initrd_open"
    <3>1. StepsLeft = Extent(f) + 1
      BY <2>7 DEF StepsLeft
    <3>2. CASE CutPath
      <4>1. call' = [op |-> "initrd_open", path |-> p, filename |-> RemoveUntil(f),
                     mount |-> call.mount]
        BY <2>5, <2>7, <3>2 DEF CutPath
      <4>2. StepsLeft' = Extent(RemoveUntil(f)) + 1
        BY <4>1 DEF StepsLeft
      <4>3. Extent(RemoveUntil(f)) \in Nat /\ Extent(RemoveUntil(f)) < Extent(f)
        BY <2>3, <3>2, CutShortens DEF CutPath
      <4> QED BY <2>1, <2>4, <3>1, <4>2, <4>3
    <3>3. CASE NotMounted \/ Lookup
      <4>1. StepsLeft' = 0
        BY <3>3 DEF NotMounted, Lookup, Idle, StepsLeft
      <4> QED BY <2>1, <2>4, <3>1, <4>1
    <3>4. ~Descend
      BY <2>7 DEF Descend
    <3> QED BY <2>1, <3>2, <3>3, <3>4 DEF OpenStep
  <2> QED BY <2>5, <2>6, <2>7
<1> QED BY <1>1, VfsInvariant, PTL DEF Spec

=============================================================================
