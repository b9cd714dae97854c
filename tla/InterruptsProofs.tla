-------------------------- MODULE InterruptsProofs --------------------------
(***************************************************************************)
(* Proofs about Interrupts, for every set of lines and of exceptions and    *)
(* every error code: the types, that the handler finds its number, that     *)
(* iret comes back to where the kernel waited with nothing left on the      *)
(* stack, and that no line stays in service.                                *)
(*                                                                         *)
(* The invariant they rest on, IInv, has three parts.  SetUp says how far   *)
(* the boot sequence has got with each controller and table, as a function  *)
(* of at alone.  ServiceSound says which lines are in service where.        *)
(* StackSound gives the words on the stack, one by one, at each place of    *)
(* the way in and of the way back.                                          *)
(***************************************************************************)
EXTENDS Interrupts, SequenceTheorems, TLAPS

----------------------------------------------------------------------------
(* The boot sequence, operation by operation.                              *)

Ops == [op : {"descriptor", "gdt_flush", "command", "write", "idt_flush", "register"},
        arg : {"none", "master", "slave"}, val : Nat]

\* Two sequences of operations, one after the other, given their lengths.
Joins(u, s, m, t, n) ==
    /\ u \in Seq(Ops) /\ Len(u) = m + n
    /\ \A i \in 1..m : u[i] = s[i]
    /\ \A i \in 1..n : u[m + i] = t[i]

\* It holds of their concatenation.
LEMMA Joined ==
    ASSUME NEW s \in Seq(Ops), NEW t \in Seq(Ops), NEW m, NEW n, Len(s) = m, Len(t) = n
    PROVE  Joins(s \o t, s, m, t, n)
<1>1. n \in Nat /\ m \in Nat
  BY LenProperties
<1>2. PICK u : u = s \o t
  OBVIOUS
<1>3. /\ u \in Seq(Ops) /\ Len(u) = m + n
      /\ \A i \in 1..(m + n) : u[i] = IF i <= m THEN s[i] ELSE t[i - m]
  BY <1>2, ConcatProperties
<1>4. ASSUME NEW i \in 1..m PROVE u[i] = s[i]
  BY <1>1, <1>3
<1>5. ASSUME NEW i \in 1..n PROVE u[m + i] = t[i]
  <2>1. m + i \in 1..(m + n) /\ ~(m + i <= m) /\ (m + i) - m = i
    BY <1>1
  <2> QED BY <1>3, <2>1
<1> QED BY <1>2, <1>3, <1>4, <1>5 DEF Joins

\* What gdt_initialize does.
LEMMA GdtOps ==
    /\ gdt_initialize \in Seq(Ops) /\ Len(gdt_initialize) = 6
    /\ gdt_initialize[1] = Op("descriptor", "none", 0)
    /\ \A i \in 2..5 : gdt_initialize[i] = Op("descriptor", "none", MaxPage)
    /\ gdt_initialize[6] = Op("gdt_flush", "none", 2)
<1> DEFINE A == <<Op("descriptor", "none", 0)>>
           B == [i \in 1..4 |-> Op("descriptor", "none", MaxPage)]
           C == <<Op("gdt_flush", "none", 2)>>
<1>1. A \in Seq(Ops) /\ Len(A) = 1 /\ A[1] = Op("descriptor", "none", 0)
  BY DEF Op, Ops
<1>2. B \in Seq(Ops) /\ Len(B) = 4 /\ \A i \in 1..4 : B[i] = Op("descriptor", "none", MaxPage)
  BY InterruptsAssumption DEF Op, Ops
<1>3. C \in Seq(Ops) /\ Len(C) = 1 /\ C[1] = Op("gdt_flush", "none", 2)
  BY DEF Op, Ops
<1>4. gdt_initialize = (A \o B) \o C
  BY DEF gdt_initialize
<1> HIDE DEF A, B, C
<1>5. PICK u : u = A \o B /\ Joins(u, A, 1, B, 4)
  BY <1>1, <1>2, Joined
<1>6. u \in Seq(Ops) /\ Len(u) = 5
  BY <1>5 DEF Joins
<1>7. Joins(gdt_initialize, u, 5, C, 1)
  BY <1>3, <1>4, <1>5, <1>6, Joined
<1>8. /\ gdt_initialize \in Seq(Ops) /\ Len(gdt_initialize) = 6
      /\ gdt_initialize[1] = A[1] /\ gdt_initialize[6] = C[1]
  <2>1. u[1] = A[1]
    BY <1>5 DEF Joins
  <2>2. /\ \A i \in 1..5 : gdt_initialize[i] = u[i]
        /\ gdt_initialize[5 + 1] = C[1]
    BY <1>7 DEF Joins
  <2> QED BY <1>7, <2>1, <2>2 DEF Joins
<1>9. ASSUME NEW i \in 2..5 PROVE gdt_initialize[i] = Op("descriptor", "none", MaxPage)
  <2>1. i - 1 \in 1..4 /\ 1 + (i - 1) = i /\ i \in 1..5
    OBVIOUS
  <2>2. u[1 + (i - 1)] = B[i - 1]
    BY <1>5, <2>1 DEF Joins
  <2>3. gdt_initialize[i] = u[i]
    BY <1>7, <2>1 DEF Joins
  <2>4. gdt_initialize[i] = B[i - 1]
    BY <2>1, <2>2, <2>3, Zenon
  <2> QED BY <1>2, <2>1, <2>4
<1> QED BY <1>1, <1>3, <1>8, <1>9

\* What the remapping does.
LEMMA RemapOps ==
    /\ Remap \in Seq(Ops) /\ Len(Remap) = 10
    /\ Remap[1] = Command("master", 17) /\ Remap[2] = Command("slave", 17)
    /\ Remap[3] = Write("master", 32) /\ Remap[4] = Write("slave", 40)
    /\ Remap[5] = Write("master", 4) /\ Remap[6] = Write("slave", 2)
    /\ Remap[7] = Write("master", 1) /\ Remap[8] = Write("slave", 1)
    /\ Remap[9] = Write("master", 0) /\ Remap[10] = Write("slave", 0)
<1>1. \A p \in {"master", "slave"}, b \in Nat : Command(p, b) \in Ops /\ Write(p, b) \in Ops
  BY DEF Command, Write, Op, Ops
<1>2. Remap \in Seq(Ops)
  BY <1>1 DEF Remap
<1> QED BY <1>2 DEF Remap

\* The whole sequence.
LEMMA ProgramOps ==
    /\ Len(Program) = 19
    /\ Program[1] = Op("descriptor", "none", 0)
    /\ \A i \in 2..5 : Program[i] = Op("descriptor", "none", MaxPage)
    /\ Program[6] = Op("gdt_flush", "none", 2)
    /\ Program[7] = Command("master", 17) /\ Program[8] = Command("slave", 17)
    /\ Program[9] = Write("master", 32) /\ Program[10] = Write("slave", 40)
    /\ Program[11] = Write("master", 4) /\ Program[12] = Write("slave", 2)
    /\ Program[13] = Write("master", 1) /\ Program[14] = Write("slave", 1)
    /\ Program[15] = Write("master", 0) /\ Program[16] = Write("slave", 0)
    /\ Program[17] = Op("idt_flush", "none", 0)
    /\ Program[18] = Op("register", "none", 14) /\ Program[19] = Op("register", "none", 33)
<1> DEFINE G == gdt_initialize
           I == <<Op("idt_flush", "none", 0)>>
           R == <<Op("register", "none", 14), Op("register", "none", 33)>>
<1>1. I \in Seq(Ops) /\ Len(I) = 1 /\ I[1] = Op("idt_flush", "none", 0)
  BY DEF Op, Ops
<1>2. /\ R \in Seq(Ops) /\ Len(R) = 2
      /\ R[1] = Op("register", "none", 14) /\ R[2] = Op("register", "none", 33)
  BY DEF Op, Ops
<1>3. Program = ((G \o Remap) \o I) \o R
  BY DEF Program
<1> HIDE DEF I, R
<1>4. PICK u : u = G \o Remap /\ Joins(u, G, 6, Remap, 10)
  BY GdtOps, RemapOps, Joined
<1>5. u \in Seq(Ops) /\ Len(u) = 16
  BY <1>4 DEF Joins
<1>6. PICK v : v = u \o I /\ Joins(v, u, 16, I, 1)
  BY <1>1, <1>5, Joined
<1>7. v \in Seq(Ops) /\ Len(v) = 17
  BY <1>6 DEF Joins
<1>8. Joins(Program, v, 17, R, 2)
  <2>1. Program = v \o R
    BY <1>3, <1>4, <1>6, Zenon
  <2> QED BY <1>2, <1>7, <2>1, Joined
<1>9. Len(Program) = 19 /\ Program[17 + 1] = R[1] /\ Program[17 + 2] = R[2]
  BY <1>8 DEF Joins
<1>10. \A i \in 1..17 : Program[i] = v[i]
  BY <1>8 DEF Joins
<1>11. Program[17] = I[1]
  <2>1. 1 \in 1..1 /\ 16 + 1 = 17 /\ 17 \in 1..17
    OBVIOUS
  <2>2. v[16 + 1] = I[1]
    BY <1>6, <2>1 DEF Joins
  <2> QED BY <1>10, <2>1, <2>2, Zenon
<1>12. \A i \in 1..16 : Program[i] = u[i]
  <2>1. \A i \in 1..16 : v[i] = u[i]
    BY <1>6 DEF Joins
  <2> QED BY <1>10, <2>1
<1>13. \A i \in 1..6 : Program[i] = G[i]
  <2>1. \A i \in 1..6 : u[i] = G[i]
    BY <1>4 DEF Joins
  <2> QED BY <1>12, <2>1
<1>14. \A i \in 1..10 : u[6 + i] = Remap[i]
  BY <1>4 DEF Joins
<1>15. \A i \in 1..10 : Program[6 + i] = Remap[i]
  <2>1. \A i \in 1..10 : 6 + i \in 1..16
    OBVIOUS
  <2> QED BY <1>12, <1>14, <2>1
<1>16. /\ Program[7] = Remap[1] /\ Program[8] = Remap[2] /\ Program[9] = Remap[3]
       /\ Program[10] = Remap[4] /\ Program[11] = Remap[5] /\ Program[12] = Remap[6]
       /\ Program[13] = Remap[7] /\ Program[14] = Remap[8] /\ Program[15] = Remap[9]
       /\ Program[16] = Remap[10]
  <2> DEFINE P(i) == Program[6 + i] = Remap[i]
  <2>1. P(1) /\ P(2) /\ P(3) /\ P(4) /\ P(5) /\ P(6) /\ P(7) /\ P(8) /\ P(9) /\ P(10)
    BY <1>15
  <2> QED BY <2>1
<1>17. /\ Program[17] = Op("idt_flush", "none", 0) /\ Len(Program) = 19
       /\ Program[18] = Op("register", "none", 14) /\ Program[19] = Op("register", "none", 33)
  <2>1. 17 + 1 = 18 /\ 17 + 2 = 19
    OBVIOUS
  <2> QED BY <1>1, <1>2, <1>9, <1>11, <2>1, Zenon
<1>18. /\ Program[1] = Op("descriptor", "none", 0)
       /\ \A i \in 2..5 : Program[i] = Op("descriptor", "none", MaxPage)
       /\ Program[6] = Op("gdt_flush", "none", 2)
  <2>1. 1 \in 1..6 /\ 6 \in 1..6 /\ \A i \in 2..5 : i \in 1..6
    OBVIOUS
  <2> QED BY <1>13, <2>1, GdtOps, Zenon
<1> QED BY <1>16, <1>17, <1>18, RemapOps

----------------------------------------------------------------------------
(* The inductive invariant.                                                *)

Pics == [next : 1..4, offset : {8, 32, 40, 112}, mask : SUBSET (0..7),
         request : SUBSET (0..7), service : SUBSET (0..7)]

\* A controller once i - 1 operations are done, the first of its own being the
\* seventh and every second one after it.
Phase(pic, i, before, after) ==
    /\ pic.next = CASE i \in 8..9 -> 2 [] i \in 10..11 -> 3 [] i \in 12..13 -> 4 [] OTHER -> 1
    /\ pic.offset = IF i >= 10 THEN after ELSE before

\* What the boot sequence has set up so far: all of it once anything can go
\* through a gate.
SetUp ==
    /\ at \in 1..20
    /\ pc # "boot" => at >= 18
    /\ Phase(master, at, 8, 32)
    /\ Phase(slave, at - 1, 112, 40)
    /\ gdt \in Seq([limit : 0..MaxPage])
    /\ Len(gdt) = IF at <= 5 THEN at - 1 ELSE 5
    /\ segment = IF at > 6 THEN 2 ELSE 0
    /\ gates \in BOOLEAN /\ (gates <=> at > 17)
    /\ handlers \subseteq {14, 33}

\* What the controllers have in service: nothing unless an interrupt is under way
\* and not yet ended, and then no more than the one line.
AtMostOne(S) == S = {} \/ \E i \in 0..7 : S = {i}

ServiceSound ==
    /\ master \in Pics /\ slave \in Pics
    /\ 2 \notin master.request
    /\ AtMostOne(master.service) /\ AtMostOne(slave.service)
    /\ master.service # {} =>
          pc \in {"stub", "irq_common_stub", "irq_handler", "end of interrupt"} /\ vector >= 32
    /\ slave.service # {} => pc \in {"stub", "irq_common_stub", "irq_handler"} /\ vector >= 40

\* The words the processor pushes for an interrupt, and those above them in the
\* handler.
Interrupted == <<1, CodeSelector, AfterHlt>>
Numbered == <<1, CodeSelector, AfterHlt, 0, vector>>
Handled == <<1, CodeSelector, AfterHlt, 0, vector, Registers, DataSelector, 7>>

Waiting == {"boot", "hlt"}
InHandler == {"irq_handler", "end of interrupt", "handler", "unwind"}
Returning == {"sti", "iret"}
InException == {"isr_common_stub", "isr_handler", "page_fault", "halted"}

\* The stack, at each place of the way in and of the way back.  An exception may
\* come on top of a handler, and does not return: all that counts is where its own
\* number is.
StackSound ==
    /\ vector \in 0..47 /\ source = vector
    /\ enabled \in BOOLEAN
    /\ pc \in Waiting \cup {"stub", "irq_common_stub"} \cup InHandler \cup Returning \cup InException
    /\ stack \in Seq(Nat)
    /\ pc \in Waiting => stack = <<>> /\ context = <<>>
    /\ pc \in {"irq_common_stub"} \cup InHandler \cup Returning \/ (pc = "stub" /\ vector >= 32) =>
          vector >= 32 /\ context = <<Interrupted>>
    /\ pc \in Returning \/ (pc = "stub" /\ vector >= 32) => stack = Interrupted
    /\ pc = "irq_common_stub" => stack = Numbered
    /\ pc \in InHandler => stack = Handled
    /\ pc = "isr_common_stub" => Len(stack) >= 1 /\ stack[Len(stack)] = vector
    /\ pc \in {"isr_handler", "page_fault"} =>
          /\ Len(stack) >= 4
          /\ stack[Len(stack)] = Len(stack) - 1 /\ stack[Len(stack) - 3] = vector

IInv == SetUp /\ ServiceSound /\ StackSound

----------------------------------------------------------------------------
(* The controllers.                                                        *)

\* The first of some inputs is one of them.
LEMMA MinOfInputs ==
    ASSUME NEW S \in SUBSET (0..7), S # {}
    PROVE  Min(S) \in S /\ Min(S) \in 0..7
<1>1. \E x \in S : \A y \in S : x <= y
  <2>1. PICK z \in 0..7 : z \in S
    OBVIOUS
  <2>2. CASE 0 \in S
    BY <2>2
  <2>3. CASE 0 \notin S /\ 1 \in S
    BY <2>3
  <2>4. CASE 0 \notin S /\ 1 \notin S /\ 2 \in S
    BY <2>4
  <2>5. CASE {0, 1, 2} \cap S = {} /\ 3 \in S
    BY <2>5
  <2>6. CASE {0, 1, 2, 3} \cap S = {} /\ 4 \in S
    BY <2>6
  <2>7. CASE {0, 1, 2, 3, 4} \cap S = {} /\ 5 \in S
    BY <2>7
  <2>8. CASE {0, 1, 2, 3, 4, 5} \cap S = {} /\ 6 \in S
    BY <2>8
  <2>9. CASE {0, 1, 2, 3, 4, 5, 6} \cap S = {}
    BY <2>1, <2>9
  <2> QED BY <2>2, <2>3, <2>4, <2>5, <2>6, <2>7, <2>8, <2>9
<1> QED BY <1>1 DEF Min

\* The command that starts initialisation.
LEMMA InitCommand ==
    ASSUME NEW pic \in Pics
    PROVE  /\ Commanded(pic, 17) \in Pics
           /\ Commanded(pic, 17).next = 2
           /\ Commanded(pic, 17).offset = pic.offset
           /\ Commanded(pic, 17).request = {}
           /\ Commanded(pic, 17).service = pic.service
<1>1. Commanded(pic, 17) = [next |-> 2, offset |-> pic.offset, mask |-> {},
                            request |-> {}, service |-> pic.service]
  BY DEF Commanded, Pics
<1> QED BY <1>1 DEF Pics

\* The command that ends a service: nothing is in service after it, if at most one
\* line was before it.
LEMMA EndCommand ==
    ASSUME NEW pic \in Pics, AtMostOne(pic.service)
    PROVE  /\ Commanded(pic, 32) \in Pics
           /\ Commanded(pic, 32).next = pic.next
           /\ Commanded(pic, 32).offset = pic.offset
           /\ Commanded(pic, 32).request = pic.request
           /\ Commanded(pic, 32).service = {}
<1> DEFINE left == IF pic.service = {} THEN {} ELSE pic.service \ {Min(pic.service)}
<1>1. left = {}
  <2>1. CASE pic.service = {}
    BY <2>1
  <2>2. CASE pic.service # {}
    <3>1. PICK i \in 0..7 : pic.service = {i}
      BY <2>2 DEF AtMostOne
    <3>2. Min(pic.service) = i
      BY <3>1, MinOfInputs
    <3> QED BY <2>2, <3>1, <3>2
  <2> QED BY <2>1, <2>2
<1> HIDE DEF left
<1>2. Commanded(pic, 32) = [next |-> pic.next, offset |-> pic.offset, mask |-> pic.mask,
                            request |-> pic.request, service |-> left]
  BY DEF Commanded, Pics, left
<1> QED BY <1>1, <1>2 DEF Pics

\* The four meanings of a byte of data.
LEMMA GivenOffset ==
    ASSUME NEW pic \in Pics, NEW byte \in {32, 40}, pic.next = 2
    PROVE  /\ Given(pic, byte) \in Pics
           /\ Given(pic, byte).next = 3 /\ Given(pic, byte).offset = byte
           /\ Given(pic, byte).request = pic.request
           /\ Given(pic, byte).service = pic.service
<1>1. Given(pic, byte) = [next |-> 3, offset |-> byte, mask |-> pic.mask,
                          request |-> pic.request, service |-> pic.service]
  <2>1. Given(pic, byte) = [pic EXCEPT !.next = 3, !.offset = byte]
    BY DEF Given
  <2>2. byte \in {8, 32, 40, 112}
    OBVIOUS
  <2> DEFINE q == [pic EXCEPT !.next = 3]
             r == [pic EXCEPT !.next = 3, !.offset = byte]
  <2>3. q = [next |-> 3, offset |-> pic.offset, mask |-> pic.mask,
             request |-> pic.request, service |-> pic.service]
    BY DEF Pics
  <2>4. r = [q EXCEPT !.offset = byte]
    OBVIOUS
  <2> HIDE DEF q, r
  <2>5. r = [next |-> 3, offset |-> byte, mask |-> pic.mask,
             request |-> pic.request, service |-> pic.service]
    BY <2>3, <2>4
  <2> QED BY <2>1, <2>5 DEF r
<1> QED BY <1>1 DEF Pics

\* A byte of data that is not the offset leaves the offset and the requests.
LEMMA GivenOther ==
    ASSUME NEW pic \in Pics, NEW byte \in Nat, pic.next # 2
    PROVE  /\ Given(pic, byte) \in Pics
           /\ Given(pic, byte).next = IF pic.next = 3 THEN 4 ELSE 1
           /\ Given(pic, byte).offset = pic.offset
           /\ Given(pic, byte).request = pic.request
           /\ Given(pic, byte).service = pic.service
<1> DEFINE bits == {i \in 0..7 : (byte \div 2^i) % 2 = 1}
<1>1. CASE pic.next \in {3, 4}
  <2>1. Given(pic, byte) = [next |-> IF pic.next = 3 THEN 4 ELSE 1, offset |-> pic.offset,
                            mask |-> pic.mask, request |-> pic.request,
                            service |-> pic.service]
    BY <1>1 DEF Given, Pics
  <2> QED BY <2>1 DEF Pics
<1>2. CASE pic.next = 1
  <2>1. bits \in SUBSET (0..7)
    OBVIOUS
  <2>2. Given(pic, byte) = [pic EXCEPT !.mask = bits]
    BY <1>2 DEF Given
  <2> HIDE DEF bits
  <2>3. Given(pic, byte) = [next |-> 1, offset |-> pic.offset, mask |-> bits,
                            request |-> pic.request, service |-> pic.service]
    BY <1>2, <2>2 DEF Pics
  <2> QED BY <1>2, <2>1, <2>3 DEF Pics
<1> QED BY <1>1, <1>2 DEF Pics

\* A controller whose request is acknowledged.
LEMMA ServesSound ==
    ASSUME NEW pic \in Pics, NEW i \in 0..7, NEW lowered \in BOOLEAN, pic.service = {}
    PROVE  /\ Serves(pic, i, lowered) \in Pics
           /\ Serves(pic, i, lowered).next = pic.next
           /\ Serves(pic, i, lowered).offset = pic.offset
           /\ Serves(pic, i, lowered).request \subseteq pic.request
           /\ AtMostOne(Serves(pic, i, lowered).service)
<1> DEFINE served == IF lowered THEN {} ELSE {i}
           left == pic.request \ {i}
<1>1. /\ served \in SUBSET (0..7) /\ AtMostOne(served)
      /\ left \in SUBSET (0..7) /\ left \subseteq pic.request
  BY DEF Pics, AtMostOne
<1>2. Serves(pic, i, lowered) = [pic EXCEPT !.request = left, !.service = served]
  BY DEF Serves, Pics
<1> HIDE DEF served, left
<1>3. Serves(pic, i, lowered) = [next |-> pic.next, offset |-> pic.offset, mask |-> pic.mask,
                                 request |-> left, service |-> served]
  <2> DEFINE q == [pic EXCEPT !.request = left]
             r == [pic EXCEPT !.request = left, !.service = served]
  <2>1. q = [next |-> pic.next, offset |-> pic.offset, mask |-> pic.mask,
             request |-> left, service |-> pic.service]
    BY DEF Pics
  <2>2. r = [q EXCEPT !.service = served]
    OBVIOUS
  <2> HIDE DEF q, r
  <2>3. r = [next |-> pic.next, offset |-> pic.offset, mask |-> pic.mask,
             request |-> left, service |-> served]
    BY <2>1, <2>2
  <2> QED BY <1>2, <2>3 DEF r
<1> QED BY <1>1, <1>3 DEF Pics

\* A controller whose input is raised or lowered.
LEMMA WiredSound ==
    ASSUME NEW pic \in Pics, NEW R \in SUBSET (0..7)
    PROVE  /\ [pic EXCEPT !.request = R] \in Pics
           /\ [pic EXCEPT !.request = R].next = pic.next
           /\ [pic EXCEPT !.request = R].offset = pic.offset
           /\ [pic EXCEPT !.request = R].mask = pic.mask
           /\ [pic EXCEPT !.request = R].request = R
           /\ [pic EXCEPT !.request = R].service = pic.service
BY DEF Pics

----------------------------------------------------------------------------
(* The boot sequence.                                                      *)

\* One step of the boot sequence, seen from one controller.
FedAt(p, q, d, after) ==
    /\ d = 7 => q = Commanded(p, 17)
    /\ d = 9 => q = Given(p, after)
    /\ d \in {11, 13, 15} => \E b \in Nat : q = Given(p, b)
    /\ d \notin {7, 9, 11, 13, 15} => q = p

\* The controller is then where its phase says, one operation later.
LEMMA PhaseStep ==
    ASSUME NEW p \in Pics, NEW q, NEW d \in Int, NEW before, NEW after \in {32, 40},
           Phase(p, d, before, after), FedAt(p, q, d, after)
    PROVE  /\ q \in Pics /\ Phase(q, d + 1, before, after)
           /\ q.request \subseteq p.request /\ q.service = p.service
<1>1. CASE d = 7
  BY <1>1, InitCommand DEF Phase, FedAt
<1>2. CASE d = 9
  <2>1. p.next = 2
    BY <1>2 DEF Phase
  <2> QED BY <1>2, <2>1, GivenOffset DEF Phase, FedAt
<1>3. CASE d \in {11, 13, 15}
  <2>1. PICK b \in Nat : q = Given(p, b)
    BY <1>3 DEF FedAt
  <2>2. p.next = (IF d = 11 THEN 3 ELSE IF d = 13 THEN 4 ELSE 1) /\ p.offset = after
    BY <1>3 DEF Phase
  <2>3. q \in Pics /\ q.next = (IF p.next = 3 THEN 4 ELSE 1) /\ q.offset = p.offset
        /\ q.request = p.request /\ q.service = p.service
    BY <2>1, <2>2, GivenOther
  <2>4. Phase(q, d + 1, before, after)
    BY <1>3, <2>2, <2>3 DEF Phase
  <2> QED BY <2>3, <2>4
<1>4. CASE d \notin {7, 9, 11, 13, 15}
  BY <1>4 DEF Phase, FedAt
<1> QED BY <1>1, <1>2, <1>3, <1>4

\* What an operation is, by its place.
OpIs(i, o) ==
    /\ o.op = CASE i \in 1..5 -> "descriptor"
               [] i = 6 -> "gdt_flush"
               [] i \in {7, 8} -> "command"
               [] i \in 9..16 -> "write"
               [] i = 17 -> "idt_flush"
               [] i \in {18, 19} -> "register"
    /\ o.arg = CASE i \in {7, 9, 11, 13, 15} -> "master"
                [] i \in {8, 10, 12, 14, 16} -> "slave"
                [] OTHER -> "none"
    /\ o.val \in Nat
    /\ i \in 1..5 => o.val \in {0, MaxPage}
    /\ i = 6 => o.val = 2
    /\ i \in {7, 8} => o.val = 17
    /\ i = 9 => o.val = 32
    /\ i = 10 => o.val = 40
    /\ i \in {18, 19} => o.val \in {14, 33}

\* The operations of Program are those.
LEMMA OpAt == \A i \in 1..19 : OpIs(i, Program[i])
<1> SUFFICES ASSUME NEW i \in 1..19 PROVE OpIs(i, Program[i])
  OBVIOUS
<1> PICK o : o = Program[i]
  OBVIOUS
<1> SUFFICES OpIs(i, o)
  OBVIOUS
<1>1. CASE i \in 1..5
  <2>1. PICK v \in {0, MaxPage} : o = Op("descriptor", "none", v)
    <3>1. i = 1 \/ i \in 2..5
      BY <1>1
    <3> QED BY <3>1, ProgramOps
  <2>2. v \in Nat
    BY InterruptsAssumption
  <2>3. o.op = "descriptor" /\ o.arg = "none" /\ o.val = v
    BY <2>1 DEF Op
  <2> QED BY <1>1, <2>2, <2>3 DEF OpIs
<1>2. CASE i = 6
  <2>1. o = Op("gdt_flush", "none", 2)
    BY <1>2, ProgramOps
  <2>2. o.op = "gdt_flush" /\ o.arg = "none" /\ o.val = 2
    BY <2>1 DEF Op
  <2> QED BY <1>2, <2>2 DEF OpIs
<1>3. CASE i = 7
  <2>1. o = Op("command", "master", 17)
    BY <1>3, ProgramOps DEF Command
  <2>2. o.op = "command" /\ o.arg = "master" /\ o.val = 17
    BY <2>1 DEF Op
  <2> QED BY <1>3, <2>2 DEF OpIs
<1>4. CASE i = 8
  <2>1. o = Op("command", "slave", 17)
    BY <1>4, ProgramOps DEF Command
  <2>2. o.op = "command" /\ o.arg = "slave" /\ o.val = 17
    BY <2>1 DEF Op
  <2> QED BY <1>4, <2>2 DEF OpIs
<1>5. CASE i = 9
  <2>1. o = Op("write", "master", 32)
    BY <1>5, ProgramOps DEF Write
  <2>2. o.op = "write" /\ o.arg = "master" /\ o.val = 32
    BY <2>1 DEF Op
  <2> QED BY <1>5, <2>2 DEF OpIs
<1>6. CASE i = 10
  <2>1. o = Op("write", "slave", 40)
    BY <1>6, ProgramOps DEF Write
  <2>2. o.op = "write" /\ o.arg = "slave" /\ o.val = 40
    BY <2>1 DEF Op
  <2> QED BY <1>6, <2>2 DEF OpIs
<1>7. CASE i \in {11, 13, 15}
  <2>1. PICK v \in Nat : o = Op("write", "master", v)
    BY <1>7, ProgramOps DEF Write
  <2>2. o.op = "write" /\ o.arg = "master" /\ o.val = v
    BY <2>1 DEF Op
  <2> QED BY <1>7, <2>2 DEF OpIs
<1>8. CASE i \in {12, 14, 16}
  <2>1. PICK v \in Nat : o = Op("write", "slave", v)
    BY <1>8, ProgramOps DEF Write
  <2>2. o.op = "write" /\ o.arg = "slave" /\ o.val = v
    BY <2>1 DEF Op
  <2> QED BY <1>8, <2>2 DEF OpIs
<1>9. CASE i = 17
  <2>1. o = Op("idt_flush", "none", 0)
    BY <1>9, ProgramOps
  <2>2. o.op = "idt_flush" /\ o.arg = "none" /\ o.val = 0
    BY <2>1 DEF Op
  <2> QED BY <1>9, <2>2 DEF OpIs
<1>10. CASE i \in {18, 19}
  <2>1. PICK v \in {14, 33} : o = Op("register", "none", v)
    BY <1>10, ProgramOps
  <2>2. o.op = "register" /\ o.arg = "none" /\ o.val = v
    BY <2>1 DEF Op
  <2> QED BY <1>10, <2>2 DEF OpIs
<1>11. \/ i \in 1..5 \/ i = 6 \/ i = 7 \/ i = 8 \/ i = 9 \/ i = 10
       \/ i \in {11, 13, 15} \/ i \in {12, 14, 16} \/ i = 17 \/ i \in {18, 19}
  OBVIOUS
<1> QED BY <1>1, <1>2, <1>3, <1>4, <1>5, <1>6, <1>7, <1>8, <1>9, <1>10, <1>11

\* What each operation does.
LEMMA BootEffect ==
    ASSUME at \in 1..20, gates \in BOOLEAN, Boot
    PROVE  /\ at \in 1..19 /\ at' = at + 1 /\ pc = "boot" /\ pc' = "boot"
           /\ at = 7 => master' = Commanded(master, 17)
           /\ at = 9 => master' = Given(master, 32)
           /\ at \in {11, 13, 15} => \E b \in Nat : master' = Given(master, b)
           /\ at \notin {7, 9, 11, 13, 15} => master' = master
           /\ at = 8 => slave' = Commanded(slave, 17)
           /\ at = 10 => slave' = Given(slave, 40)
           /\ at \in {12, 14, 16} => \E b \in Nat : slave' = Given(slave, b)
           /\ at \notin {8, 10, 12, 14, 16} => slave' = slave
           /\ IF at <= 5 THEN \E v \in {0, MaxPage} : gdt' = Append(gdt, Descriptor(v))
                         ELSE gdt' = gdt
           /\ segment' = IF at = 6 THEN 2 ELSE segment
           /\ gates' \in BOOLEAN /\ (gates' <=> gates \/ at = 17)
           /\ handlers' \subseteq handlers \cup {14, 33}
           /\ UNCHANGED <<enabled, pc, vector, source, context, stack>>
<1>1. at \in 1..19
  <2>1. at <= Len(Program)
    BY Zenon DEF Boot
  <2> QED BY <2>1, ProgramOps
<1>2. PICK o : o = Program[at] /\ OpIs(at, o)
  BY <1>1, OpAt
<1>3. /\ pc = "boot" /\ at' = at + 1
      /\ master' = IF o.arg = "master" THEN Told(master, o.op, o.val) ELSE master
      /\ slave' = IF o.arg = "slave" THEN Told(slave, o.op, o.val) ELSE slave
      /\ gdt' = IF o.op = "descriptor" THEN Append(gdt, Descriptor(o.val)) ELSE gdt
      /\ segment' = IF o.op = "gdt_flush" THEN o.val ELSE segment
      /\ gates' = (gates \/ o.op = "idt_flush")
      /\ handlers' = IF o.op = "register" THEN handlers \cup {o.val} ELSE handlers
      /\ UNCHANGED <<enabled, pc, vector, source, context, stack>>
  BY <1>2, Zenon DEF Boot
<1>4. /\ at = 7 => master' = Commanded(master, 17)
      /\ at = 9 => master' = Given(master, 32)
      /\ at \in {11, 13, 15} => \E b \in Nat : master' = Given(master, b)
      /\ at \notin {7, 9, 11, 13, 15} => master' = master
  <2>1. /\ o.arg # "master" => master' = master
        /\ o.arg = "master" /\ o.op = "command" => master' = Commanded(master, o.val)
        /\ o.arg = "master" /\ o.op # "command" => master' = Given(master, o.val)
    BY <1>3, Zenon DEF Told
  <2>2. at = 7 => o.arg = "master" /\ o.op = "command" /\ o.val = 17
    BY <1>2 DEF OpIs
  <2>3. at = 9 => o.arg = "master" /\ o.op # "command" /\ o.val = 32
    BY <1>2 DEF OpIs
  <2>4. at \in {11, 13, 15} => o.arg = "master" /\ o.op # "command" /\ o.val \in Nat
    BY <1>2 DEF OpIs
  <2>5. at \notin {7, 9, 11, 13, 15} => o.arg # "master"
    BY <1>1, <1>2 DEF OpIs
  <2> QED BY <2>1, <2>2, <2>3, <2>4, <2>5, Zenon
<1>5. /\ at = 8 => slave' = Commanded(slave, 17)
      /\ at = 10 => slave' = Given(slave, 40)
      /\ at \in {12, 14, 16} => \E b \in Nat : slave' = Given(slave, b)
      /\ at \notin {8, 10, 12, 14, 16} => slave' = slave
  <2>1. /\ o.arg # "slave" => slave' = slave
        /\ o.arg = "slave" /\ o.op = "command" => slave' = Commanded(slave, o.val)
        /\ o.arg = "slave" /\ o.op # "command" => slave' = Given(slave, o.val)
    BY <1>3, Zenon DEF Told
  <2>2. at = 8 => o.arg = "slave" /\ o.op = "command" /\ o.val = 17
    BY <1>2 DEF OpIs
  <2>3. at = 10 => o.arg = "slave" /\ o.op # "command" /\ o.val = 40
    BY <1>2 DEF OpIs
  <2>4. at \in {12, 14, 16} => o.arg = "slave" /\ o.op # "command" /\ o.val \in Nat
    BY <1>2 DEF OpIs
  <2>5. at \notin {8, 10, 12, 14, 16} => o.arg # "slave"
    BY <1>1, <1>2 DEF OpIs
  <2> QED BY <2>1, <2>2, <2>3, <2>4, <2>5, Zenon
<1>6. /\ IF at <= 5 THEN \E v \in {0, MaxPage} : gdt' = Append(gdt, Descriptor(v))
                   ELSE gdt' = gdt
      /\ segment' = IF at = 6 THEN 2 ELSE segment
  <2>1. (at <= 5 <=> o.op = "descriptor") /\ (at <= 5 => o.val \in {0, MaxPage})
    BY <1>1, <1>2 DEF OpIs
  <2>2. (at = 6 <=> o.op = "gdt_flush") /\ (at = 6 => o.val = 2)
    BY <1>1, <1>2 DEF OpIs
  <2> QED BY <1>3, <2>1, <2>2, Zenon
<1>7. gates' \in BOOLEAN /\ (gates' <=> gates \/ at = 17)
  <2>1. o.op = "idt_flush" <=> at = 17
    BY <1>1, <1>2 DEF OpIs
  <2> QED BY <1>3, <2>1, Zenon
<1>8. handlers' \subseteq handlers \cup {14, 33}
  BY <1>1, <1>2, <1>3 DEF OpIs
<1> QED BY <1>1, <1>3, <1>4, <1>5, <1>6, <1>7, <1>8

\* The firmware's state, with nothing done.
LEMMA Starts == Init => IInv
<1> SUFFICES ASSUME Init PROVE IInv
  OBVIOUS
<1>1. FirmwarePic(8) \in Pics /\ FirmwarePic(112) \in Pics
  BY DEF FirmwarePic, Pics
<1>2. SetUp
  <2>1. at = 1 /\ pc = "boot" /\ gdt = <<>> /\ segment = 0 /\ gates = FALSE /\ handlers = {}
    BY DEF Init
  <2>2. Phase(master, at, 8, 32) /\ Phase(slave, at - 1, 112, 40)
    BY <2>1 DEF Init, Phase, FirmwarePic
  <2>3. gdt \in Seq([limit : 0..MaxPage]) /\ Len(gdt) = 0
    BY <2>1
  <2>4. gates \in BOOLEAN /\ ~gates
    BY <2>1
  <2> QED BY <2>1, <2>2, <2>3, <2>4 DEF SetUp
<1>3. ServiceSound
  BY <1>1 DEF Init, ServiceSound, AtMostOne, FirmwarePic
<1>4. StackSound
  <2>1. /\ pc = "boot" /\ enabled \in BOOLEAN /\ vector = 0 /\ source = 0
        /\ stack = <<>> /\ context = <<>>
    BY DEF Init
  <2>2. stack \in Seq(Nat)
    BY <2>1
  <2> QED BY <2>1, <2>2 DEF StackSound, Waiting, InHandler, Returning, InException
<1> QED BY <1>2, <1>3, <1>4 DEF IInv

\* Each operation of the boot sequence brings what it sets up one step further.
LEMMA BootKeeps == IInv /\ Boot => IInv'
<1> SUFFICES ASSUME IInv, Boot PROVE IInv'
  OBVIOUS
<1>1. at \in 1..20 /\ gates \in BOOLEAN /\ master \in Pics /\ slave \in Pics
  BY DEF IInv, SetUp, ServiceSound
<1>2. at \in 1..19 /\ at' = at + 1 /\ pc = "boot" /\ pc' = "boot"
  BY <1>1, BootEffect
<1>3. /\ master' \in Pics /\ Phase(master', at + 1, 8, 32)
      /\ master'.request \subseteq master.request /\ master'.service = master.service
  <2>1. Phase(master, at, 8, 32)
    BY DEF IInv, SetUp
  <2>2. FedAt(master, master', at, 32)
    BY <1>1, BootEffect, Zenon DEF FedAt
  <2>3. at \in Int /\ 32 \in {32, 40}
    BY <1>1
  <2> QED BY <1>1, <2>1, <2>2, <2>3, PhaseStep, Zenon
<1>4. /\ slave' \in Pics /\ Phase(slave', (at + 1) - 1, 112, 40)
      /\ slave'.service = slave.service
  <2> PICK d \in Int : d = at - 1
    BY <1>1
  <2>1. Phase(slave, d, 112, 40)
    BY DEF IInv, SetUp
  <2>2. FedAt(slave, slave', d, 40)
    <3>1. /\ at = 8 => slave' = Commanded(slave, 17)
          /\ at = 10 => slave' = Given(slave, 40)
          /\ at \in {12, 14, 16} => \E b \in Nat : slave' = Given(slave, b)
          /\ at \notin {8, 10, 12, 14, 16} => slave' = slave
      BY <1>1, BootEffect
    <3>2. /\ d = 7 <=> at = 8 
          /\ d = 9 <=> at = 10
          /\ d \in {11, 13, 15} <=> at \in {12, 14, 16}
          /\ d \in {7, 9, 11, 13, 15} <=> at \in {8, 10, 12, 14, 16}
      BY <1>1
    <3> QED BY <3>1, <3>2, Zenon DEF FedAt
  <2>3. slave' \in Pics /\ Phase(slave', d + 1, 112, 40) /\ slave'.service = slave.service
    BY <1>1, <2>1, <2>2, PhaseStep
  <2>4. d + 1 = (at + 1) - 1
    BY <1>1
  <2> QED BY <2>3, <2>4
<1>5. gdt' \in Seq([limit : 0..MaxPage]) /\ Len(gdt') = IF at' <= 5 THEN at' - 1 ELSE 5
  <2>1. gdt \in Seq([limit : 0..MaxPage]) /\ Len(gdt) = IF at <= 5 THEN at - 1 ELSE 5
    BY DEF IInv, SetUp
  <2>2. CASE at <= 5
    <3>1. PICK v \in {0, MaxPage} : gdt' = Append(gdt, Descriptor(v))
      BY <1>1, <2>2, BootEffect
    <3>2. v % 65536 \in 0..MaxPage
      <4>1. v \in Nat /\ v <= MaxPage /\ MaxPage \in Nat
        BY InterruptsAssumption
      <4> QED BY <4>1
    <3>3. Descriptor(v) \in [limit : 0..MaxPage]
      BY <3>2 DEF Descriptor
    <3> QED BY <1>2, <2>1, <2>2, <3>1, <3>3
  <2>3. CASE ~(at <= 5)
    <3>1. gdt' = gdt
      BY <1>1, <2>3, BootEffect
    <3> QED BY <1>2, <2>1, <2>3, <3>1
  <2> QED BY <2>2, <2>3
<1>6. /\ segment' = IF at' > 6 THEN 2 ELSE 0
      /\ gates' \in BOOLEAN /\ (gates' <=> at' > 17)
      /\ handlers' \subseteq {14, 33}
  <2>1. /\ segment = IF at > 6 THEN 2 ELSE 0
        /\ gates <=> at > 17
        /\ handlers \subseteq {14, 33}
    BY DEF IInv, SetUp
  <2>2. /\ segment' = IF at = 6 THEN 2 ELSE segment
        /\ gates' \in BOOLEAN /\ (gates' <=> gates \/ at = 17)
        /\ handlers' \subseteq handlers \cup {14, 33}
    BY <1>1, BootEffect
  <2> QED BY <1>2, <2>1, <2>2
<1>7. SetUp'
  BY <1>2, <1>3, <1>4, <1>5, <1>6 DEF SetUp
<1>8. ServiceSound'
  BY <1>2, <1>3, <1>4 DEF IInv, ServiceSound
<1>9. StackSound'
  <2>1. UNCHANGED <<enabled, pc, vector, source, context, stack>>
    BY <1>1, BootEffect
  <2> QED BY <1>2, <2>1 DEF IInv, StackSound, Waiting, InHandler, Returning, InException, Handled, Numbered
<1> QED BY <1>7, <1>8, <1>9 DEF IInv

----------------------------------------------------------------------------
(* The way in.                                                             *)

\* Once the kernel waits for interrupts, everything is set up.
LEMMA AllSetUp ==
    ASSUME SetUp, at >= 18
    PROVE  /\ master.next = 1 /\ master.offset = 32
           /\ slave.next = 1 /\ slave.offset = 40
           /\ segment = 2 /\ gates
<1>1. /\ at \in 18..20 /\ at - 1 \in 17..19
      /\ Phase(master, at, 8, 32) /\ Phase(slave, at - 1, 112, 40)
  BY DEF SetUp
<1>2. master.next = 1 /\ master.offset = 32
  BY <1>1 DEF Phase
<1>3. slave.next = 1 /\ slave.offset = 40
  BY <1>1 DEF Phase
<1> QED BY <1>1, <1>2, <1>3 DEF SetUp

\* A step after the boot sequence leaves what has been set up.
LEMMA SetUpKept ==
    ASSUME SetUp, UNCHANGED <<gdt, gates, handlers, at>>, segment' = segment,
           master'.next = master.next, master'.offset = master.offset,
           slave'.next = slave.next, slave'.offset = slave.offset,
           pc' # "boot" => at >= 18
    PROVE  SetUp'
<1>1. Phase(master', at, 8, 32) /\ Phase(slave', at - 1, 112, 40)
  BY DEF SetUp, Phase
<1> QED BY <1>1 DEF SetUp

\* sti; hlt, once everything is set up.
LEMMA StiKeeps == IInv /\ Sti => IInv'
<1> SUFFICES ASSUME IInv, Sti PROVE IInv'
  OBVIOUS
<1>1. /\ pc = "boot" /\ pc' = "hlt" /\ enabled' = TRUE
      /\ UNCHANGED <<master, slave, gdt, segment, gates, handlers, at, vector, source, context, stack>>
  BY DEF Sti, pics, tables
<1>2. at = 20
  <2>1. at = Len(Program) + 1
    BY DEF Sti
  <2> QED BY <2>1, ProgramOps
<1>3. SetUp'
  BY <1>1, <1>2, SetUpKept DEF IInv
<1>4. ServiceSound'
  BY <1>1 DEF IInv, ServiceSound
<1>5. StackSound'
  BY <1>1 DEF IInv, StackSound, Waiting, InHandler, Returning, InException
<1> QED BY <1>3, <1>4, <1>5 DEF IInv

\* A device that raises or lowers its line touches only the requests.
LEMMA WireKeeps == \A l \in Lines : IInv /\ Wire(l) => IInv'
<1> SUFFICES ASSUME NEW l \in Lines, IInv, Wire(l) PROVE IInv'
  OBVIOUS
<1>1. UNCHANGED <<gdt, segment, gates, handlers, enabled, pc, at, vector, source, context, stack>>
  BY DEF Wire, tables, cpu
<1>2. /\ master' \in Pics /\ slave' \in Pics /\ 2 \notin master'.request
      /\ master'.next = master.next /\ master'.offset = master.offset
      /\ master'.service = master.service
      /\ slave'.next = slave.next /\ slave'.offset = slave.offset
      /\ slave'.service = slave.service
  <2>1. master \in Pics /\ slave \in Pics /\ 2 \notin master.request
    BY DEF IInv, ServiceSound
  <2>2. l \in 0..15 /\ l # 2
    BY InterruptsAssumption
  <2>3. PICK S \in {{l % 8}, {}} :
           IF l < 8
           THEN /\ master' = [master EXCEPT !.request = (@ \ {l}) \cup S]
                /\ slave' = slave
           ELSE /\ slave' = [slave EXCEPT !.request = (@ \ {l - 8}) \cup S]
                /\ master' = master
    BY DEF Wire
  <2>4. CASE l < 8
    <3>1. PICK R : R = (master.request \ {l}) \cup S
      OBVIOUS
    <3>2. master' = [master EXCEPT !.request = R] /\ slave' = slave
      BY <2>3, <2>4, <3>1
    <3>3. l % 8 = l
      BY <2>2, <2>4
    <3>4. R \in SUBSET (0..7) /\ 2 \notin R
      BY <2>1, <2>2, <2>3, <2>4, <3>1, <3>3 DEF Pics
    <3> QED BY <2>1, <3>2, <3>4, WiredSound
  <2>5. CASE ~(l < 8)
    <3>1. PICK R : R = (slave.request \ {l - 8}) \cup S
      OBVIOUS
    <3>2. slave' = [slave EXCEPT !.request = R] /\ master' = master
      BY <2>3, <2>5, <3>1
    <3>3. l % 8 \in 0..7
      BY <2>2
    <3>4. R \in SUBSET (0..7)
      BY <2>1, <2>3, <3>1, <3>3 DEF Pics
    <3> QED BY <2>1, <3>2, <3>4, WiredSound
  <2> QED BY <2>4, <2>5
<1>3. SetUp'
  BY <1>1, <1>2, SetUpKept DEF IInv, SetUp
<1>4. ServiceSound'
  BY <1>1, <1>2 DEF IInv, ServiceSound
<1>5. StackSound'
  BY <1>1 DEF IInv, StackSound, Handled, Numbered
<1> QED BY <1>3, <1>4, <1>5 DEF IInv

\* What may interrupt; the slave asks only when it has something to ask for.
LEMMA InputsReady ==
    ASSUME ServiceSound
    PROVE  /\ Ready(slave) \in SUBSET (0..7)
           /\ MasterReady \in SUBSET (0..7)
           /\ 2 \in MasterReady => Ready(slave) # {}
<1>1. master \in Pics /\ slave \in Pics /\ 2 \notin master.request
  BY DEF ServiceSound
<1>2. Ready(slave) \in SUBSET (0..7)
  BY <1>1 DEF Ready, Pics
<1>3. PICK R : R = IF Ready(slave) = {} THEN master.request ELSE master.request \cup {2}
  OBVIOUS
<1>4. R \in SUBSET (0..7) /\ (2 \in R => Ready(slave) # {})
  BY <1>1, <1>3 DEF Pics
<1>5. MasterReady = Ready([master EXCEPT !.request = R])
  BY <1>3 DEF MasterReady
<1>6. [master EXCEPT !.request = R].request = R
  BY <1>1, <1>4, WiredSound
<1>7. Ready([master EXCEPT !.request = R]) \subseteq R
  BY <1>6 DEF Ready
<1> QED BY <1>2, <1>4, <1>5, <1>7

\* Whichever input the master answers for, spurious or not, the vector is the one
\* that stands for the line.
LEMMA AcknowledgeSound ==
    ASSUME ServiceSound, master.service = {}, slave.service = {},
           master.offset = 32, slave.offset = 40, MasterReady # {}, Acknowledge
    PROVE  /\ master' \in Pics /\ slave' \in Pics /\ 2 \notin master'.request
           /\ master'.next = master.next /\ master'.offset = master.offset
           /\ slave'.next = slave.next /\ slave'.offset = slave.offset
           /\ AtMostOne(master'.service) /\ AtMostOne(slave'.service)
           /\ slave'.service # {} => vector' >= 40
           /\ vector' \in 32..47 /\ source' = vector'
<1>1. PICK m : m = Min(MasterReady)
  OBVIOUS
<1>2. PICK s : s = Min(Ready(slave))
  OBVIOUS
<1>3. m \in MasterReady /\ m \in 0..7
  BY <1>1, InputsReady, MinOfInputs
<1>4. m = 2 => s \in 0..7
  BY <1>2, <1>3, InputsReady, MinOfInputs
<1>5. master \in Pics /\ slave \in Pics /\ 2 \notin master.request
  BY DEF ServiceSound
<1>6. \/ /\ m # 2 /\ slave' = slave
         /\ \E lowered \in {FALSE, MasterReady = {m}} :
               /\ master' = Serves(master, m, lowered)
               /\ vector' = VectorOf(master, m, lowered)
               /\ source' = 32 + IF lowered THEN 7 ELSE m
      \/ /\ m = 2 /\ master' = Serves(master, 2, FALSE)
         /\ \E lowered \in {FALSE, Ready(slave) = {s}} :
               /\ slave' = Serves(slave, s, lowered)
               /\ vector' = VectorOf(slave, s, lowered)
               /\ source' = 40 + IF lowered THEN 7 ELSE s
      \/ /\ m = 2 /\ master' = master
         /\ slave' = [slave EXCEPT !.request = @ \ {s}]
         /\ vector' = VectorOf(master, 2, TRUE)
         /\ source' = 39
  BY <1>1, <1>2, Zenon DEF Acknowledge
<1>7. CASE m # 2 /\ slave' = slave
           /\ \E lowered \in {FALSE, MasterReady = {m}} :
                 /\ master' = Serves(master, m, lowered)
                 /\ vector' = VectorOf(master, m, lowered)
                 /\ source' = 32 + IF lowered THEN 7 ELSE m
  <2>1. PICK lowered \in BOOLEAN :
           /\ master' = Serves(master, m, lowered)
           /\ vector' = VectorOf(master, m, lowered)
           /\ source' = 32 + IF lowered THEN 7 ELSE m
    BY <1>7
  <2>2. /\ master' \in Pics /\ master'.request \subseteq master.request
        /\ master'.next = master.next /\ master'.offset = master.offset
        /\ AtMostOne(master'.service)
    BY <1>3, <1>5, <2>1, ServesSound
  <2>3. vector' \in 32..47 /\ source' = vector'
    BY <1>3, <2>1 DEF VectorOf
  <2> QED BY <1>5, <1>7, <2>2, <2>3 DEF AtMostOne
<1>8. CASE m = 2 /\ master' = Serves(master, 2, FALSE)
           /\ \E lowered \in {FALSE, Ready(slave) = {s}} :
                 /\ slave' = Serves(slave, s, lowered)
                 /\ vector' = VectorOf(slave, s, lowered)
                 /\ source' = 40 + IF lowered THEN 7 ELSE s
  <2>1. PICK lowered \in BOOLEAN :
           /\ slave' = Serves(slave, s, lowered)
           /\ vector' = VectorOf(slave, s, lowered)
           /\ source' = 40 + IF lowered THEN 7 ELSE s
    BY <1>8
  <2>2. /\ master' \in Pics /\ master'.request \subseteq master.request
        /\ master'.next = master.next /\ master'.offset = master.offset
        /\ AtMostOne(master'.service)
    <3>1. 2 \in 0..7 /\ FALSE \in BOOLEAN
      OBVIOUS
    <3> QED BY <1>5, <1>8, <3>1, ServesSound, Zenon
  <2>3. /\ slave' \in Pics /\ slave'.next = slave.next /\ slave'.offset = slave.offset
        /\ AtMostOne(slave'.service)
    BY <1>4, <1>5, <1>8, <2>1, ServesSound
  <2>4. vector' \in 40..47 /\ source' = vector'
    BY <1>4, <1>8, <2>1 DEF VectorOf
  <2> QED BY <1>5, <2>2, <2>3, <2>4
<1>9. CASE m = 2 /\ master' = master
           /\ slave' = [slave EXCEPT !.request = @ \ {s}]
           /\ vector' = VectorOf(master, 2, TRUE)
           /\ source' = 39
  <2>1. slave.request \ {s} \in SUBSET (0..7)
    BY <1>5 DEF Pics
  <2>2. /\ slave' \in Pics /\ slave'.next = slave.next /\ slave'.offset = slave.offset
        /\ slave'.service = slave.service
    BY <1>5, <1>9, <2>1, WiredSound
  <2>3. vector' = 39
    BY <1>9 DEF VectorOf
  <2>4. AtMostOne(master'.service) /\ AtMostOne(slave'.service) /\ slave'.service = {}
    BY <1>9, <2>2 DEF AtMostOne
  <2>5. vector' \in 32..47 /\ source' = vector'
    <3>1. source' = 39
      BY <1>9, Zenon
    <3> QED BY <2>3, <3>1
  <2> QED BY <1>5, <1>9, <2>2, <2>4, <2>5, Zenon
<1> QED BY <1>6, <1>7, <1>8, <1>9

\* An interrupt puts one line in service at most, and its three words on an empty
\* stack.
LEMMA InterruptKeeps == IInv /\ Interrupt => IInv'
<1> SUFFICES ASSUME IInv, Interrupt PROVE IInv'
  OBVIOUS
<1>1. /\ pc = "hlt" /\ pc' = "stub" /\ enabled /\ enabled' = FALSE
      /\ MasterReady # {} /\ Acknowledge
      /\ context' = Append(context, Pushed) /\ stack' = stack \o Pushed
      /\ UNCHANGED <<gdt, segment, gates, handlers, at>>
  BY DEF Interrupt, Shadow, tables
<1>2. /\ SetUp /\ at >= 18 /\ ServiceSound /\ master.service = {} /\ slave.service = {}
  BY <1>1 DEF IInv, SetUp, ServiceSound
<1>3. master.offset = 32 /\ slave.offset = 40
  BY <1>2, AllSetUp
<1>4. /\ master' \in Pics /\ slave' \in Pics /\ 2 \notin master'.request
      /\ master'.next = master.next /\ master'.offset = master.offset
      /\ slave'.next = slave.next /\ slave'.offset = slave.offset
      /\ AtMostOne(master'.service) /\ AtMostOne(slave'.service)
      /\ slave'.service # {} => vector' >= 40
      /\ vector' \in 32..47 /\ source' = vector'
  BY <1>1, <1>2, <1>3, AcknowledgeSound
<1>5. SetUp'
  BY <1>1, <1>2, <1>4, SetUpKept
<1>6. ServiceSound'
  BY <1>1, <1>4 DEF ServiceSound
<1>7. Pushed = Interrupted
  BY <1>1 DEF Pushed, Interrupted, Flags
<1>8. stack = <<>> /\ context = <<>>
  BY <1>1 DEF IInv, StackSound, Waiting
<1>9. Interrupted \in Seq(Nat)
  BY DEF Interrupted, CodeSelector, AfterHlt
<1>10. stack' = Interrupted /\ context' = <<Interrupted>>
  <2>1. <<>> \o Interrupted = Interrupted
    BY <1>9, ConcatEmptySeq
  <2>2. Append(<<>>, Interrupted) = <<Interrupted>>
    OBVIOUS
  <2> QED BY <1>1, <1>7, <1>8, <2>1, <2>2
<1>11. StackSound'
  <2>1. vector' \in 0..47 /\ vector' >= 32 /\ source' = vector' /\ enabled' \in BOOLEAN
    <3>1. enabled' \in BOOLEAN
      BY <1>1, Zenon
    <3> QED BY <1>4, <3>1
  <2>2. stack' \in Seq(Nat)
    BY <1>9, <1>10
  <2> QED BY <1>1, <1>10, <2>1, <2>2 DEF StackSound, Waiting, InHandler, Returning, InException, Interrupted
<1> QED BY <1>5, <1>6, <1>11 DEF IInv

\* What is pushed stays below what was there.
LEMMA PushedOnTop ==
    ASSUME NEW s \in Seq(Nat), NEW t \in Seq(Nat)
    PROVE  /\ s \o t \in Seq(Nat)
           /\ Len(s \o t) = Len(s) + Len(t)
           /\ \A k \in 1..Len(t) : (s \o t)[Len(s) + k] = t[k]
           /\ \A k \in 1..Len(s) : (s \o t)[k] = s[k]
<1>1. Len(s) \in Nat /\ Len(t) \in Nat
  BY LenProperties
<1>2. PICK u : u = s \o t
  OBVIOUS
<1>3. /\ u \in Seq(Nat) /\ Len(u) = Len(s) + Len(t)
      /\ \A i \in 1..(Len(s) + Len(t)) : u[i] = IF i <= Len(s) THEN s[i] ELSE t[i - Len(s)]
  BY <1>2, ConcatProperties
<1>4. ASSUME NEW k \in 1..Len(t) PROVE u[Len(s) + k] = t[k]
  <2>1. /\ Len(s) + k \in 1..(Len(s) + Len(t)) /\ ~(Len(s) + k <= Len(s))
        /\ (Len(s) + k) - Len(s) = k
    BY <1>1
  <2> QED BY <1>3, <2>1
<1>5. ASSUME NEW k \in 1..Len(s) PROVE u[k] = s[k]
  BY <1>1, <1>3
<1> QED BY <1>2, <1>3, <1>4, <1>5

\* The same, given how many words there are.
Stacked(u, s, t, m, n) ==
    /\ u \in Seq(Nat) /\ Len(u) = m + n
    /\ \A k \in 1..n : u[m + k] = t[k]
    /\ \A k \in 1..m : u[k] = s[k]

\* It holds of what is pushed.
LEMMA StackedOnTop ==
    ASSUME NEW s \in Seq(Nat), NEW t \in Seq(Nat), NEW m, NEW n, Len(s) = m, Len(t) = n
    PROVE  Stacked(s \o t, s, t, m, n)
BY PushedOnTop, Zenon DEF Stacked

\* The words above those of an interrupt.
LEMMA WordsOfInterrupt ==
    ASSUME vector \in 0..47
    PROVE  /\ Interrupted \in Seq(Nat) /\ Len(Interrupted) = 3
           /\ Numbered \in Seq(Nat) /\ Len(Numbered) = 5
           /\ Handled \in Seq(Nat) /\ Len(Handled) = 8
           /\ Interrupted \o <<0, vector>> = Numbered
           /\ Numbered \o <<Registers, DataSelector, 7>> = Handled
<1> USE DEF Interrupted, Numbered, Handled, CodeSelector, AfterHlt, Registers, DataSelector
<1>1. Interrupted \in Seq(Nat) /\ Len(Interrupted) = 3
  OBVIOUS
<1>2. Numbered \in Seq(Nat) /\ Len(Numbered) = 5
  OBVIOUS
<1>3. Handled \in Seq(Nat) /\ Len(Handled) = 8
  OBVIOUS
<1>4. Interrupted \o <<0, vector>> = Numbered
  <2> PICK s : s = Interrupted
    OBVIOUS
  <2> PICK t : t = <<0, vector>>
    OBVIOUS
  <2> PICK u : u = s \o t
    OBVIOUS
  <2>1. s \in Seq(Nat) /\ Len(s) = 3 /\ t \in Seq(Nat) /\ Len(t) = 2
    OBVIOUS
  <2>2. /\ u \in Seq(Nat) /\ Len(u) = 5
        /\ \A k \in 1..2 : u[3 + k] = t[k]
        /\ \A k \in 1..3 : u[k] = s[k]
    BY <2>1, PushedOnTop
  <2>3. u[1] = 1 /\ u[2] = 8 /\ u[3] = 100 /\ u[4] = 0 /\ u[5] = vector
    <3>1. u[3 + 1] = t[1] /\ u[3 + 2] = t[2]
      BY <2>2
    <3> QED BY <2>2, <3>1
  <2>4. \A i \in 1..Len(u) : u[i] = Numbered[i]
    BY <2>2, <2>3
  <2> HIDE DEF Numbered
  <2>5. u = Numbered
    BY <1>2, <2>2, <2>4, SeqEqual
  <2> QED BY <2>5
<1>5. Numbered \o <<Registers, DataSelector, 7>> = Handled
  <2> PICK s : s = Numbered
    OBVIOUS
  <2> PICK t : t = <<Registers, DataSelector, 7>>
    OBVIOUS
  <2> PICK u : u = s \o t
    OBVIOUS
  <2>1. s \in Seq(Nat) /\ Len(s) = 5 /\ t \in Seq(Nat) /\ Len(t) = 3
    OBVIOUS
  <2>2. /\ u \in Seq(Nat) /\ Len(u) = 8
        /\ \A k \in 1..3 : u[5 + k] = t[k]
        /\ \A k \in 1..5 : u[k] = s[k]
    BY <2>1, PushedOnTop
  <2>3. /\ u[1] = 1 /\ u[2] = 8 /\ u[3] = 100 /\ u[4] = 0 /\ u[5] = vector
        /\ u[6] = 300 /\ u[7] = 16 /\ u[8] = 7
    <3>1. u[5 + 1] = t[1] /\ u[5 + 2] = t[2] /\ u[5 + 3] = t[3]
      BY <2>2
    <3> QED BY <2>2, <3>1
  <2>4. \A i \in 1..Len(u) : u[i] = Handled[i]
    BY <2>2, <2>3
  <2> HIDE DEF Handled
  <2>5. u = Handled
    BY <1>3, <2>2, <2>4, SeqEqual
  <2> QED BY <2>5
<1> QED BY <1>1, <1>2, <1>3, <1>4, <1>5, Zenon

\* An exception comes with nothing in service, and with some words above what is on
\* the stack.
LEMMA ExceptionKeeps == \A v \in Exceptions : IInv /\ Exception(v) => IInv'
<1> SUFFICES ASSUME NEW v \in Exceptions, IInv, Exception(v) PROVE IInv'
  OBVIOUS
<1>1. /\ pc \in {"boot", "handler"} /\ pc' = "stub" /\ gates
      /\ vector' = v /\ source' = v
      /\ UNCHANGED <<master, slave, gdt, segment, gates, handlers, enabled, at>>
  BY DEF Exception, pics, tables
<1>2. v \in 0..31
  BY InterruptsAssumption
<1>3. SetUp'
  BY <1>1, SetUpKept DEF IInv, SetUp
<1>4. ServiceSound'
  BY <1>1 DEF IInv, ServiceSound
<1>5. stack' \in Seq(Nat)
  <2>1. PICK code \in IF v \in WithCode THEN {<<c>> : c \in Codes} ELSE {<<>>} :
           stack' = stack \o Pushed \o code
    BY DEF Exception
  <2>2. code \in Seq(Nat)
    <3>1. CASE v \in WithCode
      BY <2>1, <3>1, InterruptsAssumption
    <3>2. CASE v \notin WithCode
      BY <2>1, <3>2
    <3> QED BY <3>1, <3>2
  <2>3. Pushed \in Seq(Nat)
    BY DEF Pushed, Flags, CodeSelector, AfterHlt, Elsewhere
  <2>4. stack \in Seq(Nat)
    BY DEF IInv, StackSound
  <2>5. stack \o Pushed \in Seq(Nat)
    BY <2>3, <2>4, PushedOnTop
  <2> QED BY <2>1, <2>2, <2>5, PushedOnTop
<1>6. StackSound'
  <2>1. enabled' \in BOOLEAN
    BY <1>1, Zenon DEF IInv, StackSound
  <2>2. vector' \in 0..47 /\ source' = vector' /\ ~(vector' >= 32)
    BY <1>1, <1>2
  <2> QED BY <1>1, <1>5, <2>1, <2>2 DEF StackSound, Waiting, InHandler, Returning, InException
<1> QED BY <1>3, <1>4, <1>6 DEF IInv

\* The stub pushes the number last, whichever stub it is.
LEMMA StubKeeps == IInv /\ Stub => IInv'
<1> SUFFICES ASSUME IInv, Stub PROVE IInv'
  OBVIOUS
<1>1. /\ pc = "stub" /\ enabled' = FALSE
      /\ pc' = IF vector >= 32 THEN "irq_common_stub" ELSE "isr_common_stub"
      /\ UNCHANGED <<master, slave, gdt, segment, gates, handlers, at, vector, source, context>>
  BY DEF Stub, pics, tables
<1>2. vector \in 0..47 /\ stack \in Seq(Nat) /\ source = vector
  BY DEF IInv, StackSound
<1>3. SetUp'
  BY <1>1, SetUpKept DEF IInv, SetUp
<1>4. ServiceSound'
  <2>1. slave.service # {} => vector >= 40
    BY DEF IInv, ServiceSound
  <2>2. master.service # {} => vector >= 32
    BY <1>1 DEF IInv, ServiceSound
  <2> QED BY <1>1, <1>2, <2>1, <2>2 DEF IInv, ServiceSound
<1>5. CASE vector >= 32
  <2>1. stack = Interrupted /\ context = <<Interrupted>>
    BY <1>1, <1>5 DEF IInv, StackSound
  <2>2. stack' = stack \o <<0, vector>>
    <3>1. vector \notin WithCode
      BY <1>5 DEF WithCode
    <3> QED BY <1>5, <3>1 DEF Stub, irq_stub
  <2>3. stack' = Numbered /\ stack' \in Seq(Nat)
    BY <1>2, <2>1, <2>2, WordsOfInterrupt
  <2> QED BY <1>1, <1>2, <1>3, <1>4, <1>5, <2>1, <2>3
      DEF IInv, StackSound, Waiting, InHandler, Returning, InException, Numbered
<1>6. CASE vector < 32
  <2>1. PICK t : t \in {isr_stub_err, isr_stub_no_err} /\ stack' = stack \o t
    <3>1. CASE vector \in WithCode
      BY <1>6, <3>1 DEF Stub
    <3>2. CASE vector \notin WithCode
      BY <1>2, <1>6, <3>2 DEF Stub
    <3> QED BY <3>1, <3>2
  <2>2. t \in Seq(Nat) /\ Len(t) \in 1..2 /\ t[Len(t)] = vector
    <3>1. CASE t = isr_stub_err
      BY <1>2, <3>1 DEF isr_stub_err
    <3>2. CASE t = isr_stub_no_err
      BY <1>2, <3>2 DEF isr_stub_no_err
    <3> QED BY <2>1, <3>1, <3>2
  <2>3. stack' \in Seq(Nat) /\ Len(stack') = Len(stack) + Len(t)
        /\ stack'[Len(stack) + Len(t)] = t[Len(t)]
    <3>1. Len(t) \in 1..Len(t)
      BY <2>2
    <3> QED BY <1>2, <2>1, <2>2, <3>1, PushedOnTop, Zenon
  <2>4. Len(stack') >= 1 /\ stack'[Len(stack')] = vector'
    <3>1. Len(stack) \in Nat /\ Len(t) \in 1..2
      BY <1>2, <2>2, LenProperties
    <3>2. Len(stack') >= 1
      <4>1. PICK m, n : m = Len(stack) /\ n = Len(t)
        OBVIOUS
      <4>2. Len(stack') = m + n /\ m \in Nat /\ n \in 1..2
        BY <2>3, <3>1, <4>1, Zenon
      <4> QED BY <4>2
    <3>3. stack'[Len(stack')] = vector'
      BY <1>1, <2>2, <2>3, Zenon
    <3> QED BY <3>2, <3>3
  <2>5. /\ vector' \in 0..47 /\ source' = vector' /\ ~(vector' >= 32)
        /\ enabled' \in BOOLEAN /\ pc' = "isr_common_stub"
    <3>1. enabled' \in BOOLEAN
      BY <1>1, Zenon
    <3> QED BY <1>1, <1>2, <1>6, <3>1
  <2>6. StackSound'
    BY <2>3, <2>4, <2>5 DEF StackSound, Waiting, InHandler, Returning, InException
  <2> QED BY <1>3, <1>4, <2>6 DEF IInv
<1> QED BY <1>2, <1>5, <1>6

\* The common stub pushes the address that leads back to the number.
LEMMA CommonStubKeeps == IInv /\ CommonStub => IInv'
<1> SUFFICES ASSUME IInv, CommonStub PROVE IInv'
  OBVIOUS
<1>1. /\ pc \in {"irq_common_stub", "isr_common_stub"}
      /\ pc' = IF pc = "irq_common_stub" THEN "irq_handler" ELSE "isr_handler"
      /\ stack' = stack \o Saved
      /\ UNCHANGED <<master, slave, gdt, segment, gates, handlers, enabled, at, vector,
                     source, context>>
  BY DEF CommonStub, pics, tables
<1>2. /\ vector \in 0..47 /\ stack \in Seq(Nat) /\ source = vector
      /\ Len(stack) \in Nat
  BY LenProperties DEF IInv, StackSound
<1>3. enabled' \in BOOLEAN
  BY <1>1, Zenon DEF IInv, StackSound
<1>4. SetUp'
  BY <1>1, SetUpKept DEF IInv, SetUp
<1>5. CASE pc = "irq_common_stub"
  <2>1. stack = Numbered /\ context = <<Interrupted>> /\ vector >= 32
    BY <1>5 DEF IInv, StackSound
  <2>2. Saved = <<Registers, DataSelector, 7>>
    <3>1. Len(stack) = 5
      BY <1>2, <2>1, WordsOfInterrupt
    <3> QED BY <3>1 DEF Saved
  <2>3. stack' = Handled /\ stack' \in Seq(Nat)
    BY <1>1, <1>2, <2>1, <2>2, WordsOfInterrupt
  <2>4. Handled' = Handled
    BY <1>1 DEF Handled
  <2>5. StackSound'
    BY <1>1, <1>2, <1>3, <1>5, <2>1, <2>3, <2>4
       DEF StackSound, Waiting, InHandler, Returning, InException
  <2>6. ServiceSound'
    BY <1>1, <1>5 DEF IInv, ServiceSound
  <2> QED BY <1>4, <2>5, <2>6 DEF IInv
<1>6. CASE pc = "isr_common_stub"
  <2> PICK s, n : s = stack /\ n = Len(s)
    OBVIOUS
  <2>1. s \in Seq(Nat) /\ n \in Nat /\ n >= 1 /\ s[n] = vector
    BY <1>2, <1>6 DEF IInv, StackSound
  <2> PICK t : t = Saved
    OBVIOUS
  <2>2. t \in Seq(Nat) /\ Len(t) = 3 /\ t[3] = n + 2
    BY <2>1 DEF Saved, Registers, DataSelector
  <2> PICK u : u = s \o t
    OBVIOUS
  <2>3. /\ u \in Seq(Nat) /\ Len(u) = n + 3
        /\ \A k \in 1..3 : u[n + k] = t[k]
        /\ \A k \in 1..n : u[k] = s[k]
    <3>1. s \in Seq(Nat) /\ t \in Seq(Nat) /\ Len(s) = n /\ Len(t) = 3
      BY <2>1, <2>2
    <3>2. Stacked(u, s, t, n, 3)
      BY <3>1, StackedOnTop, Zenon
    <3> QED BY <3>2 DEF Stacked
  <2>4. u[n + 3] = n + 2 /\ u[n] = vector
    BY <2>1, <2>2, <2>3
  <2>5. u[Len(u)] = Len(u) - 1 /\ u[Len(u) - 3] = vector /\ Len(u) >= 4
    <3>1. n + 2 = (n + 3) - 1 /\ n = (n + 3) - 3 /\ n + 3 >= 4
      BY <2>1
    <3> QED BY <2>3, <2>4, <3>1
  <2>6. u = stack' /\ pc' = "isr_handler" /\ vector' = vector
    BY <1>1, <1>6
  <2>7. StackSound'
    BY <1>1, <1>2, <1>3, <2>3, <2>5, <2>6
       DEF StackSound, Waiting, InHandler, Returning, InException
  <2>8. ServiceSound'
    BY <1>1, <1>6 DEF IInv, ServiceSound
  <2> QED BY <1>4, <2>7, <2>8 DEF IInv
<1> QED BY <1>1, <1>5, <1>6

----------------------------------------------------------------------------
(* The handlers.                                                           *)

\* What an interrupt's handler finds on the stack.
LEMMA HandlerFinds ==
    ASSUME StackSound, pc \in InHandler
    PROVE  /\ interrupt_number = vector /\ stack[Len(stack) - 1] = DataSelector
           /\ vector \in 32..47
<1>1. vector \in 0..47 /\ vector >= 32 /\ stack = Handled
  BY DEF StackSound
<1>2. Len(stack) = 8
  BY <1>1, WordsOfInterrupt
<1>3. stack[8] = 7 /\ stack[7] = DataSelector /\ stack[5] = vector
  BY <1>1 DEF Handled
<1>4. interrupt_number = vector
  BY <1>2, <1>3 DEF interrupt_number, regs
<1> QED BY <1>1, <1>2, <1>3, <1>4

\* What an exception's handler finds on the stack.
LEMMA ExceptionFinds ==
    ASSUME StackSound, pc \in {"isr_handler", "page_fault"}
    PROVE  interrupt_number = vector
<1> PICK n : n = Len(stack)
  OBVIOUS
<1>1. n \in Nat /\ n >= 4 /\ stack[n] = n - 1 /\ stack[n - 3] = vector
  BY LenProperties DEF StackSound
<1>2. (n - 1) - 2 = n - 3
  BY <1>1
<1> QED BY <1>1, <1>2 DEF interrupt_number, regs

\* irq_handler ends what the slave has in service, if it has anything.
LEMMA EndAtSlaveKeeps == IInv /\ EndAtSlave => IInv'
<1> SUFFICES ASSUME IInv, EndAtSlave PROVE IInv'
  OBVIOUS
<1>1. /\ pc = "irq_handler" /\ pc' = "end of interrupt"
      /\ slave' = IF FromSlave THEN Commanded(slave, 32) ELSE slave
      /\ UNCHANGED <<master, gdt, segment, gates, handlers, enabled, at, vector, source,
                     context, stack>>
  BY DEF EndAtSlave, tables
<1>2. ServiceSound /\ StackSound /\ SetUp /\ slave \in Pics /\ AtMostOne(slave.service)
  BY DEF IInv, ServiceSound
<1>3. interrupt_number = vector /\ vector \in 32..47
  BY <1>1, <1>2, HandlerFinds DEF InHandler
<1>4. /\ slave' \in Pics /\ slave'.next = slave.next /\ slave'.offset = slave.offset
      /\ slave'.service = {}
  <2>1. CASE FromSlave
    BY <1>1, <1>2, <2>1, EndCommand
  <2>2. CASE ~FromSlave
    <3>1. slave.service = {}
      BY <1>2, <1>3, <2>2 DEF ServiceSound, FromSlave
    <3> QED BY <1>1, <1>2, <2>2, <3>1
  <2> QED BY <2>1, <2>2
<1>5. SetUp'
  BY <1>1, <1>2, <1>4, SetUpKept DEF SetUp
<1>6. ServiceSound'
  BY <1>1, <1>2, <1>4 DEF ServiceSound, AtMostOne
<1>7. StackSound'
  BY <1>1, <1>2 DEF StackSound, Waiting, InHandler, Returning, InException, Handled
<1> QED BY <1>5, <1>6, <1>7 DEF IInv

\* irq_handler ends what the master has in service.
LEMMA EndAtMasterKeeps == IInv /\ EndAtMaster => IInv'
<1> SUFFICES ASSUME IInv, EndAtMaster PROVE IInv'
  OBVIOUS
<1>1. /\ pc = "end of interrupt" /\ pc' \in {"handler", "unwind"}
      /\ master' = Commanded(master, 32)
      /\ UNCHANGED <<slave, gdt, segment, gates, handlers, enabled, at, vector, source,
                     context, stack>>
  BY DEF EndAtMaster, MasterEnded, tables
<1>2. ServiceSound /\ StackSound /\ SetUp /\ master \in Pics /\ AtMostOne(master.service)
  BY DEF IInv, ServiceSound
<1>3. /\ master' \in Pics /\ master'.next = master.next /\ master'.offset = master.offset
      /\ master'.request = master.request /\ master'.service = {}
  BY <1>1, <1>2, EndCommand
<1>4. SetUp'
  BY <1>1, <1>2, <1>3, SetUpKept DEF SetUp
<1>5. ServiceSound'
  BY <1>1, <1>2, <1>3 DEF ServiceSound, AtMostOne
<1>6. StackSound'
  BY <1>1, <1>2 DEF StackSound, Waiting, InHandler, Returning, InException, Handled
<1> QED BY <1>4, <1>5, <1>6 DEF IInv

\* The steps that only move on: the registered handler returns, and an exception
\* ends in abort.
LEMMA MovesOn ==
    IInv /\ (HandlerReturns \/ IsrHandler \/ PageFault) => IInv'
<1> SUFFICES ASSUME IInv, HandlerReturns \/ IsrHandler \/ PageFault PROVE IInv'
  OBVIOUS
<1>1. /\ \/ pc = "handler" /\ pc' = "unwind"
         \/ pc = "isr_handler" /\ pc' \in {"page_fault", "halted"}
         \/ pc = "page_fault" /\ pc' = "halted"
      /\ UNCHANGED <<master, slave, gdt, segment, gates, handlers, enabled, at, vector,
                     source, context, stack>>
  BY DEF HandlerReturns, IsrHandler, PageFault, pics, tables
<1>2. SetUp'
  BY <1>1, SetUpKept DEF IInv, SetUp
<1>3. ServiceSound'
  BY <1>1 DEF IInv, ServiceSound
<1>4. StackSound'
  BY <1>1 DEF IInv, StackSound, Waiting, InHandler, Returning, InException, Handled
<1> QED BY <1>2, <1>3, <1>4 DEF IInv

----------------------------------------------------------------------------
(* The way back.                                                           *)

\* The way back drops what the stubs pushed, and reloads the segment that was there.
LEMMA UnwindKeeps == IInv /\ Unwind => IInv'
<1> SUFFICES ASSUME IInv, Unwind PROVE IInv'
  OBVIOUS
<1>1. /\ pc = "unwind" /\ pc' = "sti"
      /\ segment' = stack[Len(stack) - 1] \div 8
      /\ stack' = SubSeq(stack, 1, Len(stack) - 5)
      /\ UNCHANGED <<master, slave, gdt, gates, handlers, enabled, at, vector, source, context>>
  BY DEF Unwind, Dropped, Frame, pics
<1>2. ServiceSound /\ StackSound /\ SetUp /\ at >= 18
  BY <1>1 DEF IInv, SetUp
<1>3. stack = Handled /\ vector \in 0..47 /\ vector >= 32 /\ context = <<Interrupted>>
  BY <1>1, <1>2 DEF StackSound, InHandler
<1>4. stack[Len(stack) - 1] = 16
  BY <1>1, <1>2, HandlerFinds DEF InHandler, DataSelector
<1>5. segment' = segment
  <2>1. 16 \div 8 = 2
    OBVIOUS
  <2> QED BY <1>1, <1>2, <1>4, <2>1, AllSetUp
<1>6. stack' = Interrupted
  <2>1. SubSeq(Handled, 1, 3) = Interrupted
    <3> PICK h : h = Handled
      OBVIOUS
    <3> PICK u : u = SubSeq(h, 1, 3)
      OBVIOUS
    <3>1. h \in Seq(Nat) /\ Len(h) = 8 /\ h[1] = 1 /\ h[2] = CodeSelector /\ h[3] = AfterHlt
      BY <1>3, WordsOfInterrupt DEF Handled
    <3>2. u \in Seq(Nat) /\ Len(u) = 3 /\ \A i \in 1..3 : u[i] = h[i]
      <4>1. ASSUME NEW i \in 1..3 PROVE h[i] \in Nat
        <5>1. i \in 1..Len(h)
          BY <3>1
        <5> QED BY <3>1, <5>1, ElementOfSeq, Zenon
      <4>2. /\ u \in Seq(Nat) /\ Len(u) = IF 1 <= 3 THEN 3 - 1 + 1 ELSE 0
            /\ \A i \in 1..(3 - 1 + 1) : u[i] = h[1 + i - 1]
        BY <4>1, SubSeqProperties
      <4>3. \A i \in 1..3 : 1 + i - 1 = i
        OBVIOUS
      <4> QED BY <4>2, <4>3
    <3>3. \A i \in 1..3 : u[i] = Interrupted[i]
      BY <3>1, <3>2 DEF Interrupted
    <3>4. Interrupted \in Seq(Nat) /\ Len(Interrupted) = 3
      BY <1>3, WordsOfInterrupt
    <3> QED BY <3>2, <3>3, <3>4, SeqEqual
  <2>2. Len(stack) - 5 = 3
    BY <1>3, WordsOfInterrupt
  <2> QED BY <1>1, <1>3, <2>1, <2>2
<1>7. SetUp'
  BY <1>1, <1>2, <1>5, SetUpKept
<1>8. ServiceSound'
  BY <1>1, <1>2 DEF ServiceSound
<1>9. StackSound'
  BY <1>1, <1>2, <1>3, <1>6, WordsOfInterrupt
     DEF StackSound, Waiting, InHandler, Returning, InException
<1> QED BY <1>7, <1>8, <1>9 DEF IInv

\* sti leaves the stack to iret.
LEMMA StiAndIretKeeps == IInv /\ StiAndIret => IInv'
<1> SUFFICES ASSUME IInv, StiAndIret PROVE IInv'
  OBVIOUS
<1>1. /\ pc = "sti" /\ pc' = "iret" /\ enabled' = TRUE
      /\ UNCHANGED <<master, slave, gdt, segment, gates, handlers, at, vector, source,
                     context, stack>>
  BY DEF StiAndIret, pics, tables
<1>2. SetUp'
  BY <1>1, SetUpKept DEF IInv, SetUp
<1>3. ServiceSound'
  BY <1>1 DEF IInv, ServiceSound
<1>4. StackSound'
  BY <1>1 DEF IInv, StackSound, Waiting, InHandler, Returning, InException
<1> QED BY <1>2, <1>3, <1>4 DEF IInv

\* iret finds the place in hlt, and leaves an empty stack.
LEMMA IretKeeps == IInv /\ Iret => IInv'
<1> SUFFICES ASSUME IInv, Iret PROVE IInv'
  OBVIOUS
<1>1. /\ pc = "iret"
      /\ enabled' = (stack[Len(stack) - 2] = 1)
      /\ stack' = SubSeq(stack, 1, Len(stack) - 3)
      /\ context' = SubSeq(context, 1, Len(context) - 1)
      /\ pc' = IF stack[Len(stack)] = AfterHlt THEN "hlt" ELSE "lost"
      /\ UNCHANGED <<master, slave, gdt, segment, gates, handlers, at, vector, source>>
  BY DEF Iret, Dropped, pics, tables
<1>2. ServiceSound /\ StackSound /\ SetUp /\ at >= 18
  BY <1>1 DEF IInv, SetUp
<1>3. stack = Interrupted /\ context = <<Interrupted>>
  BY <1>1, <1>2 DEF StackSound, Returning
<1>4. Len(stack) = 3 /\ stack[3] = AfterHlt
  BY <1>3 DEF Interrupted
<1>5. pc' = "hlt"
  BY <1>1, <1>4
<1>6. stack' = <<>>
  BY <1>1, <1>3 DEF Interrupted
<1>7. context' = <<>>
  BY <1>1, <1>3
<1>8. enabled' \in BOOLEAN
  BY <1>1, Zenon
<1>9. SetUp'
  BY <1>1, <1>2, <1>5, SetUpKept
<1>10. ServiceSound'
  BY <1>1, <1>2, <1>5 DEF ServiceSound
<1>11. StackSound'
  <2>1. vector' \in 0..47 /\ source' = vector'
    BY <1>1, <1>2 DEF StackSound
  <2>2. stack' \in Seq(Nat)
    BY <1>6
  <2> QED BY <2>1, <2>2, <1>5, <1>6, <1>7, <1>8
          DEF StackSound, Waiting, InHandler, Returning, InException
<1> QED BY <1>9, <1>10, <1>11 DEF IInv

----------------------------------------------------------------------------
(* The theorems.                                                           *)

\* Every step of the system preserves the invariant.
LEMMA EveryStepKeeps == IInv /\ [Next]_vars => IInv'
<1> SUFFICES ASSUME IInv, [Next]_vars PROVE IInv'
  OBVIOUS
<1>1. CASE Running
  BY <1>1, BootKeeps, StiKeeps, InterruptKeeps, StubKeeps, CommonStubKeeps, EndAtSlaveKeeps,
     EndAtMasterKeeps, MovesOn, UnwindKeeps, StiAndIretKeeps, IretKeeps DEF Running
<1>5. CASE HandlerReturns
  BY <1>5, MovesOn
<1>2. CASE \E l \in Lines : Wire(l)
  BY <1>2, WireKeeps
<1>3. CASE \E v \in Exceptions : Exception(v)
  BY <1>3, ExceptionKeeps
<1>4. CASE Halted \/ UNCHANGED vars
  <2>1. UNCHANGED <<master, slave, gdt, segment, gates, handlers, enabled, pc, at, vector,
                    source, context, stack>>
    BY <1>4 DEF Halted, vars, pics, tables, cpu
  <2>2. SetUp'
    BY <2>1, SetUpKept DEF IInv, SetUp
  <2>3. ServiceSound'
    BY <2>1 DEF IInv, ServiceSound
  <2>4. StackSound'
    <3>1. enabled' \in BOOLEAN
      BY <2>1, Zenon DEF IInv, StackSound
    <3> QED BY <2>1, <3>1 DEF IInv, StackSound, Numbered, Handled
  <2> QED BY <2>2, <2>3, <2>4 DEF IInv
<1> QED BY <1>1, <1>2, <1>3, <1>4, <1>5 DEF Next

\* What holds between the controllers, the tables and the stack, at each place of
\* the boot sequence, of the way to a handler and of the way back (gdt.c,
\* descriptor.S).
THEOREM InterruptsInvariant == Spec => []IInv
<1>1. Init => IInv
  BY Starts
<1>2. IInv /\ [Next]_vars => IInv'
  BY EveryStepKeeps
<1> QED BY <1>1, <1>2, PTL DEF Spec

\* The controllers, the tables and the processor stay within their types: among
\* them that iret never goes anywhere but to where the kernel waited.
THEOREM TypeCorrect == Spec => []TypeOK
<1>1. IInv => TypeOK
  <2> SUFFICES ASSUME IInv PROVE TypeOK
    OBVIOUS
  <2>1. \A pic \in {master, slave} :
           /\ pic.next \in 1..4 /\ pic.offset \in {8, 32, 40, 112}
           /\ {pic.mask, pic.request, pic.service} \subseteq SUBSET (0..7)
    <3>1. \A pic \in {master, slave} : pic \in Pics
      BY DEF IInv, ServiceSound
    <3> QED BY <3>1 DEF Pics
  <2>2. Len(gdt) <= 5 /\ \A i \in DOMAIN gdt : gdt[i].limit \in 0..MaxPage
    <3>1. gdt \in Seq([limit : 0..MaxPage]) /\ at \in 1..20
          /\ Len(gdt) = IF at <= 5 THEN at - 1 ELSE 5
      BY DEF IInv, SetUp
    <3>2. Len(gdt) <= 5
      BY <3>1
    <3>3. ASSUME NEW i \in DOMAIN gdt PROVE gdt[i] \in [limit : 0..MaxPage]
      <4>1. i \in 1..Len(gdt)
        BY <3>1, LenProperties, Zenon
      <4> QED BY <3>1, <4>1, ElementOfSeq, Zenon
    <3> QED BY <3>2, <3>3
  <2>3. segment \in 0..4 /\ gates \in BOOLEAN /\ handlers \subseteq 0..255
    BY DEF IInv, SetUp
  <2>4. at \in 1..(Len(Program) + 1)
    BY ProgramOps DEF IInv, SetUp
  <2>5. enabled \in BOOLEAN
    BY DEF IInv, StackSound
  <2>6. /\ pc \in {"boot", "hlt", "stub", "irq_common_stub", "isr_common_stub", "irq_handler",
                   "end of interrupt", "handler", "isr_handler", "page_fault", "unwind",
                   "sti", "iret", "halted"}
        /\ {vector, source} \subseteq 0..47
    BY DEF IInv, StackSound, Waiting, InHandler, Returning, InException
  <2>7. \A i \in DOMAIN stack : stack[i] \in Nat
    BY DEF IInv, StackSound
  <2> QED BY <2>1, <2>2, <2>3, <2>4, <2>5, <2>6, <2>7 DEF TypeOK
<1> QED BY <1>1, InterruptsInvariant, PTL

\* irq_handler and isr_handler find the number of the line or of the exception,
\* through an address on the stack that every stub has to get right.
THEOREM NumberIsFound == Spec => []NumberFound
<1>1. IInv => NumberFound
  <2> SUFFICES ASSUME IInv, pc \in Handling PROVE interrupt_number = source
    BY DEF NumberFound
  <2>1. source = vector /\ StackSound
    BY DEF IInv, StackSound
  <2>2. CASE pc \in InHandler
    BY <2>1, <2>2, HandlerFinds
  <2>3. CASE pc \in {"isr_handler", "page_fault"}
    BY <2>1, <2>3, ExceptionFinds
  <2> QED BY <2>2, <2>3 DEF Handling, InHandler
<1> QED BY <1>1, InterruptsInvariant, PTL

\* The kernel goes on where it was, with an empty stack and its data segment,
\* however many interrupts there were.
THEOREM InterruptsReturn == Spec => []ReturnsWhereInterrupted
<1>1. IInv => ReturnsWhereInterrupted
  <2> SUFFICES ASSUME IInv PROVE ReturnsWhereInterrupted
    OBVIOUS
  <2>1. pc = "iret" => stack = context[1]
    BY DEF IInv, StackSound, Returning
  <2>2. pc = "hlt" => stack = <<>>
    BY DEF IInv, StackSound, Waiting
  <2>3. pc \in {"hlt", "iret"} => segment = DataSelector \div 8
    <3>1. pc \in {"hlt", "iret"} => SetUp /\ at >= 18
      BY DEF IInv, SetUp
    <3>2. DataSelector \div 8 = 2
      BY DEF DataSelector
    <3> QED BY <3>1, <3>2, AllSetUp
  <2> QED BY <2>1, <2>2, <2>3 DEF ReturnsWhereInterrupted
<1> QED BY <1>1, InterruptsInvariant, PTL

\* irq_handler ends every service it has to end, at the slave as well when the line
\* is one of the slave's, and spurious interrupts included.
THEOREM ServicesEnd == Spec => []ServiceEnds
<1>1. IInv => ServiceEnds
  BY DEF IInv, ServiceSound, ServiceEnds
<1> QED BY <1>1, InterruptsInvariant, PTL
=============================================================================
