----------------------------- MODULE Interrupts -----------------------------
(***************************************************************************)
(* Interrupts from the wire to the handler and back: the descriptor tables  *)
(* and the programming of the two interrupt controllers                     *)
(* (kernel/arch/i386/gdt.c), the stubs that save and restore the processor  *)
(* (kernel/arch/i386/descriptor.S), and the handlers registered with them.  *)
(*                                                                         *)
(* The stack is a sequence of words, the top last; one word stands for the  *)
(* eight registers that pusha saves.  The boot sequence is data: a list of  *)
(* operations that one action executes in turn, interrupts being off.       *)
(* Requests on the lines come and go at any time.                           *)
(***************************************************************************)
EXTENDS Integers, Sequences, FiniteSets, FiniteSetsExt

CONSTANTS
    Lines,          \* interrupt lines in use; 8 to 15 come through the slave
    Exceptions,     \* exceptions that may happen
    Codes,          \* error codes the processor may push
    HeapStart,      \* HEAP_START as a page number (0xC0000)
    MaxPage         \* MEMORY_MAX, as far as a descriptor can hold it (0xFFFFF)

ASSUME InterruptsAssumption ==
    /\ Lines \subseteq (0..15) \ {2}
    /\ Exceptions \subseteq 0..31
    /\ Codes \subseteq Nat
    /\ {HeapStart, MaxPage} \subseteq Nat

VARIABLES
    master, slave,  \* the two 8259 controllers
    gdt,            \* index -> descriptor, as far as they are made
    segment,        \* the descriptor behind ds, es, fs, gs and ss
    gates,          \* is the interrupt descriptor table loaded?
    handlers,       \* vectors with an entry in interrupt_handlers
    enabled,        \* the interrupt flag
    pc,             \* what the processor executes
    at,             \* index in Program
    vector,         \* the gate the processor goes through
    source,         \* history: the line (32 and more) or exception behind it
    context,        \* history: the words pushed for each interrupt under way
    stack

pics == <<master, slave>>
tables == <<gdt, segment, gates, handlers>>
cpu == <<enabled, pc, at, vector, source, context, stack>>
vars == <<pics, tables, cpu>>

----------------------------------------------------------------------------
(* The 8259 controllers.  next is what the next write to the data port means: *)
(* 2 to 4 during initialisation, and 1 for the mask.                        *)

\* As firmware leaves them: other vectors, and some lines masked.
FirmwarePic(offset) ==
    [next |-> 1, offset |-> offset, mask |-> {0, 4}, request |-> {}, service |-> {}]

\* A byte written to the command port: 0x11 starts initialisation, 0x20 ends the
\* service of the line of the highest priority.
Commanded(pic, byte) ==
    IF byte = 17 THEN [pic EXCEPT !.next = 2, !.mask = {}, !.request = {}]
    ELSE [pic EXCEPT !.service = IF @ = {} THEN {} ELSE @ \ {Min(@)}]

\* A byte written to the data port.
Given(pic, byte) ==
    CASE pic.next = 2 -> [pic EXCEPT !.next = 3, !.offset = byte]
      [] pic.next = 3 -> [pic EXCEPT !.next = 4]
      [] pic.next = 4 -> [pic EXCEPT !.next = 1]
      [] OTHER -> [pic EXCEPT !.mask = {i \in 0..7 : (byte \div 2^i) % 2 = 1}]

\* outb to one port or the other.
Told(pic, op, byte) == IF op = "command" THEN Commanded(pic, byte) ELSE Given(pic, byte)

\* The inputs of a controller that can interrupt: requested, not masked, and of
\* higher priority than any in service.
Ready(pic) == {i \in pic.request \ pic.mask : \A s \in pic.service : i < s}

\* The slave asks through input 2 of the master.
MasterReady ==
    Ready([master EXCEPT !.request = IF Ready(slave) = {} THEN @ ELSE @ \cup {2}])

\* A device raises its line, or lowers it again before it was served.
Wire(l) ==
    /\ \E S \in {{l % 8}, {}} :
          IF l < 8
          THEN /\ master' = [master EXCEPT !.request = (@ \ {l}) \cup S]
               /\ UNCHANGED slave
          ELSE /\ slave' = [slave EXCEPT !.request = (@ \ {l - 8}) \cup S]
               /\ UNCHANGED master
    /\ pc # "halted"
    /\ UNCHANGED <<tables, cpu>>

\* What the master answers to the processor's acknowledge, and the vector: its first
\* input; or, the only one having been lowered in the meantime, input 7, which is
\* then not in service.  For input 2 the slave answers in the same way.
Serves(pic, i, lowered) ==
    [pic EXCEPT !.request = @ \ {i}, !.service = IF lowered THEN @ ELSE @ \cup {i}]
VectorOf(pic, i, lowered) == pic.offset + IF lowered THEN 7 ELSE i

Acknowledge ==
    LET m == Min(MasterReady)
        s == Min(Ready(slave)) IN
    \/ /\ m # 2
       /\ \E lowered \in {FALSE, MasterReady = {m}} :
             /\ master' = Serves(master, m, lowered)
             /\ vector' = VectorOf(master, m, lowered)
             /\ source' = 32 + IF lowered THEN 7 ELSE m
       /\ UNCHANGED slave
    \/ /\ m = 2
       /\ master' = Serves(master, 2, FALSE)
       /\ \E lowered \in {FALSE, Ready(slave) = {s}} :
             /\ slave' = Serves(slave, s, lowered)
             /\ vector' = VectorOf(slave, s, lowered)
             /\ source' = 40 + IF lowered THEN 7 ELSE s
    \/ /\ m = 2 /\ MasterReady = {2} /\ Cardinality(Ready(slave)) = 1
       /\ slave' = [slave EXCEPT !.request = @ \ {s}]
       /\ vector' = VectorOf(master, 2, TRUE)
       /\ source' = 39
       /\ UNCHANGED master

----------------------------------------------------------------------------
(* The boot sequence.                                                      *)

Op(op, arg, val) == [op |-> op, arg |-> arg, val |-> val]
Command(pic, byte) == Op("command", pic, byte)
Write(pic, byte) == Op("write", pic, byte)

\* The bytes that remap the controllers to vectors 32 to 47 and unmask every line.
\* Mutant: the two offsets are given the wrong way round.
RemapSwapped ==
    <<Command("master", 17), Command("slave", 17),
      Write("master", 40), Write("slave", 32), Write("master", 4), Write("slave", 2),
      Write("master", 1), Write("slave", 1), Write("master", 0), Write("slave", 0)>>

Remap ==
    <<Command("master", 17), Command("slave", 17),
      Write("master", 32), Write("slave", 40), Write("master", 4), Write("slave", 2),
      Write("master", 1), Write("slave", 1), Write("master", 0), Write("slave", 0)>>

\* gdt_initialize: the five descriptors, and gdt_flush.
gdt_initialize ==
    <<Op("descriptor", "none", 0)>> \o [i \in 1..4 |-> Op("descriptor", "none", MaxPage)]
        \o <<Op("gdt_flush", "none", 2)>>

\* kernel_main, as far as interrupts are concerned: pmm_initialize registers the page
\* fault handler and ps2_keyboard_init its own.
Program ==
    gdt_initialize \o Remap \o <<Op("idt_flush", "none", 0)>>
        \o <<Op("register", "none", 14), Op("register", "none", 33)>>

\* gdt_make_entry keeps the low 16 bits of the limit and the top four of flags, so
\* the upper four bits of the limit are lost.
Descriptor(limit) == [limit |-> limit % 65536]

Boot ==
    LET op == Program[at].op
        arg == Program[at].arg
        val == Program[at].val IN
    /\ pc = "boot" /\ at <= Len(Program)
    /\ at' = at + 1
    /\ master' = IF arg = "master" THEN Told(master, op, val) ELSE master
    /\ slave' = IF arg = "slave" THEN Told(slave, op, val) ELSE slave
    /\ gdt' = IF op = "descriptor" THEN Append(gdt, Descriptor(val)) ELSE gdt
    /\ segment' = IF op = "gdt_flush" THEN val ELSE segment
    /\ gates' = (gates \/ op = "idt_flush")
    /\ handlers' = IF op = "register" THEN handlers \cup {val} ELSE handlers
    /\ UNCHANGED <<enabled, pc, vector, source, context, stack>>

\* sti; hlt.  Interrupts are taken only after the instruction that follows sti.
Sti ==
    /\ pc = "boot" /\ at = Len(Program) + 1
    /\ enabled' = TRUE
    /\ pc' = "hlt"
    /\ UNCHANGED <<pics, tables, at, vector, source, context, stack>>

----------------------------------------------------------------------------
(* Entry: the processor pushes, the stub pushes, the common stub pushes.   *)

Flags == IF enabled THEN 1 ELSE 0
CodeSelector == 8
DataSelector == 16
AfterHlt == 100
Elsewhere == 200
Registers == 300

\* The words the processor pushes before it goes to the gate.
Pushed == <<Flags, CodeSelector, IF pc = "hlt" THEN AfterHlt ELSE Elsewhere>>

\* Mutant: an instruction stands between sti and iret.
NoShadow == {}

\* The instruction after sti, before which no interrupt is taken.
Shadow == {"iret"}

\* An interrupt, which wakes the processor from hlt: its gate disables interrupts.
Interrupt ==
    /\ pc \in {"hlt", "iret"} \ Shadow
    /\ enabled
    /\ MasterReady # {}
    /\ Acknowledge
    /\ context' = Append(context, Pushed)
    /\ stack' = stack \o Pushed
    /\ enabled' = FALSE
    /\ pc' = "stub"
    /\ UNCHANGED <<tables, at>>

\* The exceptions for which the processor pushes an error code as well.
WithCode == {8, 17, 21, 29, 30} \cup 10..14

\* An exception in the code of the kernel, or in a handler.  Its gate leaves the
\* interrupt flag, which is off by then.
Exception(v) ==
    /\ pc \in {"boot", "handler"} /\ gates
    /\ \E code \in IF v \in WithCode THEN {<<c>> : c \in Codes} ELSE {<<>>} :
          /\ stack' = stack \o Pushed \o code
          /\ context' = Append(context, Pushed \o code)
    /\ vector' = v /\ source' = v
    /\ pc' = "stub"
    /\ UNCHANGED <<pics, tables, enabled, at>>

\* isr_stub_no_err, isr_stub_err and irq_stub.
isr_stub_no_err == <<vector>>
isr_stub_err == <<0, vector>>

\* Mutant: only the number is pushed.
irq_stub_short == <<vector>>

irq_stub == <<0, vector>>

Stub ==
    /\ pc = "stub"
    /\ stack' = stack \o CASE vector >= 32 -> irq_stub
                           [] vector \in WithCode -> isr_stub_err
                           [] OTHER -> isr_stub_no_err
    /\ enabled' = FALSE
    /\ pc' = IF vector >= 32 THEN "irq_common_stub" ELSE "isr_common_stub"
    /\ UNCHANGED <<pics, tables, at, vector, source, context>>

\* pusha, ds, and the address of the frame.
Saved == <<Registers, DataSelector, Len(stack) + 2>>

CommonStub ==
    /\ pc \in {"irq_common_stub", "isr_common_stub"}
    /\ stack' = stack \o Saved
    /\ pc' = IF pc = "irq_common_stub" THEN "irq_handler" ELSE "isr_handler"
    /\ UNCHANGED <<pics, tables, enabled, at, vector, source, context>>

----------------------------------------------------------------------------
(* The handlers.                                                           *)

\* registers_t, through the address pushed last: ds is the word it points to.
regs == stack[Len(stack)]
interrupt_number == stack[regs - 2]
error_number == stack[regs - 3]

\* Mutant: the slave is told only of the line after its first.
ForgetsFirst == interrupt_number > 40

FromSlave == interrupt_number >= 40

\* irq_handler ends the service at the slave ...
EndAtSlave ==
    /\ pc = "irq_handler"
    /\ slave' = IF FromSlave THEN Commanded(slave, 32) ELSE slave
    /\ pc' = "end of interrupt"
    /\ UNCHANGED <<master, tables, enabled, at, vector, source, context, stack>>

\* Mutant: only interrupts that have a handler are ended.
EndsOnlyHandled == IF interrupt_number \in handlers THEN Commanded(master, 32) ELSE master

MasterEnded == Commanded(master, 32)

\* ... and at the master, and calls the handler if there is one.
EndAtMaster ==
    /\ pc = "end of interrupt"
    /\ master' = MasterEnded
    /\ pc' = IF interrupt_number \in handlers THEN "handler" ELSE "unwind"
    /\ UNCHANGED <<slave, tables, enabled, at, vector, source, context, stack>>

\* The keyboard's handler has shown its character.  Before that it spins in
\* ps2_wait_read, interrupts off, until there is a byte to read: that may be until
\* the next key, since an earlier call may have polled the byte it is called for.
HandlerReturns ==
    /\ pc = "handler"
    /\ pc' = "unwind"
    /\ UNCHANGED <<pics, tables, enabled, at, vector, source, context, stack>>

\* isr_handler: page_fault prints what error_number says and aborts, and any other
\* exception is unhandled, which aborts as well.
IsrHandler ==
    /\ pc = "isr_handler"
    /\ pc' = IF interrupt_number = 14 /\ 14 \in handlers THEN "page_fault" ELSE "halted"
    /\ UNCHANGED <<pics, tables, enabled, at, vector, source, context, stack>>

PageFault ==
    /\ pc = "page_fault"
    /\ pc' = "halted"
    /\ UNCHANGED <<pics, tables, enabled, at, vector, source, context, stack>>

----------------------------------------------------------------------------
(* The way back.                                                           *)

\* Mutant: one word of the frame is left on the stack.
FrameShort == 4

\* The words between what the processor pushed and the end of the stack.
Frame == 5

Dropped(words) == SubSeq(stack, 1, Len(stack) - words)

\* The address and ds, popa, and the number and the zero; ds is loaded with what
\* stood below the address.
Unwind ==
    /\ pc = "unwind"
    /\ segment' = stack[Len(stack) - 1] \div 8
    /\ stack' = Dropped(Frame)
    /\ pc' = "sti"
    /\ UNCHANGED <<pics, gdt, gates, handlers, enabled, at, vector, source, context>>

StiAndIret ==
    /\ pc = "sti"
    /\ enabled' = TRUE
    /\ pc' = "iret"
    /\ UNCHANGED <<pics, tables, at, vector, source, context, stack>>

\* iret pops the place to go on at, the selector and the flags.
Iret ==
    /\ pc = "iret"
    /\ enabled' = (stack[Len(stack) - 2] = 1)
    /\ stack' = Dropped(3)
    /\ context' = SubSeq(context, 1, Len(context) - 1)
    /\ pc' = IF stack[Len(stack)] = AfterHlt THEN "hlt" ELSE "lost"
    /\ UNCHANGED <<pics, tables, at, vector, source>>

Halted == pc = "halted" /\ UNCHANGED vars

----------------------------------------------------------------------------
Init ==
    /\ master = FirmwarePic(8) /\ slave = FirmwarePic(112)
    /\ gdt = <<>> /\ segment = 0 /\ gates = FALSE /\ handlers = {}
    /\ enabled = FALSE
    /\ pc = "boot" /\ at = 1
    /\ vector = 0 /\ source = 0 /\ context = <<>>
    /\ stack = <<>>

Running ==
    \/ Boot \/ Sti \/ Interrupt \/ Stub \/ CommonStub
    \/ EndAtSlave \/ EndAtMaster \/ IsrHandler \/ PageFault
    \/ Unwind \/ StiAndIret \/ Iret

Next ==
    \/ Running
    \/ HandlerReturns
    \/ \E l \in Lines : Wire(l)
    \/ \E v \in Exceptions : Exception(v)
    \/ Halted

\* The processor goes on executing; devices and faults are not to be relied on, nor
\* the person whose next key the keyboard's handler may wait for.
Spec == Init /\ [][Next]_vars /\ WF_vars(Running)

----------------------------------------------------------------------------
(* Properties.                                                             *)

TypeOK ==
    /\ \A pic \in {master, slave} :
          /\ pic.next \in 1..4 /\ pic.offset \in {8, 32, 40, 112}
          /\ {pic.mask, pic.request, pic.service} \subseteq SUBSET (0..7)
    /\ Len(gdt) <= 5 /\ \A i \in DOMAIN gdt : gdt[i].limit \in 0..MaxPage
    /\ segment \in 0..4 /\ gates \in BOOLEAN /\ enabled \in BOOLEAN
    /\ handlers \subseteq 0..255
    /\ pc \in {"boot", "hlt", "stub", "irq_common_stub", "isr_common_stub", "irq_handler",
               "end of interrupt", "handler", "isr_handler", "page_fault", "unwind", "sti",
               "iret", "halted"}
    /\ at \in 1..(Len(Program) + 1)
    /\ {vector, source} \subseteq 0..47
    /\ \A i \in DOMAIN stack : stack[i] \in Nat

Handling == {"irq_handler", "end of interrupt", "handler", "isr_handler", "page_fault"}

\* Whatever the stub and whichever the controller, the number the handler finds is
\* that of the exception or 32 and the line, so a device gets its own handler.
NumberFound == pc \in Handling => interrupt_number = source

\* iret finds on the stack what the processor pushed for the one interrupt under
\* way and nothing else, so the kernel goes on where it was, with the flags and the
\* data segment it had, and interrupts do not pile up although sti comes first.
ReturnsWhereInterrupted ==
    /\ pc = "iret" => stack = context[1]
    /\ pc = "hlt" => stack = <<>>
    /\ pc \in {"hlt", "iret"} => segment = DataSelector \div 8

\* No line stays in service once its handler has run, in either controller, spurious
\* interrupts included: nothing is in service while the kernel waits.
ServiceEnds == pc \in {"hlt", "handler"} => master.service = {} /\ slave.service = {}

Requested ==
    master.request \cup {i + 8 : i \in slave.request}

\* A line that goes on asking is served unless others are for ever asking as well,
\* even if it began to ask while the controllers were being set up; all that can
\* keep it waiting is a keyboard handler that never finds the byte it waits for.
LoneRequestServed ==
    \A l \in Lines :
        <>[](pc # "halted" /\ Requested = {l}) => <>[](pc = "handler")

\* page_fault is given the error code the processor pushed.
FaultCodeSeen ==
    pc = "page_fault" => error_number = context[Len(context)][4]

\* The heap lies within the data segment.
HeapInSegment ==
    segment # 0 => HeapStart <= gdt[segment + 1].limit

=============================================================================
