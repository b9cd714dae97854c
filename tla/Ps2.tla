-------------------------------- MODULE Ps2 --------------------------------
(***************************************************************************)
(* The PS/2 driver (kernel/ps2_keyboard.c) against the hardware it drives: *)
(* the controller with its one-byte output buffer and configuration byte,  *)
(* the device on port 1, the interrupt latch of the PIC and the person at  *)
(* the keyboard.                                                           *)
(*                                                                         *)
(* ps2_keyboard_init is straight-line code over two ports, so it is a      *)
(* sequence of port operations (Program) and one action executes the next. *)
(* It runs with interrupts off.  After sti the processor sits in hlt and   *)
(* the handler of interrupt 33 runs, one action per byte it waits for.     *)
(*                                                                         *)
(* The configuration byte is the set of its bits that are one.  Scan codes *)
(* are those of set 2.  The handler meets them untranslated if firmware    *)
(* left translation on, which is assumed; where it left it off the driver  *)
(* turns it on.                                                            *)
(***************************************************************************)
EXTENDS Integers, Sequences

CONSTANTS
    Environments,   \* how the person and the controller may behave, see env
    BootConfigs,    \* configuration bytes the firmware may leave behind
    Identities      \* what the device on port 1 may answer to "identify"

ASSUME Ps2Assumption ==
    \A e \in Environments : {e.early, e.prompt} \subseteq BOOLEAN /\ e.txMax \in Nat

VARIABLES
    env,            \* the environment, which stays as it is: keys, the keys the person
                    \* uses; early, may they be used before sti?; prompt, does the
                    \* controller refill its buffer before the driver's next access?;
                    \* txMax, a bound on the bytes waiting in the device
    config,         \* controller: configuration byte
    writing,        \* controller: the next data byte is the configuration
    out,            \* controller: output buffer, at most one byte
    data,           \* controller: what port 0x60 reads as (the last byte)
    tx,             \* device: bytes it has yet to send
    scanning,       \* device: sends scan codes
    held,           \* person: keys that are down
    identity,       \* device: its answer to "identify"
    irr,            \* PIC: interrupt 33 is latched
    pc,             \* "init", "hlt", "halted", or what the handler waits for
    at,             \* driver: index in Program
    local,          \* driver: the configuration byte it works on
    first,          \* driver: ps2_identify's first
    ports,          \* driver: has_port_1, has_port_2, as a set
    shift, alt, control

controller == <<config, writing, out, data>>
device == <<env, tx, scanning, identity>>
driver == <<at, local, first, ports>>
modifiers == <<shift, alt, control>>
vars == <<controller, device, held, irr, pc, driver, modifiers>>

----------------------------------------------------------------------------
(* Bytes.                                                                  *)

Irq1 == 0
Irq2 == 1
Clock1Off == 4
Clock2Off == 5
Translate == 6
Bits == {Irq1, Irq2, Clock1Off, Clock2Off, Translate}

ASSUME FirmwareTranslates ==
    \A c \in BootConfigs : c \subseteq Bits /\ Translate \in c

ALT == 17
CONTROL == 20
LEFT_SHIFT == 18
RIGHT_SHIFT == 89
MULTIMEDIA == 224
KEY_RELEASED == 240
ACK == 250
PASSED == 85
PORT_OK == 0
PORT_BAD == 1
CONFIG == 256       \* stands for the configuration byte as an answer

\* The bytes the handler looks for.
Handled == {ALT, CONTROL, LEFT_SHIFT, RIGHT_SHIFT, MULTIMEDIA, KEY_RELEASED}

\* A device answers with one byte at least, and none that follows is one of those:
\* the second byte of a keyboard is 0x41 or 0x83.
ASSUME IdentityAssumption ==
    \A answer \in Identities :
        /\ answer \in Seq(0..255) /\ answer # <<>>
        /\ \A i \in 2..Len(answer) : answer[i] \notin Handled

\* What each key sends when pressed, as the units the handler reads in one go
\* from its prefix; and when released.
Code == [
    a      |-> <<28>>,
    lshift |-> <<LEFT_SHIFT>>,
    rshift |-> <<RIGHT_SHIFT>>,
    lctrl  |-> <<CONTROL>>,
    rctrl  |-> <<MULTIMEDIA, CONTROL>>,
    ralt   |-> <<MULTIMEDIA, ALT>>,
    prtsc  |-> <<MULTIMEDIA, LEFT_SHIFT, MULTIMEDIA, 124>>]

ASSUME KeysHaveCodes == \A e \in Environments : e.keys \subseteq DOMAIN Code

Release(k) ==
    CASE k = "prtsc" -> <<MULTIMEDIA, KEY_RELEASED, 124,
                         MULTIMEDIA, KEY_RELEASED, LEFT_SHIFT>>
      [] Len(Code[k]) = 2 -> <<MULTIMEDIA, KEY_RELEASED, Code[k][2]>>
      [] OTHER -> <<KEY_RELEASED, Code[k][1]>>

----------------------------------------------------------------------------
(* The controller and the device.                                          *)

Full == out # <<>>

\* A byte enters the output buffer, which raises the interrupt line.
Fill(byte) ==
    /\ out' = <<byte>>
    /\ data' = byte
    /\ irr' = (irr \/ Irq1 \in config)

CanDeliver == ~Full /\ tx # <<>> /\ Clock1Off \notin config

\* The controller takes the next byte from the device.
Deliver ==
    /\ CanDeliver
    /\ Fill(Head(tx))
    /\ tx' = Tail(tx)
    /\ UNCHANGED <<env, config, writing, scanning, identity, held, pc, driver, modifiers>>

\* The driver's next access to a port finds the buffer already refilled.
Settled == env.prompt => ~CanDeliver

\* The person presses or releases a key; the device sends nothing unless it scans.
Key(k) ==
    LET codes == IF k \in held THEN Release(k) ELSE Code[k] IN
    /\ pc = "init" => env.early
    /\ Len(tx) + Len(codes) <= env.txMax
    /\ held' = IF k \in held THEN held \ {k} ELSE held \cup {k}
    /\ tx' = IF scanning THEN tx \o codes ELSE tx
    /\ UNCHANGED <<env, controller, scanning, identity, irr, pc, driver, modifiers>>

\* outb(PS2_COMMAND_REGISTER, ...).
Command(command) ==
    /\ config' = CASE command = "disable_keyboard" -> config \cup {Clock1Off}
                   [] command = "disable_mouse" -> config \cup {Clock2Off}
                   [] command = "enable_keyboard" -> config \ {Clock1Off}
                   [] OTHER -> config
    /\ writing' = (command = "write_config")
    /\ CASE command = "read_config" -> Fill(CONFIG)
         [] command = "self_test" -> Fill(PASSED)
         [] command \in {"test_1", "test_2"} -> \E r \in {PORT_OK, PORT_BAD} : Fill(r)
         [] OTHER -> UNCHANGED <<out, data, irr>>
    /\ UNCHANGED device

\* outb(PS2_DATA_PORT, ...): the configuration byte, or a command to the device,
\* which turns its clock on again.  "disable scanning" drops what it has to send.
Data(byte) ==
    /\ writing' = FALSE
    /\ IF writing
       THEN config' = local /\ UNCHANGED <<tx, scanning>>
       ELSE /\ config' = config \ {Clock1Off}
            /\ CASE byte = "disable_scanning" -> tx' = <<ACK>> /\ scanning' = FALSE
                 [] byte = "identify" -> tx' = tx \o <<ACK>> \o identity /\ UNCHANGED scanning
                 [] byte = "enable_scanning" -> tx' = tx \o <<ACK>> /\ scanning' = TRUE
    /\ UNCHANGED <<env, out, data, irr, identity>>

----------------------------------------------------------------------------
(* ps2_keyboard_init, as a sequence of port operations.                    *)

Op(op, arg) == [op |-> op, arg |-> arg]

\* ps2_wait_write(); outb(...).
SendCommand(command) == <<Op("wait_write", "none"), Op("command", command)>>
SendData(byte) == <<Op("wait_write", "none"), Op("data", byte)>>

\* ps2_wait_read(); inb(PS2_DATA_PORT).
WaitAndRead(into) == <<Op("wait_read", "none"), Op("read", into)>>

ps2_disable == SendCommand("disable_keyboard") \o SendCommand("disable_mouse")

ps2_flush_output_buffer == <<Op("flush", "none")>>

ps2_read_config == SendCommand("read_config") \o WaitAndRead("config")

\* The change of the configuration byte, then the byte itself with no wait.
WriteConfig(change) ==
    <<Op("change", change)>> \o SendCommand("write_config") \o <<Op("data", "config")>>

ps2_disable_interrupts == ps2_read_config \o WriteConfig("toggle")

ps2_self_test == SendCommand("self_test") \o WaitAndRead("self_test")

ps2_check_port(test, port) ==
    SendCommand(test) \o WaitAndRead("test")
        \o ps2_read_config \o <<Op("port", port)>>

\* Mutant: the keyboard's interrupt is left off.
EnablesClockOnly == ps2_read_config \o SendCommand("enable_keyboard")

ps2_enable ==
    ps2_read_config \o SendCommand("enable_keyboard") \o WriteConfig("enable")

\* Pulse no line of the controller.
ps2_reset == SendCommand("pulse")

\* Mutant: scan codes are left on while the device is asked who it is.
IdentifiesWhileScanning ==
    SendData("identify") \o WaitAndRead("ack")
        \o WaitAndRead("first") \o <<Op("read", "second")>>
        \o SendData("enable_scanning")

\* Mutant: the second byte of the answer is left in the buffer.
LeavesSecond ==
    SendData("disable_scanning") \o WaitAndRead("ack")
        \o SendData("identify") \o WaitAndRead("ack")
        \o WaitAndRead("first") \o SendData("enable_scanning")

ps2_identify ==
    SendData("disable_scanning") \o WaitAndRead("ack")
        \o SendData("identify") \o WaitAndRead("ack")
        \o WaitAndRead("first") \o <<Op("read", "second")>>
        \o SendData("enable_scanning")

\* Mutant: a keyboard that was found is not asked who it is.
WithoutIdentify ==
    ps2_disable \o ps2_flush_output_buffer \o ps2_disable_interrupts \o ps2_self_test
        \o ps2_check_port("test_1", 1) \o ps2_check_port("test_2", 2)
        \o ps2_enable \o ps2_reset \o <<Op("if_port_1", "none")>>

Program ==
    ps2_disable \o ps2_flush_output_buffer \o ps2_disable_interrupts \o ps2_self_test
        \o ps2_check_port("test_1", 1) \o ps2_check_port("test_2", 2)
        \o ps2_enable \o ps2_reset \o <<Op("if_port_1", "none")>> \o ps2_identify

----------------------------------------------------------------------------
(* Executing it: one action per port operation.                            *)

Running(op) == pc = "init" /\ at <= Len(Program) /\ Program[at].op = op /\ Settled
Arg == Program[at].arg
Advance(n) == at' = at + n
Panic == pc' = "halted"

\* One test of the status register in ps2_wait_write; while the output buffer
\* is full the loop goes round, and nothing of the state changes.
WaitWrite ==
    /\ Running("wait_write") /\ ~Full
    /\ Advance(1)
    /\ UNCHANGED <<controller, device, held, irr, pc, local, first, ports, modifiers>>

\* ... and in ps2_wait_read.
WaitRead ==
    /\ Running("wait_read") /\ Full
    /\ Advance(1)
    /\ UNCHANGED <<controller, device, held, irr, pc, local, first, ports, modifiers>>

OutCommand ==
    /\ Running("command")
    /\ Command(Arg)
    /\ Advance(1)
    /\ UNCHANGED <<held, pc, local, first, ports, modifiers>>

OutData ==
    /\ Running("data")
    /\ Data(Arg)
    /\ Advance(1)
    /\ UNCHANGED <<held, pc, local, first, ports, modifiers>>

\* One round of ps2_flush_output_buffer.
Flush ==
    /\ Running("flush")
    /\ out' = <<>>
    /\ Advance(IF Full THEN 0 ELSE 1)
    /\ UNCHANGED <<config, writing, data, device, held, irr, pc, local, first, ports, modifiers>>

Skipped == Len(ps2_read_config) + 2

Keyboard == 171
Mouse == {0, 3, 4}

\* inb(PS2_DATA_PORT) and what the driver makes of the byte.
Read ==
    /\ Running("read")
    /\ out' = <<>>
    /\ local' \in IF Arg # "config" THEN {local}
                  ELSE IF data = CONFIG THEN {config} ELSE SUBSET Bits
    /\ first' = IF Arg = "first" THEN data ELSE first
    /\ CASE Arg = "self_test" /\ data # PASSED -> Panic /\ Advance(0)
         [] Arg = "ack" /\ data # ACK -> Panic /\ Advance(0)
         [] Arg = "second" /\ first \notin Mouse \cup {Keyboard} -> Panic /\ Advance(0)
         [] Arg = "test" /\ data # PORT_OK -> Advance(Skipped) /\ UNCHANGED pc
         [] OTHER -> Advance(1) /\ UNCHANGED pc
    /\ UNCHANGED <<config, writing, data, device, held, irr, ports, modifiers>>

\* Mutant: a reserved bit is switched as well.
TogglesReserved ==
    LET mask == {Irq1, Irq2, Translate, 7} IN (local \ mask) \cup (mask \ local)

\* command_byte ^= 0b01000011
Toggled ==
    LET mask == {Irq1, Irq2, Translate} IN (local \ mask) \cup (mask \ local)

Change ==
    /\ Running("change")
    /\ local' = IF Arg = "toggle" THEN Toggled ELSE local \cup {Irq1}
    /\ Advance(1)
    /\ UNCHANGED <<controller, device, held, irr, pc, first, ports, modifiers>>

\* ps2_check_port returns whether the port's clock is off.
Port ==
    /\ Running("port")
    /\ ports' = IF (IF Arg = 1 THEN Clock1Off ELSE Clock2Off) \in local
                THEN ports \cup {Arg} ELSE ports
    /\ Advance(1)
    /\ UNCHANGED <<controller, device, held, irr, pc, local, first, modifiers>>

\* "Failed to discover PS/2 keyboard.": the device is not asked.
IfPort1 ==
    /\ Running("if_port_1")
    /\ at' = IF 1 \in ports THEN at + 1 ELSE Len(Program) + 1
    /\ UNCHANGED <<controller, device, held, irr, pc, local, first, ports, modifiers>>

\* The handler is registered and kernel_main goes on to sti and hlt.
Sti ==
    /\ pc = "init" /\ at = Len(Program) + 1
    /\ pc' = "hlt"
    /\ UNCHANGED <<controller, device, held, irr, driver, modifiers>>

InitStep ==
    \/ WaitWrite \/ WaitRead \/ OutCommand \/ OutData \/ Flush \/ Read
    \/ Change \/ Port \/ IfPort1 \/ Sti

----------------------------------------------------------------------------
(* ps2_keyboard_interrupt_handler.                                         *)

\* The gate turns interrupts off, and irq_handler sends the end of interrupt.
Interrupt ==
    /\ pc = "hlt" /\ irr
    /\ irr' = FALSE
    /\ pc' = "code"
    /\ UNCHANGED <<controller, device, held, driver, modifiers>>

\* ps2_wait_read() is over and the byte is read.
Reads(where) ==
    /\ pc = where /\ Full
    /\ out' = <<>>
    /\ UNCHANGED <<config, writing, data, device, held, driver>>

\* Show the character and return.
Echo == pc' = "return" /\ UNCHANGED irr

Await(what) == pc' = what /\ UNCHANGED irr

\* The first byte of an interrupt.
Pressed ==
    /\ Reads("code")
    /\ alt' = (alt \/ data = ALT)
    /\ control' = (control \/ data = CONTROL)
    /\ shift' = (shift \/ data \in {LEFT_SHIFT, RIGHT_SHIFT})
    /\ CASE data = MULTIMEDIA -> Await("multimedia")
         [] data = KEY_RELEASED -> Await("released")
         [] OTHER -> Echo

\* The byte after MULTIMEDIA, of a key pressed (it may be KEY_RELEASED in turn) or
\* of one released.
AfterMultimedia ==
    /\ pc \in {"multimedia", "released multimedia"}
    /\ Reads(pc)
    /\ IF pc = "multimedia"
       THEN alt' = (alt \/ data = ALT) /\ control' = (control \/ data = CONTROL)
       ELSE alt' = (alt /\ data # ALT) /\ control' = (control /\ data # CONTROL)
    /\ UNCHANGED shift
    /\ IF pc = "multimedia" /\ data = KEY_RELEASED THEN Await("released") ELSE Echo

\* Mutant: a right shift that is released is taken for a letter.
ForgetsRightShift == {LEFT_SHIFT}

ShiftReleases == {LEFT_SHIFT, RIGHT_SHIFT}

\* The byte after KEY_RELEASED: nothing is printed.
Released ==
    /\ Reads("released")
    /\ alt' = (alt /\ data # ALT)
    /\ control' = (control /\ data # CONTROL)
    /\ shift' = (shift /\ data \notin ShiftReleases)
    /\ Await(IF data = MULTIMEDIA THEN "released multimedia" ELSE "return")

\* iret, which turns interrupts on.  Only the delivery of an interrupt clears its
\* latch, so what has come while the handler ran is still there.
Return ==
    /\ pc = "return"
    /\ pc' = "hlt"
    /\ UNCHANGED <<controller, device, held, irr, driver, modifiers>>

HandlerStep ==
    Interrupt \/ Pressed \/ AfterMultimedia \/ Released \/ Return

----------------------------------------------------------------------------
Init ==
    /\ env \in Environments
    /\ config \in BootConfigs
    /\ writing = FALSE /\ out = <<>> /\ data = 0
    /\ tx = <<>> /\ scanning = TRUE
    /\ held = {} /\ identity \in Identities
    /\ irr = FALSE
    /\ pc = "init" /\ at = 1
    /\ local = {} /\ first = 0 /\ ports = {}
    /\ shift = FALSE /\ alt = FALSE /\ control = FALSE

Next == InitStep \/ HandlerStep \/ Deliver \/ \E k \in env.keys : Key(k)

\* The processor executes, and the controller delivers what it is sent.
Spec ==
    Init /\ [][Next]_vars
        /\ WF_vars(InitStep) /\ WF_vars(HandlerStep) /\ WF_vars(Deliver)

----------------------------------------------------------------------------
(* Properties.                                                             *)

TypeOK ==
    /\ {config, local} \subseteq SUBSET Bits
    /\ writing \in BOOLEAN /\ scanning \in BOOLEAN /\ irr \in BOOLEAN
    /\ Len(out) <= 1 /\ \A i \in DOMAIN out : out[i] \in 0..256
    /\ \A i \in DOMAIN tx : tx[i] \in 0..255
    /\ data \in 0..256 /\ first \in 0..256
    /\ env \in Environments /\ held \subseteq env.keys
    /\ pc \in {"init", "hlt", "code", "multimedia", "released", "released multimedia",
               "return", "halted"}
    /\ at \in 1..(Len(Program) + 1)
    /\ ports \subseteq {1, 2}
    /\ {shift, alt, control} \subseteq BOOLEAN

Answers == [config |-> {CONFIG}, self_test |-> {PASSED}, test |-> {PORT_OK, PORT_BAD},
            ack |-> {ACK}, first |-> {Head(identity)}]

\* A byte the driver has waited for is the answer to what it asked, never a scan
\* code that came first: the assertion in ps2_poll_ack holds, and so does every
\* other reading, whatever is typed while it runs.
AnswersExpected ==
    pc = "init" /\ at <= Len(Program) /\ Program[at].op = "read"
        /\ Arg \in DOMAIN Answers
        => Full /\ out[1] \in Answers[Arg]

\* While the processor sleeps a byte in the output buffer has its interrupt
\* latched, although the handler reads bytes whose interrupt it never took.
NoLostInterrupt == pc = "hlt" /\ Full => irr

Caught == tx = <<>> /\ ~Full /\ pc \in {"hlt", "code", "return"}
SomeHeld(keys) == held \cap keys # {}

\* Once every byte is handled no modifier is stuck: one that is on has a key held,
\* even if keys were pressed or released while the driver was starting.
NoStuckModifier ==
    Caught => /\ shift => SomeHeld({"lshift", "rshift"})
              /\ control => SomeHeld({"lctrl", "rctrl"})
              /\ alt => SomeHeld({"ralt"})

\* No key is used before sti, and the controller is quick.
Undisturbed == env.prompt /\ ~env.early

\* If no key is used meanwhile and the controller is prompt, ps2_keyboard_init
\* comes to its end: no wait for the output buffer lasts for ever.
InitCompletes == Undisturbed /\ pc = "init" ~> pc \in {"hlt", "halted"}

Listening == pc \notin {"init", "halted"}
Found == Listening /\ 1 \in ports

\* Once the driver has started, whatever was typed meanwhile and however slow the
\* controller: what a keyboard that was found has to send goes on entering the
\* output buffer, although ps2_enable wrote the configuration byte back with the
\* clock still off; a byte in the buffer is read; and a handler that has read a
\* prefix gets the rest of the code and returns.  (A port that failed its test
\* keeps its clock off, and its keyboard is not heard.)
BytesRead ==
    /\ Found /\ tx # <<>> ~> Full
    /\ Listening /\ Full ~> ~Full
    /\ pc \in {"multimedia", "released", "released multimedia"} ~> pc = "hlt"

=============================================================================
