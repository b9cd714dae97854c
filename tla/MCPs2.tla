------------------------------- MODULE MCPs2 -------------------------------
(***************************************************************************)
(* Small instances of Ps2 for TLC.                                         *)
(***************************************************************************)
EXTENDS Ps2

\* What firmware leaves: translation on, interrupts on or off, clocks on.
FirmwareConfigs == {{Irq1, Translate}, {Irq1, Irq2, Translate}, {Clock2Off, Translate}}

\* Two shifts and the right alt, used at any moment, with a controller that may be
\* slow; and keys with plain, short and long codes, used only after a prompt start.
ShiftsAtAnyTime ==
    [keys |-> {"lshift", "rshift", "ralt"}, early |-> TRUE, prompt |-> FALSE, txMax |-> 3]
LongCodesLater ==
    [keys |-> {"a", "lshift", "prtsc"}, early |-> FALSE, prompt |-> TRUE, txMax |-> 6]
TwoEnvironments == {ShiftsAtAnyTime, LongCodesLater}

\* A keyboard, and a mouse in its socket.
KeyboardOrMouse == {<<171, 131>>, <<0>>}
=============================================================================
