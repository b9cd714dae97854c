-------------------------------- MODULE MCVfs --------------------------------
(***************************************************************************)
(* Small instances of Vfs for TLC.                                         *)
(***************************************************************************)
EXTENDS Vfs

Tty == [uid |-> 1, disk |-> "stub"]
Ramdisk == [uid |-> 3, disk |-> "myfs"]

\* The drivers of the kernel, and a boot module that is no ramdisk.
MCDrivers == {Tty, Ramdisk, [uid |-> 3, disk |-> "blank"], [uid |-> 3, disk |-> "ext2"]}

\* The ramdisk's own, and directories with their slash: the root, the one above
\* and the same one.
MCLocations == {<<"", "dev", "initrd">>, Root, <<"", "dev", "">>, <<"", "dev", "initrd", "">>}

\* "m1" and "dev/m1".
MCFiles == {<<"m1">>, <<"dev", "m1">>}

MCPaths ==
    {<<"", "m1">>, <<"", "dev", "m1">>, <<"", "dev", "dev", "m1">>,
     <<"", "dev", "initrd">>, <<"", "dev", "initrd", "m1">>, <<"", "dev", "initrd", "">>,
     <<"", "ass", "butt">>, Root}

RamdiskOnly == {Ramdisk}
RamdiskLocation == {<<"", "dev", "initrd">>}
=============================================================================
