-------------------------------- MODULE Vfs --------------------------------
(***************************************************************************)
(* The device table (kernel/kernel/device.c), the mount table and the      *)
(* opening and closing of files (kernel/fs/vfs.c), with the drivers that   *)
(* register devices: tty_init and initrd_init.                             *)
(*                                                                         *)
(* A path is a C string; here it is the sequence of what stands between    *)
(* its slashes, so "/dev/tty" is <<"", "dev", "tty">>, "/dev/" is          *)
(* <<"", "dev", "">> and "/" is <<"", "">>.  Two paths are equal exactly   *)
(* when strcmp says so.  What initrd_open does with a name is in Initrd.   *)
(***************************************************************************)
EXTENDS Integers, Sequences, SequencesExt

CONSTANTS
    Drivers,        \* device_t's the drivers register: [uid, disk]
    Locations,      \* where devices are mounted
    Paths,          \* what files are opened as
    Files,          \* names of the files on the ramdisk
    DeviceCount,    \* INITIAL_DEVICE_COUNT (16), which nobody checks
    MountCount,     \* MAX_MOUNT_POINTS (16), which nobody checks
    OpenMax         \* bound: files open at a time

\* The uid 0 is the keyboard's, whose registration is commented out.  What
\* dev->read does in ext2_probe: the tty's panics, a ramdisk's copies.
ASSUME DriverAssumption ==
    \A d \in Drivers : d.uid \in Nat \ {0} /\ d.disk \in {"stub", "ext2", "myfs", "blank"}

\* Devices are mounted at absolute paths; a string without a slash is a path of one
\* name.
ASSUME PathAssumption ==
    /\ \A loc \in Locations : loc \in Seq(STRING) /\ Len(loc) >= 2
    /\ \A p \in Paths : p \in Seq(STRING) /\ p # <<>>

\* What stands before the first slash, between two, and after the last one.
NoName == ""

\* The writer of a ramdisk opens each file by its name, so none is without one.
ASSUME FileAssumption == <<NoName>> \notin Files

ASSUME DeviceAssumption == DeviceCount \in Nat

VARIABLES
    devices,        \* devices[0..num_devices - 1], as a sequence
    mounts,         \* mount_points, as a sequence
    files,          \* file_t's opened and not closed, as a sequence
    call,           \* the vfs_open in progress
    mode            \* "running" or "halted"

vars == <<devices, mounts, files, call, mode>>

None == 0
Idle == [op |-> "idle", path |-> <<>>, filename |-> <<>>, mount |-> None]

----------------------------------------------------------------------------
(* Paths.                                                                  *)

Root == <<NoName, NoName>>

\* Mutant: the slash that ends the string is found again.
FindsLastSlash(p) ==
    IF Last(p) = NoName THEN p ELSE Front(p) \o <<NoName>>

\* remove_until(str, '/'): cut behind the last slash before the last character.
RemoveUntil(p) ==
    LET kept == IF Last(p) = NoName THEN Len(p) - 2 ELSE Len(p) - 1 IN
    IF kept > 0 THEN SubSeq(p, 1, kept) \o <<NoName>> ELSE p

\* Mutant: the name begins at the directory the mount point ends with.
KeepsDirectory(p, filename) ==
    IF filename = p THEN <<NoName>> ELSE SubSeq(p, Len(filename) - 1, Len(p))

\* name + 1 + adjuster: what follows the first strlen(filename) characters.
Rest(p, filename) ==
    IF filename = p THEN <<NoName>> ELSE SubSeq(p, Len(filename), Len(p))

----------------------------------------------------------------------------
(* Devices and mount points.                                               *)

Init ==
    /\ devices = <<>>
    /\ mounts = <<>> /\ files = <<>>
    /\ call = Idle
    /\ mode = "running"

\* device_register: the device is copied to the end of the table.
device_register(d) == Append(devices, d)

\* device_get_by_uid: the first slot with the uid.
OfUid(table, uid) == SelectInSeq(table, LAMBDA d : d.uid = uid)

\* vfs_is_mounted
MountedAt(loc) == \E i \in DOMAIN mounts : mounts[i].location = loc

\* ext2_probe reads the device, and the tty's read panics.  On an ext2 disk it
\* falls off its end: what it returns is undefined, and anything but 0 aborts.
ext2_probe_stops(disk) ==
    CASE disk = "stub" -> {TRUE}
      [] disk = "ext2" -> BOOLEAN
      [] OTHER -> {FALSE}

\* initrd_probe: the magic of the ramdisk.
initrd_probe(disk) == disk = "myfs"

\* Mutant: the mount point holds the uid of the device, not its place.
MountsUid(table, i, loc) == [location |-> loc, device |-> table[i].uid]

MountPoint(table, i, loc) == [location |-> loc, device |-> i]

\* vfs_mount of the device in slot i of the table: a location in use is refused,
\* then the file systems are probed in turn.
Mount(table, i, loc) ==
    \E stops \in ext2_probe_stops(table[i].disk) :
        /\ mode' = IF ~MountedAt(loc) /\ stops THEN "halted" ELSE mode
        /\ mounts' = IF ~MountedAt(loc) /\ ~stops /\ initrd_probe(table[i].disk)
                     THEN Append(mounts, MountPoint(table, i, loc)) ELSE mounts

Ready == mode = "running" /\ call = Idle

\* tty_init and initrd_init, each called once: the device is copied into the table
\* and looked up again by its uid, and what is found is mounted.
InitDriver(d, loc) ==
    LET table == device_register(d) IN
    /\ Ready
    /\ OfUid(devices, d.uid) = None
    /\ Len(devices) < DeviceCount /\ Len(mounts) < MountCount
    /\ devices' = table
    /\ Mount(table, OfUid(table, d.uid), loc)
    /\ UNCHANGED <<files, call>>

\* vfs_mount of a device registered before.
vfs_mount(i, loc) ==
    /\ Ready
    /\ Len(mounts) < MountCount
    /\ Mount(devices, i, loc)
    /\ UNCHANGED <<devices, files, call>>

----------------------------------------------------------------------------
(* Files.                                                                  *)

\* vfs_open begins to look for the mount point.
vfs_open(path) ==
    /\ Ready /\ Len(files) < OpenMax
    /\ call' = [Idle EXCEPT !.op = "vfs_open", !.path = path, !.filename = path]
    /\ UNCHANGED <<devices, mounts, files, mode>>

\* Mutant: a location that the path begins with is enough.
AnyPrefix == {i \in DOMAIN mounts : IsPrefix(mounts[i].location, call.filename)}

\* The mount points whose location is what is left of the path.
Matches == {i \in DOMAIN mounts : mounts[i].location = call.filename}

Resolving == call.op \in {"vfs_open", "initrd_open"}

\* No mount point matches: one directory is cut off the path.
CutPath ==
    /\ Resolving
    /\ Matches = {} /\ call.filename # Root
    /\ call' = [call EXCEPT !.filename = RemoveUntil(@)]
    /\ UNCHANGED <<devices, mounts, files, mode>>

\* "Location not mounted!"
NotMounted ==
    /\ Resolving
    /\ Matches = {} /\ call.filename = Root
    /\ call' = Idle
    /\ UNCHANGED <<devices, mounts, files, mode>>

\* vfs_get_mount_point_index returns to vfs_open, which calls the file system's
\* open with the whole path; initrd_open looks for the mount point again.
Descend ==
    /\ call.op = "vfs_open" /\ Matches # {}
    /\ \E i \in Matches :
          /\ \A j \in Matches : i <= j
          /\ call' = [call EXCEPT !.op = "initrd_open", !.filename = call.path, !.mount = i]
    /\ UNCHANGED <<devices, mounts, files, mode>>

\* ... and looks the rest of the path up in the ramdisk.
Lookup ==
    LET name == Rest(call.path, call.filename) IN
    /\ call.op = "initrd_open" /\ Matches # {}
    /\ \E i \in Matches :
          /\ \A j \in Matches : i <= j
          /\ files' = IF name \in Files
                      THEN Append(files, [path |-> call.path, name |-> name, mount_index |-> i,
                                          device |-> mounts[call.mount].device])
                      ELSE files
    /\ call' = Idle
    /\ UNCHANGED <<devices, mounts, mode>>

\* vfs_close; reading and writing a file leave it as it is.
vfs_close(k) ==
    /\ Ready
    /\ files' = RemoveAt(files, k)
    /\ UNCHANGED <<devices, mounts, call, mode>>

Halted == mode = "halted" /\ UNCHANGED vars

OpenStep == CutPath \/ NotMounted \/ Descend \/ Lookup

Next ==
    \/ \E d \in Drivers, loc \in Locations : InitDriver(d, loc)
    \/ \E i \in DOMAIN devices, loc \in Locations : vfs_mount(i, loc)
    \/ \E p \in Paths : vfs_open(p)
    \/ OpenStep
    \/ \E k \in DOMAIN files : vfs_close(k)
    \/ Halted

\* The kernel has one thread: a call that can go on does.
Spec == Init /\ [][Next]_vars /\ WF_vars(OpenStep)

----------------------------------------------------------------------------
(* Properties.                                                             *)

\* The variables have the shapes of the C structures.
TypeOK ==
    /\ devices \in Seq(Drivers) /\ Len(devices) <= DeviceCount
    /\ mounts \in Seq([location : Locations, device : DOMAIN devices])
    /\ \A k \in DOMAIN files :
          /\ files[k].path \in Paths /\ files[k].name \in Files
          /\ files[k].mount_index \in DOMAIN mounts
          /\ files[k].device \in DOMAIN devices
    /\ call.op \in {"idle", "vfs_open", "initrd_open"}
    /\ call.mount \in DOMAIN mounts \cup {None}
    /\ mode \in {"running", "halted"}

\* A location leads to a path: it is the path, or a directory of it that is
\* written with its slash.
Leads(loc, p) ==
    \/ loc = p
    \/ Last(loc) = NoName /\ IsStrictPrefix(Front(loc), p)

Leading(p) == {i \in DOMAIN mounts : Leads(mounts[i].location, p)}

\* No mount point that leads to p is deeper than i.
Deepest(i, p) ==
    /\ i \in Leading(p)
    /\ \A j \in Leading(p) \ {i} :
          \/ mounts[i].location = p
          \/ mounts[j].location # p /\ Len(mounts[j].location) < Len(mounts[i].location)

\* Cutting the path from its end finds the deepest mount point that leads to it,
\* and finds none only if there is none, whatever the other mount points are.
ResolvesToDeepest ==
    [][/\ Resolving /\ call' = Idle /\ files' = files
           => Leading(call.path) = {} \/ call.op = "initrd_open"
       /\ call.op = "vfs_open" /\ call'.op = "initrd_open" => Deepest(call'.mount, call.path)
      ]_vars

\* An open file is read through mount_points[mount_index]: that is the device it
\* was found on, and its path is the location followed by its name there.
OpenedInPlace ==
    \A k \in DOMAIN files :
        LET f == files[k]
            mount == mounts[f.mount_index] IN
        /\ mount.device = f.device
        /\ f.path = Front(mount.location) \o f.name

\* vfs_open of an absolute path returns.
OpenReturns == call # Idle ~> call = Idle

\* vfs.c:110 says of vfs_get_mount_point_index: "Find what part of a given path is
\* the mount point".  A path below a mount point has that part.
PathsBelowResolve ==
    [][Resolving /\ call' = Idle /\ call.op = "vfs_open" =>
          \A i \in DOMAIN mounts : ~IsPrefix(mounts[i].location, call.path)]_vars

=============================================================================
