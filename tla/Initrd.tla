------------------------------- MODULE Initrd -------------------------------
(***************************************************************************)
(* The ramdisk image: how utilities/ramdisk.c writes it, file by file, on  *)
(* the build machine, and how initrd_open (kernel/fs/initrd.c) looks a     *)
(* name up in it by walking from header to header.  Nothing but the sizes  *)
(* in the headers leads the walk, so the two agree only if each header is  *)
(* followed by as many bytes as it says.                                   *)
(*                                                                         *)
(* Positions are byte offsets in the image.  Only where the headers are    *)
(* matters, not the bytes of the files.                                    *)
(***************************************************************************)
EXTENDS Integers, Sequences

CONSTANTS
    Names,          \* file names, on the command line and asked for
    Sizes,          \* sizes of the files on the build machine
    ImageHeader,    \* sizeof(myfs_header_t) (32)
    FileHeader,     \* sizeof(myfs_file_header_t) (264)
    MaxFiles,       \* bound: files named on the command line
    MaxGarbage      \* bound: size read where there is no header

ASSUME SizesAssumption ==
    /\ Names # {} /\ Sizes \subseteq Nat
    /\ ImageHeader \in Nat \ {0}
    /\ FileHeader \in Nat \ {0}
    /\ {MaxFiles, MaxGarbage} \subseteq Nat

VARIABLES
    arg,            \* ramdisk: files dealt with so far
    header,         \* offset -> myfs_file_header_t written there
    pos,            \* ramdisk: pos
    wrote,          \* offsets reported as "Successfully wrote file"
    total_length,   \* myfs_header->total_length; 0 until the image is written
    pc,             \* "write", "idle" or "scan"
    name,           \* initrd_open: the name looked for
    raw,            \* initrd_open: raw
    found           \* initrd_open: the file_t returned, or None

writer == <<arg, header, pos, wrote, total_length>>
vars == <<arg, header, pos, wrote, total_length, pc, name, raw, found>>

None == [data |-> 0, size |-> 0]

----------------------------------------------------------------------------
(* utilities/ramdisk.c: one step per file of the command line.             *)

Init ==
    /\ arg = 0 /\ pos = ImageHeader
    /\ header = [p \in {} |-> 0]
    /\ wrote = {} /\ total_length = 0
    /\ pc = "write" /\ name = CHOOSE n \in Names : TRUE
    /\ raw = 0 /\ found = None

\* Mutant: the header is written where the data is to go.
AppendsLate(n, size) ==
    [p \in DOMAIN header \cup {pos + FileHeader} |->
        IF p = pos + FileHeader THEN [name |-> n, size |-> size] ELSE header[p]]

\* The header of the next file, in the buffer grown to hold it and its data.
Appended(n, size) ==
    [p \in DOMAIN header \cup {pos} |->
        IF p = pos THEN [name |-> n, size |-> size] ELSE header[p]]

\* "Failed to open file. Skipping." or "Failed to stat file. Skipping"
SkipFile ==
    /\ pc = "write" /\ arg < MaxFiles
    /\ arg' = arg + 1
    /\ UNCHANGED <<header, pos, wrote, total_length, pc, name, raw, found>>

\* Mutant: the position moves past the data only.
ForgetsHeader(size) == pos + size

After(size) == pos + FileHeader + size

WriteFile(n, size) ==
    /\ pc = "write" /\ arg < MaxFiles
    /\ arg' = arg + 1
    /\ header' = Appended(n, size)
    /\ pos' = After(size)
    /\ wrote' = wrote \cup {pos}
    /\ UNCHANGED <<total_length, pc, name, raw, found>>

\* Reading fails or gives fewer bytes than fstat promised: the data is dropped and the header,
\* which pos has passed already, stays in the image.
FailRead(n, size) ==
    /\ pc = "write" /\ arg < MaxFiles
    /\ arg' = arg + 1
    /\ header' = Appended(n, size)
    /\ pos' = pos + FileHeader
    /\ UNCHANGED <<wrote, total_length, pc, name, raw, found>>

\* The length goes into the header of the image; the kernel is started with it.
Finish ==
    /\ pc = "write"
    /\ total_length' = pos
    /\ pc' = "idle"
    /\ UNCHANGED <<arg, header, pos, wrote, name, raw, found>>

----------------------------------------------------------------------------
(* initrd_open, one step per header it looks at.                           *)

Open(n) ==
    /\ pc = "idle"
    /\ pc' = "scan" /\ name' = n
    /\ raw' = ImageHeader
    /\ found' = None
    /\ UNCHANGED writer

Scanning == pc = "scan" /\ raw < total_length

\* What the walk takes for a header at raw: the one written there, or, where none
\* was, bytes of a file.
HeaderAt ==
    IF raw \in DOMAIN header THEN {header[raw]}
    ELSE [name : Names, size : 0..MaxGarbage]

\* The name is the one looked for.
Found ==
    /\ Scanning
    /\ \E h \in HeaderAt :
          /\ h.name = name
          /\ found' = [data |-> raw + FileHeader, size |-> h.size]
    /\ pc' = "idle"
    /\ UNCHANGED <<writer, name, raw>>

\* Mutant: the walk moves past the data only.
StepsByData(size) == raw + size

NextRaw(size) == raw + FileHeader + size

NextFile ==
    /\ Scanning
    /\ \E h \in HeaderAt :
          /\ h.name # name
          /\ raw' = NextRaw(h.size)
    /\ UNCHANGED <<writer, pc, name, found>>

\* return NULL
NotFound ==
    /\ pc = "scan" /\ raw >= total_length
    /\ pc' = "idle"
    /\ UNCHANGED <<writer, name, raw, found>>

ScanStep == Found \/ NextFile \/ NotFound

Next ==
    \/ SkipFile
    \/ \E n \in Names, size \in Sizes : WriteFile(n, size) \/ FailRead(n, size)
    \/ Finish
    \/ \E n \in Names : Open(n)
    \/ ScanStep

\* Neither the utility nor initrd_open waits for anybody.
Spec == Init /\ [][Next]_vars /\ WF_vars(ScanStep)

----------------------------------------------------------------------------
(* Properties.                                                             *)

\* The variables have the types of the C code; a file_t or NULL is returned.
TypeOK ==
    /\ arg \in 0..MaxFiles
    /\ DOMAIN header \subseteq Nat
    /\ header \in [DOMAIN header -> [name : Names, size : Nat]]
    /\ pos \in Nat /\ wrote \subseteq DOMAIN header
    /\ total_length \in {0, pos}
    /\ pc \in {"write", "idle", "scan"}
    /\ name \in Names /\ raw \in Nat
    /\ found \in [data : Nat, size : Nat]

Named(n) == {p \in DOMAIN header : header[p].name = n}

\* No header up to p was left without its data.
Intact(p) == \A q \in DOMAIN header : q <= p => q \in wrote

\* The file that the lookup of n should give: the first of that name.
IsFirst(p, n) == p \in Named(n) /\ \A q \in Named(n) : p <= q

\* Looking a name up gives the first file written under it, with the place and
\* size of its data, and no file if none was: as long as no read failed before.
LookupExact ==
    pc = "idle" /\ raw > 0 =>
        /\ \A p \in Named(name) : IsFirst(p, name) /\ Intact(p) =>
               found = [data |-> p + FileHeader, size |-> header[p].size]
        /\ Named(name) = {} /\ DOMAIN header = wrote => found = None

\* A file handed out as a whole was written: its data lies in the image and in no
\* other file's, if no read failed.
DataInImage ==
    pc = "idle" /\ found # None /\ DOMAIN header = wrote =>
        /\ found.data + found.size <= total_length
        /\ \A p \in DOMAIN header :
              \/ p + FileHeader = found.data
              \/ p >= found.data + found.size
              \/ p + FileHeader + header[p].size <= found.data - FileHeader

\* The lookup comes to an end, whatever the walk meets.
LookupEnds == pc = "scan" ~> pc = "idle"

=============================================================================
