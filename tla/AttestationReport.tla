------------------------- MODULE AttestationReport -------------------------
(***************************************************************************)
(* The parser of attestation_report.py.  A report says in its first bytes  *)
(* which version it has, but not how the eight bytes of its TCB_VERSION    *)
(* are ordered: that depends on the processor generation, which is found   *)
(* by CPUID, the host's or (from version 3 on) the copy in the report.     *)
(* A CPUID is <<family, model>>; of a file, what the parser decides on is  *)
(* its size, its version, its CPUID bytes and its TCB bytes.               *)
(***************************************************************************)
EXTENDS Naturals, Sequences

REPORT_SIZE == 1184
KNOWN_VERSIONS == {2, 3, 5}

Generation(family, models, name, layout) ==
    [family |-> family, models |-> models, name |-> name, layout |-> layout]

SUPPORTED_GENERATIONS ==
    { Generation(25, 0..15,    "Milan",         "legacy"),
      Generation(25, 16..31,   "Genoa",         "legacy"),
      Generation(25, 160..175, "Bergamo/Siena", "legacy"),
      Generation(26, 0..17,    "Turin",         "turin") }

\* No generation: none was supplied, or the CPUID is not in the table.
Unknown == [name |-> "unknown", layout |-> "none"]

Known(cpuid) == {g \in SUPPORTED_GENERATIONS : g.family = cpuid[1] /\ cpuid[2] \in g.models}

\* resolve_generation, with Unknown for ReportUnsupportedCpu.
ResolveGeneration(cpuid) ==
    IF Known(cpuid) = {} THEN Unknown
    ELSE LET g == CHOOSE g \in Known(cpuid) : TRUE IN [name |-> g.name, layout |-> g.layout]

\* TcbVersion.from_bytes; byte b of the code is raw[b + 1], 0 stands for no FMC.
FromBytes(raw, layout) ==
    IF layout = "turin"
    THEN [fmc |-> raw[1], bootloader |-> raw[2], tee |-> raw[3], snp |-> raw[4], microcode |-> raw[8]]
    ELSE [fmc |-> 0, bootloader |-> raw[1], tee |-> raw[2], snp |-> raw[7], microcode |-> raw[8]]

\* TCB_VERSION left undecoded.
Undecoded == [fmc |-> 0, bootloader |-> 0, tee |-> 0, snp |-> 0, microcode |-> 0]

\* What the report's own CPUID says: nothing before version 3.
ReportGeneration(file) == IF file.version >= 3 THEN ResolveGeneration(file.cpuid) ELSE Unknown

Refused(error) ==
    [error |-> error, tcb |-> Undecoded, generation |-> "unknown",
     cpuidNote |-> FALSE, versionNote |-> FALSE]

\* The report as the generation says it is to be decoded.
Decoded(file, generation) ==
    [error       |-> "none",
     tcb         |-> IF generation = Unknown THEN Undecoded ELSE FromBytes(file.tcb, generation.layout),
     generation  |-> generation.name,
     cpuidNote   |-> file.version >= 3 /\ ReportGeneration(file) = Unknown,
     versionNote |-> file.version \notin KNOWN_VERSIONS]

\* Mutant of Parse: a foreign report is decoded as the host's.
ParseUnchecked(file, generation) ==
    LET own == ReportGeneration(file)
    IN  CASE file.size # REPORT_SIZE -> Refused("malformed")
          [] file.size = REPORT_SIZE /\ file.version < 2 -> Refused("version")
          [] OTHER -> Decoded(file, IF generation # Unknown THEN generation ELSE own)

\* parse: the host's generation decides when it is supplied, the report's own one is
\* the cross-check, and stands in when none is supplied.
Parse(file, generation) ==
    LET own     == ReportGeneration(file)
        foreign == generation # Unknown /\ own # Unknown /\ own # generation
    IN  CASE file.size # REPORT_SIZE -> Refused("malformed")
          [] file.size = REPORT_SIZE /\ file.version < 2 -> Refused("version")
          [] file.size = REPORT_SIZE /\ file.version >= 2 /\ foreign -> Refused("cpu")
          [] OTHER -> Decoded(file, IF generation # Unknown THEN generation ELSE own)

\* read on a host: host_generation refuses a processor it does not know before the
\* file is opened.
ReadOn(host, file) ==
    IF ResolveGeneration(host) = Unknown THEN Refused("cpu") ELSE Parse(file, ResolveGeneration(host))

-----------------------------------------------------------------------------
(* Reports as the firmware writes them (external).                         *)

\* How a processor orders the bytes: family 0x1A begins with the FMC.
LayoutOf(cpuid) == IF cpuid[1] >= 26 THEN "turin" ELSE "legacy"

Bytes(tcb, layout) ==
    IF layout = "turin"
    THEN <<tcb.fmc, tcb.bootloader, tcb.tee, tcb.snp, 0, 0, 0, tcb.microcode>>
    ELSE <<tcb.bootloader, tcb.tee, 0, 0, 0, 0, tcb.snp, tcb.microcode>>

\* The TCB of a machine, all values distinct; a legacy one has no FMC.
TcbOf(cpuid) ==
    [fmc |-> IF LayoutOf(cpuid) = "turin" THEN 5 ELSE 0,
     bootloader |-> 1, tee |-> 2, snp |-> 3, microcode |-> 4]

\* A report of a machine.  Some firmware leaves the CPUID bytes zero, which is the
\* CPUID of no machine.
Zeroed == <<0, 0>>

ReportFile(machine, version, cpuid) ==
    [size |-> REPORT_SIZE, version |-> version, cpuid |-> cpuid,
     tcb |-> Bytes(TcbOf(machine), LayoutOf(machine))]

\* Machines at the edges of the table, known and unknown.
Machines == {<<25, 0>>, <<25, 15>>, <<25, 16>>, <<25, 31>>, <<25, 32>>, <<25, 160>>,
             <<25, 175>>, <<25, 176>>, <<26, 0>>, <<26, 17>>, <<26, 18>>}
Versions == 1..6

\* Every report of every machine, read with every generation the parser may be given:
\* a TCB is decoded right, or left undecoded, or the report could not tell that it is
\* foreign: it is older than version 3, or the result says that its CPUID was of no
\* use.  On the machine it comes from a report is never refused for its processor,
\* and its TCB is decoded, unless that processor is not in the table
\* (attestation_report.py parse, resolve_generation, from_bytes).
LayoutNeverGuessed ==
    \A machine \in Machines, version \in Versions, zeroed \in BOOLEAN :
        LET file == ReportFile(machine, version, IF zeroed THEN Zeroed ELSE machine)
        IN  /\ \A host \in Machines \cup {Zeroed} :
                 LET r == Parse(file, ResolveGeneration(host))
                 IN  r.error = "none" =>
                        r.tcb \in {Undecoded, TcbOf(machine)} \/ version < 3 \/ r.cpuidNote
            /\ LET r == ReadOn(machine, file)
               IN  version >= 2 /\ ResolveGeneration(machine) # Unknown =>
                      r.error = "none" /\ r.tcb = TcbOf(machine)
=============================================================================
