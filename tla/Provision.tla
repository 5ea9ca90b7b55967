----------------------------- MODULE Provision -----------------------------
(***************************************************************************)
(* Putting pinned files on disk and using them: fetchPinned and isIntact   *)
(* of src/pinned.js, provision of src/circuits.js, provisionBinary and     *)
(* resolveProvisionedBinary of src/binary.js, and what VerifierService     *)
(* makes of the directory when it starts.                                  *)
(*                                                                         *)
(* Each run is one call in one process: several may work on the same       *)
(* directory at once, and any may crash between two awaits.  The host      *)
(* sends what it likes.  Files also change under us (bit rot, a restored   *)
(* cache).  What is provisioned is either the verifier binary, one file    *)
(* that must carry its x-bit, or the circuits, in the manifest's order.    *)
(* The binary is linked against glibc and keyed by platform and processor  *)
(* alone, so the machine decides whether it may be installed to run here.  *)
(***************************************************************************)
EXTENDS Integers, FiniteSets

CONSTANTS
    Run,         \* calls of provision() or provisionBinary()
    Kinds,       \* what may be provisioned: "binary", "circuits"
    Machines,    \* what this process may run on
    Circuits,    \* how many circuits the manifest pins
    Before,      \* what a file may hold before the first call
    MaxRots      \* bound: changes of a file that are not ours

ASSUME ProvisionAssumption ==
    /\ Kinds \subseteq {"binary", "circuits"}
    /\ Machines \subseteq {"glibc", "musl", "unknown", "other"}
    /\ Circuits \in Nat \ {0} /\ MaxRots \in Nat
    /\ Before \subseteq {"none", "other", "pinned"}

Artifact == 1..Circuits

\* What a file holds: "other" is any content of the right length that is not the
\* pinned one, "cut" a part of the pinned one.
Bytes == {"none", "cut", "other", "pinned"}

VARIABLES
    kind,     \* what is provisioned in this directory
    machine,  \* "unknown": no telling which libc; "other": a platform we build nothing for
    disk,     \* per artifact: the file at its path
    parts,    \* the .part-<uuid> files
    run,      \* per call: where it is
    boot,     \* one start of the verifier over the directory
    spoiled,  \* history: artifacts whose file was last changed by something else
    rots

vars == <<kind, machine, disk, parts, run, boot, spoiled, rots>>

Executable == kind = "binary"

\* The files the manifest pins.
Pinned == IF Executable THEN {1} ELSE Artifact

File == [bytes: Bytes, exec: BOOLEAN]
Part == [of: Artifact, name: Run, file: File]

\* pc of a call: "looking" about to hash the file; "touching" in await chmod on an
\* intact binary; "fetching" in await fetch or the body; "opening", "writing", "moding",
\* "renaming" the steps on the partial; "unlinking" after one of them failed.
RunType ==
    [pc: {"idle", "looking", "touching", "fetching", "opening", "writing", "moding",
          "renaming", "unlinking", "returned", "threw", "crashed"},
     at: Artifact,
     body: Bytes,            \* what was downloaded
     why: {"", "platform", "refused", "disk", "exists"}]

\* after: some call had returned when it began, and all was as that call left it.
\* spoiled: a file changed under it.  stray: a partial lay about when it loaded.
\* pc of a start: "hashed" the binary was hashed; "spawned" it was executed; "loading"
\* the circuit files were counted and the child loads them; "ready"; "failed".
BootType ==
    [pc: {"off", "hashed", "spawned", "loading", "ready", "failed"},
     expected: Nat, file: File, after: BOOLEAN, spoiled: BOOLEAN, stray: BOOLEAN]

Init ==
    /\ kind \in Kinds
    /\ machine \in IF Executable THEN Machines ELSE {"glibc"}
    /\ \E before \in [Pinned -> Before] :
          disk = [a \in Artifact |-> [bytes |-> IF a \in Pinned THEN before[a] ELSE "none",
                                     exec |-> Executable]]
    /\ parts = {}
    /\ run = [r \in Run |-> [pc |-> "idle", at |-> 1, body |-> "none", why |-> ""]]
    /\ boot = [pc |-> "off", expected |-> 0, file |-> [bytes |-> "none", exec |-> FALSE],
               after |-> FALSE, spoiled |-> FALSE, stray |-> FALSE]
    /\ spoiled = {a \in Artifact : disk[a].bytes = "other"}
    /\ rots = 0

---------------------------------------------------------------------------
(* A call of provision() or provisionBinary().                             *)

intact(f) == f.bytes = "pinned"

ToPC(r, pc) == run' = [run EXCEPT ![r].pc = pc]
Throw(r, why) == run' = [run EXCEPT ![r].pc = "threw", ![r].why = why]

\* The loop of provision(); provisionBinary has one artifact.
Continue(r) ==
    run' = IF Executable \/ run[r].at = Circuits THEN [run EXCEPT ![r].pc = "returned"]
           ELSE [run EXCEPT ![r].pc = "looking", ![r].at = @ + 1]

\* isMuslLinux fails open: a machine it cannot read is taken for glibc.
isMuslLinux == machine = "musl"

\* What to provision for: "here" when the caller names no platform, one we build for
\* ("named", whatever this machine is), or one we do not ("nowhere").
Target == {"here", "named", "nowhere"}
prebuilt(target) == target = "named" \/ (target = "here" /\ machine # "other")
entryFor(target) == prebuilt(target) /\ (target = "here" => ~ isMuslLinux)

Begin(r) ==
    /\ run[r].pc = "idle"
    /\ \E target \in IF Executable THEN Target ELSE {"named"} :
          IF entryFor(target) THEN ToPC(r, "looking") ELSE Throw(r, "platform")
    /\ UNCHANGED <<kind, machine, disk, parts, boot, spoiled, rots>>

Look(r) ==
    /\ run[r].pc = "looking"
    /\ IF ~ intact(disk[run[r].at]) THEN ToPC(r, "fetching")
       ELSE IF Executable THEN ToPC(r, "touching") ELSE Continue(r)
    /\ UNCHANGED <<kind, machine, disk, parts, boot, spoiled, rots>>

\* chmod 0755 on whatever is at the path by now.
repairs(a) == [disk EXCEPT ![a].exec = TRUE]

Touch(r) ==
    LET a == run[r].at
    IN  /\ run[r].pc = "touching"
        /\ IF disk[a].bytes = "none"
           THEN Throw(r, "disk") /\ UNCHANGED <<disk, spoiled>>
           ELSE /\ disk' = repairs(a)
                /\ spoiled' = IF intact(disk[a]) THEN spoiled \ {a} ELSE spoiled
                /\ Continue(r)
        /\ UNCHANGED <<kind, machine, parts, boot, rots>>

accepted_ByLength(body) == body \in {"other", "pinned"}
\* Status, advertised size, actual size, sha256: only the pinned bytes pass them all.
accepted(body) == body = "pinned"

\* The host answers, or does not ("none"); nothing is written before every check.
Fetched(r, body) ==
    /\ run[r].pc = "fetching"
    /\ IF accepted(body)
       THEN run' = [run EXCEPT ![r].pc = "opening", ![r].body = body]
       ELSE Throw(r, "refused")
    /\ UNCHANGED <<kind, machine, disk, parts, boot, spoiled, rots>>

\* A random suffix: no two calls, of this boot or an earlier one, share it.
partName(r) == r

Mine(r, p) == p.of = run[r].at /\ p.name = partName(r)
Taken(r) == \E p \in parts : Mine(r, p)

\* writeFile with 'wx' creates the partial; its mode is what the umask leaves of it.
Open(r) ==
    /\ run[r].pc = "opening"
    /\ IF Taken(r)
       THEN /\ run' = [run EXCEPT ![r].pc = "unlinking", ![r].why = "exists"]
            /\ UNCHANGED parts
       ELSE /\ \E x \in BOOLEAN :
                  parts' = parts \cup {[of |-> run[r].at, name |-> partName(r),
                                        file |-> [bytes |-> "cut", exec |-> x]]}
            /\ ToPC(r, "writing")
    /\ UNCHANGED <<kind, machine, disk, boot, spoiled, rots>>

Rewrite(r, f(_)) ==
    parts' = {IF Mine(r, p) THEN [p EXCEPT !.file = f(@)] ELSE p : p \in parts}

WritePart(r) ==
    /\ run[r].pc = "writing"
    /\ Rewrite(r, LAMBDA f : [f EXCEPT !.bytes = run[r].body])
    /\ ToPC(r, IF Executable THEN "moding" ELSE "renaming")
    /\ UNCHANGED <<kind, machine, disk, boot, spoiled, rots>>

chmodPart_Umask(f) == f
chmodPart(f) == [f EXCEPT !.exec = TRUE]

ChmodPart(r) ==
    /\ run[r].pc = "moding"
    /\ Rewrite(r, chmodPart)
    /\ ToPC(r, "renaming")
    /\ UNCHANGED <<kind, machine, disk, boot, spoiled, rots>>

\* rename() replaces the file at the path in one step.
Rename(r) ==
    /\ run[r].pc = "renaming"
    /\ \E p \in parts :
          /\ Mine(r, p)
          /\ disk' = [disk EXCEPT ![run[r].at] = p.file]
          /\ parts' = parts \ {p}
    /\ spoiled' = spoiled \ {run[r].at}
    /\ Continue(r)
    /\ UNCHANGED <<kind, machine, boot, rots>>

\* Creating it, the write, the chmod or the rename fails (a full disk, permissions).
DiskFails(r) ==
    /\ run[r].pc \in {"opening", "writing", "moding", "renaming"}
    /\ run' = [run EXCEPT ![r].pc = "unlinking", ![r].why = "disk"]
    /\ UNCHANGED <<kind, machine, disk, parts, boot, spoiled, rots>>

\* The partial is removed if it can be, and the call throws.
Unlink(r) ==
    /\ run[r].pc = "unlinking"
    /\ parts' \in {parts, {p \in parts : ~ Mine(r, p)}}
    /\ ToPC(r, "threw")
    /\ UNCHANGED <<kind, machine, disk, boot, spoiled, rots>>

Crash(r) ==
    /\ run[r].pc \notin {"idle", "returned", "threw", "crashed"}
    /\ ToPC(r, "crashed")
    /\ UNCHANGED <<kind, machine, disk, parts, boot, spoiled, rots>>

\* A file changes and it was not us.
Rot(a) ==
    /\ rots < MaxRots /\ rots' = rots + 1
    /\ disk' \in {[disk EXCEPT ![a].bytes = b] : b \in {"none", "other"}}
                    \cup {[disk EXCEPT ![a].exec = FALSE]}
    /\ spoiled' = spoiled \cup {a}
    /\ boot' = [boot EXCEPT !.spoiled = TRUE]
    /\ UNCHANGED <<kind, machine, parts, run>>

---------------------------------------------------------------------------
(* A start of the verifier.                                                *)

resolved_Exists(f) == f.bytes # "none" /\ f.exec
\* resolveProvisionedBinary: the pinned bytes, and executable.
resolved(f) == intact(f) /\ f.exec

\* A start begins; it is after a call that has returned when nothing changed since.
Starts(pc, expected) ==
    boot' = [boot EXCEPT !.pc = pc, !.expected = expected, !.spoiled = FALSE,
                         !.after = spoiled = {} /\ \E r \in Run : run[r].pc = "returned"]

\* Verifier.start names no platform.
Resolve ==
    /\ Executable /\ boot.pc = "off"
    /\ Starts(IF entryFor("here") /\ resolved(disk[1]) THEN "hashed" ELSE "failed", 0)
    /\ UNCHANGED <<kind, machine, disk, parts, run, spoiled, rots>>

\* spawn() runs whatever is at the path by now, if this machine can.
SpawnBinary ==
    /\ boot.pc = "hashed"
    /\ \E links \in IF machine = "glibc" THEN {TRUE} ELSE BOOLEAN :
          boot' = [boot EXCEPT !.pc = IF disk[1].bytes # "none" /\ disk[1].exec /\ links
                                     THEN "spawned" ELSE "failed",
                               !.file = disk[1]]
    /\ UNCHANGED <<kind, machine, disk, parts, run, spoiled, rots>>

present == {a \in Artifact : disk[a].bytes # "none"}
counted_WithParts == Cardinality(present) + Cardinality(parts)
\* countCircuitFiles: the files whose whole name is an id, whatever is in them.
counted == Cardinality(present)

CountCircuits ==
    /\ ~ Executable /\ boot.pc = "off"
    /\ Starts(IF counted = 0 THEN "failed" ELSE "loading", counted)
    /\ UNCHANGED <<kind, machine, disk, parts, run, spoiled, rots>>

loads == {a \in present : intact(disk[a])}

\* The child loads the directory, here in one instant: it ignores a file that is not what
\* its name says, and reports it.  With as many files read as were counted start() is
\* ready, unless a poll meets the report of an ignored file first.  A partial's name begins
\* with its circuit's: the child may report it like any other file it ignores (`named`),
\* or pass over it.
LoadCircuits ==
    /\ boot.pc = "loading"
    /\ \E named \in {FALSE, parts # {}} :
          LET reported == named \/ loads # present
              enough == Cardinality(loads) >= boot.expected
          IN  boot' \in {[boot EXCEPT !.stray = parts # {}, !.pc = pc] :
                            pc \in (IF enough THEN {"ready"} ELSE {})
                                     \cup (IF reported \/ ~ enough THEN {"failed"} ELSE {})}
    /\ UNCHANGED <<kind, machine, disk, parts, run, spoiled, rots>>

Step(r) ==
    \/ Begin(r) \/ Look(r) \/ Touch(r) \/ \E body \in Bytes : Fetched(r, body)
    \/ Open(r) \/ WritePart(r) \/ ChmodPart(r) \/ Rename(r)
    \/ DiskFails(r) \/ Unlink(r) \/ Crash(r)

Next ==
    \/ \E r \in Run : Step(r)
    \/ \E a \in Pinned : Rot(a)
    \/ Resolve \/ SpawnBinary \/ CountCircuits \/ LoadCircuits

Spec == Init /\ [][Next]_vars

---------------------------------------------------------------------------
TypeOK ==
    /\ kind \in Kinds /\ machine \in Machines \cup {"glibc"}
    /\ disk \in [Artifact -> File]
    /\ parts \subseteq Part
    /\ run \in [Run -> RunType]
    /\ boot \in BootType
    /\ spoiled \subseteq Artifact /\ rots \in 0..MaxRots

\* A file at its real path that is not what we pinned is never our doing: not by a
\* lying host, a crash in mid-write or two calls at once (pinned.js:10-23).
OnlyPinnedInstalled ==
    \A a \in Artifact : disk[a].bytes \notin {"none", "pinned"} => a \in spoiled

\* When a call has returned, every file is there, is what we pinned and -- the binary
\* -- can be executed, unless it changed under us since; whatever other calls do.
ReturnedMeansUsable ==
    \A r \in Run, a \in Pinned :
        run[r].pc = "returned" /\ a \notin spoiled
          => intact(disk[a]) /\ (Executable => disk[a].exec)

\* What is executed is what was hashed, also while calls replace the file, unless it
\* changed under us in between (binary.js:16-18); and never on a machine known not to
\* run it, though it was installed there for another (binary.js:178-181).
RunsOnlyPinned ==
    boot.pc = "spawned" =>
        /\ machine \in {"glibc", "unknown"}
        /\ ~ boot.spoiled => boot.file = [bytes |-> "pinned", exec |-> TRUE]

\* A start begun once a call has returned, with no file changed from outside, is ready
\* with all the manifest pins and never with less, also while other calls run.  It may only
\* fail over a partial in the directory, which a call in flight has there and a crashed one
\* leaves for good, or on a machine that is not known to be glibc.
ProvisionedMeansReady ==
    boot.after /\ ~ boot.spoiled =>
        /\ boot.pc = "failed" => boot.stray \/ machine # "glibc"
        /\ boot.pc = "ready" => \A a \in Pinned : intact(disk[a])

---------------------------------------------------------------------------
\* What docs and comments of the repository say, and the code contradicts.

\* "A server can therefore come up with a silently-reduced circuit set ... so we fail
\* loudly here, before it ever gets that chance" (circuits.js:21-24).
ReadyMeansWholeManifest ==
    boot.pc = "ready" /\ spoiled = {} => \A a \in Pinned : intact(disk[a])

\* "every file must hash to the sha256 we pinned ... A byte off and we delete it and
\* stop" (circuits.js:13-14): a call that stopped because the bytes were wrong has
\* left no wrong bytes behind.
WrongBytesDeleted ==
    \A r \in Run : run[r].pc = "threw" /\ run[r].why = "refused" /\ rots = 0
        => disk[run[r].at].bytes # "other"
=============================================================================
