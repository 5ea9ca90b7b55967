-------------------------- MODULE Provision_proofs --------------------------
(***************************************************************************)
(* What provisioning guarantees for any number of calls at once, any       *)
(* number of pinned circuits, any host, any crash and any number of files  *)
(* that change from outside.                                               *)
(***************************************************************************)
EXTENDS Provision, FiniteSetTheorems, TLAPS

USE ProvisionAssumption

\* A file nobody else changed since is what we pinned and, the binary, can be executed.
Usable(a) == a \notin spoiled => intact(disk[a]) /\ (Executable => disk[a].exec)

\* A call that is past the checks holds the pinned bytes; its partial has them once it
\* was written, and the binary's its x-bit once the mode was set -- so that what rename
\* moves into place is whole whatever the other calls do meanwhile.
CallWhole(r) ==
    /\ run[r].pc \in {"opening", "writing", "moding", "renaming"} => run[r].body = "pinned"
    /\ run[r].pc \in {"moding", "renaming"} =>
          \A p \in parts : Mine(r, p) => p.file.bytes = "pinned"
    /\ run[r].pc = "renaming" /\ Executable =>
          \A p \in parts : Mine(r, p) => p.file.exec

PartsWhole == \A r \in Run : CallWhole(r)

\* The files a call has passed are usable, and when it has returned all of them.
CallPassed(r) ==
    /\ Executable => run[r].at = 1
    /\ \A a \in Artifact : a < run[r].at => Usable(a)
    /\ run[r].pc = "returned" => \A a \in Pinned : Usable(a)

PassedUsable == \A r \in Run : CallPassed(r)

\* A start that was told the binary is good may still run it, and one that counted the
\* circuits after a call had returned still finds them, unless something changed since.
StartStands ==
    /\ ~ Executable => machine = "glibc"
    /\ boot.pc \in {"hashed", "spawned"} => Executable /\ machine \in {"glibc", "unknown"}
    /\ boot.pc = "loading" => ~ Executable
    /\ boot.pc = "hashed" /\ ~ boot.spoiled => intact(disk[1]) /\ disk[1].exec
    /\ boot.pc = "loading" /\ boot.after /\ ~ boot.spoiled =>
          boot.expected = Cardinality(Artifact) /\ \A a \in Artifact : intact(disk[a])

CallPC == {"idle", "looking", "touching", "fetching", "opening", "writing", "moding",
           "renaming", "unlinking", "returned", "threw", "crashed"}
CallWhy == {"", "platform", "refused", "disk", "exists"}

IInv ==
    /\ TypeOK /\ OnlyPinnedInstalled /\ PartsWhole /\ PassedUsable /\ StartStands
    /\ RunsOnlyPinned /\ ProvisionedMeansReady

---------------------------------------------------------------------------
(* Lemmas about what the actions do to a call and to a partial.            *)

\* Moving a call touches no other call, and of its own only where it is.
LEMMA CallMoves ==
    ASSUME TypeOK, NEW r \in Run, NEW pc \in CallPC, ToPC(r, pc)
    PROVE  /\ run' \in [Run -> RunType]
           /\ \A q \in Run \ {r} : run'[q] = run[q]
           /\ run'[r].pc = pc /\ run'[r].at = run[r].at /\ run'[r].body = run[r].body
  <1>1. run \in [Run -> RunType]
    BY DEF TypeOK
  <1>2. [run[r] EXCEPT !.pc = pc] \in RunType
    BY <1>1 DEF RunType, CallPC
  <1>3. run' = [run EXCEPT ![r] = [run[r] EXCEPT !.pc = pc]]
    BY <1>1 DEF ToPC, RunType
  <1>4. run'[r] = [run[r] EXCEPT !.pc = pc] /\ run[r] \in RunType
    BY <1>1, <1>3
  <1>5. run'[r].pc = pc /\ run'[r].at = run[r].at /\ run'[r].body = run[r].body
    BY <1>4 DEF RunType
  <1> QED BY <1>1, <1>2, <1>3, <1>5

LEMMA CallThrows ==
    ASSUME TypeOK, NEW r \in Run, NEW pc \in CallPC, NEW why \in CallWhy,
           run' = [run EXCEPT ![r].pc = pc, ![r].why = why]
    PROVE  /\ run' \in [Run -> RunType]
           /\ \A q \in Run \ {r} : run'[q] = run[q]
           /\ run'[r].pc = pc /\ run'[r].at = run[r].at /\ run'[r].body = run[r].body
  <1>1. run \in [Run -> RunType]
    BY DEF TypeOK
  <1>2. [run[r] EXCEPT !.pc = pc, !.why = why] \in RunType
    BY <1>1 DEF RunType, CallPC, CallWhy
  <1>3. run' = [run EXCEPT ![r] = [run[r] EXCEPT !.pc = pc, !.why = why]]
    BY <1>1 DEF RunType
  <1>4. run'[r] = [run[r] EXCEPT !.pc = pc, !.why = why] /\ run[r] \in RunType
    BY <1>1, <1>3
  <1>5. \A c \in RunType : LET d == [c EXCEPT !.pc = pc, !.why = why]
                          IN  d.pc = pc /\ d.at = c.at /\ d.body = c.body
    BY DEF RunType
  <1> QED BY <1>1, <1>2, <1>3, <1>4, <1>5

\* The loop returns behind the last file, and goes on to the next one before that.
LEMMA CallContinues ==
    ASSUME TypeOK, NEW r \in Run, Continue(r)
    PROVE  /\ run' \in [Run -> RunType]
           /\ \A q \in Run \ {r} : run'[q] = run[q]
           /\ \/ /\ Executable \/ run[r].at = Circuits
                 /\ run'[r].pc = "returned" /\ run'[r].at = run[r].at
              \/ /\ ~ Executable /\ run[r].at # Circuits
                 /\ run'[r].pc = "looking" /\ run'[r].at = run[r].at + 1
  <1>1. CASE Executable \/ run[r].at = Circuits
    <2>1. run' = [run EXCEPT ![r].pc = "returned"]
      BY <1>1 DEF Continue
    <2>2. ToPC(r, "returned") /\ "returned" \in CallPC
      BY <2>1 DEF ToPC, CallPC
    <2> QED BY <1>1, <2>2, CallMoves
  <1>2. CASE ~ (Executable \/ run[r].at = Circuits)
    <2>1. run[r].at \in 1..Circuits /\ run[r] \in RunType
      BY DEF TypeOK, RunType, Artifact
    <2>2. run[r].at + 1 \in Artifact
      BY <1>2, <2>1 DEF Artifact
    <2>3. run' = [run EXCEPT ![r].pc = "looking", ![r].at = @ + 1]
      BY <1>2 DEF Continue
    <2>4. run' = [run EXCEPT ![r] = [run[r] EXCEPT !.pc = "looking", !.at = @ + 1]]
      BY <2>3 DEF TypeOK, RunType
    <2>5. [run[r] EXCEPT !.pc = "looking", !.at = @ + 1] \in RunType
      BY <2>2 DEF TypeOK, RunType
    <2>6. run'[r] = [run[r] EXCEPT !.pc = "looking", !.at = @ + 1]
      BY <2>4 DEF TypeOK
    <2>7. run'[r].pc = "looking" /\ run'[r].at = run[r].at + 1
      BY <2>1, <2>6 DEF RunType
    <2> QED BY <1>2, <2>4, <2>5, <2>7 DEF TypeOK
  <1> QED BY <1>1, <1>2

\* What a call does to its own partials leaves the other calls' whole.
LEMMA OthersWhole ==
    ASSUME PartsWhole, NEW r \in Run, UNCHANGED kind,
           \A q \in Run \ {r} : run'[q] = run[q],
           \A p \in parts' : p \in parts \/ p.name = r,
           CallWhole(r)'
    PROVE  PartsWhole'
  <1> SUFFICES ASSUME NEW q \in Run \ {r} PROVE CallWhole(q)'
    BY DEF PartsWhole
  <1>1. CallWhole(q) /\ run'[q] = run[q]
    BY DEF PartsWhole
  <1>2. \A p \in parts' : Mine(q, p)' => p \in parts /\ Mine(q, p)
    BY <1>1 DEF Mine, partName
  <1> QED BY <1>1, <1>2 DEF CallWhole, Executable

\* A usable file stays so, and a call that does not advance has passed no more.
LEMMA PassedKept ==
    ASSUME PassedUsable, NEW r \in Run, UNCHANGED kind,
           \A q \in Run \ {r} : run'[q] = run[q],
           \A a \in Artifact : Usable(a) => Usable(a)',
           run'[r].at = run[r].at, run'[r].pc # "returned"
    PROVE  PassedUsable'
  <1>1. \A a \in Pinned : Usable(a) => Usable(a)'
    BY DEF Pinned, Artifact
  <1>2. Executable' = Executable /\ Pinned' = Pinned
    BY DEF Executable, Pinned
  <1> QED BY <1>1, <1>2 DEF PassedUsable, CallPassed

\* A call advances over a file that is usable by then.
LEMMA PassedOn ==
    ASSUME TypeOK, PassedUsable, NEW r \in Run, Continue(r), UNCHANGED kind,
           \A a \in Artifact : Usable(a) => Usable(a)',
           NEW at \in Artifact, at = run[r].at, Usable(at)'
    PROVE  PassedUsable'
  <1>1. Executable' = Executable /\ Pinned' = Pinned /\ Pinned \subseteq Artifact
    BY DEF Executable, Pinned, Artifact
  <1>2. \A q \in Run \ {r} : run'[q] = run[q]
    BY CallContinues
  <1>3. \A q \in Run \ {r} : CallPassed(q)'
    BY <1>1, <1>2 DEF PassedUsable, CallPassed
  <1>4. CallPassed(r) /\ run[r].at \in 1..Circuits
    BY DEF PassedUsable, Artifact
  <1>5. CASE Executable
    <2>1. run'[r].at = 1 /\ run[r].at = 1
      BY <1>4, <1>5, CallContinues DEF CallPassed
    <2>2. Usable(1)'
      BY <2>1
    <2> QED BY <1>1, <1>3, <1>5, <2>1, <2>2 DEF PassedUsable, CallPassed, Pinned, Artifact
  <1>6. CASE ~ Executable /\ run[r].at = Circuits
    <2>1. run'[r].at = Circuits
      BY <1>6, CallContinues
    <2>2. \A a \in Artifact : Usable(a)'
      BY <1>4, <1>6 DEF CallPassed, Artifact
    <2> QED BY <1>1, <1>3, <1>6, <2>1, <2>2 DEF PassedUsable, CallPassed
  <1>7. CASE ~ Executable /\ run[r].at # Circuits
    <2>1. run'[r].at = run[r].at + 1 /\ run'[r].pc = "looking"
      BY <1>7, CallContinues
    <2>2. \A a \in Artifact : a < run[r].at + 1 => Usable(a)'
      BY <1>4 DEF CallPassed, Artifact
    <2> QED BY <1>1, <1>3, <1>7, <2>1, <2>2 DEF PassedUsable, CallPassed
  <1> QED BY <1>5, <1>6, <1>7

---------------------------------------------------------------------------
(* Types.                                                                  *)

LEMMA TypeInit == Init => TypeOK
  <1> SUFFICES ASSUME Init PROVE TypeOK
    OBVIOUS
  <1>1. kind \in Kinds /\ machine \in Machines \cup {"glibc"}
    BY DEF Init
  <1>2. disk \in [Artifact -> File]
    <2>1. PICK before \in [Pinned -> Before] :
             disk = [a \in Artifact |-> [bytes |-> IF a \in Pinned THEN before[a] ELSE "none",
                                         exec |-> Executable]]
      BY DEF Init
    <2>2. \A a \in Artifact : (IF a \in Pinned THEN before[a] ELSE "none") \in Bytes
      BY DEF Bytes
    <2> QED BY <2>1, <2>2 DEF File, Executable
  <1>3. 1 \in Artifact
    BY DEF Artifact
  <1>4. run \in [Run -> RunType] /\ boot \in BootType
    BY <1>3 DEF Init, RunType, BootType, File, Bytes
  <1>5. parts \subseteq Part /\ spoiled \subseteq Artifact /\ rots \in 0..MaxRots
    <2>1. parts = {} /\ spoiled = {a \in Artifact : disk[a].bytes = "other"} /\ rots = 0
      BY DEF Init
    <2> QED BY <2>1
  <1> QED BY <1>1, <1>2, <1>4, <1>5 DEF TypeOK

\* The number of circuit files in the directory is a number, at most all of them.
LEMMA CountTyped == counted \in Nat /\ Cardinality(Artifact) = Circuits
  <1>1. IsFiniteSet(Artifact) /\ Cardinality(Artifact) = Circuits
    BY FS_Interval DEF Artifact
  <1>2. IsFiniteSet(present)
    BY <1>1, FS_Subset DEF present
  <1> QED BY <1>1, <1>2, FS_CardinalityType DEF counted

\* What a call does to its partials keeps them typed.
LEMMA PartsTyped ==
    ASSUME TypeOK, NEW r \in Run
    PROVE  /\ \A x \in BOOLEAN : [of |-> run[r].at, name |-> partName(r),
                                  file |-> [bytes |-> "cut", exec |-> x]] \in Part
           /\ \A p \in parts : /\ [p EXCEPT !.file = [@ EXCEPT !.bytes = run[r].body]] \in Part
                               /\ [p EXCEPT !.file = chmodPart(@)] \in Part
  <1>1. run[r].at \in Artifact /\ run[r].body \in Bytes
    BY DEF TypeOK, RunType
  <1>2. \A f \in File : [f EXCEPT !.bytes = run[r].body] \in File /\ chmodPart(f) \in File
    BY <1>1 DEF File, chmodPart
  <1>3. \A p \in Part : p.file \in File /\ \A f \in File : [p EXCEPT !.file = f] \in Part
    BY DEF Part
  <1>4. \A p \in parts : p \in Part
    BY DEF TypeOK
  <1>5. \A x \in BOOLEAN : [bytes |-> "cut", exec |-> x] \in File
    BY DEF File, Bytes
  <1>6. \A x \in BOOLEAN : [of |-> run[r].at, name |-> partName(r),
                           file |-> [bytes |-> "cut", exec |-> x]] \in Part
    BY <1>1, <1>5 DEF Part, partName
  <1>7. ASSUME NEW p \in parts
        PROVE  /\ [p EXCEPT !.file = [@ EXCEPT !.bytes = run[r].body]] \in Part
               /\ [p EXCEPT !.file = chmodPart(@)] \in Part
    <2>1. p \in Part /\ p.file \in File
      BY <1>3, <1>4
    <2>2. [p.file EXCEPT !.bytes = run[r].body] \in File /\ chmodPart(p.file) \in File
      BY <1>2, <2>1
    <2> QED BY <1>3, <2>1, <2>2
  <1> QED BY <1>6, <1>7

LEMMA StepTyped ==
    ASSUME TypeOK, NEW r \in Run, Step(r)
    PROVE  TypeOK'
  <1>1. CASE Begin(r)
    <2>1. run' \in [Run -> RunType]
      BY <1>1, CallMoves, CallThrows DEF Begin, CallPC, CallWhy, Throw
    <2> QED BY <1>1, <2>1 DEF Begin, TypeOK
  <1>2. CASE Look(r)
    <2>1. run' \in [Run -> RunType]
      BY <1>2, CallMoves, CallContinues DEF Look, CallPC
    <2> QED BY <1>2, <2>1 DEF Look, TypeOK
  <1>3. CASE Touch(r)
    <2>1. run' \in [Run -> RunType]
      BY <1>3, CallThrows, CallContinues DEF Touch, CallPC, CallWhy, Throw
    <2>2. disk' \in [Artifact -> File]
      <3>1. \A f \in File : [f EXCEPT !.exec = TRUE] \in File
        BY DEF File
      <3>2. run[r].at \in Artifact /\ disk \in [Artifact -> File]
        BY DEF TypeOK, RunType
      <3>3. repairs(run[r].at) \in [Artifact -> File]
        BY <3>1, <3>2 DEF repairs, File
      <3> QED BY <1>3, <3>2, <3>3 DEF Touch
    <2>3. spoiled' \subseteq Artifact
      BY <1>3 DEF Touch, TypeOK
    <2> QED BY <1>3, <2>1, <2>2, <2>3 DEF Touch, TypeOK
  <1>4. CASE \E body \in Bytes : Fetched(r, body)
    <2>1. PICK body \in Bytes : Fetched(r, body)
      BY <1>4
    <2>2. CASE accepted(body)
      <3>1. run' = [run EXCEPT ![r].pc = "opening", ![r].body = body]
        BY <2>1, <2>2 DEF Fetched
      <3>2. run' \in [Run -> RunType]
        <4>1. run \in [Run -> RunType]
          BY DEF TypeOK
        <4>2. [run[r] EXCEPT !.pc = "opening", !.body = body] \in RunType
          BY <4>1 DEF RunType
        <4>3. run' = [run EXCEPT ![r] = [run[r] EXCEPT !.pc = "opening", !.body = body]]
          BY <3>1, <4>1 DEF RunType
        <4> QED BY <4>1, <4>2, <4>3
      <3> QED BY <2>1, <3>2 DEF Fetched, TypeOK
    <2>3. CASE ~ accepted(body)
      BY <2>1, <2>3, CallThrows DEF Fetched, CallPC, CallWhy, Throw, TypeOK
    <2> QED BY <2>2, <2>3
  <1>5. CASE Open(r)
    <2>1. run' \in [Run -> RunType]
      BY <1>5, CallMoves, CallThrows DEF Open, CallPC, CallWhy
    <2>2. parts' \subseteq Part
      BY <1>5, PartsTyped DEF Open, TypeOK
    <2> QED BY <1>5, <2>1, <2>2 DEF Open, TypeOK
  <1>6. CASE WritePart(r)
    <2>1. run' \in [Run -> RunType]
      BY <1>6, CallMoves DEF WritePart, CallPC
    <2>2. parts' \subseteq Part
      BY <1>6, PartsTyped DEF WritePart, Rewrite, TypeOK
    <2> QED BY <1>6, <2>1, <2>2 DEF WritePart, TypeOK
  <1>7. CASE ChmodPart(r)
    <2>1. run' \in [Run -> RunType]
      BY <1>7, CallMoves DEF ChmodPart, CallPC
    <2>2. parts' \subseteq Part
      BY <1>7, PartsTyped DEF ChmodPart, Rewrite, TypeOK
    <2> QED BY <1>7, <2>1, <2>2 DEF ChmodPart, TypeOK
  <1>8. CASE Rename(r)
    <2>1. run' \in [Run -> RunType]
      BY <1>8, CallContinues DEF Rename
    <2>2. disk' \in [Artifact -> File]
      BY <1>8 DEF Rename, TypeOK, Part
    <2> QED BY <1>8, <2>1, <2>2 DEF Rename, TypeOK
  <1>9. CASE DiskFails(r)
    <2>1. run' \in [Run -> RunType]
      BY <1>9, CallThrows DEF DiskFails, CallPC, CallWhy
    <2> QED BY <1>9, <2>1 DEF DiskFails, TypeOK
  <1>10. CASE Unlink(r)
    <2>1. run' \in [Run -> RunType]
      BY <1>10, CallMoves DEF Unlink, CallPC
    <2> QED BY <1>10, <2>1 DEF Unlink, TypeOK
  <1>11. CASE Crash(r)
    <2>1. run' \in [Run -> RunType]
      BY <1>11, CallMoves DEF Crash, CallPC
    <2> QED BY <1>11, <2>1 DEF Crash, TypeOK
  <1> QED BY <1>1, <1>2, <1>3, <1>4, <1>5, <1>6, <1>7, <1>8, <1>9, <1>10, <1>11 DEF Step

LEMMA TypeStep == TypeOK /\ [Next]_vars => TypeOK'
  <1> SUFFICES ASSUME TypeOK, [Next]_vars PROVE TypeOK'
    OBVIOUS
  <1>1. CASE \E r \in Run : Step(r)
    BY <1>1, StepTyped
  <1>2. CASE \E a \in Pinned : Rot(a)
    <2>1. PICK a \in Pinned : Rot(a)
      BY <1>2
    <2>2. a \in Artifact
      BY DEF Pinned, Artifact
    <2>3. disk' \in [Artifact -> File]
      <3>1. \A f \in File : /\ \A b \in {"none", "other"} : [f EXCEPT !.bytes = b] \in File
                            /\ [f EXCEPT !.exec = FALSE] \in File
        BY DEF File, Bytes
      <3>2. \/ \E b \in {"none", "other"} : disk' = [disk EXCEPT ![a] = [disk[a] EXCEPT !.bytes = b]]
            \/ disk' = [disk EXCEPT ![a] = [disk[a] EXCEPT !.exec = FALSE]]
        BY <2>1 DEF Rot
      <3>3. disk \in [Artifact -> File] /\ disk[a] \in File
        BY <2>2 DEF TypeOK
      <3> QED BY <2>2, <3>1, <3>2, <3>3
    <2>4. boot' \in BootType
      BY <2>1 DEF Rot, TypeOK, BootType
    <2> QED BY <2>1, <2>2, <2>3, <2>4 DEF Rot, TypeOK
  <1>3. CASE Resolve
    <2>1. boot' \in BootType
      BY <1>3 DEF Resolve, Starts, TypeOK, BootType
    <2> QED BY <1>3, <2>1 DEF Resolve, TypeOK
  <1>4. CASE SpawnBinary
    <2>1. 1 \in Artifact
      BY DEF Artifact
    <2>2. boot' \in BootType
      BY <1>4, <2>1, ZenonT(60) DEF SpawnBinary, TypeOK, BootType
    <2> QED BY <1>4, <2>2 DEF SpawnBinary, TypeOK
  <1>5. CASE CountCircuits
    <2>1. boot' \in BootType
      BY <1>5, CountTyped DEF CountCircuits, Starts, TypeOK, BootType
    <2> QED BY <1>5, <2>1 DEF CountCircuits, TypeOK
  <1>6. CASE LoadCircuits
    <2>1. \E stray \in BOOLEAN, pc \in {"ready", "failed"} :
             boot' = [boot EXCEPT !.stray = stray, !.pc = pc]
      BY <1>6 DEF LoadCircuits
    <2>2. boot' \in BootType
      BY <2>1 DEF TypeOK, BootType
    <2> QED BY <1>6, <2>2 DEF LoadCircuits, TypeOK
  <1>7. CASE UNCHANGED vars
    BY <1>7 DEF vars, TypeOK
  <1> QED BY <1>1, <1>2, <1>3, <1>4, <1>5, <1>6, <1>7 DEF Next

---------------------------------------------------------------------------
(* Safety.                                                                 *)

\* As long as no file gets worse, what the starts rely on stands.
LEMMA StartsKept ==
    ASSUME StartStands, RunsOnlyPinned, ProvisionedMeansReady,
           UNCHANGED <<kind, machine, boot>>,
           \A a \in Artifact : intact(disk[a]) =>
               /\ intact(disk'[a])
               /\ disk[a].exec => disk'[a].exec
    PROVE  StartStands' /\ RunsOnlyPinned' /\ ProvisionedMeansReady'
  <1>1. 1 \in Artifact /\ Pinned \subseteq Artifact
    BY DEF Artifact, Pinned
  <1>2. Executable' = Executable /\ Pinned' = Pinned
    BY DEF Executable, Pinned
  <1>3. StartStands'
    BY <1>1, <1>2 DEF StartStands, intact
  <1>4. RunsOnlyPinned'
    BY DEF RunsOnlyPinned
  <1>5. ProvisionedMeansReady'
    BY <1>1, <1>2 DEF ProvisionedMeansReady, intact
  <1> QED BY <1>3, <1>4, <1>5

\* A call that does not reach a file leaves what others rely on as it is.
LEMMA QuietStep ==
    ASSUME IInv, NEW r \in Run,
           UNCHANGED <<kind, machine, disk, boot, spoiled>>,
           \A q \in Run \ {r} : run'[q] = run[q],
           run'[r].at = run[r].at, run'[r].pc # "returned"
    PROVE  OnlyPinnedInstalled' /\ PassedUsable' /\ StartStands' /\ RunsOnlyPinned'
           /\ ProvisionedMeansReady'
  <1>1. \A a \in Artifact : Usable(a)' <=> Usable(a)
    BY DEF Usable, Executable, intact
  <1>2. OnlyPinnedInstalled'
    BY DEF IInv, OnlyPinnedInstalled
  <1>3. PassedUsable'
    BY <1>1, PassedKept DEF IInv
  <1>4. StartStands' /\ RunsOnlyPinned' /\ ProvisionedMeansReady'
    BY StartsKept DEF IInv
  <1> QED BY <1>2, <1>3, <1>4

\* Touch: what is at the path by now gains its x-bit; if it is ours nothing is spoiled.
LEMMA TouchStep ==
    ASSUME IInv, NEW r \in Run, Touch(r)
    PROVE  IInv'
  <1> DEFINE a == run[r].at
  <1>1. a \in Artifact /\ disk \in [Artifact -> File] /\ disk[a] \in File
    BY DEF IInv, TypeOK, RunType
  <1>2. TypeOK'
    BY StepTyped DEF Step, IInv
  <1>3. CASE disk[a].bytes = "none"
    <2>1. Throw(r, "disk") /\ UNCHANGED <<kind, machine, disk, parts, boot, spoiled>>
      BY <1>3 DEF Touch
    <2>2. /\ run'[r].pc = "threw" /\ run'[r].at = run[r].at
          /\ \A q \in Run \ {r} : run'[q] = run[q]
      BY <2>1, CallThrows DEF Throw, CallPC, CallWhy, IInv
    <2>3. PartsWhole'
      BY <2>1, <2>2, OthersWhole DEF CallWhole, IInv
    <2> QED BY <1>2, <2>1, <2>2, <2>3, QuietStep DEF IInv
  <1>4. CASE disk[a].bytes # "none"
    <2>1. /\ disk' = [disk EXCEPT ![a].exec = TRUE] /\ Continue(r)
          /\ spoiled' = IF intact(disk[a]) THEN spoiled \ {a} ELSE spoiled
          /\ UNCHANGED <<kind, machine, parts, boot>>
      BY <1>4 DEF Touch, repairs
    <2>2. /\ \A b \in Artifact \ {a} : disk'[b] = disk[b]
          /\ disk'[a].bytes = disk[a].bytes /\ disk'[a].exec = TRUE
      BY <1>1, <2>1 DEF File
    <2>3. OnlyPinnedInstalled'
      BY <1>1, <2>1, <2>2 DEF IInv, OnlyPinnedInstalled, intact
    <2>4. \A b \in Artifact : Usable(b) => Usable(b)'
      BY <1>1, <2>1, <2>2 DEF Usable, intact, Executable
    <2>5. Usable(a) \/ intact(disk[a])
      BY <1>1, <1>4 DEF IInv, OnlyPinnedInstalled, Usable, intact
    <2>6. PICK at \in Artifact : at = a
      BY <1>1
    <2>7. Usable(at)'
      BY <1>1, <2>1, <2>2, <2>4, <2>5, <2>6 DEF Usable, intact, Executable
    <2>8. PassedUsable'
      BY <2>1, <2>4, <2>6, <2>7, PassedOn DEF IInv
    <2>9. /\ run'[r].pc \in {"returned", "looking"}
          /\ \A q \in Run \ {r} : run'[q] = run[q]
      BY <2>1, CallContinues DEF IInv
    <2>10. PartsWhole'
      BY <2>1, <2>9, OthersWhole DEF CallWhole, IInv
    <2>11. StartStands' /\ RunsOnlyPinned' /\ ProvisionedMeansReady'
      BY <2>1, <2>2, StartsKept DEF IInv, intact
    <2> QED BY <1>2, <2>3, <2>8, <2>10, <2>11 DEF IInv
  <1> QED BY <1>3, <1>4

\* Rename: the whole partial appears at the path in one step.
LEMMA RenameStep ==
    ASSUME IInv, NEW r \in Run, Rename(r)
    PROVE  IInv'
  <1> DEFINE a == run[r].at
  <1>1. a \in Artifact /\ disk \in [Artifact -> File] /\ run[r].pc = "renaming"
    BY DEF IInv, TypeOK, RunType, Rename
  <1>2. TypeOK'
    BY StepTyped DEF Step, IInv
  <1>3. PICK p \in parts : /\ Mine(r, p) /\ disk' = [disk EXCEPT ![a] = p.file]
                           /\ parts' = parts \ {p}
    BY DEF Rename
  <1>4. /\ spoiled' = spoiled \ {a} /\ Continue(r)
        /\ UNCHANGED <<kind, machine, boot>>
    BY DEF Rename
  <1>5. p.file.bytes = "pinned" /\ (Executable => p.file.exec)
    BY <1>1, <1>3 DEF IInv, PartsWhole, CallWhole
  <1>6. /\ disk'[a].bytes = "pinned" /\ (Executable => disk'[a].exec)
        /\ \A b \in Artifact \ {a} : disk'[b] = disk[b]
    BY <1>1, <1>3, <1>5
  <1>7. OnlyPinnedInstalled'
    BY <1>4, <1>6 DEF IInv, OnlyPinnedInstalled
  <1>8. \A b \in Artifact : Usable(b) => Usable(b)'
    BY <1>4, <1>6 DEF Usable, intact, Executable
  <1>9. PICK at \in Artifact : at = a
    BY <1>1
  <1>10. Usable(at)'
    BY <1>4, <1>6, <1>9 DEF Usable, intact, Executable
  <1>11. PassedUsable'
    BY <1>4, <1>8, <1>9, <1>10, PassedOn DEF IInv
  <1>12. /\ run'[r].pc \in {"returned", "looking"}
         /\ \A q \in Run \ {r} : run'[q] = run[q]
    BY <1>4, CallContinues DEF IInv
  <1>13. PartsWhole'
    BY <1>3, <1>4, <1>12, OthersWhole DEF CallWhole, IInv
  <1>14. CASE Executable
    <2>1. \A b \in Artifact : intact(disk[b]) =>
             intact(disk'[b]) /\ (disk[b].exec => disk'[b].exec)
      BY <1>6, <1>14 DEF intact
    <2> QED BY <1>2, <1>4, <1>7, <1>11, <1>13, <2>1, StartsKept DEF IInv
  <1>15. CASE ~ Executable
    <2>1. \A b \in Artifact : intact(disk[b]) => intact(disk'[b])
      BY <1>6 DEF intact
    <2>2. ~ Executable' /\ Pinned' = Pinned /\ Pinned \subseteq Artifact
      BY <1>4, <1>15 DEF Executable, Pinned
    <2>3. boot.pc \notin {"hashed", "spawned"}
      BY <1>15 DEF IInv, StartStands
    <2>4. StartStands'
      BY <1>4, <1>15, <2>1, <2>2, <2>3 DEF IInv, StartStands, intact
    <2>5. RunsOnlyPinned'
      BY <1>4, <2>3 DEF RunsOnlyPinned
    <2>6. ProvisionedMeansReady'
      BY <1>4, <2>1, <2>2 DEF IInv, ProvisionedMeansReady, intact
    <2> QED BY <1>2, <1>7, <1>11, <1>13, <2>4, <2>5, <2>6 DEF IInv
  <1> QED BY <1>14, <1>15

LEMMA CallStep ==
    ASSUME IInv, NEW r \in Run, Step(r)
    PROVE  IInv'
  <1>1. TypeOK /\ TypeOK' /\ PartsWhole /\ CallWhole(r)
    BY StepTyped DEF IInv, PartsWhole
  <1>2. CASE Begin(r)
    <2>1. /\ \A q \in Run \ {r} : run'[q] = run[q]
          /\ run'[r].at = run[r].at /\ run'[r].pc \in {"looking", "threw"}
      BY <1>1, <1>2, CallMoves, CallThrows DEF Begin, Throw, CallPC, CallWhy
    <2>2. PartsWhole'
      BY <1>1, <1>2, <2>1, OthersWhole DEF Begin, CallWhole
    <2> QED BY <1>1, <1>2, <2>1, <2>2, QuietStep DEF Begin, IInv
  <1>3. CASE Look(r)
    <2>1. CASE ToPC(r, "fetching") \/ ToPC(r, "touching")
      <3>1. /\ \A q \in Run \ {r} : run'[q] = run[q]
            /\ run'[r].at = run[r].at /\ run'[r].pc \in {"fetching", "touching"}
        BY <1>1, <2>1, CallMoves DEF CallPC
      <3>2. PartsWhole'
        BY <1>1, <1>3, <3>1, OthersWhole DEF Look, CallWhole
      <3> QED BY <1>1, <1>3, <3>1, <3>2, QuietStep DEF Look, IInv
    <2>2. CASE intact(disk[run[r].at]) /\ ~ Executable /\ Continue(r)
      <3>1. UNCHANGED <<kind, machine, disk, parts, boot, spoiled>>
        BY <1>3 DEF Look
      <3>2. /\ run'[r].pc \in {"returned", "looking"}
            /\ \A q \in Run \ {r} : run'[q] = run[q]
        BY <1>1, <2>2, CallContinues
      <3>3. PartsWhole'
        BY <1>1, <3>1, <3>2, OthersWhole DEF CallWhole
      <3>4. PICK at \in Artifact : at = run[r].at
        BY <1>1 DEF TypeOK, RunType
      <3>5. Usable(at)' /\ \A a \in Artifact : Usable(a) => Usable(a)'
        BY <2>2, <3>1, <3>4 DEF Usable, intact, Executable
      <3>6. PassedUsable'
        BY <1>1, <2>2, <3>1, <3>4, <3>5, PassedOn DEF IInv
      <3>7. StartStands' /\ RunsOnlyPinned' /\ ProvisionedMeansReady'
        BY <3>1, StartsKept DEF IInv
      <3>8. OnlyPinnedInstalled'
        BY <3>1 DEF IInv, OnlyPinnedInstalled
      <3> QED BY <1>1, <3>3, <3>6, <3>7, <3>8 DEF IInv
    <2> QED BY <1>3, <2>1, <2>2 DEF Look
  <1>4. CASE Touch(r)
    BY <1>4, TouchStep
  <1>5. CASE \E body \in Bytes : Fetched(r, body)
    <2>1. PICK body \in Bytes : Fetched(r, body)
      BY <1>5
    <2>2. /\ \A q \in Run \ {r} : run'[q] = run[q]
          /\ run'[r].at = run[r].at /\ run'[r].pc \in {"opening", "threw"}
          /\ run'[r].pc = "opening" => run'[r].body = "pinned"
      <3>1. CASE accepted(body)
        <4>1. run' = [run EXCEPT ![r].pc = "opening", ![r].body = body] /\ body = "pinned"
          BY <2>1, <3>1 DEF Fetched, accepted
        <4>2. \A c \in RunType : LET d == [c EXCEPT !.pc = "opening", !.body = body]
                                IN  d.pc = "opening" /\ d.at = c.at /\ d.body = body
          BY DEF RunType
        <4>3. run' = [run EXCEPT ![r] = [run[r] EXCEPT !.pc = "opening", !.body = body]]
          BY <1>1, <4>1 DEF TypeOK, RunType
        <4> QED BY <1>1, <4>1, <4>2, <4>3 DEF TypeOK
      <3>2. CASE ~ accepted(body)
        BY <1>1, <2>1, <3>2, CallThrows DEF Fetched, Throw, CallPC, CallWhy
      <3> QED BY <3>1, <3>2
    <2>3. PartsWhole'
      BY <1>1, <2>1, <2>2, OthersWhole DEF Fetched, CallWhole
    <2> QED BY <1>1, <2>1, <2>2, <2>3, QuietStep DEF Fetched, IInv
  <1>6. CASE Open(r)
    <2>1. /\ \A q \in Run \ {r} : run'[q] = run[q]
          /\ run'[r].at = run[r].at /\ run'[r].pc \in {"unlinking", "writing"}
          /\ run'[r].body = run[r].body
      BY <1>1, <1>6, CallMoves, CallThrows DEF Open, CallPC, CallWhy
    <2>2. \A p \in parts' : p \in parts \/ p.name = r
      BY <1>6 DEF Open, partName
    <2>3. PartsWhole'
      BY <1>1, <1>6, <2>1, <2>2, OthersWhole DEF Open, CallWhole
    <2> QED BY <1>1, <1>6, <2>1, <2>3, QuietStep DEF Open, IInv
  <1>7. CASE WritePart(r)
    <2>1. /\ \A q \in Run \ {r} : run'[q] = run[q]
          /\ run'[r].at = run[r].at
          /\ run'[r].pc = IF Executable THEN "moding" ELSE "renaming"
          /\ run'[r].body = run[r].body /\ run[r].body = "pinned"
      BY <1>1, <1>7, CallMoves DEF WritePart, CallPC, CallWhole
    <2>2. ASSUME NEW p \in parts
          PROVE  LET w == [p EXCEPT !.file = [p.file EXCEPT !.bytes = run[r].body]]
                 IN  w.of = p.of /\ w.name = p.name /\ w.file.bytes = "pinned"
      <3>1. p \in Part /\ p.file \in File
        BY <1>1 DEF TypeOK, Part
      <3>2. [p.file EXCEPT !.bytes = run[r].body].bytes = "pinned"
        BY <2>1, <3>1 DEF File
      <3> QED BY <3>1, <3>2 DEF Part
    <2>3. \A p \in parts' : /\ p \in parts \/ Mine(r, p)
                            /\ Mine(r, p) => p.file.bytes = "pinned"
      <3> SUFFICES ASSUME NEW p \in parts'
                   PROVE  /\ p \in parts \/ Mine(r, p)
                          /\ Mine(r, p) => p.file.bytes = "pinned"
        OBVIOUS
      <3>1. PICK q \in parts :
               p = IF Mine(r, q) THEN [q EXCEPT !.file = [q.file EXCEPT !.bytes = run[r].body]]
                   ELSE q
        BY <1>7, Zenon DEF WritePart, Rewrite
      <3>2. CASE Mine(r, q)
        BY <2>2, <3>1, <3>2 DEF Mine
      <3>3. CASE ~ Mine(r, q)
        BY <3>1, <3>3
      <3> QED BY <3>2, <3>3
    <2>4. PartsWhole'
      BY <1>1, <1>7, <2>1, <2>3, OthersWhole DEF WritePart, CallWhole, Mine, partName, Executable
    <2> QED BY <1>1, <1>7, <2>1, <2>4, QuietStep DEF WritePart, IInv
  <1>8. CASE ChmodPart(r)
    <2>1. /\ \A q \in Run \ {r} : run'[q] = run[q]
          /\ run'[r].at = run[r].at /\ run'[r].pc = "renaming" /\ run'[r].body = run[r].body
      BY <1>1, <1>8, CallMoves DEF ChmodPart, CallPC
    <2>2. \A p \in parts : LET w == [p EXCEPT !.file = chmodPart(p.file)]
                           IN  /\ w.of = p.of /\ w.name = p.name
                               /\ w.file.bytes = p.file.bytes /\ w.file.exec
      BY <1>1 DEF TypeOK, Part, File, chmodPart
    <2>3. \A p \in parts' : p \in parts \/ Mine(r, p)
      BY <1>8, <2>2 DEF ChmodPart, Rewrite, Mine
    <2>4. \A p \in parts' : Mine(r, p) => p.file.bytes = "pinned" /\ p.file.exec
      BY <1>1, <1>8, <2>2 DEF ChmodPart, Rewrite, Mine, CallWhole
    <2>5. PartsWhole'
      BY <1>1, <1>8, <2>1, <2>3, <2>4, OthersWhole DEF ChmodPart, CallWhole, Mine, partName
    <2> QED BY <1>1, <1>8, <2>1, <2>5, QuietStep DEF ChmodPart, IInv
  <1>9. CASE Rename(r)
    BY <1>9, RenameStep
  <1>10. CASE DiskFails(r)
    <2>1. /\ \A q \in Run \ {r} : run'[q] = run[q]
          /\ run'[r].at = run[r].at /\ run'[r].pc = "unlinking"
      BY <1>1, <1>10, CallThrows DEF DiskFails, CallPC, CallWhy
    <2>2. PartsWhole'
      BY <1>1, <1>10, <2>1, OthersWhole DEF DiskFails, CallWhole
    <2> QED BY <1>1, <1>10, <2>1, <2>2, QuietStep DEF DiskFails, IInv
  <1>11. CASE Unlink(r)
    <2>1. /\ \A q \in Run \ {r} : run'[q] = run[q]
          /\ run'[r].at = run[r].at /\ run'[r].pc = "threw"
      BY <1>1, <1>11, CallMoves DEF Unlink, CallPC
    <2>2. PartsWhole'
      BY <1>1, <1>11, <2>1, OthersWhole DEF Unlink, CallWhole
    <2> QED BY <1>1, <1>11, <2>1, <2>2, QuietStep DEF Unlink, IInv
  <1>12. CASE Crash(r)
    <2>1. /\ \A q \in Run \ {r} : run'[q] = run[q]
          /\ run'[r].at = run[r].at /\ run'[r].pc = "crashed"
      BY <1>1, <1>12, CallMoves DEF Crash, CallPC
    <2>2. PartsWhole'
      BY <1>1, <1>12, <2>1, OthersWhole DEF Crash, CallWhole
    <2> QED BY <1>1, <1>12, <2>1, <2>2, QuietStep DEF Crash, IInv
  <1> QED BY <1>2, <1>3, <1>4, <1>5, <1>6, <1>7, <1>8, <1>9, <1>10, <1>11, <1>12 DEF Step

\* A file that changes from outside is on record as spoiled, for the start too.
LEMMA RotStep ==
    ASSUME IInv, NEW a \in Pinned, Rot(a)
    PROVE  IInv'
  <1>1. TypeOK'
    <2>1. \E b \in Pinned : Rot(b)
      OBVIOUS
    <2> QED BY <2>1, TypeStep DEF IInv, Next
  <1>2. a \in Artifact /\ disk \in [Artifact -> File] /\ boot \in BootType
    BY DEF Pinned, Artifact, IInv, TypeOK
  <1>3. /\ spoiled' = spoiled \cup {a} /\ boot' = [boot EXCEPT !.spoiled = TRUE]
        /\ UNCHANGED <<kind, machine, parts, run>>
    BY DEF Rot
  <1>4. \A b \in Artifact \ {a} : disk'[b] = disk[b]
    BY <1>2 DEF Rot
  <1>5. boot'.spoiled /\ boot'.pc = boot.pc
    BY <1>2, <1>3 DEF BootType
  <1>6. OnlyPinnedInstalled'
    BY <1>3, <1>4 DEF IInv, OnlyPinnedInstalled
  <1>7. PartsWhole'
    BY <1>3 DEF IInv, PartsWhole, CallWhole, Mine, partName, Executable
  <1>8. \A b \in Artifact : Usable(b) => Usable(b)'
    BY <1>3, <1>4 DEF Usable, intact, Executable
  <1>9. PassedUsable'
    <2>1. Executable' = Executable /\ Pinned' = Pinned /\ Pinned \subseteq Artifact
      BY <1>3 DEF Executable, Pinned, Artifact
    <2> QED BY <1>3, <1>8, <2>1 DEF IInv, PassedUsable, CallPassed
  <1>10. StartStands'
    BY <1>3, <1>5 DEF IInv, StartStands, Executable
  <1>11. RunsOnlyPinned' /\ ProvisionedMeansReady'
    BY <1>3, <1>5 DEF IInv, RunsOnlyPinned, ProvisionedMeansReady
  <1> QED BY <1>1, <1>6, <1>7, <1>9, <1>10, <1>11 DEF IInv

\* The steps of a start change nothing but the start.
LEMMA BootStep ==
    ASSUME IInv, Resolve \/ SpawnBinary \/ CountCircuits \/ LoadCircuits
    PROVE  IInv'
  <1>1. TypeOK'
    BY TypeStep DEF IInv, Next
  <1>2. UNCHANGED <<kind, machine, disk, parts, run, spoiled>>
    BY DEF Resolve, SpawnBinary, CountCircuits, LoadCircuits
  <1>3. OnlyPinnedInstalled' /\ PartsWhole' /\ PassedUsable'
    BY <1>2 DEF IInv, OnlyPinnedInstalled, PartsWhole, CallWhole, Mine, partName, Executable,
                PassedUsable, CallPassed, Usable, Pinned, intact
  <1>4. Executable' = Executable /\ Pinned' = Pinned
    BY <1>2 DEF Executable, Pinned
  <1>5. boot \in BootType /\ machine \in {"glibc", "musl", "unknown", "other"}
    BY DEF IInv, TypeOK
  <1>6. 1 \in Artifact
    BY DEF Artifact
  <1> DEFINE after == spoiled = {} /\ \E r \in Run : run[r].pc = "returned"
  <1>7. after => \A a \in Pinned : intact(disk[a]) /\ (Executable => disk[a].exec)
    BY DEF IInv, PassedUsable, CallPassed, Usable
  <1>8. CASE Resolve
    <2> DEFINE to == IF entryFor("here") /\ resolved(disk[1]) THEN "hashed" ELSE "failed"
    <2>1. boot' = [boot EXCEPT !.pc = to, !.expected = 0, !.spoiled = FALSE, !.after = after]
      BY <1>8 DEF Resolve, Starts
    <2>2. boot'.pc = to /\ boot'.after = after /\ Executable
      BY <1>5, <1>8, <2>1 DEF BootType, Resolve
    <2>3. boot'.pc = "hashed" => /\ machine \in {"glibc", "unknown"}
                                 /\ disk[1].bytes = "pinned" /\ disk[1].exec
      BY <1>5, <2>2 DEF entryFor, prebuilt, isMuslLinux, resolved, intact
    <2>4. boot'.after /\ boot'.pc = "failed" => machine # "glibc"
      BY <1>5, <1>7, <2>2 DEF entryFor, prebuilt, isMuslLinux, resolved, Pinned
    <2>5. StartStands'
      BY <1>2, <1>4, <2>2, <2>3 DEF IInv, StartStands, intact
    <2>6. RunsOnlyPinned'
      BY <2>2 DEF RunsOnlyPinned
    <2>7. ProvisionedMeansReady'
      BY <1>2, <2>2, <2>4 DEF ProvisionedMeansReady
    <2> QED BY <1>1, <1>3, <2>5, <2>6, <2>7 DEF IInv
  <1>9. CASE SpawnBinary
    <2>1. PICK links \in IF machine = "glibc" THEN {TRUE} ELSE BOOLEAN :
             boot' = [boot EXCEPT !.pc = IF disk[1].bytes # "none" /\ disk[1].exec /\ links
                                        THEN "spawned" ELSE "failed",
                                  !.file = disk[1]]
      BY <1>9 DEF SpawnBinary
    <2>2. /\ boot'.pc = IF disk[1].bytes # "none" /\ disk[1].exec /\ links
                        THEN "spawned" ELSE "failed"
          /\ boot'.file = disk[1] /\ boot'.after = boot.after /\ boot'.spoiled = boot.spoiled
      BY <1>5, <2>1 DEF BootType
    <2>3. boot.pc = "hashed" /\ Executable /\ machine \in {"glibc", "unknown"}
      BY <1>9 DEF SpawnBinary, IInv, StartStands
    <2>4. ~ boot.spoiled => disk[1].bytes = "pinned" /\ disk[1].exec
      BY <2>3 DEF IInv, StartStands, intact
    <2>5. disk[1] = [bytes |-> disk[1].bytes, exec |-> disk[1].exec]
          /\ disk[1].exec \in BOOLEAN
      BY <1>6 DEF IInv, TypeOK, File
    <2>6. StartStands'
      BY <1>2, <1>4, <2>2, <2>3 DEF StartStands
    <2>7. RunsOnlyPinned'
      BY <1>2, <2>2, <2>3, <2>4, <2>5 DEF RunsOnlyPinned
    <2>8. ProvisionedMeansReady'
      <3>1. machine = "glibc" => links
        BY <2>1
      <3>2. ~ boot.spoiled /\ boot'.pc = "failed" => machine # "glibc"
        BY <2>2, <2>4, <3>1
      <3>3. boot'.pc \in {"spawned", "failed"}
        BY <2>2
      <3> QED BY <1>2, <2>2, <3>2, <3>3 DEF ProvisionedMeansReady
    <2> QED BY <1>1, <1>3, <2>6, <2>7, <2>8 DEF IInv
  <1>10. CASE CountCircuits
    <2> DEFINE to == IF counted = 0 THEN "failed" ELSE "loading"
    <2>1. boot' = [boot EXCEPT !.pc = to, !.expected = counted, !.spoiled = FALSE,
                               !.after = after]
      BY <1>10 DEF CountCircuits, Starts
    <2>2. /\ boot'.pc = to /\ boot'.after = after /\ boot'.expected = counted
          /\ ~ Executable
      BY <1>5, <1>10, <2>1 DEF BootType, CountCircuits
    <2>3. after => /\ \A a \in Artifact : intact(disk[a])
                   /\ counted = Cardinality(Artifact) /\ counted # 0
      <3>1. after => \A a \in Artifact : intact(disk[a])
        BY <1>7, <2>2 DEF Pinned
      <3>2. after => present = Artifact
        BY <3>1 DEF present, intact
      <3> QED BY <3>1, <3>2, CountTyped DEF counted
    <2>4. StartStands'
      BY <1>2, <1>4, <2>2, <2>3 DEF IInv, StartStands, intact
    <2>5. RunsOnlyPinned'
      BY <2>2 DEF RunsOnlyPinned
    <2>6. ProvisionedMeansReady'
      BY <2>2, <2>3 DEF ProvisionedMeansReady
    <2> QED BY <1>1, <1>3, <2>4, <2>5, <2>6 DEF IInv
  <1>11. CASE LoadCircuits
    <2>1. PICK named \in {FALSE, parts # {}}, pc \in {"ready", "failed"} :
             /\ boot' = [boot EXCEPT !.stray = parts # {}, !.pc = pc]
             /\ pc = "failed" => \/ named \/ loads # present
                                 \/ ~ (Cardinality(loads) >= boot.expected)
      BY <1>11 DEF LoadCircuits
    <2>2. /\ boot'.stray = (parts # {}) /\ boot'.pc = pc
          /\ boot'.after = boot.after /\ boot'.spoiled = boot.spoiled
      BY <1>5, <2>1 DEF BootType
    <2>3. boot.after /\ ~ boot.spoiled => /\ boot.expected = Cardinality(Artifact)
                                          /\ \A a \in Artifact : intact(disk[a])
      BY <1>11 DEF LoadCircuits, IInv, StartStands
    <2>4. boot.after /\ ~ boot.spoiled => present = Artifact /\ loads = Artifact
      BY <2>3 DEF present, loads, intact
    <2>5. boot.after /\ ~ boot.spoiled /\ boot'.pc = "failed" => boot'.stray
      <3>1. parts = {} => named = FALSE
        BY <2>1
      <3>2. ~ (parts = {}) => boot'.stray
        BY <2>2
      <3>3. boot.after /\ ~ boot.spoiled => Cardinality(loads) >= boot.expected
        BY <2>3, <2>4, CountTyped
      <3> QED BY <2>1, <2>2, <2>4, <3>1, <3>2, <3>3
    <2>6. StartStands'
      BY <1>2, <1>4, <2>2 DEF IInv, StartStands
    <2>7. RunsOnlyPinned'
      BY <2>2 DEF RunsOnlyPinned
    <2>8. ProvisionedMeansReady'
      <3>1. Pinned \subseteq Artifact
        BY DEF Pinned, Artifact
      <3>2. boot.after /\ ~ boot.spoiled => \A a \in Pinned' : intact(disk[a])'
        BY <1>2, <1>4, <2>3, <3>1 DEF intact
      <3>3. boot'.after = boot.after /\ boot'.spoiled = boot.spoiled
        BY <2>2
      <3> QED BY <2>5, <3>2, <3>3 DEF ProvisionedMeansReady
    <2> QED BY <1>1, <1>3, <2>6, <2>7, <2>8 DEF IInv
  <1> QED BY <1>8, <1>9, <1>10, <1>11

LEMMA IInvInit == Init => IInv
  <1> SUFFICES ASSUME Init PROVE IInv
    OBVIOUS
  <1>1. TypeOK
    BY TypeInit
  <1>2. OnlyPinnedInstalled
    <2>1. spoiled = {a \in Artifact : disk[a].bytes = "other"}
      BY DEF Init
    <2>2. \A a \in Artifact : disk[a].bytes \in {"none", "other", "pinned"}
      <3>1. PICK before \in [Pinned -> Before] :
               disk = [a \in Artifact |-> [bytes |-> IF a \in Pinned THEN before[a] ELSE "none",
                                           exec |-> Executable]]
        BY DEF Init
      <3>2. \A a \in Pinned : before[a] \in Before
        OBVIOUS
      <3> QED BY <3>1, <3>2
    <2> QED BY <2>1, <2>2 DEF OnlyPinnedInstalled
  <1>3. \A r \in Run : run[r].pc = "idle" /\ run[r].at = 1
    BY DEF Init
  <1>4. PartsWhole
    BY <1>3 DEF PartsWhole, CallWhole
  <1>5. PassedUsable
    BY <1>3 DEF PassedUsable, CallPassed, Artifact
  <1>6. boot.pc = "off" /\ ~ boot.after /\ machine \in IF Executable THEN Machines ELSE {"glibc"}
    BY DEF Init
  <1>7. StartStands /\ RunsOnlyPinned /\ ProvisionedMeansReady
    BY <1>6 DEF StartStands, RunsOnlyPinned, ProvisionedMeansReady
  <1> QED BY <1>1, <1>2, <1>4, <1>5, <1>7 DEF IInv

LEMMA IInvStep == IInv /\ [Next]_vars => IInv'
  <1> SUFFICES ASSUME IInv, [Next]_vars PROVE IInv'
    OBVIOUS
  <1>1. CASE \E r \in Run : Step(r)
    BY <1>1, CallStep
  <1>2. CASE \E a \in Pinned : Rot(a)
    BY <1>2, RotStep
  <1>3. CASE Resolve \/ SpawnBinary \/ CountCircuits \/ LoadCircuits
    BY <1>3, BootStep
  <1>4. CASE UNCHANGED vars
    <2>1. UNCHANGED <<kind, machine, disk, parts, run, boot, spoiled, rots>>
      BY <1>4 DEF vars
    <2> QED BY <2>1 DEF IInv, TypeOK, OnlyPinnedInstalled, PartsWhole, CallWhole, Mine, partName,
              Executable, PassedUsable, CallPassed, Usable, Pinned, intact, StartStands,
              RunsOnlyPinned, ProvisionedMeansReady
  <1> QED BY <1>1, <1>2, <1>3, <1>4 DEF Next

---------------------------------------------------------------------------
(* Theorems.                                                               *)

LEMMA Invariance == Spec => []IInv
  BY IInvInit, IInvStep, PTL DEF Spec

\* Everything keeps its type: a call is at one artifact of the manifest, a partial is
\* some call's and some artifact's, a start expects a number of circuits.
THEOREM TypeCorrect == Spec => []TypeOK
  <1>1. IInv => TypeOK
    BY DEF IInv
  <1> QED BY <1>1, Invariance, PTL

\* A file at its real path that is not what we pinned is never our doing: not by a lying
\* host, a crash in mid-write or any number of calls at once (pinned.js).
THEOREM OnlyPinnedBytesInstalled == Spec => []OnlyPinnedInstalled
  <1>1. IInv => OnlyPinnedInstalled
    BY DEF IInv
  <1> QED BY <1>1, Invariance, PTL

\* When any of the calls has returned, every pinned file is there, intact and executable
\* if it must be, unless it changed from outside since.
THEOREM ReturnedCallsLeaveUsableFiles == Spec => []ReturnedMeansUsable
  <1>1. IInv => ReturnedMeansUsable
    BY DEF IInv, PassedUsable, CallPassed, Usable, ReturnedMeansUsable
  <1> QED BY <1>1, Invariance, PTL

\* Between hashing the binary and executing it the calls in flight may replace the file,
\* but only by what was hashed; and a machine known not to run it never gets that far.
THEOREM OnlyPinnedBinaryRuns == Spec => []RunsOnlyPinned
  <1>1. IInv => RunsOnlyPinned
    BY DEF IInv
  <1> QED BY <1>1, Invariance, PTL

\* A start begun after a call returned, with nothing changed from outside, is ready with the
\* whole manifest and never with less, while any number of other calls run; it fails only if
\* a partial lies in the directory or the machine is not known to be glibc.
THEOREM ProvisionedStartsAreWhole == Spec => []ProvisionedMeansReady
  <1>1. IInv => ProvisionedMeansReady
    BY DEF IInv
  <1> QED BY <1>1, Invariance, PTL
=============================================================================
