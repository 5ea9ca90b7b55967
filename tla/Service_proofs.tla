--------------------------- MODULE Service_proofs ---------------------------
(***************************************************************************)
(* What supervision guarantees for any number of services, any directory   *)
(* and bundle, any script and any death of the child, any timing and any   *)
(* interleaving of its log with what the supervisor does.                  *)
(***************************************************************************)
EXTENDS Service, FiniteSetTheorems, TLAPS

USE ServiceAssumption

SupPC == {"new", "spawning", "loop", "alive", "stopping", "up", "failed"}
SupWhy == {"", "spawn", "empty", "exited", "corrupt", "timeout",
           "vical", "truncated", "noAnchors", "policy", "signal"}
Exit == {"no", "exit", "error"}

\* A call of stop() that has come back.
Over == {"done", "threw"}

\* "started" is the last line of q, and occurs nowhere else in it.
EndsStarted(q) == \A i \in 1..Len(q) : q[i] = "started" <=> i = Len(q)

\* A loading child has something left to write, of which "started" is the last.
LoadsToTheEnd(s) ==
    kid[s].proc = "loading" => kid[s].todo # <<>> /\ EndsStarted(kid[s].todo)

\* Before the first start nothing was noted; that the first child exited is never
\* wrong; a later start begins with something noted already, and neither start() nor
\* stop() gives up on a child before something is.
ExitKnown(s) ==
    /\ sup[s].starts = 0 => sup[s].pc = "new" /\ sup[s].exit = "no" /\ kid[s].proc = "none"
    /\ sup[s].starts = 1 /\ sup[s].exit = "exit" => ~ Running(s)
    /\ sup[s].starts > 1 => sup[s].exit # "no"
    /\ \A c \in Caller : stop[s][c] \in Over => sup[s].exit # "no"
    /\ sup[s].pc = "failed" => sup[s].exit # "no"

Sound(s) == LoadsToTheEnd(s) /\ ExitKnown(s)

Safe == TypeOK /\ \A s \in Service : Sound(s)

---------------------------------------------------------------------------
(* The changes the handlers make to the fields of a service.               *)

\* w has read the same log of the same child as v.
SameLog(v, w) ==
    /\ w.starts = v.starts /\ w.started = v.started /\ w.circuits = v.circuits
    /\ w.expected = v.expected /\ w.skipped = v.skipped /\ w.anchors = v.anchors
    /\ w.anchorsExpected = v.anchorsExpected /\ w.vical = v.vical /\ w.vicalUrl = v.vicalUrl

Becomes(v, w, pc, why, exit, ready) ==
    /\ w \in SupType /\ SameLog(v, w)
    /\ w.pc = pc /\ w.why = why /\ w.exit = exit /\ w.ready = ready

\* The steps of start().
LEMMA Moved ==
    ASSUME NEW v \in SupType,
           NEW pc \in SupPC, NEW why \in SupWhy
    PROVE  /\ Becomes(v, [v EXCEPT !.pc = pc], pc, v.why, v.exit, v.ready)
           /\ Becomes(v, [v EXCEPT !.pc = pc, !.why = why], pc, why, v.exit, v.ready)
           /\ Becomes(v, [v EXCEPT !.pc = pc, !.why = why, !.ready = FALSE, !.healthy = FALSE], pc, why, v.exit, FALSE)
           /\ Becomes(v, [v EXCEPT !.pc = pc, !.ready = TRUE, !.healthy = FALSE, !.why = why], pc, why, v.exit, TRUE)
  <1>1. Becomes(v, [v EXCEPT !.pc = pc], pc, v.why, v.exit, v.ready)
    <2> DEFINE w == [v EXCEPT !.pc = pc]
    <2>1. w \in SupType
      BY DEF SupType, SupPC, SupWhy
    <2>2. SameLog(v, w)
      BY DEF SupType, SameLog
    <2>3. w.pc = pc /\ w.why = v.why /\ w.exit = v.exit /\ w.ready = v.ready
      BY DEF SupType
    <2> QED BY <2>1, <2>2, <2>3 DEF Becomes
  <1>2. Becomes(v, [v EXCEPT !.pc = pc, !.why = why], pc, why, v.exit, v.ready)
    <2> DEFINE w == [v EXCEPT !.pc = pc, !.why = why]
    <2>1. w \in SupType
      BY DEF SupType, SupPC, SupWhy
    <2>2. SameLog(v, w)
      BY DEF SupType, SameLog
    <2>3. w.pc = pc /\ w.why = why /\ w.exit = v.exit /\ w.ready = v.ready
      BY DEF SupType
    <2> QED BY <2>1, <2>2, <2>3 DEF Becomes
  <1>4. Becomes(v, [v EXCEPT !.pc = pc, !.why = why, !.ready = FALSE, !.healthy = FALSE], pc, why, v.exit, FALSE)
    <2> DEFINE w == [v EXCEPT !.pc = pc, !.why = why, !.ready = FALSE, !.healthy = FALSE]
    <2>1. w \in SupType
      BY DEF SupType, SupPC, SupWhy
    <2>2. SameLog(v, w)
      BY DEF SupType, SameLog
    <2>3. w.pc = pc /\ w.why = why /\ w.exit = v.exit /\ w.ready = FALSE
      BY DEF SupType
    <2> QED BY <2>1, <2>2, <2>3 DEF Becomes
  <1>5. Becomes(v, [v EXCEPT !.pc = pc, !.ready = TRUE, !.healthy = FALSE, !.why = why], pc, why, v.exit, TRUE)
    <2> DEFINE w == [v EXCEPT !.pc = pc, !.ready = TRUE, !.healthy = FALSE, !.why = why]
    <2>1. w \in SupType
      BY DEF SupType, SupPC, SupWhy
    <2>2. SameLog(v, w)
      BY DEF SupType, SameLog
    <2>3. w.pc = pc /\ w.why = why /\ w.exit = v.exit /\ w.ready = TRUE
      BY DEF SupType
    <2> QED BY <2>1, <2>2, <2>3 DEF Becomes
  <1> QED BY <1>1, <1>2, <1>4, <1>5

\* Events that move no call.
LEMMA Noted ==
    ASSUME NEW v \in SupType
    PROVE  /\ Becomes(v, [v EXCEPT !.exit = "exit", !.ready = FALSE], v.pc, v.why, "exit", FALSE)
           /\ Becomes(v, [v EXCEPT !.ready = FALSE], v.pc, v.why, v.exit, FALSE)
           /\ Becomes(v, [v EXCEPT !.late = TRUE], v.pc, v.why, v.exit, v.ready)
           /\ Becomes(v, [v EXCEPT !.healthy = TRUE], v.pc, v.why, v.exit, v.ready)
  <1>1. Becomes(v, [v EXCEPT !.exit = "exit", !.ready = FALSE], v.pc, v.why, "exit", FALSE)
    <2> DEFINE w == [v EXCEPT !.exit = "exit", !.ready = FALSE]
    <2>1. w \in SupType
      BY DEF SupType, SupPC, SupWhy
    <2>2. SameLog(v, w)
      BY DEF SupType, SameLog
    <2>3. w.pc = v.pc /\ w.why = v.why /\ w.exit = "exit" /\ w.ready = FALSE
      BY DEF SupType
    <2> QED BY <2>1, <2>2, <2>3 DEF Becomes
  <1>2. Becomes(v, [v EXCEPT !.ready = FALSE], v.pc, v.why, v.exit, FALSE)
    <2> DEFINE w == [v EXCEPT !.ready = FALSE]
    <2>1. w \in SupType
      BY DEF SupType, SupPC, SupWhy
    <2>2. SameLog(v, w)
      BY DEF SupType, SameLog
    <2>3. w.pc = v.pc /\ w.why = v.why /\ w.exit = v.exit /\ w.ready = FALSE
      BY DEF SupType
    <2> QED BY <2>1, <2>2, <2>3 DEF Becomes
  <1>3. Becomes(v, [v EXCEPT !.late = TRUE], v.pc, v.why, v.exit, v.ready)
    <2> DEFINE w == [v EXCEPT !.late = TRUE]
    <2>1. w \in SupType
      BY DEF SupType, SupPC, SupWhy
    <2>2. SameLog(v, w)
      BY DEF SupType, SameLog
    <2>3. w.pc = v.pc /\ w.why = v.why /\ w.exit = v.exit /\ w.ready = v.ready
      BY DEF SupType
    <2> QED BY <2>1, <2>2, <2>3 DEF Becomes
  <1>4. Becomes(v, [v EXCEPT !.healthy = TRUE], v.pc, v.why, v.exit, v.ready)
    <2> DEFINE w == [v EXCEPT !.healthy = TRUE]
    <2>1. w \in SupType
      BY DEF SupType, SupPC, SupWhy
    <2>2. SameLog(v, w)
      BY DEF SupType, SameLog
    <2>3. w.pc = v.pc /\ w.why = v.why /\ w.exit = v.exit /\ w.ready = v.ready
      BY DEF SupType
    <2> QED BY <2>1, <2>2, <2>3 DEF Becomes
  <1> QED BY <1>1, <1>2, <1>3, <1>4

\* What an 'error' event makes of the fields: a waiting spawn fails, what was noted of
\* an exit stays.
ErrPC(pc) == IF pc = "spawning" THEN "failed" ELSE pc
ErrWhy(pc, why) == IF pc = "spawning" THEN "spawn" ELSE why
ErrExit(exit) == IF exit = "no" THEN "error" ELSE exit

LEMMA Errored ==
    ASSUME NEW u, NEW v \in SupType, NEW pc, NEW why, NEW exit, NEW ready,
           Becomes(u, v, pc, why, exit, ready)
    PROVE  Becomes(u, errored(v), ErrPC(pc), ErrWhy(pc, why), ErrExit(exit), FALSE)
  <1>1. v.pc = pc /\ v.why = why /\ v.exit = exit /\ SameLog(u, v)
    BY DEF Becomes
  <1>2. v.exit \in Exit /\ v.pc \in SupPC
    BY DEF SupType, Exit, SupPC
  <1> DEFINE n == [v EXCEPT !.ready = FALSE, !.exit = ErrExit(exit)]
  <1>3. n = noted(v)
    BY <1>1 DEF noted, ErrExit, SupType
  <1>4. ErrExit(exit) \in Exit
    BY <1>1, <1>2 DEF ErrExit, Exit
  <1>5. n \in SupType
    BY <1>4 DEF SupType, Exit
  <1>6. /\ SameLog(u, n) /\ n.pc = pc /\ n.why = why /\ n.exit = ErrExit(exit) /\ n.ready = FALSE
    BY <1>1 DEF SupType, SameLog
  <1> HIDE DEF n
  <1>7. CASE pc = "spawning"
    <2> DEFINE w == [n EXCEPT !.pc = "failed", !.why = "spawn"]
    <2>1. "failed" \in SupPC /\ "spawn" \in SupWhy
      BY DEF SupPC, SupWhy
    <2>2. Becomes(n, w, "failed", "spawn", n.exit, n.ready)
      BY <1>5, <2>1, Moved
    <2>3. w = errored(v)
      BY <1>1, <1>3, <1>7 DEF errored
    <2> HIDE DEF w
    <2> QED BY <1>6, <1>7, <2>2, <2>3 DEF Becomes, SameLog, ErrPC, ErrWhy
  <1>8. CASE pc # "spawning"
    <2>1. errored(v) = n
      BY <1>1, <1>3, <1>8 DEF errored
    <2> QED BY <1>5, <1>6, <1>8, <2>1 DEF Becomes, ErrPC, ErrWhy
  <1> QED BY <1>7, <1>8

\* #absorb counts one line, and changes nothing else.
Absorbs(v, w, l) ==
    /\ w \in SupType
    /\ w.starts = v.starts /\ w.expected = v.expected
    /\ w.anchorsExpected = v.anchorsExpected /\ w.vicalUrl = v.vicalUrl
    /\ w.pc = v.pc /\ w.why = v.why /\ w.exit = v.exit /\ w.ready = v.ready
    /\ w.started <=> v.started \/ l = "started"
    /\ w.circuits = v.circuits + (IF l = "read" THEN 1 ELSE 0)
    /\ w.skipped = v.skipped + (IF l = "skip" THEN 1 ELSE 0)
    /\ w.anchors = v.anchors + (IF l = "ca" THEN 1 ELSE 0)
    /\ w.vical = v.vical + (IF l = "vical" THEN 1 ELSE 0)

LEMMA Absorbing ==
    ASSUME NEW v \in SupType, NEW l \in Line
    PROVE  Absorbs(v, absorbed(v, l), l)
  <1>1. /\ v.circuits \in Nat /\ v.skipped \in Nat /\ v.anchors \in Nat /\ v.vical \in Nat
        /\ v.started \in BOOLEAN
    BY DEF SupType
  <1>2. CASE l = "read"
    <2> DEFINE w == [v EXCEPT !.circuits = v.circuits + 1]
    <2>1. absorbed(v, l) = w
      BY <1>2, Zenon DEF absorbed
    <2>2. \A n \in Nat : [v EXCEPT !.circuits = n] \in SupType
      BY DEF SupType
    <2>3. w \in SupType
      BY <1>1, <2>2
    <2>4. /\ w.circuits = v.circuits + 1
          /\ w.starts = v.starts /\ w.expected = v.expected /\ w.anchorsExpected = v.anchorsExpected
          /\ w.vicalUrl = v.vicalUrl /\ w.pc = v.pc /\ w.why = v.why /\ w.exit = v.exit /\ w.ready = v.ready
          /\ w.started = v.started /\ w.skipped = v.skipped /\ w.anchors = v.anchors /\ w.vical = v.vical
      BY DEF SupType
    <2> HIDE DEF w
    <2> QED BY <1>1, <1>2, <2>1, <2>3, <2>4 DEF Absorbs
  <1>3. CASE l = "skip"
    <2> DEFINE w == [v EXCEPT !.skipped = v.skipped + 1]
    <2>1. absorbed(v, l) = w
      BY <1>3, Zenon DEF absorbed
    <2>2. \A n \in Nat : [v EXCEPT !.skipped = n] \in SupType
      BY DEF SupType
    <2>3. w \in SupType
      BY <1>1, <2>2
    <2>4. /\ w.skipped = v.skipped + 1
          /\ w.starts = v.starts /\ w.expected = v.expected /\ w.anchorsExpected = v.anchorsExpected
          /\ w.vicalUrl = v.vicalUrl /\ w.pc = v.pc /\ w.why = v.why /\ w.exit = v.exit /\ w.ready = v.ready
          /\ w.started = v.started /\ w.circuits = v.circuits /\ w.anchors = v.anchors /\ w.vical = v.vical
      BY DEF SupType
    <2> HIDE DEF w
    <2> QED BY <1>1, <1>3, <2>1, <2>3, <2>4 DEF Absorbs
  <1>4. CASE l = "ca"
    <2> DEFINE w == [v EXCEPT !.anchors = v.anchors + 1]
    <2>1. absorbed(v, l) = w
      BY <1>4, Zenon DEF absorbed
    <2>2. \A n \in Nat : [v EXCEPT !.anchors = n] \in SupType
      BY DEF SupType
    <2>3. w \in SupType
      BY <1>1, <2>2
    <2>4. /\ w.anchors = v.anchors + 1
          /\ w.starts = v.starts /\ w.expected = v.expected /\ w.anchorsExpected = v.anchorsExpected
          /\ w.vicalUrl = v.vicalUrl /\ w.pc = v.pc /\ w.why = v.why /\ w.exit = v.exit /\ w.ready = v.ready
          /\ w.started = v.started /\ w.circuits = v.circuits /\ w.skipped = v.skipped /\ w.vical = v.vical
      BY DEF SupType
    <2> HIDE DEF w
    <2> QED BY <1>1, <1>4, <2>1, <2>3, <2>4 DEF Absorbs
  <1>5. CASE l = "vical"
    <2> DEFINE w == [v EXCEPT !.vical = v.vical + 1]
    <2>1. absorbed(v, l) = w
      BY <1>5, Zenon DEF absorbed
    <2>2. \A n \in Nat : [v EXCEPT !.vical = n] \in SupType
      BY DEF SupType
    <2>3. w \in SupType
      BY <1>1, <2>2
    <2>4. /\ w.vical = v.vical + 1
          /\ w.starts = v.starts /\ w.expected = v.expected /\ w.anchorsExpected = v.anchorsExpected
          /\ w.vicalUrl = v.vicalUrl /\ w.pc = v.pc /\ w.why = v.why /\ w.exit = v.exit /\ w.ready = v.ready
          /\ w.started = v.started /\ w.circuits = v.circuits /\ w.skipped = v.skipped /\ w.anchors = v.anchors
      BY DEF SupType
    <2> HIDE DEF w
    <2> QED BY <1>1, <1>5, <2>1, <2>3, <2>4 DEF Absorbs
  <1>6. CASE l = "started"
    <2> DEFINE w == [v EXCEPT !.started = TRUE]
    <2>1. absorbed(v, l) = w
      BY <1>6, Zenon DEF absorbed
    <2>2. \A n \in BOOLEAN : [v EXCEPT !.started = n] \in SupType
      BY DEF SupType
    <2>3. w \in SupType
      BY <1>1, <2>2
    <2>4. /\ w.started = TRUE
          /\ w.starts = v.starts /\ w.expected = v.expected /\ w.anchorsExpected = v.anchorsExpected
          /\ w.vicalUrl = v.vicalUrl /\ w.pc = v.pc /\ w.why = v.why /\ w.exit = v.exit /\ w.ready = v.ready
          /\ w.circuits = v.circuits /\ w.skipped = v.skipped /\ w.anchors = v.anchors /\ w.vical = v.vical
      BY DEF SupType
    <2> HIDE DEF w
    <2> QED BY <1>1, <1>6, <2>1, <2>3, <2>4 DEF Absorbs
  <1> QED BY <1>2, <1>3, <1>4, <1>5, <1>6 DEF Line

\* start() of a service: what a child of before left is still there.
Begins(v, w) ==
    /\ w \in SupType
    /\ w.pc = "spawning" /\ w.starts = v.starts + 1 /\ w.exit = v.exit /\ w.why = ""
    /\ w.started = v.started /\ w.circuits = v.circuits /\ w.skipped = v.skipped
    /\ w.anchors = v.anchors /\ w.vical = v.vical /\ w.ready = v.ready

LEMMA Begun ==
    ASSUME NEW v \in SupType, v.starts < MaxStarts, NEW e \in Nat, NEW a \in Nat
    PROVE  Begins(v, [again(v) EXCEPT !.pc = "spawning", !.starts = @ + 1, !.expected = e,
                                      !.anchorsExpected = a, !.late = FALSE, !.why = ""])
  <1> DEFINE w == [v EXCEPT !.pc = "spawning", !.starts = v.starts + 1, !.expected = e,
                            !.anchorsExpected = a, !.late = FALSE, !.why = ""]
  <1>1. v.starts + 1 \in 0..MaxStarts
    <2>1. v.starts \in 0..MaxStarts
      BY DEF SupType
    <2> QED BY <2>1
  <1>2. \A n \in 0..MaxStarts :
           [v EXCEPT !.pc = "spawning", !.starts = n, !.expected = e,
                     !.anchorsExpected = a, !.late = FALSE, !.why = ""] \in SupType
    BY DEF SupType
  <1>3. w \in SupType
    BY <1>1, <1>2
  <1>4. w.pc = "spawning" /\ w.starts = v.starts + 1 /\ w.exit = v.exit /\ w.why = ""
    BY DEF SupType
  <1>5. /\ w.started = v.started /\ w.circuits = v.circuits /\ w.skipped = v.skipped
        /\ w.anchors = v.anchors /\ w.vical = v.vical /\ w.ready = v.ready
    BY DEF SupType
  <1>6. w = [again(v) EXCEPT !.pc = "spawning", !.starts = @ + 1, !.expected = e,
                             !.anchorsExpected = a, !.late = FALSE, !.why = ""]
    BY Zenon DEF again
  <1> HIDE DEF w
  <1> QED BY <1>3, <1>4, <1>5, <1>6 DEF Begins

---------------------------------------------------------------------------
(* The child's script.                                                     *)

Silent == Line \ {"started"}

LEMMA EndsOnce ==
    ASSUME NEW q \in Seq(Silent)
    PROVE  /\ q \o <<"started">> \in Seq(Line) /\ q \o <<"started">> # <<>>
           /\ EndsStarted(q \o <<"started">>)
  <1> DEFINE r == q \o <<"started">>
  <1>1. q \in Seq(Line) /\ <<"started">> \in Seq(Line)
    BY DEF Silent, Line
  <1>2. r \in Seq(Line) /\ Len(r) = Len(q) + 1
    BY <1>1
  <1>3. \A i \in 1..Len(q) : r[i] = q[i] /\ q[i] # "started"
    BY <1>1 DEF Silent
  <1>4. r[Len(q) + 1] = "started"
    BY <1>1
  <1> HIDE DEF r
  <1>5. EndsStarted(r)
    BY <1>2, <1>3, <1>4 DEF EndsStarted
  <1> QED BY <1>2, <1>5 DEF r

LEMMA Repeated ==
    ASSUME NEW n \in Nat, NEW l \in Silent
    PROVE  Lines(n, l) \in Seq(Silent)
  BY DEF Lines

\* The two parts of a script.
Unsolicited == {<<>>, <<"vical">>}
TrustLines(a) == {Lines(n, "ca") \o v : n \in 0..a, v \in Unsolicited}
CircuitLines(e) == UNION {[1..k -> {"read", "skip"}] : k \in 0..e}

LEMMA PartsSilent ==
    ASSUME NEW e \in Nat, NEW a \in Nat
    PROVE  TrustLines(a) \subseteq Seq(Silent) /\ CircuitLines(e) \subseteq Seq(Silent)
  <1>1. "ca" \in Silent /\ "vical" \in Silent /\ "read" \in Silent /\ "skip" \in Silent
    BY DEF Silent, Line
  <1>2. Unsolicited \subseteq Seq(Silent)
    <2>1. <<>> \in Seq(Silent) /\ <<"vical">> \in Seq(Silent)
      BY <1>1
    <2> QED BY <2>1 DEF Unsolicited
  <1>3. ASSUME NEW t \in TrustLines(a) PROVE t \in Seq(Silent)
    <2>1. PICK n \in 0..a, v \in Unsolicited : t = Lines(n, "ca") \o v
      BY SMT DEF TrustLines
    <2>2. Lines(n, "ca") \in Seq(Silent)
      BY <1>1, Repeated
    <2> QED BY <1>2, <2>1, <2>2
  <1>4. ASSUME NEW c \in CircuitLines(e) PROVE c \in Seq(Silent)
    <2>1. PICK k \in 0..e : c \in [1..k -> {"read", "skip"}]
      BY DEF CircuitLines
    <2>2. k \in Nat /\ c \in [1..k -> Silent]
      BY <1>1, <2>1
    <2> QED BY <2>2
  <1> QED BY <1>3, <1>4

LEMMA Scripted ==
    ASSUME NEW s \in Service, NEW e \in Nat, NEW a \in Nat, NEW script \in Scripts(s, e, a)
    PROVE  script \in Seq(Line) /\ script # <<>> /\ EndsStarted(script)
  <1> SUFFICES \E q \in Seq(Silent) : script = q \o <<"started">>
    BY EndsOnce
  <1>1. CASE script \in Script(e, a)
    <2> DEFINE TrustFirst == {t \o c \o <<"started">> : t \in TrustLines(a), c \in CircuitLines(e)}
               TrustLast == {c \o t \o <<"started">> : t \in TrustLines(a), c \in CircuitLines(e)}
    <2>1. Script(e, a) = TrustFirst \cup TrustLast
      BY SMT DEF Script, TrustLines, CircuitLines, Unsolicited
    <2>2. /\ \A x \in TrustFirst : \E t \in TrustLines(a), c \in CircuitLines(e) :
                x = (t \o c) \o <<"started">>
          /\ \A x \in TrustLast : \E t \in TrustLines(a), c \in CircuitLines(e) :
                x = (c \o t) \o <<"started">>
      BY SMTT(30)
    <2> HIDE DEF TrustFirst, TrustLast
    <2>3. \A t \in TrustLines(a), c \in CircuitLines(e) :
             t \o c \in Seq(Silent) /\ c \o t \in Seq(Silent)
      BY PartsSilent
    <2> QED BY <1>1, <2>1, <2>2, <2>3, Zenon
  <1>2. CASE script = <<"started">>
    <2>1. <<>> \in Seq(Silent) /\ script = <<>> \o <<"started">>
      BY <1>2
    <2> QED BY <2>1
  <1>3. CASE script = Lines(a, "ca") \o Lines(e, "read") \o <<"started">>
    <2>1. Lines(a, "ca") \in Seq(Silent) /\ Lines(e, "read") \in Seq(Silent)
      BY Repeated DEF Silent, Line
    <2>2. Lines(a, "ca") \o Lines(e, "read") \in Seq(Silent)
      BY <2>1
    <2> QED BY <1>3, <2>2
  <1> QED BY <1>1, <1>2, <1>3 DEF Scripts

---------------------------------------------------------------------------
(* The changes to a child.                                                 *)

Proc == {"none", "loading", "binding", "serving", "dead"}

\* w is the child v, as far as its log goes.
SameChild(v, w) == w.script = v.script /\ w.todo = v.todo /\ w.pipe = v.pipe

LEMMA ChildMoved ==
    ASSUME NEW v \in KidType, NEW p \in Proc
    PROVE  /\ LET w == [v EXCEPT !.proc = p]
              IN  w \in KidType /\ SameChild(v, w) /\ w.proc = p
           /\ LET w == [v EXCEPT !.kill = TRUE]
              IN  w \in KidType /\ SameChild(v, w) /\ w.proc = v.proc
  BY DEF KidType, SameChild, Proc

\* One line goes from what is to be written into its stream.
Writes(v, w, l) ==
    /\ w \in KidType
    /\ w.script = v.script /\ w.todo = Tail(v.todo)
    /\ w.proc = IF l = "started" THEN "binding" ELSE v.proc
    /\ w.pipe[StreamOf[l]] = Append(v.pipe[StreamOf[l]], l)
    /\ \A x \in Stream \ {StreamOf[l]} : w.pipe[x] = v.pipe[x]

LEMMA ChildWrites ==
    ASSUME NEW v \in KidType, v.todo # <<>>, NEW l, l = Head(v.todo)
    PROVE  /\ l \in Line
           /\ Writes(v, [v EXCEPT !.todo = Tail(@), !.pipe[StreamOf[l]] = Append(@, l),
                                  !.proc = IF l = "started" THEN "binding" ELSE @], l)
  <1> DEFINE pipe == [v.pipe EXCEPT ![StreamOf[l]] = Append(@, l)]
             proc == IF l = "started" THEN "binding" ELSE v.proc
             w == [v EXCEPT !.todo = Tail(@), !.pipe[StreamOf[l]] = Append(@, l),
                            !.proc = IF l = "started" THEN "binding" ELSE @]
  <1>1. v.todo \in Seq(Line) /\ v.pipe \in [Stream -> Seq(Line)] /\ v.proc \in Proc
    BY DEF KidType, Proc
  <1>2. l \in Line /\ Tail(v.todo) \in Seq(Line)
    BY <1>1
  <1>3. StreamOf[l] \in Stream
    BY <1>2
  <1>4. /\ pipe \in [Stream -> Seq(Line)] /\ pipe[StreamOf[l]] = Append(v.pipe[StreamOf[l]], l)
        /\ \A x \in Stream \ {StreamOf[l]} : pipe[x] = v.pipe[x]
    <2>1. PICK z : z = StreamOf[l] /\ z \in Stream
      BY <1>3
    <2>2. PICK q : q = Append(v.pipe[z], l)
      OBVIOUS
    <2>3. q \in Seq(Line)
      BY <1>1, <1>2, <2>1, <2>2, SMTT(30)
    <2>4. pipe = [v.pipe EXCEPT ![z] = q]
      BY <2>1, <2>2
    <2> HIDE DEF pipe
    <2> QED BY <1>1, <2>1, <2>2, <2>3, <2>4
  <1>5. proc \in Proc
    BY <1>1 DEF Proc
  <1>6. w = [v EXCEPT !.todo = Tail(v.todo), !.pipe = pipe, !.proc = proc]
    BY DEF KidType
  <1> HIDE DEF pipe, proc, w
  <1>7. w \in KidType
    BY <1>2, <1>4, <1>5, <1>6 DEF KidType, Proc
  <1>8. w.script = v.script /\ w.todo = Tail(v.todo) /\ w.pipe = pipe /\ w.proc = proc
    BY <1>6 DEF KidType
  <1> QED BY <1>2, <1>4, <1>7, <1>8 DEF Writes, w, proc

LEMMA ChildRead ==
    ASSUME NEW v \in KidType, NEW x \in Stream, v.pipe[x] # <<>>
    PROVE  LET w == [v EXCEPT !.pipe[x] = Tail(@)]
           IN  /\ w \in KidType
               /\ w.script = v.script /\ w.todo = v.todo /\ w.proc = v.proc
               /\ w.pipe[x] = Tail(v.pipe[x]) /\ Head(v.pipe[x]) \in Line
               /\ \A y \in Stream \ {x} : w.pipe[y] = v.pipe[y]
  <1> DEFINE pipe == [v.pipe EXCEPT ![x] = Tail(@)]
             w == [v EXCEPT !.pipe[x] = Tail(@)]
  <1>1. v.pipe \in [Stream -> Seq(Line)] /\ v.pipe[x] \in Seq(Line)
    BY DEF KidType
  <1>2. Head(v.pipe[x]) \in Line /\ Tail(v.pipe[x]) \in Seq(Line)
    BY <1>1
  <1>3. /\ pipe \in [Stream -> Seq(Line)] /\ pipe[x] = Tail(v.pipe[x])
        /\ \A y \in Stream \ {x} : pipe[y] = v.pipe[y]
    BY <1>1, <1>2
  <1>4. w = [v EXCEPT !.pipe = pipe]
    BY DEF KidType
  <1> HIDE DEF pipe, w
  <1>5. w \in KidType
    BY <1>3, <1>4 DEF KidType
  <1>6. w.script = v.script /\ w.todo = v.todo /\ w.pipe = pipe /\ w.proc = v.proc
    BY <1>4 DEF KidType
  <1> QED BY <1>2, <1>3, <1>5, <1>6 DEF w

LEMMA ChildStarted ==
    ASSUME NEW v \in KidType, NEW script \in Seq(Line), NEW p \in Proc
    PROVE  LET w == [v EXCEPT !.proc = p, !.kill = FALSE, !.script = script, !.todo = script]
           IN  /\ w \in KidType
               /\ w.script = script /\ w.todo = script /\ w.proc = p /\ w.pipe = v.pipe
  BY DEF KidType, Proc

---------------------------------------------------------------------------
(* What each action does: it stays with one service.                       *)

Elsewhere(s) ==
    \A t \in Service \ {s} : sup'[t] = sup[t] /\ stop'[t] = stop[t] /\ kid'[t] = kid[t]

LEMMA SupOnly ==
    ASSUME TypeOK, NEW s \in Service, NEW w \in SupType, sup' = [sup EXCEPT ![s] = w],
           UNCHANGED <<stop, kid, port>>
    PROVE  TypeOK' /\ Elsewhere(s) /\ sup'[s] = w
  BY DEF TypeOK, Elsewhere

LEMMA KidOnly ==
    ASSUME TypeOK, NEW s \in Service, NEW w \in KidType, kid' = [kid EXCEPT ![s] = w],
           UNCHANGED <<sup, stop>>, port' \in Service \cup {Nobody, Stranger}
    PROVE  TypeOK' /\ Elsewhere(s) /\ kid'[s] = w
  BY DEF TypeOK, Elsewhere

\* A call of stop() comes back only once something was noted as the exit.
ComesBack(s) ==
    \A c \in Caller : stop'[s][c] \in Over => stop[s][c] \in Over \/ sup'[s].exit # "no"

LEMMA StopOnly ==
    ASSUME TypeOK, NEW s \in Service, NEW w \in SupType, NEW calls \in [Caller -> StopPC],
           sup' = [sup EXCEPT ![s] = w], stop' = [stop EXCEPT ![s] = calls], UNCHANGED <<kid, port>>
    PROVE  TypeOK' /\ Elsewhere(s) /\ sup'[s] = w /\ stop'[s] = calls /\ kid' = kid
  BY DEF TypeOK, Elsewhere

LEMMA Rejects ==
    ASSUME NEW calls \in [Caller -> StopPC]
    PROVE  rejected(calls) \in [Caller -> StopPC]
  BY DEF rejected, StopPC

\* stop() finds something noted, or begins to wait; a refused signal is noted at once.
LEMMA StopCall ==
    ASSUME TypeOK, NEW s \in Service, NEW c \in Caller, NEW v \in SupType,
           StopCalled(s, c, v), errored(v) \in SupType, errored(v).exit # "no", UNCHANGED port
    PROVE  TypeOK' /\ Elsewhere(s) /\ kid' = kid /\ ComesBack(s) /\ sup'[s] \in {v, errored(v)}
  <1>1. stop \in [Service -> [Caller -> StopPC]] /\ stop[s] \in [Caller -> StopPC]
    BY DEF TypeOK
  <1>2. rejected(stop[s]) \in [Caller -> StopPC]
    BY <1>1, Rejects
  <1>3. UNCHANGED <<kid, port>>
    BY DEF StopCalled
  <1>4. CASE v.exit # "no" /\ sup' = [sup EXCEPT ![s] = v] /\ stop' = [stop EXCEPT ![s][c] = "done"]
    <2> DEFINE calls == [stop[s] EXCEPT ![c] = "done"]
    <2>1. calls \in [Caller -> StopPC]
      BY <1>1 DEF StopPC
    <2>2. stop' = [stop EXCEPT ![s] = calls]
      BY <1>1, <1>4
    <2> HIDE DEF calls
    <2>3. TypeOK' /\ Elsewhere(s) /\ sup'[s] = v /\ kid' = kid
      BY <1>3, <1>4, <2>1, <2>2, StopOnly
    <2> QED BY <1>4, <2>3 DEF ComesBack
  <1>5. CASE v.exit = "no" /\ sup' = [sup EXCEPT ![s] = v] /\ stop' = [stop EXCEPT ![s][c] = "grace"]
    <2> DEFINE calls == [stop[s] EXCEPT ![c] = "grace"]
    <2>1. calls \in [Caller -> StopPC] /\ \A d \in Caller : calls[d] \in Over => stop[s][d] \in Over
      BY <1>1 DEF StopPC, Over
    <2>2. stop' = [stop EXCEPT ![s] = calls]
      BY <1>1, <1>5
    <2> HIDE DEF calls
    <2>3. TypeOK' /\ Elsewhere(s) /\ sup'[s] = v /\ stop'[s] = calls /\ kid' = kid
      BY <1>3, <1>5, <2>1, <2>2, StopOnly
    <2> QED BY <2>1, <2>3 DEF ComesBack
  <1>6. CASE /\ sup' = [sup EXCEPT ![s] = errored(v)]
             /\ stop' = [stop EXCEPT ![s] = [rejected(@) EXCEPT ![c] = "grace"]]
    <2> DEFINE calls == [rejected(stop[s]) EXCEPT ![c] = "grace"]
    <2>1. calls \in [Caller -> StopPC]
      BY <1>2 DEF StopPC
    <2>2. stop' = [stop EXCEPT ![s] = calls]
      BY <1>1, <1>6
    <2> HIDE DEF calls
    <2>3. TypeOK' /\ Elsewhere(s) /\ sup'[s] = errored(v) /\ kid' = kid
      BY <1>3, <1>6, <2>1, <2>2, StopOnly
    <2> QED BY <2>3 DEF ComesBack
  <1> QED BY <1>4, <1>5, <1>6 DEF StopCalled

---------------------------------------------------------------------------
(* Safety of supervision, whatever the child's streams.                    *)

\* A step of one service keeps Safe when it keeps what is known of that service.
LEMMA SafeAgain ==
    ASSUME Safe, TypeOK', NEW s \in Service, Elsewhere(s),
           sup'[s].starts = sup[s].starts,
           \/ sup[s].starts # 0
           \/ sup'[s].pc = sup[s].pc /\ sup'[s].exit = sup[s].exit /\ kid'[s].proc = kid[s].proc,
           Running(s)' => Running(s),
           sup[s].exit # "no" => sup'[s].exit # "no",
           sup'[s].exit = "exit" => sup[s].exit = "exit" \/ ~ Running(s)',
           sup'[s].pc = "failed" => sup[s].pc = "failed" \/ sup'[s].exit # "no",
           ComesBack(s), LoadsToTheEnd(s)'
    PROVE  Safe' /\ (Gone(s) => Gone(s)')
  <1>1. ASSUME NEW t \in Service \ {s} PROVE Sound(t)'
    BY <1>1 DEF Safe, Sound, LoadsToTheEnd, ExitKnown, Running, Elsewhere
  <1>2. sup[s] \in SupType /\ sup'[s] \in SupType
    BY DEF Safe, TypeOK
  <1>3. ExitKnown(s)'
    BY <1>2 DEF Safe, Sound, ExitKnown, ComesBack
  <1>4. Gone(s) => Gone(s)'
    BY <1>2 DEF Gone, SupType
  <1> QED BY <1>1, <1>3, <1>4 DEF Safe, Sound

\* The same of a step that changes only the supervisor and its calls of stop().
LEMMA SafeStill ==
    ASSUME Safe, TypeOK', NEW s \in Service, Elsewhere(s), kid' = kid,
           SameLog(sup[s], sup'[s]),
           sup[s].starts # 0 \/ (sup'[s].pc = sup[s].pc /\ sup'[s].exit = sup[s].exit),
           sup[s].exit # "no" => sup'[s].exit # "no",
           sup'[s].exit = "exit" => sup[s].exit = "exit" \/ ~ Running(s),
           sup'[s].pc = "failed" => sup[s].pc = "failed" \/ sup'[s].exit # "no",
           ComesBack(s)
    PROVE  Safe' /\ (Gone(s) => Gone(s)')
  <1>1. sup'[s].starts = sup[s].starts
    BY DEF SameLog
  <1>2. (Running(s)' <=> Running(s)) /\ LoadsToTheEnd(s)'
    BY DEF Safe, Sound, LoadsToTheEnd, Running
  <1> QED BY <1>1, <1>2, SafeAgain

LEMMA Counted ==
    ASSUME NEW v \in SupType
    PROVE  v.starts \in Nat
  <1>1. v.starts \in 0..MaxStarts
    BY DEF SupType
  <1> QED BY <1>1

LEMMA Known ==
    ASSUME Safe, NEW s \in Service
    PROVE  /\ sup[s] \in SupType /\ kid[s] \in KidType /\ stop[s] \in [Caller -> StopPC]
           /\ sup[s].pc \in SupPC /\ sup[s].why \in SupWhy
           /\ port \in Service \cup {Nobody, Stranger}
           /\ LoadsToTheEnd(s) /\ ExitKnown(s)
           /\ sup[s].pc # "new" => sup[s].starts # 0
           /\ kid[s].proc # "none" => sup[s].starts # 0
  BY DEF Safe, TypeOK, Sound, ExitKnown, SupType, SupPC, SupWhy

\* The child writes one line, and binds after the last.
LEMMA SafeWrite ==
    ASSUME Safe, NEW s \in Service, Write(s)
    PROVE  /\ Safe' /\ Elsewhere(s) /\ UNCHANGED <<sup, stop, port>>
           /\ Head(kid[s].todo) \in Line /\ Writes(kid[s], kid'[s], Head(kid[s].todo))
  <1> DEFINE l == Head(kid[s].todo)
             w == [kid[s] EXCEPT !.todo = Tail(@), !.pipe[StreamOf[l]] = Append(@, l),
                                 !.proc = IF l = "started" THEN "binding" ELSE @]
  <1>1. kid[s] \in KidType /\ kid[s].proc = "loading" /\ kid[s].todo # <<>>
        /\ EndsStarted(kid[s].todo) /\ kid[s].todo \in Seq(Line)
    BY Known DEF Write, LoadsToTheEnd, KidType
  <1>2. kid' = [kid EXCEPT ![s] = w] /\ UNCHANGED <<sup, stop, port>>
    BY DEF Write
  <1>3. l \in Line /\ Writes(kid[s], w, l)
    BY <1>1, ChildWrites
  <1> HIDE DEF w
  <1>4. TypeOK /\ w \in KidType /\ port' \in Service \cup {Nobody, Stranger}
    BY <1>2, <1>3, Known DEF Safe, Writes
  <1>5. TypeOK' /\ Elsewhere(s) /\ kid'[s] = w
    BY <1>2, <1>4, KidOnly
  <1>6. LoadsToTheEnd(s)'
    <2>1. SUFFICES ASSUME w.proc = "loading" PROVE w.todo # <<>> /\ EndsStarted(w.todo)
      BY <1>5 DEF LoadsToTheEnd
    <2>2. l # "started" /\ w.todo = Tail(kid[s].todo)
      BY <2>1, <1>3 DEF Writes
    <2>3. Len(kid[s].todo) > 1
      BY <1>1, <2>2 DEF EndsStarted
    <2>4. /\ w.todo \in Seq(Line) /\ Len(w.todo) = Len(kid[s].todo) - 1
          /\ \A i \in 1..Len(w.todo) : w.todo[i] = kid[s].todo[i + 1]
      BY <1>1, <2>2, <2>3
    <2>5. EndsStarted(w.todo)
      <3> SUFFICES ASSUME NEW i \in 1..Len(w.todo)
                   PROVE  w.todo[i] = "started" <=> i = Len(w.todo)
        BY DEF EndsStarted
      <3>1. i + 1 \in 1..Len(kid[s].todo)
        BY <1>1, <2>4
      <3>2. kid[s].todo[i + 1] = "started" <=> i + 1 = Len(kid[s].todo)
        BY <1>1, <3>1 DEF EndsStarted
      <3>3. w.todo[i] = kid[s].todo[i + 1] /\ (i = Len(w.todo) <=> i + 1 = Len(kid[s].todo))
        BY <1>1, <2>4, <3>1
      <3> QED BY <3>2, <3>3
    <2> QED BY <2>3, <2>4, <2>5
  <1>7. Running(s) /\ Running(s)'
    BY <1>1, <1>3, <1>5 DEF Running, Writes
  <1>8. sup[s].starts # 0
    BY <1>1, Known
  <1> HIDE DEF l
  <1>9. Safe'
    <2>1. ComesBack(s) /\ sup'[s] = sup[s]
      BY <1>2 DEF ComesBack
    <2> QED BY <1>5, <1>6, <1>7, <1>8, <2>1, SafeAgain, Known
  <1> QED BY <1>2, <1>3, <1>5, <1>9 DEF l

\* The child binds its port or dies of it, or dies of anything.
LEMMA SafeChild ==
    ASSUME Safe, NEW s \in Service, Bind(s) \/ Die(s)
    PROVE  /\ Safe' /\ Elsewhere(s) /\ UNCHANGED <<sup, stop>>
           /\ SameChild(kid[s], kid'[s]) /\ (Running(s)' => Running(s)) /\ (Gone(s) => Gone(s)')
  <1>1. PICK p \in {"serving", "dead"} : kid' = [kid EXCEPT ![s] = [kid[s] EXCEPT !.proc = p]]
    BY Known DEF Bind, Die, Safe, TypeOK
  <1> DEFINE w == [kid[s] EXCEPT !.proc = p]
  <1>2. w \in KidType /\ SameChild(kid[s], w) /\ w.proc = p
    <2>1. kid[s] \in KidType /\ p \in Proc
      BY Known DEF Proc
    <2> QED BY <2>1, ChildMoved
  <1>3. /\ UNCHANGED <<sup, stop>> /\ port' \in Service \cup {Nobody, Stranger}
        /\ Running(s) /\ kid[s].proc # "none"
    BY Known DEF Bind, Die, Running
  <1> HIDE DEF w
  <1>4. TypeOK' /\ Elsewhere(s) /\ kid'[s] = w
    BY <1>1, <1>2, <1>3, KidOnly DEF w, Safe
  <1>5. LoadsToTheEnd(s)'
    BY <1>2, <1>4 DEF LoadsToTheEnd
  <1>6. sup[s].starts # 0
    BY <1>3, Known
  <1>7. Safe' /\ (Gone(s) => Gone(s)')
    <2>1. ComesBack(s) /\ sup'[s] = sup[s]
      BY <1>3 DEF ComesBack
    <2> QED BY <1>3, <1>4, <1>5, <1>6, <2>1, SafeAgain, Known
  <1> QED BY <1>2, <1>3, <1>4, <1>7

\* A line is read.
LEMMA SafeAbsorb ==
    ASSUME Safe, NEW s \in Service, NEW x \in Stream, Absorb(s, x)
    PROVE  /\ Safe' /\ Elsewhere(s) /\ UNCHANGED <<stop, port>>
           /\ Head(kid[s].pipe[x]) \in Line
           /\ Absorbs(sup[s], sup'[s], Head(kid[s].pipe[x]))
           /\ kid'[s].script = kid[s].script /\ kid'[s].todo = kid[s].todo
           /\ kid'[s].proc = kid[s].proc
           /\ kid'[s].pipe[x] = Tail(kid[s].pipe[x])
           /\ \A y \in Stream \ {x} : kid'[s].pipe[y] = kid[s].pipe[y]
  <1> DEFINE w == [kid[s] EXCEPT !.pipe[x] = Tail(@)]
             l == Head(kid[s].pipe[x])
             v == absorbed(sup[s], l)
  <1>1. sup[s] \in SupType /\ kid[s] \in KidType /\ kid[s].pipe[x] # <<>> /\ TypeOK
    BY Known DEF Absorb, Safe
  <1>2. /\ w \in KidType
        /\ w.script = kid[s].script /\ w.todo = kid[s].todo /\ w.proc = kid[s].proc
        /\ w.pipe[x] = Tail(kid[s].pipe[x]) /\ l \in Line
        /\ \A y \in Stream \ {x} : w.pipe[y] = kid[s].pipe[y]
    BY <1>1, ChildRead
  <1>3. Absorbs(sup[s], v, l)
    BY <1>1, <1>2, Absorbing
  <1>4. /\ sup' = [sup EXCEPT ![s] = v] /\ kid' = [kid EXCEPT ![s] = w] /\ UNCHANGED <<stop, port>>
    BY DEF Absorb, TypeOK
  <1> HIDE DEF w, v, l
  <1>5. TypeOK' /\ Elsewhere(s) /\ sup'[s] = v /\ kid'[s] = w
    BY <1>1, <1>2, <1>3, <1>4 DEF TypeOK, Elsewhere, Absorbs
  <1>6. /\ sup'[s].starts = sup[s].starts /\ sup'[s].pc = sup[s].pc /\ sup'[s].exit = sup[s].exit
    BY <1>3, <1>5 DEF Absorbs
  <1>7. (Running(s)' <=> Running(s)) /\ LoadsToTheEnd(s)'
    BY <1>2, <1>5, Known DEF LoadsToTheEnd, Running
  <1>8. Safe'
    <2>1. ComesBack(s) /\ kid'[s].proc = kid[s].proc
      BY <1>2, <1>4, <1>5, <1>6 DEF ComesBack
    <2> QED BY <1>5, <1>6, <1>7, <2>1, SafeAgain, Known
  <1> QED BY <1>2, <1>3, <1>4, <1>5, <1>8 DEF w, v, l

\* What the supervisor's own steps do to a service: nothing to the child, nothing to what
\* was read of its log, and stop() comes back only once something was noted.
Supervises(s, pc, why, exit, ready) ==
    /\ Safe' /\ Elsewhere(s) /\ UNCHANGED kid
    /\ Becomes(sup[s], sup'[s], pc, why, exit, ready)
    /\ (Gone(s) => Gone(s)')

\* An 'error' event was noted.
Errs(s) == Supervises(s, ErrPC(sup[s].pc), ErrWhy(sup[s].pc, sup[s].why), ErrExit(sup[s].exit), FALSE)

\* Such a step changes the supervisor alone, and notes an exit only of a dead child.
LEMMA Supervising ==
    ASSUME Safe, TypeOK', NEW s \in Service, Elsewhere(s), kid' = kid, ComesBack(s),
           sup[s].starts # 0,
           NEW pc, NEW why, NEW exit, NEW ready, Becomes(sup[s], sup'[s], pc, why, exit, ready),
           \/ exit = sup[s].exit \/ exit = ErrExit(sup[s].exit)
           \/ exit = "exit" /\ ~ Running(s),
           pc = "failed" => sup[s].pc = "failed" \/ exit # "no"
    PROVE  Supervises(s, pc, why, exit, ready)
  <1>1. /\ SameLog(sup[s], sup'[s]) /\ sup'[s].pc = pc /\ sup'[s].exit = exit
        /\ sup[s] \in SupType
    BY Known DEF Becomes
  <1>2. /\ sup[s].exit # "no" => sup'[s].exit # "no"
        /\ sup'[s].exit = "exit" => sup[s].exit = "exit" \/ ~ Running(s)
        /\ sup'[s].pc = "failed" => sup[s].pc = "failed" \/ sup'[s].exit # "no"
    BY <1>1 DEF ErrExit
  <1>3. Safe' /\ (Gone(s) => Gone(s)')
    BY <1>1, <1>2, SafeStill
  <1> QED BY <1>3 DEF Supervises

LEMMA SafeErr ==
    ASSUME Safe, NEW s \in Service, sup[s].starts # 0, sup' = [sup EXCEPT ![s] = errored(@)],
           stop' = [stop EXCEPT ![s] = rejected(@)], UNCHANGED <<kid, port>>
    PROVE  Errs(s)
  <1>1. TypeOK /\ sup[s] \in SupType /\ stop[s] \in [Caller -> StopPC]
    BY Known DEF Safe
  <1> DEFINE w == errored(sup[s])
             calls == rejected(stop[s])
  <1>2. sup' = [sup EXCEPT ![s] = w] /\ stop' = [stop EXCEPT ![s] = calls]
    BY <1>1 DEF TypeOK
  <1>3. Becomes(sup[s], sup[s], sup[s].pc, sup[s].why, sup[s].exit, sup[s].ready)
    BY <1>1 DEF Becomes, SameLog
  <1>4. Becomes(sup[s], w, ErrPC(sup[s].pc), ErrWhy(sup[s].pc, sup[s].why), ErrExit(sup[s].exit), FALSE)
    BY <1>1, <1>3, Errored
  <1>5. calls \in [Caller -> StopPC]
    BY <1>1, Rejects
  <1> HIDE DEF w, calls
  <1>6. w \in SupType /\ w.exit = ErrExit(sup[s].exit)
    BY <1>4 DEF Becomes
  <1>7. TypeOK' /\ Elsewhere(s) /\ sup'[s] = w /\ stop'[s] = calls /\ kid' = kid
    BY <1>1, <1>2, <1>5, <1>6, StopOnly
  <1>8. ErrExit(sup[s].exit) # "no"
    BY DEF ErrExit
  <1>9. ComesBack(s)
    BY <1>6, <1>7, <1>8 DEF ComesBack
  <1> QED BY <1>4, <1>7, <1>8, <1>9, Supervising DEF Errs

\* The exit is noticed after the death; an 'error' at any time; a timer fires; anybody
\* answers /healthz.
LEMMA SafeEvent ==
    ASSUME Safe, NEW s \in Service
    PROVE  /\ ExitEvent(s) => kid[s].proc = "dead" /\ Supervises(s, sup[s].pc, sup[s].why, "exit", FALSE)
           /\ ErrorEvent(s) => Errs(s)
           /\ DeadlinePasses(s) \/ HealthzAnswers(s) =>
                Supervises(s, sup[s].pc, sup[s].why, sup[s].exit, sup[s].ready)
  <1>1. TypeOK /\ sup[s] \in SupType /\ ExitKnown(s)
    BY Known DEF Safe
  <1>2. ASSUME ExitEvent(s)
        PROVE  kid[s].proc = "dead" /\ Supervises(s, sup[s].pc, sup[s].why, "exit", FALSE)
    <2> DEFINE w == [sup[s] EXCEPT !.exit = "exit", !.ready = FALSE]
    <2>1. kid[s].proc = "dead" /\ sup' = [sup EXCEPT ![s] = w] /\ UNCHANGED <<stop, kid, port>>
      BY <1>1, <1>2 DEF ExitEvent, TypeOK
    <2>2. Becomes(sup[s], w, sup[s].pc, sup[s].why, "exit", FALSE)
      BY <1>1, Noted
    <2> HIDE DEF w
    <2>3. TypeOK' /\ Elsewhere(s) /\ sup'[s] = w
      BY <1>1, <2>1, <2>2, SupOnly DEF Becomes
    <2>4. sup[s].starts # 0 /\ ~ Running(s) /\ kid' = kid /\ stop' = stop
      BY <2>1, Known DEF Running
    <2>5. ComesBack(s)
      BY <2>2, <2>3 DEF ComesBack, Becomes
    <2> QED BY <2>1, <2>2, <2>3, <2>4, <2>5, Supervising
  <1>3. ASSUME ErrorEvent(s) PROVE Errs(s)
    <2>1. sup[s].starts # 0
      BY <1>3, Known DEF ErrorEvent
    <2> QED BY <1>3, <2>1, SafeErr DEF ErrorEvent
  <1>4. ASSUME DeadlinePasses(s) \/ HealthzAnswers(s)
        PROVE  Supervises(s, sup[s].pc, sup[s].why, sup[s].exit, sup[s].ready)
    <2>1. PICK w \in {[sup[s] EXCEPT !.late = TRUE], [sup[s] EXCEPT !.healthy = TRUE]} :
             sup' = [sup EXCEPT ![s] = w] /\ UNCHANGED <<stop, kid, port>>
      BY <1>1, <1>4 DEF DeadlinePasses, HealthzAnswers, TypeOK
    <2>2. Becomes(sup[s], w, sup[s].pc, sup[s].why, sup[s].exit, sup[s].ready)
      BY <1>1, <2>1, Noted
    <2>3. TypeOK' /\ Elsewhere(s) /\ sup'[s] = w
      BY <1>1, <2>1, <2>2, SupOnly DEF Becomes
    <2>4. kid' = kid /\ ComesBack(s)
      BY <2>1 DEF ComesBack
    <2>5. sup[s].starts # 0
      BY <1>4, Known DEF DeadlinePasses, HealthzAnswers
    <2> QED BY <2>2, <2>3, <2>4, <2>5, Supervising
  <1> QED BY <1>2, <1>3, <1>4

\* A call of stop() over fields that have come this far.
LEMMA SafeStopCall ==
    ASSUME Safe, NEW s \in Service, NEW c \in Caller, sup[s].starts # 0,
           NEW v, NEW pc, NEW why, Becomes(sup[s], v, pc, why, sup[s].exit, FALSE),
           pc = "failed" => sup[s].pc = "failed",
           StopCalled(s, c, v), UNCHANGED port
    PROVE  \/ Supervises(s, pc, why, sup[s].exit, FALSE)
           \/ Supervises(s, ErrPC(pc), ErrWhy(pc, why), ErrExit(sup[s].exit), FALSE)
  <1>1. TypeOK /\ v \in SupType
    BY DEF Safe, Becomes
  <1>2. Becomes(sup[s], errored(v), ErrPC(pc), ErrWhy(pc, why), ErrExit(sup[s].exit), FALSE)
    BY <1>1, Errored
  <1>3. ErrExit(sup[s].exit) # "no"
    BY DEF ErrExit
  <1>4. errored(v) \in SupType /\ errored(v).exit # "no"
    BY <1>2, <1>3 DEF Becomes
  <1>5. /\ TypeOK' /\ Elsewhere(s) /\ kid' = kid /\ ComesBack(s)
        /\ sup'[s] = v \/ sup'[s] = errored(v)
    BY <1>1, <1>4, StopCall
  <1>6. CASE sup'[s] = v
    BY <1>5, <1>6, Supervising
  <1>7. CASE sup'[s] = errored(v)
    BY <1>2, <1>3, <1>5, <1>7, Supervising
  <1> QED BY <1>5, <1>6, <1>7

LEMMA SafeUserStops ==
    ASSUME Safe, NEW s \in Service, UserStops(s)
    PROVE  Supervises(s, sup[s].pc, sup[s].why, sup[s].exit, FALSE) \/ Errs(s)
  <1> DEFINE v == [sup[s] EXCEPT !.ready = FALSE]
  <1>1. sup[s] \in SupType /\ sup[s].starts # 0 /\ "user" \in Caller
    BY Known DEF UserStops, Caller
  <1>2. StopCalled(s, "user", v) /\ UNCHANGED port
    BY DEF UserStops
  <1>3. Becomes(sup[s], v, sup[s].pc, sup[s].why, sup[s].exit, FALSE)
    BY <1>1, Noted
  <1> HIDE DEF v
  <1> QED BY <1>1, <1>2, <1>3, SafeStopCall DEF Errs

\* A call of stop() returns or sends SIGKILL, and the fields stay; or that is refused.
LEMMA SafeStopping ==
    ASSUME Safe, NEW s \in Service, NEW c \in Caller, Stopping(s, c)
    PROVE  \/ /\ Safe' /\ Elsewhere(s) /\ UNCHANGED <<sup, port>>
              /\ SameChild(kid[s], kid'[s]) /\ kid'[s].proc = kid[s].proc
           \/ Errs(s)
  <1>1. /\ TypeOK /\ sup[s] \in SupType /\ kid[s] \in KidType /\ ExitKnown(s) /\ LoadsToTheEnd(s)
        /\ stop \in [Service -> [Caller -> StopPC]] /\ stop[s] \in [Caller -> StopPC]
    BY Known DEF Safe, TypeOK
  <1> DEFINE dying == [kid[s] EXCEPT !.kill = TRUE]
  <1>2. CASE \E p \in {"kill", "done"} :
                /\ stop' = [stop EXCEPT ![s][c] = p] /\ (p = "done" => sup[s].exit # "no")
                /\ kid' = kid \/ kid' = [kid EXCEPT ![s] = dying]
                /\ UNCHANGED <<sup, port>>
    <2>1. PICK p \in {"kill", "done"} :
             /\ stop' = [stop EXCEPT ![s][c] = p] /\ (p = "done" => sup[s].exit # "no")
             /\ kid' = kid \/ kid' = [kid EXCEPT ![s] = dying]
             /\ UNCHANGED <<sup, port>>
      BY <1>2
    <2>2. dying \in KidType /\ SameChild(kid[s], dying) /\ dying.proc = kid[s].proc
      <3>1. kid[s].proc \in Proc
        BY <1>1 DEF KidType, Proc
      <3> QED BY <1>1, <3>1, ChildMoved
    <2> HIDE DEF dying
    <2>3. PICK w \in KidType : /\ kid' = [kid EXCEPT ![s] = w]
                               /\ SameChild(kid[s], w) /\ w.proc = kid[s].proc
      <3>1. kid' = kid => kid' = [kid EXCEPT ![s] = kid[s]]
        BY <1>1 DEF TypeOK
      <3> QED BY <1>1, <2>1, <2>2, <3>1 DEF SameChild
    <2> DEFINE calls == [stop[s] EXCEPT ![c] = p]
    <2>4. /\ calls \in [Caller -> StopPC]
          /\ \A d \in Caller : calls[d] \in Over => stop[s][d] \in Over \/ sup[s].exit # "no"
      BY <1>1, <2>1 DEF StopPC, Over
    <2>5. stop' = [stop EXCEPT ![s] = calls]
      BY <1>1, <2>1
    <2> HIDE DEF calls
    <2>6. /\ stop'[s] = calls /\ stop' \in [Service -> [Caller -> StopPC]]
          /\ \A t \in Service \ {s} : stop'[t] = stop[t]
      BY <1>1, <2>4, <2>5
    <2>7. kid' \in [Service -> KidType] /\ kid'[s] = w /\ \A t \in Service \ {s} : kid'[t] = kid[t]
      BY <1>1, <2>3 DEF TypeOK
    <2>8. TypeOK' /\ Elsewhere(s)
      BY <1>1, <2>1, <2>6, <2>7 DEF TypeOK, Elsewhere
    <2>9. (Running(s)' <=> Running(s)) /\ LoadsToTheEnd(s)'
      BY <1>1, <2>3, <2>7 DEF LoadsToTheEnd, Running, SameChild
    <2>10. sup'[s] = sup[s]
      BY <2>1
    <2>11. ComesBack(s)
      BY <2>4, <2>6, <2>10 DEF ComesBack
    <2>12. kid'[s].proc = kid[s].proc
      BY <2>3, <2>7
    <2>13. Safe'
      BY <2>8, <2>9, <2>10, <2>11, <2>12, SafeAgain
    <2> QED BY <2>1, <2>3, <2>7, <2>8, <2>13
  <1>3. CASE /\ Running(s) /\ sup' = [sup EXCEPT ![s] = errored(@)]
             /\ stop' = [stop EXCEPT ![s] = rejected(@)] /\ UNCHANGED <<kid, port>>
    <2>1. sup[s].starts # 0
      BY <1>3, Known DEF Running
    <2> QED BY <1>3, <2>1, SafeErr
  <1>4. CASE StopReturns(s, c)
    BY <1>2, <1>4 DEF StopReturns
  <1>5. CASE GraceOver(s, c)
    <2>1. kid' = [kid EXCEPT ![s].kill = TRUE] => kid' = [kid EXCEPT ![s] = dying]
      BY <1>1 DEF TypeOK
    <2> HIDE DEF dying
    <2> QED BY <1>2, <1>3, <1>5, <2>1 DEF GraceOver, graceOver
  <1> QED BY <1>4, <1>5 DEF Stopping

\* The steps of start().
LEMMA SafeMove ==
    ASSUME Safe, NEW s \in Service, sup[s].pc # "new", NEW w, NEW pc, NEW why, NEW ready,
           sup' = [sup EXCEPT ![s] = w], UNCHANGED <<stop, kid, port>>,
           Becomes(sup[s], w, pc, why, sup[s].exit, ready), pc = "failed" => sup[s].exit # "no"
    PROVE  Supervises(s, pc, why, sup[s].exit, ready)
  <1>1. TypeOK /\ sup[s].starts # 0 /\ w \in SupType
    BY Known DEF Safe, Becomes
  <1>2. TypeOK' /\ Elsewhere(s) /\ sup'[s] = w
    BY <1>1, SupOnly
  <1>3. kid' = kid /\ ComesBack(s)
    BY DEF ComesBack
  <1> QED BY <1>1, <1>2, <1>3, Supervising

LEMMA SafeStopAndFail ==
    ASSUME Safe, NEW s \in Service, sup[s].pc # "new",
           NEW why \in SupWhy, StopAndFail(s, why), UNCHANGED port
    PROVE  \/ Supervises(s, "stopping", why, sup[s].exit, FALSE)
           \/ Supervises(s, "stopping", why, ErrExit(sup[s].exit), FALSE)
  <1> DEFINE v == [sup[s] EXCEPT !.pc = "stopping", !.why = why, !.ready = FALSE, !.healthy = FALSE]
  <1>1. sup[s] \in SupType /\ sup[s].starts # 0 /\ "stopping" \in SupPC /\ "start" \in Caller
    BY Known DEF SupPC, Caller
  <1>2. Becomes(sup[s], v, "stopping", why, sup[s].exit, FALSE)
    BY <1>1, Moved
  <1>3. StopCalled(s, "start", v)
    BY DEF StopAndFail
  <1> HIDE DEF v
  <1>4. ErrPC("stopping") = "stopping" /\ ErrWhy("stopping", why) = why
    BY DEF ErrPC, ErrWhy
  <1> QED BY <1>1, <1>2, <1>3, <1>4, SafeStopCall

\* start() goes on, settles on a reason to reject while it stops the child, or ends.
Stays(s, pc) == Supervises(s, pc, sup[s].why, sup[s].exit, sup[s].ready)
Refuses(s, why) ==
    \/ Supervises(s, "stopping", why, sup[s].exit, FALSE)
    \/ Supervises(s, "stopping", why, ErrExit(sup[s].exit), FALSE)

Reasons(s, why) ==
    \/ why = "empty" /\ sup[s].expected = 0
    \/ why = "timeout"
    \/ why = "corrupt" /\ sup[s].skipped > 0
    \/ why = untrustworthy(sup[s]) /\ why # "" /\ sup[s].pc = "alive"

LEMMA Untrusted ==
    ASSUME NEW v \in SupType
    PROVE  untrustworthy(v) \in SupWhy
  BY DEF untrustworthy, SupWhy

LEMMA StartingOne ==
    ASSUME Safe, NEW s \in Service, Starting(s)
    PROVE  sup[s].pc # "new" /\ sup[s].starts # 0
  <1>1. sup[s].pc # "new"
    BY DEF Starting, SpawnFails, Spawned, Poll, PollTimeout, PollExit, PollLoaded, PollCorrupt,
           NotAlive, AliveReturns, StartFails
  <1> QED BY <1>1, Known

LEMMA SafeStarting ==
    ASSUME Safe, NEW s \in Service, Starting(s)
    PROVE  \/ Errs(s) /\ sup[s].pc = "spawning"
           \/ Supervises(s, "failed", "exited", sup[s].exit, sup[s].ready) /\ sup[s].exit # "no"
           \/ Stays(s, "loop")
           \/ Stays(s, "alive") /\ sup[s].exit = "no" /\ loaded(s)
           \/ \E why \in SupWhy : Refuses(s, why) /\ Reasons(s, why)
           \/ \E why \in {"", "policy"} :
                 /\ Supervises(s, "up", why, sup[s].exit, TRUE)
                 /\ sup[s].pc = "alive" /\ untrustworthy(sup[s]) = ""
           \/ Stays(s, "failed") /\ sup[s].pc = "stopping"
           \/ Supervises(s, "failed", "signal", sup[s].exit, sup[s].ready) /\ sup[s].pc = "stopping"
  <1>1. /\ TypeOK /\ sup[s] \in SupType /\ sup[s].why \in SupWhy /\ ExitKnown(s)
    BY Known DEF Safe
  <1>2. sup[s].pc # "new" /\ sup[s].starts # 0
    BY StartingOne
  <1>3. ASSUME NEW pc \in SupPC, sup' = [sup EXCEPT ![s].pc = pc], UNCHANGED <<stop, kid, port>>,
               pc = "failed" => sup[s].exit # "no"
        PROVE  Stays(s, pc)
    <2> DEFINE w == [sup[s] EXCEPT !.pc = pc]
    <2>1. sup' = [sup EXCEPT ![s] = w]
      BY <1>1, <1>3 DEF TypeOK
    <2>2. Becomes(sup[s], w, pc, sup[s].why, sup[s].exit, sup[s].ready)
      BY <1>1, Moved
    <2> HIDE DEF w
    <2> QED BY <1>2, <1>3, <2>1, <2>2, SafeMove DEF Stays
  <1>4. ASSUME NEW why \in SupWhy, StopAndFail(s, why), UNCHANGED port
        PROVE  Refuses(s, why)
    BY <1>2, <1>4, SafeStopAndFail DEF Refuses
  <1>5. "loop" \in SupPC /\ "alive" \in SupPC /\ "failed" \in SupPC /\ "up" \in SupPC
    BY DEF SupPC
  <1>6. /\ "exited" \in SupWhy /\ "empty" \in SupWhy /\ "timeout" \in SupWhy
        /\ "corrupt" \in SupWhy /\ "" \in SupWhy /\ "policy" \in SupWhy /\ "signal" \in SupWhy
    BY DEF SupWhy
  <1>15. ASSUME NEW why \in SupWhy, FailNow(s, why), UNCHANGED <<stop, kid, port>>, sup[s].exit # "no"
         PROVE  Supervises(s, "failed", why, sup[s].exit, sup[s].ready)
    <2> DEFINE w == [sup[s] EXCEPT !.pc = "failed", !.why = why]
    <2>1. sup' = [sup EXCEPT ![s] = w]
      BY <1>1, <1>15 DEF FailNow, TypeOK
    <2>2. Becomes(sup[s], w, "failed", why, sup[s].exit, sup[s].ready)
      BY <1>1, <1>5, Moved
    <2> HIDE DEF w
    <2> QED BY <1>2, <1>15, <2>1, <2>2, SafeMove
  <1>7. CASE SpawnFails(s)
    BY <1>2, <1>7, SafeErr DEF SpawnFails
  <1>8. CASE PollExit(s)
    BY <1>6, <1>8, <1>15 DEF PollExit
  <1>9. CASE Spawned(s)
    BY <1>3, <1>4, <1>5, <1>6, <1>9 DEF Spawned, Reasons
  <1>10. CASE PollTimeout(s) \/ PollCorrupt(s)
    BY <1>4, <1>6, <1>10 DEF PollTimeout, PollCorrupt, Reasons
  <1>11. CASE PollLoaded(s)
    BY <1>3, <1>5, <1>11 DEF PollLoaded
  <1>12. CASE NotAlive(s)
    BY <1>3, <1>4, <1>5, <1>6, <1>12 DEF NotAlive, Reasons
  <1>13. CASE AliveReturns(s)
    <2>1. CASE untrustworthy(sup[s]) # ""
      <3>1. untrustworthy(sup[s]) \in SupWhy
        BY <1>1, Untrusted
      <3>2. Refuses(s, untrustworthy(sup[s]))
        BY <1>4, <1>13, <2>1, <3>1 DEF AliveReturns
      <3> QED BY <1>13, <2>1, <3>1, <3>2 DEF AliveReturns, Reasons
    <2>2. CASE untrustworthy(sup[s]) = ""
      <3>1. PICK why \in {"", "policy"} :
               sup' = [sup EXCEPT ![s] = [@ EXCEPT !.pc = "up", !.ready = TRUE,
                                                   !.healthy = FALSE, !.why = why]]
        BY <1>13, <2>2 DEF AliveReturns
      <3> DEFINE w == [sup[s] EXCEPT !.pc = "up", !.ready = TRUE, !.healthy = FALSE, !.why = why]
      <3>2. sup' = [sup EXCEPT ![s] = w] /\ UNCHANGED <<stop, kid, port>> /\ sup[s].pc = "alive"
        BY <1>13, <2>2, <3>1 DEF AliveReturns
      <3>3. Becomes(sup[s], w, "up", why, sup[s].exit, TRUE)
        BY <1>1, <1>5, <1>6, Moved
      <3> HIDE DEF w
      <3>6. Supervises(s, "up", why, sup[s].exit, TRUE)
        BY <1>2, <3>2, <3>3, SafeMove
      <3> QED BY <2>2, <3>2, <3>6
    <2> QED BY <2>1, <2>2
  <1>14. CASE StartFails(s)
    <2>1. sup[s].exit # "no" /\ sup[s].pc = "stopping"
      BY <1>1, <1>14 DEF StartFails, ExitKnown, Caller, Over
    <2>2. CASE stop[s]["start"] = "threw"
      <3>1. FailNow(s, "signal") /\ UNCHANGED <<stop, kid, port>>
        BY <1>14, <2>2 DEF StartFails
      <3> QED BY <1>6, <1>15, <2>1, <3>1
    <2>3. CASE stop[s]["start"] # "threw"
      <3>1. FailNow(s, sup[s].why) /\ UNCHANGED <<stop, kid, port>>
        BY <1>14, <2>3 DEF StartFails
      <3> QED BY <1>1, <1>15, <2>1, <3>1 DEF Stays
    <2> QED BY <2>2, <2>3
  <1> QED BY <1>7, <1>8, <1>9, <1>10, <1>11, <1>12, <1>13, <1>14 DEF Starting, Poll

\* start() of a service: a new child over the pipes of the old one, or none.
LEMMA SafeStart ==
    ASSUME Safe, NEW s \in Service, NEW e \in CircuitCounts, NEW a \in AnchorCounts, Start(s, e, a)
    PROVE  /\ Safe' /\ Elsewhere(s) /\ Begins(sup[s], sup'[s])
           /\ kid'[s].pipe = kid[s].pipe /\ kid'[s].todo = kid'[s].script
           /\ \/ kid'[s].script \in Scripts(s, e, a) /\ EndsStarted(kid'[s].script)
              \/ kid'[s].script = <<>> /\ kid'[s].proc = "none"
  <1> DEFINE v == [again(sup[s]) EXCEPT !.pc = "spawning", !.starts = @ + 1, !.expected = e,
                                        !.anchorsExpected = a, !.late = FALSE, !.why = ""]
             idle == [c \in Caller |-> "idle"]
  <1>1. /\ TypeOK /\ sup[s] \in SupType /\ kid[s] \in KidType /\ ExitKnown(s)
        /\ e \in Nat /\ a \in Nat /\ sup[s].starts < MaxStarts
        /\ sup[s].starts > 0 => sup[s].exit # "no"
    BY Known DEF Start, Safe
  <1>2. sup' = [sup EXCEPT ![s] = v] /\ stop' = [stop EXCEPT ![s] = idle] /\ port' = port
    BY <1>1 DEF Start, TypeOK
  <1>3. Begins(sup[s], v)
    BY <1>1, Begun
  <1>4. idle \in [Caller -> StopPC] /\ \A c \in Caller : idle[c] \notin Over
    BY DEF StopPC, Over
  <1>5. PICK script \in Seq(Line), p \in {"none", "loading"} :
           /\ kid' = [kid EXCEPT ![s] = [kid[s] EXCEPT !.proc = p, !.kill = FALSE,
                                                       !.script = script, !.todo = script]]
           /\ \/ p = "loading" /\ script # <<>> /\ EndsStarted(script) /\ script \in Scripts(s, e, a)
              \/ p = "none" /\ script = <<>>
    <2>1. CASE \E script \in Scripts(s, e, a) :
                  kid' = [kid EXCEPT ![s] = [@ EXCEPT !.proc = "loading", !.kill = FALSE,
                                                      !.script = script, !.todo = script]]
      <3>1. PICK script \in Scripts(s, e, a) :
               kid' = [kid EXCEPT ![s] = [kid[s] EXCEPT !.proc = "loading", !.kill = FALSE,
                                                        !.script = script, !.todo = script]]
        BY <1>1, <2>1 DEF TypeOK
      <3>2. script \in Seq(Line) /\ script # <<>> /\ EndsStarted(script)
        BY <1>1, Scripted
      <3> QED BY <3>1, <3>2
    <2>2. CASE kid' = [kid EXCEPT ![s] = [@ EXCEPT !.proc = "none", !.kill = FALSE,
                                                   !.script = <<>>, !.todo = <<>>]]
      <3>1. <<>> \in Seq(Line)
        OBVIOUS
      <3>2. kid' = [kid EXCEPT ![s] = [kid[s] EXCEPT !.proc = "none", !.kill = FALSE,
                                                     !.script = <<>>, !.todo = <<>>]]
        BY <1>1, <2>2 DEF TypeOK
      <3> QED BY <3>1, <3>2
    <2> QED BY <2>1, <2>2 DEF Start
  <1> DEFINE w == [kid[s] EXCEPT !.proc = p, !.kill = FALSE, !.script = script, !.todo = script]
  <1>6. /\ w \in KidType
        /\ w.script = script /\ w.todo = script /\ w.proc = p /\ w.pipe = kid[s].pipe
    <2>1. kid[s] \in KidType /\ p \in Proc
      BY <1>1 DEF Proc
    <2> QED BY <2>1, ChildStarted, Zenon
  <1>15. kid' = [kid EXCEPT ![s] = w]
    BY <1>5, Zenon
  <1> HIDE DEF v, idle, w
  <1>7. /\ sup' \in [Service -> SupType] /\ sup'[s] = v
        /\ \A t \in Service \ {s} : sup'[t] = sup[t]
    BY <1>1, <1>2, <1>3 DEF TypeOK, Begins
  <1>8. /\ stop' \in [Service -> [Caller -> StopPC]] /\ stop'[s] = idle
        /\ \A t \in Service \ {s} : stop'[t] = stop[t]
    BY <1>1, <1>2, <1>4 DEF TypeOK
  <1>9. /\ kid' \in [Service -> KidType] /\ kid'[s] = w
        /\ \A t \in Service \ {s} : kid'[t] = kid[t]
    BY <1>1, <1>6, <1>15 DEF TypeOK
  <1>10. TypeOK' /\ Elsewhere(s)
    BY <1>1, <1>2, <1>7, <1>8, <1>9 DEF TypeOK, Elsewhere
  <1>11. LoadsToTheEnd(s)'
    BY <1>5, <1>6, <1>9 DEF LoadsToTheEnd
  <1>12. ExitKnown(s)'
    <2>1. /\ v.pc = "spawning" /\ v.starts = sup[s].starts + 1 /\ v.exit = sup[s].exit
      BY <1>3 DEF Begins
    <2>2. sup[s].starts \in Nat
      BY <1>1, Counted
    <2>3. v.starts # 0 /\ (v.starts = 1 => v.exit = "no") /\ (v.starts > 1 => v.exit # "no")
      <3>1. sup[s].starts = 0 => sup[s].exit = "no"
        BY <1>1 DEF ExitKnown
      <3> QED BY <1>1, <2>1, <2>2, <3>1
    <2>4. stop'[s] = idle /\ sup'[s] = v /\ v.pc # "new" /\ v.pc # "failed"
      BY <1>7, <1>8, <2>1
    <2>5. v.starts = 1 /\ v.exit = "exit" => ~ Running(s)'
      BY <2>3
    <2> QED BY <1>4, <2>3, <2>4, <2>5 DEF ExitKnown
  <1>13. ASSUME NEW t \in Service \ {s} PROVE Sound(t)'
    BY <1>10, <1>13 DEF Safe, Sound, LoadsToTheEnd, ExitKnown, Running, Elsewhere
  <1>14. Safe'
    BY <1>10, <1>11, <1>12, <1>13 DEF Safe, Sound
  <1> QED BY <1>3, <1>5, <1>6, <1>7, <1>9, <1>10, <1>14

LEMMA SafeInit == Init => Safe
  <1> SUFFICES ASSUME Init PROVE Safe
    OBVIOUS
  <1>1. PICK url \in [Service -> BOOLEAN] :
           sup = [s \in Service |->
                   [pc |-> "new", starts |-> 0, ready |-> FALSE, started |-> FALSE, exit |-> "no",
                    circuits |-> 0, expected |-> 0, skipped |-> 0,
                    anchors |-> 0, anchorsExpected |-> 0, vical |-> 0,
                    late |-> FALSE, healthy |-> FALSE, vicalUrl |-> url[s],
                    why |-> ""]]
    BY DEF Init
  <1>2. sup \in [Service -> SupType]
    <2> DEFINE fresh(b) ==
                 [pc |-> "new", starts |-> 0, ready |-> FALSE, started |-> FALSE, exit |-> "no",
                  circuits |-> 0, expected |-> 0, skipped |-> 0,
                  anchors |-> 0, anchorsExpected |-> 0, vical |-> 0,
                  late |-> FALSE, healthy |-> FALSE, vicalUrl |-> b, why |-> ""]
    <2>1. 0 \in 0..MaxStarts /\ 0 \in Nat
      OBVIOUS
    <2>2. \A b \in BOOLEAN : fresh(b) \in SupType
      BY <2>1 DEF SupType
    <2>3. sup = [s \in Service |-> fresh(url[s])]
      BY <1>1
    <2> HIDE DEF fresh
    <2> QED BY <2>2, <2>3
  <1>3. stop \in [Service -> [Caller -> StopPC]]
    <2>1. [c \in Caller |-> "idle"] \in [Caller -> StopPC]
      BY DEF StopPC
    <2> QED BY <2>1 DEF Init
  <1>4. kid \in [Service -> KidType]
    <2> DEFINE none == [proc |-> "none", script |-> <<>>, todo |-> <<>>,
                        pipe |-> [x \in Stream |-> <<>>], kill |-> FALSE]
    <2>1. <<>> \in Seq(Line) /\ [x \in Stream |-> <<>>] \in [Stream -> Seq(Line)]
      OBVIOUS
    <2>2. none \in KidType
      BY <2>1 DEF KidType
    <2>3. kid = [s \in Service |-> none]
      BY DEF Init
    <2> HIDE DEF none
    <2> QED BY <2>2, <2>3
  <1>5. TypeOK
    BY <1>2, <1>3, <1>4 DEF TypeOK, Init
  <1>6. ASSUME NEW s \in Service
        PROVE  /\ sup[s].starts = 0 /\ sup[s].pc = "new" /\ sup[s].exit = "no"
               /\ kid[s].proc = "none" /\ \A c \in Caller : stop[s][c] = "idle"
    BY <1>1 DEF Init
  <1>7. ASSUME NEW s \in Service PROVE Sound(s)
    BY <1>6 DEF Sound, LoadsToTheEnd, ExitKnown, Over
  <1> QED BY <1>5, <1>7 DEF Safe

LEMMA SafeStep == Safe /\ [Next]_vars => Safe'
  <1> SUFFICES ASSUME Safe, [Next]_vars PROVE Safe'
    OBVIOUS
  <1>1. CASE UNCHANGED vars
    BY <1>1 DEF vars, Safe, TypeOK, Sound, LoadsToTheEnd, ExitKnown, Running
  <1>2. ASSUME NEW s \in Service, NEW e \in CircuitCounts, NEW a \in AnchorCounts, Start(s, e, a)
        PROVE  Safe'
    BY <1>2, SafeStart
  <1>3. ASSUME NEW s \in Service, Child(s) PROVE Safe'
    BY <1>3, SafeWrite, SafeChild DEF Child
  <1>4. ASSUME NEW s \in Service, NEW x \in Stream, Absorb(s, x) PROVE Safe'
    BY <1>4, SafeAbsorb
  <1>5. ASSUME NEW s \in Service,
               ExitEvent(s) \/ ErrorEvent(s) \/ DeadlinePasses(s) \/ HealthzAnswers(s)
        PROVE  Safe'
    BY <1>5, SafeEvent DEF Supervises, Errs
  <1>6. ASSUME NEW s \in Service, Starting(s) PROVE Safe'
    BY <1>6, SafeStarting DEF Supervises, Stays, Refuses, Errs
  <1>7. ASSUME NEW s \in Service, UserStops(s) PROVE Safe'
    BY <1>7, SafeUserStops DEF Supervises, Errs
  <1>8. ASSUME NEW s \in Service, NEW c \in Caller, Stopping(s, c) PROVE Safe'
    BY <1>8, SafeStopping DEF Supervises, Errs
  <1> QED BY <1>1, <1>2, <1>3, <1>4, <1>5, <1>6, <1>7, <1>8 DEF Next

LEMMA AlwaysSafe == Spec => []Safe
  BY SafeInit, SafeStep, PTL DEF Spec

\* Every field of every service, every call of stop(), every child and the port keep
\* their types, whatever is started, stopped, logged or killed.
THEOREM TypeCorrect == Spec => []TypeOK
  BY AlwaysSafe, PTL DEF Safe

\* A first start() that fails leaves no child running, whoever stops it at the same
\* time and on whatever streams the child logs, unless an 'error' event -- a signal the
\* kernel refused -- is all that was noted as the child's exit.
THEOREM FailedStartLeavesNoChild == Spec => []NoChildBehindFailedStart
  <1>1. ASSUME Safe, NEW s \in Service, sup[s].pc = "failed", sup[s].starts = 1 PROVE Gone(s)
    BY <1>1, Known DEF ExitKnown, Gone, SupType
  <1>2. Safe => NoChildBehindFailedStart
    BY <1>1 DEF NoChildBehindFailedStart
  <1> QED BY <1>2, AlwaysSafe, PTL

\* A stop() that has come back leaves no child of a first start running, called by
\* start(), by the holder of the service or by both at once, with the same exception.
THEOREM StoppedChildrenAreGone == Spec => []StopMeansGone
  <1>1. ASSUME Safe, NEW s \in Service, NEW c \in Caller, stop[s][c] \in {"done", "threw"},
               sup[s].starts = 1
        PROVE  Gone(s)
    BY <1>1, Known DEF ExitKnown, Gone, SupType, Over
  <1>2. Safe => StopMeansGone
    BY <1>1 DEF StopMeansGone
  <1> QED BY <1>2, AlwaysSafe, PTL

---------------------------------------------------------------------------
(* The whole log on one stream: what the supervisor has counted is what    *)
(* the child did, up to the line it read last.                             *)

SharedStream == \A l \in Line : StreamOf[l] = StreamOf["started"]

\* Of a child: what is in the pipe, and how much of its script was read.
Log(k) == k.pipe[StreamOf["started"]]
ReadOf(k) == Len(k.script) - Len(Log(k)) - Len(k.todo)

\* The script is what was read, then what is in the pipe, then what is still to come.
Laid(k) ==
    /\ ReadOf(k) \in Nat
    /\ \A i \in 1..Len(Log(k)) : Log(k)[i] = k.script[ReadOf(k) + i]
    /\ \A i \in 1..Len(k.todo) : k.todo[i] = k.script[ReadOf(k) + Len(Log(k)) + i]
    /\ \A x \in Stream \ {StreamOf["started"]} : k.pipe[x] = <<>>
    /\ EndsStarted(k.script)

\* How many of the first n lines of q are l.
Among(q, n, l) == Cardinality({i \in 1..n : q[i] = l})

\* The counts are those of the first n lines of the script.
Tallied(v, script, n) ==
    /\ v.started => n = Len(script)
    /\ v.circuits = Among(script, n, "read")
    /\ v.skipped = Among(script, n, "skip")
    /\ v.anchors = Among(script, n, "ca")
    /\ v.vical = Among(script, n, "vical")

LEMMA AmongCounts ==
    ASSUME NEW q, NEW n \in Nat, NEW l
    PROVE  /\ Among(q, n, l) \in Nat
           /\ Among(q, n + 1, l) = Among(q, n, l) + (IF q[n + 1] = l THEN 1 ELSE 0)
           /\ \A m \in 0..n : Among(q, m, l) <= Among(q, n, l)
           /\ Among(q, 0, l) = 0
  <1> DEFINE S(k) == {i \in 1..k : q[i] = l}
  <1>1. ASSUME NEW k \in Nat PROVE IsFiniteSet(S(k))
    <2>1. IsFiniteSet(1..k)
      BY FS_Interval
    <2>2. S(k) \subseteq 1..k
      OBVIOUS
    <2> QED BY <2>1, <2>2, FS_Subset
  <1>2. Cardinality(S(n)) \in Nat
    BY <1>1, FS_CardinalityType
  <1>3. S(n + 1) = IF q[n + 1] = l THEN S(n) \cup {n + 1} ELSE S(n)
    <2>1. \A i : i \in 1..(n + 1) <=> i \in 1..n \/ i = n + 1
      OBVIOUS
    <2> QED BY <2>1
  <1>4. n + 1 \notin S(n)
    OBVIOUS
  <1>5. ASSUME NEW m \in 0..n PROVE Cardinality(S(m)) <= Cardinality(S(n))
    <2>1. S(m) \subseteq S(n)
      OBVIOUS
    <2> QED BY <1>1, <2>1, FS_Subset
  <1>6. S(0) = {}
    OBVIOUS
  <1>7. Cardinality(S(n) \cup {n + 1}) = Cardinality(S(n)) + 1
    BY <1>1, <1>4, FS_AddElement
  <1>8. \A k : Among(q, k, l) = Cardinality(S(k))
    BY DEF Among
  <1> HIDE DEF S
  <1>9. Among(q, n + 1, l) = Among(q, n, l) + (IF q[n + 1] = l THEN 1 ELSE 0)
    BY <1>2, <1>3, <1>7, <1>8
  <1> QED BY <1>2, <1>5, <1>6, <1>8, <1>9, FS_EmptySet

\* The child writes a line: from what is to come to the pipe.
LEMMA LaidWrite ==
    ASSUME SharedStream, NEW v \in KidType, v.todo # <<>>, Laid(v),
           NEW l \in Line, l = Head(v.todo), NEW w, Writes(v, w, l)
    PROVE  Laid(w) /\ ReadOf(w) = ReadOf(v)
  <1> DEFINE main == StreamOf["started"]
             n == ReadOf(v)
  <1>1. StreamOf[l] = main /\ main \in Stream
    BY DEF SharedStream, Line
  <1>2. v.script \in Seq(Line) /\ v.todo \in Seq(Line) /\ v.pipe[main] \in Seq(Line)
    BY <1>1 DEF KidType
  <1>3. /\ w.script = v.script /\ w.todo = Tail(v.todo) /\ Log(w) = Append(Log(v), l)
        /\ \A x \in Stream \ {main} : w.pipe[x] = v.pipe[x]
    BY <1>1 DEF Writes, Log
  <1>4. /\ Log(v) \in Seq(Line) /\ Log(w) \in Seq(Line) /\ Len(Log(w)) = Len(Log(v)) + 1
        /\ \A i \in 1..Len(Log(v)) : Log(w)[i] = Log(v)[i]
        /\ Log(w)[Len(Log(v)) + 1] = l
    BY <1>2, <1>3 DEF Log
  <1>5. /\ Len(v.todo) \in Nat \ {0} /\ Len(w.todo) = Len(v.todo) - 1
        /\ v.todo[1] = l
        /\ \A i \in 1..Len(w.todo) : w.todo[i] = v.todo[i + 1]
    BY <1>2, <1>3
  <1>6. Len(v.script) \in Nat /\ Len(Log(v)) \in Nat /\ n \in Nat
    BY <1>2, <1>4 DEF Laid
  <1>7. ReadOf(w) = n
    <2>1. n = Len(v.script) - Len(Log(v)) - Len(v.todo)
      BY DEF ReadOf
    <2>2. ReadOf(w) = Len(v.script) - Len(Log(w)) - Len(w.todo)
      BY <1>3 DEF ReadOf
    <2> HIDE DEF n
    <2> QED BY <1>4, <1>5, <1>6, <2>1, <2>2
  <1> HIDE DEF n, main
  <1>8. /\ \A i \in 1..Len(Log(v)) : Log(v)[i] = v.script[n + i]
        /\ \A i \in 1..Len(v.todo) : v.todo[i] = v.script[n + Len(Log(v)) + i]
        /\ \A x \in Stream \ {main} : v.pipe[x] = <<>>
        /\ EndsStarted(v.script)
    BY DEF Laid, n, main
  <1>9. ASSUME NEW i \in 1..Len(Log(w)) PROVE Log(w)[i] = w.script[n + i]
    <2>1. CASE i \in 1..Len(Log(v))
      BY <1>3, <1>4, <1>8, <2>1
    <2>2. CASE i = Len(Log(v)) + 1
      <3>1. 1 \in 1..Len(v.todo) /\ n + Len(Log(v)) + 1 = n + i
        BY <1>5, <1>6, <2>2
      <3> QED BY <1>3, <1>4, <1>5, <1>8, <2>2, <3>1
    <2> QED BY <1>4, <1>6, <2>1, <2>2
  <1>10. ASSUME NEW i \in 1..Len(w.todo) PROVE w.todo[i] = w.script[n + Len(Log(w)) + i]
    <2>1. i + 1 \in 1..Len(v.todo) /\ n + Len(Log(v)) + (i + 1) = n + Len(Log(w)) + i
      BY <1>4, <1>5, <1>6
    <2> QED BY <1>3, <1>5, <1>8, <2>1
  <1>11. \A x \in Stream \ {main} : w.pipe[x] = <<>>
    BY <1>3, <1>8
  <1>12. EndsStarted(w.script)
    BY <1>3, <1>8
  <1>13. /\ ReadOf(w) \in Nat
         /\ \A i \in 1..Len(Log(w)) : Log(w)[i] = w.script[ReadOf(w) + i]
         /\ \A i \in 1..Len(w.todo) : w.todo[i] = w.script[ReadOf(w) + Len(Log(w)) + i]
    BY <1>6, <1>7, <1>9, <1>10
  <1>14. Laid(w)
    BY <1>11, <1>12, <1>13, Zenon DEF Laid, main
  <1> QED BY <1>7, <1>14 DEF n

\* The supervisor reads a line: it is the next one of the script.
LEMMA LaidRead ==
    ASSUME NEW v \in KidType, NEW w, Laid(v), NEW x \in Stream, v.pipe[x] # <<>>,
           w.script = v.script, w.todo = v.todo, w.pipe[x] = Tail(v.pipe[x]),
           \A y \in Stream \ {x} : w.pipe[y] = v.pipe[y]
    PROVE  /\ Laid(w) /\ ReadOf(w) = ReadOf(v) + 1
           /\ ReadOf(v) \in Nat /\ ReadOf(v) + 1 \in 1..Len(v.script)
           /\ Head(v.pipe[x]) = v.script[ReadOf(v) + 1]
  <1> DEFINE n == ReadOf(v)
  <1>1. x = StreamOf["started"]
    BY DEF Laid
  <1>2. v.script \in Seq(Line) /\ v.todo \in Seq(Line) /\ v.pipe[x] \in Seq(Line)
    BY DEF KidType
  <1>3. Log(w) = Tail(Log(v)) /\ Log(v) = v.pipe[x]
    BY <1>1 DEF Log
  <1>4. /\ Log(v) \in Seq(Line) /\ Len(Log(v)) \in Nat \ {0} /\ Len(Log(w)) = Len(Log(v)) - 1
        /\ \A i \in 1..Len(Log(w)) : Log(w)[i] = Log(v)[i + 1]
        /\ Head(Log(v)) = Log(v)[1]
    BY <1>2, <1>3
  <1>5. Len(v.script) \in Nat /\ Len(v.todo) \in Nat /\ n \in Nat
    BY <1>2 DEF Laid
  <1>6. n = Len(v.script) - Len(Log(v)) - Len(v.todo)
    BY DEF ReadOf
  <1>7. ReadOf(w) = n + 1
    BY <1>4, <1>5, <1>6 DEF ReadOf
  <1> HIDE DEF n
  <1>8. /\ \A i \in 1..Len(Log(v)) : Log(v)[i] = v.script[n + i]
        /\ \A i \in 1..Len(v.todo) : v.todo[i] = v.script[n + Len(Log(v)) + i]
        /\ \A y \in Stream \ {x} : v.pipe[y] = <<>>
        /\ EndsStarted(v.script)
    BY <1>1 DEF Laid, n
  <1>9. ASSUME NEW i \in 1..Len(Log(w)) PROVE Log(w)[i] = w.script[n + 1 + i]
    <2>1. i + 1 \in 1..Len(Log(v)) /\ n + (i + 1) = n + 1 + i
      BY <1>4, <1>5
    <2> QED BY <1>4, <1>8, <2>1
  <1>10. ASSUME NEW i \in 1..Len(w.todo) PROVE w.todo[i] = w.script[n + 1 + Len(Log(w)) + i]
    <2>1. n + 1 + Len(Log(w)) + i = n + Len(Log(v)) + i
      BY <1>4, <1>5
    <2> QED BY <1>8, <2>1
  <1>11. \A z \in Stream \ {StreamOf["started"]} : w.pipe[z] = <<>>
    BY <1>1, <1>8
  <1>12. EndsStarted(w.script) /\ n + 1 \in Nat
    BY <1>5, <1>8
  <1>13. /\ ReadOf(w) \in Nat
         /\ \A i \in 1..Len(Log(w)) : Log(w)[i] = w.script[ReadOf(w) + i]
         /\ \A i \in 1..Len(w.todo) : w.todo[i] = w.script[ReadOf(w) + Len(Log(w)) + i]
    BY <1>7, <1>9, <1>10, <1>12
  <1>14. Laid(w)
    BY <1>11, <1>12, <1>13, Zenon DEF Laid
  <1>15. n + 1 \in 1..Len(v.script) /\ 1 \in 1..Len(Log(v))
    <2>1. \A i, j, k, m \in Nat : i = j - k - m /\ k # 0 => i + 1 \in 1..j /\ 1 \in 1..k
      OBVIOUS
    <2>2. Len(Log(v)) \in Nat /\ Len(Log(v)) # 0
      BY <1>4
    <2> QED BY <1>5, <1>6, <2>1, <2>2
  <1> QED BY <1>3, <1>4, <1>5, <1>7, <1>8, <1>14, <1>15 DEF n

\* Reading the next line of the script keeps the tally.
LEMMA TallyRead ==
    ASSUME NEW v \in SupType, NEW w, NEW script \in Seq(Line), NEW n \in Nat,
           n + 1 \in 1..Len(script), EndsStarted(script),
           Tallied(v, script, n), Absorbs(v, w, script[n + 1])
    PROVE  Tallied(w, script, n + 1)
  <1>1. ~ v.started
    BY DEF Tallied
  <1>2. w.started => n + 1 = Len(script)
    BY <1>1 DEF Absorbs, EndsStarted
  <1>3. /\ Among(script, n + 1, "read") = Among(script, n, "read") + (IF script[n + 1] = "read" THEN 1 ELSE 0)
        /\ Among(script, n + 1, "skip") = Among(script, n, "skip") + (IF script[n + 1] = "skip" THEN 1 ELSE 0)
        /\ Among(script, n + 1, "ca") = Among(script, n, "ca") + (IF script[n + 1] = "ca" THEN 1 ELSE 0)
        /\ Among(script, n + 1, "vical") = Among(script, n, "vical") + (IF script[n + 1] = "vical" THEN 1 ELSE 0)
    BY AmongCounts
  <1> QED BY <1>2, <1>3 DEF Tallied, Absorbs

---------------------------------------------------------------------------
(* What start() decides on is so of the child.                             *)

\* Before the first start nothing was logged.
Fresh(s) ==
    sup[s].starts = 0 => ~ sup[s].started /\ kid[s].script = <<>> /\ kid[s].todo = <<>>

Positions(s) ==
    sup[s].starts <= 1 =>
        Laid(kid[s]) /\ Tallied(sup[s], kid[s].script, ReadOf(kid[s]))

\* A service that asks /healthz has read all that its first child logs.
AliveMeansLoaded(s) == sup[s].pc = "alive" => sup[s].starts = 1 /\ loaded(s)

\* What is said of the child, reason by reason.
Accurate(s) ==
    /\ sup[s].why \in {"spawn", "exited"} => Gone(s)
    /\ sup[s].why = "empty" => sup[s].expected = 0
    /\ sup[s].why = "corrupt" => Truth(s, "skip") > 0
    /\ sup[s].why = "vical" => Truth(s, "vical") > 0 /\ ~ sup[s].vicalUrl
    /\ sup[s].why = "truncated" => Truth(s, "ca") < sup[s].anchorsExpected
    /\ sup[s].why = "noAnchors" => Truth(s, "ca") = 0 /\ Truth(s, "vical") = 0

\* The reason is true from the moment start() settles on it.
ReasonTrue(s) == sup[s].pc \in {"stopping", "failed"} /\ sup[s].starts = 1 => Accurate(s)

Judged(s) == Fresh(s) /\ Positions(s) /\ AliveMeansLoaded(s) /\ ReasonTrue(s)

IInv == Safe /\ \A s \in Service : Judged(s)

LEMMA Counts ==
    ASSUME NEW v \in SupType
    PROVE  /\ v.circuits \in Nat /\ v.skipped \in Nat /\ v.anchors \in Nat /\ v.vical \in Nat
           /\ v.expected \in Nat /\ v.anchorsExpected \in Nat /\ v.vicalUrl \in BOOLEAN
  BY DEF SupType

\* Once "started" was read the counts are the truth, and no count is ever beyond it.
LEMMA ReadIsTrue ==
    ASSUME Safe, NEW s \in Service, Positions(s), sup[s].starts = 1
    PROVE  /\ sup[s].skipped > 0 => Truth(s, "skip") > 0
           /\ sup[s].started =>
                /\ sup[s].circuits = Truth(s, "read") /\ sup[s].anchors = Truth(s, "ca")
                /\ sup[s].vical = Truth(s, "vical")
  <1> DEFINE script == kid[s].script
             n == ReadOf(kid[s])
  <1>1. script \in Seq(Line) /\ sup[s] \in SupType /\ kid[s] \in KidType
    BY Known DEF KidType
  <1>2. /\ Laid(kid[s]) /\ n \in Nat /\ Tallied(sup[s], script, n)
    BY DEF Positions, Laid
  <1>3. n <= Len(script) /\ Len(script) \in Nat
    <2>1. "started" \in Line
      BY DEF Line
    <2>2. StreamOf["started"] \in Stream
      BY <2>1
    <2>3. Log(kid[s]) \in Seq(Line) /\ kid[s].todo \in Seq(Line)
      BY <1>1, <2>2 DEF KidType, Log
    <2>4. Len(Log(kid[s])) \in Nat /\ Len(kid[s].todo) \in Nat /\ Len(script) \in Nat
      BY <1>1, <2>3
    <2>5. n = Len(script) - Len(Log(kid[s])) - Len(kid[s].todo)
      BY DEF ReadOf
    <2>6. \A i, j, k \in Nat : j - i - k <= j
      OBVIOUS
    <2> HIDE DEF n, script
    <2> QED BY <2>4, <2>5, <2>6
  <1>4. \A l : Truth(s, l) = Among(script, Len(script), l)
    <2>1. DOMAIN script = 1..Len(script)
      BY <1>1
    <2> QED BY <2>1 DEF Truth, Among
  <1> HIDE DEF n, script
  <1>5. sup[s].skipped = Among(script, n, "skip") /\ n \in 0..Len(script)
    BY <1>2, <1>3 DEF Tallied
  <1>6. /\ Among(script, n, "skip") \in Nat /\ Among(script, Len(script), "skip") \in Nat
        /\ Among(script, n, "skip") <= Among(script, Len(script), "skip")
    BY <1>2, <1>3, <1>5, AmongCounts
  <1>7. sup[s].skipped > 0 => Truth(s, "skip") > 0
    BY <1>4, <1>5, <1>6
  <1>8. sup[s].started =>
          /\ sup[s].circuits = Truth(s, "read") /\ sup[s].anchors = Truth(s, "ca")
          /\ sup[s].vical = Truth(s, "vical")
    BY <1>2, <1>4 DEF Tallied
  <1> QED BY <1>7, <1>8

\* A step that reads nothing of the log keeps what is known of it.
LEMMA JudgedStill ==
    ASSUME Safe, NEW s \in Service, Judged(s),
           SameLog(sup[s], sup'[s]), SameChild(kid[s], kid'[s]), Gone(s) => Gone(s)',
           sup'[s].pc = "alive" => sup[s].pc = "alive" \/ (sup[s].starts = 1 /\ loaded(s)),
           \/ sup'[s].pc \notin {"stopping", "failed"}
           \/ sup[s].pc \in {"stopping", "failed"} /\ sup'[s].why = sup[s].why
           \/ sup[s].starts = 1 => Accurate(s)'
    PROVE  Judged(s)'
  <1>1. Fresh(s)'
    BY DEF Judged, Fresh, SameLog, SameChild
  <1>2. Positions(s)'
    <2>1. ReadOf(kid'[s]) = ReadOf(kid[s]) /\ (Laid(kid[s]) => Laid(kid'[s]))
      BY DEF SameChild, ReadOf, Log, Laid
    <2>2. Tallied(sup[s], kid[s].script, ReadOf(kid[s])) => Tallied(sup'[s], kid'[s].script, ReadOf(kid[s]))
      BY DEF SameLog, SameChild, Tallied
    <2>3. Laid(kid[s])' <=> Laid(kid'[s])
      BY DEF Laid, ReadOf, Log
    <2>4. Tallied(sup[s], kid[s].script, ReadOf(kid[s]))' <=> Tallied(sup'[s], kid'[s].script, ReadOf(kid'[s]))
      BY DEF Tallied, ReadOf, Log, Among
    <2>5. sup'[s].starts = sup[s].starts
      BY DEF SameLog
    <2> QED BY <2>1, <2>2, <2>3, <2>4, <2>5 DEF Judged, Positions
  <1>3. AliveMeansLoaded(s)'
    BY DEF Judged, AliveMeansLoaded, SameLog, loaded
  <1>4. ReasonTrue(s)'
    <2>1. \A l : Truth(s, l)' = Truth(s, l)
      BY DEF Truth, SameChild
    <2>2. ASSUME sup'[s].why = sup[s].why, Accurate(s) PROVE Accurate(s)'
      BY <2>1, <2>2 DEF Accurate, SameLog
    <2>3. sup'[s].starts = sup[s].starts
      BY DEF SameLog
    <2> QED BY <2>2, <2>3 DEF Judged, ReasonTrue
  <1> QED BY <1>1, <1>2, <1>3, <1>4 DEF Judged

LEMMA JudgedElsewhere ==
    ASSUME IInv, NEW s \in Service, Elsewhere(s), NEW t \in Service \ {s}
    PROVE  Judged(t)'
  <1>1. sup'[t] = sup[t] /\ kid'[t] = kid[t] /\ Judged(t)
    BY DEF Elsewhere, IInv
  <1>2. Safe /\ SameLog(sup[t], sup'[t]) /\ SameChild(kid[t], kid'[t]) /\ (Gone(t) => Gone(t)')
    BY <1>1 DEF IInv, SameLog, SameChild, Gone, Running
  <1> QED BY <1>1, <1>2, JudgedStill

\* What start() knows when it settles on a reason is enough for it to be true.
LEMMA Reasoned ==
    ASSUME NEW s \in Service, NEW why, Reasons(s, why), why \in {"empty", "timeout", "corrupt"}
    PROVE  /\ why = "empty" => sup[s].expected = 0
           /\ why = "corrupt" => sup[s].skipped > 0
  BY DEF Reasons, untrustworthy

LEMMA RefusesTruly ==
    ASSUME Safe, NEW s \in Service, Judged(s), sup[s].starts = 1,
           NEW why \in SupWhy, Refuses(s, why), Reasons(s, why)
    PROVE  Accurate(s)'
  <1>1. /\ sup'[s].why = why /\ SameLog(sup[s], sup'[s]) /\ kid' = kid
    BY DEF Refuses, Supervises, Becomes
  <1>2. \A l : Truth(s, l)' = Truth(s, l)
    BY <1>1 DEF Truth
  <1>3. /\ sup[s].skipped > 0 => Truth(s, "skip") > 0
        /\ sup[s].started =>
             sup[s].anchors = Truth(s, "ca") /\ sup[s].vical = Truth(s, "vical")
    BY ReadIsTrue DEF Judged
  <1>4. CASE why \in {"empty", "timeout", "corrupt"}
    <2>1. why = "empty" => sup'[s].expected = 0
      BY <1>1, <1>4, Reasoned DEF SameLog
    <2>2. why = "corrupt" => Truth(s, "skip") > 0
      BY <1>3, <1>4, Reasoned
    <2> QED BY <1>1, <1>2, <1>4, <2>1, <2>2 DEF Accurate
  <1>5. CASE why \notin {"empty", "timeout", "corrupt"}
    <2>1. why = untrustworthy(sup[s]) /\ why # "" /\ sup[s].pc = "alive"
      BY <1>5 DEF Reasons
    <2>2. sup[s].started
      BY <2>1 DEF Judged, AliveMeansLoaded, loaded
    <2>3. sup[s].anchors \in Nat /\ sup[s].vical \in Nat /\ sup[s].anchorsExpected \in Nat
      BY Known, Counts
    <2>4. /\ why \in {"vical", "truncated", "noAnchors"}
          /\ why = "vical" => sup[s].vical > 0 /\ ~ sup[s].vicalUrl
          /\ why = "truncated" => sup[s].anchors < sup[s].anchorsExpected
          /\ why = "noAnchors" => sup[s].anchors + sup[s].vical = 0
      BY <2>1 DEF untrustworthy
    <2>5. why = "noAnchors" => sup[s].anchors = 0 /\ sup[s].vical = 0
      BY <2>3, <2>4
    <2> QED BY <1>1, <1>2, <1>3, <2>2, <2>4, <2>5 DEF Accurate, SameLog
  <1> QED BY <1>4, <1>5

\* An 'error' event ends a start() that waits for the spawn, and changes no other reason.
LEMMA JudgedErrs ==
    ASSUME Safe, NEW s \in Service, Judged(s), Errs(s)
    PROVE  Judged(s)' /\ Elsewhere(s) /\ ~ sup'[s].ready
  <1>1. /\ SameLog(sup[s], sup'[s]) /\ SameChild(kid[s], kid'[s]) /\ (Gone(s) => Gone(s)')
        /\ sup'[s].pc = ErrPC(sup[s].pc) /\ sup'[s].why = ErrWhy(sup[s].pc, sup[s].why)
        /\ sup'[s].exit = ErrExit(sup[s].exit) /\ sup'[s].ready = FALSE /\ Elsewhere(s)
    BY DEF Errs, Supervises, Becomes, SameChild
  <1>2. CASE sup[s].pc = "spawning"
    <2>1. sup'[s].pc = "failed" /\ sup'[s].why = "spawn"
      BY <1>1, <1>2 DEF ErrPC, ErrWhy
    <2>2. sup[s].starts = 1 => Gone(s)'
      <3>1. CASE sup[s].exit = "no"
        BY <1>1, <3>1 DEF ErrExit, Gone
      <3>2. CASE sup[s].exit # "no"
        BY <1>1, <3>2, Known DEF ExitKnown, Gone, SupType
      <3> QED BY <3>1, <3>2
    <2>3. sup[s].starts = 1 => Accurate(s)'
      BY <2>1, <2>2 DEF Accurate
    <2> QED BY <1>1, <2>1, <2>3, JudgedStill
  <1>3. CASE sup[s].pc # "spawning"
    <2>1. sup'[s].pc = sup[s].pc /\ sup'[s].why = sup[s].why
      BY <1>1, <1>3 DEF ErrPC, ErrWhy
    <2> QED BY <1>1, <2>1, JudgedStill
  <1> QED BY <1>2, <1>3

LEMMA JudgedStarting ==
    ASSUME IInv, NEW s \in Service, Starting(s)
    PROVE  Judged(s)'
  <1>1. Safe /\ Judged(s) /\ ExitKnown(s)
    BY Known DEF IInv
  <1>2. ASSUME NEW pc, NEW why, NEW exit, NEW ready, Supervises(s, pc, why, exit, ready)
        PROVE  /\ SameLog(sup[s], sup'[s]) /\ SameChild(kid[s], kid'[s]) /\ (Gone(s) => Gone(s)')
               /\ sup'[s].pc = pc /\ sup'[s].why = why
    BY <1>2 DEF Supervises, Becomes, SameChild
  <1>3. CASE Errs(s)
    BY <1>1, <1>3, JudgedErrs
  <1>5. CASE Supervises(s, "failed", "exited", sup[s].exit, sup[s].ready) /\ sup[s].exit # "no"
    <2>1. sup[s].starts = 1 => Gone(s)
      BY <1>1, <1>5, Known DEF ExitKnown, Gone, SupType
    <2>2. /\ SameLog(sup[s], sup'[s]) /\ SameChild(kid[s], kid'[s]) /\ (Gone(s) => Gone(s)')
          /\ sup'[s].pc = "failed" /\ sup'[s].why = "exited"
      BY <1>2, <1>5
    <2>3. sup[s].starts = 1 => Accurate(s)'
      BY <2>1, <2>2 DEF Accurate
    <2> QED BY <1>1, <2>2, <2>3, JudgedStill
  <1>6. CASE Stays(s, "loop")
    <2>1. sup'[s].pc = "loop" /\ SameLog(sup[s], sup'[s]) /\ SameChild(kid[s], kid'[s])
          /\ (Gone(s) => Gone(s)')
      BY <1>2, <1>6 DEF Stays
    <2> QED BY <1>1, <2>1, JudgedStill
  <1>7. CASE Stays(s, "alive") /\ sup[s].exit = "no" /\ loaded(s)
    <2>1. sup'[s].pc = "alive" /\ SameLog(sup[s], sup'[s]) /\ SameChild(kid[s], kid'[s])
          /\ (Gone(s) => Gone(s)')
      BY <1>2, <1>7 DEF Stays
    <2>2. sup[s].starts = 1
      <3>1. sup[s].starts # 0
        BY <1>1, StartingOne
      <3>2. sup[s].starts \in Nat /\ ~ (sup[s].starts > 1)
        BY <1>1, <1>7, Known, Counted DEF ExitKnown
      <3> QED BY <3>1, <3>2
    <2> QED BY <1>1, <1>7, <2>1, <2>2, JudgedStill
  <1>8. CASE \E why \in SupWhy : Refuses(s, why) /\ Reasons(s, why)
    <2>1. PICK why \in SupWhy : Refuses(s, why) /\ Reasons(s, why)
      BY <1>8
    <2>2. sup'[s].pc = "stopping" /\ SameLog(sup[s], sup'[s]) /\ SameChild(kid[s], kid'[s])
          /\ (Gone(s) => Gone(s)')
      BY <1>2, <2>1 DEF Refuses
    <2>3. sup[s].starts = 1 => Accurate(s)'
      BY <1>1, <2>1, RefusesTruly
    <2> QED BY <1>1, <2>2, <2>3, JudgedStill
  <1>9. CASE \E why \in {"", "policy"} :
                 /\ Supervises(s, "up", why, sup[s].exit, TRUE)
                 /\ sup[s].pc = "alive" /\ untrustworthy(sup[s]) = ""
    <2>1. sup'[s].pc = "up" /\ SameLog(sup[s], sup'[s]) /\ SameChild(kid[s], kid'[s])
          /\ (Gone(s) => Gone(s)')
      BY <1>2, <1>9
    <2> QED BY <1>1, <2>1, JudgedStill
  <1>10. CASE Stays(s, "failed") /\ sup[s].pc = "stopping"
    <2>1. sup'[s].pc = "failed" /\ SameLog(sup[s], sup'[s]) /\ SameChild(kid[s], kid'[s])
          /\ (Gone(s) => Gone(s)') /\ sup'[s].why = sup[s].why
      BY <1>2, <1>10 DEF Stays
    <2> QED BY <1>1, <1>10, <2>1, JudgedStill
  <1>11. CASE Supervises(s, "failed", "signal", sup[s].exit, sup[s].ready) /\ sup[s].pc = "stopping"
    <2>1. /\ sup'[s].pc = "failed" /\ SameLog(sup[s], sup'[s]) /\ SameChild(kid[s], kid'[s])
          /\ (Gone(s) => Gone(s)') /\ sup'[s].why = "signal"
      BY <1>2, <1>11
    <2>2. Accurate(s)'
      BY <2>1 DEF Accurate
    <2> QED BY <1>1, <2>1, <2>2, JudgedStill
  <1> QED BY <1>1, <1>3, <1>5, <1>6, <1>7, <1>8, <1>9, <1>10, <1>11, SafeStarting

\* The child writes a line or ends; the supervisor reads one.
LEMMA JudgedWrite ==
    ASSUME SharedStream, IInv, NEW s \in Service, Write(s)
    PROVE  Judged(s)'
  <1> DEFINE l == Head(kid[s].todo)
  <1>1. Safe /\ Judged(s) /\ kid[s] \in KidType
    BY Known DEF IInv
  <1>2. /\ UNCHANGED <<sup, stop, port>> /\ l \in Line /\ Writes(kid[s], kid'[s], l)
    BY <1>1, SafeWrite
  <1>3. kid[s].todo # <<>> /\ kid[s].proc = "loading"
    BY <1>1, Known DEF Write, LoadsToTheEnd
  <1> HIDE DEF l
  <1>4. sup' = sup /\ kid'[s].script = kid[s].script /\ sup[s].starts # 0
    BY <1>1, <1>2, <1>3, Known DEF Writes
  <1>5. Fresh(s)' /\ AliveMeansLoaded(s)'
    BY <1>1, <1>4 DEF Judged, Fresh, AliveMeansLoaded, loaded
  <1>6. Positions(s)'
    <2>1. SUFFICES ASSUME sup[s].starts <= 1
                   PROVE  Laid(kid'[s]) /\ Tallied(sup[s], kid[s].script, ReadOf(kid'[s]))
      BY <1>4 DEF Positions, Laid, Tallied, ReadOf, Log, Among
    <2>2. Laid(kid[s]) /\ Tallied(sup[s], kid[s].script, ReadOf(kid[s]))
      BY <1>1, <2>1 DEF Judged, Positions
    <2>3. Laid(kid'[s]) /\ ReadOf(kid'[s]) = ReadOf(kid[s])
      BY <1>1, <1>2, <1>3, <2>2, LaidWrite DEF l
    <2> QED BY <2>2, <2>3
  <1>7. ReasonTrue(s)'
    <2>1. Gone(s) => Gone(s)'
      BY <1>3, <1>4 DEF Gone, Running
    <2>2. \A k : Truth(s, k)' = Truth(s, k)
      BY <1>4 DEF Truth
    <2> QED BY <1>1, <1>4, <2>1, <2>2 DEF Judged, ReasonTrue, Accurate
  <1> QED BY <1>5, <1>6, <1>7 DEF Judged

LEMMA JudgedAbsorb ==
    ASSUME IInv, NEW s \in Service, NEW x \in Stream, Absorb(s, x)
    PROVE  Judged(s)'
  <1> DEFINE l == Head(kid[s].pipe[x])
             n == ReadOf(kid[s])
  <1>1. Safe /\ Judged(s) /\ kid[s] \in KidType /\ sup[s] \in SupType /\ kid[s].pipe[x] # <<>>
    BY Known DEF IInv, Absorb
  <1>2. /\ l \in Line /\ Absorbs(sup[s], sup'[s], l)
        /\ kid'[s].script = kid[s].script /\ kid'[s].todo = kid[s].todo
        /\ kid'[s].proc = kid[s].proc
        /\ kid'[s].pipe[x] = Tail(kid[s].pipe[x])
        /\ \A y \in Stream \ {x} : kid'[s].pipe[y] = kid[s].pipe[y]
    BY <1>1, SafeAbsorb
  <1>3. kid[s].script \in Seq(Line)
    BY <1>1 DEF KidType
  <1>4. /\ sup'[s].starts = sup[s].starts /\ sup'[s].pc = sup[s].pc /\ sup'[s].why = sup[s].why
        /\ sup'[s].expected = sup[s].expected /\ sup'[s].anchorsExpected = sup[s].anchorsExpected
        /\ sup'[s].vicalUrl = sup[s].vicalUrl
    BY <1>2 DEF Absorbs
  <1>5. ASSUME sup[s].starts <= 1
        PROVE  /\ Laid(kid'[s]) /\ Tallied(sup'[s], kid'[s].script, ReadOf(kid'[s]))
               /\ n \in Nat /\ n + 1 \in 1..Len(kid[s].script)
    <2>1. Laid(kid[s]) /\ Tallied(sup[s], kid[s].script, n)
      BY <1>1, <1>5 DEF Judged, Positions
    <2>2. /\ Laid(kid'[s]) /\ ReadOf(kid'[s]) = n + 1
          /\ n \in Nat /\ n + 1 \in 1..Len(kid[s].script)
          /\ l = kid[s].script[n + 1]
      BY <1>1, <1>2, <2>1, LaidRead
    <2>3. EndsStarted(kid[s].script)
      BY <2>1 DEF Laid
    <2> HIDE DEF n, l
    <2>4. Tallied(sup'[s], kid[s].script, n + 1)
      BY <1>1, <1>2, <1>3, <2>1, <2>2, <2>3, TallyRead
    <2> QED BY <1>2, <2>2, <2>4
  <1>6. Positions(s)'
    BY <1>4, <1>5 DEF Positions, Laid, Tallied, ReadOf, Log, Among
  <1>7. Fresh(s)'
    <2>1. sup[s].starts # 0
      <3>1. SUFFICES ASSUME sup[s].starts = 0 PROVE FALSE
        OBVIOUS
      <3>2. kid[s].script = <<>> /\ n \in Nat /\ n + 1 \in 1..Len(kid[s].script)
        BY <1>1, <1>5, <3>1 DEF Judged, Fresh
      <3> QED BY <3>2
    <2> QED BY <1>4, <2>1 DEF Fresh
  <1>8. AliveMeansLoaded(s)'
    <2>1. sup[s].circuits \in Nat /\ sup[s].expected \in Nat
      BY <1>1, Counts
    <2>2. /\ sup[s].started => sup'[s].started
          /\ sup'[s].circuits = sup[s].circuits + (IF l = "read" THEN 1 ELSE 0)
      BY <1>2 DEF Absorbs
    <2> HIDE DEF l
    <2>3. sup[s].circuits >= sup[s].expected => sup'[s].circuits >= sup[s].expected
      BY <2>1, <2>2
    <2> QED BY <1>1, <1>4, <2>2, <2>3 DEF Judged, AliveMeansLoaded, loaded
  <1>9. ReasonTrue(s)'
    <2>1. Gone(s)' <=> Gone(s)
      BY <1>2 DEF Gone, Running, Absorbs
    <2>2. \A k : Truth(s, k)' = Truth(s, k)
      BY <1>2 DEF Truth
    <2> QED BY <1>1, <1>4, <2>1, <2>2 DEF Judged, ReasonTrue, Accurate
  <1> QED BY <1>6, <1>7, <1>8, <1>9 DEF Judged

\* A first start() begins with nothing read and the whole script to come.
LEMMA JudgedStart ==
    ASSUME IInv, NEW s \in Service, NEW e \in CircuitCounts, NEW a \in AnchorCounts, Start(s, e, a)
    PROVE  Judged(s)'
  <1>1. Safe /\ Judged(s) /\ kid[s] \in KidType /\ sup[s] \in SupType /\ sup[s].starts \in Nat
    BY Known, Counted DEF IInv
  <1>2. /\ Safe' /\ Begins(sup[s], sup'[s])
        /\ kid'[s].pipe = kid[s].pipe /\ kid'[s].todo = kid'[s].script
        /\ \/ kid'[s].script \in Scripts(s, e, a) /\ EndsStarted(kid'[s].script)
           \/ kid'[s].script = <<>> /\ kid'[s].proc = "none"
    BY <1>1, SafeStart
  <1>3. /\ sup'[s].pc = "spawning" /\ sup'[s].starts = sup[s].starts + 1
        /\ sup'[s].started = sup[s].started /\ sup'[s].circuits = sup[s].circuits
        /\ sup'[s].skipped = sup[s].skipped /\ sup'[s].anchors = sup[s].anchors
        /\ sup'[s].vical = sup[s].vical
    BY <1>2 DEF Begins
  <1>4. sup'[s].starts # 0
    BY <1>1, <1>3
  <1>5. Fresh(s)' /\ AliveMeansLoaded(s)' /\ ReasonTrue(s)'
    BY <1>3, <1>4 DEF Fresh, AliveMeansLoaded, ReasonTrue
  <1>6. ASSUME sup'[s].starts <= 1
        PROVE  Laid(kid'[s]) /\ Tallied(sup'[s], kid'[s].script, ReadOf(kid'[s]))
    <2>1. sup[s].starts = 0
      BY <1>1, <1>3, <1>6
    <2>2. /\ ~ sup[s].started /\ kid[s].script = <<>> /\ kid[s].todo = <<>>
          /\ Laid(kid[s]) /\ Tallied(sup[s], kid[s].script, ReadOf(kid[s]))
      BY <1>1, <2>1 DEF Judged, Fresh, Positions
    <2>3. Log(kid[s]) \in Seq(Line)
      <3>1. StreamOf["started"] \in Stream
        BY DEF Line
      <3> QED BY <1>1, <3>1 DEF Log, KidType
    <2>4. Len(Log(kid[s])) = 0 /\ ReadOf(kid[s]) = 0
      <3>1. ReadOf(kid[s]) \in Nat /\ ReadOf(kid[s]) = 0 - Len(Log(kid[s])) - 0
        BY <2>2 DEF Laid, ReadOf
      <3> QED BY <2>3, <3>1
    <2>5. Log(kid'[s]) = Log(kid[s]) /\ EndsStarted(kid'[s].script) /\ Len(kid'[s].script) \in Nat
      <3>1. Log(kid'[s]) = Log(kid[s])
        BY <1>2 DEF Log
      <3>2. EndsStarted(kid'[s].script)
        BY <1>2 DEF EndsStarted
      <3>3. kid'[s].script \in Seq(Line)
        BY <1>2 DEF Safe, TypeOK, KidType
      <3> QED BY <3>1, <3>2, <3>3
    <2>6. ReadOf(kid'[s]) = 0
      <3>1. ReadOf(kid'[s]) = Len(kid'[s].script) - 0 - Len(kid'[s].script)
        BY <1>2, <2>4, <2>5 DEF ReadOf
      <3> QED BY <2>5, <3>1
    <2>7. \A x \in Stream \ {StreamOf["started"]} : kid'[s].pipe[x] = <<>>
      BY <1>2, <2>2 DEF Laid
    <2>8. /\ ReadOf(kid'[s]) \in Nat
          /\ \A i \in 1..Len(Log(kid'[s])) :
                Log(kid'[s])[i] = kid'[s].script[ReadOf(kid'[s]) + i]
          /\ \A i \in 1..Len(kid'[s].todo) :
                kid'[s].todo[i] = kid'[s].script[ReadOf(kid'[s]) + Len(Log(kid'[s])) + i]
      BY <1>2, <2>4, <2>5, <2>6
    <2>9. Laid(kid'[s])
      BY <2>5, <2>7, <2>8, Zenon DEF Laid
    <2>10. \A q, k : Among(q, 0, k) = 0
      BY AmongCounts
    <2>11. Tallied(sup'[s], kid'[s].script, 0)
      BY <1>3, <2>2, <2>4, <2>10 DEF Tallied
    <2> QED BY <2>6, <2>9, <2>11
  <1>7. Positions(s)'
    BY <1>6 DEF Positions, Laid, Tallied, ReadOf, Log, Among
  <1> QED BY <1>5, <1>7 DEF Judged

LEMMA IndInit == Init => IInv
  <1> SUFFICES ASSUME Init, Safe, NEW s \in Service PROVE Judged(s)
    BY SafeInit DEF IInv
  <1>1. PICK url \in [Service -> BOOLEAN] :
           sup = [r \in Service |->
                   [pc |-> "new", starts |-> 0, ready |-> FALSE, started |-> FALSE, exit |-> "no",
                    circuits |-> 0, expected |-> 0, skipped |-> 0,
                    anchors |-> 0, anchorsExpected |-> 0, vical |-> 0,
                    late |-> FALSE, healthy |-> FALSE, vicalUrl |-> url[r],
                    why |-> ""]]
    BY DEF Init
  <1>2. /\ sup[s].pc = "new" /\ sup[s].starts = 0 /\ ~ sup[s].started
        /\ sup[s].circuits = 0 /\ sup[s].skipped = 0 /\ sup[s].anchors = 0 /\ sup[s].vical = 0
    BY <1>1
  <1>3. kid[s].script = <<>> /\ kid[s].todo = <<>> /\ \A x \in Stream : kid[s].pipe[x] = <<>>
    BY DEF Init
  <1>4. Log(kid[s]) = <<>>
    BY <1>3 DEF Log, Line
  <1>5. ReadOf(kid[s]) = 0
    <2>1. Len(<<>>) = 0
      OBVIOUS
    <2>2. ReadOf(kid[s]) = 0 - 0 - 0
      BY <1>3, <1>4, <2>1 DEF ReadOf
    <2> QED BY <2>2
  <1>6. Laid(kid[s])
    BY <1>3, <1>4, <1>5 DEF Laid, EndsStarted
  <1>7. \A q, k : Among(q, 0, k) = 0
    BY AmongCounts
  <1>8. Tallied(sup[s], kid[s].script, 0)
    BY <1>2, <1>7 DEF Tallied
  <1> QED BY <1>2, <1>3, <1>5, <1>6, <1>8 DEF Judged, Fresh, Positions, AliveMeansLoaded, ReasonTrue

\* The steps that neither read, write nor decide.
LEMMA JudgedQuiet ==
    ASSUME IInv, NEW s \in Service,
           \/ ExitEvent(s) \/ ErrorEvent(s) \/ DeadlinePasses(s) \/ HealthzAnswers(s) \/ UserStops(s)
           \/ Bind(s) \/ Die(s) \/ \E c \in Caller : Stopping(s, c)
    PROVE  Judged(s)' /\ Elsewhere(s) /\ (sup'[s].ready => sup[s].ready)
  <1>1. Safe /\ Judged(s)
    BY DEF IInv
  <1>2. ASSUME SameLog(sup[s], sup'[s]), SameChild(kid[s], kid'[s]), Gone(s) => Gone(s)',
               sup'[s].pc = sup[s].pc, sup'[s].why = sup[s].why
        PROVE  Judged(s)'
    BY <1>1, <1>2, JudgedStill
  <1>3. ASSUME NEW exit, NEW ready, Supervises(s, sup[s].pc, sup[s].why, exit, ready),
               ready => sup[s].ready
        PROVE  Judged(s)' /\ Elsewhere(s) /\ (sup'[s].ready => sup[s].ready)
    <2>1. SameLog(sup[s], sup'[s]) /\ SameChild(kid[s], kid'[s]) /\ (Gone(s) => Gone(s)')
      BY <1>3 DEF Supervises, Becomes, SameChild
    <2>2. sup'[s].pc = sup[s].pc /\ sup'[s].why = sup[s].why /\ sup'[s].ready = ready /\ Elsewhere(s)
      BY <1>3 DEF Supervises, Becomes
    <2> QED BY <1>2, <1>3, <2>1, <2>2
  <1>4. CASE ExitEvent(s)
    BY <1>1, <1>3, <1>4, SafeEvent
  <1>5. CASE DeadlinePasses(s) \/ HealthzAnswers(s)
    <2>1. Supervises(s, sup[s].pc, sup[s].why, sup[s].exit, sup[s].ready)
      BY <1>1, <1>5, SafeEvent
    <2> QED BY <1>3, <2>1
  <1>6. CASE UserStops(s)
    BY <1>1, <1>3, <1>6, SafeUserStops, JudgedErrs
  <1>7. CASE Bind(s) \/ Die(s)
    BY <1>1, <1>2, <1>7, SafeChild DEF SameLog
  <1>8. CASE \E c \in Caller : Stopping(s, c)
    <2>1. PICK c \in Caller : Stopping(s, c)
      BY <1>8
    <2>2. CASE Errs(s)
      BY <1>1, <2>2, JudgedErrs
    <2>3. CASE ~ Errs(s)
      <3>1. /\ Elsewhere(s) /\ sup' = sup
            /\ SameChild(kid[s], kid'[s]) /\ kid'[s].proc = kid[s].proc
        BY <1>1, <2>1, <2>3, SafeStopping
      <3>2. Gone(s) => Gone(s)'
        BY <3>1 DEF Gone, Running
      <3> QED BY <1>2, <3>1, <3>2 DEF SameLog
    <2> QED BY <2>2, <2>3
  <1>9. CASE ErrorEvent(s)
    BY <1>1, <1>9, SafeEvent, JudgedErrs
  <1> QED BY <1>4, <1>5, <1>6, <1>7, <1>8, <1>9

LEMMA IndStep == SharedStream /\ IInv /\ [Next]_vars => IInv'
  <1> SUFFICES ASSUME SharedStream, IInv, [Next]_vars PROVE IInv'
    OBVIOUS
  <1>1. Safe /\ Safe'
    BY SafeStep DEF IInv
  <1>2. ASSUME NEW s \in Service, Elsewhere(s), Judged(s)' PROVE IInv'
    BY <1>1, <1>2, JudgedElsewhere DEF IInv
  <1>3. CASE UNCHANGED vars
    <2>1. ASSUME NEW s \in Service PROVE Judged(s)'
      <3>1. Judged(s) /\ sup' = sup /\ kid' = kid
        BY <1>3 DEF IInv, vars
      <3>2. SameLog(sup[s], sup'[s]) /\ SameChild(kid[s], kid'[s]) /\ (Gone(s) => Gone(s)')
        BY <3>1 DEF SameLog, SameChild, Gone, Running
      <3> QED BY <1>1, <3>1, <3>2, JudgedStill
    <2> QED BY <1>1, <2>1 DEF IInv
  <1>4. ASSUME NEW s \in Service, NEW e \in CircuitCounts, NEW a \in AnchorCounts, Start(s, e, a)
        PROVE  IInv'
    BY <1>1, <1>2, <1>4, SafeStart, JudgedStart
  <1>5. ASSUME NEW s \in Service, Write(s) PROVE IInv'
    BY <1>1, <1>2, <1>5, SafeWrite, JudgedWrite
  <1>6. ASSUME NEW s \in Service, NEW x \in Stream, Absorb(s, x) PROVE IInv'
    BY <1>1, <1>2, <1>6, SafeAbsorb, JudgedAbsorb
  <1>7. ASSUME NEW s \in Service, Starting(s) PROVE IInv'
    BY <1>1, <1>2, <1>7, SafeStarting, JudgedStarting DEF Supervises, Stays, Refuses, Errs
  <1>8. ASSUME NEW s \in Service,
               \/ ExitEvent(s) \/ ErrorEvent(s) \/ DeadlinePasses(s) \/ HealthzAnswers(s) \/ UserStops(s)
               \/ Bind(s) \/ Die(s) \/ \E c \in Caller : Stopping(s, c)
        PROVE  IInv'
    BY <1>2, <1>8, JudgedQuiet
  <1> QED BY <1>3, <1>4, <1>5, <1>6, <1>7, <1>8 DEF Next, Child

\* Of a child that logs on one stream, what a rejected first start() says is so.
THEOREM RefusalsAreTrue == ASSUME SharedStream PROVE Spec => []RefusalIsTrue
  <1>1. IInv => RefusalIsTrue
    <2> SUFFICES ASSUME IInv, NEW s \in Service, sup[s].pc = "failed", sup[s].starts = 1
                 PROVE  CASE sup[s].why \in {"spawn", "exited"} -> Gone(s)
                          [] sup[s].why = "empty"     -> sup[s].expected = 0
                          [] sup[s].why = "corrupt"   -> Truth(s, "skip") > 0
                          [] sup[s].why = "vical"     -> Truth(s, "vical") > 0 /\ ~ sup[s].vicalUrl
                          [] sup[s].why = "truncated" -> Truth(s, "ca") < sup[s].anchorsExpected
                          [] sup[s].why = "noAnchors" -> Truth(s, "ca") = 0 /\ Truth(s, "vical") = 0
                          [] OTHER -> TRUE
      BY DEF RefusalIsTrue
    <2>1. Accurate(s)
      BY DEF IInv, Judged, ReasonTrue
    <2> QED BY <2>1 DEF Accurate
  <1>2. SharedStream /\ IInv /\ [Next]_vars => IInv'
    BY IndStep
  <1> QED BY <1>1, <1>2, IndInit, PTL DEF Spec

LEMMA Enough ==
    ASSUME NEW i \in Nat, NEW j \in Nat, NEW k \in Nat, ~ (i < j), i + k # 0
    PROVE  i >= j /\ i + k > 0
  OBVIOUS

\* A service becomes ready over a child it has read to the end, and judged by all of it.
LEMMA BecomesWhole ==
    ASSUME IInv, NEW s \in Service, Starting(s), ~ sup[s].ready, sup'[s].ready
    PROVE  Whole(s)'
  <1>1. Safe /\ Judged(s) /\ sup[s] \in SupType
    BY Known DEF IInv
  <1>2. PICK why \in {"", "policy"} :
           /\ Supervises(s, "up", why, sup[s].exit, TRUE)
           /\ sup[s].pc = "alive" /\ untrustworthy(sup[s]) = ""
    BY <1>1, SafeStarting DEF Stays, Refuses, Errs, Supervises, Becomes
  <1>3. sup[s].starts = 1 /\ sup[s].started /\ sup[s].circuits >= sup[s].expected
    BY <1>1, <1>2 DEF Judged, AliveMeansLoaded, loaded
  <1>4. /\ sup[s].circuits = Truth(s, "read") /\ sup[s].anchors = Truth(s, "ca")
        /\ sup[s].vical = Truth(s, "vical")
    BY <1>1, <1>3, ReadIsTrue DEF Judged
  <1>5. /\ sup[s].circuits \in Nat /\ sup[s].anchors \in Nat /\ sup[s].vical \in Nat
        /\ sup[s].expected \in Nat /\ sup[s].anchorsExpected \in Nat
    BY <1>1, Counts
  <1>6. /\ ~ (sup[s].vical > 0 /\ ~ sup[s].vicalUrl)
        /\ ~ (sup[s].anchors < sup[s].anchorsExpected)
        /\ sup[s].anchors + sup[s].vical # 0
    BY <1>2 DEF untrustworthy
  <1>7. Whole(s)
    <2>1. sup[s].anchors >= sup[s].anchorsExpected /\ sup[s].anchors + sup[s].vical > 0
      BY <1>5, <1>6, Enough
    <2> QED BY <1>3, <1>4, <1>6, <2>1 DEF Whole
  <1>8. SameLog(sup[s], sup'[s]) /\ kid' = kid
    BY <1>2 DEF Supervises, Becomes
  <1>9. /\ Truth(s, "read")' = Truth(s, "read") /\ Truth(s, "ca")' = Truth(s, "ca")
        /\ Truth(s, "vical")' = Truth(s, "vical")
    BY <1>8 DEF Truth
  <1>10. /\ sup'[s].expected = sup[s].expected /\ sup'[s].vicalUrl = sup[s].vicalUrl
         /\ sup'[s].anchorsExpected = sup[s].anchorsExpected
    BY <1>8 DEF SameLog
  <1> QED BY <1>7, <1>9, <1>10 DEF Whole

LEMMA ReadyStep ==
    ASSUME IInv, [Next]_vars, NEW s \in Service, ~ sup[s].ready, sup'[s].ready
    PROVE  Whole(s)'
  <1>1. Safe
    BY DEF IInv
  <1>2. sup'[s] # sup[s] /\ ~ (sup'[s].ready = sup[s].ready)
    <2>1. sup'[s] = sup[s] => sup'[s].ready = sup[s].ready
      OBVIOUS
    <2>2. ~ (sup'[s].ready = sup[s].ready)
      BY Zenon
    <2> QED BY <2>1, <2>2
  <1>3. ASSUME NEW t \in Service, Elsewhere(t) PROVE t = s
    BY <1>2, <1>3 DEF Elsewhere
  <1>4. ASSUME NEW t \in Service, NEW e \in CircuitCounts, NEW a \in AnchorCounts, Start(t, e, a)
        PROVE  FALSE
    BY <1>1, <1>2, <1>3, <1>4, SafeStart DEF Begins
  <1>5. ASSUME NEW t \in Service, Write(t) PROVE FALSE
    BY <1>2, <1>5 DEF Write
  <1>6. ASSUME NEW t \in Service, NEW x \in Stream, Absorb(t, x) PROVE FALSE
    BY <1>1, <1>2, <1>3, <1>6, SafeAbsorb DEF Absorbs
  <1>7. ASSUME NEW t \in Service,
               \/ ExitEvent(t) \/ ErrorEvent(t) \/ DeadlinePasses(t) \/ HealthzAnswers(t) \/ UserStops(t)
               \/ Bind(t) \/ Die(t) \/ \E c \in Caller : Stopping(t, c)
        PROVE  FALSE
    BY <1>3, <1>7, JudgedQuiet
  <1>8. ASSUME NEW t \in Service, Starting(t) PROVE Whole(s)'
    <2>1. t = s
      BY <1>1, <1>3, <1>8, SafeStarting DEF Supervises, Stays, Refuses, Errs
    <2> QED BY <1>8, <2>1, BecomesWhole
  <1> QED BY <1>2, <1>4, <1>5, <1>6, <1>7, <1>8 DEF Next, Child, vars

\* Of such a child, a service becomes ready only when the child -- not merely what was
\* read of its log -- loaded every circuit and every CA, trusts somebody, and nobody
\* from the network uninvited.
THEOREM ReadyMeansWhole == ASSUME SharedStream PROVE Spec => ReadyOnlyWhole
  <1>1. SharedStream /\ IInv /\ [Next]_vars => IInv'
    BY IndStep
  <1>2. IInv /\ [Next]_vars =>
          [\A s \in Service : ~ sup[s].ready /\ sup'[s].ready => Whole(s)']_vars
    BY ReadyStep
  <1> QED BY <1>1, <1>2, IndInit, PTL DEF Spec, ReadyOnlyWhole
=============================================================================
