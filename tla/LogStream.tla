----------------------------- MODULE LogStream -----------------------------
(***************************************************************************)
(* splitLines and the #residual of src/service.js: how the supervisor      *)
(* turns the chunks its child's pipes deliver back into lines.  The child  *)
(* writes any text, on one or two pipes; a chunk may end anywhere, and     *)
(* both pipes feed the same residual.                                      *)
(***************************************************************************)
EXTENDS Integers, Sequences, FiniteSets

CONSTANTS
    Stream,          \* the child's pipes
    Char,            \* what a text is made of: setEncoding('utf8') never cuts a character
    Newline, Space,  \* two of them
    MaxText          \* bound: the longest text the child writes on a pipe

ASSUME LogAssumption == Newline \in Char /\ Space \in Char /\ MaxText \in Nat

VARIABLES
    text,      \* per pipe: what the child writes
    read,      \* per pipe: how much of it the 'data' events have delivered
    residual,  \* the unterminated tail of the previous chunk
    lines      \* the lines #absorb has seen and not skipped

vars == <<text, read, residual, lines>>

Init ==
    /\ text \in [Stream -> UNION {[1..n -> Char] : n \in 0..MaxText}]
    /\ read = [s \in Stream |-> 0]
    /\ residual = <<>>
    /\ lines = <<>>

\* The n-th number of a set, in increasing order.
nth(R, n) == CHOOSE i \in R : Cardinality({j \in R : j <= i}) = n

Newlines(chars) == {i \in DOMAIN chars : chars[i] = Newline}

\* Where part n of chars.split('\n') ends, and the next one begins after it.
endOf(chars, n) == IF n = 0 THEN 0 ELSE nth(Newlines(chars), n)

\* All parts but the last are lines, the last is carried over.
cut(chars) ==
    LET count == Cardinality(Newlines(chars))
    IN  [lines |-> [n \in 1..count |-> SubSeq(chars, endOf(chars, n - 1) + 1, endOf(chars, n) - 1)],
         residual |-> SubSeq(chars, endOf(chars, count) + 1, Len(chars))]

splitLines_NoCarry(rest, chunk) == cut(chunk)
splitLines(rest, chunk) == cut(rest \o chunk)

\* trim() leaves something of it.
notBlank(line) == \E i \in DOMAIN line : line[i] # Space /\ line[i] # Newline

\* The loop of #absorb skips the blank ones.
kept(parts) ==
    LET at == {i \in DOMAIN parts : notBlank(parts[i])}
    IN  [n \in 1..Cardinality(at) |-> parts[nth(at, n)]]

\* One 'data' event of pipe s, of n characters.
Data(s, n) ==
    /\ n >= 1 /\ read[s] + n <= Len(text[s])
    /\ LET out == splitLines(residual, SubSeq(text[s], read[s] + 1, read[s] + n))
       IN  residual' = out.residual /\ lines' = lines \o kept(out.lines)
    /\ read' = [read EXCEPT ![s] = @ + n]
    /\ UNCHANGED text

Next == \E s \in Stream, n \in 1..MaxText : Data(s, n)

Spec == Init /\ [][Next]_vars

---------------------------------------------------------------------------
\* Where a line that is not blank lies in a text: after the start or a newline, up to the
\* next newline.
Whole(chars) ==
    {w \in [from : 0..Len(chars), to : 1..Len(chars)] :
        /\ w.from < w.to /\ chars[w.to] = Newline
        /\ w.from > 0 => chars[w.from] = Newline
        /\ \A i \in (w.from + 1)..(w.to - 1) : chars[i] # Newline
        /\ \E i \in (w.from + 1)..(w.to - 1) : chars[i] # Space}

Delivered(s) == SubSeq(text[s], 1, read[s])

Arrived == UNION {{s} \X Whole(Delivered(s)) : s \in Stream}

LineAt(s, w) == SubSeq(text[s], w.from + 1, w.to - 1)

\* Wherever the pipe cuts, the lines absorbed are exactly the lines that arrived whole,
\* each once, in order, none glued to another (test/service.test.js:29, "the circuit
\* count does not depend on where the pipe happens to chunk").
LinesSurvive ==
    \E at \in [DOMAIN lines -> Arrived] :
        /\ \A a \in Arrived : \E n \in DOMAIN lines : at[n] = a
        /\ \A n \in DOMAIN lines : lines[n] = LineAt(at[n][1], at[n][2])
        /\ \A m, n \in DOMAIN lines : m < n /\ at[m][1] = at[n][1] => at[m][2].to < at[n][2].to
=============================================================================
