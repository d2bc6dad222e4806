----------------------------- MODULE LineEditor -----------------------------
(***************************************************************************)
(* What the keyboard and the shell promise together: keys are taken in the *)
(* order in which they were typed, none is lost or seen twice, Backspace   *)
(* removes the last character of the line, and Enter runs the words of the *)
(* line.                                                                   *)
(***************************************************************************)
EXTENDS Naturals, Sequences, FiniteSets, SequencesExt

CONSTANTS
    Letters,        \* the printable characters other than the space
    LineLimit,      \* characters a line can hold
    WordLimit       \* words a command can have

Space == "SP"
Backspace == "BS"
Newline == "NL"
Keys == Letters \cup {Space, Backspace, Newline}

VARIABLES
    pending,        \* keys typed and not yet taken
    line,           \* the line being edited
    commands,       \* the commands that were run, each as its words
    on              \* the machine has not stopped

vars == <<pending, line, commands, on>>

\* Positions of s at which a word starts: no space there, and one before it.
WordStarts(s) == {i \in 1 .. Len(s) : s[i] # Space /\ (i = 1 \/ s[i - 1] = Space)}
\* Positions of the word that starts at i.
WordAt(s, i) == {j \in i .. Len(s) : \A k \in i .. j : s[k] # Space}
\* The words of s in their order, at most WordLimit of them.
Words(s) ==
    LET starts == WordStarts(s)
        Nth(n) == CHOOSE i \in starts : Cardinality({j \in starts : j <= i}) = n
        found == Cardinality(starts)
    IN  [n \in 1 .. (IF found < WordLimit THEN found ELSE WordLimit) |->
            SubSeq(s, Nth(n), Nth(n) + Cardinality(WordAt(s, Nth(n))) - 1)]

Type(k) ==
    /\ on
    /\ pending' = Append(pending, k)
    /\ UNCHANGED <<line, commands, on>>

Take ==
    LET k == Head(pending) IN
    /\ on
    /\ pending # <<>>
    /\ pending' = Tail(pending)
    /\ CASE k = Newline -> /\ commands' = Append(commands, Words(line))
                           /\ line' = <<>>
         [] k = Backspace -> /\ line' = IF line = <<>> THEN <<>> ELSE Front(line)
                             /\ UNCHANGED commands
         [] OTHER -> /\ line' = IF Len(line) < LineLimit THEN Append(line, k) ELSE line
                     /\ UNCHANGED commands
    /\ UNCHANGED on

\* A command may stop the machine.
Stop ==
    /\ on
    /\ commands # <<>> /\ Last(commands) # <<>> /\ line = <<>>
    /\ on' = FALSE
    /\ UNCHANGED <<pending, line, commands>>

Init == pending = <<>> /\ line = <<>> /\ commands = <<>> /\ on = TRUE
Next == Take \/ Stop \/ \E k \in Keys : Type(k)

Safety == Init /\ [][Next]_vars
Spec == Safety /\ WF_vars(Take)
=============================================================================
