-------------------------- MODULE MCPatchCompiler --------------------------
(***************************************************************************)
(* Small unified diffs for TLC: one or two changes made of a few hunks,    *)
(* whole, cut short at any line, and with any one line lost.               *)
(***************************************************************************)
EXTENDS PatchCompiler

MCNull == <<>>
a == <<"a.c">>
b == <<"b.c">>
m == <<"m.txt">>
spaced == <<"my", " ", "a.c">>
MCSources == {a, b, spaced}

\* What follows a name: nothing, or a date that stands behind a tab, always so
\* behind a name with a space.
NoDate == <<>>
Date == <<"\t", "Jan", " ", "1">>
\* One behind a space, a second tab, a space that ends the line.
OtherDate == <<" ", "\t", "Jan", "\t", "zone", " ">>

R == [k |-> "-"]
A == [k |-> "+"]
C == [k |-> " "]
Blank == [k |-> "blank"]
NoNewline == [k |-> "no newline"]
Comment == [k |-> "---", text |-> b]       \* a removed line "-- b.c"
Lead == [k |-> "text"]
Note == [k |-> "#"]

\* Changes at the top of a file, context around a change, hunks without context, and
\* sides that end without a newline.
Hunk1 == [from |-> 1, to |-> 1, body |-> <<R, A, R, A, C, C, Blank>>]
Hunk2 == [from |-> 7, to |-> 7, body |-> <<C, A, Blank>>]
Insertion == [from |-> 4, to |-> 5, body |-> <<A>>]
Removal == [from |-> 5, to |-> 4, body |-> <<R, Comment>>]
LastLine == [from |-> 9, to |-> 9, body |-> <<C, R, NoNewline, A, NoNewline>>]
LastContext == [from |-> 9, to |-> 9, body |-> <<Comment, C, NoNewline>>]
Create == [from |-> 0, to |-> 1, body |-> <<A, A>>]
Delete == [from |-> 1, to |-> 0, body |-> <<R, R>>]

Change(lead, old, new, date, hunks) == [lead |-> lead, old |-> old, new |-> new, date |-> date, hunks |-> hunks]
Changes ==
  {Change(<<>>, a, a, NoDate, <<h>>) : h \in {Hunk1, Insertion, Removal}}
  \cup {Change(<<>>, spaced, spaced, Date, <<LastLine>>)}
  \cup {Change(<<Lead>>, a, a, OtherDate, <<h>>) : h \in {Hunk1, LastLine}}
  \cup {Change(<<Note>>, b, b, NoDate, hs) : hs \in {<<Hunk1, Hunk2>>, <<Insertion, LastContext>>}}
  \cup {Change(<<>>, a, b, Date, <<Hunk1>>), Change(<<Lead>>, m, m, NoDate, <<Hunk1>>),
        Change(<<Lead>>, MCNull, b, Date, <<Create>>), Change(<<>>, MCNull, m, OtherDate, <<Create>>),
        Change(<<>>, b, MCNull, NoDate, <<Delete>>)}

Damages(lines) ==
  {lines}
  \cup {SubSeq(lines, 1, n) : n \in 0..Len(lines)}
  \cup {Append(SubSeq(lines, 1, n), [k |-> "cut"]) : n \in 0..(Len(lines) - 1)}
  \cup {RemoveAt(lines, n) : n \in DOMAIN lines}
  \cup {[lines EXCEPT ![n] = [k |-> "@@ damaged"]] : n \in {k \in DOMAIN lines : lines[k].k = "@@"}}

\* Not diffs of changes: text, a header that is an Index line alone, which
\* gives no name, and a hunk that changes nothing.
NoChange == [from |-> 1, to |-> 1, body |-> <<C>>]
Strays ==
  {<<>>, <<Lead>>, <<[k |-> "Index:"]>> \o HunkLines(Hunk1)}
  \cup {ChangeLines(Change(<<>>, a, a, NoDate, <<Hunk2, NoChange>>))}

MCDiffs ==
  {[changes |-> <<>>, lines |-> ls] : ls \in Strays}
  \cup UNION {{[changes |-> cs, lines |-> ls] : ls \in Damages(DiffLines(cs))} :
              cs \in {<<c>> : c \in Changes} \cup {<<c, d>> : c \in Changes, d \in Changes}}
=============================================================================
