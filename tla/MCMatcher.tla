------------------------------ MODULE MCMatcher ------------------------------
(***************************************************************************)
(* Compile units of up to three subprograms on lines 1 to MaxLine, and the *)
(* chapters of up to two hunks with up to MaxMods Mods between them.       *)
(***************************************************************************)
EXTENDS Matcher

MaxLine == 6
MaxMods == 2

Sub(line, insts) == [line |-> line, insts |-> insts, mine |-> TRUE, fn |-> TRUE]
Declared(line) == [line |-> line, insts |-> <<>>, mine |-> TRUE, fn |-> FALSE]
Header(line) == [line |-> line, insts |-> <<line>>, mine |-> FALSE, fn |-> TRUE]

\* Functions on lines 1..3 and 4..6: full, with a repeated line, with an
\* instruction without location, out of line order, of one line, unterminated.
Firsts == {Sub(1, <<1, 2, 3>>), Sub(1, <<2, 2, 0, 3>>), Sub(1, <<3, 1, 3>>), Sub(2, <<2>>),
           Sub(1, <<2, 0>>), Declared(2)}
Seconds == {Sub(4, <<4, 5, 6>>), Sub(3, <<3, 0, 5, 5>>), Sub(4, <<4>>), Sub(2, <<3, 5>>)}
Thirds == {Sub(6, <<6>>), Header(1), Declared(5)}

AreSorted(u) == \A n \in 1..(Len(u) - 1) : u[n].mine /\ u[n + 1].mine => u[n].line <= u[n + 1].line
AllUnits ==
  {u \in {<<a>> : a \in Firsts} \cup {<<a, b>> : a \in Firsts, b \in Seconds \cup Thirds}
          \cup {<<a, b, c>> : a \in Firsts, b \in Seconds, c \in Thirds} :
     AreSorted(u)}

\* The last line of the last subprogram is known, or it has no Function; and a
\* function with an unknown last line is followed by one of its own file.
EndKnown(u) ==
  \A n \in DOMAIN u :
    u[n].fn /\ GetLastLine(u[n]) = 0 => n < Len(u) /\ u[n + 1].mine
InferenceSane(u) == \A n \in 1..(Len(u) - 1) : GetLastLine(u[n]) = 0 => u[n + 1].line >= u[n].line
\* A function without known end, followed by one of another file: the inferred
\* last line lies before the function, and matchFunction asserts false.
BeforeHeader == {<<Sub(4, <<4, 0>>), Header(2)>>}
MCUnits == {u \in AllUnits : EndKnown(u) /\ InferenceSane(u)} \cup BeforeHeader

Mod(t, b, e) == [type |-> t, begin |-> b, end |-> e]
Mods ==
  {Mod("DEL", l, l) : l \in 0..MaxLine} \cup
  {Mod("ADD", b, e) : b \in 1..MaxLine, e \in 1..MaxLine}
WellFormedMods == {m \in Mods : m.begin <= m.end}

OneMod == {<<m>> : m \in WellFormedMods}
TwoMods == {p \in {<<a, b>> : a \in WellFormedMods, b \in WellFormedMods} : Follows(p[1], p[2])}

\* One Mod, two Mods in one hunk, or one Mod in each of two hunks.
MCChapters ==
  {<<hk>> : hk \in OneMod \cup TwoMods} \cup {<< <<p[1]>>, <<p[2]>> >> : p \in TwoMods}

\* Two functions with an instruction on every line.
TwoFunctions == {<<Sub(1, <<1, 2, 3>>), Sub(4, <<4, 5, 6>>)>>}
\* A unit whose last function ends in an instruction without location.
OpenEnded == {<<Sub(1, <<1, 2, 0>>)>>}
=============================================================================
