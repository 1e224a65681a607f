------------------------------ MODULE MCMapper ------------------------------
(***************************************************************************)
(* The class Matcher: what it collects for the chapters of module          *)
(* MCMatcher, where resetTarget puts its iterator and which loop matchLoop *)
(* returns.                                                                *)
(*                                                                         *)
(* For resetTarget modules of up to two units: one file in its own         *)
(* directory, a header both units include, a file spelled in two ways,     *)
(* directories below one root that begin alike or not, a subprogram twice  *)
(* or left out.  Targets with detours, of a header, of no unit and refused *)
(* ones.                                                                   *)
(*                                                                         *)
(* For matchLoop functions of no loop or up to three on the top level, the *)
(* first of them with up to three subloops: blocks out of order, loops on  *)
(* one line, loops and blocks without lines, at all places.                *)
(***************************************************************************)
EXTENDS MCMatcher, MapperIndex, LoopSearch

MapperChapters == MCChapters \cup {<<>>}

\* resetTarget and matchLoop share nothing with the matching of lines: what
\* the latter reads of a list of subprograms is its Units.  So it shows as
\* much when they are called after one chapter only, one without hunks.
ChapterOver == pc = "done" /\ hunks = <<>> /\ sps = <<Sub(1, <<1, 2, 3>>)>>

MapperInit == Init /\ IndexInit /\ LoopInit

MapperNext ==
  \/ Next /\ UNCHANGED <<indexVars, loopVars>>
  \/ ChapterOver /\ stage = "called" /\ IndexNext /\ UNCHANGED <<vars, loopVars>>
  \/ ChapterOver /\ matcher = "new" /\ LoopNext /\ UNCHANGED <<vars, indexVars>>

MapperSpec == MapperInit /\ [][MapperNext]_<<vars, indexVars, loopVars>> /\ WF_vars(Next)

\* Names in string order.
InOrder == <<<<"", "p">>, <<"", "p", "innodb_plugin">>, <<"", "p", "lib">>, <<"", "p", "sql">>,
             <<"", "p", "sql", "h">>,
             <<"", "p", "src">>, <<"", "p", "src", "lib">>, <<"", "p", "src", "sql">>, <<"..", "src", "b">>, <<"a">>, <<"b">>, <<"h">>, <<>>>>
MCRank == [n \in ToSet(InOrder) |-> CHOOSE k \in DOMAIN InOrder : InOrder[k] = n]
MCInitial == [p |-> "p", lib |-> "l", sql |-> "s", src |-> "s", h |-> "h", innodb_plugin |-> "i"]

SP(dir, file, line, lastinst) == [dir |-> dir, file |-> file, named |-> TRUE, line |-> line, lastinst |-> lastinst]
Unit(dir, file, list) == [dir |-> dir, file |-> file, current |-> TRUE, sps |-> list]

lib == <<"", "p", "lib">>
sql == <<"", "p", "sql">>
src == <<"", "p", "src">>
plugin == <<"", "p", "innodb_plugin">>

\* Subprograms of a unit out of order: its own, one of a header, some left out.
UnitA(dir) == Unit(dir, <<"a">>,
  <<SP(dir, <<"a">>, 7, 9), SP(<<"", "p", "sql", "h">>, <<>>, 1, 1), SP(dir, <<"a">>, 2, 0),
    SP(<<"", "p">>, <<"h">>, 4, 0), SP(dir, <<"a">>, 0, 0), [SP(dir, <<"a">>, 5, 6) EXCEPT !.named = FALSE]>>)
UnitB(dir) == Unit(dir, <<"b">>,
  <<SP(dir, <<"b">>, 3, 0), SP(<<"", "p">>, <<"h">>, 4, 0), SP(<<"", "p">>, <<"", "p", "sql", "h">>, 2, 3),
    SP(dir, <<"b">>, 3, 3), SP(<<"", "p">>, <<"h">>, 1, 2)>>)
\* Its file under two names, and an absolute one.
UnitTwice == Unit(src, <<"b">>,
  <<SP(src, <<"b">>, 6, 8), SP(sql, <<"..", "src", "b">>, 2, 3), SP(lib, <<"", "p", "sql", "h">>, 4, 5)>>)

MCModules == {
  <<UnitA(lib), UnitB(sql)>>, <<UnitA(src), UnitB(sql)>>, <<UnitB(<<"", "p">>), UnitA(sql)>>,
  <<UnitTwice, UnitA(lib)>>, <<UnitA(sql), [UnitA(sql) EXCEPT !.sps = <<SP(sql, <<"a">>, 1, 1)>>]>>,
  <<UnitB(src), [UnitA(lib) EXCEPT !.current = FALSE]>>,
  <<UnitA(plugin)>>, <<UnitA(Append(src, "lib")), UnitB(Append(src, "sql"))>>}

MCStrips == {[debug |-> -1, patch |-> 0], [debug |-> 3, patch |-> 1], [debug |-> 3, patch |-> 2]}

MCTargets ==
  {<<"lib", "a">>, <<"src", ".", "b">>, <<"src", "x", "..", "b">>, <<"sql", "", "b">>, <<"h">>, <<"b">>, <<"src", "lib", "a">>,
   <<"p", "innodb_plugin", "a">>,
   <<"", "p", "lib", "..", "..", "..", "p", "sql", "a">>, <<"..", "src", "b">>, <<".">>}
MCMaxCalls == 3

Block(b, e) == [begin |-> b, end |-> e]
Unknown == <<Block(0, 3), Block(1, 4)>>

\* Blocks of a subloop; those whose last one is not the last by line.
Inner == {Unknown, <<Block(2, 2)>>, <<Block(3, 4), Block(4, 3), Block(2, 0)>>, <<Block(2, 3), Block(4, 4), Block(3, 3)>>}
SubLists == BoundedSeq({[blocks |-> b, subs |-> <<>>] : b \in Inner}, 3)

LoopOf(own, subs) == [blocks |-> own \o FlattenSeq([n \in DOMAIN subs |-> subs[n].blocks]), subs |-> subs]

Others == {<<>>, <<LoopOf(Unknown, <<>>), LoopOf(<<Block(5, 6), Block(6, 5)>>, <<>>)>>,
           <<LoopOf(<<Block(6, 6)>>, <<>>), LoopOf(Unknown, <<>>)>>}
MCLoopLists ==
  {<<>>} \cup {<<LoopOf(own, subs)>> \o others :
            own \in {Unknown, <<Block(1, 1)>>, <<Block(1, 5), Block(5, 2)>>}, subs \in SubLists, others \in Others}

MCScopes == [begin : 0..7, end : 0..7]
=============================================================================
