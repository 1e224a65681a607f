--------------------------- MODULE MCRiskEvaluator ---------------------------
(***************************************************************************)
(* Call graphs over three functions, recursive ones among them, whose      *)
(* first function is evaluated; and one call graph with every choice of    *)
(* two instructions out of the kinds that are rated differently.  The      *)
(* profiles: every file of up to four lines out of those that matter,     *)
(* with and without a segment before them, and what static_profile writes  *)
(* of three functions and an intrinsic.                                    *)
(***************************************************************************)
EXTENDS RiskEvaluator

MCFunctions == {"f", "g", "h"}
MCDepths == 0..3
MCLevels == {1, 2}
MCCallerHot == 3
MCLoopCountTight == 10
MCInstExp == 10

Calls == [caller : MCFunctions, loop : BOOLEAN]
UpTo(n) == UNION {[1..k -> Calls] : k \in 0..n}

\* Loop 1 iterates three times; 2, within it, an unknown number of times; 3 lies
\* alone, with 20 iterations at one of two exits.
Parents == <<0, 1, 0>>
Trips == <<{3}, {0}, {2, 20}>>

Inst(kind, callee, cost, ways, loop) ==
  [fn |-> "f", kind |-> kind, callee |-> callee, cost |-> cost, ways |-> ways, loop |-> loop]
Other(cost, loop) == Inst("other", "", cost, <<>>, loop)
Call(callee, loop) == Inst("call", callee, 1, <<>>, loop)
Indirect(loop) == Inst("indirect", "", 1, <<>>, loop)
Branch(ways, loop) == Inst("branch", "", 1, ways, loop)
Intrinsic == Inst("intrinsic", "", 0, <<>>, 0)
OnWay(kind, callee, cost) == [kind |-> kind, callee |-> callee, cost |-> cost]
LockCall == OnWay("call", "lock", 1)
Costly == OnWay("other", "", 11)
Cheap == OnWay("branch", "", 1)
OfFunction(f, inst) == [inst EXCEPT !.fn = f]

Insts1 == <<Other(20, 1), Intrinsic>>
AllInsts ==
  {Intrinsic, Other(0, 0), Other(UnknownCost, 1), Other(10, 3), Other(11, 2), Call("g", 1), Call("h", 0),
   Call("lock", 0), Call("puts", 3), Indirect(1),
   Branch(<<<<Cheap>>, <<LockCall, Cheap>>>>, 3), Branch(<<<<Costly, Cheap>>, <<LockCall>>>>, 3), Branch(<<>>, 0)}

\* A profile that lists g and lock, which is declared, as expensive, and some as
\* called often.
OftenCalled(freq) == IF freq = <<>> THEN <<>> ELSE Segment("FREQCALL", freq)
Lines(freq) == Segment("LOCKCALL", <<"g", "lock">>) \o OftenCalled(freq)

CallModule(s, freq) ==
  [sites |-> s, lines |-> OftenCalled(freq), ranked |-> {}, parent |-> Parents, trips |-> Trips, loopy |-> {"f"},
   insts |-> [f \in {"f"} |-> Insts1], slice |-> [f \in {"f"} |-> <<OfFunction("g", Other(20, 0))>>]]

RateModule(a, b, sl, loopy, freq) ==
  [sites |-> [f \in MCFunctions |-> IF f = "g" THEN <<[caller |-> "f", loop |-> FALSE]>> ELSE <<>>],
   lines |-> Lines(freq), ranked |-> {}, parent |-> Parents, trips |-> Trips, loopy |-> loopy,
   insts |-> [f \in {"f", "g"} |-> IF f = "f" THEN <<a, b>> ELSE <<OfFunction("g", Other(11, 0))>>],
   slice |-> [f \in {"f", "g"} |-> IF f = "f" THEN sl ELSE <<>>]]

CallModules ==
  {CallModule([f \in MCFunctions |-> IF f = "f" THEN sf ELSE IF f = "g" THEN sg ELSE sh], freq) :
     sf \in UpTo(2), sg \in UpTo(1), sh \in UpTo(1), freq \in {<<>>, <<"h">>}}
\* f has more call sites than callers.
ManySites ==
  {CallModule([f \in MCFunctions |-> IF f = "f" THEN [n \in 1..k |-> [caller |-> "g", loop |-> FALSE]] ELSE <<>>], <<>>) :
     k \in 2..4}
RateModules ==
  {RateModule(a, b, sl, loopy, freq) :
     a \in AllInsts, b \in {Intrinsic, Other(11, 2), Call("lock", 0)}, sl \in {<<>>} \cup {<<Other(11, 3), OfFunction("g", x)>> : x \in AllInsts},
     loopy \in {{"f"}}, freq \in {<<>>, <<"f">>}}
  \cup {RateModule([a EXCEPT !.loop = 0], [b EXCEPT !.loop = 0], <<>>, {}, <<>>) : a \in AllInsts, b \in AllInsts}

\* The same call graph under profiles of any shape: a heading before them or not.
Plain == CallModule([f \in MCFunctions |-> IF f = "g" THEN <<[caller |-> "f", loop |-> FALSE]>> ELSE <<>>], <<>>)
FileLines == {SegmentBegin, "EXPCALL", "FREQCALL", Blank, "g"}
Files ==
  {before \o body : before \in {<<>>, Segment("SYSCALL", <<"f", "part of a long name">>), Segment("EXPCALL", <<"FREQCALL">>)},
                    body \in UNION {[1..n -> FileLines] : n \in 0..4}}
ProfileModules == {[Plain EXCEPT !.lines = file] : file \in Files}

\* Three functions, called once, twice and not at all, one that is declared, and
\* llvm.dbg.declare.
CallsOf == [f \in MCFunctions |-> CASE f = "f" -> 1 [] f = "g" -> 2 [] OTHER -> 0]
Others == <<[name |-> "malloc", cost |-> 0, calls |-> 2], [name |-> Blank, cost |-> 0, calls |-> 0]>>
Entries(cost) == [j \in 1..3 |-> LET f == <<"f", "g", "h">>[j] IN [name |-> f, cost |-> cost[f], calls |-> CallsOf[f]]] \o Others
WrittenOf(cost, n, k) ==
  {[CallModule([f \in MCFunctions |-> [j \in 1..CallsOf[f] |-> [caller |-> "h", loop |-> FALSE]]], <<>>)
      EXCEPT !.lines = file, !.ranked = {[funcs |-> Entries(cost), topkCost |-> n, topkHot |-> k]}] :
     file \in StaticProfiles(Entries(cost), n, k)}
WrittenModules ==
  UNION {WrittenOf(cost, n[1], n[2]) : cost \in {[f |-> c[1], g |-> c[2], h |-> c[3]] : c \in {<<0, 1, 2>>, <<2, 2, 1>>, <<1, 0, 1>>}},
                                    n \in {<<-1, 2>>, <<1, 1>>, <<2, 2>>, <<3, 0>>}}

MCModules == ProfileModules \cup WrittenModules \cup CallModules \cup ManySites \cup RateModules
=============================================================================
