---------------------------- MODULE RiskEvaluator ----------------------------
(***************************************************************************)
(* The rating of the instructions a patch touches: RiskEvaluator of        *)
(* lib/analyzer/RiskEvaluator/Evaluator.cpp, run over the functions of the *)
(* instruction map by runevaluator (tools/PerfScope/PerfScope.cpp).        *)
(*                                                                         *)
(* For each function calcCallerHotness first walks the callers breadth     *)
(* first, up to a depth; then every instruction, and what the slicer       *)
(* propagates it to, is assessed, and the highest risk counted.  One step  *)
(* is one caller taken from the queue, one call site, or one instruction.  *)
(*                                                                         *)
(* Before that the profile is read: a list of functions that are called    *)
(* often, or are expensive; see Profile.                                   *)
(*                                                                         *)
(* A module is its call sites, its loops, the instructions mapped in each  *)
(* function, and the lines of the profile given with it.                   *)
(***************************************************************************)
EXTENDS Profile

CONSTANTS
  Functions,      \* functions with a body
  Modules,        \* modules: see ModulesAssumption
  Depths,         \* how far up callers are traced (depth, 2 by default)
  Levels,         \* analysis_level: slices are followed from 2 on
  CallerHot,      \* CALLERHOT, 10 in the code
  LoopCountTight, \* LOOPCOUNTTIGHT, 10 in the code
  InstExp         \* INSTEXP, 10 in the code

UnknownCost == -1  \* (unsigned) -1 of getInstructionCost
NoLoop == 0        \* getLoopFor of a block in no loop

\* A call is of an intrinsic, of a function by name, which the module defines or
\* declares, or of a value.  ways: of a conditional branch, the instructions of
\* the block each of them leads to.  fn: the function an instruction is in; loop:
\* the innermost around it.
Kinds == {"intrinsic", "call", "indirect", "branch", "other"}
WayInstructions == [kind : Kinds, callee : STRING, cost : Nat \cup {UnknownCost}]
Instructions ==
  [fn : Functions, kind : Kinds, callee : STRING, cost : Nat \cup {UnknownCost},
   ways : Seq(Seq(WayInstructions)), loop : Nat]

\* What static_profile ranks, and the number of names it is asked for of each
\* type: the functions of the module and those it declares, by different names,
\* and intrinsics without one.
IsRanking(r, sites) ==
  /\ r.funcs \in Seq([name : STRING \ {SegmentBegin}, cost : Counts, calls : Counts])
  /\ {r.topkCost, r.topkHot} \subseteq {n \in Int : n <= Len(r.funcs)}
  /\ \A j, k \in DOMAIN r.funcs : r.funcs[j].name = r.funcs[k].name => j = k \/ r.funcs[j].name = Blank
  /\ \A k \in DOMAIN r.funcs : r.funcs[k].name = Blank => r.funcs[k].cost = 0 /\ r.funcs[k].calls = 0
  /\ \A f \in Functions : \E k \in DOMAIN r.funcs : r.funcs[k].name = f /\ r.funcs[k].calls = Len(sites[f])

\* sites: calls of each function in the order of its use list; lines: of the
\* profile; ranked: what static_profile wrote the lines from, in a set that is
\* empty when it did not; parent and trips: the loop around each loop, and the
\* trip counts at its exits; loopy: functions with a loop; insts: the instruction
\* map, which runevaluator does not look at when it is empty; slice: what the
\* slicer reaches from a function.
ASSUME ModulesAssumption ==
  \A m \in Modules :
    /\ m.sites \in [Functions -> Seq([caller : Functions, loop : BOOLEAN])]
    /\ m.lines \in Seq(STRING)
    /\ \A r \in m.ranked : IsRanking(r, m.sites) /\ m.lines \in StaticProfiles(r.funcs, r.topkCost, r.topkHot)
    /\ \A l \in DOMAIN m.parent : m.parent[l] < l
    /\ DOMAIN m.insts # {} /\ DOMAIN m.insts \subseteq Functions /\ DOMAIN m.slice = DOMAIN m.insts
    /\ \A f \in DOMAIN m.insts : {m.insts[f], m.slice[f]} \subseteq Seq(Instructions)

ASSUME BoundsAssumption ==
  /\ IsFiniteSet(Functions) /\ Functions \cap {Blank, SegmentBegin} = {}
  /\ Depths \subseteq Nat /\ Levels \subseteq Nat \ {0} /\ CallerHot \in Nat

VARIABLES
  module, depth, level,   \* chosen by Init
  pc,
  line, reading,          \* the next line of the profile; what is read so far
  todo,                   \* functions of the instruction map still to run on
  func,                   \* the function run on
  queue,                  \* bfsQueue: functions with their depth
  visited, callers,       \* functions visited; iterations of the walk
  site,                   \* the next call site of the item
  loopAnalyzed,           \* loop_analyzed, kept from function to function
  funcHot,                \* what calcCallerHotness returned
  i,                      \* the next instruction
  rest,                   \* what the slicer's next() has yet to return
  max,                    \* the highest risk so far of this instruction
  FuncRiskStat, AllRiskStat

vars == <<module, depth, level, pc, line, reading, todo, func, queue, visited, callers, site, loopAnalyzed,
          funcHot, i, rest, max, FuncRiskStat, AllRiskStat>>

inputVars == <<module, depth, level>>
readVars == <<inputVars, line, reading>>
walkVars == <<queue, visited, callers, site, loopAnalyzed>>
rateVars == <<i, rest, max, FuncRiskStat, AllRiskStat>>

Cold == 0
Regular == 1
Hot == 2
Minor == 0
Normal == 1
Expensive == 2

NoRisk == 0
ModerateRisk == 2
HighRisk == 3
ExtremeRisk == 4
RISKLEVELS == 0..4
RiskMatrix == <<<<1, 1, 2>>, <<1, 2, 3>>, <<2, 3, 4>>>>

Higher(a, b) == IF a > b THEN a ELSE b

-----------------------------------------------------------------------------
(* What one instruction costs and how often it may run *)

\* The functions that are expensive to call.  Slip: of those with a body only.
profile == reading.profile
ExpensiveTypes == {"SYSCALL", "LOCKCALL", "EXPCALL"}
ListedWithBody == Functions \cap UNION {profile[t] : t \in ExpensiveTypes}
ListedExpensive == UNION {profile[t] : t \in ExpensiveTypes}

\* calcInstExp: of a call what the profile says of its callee, else what the cost
\* model says of the instruction.
InstExpensiveness(inst) ==
  CASE inst.kind = "call" -> IF inst.callee \in ListedExpensive THEN Expensive ELSE Normal
    [] inst.kind \in {"intrinsic", "indirect"} -> Minor
    [] OTHER -> IF inst.cost \in {0, UnknownCost} THEN Minor
                ELSE IF inst.cost > InstExp THEN Expensive ELSE Normal

\* isPerfSensitive: the expensive instructions on the ways of a conditional
\* branch are counted together.
ExpensiveOn(ways) ==
  UNION {{n} \X {k \in DOMAIN ways[n] : InstExpensiveness(ways[n][k]) = Expensive} : n \in DOMAIN ways}
IsPerfSensitive(inst) ==
  Len(inst.ways) > 1 /\ Cardinality(ExpensiveOn(inst.ways)) \notin {0, Len(inst.ways)}

Expensiveness(inst) ==
  IF inst.kind = "branch" /\ IsPerfSensitive(inst) THEN Expensive ELSE InstExpensiveness(inst)

\* getLoopDepth: the largest trip count known at an exit, 0 when none is.
TripCount(l) ==
  LET counts == module.trips[l] IN IF counts = {} THEN 0 ELSE CHOOSE c \in counts : \A d \in counts : d <= c

IsTight(l) == TripCount(l) = 0 \/ TripCount(l) > LoopCountTight

\* The loops around l, from the inside out.
LoopsAround[l \in Nat] == IF l = NoLoop THEN <<>> ELSE <<l>> \o LoopsAround[module.parent[l]]

\* calcInstHotness: each loop overwrites the hotness of the one inside it.
\* An instruction of another function is in no loop LocalLI knows of.
InstHotness(inst) ==
  LET loops == IF inst.fn = func THEN LoopsAround[inst.loop] ELSE <<>>
  IN IF loops = <<>> THEN Cold
     ELSE IF IsTight(Last(loops)) THEN Hot ELSE Regular

\* assess: every change in a hot function is hot.
Assess(inst) ==
  IF inst.kind = "intrinsic" THEN NoRisk
  ELSE LET hot == IF funcHot = Hot THEN Hot
                  ELSE IF func \in module.loopy THEN InstHotness(inst) ELSE Regular
       IN RiskMatrix[hot + 1][Expensiveness(inst) + 1]
-----------------------------------------------------------------------------
(* Helpers of the walk; a Slip is a mistake the code could contain. *)

Item == Head(queue)
ItemSites == module.sites[Item.fn]
Site == ItemSites[site]
NoStat == [r \in RISKLEVELS |-> 0]

\* The item is not traced further.  Slips: one level too many, or too few.
TracedTooFar == Item.depth > depth
TracedTooNear == Item.depth + 1 >= depth
AtDepth == Item.depth >= depth

\* The depth of a caller.  Slip: that of the callee.
DepthKept == Item.depth
CallerDepth == Item.depth + 1

\* The next site after one whose caller is visited.  Slip: the same.
SiteStays == site
SiteAfterSkip == site + 1

\* The walk's verdict when nothing hot was met.  Slip: at the threshold already.
HotAtThreshold == IF callers >= CallerHot THEN Hot ELSE Regular
VerdictByCallers == IF callers > CallerHot THEN Hot ELSE Regular

\* FuncRiskStat as a function begins.  Slip: not cleared.
StatKept == FuncRiskStat
StatCleared == NoStat

\* A statistic with the risk counted.  Slip: no risk is not counted.
CountedIfRisky(stat) == IF max = NoRisk THEN stat ELSE [stat EXCEPT ![max] = @ + 1]
Counted(stat) == [stat EXCEPT ![max] = @ + 1]

-----------------------------------------------------------------------------
Init ==
  /\ module \in Modules
  /\ depth \in Depths
  /\ level \in Levels
  /\ pc = "profile"
  /\ line = 1
  /\ reading = EmptyReading
  /\ todo = DOMAIN module.insts
  /\ func = (CHOOSE f \in todo : TRUE)
  /\ queue = <<>>
  /\ visited = {}
  /\ callers = 0
  /\ site = 1
  /\ loopAnalyzed = {}
  /\ funcHot = Cold
  /\ i = 1
  /\ rest = <<>>
  /\ max = NoRisk
  /\ FuncRiskStat = NoStat
  /\ AllRiskStat = NoStat

(* parseProfile *)

\* One line of the profile is read; one that may not stand there ends the program.
ReadProfileLine ==
  /\ pc = "profile"
  /\ line <= Len(module.lines)
  /\ reading' = ReadLine(reading, module.lines[line])
  /\ pc' = IF reading'.at = "failed" THEN "exit" ELSE pc
  /\ line' = line + 1
  /\ UNCHANGED <<inputVars, todo, func, walkVars, funcHot, rateVars>>

ProfileDone ==
  /\ pc = "profile"
  /\ line > Len(module.lines)
  /\ pc' = IF EndsWell(reading) THEN "next_function" ELSE "exit"
  /\ UNCHANGED <<readVars, todo, func, walkVars, funcHot, rateVars>>

\* runOnFunction.  The map is keyed by address, so the order is open.
StartFunction(f) ==
  /\ pc = "next_function"
  /\ f \in todo
  /\ func' = f
  /\ todo' = todo \ {f}
  /\ FuncRiskStat' = StatCleared
  /\ queue' = IF depth = 0 THEN <<>> ELSE <<[fn |-> f, depth |-> 1]>>
  /\ visited' = {}
  /\ callers' = 0
  /\ funcHot' = Cold
  /\ i' = 1
  /\ rest' = IF level > 1 THEN module.slice[f] ELSE <<>>
  /\ max' = NoRisk
  /\ pc' = IF depth = 0 THEN "assess" ELSE "callers"
  /\ UNCHANGED <<readVars, site, loopAnalyzed, AllRiskStat>>

-----------------------------------------------------------------------------
(* calcCallerHotness *)

\* A function met before is dropped, and counted all the same.
DropDuplicate ==
  /\ pc = "callers"
  /\ queue # <<>> /\ Item.fn \in visited
  /\ callers' = callers + 1
  /\ queue' = Tail(queue)
  /\ UNCHANGED <<readVars, pc, todo, func, visited, site, loopAnalyzed, funcHot, rateVars>>

VisitHot ==
  /\ pc = "callers"
  /\ queue # <<>> /\ Item.fn \notin visited
  /\ Item.fn \in profile["FREQCALL"]
  /\ callers' = callers + 1
  /\ visited' = visited \cup {Item.fn}
  /\ funcHot' = Hot
  /\ pc' = "assess"
  /\ UNCHANGED <<readVars, todo, func, queue, site, loopAnalyzed, rateVars>>

\* At the depth, or without callers, nothing is pushed.
VisitLeaf ==
  /\ pc = "callers"
  /\ queue # <<>> /\ Item.fn \notin visited
  /\ Item.fn \notin profile["FREQCALL"]
  /\ AtDepth \/ ItemSites = <<>>
  /\ callers' = callers + 1
  /\ visited' = visited \cup {Item.fn}
  /\ queue' = Tail(queue)
  /\ UNCHANGED <<readVars, pc, todo, func, site, loopAnalyzed, funcHot, rateVars>>

VisitCallee ==
  /\ pc = "callers"
  /\ queue # <<>> /\ Item.fn \notin visited
  /\ Item.fn \notin profile["FREQCALL"]
  /\ ~AtDepth /\ ItemSites # <<>>
  /\ callers' = callers + 1
  /\ visited' = visited \cup {Item.fn}
  /\ site' = 1
  /\ pc' = "sites"
  /\ UNCHANGED <<readVars, todo, func, queue, loopAnalyzed, funcHot, rateVars>>

\* A call from a function visited before is skipped, in a loop or not.
SkipVisited ==
  /\ pc = "sites"
  /\ site <= Len(ItemSites) /\ Site.caller \in visited
  /\ site' = SiteAfterSkip
  /\ UNCHANGED <<readVars, pc, todo, func, queue, visited, callers, loopAnalyzed, funcHot, rateVars>>

CalledInLoop ==
  /\ pc = "sites"
  /\ site <= Len(ItemSites) /\ Site.caller \notin visited
  /\ Site.loop
  /\ loopAnalyzed' = loopAnalyzed \cup {Site.caller}
  /\ funcHot' = Hot
  /\ pc' = "assess"
  /\ UNCHANGED <<readVars, todo, func, queue, visited, callers, site, rateVars>>

PushCaller ==
  /\ pc = "sites"
  /\ site <= Len(ItemSites) /\ Site.caller \notin visited
  /\ ~Site.loop
  /\ loopAnalyzed' = loopAnalyzed \cup {Site.caller}
  /\ queue' = Append(queue, [fn |-> Site.caller, depth |-> CallerDepth])
  /\ site' = site + 1
  /\ UNCHANGED <<readVars, pc, todo, func, visited, callers, funcHot, rateVars>>

SitesDone ==
  /\ pc = "sites"
  /\ site > Len(ItemSites)
  /\ queue' = Tail(queue)
  /\ pc' = "callers"
  /\ UNCHANGED <<readVars, todo, func, visited, callers, site, loopAnalyzed, funcHot, rateVars>>

WalkDone ==
  /\ pc = "callers"
  /\ queue = <<>>
  /\ funcHot' = VerdictByCallers
  /\ pc' = "assess"
  /\ UNCHANGED <<readVars, todo, func, walkVars, rateVars>>

-----------------------------------------------------------------------------
(* runOnFunction: the instructions *)

Insts == module.insts[func]

AssessInst ==
  /\ pc = "assess"
  /\ i <= Len(Insts)
  /\ max' = Assess(Insts[i])
  /\ pc' = "slice"
  /\ UNCHANGED <<readVars, todo, func, walkVars, funcHot, i, rest, FuncRiskStat, AllRiskStat>>

\* The slice is used up with the first instruction.
AssessSlice ==
  /\ pc = "slice"
  /\ rest # <<>>
  /\ max' = Higher(max, Assess(Head(rest)))
  /\ rest' = Tail(rest)
  /\ UNCHANGED <<readVars, pc, todo, func, walkVars, funcHot, i, FuncRiskStat, AllRiskStat>>

CountRisk ==
  /\ pc = "slice"
  /\ rest = <<>>
  /\ FuncRiskStat' = Counted(FuncRiskStat)
  /\ AllRiskStat' = Counted(AllRiskStat)
  /\ i' = i + 1
  /\ pc' = "assess"
  /\ UNCHANGED <<readVars, todo, func, walkVars, funcHot, rest, max>>

FunctionDone ==
  /\ pc = "assess"
  /\ i > Len(Insts)
  /\ pc' = IF todo = {} THEN "done" ELSE "next_function"
  /\ UNCHANGED <<readVars, todo, func, walkVars, funcHot, rateVars>>

-----------------------------------------------------------------------------
Finished == pc \in {"done", "exit"} /\ UNCHANGED vars

Next ==
  \/ ReadProfileLine \/ ProfileDone
  \/ \E f \in Functions : StartFunction(f)
  \/ DropDuplicate \/ VisitHot \/ VisitLeaf \/ VisitCallee
  \/ SkipVisited \/ CalledInLoop \/ PushCaller \/ SitesDone \/ WalkDone
  \/ AssessInst \/ AssessSlice \/ CountRisk \/ FunctionDone
  \/ Finished

\* The program is sequential: it takes its next step.
Spec == Init /\ [][Next]_vars /\ WF_vars(Next)

-----------------------------------------------------------------------------
(* Properties *)

\* The shape of the state.
TypeOK ==
  /\ pc \in {"profile", "exit", "next_function", "callers", "sites", "assess", "slice", "done"}
  /\ line \in 1..(Len(module.lines) + 1) /\ reading.at \in {"body", "type", "end", "failed"}
  /\ DOMAIN profile = SpeTypes /\ \A t \in SpeTypes : profile[t] \subseteq ToSet(module.lines)
  /\ todo \subseteq DOMAIN module.insts /\ func \in DOMAIN module.insts
  /\ queue \in Seq([fn : Functions, depth : 1..Higher(1, depth)])
  /\ visited \subseteq Functions /\ loopAnalyzed \subseteq Functions
  /\ callers \in Nat /\ site \in Nat \ {0} /\ i \in 1..(Len(Insts) + 1)
  /\ funcHot \in {Cold, Regular, Hot} /\ max \in RISKLEVELS
  /\ FuncRiskStat \in [RISKLEVELS -> Nat] /\ AllRiskStat \in [RISKLEVELS -> Nat]

(***************************************************************************)
(* A profile as data/README describes it: segments, each a heading of      *)
(* three lines and names up to the next heading.  One text opens and       *)
(* closes a heading, so those lines do the one and the other in turn.      *)
(***************************************************************************)
Marks(k) == Cardinality({j \in 1..k : module.lines[j] = SegmentBegin})
Opens == {k \in DOMAIN module.lines : module.lines[k] = SegmentBegin /\ Marks(k) % 2 = 1}
HeadingAt(k, t) ==
  k \in Opens /\ k + 2 <= Len(module.lines) /\ module.lines[k + 1] = t /\ module.lines[k + 2] = SegmentEnd
Under(k, t) == \E h \in 1..(k - 3) : HeadingAt(h, t) /\ \A j \in (h + 3)..k : module.lines[j] # SegmentBegin
Listed(f, t) == f # Blank /\ \E k \in DOMAIN module.lines : module.lines[k] = f /\ Under(k, t)
Headings == {k \in Opens : \E t \in SpeTypes : HeadingAt(k, t)}
WellFormed ==
  /\ Opens \subseteq Headings
  /\ \A k \in DOMAIN module.lines : module.lines[k] # Blank => \E h \in Headings : h <= k

\* Of a profile the program wrote itself: a function is listed if all are, or if
\* fewer than topk others are at least as large, and only if fewer are larger.
ListsTop(names, funcs, value, topk) ==
  \A k \in DOMAIN funcs : funcs[k].name # Blank =>
    /\ topk <= 0 \/ Cardinality({j \in DOMAIN funcs \ {k} : value[j] >= value[k]}) < topk => funcs[k].name \in names
    /\ funcs[k].name \in names => topk <= 0 \/ Cardinality({j \in DOMAIN funcs : value[j] > value[k]}) < topk

\* A profile is read as it is laid out, every name under the type of its segment
\* and no other, or refused as a whole; and the names static_profile picked are
\* the ones the evaluator finds (StaticProfiler.cpp:139, LLVMHelper.cpp:232).
ProfileExact ==
  /\ pc = "exit" => ~WellFormed
  /\ pc = "next_function" =>
       /\ WellFormed
       /\ \A t \in SpeTypes : profile[t] = {f \in ToSet(module.lines) : Listed(f, t)}
       /\ \A r \in module.ranked :
            /\ ListsTop(profile["EXPCALL"], r.funcs, [k \in DOMAIN r.funcs |-> r.funcs[k].cost], r.topkCost)
            /\ ListsTop(profile["FREQCALL"], r.funcs, [k \in DOMAIN r.funcs |-> r.funcs[k].calls], r.topkHot)

\* The functions that call func over at most n - 1 calls.
Callers(f) == {module.sites[f][n].caller : n \in DOMAIN module.sites[f]}
Within[n \in Nat] ==
  IF n = 0 THEN {} ELSE IF n = 1 THEN {func}
  ELSE Within[n - 1] \cup UNION {Callers(f) : f \in Within[n - 1]}
Ring(n) == Within[n] \ Within[n - 1]

\* The walk is breadth first whatever duplicates the queue holds: a function is
\* visited at its distance from the one evaluated, so the depth limit never
\* drops a caller that a shorter chain of calls would have reached.
VisitedAtDistance ==
  /\ pc \in {"callers", "sites"} =>
       /\ \A n \in DOMAIN queue :
            queue[n].fn \notin visited \cup {queue[k].fn : k \in 1..(n - 1)} => queue[n].fn \in Ring(queue[n].depth)
       /\ visited \subseteq Within[depth]
  /\ pc = "callers" /\ queue # <<>> => Within[Item.depth - 1] \subseteq visited

\* A call in a loop that is not back into the functions nearer to func.
LoopCallWithin ==
  \E n \in 1..(depth - 1) : \E f \in Ring(n) : \E k \in DOMAIN module.sites[f] :
    module.sites[f][k].loop /\ module.sites[f][k].caller \in Ring(n + 1)

\* No hot caller is overlooked: when the walk ends without a verdict of hot, no
\* caller up to the depth is hot by the profile, and none calls from a loop.
HotCallersFound ==
  pc = "assess" /\ funcHot # Hot => Within[depth] \cap profile["FREQCALL"] = {} /\ ~LoopCallWithin

\* Nothing is hot without a reason: a hot caller, a call in a loop, or more
\* call sites (with the function itself) than the threshold.
SitesWithin == UNION {{f} \X DOMAIN module.sites[f] : f \in Within[depth - 1]}
HotHasReason ==
  pc = "assess" /\ funcHot = Hot =>
    \/ Within[depth] \cap profile["FREQCALL"] # {}
    \/ \E f \in Within[depth - 1] : \E k \in DOMAIN module.sites[f] : module.sites[f][k].loop
    \/ 1 + Cardinality(SitesWithin) > CallerHot

\* The verdict on a function says what its callers are, each looked at when
\* the shortest chain of calls leads to it (Evaluator.cpp:257).
HotExactly == VisitedAtDistance /\ HotCallersFound /\ HotHasReason

\* What is counted of a function: each instruction once, the first with the
\* whole slice.  The hotness of the function raises every one of them.
Propagated == IF level > 1 THEN module.slice[func] ELSE <<>>
Assessed(n) == IF n = 1 THEN {Insts[n]} \cup ToSet(Propagated) ELSE {Insts[n]}
Highest(risks) == CHOOSE r \in risks : \A q \in risks : q <= r
RiskOf(n) == Highest({Assess(inst) : inst \in Assessed(n)})

\* The statistics are those of this function's instructions, nothing is left of
\* the functions before, and a hot function has no instruction below moderate
\* risk but intrinsics.
StatsOfThisFunction ==
  pc = "assess" =>
    /\ \A r \in RISKLEVELS : FuncRiskStat[r] = Cardinality({n \in 1..(i - 1) : RiskOf(n) = r})
    /\ funcHot = Hot =>
         \A n \in 1..(i - 1) : Insts[n].kind # "intrinsic" => RiskOf(n) >= ModerateRisk

\* Every instruction of the map is counted once in the overall statistics.
AllCounted ==
  pc = "done" =>
    AllRiskStat[0] + AllRiskStat[1] + AllRiskStat[2] + AllRiskStat[3] + AllRiskStat[4]
      = Cardinality(UNION {{f} \X DOMAIN module.insts[f] : f \in DOMAIN module.insts})

\* What touches a call that the profile lists as expensive, of a function of the
\* module or of a library, is at least a moderate risk, and an extreme one in a
\* hot function (Evaluator.cpp:339, 362).
CallsListed(inst) == inst.kind = "call" /\ \E t \in ExpensiveTypes : Listed(inst.callee, t)
ListedCallsRisky ==
  pc = "assess" =>
    \A n \in 1..(i - 1) : (\E inst \in Assessed(n) : CallsListed(inst)) =>
      RiskOf(n) >= IF funcHot = Hot THEN ExtremeRisk ELSE ModerateRisk

\* Both statistics count what was assessed, once and under its function, and a
\* listed call is never among the small risks.
StatsExact == StatsOfThisFunction /\ AllCounted /\ ListedCallsRisky

\* The walk ends though calls are recursive, and every function is rated.
Terminates == <>(pc \in {"done", "exit"})
=============================================================================
