------------------------------ MODULE LoopSearch ------------------------------
(***************************************************************************)
(* The loop at given lines of a function: Matcher::matchLoop, and the      *)
(* scopes of blocks and loops it compares (lib/mapper/Matcher.cpp).        *)
(*                                                                         *)
(* A block is the lines of its first and its last instruction, 0 when      *)
(* unknown; a loop is its blocks, the header first, and its subloops.  One *)
(* step is the look at one loop.                                           *)
(***************************************************************************)
EXTENDS Integers, Sequences, FiniteSetsExt

CONSTANTS
  LoopLists,    \* the top-level loops of functions
  Scopes        \* scopes to look for loops at

ScopeRecords == [begin : Nat, end : Nat]

IsLoopList(list) ==
  /\ Len(list) \in Nat /\ DOMAIN list = 1..Len(list)
  /\ \A n \in DOMAIN list : list[n].blocks \in Seq(ScopeRecords) /\ list[n].blocks # <<>>

ASSUME LoopsAssumption ==
  \A loops \in LoopLists :
    IsLoopList(loops) /\ \A n \in DOMAIN loops : IsLoopList(loops[n].subs)

ASSUME ScopesAssumption == Scopes \subseteq ScopeRecords

VARIABLES
  stage,   \* "called", "top", "sub" or "returned"
  loops,   \* the top-level loops of the function
  sought,  \* the scope to look for
  ls,      \* the scope of the loop looked at, or of one before it
  found,   \* the loop found: the place of a top-level loop, and of one in it
  top,     \* the iterator over the top level
  sub      \* the iterator over the subloops of a top-level loop

loopVars == <<stage, loops, sought, ls, found, top, sub>>

-----------------------------------------------------------------------------
\* getBlockScope
KnownBlock(b) == b.begin # 0 /\ b.end # 0

\* getLoopScope goes as far as the header is known.
Known(loop) == KnownBlock(loop.blocks[1])

\* The last line of a loop.  Slip: of its last block, what a comment warns of.
EndOfLastBlock(loop) == loop.blocks[Len(loop.blocks)].end
LastLine(loop) == Max({loop.blocks[n].end : n \in {k \in DOMAIN loop.blocks : KnownBlock(loop.blocks[k])}})

\* ls after a loop was looked at; it keeps its value when the loop is unknown.
ScopeAfter(loop) ==
  IF Known(loop) THEN [begin |-> loop.blocks[1].begin, end |-> LastLine(loop)] ELSE ls

Intersects(a, b) == b.end >= a.begin /\ b.begin <= a.end

Subs == loops[top].subs

LoopInit ==
  /\ stage = "called"
  /\ loops = <<>>
  /\ sought = [begin |-> 0, end |-> 0]
  /\ ls = [begin |-> 0, end |-> 0]
  /\ found = <<>>
  /\ top = 1 /\ sub = 1

CallMatchLoop ==
  /\ stage = "called"
  /\ loops' \in LoopLists
  /\ sought' \in Scopes
  /\ stage' = "top"
  /\ UNCHANGED <<ls, found, top, sub>>

\* A loop of the top level does not meet the scope.
PassTop ==
  /\ stage = "top" /\ top \in DOMAIN loops
  /\ ls' = ScopeAfter(loops[top])
  /\ ~Intersects(ls', sought)
  /\ top' = top + 1
  /\ UNCHANGED <<stage, loops, sought, found, sub>>

\* The first one that meets it is gone into.
EnterTop ==
  /\ stage = "top" /\ top \in DOMAIN loops
  /\ ls' = ScopeAfter(loops[top])
  /\ Intersects(ls', sought)
  /\ found' = <<top>>
  /\ stage' = "sub"
  /\ UNCHANGED <<loops, sought, top, sub>>

\* A subloop is found when it meets the scope.  Slip: the first one is kept.
KeepsFirstSub == IF Len(found) = 1 THEN <<top, sub>> ELSE found
FoundSub == <<top, sub>>

LookAtSub ==
  /\ stage = "sub" /\ sub \in DOMAIN Subs
  /\ ls' = ScopeAfter(Subs[sub])
  /\ found' = IF Intersects(ls', sought) THEN FoundSub ELSE found
  /\ sub' = sub + 1
  /\ UNCHANGED <<stage, loops, sought, top>>

LoopsEnded ==
  /\ \/ stage = "top" /\ top \notin DOMAIN loops
     \/ stage = "sub" /\ sub \notin DOMAIN Subs
  /\ stage' = "returned"
  /\ UNCHANGED <<loops, sought, ls, found, top, sub>>

Returned == stage = "returned" /\ UNCHANGED loopVars

LoopNext == CallMatchLoop \/ PassTop \/ EnterTop \/ LookAtSub \/ LoopsEnded \/ Returned

LoopSpec == LoopInit /\ [][LoopNext]_loopVars

-----------------------------------------------------------------------------
(* Properties.                                                             *)

\* A loop that could be placed: it begins before the scope ends, and one of
\* its blocks ends behind the beginning of the scope.
Meets(loop) ==
  /\ Known(loop)
  /\ loop.blocks[1].begin <= sought.end
  /\ \E n \in DOMAIN loop.blocks : KnownBlock(loop.blocks[n]) /\ loop.blocks[n].end >= sought.begin

\* The lines of loop k decide for loop n of a list: it is the last one up to n
\* with known lines.
Decides(list, k, n) == k <= n /\ Known(list[k]) /\ \A j \in k + 1..n : ~Known(list[j])

\* A loop of the top level is taken by its own lines; the first one, when its
\* lines are unknown, for a scope that begins at line 0.
TopTaken(t) == Meets(loops[t]) \/ (t = 1 /\ ~Known(loops[t]) /\ sought.begin = 0)

\* A subloop is taken by the lines that decide for it, those of a loop before
\* it when its own are unknown.  When none are known, the loop around it decides.
SubTaken(t, n) == \A k \in DOMAIN loops[t].subs : Decides(loops[t].subs, k, n) => Meets(loops[t].subs[k])

\* The first loop of the top level that is taken, or the last of its subloops
\* that is; none when none of the top level is taken.
IsLoopSought(f) ==
  \/ f = <<>> /\ \A n \in DOMAIN loops : ~TopTaken(n)
  \/ \E t \in DOMAIN loops :
       /\ TopTaken(t) /\ \A n \in 1..t - 1 : ~TopTaken(n)
       /\ \/ f = <<t>> /\ \A n \in DOMAIN loops[t].subs : ~SubTaken(t, n)
          \/ \E n \in DOMAIN loops[t].subs :
               /\ f = <<t, n>> /\ SubTaken(t, n)
               /\ \A k \in DOMAIN loops[t].subs : k > n => ~SubTaken(t, k)

\* Whatever scopes are unknown, and though their lines are then those of the
\* loop before, matchLoop returns that loop (Matcher.cpp:452).
LoopFound == stage = "returned" => IsLoopSought(found)
=============================================================================
