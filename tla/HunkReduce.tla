----------------------------- MODULE HunkReduce -----------------------------
(***************************************************************************)
(* Hunk::reduce and Hunk::merge of lib/parser/PatchIRDecoder/              *)
(* PatchDecoder.cpp: the translation of one PIR hunk, a control sequence   *)
(* over '~' (line kept), '-' (line removed) and '+' (line added), into a   *)
(* list of Mods with their line scopes in the old and in the new file.     *)
(*                                                                         *)
(* One step is one iteration of a loop: of the loop over the control       *)
(* sequence in reduce (pc = "scan") or of the loop over the buffer in      *)
(* merge (pc = "merge").  buf is gBuf[0..buf_len): nothing beyond buf_len  *)
(* is ever read.  add_cnt and m are written and never read, and are left   *)
(* out.                                                                    *)
(***************************************************************************)
EXTENDS Integers, Sequences, CharCounts

CONSTANTS
  Hunks,     \* hunks next_hunk constructs: [start_line, rep_start_line, ctrlseq]
  UintMax    \* largest value of the unsigned line counters

SAMC == "~"
ADDC == "+"
DELC == "-"
REPC == "^"
CtrlChars == {SAMC, ADDC, DELC}

(***************************************************************************)
(* next_hunk reads both line numbers with parseInt, so they are naturals;  *)
(* patch-c writes 1 for the position of an empty side (parser.cc:1163), so *)
(* the new-file line is positive, while reduce itself tests start_line.    *)
(* Hunks end before the last representable line.                           *)
(***************************************************************************)
ASSUME HunksAssumption ==
  /\ UintMax \in Nat
  /\ \A h \in Hunks :
       /\ h.start_line \in Nat
       /\ h.rep_start_line \in Nat \ {0}
       /\ h.ctrlseq \in Seq(STRING)
       /\ h.start_line + Len(h.ctrlseq) <= UintMax
       /\ h.rep_start_line + Len(h.ctrlseq) <= UintMax

VARIABLES
  hunk,          \* the Hunk object, chosen by Init
  pc,            \* "entry", "scan", "merge" or "done"
  i,             \* control characters processed
  line, repline, \* last line passed in the old and the new file
  buf,           \* gBuf[0..buf_len)
  del_cnt,       \* '-' of the chunk not yet paired with a '+'
  mg,            \* the locals of merge
  mods,          \* the Mods pushed so far
  enclosing,     \* enclosing_scope and rep_enclosing_scope
  ret            \* what reduce returned

vars == <<hunk, pc, i, line, repline, buf, del_cnt, mg, mods, enclosing, ret>>

seq == hunk.ctrlseq
Scope(b, e) == [begin |-> b, end |-> e]
ScopeSet == [begin : Nat, end : Nat]
ModSet == [type : {"ADD", "DEL", "REP"}, scope : ScopeSet, rep_scope : ScopeSet]

\* The locals of merge: the next buffer index, the region being built.
MergeLocals ==
  [k : Nat \ {0}, start : Nat, end : Nat, rep_start : Nat, rep_end : Nat, newregion : BOOLEAN]

NoMerge ==
  [k |-> 1, start |-> 0, end |-> 0, rep_start |-> 0, rep_end |-> 0, newregion |-> TRUE]

(***************************************************************************)
(* newMod: the type of a Mod from the buffer character.                    *)
(***************************************************************************)
ModType(c) == CASE c = ADDC -> "ADD" [] c = DELC -> "DEL" [] c = REPC -> "REP"

NewMod(start, end, repstart, repend, c) ==
  [type |-> ModType(c), scope |-> Scope(start, end), rep_scope |-> Scope(repstart, repend)]

(***************************************************************************)
(* The chunk ends at position p: it is the last, or a '~' follows.  One    *)
(* begins after the '~' at position p when another character follows it.   *)
(***************************************************************************)
ChunkEndsAt(p) == p = Len(seq) \/ seq[p + 1] = SAMC
ChunkBeginsAfter(p) == p # Len(seq) /\ seq[p + 1] # SAMC

\* `if (seqlen == 0 || start_line == 0) return false;`
\* Slips: the second test forgotten, or `<= 1` for `== 0`.
RejectedSeqOnly == Len(seq) = 0
RejectedLineOne == Len(seq) = 0 \/ hunk.start_line <= 1
Rejected == Len(seq) = 0 \/ hunk.start_line = 0

\* del_cnt after the '~' at position p.  Slip: not reset with the buffer.
CountKept(p) == del_cnt
CountAfterSame(p) == IF ChunkBeginsAfter(p) THEN 0 ELSE del_cnt

\* A '+' looks back for a '-' to cancel.  Slip: never.
NeverPairs == FALSE
LooksBack == del_cnt # 0

\* The position of the first DELC of the buffer (the look-back loop).
FirstDel(b) == CHOOSE k \in DOMAIN b : b[k] = DELC /\ \A m \in 1..(k - 1) : b[m] # DELC

\* The locals of merge when it is called.
\* Slip: the new-file cursor started from the old-file one.
MergeFromLine ==
  [k |-> 1, start |-> 0, end |-> line, rep_start |-> 0, rep_end |-> line, newregion |-> TRUE]
MergeCall ==
  [k |-> 1, start |-> 0, end |-> line, rep_start |-> 0, rep_end |-> repline, newregion |-> TRUE]

\* The cursors of merge after a buffer character.  Slip: only '+' is counted.
RepEndOnlyAdds(c) == IF c = ADDC THEN mg.rep_end + 1 ELSE mg.rep_end
EndAfter(c) == IF c # ADDC THEN mg.end + 1 ELSE mg.end
RepEndAfter(c) == IF c # DELC THEN mg.rep_end + 1 ELSE mg.rep_end

\* The region's first line.  Slip: a later region keeps the first start.
StartKept(end) == IF mg.start = 0 THEN end ELSE mg.start
RegionStart(end) == IF mg.newregion THEN end ELSE mg.start

\* The region ends at index k.  Slip: the end of the buffer does not end it.
RegionEndsOnChange(k) == k < Len(buf) /\ buf[k] # buf[k + 1]
RegionEnds(k) == k = Len(buf) \/ buf[k] # buf[k + 1]

\* The scopes enclosing all Mods.  Slip: both ends from the first Mod.
EnclosingFirst ==
  IF mods = <<>> THEN enclosing ELSE [old |-> mods[1].scope, new |-> mods[1].rep_scope]
EnclosingOfMods ==
  IF mods = <<>> THEN enclosing
  ELSE [old |-> Scope(mods[1].scope.begin, mods[Len(mods)].scope.end),
        new |-> Scope(mods[1].rep_scope.begin, mods[Len(mods)].rep_scope.end)]

-----------------------------------------------------------------------------
Init ==
  /\ hunk \in Hunks
  /\ pc = "entry"
  /\ i = 0
  /\ line = 0
  /\ repline = 0
  /\ buf = <<>>
  /\ del_cnt = 0
  /\ mg = NoMerge
  /\ mods = <<>>
  /\ enclosing = [old |-> Scope(0, 0), new |-> Scope(0, 0)]
  /\ ret = "none"

RejectEmpty ==
  /\ pc = "entry"
  /\ Rejected
  /\ pc' = "done"
  /\ ret' = "false"
  /\ UNCHANGED <<hunk, i, line, repline, buf, del_cnt, mg, mods, enclosing>>

Enter ==
  /\ pc = "entry"
  /\ ~Rejected
  /\ pc' = "scan"
  /\ line' = hunk.start_line - 1
  /\ repline' = hunk.rep_start_line - 1
  /\ UNCHANGED <<hunk, i, buf, del_cnt, mg, mods, enclosing, ret>>

\* The loop reads the next control character.
Reads(chars) == pc = "scan" /\ i < Len(seq) /\ seq[i + 1] \in chars /\ i' = i + 1

\* case SAMC: both cursors advance, and a chunk that begins starts afresh.
Same ==
  /\ Reads({SAMC})
  /\ line' = line + 1
  /\ repline' = repline + 1
  /\ buf' = IF ChunkBeginsAfter(i + 1) THEN <<>> ELSE buf
  /\ del_cnt' = CountAfterSame(i + 1)
  /\ UNCHANGED <<hunk, pc, mg, mods, enclosing, ret>>

\* After a '+' or a '-': call merge when the chunk ends here.
MergeIfChunkEnds ==
  IF ChunkEndsAt(i + 1) THEN pc' = "merge" /\ mg' = MergeCall ELSE UNCHANGED <<pc, mg>>

\* case ADDC with no '-' left to cancel: putBuf.
AddPlain ==
  /\ Reads({ADDC})
  /\ ~LooksBack
  /\ buf' = Append(buf, ADDC)
  /\ MergeIfChunkEnds
  /\ UNCHANGED <<hunk, line, repline, del_cnt, mods, enclosing, ret>>

\* case ADDC that turns the furthest '-' of the buffer into '^'.
AddReplace ==
  /\ Reads({ADDC})
  /\ LooksBack
  /\ buf' = [buf EXCEPT ![FirstDel(buf)] = REPC]
  /\ del_cnt' = del_cnt - 1
  /\ MergeIfChunkEnds
  /\ UNCHANGED <<hunk, line, repline, mods, enclosing, ret>>

Del ==
  /\ Reads({DELC})
  /\ buf' = Append(buf, DELC)
  /\ del_cnt' = del_cnt + 1
  /\ MergeIfChunkEnds
  /\ UNCHANGED <<hunk, line, repline, mods, enclosing, ret>>

\* The default case: any other character makes reduce return false.
Invalid ==
  /\ pc = "scan"
  /\ i < Len(seq)
  /\ seq[i + 1] \notin CtrlChars
  /\ pc' = "done"
  /\ ret' = "false"
  /\ UNCHANGED <<hunk, i, line, repline, buf, del_cnt, mg, mods, enclosing>>

(***************************************************************************)
(* One iteration of merge's loop over the buffer: advance the cursors the  *)
(* character occupies a line of, open a region if the last one was closed, *)
(* and push a Mod when the next character differs.                         *)
(***************************************************************************)
MergeChar ==
  /\ pc = "merge"
  /\ mg.k <= Len(buf)
  /\ LET c == buf[mg.k]
         end == EndAfter(c)
         rep_end == RepEndAfter(c)
         start == RegionStart(end)
         rep_start == IF mg.newregion THEN rep_end ELSE mg.rep_start
     IN
     /\ mg' = [k |-> mg.k + 1, start |-> start, end |-> end, rep_start |-> rep_start,
               rep_end |-> rep_end, newregion |-> RegionEnds(mg.k)]
     /\ mods' = IF RegionEnds(mg.k)
                  THEN Append(mods, NewMod(start, end, rep_start, rep_end, c)) ELSE mods
  /\ UNCHANGED <<hunk, pc, i, line, repline, buf, del_cnt, enclosing, ret>>

\* merge hands its cursors back through its reference parameters.
MergeReturn ==
  /\ pc = "merge"
  /\ mg.k > Len(buf)
  /\ pc' = "scan"
  /\ line' = mg.end
  /\ repline' = mg.rep_end
  /\ UNCHANGED <<hunk, i, buf, del_cnt, mg, mods, enclosing, ret>>

Return ==
  /\ pc = "scan"
  /\ i = Len(seq)
  /\ pc' = "done"
  /\ ret' = "true"
  /\ enclosing' = EnclosingOfMods
  /\ UNCHANGED <<hunk, i, line, repline, buf, del_cnt, mg, mods>>

\* reduce has returned.
Done == pc = "done" /\ UNCHANGED vars

Next ==
  \/ RejectEmpty \/ Enter
  \/ Same \/ AddPlain \/ AddReplace \/ Del \/ Invalid
  \/ MergeChar \/ MergeReturn
  \/ Return
  \/ Done

\* reduce is a sequential function: it keeps running until it returns.
Spec == Init /\ [][Next]_vars /\ WF_vars(Next)

-----------------------------------------------------------------------------
(***************************************************************************)
(* Auxiliary definitions of the properties.                                *)
(***************************************************************************)
Count(chars, n) == CharCount(seq, chars, n)
BufCount(chars) == CharCount(buf, chars, Len(buf))

\* The line of the old file (of the new file) a position of the script is at.
OldLine(p) == hunk.start_line - 1 + Count({SAMC, DELC}, p)
NewLine(p) == hunk.rep_start_line - 1 + Count({SAMC, ADDC}, p)

Removed == {OldLine(p) : p \in {q \in 1..i : seq[q] = DELC}}
Added   == {NewLine(p) : p \in {q \in 1..i : seq[q] = ADDC}}

OldCover == UNION {m.scope.begin..m.scope.end :
                      m \in {mods[k] : k \in {j \in DOMAIN mods : mods[j].type # "ADD"}}}
NewCover == UNION {m.rep_scope.begin..m.rep_scope.end :
                      m \in {mods[k] : k \in {j \in DOMAIN mods : mods[j].type # "DEL"}}}

\* A chunk is open: its characters are in buf and not yet merged.
ChunkOpen ==
  \/ pc = "merge"
  \/ pc = "scan" /\ i > 0 /\ seq[i] # SAMC /\ ~ChunkEndsAt(i)

-----------------------------------------------------------------------------
(***************************************************************************)
(* Type invariant: the scopes are naturals and the line counters stay      *)
(* below UintMax, so no `unsigned` of reduce wraps around.                 *)
(***************************************************************************)
TypeOK ==
  /\ hunk \in Hunks
  /\ pc \in {"entry", "scan", "merge", "done"}
  /\ i \in 0..Len(seq)
  /\ line \in 0..UintMax
  /\ repline \in 0..UintMax
  /\ buf \in Seq({ADDC, DELC, REPC})
  /\ del_cnt \in Nat
  /\ mg \in MergeLocals
  /\ mods \in Seq(ModSet)
  /\ enclosing \in [old : ScopeSet, new : ScopeSet]
  /\ ret \in {"none", "true", "false"}

(***************************************************************************)
(* The two asserts of reduce never fire (PatchDecoder.cpp:217 and 240):    *)
(* whenever del_cnt lets a '+' look back, the buffer of the chunk still    *)
(* has a '-' to turn into '^', and merge is never called on an empty       *)
(* buffer.                                                                 *)
(***************************************************************************)
AssertsHold ==
  /\ pc = "scan" /\ i < Len(seq) /\ seq[i + 1] = ADDC /\ del_cnt # 0
       => \E k \in 1..Len(buf) : buf[k] = DELC
  /\ pc = "merge" => Len(buf) > 0

(***************************************************************************)
(* The line cursors that place the Mods of every later chunk are right     *)
(* whenever no chunk is open: the old cursor has moved by one per '~' and  *)
(* '-' consumed, the new one by one per '~' and '+', whatever pairs the    *)
(* look-back has turned into '^' and however often merge has run.          *)
(***************************************************************************)
CursorsExact ==
  pc = "scan" /\ ~ChunkOpen =>
    /\ line = OldLine(i)
    /\ repline = NewLine(i)

(***************************************************************************)
(* No changed line is lost or invented: when no chunk is open the DEL and  *)
(* REP scopes cover exactly the lines of the old file the script removed,  *)
(* and the ADD and REP replacement scopes exactly the lines it added.      *)
(***************************************************************************)
ModsCoverChanges ==
  pc = "scan" /\ ~ChunkOpen => OldCover = Removed /\ NewCover = Added

(***************************************************************************)
(* The order PerfScope's loop over the Mods relies on when it walks them   *)
(* beside the instructions of a function: later Mods never start before an *)
(* earlier one ends, and two Mods never claim the same line of the old     *)
(* file (unless one is an ADD) or of the new file (unless one is a DEL).   *)
(***************************************************************************)
ModsOrdered ==
  \A a, b \in DOMAIN mods : a < b =>
    /\ mods[a].scope.end <= mods[b].scope.begin
    /\ mods[a].rep_scope.end <= mods[b].rep_scope.begin
    /\ mods[a].type # "ADD" /\ mods[b].type # "ADD"
         => mods[a].scope.end < mods[b].scope.begin
    /\ mods[a].type # "DEL" /\ mods[b].type # "DEL"
         => mods[a].rep_scope.end < mods[b].rep_scope.begin

(***************************************************************************)
(* A modification is reported as one: rule 3a of reduce's comment cancels  *)
(* every '+' that has an unpaired '-' before it in its chunk, so a DEL is  *)
(* never directly followed by an ADD of the same chunk, and a REP replaces *)
(* as many lines as it removes.                                            *)
(***************************************************************************)
ReplacementsPaired ==
  /\ \A k \in 1..(Len(mods) - 1) :
       ~ /\ mods[k].type = "DEL"
         /\ mods[k + 1].type = "ADD"
         /\ mods[k + 1].scope.begin = mods[k].scope.end
  /\ \A k \in DOMAIN mods : mods[k].type = "REP" =>
       mods[k].scope.end - mods[k].scope.begin
         = mods[k].rep_scope.end - mods[k].rep_scope.begin

(***************************************************************************)
(* rep_enclosing_scope, which PerfScope hands to the Matcher to find the   *)
(* functions a hunk touches, spans the scopes of all its Mods.             *)
(***************************************************************************)
EnclosingSpansMods ==
  ret = "true" =>
    \A k \in DOMAIN mods :
      /\ enclosing.old.begin <= mods[k].scope.begin
      /\ mods[k].scope.end <= enclosing.old.end
      /\ enclosing.new.begin <= mods[k].rep_scope.begin
      /\ mods[k].rep_scope.end <= enclosing.new.end

\* The Mods say what the script changes: no line is lost or invented, what was
\* replaced is not reported as removed and added, and analyze can walk them in
\* order, inside the scopes the hunk is searched by (PatchDecoder.cpp:130).
ModsExact == ModsCoverChanges /\ ReplacementsPaired /\ ModsOrdered /\ EnclosingSpansMods

(***************************************************************************)
(* reduce terminates, and fails only on an empty hunk or a character that  *)
(* is not a control character.                                             *)
(***************************************************************************)
Terminates == <>(pc = "done" /\ (ret = "false" =>
                                   \/ Len(seq) = 0 \/ hunk.start_line = 0
                                   \/ \E p \in 1..Len(seq) : seq[p] \notin CtrlChars))

(***************************************************************************)
(* reduce implements the edit-script walk: while a chunk is open the       *)
(* abstract walk waits at its first position, and the return of merge is   *)
(* its Change.  Mods already pushed by a running merge are not counted     *)
(* until it returns.  A hunk that reduce rejects on entry stays at the     *)
(* start.                                                                  *)
(***************************************************************************)
Entered == pc # "entry" /\ Len(seq) # 0 /\ hunk.start_line # 0

ChunkStart ==
  CHOOSE p \in 0..i : /\ p = 0 \/ seq[p] = SAMC
                      /\ \A q \in (p + 1)..i : seq[q] # SAMC

\* A chunk cut short by an invalid character stays open for ever.
Unmerged == ChunkOpen \/ (ret = "false" /\ i > 0 /\ seq[i] # SAMC)

Walk == INSTANCE EditScript WITH
  pos <- IF Unmerged THEN ChunkStart ELSE i,
  old <- IF Entered THEN line ELSE hunk.start_line - 1,
  new <- IF Entered THEN repline ELSE hunk.rep_start_line - 1,
  oldTouched <- {l \in OldCover : ~Entered \/ l <= line},
  newTouched <- {l \in NewCover : ~Entered \/ l <= repline}

ImplementsEditScript == Walk!Spec
=============================================================================
