# PerfScope in TLA+

TLA+ models, model-checking runs and machine-checked proofs for PerfScope
(`src/`), a static analysis that reads a patch, maps every changed line to the
LLVM instructions it touches and rates the performance risk of the change.
All of the program is sequential C++; what is hard in it is not concurrency but
*bookkeeping between components that walk two things at once*: two files and
one control sequence, a patch and a module's functions, a work list and a graph
that is still being built.

## 1. The system

```
 patch ──patch-c──▶ PIR ──PatchDecoder──▶ Hunk/Mod ──Matcher──▶ function, instructions
                                                                      │
             profile ──parseProfile──▶ RiskEvaluator ◀── CostModel ◀──┘
                                            ▲   └── Slicer / PDGSlicer / DepIterator
 old.bc,new.bc ──PerfDiff (DifferenceEngine)──▶ functions worth analysing
```

| component | source | state it keeps | operations | what is hard |
|---|---|---|---|---|
| Hunk reduction | `PatchDecoder.cpp` `Hunk::reduce`, `merge` | two line cursors, chunk buffer, list of Mods | scan a control character, look back, merge a chunk | the cursors are advanced in two places; a `+` rewrites an earlier `-`; asserts carry the call (365) |
| PIR decoder | `PatchDecoder.cpp` `next_patch/chapter/hunk`, `unget_line` | one line buffer with a `rewind` flag; the current patch, chapter and hunk | next, unget, skip | each level reads one line too many and pushes it back for another level; only one line can be pushed back; objects freed by two owners |
| Analysis driver | `tools/PerfScope/PerfScope.cpp` `analyze`, `runevaluator` | the instruction map of a chapter | patch → chapter → module → hunk → function loops | two nested walks (functions, instructions) driven by scopes that are shrunk as they are matched |
| Mapper, matching | `lib/mapper/Matcher.cpp` | the iterators and scopes of its caller | matchFunction, matchInstruction | progressive matching: the scope is advanced across calls and the iterators never go back |
| Mapper, indexing | `lib/mapper/Matcher.cpp`, path functions of `lib/commons` | sorted units and subprograms, cached target name | constructor, resetTarget, matchLoop | a list kept from the call before; names spelled in several ways; scopes that are unknown |
| Risk evaluator | `lib/analyzer/RiskEvaluator/Evaluator.cpp` | caches of loop depth, statistics per function and in total | assess, calcInstHotness, calcFuncHotness, calcCallerHotness | graph walks with depth limits and caches that remember partial answers |
| Cost model | `lib/analyzer/CostModel` | a DAG built from a cyclic CFG, in-degree counters, costs | BBDAG::init, getFunctionCost, getInstructionCost | a depth-first and a topological walk that must agree on the edges; tables that multiply by the same width |
| Dependence graph | `lib/dependence/DepGraphBuilder.cpp`, `include/graph` | nodes with edges kept at both ends | buildMemDepGraph | one edge in two lists |
| Slicers | `lib/slicer`, `lib/dependence/DepIter.cpp`, `include/graph/DFSIter.h` | stacks, visited sets, ready/done masks of the iterator | next, sliceInit, sliceNext | iterator protocol with several exhausted/ready states |
| Diff engine | `lib/analyzer/DiffEngine` | value equivalence maps, tentative pairs, priority queue of block pairs | unify, tryUnify, diff | a two-pass unification whose failures must be reported exactly once |
| patch-c | `lib/parser/PatchCompiler` | pointers into the patch file, the hunk being read | there_is_another_patch, another_hunk, gobble | hunks read by the counts of their headers, with a search for the next header that starts again where the last hunk ended; damaged and cut files |
| Profile | `parseProfile` in `lib/commons/LLVMHelper.cpp`, `tools/StaticProfiler` | names by type | read a line; rank and write | one text opens and closes a heading; an index past the end of an array in StaticProfiler |
| Commons | `lib/commons` | none, or a static buffer | canonpath, stripname, pathneq, count_strips, fgetline | boundary cases of string algorithms |
| PerfDiff, ListFiles | `tools/` | none | drivers | - |
| Third-party | `third-party/` (LLVMSlicer, DSA, Dependence, patch) | - | - | vendored, not modelled |

Two pairs of components share state. The decoder's levels (patch, chapter, hunk)
share one line buffer; a hunk handed to the driver points into it. The driver
and the mapper share the scopes of the hunk and of its Mods, the subprogram
iterator and the instruction iterator: each of them is an argument passed by
reference and advanced in place. Everything else is a call and a return.

**What makes each component correct**

- *Hunk reduction*: the Mods cover exactly the changed lines of both files, in
  order, and the cursors are right at every chunk boundary.
- *Decoder*: every hunk of the file reaches the driver once, under its own
  chapter and patch, or its chapter was given up; every file ends the program.
- *Mapper and driver*: exactly the instructions on changed lines are collected,
  once; no change is lost to a cursor that moved too far; the loops end.
- *Cost model*: the graph built is acyclic, and the cost is that of the dearest
  way that goes round no loop.
- *Risk evaluator*: hot callers within the depth are found, nothing is hot
  without a reason, each instruction counts once and for its own function.
- *Diff engine*: no difference found means that the functions do the same;
  functions that are the same are not found different.
- *Mapper, indexing*: however a file is spelled, the list is that of its unit and
  the iterator stands on its first subprogram; the loop found meets the scope.
- *Dependence graph*: each definite dependence once, from both ends.
- *Slicers*: every instruction the criterion leads to, once, along dependences of the kind asked for; asked for
  both kinds, along memory dependences first and then along SSA (the code loses the second half, section 3).
- *Profile*: each name under the heading it stands under, or the file is refused.
- *patch-c*: every hunk of a unified diff is written, once and under its own
  file, and every change is reported once; a hunk of a damaged diff that is
  written has the lines its header counts; what is written is a PIR.

`PROJECT.json` lists the places in the code where each of these could go wrong
("hazards"), with the properties that watch them.

## 2. The modules

| module | code | state ↔ code | actions ↔ code |
|---|---|---|---|
| `EditScript` | none: the abstract walk a hunk stands for | `pos`, `old`, `new`, the lines touched | `Keep` a line, `Change` a whole chunk |
| `HunkReduce` | `Hunk::reduce`, `merge`, `newMod` | `line`, `repline`, `buf` (gBuf up to buf_len), `del_cnt`, `mods`, the locals of `merge` in `mg` | one action per case of the switch (`Same`, `AddPlain`, `AddReplace`, `Del`, `Invalid`), `MergeChar` per buffer character, `MergeReturn`, the early return, the return |
| `PatchDecoder` | the three `next_*`, `skip_rest_of_hunks`, `unget_line`, `next_line`, `fgetline`; the loops of `analyze` and of two test drivers | `st` = file position, line in the buffer, `rewind`; `patch` with its liveness, `chap`, `hunk`; `delivered` and `skipped` are history | each method, split at its outcomes (end, syntax error, success; of a hunk also the assertion at 365, which a control sequence with an unknown character fails) |
| `PIR` | the section marks shared by `gobble` and the decoder | line kinds; `IsPatchCOutput` | |
| `UnifiedDiff` | none: the meaning of a diff | changes, hunks, lines | `DiffLines` lays a diff out, `DiffMeaning` says what is to be written of it |
| `PatchCompiler` | the loop of `main.cc` over one file; `there_is_another_patch`, `intuit_diff_type`, `fetchname`, `another_hunk`, `gobble`, `reinitialize` | `pos`, `p_base`, `need` (need_header), `p_name`, `inname`, `skip`, `hunk`, `patchprinted`; `out` is the .id file, `log` the .log and .src files; `pass` is `p_pass_comments_through`, which nothing initialises | one action per header line searched, per line of a hunk and its outcome, per hunk written, per change reported |
| `Matcher` | `matchFunction`, `matchInstruction`, and `analyze`'s loops over hunks, functions, Mods | `I`, `scope`, `multiple`, `func`, `prevfunc`, `mods`/`HI`, `fi`, `s`, `insignificant`, `instmap`; `last` holds the inferred last lines | one action per loop iteration or early return |
| `MapperIndex` | the constructor of `Matcher`, `resetTarget` with all it calls; `canonpath`, `stripname`, `pathneq`, `count_strips` | `MyCUs`, `MySPs`, `filename`, `patchname`, `initialized`; `calls` is history | `NewMatcher` and one action per outcome of `resetTarget` |
| `LoopSearch` | `matchLoop`, `getLoopScope`, `getBlockScope` | the locals of `matchLoop`: `ls`, `found`, the two iterators `top` and `sub` | one action per loop looked at and what becomes of it |
| `InstructionCost` | `getInstructionCost`, `getBasicBlockCost`, the tables of `X86CostModel`, the defaults of `TargetTransformStub` | none: operators | |
| `FunctionCost`, which extends it | `BBDAG::init`, `CostModel::getFunctionCost` | `color`, `stack`, `out`, `in_cnt`, `cost`, `queue` | `VisitBlock`, `LinkSuccessor` per successor, `VisitDone`, `PopBlock`; `TakeNode`, `RelaxEdge`, `NodeDone` |
| `Enumeration` | none: the elements of a set are given one by one, each once, until all were | `phase`, `goal`, `given` | `SetUp`, `Give`, `End` |
| `DependenceSlicer` | `buildMemDepGraph`, `DepIterator` over two `DFSIter`, `Slicer`, `PDGSlicer` | `nodes`, `outN`, `inN` (the graph); `flags` (`m_state`), `iter` (work list and visited set of each iterator), `depinst`; `pdg` (the other slicer's stack) | one action per result of a query, per turn of `in_next`/`out_next`, per call of `sliceInit`/`sliceNext`, per neighbour pushed |
| `Profile` | `parseProfile`; the output of `static_profile` | none: operators on what was read so far | |
| `RiskEvaluator`, which extends it | `parseProfile`, `runOnFunction`, `calcCallerHotness`, `assess` and below, `runevaluator` | `reading` (the profile), `queue`, `visited`, `callers`, `loopAnalyzed`, the two statistics | one action per line of the profile, queue entry, call site, instruction, slice element |
| `DiffEngine` | `DifferenceEngine::diff` for modules, `FunctionDifferenceEngine` | `Blocks`, `Values`, `Tentative`, `Queue` (the heap as an array), `Differences`; `lost` (refused pairs) is history | function by function, then `Dequeue`, `CompareInst`, `FindDifference`, `Unify` |
| `CharCounts` | none: counting the characters of a control sequence, for the properties of `HunkReduce` and `PatchCompiler` | | |
| `HunkReduceProofs`, `PatchDecoderProofs`, `PatchCompilerProofs`, `MatcherProofs`, `FunctionCostProofs`, `RiskEvaluatorProofs`, `DependenceSlicerProofs`, `DiffEngineProofs` | | | theorems |

`MC*` modules give the constants for TLC. `PROJECT.json` maps every definition to
the lines it models. Loop bodies are the atomic steps everywhere: nothing
else runs, so the grain only decides which intermediate states the invariants
see. The one place where a body is larger is the pairing of the successors of a
terminator in `DiffEngine`, a loop without calls that change anything it reads; a
call of `resetTarget` is one step as well, since its caller sees only the result.

`PatchCompiler` and `PatchDecoder` compose through the file between them:
`WritesPIR` says that patch-c writes only files of the shape `IsPatchCOutput`,
and `NothingLost` says that the decoder reads every file of that shape to its
end. `CountsAgree` gives the hunks of `HunkReduce` their meaning: the
control sequence has as many lines of each side as the header. `MapperIndex`
and `Matcher` meet in the iterator `resetTarget` returns: `RegionHandedOver` is what
`Matcher` takes for granted of it. `Profile` joins the writer and the reader of a profile: `ProfileExact`
also says that what `static_profile` writes is read back as the ranking it was written from.

Data are abstracted to what the properties tell apart: a PIR line is its kind, an
instruction its line (Matcher), its kind, cost and the function it calls (RiskEvaluator), its operation and
types (InstructionCost), its dependences (DependenceSlicer), or its
opcode, attribute and operands (DiffEngine). A file name is the sequence of its pieces, since
directories are counted and compared piece by piece (all but `count_strips`, which
compares characters and sees the first one of each piece). Lines of the program text keep
their numbers.

What is taken from outside `src/` (LLVM, the vendored slicer) is an input: the
debug lines of instructions, the loops with their trip counts, the use lists of
functions in any order, the results of memory dependence queries, the lowering of types, the slice of
each function.

## 3. The runs

All programs modelled are sequential. A specification is
`Init /\ [][Next]_vars /\ WF_vars(Next)`: the only fairness is that a program
that can take its next step takes it. `MapperIndex` has none, since its steps are the calls of a
client, and `LoopSearch` none, since nothing is asked of it but what it returns. One run checks both:
`MapperSpec` in `MCMapper` is either the matching of `Matcher`, fairness included, or a client that makes a Matcher and calls `resetTarget`,
or a call of `matchLoop`, which is static and shares nothing with one. A program that has ended stutters in
`Finished` (`Done`), and deadlock checking stays on everywhere, so no other
state is stuck.

| run | inputs (bounds) | what it shows |
|---|---|---|
| `hunk_reduce` | all control sequences up to `MCMaxLen` = 6 at several start lines, up to 4 with an invalid character | cursors, and coverage, order and pairing of the Mods (`ModsExact`); both asserts; termination; implements `EditScript` |
| `patch_decoder` | all files patch-c could write up to 6 sections, those of 4 sections with one line damaged (control sequences unfit for `reduce` among the damage), all files of up to 4 lines; three drivers | push-back, order and attribution of the hunks, nothing lost, files of patch-c read to the end, termination on any file |
| `patch_compiler` | diffs of one or two changes of up to two hunks: whole, cut at any line or inside it, with any one line lost, with a damaged hunk header; text, an `Index:` line alone, a hunk without a change; names with a space, dates behind a tab or a space | whole diffs are translated and reported, cut ones lose only their end, damaged ones never yield a hunk whose counts are wrong or a file the decoder refuses; termination |
| `matcher` | matching: units of 1 to 3 subprograms on lines 1..6 (full, out of order, one line, without location, declared, of another file), 1 or 2 Mods in 1 or 2 hunks; indexing: eight modules of one or two units (a file alone in its directory, a header both include, a file spelled in two ways, roots that begin alike, subprograms twice or unusable), three settings of the strips, three calls out of eleven targets; `matchLoop`: up to three loops of the top level, up to three subloops of the first, with blocks out of order, on one line or without lines, and all scopes of lines 0..7 | what is collected was changed, once, and all of it for the first function of a hunk; "trivial" is printed when nothing was found (`CollectedExactly`); whose list is at hand, where the iterator stands and what follows it (`RegionHandedOver`); the loop found is the one sought, and which loop's lines decide when its own are unknown (`LoopFound`) |
| `function_cost` | every graph of up to 4 blocks with at most 2 successors, and switches of 3, on one target; every kind of instruction on three targets | the cut graph is acyclic, all is settled, the result is the dearest loop-free way (`CostExact`); no table or default makes the wider instruction the cheaper one (`CostFollowsWidth`) |
| `risk_evaluator` | all call graphs of 3 functions with up to 2, 1 and 1 call sites, more call sites than the threshold of 3; pairs of instructions of all kinds, slices of up to 2; depth 0 to 3; levels 1 and 2; profiles of up to four lines with or without a segment before them, and those `static_profile` may write of three functions, a declared one and an intrinsic | the profile, the walk over the callers and the statistics; a call of a listed function is no small risk, whether the function has a body or is only declared (`ListedCallsRisky`) |
| `diff_engine` | pairs of three-block functions that differ in one block or in numbering, wide and doubled edges, addresses of blocks taken before and after the block is met, inline assembly, modules of declarations | the two passes agree, "same" means same unless a pair was refused, renumbering is no difference (`ComparedExactly`) |
| `slicer` | functions of three instructions: every memory dependence with up to two results, every SSA dependence with up to two operands, loops among them; every request | the graph (`GraphExact`), what is given by both slicers and along which chain (`WalksExact`), implements `Enumeration` where one kind of dependence is left to follow; of a memory access and both kinds, memory dependences are exhausted first (`MemoryFirst`, in `WalksExact`) and `slicer_all_dep` shows what is lost |

The bounds are the smallest at which the cases meet: six characters hold two
chunks with a kept line between them and a `+` that pairs with the `-` before the last;
two changes are enough for every flag of patch-c to be left over from an earlier one, and
the hunks include empty sides, a missing newline, a lost space, and a removed line that looks like a header;
six sections hold two patches with two chapters; two functions and two hunks
are enough for every cursor to be left over from an earlier hunk; four blocks
hold a loop with two entries; three functions a caller at distance two that is
also reached over a cycle; three blocks a loop and a join; three instructions a chain, a cycle and a
diamond without its foot; two units a list left from another unit, three calls
a failed one between two for the same file.

Symmetry is not used: lines, blocks and functions are ordered, and the walks
depend on their order.

### Where code and documentation differ

Four runs end in a violation, each of a property taken from a comment (the lines are quoted in
`PROJECT.json`):

- `many_functions`: of a hunk over several functions only the first is searched.
- `open_ended_function`: the caller's loop never ends on a last function whose last line is unknown.
- `two_patches`: the second patch of a file is read after the first was deleted twice.
- `slicer_all_dep`: with both kinds of dependence asked for, a memory access is sliced over its memory dependences alone. The SSA
  iterator is never set up (`DepIter.cpp:51`), where the comment at 110 has "first exhaust memory dependence and then SSA".
  `ImplementsEnumeration` says nothing of such a request (`OneKind`); of its first half `MemoryFirst` does.

Seen while modelling and not given a run of their own ("checked": TLC finds it when the inputs or the
property are changed that way).

*patch-c and the decoder*

- `lib/parser/README:21` has one line number in a hunk header where `next_hunk` (343) requires two.
- An insertion without context before line 1 of an existing file is taken
  for a creation and the change dropped (`parser.cc:485`, checked); the inputs of `patch_compiler` have none.
- The answer to the question for a file name is read into another buffer than the one tested
  (`parser.cc:586`): a change without a name is always skipped.
- A header with line 0 for a side that is not empty is passed on by `another_hunk`
  and refused by `next_hunk`: the assumption of the proof of `WritesPIR`.
- A created file that is no source file is reported as `NEW_FILE`, not as `NON_SOURCE`.
- A name with a space that is not followed by a tab is cut at the space (`fetchname`, 1430), and a date
  behind a space belongs to the name when a tab comes later.
- `best_name` (1716) keeps the shortest base name of a name it has already ruled out, and then finds none of several
  names; it is never called, since `intuit_diff_type` takes the new name if there is one.
- `fgetline` (`handy.cc:82`) grows a copy of the decoder's buffer pointer.
- `.hpp` counts as source for both `issource` and `src2obj`, `.h` only for the first: patch-c writes the changes of
  a header `.h` and the driver skips them.

*Mapper*

- An inferred last line before its function stops the program at `Matcher.cpp:527` (the `matcher`
  run reaches it, as `pc = "assert"`).
- `count_strips` compares characters: two directories below the root that begin alike (`/p/sql`, `/p/src`)
  make it one strip too many, and files are not found. `MapperIndex` allows for it in `GoOnAlike`; without that the run fails (checked).
- A `resetTarget` that finds no unit keeps the list of the call before, and the next one for the same name looks
  through it (`Matcher.cpp:352`). PerfScope makes a Matcher for each chapter; a client that keeps one (`TestMapper.cpp:105`)
  meets it.
- A file spelled in two ways splits into two regions of the list, and the iterator stands on the first
  (`Matcher.cpp:498`, checked).
- `matchLoop` finds a loop without lines by the scope of the loop before it (452): `Decides` in `LoopSearch` says which.
- `canonpath` refuses a relative name that begins with two dots and anything but a slash (`handy.cc:236`).

*Evaluator, profile, cost*

- Each enclosing loop overwrites the hotness (`Evaluator.cpp:225`), so the outermost decides alone, where
  the comment at 220 goes on to the outer loop only if the inner one is not hot (checked).
- The threshold of callers counts call sites and the function itself (`Evaluator.cpp:266`).
- The finder of call sites ignores invokes.
- Begin and end of a heading in a profile are the same text, so the branch for an end without a begin is
  dead; a file refused is not closed; a name of more than 255 characters is read in pieces and never matches.
- `StaticProfiler` prints the first 50 entries of arrays that may be shorter (140), and with `-d` writes lines the
  reader does not match.
- A signed division asks for the cost of `UDIV` (`TargetTransformStub.cpp:56`). `TCC_Expensive`, "the cost of a 'div'
  instruction on x86" (`CostModel.h`), is never used: a scalar division costs 1, and only vectors reach a
  cost above the threshold of 10 of the evaluator. Shuffles, address computations and switches have no cost and add nothing.
- Under AVX a widening of four 16-bit elements costs 2, of eight 1: the table is asked with the
  types as written, the default with the types after splitting. Conversions are left out of `CostFollowsWidth`.
- `if (VTT == NULL) delete VTT` (`X86CostModel.cpp:93`).

*Diff engine, slicers*

- `tryUnify` "returns true if there was a problem" (`DifferenceEngine.cpp:157`), which its callers ignore (308): when the left
  block has another partner, functions that differ may come out the same (checked). `ComparedExactly` is stated where no pair was refused.
- The heap of block pairs does not always hand out the minimum, since its keys change
  (`DifferenceEngine.cpp:66`).
- Indirect branches are compared by an inverted test (`DifferenceEngine.cpp:448`): a function that
  loops by one differs from itself. The inputs of `diff_engine` have no such loop.
- The address of a block matches only when the block was met ("FIXME: tentative matches?", 390): a function that takes the address
  of a block behind it differs from itself (checked). `IsomorphicSame` is about functions without addresses. Inline assembly and metadata are never told
  apart (450), and `SameMeansSimilar` leaves them aside.
- A `sliceInit` that fails leaves the old slice to be read on (`PDGSlicer.cpp:34`).
- The base class of maps of graphs counts a node twice when an edge is added (`Graph.h:116`).

## 4. The proofs

The theorems hold for every value of the constants that satisfies the named
assumptions of the modules.

*HunkReduceProofs* (from `HunksAssumption`: hunks as `next_hunk` builds them, ending
below the largest unsigned). The type invariant, the asserts and the
cursors are not inductive alone: inside a chunk the cursors lag behind, by what
the buffer holds. The inductive invariant therefore relates the buffer to the
part of the control sequence it was filled from: its `-` and `^` count the `-` since the
chunk began, its `+` and `^` the `+`, and `del_cnt` the `-` left in it. While
`merge` runs, its cursors are ahead of `line` and `repline` by the characters
already merged. From it follow `TypeCorrect`, `AssertsNeverFire` and
`CursorsCorrect`. For `ModsAlwaysExact`, `ModsInv` adds what is covered: the lines in the Mods, together
with the region `merge` has open, are exactly the changed lines in front of the open chunk and of the cursors of a
running `merge` (`CoverInv`). A `+` takes the last `-` of the buffer as long as there is one, so the buffer
holds no `-` before a `+` that stayed alone (`NoDelBeforeAdd`): this is why the regions `merge` closes come in order on both
sides, and why a replacement is paired right.
`ReduceWalksScript` maps the walk to that of `EditScript`: the position is that of the chunk until it is merged, so a chunk is one
step of the script, and all other steps are stutters.

*PatchDecoderProofs* (no assumption on the files beyond their being sequences of
line kinds). The invariant is the conjunction of `TypeOK`, `StreamSound` (a pushed-back line is
the one in the buffer and a section header), `NamesBehind` (chapter and patch
names lie behind the position, in order), `HunkInHand` (the hunk just returned has its own
header and control line, after everything used), `UsedBehind` (so has every
hunk used) and `HunksInOrder`; one lemma per action shows that it is preserved. From it follow
`TypeCorrect`, `PushBackCorrect` and `HunksInOrderAlways`. `NothingEverLost` is about files that satisfy `IsPatchCOutput` alone. There
the decoder always stands between two sections (`Aligned`: a section is two lines, and `skip` is the only place inside one), the section in front of it is one the
method about to run can take (`Expected`), and every hunk header behind it was used, is in hand, or stands in a chapter that was skipped (`HunksReached`).

*PatchCompilerProofs* (from `DiffsAssumption`: a readable hunk header has four naturals, and
only an empty side is at line 0; nothing is assumed about the other lines or their order). The
invariant has two halves. `FillExact` relates the two fill pointers of `another_hunk` to the characters
read: the `-` and `~` are `fillsrc - 1`, the `+` and `~` are `filldst - ptrn - 2`,
and neither pointer passes its side; the loop ends when both sides are full, so
the counts are those of the header. `SectionsSound` and `HeadingsWritten` relate the flags
of `gobble` to the file written: a change that is not skipped has its headings in the file once
its first hunk was read, and `patchprinted` says that the file is not empty.
From it follow `TypeCorrect`, `CountsAlwaysAgree` and `PIRWritten`.

*MatcherProofs* (from `ChaptersAssumption`, hunks in the order of the patch, and `UnitsAssumption`, subprograms sorted by line with those of the
chapter's file in front). Three cursors move over one another's arguments and none moves back, so the invariant says for each what was left behind.
Behind `I` lies no function that the hunk taken last, or one to come, reaches (`IteratorInv`); behind `HI` lie Mods whose instructions in the function
matched are collected (`DoneInv`); behind `fi` lie instructions that are collected or that no Mod left wants (`PositionInv`). `ClampInv` says how far the scope of a Mod was
shrunk: it begins where the Mod does, at the function, or at the last instruction taken. `CompleteInv` then says what is
in the map of every hunk that is finished. From it follow `TypeCorrect` and `CollectedAlwaysExact`.
The same module proves `LoopAlwaysFound` of `LoopSearch` (from `LoopsAssumption`: a loop has a header; and `ScopesAssumption`). A known loop meets the scope by the greatest
line its blocks end on just when one of its blocks does (`MeetsByScope`), and `ls`, which a loop without lines leaves as it was, meets the scope just when the loop
looked at last is taken (`TopInv`, `SubInv`).

*FunctionCostProofs* (from `FunctionsAssumption`: the entry has no predecessor and successors are blocks; `CostsAssumption`: costs are naturals).
The first walk is a depth-first search that may push a block twice, so gray blocks are not what is on the stack: it is the *last* place of each gray block
on it that makes a simple path (`RouteInv`, from which `WalkAlwaysPath`). An edge to a gray block therefore closes a cycle, and those are the edges
left out (`OutInv`). A block is finished after all it leads to, so finished blocks can be ranked with every edge going down (`RankInv`): the graph is acyclic
although no step shows it. The second walk keeps `in_cnt` equal to the number of in-edges not yet counted down (`CountInv`), so a node is taken when all that leads
to it was (`ServedInv`), which is `SettledNeverRaised`. At the end no node is left out: it would wait for another of higher rank, and that one for another.
`CostInv` says that a cost is the highest of those brought along the in-edges counted. A path of that cost is found from the entry down the ranks; and where the graph is
reducible no simple path costs more, since an edge of it that was cut leads to a block that dominates its beginning, and so lies on the path already
(`CostAlwaysExact`).

*RiskEvaluatorProofs* (from `ModulesAssumption` and `BoundsAssumption`: finitely many functions; any call graph, recursive or not, any instructions, depths and thresholds, and
a profile of any lines).
`IInv` is the types with the bounds of the cursors. `SInv` is for the statistics: `StatInv` names the instructions of the function at hand that were counted, `TotalInv` those of the
functions before it, and each risk level counts those whose verdict it is (`StatsAlwaysExact`). `HInv` is for the walk over the callers, a breadth-first
search whose queue may hold a function several times: the queue is ordered by depth and spans two depths (`QueueInv`), what is nearer than its front was visited and what is as near is visited or
queued (`CoverInv`), no call site of a function visited was overlooked (`FollowedInv`), and each turn is owed to one of the call sites followed (`CountInv`), which bounds the
count the threshold is compared with. `VerdictInv` gives each hot verdict its reason. `Within` is defined by recursion on the distance;
what it contains is characterised by chains of calls (`HotAlwaysExact`).
`ProfileInv` is for the profile: `ReadTo` says of every number of lines what the reader holds after them, the names under each type, the heading they end
under, and that every heading before is complete. What is a heading is said of the file alone: the lines that are the mark open and close headings in turn (`Marks`,
`Opens`), since one text does both, and two headings never overlap (`HeadingParts`, `LatestOne`). A line the reader refuses is one no such file has (`LineRefused`).
For the files of `static_profile` the theorem joins writer and reader: the lines of two segments are counted out
(`SegmentsRead`), and among the first entries of any order `qsort` may leave are those that fewer than `topk` others
equal or exceed, and none that `topk` others exceed (`FirstOfOrder`). `IsRanking` supposes what the code does: names that differ, no name that is a mark, a `topk`
within the number of functions, and costs whose difference is an `int`, which is how the comparison takes it (`ProfileAlwaysExact`).

*DiffEngineProofs* (from `ModulePairsAssumption`: functions as LLVM verifies them. Blocks end in their only terminator, with as many successors as its kind
says; nothing goes back to the entry; values are defined in a block that dominates their uses, or above them). Whether two blocks are the same is decided
by a first pass, on pairs of values that are only supposed to be equal, and asserted by a second one, after the first pairs of the block
became known. For the passes to agree an operand must have the same partner in both, so the invariant `IInv` says where values are found: those in the map are the arguments and
the instructions of paired blocks, each with the same place in the partner (`ValuesInv`); and a block that still lacks values of its own dominates no paired one
(`DominatorsInv`, written with the sets of blocks that can be left only from it), since successors are paired at the end of the second pass. Hence an operand of the block compared
is in the map, or stands above its use and was supposed (`CompareInv`). That pairs supposed in a block that differed are never cleared does
not matter: they are right pairs, since the partner of a block never changes. From it follow `TypeCorrect` and `PassesAgree` (the assert of
`DifferenceEngine.cpp:181`). `ComparedAlwaysExact` adds two invariants. `SimilarInv`: as long as nothing differs and no pair was
refused, a paired block waits in the heap, is the one compared, or does what its partner does. `IsomorphicInv`: when the functions differ in their
numbering, blocks are paired by it, so that no comparison fails. Both need that the heap gives out every pair put in, though
its keys change while they are in it; the lemmas about `SiftUp` and `SiftDown` say that they permute the array, and nothing about its order.
Addresses of blocks need the same argument as values: one that agrees is of a paired block, and its partner does not change. A lookup of
an unknown one leaves an empty entry in the map, but only where a difference was found (`NothingInserted`).
The theorem supposes `NoBlockOperands`, that no operand of a left function is a block: an indirect branch has its targets as operands, and
they are compared by an inverted test (section 3), so without it the statement is false. `MCDiffEngine` assumes it of its instances.

*DependenceSlicerProofs* (from `NAssumption`, `FunctionsAssumption` and `RequestsAssumption`: functions of
any size with any dependences). `SlicerEnumerates` is the refinement: every step of the two nested iterators is a step of
`Enumeration` or none of its. The set to be given is the least one that holds the neighbours of the criterion and is closed under
dependences of the one kind left to follow (`OneKind`); a request for both kinds of a memory access, of which the code loses one, is no enumeration, and none is
claimed. The invariant is that of a depth-first search: what the iterator in use has visited is what was given (each once),
and all of it can be reached from the criterion; the neighbours of a visited instruction are visited too, unless the instruction is on the
work list, where those before its place are (`FollowedOrWaiting`, `EntrySound`). When the work list is empty the visited set is closed, so it holds
everything that can be reached, and the end is one of the enumeration. `FlagsInv` ties the flags to the iterators, without which
`next` could go on with an iterator that was never set up. It is shown for the kind the flags leave to walk, whatever was asked (`Walked`), which is the one asked for where `OneKind` (`PromisedWalked`). From it follow `TypesKept` and `SlicerEnumerates`.
`GraphAlwaysExact` rests on `BuildInv`: the two lists of an edge are the results taken so far, which `buildMemDepGraph` reads in the order of the instructions.
`WalksAlwaysExact` adds `CauseInv` (each entry of the work list is a neighbour of the one below it, and each instruction given had its cause given
before it), `MemoryFirst` (when memory was asked for, SSA is followed and the end reached only with the memory iterator
exhausted, or when the criterion is no node of the graph and has no memory dependences) and, for `PDGSlicer`, which gives an instruction when it takes it from its stack and not when it finds it, `PDGOnce` (what is given or on the stack is there once) and `PDGCovers`
(the neighbours of the criterion and of what was given were visited or are still to be pushed).

The provers cannot instantiate an induction theorem that takes a predicate. Where a proof needs induction over a number it takes the least element of the set of
counterexamples, which `LeastNatural` takes from the well-foundedness of `<` on the naturals. A recursive function is first shown to satisfy its
equations by giving a solution of them: `Within` the functions that chains of calls of a length lead to, the sums of `PathCost` those of the sums up to a place. `DiffEngineProofs` says it once for recursions along a measure
(`RecursionSolved`, `MeasureInduction`), which serves the two loops of the heap and the fold over the successors.

Only model-checked: `TranslatedExactly` of `PatchCompiler`; the properties of `MapperIndex` (`IndexTypeOK`, `RegionHandedOver`), which take names
apart piece by piece and sort lists with folds over operators, which no lemma can range over; `CostFollowsWidth` of `FunctionCost`, a fact of the cost tables of three targets, which no
constant of the model ranges over. Termination is left to TLC
throughout, since the prover does not handle liveness under fairness.

## 5. Not modelled

- Of patch-c: context, normal and ed diffs (`another_hunk` exits for them),
  the command line, the loop over a directory, the question to the user, opening the file to
  be patched (`get_input_file`, `scan_input`), indented patches and timestamps; its helpers, derived from GNU patch,
  most of which (backups, version control, applying hunks, choosing the best name) nothing calls.
- Of the mapper: the dumps of `processInst` and its like, which change no state, `__matchFunction`, which is marked
  deprecated, and the limit of a name's length in `canonpath`.
- Of the cost model: shuffles, address computations and intrinsics, whose costs nothing asks for; `getLoopCost`, never called;
  the features of a processor beyond those the tables ask about. What the lowering makes of a type is an input.
- Of the profile: a second `-e`, which adds to the first; more entries asked of `static_profile` than there are functions, since
  what lies behind an array has no model; costs that differ by 2^31 or more, which `compareFuncCost` would
  order the wrong way round.
- Of the drivers: option parsing and `load`, straight-line code before the loops, and `ListFiles`.
- `fgetline`'s growing buffer, `memset`s of output, the size of a
  `SmallVector`: memory, not behaviour.
- Unsigned overflow of costs: `CostsAssumption` says that the cost of a block is a natural number, and sums of them do not wrap.
- `DiffConsumer`, `DiffLog`: formatting. `PassRunner`: sets up LLVM passes. `runBlockDiff` of the diff engine: never called.
- Third-party code: the static slicer with its headers (`include/llvmslicer`), data structure analysis (`include/dsa`),
  the vendored dependence graph of a program, the generated configuration headers (`data`, `include/parser/config.h`).

About half of the lines of the repository's implementation are in that last item, in GNU patch's helpers, and in class
definitions whose methods are modelled where they are defined, so the map stays well below a third of all lines. Of the
functions that keep the program's own state, those not named above are all modelled.

## 6. Plan

Done, in this order: `HunkReduce` with `EditScript`, `PatchDecoder`, `Matcher`,
`FunctionCost`, `RiskEvaluator`, `DiffEngine`, `PatchCompiler` with `UnifiedDiff`, `DependenceSlicer` with `Enumeration`,
`MapperIndex` with `LoopSearch`, `InstructionCost`, `Profile`; then the proofs of section 4. Left to prove, in the order of what each would say:

1. `RegionHandedOver` and `IndexTypeOK` for `MapperIndex`: the list at hand is the sorted list of the unit found, and the
   iterator is put on its first entry of the name.
2. `TranslatedExactly` for `PatchCompiler`: where in the diff its flags and pointers stand, for diffs as `UnifiedDiff` lays them out.
