------------------------------- MODULE Profile -------------------------------
(***************************************************************************)
(* The profile: a file that lists the functions known to be expensive or   *)
(* called often.  static_profile (tools/StaticProfiler/StaticProfiler.cpp) *)
(* writes one from the costs and call sites of a module, parseProfile      *)
(* (lib/commons/LLVMHelper.cpp) reads it back for the evaluator.           *)
(*                                                                         *)
(* A file is a sequence of lines, each as fgets returns it: a name longer  *)
(* than its buffer of 256 comes in pieces, which are names no function has *)
(***************************************************************************)
EXTENDS Integers, Sequences, FiniteSets, SequencesExt

SegmentBegin == "segment"   \* PROFILE_SEGMENT_BEGIN: four equal signs,
SegmentEnd == SegmentBegin  \* and PROFILE_SEGMENT_END is the same text
SpeTypes == {"SYSCALL", "LOCKCALL", "EXPCALL", "FREQCALL"}
InvalidType == "INVALIDTYPE"
Blank == ""

-----------------------------------------------------------------------------
(* parseProfile *)

\* profile: the names under each type, sorted once all are read, for the search;
\* at: what the next line is: of the body of a segment, its type, or the end of
\* its heading; "failed" once a line is none of what may stand there.
EmptyReading == [at |-> "body", type |-> InvalidType, profile |-> [t \in SpeTypes |-> {}]]
Fails(r) == [r EXCEPT !.at = "failed"]

\* A type name read in a heading.  Slip: the first one is kept.
FirstTypeKept(r, line) == IF r.type = InvalidType THEN line ELSE r.type
TypeRead(r, line) == line

\* A name, which is not to stand before the first heading.
NameRead(r, line) ==
  IF r.type = InvalidType THEN Fails(r) ELSE [r EXCEPT !.profile[r.type] = @ \cup {line}]

ReadLine(r, line) ==
  CASE r.at = "failed" -> r
    [] r.at = "type" -> IF line \in SpeTypes THEN [r EXCEPT !.at = "end", !.type = TypeRead(r, line)] ELSE Fails(r)
    [] r.at = "end" -> IF line = SegmentEnd THEN [r EXCEPT !.at = "body"] ELSE Fails(r)
    [] r.at = "body" -> IF line = Blank THEN r
                        ELSE IF line = SegmentBegin THEN [r EXCEPT !.at = "type"]
                        ELSE NameRead(r, line)

\* A file that ends within a heading is refused.  Slip: taken.
EndsAnywhere(r) == r.at # "failed"
EndsWell(r) == r.at = "body"

-----------------------------------------------------------------------------
(* static_profile *)

\* The largest cost whose difference to any smaller one is an int.
MaxCount == 2147483647
Counts == {n \in Nat : n <= MaxCount}

\* compareFuncCost and compareFuncHot: the larger first.  Slip: the smaller.
SmallerFirst(a, b) == a.value <= b.value
LargerFirst(a, b) == a.value >= b.value

\* The orders qsort may leave the entries in.
Ranked(entries) ==
  {[k \in DOMAIN entries |-> entries[p[k]]] :
     p \in {q \in SetToSeqs(DOMAIN entries) :
              \A k \in 1..(Len(entries) - 1) : LargerFirst(entries[q[k]], entries[q[k + 1]])}}

\* A segment of the topk first entries, of all when topk is not positive.  With
\* a topk above their number the code reads on behind the array.
Segment(type, names) == <<SegmentBegin, type, SegmentEnd>> \o names
TopNames(ranked, topk) ==
  [k \in 1..(IF topk > 0 THEN topk ELSE Len(ranked)) |-> ranked[k].name]

\* The entries of a module's functions: name, and cost or number of call sites;
\* an LLVM intrinsic without a name and with zeros for both.
Costs(funcs) == [k \in DOMAIN funcs |-> [name |-> funcs[k].name, value |-> funcs[k].cost]]
Hots(funcs) == [k \in DOMAIN funcs |-> [name |-> funcs[k].name, value |-> funcs[k].calls]]

\* The files that may be written of them.
Written(costs, hots, topkCost, topkHot) ==
  Segment("EXPCALL", TopNames(costs, topkCost)) \o Segment("FREQCALL", TopNames(hots, topkHot))
StaticProfiles(funcs, topkCost, topkHot) ==
  {Written(c, h, topkCost, topkHot) : c \in Ranked(Costs(funcs)), h \in Ranked(Hots(funcs))}
=============================================================================
