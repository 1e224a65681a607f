----------------------------- MODULE MapperIndex -----------------------------
(***************************************************************************)
(* How Matcher finds the place of a source file in a module, before it     *)
(* matches lines (module Matcher): the constructor with the compile units  *)
(* it keeps, resetTarget and all it calls (lib/mapper/Matcher.cpp), the    *)
(* names of files it compares (lib/commons/handy.cc), and the number of    *)
(* directories count_strips takes off them (lib/commons/LLVMHelper.cpp).   *)
(*                                                                         *)
(* A name is the sequence of its pieces between slashes: <<"", "p", "a">>  *)
(* is /p/a, and <<>> the empty string.  A call of resetTarget is one step. *)
(***************************************************************************)
EXTENDS Integers, Sequences, FiniteSets, SequencesExt, FiniteSetsExt

CONSTANTS
  Modules,      \* LLVM modules: sequences of compile units
  Strips,       \* [debug, patch]: the options -m, negative when it is not given, and -p
  Targets,      \* names of files to look for; <<>> asks for the whole module
  Rank,         \* the place of a name of the debug information in string order
  Initial,      \* the first character of a piece of a directory
  MaxCalls      \* bound: calls of resetTarget on one Matcher

\* A name, and that it never climbs above a relative start: what canonpath
\* does then is undefined, as its comment says.
Proper(p) == p \notin {"", ".", ".."}
Count(Test(_), seq, i, j) == Cardinality({k \in i..j : Test(seq[k])})
Up(p) == p = ".."
Climbs(name) == \E j \in DOMAIN name : Count(Up, name, 1, j) > Count(Proper, name, 1, j)
IsAbsolute(name) == name # <<>> /\ Head(name) = ""
IsName(name) == name \in Seq(STRING) /\ (IsAbsolute(name) \/ name = <<>> \/ Head(name) = ".." \/ ~Climbs(name))

IsSubprogram(sp) ==
  /\ DOMAIN sp = {"dir", "file", "named", "line", "lastinst"}
  /\ sp.dir \in DOMAIN Rank /\ sp.file \in DOMAIN Rank
  /\ sp.named \in BOOLEAN /\ sp.line \in Nat /\ sp.lastinst \in Nat

ASSUME RankAssumption ==
  /\ \A a \in DOMAIN Rank : IsName(a) /\ Rank[a] \in Nat
  /\ \A a, b \in DOMAIN Rank : Rank[a] = Rank[b] => a = b

ASSUME ModulesAssumption ==
  \A m \in Modules :
    /\ m # <<>>
    /\ \A n \in DOMAIN m :
         /\ m[n].dir \in DOMAIN Rank /\ m[n].file \in DOMAIN Rank
         /\ IsAbsolute(m[n].dir) /\ \A k \in 2..Len(m[n].dir) : m[n].dir[k] \in DOMAIN Initial
         /\ m[n].current \in BOOLEAN
         /\ \A k \in DOMAIN m[n].sps : IsSubprogram(m[n].sps[k])

ASSUME TargetsAssumption == \A t \in Targets : IsName(t)

VARIABLES
  matcher,     \* "new" or "ready"
  module,      \* the module of the Matcher
  strips,      \* debugstrips and patchstrips
  inferred,    \* the first came from count_strips
  MyCUs,       \* its compile units, sorted
  MySPs,       \* the subprograms at hand, sorted
  filename,    \* the canonical name of the target
  patchname,   \* the same without its first directories
  initialized,
  result,      \* the iterator returned, Len(MySPs) + 1 for the end
  calls        \* the calls of resetTarget: target and outcome (history)

indexVars == <<matcher, module, strips, inferred, MyCUs, MySPs, filename, patchname, initialized, result, calls>>

-----------------------------------------------------------------------------
(* Names of files.                                                         *)

\* canonpath refuses the empty name and one that begins with two dots.
Refused(name) == name = <<>> \/ Head(name) = ".."

\* One piece of canonpath's loop.  Slip: two dots take nothing off.
KeepsDetour(path, p) == IF Proper(p) THEN Append(path, p) ELSE path
WithPiece(path, p) ==
  IF Proper(p) THEN Append(path, p)
  ELSE IF p = ".." /\ path \notin {<<>>, <<"">>} THEN Front(path) ELSE path

Canon(name) == FoldLeft(WithPiece, IF IsAbsolute(name) THEN <<"">> ELSE <<>>, name)

\* stripname of a canonical name; a negative number leaves the last piece.
Stripped(path, n) ==
  IF n = 0 \/ path = <<>> THEN path
  ELSE IF path = <<"">> THEN <<>>
  ELSE LET most == Len(path) - 1 IN
       SubSeq(path, 1 + (IF n < 0 \/ n > most THEN most ELSE n), Len(path))

\* directory + "/" + filename, or a file name that is absolute by itself.
\* Slip: the directory is always taken.
DirectoryFirst(e) == (IF e.dir = <<>> THEN <<"">> ELSE e.dir) \o e.file
DebugName(e) ==
  IF IsAbsolute(e.file) THEN e.file
  ELSE (IF e.dir = <<>> THEN <<"">> ELSE e.dir) \o e.file

\* pathneq: the debug name of e, less its first directories, is the name n.
Matches(e, n, dstrips) ==
  /\ ~Refused(DebugName(e))
  /\ Stripped(Canon(DebugName(e)), dstrips) = n

-----------------------------------------------------------------------------
(* count_strips: the slashes of the longest common string of the           *)
(* directories, and one more when that does not end in a slash.            *)

CommonPieces(dirs) ==
  Max({k \in 0..Max({Len(d) : d \in dirs}) :
         \A c, d \in dirs : k <= Len(c) /\ k <= Len(d) /\ SubSeq(c, 1, k) = SubSeq(d, 1, k)})

\* All directories go on after the common pieces, with the same character.
GoOnAlike(dirs) ==
  LET k == CommonPieces(dirs) IN
    /\ \A d \in dirs : Len(d) > k
    /\ \A c, d \in dirs : Initial[c[k + 1]] = Initial[d[k + 1]]

Directories(m) == {m[n].dir : n \in DOMAIN m}

\* Directories of a source tree names are not to lose, at the end of what is
\* common: its last piece when a directory ends there, or goes on with a slash.
KeptFor(dirs) ==
  LET k == CommonPieces(dirs)
      last == (CHOOSE d \in dirs : TRUE)[k]
      ends == \E d \in dirs : Len(d) = k
  IN IF GoOnAlike(dirs) THEN 0
     ELSE IF ends /\ last = "innodb_plugin" THEN 2
     ELSE IF ~ends /\ last = "src" THEN 1 ELSE 0

\* Slip: no directory is kept.
CutsToRoot(dirs) == CommonPieces(dirs) + (IF GoOnAlike(dirs) THEN 1 ELSE 0)
CountStrips(dirs) == CommonPieces(dirs) + (IF GoOnAlike(dirs) THEN 1 ELSE 0) - KeptFor(dirs)

-----------------------------------------------------------------------------
(* The lists of compile units and of subprograms.                          *)

SameFile(a, b) == a.dir = b.dir /\ a.file = b.file

\* cmpDICU and cmpDISPCopy: not greater in the order of sorting.
UnitLeq(a, b) ==
  \/ Rank[a.dir] < Rank[b.dir]
  \/ a.dir = b.dir /\ Rank[a.file] <= Rank[b.file]
SubprogramLeq(a, b) ==
  \/ ~SameFile(a, b) /\ UnitLeq(a, b)
  \/ SameFile(a, b) /\ a.line <= b.line

\* What sorting may make of a list: equal elements come in any order.
Fits(Leq(_, _), q, i, x) == (i > 1 => Leq(q[i - 1], x)) /\ (i <= Len(q) => Leq(x, q[i]))
Sorted(Leq(_, _), seq) ==
  FoldLeft(LAMBDA S, x : UNION {{InsertAt(q, i, x) : i \in {j \in 1..Len(q) + 1 : Fits(Leq, q, j, x)}} : q \in S},
           {<<>>}, seq)

\* Subprograms without name, file or line are left out.  Slip: those without
\* a line are not.
AnyNamed(sp) == sp.named /\ sp.file # <<>>
Usable(sp) == sp.named /\ sp.file # <<>> /\ sp.line # 0

\* DISPCopy, with getLastLine of its function.
Copy(sp) == [dir |-> sp.dir, file |-> sp.file, line |-> sp.line, last |-> sp.lastinst]
CopiesOf(unit) ==
  IF unit.current
  THEN LET good == SelectSeq(unit.sps, Usable) IN [n \in DOMAIN good |-> Copy(good[n])]
  ELSE <<>>

AllCopies(m) == FlattenSeq([n \in DOMAIN m |-> CopiesOf(m[n])])

\* The list for a unit.  Slip: the old one is not cleared.
AddedTo(old, unit) == Sorted(SubprogramLeq, old \o CopiesOf(unit))
ListFor(old, unit) == Sorted(SubprogramLeq, CopiesOf(unit))

\* matchCompileUnit and slideSPToTarget: the first that matches, or the end.
FirstMatch(seq, name) ==
  Min({n \in DOMAIN seq : Matches(seq[n], name, strips.debug)} \cup {Len(seq) + 1})

\* The constructor: the strips given or inferred, units of an old version left out.
NewMatcher ==
  /\ matcher = "new"
  /\ \E m \in Modules, n \in Strips :
       /\ module' = m
       /\ inferred' = (n.debug < 0)
       /\ strips' = [n EXCEPT !.debug = IF n.debug < 0 THEN CountStrips(Directories(m)) ELSE n.debug]
       /\ MyCUs' \in Sorted(UnitLeq, SelectSeq(m, LAMBDA u : u.current))
  /\ matcher' = "ready"
  /\ UNCHANGED <<MySPs, filename, patchname, initialized, result, calls>>

-----------------------------------------------------------------------------
(* resetTarget, one action for each way it ends.                           *)

Called(target, outcome) ==
  /\ matcher = "ready"
  /\ Len(calls) < MaxCalls
  /\ calls' = Append(calls, [target |-> target, outcome |-> outcome])
  /\ UNCHANGED <<matcher, module, strips, inferred, MyCUs>>

Named(target) == Stripped(Canon(target), strips.patch)

\* initName goes on.
Accepted(target) == ~Refused(target) /\ Named(target) # <<>>

\* An empty target: the subprograms of all units, from the first one.
ResetToAll ==
  /\ Called(<<>>, "all")
  /\ MySPs' \in Sorted(SubprogramLeq, AllCopies(module))
  /\ patchname' = <<>>
  /\ initialized' = TRUE
  /\ result' = 1
  /\ UNCHANGED filename

\* initName fails, but has changed the names unless canonpath failed.
ResetRefused(target) ==
  /\ target # <<>> /\ ~Accepted(target)
  /\ Called(target, "refused")
  /\ IF Refused(target) THEN UNCHANGED <<filename, patchname>>
     ELSE filename' = Canon(target) /\ patchname' = Named(target)
  /\ result' = Len(MySPs) + 1
  /\ UNCHANGED <<MySPs, initialized>>

\* The list at hand is that of the target.  Slip: any list is.
AnyListWillDo(target) == MySPs # <<>>
Reuses(target) == filename = Canon(target)

\* What is returned for the list.  Slip: its beginning.
FromTheStart(list, name) == 1
Slid(list, name) == FirstMatch(list, name)

ResetReused(target) ==
  /\ Accepted(target) /\ Reuses(target)
  /\ Called(target, "reused")
  /\ filename' = Canon(target)
  /\ patchname' = Named(target)
  /\ initialized' = TRUE
  /\ result' = Slid(MySPs, Named(target))
  /\ UNCHANGED MySPs

\* matchCompileUnit finds none: the names are the new ones, the list the old one.
ResetNoUnit(target) ==
  /\ Accepted(target) /\ ~Reuses(target)
  /\ FirstMatch(MyCUs, Named(target)) \notin DOMAIN MyCUs
  /\ Called(target, "no_unit")
  /\ filename' = Canon(target)
  /\ patchname' = Named(target)
  /\ initialized' = TRUE
  /\ result' = Len(MySPs) + 1
  /\ UNCHANGED MySPs

ResetProcessed(target) ==
  /\ Accepted(target) /\ ~Reuses(target)
  /\ FirstMatch(MyCUs, Named(target)) \in DOMAIN MyCUs
  /\ Called(target, "processed")
  /\ filename' = Canon(target)
  /\ patchname' = Named(target)
  /\ initialized' = TRUE
  /\ MySPs' \in ListFor(MySPs, MyCUs[FirstMatch(MyCUs, Named(target))])
  /\ result' = Slid(MySPs', Named(target))

-----------------------------------------------------------------------------

IndexInit ==
  /\ matcher = "new"
  /\ module = <<>> /\ MyCUs = <<>> /\ MySPs = <<>>
  /\ strips = [debug |-> 0, patch |-> 0] /\ inferred = FALSE
  /\ filename = <<>> /\ patchname = <<>>
  /\ initialized = FALSE
  /\ result = 1
  /\ calls = <<>>

\* The client makes no more calls.
IndexFinished == Len(calls) = MaxCalls /\ UNCHANGED indexVars

IndexNext ==
  \/ NewMatcher
  \/ ResetToAll
  \/ \E t \in Targets : ResetRefused(t) \/ ResetReused(t) \/ ResetNoUnit(t) \/ ResetProcessed(t)
  \/ IndexFinished

IndexSpec == IndexInit /\ [][IndexNext]_indexVars

-----------------------------------------------------------------------------
(* What is to be handed over.                                              *)

\* The pieces of a name no later two dots take off.
Resolved(name) ==
  LET stays(i) == /\ Proper(name[i])
                  /\ \A j \in i + 1..Len(name) : Count(Up, name, i + 1, j) <= Count(Proper, name, i + 1, j)
      kept == {i \in DOMAIN name : stays(i)}
  IN (IF IsAbsolute(name) THEN <<"">> ELSE <<>>)
       \o [n \in 1..Cardinality(kept) |->
             name[CHOOSE i \in kept : Cardinality({k \in kept : k <= i}) = n]]

\* An element of the debug information is of the file the chapter names: its
\* name, less the first directories, is the chapter's, less its own.
OfFile(e, name) ==
  LET path == Resolved(IF IsAbsolute(e.file) THEN e.file ELSE e.dir \o e.file)
      short == Resolved(name)
      rest(p, n) == IF n \in 0..Len(p) - 1 THEN SubSeq(p, n + 1, Len(p)) ELSE <<Last(p)>>
  IN path # <<>> /\ rest(path, strips.debug) = rest(short, strips.patch)

Outcome == Last(calls).outcome
Asked == Last(calls).target

\* The call that made the list at hand, 0 when none did.
Maker == Max({0} \cup {n \in DOMAIN calls : calls[n].outcome \in {"all", "processed"}})

\* The list was made for the file now asked for.
MadeForIt ==
  Maker # 0 /\ calls[Maker].outcome = "processed" /\ Resolved(calls[Maker].target) = Resolved(Asked)

Occurs(x, seq) == Cardinality({n \in DOMAIN seq : seq[n] = x})

\* What a unit says of one of the subprograms in the list.
SamePlace(sp, e) ==
  SameFile(sp, e) /\ sp.line = e.line /\ sp.lastinst = e.last /\ sp.named /\ sp.file # <<>> /\ sp.line > 0

\* The list holds the usable subprograms of unit u, each as often as u does.
ListsUnit(u) ==
  /\ Len(MySPs) = Cardinality({k \in DOMAIN u.sps : u.sps[k].named /\ u.sps[k].file # <<>> /\ u.sps[k].line > 0})
  /\ \A n \in DOMAIN MySPs :
       Occurs(MySPs[n], MySPs) = Cardinality({k \in DOMAIN u.sps : SamePlace(u.sps[k], MySPs[n])})

Mine(n) == OfFile(MySPs[n], Asked)

\* The debug information spells the file in one way.
OneSpelling == \A m, n \in DOMAIN MySPs : Mine(m) /\ Mine(n) => SameFile(MySPs[m], MySPs[n])

Answered == calls # <<>> /\ Outcome \in {"reused", "processed"}

-----------------------------------------------------------------------------
(* Properties.                                                             *)

Outcomes == {"all", "refused", "reused", "no_unit", "processed"}

\* Types of the Matcher (Matcher.h:113).
IndexTypeOK ==
  /\ matcher \in {"new", "ready"}
  /\ matcher = "ready" => module \in Modules /\ strips.debug \in Int /\ strips.patch \in Int
  /\ \A n \in DOMAIN MyCUs : \E k \in DOMAIN module : MyCUs[n] = module[k]
  /\ \A n \in DOMAIN MySPs : MySPs[n].line \in Nat \ {0} /\ MySPs[n].last \in Nat
  /\ \A name \in {filename, patchname} : name \in Seq(STRING) /\ \A n \in 2..Len(name) : Proper(name[n])
  /\ initialized \in BOOLEAN
  /\ result \in 1..Len(MySPs) + 1
  /\ \A n \in DOMAIN calls : calls[n].target \in Targets \cup {<<>>} /\ calls[n].outcome \in Outcomes

\* However a target is spelled, the iterator stands on the first subprogram of
\* that file and on none only when the list has none (Matcher.cpp:377).
OnTheFile ==
  Answered =>
    /\ filename = Resolved(Asked)
    /\ \A n \in DOMAIN MySPs : n < result => ~Mine(n)
    /\ result \in DOMAIN MySPs => Mine(result)

\* The list is that of the first unit of the file; a list of another unit is
\* looked through only when a call before found no unit for the same file, or
\* all units were asked for (Matcher.cpp:352).
ListOfItsUnit ==
  Answered =>
    IF MadeForIt
    THEN \E n \in DOMAIN MyCUs :
           /\ OfFile(MyCUs[n], Asked) /\ ListsUnit(MyCUs[n])
           /\ \A m \in DOMAIN MyCUs : m < n => ~OfFile(MyCUs[m], Asked)
    ELSE \/ Maker # 0 /\ calls[Maker].outcome = "all"
         \/ \E n \in DOMAIN calls :
              calls[n].outcome = "no_unit" /\ Resolved(calls[n].target) = Resolved(Asked)

\* Of a file spelled in one way the subprograms stand together, by line, as
\* module Matcher assumes; the last line matchFunction infers from the next
\* subprogram can lie before its function behind the last one only (Matcher.cpp:523).
RegionInOrder ==
  Answered /\ OneSpelling =>
    \A m, n \in DOMAIN MySPs :
      result <= m /\ m < n /\ Mine(n) => Mine(m) /\ MySPs[m].line <= MySPs[n].line

\* With inferred strips a unit is found by its name below the directory that
\* all units share, or with the directories kept for it, unless their names go
\* on with the same character there (LLVMHelper.cpp:107).
FoundBelowRoot ==
  LET dirs == Directories(module)
      root == CommonPieces(dirs)
      kept == CASE \E d \in dirs : Len(d) = root /\ d[root] = "innodb_plugin" -> 2
                [] \A d \in dirs : Len(d) > root /\ d[root] = "src" -> 1
                [] OTHER -> 0
      below(u) == SubSeq(u.dir, root + 1 - kept, Len(u.dir)) \o u.file
  IN calls # <<>> /\ Outcome = "no_unit" /\ inferred /\ strips.patch = 0 /\ ~GoOnAlike(dirs) =>
       \A n \in DOMAIN MyCUs : IsAbsolute(MyCUs[n].file) \/ Resolved(Asked) # Resolved(below(MyCUs[n]))

\* What resetTarget hands over to the matching of lines.
RegionHandedOver == OnTheFile /\ ListOfItsUnit /\ RegionInOrder /\ FoundBelowRoot
=============================================================================
