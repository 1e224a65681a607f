--------------------------- MODULE MCPatchDecoder ---------------------------
(***************************************************************************)
(* Small PIR files: every file patch-c could write with up to MaxSections  *)
(* sections, those with one line damaged, and every short file whatever.   *)
(***************************************************************************)
EXTENDS PatchDecoder

MaxSections == 6    \* sections of a well-formed file, two lines each
MaxDamaged == 4     \* sections of a file with one damaged line
MaxArbitrary == 4   \* lines of a file of any kinds

Laid(hs) == [n \in 1..(2 * Len(hs)) |-> IF n % 2 = 1 THEN hs[(n + 1) \div 2] ELSE Text]
WellFormed(max) ==
  {f \in {Laid(hs) : hs \in UNION {[1..n -> Headers] : n \in 0..max}} : IsPatchCOutput(f)}

\* A line of another kind; only the last line can be cut short.
Damaged ==
  UNION {UNION {{[f EXCEPT ![n] = k] : k \in LineKinds \ (IF n = Len(f) THEN {} ELSE {Cut})} :
                  n \in DOMAIN f} : f \in WellFormed(MaxDamaged)}

Arbitrary ==
  {f \in UNION {[1..n -> LineKinds] : n \in 0..MaxArbitrary} :
     \A n \in 1..(Len(f) - 1) : f[n] # Cut}

MCFiles == WellFormed(MaxSections) \cup Damaged \cup Arbitrary
AllDrivers == {"PerfScope", "TestMapper", "TestDecoder"}

\* The files of a run of PerfScope alone.
OnlyPerfScope == {"PerfScope"}
WellFormedFiles == WellFormed(4)
=============================================================================
