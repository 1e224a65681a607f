-------------------------------- MODULE PIR --------------------------------
(***************************************************************************)
(* The format between patch-c, which writes it (module PatchCompiler), and *)
(* the decoder, which reads it (module PatchDecoder): a file is a sequence *)
(* of line kinds.                                                          *)
(***************************************************************************)
EXTENDS Integers, Sequences

PHEADER == "patch"         \* four stars, a patch header; its name is on the next line
FHEADER == "chapter"       \* four equals signs, a chapter header; its file name is on the next line
HHEADER == "hunk n,m"      \* four hashes, a hunk header with both line numbers
HHEADER1 == "hunk n"       \* a hunk header next_hunk rejects: one number, or a zero
Text == "text"             \* any other line, fit for its place
Garbled == "garbled"       \* any other line, unfit for a control sequence
Empty == "empty"           \* a line without characters
Cut == "cut"               \* characters the end of the file cuts short
LineKinds == {PHEADER, FHEADER, HHEADER, HHEADER1, Text, Garbled, Empty, Cut}

\* What patch-c writes (gobble), and such files joined: every header is
\* followed by its text, the file begins with a patch, and the name of a patch
\* is followed by a chapter.
Headers == {PHEADER, FHEADER, HHEADER}
IsPatchCOutput(f) ==
  /\ Len(f) % 2 = 0
  /\ \A n \in 1..(Len(f) \div 2) : f[2 * n - 1] \in Headers /\ f[2 * n] = Text
  /\ Len(f) > 0 => f[1] = PHEADER
  /\ \A n \in DOMAIN f : f[n] = PHEADER => n + 2 \in DOMAIN f /\ f[n + 2] = FHEADER
=============================================================================
