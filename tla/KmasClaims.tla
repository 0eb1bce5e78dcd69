----------------------------- MODULE KmasClaims -----------------------------
(***************************************************************************)
(* Sentences of the headers and comments about a run of the program, as    *)
(* properties; each is refuted by a run of its own.                        *)
(***************************************************************************)
EXTENDS Kmas

\* "If any called function fails, main won't fail, won't leak any memory."
\* (main.c). When asp_create fails, main returns without freeing the config.
NothingLeaks == HasExited => live = {}

\* "Only write terminating NULL if HALT wasn't the last command of the assembly
\* = the last byte already is 0x00" (output.c): a program whose last command is
\* not HALT gets its terminator. The last byte of a jump or of a MOV with a small
\* number is 0x00 as well.
TerminatorUnlessHalt ==
  HasExited /\ err = 0 /\ answer.code # << >> =>
    answer.halts \/ LoadedCode(disk) = Append(answer.code, 0)

\* "make sure thr outputted binary is valid KMX file" (output.h). What the stream
\* still keeps is written by fclose, whose failure is not noticed.
SuccessIsOnDisk == HasExited /\ err = 0 => IsImageOf(disk, answer)
=============================================================================
