---------------------------- MODULE EditedSource ----------------------------
(***************************************************************************)
(* The source is opened and read once by each pass. A text is the lines    *)
(* fu_getline hands to a pass. The second pass may be handed others than   *)
(* the first: someone has saved another text under the name in between, or *)
(* an input error in the middle of a line has made fu_getline hand back a  *)
(* part of it as a line, in one of the passes. An input error between two  *)
(* lines, or a line without memory, ends a pass early.                     *)
(***************************************************************************)
EXTENDS AssemblerRefinement

CONSTANT Edits(_)  \* the texts pass 2 may be handed when pass 1 was handed this one

ASSUME EditsAreTexts == \A lines \in Programs : Edits(lines) \subseteq Seq(Lines)

VARIABLES
  text,     \* history: the text pass 1 has read, or some lines of it
  agree     \* history: so far the passes have read the whole of the same text

editVars == <<vars, text, agree>>

InitEdited == Init /\ text = source /\ agree = TRUE

\* A pass ends without an error before it has read every line.
EndsEarly == phase' \in {"open2", "done"} /\ phase # phase' /\ err' = err /\ nl \in DOMAIN source

Assemble ==
  /\ Next
  /\ agree' = (agree /\ ~EndsEarly)
  /\ UNCHANGED text

\* Pass 2 will be handed other lines than pass 1 was: an editor saves another text
\* (external), or an input error cuts a line in one of the passes.
Edit ==
  /\ phase = "open2" /\ source = text
  /\ source' \in Edits(source) /\ agree' = FALSE
  /\ UNCHANGED <<phase, ctx, nl, symtab, segments, err, layout, text>>

SpecEdited == InitEdited /\ [][Assemble \/ Edit]_editVars

-----------------------------------------------------------------------------

\* The promise for the text pass 1 read; a run whose passes read different lines
\* never answers it.
OneText ==
  INSTANCE Assembly WITH source <- text, FaultExits <- ExitsOfFaults,
                         outcome <- IF agree THEN Outcome ELSE [exit |-> -1]

\* As long as the two passes of process_assembler read the same text to its end,
\* the promise of the assembler is kept: whatever allocation, opening or reading
\* of the source fails, a faulty source is not turned into a program, and the
\* exit code is that of the first fault or one that stands for the failure.
KeepsPromiseForOneText == OneText!Spec

Instructions == {i \in 1..(nl - 1) : source[i].kind = "STMT_INSTRUCTION"}

\* When the passes have read different lines and the assembler still accepts
\* them, the program is what pass 2 read, with the addresses of what pass 1 read:
\* pass2_instruction finds every instruction's own place by counting the bytes it
\* appends, so no instruction is lost, shifted or cut, and a jump goes wrong only
\* where its label has moved. Pass 2 compares no size with the limits, so another
\* text may be longer than an int32_t can count: then convert_size_t saturates,
\* and only the sizes are right.
SecondTextFirstAddresses ==
  Success =>
    /\ dtsg.size = Promise!DataAddress(nl) /\ Len(code) = Promise!CodeAddress(nl)
    /\ Len(code) <= Int32Max =>
         \A i \in Instructions : Promise!ReadableAs(code, i, OneText!MeantValues(source[i].ops))

\* Pass 2 never writes past what is allocated for a segment, although pass 1,
\* which checks the limits, may have seen other lines and has moved the sizes
\* without growing the buffers: every append of pass 2 looks after its own room.
AppendsStayInBuffer ==
  phase = "pass2" =>
    /\ dtsg.size <= dtsg.capacity
    /\ Len(code) <= cdsg.capacity /\ cdsg.size = Len(code)
=============================================================================
