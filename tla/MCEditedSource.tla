--------------------------- MODULE MCEditedSource ---------------------------
(***************************************************************************)
(* Texts that differ in a line: another line in its place, no line, or one *)
(* more at the end.                                                        *)
(***************************************************************************)
EXTENDS MCAssembler, EditedSource

CONSTANT MaxPrefix   \* bound on the lines of a text that are not replaced

FaultSources  == CodeSources \cup After(<< >>, StartAlphabet, MaxLines + 1)
FaultPrograms == FaultSources

NewLines == {Label("@l"), Instr("JE", <<To("@l")>>), Instr("NOP", << >>), Decl("x", 5),
             CODE, Simple("NO_STATEMENT")}

OneLineEdited(lines) ==
  {SubSeq(lines, 1, i - 1) \o SubSeq(lines, i + 1, Len(lines)) : i \in (MaxPrefix + 1)..Len(lines)}
    \cup {[lines EXCEPT ![i] = new] : i \in (MaxPrefix + 1)..Len(lines), new \in NewLines}
    \cup {Append(lines, new) : new \in NewLines}

AnyFaults == {"open", "memory", "read"}
=============================================================================
