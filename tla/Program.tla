------------------------------ MODULE Program ------------------------------
(***************************************************************************)
(* The whole program: main of Kmas, and the two passes of Assembler where  *)
(* main calls process_assembler. The bytes of the data segment, which      *)
(* Assembler only counts, are all DataByte here.                           *)
(***************************************************************************)
EXTENDS AssemblerRefinement

CONSTANTS CommandLines, Signature, OldTarget,  \* as in Kmas
          MainFaults,                          \* the Faults of Kmas
          DataByte                             \* what a data segment is filled with

ASSUME ProgramAssumption == DataByte \in Nat /\ Signature \in Seq(Nat)

VARIABLES argv, world, config, pc, exit, live, stream, disk  \* as in Kmas; exit is err

mainVars == <<argv, world, config, pc, exit, live, stream, disk>>

programVars == <<vars, mainVars>>

Answers == [exit : Nat, data : Seq(Nat), code : Seq(Nat), halts : BOOLEAN]

\* The last instruction of the source is HALT.
Halts ==
  \E i \in DOMAIN source :
    /\ source[i].kind = "STMT_INSTRUCTION" /\ source[i].desc.mnemonic = "HALT"
    /\ \A j \in (i + 1)..Len(source) : source[j].kind # "STMT_INSTRUCTION"

\* What process_assembler has answered main.
Answered ==
  IF Success THEN [exit |-> 0, data |-> [i \in 1..dtsg.size |-> DataByte],
                   code |-> code, halts |-> Halts]
  ELSE [exit |-> IF phase = "done" THEN Outcome.exit ELSE 0,
        data |-> << >>, code |-> << >>, halts |-> FALSE]

K == INSTANCE Kmas WITH err <- exit, answer <- Answered, Faults <- MainFaults

-----------------------------------------------------------------------------

ProgramInit ==
  /\ Init
  /\ argv \in CommandLines /\ world \in K!Worlds /\ config = K!NoConfig
  /\ pc = "args" /\ exit = 0 /\ live = {} /\ stream = << >> /\ disk = OldTarget

\* Seeded fault: main does not look at what process_assembler returns.
process_assemblerUnchecked ==
  /\ pc = "process" /\ Next
  /\ IF phase' = "done" THEN pc' = "open" /\ exit' = Outcome'.exit
     ELSE UNCHANGED <<pc, exit>>
  /\ UNCHANGED <<argv, world, config, live, stream, disk>>

\* A step of the passes; the last one returns to main.
process_assembler ==
  /\ pc = "process" /\ Next
  /\ IF phase' = "done"
     THEN exit' = Outcome'.exit /\ pc' = IF exit' = 0 THEN "open" ELSE "finalize"
     ELSE UNCHANGED <<pc, exit>>
  /\ UNCHANGED <<argv, world, config, live, stream, disk>>

\* The steps of main around it.
Main ==
  /\ UNCHANGED vars
  /\ \/ K!args_parse \/ K!asp_create \/ K!output_binary
     \/ K!finalize \/ K!sanity_check \/ K!Exited

ProgramNext == process_assembler \/ Main

\* The program is a single thread that waits for nothing but its files.
ProgramSpec == ProgramInit /\ [][ProgramNext]_programVars /\ WF_programVars(ProgramNext)

-----------------------------------------------------------------------------
(* Properties.                                                             *)

\* With the passes in place of an arbitrary answer the program is still one Kmas
\* describes: what holds of every run of main holds of this one.
RunsAsMain == K!Init /\ [][K!Next]_(K!vars)

CodeSizeOfSource == Promise!CodeAddress(Promise!End)

\* The code of the source is in the bytes loaded, and nothing but the terminator
\* follows its size.
HoldsCode(loaded, size) ==
  /\ \A i \in Promise!Before(Promise!End, {"STMT_INSTRUCTION"}) : Promise!Readable(loaded, i)
  /\ Len(loaded) \in {size, size + 1} /\ size <= CdsgBytes
  /\ Len(loaded) > size => loaded[size + 1] = 0
  /\ size > 0 => loaded[Len(loaded)] = 0

\* From the source to the processor: after exit code 0 the virtual machine loads
\* from the file the processor's view of a source without a fault, every
\* instruction at its address in the code and every jump leading to its label.
\* The file holds nothing else, except that the terminator may follow: it is the
\* only byte that may be one too many for the code segment.
FileHoldsTheSource ==
  K!HasExited /\ exit = 0 /\ disk = stream =>
    /\ Promise!SourceFault = 0
    /\ Len(K!LoadedData(disk)) = Promise!DataAddress(Promise!End)
    /\ HoldsCode(K!LoadedCode(disk), CodeSizeOfSource)

\* The exit code when nothing fails but what the user gave the program.
Expected ==
  CASE K!args_error(K!Check(argv, world)) # 0 -> K!args_error(K!Check(argv, world))
    [] OTHER -> IF Promise!SourceFault # 0 THEN Promise!SourceFault
                ELSE IF world.parent /\ world.target # "dir" THEN 0 ELSE 42

\* The exit code tells the first thing that is wrong: the command line, then the
\* source, line by line as each pass reads it, then the target. A failure of the
\* system changes it to that failure's code, never to another fault or to 0.
ExitTellsTheFirstFault ==
  K!HasExited =>
    \/ exit = Expected
    \/ exit = 42 /\ Expected = 0 /\ MainFaults # {}
    \/ exit \in {1, 2, 42} /\ "memory" \in MainFaults
    \/ exit \in ExitsOfFaults

\* The program exits, whatever its arguments and its source: it never stops at
\* its own assertion.
Exits == <>(pc = "exited")
=============================================================================
