--------------------------- MODULE ProgramProofs ---------------------------
(***************************************************************************)
(* Theorems about the whole program, for every source, command line, state *)
(* of the files and set of failures.                                       *)
(***************************************************************************)
EXTENDS Program, AssemblerProofs

-----------------------------------------------------------------------------
(* The passes inside the program.                                          *)

\* What process_assembler does in the program is what Assembler describes, so
\* each of its invariants is one of the program.
THEOREM PassesInProgram == ProgramSpec => Spec
<1>1. ProgramInit => Init
  BY DEF ProgramInit
<1>2. [ProgramNext]_programVars => [Next]_vars
  BY DEF ProgramNext, process_assembler, Main, programVars
<1> QED
  BY <1>1, <1>2, PTL DEF ProgramSpec, Spec

\* Before main has an answer the passes have not ended.
NotAnsweredYet == pc \in {"args", "create", "process"} => phase # "done"

\* The steps of main lead to the call of process_assembler but not back to it.
LEMMA AnsweredOnce == ProgramSpec => []NotAnsweredYet
<1>1. ProgramInit => NotAnsweredYet
  BY DEF ProgramInit, Init, NotAnsweredYet
<1>2. NotAnsweredYet /\ [ProgramNext]_programVars => NotAnsweredYet'
  <2> SUFFICES ASSUME NotAnsweredYet, [ProgramNext]_programVars PROVE NotAnsweredYet'
    OBVIOUS
  <2>1. CASE process_assembler
    BY <2>1 DEF process_assembler, NotAnsweredYet
  <2>2. CASE Main
    <3>1. phase' = phase
      BY <2>2 DEF Main, vars
    <3>2. pc' \in {"args", "create", "process"} => pc \in {"args", "create", "process"}
      BY <2>2 DEF Main, K!args_parse, K!asp_create, K!output_binary, K!finalize, K!sanity_check,
                  K!Exited, K!vars, K!GoTo, K!Continue, K!FailWith, K!fu_open, K!fu_write_bytes,
                  K!write_header, K!write_length, K!write_data, K!write_code,
                  K!write_terminator, K!fclose
    <3> QED
      BY <3>1, <3>2 DEF NotAnsweredYet
  <2>3. CASE UNCHANGED programVars
    BY <2>3 DEF programVars, vars, mainVars, NotAnsweredYet
  <2> QED
    BY <2>1, <2>2, <2>3 DEF ProgramNext
<1> QED
  BY <1>1, <1>2, PTL DEF ProgramSpec

-----------------------------------------------------------------------------
(* The program and its main.                                               *)

\* What main sees of the passes: nothing while they are at work, then one of the
\* answers it is modelled for, with their exit code.
AnswerOK ==
  /\ Answered \in Answers
  /\ phase # "done" => Answered = K!NotYet
  /\ phase = "done" => Answered.exit = Outcome.exit

\* It follows from the types of what the passes compute.
LEMMA AnswerIsAnswer == TypeOK => AnswerOK
<1> SUFFICES ASSUME TypeOK PROVE AnswerOK
  OBVIOUS
<1>1. dtsg.size \in Nat /\ code \in Seq(Nat)
  BY SegmentAssumption DEF TypeOK, Segments
<1>2. [i \in 1..dtsg.size |-> DataByte] \in Seq(Nat)
  BY <1>1, ProgramAssumption
<1>3. Halts \in BOOLEAN /\ convert_err(err) \in Nat
  BY DEF Halts, convert_err
<1>4. CASE Success
  BY <1>1, <1>2, <1>3, <1>4 DEF Answered, Answers, AnswerOK, Success, Outcome
<1>5. CASE ~Success
  <2>1. (IF phase = "done" THEN Outcome.exit ELSE 0) \in Nat
    BY <1>3, <1>5 DEF Success, Outcome
  <2> DEFINE exitCode == IF phase = "done" THEN Outcome.exit ELSE 0
  <2>2. Answered = [exit |-> exitCode, data |-> << >>, code |-> << >>, halts |-> FALSE]
    BY <1>5 DEF Answered
  <2>3. phase # "done" => Answered = K!NotYet
    BY <2>2 DEF K!NotYet
  <2>4. phase = "done" => Answered.exit = Outcome.exit
    BY <2>2
  <2>5. << >> \in Seq(Nat)
    OBVIOUS
  <2> HIDE DEF exitCode
  <2>6. Answered \in Answers
    BY <2>1, <2>2, <2>5 DEF Answers, exitCode
  <2> QED
    BY <2>3, <2>4, <2>6 DEF AnswerOK
<1> QED
  BY <1>4, <1>5

\* A step of the program is one of its main.
LEMMA StepOfMain ==
  ASSUME AnswerOK, AnswerOK', NotAnsweredYet, [ProgramNext]_programVars
  PROVE  [K!Next]_(K!vars)
<1>1. CASE process_assembler /\ phase' = "done"
  <2>1. Answered' \in Answers /\ Answered'.exit = Outcome'.exit
    BY <1>1 DEF AnswerOK
  <2> QED
    BY <1>1, <2>1 DEF process_assembler, K!Next, K!process_assembler, K!GoTo
<1>2. CASE process_assembler /\ phase' # "done"
  <2>1. Answered' = Answered
    <3>1. phase # "done" /\ phase' # "done"
      BY <1>2 DEF process_assembler, NotAnsweredYet
    <3> QED
      BY <3>1 DEF AnswerOK, K!NotYet
  <2> QED
    BY <1>2, <2>1 DEF process_assembler, K!vars
<1>3. CASE Main
  BY <1>3 DEF Main, K!Next
<1>4. CASE UNCHANGED programVars
  <2>1. Answered' = Answered
    BY <1>4 DEF programVars, vars, Answered, Success, Outcome, Halts
  <2> QED
    BY <1>4, <2>1 DEF programVars, mainVars, K!vars
<1> QED
  BY <1>1, <1>2, <1>3, <1>4 DEF ProgramNext

\* The program begins as its main.
LEMMA StartOfMain == ProgramInit => K!Init
<1> SUFFICES ASSUME ProgramInit PROVE K!Init
  OBVIOUS
<1>1. Answered = K!NotYet
  BY DEF ProgramInit, Init, Answered, Success, K!NotYet
<1> QED
  BY <1>1 DEF ProgramInit, K!Init

\* With the passes in place of an arbitrary answer the program is still one
\* Kmas describes: its theorems hold of every run of the whole program.
THEOREM ProgramRunsAsMain == ProgramSpec => RunsAsMain
<1>1. AnswerOK /\ AnswerOK' /\ NotAnsweredYet /\ [ProgramNext]_programVars => [K!Next]_(K!vars)
  BY StepOfMain
<1> QED
  BY <1>1, StartOfMain, PassesInProgram, TypeCorrect, AnswerIsAnswer, AnsweredOnce,
     PTL DEF ProgramSpec, RunsAsMain

-----------------------------------------------------------------------------
(* The answer.                                                             *)

\* What process_assembler has answered, once it has, is promised.
AnswerPromised == Outcome # Promise!NotYet => Promise!Promised(Outcome)

\* It was when it was given, and neither the answer nor the source changes after.
LEMMA AnswersArePromised ==
  ASSUME "read" \notin Faults
  PROVE  Spec => []AnswerPromised
<1>1. Promise!Init => AnswerPromised
  BY DEF Promise!Init, AnswerPromised
<1>2. AnswerPromised /\ [Promise!Answer]_<<source, Outcome>> => AnswerPromised'
  <2> SUFFICES ASSUME AnswerPromised, [Promise!Answer]_<<source, Outcome>>
               PROVE  AnswerPromised'
    OBVIOUS
  <2>1. PICK answer : answer = Outcome'
    OBVIOUS
  <2>2. source' = source
    BY DEF Promise!Answer
  <2>3. Promise!Promised(answer)' <=> Promise!Promised(answer)
    BY <2>2, SamePromise
  <2>4. answer # Promise!NotYet => Promise!Promised(answer)
    <3>1. CASE Promise!Answer
      BY <2>1, <3>1 DEF Promise!Answer
    <3>2. CASE Outcome' = Outcome
      BY <2>1, <3>2 DEF AnswerPromised
    <3> QED
      BY <3>1, <3>2
  <2> QED
    BY <2>1, <2>3, <2>4 DEF AnswerPromised, Promise!NotYet
<1> QED
  BY <1>1, <1>2, PassesKeepPromise, PTL DEF KeepsPromise, Promise!Spec

-----------------------------------------------------------------------------
(* The exit code.                                                          *)

Accepted == K!Check(argv, world) = "accepted"

Openable == world.parent /\ world.target # "dir"

\* The exit code tells what the property asks of it.
ToldBy(number) ==
  \/ number = Expected
  \/ number = 42 /\ Expected = 0 /\ MainFaults # {}
  \/ number \in {1, 2, 42} /\ "memory" \in MainFaults
  \/ number \in ExitsOfFaults

\* How far main has come tells what has been found right, and when main frees
\* its memory the exit code stands.
ExitInv ==
  /\ pc \in {"create", "process"} => Accepted /\ exit = 0
  /\ pc \in {"open"} \cup K!Writing => Accepted /\ phase = "done" /\ Outcome.exit = 0
  /\ pc = "open" => exit = 0
  /\ pc \in K!Writing => Openable /\ (exit = 0 \/ (exit = 42 /\ MainFaults # {}))
  /\ pc \in {"finalize", "assert", "exited"} => ToldBy(exit) /\ (exit = 0 => Success)

\* After a source has been accepted its exit code is that of the target.
LEMMA ExpectedOfTarget ==
  ASSUME AnswerPromised, Accepted, phase = "done", Outcome.exit = 0
  PROVE  Expected = IF Openable THEN 0 ELSE 42
<1>1. Outcome # Promise!NotYet
  BY DEF Promise!NotYet
<1>2. 0 \notin ExitsOfFaults
  BY DEF ExitsOfFaults
<1>3. Promise!SourceFault = 0
  BY <1>1, <1>2 DEF AnswerPromised, Promise!Promised
<1>4. K!args_error(K!Check(argv, world)) = 0
  BY DEF Accepted, K!args_error
<1> QED
  BY <1>3, <1>4 DEF Expected, Openable

\* A write goes on, or reports a failure of the device.
LEMMA WriteTells ==
  ASSUME ExitInv, pc \in K!Writing, UNCHANGED vars,
         NEW bytes, NEW next \in K!Writing, K!fu_write_bytes(bytes, next)
  PROVE  ExitInv'
<1>1. Accepted' = Accepted /\ Openable' = Openable /\ Outcome' = Outcome /\ phase' = phase
  BY DEF Accepted, Openable, Outcome, vars, K!fu_write_bytes, K!Continue, K!FailWith, K!GoTo
<1>2. pc' \in K!Writing
  BY DEF K!fu_write_bytes, K!Continue, K!FailWith, K!GoTo, K!Writing
<1>3. exit' = exit \/ (exit' = 42 /\ K!Fails("write"))
  BY DEF K!fu_write_bytes, K!FailWith
<1>4. K!Fails("write") => MainFaults # {}
  BY DEF K!Fails
<1> QED
  BY <1>1, <1>2, <1>3, <1>4 DEF ExitInv, K!Writing

\* With the source, the arguments and the files the code to expect stays.
LEMMA SameExpected ==
  ASSUME UNCHANGED <<source, argv, world>>
  PROVE  Expected' = Expected
BY SamePromise DEF Expected

\* The steps of main between the passes and the end.
LEMMA OutputTells ==
  ASSUME ExitInv, AnswerPromised, TypeOK, SegmentsFit, UNCHANGED vars, K!output_binary
  PROVE  ExitInv'
<1>1. UNCHANGED <<argv, world>>
  BY DEF K!output_binary, K!fu_open, K!write_header, K!write_length, K!write_data, K!write_code,
         K!write_terminator, K!fclose, K!fu_write_bytes, K!Continue, K!FailWith, K!GoTo
<1>2. /\ Accepted' = Accepted /\ Openable' = Openable /\ Outcome' = Outcome
      /\ phase' = phase /\ Expected' = Expected /\ Success' = Success
  BY <1>1, SameExpected DEF Accepted, Openable, Outcome, Success, vars
<1>3. CASE K!fu_open
  <2>1. pc = "open" /\ Accepted /\ phase = "done" /\ Outcome.exit = 0 /\ exit = 0
    BY <1>3 DEF K!fu_open, ExitInv
  <2>2. CASE Openable /\ K!Continue("header") /\ exit' = exit
    <3>1. pc' = "header"
      BY <2>2 DEF K!Continue, K!GoTo
    <3> QED
      BY <1>2, <2>1, <2>2, <3>1 DEF ExitInv, K!Writing
  <2>3. CASE (~Openable \/ MainFaults # {}) /\ K!FailWith(42, "finalize")
    <3>1. ToldBy(42)
      BY <2>1, <2>3, ExpectedOfTarget DEF ToldBy
    <3>2. pc' = "finalize" /\ exit' = 42
      BY <2>3 DEF K!FailWith, K!Continue, K!GoTo
    <3> QED
      BY <1>2, <3>1, <3>2 DEF ExitInv, ToldBy, K!Writing
  <2> QED
    BY <1>3, <2>2, <2>3 DEF K!fu_open, K!Fails, Openable
<1>4. CASE K!write_header
  BY <1>4, WriteTells DEF K!write_header, K!Writing
<1>5. CASE K!write_length
  <2>1. pc \in K!Writing /\ phase = "done" /\ Outcome.exit = 0
    BY <1>5 DEF K!write_length, K!Writing, ExitInv
  <2>2. Success
    BY <2>1 DEF Success, Outcome, convert_err
  <2>3. dtsg.size \in Nat /\ dtsg.size <= Int32Max
    BY <2>2, Int32Bounds, AssemblerAssumption DEF SegmentsFit, TypeOK, Segments
  <2>4. Len(Answered.data) = dtsg.size
    <3>1. Answered.data = [i \in 1..dtsg.size |-> DataByte]
      BY <2>2 DEF Answered
    <3> QED
      BY <2>3, <3>1
  <2>5. K!fu_write_bytes(K!LittleEndian(Len(Answered.data)), "data")
    <3>1. Len(Answered.data) \in Nat /\ Len(Answered.data) <= Int32Max
      BY <2>3, <2>4
    <3>2. ~(Len(Answered.data) > Int32Max)
      BY <3>1, Int32Bounds
    <3>3. K!Int32Max = Int32Max
      BY DEF K!Int32Max, Int32Max, K!DwordValues, DwordValues
    <3> QED
      BY <1>5, <3>2, <3>3 DEF K!write_length
  <2> QED
    BY <2>1, <2>5, WriteTells DEF K!Writing
<1>6. CASE K!write_data
  BY <1>6, WriteTells DEF K!write_data, K!Writing
<1>7. CASE K!write_code
  BY <1>7, WriteTells DEF K!write_code, K!Writing
<1>8. CASE K!write_terminator
  <2>1. CASE K!fu_write_bytes(<<0>>, "close")
    BY <1>8, <2>1, WriteTells DEF K!write_terminator, K!Writing
  <2>2. CASE K!Continue("close") /\ exit' = exit
    BY <1>2, <1>8, <2>2 DEF ExitInv, K!write_terminator, K!Continue, K!GoTo, K!Writing
  <2> QED
    BY <1>8, <2>1, <2>2 DEF K!write_terminator
<1>9. CASE K!fclose
  <2>1. Accepted /\ phase = "done" /\ Outcome.exit = 0 /\ Openable
    BY <1>9 DEF ExitInv, K!fclose, K!Writing
  <2>2. exit' = exit /\ (exit = 0 \/ (exit = 42 /\ MainFaults # {}))
    BY <1>9 DEF ExitInv, K!fclose, K!Writing
  <2>3. ToldBy(exit)
    BY <2>1, <2>2, ExpectedOfTarget DEF ToldBy
  <2>4. pc' = "finalize"
    BY <1>9 DEF K!fclose, K!Continue, K!GoTo
  <2>5. Success
    BY <2>1 DEF Success, Outcome, convert_err
  <2> QED
    BY <1>2, <2>2, <2>3, <2>4, <2>5 DEF ExitInv, ToldBy, K!Writing
<1> QED
  BY <1>3, <1>4, <1>5, <1>6, <1>7, <1>8, <1>9 DEF K!output_binary

\* The steps of main before the passes and after the file.
LEMMA MainTells ==
  ASSUME ExitInv, UNCHANGED vars,
         K!args_parse \/ K!asp_create \/ K!finalize \/ K!sanity_check \/ K!Exited
  PROVE  ExitInv'
<1>1. UNCHANGED <<argv, world>>
  BY DEF K!args_parse, K!asp_create, K!finalize, K!sanity_check, K!Exited, K!vars,
         K!Continue, K!FailWith, K!GoTo
<1>2. /\ Accepted' = Accepted /\ Outcome' = Outcome
      /\ phase' = phase /\ Expected' = Expected /\ Success' = Success
  BY <1>1, SameExpected DEF Accepted, Outcome, Success, vars
<1>3. CASE K!args_parse
  <2>1. CASE /\ exit' = K!args_error(K!Check(argv, world))
             /\ pc' = IF Accepted THEN "create" ELSE "finalize"
    <3>1. CASE Accepted
      BY <1>2, <2>1, <3>1 DEF Accepted, ExitInv, K!args_error, K!Writing
    <3>2. CASE ~Accepted
      <4>1. K!Check(argv, world) \in {"usage", "no extension", "source syntax", "no source",
                                      "target syntax", "no target"}
        BY <3>2 DEF Accepted, K!Check
      <4>2. K!args_error(K!Check(argv, world)) \in {1, 2}
        BY <4>1 DEF K!args_error
      <4>3. exit' = Expected /\ exit' # 0
        BY <2>1, <4>2 DEF Expected
      <4> QED
        BY <1>2, <2>1, <3>2, <4>3 DEF ExitInv, ToldBy, K!Writing
    <3> QED
      BY <3>1, <3>2
  <2>2. CASE "memory" \in MainFaults /\ exit' \in {1, 2} /\ pc' = "finalize"
    BY <2>2 DEF ExitInv, ToldBy, K!Writing
  <2> QED
    BY <1>3, <2>1, <2>2 DEF K!args_parse, K!GoTo, K!Fails, Accepted
<1>4. CASE K!asp_create
  <2>1. CASE K!Continue("process") /\ exit' = exit
    BY <1>2, <1>4, <2>1 DEF ExitInv, K!asp_create, K!Continue, K!GoTo, K!Writing
  <2>2. CASE K!Fails("memory") /\ K!FailWith(42, "exited")
    BY <2>2 DEF ExitInv, ToldBy, K!Fails, K!FailWith, K!Continue, K!GoTo, K!Writing
  <2> QED
    BY <1>4, <2>1, <2>2 DEF K!asp_create
<1>5. CASE K!finalize \/ K!sanity_check \/ K!Exited
  <2>1. /\ pc \in {"finalize", "assert", "exited"} /\ pc' \in {"finalize", "assert", "exited"}
        /\ exit' = exit
    BY <1>5 DEF K!finalize, K!sanity_check, K!Exited, K!vars, K!Continue, K!GoTo
  <2> QED
    BY <1>2, <2>1 DEF ExitInv, ToldBy, K!Writing
<1> QED
  BY <1>3, <1>4, <1>5

\* The passes only read the source.
LEMMA SourceStays == Next => source' = source
BY DEF Next, Files, BothPasses, Pass1, Pass2, Returned, vars, OpenSource, CannotOpenSource,
       EndPass1, EndPass2, NoTokens, NoStatement, passes_kma, passes_code_section,
       passes_data_section, passes_none, pass1_data_decl, pass1_instruction, pass1_label_def,
       pass2_data_decl, pass2_instruction, pass2_label_def, Define, Proceed, NextLine, Return

\* The step in which process_assembler returns.
LEMMA PassesTell ==
  ASSUME ExitInv, AnswerPromised', source' = source, process_assembler
  PROVE  ExitInv'
<1>1. Accepted' = Accepted /\ Accepted /\ Expected' = Expected /\ pc = "process"
  BY SameExpected DEF Accepted, process_assembler, ExitInv
<1>2. CASE phase' = "done" /\ exit' = 0
  BY <1>1, <1>2 DEF ExitInv, process_assembler, K!Writing
<1>3. CASE phase' = "done" /\ exit' # 0
  <2>1. exit' = Outcome'.exit /\ pc' = "finalize"
    BY <1>3 DEF process_assembler
  <2>2. Outcome' # Promise!NotYet
    BY <1>3 DEF Outcome, Promise!NotYet, convert_err
  <2>3. exit' = Promise!SourceFault \/ exit' \in ExitsOfFaults
    <3>1. PICK answer : answer = Outcome'
      OBVIOUS
    <3>2. Promise!Promised(answer)
      BY <2>2, <3>1, SamePromise DEF AnswerPromised, Promise!NotYet
    <3> QED
      BY <2>1, <3>1, <3>2 DEF Promise!Promised
  <2>4. K!args_error(K!Check(argv, world)) = 0
    BY <1>1 DEF Accepted, K!args_error
  <2>5. ToldBy(exit')
    BY <1>3, <2>3, <2>4 DEF ToldBy, Expected
  <2> QED
    BY <1>1, <1>3, <2>1, <2>5 DEF ExitInv, ToldBy, ExitsOfFaults, K!Writing
<1>4. CASE phase' # "done"
  BY <1>1, <1>4 DEF ExitInv, process_assembler, K!Writing
<1> QED
  BY <1>2, <1>3, <1>4

\* Every step of the program keeps that order.
LEMMA ExitStands ==
  ASSUME "read" \notin Faults
  PROVE  ProgramSpec => []ExitInv
<1>1. ProgramInit => ExitInv
  BY DEF ProgramInit, ExitInv, K!Writing
<1>2. ASSUME ExitInv, AnswerPromised, AnswerPromised', TypeOK, SegmentsFit,
             [ProgramNext]_programVars
      PROVE  ExitInv'
  <2>1. CASE process_assembler
    <3>1. source' = source
      BY <2>1, SourceStays DEF process_assembler
    <3> QED
      BY <1>2, <2>1, <3>1, PassesTell
  <2>2. CASE Main
    BY <1>2, <2>2, OutputTells, MainTells DEF Main
  <2>3. CASE UNCHANGED programVars
    <3>1. Expected' = Expected
      BY <2>3, SameExpected DEF programVars, vars, mainVars
    <3> QED
      BY <1>2, <2>3, <3>1 DEF programVars, vars, mainVars, ExitInv, ToldBy, Accepted,
                                Openable, Outcome, Success
  <2> QED
    BY <1>2, <2>1, <2>2, <2>3 DEF ProgramNext
<1> QED
  BY <1>1, <1>2, PassesInProgram, AnswersArePromised, TypeCorrect, AcceptedProgramsFit,
     PTL DEF ProgramSpec

\* The exit code of the whole program, whatever its arguments, its source, the
\* files and the failures (but of reads, see PassesKeepPromise), is that of the
\* first thing that is wrong, or the code of a failure.
THEOREM FirstFaultTold ==
  ASSUME "read" \notin Faults
  PROVE  ProgramSpec => []ExitTellsTheFirstFault
<1>1. ExitInv => ExitTellsTheFirstFault
  BY DEF ExitInv, ExitTellsTheFirstFault, ToldBy, K!HasExited
<1> QED
  BY <1>1, ExitStands, PTL

-----------------------------------------------------------------------------
(* The file. tlapm cannot cite theorems of an instance: the lemmas of       *)
(* KmasProofs on the file are repeated here, for main in the program.      *)

\* A write that goes on writes all of its bytes; one that does not ends with 42.
LEMMA WriteGoesOn ==
  ASSUME NEW bytes, NEW next, K!fu_write_bytes(bytes, next)
  PROVE  /\ UNCHANGED <<Answered, disk>>
         /\ \/ stream' = stream \o bytes /\ pc' = next /\ exit' = exit
            \/ pc' = "close" /\ exit' = 42
BY DEF K!fu_write_bytes, K!Continue, K!FailWith, K!GoTo

\* The four bytes of a size.
LEMMA SizeBytes ==
  ASSUME NEW n \in Nat
  PROVE  K!LittleEndian(n) \in Seq(Nat) /\ Len(K!LittleEndian(n)) = 4
<1>1. K!LittleEndian(n) = cdsg_app_imm(n) /\ n \in Int
  BY DEF K!LittleEndian, cdsg_app_imm
<1> QED
  BY <1>1, FourBytes

\* The program and its main agree on what an int32_t can tell.
LEMMA SameBound == K!Int32Max = Int32Max
BY DEF K!Int32Max, Int32Max, K!DwordValues, DwordValues

\* The file of an answer grows by the HALT.
LEMMA LongerFile ==
  ASSUME NEW result, K!HasFile(result)
  PROVE  /\ K!FileOf(result, result.code) \o <<0>> = K!FileOf(result, Append(result.code, 0))
         /\ Append(result.code, 0) \in K!Tails(result)
<1>1. result.data \in Seq(Nat) /\ result.code \in Seq(Nat) /\ Signature \in Seq(Nat)
  BY ProgramAssumption DEF K!HasFile, Answers
<1>2. K!Header(result) \in Seq(Nat)
  <2>1. K!LittleEndian(Len(result.data)) \in Seq(Nat)
    BY <1>1, SizeBytes
  <2> QED
    BY <1>1, <2>1 DEF K!Header
<1>3. K!Header(result) \o result.data \in Seq(Nat)
  BY <1>1, <1>2
<1>4. Append(result.code, 0)[Len(Append(result.code, 0))] = 0
  BY <1>1
<1> QED
  BY <1>1, <1>3, <1>4, LongerEnd DEF K!FileOf, K!Tails

\* Until the file is opened nothing is written.
LEMMA MainKeepsFile ==
  ASSUME K!FInv, K!args_parse \/ K!asp_create \/ K!process_assembler \/ K!finalize \/ K!sanity_check
  PROVE  K!FInv'
<1>1. CASE K!args_parse
  <2>1. pc = "args" /\ stream' = stream /\ stream = << >>
    BY <1>1 DEF K!args_parse, K!FInv, K!Untouched
  <2>2. pc' = "create" \/ (pc' = "finalize" /\ exit' # 0)
    <3>1. K!Check(argv, world) # "accepted" => K!args_error(K!Check(argv, world)) \in {1, 2}
      BY DEF K!Check, K!args_error
    <3>2. CASE /\ exit' = K!args_error(K!Check(argv, world))
               /\ pc' = IF K!Check(argv, world) = "accepted" THEN "create" ELSE "finalize"
      BY <3>1, <3>2
    <3>3. CASE exit' \in {1, 2} /\ pc' = "finalize"
      BY <3>3
    <3> QED
      BY <1>1, <3>2, <3>3 DEF K!args_parse, K!GoTo
  <2> QED
    BY <2>1, <2>2 DEF K!FInv, K!Untouched, K!Writing, K!Finished
<1>2. CASE K!asp_create
  <2>1. pc = "create" /\ stream' = stream /\ stream = << >>
    BY <1>2 DEF K!asp_create, K!FInv, K!Untouched
  <2>2. pc' = "process" \/ (pc' = "exited" /\ exit' = 42)
    BY <1>2 DEF K!asp_create, K!Continue, K!FailWith, K!GoTo
  <2> QED
    BY <2>1, <2>2 DEF K!FInv, K!Untouched, K!Writing, K!Finished
<1>3. CASE K!process_assembler
  <2>1. pc = "process" /\ stream' = stream /\ stream = << >>
    BY <1>3 DEF K!process_assembler, K!FInv, K!Untouched
  <2>2. /\ Answered' \in Answers /\ exit' = Answered'.exit
        /\ pc' = IF exit' = 0 THEN "open" ELSE "finalize"
    BY <1>3 DEF K!process_assembler, K!GoTo
  <2> QED
    BY <2>1, <2>2 DEF K!FInv, K!Untouched, K!Writing, K!Finished
<1>4. CASE K!finalize \/ K!sanity_check
  <2>1. /\ pc \in K!Finished /\ pc' \in K!Finished
        /\ UNCHANGED <<Answered, exit, stream, disk>>
    BY <1>4 DEF K!finalize, K!sanity_check, K!Continue, K!GoTo, K!Finished
  <2> QED
    BY <2>1 DEF K!FInv, K!Untouched, K!Writing, K!Finished, K!HasFile, K!Header, K!FileOf, K!Tails
<1> QED
  BY <1>1, <1>2, <1>3, <1>4

\* A step of output_binary writes the part of the file it is for.
LEMMA OutputKeepsFile ==
  ASSUME K!FInv, K!output_binary
  PROVE  K!FInv'
<1> USE DEF K!Untouched, K!Writing, K!Finished
<1>0. ASSUME pc \in K!Writing, Answered' = Answered, pc' = "close", exit' = 42
      PROVE  K!FInv'
  BY <1>0 DEF K!FInv
<1>1. CASE K!fu_open
  BY <1>1 DEF K!fu_open, K!FInv, K!Continue, K!FailWith, K!GoTo
<1>2. CASE K!write_header
  <2>1. stream = << >> /\ Answered \in Answers /\ Answered.exit = 0 /\ exit = 0
    BY <1>2 DEF K!write_header, K!FInv
  <2>2. << >> \o Signature = Signature
    BY ProgramAssumption
  <2>3. K!fu_write_bytes(Signature, "length")
    BY <1>2 DEF K!write_header
  <2>4. CASE stream' = stream \o Signature /\ pc' = "length" /\ exit' = exit /\ Answered' = Answered
    BY <2>1, <2>2, <2>4 DEF K!FInv
  <2> QED
    BY <1>0, <1>2, <2>3, <2>4, WriteGoesOn DEF K!write_header
<1>3. CASE K!write_length
  <2> DEFINE bytes == K!LittleEndian(Len(Answered.data))
  <2>1. stream = Signature /\ Answered \in Answers /\ Answered.exit = 0 /\ exit = 0
    BY <1>3 DEF K!write_length, K!FInv
  <2>2. CASE Len(Answered.data) <= K!Int32Max /\ K!fu_write_bytes(bytes, "data")
    <3>1. CASE stream' = stream \o bytes /\ pc' = "data" /\ exit' = exit /\ Answered' = Answered
      BY <2>1, <2>2, <3>1 DEF K!FInv, K!HasFile, K!Header
    <3> QED
      BY <1>0, <1>3, <2>2, <3>1, WriteGoesOn DEF K!write_length
  <2>3. CASE K!FailWith(42, "close")
    BY <1>0, <1>3, <2>3 DEF K!write_length, K!FailWith, K!Continue, K!GoTo
  <2> QED
    BY <1>3, <2>2, <2>3 DEF K!write_length
<1>4. CASE K!write_data
  <2>1. stream = K!Header(Answered) /\ K!HasFile(Answered) /\ exit = 0
    BY <1>4 DEF K!write_data, K!FInv
  <2>2. K!fu_write_bytes(Answered.data, "code")
    BY <1>4 DEF K!write_data
  <2>3. CASE /\ stream' = stream \o Answered.data /\ pc' = "code"
             /\ exit' = exit /\ Answered' = Answered
    BY <2>1, <2>3 DEF K!FInv, K!HasFile, K!Header
  <2> QED
    BY <1>0, <1>4, <2>2, <2>3, WriteGoesOn DEF K!write_data
<1>5. CASE K!write_code
  <2>1. stream = K!Header(Answered) \o Answered.data /\ K!HasFile(Answered) /\ exit = 0
    BY <1>5 DEF K!write_code, K!FInv
  <2>2. K!fu_write_bytes(Answered.code, "terminator")
    BY <1>5 DEF K!write_code
  <2>3. CASE /\ stream' = stream \o Answered.code /\ pc' = "terminator"
             /\ exit' = exit /\ Answered' = Answered
    BY <2>1, <2>3 DEF K!FInv, K!HasFile, K!Header, K!FileOf
  <2> QED
    BY <1>0, <1>5, <2>2, <2>3, WriteGoesOn DEF K!write_code
<1>6. CASE K!write_terminator
  <2>1. stream = K!FileOf(Answered, Answered.code) /\ K!HasFile(Answered) /\ exit = 0
    BY <1>6 DEF K!write_terminator, K!FInv
  <2>2. CASE K!fu_write_bytes(<<0>>, "close")
    <3>1. CASE stream' = stream \o <<0>> /\ pc' = "close" /\ exit' = exit /\ Answered' = Answered
      <4>1. /\ stream' = K!FileOf(Answered, Append(Answered.code, 0))
            /\ Append(Answered.code, 0) \in K!Tails(Answered)
        BY <2>1, <3>1, LongerFile
      <4> QED
        BY <2>1, <3>1, <4>1 DEF K!FInv, K!HasFile, K!Header, K!FileOf, K!Tails
    <3> QED
      BY <1>0, <1>6, <2>2, <3>1, WriteGoesOn DEF K!write_terminator
  <2>3. CASE FALSE \in K!LastByteIsNotZero /\ K!Continue("close") /\ UNCHANGED <<exit, stream>>
    <3>1. Answered.code \in K!Tails(Answered)
      BY <2>3 DEF K!LastByteIsNotZero, K!Tails
    <3>2. pc' = "close" /\ Answered' = Answered /\ stream' = stream /\ exit' = exit
      BY <2>3 DEF K!Continue, K!GoTo
    <3> QED
      BY <2>1, <3>1, <3>2 DEF K!FInv, K!HasFile, K!Header, K!FileOf, K!Tails
  <2> QED
    BY <1>6, <2>2, <2>3 DEF K!write_terminator
<1>7. CASE K!fclose
  <2>1. pc' = "finalize" /\ UNCHANGED <<Answered, exit, stream>> /\ pc = "close"
    BY <1>7 DEF K!fclose, K!Continue, K!GoTo
  <2> QED
    BY <2>1 DEF K!FInv, K!HasFile, K!Header, K!FileOf, K!Tails
<1> QED
  BY <1>1, <1>2, <1>3, <1>4, <1>5, <1>6, <1>7 DEF K!output_binary

\* The size in the header is read back as it was written.
LEMMA SizeReadsBack ==
  ASSUME NEW n \in Nat, n <= Int32Max, NEW file, NEW at \in Nat,
         \A k \in 1..4 : file[at + k] = K!LittleEndian(n)[k]
  PROVE  K!Dword(file, at) = n
<1>1. K!LittleEndian(n) = cdsg_app_imm(n)
  BY DEF K!LittleEndian, cdsg_app_imm
<1>2. K!Dword(file, at) = Dword(file, at)
  BY DEF K!Dword, Dword, K!DwordValues, DwordValues
<1>3. n \in Int32Min..Int32Max
  BY Int32Bounds
<1>4. n \in Int
  OBVIOUS
<1> QED
  BY <1>1, <1>2, <1>3, <1>4, DwordReadsBack

\* The loader finds the segments again in the file of an answer.
LEMMA FileIsImage ==
  ASSUME NEW result, K!HasFile(result), NEW tail \in K!Tails(result),
         NEW file, file = K!FileOf(result, tail)
  PROVE  K!LoadedData(file) = result.data /\ K!LoadedCode(file) = tail
<1> DEFINE data == result.data
           length == K!LittleEndian(Len(data))
<1>1. /\ data \in Seq(Nat) /\ result.code \in Seq(Nat) /\ Signature \in Seq(Nat)
      /\ Len(data) <= Int32Max /\ Len(data) \in Nat
  BY ProgramAssumption, SameBound DEF K!HasFile, Answers
<1>2. tail \in Seq(Nat) /\ tail \in {result.code, Append(result.code, 0)}
  <2>1. Append(result.code, 0) \in Seq(Nat)
    BY <1>1
  <2> QED
    BY <1>1, <2>1 DEF K!Tails
<1>3. length \in Seq(Nat) /\ Len(length) = 4 /\ DOMAIN length = 1..4
  <2>1. length \in Seq(Nat) /\ Len(length) = 4
    BY <1>1, SizeBytes
  <2> HIDE DEF length
  <2> QED
    BY <2>1
<1>4. file = ((Signature \o length) \o data) \o tail
  BY DEF K!FileOf, K!Header
<1> HIDE DEF data, length
<1>5. /\ file \in Seq(Nat)
      /\ Len(file) = Len(Signature) + 4 + Len(data) + Len(tail)
      /\ SubSeq(file, 1, Len(Signature)) = Signature
      /\ \A k \in 1..4 : file[Len(Signature) + k] = length[k]
      /\ SubSeq(file, Len(Signature) + 4 + 1, Len(Signature) + 4 + Len(data)) = data
      /\ SubSeq(file, Len(Signature) + 4 + Len(data) + 1, Len(file)) = tail
  <2>1. HasParts(file, Signature, length, data, tail)
    BY <1>1, <1>2, <1>3, <1>4, FileParts, Zenon
  <2> QED
    BY <1>3, <2>1 DEF HasParts
<1>6. Len(Signature) \in Nat /\ Len(tail) \in Nat
  BY <1>1, <1>2
<1>7. K!Dword(file, Len(Signature)) = Len(data)
  BY <1>1, <1>5, <1>6, SizeReadsBack DEF length
<1>8. K!LoadedData(file) = data
  BY <1>5, <1>7 DEF K!LoadedData, K!HeaderLength
<1>9. K!LoadedCode(file) = tail
  BY <1>5, <1>7 DEF K!LoadedCode, K!HeaderLength
<1> QED
  BY <1>8, <1>9 DEF data

\* How far the file has been written at each step of main.
LEMMA FileOfProgram == ProgramSpec => []K!FInv
<1>1. K!Init => K!FInv
  BY DEF K!Init, K!FInv, K!Untouched, K!Writing, K!Finished
<1>2. ASSUME K!FInv, [K!Next]_(K!vars)
      PROVE  K!FInv'
  <2>1. CASE K!Exited \/ UNCHANGED K!vars
    BY <1>2, <2>1 DEF K!Exited, K!vars, K!FInv, K!HasFile, K!Header, K!FileOf, K!Tails
  <2> QED
    BY <1>2, <2>1, MainKeepsFile, OutputKeepsFile DEF K!Next
<1> QED
  BY <1>1, <1>2, ProgramRunsAsMain, PTL DEF RunsAsMain

\* The bytes loaded after a success hold the code of the source.
LEMMA LoadedHoldsCode ==
  ASSUME TypeOK, Success, ProgramLoads, NEW tail \in K!Tails(Answered)
  PROVE  HoldsCode(tail, CodeSizeOfSource)
<1>1. Answered.code = code
  BY DEF Answered
<1>2. tail \in {code, Append(code, 0)} /\ (tail # << >> => tail[Len(tail)] = 0)
  BY <1>1 DEF K!Tails
<1>3. /\ Len(code) = CodeSizeOfSource /\ Len(code) <= CdsgBytes
      /\ \A i \in Promise!Before(Promise!End, {"STMT_INSTRUCTION"}) : Promise!Readable(tail, i)
  BY <1>2 DEF ProgramLoads, CodeSizeOfSource
<1>4. code \in Seq(Nat)
  BY DEF TypeOK
<1>5. /\ Len(tail) \in {Len(code), Len(code) + 1}
      /\ Len(tail) > Len(code) => tail[Len(code) + 1] = 0
      /\ Len(code) > 0 => tail # << >>
  <2>1. CASE tail = code
    BY <1>4, <2>1
  <2>2. CASE tail = Append(code, 0)
    BY <1>4, <2>2
  <2> QED
    BY <1>2, <2>1, <2>2
<1> QED
  BY <1>2, <1>3, <1>5 DEF HoldsCode

\* From the source to the processor, for every source, target and set of
\* failures: after exit code 0 the virtual machine loads from the file the
\* instructions of a source without a fault, each at its address and every jump
\* leading to its label, and the data the source declares.
THEOREM FileOfTheSource ==
  ASSUME "read" \notin Faults
  PROVE  ProgramSpec => []FileHoldsTheSource
<1>1. ASSUME TypeOK, AnswerPromised, ExitInv, K!FInv, ProgramLoads
      PROVE  FileHoldsTheSource
  <2> SUFFICES ASSUME K!HasExited, exit = 0, disk = stream
               PROVE  /\ Promise!SourceFault = 0
                      /\ Len(K!LoadedData(disk)) = Promise!DataAddress(Promise!End)
                      /\ HoldsCode(K!LoadedCode(disk), CodeSizeOfSource)
    BY DEF FileHoldsTheSource
  <2>1. Success
    BY <1>1 DEF ExitInv, K!HasExited
  <2>2. PICK tail \in K!Tails(Answered) : disk = K!FileOf(Answered, tail)
    BY <1>1 DEF K!FInv, K!HasExited, K!Finished
  <2>3. K!HasFile(Answered)
    BY <1>1 DEF K!FInv, K!HasExited, K!Finished
  <2>4. K!LoadedData(disk) = Answered.data /\ K!LoadedCode(disk) = tail
    BY <2>2, <2>3, FileIsImage
  <2>5. Promise!SourceFault = 0 /\ dtsg.size = Promise!DataAddress(Promise!End)
    <3>1. /\ Outcome.exit = 0 /\ Outcome.data = dtsg.size
          /\ Outcome # Promise!NotYet
      BY <2>1 DEF Success, Outcome, Promise!NotYet
    <3>2. 0 \notin ExitsOfFaults
      BY DEF ExitsOfFaults
    <3> QED
      BY <1>1, <3>1, <3>2 DEF AnswerPromised, Promise!Promised, Promise!IsProgram
  <2>6. Len(Answered.data) = dtsg.size
    <3>1. Answered.data = [i \in 1..dtsg.size |-> DataByte]
      BY <2>1 DEF Answered
    <3>2. dtsg.size \in Nat
      BY <1>1, SegmentAssumption DEF TypeOK, Segments
    <3> QED
      BY <3>1, <3>2
  <2>7. HoldsCode(tail, CodeSizeOfSource)
    BY <1>1, <2>1, <2>2, LoadedHoldsCode
  <2> QED
    BY <2>4, <2>5, <2>6, <2>7
<1> QED
  BY <1>1, PassesInProgram, AnswersArePromised, TypeCorrect, ExitStands, FileOfProgram,
     ProgramsLoad, PTL
=============================================================================
