-------------------------------- MODULE Kmas --------------------------------
(***************************************************************************)
(* One run of the program kmas: main and output_binary. The arguments are  *)
(* checked, the assembler struct is created, process_assembler answers     *)
(* (its work is the subject of module Assembler; here its answer is an     *)
(* input), the KMX file is written through a stdio stream, and everything  *)
(* allocated is freed.                                                     *)
(***************************************************************************)
EXTENDS KMProcessor, Arguments, FiniteSets

CONSTANTS CommandLines, \* what argv may be
          Answers,      \* what process_assembler may answer: see Answer
          Signature,    \* KMX_SIGNATURE
          OldTarget,    \* the bytes of the target before the run
          Faults        \* what may fail: see Fault

\* The exit code of process_assembler and the bytes of the two segments; halts
\* says whether the last instruction of the code is HALT.
Answer == [exit : Nat, data : Seq(Nat), code : Seq(Nat), halts : BOOLEAN]

NotYet == [exit |-> 0, data |-> << >>, code |-> << >>, halts |-> FALSE]

\* memory: an allocation fails
\* open:   the target cannot be opened although the checks said it can
\* write:  the device takes only a part of the bytes
Fault == {"memory", "open", "write"}

ASSUME KmasAssumption ==
  /\ CommandLines \subseteq Seq(Seq(STRING))
  /\ \A arguments \in CommandLines : \A i \in DOMAIN arguments : arguments[i] # NoPath
  /\ Answers \subseteq Answer /\ Faults \subseteq Fault
  /\ Signature \in Seq(Nat)

VARIABLES
  argv,     \* the arguments of this run
  world,    \* what the file system says of its two paths
  config,   \* config->source and config->target
  answer,   \* what process_assembler has answered
  pc,       \* the next thing main or output_binary does
  err,      \* the variable err of main
  live,     \* what is allocated: the strings of config, asp and its parts
  stream,   \* the bytes given to fwrite since the target was opened
  disk      \* the bytes of the target file

vars == <<argv, world, config, answer, pc, err, live, stream, disk>>

Config == {"source", "target"}
Asp    == {"asp", "symtab", "dtsg", "cdsg"}

NoConfig == [source |-> NoPath, target |-> NoPath]

Init ==
  /\ argv \in CommandLines /\ world \in Worlds
  /\ config = NoConfig /\ answer = NotYet
  /\ pc = "args" /\ err = 0 /\ live = {}
  /\ stream = << >> /\ disk = OldTarget

Fails(fault) == fault \in Faults

GoTo(label) == pc' = label /\ UNCHANGED <<argv, world>>

\* A step that leaves the paths and the answer alone.
Continue(label) == GoTo(label) /\ UNCHANGED <<config, answer>>

\* err = e; goto finalize (or cleanup and then finalize)
FailWith(e, label) == Continue(label) /\ err' = e

-----------------------------------------------------------------------------
(* main                                                                    *)

\* The config with both paths copied, and freed again.
Configured ==
  /\ config' = [source |-> find_src(argv), target |-> target_path(argv)]
  /\ live' = Config

Cleared == config' = NoConfig /\ live' = {}

\* args_config_init fails before any check of a path; args_path_check_semantic
\* duplicates the path of a target that does not exist.
args_parse ==
  LET check == Check(argv, world) IN
  /\ pc = "args"
  /\ UNCHANGED <<answer, stream, disk>>
  /\ \/ /\ IF check \in {"no source", "no target", "accepted"} THEN Configured ELSE Cleared
        /\ err' = args_error(check)
        /\ GoTo(IF check = "accepted" THEN "create" ELSE "finalize")
     \/ /\ Fails("memory") /\ check # "usage"
        /\ Cleared
        /\ err' = 1 /\ GoTo("finalize")
     \/ /\ Fails("memory") /\ check \in {"no target", "accepted"} /\ world.target = "none"
        /\ Configured
        /\ err' = 2 /\ GoTo("finalize")

\* asp_create frees what it had allocated when a part fails; main returns at
\* once, not through finalize.
asp_create ==
  /\ pc = "create"
  /\ UNCHANGED <<stream, disk>>
  /\ \/ live' = live \cup Asp /\ Continue("process") /\ UNCHANGED err
     \/ Fails("memory") /\ FailWith(42, "exited") /\ UNCHANGED live

\* Seeded fault: the target is opened before the source is assembled.
process_assemblerTargetOpen ==
  /\ pc = "process"
  /\ answer' \in Answers
  /\ err' = answer'.exit /\ disk' = << >>
  /\ GoTo(IF err' = 0 THEN "open" ELSE "finalize")
  /\ UNCHANGED <<config, live, stream>>

process_assembler ==
  /\ pc = "process"
  /\ answer' \in Answers
  /\ err' = answer'.exit
  /\ GoTo(IF err' = 0 THEN "open" ELSE "finalize")
  /\ UNCHANGED <<config, live, stream, disk>>

\* Seeded fault: the assembler struct is only freed after a success.
finalizeOnSuccess ==
  /\ pc = "finalize"
  /\ live' = (live \ Config) \ (IF err = 0 THEN Asp ELSE {})
  /\ config' = NoConfig
  /\ GoTo("assert")
  /\ UNCHANGED <<answer, err, stream, disk>>

\* args_config_deinit and asp_free free what is there.
finalize ==
  /\ pc = "finalize"
  /\ live' = (live \ Config) \ Asp
  /\ config' = NoConfig
  /\ GoTo("assert")
  /\ UNCHANGED <<answer, err, stream, disk>>

\* assert(jemory() == 0), and main returns err.
sanity_check ==
  /\ pc = "assert" /\ live = {}
  /\ Continue("exited")
  /\ UNCHANGED <<err, live, stream, disk>>

-----------------------------------------------------------------------------
(* output_binary. A failure of any step gives 42 and closes the file.      *)

\* fu_open asks whether the directory of the target can be written, which
\* args_parse does not for a target that exists; opening truncates the target.
fu_open ==
  LET openable == world.parent /\ world.target # "dir" IN
  /\ pc = "open"
  /\ UNCHANGED <<live, stream>>
  /\ \/ openable /\ disk' = << >> /\ Continue("header") /\ UNCHANGED err
     \/ /\ ~openable \/ Fails("open") \/ Fails("memory")
        /\ FailWith(42, "finalize") /\ UNCHANGED disk

\* fwrite to a stdio stream: the stream keeps the bytes and passes them on when
\* it likes. Only a device that refuses bytes makes fwrite fall short, and then
\* the device has taken some of all those given so far.
fu_write_bytes(bytes, next) ==
  /\ UNCHANGED live
  /\ \/ stream' = stream \o bytes /\ Continue(next) /\ UNCHANGED <<err, disk>>
     \/ /\ Fails("write") /\ bytes # << >>
        /\ \E n \in 0..(Len(stream) + Len(bytes) - 1) :
             stream' = SubSeq(stream \o bytes, 1, n)
        /\ FailWith(42, "close") /\ UNCHANGED disk

write_header == pc = "header" /\ fu_write_bytes(Signature, "length")

\* Seeded fault: the most significant byte first.
LittleEndianReversed(n) == BigEndian(n)

\* _write_in_little_endian: the four bytes of (n >> 8 * i) & 0xFF.
LittleEndian(n) ==
  <<n % ByteBase, (n \div ByteBase) % ByteBase, (n \div (ByteBase * ByteBase)) % ByteBase,
    (n \div (ByteBase * ByteBase * ByteBase)) % ByteBase>>

write_length ==
  LET size == Len(answer.data) IN
  /\ pc = "length"
  /\ \/ size <= Int32Max /\ fu_write_bytes(LittleEndian(size), "data")
     \/ size > Int32Max /\ FailWith(42, "close") /\ UNCHANGED <<live, stream, disk>>

write_data == pc = "data" /\ fu_write_bytes(answer.data, "code")

write_code == pc = "code" /\ fu_write_bytes(answer.code, "terminator")

\* What *(bytes + size - 1) != 0 may be: without code it reads the byte before
\* the buffer.
LastByteIsNotZero ==
  IF answer.code = << >> THEN BOOLEAN
  ELSE {answer.code[Len(answer.code)] # 0}

write_terminator ==
  /\ pc = "terminator"
  /\ \/ TRUE \in LastByteIsNotZero /\ fu_write_bytes(<<0>>, "close")
     \/ FALSE \in LastByteIsNotZero /\ Continue("close") /\ UNCHANGED <<err, live, stream, disk>>

\* fclose passes on what the stream still keeps. Its result is not looked at.
fclose ==
  /\ pc = "close"
  /\ \/ disk' = stream
     \/ Fails("write") /\ \E n \in 0..Len(stream) : disk' = SubSeq(stream, 1, n)
  /\ Continue("finalize")
  /\ UNCHANGED <<err, live, stream>>

\* Where output_binary is while the target is open.
Writing == {"header", "length", "data", "code", "terminator", "close"}

output_binary == fu_open \/ write_header \/ write_length \/ write_data
                   \/ write_code \/ write_terminator \/ fclose

-----------------------------------------------------------------------------

Exited == pc = "exited" /\ UNCHANGED vars

Next == args_parse \/ asp_create \/ process_assembler \/ output_binary
          \/ finalize \/ sanity_check \/ Exited

Spec == Init /\ [][Next]_vars

-----------------------------------------------------------------------------
(* The loader of the virtual machine (external), reading a KMX file.       *)

HeaderLength == Len(Signature) + 4

\* The bytes of the data segment and all bytes after it.
LoadedData(file) ==
  SubSeq(file, HeaderLength + 1, HeaderLength + Dword(file, Len(Signature)))

LoadedCode(file) ==
  SubSeq(file, HeaderLength + Dword(file, Len(Signature)) + 1, Len(file))

\* The file has a header, and its code is the answer's, maybe with a HALT after it.
IsImageOf(file, result) ==
  /\ Len(file) >= HeaderLength /\ SubSeq(file, 1, Len(Signature)) = Signature
  /\ LoadedData(file) = result.data
  /\ LoadedCode(file) \in {result.code, Append(result.code, 0)}

-----------------------------------------------------------------------------
(* Properties.                                                             *)

HasExited == pc = "exited"

\* An exit code of 0 leaves a file from which the virtual machine loads the
\* segments process_assembler made: the length in the header splits the file
\* where it should be. The exception is a device that loses bytes only when the
\* file is closed.
LoadsWhatWasAssembled ==
  HasExited /\ err = 0 /\ disk = stream => answer.exit = 0 /\ IsImageOf(disk, answer)

\* A source or a command line that is refused, with any of the exit codes for
\* it, costs the user nothing: the target of an earlier run is still there. Only
\* a failure reported as 42 may leave a target that is half written.
RefusalKeepsTarget ==
  HasExited /\ err \notin {0, 42} => disk = OldTarget

\* The target the user means: the one given, or the source with its extension,
\* the last one, exchanged.
IntendedTarget ==
  IF Targets(argv) # {} THEN find_tgt(argv)
  ELSE [argv[1] EXCEPT ![Len(argv[1])] = ".kmx"]

\* The file that is truncated and written is the target the user means and never
\* the source, although args_parse changes the first ".kas" it finds in a path
\* before it has looked at either path.
WritesTheTarget ==
  pc \in Writing =>
    /\ config.source = argv[1] /\ config.target = IntendedTarget
    /\ config.target # config.source

\* Whichever function failed, and wherever it gave up: when main gets to its
\* sanity check, every allocation has been freed, so a failure of the source or
\* of the target never ends in an abort that hides its exit code.
AssertionHolds == pc = "assert" => live = {}
-----------------------------------------------------------------------------
(* The inductive invariant behind LoadsWhatWasAssembled.                   *)

\* Where main is before the target is opened, and after it is closed.
Untouched == {"args", "create", "process", "open"}
Finished  == {"finalize", "assert", "exited"}

\* What may follow the data in the file: the code, and a HALT after it unless
\* its last byte is 0.
Tails(result) ==
  {tail \in {result.code, Append(result.code, 0)} : tail # << >> => tail[Len(tail)] = 0}

Header(result) == Signature \o LittleEndian(Len(result.data))

\* The file of an answer, and an answer that has one.
FileOf(result, tail) == (Header(result) \o result.data) \o tail

HasFile(result) ==
  /\ result \in Answers /\ result.exit = 0
  /\ Len(result.data) <= Int32Max

\* How far the file has been written when main gets to each step.
FInv ==
  /\ pc \in Untouched \cup {"header"} => stream = << >>
  /\ pc \in {"open"} \cup Writing => answer \in Answers /\ answer.exit = 0
  /\ pc \in {"open"} \cup (Writing \ {"close"}) => err = 0
  /\ pc = "length" => stream = Signature
  /\ pc \in {"data", "code", "terminator"} => HasFile(answer)
  /\ pc = "data" => stream = Header(answer)
  /\ pc = "code" => stream = Header(answer) \o answer.data
  /\ pc = "terminator" => stream = FileOf(answer, answer.code)
  /\ pc = "close" \/ (pc \in Finished /\ disk = stream) =>
       (err = 0 => /\ HasFile(answer)
                   /\ \E tail \in Tails(answer) : stream = FileOf(answer, tail))
=============================================================================
