----------------------------- MODULE KmasProofs -----------------------------
(***************************************************************************)
(* Theorems about a run of the program, for every command line, answer,    *)
(* signature and target, and any set of failures.                          *)
(***************************************************************************)
EXTENDS Kmas, CommonLemmas, TLAPS

\* From the checks of the arguments on, as long as the config is allocated, it
\* holds the paths found in them, and the paths have passed the checks.
PathsChecked ==
  pc \in {"create", "process", "open"} \cup Writing =>
    /\ argv # << >>
    /\ config = [source |-> find_src(argv), target |-> target_path(argv)]
    /\ target_path(argv) # NoPath
    /\ path_check_syntax(find_src(argv), ".kas")
    /\ path_check_syntax(target_path(argv), ".kmx")

\* The target is opened only after process_assembler has answered 0, and every
\* failure after that is 42; what is allocated is what finalize knows of.
KInv ==
  /\ pc \in Untouched \cup Writing \cup Finished
  /\ argv \in CommandLines
  /\ PathsChecked
  /\ pc \in Untouched => disk = OldTarget
  /\ pc \in {"open"} \cup Writing => err \in {0, 42}
  /\ pc \in Finished /\ err \notin {0, 42} => disk = OldTarget
  /\ live \subseteq Config \cup Asp
  /\ pc = "assert" => live = {}

\* An accepted command line has passed both checks on the syntax of its paths.
LEMMA AcceptedPaths ==
  ASSUME Check(argv, world) = "accepted"
  PROVE  /\ argv # << >> /\ target_path(argv) # NoPath
         /\ path_check_syntax(find_src(argv), ".kas")
         /\ path_check_syntax(target_path(argv), ".kmx")
BY DEF Check

\* When the path of a source that ends with .kas ends with .kmx after one .kas in
\* it has been changed, it is the last one that was.
LEMMA ChangedAtItsEnd ==
  ASSUME NEW path \in Seq(STRING), path_check_syntax(path, ".kas"),
         change_extension(path) # NoPath, path_check_syntax(change_extension(path), ".kmx")
  PROVE  change_extension(path) = [path EXCEPT ![Len(path)] = ".kmx"]
<1> DEFINE i == CHOOSE i \in Extensions(path) : \A j \in Extensions(path) : i <= j
<1>1. change_extension(path) = [path EXCEPT ![i] = ".kmx"]
  BY DEF change_extension
<1>2. Len(path) \in DOMAIN path /\ path[Len(path)] = ".kas"
  BY DEF path_check_syntax
<1>3. Len(change_extension(path)) = Len(path)
  BY <1>1
<1>4. [path EXCEPT ![i] = ".kmx"][Len(path)] = ".kmx"
  BY <1>1, <1>3 DEF path_check_syntax
<1>5. i = Len(path)
  BY <1>2, <1>4
<1> QED
  BY <1>1, <1>5

\* A write keeps the invariant: it goes on with the next step, or closes with 42.
LEMMA WriteKeeps ==
  ASSUME KInv, pc \in Writing, NEW bytes, NEW next \in Writing, fu_write_bytes(bytes, next)
  PROVE  KInv'
BY DEF KInv, PathsChecked, fu_write_bytes, GoTo, Continue, FailWith, Untouched, Writing, Finished

\* A step of main keeps the invariant.
LEMMA MainKeeps ==
  ASSUME KInv, args_parse \/ asp_create \/ process_assembler \/ finalize \/ sanity_check
  PROVE  KInv'
<1> USE DEF KInv, PathsChecked, GoTo, Continue, FailWith, Untouched, Writing, Finished
<1>1. CASE args_parse
  <2> DEFINE check == Check(argv, world)
  <2>1. CASE check = "accepted" /\ Configured /\ GoTo("create")
    BY <1>1, <2>1, AcceptedPaths DEF args_parse, Configured
  <2>2. CASE (Configured \/ Cleared) /\ GoTo("finalize")
    BY <1>1, <2>2 DEF args_parse, Configured, Cleared
  <2> QED
    BY <1>1, <2>1, <2>2 DEF args_parse
<1>2. CASE asp_create
  BY <1>2 DEF asp_create
<1>3. CASE process_assembler
  BY <1>3 DEF process_assembler
<1>4. CASE finalize
  BY <1>4 DEF finalize
<1>5. CASE sanity_check
  BY <1>5 DEF sanity_check
<1> QED
  BY <1>1, <1>2, <1>3, <1>4, <1>5

\* A step of output_binary keeps the invariant.
LEMMA OutputKeeps ==
  ASSUME KInv, output_binary
  PROVE  KInv'
<1>1. CASE fu_open
  BY <1>1 DEF KInv, PathsChecked, fu_open, GoTo, Continue, FailWith, Untouched, Writing, Finished
<1>2. CASE write_header
  BY <1>2, WriteKeeps DEF write_header, Writing
<1>3. CASE write_length
  <2>1. CASE fu_write_bytes(LittleEndian(Len(answer.data)), "data")
    BY <1>3, <2>1, WriteKeeps DEF write_length, Writing
  <2>2. CASE FailWith(42, "close") /\ UNCHANGED <<live, stream, disk>>
    BY <1>3, <2>2 DEF KInv, PathsChecked, write_length, GoTo, Continue, FailWith,
                      Untouched, Writing, Finished
  <2> QED
    BY <1>3, <2>1, <2>2 DEF write_length
<1>4. CASE write_data
  BY <1>4, WriteKeeps DEF write_data, Writing
<1>5. CASE write_code
  BY <1>5, WriteKeeps DEF write_code, Writing
<1>6. CASE write_terminator
  <2>1. CASE fu_write_bytes(<<0>>, "close")
    BY <1>6, <2>1, WriteKeeps DEF write_terminator, Writing
  <2>2. CASE Continue("close") /\ UNCHANGED <<err, live, stream, disk>>
    BY <1>6, <2>2 DEF KInv, PathsChecked, write_terminator, GoTo, Continue,
                      Untouched, Writing, Finished
  <2> QED
    BY <1>6, <2>1, <2>2 DEF write_terminator
<1>7. CASE fclose
  BY <1>7 DEF KInv, PathsChecked, fclose, GoTo, Continue, Untouched, Writing, Finished
<1> QED
  BY <1>1, <1>2, <1>3, <1>4, <1>5, <1>6, <1>7 DEF output_binary

\* Every run keeps to the order behind the theorems below.
THEOREM OrderOfARun == Spec => []KInv
<1>1. Init => KInv
  BY DEF Init, KInv, PathsChecked, Untouched, Writing, Finished
<1>2. ASSUME KInv, [Next]_vars
      PROVE  KInv'
  <2>1. CASE Exited \/ UNCHANGED vars
    BY <1>2, <2>1 DEF Exited, vars, KInv, PathsChecked
  <2> QED
    BY <1>2, <2>1, MainKeeps, OutputKeeps DEF Next
<1> QED
  BY <1>1, <1>2, PTL DEF Spec

\* A command line or a source that is refused never costs the user the target of
\* an earlier run, whatever else fails and whatever the target was.
THEOREM RefusalsKeepTargets == Spec => []RefusalKeepsTarget
<1>1. KInv => RefusalKeepsTarget
  BY DEF KInv, PathsChecked, RefusalKeepsTarget, HasExited, Finished
<1> QED
  BY <1>1, OrderOfARun, PTL

\* main never gets to its assertion with something allocated, whichever function
\* of main or output_binary has failed before.
THEOREM NoRunAborts == Spec => []AssertionHolds
<1>1. KInv => AssertionHolds
  BY DEF KInv, PathsChecked, AssertionHolds
<1> QED
  BY <1>1, OrderOfARun, PTL

\* No run of the program, with whatever arguments, truncates or writes its source,
\* or a file other than the target the arguments name.
THEOREM WritesOnlyTheTarget == Spec => []WritesTheTarget
<1>1. ASSUME KInv, pc \in Writing
      PROVE  /\ config.source = argv[1] /\ config.target = IntendedTarget
             /\ config.target # config.source
  <2>1. /\ argv \in Seq(Seq(STRING)) /\ argv # << >> /\ argv[1] \in Seq(STRING)
        /\ \A i \in DOMAIN argv : argv[i] # NoPath
    BY <1>1, KmasAssumption DEF KInv, PathsChecked
  <2>2. /\ config.source = argv[1] /\ config.target = target_path(argv)
        /\ find_src(argv) = argv[1] /\ target_path(argv) # NoPath
        /\ path_check_syntax(argv[1], ".kas")
        /\ path_check_syntax(target_path(argv), ".kmx")
    BY <1>1 DEF KInv, PathsChecked, find_src
  <2>3. config.target # config.source
    BY <2>2 DEF path_check_syntax
  <2>4. CASE Targets(argv) = {}
    <3>1. target_path(argv) = change_extension(argv[1])
      BY <2>2, <2>4 DEF target_path, find_tgt
    <3> QED
      BY <2>1, <2>2, <2>3, <2>4, <3>1, ChangedAtItsEnd DEF IntendedTarget
  <2>5. CASE Targets(argv) # {}
    <3>1. find_tgt(argv) # NoPath
      <4> DEFINE i == CHOOSE i \in Targets(argv) : \A j \in Targets(argv) : i <= j
      <4>1. Targets(argv) \subseteq Nat
        BY <2>1 DEF Targets
      <4>2. i \in Targets(argv)
        BY <2>5, <4>1, LeastNatural
      <4>3. i \in DOMAIN argv
        BY <2>1, <4>2 DEF Targets
      <4> QED
        BY <2>1, <2>5, <4>3 DEF find_tgt
    <3> QED
      BY <2>2, <2>3, <2>5, <3>1 DEF target_path, IntendedTarget
  <2> QED
    BY <2>2, <2>3, <2>4, <2>5
<1>2. KInv => WritesTheTarget
  BY <1>1 DEF WritesTheTarget
<1> QED
  BY <1>2, OrderOfARun, PTL

-----------------------------------------------------------------------------
(* The file.                                                               *)

\* A write that goes on writes all of its bytes; one that does not ends with 42.
LEMMA WriteGoesOn ==
  ASSUME NEW bytes, NEW next, fu_write_bytes(bytes, next)
  PROVE  /\ UNCHANGED <<answer, disk>>
         /\ \/ stream' = stream \o bytes /\ pc' = next /\ err' = err
            \/ pc' = "close" /\ err' = 42
BY DEF fu_write_bytes, Continue, FailWith, GoTo

\* The four bytes of a size.
LEMMA SizeBytes ==
  ASSUME NEW n \in Nat
  PROVE  LittleEndian(n) \in Seq(Nat) /\ Len(LittleEndian(n)) = 4
<1>1. ByteBase \in Nat \ {0}
  BY ByteBaseAssumption
<1>2. ByteBase * ByteBase \in Nat \ {0}
  BY <1>1
<1>3. ByteBase * ByteBase * ByteBase \in Nat \ {0}
  BY <1>1, <1>2
<1>4. \A d \in Nat \ {0} : (n \div d) % ByteBase \in Nat
  BY <1>1
<1>5. n % ByteBase \in Nat
  BY <1>1
<1> QED
  BY <1>1, <1>2, <1>3, <1>4, <1>5 DEF LittleEndian

\* The file of an answer grows by the HALT.
LEMMA LongerFile ==
  ASSUME NEW result, HasFile(result)
  PROVE  /\ FileOf(result, result.code) \o <<0>> = FileOf(result, Append(result.code, 0))
         /\ Append(result.code, 0) \in Tails(result)
<1>1. result.data \in Seq(Nat) /\ result.code \in Seq(Nat) /\ Signature \in Seq(Nat)
  BY KmasAssumption DEF HasFile, Answer
<1>2. Header(result) \in Seq(Nat)
  <2>1. LittleEndian(Len(result.data)) \in Seq(Nat)
    BY <1>1, SizeBytes
  <2> QED
    BY <1>1, <2>1 DEF Header
<1>3. Header(result) \o result.data \in Seq(Nat)
  BY <1>1, <1>2
<1>4. Append(result.code, 0)[Len(Append(result.code, 0))] = 0
  BY <1>1
<1> QED
  BY <1>1, <1>3, <1>4, LongerEnd DEF FileOf, Tails

\* Until the file is opened nothing is written.
LEMMA MainKeepsFile ==
  ASSUME FInv, args_parse \/ asp_create \/ process_assembler \/ finalize \/ sanity_check
  PROVE  FInv'
<1>1. CASE args_parse
  <2>1. pc = "args" /\ stream' = stream /\ stream = << >>
    BY <1>1 DEF args_parse, FInv, Untouched
  <2>2. pc' = "create" \/ (pc' = "finalize" /\ err' # 0)
    <3>1. Check(argv, world) # "accepted" => args_error(Check(argv, world)) \in {1, 2}
      BY DEF Check, args_error
    <3>2. CASE /\ err' = args_error(Check(argv, world))
               /\ pc' = IF Check(argv, world) = "accepted" THEN "create" ELSE "finalize"
      BY <3>1, <3>2
    <3>3. CASE err' \in {1, 2} /\ pc' = "finalize"
      BY <3>3
    <3> QED
      BY <1>1, <3>2, <3>3 DEF args_parse, GoTo
  <2> QED
    BY <2>1, <2>2 DEF FInv, Untouched, Writing, Finished
<1>2. CASE asp_create
  <2>1. pc = "create" /\ stream' = stream /\ stream = << >>
    BY <1>2 DEF asp_create, FInv, Untouched
  <2>2. pc' = "process" \/ (pc' = "exited" /\ err' = 42)
    BY <1>2 DEF asp_create, Continue, FailWith, GoTo
  <2> QED
    BY <2>1, <2>2 DEF FInv, Untouched, Writing, Finished
<1>3. CASE process_assembler
  <2>1. pc = "process" /\ stream' = stream /\ stream = << >>
    BY <1>3 DEF process_assembler, FInv, Untouched
  <2>2. /\ answer' \in Answers /\ err' = answer'.exit
        /\ pc' = IF err' = 0 THEN "open" ELSE "finalize"
    BY <1>3 DEF process_assembler, GoTo
  <2> QED
    BY <2>1, <2>2 DEF FInv, Untouched, Writing, Finished
<1>4. CASE finalize \/ sanity_check
  <2>1. /\ pc \in Finished /\ pc' \in Finished
        /\ UNCHANGED <<answer, err, stream, disk>>
    BY <1>4 DEF finalize, sanity_check, Continue, GoTo, Finished
  <2> QED
    BY <2>1 DEF FInv, Untouched, Writing, Finished, HasFile, Header, FileOf, Tails
<1> QED
  BY <1>1, <1>2, <1>3, <1>4

\* A step of output_binary writes the part of the file it is for.
LEMMA OutputKeepsFile ==
  ASSUME FInv, output_binary
  PROVE  FInv'
<1> USE DEF Untouched, Writing, Finished
<1>0. ASSUME pc \in Writing, answer' = answer, pc' = "close", err' = 42
      PROVE  FInv'
  BY <1>0 DEF FInv
<1>1. CASE fu_open
  BY <1>1 DEF fu_open, FInv, Continue, FailWith, GoTo
<1>2. CASE write_header
  <2>1. stream = << >> /\ answer \in Answers /\ answer.exit = 0 /\ err = 0
    BY <1>2 DEF write_header, FInv
  <2>2. << >> \o Signature = Signature
    BY KmasAssumption
  <2>3. fu_write_bytes(Signature, "length")
    BY <1>2 DEF write_header
  <2>4. CASE stream' = stream \o Signature /\ pc' = "length" /\ err' = err /\ answer' = answer
    BY <2>1, <2>2, <2>4 DEF FInv
  <2> QED
    BY <1>0, <1>2, <2>3, <2>4, WriteGoesOn DEF write_header
<1>3. CASE write_length
  <2> DEFINE bytes == LittleEndian(Len(answer.data))
  <2>1. stream = Signature /\ answer \in Answers /\ answer.exit = 0 /\ err = 0
    BY <1>3 DEF write_length, FInv
  <2>2. CASE Len(answer.data) <= Int32Max /\ fu_write_bytes(bytes, "data")
    <3>1. CASE stream' = stream \o bytes /\ pc' = "data" /\ err' = err /\ answer' = answer
      BY <2>1, <2>2, <3>1 DEF FInv, HasFile, Header
    <3> QED
      BY <1>0, <1>3, <2>2, <3>1, WriteGoesOn DEF write_length
  <2>3. CASE FailWith(42, "close")
    BY <1>0, <1>3, <2>3 DEF write_length, FailWith, Continue, GoTo
  <2> QED
    BY <1>3, <2>2, <2>3 DEF write_length
<1>4. CASE write_data
  <2>1. stream = Header(answer) /\ HasFile(answer) /\ err = 0
    BY <1>4 DEF write_data, FInv
  <2>2. fu_write_bytes(answer.data, "code")
    BY <1>4 DEF write_data
  <2>3. CASE stream' = stream \o answer.data /\ pc' = "code" /\ err' = err /\ answer' = answer
    BY <2>1, <2>3 DEF FInv, HasFile, Header
  <2> QED
    BY <1>0, <1>4, <2>2, <2>3, WriteGoesOn DEF write_data
<1>5. CASE write_code
  <2>1. stream = Header(answer) \o answer.data /\ HasFile(answer) /\ err = 0
    BY <1>5 DEF write_code, FInv
  <2>2. fu_write_bytes(answer.code, "terminator")
    BY <1>5 DEF write_code
  <2>3. CASE stream' = stream \o answer.code /\ pc' = "terminator" /\ err' = err /\ answer' = answer
    BY <2>1, <2>3 DEF FInv, HasFile, Header, FileOf
  <2> QED
    BY <1>0, <1>5, <2>2, <2>3, WriteGoesOn DEF write_code
<1>6. CASE write_terminator
  <2>1. stream = FileOf(answer, answer.code) /\ HasFile(answer) /\ err = 0
    BY <1>6 DEF write_terminator, FInv
  <2>2. CASE fu_write_bytes(<<0>>, "close")
    <3>1. CASE stream' = stream \o <<0>> /\ pc' = "close" /\ err' = err /\ answer' = answer
      <4>1. /\ stream' = FileOf(answer, Append(answer.code, 0))
            /\ Append(answer.code, 0) \in Tails(answer)
        BY <2>1, <3>1, LongerFile
      <4> QED
        BY <2>1, <3>1, <4>1 DEF FInv, HasFile, Header, FileOf, Tails
    <3> QED
      BY <1>0, <1>6, <2>2, <3>1, WriteGoesOn DEF write_terminator
  <2>3. CASE FALSE \in LastByteIsNotZero /\ Continue("close") /\ UNCHANGED <<err, stream>>
    <3>1. answer.code \in Tails(answer)
      BY <2>3 DEF LastByteIsNotZero, Tails
    <3>2. pc' = "close" /\ answer' = answer /\ stream' = stream /\ err' = err
      BY <2>3 DEF Continue, GoTo
    <3> QED
      BY <2>1, <3>1, <3>2 DEF FInv, HasFile, Header, FileOf, Tails
  <2> QED
    BY <1>6, <2>2, <2>3 DEF write_terminator
<1>7. CASE fclose
  <2>1. pc' = "finalize" /\ UNCHANGED <<answer, err, stream>> /\ pc = "close"
    BY <1>7 DEF fclose, Continue, GoTo
  <2> QED
    BY <2>1 DEF FInv, HasFile, Header, FileOf, Tails
<1> QED
  BY <1>1, <1>2, <1>3, <1>4, <1>5, <1>6, <1>7 DEF output_binary

\* The size in the header is read back as it was written.
LEMMA SizeReadsBack ==
  ASSUME NEW n \in Nat, n <= Int32Max, NEW file, NEW at \in Nat,
         \A k \in 1..4 : file[at + k] = LittleEndian(n)[k]
  PROVE  Dword(file, at) = n
<1> DEFINE b == ByteBase
           d == Dword(file, at)
<1>1. b \in Nat \ {0} /\ b % 2 = 0
  BY ByteBaseAssumption
<1>2. PICK r0, r1, r2, r3 \in 0..(b - 1) :
           /\ r0 = n % b /\ r1 = (n \div b) % b
           /\ r2 = (n \div (b * b)) % b /\ r3 = (n \div (b * b * b)) % b
           /\ Signed(b, r0, r1, r2, r3) \in Int
           /\ (Signed(b, r0, r1, r2, r3) - n) % Fourth(b) = 0
           /\ n \in (-(Fourth(b) \div 2))..(Fourth(b) \div 2 - 1) =>
                Signed(b, r0, r1, r2, r3) = n
  <2>1. n \in Int
    OBVIOUS
  <2> HIDE DEF b
  <2> QED
    BY <1>1, <2>1, SignedDigits
<1>3. /\ file[at + 1] = r0 /\ file[at + 2] = r1
      /\ file[at + 3] = r2 /\ file[at + 4] = r3
  BY <1>2 DEF LittleEndian
<1>4. d = Signed(b, r0, r1, r2, r3)
  BY <1>3 DEF Dword, DwordValues, Signed, FromDigits, Fourth
<1>5. Int32Max = Fourth(b) \div 2 - 1 /\ Fourth(b) \in Nat
  <2>1. DwordValues = Fourth(b)
    BY DEF DwordValues, Fourth
  <2>2. Fourth(b) \in Nat
    BY <1>1 DEF Fourth
  <2> QED
    BY <2>1, <2>2 DEF Int32Max
<1> HIDE DEF d, b
<1>6. n \in (-(Fourth(b) \div 2))..(Fourth(b) \div 2 - 1)
  BY <1>5
<1> QED
  BY <1>2, <1>4, <1>6 DEF d

\* The loader finds the segments again in the file of an answer.
LEMMA FileIsImage ==
  ASSUME NEW result, HasFile(result), NEW tail \in Tails(result),
         NEW file, file = FileOf(result, tail)
  PROVE  IsImageOf(file, result)
<1> DEFINE data == result.data
           length == LittleEndian(Len(data))
<1>1. /\ data \in Seq(Nat) /\ result.code \in Seq(Nat) /\ Signature \in Seq(Nat)
      /\ Len(data) <= Int32Max /\ Len(data) \in Nat
  BY KmasAssumption DEF HasFile, Answer
<1>2. tail \in Seq(Nat) /\ tail \in {result.code, Append(result.code, 0)}
  <2>1. Append(result.code, 0) \in Seq(Nat)
    BY <1>1
  <2> QED
    BY <1>1, <2>1 DEF Tails
<1>3. length \in Seq(Nat) /\ Len(length) = 4 /\ DOMAIN length = 1..4
  <2>1. length \in Seq(Nat) /\ Len(length) = 4
    BY <1>1, SizeBytes
  <2> HIDE DEF length
  <2> QED
    BY <2>1
<1>4. file = ((Signature \o length) \o data) \o tail
  BY DEF FileOf, Header
<1> HIDE DEF data, length
<1>5. /\ file \in Seq(Nat)
      /\ Len(file) = Len(Signature) + 4 + Len(data) + Len(tail)
      /\ SubSeq(file, 1, Len(Signature)) = Signature
      /\ \A k \in 1..4 : file[Len(Signature) + k] = length[k]
      /\ SubSeq(file, Len(Signature) + 4 + 1, Len(Signature) + 4 + Len(data)) = data
      /\ SubSeq(file, Len(Signature) + 4 + Len(data) + 1, Len(file)) = tail
  <2>1. HasParts(file, Signature, length, data, tail)
    BY <1>1, <1>2, <1>3, <1>4, FileParts, Zenon
  <2> QED
    BY <1>3, <2>1 DEF HasParts
<1>6. Len(Signature) \in Nat /\ Len(tail) \in Nat
  BY <1>1, <1>2
<1>7. Dword(file, Len(Signature)) = Len(data)
  BY <1>1, <1>5, <1>6, SizeReadsBack DEF length
<1>8. LoadedData(file) = data
  BY <1>5, <1>7 DEF LoadedData, HeaderLength
<1>9. LoadedCode(file) = tail
  BY <1>5, <1>7 DEF LoadedCode, HeaderLength
<1>10. Len(file) >= HeaderLength
  BY <1>1, <1>5, <1>6 DEF HeaderLength
<1> QED
  BY <1>2, <1>5, <1>8, <1>9, <1>10 DEF IsImageOf, data

\* Every run writes the file part by part, and knows when it has not.
THEOREM FileInvariant == Spec => []FInv
<1>1. Init => FInv
  BY DEF Init, FInv, Untouched, Writing, Finished
<1>2. ASSUME FInv, [Next]_vars
      PROVE  FInv'
  <2>1. CASE Exited \/ UNCHANGED vars
    BY <1>2, <2>1 DEF Exited, vars, FInv, HasFile, Header, FileOf, Tails
  <2> QED
    BY <1>2, <2>1, MainKeepsFile, OutputKeepsFile DEF Next
<1> QED
  BY <1>1, <1>2, PTL DEF Spec

\* After exit code 0 the virtual machine loads what the assembler has answered,
\* for every size of the two segments that an int32_t can tell.
THEOREM ImagesLoad == Spec => []LoadsWhatWasAssembled
<1>1. FInv => LoadsWhatWasAssembled
  <2> SUFFICES ASSUME FInv, HasExited, err = 0, disk = stream
               PROVE  answer.exit = 0 /\ IsImageOf(disk, answer)
    BY DEF LoadsWhatWasAssembled
  <2>1. /\ HasFile(answer)
        /\ \E tail \in Tails(answer) : disk = FileOf(answer, tail)
    BY DEF FInv, HasExited, Finished
  <2> QED
    BY <2>1, FileIsImage DEF HasFile
<1> QED
  BY <1>1, FileInvariant, PTL
=============================================================================
