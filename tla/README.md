# A verification project for kmas

`kmas` is a two-pass assembler in C: it reads a `.kas` source for the KM
processor (a KMA computer) and writes a KMX file that the KM virtual machine
loads. This directory models it in TLA+, checks the models with TLC and proves
some of their properties with TLAPS.

Contents: [the system](#the-system), [modules](#the-modules),
[abstractions](#abstractions), [runs and bounds](#runs-and-bounds),
[fairness](#fairness), [proofs](#proofs), [findings](#findings),
[what is not modelled](#what-is-not-modelled), [plan](#plan).

## The system

One process, one thread, no signals, nothing persisted but the target file.
What makes it hard is not concurrency. It is that two passes over one file have
to agree without comparing notes; that sizes are machine words; that every
function may fail and every failure has to be undone once; and that the parser
counts on the way down what it fills on the way up.

| Component | State it keeps | Operations | What would make it correct |
|---|---|---|---|
| **Program run** (`main.c`, `io/output.c`, `core/memory.c`) | `config`, `asp`, `err`, the count of live allocations, the target file | parse arguments, create `asp`, assemble, write KMX, free, assert | a refusal leaves the target alone; no way out aborts or leaks; a success is a file that loads, and is the source |
| **Command line** (`core/args.c`) | `config` with two strings | find the source, derive or take the target, check both | the file that is written is the one meant and never the source; the exit code names what is wrong |
| **Two passes** (`assembler/`) | section context, position in the file, symbol table, both segments | one handler per kind of line, one set per pass | pass 2 is where pass 1 said it would be; the bytes mean the source; the exit code is that of the first fault; a source that changes in between does no harm to memory |
| **Symbol table** (`data_structures/symbol.c`) | growing array of name and address | add, find | a name has one address, the one of its definition |
| **Segments** (`dataseg.c`, `codeseg.c`) | size, capacity, bytes | create, begin, advance, append, grow | `size <= capacity` while appending, both within a `size_t`, no partial element |
| **Instruction table** (`instruction.c`) | constant table | find, size, is it a relative jump | a row for each mnemonic and operands, sizes that equal the bytes appended |
| **Lexer** (`lexer/`) | position, growing array of tokens | tokens of a line | every character is accounted for once, words are whole, the array has room for `TOKEN_EOF`, a line is refused only for its text |
| **Parser, data declarations** (`parser/identifier.c`, `segment.c`, `token.c`) | token position, statement with its parts | descent over the tokens, filling on the way back | parts in order, nothing read past the tokens, each block freed once |
| **Parser, other lines** (`parser/grammar.c`, `instruction.c`, `parser.c`) | token position, statement | one statement per line | exactly the lines of the grammar match, and the statement means the line |
| **File utilities** (`io/fileutil.c`) | the stream, the line buffer and its size | open, read a line, write bytes, checks on paths | the line and its terminator fit the buffer over any number of calls; an error is told apart from the end |
| **Printing, argument checks** (`core/common.c`) | none | messages | none that a model would show |
| **KM virtual machine** (not in the repository) | its two segments | load a KMX file, run | reads what was written |
| **Tests, documents, makefiles** | none | | |

How they interact. `main` calls `args_parse`, `asp_create`,
`process_assembler`, `output_binary` and the deinitialisers, in this order.
`process_assembler` runs `passes_any_pass` twice with a table of callbacks and
begins both segments again in between. For each line `passes_line` calls the
lexer, the parser and the callback for the statement, and frees the tokens and
the statement. Pass 1 only *advances* the segments and fills the symbol table;
pass 2 only *appends* and reads the table. The segments are the state both share.

Hard behaviours, with the lines where they bite, are the `hazards` of
`PROJECT.json`. The main ones:

- **Agreement of the passes.** Pass 1 takes sizes from `total_size` and
  `instruction_get_encoded_size`; pass 2 appends element by element. Nothing in
  the code compares the two.
- **Limits checked in one pass only.** Pass 2 compares neither section nor limit.
- **Words.** `total_size` is a sum of products modulo 2^64; capacities double;
  offsets and operands are `int32_t`; a `DB` value is cut to a byte.
- **Failure in the middle.** An allocation may fail in any call, with partly
  built statements, and after partly appended declarations.
- **An input error that looks like the end of the file**, and a line buffer
  that cannot grow, which looks the same.
- **The source is read twice**, and may be another text the second time.
- **Buffers that outlive a call**: the line buffer, the token array, the segments.
- **Paths changed before they are checked.**
- **stdio.** The bytes given to `fwrite` reach the disk when `fclose` says so.

## The modules

| Module | Stands for | Shape |
|---|---|---|
| `LineBuffer` | `fu_getline` and the buffer its caller keeps | state machine, one action per character |
| `Lexer` | `lexer_tokenize_line`, the token array, the line being freed | state machine over `LineBuffer`, one action per token |
| `Statement` | the rules of the grammar for all lines but declarations, the operands they set | operators |
| `Instruction` | the instruction table, `instruction_find`, encoded sizes, relative jumps, the bytes of an instruction | operators |
| `InstructionStream` | lines of any kind but declarations through the parser, the table and the encoder | state machine, one line per step |
| `Segment` | `Code_Segment` and `Data_Segment`: begin, advance, append, growth of the capacity | operators |
| `Assembler` | `process_assembler`: both passes over a source | state machine, one action per line handler |
| `Assembly` | what assembling a source promises, over the whole source at once | abstract state machine, one step |
| `AssemblerRefinement` | `Assembler` implements `Assembly` | `INSTANCE ... WITH` |
| `EditedSource` | `Assembler` with an editor that may save another text between the passes | composition |
| `DataDeclaration` | one line of the data section: the recursive descent, its allocations, and what pass 2 appends | state machine, one action per call or return |
| `DeclarationMeaning` | what a declaration means, read off the line between its commas | reference definition |
| `Arguments` | the search for the paths, the change of the extension, the checks and their exit codes | operators |
| `Kmas` | one run of the program: `args_parse`, `main`, `output_binary` step by step, for any answer of `process_assembler` | state machine |
| `Program` | the whole program: `Kmas` with `Assembler` in the place of the answer | composition and refinement of `Kmas` |
| `KMProcessor` | how the virtual machine decodes code; only properties use it | operators, external |
| `AssemblerClaims`, `KmasClaims` | sentences of headers and comments, refuted | properties |
| `AssemblerProofs`, `EditedSourceProofs`, `InstructionProofs`, `LexerProofs`, `DeclarationProofs`, `KmasProofs`, `ProgramProofs` | theorems about the module of that name; `AssemblerProofs` also about `AssemblerRefinement`, `InstructionProofs` about `InstructionStream` | proofs |
| `CommonLemmas` | numbers, digits, files cut into parts, functions given step by step, the rows of the table and the bytes of an instruction | lemmas |
| `MCInstruction`, `MCAssembler`, `MCEditedSource`, `MCLexer`, `MCDataDeclaration`, `MCKmas`, `MCProgram` | small instances for TLC | constants |

`Lexer` EXTENDS `LineBuffer`; `Statement` EXTENDS `Instruction`, and
`InstructionStream` EXTENDS `Statement` and `KMProcessor`; `Assembler` EXTENDS
`Instruction` and `Segment`, and `DataDeclaration` uses the same two.
`EditedSource` and `Program` EXTEND `AssemblerRefinement`; `Program` takes `Kmas`
with `INSTANCE ... WITH`, its answer being defined from the state of the passes.
Definitions marked *Seeded fault* are variants of the definition after them with
a plausible bug; nothing uses them, and putting one in the other's place must
break the property `PROJECT.json` names.

### LineBuffer and Lexer

`line` is what the buffer holds, `n` the `*n` of the caller, `held` what `realloc`
has really given. `Begin`, `Store` and `EndOfInput` are the parts of one call of
`fu_getline`; the characters are the environment's choice. `lexing`, `pos`,
`tokens` and `capacity` belong to `lexer_tokenize_line`: `tok_arr_init`, then
`NextToken` for each turn of its loop, then `EndOfTokens`. `set_next_token` picks
the kind by the first character, as the code does, and each `set_token_...`
answers a token with its text and the position after it, or `Refused`. After a
line `lexer_free_tokens` lets `fu_getline` read the next one into the same buffer.

`EveryCharacterOnce` is the property of the component: up to the comment or the
NUL that ends a line, each character is white space or part of exactly one token,
with the one exception the code makes, the character after a label. `WordsAreWhole`
says where words, labels and numbers end and that only a whole word is a keyword;
`RefusedForItsText` says which lines are refused, and so that the position a label
leaves past the end of a line never causes it. `LineFitsBuffer` and
`TokensFitArray` are about memory.

### Statement and InstructionStream

`grammar_line` and the rules below it, as operators from tokens to statements.
`StartsWith` is `tokens_start_with`; `SetOperand` keeps the order in which the code
fills operands, the second before the first. `InstructionStream` reads a stream of
lines with it; `Values` and `Assemble` are `pass2_instruction_ops_get` and
`pass_2_instruction_ops_set`, with the addresses of the symbols given (`Symbols`).
`AcceptsTheGrammar` compares with the grammar written once more as the sequences
of types it allows, `ReadsBack` follows the accepted instructions through the
table and the encoder to what the processor fetches. What pass 2 subtracts from
the operand of a relative jump is left to `Assembler`.

### Assembler

| Variable | Code |
|---|---|
| `source` | the lines of the file; a line is the statement the parser makes, `NO_TOKENS` when the lexer refuses it, `NO_STATEMENT` when the parser does |
| `phase`, `nl` | where `process_assembler` is, the line `fu_getline` returns next |
| `ctx` | `enum Assembler_Context` |
| `symtab` | the symbol table, as a function from names to addresses |
| `dtsg`, `cdsg`, `code` | the segments; the bytes of the code |
| `err` | `enum Err_Asm`; `convert_err` makes the exit code of it |
| `layout` | history: where both segments stood before each line in pass 1 |

An action is everything between two calls of `fu_getline`. `passes_kma`,
`passes_code_section`, `passes_data_section` and `passes_none` serve both passes;
`pass1_data_decl`, `pass1_instruction`, `pass1_label_def`, `pass2_data_decl`,
`pass2_instruction`, `pass2_label_def` are the handlers of the same names.
`DeclError`, `InstructionError` and `LabelError` keep the order of the checks;
the segment is advanced before the checks on its size, as in the code.
`OpenSource`, `EndPass1` (which begins the segments again) and `EndPass2` are the
frame of `passes_any_pass`. `NoTokens` and `NoStatement` are also taken when the
allocation they need fails.

`LayoutAgrees` is the property the design rests on: in pass 2 each definition is
met at the address pass 1 gave it. `SegmentsFit` says that what is accepted fits.
`KeepsPromise` says the rest against `Assembly`: which fault of a source decides
the exit code, and that the code can be read back by the processor, with operands
and jump targets.

### EditedSource

`text` keeps the lines `fu_getline` handed to pass 1, `source` those the present
pass is handed, and `Edit` makes them differ. They differ when an editor saves
another text between the passes, and also after an input error in the middle of a
line (`fileutil.c:223`): `fu_getline` then hands back what was read of the line, as
a line, before it returns -1. The fault `"read"` is an error between two lines; the
lines of a pass that is given a cut line are, for this module, another text.
`OneLineEdited` of the instance has these: a line replaced by a shorter
declaration, by an empty line, or missing. `agree` remembers whether
both passes read the whole of one text; while it holds `KeepsPromiseForOneText`
demands what `KeepsPromise` does, with any failure. When it does not hold, two
things remain: `AppendsStayInBuffer`, since pass 1 has moved the sizes that pass 2
relies on, and `SecondTextFirstAddresses`, what the program then is.

### DataDeclaration

`calls` is the stack of calls of `_grammar_identifier_dec` that have not
returned. `identifier_dec`, `identifier_dup` and `identifier_dec2` go down and
count; at the end of the line the parts are allocated; `FillSegment` returns from
one call and fills its part; `segment_remove_last` returns from one with a
failure. `Refuse` frees as `grammar_identifier_def` and `parse_tokens` do,
`AppendSegment` is one part of `pass2_data_decl`, `p_stmt_free` the end of
`passes_line`. `heap` tells whether each of the two blocks is live or freed, or
was freed twice. `read` is the furthest token any rule has looked at.
`FillsWithinParts` says that the index a call has kept is one of a part that was
allocated, and that the tokens it comes back to exist.

`DeclarationMeaning` says what the line means without any of this: a part is what
lies between two commas, it has one of four forms, and stands for bytes.
`WritesItsMeaning` compares what was accepted, and what was appended for it, with
that; `SummaryIsRight` compares `total_size` and `is_fully_uninit`, which pass 1
and the handlers go by.

### Kmas and Arguments

`argv` is the command line, `world` what `stat`, `access` and `fopen` would answer
about its two paths, `config` the two strings. `pc` walks through `main` and
`output_binary`. `live` is what `jemalloc` and `jree` count, block by block.
`stream` is what `fwrite` has been given and `disk` what the file holds: opening
truncates, closing writes, and a device may refuse bytes at any of them. `answer`
is `NotYet` until `process_assembler` sets it to any member of `Answers`.

### Program

The variables of `Assembler` and those of `Kmas` but `answer`, which `Answered`
defines from the state of the passes; `exit` is `err` of `main`. While `main` is in
`process_assembler` the steps are those of the passes, and the last one is the
step of that name in `Kmas`. `RunsAsMain` is the refinement: a run of the whole is
a run of `Kmas` whose other steps stutter. `FileHoldsTheSource` spans everything:
the file that `output_binary` writes, read by the loader and decoded by the
processor, is the source. `ExitTellsTheFirstFault` says which exit code comes out.

## Abstractions

- **Words are small.** A byte of a DWORD has `ByteBase` values (4 instead of
  256), a `size_t` `SizeMax + 1` (64 or 16 instead of 2^64). Every formula uses
  the constants, so the boundaries are there and can be reached.
- **Characters are classes.** `Lexer` has a character or two for each class the
  code tells apart, and `Keywords` stands for the table of words. `MaxValueLen`,
  the initial length of the buffer and that of the token array are constants.
- **Each stage takes what the stage before it produces, cut down to what it
  reads.** Tokens in `Statement` and `DataDeclaration` are a type, a text and the
  number the digits spell, as an integer no word limits, so that a number that
  does not fit can be told. A line in `Assembler` is a statement.
- **A path is a sequence of parts**, where `.kas` and `.kmx` are parts. The path of
  a file the program could reach by two names is two paths.
- **A declaration in `Assembler` is a number of bytes**, any natural number, of
  which `total_size` keeps the remainder and the appends keep all. The bytes are
  those of `DataDeclaration`; the two meet in `SummaryIsRight`. In `Program` every
  byte of the data segment is `DataByte`.
- **What nothing reads is left out**: the bytes a failed append has left behind,
  the fields a failed part has stored before its block is freed, what `-v` and
  `-i` print, the text of messages.
- **The symbol table is a function.** `symtab_add` is reached only for a name
  that `symtab_find` has not found, so the array holds each name once; and what
  `symtab_find` returns is used before anything is added.
- **Cells of the code segment nothing has written are 0** in `Overwrite`. No
  reachable state has one, since pass 2 writes from 0 without gaps.

## Runs and bounds

| Run | Checks | Shows | States |
|---|---|---|---|
| `lines` | `TypeOK`, `LineFitsBuffer`, `EveryCharacterOnce`, `WordsAreWhole`, `TokensFitArray`, `RefusedForItsText` | any file is cut into tokens without losing or doubling a character, in buffers that are large enough, with any allocation failing | about 356 000 |
| `instruction` | `ReadsBack`, `AcceptsTheGrammar` | the parser accepts exactly the grammar, and every two instructions of the table with registers and immediates at the limits are read back; `ByteBase` 16 | about 101 000 |
| `declarations` | `WritesItsMeaning`, `SummaryIsRight`, `ReadsWithinLine`, `EachFreedOnce`, `FillsWithinParts` | the descent, the counting and the filling give the meaning of the line, with any allocation failing | about 211 000 |
| `assembler` | `TypeOK`, `LayoutAgrees`, `SegmentsFit`, `IInv`, `RInv`, `KeepsPromise`, `Termination` | the passes agree, keep the promise and end | about 161 000 |
| `assembler_faults` | `SecondTextFirstAddresses`, `AppendsStayInBuffer`, `KeepsPromiseForOneText` | any failure of the environment and any edit of a line between the passes | about 665 000 |
| `kmas` | `WritesTheTarget`, `RefusalKeepsTarget`, `AssertionHolds`, `LoadsWhatWasAssembled` | any command line, state of the files, answer and failure | about 99 000 |
| `program` | `FileHoldsTheSource`, `ExitTellsTheFirstFault`, `RunsAsMain`, `Exits` | the whole program, from the lines of the source to the loaded file | about 130 000 |
| `unvalidated`, `offset_overflow`, `kmas_leak`, `kmas_terminator`, `kmas_fclose` | one claim each | the claim is refuted: see [findings](#findings) | |

Bounds, and why they are enough:

- **`lines`**: thirteen characters, at least one of each class; lines of at most
  `MaxLine` 4 characters and a newline, any number of them (the state between two
  lines does not remember how many). A buffer of `InitLen` 2 doubles twice within
  a line, a token array of `InitialTokens` 1 doubles three times, and
  `MaxValueLen` 4 makes a text too long within the line. The hazards of the lexer
  are about a token and the one character after it; four characters hold two
  tokens and what is between them.
- **`instruction`**: two statements, so that each instruction also begins where
  another one ends. *Shapes of the table*: each mnemonic with every right-hand
  side over registers, a label, an offset and numbers at the limits of `int32_t`.
  *Any shape*: every line of up to two tokens, each of three mnemonics before up to
  three tokens and the end of the line (`MaxTokens` 4), and complete instructions
  with one token more, with numbers out of range. The stream stops at two statements or at a
  line that is no instruction, hence `CHECK_DEADLOCK FALSE`; all other
  specifications have an action for the state after the end.
- **`declarations`**: up to three parts, each one of the ten right forms or the
  ten wrong ones, under `DB` and `DW`, with repetition counts of 0, 2,
  a count whose bytes wrap round to 0, the largest and a negated one. The order
  of parts matters at two parts, removal in the middle at three.
- **`assembler`**: four families of sources, each a prefix and then every
  sequence of lines of an alphabet; an empty line stands for a shorter source.
  *Code*: four lines of labels, forward and backward jumps (absolute and
  relative, to a label and to a number), `OFFSET`. *Mixed*: four lines that
  change the section, declare and refer, with declarations of 2 and 5 bytes in a
  segment of 6: fit alone, not together. *Start*: four lines from nothing, with
  refused lines. *Sizes*: three lines of declarations of 0, limit - 1, limit,
  limit + 1, `SizeMax`, `SizeMax + 1` and `SizeMax + 3` bytes, which are all
  boundaries of the guards. Two lines suffice for any disagreement between a use
  and a definition, three for a duplicate in between; `CdsgBytes` 14 is two
  jumps and some bytes, so the code overflows within three lines; the initial
  capacity of 2 makes the segments double several times. The source may fail to
  open for either pass.
- **`assembler_faults`**: *Code* with two lines after the prefix and three lines
  from nothing. An edit takes a line away, puts one of six others in its place or
  appends one: a moved label, a moved declaration, a line that is refused, and
  code past the limit are all one edit away. An initial capacity of 1 lets a
  segment need several doublings in one append.
- **`kmas`**: command lines with no, one and several paths, flags between them,
  paths with the extension in any place or none or twice, an empty argument; all
  states of the two files; 22 answers: data of 0, 1, 5 and 8 bytes (8 is more
  than `Int32Max` with `ByteBase` 2), code that is empty, ends with `HALT`, with
  another byte, or with the zero of a number.
- **`program`**: the families *Code*, *Mixed* and *Start* with two lines, so 2 to
  6 lines; `CdsgBytes` 10 is two jumps, or a `MOV` of six bytes and others, so
  that a source fills the code segment exactly and the terminator comes after it.
  Of the failures only that of opening the target is possible here; all others
  are in the runs of the parts.

## Fairness

The program is a single thread and waits for nobody, so whenever an action is
enabled one is taken: `FairSpec` of `Assembler` is `Spec /\ WF_vars(Next)`, and
`ProgramSpec` has the same condition over the variables of both parts.
`Termination` and `Exits` use it. It assumes that the source is finite and that
reads and writes return.

## Proofs

A theorem holds for every value of the constants its module's assumptions allow:
`Programs` may be any set of sources of any length, `Declarations` any set of
lines, `CommandLines` any set of arguments, `Faults` any set of failures, and a
word any number of bits. TLC evaluates the assumptions in the runs.

- `ByteBaseAssumption`: `ByteBase` is even and positive. `SegmentAssumption`:
  `SizeMax = 2^WordBits - 1`, and the initial capacity is at least 1.
- `StreamAssumption`: `TOKEN_EOF` ends the tokens of a line and stands nowhere else;
  a `TOKEN_REGISTER` is one of the six names, and a symbol that is named is defined
  with an `int32_t` as its address; lines that begin with an identifier are those of
  `DataDeclaration`. A number is any integer.
- `AssemblerAssumption`: a line's descriptor is a row of the table that agrees with
  the operands, as `grammar_line_instruction` makes sure, and numbers are `int32_t`;
  the limits of the segments are `int32_t` values and leave room for one
  instruction below `SizeMax`. `EditsAreTexts`: an editor saves lines as well.
- `LineBufferAssumption`, `LexerAssumption`: a first allocation of at least two
  bytes, a token array of at least one token, a text of at least two characters;
  and what `set_next_token` asks of a character is asked in classes that do not
  meet, so that the order of its tests does not matter: no letter is a digit, and
  none of the characters the code names is in a class.
- `DeclarationAssumption`: `TOKEN_EOF` ends the tokens of a line and stands nowhere
  else, which is `EndOfTokens` of `Lexer`; a data type is `DB` or `DW`, a number an
  integer, and a string a sequence of bytes.
- `KmasAssumption`, `ProgramAssumption`: arguments are strings and not the value
  that stands for a missing one; the signature and a byte of the data are numbers.

| Theorem | States |
|---|---|
| `AssemblerProofs!TypeCorrect` | `Spec => []TypeOK` |
| `AssemblerProofs!InvariantHolds` | `Spec => []IInv` |
| `AssemblerProofs!LayoutHolds` | `Spec => []LayoutAgrees` |
| `AssemblerProofs!AcceptedProgramsFit` | without input errors, `Spec => []SegmentsFit` |
| `AssemblerProofs!RefinementInvariant` | `Spec => []RInv` |
| `AssemblerProofs!PassesKeepPromise` | without input errors, `Spec => KeepsPromise` |
| `EditedSourceProofs!AppendsInBuffer` | `SpecEdited => []AppendsStayInBuffer` |
| `EditedSourceProofs!PassesKeepPromiseForOneText` | `SpecEdited => KeepsPromiseForOneText` |
| `EditedSourceProofs!SecondTextAssembled` | `SpecEdited => []SecondTextFirstAddresses` |
| `InstructionProofs!StreamInvariant` | `Spec => []StreamInv` |
| `InstructionProofs!GrammarAccepted`, `StreamReadsBack` | `Spec => []` of `AcceptsTheGrammar`, `ReadsBack` |
| `LexerProofs!LinesFitTheirBuffer` | `Spec => []LineFitsBuffer` |
| `LexerProofs!LexerInvariant` | `Spec => [](BufferInv /\ LexInv)` |
| `LexerProofs!LexerTypeCorrect`, `ArrayHoldsTokens`, `WordsStayWhole`, `CharactersOnce`, `RefusalsHaveReasons` | `Spec => []` of `TypeOK`, `TokensFitArray`, `WordsAreWhole`, `EveryCharacterOnce`, `RefusedForItsText` |
| `DeclarationProofs!DeclarationInvariant` | `Spec => []DInv` |
| `DeclarationProofs!BlocksFreedOnce`, `ParserStaysOnLine`, `FillingStaysInParts` | `Spec => []` of `EachFreedOnce`, `ReadsWithinLine`, `FillsWithinParts` |
| `DeclarationProofs!MeaningInvariant` | `Spec => [](DInv /\ MInv)` |
| `DeclarationProofs!DeclarationsGiveTheirBytes`, `SummariesAreRight` | `Spec => []` of `WritesItsMeaning`, `SummaryIsRight` |
| `KmasProofs!RefusalsKeepTargets`, `WritesOnlyTheTarget`, `NoRunAborts` | `Spec => []` of `RefusalKeepsTarget`, `WritesTheTarget`, `AssertionHolds` |
| `KmasProofs!FileInvariant`, `ImagesLoad` | `Spec => []FInv`, `Spec => []LoadsWhatWasAssembled` |
| `ProgramProofs!PassesInProgram` | `ProgramSpec => Spec`, that is, of the two passes |
| `ProgramProofs!ProgramRunsAsMain` | `ProgramSpec => RunsAsMain` |
| `ProgramProofs!FirstFaultTold` | without input errors, `ProgramSpec => []ExitTellsTheFirstFault` |
| `ProgramProofs!FileOfTheSource` | without input errors, `ProgramSpec => []FileHoldsTheSource` |

*Without input errors* is `"read" \notin Faults`, which also excludes the cut lines
described under EditedSource. The hypothesis is needed: with
an input error the code does break these promises, which is the finding of the
run `unvalidated`.

**The layout of the passes.** `LayoutAgrees` is not inductive: nothing in
the state of pass 2 says where the segments were when a symbol was added. The
history `layout` does, and `IInv` has four parts over it.

1. `LayoutIsRunningSum`: each entry is the one before it plus the size of the
   line between them, and all are within the limits. Pass 1 keeps this because
   its checks come before the history grows.
2. `SymbolsAtTheirLines`: the table holds each definition read, at the entry of
   its line. A new definition cannot disturb an old one, because `DeclError` and
   `LabelError` refuse a name that is in the table.
3. `PassesStand`: pass 1 stands at the last entry and pass 2 at the entry of the
   line it reads. For pass 2 this needs that what an append adds is what pass 1
   advanced by. For an instruction, `Len(Encode(...))` is the encoded size
   because the operands agree with the descriptor. For a declaration, an append
   that fits is of at most `SizeMax` bytes, so that `total_size` lost nothing.
4. `WholeSourceRead`: without input errors pass 1 has read every line, so pass 2
   is always inside the history, and its end is the last entry, which is within
   the limits. Without this part `SegmentsFit` does not follow; with input errors
   it is false.

The growth of a capacity (`Grown`) takes a least element of a set of capacities;
that one exists is `CommonLemmas!LeastNatural`, proved from the library's
well-foundedness of `<` on naturals.

**The promise of the passes.** `KeepsPromise` is a refinement: the initial state
of the passes is one of `Assembly`, and each step is a stutter but the one that
ends `process_assembler`, whose outcome has to be one `Assembly` allows. `IInv`
says where the passes are and not what they have found, so `RInv` adds what they
have found right: every line read was in its place and defined no name again
(`LinesInPlace`), `ctx` is the section of the line (`ContextOfLine`), the table
holds nothing that no line defines (`OnlyDefinedSymbols`), and the bytes of the
instructions behind pass 2 are where pass 1 planned them (`LinesWritten`). From
there:

- *Addresses.* `Assembly` sums the sizes of the lines before one, `layout` is a
  running sum; the lemmas on `Starts` show that both are the same.
- *Refusals.* An error of a handler is a fault of its line, and as `RInv` has no
  fault before it, it is the first one; pass 2 finds only what is left, unresolved
  names and what does not fit, after pass 1 has found nothing.
- *Programs.* What `Encode` writes is what `Fetch` reads: the opcode alone tells
  the row of the table, a register is a byte, and a number comes back from its four
  bytes, negative ones too (`FetchReads`, from the lemmas on digits, in
  `CommonLemmas`). A jump's offset, added to the address after it, is the label.

**Edited sources.** No theorem here asks that reading does not fail, and the edits may
be any texts.

- `AppendsStayInBuffer` needs nothing of the above: every append grows the buffer it
  writes to (`AppendedInBuffer`), and a pass begins with an empty one. `BufferInv` is
  inductive for any lines, also for those pass 1 has never seen.
- `KeepsPromiseForOneText`: the lemmas behind `PassesKeepPromise` are about a step in which
  `AllRead` holds, that is, pass 1 has read every line when pass 2 starts.
  `PassesKeepPromise` gets it from `"read" \notin Faults`; here it follows as long
  as `agree` holds (`WhileAgreed`), and once `agree` is false nothing is answered
  for the text any more. While they agree, `source` is `text`, and each operator of
  the instance over `text` equals the one over `source` (`SamePromiseForText`).
- `SecondTextFirstAddresses`: when the passes disagree, `layout` says nothing about
  the lines of pass 2. `SecondInv` keeps what does not need it: the table is that of
  the text pass 1 has read, each symbol at its first definition (`SymbolsOfText`,
  handed over from `IInv` and `RInv` at the end of pass 1, when nothing has been
  edited yet), and pass 2 stands at the running sums over *its own* lines, with
  the bytes of each instruction at its own sum (`SecondStands`). Pass 2
  compares nothing with the limits, so the other text may be longer than an
  `int32_t` can count. There `convert_size_t` saturates and a jump counts from a
  wrong place, so the part of the property about operands is for code of at most
  `Int32Max` bytes.

`Address` in `Assembly` is the place of the *first* definition, which is what
`symtab_find` returns: after an input error pass 1 may have read only some lines of
the text, and a definition further down must not move a name.

**A stream of instructions.** The rules of `Statement` compare the types of a
few tokens, and one of them, the type `TOKEN_EOF`, fixes the length of the line: a
rule that ends with it matches only the whole of what is left (`WholeRest`,
`EndsAfter`). So the rules and the grammar are both case
distinctions on the length of the line (`GrammarByLength`, `OperandsByLength`), and
`ParserAccepts` compares them; that the rules do not overlap is a part of it.
`AcceptedInstruction` says that the operands found are those of the row and, though
the second is set before the first, those of the line in their order. `ReadsBack` is
not inductive, since the code is only compared with what the processor makes of it:
`StreamInv` says that the code is the bytes of the lines, each where the one before
it ends, and `FetchReads`, the lemma the passes use too, gives the rest.

**The lexer.** `LineFitsBuffer` is made inductive by saying that `*n` *equals* what
is allocated wherever there is a buffer; after a failed first allocation it does
not, but then there is none. `LexInv` then has one part for each property:
`ArrayInv` (the capacity is positive in the loop, so doubling makes room),
`TextInv` (the text of each token is what stands at its place and ends where it
must), `CoverInv` (the tokens and the white space between them cover the line up
to the position, one character after a label excepted) and `RefusalInv`. A
lemma for each `set_token_...` says what its `CHOOSE` finds, for lines of any
length.

**A declaration.** `DInv` says, at each `pc`, which block is live and what the
statement tells about it (`Blocks`), that the parser stands on a token of the line
(`Places`), and that the parts counted are those of the calls (`Counted`). On
the way up fewer calls are left than parts are counted, and the parts allocated
are those that were counted, so each call's index is one of them. `Places` is
inductive because `&&` stops at the first token that is not the wanted one, and
`TOKEN_EOF` never is.

**What a declaration means.** `WritesItsMeaning` needs to know which token each call
stands for, so `MInv` first says where the parts begin: `PartStart` goes from one
separator to the next, and the lemmas up to `NoPartIsMissed` show that it reaches
every place where a part begins and no other. On the way down call k is that of part k,
and the parts before it have one of the forms (`OnTheWayDown`); a descent or a filling
that fails does so because the line is no declaration, or for want of memory
(`FailsForItsText`). On the way up the parts that are filled are the last ones, and
each equals what its tokens say (`AllFilled`); at the end all are. `Appending` has the
bytes so far equal what the tokens up to the next part mean (`MeaningUpTo`), and
`total_size` the length of the whole meaning modulo `SizeMax + 1`. The code adds up the
sizes part by part, each product and each sum in a word, and the meaning is a fold over
the tokens of the line; the two are compared by a least part at which they differ
(`CommonLemmas!Iterates`), since the induction theorems of the library cannot be used,
and `RemaindersAdd` takes the remainders together.

**A run.** `KInv` divides `pc` into the part before the target is opened, the part
while it is written and the part after: before it the target is untouched, while
it is written `err` is 0 or 42, and after it any other `err` means that it was
never opened. `FInv` adds how far the stream has got: signature, length, data, code,
terminator. `LoadsWhatWasAssembled` follows because the loader cuts the file where
the length says, and the four bytes of the length, which is at most `Int32Max`,
read back as it (`CommonLemmas!FileParts`).

**The target.** `KmasAssumption` says of the arguments only that
they are sequences of parts, so the theorem is about every command line. The
invariant `PathsChecked` says that from `asp_create` on the config holds what
`args_parse` put there and that the checks accepted it. The lemma `AcceptedPaths`
then works back from the checks. A given target ends with `.kmx` and the source
with `.kas`, so they differ. If none is given, `_args_change_extension` has
changed the *first* `.kas` of a copy of the source, and the check that follows
wants the copy to end with `.kmx`: since the source ends with `.kas`, the part that
was changed must be the last one (`ChangedAtItsEnd`), and the target is the source
with its extension exchanged. So a path with two of them is refused rather than
written in another place.

**The whole program.** Its steps are those of the passes or those of `main`, so the
theorems about the passes hold in it (`PassesInProgram`). `RunsAsMain` maps the
last step of the passes to the step `process_assembler` of `Kmas`; the answer it
gives is one of `Answers` because the state of the passes is typed. `ExitInv` carries
the exit code of the passes through `main`. `FileHoldsTheSource` puts the two
halves together: the passes end with a code segment that holds the source, the
file holds the segments, and the terminator, one byte after the code, disturbs no
instruction. The prover cannot cite the theorems of a module taken with
`INSTANCE`, so the lemmas on the file are repeated for the instance.

**Only model-checked.**

- `Termination` and `Exits`: liveness and `ENABLED` are out of this prover's reach.
- The findings: each is a counterexample, so there is nothing to prove.

## Findings

Each is a run that must find its claim violated.

- `unvalidated`: `assembler.h:82-83` says pass 2 sees only validated lines. An
  input error in pass 1 ends it like the end of the file (`passes.c:26`), and
  pass 2 may read on, with no check on sections and limits.
- `offset_overflow`: `JE -2147483648` and the like overflow the `int32_t`
  subtraction at `pass_2.c:109`.
- `kmas_leak`: `main.c:36` returns without freeing `config`, against `main.c:9`.
- `kmas_terminator`: `output.c:65` takes any last zero byte for a `HALT`.
- `kmas_fclose`: the result of `fclose` at `output.c:74` is dropped, so a full
  device can give exit code 0 and a cut file.

Read, and not given runs:

- A string that does not end, or any other text the lexer refuses, gives exit code
  42, which `common.h:93-94` keeps for what the user is not to blame for.
- `parser_identifier.h:9` promises an unchanged statement on failure. A pointer to
  freed parts stays in it. Nothing frees it again only because the statement's
  type is set last: `EachFreedOnce`.
- An append without memory gives exit code 7 or 8, which `common.h:91` explains as
  a segment that is too large.
- A declaration before `.KMA` is reported as data abroad, not as
  `ASM_KMA_EXPECTED` (`assembler.h:33-34`).
- `parser.h:112-114` says `total_size` has yet to be multiplied with the element
  size, and the parser has done so.
- A target that cannot be opened gives 42 and not 4 (`common.h:86`).
- `a.kas.kas` without a target becomes `a.kmx.kas` and exits with 2, although the
  comment at `args.c:80` says that such an error is one of the input.
- `pass_2.c:310` prints `(*op_values[i]).i32` where the line above appends
  `(*op_values)[i].i32`; it is read only when an append fails under `-v`.
- A source that fills the code segment of the processor and does not end with a
  zero byte is accepted, and the terminator makes the file one byte longer than
  the segment; `FileHoldsTheSource` says that it is never more than that.

## What is not modelled

- **The array of the symbol table**: its order and its growth are seen by nobody.
  No caller adds a symbol while it holds a pointer from `symtab_find`, and a name
  is added once. A failing `realloc` there is in `Assembler`.
- **Printing**, `-v`, `-i`, colours, and guards against `NULL` arguments that no
  caller passes: nothing else depends on them.
- **Bytes above 127** given to `isalpha` and `isdigit` as negative numbers: what they
  answer is the C library's affair.
- **A line cut by an input error**, as an event of its own: the theorems about
  `Assembler` and `Program` speak of the lines the passes are handed, the same in
  both; a cut in one of them is another text, for `EditedSource`.
- **The intermediate product at `dataseg.c:72`**: the growth within one call of
  `dtsg_app_*` is one test of what fits, so a wrap of `n * KMA_DWORD_SIZE` is not
  seen. Each `DWORD` ensures its own room again.
- **Blocks allocated inside `process_assembler` and `output_binary`**:
  `AssertionHolds` and `NothingLeaks` are about the blocks `main` itself owns, and
  `EachFreedOnce` about those of a statement.
- **Two names of one file** (links, `./a.kas`), and files that change while one
  pass has them open.
- **Tests, the document, makefiles**: no program logic.
- `dtsg_app_dws`, which has no caller.

## Plan

Done, in this order: `Instruction`, `Segment`, `Assembler`, `Assembly` and the
refinement, proofs of `IInv`, `Kmas` and its proofs, `DataDeclaration` with its
reference meaning; then `LineBuffer` and `Lexer`, `Statement`, `EditedSource`,
`Arguments` and `Kmas` over it, `Program`, and the proofs of `WritesTheTarget` and
`LineFitsBuffer`; then the proofs about the lexer, the refinement of `Assembly`, the
edited source, the file, the whole program and the blocks of a
declaration, of the meaning of a declaration, and of the parser and the stream of
instructions. Every component with logic of its own is modelled, and every invariant
and refinement that a run checks is a theorem; what is left to TLC is liveness.

What would come next: the array of the symbol table, should a caller ever keep a
pointer into it, and `-i`, should its output become a promise.

## Running

    tlc -config Assembler.cfg MCAssembler.tla
    tlapm AssemblerProofs.tla

with the module and the configuration of each run as in `PROJECT.json`.
