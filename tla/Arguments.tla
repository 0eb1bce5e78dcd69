----------------------------- MODULE Arguments -----------------------------
(***************************************************************************)
(* The command line and what args_parse makes of it. A path is a sequence  *)
(* of parts; ".kas" and ".kmx" are parts of their own, wherever they stand *)
(* in the path, and an argument that begins with "-" is a flag. argv       *)
(* begins with the first argument, not with the name of the program.       *)
(***************************************************************************)
EXTENDS Integers, Sequences

NoPath == <<"NULL">>   \* the NULL pointer; no argument is this path

\* fu_is_file of the source; what the target is, whether it can be written, if it
\* exists, and whether the directory it is in can.
Worlds == [source : {"file", "other"}, target : {"none", "file", "dir", "other"},
           writable : BOOLEAN, parent : BOOLEAN]

-----------------------------------------------------------------------------
(* Finding the paths.                                                      *)

IsFlag(argument) == argument # << >> /\ argument[1] = "-"

\* The arguments after the source that are no flags; the first one is the target.
Targets(argv) == {i \in 2..Len(argv) : ~IsFlag(argv[i])}

\* _args_find_src
find_src(argv) == IF argv = << >> THEN NoPath ELSE argv[1]

\* _args_find_tgt
find_tgt(argv) ==
  IF Targets(argv) = {} THEN NoPath
  ELSE argv[CHOOSE i \in Targets(argv) : \A j \in Targets(argv) : i <= j]

Extensions(path) == {i \in DOMAIN path : path[i] = ".kas"}

\* _args_change_extension: the first .kas of the path becomes .kmx.
change_extension(path) ==
  IF Extensions(path) = {} THEN NoPath
  ELSE [path EXCEPT ![CHOOSE i \in Extensions(path) : \A j \in Extensions(path) : i <= j] = ".kmx"]

\* config->target, or NoPath.
target_path(argv) ==
  IF find_tgt(argv) # NoPath THEN find_tgt(argv) ELSE change_extension(find_src(argv))

-----------------------------------------------------------------------------
(* The checks on the paths.                                                *)

\* Seeded fault: the extension may stand anywhere in the path.
path_check_syntaxAnywhere(path, suffix) == \E i \in DOMAIN path : path[i] = suffix

\* args_path_check_syntax, as args_parse calls it.
path_check_syntax(path, suffix) == path # << >> /\ path[Len(path)] = suffix

\* fu_can_write
can_write(world) ==
  CASE world.target \in {"dir", "file"} -> world.writable
    [] world.target = "none"            -> world.parent
    [] world.target = "other"           -> FALSE

\* The order of the checks of args_parse. The last two, on the file system, are
\* those of args_path_check_semantic, after which the config stays allocated.
Check(argv, world) ==
  CASE argv = << >>                                        -> "usage"
    [] target_path(argv) = NoPath                             -> "no extension"
    [] ~path_check_syntax(find_src(argv), ".kas")          -> "source syntax"
    [] ~path_check_syntax(target_path(argv), ".kmx")          -> "target syntax"
    [] world.source # "file"                               -> "no source"
    [] ~can_write(world)                                   -> "no target"
    [] OTHER                                               -> "accepted"

\* ERR_INVALID_INPUT_FILE, ERR_INVALID_OUTPUT_FILE
args_error(check) ==
  CASE check \in {"usage", "no extension", "source syntax", "no source"} -> 1
    [] check \in {"target syntax", "no target"}                          -> 2
    [] check = "accepted"                                                -> 0
=============================================================================
