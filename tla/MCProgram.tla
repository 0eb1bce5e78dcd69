----------------------------- MODULE MCProgram -----------------------------
(***************************************************************************)
(* Small sources under a few command lines, in any state of the files.     *)
(***************************************************************************)
EXTENDS MCAssembler, Program

Source == <<"a", ".kas">>

SomeCommandLines == {<< >>, <<Source>>, <<Source, <<"-", "v">>, <<"b", ".kmx">>>>, <<Source, Source>>}

MainSources  == UNION {CodeSources, MixedSources, StartSources}
MainPrograms == MainSources

KMX == <<1, 3, 0>>
Leftover == <<3>>
=============================================================================
