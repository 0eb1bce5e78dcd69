------------------------------ MODULE MCLexer ------------------------------
(***************************************************************************)
(* A character or two of each class the lexer tells apart, and a word of   *)
(* each kind over them.                                                    *)
(***************************************************************************)
EXTENDS Lexer, TLC

SomeCharacters ==
  {"D", "B", "0", "_", ".", "-", "@", "quote", ";", " ", ",", "NUL", "newline"}

SomeLetters == {"D", "B"}
SomeDigits  == {"0"}
SomeSpaces  == {" ", "newline"}
SomeSingle  == "," :> "TOKEN_COMMA"

SomeKeywords ==
  <<"D">> :> "TOKEN_REGISTER" @@ <<"B">> :> "TOKEN_REGISTER"
    @@ <<"D", "B">> :> "TOKEN_DATA_TYPE" @@ <<".", "D">> :> "TOKEN_SECTION_DATA"

WithMemory == {}
WithoutMemory == {"memory"}
=============================================================================
