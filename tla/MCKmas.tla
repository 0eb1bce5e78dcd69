------------------------------- MODULE MCKmas -------------------------------
(***************************************************************************)
(* Command lines and answers of process_assembler for TLC. The answers are *)
(* refused sources, no code at all, code that ends with HALT, with another *)
(* byte, and with the zero of a number; data of no byte, of some and of    *)
(* too many.                                                               *)
(***************************************************************************)
EXTENDS KmasClaims

Refused(exit) == [exit |-> exit, data |-> << >>, code |-> << >>, halts |-> FALSE]

Accepted(data, code, halts) == [exit |-> 0, data |-> data, code |-> code, halts |-> halts]

\* 8 bytes of data are more than Int32Max when ByteBase is 2: what process_assembler
\* answers when an input error has hidden the declarations from pass 1.
SomeAnswers ==
  {Refused(exit) : exit \in {3, 4, 6, 7, 8, 42}}
  \cup {Accepted(data, code[1], code[2]) :
         data \in {<< >>, <<1>>, <<1, 0, 1, 1, 0>>, <<1, 1, 1, 1, 1, 1, 1, 1>>},
         code \in {<<<< >>, FALSE>>, <<<<1, 0>>, TRUE>>, <<<<1>>, FALSE>>,
                   <<<<1, 1, 0, 0, 0>>, FALSE>>}}

Verbose == <<"-", "v">>

\* No argument; a source of any shape; a flag and a target after it, or two.
Paths == {<<"a", ".kas">>, <<"a", ".kas", ".kas">>, <<".kas", "/", "a", ".kas">>, <<"a">>, << >>,
          <<"a", ".kas", "b">>}

GivenTargets == {<<"b", ".kmx">>, <<"a", ".kas">>, << >>}

SomeCommandLines ==
  {<< >>, <<Verbose>>}
    \cup {<<path>> : path \in Paths} \cup {<<path, Verbose>> : path \in Paths}
    \cup {<<path, target>> : path \in Paths, target \in GivenTargets}
    \cup {<<path, Verbose, target, <<"c", ".kmx">>>> : path \in Paths, target \in GivenTargets}

KMX == <<1, 1, 0>>
Leftover == <<1, 0>>
AllFaults == {"memory", "open", "write"}
NoFaults == {}
=============================================================================
