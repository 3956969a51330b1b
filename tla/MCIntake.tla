------------------------------- MODULE MCIntake -------------------------------
(***************************************************************************)
(* Constants of the small instance TLC checks Intake on: one client sends  *)
(* every stream of up to two messages, another one registers, both cut in  *)
(* every way.                                                              *)
(***************************************************************************)
EXTENDS Intake

BeatText == <<"<3">>
LoginAs(name, password) == <<"1234", name, password>>
Registration(name, password) == <<"1238", name, password, "1000">>

Messages ==
  {LoginAs("7", "1"), LoginAs("8", "2"), Registration("8", "2"),
   BeatText, <<"87", "n1">>}

\* Names and passwords: "08" is stored as 8, a word is not a value.
AllNumeric ==
  [t \in {"7", "8", "08", "eight", "1", "2"} |->
     IF t = "eight" THEN Null ELSE IF t = "08" THEN "8" ELSE t]

SomeSymbols ==
  {"&", "<3", "1234", "1238", "1000", "87", "n1", "7", "8", "08", "eight", "1", "2"}

AllStreams ==
  [c \in {"c1", "c2"} |->
     IF c = "c1" THEN BoundedSeq(Messages, 2)
     ELSE {<<Registration(n, "1")>> : n \in {"8", "08", "eight"}}]

UserSeven == {<<"7", "1">>}
===============================================================================
