------------------------------ MODULE MCDispatch ------------------------------
(***************************************************************************)
(* Constants of the small instance TLC checks Dispatch on.                 *)
(***************************************************************************)
EXTENDS Dispatch

SomeSymbols == {"c1", "c2", "&", "|", "87", "1233", "n1", "n2", "n3", "KKC", "<3"}

OrderText(nid) == <<"87", "|", nid>>
PriceText == <<"1233", "|", "KKC">>
BeatText == <<"<3">>

Chunk(messages) == FoldRight(LAMBDA m, acc : IF acc = <<>> THEN m ELSE m \o <<"&">> \o acc,
                             messages, <<>>)
Sends(one, other) == [r \in {"c1", "c2"} |-> IF r = "c1" THEN one ELSE other]

\* One client alone sends two messages in a chunk; two clients send one each.
SmallStreams ==
  {Sends(<<Chunk(<<OrderText("n1"), OrderText("n2")>>)>>, <<>>),
   Sends(<<Chunk(<<BeatText, PriceText, OrderText("n1")>>)>>, <<>>),
   Sends(<<OrderText("n1")>>, <<OrderText("n3")>>),
   Sends(<<PriceText>>, <<OrderText("n3")>>)}
===============================================================================
