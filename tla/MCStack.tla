-------------------------------- MODULE MCStack --------------------------------
(***************************************************************************)
(* Constants of the small instance TLC checks MarketMaker and Startup on.  *)
(***************************************************************************)
EXTENDS MarketMaker

Port(number) == <<"port", number>>
Addr(name) == <<"addr", name>>

\* The sections of doc/settings.ini.
Layout(first) ==
  <<Tag("socket"), Port("1203"), <<"">>, Tag("TraderServer"), Port("1203"), <<"">>,
    Tag("database"), Addr(first), Port("3306"), Tag("Testdatabase"), Addr("test")>>

\* The repository's order; and the section of the client last, a key given twice
\* and a value with a "=" in it.
SomeFiles ==
  {Layout("db"),
   <<Tag("database"), Addr("db"), <<"password", "a", "b">>,
     Tag("socket"), Port("1202"), Port("1203"), Tag("TraderServer"), Port("1203")>>}

\* Nothing, the first line, or a line behind the file.
SomeNumbers == {0, 1, 20}

\* Both are read as they are meant, as far as the ports go.
ASSUME SomeFilesPlain == FilesPlain
===============================================================================
