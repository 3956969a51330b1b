-------------------------------- MODULE Intake --------------------------------
(***************************************************************************)
(* The receiving threads of the server, one per connection.  msgRecv cuts  *)
(* what recv returns into messages, before the login for loginMsgHandle    *)
(* and after it for msgHandler; loginMsgHandle logs clients in against     *)
(* userList and registers new ones in it and in the table User.            *)
(*                                                                         *)
(* TCP delivers the bytes of a client in order and cut anywhere.  A text   *)
(* is a sequence of symbols, the separator "&" one of them; a symbol is a  *)
(* field together with its "|" and is never cut.                           *)
(***************************************************************************)
EXTENDS Naturals, Sequences, SequencesExt, SplitText

CONSTANTS
  Conns,        \* connections
  Symbols,      \* fields with their "|", and "&"
  Streams,      \* Streams[c]: what client c may send, sequences of messages
  Heartbeat,    \* the message <3
  Numeric,      \* what the database stores for an unquoted text, or Null
  StoredUsers,  \* the table User at the start, pairs of a name and a password
  DbOutcomes,   \* {TRUE}: inserts succeed; {TRUE, FALSE}: any may fail
  MaxChunk,     \* bound on the symbols one recv returns
  Null

ASSUME MaxChunkAssumption == MaxChunk \in Nat \ {0}

ASSUME UsersAssumption ==
  \A r1, r2 \in StoredUsers : r1[1] = r2[1] => r1 = r2

\* An account is never taken for none.
ASSUME NullAssumption == Null \notin Symbols \X Symbols

VARIABLES
  rest,        \* sent and not yet received
  tempStr,     \* what the last chunk left over
  login,       \* login_flag_ of the connection: "in" or "out"
  receiver,    \* "recv", "closed", or "insert" and "publish" in a registration
  newUser,     \* the account last registered
  process,     \* "up" or "dead"
  userList,    \* accounts in memory, pairs of a name and a password
  dbUser,      \* the table User
  handled,     \* the calls of msgHandler so far
  owed,        \* history: messages sent and not received when login became "in"
  torn,        \* history: "torn" once a text without any separator was handled
  account      \* history: the account a login was compared with

connVars == <<rest, tempStr, login, receiver, newUser, handled, owed, torn, account>>
vars == <<connVars, process, userList, dbUser>>

\* split(text, "&").
Tokens(text) == Parts(text, "&")

\* A client ends every message with a separator.
Wire(messages) == FlattenSeq([i \in DOMAIN messages |-> Append(messages[i], "&")])

ASSUME StreamsAssumption == \A c \in Conns : \A s \in Streams[c] : Wire(s) \in Seq(Symbols)

\* A heartbeat in front of a separator is a message of its own.
BeatsAlone(text) ==
  LET beat == Append(Heartbeat, "&")
  IN  \A i \in 0..Len(text) :
        /\ i + Len(beat) <= Len(text)
        /\ \A k \in 1..Len(beat) : text[i + k] = beat[k]
        => i = 0 \/ text[i] = "&"

\* No client sends another message that ends like one.
ASSUME HeartbeatAssumption ==
  /\ Heartbeat \in Seq(Symbols) /\ "&" \in Symbols
  /\ \A c \in Conns : \A s \in Streams[c] : BeatsAlone(Wire(s))

\* The constructor of Connection does not set login_flag_.
Init ==
  /\ rest \in {[c \in Conns |-> Wire(s[c])] :
                 s \in {f \in [Conns -> UNION {Streams[c] : c \in Conns}] :
                          \A c \in Conns : f[c] \in Streams[c]}}
  /\ tempStr = [c \in Conns |-> <<>>]
  /\ login \in [Conns -> {"in", "out"}]
  /\ receiver = [c \in Conns |-> "recv"]
  /\ newUser = [c \in Conns |-> Null]
  /\ process = "up"
  /\ userList = StoredUsers /\ dbUser = StoredUsers
  /\ handled = [c \in Conns |-> <<>>]
  /\ owed = [c \in Conns |-> IF login[c] = "in" THEN Tokens(rest[c]) ELSE <<>>]
  /\ torn = [c \in Conns |-> "whole"]
  /\ account = [c \in Conns |-> Null]

-------------------------------------------------------------------------------
(* Framing *)

\* Mutant: tempStr is used and kept.
PrependKeeping(left, chunk) ==
  IF left # <<>> /\ chunk # Append(Heartbeat, "&")
  THEN [text |-> left \o chunk, left |-> left]
  ELSE [text |-> chunk, left |-> left]

\* The left-over is put before a chunk that is not just a heartbeat.
Prepend(left, chunk) ==
  IF left # <<>> /\ chunk # Append(Heartbeat, "&")
  THEN [text |-> left \o chunk, left |-> <<>>]
  ELSE [text |-> chunk, left |-> left]

\* find_last_of: 0 when there is none.
LastSeparator(text) == SelectLastInSeq(text, LAMBDA s : s = "&")

\* Mutant: the left-over starts one too late.
CutLate(text, left) ==
  IF Last(text) = "&"
  THEN [sub |-> Front(text), left |-> left]
  ELSE LET found == LastSeparator(text)
       IN  [sub  |-> IF found = 0 THEN text ELSE SubSeq(text, 1, found - 1),
            left |-> SubSeq(text, found + 2, Len(text))]

\* What is handled now and what is left over.  A text without any separator is
\* both: npos makes substr(0, found) and substr(found+1) the whole text.
Cut(text, left) ==
  IF Last(text) = "&"
  THEN [sub |-> Front(text), left |-> left]
  ELSE LET found == LastSeparator(text)
       IN  [sub  |-> IF found = 0 THEN text ELSE SubSeq(text, 1, found - 1),
            left |-> SubSeq(text, found + 1, Len(text))]

-------------------------------------------------------------------------------
(* loginMsgHandle *)

Code(text) == IF text = <<>> THEN "none" ELSE text[1]

\* The fields of a login or of a registration, when the text has them all.
HasAccount(text) ==
  Len(text) >= (IF Code(text) = "1234" THEN 3 ELSE 4)
Account(text) == <<text[2], text[3]>>

KnownUser(name) == \E a \in userList : a[1] = name

\* A login compared with the account of its name.
LogIn(c, text) ==
  /\ Code(text) = "1234" /\ HasAccount(text)
  /\ Account(text) \in userList
  /\ login' = [login EXCEPT ![c] = "in"]
  /\ account' = [account EXCEPT ![c] = Account(text)]
  /\ UNCHANGED <<receiver, newUser, process>>

\* The password is another one, no user is known at all, or the text is
\* neither a login nor a registration.
Ignore(c, text) ==
  /\ \/ Code(text) \notin {"1234", "1238"}
     \/ Code(text) = "1234" /\ userList = {}
     \/ /\ Code(text) = "1234" /\ HasAccount(text)
        /\ KnownUser(text[2]) /\ Account(text) \notin userList
  /\ UNCHANGED <<login, account, receiver, newUser, process>>

\* Past the end of the fields or of userList: whatever lies there is read and
\* compared, or the read ends the process.
ReadPastEnd(c, text) ==
  /\ \/ Code(text) = "1238" /\ ~HasAccount(text)
     \/ /\ Code(text) = "1234" /\ userList # {}
        /\ HasAccount(text) => ~KnownUser(text[2])
  /\ \/ /\ process' = "dead"
        /\ UNCHANGED login
     \/ /\ login' \in {login} \cup (IF Code(text) = "1234"
                                    THEN {[login EXCEPT ![c] = "in"]} ELSE {})
        /\ UNCHANGED process
  /\ UNCHANGED <<account, receiver, newUser>>

\* A registration goes to the database first.
Register(c, text) ==
  /\ Code(text) = "1238" /\ HasAccount(text)
  /\ receiver' = [receiver EXCEPT ![c] = "insert"]
  /\ newUser' = [newUser EXCEPT ![c] = Account(text)]
  /\ UNCHANGED <<login, account, process>>

loginMsgHandle(c, text) ==
  LogIn(c, text) \/ Ignore(c, text) \/ ReadPastEnd(c, text) \/ Register(c, text)

\* The row addTrader inserts: its values are not quoted, so numbers lose their
\* leading zeros and anything else is an error.
UserRow(a) == <<Numeric[a[1]], Numeric[a[2]]>>

\* Mutant: the table has no key.
FailsOnWords(a) == Null \in {UserRow(a)[1], UserRow(a)[2]}

addTraderFails(a) ==
  Null \in {UserRow(a)[1], UserRow(a)[2]} \/ \E r \in dbUser : r[1] = UserRow(a)[1]

\* Mutant: the result of addTrader is not looked at.
InsertAnyway(c) ==
  /\ process = "up" /\ receiver[c] = "insert"
  /\ \E accepted \in DbOutcomes :
       dbUser' = IF accepted /\ ~addTraderFails(newUser[c])
                 THEN dbUser \cup {UserRow(newUser[c])} ELSE dbUser
  /\ receiver' = [receiver EXCEPT ![c] = "publish"]
  /\ UNCHANGED <<rest, tempStr, login, newUser, process, userList, handled, owed,
                 torn, account>>

AddTrader(c) ==
  /\ process = "up" /\ receiver[c] = "insert"
  /\ \E accepted \in DbOutcomes :
       IF accepted /\ ~addTraderFails(newUser[c])
       THEN /\ dbUser' = dbUser \cup {UserRow(newUser[c])}
            /\ receiver' = [receiver EXCEPT ![c] = "publish"]
       ELSE /\ receiver' = [receiver EXCEPT ![c] = "recv"]
            /\ UNCHANGED dbUser
  /\ UNCHANGED <<rest, tempStr, login, newUser, process, userList, handled, owed,
                 torn, account>>

\* The account goes to userList, unless the name is there.
PublishUser(c) ==
  /\ process = "up" /\ receiver[c] = "publish"
  /\ userList' = IF KnownUser(newUser[c][1]) THEN userList
                 ELSE userList \cup {newUser[c]}
  /\ receiver' = [receiver EXCEPT ![c] = "recv"]
  /\ UNCHANGED <<rest, tempStr, login, newUser, process, dbUser, handled, owed,
                 torn, account>>

-------------------------------------------------------------------------------
(* msgRecv *)

\* recv returns n symbols.
Receive(c, n) ==
  /\ process = "up" /\ receiver[c] = "recv"
  /\ n <= Len(rest[c])
  /\ rest' = [rest EXCEPT ![c] = SubSeq(@, n + 1, Len(@))]
  /\ LET got == Prepend(tempStr[c], SubSeq(rest[c], 1, n))
         cut == Cut(got.text, got.left)
     IN  /\ tempStr' = [tempStr EXCEPT ![c] = cut.left]
         /\ torn' = IF LastSeparator(got.text) = 0
                    THEN [torn EXCEPT ![c] = "torn"] ELSE torn
         /\ \/ /\ login[c] = "in"
               /\ handled' = [handled EXCEPT ![c] = @ \o Tokens(cut.sub)]
               /\ UNCHANGED <<login, account, owed, receiver, newUser, process>>
            \/ /\ login[c] = "out"
               /\ loginMsgHandle(c, cut.sub)
               /\ owed' = IF login'[c] = "in"
                          THEN [owed EXCEPT ![c] = Tokens(cut.left \o rest'[c])]
                          ELSE owed
               /\ UNCHANGED handled
  /\ UNCHANGED <<userList, dbUser>>

\* recv fails, or a send failed before: the thread ends with what it has.
Close(c) ==
  /\ process = "up" /\ receiver[c] = "recv"
  /\ receiver' = [receiver EXCEPT ![c] = "closed"]
  /\ UNCHANGED <<rest, tempStr, login, newUser, process, userList, dbUser,
                 handled, owed, torn, account>>

Next ==
  \E c \in Conns :
    \/ \E n \in 1..MaxChunk : Receive(c, n)
    \/ AddTrader(c)
    \/ PublishUser(c)
    \/ Close(c)

Spec == Init /\ [][Next]_vars

-------------------------------------------------------------------------------
OnePerName(users) == \A a1, a2 \in users : a1[1] = a2[1] => a1 = a2

\* The shape of the state: receivers are at their program points, a name has
\* one account in userList and one row, and a registration has an account.
IntakeTypeOK ==
  /\ process \in {"up", "dead"}
  /\ login \in [Conns -> {"in", "out"}]
  /\ receiver \in [Conns -> {"recv", "insert", "publish", "closed"}]
  /\ torn \in [Conns -> {"whole", "torn"}]
  /\ \A c \in Conns : receiver[c] \in {"insert", "publish"} => newUser[c] # Null
  /\ OnePerName(userList) /\ OnePerName(dbUser)

\* Once a client is logged in, every message it sends is handled exactly once
\* and in order, however TCP cuts the stream, as long as no text without a
\* separator was handled.
FramesExact ==
  \A c \in Conns : login[c] = "in" /\ torn[c] = "whole" =>
                     handled[c] \o Tokens(tempStr[c] \o rest[c]) = owed[c]

\* How many leading members of wanted occur in seq, in their order.
Found(wanted, seq) ==
  LET found[n \in 0..Len(seq)] ==
        IF n = 0 THEN 0
        ELSE LET before == found[n - 1]
             IN  IF before < Len(wanted) /\ wanted[before + 1] = seq[n]
                 THEN before + 1 ELSE before
  IN  found[Len(seq)]

\* Even then nothing a logged-in client sends is lost or overtaken: a torn text
\* only adds fragments to the messages handled.
NoMessageLost ==
  \A c \in Conns : login[c] = "in" =>
    Found(owed[c], handled[c] \o Tokens(tempStr[c] \o rest[c])) = Len(owed[c])

\* A client that logged in with a password did so with the one the table holds
\* for it, although clients register the same name at once and inserts fail:
\* an account without a row never gets to userList.
LoginsStored ==
  \A c \in Conns : account[c] # Null =>
    account[c] \in dbUser \/ UserRow(account[c]) \in dbUser

===============================================================================
