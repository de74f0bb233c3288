----------------------------- MODULE RespFraming ------------------------------
(***************************************************************************)
(* What becomes of the bytes of one connection: ClientConnection::receive  *)
(* cuts them into messages, RedisProtocol parses each message,             *)
(* RedisHandler::handleCommand and the argument checks of its handlers     *)
(* decide what it does.                                                    *)
(***************************************************************************)
EXTENDS RedisProtocol

CONSTANTS
  Requests,       \* the arrays of values that clients send
  MaxRequests     \* bound: requests on the connection

\* A client sends strings (as bulk strings or as simple strings), integers, and
\* arrays of these.
Scalars == ({"string", "simple"} \X Seq(STRING)) \cup ({"integer"} \X Int)

ASSUME FramingAssumption ==
  /\ Requests \subseteq Seq(Scalars \cup ({"array"} \X Seq(Scalars)))
  /\ MaxRequests \in Nat

VARIABLES
  wire,       \* characters sent and not yet received
  data,       \* the local of receive()
  closed,     \* has the client closed its end
  sent,       \* the requests sent
  outcomes,   \* for each message answered what it did, Refused if it was refused
  whole       \* history: was each message one whole request

vars == <<wire, data, closed, sent, outcomes, whole>>

-------------------------------------------------------------------------------
\* registerCommands.
Registered == {<<c>> : c \in {"PING", "ECHO", "SET", "GET", "DEL", "EXISTS", "KEYS", "FLUSH",
                              "SAVE", "LOAD", "INFO", "CONFIG", "SELECT", "AUTH", "QUIT"}}

\* The checks the handlers begin with (password_ is empty unless it is set).
Accepted(cmd) ==
  /\ cmd # <<>> /\ cmd[1] \in Registered
  /\ LET name == cmd[1][1]
         args == Tail(cmd)
     IN
     /\ name = "SET" => Len(args) >= 2
     /\ name \in {"GET", "DEL", "EXISTS", "SELECT", "AUTH"} => Len(args) = 1
     /\ name \in {"ECHO", "CONFIG"} => Len(args) >= 1
     /\ name \in {"SET", "GET", "DEL", "EXISTS"} => IsNumber(args[1])
     /\ name = "SELECT" => IsNumber(args[1]) /\ Stoll(args[1]) \in 0 .. 15
     /\ name = "CONFIG" => args[1] = <<"GET">>

\* What the handler works with: the number that the key begins with, the value.
Effect(cmd) ==
  LET name == cmd[1][1]
  IN  CASE name = "SET" -> <<name, Stoll(cmd[2]), cmd[3]>>
        [] name \in {"GET", "DEL", "EXISTS", "SELECT"} -> <<name, Stoll(cmd[2])>>
        [] OTHER -> <<name>>

Refused == <<>>
Outcome(cmd) == IF Accepted(cmd) THEN Effect(cmd) ELSE Refused

-------------------------------------------------------------------------------
(***************************************************************************)
(* The client: its library encodes what it sends as RESP says.             *)
(***************************************************************************)
EncodeArray(texts) == <<"*">> \o Decimal(Len(texts)) \o CRLF \o FlattenSeq(texts)

EncodeScalar(v) ==
  CASE v[1] = "string" -> <<"$">> \o Decimal(Len(v[2])) \o CRLF \o v[2] \o CRLF
    [] v[1] = "simple" -> <<"+">> \o v[2] \o CRLF
    [] v[1] = "integer" -> <<":">> \o Decimal(v[2]) \o CRLF

EncodeElement(v) ==
  IF v[1] = "array" THEN EncodeArray([i \in DOMAIN v[2] |-> EncodeScalar(v[2][i])])
  ELSE EncodeScalar(v)

Encode(r) == EncodeArray([i \in DOMAIN r |-> EncodeElement(r[i])])

Init ==
  /\ wire = <<>> /\ data = <<>> /\ closed = FALSE
  /\ sent = <<>> /\ outcomes = <<>> /\ whole = TRUE

ClientSends(r) ==
  /\ ~closed /\ Len(sent) < MaxRequests
  /\ wire' = wire \o Encode(r)
  /\ sent' = Append(sent, r)
  /\ UNCHANGED <<data, closed, outcomes, whole>>

ClientCloses ==
  /\ ~closed /\ closed' = TRUE
  /\ UNCHANGED <<wire, data, sent, outcomes, whole>>

-------------------------------------------------------------------------------
HasLine(d) == \E i \in 1 .. Len(d) - 1 : d[i] = "CR" /\ d[i + 1] = "LF"

\* data += buffer takes the characters up to the first NUL.
CString(s) ==
  LET nul == SelectInSeq(s, LAMBDA c : c = "NUL")
  IN  IF nul = 0 THEN s ELSE SubSeq(s, 1, nul - 1)

\* recv() returns any number of the characters that have arrived.
Recv(n) ==
  /\ ~HasLine(data) /\ n \in 1 .. Len(wire)
  /\ data' = data \o CString(SubSeq(wire, 1, n))
  /\ wire' = SubSeq(wire, n + 1, Len(wire))
  /\ UNCHANGED <<closed, sent, outcomes, whole>>

\* receive() returns: at the first CR LF, or at the end of the stream.
HandleCommand ==
  /\ HasLine(data) \/ (closed /\ wire = <<>> /\ data # <<>>)
  /\ outcomes' = Append(outcomes, Outcome(ParseCommand(data)))
  /\ whole' = (whole /\ Len(outcomes) < Len(sent) /\ data = Encode(sent[Len(outcomes) + 1]))
  /\ data' = <<>>
  /\ UNCHANGED <<wire, closed, sent>>

Next ==
  \/ \E r \in Requests : ClientSends(r)
  \/ ClientCloses
  \/ \E n \in 1 .. Len(wire) : Recv(n)
  \/ HandleCommand

Spec == Init /\ [][Next]_vars

-------------------------------------------------------------------------------
\* What a request asks for, whatever way its strings are encoded.
Asked(r) ==
  Outcome(Command([i \in DOMAIN r |-> IF r[i][1] = "simple" THEN <<"string", r[i][2]>> ELSE r[i]]))

\* s is t with some elements left out.
IsSubsequence(s, t) ==
  \E f \in [DOMAIN s -> DOMAIN t] :
    /\ \A i, j \in DOMAIN s : i < j => f[i] < f[j]
    /\ \A i \in DOMAIN s : s[i] = t[f[i]]

(***************************************************************************)
(* However the network cuts or joins what the client sends, the server     *)
(* does only what the client asked for, in that order: a message that ends *)
(* early, or begins late, is refused or is short of an argument, and never *)
(* becomes another command (receive, parseBulkString, parseArray, and the  *)
(* argument checks together).                                              *)
(***************************************************************************)
OnlyAskedExecuted ==
  IsSubsequence(SelectSeq(outcomes, LAMBDA o : o # Refused),
                [i \in DOMAIN sent |-> Asked(sent[i])])

(***************************************************************************)
(* If every message was one whole request, and its elements were bulk      *)
(* strings and integers, each request has done what it asks for, or was    *)
(* refused if it may not: the length of an element serialized again is its *)
(* length in the message.  With simple strings or arrays among the         *)
(* elements it is not.                                                     *)
(***************************************************************************)
Plain(r) == \A i \in DOMAIN r : r[i][1] \in {"string", "integer"}

WholeUnderstood ==
  whole /\ (\A i \in DOMAIN sent : Plain(sent[i]))
    => /\ Len(outcomes) <= Len(sent)
       /\ \A i \in DOMAIN outcomes : outcomes[i] = Asked(sent[i])
===============================================================================
