---------------------------- MODULE RedisProtocol -----------------------------
(***************************************************************************)
(* RedisProtocol: the serialization and the parsing of RESP values, and    *)
(* the command that a message holds.                                       *)
(*                                                                         *)
(* A character is a string; a word ("SET") counts as one character, so     *)
(* lengths in messages are lengths in characters of the model.  A value is *)
(* <<"string", s>>, <<"integer", n>>, <<"array", values>> or <<"null">>.   *)
(* Numbers that do not fit the 64 bits of stoll are left out.              *)
(***************************************************************************)
EXTENDS Integers, Sequences, SequencesExt

CRLF == <<"CR", "LF">>
Digits == <<"0", "1", "2", "3", "4", "5", "6", "7", "8", "9">>

\* std::to_string.
Numeral(n) ==
  LET numeral[k \in 0 .. n] ==
        IF k < 10 THEN <<Digits[k + 1]>> ELSE Append(numeral[k \div 10], Digits[(k % 10) + 1])
  IN  numeral[n]

Decimal(n) == IF n < 0 THEN <<"-">> \o Numeral(-n) ELSE Numeral(n)

-------------------------------------------------------------------------------
(***************************************************************************)
(* Serialization.  serialize goes through a value as parse has made it, so *)
(* each value that parse makes has its serialization beside it.            *)
(***************************************************************************)

\* A plausible slip: the CR LF that ends a bulk string is forgotten.
CreateUnendedBulkString(s) == <<"$">> \o Decimal(Len(s)) \o CRLF \o s

CreateBulkString(s) == <<"$">> \o Decimal(Len(s)) \o CRLF \o s \o CRLF

CreateInteger(n) == <<":">> \o Decimal(n) \o CRLF

\* Every element becomes a bulk string, one that is serialized already too.
CreateArray(strings) ==
  <<"*">> \o Decimal(Len(strings)) \o CRLF
    \o FlattenSeq([i \in DOMAIN strings |-> CreateBulkString(strings[i])])

Null == [value |-> <<"null">>, serialized |-> <<>>]
String(s) == [value |-> <<"string", s>>, serialized |-> CreateBulkString(s)]
Integer(n) == [value |-> <<"integer", n>>, serialized |-> CreateInteger(n)]
Array(items) ==
  [value |-> <<"array", [i \in DOMAIN items |-> items[i].value]>>,
   serialized |-> CreateArray([i \in DOMAIN items |-> items[i].serialized])]

-------------------------------------------------------------------------------
(***************************************************************************)
(* Parsing the message d from a position p on, which counts from 1.        *)
(***************************************************************************)

\* stoll and stoi: a sign, then the digits up to the first other character; they
\* throw if there is none.
Unsigned(s) == IF s # <<>> /\ s[1] = "-" THEN Tail(s) ELSE s

IsDigit(c) == \E k \in 0 .. 9 : c = Digits[k + 1]
DigitValue(c) == CHOOSE k \in 0 .. 9 : c = Digits[k + 1]

IsNumber(s) == Unsigned(s) # <<>> /\ IsDigit(Unsigned(s)[1])

Stoll(s) ==
  LET u == Unsigned(s)
      end == CHOOSE k \in 0 .. Len(u) : /\ \A i \in 1 .. k : IsDigit(u[i])
                                        /\ k < Len(u) => ~IsDigit(u[k + 1])
      value[i \in 0 .. end] == IF i = 0 THEN 0 ELSE 10 * value[i - 1] + DigitValue(u[i])
  IN  IF s[1] = "-" THEN -value[end] ELSE value[end]

\* The line that begins at p, and the position behind it.
ReadLine(d, p) ==
  LET cr == CHOOSE i \in p .. Len(d) + 1 : /\ \A j \in p .. i - 1 : d[j] # "CR"
                                           /\ i <= Len(d) => d[i] = "CR"
  IN  <<SubSeq(d, p, cr - 1), IF cr < Len(d) /\ d[cr + 1] = "LF" THEN cr + 2 ELSE cr>>

\* A plausible slip: a string that is not there yet is not refused.
ParseAnyBulkString(d, p) ==
  LET line == ReadLine(d, p + 1)
      n == Stoll(line[1])
      q == line[2]
  IN  IF ~IsNumber(line[1]) \/ n < 0 THEN Null
      ELSE String(IF q - 1 + n > Len(d) THEN <<>> ELSE SubSeq(d, q, q + n - 1))

\* A string needs its n characters and two more.
ParseBulkString(d, p) ==
  LET line == ReadLine(d, p + 1)
      n == Stoll(line[1])
      q == line[2]
  IN  IF ~IsNumber(line[1]) \/ n < 0 \/ q - 1 + n + 2 > Len(d) THEN Null
      ELSE String(SubSeq(d, q, q + n - 1))

ParseInteger(d, p) ==
  LET digits == ReadLine(d, p + 1)[1]
  IN  IF IsNumber(digits) THEN Integer(Stoll(digits)) ELSE Null

\* parse[q] is what parse makes of the message from q on.  After a round of the
\* loop the position moves on by the length of the element serialized again; a
\* round that breaks off the loop leaves all as it is, and so do those after it.
ParseArray(d, p, parse) ==
  LET line == ReadLine(d, p + 1)
      n == Stoll(line[1])
      loop[i \in 0 .. n] ==
        IF i = 0 THEN [pos |-> line[2], array |-> <<>>]
        ELSE LET before == loop[i - 1]
                 item == parse[before.pos]
             IN  IF before.pos > Len(d) \/ item = Null THEN before
                 ELSE [pos |-> before.pos + Len(item.serialized),
                       array |-> Append(before.array, item)]
  IN  IF ~IsNumber(line[1]) \/ n < 0 THEN Null ELSE Array(loop[n].array)

\* The branches of parse, at every position of the message.
ParseAt(d, parse) ==
  [p \in 1 .. Len(d) |->
     CASE d[p] \in {"+", "-"} -> String(ReadLine(d, p + 1)[1])
       [] d[p] = ":" -> ParseInteger(d, p)
       [] d[p] = "$" -> ParseBulkString(d, p)
       [] d[p] = "*" -> ParseArray(d, p, parse)
       [] OTHER -> Null]

\* An array calls parse for its elements, which begin behind it: arrays are nested
\* less than Len(d) deep.
Parse(d) ==
  LET parse[depth \in 0 .. Len(d)] ==
        ParseAt(d, IF depth = 0 THEN <<>> ELSE parse[depth - 1])
  IN  IF d = <<>> THEN Null ELSE parse[Len(d)][1]

-------------------------------------------------------------------------------
(***************************************************************************)
(* Commands: <<name, argument, ...>>, or <<>> if there is none.            *)
(***************************************************************************)
ToUpper(s) == [i \in DOMAIN s |-> IF s[i] = "set" THEN "SET" ELSE s[i]]

\* parseCommand: later elements that are no strings are left out.
Command(values) ==
  IF values = <<>> \/ values[1][1] # "string" THEN <<>>
  ELSE LET strings == SelectSeq(Tail(values), LAMBDA v : v[1] = "string")
       IN  <<ToUpper(values[1][2])>> \o [i \in DOMAIN strings |-> strings[i][2]]

ParseCommand(d) ==
  LET value == Parse(d).value IN IF value[1] = "array" THEN Command(value[2]) ELSE <<>>
===============================================================================
