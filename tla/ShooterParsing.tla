--------------------------- MODULE ShooterParsing ---------------------------
(***************************************************************************)
(* Reading the messages of ShooterProtocol, field by field as they come.   *)
(* A zero tag ends a message; when that is not the end of its bytes the    *)
(* parse of the enclosing message fails there too.  What has been read     *)
(* until then stays in the message.  (A field past the end, which no       *)
(* receive that begins with a packet has, is left out, and the parse ends.)*)
(*                                                                         *)
(* A client sends each field of a message at most once, so that eight      *)
(* turns of the loop, four in a message of numbers, read all there is, and *)
(* a zero tag where a cut has left zeros behind the fields.                *)
(***************************************************************************)
EXTENDS ShooterProtocol

\* What a parse has come to: the message so far, the bytes not read yet, and
\* whether it goes on.
Reading(m, bytes) == [msg |-> m, rest |-> bytes, ok |-> TRUE]
Failed(m)         == [msg |-> m, rest |-> <<>>, ok |-> FALSE]
Done(s)           == s.rest = <<>> \/ ~s.ok

\* The tag is that of the field whose number it holds.
Knows(type, tag) ==
    tag \div 8 \in 1 .. Len(Fields[type]) /\ tag = Tag(Fields[type][tag \div 8])

\* A field is set.  A zero is what an implicit field has when it is not set.
Set(m, f, v) ==
    LET others == DOMAIN m \ {f.name}
        names  == IF f.implicit /\ v = Default(f.type) THEN others ELSE others \cup {f.name}
    IN  [name \in names |-> IF name = f.name THEN v ELSE m[name]]

NumberLength(type, bytes) == IF type = "float" THEN 4 ELSE VarintParse(bytes).length

NumberValue(type, bytes) ==
    IF type = "float" THEN SubSeq(bytes, 1, 4) ELSE VarintParse(bytes).value

Drop(bytes, n) == SubSeq(bytes, n + 1, Len(bytes))

\* A number takes the place of what the field had.
ReadNumber(s, f, bytes) ==
    LET end == NumberLength(f.type, bytes)
    IN  IF end > Len(bytes) THEN Failed(s.msg)
        ELSE Reading(Set(s.msg, f, NumberValue(f.type, bytes)), Drop(bytes, end))

\* One turn of the loop of _InternalParse, and the loop, of a message of numbers.
FlatTurn(type, s) ==
    IF Done(s) THEN s
    ELSE IF ~Knows(type, Head(s.rest)) THEN Failed(s.msg)
    ELSE ReadNumber(s, Fields[type][Head(s.rest) \div 8], Tail(s.rest))

FlatParse(type, s) ==
    LET after[n \in 0 .. 4] == IF n = 0 THEN s ELSE FlatTurn(type, after[n - 1])
    IN  after[4]

\* A message in a message is read into what the field has already.
ParseMessage(s, f, bytes) ==
    LET size  == VarintParse(bytes)
        end   == size.length + size.value
        inner == FlatParse(f.type, Reading(Get(s.msg, f.name, f.type),
                                           SubSeq(bytes, size.length + 1, end)))
        next  == Set(s.msg, f, inner.msg)
    IN  IF end > Len(bytes) THEN Failed(s.msg)
        ELSE IF inner.ok THEN Reading(next, Drop(bytes, end))
        ELSE Failed(next)

Turn(type, s) ==
    LET f == Fields[type][Head(s.rest) \div 8]
    IN  IF Done(s) THEN s
        ELSE IF ~Knows(type, Head(s.rest)) THEN Failed(s.msg)
        ELSE IF IsMessage(f.type) THEN ParseMessage(s, f, Tail(s.rest))
        ELSE ReadNumber(s, f, Tail(s.rest))

Parse(type, s) ==
    LET after[n \in 0 .. 8] == IF n = 0 THEN s ELSE Turn(type, after[n - 1])
    IN  after[8]

\* The handlers keep what ParseFromArray has put together, whatever it returns.
ParseFromArray(type, bytes) == Parse(type, Reading(Empty, bytes)).msg
=============================================================================
