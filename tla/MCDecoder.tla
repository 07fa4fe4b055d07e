------------------------------ MODULE MCDecoder ------------------------------
(* An instance of Decoder for TLC: the station is SA0PRF. *)
EXTENDS Decoder

MCCalls == {"K1ABC", "A6TEST", "W9XYZ", "SA0PRF"}

(* In a table of three, all calls but one start their probe at the same    *)
(* place; two of them share their 12-bit hash.                             *)
MCN22(c) ==
    CASE c = "K1ABC" -> 3 [] c = "A6TEST" -> 6 [] c = "W9XYZ" -> 1026 [] OTHER -> 2050

Plain(w) == [kind |-> "word", word |-> w]
Call(c) == [kind |-> "call", word |-> c]
Hashed(width, c) ==
    [kind |-> IF width = 22 THEN "hash22" ELSE "hash12", hash |-> Reduced(width, MCN22(c))]
Message(fields, ok, hash) == [fields |-> fields, ok |-> ok, hash |-> hash]

CqMessage     == Message(<<Plain("CQ"), Call("K1ABC")>>, TRUE, 0)
CqDxMessage   == Message(<<Plain("CQ"), Plain("DX"), Call("A6TEST")>>, TRUE, 2)
ReplyToUs     == Message(<<Call("SA0PRF"), Hashed(22, "A6TEST"), Plain("RR73")>>, TRUE, 2)
HashedReply   == Message(<<Hashed(12, "SA0PRF"), Call("W9XYZ"), Plain("73")>>, TRUE, 1)
Garbage       == Message(<<Call("W9XYZ")>>, FALSE, 1)
BareCq        == Message(<<Plain("CQ")>>, TRUE, 0)

MCCandidates ==
    {[msg |-> m, freq |-> 1000] : m \in {CqMessage, CqDxMessage, ReplyToUs, HashedReply,
                                         Garbage, BareCq}}
    \cup {[msg |-> HashedReply, freq |-> 1051]}

MCContacts == {[peer |-> "K1ABC", freq |-> 1001, slot |-> "odd"],
               [peer |-> "A6TEST", freq |-> 950, slot |-> "even"]}
=============================================================================
