---------------------------- MODULE MessageCodec ----------------------------
(***************************************************************************)
(* src/libft8/ft8/message.c: a text becomes a payload of 77 bits at the    *)
(* transmitter and a text again at the receiver.                           *)
(*                                                                         *)
(* A payload is the set of the positions of its one bits, 0 being the      *)
(* first on the air.  Numbers wider than TLC's integers (n58, b71) are     *)
(* sequences of bytes, the most significant first, as b71 is in the code.  *)
(* The receiver's table of callsigns is that of CallsignHash; the daemon   *)
(* encodes with no table (ft8.cpp passes NULL).                            *)
(***************************************************************************)
EXTENDS Ft8Text, CallsignHash

MAX22 == 4194304
NTOKENS == 2063592
MAXGRID4 == 32400

-----------------------------------------------------------------------------
(* Wide numbers and fields *)

Zero(size) == [i \in 1 .. size |-> 0]

(* bytes * m + a, in the width of bytes *)
MulAdd(bytes, m, a) ==
    LET n == Len(bytes)
        v[i \in 1 .. n + 1] ==
            IF i = n + 1 THEN 256 * a ELSE bytes[i] * m + v[i + 1] \div 256
    IN [i \in 1 .. n |-> v[i] % 256]

DivMod(bytes, d) ==
    LET n == Len(bytes)
        rem[i \in 0 .. n] == IF i = 0 THEN 0 ELSE (256 * rem[i - 1] + bytes[i]) % d
    IN [quotient  |-> [i \in 1 .. n |-> (256 * rem[i - 1] + bytes[i]) \div d],
        remainder |-> rem[n]]

(* The figures of a number in base d, the most significant first *)
Figures(bytes, d, count) ==
    LET left[i \in 0 .. count] ==
            IF i = 0 THEN bytes ELSE DivMod(left[i - 1], d).quotient
    IN [i \in 1 .. count |-> DivMod(left[count - i], d).remainder]

(* A number in the width bits from position first on, and back *)
Field(n, first, width) ==
    {first + width - 1 - i : i \in {j \in 0 .. width - 1 : (n \div 2^j) % 2 = 1}}

Value(word, first, width) ==
    MapThenSumSet(LAMBDA p : 2^(first + width - 1 - p), word \cap (first .. first + width - 1))

(* The last width bits of some bytes, and back *)
BytesField(bytes, first, width) ==
    LET bits == UNION {Field(bytes[i], 8 * (i - 1), 8) : i \in DOMAIN bytes}
        skip == 8 * Len(bytes) - width
    IN {first + b - skip : b \in {p \in bits : p >= skip}}

BytesValue(word, first, width, size) ==
    LET skip == 8 * size - width
        bits == {p - first + skip : p \in word \cap (first .. first + width - 1)}
    IN [i \in 1 .. size |-> Value(bits, 8 * (i - 1), 8)]

-----------------------------------------------------------------------------
(* Callsigns *)

(* The number of a call in base 38, and its hash: the top 22 bits of the   *)
(* product with 47055833459 in 64 bits.  A call of fewer than 11 letters   *)
(* is hashed as if spaces followed.                                        *)
Base38(call, size) ==
    FoldLeft(LAMBDA n, c : MulAdd(n, 38, nchar(c, ALPHANUM_SPACE_SLASH)), Zero(size),
             Chars(call))

HashOf(call) ==
    LET factor == <<0, 0, 0, 10, 244, 191, 9, 115>>
        spaces == [i \in 1 .. 11 - Len(call) |-> " "]
        column(n58, i) == MapThenSumSet(LAMBDA j : n58[j] * factor[8 + i - j], i .. 8)
        v[n58 \in [1 .. 8 -> 0 .. 255], i \in 1 .. 9] ==
            IF i = 9 THEN 0 ELSE column(n58, i) + v[n58, i + 1] \div 256
        product[n58 \in [1 .. 8 -> 0 .. 255]] == [i \in 1 .. 3 |-> v[n58, i] % 256]
        p == product[Base38(call \o Join(spaces), 8)]
    IN (65536 * p[1] + 256 * p[2] + p[3]) \div 4

(* save_callsign() refuses a call with a character it cannot hash. *)
Hashable(call) == \A i \in 1 .. Min({Len(call), 11}) : In(Ch(call, i), ALPHANUM_SPACE_SLASH)

(* A standard call has a digit in its second or third place; two prefixes  *)
(* that have not are sent as others.  The six characters, or "":           *)
Aligned(call, length) ==
    LET pad(s) == s \o SubSeq("      ", 1, 6 - Len(s))
        base   == SubSeq(call, 1, length)
    IN CASE starts_with(call, "3DA0") /\ length \in 5 .. 7 -> pad("3D0" \o From(base, 5))
         [] starts_with(call, "3X") /\ is_letter(Ch(call, 3)) /\ length <= 7 ->
              pad("Q" \o From(base, 3))
         [] is_digit(Ch(call, 3)) /\ length <= 6 -> pad(base)
         [] ~is_digit(Ch(call, 3)) /\ is_digit(Ch(call, 2)) /\ length <= 5 ->
              pad(" " \o base)
         [] OTHER -> pad("")

CallAlphabets ==
    <<ALPHANUM_SPACE, ALPHANUM, NUMERIC, LETTERS_SPACE, LETTERS_SPACE, LETTERS_SPACE>>

pack_basecall(call, length) ==
    LET places == [i \in 1 .. 6 |-> nchar(Ch(Aligned(call, length), i), CallAlphabets[i])]
    IN IF length <= 2 \/ \E i \in 1 .. 6 : places[i] < 0 THEN -1
       ELSE FoldLeft(LAMBDA n, i : Len(CallAlphabets[i]) * n + places[i], 0,
                     [i \in 1 .. 6 |-> i])

(* A special word, a standard call with the flag of its suffix, or the     *)
(* hash of any other call; n28 = -1: none of these.                        *)
pack28(call) ==
    LET length == Len(call)
        suffix == ends_with(call, "/P") \/ ends_with(call, "/R")
        base   == pack_basecall(call, IF suffix THEN length - 2 ELSE length)
        ip     == IF suffix THEN 1 ELSE 0
    IN CASE call = "DE"  -> [n28 |-> 0, ip |-> 0]
         [] call = "QRZ" -> [n28 |-> 1, ip |-> 0]
         [] call = "CQ"  -> [n28 |-> 2, ip |-> 0]
         [] OTHER ->
              IF ~Hashable(call) \/ (starts_with(call, "CQ_") /\ length < 8)
              THEN [n28 |-> -1, ip |-> 0]
              ELSE IF base >= 0 THEN [n28 |-> NTOKENS + MAX22 + base, ip |-> ip]
              ELSE IF length \in 3 .. 11 THEN [n28 |-> NTOKENS + HashOf(call), ip |-> 0]
              ELSE [n28 |-> -1, ip |-> 0]

SaveCallsign(table, callsign) ==
    LET save[call \in STRING] == IF Hashable(call) THEN HashtableAdd(table, call) ELSE table
    IN save[callsign]
LookupCallsign(table, width, hash) == "<" \o HashtableLookup(table, width, hash) \o ">"

Unreadable(table) == [ok |-> FALSE, text |-> "", table |-> table]
Read(text, table) == [ok |-> TRUE, text |-> text, table |-> table]

(* "CQ 123", "CQ DX": n28 is below NTOKENS *)
SpecialWord(n28, table) ==
    LET letter(i) == charn(((n28 - 1003) \div 27^(4 - i)) % 27, LETTERS_SPACE)
    IN CASE n28 = 0 -> Read("DE", table)
         [] n28 = 1 -> Read("QRZ", table)
         [] n28 = 2 -> Read("CQ", table)
         [] n28 \in 3 .. 1002 -> Read("CQ " \o int_to_dd(n28 - 3, 3, FALSE), table)
         [] n28 \in 1003 .. 532443 ->
              LET word == [i \in 1 .. 4 |-> letter(i)]
                  inked == {i \in 1 .. 4 : word[i] # " "}
              IN Read("CQ " \o (IF inked = {} THEN ""
                                ELSE Join(SubSeq(word, Min(inked), 4))), table)
         [] OTHER -> Unreadable(table)

(* The six characters of a standard call, and the call they stand for *)
StandardCall(n) ==
    LET weight(i) == FoldLeft(LAMBDA w, j : w * Len(CallAlphabets[j]), 1,
                              [j \in 1 .. 6 - i |-> i + j])
        c6 == Join([i \in 1 .. 6 |->
                 charn((n \div weight(i)) % Len(CallAlphabets[i]), CallAlphabets[i])])
    IN IF starts_with(c6, "3D0") /\ Ch(c6, 4) # " " THEN "3DA0" \o trim(From(c6, 4))
       ELSE IF Ch(c6, 1) = "Q" /\ is_letter(Ch(c6, 2)) THEN "3X" \o trim(From(c6, 2))
       ELSE trim(c6)

(* Mutation: the call is saved without its suffix. *)
unpack28_SaveBare(table, n28, ip, i3) ==
    LET base == StandardCall(n28 - NTOKENS - MAX22)
        call == base \o (IF ip = 0 THEN "" ELSE IF i3 = 1 THEN "/R" ELSE "/P")
    IN IF n28 < NTOKENS THEN SpecialWord(n28, table)
       ELSE IF n28 < NTOKENS + MAX22
            THEN Read(LookupCallsign(table, 22, n28 - NTOKENS), table)
       ELSE IF Len(base) < 3 \/ (ip # 0 /\ i3 \notin 1 .. 2) THEN Unreadable(table)
       ELSE Read(call, SaveCallsign(table, base))

(* The call is saved with its suffix. *)
unpack28(table, n28, ip, i3) ==
    LET base == StandardCall(n28 - NTOKENS - MAX22)
        call == base \o (IF ip = 0 THEN "" ELSE IF i3 = 1 THEN "/R" ELSE "/P")
    IN IF n28 < NTOKENS THEN SpecialWord(n28, table)
       ELSE IF n28 < NTOKENS + MAX22
            THEN Read(LookupCallsign(table, 22, n28 - NTOKENS), table)
       ELSE IF Len(base) < 3 \/ (ip # 0 /\ i3 \notin 1 .. 2) THEN Unreadable(table)
       ELSE Read(call, SaveCallsign(table, call))

(* A call of up to 11 characters in clear *)
Bare(call) == IF Ch(call, 1) = "<" THEN From(call, 2) ELSE call
Cut58(call) ==
    LET stops == {i \in 1 .. Len(Bare(call)) : i > 11 \/ Ch(Bare(call), i) = "<"}
    IN IF stops = {} THEN Bare(call) ELSE SubSeq(Bare(call), 1, Min(stops) - 1)
Packable58(call) == Hashable(Cut58(call))
pack58(call) == Base38(Cut58(call), 8)

unpack58(table, n58) ==
    LET figures == Figures(n58, 38, 11)
        call    == trim(Join([i \in 1 .. 11 |-> charn(figures[i], ALPHANUM_SPACE_SLASH)]))
    IN Read(call, IF Len(call) >= 3 THEN SaveCallsign(table, call) ELSE table)

-----------------------------------------------------------------------------
(* The third word: a locator, a report or the end of a contact.  The top   *)
(* bit says that the report was received ("R").                            *)

Closings == <<"", "RRR", "RR73", "73">>

packgrid(extra) ==
    LET closing == {i \in 1 .. 4 : Closings[i] = extra}
        letter(i) == nchar(Ch(extra, i), ALPHANUM) - 10
        digit(i) == nchar(Ch(extra, i), NUMERIC)
        grid == in_A_to_R(Ch(extra, 1)) /\ in_A_to_R(Ch(extra, 2))
                /\ is_digit(Ch(extra, 3)) /\ is_digit(Ch(extra, 4))
        report(s) == (MAXGRID4 + 35 + dd_to_int(s, 3)) % 2^16
    IN IF closing # {} THEN MAXGRID4 + Min(closing)
       ELSE IF grid THEN 10 * (10 * (18 * letter(1) + letter(2)) + digit(3)) + digit(4)
       ELSE IF Ch(extra, 1) = "R"
            THEN LET n == report(From(extra, 2)) IN IF n < 2^15 THEN n + 2^15 ELSE n
       ELSE report(extra)

unpackgrid(igrid4, ir) ==
    LET figure(n, k) == charn(n % k, IF k = 10 THEN NUMERIC ELSE From(ALPHANUM, 11))
        irpt == igrid4 - MAXGRID4
        received == IF ir > 0 THEN "R" ELSE ""
    IN IF igrid4 <= MAXGRID4
       THEN (IF ir > 0 THEN "R " ELSE "")
            \o figure(igrid4 \div 1800, 18) \o figure(igrid4 \div 100, 18)
            \o figure(igrid4 \div 10, 10) \o figure(igrid4, 10)
       ELSE IF irpt \in 1 .. 4 THEN Closings[irpt]
       ELSE received \o int_to_dd(irpt - 35, 2, TRUE)

-----------------------------------------------------------------------------
(* Payloads: [rc, payload, saved], saved being the calls handed to the     *)
(* table on the way, also by an attempt that fails                         *)

Encoded(payload, saved) == [rc |-> "ok", payload |-> payload, saved |-> saved]
NotEncoded(why, saved) == [rc |-> why, payload |-> {}, saved |-> saved]

encode_std(to, de, extra) ==
    LET portable == ends_with(to, "/P") \/ ends_with(de, "/P")
        rover == ends_with(to, "/R") \/ ends_with(de, "/R")
        ipa(a) == IF ends_with(to, "/R") \/ ends_with(to, "/P") THEN 1 ELSE a.ip
        saved(a, b) == (IF a.n28 > 2 THEN <<to>> ELSE << >>)
                       \o (IF b.n28 > 2 THEN <<de>> ELSE << >>)
        packed(a, b, calls) ==
            IF a.n28 < 0 THEN NotEncoded("callsign1", calls)
            ELSE IF b.n28 < 0 THEN NotEncoded("callsign2", calls)
            ELSE IF portable /\ rover THEN NotEncoded("suffix", calls)
            ELSE Encoded(Field(a.n28, 0, 28) \cup Field(ipa(a), 28, 1)
                         \cup Field(b.n28, 29, 28) \cup Field(b.ip, 57, 1)
                         \cup Field(packgrid(extra), 58, 16)
                         \cup Field(IF portable THEN 2 ELSE 1, 74, 3), calls)
        both(a, b) == packed(a, b, saved(a, b))
    IN both(pack28(to), pack28(de))

(* One call in clear, of the other a hash of 12 bits.  The flip is decided *)
(* by the length of the wrong call.                                        *)
encode_nonstd(to, de, extra) ==
    LET icq    == to = "CQ"
        iflip  == ~icq /\ Ch(de, 1) = "<" /\ Ch(de, Len(to)) = ">"
        call12 == IF iflip THEN de ELSE to
        call58 == IF iflip THEN to ELSE de
        saved  == IF icq THEN << >> ELSE <<call12>>
        nrpt   == {i \in 2 .. 4 : ~icq /\ Closings[i] = extra}
    IN IF ~icq /\ Len(to) < 3 THEN NotEncoded("callsign1", << >>)
       ELSE IF Len(de) < 3 THEN NotEncoded("callsign2", << >>)
       ELSE IF ~icq /\ ~Hashable(call12) THEN NotEncoded("callsign1", << >>)
       ELSE IF ~Packable58(call58) THEN NotEncoded("callsign2", saved)
       ELSE Encoded(Field(IF icq THEN 0 ELSE HashOf(call12) \div 2^10, 0, 12)
                    \cup BytesField(pack58(call58), 12, 58)
                    \cup Field(IF iflip THEN 1 ELSE 0, 70, 1)
                    \cup Field(IF nrpt = {} THEN 0 ELSE Min(nrpt) - 1, 71, 2)
                    \cup Field(IF icq THEN 1 ELSE 0, 73, 1)
                    \cup Field(4, 74, 3), Append(saved, Cut58(call58)))

(* The last 13 characters, to the right of their field; an unknown one     *)
(* becomes a space.                                                        *)
encode_free(text) ==
    LET c13 == SubSeq("             ", 1, 13 - Len(text))
               \o From(text, IF Len(text) > 13 THEN Len(text) - 12 ELSE 1)
        place(c) == IF In(to_upper(c), FULL) THEN nchar(to_upper(c), FULL) ELSE 0
        b71 == FoldLeft(LAMBDA n, c : MulAdd(n, 42, place(c)), Zero(9), Chars(c13))
    IN Encoded(BytesField(b71, 0, 71) \cup Field(b71[1] \div 128, 72, 1), << >>)

(* A word too long for its buffer is an error, not free text. *)
ftx_message_encode(text) ==
    LET first(std, nonstd) ==
            IF std.rc = "ok" THEN std
            ELSE [(IF nonstd.rc = "ok" THEN nonstd ELSE encode_free(text))
                    EXCEPT !.saved = std.saved \o nonstd.saved]
        encode(to, de, extra) ==
            IF Len(to) = 12 THEN NotEncoded("callsign1", << >>)
            ELSE IF Len(de) = 12 THEN NotEncoded("callsign2", << >>)
            ELSE IF Len(extra) = 20 THEN NotEncoded("grid", << >>)
            ELSE first(encode_std(to, de, extra), encode_nonstd(to, de, extra))
        third(to, de) == encode(to.token, de.token, copy_token(20, de.rest).token)
        second(to) == third(to, copy_token(12, to.rest))
    IN second(copy_token(12, text))

-----------------------------------------------------------------------------
(* and back: [ok, text, table] *)

get_i3(payload) == Value(payload, 74, 3)
get_n3(payload) == Value(payload, 71, 3)

get_type(payload) ==
    CASE get_i3(payload) \in 1 .. 2 -> "standard"
      [] get_i3(payload) = 4 -> "nonstd_call"
      [] get_i3(payload) = 0 /\ get_n3(payload) = 0 -> "free_text"
      [] get_i3(payload) = 0 /\ get_n3(payload) = 5 -> "telemetry"
      [] OTHER -> "not handled"

decode_std(payload, table) ==
    LET i3    == get_i3(payload)
        extra == unpackgrid(Value(payload, 59, 15), Value(payload, 58, 1))
        joined(to, de) == IF ~to.ok THEN to ELSE IF ~de.ok THEN de
                          ELSE Read(to.text \o " " \o de.text \o " " \o extra, de.table)
        second(to) == joined(to, unpack28(to.table, Value(payload, 29, 28),
                                          Value(payload, 57, 1), i3))
    IN second(unpack28(table, Value(payload, 0, 28), Value(payload, 28, 1), i3))

decode_nonstd(payload, table) ==
    LET iflip  == 70 \in payload
        icq    == 73 \in payload
        extra  == IF icq THEN "" ELSE Closings[Value(payload, 71, 2) + 1]
        joined(clear, hashed) ==
            LET to == IF icq THEN "CQ" ELSE IF iflip THEN clear ELSE hashed
                de == IF iflip THEN hashed ELSE clear
            IN to \o " " \o de \o " " \o extra
        read(clear) ==
            Read(joined(clear.text, LookupCallsign(clear.table, 12, Value(payload, 0, 12))),
                 clear.table)
    IN read(unpack58(table, BytesValue(payload, 12, 58, 8)))

telemetry(payload) == BytesValue(payload, 0, 71, 9)

decode_free(payload) ==
    LET figures == Figures(telemetry(payload), 42, 13)
    IN trim(Join([i \in 1 .. 13 |-> charn(figures[i], FULL)]))

telemetry_hex(payload) ==
    Join([i \in 1 .. 9 |-> LET b == telemetry(payload)[i]
                           IN charn(b \div 16, ALPHANUM) \o charn(b % 16, ALPHANUM)])

ftx_message_decode(payload, table) ==
    LET type == get_type(payload)
    IN CASE type = "standard"    -> decode_std(payload, table)
         [] type = "nonstd_call" -> decode_nonstd(payload, table)
         [] type = "free_text"   -> Read(decode_free(payload), table)
         [] type = "telemetry"   -> Read(telemetry_hex(payload), table)
         [] OTHER                -> Unreadable(table)
=============================================================================
