--------------------------- MODULE MCFt8Reception ---------------------------
(* An instance of Ft8Reception for TLC: a waterfall of 9 bins, and a table *)
(* of four calls.                                                          *)
EXTENDS Ft8Reception

At(time_offset, time_sub, freq_offset, freq_sub) ==
    [time_offset |-> time_offset, time_sub |-> time_sub,
     freq_offset |-> freq_offset, freq_sub |-> freq_sub]

Anywhere == At(3, 0, 1, 0)
Whole == << >>      \* no symbol is damaged

Sent(by, text, words, calls, hashed) ==
    [by |-> by, text |-> text, words |-> words, calls |-> calls, hashed |-> hashed,
     place |-> Anywhere, faded |-> Whole]

(* A text that is printed word for word *)
Clear(text, words, calls) == Sent("daemon", text, words, calls, {})
Cq == Clear("CQ K1JT FN20QI", <<"CQ", "K1JT", "FN20">>, {"K1JT"})

(* Locators, reports at both ends of their range, every closing, suffixes, *)
(* the prefixes sent as others, and free text short and long               *)
Texts ==
    {Cq,
     Clear("K1JT SA0PRF -24", <<"K1JT", "SA0PRF", "-24">>, {"K1JT", "SA0PRF"}),
     Clear("K1JT SA0PRF R+49", <<"K1JT", "SA0PRF", "R+49">>, {"K1JT", "SA0PRF"}),
     Clear("K1JT SA0PRF RRR", <<"K1JT", "SA0PRF", "RRR">>, {"K1JT", "SA0PRF"}),
     Clear("K1JT SA0PRF RR73", <<"K1JT", "SA0PRF", "RR73">>, {"K1JT", "SA0PRF"}),
     Clear("K1JT SA0PRF", <<"K1JT", "SA0PRF">>, {"K1JT", "SA0PRF"}),
     Clear("3DA0WZ 3XY1T R-01", <<"3DA0WZ", "3XY1T", "R-01">>, {"3DA0WZ", "3XY1T"}),
     Clear("K1JT/P SA0PRF/P AA00", <<"K1JT/P", "SA0PRF/P", "AA00">>, {"K1JT/P", "SA0PRF/P"}),
     Clear("K1JT SA0PRF/R RR99", <<"K1JT", "SA0PRF/R", "RR99">>, {"K1JT", "SA0PRF/R"}),
     Clear("TNX 73 GL", <<"TNX", "73", "GL">>, {}),
     Clear("5W ANT", <<"5W", "ANT">>, {}),
     Clear("CQ DX TEST +-./?", <<"DX", "TEST", "+-./?">>, {}),
     Clear("TOOLONGACALL K1JT 73", << >>, {})}

(* Calls that are sent as hashes: unknown, told in clear by an earlier     *)
(* message, told by the own generator, and a second message that only      *)
(* repeats the first one's suffix                                          *)
Nonstandard == Sent("daemon", "CQ A6TEST JO99", <<"CQ", "A6TEST", "JO99">>, {"A6TEST"}, {2})
InClear == Sent("other", "", <<"CQ", "PJ4/K1ABC">>, {"PJ4/K1ABC"}, {})
ToHashed == Sent("daemon", "PJ4/K1ABC K1JT +00", <<"PJ4/K1ABC", "K1JT", "+00">>,
                 {"PJ4/K1ABC", "K1JT"}, {1})
Mixed == Sent("daemon", "K1JT/P SA0PRF/R RR73", <<"K1JT/P", "SA0PRF/R", "RR73">>,
              {"K1JT/P", "SA0PRF/R"}, {1})
Portable == Clear("CQ K1JT/P FN20", <<"CQ", "K1JT/P", "FN20">>, {"K1JT/P"})
Dialogues ==
    {<<Nonstandard>>, <<[Nonstandard EXCEPT !.by = "self"]>>,
     <<ToHashed, InClear, ToHashed>>, <<Mixed>>, <<Portable, Mixed>>}

(* Every half bin and half symbol at the corners, and the offsets at which *)
(* all data symbols are just inside the capture                            *)
Moved == {<<[Cq EXCEPT !.place = p]>> :
            p \in {At(t, 0, 0, s) : t \in {-7, 19}, s \in 0 .. 1}
                  \cup {At(0, 1, 0, 1), At(13, 1, 1, 0), At(14, 0, 0, 1), At(-1, 1, 0, 0)}}

(* Symbols received as other tones, a fade at the start, and a signal whose *)
(* first data symbols came before the capture                              *)
Wrong(symbols) == [k \in symbols |-> (k * 3) % 8]
Lost(symbols) == [k \in symbols |-> -1]
Damaged == {<<[Cq EXCEPT !.faded = Wrong({20, 21, 50})]>>, <<[Cq EXCEPT !.faded = Lost(0 .. 30)]>>,
            <<[Cq EXCEPT !.faded = Lost(0 .. 78)]>>,
            <<[Cq EXCEPT !.place = At(-10, 0, 0, 0), !.faded = Lost({0})]>>}

(* More candidates than places and fewer, with ties, in every order, and   *)
(* some below the least score; a heap of five is the least in which        *)
(* heapify_down() goes down two levels.                                    *)
Crowds == {<<[scores |-> s]>> : s \in [1 .. 7 -> 10 .. 12] \cup [1 .. 2 -> 9 .. 11]}

MCPlans == {<<t>> : t \in Texts} \cup Dialogues \cup Moved \cup Damaged \cup Crowds

MCCalls == {"K1JT", "SA0PRF", "A6TEST", "PJ4/K1ABC"}
(* Codewords that nearly are the one sent, with their checksums wrong; two *)
(* others whose checksums agree, one that is unpacked to another message   *)
(* of the same type and one that is of no type decode() handles; and words *)
(* that are no codewords, with one parity bit wrong and with many bits.    *)
MCErrors ==
    {encode174(b) : b \in {{0}, {76, 77}, 70 .. 80, {5, 9, 15}, {80, 90}}}
    \cup {encode174(ftx_add_crc(p)) : p \in {{73}, {74, 75, 76}}}
    \cup {{130}, 40 .. 99}
=============================================================================
