----------------------------- MODULE Ft8Signal ------------------------------
(***************************************************************************)
(* From a payload to tones and back to bits: crc.c, encode.c, ldpc.c and   *)
(* decode.c of src/libft8/ft8, and the array of magnitudes that            *)
(* ft8_subsystem() of src/rtlsdr_ft8d.cpp fills for them.                  *)
(*                                                                         *)
(* A word of bits is the set of the positions of its ones, 0 being the     *)
(* first on the air; a remainder of the CRC is the set of its exponents;   *)
(* SymDiff is the exclusive or of two words.                               *)
(* Symbols, tones, blocks and bins count from 0, as in the code.           *)
(***************************************************************************)
EXTENDS Integers, SequencesExt, Ft8Tables

CONSTANTS
    NUM_BIN,          \* bins of the waterfall, one for each tone of 6.25 Hz
    High, Mid, Low    \* magnitudes: of a tone, half a cell beside it, of noise

ASSUME SignalAssumption ==
    /\ NUM_BIN \in Nat /\ NUM_BIN >= 8
    /\ {High, Mid, Low} \subseteq 0 .. 255 /\ Low < Mid /\ Mid < High

-----------------------------------------------------------------------------
(* The checksum of 14 bits *)

FT8_CRC_POLYNOMIAL == {13, 10, 9, 8, 6, 4, 2, 1, 0}

(* A byte is brought in every eighth bit; the remainder is 16 bits wide. *)
CrcStep(message, remainder, idx_bit) ==
    LET byte == IF idx_bit % 8 = 0
                THEN {13 - j : j \in {i \in 0 .. 7 : idx_bit + i \in message}} ELSE {}
        r    == SymDiff(remainder, byte)
        up   == {e + 1 : e \in r \ {15}}
    IN IF 13 \in r THEN SymDiff(up, FT8_CRC_POLYNOMIAL) ELSE up

ftx_compute_crc(message, num_bits) ==
    LET divide[i \in 0 .. num_bits, remainder \in SUBSET (0 .. 15)] ==
            IF i = num_bits THEN remainder ELSE divide[i + 1, CrcStep(message, remainder, i)]
    IN divide[0, {}] \cap (0 .. 13)

Payload(a91) == a91 \cap (0 .. 76)
ftx_extract_crc(a91) == {90 - p : p \in a91 \cap (77 .. 90)}
ftx_add_crc(payload) ==
    payload \cup {90 - e : e \in ftx_compute_crc(payload, 82)}

-----------------------------------------------------------------------------
(* The code (174, 91) *)

LOCAL Row(i) ==
    {8 * (jb[1] - 1) + 7 - jb[2] : jb \in
        {x \in (1 .. 12) \X (0 .. 7) : (kFTX_LDPC_generator[i][x[1]] \div 2^x[2]) % 2 = 1}}
LOCAL Rows == [i \in 1 .. 83 |-> Row(i)]

encode174(a91) ==
    a91 \cup {90 + i : i \in {j \in 1 .. 83 : Cardinality(a91 \cap Rows[j]) % 2 = 1}}

(* How many parity checks fail; the tables count bits from 1. *)
LOCAL Checks == [m \in 1 .. 83 |-> {n - 1 : n \in BitsOf(m)}]
ldpc_check(codeword) ==
    Cardinality({m \in 1 .. 83 : Cardinality(codeword \cap Checks[m]) % 2 = 1})

-----------------------------------------------------------------------------
(* Tones: S7 D29 S7 D29 S7 *)

FT8_NN == 79
FT8_ND == 58
FT8_SYNC_OFFSET == 36

SymbolOf(k) == k + (IF k < 29 THEN 7 ELSE 14)

ft8_encode(payload) ==
    LET codeword == encode174(ftx_add_crc(payload))
        bit(n)   == IF n \in codeword THEN 1 ELSE 0
        bits3(k) == 4 * bit(3 * k) + 2 * bit(3 * k + 1) + bit(3 * k + 2)
    IN [i \in 0 .. FT8_NN - 1 |->
          IF i % FT8_SYNC_OFFSET < 7 THEN kFT8_Costas_pattern[i % FT8_SYNC_OFFSET]
          ELSE kFT8_Gray_map[bits3(i - (IF i < FT8_SYNC_OFFSET THEN 7 ELSE 14))]]

-----------------------------------------------------------------------------
(* The waterfall: for every block, half block, half bin and bin a byte *)

K_TIME_OSR == 2
K_FREQ_OSR == 2
NUM_BLOCKS == 92
block_stride == K_TIME_OSR * K_FREQ_OSR * NUM_BIN

(* The samples the transforms read, at the two rates the program is built  *)
(* for: the last one ends inside the buffer.                               *)
ASSUME WindowsInsideBuffer ==
    \A rate \in {3200, 6400} :
        LET block  == (rate * 4) \div 25
            window == block * K_FREQ_OSR
        IN /\ NUM_BLOCKS = (15 * rate - window + block \div K_TIME_OSR) \div block
           /\ (NUM_BLOCKS - 1) * block + (K_TIME_OSR - 1) * (block \div K_TIME_OSR) + window
                <= 15 * rate

(* The strength of a signal of some tones half symbol h and half bin f;    *)
(* its place is where its first symbol is strongest.  A tone below 0 is a  *)
(* symbol lost in the noise.                                               *)
Strength(tones, place, h, f) ==
    LET dh == h - (K_TIME_OSR * place.time_offset + place.time_sub)
        df(k) == f - (K_FREQ_OSR * (place.freq_offset + tones[k]) + place.freq_sub)
        near == {k \in {dh \div 2, (dh + 1) \div 2} \cap DOMAIN tones :
                   tones[k] >= 0 /\ df(k) \in -1 .. 1}
    IN IF near = {} THEN Low
       ELSE IF dh % 2 = 0 /\ \E k \in near : df(k) = 0 THEN High ELSE Mid

Waterfall(tones, place) ==
    [p \in 0 .. NUM_BLOCKS * block_stride - 1 |->
        LET pos      == p % NUM_BIN
            freq_sub == (p \div NUM_BIN) % K_FREQ_OSR
            time_sub == (p \div (NUM_BIN * K_FREQ_OSR)) % K_TIME_OSR
            block    == p \div block_stride
        IN Strength(tones, place, block * K_TIME_OSR + time_sub, pos * K_FREQ_OSR + freq_sub)]

-----------------------------------------------------------------------------
(* Synchronisation and likelihoods: mag is the waterfall, cand a place *)

get_cand_mag(cand) ==
    ((cand.time_offset * K_TIME_OSR + cand.time_sub) * K_FREQ_OSR + cand.freq_sub) * NUM_BIN
        + cand.freq_offset

(* The neighbours in frequency and time the tone of a sync symbol is       *)
(* compared with: steps from its place in the waterfall                    *)
Neighbours(k, sm, block_abs) ==
    (IF sm > 0 THEN {-1} ELSE {}) \cup (IF sm < 7 THEN {1} ELSE {})
    \cup (IF k > 0 /\ block_abs > 0 THEN {-block_stride} ELSE {})
    \cup (IF k + 1 < 7 /\ block_abs + 1 < NUM_BLOCKS THEN {block_stride} ELSE {})

(* C divides towards zero. *)
Quotient(n, d) == IF n >= 0 THEN n \div d ELSE -((-n) \div d)

(* Only the symbols inside the capture are averaged. *)
ft8_sync_score(mag, cand) ==
    LET block_abs(x) == cand.time_offset + FT8_SYNC_OFFSET * x[1] + x[2]
        inside  == {x \in (0 .. 2) \X (0 .. 6) : block_abs(x) \in 0 .. NUM_BLOCKS - 1}
        sm(x)   == kFT8_Costas_pattern[x[2]]
        at(x)   == get_cand_mag(cand) + (FT8_SYNC_OFFSET * x[1] + x[2]) * block_stride + sm(x)
        near(x) == Neighbours(x[2], sm(x), block_abs(x))
        differences(x) == [d \in near(x) |-> mag[at(x)] - mag[at(x) + d]]
        score       == SumFunction([x \in inside |-> SumFunction(differences(x))])
        num_average == SumFunction([x \in inside |-> Cardinality(near(x))])
    IN IF num_average = 0 THEN 0 ELSE Quotient(score, num_average)

(* The bits of a symbol that look like ones: the strongest tone with the   *)
(* bit is stronger than the strongest without                              *)
ft8_extract_symbol(mag, at) ==
    LET s2(j) == mag[at + kFT8_Gray_map[j]]
        one(b) == {j \in 0 .. 7 : (j \div 2^(2 - b)) % 2 = 1}
    IN {b \in 0 .. 2 : Max({s2(j) : j \in one(b)}) > Max({s2(j) : j \in (0 .. 7) \ one(b)})}

(* The word that a hard decision on the likelihoods gives: scaling them    *)
(* (ftx_normalize_logl) leaves their signs, and a symbol outside the       *)
(* capture is three zeros.                                                 *)
ft8_extract_likelihood(mag, cand) ==
    UNION {{3 * k + b : b \in ft8_extract_symbol(mag,
                                  get_cand_mag(cand) + SymbolOf(k) * block_stride)} :
             k \in {i \in 0 .. FT8_ND - 1 :
                      cand.time_offset + SymbolOf(i) \in 0 .. NUM_BLOCKS - 1}}

-----------------------------------------------------------------------------
(* The checksum against its definition.  x^k modulo the polynomial: *)
Residue[k \in 0 .. 95] ==
    IF k = 0 THEN {0}
    ELSE LET up == {e + 1 : e \in Residue[k - 1]}
         IN IF 14 \in up THEN SymDiff(up \ {14}, FT8_CRC_POLYNOMIAL) ELSE up

(* The bytewise division in 16 bits leaves the remainder of the payload,   *)
(* followed by five zeros and the 14 bits of the checksum: every step is   *)
(* linear, so that the words of one bit decide.                            *)
ASSUME CrcIsRemainder == \A p \in 0 .. 76 : ftx_compute_crc({p}, 82) = Residue[95 - p]

(* Errors within 11 successive bits of the payload and its checksum always *)
(* leave a remainder: an odd number of them counts for one of its bits.    *)
Syndrome == [p \in 0 .. 90 |-> IF p <= 76 THEN Residue[95 - p] ELSE {90 - p}]
ASSUME ShortBurstsShow ==
    \A p \in 0 .. 90 : \A burst \in SUBSET (p + 1 .. Min({p + 10, 90})) :
        \E e \in 0 .. 13 : Cardinality({q \in burst \cup {p} : e \in Syndrome[q]}) % 2 = 1

(* Every word the encoder can make passes the parity checks: the code is   *)
(* linear, and the words of one bit generate it.                           *)
ASSUME GeneratorMeetsChecks == \A p \in 0 .. 90 : ldpc_check(encode174({p})) = 0
=============================================================================
