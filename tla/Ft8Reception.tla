---------------------------- MODULE Ft8Reception ----------------------------
(***************************************************************************)
(* A message from its text at one station to its text at another: the      *)
(* encoders of src/libft8/ft8 as the daemon, the program's own generator   *)
(* (genFT8Signal) or another program calls them, the waterfall of          *)
(* ft8_subsystem(), and the decoding loop of decode().  It composes        *)
(* MessageCodec, Ft8Signal and CandidateSearch; what decode() does with    *)
(* the text is module Decoder.                                             *)
(*                                                                         *)
(* A transmission says what is sent and what becomes of it on the way:     *)
(*   text, by      the text and who encodes it: "daemon", "self", "other"  *)
(*   words, calls  the words a receiver should print, and those among them *)
(*                 that are calls                                          *)
(*   hashed        the words of which only a hash is sent                  *)
(*   place, faded  where it is in the waterfall, and the symbols received  *)
(*                 as another tone or (below 0) not at all                 *)
(* A crowd is a slot full of other stations: the scores of its candidates, *)
(* in the order of the scan.                                               *)
(***************************************************************************)
EXTENDS MessageCodec, Ft8Signal, CandidateSearch

CONSTANTS
    Plans,           \* sequences of transmissions and crowds, one a slot
    Errors,          \* bits of the codeword the LDPC decoder may come to get wrong
    K_LDPC_ITERS

ASSUME ReceptionAssumption ==
    /\ K_LDPC_ITERS \in Nat \ {0}
    /\ Errors \subseteq SUBSET (0 .. 173)
    /\ \A p \in Plans : p \in Seq(Range(p))
    /\ \A p \in Plans : \A t \in Range(p) : "scores" \in DOMAIN t => t.scores \in Seq(Int)

VARIABLES
    plan,                    \* the slots to come
    phase,                   \* idle, air, waterfall, search, bp, checked, over
    tx,                      \* what is sent in this slot
    sent, tones,             \* its payload and its tones
    mag,                     \* the waterfall
    offered,                 \* the candidates the search was given (history)
    idx,                     \* the candidate being decoded
    plain, iter, min_errors, \* bp_decode()
    accepted, heard,         \* payloads and texts of this slot
    told,                    \* calls the receiver read in clear (history)
    callsign_hashtable

signalVars == <<plan, tx, sent, tones, mag>>
ldpcVars == <<plain, iter, min_errors>>
textVars == <<accepted, heard, told, callsign_hashtable>>
vars == <<signalVars, phase, searchVars, offered, idx, ldpcVars, textVars>>

Crowd(t) == "scores" \in DOMAIN t

Init ==
    /\ plan \in Plans /\ tx = << >>
    /\ phase = "idle" /\ sent = {} /\ tones = << >> /\ mag = << >>
    /\ SearchInit /\ offered = << >> /\ idx = 0
    /\ plain = {} /\ iter = 0 /\ min_errors = 83
    /\ accepted = {} /\ heard = {} /\ told = {}
    /\ callsign_hashtable = hashtable_init

-----------------------------------------------------------------------------
(* The sender *)

(* Another program sends a call that is not standard in clear. *)
OtherEncode(words) == encode_nonstd(words[1], words[2], Join(SubSeq(words, 3, Len(words))))

EncodeAs(t) == IF t.by = "other" THEN OtherEncode(t.words) ELSE ftx_message_encode(t.text)

(* Only genFT8Signal() encodes with the receiver's own table. *)
Transmit ==
    /\ phase = "idle" /\ plan # << >> /\ ~Crowd(Head(plan))
    /\ LET t == Head(plan)
       IN \E e \in {EncodeAs(t)} :
          /\ plan' = Tail(plan) /\ tx' = t
          /\ sent' = e.payload
          /\ phase' = IF e.rc = "ok" THEN "air" ELSE "over"
          /\ callsign_hashtable' = IF t.by = "self"
                                   THEN FoldLeft(SaveCallsign, callsign_hashtable, e.saved)
                                   ELSE callsign_hashtable
          /\ told' = IF t.by = "self" THEN told \cup t.calls ELSE told
    /\ UNCHANGED <<tones, mag, searchVars, offered, idx, ldpcVars, accepted, heard>>

Modulate ==
    /\ phase = "air"
    /\ tones' = ft8_encode(sent)
    /\ phase' = "waterfall"
    /\ UNCHANGED <<plan, tx, sent, mag, searchVars, offered, idx, ldpcVars, textVars>>

-----------------------------------------------------------------------------
(* The receiver *)

ft8_subsystem ==
    /\ phase = "waterfall"
    /\ mag' = Waterfall([k \in DOMAIN tones |->
                           IF k \in DOMAIN tx.faded THEN tx.faded[k] ELSE tones[k]], tx.place)
    /\ phase' = "search"
    /\ UNCHANGED <<plan, tx, sent, tones, searchVars, offered, idx, ldpcVars, textVars>>

(* The candidates of the waterfall in the order of the four loops *)
Offsets == NUM_BIN - 7
ScanOrder ==
    [n \in 1 .. K_TIME_OSR * K_FREQ_OSR * 30 * Offsets |->
        [freq_offset |-> (n - 1) % Offsets,
         time_offset |-> (((n - 1) \div Offsets) % 30) - 10,
         freq_sub    |-> ((n - 1) \div (30 * Offsets)) % K_FREQ_OSR,
         time_sub    |-> (n - 1) \div (30 * Offsets * K_FREQ_OSR)]]

(* Mutation: a candidate whose first symbols are before the capture is left out. *)
Scored_Inside(m) ==
    [n \in DOMAIN ScanOrder |->
        LET c == ScanOrder[n]
        IN [place |-> c, score |-> IF c.time_offset < 0 THEN 0 ELSE ft8_sync_score(m, c)]]

Scored(m) ==
    [n \in DOMAIN ScanOrder |->
        [place |-> ScanOrder[n], score |-> ft8_sync_score(m, ScanOrder[n])]]

FindBegins ==
    /\ phase = "search" /\ search = "idle"
    /\ offered' = Scored(mag)
    /\ SearchBegins(offered')
    /\ UNCHANGED <<signalVars, phase, idx, ldpcVars, textVars>>

FindInCrowd ==
    /\ phase = "idle" /\ plan # << >> /\ Crowd(Head(plan))
    /\ plan' = Tail(plan) /\ tx' = Head(plan)
    /\ offered' = [i \in DOMAIN Head(plan).scores |->
                     [place |-> i, score |-> Head(plan).scores[i]]]
    /\ SearchBegins(offered')
    /\ phase' = "search"
    /\ UNCHANGED <<sent, tones, mag, idx, ldpcVars, textVars>>

Find ==
    /\ ftx_find_candidates
    /\ UNCHANGED <<signalVars, phase, offered, idx, ldpcVars, textVars>>

(* ftx_decode_candidate() begins.  The messages of a crowd are not followed. *)
TryCandidate ==
    /\ phase = "search" /\ search = "found" /\ idx < heap_size /\ ~Crowd(tx)
    /\ plain' = ft8_extract_likelihood(mag, heap[idx].place)
    /\ iter' = 0 /\ min_errors' = 83
    /\ phase' = "bp"
    /\ UNCHANGED <<signalVars, searchVars, offered, idx, textVars>>

(* What belief propagation may come to guess: the word it had, no ones at  *)
(* all, the codeword sent, or any word that differs from it by one of the  *)
(* Errors: another codeword, with its checksum right or wrong, or none     *)
Guesses ==
    {plain, {}} \cup {SymDiff(encode174(ftx_add_crc(sent)), e) : e \in Errors \cup {{}}}

(* Mutation: the decoder goes on after it has found a codeword. *)
bp_decode_GoesOn ==
    LET errors == ldpc_check(plain)
        ends   == plain = {} \/ iter + 1 = K_LDPC_ITERS
    IN /\ phase = "bp"
       /\ min_errors' = IF plain # {} /\ errors < min_errors THEN errors ELSE min_errors
       /\ IF ends THEN phase' = "checked" /\ UNCHANGED <<plain, iter>>
          ELSE plain' \in Guesses /\ iter' = iter + 1 /\ UNCHANGED phase
       /\ UNCHANGED <<signalVars, searchVars, offered, idx, textVars>>

(* One iteration: the guess is tested, and better ones are looked for *)
bp_decode ==
    LET errors == ldpc_check(plain)
        ends   == plain = {} \/ errors = 0 \/ iter + 1 = K_LDPC_ITERS
    IN /\ phase = "bp"
       /\ min_errors' = IF plain # {} /\ errors < min_errors THEN errors ELSE min_errors
       /\ IF ends THEN phase' = "checked" /\ UNCHANGED <<plain, iter>>
          ELSE plain' \in Guesses /\ iter' = iter + 1 /\ UNCHANGED phase
       /\ UNCHANGED <<signalVars, searchVars, offered, idx, textVars>>

(* Mutation: the checksum is not compared. *)
CrcAgrees_Skipped(a91) == TRUE

CrcAgrees(a91) == ftx_extract_crc(a91) = ftx_compute_crc(Payload(a91), 82)

Refuse ==
    /\ phase = "checked"
    /\ min_errors > 0 \/ ~CrcAgrees(plain) \/ Payload(plain) \in accepted
    /\ idx' = idx + 1 /\ phase' = "search"
    /\ UNCHANGED <<signalVars, searchVars, offered, ldpcVars, textVars>>

(* A payload that was not sent tells the receiver what it leaves in the    *)
(* table.                                                                  *)
InTable(table) == {table[i].callsign : i \in {j \in Places : table[j].used}}

Accept ==
    /\ phase = "checked" /\ min_errors = 0 /\ CrcAgrees(plain)
    /\ Payload(plain) \notin accepted
    /\ \E message \in {ftx_message_decode(Payload(plain), callsign_hashtable)} :
          /\ heard' = heard \cup (IF message.ok THEN {message.text} ELSE {})
          /\ callsign_hashtable' = message.table
          /\ told' = told \cup IF Payload(plain) = sent
                              THEN tx.calls \ {tx.words[i] : i \in tx.hashed}
                              ELSE InTable(message.table) \ InTable(callsign_hashtable)
    /\ accepted' = accepted \cup {Payload(plain)}
    /\ idx' = idx + 1 /\ phase' = "search"
    /\ UNCHANGED <<signalVars, searchVars, offered, ldpcVars>>

SlotEnds ==
    /\ phase = "search" /\ search = "found" /\ (idx = heap_size \/ Crowd(tx))
    /\ phase' = "over"
    /\ UNCHANGED <<signalVars, searchVars, offered, idx, ldpcVars, textVars>>

(* The next slot: the buffers of this one are gone, the table stays. *)
NextSlot ==
    /\ phase = "over"
    /\ phase' = "idle" /\ tx' = << >> /\ sent' = {} /\ tones' = << >> /\ mag' = << >>
    /\ search' = "idle" /\ todo' = << >> /\ heap' = [i \in HeapPlaces |-> NoCandidate]
    /\ heap_size' = 0 /\ len_unsorted' = 0 /\ current' = 0
    /\ offered' = << >> /\ idx' = 0 /\ plain' = {} /\ iter' = 0 /\ min_errors' = 83
    /\ accepted' = {} /\ heard' = {}
    /\ UNCHANGED <<plan, told, callsign_hashtable>>

(* Nobody transmits any more: the receiver listens on. *)
Silence == phase = "idle" /\ plan = << >> /\ UNCHANGED vars

Next ==
    \/ Transmit \/ Modulate \/ ft8_subsystem \/ FindBegins \/ FindInCrowd \/ Find
    \/ TryCandidate \/ bp_decode \/ Refuse \/ Accept \/ SlotEnds \/ NextSlot \/ Silence

Spec == Init /\ [][Next]_vars

-----------------------------------------------------------------------------
(* Six encodings follow each other on the way out and six decodings on the *)
(* way back, each with bit offsets of its own.  What is printed is what    *)
(* was sent: the call that only its hash stands for appears in brackets    *)
(* when an earlier message, or the own generator, told the receiver, and   *)
(* as <...> otherwise.  What else is decoded in the slot by mistake does   *)
(* not change that.                                                        *)
Printed(t) ==
    LET word(i) == IF i \notin t.hashed THEN t.words[i]
                   ELSE IF t.words[i] \in told THEN "<" \o t.words[i] \o ">" ELSE "<...>"
    IN trim(Join([i \in DOMAIN t.words |-> word(i) \o " "]))

HeardAsSent == sent \in accepted => Printed(tx) \in {trim(text) : text \in heard}

(* What belief propagation makes of a signal may be any codeword, and the  *)
(* 14 bits of checksum cannot refuse them all.  They do refuse every one   *)
(* that was nearly received: a payload is accepted only if it was received *)
(* as sent or, with its checksum, wrong over more than 11 successive bits. *)
(* (Some differences over 12 do pass, the program dividing five zeros      *)
(* between the payload and the checksum.)                                  *)
NoNearMiss ==
    [][accepted' \ accepted # {} =>
         LET wrong == SymDiff(plain \cap (0 .. 90), ftx_add_crc(sent))
         IN wrong = {} \/ Max(wrong) - Min(wrong) >= 11]_vars

(* An undamaged signal is decoded wherever it lies: on any half bin and    *)
(* half symbol, and with its first or last synchronisation symbols cut off *)
(* by the ends of the capture.                                             *)
CleanIsHeard ==
    phase = "over" /\ ~Crowd(tx) /\ sent # {} /\ tx.faded = << >> => sent \in accepted

(* bp_decode() returns the fewest errors of any iteration but the bits of  *)
(* the last one.  No errors always means that these bits are a codeword,   *)
(* and not the forbidden word of zeros.                                    *)
CodewordsOnly ==
    phase = "checked" /\ min_errors = 0 => plain # {} /\ ldpc_check(plain) = 0

(* After any sequence of insertions, removals and exchanges in the heap,   *)
(* the candidates of ftx_find_candidates() are decoded best first and no   *)
(* better one was left out.                                                *)
BestFirst ==
    search = "found" =>
      LET kept == {heap[i] : i \in 0 .. heap_size - 1}
          good == {c \in Range(offered) : Worth(c)}
      IN /\ heap_size = Min({num_candidates, Cardinality(good)})
         /\ Cardinality(kept) = heap_size /\ kept \subseteq good
         /\ \A i, j \in 0 .. heap_size - 1 : i < j => heap[i].score >= heap[j].score
         /\ \A c \in good \ kept : \A k \in kept : c.score <= k.score
=============================================================================
