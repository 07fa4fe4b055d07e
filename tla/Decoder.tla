------------------------------ MODULE Decoder -------------------------------
(***************************************************************************)
(* decode() and printSpots() of src/rtlsdr_ft8d.cpp: what the decoder      *)
(* thread does with the candidates of a slot.  A message decoded for the   *)
(* first time in the slot is unpacked with the table of callsigns          *)
(* (CallsignHash), told apart by its first word and handed to the QSO      *)
(* thread, the display and the log.  The spots go on to PskUploader.       *)
(*                                                                         *)
(* A message is the fields of its payload: a word, a call in clear (which  *)
(* unpacking saves), or the hash of a call.  A text is its words after     *)
(* unpacking, a resolved hash standing in brackets.  qsoh_queue, qso_queue,*)
(* log_queue and cq_queue hold what was pushed in the current slot; their  *)
(* readers are other modules.                                              *)
(***************************************************************************)
EXTENDS Integers, Sequences, CallsignHash

CONSTANTS
    Candidates,       \* [msg: [fields, ok, hash], freq]
    Contacts,         \* contacts the QSO thread may be in: [peer, freq, slot]
    StartsCQ,         \* words that begin with "CQ"
    StartsRcall,      \* words that begin with the station's call
    TwoLetters,       \* words of two letters
    NULL,             \* no message
    K_MAX_MESSAGES,   \* size of the tables of a slot, decoded_hashtable and dec_results
    MaxCandidates     \* bound: candidates that decode in a slot

ASSUME DecoderAssumption ==
    /\ \A c \in Candidates :
          /\ c.msg.hash \in Nat /\ c.freq \in Int /\ c.msg # NULL
          /\ c.msg.fields \in Seq(Range(c.msg.fields))
          /\ \A f \in Range(c.msg.fields) : f.kind = "call" => f.word \in Calls
    /\ \A k \in Contacts : k.freq \in Int \ {0}   \* absolute, in Hz
    /\ K_MAX_MESSAGES \in Nat \ {0}
    /\ MaxCandidates \in Nat

VARIABLES
    pc,                 \* idle, scan, infoFreq, infoTest, infoPeer, print, done
    left,               \* candidates still to look at
    thisSlot,
    decoded_hashtable,
    decodes,            \* decodes[0 .. num_decoded - 1]
    cand, qsoFreq,      \* the candidate being shown, the frequency read for it
    qsoh_queue, qso_queue, log_queue, cq_queue, tick_queue,
    callsign_hashtable,
    lastSaved,          \* the call last saved under each hash (history)
    exit_flag,
    contact,            \* the contact in progress (of the QSO thread)
    heard,              \* messages decoded in this slot (history)
    steady              \* the contact did not change in this slot (history)

slotVars == <<left, thisSlot, decoded_hashtable, decodes>>
queues == <<qsoh_queue, qso_queue, log_queue, cq_queue, tick_queue>>
hashVars == <<callsign_hashtable, lastSaved>>
others == <<exit_flag, contact, steady>>
vars == <<pc, slotVars, cand, qsoFreq, queues, hashVars, heard, others>>

Slots == {"odd", "even"}
NoContact == [peer |-> "", freq |-> 0, slot |-> "odd"]
InSlot == 0 .. K_MAX_MESSAGES - 1

Init ==
    /\ callsign_hashtable = hashtable_init
    /\ lastSaved = [h \in Hashes |-> Nobody]
    /\ exit_flag = FALSE
    /\ pc = "idle" /\ left = 0 /\ thisSlot = "odd"
    /\ decoded_hashtable = [i \in InSlot |-> NULL]
    /\ decodes = << >> /\ cand = NULL /\ qsoFreq = 0
    /\ qsoh_queue = << >> /\ qso_queue = << >> /\ log_queue = << >>
    /\ cq_queue = << >> /\ tick_queue = << >>
    /\ heard = {}
    /\ contact = NoContact /\ steady = TRUE

-----------------------------------------------------------------------------
(* Unpacking *)

(* The calls in clear among some fields are saved in their order. *)
SaveCall(table, f) == IF f.kind = "call" THEN HashtableAdd(table, f.word) ELSE table
SaveCalls(table, fields) ==
    LET saved[n \in 0 .. Len(fields)] ==
            IF n = 0 THEN table ELSE SaveCall(saved[n - 1], fields[n])
    IN saved[Len(fields)]

(* The call last saved under each hash, after some more fields. *)
LastSaved(last, fields) ==
    [h \in Hashes |->
        LET at == {i \in DOMAIN fields : fields[i].kind = "call" /\ N22(fields[i].word) = h}
        IN IF at = {} THEN last[h] ELSE fields[Max(at)].word]

(* A standard message is unpacked from left to right; the other kind, which *)
(* carries a 12-bit hash, saves its call first.                            *)
Word(table, m, i) ==
    LET f == m.fields[i]
    IN CASE f.kind = "hash22" ->
              [word |-> HashtableLookup(SaveCalls(table, SubSeq(m.fields, 1, i - 1)),
                                        22, f.hash), brackets |-> TRUE]
         [] f.kind = "hash12" ->
              [word |-> HashtableLookup(SaveCalls(table, m.fields), 12, f.hash),
               brackets |-> TRUE]
         [] OTHER -> [word |-> f.word, brackets |-> FALSE]

Text(m) == [i \in DOMAIN m.fields |-> Word(callsign_hashtable, m, i)]

(* A word without its brackets; "" when the text has no such word. *)
StripBrackets(text, i) == IF i \in DOMAIN text THEN text[i].word ELSE ""

Begins(text, words) == text # << >> /\ ~text[1].brackets /\ text[1].word \in words

(* "CQ DX K1ABC": the call comes after a word of two letters. *)
CallAt(text) == IF ~text[2].brackets /\ text[2].word \in TwoLetters THEN 3 ELSE 2

-----------------------------------------------------------------------------
(* The candidates of a slot *)

(* decode() starts: the slot comes from the clock, the tables are empty. *)
DecodeBegins ==
    /\ pc = "idle" /\ ~exit_flag
    /\ thisSlot' \in Slots
    /\ left' = MaxCandidates
    /\ steady' = TRUE
    /\ pc' = "scan"
    /\ UNCHANGED <<decoded_hashtable, decodes, cand, qsoFreq, queues, hashVars,
                   heard, exit_flag, contact>>

(* Mutation: a clash counts as a duplicate. *)
Probe_NoClash(m) ==
    LET p == m.hash % K_MAX_MESSAGES
    IN IF ~exit_flag /\ decoded_hashtable[p] = NULL THEN {p} ELSE {}

(* The place for a message not yet decoded in this slot: the probe stops   *)
(* at the message itself or at a free place; none after a whole turn, and  *)
(* none when the program ends.                                             *)
Probe(m) ==
    LET At(i) == (m.hash + i) % K_MAX_MESSAGES
        stops == {i \in InSlot : decoded_hashtable[At(i)] \in {NULL, m}}
    IN IF exit_flag \/ stops = {} THEN {}
       ELSE {At(Min(stops))} \ {p \in InSlot : decoded_hashtable[p] = m}

LogEntry(c, text) ==
    [dest |-> StripBrackets(text, 1), src |-> StripBrackets(text, 2),
     message |-> StripBrackets(text, 3), freq |-> c.freq, from |-> c.msg]

(* A CQ becomes a spot and a message to the QSO thread.  Its message field *)
(* is never written, nor read for a CQ.                                    *)
HandleCQ(c, text) ==
    LET call == StripBrackets(text, CallAt(text))
    IN /\ decodes' = Append(decodes, [call |-> call, freq |-> c.freq])
       /\ qsoh_queue' = Append(qsoh_queue, [dest |-> "CQ", src |-> call,
                                            freq |-> c.freq, slot |-> thisSlot])

(* A message whose first word begins with the station's call *)
HandleOurs(c, text) ==
    /\ qsoh_queue' = Append(qsoh_queue,
           [dest |-> StripBrackets(text, 1), src |-> StripBrackets(text, 2),
            message |-> StripBrackets(text, 3), freq |-> c.freq, slot |-> thisSlot])
    /\ UNCHANGED decodes

(* What follows the unpacking of a new message.  A text that could not be  *)
(* unpacked, is empty or is a bare CQ is skipped, and not even logged.     *)
Skipped(m, text) ==
    ~m.ok \/ text = << >> \/ (Begins(text, StartsCQ) /\ Len(text) = 1)

Dispatch(c, text) ==
    \/ /\ Skipped(c.msg, text)
       /\ UNCHANGED <<pc, cand, decodes, qsoh_queue, log_queue>>
    \/ /\ ~Skipped(c.msg, text)
       /\ Begins(text, StartsCQ)
       /\ HandleCQ(c, text)
       /\ log_queue' = Append(log_queue, LogEntry(c, text))
       /\ UNCHANGED <<pc, cand>>
    \/ /\ ~Skipped(c.msg, text)
       /\ ~Begins(text, StartsCQ) /\ Begins(text, StartsRcall)
       /\ HandleOurs(c, text)
       /\ log_queue' = Append(log_queue, LogEntry(c, text))
       /\ UNCHANGED <<pc, cand>>
    \/ /\ ~Skipped(c.msg, text)
       /\ ~Begins(text, StartsCQ \cup StartsRcall)
       /\ pc' = "infoFreq" /\ cand' = [freq |-> c.freq, entry |-> LogEntry(c, text)]
       /\ UNCHANGED <<decodes, qsoh_queue, log_queue>>

(* Mutation: the message is not entered in the table of the slot. *)
NewMessage_NotEntered(c, p) ==
    /\ callsign_hashtable' = SaveCalls(callsign_hashtable, c.msg.fields)
    /\ lastSaved' = LastSaved(lastSaved, c.msg.fields)
    /\ Dispatch(c, Text(c.msg))
    /\ UNCHANGED decoded_hashtable

NewMessage(c, p) ==
    /\ decoded_hashtable' = [decoded_hashtable EXCEPT ![p] = c.msg]
    /\ callsign_hashtable' = SaveCalls(callsign_hashtable, c.msg.fields)
    /\ lastSaved' = LastSaved(lastSaved, c.msg.fields)
    /\ Dispatch(c, Text(c.msg))

(* The next candidate that decodes; the others change nothing. *)
Candidate(c) ==
    /\ pc = "scan" /\ left > 0
    /\ left' = left - 1
    /\ heard' = heard \cup {c.msg}
    /\ \/ \E p \in Probe(c.msg) : NewMessage(c, p)
       \/ /\ Probe(c.msg) = {}
          /\ UNCHANGED <<pc, decoded_hashtable, decodes, cand, qsoh_queue,
                         log_queue, hashVars>>
    /\ UNCHANGED <<thisSlot, qsoFreq, qso_queue, cq_queue, tick_queue, others>>

-----------------------------------------------------------------------------
(* A message for somebody else is shown when it may be the peer's.  The    *)
(* QSO thread may change the contact between the three readings.           *)

(* getActiveQsoFreq() *)
InfoFreq ==
    /\ pc = "infoFreq"
    /\ qsoFreq' = contact.freq
    /\ pc' = "infoTest"
    /\ UNCHANGED <<slotVars, cand, queues, hashVars, heard, others>>

LogCandidate ==
    /\ log_queue' = Append(log_queue, cand.entry)
    /\ cand' = NULL /\ qsoFreq' = 0
    /\ pc' = "scan"

(* Mutation: the slot is not compared. *)
InfoTest_AnySlot ==
    /\ pc = "infoTest"
    /\ IF /\ contact # NoContact /\ qsoFreq # 0
          /\ cand.freq - qsoFreq \in -50 .. 50
       THEN pc' = "infoPeer" /\ UNCHANGED <<log_queue, cand, qsoFreq>>
       ELSE LogCandidate
    /\ UNCHANGED <<slotVars, qsoh_queue, qso_queue, cq_queue, tick_queue, hashVars,
                   heard, others>>

(* qsoInProgress(), getActiveQsoPeerSlot() *)
InfoTest ==
    /\ pc = "infoTest"
    /\ IF /\ contact # NoContact /\ qsoFreq # 0
          /\ cand.freq - qsoFreq \in -50 .. 50
          /\ thisSlot = contact.slot
       THEN pc' = "infoPeer" /\ UNCHANGED <<log_queue, cand, qsoFreq>>
       ELSE LogCandidate
    /\ UNCHANGED <<slotVars, qsoh_queue, qso_queue, cq_queue, tick_queue, hashVars,
                   heard, others>>

(* getActiveQsoPeer() *)
InfoPeer ==
    /\ pc = "infoPeer"
    /\ qso_queue' = Append(qso_queue, [src |-> contact.peer, freq |-> cand.freq,
                                       slot |-> thisSlot, from |-> cand.entry.from])
    /\ LogCandidate
    /\ UNCHANGED <<slotVars, qsoh_queue, cq_queue, tick_queue, hashVars,
                   heard, others>>

-----------------------------------------------------------------------------
(* The end of a slot *)

(* No candidate is left: the tick starts the QSO thread. *)
DecodeEnds ==
    /\ pc = "scan"
    /\ left' = 0
    /\ tick_queue' = Append(tick_queue, thisSlot)
    /\ pc' = "print"
    /\ UNCHANGED <<thisSlot, decoded_hashtable, decodes, cand, qsoFreq, qsoh_queue,
                   qso_queue, log_queue, cq_queue, hashVars, heard, others>>

(* printSpots() hands the spots to the display, whether they are reported  *)
(* or not.                                                                 *)
PrintSpots ==
    /\ pc = "print"
    /\ cq_queue' = decodes
    /\ pc' = "done"
    /\ UNCHANGED <<slotVars, cand, qsoFreq, qsoh_queue, qso_queue,
                   log_queue, tick_queue, hashVars, heard, others>>

(* The locals of decode() are gone, and the readers empty their queues     *)
(* before the next slot is decoded.                                        *)
Forget ==
    /\ pc = "done"
    /\ decoded_hashtable' = [i \in InSlot |-> NULL]
    /\ decodes' = << >> /\ heard' = {}
    /\ qsoh_queue' = << >> /\ qso_queue' = << >> /\ log_queue' = << >>
    /\ cq_queue' = << >> /\ tick_queue' = << >>
    /\ pc' = "idle"
    /\ UNCHANGED <<left, thisSlot, cand, qsoFreq, hashVars, others>>

DecoderThread ==
    \/ DecodeBegins \/ InfoFreq \/ InfoTest \/ InfoPeer
    \/ DecodeEnds \/ PrintSpots \/ Forget
    \/ \E c \in Candidates : Candidate(c)

(* The QSO thread begins, leaves or changes a contact (module QsoHandler). *)
QsoThread ==
    /\ contact' \in (Contacts \cup {NoContact}) \ {contact}
    /\ steady' = FALSE
    /\ UNCHANGED <<pc, slotVars, cand, qsoFreq, queues, hashVars, heard, exit_flag>>

Quit ==
    /\ exit_flag' = TRUE
    /\ UNCHANGED <<pc, slotVars, cand, qsoFreq, queues, hashVars, heard, contact, steady>>

Next == DecoderThread \/ QsoThread \/ Quit

Spec == Init /\ [][Next]_vars

-----------------------------------------------------------------------------
(* When every candidate was looked at, each distinct message of the slot   *)
(* has been logged once, however many candidates carried it and whatever   *)
(* messages share its place in the table; one is lost only when more than  *)
(* K_MAX_MESSAGES were heard or the program ends.                          *)
EveryMessageOnce ==
    /\ \A i, j \in DOMAIN log_queue : log_queue[i].from = log_queue[j].from => i = j
    /\ tick_queue # << >> /\ ~exit_flag /\ Cardinality(heard) <= K_MAX_MESSAGES =>
         \A m \in heard :
            \/ \E i \in DOMAIN log_queue : log_queue[i].from = m
            \/ ~m.ok \/ m.fields = << >>
            \/ Len(m.fields) = 1 /\ m.fields[1].word \in StartsCQ

(* dec_results is never written beyond its end: num_decoded has no test of *)
(* its own and is held by the table of the slot, which other messages and  *)
(* duplicates share.                                                       *)
DecodesFit == Len(decodes) <= K_MAX_MESSAGES

(* hashtable_add() and hashtable_lookup() disagree on where to look: the   *)
(* one probes from the hash, the other scans.  While the table has room,   *)
(* every hash saved so far is resolved to the call last saved under it,    *)
(* and no hash is in the table twice (a stale twin would be found first).  *)
CallsResolve ==
    LET used == {i \in Places : callsign_hashtable[i].used}
    IN /\ \A i, j \in used :
             callsign_hashtable[i].n22 = callsign_hashtable[j].n22 => i = j
       /\ used # Places =>
             \A h \in Hashes : HashtableLookup(callsign_hashtable, 22, h) = lastSaved[h]

(* While the contact does not change under decode(), the messages shown as *)
(* the peer's are exactly those for other stations heard on its frequency  *)
(* and in its slot.                                                        *)
InfoIsPeers ==
    steady =>
      /\ \A i \in DOMAIN qso_queue :
            LET info == qso_queue[i]
            IN /\ contact # NoContact /\ info.src = contact.peer
               /\ info.slot = contact.slot /\ info.freq - contact.freq \in -50 .. 50
      /\ contact # NoContact /\ thisSlot = contact.slot =>
            \A i \in DOMAIN log_queue :
               LET e == log_queue[i]
               IN (/\ e.dest \notin StartsCQ \cup StartsRcall
                   /\ e.freq - contact.freq \in -50 .. 50)
                  => \E j \in DOMAIN qso_queue : qso_queue[j].from = e.from
=============================================================================
