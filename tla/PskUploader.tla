---------------------------- MODULE PskUploader -----------------------------
(***************************************************************************)
(* The thread that reports spots to PSKreporter (pskUploader() of          *)
(* src/rtlsdr_ft8d.cpp, src/pskreporter.cpp): once a minute it empties the *)
(* queue that postSpots() fills at the end of every slot, in packets of    *)
(* MAX_REPORTS_PER_PACKET, or throws its contents away when reporting is   *)
(* off or there is no reporter.  A spot is its number in the order of the  *)
(* postings.                                                               *)
(***************************************************************************)
EXTENDS Naturals, Sequences

CONSTANTS
    MAX_REPORTS_PER_PACKET,
    SpotsPerSlot,     \* most CQs of a slot
    MaxSpots          \* bound: spots posted

ASSUME UploaderAssumption ==
    /\ MAX_REPORTS_PER_PACKET \in Nat \ {0}
    /\ SpotsPerSlot \in Nat /\ MaxSpots \in Nat

VARIABLES
    exit_flag,
    synthetic,    \* --rx-test or --fake-tx
    noreport,     \* rx_options.noreport
    reporter,     \* the reporter was constructed
    dec_results_queue,
    due,          \* spots postSpots() has still to push
    posted,       \* spots pushed so far
    upc,          \* the thread: sleep, discard, drain, sendFull, sendLast, end
    recordList,   \* PskReporter::recordList_
    inPacket,
    sent          \* the spots of the datagrams that left (history)

upVars == <<upc, recordList, inPacket, sent>>
settings == <<exit_flag, synthetic, noreport, reporter>>
postVars == <<due, posted>>
vars == <<settings, dec_results_queue, postVars, upVars>>

(* With a synthetic source main() turns reporting off and constructs no    *)
(* reporter; -x only turns it off.                                         *)
Init ==
    /\ exit_flag = FALSE
    /\ synthetic \in BOOLEAN
    /\ reporter = ~synthetic
    /\ noreport \in IF synthetic THEN {TRUE} ELSE BOOLEAN
    /\ dec_results_queue = << >> /\ due = 0 /\ posted = 0
    /\ upc = "sleep" /\ recordList = << >> /\ inPacket = 0 /\ sent = << >>

-----------------------------------------------------------------------------
(* The decoder thread: postSpots() looks at the switch once, then pushes   *)
(* the spots of the slot one by one.                                       *)
PostSpots ==
    /\ due = 0 /\ ~noreport /\ ~exit_flag
    /\ due' \in 1 .. SpotsPerSlot
    /\ posted + due' <= MaxSpots
    /\ UNCHANGED <<settings, dec_results_queue, posted, upVars>>

PushSpot ==
    /\ due > 0
    /\ due' = due - 1
    /\ posted' = posted + 1
    /\ dec_results_queue' = Append(dec_results_queue, posted')
    /\ UNCHANGED <<settings, upVars>>

-----------------------------------------------------------------------------
(* The thread *)

(* Mutation: only the switch is tested. *)
UploaderWakes_NoNullTest ==
    /\ upc = "sleep"
    /\ upc' = IF exit_flag THEN "end" ELSE IF noreport THEN "discard" ELSE "drain"
    /\ inPacket' = 0
    /\ UNCHANGED <<settings, postVars, dec_results_queue, recordList, sent>>

(* Mutation: nothing is done while reporting is off. *)
UploaderWakes_NoDiscard ==
    /\ upc = "sleep"
    /\ upc' = IF exit_flag THEN "end"
              ELSE IF noreport \/ ~reporter THEN "sleep" ELSE "drain"
    /\ inPacket' = 0
    /\ UNCHANGED <<settings, postVars, dec_results_queue, recordList, sent>>

(* The minute is over, or the program ends. *)
UploaderWakes ==
    /\ upc = "sleep"
    /\ upc' = IF exit_flag THEN "end"
              ELSE IF noreport \/ ~reporter THEN "discard" ELSE "drain"
    /\ inPacket' = 0
    /\ UNCHANGED <<settings, postVars, dec_results_queue, recordList, sent>>

Discard ==
    /\ upc = "discard"
    /\ IF dec_results_queue = << >>
       THEN upc' = "sleep" /\ UNCHANGED dec_results_queue
       ELSE dec_results_queue' = Tail(dec_results_queue) /\ UNCHANGED upc
    /\ UNCHANGED <<settings, postVars, recordList, inPacket, sent>>

(* addReceiveRecord() *)
AddRecord ==
    /\ upc = "drain" /\ dec_results_queue # << >>
    /\ dec_results_queue' = Tail(dec_results_queue)
    /\ recordList' = Append(recordList, Head(dec_results_queue))
    /\ inPacket' = inPacket + 1
    /\ upc' = IF inPacket' >= MAX_REPORTS_PER_PACKET THEN "sendFull" ELSE "drain"
    /\ UNCHANGED <<settings, postVars, sent>>

QueueEmpty ==
    /\ upc = "drain" /\ dec_results_queue = << >>
    /\ upc' = IF inPacket > 0 THEN "sendLast" ELSE "sleep"
    /\ UNCHANGED <<settings, postVars, dec_results_queue, recordList, inPacket, sent>>

(* Mutation: a failed send() keeps its records. *)
Send_Keep(ok) ==
    /\ upc \in {"sendFull", "sendLast"}
    /\ sent' = IF ok THEN sent \o recordList ELSE sent
    /\ recordList' = IF ok THEN << >> ELSE recordList
    /\ inPacket' = 0
    /\ upc' = IF upc = "sendFull" THEN "drain" ELSE "sleep"
    /\ UNCHANGED <<settings, postVars, dec_results_queue>>

(* send() empties the list before it resolves the name and opens the       *)
(* socket: when one of them fails the records are gone.                    *)
Send(ok) ==
    /\ upc \in {"sendFull", "sendLast"}
    /\ sent' = IF ok THEN sent \o recordList ELSE sent
    /\ recordList' = << >>
    /\ inPacket' = 0
    /\ upc' = IF upc = "sendFull" THEN "drain" ELSE "sleep"
    /\ UNCHANGED <<settings, postVars, dec_results_queue>>

PskUploaderThread ==
    UploaderWakes \/ Discard \/ AddRecord \/ QueueEmpty \/ \E ok \in BOOLEAN : Send(ok)

(* PSK ON, PSK OFF *)
SetReporting ==
    /\ noreport' \in BOOLEAN
    /\ UNCHANGED <<exit_flag, synthetic, reporter, dec_results_queue, postVars, upVars>>

Quit ==
    /\ exit_flag' = TRUE
    /\ UNCHANGED <<synthetic, noreport, reporter, dec_results_queue, postVars, upVars>>

Next == PostSpots \/ PushSpot \/ PskUploaderThread \/ SetReporting \/ Quit

Spec == Init /\ [][Next]_vars

(* The thread waits for nothing but the minute to end. *)
FairSpec == Spec /\ WF_vars(PskUploaderThread)

-----------------------------------------------------------------------------
(* Whatever the switch does in the middle of a batch, and whichever send() *)
(* fails: the spots reported, those in the packet being built and those in *)
(* the queue are each there once and in the order of their posting, no     *)
(* packet exceeds MAX_REPORTS_PER_PACKET, and no record is held back until *)
(* the next minute.                                                        *)
SpotsInOrder ==
    LET all == sent \o recordList \o dec_results_queue
    IN /\ \A i \in 1 .. Len(all) - 1 : all[i] < all[i + 1]
       /\ Len(recordList) <= MAX_REPORTS_PER_PACKET
       /\ upc \in {"sleep", "discard", "end"} => recordList = << >>

(* Synthetic spots never reach the live database, although the operator    *)
(* may turn reporting on while they are made (PSK ON only sets noreport).  *)
TestSpotsStayHome ==
    synthetic => sent = << >> /\ recordList = << >>

(* A spot does not wait in the queue for ever, with reporting on or off    *)
(* and with or without a reporter: it is reported, lost or thrown away, or *)
(* the program ends.                                                       *)
SpotsLeave ==
    \A n \in 1 .. MaxSpots :
       LET waiting == \E i \in DOMAIN dec_results_queue : dec_results_queue[i] = n
       IN waiting ~> (~waiting \/ upc = "end")
=============================================================================
