------------------------------ MODULE Contact -------------------------------
(***************************************************************************)
(* What the automatic operator promises to the band, without clocks,       *)
(* slots, threads, switches or the table of stations worked: it talks to   *)
(* one station at a time, calls it a bounded number of times, sends in     *)
(* each stage of a contact the letter of that stage, and records a contact *)
(* only with the station it is in contact with, once reports were          *)
(* exchanged or RR73 came.                                                 *)
(***************************************************************************)
EXTENDS Naturals, Sequences

CONSTANTS
    Calls, NoCall,
    MaxCalls,      \* letters of one contact
    AdiWritable    \* the log can be written

VARIABLES
    stage,         \* none, calling, agreed, closing
    peer,
    calls,         \* letters of the contact so far
    logged,        \* stations in the log
    letters        \* queued for the transmitter

contact == <<stage, peer, calls>>
vars == <<contact, logged, letters>>

Over == stage' = "none" /\ peer' = NoCall /\ calls' = 0

Record == logged' = IF AdiWritable THEN logged \cup {peer} ELSE logged

Words == [calling |-> {"LOC", "SIG"}, agreed |-> {"RR73"}, closing |-> {"73"}]

Init ==
    /\ stage = "none" /\ peer = NoCall /\ calls = 0
    /\ logged = {}
    /\ letters = <<>>

(* A CQ is answered, or a call. *)
Begin(c) ==
    /\ stage = "none"
    /\ stage' = "calling" /\ peer' = c /\ calls' = 0
    /\ UNCHANGED <<logged, letters>>

(* The peer sends a locator or a report; one that answers our report       *)
(* brings the contact forward, any other has it repeated.                  *)
Exchange ==
    /\ stage # "none"
    /\ stage' = "calling" \/ (stage = "calling" /\ stage' = "agreed")
    /\ UNCHANGED <<peer, calls, logged, letters>>

(* The peer sends RR73. *)
Confirm ==
    /\ stage # "none"
    /\ stage' = "closing"
    /\ Record
    /\ UNCHANGED <<peer, calls, letters>>

(* A letter to the peer; the final 73 ends the contact. *)
Call ==
    /\ stage # "none"
    /\ calls < MaxCalls
    /\ \E w \in Words[stage] : letters' = Append(letters, [text |-> w, to |-> peer])
    /\ IF stage = "closing" THEN Over
       ELSE calls' = calls + 1 /\ UNCHANGED <<stage, peer>>
    /\ UNCHANGED logged

(* The time is over after reports were exchanged. *)
Conclude ==
    /\ stage \in {"agreed", "closing"}
    /\ Over
    /\ Record
    /\ UNCHANGED letters

(* The time is over before, or the peer sends 73. *)
GiveUp ==
    /\ stage # "none"
    /\ Over
    /\ UNCHANGED <<logged, letters>>

CallCQ ==
    /\ letters' = Append(letters, [text |-> "CQ", to |-> NoCall])
    /\ UNCHANGED <<contact, logged>>

Transmit ==
    /\ letters # <<>>
    /\ letters' = Tail(letters)
    /\ UNCHANGED <<contact, logged>>

Next ==
    \/ \E c \in Calls : Begin(c)
    \/ Exchange \/ Confirm \/ Call \/ Conclude \/ GiveUp
    \/ CallCQ \/ Transmit

Spec == Init /\ [][Next]_vars

=============================================================================
