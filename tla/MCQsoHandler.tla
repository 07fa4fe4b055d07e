---------------------------- MODULE MCQsoHandler ----------------------------
(* Instances of QsoHandler for TLC. *)
EXTENDS QsoContact, TLC

CONSTANTS c1, c2, c3

(* Two stations with different hashes. *)
DistinctHash == (c1 :> 1) @@ (c2 :> 2)

(* One station. *)
OneHash == c1 :> 1

(* Three stations, two of which collide in hashCallId(). *)
CollidingHash == (c1 :> 1) @@ (c2 :> 1) @@ (c3 :> 2)

(* Answers to our calls, as short a set as drives every state change. *)
Answers == {<<"us", "report">>, <<"us", "RR73">>, <<"us", "73">>}

(* The least that makes both kinds of QSO begin and go on. *)
Openings == {<<"CQ", "other">>, <<"us", "report">>, <<"us", "RR73">>}

(* Every kind of message the state machine tells apart. *)
AnyMessage == Answers \cup
    {<<"us", "grid">>, <<"us", "rogerReport">>, <<"CQ", "other">>, <<"other", "report">>}

(* The operator switches everything on, and leaves the slot alone. *)
SwitchOn == {"AUTOCQ ON", "AUTOREPLY ON", "AUTOQSO ON"}

(* Incoming calls are worked, and the slot is changed at any moment. *)
SlotChanges == {"AUTOQSO ON", "SLOT ODD", "SLOT EVEN", "QUIT"}

(* Self CQ and answers turned on and off, the slot changing under a contact. *)
Undecided == {"AUTOQSO ON", "AUTOREPLY ON", "AUTOREPLY OFF", "AUTOQSO OFF",
              "AUTOCQ ON", "AUTOCQ OFF", "SLOT ODD", "SLOT EVEN"}

=============================================================================
