---------------------------- MODULE TwoStations -----------------------------
(***************************************************************************)
(* Two copies of the program working each other.  Station "a" calls CQ and *)
(* completes QSOs (AUTOCQ, AUTOQSO); station "b" answers CQs and completes *)
(* QSOs (AUTOREPLY, AUTOQSO).  "a" listens in the even slots and "b" in    *)
(* the odd ones.                                                           *)
(*                                                                         *)
(* Time is the sequence of 15 s slots.  At the end of a slot the decoder   *)
(* pushes what it heard and a tick (decode()), the QSO thread runs one     *)
(* iteration (QsoHandler), and what it queued goes on the air in the next  *)
(* slot, one letter per slot (TXHandler() and the transmitter, which waits *)
(* for the slot boundary).  The band loses letters.                        *)
(*                                                                         *)
(* Instead of "b", the station "a" may work the synthetic peer of the      *)
(* stand-in transmitter (fakePeerReply(), src/fakeTx.cpp), in its normal   *)
(* mode, with the edge-case series or with free text.                      *)
(***************************************************************************)
EXTENDS Integers, Sequences, FiniteSets

CONSTANTS
    MAXQSOLIFETIME, QUERYCQDELAY, MAXQSOPEERS,
    NoCall,
    Both,          \* may both stations call CQ and answer CQs?
    Others,        \* whom "a" works: "program", "peer", "edge", "freetext"
    MaxLoss,       \* bound: letters lost, or answered too early
    LogCap         \* bound: records counted

Stations == {"a", "b"}

(* "b" signing with a suffix is another station to the QSO thread. *)
Heard == {"b", "b/P"}

ASSUME StationsAssumption ==
    /\ MaxLoss \in Nat /\ Both \subseteq BOOLEAN /\ NoCall \notin Stations \cup Heard
    /\ Others \subseteq {"program", "peer", "edge", "freetext"}

StationHash == [s \in Stations \cup Heard |->
                  CASE s = "a" -> 1 [] s = "b" -> 2 [] s = "b/P" -> 3]

VARIABLES
    slot,       \* parity of the slot on the air
    other,      \* whom "a" works
    edges,      \* edge-case forms still to be sent, forms[fakeEdgeIdx ..]
    fakePeer,   \* the answer deposited for the receiver, or none
    set,        \* what each operator switched on, once and for all
    lost,       \* letters lost so far
    heardOf,    \* stations that decoded a letter addressed to them (history)
    aPc, aState, aQso, aRemaining, aCqWait, aBusy, aPeers, aAdi, aTick,
    aAttempts, aTicks, aInbox, aTx,
    bPc, bState, bQso, bRemaining, bCqWait, bBusy, bPeers, bAdi, bTick,
    bAttempts, bTicks, bInbox, bTx

aVars == <<aPc, aState, aQso, aRemaining, aCqWait, aBusy, aPeers, aAdi, aTick,
           aAttempts, aTicks, aInbox, aTx>>
bVars == <<bPc, bState, bQso, bRemaining, bCqWait, bBusy, bPeers, bAdi, bTick,
           bAttempts, bTicks, bInbox, bTx>>
fake  == <<other, edges, fakePeer>>
air   == <<slot, set, lost, heardOf, fake>>
vars  == <<air, aVars, bVars>>

A == INSTANCE QsoHandler WITH
    Calls <- Heard, Hash <- StationHash,
    AdiWritable <- TRUE, Commands <- {}, Heard <- {}, Timely <- TRUE,
    MissSlots <- FALSE, MsgsPerSlot <- 1, TickBound <- 1, TxBound <- 0,
    autoCq <- set["a"].cq, autoCqReply <- set["a"].reply,
    autoQSO <- set["a"].qso, activeSlot <- set["a"].slot,
    qsoExit <- set["a"].exit, decSlot <- slot, heard <- set["a"].none,
    pc <- aPc, qsoState <- aState, currentQSO <- aQso, remaining <- aRemaining,
    cqWait <- aCqWait, txBusy <- aBusy, peers <- aPeers, adi <- aAdi,
    tickMsg <- aTick, attempts <- aAttempts, tick_queue <- aTicks,
    qsoh_queue <- aInbox, tx_queue <- aTx

B == INSTANCE QsoHandler WITH
    Calls <- {"a"}, Hash <- StationHash,
    AdiWritable <- TRUE, Commands <- {}, Heard <- {}, Timely <- TRUE,
    MissSlots <- FALSE, MsgsPerSlot <- 1, TickBound <- 1, TxBound <- 0,
    autoCq <- set["b"].cq, autoCqReply <- set["b"].reply,
    autoQSO <- set["b"].qso, activeSlot <- set["b"].slot,
    qsoExit <- set["b"].exit, decSlot <- slot, heard <- set["b"].none,
    pc <- bPc, qsoState <- bState, currentQSO <- bQso, remaining <- bRemaining,
    cqWait <- bCqWait, txBusy <- bBusy, peers <- bPeers, adi <- bAdi,
    tickMsg <- bTick, attempts <- bAttempts, tick_queue <- bTicks,
    qsoh_queue <- bInbox, tx_queue <- bTx

NoQso == [src |-> NoCall, ft8slot |-> "odd"]

(* AUTOCQ, AUTOREPLY and AUTOQSO, the active slot, EXIT; nothing else is   *)
(* heard in the slot being decoded.                                        *)
Settings(cq, reply, listen) ==
    [cq |-> cq, reply |-> reply, qso |-> TRUE, slot |-> listen,
     exit |-> FALSE, none |-> {}]

(* fakeEdgeMessage() as it comes out of the codec at "a": an RRR, a suffix, *)
(* a bracketed call and a free text (both not for "a"), and two contest     *)
(* exchanges read as "R+00" and as "R".                                     *)
EdgeForms ==
    <<[src |-> "b", text |-> "other"], [src |-> "b/P", text |-> "grid"], << >>, << >>,
      [src |-> "b", text |-> "rogerReport"], [src |-> "b", text |-> "other"]>>

Init ==
    /\ slot = "even"
    /\ other \in Others
    /\ edges = IF other = "edge" THEN EdgeForms ELSE <<>>
    /\ fakePeer = <<>>
    /\ \E both \in Both :
          set = [a |-> Settings(TRUE, both, "even"),
                 b |-> Settings(both, TRUE, "odd")]
    /\ lost = 0
    /\ heardOf = {}
    /\ aPc = "wait" /\ aState = "idle" /\ aQso = NoQso /\ aRemaining = 0
    /\ aCqWait = 0 /\ aBusy = FALSE /\ aPeers = <<>> /\ aAdi = [c \in Heard |-> 0]
    /\ aTick = "garbage" /\ aAttempts = 0 /\ aTicks = <<>> /\ aInbox = <<>>
    /\ aTx = <<>>
    /\ bPc = "wait" /\ bState = "idle" /\ bQso = NoQso /\ bRemaining = 0
    /\ bCqWait = 0 /\ bBusy = FALSE /\ bPeers = <<>> /\ bAdi = [c \in {"a"} |-> 0]
    /\ bTick = "garbage" /\ bAttempts = 0 /\ bTicks = <<>> /\ bInbox = <<>>
    /\ bTx = <<>>

(* The message a letter becomes at the other station. *)
TextOf(text) == CASE text = "LOC"  -> "grid"
                  [] text = "SIG"  -> "report"
                  [] text = "RR73" -> "RR73"
                  [] text = "73"   -> "73"
                  [] text = "CQ"   -> "other"

MessageOf(letter, from) ==
    [dest    |-> IF letter.text = "CQ" THEN "CQ" ELSE "us",
     src     |-> from,
     text    |-> TextOf(letter.text),
     ft8slot |-> slot]

Listening == aPc = "wait" /\ bPc = "wait" /\ aTicks = <<>> /\ bTicks = <<>>

(* One slot on the air: each station sends at most one letter, the other   *)
(* decodes it unless it is lost or it was transmitting itself; then both   *)
(* QSO threads get the tick of the slot.                                   *)
AirSlot ==
    /\ Listening /\ other = "program"
    /\ \E aHeard, bHeard \in BOOLEAN :
          /\ aHeard => bTx # <<>> /\ aTx = <<>>
          /\ bHeard => aTx # <<>> /\ bTx = <<>>
          /\ lost' = lost + Cardinality(
                        {s \in {"a"} : bTx # <<>> /\ aTx = <<>> /\ ~aHeard}
                        \cup {s \in {"b"} : aTx # <<>> /\ bTx = <<>> /\ ~bHeard})
          /\ lost' <= MaxLoss
          /\ aInbox' = IF aHeard THEN <<MessageOf(Head(bTx), "b")>> ELSE <<>>
          /\ bInbox' = IF bHeard THEN <<MessageOf(Head(aTx), "a")>> ELSE <<>>
          /\ heardOf' = heardOf
                \cup {s \in {"a"} : aHeard /\ Head(bTx).text # "CQ"}
                \cup {s \in {"b"} : bHeard /\ Head(aTx).text # "CQ"}
    /\ aTx' = IF aTx = <<>> THEN aTx ELSE Tail(aTx)
    /\ bTx' = IF bTx = <<>> THEN bTx ELSE Tail(bTx)
    /\ aTicks' = <<slot>> /\ bTicks' = <<slot>>
    /\ slot' = A!OtherSlot(slot)
    /\ UNCHANGED <<set, fake, aPc, aState, aQso, aRemaining, aCqWait, aBusy, aPeers, aAdi,
                   aTick, aAttempts, bPc, bState, bQso, bRemaining, bCqWait,
                   bBusy, bPeers, bAdi, bTick, bAttempts>>

(* The letters the synthetic peer answers: a CQ, and what is sent to it.   *)
(* A letter to "b/P" is for somebody else.                                 *)
ForPeer(letter) == letter.text = "CQ" \/ letter.to = "b"

(* The synthetic peer's answer to such a letter: none, or what "a" will    *)
(* decode.  A message that is not for "a" is as good as none.              *)
FakePeerReply(letter) ==
    CASE edges # <<>>                                  -> Head(edges)
      [] edges = <<>> /\ letter.text = "CQ"            -> [src |-> "b", text |-> "grid"]
      [] edges = <<>> /\ letter.text # "CQ" /\ other = "freetext" -> <<>>
      [] edges = <<>> /\ letter.text = "73"            -> <<>>
      [] edges = <<>> /\ letter.text = "RR73" /\ other # "freetext" ->
           [src |-> "b", text |-> "73"]
      [] edges = <<>> /\ letter.text \in {"LOC", "SIG"} /\ other # "freetext" ->
           [src |-> "b", text |-> "rogerReport"]

(* One slot with the stand-in.  fakeHandler() deposits the answer 12.6 s   *)
(* into the slot of the letter, when fillFakeTxBuffer() takes what is      *)
(* there: the answer is heard in the next slot, or already in this one.    *)
(* A letter outside the received band is not even answered.  The station's *)
(* own letter, in the same buffer, is of a slot in which it does not       *)
(* listen.                                                                 *)
FakeSlot ==
    /\ Listening /\ other # "program"
    /\ LET answered == aTx # <<>> /\ ForPeer(Head(aTx))
           heard(answer) == IF answer = <<>> THEN <<>>
                            ELSE <<[dest |-> "us", src |-> answer.src, text |-> answer.text,
                                    ft8slot |-> slot]>>
       IN \/ /\ ~answered
             /\ aInbox' = heard(fakePeer) /\ fakePeer' = <<>>
             /\ UNCHANGED <<lost, edges>>
          \/ /\ answered
             /\ edges' = IF edges = <<>> THEN edges ELSE Tail(edges)
             /\ \/ /\ aInbox' = heard(fakePeer) /\ fakePeer' = FakePeerReply(Head(aTx))
                   /\ UNCHANGED lost
                \/ /\ aInbox' = heard(FakePeerReply(Head(aTx))) /\ fakePeer' = <<>>
                   /\ lost < MaxLoss /\ lost' = lost + 1
          \/ /\ aTx # <<>> /\ lost < MaxLoss /\ lost' = lost + 1
             /\ aInbox' = heard(fakePeer) /\ fakePeer' = <<>>
             /\ UNCHANGED edges
    /\ aTx' = IF aTx = <<>> THEN aTx ELSE Tail(aTx)
    /\ aTicks' = <<slot>>
    /\ slot' = A!OtherSlot(slot)
    /\ UNCHANGED <<set, heardOf, other, aPc, aState, aQso, aRemaining, aCqWait, aBusy,
                   aPeers, aAdi, aTick, aAttempts, bVars>>

StepA == UNCHANGED <<air, bVars>> /\ A!QSOHandler

StepB == UNCHANGED <<air, aVars>> /\ B!QSOHandler

Next == AirSlot \/ FakeSlot \/ StepA \/ StepB

Spec == Init /\ [][Next]_vars

(* Slots follow each other and both QSO threads are scheduled. *)
FairSpec == Spec /\ WF_vars(Next)

-----------------------------------------------------------------------------
(* Properties *)

(* Both logs tell the truth: a record means that both stations decoded a   *)
(* letter the other addressed to them, whatever was lost (the states that  *)
(* updateQsoMachine() logs on timeout against the letters of handleTx()).  *)
TwoWayContact ==
    other = "program" /\ (aAdi["b"] > 0 \/ bAdi["a"] > 0) => heardOf = Stations

(* A contact is reached in spite of any number of losses on the way: one   *)
(* of the two programs ends up with a record of it.                        *)
ContactIsLogged == other = "program" ~> (aAdi["b"] > 0 \/ bAdi["a"] > 0)

(* As long as at most one letter is lost, no station has the contact in    *)
(* its log twice.                                                          *)
LoggedOnce == lost <= 1 => aAdi["b"] <= 1 /\ bAdi["a"] <= 1

(* Against the synthetic peer the exchange goes through to RR73 again and  *)
(* again, although answers may be heard in the wrong slot and whatever     *)
(* edge-case forms come first.                                             *)
ExchangeRepeats ==
    other \in {"peer", "edge"} ~> [](<>(aState = "replyRR73") /\ <>(aState = "idle"))

=============================================================================
