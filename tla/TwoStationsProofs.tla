-------------------------- MODULE TwoStationsProofs -------------------------
(***************************************************************************)
(* Proofs about two copies of the program working each other, for any      *)
(* number of letters lost, any lifetime of a contact and any delay.        *)
(***************************************************************************)
EXTENDS TwoStations, FiniteSetTheorems, TLAPS

QsoStates == {"idle", "replyLoc", "replySig", "replyRR73", "reply73"}
Letters == [text : {"LOC", "SIG", "RR73", "73", "CQ"},
            to : Stations \cup Heard \cup {NoCall}]
Messages == [dest : {"CQ", "us"}, src : Stations,
             text : {"grid", "report", "RR73", "73", "other"},
             ft8slot : {"even", "odd"}]

(* What a QSO thread may hold when it works the other program.             *)
StationType(state, qso, tx, inbox) ==
    /\ state \in QsoStates
    /\ qso.src \in Stations \cup Heard \cup {NoCall}
    /\ tx \in Seq(Letters)
    /\ inbox \in Seq(Messages)

(* What a message for station s tells of who was addressed.                *)
Tells(m, s, addressed) ==
    m.dest = "us" => /\ s \in addressed
                     /\ m.text # "other"
                     /\ m.text # "grid" => addressed = Stations

(* A state beyond the locator says that the station was addressed, one     *)
(* beyond the report that both were, and so does a record.  A letter that  *)
(* answers says that its sender was addressed, a message that answers that *)
(* both were.                                                              *)
Truthful(s, state, logged, tx, inbox) ==
    /\ state \in {"replySig", "replyRR73", "reply73"} => s \in heardOf
    /\ state \in {"replyRR73", "reply73"} => heardOf = Stations
    /\ logged => heardOf = Stations
    /\ \A i \in 1 .. Len(tx) :
          tx[i].text \in {"SIG", "RR73", "73"} => s \in heardOf
    /\ \A i \in 1 .. Len(inbox) : Tells(inbox[i], s, heardOf)

StationA == /\ StationType(aState, aQso, aTx, aInbox)
            /\ Truthful("a", aState, aAdi["b"] > 0, aTx, aInbox)
StationB == /\ StationType(bState, bQso, bTx, bInbox)
            /\ Truthful("b", bState, bAdi["a"] > 0, bTx, bInbox)

TruthInv ==
    other = "program" => /\ StationA /\ StationB
                         /\ heardOf \subseteq Stations
                         /\ slot \in {"even", "odd"}

-----------------------------------------------------------------------------
(* Queues *)

(* A letter put in the queue joins those that were there.                  *)
LEMMA LetterQueued ==
    ASSUME NEW q \in Seq(Letters), NEW l \in Letters
    PROVE  /\ Append(q, l) \in Seq(Letters)
           /\ \A i \in 1 .. Len(Append(q, l)) :
                 Append(q, l)[i] = l \/ \E j \in 1 .. Len(q) : Append(q, l)[i] = q[j]
<1> DEFINE r == Append(q, l)
<1>1. r \in Seq(Letters) /\ Len(q) \in Nat /\ Len(r) = Len(q) + 1
      /\ r[Len(q) + 1] = l /\ \A i \in 1 .. Len(q) : r[i] = q[i]
  OBVIOUS
<1> HIDE DEF r
<1>2. \A i \in 1 .. Len(r) : i \in 1 .. Len(q) \/ i = Len(q) + 1
  BY <1>1
<1> QED  BY <1>1, <1>2 DEF r

(* What is left once the first letter is on the air.                       *)
LEMMA LetterSent ==
    ASSUME NEW q \in Seq(Letters), q # <<>>
    PROVE  /\ Head(q) \in Letters /\ Head(q) = q[1] /\ 1 \in 1 .. Len(q)
           /\ Tail(q) \in Seq(Letters)
           /\ \A i \in 1 .. Len(Tail(q)) : \E j \in 1 .. Len(q) : Tail(q)[i] = q[j]
<1>1. Tail(q) \in Seq(Letters) /\ Len(Tail(q)) = Len(q) - 1 /\ Len(q) \in Nat \ {0}
  OBVIOUS
<1>2. \A i \in 1 .. Len(Tail(q)) : i + 1 \in 1 .. Len(q) /\ Tail(q)[i] = q[i + 1]
  BY <1>1
<1> QED  BY <1>1, <1>2

(* What is left once the first message is drained.                         *)
LEMMA MessageDrained ==
    ASSUME NEW q \in Seq(Messages), q # <<>>
    PROVE  /\ Head(q) \in Messages /\ Head(q) = q[1] /\ 1 \in 1 .. Len(q)
           /\ Tail(q) \in Seq(Messages)
           /\ \A i \in 1 .. Len(Tail(q)) : \E j \in 1 .. Len(q) : Tail(q)[i] = q[j]
<1>1. Tail(q) \in Seq(Messages) /\ Len(Tail(q)) = Len(q) - 1 /\ Len(q) \in Nat \ {0}
  OBVIOUS
<1>2. \A i \in 1 .. Len(Tail(q)) : i + 1 \in 1 .. Len(q) /\ Tail(q)[i] = q[i + 1]
  BY <1>1
<1> QED  BY <1>1, <1>2

-----------------------------------------------------------------------------
(* The QSO thread of station "a" *)

(* A message moves the contact no further than it tells.                   *)
LEMMA MessageA ==
    ASSUME StationA, NEW m \in Messages, A!AddCQ(m) \/ A!AddQso(m),
           m.dest = "CQ" => A!AddCQ(m),
           Tells(m, "a", heardOf),
           heardOf' = heardOf
    PROVE  /\ aState' \in QsoStates
           /\ aQso'.src \in Stations \cup Heard \cup {NoCall}
           /\ aState' \in {"replySig", "replyRR73", "reply73"} => "a" \in heardOf
           /\ aState' \in {"replyRR73", "reply73"} => heardOf = Stations
           /\ aAdi' = aAdi \/ heardOf = Stations
<1> USE DEF StationA, StationType, Truthful, QsoStates, Tells
<1>0. m.dest \in {"CQ", "us"} /\ m.src \in Stations
      /\ m.text \in {"grid", "report", "RR73", "73", "other"}
  BY DEF Messages
<1>1. CASE UNCHANGED A!machine
  BY <1>1 DEF A!machine
<1>2. CASE A!AddCQ(m)
  BY <1>0, <1>1, <1>2 DEF A!AddCQ
<1>3. CASE m.dest = "us" /\ A!StartQso(m)
  BY <1>0, <1>3 DEF A!StartQso
<1>4. CASE m.dest = "us" /\ A!UpdateQso(m)
  <2>1. CASE A!ReceiveLoc
    BY <1>4, <2>1 DEF A!ReceiveLoc
  <2>2. CASE A!ParseMsg(m.text) = "sigMsg" /\ A!ReceiveSig
    <3>1. m.text = "report"
      BY <1>0, <1>4, <2>2 DEF A!ParseMsg
    <3> QED  BY <1>4, <2>2, <3>1 DEF A!ReceiveSig
  <2>3. CASE A!ParseMsg(m.text) = "RR73Msg" /\ A!ReceiveRR73(m.src)
    <3>1. m.text = "RR73"
      BY <1>0, <1>4, <2>3 DEF A!ParseMsg
    <3> QED  BY <1>4, <2>3, <3>1 DEF A!ReceiveRR73
  <2>4. CASE A!Receive73
    BY <2>4 DEF A!Receive73, A!ResetQsoState
  <2> QED  BY <1>4, <2>1, <2>2, <2>3, <2>4 DEF A!UpdateQso
<1> QED
  BY <1>0, <1>1, <1>2, <1>3, <1>4 DEF A!AddQso, A!RefuseQso

(* A step of the first QSO thread keeps what both stations know true, *)
LEMMA ThreadA ==
    ASSUME StationA, A!QSOHandler, heardOf' = heardOf
    PROVE  StationA'
<1> USE DEF StationA, StationType, Truthful
<1>1. CASE A!PopTicks
  BY <1>1 DEF A!PopTicks
<1>2. CASE A!AbortWait \/ A!DrainEnd
  BY <1>2 DEF A!AbortWait, A!DrainEnd, A!machine
<1>3. CASE A!DrainMessage
  <2> DEFINE m == Head(aInbox)
             t == Tail(aInbox)
  <2>1. aInbox # <<>> /\ aInbox' = t /\ aTx' = aTx
    BY <1>3 DEF A!DrainMessage
  <2>2. /\ m \in Messages /\ m = aInbox[1] /\ 1 \in 1 .. Len(aInbox)
        /\ t \in Seq(Messages)
        /\ \A i \in 1 .. Len(t) : \E j \in 1 .. Len(aInbox) : t[i] = aInbox[j]
    BY <2>1, MessageDrained
  <2>3. Tells(m, "a", heardOf)
    BY <2>2
  <2>4. \/ m.dest = "CQ" /\ A!AddCQ(m)
        \/ m.dest = "us" /\ A!AddQso(m)
        \/ UNCHANGED A!machine
    BY <1>3 DEF A!DrainMessage
  <2> HIDE DEF m, t
  <2>5. /\ aState' \in QsoStates
        /\ aQso'.src \in Stations \cup Heard \cup {NoCall}
        /\ aState' \in {"replySig", "replyRR73", "reply73"} => "a" \in heardOf
        /\ aState' \in {"replyRR73", "reply73"} => heardOf = Stations
        /\ aAdi' = aAdi \/ heardOf = Stations
    <3>1. CASE UNCHANGED A!machine
      BY <3>1 DEF A!machine
    <3>2. CASE (m.dest = "CQ" /\ A!AddCQ(m)) \/ (m.dest = "us" /\ A!AddQso(m))
      BY <2>2, <2>3, <3>2, MessageA
    <3> QED  BY <2>4, <3>1, <3>2
  <2>6. \A i \in 1 .. Len(t) : Tells(t[i], "a", heardOf)
    BY <2>2
  <2> QED  BY <2>1, <2>2, <2>5, <2>6
<1>4. CASE A!UpdateQsoMachine
  <2>0. aInbox' = aInbox
    BY <1>4 DEF A!UpdateQsoMachine
  <2>1. CASE A!TimeoutQso
    <3>1. aState' = "idle" /\ aQso'.src = NoCall /\ aTx' = aTx
      BY <2>1 DEF A!TimeoutQso, A!ResetQsoState
    <3>2. aAdi' = aAdi \/ heardOf = Stations
      BY <2>1 DEF A!TimeoutQso
    <3> QED  BY <2>0, <3>1, <3>2 DEF QsoStates
  <2>2. CASE A!HandleTx /\ aState # "idle" /\ aQso.ft8slot = aTick
    <3> DEFINE l == [text |-> A!ReplyText[aState], to |-> aQso.src]
    <3>1. /\ aTx' = Append(aTx, l)
          /\ aState' = aState \/ aState' = "idle"
          /\ UNCHANGED <<aQso, aAdi>>
      BY <2>2 DEF A!HandleTx, A!QueueTx
    <3>2. l \in Letters
      BY <2>2 DEF QsoStates, Letters, A!ReplyText
    <3>3. l.text \in {"SIG", "RR73", "73"} => "a" \in heardOf
      BY <2>2 DEF QsoStates, A!ReplyText
    <3> HIDE DEF l
    <3>4. /\ aTx' \in Seq(Letters)
          /\ \A i \in 1 .. Len(aTx') :
                aTx'[i] = l \/ \E j \in 1 .. Len(aTx) : aTx'[i] = aTx[j]
      BY <3>1, <3>2, LetterQueued
    <3>5. \A i \in 1 .. Len(aTx') :
             aTx'[i].text \in {"SIG", "RR73", "73"} => "a" \in heardOf
      BY <3>3, <3>4
    <3> QED  BY <2>0, <3>1, <3>4, <3>5 DEF QsoStates
  <2>3. CASE UNCHANGED <<A!machine, aTx>>
    BY <2>0, <2>3 DEF A!machine
  <2> QED  BY <1>4, <2>1, <2>2, <2>3 DEF A!UpdateQsoMachine, A!HandleTx
<1>5. CASE A!QueryCQ
  <2>0. UNCHANGED <<aState, aQso, aAdi, aInbox>>
    BY <1>5 DEF A!QueryCQ, A!machine
  <2>1. CASE A!QueueTx("CQ", NoCall)
    <3> DEFINE l == [text |-> "CQ", to |-> NoCall]
    <3>1. aTx' = Append(aTx, l) /\ l \in Letters /\ l.text = "CQ"
      BY <2>1 DEF A!QueueTx, Letters
    <3> HIDE DEF l
    <3>2. /\ aTx' \in Seq(Letters)
          /\ \A i \in 1 .. Len(aTx') :
                aTx'[i] = l \/ \E j \in 1 .. Len(aTx) : aTx'[i] = aTx[j]
      BY <3>1, LetterQueued
    <3>3. \A i \in 1 .. Len(aTx') :
             aTx'[i].text \in {"SIG", "RR73", "73"} => "a" \in heardOf
      BY <3>1, <3>2
    <3> QED  BY <2>0, <3>2, <3>3
  <2>2. CASE UNCHANGED aTx
    BY <2>0, <2>2
  <2> QED  BY <1>5, <2>1, <2>2 DEF A!QueryCQ
<1> QED
  BY <1>1, <1>2, <1>3, <1>4, <1>5 DEF A!QSOHandler

-----------------------------------------------------------------------------
(* The QSO thread of station "b" *)

(* A message moves the contact no further than it tells.                   *)
LEMMA MessageB ==
    ASSUME StationB, NEW m \in Messages, B!AddCQ(m) \/ B!AddQso(m),
           m.dest = "CQ" => B!AddCQ(m),
           Tells(m, "b", heardOf),
           heardOf' = heardOf
    PROVE  /\ bState' \in QsoStates
           /\ bQso'.src \in Stations \cup Heard \cup {NoCall}
           /\ bState' \in {"replySig", "replyRR73", "reply73"} => "b" \in heardOf
           /\ bState' \in {"replyRR73", "reply73"} => heardOf = Stations
           /\ bAdi' = bAdi \/ heardOf = Stations
<1> USE DEF StationB, StationType, Truthful, QsoStates, Tells
<1>0. m.dest \in {"CQ", "us"} /\ m.src \in Stations
      /\ m.text \in {"grid", "report", "RR73", "73", "other"}
  BY DEF Messages
<1>1. CASE UNCHANGED B!machine
  BY <1>1 DEF B!machine
<1>2. CASE B!AddCQ(m)
  BY <1>0, <1>1, <1>2 DEF B!AddCQ
<1>3. CASE m.dest = "us" /\ B!StartQso(m)
  BY <1>0, <1>3 DEF B!StartQso
<1>4. CASE m.dest = "us" /\ B!UpdateQso(m)
  <2>1. CASE B!ReceiveLoc
    BY <1>4, <2>1 DEF B!ReceiveLoc
  <2>2. CASE B!ParseMsg(m.text) = "sigMsg" /\ B!ReceiveSig
    <3>1. m.text = "report"
      BY <1>0, <1>4, <2>2 DEF B!ParseMsg
    <3> QED  BY <1>4, <2>2, <3>1 DEF B!ReceiveSig
  <2>3. CASE B!ParseMsg(m.text) = "RR73Msg" /\ B!ReceiveRR73(m.src)
    <3>1. m.text = "RR73"
      BY <1>0, <1>4, <2>3 DEF B!ParseMsg
    <3> QED  BY <1>4, <2>3, <3>1 DEF B!ReceiveRR73
  <2>4. CASE B!Receive73
    BY <2>4 DEF B!Receive73, B!ResetQsoState
  <2> QED  BY <1>4, <2>1, <2>2, <2>3, <2>4 DEF B!UpdateQso
<1> QED
  BY <1>0, <1>1, <1>2, <1>3, <1>4 DEF B!AddQso, B!RefuseQso

(* and so does one of the second. *)
LEMMA ThreadB ==
    ASSUME StationB, B!QSOHandler, heardOf' = heardOf
    PROVE  StationB'
<1> USE DEF StationB, StationType, Truthful
<1>1. CASE B!PopTicks
  BY <1>1 DEF B!PopTicks
<1>2. CASE B!AbortWait \/ B!DrainEnd
  BY <1>2 DEF B!AbortWait, B!DrainEnd, B!machine
<1>3. CASE B!DrainMessage
  <2> DEFINE m == Head(bInbox)
             t == Tail(bInbox)
  <2>1. bInbox # <<>> /\ bInbox' = t /\ bTx' = bTx
    BY <1>3 DEF B!DrainMessage
  <2>2. /\ m \in Messages /\ m = bInbox[1] /\ 1 \in 1 .. Len(bInbox)
        /\ t \in Seq(Messages)
        /\ \A i \in 1 .. Len(t) : \E j \in 1 .. Len(bInbox) : t[i] = bInbox[j]
    BY <2>1, MessageDrained
  <2>3. Tells(m, "b", heardOf)
    BY <2>2
  <2>4. \/ m.dest = "CQ" /\ B!AddCQ(m)
        \/ m.dest = "us" /\ B!AddQso(m)
        \/ UNCHANGED B!machine
    BY <1>3 DEF B!DrainMessage
  <2> HIDE DEF m, t
  <2>5. /\ bState' \in QsoStates
        /\ bQso'.src \in Stations \cup Heard \cup {NoCall}
        /\ bState' \in {"replySig", "replyRR73", "reply73"} => "b" \in heardOf
        /\ bState' \in {"replyRR73", "reply73"} => heardOf = Stations
        /\ bAdi' = bAdi \/ heardOf = Stations
    <3>1. CASE UNCHANGED B!machine
      BY <3>1 DEF B!machine
    <3>2. CASE (m.dest = "CQ" /\ B!AddCQ(m)) \/ (m.dest = "us" /\ B!AddQso(m))
      BY <2>2, <2>3, <3>2, MessageB
    <3> QED  BY <2>4, <3>1, <3>2
  <2>6. \A i \in 1 .. Len(t) : Tells(t[i], "b", heardOf)
    BY <2>2
  <2> QED  BY <2>1, <2>2, <2>5, <2>6
<1>4. CASE B!UpdateQsoMachine
  <2>0. bInbox' = bInbox
    BY <1>4 DEF B!UpdateQsoMachine
  <2>1. CASE B!TimeoutQso
    <3>1. bState' = "idle" /\ bQso'.src = NoCall /\ bTx' = bTx
      BY <2>1 DEF B!TimeoutQso, B!ResetQsoState
    <3>2. bAdi' = bAdi \/ heardOf = Stations
      BY <2>1 DEF B!TimeoutQso
    <3> QED  BY <2>0, <3>1, <3>2 DEF QsoStates
  <2>2. CASE B!HandleTx /\ bState # "idle" /\ bQso.ft8slot = bTick
    <3> DEFINE l == [text |-> B!ReplyText[bState], to |-> bQso.src]
    <3>1. /\ bTx' = Append(bTx, l)
          /\ bState' = bState \/ bState' = "idle"
          /\ UNCHANGED <<bQso, bAdi>>
      BY <2>2 DEF B!HandleTx, B!QueueTx
    <3>2. l \in Letters
      BY <2>2 DEF QsoStates, Letters, B!ReplyText
    <3>3. l.text \in {"SIG", "RR73", "73"} => "b" \in heardOf
      BY <2>2 DEF QsoStates, B!ReplyText
    <3> HIDE DEF l
    <3>4. /\ bTx' \in Seq(Letters)
          /\ \A i \in 1 .. Len(bTx') :
                bTx'[i] = l \/ \E j \in 1 .. Len(bTx) : bTx'[i] = bTx[j]
      BY <3>1, <3>2, LetterQueued
    <3>5. \A i \in 1 .. Len(bTx') :
             bTx'[i].text \in {"SIG", "RR73", "73"} => "b" \in heardOf
      BY <3>3, <3>4
    <3> QED  BY <2>0, <3>1, <3>4, <3>5 DEF QsoStates
  <2>3. CASE UNCHANGED <<B!machine, bTx>>
    BY <2>0, <2>3 DEF B!machine
  <2> QED  BY <1>4, <2>1, <2>2, <2>3 DEF B!UpdateQsoMachine, B!HandleTx
<1>5. CASE B!QueryCQ
  <2>0. UNCHANGED <<bState, bQso, bAdi, bInbox>>
    BY <1>5 DEF B!QueryCQ, B!machine
  <2>1. CASE B!QueueTx("CQ", NoCall)
    <3> DEFINE l == [text |-> "CQ", to |-> NoCall]
    <3>1. bTx' = Append(bTx, l) /\ l \in Letters /\ l.text = "CQ"
      BY <2>1 DEF B!QueueTx, Letters
    <3> HIDE DEF l
    <3>2. /\ bTx' \in Seq(Letters)
          /\ \A i \in 1 .. Len(bTx') :
                bTx'[i] = l \/ \E j \in 1 .. Len(bTx) : bTx'[i] = bTx[j]
      BY <3>1, LetterQueued
    <3>3. \A i \in 1 .. Len(bTx') :
             bTx'[i].text \in {"SIG", "RR73", "73"} => "b" \in heardOf
      BY <3>1, <3>2
    <3> QED  BY <2>0, <3>2, <3>3
  <2>2. CASE UNCHANGED bTx
    BY <2>0, <2>2
  <2> QED  BY <1>5, <2>1, <2>2 DEF B!QueryCQ
<1> QED
  BY <1>1, <1>2, <1>3, <1>4, <1>5 DEF B!QSOHandler

-----------------------------------------------------------------------------
(* The air *)

(* The letters of a station that was addressed become messages that say    *)
(* so.                                                                     *)
LEMMA MessageTells ==
    ASSUME NEW l \in Letters, NEW from \in Stations, NEW s,
           Stations = {s, from}, heardOf' \subseteq Stations, slot \in {"even", "odd"},
           l.text \in {"SIG", "RR73", "73"} => from \in heardOf',
           l.text # "CQ" => s \in heardOf'
    PROVE  LET m == MessageOf(l, from)
           IN  m \in Messages /\ Tells(m, s, heardOf')
<1> DEFINE m == MessageOf(l, from)
<1>1. l.text \in {"LOC", "SIG", "RR73", "73", "CQ"}
  BY DEF Letters
<1>2. /\ m.dest = IF l.text = "CQ" THEN "CQ" ELSE "us"
      /\ m.text = TextOf(l.text)
  BY DEF MessageOf
<1>3. m = [dest |-> m.dest, src |-> from, text |-> m.text, ft8slot |-> slot]
  BY DEF MessageOf
<1>4. TextOf(l.text) \in {"grid", "report", "RR73", "73", "other"}
      /\ (TextOf(l.text) = "other" => l.text = "CQ")
      /\ (TextOf(l.text) # "grid" => l.text # "LOC")
  BY <1>1 DEF TextOf
<1> HIDE DEF m
<1>5. m \in Messages
  BY <1>1, <1>2, <1>3, <1>4 DEF Messages
<1>6. Tells(m, s, heardOf')
  BY <1>1, <1>2, <1>4 DEF Tells
<1> QED  BY <1>5, <1>6 DEF m

(* An inbox of one message.                                                *)
LEMMA OneMessage ==
    ASSUME NEW m \in Messages
    PROVE  <<m>> \in Seq(Messages) /\ \A i \in 1 .. Len(<<m>>) : <<m>>[i] = m
OBVIOUS

(* The queue of letters after a slot.                                      *)
LEMMA QueueAfterSlot ==
    ASSUME NEW q \in Seq(Letters), NEW s, NEW r, r = IF q = <<>> THEN q ELSE Tail(q),
           heardOf \subseteq heardOf',
           \A i \in 1 .. Len(q) : q[i].text \in {"SIG", "RR73", "73"} => s \in heardOf
    PROVE  /\ r \in Seq(Letters)
           /\ \A i \in 1 .. Len(r) : r[i].text \in {"SIG", "RR73", "73"} => s \in heardOf'
<1>1. CASE q = <<>>
  BY <1>1
<1>2. CASE q # <<>>
  BY <1>2, LetterSent
<1> QED  BY <1>1, <1>2

(* A slot on the air tells what was sent. *)
LEMMA AirKeeps ==
    ASSUME StationA, StationB, heardOf \subseteq Stations, slot \in {"even", "odd"}, AirSlot
    PROVE  /\ StationA' /\ StationB'
           /\ heardOf' \subseteq Stations /\ slot' \in {"even", "odd"}
<1>0. /\ aTx \in Seq(Letters) /\ bTx \in Seq(Letters)
      /\ \A i \in 1 .. Len(aTx) :
            aTx[i].text \in {"SIG", "RR73", "73"} => "a" \in heardOf
      /\ \A i \in 1 .. Len(bTx) :
            bTx[i].text \in {"SIG", "RR73", "73"} => "b" \in heardOf
  BY DEF StationA, StationB, StationType, Truthful
<1>1. PICK aHeard, bHeard \in BOOLEAN :
          /\ aHeard => bTx # <<>>
          /\ bHeard => aTx # <<>>
          /\ aInbox' = IF aHeard THEN <<MessageOf(Head(bTx), "b")>> ELSE <<>>
          /\ bInbox' = IF bHeard THEN <<MessageOf(Head(aTx), "a")>> ELSE <<>>
          /\ heardOf' = heardOf
                \cup {s \in {"a"} : aHeard /\ Head(bTx).text # "CQ"}
                \cup {s \in {"b"} : bHeard /\ Head(aTx).text # "CQ"}
  BY DEF AirSlot
<1>2. /\ heardOf \subseteq heardOf' /\ heardOf' \subseteq Stations
      /\ heardOf = Stations => heardOf' = Stations
  BY <1>1 DEF Stations
<1>3. /\ aTx' = IF aTx = <<>> THEN aTx ELSE Tail(aTx)
      /\ bTx' = IF bTx = <<>> THEN bTx ELSE Tail(bTx)
      /\ UNCHANGED <<aState, aQso, aAdi, bState, bQso, bAdi>>
      /\ slot' \in {"even", "odd"}
  BY DEF AirSlot, A!OtherSlot
<1>4. /\ aTx' \in Seq(Letters)
      /\ \A i \in 1 .. Len(aTx') :
            aTx'[i].text \in {"SIG", "RR73", "73"} => "a" \in heardOf'
  BY <1>0, <1>2, <1>3, QueueAfterSlot
<1>5. /\ bTx' \in Seq(Letters)
      /\ \A i \in 1 .. Len(bTx') :
            bTx'[i].text \in {"SIG", "RR73", "73"} => "b" \in heardOf'
  BY <1>0, <1>2, <1>3, QueueAfterSlot
<1>6. /\ aInbox' \in Seq(Messages)
      /\ \A i \in 1 .. Len(aInbox') : Tells(aInbox'[i], "a", heardOf')
  <2>1. CASE ~aHeard
    <3>1. aInbox' = <<>>
      BY <1>1, <2>1
    <3> QED  BY <3>1
  <2>2. CASE aHeard
    <3> DEFINE l == Head(bTx)
               m == MessageOf(l, "b")
    <3>1. bTx # <<>> /\ aInbox' = <<m>> /\ (l.text # "CQ" => "a" \in heardOf')
      BY <1>1, <2>2
    <3>2. l \in Letters /\ (l.text \in {"SIG", "RR73", "73"} => "b" \in heardOf')
      BY <1>0, <1>2, <3>1, LetterSent
    <3>3. "b" \in Stations /\ Stations = {"a", "b"}
      BY DEF Stations
    <3> HIDE DEF l
    <3>4. m \in Messages /\ Tells(m, "a", heardOf')
      BY <1>2, <3>1, <3>2, <3>3, MessageTells
    <3> HIDE DEF m
    <3>5. aInbox' \in Seq(Messages) /\ \A i \in 1 .. Len(aInbox') : aInbox'[i] = m
      BY <3>1, <3>4, OneMessage
    <3> QED  BY <3>4, <3>5
  <2> QED  BY <2>1, <2>2
<1>7. /\ bInbox' \in Seq(Messages)
      /\ \A i \in 1 .. Len(bInbox') : Tells(bInbox'[i], "b", heardOf')
  <2>1. CASE ~bHeard
    <3>1. bInbox' = <<>>
      BY <1>1, <2>1
    <3> QED  BY <3>1
  <2>2. CASE bHeard
    <3> DEFINE l == Head(aTx)
               m == MessageOf(l, "a")
    <3>1. aTx # <<>> /\ bInbox' = <<m>> /\ (l.text # "CQ" => "b" \in heardOf')
      BY <1>1, <2>2
    <3>2. l \in Letters /\ (l.text \in {"SIG", "RR73", "73"} => "a" \in heardOf')
      BY <1>0, <1>2, <3>1, LetterSent
    <3>3. "a" \in Stations /\ Stations = {"b", "a"}
      BY DEF Stations
    <3> HIDE DEF l
    <3>4. m \in Messages /\ Tells(m, "b", heardOf')
      BY <1>2, <3>1, <3>2, <3>3, MessageTells
    <3> HIDE DEF m
    <3>5. bInbox' \in Seq(Messages) /\ \A i \in 1 .. Len(bInbox') : bInbox'[i] = m
      BY <3>1, <3>4, OneMessage
    <3> QED  BY <3>4, <3>5
  <2> QED  BY <2>1, <2>2
<1>8. StationA'
  BY <1>2, <1>3, <1>4, <1>6 DEF StationA, StationType, Truthful
<1>9. StationB'
  BY <1>2, <1>3, <1>5, <1>7 DEF StationB, StationType, Truthful
<1> QED  BY <1>2, <1>3, <1>8, <1>9

-----------------------------------------------------------------------------
(* The theorem *)

(* Nobody knows anything at the start. *)
LEMMA TruthInit == Init => TruthInv
<1> SUFFICES ASSUME Init PROVE TruthInv
  OBVIOUS
<1>1. aAdi["b"] = 0 /\ bAdi["a"] = 0
  BY DEF Init, Heard
<1>2. /\ aState = "idle" /\ aQso.src = NoCall /\ aTx = <<>> /\ aInbox = <<>>
      /\ bState = "idle" /\ bQso.src = NoCall /\ bTx = <<>> /\ bInbox = <<>>
      /\ heardOf = {} /\ slot = "even"
  BY DEF Init, NoQso
<1> QED
  BY <1>1, <1>2 DEF TruthInv, StationA, StationB, StationType, Truthful, QsoStates

(* Every step keeps it true. *)
LEMMA TruthStep == TruthInv /\ [Next]_vars => TruthInv'
<1> SUFFICES ASSUME TruthInv, [Next]_vars, other' = "program" PROVE TruthInv'
  BY DEF TruthInv
<1>1. CASE AirSlot
  BY <1>1, AirKeeps DEF TruthInv, AirSlot
<1>2. CASE FakeSlot
  BY <1>2 DEF FakeSlot
<1>3. CASE StepA
  <2>1. UNCHANGED <<air, bVars>> /\ A!QSOHandler
    BY <1>3 DEF StepA
  <2>2. UNCHANGED <<slot, heardOf, other>>
    BY <2>1 DEF air, fake
  <2>3. StationA'
    BY <2>1, <2>2, ThreadA DEF TruthInv
  <2>4. StationB'
    BY <2>1, <2>2 DEF TruthInv, StationB, StationType, Truthful, bVars
  <2> QED  BY <2>2, <2>3, <2>4 DEF TruthInv
<1>4. CASE StepB
  <2>1. UNCHANGED <<air, aVars>> /\ B!QSOHandler
    BY <1>4 DEF StepB
  <2>2. UNCHANGED <<slot, heardOf, other>>
    BY <2>1 DEF air, fake
  <2>3. StationB'
    BY <2>1, <2>2, ThreadB DEF TruthInv
  <2>4. StationA'
    BY <2>1, <2>2 DEF TruthInv, StationA, StationType, Truthful, aVars
  <2> QED  BY <2>2, <2>3, <2>4 DEF TruthInv
<1>5. CASE UNCHANGED vars
  BY <1>5 DEF vars, air, fake, aVars, bVars, TruthInv, StationA, StationB,
     StationType, Truthful
<1> QED  BY <1>1, <1>2, <1>3, <1>4, <1>5 DEF Next

(* Whatever is lost, and however long a contact may live, a record in      *)
(* either log means that both stations decoded a letter addressed to them: *)
(* replyRR73, from which updateQsoMachine() logs on timeout, is reached    *)
(* only with a report, and a report is sent only by a station that was     *)
(* addressed.                                                              *)
THEOREM RecordsAreTrue == Spec => []TwoWayContact
<1>1. TruthInv => TwoWayContact
  BY DEF TruthInv, StationA, StationB, Truthful, TwoWayContact
<1> QED  BY <1>1, TruthInit, TruthStep, PTL DEF Spec

-----------------------------------------------------------------------------
(* How often a contact is logged.  At the boundary of a slot one station   *)
(* is about to send and the other listens; each is in a state of the       *)
(* exchange with some ticks of its lifetime left.  Between two boundaries  *)
(* the QSO threads run their iteration, at any pace: the definitions below *)
(* say where a station will be when its iteration is over.                 *)

LongEnough == /\ MAXQSOLIFETIME \in Nat /\ MAXQSOLIFETIME >= 7
              /\ MAXQSOPEERS \in Nat /\ MAXQSOPEERS >= 2

Kinds == {"idle", "replyLoc", "replySig", "replyRR73"}

(* In state k, with that peer, for c ticks at least.                       *)
Holds(state, qso, rem, peer, listens, k, c) ==
    /\ state = k
    /\ k # "idle" => rem >= c /\ qso.src = peer /\ qso.ft8slot = listens

(* Where message m of the peer takes a machine in state k; RR73 is not one *)
(* of them.                                                                *)
Moved(k, m, replies) ==
    IF m.dest = "CQ" THEN IF k = "idle" /\ replies THEN "replyLoc" ELSE k
    ELSE IF m.text = "73" THEN "idle"
    ELSE IF m.text \in {"report", "rogerReport"} /\ k = "replySig" THEN "replyRR73"
    ELSE "replySig"

Answers(peer, listens) ==
    {m \in [dest : {"CQ", "us"}, src : {peer}, ft8slot : {listens},
            text : {"grid", "report", "rogerReport", "73", "other"}] :
        m.dest = "CQ" => m.text = "other"}

(* The message waiting, if any, takes the machine to state k.              *)
Due(state, qso, rem, inbox, peer, listens, replies, k, c) ==
    \/ inbox = <<>> /\ Holds(state, qso, rem, peer, listens, k, c)
    \/ \E m \in Answers(peer, listens) :
         /\ inbox = <<m>> /\ k = Moved(state, m, replies)
         /\ state = "idle" => c <= MAXQSOLIFETIME
         /\ state # "idle" => /\ k # "idle" => rem >= c
                              /\ qso.src = peer /\ qso.ft8slot = listens

LetterOf(k, peer) == [text |-> A!ReplyText[k], to |-> peer]
CallCQ == [text |-> "CQ", to |-> NoCall]

Sent(tx, k, peer) ==
    IF k = "idle" THEN tx = <<>> \/ tx = <<CallCQ>> ELSE tx = <<LetterOf(k, peer)>>

(* The station has heard its slot, and sends its letter in the next.       *)
Sends(pc, ticks, tick, busy, state, qso, rem, inbox, tx, peer, listens, replies, k, c) ==
    \/ /\ pc = "wait" /\ ticks = <<>>
       /\ Holds(state, qso, rem, peer, listens, k, c) /\ Sent(tx, k, peer)
    \/ /\ pc = "wait" /\ ticks = <<listens>> /\ tx = <<>>
       /\ Due(state, qso, rem - 1, inbox, peer, listens, replies, k, c)
    \/ /\ pc = "drain" /\ ticks = <<>> /\ tick = listens /\ tx = <<>>
       /\ Due(state, qso, rem, inbox, peer, listens, replies, k, c)
    \/ /\ pc = "update" /\ ticks = <<>> /\ tick = listens /\ tx = <<>>
       /\ Holds(state, qso, rem, peer, listens, k, c)
    \/ /\ pc = "query" /\ ticks = <<>> /\ tick = listens
       /\ Holds(state, qso, rem, peer, listens, k, c)
       /\ IF k = "idle" THEN tx = <<>> ELSE busy /\ tx = <<LetterOf(k, peer)>>

(* What a station hears in a slot in which it does not listen is no use.   *)
Early(inbox, listens) ==
    inbox = <<>> \/ \E m : inbox = <<m>> /\ m.dest = "us" /\ m.ft8slot # listens

(* The station has sent its letter, and hears the next slot.               *)
Rests(pc, ticks, tick, state, qso, rem, inbox, tx, peer, listens, k, c) ==
    /\ tx = <<>> /\ Early(inbox, listens)
    /\ \/ /\ pc = "wait" /\ ticks = <<>>
          /\ Holds(state, qso, rem, peer, listens, k, c)
       \/ /\ pc = "wait" /\ ticks = <<A!OtherSlot(listens)>>
          /\ Holds(state, qso, rem - 1, peer, listens, k, c)
       \/ /\ pc \in {"drain", "update", "query"} /\ ticks = <<>>
          /\ tick = A!OtherSlot(listens)
          /\ Holds(state, qso, rem, peer, listens, k, c)

ASends(k, c) == Sends(aPc, aTicks, aTick, aBusy, aState, aQso, aRemaining, aInbox, aTx,
                      "b", "even", set["a"].reply, k, c)
BSends(k, c) == Sends(bPc, bTicks, bTick, bBusy, bState, bQso, bRemaining, bInbox, bTx,
                      "a", "odd", set["b"].reply, k, c)
ARests(k, c) == Rests(aPc, aTicks, aTick, aState, aQso, aRemaining, aInbox, aTx,
                      "b", "even", k, c)
BRests(k, c) == Rests(bPc, bTicks, bTick, bState, bQso, bRemaining, bInbox, bTx,
                      "a", "odd", k, c)

(* What never changes, and types.                                          *)
Settled ==
    /\ lost \in Nat /\ slot \in {"even", "odd"}
    /\ set["a"].qso /\ set["a"].slot = "even" /\ ~set["a"].exit
    /\ set["b"].qso /\ set["b"].slot = "odd" /\ ~set["b"].exit
    /\ aRemaining \in Int /\ aAdi \in [Heard -> Nat] /\ aTicks \in Seq({"even", "odd"})
    /\ bRemaining \in Int /\ bAdi \in [{"a"} -> Nat] /\ bTicks \in Seq({"even", "odd"})

(* Queues of one entry.                                                    *)
LEMMA Single ==
    ASSUME NEW x
    PROVE  /\ Head(<<x>>) = x /\ Tail(<<x>>) = <<>> /\ Len(<<x>>) = 1
           /\ <<x>> # <<>> /\ <<x>>[1] = x /\ Append(<<>>, x) = <<x>>
OBVIOUS

(* The message of the peer takes the machine where Moved says. *)
LEMMA AMoves ==
    ASSUME Settled, ~A!CheckPeer("b"), NEW m \in Answers("b", "even"),
           aState # "idle" => aQso.src = "b" /\ aQso.ft8slot = "even",
           (m.dest = "CQ" /\ A!AddCQ(m)) \/ (m.dest = "us" /\ A!AddQso(m))
    PROVE  /\ aState' = Moved(aState, m, set["a"].reply)
           /\ aState' # "idle" => /\ aQso'.src = "b" /\ aQso'.ft8slot = "even"
                                  /\ aRemaining' = IF aState = "idle" THEN MAXQSOLIFETIME
                                                   ELSE aRemaining
           /\ aPeers' = aPeers /\ aAdi' = aAdi
<1> USE DEF Settled
<1>1. /\ m.src = "b" /\ m.ft8slot = "even" /\ m.dest \in {"CQ", "us"}
      /\ m.text \in {"grid", "report", "rogerReport", "73", "other"}
      /\ m.dest = "CQ" => m.text = "other"
  BY DEF Answers
<1>2. /\ A!ParseMsg("73") = "s73Msg" /\ A!ParseMsg("report") = "sigMsg"
      /\ A!ParseMsg("rogerReport") = "sigMsg"
      /\ A!ParseMsg("grid") = "locMsg" /\ A!ParseMsg("other") = "locMsg"
  BY DEF A!ParseMsg
<1>3. CASE m.dest = "CQ" /\ A!AddCQ(m)
  BY <1>1, <1>3 DEF A!AddCQ, A!machine, Moved
<1>4. CASE m.dest = "us" /\ A!RefuseQso(m)
  BY <1>1, <1>4 DEF A!RefuseQso
<1>5. CASE m.dest = "us" /\ A!StartQso(m)
  BY <1>1, <1>2, <1>5 DEF A!StartQso, Moved
<1>6. CASE m.dest = "us" /\ A!UpdateQso(m)
  <2>1. CASE m.text \in {"grid", "other"}
    BY <1>1, <1>2, <1>6, <2>1 DEF A!UpdateQso, A!ReceiveLoc, Moved
  <2>2. CASE m.text \in {"report", "rogerReport"}
    BY <1>1, <1>2, <1>6, <2>2 DEF A!UpdateQso, A!ReceiveSig, Moved
  <2>3. CASE m.text = "73"
    BY <1>1, <1>2, <1>6, <2>3 DEF A!UpdateQso, A!Receive73, A!ResetQsoState, Moved
  <2> QED  BY <1>1, <2>1, <2>2, <2>3
<1> QED  BY <1>1, <1>3, <1>4, <1>5, <1>6 DEF A!AddQso

(* An iteration of the first QSO thread sends the letter that is due. *)
LEMMA ASendsOn ==
    ASSUME Settled, aPeers = <<>>, NEW k \in Kinds, NEW c \in Int, k # "idle" => c >= 1,
           ASends(k, c), A!QSOHandler, set' = set
    PROVE  ASends(k, c)' /\ aPeers' = <<>> /\ aAdi' = aAdi
<1> USE DEF ASends, Settled
<1>0. ~A!CheckPeer("b")
  BY DEF A!CheckPeer
<1>1. CASE A!PopTicks
  BY <1>1, Single DEF A!PopTicks, Sends, Due
<1>2. CASE A!AbortWait
  BY <1>2 DEF A!AbortWait
<1>3. CASE A!DrainMessage
  <2>1. /\ aPc = "drain" /\ aTicks = <<>> /\ aTick = "even" /\ aTx = <<>> /\ aInbox # <<>>
        /\ Due(aState, aQso, aRemaining, aInbox, "b", "even", set["a"].reply, k, c)
    BY <1>3 DEF A!DrainMessage, Sends
  <2>2. PICK m \in Answers("b", "even") :
           /\ aInbox = <<m>> /\ k = Moved(aState, m, set["a"].reply)
           /\ aState = "idle" => c <= MAXQSOLIFETIME
           /\ aState # "idle" => /\ k # "idle" => aRemaining >= c
                                 /\ aQso.src = "b" /\ aQso.ft8slot = "even"
    BY <2>1 DEF Due
  <2>3. Head(aInbox) = m /\ Tail(aInbox) = <<>> /\ m.dest # "other"
    BY <2>2, Single DEF Answers
  <2>4. /\ aInbox' = <<>> /\ UNCHANGED <<aPc, aTicks, aTick, aTx>>
        /\ (m.dest = "CQ" /\ A!AddCQ(m)) \/ (m.dest = "us" /\ A!AddQso(m))
    BY <1>3, <2>3 DEF A!DrainMessage
  <2>5. /\ aState' = k
        /\ k # "idle" => /\ aQso'.src = "b" /\ aQso'.ft8slot = "even"
                         /\ aRemaining' = IF aState = "idle" THEN MAXQSOLIFETIME
                                          ELSE aRemaining
        /\ aPeers' = aPeers /\ aAdi' = aAdi
    BY <1>0, <2>2, <2>4, AMoves
  <2>6. Holds(aState', aQso', aRemaining', "b", "even", k, c)
    BY <2>2, <2>5 DEF Holds
  <2> QED  BY <2>1, <2>4, <2>5, <2>6 DEF Sends, Due
<1>4. CASE A!DrainEnd
  BY <1>4, Single DEF A!DrainEnd, A!machine, Sends, Due
<1>5. CASE A!UpdateQsoMachine
  <2>1. /\ aPc = "update" /\ aTicks = <<>> /\ aTick = "even" /\ aTx = <<>>
        /\ aState = k
        /\ k # "idle" => aRemaining >= 1 /\ aRemaining >= c /\ aQso.src = "b" /\ aQso.ft8slot = "even"
    BY <1>5 DEF A!UpdateQsoMachine, Sends, Holds
  <2>2. aPc' = "query" /\ UNCHANGED <<aTicks, aTick>>
    BY <1>5 DEF A!UpdateQsoMachine
  <2>3. CASE A!TimeoutQso
    <3>1. k = "idle"
      BY <2>1, <2>3 DEF A!TimeoutQso
    <3> QED  BY <2>1, <2>2, <2>3, <3>1 DEF A!TimeoutQso, A!ResetQsoState, Sends, Holds
  <2>4. CASE A!HandleTx /\ k = "idle"
    BY <2>1, <2>2, <2>4 DEF A!HandleTx, A!machine, Sends, Holds
  <2>5. CASE A!HandleTx /\ k # "idle"
    <3>1. /\ aTx' = <<LetterOf(k, "b")>> /\ aState' = k /\ aBusy' = (aState' # "idle")
          /\ UNCHANGED <<aQso, aRemaining, aPeers, aAdi>>
      BY <2>1, <2>5, Single DEF A!HandleTx, A!QueueTx, LetterOf, Kinds, A!ReplyText, B!ReplyText
    <3>2. aBusy'
      BY <2>5, <3>1
    <3>3. Holds(aState', aQso', aRemaining', "b", "even", k, c)
      BY <2>1, <3>1 DEF Holds
    <3> QED  BY <2>1, <2>2, <2>5, <3>1, <3>2, <3>3 DEF Sends
  <2>6. A!TimeoutQso \/ A!HandleTx
    BY <1>5, <2>1 DEF A!UpdateQsoMachine
  <2> QED  BY <2>3, <2>4, <2>5, <2>6
<1>6. CASE A!QueryCQ
  <2>1. /\ aPc = "query" /\ aTicks = <<>> /\ aTick = "even"
        /\ Holds(aState, aQso, aRemaining, "b", "even", k, c)
        /\ IF k = "idle" THEN aTx = <<>> ELSE aBusy /\ aTx = <<LetterOf(k, "b")>>
    BY <1>6 DEF A!QueryCQ, Sends
  <2>2. aPc' = "wait" /\ UNCHANGED <<aState, aQso, aRemaining, aTicks, aPeers, aAdi>>
    BY <1>6 DEF A!QueryCQ, A!machine
  <2>3. Sent(aTx', k, "b")
    <3>1. CASE k = "idle"
      <4>1. aTx' = <<>> \/ aTx' = Append(<<>>, CallCQ)
        BY <1>6, <2>1, <3>1 DEF A!QueryCQ, A!QueueTx, CallCQ
      <4> QED  BY <3>1, <4>1, Single DEF Sent
    <3>2. CASE k # "idle"
      BY <1>6, <2>1, <3>2 DEF A!QueryCQ, Sent
    <3> QED  BY <3>1, <3>2
  <2> QED  BY <2>1, <2>2, <2>3 DEF Sends, Holds
<1> QED
  BY <1>1, <1>2, <1>3, <1>4, <1>5, <1>6 DEF A!QSOHandler

(* and one in the other slot only waits. *)
LEMMA ARestsOn ==
    ASSUME Settled, NEW k \in Kinds, NEW c \in Int, k # "idle" => c >= 1,
           ARests(k, c), A!QSOHandler, set' = set
    PROVE  ARests(k, c)' /\ aPeers' = aPeers /\ aAdi' = aAdi
<1> USE DEF ARests, Settled
<1>0. A!OtherSlot("even") = "odd"
  BY DEF A!OtherSlot
<1>1. CASE A!PopTicks
  BY <1>0, <1>1, Single DEF A!PopTicks, Rests
<1>2. CASE A!AbortWait
  BY <1>2 DEF A!AbortWait
<1>3. CASE A!DrainMessage
  <2>1. PICK m : aInbox = <<m>> /\ m.dest = "us" /\ m.ft8slot # "even"
    BY <1>3 DEF A!DrainMessage, Rests, Early
  <2>2. Head(aInbox) = m /\ Tail(aInbox) = <<>>
    BY <2>1, Single
  <2>3. /\ aPc = "drain" /\ aInbox' = <<>> /\ UNCHANGED <<aPc, aTicks, aTick, aTx>>
        /\ UNCHANGED A!machine
    BY <1>3, <2>1, <2>2 DEF A!DrainMessage, A!AddQso, A!RefuseQso
  <2> QED  BY <2>3 DEF A!machine, Rests, Early
<1>4. CASE A!DrainEnd
  BY <1>4 DEF A!DrainEnd, A!machine, Rests
<1>5. CASE A!UpdateQsoMachine
  <2>1. /\ aTicks = <<>> /\ aTick = "odd" /\ aTx = <<>> /\ Early(aInbox, "even")
        /\ Holds(aState, aQso, aRemaining, "b", "even", k, c)
    BY <1>0, <1>5 DEF A!UpdateQsoMachine, Rests
  <2>2. aPc' = "query" /\ UNCHANGED <<aTicks, aTick, aInbox>>
    BY <1>5 DEF A!UpdateQsoMachine
  <2>3. CASE A!TimeoutQso
    <3>1. k = "idle"
      BY <2>1, <2>3 DEF A!TimeoutQso, Holds
    <3> QED  BY <1>0, <2>1, <2>2, <2>3, <3>1 DEF A!TimeoutQso, A!ResetQsoState, Rests, Holds
  <2>4. CASE UNCHANGED <<A!machine, aTx>>
    BY <1>0, <2>1, <2>2, <2>4 DEF A!machine, Rests
  <2> QED  BY <1>5, <2>1, <2>3, <2>4 DEF A!UpdateQsoMachine
<1>6. CASE A!QueryCQ
  <2>1. /\ aTicks = <<>> /\ aTick = "odd" /\ aTx = <<>> /\ Early(aInbox, "even")
        /\ Holds(aState, aQso, aRemaining, "b", "even", k, c)
    BY <1>0, <1>6 DEF A!QueryCQ, Rests
  <2>2. /\ aPc' = "wait" /\ aTx' = aTx
        /\ UNCHANGED <<aState, aQso, aRemaining, aTicks, aPeers, aAdi, aInbox>>
    BY <1>6, <2>1 DEF A!QueryCQ, A!machine
  <2> QED  BY <2>1, <2>2 DEF Rests
<1> QED
  BY <1>1, <1>2, <1>3, <1>4, <1>5, <1>6 DEF A!QSOHandler

(* The message of the peer takes the machine where Moved says. *)
LEMMA BMoves ==
    ASSUME Settled, ~B!CheckPeer("a"), NEW m \in Answers("a", "odd"),
           bState # "idle" => bQso.src = "a" /\ bQso.ft8slot = "odd",
           (m.dest = "CQ" /\ B!AddCQ(m)) \/ (m.dest = "us" /\ B!AddQso(m))
    PROVE  /\ bState' = Moved(bState, m, set["b"].reply)
           /\ bState' # "idle" => /\ bQso'.src = "a" /\ bQso'.ft8slot = "odd"
                                  /\ bRemaining' = IF bState = "idle" THEN MAXQSOLIFETIME
                                                   ELSE bRemaining
           /\ bPeers' = bPeers /\ bAdi' = bAdi
<1> USE DEF Settled
<1>1. /\ m.src = "a" /\ m.ft8slot = "odd" /\ m.dest \in {"CQ", "us"}
      /\ m.text \in {"grid", "report", "rogerReport", "73", "other"}
      /\ m.dest = "CQ" => m.text = "other"
  BY DEF Answers
<1>2. /\ B!ParseMsg("73") = "s73Msg" /\ B!ParseMsg("report") = "sigMsg"
      /\ B!ParseMsg("rogerReport") = "sigMsg"
      /\ B!ParseMsg("grid") = "locMsg" /\ B!ParseMsg("other") = "locMsg"
  BY DEF B!ParseMsg
<1>3. CASE m.dest = "CQ" /\ B!AddCQ(m)
  BY <1>1, <1>3 DEF B!AddCQ, B!machine, Moved
<1>4. CASE m.dest = "us" /\ B!RefuseQso(m)
  BY <1>1, <1>4 DEF B!RefuseQso
<1>5. CASE m.dest = "us" /\ B!StartQso(m)
  BY <1>1, <1>2, <1>5 DEF B!StartQso, Moved
<1>6. CASE m.dest = "us" /\ B!UpdateQso(m)
  <2>1. CASE m.text \in {"grid", "other"}
    BY <1>1, <1>2, <1>6, <2>1 DEF B!UpdateQso, B!ReceiveLoc, Moved
  <2>2. CASE m.text \in {"report", "rogerReport"}
    BY <1>1, <1>2, <1>6, <2>2 DEF B!UpdateQso, B!ReceiveSig, Moved
  <2>3. CASE m.text = "73"
    BY <1>1, <1>2, <1>6, <2>3 DEF B!UpdateQso, B!Receive73, B!ResetQsoState, Moved
  <2> QED  BY <1>1, <2>1, <2>2, <2>3
<1> QED  BY <1>1, <1>3, <1>4, <1>5, <1>6 DEF B!AddQso

(* An iteration of the second QSO thread sends the letter that is due. *)
LEMMA BSendsOn ==
    ASSUME Settled, bPeers = <<>>, NEW k \in Kinds, NEW c \in Int, k # "idle" => c >= 1,
           BSends(k, c), B!QSOHandler, set' = set
    PROVE  BSends(k, c)' /\ bPeers' = <<>> /\ bAdi' = bAdi
<1> USE DEF BSends, Settled
<1>0. ~B!CheckPeer("a")
  BY DEF B!CheckPeer
<1>1. CASE B!PopTicks
  BY <1>1, Single DEF B!PopTicks, Sends, Due
<1>2. CASE B!AbortWait
  BY <1>2 DEF B!AbortWait
<1>3. CASE B!DrainMessage
  <2>1. /\ bPc = "drain" /\ bTicks = <<>> /\ bTick = "odd" /\ bTx = <<>> /\ bInbox # <<>>
        /\ Due(bState, bQso, bRemaining, bInbox, "a", "odd", set["b"].reply, k, c)
    BY <1>3 DEF B!DrainMessage, Sends
  <2>2. PICK m \in Answers("a", "odd") :
           /\ bInbox = <<m>> /\ k = Moved(bState, m, set["b"].reply)
           /\ bState = "idle" => c <= MAXQSOLIFETIME
           /\ bState # "idle" => /\ k # "idle" => bRemaining >= c
                                 /\ bQso.src = "a" /\ bQso.ft8slot = "odd"
    BY <2>1 DEF Due
  <2>3. Head(bInbox) = m /\ Tail(bInbox) = <<>> /\ m.dest # "other"
    BY <2>2, Single DEF Answers
  <2>4. /\ bInbox' = <<>> /\ UNCHANGED <<bPc, bTicks, bTick, bTx>>
        /\ (m.dest = "CQ" /\ B!AddCQ(m)) \/ (m.dest = "us" /\ B!AddQso(m))
    BY <1>3, <2>3 DEF B!DrainMessage
  <2>5. /\ bState' = k
        /\ k # "idle" => /\ bQso'.src = "a" /\ bQso'.ft8slot = "odd"
                         /\ bRemaining' = IF bState = "idle" THEN MAXQSOLIFETIME
                                          ELSE bRemaining
        /\ bPeers' = bPeers /\ bAdi' = bAdi
    BY <1>0, <2>2, <2>4, BMoves
  <2>6. Holds(bState', bQso', bRemaining', "a", "odd", k, c)
    BY <2>2, <2>5 DEF Holds
  <2> QED  BY <2>1, <2>4, <2>5, <2>6 DEF Sends, Due
<1>4. CASE B!DrainEnd
  BY <1>4, Single DEF B!DrainEnd, B!machine, Sends, Due
<1>5. CASE B!UpdateQsoMachine
  <2>1. /\ bPc = "update" /\ bTicks = <<>> /\ bTick = "odd" /\ bTx = <<>>
        /\ bState = k
        /\ k # "idle" => bRemaining >= 1 /\ bRemaining >= c /\ bQso.src = "a" /\ bQso.ft8slot = "odd"
    BY <1>5 DEF B!UpdateQsoMachine, Sends, Holds
  <2>2. bPc' = "query" /\ UNCHANGED <<bTicks, bTick>>
    BY <1>5 DEF B!UpdateQsoMachine
  <2>3. CASE B!TimeoutQso
    <3>1. k = "idle"
      BY <2>1, <2>3 DEF B!TimeoutQso
    <3> QED  BY <2>1, <2>2, <2>3, <3>1 DEF B!TimeoutQso, B!ResetQsoState, Sends, Holds
  <2>4. CASE B!HandleTx /\ k = "idle"
    BY <2>1, <2>2, <2>4 DEF B!HandleTx, B!machine, Sends, Holds
  <2>5. CASE B!HandleTx /\ k # "idle"
    <3>1. /\ bTx' = <<LetterOf(k, "a")>> /\ bState' = k /\ bBusy' = (bState' # "idle")
          /\ UNCHANGED <<bQso, bRemaining, bPeers, bAdi>>
      BY <2>1, <2>5, Single DEF B!HandleTx, B!QueueTx, LetterOf, Kinds, A!ReplyText, B!ReplyText
    <3>2. bBusy'
      BY <2>5, <3>1
    <3>3. Holds(bState', bQso', bRemaining', "a", "odd", k, c)
      BY <2>1, <3>1 DEF Holds
    <3> QED  BY <2>1, <2>2, <2>5, <3>1, <3>2, <3>3 DEF Sends
  <2>6. B!TimeoutQso \/ B!HandleTx
    BY <1>5, <2>1 DEF B!UpdateQsoMachine
  <2> QED  BY <2>3, <2>4, <2>5, <2>6
<1>6. CASE B!QueryCQ
  <2>1. /\ bPc = "query" /\ bTicks = <<>> /\ bTick = "odd"
        /\ Holds(bState, bQso, bRemaining, "a", "odd", k, c)
        /\ IF k = "idle" THEN bTx = <<>> ELSE bBusy /\ bTx = <<LetterOf(k, "a")>>
    BY <1>6 DEF B!QueryCQ, Sends
  <2>2. bPc' = "wait" /\ UNCHANGED <<bState, bQso, bRemaining, bTicks, bPeers, bAdi>>
    BY <1>6 DEF B!QueryCQ, B!machine
  <2>3. Sent(bTx', k, "a")
    <3>1. CASE k = "idle"
      <4>1. bTx' = <<>> \/ bTx' = Append(<<>>, CallCQ)
        BY <1>6, <2>1, <3>1 DEF B!QueryCQ, B!QueueTx, CallCQ
      <4> QED  BY <3>1, <4>1, Single DEF Sent
    <3>2. CASE k # "idle"
      BY <1>6, <2>1, <3>2 DEF B!QueryCQ, Sent
    <3> QED  BY <3>1, <3>2
  <2> QED  BY <2>1, <2>2, <2>3 DEF Sends, Holds
<1> QED
  BY <1>1, <1>2, <1>3, <1>4, <1>5, <1>6 DEF B!QSOHandler

(* and one in the other slot only waits. *)
LEMMA BRestsOn ==
    ASSUME Settled, NEW k \in Kinds, NEW c \in Int, k # "idle" => c >= 1,
           BRests(k, c), B!QSOHandler, set' = set
    PROVE  BRests(k, c)' /\ bPeers' = bPeers /\ bAdi' = bAdi
<1> USE DEF BRests, Settled
<1>0. A!OtherSlot("odd") = "even"
  BY DEF A!OtherSlot
<1>1. CASE B!PopTicks
  BY <1>0, <1>1, Single DEF B!PopTicks, Rests
<1>2. CASE B!AbortWait
  BY <1>2 DEF B!AbortWait
<1>3. CASE B!DrainMessage
  <2>1. PICK m : bInbox = <<m>> /\ m.dest = "us" /\ m.ft8slot # "odd"
    BY <1>3 DEF B!DrainMessage, Rests, Early
  <2>2. Head(bInbox) = m /\ Tail(bInbox) = <<>>
    BY <2>1, Single
  <2>3. /\ bPc = "drain" /\ bInbox' = <<>> /\ UNCHANGED <<bPc, bTicks, bTick, bTx>>
        /\ UNCHANGED B!machine
    BY <1>3, <2>1, <2>2 DEF B!DrainMessage, B!AddQso, B!RefuseQso
  <2> QED  BY <2>3 DEF B!machine, Rests, Early
<1>4. CASE B!DrainEnd
  BY <1>4 DEF B!DrainEnd, B!machine, Rests
<1>5. CASE B!UpdateQsoMachine
  <2>1. /\ bTicks = <<>> /\ bTick = "even" /\ bTx = <<>> /\ Early(bInbox, "odd")
        /\ Holds(bState, bQso, bRemaining, "a", "odd", k, c)
    BY <1>0, <1>5 DEF B!UpdateQsoMachine, Rests
  <2>2. bPc' = "query" /\ UNCHANGED <<bTicks, bTick, bInbox>>
    BY <1>5 DEF B!UpdateQsoMachine
  <2>3. CASE B!TimeoutQso
    <3>1. k = "idle"
      BY <2>1, <2>3 DEF B!TimeoutQso, Holds
    <3> QED  BY <1>0, <2>1, <2>2, <2>3, <3>1 DEF B!TimeoutQso, B!ResetQsoState, Rests, Holds
  <2>4. CASE UNCHANGED <<B!machine, bTx>>
    BY <1>0, <2>1, <2>2, <2>4 DEF B!machine, Rests
  <2> QED  BY <1>5, <2>1, <2>3, <2>4 DEF B!UpdateQsoMachine
<1>6. CASE B!QueryCQ
  <2>1. /\ bTicks = <<>> /\ bTick = "even" /\ bTx = <<>> /\ Early(bInbox, "odd")
        /\ Holds(bState, bQso, bRemaining, "a", "odd", k, c)
    BY <1>0, <1>6 DEF B!QueryCQ, Rests
  <2>2. /\ bPc' = "wait" /\ bTx' = bTx
        /\ UNCHANGED <<bState, bQso, bRemaining, bTicks, bPeers, bAdi, bInbox>>
    BY <1>6, <2>1 DEF B!QueryCQ, B!machine
  <2> QED  BY <2>1, <2>2 DEF Rests
<1> QED
  BY <1>1, <1>2, <1>3, <1>4, <1>5, <1>6 DEF B!QSOHandler

(* The other station has RR73: this one may be waiting for its 73, which   *)
(* it logs if it does not come; nothing else is said to it any more.       *)
Loses(state, inbox, peers, records) ==
    /\ peers = <<>>
    /\ state \in {"idle", "replyLoc", "replyRR73"}
    /\ records <= 1 /\ (state = "replyRR73" => records = 0)
    /\ \A i \in 1 .. Len(inbox) : inbox[i].dest = "us" => inbox[i].text = "73"

(* RR73 was heard, logged and answered in the same iteration; the other    *)
(* station is refused from then on.                                        *)
HasRR73(pc, ticks, tick, state, qso, rem, inbox, tx, peers, records, peer, listens) ==
    /\ peers = <<>> /\ records = 0 /\ tx = <<>>
    /\ inbox = <<[dest |-> "us", src |-> peer, text |-> "RR73", ft8slot |-> listens]>>
    /\ state = "replySig" /\ qso.src = peer /\ qso.ft8slot = listens
    /\ \/ pc = "wait" /\ ticks = <<listens>> /\ rem >= 2
       \/ pc = "drain" /\ ticks = <<>> /\ tick = listens /\ rem >= 1

Worked(pc, tick, state, qso, rem, inbox, tx, peers, records, peer, listens) ==
    /\ peers = <<StationHash[peer]>> /\ records <= 1
    /\ \/ state = "idle"
       \/ /\ state = "reply73" /\ pc \in {"drain", "update"} /\ inbox = <<>>
          /\ tick = listens /\ qso.ft8slot = listens /\ rem >= 1
    /\ \A i \in 1 .. Len(inbox) : inbox[i].src = peer
    /\ \A i \in 1 .. Len(tx) : tx[i].text \in {"CQ", "73"}

ALoses == Loses(aState, aInbox, aPeers, aAdi["b"])
BLoses == Loses(bState, bInbox, bPeers, bAdi["a"])
AWins == \/ HasRR73(aPc, aTicks, aTick, aState, aQso, aRemaining, aInbox, aTx, aPeers,
                    aAdi["b"], "b", "even")
         \/ Worked(aPc, aTick, aState, aQso, aRemaining, aInbox, aTx, aPeers,
                   aAdi["b"], "b", "even")
BWins == \/ HasRR73(bPc, bTicks, bTick, bState, bQso, bRemaining, bInbox, bTx, bPeers,
                    bAdi["a"], "a", "odd")
         \/ Worked(bPc, bTick, bState, bQso, bRemaining, bInbox, bTx, bPeers,
                   bAdi["a"], "a", "odd")

(* The pairs of states, the sender's and the listener's, with their        *)
(* lifetimes, as long as neither has RR73.  A loss costs two ticks.        *)
Phases(l, sk, sc, rk, rc) ==
    LET left(n) == MAXQSOLIFETIME - n
    IN  \/ sk = "idle" /\ rk = "idle"
        \/ sk = "replyLoc" /\ rk = "idle" /\ sc >= left(2 * l)
        \/ sk = "idle" /\ rk = "replyLoc" /\ l = 1 /\ rc >= left(1)
        \/ sk = "replySig" /\ rk = "replyLoc" /\ sc >= left(2 * l) /\ rc >= left(1 + 2 * l)
        \/ sk = "replyLoc" /\ rk = "replySig" /\ l = 1 /\ sc >= left(2) /\ rc >= left(1)
        \/ sk = "replySig" /\ rk = "replySig" /\ sc >= left(2 + 2 * l) /\ rc >= left(1 + 4 * l)
        \/ sk = "replyRR73" /\ rk = "replySig" /\ sc >= left(2 + 4 * l) /\ rc >= left(3 + 2 * l)
        \/ sk = "replySig" /\ rk = "replyRR73" /\ l = 1 /\ sc >= left(4) /\ rc >= left(3)

Open ==
    /\ aPeers = <<>> /\ bPeers = <<>> /\ aAdi["b"] = 0 /\ bAdi["a"] = 0
    /\ \E sk, rk \in Kinds : \E sc, rc \in 0 .. MAXQSOLIFETIME :
          /\ Phases(lost, sk, sc, rk, rc)
          /\ \/ slot = "odd" /\ ASends(sk, sc) /\ BRests(rk, rc)
             \/ slot = "even" /\ BSends(sk, sc) /\ ARests(rk, rc)

OnceInv ==
    other = "program" /\ lost <= 1 => \/ Open
                                      \/ ALoses /\ BWins
                                      \/ AWins /\ BLoses

(* At most one record is written at a time. *)
LEMMA ALogs ==
    ASSUME Settled, NEW call, A!LogToAdi(call)
    PROVE  /\ aAdi' \in [Heard -> Nat]
           /\ aAdi'["b"] = aAdi["b"] \/ aAdi'["b"] = aAdi["b"] + 1
<1>1. \/ aAdi' = aAdi
      \/ aAdi' = [aAdi EXCEPT ![call] = @ + 1]
  BY DEF A!LogToAdi
<1>2. "b" \in Heard /\ aAdi \in [Heard -> Nat]
  BY DEF Heard, Settled
<1> QED  BY <1>1, <1>2

(* An iteration of the first QSO thread keeps the types. *)
LEMMA ATypesOn ==
    ASSUME LongEnough, Settled, A!QSOHandler
    PROVE  /\ aRemaining' \in Int /\ aTicks' \in Seq({"even", "odd"})
           /\ aAdi' \in [Heard -> Nat]
<1>0. /\ aRemaining \in Int /\ aTicks \in Seq({"even", "odd"}) /\ aAdi \in [Heard -> Nat]
      /\ MAXQSOLIFETIME \in Int /\ <<>> \in Seq({"even", "odd"}) /\ Len(aTicks) \in Int
  BY DEF Settled, LongEnough
<1>1. CASE A!PopTicks
  BY <1>0, <1>1 DEF A!PopTicks
<1>2. CASE A!AbortWait \/ A!DrainEnd
  BY <1>0, <1>2 DEF A!AbortWait, A!DrainEnd, A!machine
<1>3. CASE A!DrainMessage
  <2>1. aTicks' = aTicks
    BY <1>3 DEF A!DrainMessage
  <2>2. CASE UNCHANGED A!machine
    BY <1>0, <2>1, <2>2 DEF A!machine
  <2>3. ASSUME NEW m, A!AddCQ(m) PROVE aRemaining' \in Int /\ aAdi' = aAdi
    BY <1>0, <2>3 DEF A!AddCQ, A!machine
  <2>4. ASSUME NEW m, A!AddQso(m) PROVE aRemaining' \in Int /\ aAdi' \in [Heard -> Nat]
    <3>1. CASE A!RefuseQso(m)
      BY <1>0, <3>1 DEF A!RefuseQso, A!machine
    <3>2. CASE A!StartQso(m)
      BY <1>0, <3>2 DEF A!StartQso
    <3>3. CASE A!UpdateQso(m)
      <4>1. CASE A!ReceiveLoc \/ A!ReceiveSig \/ A!Receive73
        BY <1>0, <4>1 DEF A!ReceiveLoc, A!ReceiveSig, A!Receive73, A!ResetQsoState
      <4>2. CASE A!ReceiveRR73(m.src)
        BY <1>0, <4>2, ALogs DEF A!ReceiveRR73
      <4> QED  BY <3>3, <4>1, <4>2 DEF A!UpdateQso
    <3> QED  BY <2>4, <3>1, <3>2, <3>3 DEF A!AddQso
  <2> QED  BY <1>0, <1>3, <2>1, <2>2, <2>3, <2>4 DEF A!DrainMessage
<1>4. CASE A!UpdateQsoMachine
  <2>1. aTicks' = aTicks
    BY <1>4 DEF A!UpdateQsoMachine
  <2>2. CASE A!TimeoutQso
    BY <1>0, <2>1, <2>2, ALogs DEF A!TimeoutQso, A!ResetQsoState
  <2>3. CASE A!HandleTx \/ UNCHANGED <<A!machine, aTx>>
    BY <1>0, <2>1, <2>3 DEF A!HandleTx, A!machine
  <2> QED  BY <1>4, <2>2, <2>3 DEF A!UpdateQsoMachine
<1>5. CASE A!QueryCQ
  BY <1>0, <1>5 DEF A!QueryCQ, A!machine
<1> QED
  BY <1>1, <1>2, <1>3, <1>4, <1>5 DEF A!QSOHandler

(* At most one record is written at a time. *)
LEMMA BLogs ==
    ASSUME Settled, NEW call, B!LogToAdi(call)
    PROVE  /\ bAdi' \in [{"a"} -> Nat]
           /\ bAdi'["a"] = bAdi["a"] \/ bAdi'["a"] = bAdi["a"] + 1
<1>1. \/ bAdi' = bAdi
      \/ bAdi' = [bAdi EXCEPT ![call] = @ + 1]
  BY DEF B!LogToAdi
<1>2. "a" \in {"a"} /\ bAdi \in [{"a"} -> Nat]
  BY DEF Settled
<1> QED  BY <1>1, <1>2

(* An iteration of the second QSO thread keeps the types. *)
LEMMA BTypesOn ==
    ASSUME LongEnough, Settled, B!QSOHandler
    PROVE  /\ bRemaining' \in Int /\ bTicks' \in Seq({"odd", "even"})
           /\ bAdi' \in [{"a"} -> Nat]
<1>0. /\ bRemaining \in Int /\ bTicks \in Seq({"odd", "even"}) /\ bAdi \in [{"a"} -> Nat]
      /\ MAXQSOLIFETIME \in Int /\ <<>> \in Seq({"odd", "even"}) /\ Len(bTicks) \in Int
  BY DEF Settled, LongEnough
<1>1. CASE B!PopTicks
  BY <1>0, <1>1 DEF B!PopTicks
<1>2. CASE B!AbortWait \/ B!DrainEnd
  BY <1>0, <1>2 DEF B!AbortWait, B!DrainEnd, B!machine
<1>3. CASE B!DrainMessage
  <2>1. bTicks' = bTicks
    BY <1>3 DEF B!DrainMessage
  <2>2. CASE UNCHANGED B!machine
    BY <1>0, <2>1, <2>2 DEF B!machine
  <2>3. ASSUME NEW m, B!AddCQ(m) PROVE bRemaining' \in Int /\ bAdi' = bAdi
    BY <1>0, <2>3 DEF B!AddCQ, B!machine
  <2>4. ASSUME NEW m, B!AddQso(m) PROVE bRemaining' \in Int /\ bAdi' \in [{"a"} -> Nat]
    <3>1. CASE B!RefuseQso(m)
      BY <1>0, <3>1 DEF B!RefuseQso, B!machine
    <3>2. CASE B!StartQso(m)
      BY <1>0, <3>2 DEF B!StartQso
    <3>3. CASE B!UpdateQso(m)
      <4>1. CASE B!ReceiveLoc \/ B!ReceiveSig \/ B!Receive73
        BY <1>0, <4>1 DEF B!ReceiveLoc, B!ReceiveSig, B!Receive73, B!ResetQsoState
      <4>2. CASE B!ReceiveRR73(m.src)
        BY <1>0, <4>2, BLogs DEF B!ReceiveRR73
      <4> QED  BY <3>3, <4>1, <4>2 DEF B!UpdateQso
    <3> QED  BY <2>4, <3>1, <3>2, <3>3 DEF B!AddQso
  <2> QED  BY <1>0, <1>3, <2>1, <2>2, <2>3, <2>4 DEF B!DrainMessage
<1>4. CASE B!UpdateQsoMachine
  <2>1. bTicks' = bTicks
    BY <1>4 DEF B!UpdateQsoMachine
  <2>2. CASE B!TimeoutQso
    BY <1>0, <2>1, <2>2, BLogs DEF B!TimeoutQso, B!ResetQsoState
  <2>3. CASE B!HandleTx \/ UNCHANGED <<B!machine, bTx>>
    BY <1>0, <2>1, <2>3 DEF B!HandleTx, B!machine
  <2> QED  BY <1>4, <2>2, <2>3 DEF B!UpdateQsoMachine
<1>5. CASE B!QueryCQ
  BY <1>0, <1>5 DEF B!QueryCQ, B!machine
<1> QED
  BY <1>1, <1>2, <1>3, <1>4, <1>5 DEF B!QSOHandler

(* The station the other is done with writes one record at most. *)
LEMMA ALosesOn ==
    ASSUME Settled, StationA, ALoses, A!QSOHandler
    PROVE  ALoses'
<1> USE DEF ALoses, Loses
<1>0. aInbox \in Seq(Messages)
  BY DEF StationA, StationType
<1>1. CASE A!PopTicks
  BY <1>1 DEF A!PopTicks
<1>2. CASE A!AbortWait \/ A!DrainEnd
  BY <1>2 DEF A!AbortWait, A!DrainEnd, A!machine
<1>3. CASE A!DrainMessage
  <2> DEFINE m == Head(aInbox)
             t == Tail(aInbox)
  <2>1. aInbox # <<>> /\ aInbox' = t
    BY <1>3 DEF A!DrainMessage
  <2>2. /\ m \in Messages /\ (m.dest = "us" => m.text = "73")
        /\ \A i \in 1 .. Len(t) : t[i].dest = "us" => t[i].text = "73"
    BY <1>0, <2>1, MessageDrained
  <2>3. \/ m.dest = "CQ" /\ A!AddCQ(m)
        \/ m.dest = "us" /\ A!AddQso(m)
        \/ UNCHANGED A!machine
    BY <1>3 DEF A!DrainMessage
  <2> HIDE DEF m, t
  <2>4. CASE UNCHANGED A!machine
    BY <2>1, <2>2, <2>4 DEF A!machine
  <2>5. CASE A!AddCQ(m)
    BY <2>1, <2>2, <2>5 DEF A!AddCQ, A!machine
  <2>6. CASE m.text = "73" /\ A!AddQso(m)
    <3>0. A!ParseMsg("73") = "s73Msg"
      BY DEF A!ParseMsg
    <3>1. CASE A!RefuseQso(m)
      BY <2>1, <2>2, <3>1 DEF A!RefuseQso, A!machine
    <3>2. CASE A!StartQso(m)
      BY <2>1, <2>2, <2>6, <3>0, <3>2 DEF A!StartQso
    <3>3. CASE A!UpdateQso(m)
      BY <2>1, <2>2, <2>6, <3>0, <3>3 DEF A!UpdateQso, A!Receive73, A!ResetQsoState
    <3> QED  BY <2>6, <3>1, <3>2, <3>3 DEF A!AddQso
  <2> QED  BY <2>2, <2>3, <2>4, <2>5, <2>6
<1>4. CASE A!UpdateQsoMachine
  <2>1. aInbox' = aInbox
    BY <1>4 DEF A!UpdateQsoMachine
  <2>2. CASE A!TimeoutQso
    <3>1. aState' = "idle" /\ aPeers' = aPeers
      BY <2>2 DEF A!TimeoutQso, A!ResetQsoState
    <3>2. CASE aState = "replyRR73"
      <4>1. aAdi'["b"] = aAdi["b"] \/ aAdi'["b"] = aAdi["b"] + 1
        BY <2>2, <3>2, ALogs DEF A!TimeoutQso
      <4> QED  BY <2>1, <3>1, <3>2, <4>1
    <3>3. CASE aState # "replyRR73"
      BY <2>1, <2>2, <3>1, <3>3 DEF A!TimeoutQso
    <3> QED  BY <3>2, <3>3
  <2>3. CASE A!HandleTx \/ UNCHANGED <<A!machine, aTx>>
    BY <2>1, <2>3 DEF A!HandleTx, A!machine
  <2> QED  BY <1>4, <2>2, <2>3 DEF A!UpdateQsoMachine
<1>5. CASE A!QueryCQ
  BY <1>5 DEF A!QueryCQ, A!machine
<1> QED
  BY <1>1, <1>2, <1>3, <1>4, <1>5 DEF A!QSOHandler

(* The station that has RR73 logs it once and is done with the other. *)
LEMMA AWinsOn ==
    ASSUME LongEnough, Settled, StationA, AWins, A!QSOHandler, set' = set
    PROVE  AWins'
<1>0. aInbox \in Seq(Messages) /\ aTx \in Seq(Letters)
  BY DEF StationA, StationType
<1>1. CASE HasRR73(aPc, aTicks, aTick, aState, aQso, aRemaining, aInbox, aTx, aPeers,
                   aAdi["b"], "b", "even")
  <2> DEFINE m == [dest |-> "us", src |-> "b", text |-> "RR73", ft8slot |-> "even"]
  <2>1. /\ aPeers = <<>> /\ aAdi["b"] = 0 /\ aTx = <<>> /\ aInbox = <<m>>
        /\ aState = "replySig" /\ aQso.src = "b" /\ aQso.ft8slot = "even"
        /\ \/ aPc = "wait" /\ aTicks = <<"even">> /\ aRemaining >= 2
           \/ aPc = "drain" /\ aTicks = <<>> /\ aTick = "even" /\ aRemaining >= 1
    BY <1>1 DEF HasRR73
  <2>2. m.dest = "us" /\ m.src = "b" /\ m.text = "RR73" /\ Head(aInbox) = m
        /\ Tail(aInbox) = <<>> /\ aInbox # <<>> /\ m.ft8slot = "even"
    BY <2>1, Single
  <2> HIDE DEF m
  <2>3. CASE A!PopTicks
    <3>1. /\ aPc' = "drain" /\ aTicks' = <<>> /\ aTick' = "even" /\ aRemaining' >= 1
          /\ UNCHANGED <<aPeers, aAdi, aTx, aInbox, aState, aQso>>
      <4>1. aTicks = <<"even">> /\ aRemaining >= 2 /\ aRemaining \in Int
        BY <2>1, <2>3 DEF A!PopTicks, Settled
      <4>2. Len(aTicks) = 1 /\ aTicks[1] = "even"
        BY <4>1, Single
      <4> QED  BY <2>3, <4>1, <4>2 DEF A!PopTicks
    <3> QED  BY <2>1, <3>1 DEF AWins, HasRR73, m
  <2>4. CASE A!DrainMessage
    <3>1. /\ A!AddQso(m) /\ aInbox' = <<>> /\ aPc = "drain"
          /\ UNCHANGED <<aPc, aTicks, aTick, aTx>>
      BY <2>2, <2>4 DEF A!DrainMessage
    <3>2. A!ReceiveRR73("b") /\ UNCHANGED <<aQso, aRemaining>>
      <4>1. A!ParseMsg("RR73") = "RR73Msg"
        BY DEF A!ParseMsg
      <4>2. ~A!RefuseQso(m) /\ ~A!StartQso(m)
        BY <2>1, <2>2 DEF A!RefuseQso, A!StartQso, Settled
      <4> QED  BY <2>2, <3>1, <4>1, <4>2 DEF A!AddQso, A!UpdateQso, A!ReceiveRR73
    <3>3. aState' = "reply73" /\ aPeers' = <<StationHash["b"]>>
      <4>1. ~A!CheckPeer("b") /\ ~(Len(aPeers) + 1 >= MAXQSOPEERS)
        BY <2>1 DEF A!CheckPeer, LongEnough
      <4> QED  BY <2>1, <3>2, <4>1, Single DEF A!ReceiveRR73, A!AddPeer
    <3>4. aAdi'["b"] <= 1
      <4>1. A!LogToAdi("b")
        BY <2>1, <3>2 DEF A!ReceiveRR73
      <4> QED  BY <2>1, <4>1, ALogs
    <3>5. /\ aTx' = <<>> /\ aPc' = "drain" /\ aTick' = "even" /\ aRemaining' >= 1
          /\ aQso'.ft8slot = "even"
      BY <2>1, <3>1, <3>2
    <3> QED  BY <3>1, <3>3, <3>4, <3>5 DEF AWins, Worked
  <2> QED
    BY <2>1, <2>2, <2>3, <2>4 DEF A!QSOHandler, A!AbortWait, A!DrainEnd, A!UpdateQsoMachine,
       A!QueryCQ, Settled
<1>2. CASE Worked(aPc, aTick, aState, aQso, aRemaining, aInbox, aTx, aPeers,
                  aAdi["b"], "b", "even")
  <2> USE <1>2 DEF Worked
  <2>1. A!CheckPeer("b")
    BY Single DEF A!CheckPeer
  <2> SUFFICES Worked(aPc, aTick, aState, aQso, aRemaining, aInbox, aTx, aPeers,
                      aAdi["b"], "b", "even")'
    BY DEF AWins
  <2>2. CASE A!PopTicks \/ A!AbortWait \/ A!DrainEnd
    BY <2>2 DEF A!PopTicks, A!AbortWait, A!DrainEnd, A!machine, Settled
  <2>3. CASE A!DrainMessage
    <3> DEFINE m == Head(aInbox)
               t == Tail(aInbox)
    <3>1. aInbox # <<>> /\ aInbox' = t /\ UNCHANGED <<aPc, aTick, aTx>> /\ aState = "idle"
      BY <2>3 DEF A!DrainMessage
    <3>2. m.src = "b" /\ \A i \in 1 .. Len(t) : t[i].src = "b"
      BY <1>0, <3>1, MessageDrained
    <3>3. A!AddCQ(m) \/ A!AddQso(m) \/ UNCHANGED A!machine
      BY <2>3 DEF A!DrainMessage
    <3> HIDE DEF m, t
    <3>4. UNCHANGED A!machine
      BY <2>1, <3>1, <3>2, <3>3 DEF A!AddCQ, A!AddQso, A!RefuseQso, A!StartQso, A!UpdateQso
    <3> QED  BY <3>1, <3>2, <3>4 DEF A!machine
  <2>4. CASE A!UpdateQsoMachine
    <3>1. UNCHANGED <<aInbox, aTick>> /\ aPc = "update"
      BY <2>4 DEF A!UpdateQsoMachine
    <3>2. CASE A!TimeoutQso
      <4>1. aState = "idle"
        BY <3>2 DEF A!TimeoutQso, Settled
      <4> QED  BY <3>1, <3>2, <4>1 DEF A!TimeoutQso, A!ResetQsoState
    <3>3. CASE aState = "idle" /\ ~A!TimeoutQso
      <4>1. UNCHANGED <<A!machine, aTx>>
        BY <2>4, <3>3 DEF A!UpdateQsoMachine, A!HandleTx
      <4> QED  BY <3>1, <3>3, <4>1 DEF A!machine
    <3>4. CASE aState = "reply73" /\ ~A!TimeoutQso
      <4> DEFINE l == LetterOf("reply73", aQso.src)
      <4>1. /\ aState' = "idle" /\ UNCHANGED <<aPeers, aAdi>>
            /\ aTx' = Append(aTx, l)
        BY <2>4, <3>4 DEF A!UpdateQsoMachine, A!HandleTx, A!QueueTx, LetterOf, Settled,
           A!ReplyText, B!ReplyText
      <4>2. l \in Letters /\ l.text = "73"
        BY DEF Letters, LetterOf, A!ReplyText, B!ReplyText, StationA, StationType
      <4> HIDE DEF l
      <4>3. \A i \in 1 .. Len(aTx') : aTx'[i].text \in {"CQ", "73"}
        BY <1>0, <4>1, <4>2, LetterQueued
      <4> QED  BY <3>1, <4>1, <4>3
    <3> QED  BY <3>2, <3>3, <3>4
  <2>5. CASE A!QueryCQ
    <3>1. aState = "idle" /\ UNCHANGED <<aState, aPeers, aAdi, aInbox>>
      BY <2>5 DEF A!QueryCQ, A!machine
    <3>2. aTx' = aTx \/ aTx' = Append(aTx, CallCQ)
      BY <2>5 DEF A!QueryCQ, A!QueueTx, CallCQ
    <3>3. CallCQ \in Letters /\ CallCQ.text = "CQ"
      BY DEF CallCQ, Letters
    <3>4. \A i \in 1 .. Len(aTx') : aTx'[i].text \in {"CQ", "73"}
      <4>1. CASE aTx' = aTx
        BY <4>1
      <4>2. CASE aTx' = Append(aTx, CallCQ)
        BY <1>0, <3>3, <4>2, LetterQueued
      <4> QED  BY <3>2, <4>1, <4>2
    <3> QED  BY <3>1, <3>4
  <2> QED  BY <2>2, <2>3, <2>4, <2>5 DEF A!QSOHandler
<1> QED  BY <1>1, <1>2 DEF AWins

(* The station the other is done with writes one record at most. *)
LEMMA BLosesOn ==
    ASSUME Settled, StationB, BLoses, B!QSOHandler
    PROVE  BLoses'
<1> USE DEF BLoses, Loses
<1>0. bInbox \in Seq(Messages)
  BY DEF StationB, StationType
<1>1. CASE B!PopTicks
  BY <1>1 DEF B!PopTicks
<1>2. CASE B!AbortWait \/ B!DrainEnd
  BY <1>2 DEF B!AbortWait, B!DrainEnd, B!machine
<1>3. CASE B!DrainMessage
  <2> DEFINE m == Head(bInbox)
             t == Tail(bInbox)
  <2>1. bInbox # <<>> /\ bInbox' = t
    BY <1>3 DEF B!DrainMessage
  <2>2. /\ m \in Messages /\ (m.dest = "us" => m.text = "73")
        /\ \A i \in 1 .. Len(t) : t[i].dest = "us" => t[i].text = "73"
    BY <1>0, <2>1, MessageDrained
  <2>3. \/ m.dest = "CQ" /\ B!AddCQ(m)
        \/ m.dest = "us" /\ B!AddQso(m)
        \/ UNCHANGED B!machine
    BY <1>3 DEF B!DrainMessage
  <2> HIDE DEF m, t
  <2>4. CASE UNCHANGED B!machine
    BY <2>1, <2>2, <2>4 DEF B!machine
  <2>5. CASE B!AddCQ(m)
    BY <2>1, <2>2, <2>5 DEF B!AddCQ, B!machine
  <2>6. CASE m.text = "73" /\ B!AddQso(m)
    <3>0. B!ParseMsg("73") = "s73Msg"
      BY DEF B!ParseMsg
    <3>1. CASE B!RefuseQso(m)
      BY <2>1, <2>2, <3>1 DEF B!RefuseQso, B!machine
    <3>2. CASE B!StartQso(m)
      BY <2>1, <2>2, <2>6, <3>0, <3>2 DEF B!StartQso
    <3>3. CASE B!UpdateQso(m)
      BY <2>1, <2>2, <2>6, <3>0, <3>3 DEF B!UpdateQso, B!Receive73, B!ResetQsoState
    <3> QED  BY <2>6, <3>1, <3>2, <3>3 DEF B!AddQso
  <2> QED  BY <2>2, <2>3, <2>4, <2>5, <2>6
<1>4. CASE B!UpdateQsoMachine
  <2>1. bInbox' = bInbox
    BY <1>4 DEF B!UpdateQsoMachine
  <2>2. CASE B!TimeoutQso
    <3>1. bState' = "idle" /\ bPeers' = bPeers
      BY <2>2 DEF B!TimeoutQso, B!ResetQsoState
    <3>2. CASE bState = "replyRR73"
      <4>1. bAdi'["a"] = bAdi["a"] \/ bAdi'["a"] = bAdi["a"] + 1
        BY <2>2, <3>2, BLogs DEF B!TimeoutQso
      <4> QED  BY <2>1, <3>1, <3>2, <4>1
    <3>3. CASE bState # "replyRR73"
      BY <2>1, <2>2, <3>1, <3>3 DEF B!TimeoutQso
    <3> QED  BY <3>2, <3>3
  <2>3. CASE B!HandleTx \/ UNCHANGED <<B!machine, bTx>>
    BY <2>1, <2>3 DEF B!HandleTx, B!machine
  <2> QED  BY <1>4, <2>2, <2>3 DEF B!UpdateQsoMachine
<1>5. CASE B!QueryCQ
  BY <1>5 DEF B!QueryCQ, B!machine
<1> QED
  BY <1>1, <1>2, <1>3, <1>4, <1>5 DEF B!QSOHandler

(* The station that has RR73 logs it once and is done with the other. *)
LEMMA BWinsOn ==
    ASSUME LongEnough, Settled, StationB, BWins, B!QSOHandler, set' = set
    PROVE  BWins'
<1>0. bInbox \in Seq(Messages) /\ bTx \in Seq(Letters)
  BY DEF StationB, StationType
<1>1. CASE HasRR73(bPc, bTicks, bTick, bState, bQso, bRemaining, bInbox, bTx, bPeers,
                   bAdi["a"], "a", "odd")
  <2> DEFINE m == [dest |-> "us", src |-> "a", text |-> "RR73", ft8slot |-> "odd"]
  <2>1. /\ bPeers = <<>> /\ bAdi["a"] = 0 /\ bTx = <<>> /\ bInbox = <<m>>
        /\ bState = "replySig" /\ bQso.src = "a" /\ bQso.ft8slot = "odd"
        /\ \/ bPc = "wait" /\ bTicks = <<"odd">> /\ bRemaining >= 2
           \/ bPc = "drain" /\ bTicks = <<>> /\ bTick = "odd" /\ bRemaining >= 1
    BY <1>1 DEF HasRR73
  <2>2. m.dest = "us" /\ m.src = "a" /\ m.text = "RR73" /\ Head(bInbox) = m
        /\ Tail(bInbox) = <<>> /\ bInbox # <<>> /\ m.ft8slot = "odd"
    BY <2>1, Single
  <2> HIDE DEF m
  <2>3. CASE B!PopTicks
    <3>1. /\ bPc' = "drain" /\ bTicks' = <<>> /\ bTick' = "odd" /\ bRemaining' >= 1
          /\ UNCHANGED <<bPeers, bAdi, bTx, bInbox, bState, bQso>>
      <4>1. bTicks = <<"odd">> /\ bRemaining >= 2 /\ bRemaining \in Int
        BY <2>1, <2>3 DEF B!PopTicks, Settled
      <4>2. Len(bTicks) = 1 /\ bTicks[1] = "odd"
        BY <4>1, Single
      <4> QED  BY <2>3, <4>1, <4>2 DEF B!PopTicks
    <3> QED  BY <2>1, <3>1 DEF BWins, HasRR73, m
  <2>4. CASE B!DrainMessage
    <3>1. /\ B!AddQso(m) /\ bInbox' = <<>> /\ bPc = "drain"
          /\ UNCHANGED <<bPc, bTicks, bTick, bTx>>
      BY <2>2, <2>4 DEF B!DrainMessage
    <3>2. B!ReceiveRR73("a") /\ UNCHANGED <<bQso, bRemaining>>
      <4>1. B!ParseMsg("RR73") = "RR73Msg"
        BY DEF B!ParseMsg
      <4>2. ~B!RefuseQso(m) /\ ~B!StartQso(m)
        BY <2>1, <2>2 DEF B!RefuseQso, B!StartQso, Settled
      <4> QED  BY <2>2, <3>1, <4>1, <4>2 DEF B!AddQso, B!UpdateQso, B!ReceiveRR73
    <3>3. bState' = "reply73" /\ bPeers' = <<StationHash["a"]>>
      <4>1. ~B!CheckPeer("a") /\ ~(Len(bPeers) + 1 >= MAXQSOPEERS)
        BY <2>1 DEF B!CheckPeer, LongEnough
      <4> QED  BY <2>1, <3>2, <4>1, Single DEF B!ReceiveRR73, B!AddPeer
    <3>4. bAdi'["a"] <= 1
      <4>1. B!LogToAdi("a")
        BY <2>1, <3>2 DEF B!ReceiveRR73
      <4> QED  BY <2>1, <4>1, BLogs
    <3>5. /\ bTx' = <<>> /\ bPc' = "drain" /\ bTick' = "odd" /\ bRemaining' >= 1
          /\ bQso'.ft8slot = "odd"
      BY <2>1, <3>1, <3>2
    <3> QED  BY <3>1, <3>3, <3>4, <3>5 DEF BWins, Worked
  <2> QED
    BY <2>1, <2>2, <2>3, <2>4 DEF B!QSOHandler, B!AbortWait, B!DrainEnd, B!UpdateQsoMachine,
       B!QueryCQ, Settled
<1>2. CASE Worked(bPc, bTick, bState, bQso, bRemaining, bInbox, bTx, bPeers,
                  bAdi["a"], "a", "odd")
  <2> USE <1>2 DEF Worked
  <2>1. B!CheckPeer("a")
    BY Single DEF B!CheckPeer
  <2> SUFFICES Worked(bPc, bTick, bState, bQso, bRemaining, bInbox, bTx, bPeers,
                      bAdi["a"], "a", "odd")'
    BY DEF BWins
  <2>2. CASE B!PopTicks \/ B!AbortWait \/ B!DrainEnd
    BY <2>2 DEF B!PopTicks, B!AbortWait, B!DrainEnd, B!machine, Settled
  <2>3. CASE B!DrainMessage
    <3> DEFINE m == Head(bInbox)
               t == Tail(bInbox)
    <3>1. bInbox # <<>> /\ bInbox' = t /\ UNCHANGED <<bPc, bTick, bTx>> /\ bState = "idle"
      BY <2>3 DEF B!DrainMessage
    <3>2. m.src = "a" /\ \A i \in 1 .. Len(t) : t[i].src = "a"
      BY <1>0, <3>1, MessageDrained
    <3>3. B!AddCQ(m) \/ B!AddQso(m) \/ UNCHANGED B!machine
      BY <2>3 DEF B!DrainMessage
    <3> HIDE DEF m, t
    <3>4. UNCHANGED B!machine
      BY <2>1, <3>1, <3>2, <3>3 DEF B!AddCQ, B!AddQso, B!RefuseQso, B!StartQso, B!UpdateQso
    <3> QED  BY <3>1, <3>2, <3>4 DEF B!machine
  <2>4. CASE B!UpdateQsoMachine
    <3>1. UNCHANGED <<bInbox, bTick>> /\ bPc = "update"
      BY <2>4 DEF B!UpdateQsoMachine
    <3>2. CASE B!TimeoutQso
      <4>1. bState = "idle"
        BY <3>2 DEF B!TimeoutQso, Settled
      <4> QED  BY <3>1, <3>2, <4>1 DEF B!TimeoutQso, B!ResetQsoState
    <3>3. CASE bState = "idle" /\ ~B!TimeoutQso
      <4>1. UNCHANGED <<B!machine, bTx>>
        BY <2>4, <3>3 DEF B!UpdateQsoMachine, B!HandleTx
      <4> QED  BY <3>1, <3>3, <4>1 DEF B!machine
    <3>4. CASE bState = "reply73" /\ ~B!TimeoutQso
      <4> DEFINE l == LetterOf("reply73", bQso.src)
      <4>1. /\ bState' = "idle" /\ UNCHANGED <<bPeers, bAdi>>
            /\ bTx' = Append(bTx, l)
        BY <2>4, <3>4 DEF B!UpdateQsoMachine, B!HandleTx, B!QueueTx, LetterOf, Settled,
           A!ReplyText, B!ReplyText
      <4>2. l \in Letters /\ l.text = "73"
        BY DEF Letters, LetterOf, A!ReplyText, B!ReplyText, StationB, StationType
      <4> HIDE DEF l
      <4>3. \A i \in 1 .. Len(bTx') : bTx'[i].text \in {"CQ", "73"}
        BY <1>0, <4>1, <4>2, LetterQueued
      <4> QED  BY <3>1, <4>1, <4>3
    <3> QED  BY <3>2, <3>3, <3>4
  <2>5. CASE B!QueryCQ
    <3>1. bState = "idle" /\ UNCHANGED <<bState, bPeers, bAdi, bInbox>>
      BY <2>5 DEF B!QueryCQ, B!machine
    <3>2. bTx' = bTx \/ bTx' = Append(bTx, CallCQ)
      BY <2>5 DEF B!QueryCQ, B!QueueTx, CallCQ
    <3>3. CallCQ \in Letters /\ CallCQ.text = "CQ"
      BY DEF CallCQ, Letters
    <3>4. \A i \in 1 .. Len(bTx') : bTx'[i].text \in {"CQ", "73"}
      <4>1. CASE bTx' = bTx
        BY <4>1
      <4>2. CASE bTx' = Append(bTx, CallCQ)
        BY <1>0, <3>3, <4>2, LetterQueued
      <4> QED  BY <3>2, <4>1, <4>2
    <3> QED  BY <3>1, <3>4
  <2> QED  BY <2>2, <2>3, <2>4, <2>5 DEF B!QSOHandler
<1> QED  BY <1>1, <1>2 DEF BWins

-----------------------------------------------------------------------------
(* A slot on the air, as long as neither station has RR73 *)

(* The lifetime left after a slot; an idle machine has none.               *)
LeftOf(k, c) == IF k = "idle" THEN 0 ELSE c - 1

(* The pairs of states are left for one another, by a letter that is heard *)
(* or lost. *)
LEMMA PhaseKept ==
    ASSUME LongEnough, NEW l \in 0 .. 1, NEW sk \in Kinds, NEW rk \in Kinds,
           NEW sc \in 0 .. MAXQSOLIFETIME, NEW rc \in 0 .. MAXQSOLIFETIME,
           Phases(l, sk, sc, rk, rc)
    PROVE  /\ sk # "idle" => sc >= 1
           /\ rk # "idle" => rc >= 2
           /\ LeftOf(sk, sc) \in 0 .. MAXQSOLIFETIME /\ LeftOf(rk, rc) \in 0 .. MAXQSOLIFETIME
           /\ l = 0 => Phases(1, rk, LeftOf(rk, rc), sk, LeftOf(sk, sc))
           /\ sk = "idle" => /\ Phases(l, rk, LeftOf(rk, rc), sk, LeftOf(sk, sc))
                             /\ rk = "idle" => Phases(l, "replyLoc", MAXQSOLIFETIME,
                                                      sk, LeftOf(sk, sc))
           /\ sk = "replyLoc" =>
                Phases(l, "replySig", IF rk = "idle" THEN MAXQSOLIFETIME ELSE rc - 1,
                       sk, LeftOf(sk, sc))
           /\ sk = "replySig" =>
                /\ rk # "idle"
                /\ Phases(l, IF rk = "replySig" THEN "replyRR73" ELSE "replySig", rc - 1,
                          sk, LeftOf(sk, sc))
           /\ sk = "replyRR73" => rk = "replySig"
<1> USE DEF LongEnough, Kinds
<1>1. /\ sk # "idle" => sc >= 1
      /\ rk # "idle" => rc >= 2
  BY DEF Phases
<1>2. LeftOf(sk, sc) \in 0 .. MAXQSOLIFETIME /\ LeftOf(rk, rc) \in 0 .. MAXQSOLIFETIME
  BY <1>1 DEF LeftOf
<1>3. l = 0 => Phases(1, rk, LeftOf(rk, rc), sk, LeftOf(sk, sc))
  BY DEF Phases, LeftOf
<1>4. sk = "idle" => /\ Phases(l, rk, LeftOf(rk, rc), sk, LeftOf(sk, sc))
                     /\ rk = "idle" => Phases(l, "replyLoc", MAXQSOLIFETIME,
                                              sk, LeftOf(sk, sc))
  BY DEF Phases, LeftOf
<1>5. sk = "replyLoc" =>
        Phases(l, "replySig", IF rk = "idle" THEN MAXQSOLIFETIME ELSE rc - 1,
               sk, LeftOf(sk, sc))
  BY DEF Phases, LeftOf
<1>6. sk = "replySig" =>
        /\ rk # "idle"
        /\ Phases(l, IF rk = "replySig" THEN "replyRR73" ELSE "replySig", rc - 1,
                  sk, LeftOf(sk, sc))
  BY DEF Phases, LeftOf
<1>7. sk = "replyRR73" => rk = "replySig"
  BY DEF Phases
<1> QED  BY <1>1, <1>2, <1>3, <1>4, <1>5, <1>6, <1>7

(* What a slot brings to either station, and what it costs. *)
LEMMA SlotOnAir ==
    ASSUME AirSlot, Settled
    PROVE  /\ aPc = "wait" /\ bPc = "wait" /\ aTicks = <<>> /\ bTicks = <<>>
           /\ aTicks' = <<slot>> /\ bTicks' = <<slot>> /\ slot' = A!OtherSlot(slot)
           /\ aTx' = (IF aTx = <<>> THEN aTx ELSE Tail(aTx))
           /\ bTx' = (IF bTx = <<>> THEN bTx ELSE Tail(bTx))
           /\ lost' \in Nat /\ lost <= lost'
           /\ aInbox' = <<>> \/ (bTx # <<>> /\ aInbox' = <<MessageOf(Head(bTx), "b")>>)
           /\ bInbox' = <<>> \/ (aTx # <<>> /\ bInbox' = <<MessageOf(Head(aTx), "a")>>)
           /\ bTx = <<>> => /\ aInbox' = <<>>
                            /\ \/ aTx = <<>> /\ lost' = lost /\ bInbox' = <<>>
                               \/ aTx # <<>> /\ lost' = lost + 1 /\ bInbox' = <<>>
                               \/ /\ aTx # <<>> /\ lost' = lost
                                  /\ bInbox' = <<MessageOf(Head(aTx), "a")>>
           /\ aTx = <<>> => /\ bInbox' = <<>>
                            /\ \/ bTx = <<>> /\ lost' = lost /\ aInbox' = <<>>
                               \/ bTx # <<>> /\ lost' = lost + 1 /\ aInbox' = <<>>
                               \/ /\ bTx # <<>> /\ lost' = lost
                                  /\ aInbox' = <<MessageOf(Head(bTx), "b")>>
           /\ UNCHANGED <<set, other, aPc, aState, aQso, aRemaining, aPeers, aAdi,
                          bPc, bState, bQso, bRemaining, bPeers, bAdi>>
<1>1. PICK aHeard, bHeard \in BOOLEAN :
          /\ aHeard => bTx # <<>> /\ aTx = <<>>
          /\ bHeard => aTx # <<>> /\ bTx = <<>>
          /\ lost' = lost + Cardinality(
                        {s \in {"a"} : bTx # <<>> /\ aTx = <<>> /\ ~aHeard}
                        \cup {s \in {"b"} : aTx # <<>> /\ bTx = <<>> /\ ~bHeard})
          /\ aInbox' = IF aHeard THEN <<MessageOf(Head(bTx), "b")>> ELSE <<>>
          /\ bInbox' = IF bHeard THEN <<MessageOf(Head(aTx), "a")>> ELSE <<>>
  BY DEF AirSlot
<1>2. /\ Cardinality({}) = 0 /\ Cardinality({"a"}) = 1 /\ Cardinality({"b"}) = 1
  BY FS_EmptySet, FS_Singleton
<1> DEFINE miss == {s \in {"a"} : bTx # <<>> /\ aTx = <<>> /\ ~aHeard}
                     \cup {s \in {"b"} : aTx # <<>> /\ bTx = <<>> /\ ~bHeard}
<1>3. \/ bTx # <<>> /\ aTx = <<>> /\ ~aHeard /\ miss = {"a"}
      \/ aTx # <<>> /\ bTx = <<>> /\ ~bHeard /\ miss = {"b"}
      \/ /\ ~(bTx # <<>> /\ aTx = <<>> /\ ~aHeard) /\ ~(aTx # <<>> /\ bTx = <<>> /\ ~bHeard)
         /\ miss = {}
  OBVIOUS
<1>4. lost' = lost + Cardinality(miss) /\ lost \in Nat
  BY <1>1 DEF Settled
<1> HIDE DEF miss
<1>5. \/ bTx # <<>> /\ aTx = <<>> /\ ~aHeard /\ lost' = lost + 1
      \/ aTx # <<>> /\ bTx = <<>> /\ ~bHeard /\ lost' = lost + 1
      \/ /\ ~(bTx # <<>> /\ aTx = <<>> /\ ~aHeard) /\ ~(aTx # <<>> /\ bTx = <<>> /\ ~bHeard)
         /\ lost' = lost
  <2>1. CASE bTx # <<>> /\ aTx = <<>> /\ ~aHeard /\ miss = {"a"}
    BY <1>2, <1>4, <2>1
  <2>2. CASE aTx # <<>> /\ bTx = <<>> /\ ~bHeard /\ miss = {"b"}
    BY <1>2, <1>4, <2>2
  <2>3. CASE /\ ~(bTx # <<>> /\ aTx = <<>> /\ ~aHeard)
             /\ ~(aTx # <<>> /\ bTx = <<>> /\ ~bHeard)
             /\ miss = {}
    <3>1. lost' = lost
      BY <1>2, <1>4, <2>3
    <3> QED  BY <2>3, <3>1
  <2> QED  BY <1>3, <2>1, <2>2, <2>3
<1>6. lost' \in Nat /\ lost <= lost'
  BY <1>4, <1>5
<1>7. /\ aPc = "wait" /\ bPc = "wait" /\ aTicks = <<>> /\ bTicks = <<>>
      /\ aTicks' = <<slot>> /\ bTicks' = <<slot>> /\ slot' = A!OtherSlot(slot)
      /\ aTx' = (IF aTx = <<>> THEN aTx ELSE Tail(aTx))
      /\ bTx' = (IF bTx = <<>> THEN bTx ELSE Tail(bTx))
      /\ UNCHANGED <<set, other, aPc, aState, aQso, aRemaining, aPeers, aAdi,
                     bPc, bState, bQso, bRemaining, bPeers, bAdi>>
  BY DEF AirSlot, Listening, fake
<1>8. /\ aInbox' = <<>> \/ (bTx # <<>> /\ aInbox' = <<MessageOf(Head(bTx), "b")>>)
      /\ bInbox' = <<>> \/ (aTx # <<>> /\ bInbox' = <<MessageOf(Head(aTx), "a")>>)
  BY <1>1
<1>9. bTx = <<>> => /\ aInbox' = <<>>
                    /\ \/ aTx = <<>> /\ lost' = lost /\ bInbox' = <<>>
                       \/ aTx # <<>> /\ lost' = lost + 1 /\ bInbox' = <<>>
                       \/ /\ aTx # <<>> /\ lost' = lost
                          /\ bInbox' = <<MessageOf(Head(aTx), "a")>>
  BY <1>1, <1>5
<1>10. aTx = <<>> => /\ bInbox' = <<>>
                     /\ \/ bTx = <<>> /\ lost' = lost /\ aInbox' = <<>>
                        \/ bTx # <<>> /\ lost' = lost + 1 /\ aInbox' = <<>>
                        \/ /\ bTx # <<>> /\ lost' = lost
                           /\ aInbox' = <<MessageOf(Head(bTx), "b")>>
  BY <1>1, <1>5
<1> QED  BY <1>6, <1>7, <1>8, <1>9, <1>10

(* A slot in which the first station may send, and the other listens. *)
LEMMA ASpeaks ==
    ASSUME LongEnough, Settled, AirSlot, slot = "odd", lost' <= 1,
           NEW sk \in Kinds, NEW rk \in Kinds,
           NEW sc \in 0 .. MAXQSOLIFETIME, NEW rc \in 0 .. MAXQSOLIFETIME,
           ASends(sk, sc), BRests(rk, rc), Phases(lost, sk, sc, rk, rc),
           aPeers = <<>>, bPeers = <<>>, aAdi["b"] = 0, bAdi["a"] = 0
    PROVE  Open' \/ (ALoses' /\ BWins')
<1>1. /\ aPc = "wait" /\ bPc = "wait" /\ aTicks = <<>> /\ bTicks = <<>>
      /\ aTicks' = <<slot>> /\ bTicks' = <<slot>> /\ slot' = A!OtherSlot(slot)
      /\ aTx' = (IF aTx = <<>> THEN aTx ELSE Tail(aTx))
      /\ bTx' = (IF bTx = <<>> THEN bTx ELSE Tail(bTx))
      /\ bTx = <<>> => /\ aInbox' = <<>>
                       /\ \/ aTx = <<>> /\ lost' = lost /\ bInbox' = <<>>
                          \/ aTx # <<>> /\ lost' = lost + 1 /\ bInbox' = <<>>
                          \/ /\ aTx # <<>> /\ lost' = lost
                             /\ bInbox' = <<MessageOf(Head(aTx), "a")>>
      /\ UNCHANGED <<set, other, aPc, aState, aQso, aRemaining, aPeers, aAdi,
                     bPc, bState, bQso, bRemaining, bPeers, bAdi>>
  BY SlotOnAir
<1>2. /\ Holds(aState, aQso, aRemaining, "b", "even", sk, sc) /\ Sent(aTx, sk, "b")
      /\ Holds(bState, bQso, bRemaining, "a", "odd", rk, rc) /\ bTx = <<>>
  BY <1>1, Single DEF ASends, Sends, BRests, Rests
<1>3. /\ aPc' = "wait" /\ bPc' = "wait" /\ aTicks' = <<"odd">> /\ bTicks' = <<"odd">>
      /\ slot' = "even" /\ bTx' = <<>> /\ aInbox' = <<>> /\ A!OtherSlot("even") = "odd"
  BY <1>1, <1>2 DEF A!OtherSlot
<1>4. /\ lost \in 0 .. 1 /\ lost' \in {lost, lost + 1}
      /\ aRemaining \in Int /\ bRemaining \in Int
  BY <1>1, <1>2 DEF Settled
<1>5. IF sk = "idle" THEN aTx = <<>> \/ aTx = <<CallCQ>> ELSE aTx = <<LetterOf(sk, "b")>>
  BY <1>2 DEF Sent
<1>6. aTx' = <<>>
  BY <1>1, <1>5, Single
<1>7. LeftOf(sk, sc) \in 0 .. MAXQSOLIFETIME /\ LeftOf(rk, rc) \in 0 .. MAXQSOLIFETIME
      /\ (rk # "idle" => rc >= 2)
  BY <1>4, PhaseKept
<1>8. ARests(sk, LeftOf(sk, sc))'
  <2>1. Holds(aState', aQso', aRemaining' - 1, "b", "even", sk, LeftOf(sk, sc))
    BY <1>1, <1>2, <1>4, <1>7 DEF Holds, LeftOf
  <2> QED  BY <1>3, <1>6, <2>1 DEF ARests, Rests, Early
<1>9. ASSUME NEW k \in Kinds, NEW c \in 0 .. MAXQSOLIFETIME, BSends(k, c)',
             Phases(lost', k, c, sk, LeftOf(sk, sc))
      PROVE  Open'
  BY <1>1, <1>3, <1>7, <1>8, <1>9 DEF Open
<1>10. CASE bInbox' = <<>>
  <2>1. BSends(rk, LeftOf(rk, rc))'
    <3>1. Holds(bState', bQso', bRemaining' - 1, "a", "odd", rk, LeftOf(rk, rc))
      BY <1>1, <1>2, <1>4, <1>7 DEF Holds, LeftOf
    <3> QED  BY <1>3, <1>10, <3>1 DEF BSends, Sends, Due
  <2>2. CASE aTx = <<>>
    <3>1. sk = "idle" /\ lost' = lost
      BY <1>1, <1>2, <1>5, <2>2, Single
    <3> QED  BY <1>4, <1>7, <1>9, <2>1, <3>1, PhaseKept
  <2>3. CASE aTx # <<>>
    <3>1. lost = 0 /\ lost' = 1
      BY <1>1, <1>2, <1>4, <1>10, <2>3, Single
    <3> QED  BY <1>4, <1>7, <1>9, <2>1, <3>1, PhaseKept
  <2> QED  BY <2>2, <2>3
<1>11. ASSUME NEW m \in Answers("a", "odd"), bInbox' = <<m>>, NEW k \in Kinds,
              k = Moved(rk, m, set["b"].reply), NEW c \in 0 .. MAXQSOLIFETIME,
              rk # "idle" => k = "idle" \/ c <= rc - 1
       PROVE  BSends(k, c)'
  <2>1. /\ bState' = rk /\ set' = set
        /\ rk # "idle" => bRemaining' >= rc /\ bQso'.src = "a" /\ bQso'.ft8slot = "odd"
    BY <1>1, <1>2 DEF Holds
  <2>2. Due(bState', bQso', bRemaining' - 1, <<m>>, "a", "odd", set'["b"].reply, k, c)
    BY <1>1, <1>4, <1>11, <2>1 DEF Due, LongEnough
  <2> QED  BY <1>3, <1>11, <2>2 DEF BSends, Sends
<1>12. CASE aTx # <<>> /\ lost' = lost /\ bInbox' = <<MessageOf(Head(aTx), "a")>>
  <2> DEFINE m == MessageOf(Head(aTx), "a")
  <2>1. CASE sk = "idle"
    <3>1. m = [dest |-> "CQ", src |-> "a", text |-> "other", ft8slot |-> "odd"]
      BY <1>5, <1>12, <2>1, Single DEF MessageOf, TextOf, CallCQ
    <3>2. m \in Answers("a", "odd") /\ bInbox' = <<m>> /\ m.dest = "CQ"
      BY <1>12, <3>1 DEF Answers
    <3> HIDE DEF m
    <3>3. CASE rk = "idle" /\ set["b"].reply
      <4>1. Moved(rk, m, set["b"].reply) = "replyLoc"
        BY <3>2, <3>3 DEF Moved
      <4>2. "replyLoc" \in Kinds /\ MAXQSOLIFETIME \in 0 .. MAXQSOLIFETIME
        BY DEF Kinds, LongEnough
      <4>3. BSends("replyLoc", MAXQSOLIFETIME)'
        BY <1>11, <3>2, <3>3, <4>1, <4>2
      <4> QED  BY <1>4, <1>9, <1>12, <2>1, <3>3, <4>2, <4>3, PhaseKept
    <3>4. CASE ~(rk = "idle" /\ set["b"].reply)
      <4>1. Moved(rk, m, set["b"].reply) = rk
        BY <3>2, <3>4 DEF Moved
      <4>2. rk # "idle" => LeftOf(rk, rc) <= rc - 1
        BY DEF LeftOf
      <4>3. BSends(rk, LeftOf(rk, rc))'
        BY <1>7, <1>11, <3>2, <4>1, <4>2
      <4> QED  BY <1>4, <1>7, <1>9, <1>12, <2>1, <4>3, PhaseKept
    <3> QED  BY <3>3, <3>4
  <2>2. CASE sk = "replyLoc"
    <3>1. m = [dest |-> "us", src |-> "a", text |-> "grid", ft8slot |-> "odd"]
      BY <1>5, <1>12, <2>2, Single DEF MessageOf, TextOf, LetterOf, A!ReplyText, B!ReplyText
    <3>2. m \in Answers("a", "odd") /\ bInbox' = <<m>> /\ m.dest = "us" /\ m.text = "grid"
      BY <1>12, <3>1 DEF Answers
    <3> HIDE DEF m
    <3> DEFINE c == IF rk = "idle" THEN MAXQSOLIFETIME ELSE rc - 1
    <3>3. c \in 0 .. MAXQSOLIFETIME /\ (rk # "idle" => c <= rc - 1)
      BY <1>7 DEF LongEnough
    <3>4. Moved(rk, m, set["b"].reply) = "replySig"
      BY <3>2 DEF Moved
    <3>5. Phases(lost', "replySig", c, sk, LeftOf(sk, sc))
      BY <1>4, <1>12, <2>2, PhaseKept
    <3> HIDE DEF c
    <3>6. BSends("replySig", c)'
      BY <1>11, <3>2, <3>3, <3>4 DEF Kinds
    <3> QED  BY <1>9, <3>3, <3>5, <3>6 DEF Kinds
  <2>3. CASE sk = "replySig"
    <3>1. m = [dest |-> "us", src |-> "a", text |-> "report", ft8slot |-> "odd"]
      BY <1>5, <1>12, <2>3, Single DEF MessageOf, TextOf, LetterOf, A!ReplyText, B!ReplyText
    <3>2. m \in Answers("a", "odd") /\ bInbox' = <<m>> /\ m.dest = "us" /\ m.text = "report"
      BY <1>12, <3>1 DEF Answers
    <3> HIDE DEF m
    <3> DEFINE k == IF rk = "replySig" THEN "replyRR73" ELSE "replySig"
    <3>3. rk # "idle" /\ Phases(lost', k, rc - 1, sk, LeftOf(sk, sc))
      BY <1>4, <1>12, <2>3, PhaseKept
    <3>4. rc - 1 \in 0 .. MAXQSOLIFETIME /\ rc - 1 <= rc - 1
      BY <1>7, <3>3 DEF LongEnough
    <3>5. Moved(rk, m, set["b"].reply) = k /\ k \in Kinds
      BY <3>2 DEF Moved, Kinds
    <3> HIDE DEF k
    <3>6. BSends(k, rc - 1)'
      BY <1>11, <3>2, <3>4, <3>5
    <3> QED  BY <1>9, <3>3, <3>4, <3>5, <3>6
  <2>4. CASE sk = "replyRR73"
    <3>1. m = [dest |-> "us", src |-> "a", text |-> "RR73", ft8slot |-> "odd"]
      BY <1>5, <1>12, <2>4, Single DEF MessageOf, TextOf, LetterOf, A!ReplyText, B!ReplyText
    <3>2. rk = "replySig" /\ bRemaining' >= 2 /\ bQso'.src = "a" /\ bQso'.ft8slot = "odd"
          /\ bState' = "replySig"
      BY <1>1, <1>2, <1>4, <1>7, <2>4, PhaseKept DEF Holds
    <3>3. BWins'
      BY <1>1, <1>3, <1>12, <3>1, <3>2 DEF BWins, HasRR73
    <3>4. ALoses'
      BY <1>1, <1>2, <1>3, <2>4 DEF ALoses, Loses, Holds
    <3> QED  BY <3>3, <3>4
  <2> QED  BY <2>1, <2>2, <2>3, <2>4 DEF Kinds
<1> QED  BY <1>1, <1>2, <1>10, <1>12

(* A slot in which the second station may send, and the other listens. *)
LEMMA BSpeaks ==
    ASSUME LongEnough, Settled, AirSlot, slot = "even", lost' <= 1,
           NEW sk \in Kinds, NEW rk \in Kinds,
           NEW sc \in 0 .. MAXQSOLIFETIME, NEW rc \in 0 .. MAXQSOLIFETIME,
           BSends(sk, sc), ARests(rk, rc), Phases(lost, sk, sc, rk, rc),
           bPeers = <<>>, aPeers = <<>>, bAdi["a"] = 0, aAdi["b"] = 0
    PROVE  Open' \/ (BLoses' /\ AWins')
<1>1. /\ bPc = "wait" /\ aPc = "wait" /\ bTicks = <<>> /\ aTicks = <<>>
      /\ bTicks' = <<slot>> /\ aTicks' = <<slot>> /\ slot' = A!OtherSlot(slot)
      /\ bTx' = (IF bTx = <<>> THEN bTx ELSE Tail(bTx))
      /\ aTx' = (IF aTx = <<>> THEN aTx ELSE Tail(aTx))
      /\ aTx = <<>> => /\ bInbox' = <<>>
                       /\ \/ bTx = <<>> /\ lost' = lost /\ aInbox' = <<>>
                          \/ bTx # <<>> /\ lost' = lost + 1 /\ aInbox' = <<>>
                          \/ /\ bTx # <<>> /\ lost' = lost
                             /\ aInbox' = <<MessageOf(Head(bTx), "b")>>
      /\ UNCHANGED <<set, other, bPc, bState, bQso, bRemaining, bPeers, bAdi,
                     aPc, aState, aQso, aRemaining, aPeers, aAdi>>
  BY SlotOnAir
<1>2. /\ Holds(bState, bQso, bRemaining, "a", "odd", sk, sc) /\ Sent(bTx, sk, "a")
      /\ Holds(aState, aQso, aRemaining, "b", "even", rk, rc) /\ aTx = <<>>
  BY <1>1, Single DEF BSends, Sends, ARests, Rests
<1>3. /\ bPc' = "wait" /\ aPc' = "wait" /\ bTicks' = <<"even">> /\ aTicks' = <<"even">>
      /\ slot' = "odd" /\ aTx' = <<>> /\ bInbox' = <<>> /\ A!OtherSlot("odd") = "even"
  BY <1>1, <1>2 DEF A!OtherSlot
<1>4. /\ lost \in 0 .. 1 /\ lost' \in {lost, lost + 1}
      /\ bRemaining \in Int /\ aRemaining \in Int
  BY <1>1, <1>2 DEF Settled
<1>5. IF sk = "idle" THEN bTx = <<>> \/ bTx = <<CallCQ>> ELSE bTx = <<LetterOf(sk, "a")>>
  BY <1>2 DEF Sent
<1>6. bTx' = <<>>
  BY <1>1, <1>5, Single
<1>7. LeftOf(sk, sc) \in 0 .. MAXQSOLIFETIME /\ LeftOf(rk, rc) \in 0 .. MAXQSOLIFETIME
      /\ (rk # "idle" => rc >= 2)
  BY <1>4, PhaseKept
<1>8. BRests(sk, LeftOf(sk, sc))'
  <2>1. Holds(bState', bQso', bRemaining' - 1, "a", "odd", sk, LeftOf(sk, sc))
    BY <1>1, <1>2, <1>4, <1>7 DEF Holds, LeftOf
  <2> QED  BY <1>3, <1>6, <2>1 DEF BRests, Rests, Early
<1>9. ASSUME NEW k \in Kinds, NEW c \in 0 .. MAXQSOLIFETIME, ASends(k, c)',
             Phases(lost', k, c, sk, LeftOf(sk, sc))
      PROVE  Open'
  BY <1>1, <1>3, <1>7, <1>8, <1>9 DEF Open
<1>10. CASE aInbox' = <<>>
  <2>1. ASends(rk, LeftOf(rk, rc))'
    <3>1. Holds(aState', aQso', aRemaining' - 1, "b", "even", rk, LeftOf(rk, rc))
      BY <1>1, <1>2, <1>4, <1>7 DEF Holds, LeftOf
    <3> QED  BY <1>3, <1>10, <3>1 DEF ASends, Sends, Due
  <2>2. CASE bTx = <<>>
    <3>1. sk = "idle" /\ lost' = lost
      BY <1>1, <1>2, <1>5, <2>2, Single
    <3> QED  BY <1>4, <1>7, <1>9, <2>1, <3>1, PhaseKept
  <2>3. CASE bTx # <<>>
    <3>1. lost = 0 /\ lost' = 1
      BY <1>1, <1>2, <1>4, <1>10, <2>3, Single
    <3> QED  BY <1>4, <1>7, <1>9, <2>1, <3>1, PhaseKept
  <2> QED  BY <2>2, <2>3
<1>11. ASSUME NEW m \in Answers("b", "even"), aInbox' = <<m>>, NEW k \in Kinds,
              k = Moved(rk, m, set["a"].reply), NEW c \in 0 .. MAXQSOLIFETIME,
              rk # "idle" => k = "idle" \/ c <= rc - 1
       PROVE  ASends(k, c)'
  <2>1. /\ aState' = rk /\ set' = set
        /\ rk # "idle" => aRemaining' >= rc /\ aQso'.src = "b" /\ aQso'.ft8slot = "even"
    BY <1>1, <1>2 DEF Holds
  <2>2. Due(aState', aQso', aRemaining' - 1, <<m>>, "b", "even", set'["a"].reply, k, c)
    BY <1>1, <1>4, <1>11, <2>1 DEF Due, LongEnough
  <2> QED  BY <1>3, <1>11, <2>2 DEF ASends, Sends
<1>12. CASE bTx # <<>> /\ lost' = lost /\ aInbox' = <<MessageOf(Head(bTx), "b")>>
  <2> DEFINE m == MessageOf(Head(bTx), "b")
  <2>1. CASE sk = "idle"
    <3>1. m = [dest |-> "CQ", src |-> "b", text |-> "other", ft8slot |-> "even"]
      BY <1>5, <1>12, <2>1, Single DEF MessageOf, TextOf, CallCQ
    <3>2. m \in Answers("b", "even") /\ aInbox' = <<m>> /\ m.dest = "CQ"
      BY <1>12, <3>1 DEF Answers
    <3> HIDE DEF m
    <3>3. CASE rk = "idle" /\ set["a"].reply
      <4>1. Moved(rk, m, set["a"].reply) = "replyLoc"
        BY <3>2, <3>3 DEF Moved
      <4>2. "replyLoc" \in Kinds /\ MAXQSOLIFETIME \in 0 .. MAXQSOLIFETIME
        BY DEF Kinds, LongEnough
      <4>3. ASends("replyLoc", MAXQSOLIFETIME)'
        BY <1>11, <3>2, <3>3, <4>1, <4>2
      <4> QED  BY <1>4, <1>9, <1>12, <2>1, <3>3, <4>2, <4>3, PhaseKept
    <3>4. CASE ~(rk = "idle" /\ set["a"].reply)
      <4>1. Moved(rk, m, set["a"].reply) = rk
        BY <3>2, <3>4 DEF Moved
      <4>2. rk # "idle" => LeftOf(rk, rc) <= rc - 1
        BY DEF LeftOf
      <4>3. ASends(rk, LeftOf(rk, rc))'
        BY <1>7, <1>11, <3>2, <4>1, <4>2
      <4> QED  BY <1>4, <1>7, <1>9, <1>12, <2>1, <4>3, PhaseKept
    <3> QED  BY <3>3, <3>4
  <2>2. CASE sk = "replyLoc"
    <3>1. m = [dest |-> "us", src |-> "b", text |-> "grid", ft8slot |-> "even"]
      BY <1>5, <1>12, <2>2, Single DEF MessageOf, TextOf, LetterOf, A!ReplyText, B!ReplyText
    <3>2. m \in Answers("b", "even") /\ aInbox' = <<m>> /\ m.dest = "us" /\ m.text = "grid"
      BY <1>12, <3>1 DEF Answers
    <3> HIDE DEF m
    <3> DEFINE c == IF rk = "idle" THEN MAXQSOLIFETIME ELSE rc - 1
    <3>3. c \in 0 .. MAXQSOLIFETIME /\ (rk # "idle" => c <= rc - 1)
      BY <1>7 DEF LongEnough
    <3>4. Moved(rk, m, set["a"].reply) = "replySig"
      BY <3>2 DEF Moved
    <3>5. Phases(lost', "replySig", c, sk, LeftOf(sk, sc))
      BY <1>4, <1>12, <2>2, PhaseKept
    <3> HIDE DEF c
    <3>6. ASends("replySig", c)'
      BY <1>11, <3>2, <3>3, <3>4 DEF Kinds
    <3> QED  BY <1>9, <3>3, <3>5, <3>6 DEF Kinds
  <2>3. CASE sk = "replySig"
    <3>1. m = [dest |-> "us", src |-> "b", text |-> "report", ft8slot |-> "even"]
      BY <1>5, <1>12, <2>3, Single DEF MessageOf, TextOf, LetterOf, A!ReplyText, B!ReplyText
    <3>2. m \in Answers("b", "even") /\ aInbox' = <<m>> /\ m.dest = "us" /\ m.text = "report"
      BY <1>12, <3>1 DEF Answers
    <3> HIDE DEF m
    <3> DEFINE k == IF rk = "replySig" THEN "replyRR73" ELSE "replySig"
    <3>3. rk # "idle" /\ Phases(lost', k, rc - 1, sk, LeftOf(sk, sc))
      BY <1>4, <1>12, <2>3, PhaseKept
    <3>4. rc - 1 \in 0 .. MAXQSOLIFETIME /\ rc - 1 <= rc - 1
      BY <1>7, <3>3 DEF LongEnough
    <3>5. Moved(rk, m, set["a"].reply) = k /\ k \in Kinds
      BY <3>2 DEF Moved, Kinds
    <3> HIDE DEF k
    <3>6. ASends(k, rc - 1)'
      BY <1>11, <3>2, <3>4, <3>5
    <3> QED  BY <1>9, <3>3, <3>4, <3>5, <3>6
  <2>4. CASE sk = "replyRR73"
    <3>1. m = [dest |-> "us", src |-> "b", text |-> "RR73", ft8slot |-> "even"]
      BY <1>5, <1>12, <2>4, Single DEF MessageOf, TextOf, LetterOf, A!ReplyText, B!ReplyText
    <3>2. rk = "replySig" /\ aRemaining' >= 2 /\ aQso'.src = "b" /\ aQso'.ft8slot = "even"
          /\ aState' = "replySig"
      BY <1>1, <1>2, <1>4, <1>7, <2>4, PhaseKept DEF Holds
    <3>3. AWins'
      BY <1>1, <1>3, <1>12, <3>1, <3>2 DEF AWins, HasRR73
    <3>4. BLoses'
      BY <1>1, <1>2, <1>3, <2>4 DEF BLoses, Loses, Holds
    <3> QED  BY <3>3, <3>4
  <2> QED  BY <2>1, <2>2, <2>3, <2>4 DEF Kinds
<1> QED  BY <1>1, <1>2, <1>10, <1>12

(* A slot after RR73: the station that has it calls CQ or sends its last 73. *)
LEMMA BIsDone ==
    ASSUME Settled, StationB, AirSlot, ALoses, BWins
    PROVE  ALoses' /\ BWins'
<1>1. /\ bPc = "wait" /\ bTicks = <<>>
      /\ bTx' = (IF bTx = <<>> THEN bTx ELSE Tail(bTx))
      /\ aInbox' = <<>> \/ (bTx # <<>> /\ aInbox' = <<MessageOf(Head(bTx), "b")>>)
      /\ bInbox' = <<>> \/ (aTx # <<>> /\ bInbox' = <<MessageOf(Head(aTx), "a")>>)
      /\ UNCHANGED <<aState, aPeers, aAdi, bPc, bState, bPeers, bAdi>>
  BY SlotOnAir
<1>2. bTx \in Seq(Letters)
  BY DEF StationB, StationType
<1>3. /\ bPeers = <<StationHash["a"]>> /\ bAdi["a"] <= 1 /\ bState = "idle"
      /\ \A i \in 1 .. Len(bTx) : bTx[i].text \in {"CQ", "73"}
  BY <1>1, Single DEF BWins, HasRR73, Worked
<1>4. bTx # <<>> => Head(bTx).text \in {"CQ", "73"}
  BY <1>2, <1>3, LetterSent
<1>5. \A i \in 1 .. Len(bTx') : bTx'[i].text \in {"CQ", "73"}
  <2>1. CASE bTx = <<>>
    BY <1>1, <1>3, <2>1
  <2>2. CASE bTx # <<>>
    BY <1>1, <1>2, <1>3, <2>2, LetterSent
  <2> QED  BY <2>1, <2>2
<1>6. \A i \in 1 .. Len(bInbox') : bInbox'[i].src = "a"
  <2>1. CASE bInbox' = <<>>
    BY <2>1
  <2>2. CASE bInbox' # <<>>
    <3> DEFINE m == MessageOf(Head(aTx), "a")
    <3>1. bInbox' = <<m>> /\ m.src = "a"
      BY <1>1, <2>2 DEF MessageOf
    <3> HIDE DEF m
    <3> QED  BY <3>1
  <2> QED  BY <2>1, <2>2
<1>7. \A i \in 1 .. Len(aInbox') : aInbox'[i].dest = "us" => aInbox'[i].text = "73"
  <2>1. CASE aInbox' = <<>>
    BY <2>1
  <2>2. CASE aInbox' # <<>>
    <3> DEFINE m == MessageOf(Head(bTx), "b")
    <3>1. bTx # <<>> /\ aInbox' = <<m>>
      BY <1>1, <2>2
    <3>2. m.dest = "us" => m.text = "73"
      BY <1>4, <3>1 DEF MessageOf, TextOf
    <3> HIDE DEF m
    <3> QED  BY <3>1, <3>2
  <2> QED  BY <2>1, <2>2
<1>8. ALoses'
  BY <1>1, <1>7 DEF ALoses, Loses
<1>9. BWins'
  BY <1>1, <1>3, <1>5, <1>6 DEF BWins, Worked
<1> QED  BY <1>8, <1>9

(* A slot after RR73: the station that has it calls CQ or sends its last 73. *)
LEMMA AIsDone ==
    ASSUME Settled, StationA, AirSlot, BLoses, AWins
    PROVE  BLoses' /\ AWins'
<1>1. /\ aPc = "wait" /\ aTicks = <<>>
      /\ aTx' = (IF aTx = <<>> THEN aTx ELSE Tail(aTx))
      /\ bInbox' = <<>> \/ (aTx # <<>> /\ bInbox' = <<MessageOf(Head(aTx), "a")>>)
      /\ aInbox' = <<>> \/ (bTx # <<>> /\ aInbox' = <<MessageOf(Head(bTx), "b")>>)
      /\ UNCHANGED <<bState, bPeers, bAdi, aPc, aState, aPeers, aAdi>>
  BY SlotOnAir
<1>2. aTx \in Seq(Letters)
  BY DEF StationA, StationType
<1>3. /\ aPeers = <<StationHash["b"]>> /\ aAdi["b"] <= 1 /\ aState = "idle"
      /\ \A i \in 1 .. Len(aTx) : aTx[i].text \in {"CQ", "73"}
  BY <1>1, Single DEF AWins, HasRR73, Worked
<1>4. aTx # <<>> => Head(aTx).text \in {"CQ", "73"}
  BY <1>2, <1>3, LetterSent
<1>5. \A i \in 1 .. Len(aTx') : aTx'[i].text \in {"CQ", "73"}
  <2>1. CASE aTx = <<>>
    BY <1>1, <1>3, <2>1
  <2>2. CASE aTx # <<>>
    BY <1>1, <1>2, <1>3, <2>2, LetterSent
  <2> QED  BY <2>1, <2>2
<1>6. \A i \in 1 .. Len(aInbox') : aInbox'[i].src = "b"
  <2>1. CASE aInbox' = <<>>
    BY <2>1
  <2>2. CASE aInbox' # <<>>
    <3> DEFINE m == MessageOf(Head(bTx), "b")
    <3>1. aInbox' = <<m>> /\ m.src = "b"
      BY <1>1, <2>2 DEF MessageOf
    <3> HIDE DEF m
    <3> QED  BY <3>1
  <2> QED  BY <2>1, <2>2
<1>7. \A i \in 1 .. Len(bInbox') : bInbox'[i].dest = "us" => bInbox'[i].text = "73"
  <2>1. CASE bInbox' = <<>>
    BY <2>1
  <2>2. CASE bInbox' # <<>>
    <3> DEFINE m == MessageOf(Head(aTx), "a")
    <3>1. aTx # <<>> /\ bInbox' = <<m>>
      BY <1>1, <2>2
    <3>2. m.dest = "us" => m.text = "73"
      BY <1>4, <3>1 DEF MessageOf, TextOf
    <3> HIDE DEF m
    <3> QED  BY <3>1, <3>2
  <2> QED  BY <2>1, <2>2
<1>8. BLoses'
  BY <1>1, <1>7 DEF BLoses, Loses
<1>9. AWins'
  BY <1>1, <1>3, <1>5, <1>6 DEF AWins, Worked
<1> QED  BY <1>8, <1>9

-----------------------------------------------------------------------------
(* Every step, as long as the stations work each other *)

(* What never changes, and types, at the start, *)
LEMMA SettledInit == Init => Settled
BY DEF Init, Settled, Settings, NoQso

(* and at every step. *)
LEMMA SettledStep ==
    ASSUME LongEnough, Settled, [Next]_vars
    PROVE  Settled' /\ lost <= lost' /\ other' = other
<1>1. CASE AirSlot
  <2>1. lost' \in Nat /\ lost <= lost' /\ aTicks' = <<slot>> /\ bTicks' = <<slot>>
        /\ slot' = A!OtherSlot(slot)
        /\ UNCHANGED <<set, other, aRemaining, aAdi, bRemaining, bAdi>>
    BY <1>1, SlotOnAir
  <2>2. aTicks' \in Seq({"even", "odd"}) /\ bTicks' \in Seq({"even", "odd"})
        /\ slot' \in {"even", "odd"}
    BY <2>1 DEF Settled, A!OtherSlot
  <2> QED  BY <2>1, <2>2 DEF Settled
<1>2. CASE FakeSlot
  <2>1. lost' \in {lost, lost + 1} /\ aTicks' = <<slot>> /\ bTicks' = bTicks
        /\ slot' = A!OtherSlot(slot)
        /\ UNCHANGED <<set, other, aRemaining, aAdi, bRemaining, bAdi>>
    BY <1>2 DEF FakeSlot, bVars
  <2>2. aTicks' \in Seq({"even", "odd"}) /\ bTicks' \in Seq({"even", "odd"})
        /\ slot' \in {"even", "odd"} /\ lost' \in Nat /\ lost <= lost'
    BY <2>1 DEF Settled, A!OtherSlot
  <2> QED  BY <2>1, <2>2 DEF Settled
<1>3. CASE StepA
  <2>1. UNCHANGED <<lost, slot, set, other, bRemaining, bAdi, bTicks>> /\ A!QSOHandler
    BY <1>3 DEF StepA, air, fake, bVars
  <2> QED  BY <2>1, ATypesOn DEF Settled
<1>4. CASE StepB
  <2>1. UNCHANGED <<lost, slot, set, other, aRemaining, aAdi, aTicks>> /\ B!QSOHandler
    BY <1>4 DEF StepB, air, fake, aVars
  <2> QED  BY <2>1, BTypesOn DEF Settled
<1>5. CASE UNCHANGED vars
  BY <1>5 DEF vars, air, fake, aVars, bVars, Settled
<1> QED  BY <1>1, <1>2, <1>3, <1>4, <1>5 DEF Next

(* Nobody has anything to send at the start. *)
LEMMA OnceInit == LongEnough /\ Init => OnceInv
<1> SUFFICES ASSUME LongEnough, Init PROVE Open
  BY DEF OnceInv
<1>1. aAdi["b"] = 0 /\ bAdi["a"] = 0 /\ aPeers = <<>> /\ bPeers = <<>> /\ slot = "even"
      /\ aPc = "wait" /\ bPc = "wait" /\ aTicks = <<>> /\ bTicks = <<>>
      /\ aTx = <<>> /\ bTx = <<>> /\ aInbox = <<>> /\ aState = "idle" /\ bState = "idle"
  BY DEF Init, Heard
<1>2. BSends("idle", 0) /\ ARests("idle", 0)
  BY <1>1 DEF BSends, Sends, Sent, ARests, Rests, Early, Holds
<1>3. Phases(lost, "idle", 0, "idle", 0)
  BY DEF Phases
<1>4. "idle" \in Kinds /\ 0 \in 0 .. MAXQSOLIFETIME
  BY DEF Kinds, LongEnough
<1> QED  BY <1>1, <1>2, <1>3, <1>4 DEF Open

(* What the first QSO thread does leaves the second station where it is. *)
LEMMA BStays ==
    ASSUME UNCHANGED bVars, set' = set, NEW k, NEW c
    PROVE  /\ BSends(k, c) => BSends(k, c)'
           /\ BRests(k, c) => BRests(k, c)'
           /\ BLoses => BLoses'
           /\ BWins => BWins'
           /\ bPeers' = bPeers /\ bAdi' = bAdi
BY DEF bVars, BSends, Sends, Due, BRests, Rests, BLoses, Loses, BWins, HasRR73, Worked

(* An iteration of the first QSO thread keeps the contact in its phase. *)
LEMMA OnceStepA ==
    ASSUME LongEnough, Settled, StationA, StepA, lost <= 1,
           Open \/ (ALoses /\ BWins) \/ (AWins /\ BLoses)
    PROVE  Open' \/ (ALoses' /\ BWins') \/ (AWins' /\ BLoses')
<1>1. A!QSOHandler /\ UNCHANGED bVars /\ UNCHANGED <<set, slot, lost>>
  BY DEF StepA, air
<1>2. CASE Open
  <2>1. PICK sk \in Kinds, rk \in Kinds, sc \in 0 .. MAXQSOLIFETIME, rc \in 0 .. MAXQSOLIFETIME :
          /\ Phases(lost, sk, sc, rk, rc)
          /\ \/ slot = "odd" /\ ASends(sk, sc) /\ BRests(rk, rc)
             \/ slot = "even" /\ BSends(sk, sc) /\ ARests(rk, rc)
    BY <1>2 DEF Open
  <2>2. aPeers = <<>> /\ bPeers = <<>> /\ aAdi["b"] = 0 /\ bAdi["a"] = 0
    BY <1>2 DEF Open
  <2>3. lost \in 0 .. 1 /\ Phases(lost', sk, sc, rk, rc)
    BY <1>1, <2>1 DEF Settled
  <2>4. /\ sk # "idle" => sc >= 1
        /\ rk # "idle" => rc >= 1
    BY <2>1, <2>3, PhaseKept DEF LongEnough
  <2>5. CASE slot = "odd" /\ ASends(sk, sc) /\ BRests(rk, rc)
    <3>1. ASends(sk, sc)' /\ aPeers' = <<>> /\ aAdi' = aAdi
      BY <1>1, <2>2, <2>4, <2>5, ASendsOn
    <3>2. BRests(rk, rc)' /\ bPeers' = bPeers /\ bAdi' = bAdi
      BY <1>1, <2>5, BStays
    <3>3. Open'
      BY <1>1, <2>2, <2>3, <2>5, <3>1, <3>2 DEF Open
    <3> QED  BY <3>3
  <2>6. CASE slot = "even" /\ BSends(sk, sc) /\ ARests(rk, rc)
    <3>1. ARests(rk, rc)' /\ aPeers' = aPeers /\ aAdi' = aAdi
      BY <1>1, <2>4, <2>6, ARestsOn
    <3>2. BSends(sk, sc)' /\ bPeers' = bPeers /\ bAdi' = bAdi
      BY <1>1, <2>6, BStays
    <3>3. Open'
      BY <1>1, <2>2, <2>3, <2>6, <3>1, <3>2 DEF Open
    <3> QED  BY <3>3
  <2> QED  BY <2>1, <2>5, <2>6
<1>3. CASE ALoses /\ BWins
  BY <1>1, <1>3, ALosesOn, BStays
<1>4. CASE AWins /\ BLoses
  BY <1>1, <1>4, AWinsOn, BStays
<1> QED  BY <1>2, <1>3, <1>4

(* What the second QSO thread does leaves the first station where it is. *)
LEMMA AStays ==
    ASSUME UNCHANGED aVars, set' = set, NEW k, NEW c
    PROVE  /\ ASends(k, c) => ASends(k, c)'
           /\ ARests(k, c) => ARests(k, c)'
           /\ ALoses => ALoses'
           /\ AWins => AWins'
           /\ aPeers' = aPeers /\ aAdi' = aAdi
BY DEF aVars, ASends, Sends, Due, ARests, Rests, ALoses, Loses, AWins, HasRR73, Worked

(* An iteration of the second QSO thread keeps the contact in its phase. *)
LEMMA OnceStepB ==
    ASSUME LongEnough, Settled, StationB, StepB, lost <= 1,
           Open \/ (BLoses /\ AWins) \/ (BWins /\ ALoses)
    PROVE  Open' \/ (BLoses' /\ AWins') \/ (BWins' /\ ALoses')
<1>1. B!QSOHandler /\ UNCHANGED aVars /\ UNCHANGED <<set, slot, lost>>
  BY DEF StepB, air
<1>2. CASE Open
  <2>1. PICK sk \in Kinds, rk \in Kinds, sc \in 0 .. MAXQSOLIFETIME, rc \in 0 .. MAXQSOLIFETIME :
          /\ Phases(lost, sk, sc, rk, rc)
          /\ \/ slot = "even" /\ BSends(sk, sc) /\ ARests(rk, rc)
             \/ slot = "odd" /\ ASends(sk, sc) /\ BRests(rk, rc)
    BY <1>2 DEF Open
  <2>2. bPeers = <<>> /\ aPeers = <<>> /\ bAdi["a"] = 0 /\ aAdi["b"] = 0
    BY <1>2 DEF Open
  <2>3. lost \in 0 .. 1 /\ Phases(lost', sk, sc, rk, rc)
    BY <1>1, <2>1 DEF Settled
  <2>4. /\ sk # "idle" => sc >= 1
        /\ rk # "idle" => rc >= 1
    BY <2>1, <2>3, PhaseKept DEF LongEnough
  <2>5. CASE slot = "even" /\ BSends(sk, sc) /\ ARests(rk, rc)
    <3>1. BSends(sk, sc)' /\ bPeers' = <<>> /\ bAdi' = bAdi
      BY <1>1, <2>2, <2>4, <2>5, BSendsOn
    <3>2. ARests(rk, rc)' /\ aPeers' = aPeers /\ aAdi' = aAdi
      BY <1>1, <2>5, AStays
    <3>3. Open'
      BY <1>1, <2>2, <2>3, <2>5, <3>1, <3>2 DEF Open
    <3> QED  BY <3>3
  <2>6. CASE slot = "odd" /\ ASends(sk, sc) /\ BRests(rk, rc)
    <3>1. BRests(rk, rc)' /\ bPeers' = bPeers /\ bAdi' = bAdi
      BY <1>1, <2>4, <2>6, BRestsOn
    <3>2. ASends(sk, sc)' /\ aPeers' = aPeers /\ aAdi' = aAdi
      BY <1>1, <2>6, AStays
    <3>3. Open'
      BY <1>1, <2>2, <2>3, <2>6, <3>1, <3>2 DEF Open
    <3> QED  BY <3>3
  <2> QED  BY <2>1, <2>5, <2>6
<1>3. CASE BLoses /\ AWins
  BY <1>1, <1>3, BLosesOn, AStays
<1>4. CASE BWins /\ ALoses
  BY <1>1, <1>4, BWinsOn, AStays
<1> QED  BY <1>2, <1>3, <1>4

(* A slot keeps the contact in its phase, or brings RR73. *)
LEMMA OnceSlot ==
    ASSUME LongEnough, Settled, StationA, StationB, AirSlot, lost' <= 1,
           Open \/ (ALoses /\ BWins) \/ (AWins /\ BLoses)
    PROVE  Open' \/ (ALoses' /\ BWins') \/ (AWins' /\ BLoses')
<1>1. CASE Open
  <2>1. PICK sk \in Kinds, rk \in Kinds, sc \in 0 .. MAXQSOLIFETIME, rc \in 0 .. MAXQSOLIFETIME :
          /\ Phases(lost, sk, sc, rk, rc)
          /\ \/ slot = "odd" /\ ASends(sk, sc) /\ BRests(rk, rc)
             \/ slot = "even" /\ BSends(sk, sc) /\ ARests(rk, rc)
    BY <1>1 DEF Open
  <2>2. aPeers = <<>> /\ bPeers = <<>> /\ aAdi["b"] = 0 /\ bAdi["a"] = 0
    BY <1>1 DEF Open
  <2>3. CASE slot = "odd" /\ ASends(sk, sc) /\ BRests(rk, rc)
    BY <2>1, <2>2, <2>3, ASpeaks
  <2>4. CASE slot = "even" /\ BSends(sk, sc) /\ ARests(rk, rc)
    BY <2>1, <2>2, <2>4, BSpeaks
  <2> QED  BY <2>1, <2>3, <2>4
<1>2. CASE ALoses /\ BWins
  BY <1>2, BIsDone
<1>3. CASE AWins /\ BLoses
  BY <1>3, AIsDone
<1> QED  BY <1>1, <1>2, <1>3

(* Every step does. *)
LEMMA OnceStep ==
    ASSUME LongEnough, Settled, TruthInv, OnceInv, [Next]_vars
    PROVE  OnceInv'
<1> SUFFICES ASSUME other' = "program", lost' <= 1
             PROVE  Open' \/ (ALoses' /\ BWins') \/ (AWins' /\ BLoses')
  BY DEF OnceInv
<1>1. other = "program" /\ lost <= 1
  <2>1. lost <= lost' /\ other' = other /\ lost \in Int /\ lost' \in Int
    BY SettledStep DEF Settled
  <2> QED  BY <2>1
<1>2. /\ StationA /\ StationB
      /\ Open \/ (ALoses /\ BWins) \/ (AWins /\ BLoses)
  BY <1>1 DEF TruthInv, OnceInv
<1>3. CASE AirSlot
  BY <1>2, <1>3, OnceSlot
<1>4. CASE FakeSlot
  BY <1>1, <1>4 DEF FakeSlot
<1>5. CASE StepA
  BY <1>1, <1>2, <1>5, OnceStepA
<1>6. CASE StepB
  BY <1>1, <1>2, <1>6, OnceStepB
<1>7. CASE UNCHANGED vars
  <2>1. /\ UNCHANGED aVars /\ UNCHANGED bVars /\ UNCHANGED <<set, slot, lost>>
    BY <1>7 DEF vars, air
  <2>2. /\ ALoses => ALoses'
        /\ AWins => AWins'
        /\ BLoses => BLoses'
        /\ BWins => BWins'
        /\ UNCHANGED <<aPeers, aAdi, bPeers, bAdi>>
    BY <2>1, AStays, BStays DEF aVars, bVars
  <2>3. \A k, c : /\ ASends(k, c) => ASends(k, c)'
                  /\ ARests(k, c) => ARests(k, c)'
                  /\ BSends(k, c) => BSends(k, c)'
                  /\ BRests(k, c) => BRests(k, c)'
    BY <2>1, AStays, BStays
  <2>4. Open => Open'
    BY <2>1, <2>2, <2>3 DEF Open
  <2> QED  BY <1>2, <2>2, <2>4
<1> QED  BY <1>3, <1>4, <1>5, <1>6, <1>7 DEF Next

(* and in each phase no contact is in a log twice. *)
LEMMA OnceEnough ==
    ASSUME Settled, OnceInv, other = "program", lost <= 1
    PROVE  aAdi["b"] <= 1 /\ bAdi["a"] <= 1
BY DEF OnceInv, Open, ALoses, BLoses, Loses, AWins, BWins, HasRR73, Worked

-----------------------------------------------------------------------------
(* The stand-in: "a" is alone, and nobody sends RR73.  A contact that dies *)
(* in replyRR73 is logged, and needs a letter lost once the edge-case      *)
(* forms are over.                                                         *)

PeerTexts == {"grid", "rogerReport", "73", "other"}

Contacts == {"idle", "replySig", "replyRR73"}

EdgesLeft ==
    /\ edges \in Seq({EdgeForms[i] : i \in 1 .. 6}) /\ Len(edges) <= 6
    /\ \A i \in 1 .. Len(edges) : edges[i] = EdgeForms[6 - Len(edges) + i]
    /\ edges # <<>> => other # "freetext"

Late == other # "freetext" /\ edges \in {<<>>, <<EdgeForms[6]>>}

Deposited == fakePeer # <<>> => /\ fakePeer.src \in Heard /\ fakePeer.text \in PeerTexts
                                /\ fakePeer.text = "rogerReport" => Late

OneLetter(tx) == \E x : tx = <<x>> /\ x.text \in {"CQ", "SIG", "RR73"}

Unread ==
    \/ aInbox = <<>>
    \/ \E m \in [dest : {"us"}, src : Heard, text : PeerTexts, ft8slot : {"even", "odd"}] :
          aInbox = <<m>> /\ (m.text = "rogerReport" => Late)

(* Where the thread is, about to send and listening.                       *)
FreshSends ==
    /\ slot = "odd" /\ fakePeer = <<>>
    /\ \/ aPc = "wait" /\ aTicks = <<>> /\ (aTx = <<>> \/ OneLetter(aTx))
       \/ aPc = "wait" /\ aTicks = <<"even">> /\ aTx = <<>>
       \/ aPc \in {"drain", "update"} /\ aTicks = <<>> /\ aTick = "even" /\ aTx = <<>>
       \/ /\ aPc = "query" /\ aTicks = <<>> /\ aTick = "even"
          /\ aTx = <<>> \/ (aBusy /\ OneLetter(aTx))

FreshRests ==
    /\ slot = "even" /\ aTx = <<>> /\ Early(aInbox, "even")
    /\ \/ aPc = "wait" /\ aTicks = <<>>
       \/ aPc = "wait" /\ aTicks = <<"odd">>
       \/ aPc \in {"drain", "update", "query"} /\ aTicks = <<>> /\ aTick = "odd"

(* Nothing is logged yet; how long the contact has lasted does not matter. *)
Fresh ==
    /\ aAdi["b"] = 0 /\ aState \in Contacts
    /\ aState = "replyRR73" =>
         Late /\ (fakePeer # <<>> => edges = <<>> /\ fakePeer.src = "b")
    /\ Unread
    /\ FreshSends \/ FreshRests

(* A record was written: the next contacts come to their end in time.      *)
InTimeToSend(l, k, c) ==
    /\ k = "replySig" => c >= MAXQSOLIFETIME - 2 * l
    /\ k = "replyRR73" => c >= MAXQSOLIFETIME - 2 - 2 * l

InTimeToHear(l, k, c) ==
    LET due(text, n) ==
          \/ fakePeer = <<>> /\ l = 1 /\ c >= MAXQSOLIFETIME - n
          \/ /\ fakePeer = [src |-> "b", text |-> text]
             /\ c >= MAXQSOLIFETIME - n - 2 * l
    IN  /\ k = "idle" => (fakePeer # <<>> => fakePeer.src = "b" /\ edges = <<>>)
        /\ k = "replySig" => due("rogerReport", 1)
        /\ k = "replyRR73" => due("73", 3)

Recorded ==
    /\ aAdi["b"] <= 1 /\ Late
    /\ \E k \in Contacts, c \in 0 .. MAXQSOLIFETIME :
          /\ k # "idle" => edges = <<>>
          /\ \/ slot = "odd" /\ ASends(k, c) /\ fakePeer = <<>> /\ InTimeToSend(lost, k, c)
             \/ slot = "even" /\ ARests(k, c) /\ InTimeToHear(lost, k, c)

AloneInv ==
    other # "program" /\ lost <= 1 =>
        /\ aPeers = <<>> /\ bAdi["a"] = 0 /\ bPc = "wait" /\ bTicks = <<>>
        /\ EdgesLeft /\ Deposited
        /\ Fresh \/ Recorded

(* A message is not the empty answer.                                      *)
LEMMA AnswerSent ==
    ASSUME NEW x, NEW y
    PROVE  [src |-> x, text |-> y] # <<>>
<1>1. DOMAIN [src |-> x, text |-> y] = {"src", "text"} /\ DOMAIN <<>> = {}
  OBVIOUS
<1> QED  BY <1>1

(* The edge-case forms: the fifth is a report. *)
LEMMA FormTypes ==
    /\ EdgeForms[6] = [src |-> "b", text |-> "other"]
    /\ \A i \in 1 .. 6 : \/ EdgeForms[i] = <<>>
                         \/ /\ EdgeForms[i].src \in Heard /\ EdgeForms[i].text \in PeerTexts
                            /\ EdgeForms[i].text = "rogerReport" => i = 5
<1>1. /\ EdgeForms[1] = [src |-> "b", text |-> "other"]
      /\ EdgeForms[2] = [src |-> "b/P", text |-> "grid"]
      /\ EdgeForms[3] = <<>> /\ EdgeForms[4] = <<>>
      /\ EdgeForms[5] = [src |-> "b", text |-> "rogerReport"]
      /\ EdgeForms[6] = [src |-> "b", text |-> "other"]
  BY DEF EdgeForms
<1> SUFFICES ASSUME NEW i \in 1 .. 6
             PROVE  \/ EdgeForms[i] = <<>>
                    \/ /\ EdgeForms[i].src \in Heard /\ EdgeForms[i].text \in PeerTexts
                       /\ EdgeForms[i].text = "rogerReport" => i = 5
  BY <1>1
<1>2. i = 1 \/ i = 2 \/ i = 3 \/ i = 4 \/ i = 5 \/ i = 6
  OBVIOUS
<1>3. CASE i = 1
  BY <1>1, <1>3 DEF Heard, PeerTexts
<1>4. CASE i = 2
  BY <1>1, <1>4 DEF Heard, PeerTexts
<1>5. CASE i = 3 \/ i = 4
  BY <1>1, <1>5
<1>6. CASE i = 5
  BY <1>1, <1>6 DEF Heard, PeerTexts
<1>7. CASE i = 6
  BY <1>1, <1>7 DEF Heard, PeerTexts
<1> QED  BY <1>2, <1>3, <1>4, <1>5, <1>6, <1>7

(* What is left of a queue once its head is taken.                         *)
LEMMA HeadTaken ==
    ASSUME NEW S, NEW q \in Seq(S), q # <<>>
    PROVE  /\ Len(q) \in Nat \ {0} /\ Head(q) = q[1] /\ Tail(q) \in Seq(S)
           /\ Len(Tail(q)) = Len(q) - 1
           /\ \A i \in 1 .. Len(Tail(q)) : Tail(q)[i] = q[i + 1]
OBVIOUS

(* A queue of one.                                                         *)
LEMMA OneLeft ==
    ASSUME NEW S, NEW q \in Seq(S), Len(q) = 1
    PROVE  q = <<q[1]>>
OBVIOUS

(* The last six elements at most, and one less.                            *)
LEMMA SuffixLeft ==
    ASSUME NEW S, NEW q \in Seq(S), NEW E, q # <<>>, Len(q) <= 6,
           \A i \in 1 .. Len(q) : q[i] = E[6 - Len(q) + i]
    PROVE  /\ Tail(q) \in Seq(S) /\ Len(Tail(q)) <= 6
           /\ \A i \in 1 .. Len(Tail(q)) : Tail(q)[i] = E[6 - Len(Tail(q)) + i]
           /\ Head(q) = E[7 - Len(q)] /\ 7 - Len(q) \in 1 .. 6
           /\ 7 - Len(q) = 5 => Tail(q) = <<E[6]>>
<1> DEFINE t == Tail(q)
           n == Len(q)
           p == Len(t)
<1>1. /\ n \in Nat \ {0} /\ Head(q) = q[1] /\ t \in Seq(S) /\ p = n - 1
      /\ \A i \in 1 .. p : t[i] = q[i + 1]
  BY HeadTaken
<1>2. n <= 6 /\ \A i \in 1 .. n : q[i] = E[6 - n + i]
  OBVIOUS
<1>3. p = 1 => t = <<t[1]>>
  BY <1>1, OneLeft
<1> HIDE DEF t, n, p
<1>4. ASSUME NEW i \in 1 .. p
      PROVE  t[i] = E[6 - p + i]
  <2>1. i + 1 \in 1 .. n /\ 6 - p + i = 6 - n + (i + 1)
    BY <1>1
  <2>2. q[i + 1] = E[6 - n + (i + 1)]
    BY <1>2, <2>1
  <2> QED  BY <1>1, <2>1, <2>2
<1>5. Head(q) = E[7 - n] /\ 7 - n \in 1 .. 6
  <2>1. 1 \in 1 .. n /\ 6 - n + 1 = 7 - n /\ 7 - n \in 1 .. 6
    BY <1>1, <1>2
  <2>2. q[1] = E[6 - n + 1]
    BY <1>2, <2>1
  <2> QED  BY <1>1, <2>1, <2>2
<1>6. 7 - n = 5 => t = <<E[6]>>
  <2> SUFFICES ASSUME 7 - n = 5 PROVE t = <<E[6]>>
    OBVIOUS
  <2>1. p = 1 /\ 1 \in 1 .. p /\ 6 - p + 1 = 6
    BY <1>1
  <2>2. t[1] = E[6 - p + 1]
    BY <1>4, <2>1
  <2> QED  BY <1>3, <2>1, <2>2
<1>7. p <= 6
  BY <1>1, <1>2
<1> QED  BY <1>1, <1>4, <1>5, <1>6, <1>7 DEF t, n, p

(* One form is sent: a report is followed by the last form only. *)
LEMMA FormSent ==
    ASSUME EdgesLeft, edges # <<>>, edges' = Tail(edges), other' = other
    PROVE  /\ EdgesLeft'
           /\ Head(edges) = <<>> \/ /\ Head(edges).src \in Heard /\ Head(edges).text \in PeerTexts
                                    /\ Head(edges).text = "rogerReport" => Late'
           /\ Late => Head(edges) = EdgeForms[6] /\ edges' = <<>> /\ Late'
<1> DEFINE S == {EdgeForms[i] : i \in 1 .. 6}
<1>1. /\ edges \in Seq(S) /\ Len(edges) <= 6 /\ other # "freetext"
      /\ \A i \in 1 .. Len(edges) : edges[i] = EdgeForms[6 - Len(edges) + i]
  BY DEF EdgesLeft
<1> HIDE DEF S
<1>2. /\ Tail(edges) \in Seq(S) /\ Len(Tail(edges)) <= 6
      /\ \A i \in 1 .. Len(Tail(edges)) :
            Tail(edges)[i] = EdgeForms[6 - Len(Tail(edges)) + i]
      /\ Head(edges) = EdgeForms[7 - Len(edges)] /\ 7 - Len(edges) \in 1 .. 6
      /\ 7 - Len(edges) = 5 => Tail(edges) = <<EdgeForms[6]>>
  BY <1>1, SuffixLeft
<1>3. EdgesLeft'
  BY <1>1, <1>2 DEF EdgesLeft, S
<1>4. Late => Head(edges) = EdgeForms[6] /\ edges' = <<>> /\ Late'
  <2>1. Late => edges = <<EdgeForms[6]>>
    BY DEF Late
  <2> QED  BY <1>1, <2>1, Single DEF Late
<1>5. Head(edges) = <<>> \/ /\ Head(edges).src \in Heard /\ Head(edges).text \in PeerTexts
                            /\ Head(edges).text = "rogerReport" => 7 - Len(edges) = 5
  BY <1>2, FormTypes
<1>6. 7 - Len(edges) = 5 => Late'
  BY <1>1, <1>2 DEF Late
<1> QED  BY <1>3, <1>4, <1>5, <1>6

(* The answer of the synthetic peer, once a letter made it answer. *)
LEMMA PeerAnswers ==
    ASSUME EdgesLeft, NEW l, l.text \in {"CQ", "SIG", "RR73"}, other' = other,
           edges' = IF edges = <<>> THEN edges ELSE Tail(edges)
    PROVE  /\ EdgesLeft'
           /\ \/ FakePeerReply(l) = <<>>
              \/ /\ FakePeerReply(l).src \in Heard /\ FakePeerReply(l).text \in PeerTexts
                 /\ FakePeerReply(l).text = "rogerReport" => Late'
           /\ Late => /\ Late' /\ edges' = <<>>
                      /\ FakePeerReply(l) # <<>> /\ FakePeerReply(l).src = "b"
           /\ Late /\ edges = <<>> /\ l.text = "SIG" =>
                FakePeerReply(l) = [src |-> "b", text |-> "rogerReport"]
           /\ Late /\ edges = <<>> /\ l.text = "RR73" =>
                FakePeerReply(l) = [src |-> "b", text |-> "73"]
<1>1. CASE edges # <<>>
  <2>1. FakePeerReply(l) = Head(edges) /\ edges' = Tail(edges)
    BY <1>1 DEF FakePeerReply
  <2>2. Late => Head(edges) # <<>> /\ Head(edges).src = "b"
    BY <1>1, <2>1, FormSent, FormTypes, AnswerSent
  <2> QED  BY <1>1, <2>1, <2>2, FormSent
<1>2. CASE edges = <<>>
  <2>1. EdgesLeft' /\ (Late => Late') /\ (other # "freetext" => Late /\ Late') /\ edges' = <<>>
    BY <1>2 DEF EdgesLeft, Late
  <2>2. CASE l.text = "CQ"
    <3>1. FakePeerReply(l) = [src |-> "b", text |-> "grid"]
      BY <1>2, <2>2 DEF FakePeerReply
    <3> QED  BY <1>2, <2>1, <2>2, <3>1, AnswerSent DEF Heard, PeerTexts
  <2>3. CASE l.text # "CQ" /\ other = "freetext"
    <3>1. FakePeerReply(l) = <<>>
      BY <1>2, <2>3 DEF FakePeerReply
    <3> QED  BY <2>1, <2>3, <3>1 DEF Late
  <2>4. CASE l.text = "SIG" /\ other # "freetext"
    <3>1. FakePeerReply(l) = [src |-> "b", text |-> "rogerReport"]
      BY <1>2, <2>4 DEF FakePeerReply
    <3> QED  BY <1>2, <2>1, <2>4, <3>1, AnswerSent DEF Heard, PeerTexts
  <2>5. CASE l.text = "RR73" /\ other # "freetext"
    <3>1. FakePeerReply(l) = [src |-> "b", text |-> "73"]
      BY <1>2, <2>5 DEF FakePeerReply
    <3> QED  BY <1>2, <2>1, <2>5, <3>1, AnswerSent DEF Heard, PeerTexts
  <2> QED  BY <2>2, <2>3, <2>4, <2>5
<1> QED  BY <1>1, <1>2

HeardIn(answer) ==
    IF answer = <<>> THEN <<>>
    ELSE <<[dest |-> "us", src |-> answer.src, text |-> answer.text, ft8slot |-> slot]>>

(* What a slot with the stand-in leaves alone. *)
LEMMA SlotAlone ==
    ASSUME FakeSlot
    PROVE  /\ aPc = "wait" /\ aTicks = <<>> /\ aTicks' = <<slot>>
           /\ slot' = A!OtherSlot(slot)
           /\ aTx' = (IF aTx = <<>> THEN aTx ELSE Tail(aTx))
           /\ lost' = lost \/ lost' = lost + 1
           /\ UNCHANGED <<set, other, aPc, aState, aQso, aRemaining, aPeers, aAdi>>
           /\ UNCHANGED bVars
BY DEF FakeSlot, Listening

(* "a" is silent: it hears the answer that was deposited, if any. *)
LEMMA SlotSilent ==
    ASSUME FakeSlot, aTx = <<>>
    PROVE  /\ aInbox' = HeardIn(fakePeer) /\ fakePeer' = <<>>
           /\ UNCHANGED <<lost, edges>>
BY DEF FakeSlot, HeardIn

(* "a" sends: the answer is for the next slot, or too early, or there is   *)
(* none.                                                                   *)
LEMMA SlotSpoken ==
    ASSUME FakeSlot, fakePeer = <<>>, NEW l, aTx = <<l>>
    PROVE  LET next == IF edges = <<>> THEN edges ELSE Tail(edges)
           IN  \/ /\ ~ForPeer(l) /\ fakePeer' = <<>> /\ aInbox' = <<>>
                  /\ UNCHANGED <<lost, edges>>
               \/ /\ edges' = next /\ fakePeer' = FakePeerReply(l) /\ aInbox' = <<>>
                  /\ lost' = lost
               \/ /\ edges' = next /\ fakePeer' = <<>>
                  /\ aInbox' = HeardIn(FakePeerReply(l)) /\ lost' = lost + 1
               \/ /\ edges' = edges /\ fakePeer' = <<>> /\ aInbox' = <<>> /\ lost' = lost + 1
<1>1. aTx # <<>> /\ Head(aTx) = l
  BY Single
<1> QED  BY <1>1 DEF FakeSlot, HeardIn

(* An answer heard in the slot of the letter is too early. *)
LEMMA HeardEarly ==
    ASSUME slot = "odd", NEW r
    PROVE  Early(HeardIn(r), "even")
<1>1. CASE r = <<>>
  BY <1>1 DEF Early, HeardIn
<1>2. CASE r # <<>>
  <2> DEFINE m == [dest |-> "us", src |-> r.src, text |-> r.text, ft8slot |-> slot]
  <2>1. HeardIn(r) = <<m>> /\ m.dest = "us" /\ m.ft8slot # "even"
    BY <1>2 DEF HeardIn
  <2> HIDE DEF m
  <2> QED  BY <2>1 DEF Early
<1> QED  BY <1>1, <1>2

(* "a" sends, with a record in the log: the answer comes, or a letter is   *)
(* lost, for the first time.                                               *)
LEMMA RecordedSpeaks ==
    ASSUME LongEnough, Settled, EdgesLeft, FakeSlot, slot = "odd", lost' <= 1,
           aAdi["b"] <= 1, Late, fakePeer = <<>>,
           NEW k \in Contacts, NEW c \in 0 .. MAXQSOLIFETIME,
           k # "idle" => edges = <<>>, ASends(k, c), InTimeToSend(lost, k, c)
    PROVE  Recorded' /\ EdgesLeft' /\ Deposited'
<1>1. /\ aPc = "wait" /\ aTicks = <<>> /\ aTicks' = <<slot>>
      /\ slot' = A!OtherSlot(slot)
      /\ aTx' = (IF aTx = <<>> THEN aTx ELSE Tail(aTx))
      /\ lost' = lost \/ lost' = lost + 1
      /\ UNCHANGED <<set, other, aPc, aState, aQso, aRemaining, aPeers, aAdi>>
  BY SlotAlone
<1>2. /\ Holds(aState, aQso, aRemaining, "b", "even", k, c)
      /\ IF k = "idle" THEN aTx = <<>> \/ aTx = <<CallCQ>> ELSE aTx = <<LetterOf(k, "b")>>
  BY <1>1, Single DEF ASends, Sends, Sent
<1>3. /\ aPc' = "wait" /\ aTicks' = <<"odd">> /\ slot' = "even" /\ aTx' = <<>>
      /\ A!OtherSlot("even") = "odd"
  BY <1>1, <1>2, Single DEF A!OtherSlot
<1>4. lost \in 0 .. 1 /\ lost' \in 0 .. 1 /\ aRemaining \in Int
  BY <1>1 DEF Settled
<1>5. /\ LeftOf(k, c) \in 0 .. MAXQSOLIFETIME
      /\ k = "replySig" => LeftOf(k, c) >= MAXQSOLIFETIME - 1 - 2 * lost
      /\ k = "replyRR73" => LeftOf(k, c) >= MAXQSOLIFETIME - 3 - 2 * lost
  BY <1>4 DEF LeftOf, InTimeToSend, LongEnough, Contacts
<1>6. Early(aInbox', "even") => ARests(k, LeftOf(k, c))'
  <2>1. Holds(aState', aQso', aRemaining' - 1, "b", "even", k, LeftOf(k, c))
    BY <1>1, <1>2, <1>4 DEF Holds, LeftOf
  <2> QED  BY <1>3, <2>1 DEF ARests, Rests
<1>7. ASSUME Early(aInbox', "even"), Late', k # "idle" => edges' = <<>>,
             InTimeToHear(lost, k, LeftOf(k, c))'
      PROVE  Recorded'
  BY <1>1, <1>3, <1>5, <1>6, <1>7 DEF Recorded
<1>8. CASE aTx = <<>>
  <2>1. k = "idle" /\ aInbox' = <<>> /\ fakePeer' = <<>> /\ UNCHANGED <<lost, edges>>
    BY <1>2, <1>8, Single, SlotSilent DEF HeardIn
  <2>2. EdgesLeft' /\ Deposited' /\ Late' /\ Early(aInbox', "even")
    BY <1>1, <2>1 DEF EdgesLeft, Deposited, Late, Early
  <2>3. InTimeToHear(lost, k, LeftOf(k, c))'
    BY <2>1 DEF InTimeToHear
  <2> QED  BY <1>7, <2>1, <2>2, <2>3
<1>9. CASE aTx # <<>>
  <2> DEFINE l == IF k = "idle" THEN CallCQ ELSE LetterOf(k, "b")
             next == IF edges = <<>> THEN edges ELSE Tail(edges)
  <2>1. /\ aTx = <<l>> /\ ForPeer(l) /\ l.text \in {"CQ", "SIG", "RR73"}
        /\ k = "replySig" => l.text = "SIG"
        /\ k = "replyRR73" => l.text = "RR73"
    BY <1>2, <1>9 DEF Contacts, ForPeer, CallCQ, LetterOf, A!ReplyText, B!ReplyText
  <2> HIDE DEF l
  <2>2. \/ /\ edges' = next /\ fakePeer' = FakePeerReply(l) /\ aInbox' = <<>>
           /\ lost' = lost
        \/ /\ edges' = next /\ fakePeer' = <<>>
           /\ aInbox' = HeardIn(FakePeerReply(l)) /\ lost' = lost + 1
        \/ /\ edges' = edges /\ fakePeer' = <<>> /\ aInbox' = <<>> /\ lost' = lost + 1
    BY <2>1, SlotSpoken
  <2>3. CASE edges' = next /\ fakePeer' = FakePeerReply(l) /\ aInbox' = <<>> /\ lost' = lost
    <3>1. /\ EdgesLeft' /\ Late' /\ edges' = <<>> /\ Deposited'
          /\ fakePeer'.src = "b"
          /\ k = "replySig" => fakePeer' = [src |-> "b", text |-> "rogerReport"]
          /\ k = "replyRR73" => fakePeer' = [src |-> "b", text |-> "73"]
      BY <1>1, <2>1, <2>3, PeerAnswers DEF Deposited
    <3>2. InTimeToHear(lost, k, LeftOf(k, c))'
      BY <1>5, <2>3, <3>1 DEF InTimeToHear
    <3>3. Early(aInbox', "even")
      BY <2>3 DEF Early
    <3> QED  BY <1>7, <3>1, <3>2, <3>3
  <2>4. CASE lost' = lost + 1 /\ fakePeer' = <<>>
    <3>1. lost = 0 /\ lost' = 1
      BY <1>4, <2>4
    <3>2. InTimeToHear(lost, k, LeftOf(k, c))'
      BY <1>5, <2>4, <3>1 DEF InTimeToHear, LongEnough
    <3>3. Deposited'
      BY <2>4 DEF Deposited
    <3>4. CASE edges' = next /\ aInbox' = HeardIn(FakePeerReply(l))
      BY <1>1, <1>7, <2>1, <3>2, <3>3, <3>4, PeerAnswers, HeardEarly
    <3>5. CASE edges' = edges /\ aInbox' = <<>>
      <4>1. EdgesLeft' /\ Late' /\ Early(aInbox', "even")
        BY <1>1, <3>5 DEF EdgesLeft, Late, Early
      <4> QED  BY <1>7, <3>2, <3>3, <3>5, <4>1
    <3> QED  BY <2>2, <2>4, <3>1, <3>4, <3>5
  <2> QED  BY <2>2, <2>3, <2>4
<1> QED  BY <1>8, <1>9

(* "a" hears, with a record in the log: the exchange goes on. *)
LEMMA RecordedHears ==
    ASSUME LongEnough, Settled, EdgesLeft, Deposited, FakeSlot, slot = "even", lost <= 1,
           aAdi["b"] <= 1, Late,
           NEW k \in Contacts, NEW c \in 0 .. MAXQSOLIFETIME,
           k # "idle" => edges = <<>>, ARests(k, c), InTimeToHear(lost, k, c)
    PROVE  Recorded' /\ EdgesLeft' /\ Deposited'
<1>1. /\ aPc = "wait" /\ aTicks = <<>> /\ aTicks' = <<slot>>
      /\ slot' = A!OtherSlot(slot)
      /\ aTx' = (IF aTx = <<>> THEN aTx ELSE Tail(aTx))
      /\ UNCHANGED <<set, other, aPc, aState, aQso, aRemaining, aPeers, aAdi>>
  BY SlotAlone
<1>2. Holds(aState, aQso, aRemaining, "b", "even", k, c) /\ aTx = <<>>
  BY <1>1, Single DEF ARests, Rests
<1>3. /\ aPc' = "wait" /\ aTicks' = <<"even">> /\ slot' = "odd" /\ aTx' = <<>>
      /\ aInbox' = HeardIn(fakePeer) /\ fakePeer' = <<>> /\ UNCHANGED <<lost, edges>>
  BY <1>1, <1>2, SlotSilent DEF A!OtherSlot
<1>4. lost \in 0 .. 1 /\ aRemaining \in Int
  BY DEF Settled
<1>5. EdgesLeft' /\ Deposited' /\ Late'
  BY <1>1, <1>3 DEF EdgesLeft, Deposited, Late
<1> SUFFICES Recorded'
  BY <1>5
<1>6. ASSUME NEW i \in Contacts, NEW d \in 0 .. MAXQSOLIFETIME,
             i # "idle" => edges = <<>>, ASends(i, d)', InTimeToSend(lost, i, d)
      PROVE  Recorded'
  <2>1. InTimeToSend(lost, i, d)'
    BY <1>3, <1>6 DEF InTimeToSend
  <2> QED  BY <1>1, <1>3, <1>5, <1>6, <2>1 DEF Recorded
<1>7. /\ aState' = k
      /\ k # "idle" => aRemaining' >= c /\ aQso'.src = "b" /\ aQso'.ft8slot = "even"
  BY <1>1, <1>2 DEF Holds
<1>8. CASE fakePeer = <<>>
  <2>1. k # "idle" => lost = 1
    BY <1>8, AnswerSent DEF InTimeToHear, Contacts
  <2>2. /\ LeftOf(k, c) \in 0 .. MAXQSOLIFETIME /\ InTimeToSend(lost, k, LeftOf(k, c))
    BY <1>4, <1>8, <2>1, AnswerSent DEF InTimeToHear, InTimeToSend, LeftOf, LongEnough, Contacts
  <2>3. ASends(k, LeftOf(k, c))'
    <3>1. Holds(aState', aQso', aRemaining' - 1, "b", "even", k, LeftOf(k, c))
      BY <1>1, <1>4, <1>7 DEF Holds, LeftOf
    <3>2. aInbox' = <<>>
      BY <1>3, <1>8 DEF HeardIn
    <3> QED  BY <1>3, <3>1, <3>2 DEF ASends, Sends, Due
  <2> QED  BY <1>6, <2>2, <2>3
<1>9. CASE fakePeer # <<>>
  <2> DEFINE m == [dest |-> "us", src |-> "b", text |-> fakePeer.text, ft8slot |-> "even"]
  <2>1. fakePeer.src = "b" /\ fakePeer.text \in PeerTexts /\ edges = <<>>
    BY <1>9 DEF InTimeToHear, Deposited, Contacts
  <2>2. /\ m \in Answers("b", "even") /\ aInbox' = <<m>> /\ m.dest = "us"
        /\ m.text = fakePeer.text
    BY <1>3, <1>9, <2>1 DEF Answers, HeardIn, PeerTexts
  <2> HIDE DEF m
  <2>3. ASSUME NEW i \in Kinds, i = Moved(k, m, set["a"].reply),
               NEW d \in 0 .. MAXQSOLIFETIME, k # "idle" => i = "idle" \/ d <= c - 1
        PROVE  ASends(i, d)'
    <3>1. Due(aState', aQso', aRemaining' - 1, <<m>>, "b", "even", set'["a"].reply, i, d)
      BY <1>1, <1>4, <1>7, <2>2, <2>3 DEF Due, LongEnough
    <3> QED  BY <1>3, <2>2, <3>1 DEF ASends, Sends
  <2>4. "idle" \in Kinds /\ "replySig" \in Kinds /\ "replyRR73" \in Kinds
        /\ "idle" \in Contacts /\ "replySig" \in Contacts /\ "replyRR73" \in Contacts
        /\ 0 \in 0 .. MAXQSOLIFETIME /\ MAXQSOLIFETIME \in 0 .. MAXQSOLIFETIME
        /\ InTimeToSend(lost, "idle", 0) /\ InTimeToSend(lost, "replySig", MAXQSOLIFETIME)
    BY <1>4 DEF Kinds, Contacts, InTimeToSend, LongEnough
  <2>5. CASE m.text = "73"
    <3>1. Moved(k, m, set["a"].reply) = "idle"
      BY <2>2, <2>5 DEF Moved
    <3>2. ASends("idle", 0)'
      BY <2>3, <2>4, <3>1
    <3> QED  BY <1>6, <2>4, <3>2
  <2>6. CASE k = "idle" /\ m.text # "73"
    <3>1. Moved(k, m, set["a"].reply) = "replySig"
      BY <2>2, <2>6 DEF Moved
    <3>2. ASends("replySig", MAXQSOLIFETIME)'
      BY <2>3, <2>4, <2>6, <3>1
    <3> QED  BY <1>6, <2>1, <2>4, <3>2
  <2>7. CASE k = "replySig" /\ m.text # "73"
    <3>1. fakePeer = [src |-> "b", text |-> "rogerReport"]
          /\ c >= MAXQSOLIFETIME - 1 - 2 * lost
      BY <1>9, <2>7 DEF InTimeToHear
    <3>2. Moved(k, m, set["a"].reply) = "replyRR73"
      BY <2>2, <2>7, <3>1 DEF Moved
    <3>3. c - 1 \in 0 .. MAXQSOLIFETIME /\ c - 1 <= c - 1 /\ InTimeToSend(lost, "replyRR73", c - 1)
      BY <1>4, <3>1 DEF LongEnough, InTimeToSend
    <3>4. ASends("replyRR73", c - 1)'
      BY <2>3, <2>4, <3>2, <3>3
    <3> QED  BY <1>6, <2>1, <2>4, <3>3, <3>4
  <2>8. ~(k = "replyRR73" /\ m.text # "73")
    BY <1>9, <2>2 DEF InTimeToHear
  <2> QED  BY <2>5, <2>6, <2>7, <2>8 DEF Contacts
<1> QED  BY <1>8, <1>9

(* What is heard of the stand-in. *)
LEMMA HeardUnread ==
    ASSUME NEW r, aInbox' = HeardIn(r), slot \in {"even", "odd"},
           r = <<>> \/ /\ r.src \in Heard /\ r.text \in PeerTexts
                       /\ r.text = "rogerReport" => Late'
    PROVE  Unread'
<1>1. CASE r = <<>>
  BY <1>1 DEF Unread, HeardIn
<1>2. CASE r # <<>>
  <2> DEFINE m == [dest |-> "us", src |-> r.src, text |-> r.text, ft8slot |-> slot]
  <2>1. /\ aInbox' = <<m>> /\ m.text = r.text
        /\ m \in [dest : {"us"}, src : Heard, text : PeerTexts, ft8slot : {"even", "odd"}]
    BY <1>2 DEF HeardIn
  <2> HIDE DEF m
  <2> QED  BY <1>2, <2>1 DEF Unread
<1> QED  BY <1>1, <1>2

(* A slot before anything is logged. *)
LEMMA FreshSlot ==
    ASSUME Settled, EdgesLeft, Deposited, Fresh, FakeSlot
    PROVE  Fresh' /\ EdgesLeft' /\ Deposited'
<1>1. /\ aPc = "wait" /\ aTicks = <<>> /\ aTicks' = <<slot>> /\ slot' = A!OtherSlot(slot)
      /\ aTx' = (IF aTx = <<>> THEN aTx ELSE Tail(aTx))
      /\ UNCHANGED <<set, other, aPc, aState, aQso, aRemaining, aPeers, aAdi>>
  BY SlotAlone
<1>2. /\ aAdi["b"] = 0 /\ aState \in Contacts
      /\ aState = "replyRR73" =>
           Late /\ (fakePeer # <<>> => edges = <<>> /\ fakePeer.src = "b")
      /\ FreshSends \/ FreshRests
  BY DEF Fresh
<1>3. CASE FreshRests
  <2>1. /\ slot = "even" /\ slot' = "odd" /\ aTx = <<>> /\ aTx' = <<>>
        /\ aInbox' = HeardIn(fakePeer) /\ fakePeer' = <<>> /\ UNCHANGED <<lost, edges>>
    BY <1>1, <1>3, SlotSilent DEF FreshRests, A!OtherSlot
  <2>2. EdgesLeft' /\ Deposited' /\ (Late => Late')
    BY <1>1, <2>1 DEF EdgesLeft, Deposited, Late
  <2>3. Unread'
    BY <2>1, <2>2, HeardUnread DEF Deposited
  <2>4. FreshSends'
    BY <1>1, <2>1 DEF FreshSends
  <2> QED  BY <1>1, <1>2, <2>1, <2>2, <2>3, <2>4 DEF Fresh
<1>4. CASE FreshSends
  <2>1. /\ slot = "odd" /\ slot' = "even" /\ fakePeer = <<>> /\ aTicks' = <<"odd">>
        /\ aTx = <<>> \/ OneLetter(aTx)
    BY <1>1, <1>4, Single DEF FreshSends, A!OtherSlot
  <2>2. aTx' = <<>>
    BY <1>1, <2>1, Single DEF OneLetter
  <2>3. Early(aInbox', "even") => FreshRests'
    BY <1>1, <2>1, <2>2 DEF FreshRests
  <2>4. CASE aTx = <<>>
    <3>1. aInbox' = <<>> /\ fakePeer' = <<>> /\ UNCHANGED <<lost, edges>>
      BY <2>1, <2>4, SlotSilent DEF HeardIn
    <3>2. EdgesLeft' /\ Deposited' /\ (Late => Late') /\ Unread' /\ Early(aInbox', "even")
      BY <1>1, <3>1 DEF EdgesLeft, Deposited, Late, Unread, Early
    <3> QED  BY <1>1, <1>2, <2>3, <3>1, <3>2 DEF Fresh
  <2>5. CASE aTx # <<>>
    <3>1. PICK l : aTx = <<l>> /\ l.text \in {"CQ", "SIG", "RR73"}
      BY <2>1, <2>5 DEF OneLetter
    <3> DEFINE next == IF edges = <<>> THEN edges ELSE Tail(edges)
    <3>2. \/ /\ edges' = edges /\ fakePeer' = <<>> /\ aInbox' = <<>>
          \/ /\ edges' = next /\ fakePeer' = FakePeerReply(l) /\ aInbox' = <<>>
          \/ /\ edges' = next /\ fakePeer' = <<>> /\ aInbox' = HeardIn(FakePeerReply(l))
      BY <2>1, <3>1, SlotSpoken
    <3>3. CASE edges' = edges /\ fakePeer' = <<>> /\ aInbox' = <<>>
      <4>1. EdgesLeft' /\ Deposited' /\ (Late => Late') /\ Unread' /\ Early(aInbox', "even")
        BY <1>1, <3>3 DEF EdgesLeft, Deposited, Late, Unread, Early
      <4> QED  BY <1>1, <1>2, <2>3, <3>3, <4>1 DEF Fresh
    <3>4. CASE edges' = next
      <4>1. /\ EdgesLeft'
            /\ \/ FakePeerReply(l) = <<>>
               \/ /\ FakePeerReply(l).src \in Heard /\ FakePeerReply(l).text \in PeerTexts
                  /\ FakePeerReply(l).text = "rogerReport" => Late'
            /\ Late => Late' /\ edges' = <<>> /\ FakePeerReply(l).src = "b"
        <5>1. /\ other' = other /\ l.text \in {"CQ", "SIG", "RR73"}
              /\ edges' = IF edges = <<>> THEN edges ELSE Tail(edges)
          BY <1>1, <3>1, <3>4
        <5> QED  BY <5>1, PeerAnswers
      <4>2. CASE fakePeer' = FakePeerReply(l) /\ aInbox' = <<>>
        <5>1. Deposited' /\ Unread' /\ Early(aInbox', "even")
          BY <4>1, <4>2 DEF Deposited, Unread, Early
        <5> QED  BY <1>1, <1>2, <2>3, <4>1, <4>2, <5>1 DEF Fresh
      <4>3. CASE fakePeer' = <<>> /\ aInbox' = HeardIn(FakePeerReply(l))
        <5>1. Unread' /\ Early(aInbox', "even") /\ Deposited'
          BY <2>1, <4>1, <4>3, HeardUnread, HeardEarly DEF Deposited
        <5> QED  BY <1>1, <1>2, <2>3, <4>1, <4>3, <5>1 DEF Fresh
      <4>4. CASE fakePeer' = <<>> /\ aInbox' = <<>>
        <5>1. Unread' /\ Early(aInbox', "even") /\ Deposited'
          BY <4>4 DEF Deposited, Unread, Early
        <5> QED  BY <1>1, <1>2, <2>3, <4>1, <4>4, <5>1 DEF Fresh
      <4> QED  BY <3>2, <4>2, <4>3, <4>4
    <3> QED  BY <3>2, <3>3, <3>4
  <2> QED  BY <2>4, <2>5
<1> QED  BY <1>2, <1>3, <1>4

(* An iteration of the QSO thread before anything is logged: a contact     *)
(* that dies in replyRR73 is logged, and there are no reports to come but  *)
(* answers to a report.                                                    *)
LEMMA FreshThread ==
    ASSUME LongEnough, Settled, Fresh, Deposited, aPeers = <<>>, StepA
    PROVE  (Fresh' \/ Recorded') /\ aPeers' = <<>>
<1>0. /\ UNCHANGED <<slot, set, lost, other, edges, fakePeer>> /\ A!QSOHandler
      /\ Late' = Late /\ A!OtherSlot("even") = "odd"
      /\ set["a"].qso /\ set["a"].slot = "even" /\ ~set["a"].exit
  BY DEF StepA, air, fake, Late, A!OtherSlot, Settled
<1>1. /\ aAdi["b"] = 0 /\ aState \in Contacts /\ Unread
      /\ aState = "replyRR73" =>
           Late /\ (fakePeer # <<>> => edges = <<>> /\ fakePeer.src = "b")
      /\ FreshSends \/ FreshRests
  BY DEF Fresh
<1> SUFFICES \/ Recorded' /\ aPeers' = <<>>
             \/ /\ aPeers' = aPeers /\ aAdi' = aAdi /\ aState' \in Contacts
                /\ aState' = "replyRR73" =>
                     \/ aState = "replyRR73"
                     \/ Late /\ (fakePeer # <<>> => edges = <<>> /\ fakePeer.src = "b")
                /\ Unread'
                /\ FreshSends' \/ FreshRests'
  BY <1>0, <1>1 DEF Fresh
<1>2. aInbox' = aInbox => Unread'
  BY <1>0, <1>1 DEF Unread
<1>3. CASE A!PopTicks
  <2>1. aPc' = "drain" /\ aTicks' = <<>> /\ UNCHANGED <<aState, aAdi, aPeers, aInbox, aTx>>
        /\ aPc = "wait" /\ aTicks # <<>> /\ aTick' = aTicks[Len(aTicks)]
    BY <1>3 DEF A!PopTicks
  <2>2. FreshSends => FreshSends'
    BY <1>0, <2>1, Single DEF FreshSends
  <2>3. FreshRests => FreshRests'
    BY <1>0, <2>1, Single DEF FreshRests
  <2> QED  BY <1>1, <1>2, <2>1, <2>2, <2>3
<1>4. CASE A!AbortWait
  BY <1>0, <1>4 DEF A!AbortWait
<1>5. CASE A!DrainMessage
  <2>1. PICK x \in [dest : {"us"}, src : Heard, text : PeerTexts, ft8slot : {"even", "odd"}] :
           aInbox = <<x>> /\ (x.text = "rogerReport" => Late)
    BY <1>1, <1>5 DEF A!DrainMessage, Unread
  <2>2. x.dest = "us" /\ x.text \in PeerTexts /\ Head(aInbox) = x /\ Tail(aInbox) = <<>>
    BY <2>1, Single
  <2>3. /\ aPc = "drain" /\ aInbox' = <<>> /\ UNCHANGED <<aPc, aTicks, aTick, aTx, aBusy>>
        /\ A!AddQso(x)
    BY <1>5, <2>2 DEF A!DrainMessage
  <2>4. Unread' /\ Early(aInbox', "even")
    BY <2>3 DEF Unread, Early
  <2>5. FreshRests => FreshRests' /\ x.ft8slot # "even"
    BY <1>0, <2>1, <2>3, <2>4, Single DEF FreshRests, Early
  <2>6. FreshSends => FreshSends' /\ fakePeer = <<>>
    BY <1>0, <2>3 DEF FreshSends
  <2>7. CASE A!RefuseQso(x)
    BY <1>1, <2>4, <2>5, <2>6, <2>7 DEF A!RefuseQso, A!machine
  <2>8. CASE ~A!RefuseQso(x)
    <3>1. x.ft8slot = "even" /\ FreshSends
      BY <1>0, <1>1, <2>3, <2>5, <2>8 DEF A!AddQso
    <3>2. /\ A!ParseMsg("73") = "s73Msg" /\ A!ParseMsg("rogerReport") = "sigMsg"
          /\ A!ParseMsg("grid") = "locMsg" /\ A!ParseMsg("other") = "locMsg"
      BY DEF A!ParseMsg
    <3>3. /\ aPeers' = aPeers /\ aAdi' = aAdi /\ aState' \in Contacts
          /\ aState' = "replyRR73" => x.text = "rogerReport"
      <4>1. CASE A!StartQso(x)
        BY <4>1 DEF A!StartQso, Contacts
      <4>2. CASE A!UpdateQso(x)
        <5>1. CASE x.text \in {"grid", "other"}
          BY <3>2, <4>2, <5>1 DEF A!UpdateQso, A!ReceiveLoc, Contacts
        <5>2. CASE x.text = "rogerReport"
          BY <3>2, <4>2, <5>2 DEF A!UpdateQso, A!ReceiveSig, Contacts
        <5>3. CASE x.text = "73"
          BY <3>2, <4>2, <5>3 DEF A!UpdateQso, A!Receive73, A!ResetQsoState, Contacts
        <5> QED  BY <2>2, <5>1, <5>2, <5>3 DEF PeerTexts
      <4> QED  BY <2>3, <2>8, <4>1, <4>2 DEF A!AddQso
    <3> QED  BY <2>1, <2>4, <2>6, <3>1, <3>3
  <2> QED  BY <2>7, <2>8
<1>6. CASE A!DrainEnd
  <2>1. /\ aPc' = "update" /\ aPc = "drain"
        /\ UNCHANGED <<aState, aAdi, aPeers, aInbox, aTx, aTicks, aTick>>
    BY <1>6 DEF A!DrainEnd, A!machine
  <2>2. FreshSends => FreshSends'
    BY <1>0, <2>1 DEF FreshSends
  <2>3. FreshRests => FreshRests'
    BY <1>0, <2>1 DEF FreshRests
  <2> QED  BY <1>1, <1>2, <2>1, <2>2, <2>3
<1>7. CASE A!UpdateQsoMachine
  <2>1. aPc = "update" /\ aPc' = "query" /\ UNCHANGED <<aTicks, aTick, aInbox>>
    BY <1>7 DEF A!UpdateQsoMachine
  <2>2. CASE A!TimeoutQso
    <3>1. /\ aState' = "idle" /\ aPeers' = aPeers /\ aTx' = aTx
      BY <2>2 DEF A!TimeoutQso, A!ResetQsoState
    <3>2. CASE aState = "replyRR73"
      <4>1. aAdi'["b"] <= 1
        <5>1. A!LogToAdi(aQso.src)
          BY <2>2, <3>2 DEF A!TimeoutQso
        <5> QED  BY <1>1, <5>1, ALogs
      <4>2. "idle" \in Contacts /\ 0 \in 0 .. MAXQSOLIFETIME
        BY DEF Contacts, LongEnough
      <4>3. Late'
        BY <1>0, <1>1, <3>2
      <4>4. CASE FreshSends
        <5>1. ASends("idle", 0)'
          BY <2>1, <3>1, <4>4 DEF FreshSends, ASends, Sends, Holds
        <5>2. slot' = "odd" /\ fakePeer' = <<>> /\ InTimeToSend(lost, "idle", 0)'
          BY <1>0, <4>4 DEF FreshSends, InTimeToSend
        <5> QED  BY <3>1, <4>1, <4>2, <4>3, <5>1, <5>2 DEF Recorded
      <4>5. CASE FreshRests
        <5>1. ARests("idle", 0)'
          BY <1>0, <2>1, <3>1, <4>5 DEF FreshRests, ARests, Rests, Holds
        <5>2. slot' = "even" /\ InTimeToHear(lost, "idle", 0)'
          BY <1>0, <1>1, <3>2, <4>5 DEF FreshRests, InTimeToHear
        <5> QED  BY <3>1, <4>1, <4>2, <4>3, <5>1, <5>2 DEF Recorded
      <4> QED  BY <1>1, <4>4, <4>5
    <3>3. CASE aState # "replyRR73"
      <4>1. aAdi' = aAdi
        BY <1>1, <2>2, <3>3 DEF A!TimeoutQso, Contacts
      <4>2. FreshSends => FreshSends'
        BY <1>0, <2>1, <3>1 DEF FreshSends
      <4>3. FreshRests => FreshRests'
        BY <1>0, <2>1, <3>1 DEF FreshRests
      <4> QED  BY <1>1, <1>2, <2>1, <3>1, <4>1, <4>2, <4>3 DEF Contacts
    <3> QED  BY <3>2, <3>3
  <2>3. CASE UNCHANGED <<A!machine, aTx>> /\ ~A!TimeoutQso
    <3>1. UNCHANGED <<aState, aPeers, aAdi, aTx>>
      BY <2>3 DEF A!machine
    <3>2. FreshSends => FreshSends'
      BY <1>0, <2>1, <3>1 DEF FreshSends
    <3>3. FreshRests => FreshRests'
      BY <1>0, <2>1, <3>1 DEF FreshRests
    <3> QED  BY <1>1, <1>2, <2>1, <3>1, <3>2, <3>3
  <2>4. CASE ~UNCHANGED <<A!machine, aTx>> /\ ~A!TimeoutQso
    <3>1. A!HandleTx /\ aTick = "even" /\ aState # "idle"
      BY <1>0, <1>7, <2>4 DEF A!UpdateQsoMachine, A!HandleTx
    <3> DEFINE l == [text |-> A!ReplyText[aState], to |-> aQso.src]
    <3>2. /\ aTx' = Append(aTx, l) /\ aState' = aState /\ aBusy' = (aState' # "idle")
          /\ UNCHANGED <<aPeers, aAdi>>
      BY <1>1, <2>4, <3>1 DEF A!UpdateQsoMachine, A!HandleTx, A!QueueTx, A!machine, Contacts
    <3>3. l.text \in {"CQ", "SIG", "RR73"}
      BY <1>1, <3>1 DEF Contacts, A!ReplyText, B!ReplyText
    <3> HIDE DEF l
    <3>4. FreshSends /\ aTx = <<>>
      BY <1>0, <1>1, <2>1, <3>1 DEF FreshSends, FreshRests
    <3>5. OneLetter(aTx') /\ aBusy'
      BY <3>1, <3>2, <3>3, <3>4, Single DEF OneLetter
    <3>6. FreshSends'
      BY <1>0, <2>1, <3>4, <3>5 DEF FreshSends
    <3> QED  BY <1>1, <1>2, <2>1, <3>2, <3>6
  <2> QED  BY <2>2, <2>3, <2>4
<1>8. CASE A!QueryCQ
  <2>1. aPc = "query" /\ aPc' = "wait" /\ UNCHANGED <<aState, aPeers, aAdi, aTicks, aInbox>>
    BY <1>0, <1>8 DEF A!QueryCQ, A!machine
  <2>2. aTx' = aTx \/ (~aBusy /\ aTick = "even" /\ aTx' = Append(aTx, CallCQ))
    BY <1>0, <1>8 DEF A!QueryCQ, A!QueueTx, CallCQ
  <2>3. FreshSends => FreshSends'
    <3> SUFFICES ASSUME FreshSends PROVE FreshSends'
      OBVIOUS
    <3>1. aTicks = <<>> /\ (aTx = <<>> \/ (aBusy /\ OneLetter(aTx)))
      BY <2>1 DEF FreshSends
    <3>2. aTx' = <<>> \/ OneLetter(aTx')
      <4>1. CASE aTx' = aTx
        BY <3>1, <4>1
      <4>2. CASE ~aBusy /\ aTx' = Append(aTx, CallCQ)
        <5>1. aTx' = <<CallCQ>> /\ CallCQ.text = "CQ"
          BY <3>1, <4>2, Single DEF CallCQ
        <5> QED  BY <5>1 DEF OneLetter
      <4> QED  BY <2>2, <4>1, <4>2
    <3> QED  BY <1>0, <2>1, <3>1, <3>2 DEF FreshSends
  <2>4. FreshRests => FreshRests'
    BY <1>0, <2>1, <2>2 DEF FreshRests
  <2> QED  BY <1>1, <1>2, <2>1, <2>3, <2>4
<1> QED
  BY <1>0, <1>3, <1>4, <1>5, <1>6, <1>7, <1>8 DEF A!QSOHandler

(* An iteration of the QSO thread once a record is written. *)
LEMMA RecordedThread ==
    ASSUME LongEnough, Settled, Recorded, lost <= 1, aPeers = <<>>, StepA
    PROVE  Recorded' /\ aPeers' = <<>>
<1>1. A!QSOHandler /\ UNCHANGED <<slot, set, lost, other, edges, fakePeer>>
  BY DEF StepA, air, fake
<1>2. aAdi["b"] <= 1 /\ Late' /\ lost \in 0 .. 1
  BY <1>1 DEF Recorded, Late, Settled
<1>3. PICK k \in Contacts, c \in 0 .. MAXQSOLIFETIME :
        /\ k # "idle" => edges = <<>>
        /\ \/ slot = "odd" /\ ASends(k, c) /\ fakePeer = <<>> /\ InTimeToSend(lost, k, c)
           \/ slot = "even" /\ ARests(k, c) /\ InTimeToHear(lost, k, c)
  BY DEF Recorded
<1>4. k \in Kinds
  BY DEF Contacts, Kinds
<1>5. CASE slot = "odd" /\ ASends(k, c) /\ fakePeer = <<>> /\ InTimeToSend(lost, k, c)
  <2>1. k # "idle" => c >= 1
    BY <1>2, <1>5 DEF InTimeToSend, Contacts, LongEnough
  <2>2. ASends(k, c)' /\ aPeers' = <<>> /\ aAdi' = aAdi
    BY <1>1, <1>4, <1>5, <2>1, ASendsOn
  <2>3. InTimeToSend(lost, k, c)'
    BY <1>1, <1>5 DEF InTimeToSend
  <2> QED  BY <1>1, <1>2, <1>3, <1>5, <2>2, <2>3 DEF Recorded
<1>6. CASE slot = "even" /\ ARests(k, c) /\ InTimeToHear(lost, k, c)
  <2>1. k # "idle" => c >= 1
    BY <1>2, <1>6 DEF InTimeToHear, Contacts, LongEnough
  <2>2. ARests(k, c)' /\ aPeers' = <<>> /\ aAdi' = aAdi
    BY <1>1, <1>4, <1>6, <2>1, ARestsOn
  <2>3. InTimeToHear(lost, k, c)'
    BY <1>1, <1>6 DEF InTimeToHear
  <2> QED  BY <1>1, <1>2, <1>3, <1>6, <2>2, <2>3 DEF Recorded
<1> QED  BY <1>3, <1>5, <1>6

(* A slot once a record is written. *)
LEMMA RecordedSlot ==
    ASSUME LongEnough, Settled, EdgesLeft, Deposited, Recorded, lost <= 1, lost' <= 1, FakeSlot
    PROVE  Recorded' /\ EdgesLeft' /\ Deposited'
<1>1. aAdi["b"] <= 1 /\ Late
  BY DEF Recorded
<1>2. PICK k \in Contacts, c \in 0 .. MAXQSOLIFETIME :
        /\ k # "idle" => edges = <<>>
        /\ \/ slot = "odd" /\ ASends(k, c) /\ fakePeer = <<>> /\ InTimeToSend(lost, k, c)
           \/ slot = "even" /\ ARests(k, c) /\ InTimeToHear(lost, k, c)
  BY DEF Recorded
<1>3. CASE slot = "odd" /\ ASends(k, c) /\ fakePeer = <<>> /\ InTimeToSend(lost, k, c)
  BY <1>1, <1>2, <1>3, RecordedSpeaks
<1>4. CASE slot = "even" /\ ARests(k, c) /\ InTimeToHear(lost, k, c)
  BY <1>1, <1>2, <1>4, RecordedHears
<1> QED  BY <1>2, <1>3, <1>4

(* Alone, "a" starts with nothing logged, *)
LEMMA AloneInit == Init => AloneInv
<1> SUFFICES ASSUME Init, other # "program" PROVE
        /\ aPeers = <<>> /\ bAdi["a"] = 0 /\ bPc = "wait" /\ bTicks = <<>>
        /\ EdgesLeft /\ Deposited /\ Fresh
  BY DEF AloneInv
<1>1. /\ aPeers = <<>> /\ bAdi["a"] = 0 /\ bPc = "wait" /\ bTicks = <<>> /\ fakePeer = <<>>
      /\ aAdi["b"] = 0 /\ aPc = "wait" /\ aTicks = <<>> /\ aTx = <<>> /\ aInbox = <<>>
      /\ aState = "idle" /\ slot = "even"
  BY DEF Init, Heard
<1>2. EdgesLeft
  <2>1. CASE other = "edge"
    <3>1. edges = EdgeForms
      BY <2>1 DEF Init
    <3>2. EdgeForms \in Seq({EdgeForms[i] : i \in 1 .. 6}) /\ Len(EdgeForms) = 6
      BY DEF EdgeForms
    <3>3. \A i \in 1 .. 6 : 6 - 6 + i = i
      OBVIOUS
    <3> QED  BY <2>1, <3>1, <3>2, <3>3 DEF EdgesLeft
  <2>2. CASE other # "edge"
    <3>1. edges = <<>>
      BY <2>2 DEF Init
    <3> QED  BY <3>1 DEF EdgesLeft
  <2> QED  BY <2>1, <2>2
<1>3. Deposited /\ Fresh
  BY <1>1 DEF Deposited, Fresh, Unread, FreshRests, Early, Contacts
<1> QED  BY <1>1, <1>2, <1>3

(* and every step keeps the count. *)
LEMMA AloneStep ==
    ASSUME LongEnough, Settled, AloneInv, [Next]_vars
    PROVE  AloneInv'
<1> SUFFICES ASSUME other' # "program", lost' <= 1
             PROVE  /\ aPeers' = <<>> /\ bAdi'["a"] = 0 /\ bPc' = "wait" /\ bTicks' = <<>>
                    /\ EdgesLeft' /\ Deposited' /\ (Fresh' \/ Recorded')
  BY DEF AloneInv
<1>1. other # "program" /\ lost <= 1
  <2>1. lost <= lost' /\ other' = other /\ lost \in Int /\ lost' \in Int
    BY SettledStep DEF Settled
  <2> QED  BY <2>1
<1>2. /\ aPeers = <<>> /\ bAdi["a"] = 0 /\ bPc = "wait" /\ bTicks = <<>>
      /\ EdgesLeft /\ Deposited /\ (Fresh \/ Recorded)
  BY <1>1 DEF AloneInv
<1>3. CASE AirSlot
  BY <1>1, <1>3 DEF AirSlot
<1>4. CASE FakeSlot
  <2>1. aPeers' = aPeers /\ UNCHANGED bVars
    BY <1>4, SlotAlone
  <2>2. bAdi' = bAdi /\ bPc' = bPc /\ bTicks' = bTicks
    BY <2>1 DEF bVars
  <2>3. CASE Fresh
    BY <1>2, <1>4, <2>1, <2>2, <2>3, FreshSlot
  <2>4. CASE Recorded
    BY <1>1, <1>2, <1>4, <2>1, <2>2, <2>4, RecordedSlot
  <2> QED  BY <1>2, <2>3, <2>4
<1>5. CASE StepA
  <2>1. /\ UNCHANGED <<other, edges, fakePeer>> /\ bAdi' = bAdi /\ bPc' = bPc
        /\ bTicks' = bTicks
    BY <1>5 DEF StepA, air, fake, bVars
  <2>2. EdgesLeft' /\ Deposited'
    BY <1>2, <2>1 DEF EdgesLeft, Deposited, Late
  <2>3. CASE Fresh
    BY <1>2, <1>5, <2>1, <2>2, <2>3, FreshThread
  <2>4. CASE Recorded
    BY <1>1, <1>2, <1>5, <2>1, <2>2, <2>4, RecordedThread
  <2> QED  BY <1>2, <2>3, <2>4
<1>6. CASE StepB
  <2>1. B!PopTicks \/ B!AbortWait
    BY <1>2, <1>6 DEF StepB, B!QSOHandler, B!DrainMessage, B!DrainEnd,
       B!UpdateQsoMachine, B!QueryCQ
  <2> QED  BY <1>2, <2>1 DEF B!PopTicks, B!AbortWait, Settled
<1>7. CASE UNCHANGED vars
  <2>0. UNCHANGED air /\ UNCHANGED aVars /\ UNCHANGED bVars
    BY <1>7 DEF vars
  <2>1. UNCHANGED <<slot, lost, set, edges, fakePeer, other, bAdi, bPc, bTicks>>
    BY <2>0 DEF air, fake, bVars
  <2>2. UNCHANGED <<aPc, aState, aQso, aRemaining, aAdi, aBusy, aTick, aTicks, aInbox, aTx,
                    aPeers>>
    BY <2>0 DEF aVars
  <2>3. EdgesLeft' /\ Deposited' /\ Late' = Late
    BY <1>2, <2>1 DEF EdgesLeft, Deposited, Late
  <2>4. Fresh => Fresh'
    BY <2>1, <2>2, <2>3 DEF Fresh, Unread, FreshSends, FreshRests
  <2>5. \A k, c : (ASends(k, c) => ASends(k, c)') /\ (ARests(k, c) => ARests(k, c)')
    BY <2>0, <2>1, AStays
  <2>6. \A k, c : /\ InTimeToSend(lost, k, c) => InTimeToSend(lost, k, c)'
                  /\ InTimeToHear(lost, k, c) => InTimeToHear(lost, k, c)'
    BY <2>1 DEF InTimeToSend, InTimeToHear
  <2>7. Recorded => Recorded'
    BY <2>1, <2>2, <2>3, <2>5, <2>6 DEF Recorded
  <2> QED  BY <1>2, <2>1, <2>2, <2>3, <2>4, <2>7
<1> QED  BY <1>3, <1>4, <1>5, <1>6, <1>7 DEF Next

-----------------------------------------------------------------------------
(* The second theorem *)

(* A contact may live seven ticks or more (MAXQSOLIFETIME is 8 in the      *)
(* code) and the table of stations worked has room for one (MAXQSOPEERS is *)
(* 512): then one letter lost, or answered too early, never makes a        *)
(* station log the contact twice, neither with the other program nor with  *)
(* the stand-in.  The station that logs on RR73 refuses the other from     *)
(* then on (addPeer(), checkPeer()); the one that logs when its RR73       *)
(* remains unanswered (updateQsoMachine()) is in time for RR73 or 73 in    *)
(* every other contact.                                                    *)
THEOREM NoDoubleRecord == LongEnough /\ Spec => []LoggedOnce
<1> SUFFICES ASSUME LongEnough PROVE Spec => []LoggedOnce
  OBVIOUS
<1>1. Init => Settled /\ OnceInv /\ AloneInv
  BY SettledInit, OnceInit, AloneInit
<1>2. Settled /\ TruthInv /\ OnceInv /\ AloneInv /\ [Next]_vars
        => Settled' /\ OnceInv' /\ AloneInv'
  BY SettledStep, OnceStep, AloneStep
<1>3. Settled /\ OnceInv /\ AloneInv => LoggedOnce
  <2> SUFFICES ASSUME Settled, OnceInv, AloneInv, lost <= 1
               PROVE  aAdi["b"] <= 1 /\ bAdi["a"] <= 1
    BY DEF LoggedOnce
  <2>1. CASE other = "program"
    BY <2>1, OnceEnough
  <2>2. CASE other # "program"
    BY <2>2 DEF AloneInv, Fresh, Recorded
  <2> QED  BY <2>1, <2>2
<1> QED  BY <1>1, <1>2, <1>3, TruthInit, TruthStep, PTL DEF Spec

=============================================================================
