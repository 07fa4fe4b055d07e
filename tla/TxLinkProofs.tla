---------------------------- MODULE TxLinkProofs ----------------------------
(***************************************************************************)
(* Proofs about the transmit path.  The argument has three parts: letters  *)
(* go through tx_queue, the connection and the transmitter in their order  *)
(* (LetterInv); the thread and the transmitter agree on how many replies   *)
(* of the letter were sent and read, as long as the daemon has not gone    *)
(* down (DialogueInv); and the stand-in uses its hand-off once per slot    *)
(* (SlotInv).                                                              *)
(***************************************************************************)
EXTENDS TxLink, SequenceTheorems, TLAPS

(* Every entry of s is below n, or at most n. *)
Below(s, n) == \A i \in 1 .. Len(s) : s[i] < n
UpTo(s, n) == \A i \in 1 .. Len(s) : s[i] <= n

Climbs(s) == \A i, j \in 1 .. Len(s) : i < j => s[i] < s[j]

Talking == cpc \in {"read1", "read2", "read3", "sleep"}
Busy == {"ack", "wait", "due", "air"}
Texts == {"ACK", "FREQ", "ON", "END"}

LinkTypes ==
    /\ rig \in {"ft8", "fake"} /\ phase \in {"start", "tx", "gap"}
    /\ tx_queue \in Seq(Nat) /\ pushed \in 0 .. NLetters /\ Txletter \in Nat
    /\ cpc \in {"top", "read1", "read2", "read3", "sleep", "done"}
    /\ txStatusFlag \in {"TX_IDLE", "TX_WAITING", "TX_ONGOING", "TX_END"}
    /\ transmitting \in BOOLEAN /\ exitTxThread \in BOOLEAN /\ qsoFreq \in Nat
    /\ inbox \in Seq(Texts)
    /\ linkUp \in BOOLEAN /\ backlog \in Seq(Nat)
    /\ dpc \in {"select", "parse", "wait", "air", "off"}
    /\ dLetter \in Nat /\ fds \in Nat /\ died \in BOOLEAN
    /\ listening \in BOOLEAN /\ fakeTxStopFlag \in BOOLEAN
    /\ hpc \in [Letters -> {"none"} \cup Busy]
    /\ fakeOwn \in Nat /\ aired \in Seq(Nat)

(* The letters not yet taken are the ones after Txletter; those on their   *)
(* way to the transmitter, or with it, are later than those aired.         *)
QueueInv ==
    /\ Len(tx_queue) = pushed - Txletter
    /\ \A i \in 1 .. Len(tx_queue) : tx_queue[i] = Txletter + i
    /\ Txletter = 0 => cpc \in {"top", "done"}

Ahead == \A j \in 1 .. Len(backlog) : Below(aired, backlog[j])

AirInv ==
    /\ Climbs(aired) /\ Climbs(backlog)
    /\ UpTo(aired, Txletter) /\ UpTo(backlog, Txletter)
    /\ \A j \in 1 .. Len(backlog) : 0 < backlog[j]
    /\ Ahead
    /\ dpc \in {"parse", "wait"} => Below(aired, dLetter)
    /\ dpc \in {"parse", "wait", "air"} =>
          /\ 0 < dLetter /\ dLetter <= Txletter
          /\ \A j \in 1 .. Len(backlog) : dLetter < backlog[j]
    /\ \A l \in Letters : hpc[l] \in {"ack", "wait", "due"} => Below(aired, l)

LetterInv == QueueInv /\ AirInv

(* With one transmitter the other does nothing. *)
RigInv ==
    /\ rig = "ft8" => ~listening /\ \A l \in Letters : hpc[l] = "none"
    /\ rig = "fake" =>
          /\ dpc = "off" /\ ~died
          /\ ~listening => cpc = "done"
          /\ fakeTxStopFlag => ~listening
          /\ \A l \in Letters : hpc[l] # "none" => l = Txletter
    /\ ~died /\ rig = "ft8" => dpc # "off"

(* The replies of a letter, in their order; how many of them were sent,    *)
(* and how many the thread has read.                                       *)
Word(r, i) == IF i = 1 THEN "ACK" ELSE IF i = 2 THEN "FREQ"
              ELSE IF i = 3 /\ r = "ft8" THEN "ON" ELSE "END"

Read == IF cpc = "read1" THEN 0 ELSE IF cpc = "read2" THEN 1
        ELSE IF cpc = "read3" THEN 2 ELSE 3

Sent == IF backlog # <<>> THEN 0
        ELSE IF rig = "ft8"
             THEN IF dpc = "parse" THEN 1 ELSE IF dpc = "wait" THEN 2
                  ELSE IF dpc = "air" THEN 3
                  ELSE IF Txletter \in unpackable THEN 1 ELSE 4
             ELSE IF hpc[Txletter] = "ack" THEN 0
                  ELSE IF hpc[Txletter] \in {"wait", "due"} THEN 1
                  ELSE IF hpc[Txletter] = "air" THEN 2 ELSE 3

OnAirAt == IF rig = "ft8" THEN 3 ELSE 2

Talk ==
    /\ backlog # <<>> => Len(backlog) = 1 /\ backlog[1] = Txletter
    /\ Read <= Sent /\ Len(inbox) = Sent - Read
    /\ \A i \in 1 .. Len(inbox) : inbox[i] = Word(rig, Read + i)
    /\ linkUp <=> (rig = "ft8" \/ Sent # 3)
    /\ backlog = <<>> /\ dpc \in {"parse", "wait", "air"} => dLetter = Txletter
    /\ backlog # <<>> =>
         /\ dpc \notin {"parse", "wait"}
         /\ rig = "fake" => listening /\ hpc[Txletter] = "none"
    /\ Sent >= OnAirAt => WasAired(Txletter)
    /\ Read >= 2 => qsoFreq = Txletter

Quiet ==
    /\ backlog = <<>> /\ ~linkUp /\ dpc \notin {"parse", "wait"}
    /\ rig = "fake" => \A l \in Letters : hpc[l] = "none"

DialogueInv ==
    /\ transmitting <=> cpc = "read3"
    /\ ~died /\ Talking => Talk
    /\ ~died /\ ~Talking => Quiet

(* The hand-off holds a letter from the start of its transmission to the   *)
(* end of the slot.                                                        *)
SlotInv ==
    /\ phase = "gap" => fakeOwn = 0
    /\ \A l \in Letters : hpc[l] = "due" => phase = "start" /\ fakeOwn = 0

(* The daemon transmits only what it could pack: a refused letter gets the *)
(* first reply and no other.                                               *)
PackInv == dpc \in {"wait", "air"} => dLetter \notin unpackable

LinkInv == LinkTypes /\ LetterInv /\ RigInv /\ DialogueInv /\ SlotInv /\ PackInv

-----------------------------------------------------------------------------
(* What Tail and Append do, entry by entry, to a queue of letters and to a *)
(* queue of replies.                                                       *)
LEMMA LetterTail ==
    ASSUME NEW s \in Seq(Nat), s # <<>>
    PROVE  /\ Tail(s) \in Seq(Nat) /\ Head(s) \in Nat /\ Head(s) = s[1]
           /\ Len(s) \in Nat /\ Len(s) >= 1 /\ Len(Tail(s)) = Len(s) - 1
           /\ \A i \in 1 .. Len(Tail(s)) : Tail(s)[i] = s[i + 1] /\ i + 1 \in 1 .. Len(s)
BY HeadTailProperties

(* One put at the end of a queue of letters *)
LEMMA LetterAppend ==
    ASSUME NEW s \in Seq(Nat), NEW x \in Nat
    PROVE  /\ Append(s, x) \in Seq(Nat) /\ Len(s) \in Nat
           /\ Len(Append(s, x)) = Len(s) + 1
           /\ \A i \in 1 .. Len(s) : Append(s, x)[i] = s[i]
           /\ Append(s, x)[Len(s) + 1] = x
BY AppendProperties

(* The first of a queue of replies *)
LEMMA TextTail ==
    ASSUME NEW s \in Seq(Texts), s # <<>>
    PROVE  /\ Tail(s) \in Seq(Texts) /\ Head(s) \in Texts /\ Head(s) = s[1]
           /\ Len(s) \in Nat /\ Len(s) >= 1 /\ Len(Tail(s)) = Len(s) - 1
           /\ \A i \in 1 .. Len(Tail(s)) : Tail(s)[i] = s[i + 1] /\ i + 1 \in 1 .. Len(s)
BY HeadTailProperties

(* One put at the end of a queue of replies *)
LEMMA TextAppend ==
    ASSUME NEW s \in Seq(Texts), NEW x \in Texts
    PROVE  /\ Append(s, x) \in Seq(Texts) /\ Len(s) \in Nat
           /\ Len(Append(s, x)) = Len(s) + 1
           /\ \A i \in 1 .. Len(s) : Append(s, x)[i] = s[i]
           /\ Append(s, x)[Len(s) + 1] = x
BY AppendProperties

(* Empty queues *)
LEMMA NothingYet == <<>> \in Seq(Nat) /\ <<>> \in Seq(Texts) /\ Len(<<>>) = 0
BY EmptySeq

(* The four texts of the dialogue *)
LEMMA KnownTexts == "ACK" \in Texts /\ "FREQ" \in Texts /\ "ON" \in Texts /\ "END" \in Texts
BY DEF Texts

(* The types at the start *)
LEMMA TypesInit == Init => LinkTypes
<1> SUFFICES ASSUME Init PROVE LinkTypes
  OBVIOUS
<1>1. listening \in BOOLEAN /\ rig \in {"ft8", "fake"}
  BY TxAssumption DEF Init
<1>2. hpc \in [Letters -> {"none"} \cup Busy]
  BY DEF Init
<1>3. dpc \in {"select", "parse", "wait", "air", "off"}
  BY DEF Init
<1>4. /\ phase = "gap" /\ tx_queue = <<>> /\ pushed = 0 /\ cpc = "top" /\ Txletter = 0
      /\ txStatusFlag = "TX_IDLE" /\ transmitting = FALSE /\ qsoFreq = 0
      /\ exitTxThread = FALSE /\ inbox = <<>> /\ linkUp = FALSE /\ backlog = <<>>
      /\ dLetter = 0 /\ fds = 0 /\ died = FALSE /\ fakeOwn = 0
      /\ fakeTxStopFlag = FALSE /\ aired = <<>>
  BY DEF Init
<1>5. 0 \in 0 .. NLetters
  BY TxAssumption
<1>6. /\ tx_queue \in Seq(Nat) /\ backlog \in Seq(Nat) /\ inbox \in Seq(Texts)
      /\ aired \in Seq(Nat)
  BY <1>4, NothingYet
<1> QED
  BY <1>1, <1>2, <1>3, <1>4, <1>5, <1>6 DEF LinkTypes

(* and after every step. *)
LEMMA TypesStep == LinkInv /\ [Next]_vars => LinkTypes'
<1> SUFFICES ASSUME LinkInv, [Next]_vars PROVE LinkTypes'
  OBVIOUS
<1> USE TxAssumption, KnownTexts DEF LinkTypes, LinkInv
<1> USE DEF Letters, Busy, client, queue, daemon, fake, link
<1>1. CASE PushLetter
  BY <1>1, LetterAppend DEF PushLetter
<1>2. CASE PopLetter
  <2>1. tx_queue \in Seq(Nat) /\ tx_queue # <<>> /\ backlog \in Seq(Nat)
    BY <1>2 DEF PopLetter
  <2>2. /\ Txletter' = Head(tx_queue) /\ tx_queue' = Tail(tx_queue)
        /\ inbox' = <<>> /\ linkUp' = Serving /\ cpc' = "read1"
        /\ backlog' = IF Serving THEN Append(backlog, Txletter') ELSE backlog
        /\ UNCHANGED <<rig, phase, txStatusFlag, transmitting, qsoFreq, exitTxThread, pushed,
                       dpc, dLetter, fds, died, listening, hpc, fakeOwn, fakeTxStopFlag, aired>>
    BY <1>2 DEF PopLetter
  <2>3. Txletter' \in Nat /\ tx_queue' \in Seq(Nat)
    <3> HIDE DEF LinkTypes
    <3> QED
      BY <2>1, <2>2, LetterTail
  <2>4. backlog' \in Seq(Nat)
    <3> HIDE DEF LinkTypes
    <3> QED
      BY <2>1, <2>2, <2>3, LetterAppend
  <2>5. Serving \in BOOLEAN
    BY DEF Serving
  <2> QED
    BY <2>2, <2>3, <2>4, <2>5, NothingYet
<1>20. ReadReply => /\ inbox' \in Seq(Texts) /\ qsoFreq' \in Nat
                   /\ UNCHANGED <<rig, phase, Txletter, exitTxThread, linkUp, backlog, tx_queue,
                                  pushed, dpc, dLetter, fds, died, listening, hpc, fakeOwn,
                                  fakeTxStopFlag, aired>>
  <2> SUFFICES ASSUME ReadReply PROVE inbox' \in Seq(Texts) /\ qsoFreq' \in Nat
    BY DEF ReadReply
  <2>1. inbox \in Seq(Texts) /\ qsoFreq \in Nat /\ Txletter \in Nat
    OBVIOUS
  <2>2. \/ inbox # <<>> /\ inbox' = Tail(inbox)
        \/ inbox' = inbox
    BY DEF ReadReply
  <2>3. qsoFreq' \in {Txletter, qsoFreq}
    BY DEF ReadReply
  <2> HIDE DEF LinkTypes
  <2> QED
    BY <2>1, <2>2, <2>3, TextTail
<1>3. CASE FirstRead
  <2>1. ReadReply /\ cpc' = "read2" /\ txStatusFlag' = "TX_WAITING" /\ transmitting' = transmitting
    BY <1>3 DEF FirstRead
  <2>2. tx_queue' \in Seq(Nat) /\ backlog' \in Seq(Nat) /\ inbox' \in Seq(Texts)
        /\ aired' \in Seq(Nat) /\ hpc' \in [Letters -> {"none"} \cup Busy]
    BY <1>20, <2>1
  <2> QED
    BY <1>20, <2>1, <2>2
<1>4. CASE SecondRead
  <2>1. ReadReply /\ cpc' = "read3" /\ txStatusFlag' = "TX_ONGOING" /\ transmitting' = TRUE
    BY <1>4 DEF SecondRead
  <2>2. tx_queue' \in Seq(Nat) /\ backlog' \in Seq(Nat) /\ inbox' \in Seq(Texts)
        /\ aired' \in Seq(Nat) /\ hpc' \in [Letters -> {"none"} \cup Busy]
    BY <1>20, <2>1
  <2> QED
    BY <1>20, <2>1, <2>2
<1>5. CASE ThirdRead
  <2>1. ReadReply /\ cpc' = "sleep" /\ txStatusFlag' = "TX_END" /\ transmitting' = FALSE
    BY <1>5 DEF ThirdRead
  <2>2. tx_queue' \in Seq(Nat) /\ backlog' \in Seq(Nat) /\ inbox' \in Seq(Texts)
        /\ aired' \in Seq(Nat) /\ hpc' \in [Letters -> {"none"} \cup Busy]
    BY <1>20, <2>1
  <2>3. cpc' \in {"top", "read1", "read2", "read3", "sleep", "done"} /\ transmitting' \in BOOLEAN
        /\ txStatusFlag' \in {"TX_IDLE", "TX_WAITING", "TX_ONGOING", "TX_END"}
    BY <2>1
  <2> QED
    BY <1>20, <2>1, <2>2, <2>3
<1>6. CASE CloseLetter \/ LeaveLoop \/ CloseTxThread
  <2>1. CASE CloseLetter
    <3>1. /\ txStatusFlag' = "TX_IDLE" /\ linkUp' = FALSE /\ cpc' = "top"
          /\ UNCHANGED <<rig, phase, Txletter, transmitting, qsoFreq, exitTxThread, tx_queue,
                         pushed, dpc, dLetter, fds, died, listening, hpc, fakeOwn,
                         fakeTxStopFlag, inbox, backlog, aired>>
      BY <2>1 DEF CloseLetter
    <3>2. tx_queue' \in Seq(Nat) /\ backlog' \in Seq(Nat) /\ inbox' \in Seq(Texts)
          /\ aired' \in Seq(Nat) /\ hpc' \in [Letters -> {"none"} \cup Busy]
      BY <3>1
    <3> QED
      BY <3>1, <3>2
  <2>2. CASE LeaveLoop
    BY <2>2 DEF LeaveLoop
  <2>3. CASE CloseTxThread
    BY <2>3 DEF CloseTxThread
  <2> QED
    BY <1>6, <2>1, <2>2, <2>3
<1>7. CASE AcceptRequest
  BY <1>7, LetterTail, TextAppend DEF AcceptRequest, Reply
<1>8. CASE AcceptFails \/ ParseAborts \/ Crash \/ Restart
  <2>1. CASE AcceptFails \/ ParseAborts \/ Crash
    <3>1. GoDown /\ UNCHANGED <<rig, phase, cpc, Txletter, txStatusFlag, transmitting, qsoFreq,
                                exitTxThread, tx_queue, pushed, listening, hpc, fakeOwn,
                                fakeTxStopFlag, inbox, aired>>
      BY <2>1 DEF AcceptFails, ParseAborts, Crash
    <3>2. /\ dpc' = "off" /\ dLetter' = 0 /\ fds' = 0 /\ died' = TRUE
          /\ linkUp' = FALSE /\ backlog' = <<>>
      BY <3>1 DEF GoDown
    <3>3. tx_queue' \in Seq(Nat) /\ backlog' \in Seq(Nat) /\ inbox' \in Seq(Texts)
          /\ aired' \in Seq(Nat) /\ hpc' \in [Letters -> {"none"} \cup Busy]
      BY <3>1, <3>2, NothingYet
    <3>4. /\ dpc' \in {"select", "parse", "wait", "air", "off"} /\ dLetter' \in Nat
          /\ fds' \in Nat /\ died' \in BOOLEAN /\ linkUp' \in BOOLEAN
      BY <3>2
    <3> QED
      BY <3>1, <3>3, <3>4
  <2>4. CASE Restart
    BY <2>4 DEF Restart
  <2> QED
    BY <1>8, <2>1, <2>4
<1>9. CASE ReportFreq \/ RefuseLetter
  <2>1. CASE ReportFreq
    BY <2>1, TextAppend DEF ReportFreq, Parsed, Reply
  <2>2. CASE RefuseLetter
    BY <2>2 DEF RefuseLetter, Parsed
  <2> QED
    BY <1>9, <2>1, <2>2
<1>10. CASE GoOnAir
  BY <1>10, TextAppend, LetterAppend DEF GoOnAir, Reply
<1>11. CASE GoOffAir
  BY <1>11, TextAppend DEF GoOffAir, Reply
<1>12. CASE FakeAccept
  <2>1. hpc' \in [Letters -> {"none"} \cup Busy]
    BY <1>12 DEF FakeAccept
  <2> QED
    BY <1>12, <2>1, LetterTail DEF FakeAccept
<1>13. ASSUME NEW l \in Letters, FakeAck(l) PROVE LinkTypes'
  BY <1>13, TextAppend DEF FakeAck, Reply
<1>14. ASSUME NEW l \in Letters, FakeOnAir(l) PROVE LinkTypes'
  BY <1>14, TextAppend, LetterAppend DEF FakeOnAir, Reply
<1>15. ASSUME NEW l \in Letters, FakeOffAir(l) PROVE LinkTypes'
  BY <1>15, TextAppend DEF FakeOffAir, Reply
<1>16. CASE FakeTxStop \/ FillBuffer \/ FirstSecondOver
  <2>1. CASE FakeTxStop
    BY <2>1, NothingYet DEF FakeTxStop
  <2>2. CASE FillBuffer
    BY <2>2 DEF FillBuffer
  <2>3. CASE FirstSecondOver
    BY <2>3 DEF FirstSecondOver
  <2> QED
    BY <1>16, <2>1, <2>2, <2>3
<1>17. CASE SlotBegins
  BY <1>17 DEF SlotBegins
<1>18. CASE UNCHANGED vars
  BY <1>18 DEF vars
<1> QED
  BY <1>1, <1>2, <1>3, <1>4, <1>5, <1>6, <1>7, <1>8, <1>9, <1>10, <1>11, <1>12,
     <1>13, <1>14, <1>15, <1>16, <1>17, <1>18
     DEF Next, TXHandler, Daemon, FakeHandler, Clock

-----------------------------------------------------------------------------
(* The order of the letters *)

(* A later letter at the end keeps the order, *)
LEMMA AppendKeeps ==
    ASSUME NEW s \in Seq(Nat), NEW x \in Nat, Climbs(s), Below(s, x)
    PROVE  /\ Climbs(Append(s, x))
           /\ \A n \in Nat : UpTo(s, n) /\ x <= n => UpTo(Append(s, x), n)
           /\ \A n \in Nat : Below(s, n) /\ x < n => Below(Append(s, x), n)
BY LetterAppend DEF Climbs, Below, UpTo

(* taking the first one does too, *)
LEMMA TailKeeps ==
    ASSUME NEW s \in Seq(Nat), s # <<>>, Climbs(s)
    PROVE  /\ Climbs(Tail(s))
           /\ \A n \in Nat : UpTo(s, n) => UpTo(Tail(s), n)
           /\ \A i \in 1 .. Len(Tail(s)) : Head(s) < Tail(s)[i]
BY LetterTail DEF Climbs, UpTo

(* and an empty queue has one. *)
LEMMA EmptyKeeps ==
    /\ Climbs(<<>>) /\ \A n \in Nat : UpTo(<<>>, n) /\ Below(<<>>, n)
    /\ 1 .. Len(<<>>) = {}
BY NothingYet DEF Climbs, UpTo, Below

(* The letter taken next is the one after Txletter. *)
LEMMA NextLetter ==
    ASSUME LinkTypes, QueueInv, tx_queue # <<>>
    PROVE  Head(tx_queue) = Txletter + 1 /\ Txletter < pushed
BY LetterTail DEF LinkTypes, QueueInv

(* No letter is under way at the start. *)
LEMMA LetterInit == Init => LetterInv
<1> SUFFICES ASSUME Init PROVE LetterInv
  OBVIOUS
<1>1. QueueInv
  BY NothingYet DEF Init, QueueInv
<1>2. /\ aired = <<>> /\ backlog = <<>> /\ Txletter = 0 /\ dpc \in {"select", "off"}
      /\ \A l \in Letters : hpc[l] = "none"
  BY DEF Init
<1>3. AirInv
  BY <1>2, EmptyKeeps DEF AirInv, Ahead
<1> QED
  BY <1>1, <1>3 DEF LetterInv

(* tx_queue keeps the order of the QSO thread. *)
LEMMA QueueStep == LinkInv /\ [Next]_vars => QueueInv'
<1> SUFFICES ASSUME LinkInv, [Next]_vars PROVE QueueInv'
  OBVIOUS
<1>0. LinkTypes /\ QueueInv
  BY DEF LinkInv, LetterInv
<1>1. CASE PushLetter
  <2>1. /\ pushed' = pushed + 1 /\ tx_queue' = Append(tx_queue, pushed + 1)
        /\ UNCHANGED <<Txletter, cpc>>
    BY <1>1 DEF PushLetter, client
  <2>2. pushed + 1 \in Nat /\ pushed \in Nat
    BY <1>0, TxAssumption DEF LinkTypes
  <2>3. /\ Len(tx_queue) \in Nat /\ Len(tx_queue') = Len(tx_queue) + 1
        /\ \A i \in 1 .. Len(tx_queue) : tx_queue'[i] = tx_queue[i]
        /\ tx_queue'[Len(tx_queue) + 1] = pushed + 1
    BY <1>0, <2>1, <2>2, LetterAppend DEF LinkTypes
  <2>4. Txletter \in Nat /\ Len(tx_queue) = pushed - Txletter
        /\ \A i \in 1 .. Len(tx_queue) : tx_queue[i] = Txletter + i
    BY <1>0 DEF LinkTypes, QueueInv
  <2>5. \A i \in 1 .. Len(tx_queue') : tx_queue'[i] = Txletter + i
    BY <2>2, <2>3, <2>4
  <2> QED
    BY <1>0, <2>1, <2>2, <2>3, <2>4, <2>5 DEF QueueInv
<1>2. CASE PopLetter
  <2>1. /\ tx_queue # <<>> /\ Txletter' = Txletter + 1 /\ tx_queue' = Tail(tx_queue)
        /\ cpc' = "read1" /\ UNCHANGED pushed
    BY <1>0, <1>2, NextLetter DEF PopLetter
  <2> QED
    BY <1>0, <2>1, LetterTail DEF LinkTypes, QueueInv
<1>3. CASE FirstRead \/ SecondRead \/ ThirdRead \/ CloseLetter \/ LeaveLoop
  <2>1. UNCHANGED <<pushed, tx_queue, Txletter>> /\ (cpc' = "done" => cpc = "top")
        /\ (cpc \in {"top", "done"} => cpc' = "done") /\ cpc # "done"
    BY <1>3 DEF FirstRead, SecondRead, ThirdRead, ReadReply, CloseLetter, LeaveLoop, queue
  <2> QED
    BY <1>0, <2>1 DEF QueueInv
<1>4. CASE \/ CloseTxThread \/ Daemon \/ Crash \/ FakeAccept \/ FakeHandler \/ FakeTxStop
           \/ Clock \/ UNCHANGED vars
  <2>1. UNCHANGED <<pushed, tx_queue, Txletter, cpc>>
    BY <1>4 DEF CloseTxThread, Daemon, AcceptRequest, AcceptFails, ParseAborts, RefuseLetter,
         ReportFreq, GoOnAir, GoOffAir, Restart, Crash, FakeAccept, FakeHandler, FakeAck, FakeOnAir,
         FakeOffAir, FakeTxStop, Clock, SlotBegins, FirstSecondOver, FillBuffer,
         vars, client, queue
  <2> QED
    BY <1>0, <2>1 DEF QueueInv
<1> QED
  BY <1>1, <1>2, <1>3, <1>4 DEF Next, TXHandler

(* What is sent and transmitted keeps the order of the queue. *)
LEMMA AirStep == LinkInv /\ [Next]_vars => AirInv'
<1> SUFFICES ASSUME LinkInv, [Next]_vars PROVE AirInv'
  OBVIOUS
<1>0. LinkTypes /\ QueueInv /\ AirInv /\ RigInv
  BY DEF LinkInv, LetterInv
<1>1. CASE PopLetter
  <2>1. /\ Txletter' = Txletter + 1 /\ Txletter + 1 \in Nat
        /\ backlog' \in {backlog, Append(backlog, Txletter + 1)}
        /\ UNCHANGED <<aired, dpc, dLetter, hpc>>
    BY <1>0, <1>1, NextLetter DEF PopLetter, LinkTypes, daemon, fake
  <2> DEFINE x == Txletter + 1
  <2>2. Below(backlog, x) /\ Below(aired, x) /\ UpTo(aired, x) /\ UpTo(backlog, x)
    BY <1>0, ElementOfSeq DEF AirInv, LinkTypes, UpTo, Below
  <2>3. x \in Nat /\ 0 < x /\ (dLetter <= Txletter => dLetter < x /\ dLetter <= x)
    BY <1>0 DEF LinkTypes
  <2>4. /\ Climbs(backlog') /\ UpTo(backlog', x)
        /\ \A j \in 1 .. Len(backlog') : 
              \/ j \in 1 .. Len(backlog) /\ backlog'[j] = backlog[j]
              \/ backlog'[j] = x
    <3> HIDE DEF x
    <3>1. backlog' \in {backlog, Append(backlog, x)}
      BY <2>1 DEF x
    <3>2. backlog \in Seq(Nat) /\ Climbs(backlog)
      BY <1>0 DEF LinkTypes, AirInv
    <3>3. CASE backlog' = backlog
      BY <2>2, <3>2, <3>3
    <3>4. CASE backlog' = Append(backlog, x)
      <4>1. Climbs(Append(backlog, x)) /\ UpTo(Append(backlog, x), x)
        BY <2>2, <2>3, <3>2, AppendKeeps
      <4>2. \A j \in 1 .. Len(Append(backlog, x)) : 
              \/ j \in 1 .. Len(backlog) /\ Append(backlog, x)[j] = backlog[j]
              \/ Append(backlog, x)[j] = x
        BY <2>3, <3>2, LetterAppend
      <4> QED
        BY <3>4, <4>1, <4>2
    <3> QED
      BY <3>1, <3>3, <3>4
  <2>5. Ahead' /\ \A j \in 1 .. Len(backlog') : 0 < backlog'[j]
    <3> HIDE DEF x
    <3> QED
      BY <1>0, <2>1, <2>2, <2>3, <2>4 DEF AirInv, Ahead
  <2>6. dpc \in {"parse", "wait", "air"} =>
          /\ 0 < dLetter /\ dLetter <= x
          /\ \A j \in 1 .. Len(backlog') : dLetter < backlog'[j]
    <3> HIDE DEF x
    <3> QED
      BY <1>0, <2>3, <2>4 DEF AirInv
  <2> QED
    BY <1>0, <2>1, <2>2, <2>4, <2>5, <2>6 DEF AirInv
<1>2. CASE AcceptRequest
  <2> DEFINE h == Head(backlog)
  <2>1. /\ backlog # <<>> /\ dLetter' = h /\ backlog' = Tail(backlog) /\ dpc' = "parse"
        /\ UNCHANGED <<aired, Txletter, hpc>>
    BY <1>2 DEF AcceptRequest, client, fake
  <2>2. /\ h \in Nat /\ h = backlog[1] /\ 1 \in 1 .. Len(backlog)
        /\ \A j \in 1 .. Len(Tail(backlog)) :
               Tail(backlog)[j] = backlog[j + 1] /\ j + 1 \in 1 .. Len(backlog)
    BY <1>0, <2>1, LetterTail DEF LinkTypes
  <2>3. Below(aired, h) /\ 0 < h /\ h <= Txletter
    BY <1>0, <2>2 DEF AirInv, Ahead, UpTo
  <2>4. /\ Climbs(Tail(backlog)) /\ UpTo(Tail(backlog), Txletter)
        /\ \A j \in 1 .. Len(Tail(backlog)) : h < Tail(backlog)[j]
    BY <1>0, <2>1, TailKeeps DEF AirInv, LinkTypes
  <2>5. /\ \A j \in 1 .. Len(Tail(backlog)) : Below(aired, Tail(backlog)[j])
        /\ \A j \in 1 .. Len(Tail(backlog)) : 0 < Tail(backlog)[j]
    BY <1>0, <2>2 DEF AirInv, Ahead
  <2> HIDE DEF h
  <2> QED
    BY <1>0, <2>1, <2>3, <2>4, <2>5 DEF AirInv, Ahead
<1>3. CASE FakeAccept
  <2> DEFINE h == Head(backlog)
  <2>1. /\ backlog # <<>> /\ hpc' = [hpc EXCEPT ![h] = "ack"] /\ backlog' = Tail(backlog)
        /\ UNCHANGED <<aired, Txletter, dpc, dLetter>>
    BY <1>3 DEF FakeAccept, client, daemon
  <2>2. /\ h \in Nat /\ h = backlog[1] /\ 1 \in 1 .. Len(backlog)
        /\ \A j \in 1 .. Len(Tail(backlog)) :
               Tail(backlog)[j] = backlog[j + 1] /\ j + 1 \in 1 .. Len(backlog)
    BY <1>0, <2>1, LetterTail DEF LinkTypes
  <2>3. Below(aired, h)
    BY <1>0, <2>2 DEF AirInv, Ahead
  <2>4. Climbs(Tail(backlog)) /\ UpTo(Tail(backlog), Txletter)
    BY <1>0, <2>1, TailKeeps DEF AirInv, LinkTypes
  <2>5. /\ \A j \in 1 .. Len(Tail(backlog)) : Below(aired, Tail(backlog)[j])
        /\ \A j \in 1 .. Len(Tail(backlog)) : 0 < Tail(backlog)[j]
        /\ dpc \in {"parse", "wait", "air"} =>
              \A j \in 1 .. Len(Tail(backlog)) : dLetter < Tail(backlog)[j]
    BY <1>0, <2>2 DEF AirInv, Ahead
  <2> HIDE DEF h
  <2>6. \A l \in Letters : hpc'[l] \in {"ack", "wait", "due"} => Below(aired, l)
    BY <1>0, <2>1, <2>3 DEF AirInv, LinkTypes
  <2>7. \A l \in Letters : hpc'[l] \in {"ack", "wait", "due"} => Below(aired', l)
    BY <2>1, <2>6
  <2>8. Ahead'
    BY <2>1, <2>5 DEF Ahead
  <2>9. /\ Climbs(aired') /\ Climbs(backlog') /\ UpTo(aired', Txletter')
        /\ UpTo(backlog', Txletter') /\ \A j \in 1 .. Len(backlog') : 0 < backlog'[j]
    BY <1>0, <2>1, <2>4, <2>5 DEF AirInv
  <2>10. /\ dpc' \in {"parse", "wait"} => Below(aired', dLetter')
         /\ dpc' \in {"parse", "wait", "air"} =>
              /\ 0 < dLetter' /\ dLetter' <= Txletter'
              /\ \A j \in 1 .. Len(backlog') : dLetter' < backlog'[j]
    BY <1>0, <2>1, <2>5 DEF AirInv
  <2> QED
    BY <2>7, <2>8, <2>9, <2>10 DEF AirInv
<1>4. CASE GoOnAir
  <2>1. /\ dpc = "wait" /\ dpc' = "air" /\ aired' = Append(aired, dLetter)
        /\ UNCHANGED <<Txletter, backlog, dLetter, hpc, rig>>
    BY <1>4 DEF GoOnAir, client, fake
  <2>2. rig = "ft8" /\ \A l \in Letters : hpc[l] = "none"
    BY <1>0, <2>1 DEF RigInv, LinkTypes
  <2>3. /\ dLetter \in Nat /\ Below(aired, dLetter) /\ 0 < dLetter /\ dLetter <= Txletter
        /\ \A j \in 1 .. Len(backlog) : dLetter < backlog[j]
    BY <1>0, <2>1 DEF AirInv, LinkTypes
  <2>4. Climbs(aired') /\ UpTo(aired', Txletter)
    BY <1>0, <2>1, <2>3, AppendKeeps DEF AirInv, LinkTypes
  <2>5. Ahead'
    <3>1. ASSUME NEW j \in 1 .. Len(backlog) PROVE Below(aired', backlog[j])
      <4>1. backlog[j] \in Nat /\ Below(aired, backlog[j]) /\ dLetter < backlog[j]
        BY <1>0, <2>3, ElementOfSeq DEF AirInv, Ahead, LinkTypes
      <4> QED
        BY <1>0, <2>1, <2>3, <4>1, AppendKeeps DEF AirInv, LinkTypes
    <3> QED
      BY <2>1, <3>1 DEF Ahead
  <2> QED
    BY <1>0, <2>1, <2>2, <2>3, <2>4, <2>5 DEF AirInv
<1>5. ASSUME NEW l \in Letters, FakeOnAir(l) PROVE AirInv'
  <2>1. /\ hpc[l] \in {"wait", "due"} /\ aired' = Append(aired, l)
        /\ hpc' = [hpc EXCEPT ![l] = "air"]
        /\ UNCHANGED <<Txletter, backlog, dpc, dLetter, rig>>
    BY <1>5 DEF FakeOnAir, client, daemon
  <2>2. l = Txletter /\ rig = "fake" /\ dpc = "off" /\ ~died
        /\ \A k \in Letters : k # l => hpc[k] = "none"
    BY <1>0, <2>1 DEF RigInv, LinkTypes
  <2>3. backlog = <<>>
    <3>1. Talking \/ ~Talking
      OBVIOUS
    <3> QED
      BY <1>0, <2>1, <2>2, <3>1 DEF LinkInv, DialogueInv, Talk, Quiet
  <2>4. l \in Nat /\ Below(aired, l)
    BY <1>0, <2>1, TxAssumption DEF AirInv, LinkTypes, Letters
  <2>5. Climbs(aired') /\ UpTo(aired', Txletter)
    BY <1>0, <2>1, <2>2, <2>4, AppendKeeps DEF AirInv, LinkTypes
  <2>6. Ahead'
    BY <2>1, <2>3, EmptyKeeps DEF Ahead
  <2>7. \A k \in Letters : hpc'[k] \notin {"ack", "wait", "due"}
    BY <1>0, <2>1, <2>2 DEF LinkTypes
  <2> QED
    BY <1>0, <2>1, <2>2, <2>3, <2>5, <2>6, <2>7, EmptyKeeps DEF AirInv
<1>6. CASE AcceptFails \/ ParseAborts \/ Crash
  <2>1. dpc' = "off" /\ backlog' = <<>> /\ UNCHANGED <<aired, Txletter, hpc>>
    BY <1>6 DEF AcceptFails, ParseAborts, Crash, GoDown, client, fake
  <2> QED
    BY <1>0, <2>1, EmptyKeeps DEF AirInv, Ahead, LinkTypes
<1>7. CASE RefuseLetter \/ ReportFreq \/ GoOffAir \/ Restart
  <2>1. /\ dpc' = "wait" => dpc = "parse" /\ dLetter' = dLetter
        /\ dpc' \in {"wait", "select"}
        /\ UNCHANGED <<aired, Txletter, backlog, hpc>>
    BY <1>7 DEF RefuseLetter, ReportFreq, Parsed, GoOffAir, Restart, client, fake, link
  <2> QED
    BY <1>0, <2>1 DEF AirInv, Ahead
<1>8. ASSUME NEW l \in Letters, FakeAck(l) \/ FakeOffAir(l) PROVE AirInv'
  <2>1. /\ \/ hpc[l] = "ack" /\ hpc' = [hpc EXCEPT ![l] = "wait"]
           \/ hpc' = [hpc EXCEPT ![l] = "none"]
        /\ UNCHANGED <<aired, Txletter, backlog, dpc, dLetter>>
    BY <1>8 DEF FakeAck, FakeOffAir, client, daemon
  <2>2. \A k \in Letters : hpc'[k] \in {"ack", "wait", "due"} =>
                             hpc[k] \in {"ack", "wait", "due"}
    BY <1>0, <2>1 DEF LinkTypes
  <2> QED
    BY <1>0, <2>1, <2>2 DEF AirInv, Ahead
<1>9. CASE SlotBegins
  <2>1. /\ hpc' = [l \in Letters |-> IF hpc[l] = "wait" THEN "due" ELSE hpc[l]]
        /\ UNCHANGED <<aired, Txletter, backlog, dpc, dLetter>>
    BY <1>9 DEF SlotBegins, client, daemon, link
  <2>2. \A k \in Letters : hpc'[k] \in {"ack", "wait", "due"} =>
                             hpc[k] \in {"ack", "wait", "due"}
    BY <2>1
  <2> QED
    BY <1>0, <2>1, <2>2 DEF AirInv, Ahead
<1>10. CASE FakeTxStop
  <2>1. backlog' = <<>> /\ UNCHANGED <<aired, Txletter, hpc, dpc, dLetter>>
    BY <1>10 DEF FakeTxStop, client, daemon
  <2> QED
    BY <1>0, <2>1, EmptyKeeps DEF AirInv, Ahead, LinkTypes
<1>11. CASE \/ PushLetter \/ FirstRead \/ SecondRead \/ ThirdRead \/ CloseLetter \/ LeaveLoop
            \/ CloseTxThread \/ FirstSecondOver \/ FillBuffer \/ UNCHANGED vars
  <2>1. UNCHANGED <<aired, Txletter, backlog, dpc, dLetter, hpc>>
    BY <1>11 DEF PushLetter, FirstRead, SecondRead, ThirdRead, ReadReply, CloseLetter,
         LeaveLoop, CloseTxThread, FirstSecondOver, FillBuffer, vars, client, daemon,
         fake, link
  <2> QED
    BY <1>0, <2>1 DEF AirInv, Ahead
<1> QED
  BY <1>1, <1>2, <1>3, <1>4, <1>5, <1>6, <1>7, <1>8, <1>9, <1>10, <1>11
     DEF Next, TXHandler, Daemon, FakeHandler, Clock

-----------------------------------------------------------------------------
(* The transmitter that is not used stays out of it, and the stand-in has  *)
(* one handler at a time.                                                  *)
LEMMA RigInit == Init => RigInv
<1> SUFFICES ASSUME Init PROVE RigInv
  OBVIOUS
<1>1. CASE rig = "ft8"
  BY <1>1 DEF Init, RigInv
<1>2. CASE rig = "fake"
  BY <1>2 DEF Init, RigInv
<1> QED
  BY <1>1, <1>2, TxAssumption DEF Init

(* A letter of the stand-in that is under way is the current one, and has  *)
(* left the backlog; nobody is told to stop while it is.                   *)
LEMMA Handled ==
    ASSUME LinkInv, NEW l \in Letters, hpc[l] # "none"
    PROVE  /\ rig = "fake" /\ l = Txletter /\ ~died /\ dpc = "off"
           /\ Talking /\ Talk /\ backlog = <<>> /\ ~fakeTxStopFlag /\ listening
           /\ \A k \in Letters : k # l => hpc[k] = "none"
<1>1. /\ rig = "fake" /\ l = Txletter /\ ~died /\ dpc = "off"
      /\ \A k \in Letters : k # l => hpc[k] = "none"
  BY DEF LinkInv, RigInv, LinkTypes
<1>2. Talking
  BY <1>1 DEF LinkInv, DialogueInv, Quiet
<1>3. Talk
  BY <1>1, <1>2 DEF LinkInv, DialogueInv
<1>4. backlog = <<>>
  BY <1>1, <1>3 DEF Talk
<1>5. listening /\ ~fakeTxStopFlag
  BY <1>1, <1>2 DEF LinkInv, RigInv, Talking
<1> QED
  BY <1>1, <1>2, <1>3, <1>4, <1>5

(* The letter in hand *)
LEMMA CurrentLetter ==
    ASSUME LinkInv, Talking
    PROVE  Txletter \in Letters
<1>1. Txletter # 0 /\ Txletter \in Nat
  BY DEF LinkInv, LinkTypes, LetterInv, QueueInv, Talking
<1>2. Len(tx_queue) \in Nat /\ Len(tx_queue) = pushed - Txletter /\ pushed \in 0 .. NLetters
  BY LenProperties DEF LinkInv, LinkTypes, LetterInv, QueueInv
<1> QED
  BY <1>1, <1>2, TxAssumption DEF Letters

(* What waits to be accepted is the current letter, unless a daemon died.  *)
LEMMA Waiting ==
    ASSUME LinkInv, ~died, backlog # <<>>
    PROVE  /\ Talking /\ Talk /\ Len(backlog) = 1 /\ Head(backlog) = Txletter
           /\ Tail(backlog) = <<>> /\ Txletter \in Letters
<1>1. Talking
  BY DEF LinkInv, DialogueInv, Quiet
<1>2. Talk
  BY <1>1 DEF LinkInv, DialogueInv
<1>3. Len(backlog) = 1 /\ Head(backlog) = Txletter
  BY <1>2, LetterTail DEF Talk, LinkInv, LinkTypes
<1>4. Tail(backlog) = <<>>
  <2>1. Tail(backlog) \in Seq(Nat) /\ Len(Tail(backlog)) = 0
    BY <1>3, LetterTail DEF LinkInv, LinkTypes
  <2> QED
    BY <2>1, EmptySeq
<1>5. Txletter \in Letters
  BY <1>1, CurrentLetter
<1> QED
  BY <1>1, <1>2, <1>3, <1>4, <1>5

(* The connections are those of letters not yet answered. *)
LEMMA RigStep == LinkInv /\ [Next]_vars => RigInv'
<1> SUFFICES ASSUME LinkInv, [Next]_vars PROVE RigInv'
  OBVIOUS
<1>0. LinkTypes /\ RigInv
  BY DEF LinkInv
<1>1. CASE PopLetter
  <2>1. /\ cpc = "top" /\ UNCHANGED <<rig, listening, hpc, dpc, died, fakeTxStopFlag>>
    BY <1>1 DEF PopLetter, daemon, fake
  <2>2. rig = "fake" => listening /\ \A l \in Letters : hpc[l] = "none"
    BY <1>0, <2>1, Handled DEF RigInv, Talking
  <2> QED
    BY <1>0, <2>1, <2>2 DEF RigInv
<1>2. CASE FakeAccept
  <2>1. /\ listening /\ backlog # <<>> /\ hpc' = [hpc EXCEPT ![Head(backlog)] = "ack"]
        /\ UNCHANGED <<rig, cpc, Txletter, listening, dpc, died, fakeTxStopFlag>>
    BY <1>2 DEF FakeAccept, daemon, client
  <2>2. rig = "fake" /\ ~died
    BY <1>0, <2>1 DEF RigInv, LinkTypes
  <2>3. Head(backlog) = Txletter
    BY <2>1, <2>2, Waiting
  <2>4. \A l \in Letters : hpc'[l] # "none" => l = Txletter
    BY <1>0, <2>1, <2>2, <2>3 DEF RigInv, LinkTypes
  <2> QED
    BY <1>0, <2>1, <2>2, <2>4 DEF RigInv
<1>3. ASSUME NEW l \in Letters, FakeAck(l) \/ FakeOnAir(l) \/ FakeOffAir(l) PROVE RigInv'
  <2>1. /\ hpc[l] # "none" /\ \E w : hpc' = [hpc EXCEPT ![l] = w]
        /\ UNCHANGED <<rig, cpc, Txletter, listening, dpc, died, fakeTxStopFlag>>
    BY <1>3 DEF FakeAck, FakeOnAir, FakeOffAir, client, daemon
  <2>2. rig = "fake" /\ l = Txletter
    BY <2>1, Handled
  <2>3. \A k \in Letters : hpc'[k] # "none" => k = Txletter
    BY <1>0, <2>1, <2>2 DEF RigInv, LinkTypes
  <2> QED
    BY <1>0, <2>1, <2>2, <2>3 DEF RigInv
<1>4. CASE SlotBegins
  <2>1. /\ hpc' = [l \in Letters |-> IF hpc[l] = "wait" THEN "due" ELSE hpc[l]]
        /\ UNCHANGED <<rig, cpc, Txletter, listening, dpc, died, fakeTxStopFlag>>
    BY <1>4 DEF SlotBegins, client, daemon
  <2>2. \A k \in Letters : hpc'[k] # "none" => hpc[k] # "none"
    BY <2>1
  <2> QED
    BY <1>0, <2>1, <2>2 DEF RigInv
<1>5. CASE FakeTxStop
  <2>1. /\ rig = "fake" /\ cpc = "done" /\ listening' = FALSE
        /\ UNCHANGED <<rig, cpc, Txletter, hpc, dpc, died>>
    BY <1>5 DEF FakeTxStop, client, daemon
  <2> QED
    BY <1>0, <2>1 DEF RigInv
<1>6. CASE AcceptFails \/ ParseAborts \/ Crash
  <2>1. /\ rig = "ft8" \/ dpc \in {"select", "parse"}
        /\ died' = TRUE /\ UNCHANGED <<rig, hpc, listening>>
    BY <1>6 DEF AcceptFails, ParseAborts, Crash, GoDown, client, fake
  <2>2. rig = "ft8"
    BY <1>0, <2>1 DEF RigInv, LinkTypes
  <2> QED
    BY <1>0, <2>1, <2>2 DEF RigInv
<1>7. CASE AcceptRequest \/ RefuseLetter \/ ReportFreq \/ GoOnAir \/ GoOffAir \/ Restart
  <2>1. /\ rig = "ft8" \/ dpc # "off"
        /\ dpc' # "off" /\ UNCHANGED <<rig, hpc, listening>>
    BY <1>7 DEF AcceptRequest, RefuseLetter, ReportFreq, Parsed, GoOnAir, GoOffAir, Restart,
         client, fake
  <2>2. rig = "ft8"
    BY <1>0, <2>1 DEF RigInv, LinkTypes
  <2> QED
    BY <1>0, <2>1, <2>2 DEF RigInv
<1>8. CASE FirstRead \/ SecondRead \/ ThirdRead \/ CloseLetter \/ LeaveLoop
  <2>1. /\ cpc # "done" /\ UNCHANGED <<rig, Txletter, listening, hpc, dpc, died, fakeTxStopFlag>>
    BY <1>8 DEF FirstRead, SecondRead, ThirdRead, ReadReply, CloseLetter, LeaveLoop,
         daemon, fake
  <2> QED
    BY <1>0, <2>1 DEF RigInv
<1>9. CASE \/ PushLetter \/ CloseTxThread \/ FirstSecondOver \/ FillBuffer \/ UNCHANGED vars
  <2>1. UNCHANGED <<rig, cpc, Txletter, listening, hpc, dpc, died, fakeTxStopFlag>>
    BY <1>9 DEF PushLetter, CloseTxThread, FirstSecondOver, FillBuffer, vars, client,
         daemon, fake
  <2> QED
    BY <1>0, <2>1 DEF RigInv
<1> QED
  BY <1>1, <1>2, <1>3, <1>4, <1>5, <1>6, <1>7, <1>8, <1>9
     DEF Next, TXHandler, Daemon, FakeHandler, Clock

(* The hand-off is free whenever a letter is due. *)
LEMMA SlotInit == Init => SlotInv
BY DEF Init, SlotInv

(* A deposit is taken in its own slot. *)
LEMMA SlotStep == LinkInv /\ [Next]_vars => SlotInv'
<1> SUFFICES ASSUME LinkInv, [Next]_vars PROVE SlotInv'
  OBVIOUS
<1>0. LinkTypes /\ SlotInv
  BY DEF LinkInv
<1>1. CASE FakeAccept
  <2>1. hpc' = [hpc EXCEPT ![Head(backlog)] = "ack"] /\ UNCHANGED <<phase, fakeOwn>>
    BY <1>1 DEF FakeAccept
  <2> QED
    BY <1>0, <2>1 DEF SlotInv, LinkTypes
<1>2. ASSUME NEW l \in Letters, FakeAck(l) \/ FakeOffAir(l) PROVE SlotInv'
  <2>1. /\ \E w \in {"wait", "none"} : hpc' = [hpc EXCEPT ![l] = w]
        /\ UNCHANGED <<phase, fakeOwn>>
    BY <1>2 DEF FakeAck, FakeOffAir
  <2> QED
    BY <1>0, <2>1 DEF SlotInv, LinkTypes
<1>3. ASSUME NEW l \in Letters, FakeOnAir(l) PROVE SlotInv'
  <2>1. /\ hpc[l] # "none" /\ ((hpc[l] = "due" /\ phase = "start") \/ fakeTxStopFlag)
        /\ hpc' = [hpc EXCEPT ![l] = "air"] /\ UNCHANGED phase
    BY <1>3 DEF FakeOnAir
  <2>2. phase = "start" /\ \A k \in Letters : k # l => hpc[k] = "none"
    BY <2>1, Handled
  <2> QED
    BY <1>0, <2>1, <2>2 DEF SlotInv, LinkTypes
<1>4. CASE SlotBegins
  <2>1. /\ phase = "gap" /\ phase' = "start" /\ UNCHANGED fakeOwn
    BY <1>4 DEF SlotBegins
  <2> QED
    BY <1>0, <2>1 DEF SlotInv
<1>5. CASE FirstSecondOver
  <2>1. /\ phase' = "tx" /\ UNCHANGED <<hpc, fakeOwn>> /\ \A l \in Letters : hpc[l] # "due"
    BY <1>5 DEF FirstSecondOver, fake
  <2> QED
    BY <1>0, <2>1 DEF SlotInv
<1>6. CASE FillBuffer
  <2>1. phase = "tx" /\ phase' = "gap" /\ fakeOwn' = 0 /\ UNCHANGED hpc
    BY <1>6 DEF FillBuffer
  <2> QED
    BY <1>0, <2>1 DEF SlotInv
<1>7. CASE \/ PushLetter \/ TXHandler \/ CloseTxThread \/ Daemon \/ Crash \/ FakeTxStop
           \/ UNCHANGED vars
  <2>1. UNCHANGED <<phase, hpc, fakeOwn>>
    BY <1>7 DEF PushLetter, TXHandler, PopLetter, FirstRead, SecondRead, ThirdRead, ReadReply,
         CloseLetter, LeaveLoop, CloseTxThread, Daemon, AcceptRequest, AcceptFails,
         ParseAborts, RefuseLetter, ReportFreq, GoOnAir, GoOffAir, Restart, Crash,
         FakeTxStop, vars, fake
  <2> QED
    BY <1>0, <2>1 DEF SlotInv
<1> QED
  BY <1>1, <1>2, <1>3, <1>4, <1>5, <1>6, <1>7 DEF Next, FakeHandler, Clock

(* A new letter says nothing about the one in hand, nor the daemon's. *)
LEMMA EarlierLetters ==
    ASSUME LinkInv, PushLetter
    PROVE  /\ Txletter \in unpackable' <=> Txletter \in unpackable
           /\ dpc \in {"wait", "air"} => (dLetter \in unpackable' <=> dLetter \in unpackable)
<1>1. Len(tx_queue) \in Nat /\ Len(tx_queue) = pushed - Txletter
      /\ pushed \in Nat /\ Txletter \in Nat /\ dLetter \in Nat
  BY LenProperties, TxAssumption DEF LinkInv, LinkTypes, LetterInv, QueueInv
<1>2. dpc \in {"wait", "air"} => dLetter <= Txletter
  BY DEF LinkInv, LetterInv, AirInv
<1>3. unpackable' \in {unpackable, unpackable \cup {pushed + 1}}
  BY DEF PushLetter
<1>4. Txletter # pushed + 1 /\ (dpc \in {"wait", "air"} => dLetter # pushed + 1)
  BY <1>1, <1>2
<1> QED
  BY <1>3, <1>4

(* A letter that cannot be packed goes no further than the parsing. *)
LEMMA PackStep == LinkInv /\ [Next]_vars => PackInv'
<1> SUFFICES ASSUME LinkInv, [Next]_vars PROVE PackInv'
  OBVIOUS
<1>0. PackInv
  BY DEF LinkInv
<1>1. CASE PushLetter
  <2>1. UNCHANGED <<dpc, dLetter>>
    BY <1>1 DEF PushLetter, daemon
  <2> QED
    BY <1>0, <1>1, <2>1, EarlierLetters DEF PackInv
<1>2. CASE ReportFreq \/ GoOnAir
  <2>1. /\ UNCHANGED <<dLetter, unpackable>>
        /\ dpc = "wait" \/ dLetter \notin unpackable
    BY <1>2 DEF ReportFreq, GoOnAir, queue
  <2> QED
    BY <1>0, <2>1 DEF PackInv
<1>3. CASE AcceptRequest \/ AcceptFails \/ ParseAborts \/ RefuseLetter \/ GoOffAir \/ Restart
           \/ Crash
  <2>1. dpc' \notin {"wait", "air"}
    BY <1>3 DEF AcceptRequest, AcceptFails, ParseAborts, RefuseLetter, GoOffAir, Restart, Crash,
       GoDown
  <2> QED
    BY <2>1 DEF PackInv
<1>4. CASE TXHandler \/ CloseTxThread \/ FakeAccept \/ FakeHandler \/ FakeTxStop \/ Clock
           \/ UNCHANGED vars
  <2>1. UNCHANGED <<dpc, dLetter, unpackable>>
    BY <1>4 DEF TXHandler, PopLetter, FirstRead, SecondRead, ThirdRead, ReadReply, CloseLetter,
       LeaveLoop, CloseTxThread, FakeAccept, FakeHandler, FakeAck, FakeOnAir, FakeOffAir,
       FakeTxStop, Clock, SlotBegins, FirstSecondOver, FillBuffer, vars, queue, daemon
  <2> QED
    BY <1>0, <2>1 DEF PackInv
<1> QED
  BY <1>1, <1>2, <1>3, <1>4 DEF Next, Daemon

-----------------------------------------------------------------------------
(* The dialogue of the thread and the transmitter *)

(* Nothing was said at the start. *)
LEMMA DialogueInit == Init => DialogueInv
<1> SUFFICES ASSUME Init PROVE DialogueInv
  OBVIOUS
<1>1. /\ cpc = "top" /\ transmitting = FALSE /\ backlog = <<>> /\ linkUp = FALSE
      /\ dpc \notin {"parse", "wait"} /\ \A l \in Letters : hpc[l] = "none"
  BY DEF Init
<1> QED
  BY <1>1 DEF DialogueInv, Talking, Quiet

(* A read takes the next reply: the transmitter has not yet sent all of    *)
(* them, or they are in the inbox.                                         *)
LEMMA ReadTakesWord ==
    ASSUME LinkInv, Talking, ~died, cpc # "sleep", ReadReply
    PROVE  /\ Talk /\ Read \in 0 .. 2 /\ Sent \in 0 .. 4 /\ Read < Sent
           /\ inbox # <<>> /\ inbox' = Tail(inbox)
           /\ qsoFreq' = IF Read = 1 THEN Txletter ELSE qsoFreq
           /\ Len(inbox') = Sent - (Read + 1)
           /\ \A i \in 1 .. Len(inbox') : inbox'[i] = Word(rig, Read + 1 + i)
<1>1. Talk /\ LinkTypes
  BY DEF LinkInv, DialogueInv
<1>2. Read \in 0 .. 2 /\ Sent \in 0 .. 4
  BY DEF Read, Sent, Talking
<1>3. inbox # <<>>
  <2> SUFFICES ASSUME inbox = <<>> PROVE FALSE
    OBVIOUS
  <2>1. ~linkUp
    BY DEF ReadReply
  <2>2. Sent = 3
    BY <1>1, <2>1 DEF Talk
  <2>3. Len(inbox) = 0
    BY NothingYet
  <2> QED
    BY <1>1, <1>2, <2>2, <2>3 DEF Talk
<1>4. /\ inbox' = Tail(inbox)
      /\ qsoFreq' = IF Head(inbox) = "FREQ" THEN Txletter ELSE qsoFreq
  BY <1>3 DEF ReadReply
<1>5. /\ Tail(inbox) \in Seq(Texts) /\ Head(inbox) = inbox[1] /\ Len(inbox) >= 1
      /\ Len(Tail(inbox)) = Len(inbox) - 1
      /\ \A i \in 1 .. Len(Tail(inbox)) : Tail(inbox)[i] = inbox[i + 1] /\ i + 1 \in 1 .. Len(inbox)
  BY <1>1, <1>3, TextTail DEF LinkTypes
<1>6. Len(inbox) = Sent - Read /\ \A i \in 1 .. Len(inbox) : inbox[i] = Word(rig, Read + i)
  BY <1>1 DEF Talk
<1>7. Read < Sent
  BY <1>2, <1>5, <1>6
<1>8. Head(inbox) = Word(rig, Read + 1) /\ (Word(rig, Read + 1) = "FREQ" <=> Read = 1)
  <2>1. Head(inbox) = Word(rig, Read + 1)
    BY <1>2, <1>5, <1>6, <1>7
  <2>2. Word(rig, Read + 1) = "FREQ" <=> Read = 1
    BY <1>2 DEF Word
  <2> QED
    BY <2>1, <2>2
<1>9. \A i \in 1 .. Len(Tail(inbox)) : Tail(inbox)[i] = Word(rig, Read + 1 + i)
  <2> SUFFICES ASSUME NEW i \in 1 .. Len(Tail(inbox)) PROVE Tail(inbox)[i] = Word(rig, Read + 1 + i)
    OBVIOUS
  <2>1. Tail(inbox)[i] = Word(rig, Read + (i + 1))
    BY <1>5, <1>6
  <2>2. Read + (i + 1) = Read + 1 + i
    BY <1>2
  <2> QED
    BY <2>1, <2>2
<1>10. Len(Tail(inbox)) = Sent - (Read + 1)
  BY <1>2, <1>5, <1>6
<1> QED
  BY <1>1, <1>2, <1>3, <1>4, <1>7, <1>8, <1>9, <1>10

(* A reply to the current letter is put behind those not yet read. *)
LEMMA ReplyAddsWord ==
    ASSUME LinkInv, Talk, NEW w \in Texts, w = Word(rig, Sent + 1), Reply(Txletter, w), linkUp
    PROVE  /\ Len(inbox') = Sent + 1 - Read
           /\ \A i \in 1 .. Len(inbox') : inbox'[i] = Word(rig, Read + i)
<1>1. inbox \in Seq(Texts) /\ Read \in 0 .. 3 /\ Sent \in 0 .. 4
  BY DEF LinkInv, LinkTypes, Read, Sent
<1>2. inbox' = Append(inbox, w)
  BY DEF Reply
<1>3. /\ Len(inbox) \in Nat /\ Len(inbox') = Len(inbox) + 1
      /\ \A i \in 1 .. Len(inbox) : inbox'[i] = inbox[i]
      /\ inbox'[Len(inbox) + 1] = w
  BY <1>1, <1>2, TextAppend
<1>4. Len(inbox) = Sent - Read /\ \A i \in 1 .. Len(inbox) : inbox[i] = Word(rig, Read + i)
  BY DEF Talk
<1>5. \A i \in 1 .. Len(inbox') : inbox'[i] = Word(rig, Read + i)
  <2> SUFFICES ASSUME NEW i \in 1 .. Len(inbox') PROVE inbox'[i] = Word(rig, Read + i)
    OBVIOUS
  <2>1. CASE i \in 1 .. Len(inbox)
    BY <1>3, <1>4, <2>1
  <2>2. CASE i = Len(inbox) + 1
    <3>1. Read + i = Sent + 1
      BY <1>1, <1>4, <2>2
    <3> QED
      BY <1>3, <2>2, <3>1
  <2> QED
    BY <1>3, <2>1, <2>2
<1> QED
  BY <1>1, <1>3, <1>4, <1>5

(* Letters that were on the air stay so. *)
LEMMA AiredStays ==
    ASSUME LinkTypes, NEW l \in Nat, NEW x \in Nat,
           aired' = aired \/ aired' = Append(aired, x)
    PROVE  WasAired(l) => \E i \in 1 .. Len(aired') : aired'[i] = l
<1>1. CASE aired' = aired
  BY <1>1 DEF WasAired
<1>2. CASE aired' = Append(aired, x)
  <2>1. /\ Len(aired) \in Nat /\ Len(aired') = Len(aired) + 1
        /\ \A i \in 1 .. Len(aired) : aired'[i] = aired[i]
    BY <1>2, LetterAppend DEF LinkTypes
  <2>2. \A i \in 1 .. Len(aired) : i \in 1 .. Len(aired')
    BY <2>1
  <2> QED
    BY <2>1, <2>2 DEF WasAired
<1> QED
  BY <1>1, <1>2

(* What is on the air last was aired. *)
LEMMA JustAired ==
    ASSUME LinkTypes, NEW x \in Nat, aired' = Append(aired, x)
    PROVE  \E i \in 1 .. Len(aired') : aired'[i] = x
<1>1. Len(aired) \in Nat /\ Len(aired') = Len(aired) + 1 /\ aired'[Len(aired) + 1] = x
  BY LetterAppend DEF LinkTypes
<1> QED
  BY <1>1

(* The thread reads a reply. *)
LEMMA ReadStep ==
    ASSUME LinkInv, FirstRead \/ SecondRead \/ ThirdRead
    PROVE  DialogueInv'
<1> DEFINE k == Read
<1>1. /\ ReadReply /\ cpc \in {"read1", "read2", "read3"}
      /\ cpc' = (IF cpc = "read1" THEN "read2" ELSE IF cpc = "read2" THEN "read3" ELSE "sleep")
      /\ transmitting' = (IF cpc = "read1" THEN transmitting ELSE cpc = "read2")
  BY DEF FirstRead, SecondRead, ThirdRead
<1>2. UNCHANGED <<rig, Txletter, linkUp, backlog, dpc, dLetter, hpc, listening, died, aired,
                  unpackable>>
  BY <1>1 DEF ReadReply, daemon, fake, queue
<1>3. transmitting' <=> cpc' = "read3"
  BY <1>1 DEF LinkInv, LinkTypes, DialogueInv
<1>4. Talking /\ Talking' /\ cpc # "sleep" /\ Read' = Read + 1
  BY <1>1 DEF Talking, Read
<1>5. Sent' = Sent /\ OnAirAt' = OnAirAt
  BY <1>2 DEF Sent, OnAirAt
<1>6. ASSUME ~died PROVE Talk'
  <2>1. /\ Talk /\ Read \in 0 .. 2 /\ Sent \in 0 .. 4 /\ Read < Sent
        /\ qsoFreq' = IF Read = 1 THEN Txletter ELSE qsoFreq
        /\ Len(inbox') = Sent - (Read + 1)
        /\ \A i \in 1 .. Len(inbox') : inbox'[i] = Word(rig, Read + 1 + i)
    BY <1>1, <1>4, <1>6, ReadTakesWord
  <2>2. \A i \in 1 .. Len(inbox') : inbox'[i] = Word(rig', Read' + i)
    BY <1>2, <1>4, <2>1
  <2>3. Read' <= Sent' /\ Len(inbox') = Sent' - Read'
    BY <1>4, <1>5, <2>1
  <2>4. Read' >= 2 => qsoFreq' = Txletter'
    BY <1>2, <1>4, <2>1 DEF Talk
  <2>5. Sent' >= OnAirAt' => WasAired(Txletter)'
    BY <1>2, <1>5, <2>1 DEF Talk, WasAired
  <2>6. linkUp' <=> (rig' = "ft8" \/ Sent' # 3)
    BY <1>2, <1>5, <2>1 DEF Talk
  <2>7. /\ backlog' # <<>> => Len(backlog') = 1 /\ backlog'[1] = Txletter'
        /\ backlog' = <<>> /\ dpc' \in {"parse", "wait", "air"} => dLetter' = Txletter'
        /\ backlog' # <<>> =>
              /\ dpc' \notin {"parse", "wait"}
              /\ rig' = "fake" => listening' /\ hpc'[Txletter'] = "none"
    BY <1>2, <2>1 DEF Talk
  <2> QED
    BY <2>2, <2>3, <2>4, <2>5, <2>6, <2>7 DEF Talk
<1> QED
  BY <1>2, <1>3, <1>4, <1>6 DEF DialogueInv

(* The thread takes the next letter. *)
LEMMA PopStep ==
    ASSUME LinkInv, PopLetter
    PROVE  DialogueInv'
<1> DEFINE x == Txletter + 1
<1>1. /\ cpc = "top" /\ cpc' = "read1" /\ Txletter' = x /\ inbox' = <<>>
      /\ tx_queue # <<>> /\ linkUp' = Serving
      /\ backlog' = (IF Serving THEN Append(backlog, x) ELSE backlog)
      /\ UNCHANGED <<rig, transmitting, dpc, dLetter, hpc, listening, died, aired, qsoFreq>>
  BY NextLetter DEF LinkInv, LetterInv, PopLetter, daemon, fake
<1>2. transmitting' <=> cpc' = "read3"
  BY <1>1 DEF LinkInv, LinkTypes, DialogueInv
<1>3. ASSUME ~died PROVE Talk'
  <2>1. Quiet
    BY <1>1, <1>3 DEF LinkInv, DialogueInv, Talking
  <2>2. Serving
    BY <1>1, <1>3 DEF LinkInv, LinkTypes, RigInv, Serving
  <2>3. x \in Nat /\ x \in Letters
    <3>1. Txletter < pushed /\ pushed \in 0 .. NLetters /\ Txletter \in Nat
      BY <1>1, NextLetter DEF LinkInv, LetterInv, LinkTypes
    <3> QED
      BY <3>1, TxAssumption DEF Letters
  <2>4. backlog' # <<>> /\ Len(backlog') = 1 /\ backlog'[1] = Txletter'
    <3> HIDE DEF x
    <3>1. Append(<<>>, x) \in Seq(Nat) /\ Len(Append(<<>>, x)) = 1 /\ Append(<<>>, x)[1] = x
      BY <2>3, NothingYet, LetterAppend
    <3>2. backlog' = Append(<<>>, x)
      BY <1>1, <2>1, <2>2 DEF Quiet
    <3>3. Append(<<>>, x) # <<>>
      BY <3>1, NothingYet
    <3>4. Txletter' = x
      BY <1>1
    <3> QED
      BY <3>1, <3>2, <3>3, <3>4
  <2>5. Sent' = 0 /\ Read' = 0 /\ OnAirAt' \in {2, 3}
    BY <1>1, <2>4 DEF Sent, Read, OnAirAt
  <2>6. linkUp'
    BY <1>1, <2>2
  <2>7. Len(inbox') = 0 /\ 1 .. Len(inbox') = {}
    BY <1>1, EmptyKeeps, NothingYet
  <2>8. /\ dpc' \notin {"parse", "wait"}
        /\ rig' = "fake" => listening' /\ hpc'[Txletter'] = "none"
    BY <1>1, <2>1, <2>2, <2>3 DEF Quiet, Serving
  <2>9. linkUp' <=> (rig' = "ft8" \/ Sent' # 3)
    BY <2>5, <2>6
  <2> QED
    BY <2>4, <2>5, <2>7, <2>8, <2>9 DEF Talk
<1> QED
  BY <1>1, <1>2, <1>3 DEF DialogueInv, Talking

(* The thread closes a connection. *)
LEMMA CloseStep ==
    ASSUME LinkInv, CloseLetter
    PROVE  DialogueInv'
<1>1. /\ cpc = "sleep" /\ cpc' = "top" /\ linkUp' = FALSE
      /\ UNCHANGED <<rig, Txletter, backlog, transmitting, dpc, hpc, died>>
  BY DEF CloseLetter, daemon, fake
<1>2. transmitting' <=> cpc' = "read3"
  BY <1>1 DEF LinkInv, LinkTypes, DialogueInv
<1>3. ASSUME ~died PROVE Quiet'
  <2>1. Talk /\ Read = 3 /\ Sent \in 0 .. 4
    BY <1>1, <1>3 DEF LinkInv, DialogueInv, Talking, Read, Sent
  <2>2. Sent >= 3
    BY <2>1 DEF Talk
  <2>3. /\ backlog = <<>> /\ (rig = "ft8" => dpc \notin {"parse", "wait"})
        /\ (rig = "fake" => hpc[Txletter] \notin Busy)
    BY <2>2 DEF Sent, Busy, LinkInv, LinkTypes
  <2>4. dpc \notin {"parse", "wait"} /\ (rig = "fake" => \A l \in Letters : hpc[l] = "none")
    BY <2>3 DEF LinkInv, LinkTypes, RigInv, Busy
  <2> QED
    BY <1>1, <2>3, <2>4 DEF Quiet
<1> QED
  BY <1>1, <1>2, <1>3 DEF DialogueInv, Talking

(* The thread is not moving: it is enough that the dialogue goes on. *)
LEMMA Elsewhere ==
    ASSUME LinkInv, UNCHANGED <<cpc, transmitting>>, died => died',
           ~died' /\ Talking => Talk', ~died' /\ ~Talking => Quiet'
    PROVE  DialogueInv'
BY DEF LinkInv, LinkTypes, DialogueInv, Talking

(* The daemon has answered the current letter once more. *)
LEMMA DaemonAnswers ==
    ASSUME LinkInv, rig = "ft8", Talk, backlog' = <<>>,
           NEW w \in Texts, w = Word(rig, Sent + 1), Reply(Txletter, w),
           UNCHANGED <<rig, cpc, Txletter, linkUp, qsoFreq>>,
           Sent' = Sent + 1, dpc' \in {"parse", "wait", "air"} => dLetter' = Txletter',
           Sent + 1 >= 3 => \E i \in 1 .. Len(aired') : aired'[i] = Txletter
    PROVE  Talk'
<1>1. Read' = Read /\ Read \in 0 .. 3 /\ Sent \in 0 .. 4 /\ OnAirAt' = 3
  BY DEF Read, Sent, OnAirAt
<1>2. linkUp
  BY DEF Talk
<1>3. Len(inbox') = Sent' - Read' /\ \A i \in 1 .. Len(inbox') : inbox'[i] = Word(rig', Read' + i)
  BY <1>1, <1>2, ReplyAddsWord
<1>4. Read' <= Sent'
  BY <1>1 DEF Talk
<1>5. Sent' >= OnAirAt' => WasAired(Txletter)'
  BY <1>1 DEF WasAired
<1>6. (Read' >= 2 => qsoFreq' = Txletter') /\ (linkUp' <=> rig' = "ft8" \/ Sent' # 3)
  BY <1>1, <1>2 DEF Talk
<1> QED
  BY <1>3, <1>4, <1>5, <1>6 DEF Talk

(* The daemon answers, transmits, fails or starts again. *)
LEMMA DaemonStep ==
    ASSUME LinkInv, Daemon \/ Crash
    PROVE  DialogueInv'
<1>0. UNCHANGED <<cpc, transmitting, rig, Txletter, qsoFreq>> /\ (died => died')
  BY DEF Daemon, AcceptRequest, AcceptFails, ParseAborts, RefuseLetter, ReportFreq, GoOnAir,
     GoOffAir, Restart, Crash, GoDown, client, daemon
<1>1. CASE AcceptFails \/ ParseAborts \/ Crash
  BY <1>0, <1>1, Elsewhere DEF AcceptFails, ParseAborts, Crash, GoDown
<1>2. CASE Restart
  <2>1. died'
    BY <1>2 DEF Restart, LinkInv, LinkTypes, RigInv
  <2> QED
    BY <1>0, <2>1, Elsewhere
<1>3. CASE AcceptRequest
  <2>1. /\ dpc = "select" /\ backlog # <<>> /\ dLetter' = Head(backlog)
        /\ backlog' = Tail(backlog) /\ Reply(dLetter', "ACK") /\ dpc' = "parse"
        /\ UNCHANGED <<died, linkUp, aired>>
    BY <1>3 DEF AcceptRequest
  <2>2. rig = "ft8"
    BY <2>1 DEF LinkInv, LinkTypes, RigInv
  <2>3. ASSUME ~died PROVE Talking /\ Talk'
    <3>1. Talking /\ Talk /\ dLetter' = Txletter /\ backlog' = <<>>
      BY <2>1, <2>3, Waiting
    <3>2. Sent = 0 /\ Sent' = 1 /\ "ACK" = Word(rig, Sent + 1)
      BY <1>0, <2>1, <2>2, <3>1 DEF Sent, Word
    <3>3. Reply(Txletter, "ACK")
      BY <2>1, <3>1 DEF Reply
    <3> QED
      BY <1>0, <2>1, <2>2, <3>1, <3>2, <3>3, KnownTexts, DaemonAnswers
  <2> QED
    BY <1>0, <2>1, <2>3, Elsewhere
<1>4. CASE ReportFreq \/ GoOnAir
  <2>1. /\ dpc \in {"parse", "wait"} /\ dpc' = (IF dpc = "parse" THEN "wait" ELSE "air")
        /\ Reply(dLetter, IF dpc = "parse" THEN "FREQ" ELSE "ON")
        /\ dpc = "wait" => aired' = Append(aired, dLetter)
        /\ UNCHANGED <<died, linkUp, backlog, dLetter>>
    BY <1>4 DEF ReportFreq, Parsed, GoOnAir
  <2>2. rig = "ft8"
    BY <2>1 DEF LinkInv, LinkTypes, RigInv
  <2>3. ASSUME ~died PROVE Talking /\ Talk'
    <3>1. Talking
      BY <2>1, <2>3 DEF LinkInv, DialogueInv, Quiet
    <3>2. Talk
      BY <2>3, <3>1 DEF LinkInv, DialogueInv
    <3>3. backlog = <<>> /\ dLetter = Txletter
      BY <2>1, <3>2 DEF Talk
    <3> DEFINE w == IF dpc = "parse" THEN "FREQ" ELSE "ON"
    <3>4. /\ Sent' = Sent + 1 /\ w = Word(rig, Sent + 1) /\ w \in Texts
          /\ Sent = (IF dpc = "parse" THEN 1 ELSE 2)
      BY <1>0, <2>1, <2>2, <3>3, KnownTexts DEF Sent, Word
    <3>5. Sent + 1 >= 3 => \E i \in 1 .. Len(aired') : aired'[i] = Txletter
      BY <2>1, <3>3, <3>4, JustAired DEF LinkInv, LinkTypes
    <3>6. Reply(Txletter, w)
      BY <2>1, <3>3
    <3> HIDE DEF w
    <3> QED
      BY <1>0, <2>1, <2>2, <3>1, <3>2, <3>3, <3>4, <3>5, <3>6, DaemonAnswers
  <2> QED
    BY <1>0, <2>1, <2>3, Elsewhere
<1>5. CASE GoOffAir
  <2>1. /\ dpc = "air" /\ dpc' = "select" /\ Reply(dLetter, "END")
        /\ UNCHANGED <<died, linkUp, backlog, aired, hpc, listening, unpackable>>
        /\ dLetter \notin unpackable
    BY <1>5 DEF GoOffAir, fake, queue, LinkInv, PackInv
  <2>2. rig = "ft8"
    BY <2>1 DEF LinkInv, LinkTypes, RigInv
  <2>3. ASSUME ~died, ~Talking PROVE Quiet'
    BY <1>0, <2>1, <2>2, <2>3 DEF LinkInv, DialogueInv, Quiet
  <2>4. ASSUME ~died, Talking PROVE Talk'
    <3>1. Talk
      BY <2>4 DEF LinkInv, DialogueInv
    <3>2. CASE backlog = <<>>
      <4>1. dLetter = Txletter /\ Sent = 3 /\ Sent' = Sent + 1 /\ "END" = Word(rig, Sent + 1)
        BY <1>0, <2>1, <2>2, <3>1, <3>2 DEF Talk, Sent, Word
      <4>2. \E i \in 1 .. Len(aired') : aired'[i] = Txletter
        BY <2>1, <2>2, <3>1, <4>1 DEF Talk, WasAired, OnAirAt
      <4>3. Reply(Txletter, "END")
        BY <2>1, <4>1
      <4> QED
        BY <1>0, <2>1, <2>2, <3>1, <3>2, <4>1, <4>2, <4>3, KnownTexts, DaemonAnswers
    <3>3. CASE backlog # <<>>
      <4>1. dLetter < backlog[1] /\ backlog[1] = Txletter /\ dLetter \in Nat
        BY <2>1, <3>1, <3>3 DEF Talk, LinkInv, LinkTypes, LetterInv, AirInv
      <4>2. UNCHANGED inbox
        BY <2>1, <4>1 DEF Reply
      <4>3. Sent' = Sent /\ Read' = Read /\ OnAirAt' = OnAirAt /\ (WasAired(Txletter)' <=> WasAired(Txletter))
        BY <1>0, <2>1, <3>3 DEF Sent, Read, OnAirAt, WasAired
      <4> QED
        BY <1>0, <2>1, <2>2, <3>1, <3>3, <4>2, <4>3 DEF Talk
    <3> QED
      BY <3>2, <3>3
  <2> QED
    BY <1>0, <2>1, <2>3, <2>4, Elsewhere
<1>6. CASE RefuseLetter
  <2>1. /\ dpc = "parse" /\ dpc' = "select" /\ dLetter \in unpackable
        /\ UNCHANGED <<died, linkUp, backlog, aired, inbox, hpc, listening, unpackable>>
    BY <1>6 DEF RefuseLetter, Parsed, fake, queue
  <2>2. rig = "ft8"
    BY <2>1 DEF LinkInv, LinkTypes, RigInv
  <2>3. ASSUME ~died PROVE Talking /\ Talk'
    <3>1. Talking
      BY <2>1, <2>3 DEF LinkInv, DialogueInv, Quiet
    <3>2. Talk
      BY <2>3, <3>1 DEF LinkInv, DialogueInv
    <3>3. backlog = <<>> /\ dLetter = Txletter
      BY <2>1, <3>2 DEF Talk
    <3>4. Sent' = Sent /\ Read' = Read /\ OnAirAt' = OnAirAt
      BY <1>0, <2>1, <2>2, <3>3 DEF Sent, Read, OnAirAt
    <3>5. WasAired(Txletter)' <=> WasAired(Txletter)
      BY <1>0, <2>1 DEF WasAired
    <3> QED
      BY <1>0, <2>1, <2>2, <3>1, <3>2, <3>3, <3>4, <3>5 DEF Talk
  <2> QED
    BY <1>0, <2>1, <2>3, Elsewhere
<1> QED
  BY <1>1, <1>2, <1>3, <1>4, <1>5, <1>6 DEF Daemon

(* The stand-in's handler has answered the current letter once more. *)
LEMMA HandlerAnswers ==
    ASSUME LinkInv, rig = "fake", dpc = "off", Talk, backlog = <<>>, Sent < 3,
           NEW w \in Texts, w = Word(rig, Sent + 1), Reply(Txletter, w),
           UNCHANGED <<rig, cpc, dpc, Txletter, qsoFreq, backlog>>,
           Sent' = Sent + 1, linkUp' <=> Sent + 1 # 3,
           Sent + 1 >= 2 => \E i \in 1 .. Len(aired') : aired'[i] = Txletter
    PROVE  Talk'
<1>1. Read' = Read /\ Read \in 0 .. 3 /\ Sent \in 0 .. 4 /\ OnAirAt' = 2
  BY DEF Read, Sent, OnAirAt
<1>2. linkUp
  BY DEF Talk
<1>3. Len(inbox') = Sent' - Read' /\ \A i \in 1 .. Len(inbox') : inbox'[i] = Word(rig', Read' + i)
  BY <1>1, <1>2, ReplyAddsWord
<1>4. Read' <= Sent'
  BY <1>1 DEF Talk
<1>5. Sent' >= OnAirAt' => WasAired(Txletter)'
  BY <1>1 DEF WasAired
<1>6. (Read' >= 2 => qsoFreq' = Txletter') /\ (linkUp' <=> rig' = "ft8" \/ Sent' # 3)
  BY <1>1, <1>2 DEF Talk
<1> QED
  BY <1>3, <1>4, <1>5, <1>6 DEF Talk

(* A handler thread of the stand-in answers. *)
LEMMA StandInStep ==
    ASSUME LinkInv, FakeAccept \/ FakeHandler
    PROVE  DialogueInv'
<1>0. UNCHANGED <<cpc, transmitting, rig, Txletter, qsoFreq, died, dpc, listening>>
  BY DEF FakeAccept, FakeHandler, FakeAck, FakeOnAir, FakeOffAir, client, daemon
<1>1. CASE FakeAccept
  <2>1. /\ listening /\ backlog # <<>> /\ hpc' = [hpc EXCEPT ![Head(backlog)] = "ack"]
        /\ backlog' = Tail(backlog) /\ UNCHANGED <<inbox, linkUp, aired>>
    BY <1>1 DEF FakeAccept
  <2>2. rig = "fake" /\ ~died /\ dpc = "off"
    BY <2>1 DEF LinkInv, LinkTypes, RigInv
  <2>3. Talking /\ Talk /\ Head(backlog) = Txletter /\ backlog' = <<>> /\ Txletter \in Letters
    BY <2>1, <2>2, Waiting
  <2>4. hpc'[Txletter] = "ack"
    BY <2>1, <2>3 DEF LinkInv, LinkTypes
  <2>5. Sent = 0 /\ Sent' = 0 /\ Read' = Read /\ OnAirAt' = 2
    BY <1>0, <2>1, <2>2, <2>3, <2>4 DEF Sent, Read, OnAirAt
  <2>6. Talk'
    BY <1>0, <2>1, <2>2, <2>3, <2>5 DEF Talk
  <2> QED
    BY <1>0, <2>3, <2>6, Elsewhere
<1>2. ASSUME NEW l \in Letters, FakeAck(l) PROVE DialogueInv'
  <2>1. /\ hpc[l] = "ack" /\ hpc' = [hpc EXCEPT ![l] = "wait"] /\ Reply(l, "ACK")
        /\ UNCHANGED <<linkUp, backlog, aired>>
    BY <1>2 DEF FakeAck
  <2>2. rig = "fake" /\ l = Txletter /\ Talking /\ Talk /\ backlog = <<>> /\ dpc = "off"
    BY <2>1, Handled
  <2>3. Sent = 0 /\ Sent' = Sent + 1 /\ "ACK" = Word(rig, Sent + 1)
    BY <1>0, <2>1, <2>2 DEF Sent, Word, LinkInv, LinkTypes
  <2>4. linkUp
    BY <2>2, <2>3 DEF Talk
  <2>5. Talk'
    BY <1>0, <2>1, <2>2, <2>3, <2>4, KnownTexts, HandlerAnswers
  <2> QED
    BY <1>0, <2>2, <2>5, Elsewhere
<1>3. ASSUME NEW l \in Letters, FakeOnAir(l) PROVE DialogueInv'
  <2>1. /\ hpc[l] \in {"wait", "due"} /\ hpc' = [hpc EXCEPT ![l] = "air"] /\ Reply(l, "FREQ")
        /\ aired' = Append(aired, l) /\ UNCHANGED <<linkUp, backlog>>
    BY <1>3 DEF FakeOnAir
  <2>2. rig = "fake" /\ l = Txletter /\ Talking /\ Talk /\ backlog = <<>> /\ dpc = "off"
    BY <2>1, Handled
  <2>3. Sent = 1 /\ Sent' = Sent + 1 /\ "FREQ" = Word(rig, Sent + 1)
    BY <1>0, <2>1, <2>2 DEF Sent, Word, LinkInv, LinkTypes
  <2>4. linkUp /\ \E i \in 1 .. Len(aired') : aired'[i] = Txletter
    BY <2>1, <2>2, <2>3, JustAired DEF Talk, LinkInv, LinkTypes
  <2>5. Talk'
    BY <1>0, <2>1, <2>2, <2>3, <2>4, KnownTexts, HandlerAnswers
  <2> QED
    BY <1>0, <2>2, <2>5, Elsewhere
<1>4. ASSUME NEW l \in Letters, FakeOffAir(l) PROVE DialogueInv'
  <2>1. /\ hpc[l] = "air" /\ hpc' = [hpc EXCEPT ![l] = "none"] /\ Reply(l, "END")
        /\ linkUp' = (linkUp /\ l # Txletter) /\ UNCHANGED <<aired, backlog>>
    BY <1>4 DEF FakeOffAir
  <2>2. rig = "fake" /\ l = Txletter /\ Talking /\ Talk /\ backlog = <<>> /\ dpc = "off"
    BY <2>1, Handled
  <2>3. Sent = 2 /\ Sent' = Sent + 1 /\ "END" = Word(rig, Sent + 1)
    BY <1>0, <2>1, <2>2 DEF Sent, Word, LinkInv, LinkTypes
  <2>4. ~linkUp' /\ \E i \in 1 .. Len(aired') : aired'[i] = Txletter
    <3>1. ~linkUp'
      BY <2>1, <2>2
    <3>2. \E i \in 1 .. Len(aired) : aired[i] = Txletter
      BY <2>2, <2>3 DEF Talk, OnAirAt, WasAired
    <3> QED
      BY <2>1, <3>1, <3>2
  <2>5. Talk'
    BY <1>0, <2>1, <2>2, <2>3, <2>4, KnownTexts, HandlerAnswers
  <2> QED
    BY <1>0, <2>2, <2>5, Elsewhere
<1> QED
  BY <1>1, <1>2, <1>3, <1>4 DEF FakeHandler

(* Nothing the dialogue depends on has changed. *)
LEMMA Steady ==
    ASSUME LinkInv, UNCHANGED <<cpc, transmitting, rig, Txletter, qsoFreq, died, dpc, dLetter,
                                listening, backlog, linkUp, inbox, aired>>,
           Txletter \in unpackable' <=> Txletter \in unpackable,
           \A l \in Letters : hpc'[l] = hpc[l] \/ (hpc[l] = "wait" /\ hpc'[l] = "due")
    PROVE  DialogueInv'
<1>1. ASSUME ~died, Talking PROVE Talk'
  <2>1. Talk /\ Txletter \in Letters
    BY <1>1, CurrentLetter DEF LinkInv, DialogueInv
  <2>2. \/ hpc'[Txletter] = hpc[Txletter]
        \/ hpc[Txletter] = "wait" /\ hpc'[Txletter] = "due"
    BY <2>1
  <2>3. Read' = Read /\ OnAirAt' = OnAirAt /\ (WasAired(Txletter)' <=> WasAired(Txletter))
    BY DEF Read, OnAirAt, WasAired
  <2>4. Sent' = Sent
    BY <2>2 DEF Sent
  <2> QED
    BY <2>1, <2>2, <2>3, <2>4 DEF Talk
<1>2. ASSUME ~died, ~Talking PROVE Quiet'
  BY <1>2 DEF LinkInv, DialogueInv, Quiet
<1> QED
  BY <1>1, <1>2, Elsewhere

(* The two sides agree after every step. *)
LEMMA DialogueStep == LinkInv /\ [Next]_vars => DialogueInv'
<1> SUFFICES ASSUME LinkInv, [Next]_vars PROVE DialogueInv'
  OBVIOUS
<1>1. CASE LeaveLoop
  <2>1. cpc = "top" /\ cpc' = "done"
        /\ UNCHANGED <<transmitting, rig, died, dpc, backlog, linkUp, hpc>>
    BY <1>1 DEF LeaveLoop, daemon, fake, link
  <2> QED
    BY <2>1 DEF LinkInv, LinkTypes, DialogueInv, Talking, Quiet
<1>2. CASE FakeTxStop
  <2>1. cpc = "done" /\ backlog' = <<>>
        /\ UNCHANGED <<cpc, transmitting, rig, died, dpc, linkUp, hpc>>
    BY <1>2 DEF FakeTxStop, client, daemon
  <2> QED
    BY <2>1 DEF LinkInv, LinkTypes, DialogueInv, Talking, Quiet
<1>3. CASE SlotBegins
  <2>1. /\ hpc' = [l \in Letters |-> IF hpc[l] = "wait" THEN "due" ELSE hpc[l]]
        /\ UNCHANGED <<cpc, transmitting, rig, Txletter, qsoFreq, died, dpc, dLetter,
                        listening, backlog, linkUp, inbox, aired, unpackable>>
    BY <1>3 DEF SlotBegins, client, daemon, link, queue
  <2>2. \A l \in Letters : hpc'[l] = hpc[l] \/ (hpc[l] = "wait" /\ hpc'[l] = "due")
    BY <2>1
  <2> QED
    BY <2>1, <2>2, Steady
<1>4. CASE PushLetter \/ CloseTxThread \/ FirstSecondOver \/ FillBuffer \/ UNCHANGED vars
  <2>1. UNCHANGED <<cpc, transmitting, rig, Txletter, qsoFreq, died, dpc, dLetter,
                    listening, backlog, linkUp, inbox, aired, hpc>>
    BY <1>4 DEF PushLetter, CloseTxThread, FirstSecondOver, FillBuffer, vars, client,
         daemon, fake, link
  <2>2. \A l \in Letters : hpc'[l] = hpc[l] \/ (hpc[l] = "wait" /\ hpc'[l] = "due")
    BY <2>1
  <2>3. Txletter \in unpackable' <=> Txletter \in unpackable
    <3>1. CASE PushLetter
      BY <3>1, EarlierLetters
    <3>2. CASE CloseTxThread \/ FirstSecondOver \/ FillBuffer \/ UNCHANGED vars
      BY <3>2 DEF CloseTxThread, FirstSecondOver, FillBuffer, vars, queue
    <3> QED
      BY <1>4, <3>1, <3>2
  <2> QED
    BY <2>1, <2>2, <2>3, Steady
<1> QED
  BY <1>1, <1>2, <1>3, <1>4, PopStep, ReadStep, CloseStep, DaemonStep, StandInStep
     DEF Next, TXHandler, Clock

-----------------------------------------------------------------------------
(* The inductive invariant holds throughout. *)
LEMMA LinkInvariant == Spec => []LinkInv
<1>1. Init => LinkInv
  <2>1. Init => PackInv
    BY DEF Init, PackInv
  <2> QED
    BY <2>1, TypesInit, LetterInit, RigInit, DialogueInit, SlotInit DEF LinkInv
<1>2. LinkInv /\ [Next]_vars => LinkInv'
  BY TypesStep, QueueStep, AirStep, RigStep, DialogueStep, SlotStep, PackStep
     DEF LinkInv, LetterInv
<1> QED
  BY <1>1, <1>2, PTL DEF Spec

(* Letters go on the air in the order in which queueTx() put them, each at *)
(* most once, for any number of crashes and restarts of the daemon, and    *)
(* with either transmitter.                                                *)
THEOREM LettersKeepOrder == Spec => []LettersInOrder
<1>1. LinkInv => LettersInOrder
  BY DEF LinkInv, LetterInv, AirInv, Climbs, LettersInOrder
<1> QED
  BY <1>1, LinkInvariant, PTL

(* Until the daemon has gone down once, TXHandler() leaves a letter only   *)
(* after it went on the air, and shows the frequency chosen for it: the    *)
(* third of the daemon's four replies is the one that says so.             *)
THEOREM ThreeReadsAreEnough == Spec => []AiredWhenDone
<1>1. LinkInv => AiredWhenDone
  <2> SUFFICES ASSUME LinkInv, ~died, cpc = "sleep"
               PROVE  WasAired(Txletter) /\ qsoFreq = Txletter
    BY DEF AiredWhenDone
  <2>1. Talk /\ Read = 3 /\ Sent \in 0 .. 4
    BY DEF LinkInv, DialogueInv, Talking, Read, Sent
  <2>2. Sent >= OnAirAt
    BY <2>1 DEF Talk, OnAirAt
  <2> QED
    BY <2>1, <2>2 DEF Talk
<1> QED
  BY <1>1, LinkInvariant, PTL

(* With the stand-in the receiver shows "Tx" only while the letter is on   *)
(* the air or the END reply waits to be read.                              *)
THEOREM IndicatorIsHonest == Spec => []IndicatorFollowsAir
<1>1. LinkInv => IndicatorFollowsAir
  <2> SUFFICES ASSUME LinkInv, rig = "fake", transmitting, hpc[Txletter] # "air"
               PROVE  inbox = <<"END">>
    BY DEF IndicatorFollowsAir
  <2>1. cpc = "read3" /\ ~died
    BY DEF LinkInv, DialogueInv, RigInv
  <2>2. Talk /\ Read = 2
    BY <2>1 DEF LinkInv, DialogueInv, Talking, Read
  <2>3. Sent \in 0 .. 4 /\ Sent >= 2 /\ Sent # 2 /\ Sent # 4
    BY <2>2 DEF Talk, Sent
  <2>4. Len(inbox) = 1 /\ inbox[1] = "END"
    <3>1. Len(inbox) = 1
      BY <2>2, <2>3 DEF Talk
    <3>2. inbox[1] = Word(rig, 3)
      <4>1. \A i \in 1 .. 1 : inbox[i] = Word(rig, 2 + i)
        BY <2>2, <3>1 DEF Talk
      <4>2. 1 \in 1 .. 1 /\ 2 + 1 = 3
        OBVIOUS
      <4> QED
        BY <4>1, <4>2
    <3> QED
      BY <3>1, <3>2 DEF Word
  <2>5. inbox \in Seq(Texts)
    BY DEF LinkInv, LinkTypes
  <2> QED
    BY <2>4, <2>5
<1> QED
  BY <1>1, LinkInvariant, PTL

(* No transmission of the stand-in replaces one that the receiver's buffer *)
(* has not taken yet.                                                      *)
THEOREM HandOffIsKept == Spec => DepositsAreKept
<1>1. LinkInv /\ [Next]_vars => [fakeOwn # 0 /\ fakeOwn' # fakeOwn => fakeOwn' = 0]_vars
  <2> SUFFICES ASSUME LinkInv, Next, fakeOwn # 0, fakeOwn' # fakeOwn PROVE fakeOwn' = 0
    BY DEF vars, fake
  <2>1. CASE FillBuffer
    BY <2>1 DEF FillBuffer
  <2>2. ASSUME NEW l \in Letters, FakeOnAir(l) PROVE FALSE
    <3>1. hpc[l] # "none" /\ (hpc[l] = "due" \/ fakeTxStopFlag)
      BY <2>2 DEF FakeOnAir
    <3>2. hpc[l] = "due"
      BY <3>1, Handled
    <3> QED
      BY <3>2 DEF LinkInv, SlotInv
  <2> QED
    BY <2>1, <2>2 DEF Next, PushLetter, TXHandler, PopLetter, FirstRead, SecondRead, ThirdRead,
       ReadReply, CloseLetter, LeaveLoop, CloseTxThread, Daemon, AcceptRequest, AcceptFails,
       ParseAborts, RefuseLetter, ReportFreq, GoOnAir, GoOffAir, Restart, Crash, FakeTxStop,
       FakeAccept, FakeHandler, FakeAck, FakeOffAir, Clock, SlotBegins, FirstSecondOver, fake
<1> QED
  BY <1>1, LinkInvariant, PTL DEF Spec, DepositsAreKept
=============================================================================
