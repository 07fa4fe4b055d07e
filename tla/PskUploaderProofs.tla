-------------------------- MODULE PskUploaderProofs --------------------------
(* Proofs about PskUploader, for packets of any size. *)
EXTENDS PskUploader, SequenceTheorems, TLAPS

(* What keeps synthetic spots at home is that there is no reporter, not    *)
(* the switch: the thread then never leaves for the draining states.       *)
HomeInv ==
    /\ synthetic \in BOOLEAN
    /\ reporter = ~synthetic
    /\ synthetic => /\ upc \in {"sleep", "discard", "end"}
                    /\ sent = << >> /\ recordList = << >>

(* HomeInv holds when main() has read the options. *)
LEMMA HomeInit == Init => HomeInv
BY DEF Init, HomeInv

(* Every step of the uploader, of the decoder and of the operator keeps    *)
(* HomeInv.                                                                *)
LEMMA HomeStep == HomeInv /\ [Next]_vars => HomeInv'
<1> SUFFICES ASSUME HomeInv, [Next]_vars PROVE HomeInv'
  OBVIOUS
<1> USE DEF HomeInv, settings, postVars, upVars
<1>1. CASE PostSpots
  BY <1>1 DEF PostSpots
<1>2. CASE PushSpot
  BY <1>2 DEF PushSpot
<1>3. CASE UploaderWakes
  BY <1>3 DEF UploaderWakes
<1>4. CASE Discard
  BY <1>4 DEF Discard
<1>5. CASE AddRecord
  BY <1>5 DEF AddRecord
<1>6. CASE QueueEmpty
  BY <1>6 DEF QueueEmpty
<1>7. CASE \E ok \in BOOLEAN : Send(ok)
  BY <1>7 DEF Send
<1>8. CASE SetReporting
  BY <1>8 DEF SetReporting
<1>9. CASE Quit
  BY <1>9 DEF Quit
<1>10. CASE UNCHANGED vars
  BY <1>10 DEF vars
<1> QED
  BY <1>1, <1>2, <1>3, <1>4, <1>5, <1>6, <1>7, <1>8, <1>9, <1>10
     DEF Next, PskUploaderThread

(* With --rx-test or --fake-tx no spot is ever reported, whatever the      *)
(* operator does with PSK ON.                                              *)
THEOREM NoTestSpotReported == Spec => []TestSpotsStayHome
<1>1. HomeInv => TestSpotsStayHome
  BY DEF HomeInv, TestSpotsStayHome
<1> QED
  BY HomeInit, HomeStep, <1>1, PTL DEF Spec

-----------------------------------------------------------------------------
(* SpotsInOrder speaks of three sequences one after the other.  The        *)
(* invariant keeps them apart: each is increasing, the spots of one come   *)
(* before those of the next, and none is ahead of the counter.             *)

Increasing(s) == \A i, j \in 1 .. Len(s) : i < j => s[i] < s[j]
Before(s, t) == \A i \in 1 .. Len(s), j \in 1 .. Len(t) : s[i] < t[j]
UpTo(s, n) == \A i \in 1 .. Len(s) : s[i] <= n

UploaderTypes ==
    /\ sent \in Seq(Nat) /\ recordList \in Seq(Nat) /\ dec_results_queue \in Seq(Nat)
    /\ due \in Nat /\ posted \in Nat

OrderInv ==
    /\ Increasing(sent) /\ Increasing(recordList) /\ Increasing(dec_results_queue)
    /\ Before(sent, recordList) /\ Before(sent, dec_results_queue)
    /\ Before(recordList, dec_results_queue)
    /\ UpTo(sent, posted) /\ UpTo(recordList, posted) /\ UpTo(dec_results_queue, posted)

(* The counter of the packet is the length of the list, and the list is    *)
(* full only on its way out.                                               *)
PacketInv ==
    /\ inPacket = Len(recordList)
    /\ upc = "drain" => inPacket < MAX_REPORTS_PER_PACKET
    /\ upc \in {"sendFull", "sendLast"} => inPacket <= MAX_REPORTS_PER_PACKET
    /\ upc \in {"sleep", "discard", "end"} => recordList = << >>
    /\ upc \in {"sleep", "discard", "end", "drain", "sendFull", "sendLast"}

SpotInv == UploaderTypes /\ OrderInv /\ PacketInv

(* The queue is emptied from its head, one spot at a time. *)
LEMMA TailKeepsOrder ==
    ASSUME NEW s \in Seq(Nat), s # << >>, Increasing(s)
    PROVE  /\ Tail(s) \in Seq(Nat) /\ Head(s) \in Nat
           /\ Increasing(Tail(s))
           /\ \A i \in 1 .. Len(Tail(s)) : Head(s) < Tail(s)[i]
           /\ \A t \in Seq(Nat) : Before(t, s) => Before(t, Tail(s))
           /\ \A n \in Nat : UpTo(s, n) => UpTo(Tail(s), n) /\ Head(s) <= n
           /\ \A t \in Seq(Nat) : Before(t, s) => \A i \in 1 .. Len(t) : t[i] < Head(s)
<1>1. /\ Tail(s) \in Seq(Nat) /\ Head(s) \in Nat /\ Len(s) \in Nat /\ Len(s) >= 1
      /\ Len(Tail(s)) = Len(s) - 1 /\ Head(s) = s[1]
      /\ \A i \in 1 .. Len(Tail(s)) : Tail(s)[i] = s[i + 1]
  BY HeadTailProperties
<1> QED
  BY <1>1 DEF Increasing, Before, UpTo

(* A spot later than all of a sequence is put at its end. *)
LEMMA AppendKeepsOrder ==
    ASSUME NEW s \in Seq(Nat), NEW x \in Nat, Increasing(s),
           \A i \in 1 .. Len(s) : s[i] < x
    PROVE  /\ Append(s, x) \in Seq(Nat) /\ Len(Append(s, x)) = Len(s) + 1
           /\ Increasing(Append(s, x))
           /\ \A t \in Seq(Nat) : Before(t, s) /\ (\A i \in 1 .. Len(t) : t[i] < x)
                                  => Before(t, Append(s, x))
           /\ \A t \in Seq(Nat) : Before(s, t) /\ (\A i \in 1 .. Len(t) : x < t[i])
                                  => Before(Append(s, x), t)
           /\ \A n \in Nat : UpTo(s, n) /\ x <= n => UpTo(Append(s, x), n)
<1>1. /\ Append(s, x) \in Seq(Nat) /\ Len(s) \in Nat
      /\ Len(Append(s, x)) = Len(s) + 1
      /\ \A i \in 1 .. Len(s) : Append(s, x)[i] = s[i]
      /\ Append(s, x)[Len(s) + 1] = x
  BY AppendProperties
<1> DEFINE r == Append(s, x)
<1> HIDE DEF r
<1>2. Len(r) = Len(s) + 1 /\ Len(s) \in Nat /\ r[Len(s) + 1] = x
      /\ \A i \in 1 .. Len(s) : r[i] = s[i]
  BY <1>1 DEF r
<1>3. \A i \in 1 .. Len(r) : i \in 1 .. Len(s) \/ i = Len(s) + 1
  BY <1>2
<1>4. Increasing(r)
  BY <1>2, <1>3 DEF Increasing
<1>5. \A t \in Seq(Nat) : Before(t, s) /\ (\A i \in 1 .. Len(t) : t[i] < x) => Before(t, r)
  BY <1>2, <1>3 DEF Before
<1>6. \A t \in Seq(Nat) : Before(s, t) /\ (\A i \in 1 .. Len(t) : x < t[i]) => Before(r, t)
  BY <1>2, <1>3 DEF Before
<1>7. \A n \in Nat : UpTo(s, n) /\ x <= n => UpTo(r, n)
  BY <1>2, <1>3 DEF UpTo
<1> QED
  BY <1>1, <1>4, <1>5, <1>6, <1>7 DEF r

(* A packet goes out behind the packets before it. *)
LEMMA ConcatKeepsOrder ==
    ASSUME NEW s \in Seq(Nat), NEW r \in Seq(Nat),
           Increasing(s), Increasing(r), Before(s, r)
    PROVE  /\ s \o r \in Seq(Nat) /\ Len(s \o r) = Len(s) + Len(r)
           /\ Increasing(s \o r)
           /\ \A t \in Seq(Nat) : Before(s, t) /\ Before(r, t) => Before(s \o r, t)
           /\ \A n \in Nat : UpTo(s, n) /\ UpTo(r, n) => UpTo(s \o r, n)
<1>1. /\ s \o r \in Seq(Nat) /\ Len(s) \in Nat /\ Len(r) \in Nat
      /\ Len(s \o r) = Len(s) + Len(r)
      /\ \A i \in 1 .. Len(s) + Len(r) :
             (s \o r)[i] = IF i <= Len(s) THEN s[i] ELSE r[i - Len(s)]
  BY ConcatProperties
<1>2. Increasing(s \o r)
  <2> SUFFICES ASSUME NEW i \in 1 .. Len(s) + Len(r), NEW j \in 1 .. Len(s) + Len(r), i < j
               PROVE  (s \o r)[i] < (s \o r)[j]
    BY <1>1 DEF Increasing
  <2>1. CASE j <= Len(s)
    BY <1>1, <2>1 DEF Increasing
  <2>2. CASE i <= Len(s) /\ j > Len(s)
    <3>1. j - Len(s) \in 1 .. Len(r)
      BY <1>1, <2>2
    <3> QED
      BY <1>1, <2>2, <3>1 DEF Before
  <2>3. CASE i > Len(s)
    <3>1. i - Len(s) \in 1 .. Len(r) /\ j - Len(s) \in 1 .. Len(r)
          /\ i - Len(s) < j - Len(s)
      BY <1>1, <2>3
    <3>2. r[i - Len(s)] < r[j - Len(s)]
      BY <3>1 DEF Increasing
    <3>3. (s \o r)[i] = r[i - Len(s)] /\ (s \o r)[j] = r[j - Len(s)]
      BY <1>1, <2>3
    <3> QED
      BY <3>2, <3>3
  <2> QED
    BY <1>1, <2>1, <2>2, <2>3
<1>3. \A i \in 1 .. Len(s \o r) :
         \/ i \in 1 .. Len(s) /\ (s \o r)[i] = s[i]
         \/ i - Len(s) \in 1 .. Len(r) /\ (s \o r)[i] = r[i - Len(s)]
  BY <1>1
<1>4. \A t \in Seq(Nat) : Before(s, t) /\ Before(r, t) => Before(s \o r, t)
  BY <1>3 DEF Before
<1>5. \A n \in Nat : UpTo(s, n) /\ UpTo(r, n) => UpTo(s \o r, n)
  BY <1>3 DEF UpTo
<1> QED
  BY <1>1, <1>2, <1>4, <1>5

(* Nothing is posted or under way when the threads start. *)
LEMMA SpotInit == Init => SpotInv
BY UploaderAssumption, EmptySeq
   DEF Init, SpotInv, UploaderTypes, OrderInv, PacketInv, Increasing, Before, UpTo

(* Every step keeps the three sequences in order and the packet in its     *)
(* bounds; noreport, the reporter and the exit flag play no part in it.    *)
LEMMA SpotStep == SpotInv /\ [Next]_vars => SpotInv'
<1> SUFFICES ASSUME SpotInv, [Next]_vars PROVE SpotInv'
  OBVIOUS
<1> USE UploaderAssumption
<1>1. CASE PostSpots
  <2>1. due' \in Nat /\ UNCHANGED <<sent, recordList, dec_results_queue, posted, inPacket, upc>>
    BY <1>1 DEF PostSpots, upVars
  <2> QED
    BY <2>1 DEF SpotInv, UploaderTypes, OrderInv, PacketInv, Increasing, Before, UpTo
<1>2. CASE PushSpot
  <2>1. /\ due' \in Nat /\ posted' = posted + 1 /\ posted' \in Nat
        /\ dec_results_queue' = Append(dec_results_queue, posted')
        /\ UNCHANGED <<sent, recordList, inPacket, upc>>
    BY <1>2 DEF PushSpot, upVars, SpotInv, UploaderTypes
  <2>2. /\ \A i \in 1 .. Len(sent) : sent[i] < posted'
        /\ \A i \in 1 .. Len(recordList) : recordList[i] < posted'
        /\ \A i \in 1 .. Len(dec_results_queue) : dec_results_queue[i] < posted'
    BY <2>1, ElementOfSeq DEF SpotInv, UploaderTypes, OrderInv, UpTo
  <2>3. UpTo(sent, posted') /\ UpTo(recordList, posted') /\ UpTo(dec_results_queue, posted')
    BY <2>1, <2>2, ElementOfSeq DEF SpotInv, UploaderTypes, UpTo
  <2> DEFINE x == posted'
  <2> DEFINE q == Append(dec_results_queue, x)
  <2>4. /\ q \in Seq(Nat) /\ Increasing(q) /\ UpTo(q, x)
        /\ Before(sent, q) /\ Before(recordList, q)
    <3> HIDE DEF x
    <3>1. /\ x \in Nat /\ UpTo(dec_results_queue, x)
          /\ \A i \in 1 .. Len(sent) : sent[i] < x
          /\ \A i \in 1 .. Len(recordList) : recordList[i] < x
          /\ \A i \in 1 .. Len(dec_results_queue) : dec_results_queue[i] < x
      BY <2>1, <2>2, <2>3 DEF x
    <3> QED
      BY <3>1, AppendKeepsOrder DEF SpotInv, UploaderTypes, OrderInv
  <2>5. dec_results_queue' = q /\ posted' = x
    BY <2>1
  <2>6. UpTo(sent, x) /\ UpTo(recordList, x) /\ x \in Nat
    BY <2>1, <2>3
  <2>7. UploaderTypes' /\ OrderInv'
    <3> HIDE DEF x, q
    <3> QED
      BY <2>1, <2>4, <2>5, <2>6 DEF SpotInv, UploaderTypes, OrderInv
  <2>8. PacketInv'
    BY <2>1 DEF SpotInv, PacketInv
  <2> QED
    BY <2>7, <2>8 DEF SpotInv
<1>3. CASE UploaderWakes
  <2>1. /\ upc' \in {"end", "discard", "drain"} /\ inPacket' = 0 /\ recordList = << >>
        /\ UNCHANGED <<sent, recordList, dec_results_queue, due, posted>>
    BY <1>3 DEF UploaderWakes, postVars, SpotInv, PacketInv
  <2>2. UploaderTypes' /\ OrderInv'
    BY <2>1 DEF SpotInv, UploaderTypes, OrderInv
  <2>3. PacketInv'
    BY <2>1, EmptySeq DEF PacketInv
  <2> QED
    BY <2>2, <2>3 DEF SpotInv
<1>4. CASE Discard
  <2>1. /\ upc = "discard" /\ upc' \in {"discard", "sleep"}
        /\ \/ UNCHANGED dec_results_queue
           \/ dec_results_queue # << >> /\ dec_results_queue' = Tail(dec_results_queue)
        /\ UNCHANGED <<sent, recordList, inPacket, due, posted>>
    BY <1>4 DEF Discard, postVars
  <2>2. UploaderTypes' /\ OrderInv'
    BY <2>1, TailKeepsOrder DEF SpotInv, UploaderTypes, OrderInv
  <2>3. PacketInv'
    BY <2>1 DEF SpotInv, PacketInv
  <2> QED
    BY <2>2, <2>3 DEF SpotInv
<1>5. CASE AddRecord
  <2> DEFINE h == Head(dec_results_queue)
  <2>1. /\ upc = "drain" /\ dec_results_queue # << >>
        /\ dec_results_queue' = Tail(dec_results_queue)
        /\ recordList' = Append(recordList, h)
        /\ inPacket' = inPacket + 1
        /\ upc' = IF inPacket' >= MAX_REPORTS_PER_PACKET THEN "sendFull" ELSE "drain"
        /\ UNCHANGED <<sent, due, posted>>
    BY <1>5 DEF AddRecord, postVars
  <2>2. /\ h \in Nat /\ h <= posted /\ Tail(dec_results_queue) \in Seq(Nat)
        /\ Increasing(Tail(dec_results_queue)) /\ UpTo(Tail(dec_results_queue), posted)
        /\ Before(sent, Tail(dec_results_queue)) /\ Before(recordList, Tail(dec_results_queue))
        /\ \A i \in 1 .. Len(Tail(dec_results_queue)) : h < Tail(dec_results_queue)[i]
        /\ \A i \in 1 .. Len(sent) : sent[i] < h
        /\ \A i \in 1 .. Len(recordList) : recordList[i] < h
    BY <2>1, TailKeepsOrder DEF SpotInv, UploaderTypes, OrderInv
  <2>3. /\ Append(recordList, h) \in Seq(Nat)
        /\ Len(Append(recordList, h)) = Len(recordList) + 1
        /\ Increasing(Append(recordList, h)) /\ UpTo(Append(recordList, h), posted)
        /\ Before(sent, Append(recordList, h))
        /\ Before(Append(recordList, h), Tail(dec_results_queue))
    <3> HIDE DEF h
    <3> QED
      BY <2>2, AppendKeepsOrder DEF SpotInv, UploaderTypes, OrderInv
  <2>4. UploaderTypes' /\ OrderInv'
    BY <2>1, <2>2, <2>3 DEF SpotInv, UploaderTypes, OrderInv
  <2>5. PacketInv'
    <3>1. inPacket \in Nat
      BY LenProperties DEF SpotInv, UploaderTypes, PacketInv
    <3>2. inPacket' = Len(recordList')
      BY <2>1, <2>3 DEF SpotInv, PacketInv
    <3> QED
      BY <2>1, <3>1, <3>2 DEF SpotInv, PacketInv
  <2> QED
    BY <2>4, <2>5 DEF SpotInv
<1>6. CASE QueueEmpty
  <2>1. /\ upc = "drain" /\ upc' = (IF inPacket > 0 THEN "sendLast" ELSE "sleep")
        /\ UNCHANGED <<sent, recordList, dec_results_queue, inPacket, due, posted>>
    BY <1>6 DEF QueueEmpty, postVars
  <2>2. UploaderTypes' /\ OrderInv'
    BY <2>1 DEF SpotInv, UploaderTypes, OrderInv
  <2>3. inPacket \in Nat /\ (inPacket = 0 => recordList = << >>)
    BY EmptySeq, LenProperties DEF SpotInv, UploaderTypes, PacketInv
  <2>4. PacketInv'
    BY <2>1, <2>3 DEF SpotInv, PacketInv
  <2> QED
    BY <2>2, <2>4 DEF SpotInv
<1>7. ASSUME NEW ok \in BOOLEAN, Send(ok) PROVE SpotInv'
  <2>1. /\ sent' = (IF ok THEN sent \o recordList ELSE sent)
        /\ recordList' = << >> /\ inPacket' = 0 /\ upc' \in {"drain", "sleep"}
        /\ UNCHANGED <<dec_results_queue, due, posted>>
    BY <1>7 DEF Send, postVars
  <2>2. << >> \in Seq(Nat) /\ Len(<< >>) = 0
    BY EmptySeq
  <2>3. /\ sent' \in Seq(Nat) /\ Increasing(sent') /\ UpTo(sent', posted)
        /\ Before(sent', dec_results_queue)
    BY <2>1, ConcatKeepsOrder DEF SpotInv, UploaderTypes, OrderInv
  <2>4. /\ Increasing(<< >>) /\ UpTo(<< >>, posted)
        /\ Before(sent', << >>) /\ Before(<< >>, dec_results_queue)
    BY <2>2 DEF Increasing, Before, UpTo
  <2>5. UploaderTypes' /\ OrderInv'
    BY <2>1, <2>2, <2>3, <2>4 DEF SpotInv, UploaderTypes, OrderInv
  <2>6. PacketInv'
    BY <2>1, <2>2 DEF PacketInv
  <2> QED
    BY <2>5, <2>6 DEF SpotInv
<1>8. CASE SetReporting \/ Quit \/ UNCHANGED vars
  <2>1. UNCHANGED <<sent, recordList, dec_results_queue, inPacket, due, posted, upc>>
    BY <1>8 DEF SetReporting, Quit, vars, postVars, upVars
  <2> QED
    BY <2>1 DEF SpotInv, UploaderTypes, OrderInv, PacketInv
<1> QED
  BY <1>1, <1>2, <1>3, <1>4, <1>5, <1>6, <1>7, <1>8 DEF Next, PskUploaderThread

(* The spots reported, those of the packet and those waiting are each there *)
(* once and in order, no packet is too large and none is held back,         *)
(* whichever datagram fails and whatever the switch does meanwhile.         *)
THEOREM SpotsKeepOrder == Spec => []SpotsInOrder
<1>1. SpotInv => SpotsInOrder
  <2> SUFFICES ASSUME SpotInv PROVE SpotsInOrder
    OBVIOUS
  <2> DEFINE front == sent \o recordList
  <2>1. /\ front \in Seq(Nat) /\ Increasing(front) /\ Before(front, dec_results_queue)
    BY ConcatKeepsOrder DEF SpotInv, UploaderTypes, OrderInv
  <2>2. /\ front \o dec_results_queue \in Seq(Nat)
        /\ Increasing(front \o dec_results_queue)
    <3> HIDE DEF front
    <3> QED
      BY <2>1, ConcatKeepsOrder DEF SpotInv, UploaderTypes, OrderInv
  <2> DEFINE all == front \o dec_results_queue
  <2>3. \A i \in 1 .. Len(all) - 1 : all[i] < all[i + 1]
    <3>1. Len(all) \in Nat /\ Increasing(all)
      BY <2>2, LenProperties
    <3> HIDE DEF all
    <3> QED
      BY <3>1 DEF Increasing
  <2>4. Len(recordList) <= MAX_REPORTS_PER_PACKET
    BY UploaderAssumption, EmptySeq DEF SpotInv, PacketInv
  <2> QED
    BY <2>3, <2>4 DEF SpotsInOrder, SpotInv, PacketInv
<1> QED
  BY SpotInit, SpotStep, <1>1, PTL DEF Spec
=============================================================================
