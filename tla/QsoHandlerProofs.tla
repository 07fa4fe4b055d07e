-------------------------- MODULE QsoHandlerProofs --------------------------
(***************************************************************************)
(* Theorems about QsoHandler, for any set of callsigns, hash function,     *)
(* lifetime and table size, and for every behaviour of the operator and    *)
(* of the decoder.                                                         *)
(***************************************************************************)
EXTENDS QsoContact, TLAPS

(* A QSO in progress has a peer. *)
HasPeer == qsoState # "idle" => currentQSO.src \in Calls

(* updateQsoMachine() leaves no QSO whose time is over. *)
Deadline ==
    /\ remaining <= MAXQSOLIFETIME
    /\ pc \in {"wait", "query", "done"} /\ qsoState # "idle" => remaining >= 1

(* The iteration that runs without a tick at exit. *)
Extra(exit) == IF exit THEN 1 ELSE 0

(* Letters sent plus time left: what a tick takes from the second pays for *)
(* the letter it adds to the first.                                        *)
Budget ==
    /\ attempts <= MAXQSOLIFETIME + Extra(qsoExit)
    /\ qsoState # "idle" =>
          /\ pc = "wait" => attempts + remaining <= MAXQSOLIFETIME + 1
          /\ pc \in {"drain", "update"} =>
                attempts + remaining <= MAXQSOLIFETIME + Extra(qsoExit)
          /\ pc = "query" => attempts + remaining <= MAXQSOLIFETIME + 1 + Extra(qsoExit)

-----------------------------------------------------------------------------
(* Type correctness *)

(* The letters that handleTx() queues are letters. *)
LEMMA ReplyIsLetter ==
    \A s \in QsoStates \ {"idle"}, c \in CallsOrNone :
        [text |-> ReplyText[s], to |-> c] \in Letters
BY DEF QsoStates, ReplyText, Letters

(* logToAdi() keeps the counts within the cap. *)
LEMMA LogToAdiType ==
    ASSUME NEW c \in Calls, TypeOK, LogToAdi(c)
    PROVE  adi' \in [Calls -> 0 .. LogCap]
BY QsoAssumption DEF TypeOK, LogToAdi

(* addPeer() keeps a sequence of hashes. *)
LEMMA AddPeerType ==
    ASSUME NEW c \in Calls, TypeOK, AddPeer(c)
    PROVE  peers' \in Seq(Nat)
BY QsoAssumption DEF TypeOK, AddPeer

(* queueTx() keeps a queue of letters. *)
LEMMA QueueTxType ==
    ASSUME NEW text, NEW to, [text |-> text, to |-> to] \in Letters,
           TypeOK, QueueTx(text, to)
    PROVE  tx_queue' \in Seq(Letters)
<1> DEFINE letter == [text |-> text, to |-> to]
<1>1. letter \in Letters /\ tx_queue \in Seq(Letters)
      /\ tx_queue' = Append(tx_queue, letter)
  BY DEF TypeOK, QueueTx
<1> HIDE DEF letter
<1> QED  BY <1>1

(* A message can only be drained as the type of the queue says. *)
LEMMA HeadIsMessage ==
    ASSUME TypeOK, qsoh_queue # <<>>
    PROVE  /\ Head(qsoh_queue) \in Messages
           /\ Tail(qsoh_queue) \in Seq(Messages)
BY DEF TypeOK

(* Handling one message keeps the machine in its types (addCQ(), addQso()). *)
LEMMA MessageType ==
    ASSUME TypeOK, HasPeer, NEW m \in Messages, AddCQ(m) \/ AddQso(m)
    PROVE  /\ qsoState' \in QsoStates
           /\ currentQSO' \in [src : CallsOrNone, ft8slot : Slots]
           /\ remaining' \in Int
           /\ peers' \in Seq(Nat)
           /\ adi' \in [Calls -> 0 .. LogCap]
           /\ attempts' \in Nat
           /\ HasPeer'
<1> USE QsoAssumption DEF TypeOK, HasPeer
<1>1. m.src \in Calls /\ m.ft8slot \in Slots
  BY DEF Messages
<1>2. CASE AddCQ(m)
  BY <1>1, <1>2 DEF AddCQ, machine, QsoStates, CallsOrNone
<1>3. CASE RefuseQso(m)
  BY <1>3 DEF RefuseQso, machine
<1>4. CASE StartQso(m)
  BY <1>1, <1>4 DEF StartQso, QsoStates, CallsOrNone
<1>5. CASE UpdateQso(m)
  <2>1. CASE ReceiveLoc
    BY <1>5, <2>1 DEF UpdateQso, ReceiveLoc, QsoStates
  <2>2. CASE ReceiveSig
    BY <1>5, <2>2 DEF UpdateQso, ReceiveSig, QsoStates
  <2>3. CASE ReceiveRR73(m.src)
    <3>1. currentQSO.src \in Calls
      BY <1>5 DEF UpdateQso
    <3>2. adi' \in [Calls -> 0 .. LogCap]
      BY <2>3, <3>1, LogToAdiType DEF ReceiveRR73
    <3>3. peers' \in Seq(Nat)
      BY <2>3, <1>1, AddPeerType DEF ReceiveRR73
    <3> QED  BY <2>3, <3>1, <3>2, <3>3 DEF ReceiveRR73, QsoStates
  <2>4. CASE Receive73
    BY <2>4 DEF Receive73, ResetQsoState, QsoStates, CallsOrNone, Slots
  <2> QED  BY <1>5, <2>1, <2>2, <2>3, <2>4 DEF UpdateQso
<1> QED  BY <1>2, <1>3, <1>4, <1>5 DEF AddQso

(* TypeOK is inductive together with HasPeer: the record written when a     *)
(* QSO times out is that of a real peer.                                   *)
TypeInv == TypeOK /\ HasPeer

(* The types at the start *)
LEMMA TypeInit == Init => TypeInv
<1> SUFFICES ASSUME Init PROVE TypeInv
  OBVIOUS
<1>1. txBusy \in BOOLEAN /\ qsoExit \in BOOLEAN
      /\ autoCq \in BOOLEAN /\ autoCqReply \in BOOLEAN /\ autoQSO \in BOOLEAN
  BY Zenon DEF Init
<1>2. adi \in [Calls -> 0 .. LogCap]
  BY QsoAssumption DEF Init
<1>3. currentQSO \in [src : CallsOrNone, ft8slot : Slots]
  BY DEF Init, CallsOrNone, Slots
<1> QED
  BY <1>1, <1>2, <1>3 DEF Init, TypeInv, TypeOK, HasPeer, QsoStates, Slots

(* updateQsoMachine() and its three outcomes. *)
LEMMA UpdateType ==
    ASSUME TypeInv, UpdateQsoMachine
    PROVE  TypeInv'
<1> USE QsoAssumption DEF TypeInv, TypeOK, HasPeer
<1>1. CASE TimeoutQso
  <2>1. adi' \in [Calls -> 0 .. LogCap]
    BY <1>1, LogToAdiType DEF TimeoutQso
  <2>2. txBusy' \in BOOLEAN
    BY <1>1, Zenon DEF TimeoutQso
  <2> QED
    BY <1>1, <2>1, <2>2 DEF UpdateQsoMachine, TimeoutQso, ResetQsoState,
                            QsoStates, CallsOrNone, Slots, switches, decoder
<1>2. CASE remaining > 0 /\ tickMsg = activeSlot /\ HandleTx
  <2>1. CASE qsoState # "idle" /\ currentQSO.ft8slot = tickMsg
    <3>1. [text |-> ReplyText[qsoState], to |-> currentQSO.src] \in Letters
      BY <2>1, ReplyIsLetter
    <3>2. tx_queue' \in Seq(Letters)
      BY <1>2, <2>1, <3>1, QueueTxType DEF HandleTx
    <3>3. txBusy' \in BOOLEAN
      BY <1>2, <2>1, Zenon DEF HandleTx
    <3>4. qsoState' \in QsoStates /\ attempts' \in Nat
      BY <1>2, <2>1 DEF HandleTx, QsoStates
    <3>5. UNCHANGED <<currentQSO, remaining, peers, adi>>
      BY <1>2, <2>1 DEF HandleTx
    <3> QED
      BY <2>1, <3>2, <3>3, <3>4, <3>5 DEF UpdateQsoMachine, switches, decoder
  <2>2. CASE ~(qsoState # "idle" /\ currentQSO.ft8slot = tickMsg)
    <3>1. txBusy' \in BOOLEAN
      BY <1>2, <2>2, Zenon DEF HandleTx
    <3>2. UNCHANGED <<machine, tx_queue>>
      BY <1>2, <2>2 DEF HandleTx
    <3> QED  BY <3>1, <3>2 DEF UpdateQsoMachine, machine, switches, decoder
  <2> QED  BY <2>1, <2>2
<1>3. CASE /\ remaining > 0 /\ tickMsg # activeSlot
           /\ txBusy' = FALSE
           /\ UNCHANGED <<machine, tx_queue>>
  <2>1. txBusy' \in BOOLEAN
    BY <1>3, Zenon
  <2> QED  BY <1>3, <2>1 DEF UpdateQsoMachine, machine, switches, decoder
<1> QED  BY <1>1, <1>2, <1>3 DEF UpdateQsoMachine

(* and after every step of any thread. *)
LEMMA TypeStep == TypeInv /\ [Next]_vars => TypeInv'
<1> SUFFICES ASSUME TypeInv, [Next]_vars PROVE TypeInv'
  OBVIOUS
<1> USE QsoAssumption DEF TypeInv
<1>1. CASE PopTicks
  BY <1>1 DEF PopTicks, TypeOK, HasPeer, switches, decoder
<1>2. CASE AbortWait
  BY <1>2 DEF AbortWait, TypeOK, HasPeer, machine, switches, decoder
<1>3. CASE DrainMessage
  <2> DEFINE m == Head(qsoh_queue)
  <2>1. m \in Messages /\ qsoh_queue' \in Seq(Messages)
    BY <1>3, HeadIsMessage DEF DrainMessage
  <2>2. CASE AddCQ(m) \/ AddQso(m)
    <3> HIDE DEF m
    <3>1. /\ qsoState' \in QsoStates
          /\ currentQSO' \in [src : CallsOrNone, ft8slot : Slots]
          /\ remaining' \in Int
          /\ peers' \in Seq(Nat)
          /\ adi' \in [Calls -> 0 .. LogCap]
          /\ attempts' \in Nat
          /\ HasPeer'
      BY <2>1, <2>2, MessageType
    <3> QED  BY <1>3, <2>1, <3>1 DEF DrainMessage, TypeOK, switches, decoder
  <2>3. CASE UNCHANGED machine
    BY <1>3, <2>1, <2>3 DEF DrainMessage, TypeOK, HasPeer, machine, switches, decoder
  <2> QED  BY <1>3, <2>2, <2>3 DEF DrainMessage
<1>4. CASE DrainEnd
  BY <1>4 DEF DrainEnd, TypeOK, HasPeer, machine, switches, decoder
<1>5. CASE UpdateQsoMachine
  BY <1>5, UpdateType
<1>6. CASE QueryCQ
  <2>1. [text |-> "CQ", to |-> NoCall] \in Letters
    BY DEF Letters, CallsOrNone
  <2>2. tx_queue' \in Seq(Letters) /\ cqWait' \in Nat
    <3>1. CASE QueueTx("CQ", NoCall) /\ cqWait' = QUERYCQDELAY
      BY <2>1, <3>1, QueueTxType
    <3>2. CASE UNCHANGED <<cqWait, tx_queue>>
      BY <3>2 DEF TypeOK
    <3> QED  BY <1>6, <3>1, <3>2 DEF QueryCQ
  <2>3. pc' \in {"wait", "done"}
    BY <1>6 DEF QueryCQ
  <2>4. UNCHANGED <<machine, txBusy, switches, tick_queue, qsoh_queue, decoder>>
        /\ tickMsg' = "garbage"
    BY <1>6 DEF QueryCQ
  <2> QED
    BY <2>2, <2>3, <2>4 DEF TypeOK, HasPeer, machine, switches, decoder
<1>7. CASE DecodeMessage
  BY <1>7 DEF DecodeMessage, TypeOK, HasPeer, Messages, machine, switches
<1>8. CASE DecodeTick
  BY <1>8 DEF DecodeTick, OtherSlot, Slots, TypeOK, HasPeer, machine, switches
<1>9. CASE MissSlot
  BY <1>9 DEF MissSlot, OtherSlot, Slots, TypeOK, HasPeer, machine, switches
<1>10. CASE TakeLetter
  BY <1>10 DEF TakeLetter, TypeOK, HasPeer, machine, switches, decoder
<1>11. CASE Operator
  <2>1. autoCq' \in BOOLEAN /\ autoCqReply' \in BOOLEAN /\ autoQSO' \in BOOLEAN
    BY <1>11, Zenon DEF Operator, SetAutoCQ, SetAutoCQReply, SetAutoQSO,
                        SetActiveSlot, CloseQsoHandler, TypeOK
  <2>2. qsoExit' \in BOOLEAN /\ activeSlot' \in Slots
    BY <1>11, Zenon DEF Operator, SetAutoCQ, SetAutoCQReply, SetAutoQSO,
                        SetActiveSlot, CloseQsoHandler, TypeOK, Slots
  <2> QED
    BY <1>11, <2>1, <2>2 DEF Operator, TypeOK, HasPeer, machine, decoder
<1>12. CASE UNCHANGED vars
  BY <1>12 DEF vars, TypeOK, HasPeer, machine, switches, decoder
<1> QED
  BY <1>1, <1>2, <1>3, <1>4, <1>5, <1>6, <1>7, <1>8, <1>9, <1>10, <1>11, <1>12
  DEF Next, QSOHandler

(* Every reachable state is well typed. *)
THEOREM TypeCorrect == Spec => []TypeOK
<1>1. Spec => []TypeInv
  BY TypeInit, TypeStep, PTL DEF Spec
<1>2. TypeInv => TypeOK
  BY DEF TypeInv
<1> QED  BY <1>1, <1>2, PTL

-----------------------------------------------------------------------------
(* Safety *)

(* What a message can do to the deadline and to the letters counted. *)
LEMMA MessageBudget ==
    ASSUME TypeInv, NEW m \in Messages, AddCQ(m) \/ AddQso(m)
    PROVE  \/ /\ UNCHANGED <<remaining, attempts>>
              /\ qsoState = "idle" => qsoState' = "idle"
           \/ remaining' = MAXQSOLIFETIME /\ attempts' = 0
           \/ remaining' = 0 /\ attempts' = 0 /\ qsoState' = "idle"
<1>1. CASE AddCQ(m)
  BY <1>1 DEF AddCQ, machine
<1>2. CASE AddQso(m)
  BY <1>2 DEF AddQso, RefuseQso, StartQso, UpdateQso, ReceiveLoc, ReceiveSig,
              ReceiveRR73, Receive73, ResetQsoState, machine
<1> QED  BY <1>1, <1>2

(* The other threads leave the machine alone, and nobody clears qsoExit. *)
OtherThreads == DecodeMessage \/ DecodeTick \/ MissSlot \/ TakeLetter \/ Operator

(* Only the QSO thread changes the contact, the letters counted and the log. *)
LEMMA OthersLeaveMachine ==
    ASSUME TypeOK, OtherThreads \/ UNCHANGED vars
    PROVE  UNCHANGED <<pc, machine>> /\ Extra(qsoExit) <= Extra(qsoExit')
<1>1. qsoExit => qsoExit'
  BY Zenon DEF OtherThreads, DecodeMessage, DecodeTick, MissSlot, TakeLetter,
           Operator, SetAutoCQ, SetAutoCQReply, SetAutoQSO, SetActiveSlot,
           CloseQsoHandler, vars, switches
<1>2. Extra(qsoExit) <= Extra(qsoExit')
  BY <1>1 DEF Extra
<1>3. UNCHANGED <<pc, machine>>
  BY DEF OtherThreads, DecodeMessage, DecodeTick, MissSlot, TakeLetter,
         Operator, vars
<1> QED  BY <1>2, <1>3

(* The deadline and the budget are kept together: a letter is paid by the  *)
(* tick that the next iteration takes from the time left.                  *)
LEMMA BudgetStep ==
    ASSUME TypeInv, TypeInv', Deadline, Budget, [Next]_vars
    PROVE  Deadline' /\ Budget'
<1> MAXQSOLIFETIME \in Nat
  BY QsoAssumption
<1> /\ Extra(qsoExit) \in Nat /\ Extra(qsoExit') \in Nat
    /\ UNCHANGED qsoExit => Extra(qsoExit') = Extra(qsoExit)
  BY DEF Extra
<1> /\ attempts \in Nat /\ attempts' \in Nat
    /\ remaining \in Int /\ remaining' \in Int
  BY DEF TypeInv, TypeOK
<1>1. CASE PopTicks
  <2>1. Len(tick_queue) \in Nat \ {0}
    BY <1>1 DEF PopTicks, TypeInv, TypeOK
  <2>2. remaining' <= remaining - 1 /\ attempts' = attempts
        /\ qsoState' = qsoState /\ UNCHANGED qsoExit
    BY <1>1, <2>1 DEF PopTicks, TypeInv, TypeOK, switches
  <2> QED
    BY <1>1, <2>2 DEF PopTicks, Deadline, Budget
<1>2. CASE AbortWait
  <2>1. Extra(qsoExit) = 1
    BY <1>2, Zenon DEF AbortWait, Extra
  <2>2. pc = "wait" /\ pc' = "drain" /\ UNCHANGED machine /\ Extra(qsoExit') = Extra(qsoExit)
    BY <1>2 DEF AbortWait, switches
  <2> QED
    BY <2>1, <2>2 DEF Deadline, Budget, machine
<1>3. CASE DrainMessage
  <2>1. pc = "drain" /\ pc' = "drain" /\ Extra(qsoExit') = Extra(qsoExit)
    BY <1>3 DEF DrainMessage, switches
  <2> DEFINE m == Head(qsoh_queue)
  <2>2. CASE AddCQ(m) \/ AddQso(m)
    <3>1. m \in Messages
      BY <1>3, HeadIsMessage DEF DrainMessage, TypeInv
    <3> HIDE DEF m
    <3>2. \/ /\ UNCHANGED <<remaining, attempts>>
             /\ qsoState = "idle" => qsoState' = "idle"
          \/ remaining' = MAXQSOLIFETIME /\ attempts' = 0
          \/ remaining' = 0 /\ attempts' = 0 /\ qsoState' = "idle"
      BY <2>2, <3>1, MessageBudget
    <3> QED  BY <2>1, <3>2 DEF Deadline, Budget
  <2>3. CASE UNCHANGED machine
    BY <2>1, <2>3 DEF Deadline, Budget, machine
  <2> QED  BY <1>3, <2>2, <2>3 DEF DrainMessage
<1>4. CASE DrainEnd
  BY <1>4 DEF DrainEnd, Deadline, Budget, machine, switches
<1>5. CASE UpdateQsoMachine
  <2>1. pc = "update" /\ pc' = "query" /\ Extra(qsoExit') = Extra(qsoExit)
    BY <1>5 DEF UpdateQsoMachine, switches
  <2>2. CASE TimeoutQso
    BY <2>1, <2>2 DEF TimeoutQso, ResetQsoState, Deadline, Budget
  <2>3. CASE remaining > 0 /\ tickMsg = activeSlot /\ HandleTx
    <3>1. \/ /\ qsoState # "idle" /\ attempts' = attempts + 1
             /\ UNCHANGED remaining
          \/ UNCHANGED machine
      BY <2>3 DEF HandleTx
    <3> QED
      BY <2>1, <2>3, <3>1 DEF Deadline, Budget, machine
  <2>4. CASE remaining > 0 /\ UNCHANGED machine
    BY <2>1, <2>4 DEF Deadline, Budget, machine
  <2> QED  BY <1>5, <2>2, <2>3, <2>4 DEF UpdateQsoMachine
<1>6. CASE QueryCQ
  <2>1. pc = "query" /\ UNCHANGED machine /\ Extra(qsoExit') = Extra(qsoExit)
    BY <1>6 DEF QueryCQ, switches
  <2>2. pc' = "done" \/ (pc' = "wait" /\ Extra(qsoExit) = 0)
    BY <1>6, Zenon DEF QueryCQ, Extra
  <2> QED  BY <2>1, <2>2 DEF Deadline, Budget, machine
<1>7. CASE OtherThreads \/ UNCHANGED vars
  <2>1. UNCHANGED <<pc, machine>> /\ Extra(qsoExit) <= Extra(qsoExit')
    BY <1>7, OthersLeaveMachine DEF TypeInv
  <2>2. Deadline'
    BY <2>1 DEF Deadline, machine
  <2>3. Budget'
    BY <2>1 DEF Budget, machine
  <2> QED  BY <2>2, <2>3
<1> QED
  BY <1>1, <1>2, <1>3, <1>4, <1>5, <1>6, <1>7 DEF Next, QSOHandler, OtherThreads

(* Records are only ever added to the log. *)
LEMMA LogGrows ==
    ASSUME TypeOK, NEW c \in Calls, LogToAdi(c)
    PROVE  /\ \A d \in Calls : adi'[d] >= adi[d]
           /\ AdiWritable => adi'[c] > 0
<1>1. adi \in [Calls -> 0 .. LogCap] /\ LogCap \in Nat \ {0}
  BY QsoAssumption DEF TypeOK
<1>2. CASE AdiWritable /\ adi[c] < LogCap
  <2>1. adi' = [adi EXCEPT ![c] = @ + 1]
    BY <1>2, Zenon DEF LogToAdi
  <2> QED  BY <1>1, <2>1
<1>3. CASE ~(AdiWritable /\ adi[c] < LogCap)
  <2>1. adi' = adi
    BY <1>3, Zenon DEF LogToAdi
  <2>2. AdiWritable => ~(adi[c] < LogCap)
    BY <1>3, Zenon
  <2> QED  BY <1>1, <2>1, <2>2
<1> QED  BY <1>2, <1>3

(* The worked-before table and the log move together on RR73. *)
LEMMA ReceiveRR73Logged ==
    ASSUME TypeInv, PeersAreLogged, NEW c \in Calls, qsoState # "idle",
           c = currentQSO.src, ReceiveRR73(c)
    PROVE  PeersAreLogged' /\ ClosingIsLogged'
<1>1. /\ \A d \in Calls : adi'[d] >= adi[d]
      /\ AdiWritable => adi'[c] > 0
  BY LogGrows DEF ReceiveRR73, TypeInv
<1>2. adi \in [Calls -> Nat] /\ adi' \in [Calls -> Nat]
  <2>1. adi \in [Calls -> 0 .. LogCap] /\ adi' \in [Calls -> 0 .. LogCap]
    BY LogToAdiType DEF ReceiveRR73, TypeInv, TypeOK
  <2> QED  BY <2>1
<1>3. peers \in Seq(Nat) /\ Hash[c] \in Nat
  BY QsoAssumption DEF TypeInv, TypeOK
<1>4. currentQSO' = currentQSO
  BY DEF ReceiveRR73
<1>5. CASE CheckPeer(c)
  BY <1>1, <1>2, <1>3, <1>4, <1>5 DEF ReceiveRR73, AddPeer, CheckPeer,
     PeersAreLogged, ClosingIsLogged
<1>6. CASE ~CheckPeer(c) /\ Len(peers) + 1 >= MAXQSOPEERS
  BY <1>1, <1>2, <1>4, <1>6 DEF ReceiveRR73, AddPeer, PeersAreLogged,
     ClosingIsLogged
<1>7. CASE ~CheckPeer(c) /\ ~(Len(peers) + 1 >= MAXQSOPEERS)
  <2>1. peers' = Append(peers, Hash[c])
    BY <1>7 DEF ReceiveRR73, AddPeer
  <2>2. /\ Len(peers') = Len(peers) + 1
        /\ peers'[Len(peers) + 1] = Hash[c]
        /\ \A i \in 1 .. Len(peers) : peers'[i] = peers[i]
    BY <1>3, <2>1
  <2>3. PeersAreLogged'
    <3> SUFFICES ASSUME AdiWritable, NEW i \in 1 .. Len(peers')
                 PROVE  \E d \in Calls : Hash[d] = peers'[i] /\ adi'[d] > 0
      BY DEF PeersAreLogged
    <3>1. CASE i = Len(peers) + 1
      BY <1>1, <2>2, <3>1
    <3>2. CASE i \in 1 .. Len(peers)
      <4>1. PICK d \in Calls : Hash[d] = peers[i] /\ adi[d] > 0
        BY <3>2 DEF PeersAreLogged
      <4> QED  BY <1>1, <1>2, <2>2, <3>2, <4>1
    <3> QED  BY <1>3, <2>2, <3>1, <3>2
  <2>4. CheckPeer(c)'
    BY <1>3, <2>2 DEF CheckPeer
  <2> QED  BY <1>1, <1>4, <2>3, <2>4 DEF ClosingIsLogged
<1> QED  BY <1>5, <1>6, <1>7

(* What a message other than RR73 leaves of the table and of the log. *)
LEMMA MessageLogged ==
    ASSUME TypeInv, PeersAreLogged, ClosingIsLogged, NEW m \in Messages,
           AddCQ(m) \/ AddQso(m)
    PROVE  PeersAreLogged' /\ ClosingIsLogged'
<1>1. CASE qsoState # "idle" /\ m.src = currentQSO.src /\ ReceiveRR73(m.src)
  BY <1>1, ReceiveRR73Logged DEF TypeInv, HasPeer
<1>2. CASE UNCHANGED machine
  BY <1>2 DEF machine, PeersAreLogged, ClosingIsLogged, CheckPeer
<1>3. CASE UNCHANGED <<peers, adi>> /\ qsoState' # "reply73"
  BY <1>3 DEF PeersAreLogged, ClosingIsLogged
<1> QED
  BY <1>1, <1>2, <1>3 DEF AddCQ, AddQso, RefuseQso, StartQso, UpdateQso,
     ReceiveLoc, ReceiveSig, Receive73, ResetQsoState

(* Nothing runs ahead of the log. *)
LEMMA LoggedStep ==
    ASSUME TypeInv, PeersAreLogged, ClosingIsLogged, [Next]_vars
    PROVE  PeersAreLogged' /\ ClosingIsLogged'
<1>1. CASE DrainMessage
  <2> DEFINE m == Head(qsoh_queue)
  <2>1. CASE AddCQ(m) \/ AddQso(m)
    <3>1. m \in Messages
      BY <1>1, HeadIsMessage DEF DrainMessage, TypeInv
    <3> HIDE DEF m
    <3> QED  BY <2>1, <3>1, MessageLogged
  <2>2. CASE UNCHANGED machine
    BY <2>2 DEF machine, PeersAreLogged, ClosingIsLogged, CheckPeer
  <2> QED  BY <1>1, <2>1, <2>2 DEF DrainMessage
<1>2. CASE UpdateQsoMachine
  <2>1. CASE TimeoutQso
    <3>1. qsoState' = "idle" /\ UNCHANGED peers
      BY <2>1 DEF TimeoutQso, ResetQsoState
    <3>2. CASE LogToAdi(currentQSO.src) /\ qsoState # "idle"
      <4>1. \A d \in Calls : adi'[d] >= adi[d]
        BY <3>2, LogGrows DEF TypeInv, HasPeer
      <4>2. adi \in [Calls -> Nat] /\ adi' \in [Calls -> Nat]
        <5>1. /\ adi \in [Calls -> 0 .. LogCap]
              /\ adi' \in [Calls -> 0 .. LogCap]
          BY <3>2, LogToAdiType DEF TypeInv, TypeOK, HasPeer
        <5> QED  BY <5>1
      <4>3. PeersAreLogged'  BY <3>1, <4>1, <4>2 DEF PeersAreLogged
      <4>4. ClosingIsLogged'  BY <3>1 DEF ClosingIsLogged
      <4> QED  BY <4>3, <4>4
    <3>3. CASE UNCHANGED adi
      BY <3>1, <3>3 DEF PeersAreLogged, ClosingIsLogged
    <3> QED  BY <2>1, <3>2, <3>3 DEF TimeoutQso
  <2>2. CASE HandleTx
    BY <2>2 DEF HandleTx, machine, PeersAreLogged, ClosingIsLogged, CheckPeer
  <2>3. CASE UNCHANGED machine
    BY <2>3 DEF machine, PeersAreLogged, ClosingIsLogged, CheckPeer
  <2> QED  BY <1>2, <2>1, <2>2, <2>3 DEF UpdateQsoMachine
<1>3. CASE PopTicks
  BY <1>3 DEF PopTicks, PeersAreLogged, ClosingIsLogged, CheckPeer
<1>4. CASE AbortWait \/ DrainEnd \/ QueryCQ
  BY <1>4 DEF AbortWait, DrainEnd, QueryCQ, machine, PeersAreLogged,
              ClosingIsLogged, CheckPeer
<1>5. CASE OtherThreads \/ UNCHANGED vars
  <2>1. UNCHANGED machine
    BY <1>5, OthersLeaveMachine DEF TypeInv
  <2> QED
    BY <2>1 DEF machine, PeersAreLogged, ClosingIsLogged, CheckPeer
<1> QED
  BY <1>1, <1>2, <1>3, <1>4, <1>5 DEF Next, QSOHandler, OtherThreads

-----------------------------------------------------------------------------
(* The theorems *)

(* The inductive invariant. *)
IInv == /\ TypeInv
        /\ Deadline
        /\ Budget
        /\ PeersAreLogged
        /\ ClosingIsLogged

(* The inductive invariant at the start, *)
LEMMA IInvInit == Init => IInv
<1> SUFFICES ASSUME Init PROVE IInv
  OBVIOUS
<1>1. TypeInv
  BY TypeInit
<1>2. MAXQSOLIFETIME \in Nat /\ Extra(qsoExit) \in Nat
  BY QsoAssumption DEF Extra
<1>3. Deadline /\ Budget
  BY <1>2 DEF Init, Deadline, Budget
<1>4. PeersAreLogged /\ ClosingIsLogged
  BY DEF Init, PeersAreLogged, ClosingIsLogged
<1> QED  BY <1>1, <1>3, <1>4 DEF IInv

(* after every step, *)
LEMMA IInvStep == IInv /\ [Next]_vars => IInv'
BY TypeStep, BudgetStep, LoggedStep DEF IInv

(* and so always. *)
LEMMA Invariance == Spec => []IInv
BY IInvInit, IInvStep, PTL DEF Spec

(* No QSO is left behind: between two iterations, a QSO in progress has a  *)
(* peer and between one and MAXQSOLIFETIME ticks to live.                  *)
THEOREM NoQsoLeftBehind == Spec => []QsoAlive
<1>1. IInv => QsoAlive
  <2> SUFFICES ASSUME IInv, pc \in {"wait", "done"}, qsoState # "idle"
               PROVE  currentQSO.src # NoCall /\ remaining \in 1 .. MAXQSOLIFETIME
    BY DEF QsoAlive
  <2>1. currentQSO.src \in Calls /\ remaining \in Int
    BY DEF IInv, TypeInv, TypeOK, HasPeer
  <2> QED  BY <2>1, QsoAssumption DEF IInv, Deadline
<1> QED  BY <1>1, Invariance, PTL

(* A station is called at most once per tick of the QSO's lifetime. *)
THEOREM CallsAreBounded == Spec => []AttemptsBounded
<1>1. IInv => AttemptsBounded
  BY DEF IInv, Budget, Extra, AttemptsBounded
<1> QED  BY <1>1, Invariance, PTL

(* The worked-before table never runs ahead of the ADIF log. *)
THEOREM TableFollowsLog == Spec => []PeersAreLogged
<1>1. IInv => PeersAreLogged
  BY DEF IInv
<1> QED  BY <1>1, Invariance, PTL

(* A QSO that only owes its 73 is in the log and in the table. *)
THEOREM ClosingFollowsLog == Spec => []ClosingIsLogged
<1>1. IInv => ClosingIsLogged
  BY DEF IInv
<1> QED  BY <1>1, Invariance, PTL

(* The peer of a QSO never changes under it. *)
THEOREM OnePeerAtATime == Spec => PeerStable
<1>1. [Next]_vars => [qsoState # "idle" /\ qsoState' # "idle"
                         => currentQSO' = currentQSO]_vars
  <2> SUFFICES ASSUME [Next]_vars, qsoState # "idle", qsoState' # "idle"
               PROVE  currentQSO' = currentQSO
    OBVIOUS
  <2>1. CASE DrainMessage
    <3> DEFINE m == Head(qsoh_queue)
    <3>1. CASE AddCQ(m) \/ AddQso(m)
      <4> HIDE DEF m
      <4> QED
        BY <3>1 DEF AddCQ, AddQso, RefuseQso, StartQso, UpdateQso, ReceiveLoc,
           ReceiveSig, ReceiveRR73, Receive73, ResetQsoState, machine
    <3>2. CASE UNCHANGED machine
      BY <3>2 DEF machine
    <3> QED  BY <2>1, <3>1, <3>2 DEF DrainMessage
  <2>2. CASE UpdateQsoMachine
    BY <2>2 DEF UpdateQsoMachine, TimeoutQso, ResetQsoState, HandleTx, machine
  <2>3. CASE PopTicks \/ AbortWait \/ DrainEnd \/ QueryCQ
    BY <2>3 DEF PopTicks, AbortWait, DrainEnd, QueryCQ, machine
  <2>4. CASE OtherThreads \/ UNCHANGED vars
    BY <2>4 DEF OtherThreads, DecodeMessage, DecodeTick, MissSlot, TakeLetter,
                Operator, vars, machine
  <2> QED
    BY <2>1, <2>2, <2>3, <2>4 DEF Next, QSOHandler, OtherThreads
<1> QED  BY <1>1, PTL DEF Spec, PeerStable

-----------------------------------------------------------------------------
(* The QSO thread implements Contact *)

(* A record adds its station to those in the log, if the file opens. *)
LEMMA LogToAdiRecords ==
    ASSUME NEW c \in Calls, TypeOK, LogToAdi(c)
    PROVE  Logged' = IF AdiWritable THEN Logged \cup {c} ELSE Logged
<1> USE QsoAssumption DEF TypeOK, LogToAdi, Logged
<1>1. CASE AdiWritable /\ adi[c] < LogCap
  <2>1. adi[c] \in Nat /\ adi'[c] = adi[c] + 1
        /\ \A d \in Calls \ {c} : adi'[d] = adi[d]
    BY <1>1
  <2> QED  BY <1>1, <2>1
<1>2. CASE ~(AdiWritable /\ adi[c] < LogCap)
  BY <1>2
<1> QED  BY <1>1, <1>2

(* What is left of a contact that is reset, seen from the band. *)
LEMMA ResetIsOver == ResetQsoState => Band!Over
BY DEF ResetQsoState, Band!Over, Stage

(* A message: nothing, a contact that begins, or the peer's next word. *)
LEMMA MessageContact ==
    ASSUME TypeInv, NEW m \in Messages, AddCQ(m) \/ AddQso(m), UNCHANGED tx_queue
    PROVE  Band!Next \/ UNCHANGED Band!vars
<1> USE DEF Stage, TypeInv, TypeOK, HasPeer
<1>1. m.src \in Calls
  BY DEF Messages
<1>2. CASE UNCHANGED machine
  BY <1>2 DEF machine, Band!vars, Band!contact, Logged
<1>3. CASE /\ qsoState = "idle" /\ qsoState' \in {"replyLoc", "replySig"}
           /\ currentQSO' = [src |-> m.src, ft8slot |-> m.ft8slot]
           /\ attempts' = 0 /\ UNCHANGED adi
  <2>1. Band!Begin(m.src)
    BY <1>3 DEF Band!Begin, Logged
  <2> QED  BY <1>1, <2>1 DEF Band!Next
<1>4. CASE StartQso(m) /\ qsoState' = "idle"
  BY <1>4 DEF StartQso, Band!vars, Band!contact, Logged
<1>5. CASE UpdateQso(m)
  <2>1. qsoState # "idle" /\ m.src = currentQSO.src /\ qsoState \in QsoStates
    BY <1>5 DEF UpdateQso
  <2>2. CASE ReceiveLoc \/ ReceiveSig
    <3>1. UNCHANGED <<currentQSO, adi, attempts>>
      BY <2>2 DEF ReceiveLoc, ReceiveSig
    <3>2. qsoState' = "replySig" \/ (qsoState = "replySig" /\ qsoState' = "replyRR73")
      BY <2>2 DEF ReceiveLoc, ReceiveSig
    <3>3. Band!Exchange
      BY <2>1, <3>1, <3>2 DEF Band!Exchange, Logged, QsoStates
    <3> QED  BY <3>3 DEF Band!Next
  <2>3. CASE ReceiveRR73(m.src)
    <3>1. Logged' = IF AdiWritable THEN Logged \cup {currentQSO.src} ELSE Logged
      BY <1>1, <2>1, <2>3, LogToAdiRecords DEF ReceiveRR73
    <3>2. Band!Confirm
      BY <2>1, <2>3, <3>1 DEF ReceiveRR73, Band!Confirm, Band!Record, QsoStates
    <3> QED  BY <3>2 DEF Band!Next
  <2>4. CASE Receive73
    <3>1. Band!GiveUp
      BY <2>1, <2>4, ResetIsOver DEF Receive73, Band!GiveUp, Logged, QsoStates
    <3> QED  BY <3>1 DEF Band!Next
  <2> QED  BY <1>5, <2>2, <2>3, <2>4 DEF UpdateQso
<1> QED
  BY <1>2, <1>3, <1>4, <1>5 DEF AddCQ, AddQso, RefuseQso, StartQso

(* The end of an iteration: the contact is over, or called once more. *)
LEMMA UpdateContact ==
    ASSUME IInv, IInv', UpdateQsoMachine
    PROVE  Band!Next \/ UNCHANGED Band!vars
<1> USE QsoAssumption DEF Stage, IInv, TypeInv, TypeOK, HasPeer
<1>1. CASE UNCHANGED <<machine, tx_queue>>
  BY <1>1 DEF machine, Band!vars, Band!contact, Logged
<1>2. CASE TimeoutQso
  <2>1. Band!Over /\ UNCHANGED tx_queue /\ qsoState' = "idle"
    BY <1>2, ResetIsOver DEF TimeoutQso, ResetQsoState
  <2>2. CASE qsoState = "idle"
    BY <1>2, <2>1, <2>2 DEF TimeoutQso, Band!vars, Band!contact, Logged
  <2>3. CASE qsoState \in {"replyLoc", "replySig"}
    <3>1. Band!GiveUp
      BY <1>2, <2>1, <2>3 DEF TimeoutQso, Band!GiveUp, Logged
    <3> QED  BY <3>1 DEF Band!Next
  <2>4. CASE qsoState \in {"replyRR73", "reply73"}
    <3>1. Logged' = IF AdiWritable THEN Logged \cup {currentQSO.src} ELSE Logged
      BY <1>2, <2>4, LogToAdiRecords DEF TimeoutQso
    <3>2. qsoState # "idle" /\ Stage[qsoState] \in {"agreed", "closing"}
      BY <2>4
    <3>3. Band!Record
      BY <3>1, <3>2 DEF Band!Record
    <3>4. Band!Conclude
      BY <2>1, <3>2, <3>3 DEF Band!Conclude
    <3> QED  BY <3>4 DEF Band!Next
  <2> QED  BY <2>2, <2>3, <2>4 DEF QsoStates
<1>3. CASE HandleTx /\ qsoState # "idle" /\ currentQSO.ft8slot = tickMsg
  <2>1. /\ tx_queue' = Append(tx_queue, [text |-> ReplyText[qsoState], to |-> currentQSO.src])
        /\ attempts' = attempts + 1
        /\ qsoState' = IF qsoState = "reply73" THEN "idle" ELSE qsoState
        /\ UNCHANGED <<currentQSO, adi>>
    BY <1>3 DEF HandleTx, QueueTx
  <2>2. attempts < MAXQSOLIFETIME + 1
    <3>1. attempts' <= MAXQSOLIFETIME + 1
      BY DEF Budget, Extra
    <3> QED  BY <2>1, <3>1
  <2>3. ReplyText[qsoState] \in Band!Words[Stage[qsoState]]
    BY <1>3 DEF ReplyText, Band!Words, QsoStates
  <2>4. Band!Call
    BY <1>3, <2>1, <2>2, <2>3 DEF Band!Call, Band!Over, Logged, QsoStates
  <2> QED  BY <2>4 DEF Band!Next
<1> QED  BY <1>1, <1>2, <1>3 DEF UpdateQsoMachine, HandleTx

(* In whatever order messages, ticks, commands and the transmit thread     *)
(* come, the QSO thread keeps the promise of Contact: one station at a     *)
(* time, a bounded number of letters, each of its stage, and a record only *)
(* of a contact that has come far enough.                                  *)
THEOREM ImplementsContact == Spec => ContactKept
<1>1. Init => Band!Init
  BY QsoAssumption DEF Init, Band!Init, Stage, Logged
<1>2. IInv /\ IInv' /\ [Next]_vars => [Band!Next]_(Band!vars)
  <2> SUFFICES ASSUME IInv, IInv', [Next]_vars
               PROVE  Band!Next \/ UNCHANGED Band!vars
    OBVIOUS
  <2>1. CASE DrainMessage
    <3> DEFINE m == Head(qsoh_queue)
    <3>1. m \in Messages /\ UNCHANGED tx_queue
      BY <2>1, HeadIsMessage DEF DrainMessage, IInv, TypeInv
    <3>2. CASE AddCQ(m) \/ AddQso(m)
      <4> HIDE DEF m
      <4> QED  BY <3>1, <3>2, MessageContact DEF IInv
    <3>3. CASE UNCHANGED machine
      BY <3>1, <3>3 DEF machine, Band!vars, Band!contact, Logged
    <3> QED  BY <2>1, <3>2, <3>3 DEF DrainMessage
  <2>2. CASE UpdateQsoMachine
    BY <2>2, UpdateContact
  <2>3. CASE QueryCQ
    <3>1. UNCHANGED <<qsoState, currentQSO, adi, attempts>>
      BY <2>3 DEF QueryCQ, machine
    <3>2. CASE QueueTx("CQ", NoCall)
      <4>1. Band!CallCQ
        BY <3>1, <3>2 DEF Band!CallCQ, Band!contact, QueueTx, Logged
      <4> QED  BY <4>1 DEF Band!Next
    <3>3. CASE UNCHANGED tx_queue
      BY <3>1, <3>3 DEF Band!vars, Band!contact, Logged
    <3> QED  BY <2>3, <3>2, <3>3 DEF QueryCQ
  <2>4. CASE TakeLetter
    <3>1. Band!Transmit
      BY <2>4 DEF TakeLetter, machine, Band!Transmit, Band!contact, Logged
    <3> QED  BY <3>1 DEF Band!Next
  <2>5. CASE PopTicks \/ AbortWait \/ DrainEnd
    BY <2>5 DEF PopTicks, AbortWait, DrainEnd, machine, Band!vars, Band!contact, Logged
  <2>6. CASE DecodeMessage \/ DecodeTick \/ MissSlot \/ Operator \/ UNCHANGED vars
    BY <2>6 DEF DecodeMessage, DecodeTick, MissSlot, Operator, vars, machine,
                Band!vars, Band!contact, Logged
  <2> QED
    BY <2>1, <2>2, <2>3, <2>4, <2>5, <2>6 DEF Next, QSOHandler
<1> QED  BY <1>1, <1>2, Invariance, PTL DEF Spec, ContactKept, Band!Spec

-----------------------------------------------------------------------------
(* What holds while the operator leaves the active slot alone *)

SlotKept == activeSlot' = activeSlot

(* What handleTx() returned is still true when queryCQ() uses it.          *)
BusyIsTrue ==
    pc = "query" /\ ~txBusy /\ tickMsg = activeSlot => qsoState = "idle"

(* No other thread ends or begins a contact between the two readings. *)
LEMMA BusyStep == BusyIsTrue /\ [Next]_vars /\ [SlotKept]_vars => BusyIsTrue'
<1> SUFFICES ASSUME BusyIsTrue, [Next]_vars, [SlotKept]_vars
             PROVE  BusyIsTrue'
  OBVIOUS
<1>1. activeSlot' = activeSlot
  BY DEF SlotKept, vars, switches
<1>2. CASE UpdateQsoMachine
  <2>1. tickMsg' = tickMsg
    BY <1>2 DEF UpdateQsoMachine
  <2>2. CASE TimeoutQso
    BY <2>2 DEF TimeoutQso, ResetQsoState, BusyIsTrue
  <2>3. CASE HandleTx
    <3>1. txBusy' <=> (qsoState' # "idle")
      BY <2>3, Zenon DEF HandleTx, machine
    <3> QED  BY <3>1 DEF BusyIsTrue
  <2>4. CASE tickMsg # activeSlot
    BY <1>1, <2>1, <2>4 DEF BusyIsTrue
  <2> QED  BY <1>2, <2>2, <2>3, <2>4 DEF UpdateQsoMachine
<1>3. CASE PopTicks \/ AbortWait \/ DrainMessage \/ DrainEnd \/ QueryCQ
  BY <1>3 DEF PopTicks, AbortWait, DrainMessage, DrainEnd, QueryCQ, BusyIsTrue
<1>4. CASE OtherThreads \/ UNCHANGED vars
  <2>1. UNCHANGED <<pc, qsoState, txBusy, tickMsg>>
    BY <1>4 DEF OtherThreads, DecodeMessage, DecodeTick, MissSlot, TakeLetter,
                Operator, vars, machine
  <2> QED  BY <1>1, <2>1 DEF BusyIsTrue
<1> QED
  BY <1>2, <1>3, <1>4 DEF Next, QSOHandler, OtherThreads

(* With the active slot left alone, CQ is never called during a QSO, for   *)
(* all other commands, messages and delays, the iteration without a tick   *)
(* at exit included: what handleTx() returned for the slot of the tick     *)
(* still holds when queryCQ() compares the tick with the slot again.       *)
THEOREM NoCqDuringQso ==
    Spec /\ [][SlotKept]_vars => CqOnlyWhenIdle
<1>1. Init => BusyIsTrue
  BY DEF Init, BusyIsTrue
<1>2. TypeOK /\ BusyIsTrue /\ [Next]_vars
        => [pc = "query" /\ Len(tx_queue') > Len(tx_queue)
               => qsoState = "idle"]_vars
  <2> SUFFICES ASSUME TypeOK, BusyIsTrue, [Next]_vars, pc = "query",
                      Len(tx_queue') > Len(tx_queue)
               PROVE  qsoState = "idle"
    OBVIOUS
  <2> DEFINE before == Len(tx_queue)
  <2>0. before \in Nat
    BY DEF TypeOK
  <2>1. CASE QueryCQ
    <3>1. ~(UNCHANGED tx_queue)
      BY <2>0
    <3> QED  BY <2>1, <3>1 DEF QueryCQ, BusyIsTrue
  <2>2. CASE TakeLetter
    BY <2>2 DEF TakeLetter, TypeOK
  <2>3. CASE UNCHANGED tx_queue
    BY <2>0, <2>3
  <2> QED
    BY <2>1, <2>2, <2>3 DEF Next, QSOHandler, PopTicks, AbortWait,
       DrainMessage, DrainEnd, UpdateQsoMachine, DecodeMessage, DecodeTick,
       MissSlot, Operator, vars
<1> QED
  BY <1>1, <1>2, BusyStep, TypeCorrect, PTL DEF Spec, CqOnlyWhenIdle

(* Whose tick the messages waiting belong to: the one in tick_queue, or    *)
(* else the one the decoder will send.                                     *)
ComingSlot == IF tick_queue = <<>> THEN decSlot
              ELSE tick_queue[Len(tick_queue)]

(* Prompt decoding keeps the slots apart: the messages waiting are of one  *)
(* slot, one per station, and the tick popped before they are drained is   *)
(* that of their slot.  Only the iteration at exit has no tick.            *)
OneSlotAtATime ==
    /\ pc # "done" => \A i, j \in 1 .. Len(qsoh_queue) :
          qsoh_queue[i].src = qsoh_queue[j].src => i = j
    /\ pc = "wait" => \A i \in 1 .. Len(qsoh_queue) :
          /\ qsoh_queue[i].ft8slot = ComingSlot
          /\ tick_queue = <<>> => qsoh_queue[i].src \in heard
    /\ pc = "drain" /\ ~qsoExit => \A i \in 1 .. Len(qsoh_queue) :
          qsoh_queue[i].ft8slot = tickMsg
    /\ pc \in {"update", "query"} => qsoh_queue = <<>>

(* A contact is worked in the active slot.                                 *)
InActiveSlot == qsoState # "idle" => currentQSO.ft8slot = activeSlot

(* RR73 is answered in the iteration that drained it: nothing more of the  *)
(* peer waits, and the tick is that of the slot in which 73 goes out.      *)
ClosedAtOnce ==
    qsoState = "reply73" =>
        /\ pc # "wait"
        /\ pc = "drain" => \A i \in 1 .. Len(qsoh_queue) :
                              qsoh_queue[i].src # currentQSO.src
        /\ pc \in {"drain", "update"} => qsoExit \/ tickMsg = activeSlot
        /\ pc = "query" => qsoExit

PromptInv ==
    /\ TypeInv
    /\ OneSlotAtATime
    /\ InActiveSlot
    /\ ClosedAtOnce
    /\ NoReworking

(* The entries of a queue once its first one is taken.                     *)
LEMMA TailEntries ==
    ASSUME TypeOK, qsoh_queue # <<>>, qsoh_queue' = Tail(qsoh_queue)
    PROVE  /\ Len(qsoh_queue') = Len(qsoh_queue) - 1
           /\ \A i \in 1 .. Len(qsoh_queue') :
                 /\ i + 1 \in 1 .. Len(qsoh_queue)
                 /\ qsoh_queue'[i] = qsoh_queue[i + 1]
           /\ Head(qsoh_queue) = qsoh_queue[1]
           /\ 1 \in 1 .. Len(qsoh_queue)
<1>1. qsoh_queue \in Seq(Messages) /\ Len(qsoh_queue) \in Nat \ {0}
  BY DEF TypeOK
<1> QED  BY <1>1

(* Messages of two slots never wait together. *)
LEMMA OneSlotStep ==
    ASSUME Timely, TypeOK, OneSlotAtATime, [Next]_vars
    PROVE  OneSlotAtATime'
<1> USE DEF OneSlotAtATime
<1>1. CASE PopTicks
  <2>1. tick_queue # <<>> /\ tickMsg' = ComingSlot /\ pc = "wait"
        /\ pc' = "drain" /\ UNCHANGED qsoh_queue
    BY <1>1 DEF PopTicks, ComingSlot
  <2> QED  BY <2>1
<1>2. CASE AbortWait
  BY <1>2 DEF AbortWait, switches
<1>3. CASE DrainMessage
  <2>1. pc = "drain" /\ UNCHANGED <<pc, tickMsg, qsoExit>>
        /\ qsoh_queue # <<>> /\ qsoh_queue' = Tail(qsoh_queue)
    BY <1>3 DEF DrainMessage, switches
  <2>2. /\ Len(qsoh_queue') \in Nat
        /\ \A i \in 1 .. Len(qsoh_queue') :
              /\ i + 1 \in 1 .. Len(qsoh_queue)
              /\ qsoh_queue'[i] = qsoh_queue[i + 1]
    BY <2>1, TailEntries DEF TypeOK
  <2>3. ASSUME NEW i \in 1 .. Len(qsoh_queue'), NEW j \in 1 .. Len(qsoh_queue'),
               qsoh_queue'[i].src = qsoh_queue'[j].src
        PROVE  i = j
    <3>1. i + 1 = j + 1
      BY <2>1, <2>2, <2>3
    <3> QED  BY <3>1
  <2>4. ~qsoExit => \A i \in 1 .. Len(qsoh_queue') : qsoh_queue'[i].ft8slot = tickMsg
    BY <2>1, <2>2
  <2> QED  BY <2>1, <2>3, <2>4
<1>4. CASE DrainEnd \/ UpdateQsoMachine
  BY <1>4 DEF DrainEnd, UpdateQsoMachine
<1>5. CASE QueryCQ
  BY <1>5 DEF QueryCQ
<1>6. CASE DecodeMessage
  <2>1. pc \in {"wait", "done"} /\ tick_queue = <<>>
        /\ UNCHANGED <<pc, tick_queue, decSlot>>
    BY <1>6 DEF DecodeMessage, DecoderMayRun
  <2>2. PICK m \in Messages : /\ m.src \notin heard
                              /\ m.ft8slot = decSlot
                              /\ qsoh_queue' = Append(qsoh_queue, m)
                              /\ heard' = heard \cup {m.src}
    BY <1>6 DEF DecodeMessage
  <2> SUFFICES ASSUME pc = "wait" PROVE OneSlotAtATime'
    BY <2>1
  <2>3. /\ Len(qsoh_queue) \in Nat
        /\ Len(qsoh_queue') = Len(qsoh_queue) + 1
        /\ qsoh_queue'[Len(qsoh_queue) + 1] = m
        /\ \A i \in 1 .. Len(qsoh_queue) : qsoh_queue'[i] = qsoh_queue[i]
    BY <2>2 DEF TypeOK
  <2>4. \A i \in 1 .. Len(qsoh_queue') :
           i \in 1 .. Len(qsoh_queue) \/ i = Len(qsoh_queue) + 1
    BY <2>3
  <2>5. \A i \in 1 .. Len(qsoh_queue) : qsoh_queue[i].src \in heard
    BY <2>1
  <2>6. \A i, j \in 1 .. Len(qsoh_queue') :
           qsoh_queue'[i].src = qsoh_queue'[j].src => i = j
    BY <2>2, <2>3, <2>4, <2>5
  <2>7. ComingSlot' = decSlot /\ ComingSlot = decSlot
    BY <2>1 DEF ComingSlot
  <2>8. \A i \in 1 .. Len(qsoh_queue') :
           qsoh_queue'[i].ft8slot = decSlot /\ qsoh_queue'[i].src \in heard'
    BY <2>2, <2>3, <2>4, <2>5, <2>7
  <2> QED  BY <2>1, <2>6, <2>7, <2>8
<1>7. CASE DecodeTick
  <2>1. /\ pc \in {"wait", "done"} /\ tick_queue = <<>>
        /\ tick_queue' = <<decSlot>>
        /\ UNCHANGED <<pc, qsoh_queue>>
    BY <1>7 DEF DecodeTick, DecoderMayRun
  <2>2. ComingSlot' = ComingSlot /\ tick_queue' # <<>>
    BY <2>1 DEF ComingSlot
  <2> QED  BY <2>1, <2>2
<1>8. CASE MissSlot
  <2>1. heard = {} /\ UNCHANGED <<pc, tickMsg, qsoExit, tick_queue, qsoh_queue>>
    BY <1>8 DEF MissSlot, switches
  <2>2. tick_queue # <<>> => ComingSlot' = ComingSlot
    BY <2>1 DEF ComingSlot
  <2>3. pc = "wait" /\ tick_queue = <<>> => ~ \E i \in 1 .. Len(qsoh_queue) : TRUE
    BY <2>1
  <2> QED  BY <2>1, <2>2, <2>3
<1>9. CASE TakeLetter
  BY <1>9 DEF TakeLetter, switches, decoder, ComingSlot
<1>10. CASE Operator
  <2>1. qsoExit => qsoExit'
    BY <1>10, Zenon DEF Operator, SetAutoCQ, SetAutoCQReply, SetAutoQSO,
                        SetActiveSlot, CloseQsoHandler
  <2> QED  BY <1>10, <2>1 DEF Operator, decoder, ComingSlot
<1>11. CASE UNCHANGED vars
  BY <1>11 DEF vars, switches, decoder, ComingSlot
<1> QED
  BY <1>1, <1>2, <1>3, <1>4, <1>5, <1>6, <1>7, <1>8, <1>9, <1>10, <1>11
  DEF Next, QSOHandler

(* A message drained: only RR73 of the peer, in the active slot, closes a  *)
(* contact, and no other message of the peer is behind it; a contact that  *)
(* goes on is with a station that was not in the table when it began.      *)
LEMMA MessageWorks ==
    ASSUME PromptInv, SlotKept, DrainMessage
    PROVE  InActiveSlot' /\ ClosedAtOnce' /\ NoReworking'
<1> DEFINE m == Head(qsoh_queue)
<1> USE DEF PromptInv, TypeInv
<1>1. /\ pc = "drain" /\ qsoh_queue # <<>> /\ qsoh_queue' = Tail(qsoh_queue)
      /\ UNCHANGED <<pc, tickMsg, qsoExit, activeSlot>>
  BY DEF DrainMessage, switches
<1>2. m \in Messages
  BY <1>1, HeadIsMessage
<1>3. /\ m = qsoh_queue[1] /\ 1 \in 1 .. Len(qsoh_queue)
      /\ \A i \in 1 .. Len(qsoh_queue') :
            /\ i + 1 \in 1 .. Len(qsoh_queue)
            /\ qsoh_queue'[i] = qsoh_queue[i + 1]
  BY <1>1, TailEntries
<1>4. \A i \in 1 .. Len(qsoh_queue') : qsoh_queue'[i].src # m.src
  <2> SUFFICES ASSUME NEW i \in 1 .. Len(qsoh_queue'),
                      qsoh_queue'[i].src = m.src
               PROVE  FALSE
    OBVIOUS
  <2>1. i + 1 = 1
    BY <1>1, <1>3 DEF OneSlotAtATime
  <2>2. i \in Nat \ {0}
    BY <1>1 DEF TypeOK
  <2> QED  BY <2>1, <2>2
<1>5. qsoState = "reply73" => m.src # currentQSO.src
  BY <1>1, <1>3 DEF ClosedAtOnce
<1>6. ~qsoExit => m.ft8slot = tickMsg
  BY <1>1, <1>3 DEF OneSlotAtATime
<1>7. CASE UNCHANGED machine
  <2>1. ClosedAtOnce'
    BY <1>1, <1>3, <1>7 DEF ClosedAtOnce, machine
  <2> QED
    BY <1>1, <1>7, <2>1 DEF InActiveSlot, NoReworking, CheckPeer, machine
<1>8. CASE AddCQ(m) \/ AddQso(m)
  <2> HIDE DEF m
  <2>1. CASE AddCQ(m) /\ ~UNCHANGED machine
    <3>1. /\ qsoState' = "replyLoc" /\ UNCHANGED peers /\ ~CheckPeer(m.src)
          /\ currentQSO' = [src |-> m.src, ft8slot |-> m.ft8slot]
          /\ m.ft8slot = activeSlot
      BY <2>1 DEF AddCQ
    <3> QED
      BY <1>1, <3>1 DEF InActiveSlot, ClosedAtOnce, NoReworking, CheckPeer
  <2>2. CASE AddQso(m) /\ StartQso(m) /\ m.ft8slot = activeSlot
    <3>1. /\ qsoState' \in {"replySig", "idle"} /\ UNCHANGED peers
          /\ ~CheckPeer(m.src)
          /\ currentQSO' = [src |-> m.src, ft8slot |-> m.ft8slot]
      BY <2>2 DEF StartQso
    <3> QED
      BY <1>1, <2>2, <3>1 DEF InActiveSlot, ClosedAtOnce, NoReworking, CheckPeer
  <2>3. CASE UpdateQso(m) /\ m.ft8slot = activeSlot
    <3>1. m.src = currentQSO.src /\ qsoState # "idle" /\ qsoState # "reply73"
      BY <1>5, <2>3 DEF UpdateQso
    <3>2. ~CheckPeer(currentQSO.src)
      BY <3>1 DEF TypeOK, QsoStates, NoReworking
    <3>3. CASE ReceiveLoc \/ ReceiveSig
      <4>1. qsoState' \in {"replySig", "replyRR73"} /\ UNCHANGED <<currentQSO, peers>>
        BY <3>3 DEF ReceiveLoc, ReceiveSig
      <4> QED
        BY <1>1, <3>1, <3>2, <4>1 DEF InActiveSlot, ClosedAtOnce, NoReworking, CheckPeer
    <3>4. CASE ReceiveRR73(m.src)
      <4>1. qsoState' = "reply73" /\ UNCHANGED currentQSO
        BY <3>4 DEF ReceiveRR73
      <4>2. ClosedAtOnce'
        BY <1>1, <1>4, <1>6, <2>3, <3>1, <4>1 DEF ClosedAtOnce
      <4> QED
        BY <1>1, <3>1, <4>1, <4>2 DEF InActiveSlot, NoReworking
    <3>5. CASE Receive73
      BY <3>5 DEF Receive73, ResetQsoState, InActiveSlot, ClosedAtOnce, NoReworking
    <3> QED  BY <2>3, <3>3, <3>4, <3>5 DEF UpdateQso
  <2> QED
    BY <1>7, <1>8, <2>1, <2>2, <2>3 DEF AddQso, RefuseQso
<1> QED  BY <1>7, <1>8 DEF DrainMessage

(* An RR73 is answered, and its sender not called again. *)
LEMMA PromptStep ==
    Timely /\ PromptInv /\ [Next]_vars /\ [SlotKept]_vars => PromptInv'
<1> SUFFICES ASSUME Timely, PromptInv, [Next]_vars, [SlotKept]_vars
             PROVE  PromptInv'
  OBVIOUS
<1> USE DEF PromptInv
<1>1. TypeInv' /\ OneSlotAtATime'
  BY TypeStep, OneSlotStep DEF TypeInv
<1>2. activeSlot' = activeSlot
  BY DEF SlotKept, vars, switches
<1> SUFFICES InActiveSlot' /\ ClosedAtOnce' /\ NoReworking'
  BY <1>1
<1>3. CASE DrainMessage
  BY <1>2, <1>3, MessageWorks DEF SlotKept
<1>4. CASE UpdateQsoMachine
  <2>1. pc = "update" /\ pc' = "query" /\ qsoExit' = qsoExit
    BY <1>4 DEF UpdateQsoMachine, switches
  <2>2. CASE TimeoutQso
    BY <2>2 DEF TimeoutQso, ResetQsoState, InActiveSlot, ClosedAtOnce, NoReworking
  <2>3. CASE tickMsg = activeSlot /\ HandleTx
    <3>1. UNCHANGED <<currentQSO, peers>>
      BY <2>3 DEF HandleTx, machine
    <3>2. qsoState = "reply73" => qsoState' = "idle"
      BY <2>3 DEF HandleTx, InActiveSlot
    <3>3. qsoState # "reply73" => qsoState' = qsoState
      BY <2>3 DEF HandleTx, machine
    <3> QED
      BY <1>2, <3>1, <3>2, <3>3 DEF InActiveSlot, ClosedAtOnce, NoReworking, CheckPeer
  <2>4. CASE tickMsg # activeSlot /\ UNCHANGED machine
    BY <1>2, <2>1, <2>4 DEF InActiveSlot, ClosedAtOnce, NoReworking, CheckPeer, machine
  <2> QED  BY <1>4, <2>2, <2>3, <2>4 DEF UpdateQsoMachine
<1>5. CASE PopTicks
  <2>1. pc = "wait" /\ UNCHANGED <<qsoState, currentQSO, peers>>
    BY <1>5 DEF PopTicks
  <2> QED  BY <1>2, <2>1 DEF InActiveSlot, ClosedAtOnce, NoReworking, CheckPeer
<1>6. CASE AbortWait
  <2>1. pc = "wait" /\ UNCHANGED <<qsoState, currentQSO, peers>>
    BY <1>6 DEF AbortWait, machine
  <2> QED  BY <1>2, <2>1 DEF InActiveSlot, ClosedAtOnce, NoReworking, CheckPeer
<1>7. CASE DrainEnd
  <2>1. pc = "drain" /\ pc' = "update"
        /\ UNCHANGED <<qsoState, currentQSO, peers, tickMsg, qsoExit>>
    BY <1>7 DEF DrainEnd, machine, switches
  <2> QED  BY <1>2, <2>1 DEF InActiveSlot, ClosedAtOnce, NoReworking, CheckPeer
<1>8. CASE QueryCQ
  <2>1. pc = "query" /\ pc' \in {"wait", "done"} /\ (qsoExit => pc' = "done")
        /\ UNCHANGED <<qsoState, currentQSO, peers>>
    BY <1>8 DEF QueryCQ, machine
  <2> QED  BY <1>2, <2>1 DEF InActiveSlot, ClosedAtOnce, NoReworking, CheckPeer
<1>9. CASE OtherThreads \/ UNCHANGED vars
  <2>1. UNCHANGED <<pc, qsoState, currentQSO, peers, tickMsg>>
    BY <1>9 DEF OtherThreads, DecodeMessage, DecodeTick, MissSlot, TakeLetter,
                Operator, vars, machine
  <2>2. qsoExit => qsoExit'
    BY <1>9, Zenon DEF OtherThreads, DecodeMessage, DecodeTick, MissSlot,
       TakeLetter, Operator, SetAutoCQ, SetAutoCQReply, SetAutoQSO,
       SetActiveSlot, CloseQsoHandler, vars, switches
  <2>3. pc = "drain" => UNCHANGED qsoh_queue
    BY <1>9 DEF OtherThreads, DecodeMessage, DecodeTick, MissSlot, TakeLetter,
                Operator, vars, DecoderMayRun
  <2> QED
    BY <1>2, <2>1, <2>2, <2>3 DEF InActiveSlot, ClosedAtOnce, NoReworking, CheckPeer
<1> QED
  BY <1>3, <1>4, <1>5, <1>6, <1>7, <1>8, <1>9 DEF Next, QSOHandler, OtherThreads

(* If each iteration ends before the next slot is decoded and the active   *)
(* slot is left alone, a station of the worked-before table is never       *)
(* called, although addQso() consults the table only when a contact        *)
(* begins: the 73 that closes a contact goes out in the iteration that     *)
(* drained its RR73, before the peer can be heard again.                   *)
THEOREM WorkedAreLeftAlone ==
    ASSUME Timely
    PROVE  Spec /\ [][SlotKept]_vars => []NoReworking
<1>1. Init => PromptInv
  BY TypeInit DEF Init, PromptInv, OneSlotAtATime, InActiveSlot, ClosedAtOnce,
     NoReworking
<1>2. PromptInv => NoReworking
  BY DEF PromptInv
<1>3. PromptInv /\ [Next]_vars /\ [SlotKept]_vars => PromptInv'
  BY PromptStep
<1> QED
  BY <1>1, <1>2, <1>3, PTL DEF Spec
=============================================================================
