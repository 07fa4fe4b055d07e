----------------------------- MODULE QsoHandler -----------------------------
(***************************************************************************)
(* The QSO thread of the receiver (src/qsoHandler.cpp): the automatic      *)
(* operator that answers CQs, calls CQ and drives a contact (QSO) through  *)
(* locator, report, RR73 and 73.                                           *)
(*                                                                         *)
(* Threads around it:                                                      *)
(*   - the decoder thread pushes what it heard in a slot on qsoh_queue and *)
(*     then one tick on tick_queue (decode(), src/rtlsdr_ft8d.cpp);        *)
(*   - the user-interface thread flips the automation switches, the active *)
(*     slot and the exit flag at any moment, with no lock;                 *)
(*   - the transmit thread takes the letters off tx_queue.                 *)
(*                                                                         *)
(* ft8time and ft8tick only ever appear compared with each other, so the   *)
(* model keeps their difference `remaining`; queryRepeat - ft8tick is kept *)
(* as `cqWait`, cut off at zero.  Frequencies, SNR and times of day, and   *)
(* the queues that only feed the screen, are left out.                     *)
(***************************************************************************)
EXTENDS Integers, Sequences, FiniteSets

CONSTANTS
    Calls,           \* callsigns of the stations that can be heard
    NoCall,          \* the empty callsign, currentQSO.src[0] = 0
    Hash,            \* hashCallId(): callsign -> 32-bit hash, may collide
    MAXQSOLIFETIME,  \* ticks a QSO may live
    QUERYCQDELAY,    \* ticks between two CQ calls
    MAXQSOPEERS,     \* size of the worked-before table
    AdiWritable,     \* fopen() of the ADIF file succeeds
    Commands,        \* commands the operator may type
    Heard,           \* bound: <<destination, text>> of the messages decoded
    Timely,          \* the thread ends an iteration before the next decode
    MissSlots,       \* the decoder may miss slots altogether
    MsgsPerSlot,     \* bound: messages decoded in one slot
    TickBound,       \* bound: ticks waiting in tick_queue
    TxBound,         \* bound: letters waiting in tx_queue when a slot ends
    LogCap           \* bound: ADIF records counted per station

Slots == {"even", "odd"}

OtherSlot(s) == IF s = "even" THEN "odd" ELSE "even"

QsoStates == {"idle", "replyLoc", "replySig", "replyRR73", "reply73"}

(* Message texts as far as parseMsg() tells them apart: a grid locator, a  *)
(* report (-07), a report with R (R-07), digits that are not 73, RR73, 73, *)
(* the four-letter "RRR;" style acknowledgements and any other text.       *)
Texts == {"grid", "report", "rogerReport", "digits", "RR73", "73", "other"}

ParseMsg(text) ==
    CASE text = "73"                                 -> "s73Msg"
      [] text \in {"digits", "report", "rogerReport"} -> "sigMsg"
      [] text = "RR73"                               -> "RR73Msg"
      [] OTHER                                       -> "locMsg"

Dests == {"CQ", "us", "other"}

Messages == [dest : Dests, src : Calls,
             text : Texts, ft8slot : Slots]

(* What handleTx() sends in each state of the QSO. *)
ReplyText == [replyLoc |-> "LOC", replySig |-> "SIG",
              replyRR73 |-> "RR73", reply73 |-> "73"]

CallsOrNone == Calls \cup {NoCall}

Letters == [text : {"LOC", "SIG", "RR73", "73", "CQ"}, to : CallsOrNone]

AllCommands == {"AUTOCQ ON", "AUTOCQ OFF", "AUTOREPLY ON", "AUTOREPLY OFF",
                "AUTOQSO ON", "AUTOQSO OFF", "SLOT ODD", "SLOT EVEN", "QUIT"}

ASSUME QsoAssumption ==
    /\ NoCall \notin Calls
    /\ Hash \in [Calls -> Nat]
    /\ MAXQSOLIFETIME \in Nat \ {0}
    /\ QUERYCQDELAY \in Nat
    /\ MAXQSOPEERS \in Nat \ {0}
    /\ AdiWritable \in BOOLEAN
    /\ Commands \subseteq AllCommands
    /\ Heard \subseteq Dests \X Texts
    /\ Timely \in BOOLEAN
    /\ MissSlots \in BOOLEAN
    /\ MsgsPerSlot \in Nat
    /\ TickBound \in Nat \ {0}
    /\ TxBound \in Nat
    /\ LogCap \in Nat \ {0}

VARIABLES
    pc,           \* where the QSO thread is: wait, drain, update, query, done
    qsoState,
    currentQSO,   \* the peer and the slot it transmits in
    remaining,    \* ft8time - ft8tick
    cqWait,       \* queryRepeat - ft8tick, at least 0
    txBusy,
    peers,        \* hashes of the stations worked, peers[0 .. peersIdx-1]
    adi,          \* ADIF records written per station, counted up to LogCap
    tickMsg,      \* slot carried by the last tick popped
    attempts,     \* letters queued for the QSO in progress (history)
    autoCq, autoCqReply, autoQSO, activeSlot, qsoExit,
    tick_queue, qsoh_queue, tx_queue,
    decSlot,      \* slot the decoder is working on
    heard         \* stations already decoded in that slot

machine  == <<qsoState, currentQSO, remaining, peers, adi, attempts>>
switches == <<autoCq, autoCqReply, autoQSO, activeSlot, qsoExit>>
decoder  == <<decSlot, heard>>
vars     == <<pc, machine, cqWait, txBusy, tickMsg, switches,
              tick_queue, qsoh_queue, tx_queue, decoder>>

Init ==
    /\ pc = "wait"
    /\ qsoState = "idle"
    /\ currentQSO = [src |-> NoCall, ft8slot |-> "odd"]
    /\ remaining = 0
    /\ cqWait = 0
    /\ txBusy = FALSE
    /\ peers = <<>>
    /\ adi = [c \in Calls |-> 0]
    /\ tickMsg = "garbage"
    /\ attempts = 0
    /\ autoCq = FALSE /\ autoCqReply = FALSE /\ autoQSO = FALSE
    /\ activeSlot = "even"
    /\ qsoExit = FALSE
    /\ tick_queue = <<>> /\ qsoh_queue = <<>> /\ tx_queue = <<>>
    /\ decSlot \in Slots
    /\ heard = {}

-----------------------------------------------------------------------------
(* Helpers of the state machine *)

CheckPeer(call) == \E i \in 1 .. Len(peers) : peers[i] = Hash[call]

(* Mutation: the callsign is stored where its hash belongs. *)
AddPeer_Unhashed(call) ==
    peers' = IF Len(peers) + 1 >= MAXQSOPEERS THEN <<>>
             ELSE Append(peers, call)

(* The table restarts from empty when its last entry is filled. *)
AddPeer(call) ==
    peers' = IF CheckPeer(call) THEN peers
             ELSE IF Len(peers) + 1 >= MAXQSOPEERS THEN <<>>
             ELSE Append(peers, Hash[call])

LogToAdi(call) ==
    adi' = IF AdiWritable /\ adi[call] < LogCap
           THEN [adi EXCEPT ![call] = @ + 1] ELSE adi

ResetQsoState ==
    /\ qsoState' = "idle"
    /\ currentQSO' = [src |-> NoCall, ft8slot |-> "odd"]
    /\ remaining' = 0
    /\ attempts' = 0

QueueTx(text, to) == tx_queue' = Append(tx_queue, [text |-> text, to |-> to])

-----------------------------------------------------------------------------
(* Messages taken from qsoh_queue *)

(* Mutation: the worked-before table is not consulted. *)
AddCQ_Again(m) ==
    IF autoCqReply /\ qsoState = "idle" /\ m.ft8slot = activeSlot
    THEN /\ qsoState' = "replyLoc"
         /\ currentQSO' = [src |-> m.src, ft8slot |-> m.ft8slot]
         /\ remaining' = MAXQSOLIFETIME
         /\ attempts' = 0
         /\ UNCHANGED <<peers, adi>>
    ELSE UNCHANGED machine

(* A CQ from somebody else. *)
AddCQ(m) ==
    IF /\ autoCqReply
       /\ qsoState = "idle"
       /\ m.ft8slot = activeSlot
       /\ ~CheckPeer(m.src)
    THEN /\ qsoState' = "replyLoc"
         /\ currentQSO' = [src |-> m.src, ft8slot |-> m.ft8slot]
         /\ remaining' = MAXQSOLIFETIME
         /\ attempts' = 0
         /\ UNCHANGED <<peers, adi>>
    ELSE UNCHANGED machine

(* Mutation: a new caller takes over the QSO in progress. *)
StartQso_TakeOver(m) ==
    /\ ~CheckPeer(m.src)
    /\ currentQSO' = [src |-> m.src, ft8slot |-> m.ft8slot]
    /\ remaining' = MAXQSOLIFETIME
    /\ attempts' = 0
    /\ qsoState' = "replySig"
    /\ UNCHANGED <<peers, adi>>

(* addQso() when idle: the sender becomes the peer even when its message   *)
(* (RR73 or 73) does not start a QSO.                                      *)
StartQso(m) ==
    /\ qsoState = "idle"
    /\ ~CheckPeer(m.src)
    /\ currentQSO' = [src |-> m.src, ft8slot |-> m.ft8slot]
    /\ remaining' = MAXQSOLIFETIME
    /\ attempts' = 0
    /\ qsoState' = IF ParseMsg(m.text) \in {"locMsg", "sigMsg"}
                   THEN "replySig" ELSE "idle"
    /\ UNCHANGED <<peers, adi>>

(* addQso() with a QSO in progress, the message comes from the peer. *)
ReceiveLoc ==
    /\ qsoState' = "replySig"
    /\ UNCHANGED <<currentQSO, remaining, peers, adi, attempts>>

(* Mutation: every report gives the QSO a new lease of life. *)
ReceiveSig_NewLease ==
    /\ qsoState' = IF qsoState = "replySig" THEN "replyRR73" ELSE "replySig"
    /\ remaining' = MAXQSOLIFETIME
    /\ UNCHANGED <<currentQSO, peers, adi, attempts>>

(* Mutation: a report never brings the exchange forward. *)
ReceiveSig_Stuck ==
    /\ qsoState' = "replySig"
    /\ UNCHANGED <<currentQSO, remaining, peers, adi, attempts>>

ReceiveSig ==
    /\ qsoState' = IF qsoState = "replySig" THEN "replyRR73" ELSE "replySig"
    /\ UNCHANGED <<currentQSO, remaining, peers, adi, attempts>>

(* Mutation: the QSO is not logged on RR73. *)
ReceiveRR73_NoLog(call) ==
    /\ qsoState' = "reply73"
    /\ AddPeer(call)
    /\ UNCHANGED <<currentQSO, remaining, attempts, adi>>

(* Mutation: the peer is not remembered on RR73. *)
ReceiveRR73_Forget(call) ==
    /\ qsoState' = "reply73"
    /\ LogToAdi(currentQSO.src)
    /\ IF peers = <<>> THEN AddPeer(call) ELSE UNCHANGED peers
    /\ UNCHANGED <<currentQSO, remaining, attempts>>

ReceiveRR73(call) ==
    /\ qsoState' = "reply73"
    /\ LogToAdi(currentQSO.src)
    /\ AddPeer(call)
    /\ UNCHANGED <<currentQSO, remaining, attempts>>

Receive73 ==
    /\ ResetQsoState
    /\ UNCHANGED <<peers, adi>>

UpdateQso(m) ==
    /\ qsoState # "idle"
    /\ m.src = currentQSO.src
    /\ \/ ParseMsg(m.text) = "locMsg" /\ ReceiveLoc
       \/ ParseMsg(m.text) = "sigMsg" /\ ReceiveSig
       \/ ParseMsg(m.text) = "RR73Msg" /\ ReceiveRR73(m.src)
       \/ ParseMsg(m.text) = "s73Msg" /\ Receive73

(* addQso() returns without touching anything. *)
RefuseQso(m) ==
    /\ \/ ~autoQSO
       \/ m.ft8slot # activeSlot
       \/ qsoState = "idle" /\ CheckPeer(m.src)
       \/ qsoState # "idle" /\ m.src # currentQSO.src
    /\ UNCHANGED machine

AddQso(m) ==
    \/ RefuseQso(m)
    \/ /\ autoQSO
       /\ m.ft8slot = activeSlot
       /\ StartQso(m) \/ UpdateQso(m)

-----------------------------------------------------------------------------
(* The thread *)

(* All waiting ticks are consumed at once: a tick that arrives while they  *)
(* are being popped is a tick that arrived before.                         *)
PopTicks ==
    /\ pc = "wait"
    /\ tick_queue # <<>>
    /\ tickMsg' = tick_queue[Len(tick_queue)]
    /\ remaining' = remaining - Len(tick_queue)
    /\ cqWait' = IF cqWait > Len(tick_queue) THEN cqWait - Len(tick_queue)
                 ELSE 0
    /\ tick_queue' = <<>>
    /\ pc' = "drain"
    /\ UNCHANGED <<qsoState, currentQSO, peers, adi, attempts, txBusy,
                   switches, qsoh_queue, tx_queue, decoder>>

(* The exit flag ends the wait without a tick: tickMsg is a fresh local    *)
(* that nobody wrote, and the iteration goes on with it.                   *)
AbortWait ==
    /\ pc = "wait"
    /\ tick_queue = <<>>
    /\ qsoExit
    /\ tickMsg' \in Slots \cup {"garbage"}
    /\ pc' = "drain"
    /\ UNCHANGED <<machine, cqWait, txBusy, switches,
                   tick_queue, qsoh_queue, tx_queue, decoder>>

DrainMessage ==
    /\ pc = "drain"
    /\ qsoh_queue # <<>>
    /\ qsoh_queue' = Tail(qsoh_queue)
    /\ LET m == Head(qsoh_queue)
       IN  \/ m.dest = "CQ" /\ AddCQ(m)
           \/ m.dest = "us" /\ AddQso(m)
           \/ m.dest = "other" /\ UNCHANGED machine
    /\ UNCHANGED <<pc, cqWait, txBusy, tickMsg, switches,
                   tick_queue, tx_queue, decoder>>

DrainEnd ==
    /\ pc = "drain"
    /\ qsoh_queue = <<>>
    /\ pc' = "update"
    /\ UNCHANGED <<machine, cqWait, txBusy, tickMsg, switches,
                   tick_queue, qsoh_queue, tx_queue, decoder>>

(* Mutation: txBusy keeps the value of the QSO that timed out. *)
TimeoutQso_StillBusy ==
    /\ remaining <= 0
    /\ IF qsoState \in {"replyRR73", "reply73"}
       THEN LogToAdi(currentQSO.src) ELSE UNCHANGED adi
    /\ ResetQsoState
    /\ UNCHANGED <<peers, tx_queue, txBusy>>

(* Mutation: a report sent is reason enough to log. *)
TimeoutQso_LogSig ==
    /\ remaining <= 0
    /\ IF qsoState \in {"replySig", "replyRR73", "reply73"}
       THEN LogToAdi(currentQSO.src) ELSE UNCHANGED adi
    /\ ResetQsoState
    /\ txBusy' = FALSE
    /\ UNCHANGED <<peers, tx_queue>>

(* updateQsoMachine(): the QSO has outlived its time. *)
TimeoutQso ==
    /\ remaining <= 0
    /\ IF qsoState \in {"replyRR73", "reply73"}
       THEN LogToAdi(currentQSO.src) ELSE UNCHANGED adi
    /\ ResetQsoState
    /\ txBusy' = FALSE
    /\ UNCHANGED <<peers, tx_queue>>

(* handleTx(): the letter of the current state, in the slot of the QSO. *)
HandleTx ==
    IF qsoState # "idle" /\ currentQSO.ft8slot = tickMsg
    THEN /\ QueueTx(ReplyText[qsoState], currentQSO.src)
         /\ attempts' = attempts + 1
         /\ qsoState' = IF qsoState = "reply73" THEN "idle" ELSE qsoState
         /\ txBusy' = (qsoState' # "idle")
         /\ UNCHANGED <<currentQSO, remaining, peers, adi>>
    ELSE /\ txBusy' = (qsoState # "idle")
         /\ UNCHANGED <<machine, tx_queue>>

(* Mutation: ft8tick > ft8time instead of >=. *)
UpdateQsoMachine_OffByOne ==
    /\ pc = "update"
    /\ \/ remaining < 0 /\ TimeoutQso
       \/ remaining >= 0 /\ tickMsg = activeSlot /\ HandleTx
       \/ /\ remaining >= 0 /\ tickMsg # activeSlot
          /\ txBusy' = FALSE
          /\ UNCHANGED <<machine, tx_queue>>
    /\ pc' = "query"
    /\ UNCHANGED <<cqWait, tickMsg, switches, tick_queue, qsoh_queue, decoder>>

UpdateQsoMachine ==
    /\ pc = "update"
    /\ \/ TimeoutQso
       \/ remaining > 0 /\ tickMsg = activeSlot /\ HandleTx
       \/ /\ remaining > 0 /\ tickMsg # activeSlot
          /\ txBusy' = FALSE
          /\ UNCHANGED <<machine, tx_queue>>
    /\ pc' = "query"
    /\ UNCHANGED <<cqWait, tickMsg, switches, tick_queue, qsoh_queue, decoder>>

(* Mutation: CQ is called whether or not a QSO is being sent. *)
QueryCQ_Busy ==
    /\ pc = "query"
    /\ IF tickMsg = activeSlot /\ autoCq /\ cqWait = 0
       THEN /\ QueueTx("CQ", NoCall)
            /\ cqWait' = QUERYCQDELAY
       ELSE UNCHANGED <<cqWait, tx_queue>>
    /\ tickMsg' = "garbage"
    /\ pc' = IF qsoExit THEN "done" ELSE "wait"
    /\ UNCHANGED <<machine, txBusy, switches, tick_queue, qsoh_queue, decoder>>

(* queryCQ(), called by updateQsoMachine() after a second reading of the   *)
(* active slot; then tickMsg goes out of scope and the loop tests the exit *)
(* flag.                                                                   *)
QueryCQ ==
    /\ pc = "query"
    /\ IF ~txBusy /\ tickMsg = activeSlot /\ autoCq /\ cqWait = 0
       THEN /\ QueueTx("CQ", NoCall)
            /\ cqWait' = QUERYCQDELAY
       ELSE UNCHANGED <<cqWait, tx_queue>>
    /\ tickMsg' = "garbage"
    /\ pc' = IF qsoExit THEN "done" ELSE "wait"
    /\ UNCHANGED <<machine, txBusy, switches, tick_queue, qsoh_queue, decoder>>

QSOHandler == \/ PopTicks \/ AbortWait \/ DrainMessage \/ DrainEnd
              \/ UpdateQsoMachine \/ QueryCQ

-----------------------------------------------------------------------------
(* The other threads *)

DecoderMayRun == Timely => (pc \in {"wait", "done"} /\ tick_queue = <<>>)

(* decode() pushes one message; a station transmits once in a slot. *)
DecodeMessage ==
    /\ DecoderMayRun
    /\ Cardinality(heard) < MsgsPerSlot
    /\ \E m \in Messages :
          /\ m.src \notin heard
          /\ m.ft8slot = decSlot
          /\ <<m.dest, m.text>> \in Heard
          /\ qsoh_queue' = Append(qsoh_queue, m)
          /\ heard' = heard \cup {m.src}
    /\ UNCHANGED <<pc, machine, cqWait, txBusy, tickMsg, switches,
                   tick_queue, tx_queue, decSlot>>

(* The last statement of decode(); the next decode is one slot later. *)
DecodeTick ==
    /\ DecoderMayRun
    /\ Len(tick_queue) < TickBound
    /\ Len(tx_queue) <= TxBound
    /\ tick_queue' = Append(tick_queue, decSlot)
    /\ decSlot' = OtherSlot(decSlot)
    /\ heard' = {}
    /\ UNCHANGED <<pc, machine, cqWait, txBusy, tickMsg, switches,
                   qsoh_queue, tx_queue>>

(* The decoder was still busy when the slot ended: no decode, no tick. *)
MissSlot ==
    /\ MissSlots
    /\ heard = {}
    /\ decSlot' = OtherSlot(decSlot)
    /\ UNCHANGED <<pc, machine, cqWait, txBusy, tickMsg, switches,
                   tick_queue, qsoh_queue, tx_queue, heard>>

TakeLetter ==
    /\ tx_queue # <<>>
    /\ tx_queue' = Tail(tx_queue)
    /\ UNCHANGED <<pc, machine, cqWait, txBusy, tickMsg, switches,
                   tick_queue, qsoh_queue, decoder>>

SetAutoCQ ==
    /\ \/ "AUTOCQ ON" \in Commands /\ autoCq' = TRUE
       \/ "AUTOCQ OFF" \in Commands /\ autoCq' = FALSE
    /\ UNCHANGED <<autoCqReply, autoQSO, activeSlot, qsoExit>>

SetAutoCQReply ==
    /\ \/ "AUTOREPLY ON" \in Commands /\ autoCqReply' = TRUE
       \/ "AUTOREPLY OFF" \in Commands /\ autoCqReply' = FALSE
    /\ UNCHANGED <<autoCq, autoQSO, activeSlot, qsoExit>>

SetAutoQSO ==
    /\ \/ "AUTOQSO ON" \in Commands /\ autoQSO' = TRUE
       \/ "AUTOQSO OFF" \in Commands /\ autoQSO' = FALSE
    /\ UNCHANGED <<autoCq, autoCqReply, activeSlot, qsoExit>>

SetActiveSlot ==
    /\ \/ "SLOT ODD" \in Commands /\ activeSlot' = "odd"
       \/ "SLOT EVEN" \in Commands /\ activeSlot' = "even"
    /\ UNCHANGED <<autoCq, autoCqReply, autoQSO, qsoExit>>

CloseQsoHandler ==
    /\ "QUIT" \in Commands
    /\ qsoExit' = TRUE
    /\ UNCHANGED <<autoCq, autoCqReply, autoQSO, activeSlot>>

Operator ==
    /\ SetAutoCQ \/ SetAutoCQReply \/ SetAutoQSO \/ SetActiveSlot
          \/ CloseQsoHandler
    /\ UNCHANGED <<pc, machine, cqWait, txBusy, tickMsg,
                   tick_queue, qsoh_queue, tx_queue, decoder>>

Next == QSOHandler \/ DecodeMessage \/ DecodeTick \/ MissSlot
           \/ TakeLetter \/ Operator

Spec == Init /\ [][Next]_vars

(* The thread is scheduled, slots keep ending, and the transmit thread     *)
(* keeps sending.                                                          *)
Fairness == WF_vars(QSOHandler) /\ WF_vars(DecodeTick) /\ WF_vars(TakeLetter)

FairSpec == Spec /\ Fairness

-----------------------------------------------------------------------------
(* Properties *)

(* Every variable keeps to the values the code can store in it. *)
TypeOK ==
    /\ pc \in {"wait", "drain", "update", "query", "done"}
    /\ qsoState \in QsoStates
    /\ currentQSO \in [src : CallsOrNone, ft8slot : Slots]
    /\ remaining \in Int
    /\ cqWait \in Nat
    /\ txBusy \in BOOLEAN
    /\ peers \in Seq(Nat)
    /\ adi \in [Calls -> 0 .. LogCap]
    /\ tickMsg \in Slots \cup {"garbage"}
    /\ attempts \in Nat
    /\ autoCq \in BOOLEAN /\ autoCqReply \in BOOLEAN /\ autoQSO \in BOOLEAN
    /\ activeSlot \in Slots
    /\ qsoExit \in BOOLEAN
    /\ tick_queue \in Seq(Slots)
    /\ qsoh_queue \in Seq(Messages)
    /\ tx_queue \in Seq(Letters)
    /\ decSlot \in Slots
    /\ heard \subseteq Calls

(* Between two iterations a QSO in progress has a real peer and time left: *)
(* no state of the machine is left behind without a deadline, whatever     *)
(* ticks were skipped and whatever the operator typed (updateQsoMachine()  *)
(* against the deadlines that addQso() and addCQ() set).                   *)
QsoAlive ==
    pc \in {"wait", "done"} /\ qsoState # "idle" =>
        /\ currentQSO.src # NoCall
        /\ remaining \in 1 .. MAXQSOLIFETIME

(* A station is called at most once per tick of the lifetime: repetitions  *)
(* of handleTx() cannot outnumber MAXQSOLIFETIME, except for the iteration *)
(* that runs without a tick when the program ends.                         *)
AttemptsBounded ==
    attempts <= MAXQSOLIFETIME + (IF qsoExit THEN 1 ELSE 0)

(* The worked-before table never runs ahead of the log: any station it     *)
(* refuses has the hash of a station with an ADIF record (the order of     *)
(* logToAdi() and addPeer() on RR73, and the reset of the table).          *)
PeersAreLogged ==
    AdiWritable => \A i \in 1 .. Len(peers) :
                      \E c \in Calls : Hash[c] = peers[i] /\ adi[c] > 0

(* A QSO that only owes its final 73 is logged, and its peer is worked     *)
(* unless the table has just been emptied.                                 *)
ClosingIsLogged ==
    qsoState = "reply73" =>
        /\ AdiWritable => adi[currentQSO.src] > 0
        /\ CheckPeer(currentQSO.src) \/ peers = <<>>

(* One contact at a time: as long as a QSO is in progress, messages of     *)
(* other stations and CQs cannot make another station its peer.            *)
PeerStable ==
    [][qsoState # "idle" /\ qsoState' # "idle" => currentQSO' = currentQSO]_vars

(* With the active slot left alone, the station never calls CQ in the      *)
(* middle of a QSO, although updateQsoMachine() and queryCQ() run on       *)
(* separate readings of the active slot.                                   *)
CqOnlyWhenIdle ==
    [][pc = "query" /\ Len(tx_queue') > Len(tx_queue) => qsoState = "idle"]_vars

(* With prompt decoding and the active slot left alone, a station of the   *)
(* worked-before table is never called: the QSO pursued is with a station  *)
(* that is not in it (addQso() and addCQ() test the table only when a QSO  *)
(* begins).                                                                *)
NoReworking ==
    qsoState \in {"replyLoc", "replySig", "replyRR73"} =>
        ~CheckPeer(currentQSO.src)

(* Every QSO ends, answered or not. *)
EveryQsoEnds == (qsoState # "idle") ~> (qsoState = "idle")

(* With self CQ on for good and ticks of the active slot still coming, CQ  *)
(* is called again and again unless QSOs keep the station busy or the      *)
(* operator intervenes.                                                    *)
CqKeepsGoing ==
    ( /\ <>[](autoCq /\ ~qsoExit /\ qsoState = "idle" /\ activeSlot = "even")
      /\ []<>(pc = "update" /\ tickMsg = "even") )
        => []<>(cqWait = QUERYCQDELAY)

(* The comment in addQso() (src/qsoHandler.cpp:658): "If we receive RR73   *)
(* we reply 73 and close the QSO".                                         *)
RR73IsAnswered ==
    [][qsoState = "reply73" /\ qsoState' = "idle"
          => tx_queue' = Append(tx_queue, [text |-> "73", to |-> currentQSO.src])]_vars

=============================================================================
