------------------------------- MODULE TxLink -------------------------------
(***************************************************************************)
(* The transmit path: the receiver's transmit thread (TXHandler(),         *)
(* src/ft8_ncurses.cpp) hands the letters of tx_queue, one connection per  *)
(* letter, to a transmitter on a local socket.  The transmitter is either  *)
(* the daemon on the Raspberry Pi (src/ft8.cpp, one process that serves    *)
(* one connection at a time, restarted by systemd) or its stand-in inside  *)
(* the receiver (src/fakeTx.cpp, one handler thread per connection).       *)
(*                                                                         *)
(* A letter is a number, in the order of queueing.  Its text matters in    *)
(* two ways only: a report of less than 0 dB is a word that begins with a  *)
(* dash, which the daemon's getopt_long() takes for an option; and a call  *)
(* of twelve characters, which the receiver accepts as the station's own,  *)
(* is one more than ftx_message_encode() takes.                            *)
(*                                                                         *)
(* Time is the phase of the 15 s slot: its first second, the transmission, *)
(* and the gap that begins 12.6 s into the slot, when the receiver fills   *)
(* its buffer and decodes.  connect() and send() of a letter are one step. *)
(***************************************************************************)
EXTENDS Naturals, Sequences, FiniteSets

CONSTANTS
    Rigs,       \* transmitters to consider, among "ft8" and "fake"
    NLetters,   \* bound: letters queued
    MaxFds,     \* descriptors the daemon may hold
    MaxCrashes  \* bound: crashes of the daemon from outside

Letters == 1 .. NLetters

ASSUME TxAssumption ==
    /\ Rigs \subseteq {"ft8", "fake"}
    /\ NLetters \in Nat /\ MaxFds \in Nat /\ MaxCrashes \in Nat

VARIABLES
    rig,           \* the transmitter of this run, --fake-tx or not
    phase,         \* of the slot: "start", "tx", "gap"
    tx_queue, pushed,
    negative,      \* letters with a report below 0 dB
    unpackable,    \* letters ftx_message_encode() refuses
    cpc, Txletter, txStatusFlag, transmitting, qsoFreq, exitTxThread,
    inbox,         \* replies on the current connection not yet read
    linkUp,        \* the transmitter holds the other end of it
    backlog,       \* connections not yet accepted
    dpc, dLetter, fds,          \* the daemon
    crashes,
    died,          \* the daemon has gone down at least once (history)
    listening, hpc,             \* the stand-in: listener, handler threads
    fakeOwn, fakePeer,          \* its hand-off to the receiver's buffer
    fakeTxStopFlag,
    aired          \* letters that went on the air, in order (history)

client == <<cpc, Txletter, txStatusFlag, transmitting, qsoFreq, exitTxThread>>
queue  == <<tx_queue, pushed, negative, unpackable>>
daemon == <<dpc, dLetter, fds, crashes, died>>
fake   == <<listening, hpc, fakeOwn, fakePeer, fakeTxStopFlag>>
link   == <<inbox, linkUp, backlog>>
vars   == <<rig, phase, client, queue, daemon, fake, link, aired>>

Init ==
    /\ rig \in Rigs
    /\ phase = "gap"
    /\ tx_queue = <<>> /\ pushed = 0 /\ negative = {} /\ unpackable = {}
    /\ cpc = "top" /\ Txletter = 0
    /\ txStatusFlag = "TX_IDLE" /\ transmitting = FALSE
    /\ qsoFreq = 0 /\ exitTxThread = FALSE
    /\ inbox = <<>> /\ linkUp = FALSE /\ backlog = <<>>
    /\ dpc = (IF rig = "ft8" THEN "select" ELSE "off")
    /\ dLetter = 0 /\ fds = 0 /\ crashes = 0 /\ died = FALSE
    /\ listening = (rig = "fake")
    /\ hpc = [l \in Letters |-> "none"]
    /\ fakeOwn = 0 /\ fakePeer = 0 /\ fakeTxStopFlag = FALSE
    /\ aired = <<>>

-----------------------------------------------------------------------------
(* The receiver's side *)

(* queueTx() of the QSO thread. *)
PushLetter ==
    /\ pushed < NLetters
    /\ pushed' = pushed + 1
    /\ tx_queue' = Append(tx_queue, pushed')
    /\ negative' \in {negative, negative \cup {pushed'}}
    /\ unpackable' \in {unpackable, unpackable \cup {pushed'}}
    /\ UNCHANGED <<rig, phase, client, daemon, fake, link, aired>>

Serving == IF rig = "ft8" THEN dpc # "off" ELSE listening

(* A letter is taken, a connection opened and the letter sent; the errors  *)
(* of socket(), connect() and send() are only printed.                     *)
PopLetter ==
    /\ cpc = "top" /\ ~exitTxThread
    /\ tx_queue # <<>>
    /\ Txletter' = Head(tx_queue)
    /\ tx_queue' = Tail(tx_queue)
    /\ inbox' = <<>>
    /\ linkUp' = Serving
    /\ backlog' = IF Serving THEN Append(backlog, Txletter') ELSE backlog
    /\ cpc' = "read1"
    /\ UNCHANGED <<rig, phase, txStatusFlag, transmitting, qsoFreq, exitTxThread,
                   pushed, negative, unpackable, daemon, fake, aired>>

(* A blocking read: a reply, or the end of the connection. *)
ReadReply ==
    /\ inbox # <<>> \/ ~linkUp
    /\ IF inbox # <<>>
       THEN /\ inbox' = Tail(inbox)
            /\ qsoFreq' = IF Head(inbox) = "FREQ" THEN Txletter ELSE qsoFreq
       ELSE UNCHANGED <<inbox, qsoFreq>>
    /\ UNCHANGED <<rig, phase, Txletter, exitTxThread, linkUp, backlog, queue,
                   daemon, fake, aired>>

(* Mutation: one reply is not waited for. *)
FirstRead_Skip ==
    /\ cpc = "read1"
    /\ ReadReply
    /\ txStatusFlag' = "TX_ONGOING" /\ transmitting' = TRUE
    /\ cpc' = "read3"

FirstRead ==
    /\ cpc = "read1"
    /\ ReadReply
    /\ txStatusFlag' = "TX_WAITING" /\ transmitting' = transmitting
    /\ cpc' = "read2"

SecondRead ==
    /\ cpc = "read2"
    /\ ReadReply
    /\ txStatusFlag' = "TX_ONGOING" /\ transmitting' = TRUE
    /\ cpc' = "read3"

ThirdRead ==
    /\ cpc = "read3"
    /\ ReadReply
    /\ txStatusFlag' = "TX_END" /\ transmitting' = FALSE
    /\ cpc' = "sleep"

(* Mutation: a letter whose connection broke is queued again. *)
CloseLetter_Retry ==
    /\ cpc = "sleep"
    /\ txStatusFlag' = "TX_IDLE"
    /\ tx_queue' = IF linkUp \/ rig = "fake" THEN tx_queue ELSE Append(tx_queue, Txletter)
    /\ linkUp' = FALSE
    /\ cpc' = "top"
    /\ UNCHANGED <<rig, phase, Txletter, transmitting, qsoFreq, exitTxThread,
                   pushed, negative, unpackable, daemon, fake, inbox, backlog, aired>>

(* sleep(1), TX_IDLE, close(). *)
CloseLetter ==
    /\ cpc = "sleep"
    /\ txStatusFlag' = "TX_IDLE"
    /\ linkUp' = FALSE
    /\ cpc' = "top"
    /\ UNCHANGED <<rig, phase, Txletter, transmitting, qsoFreq, exitTxThread,
                   queue, daemon, fake, inbox, backlog, aired>>

LeaveLoop ==
    /\ cpc = "top" /\ exitTxThread
    /\ cpc' = "done"
    /\ UNCHANGED <<rig, phase, Txletter, txStatusFlag, transmitting, qsoFreq,
                   exitTxThread, queue, daemon, fake, link, aired>>

TXHandler == \/ PopLetter \/ FirstRead \/ SecondRead \/ ThirdRead
             \/ CloseLetter \/ LeaveLoop

(* close_TxThread(), when the program ends. *)
CloseTxThread ==
    /\ exitTxThread' = TRUE
    /\ UNCHANGED <<rig, phase, cpc, Txletter, txStatusFlag, transmitting, qsoFreq,
                   queue, daemon, fake, link, aired>>

-----------------------------------------------------------------------------
(* The daemon *)

(* A reply to letter l reaches the client if it still holds that           *)
(* connection; otherwise SIGPIPE is caught and nothing else happens.       *)
Reply(l, text) ==
    inbox' = IF l = Txletter /\ linkUp THEN Append(inbox, text) ELSE inbox

GoDown ==
    /\ dpc' = "off" /\ dLetter' = 0 /\ fds' = 0 /\ died' = TRUE
    /\ linkUp' = FALSE /\ backlog' = <<>>

(* accept() fails for want of a descriptor: the daemon exits. *)
AcceptFails ==
    /\ dpc = "select" /\ backlog # <<>>
    /\ fds >= MaxFds
    /\ GoDown
    /\ UNCHANGED <<rig, phase, client, queue, fake, crashes, inbox, aired>>

(* accept(), read() and the SEND_ACK.  The descriptor is never closed. *)
AcceptRequest ==
    /\ dpc = "select" /\ backlog # <<>>
    /\ fds < MaxFds
    /\ fds' = fds + 1
    /\ dLetter' = Head(backlog)
    /\ backlog' = Tail(backlog)
    /\ Reply(dLetter', "ACK")
    /\ dpc' = "parse"
    /\ UNCHANGED <<rig, phase, client, queue, fake, crashes, died, linkUp, aired>>

(* parse_commandline() meets "-10", an option it does not know: exit(-1). *)
ParseAborts ==
    /\ dpc = "parse"
    /\ dLetter \in negative
    /\ GoDown
    /\ UNCHANGED <<rig, phase, client, queue, fake, crashes, inbox, aired>>

Parsed == dpc = "parse" /\ dLetter \notin negative

(* "Cannot parse message!": mainFT8() returns to select() without another  *)
(* word to the client, whose connection stays open.                        *)
RefuseLetter ==
    /\ Parsed /\ dLetter \in unpackable
    /\ dpc' = "select" /\ dLetter' = 0
    /\ UNCHANGED <<rig, phase, client, queue, fake, fds, crashes, died,
                   inbox, linkUp, backlog, aired>>

(* Mutation: the request is dropped without another word. *)
ReportFreq_Drop ==
    /\ Parsed /\ dLetter \notin unpackable
    /\ dpc' = "select"
    /\ UNCHANGED <<rig, phase, client, queue, fake, dLetter, fds, crashes, died,
                   inbox, linkUp, backlog, aired>>

(* The transmit frequency is chosen and reported; the slot is waited for.  *)
ReportFreq ==
    /\ Parsed /\ dLetter \notin unpackable
    /\ Reply(dLetter, "FREQ")
    /\ dpc' = "wait"
    /\ UNCHANGED <<rig, phase, client, queue, fake, dLetter, fds, crashes, died,
                   linkUp, backlog, aired>>

(* wait_every_15_sec() is over: "Transmitting..." and the symbols. *)
GoOnAir ==
    /\ dpc = "wait" /\ phase = "start"
    /\ Reply(dLetter, "ON")
    /\ aired' = Append(aired, dLetter)
    /\ dpc' = "air"
    /\ UNCHANGED <<rig, phase, client, queue, fake, dLetter, fds, crashes, died,
                   linkUp, backlog>>

(* "End of transmission...", and back to select(). *)
GoOffAir ==
    /\ dpc = "air" /\ phase # "start"
    /\ Reply(dLetter, "END")
    /\ dpc' = "select" /\ dLetter' = 0
    /\ UNCHANGED <<rig, phase, client, queue, fake, fds, crashes, died,
                   linkUp, backlog, aired>>

(* The daemon is killed, or the Raspberry Pi loses power. *)
Crash ==
    /\ rig = "ft8" /\ dpc # "off"
    /\ crashes < MaxCrashes
    /\ crashes' = crashes + 1
    /\ GoDown
    /\ UNCHANGED <<rig, phase, client, queue, fake, inbox, aired>>

(* Restart=always *)
Restart ==
    /\ rig = "ft8" /\ dpc = "off"
    /\ dpc' = "select"
    /\ UNCHANGED <<rig, phase, client, queue, fake, link, dLetter, fds, crashes,
                   died, aired>>

Daemon == \/ AcceptRequest \/ AcceptFails \/ ParseAborts \/ RefuseLetter
          \/ ReportFreq \/ GoOnAir \/ GoOffAir \/ Restart

-----------------------------------------------------------------------------
(* The stand-in *)

(* fakeListener() accepts and starts a handler thread. *)
FakeAccept ==
    /\ listening /\ backlog # <<>>
    /\ hpc' = [hpc EXCEPT ![Head(backlog)] = "ack"]
    /\ backlog' = Tail(backlog)
    /\ UNCHANGED <<rig, phase, client, queue, daemon, listening, fakeOwn, fakePeer,
                   fakeTxStopFlag, inbox, linkUp, aired>>

(* Mutation: the frequency is reported at once, as the daemon does. *)
FakeAck_EarlyFreq(l) ==
    /\ hpc[l] = "ack"
    /\ inbox' = IF l = Txletter /\ linkUp THEN inbox \o <<"ACK", "FREQ">> ELSE inbox
    /\ hpc' = [hpc EXCEPT ![l] = "wait"]
    /\ UNCHANGED <<rig, phase, client, queue, daemon, listening, fakeOwn, fakePeer,
                   fakeTxStopFlag, linkUp, backlog, aired>>

(* The request is parsed and acknowledged, the peer's answer prepared. *)
FakeAck(l) ==
    /\ hpc[l] = "ack"
    /\ Reply(l, "ACK")
    /\ hpc' = [hpc EXCEPT ![l] = "wait"]
    /\ UNCHANGED <<rig, phase, client, queue, daemon, listening, fakeOwn, fakePeer,
                   fakeTxStopFlag, linkUp, backlog, aired>>

(* At the slot boundary, or as soon as a stop is requested; the letter is  *)
(* deposited when its frequency is one the receiver can hear.              *)
FakeOnAir(l) ==
    /\ \/ hpc[l] = "due" /\ phase = "start"
       \/ hpc[l] \in {"wait", "due"} /\ fakeTxStopFlag
    /\ Reply(l, "FREQ")
    /\ fakeOwn' \in {l, fakeOwn}
    /\ aired' = Append(aired, l)
    /\ hpc' = [hpc EXCEPT ![l] = "air"]
    /\ UNCHANGED <<rig, phase, client, queue, daemon, listening, fakePeer,
                   fakeTxStopFlag, linkUp, backlog>>

(* 12.6 s later: the peer's answer if the letter has one, the end of the   *)
(* transmission, close().                                                  *)
FakeOffAir(l) ==
    /\ hpc[l] = "air"
    /\ phase # "start" \/ fakeTxStopFlag
    /\ fakePeer' \in {l, fakePeer}
    /\ Reply(l, "END")
    /\ linkUp' = (linkUp /\ l # Txletter)
    /\ hpc' = [hpc EXCEPT ![l] = "none"]
    /\ UNCHANGED <<rig, phase, client, queue, daemon, listening, fakeOwn,
                   fakeTxStopFlag, backlog, aired>>

FakeHandler == \E l \in Letters :
    FakeAck(l) \/ FakeOnAir(l) \/ FakeOffAir(l)

(* fakeTxStop(), after the transmit thread was joined. *)
FakeTxStop ==
    /\ rig = "fake" /\ cpc = "done" /\ listening
    /\ fakeTxStopFlag' = TRUE
    /\ listening' = FALSE
    /\ backlog' = <<>>
    /\ UNCHANGED <<rig, phase, client, queue, daemon, hpc, fakeOwn, fakePeer,
                   inbox, linkUp, aired>>

-----------------------------------------------------------------------------
(* The slot *)

(* Mutation: the hand-off is read but not emptied. *)
FillBuffer_Keep ==
    /\ phase = "tx"
    /\ phase' = "gap"
    /\ UNCHANGED <<rig, client, queue, daemon, listening, hpc, fakeOwn, fakePeer,
                   fakeTxStopFlag, link, aired>>

(* 12.6 s into the slot the main loop takes what the stand-in deposited.   *)
FillBuffer ==
    /\ phase = "tx"
    /\ phase' = "gap"
    /\ fakeOwn' = 0 /\ fakePeer' = 0
    /\ UNCHANGED <<rig, client, queue, daemon, listening, hpc,
                   fakeTxStopFlag, link, aired>>

(* Transmissions last less than a slot, and all begin in its first second. *)
SlotBegins ==
    /\ phase = "gap"
    /\ dpc # "air" /\ \A l \in Letters : hpc[l] # "air"
    /\ phase' = "start"
    /\ hpc' = [l \in Letters |-> IF hpc[l] = "wait" THEN "due" ELSE hpc[l]]
    /\ UNCHANGED <<rig, client, queue, daemon, listening, fakeOwn, fakePeer,
                   fakeTxStopFlag, link, aired>>

FirstSecondOver ==
    /\ phase = "start"
    /\ dpc # "wait" /\ \A l \in Letters : hpc[l] # "due"
    /\ phase' = "tx"
    /\ UNCHANGED <<rig, client, queue, daemon, fake, link, aired>>

Clock == SlotBegins \/ FirstSecondOver \/ FillBuffer

Next == \/ PushLetter \/ TXHandler \/ CloseTxThread
        \/ Daemon \/ Crash
        \/ FakeAccept \/ FakeHandler \/ FakeTxStop
        \/ Clock

Spec == Init /\ [][Next]_vars

(* Every thread and the daemon are scheduled, and time passes; nobody has  *)
(* to queue letters, to crash the daemon or to end the program.            *)
Fairness == /\ WF_vars(TXHandler) /\ WF_vars(Daemon) /\ WF_vars(Clock)
            /\ WF_vars(FakeAccept) /\ WF_vars(FakeHandler) /\ WF_vars(FakeTxStop)

FairSpec == Spec /\ Fairness

-----------------------------------------------------------------------------
(* Properties *)

WasAired(l) == \E i \in 1 .. Len(aired) : aired[i] = l

(* Whatever dies and restarts between the two programs, no letter goes on  *)
(* the air twice and none overtakes another (one connection per letter,    *)
(* never retried).                                                         *)
LettersInOrder ==
    \A i, j \in 1 .. Len(aired) : i < j => aired[i] < aired[j]

(* As long as the daemon has not gone down, TXHandler() is done with a     *)
(* letter only when it is on the air: three reads are enough to wait for   *)
(* the slot, although the daemon sends four replies.  The frequency shown  *)
(* is then the one chosen for this letter, not for an earlier one.         *)
AiredWhenDone ==
    ~died /\ cpc = "sleep" => WasAired(Txletter) /\ qsoFreq = Txletter

(* With the stand-in, "Tx" is shown from the start of the transmission to  *)
(* the end of it, give or take the reply on its way.                       *)
IndicatorFollowsAir ==
    rig = "fake" /\ transmitting => hpc[Txletter] = "air" \/ inbox = <<"END">>

(* What the stand-in transmits is taken by the receiver's buffer before    *)
(* the next transmission replaces it.  (The peer's answer is deposited     *)
(* when the buffer is filled, and may miss it.)                            *)
DepositsAreKept ==
    [][fakeOwn # 0 /\ fakeOwn' # fakeOwn => fakeOwn' = 0]_vars

(* The daemon has refused the letter after its acknowledgement and serves  *)
(* others; TXHandler() waits in its second read(), on an open connection,  *)
(* for a reply that nobody will send.                                      *)
Abandoned ==
    /\ rig = "ft8" /\ Txletter \in unpackable \ negative
    /\ cpc = "read2" /\ linkUp /\ inbox = <<>>
    /\ dpc = "select" /\ backlog = <<>>

(* Every letter leaves the queue, with the daemon crashing, restarting or  *)
(* out of descriptors on the way: a letter that cannot be packed, met at   *)
(* the second read(), is the one thing that holds TXHandler() for ever.    *)
LettersLeave == tx_queue # <<>> ~> (tx_queue = <<>> \/ exitTxThread \/ Abandoned)

(* The transmit thread ends when it is told to, so that main() can join    *)
(* it, unless it was abandoned by the daemon.                              *)
ThreadEnds == exitTxThread ~> (cpc = "done" \/ Abandoned)

(* using.md:129: "AUTOQSO (complete the grid -> report -> RR73 -> 73       *)
(* exchange automatically)".  A report the QSO thread queues, and that     *)
(* nobody interferes with, goes on the air.                                *)
ReportIsAired ==
    crashes = 0 /\ fds < MaxFds /\ cpc = "sleep" => WasAired(Txletter)
=============================================================================
