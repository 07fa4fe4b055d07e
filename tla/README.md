# A TLA+ verification of rtlsdr-ft8d

rtlsdr-ft8d is an FT8 station for amateur radio: `rtlsdr_ft8d` receives with an
RTL-SDR dongle, decodes the 15 s slots, and can run contacts (QSOs) by itself;
`ft8` is a daemon on a Raspberry Pi that transmits.  This directory holds TLA+
models of the concurrent core of the two programs and of the FT8 codec and decoder they share, the TLC runs that check them
on small instances, and TLAPS proofs of the most important invariants.
`PROJECT.json` lists the components, the runs, the hazards the properties are
aimed at, and for every definition the source lines it stands for.

## 1. Inventory

| Part | State | Operations | Interacts with |
|---|---|---|---|
| QSO thread (`qsoHandler.cpp`) | `qsoState`, `currentQSO`, deadline `ft8time`/`ft8tick`, worked-before table `peers`, ADIF log, automation switches | pop ticks, drain messages (`addQso`, `addCQ`), timeout, `handleTx`, `queryCQ`, exit | fed by the decoder (`qsoh_queue`, `tick_queue`), feeds `tx_queue`, switched by the keyboard thread without a lock |
| Transmit thread (`TXHandler()`, `ft8_ncurses.cpp`) | current letter, `txStatusFlag`, Rx/Tx indicator, `qsoFreq` | pop a letter, connect, send, three reads, close | local socket to the daemon or to the stand-in |
| Daemon (`ft8.cpp`) | connection, options, DMA state | select, accept, acknowledge, parse, report the frequency, wait for the slot, transmit, clean up | systemd restarts it (`ft8tx.service`) |
| Stand-in (`fakeTx.cpp`, `--fake-tx`) | listener, one handler thread per connection, two one-place hand-offs | as the daemon, and deposit what the receiver shall hear | main loop (`fillFakeTxBuffer`) |
| Receiver (`rtlsdr_ft8d.cpp`) | two sample buffers, `bufferIndex`, `iqIndex`, device handle, watchdog counters, exit flag | callback, swap at 12.6 s, reset at 15 s, signal the decoder, restart the device, shut down | callback thread, decoder thread |
| Decoder (`decoder()`, `decode()`) | buffer read, duplicate table, slot parity | wait, FFT, decode, classify, push messages, tick and spots | all queues |
| Callsign hash table | 256 entries | add, look up in 22, 12 or 10 bits | message codec |
| PSK uploader (`pskUploader`, `pskreporter.cpp`) | queue of spots, packet | every 60 s, packets of 64 | UDP |
| Keyboard and screens (`ft8_ncurses.cpp`) | command line, selection, windows | commands, drawing | switches, queues |
| Queue (`tsqueue.h`) | deque and mutex | push, pop, size | everyone |
| libft8 (vendored, adapted) | waterfall, candidate heap, LDPC bits | pack, unpack, CRC, LDPC, Costas, search | decoder, daemon, test-signal generator |

What is hard here: seven threads share globals, only the queues being locked;
the condition variable of the decoder has no predicate; time is a real resource
(a slot is decoded in its 2.4 s gap, and the answer must be on the air when the
next slot begins); letters are lost on the air; the daemon dies and restarts.
What makes the parts correct: a contact always ends and is logged if and only
if it took place; a station is not called for ever, nor worked twice; every
letter leaves the queue, in order and at most once; a buffer is decoded once for
each swap, spurious wake-ups apart, holding the samples of its own slot; what one station sends is what another prints,
or nothing; the strongest signals of a crowded slot are decoded first; a dead radio is restarted or the program
gives up.

## 2. Plan

Done: `QsoHandler`, `TwoStations` with the synthetic peer, `TxLink`, `Receiver`,
`Decoder` with `CallsignHash`, `PskUploader`, the codec and the decoding of a signal
(`Ft8Text`, `MessageCodec`, `Ft8Tables`, `Ft8Signal`, `CandidateSearch`,
`Ft8Reception`), the abstract `Contact`, and the proofs of section 5.  Next, in this order:

1. That each station of `TwoStations`, where an iteration of the QSO thread is one step,
   keeps a `Contact` that lets a message and a letter fall into one step.
2. `Tsqueue`: the locked deque implements an abstract FIFO.
3. The command line and the selection of a CQ by keyboard (`Keyboard`).

## 3. Modules

### QsoHandler

One iteration of `QSOHandler()` is split where another thread can interfere:
`PopTicks` (wait for a tick, pop them all), `DrainMessage`/`DrainEnd` (one message
per step, `addQso` or `addCQ`), `UpdateQsoMachine` (timeout or `handleTx`) and
`QueryCQ` (the second reading of the active slot).  The decoder
(`DecodeMessage`, `DecodeTick`, `MissSlot`), the transmit thread (`TakeLetter`)
and the operator (`Operator`) are the environment.  `ft8time - ft8tick` is one
variable `remaining`, `queryRepeat - ft8tick` is `cqWait`.  Texts are the kinds
`parseMsg()` tells apart.  `AbortWait` is the exit of the wait: the code then
runs one more iteration on a tick nobody wrote, `tickMsg = "garbage"`, and
`UpdateQsoMachine` takes either slot.  History: `attempts`, the letters queued
for the contact in progress.

`Timely` is the assumption that an iteration (milliseconds) ends before the next
slot is decoded; the properties that need it are checked in runs of their own.

### Contact and QsoContact

`Contact` is what the automatic operator promises to the band, an abstract specification
of five variables: begin with a station, exchange, confirm, call, conclude or give
up, call CQ.  It has no clock, slots, message queue, switches or table of stations
worked.  `QsoContact` is the refinement mapping: the five states of `qsoState` are three
stages of a contact and none, `currentQSO` and the letters counted mean nothing when the
machine is idle, and of the log what counts is who is in it.

### TwoStations

Two instances of `QsoHandler` on a band that loses letters.  A step `AirSlot` is a
slot: at most one letter of each station goes out, is heard unless lost or unless
the other station is transmitting, and both QSO threads get their tick.

In place of the second program, `FakeSlot` is a slot with the synthetic peer of the
stand-in.  `FakePeerReply` is its choice of an answer, `EdgeForms` the series of
non-standard messages of `FAKETX_EDGE` as the codec hands them to the receiver
(`RRR`, a call with `/P` and `TNX 73 GL` go through the codec in `MCFt8Reception`).  The answer is deposited
12.6 s into the slot, at the moment the receiver fills its buffer, so it may be heard a
slot early, where the QSO thread refuses it; a letter outside the received band is not
answered at all.  `lost` counts these cases too.

### TxLink

The transmit thread, the daemon and the stand-in with their sockets.  A letter is a
number; the only thing its text matters for is whether it holds a report below
0 dB, a word with a leading dash.  A failed `connect()` or `send()` is only printed,
so the three reads then return at once: that is the branch `~linkUp` of `ReadReply`.
`fds` counts the descriptors the daemon never closes.  Time is the phase of the
slot.  Connecting and sending are one step: the daemon does nothing between them.

Any letter may be one that `ftx_message_encode()` refuses (the set `unpackable`).  The
daemon has acknowledged it by then, and leaves the connection open: `RefuseLetter`, after
which the thread is in its second read for good (`Abandoned`; only a crash of the daemon
frees it).  The stand-in packs nothing and refuses nothing.  The branch "Skipping
transmission" (`ft8.cpp:1697`) wants the frequency 0: the client sends its dial frequency,
which it does not accept as 0 (`rtlsdr_ft8d.cpp:1946`), plus an offset, so the branch is
not reached from here and not modelled.

### Receiver

Callback, main loop, decoder, watchdog.  Samples come in units and carry their age
in halves of slots instead of a value, so behaviours of any number of slots have
finitely many states.  `iqIndex++` is two steps (`CallbackRead`, `CallbackStore`):
a reset in between is undone, and a swap in between leaves the unit to the buffer just
handed over (`Crossing` in the proofs).  `Swap` happens whatever the callback is doing.
`SpuriousWakeup` is a return of `pthread_cond_wait()` nobody asked for, at any wait; it
takes the decoder where a signal would.  `SecondReader` is the rx thread that `main()`
creates after `startRtlDevice()` has created one: librtlsdr refuses the second
`rtlsdr_read_async()`, and the `rtlsdr_cancel_async()` behind it stops the first.
`PartEnds` holds the timing assumptions.  The main loop reacts within milliseconds.  A
decoder that was signalled has woken up, normalised and done its FFT before the window
after ends; one that woke up by itself may be overtaken by the swap.  `decode()` may take
any time.  No unit is under way when a window ends (one may be when a gap does): the swap
falls after that, and units read between the end of the window and the swap may cross it.
History: `handed` (a swap the decoder has not looked at), `repeats`, `spuriousWake`.
librtlsdr itself is external and modelled from its use.

### CallsignHash and Decoder

`CallsignHash` is the table of calls: `HashtableAdd` probes from the hash, while
`HashtableLookup` scans from the first place and compares in 22, 12 or 10 bits.
`Decoder` extends it with `decode()`: a message is its fields (a word, a call in
clear, a hash of a call), and unpacking saves and looks up calls in the order of the
codec.  `Candidate` is one turn of the loop up to the dispatch on the first word.  A
message for somebody else takes three more steps, `InfoFreq`, `InfoTest` and
`InfoPeer`, because the code reads the contact in progress without a lock; `QsoThread`
changes it in between.  What begins with "CQ" or with the station's call is a set of
words given as a constant, because `strncmp()` compares prefixes.  `DecodeEnds` may
come before `MaxCandidates` were seen.  The queues hold what one slot has put in
them; `Forget` empties them with the locals of `decode()`, and stands for their
readers.  History: `heard`, `lastSaved`, `steady` (the contact did not change under
`decode()`).

### Ft8Text, MessageCodec, Ft8Tables, Ft8Signal

The codec of libft8, as operators.  `Ft8Text` is `text.c`: the alphabets, tokens and
numbers; texts are strings here, because what comes out of the codec character by
character is the question.  `MessageCodec` is `message.c`: `ftx_message_encode()` and its three encoders with
their error returns, and the decoders, chosen by the type bits; each is a pair of the
fields and the calls it saves on the way (`CallsignHash` holds the table, at constant
level, so that both ends of a transmission can use it).  `Ft8Tables` are the parity
tables of `constants.c`.  `Ft8Signal` is the CRC, the 83 parity bits, the Gray map, the
Costas arrays, the waterfall a signal leaves, the sync score and the symbol extraction,
with bits as sets of positions.

Five assumptions on these tables are evaluated in the run: `ParityTablesAgree` (the two
forms of the check matrix), `GeneratorMeetsChecks` (every row of the generator passes
every check, so each codeword does), `CrcIsRemainder` (the bitwise CRC against the
remainder of polynomial division), `WindowsInsideBuffer` (the samples the
transforms read end inside the buffer, at both sampling rates of the program) and
`ShortBurstsShow` (no burst of wrong bits up to 11 long leaves the checksum as it was;
bursts of 12 may, because five zero bits stand between the payload and its checksum).

### CandidateSearch and Ft8Reception

`CandidateSearch` is `ftx_find_candidates()`: the scan with its threshold, the min-heap of
`num_candidates`, each sift a step per exchange, and the heap sort at the end.
`Ft8Reception` composes the three: a text is packed by the daemon, by `genFT8Signal()` or
by another program, becomes tones, may lose symbols on the way, is searched for, and
each candidate goes through `bp_decode()`, the parity checks, the CRC and
`ftx_message_decode()`.  Soft values are not followed: `Guesses` lets an iteration of
belief propagation come out as the word it had, as all zeros, which the code refuses, as
the codeword sent, or as that codeword with any of the sets of bits in `Errors` inverted.
`Errors` is a constant that may be all sets of bits.  A codeword whose 14-bit checksum
agrees by chance is accepted and printed, by the code and by the model (`told` and
`InTable` follow what such a message adds to the table of calls).  A crowd is a slot full of candidates of given scores, for the heap.

### PskUploader

`postSpots()` at the end of a slot, the thread that wakes once a minute, and
`PskReporter::send()`, which empties its list before it tries the network, so that a
failure loses the records.  `PSK ON/OFF` changes `noreport` at any moment; the
reporter itself is constructed once, and not at all with a synthetic source.  Spots
are numbers in the order of posting.

## 4. Runs

| Run | Checks | States |
|---|---|---|
| `MCQsoAny` | everything that holds without timing: `QsoAlive`, `AttemptsBounded`, `PeersAreLogged`, `ClosingIsLogged`, and `ContactKept`, the refinement of `Contact`; two stations, slot and exit changing at any time | 4.1 M |
| `MCQsoTimely` | `NoReworking`, `CqOnlyWhenIdle`; three stations, two colliding in the hash, a table of two, two messages per slot, the real lifetime of 8 ticks and delay of 3 | 7 M |
| `MCQsoFair` | `EveryQsoEnds`, `CqKeepsGoing`: liveness with slots missed and an operator who turns everything on and off | 0.4 M |
| `MCTwoStations` | `TwoWayContact`, `LoggedOnce`, `ContactIsLogged`, `ExchangeRepeats` with up to six letters lost; against the second program and against the synthetic peer in its three modes | 0.27 M |
| `MCTxLink` | `LettersInOrder`, `AiredWhenDone`, `IndicatorFollowsAir`, `DepositsAreKept`; `LettersLeave` and `ThreadEnds` unless a letter the daemon could not encode has stuck the thread | 121 k |
| `MCReceiver` | `ReaderHasItsBuffer`, `NoOlderSamples`, `EnoughWhenStreaming`, `NoNeedlessRestart`, `RepeatsAreSpurious`, `StallIsHandled`, `DecodingGoesOn` | 1.3 M |
| `MCDecoder` | `EveryMessageOnce`, `DecodesFit`, `CallsResolve`, `InfoIsPeers`; duplicates, clashes, hashed calls, malformed messages, both tables full | 4.0 M |
| `MCFt8Reception` | `HeardAsSent`, `CleanIsHeard`, `CodewordsOnly`, `BestFirst`, `NoNearMiss` (what is accepted is what was sent, or differs from it and its checksum over more than 11 successive bits); every message type, hashed calls known and unknown, texts that cannot be packed, faded signals at the edges of the scan, two false decodes with a checksum that agrees, a crowded slot | 90 k |
| `MCPskUploader` | `SpotsInOrder`, `TestSpotsStayHome`, `SpotsLeave`; sends that fail, the switch turned at any moment | 9 k |

Three runs show where the code and what is said of it disagree:

* `MCQsoRR73` (`RR73IsAnswered`): RR73 arriving with the tick of the timeout is logged twice and never
  answered (`qsoHandler.cpp:489`).
* `MCTxReports` (`ReportIsAired`): a negative report ends the daemon, which takes it for an option.
* `MCReceiverHang` (`ShutdownCompletes`): a lost wake-up leaves `main()` joining the decoder for ever.

Other behaviour met while modelling, without a run of its own: a letter that
`ftx_message_encode()` refuses is acknowledged and then dropped with the connection open
(`ft8.cpp:1561`), so the transmit thread never leaves its second read and the station is
off the air until the daemon dies; a call of twelve characters, which `using.md:47` allows,
makes every letter such a one; after a spurious return of `pthread_cond_wait()` the decoder
takes the last buffer again, or finds it too short (`rtlsdr_ft8d.cpp:397`); a report repeated in
`replyRR73` goes back to `replySig`, where the table at `qsoHandler.cpp:530` has it stay;
`SLOT` chooses the slot listened to, and letters go out in the other one, where
`using.md:118` calls it the slot to transmit in; a message whose destination came as a
hash still has its brackets when `decode()` compares it with the station's call
(`rtlsdr_ft8d.cpp:1527`), so it never reaches the QSO thread, while one for a longer
call that begins with the station's does; "CQ TEST K1ABC" makes a spot of `TEST`, because
only words of two letters are skipped; a contact that changes between the three
readings of `decode()` may put a message under a wrong or an empty call on the screen; `handleTx()` returns
`false` for the final 73, so a CQ may follow in the same tick and occupy the slot to
be listened to; a `SLOT` command between the two readings of the slot in one iteration
lets CQ be called during a contact; a station that sent RR73 and receives 73 resets the contact without
an ADIF record (known: `testability.md`); when a RR73 is lost between two automatic
stations, the roles swap and the one without a record may call again; the daemon
reports the frequency before it waits for the slot, so the Tx indicator is on while
it waits and off while it transmits (the stand-in reports at the slot boundary);
the radio is silent for the first 30 s after the start because of the second reader;
if the program starts in the last seconds of a slot, the first buffer decoded holds
samples from before the slot (`aligned` excludes it from `NoOlderSamples`);
`main()` frees the FFT buffers before it joins the decoder, which may still be at work
(`rtlsdr_ft8d.cpp:2265`, `FreeAll` of `Receiver`).

In the codec and the decoder: a text with a word of more than eleven characters is an
error rather than the free text that the comment at `message.c:153` speaks of; a
nonstandard call of the station itself always goes out as a 22-bit hash, so a receiver
that never heard it in clear prints `CQ <...>` (`encode_nonstd` is reached only when one
call has /P and the other /R); `<K1JT> ...` goes out as free text; "R 579" is read as
"R+00" and "559 0013" as "R", as the table at `testability.md:357` has it; a free text of
words that look like calls enters them in the table of hashes; two calls may share a 12-
or 10-bit hash and the one found first is printed; a free text of more than 13
characters keeps its last 13; the SNR estimate reads the bin
`freq_offset + tone * freq_osr` where its comment says "true tone bin"
(`rtlsdr_ft8d.cpp:1257`), which only changes the figure reported; a contact with the
synthetic peer ends with its 73 and leaves no ADIF record (`testability.md:133`).

### Bounds

`LogCap` counts records up to 1 or 2: the properties only ask for none, one, more.
`TickBound = 1` with `TxBound = 0` in the QSO runs means that at most one tick waits
and that the transmit thread has taken the last letters when a slot ends; the code
gets there because a tick takes 15 s.  Several ticks popped at once therefore do not
occur in these runs (with two waiting, `MCQsoFair` and `MCQsoAny` grow past what TLC does
in minutes); the safety theorems hold for any `TickBound`, the liveness properties are
checked for one.  `Heard` restricts the texts; `AnyMessage`
holds one of every kind the state machine tells apart.  Two stations suffice for
`ContactKept`, three for a collision next to an innocent station.  Six losses are
more than any contact has letters per lifetime.  Three letters in `TxLink` give one
under way, one queued and one after a crash; two descriptors make `accept()` fail
within the run.  In `Receiver` one spurious return is allowed, which may fall at any
wait; `RepeatsNeedSpuriousWakes` has any number.  Units keep the proportions of 12.6, 2.4, 15 and 12
seconds (a window is just enough, a gap fills the rest); one undone reset is
allowed in a behaviour; `NoOlderSamples` claims nothing for more.  `STALL = 2` and
`RTL_MAX_RESTART = 3` are the code's values.  In `MCDecoder` three places stand for the
50 of a slot and for the 256 of the callsign table: six messages and four calls, two of
which also share their 12-bit hash, overfill both, and four candidates per slot leave
room for a duplicate beside three distinct messages.  The callsign table survives from
slot to slot, so it fills in every order.  In `MCPskUploader` six spots make three
packets of two, two slots' worth in one minute, or a rest of one.
In `MCFt8Reception` five candidates stand for the 120 of the heap, the least for a sift
of two levels in both directions; nine bins give the eight tones two places; three
iterations of the LDPC decoder give a first, a better and a last guess; a table of
four calls fills.  `MCErrors` has codewords near the one sent, wherever the burst lies,
words that are no codewords, and two codewords whose checksum agrees with another message.
The score of a candidate is computed from levels of three heights.

### Fairness

Weak fairness of each thread: they are ordinary pthreads that wait on polls, and
nothing starves them.  Weak fairness of the end of slots (`DecodeTick`, `Clock`,
`PartEnds`): time passes.  In `TxLink` also of the daemon, restart included
(`Restart=always`), and in `PskUploader` of the thread, which waits for nothing but the
minute.  Nobody has to type, crash or be heard; losses are bounded by
`MaxLoss`; restarts of the device need not succeed, and nothing makes a wait return
spuriously.

## 5. Proofs

Each theorem holds for every value of the constants that the named assumptions of the
module allow; every run evaluates the assumptions of the modules it extends.  Where a
property is not inductive, an invariant implies it and is.  29 theorems:

| Theorem | Shows | Hypotheses |
|---|---|---|
| `TypeCorrect`, `NoQsoLeftBehind`, `CallsAreBounded`, `TableFollowsLog`, `ClosingFollowsLog`, `ImplementsContact` (`QsoHandlerProofs`) | `TypeOK`, `QsoAlive`, `AttemptsBounded`, `PeersAreLogged`, `ClosingIsLogged`, `ContactKept` | none |
| `OnePeerAtATime` | the peer of a contact, and its slot, never change (`PeerStable`) | none |
| `NoCqDuringQso` | `CqOnlyWhenIdle` | the active slot is left alone |
| `WorkedAreLeftAlone` | `NoReworking` | the same, and `Timely` |
| `RecordsAreTrue` (`TwoStationsProofs`) | `TwoWayContact` | none |
| `NoDoubleRecord` | `LoggedOnce` | `LongEnough`: a lifetime of 7 ticks or more (8 in the code), a table of stations worked with two entries or more (512) |
| `LettersKeepOrder`, `ThreeReadsAreEnough`, `IndicatorIsHonest`, `HandOffIsKept` (`TxLinkProofs`) | `LettersInOrder`, `AiredWhenDone`, `IndicatorFollowsAir`, `DepositsAreKept` | none |
| `BuffersAreKept`, `DecoderReadsAlone`, `TwoResetsAreEnough`, `WindowIsDecodable`, `WatchdogIsPatient`, `RepeatsNeedSpuriousWakes` (`ReceiverProofs`) | `ReceiverTypeOK`, `ReaderHasItsBuffer`, `NoOlderSamples`, `EnoughWhenStreaming`, `NoNeedlessRestart`, `RepeatsAreSpurious` | none; the first two rest on the timing assumptions of `PartEnds` |
| `SpotsFit`, `EachMessageIsLogged`, `WindowShowsThePeer`, `HashesResolve` (`DecoderProofs`) | `DecodesFit`, `EveryMessageOnce`, `InfoIsPeers`, `CallsResolve` | none |
| `NoTestSpotReported`, `SpotsKeepOrder` (`PskUploaderProofs`) | `TestSpotsStayHome`, `SpotsInOrder` | none |
| `CandidatesAreBest`, `DecodedAreCodewords` (`Ft8ReceptionProofs`) | `BestFirst`, `CodewordsOnly` | none |

### The arguments

**QsoHandler.**  `IInv = TypeInv /\ Deadline /\ Budget /\ PeersAreLogged /\
ClosingIsLogged`.  `QsoAlive` is not inductive: in the middle of an iteration the time
may be over, so `Deadline` says where in the iteration that is possible.
`AttemptsBounded` is not either: `Budget` bounds letters sent plus time left, which a
tick and a letter together leave alone, with one more for the iteration that runs
without a tick at exit.  `TypeInv` adds to `TypeOK` that a contact has a peer.

`ImplementsContact` shows that each step of the thread is a step of `Contact` or changes
nothing the band can see.  It needs `IInv` before and after the step: a timeout records
a real peer (`TypeInv`), and the letter just queued is within the bound (`Budget`, which
gives `Contact` its number of letters, the lifetime and one more at exit).

`NoCqDuringQso` is about the two readings of the active slot in one iteration, by
`handleTx()` and by `queryCQ()`: `BusyIsTrue` says what the first leaves for the
second.  A `SLOT` command between the two makes CQ possible during a contact, hence
the hypothesis.  `WorkedAreLeftAlone` needs `PromptInv`: only one slot's messages wait
at a time (`OneSlotAtATime`), a contact is in the active slot (`InActiveSlot`), and a
contact that owes its 73 sends it in the iteration that drained its RR73
(`ClosedAtOnce`).  So the table, which `addQso()` reads only when a contact begins, is
up to date when the peer can next be heard.

**TwoStations.**  `TruthInv` ties each state of a QSO thread, each letter waiting and
each message heard to the fact it claims: a report is sent only by a station that was
addressed, and `replyRR73`, from which a record may come by timeout, is reached only
with a report.

`NoDoubleRecord` is about time.  `Sends` and `Rests` say where a station is at any
moment between two slots by the state its iteration will end in and the ticks it will
then have left; in a slot one station sends and the other rests.  Until RR73 is heard
(`Open`) the two states are one of the eight pairs of `Phases`, each with the least
lifetime of both sides; a lost letter costs two ticks, or four in the middle of the
exchange, and no pair leaves a contact without a tick, so none times out and nothing
is logged.  RR73, when heard, is logged and answered in one iteration and its sender
refused from then on (`AWins`, `BWins`); the other hears nothing but CQ and 73, and can
log once, when the 73 does not come (`ALoses`, `BLoses`).  With the stand-in there is no
RR73 to hear: up to the last edge-case form a contact may die in `replyRR73` and be
logged (`Fresh`), afterwards (`Recorded`) each contact is in time for its 73 again.
`PhaseKept` is the arithmetic.  TLC finds a contact logged twice for every lifetime from
2 to 6, and for a table of one entry, which is emptied by the contact it should hold.

**TxLink.**  `LinkInv` has three parts.  `LetterInv`: the letters of the queue, of the
connections and of the air are each below the next.  `DialogueInv`: as long as the
daemon has not gone down, thread and transmitter agree on how many of the four replies
were sent and how many read, so the third read ends after the letter went on the air.
`SlotInv`: the hand-off is empty from the gap until a letter's transmission begins.
`RigInv` keeps the two transmitters apart.  These hold with letters refused: an abandoned
thread reads nothing any more.

**Receiver.**  `ReceiverInv = BasicInv /\ TimingInv /\ RepeatInv /\ PatienceInv /\
CountInv /\ AgeInv`.  The callback works in the buffer being filled, unless its unit
crosses the swap (`Crossing`, in `BasicInv`); the decoder
is signalled in the gap, right after the swap, and then has done its FFT before the next
(`TimingInv`).  Each spurious return pays for one decoding too many, already done, about
to begin, or about to be signalled for a swap the decoder has looked at by itself: the sum
of repeats and `Debt` stays within the spurious returns (`RepeatInv`).  Further, of a window delivered throughout, the units still to come and those in the
buffer, or about to be counted, make at least the whole (`CountInv`); how old a sample may be follows from the place in the slot and the number
of resets the callback undid (`AgeInv`); the watchdog's clock and the silence of the
device go together (`PatienceInv`).  Once `exit_flag` is set only types and `RepeatInv` are
claimed: the exit path swaps and resets outside the slot.

`DecoderReadsAlone` is about the choice of buffers: `decBuf` is not the one `bufferIndex`
sends the callback to.  It says nothing of the one unit that crosses the swap, which does
land in the decoder's buffer, nor of a decoder that woke up by itself.

**Decoder, CallsignHash.**  `DecoderInv = TableInv /\ LogInv /\ CountInv /\ InfoInv`.
Open addressing without removal: before a free place, the probe for a message comes by
the message if it is in the table (`TableInv`), so what the probe meets first decides
correctly whether it is new; what was logged is what was entered (`LogInv`); each spot
took a place (`CountInv`).  `HashInv` is the same for callsigns, with the last call
saved under each hash.  `hashtable_add()` and the decoder probe until they meet a place:
that the probe ends, and where, is an argument by the least number of steps
(`LeastNatural`).

**PskUploader.**  A synthetic run has no reporter, and without one the thread is never
in the states that build or send a packet (`HomeInv`).  `SpotInv`: the spots reported, in
the packet and waiting are each in order and follow each other.

**Ft8Reception.**  `SearchInv` follows `ftx_find_candidates()` through the scan, each
exchange of a sift, and the sort.  Of the candidates looked at so far and above the
threshold, none left out is better than one kept, and one is left out only when the heap
is full (`KeptInv`).  The heap order holds except at the node that rises or sinks, whose
parent still has its place above the node's children, and the part already sorted is in
order, with nothing in it better than any of the heap (`HeapInv`).
On the way `ScoreType` shows that every score, also of a signal half outside the band or
the slot, is computed from cells of the waterfall.

### Only model-checked

Liveness (`EveryQsoEnds`, `CqKeepsGoing`, `LettersLeave`, `ThreadEnds`, `StallIsHandled`,
`DecodingGoesOn`, `SpotsLeave`, `ContactIsLogged`, `ExchangeRepeats`): TLAPS does not prove
it here.  `HeardAsSent`, `NoNearMiss` and `CleanIsHeard` are
about the data of the code tables and about texts character by character: they are
evaluated for the words of the run.

## 6. Not modelled

Filters, FFT, SNR and the soft messages of belief propagation (floating point: the
waterfall and the outcomes of an iteration are inputs of `Ft8Reception`); FT4, `ldpc_decode()`
and the other parts of libft8 that nothing here calls; ncurses drawing; DMA, clock and
mailbox registers; WSPR; calibration; reading and writing of IQ files.  See `components`
in `PROJECT.json`.
