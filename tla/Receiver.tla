------------------------------ MODULE Receiver ------------------------------
(***************************************************************************)
(* The receiving side of rtlsdr_ft8d (src/rtlsdr_ft8d.cpp): the callback   *)
(* of the RTL-SDR fills one of two sample buffers, the main loop swaps     *)
(* them 12.6 s into every 15 s slot and wakes the decoder through a        *)
(* condition variable, and a watchdog restarts a device that went silent.  *)
(*                                                                         *)
(* A slot has two parts, the window (to 12.6 s) and the gap (to 15 s).     *)
(* Samples come in units: WindowUnits in a window, GapUnits in a gap; a    *)
(* buffer holds BufferUnits, and the decoder wants MinUnits.  In place of  *)
(* its value a unit carries its age, the number of parts ended since.      *)
(*                                                                         *)
(* The index of the buffer being filled is written by the callback         *)
(* (iqIndex++) and by the main loop (iqIndex = 0) without a lock: an       *)
(* increment under way when the index is reset undoes the reset, and one   *)
(* under way at the swap lands in the buffer just handed over.             *)
(*                                                                         *)
(* The decoder waits without a predicate, and pthread_cond_wait() may      *)
(* return although nobody signalled: a spurious return is a step too.      *)
(***************************************************************************)
EXTENDS Naturals, FiniteSets

CONSTANTS
    Sources,      \* where samples come from: "rtl", "synthetic" (--rx-test, --fake-tx)
    WindowUnits, GapUnits, BufferUnits, MinUnits,
    STALL,        \* RTL_STALL_TIMEOUT, in slots
    RTL_MAX_RESTART,
    Maxloop,      \* decodings after which the program ends, 0 for none
    MaxAge,       \* bound: ages told apart
    MaxRaces,     \* bound: resets undone by the callback
    MaxSpurious   \* bound: spurious returns of pthread_cond_wait()

ASSUME ReceiverAssumption ==
    /\ Sources \subseteq {"rtl", "synthetic"}
    /\ WindowUnits \in Nat \ {0} /\ GapUnits \in Nat /\ MinUnits \in Nat
    /\ MinUnits <= WindowUnits
    /\ BufferUnits = WindowUnits + GapUnits
    /\ STALL \in Nat /\ STALL >= 2     \* 30 s
    /\ RTL_MAX_RESTART \in Nat \ {0} /\ Maxloop \in Nat
    /\ MaxAge \in Nat \ {0} /\ MaxRaces \in Nat /\ MaxSpurious \in Nat

VARIABLES
    source,
    part,         \* of the slot: "window", "gap"
    due,          \* units the device has still to deliver in this part
    mpc,          \* the main loop
    bufferIndex, iqIndex,
    samples,      \* ages of the units of each buffer
    races,
    cbpc, cbIdx, cbPos,           \* the callback, one unit at a time
    rtl_device, streaming,        \* handle; rtlsdr_read_async() delivers
    secondReader, \* the rx thread main() creates a second time has not run yet
    cbNew,        \* callback_counter # lastSeenCbCount
    patience,     \* slots until lastCbChange is RTL_STALL_TIMEOUT ago
    restartFailures,
    dpc, decBuf, nloop,           \* the decoder
    spurious,     \* spurious returns so far
    spuriousWake, \* one of them began the reading under way (history)
    repeats,      \* decodings of a buffer decoded before (history)
    exit_flag,
    quiet,        \* slots ended since the last unit (history)
    handed,       \* a swapped buffer the decoder has not looked at (history)
    aligned,      \* the index was reset at the start of a slot (history)
    whole         \* the device delivered since the start of this window (history)

mainVars  == <<mpc, bufferIndex, races>>
cbVars    == <<cbpc, cbIdx, cbPos>>
rtlVars   == <<rtl_device, streaming, secondReader>>
watchVars == <<cbNew, patience, restartFailures>>
decVars   == <<dpc, decBuf, nloop, spurious, spuriousWake, repeats>>
history   == <<quiet, handed, aligned, whole>>
vars == <<source, part, due, mainVars, iqIndex, samples, cbVars, rtlVars,
          watchVars, decVars, exit_flag, history>>

Buffers == {0, 1}
Other(b) == 1 - b
Units(p) == IF p = "window" THEN WindowUnits ELSE GapUnits

(* The device streams while main() shows the splash and waits for the      *)
(* slot: the first buffer may already hold anything.                       *)
Init ==
    /\ source \in Sources
    /\ part \in {"window", "gap"}
    /\ due \in 0 .. Units(part)
    /\ mpc = "top"
    /\ bufferIndex = 0
    /\ \E n \in {0, BufferUnits} : iqIndex = [b \in Buffers |-> IF b = 0 THEN n ELSE 0]
    /\ samples = [b \in Buffers |-> [i \in 1 .. BufferUnits |-> MaxAge]]
    /\ races = 0
    /\ cbpc = "idle" /\ cbIdx = 0 /\ cbPos = 0
    /\ rtl_device = (source = "rtl") /\ streaming = (source = "rtl")
    /\ secondReader = (source = "rtl")
    /\ cbNew = FALSE /\ patience \in {STALL, STALL + 1} /\ restartFailures = 0
    /\ dpc = "check" /\ decBuf = 0 /\ nloop = 0
    /\ spurious = 0 /\ spuriousWake = FALSE /\ repeats = 0
    /\ exit_flag = FALSE
    /\ quiet = 0 /\ handed = FALSE /\ aligned = FALSE /\ whole = FALSE

-----------------------------------------------------------------------------
(* Time *)

(* The main loop sleeps and its sleep is over. *)
SwapDue  == mpc = "swap" /\ part = "gap"
ResetDue == mpc \in {"reset", "realign"} /\ part = "window"

(* A part of the slot ends.  The main loop has reacted before the part in  *)
(* which it should is over.  The decoder may be as late as it likes, with  *)
(* one exception: signalled at one swap, it has woken up, normalised the   *)
(* samples and done the FFT by the next; decode() may take longer.  A      *)
(* device that streams has delivered its units; one may still be on its    *)
(* way to the buffer when the gap ends.                                    *)
PartEnds ==
    /\ ~SwapDue /\ ~ResetDue /\ mpc \notin {"top", "swapped", "watch"}
    /\ part = "window" => cbpc = "idle" /\ (dpc \in {"woken", "fft"} => spuriousWake)
    /\ streaming => due = 0
    /\ ~secondReader
    /\ part' = IF part = "window" THEN "gap" ELSE "window"
    /\ due' = IF streaming THEN Units(part') ELSE 0
    /\ samples' = [b \in Buffers |-> [i \in 1 .. BufferUnits |->
                      IF samples[b][i] < MaxAge THEN samples[b][i] + 1 ELSE MaxAge]]
    /\ IF part = "gap"
       THEN /\ patience' = IF patience > 0 THEN patience - 1 ELSE 0
            /\ quiet' = IF quiet < STALL THEN quiet + 1 ELSE STALL
            /\ whole' = streaming
       ELSE UNCHANGED <<patience, quiet, whole>>
    /\ UNCHANGED <<source, mainVars, iqIndex, cbVars, rtlVars, cbNew,
                   restartFailures, decVars, exit_flag, handed, aligned>>

-----------------------------------------------------------------------------
(* The device and its callback *)

(* Mutation: the bound is not tested. *)
CallbackRead_Unbounded ==
    /\ streaming /\ due > 0 /\ cbpc = "idle"
    /\ ~ResetDue
    /\ due' = due - 1
    /\ cbNew' = TRUE /\ quiet' = 0
    /\ cbIdx' = bufferIndex
    /\ cbPos' = iqIndex[bufferIndex]
    /\ cbpc' = "store"
    /\ UNCHANGED <<source, part, mainVars, iqIndex, samples, rtlVars, patience,
                   restartFailures, decVars, exit_flag, handed,
                   aligned, whole>>

(* The buffer and the place in it; a full buffer takes nothing. *)
CallbackRead ==
    /\ streaming /\ due > 0 /\ cbpc = "idle"
    /\ ~ResetDue
    /\ due' = due - 1
    /\ cbNew' = TRUE /\ quiet' = 0
    /\ IF iqIndex[bufferIndex] < BufferUnits
       THEN /\ cbIdx' = bufferIndex
            /\ cbPos' = iqIndex[bufferIndex]
            /\ cbpc' = "store"
       ELSE UNCHANGED cbVars
    /\ UNCHANGED <<source, part, mainVars, iqIndex, samples, rtlVars, patience,
                   restartFailures, decVars, exit_flag, handed,
                   aligned, whole>>

(* The samples, and the second half of iqIndex++. *)
CallbackStore ==
    /\ cbpc = "store"
    /\ samples' = [samples EXCEPT ![cbIdx][cbPos + 1] = 0]
    /\ iqIndex' = [iqIndex EXCEPT ![cbIdx] = cbPos + 1]
    /\ cbpc' = "idle" /\ cbIdx' = 0 /\ cbPos' = 0
    /\ UNCHANGED <<source, part, due, mainVars, rtlVars, watchVars, decVars,
                   exit_flag, history>>

Stop ==
    /\ streaming' = FALSE
    /\ due' = 0
    /\ whole' = FALSE

(* rtlsdr_rx() started a second time: rtlsdr_read_async() refuses, and the *)
(* rtlsdr_cancel_async() behind it stops the first reader.                 *)
SecondReader ==
    /\ secondReader
    /\ secondReader' = FALSE
    /\ Stop
    /\ UNCHANGED <<source, part, mainVars, iqIndex, samples, cbVars, rtl_device,
                   watchVars, decVars, exit_flag, quiet, handed, aligned>>

(* The dongle is pulled out or hangs. *)
RadioStops ==
    /\ streaming /\ Stop
    /\ UNCHANGED <<source, part, mainVars, iqIndex, samples, cbVars, rtl_device,
                   secondReader, watchVars, decVars, exit_flag, quiet,
                   handed, aligned>>

-----------------------------------------------------------------------------
(* The main loop *)

Leaves == exit_flag \/ (Maxloop > 0 /\ nloop >= Maxloop)

LoopTop ==
    /\ mpc = "top"
    /\ mpc' = CASE Leaves                        -> "stop"
                [] ~Leaves /\ part = "window"    -> "swap"
                [] OTHER                         -> "realign"
    /\ UNCHANGED <<source, part, due, bufferIndex, races, iqIndex, samples, cbVars,
                   rtlVars, watchVars, decVars, exit_flag, history>>

(* Mutation: the index is reset before the buffers are swapped. *)
Swap_ResetFirst ==
    /\ mpc = "swap" /\ (part = "gap" \/ exit_flag)
    /\ iqIndex' = [iqIndex EXCEPT ![bufferIndex] = 0]
    /\ bufferIndex' = Other(bufferIndex)
    /\ mpc' = "swapped" /\ handed' = TRUE
    /\ UNCHANGED <<source, part, due, races, samples, cbVars, rtlVars, watchVars,
                   decVars, exit_flag, quiet, aligned, whole>>

(* At 12.6 s, or when a signal interrupts the sleep, whatever the callback *)
(* is doing; a synthetic source fills the whole buffer first.              *)
Swap ==
    /\ mpc = "swap" /\ (part = "gap" \/ exit_flag)
    /\ IF source = "synthetic"
       THEN /\ iqIndex' = [iqIndex EXCEPT ![bufferIndex] = BufferUnits]
            /\ samples' = [samples EXCEPT ![bufferIndex] = [i \in 1 .. BufferUnits |-> 1]]
       ELSE UNCHANGED <<iqIndex, samples>>
    /\ bufferIndex' = Other(bufferIndex)
    /\ mpc' = "swapped" /\ handed' = TRUE
    /\ UNCHANGED <<source, part, due, races, cbVars, rtlVars, watchVars, decVars,
                   exit_flag, quiet, aligned, whole>>

(* iqIndex[bufferIndex] = 0, against an increment under way.  Without one, *)
(* nothing ever reads what the buffer held: its age is as good as MaxAge.  *)
ResetIndex ==
    /\ iqIndex' = [iqIndex EXCEPT ![bufferIndex] = 0]
    /\ IF cbpc = "store" /\ cbIdx = bufferIndex /\ cbPos > 0
       THEN /\ races < MaxRaces /\ races' = races + 1
            /\ UNCHANGED samples
       ELSE /\ races' = races
            /\ samples' = [samples EXCEPT ![bufferIndex] = [i \in 1 .. BufferUnits |-> MaxAge]]

(* pthread_cond_signal(): nobody waiting, nothing happens. *)
Signal ==
    /\ dpc' = IF dpc = "wait" THEN "woken" ELSE dpc
    /\ UNCHANGED <<decBuf, nloop, spurious, spuriousWake, repeats>>

(* Mutation: the signal is forgotten. *)
SignalDecoder_Drop ==
    /\ mpc = "swapped"
    /\ ResetIndex
    /\ mpc' = "reset"
    /\ UNCHANGED <<source, part, due, bufferIndex, cbVars, rtlVars,
                   watchVars, decVars, exit_flag, history>>

SignalDecoder ==
    /\ mpc = "swapped"
    /\ ResetIndex
    /\ Signal
    /\ mpc' = "reset"
    /\ UNCHANGED <<source, part, due, bufferIndex, cbVars, rtlVars,
                   watchVars, exit_flag, history>>

Resetting ==
    /\ mpc \in {"reset", "realign"} /\ (part = "window" \/ exit_flag)
    /\ mpc' = IF source = "rtl" THEN "watch" ELSE "top"
    /\ UNCHANGED <<source, part, due, cbVars, rtlVars, watchVars, exit_flag,
                   quiet, whole>>

(* Mutation: the index is reset with the swap only. *)
ResetAtSlot_Skip ==
    /\ Resetting
    /\ aligned' = TRUE
    /\ UNCHANGED <<bufferIndex, races, iqIndex, samples, decVars, handed>>

(* Mutation: the old loop, that swaps again and signals at 15 s. *)
ResetAtSlot_Swap ==
    /\ Resetting
    /\ bufferIndex' = Other(bufferIndex)
    /\ iqIndex' = [iqIndex EXCEPT ![bufferIndex'] = 0]
    /\ Signal
    /\ aligned' = TRUE
    /\ UNCHANGED <<races, samples, handed>>

(* Mutation: the other branch of the loop signals too. *)
ResetAtSlot_Signal ==
    /\ Resetting
    /\ ResetIndex
    /\ Signal
    /\ aligned' = TRUE
    /\ UNCHANGED <<bufferIndex, handed>>

(* At 15 s the index is reset once more, on both branches of the loop. *)
ResetAtSlot ==
    /\ Resetting
    /\ ResetIndex
    /\ aligned' = TRUE
    /\ UNCHANGED <<bufferIndex, decVars, handed>>

Watching ==
    /\ mpc = "watch"
    /\ UNCHANGED <<source, part, due, bufferIndex, races, iqIndex, samples, cbVars,
                   rtlVars, decVars, exit_flag, history>>

(* Mutation: the old test, of one turn of the loop against the next. *)
Watchdog_Equality ==
    /\ Watching
    /\ cbNew' = FALSE
    /\ mpc' = IF cbNew THEN "top" ELSE "restart"
    /\ UNCHANGED <<patience, restartFailures>>

(* Callbacks seen since the last turn, or a stall. *)
Watchdog ==
    /\ Watching
    /\ IF cbNew
       THEN /\ cbNew' = FALSE /\ patience' = STALL /\ restartFailures' = 0
            /\ mpc' = "top"
       ELSE /\ mpc' = IF patience = 0 THEN "restart" ELSE "top"
            /\ UNCHANGED watchVars

Restarting ==
    /\ mpc = "restart"
    /\ patience' \in {STALL, STALL + 1}
    /\ cbNew' = FALSE
    /\ UNCHANGED <<source, part, bufferIndex, races, iqIndex, samples, cbVars,
                   secondReader, decVars, quiet, handed, aligned>>

(* restartRtlDevice(): cancel, join, close, open; it may take slots. *)
RestartOk ==
    /\ Restarting
    /\ rtl_device' = TRUE /\ streaming' = TRUE
    /\ due' \in 0 .. Units(part) /\ whole' = FALSE
    /\ restartFailures' = 0
    /\ mpc' = "top"
    /\ UNCHANGED exit_flag

(* Mutation: the count starts again with every attempt. *)
RestartFails_Forgets ==
    /\ Restarting
    /\ rtl_device' = FALSE
    /\ restartFailures' = 1
    /\ mpc' = "top"
    /\ exit_flag' = (exit_flag \/ restartFailures' >= RTL_MAX_RESTART)
    /\ UNCHANGED <<streaming, due, whole>>

(* After RTL_MAX_RESTART failures in a row the program ends. *)
RestartFails ==
    /\ Restarting
    /\ rtl_device' = FALSE
    /\ Stop
    /\ restartFailures' = restartFailures + 1
    /\ mpc' = "top"
    /\ exit_flag' = (exit_flag \/ restartFailures' >= RTL_MAX_RESTART)

-----------------------------------------------------------------------------
(* The end of the program *)

(* The exit flag and the signal to the decoder. *)
StopDecoder ==
    /\ mpc = "stop"
    /\ exit_flag' = TRUE
    /\ Signal
    /\ mpc' = "close"
    /\ UNCHANGED <<source, part, due, bufferIndex, races, iqIndex, samples, cbVars,
                   rtlVars, watchVars, history>>

(* rtlsdr_cancel_async() and rtlsdr_close(), then freeFFTW(), which may    *)
(* come while the decoder still works; what it computes after that is not  *)
(* followed, the program being about to end.                               *)
FreeAll ==
    /\ mpc = "close"
    /\ Stop
    /\ mpc' = "join"
    /\ UNCHANGED <<source, part, bufferIndex, races, iqIndex, samples, cbVars,
                   rtl_device, secondReader, watchVars, decVars, exit_flag,
                   quiet, handed, aligned>>

(* pthread_join() of the decoder. *)
JoinDecoder ==
    /\ mpc = "join" /\ dpc = "done"
    /\ mpc' = "done"
    /\ UNCHANGED <<source, part, due, bufferIndex, races, iqIndex, samples, cbVars,
                   rtlVars, watchVars, decVars, exit_flag, history>>

Main == \/ LoopTop \/ Swap \/ SignalDecoder \/ ResetAtSlot \/ Watchdog
        \/ RestartOk \/ RestartFails \/ StopDecoder \/ FreeAll \/ JoinDecoder

(* SIGINT: the flag, and the device is cancelled. *)
SigintHandler ==
    /\ ~exit_flag
    /\ exit_flag' = TRUE
    /\ Stop
    /\ UNCHANGED <<source, part, mainVars, iqIndex, samples, cbVars, rtl_device,
                   secondReader, watchVars, decVars, quiet, handed, aligned>>

(* The EXIT command. *)
ProgramQuit ==
    /\ ~exit_flag
    /\ exit_flag' = TRUE
    /\ UNCHANGED <<source, part, due, mainVars, iqIndex, samples, cbVars, rtlVars,
                   watchVars, decVars, history>>

-----------------------------------------------------------------------------
(* The decoder *)

DecoderOnly ==
    UNCHANGED <<source, part, due, mainVars, iqIndex, samples, cbVars, rtlVars,
                watchVars, exit_flag, quiet, aligned, whole>>

(* while (!exit_flag), before the lock of the condition is taken. *)
DecoderCheck ==
    /\ dpc = "check"
    /\ dpc' = IF exit_flag THEN "done" ELSE "lock"
    /\ UNCHANGED <<decBuf, nloop, spurious, spuriousWake, repeats, handed>>
    /\ DecoderOnly

DecoderWaits ==
    /\ dpc = "lock"
    /\ dpc' = "wait"
    /\ UNCHANGED <<decBuf, nloop, spurious, spuriousWake, repeats, handed>>
    /\ DecoderOnly

(* pthread_cond_wait() returns by itself; safe_cond_wait() has no          *)
(* predicate to test.                                                      *)
SpuriousWakeup ==
    /\ dpc = "wait" /\ spurious < MaxSpurious
    /\ dpc' = "woken"
    /\ spurious' = spurious + 1 /\ spuriousWake' = TRUE
    /\ UNCHANGED <<decBuf, nloop, repeats, handed>>
    /\ DecoderOnly

TooShort(b) == iqIndex[b] < MinUnits

(* The buffer that is not being filled, unless it is too short. *)
DecoderWakes ==
    /\ dpc = "woken" /\ ~exit_flag
    /\ handed' = FALSE
    /\ IF TooShort(Other(bufferIndex))
       THEN /\ dpc' = "check" /\ spuriousWake' = FALSE
            /\ UNCHANGED <<decBuf, nloop, repeats>>
       ELSE /\ dpc' = "fft"
            /\ decBuf' = Other(bufferIndex)
            /\ nloop' = IF nloop < Maxloop THEN nloop + 1 ELSE nloop
            /\ repeats' = IF handed THEN repeats ELSE repeats + 1
            /\ UNCHANGED spuriousWake
    /\ UNCHANGED spurious
    /\ DecoderOnly

(* "Abort case, final sig" *)
DecoderAborts ==
    /\ dpc = "woken" /\ exit_flag
    /\ dpc' = "done" /\ spuriousWake' = FALSE
    /\ UNCHANGED <<decBuf, nloop, spurious, repeats, handed>>
    /\ DecoderOnly

(* The normalised samples have gone through the FFT; the buffer is not     *)
(* read any more.                                                          *)
FftEnds ==
    /\ dpc = "fft"
    /\ dpc' = "decode" /\ decBuf' = 0 /\ spuriousWake' = FALSE
    /\ UNCHANGED <<nloop, spurious, repeats, handed>>
    /\ DecoderOnly

(* decode(): the messages and the tick of the slot; postSpots(). *)
DecodeEnds ==
    /\ dpc = "decode"
    /\ dpc' = "check"
    /\ UNCHANGED <<decBuf, nloop, spurious, spuriousWake, repeats, handed>>
    /\ DecoderOnly

Decoder == \/ DecoderCheck \/ DecoderWaits \/ DecoderWakes \/ DecoderAborts
           \/ FftEnds \/ DecodeEnds

Finished == mpc = "done" /\ UNCHANGED vars

Next == \/ PartEnds \/ CallbackRead \/ CallbackStore \/ SecondReader
        \/ RadioStops \/ Main \/ SigintHandler \/ ProgramQuit \/ Decoder
        \/ SpuriousWakeup \/ Finished

Spec == Init /\ [][Next]_vars

(* Time passes, the threads are scheduled and a device that streams goes   *)
(* on doing so; it need not stop, restarts need not succeed, and nothing   *)
(* makes a wait return spuriously.                                         *)
Fairness == /\ WF_vars(PartEnds) /\ WF_vars(CallbackRead) /\ WF_vars(CallbackStore)
            /\ WF_vars(SecondReader) /\ WF_vars(Main) /\ WF_vars(Decoder)

FairSpec == Spec /\ Fairness

-----------------------------------------------------------------------------
(* Properties *)

(* Every variable keeps to its values; no index passes the end of its      *)
(* buffer.                                                                 *)
ReceiverTypeOK ==
    /\ part \in {"window", "gap"} /\ due \in 0 .. BufferUnits
    /\ mpc \in {"top", "swap", "swapped", "reset", "realign", "watch", "restart",
                "stop", "close", "join", "done"}
    /\ bufferIndex \in Buffers
    /\ iqIndex \in [Buffers -> 0 .. BufferUnits]
    /\ samples \in [Buffers -> [1 .. BufferUnits -> 0 .. MaxAge]]
    /\ cbpc \in {"idle", "store"} /\ cbIdx \in Buffers
    /\ cbPos \in 0 .. BufferUnits - 1
    /\ dpc \in {"check", "lock", "wait", "woken", "fft", "decode", "done"}
    /\ decBuf \in Buffers
    /\ patience \in 0 .. STALL + 1
    /\ restartFailures \in 0 .. RTL_MAX_RESTART
    /\ nloop \in 0 .. Maxloop /\ spurious \in 0 .. MaxSpurious /\ repeats \in 0 .. MaxSpurious

(* While a decoder that was signalled normalises a buffer and takes its    *)
(* FFT, the callback is sent to the other one, although nothing but the    *)
(* timing of the main loop keeps the decoder's choice of buffer and        *)
(* bufferIndex apart.  (The unit under way at the swap may still land in   *)
(* the decoder's buffer, and a decoder that woke up by itself may be       *)
(* overtaken by the next swap.)                                            *)
ReaderHasItsBuffer ==
    dpc = "fft" /\ ~spuriousWake /\ ~exit_flag => decBuf # bufferIndex

(* A buffer handed to the decoder holds samples of the window that has     *)
(* just ended and at worst of the gap before it: because the index is      *)
(* reset twice, at the swap and at the slot, one undone reset never lets   *)
(* samples of an earlier slot be decoded as this slot's.  (Before the      *)
(* first reset at a slot the buffer may hold anything.)                    *)
NoOlderSamples ==
    races <= 1 /\ mpc = "swapped" /\ aligned /\ ~exit_flag =>
        \A i \in 1 .. iqIndex[Other(bufferIndex)] : samples[Other(bufferIndex)][i] <= 2

(* Signals never make the decoder take a buffer it has decoded, wherever   *)
(* they meet late, lost and spurious wake-ups: each decoding too many is   *)
(* the work of a spurious return of its own.                               *)
RepeatsAreSpurious == repeats <= spurious

(* When the device delivered through the window, the buffer is not too     *)
(* short to be decoded, wherever resets and callbacks met.                 *)
EnoughWhenStreaming ==
    mpc = "swapped" /\ aligned /\ whole /\ ~exit_flag =>
        ~TooShort(Other(bufferIndex))

(* The watchdog takes down a device only after RTL_STALL_TIMEOUT without a *)
(* callback, and never one that delivers.                                  *)
NoNeedlessRestart == mpc = "restart" => quiet = STALL /\ ~streaming

(* A device that fell silent is restarted, or the program gives up.        *)
StallIsHandled == (source = "rtl" /\ ~streaming) ~> (streaming \/ exit_flag)

(* As long as samples come, slots go on being decoded: lost signals, short *)
(* buffers and slow decodings delay the decoder but never park it.         *)
DecodingGoesOn ==
    <>[]((streaming \/ source = "synthetic") /\ ~exit_flag) => []<>(dpc = "decode")

(* The end of main() (rtlsdr_ft8d.cpp:2267): "Wait the thread join (send a *)
(* signal before to terminate the job)".                                   *)
ShutdownCompletes == exit_flag ~> mpc = "done"
=============================================================================
