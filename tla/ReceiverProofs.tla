--------------------------- MODULE ReceiverProofs ---------------------------
(***************************************************************************)
(* Proofs about the receiving side: the buffers, the watchdog and the      *)
(* hand-over to the decoder.  Nothing is claimed once exit_flag is set,    *)
(* except types: the exit path swaps and resets outside the slot.          *)
(***************************************************************************)
EXTENDS Receiver, TLAPS

(* Where the values of the variables alone are not enough: the failures    *)
(* counted.                                                                *)
BasicInv ==
    /\ ReceiverTypeOK
    /\ quiet \in 0 .. STALL /\ races \in Nat
    /\ restartFailures >= RTL_MAX_RESTART =>
          exit_flag /\ mpc \in {"top", "stop", "close", "join", "done"}
    /\ handed \in BOOLEAN /\ spuriousWake \in BOOLEAN

(* The callback stores in the buffer being filled, or, begun before a      *)
(* swap, in the one just handed over.                                      *)
Storing == cbpc = "store" /\ cbIdx = bufferIndex
Crossing == cbpc = "store" /\ cbIdx # bufferIndex

(* The decoder works on account of a signal that it has not yet served. *)
Signalled == dpc \in {"woken", "fft"} /\ ~spuriousWake

(* What the timing of the main loop comes to: the decoder is signalled in  *)
(* the gap, right after the swap, and has done its FFT before the next; a  *)
(* unit stored over the swap is in its buffer before the window ends.      *)
TimingInv ==
    /\ spuriousWake => dpc \in {"woken", "fft"}
    /\ ~exit_flag =>
          /\ mpc = "swapped" => part = "gap" /\ ~Signalled
          /\ mpc = "swap" /\ part = "gap" => ~Signalled
          /\ mpc = "watch" => part = "window"
          /\ part = "gap" /\ Crossing => mpc \in {"swapped", "reset"}
          /\ dpc = "fft" /\ Signalled => decBuf # bufferIndex

(* Every spurious return pays for one decoding too many: the one done, the *)
(* one the decoder is about to begin, or the one the main loop is about to *)
(* signal for a buffer the decoder has seen already.                       *)
Debt(b) == IF b THEN 1 ELSE 0

RepeatInv ==
    /\ repeats <= spurious
    /\ ~exit_flag =>
          repeats + Debt(dpc = "woken" /\ (spuriousWake \/ ~handed))
                  + Debt(mpc = "swapped" /\ ~handed) <= spurious

(* The watchdog: its patience and the silence add up to the time allowed,  *)
(* and a device that streams has been heard within a slot.                 *)
PatienceInv ==
    /\ ~cbNew => patience + quiet >= STALL
    /\ streaming /\ ~cbNew =>
          \/ patience >= STALL
          \/ patience = STALL - 1 /\ part = "window" /\ due > 0
    /\ cbpc = "store" => quiet = 0 \/ (quiet = 1 /\ part = "window")
    /\ NoNeedlessRestart

(* The units of a window that the device delivered throughout are in the   *)
(* buffer, or the callback is about to count the last of them.             *)
CountInv ==
    /\ whole => streaming
    /\ whole /\ ~exit_flag /\ part = "window" =>
          /\ mpc \in {"reset", "realign"} => due = WindowUnits
          /\ mpc \in {"top", "watch", "swap"} =>
                IF Storing THEN cbPos + 1 >= WindowUnits - due
                ELSE iqIndex[bufferIndex] >= WindowUnits - due
    /\ whole /\ ~exit_flag /\ part = "gap" /\ mpc = "swap" =>
          /\ iqIndex[bufferIndex] >= WindowUnits
          /\ Storing => cbPos + 1 >= WindowUnits
    /\ whole /\ ~exit_flag /\ mpc = "swapped" /\ Crossing => cbPos + 1 >= WindowUnits
    /\ EnoughWhenStreaming

(* The first n units of buffer b are at most a parts old. *)
Fresh(b, n, a) == \A i \in 1 .. n : samples[b][i] <= a

(* Of the buffer being filled: the units the index will cover when the     *)
(* callback is done with the one it stores.                                *)
Filled == IF Storing THEN cbPos ELSE iqIndex[bufferIndex]

FreshNow(a) == Fresh(bufferIndex, Filled, a)

(* Before the reset at the slot: what the buffer holds if that reset is    *)
(* undone.                                                                 *)
Clean(a) ==
    races = 0 => \/ FreshNow(a)
                 \/ ~Storing /\ iqIndex[bufferIndex] = BufferUnits

AgeInv ==
    ~exit_flag =>
       /\ mpc \in {"top", "reset", "realign"} /\ part = "gap" => Clean(0)
       /\ mpc \in {"reset", "realign"} /\ part = "window" => Clean(1)
       /\ mpc = "restart" => cbpc = "idle" /\ iqIndex[bufferIndex] = 0
       /\ mpc = "watch" /\ quiet >= 2 => iqIndex[bufferIndex] = 0
       /\ races <= 1 /\ aligned /\ part = "window" /\ mpc \in {"top", "watch", "swap"} =>
             FreshNow(1)
       /\ races <= 1 /\ aligned /\ part = "gap" /\ mpc = "swap" => FreshNow(2)
       /\ part = "gap" /\ mpc = "swap" /\ Storing => cbPos = iqIndex[bufferIndex]
       /\ races <= 1 /\ aligned /\ mpc = "swapped" /\ Crossing => Fresh(cbIdx, cbPos, 2)
       /\ NoOlderSamples

ReceiverInv == BasicInv /\ TimingInv /\ RepeatInv /\ PatienceInv /\ CountInv /\ AgeInv

-----------------------------------------------------------------------------
(* Types and the callback's buffer *)

(* The buffers at the start *)
LEMMA BasicInit == Init => BasicInv
<1> SUFFICES ASSUME Init PROVE BasicInv
  OBVIOUS
<1> USE ReceiverAssumption
<1>2. due \in 0 .. BufferUnits /\ part \in {"window", "gap"}
  BY DEF Init, Units
<1>3. iqIndex \in [Buffers -> 0 .. BufferUnits]
  <2>1. PICK n \in {0, BufferUnits} : iqIndex = [b \in Buffers |-> IF b = 0 THEN n ELSE 0]
    BY DEF Init
  <2> QED
    BY <2>1
<1>4. samples \in [Buffers -> [1 .. BufferUnits -> 0 .. MaxAge]]
  BY DEF Init
<1>5. /\ mpc = "top" /\ bufferIndex = 0 /\ races = 0 /\ cbpc = "idle" /\ cbIdx = 0 /\ cbPos = 0
      /\ cbNew = FALSE /\ patience \in {STALL, STALL + 1} /\ restartFailures = 0
      /\ dpc = "check" /\ decBuf = 0 /\ nloop = 0 /\ exit_flag = FALSE
      /\ spurious = 0 /\ spuriousWake = FALSE /\ repeats = 0
      /\ quiet = 0 /\ handed = FALSE /\ aligned = FALSE /\ whole = FALSE
  BY DEF Init
<1>6. ReceiverTypeOK
  BY <1>2, <1>3, <1>4, <1>5 DEF ReceiverTypeOK, Buffers
<1>7. quiet \in 0 .. STALL /\ races \in Nat /\ ~(restartFailures >= RTL_MAX_RESTART)
  BY <1>5
<1>8. handed \in BOOLEAN /\ spuriousWake \in BOOLEAN
  BY <1>5
<1> QED
  BY <1>6, <1>7, <1>8 DEF BasicInv

(* A part of a slot fits into a buffer. *)
LEMMA UnitsType == Units("window") \in 1 .. BufferUnits /\ Units("gap") \in 0 .. BufferUnits
BY ReceiverAssumption DEF Units

(* There are two buffers. *)
LEMMA OtherType == \A b \in Buffers : Other(b) \in Buffers /\ Other(b) # b
BY DEF Other, Buffers

(* Every step of every thread keeps BasicInv. *)
LEMMA BasicStep == ReceiverInv /\ [Next]_vars => BasicInv'
<1> SUFFICES ASSUME ReceiverInv, [Next]_vars PROVE BasicInv'
  OBVIOUS
<1> USE ReceiverAssumption, UnitsType, OtherType
<1> USE DEF BasicInv, ReceiverTypeOK
<1>0. BasicInv
  BY DEF ReceiverInv
<1>20. ResetIndex => /\ races' \in Nat /\ iqIndex' \in [Buffers -> 0 .. BufferUnits]
                     /\ samples' \in [Buffers -> [1 .. BufferUnits -> 0 .. MaxAge]]
  <2> SUFFICES ASSUME ResetIndex
               PROVE  /\ races' \in Nat /\ iqIndex' \in [Buffers -> 0 .. BufferUnits]
                      /\ samples' \in [Buffers -> [1 .. BufferUnits -> 0 .. MaxAge]]
    OBVIOUS
  <2>1. races \in Nat /\ iqIndex \in [Buffers -> 0 .. BufferUnits] /\ 0 \in 0 .. BufferUnits
    BY <1>0
  <2>2. /\ races' \in {races, races + 1}
        /\ iqIndex' = [iqIndex EXCEPT ![bufferIndex] = 0]
    BY DEF ResetIndex
  <2> HIDE DEF BasicInv, ReceiverTypeOK
  <2>3. races' \in Nat
    BY <2>1, <2>2
  <2>4. iqIndex' \in [Buffers -> 0 .. BufferUnits]
    <3> DEFINE U == 0 .. BufferUnits
    <3>1. iqIndex \in [Buffers -> U] /\ 0 \in U /\ iqIndex' = [iqIndex EXCEPT ![bufferIndex] = 0]
      BY <2>1, <2>2
    <3> HIDE DEF U
    <3>2. iqIndex' \in [Buffers -> U]
      BY <3>1
    <3> QED
      BY <3>2 DEF U
  <2>5. samples' \in [Buffers -> [1 .. BufferUnits -> 0 .. MaxAge]]
    <3> DEFINE A == 0 .. MaxAge
               dead == [i \in 1 .. BufferUnits |-> MaxAge]
    <3>1. samples \in [Buffers -> [1 .. BufferUnits -> A]]
      BY <1>0 DEF BasicInv, ReceiverTypeOK
    <3>2. MaxAge \in A
      OBVIOUS
    <3>3. samples' = samples \/ samples' = [samples EXCEPT ![bufferIndex] = dead]
      BY DEF ResetIndex
    <3> HIDE DEF A
    <3>4. dead \in [1 .. BufferUnits -> A]
      BY <3>2
    <3> HIDE DEF dead
    <3>5. samples' \in [Buffers -> [1 .. BufferUnits -> A]]
      BY <3>1, <3>3, <3>4
    <3> QED
      BY <3>5 DEF A
  <2> QED
    BY <2>3, <2>4, <2>5
<1>1. CASE PartEnds
  <2>1. samples' \in [Buffers -> [1 .. BufferUnits -> 0 .. MaxAge]]
    <3> DEFINE older(b, i) == IF samples[b][i] < MaxAge THEN samples[b][i] + 1 ELSE MaxAge
    <3>1. samples' = [b \in Buffers |-> [i \in 1 .. BufferUnits |-> older(b, i)]]
      BY <1>1 DEF PartEnds
    <3>2. ASSUME NEW b \in Buffers, NEW i \in 1 .. BufferUnits PROVE older(b, i) \in 0 .. MaxAge
      <4>1. samples[b][i] \in 0 .. MaxAge
        BY <1>0
      <4> QED
        BY <4>1
    <3> HIDE DEF older
    <3> QED
      BY <3>1, <3>2
  <2>2. due' \in 0 .. BufferUnits /\ part' \in {"window", "gap"}
    <3>1. part' \in {"window", "gap"} /\ due' \in {Units(part'), 0}
      BY <1>1 DEF PartEnds
    <3>2. Units(part') \in 0 .. BufferUnits
      BY <3>1
    <3> QED
      BY <3>1, <3>2
  <2>3. patience' \in 0 .. STALL + 1 /\ quiet' \in 0 .. STALL
    <3>1. patience \in 0 .. STALL + 1 /\ quiet \in 0 .. STALL /\ STALL \in Nat
      BY <1>0
    <3>2. \/ /\ patience' = IF patience > 0 THEN patience - 1 ELSE 0
             /\ quiet' = IF quiet < STALL THEN quiet + 1 ELSE STALL
          \/ UNCHANGED <<patience, quiet>>
      BY <1>1 DEF PartEnds
    <3> HIDE DEF BasicInv, ReceiverTypeOK
    <3> QED
      BY <3>1, <3>2
  <2> QED
    BY <1>0, <1>1, <2>1, <2>2, <2>3 DEF PartEnds, mainVars, cbVars, rtlVars, decVars
<1>2. CASE CallbackRead
  <2>1. due' \in 0 .. BufferUnits /\ quiet' = 0 /\ 0 \in 0 .. STALL
    BY <1>0, <1>2 DEF CallbackRead
  <2>2. cbIdx' \in Buffers /\ cbPos' \in 0 .. BufferUnits - 1 /\ cbpc' \in {"idle", "store"}
    <3>1. /\ iqIndex[bufferIndex] \in 0 .. BufferUnits /\ bufferIndex \in Buffers
          /\ cbIdx \in Buffers /\ cbPos \in 0 .. BufferUnits - 1 /\ cbpc = "idle"
      BY <1>0, <1>2 DEF CallbackRead
    <3>2. \/ /\ iqIndex[bufferIndex] < BufferUnits
             /\ cbIdx' = bufferIndex /\ cbPos' = iqIndex[bufferIndex] /\ cbpc' = "store"
          \/ UNCHANGED cbVars
      BY <1>2 DEF CallbackRead
    <3>3. UNCHANGED bufferIndex
      BY <1>2 DEF CallbackRead, mainVars
    <3> HIDE DEF BasicInv, ReceiverTypeOK
    <3> QED
      BY <3>1, <3>2, <3>3 DEF cbVars
  <2> QED
    BY <1>0, <1>2, <2>1, <2>2 DEF CallbackRead, mainVars, rtlVars, decVars
<1>3. CASE CallbackStore
  <2>1. samples' \in [Buffers -> [1 .. BufferUnits -> 0 .. MaxAge]]
    <3> DEFINE stored == [samples[cbIdx] EXCEPT ![cbPos + 1] = 0]
    <3>1. /\ samples \in [Buffers -> [1 .. BufferUnits -> 0 .. MaxAge]]
          /\ cbIdx \in Buffers /\ 0 \in 0 .. MaxAge
      BY <1>0
    <3>2. samples' = [samples EXCEPT ![cbIdx] = stored]
      BY <1>3 DEF CallbackStore
    <3> HIDE DEF BasicInv, ReceiverTypeOK
    <3>3. stored \in [1 .. BufferUnits -> 0 .. MaxAge]
      BY <3>1
    <3> HIDE DEF stored
    <3> QED
      BY <3>1, <3>2, <3>3
  <2>2. iqIndex' \in [Buffers -> 0 .. BufferUnits]
    <3>1. /\ iqIndex \in [Buffers -> 0 .. BufferUnits]
          /\ cbIdx \in Buffers /\ cbPos + 1 \in 0 .. BufferUnits
      BY <1>0
    <3>2. iqIndex' = [iqIndex EXCEPT ![cbIdx] = cbPos + 1]
      BY <1>3 DEF CallbackStore
    <3> HIDE DEF BasicInv, ReceiverTypeOK
    <3> QED
      BY <3>1, <3>2
  <2>3. cbpc' = "idle" /\ cbIdx' = 0 /\ cbPos' = 0 /\ 0 \in Buffers
    BY <1>3 DEF CallbackStore, Buffers
  <2>4. UNCHANGED <<part, due, mpc, bufferIndex, races, dpc, decBuf, nloop, patience, quiet,
                    spurious, spuriousWake, repeats, handed, restartFailures, exit_flag>>
    BY <1>3 DEF CallbackStore, mainVars, watchVars, decVars, history
  <2>5. 0 \in 0 .. BufferUnits - 1
    OBVIOUS
  <2>6. due' \in 0 .. BufferUnits /\ cbPos' \in 0 .. BufferUnits - 1
        /\ cbIdx' \in Buffers /\ cbpc' \in {"idle", "store"}
    BY <1>0, <2>3, <2>4, <2>5
  <2>7. ReceiverTypeOK'
    BY <1>0, <2>1, <2>2, <2>4, <2>6
  <2>8. /\ quiet' \in 0 .. STALL /\ races' \in Nat
        /\ restartFailures' >= RTL_MAX_RESTART =>
              exit_flag' /\ mpc' \in {"top", "stop", "close", "join", "done"}
        /\ handed' \in BOOLEAN /\ spuriousWake' \in BOOLEAN
    BY <1>0, <2>4
  <2> HIDE DEF ReceiverTypeOK
  <2> QED
    BY <2>7, <2>8
<1>4. CASE SecondReader \/ RadioStops \/ SigintHandler \/ FreeAll
  <2>1. CASE SecondReader \/ RadioStops
    <3>1. /\ due' = 0 /\ 0 \in 0 .. BufferUnits
          /\ UNCHANGED <<part, mpc, bufferIndex, races, iqIndex, samples, cbpc, cbIdx, cbPos, dpc,
                         decBuf, nloop, spurious, spuriousWake, repeats, handed, patience,
                         quiet, restartFailures, exit_flag>>
      BY <2>1 DEF SecondReader, RadioStops, Stop, mainVars, cbVars, watchVars, decVars
    <3> QED
      BY <1>0, <3>1
  <2>3. CASE SigintHandler
    <3>1. /\ exit_flag' = TRUE /\ due' = 0 /\ 0 \in 0 .. BufferUnits
          /\ UNCHANGED <<part, mpc, bufferIndex, races, iqIndex, samples, cbpc, cbIdx, cbPos, dpc,
                         decBuf, nloop, spurious, spuriousWake, repeats, handed, patience,
                         quiet, restartFailures>>
      BY <2>3 DEF SigintHandler, Stop, mainVars, cbVars, watchVars, decVars
    <3> QED
      BY <1>0, <3>1
  <2>4. CASE FreeAll
    <3>1. /\ due' = 0 /\ 0 \in 0 .. BufferUnits /\ mpc = "close" /\ mpc' = "join"
          /\ UNCHANGED <<part, bufferIndex, races, iqIndex, samples, cbpc, cbIdx, cbPos, dpc,
                         decBuf, nloop, spurious, spuriousWake, repeats, handed, patience,
                         quiet, restartFailures, exit_flag>>
      BY <2>4 DEF FreeAll, Stop, cbVars, watchVars, decVars
    <3> QED
      BY <1>0, <3>1
  <2> QED
    BY <1>4, <2>1, <2>3, <2>4
<1>5. CASE ProgramQuit
  BY <1>0, <1>5 DEF ProgramQuit, mainVars, cbVars, rtlVars, watchVars, decVars, history
<1>6. CASE LoopTop
  <2>1. mpc = "top" /\ mpc' \in {"stop", "swap", "realign"} /\ (exit_flag => mpc' = "stop")
    BY <1>6 DEF LoopTop, Leaves
  <2> QED
    BY <1>0, <1>6, <2>1 DEF LoopTop, cbVars, rtlVars, watchVars, decVars, history
<1>7. CASE Swap
  <2>1. iqIndex' \in [Buffers -> 0 .. BufferUnits]
    <3>1. \/ iqIndex' = [iqIndex EXCEPT ![bufferIndex] = BufferUnits]
          \/ iqIndex' = iqIndex
      BY <1>7 DEF Swap
    <3>2. iqIndex \in [Buffers -> 0 .. BufferUnits] /\ BufferUnits \in 0 .. BufferUnits
      BY <1>0
    <3> HIDE DEF BasicInv, ReceiverTypeOK
    <3> QED
      BY <3>1, <3>2
  <2>2. samples' \in [Buffers -> [1 .. BufferUnits -> 0 .. MaxAge]]
    <3> DEFINE ones == [i \in 1 .. BufferUnits |-> 1]
    <3>1. \/ samples' = [samples EXCEPT ![bufferIndex] = ones]
          \/ samples' = samples
      BY <1>7 DEF Swap
    <3>2. ones \in [1 .. BufferUnits -> 0 .. MaxAge]
      OBVIOUS
    <3>3. samples \in [Buffers -> [1 .. BufferUnits -> 0 .. MaxAge]] /\ bufferIndex \in Buffers
      BY <1>0
    <3> HIDE DEF ones, BasicInv, ReceiverTypeOK
    <3> QED
      BY <3>1, <3>2, <3>3
  <2>3. /\ bufferIndex' \in Buffers /\ mpc = "swap" /\ mpc' = "swapped" /\ handed' = TRUE
        /\ UNCHANGED <<part, due, races, cbpc, cbIdx, cbPos, dpc, decBuf, nloop, spurious,
                       spuriousWake, repeats, patience, quiet, restartFailures, exit_flag>>
    BY <1>0, <1>7 DEF Swap, cbVars, watchVars, decVars
  <2> QED
    BY <1>0, <2>1, <2>2, <2>3
<1>8. CASE SignalDecoder
  <2>1. /\ races' \in Nat /\ iqIndex' \in [Buffers -> 0 .. BufferUnits]
        /\ samples' \in [Buffers -> [1 .. BufferUnits -> 0 .. MaxAge]]
    BY <1>8, <1>20 DEF SignalDecoder
  <2> QED
    BY <1>0, <1>8, <2>1 DEF SignalDecoder, Signal, cbVars, rtlVars, watchVars, history
<1>9. CASE ResetAtSlot
  <2>1. /\ races' \in Nat /\ iqIndex' \in [Buffers -> 0 .. BufferUnits]
        /\ samples' \in [Buffers -> [1 .. BufferUnits -> 0 .. MaxAge]]
    BY <1>9, <1>20 DEF ResetAtSlot
  <2>2. mpc \in {"reset", "realign"} /\ mpc' \in {"watch", "top"}
    BY <1>9 DEF ResetAtSlot, Resetting
  <2> QED
    BY <1>0, <1>9, <2>1, <2>2 DEF ResetAtSlot, Resetting, cbVars, rtlVars, watchVars, decVars
<1>10. CASE Watchdog
  <2>1. /\ patience' \in 0 .. STALL + 1 /\ restartFailures' \in {0, restartFailures}
        /\ mpc = "watch" /\ mpc' \in {"top", "restart"}
        /\ UNCHANGED <<part, due, bufferIndex, races, iqIndex, samples, cbpc, cbIdx, cbPos, dpc,
                       decBuf, nloop, spurious, spuriousWake, repeats, handed, quiet,
                       exit_flag>>
    BY <1>0, <1>10 DEF Watchdog, Watching, cbVars, rtlVars, watchVars, decVars, history
  <2>2. restartFailures < RTL_MAX_RESTART /\ restartFailures' \in 0 .. RTL_MAX_RESTART
    <3>1. restartFailures \in 0 .. RTL_MAX_RESTART /\ 0 \in 0 .. RTL_MAX_RESTART
      BY <1>0
    <3>2. restartFailures < RTL_MAX_RESTART
      BY <1>0, <2>1
    <3> QED
      BY <2>1, <3>1, <3>2
  <2>3. ReceiverTypeOK'
    BY <1>0, <2>1, <2>2
  <2>4. restartFailures' < RTL_MAX_RESTART
    BY <2>1, <2>2
  <2> HIDE DEF ReceiverTypeOK
  <2> QED
    BY <1>0, <2>1, <2>3, <2>4
<1>11. CASE RestartOk
  <2>1. due' \in 0 .. BufferUnits
    BY <1>0, <1>11 DEF RestartOk
  <2>2. patience' \in 0 .. STALL + 1 /\ restartFailures' = 0
    BY <1>0, <1>11 DEF RestartOk, Restarting
  <2> QED
    BY <1>0, <1>11, <2>1, <2>2 DEF RestartOk, Restarting, cbVars, decVars
<1>12. CASE RestartFails
  <2>1. patience' \in 0 .. STALL + 1 /\ restartFailures' = restartFailures + 1
        /\ mpc = "restart" /\ mpc' = "top"
    BY <1>12 DEF RestartFails, Restarting
  <2>2. restartFailures < RTL_MAX_RESTART
    BY <1>0, <2>1
  <2>3. restartFailures' >= RTL_MAX_RESTART => exit_flag'
    BY <1>12 DEF RestartFails
  <2> QED
    <3>1. /\ due' = 0 /\ 0 \in 0 .. BufferUnits
          /\ UNCHANGED <<part, bufferIndex, races, iqIndex, samples, cbpc, cbIdx, cbPos, dpc,
                         decBuf, nloop, spurious, spuriousWake, repeats, handed, quiet>>
      BY <1>12 DEF RestartFails, Restarting, Stop, cbVars, decVars
    <3> QED
      BY <1>0, <2>1, <2>2, <2>3, <3>1
<1>13. CASE StopDecoder
  BY <1>0, <1>13 DEF StopDecoder, Signal, cbVars, rtlVars, watchVars, history
<1>14. CASE JoinDecoder
  BY <1>0, <1>14 DEF JoinDecoder, cbVars, rtlVars, watchVars, decVars, history
<1>15. CASE Decoder \/ SpuriousWakeup
  <2>1. UNCHANGED <<part, due, mpc, bufferIndex, races, iqIndex, samples, cbpc, cbIdx, cbPos,
                    streaming, secondReader, cbNew, patience, restartFailures, exit_flag,
                    quiet, aligned, whole>>
    BY <1>15 DEF Decoder, DecoderCheck, DecoderWaits, DecoderWakes, DecoderAborts,
         SpuriousWakeup, FftEnds, DecodeEnds, DecoderOnly, mainVars, cbVars, rtlVars, watchVars
  <2>2. dpc' \in {"check", "lock", "wait", "woken", "fft", "decode", "done"}
        /\ decBuf' \in Buffers /\ nloop' \in 0 .. Maxloop
    <3>1. CASE DecoderWakes
      <4>1. bufferIndex \in Buffers /\ nloop \in 0 .. Maxloop /\ decBuf \in Buffers
        BY <1>0
      <4>2. /\ dpc' \in {"done", "check", "fft"}
            /\ decBuf' \in {decBuf, Other(bufferIndex)}
            /\ nloop' = nloop \/ (nloop < Maxloop /\ nloop' = nloop + 1)
        BY <3>1 DEF DecoderWakes
      <4> HIDE DEF BasicInv, ReceiverTypeOK
      <4> QED
        BY <4>1, <4>2
    <3>2. CASE \/ DecoderCheck \/ DecoderWaits \/ DecoderAborts \/ SpuriousWakeup
               \/ FftEnds \/ DecodeEnds
      <4>1. /\ dpc' \in {"done", "lock", "wait", "woken", "decode", "check"}
            /\ decBuf' \in {decBuf, 0} /\ nloop' = nloop
        BY <3>2 DEF DecoderCheck, DecoderWaits, DecoderAborts, SpuriousWakeup, FftEnds, DecodeEnds
      <4> QED
        BY <1>0, <4>1 DEF Buffers
    <3> QED
      BY <1>15, <3>1, <3>2 DEF Decoder
  <2>3. spurious' \in 0 .. MaxSpurious /\ repeats' \in 0 .. MaxSpurious
    <3>1. spurious \in 0 .. MaxSpurious /\ repeats \in 0 .. MaxSpurious /\ MaxSpurious \in Nat
      BY <1>0
    <3>2. CASE SpuriousWakeup
      <4>1. spurious < MaxSpurious /\ spurious' = spurious + 1 /\ repeats' = repeats
        BY <3>2 DEF SpuriousWakeup
      <4> HIDE DEF BasicInv, ReceiverTypeOK
      <4> QED
        BY <3>1, <4>1
    <3>3. CASE DecoderWakes
      <4>1. /\ spurious' = spurious /\ dpc = "woken" /\ ~exit_flag
            /\ repeats' = repeats \/ (repeats' = repeats + 1 /\ ~handed)
        BY <3>3 DEF DecoderWakes
      <4>2. ~handed => repeats + 1 + Debt(mpc = "swapped" /\ ~handed) <= spurious
        BY <4>1 DEF ReceiverInv, RepeatInv, Debt
      <4>3. Debt(mpc = "swapped" /\ ~handed) \in Nat
        BY DEF Debt
      <4> HIDE DEF BasicInv, ReceiverTypeOK
      <4> QED
        BY <3>1, <4>1, <4>2, <4>3
    <3>4. CASE DecoderCheck \/ DecoderWaits \/ DecoderAborts \/ FftEnds \/ DecodeEnds
      <4>1. spurious' = spurious /\ repeats' = repeats
        BY <3>4 DEF DecoderCheck, DecoderWaits, DecoderAborts, FftEnds, DecodeEnds
      <4> QED
        BY <3>1, <4>1
    <3> QED
      BY <1>15, <3>2, <3>3, <3>4 DEF Decoder
  <2>4. handed' \in BOOLEAN /\ spuriousWake' \in BOOLEAN
    BY <1>0, <1>15 DEF Decoder, DecoderCheck, DecoderWaits, DecoderWakes, DecoderAborts,
         SpuriousWakeup, FftEnds, DecodeEnds
  <2> QED
    BY <1>0, <2>1, <2>2, <2>3, <2>4
<1>16. CASE UNCHANGED vars
  BY <1>0, <1>16 DEF vars, mainVars, cbVars, rtlVars, watchVars, decVars, history
<1> QED
  BY <1>1, <1>2, <1>3, <1>4, <1>5, <1>6, <1>7, <1>8, <1>9, <1>10, <1>11, <1>12, <1>13,
     <1>14, <1>15, <1>16 DEF Next, Main, Finished

(* Nothing takes the exit flag back. *)
LEMMA ExitStays ==
    ASSUME [Next]_vars, ~exit_flag'
    PROVE  ~exit_flag
<1>1. CASE SigintHandler \/ ProgramQuit
  BY <1>1 DEF SigintHandler, ProgramQuit
<1>2. CASE StopDecoder \/ RestartFails
  BY <1>2 DEF StopDecoder, RestartFails
<1>3. CASE PartEnds \/ CallbackRead \/ CallbackStore \/ SecondReader \/ RadioStops
  BY <1>3 DEF PartEnds, CallbackRead, CallbackStore, SecondReader, RadioStops
<1>4. CASE \/ LoopTop \/ Swap \/ SignalDecoder \/ ResetAtSlot \/ Watchdog
           \/ RestartOk \/ FreeAll \/ JoinDecoder
  BY <1>4 DEF LoopTop, Swap, SignalDecoder, ResetAtSlot, Resetting, Watchdog, Watching,
     RestartOk, FreeAll, JoinDecoder
<1>5. CASE Decoder \/ SpuriousWakeup
  BY <1>5 DEF Decoder, DecoderCheck, DecoderWaits, DecoderWakes, DecoderAborts,
       SpuriousWakeup, FftEnds, DecodeEnds, DecoderOnly
<1>6. CASE UNCHANGED vars
  BY <1>6 DEF vars
<1> QED
  BY <1>1, <1>2, <1>3, <1>4, <1>5, <1>6 DEF Next, Main, Finished

-----------------------------------------------------------------------------
(* The timing of the main loop and the decoder *)

(* At the start the decoder has nothing. *)
LEMMA TimingInit == Init => TimingInv
BY DEF Init, TimingInv, Signalled, Crossing

(* A device being restarted has no unit on its way. *)
LEMMA RestartIsIdle ==
    ASSUME ReceiverInv, mpc = "restart"
    PROVE  cbpc # "store"
<1>1. quiet = STALL /\ STALL >= 2
  BY ReceiverAssumption DEF ReceiverInv, PatienceInv, NoNeedlessRestart
<1>2. cbpc = "store" => quiet = 0 \/ quiet = 1
  BY DEF ReceiverInv, PatienceInv
<1> QED
  BY <1>1, <1>2

(* A signalled decoder has left its buffer when the callback comes back to *)
(* it, and the unit stored over a swap is stored by then.                  *)
LEMMA TimingStep == ReceiverInv /\ [Next]_vars => TimingInv'
<1> SUFFICES ASSUME ReceiverInv, [Next]_vars PROVE TimingInv'
  OBVIOUS
<1>0. /\ ReceiverTypeOK /\ TimingInv /\ (~exit_flag' => ~exit_flag)
      /\ part \in {"window", "gap"} /\ cbpc \in {"idle", "store"}
      /\ spuriousWake \in BOOLEAN
  BY ExitStays DEF ReceiverInv, BasicInv, ReceiverTypeOK
<1> USE DEF TimingInv
<1>1. CASE PartEnds
  <2>1. /\ part = "window" => part' = "gap" /\ ~Signalled /\ cbpc = "idle"
        /\ part = "gap" => mpc # "swap" /\ part' = "window"
        /\ mpc \notin {"top", "swapped", "watch"}
        /\ UNCHANGED <<mpc, dpc, decBuf, bufferIndex, cbpc, cbIdx, spuriousWake, exit_flag>>
    BY <1>1, <1>0 DEF PartEnds, SwapDue, Signalled, mainVars, decVars, cbVars
  <2>2. (Signalled' <=> Signalled) /\ (Crossing' <=> Crossing)
    BY <2>1 DEF Signalled, Crossing
  <2> QED
    BY <1>0, <2>1, <2>2 DEF Crossing
<1>2. CASE CallbackRead \/ CallbackStore
  <2>1. UNCHANGED <<mpc, part, dpc, decBuf, bufferIndex, spuriousWake, exit_flag>>
    BY <1>2 DEF CallbackRead, CallbackStore, mainVars, decVars, history
  <2>2. ~Crossing'
    BY <1>2 DEF CallbackRead, CallbackStore, Crossing, cbVars, mainVars
  <2>3. Signalled' <=> Signalled
    BY <2>1 DEF Signalled
  <2> QED
    BY <1>0, <2>1, <2>2, <2>3
<1>3. CASE LoopTop
  <2>1. /\ mpc = "top" /\ mpc' \in {"stop", "swap", "realign"}
        /\ mpc' = "swap" => part = "window"
        /\ UNCHANGED <<part, dpc, decBuf, bufferIndex, spuriousWake, cbpc, cbIdx, exit_flag>>
    BY <1>3 DEF LoopTop, decVars, cbVars, history
  <2>2. (Signalled' <=> Signalled) /\ (Crossing' <=> Crossing)
    BY <2>1 DEF Signalled, Crossing
  <2> QED
    BY <1>0, <2>1, <2>2
<1>4. CASE Swap
  <2>1. /\ mpc = "swap" /\ (part = "gap" \/ exit_flag) /\ mpc' = "swapped"
        /\ UNCHANGED <<part, dpc, decBuf, spuriousWake, exit_flag>>
    BY <1>0, <1>4 DEF Swap, decVars
  <2>2. Signalled' <=> Signalled
    BY <2>1 DEF Signalled
  <2> QED
    BY <1>0, <2>1, <2>2
<1>5. CASE SignalDecoder
  <2>1. /\ mpc = "swapped" /\ mpc' = "reset"
        /\ dpc' = (IF dpc = "wait" THEN "woken" ELSE dpc)
        /\ UNCHANGED <<part, decBuf, bufferIndex, spuriousWake, exit_flag>>
    BY <1>5 DEF SignalDecoder, Signal
  <2>2. dpc' = "fft" => (Signalled' <=> Signalled)
    BY <2>1 DEF Signalled
  <2> QED
    BY <1>0, <2>1, <2>2
<1>6. CASE ResetAtSlot
  <2>1. /\ part = "window" \/ exit_flag
        /\ mpc' \in {"watch", "top"}
        /\ UNCHANGED <<part, dpc, decBuf, bufferIndex, spuriousWake, cbpc, cbIdx, exit_flag>>
    BY <1>0, <1>6 DEF ResetAtSlot, Resetting, decVars, cbVars
  <2>2. (Signalled' <=> Signalled) /\ (Crossing' <=> Crossing)
    BY <2>1 DEF Signalled, Crossing
  <2> QED
    BY <1>0, <2>1, <2>2
<1>7. CASE Watchdog \/ RestartOk \/ RestartFails
  <2>1. /\ mpc \in {"watch", "restart"} /\ mpc' \in {"top", "restart"}
        /\ UNCHANGED <<part, dpc, decBuf, bufferIndex, spuriousWake, cbpc, cbIdx>>
    BY <1>7 DEF Watchdog, Watching, RestartOk, RestartFails, Restarting, decVars, cbVars
  <2>2. (Signalled' <=> Signalled) /\ (Crossing' <=> Crossing)
    BY <2>1 DEF Signalled, Crossing
  <2>3. mpc = "restart" => ~Crossing
    BY RestartIsIdle DEF Crossing
  <2> QED
    BY <1>0, <2>1, <2>2, <2>3
<1>8. CASE StopDecoder
  <2>1. exit_flag' = TRUE /\ UNCHANGED spuriousWake /\ dpc' \in {dpc, "woken"}
    BY <1>8 DEF StopDecoder, Signal
  <2> QED
    BY <1>0, <2>1
<1>9. CASE Decoder \/ SpuriousWakeup
  <2>1. UNCHANGED <<part, mpc, bufferIndex, cbpc, cbIdx, exit_flag>>
    BY <1>9 DEF Decoder, DecoderCheck, DecoderWaits, DecoderWakes, DecoderAborts,
         SpuriousWakeup, FftEnds, DecodeEnds, DecoderOnly, mainVars, cbVars
  <2>2. /\ spuriousWake' => dpc' \in {"woken", "fft"}
        /\ Signalled' => Signalled
    BY <1>0, <1>9 DEF Decoder, DecoderCheck, DecoderWaits, DecoderWakes, DecoderAborts,
         SpuriousWakeup, FftEnds, DecodeEnds, Signalled
  <2>3. dpc' = "fft" => decBuf' = Other(bufferIndex)
    BY <1>0, <1>9 DEF Decoder, DecoderCheck, DecoderWaits, DecoderWakes, DecoderAborts,
         SpuriousWakeup, FftEnds, DecodeEnds
  <2>4. Crossing' <=> Crossing
    BY <2>1 DEF Crossing
  <2>5. Other(bufferIndex) # bufferIndex
    BY <1>0, OtherType DEF ReceiverTypeOK
  <2> QED
    BY <1>0, <2>1, <2>2, <2>3, <2>4, <2>5
<1>10. CASE SecondReader \/ RadioStops \/ SigintHandler \/ ProgramQuit \/ UNCHANGED vars
  <2>1. UNCHANGED <<part, mpc, bufferIndex, cbpc, cbIdx, dpc, decBuf, spuriousWake>>
    BY <1>10 DEF SecondReader, RadioStops, SigintHandler, ProgramQuit, vars, mainVars, cbVars,
         decVars, history
  <2>2. (Signalled' <=> Signalled) /\ (Crossing' <=> Crossing)
    BY <2>1 DEF Signalled, Crossing
  <2> QED
    BY <1>0, <2>1, <2>2
<1>11. CASE FreeAll \/ JoinDecoder
  <2>1. /\ mpc' \in {"join", "done"}
        /\ mpc \in {"close", "join"}
        /\ UNCHANGED <<part, dpc, decBuf, bufferIndex, spuriousWake, cbpc, cbIdx, exit_flag>>
    BY <1>11 DEF FreeAll, JoinDecoder, decVars, cbVars, history
  <2>2. (Signalled' <=> Signalled) /\ (Crossing' <=> Crossing)
    BY <2>1 DEF Signalled, Crossing
  <2> QED
    BY <1>0, <2>1, <2>2
<1> QED
  BY <1>1, <1>2, <1>3, <1>4, <1>5, <1>6, <1>7, <1>8, <1>9, <1>10, <1>11 DEF Next, Main, Finished

-----------------------------------------------------------------------------
(* What a spurious return costs *)

(* Nothing was decoded at the start. *)
LEMMA RepeatInit == Init => RepeatInv
BY DEF Init, RepeatInv, Debt

(* A signal never makes the decoder repeat itself. *)
LEMMA RepeatStep == ReceiverInv /\ [Next]_vars => RepeatInv'
<1> SUFFICES ASSUME ReceiverInv, [Next]_vars PROVE RepeatInv'
  OBVIOUS
<1>0. /\ RepeatInv /\ (~exit_flag' => ~exit_flag)
      /\ repeats \in Nat /\ spurious \in Nat
      /\ handed \in BOOLEAN /\ spuriousWake \in BOOLEAN
  BY ExitStays, ReceiverAssumption DEF ReceiverInv, BasicInv, ReceiverTypeOK
<1> DEFINE a == dpc = "woken" /\ (spuriousWake \/ ~handed)
           b == mpc = "swapped" /\ ~handed
<1>20. \A p, q \in BOOLEAN : Debt(p) \in {0, 1} /\ (p => q) => Debt(p) <= Debt(q)
  BY DEF Debt
<1>1. CASE SpuriousWakeup
  <2>1. /\ dpc = "wait" /\ spurious' = spurious + 1 /\ UNCHANGED <<mpc, handed, repeats, exit_flag>>
    BY <1>1 DEF SpuriousWakeup, DecoderOnly, mainVars
  <2>2. Debt(a) = 0 /\ Debt(a') \in {0, 1} /\ Debt(b') = Debt(b) /\ Debt(b) \in {0, 1}
    BY <2>1 DEF Debt
  <2> HIDE DEF a, b
  <2>3. repeats <= spurious /\ (~exit_flag => repeats + Debt(a) + Debt(b) <= spurious)
    BY <1>0 DEF RepeatInv, a, b
  <2>4. repeats' <= spurious' /\ (~exit_flag' => repeats' + Debt(a') + Debt(b') <= spurious')
    BY <1>0, <2>1, <2>2, <2>3
  <2> QED
    BY <2>4 DEF RepeatInv, a, b
<1>2. CASE DecoderWakes
  <2>1. /\ dpc = "woken" /\ ~exit_flag /\ dpc' # "woken" /\ UNCHANGED <<mpc, spurious, exit_flag>>
        /\ handed' = FALSE
        /\ repeats' = repeats \/ (~handed /\ repeats' = repeats + 1)
    BY <1>2 DEF DecoderWakes, DecoderOnly, mainVars
  <2>2. Debt(a') = 0 /\ repeats' <= repeats + Debt(~handed) /\ repeats' \in Nat
    BY <1>0, <2>1 DEF Debt
  <2>3. Debt(~handed) + Debt(b') <= Debt(a) + Debt(b)
    <3>1. CASE handed
      <4>1. mpc = "swapped" => spuriousWake
        BY <2>1 DEF ReceiverInv, TimingInv, Signalled
      <4> QED
        BY <2>1, <3>1, <4>1 DEF Debt
    <3>2. CASE ~handed
      BY <2>1, <3>2 DEF Debt
    <3> QED
      BY <3>1, <3>2
  <2>4. /\ Debt(~handed) \in Nat /\ Debt(b') \in Nat /\ Debt(a) \in Nat /\ Debt(b) \in Nat
    BY DEF Debt
  <2> HIDE DEF a, b
  <2>5. repeats + Debt(a) + Debt(b) <= spurious
    BY <1>0, <2>1 DEF RepeatInv, a, b
  <2>6. repeats' <= spurious' /\ repeats' + Debt(a') + Debt(b') <= spurious'
    BY <1>0, <2>1, <2>2, <2>3, <2>4, <2>5
  <2> QED
    BY <2>6 DEF RepeatInv, a, b
<1>3. CASE SignalDecoder
  <2>1. /\ mpc = "swapped" /\ mpc' = "reset"
        /\ dpc' = (IF dpc = "wait" THEN "woken" ELSE dpc)
        /\ UNCHANGED <<handed, spurious, spuriousWake, repeats, exit_flag>>
    BY <1>3 DEF SignalDecoder, Signal, history
  <2>2. dpc = "wait" => ~spuriousWake
    BY DEF ReceiverInv, TimingInv
  <2>3. Debt(a') + Debt(b') <= Debt(a) + Debt(b)
    BY <1>0, <2>1, <2>2 DEF Debt
  <2>4. Debt(a') \in Nat /\ Debt(b') \in Nat /\ Debt(a) \in Nat /\ Debt(b) \in Nat
    BY DEF Debt
  <2> HIDE DEF a, b
  <2>5. repeats <= spurious /\ (~exit_flag => repeats + Debt(a) + Debt(b) <= spurious)
    BY <1>0 DEF RepeatInv, a, b
  <2>6. repeats' <= spurious' /\ (~exit_flag' => repeats' + Debt(a') + Debt(b') <= spurious')
    BY <1>0, <2>1, <2>3, <2>4, <2>5
  <2> QED
    BY <2>6 DEF RepeatInv, a, b
<1>4. CASE /\ UNCHANGED <<spurious, repeats>>
           /\ exit_flag' \/ ((a' => a) /\ (b' => b))
  <2>1. Debt(a') \in Nat /\ Debt(b') \in Nat /\ Debt(a) \in Nat /\ Debt(b) \in Nat
    BY DEF Debt
  <2>2. (a' => a) => Debt(a') <= Debt(a)
    BY DEF Debt
  <2>3. (b' => b) => Debt(b') <= Debt(b)
    BY DEF Debt
  <2> HIDE DEF a, b
  <2>4. repeats <= spurious /\ (~exit_flag => repeats + Debt(a) + Debt(b) <= spurious)
    BY <1>0 DEF RepeatInv, a, b
  <2>5. repeats' <= spurious' /\ (~exit_flag' => repeats' + Debt(a') + Debt(b') <= spurious')
    BY <1>0, <1>4, <2>1, <2>2, <2>3, <2>4
  <2> QED
    BY <2>5 DEF RepeatInv, a, b
<1>5. CASE Swap
  <2>1. handed' = TRUE /\ UNCHANGED <<dpc, spurious, spuriousWake, repeats>>
    BY <1>5 DEF Swap, decVars
  <2> QED
    BY <1>4, <2>1
<1>6. CASE LoopTop \/ ResetAtSlot \/ Watchdog \/ RestartOk \/ RestartFails \/ FreeAll \/ JoinDecoder
  <2>1. mpc' # "swapped" /\ UNCHANGED <<dpc, handed, spurious, spuriousWake, repeats>>
    BY <1>6 DEF LoopTop, ResetAtSlot, Resetting, Watchdog, Watching, RestartOk, RestartFails,
       Restarting, FreeAll, JoinDecoder, decVars, history
  <2> QED
    BY <1>4, <2>1
<1>7. CASE StopDecoder
  BY <1>4, <1>7 DEF StopDecoder, Signal
<1>8. CASE DecoderCheck \/ DecoderWaits \/ DecoderAborts \/ FftEnds \/ DecodeEnds
  <2>1. dpc' # "woken" /\ UNCHANGED <<mpc, handed, spurious, repeats>>
    BY <1>8 DEF DecoderCheck, DecoderWaits, DecoderAborts, FftEnds, DecodeEnds, DecoderOnly,
       mainVars
  <2> QED
    BY <1>4, <2>1
<1>9. CASE \/ PartEnds \/ CallbackRead \/ CallbackStore \/ SecondReader \/ RadioStops
           \/ SigintHandler \/ ProgramQuit \/ UNCHANGED vars
  <2>1. UNCHANGED <<mpc, dpc, handed, spurious, spuriousWake, repeats>>
    BY <1>9 DEF PartEnds, CallbackRead, CallbackStore, SecondReader, RadioStops, SigintHandler,
       ProgramQuit, vars, mainVars, decVars, history
  <2> QED
    BY <1>4, <2>1
<1> QED
  BY <1>1, <1>2, <1>3, <1>5, <1>6, <1>7, <1>8, <1>9 DEF Next, Main, Decoder, Finished

-----------------------------------------------------------------------------
(* The watchdog *)

(* The watchdog starts with a radio just opened. *)
LEMMA PatienceInit == Init => PatienceInv
<1> SUFFICES ASSUME Init PROVE PatienceInv
  OBVIOUS
<1>1. patience \in {STALL, STALL + 1} /\ quiet = 0 /\ cbpc = "idle" /\ mpc = "top"
  BY DEF Init
<1> QED
  BY <1>1, ReceiverAssumption DEF PatienceInv, NoNeedlessRestart

(* A delivery resets what the watchdog counts. *)
LEMMA PatienceStep == ReceiverInv /\ [Next]_vars => PatienceInv'
<1> SUFFICES ASSUME ReceiverInv, [Next]_vars PROVE PatienceInv'
  OBVIOUS
<1>0. /\ PatienceInv /\ patience \in 0 .. STALL + 1 /\ quiet \in 0 .. STALL
      /\ due \in 0 .. BufferUnits /\ part \in {"window", "gap"}
  BY DEF ReceiverInv, BasicInv, ReceiverTypeOK
<1> USE ReceiverAssumption DEF PatienceInv, NoNeedlessRestart
<1>1. CASE PartEnds
  <2>1. /\ streaming => due = 0
        /\ part = "window" => part' = "gap" /\ cbpc = "idle" /\ UNCHANGED <<patience, quiet>>
        /\ part = "gap" =>
              /\ part' = "window"
              /\ patience' = (IF patience > 0 THEN patience - 1 ELSE 0)
              /\ quiet' = (IF quiet < STALL THEN quiet + 1 ELSE STALL)
              /\ streaming => due' = WindowUnits
        /\ UNCHANGED <<streaming, cbNew, mpc, cbpc>>
    BY <1>0, <1>1 DEF PartEnds, Units, mainVars, cbVars, rtlVars
  <2>2. CASE part = "window"
    BY <1>0, <2>1, <2>2
  <2>3. CASE part = "gap"
    BY <1>0, <2>1, <2>3
  <2> QED
    BY <1>0, <2>2, <2>3
<1>2. CASE CallbackRead
  <2>1. cbNew' = TRUE /\ quiet' = 0 /\ streaming /\ UNCHANGED <<mpc, streaming>>
    BY <1>2 DEF CallbackRead, mainVars, rtlVars
  <2> QED
    BY <1>0, <2>1
<1>3. CASE CallbackStore
  <2>1. cbpc' = "idle" /\ UNCHANGED <<cbNew, quiet, patience, streaming, part, due, mpc>>
    BY <1>3 DEF CallbackStore, mainVars, rtlVars, watchVars, history
  <2> QED
    BY <1>0, <2>1
<1>4. CASE SecondReader \/ RadioStops \/ SigintHandler \/ FreeAll
  <2>1. /\ streaming' = FALSE /\ mpc' \in {mpc, "join"}
        /\ UNCHANGED <<cbNew, quiet, patience, part, cbpc>>
    BY <1>4 DEF SecondReader, RadioStops, SigintHandler, FreeAll, Stop, mainVars, watchVars, cbVars
  <2> QED
    BY <1>0, <2>1
<1>5. CASE Watchdog
  <2>1. /\ UNCHANGED <<quiet, streaming, part, due, cbpc>> /\ mpc = "watch"
        /\ cbNew => patience' = STALL /\ mpc' = "top"
        /\ ~cbNew => UNCHANGED <<cbNew, patience>> /\ mpc' = (IF patience = 0 THEN "restart" ELSE "top")
    BY <1>5 DEF Watchdog, Watching, rtlVars, watchVars, cbVars, history
  <2>2. CASE cbNew
    BY <1>0, <2>1, <2>2
  <2>3. CASE ~cbNew
    BY <1>0, <2>1, <2>3
  <2> QED
    BY <2>2, <2>3
<1>6. CASE RestartOk \/ RestartFails
  <2>1. patience' \in {STALL, STALL + 1} /\ mpc' = "top" /\ UNCHANGED <<quiet, part, cbpc>>
    BY <1>6 DEF RestartOk, RestartFails, Restarting, cbVars
  <2>2. patience' >= STALL
    BY <2>1
  <2>3. patience' \in Nat /\ quiet' \in Nat
    BY <1>0, <2>1
  <2>4. patience' + quiet' >= STALL
    <3>1. \A m, n \in Nat : m >= STALL => m + n >= STALL
      OBVIOUS
    <3> QED
      BY <2>2, <2>3, <3>1
  <2> QED
    BY <1>0, <2>1, <2>2, <2>4
<1>7. CASE LoopTop \/ Swap \/ SignalDecoder \/ ResetAtSlot \/ StopDecoder \/ JoinDecoder
  <2>1. mpc' # "restart" /\ UNCHANGED <<cbNew, quiet, patience, streaming, part, due, cbpc>>
    BY <1>7 DEF LoopTop, Swap, SignalDecoder, ResetAtSlot, Resetting, StopDecoder, JoinDecoder,
         rtlVars, watchVars, cbVars, history
  <2> QED
    BY <1>0, <2>1
<1>8. CASE Decoder \/ SpuriousWakeup \/ ProgramQuit \/ UNCHANGED vars
  <2>1. UNCHANGED <<cbNew, quiet, patience, streaming, part, due, cbpc, mpc>>
    BY <1>8 DEF Decoder, DecoderCheck, DecoderWaits, DecoderWakes, DecoderAborts,
       SpuriousWakeup, FftEnds, DecodeEnds,
         DecoderOnly, ProgramQuit, vars, mainVars, rtlVars, watchVars, cbVars, history
  <2> QED
    BY <1>0, <2>1
<1> QED
  BY <1>1, <1>2, <1>3, <1>4, <1>5, <1>6, <1>7, <1>8 DEF Next, Main, Finished

-----------------------------------------------------------------------------
(* The units of a window *)

(* Nothing was delivered at the start. *)
LEMMA CountInit == Init => CountInv
BY DEF Init, CountInv, EnoughWhenStreaming, Crossing

(* What a streaming radio delivers is in the buffer handed over. *)
LEMMA CountStep == ReceiverInv /\ [Next]_vars => CountInv'
<1> SUFFICES ASSUME ReceiverInv, [Next]_vars PROVE CountInv'
  OBVIOUS
<1>0. /\ BasicInv /\ TimingInv /\ CountInv /\ NoNeedlessRestart
      /\ due \in 0 .. BufferUnits /\ bufferIndex \in Buffers /\ cbPos \in 0 .. BufferUnits - 1
      /\ iqIndex \in [Buffers -> 0 .. BufferUnits] /\ part \in {"window", "gap"}
      /\ cbpc \in {"idle", "store"} /\ cbIdx \in Buffers
      /\ iqIndex[bufferIndex] \in 0 .. BufferUnits
  BY DEF ReceiverInv, BasicInv, ReceiverTypeOK, PatienceInv
<1>1. exit_flag => exit_flag'
  BY ExitStays
<1> USE ReceiverAssumption DEF CountInv, Storing, Crossing
<1>2. CASE PartEnds
  <2>1. /\ mpc \notin {"top", "swapped", "watch"} /\ (streaming => due = 0)
        /\ part = "window" => part' = "gap" /\ cbpc = "idle" /\ UNCHANGED whole
        /\ part = "gap" => part' = "window" /\ whole' = streaming
                           /\ mpc # "swap" /\ (streaming => due' = WindowUnits)
        /\ UNCHANGED <<streaming, mpc, cbpc, cbIdx, cbPos, iqIndex, bufferIndex, exit_flag>>
    BY <1>0, <1>2 DEF PartEnds, Units, SwapDue, mainVars, cbVars, rtlVars
  <2>2. EnoughWhenStreaming'
    BY <2>1 DEF EnoughWhenStreaming
  <2>3. CASE part = "window"
    BY <1>0, <2>1, <2>2, <2>3
  <2>4. CASE part = "gap"
    BY <1>0, <2>1, <2>2, <2>4
  <2> QED
    BY <1>0, <2>3, <2>4
<1>3. CASE CallbackRead
  <2>1. /\ cbpc = "idle" /\ due > 0 /\ due' = due - 1 /\ ~ResetDue
        /\ UNCHANGED <<streaming, mpc, part, iqIndex, bufferIndex, exit_flag, whole, aligned>>
        /\ \/ /\ iqIndex[bufferIndex] < BufferUnits
              /\ cbpc' = "store" /\ cbIdx' = bufferIndex /\ cbPos' = iqIndex[bufferIndex]
           \/ iqIndex[bufferIndex] = BufferUnits /\ cbpc' = "idle"
    BY <1>0, <1>3 DEF CallbackRead, mainVars, rtlVars, cbVars
  <2>2. EnoughWhenStreaming'
    BY <1>0, <2>1 DEF EnoughWhenStreaming, TooShort
  <2>3. mpc \in {"reset", "realign"} => part # "window"
    BY <2>1 DEF ResetDue
  <2> QED
    BY <1>0, <2>1, <2>2, <2>3
<1>4. CASE CallbackStore
  <2>1. /\ cbpc = "store" /\ cbpc' = "idle"
        /\ iqIndex' = [iqIndex EXCEPT ![cbIdx] = cbPos + 1]
        /\ UNCHANGED <<streaming, mpc, part, due, bufferIndex, exit_flag, whole, aligned>>
    BY <1>4 DEF CallbackStore, mainVars, rtlVars, history
  <2>2. CASE cbIdx = bufferIndex
    <3>1. /\ iqIndex'[bufferIndex] = cbPos + 1
          /\ iqIndex'[Other(bufferIndex)] = iqIndex[Other(bufferIndex)]
      BY <1>0, <2>1, <2>2, OtherType
    <3>2. EnoughWhenStreaming'
      BY <1>0, <2>1, <3>1 DEF EnoughWhenStreaming, TooShort
    <3> QED
      BY <1>0, <2>1, <2>2, <3>1, <3>2
  <2>3. CASE cbIdx # bufferIndex
    <3>1. /\ iqIndex'[bufferIndex] = iqIndex[bufferIndex]
          /\ iqIndex'[Other(bufferIndex)] = cbPos + 1
      BY <1>0, <2>1, <2>3 DEF Other, Buffers
    <3>2. EnoughWhenStreaming'
      <4>1. whole /\ ~exit_flag /\ mpc = "swapped" => cbPos + 1 >= WindowUnits
        BY <1>0, <2>1, <2>3
      <4> QED
        BY <1>0, <2>1, <3>1, <4>1 DEF EnoughWhenStreaming, TooShort
    <3> QED
      BY <1>0, <2>1, <2>3, <3>1, <3>2
  <2> QED
    BY <2>2, <2>3
<1>5. CASE SecondReader \/ RadioStops \/ SigintHandler \/ FreeAll \/ RestartFails
  <2>1. whole' = FALSE
    BY <1>5 DEF SecondReader, RadioStops, SigintHandler, FreeAll, RestartFails, Stop
  <2> QED
    BY <2>1 DEF EnoughWhenStreaming
<1>6. CASE RestartOk
  <2>1. whole' = FALSE
    BY <1>6 DEF RestartOk
  <2> QED
    BY <2>1 DEF EnoughWhenStreaming
<1>7. CASE LoopTop
  <2>1. /\ mpc = "top" /\ mpc' \in {"stop", "swap", "realign"}
        /\ mpc' = "swap" => part = "window"
        /\ mpc' = "realign" => part # "window"
        /\ UNCHANGED <<streaming, part, due, iqIndex, bufferIndex, exit_flag, whole, cbpc, cbIdx,
                       cbPos>>
    BY <1>7 DEF LoopTop, cbVars, rtlVars, history
  <2>2. EnoughWhenStreaming'
    BY <2>1 DEF EnoughWhenStreaming
  <2> QED
    BY <1>0, <2>1, <2>2
<1>8. CASE Swap
  <2>1. /\ mpc = "swap" /\ mpc' = "swapped" /\ (part = "gap" \/ exit_flag)
        /\ bufferIndex' = Other(bufferIndex)
        /\ iqIndex' = [iqIndex EXCEPT ![bufferIndex] = BufferUnits] \/ iqIndex' = iqIndex
        /\ UNCHANGED <<streaming, part, whole, exit_flag, cbpc, cbIdx, cbPos>>
    BY <1>8 DEF Swap, rtlVars, cbVars
  <2>2. Other(bufferIndex') = bufferIndex /\ iqIndex'[bufferIndex] >= iqIndex[bufferIndex]
        /\ iqIndex'[bufferIndex] \in Nat
    BY <1>0, <2>1 DEF Other, Buffers
  <2>3. EnoughWhenStreaming'
    <3> SUFFICES ASSUME whole', ~exit_flag' PROVE iqIndex'[Other(bufferIndex')] >= MinUnits
      BY <1>0, <2>2 DEF EnoughWhenStreaming, TooShort
    <3>1. iqIndex[bufferIndex] >= WindowUnits
      BY <1>0, <2>1
    <3> QED
      BY <1>0, <2>2, <3>1
  <2>4. Crossing' => Storing
    BY <1>0, <2>1, <2>2 DEF Buffers, Other
  <2> QED
    BY <1>0, <2>1, <2>3, <2>4
<1>9. CASE SignalDecoder
  <2>1. /\ mpc = "swapped" /\ mpc' = "reset" /\ UNCHANGED <<streaming, part, whole, exit_flag>>
    BY <1>9 DEF SignalDecoder, rtlVars, history
  <2>2. EnoughWhenStreaming'
    BY <2>1 DEF EnoughWhenStreaming
  <2>3. part = "gap" \/ exit_flag
    BY <1>0, <2>1 DEF TimingInv
  <2> QED
    BY <1>0, <2>1, <2>2, <2>3
<1>10. CASE ResetAtSlot
  <2>1. /\ mpc \in {"reset", "realign"} /\ mpc' \in {"watch", "top"}
        /\ iqIndex' = [iqIndex EXCEPT ![bufferIndex] = 0]
        /\ UNCHANGED <<streaming, part, due, bufferIndex, whole, exit_flag, cbpc, cbIdx,
                       cbPos>>
    BY <1>10 DEF ResetAtSlot, Resetting, ResetIndex, rtlVars, cbVars
  <2>2. iqIndex'[bufferIndex] = 0
    BY <1>0, <2>1
  <2>3. EnoughWhenStreaming'
    BY <2>1 DEF EnoughWhenStreaming
  <2> QED
    BY <1>0, <2>1, <2>2, <2>3
<1>11. CASE Watchdog
  <2>1. /\ mpc = "watch" /\ mpc' \in {"top", "restart"}
        /\ UNCHANGED <<streaming, part, due, iqIndex, bufferIndex, whole, exit_flag, cbpc, cbIdx,
                       cbPos>>
    BY <1>11 DEF Watchdog, Watching, rtlVars, cbVars, history
  <2>2. EnoughWhenStreaming'
    BY <2>1 DEF EnoughWhenStreaming
  <2> QED
    BY <1>0, <2>1, <2>2
<1>12. CASE StopDecoder \/ JoinDecoder
  <2>1. mpc' \in {"close", "done"} /\ UNCHANGED <<streaming, whole>>
    BY <1>12 DEF StopDecoder, JoinDecoder, rtlVars, history
  <2>2. EnoughWhenStreaming'
    BY <2>1 DEF EnoughWhenStreaming
  <2> QED
    BY <1>0, <2>1, <2>2
<1>13. CASE ProgramQuit
  <2>1. exit_flag' = TRUE /\ UNCHANGED <<streaming, whole>>
    BY <1>13 DEF ProgramQuit, rtlVars, history
  <2> QED
    BY <1>0, <2>1 DEF EnoughWhenStreaming
<1>14. CASE Decoder \/ SpuriousWakeup \/ UNCHANGED vars
  <2>1. UNCHANGED <<streaming, mpc, part, due, iqIndex, bufferIndex, whole, aligned, exit_flag,
                    cbpc, cbIdx, cbPos>>
    BY <1>14 DEF Decoder, DecoderCheck, DecoderWaits, DecoderWakes, DecoderAborts,
       SpuriousWakeup, FftEnds, DecodeEnds,
         DecoderOnly, vars, mainVars, rtlVars, cbVars, history
  <2> QED
    BY <1>0, <2>1 DEF EnoughWhenStreaming, TooShort
<1> QED
  BY <1>2, <1>3, <1>4, <1>5, <1>6, <1>7, <1>8, <1>9, <1>10, <1>11, <1>12, <1>13, <1>14
     DEF Next, Main, Finished

-----------------------------------------------------------------------------
(* The age of the samples *)

(* What is filled lies inside the buffer. *)
LEMMA FilledType ==
    ASSUME BasicInv
    PROVE  /\ Filled \in 0 .. BufferUnits /\ bufferIndex \in Buffers
           /\ iqIndex[bufferIndex] \in 0 .. BufferUnits
           /\ samples \in [Buffers -> [1 .. BufferUnits -> 0 .. MaxAge]]
           /\ \A b \in Buffers, i \in 1 .. BufferUnits : samples[b][i] \in 0 .. MaxAge
<1>1. /\ bufferIndex \in Buffers /\ iqIndex \in [Buffers -> 0 .. BufferUnits]
      /\ samples \in [Buffers -> [1 .. BufferUnits -> 0 .. MaxAge]]
      /\ cbPos \in 0 .. BufferUnits - 1 /\ BufferUnits \in Nat
  BY ReceiverAssumption DEF BasicInv, ReceiverTypeOK
<1>2. iqIndex[bufferIndex] \in 0 .. BufferUnits
  BY <1>1
<1>3. Filled \in 0 .. BufferUnits
  BY <1>1, <1>2 DEF Filled
<1> QED
  BY <1>1, <1>2, <1>3

(* An empty buffer is fresh. *)
LEMMA EmptyIsFresh ==
    ASSUME Filled = 0, NEW a \in Nat
    PROVE  FreshNow(a) /\ Clean(a)
BY DEF FreshNow, Fresh, Clean

(* Neither the samples nor what the index covers have changed. *)
LEMMA SameBuffer ==
    ASSUME UNCHANGED <<samples, bufferIndex, races>>, Filled' = Filled,
           ~Storing /\ iqIndex[bufferIndex] = BufferUnits =>
              ~Storing' /\ iqIndex'[bufferIndex'] = BufferUnits
    PROVE  /\ FreshNow(1) => FreshNow(1)'
           /\ FreshNow(2) => FreshNow(2)'
           /\ Clean(0) => Clean(0)'
           /\ Clean(1) => Clean(1)'
BY DEF FreshNow, Fresh, Clean

(* The unit the callback stores is new. *)
LEMMA StoreIsFresh ==
    ASSUME BasicInv, CallbackStore, Storing
    PROVE  /\ FreshNow(1) => FreshNow(1)'
           /\ FreshNow(2) => FreshNow(2)'
           /\ Clean(0) => Clean(0)'
           /\ Clean(1) => Clean(1)'
<1>1. /\ cbpc = "store" /\ cbpc' = "idle" /\ cbIdx = bufferIndex
      /\ samples' = [samples EXCEPT ![bufferIndex][cbPos + 1] = 0]
      /\ iqIndex' = [iqIndex EXCEPT ![bufferIndex] = cbPos + 1]
      /\ UNCHANGED <<bufferIndex, races>>
  BY DEF Storing, CallbackStore, mainVars
<1>2. /\ bufferIndex \in Buffers /\ iqIndex \in [Buffers -> 0 .. BufferUnits]
      /\ samples \in [Buffers -> [1 .. BufferUnits -> 0 .. MaxAge]]
      /\ cbPos \in 0 .. BufferUnits - 1 /\ BufferUnits \in Nat
  BY ReceiverAssumption DEF BasicInv, ReceiverTypeOK
<1>3. Filled = cbPos /\ Filled' = cbPos + 1
  BY <1>1, <1>2 DEF Filled, Storing
<1>4. \A i \in 1 .. cbPos + 1 : i \in 1 .. BufferUnits
        /\ samples'[bufferIndex][i] = IF i = cbPos + 1 THEN 0 ELSE samples[bufferIndex][i]
  BY <1>1, <1>2
<1>5. ASSUME NEW a \in {0, 1, 2}, FreshNow(a) PROVE FreshNow(a)'
  <2> SUFFICES ASSUME NEW i \in 1 .. cbPos + 1 PROVE samples'[bufferIndex'][i] <= a
    BY <1>3 DEF FreshNow, Fresh
  <2>1. CASE i = cbPos + 1
    BY <1>1, <1>4, <2>1
  <2>2. CASE i # cbPos + 1
    <3>1. i \in 1 .. cbPos
      BY <1>2, <2>2
    <3>2. samples[bufferIndex][i] <= a
      BY <1>3, <1>5, <3>1 DEF FreshNow, Fresh
    <3> QED
      BY <1>1, <1>4, <2>2, <3>2
  <2> QED
    BY <2>1, <2>2
<1> QED
  BY <1>1, <1>5 DEF Clean, Storing

(* The unit stored over a swap does not touch the buffer being filled, and *)
(* makes the other one longer by a new unit.                               *)
LEMMA CrossingIsFresh ==
    ASSUME BasicInv, CallbackStore, Crossing
    PROVE  /\ FreshNow(1) => FreshNow(1)'
           /\ FreshNow(2) => FreshNow(2)'
           /\ Clean(0) => Clean(0)'
           /\ Clean(1) => Clean(1)'
           /\ iqIndex'[bufferIndex] = iqIndex[bufferIndex]
           /\ Fresh(cbIdx, cbPos, 2) =>
                 \A i \in 1 .. iqIndex'[Other(bufferIndex)] : samples'[Other(bufferIndex)][i] <= 2
<1>1. /\ cbpc' = "idle" /\ cbIdx # bufferIndex
      /\ samples' = [samples EXCEPT ![cbIdx][cbPos + 1] = 0]
      /\ iqIndex' = [iqIndex EXCEPT ![cbIdx] = cbPos + 1]
      /\ UNCHANGED <<bufferIndex, races>>
  BY DEF Crossing, CallbackStore, mainVars
<1>2. /\ bufferIndex \in Buffers /\ iqIndex \in [Buffers -> 0 .. BufferUnits]
      /\ samples \in [Buffers -> [1 .. BufferUnits -> 0 .. MaxAge]]
      /\ cbPos \in 0 .. BufferUnits - 1 /\ BufferUnits \in Nat /\ cbIdx \in Buffers
  BY ReceiverAssumption DEF BasicInv, ReceiverTypeOK
<1>3. cbIdx = Other(bufferIndex)
  BY <1>1, <1>2 DEF Buffers, Other
<1>4. samples'[bufferIndex] = samples[bufferIndex] /\ iqIndex'[bufferIndex] = iqIndex[bufferIndex]
  BY <1>1, <1>2
<1>5. ~Storing /\ ~Storing' /\ Filled' = Filled
  BY <1>1, <1>4 DEF Crossing, Storing, Filled
<1>6. \A a : FreshNow(a) => FreshNow(a)'
  BY <1>1, <1>4, <1>5 DEF FreshNow, Fresh
<1>7. ASSUME Fresh(cbIdx, cbPos, 2), NEW i \in 1 .. iqIndex'[cbIdx] PROVE samples'[cbIdx][i] <= 2
  <2>1. iqIndex'[cbIdx] = cbPos + 1
    BY <1>1, <1>2
  <2>2. samples'[cbIdx][i] = IF i = cbPos + 1 THEN 0 ELSE samples[cbIdx][i]
    <3>1. i \in 1 .. BufferUnits
      BY <1>2, <1>7, <2>1
    <3>2. samples[cbIdx] \in [1 .. BufferUnits -> 0 .. MaxAge]
      BY <1>2
    <3>3. samples'[cbIdx] = [samples[cbIdx] EXCEPT ![cbPos + 1] = 0]
      BY <1>1, <1>2
    <3> QED
      BY <3>1, <3>2, <3>3
  <2>3. i = cbPos + 1 \/ i \in 1 .. cbPos
    BY <1>2, <1>7, <2>1
  <2> QED
    BY <1>7, <2>2, <2>3 DEF Fresh
<1> QED
  BY <1>1, <1>3, <1>4, <1>5, <1>6, <1>7 DEF Clean

(* A part of the slot makes the samples one part older. *)
LEMMA PartAges ==
    ASSUME BasicInv, PartEnds
    PROVE  (FreshNow(1) => FreshNow(2)') /\ (Clean(0) => Clean(1)')
<1> DEFINE older(b, i) == IF samples[b][i] < MaxAge THEN samples[b][i] + 1 ELSE MaxAge
<1>1. /\ samples' = [b \in Buffers |-> [i \in 1 .. BufferUnits |-> older(b, i)]]
      /\ UNCHANGED <<bufferIndex, races, iqIndex, cbpc, cbIdx, cbPos>>
  BY DEF PartEnds, mainVars, cbVars
<1>2. Filled' = Filled /\ (Storing' <=> Storing) /\ Filled \in 0 .. BufferUnits /\ bufferIndex \in Buffers
      /\ BufferUnits \in Nat
  BY <1>1, FilledType, ReceiverAssumption DEF Filled, Storing
<1>3. ASSUME NEW a \in {0, 1}, FreshNow(a) PROVE Fresh(bufferIndex, Filled, a + 1)'
  <2> SUFFICES ASSUME NEW i \in 1 .. Filled PROVE samples'[bufferIndex][i] <= a + 1
    BY <1>1, <1>2 DEF Fresh
  <2>1. i \in 1 .. BufferUnits /\ samples'[bufferIndex][i] = older(bufferIndex, i)
    <3> HIDE DEF older
    <3> QED
      BY <1>1, <1>2
  <2>2. samples[bufferIndex][i] \in 0 .. MaxAge /\ samples[bufferIndex][i] <= a
    BY <1>2, <1>3, <2>1, FilledType DEF FreshNow, Fresh
  <2> QED
    BY <2>1, <2>2, ReceiverAssumption
<1>4. FreshNow(1) => FreshNow(2)'
  BY <1>3 DEF FreshNow
<1>5. FreshNow(0) => FreshNow(1)'
  BY <1>3 DEF FreshNow
<1> QED
  BY <1>1, <1>2, <1>4, <1>5 DEF Clean

(* No sample is old at the start. *)
LEMMA AgeInit == Init => AgeInv
<1> SUFFICES ASSUME Init PROVE AgeInv
  OBVIOUS
<1>1. /\ mpc = "top" /\ cbpc = "idle" /\ bufferIndex = 0 /\ aligned = FALSE /\ races = 0
  BY DEF Init
<1>2. iqIndex[bufferIndex] \in {0, BufferUnits}
  BY <1>1 DEF Init, Buffers
<1>3. Clean(0)
  <2>1. CASE iqIndex[bufferIndex] = 0
    BY <1>1, <2>1, EmptyIsFresh DEF Filled, Storing
  <2>2. CASE iqIndex[bufferIndex] = BufferUnits
    BY <1>1, <2>2 DEF Clean, Storing
  <2> QED
    BY <1>2, <2>1, <2>2
<1> QED
  BY <1>1, <1>3 DEF AgeInv, NoOlderSamples, Crossing

(* Two resets clear what is older, whichever is undone. *)
LEMMA AgeStep == ReceiverInv /\ [Next]_vars => AgeInv'
<1> SUFFICES ASSUME ReceiverInv, [Next]_vars, ~exit_flag' PROVE AgeInv'
  BY DEF AgeInv
<1>0. /\ BasicInv /\ TimingInv /\ PatienceInv /\ AgeInv /\ ~exit_flag
      /\ part \in {"window", "gap"} /\ bufferIndex \in Buffers /\ races \in Nat
      /\ quiet \in 0 .. STALL /\ patience \in 0 .. STALL + 1
      /\ cbpc \in {"idle", "store"} /\ cbPos \in 0 .. BufferUnits - 1
      /\ iqIndex \in [Buffers -> 0 .. BufferUnits] /\ cbIdx \in Buffers
  BY ExitStays DEF ReceiverInv, BasicInv, ReceiverTypeOK
<1> USE DEF AgeInv
<1>1. CASE PartEnds
  <2>1. /\ mpc \notin {"top", "swapped", "watch"}
        /\ part = "window" => part' = "gap" /\ mpc \notin {"reset", "realign"}
        /\ part = "gap" => part' = "window" /\ mpc # "swap"
        /\ part = "window" => cbpc = "idle"
        /\ UNCHANGED <<mpc, cbpc, iqIndex, bufferIndex, races, aligned>>
    BY <1>0, <1>1 DEF PartEnds, SwapDue, ResetDue, mainVars, cbVars
  <2>2. NoOlderSamples'
    BY <2>1 DEF NoOlderSamples
  <2>3. ~(part' = "gap" /\ Storing')
    BY <1>0, <2>1 DEF Storing
  <2> QED
    BY <1>0, <1>1, <2>1, <2>2, <2>3, PartAges
<1>2. CASE CallbackRead
  <2>1. /\ streaming /\ cbpc = "idle" /\ quiet' = 0
        /\ UNCHANGED <<mpc, part, samples, iqIndex, bufferIndex, races, aligned>>
        /\ \/ /\ cbpc' = "store" /\ cbIdx' = bufferIndex /\ cbPos' = iqIndex[bufferIndex]
              /\ iqIndex[bufferIndex] < BufferUnits
           \/ cbpc' = "idle"
    BY <1>0, <1>2 DEF CallbackRead, mainVars, cbVars
  <2>2. /\ Filled' = Filled /\ ~Crossing'
        /\ Storing' => cbPos' = iqIndex'[bufferIndex']
    BY <2>1 DEF Filled, Storing, Crossing
  <2>3. ~Storing /\ iqIndex[bufferIndex] = BufferUnits =>
              ~Storing' /\ iqIndex'[bufferIndex'] = BufferUnits
    BY <2>1, ReceiverAssumption DEF Storing
  <2>4. /\ FreshNow(1) => FreshNow(1)'
        /\ FreshNow(2) => FreshNow(2)'
        /\ Clean(0) => Clean(0)'
        /\ Clean(1) => Clean(1)'
    BY <2>1, <2>2, <2>3, SameBuffer
  <2>5. mpc # "restart"
    BY <1>0, <2>1 DEF PatienceInv, NoNeedlessRestart
  <2>6. NoOlderSamples'
    BY <1>0, <2>1 DEF NoOlderSamples
  <2> QED
    BY <1>0, <2>1, <2>2, <2>4, <2>5, <2>6
<1>3. CASE CallbackStore
  <2>1. /\ cbpc = "store" /\ cbpc' = "idle"
        /\ samples' = [samples EXCEPT ![cbIdx][cbPos + 1] = 0]
        /\ iqIndex' = [iqIndex EXCEPT ![cbIdx] = cbPos + 1]
        /\ UNCHANGED <<mpc, part, bufferIndex, races, aligned, quiet>>
    BY <1>0, <1>3 DEF CallbackStore, mainVars, history
  <2>2. mpc # "restart" /\ quiet < 2
    BY <1>0, <2>1 DEF PatienceInv
  <2>3. ~(mpc' = "watch" /\ quiet' >= 2) /\ ~Crossing' /\ ~Storing'
    BY <1>0, <2>1, <2>2 DEF Crossing, Storing
  <2>4. CASE cbIdx = bufferIndex
    <3>1. /\ samples'[Other(bufferIndex)] = samples[Other(bufferIndex)]
          /\ iqIndex'[Other(bufferIndex)] = iqIndex[Other(bufferIndex)]
      BY <1>0, <2>1, <2>4, OtherType, FilledType
    <3>2. NoOlderSamples'
      BY <1>0, <2>1, <3>1 DEF NoOlderSamples
    <3>3. /\ FreshNow(1) => FreshNow(1)'
          /\ FreshNow(2) => FreshNow(2)'
          /\ Clean(0) => Clean(0)'
          /\ Clean(1) => Clean(1)'
      BY <1>0, <1>3, <2>1, <2>4, StoreIsFresh DEF Storing
    <3> QED
      BY <1>0, <2>1, <2>2, <2>3, <3>2, <3>3
  <2>5. CASE cbIdx # bufferIndex
    <3>1. Crossing
      BY <2>1, <2>5 DEF Crossing
    <3>2. /\ FreshNow(1) => FreshNow(1)'
          /\ FreshNow(2) => FreshNow(2)'
          /\ Clean(0) => Clean(0)'
          /\ Clean(1) => Clean(1)'
          /\ Fresh(cbIdx, cbPos, 2) =>
               \A i \in 1 .. iqIndex'[Other(bufferIndex)] : samples'[Other(bufferIndex)][i] <= 2
      BY <1>0, <1>3, <3>1, CrossingIsFresh
    <3>3. NoOlderSamples'
      BY <1>0, <2>1, <3>1, <3>2 DEF NoOlderSamples
    <3> QED
      BY <1>0, <2>1, <2>2, <2>3, <3>2, <3>3
  <2> QED
    BY <2>4, <2>5
<1>4. CASE LoopTop
  <2>1. /\ mpc = "top" /\ mpc' \in {"stop", "swap", "realign"}
        /\ mpc' = "swap" => part = "window"
        /\ mpc' = "realign" => part # "window"
        /\ UNCHANGED <<part, samples, iqIndex, bufferIndex, races, aligned, cbpc, cbIdx, cbPos>>
    BY <1>4 DEF LoopTop, cbVars, history
  <2>2. Filled' = Filled /\ (Storing' <=> Storing)
    BY <2>1 DEF Filled, Storing
  <2>3. FreshNow(1) => FreshNow(1)'
    BY <2>1, <2>2, SameBuffer
  <2>4. Clean(0) => Clean(0)'
    BY <2>1, <2>2, SameBuffer
  <2>5. NoOlderSamples'
    BY <2>1 DEF NoOlderSamples
  <2> QED
    BY <1>0, <2>1, <2>3, <2>4, <2>5
<1>5. CASE Swap
  <2>1. /\ mpc = "swap" /\ mpc' = "swapped" /\ part = "gap"
        /\ bufferIndex' = Other(bufferIndex)
        /\ UNCHANGED <<part, races, aligned, cbpc, cbIdx, cbPos>>
    BY <1>0, <1>5 DEF Swap, cbVars
  <2>2. Other(bufferIndex') = bufferIndex
    BY <1>0, <2>1 DEF Other, Buffers
  <2>3. ASSUME races <= 1, aligned, NEW i \in 1 .. iqIndex'[bufferIndex]
        PROVE  samples'[bufferIndex][i] <= 2
    <3>1. CASE source = "synthetic"
      <4>1. /\ iqIndex' = [iqIndex EXCEPT ![bufferIndex] = BufferUnits]
            /\ samples' = [samples EXCEPT ![bufferIndex] = [j \in 1 .. BufferUnits |-> 1]]
        BY <1>5, <3>1 DEF Swap
      <4>2. iqIndex'[bufferIndex] = BufferUnits
        BY <1>0, <4>1
      <4>3. samples'[bufferIndex] = [j \in 1 .. BufferUnits |-> 1]
        BY <1>0, <4>1, FilledType
      <4> QED
        BY <2>3, <4>2, <4>3
    <3>2. CASE source # "synthetic"
      <4>1. UNCHANGED <<iqIndex, samples>>
        BY <1>5, <3>2 DEF Swap
      <4>2. FreshNow(2)
        BY <1>0, <2>1, <2>3
      <4>3. Storing => cbPos = iqIndex[bufferIndex]
        BY <1>0, <2>1
      <4>4. Filled = iqIndex[bufferIndex]
        BY <4>3 DEF Filled
      <4> QED
        BY <2>3, <4>1, <4>2, <4>4 DEF FreshNow, Fresh
    <3> QED
      BY <3>1, <3>2
  <2>4. NoOlderSamples'
    BY <2>1, <2>2, <2>3 DEF NoOlderSamples
  <2>5. ASSUME Crossing', races <= 1, aligned PROVE Fresh(cbIdx, cbPos, 2)'
    <3>1. Storing
      BY <1>0, <2>1, <2>5 DEF Crossing, Storing, Other, Buffers
    <3>2. cbPos = iqIndex[bufferIndex]
      BY <1>0, <2>1, <3>1
    <3>3. 1 .. cbPos \subseteq 1 .. iqIndex'[bufferIndex]
      <4>1. iqIndex'[bufferIndex] \in {iqIndex[bufferIndex], BufferUnits}
        BY <1>0, <1>5 DEF Swap
      <4> QED
        BY <1>0, <3>2, <4>1, ReceiverAssumption
    <3>4. \A i \in 1 .. cbPos : samples'[bufferIndex][i] <= 2
      BY <2>3, <2>5, <3>3
    <3> QED
      BY <2>1, <3>1, <3>4 DEF Fresh, Storing
  <2> QED
    BY <2>1, <2>4, <2>5
<1>6. CASE SignalDecoder
  <2>1. /\ mpc = "swapped" /\ mpc' = "reset" /\ part = "gap"
        /\ iqIndex' = [iqIndex EXCEPT ![bufferIndex] = 0]
        /\ Storing /\ cbPos > 0 => races' = races + 1
        /\ UNCHANGED <<part, bufferIndex, cbpc, cbIdx, cbPos>>
    BY <1>0, <1>6 DEF SignalDecoder, ResetIndex, cbVars, TimingInv, Storing
  <2>2. iqIndex'[bufferIndex'] = 0
    BY <1>0, <2>1
  <2>3. races' = 0 => Filled' = 0
    BY <1>0, <2>1, <2>2 DEF Filled, Storing
  <2>4. Clean(0)'
    BY <2>3 DEF Clean, FreshNow, Fresh
  <2>5. NoOlderSamples'
    BY <2>1 DEF NoOlderSamples
  <2> QED
    BY <2>1, <2>4, <2>5
<1>7. CASE ResetAtSlot
  <2>1. /\ mpc \in {"reset", "realign"} /\ mpc' \in {"watch", "top"} /\ part = "window"
        /\ iqIndex' = [iqIndex EXCEPT ![bufferIndex] = 0]
        /\ races' = IF Storing /\ cbPos > 0 THEN races + 1 ELSE races
        /\ Storing /\ cbPos > 0 => samples' = samples
        /\ UNCHANGED <<part, bufferIndex, cbpc, cbIdx, cbPos>>
    BY <1>0, <1>7 DEF ResetAtSlot, Resetting, ResetIndex, cbVars, Storing
  <2>2. iqIndex'[bufferIndex'] = 0
    BY <1>0, <2>1
  <2>3. ASSUME races' <= 1 PROVE FreshNow(1)'
    <3>1. CASE Storing /\ cbPos > 0
      <4>1. races = 0
        BY <1>0, <2>1, <2>3, <3>1
      <4>2. FreshNow(1) /\ Filled' = Filled
        BY <1>0, <2>1, <3>1, <4>1 DEF Clean, Filled, Storing
      <4> QED
        BY <2>1, <3>1, <4>2 DEF FreshNow, Fresh
    <3>2. CASE ~(Storing /\ cbPos > 0)
      <4>1. Filled' = 0
        BY <1>0, <2>1, <2>2, <3>2 DEF Filled, Storing
      <4> QED
        BY <4>1 DEF FreshNow, Fresh
    <3> QED
      BY <3>1, <3>2
  <2>4. NoOlderSamples'
    BY <2>1 DEF NoOlderSamples
  <2> QED
    BY <2>1, <2>2, <2>3, <2>4
<1>8. CASE Watchdog
  <2>1. /\ mpc = "watch" /\ part = "window" /\ mpc' \in {"top", "restart"}
        /\ mpc' = "restart" => ~cbNew /\ patience = 0
        /\ UNCHANGED <<part, samples, iqIndex, bufferIndex, races, aligned, cbpc, cbIdx, cbPos>>
    BY <1>0, <1>8 DEF Watchdog, Watching, cbVars, history, TimingInv
  <2>2. mpc' = "restart" => cbpc = "idle" /\ iqIndex[bufferIndex] = 0
    <3> SUFFICES ASSUME mpc' = "restart" PROVE cbpc = "idle" /\ iqIndex[bufferIndex] = 0
      OBVIOUS
    <3>1. quiet >= 2
      BY <1>0, <2>1, ReceiverAssumption DEF PatienceInv
    <3> QED
      BY <1>0, <2>1, <3>1 DEF PatienceInv
  <2>3. Filled' = Filled /\ (Storing' <=> Storing)
    BY <2>1 DEF Filled, Storing
  <2>4. FreshNow(1) => FreshNow(1)'
    BY <2>1, <2>3, SameBuffer
  <2>5. NoOlderSamples'
    BY <2>1 DEF NoOlderSamples
  <2> QED
    BY <1>0, <2>1, <2>2, <2>4, <2>5
<1>9. CASE RestartOk \/ RestartFails
  <2>1. /\ mpc = "restart" /\ mpc' = "top"
        /\ UNCHANGED <<part, samples, iqIndex, bufferIndex, races, aligned, cbpc, cbIdx, cbPos>>
    BY <1>9 DEF RestartOk, RestartFails, Restarting, cbVars
  <2>2. Filled' = 0
    BY <1>0, <2>1 DEF Filled, Storing
  <2>3. FreshNow(1)' /\ Clean(0)'
    BY <2>2 DEF Clean, FreshNow, Fresh
  <2>4. NoOlderSamples'
    BY <2>1 DEF NoOlderSamples
  <2> QED
    BY <2>1, <2>3, <2>4
<1>10. CASE StopDecoder
  BY <1>10 DEF StopDecoder
<1>11. CASE FreeAll \/ JoinDecoder
  <2>1. mpc' \in {"join", "done"}
    BY <1>11 DEF FreeAll, JoinDecoder
  <2> QED
    BY <2>1 DEF NoOlderSamples
<1>12. CASE SecondReader \/ RadioStops \/ SigintHandler \/ ProgramQuit \/ Decoder
          \/ SpuriousWakeup \/ UNCHANGED vars
  <2>1. UNCHANGED <<mpc, part, quiet, samples, iqIndex, bufferIndex, races, aligned, cbpc, cbIdx, cbPos>>
    BY <1>12 DEF SecondReader, RadioStops, SigintHandler, ProgramQuit, Decoder, DecoderCheck,
         DecoderWaits, DecoderWakes, DecoderAborts, SpuriousWakeup, FftEnds, DecodeEnds,
         DecoderOnly, vars, mainVars, cbVars, history
  <2>2. Filled' = Filled /\ (Storing' <=> Storing)
    BY <2>1 DEF Filled, Storing
  <2>3. /\ FreshNow(1) => FreshNow(1)'
        /\ FreshNow(2) => FreshNow(2)'
        /\ Clean(0) => Clean(0)'
        /\ Clean(1) => Clean(1)'
    BY <2>1, <2>2, SameBuffer
  <2>4. NoOlderSamples'
    BY <1>0, <2>1 DEF NoOlderSamples
  <2>5. Crossing /\ Fresh(cbIdx, cbPos, 2) <=> (Crossing /\ Fresh(cbIdx, cbPos, 2))'
    BY <2>1 DEF Crossing, Fresh
  <2> QED
    BY <1>0, <2>1, <2>2, <2>3, <2>4, <2>5 DEF Crossing
<1> QED
  BY <1>1, <1>2, <1>3, <1>4, <1>5, <1>6, <1>7, <1>8, <1>9, <1>10, <1>11, <1>12
     DEF Next, Main, Finished

-----------------------------------------------------------------------------
(* The theorems *)

(* The six parts hold together in every state that can be reached: each    *)
(* needs the others before the step.                                       *)
LEMMA ReceiverInvariant == Spec => []ReceiverInv
<1>1. Init => ReceiverInv
  BY BasicInit, TimingInit, RepeatInit, PatienceInit, CountInit, AgeInit DEF ReceiverInv
<1>2. ReceiverInv /\ [Next]_vars => ReceiverInv'
  BY BasicStep, TimingStep, RepeatStep, PatienceStep, CountStep, AgeStep DEF ReceiverInv
<1> QED
  BY <1>1, <1>2, PTL DEF Spec

(* For buffers of any size: rtlsdr_callback() never writes beyond the end  *)
(* of a buffer, although it reads the index before the main loop may reset *)
(* it, and the main loop never counts more than RTL_MAX_RESTART failures.  *)
THEOREM BuffersAreKept == Spec => []ReceiverTypeOK
<1>1. ReceiverInv => ReceiverTypeOK
  BY DEF ReceiverInv, BasicInv
<1> QED
  BY <1>1, ReceiverInvariant, PTL

(* A decoder that main() signalled has taken the buffer the callback is    *)
(* not sent to, and keeps it through the FFT.  The unit under way at the   *)
(* swap may still land there, and a decoder that pthread_cond_wait()       *)
(* returned to without a signal is not covered.                            *)
THEOREM DecoderReadsAlone == Spec => []ReaderHasItsBuffer
<1>1. ReceiverInv => ReaderHasItsBuffer
  BY DEF ReceiverInv, TimingInv, Signalled, ReaderHasItsBuffer
<1> QED
  BY <1>1, ReceiverInvariant, PTL

(* Resetting iqIndex twice, at the swap and at the slot, makes up for one  *)
(* reset that an increment of the callback undoes: no sample from before   *)
(* the last gap is decoded.                                                *)
THEOREM TwoResetsAreEnough == Spec => []NoOlderSamples
<1>1. ReceiverInv => NoOlderSamples
  BY DEF ReceiverInv, AgeInv, NoOlderSamples
<1> QED
  BY <1>1, ReceiverInvariant, PTL

(* A device that delivered through the window leaves enough for decode().  *)
THEOREM WindowIsDecodable == Spec => []EnoughWhenStreaming
<1>1. ReceiverInv => EnoughWhenStreaming
  BY DEF ReceiverInv, CountInv
<1> QED
  BY <1>1, ReceiverInvariant, PTL

(* restartRtlDevice() is called only after RTL_STALL_TIMEOUT of silence,   *)
(* for every timeout of two slots or more.                                 *)
THEOREM WatchdogIsPatient == Spec => []NoNeedlessRestart
<1>1. ReceiverInv => NoNeedlessRestart
  BY DEF ReceiverInv, PatienceInv
<1> QED
  BY <1>1, ReceiverInvariant, PTL

(* However late the decoder is and whatever signals are lost, it decodes a *)
(* buffer a second time at most once for each return of the wait at        *)
(* rtlsdr_ft8d.cpp:397 that no signal caused: the signals themselves never *)
(* make it do so, and one spurious return does not lead to another repeat. *)
THEOREM RepeatsNeedSpuriousWakes == Spec => []RepeatsAreSpurious
<1>1. ReceiverInv => RepeatsAreSpurious
  BY DEF ReceiverInv, RepeatInv, RepeatsAreSpurious
<1> QED
  BY <1>1, ReceiverInvariant, PTL

=============================================================================
