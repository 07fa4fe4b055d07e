----------------------------- MODULE QsoContact -----------------------------
(***************************************************************************)
(* The QSO thread seen from the band: what of its state a contact is.  The *)
(* peer and the letters counted outlive a contact in currentQSO; they mean *)
(* nothing once the machine is idle.                                       *)
(***************************************************************************)
EXTENDS QsoHandler

Stage == [idle |-> "none", replyLoc |-> "calling", replySig |-> "calling",
          replyRR73 |-> "agreed", reply73 |-> "closing"]

Logged == {c \in Calls : adi[c] > 0}

Band == INSTANCE Contact WITH
            MaxCalls <- MAXQSOLIFETIME + 1,   \* one more at exit
            stage    <- Stage[qsoState],
            peer     <- IF qsoState = "idle" THEN NoCall ELSE currentQSO.src,
            calls    <- IF qsoState = "idle" THEN 0 ELSE attempts,
            logged   <- Logged,
            letters  <- tx_queue

(* The QSO thread implements Contact: in whatever order messages, ticks,   *)
(* commands and the transmit thread come, each step of addQso(), addCQ(),  *)
(* updateQsoMachine() and queryCQ() is one that the promise allows.        *)
ContactKept == Band!Spec

=============================================================================
