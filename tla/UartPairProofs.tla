--------------------------- MODULE UartPairProofs ---------------------------
(***************************************************************************)
(* Proofs about UartPair: each of the two links behaves as UartRx says,    *)
(* and so keeps, in the program as a whole, what UartRxProofs proves of a  *)
(* link alone, for every number of buffers.                                *)
(***************************************************************************)
EXTENDS UartPair, TLAPS

(* The index that process_uart1 takes for one of link 0 is one of its own. *)
ScanIndex ==
  /\ i1 \in Nat
  /\ pc1 = "log_complete" => i1 < UART1_BUFFER_CNT

LEMMA ScanIndexStep ==
  ASSUME ScanIndex, uart1!Next \/ UNCHANGED vars1
  PROVE  ScanIndex'
<1>1. CASE UNCHANGED vars1 BY <1>1 DEF ScanIndex, vars1
<1>2. CASE \E data \in Byte : uart1!HandleProgress(data)
  <2>1. UNCHANGED <<pc1, i1>>
    BY <1>2
    DEF uart1!HandleProgress, uart1!WaitEsp0, uart1!WaitEsp1, uart1!RejectLen,
        uart1!NoBuffer, uart1!Claim, uart1!Receive, uart1!main
  <2>2. QED BY <2>1 DEF ScanIndex
<1>3. CASE uart1!Call \/ uart1!ProcessUart
  BY <1>3
  DEF ScanIndex, uart1!ProcessUart, uart1!Call, uart1!Skip, uart1!Found,
      uart1!LogComplete, uart1!LogActive, uart1!Handle, uart1!ClearComplete,
      uart1!ClearActive, uart1!Return
<1>4. CASE uart1!ProcessOther
  BY <1>4
  DEF uart1!ProcessOther, uart1!ForeignLogComplete, uart1!ForeignLogActive,
      ScanIndex, uart1!Buffers
<1>5. CASE uart1!Commit \/ uart1!Crash \/ uart1!Restore \/ uart1!Recover
  BY <1>5
  DEF uart1!Commit, uart1!Crash, uart1!Restore, uart1!Recover,
      uart1!PutBackActive, uart1!PutBackComplete, uart1!DropActive,
      uart1!DropComplete, uart1!Buffers, uart1!main, ScanIndex
<1>6. QED BY <1>1, <1>2, <1>3, <1>4, <1>5 DEF uart1!Next

(* Seen from link 1, every step of the program is a step of a link whose   *)
(* flags nobody saves (Uart1IsALink).                                      *)
LEMMA ImplementsUart1 == Spec => Uart1IsALink
<1>1. Init => uart1!Init BY DEF Init
<1>2. [Next]_vars => [uart1!Next]_uart1!vars
  <2>1. SUFFICES ASSUME [Next]_vars PROVE uart1!Next \/ UNCHANGED uart1!vars
    OBVIOUS
  <2>2. UNCHANGED vars1 => UNCHANGED uart1!vars
    BY DEF vars1, uart1!vars, uart1!cells, uart1!log, uart1!rx,
           uart1!main, uart1!history
  <2>3. CASE \E data \in Byte : HandleProgressUart0(data) \/ HandleProgressUart1(data)
    BY <2>2, <2>3 DEF HandleProgressUart0, HandleProgressUart1, uart1!Next
  <2>4. CASE ProcessUart1
    BY <2>4 DEF ProcessUart1, SaveForUart1, uart1!ProcessUart, uart1!Next
  <2>5. CASE CallUart0 \/ ProcessUart0 \/ CallUart1 \/ Recover
    BY <2>2, <2>5 DEF CallUart0, ProcessUart0, CallUart1, Recover, uart1!Next
  <2>6. CASE Commit \/ Crash \/ Restore
    BY <2>6 DEF Commit, Crash, Restore, uart1!Next
  <2>7. CASE UNCHANGED vars BY <2>2, <2>7 DEF vars
  <2>8. QED BY <2>1, <2>3, <2>4, <2>5, <2>6, <2>7 DEF Next
<1>3. QED BY <1>1, <1>2, PTL DEF Spec, Uart1IsALink, uart1!Spec

(* Seen from link 0, every step of the program is a step of a link whose   *)
(* flags another handler saves (Uart0IsALink).                             *)
THEOREM ImplementsUart0 == Spec => Uart0IsALink
<1>1. Init => uart0!Init BY DEF Init
<1>2. ScanIndex /\ [Next]_vars => [uart0!Next]_uart0!vars
  <2>1. SUFFICES ASSUME ScanIndex, [Next]_vars
                 PROVE  uart0!Next \/ UNCHANGED uart0!vars
    OBVIOUS
  <2>2. UNCHANGED vars0 => UNCHANGED uart0!vars
    BY DEF vars0, uart0!vars, uart0!cells, uart0!log, uart0!rx,
           uart0!main, uart0!history
  <2>3. CASE \E data \in Byte : HandleProgressUart0(data) \/ HandleProgressUart1(data)
    BY <2>2, <2>3 DEF HandleProgressUart0, HandleProgressUart1, uart0!Next
  <2>4. CASE ProcessUart1
    <3>1. SaveForUart1 => uart0!ProcessOther
      <4>1. CASE uart1!LogComplete /\ uart0!ForeignLogComplete(i1)
        <5>1. i1 \in uart0!Buffers
          BY <2>1, <4>1, PairAssumption
          DEF ScanIndex, uart0!Buffers, uart1!LogComplete
        <5>2. QED BY <4>1, <5>1 DEF uart0!ProcessOther
      <4>2. QED BY <4>1 DEF SaveForUart1, uart0!ProcessOther
    <3>2. QED BY <2>2, <2>4, <3>1 DEF ProcessUart1, uart0!Next
  <2>5. CASE CallUart0 \/ ProcessUart0 \/ CallUart1
    BY <2>2, <2>5 DEF CallUart0, ProcessUart0, CallUart1, uart0!Next
  <2>6. CASE Commit \/ Crash \/ Recover \/ Restore
    BY <2>6 DEF Commit, Crash, Recover, Restore, uart0!Next
  <2>7. CASE UNCHANGED vars BY <2>2, <2>7 DEF vars
  <2>8. QED BY <2>1, <2>3, <2>4, <2>5, <2>6, <2>7 DEF Next
<1>3. Spec => []ScanIndex
  <2>1. Init => ScanIndex BY DEF Init, uart1!Init, ScanIndex
  <2>2. ScanIndex /\ [uart1!Next]_uart1!vars => ScanIndex'
    BY ScanIndexStep DEF vars1, uart1!vars, uart1!cells, uart1!log, uart1!rx,
                         uart1!main, uart1!history
  <2>3. QED
    BY <2>1, <2>2, ImplementsUart1, PTL DEF Spec, Uart1IsALink, uart1!Spec
<1>4. QED BY <1>1, <1>2, <1>3, PTL DEF Spec, Uart0IsALink, uart0!Spec
-----------------------------------------------------------------------------
(* What holds of a link alone holds of it in the program.  The theorems of *)
(* UartRxProofs are about its own copy of the definitions of UartRx; the   *)
(* lemmas tell the provers that, link by link, the two copies are the same.*)

rx0 == INSTANCE UartRxProofs WITH
  UART_BUFFER_CNT <- UART0_BUFFER_CNT, CLEARED <- 0,
  LogsOwn <- TRUE, ForeignLogs <- TRUE,
  active <- active0, complete <- complete0, full_len <- full_len0,
  saved_active <- saved_active0, saved_complete <- saved_complete0,
  progress <- progress0, prog_len <- prog_len0,
  prog_counter <- prog_counter0, buffer_num <- buffer_num0,
  pc <- pc0, i <- i0, whole <- whole0, owed <- owed0, done <- done0,
  reclaimed <- reclaimed0, tainted <- tainted0, misled <- misled0,
  erased <- erased0

rx1 == INSTANCE UartRxProofs WITH
  UART_BUFFER_CNT <- UART1_BUFFER_CNT, CLEARED <- 1,
  LogsOwn <- FALSE, ForeignLogs <- FALSE,
  active <- active1, complete <- complete1, full_len <- full_len1,
  saved_active <- saved_active1, saved_complete <- saved_complete1,
  progress <- progress1, prog_len <- prog_len1,
  prog_counter <- prog_counter1, buffer_num <- buffer_num1,
  pc <- pc1, i <- i1, whole <- whole1, owed <- owed1, done <- done1,
  reclaimed <- reclaimed1, tainted <- tainted1, misled <- misled1,
  erased <- erased1

LEMMA Rx0Constants == rx0!ConstantsAssumption /\ rx0!LinkFitsAssumption
  BY PairAssumption, LinkFitsAssumption
  DEF rx0!ConstantsAssumption, rx0!LinkFitsAssumption

LEMMA Rx0Init == uart0!Init => rx0!Init
  BY DEF uart0!Init, rx0!Init, uart0!Buffers, rx0!Buffers,
         uart0!NotSaved, rx0!NotSaved

LEMMA Rx0Next == [uart0!Next]_uart0!vars <=> [rx0!Next]_rx0!vars
  BY
  DEF uart0!WaitEsp0, rx0!WaitEsp0, uart0!WaitEsp1, rx0!WaitEsp1,
      uart0!RejectLen, rx0!RejectLen, uart0!AcceptLen, rx0!AcceptLen,
      uart0!NoBuffer, rx0!NoBuffer, uart0!Claim, rx0!Claim, uart0!Receive,
      rx0!Receive, uart0!HandleProgress, rx0!HandleProgress, uart0!Call,
      rx0!Call, uart0!Skip, rx0!Skip, uart0!Found, rx0!Found, uart0!Save,
      rx0!Save, uart0!LogComplete, rx0!LogComplete, uart0!LogActive,
      rx0!LogActive, uart0!Handle, rx0!Handle, uart0!ClearComplete,
      rx0!ClearComplete, uart0!ClearActive, rx0!ClearActive, uart0!Return,
      rx0!Return, uart0!ForeignLogComplete, rx0!ForeignLogComplete,
      uart0!ForeignLogActive, rx0!ForeignLogActive, uart0!Commit, rx0!Commit,
      uart0!Crash, rx0!Crash, uart0!PutBackHistory, rx0!PutBackHistory,
      uart0!PutBackActive, rx0!PutBackActive, uart0!PutBackComplete,
      rx0!PutBackComplete, uart0!DropActive, rx0!DropActive,
      uart0!DropComplete, rx0!DropComplete, uart0!Recover, rx0!Recover,
      uart0!Restore, rx0!Restore, uart0!ProcessUart, rx0!ProcessUart, uart0!ProcessOther,
      rx0!ProcessOther, uart0!Next, rx0!Next, uart0!cells, rx0!cells,
      uart0!log, rx0!log, uart0!rx, rx0!rx, uart0!main, rx0!main,
      uart0!history, rx0!history, uart0!vars, rx0!vars, uart0!Buffers,
      rx0!Buffers, uart0!NotSaved, rx0!NotSaved, uart0!Visible, rx0!Visible,
      uart0!Saved, rx0!Saved

LEMMA Rx0Spec == Spec => rx0!Spec
<1>1. uart0!Spec => rx0!Spec
  BY Rx0Init, Rx0Next, PTL DEF uart0!Spec, rx0!Spec
<1>2. QED BY <1>1, ImplementsUart0 DEF Uart0IsALink

LEMMA Rx1Constants == rx1!ConstantsAssumption /\ rx1!LinkFitsAssumption
  BY PairAssumption, LinkFitsAssumption
  DEF rx1!ConstantsAssumption, rx1!LinkFitsAssumption

LEMMA Rx1Init == uart1!Init => rx1!Init
  BY DEF uart1!Init, rx1!Init, uart1!Buffers, rx1!Buffers,
         uart1!NotSaved, rx1!NotSaved

LEMMA Rx1Next == [uart1!Next]_uart1!vars <=> [rx1!Next]_rx1!vars
  BY
  DEF uart1!WaitEsp0, rx1!WaitEsp0, uart1!WaitEsp1, rx1!WaitEsp1,
      uart1!RejectLen, rx1!RejectLen, uart1!AcceptLen, rx1!AcceptLen,
      uart1!NoBuffer, rx1!NoBuffer, uart1!Claim, rx1!Claim, uart1!Receive,
      rx1!Receive, uart1!HandleProgress, rx1!HandleProgress, uart1!Call,
      rx1!Call, uart1!Skip, rx1!Skip, uart1!Found, rx1!Found, uart1!Save,
      rx1!Save, uart1!LogComplete, rx1!LogComplete, uart1!LogActive,
      rx1!LogActive, uart1!Handle, rx1!Handle, uart1!ClearComplete,
      rx1!ClearComplete, uart1!ClearActive, rx1!ClearActive, uart1!Return,
      rx1!Return, uart1!ForeignLogComplete, rx1!ForeignLogComplete,
      uart1!ForeignLogActive, rx1!ForeignLogActive, uart1!Commit, rx1!Commit,
      uart1!Crash, rx1!Crash, uart1!PutBackHistory, rx1!PutBackHistory,
      uart1!PutBackActive, rx1!PutBackActive, uart1!PutBackComplete,
      rx1!PutBackComplete, uart1!DropActive, rx1!DropActive,
      uart1!DropComplete, rx1!DropComplete, uart1!Recover, rx1!Recover,
      uart1!Restore, rx1!Restore, uart1!ProcessUart, rx1!ProcessUart, uart1!ProcessOther,
      rx1!ProcessOther, uart1!Next, rx1!Next, uart1!cells, rx1!cells,
      uart1!log, rx1!log, uart1!rx, rx1!rx, uart1!main, rx1!main,
      uart1!history, rx1!history, uart1!vars, rx1!vars, uart1!Buffers,
      rx1!Buffers, uart1!NotSaved, rx1!NotSaved, uart1!Visible, rx1!Visible,
      uart1!Saved, rx1!Saved

LEMMA Rx1Spec == Spec => rx1!Spec
<1>1. uart1!Spec => rx1!Spec
  BY Rx1Init, Rx1Next, PTL DEF uart1!Spec, rx1!Spec
<1>2. QED BY <1>1, ImplementsUart1 DEF Uart1IsALink

(* Both interrupts store every byte inside the frame that they announced,  *)
(* in a buffer that they have claimed (ReceivesInBounds), whatever the     *)
(* handler of the other link does to the log.                              *)
THEOREM PairStaysInBounds ==
  Spec => [](uart0!ReceivesInBounds /\ uart1!ReceivesInBounds)
<1>1. Spec => []uart0!ReceivesInBounds
  <2>1. rx0!ReceivesInBounds => uart0!ReceivesInBounds
    BY DEF rx0!ReceivesInBounds, uart0!ReceivesInBounds, rx0!Buffers,
           uart0!Buffers, rx0!MsgIndex, uart0!MsgIndex, rx0!MsgSize,
           uart0!MsgSize
  <2>2. QED BY <2>1, Rx0Constants, Rx0Spec, rx0!NoOverrun, PTL
<1>2. Spec => []uart1!ReceivesInBounds
  <2>1. rx1!ReceivesInBounds => uart1!ReceivesInBounds
    BY DEF rx1!ReceivesInBounds, uart1!ReceivesInBounds, rx1!Buffers,
           uart1!Buffers, rx1!MsgIndex, uart1!MsgIndex, rx1!MsgSize,
           uart1!MsgSize
  <2>2. QED BY <2>1, Rx1Constants, Rx1Spec, rx1!NoOverrun, PTL
<1>3. QED BY <1>1, <1>2, PTL

(* Both handlers look at whole frames only, in untainted buffers           *)
(* (HandledFrameIsWhole).                                                  *)
THEOREM PairFramesAreWhole ==
  Spec => [](uart0!HandledFrameIsWhole /\ uart1!HandledFrameIsWhole)
<1>1. Spec => []uart0!HandledFrameIsWhole
  <2>1. rx0!HandledFrameIsWhole => uart0!HandledFrameIsWhole
    BY DEF rx0!HandledFrameIsWhole, uart0!HandledFrameIsWhole, rx0!Handling,
           uart0!Handling, rx0!ReceivingInto, uart0!ReceivingInto
  <2>2. QED BY <2>1, Rx0Constants, Rx0Spec, rx0!WholeFrames, PTL
<1>2. Spec => []uart1!HandledFrameIsWhole
  <2>1. rx1!HandledFrameIsWhole => uart1!HandledFrameIsWhole
    BY DEF rx1!HandledFrameIsWhole, uart1!HandledFrameIsWhole, rx1!Handling,
           uart1!Handling, rx1!ReceivingInto, uart1!ReceivingInto
  <2>2. QED BY <2>1, Rx1Constants, Rx1Spec, rx1!WholeFrames, PTL
<1>3. QED BY <1>1, <1>2, PTL

(* No buffer of either link is complete but inactive, except tainted ones  *)
(* (NoOrphan).                                                             *)
THEOREM PairLosesNoBuffer ==
  Spec => [](uart0!NoOrphan /\ uart1!NoOrphan)
<1>1. Spec => []uart0!NoOrphan
  <2>1. rx0!NoOrphan => uart0!NoOrphan
    BY DEF rx0!NoOrphan, uart0!NoOrphan, rx0!Buffers, uart0!Buffers
  <2>2. QED BY <2>1, Rx0Constants, Rx0Spec, rx0!NoBufferLost, PTL
<1>2. Spec => []uart1!NoOrphan
  <2>1. rx1!NoOrphan => uart1!NoOrphan
    BY DEF rx1!NoOrphan, uart1!NoOrphan, rx1!Buffers, uart1!Buffers
  <2>2. QED BY <2>1, Rx1Constants, Rx1Spec, rx1!NoBufferLost, PTL
<1>3. QED BY <1>1, <1>2, PTL

(* Neither handler takes away a frame of either link that is not handled:  *)
(* only a power failure does, or on link 0 the recovery after it, of those *)
(* frames whose flags process_uart1 saved too early (OnlyPowerLoses).      *)
THEOREM PairOnlyPowerLoses ==
  Spec => uart0!OnlyPowerLoses /\ uart1!OnlyPowerLoses
<1>1. Spec => uart0!OnlyPowerLoses
  <2>1. [~rx0!PowerFails => rx0!LosesNothing]_rx0!vars
         => [~uart0!PowerFails => uart0!LosesNothing]_uart0!vars
    BY DEF rx0!LosesNothing, uart0!LosesNothing, rx0!PowerFails,
           uart0!PowerFails, rx0!Booting, uart0!Booting, rx0!Kept, uart0!Kept, rx0!Visible, uart0!Visible,
           rx0!vars, uart0!vars, rx0!cells, uart0!cells, rx0!log, uart0!log,
           rx0!rx, uart0!rx, rx0!main, uart0!main, rx0!history, uart0!history
  <2>2. QED BY <2>1, Rx0Constants, Rx0Spec, rx0!OnlyPowerFailuresLose, PTL
        DEF rx0!OnlyPowerLoses, uart0!OnlyPowerLoses
<1>2. Spec => uart1!OnlyPowerLoses
  <2>1. [~rx1!PowerFails => rx1!LosesNothing]_rx1!vars
         => [~uart1!PowerFails => uart1!LosesNothing]_uart1!vars
    BY DEF rx1!LosesNothing, uart1!LosesNothing, rx1!PowerFails,
           uart1!PowerFails, rx1!Booting, uart1!Booting, rx1!Kept, uart1!Kept, rx1!Visible, uart1!Visible,
           rx1!vars, uart1!vars, rx1!cells, uart1!cells, rx1!log, uart1!log,
           rx1!rx, uart1!rx, rx1!main, uart1!main, rx1!history, uart1!history
  <2>2. QED BY <2>1, Rx1Constants, Rx1Spec, rx1!OnlyPowerFailuresLose, PTL
        DEF rx1!OnlyPowerLoses, uart1!OnlyPowerLoses
<1>3. QED BY <1>1, <1>2

(* On link 0, as process_uart1 saves its flags too, recovery shows a frame *)
(* again until the task that handled it commits (AtLeastOnce), unless its  *)
(* buffer was tainted, or claimed again before the commit, or its flags    *)
(* were saved by process_uart1 before the frame was complete: of those     *)
(* frames nothing is said.                                                 *)
THEOREM PairKeepsUntilCommit == Spec => []uart0!AtLeastOnce
<1>1. rx0!AtLeastOnce => uart0!AtLeastOnce
  BY DEF rx0!AtLeastOnce, uart0!AtLeastOnce, rx0!Visible, uart0!Visible,
         rx0!ComesBack, uart0!ComesBack, rx0!AfterRecovery,
         uart0!AfterRecovery, rx0!Booting, uart0!Booting, rx0!NotSaved,
         uart0!NotSaved
<1>2. QED BY <1>1, Rx0Constants, Rx0Spec, rx0!FramesDelivered, PTL
=============================================================================
