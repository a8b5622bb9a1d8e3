------------------------------ MODULE UartPair ------------------------------
(***************************************************************************)
(* handle_uarts.c: both packet links, as one program runs them.  Each link *)
(* is an instance of UartRx; what they share is the processor (the         *)
(* application calls process_uart0 and process_uart1 one after the other), *)
(* the commit and the power failures, and one undo log, in which           *)
(* process_uart1 saves the flags of UART0_BUFFERS.                         *)
(*                                                                         *)
(* Seen from link 0, process_uart1 is a task that saves flags of link 0    *)
(* and changes none of them.  Seen from link 1, nobody ever saves its      *)
(* flags.                                                                  *)
(***************************************************************************)
EXTENDS Integers

CONSTANTS
  UART0_BUFFER_CNT, UART1_BUFFER_CNT,
  Byte, ESP_BYTE0, ESP_BYTE1,
  MIN_LEN, UARTLINK_MAX_PAYLOAD_SIZE,
  PRE_HEADER_LEN, OPENLST_MAX_PAYLOAD_LEN,
  COMPLETE

(* process_uart1 takes the index of its own buffer for one of link 0.  The *)
(* value that it stores to clear a mark, 1, must not be COMPLETE.          *)
ASSUME PairAssumption ==
  /\ UART0_BUFFER_CNT \in Nat
  /\ UART1_BUFFER_CNT \in 1 .. UART0_BUFFER_CNT
  /\ Byte \subseteq Nat
  /\ {ESP_BYTE0, ESP_BYTE1} \subseteq Byte
  /\ MIN_LEN \in Nat \ {0}
  /\ UARTLINK_MAX_PAYLOAD_SIZE \in Nat
  /\ PRE_HEADER_LEN \in Nat
  /\ OPENLST_MAX_PAYLOAD_LEN \in Nat
  /\ COMPLETE \in Nat \ {0, 1}

(* As in UartRx. *)
ASSUME LinkFitsAssumption ==
  UARTLINK_MAX_PAYLOAD_SIZE <= OPENLST_MAX_PAYLOAD_LEN

VARIABLES
  active0, complete0, full_len0, saved_active0, saved_complete0,
  progress0, prog_len0, prog_counter0, buffer_num0, pc0, i0,
  whole0, owed0, done0, reclaimed0, tainted0, misled0, erased0,
  active1, complete1, full_len1, saved_active1, saved_complete1,
  progress1, prog_len1, prog_counter1, buffer_num1, pc1, i1,
  whole1, owed1, done1, reclaimed1, tainted1, misled1, erased1

uart0 == INSTANCE UartRx WITH
  UART_BUFFER_CNT <- UART0_BUFFER_CNT, CLEARED <- 0,
  LogsOwn <- TRUE, ForeignLogs <- TRUE,
  active <- active0, complete <- complete0, full_len <- full_len0,
  saved_active <- saved_active0, saved_complete <- saved_complete0,
  progress <- progress0, prog_len <- prog_len0,
  prog_counter <- prog_counter0, buffer_num <- buffer_num0,
  pc <- pc0, i <- i0, whole <- whole0, owed <- owed0, done <- done0,
  reclaimed <- reclaimed0, tainted <- tainted0, misled <- misled0,
  erased <- erased0

uart1 == INSTANCE UartRx WITH
  UART_BUFFER_CNT <- UART1_BUFFER_CNT, CLEARED <- 1,
  LogsOwn <- FALSE, ForeignLogs <- FALSE,
  active <- active1, complete <- complete1, full_len <- full_len1,
  saved_active <- saved_active1, saved_complete <- saved_complete1,
  progress <- progress1, prog_len <- prog_len1,
  prog_counter <- prog_counter1, buffer_num <- buffer_num1,
  pc <- pc1, i <- i1, whole <- whole1, owed <- owed1, done <- done1,
  reclaimed <- reclaimed1, tainted <- tainted1, misled <- misled1,
  erased <- erased1

vars0 ==
  <<active0, complete0, full_len0, saved_active0, saved_complete0,
    progress0, prog_len0, prog_counter0, buffer_num0, pc0, i0,
    whole0, owed0, done0, reclaimed0, tainted0, misled0, erased0>>
vars1 ==
  <<active1, complete1, full_len1, saved_active1, saved_complete1,
    progress1, prog_len1, prog_counter1, buffer_num1, pc1, i1,
    whole1, owed1, done1, reclaimed1, tainted1, misled1, erased1>>
vars == <<vars0, vars1>>

Init == uart0!Init /\ uart1!Init

-----------------------------------------------------------------------------
(* The two receive interrupts *)

HandleProgressUart0(data) == uart0!HandleProgress(data) /\ UNCHANGED vars1

HandleProgressUart1(data) == uart1!HandleProgress(data) /\ UNCHANGED vars0

-----------------------------------------------------------------------------
(* The main program is in at most one of the two functions. *)

CallUart0 == pc1 = "app" /\ uart0!Call /\ UNCHANGED vars1

ProcessUart0 == pc1 = "app" /\ uart0!ProcessUart /\ UNCHANGED vars1

CallUart1 == pc0 = "app" /\ uart1!Call /\ UNCHANGED vars0

(* The log entries made for a frame of link 1 name flags of link 0. *)
SaveForUart1 ==
  \/ uart1!LogComplete /\ uart0!ForeignLogComplete(i1)
  \/ uart1!LogActive /\ uart0!ForeignLogActive

(* Mutant: process_uart1 frees the buffer of link 0, too, as it saves it. *)
MutProcessUart1 ==
  \/ SaveForUart1
  \/ /\ pc0 = "app"
     /\ \/ uart1!Skip \/ uart1!Found \/ uart1!Handle
        \/ uart1!ClearComplete \/ uart1!Return
     /\ UNCHANGED vars0
  \/ /\ pc0 = "app" /\ pc1 = "free"
     /\ active0' = [active0 EXCEPT ![i1] = 0]
     /\ i1' = i1 + 1 /\ pc1' = "scan"
     /\ UNCHANGED <<complete0, full_len0, saved_active0, saved_complete0,
          progress0, prog_len0, prog_counter0, buffer_num0, pc0, i0,
          whole0, owed0, done0, reclaimed0, tainted0, misled0, erased0,
          active1, complete1, full_len1, saved_active1, saved_complete1,
          progress1, prog_len1, prog_counter1, buffer_num1,
          whole1, owed1, done1, reclaimed1, tainted1, misled1, erased1>>

ProcessUart1 ==
  \/ SaveForUart1
  \/ /\ pc0 = "app"
     /\ \/ uart1!Skip \/ uart1!Found \/ uart1!Handle
        \/ uart1!ClearComplete \/ uart1!ClearActive \/ uart1!Return
     /\ UNCHANGED vars0

(* The context switch and a power failure concern both links at once.      *)
(* restore_from_backup puts back flags of link 0 only; until it is done    *)
(* no task runs.                                                           *)
Commit == uart0!Commit /\ uart1!Commit

Crash == uart0!Crash /\ uart1!Crash

Recover == pc1 = "boot" /\ uart0!Recover /\ UNCHANGED vars1

Restore == uart0!Restore /\ uart1!Restore

Next ==
  \/ \E data \in Byte : HandleProgressUart0(data) \/ HandleProgressUart1(data)
  \/ CallUart0 \/ ProcessUart0 \/ CallUart1 \/ ProcessUart1
  \/ Commit \/ Crash \/ Recover \/ Restore

Spec == Init /\ [][Next]_vars

-----------------------------------------------------------------------------
(* Properties *)

(* Link 0, in the program as a whole, is one that UartRx describes: what   *)
(* process_uart1 does to it is to save flags of it, one after the other,   *)
(* of a buffer that link 0 has, and nothing else.                          *)
Uart0IsALink == uart0!Spec

(* Link 1 is a link whose flags nobody saves. *)
Uart1IsALink == uart1!Spec
=============================================================================
