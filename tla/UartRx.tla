------------------------------- MODULE UartRx -------------------------------
(***************************************************************************)
(* handle_uarts.c: one packet link.  The receive interrupt calls           *)
(* handle_progress_uart<n> with every byte; it assembles frames in a pool  *)
(* of FRAM buffers.  The top-level loop of the application calls           *)
(* process_uart<n>, which handles every complete frame and frees its       *)
(* buffer.  The two share the flags active and complete of each buffer     *)
(* without a lock, and power may fail at any moment.                       *)
(*                                                                         *)
(* An interrupt runs between any two stores of the main program, and is    *)
(* itself not interrupted: one byte is one step.  Of the bytes of a frame  *)
(* only what the receiver tells apart is kept.  The undo log is modelled   *)
(* as UndoLog is proved to behave: of a flag saved several times, the      *)
(* oldest value is restored.  (The newer values that recovery puts back    *)
(* before it are left out: they differ only in misled buffers, see below.) *)
(***************************************************************************)
EXTENDS Integers

CONSTANTS
  UART_BUFFER_CNT,            (* buffers of the link                       *)
  Byte,                       (* values of a received byte                 *)
  ESP_BYTE0, ESP_BYTE1,       (* the two bytes that start a frame          *)
  MIN_LEN,                    (* shortest frame accepted; 6 in the code    *)
  UARTLINK_MAX_PAYLOAD_SIZE,  (* longest frame accepted                    *)
  PRE_HEADER_LEN,             (* bytes of pkt.msg in front of the frame    *)
  OPENLST_MAX_PAYLOAD_LEN,    (* bytes of pkt.msg from there on            *)
  COMPLETE,                   (* the mark of a complete frame              *)
  CLEARED,                    (* what process_uart<n> overwrites it with   *)
  LogsOwn,                    (* process_uart<n> saves its own link's flags*)
  ForeignLogs                 (* the other link's handler saves this one's *)

ASSUME ConstantsAssumption ==
  /\ UART_BUFFER_CNT \in Nat \ {0}
  /\ Byte \subseteq Nat
  /\ {ESP_BYTE0, ESP_BYTE1} \subseteq Byte
  /\ MIN_LEN \in Nat \ {0}
  /\ UARTLINK_MAX_PAYLOAD_SIZE \in Nat
  /\ PRE_HEADER_LEN \in Nat
  /\ OPENLST_MAX_PAYLOAD_LEN \in Nat
  /\ COMPLETE \in Nat \ {0}
  /\ CLEARED \in Nat \ {COMPLETE}
  /\ LogsOwn \in BOOLEAN
  /\ ForeignLogs \in BOOLEAN

(* pkt.msg is declared in comm.h; the longest frame that is accepted is    *)
(* configured in the library of the UART links.  Nothing in the code ties  *)
(* the one to the other: what is stored in bounds rests on this.           *)
ASSUME LinkFitsAssumption ==
  UARTLINK_MAX_PAYLOAD_SIZE <= OPENLST_MAX_PAYLOAD_LEN

VARIABLES
  (* Non-volatile: the flags of each buffer, and their saved values. *)
  active, complete, full_len,
  saved_active, saved_complete,
  (* Volatile: the statics of handle_progress_uart<n>. *)
  progress, prog_len, prog_counter, buffer_num,
  (* Volatile: where process_uart<n> is, and its loop index. *)
  pc, i,
  (* History, read by the properties only. *)
  whole,      (* buffers that hold every byte of the frame they announce   *)
  owed,       (* buffers whose frame was received and is not yet handled   *)
              (* by a committed task                                       *)
  done,       (* buffers that the running task has handled                 *)
  reclaimed,  (* buffers claimed for a new frame while the log still holds *)
              (* flags of theirs                                           *)
  tainted,    (* buffers that became visible by another way than a frame   *)
  misled,     (* buffers of which the other link's handler saved flags     *)
              (* while they held no complete frame                         *)
  erased      (* owed buffers of which recovery has put back such flags    *)

cells == <<active, complete, full_len>>
log == <<saved_active, saved_complete>>
rx == <<progress, prog_len, prog_counter, buffer_num>>
main == <<pc, i>>
history == <<whole, owed, done, reclaimed, tainted, misled, erased>>
vars == <<cells, log, rx, main, history>>

Buffers == 0 .. UART_BUFFER_CNT - 1
Marks == {0, CLEARED, COMPLETE}
NotSaved == -1

(* What both sides call a complete frame. *)
Visible(b) == active[b] # 0 /\ complete[b] = COMPLETE

ReceivingInto(b) == progress = "receive_data" /\ buffer_num = b

(* A power failure would bring flags of b back. *)
Saved(b) == saved_active[b] # NotSaved \/ saved_complete[b] # NotSaved

(* What a flag will be after recovery, if power fails now or has failed.   *)
AfterRecovery(saved, cell, b) ==
  IF saved[b] = NotSaved THEN cell[b] ELSE saved[b]

(* Recovery shows b as a complete frame. *)
ComesBack(b) ==
  /\ AfterRecovery(saved_active, active, b) # 0
  /\ AfterRecovery(saved_complete, complete, b) = COMPLETE

(* restore_from_backup runs. *)
Booting == pc \in {"boot", "drop_active", "drop_complete"}

Init ==
  /\ active = [b \in Buffers |-> 0]
  /\ complete = [b \in Buffers |-> 0]
  /\ full_len = [b \in Buffers |-> 0]
  /\ saved_active = [b \in Buffers |-> NotSaved]
  /\ saved_complete = [b \in Buffers |-> NotSaved]
  /\ progress = "wait_esp0"
  /\ prog_len = 0
  /\ prog_counter = 0
  /\ buffer_num = -1
  /\ pc = "boot"
  /\ i = 0
  /\ whole = {}
  /\ owed = {}
  /\ done = {}
  /\ reclaimed = {}
  /\ tainted = {}
  /\ misled = {}
  /\ erased = {}

-----------------------------------------------------------------------------
(* handle_progress_uart<n>: one received byte *)

WaitEsp0(data) ==
  /\ progress = "wait_esp0"
  /\ prog_counter' = 0
  /\ progress' = IF data = ESP_BYTE0 THEN "wait_esp1" ELSE "wait_esp0"
  /\ UNCHANGED <<cells, log, prog_len, buffer_num, main, history>>

WaitEsp1(data) ==
  /\ progress = "wait_esp1"
  /\ prog_counter' = 0
  /\ IF data = ESP_BYTE1
     THEN progress' = "wait_len" /\ prog_len' = 0
     ELSE progress' = "wait_esp0" /\ UNCHANGED prog_len
  /\ UNCHANGED <<cells, log, buffer_num, main, history>>

(* Too long or too short: returns 1. *)
RejectLen(data) ==
  /\ progress = "wait_len"
  /\ data > UARTLINK_MAX_PAYLOAD_SIZE \/ data < MIN_LEN
  /\ prog_len' = data
  /\ progress' = "wait_esp0"
  /\ UNCHANGED <<cells, log, prog_counter, buffer_num, main, history>>

(* Mutant: the length is not tested. *)
MutAcceptLen(data) ==
  /\ progress = "wait_len"
  /\ prog_len' = data
  /\ prog_counter' = 0

AcceptLen(data) ==
  /\ progress = "wait_len"
  /\ ~(data > UARTLINK_MAX_PAYLOAD_SIZE \/ data < MIN_LEN)
  /\ prog_len' = data
  /\ prog_counter' = 0

(* Out of buffers: returns 1. *)
NoBuffer(data) ==
  /\ AcceptLen(data)
  /\ \A b \in Buffers : Visible(b)
  /\ buffer_num' = -1
  /\ progress' = "wait_esp0"
  /\ UNCHANGED <<cells, log, main, history>>

(* The first buffer that holds no complete frame is claimed.  Its mark is  *)
(* left as it is.  A claim between the two stores of process_uart<n> that  *)
(* free b, or of a buffer whose mark is still COMPLETE, taints b; any      *)
(* other claim starts it afresh.                                           *)
Claim(data, b) ==
  /\ AcceptLen(data)
  /\ ~Visible(b)
  /\ \A lower \in 0 .. b - 1 : Visible(lower)
  /\ buffer_num' = b
  /\ active' = [active EXCEPT ![b] = 1]
  /\ full_len' = [full_len EXCEPT ![b] = data]
  /\ progress' = "receive_data"
  /\ whole' = whole \ {b}
  /\ tainted' = IF complete[b] = COMPLETE \/ (pc = "free" /\ i = b)
                THEN tainted \cup {b} ELSE tainted \ {b}
  /\ reclaimed' = IF Saved(b) THEN reclaimed \cup {b} ELSE reclaimed
  /\ owed' = IF b \in tainted \cup erased THEN owed \ {b} ELSE owed
  /\ erased' = erased \ {b}
  /\ UNCHANGED <<complete, log, main, done, misled>>

(* One byte goes to pkt.msg[MsgIndex]; the last one completes the frame. *)
MsgIndex == prog_counter + PRE_HEADER_LEN
MsgSize == OPENLST_MAX_PAYLOAD_LEN + PRE_HEADER_LEN

Receive(data) ==
  /\ progress = "receive_data"
  /\ IF prog_counter + 1 >= prog_len
     THEN /\ complete' = [complete EXCEPT ![buffer_num] = COMPLETE]
          /\ prog_counter' = 0
          /\ prog_len' = 0
          /\ progress' = "wait_esp0"
          /\ whole' = whole \cup {buffer_num}
          /\ owed' = owed \cup {buffer_num}
          /\ done' = done \ {buffer_num}
     ELSE /\ prog_counter' = prog_counter + 1
          /\ UNCHANGED <<complete, prog_len, progress, whole, owed, done>>
  /\ UNCHANGED <<active, full_len, log, buffer_num, main, reclaimed, tainted,
                 misled, erased>>

HandleProgress(data) ==
  \/ WaitEsp0(data) \/ WaitEsp1(data) \/ RejectLen(data) \/ NoBuffer(data)
  \/ \E b \in Buffers : Claim(data, b)
  \/ Receive(data)

-----------------------------------------------------------------------------
(* process_uart<n>, called from the top-level loop of the application *)

Call ==
  /\ pc = "app"
  /\ pc' = "scan"
  /\ i' = 0
  /\ UNCHANGED <<cells, log, rx, history>>

(* The two flags are read one after the other, but the interrupt never     *)
(* resets either, so the test has the outcome of a single read.            *)
Skip ==
  /\ pc = "scan"
  /\ i < UART_BUFFER_CNT
  /\ ~Visible(i)
  /\ i' = i + 1
  /\ UNCHANGED <<cells, log, rx, pc, history>>

(* Mutant: the mark of the frame is not tested. *)
MutFound ==
  /\ pc = "scan"
  /\ i < UART_BUFFER_CNT
  /\ active[i] # 0
  /\ pc' = "log_complete"
  /\ UNCHANGED <<cells, log, rx, i, history>>

Found ==
  /\ pc = "scan"
  /\ i < UART_BUFFER_CNT
  /\ Visible(i)
  /\ pc' = "log_complete"
  /\ UNCHANGED <<cells, log, rx, i, history>>

(* write_to_log: the oldest value of the running task is the one restored. *)
Save(saved, cell, b) ==
  [saved EXCEPT ![b] = IF @ = NotSaved THEN cell[b] ELSE @]

LogComplete ==
  /\ pc = "log_complete"
  /\ saved_complete' = IF LogsOwn THEN Save(saved_complete, complete, i)
                       ELSE saved_complete
  /\ pc' = "log_active"
  /\ UNCHANGED <<cells, saved_active, rx, i, history>>

(* Mutant: the flag is not saved. *)
MutLogActive ==
  /\ pc = "log_active"
  /\ pc' = "handle"
  /\ UNCHANGED <<cells, log, rx, i, history>>

LogActive ==
  /\ pc = "log_active"
  /\ saved_active' = IF LogsOwn THEN Save(saved_active, active, i)
                     ELSE saved_active
  /\ pc' = "handle"
  /\ UNCHANGED <<cells, saved_complete, rx, i, history>>

(* The switch over the command: it reads pkt and changes no flag. *)
Handle ==
  /\ pc = "handle"
  /\ done' = done \cup {i}
  /\ pc' = "clear"
  /\ UNCHANGED <<cells, log, rx, i, whole, owed, reclaimed, tainted, misled,
                 erased>>

(* Mutants: the mark is not cleared; it is cleared to 1, as on link 1; the *)
(* mark of another buffer is cleared.                                      *)
MutClearNothing ==
  /\ pc = "clear"
  /\ pc' = "free"
  /\ UNCHANGED <<cells, log, rx, i, history>>
MutClearToOne ==
  /\ pc = "clear"
  /\ complete' = [complete EXCEPT ![i] = 1]
  /\ pc' = "free"
  /\ UNCHANGED <<active, full_len, log, rx, i, history>>

MutClearLast ==
  /\ pc = "clear"
  /\ complete' = [complete EXCEPT ![UART_BUFFER_CNT - 1] = CLEARED]
  /\ pc' = "free"
  /\ UNCHANGED <<active, full_len, log, rx, i, history>>

ClearComplete ==
  /\ pc = "clear"
  /\ complete' = [complete EXCEPT ![i] = CLEARED]
  /\ pc' = "free"
  /\ UNCHANGED <<active, full_len, log, rx, i, history>>

ClearActive ==
  /\ pc = "free"
  /\ active' = [active EXCEPT ![i] = 0]
  /\ i' = i + 1
  /\ pc' = "scan"
  /\ UNCHANGED <<complete, full_len, log, rx, history>>

(* Mutant: the loop ends one buffer early. *)
MutReturn ==
  /\ pc = "scan"
  /\ ~(i < UART_BUFFER_CNT - 1)
  /\ pc' = "app"
  /\ i' = 0
  /\ UNCHANGED <<cells, log, rx, history>>

Return ==
  /\ pc = "scan"
  /\ ~(i < UART_BUFFER_CNT)
  /\ pc' = "app"
  /\ i' = 0
  /\ UNCHANGED <<cells, log, rx, history>>

(* The two write_to_log calls of the other link's handler, for a frame in  *)
(* its buffer of the same index.                                           *)
ForeignLogComplete(b) ==
  /\ ForeignLogs
  /\ pc = "app"
  /\ saved_complete' = Save(saved_complete, complete, b)
  /\ misled' = IF Visible(b) \/ Saved(b) THEN misled ELSE misled \cup {b}
  /\ i' = b
  /\ pc' = "foreign"
  /\ UNCHANGED <<cells, saved_active, rx, whole, owed, done, reclaimed,
                 tainted, erased>>

ForeignLogActive ==
  /\ pc = "foreign"
  /\ saved_active' = Save(saved_active, active, i)
  /\ i' = 0
  /\ pc' = "app"
  /\ UNCHANGED <<cells, saved_complete, rx, history>>

(* The application ends its task: the log is emptied (UndoLog, SwitchCtx). *)
Commit ==
  /\ pc = "app"
  /\ saved_active' = [b \in Buffers |-> NotSaved]
  /\ saved_complete' = [b \in Buffers |-> NotSaved]
  /\ owed' = owed \ done
  /\ done' = {}
  /\ reclaimed' = {}
  /\ misled' = {}
  /\ UNCHANGED <<cells, rx, main, whole, tainted, erased>>

-----------------------------------------------------------------------------
(* Power failure, and restore_from_backup at the next boot (UndoLog)       *)

Crash ==
  /\ progress' = "wait_esp0"
  /\ prog_len' = 0
  /\ prog_counter' = 0
  /\ buffer_num' = -1
  /\ pc' = "boot"
  /\ i' = 0
  /\ done' = {}
  /\ UNCHANGED <<cells, log, whole, owed, reclaimed, tainted, misled, erased>>

(* The log is undone backwards: of each pair first active, then complete.  *)
(* An entry is dropped after its value is back, so a power failure in      *)
(* between makes recovery put it back again.  What recovery shows of a     *)
(* buffer that was claimed again is not what was saved; what it puts back  *)
(* in a misled buffer takes the frame away.                                *)
PutBackHistory(b) ==
  /\ tainted' = IF b \in reclaimed THEN tainted \cup {b} ELSE tainted
  /\ erased' = IF b \in owed \cap misled THEN erased \cup {b} ELSE erased

PutBackActive(b) ==
  /\ pc = "boot"
  /\ saved_active[b] # NotSaved
  /\ active' = [active EXCEPT ![b] = saved_active[b]]
  /\ pc' = "drop_active"
  /\ i' = b
  /\ PutBackHistory(b)
  /\ UNCHANGED <<complete, full_len, log, rx, whole, owed, done, reclaimed,
                 misled>>

DropActive ==
  /\ pc = "drop_active"
  /\ saved_active' = [saved_active EXCEPT ![i] = NotSaved]
  /\ pc' = "boot"
  /\ i' = 0
  /\ UNCHANGED <<cells, saved_complete, rx, history>>

PutBackComplete(b) ==
  /\ pc = "boot"
  /\ saved_active[b] = NotSaved /\ saved_complete[b] # NotSaved
  /\ complete' = [complete EXCEPT ![b] = saved_complete[b]]
  /\ pc' = "drop_complete"
  /\ i' = b
  /\ PutBackHistory(b)
  /\ UNCHANGED <<active, full_len, log, rx, whole, owed, done, reclaimed,
                 misled>>

DropComplete ==
  /\ pc = "drop_complete"
  /\ saved_complete' = [saved_complete EXCEPT ![i] = NotSaved]
  /\ pc' = "boot"
  /\ i' = 0
  /\ UNCHANGED <<cells, saved_active, rx, history>>

Recover ==
  \/ \E b \in Buffers : PutBackActive(b) \/ PutBackComplete(b)
  \/ DropActive \/ DropComplete

(* The log is empty: the application starts. *)
Restore ==
  /\ pc = "boot"
  /\ \A b \in Buffers : ~Saved(b)
  /\ pc' = "app"
  /\ reclaimed' = {}
  /\ misled' = {}
  /\ UNCHANGED <<cells, log, rx, i, whole, owed, done, tainted, erased>>

-----------------------------------------------------------------------------
ProcessUart ==
  \/ Skip \/ Found \/ LogComplete \/ LogActive \/ Handle
  \/ ClearComplete \/ ClearActive \/ Return

ProcessOther ==
  \/ \E b \in Buffers : ForeignLogComplete(b)
  \/ ForeignLogActive

Main == ProcessUart \/ ForeignLogActive \/ Recover \/ Restore

Next ==
  \/ \E data \in Byte : HandleProgress(data)
  \/ Call \/ ProcessUart \/ ProcessOther \/ Commit
  \/ Crash \/ Recover \/ Restore

Spec == Init /\ [][Next]_vars

(* The main program has the processor whenever no interrupt runs, and the  *)
(* application calls process_uart<n> again and again, whatever else its    *)
(* tasks do.                                                               *)
FairSpec == Spec /\ WF_vars(Main) /\ SF_vars(Call)

(* Behaviours without a power failure. *)
SteadySpec == Init /\ [][Next /\ ~Crash]_vars

-----------------------------------------------------------------------------
(* Properties *)

ScanPcs == {"scan", "log_complete", "log_active", "handle", "clear", "free"}

(* Types of all the variables. *)
TypeOK ==
  /\ active \in [Buffers -> {0, 1}]
  /\ complete \in [Buffers -> Marks]
  /\ full_len \in [Buffers -> Nat]
  /\ saved_active \in [Buffers -> {NotSaved, 0, 1}]
  /\ saved_complete \in [Buffers -> {NotSaved} \cup Marks]
  /\ progress \in {"wait_esp0", "wait_esp1", "wait_len", "receive_data"}
  /\ prog_len \in Nat
  /\ prog_counter \in Nat
  /\ buffer_num \in Buffers \cup {-1}
  /\ pc \in {"boot", "drop_active", "drop_complete", "app", "foreign"}
             \cup ScanPcs
  /\ i \in 0 .. UART_BUFFER_CNT
  /\ pc # "scan" => i \in Buffers
  /\ whole \subseteq Buffers
  /\ owed \subseteq Buffers
  /\ done \subseteq Buffers
  /\ reclaimed \subseteq Buffers
  /\ tainted \subseteq Buffers
  /\ misled \subseteq Buffers
  /\ erased \subseteq Buffers

(* The interrupt stores a byte only into a claimed buffer, inside the      *)
(* length it announced there, and inside pkt.msg.                          *)
ReceivesInBounds ==
  progress = "receive_data" =>
    /\ buffer_num \in Buffers
    /\ prog_counter < prog_len
    /\ prog_len = full_len[buffer_num]
    /\ MsgIndex < MsgSize

(* While process_uart<n> looks at a buffer, until it frees it, the buffer  *)
(* holds one whole frame and the interrupt does not write to it, unless    *)
(* the buffer is tainted: then the flags, which no lock protects, or the   *)
(* undo log have shown it too early.                                       *)
Handling == pc \in {"log_complete", "log_active", "handle", "clear"}

HandledFrameIsWhole ==
  Handling /\ i \notin tainted => i \in whole /\ ~ReceivingInto(i)

(* "Want these updates to be atomic" (process_uart0): until the task that  *)
(* has handled it commits, a frame that was received whole would be seen   *)
(* again after a power failure at any moment, and while the program runs   *)
(* it is visible unless this task has handled it.  Excepted are tainted    *)
(* buffers, those claimed for a new frame before the task commits, and     *)
(* those whose flags the other link's handler saved before the frame was   *)
(* complete, while they are in the log (misled) and once recovery has put  *)
(* them back (erased).                                                     *)
AtLeastOnce ==
  \A b \in owed \ (tainted \cup reclaimed \cup misled \cup erased) :
    /\ b \in whole
    /\ ComesBack(b)
    /\ Visible(b) \/ Booting \/ b \in done

(* A frame that was received whole is visible until it has been handled.   *)
(* Power failures take it away before, and nothing else: at once, with     *)
(* what was handled but not committed, on a link whose flags are not       *)
(* saved; or in the recovery after it, which puts back the flags that the  *)
(* other link's handler saved before the frame was complete (erased).      *)
Kept(b) == b \in done \/ (b \in whole /\ Visible(b))
PowerFails == ~Booting /\ pc' = "boot"

LosesNothing ==
  \A b \in owed' \ (tainted' \cup erased') :
    Kept(b)' \/ (b \in owed \ (tainted \cup erased) /\ ~Kept(b))

OnlyPowerLoses == [][~PowerFails => LosesNothing]_vars

(* No buffer is lost to the pool: a complete frame that nobody will see    *)
(* sits only in a tainted buffer.                                          *)
NoOrphan ==
  \A b \in Buffers \ tainted : complete[b] = COMPLETE => active[b] = 1

(* If power failures stop, process_uart<n> handles every complete frame of *)
(* a buffer that is not tainted, and of which recovery will not bring back *)
(* flags that were saved before the frame was complete.                    *)
EveryFrameHandled ==
  <>[][~Crash]_vars =>
    \A b \in Buffers :
      (Visible(b) /\ b \notin tainted \cup misled) ~> (pc = "clear" /\ i = b)

(* A frame that was received whole and that the running task has not       *)
(* handled is visible to process_uart<n>, after power failures, too.       *)
UnhandledIsVisible ==
  pc = "app" => \A b \in owed \ (tainted \cup done) : Visible(b)

(* A frame is handled only when it was received whole, with no exception.  *)
NoTornFrame == Handling => i \in whole /\ ~ReceivingInto(i)
=============================================================================
