------------------------------ MODULE UndoLog ------------------------------
(***************************************************************************)
(* backup.c: the undo log in FRAM that lets a task be retried after a      *)
(* power failure.  A task calls write_to_log before it changes a           *)
(* non-volatile object; restore_from_backup, called at boot, writes the    *)
(* logged values back, newest entry first.                                 *)
(*                                                                         *)
(* Memory is byte-addressed.  Every store is one step, so power can fail   *)
(* between any two of them.  The cells behind the end of the two arrays    *)
(* are modelled as cells nobody else uses, which is the kindest outcome    *)
(* the build can produce; LogInBounds says when the code relies on it.     *)
(*                                                                         *)
(* Some of the cells that tasks save are also written by interrupts: the   *)
(* flags of the packet buffers in handle_uarts.c.                          *)
(***************************************************************************)
EXTENDS Integers

CONSTANTS
  MemSize,          (* bytes of the non-volatile memory that tasks share *)
  Byte,             (* values of a byte                                  *)
  DBL_BUFF_LEN,     (* entries in double_buffer                          *)
  BACKUP_DATA_LEN,  (* bytes in backup_data                              *)
  Shared,           (* the bytes among them that interrupts write, too   *)
  MaxLen,           (* longest object one write_to_log call saves        *)
  LogsPerTask       (* a task calls write_to_log at most this often      *)

ASSUME ConstantsAssumption ==
  /\ MemSize \in Nat \ {0}
  /\ Shared \subseteq 0 .. MemSize - 1
  /\ 0 \in Byte
  /\ DBL_BUFF_LEN \in Nat \ {0}
  /\ BACKUP_DATA_LEN \in Nat \ {0}
  /\ MaxLen \in Nat \ {0}
  /\ LogsPerTask \in Nat

VARIABLES
  (* Non-volatile. *)
  mem,               (* the objects the tasks share                       *)
  double_buffer,     (* [source, dest, len] of every entry                *)
  backup_data,       (* the saved bytes                                   *)
  dbl_buffer_count,  (* per context: index of its newest entry, or -1     *)
  cur_ctx,           (* the context in use                                *)
  (* Volatile. *)
  pc,                (* where the processor is                            *)
  call,              (* the locals of write_to_log: data, last_addr, len  *)
  k,                 (* bytes copied so far by the running memcpy         *)
  writable,          (* addresses that the running task has logged        *)
  (* History, read by the properties only. *)
  committed,         (* mem as the last committed task left it            *)
  disturbed          (* cells an interrupt wrote since the copy that is   *)
                     (* under way, to the log or from it, began           *)

nvVars == <<mem, double_buffer, backup_data, dbl_buffer_count, cur_ctx>>
history == <<committed, disturbed>>
vars == <<nvVars, pc, call, k, writable, history>>

Ctx == {0, 1}
Addr == 0 .. MemSize - 1
Private == Addr \ Shared  (* written by the tasks alone *)

(* The test in write_to_log admits the index DBL_BUFF_LEN. *)
Slots == 0 .. DBL_BUFF_LEN
Offsets == 0 .. (DBL_BUFF_LEN + 1) * (MaxLen + 1)
Entry == [source : Addr, dest : Offsets, len : 0 .. MaxLen]

NoEntry == [source |-> 0, dest |-> 0, len |-> 0]

WritePcs == {"copy", "source", "dest", "len", "count"}
BootPcs == {"restore", "undo", "drop"}
Pcs == {"task", "switch"} \cup WritePcs \cup BootPcs

Copying == pc \in WritePcs \cup {"undo", "drop"}

count == dbl_buffer_count[cur_ctx]
Extent(e) == {a \in Addr : e.source <= a /\ a < e.source + e.len}

Init ==
  /\ mem \in [Addr -> Byte]
  /\ double_buffer = [i \in Slots |-> NoEntry]
  /\ backup_data = [o \in Offsets |-> 0]
  /\ dbl_buffer_count = [c \in Ctx |-> -1]
  /\ cur_ctx = 0
  /\ pc = "restore"
  /\ call = NoEntry
  /\ k = 0
  /\ writable = {}
  /\ committed = mem
  /\ disturbed = {}

-----------------------------------------------------------------------------
(* write_to_log *)

(* Mutants: the next free address is the start of the newest entry; two    *)
(* bytes are skipped.                                                      *)
MutLastAddrStart(index) ==
  (IF index > 0 THEN double_buffer[index - 1].dest ELSE 0) + 1
MutLastAddrSkips(index) ==
  (IF index > 0
   THEN double_buffer[index - 1].dest + double_buffer[index - 1].len
   ELSE 0) + 2

(* First free address behind the newest entry; one byte is skipped. *)
last_addr(index) ==
  (IF index > 0
   THEN double_buffer[index - 1].dest + double_buffer[index - 1].len
   ELSE 0) + 1

(* The log has room by the test of the code: go and save the object. *)
BeginLog(data, len) ==
  /\ pc = "task"
  /\ count + 1 < LogsPerTask
  /\ ~(count + 1 > DBL_BUFF_LEN)
  /\ call' = [source |-> data, dest |-> last_addr(count + 1), len |-> len]
  /\ k' = 0
  /\ pc' = "copy"
  /\ UNCHANGED <<nvVars, writable, history>>

(* write_to_log returns -1; no caller in the library looks at the result, *)
(* so the task goes on to write the object.                               *)
LogRefused(data, len) ==
  /\ pc = "task"
  /\ count + 1 < LogsPerTask
  /\ count + 1 > DBL_BUFF_LEN
  /\ writable' = writable \cup Extent([source |-> data, len |-> len])
  /\ UNCHANGED <<nvVars, pc, call, k, history>>

CopyByte ==
  /\ pc = "copy"
  /\ backup_data' =
       [backup_data EXCEPT ![call.dest + k] = mem[call.source + k]]
  /\ k' = k + 1
  /\ pc' = IF k + 1 < call.len THEN "copy" ELSE "source"
  /\ UNCHANGED <<mem, double_buffer, dbl_buffer_count, cur_ctx, call,
                 writable, history>>

StoreSource ==
  /\ pc = "source"
  /\ double_buffer' =
       [double_buffer EXCEPT ![count + 1].source = call.source]
  /\ pc' = "dest"
  /\ UNCHANGED <<mem, backup_data, dbl_buffer_count, cur_ctx, call, k,
                 writable, history>>

StoreDest ==
  /\ pc = "dest"
  /\ double_buffer' = [double_buffer EXCEPT ![count + 1].dest = call.dest]
  /\ pc' = "len"
  /\ UNCHANGED <<mem, backup_data, dbl_buffer_count, cur_ctx, call, k,
                 writable, history>>

StoreLen ==
  /\ pc = "len"
  /\ double_buffer' = [double_buffer EXCEPT ![count + 1].len = call.len]
  /\ pc' = "count"
  /\ UNCHANGED <<mem, backup_data, dbl_buffer_count, cur_ctx, call, k,
                 writable, history>>

(* The increment makes the entry valid. *)
CountUp ==
  /\ pc = "count"
  /\ dbl_buffer_count' = [dbl_buffer_count EXCEPT ![cur_ctx] = @ + 1]
  /\ writable' = writable \cup Extent(call)
  /\ call' = NoEntry  (* the locals end with the call *)
  /\ k' = 0
  /\ pc' = "task"
  /\ disturbed' = {}
  /\ UNCHANGED <<mem, double_buffer, backup_data, cur_ctx, committed>>

-----------------------------------------------------------------------------
(* The task (the application): it writes what it has logged, and it ends   *)
(* by preparing the other context and switching to it with one store.      *)

WriteNv(a, v) ==
  /\ pc = "task"
  /\ a \in writable
  /\ mem' = [mem EXCEPT ![a] = v]
  /\ UNCHANGED <<double_buffer, backup_data, dbl_buffer_count, cur_ctx, pc,
                 call, k, writable, history>>

PrepareNextCtx ==
  /\ pc = "task"
  /\ dbl_buffer_count' = [dbl_buffer_count EXCEPT ![1 - cur_ctx] = -1]
  /\ pc' = "switch"
  /\ UNCHANGED <<mem, double_buffer, backup_data, cur_ctx, call, k, writable,
                 history>>

SwitchCtx ==
  /\ pc = "switch"
  /\ cur_ctx' = 1 - cur_ctx
  /\ committed' = mem
  /\ writable' = {}
  /\ pc' = "task"
  /\ UNCHANGED <<mem, double_buffer, backup_data, dbl_buffer_count, call, k,
                 disturbed>>

-----------------------------------------------------------------------------
(* handle_progress_uart<n>: an interrupt stores a flag of a packet buffer  *)
(* without a call to write_to_log.                                         *)
Interrupt(a, v) ==
  /\ mem' = [mem EXCEPT ![a] = v]
  /\ disturbed' = IF Copying THEN disturbed \cup {a} ELSE disturbed
  /\ UNCHANGED <<double_buffer, backup_data, dbl_buffer_count, cur_ctx, pc,
                 call, k, writable, committed>>

-----------------------------------------------------------------------------
(* Power failure, and restore_from_backup at the next boot. *)

Crash ==
  /\ pc' = "restore"
  /\ call' = NoEntry
  /\ k' = 0
  /\ writable' = {}
  /\ disturbed' = {}
  /\ UNCHANGED <<nvVars, committed>>

RestoreNext ==
  /\ pc = "restore"
  /\ count > -1
  /\ pc' = "undo"
  /\ UNCHANGED <<nvVars, call, k, writable, history>>

(* Mutant: the last byte of a longer entry is not restored. *)
MutUndoByte ==
  LET e == double_buffer[count] IN
  /\ pc = "undo"
  /\ mem' = [mem EXCEPT ![e.source + k] = backup_data[e.dest + k]]
  /\ k' = k + 1
  /\ pc' = IF k + 2 < e.len THEN "undo" ELSE "drop"
  /\ UNCHANGED <<double_buffer, backup_data, dbl_buffer_count, cur_ctx, call,
                 writable, history>>

UndoByte ==
  LET e == double_buffer[count] IN
  /\ pc = "undo"
  /\ mem' = [mem EXCEPT ![e.source + k] = backup_data[e.dest + k]]
  /\ k' = k + 1
  /\ pc' = IF k + 1 < e.len THEN "undo" ELSE "drop"
  /\ UNCHANGED <<double_buffer, backup_data, dbl_buffer_count, cur_ctx, call,
                 writable, history>>

(* Mutants: the count goes down twice; not at all. *)
MutDropTwice ==
  /\ pc = "drop"
  /\ dbl_buffer_count' = [dbl_buffer_count EXCEPT ![cur_ctx] = @ - 2]
  /\ k' = 0
  /\ pc' = "restore"
  /\ disturbed' = {}
  /\ UNCHANGED <<mem, double_buffer, backup_data, cur_ctx, call, writable,
                 committed>>
MutDropNever ==
  /\ pc = "drop"
  /\ k' = 0
  /\ pc' = "undo"
  /\ UNCHANGED <<nvVars, call, writable, history>>

DropEntry ==
  /\ pc = "drop"
  /\ dbl_buffer_count' = [dbl_buffer_count EXCEPT ![cur_ctx] = @ - 1]
  /\ k' = 0
  /\ pc' = "restore"
  /\ disturbed' = {}
  /\ UNCHANGED <<mem, double_buffer, backup_data, cur_ctx, call, writable,
                 committed>>

RestoreDone ==
  /\ pc = "restore"
  /\ ~(count > -1)
  /\ pc' = "task"
  /\ UNCHANGED <<nvVars, call, k, writable, history>>

-----------------------------------------------------------------------------
Objects == {o \in Addr \X (1 .. MaxLen) : o[1] + o[2] <= MemSize}

WriteToLog ==
  \/ \E o \in Objects : BeginLog(o[1], o[2]) \/ LogRefused(o[1], o[2])
  \/ CopyByte \/ StoreSource \/ StoreDest \/ StoreLen \/ CountUp

Task ==
  \/ \E a \in Addr, v \in Byte : WriteNv(a, v)
  \/ PrepareNextCtx \/ SwitchCtx

RestoreFromBackup == RestoreNext \/ UndoByte \/ DropEntry \/ RestoreDone

Interrupts == \E a \in Shared, v \in Byte : Interrupt(a, v)

Next == WriteToLog \/ Task \/ Interrupts \/ RestoreFromBackup \/ Crash

Spec == Init /\ [][Next]_vars

(* The processor runs while it has power: recovery does not stop by itself. *)
FairSpec == Spec /\ WF_vars(RestoreFromBackup)

-----------------------------------------------------------------------------
(* Properties *)

(* Types of all the variables. *)
TypeOK ==
  /\ mem \in [Addr -> Byte]
  /\ double_buffer \in [Slots -> Entry]
  /\ backup_data \in [Offsets -> Byte]
  /\ dbl_buffer_count \in [Ctx -> -1 .. DBL_BUFF_LEN]
  /\ cur_ctx \in Ctx
  /\ pc \in Pcs
  /\ call \in Entry
  /\ k \in 0 .. MaxLen
  /\ writable \subseteq Addr
  /\ committed \in [Addr -> Byte]
  /\ disturbed \subseteq Shared

Covers(i, a) == a \in Extent(double_buffer[i])
Covered(a) == \E i \in 0 .. count : Covers(i, a)

(* Entry i is the oldest valid one that covers a. *)
Oldest(i, a) == Covers(i, a) /\ \A j \in 0 .. i - 1 : ~Covers(j, a)

(* The byte that entry i holds of a. *)
SavedByte(i, a) ==
  backup_data[double_buffer[i].dest + (a - double_buffer[i].source)]

(* In every state, were power to fail now, the log would lead back to the  *)
(* memory of the last commit, wherever only tasks write: a cell that no    *)
(* valid entry covers still has its committed value, and the oldest entry  *)
(* that covers a cell holds it (backup.c undoes newest first, so the       *)
(* oldest entry is applied last).                                          *)
Recoverable ==
  \A a \in Private :
    /\ ~Covered(a) => mem[a] = committed[a]
    /\ \A i \in 0 .. count : Oldest(i, a) => SavedByte(i, a) = committed[a]

(* backup.c writes its entries into double_buffer, never behind its end.   *)
EntriesInBuffer ==
  /\ count < DBL_BUFF_LEN
  /\ pc \in {"dest", "len", "count"} => count + 1 < DBL_BUFF_LEN

(* backup.c saves the bytes of an object inside backup_data: neither a     *)
(* valid entry nor the entry being written reaches behind its end.         *)
DataInBuffer ==
  /\ \A i \in 0 .. count :
       double_buffer[i].dest + double_buffer[i].len <= BACKUP_DATA_LEN
  /\ pc \in WritePcs => call.dest + k <= BACKUP_DATA_LEN

(* The log of a task that saves no more than it has room for stays inside  *)
(* the two arrays of backup.c, in every step of every call.                *)
LogInBounds == EntriesInBuffer /\ DataInBuffer

(* Implementation of the abstract task, whose memory are the cells that    *)
(* only tasks write: they are published only by the context switch, and a  *)
(* task restarts only when they are exactly as committed.                  *)
Abstract == INSTANCE AtomicTask WITH
  Addr <- Private,
  working <- [a \in Private |-> mem[a]],
  committed <- [a \in Private |-> committed[a]],
  up <- pc \notin BootPcs

TasksAreAtomic == Abstract!Spec

(* The log brings v back to cell a. *)
BringsBack(a, v) == \E i \in 0 .. count : Oldest(i, a) /\ SavedByte(i, a) = v

(* What the log does to one cell, whoever writes it.  Only an interrupt    *)
(* changes a cell that is not saved.  The byte that will come back is the  *)
(* one that the cell had when it was first saved, whatever is saved or     *)
(* undone after that, and a saved cell is given up only when it has that   *)
(* byte again.  The one exception is a cell that an interrupt wrote during *)
(* the copy itself.                                                        *)
CellKept(a) ==
  /\ ~Covered(a) => mem'[a] = mem[a] \/ Interrupts
  /\ Covered(a) /\ Covered(a)' =>
       \A v \in Byte : BringsBack(a, v)' <=> BringsBack(a, v)
  /\ ~Covered(a) /\ Covered(a)' =>
       a \in disturbed \/ BringsBack(a, mem[a])'
  /\ Covered(a) /\ ~Covered(a)' =>
       a \in disturbed \/ BringsBack(a, mem'[a])

CellsKept == \A a \in Addr : CellKept(a)

(* Only the context switch gives up what the log would bring back.         *)
OldestComesBack == [][SwitchCtx \/ CellsKept]_vars

(* What is left for restore_from_backup to do: steps for every valid entry *)
(* and, for the newest one, for the bytes of it that are not restored yet. *)
Left ==
  (count + 1) * (MaxLen + 3)
    + CASE pc = "undo" -> double_buffer[count].len - k + 1
        [] pc = "drop" -> 0
        [] OTHER -> MaxLen + 2

Ahead ==
  \/ Interrupts /\ Left' = Left
  \/ pc' \in BootPcs /\ 0 <= Left' /\ Left' < Left
  \/ pc' = "task"

(* restore_from_backup gets ahead in each of its steps, and nothing but a  *)
(* power failure puts it back: it cannot run for ever, however often it is *)
(* interrupted.                                                            *)
RecoveryAdvances == [][(pc \in BootPcs /\ ~Crash) => Ahead]_vars

(* Once power stays on long enough, restore_from_backup ends and the task  *)
(* runs again.                                                             *)
RecoveryEnds == <>[][~Crash]_vars => (pc \in BootPcs ~> pc = "task")
=============================================================================
