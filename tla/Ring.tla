-------------------------------- MODULE Ring --------------------------------
(***************************************************************************)
(* query.c: the two ring buffers in FRAM that hold records until the       *)
(* ground asks for them, expt_ascii_buffer (messages of the experiment     *)
(* board) and telem_buffer (telemetry).  A task pushes and pops; power may *)
(* fail between any two stores, and the task is then run again.  Push      *)
(* saves tail, head and full in the undo log first; pop saves nothing.     *)
(*                                                                         *)
(* A push copies a record to the beginning of an entry: all of it for      *)
(* telemetry.  For ascii the length comes from a byte of the frame that    *)
(* has nothing to do with it, since the caller passes pkt.msg for the      *)
(* buffer (handle_uarts.c:206) and the packet is looked for three bytes    *)
(* behind its beginning: at most the entry but one byte, or, when that     *)
(* byte is below 8, nearly all of the memory.  Bytes are Torn while they   *)
(* are being copied.  The undo log is modelled as UndoLog is proved to     *)
(* behave.                                                                 *)
(***************************************************************************)
EXTENDS Integers, Sequences

CONSTANTS
  Rings,          (* which of the two rings are looked at                  *)
  N,              (* entries: ARTIBEUS_ASCII_ENTRIES or _TELEM_BUFF_SIZE   *)
  EntrySize,      (* bytes of an entry                                     *)
  Record,         (* what is pushed                                        *)
  None, Torn,     (* a byte never written, and one that is being copied    *)
  Outside,        (* what is read in front of entry 0                      *)
  PushesPerTask   (* a task pushes at most this often                      *)

ASSUME RingAssumption ==
  /\ Rings \subseteq {"ascii", "telem"}
  /\ N \in Nat \ {0} /\ EntrySize \in Nat \ {0}
  /\ PushesPerTask \in 1 .. N - 1
  /\ {None, Torn, Outside} \cap Record = {}

VARIABLES
  which,      (* the ring; it never changes                                *)
  (* Non-volatile. *)
  buffer, tail, head, full,
  saved_tail, saved_head, saved_full,
  (* Volatile. *)
  pc,
  temp_cnt,   (* the local of push                                         *)
  record,     (* the argument of push                                      *)
  found,      (* the entry that pop found                                  *)
  (* History, read by the properties only. *)
  pushed,     (* the newest records of committed tasks, oldest first: as   *)
              (* many as a task in progress leaves alone                   *)
  new         (* the records that the running task has pushed              *)

ring == <<buffer, tail, head, full>>
log == <<saved_tail, saved_head, saved_full>>
local == <<pc, temp_cnt, record, found>>
history == <<pushed, new>>
vars == <<which, ring, log, local, history>>

Slots == 0 .. N - 1
Bytes == 0 .. EntrySize - 1
Entry == [Bytes -> Record \cup {None, Torn}]
Blank == [i \in Bytes |-> None]
NotSaved == -1
Kept == N - PushesPerTask

Init ==
  /\ which \in Rings
  /\ buffer = [s \in Slots |-> Blank]
  /\ tail = 0 /\ head = 0 /\ full = 0
  /\ saved_tail = NotSaved /\ saved_head = NotSaved /\ saved_full = NotSaved
  /\ pc = "boot"
  /\ temp_cnt = 0
  /\ record = None /\ found = None
  /\ pushed = <<>>
  /\ new = <<>>

-----------------------------------------------------------------------------
(* artibeus_push_ascii_pkt, artibeus_push_telem_pkt *)

(* For ascii the byte of the frame, less 8; -1 stands for all below 0.     *)
Lengths == IF which = "telem" THEN {EntrySize} ELSE -1 .. EntrySize - 1

(* What a push copies. *)
Pushable == [data : Record, len : Lengths]

Push(r) ==
  /\ pc = "task"
  /\ Len(new) < PushesPerTask
  /\ record' = r
  /\ pc' = "save_tail"
  /\ UNCHANGED <<which, ring, log, temp_cnt, found, history>>

(* Mutant: the newest value of the running task is the one restored. *)
MutSave(saved, cell) == cell

(* write_to_log: the oldest value of the running task is the one restored. *)
Save(saved, cell) == IF saved = NotSaved THEN cell ELSE saved

SaveTail ==
  /\ pc = "save_tail"
  /\ saved_tail' = Save(saved_tail, tail)
  /\ pc' = "save_head"
  /\ UNCHANGED <<which, ring, saved_head, saved_full, temp_cnt, record,
                 found, history>>

SaveHead ==
  /\ pc = "save_head"
  /\ saved_head' = Save(saved_head, head)
  /\ pc' = "save_full"
  /\ UNCHANGED <<which, ring, saved_tail, saved_full, temp_cnt, record,
                 found, history>>

SaveFull ==
  /\ pc = "save_full"
  /\ saved_full' = Save(saved_full, full)
  /\ pc' = "copy"
  /\ UNCHANGED <<which, ring, saved_tail, saved_head, temp_cnt, record,
                 found, history>>

(* The first len bytes of an entry are v now. *)
Over(entry, len, v) == [i \in Bytes |-> IF i < len THEN v ELSE entry[i]]

(* The record goes to the entry at tail, in many stores. *)
StartCopy ==
  /\ pc = "copy"
  /\ record.len >= 0
  /\ temp_cnt' = tail
  /\ buffer' = [buffer EXCEPT ![tail] = Over(@, record.len, Torn)]
  /\ pc' = "copying"
  /\ UNCHANGED <<which, tail, head, full, log, record, found, history>>

(* Mutant: the tail wraps one entry too late. *)
MutEndCopy ==
  /\ pc = "copying"
  /\ buffer' = [buffer EXCEPT ![temp_cnt] = Over(@, record.len, record.data)]
  /\ temp_cnt' = IF temp_cnt + 1 > N THEN 0 ELSE temp_cnt + 1
  /\ pc' = "full"
  /\ UNCHANGED <<which, tail, head, full, log, record, found, history>>

EndCopy ==
  /\ pc = "copying"
  /\ buffer' = [buffer EXCEPT ![temp_cnt] = Over(@, record.len, record.data)]
  /\ temp_cnt' = IF temp_cnt + 1 >= N THEN 0 ELSE temp_cnt + 1
  /\ pc' = "full"
  /\ UNCHANGED <<which, tail, head, full, log, record, found, history>>

(* The length is the greatest that there is, less a few bytes: the copy    *)
(* goes over the whole memory.  Nothing is known of the program from here. *)
Overrun ==
  /\ pc = "copy"
  /\ record.len < 0
  /\ buffer' = [s \in Slots |-> Over(buffer[s], EntrySize, Torn)]
  /\ pc' = "overrun"
  /\ UNCHANGED <<which, tail, head, full, log, temp_cnt, record, found,
                 history>>

AfterOverrun == pc = "overrun" /\ UNCHANGED vars

SetFull ==
  /\ pc = "full"
  /\ full' = IF temp_cnt = head THEN 1 ELSE 0
  /\ pc' = "tail"
  /\ UNCHANGED <<which, buffer, tail, head, log, temp_cnt, record, found,
                 history>>

SetTail ==
  /\ pc = "tail"
  /\ tail' = temp_cnt
  /\ new' = Append(new, record)
  /\ temp_cnt' = 0
  /\ record' = None  (* the locals end with the call *)
  /\ pc' = "task"
  /\ UNCHANGED <<which, buffer, head, full, log, found, pushed>>

-----------------------------------------------------------------------------
(* artibeus_send_ascii_pkt, artibeus_send_telem_ascii_pkt *)

IsEmpty == tail = head /\ full = 0

(* The answer is a NACK. *)
SendNack == pc = "task" /\ IsEmpty /\ UNCHANGED vars

PopIndex == IF which = "telem" THEN tail - 1 ELSE tail

(* The record found is transmitted. *)
Pop ==
  /\ pc = "task"
  /\ ~IsEmpty
  /\ found' = IF PopIndex \in Slots THEN buffer[PopIndex] ELSE Outside
  /\ pc' = "sent"
  /\ UNCHANGED <<which, ring, log, temp_cnt, record, history>>

(* artibeus_pop_update_*_ptrs *)
PopUpdate ==
  /\ pc = "sent"
  /\ head' = IF head <= N - 1 THEN head + 1 ELSE 0
  /\ found' = None
  /\ pc' = "task"
  /\ UNCHANGED <<which, buffer, tail, full, log, temp_cnt, record, history>>

-----------------------------------------------------------------------------
(* The application ends its task; power failure; restore_from_backup. *)

Newest(s) == SubSeq(s, IF Len(s) > Kept THEN Len(s) - Kept + 1 ELSE 1, Len(s))

Commit ==
  /\ pc = "task"
  /\ saved_tail' = NotSaved /\ saved_head' = NotSaved /\ saved_full' = NotSaved
  /\ pushed' = Newest(pushed \o new)
  /\ new' = <<>>
  /\ UNCHANGED <<which, ring, local>>

Crash ==
  /\ pc # "overrun"
  /\ pc' = "boot"
  /\ temp_cnt' = 0
  /\ record' = None /\ found' = None
  /\ new' = <<>>
  /\ UNCHANGED <<which, ring, log, pushed>>

Restored(saved, cell) == IF saved = NotSaved THEN cell ELSE saved

Restore ==
  /\ pc = "boot"
  /\ tail' = Restored(saved_tail, tail)
  /\ head' = Restored(saved_head, head)
  /\ full' = Restored(saved_full, full)
  /\ saved_tail' = NotSaved /\ saved_head' = NotSaved /\ saved_full' = NotSaved
  /\ pc' = "task"
  /\ UNCHANGED <<which, buffer, temp_cnt, record, found, history>>

-----------------------------------------------------------------------------
PushSteps ==
  \/ \E r \in Pushable : Push(r)
  \/ SaveTail \/ SaveHead \/ SaveFull
  \/ StartCopy \/ EndCopy \/ Overrun \/ AfterOverrun \/ SetFull \/ SetTail

Next ==
  \/ PushSteps
  \/ SendNack \/ Pop \/ PopUpdate
  \/ Commit \/ Crash \/ Restore

Spec == Init /\ [][Next]_vars

(* Behaviours without a power failure. *)
SteadySpec == Init /\ [][Next /\ ~Crash]_vars

-----------------------------------------------------------------------------
(* Properties *)

Pcs ==
  {"boot", "task", "save_tail", "save_head", "save_full", "copy", "copying",
   "full", "tail", "sent", "overrun"}

(* Types of all the variables, until a copy runs over the memory.  Head    *)
(* runs one past the last entry.                                           *)
TypeOK ==
  /\ which \in Rings
  /\ buffer \in [Slots -> Entry]
  /\ tail \in Slots
  /\ head \in 0 .. N
  /\ full \in {0, 1}
  /\ saved_tail \in {NotSaved} \cup Slots
  /\ saved_head \in {NotSaved} \cup 0 .. N
  /\ saved_full \in {NotSaved, 0, 1}
  /\ pc \in Pcs
  /\ temp_cnt \in Slots
  /\ record \in Pushable \cup {None}
  /\ found \in Entry \cup {None, Outside}
  /\ pushed \in Seq(Pushable) /\ Len(pushed) <= Kept
  /\ new \in Seq(Pushable) /\ Len(new) <= PushesPerTask

(* Tail as a power failure would leave it. *)
SafeTail == Restored(saved_tail, tail)

(* The entries j behind and j ahead of entry t, around the ring. *)
Behind(t, j) == IF t >= j THEN t - j ELSE t - j + N
Ahead(t, j) == IF t + j < N THEN t + j ELSE t + j - N

Holds(entry, r) == \A i \in Bytes : i < r.len => entry[i] = r.data

(* What was pushed stays: at every moment, and after every power failure,  *)
(* the entries behind the tail begin with all that was copied by the       *)
(* pushes of the committed tasks, in order, as many as the entries that no *)
(* task in progress reuses; and those before it with the pushes of the     *)
(* running task.  For telemetry that is the whole record.  It holds until  *)
(* an ascii frame makes a copy run over the memory.                        *)
RecordsIntact ==
  pc # "overrun" =>
    /\ \A j \in 1 .. Len(pushed) :
         Holds(buffer[Behind(SafeTail, j)], pushed[Len(pushed) + 1 - j])
    /\ \A j \in 1 .. Len(new) : Holds(buffer[Ahead(SafeTail, j - 1)], new[j])

(* "Return pointer to head of ring" (artibeus_pop_telem_pkt,               *)
(* artibeus_pop_ascii_pkt): what a pop reads has been pushed.              *)
PopsARecord ==
  pc = "sent" => \E r \in Record : found = [i \in Bytes |-> r]
=============================================================================
