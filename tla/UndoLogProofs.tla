--------------------------- MODULE UndoLogProofs ---------------------------
(***************************************************************************)
(* Proofs about UndoLog, for every memory size, log size and object size,  *)
(* and whichever cells the interrupts write.                               *)
(***************************************************************************)
EXTENDS UndoLog, WellFoundedInduction, TLAPS

(* A task saves so few objects that write_to_log never returns -1. *)
NeverRefused == LogsPerTask <= DBL_BUFF_LEN + 1

(* What a task saves fits the two arrays of backup.c. *)
LogHasRoom ==
  /\ LogsPerTask <= DBL_BUFF_LEN
  /\ LogsPerTask * (MaxLen + 1) <= BACKUP_DATA_LEN

-----------------------------------------------------------------------------
(* The inductive invariants *)

(* Entry i starts one byte behind entry i - 1, so the first i + 1 entries  *)
(* take at most (i + 1) * (MaxLen + 1) bytes.                              *)
Fits(e, i) ==
  /\ 1 <= e.len
  /\ e.source + e.len <= MemSize
  /\ e.dest + e.len <= (i + 1) * (MaxLen + 1)

Before(e, f) == e.dest + e.len < f.dest

EntriesOK ==
  /\ count < LogsPerTask
  /\ \A i \in 0 .. count : Fits(double_buffer[i], i)
  /\ \A i \in 0 .. count : \A j \in 0 .. i - 1 :
       Before(double_buffer[j], double_buffer[i])

(* Inside write_to_log: the object goes behind every valid entry, the      *)
(* bytes copied so far equal memory except where an interrupt came         *)
(* between, and so do the fields stored so far.                            *)
Writing ==
  pc \in WritePcs =>
    /\ count + 1 < LogsPerTask
    /\ count + 1 <= DBL_BUFF_LEN
    /\ Fits(call, count + 1)
    /\ \A j \in 0 .. count : Before(double_buffer[j], call)
    /\ pc = "copy" => k < call.len
    /\ pc # "copy" => k = call.len
    /\ \A b \in 0 .. k - 1 :
         \/ call.source + b \in disturbed
         \/ backup_data[call.dest + b] = mem[call.source + b]
    /\ pc \in {"dest", "len", "count"} =>
         double_buffer[count + 1].source = call.source
    /\ pc \in {"len", "count"} => double_buffer[count + 1].dest = call.dest
    /\ pc = "count" => double_buffer[count + 1].len = call.len

(* Inside restore_from_backup: the newest entry is restored up to byte k.  *)
Undoing ==
  pc \in {"undo", "drop"} =>
    LET e == double_buffer[count] IN
    /\ count >= 0
    /\ pc = "undo" => k < e.len
    /\ pc = "drop" => k = e.len
    /\ \A b \in 0 .. k - 1 :
         \/ e.source + b \in disturbed
         \/ mem[e.source + b] = backup_data[e.dest + b]

(* Outside of both no copy is under way, and the context that a task       *)
(* switches to is empty.                                                   *)
Idle ==
  /\ pc \in {"task", "switch", "restore"} => k = 0 /\ disturbed = {}
  /\ pc = "switch" => dbl_buffer_count[1 - cur_ctx] = -1

(* What holds of the log whatever the tasks do, refused saves included. *)
LogInv ==
  /\ TypeOK
  /\ EntriesOK
  /\ Writing
  /\ Undoing
  /\ Idle

(* The task writes only what valid entries cover, and nothing is writable  *)
(* while the log is being undone.                                          *)
TaskOK ==
  /\ \A a \in writable : Covered(a)
  /\ pc \in BootPcs => writable = {}

IInv ==
  /\ LogInv
  /\ TaskOK
  /\ Recoverable

-----------------------------------------------------------------------------
(* Facts about the layout of the log *)

(* The bound on the first i + 1 entries grows with i. *)
LEMMA RoomStep ==
  ASSUME NEW i \in Nat
  PROVE  (i + 1) * (MaxLen + 1) = i * (MaxLen + 1) + MaxLen + 1
<1>1. MaxLen \in Nat BY ConstantsAssumption
<1>2. QED BY <1>1

LEMMA RoomGrows ==
  ASSUME NEW i \in Nat, NEW j \in Nat, i <= j
  PROVE  i * (MaxLen + 1) <= j * (MaxLen + 1)
<1>1. MaxLen \in Nat BY ConstantsAssumption
<1>2. j * (MaxLen + 1) = i * (MaxLen + 1) + (j - i) * (MaxLen + 1)
  BY <1>1
<1>3. (j - i) * (MaxLen + 1) \in Nat
  <2>1. j - i \in Nat OBVIOUS
  <2>2. QED BY <1>1, <2>1
<1>4. i * (MaxLen + 1) \in Nat BY <1>1
<1>5. QED BY <1>2, <1>3, <1>4

(* Where write_to_log puts an object: behind every valid entry, with room  *)
(* for any object it may save.                                             *)
LEMMA NextEntryFits ==
  ASSUME TypeOK, EntriesOK, count + 1 <= DBL_BUFF_LEN,
         NEW src \in Addr, NEW n \in 1 .. MaxLen, src + n <= MemSize
  PROVE  LET e == [source |-> src, dest |-> last_addr(count + 1), len |-> n]
         IN  /\ e \in Entry
             /\ Fits(e, count + 1)
             /\ \A j \in 0 .. count : Before(double_buffer[j], e)
<1> DEFINE d == last_addr(count + 1)
           e == [source |-> src, dest |-> d, len |-> n]
<1>1. MaxLen \in Nat /\ DBL_BUFF_LEN \in Nat BY ConstantsAssumption
<1>2. count \in -1 .. DBL_BUFF_LEN BY DEF TypeOK, count
<1>3. d \in Nat /\ d <= (count + 1) * (MaxLen + 1) + 1
  <2>1. CASE count = -1
    <3>1. d = 1 BY <2>1 DEF last_addr
    <3>2. (count + 1) * (MaxLen + 1) = 0 BY <2>1, <1>1
    <3>3. QED BY <3>1, <3>2
  <2>2. CASE count >= 0
    <3>1. count \in Slots BY <1>2, <2>2, <1>1 DEF Slots
    <3>2. double_buffer[count] \in Entry BY <3>1 DEF TypeOK
    <3>3. Fits(double_buffer[count], count) BY <2>2, <1>2 DEF EntriesOK
    <3>4. d = double_buffer[count].dest + double_buffer[count].len + 1
      BY <2>2, <1>2 DEF last_addr
    <3>5. double_buffer[count].dest \in Nat /\ double_buffer[count].len \in Nat
      BY <3>2 DEF Entry, Offsets
    <3>6. (count + 1) * (MaxLen + 1) \in Nat BY <1>1, <1>2, <2>2
    <3>7. QED BY <3>3, <3>4, <3>5, <3>6 DEF Fits
  <2>3. QED BY <2>1, <2>2, <1>2
<1>4. d + n <= (count + 2) * (MaxLen + 1)
  <2>1. (count + 1 + 1) * (MaxLen + 1) = (count + 1) * (MaxLen + 1) + MaxLen + 1
    BY <1>2, RoomStep
  <2>2. (count + 1) * (MaxLen + 1) \in Nat BY <1>1, <1>2
  <2>3. count + 1 + 1 = count + 2 BY <1>2
  <2>4. QED BY <1>1, <1>3, <2>1, <2>2, <2>3
<1>5. (count + 2) * (MaxLen + 1) <= (DBL_BUFF_LEN + 1) * (MaxLen + 1)
  BY <1>1, <1>2, RoomGrows
<1>6. e \in Entry
  <2>1. (count + 2) * (MaxLen + 1) \in Nat
        /\ (DBL_BUFF_LEN + 1) * (MaxLen + 1) \in Nat
    BY <1>1, <1>2
  <2>2. d \in Offsets BY <1>1, <1>3, <1>4, <1>5, <2>1 DEF Offsets
  <2>3. QED BY <2>2, <1>1 DEF Entry
<1>7. Fits(e, count + 1)
  <2>1. count + 1 + 1 = count + 2 BY <1>2
  <2>2. QED BY <1>4, <2>1 DEF Fits
<1>8. ASSUME NEW j \in 0 .. count PROVE Before(double_buffer[j], e)
  <2>1. count \in Slots /\ j \in Slots BY <1>1, <1>2 DEF Slots
  <2>2. double_buffer[count] \in Entry /\ double_buffer[j] \in Entry
    BY <2>1 DEF TypeOK
  <2>3. d = double_buffer[count].dest + double_buffer[count].len + 1
    BY <1>2 DEF last_addr
  <2>4. j = count \/ Before(double_buffer[j], double_buffer[count])
    BY <1>2 DEF EntriesOK
  <2>5. /\ double_buffer[count].dest \in Nat
        /\ double_buffer[count].len \in Nat
        /\ double_buffer[j].dest \in Nat
        /\ double_buffer[j].len \in Nat
    BY <2>2 DEF Entry, Offsets
  <2>6. QED BY <2>3, <2>4, <2>5 DEF Before
<1>9. QED BY <1>6, <1>7, <1>8

(* The index of a valid entry, or of the one being written, is a slot. *)
LEMMA ValidSlots ==
  ASSUME TypeOK
  PROVE  /\ count \in -1 .. DBL_BUFF_LEN
         /\ \A i \in 0 .. count : i \in Slots /\ double_buffer[i] \in Entry
         /\ DBL_BUFF_LEN \in Nat /\ MaxLen \in Nat /\ MemSize \in Nat
<1>1. DBL_BUFF_LEN \in Nat /\ MaxLen \in Nat /\ MemSize \in Nat
  BY ConstantsAssumption
<1>2. count \in -1 .. DBL_BUFF_LEN BY DEF TypeOK, count
<1>3. \A i \in 0 .. count : i \in Slots BY <1>1, <1>2 DEF Slots
<1>4. QED BY <1>1, <1>2, <1>3 DEF TypeOK

(* What a step may not take from the log: valid entries stay as they are,  *)
(* and a saved cell stays saved.                                           *)
CoverKept == \A a \in Addr : Covered(a) => Covered(a)'

(* A step that changes no valid entry, none of the bytes saved for one,    *)
(* and no memory but what is saved or what an interrupt writes.            *)
LEMMA ValidPartKept ==
  ASSUME TypeOK, EntriesOK, count' = count,
         \A a \in Addr : Covered(a) \/ mem'[a] = mem[a] \/ Interrupts,
         \A i \in 0 .. count : double_buffer'[i] = double_buffer[i],
         \A i \in 0 .. count : \A o \in Int :
           (double_buffer[i].dest <= o
              /\ o < double_buffer[i].dest + double_buffer[i].len)
           => backup_data'[o] = backup_data[o]
  PROVE  EntriesOK' /\ CellsKept /\ CoverKept
<1>0. \A i \in 0 .. count : i \in Int /\ 0 .. i - 1 \subseteq 0 .. count
  BY ValidSlots
<1>1. EntriesOK' BY <1>0 DEF EntriesOK
<1>2. \A i \in 0 .. count, a \in Addr : Covers(i, a)' <=> Covers(i, a)
  BY DEF Covers, Extent
<1>3. \A a \in Addr : Covered(a)' <=> Covered(a) BY <1>2 DEF Covered
<1>4. \A i \in 0 .. count, a \in Addr : Oldest(i, a)' <=> Oldest(i, a)
  BY <1>0, <1>2 DEF Oldest
<1>5. ASSUME NEW i \in 0 .. count, NEW a \in Addr, Covers(i, a)
      PROVE  SavedByte(i, a)' = SavedByte(i, a)
  <2> DEFINE o == double_buffer[i].dest + (a - double_buffer[i].source)
  <2>1. double_buffer[i] \in Entry /\ double_buffer'[i] = double_buffer[i]
    BY ValidSlots
  <2>2. /\ o \in Int
        /\ double_buffer[i].dest <= o
        /\ o < double_buffer[i].dest + double_buffer[i].len
    BY <1>5, <2>1 DEF Covers, Extent, Entry, Addr, Offsets
  <2>3. backup_data'[o] = backup_data[o] BY <2>2
  <2>4. QED BY <2>1, <2>3 DEF SavedByte
<1>6. ASSUME NEW a \in Addr, NEW v
      PROVE  BringsBack(a, v)' <=> BringsBack(a, v)
  <2>1. \A i \in 0 .. count :
          (Oldest(i, a) /\ SavedByte(i, a) = v)'
            <=> Oldest(i, a) /\ SavedByte(i, a) = v
    BY <1>4, <1>5 DEF Oldest
  <2>2. QED BY <2>1 DEF BringsBack
<1>7. CellsKept BY <1>3, <1>6 DEF CellsKept, CellKept
<1>8. QED BY <1>1, <1>3, <1>7 DEF CoverKept

(* While every cell is kept, what can be recovered stays so: an interrupt  *)
(* writes none of the cells that are said to be recoverable.               *)
LEMMA RecoverableKept ==
  ASSUME TypeOK, TypeOK', EntriesOK', Recoverable, CellsKept,
         committed' = committed
  PROVE  Recoverable'
<1> SUFFICES ASSUME NEW a \in Private
             PROVE  /\ ~Covered(a)' => mem'[a] = committed[a]
                    /\ \A i \in 0 .. count' :
                         Oldest(i, a)' => SavedByte(i, a)' = committed[a]
  BY DEF Recoverable
<1>1. a \in Addr /\ a \notin disturbed /\ CellKept(a)
  BY DEF Private, TypeOK, CellsKept
<1>2. /\ ~Covered(a) => mem[a] = committed[a]
      /\ \A i \in 0 .. count : Oldest(i, a) => SavedByte(i, a) = committed[a]
  BY DEF Recoverable
<1>3. \A v : BringsBack(a, v) => v = committed[a]
  BY <1>2 DEF BringsBack
<1>4. ~Covered(a) => mem'[a] = mem[a]
  <2>1. ASSUME Interrupts PROVE mem'[a] = mem[a]
    <3>1. PICK x \in Shared, v \in Byte : Interrupt(x, v)
      BY <2>1 DEF Interrupts
    <3>2. a # x BY DEF Private
    <3>3. QED BY <1>1, <3>1, <3>2 DEF Interrupt, TypeOK
  <2>2. QED BY <1>1, <2>1 DEF CellKept
<1>5. ASSUME ~Covered(a)' PROVE mem'[a] = committed[a]
  <2>1. CASE Covered(a)
    <3>1. BringsBack(a, mem'[a]) BY <1>1, <1>5, <2>1 DEF CellKept
    <3>2. QED BY <1>3, <3>1
  <2>2. CASE ~Covered(a) BY <1>2, <1>4, <2>2
  <2>3. QED BY <2>1, <2>2
<1>6. ASSUME NEW i \in 0 .. count', Oldest(i, a)'
      PROVE  SavedByte(i, a)' = committed[a]
  <2>0. PICK w : SavedByte(i, a)' = w OBVIOUS
  <2>1. Covered(a)' BY <1>6 DEF Oldest, Covered
  <2>2. i \in Nat BY DEF TypeOK, count
  <2>3. w \in Byte
    <3> DEFINE e == double_buffer'[i]
               o == e.dest + (a - e.source)
    <3>1. i <= DBL_BUFF_LEN /\ DBL_BUFF_LEN \in Nat /\ MaxLen \in Nat
      BY <2>2, ConstantsAssumption DEF TypeOK, count
    <3>2. e \in Entry BY <2>2, <3>1 DEF TypeOK, Slots
    <3>3. Fits(e, i) BY DEF EntriesOK
    <3>4. /\ (i + 1) * (MaxLen + 1) <= (DBL_BUFF_LEN + 1) * (MaxLen + 1)
          /\ (i + 1) * (MaxLen + 1) \in Int
          /\ (DBL_BUFF_LEN + 1) * (MaxLen + 1) \in Int
      BY <2>2, <3>1, RoomGrows
    <3>5. e.source <= a /\ a < e.source + e.len
      BY <1>6 DEF Oldest, Covers, Extent
    <3>6. o \in Offsets
      <4>1. e.dest \in Nat /\ e.source \in Nat /\ e.len \in Nat /\ a \in Nat
        BY <1>1, <3>2, <3>1 DEF Entry, Offsets, Addr
      <4>2. o \in Nat BY <3>5, <4>1
      <4>3. o <= (DBL_BUFF_LEN + 1) * (MaxLen + 1)
        BY <3>3, <3>4, <3>5, <4>1 DEF Fits
      <4>4. QED BY <3>4, <4>2, <4>3 DEF Offsets
    <3>7. QED BY <2>0, <3>6 DEF TypeOK, SavedByte
  <2>4. CASE Covered(a)
    <3>1. BringsBack(a, w)' BY <1>6, <2>0 DEF BringsBack
    <3>2. QED BY <1>1, <1>3, <2>0, <2>1, <2>3, <2>4, <3>1 DEF CellKept
  <2>5. CASE ~Covered(a)
    <3>1. PICK j \in 0 .. count' :
            Oldest(j, a)' /\ SavedByte(j, a)' = mem'[a]
      BY <1>1, <2>1, <2>5 DEF CellKept, BringsBack
    <3>2. i = j
      <4>1. j \in Nat BY DEF TypeOK, count
      <4>2. ~(i < j) /\ ~(j < i) BY <1>6, <2>2, <3>1, <4>1 DEF Oldest
      <4>3. QED BY <2>2, <4>1, <4>2
    <3>3. QED BY <1>2, <1>4, <2>5, <3>1, <3>2
  <2>6. QED BY <2>4, <2>5
<1>7. QED BY <1>5, <1>6

-----------------------------------------------------------------------------
(* Initially *)

LEMMA InitIInv == ASSUME Init PROVE IInv
<1>1. count = -1 BY DEF Init, count, Ctx
<1>2. NoEntry \in Entry
  BY ConstantsAssumption DEF NoEntry, Entry, Addr, Offsets
<1>3. TypeOK
  <2>1. DBL_BUFF_LEN \in Nat /\ MaxLen \in Nat /\ 0 \in Byte
    BY ConstantsAssumption
  <2>2. -1 \in -1 .. DBL_BUFF_LEN /\ 0 \in 0 .. MaxLen BY <2>1
  <2>3. QED BY <1>2, <2>1, <2>2 DEF Init, TypeOK, Ctx, Pcs, BootPcs
<1>4. LogInv
  BY <1>1, <1>3, ConstantsAssumption
  DEF Init, LogInv, EntriesOK, Writing, WritePcs, Undoing, Idle
<1>5. TaskOK /\ Recoverable
  BY <1>1 DEF Init, TaskOK, Recoverable, Private
<1>6. QED BY <1>4, <1>5 DEF IInv

-----------------------------------------------------------------------------
(* write_to_log *)

LEMMA StepBeginLog ==
  ASSUME LogInv, NEW o \in Objects, BeginLog(o[1], o[2])
  PROVE  LogInv' /\ CellsKept /\ (TaskOK => TaskOK')
<1> DEFINE e == [source |-> o[1], dest |-> last_addr(count + 1), len |-> o[2]]
<1> USE DEF LogInv
<1>1. /\ pc = "task" /\ pc' = "copy" /\ call' = e /\ k' = 0 /\ k = 0
      /\ count + 1 < LogsPerTask /\ count + 1 <= DBL_BUFF_LEN
      /\ UNCHANGED <<mem, double_buffer, backup_data, dbl_buffer_count,
                     cur_ctx, writable, committed, disturbed>>
  BY ValidSlots DEF BeginLog, nvVars, history, Idle
<1>2. /\ e \in Entry /\ Fits(e, count + 1) /\ 0 < e.len
      /\ \A j \in 0 .. count : Before(double_buffer[j], e)
  <2>1. o[1] \in Addr /\ o[2] \in 1 .. MaxLen /\ o[1] + o[2] <= MemSize
    BY DEF Objects
  <2>2. 0 < e.len BY <2>1, ValidSlots
  <2>3. QED BY <1>1, <2>1, <2>2, NextEntryFits
<1>3. count' = count BY <1>1 DEF count
<1>4. TypeOK' BY <1>1, <1>2 DEF TypeOK, Pcs, WritePcs
<1>5. EntriesOK' /\ CellsKept /\ CoverKept BY <1>1, <1>3, ValidPartKept
<1>6. Writing' BY <1>1, <1>2, <1>3 DEF Writing, WritePcs, Fits, Before
<1>7. Undoing' /\ Idle' BY <1>1 DEF Undoing, Idle
<1>8. TaskOK => TaskOK'
  BY <1>1, <1>4, <1>5 DEF TaskOK, TypeOK, CoverKept, BootPcs
<1>9. QED BY <1>4, <1>5, <1>6, <1>7, <1>8

(* A refused save changes nothing but what the task believes is saved. *)
LEMMA StepLogRefused ==
  ASSUME LogInv, NEW o \in Objects, LogRefused(o[1], o[2])
  PROVE  LogInv' /\ CellsKept
<1> USE DEF LogInv
<1>1. /\ writable' \subseteq Addr
      /\ UNCHANGED <<mem, double_buffer, backup_data, dbl_buffer_count,
                     cur_ctx, pc, call, k, committed, disturbed>>
  BY DEF LogRefused, nvVars, history, Extent, TypeOK
<1>2. count' = count BY <1>1 DEF count
<1>3. TypeOK' BY <1>1 DEF TypeOK
<1>4. EntriesOK' /\ CellsKept BY <1>1, <1>2, ValidPartKept
<1>5. Writing' /\ Undoing' /\ Idle'
  BY <1>1, <1>2 DEF Writing, Undoing, Idle
<1>6. QED BY <1>3, <1>4, <1>5

LEMMA StepCopyByte ==
  ASSUME LogInv, CopyByte
  PROVE  LogInv' /\ CellsKept /\ (TaskOK => TaskOK')
<1> USE DEF LogInv
<1> DEFINE t == call.dest + k
<1>1. /\ pc = "copy" /\ pc' \in {"copy", "source"} /\ k' = k + 1
      /\ pc' = "copy" <=> k + 1 < call.len
      /\ UNCHANGED <<mem, double_buffer, dbl_buffer_count, cur_ctx, call,
                     writable, committed, disturbed>>
  BY DEF CopyByte, history
<1>2. backup_data' = [backup_data EXCEPT ![t] = mem[call.source + k]]
  BY DEF CopyByte
<1>3. count' = count BY <1>1 DEF count
<1>4. /\ call.source \in Nat /\ call.dest \in Nat /\ call.len \in 0 .. MaxLen
      /\ k \in Nat /\ call \in Entry
  BY ValidSlots DEF TypeOK, Entry, Addr, Offsets
<1>5. /\ k < call.len /\ Fits(call, count + 1)
      /\ \A j \in 0 .. count : Before(double_buffer[j], call)
      /\ count + 1 <= DBL_BUFF_LEN
  BY <1>1 DEF Writing, WritePcs
<1>6. call.source + k \in Addr
  BY <1>4, <1>5, ValidSlots DEF Addr, Fits
<1>7. t \in Offsets
  <2>1. (count + 1 + 1) * (MaxLen + 1) <= (DBL_BUFF_LEN + 1) * (MaxLen + 1)
    BY <1>5, ValidSlots, RoomGrows
  <2>2. /\ (count + 1 + 1) * (MaxLen + 1) \in Int
        /\ (DBL_BUFF_LEN + 1) * (MaxLen + 1) \in Int
    BY ValidSlots
  <2>3. t \in Nat /\ t <= (DBL_BUFF_LEN + 1) * (MaxLen + 1)
    BY <1>4, <1>5, <2>1, <2>2 DEF Fits
  <2>4. QED BY <2>2, <2>3 DEF Offsets
<1>8. TypeOK'
  <2>1. backup_data' \in [Offsets -> Byte]
    BY <1>2, <1>6, <1>7 DEF TypeOK
  <2>2. k + 1 \in 0 .. MaxLen BY <1>4, <1>5, ValidSlots
  <2>3. QED BY <1>1, <2>1, <2>2 DEF TypeOK, Pcs, WritePcs
<1>9. EntriesOK' /\ CellsKept /\ CoverKept
  <2>1. ASSUME NEW i \in 0 .. count, NEW p \in Int,
               p < double_buffer[i].dest + double_buffer[i].len
        PROVE  backup_data'[p] = backup_data[p]
    <3>1. double_buffer[i] \in Entry BY ValidSlots
    <3>2. p # t BY <1>4, <1>5, <2>1, <3>1 DEF Before, Entry, Offsets
    <3>3. QED BY <1>2, <3>2, <1>7 DEF TypeOK
  <2>2. QED BY <1>1, <1>3, <2>1, ValidPartKept
<1>10. Writing'
  <2>1. ASSUME NEW b \in 0 .. k' - 1
        PROVE  \/ call.source + b \in disturbed
               \/ backup_data'[call.dest + b] = mem[call.source + b]
    <3>1. CASE b = k BY <3>1, <1>2, <1>7 DEF TypeOK
    <3>2. CASE b # k
      <4>1. b \in 0 .. k - 1 BY <3>2, <1>1, <1>4
      <4>2. call.dest + b # t BY <4>1, <1>4
      <4>3. \/ call.source + b \in disturbed
            \/ backup_data[call.dest + b] = mem[call.source + b]
        BY <4>1, <1>1 DEF Writing, WritePcs
      <4>4. QED BY <4>2, <4>3, <1>2, <1>7 DEF TypeOK
    <3>3. QED BY <3>1, <3>2
  <2>2. pc' # "copy" => k' = call.len BY <1>1, <1>4, <1>5
  <2>3. QED BY <1>1, <1>3, <1>5, <2>1, <2>2 DEF Writing, WritePcs, Fits, Before
<1>11. Undoing' /\ Idle' BY <1>1 DEF Undoing, Idle
<1>12. TaskOK => TaskOK'
  BY <1>1, <1>8, <1>9 DEF TaskOK, TypeOK, CoverKept, BootPcs
<1>13. QED BY <1>8, <1>9, <1>10, <1>11, <1>12

(* The three stores into the entry behind the newest valid one. *)
LEMMA StepStore ==
  ASSUME LogInv, StoreSource \/ StoreDest \/ StoreLen
  PROVE  LogInv' /\ CellsKept /\ (TaskOK => TaskOK')
<1> USE DEF LogInv
<1> DEFINE n == count + 1
<1>1. /\ pc \in {"source", "dest", "len"} /\ pc' \in {"dest", "len", "count"}
      /\ UNCHANGED <<mem, backup_data, dbl_buffer_count, cur_ctx, call, k,
                     writable, committed, disturbed>>
  BY DEF StoreSource, StoreDest, StoreLen, history
<1>2. count' = count BY <1>1 DEF count
<1>3. /\ n <= DBL_BUFF_LEN /\ Fits(call, n) /\ k = call.len
      /\ count + 1 < LogsPerTask
      /\ \A j \in 0 .. count : Before(double_buffer[j], call)
      /\ \A b \in 0 .. k - 1 :
           \/ call.source + b \in disturbed
           \/ backup_data[call.dest + b] = mem[call.source + b]
  BY <1>1 DEF Writing, WritePcs
<1>4. n \in Slots /\ call \in Entry /\ double_buffer[n] \in Entry
  BY <1>3, ValidSlots DEF Slots, TypeOK
<1>5. double_buffer' \in [Slots -> Entry]
  BY <1>4 DEF TypeOK, StoreSource, StoreDest, StoreLen, Entry
<1>6. \A i \in 0 .. count : double_buffer'[i] = double_buffer[i]
  <2>1. \A i \in 0 .. count : i # n /\ i \in Slots BY ValidSlots
  <2>2. QED BY <2>1 DEF StoreSource, StoreDest, StoreLen, TypeOK
<1>7. TypeOK' BY <1>1, <1>5 DEF TypeOK, Pcs, WritePcs
<1>8. EntriesOK' /\ CellsKept /\ CoverKept
  BY <1>1, <1>2, <1>6, ValidPartKept
<1>9. /\ pc' \in {"dest", "len", "count"} =>
           double_buffer'[n].source = call.source
      /\ pc' \in {"len", "count"} => double_buffer'[n].dest = call.dest
      /\ pc' = "count" => double_buffer'[n].len = call.len
  <2>1. CASE StoreSource
    BY <2>1, <1>4 DEF StoreSource, TypeOK, Entry
  <2>2. CASE StoreDest
    <3>1. double_buffer[n].source = call.source
      BY <2>2 DEF StoreDest, Writing, WritePcs
    <3>2. QED BY <2>2, <3>1, <1>4 DEF StoreDest, TypeOK, Entry
  <2>3. CASE StoreLen
    <3>1. /\ double_buffer[n].source = call.source
          /\ double_buffer[n].dest = call.dest
      BY <2>3 DEF StoreLen, Writing, WritePcs
    <3>2. QED BY <2>3, <3>1, <1>4 DEF StoreLen, TypeOK, Entry
  <2>4. QED BY <2>1, <2>2, <2>3
<1>10. Writing'
  <2>1. \A j \in 0 .. count : Before(double_buffer'[j], call)
    BY <1>3, <1>6
  <2>2. QED
    BY <1>1, <1>2, <1>3, <1>9, <2>1 DEF Writing, WritePcs, Fits, Before
<1>11. Undoing' /\ Idle' BY <1>1 DEF Undoing, Idle
<1>12. TaskOK => TaskOK'
  BY <1>1, <1>7, <1>8 DEF TaskOK, TypeOK, CoverKept, BootPcs
<1>13. QED BY <1>7, <1>8, <1>10, <1>11, <1>12

(* The increment makes the entry valid: what it covers may be changed now, *)
(* and the cells that were not saved before will come back as they are.    *)
LEMMA StepCountUp ==
  ASSUME LogInv, CountUp
  PROVE  LogInv' /\ CellsKept /\ (TaskOK => TaskOK')
<1> USE DEF LogInv
<1> DEFINE n == count + 1
<1>1. /\ pc = "count" /\ pc' = "task" /\ call' = NoEntry /\ k' = 0
      /\ disturbed' = {}
      /\ writable' = writable \cup Extent(call)
      /\ dbl_buffer_count' = [dbl_buffer_count EXCEPT ![cur_ctx] = @ + 1]
      /\ UNCHANGED <<mem, double_buffer, backup_data, cur_ctx, committed>>
  BY DEF CountUp
<1>2. count' = n BY <1>1 DEF count, TypeOK
<1>3. /\ n <= DBL_BUFF_LEN /\ Fits(call, n) /\ k = call.len
      /\ n < LogsPerTask
      /\ \A j \in 0 .. count : Before(double_buffer[j], call)
      /\ \A b \in 0 .. k - 1 :
           \/ call.source + b \in disturbed
           \/ backup_data[call.dest + b] = mem[call.source + b]
      /\ double_buffer[n].source = call.source
      /\ double_buffer[n].dest = call.dest
      /\ double_buffer[n].len = call.len
  BY <1>1 DEF Writing, WritePcs
<1>4. n \in Slots /\ n \in Nat /\ call \in Entry
  BY <1>3, ValidSlots DEF Slots, TypeOK
<1>5. double_buffer[n] = call BY <1>3, <1>4 DEF TypeOK, Entry
<1>6. \A i \in 0 .. n : i = n \/ i \in 0 .. count BY <1>4, ValidSlots
<1>7. \A i \in 0 .. count : i \in 0 .. n BY <1>4, ValidSlots
<1>8. TypeOK'
  <2>1. dbl_buffer_count' \in [Ctx -> -1 .. DBL_BUFF_LEN]
    BY <1>1, <1>3, <1>4, ValidSlots DEF TypeOK, count
  <2>2. NoEntry \in Entry /\ 0 \in 0 .. MaxLen
    BY ConstantsAssumption DEF NoEntry, Entry, Addr, Offsets
  <2>3. Extent(call) \subseteq Addr BY DEF Extent
  <2>4. QED BY <1>1, <2>1, <2>2, <2>3 DEF TypeOK, Pcs
<1>9. EntriesOK'
  <2>1. \A i \in 0 .. n : Fits(double_buffer[i], i)
    BY <1>3, <1>5, <1>6 DEF EntriesOK
  <2>2. ASSUME NEW i \in 0 .. n, NEW j \in 0 .. i - 1
        PROVE  Before(double_buffer[j], double_buffer[i])
    <3>1. CASE i = n
      <4>1. j \in 0 .. count BY <3>1, ValidSlots
      <4>2. QED BY <3>1, <4>1, <1>3, <1>5
    <3>2. CASE i # n
      BY <3>2, <1>6 DEF EntriesOK
    <3>3. QED BY <3>1, <3>2
  <2>3. QED BY <1>1, <1>2, <1>3, <2>1, <2>2 DEF EntriesOK
<1>10. \A i, a : /\ Covers(i, a)' <=> Covers(i, a)
                 /\ Oldest(i, a)' <=> Oldest(i, a)
                 /\ SavedByte(i, a)' = SavedByte(i, a)
  BY <1>1 DEF Covers, Extent, Oldest, SavedByte
<1>11. \A a : Covered(a)' <=> Covered(a) \/ Covers(n, a)
  <2>1. n \in 0 .. n BY <1>4
  <2>2. QED BY <1>2, <1>6, <1>7, <1>10, <2>1 DEF Covered
<1>12. ASSUME NEW a \in Addr, ~Covered(a), Covered(a)'
       PROVE  a \in disturbed \/ BringsBack(a, mem[a])'
  <2>1. Covers(n, a) BY <1>11, <1>12
  <2>2. Oldest(n, a)
    <3>1. \A j \in 0 .. n - 1 : j \in 0 .. count BY ValidSlots
    <3>2. QED BY <1>12, <2>1, <3>1 DEF Oldest, Covered
  <2>3. call.source <= a /\ a < call.source + call.len
    BY <1>5, <2>1 DEF Covers, Extent
  <2>4. a - call.source \in 0 .. k - 1 /\ call.source + (a - call.source) = a
    BY <2>3, <1>3, <1>4, ValidSlots DEF Entry, Addr
  <2>5. a \in disturbed \/ SavedByte(n, a) = mem[a]
    BY <1>3, <1>5, <2>4 DEF SavedByte
  <2>6. n \in 0 .. count' BY <1>2, <1>4
  <2>7. QED BY <1>1, <1>10, <2>2, <2>5, <2>6 DEF BringsBack
<1>13. ASSUME NEW a \in Addr, NEW v, Covered(a)
       PROVE  BringsBack(a, v)' <=> BringsBack(a, v)
  <2>1. ~Oldest(n, a)
    <3>1. \A j \in 0 .. count : j \in 0 .. n - 1 BY ValidSlots
    <3>2. QED BY <1>13, <3>1 DEF Oldest, Covered
  <2>2. QED BY <1>2, <1>6, <1>7, <1>10, <2>1 DEF BringsBack
<1>14. CellsKept
  BY <1>1, <1>11, <1>12, <1>13 DEF CellsKept, CellKept
<1>15. Writing' /\ Undoing' /\ Idle'
  BY <1>1 DEF Writing, WritePcs, Undoing, Idle
<1>16. TaskOK => TaskOK'
  <2>1. \A a \in Extent(call) : Covers(n, a) BY <1>5 DEF Covers
  <2>2. QED BY <1>1, <1>11, <2>1 DEF TaskOK, BootPcs
<1>17. QED BY <1>8, <1>9, <1>14, <1>15, <1>16

-----------------------------------------------------------------------------
(* The task and the interrupts *)

(* Only for a task whose saves were not refused: it writes saved cells. *)
LEMMA StepWriteNv ==
  ASSUME LogInv, NEW a \in Addr, NEW v \in Byte, WriteNv(a, v)
  PROVE  LogInv' /\ (TaskOK => CellsKept /\ TaskOK')
<1> USE DEF LogInv
<1>1. /\ pc = "task" /\ mem' = [mem EXCEPT ![a] = v] /\ a \in writable
      /\ UNCHANGED <<double_buffer, backup_data, dbl_buffer_count, cur_ctx,
                     pc, call, k, writable, committed, disturbed>>
  BY DEF WriteNv, history
<1>2. count' = count BY <1>1 DEF count
<1>3. TypeOK' BY <1>1 DEF TypeOK
<1>4. EntriesOK' BY <1>1, <1>2 DEF EntriesOK
<1>5. Writing' /\ Undoing' /\ Idle'
  BY <1>1 DEF Writing, WritePcs, Undoing, Idle
<1>6. ASSUME TaskOK PROVE CellsKept /\ TaskOK'
  <2>1. \A b \in Addr : Covered(b) \/ mem'[b] = mem[b]
    BY <1>1, <1>6 DEF TaskOK, TypeOK
  <2>2. CellsKept /\ CoverKept BY <1>1, <1>2, <2>1, ValidPartKept
  <2>3. QED BY <1>1, <1>3, <1>6, <2>2 DEF TaskOK, TypeOK, CoverKept
<1>7. QED BY <1>3, <1>4, <1>5, <1>6

LEMMA StepPrepareNextCtx ==
  ASSUME LogInv, PrepareNextCtx
  PROVE  LogInv' /\ CellsKept /\ (TaskOK => TaskOK')
<1> USE DEF LogInv
<1>1. /\ pc = "task" /\ pc' = "switch"
      /\ dbl_buffer_count' = [dbl_buffer_count EXCEPT ![1 - cur_ctx] = -1]
      /\ UNCHANGED <<mem, double_buffer, backup_data, cur_ctx, call, k,
                     writable, committed, disturbed>>
  BY DEF PrepareNextCtx, history
<1>2. 1 - cur_ctx \in Ctx /\ 1 - cur_ctx # cur_ctx
  BY DEF TypeOK, Ctx
<1>3. count' = count BY <1>1, <1>2 DEF count, TypeOK
<1>4. TypeOK' BY <1>1, <1>2, ValidSlots DEF TypeOK, Pcs
<1>5. EntriesOK' /\ CellsKept /\ CoverKept BY <1>1, <1>3, ValidPartKept
<1>6. dbl_buffer_count'[1 - cur_ctx] = -1 BY <1>1, <1>2 DEF TypeOK
<1>7. Writing' /\ Undoing' /\ Idle'
  BY <1>1, <1>6 DEF Writing, WritePcs, Undoing, Idle
<1>8. TaskOK => TaskOK'
  BY <1>1, <1>4, <1>5 DEF TaskOK, TypeOK, CoverKept, BootPcs
<1>9. QED BY <1>4, <1>5, <1>7, <1>8

(* The commit: one store empties the log and makes memory the new          *)
(* committed memory.                                                       *)
LEMMA StepSwitchCtx ==
  ASSUME LogInv, SwitchCtx
  PROVE  LogInv' /\ TaskOK' /\ Recoverable'
<1> USE DEF LogInv
<1>1. /\ pc = "switch" /\ pc' = "task" /\ cur_ctx' = 1 - cur_ctx
      /\ committed' = mem /\ writable' = {}
      /\ UNCHANGED <<mem, double_buffer, backup_data, dbl_buffer_count, call,
                     k, disturbed>>
  BY DEF SwitchCtx
<1>2. count' = -1 BY <1>1 DEF Idle, count
<1>3. TypeOK' BY <1>1 DEF TypeOK, Ctx, Pcs
<1>4. EntriesOK' /\ Recoverable'
  BY <1>1, <1>2, ConstantsAssumption DEF EntriesOK, Recoverable
<1>5. Writing' /\ Undoing' /\ Idle' /\ TaskOK'
  BY <1>1 DEF Writing, WritePcs, Undoing, Idle, TaskOK, BootPcs
<1>6. QED BY <1>3, <1>4, <1>5

(* An interrupt writes a cell, at any instruction of the log: the copy     *)
(* under way counts that cell as disturbed from then on.                   *)
LEMMA StepInterrupt ==
  ASSUME LogInv, NEW x \in Shared, NEW v \in Byte, Interrupt(x, v)
  PROVE  LogInv' /\ CellsKept /\ (TaskOK => TaskOK')
<1> USE DEF LogInv
<1>1. /\ mem' = [mem EXCEPT ![x] = v]
      /\ disturbed' = IF Copying THEN disturbed \cup {x} ELSE disturbed
      /\ UNCHANGED <<double_buffer, backup_data, dbl_buffer_count, cur_ctx,
                     pc, call, k, writable, committed>>
  BY DEF Interrupt
<1>2. count' = count BY <1>1 DEF count
<1>3. x \in Addr BY ConstantsAssumption DEF Addr
<1>4. TypeOK' BY <1>1, <1>3 DEF TypeOK
<1>5. EntriesOK' /\ CellsKept /\ CoverKept
  <2>1. Interrupts BY DEF Interrupts
  <2>2. QED BY <1>1, <1>2, <2>1, ValidPartKept
<1>6. \A a : a = x /\ Copying => a \in disturbed' BY <1>1
<1>7. \A a : a \in disturbed => a \in disturbed' BY <1>1
<1>8. \A a : a # x => mem'[a] = mem[a] BY <1>1, <1>3 DEF TypeOK
<1>9. Writing'
  <2> SUFFICES ASSUME pc \in WritePcs PROVE Writing'
    BY <1>1 DEF Writing
  <2>1. ASSUME NEW b \in 0 .. k - 1
        PROVE  \/ call.source + b \in disturbed'
               \/ backup_data[call.dest + b] = mem'[call.source + b]
    BY <1>6, <1>7, <1>8 DEF Writing, Copying
  <2>2. QED BY <1>1, <1>2, <2>1 DEF Writing
<1>10. Undoing'
  <2> SUFFICES ASSUME pc \in {"undo", "drop"} PROVE Undoing'
    BY <1>1 DEF Undoing
  <2> DEFINE e == double_buffer[count]
  <2>1. ASSUME NEW b \in 0 .. k - 1
        PROVE  \/ e.source + b \in disturbed'
               \/ mem'[e.source + b] = backup_data[e.dest + b]
    BY <1>6, <1>7, <1>8 DEF Undoing, Copying
  <2>2. QED BY <1>1, <1>2, <2>1 DEF Undoing
<1>11. Idle' BY <1>1 DEF Idle, Copying, WritePcs
<1>12. TaskOK => TaskOK'
  BY <1>1, <1>4, <1>5 DEF TaskOK, TypeOK, CoverKept
<1>13. QED BY <1>4, <1>5, <1>9, <1>10, <1>11, <1>12

-----------------------------------------------------------------------------
(* Power failure and restore_from_backup *)

LEMMA StepCrash ==
  ASSUME LogInv, Crash
  PROVE  LogInv' /\ CellsKept /\ TaskOK'
<1> USE DEF LogInv
<1>1. /\ pc' = "restore" /\ call' = NoEntry /\ k' = 0 /\ writable' = {}
      /\ disturbed' = {}
      /\ UNCHANGED <<mem, double_buffer, backup_data, dbl_buffer_count,
                     cur_ctx, committed>>
  BY DEF Crash, nvVars
<1>2. count' = count BY <1>1 DEF count
<1>3. TypeOK'
  <2>1. NoEntry \in Entry /\ 0 \in 0 .. MaxLen
    BY ConstantsAssumption DEF NoEntry, Entry, Addr, Offsets
  <2>2. QED BY <1>1, <2>1 DEF TypeOK, Pcs, BootPcs
<1>4. EntriesOK' /\ CellsKept BY <1>1, <1>2, ValidPartKept
<1>5. Writing' /\ Undoing' /\ Idle' /\ TaskOK'
  BY <1>1 DEF Writing, WritePcs, Undoing, Idle, TaskOK
<1>6. QED BY <1>3, <1>4, <1>5

LEMMA StepRestoreNext ==
  ASSUME LogInv, RestoreNext
  PROVE  LogInv' /\ CellsKept /\ (TaskOK => TaskOK')
<1> USE DEF LogInv
<1>1. /\ pc = "restore" /\ pc' = "undo" /\ count > -1 /\ k = 0
      /\ UNCHANGED <<mem, double_buffer, backup_data, dbl_buffer_count,
                     cur_ctx, call, k, writable, committed, disturbed>>
  BY DEF RestoreNext, nvVars, history, Idle
<1>2. count' = count BY <1>1 DEF count
<1>3. TypeOK' BY <1>1 DEF TypeOK, Pcs, BootPcs
<1>4. EntriesOK' /\ CellsKept /\ CoverKept BY <1>1, <1>2, ValidPartKept
<1>5. Undoing'
  <2>1. count >= 0 /\ double_buffer[count] \in Entry BY <1>1, ValidSlots
  <2>2. 0 < double_buffer[count].len
    BY <2>1, ValidSlots DEF EntriesOK, Fits, Entry
  <2>3. QED BY <1>1, <1>2, <2>1, <2>2 DEF Undoing
<1>6. Writing' /\ Idle' BY <1>1 DEF Writing, WritePcs, Idle
<1>7. TaskOK => TaskOK'
  BY <1>1, <1>3, <1>4 DEF TaskOK, TypeOK, CoverKept, BootPcs
<1>8. QED BY <1>3, <1>4, <1>5, <1>6, <1>7

LEMMA StepRestoreDone ==
  ASSUME LogInv, RestoreDone
  PROVE  LogInv' /\ CellsKept /\ (TaskOK => TaskOK')
<1> USE DEF LogInv
<1>1. /\ pc = "restore" /\ pc' = "task" /\ k = 0
      /\ UNCHANGED <<mem, double_buffer, backup_data, dbl_buffer_count,
                     cur_ctx, call, k, writable, committed, disturbed>>
  BY DEF RestoreDone, nvVars, history, Idle
<1>2. count' = count BY <1>1 DEF count
<1>3. TypeOK' BY <1>1 DEF TypeOK, Pcs
<1>4. EntriesOK' /\ CellsKept /\ CoverKept BY <1>1, <1>2, ValidPartKept
<1>5. Writing' /\ Undoing' /\ Idle'
  BY <1>1 DEF Writing, WritePcs, Undoing, Idle
<1>6. TaskOK => TaskOK'
  BY <1>1, <1>3, <1>4 DEF TaskOK, TypeOK, CoverKept, BootPcs
<1>7. QED BY <1>3, <1>4, <1>5, <1>6

(* A restored byte lies in the newest entry, so nothing is said about it    *)
(* until that entry is dropped.                                            *)
LEMMA StepUndoByte ==
  ASSUME LogInv, UndoByte
  PROVE  LogInv' /\ CellsKept /\ (TaskOK => TaskOK')
<1> USE DEF LogInv
<1> DEFINE e == double_buffer[count]
           s == e.source + k
<1>1. /\ pc = "undo" /\ pc' \in {"undo", "drop"} /\ k' = k + 1
      /\ pc' = "undo" <=> k + 1 < e.len
      /\ mem' = [mem EXCEPT ![s] = backup_data[e.dest + k]]
      /\ UNCHANGED <<double_buffer, backup_data, dbl_buffer_count, cur_ctx,
                     call, writable, committed, disturbed>>
  BY DEF UndoByte, history
<1>2. count' = count BY <1>1 DEF count
<1>3. /\ count >= 0 /\ k < e.len
      /\ \A b \in 0 .. k - 1 :
           \/ e.source + b \in disturbed
           \/ mem[e.source + b] = backup_data[e.dest + b]
  BY <1>1 DEF Undoing
<1>4. /\ e \in Entry /\ Fits(e, count) /\ count \in 0 .. count
      /\ e.source \in Nat /\ e.dest \in Nat /\ e.len \in 0 .. MaxLen
      /\ k \in Nat
  <2>1. count \in 0 .. count BY <1>3, ValidSlots
  <2>2. e \in Entry /\ Fits(e, count) BY <2>1, ValidSlots DEF EntriesOK
  <2>3. e.source \in Nat /\ e.dest \in Nat /\ e.len \in 0 .. MaxLen
    BY <2>2 DEF Entry, Addr, Offsets
  <2>4. k \in Nat BY DEF TypeOK
  <2>5. QED BY <2>1, <2>2, <2>3, <2>4
<1>5. s \in Addr /\ Covers(count, s)
  BY <1>3, <1>4, ValidSlots DEF Fits, Addr, Covers, Extent
<1>6. e.dest + k \in Offsets
  <2>1. (count + 1) * (MaxLen + 1) <= (DBL_BUFF_LEN + 1) * (MaxLen + 1)
    BY <1>3, ValidSlots, RoomGrows
  <2>2. /\ (count + 1) * (MaxLen + 1) \in Int
        /\ (DBL_BUFF_LEN + 1) * (MaxLen + 1) \in Int
    BY <1>3, ValidSlots
  <2>3. QED BY <1>3, <1>4, <2>1, <2>2, ValidSlots DEF Fits, Offsets
<1>7. TypeOK'
  <2>1. mem' \in [Addr -> Byte] BY <1>1, <1>5, <1>6 DEF TypeOK
  <2>2. k + 1 \in 0 .. MaxLen BY <1>3, <1>4, ValidSlots
  <2>3. QED BY <1>1, <2>1, <2>2 DEF TypeOK, Pcs, BootPcs
<1>8. EntriesOK' /\ CellsKept /\ CoverKept
  <2>1. \A a \in Addr : Covered(a) \/ mem'[a] = mem[a]
    BY <1>1, <1>4, <1>5 DEF TypeOK, Covered
  <2>2. QED BY <1>1, <1>2, <2>1, ValidPartKept
<1>9. Undoing'
  <2>1. ASSUME NEW b \in 0 .. k' - 1
        PROVE  \/ e.source + b \in disturbed
               \/ mem'[e.source + b] = backup_data[e.dest + b]
    <3>1. CASE b = k BY <3>1, <1>1, <1>5 DEF TypeOK
    <3>2. CASE b # k
      <4>1. b \in 0 .. k - 1 BY <3>2, <1>1, <1>4
      <4>2. e.source + b # s BY <4>1, <1>4
      <4>3. QED BY <4>1, <4>2, <1>1, <1>3, <1>5 DEF TypeOK
    <3>3. QED BY <3>1, <3>2
  <2>2. pc' = "drop" => k' = e.len BY <1>1, <1>3, <1>4
  <2>3. QED BY <1>1, <1>2, <1>3, <2>1, <2>2 DEF Undoing
<1>10. Writing' /\ Idle' BY <1>1 DEF Writing, WritePcs, Idle
<1>11. TaskOK => TaskOK'
  BY <1>1, <1>7, <1>8 DEF TaskOK, TypeOK, CoverKept, BootPcs
<1>12. QED BY <1>7, <1>8, <1>9, <1>10, <1>11

(* Dropping the entry is right because its bytes are all restored: the     *)
(* cells that no older entry covers are as they were when it was saved.    *)
LEMMA StepDropEntry ==
  ASSUME LogInv, DropEntry
  PROVE  LogInv' /\ CellsKept /\ (TaskOK => TaskOK')
<1> USE DEF LogInv
<1> DEFINE e == double_buffer[count]
           n == count - 1
<1>1. /\ pc = "drop" /\ pc' = "restore" /\ k' = 0 /\ disturbed' = {}
      /\ dbl_buffer_count' = [dbl_buffer_count EXCEPT ![cur_ctx] = @ - 1]
      /\ UNCHANGED <<mem, double_buffer, backup_data, cur_ctx, call, writable,
                     committed>>
  BY DEF DropEntry
<1>2. count' = n BY <1>1 DEF count, TypeOK
<1>3. /\ count >= 0 /\ k = e.len
      /\ \A b \in 0 .. k - 1 :
           \/ e.source + b \in disturbed
           \/ mem[e.source + b] = backup_data[e.dest + b]
  BY <1>1 DEF Undoing
<1>4. e \in Entry /\ count \in 0 .. count BY <1>3, ValidSlots
<1>5. \A i \in 0 .. n : i \in 0 .. count /\ i # count
  BY <1>3, ValidSlots
<1>6. \A i \in 0 .. count : i = count \/ i \in 0 .. n BY <1>3, ValidSlots
<1>7. TypeOK'
  <2>1. dbl_buffer_count' \in [Ctx -> -1 .. DBL_BUFF_LEN]
    BY <1>1, <1>3, ValidSlots DEF TypeOK, count
  <2>2. 0 \in 0 .. MaxLen BY ValidSlots
  <2>3. QED BY <1>1, <2>1, <2>2 DEF TypeOK, Pcs, BootPcs
<1>8. EntriesOK'
  <2>1. n < LogsPerTask
    BY <1>3, ValidSlots, ConstantsAssumption DEF EntriesOK
  <2>2. QED BY <1>1, <1>2, <1>5, <2>1 DEF EntriesOK
<1>9. \A i, a : /\ Covers(i, a)' <=> Covers(i, a)
                /\ Oldest(i, a)' <=> Oldest(i, a)
                /\ SavedByte(i, a)' = SavedByte(i, a)
  BY <1>1 DEF Covers, Extent, Oldest, SavedByte
<1>10. \A a : Covered(a) <=> Covered(a)' \/ Covers(count, a)
  BY <1>2, <1>4, <1>5, <1>6, <1>9 DEF Covered
<1>11. ASSUME NEW a \in Addr, Covered(a), ~Covered(a)'
       PROVE  a \in disturbed \/ BringsBack(a, mem[a])
  <2>1. Covers(count, a) BY <1>10, <1>11
  <2>2. Oldest(count, a) BY <1>2, <1>9, <1>11, <2>1 DEF Oldest, Covered
  <2>3. e.source <= a /\ a < e.source + e.len
    BY <2>1 DEF Covers, Extent
  <2>4. a - e.source \in 0 .. k - 1 /\ e.source + (a - e.source) = a
    BY <2>3, <1>3, <1>4, ValidSlots DEF Entry, Addr
  <2>5. a \in disturbed \/ SavedByte(count, a) = mem[a]
    BY <1>3, <2>4 DEF SavedByte
  <2>6. QED BY <1>4, <2>2, <2>5 DEF BringsBack
<1>12. ASSUME NEW a \in Addr, NEW v, Covered(a)'
       PROVE  BringsBack(a, v)' <=> BringsBack(a, v)
  <2>1. ~Oldest(count, a) BY <1>2, <1>9, <1>12 DEF Oldest, Covered
  <2>2. QED BY <1>2, <1>5, <1>6, <1>9, <2>1 DEF BringsBack
<1>13. CellsKept
  BY <1>1, <1>10, <1>11, <1>12 DEF CellsKept, CellKept
<1>14. Writing' /\ Undoing' /\ Idle' /\ (TaskOK => TaskOK')
  BY <1>1 DEF Writing, WritePcs, Undoing, Idle, TaskOK, BootPcs
<1>15. QED BY <1>7, <1>8, <1>13, <1>14

-----------------------------------------------------------------------------
(* The invariants of backup.c *)

(* What one step of the program does to the log and to what it brings back.*)
LEMMA NextLogInv ==
  ASSUME LogInv, [Next]_vars
  PROVE  LogInv'
<1>1. CASE WriteToLog
  BY <1>1, StepBeginLog, StepLogRefused, StepCopyByte, StepStore, StepCountUp
  DEF WriteToLog
<1>2. CASE Task
  BY <1>2, StepWriteNv, StepPrepareNextCtx, StepSwitchCtx DEF Task
<1>3. CASE Interrupts BY <1>3, StepInterrupt DEF Interrupts
<1>4. CASE RestoreFromBackup
  BY <1>4, StepRestoreNext, StepUndoByte, StepDropEntry, StepRestoreDone
  DEF RestoreFromBackup
<1>5. CASE Crash BY <1>5, StepCrash
<1>6. CASE UNCHANGED vars
  BY <1>6
  DEF vars, nvVars, history, LogInv, TypeOK, EntriesOK, Writing, Undoing, Idle,
      Fits, Before, count
<1>7. QED BY <1>1, <1>2, <1>3, <1>4, <1>5, <1>6 DEF Next

LEMMA NextCells ==
  ASSUME NeverRefused, LogInv, TaskOK, Next
  PROVE  SwitchCtx \/ (CellsKept /\ TaskOK')
<1>1. CASE WriteToLog
  <2>1. ASSUME NEW o \in Objects, LogRefused(o[1], o[2]) PROVE FALSE
    BY <2>1, ValidSlots, ConstantsAssumption
    DEF LogRefused, NeverRefused, LogInv
  <2>2. QED
    BY <1>1, <2>1, StepBeginLog, StepCopyByte, StepStore, StepCountUp
    DEF WriteToLog
<1>2. CASE Task BY <1>2, StepWriteNv, StepPrepareNextCtx DEF Task
<1>3. CASE Interrupts BY <1>3, StepInterrupt DEF Interrupts
<1>4. CASE RestoreFromBackup
  BY <1>4, StepRestoreNext, StepUndoByte, StepDropEntry, StepRestoreDone
  DEF RestoreFromBackup
<1>5. CASE Crash BY <1>5, StepCrash
<1>6. QED BY <1>1, <1>2, <1>3, <1>4, <1>5 DEF Next

(* Only the context switch commits. *)
LEMMA OnlySwitchCommits == ASSUME Next PROVE SwitchCtx \/ committed' = committed
  BY DEF Next, WriteToLog, BeginLog, LogRefused, CopyByte, StoreSource,
         StoreDest, StoreLen, CountUp, Task, WriteNv, PrepareNextCtx,
         Interrupts, Interrupt, RestoreFromBackup, RestoreNext, UndoByte,
         DropEntry, RestoreDone, Crash, history

LEMMA NextIInv ==
  ASSUME NeverRefused, IInv, [Next]_vars
  PROVE  IInv'
<1>1. LogInv' BY NextLogInv DEF IInv
<1>2. CASE SwitchCtx BY <1>2, StepSwitchCtx DEF IInv
<1>3. CASE Next /\ ~SwitchCtx
  <2>1. CellsKept /\ TaskOK' BY <1>3, NextCells DEF IInv
  <2>2. committed' = committed BY <1>3, OnlySwitchCommits
  <2>3. Recoverable' BY <1>1, <2>1, <2>2, RecoverableKept DEF IInv, LogInv
  <2>4. QED BY <1>1, <2>1, <2>3 DEF IInv
<1>4. CASE UNCHANGED vars
  <2>1. TaskOK' /\ Recoverable'
    BY <1>4 DEF vars, nvVars, history, IInv, TaskOK, Recoverable, Covered,
                Oldest, Covers, Extent, SavedByte, count
  <2>2. QED BY <1>1, <2>1 DEF IInv
<1>5. QED BY <1>2, <1>3, <1>4

(* The invariant of the log itself, for whatever the tasks do. *)
THEOREM SpecLogInv == Spec => []LogInv
<1>1. Init => LogInv BY InitIInv DEF IInv
<1>2. LogInv /\ [Next]_vars => LogInv' BY NextLogInv
<1>3. QED BY <1>1, <1>2, PTL DEF Spec

(* The invariant of backup.c: it holds as long as write_to_log never       *)
(* returns -1.                                                             *)
THEOREM SpecIInv == ASSUME NeverRefused PROVE Spec => []IInv
<1>1. NeverRefused OBVIOUS
<1>2. Init => IInv BY InitIInv
<1>3. IInv /\ [Next]_vars => IInv' BY <1>1, NextIInv
<1>4. QED BY <1>2, <1>3, PTL DEF Spec

-----------------------------------------------------------------------------
(* The theorems *)

(* Every variable of write_to_log and restore_from_backup keeps its type:  *)
(* no copy leaves the object it was started for, also when write_to_log    *)
(* returns -1 and the task goes on.                                        *)
THEOREM TypeCorrect == Spec => []TypeOK
<1>1. LogInv => TypeOK BY DEF LogInv
<1>2. QED BY <1>1, SpecLogInv, PTL

(* At every instruction of backup.c, of the task between its calls and of  *)
(* the interrupts, power may fail: the log then leads back to the          *)
(* committed memory.                                                       *)
THEOREM AlwaysRecoverable == ASSUME NeverRefused PROVE Spec => []Recoverable
<1>1. IInv => Recoverable BY DEF IInv
<1>2. QED BY <1>1, SpecIInv, PTL

(* What the log of backup.c does to a cell that interrupts write, too: the *)
(* byte that comes back is the one that the cell had when the oldest valid *)
(* entry for it was copied, and no other cell is touched.                  *)
THEOREM LogBringsOldestBack ==
  ASSUME NeverRefused PROVE Spec => OldestComesBack
<1>1. NeverRefused OBVIOUS
<1>2. IInv /\ [Next]_vars => [SwitchCtx \/ CellsKept]_vars
  BY <1>1, NextCells DEF IInv
<1>3. QED BY <1>1, <1>2, SpecIInv, PTL DEF Spec, OldestComesBack

(* Among the valid entries for a cell one is the oldest: as the absence of *)
(* a least index.                                                          *)
LEMMA SomeOldest ==
  ASSUME TypeOK, NEW a \in Addr, Covered(a)
  PROVE  \E i \in 0 .. count : Oldest(i, a)
<1> DEFINE Those == {i \in 0 .. count : Covers(i, a)}
           Less == {p \in Nat \X Nat : p[1] < p[2]}
<1>1. Those # {} BY DEF Covered
<1>2. Those \subseteq Nat BY ValidSlots
<1>3. IsWellFoundedOn(Less, Nat) BY NatLessThanWellFounded DEF OpToRel
<1>4. PICK i \in Those : \A j \in Those : <<j, i>> \notin Less
  BY <1>1, <1>2, <1>3, WFMin
<1>5. i \in Nat /\ i \in 0 .. count /\ Covers(i, a) BY <1>2
<1>6. ASSUME NEW j \in 0 .. i - 1, Covers(j, a) PROVE FALSE
  <2>1. j \in Nat /\ j < i BY <1>5
  <2>2. j \in Those BY <1>5, <1>6, <2>1, ValidSlots
  <2>3. QED BY <1>4, <2>1, <2>2, <1>5
<1>7. QED BY <1>5, <1>6 DEF Oldest

(* For every cell that the log of backup.c covers there is exactly one     *)
(* byte that restore_from_backup will leave there, so OldestComesBack and  *)
(* Recoverable speak of each of them.                                      *)
THEOREM EachSavedCellComesBack ==
  Spec => [](\A a \in Addr : Covered(a) =>
               \E v \in Byte : \A w : BringsBack(a, w) <=> w = v)
<1>1. ASSUME LogInv, NEW a \in Addr, Covered(a)
      PROVE  \E v \in Byte : \A w : BringsBack(a, w) <=> w = v
  <2>1. TypeOK /\ EntriesOK BY <1>1 DEF LogInv
  <2>2. PICK i \in 0 .. count : Oldest(i, a) BY <1>1, <2>1, SomeOldest
  <2>3. ASSUME NEW j \in 0 .. count, Oldest(j, a) PROVE j = i
    <3>1. i \in Nat /\ j \in Nat BY <2>1, ValidSlots
    <3>2. ~(i < j) BY <2>2, <2>3, <3>1 DEF Oldest
    <3>3. ~(j < i) BY <2>2, <2>3, <3>1 DEF Oldest
    <3>4. QED BY <3>1, <3>2, <3>3
  <2>4. SavedByte(i, a) \in Byte
    <3> DEFINE e == double_buffer[i]
    <3>1. i \in 0 .. DBL_BUFF_LEN /\ e \in Entry BY <2>1, ValidSlots DEF Slots
    <3>2. e.source <= a /\ a < e.source + e.len
      BY <2>2 DEF Oldest, Covers, Extent
    <3>3. e.dest + e.len <= (i + 1) * (MaxLen + 1)
      BY <2>1 DEF EntriesOK, Fits
    <3>4. (i + 1) * (MaxLen + 1) <= (DBL_BUFF_LEN + 1) * (MaxLen + 1)
      BY <3>1, RoomGrows, ConstantsAssumption
    <3>5. e.dest + (a - e.source) \in Offsets
      BY <3>1, <3>2, <3>3, <3>4, ConstantsAssumption
      DEF Offsets, Entry, Addr
    <3>6. QED BY <2>1, <3>5 DEF SavedByte, TypeOK
  <2>5. \A w : BringsBack(a, w) <=> w = SavedByte(i, a)
    BY <2>2, <2>3 DEF BringsBack
  <2>6. QED BY <2>4, <2>5
<1>2. LogInv => \A a \in Addr : Covered(a) =>
                  \E v \in Byte : \A w : BringsBack(a, w) <=> w = v
  BY <1>1
<1>3. QED BY <1>2, SpecLogInv, PTL

(* A task that saves at most DBL_BUFF_LEN objects, and no more bytes than  *)
(* BACKUP_DATA_LEN with one skipped before each, never makes write_to_log  *)
(* store behind the end of its arrays.                                     *)
THEOREM StaysInBounds == ASSUME LogHasRoom PROVE Spec => []LogInBounds
<1>1. ASSUME LogInv PROVE LogInBounds
  <2> USE <1>1
  <2>0. TypeOK /\ EntriesOK /\ Writing BY DEF LogInv
  <2>1. LogsPerTask \in Nat /\ BACKUP_DATA_LEN \in Nat BY ConstantsAssumption
  <2>2. LogsPerTask <= DBL_BUFF_LEN
        /\ LogsPerTask * (MaxLen + 1) <= BACKUP_DATA_LEN
    BY LogHasRoom DEF LogHasRoom
  <2>3. ASSUME NEW i \in Nat, i < LogsPerTask, NEW e \in Entry, Fits(e, i)
        PROVE  e.dest + e.len <= BACKUP_DATA_LEN
    <3>1. (i + 1) * (MaxLen + 1) <= LogsPerTask * (MaxLen + 1)
      BY <2>1, <2>3, RoomGrows
    <3>2. /\ (i + 1) * (MaxLen + 1) \in Int
          /\ LogsPerTask * (MaxLen + 1) \in Int
      BY <2>1, ValidSlots, <2>0
    <3>3. e.dest \in Nat /\ e.len \in Nat BY DEF Entry, Offsets
    <3>4. QED BY <2>1, <2>2, <2>3, <3>1, <3>2, <3>3 DEF Fits
  <2>4. EntriesInBuffer
    <3>1. count < DBL_BUFF_LEN
      BY <2>0, <2>1, <2>2, ValidSlots DEF EntriesOK
    <3>2. pc \in {"dest", "len", "count"} => count + 1 < DBL_BUFF_LEN
      BY <2>0, <2>1, <2>2, ValidSlots DEF Writing, WritePcs
    <3>3. QED BY <3>1, <3>2 DEF EntriesInBuffer
  <2>5. ASSUME NEW i \in 0 .. count
        PROVE  double_buffer[i].dest + double_buffer[i].len <= BACKUP_DATA_LEN
    <3>1. i \in Nat /\ i < LogsPerTask
      BY <2>0, <2>1, ValidSlots DEF EntriesOK
    <3>2. double_buffer[i] \in Entry /\ Fits(double_buffer[i], i)
      BY <2>0, ValidSlots DEF EntriesOK
    <3>3. QED BY <2>3, <3>1, <3>2
  <2>6. ASSUME pc \in WritePcs PROVE call.dest + k <= BACKUP_DATA_LEN
    <3>1. count + 1 \in Nat /\ count + 1 < LogsPerTask
      BY <2>0, <2>6, ValidSlots DEF Writing
    <3>2. call \in Entry /\ Fits(call, count + 1)
      BY <2>0, <2>6 DEF Writing, TypeOK
    <3>3. call.dest + call.len <= BACKUP_DATA_LEN BY <2>3, <3>1, <3>2
    <3>4. k <= call.len
      BY <2>0, <2>6, <3>2, ValidSlots DEF Writing, WritePcs, TypeOK, Entry
    <3>5. QED BY <2>0, <2>1, <3>2, <3>3, <3>4, ValidSlots
      DEF Entry, Offsets, TypeOK
  <2>7. QED BY <2>4, <2>5, <2>6 DEF LogInBounds, DataInBuffer
<1>2. QED BY <1>1, SpecLogInv, PTL

(* One entry more takes MaxLen + 3 steps more. *)
LEMMA StepsPerEntry ==
  ASSUME NEW i \in Nat
  PROVE  /\ i * (MaxLen + 3) \in Nat
         /\ (i + 1) * (MaxLen + 3) = i * (MaxLen + 3) + MaxLen + 3
<1>1. MaxLen \in Nat BY ConstantsAssumption
<1>2. QED BY <1>1

LEMMA StepAhead ==
  ASSUME LogInv, [Next]_vars, pc \in BootPcs, ~Crash
  PROVE  Ahead \/ UNCHANGED vars
<1> DEFINE e == double_buffer[count]
<1> USE DEF LogInv
<1>0. MaxLen \in Nat /\ k \in Nat BY ValidSlots DEF TypeOK
<1>1. CASE WriteToLog \/ Task
  BY <1>1 DEF WriteToLog, BeginLog, LogRefused, CopyByte, StoreSource,
              StoreDest, StoreLen, CountUp, Task, WriteNv, PrepareNextCtx,
              SwitchCtx, BootPcs
<1>2. CASE Interrupts
  <2>1. UNCHANGED <<double_buffer, dbl_buffer_count, cur_ctx, pc, k>>
    BY <1>2 DEF Interrupts, Interrupt
  <2>2. count' = count BY <2>1 DEF count
  <2>3. Left' = Left BY <2>1, <2>2 DEF Left
  <2>4. QED BY <1>2, <2>3 DEF Ahead
<1>3. CASE RestoreNext
  <2>1. /\ pc = "restore" /\ pc' = "undo" /\ count > -1 /\ k = 0 /\ k' = 0
        /\ UNCHANGED <<double_buffer, dbl_buffer_count, cur_ctx>>
    BY <1>3 DEF RestoreNext, nvVars, Idle
  <2>2. count' = count BY <2>1 DEF count
  <2>3. count + 1 \in Nat /\ e \in Entry BY <2>1, ValidSlots
  <2>4. e.len \in 0 .. MaxLen BY <2>3 DEF Entry
  <2>5. Left = (count + 1) * (MaxLen + 3) + (MaxLen + 2) BY <2>1 DEF Left
  <2>6. Left' = (count + 1) * (MaxLen + 3) + (e.len - 0 + 1)
    BY <2>1, <2>2 DEF Left
  <2>7. 0 <= Left' /\ Left' < Left
    BY <1>0, <2>3, <2>4, <2>5, <2>6, StepsPerEntry
  <2>8. QED BY <2>1, <2>7 DEF Ahead, BootPcs
<1>4. CASE UndoByte
  <2>1. /\ pc = "undo" /\ k' = k + 1
        /\ pc' = IF k + 1 < e.len THEN "undo" ELSE "drop"
        /\ UNCHANGED <<double_buffer, dbl_buffer_count, cur_ctx>>
    BY <1>4 DEF UndoByte
  <2>2. count' = count BY <2>1 DEF count
  <2>3. count >= 0 /\ k < e.len BY <2>1 DEF Undoing
  <2>4. count + 1 \in Nat /\ e \in Entry BY <2>3, ValidSlots
  <2>5. e.len \in 0 .. MaxLen BY <2>4 DEF Entry
  <2>6. Left = (count + 1) * (MaxLen + 3) + (e.len - k + 1)
    BY <2>1 DEF Left
  <2>7. CASE k + 1 < e.len
    <3>1. pc' = "undo" BY <2>1, <2>7
    <3>2. Left' = (count + 1) * (MaxLen + 3) + (e.len - (k + 1) + 1)
      BY <2>1, <2>2, <3>1 DEF Left
    <3>3. 0 <= Left' /\ Left' < Left
      BY <1>0, <2>4, <2>5, <2>6, <2>7, <3>2, StepsPerEntry
    <3>4. QED BY <3>1, <3>3 DEF Ahead, BootPcs
  <2>8. CASE ~(k + 1 < e.len)
    <3>1. pc' = "drop" BY <2>1, <2>8
    <3>2. Left' = (count + 1) * (MaxLen + 3) + 0
      BY <2>2, <3>1 DEF Left
    <3>3. 0 <= Left' /\ Left' < Left
      BY <1>0, <2>3, <2>4, <2>5, <2>6, <3>2, StepsPerEntry
    <3>4. QED BY <3>1, <3>3 DEF Ahead, BootPcs
  <2>9. QED BY <2>7, <2>8
<1>5. CASE DropEntry
  <2>1. /\ pc = "drop" /\ pc' = "restore"
        /\ dbl_buffer_count' = [dbl_buffer_count EXCEPT ![cur_ctx] = @ - 1]
        /\ UNCHANGED cur_ctx
    BY <1>5 DEF DropEntry
  <2>2. count' = count - 1 BY <2>1 DEF count, TypeOK
  <2>3. count \in Nat BY <2>1, ValidSlots DEF Undoing
  <2>4. Left = (count + 1) * (MaxLen + 3) + 0 BY <2>1 DEF Left
  <2>5. Left' = (count' + 1) * (MaxLen + 3) + (MaxLen + 2)
    BY <2>1 DEF Left
  <2>6. count' + 1 = count BY <2>2, <2>3
  <2>7. 0 <= Left' /\ Left' < Left
    BY <1>0, <2>3, <2>4, <2>5, <2>6, StepsPerEntry
  <2>8. QED BY <2>1, <2>7 DEF Ahead, BootPcs
<1>6. CASE RestoreDone BY <1>6 DEF RestoreDone, Ahead
<1>7. QED
  BY <1>1, <1>2, <1>3, <1>4, <1>5, <1>6 DEF Next, RestoreFromBackup

(* restore_from_backup terminates: every step of it brings it nearer to    *)
(* its end, for every number and length of entries, also after saves that  *)
(* were refused and however the interrupts come.                           *)
THEOREM RecoveryTerminates == Spec => RecoveryAdvances
<1>1. LogInv /\ [Next]_vars => [(pc \in BootPcs /\ ~Crash) => Ahead]_vars
  BY StepAhead
<1>2. QED BY <1>1, SpecLogInv, PTL DEF Spec, RecoveryAdvances

(* Every step of backup.c is a step of the abstract task or invisible to   *)
(* it: the context switch is its commit, and the end of                    *)
(* restore_from_backup its restart.  An interrupt changes nothing that the *)
(* abstract task knows of.                                                 *)
LEMMA StepImplements ==
  ASSUME NeverRefused, IInv, [Next]_vars
  PROVE  [Abstract!Next]_(Abstract!vars)
<1> DEFINE working == [a \in Private |-> mem[a]]
           stable == [a \in Private |-> committed[a]]
<1>0. IInv' BY NextIInv
<1>1. Private \subseteq Addr BY DEF Private
<1>2. working' \in [Private -> Byte]
  BY <1>0, <1>1 DEF IInv, LogInv, TypeOK
<1> USE DEF Abstract!Next, Abstract!vars, Abstract!Work, Abstract!Commit,
            Abstract!Fail, Abstract!Repair, Abstract!Restart, Abstract!Memory
<1>3. CASE WriteToLog
  <2>1. UNCHANGED <<mem, committed>> /\ pc \notin BootPcs /\ pc' \notin BootPcs
    BY <1>3 DEF WriteToLog, BeginLog, LogRefused, CopyByte, StoreSource,
                StoreDest, StoreLen, CountUp, nvVars, history, BootPcs
  <2>2. QED BY <2>1
<1>4. ASSUME NEW a \in Addr, NEW v \in Byte, WriteNv(a, v)
      PROVE  Abstract!Next
  <2>1. pc \notin BootPcs /\ pc' = pc /\ committed' = committed
    BY <1>4 DEF WriteNv, BootPcs, history
  <2>2. QED BY <1>2, <2>1
<1>5. CASE PrepareNextCtx
  <2>1. /\ UNCHANGED <<mem, committed>>
        /\ pc \notin BootPcs /\ pc' \notin BootPcs
    BY <1>5 DEF PrepareNextCtx, BootPcs, history
  <2>2. QED BY <2>1
<1>6. CASE SwitchCtx
  <2>1. /\ mem' = mem /\ committed' = mem
        /\ pc \notin BootPcs /\ pc' \notin BootPcs
    BY <1>6 DEF SwitchCtx, BootPcs
  <2>2. QED BY <2>1
<1>7. ASSUME NEW x \in Shared, NEW v \in Byte, Interrupt(x, v)
      PROVE  UNCHANGED Abstract!vars
  <2>1. pc' = pc /\ committed' = committed BY <1>7 DEF Interrupt
  <2>2. \A a \in Private : mem'[a] = mem[a]
    BY <1>1, <1>7 DEF Interrupt, Private, IInv, LogInv, TypeOK
  <2>3. working' = working BY <2>2
  <2>4. QED BY <2>1, <2>3
<1>8. CASE RestoreNext \/ DropEntry
  <2>1. UNCHANGED <<mem, committed>> /\ pc \in BootPcs /\ pc' \in BootPcs
    BY <1>8 DEF RestoreNext, DropEntry, BootPcs, nvVars, history
  <2>2. QED BY <2>1
<1>9. CASE UndoByte
  <2>1. pc \in BootPcs /\ pc' \in BootPcs /\ UNCHANGED committed
    BY <1>9 DEF UndoByte, BootPcs, history
  <2>2. QED BY <1>2, <2>1
<1>10. CASE RestoreDone
  <2>1. 0 .. count = {}
    BY <1>10, ValidSlots DEF RestoreDone, IInv, LogInv
  <2>2. \A a \in Private : mem[a] = committed[a]
    BY <2>1 DEF IInv, Recoverable, Covered
  <2>3. working = stable BY <2>2
  <2>4. /\ UNCHANGED <<mem, committed>>
        /\ pc \in BootPcs /\ pc' \notin BootPcs
    BY <1>10 DEF RestoreDone, BootPcs, nvVars, history
  <2>5. QED BY <2>3, <2>4
<1>11. CASE Crash
  <2>1. UNCHANGED <<mem, committed>> /\ pc' \in BootPcs
    BY <1>11 DEF Crash, BootPcs, nvVars
  <2>2. QED BY <2>1
<1>12. CASE UNCHANGED vars BY <1>12 DEF vars, nvVars, history
<1>13. QED
  BY <1>3, <1>4, <1>5, <1>6, <1>7, <1>8, <1>9, <1>10, <1>11, <1>12
  DEF Next, Task, Interrupts, RestoreFromBackup

(* backup.c implements the atomic task, for the memory that only tasks     *)
(* write: what a task writes becomes durable at its commit and never       *)
(* before, and a task only ever starts on exactly the memory that the last *)
(* commit left.                                                            *)
THEOREM ImplementsAtomicTask == ASSUME NeverRefused PROVE Spec => TasksAreAtomic
<1>1. NeverRefused OBVIOUS
<1>2. Init => Abstract!Init
  BY DEF Init, Abstract!Init, Abstract!Memory, BootPcs, Private
<1>3. IInv /\ [Next]_vars => [Abstract!Next]_(Abstract!vars)
  BY <1>1, StepImplements
<1>4. QED
  BY <1>2, <1>3, SpecIInv, PTL DEF Spec, Abstract!Spec, TasksAreAtomic
=============================================================================
