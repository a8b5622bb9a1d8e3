---------------------------- MODULE UartRxProofs ----------------------------
(***************************************************************************)
(* Proofs about UartRx, for every number of buffers and every frame        *)
(* length.                                                                 *)
(***************************************************************************)
EXTENDS UartRx, TLAPS

-----------------------------------------------------------------------------
(* The inductive invariant *)

(* The frame that is being received has an accepted length. *)
InFrame ==
  progress = "receive_data" =>
    /\ buffer_num \in Buffers
    /\ prog_counter < prog_len
    /\ prog_len = full_len[buffer_num]
    /\ prog_len <= UARTLINK_MAX_PAYLOAD_SIZE

(* The mark of an untainted buffer speaks the truth. *)
Sound ==
  \A b \in Buffers \ tainted :
    complete[b] = COMPLETE =>
      active[b] = 1 /\ b \in whole /\ ~ReceivingInto(b)

(* The interrupt receives into a claimed buffer that the main program is   *)
(* not about to free.                                                      *)
Receiving ==
  \A b \in Buffers \ tainted :
    ReceivingInto(b) => active[b] = 1 /\ ~(pc = "free" /\ i = b)

(* The buffer that process_uart<n> looks at is visible until it clears the *)
(* mark.                                                                   *)
Scanning ==
  /\ Handling => Visible(i)
  /\ pc = "free" /\ i \notin tainted => complete[i] # COMPLETE

(* The mark is saved before active, and nothing comes in between but a     *)
(* power failure; recovery drops active before the mark.                   *)
Saving == pc = "foreign" \/ (pc = "log_active" /\ LogsOwn)

LogShape ==
  /\ \A b \in Buffers :
       /\ saved_active[b] # NotSaved => saved_complete[b] # NotSaved
       /\ saved_complete[b] # NotSaved /\ saved_active[b] = NotSaved =>
           Booting \/ (Saving /\ i = b)
  /\ Saving => saved_complete[i] # NotSaved
  /\ pc = "drop_active" => saved_active[i] # NotSaved
  /\ pc = "drop_complete" =>
       saved_active[i] = NotSaved /\ saved_complete[i] # NotSaved

(* Bringing a saved buffer back is right as long as it was not claimed     *)
(* again.  What was put back stays until its entry is dropped.             *)
LogSound ==
  \A b \in Buffers \ (tainted \cup reclaimed) :
    /\ saved_complete[b] = COMPLETE =>
         /\ b \in whole /\ ~ReceivingInto(b)
         /\ saved_active[b] = 1 \/ (saved_active[b] = NotSaved /\ active[b] = 1)
    /\ saved_active[b] = 0 => complete[b] # COMPLETE /\ ~ReceivingInto(b)
    /\ Booting /\ ReceivingInto(b) => ~Saved(b)
    /\ pc = "drop_active" /\ i = b => active[b] = saved_active[b]
    /\ pc = "drop_complete" /\ i = b => complete[b] = saved_complete[b]

IInv ==
  /\ TypeOK
  /\ InFrame
  /\ Sound
  /\ Receiving
  /\ Scanning
  /\ LogShape
  /\ LogSound

-----------------------------------------------------------------------------
(* What keeping frames needs on top of it, on any link: only visible       *)
(* buffers are saved, but for the misled ones; a frame is handled before   *)
(* its flags are cleared, and no task runs at boot.                        *)
Keeping ==
  /\ \A b \in Buffers \ misled :
       /\ saved_complete[b] \in {NotSaved, COMPLETE}
       /\ saved_active[b] \in {NotSaved, 1}
  /\ pc = "foreign" /\ i \notin misled =>
       Visible(i) \/ saved_active[i] # NotSaved
  /\ pc = "clear" /\ i \notin tainted => i \in done
  /\ Booting => done = {}

(* What delivery needs on top of both, for a link that saves its own       *)
(* flags, as link 0 does, whoever else saves them: they are saved before   *)
(* they are cleared.                                                       *)
OwnLog ==
  /\ pc \in {"log_active", "handle", "clear", "free"} =>
       saved_complete[i] # NotSaved
  /\ pc \in {"handle", "clear", "free"} => saved_active[i] # NotSaved
  /\ \A b \in done : saved_complete[b] # NotSaved

(* Recovery has still to put back the mark of b. *)
Pending(b) ==
  saved_complete[b] # NotSaved /\ ~(pc = "drop_complete" /\ i = b)

(* While the program runs, an owed frame is visible or has been handled;   *)
(* while recovery runs it is visible or has still to be put back.          *)
OwedOrDone ==
  \A b \in owed \ (tainted \cup erased) :
    \/ b \in whole /\ Visible(b)
    \/ IF Booting THEN Pending(b) ELSE b \in done

OwedInv == OwnLog /\ OwedOrDone /\ AtLeastOnce

-----------------------------------------------------------------------------
(* Initially *)

LEMMA InitIInv == ASSUME Init PROVE IInv
<1>1. TypeOK
  BY ConstantsAssumption DEF Init, TypeOK, Marks, NotSaved, ScanPcs, Buffers
<1>2. QED
  BY <1>1, ConstantsAssumption
  DEF Init, IInv, InFrame, Sound, Receiving, ReceivingInto, Scanning,
      Handling, LogShape, Saving, Booting, LogSound, NotSaved, Saved

-----------------------------------------------------------------------------
(* The interrupt *)

(* Bytes outside a frame, and bytes of a frame there is no room for,       *)
(* change nothing the invariant speaks about.                              *)
LEMMA StepOutside ==
  ASSUME IInv, NEW data \in Byte,
         WaitEsp0(data) \/ WaitEsp1(data) \/ RejectLen(data) \/ NoBuffer(data)
  PROVE  IInv'
<1> USE DEF IInv
<1>1. /\ UNCHANGED <<cells, log, main, history>>
      /\ progress # "receive_data" /\ progress' # "receive_data"
      /\ progress' \in {"wait_esp0", "wait_esp1", "wait_len"}
      /\ prog_len' \in Nat /\ prog_counter' \in Nat
      /\ buffer_num' \in Buffers \cup {-1}
  BY ConstantsAssumption
  DEF WaitEsp0, WaitEsp1, RejectLen, NoBuffer, AcceptLen, TypeOK
<1>2. TypeOK' BY <1>1 DEF TypeOK, cells, log, main, history
<1>3. \A b : ~ReceivingInto(b) /\ ~ReceivingInto(b)'
  BY <1>1 DEF ReceivingInto
<1>4. InFrame' BY <1>1 DEF InFrame
<1>5. Sound' /\ Receiving' /\ LogSound'
  BY <1>1, <1>3
  DEF Sound, Receiving, LogSound, Booting, Saved, cells, log, main, history
<1>6. Scanning' /\ LogShape'
  BY <1>1 DEF Scanning, Handling, Visible, LogShape, Saving, Booting, cells, log, main, history
<1>7. QED BY <1>2, <1>4, <1>5, <1>6

LEMMA StepClaim ==
  ASSUME IInv, NEW data \in Byte, NEW b \in Buffers, Claim(data, b)
  PROVE  IInv'
<1> USE DEF IInv
<1>1. /\ progress = "wait_len" /\ progress' = "receive_data"
      /\ prog_len' = data /\ prog_counter' = 0 /\ buffer_num' = b
      /\ data <= UARTLINK_MAX_PAYLOAD_SIZE /\ data >= MIN_LEN /\ data \in Nat
      /\ ~Visible(b)
      /\ active' = [active EXCEPT ![b] = 1]
      /\ full_len' = [full_len EXCEPT ![b] = data]
      /\ whole' = whole \ {b}
      /\ reclaimed' = IF Saved(b) THEN reclaimed \cup {b} ELSE reclaimed
      /\ erased' = erased \ {b}
      /\ UNCHANGED <<complete, log, main, done, misled>>
  BY ConstantsAssumption DEF Claim, AcceptLen
<1>2. /\ b \notin tainted' => complete[b] # COMPLETE /\ ~(pc = "free" /\ i = b)
      /\ \A c \in Buffers \ {b} : c \in tainted' <=> c \in tainted
      /\ tainted' \subseteq Buffers /\ owed' \subseteq owed
  BY DEF Claim, TypeOK
<1>3. /\ \A c : ~ReceivingInto(c)
      /\ \A c : ReceivingInto(c)' <=> c = b
  BY <1>1 DEF ReceivingInto
<1>4. TypeOK'
  BY <1>1, <1>2 DEF TypeOK, log, main
<1>5. InFrame'
  BY <1>1, ConstantsAssumption DEF InFrame, TypeOK
<1>6. Sound'
  <2>1. ASSUME NEW c \in Buffers \ tainted', complete[c] = COMPLETE
        PROVE  active'[c] = 1 /\ c \in whole' /\ ~ReceivingInto(c)'
    <3>1. c # b BY <1>2, <2>1
    <3>2. active[c] = 1 /\ c \in whole BY <1>2, <2>1, <3>1 DEF Sound
    <3>3. QED BY <1>1, <1>3, <3>1, <3>2 DEF TypeOK
  <2>2. QED BY <1>1, <2>1 DEF Sound
<1>7. Receiving' BY <1>1, <1>2, <1>3 DEF Receiving, TypeOK, main
<1>8. Scanning'
  <2>1. ASSUME Handling PROVE Visible(i)' /\ i # b
    <3>1. Visible(i) /\ i # b BY <1>1, <2>1 DEF Scanning
    <3>2. QED BY <1>1, <3>1 DEF Visible, main, TypeOK
  <2>2. ASSUME pc = "free", i \notin tainted' PROVE complete[i] # COMPLETE
    BY <1>2, <2>2 DEF Scanning, TypeOK
  <2>3. QED BY <1>1, <2>1, <2>2 DEF Scanning, Handling, main
<1>9. LogShape' BY <1>1 DEF LogShape, Saving, Booting, log, main
<1>10. LogSound'
  <2>1. ASSUME NEW c \in Buffers \ (tainted' \cup reclaimed')
        PROVE  /\ saved_complete[c] = COMPLETE =>
                    /\ c \in whole' /\ ~ReceivingInto(c)'
                    /\ saved_active[c] = 1
                         \/ (saved_active[c] = NotSaved /\ active'[c] = 1)
               /\ saved_active[c] = 0 =>
                    complete[c] # COMPLETE /\ ~ReceivingInto(c)'
               /\ Booting /\ ReceivingInto(c)' => ~Saved(c)
               /\ pc = "drop_active" /\ i = c => active'[c] = saved_active[c]
               /\ pc = "drop_complete" /\ i = c =>
                    complete[c] = saved_complete[c]
    <3>1. CASE c = b
      <4>1. ~Saved(b) BY <1>1, <2>1, <3>1
      <4>2. saved_complete[b] # COMPLETE /\ saved_active[b] # 0
        BY <4>1, ConstantsAssumption DEF Saved, NotSaved
      <4>3. ~(pc = "drop_active" /\ i = b) /\ ~(pc = "drop_complete" /\ i = b)
        BY <4>1 DEF LogShape, Saved
      <4>4. QED BY <3>1, <4>1, <4>2, <4>3
    <3>2. CASE c # b
      <4>1. c \in Buffers \ (tainted \cup reclaimed) BY <1>1, <1>2, <2>1, <3>2
      <4>2. QED BY <1>1, <1>3, <3>2, <4>1 DEF LogSound, Booting, TypeOK
    <3>3. QED BY <3>1, <3>2
  <2>2. QED BY <1>1, <2>1 DEF LogSound, Booting, log, main, Saved
<1>11. QED BY <1>4, <1>5, <1>6, <1>7, <1>8, <1>9, <1>10

LEMMA StepReceive ==
  ASSUME IInv, NEW data \in Byte, Receive(data)
  PROVE  IInv'
<1> USE DEF IInv
<1>1. /\ progress = "receive_data" /\ buffer_num \in Buffers
      /\ prog_counter < prog_len /\ prog_len = full_len[buffer_num]
      /\ prog_len <= UARTLINK_MAX_PAYLOAD_SIZE
      /\ prog_counter \in Nat /\ prog_len \in Nat
      /\ UNCHANGED <<active, full_len, log, buffer_num, main, reclaimed,
                     tainted, misled, erased>>
  BY DEF Receive, InFrame, TypeOK
<1>2. CASE prog_counter + 1 >= prog_len
  <2>1. /\ complete' = [complete EXCEPT ![buffer_num] = COMPLETE]
        /\ prog_counter' = 0 /\ prog_len' = 0 /\ progress' = "wait_esp0"
        /\ whole' = whole \cup {buffer_num}
        /\ owed' = owed \cup {buffer_num} /\ done' = done \ {buffer_num}
    BY <1>2 DEF Receive
  <2>2. \A c : ~ReceivingInto(c)' BY <2>1 DEF ReceivingInto
  <2>3. ReceivingInto(buffer_num) BY <1>1 DEF ReceivingInto
  <2>4. TypeOK' BY <1>1, <2>1 DEF TypeOK, Marks, log, main
  <2>5. InFrame' BY <2>1 DEF InFrame
  <2>6. Sound'
    <3>1. ASSUME NEW c \in Buffers \ tainted, complete'[c] = COMPLETE
          PROVE  active[c] = 1 /\ c \in whole'
      <4>1. CASE c = buffer_num BY <4>1, <2>1, <2>3, <3>1 DEF Receiving
      <4>2. CASE c # buffer_num
        BY <4>2, <1>1, <2>1, <3>1 DEF Sound, TypeOK
      <4>3. QED BY <4>1, <4>2
    <3>2. QED BY <1>1, <2>2, <3>1 DEF Sound
  <2>7. Receiving' BY <2>2 DEF Receiving
  <2>8. Scanning'
    <3>1. ASSUME Handling PROVE Visible(i)'
      BY <1>1, <2>1, <3>1 DEF Scanning, Visible, TypeOK, main
    <3>2. ASSUME pc = "free", i \notin tainted PROVE complete'[i] # COMPLETE
      <4>1. i \in Buffers BY <3>2 DEF TypeOK
      <4>2. i # buffer_num BY <2>3, <3>2, <4>1 DEF Receiving
      <4>3. QED BY <1>1, <2>1, <3>2, <4>1, <4>2 DEF Scanning, TypeOK
    <3>3. QED BY <1>1, <3>1, <3>2 DEF Scanning, Handling, main
  <2>9. LogShape' BY <1>1 DEF LogShape, Saving, Booting, log, main
  <2>10. LogSound'
    <3>1. ASSUME NEW c \in Buffers \ (tainted \cup reclaimed)
          PROVE  /\ saved_active[c] = 0 => complete'[c] # COMPLETE
                 /\ pc = "drop_complete" /\ i = c =>
                      complete'[c] = saved_complete[c]
      <4>1. CASE c = buffer_num
        BY <4>1, <2>3, <3>1 DEF LogSound, LogShape, Booting, Saved
      <4>2. CASE c # buffer_num
        BY <4>2, <1>1, <2>1, <3>1 DEF LogSound, TypeOK
      <4>3. QED BY <4>1, <4>2
    <3>2. QED BY <1>1, <2>1, <2>2, <3>1 DEF LogSound, Booting, log, main, Saved
  <2>11. QED BY <2>4, <2>5, <2>6, <2>7, <2>8, <2>9, <2>10
<1>3. CASE ~(prog_counter + 1 >= prog_len)
  <2>1. /\ prog_counter' = prog_counter + 1
        /\ UNCHANGED <<complete, prog_len, progress, whole, owed, done>>
    BY <1>3 DEF Receive
  <2>2. \A c : ReceivingInto(c)' <=> ReceivingInto(c)
    BY <1>1, <2>1 DEF ReceivingInto
  <2>3. TypeOK' BY <1>1, <2>1 DEF TypeOK, log, main
  <2>4. InFrame' BY <1>1, <1>3, <2>1 DEF InFrame
  <2>5. Sound' /\ Receiving' /\ LogSound'
    BY <1>1, <2>1, <2>2 DEF Sound, Receiving, LogSound, Booting, Saved, log, main
  <2>6. Scanning' /\ LogShape'
    BY <1>1, <2>1 DEF Scanning, Handling, Visible, LogShape, Saving, Booting, log, main
  <2>7. QED BY <2>3, <2>4, <2>5, <2>6
<1>4. QED BY <1>2, <1>3

-----------------------------------------------------------------------------
(* The main program *)

(* A step that only moves pc and i, to a place where no buffer is looked   *)
(* at.                                                                     *)
LEMMA StepMove ==
  ASSUME IInv, Call \/ Skip \/ Return
  PROVE  IInv'
<1> USE DEF IInv
<1>1. /\ UNCHANGED <<cells, log, rx, history>>
      /\ pc \in {"app", "scan"} /\ pc' \in {"app", "scan"}
      /\ i' \in 0 .. UART_BUFFER_CNT
      /\ pc' # "scan" => i' \in Buffers
  BY ConstantsAssumption DEF Call, Skip, Return, TypeOK, Buffers
<1>2. TypeOK' BY <1>1 DEF TypeOK, ScanPcs, cells, log, rx, history
<1>3. InFrame' BY <1>1 DEF InFrame, cells, rx
<1>4. Sound' /\ Receiving' /\ LogSound'
  BY <1>1
  DEF Sound, Receiving, LogSound, Booting, Saved, ReceivingInto, cells, log, rx, history
<1>5. Scanning' BY <1>1 DEF Scanning, Handling
<1>6. LogShape' BY <1>1 DEF LogShape, Saving, Booting, log
<1>7. QED BY <1>2, <1>3, <1>4, <1>5, <1>6

LEMMA StepFound == ASSUME IInv, Found PROVE IInv'
<1> USE DEF IInv
<1>1. /\ pc = "scan" /\ pc' = "log_complete" /\ i \in Buffers /\ Visible(i)
      /\ UNCHANGED <<cells, log, rx, i, history>>
  BY ConstantsAssumption DEF Found, TypeOK, Buffers
<1>2. TypeOK'
  <2>1. pc' \in ScanPcs BY <1>1 DEF ScanPcs
  <2>2. QED BY <1>1, <2>1 DEF TypeOK, cells, log, rx, history
<1>3. InFrame' BY <1>1 DEF InFrame, cells, rx
<1>4. Sound' /\ Receiving' /\ LogSound'
  BY <1>1
  DEF Sound, Receiving, LogSound, Booting, Saved, ReceivingInto, cells, log, rx, history
<1>5. Scanning' BY <1>1 DEF Scanning, Handling, Visible, cells
<1>6. LogShape' BY <1>1 DEF LogShape, Saving, Booting, log
<1>7. QED BY <1>2, <1>3, <1>4, <1>5, <1>6

(* Saving the mark: if it is COMPLETE, soundness makes it worth saving.    *)
LEMMA StepSaveComplete ==
  ASSUME IInv, NEW b \in Buffers, ForeignLogComplete(b) \/ (i = b /\ LogComplete)
  PROVE  IInv'
<1> USE DEF IInv
<1>1. /\ pc \in {"log_complete", "app"} /\ i' = b
      /\ pc' \in {"foreign", "log_active"}
      /\ pc = "log_complete" => i = b
      /\ pc' = "foreign" <=> pc = "app"
      /\ UNCHANGED <<cells, saved_active, rx, whole, owed, done, reclaimed,
                     tainted, erased>>
      /\ misled' \subseteq Buffers
  BY DEF ForeignLogComplete, LogComplete, Saving, TypeOK, history
<1>2. IF Saving' THEN saved_complete' = Save(saved_complete, complete, b)
                 ELSE saved_complete' = saved_complete
  BY DEF ForeignLogComplete, LogComplete, Saving
<1>3. /\ saved_complete' \in [Buffers -> {NotSaved} \cup Marks]
      /\ \A c \in Buffers \ {b} : saved_complete'[c] = saved_complete[c]
      /\ saved_complete'[b] = saved_complete[b]
           \/ (saved_complete[b] = NotSaved /\ saved_complete'[b] = complete[b])
  BY <1>2 DEF Save, TypeOK
<1>4. TypeOK'
  <2>1. pc' \in ScanPcs \cup {"app", "foreign"} BY <1>1 DEF ScanPcs
  <2>2. b \in 0 .. UART_BUFFER_CNT BY ConstantsAssumption DEF Buffers
  <2>3. QED BY <1>1, <1>3, <2>1, <2>2 DEF TypeOK, cells, rx
<1>5. InFrame' BY <1>1 DEF InFrame, cells, rx
<1>6. Sound' /\ Receiving'
  BY <1>1 DEF Sound, Receiving, ReceivingInto, cells, rx
<1>7. Scanning'
  BY <1>1 DEF Scanning, Handling, Visible, cells
<1>8. LogShape'
  <2>1. complete[b] # NotSaved
    BY ConstantsAssumption DEF TypeOK, Marks, NotSaved
  <2>2. Saving' => saved_complete'[b] # NotSaved
    BY <1>2, <2>1 DEF Save, TypeOK
  <2>3. ASSUME NEW c \in Buffers
        PROVE  /\ saved_active[c] # NotSaved => saved_complete'[c] # NotSaved
               /\ saved_complete'[c] # NotSaved /\ saved_active[c] = NotSaved
                    => Saving' /\ b = c
    <3>1. CASE c = b
      <4>1. saved_active[b] # NotSaved => saved_complete'[b] # NotSaved
        BY <1>3 DEF LogShape
      <4>2. CASE Saving' BY <3>1, <4>1, <4>2
      <4>3. CASE ~Saving'
        <5>1. saved_complete' = saved_complete BY <1>2, <4>3
        <5>2. ~Booting /\ ~Saving BY <1>1 DEF Saving, Booting
        <5>3. QED BY <3>1, <5>1, <5>2 DEF LogShape
      <4>4. QED BY <4>2, <4>3
    <3>2. CASE c # b
      <4>1. ~Booting /\ ~Saving BY <1>1 DEF Saving, Booting
      <4>2. QED BY <3>2, <1>3, <4>1 DEF LogShape
    <3>3. QED BY <3>1, <3>2
  <2>4. QED BY <1>1, <2>2, <2>3 DEF LogShape
<1>9. LogSound'
  <2>1. ASSUME NEW c \in Buffers \ (tainted \cup reclaimed),
               saved_complete'[c] = COMPLETE
        PROVE  /\ c \in whole /\ ~ReceivingInto(c)
               /\ saved_active[c] = 1
                    \/ (saved_active[c] = NotSaved /\ active[c] = 1)
    <3>1. CASE saved_complete'[c] = saved_complete[c]
      BY <2>1, <3>1 DEF LogSound, Booting
    <3>2. CASE saved_complete'[c] # saved_complete[c]
      <4>1. c = b /\ saved_complete[c] = NotSaved /\ complete[c] = COMPLETE
        BY <1>3, <2>1, <3>2
      <4>2. saved_active[c] = NotSaved BY <4>1 DEF LogShape
      <4>3. QED BY <2>1, <4>1, <4>2 DEF Sound
    <3>3. QED BY <3>1, <3>2
  <2>2. QED BY <1>1, <2>1 DEF LogSound, Booting, ReceivingInto, cells, rx
<1>10. QED BY <1>4, <1>5, <1>6, <1>7, <1>8, <1>9

(* Saving active: it is 1 where the mark was saved as COMPLETE.            *)
LEMMA StepSaveActive ==
  ASSUME IInv, LogActive \/ ForeignLogActive
  PROVE  IInv'
<1> USE DEF IInv
<1>1. /\ pc \in {"log_active", "foreign"} /\ i \in Buffers /\ i' \in Buffers
      /\ pc' \in {"app", "handle"}
      /\ pc' = "handle" => i' = i /\ Handling
      /\ UNCHANGED <<cells, saved_complete, rx, history>>
  BY ConstantsAssumption
  DEF LogActive, ForeignLogActive, TypeOK, Buffers, Handling
<1>2. IF Saving THEN saved_active' = Save(saved_active, active, i)
                ELSE saved_active' = saved_active
  BY DEF LogActive, ForeignLogActive, Saving
<1>3. /\ saved_active' \in [Buffers -> {NotSaved, 0, 1}]
      /\ \A c \in Buffers \ {i} : saved_active'[c] = saved_active[c]
      /\ saved_active'[i] = saved_active[i]
           \/ (saved_active[i] = NotSaved /\ saved_active'[i] = active[i])
  BY <1>1, <1>2 DEF Save, TypeOK
<1>4. TypeOK'
  <2>1. pc' \in ScanPcs \cup {"app", "foreign"} BY <1>1 DEF ScanPcs
  <2>2. i' \in 0 .. UART_BUFFER_CNT BY <1>1, ConstantsAssumption DEF Buffers
  <2>3. QED BY <1>1, <1>3, <2>1, <2>2 DEF TypeOK, cells, rx, history
<1>5. InFrame' BY <1>1 DEF InFrame, cells, rx
<1>6. Sound' /\ Receiving'
  BY <1>1 DEF Sound, Receiving, ReceivingInto, cells, rx, history
<1>7. Scanning' BY <1>1 DEF Scanning, Handling, Visible, cells
<1>8. LogShape'
  <2>1. ~Saving' BY <1>1 DEF Saving
  <2>2. ASSUME NEW c \in Buffers
        PROVE  saved_active'[c] # NotSaved <=> saved_complete[c] # NotSaved
    <3>1. ~Booting BY <1>1 DEF Booting
    <3>2. CASE c = i /\ Saving
      <4>1. active[i] # NotSaved BY <1>1 DEF TypeOK, NotSaved
      <4>2. saved_active'[i] # NotSaved
        BY <1>1, <1>2, <3>2, <4>1 DEF Save, TypeOK
      <4>3. QED BY <3>2, <4>2 DEF LogShape
    <3>3. CASE ~(c = i /\ Saving)
      <4>1. saved_active'[c] = saved_active[c] BY <1>2, <1>3, <3>3
      <4>2. QED BY <3>1, <3>3, <4>1 DEF LogShape
    <3>4. QED BY <3>2, <3>3
  <2>3. QED BY <1>1, <2>1, <2>2 DEF LogShape
<1>9. LogSound'
  <2>1. ASSUME NEW c \in Buffers \ (tainted \cup reclaimed),
               saved_complete[c] = COMPLETE
        PROVE  /\ c \in whole /\ ~ReceivingInto(c)
               /\ saved_active'[c] = 1
                    \/ (saved_active'[c] = NotSaved /\ active[c] = 1)
    <3>1. /\ c \in whole /\ ~ReceivingInto(c)
          /\ saved_active[c] = 1
               \/ (saved_active[c] = NotSaved /\ active[c] = 1)
      BY <2>1 DEF LogSound, Booting
    <3>2. CASE c = i
      <4>1. saved_active'[c] = saved_active[c]
            \/ (saved_active[c] = NotSaved /\ saved_active'[c] = active[c])
        BY <1>3, <3>2
      <4>2. saved_active[c] = 1 => saved_active'[c] = 1
        BY <4>1 DEF NotSaved
      <4>3. QED BY <3>1, <4>1, <4>2
    <3>3. CASE c # i BY <3>1, <3>3, <1>3
    <3>4. QED BY <3>2, <3>3
  <2>2. ASSUME NEW c \in Buffers \ (tainted \cup reclaimed),
               saved_active'[c] = 0
        PROVE  complete[c] # COMPLETE /\ ~ReceivingInto(c)
    <3>1. CASE saved_active[c] = 0 BY <2>2, <3>1 DEF LogSound
    <3>2. CASE saved_active[c] # 0
      <4>1. c = i /\ active[c] = 0 BY <1>3, <2>2, <3>2
      <4>2. QED BY <2>2, <4>1 DEF Sound, Receiving
    <3>3. QED BY <3>1, <3>2
  <2>3. QED
    BY <1>1, <2>1, <2>2
    DEF LogSound, Booting, ReceivingInto, cells, rx, history
<1>10. QED BY <1>4, <1>5, <1>6, <1>7, <1>8, <1>9

LEMMA StepHandle == ASSUME IInv, Handle PROVE IInv'
<1> USE DEF IInv
<1>1. /\ pc = "handle" /\ pc' = "clear" /\ i \in Buffers
      /\ done' = done \cup {i}
      /\ UNCHANGED <<cells, log, rx, i, whole, owed, reclaimed, tainted,
                     misled, erased>>
  BY DEF Handle, TypeOK
<1>2. TypeOK'
  <2>1. pc' \in ScanPcs BY <1>1 DEF ScanPcs
  <2>2. QED BY <1>1, <2>1 DEF TypeOK, cells, log, rx
<1>3. InFrame' BY <1>1 DEF InFrame, cells, rx
<1>4. Sound' /\ Receiving' /\ LogSound'
  BY <1>1 DEF Sound, Receiving, LogSound, Booting, Saved, ReceivingInto, cells, log, rx
<1>5. Scanning' BY <1>1 DEF Scanning, Handling, Visible, cells
<1>6. LogShape' BY <1>1 DEF LogShape, Saving, Booting, log
<1>7. QED BY <1>2, <1>3, <1>4, <1>5, <1>6

(* A cleared mark says nothing, and nobody receives into a buffer that was *)
(* visible.                                                                *)
LEMMA StepClearComplete == ASSUME IInv, ClearComplete PROVE IInv'
<1> USE DEF IInv
<1>1. /\ pc = "clear" /\ pc' = "free" /\ i \in Buffers
      /\ complete' = [complete EXCEPT ![i] = CLEARED]
      /\ UNCHANGED <<active, full_len, log, rx, i, history>>
  BY DEF ClearComplete, TypeOK
<1>2. complete'[i] # COMPLETE /\ \A b \in Buffers \ {i} : complete'[b] = complete[b]
  BY <1>1, ConstantsAssumption DEF TypeOK
<1>3. TypeOK'
  <2>1. pc' \in ScanPcs BY <1>1 DEF ScanPcs
  <2>2. QED BY <1>1, <2>1 DEF TypeOK, Marks, log, rx, history
<1>4. InFrame' BY <1>1 DEF InFrame, rx
<1>5. Sound' BY <1>1, <1>2 DEF Sound, ReceivingInto, rx, history
<1>6. Receiving'
  <2>1. i \notin tainted => ~ReceivingInto(i)
    BY <1>1 DEF Scanning, Handling, Visible, Sound
  <2>2. QED BY <1>1, <2>1 DEF Receiving, ReceivingInto, rx, history
<1>7. Scanning' BY <1>1, <1>2 DEF Scanning, Handling
<1>8. LogShape' BY <1>1 DEF LogShape, Saving, Booting, log
<1>9. LogSound'
  BY <1>1, <1>2 DEF LogSound, Booting, Saved, ReceivingInto, log, rx, history
<1>10. QED BY <1>3, <1>4, <1>5, <1>6, <1>7, <1>8, <1>9

(* The buffer that is freed holds no mark, and its flags are saved         *)
(* together or not at all.                                                 *)
LEMMA StepClearActive == ASSUME IInv, ClearActive PROVE IInv'
<1> USE DEF IInv
<1>1. /\ pc = "free" /\ pc' = "scan" /\ i \in Buffers /\ i' = i + 1
      /\ active' = [active EXCEPT ![i] = 0]
      /\ UNCHANGED <<complete, full_len, log, rx, history>>
  BY DEF ClearActive, TypeOK
<1>2. \A b \in Buffers \ {i} : active'[b] = active[b]
  BY <1>1 DEF TypeOK
<1>3. TypeOK'
  <2>1. i' \in 0 .. UART_BUFFER_CNT BY <1>1, ConstantsAssumption DEF Buffers
  <2>2. pc' \in ScanPcs BY <1>1 DEF ScanPcs
  <2>3. QED BY <1>1, <2>1, <2>2 DEF TypeOK, log, rx, history
<1>4. InFrame' BY <1>1 DEF InFrame, rx
<1>5. Sound' BY <1>1, <1>2 DEF Sound, Scanning, ReceivingInto, rx, history
<1>6. Receiving' BY <1>1, <1>2 DEF Receiving, ReceivingInto, rx, history
<1>7. Scanning' BY <1>1 DEF Scanning, Handling
<1>8. LogShape' BY <1>1 DEF LogShape, Saving, Booting, log
<1>9. LogSound'
  <2>1. ASSUME NEW b \in Buffers \ (tainted \cup reclaimed),
               saved_complete[b] = COMPLETE
        PROVE  saved_active[b] # NotSaved
    <3>1. saved_complete[b] # NotSaved
      BY <2>1, ConstantsAssumption DEF NotSaved
    <3>2. QED BY <1>1, <3>1 DEF LogShape, Saving, Booting
  <2>2. QED
    BY <1>1, <2>1 DEF LogSound, Booting, Saved, ReceivingInto, log, rx, history
<1>10. QED BY <1>3, <1>4, <1>5, <1>6, <1>7, <1>8, <1>9

LEMMA StepCommit == ASSUME IInv, Commit PROVE IInv'
<1> USE DEF IInv
<1>1. /\ pc = "app"
      /\ saved_active' = [b \in Buffers |-> NotSaved]
      /\ saved_complete' = [b \in Buffers |-> NotSaved]
      /\ owed' = owed \ done /\ done' = {} /\ reclaimed' = {} /\ misled' = {}
      /\ UNCHANGED <<cells, rx, main, whole, tainted, erased>>
  BY DEF Commit
<1>2. TypeOK' BY <1>1 DEF TypeOK, cells, rx, main
<1>3. InFrame' BY <1>1 DEF InFrame, cells, rx
<1>4. Sound' /\ Receiving'
  BY <1>1 DEF Sound, Receiving, ReceivingInto, cells, rx, main
<1>5. Scanning' BY <1>1 DEF Scanning, Handling, main
<1>6. LogShape' BY <1>1 DEF LogShape, Saving, Booting, main
<1>7. LogSound'
  BY <1>1, ConstantsAssumption DEF LogSound, Booting, NotSaved, main
<1>8. QED BY <1>2, <1>3, <1>4, <1>5, <1>6, <1>7

-----------------------------------------------------------------------------
(* Power failures *)

LEMMA StepCrash == ASSUME IInv, Crash PROVE IInv'
<1> USE DEF IInv
<1>1. /\ progress' = "wait_esp0" /\ prog_len' = 0 /\ prog_counter' = 0
      /\ buffer_num' = -1 /\ pc' = "boot" /\ i' = 0 /\ done' = {}
      /\ UNCHANGED <<cells, log, whole, owed, reclaimed, tainted, misled,
                     erased>>
  BY DEF Crash
<1>2. TypeOK'
  BY <1>1, ConstantsAssumption DEF TypeOK, cells, log, Buffers
<1>3. \A b : ~ReceivingInto(b)' BY <1>1 DEF ReceivingInto
<1>4. InFrame' BY <1>1 DEF InFrame
<1>5. Sound' /\ Receiving' /\ LogSound'
  BY <1>1, <1>3 DEF Sound, Receiving, LogSound, Booting, cells, log
<1>6. Scanning' BY <1>1 DEF Scanning, Handling
<1>7. LogShape' BY <1>1 DEF LogShape, Saving, Booting, log
<1>8. QED BY <1>2, <1>4, <1>5, <1>6, <1>7

(* active comes back: of a buffer that was not claimed again it was 1, or  *)
(* nothing has come in since.                                              *)
LEMMA StepPutBackActive ==
  ASSUME IInv, NEW b \in Buffers, PutBackActive(b)
  PROVE  IInv'
<1> USE DEF IInv
<1>1. /\ pc = "boot" /\ pc' = "drop_active" /\ i' = b
      /\ saved_active[b] # NotSaved
      /\ active' = [active EXCEPT ![b] = saved_active[b]]
      /\ tainted' = IF b \in reclaimed THEN tainted \cup {b} ELSE tainted
      /\ erased' \subseteq erased \cup {b}
      /\ UNCHANGED <<complete, full_len, log, rx, whole, owed, done, reclaimed,
                     misled>>
  BY DEF PutBackActive, PutBackHistory
<1>2. /\ active'[b] = saved_active[b] /\ saved_active[b] \in {0, 1}
      /\ \A c \in Buffers \ {b} : active'[c] = active[c]
      /\ \A c : ReceivingInto(c)' <=> ReceivingInto(c)
  BY <1>1 DEF TypeOK, ReceivingInto, rx
<1>3. TypeOK'
  <2>1. b \in 0 .. UART_BUFFER_CNT BY ConstantsAssumption DEF Buffers
  <2>2. QED BY <1>1, <1>2, <2>1 DEF TypeOK, log, rx
<1>4. InFrame' BY <1>1 DEF InFrame, rx
<1>5. Sound'
  <2>1. b \notin tainted' => b \in Buffers \ (tainted \cup reclaimed) BY <1>1
  <2>2. QED BY <1>1, <1>2, <2>1 DEF Sound, LogSound
<1>6. Receiving'
  <2>1. b \notin tainted' /\ ReceivingInto(b) => active'[b] = 1
    BY <1>1, <1>2 DEF LogSound, Booting, Saved
  <2>2. QED BY <1>1, <1>2, <2>1 DEF Receiving
<1>7. Scanning' BY <1>1 DEF Scanning, Handling
<1>8. LogShape' BY <1>1 DEF LogShape, Saving, Booting, log
<1>9. LogSound'
  BY <1>1, <1>2 DEF LogSound, LogShape, Booting, Saved, log
<1>10. QED BY <1>3, <1>4, <1>5, <1>6, <1>7, <1>8, <1>9

(* Then the mark comes back, to a buffer that is active again.             *)
LEMMA StepPutBackComplete ==
  ASSUME IInv, NEW b \in Buffers, PutBackComplete(b)
  PROVE  IInv'
<1> USE DEF IInv
<1>1. /\ pc = "boot" /\ pc' = "drop_complete" /\ i' = b
      /\ saved_active[b] = NotSaved /\ saved_complete[b] # NotSaved
      /\ complete' = [complete EXCEPT ![b] = saved_complete[b]]
      /\ tainted' = IF b \in reclaimed THEN tainted \cup {b} ELSE tainted
      /\ erased' \subseteq erased \cup {b}
      /\ UNCHANGED <<active, full_len, log, rx, whole, owed, done, reclaimed,
                     misled>>
  BY DEF PutBackComplete, PutBackHistory
<1>2. /\ complete'[b] = saved_complete[b] /\ saved_complete[b] \in Marks
      /\ \A c \in Buffers \ {b} : complete'[c] = complete[c]
      /\ \A c : ReceivingInto(c)' <=> ReceivingInto(c)
  BY <1>1 DEF TypeOK, ReceivingInto, rx
<1>3. TypeOK'
  <2>1. b \in 0 .. UART_BUFFER_CNT BY ConstantsAssumption DEF Buffers
  <2>2. QED BY <1>1, <1>2, <2>1 DEF TypeOK, log, rx
<1>4. InFrame' BY <1>1 DEF InFrame, rx
<1>5. Sound'
  <2>1. b \notin tainted' => b \in Buffers \ (tainted \cup reclaimed) BY <1>1
  <2>2. ASSUME b \notin tainted', complete'[b] = COMPLETE
        PROVE  active[b] = 1 /\ b \in whole /\ ~ReceivingInto(b)
    <3>1. saved_complete[b] = COMPLETE /\ saved_active[b] # 1
      BY <1>1, <1>2, <2>2 DEF NotSaved
    <3>2. QED BY <2>1, <2>2, <3>1 DEF LogSound
  <2>3. QED BY <1>1, <1>2, <2>2 DEF Sound
<1>6. Receiving' BY <1>1, <1>2 DEF Receiving
<1>7. Scanning' BY <1>1 DEF Scanning, Handling
<1>8. LogShape' BY <1>1 DEF LogShape, Saving, Booting, log
<1>9. LogSound'
  BY <1>1, <1>2 DEF LogSound, LogShape, Booting, Saved, NotSaved, log
<1>10. QED BY <1>3, <1>4, <1>5, <1>6, <1>7, <1>8, <1>9

LEMMA StepDrop == ASSUME IInv, DropActive \/ DropComplete PROVE IInv'
<1> USE DEF IInv
<1>1. /\ pc \in {"drop_active", "drop_complete"} /\ pc' = "boot" /\ i' = 0
      /\ i \in Buffers
      /\ UNCHANGED <<cells, rx, history>>
      /\ saved_active' = IF pc = "drop_active"
           THEN [saved_active EXCEPT ![i] = NotSaved] ELSE saved_active
      /\ saved_complete' = IF pc = "drop_complete"
           THEN [saved_complete EXCEPT ![i] = NotSaved] ELSE saved_complete
  BY DEF DropActive, DropComplete, TypeOK
<1>2. /\ pc = "drop_active" =>
           /\ saved_active'[i] = NotSaved
           /\ \A c \in Buffers \ {i} : saved_active'[c] = saved_active[c]
      /\ pc = "drop_complete" =>
           /\ saved_complete'[i] = NotSaved /\ saved_active[i] = NotSaved
           /\ \A c \in Buffers \ {i} : saved_complete'[c] = saved_complete[c]
  BY <1>1 DEF TypeOK, LogShape
<1>3. TypeOK'
  <2>1. /\ saved_active' \in [Buffers -> {NotSaved, 0, 1}]
        /\ saved_complete' \in [Buffers -> {NotSaved} \cup Marks]
    BY <1>1 DEF TypeOK
  <2>2. 0 \in Buffers /\ 0 \in 0 .. UART_BUFFER_CNT
    BY ConstantsAssumption DEF Buffers
  <2>3. QED BY <1>1, <2>1, <2>2 DEF TypeOK, cells, rx, history
<1>4. InFrame' BY <1>1 DEF InFrame, cells, rx
<1>5. Sound' /\ Receiving'
  BY <1>1 DEF Sound, Receiving, ReceivingInto, cells, rx, history
<1>6. Scanning' BY <1>1 DEF Scanning, Handling
<1>7. LogShape' BY <1>1, <1>2 DEF LogShape, Saving, Booting
<1>8. LogSound'
  <2>1. ASSUME NEW c \in Buffers \ (tainted \cup reclaimed)
        PROVE  /\ saved_complete'[c] = COMPLETE =>
                    /\ c \in whole /\ ~ReceivingInto(c)
                    /\ saved_active'[c] = 1
                         \/ (saved_active'[c] = NotSaved /\ active[c] = 1)
               /\ saved_active'[c] = 0 =>
                    complete[c] # COMPLETE /\ ~ReceivingInto(c)
               /\ ReceivingInto(c) => ~Saved(c)'
    <3>1. CASE c = i /\ pc = "drop_active"
      BY <1>1, <1>2, <2>1, <3>1, ConstantsAssumption
      DEF LogSound, Booting, Saved, NotSaved
    <3>2. CASE c = i /\ pc = "drop_complete"
      BY <1>1, <1>2, <2>1, <3>2, ConstantsAssumption
      DEF LogSound, Booting, Saved, NotSaved
    <3>3. CASE c # i
      BY <1>1, <1>2, <2>1, <3>3 DEF LogSound, Booting, Saved
    <3>4. QED BY <1>1, <3>1, <3>2, <3>3
  <2>2. QED
    BY <1>1, <2>1 DEF LogSound, Booting, ReceivingInto, cells, rx, history
<1>9. QED BY <1>3, <1>4, <1>5, <1>6, <1>7, <1>8

LEMMA StepRestore == ASSUME IInv, Restore PROVE IInv'
<1> USE DEF IInv
<1>1. /\ pc = "boot" /\ pc' = "app"
      /\ \A b \in Buffers : ~Saved(b)
      /\ reclaimed' = {} /\ misled' = {}
      /\ UNCHANGED <<cells, log, rx, i, whole, owed, done, tainted, erased>>
  BY DEF Restore
<1>2. TypeOK' BY <1>1 DEF TypeOK, cells, log, rx
<1>3. InFrame' BY <1>1 DEF InFrame, cells, rx
<1>4. Sound' /\ Receiving'
  BY <1>1 DEF Sound, Receiving, ReceivingInto, cells, rx
<1>5. Scanning' BY <1>1 DEF Scanning, Handling
<1>6. LogShape' BY <1>1 DEF LogShape, Saving, Booting, Saved, log
<1>7. LogSound'
  BY <1>1, ConstantsAssumption DEF LogSound, Booting, Saved, NotSaved, log
<1>8. QED BY <1>2, <1>3, <1>4, <1>5, <1>6, <1>7

-----------------------------------------------------------------------------
(* Every step *)

LEMMA NextIInv == ASSUME IInv, [Next]_vars PROVE IInv'
<1>1. CASE \E data \in Byte : HandleProgress(data)
  <2>1. PICK data \in Byte : HandleProgress(data) BY <1>1
  <2>2. CASE WaitEsp0(data) \/ WaitEsp1(data) \/ RejectLen(data) \/ NoBuffer(data)
    BY <2>2, StepOutside
  <2>3. CASE \E b \in Buffers : Claim(data, b) BY <2>3, StepClaim
  <2>4. CASE Receive(data) BY <2>4, StepReceive
  <2>5. QED BY <2>1, <2>2, <2>3, <2>4 DEF HandleProgress
<1>2. CASE Call \/ ProcessUart
  <2>1. CASE Call \/ Skip \/ Return BY <2>1, StepMove
  <2>2. CASE LogComplete
    <3>1. i \in Buffers BY <2>2 DEF LogComplete, IInv, TypeOK
    <3>2. QED BY <2>2, <3>1, StepSaveComplete
  <2>3. CASE LogActive BY <2>3, StepSaveActive
  <2>4. QED
    BY <1>2, <2>1, <2>2, <2>3, StepFound, StepHandle, StepClearComplete,
       StepClearActive
    DEF ProcessUart
<1>3. CASE ProcessOther
  BY <1>3, StepSaveComplete, StepSaveActive DEF ProcessOther
<1>4. CASE UNCHANGED vars
  BY <1>4
  DEF vars, cells, log, rx, main, history, IInv, TypeOK, InFrame, Sound,
      Receiving, Scanning, LogShape, LogSound, Booting, Saving, Saved, Handling, Visible,
      ReceivingInto
<1>5. QED
  BY <1>1, <1>2, <1>3, <1>4, StepCommit, StepCrash, StepPutBackActive,
     StepPutBackComplete, StepDrop, StepRestore
  DEF Next, Recover

(* Every reachable state of a link satisfies the inductive invariant.      *)
THEOREM SpecIInv == Spec => []IInv
<1>1. Init => IInv BY InitIInv
<1>2. IInv /\ [Next]_vars => IInv' BY NextIInv
<1>3. QED BY <1>1, <1>2, PTL DEF Spec

(* The variables keep their types (TypeOK).                                *)
THEOREM TypeCorrect == Spec => []TypeOK
<1>1. IInv => TypeOK BY DEF IInv
<1>2. QED BY <1>1, SpecIInv, PTL

(* The receive interrupt never stores outside the frame it announced,      *)
(* whatever process_uart<n> and power failures do meanwhile, nor outside   *)
(* pkt.msg if the longest frame accepted fits there (LinkFitsAssumption).  *)
THEOREM NoOverrun == Spec => []ReceivesInBounds
<1>1. ASSUME IInv PROVE ReceivesInBounds
  BY <1>1, ConstantsAssumption, LinkFitsAssumption
  DEF IInv, TypeOK, InFrame, ReceivesInBounds, MsgIndex, MsgSize
<1>2. QED BY <1>1, SpecIInv, PTL

(* The frame that process_uart<n> handles is whole and is not written to   *)
(* meanwhile, in an untainted buffer: so with any number of buffers the    *)
(* two windows that taint a buffer are the only ways to a torn frame.      *)
THEOREM WholeFrames == Spec => []HandledFrameIsWhole
<1>1. ASSUME IInv PROVE HandledFrameIsWhole
  <2>1. SUFFICES ASSUME Handling, i \notin tainted
                 PROVE  i \in whole /\ ~ReceivingInto(i)
    BY DEF HandledFrameIsWhole
  <2>2. i \in Buffers /\ complete[i] = COMPLETE
    BY <1>1, <2>1 DEF IInv, TypeOK, Scanning, Handling, Visible
  <2>3. QED BY <1>1, <2>1, <2>2 DEF IInv, Sound
<1>2. QED BY <1>1, SpecIInv, PTL

(* A buffer that is lost to the pool, complete but not active, is tainted. *)
THEOREM NoBufferLost == Spec => []NoOrphan
<1>1. IInv => NoOrphan BY DEF IInv, Sound, NoOrphan
<1>2. QED BY <1>1, SpecIInv, PTL

-----------------------------------------------------------------------------
(* Keeping frames *)

LEMMA InitKeeping == ASSUME Init PROVE Keeping
  BY DEF Init, Keeping, Booting

LEMMA OutsideKeeping ==
  ASSUME Keeping, UNCHANGED <<cells, log, main, history>>
  PROVE  Keeping'
  BY DEF Keeping, Booting, Visible, cells, log, main, history

LEMMA ClaimKeeping ==
  ASSUME IInv, Keeping, NEW data \in Byte, NEW b \in Buffers, Claim(data, b)
  PROVE  Keeping'
<1> USE DEF IInv
<1>1. /\ ~Visible(b)
      /\ active' = [active EXCEPT ![b] = 1]
      /\ \A c \in Buffers \ {b} : c \in tainted' <=> c \in tainted
      /\ UNCHANGED <<complete, log, main, done, misled>>
  BY DEF Claim
<1>2. ASSUME pc = "clear", i \notin tainted' PROVE i \in done
  <2>1. i # b /\ i \in Buffers BY <1>1, <1>2 DEF Scanning, Handling, TypeOK
  <2>2. QED BY <1>1, <1>2, <2>1 DEF Keeping
<1>3. pc = "foreign" /\ Visible(i) => Visible(i)'
  BY <1>1 DEF Visible, TypeOK, main
<1>4. QED BY <1>1, <1>2, <1>3 DEF Keeping, Booting, log, main

LEMMA ReceiveKeeping ==
  ASSUME IInv, Keeping, NEW data \in Byte, Receive(data)
  PROVE  Keeping'
<1> USE DEF IInv
<1>1. /\ ReceivingInto(buffer_num) /\ buffer_num \in Buffers
      /\ complete' \in {complete, [complete EXCEPT ![buffer_num] = COMPLETE]}
      /\ done' \in {done, done \ {buffer_num}}
      /\ UNCHANGED <<active, log, main, tainted, misled>>
  BY DEF Receive, InFrame, ReceivingInto
<1>2. ASSUME pc = "clear", i \notin tainted PROVE i \in done'
  <2>1. i \in Buffers /\ complete[i] = COMPLETE
    BY <1>2 DEF Scanning, Handling, Visible, TypeOK
  <2>2. i # buffer_num BY <1>1, <1>2, <2>1 DEF Sound
  <2>3. QED BY <1>1, <1>2, <2>2 DEF Keeping
<1>3. pc = "foreign" /\ Visible(i) => Visible(i)'
  BY <1>1 DEF Visible, TypeOK, main
<1>4. QED BY <1>1, <1>2, <1>3 DEF Keeping, Booting, log, main

(* process_uart<n> saves complete, active buffers.                         *)
LEMMA SaveKeeping ==
  ASSUME IInv, Keeping, Found \/ LogComplete \/ LogActive \/ Handle
  PROVE  Keeping'
<1> USE DEF IInv
<1>1. /\ pc \in {"scan", "log_complete", "log_active", "handle"}
      /\ pc' \in {"log_complete", "log_active", "handle", "clear"}
      /\ pc' = "clear" => i \in done'
      /\ UNCHANGED <<cells, i, tainted, misled>>
      /\ i \in Buffers
  BY ConstantsAssumption
  DEF Found, LogComplete, LogActive, Handle, TypeOK, Buffers, history
<1>2. ASSUME pc # "scan" PROVE complete[i] = COMPLETE /\ active[i] = 1
  BY <1>1, <1>2 DEF Scanning, Handling, Visible, TypeOK
<1>3. \A b \in Buffers :
        /\ saved_complete'[b] = saved_complete[b]
             \/ (saved_complete'[b] = complete[b] /\ b = i /\ pc # "scan")
        /\ saved_active'[b] = saved_active[b]
             \/ (saved_active'[b] = active[b] /\ b = i /\ pc # "scan")
  <2>1. CASE Found \/ Handle BY <2>1 DEF Found, Handle, log
  <2>2. CASE LogComplete BY <2>2 DEF LogComplete, Save, TypeOK
  <2>3. CASE LogActive BY <2>3 DEF LogActive, Save, TypeOK
  <2>4. QED BY <2>1, <2>2, <2>3
<1>4. QED BY <1>1, <1>2, <1>3 DEF Keeping, Booting

(* The other link's handler saves complete, active buffers, or misleads.   *)
LEMMA ForeignKeeping ==
  ASSUME IInv, Keeping, ProcessOther
  PROVE  Keeping'
<1> USE DEF IInv
<1>1. CASE \E b \in Buffers : ForeignLogComplete(b)
  <2>1. PICK b \in Buffers : ForeignLogComplete(b) BY <1>1
  <2>2. /\ pc = "app" /\ pc' = "foreign" /\ i' = b
        /\ misled \subseteq misled'
        /\ UNCHANGED <<cells, saved_active>>
        /\ \A c \in Buffers \ {b} : saved_complete'[c] = saved_complete[c]
        /\ saved_complete'[b] = IF saved_complete[b] = NotSaved
                                THEN complete[b] ELSE saved_complete[b]
        /\ b \notin misled' => Visible(b) \/ Saved(b)
    BY <2>1 DEF ForeignLogComplete, Save, TypeOK
  <2>3. Saved(b) => saved_active[b] # NotSaved /\ saved_complete[b] # NotSaved
    BY <2>2 DEF LogShape, Saved, Saving, Booting
  <2>4. QED BY <2>2, <2>3 DEF Keeping, Booting, Visible, cells
<1>2. CASE ForeignLogActive
  <2>1. /\ pc = "foreign" /\ pc' = "app" /\ i \in Buffers
        /\ UNCHANGED <<cells, saved_complete, history>>
        /\ \A c \in Buffers \ {i} : saved_active'[c] = saved_active[c]
        /\ saved_active'[i] = IF saved_active[i] = NotSaved
                              THEN active[i] ELSE saved_active[i]
    BY <1>2 DEF ForeignLogActive, Save, TypeOK
  <2>2. i \notin misled => saved_active'[i] \in {NotSaved, 1}
    BY <2>1 DEF Keeping, Visible, TypeOK
  <2>3. QED BY <2>1, <2>2 DEF Keeping, Booting, history
<1>3. QED BY <1>1, <1>2 DEF ProcessOther

LEMMA NextKeeping == ASSUME IInv, Keeping, [Next]_vars PROVE Keeping'
<1>1. CASE \E data \in Byte : HandleProgress(data)
  <2>1. PICK data \in Byte : HandleProgress(data) BY <1>1
  <2>2. CASE WaitEsp0(data) \/ WaitEsp1(data) \/ RejectLen(data) \/ NoBuffer(data)
    BY <2>2, OutsideKeeping DEF WaitEsp0, WaitEsp1, RejectLen, NoBuffer
  <2>3. CASE \E b \in Buffers : Claim(data, b) BY <2>3, ClaimKeeping
  <2>4. CASE Receive(data) BY <2>4, ReceiveKeeping
  <2>5. QED BY <2>1, <2>2, <2>3, <2>4 DEF HandleProgress
<1>2. CASE Call \/ Skip \/ ClearComplete \/ ClearActive \/ Return
  BY <1>2 DEF Call, Skip, ClearComplete, ClearActive, Return, Keeping, Booting,
              log, history
<1>3. CASE Commit BY <1>3 DEF Commit, Keeping, Booting, main
<1>4. CASE Crash BY <1>4 DEF Crash, Keeping, cells, log
<1>5. CASE Restore
  BY <1>5 DEF Restore, Keeping, Booting, Saved, log
<1>6. CASE Recover
  <2>1. CASE \E b \in Buffers : PutBackActive(b) \/ PutBackComplete(b)
    BY <2>1 DEF PutBackActive, PutBackComplete, Keeping, Booting, log
  <2>2. CASE DropActive \/ DropComplete
    <3>1. /\ pc \in {"drop_active", "drop_complete"} /\ pc' = "boot"
          /\ UNCHANGED history
          /\ \A b \in Buffers :
               /\ saved_active'[b] \in {saved_active[b], NotSaved}
               /\ saved_complete'[b] \in {saved_complete[b], NotSaved}
      BY <2>2 DEF DropActive, DropComplete, IInv, TypeOK
    <3>2. QED BY <3>1 DEF Keeping, Booting, history
  <2>3. QED BY <1>6, <2>1, <2>2 DEF Recover
<1>7. CASE UNCHANGED vars BY <1>7, OutsideKeeping DEF vars
<1>8. QED
  BY <1>1, <1>2, <1>3, <1>4, <1>5, <1>6, <1>7, SaveKeeping, ForeignKeeping
  DEF Next, ProcessUart

(* Steps that only make frames visible, whole or handled.                  *)
LEMMA GrowingLosesNothing ==
  ASSUME UNCHANGED <<active, complete, owed, tainted, erased, whole>>,
         done \subseteq done'
  PROVE  LosesNothing
  BY DEF LosesNothing, Kept, Visible

LEMMA ClaimLosesNothing ==
  ASSUME IInv, NEW data \in Byte, NEW b \in Buffers, Claim(data, b)
  PROVE  LosesNothing
<1>1. /\ ~Visible(b)
      /\ active' = [active EXCEPT ![b] = 1]
      /\ whole' = whole \ {b}
      /\ owed' = IF b \in tainted \cup erased THEN owed \ {b} ELSE owed
      /\ erased' = erased \ {b}
      /\ \A c \in Buffers \ {b} : c \in tainted' <=> c \in tainted
      /\ UNCHANGED <<complete, done>>
  BY DEF Claim
<1>2. ASSUME NEW c \in owed' \ (tainted' \cup erased'), c # b
      PROVE  c \in owed \ (tainted \cup erased) /\ (Kept(c)' <=> Kept(c))
  BY <1>1, <1>2 DEF Kept, Visible, IInv, TypeOK
<1>3. b \in owed' =>
        b \in owed \ (tainted \cup erased) /\ (Kept(b)' \/ ~Kept(b))
  BY <1>1 DEF Kept
<1>4. QED BY <1>2, <1>3 DEF LosesNothing

LEMMA ReceiveLosesNothing ==
  ASSUME IInv, NEW data \in Byte, Receive(data)
  PROVE  LosesNothing
<1>1. ReceivingInto(buffer_num) /\ buffer_num \in Buffers
  BY DEF Receive, ReceivingInto, IInv, InFrame
<1>2. CASE UNCHANGED <<complete, whole, owed, done>>
  BY <1>2, GrowingLosesNothing DEF Receive
<1>3. CASE /\ complete' = [complete EXCEPT ![buffer_num] = COMPLETE]
           /\ whole' = whole \cup {buffer_num}
           /\ owed' = owed \cup {buffer_num} /\ done' = done \ {buffer_num}
  <2>1. UNCHANGED <<active, buffer_num, tainted, erased>> BY DEF Receive
  <2>2. buffer_num \notin tainted => Kept(buffer_num)'
    BY <1>1, <1>3, <2>1
    DEF Kept, Visible, IInv, Receiving, TypeOK
  <2>3. ASSUME NEW c \in owed' \ tainted, c # buffer_num
        PROVE  c \in owed /\ (Kept(c)' <=> Kept(c))
    BY <1>3, <2>1, <2>3 DEF Kept, Visible, IInv, TypeOK
  <2>4. QED BY <2>1, <2>2, <2>3 DEF LosesNothing
<1>4. QED BY <1>2, <1>3 DEF Receive

(* A frame is cleared after it was handled.                                *)
LEMMA ClearLosesNothing ==
  ASSUME IInv, Keeping, ClearComplete \/ ClearActive
  PROVE  LosesNothing
<1>1. /\ pc \in {"clear", "free"} /\ i \in Buffers
      /\ UNCHANGED <<owed, tainted, erased, whole, done>>
      /\ \A b \in Buffers \ {i} :
           complete'[b] = complete[b] /\ active'[b] = active[b]
  BY DEF ClearComplete, ClearActive, IInv, TypeOK, history
<1>2. ASSUME i \notin tainted, Kept(i) PROVE i \in done
  <2>1. pc = "free" => ~Visible(i)
    BY <1>2 DEF IInv, Scanning, Visible
  <2>2. QED BY <1>1, <1>2, <2>1 DEF Keeping, Kept
<1>3. QED
  BY <1>1, <1>2 DEF LosesNothing, Kept, Visible, IInv, TypeOK

LEMMA CommitLosesNothing ==
  ASSUME Commit
  PROVE  LosesNothing
  BY DEF Commit, LosesNothing, Kept, Visible, cells

(* What was saved of a visible buffer that is not misled shows it again.   *)
LEMMA PutBackLosesNothing ==
  ASSUME IInv, Keeping, NEW b \in Buffers, PutBackActive(b) \/ PutBackComplete(b)
  PROVE  LosesNothing
<1>1. /\ UNCHANGED <<owed, whole, done>>
      /\ tainted \subseteq tainted' /\ erased \subseteq erased'
      /\ b \in owed \cap misled => b \in erased'
      /\ \A c \in Buffers \ {b} : active'[c] = active[c] /\ complete'[c] = complete[c]
  BY DEF PutBackActive, PutBackComplete, PutBackHistory, IInv, TypeOK
<1>2. ASSUME b \notin misled, Visible(b) PROVE Visible(b)'
  BY <1>2 DEF PutBackActive, PutBackComplete, Visible, Keeping, IInv, TypeOK
<1>3. QED BY <1>1, <1>2 DEF LosesNothing, Kept, Visible, IInv, TypeOK

LEMMA NextLosesNothing ==
  ASSUME IInv, Keeping, [Next]_vars, ~PowerFails
  PROVE  LosesNothing
<1>1. CASE \E data \in Byte : HandleProgress(data)
  <2>1. PICK data \in Byte : HandleProgress(data) BY <1>1
  <2>2. CASE WaitEsp0(data) \/ WaitEsp1(data) \/ RejectLen(data) \/ NoBuffer(data)
    BY <2>2, GrowingLosesNothing
    DEF WaitEsp0, WaitEsp1, RejectLen, NoBuffer, cells, history
  <2>3. CASE \E b \in Buffers : Claim(data, b) BY <2>3, ClaimLosesNothing
  <2>4. CASE Receive(data) BY <2>4, ReceiveLosesNothing
  <2>5. QED BY <2>1, <2>2, <2>3, <2>4 DEF HandleProgress
<1>2. CASE Call \/ Skip \/ Found \/ LogComplete \/ LogActive \/ Handle \/ Return
  BY <1>2, GrowingLosesNothing
  DEF Call, Skip, Found, LogComplete, LogActive, Handle, Return, cells, history
<1>3. CASE ProcessOther
  BY <1>3, GrowingLosesNothing
  DEF ProcessOther, ForeignLogComplete, ForeignLogActive, cells, history
<1>4. CASE Crash
  <2>1. done = {} BY <1>4 DEF Crash, PowerFails, Keeping
  <2>2. QED BY <1>4, <2>1, GrowingLosesNothing DEF Crash, cells
<1>5. CASE UNCHANGED vars
  BY <1>5, GrowingLosesNothing DEF vars, cells, history
<1>6. CASE DropActive \/ DropComplete \/ Restore
  BY <1>6, GrowingLosesNothing
  DEF DropActive, DropComplete, Restore, cells, history
<1>7. QED
  BY <1>1, <1>2, <1>3, <1>4, <1>5, <1>6, ClearLosesNothing,
     CommitLosesNothing, PutBackLosesNothing
  DEF Next, ProcessUart, Recover

LEMMA SpecKeeping == Spec => []Keeping
<1>1. Init => Keeping BY InitKeeping
<1>2. IInv /\ Keeping /\ [Next]_vars => Keeping' BY NextKeeping
<1>3. QED BY <1>1, <1>2, SpecIInv, PTL DEF Spec

(* On any link, whoever saves its flags, what takes away a frame that was  *)
(* received whole and is not handled is a power failure, or the recovery   *)
(* after it that puts back flags which the other link's handler saved      *)
(* before the frame was complete; no other step does (OnlyPowerLoses).     *)
THEOREM OnlyPowerFailuresLose == Spec => OnlyPowerLoses
<1>1. IInv /\ Keeping /\ [Next]_vars => [~PowerFails => LosesNothing]_vars
  BY NextLosesNothing
<1>2. QED BY <1>1, SpecIInv, SpecKeeping, PTL DEF Spec, OnlyPowerLoses

(* So in a run without power failures every frame that was received whole  *)
(* is visible until it is handled, whoever saves the flags of the link.    *)
THEOREM SteadyLinkLosesNothing ==
  SteadySpec => [](\A b \in owed \ tainted : Kept(b))
<1> DEFINE AllKept == \A b \in owed \ tainted : Kept(b)
<1> DEFINE Steady == ~(pc # "boot" /\ Booting) /\ erased = {}
                      /\ (pc = "boot" => \A b \in Buffers : ~Saved(b))
<1>1. Init => AllKept /\ Steady BY DEF Init, Booting, Saved
<1>2. ASSUME IInv, Steady, [Next /\ ~Crash]_vars PROVE Steady' /\ ~PowerFails
  <2>1. CASE \E data \in Byte : HandleProgress(data)
    BY <1>2, <2>1
    DEF HandleProgress, WaitEsp0, WaitEsp1, RejectLen, NoBuffer, Claim, Receive,
        main, history, log, Saved, PowerFails, Booting
  <2>2. CASE Call \/ ProcessUart \/ ProcessOther \/ Commit
    BY <1>2, <2>2
    DEF Call, ProcessUart, Skip, Found, LogComplete, LogActive, Handle,
        ClearComplete, ClearActive, Return, ProcessOther, ForeignLogComplete,
        ForeignLogActive, Commit, main, history, PowerFails, Booting
  <2>3. ~Recover
    BY <1>2 DEF Recover, PutBackActive, PutBackComplete, DropActive,
                DropComplete, Booting, Saved
  <2>4. CASE Restore
    BY <1>2, <2>4 DEF Restore, PowerFails, Booting
  <2>5. CASE UNCHANGED vars
    BY <1>2, <2>5 DEF vars, main, history, log, Saved, PowerFails, Booting
  <2>6. QED BY <1>2, <2>1, <2>2, <2>3, <2>4, <2>5 DEF Next
<1>3. ASSUME IInv, Keeping, AllKept, Steady, [Next /\ ~Crash]_vars
      PROVE  AllKept' /\ Steady'
  <2>1. LosesNothing BY <1>2, <1>3, NextLosesNothing
  <2>2. QED BY <1>2, <1>3, <2>1 DEF LosesNothing
<1>4. SteadySpec => Spec
  <2>1. [Next /\ ~Crash]_vars => [Next]_vars OBVIOUS
  <2>2. QED BY <2>1, PTL DEF SteadySpec, Spec
<1> HIDE DEF AllKept, Steady
<1>5. SteadySpec => []AllKept
  BY <1>1, <1>3, <1>4, SpecIInv, SpecKeeping, PTL DEF SteadySpec
<1>6. QED BY <1>5 DEF AllKept

-----------------------------------------------------------------------------
(* Delivery *)

LEMMA InitOwed == ASSUME Init PROVE OwedInv
  BY ConstantsAssumption DEF Init, OwedInv, OwnLog, OwedOrDone, AtLeastOnce

LEMMA OutsideOwed ==
  ASSUME OwedInv, UNCHANGED <<cells, log, main, history>>
  PROVE  OwedInv'
  BY DEF OwedInv, OwnLog, OwedOrDone, AtLeastOnce, Booting, Pending, Visible,
         ComesBack, AfterRecovery, cells, log, main, history

(* A buffer that is claimed again is not owed, or was handled and is in    *)
(* the log: then the claim is recorded.                                    *)
LEMMA ClaimOwed ==
  ASSUME IInv, OwedInv, NEW data \in Byte, NEW b \in Buffers, Claim(data, b)
  PROVE  OwedInv'
<1> USE DEF IInv, OwedInv
<1>1. /\ ~Visible(b)
      /\ active' = [active EXCEPT ![b] = 1]
      /\ whole' = whole \ {b}
      /\ reclaimed' = IF Saved(b) THEN reclaimed \cup {b} ELSE reclaimed
      /\ owed' = IF b \in tainted \cup erased THEN owed \ {b} ELSE owed
      /\ erased' = erased \ {b}
      /\ \A c \in Buffers \ {b} : c \in tainted' <=> c \in tainted
      /\ UNCHANGED <<complete, log, main, done, misled>>
  BY DEF Claim
<1>2. OwnLog' BY <1>1 DEF OwnLog, log, main
<1>3. \A c \in Buffers \ {b} :
        (Visible(c)' <=> Visible(c)) /\ (ComesBack(c)' <=> ComesBack(c))
  BY <1>1 DEF Visible, ComesBack, AfterRecovery, log, TypeOK
<1>4. b \in owed' => b \in owed \ (tainted \cup erased) BY <1>1
<1>5. OwedOrDone'
  <2>1. ASSUME NEW c \in owed' \ (tainted' \cup erased')
        PROVE  \/ c \in whole' /\ Visible(c)'
               \/ IF Booting THEN Pending(c) ELSE c \in done
    <3>1. CASE c = b BY <1>1, <1>4, <3>1 DEF OwedOrDone
    <3>2. CASE c # b
      <4>1. c \in owed \ (tainted \cup erased) /\ c \in Buffers
        BY <1>1, <2>1, <3>2 DEF TypeOK
      <4>2. QED BY <1>1, <1>3, <3>2, <4>1 DEF OwedOrDone
    <3>3. QED BY <3>1, <3>2
  <2>2. QED BY <1>1, <2>1 DEF OwedOrDone, Booting, Pending, log, main
<1>6. AtLeastOnce'
  <2>1. ASSUME NEW c \in owed' \ (tainted' \cup reclaimed' \cup misled \cup erased')
        PROVE  /\ c \in whole' /\ ComesBack(c)'
               /\ Visible(c)' \/ Booting \/ c \in done
    <3>1. c # b
      <4>1. SUFFICES ASSUME c = b PROVE FALSE OBVIOUS
      <4>2. ~Saved(b) BY <1>1, <2>1, <4>1
      <4>3. b \in owed \ (tainted \cup reclaimed \cup misled \cup erased)
        BY <1>1, <1>4, <2>1, <4>1
      <4>4. ComesBack(b) BY <4>3 DEF AtLeastOnce
      <4>5. QED BY <1>1, <4>2, <4>4 DEF ComesBack, AfterRecovery, Saved, Visible
    <3>2. c \in owed \ (tainted \cup reclaimed \cup misled \cup erased)
      BY <1>1, <2>1, <3>1 DEF TypeOK
    <3>3. c \in Buffers BY <3>2 DEF TypeOK
    <3>4. QED BY <1>1, <1>3, <3>1, <3>2, <3>3 DEF AtLeastOnce
  <2>2. QED BY <1>1, <2>1 DEF AtLeastOnce, Booting, main
<1>7. QED BY <1>2, <1>5, <1>6

(* The last byte makes a frame owed.  The log holds nothing of its buffer, *)
(* unless the buffer is excepted.                                          *)
LEMMA ReceiveOwed ==
  ASSUME IInv, Keeping, OwedInv, NEW data \in Byte, Receive(data)
  PROVE  OwedInv'
<1> USE DEF IInv, OwedInv
<1>1. /\ ReceivingInto(buffer_num) /\ buffer_num \in Buffers
      /\ UNCHANGED <<active, full_len, log, buffer_num, main, reclaimed,
                     tainted, misled, erased>>
  BY DEF Receive, InFrame, ReceivingInto
<1>2. CASE UNCHANGED <<complete, whole, owed, done>>
  BY <1>1, <1>2
  DEF OwnLog, OwedOrDone, AtLeastOnce, Booting, Pending, Visible, ComesBack,
      AfterRecovery, log, main
<1>3. CASE /\ complete' = [complete EXCEPT ![buffer_num] = COMPLETE]
           /\ whole' = whole \cup {buffer_num}
           /\ owed' = owed \cup {buffer_num} /\ done' = done \ {buffer_num}
  <2>1. \A c \in Buffers \ {buffer_num} :
          (Visible(c)' <=> Visible(c)) /\ (ComesBack(c)' <=> ComesBack(c))
    BY <1>1, <1>3 DEF Visible, ComesBack, AfterRecovery, log, TypeOK
  <2>2. buffer_num \notin tainted => Visible(buffer_num)'
    BY <1>1, <1>3 DEF Visible, Receiving, TypeOK
  <2>3. buffer_num \notin tainted \cup reclaimed \cup misled
          => ComesBack(buffer_num)'
    <3>1. SUFFICES ASSUME buffer_num \notin tainted \cup reclaimed \cup misled
                   PROVE  ComesBack(buffer_num)'
      OBVIOUS
    <3>2. saved_complete[buffer_num] = NotSaved
      BY <1>1, <3>1 DEF LogSound, Keeping
    <3>3. saved_active[buffer_num] = NotSaved BY <1>1, <3>2 DEF LogShape
    <3>4. QED
      BY <1>1, <2>2, <3>1, <3>2, <3>3 DEF ComesBack, AfterRecovery, Visible, log
  <2>4. OwnLog' BY <1>1, <1>3 DEF OwnLog, log, main
  <2>5. OwedOrDone'
    <3>1. ASSUME NEW c \in owed' \ (tainted \cup erased)
          PROVE  \/ c \in whole' /\ Visible(c)'
                 \/ IF Booting THEN Pending(c) ELSE c \in done'
      <4>1. CASE c = buffer_num BY <4>1, <1>1, <1>3, <2>2, <3>1
      <4>2. CASE c # buffer_num
        BY <4>2, <1>3, <2>1, <3>1 DEF OwedOrDone, TypeOK
      <4>3. QED BY <4>1, <4>2
    <3>2. QED BY <1>1, <3>1 DEF OwedOrDone, Booting, Pending, log, main
  <2>6. AtLeastOnce'
    <3>1. ASSUME NEW c \in owed' \ (tainted \cup reclaimed \cup misled \cup erased)
          PROVE  /\ c \in whole' /\ ComesBack(c)'
                 /\ Visible(c)' \/ Booting \/ c \in done'
      <4>1. CASE c = buffer_num BY <4>1, <1>1, <1>3, <2>2, <2>3, <3>1
      <4>2. CASE c # buffer_num
        BY <4>2, <1>3, <2>1, <3>1 DEF AtLeastOnce, TypeOK
      <4>3. QED BY <4>1, <4>2
    <3>2. QED BY <1>1, <3>1 DEF AtLeastOnce, Booting, main
  <2>7. QED BY <2>4, <2>5, <2>6
<1>4. QED BY <1>2, <1>3 DEF Receive

(* Saving a flag as it stands does not change what recovery will show.     *)
LEMMA SaveComesBack ==
  ASSUME TypeOK, UNCHANGED <<active, complete>>, NEW b \in Buffers,
         \/ UNCHANGED saved_active
         \/ saved_active' = Save(saved_active, active, b),
         \/ UNCHANGED saved_complete
         \/ saved_complete' = Save(saved_complete, complete, b),
         NEW c \in Buffers
  PROVE  ComesBack(c)' <=> ComesBack(c)
<1>1. AfterRecovery(saved_active, active, c)'
        = AfterRecovery(saved_active, active, c)
  BY DEF AfterRecovery, Save, TypeOK
<1>2. AfterRecovery(saved_complete, complete, c)'
        = AfterRecovery(saved_complete, complete, c)
  BY DEF AfterRecovery, Save, TypeOK
<1>3. QED BY <1>1, <1>2 DEF ComesBack

LEMMA SaveOwed ==
  ASSUME LogsOwn, IInv, OwedInv, Found \/ LogComplete \/ LogActive
  PROVE  OwedInv'
<1> USE DEF IInv, OwedInv
<1>1. /\ pc \in {"scan", "log_complete", "log_active"}
      /\ pc' \in {"log_complete", "log_active", "handle"}
      /\ UNCHANGED <<cells, rx, i, history>>
      /\ i \in Buffers
      /\ \/ UNCHANGED saved_active
         \/ saved_active' = Save(saved_active, active, i)
      /\ \/ UNCHANGED saved_complete
         \/ saved_complete' = Save(saved_complete, complete, i)
  BY ConstantsAssumption DEF Found, LogComplete, LogActive, TypeOK, Buffers, log
<1>2. /\ \A b \in Buffers : saved_complete[b] # NotSaved
                              => saved_complete'[b] # NotSaved
      /\ pc' \in {"log_active", "handle"} => saved_complete'[i] # NotSaved
      /\ pc' = "handle" => saved_active'[i] # NotSaved
  <2>1. active[i] # NotSaved /\ complete[i] # NotSaved
    BY <1>1, ConstantsAssumption DEF TypeOK, Marks, NotSaved
  <2>2. CASE Found BY <2>2 DEF Found, log
  <2>3. CASE LogComplete BY <1>1, <2>1, <2>3 DEF LogComplete, Save, TypeOK
  <2>4. CASE LogActive
    BY <1>1, <2>1, <2>4 DEF LogActive, OwnLog, Save, TypeOK
  <2>5. QED BY <2>2, <2>3, <2>4
<1>3. OwnLog' BY <1>1, <1>2 DEF OwnLog, TypeOK, history
<1>4. ~Booting /\ ~Booting' BY <1>1 DEF Booting
<1>5. OwedOrDone' BY <1>1, <1>4 DEF OwedOrDone, Visible, cells, history
<1>6. \A c \in Buffers : ComesBack(c)' <=> ComesBack(c)
  BY <1>1, SaveComesBack DEF cells
<1>7. AtLeastOnce'
  BY <1>1, <1>4, <1>6 DEF AtLeastOnce, Visible, TypeOK, cells, history
<1>8. QED BY <1>3, <1>5, <1>7

LEMMA ForeignOwed ==
  ASSUME IInv, OwedInv, ProcessOther
  PROVE  OwedInv'
<1> USE DEF IInv, OwedInv
<1>1. PICK b \in Buffers :
        /\ pc \in {"app", "foreign"} /\ pc' \in {"app", "foreign"}
        /\ UNCHANGED <<cells, whole, owed, done, reclaimed, tainted, erased>>
        /\ misled \subseteq misled'
        /\ \/ UNCHANGED saved_active
           \/ saved_active' = Save(saved_active, active, b)
        /\ \/ UNCHANGED saved_complete
           \/ saved_complete' = Save(saved_complete, complete, b)
  <2>1. CASE \E b \in Buffers : ForeignLogComplete(b)
    BY <2>1 DEF ForeignLogComplete
  <2>2. CASE ForeignLogActive
    <3>1. i \in Buffers BY <2>2 DEF ForeignLogActive, TypeOK
    <3>2. QED BY <2>2, <3>1 DEF ForeignLogActive, history
  <2>3. QED BY <2>1, <2>2 DEF ProcessOther
<1>2. \A c \in Buffers :
        saved_complete[c] # NotSaved => saved_complete'[c] # NotSaved
  BY <1>1 DEF Save, TypeOK
<1>3. ~Booting /\ ~Booting' BY <1>1 DEF Booting
<1>4. OwnLog' BY <1>1, <1>2 DEF OwnLog, TypeOK
<1>5. OwedOrDone' BY <1>1, <1>3 DEF OwedOrDone, Visible, cells
<1>6. \A c \in Buffers : ComesBack(c)' <=> ComesBack(c)
  BY <1>1, SaveComesBack DEF cells
<1>7. AtLeastOnce'
  BY <1>1, <1>3, <1>6 DEF AtLeastOnce, Visible, TypeOK, cells
<1>8. QED BY <1>4, <1>5, <1>7

LEMMA HandleOwed ==
  ASSUME LogsOwn, IInv, OwedInv, Handle
  PROVE  OwedInv'
  BY DEF Handle, IInv, TypeOK, OwedInv, OwnLog, OwedOrDone, AtLeastOnce, Booting,
         Visible, ComesBack, AfterRecovery, cells, log

(* A frame is cleared after it was saved and handled.                      *)
LEMMA ClearOwed ==
  ASSUME IInv, Keeping, OwedInv, ClearComplete \/ ClearActive
  PROVE  OwedInv'
<1> USE DEF IInv, OwedInv
<1>1. /\ pc \in {"clear", "free"} /\ pc' \in {"free", "scan"}
      /\ pc' = "free" => i' = i
      /\ i \in Buffers
      /\ UNCHANGED <<full_len, log, rx, history>>
      /\ \A b \in Buffers \ {i} :
           complete'[b] = complete[b] /\ active'[b] = active[b]
  BY DEF ClearComplete, ClearActive, TypeOK
<1>2. OwnLog' BY <1>1 DEF OwnLog, log, history
<1>3. i \in owed \ (tainted \cup erased) => i \in done
  <2>1. ASSUME pc = "free", i \notin tainted PROVE ~Visible(i)
    BY <2>1 DEF Scanning, Visible
  <2>2. QED BY <1>1, <2>1 DEF Keeping, OwedOrDone, Booting
<1>4. ~Booting /\ ~Booting' BY <1>1 DEF Booting
<1>5. OwedOrDone'
  BY <1>1, <1>3, <1>4 DEF OwedOrDone, Visible, TypeOK, history
<1>6. \A c \in Buffers : ComesBack(c)' <=> ComesBack(c)
  <2>1. saved_complete[i] # NotSaved
    BY <1>1 DEF OwnLog
  <2>2. saved_active[i] # NotSaved
    BY <1>1 DEF OwnLog
  <2>3. QED BY <1>1, <2>1, <2>2 DEF ComesBack, AfterRecovery, log
<1>7. AtLeastOnce'
  BY <1>1, <1>3, <1>4, <1>6 DEF AtLeastOnce, Visible, TypeOK, history
<1>8. QED BY <1>2, <1>5, <1>7

(* What the committed task has not handled is visible.                     *)
LEMMA CommitOwed ==
  ASSUME IInv, OwedInv, Commit
  PROVE  OwedInv'
<1> USE DEF IInv, OwedInv
<1>1. /\ pc = "app" /\ owed' = owed \ done /\ done' = {}
      /\ saved_active' = [b \in Buffers |-> NotSaved]
      /\ saved_complete' = [b \in Buffers |-> NotSaved]
      /\ UNCHANGED <<cells, rx, main, whole, tainted, erased>>
  BY DEF Commit
<1>2. ASSUME NEW b \in owed' \ (tainted \cup erased)
      PROVE  b \in whole /\ Visible(b)
  BY <1>1, <1>2 DEF OwedOrDone, Booting
<1>3. \A b \in Buffers : ComesBack(b)' <=> Visible(b)
  BY <1>1 DEF ComesBack, AfterRecovery, Visible, cells
<1>4. OwnLog' BY <1>1 DEF OwnLog, main
<1>5. OwedOrDone' BY <1>1, <1>2 DEF OwedOrDone, Visible, cells
<1>6. AtLeastOnce' BY <1>1, <1>2, <1>3 DEF AtLeastOnce, Visible, TypeOK, cells
<1>7. QED BY <1>4, <1>5, <1>6

(* What the running task has handled is in the log.                        *)
LEMMA CrashOwed ==
  ASSUME IInv, OwedInv, Crash
  PROVE  OwedInv'
<1> USE DEF IInv, OwedInv
<1>1. /\ pc' = "boot" /\ done' = {}
      /\ UNCHANGED <<cells, log, whole, owed, reclaimed, tainted, misled, erased>>
  BY DEF Crash
<1>2. OwnLog' BY <1>1 DEF OwnLog
<1>3. OwedOrDone'
  BY <1>1 DEF OwedOrDone, OwnLog, Booting, Pending, Visible, cells, log
<1>4. AtLeastOnce'
  BY <1>1 DEF AtLeastOnce, Booting, ComesBack, AfterRecovery, cells, log
<1>5. QED BY <1>2, <1>3, <1>4

(* Recovery shows a frame when its mark is back.                           *)
LEMMA PutBackOwed ==
  ASSUME IInv, OwedInv, NEW b \in Buffers, PutBackActive(b) \/ PutBackComplete(b)
  PROVE  OwedInv'
<1> USE DEF IInv, OwedInv
<1>1. /\ pc = "boot" /\ pc' \in {"drop_active", "drop_complete"} /\ i' = b
      /\ Booting /\ Booting'
      /\ saved_complete[b] # NotSaved
      /\ tainted' = IF b \in reclaimed THEN tainted \cup {b} ELSE tainted
      /\ erased' = IF b \in owed \cap misled THEN erased \cup {b} ELSE erased
      /\ UNCHANGED <<log, whole, owed, done, reclaimed, misled>>
      /\ \A c \in Buffers \ {b} : active'[c] = active[c] /\ complete'[c] = complete[c]
  BY DEF PutBackActive, PutBackComplete, PutBackHistory, Booting, LogShape, TypeOK
<1>2. \A c \in Buffers : ComesBack(c)' <=> ComesBack(c)
  BY <1>1
  DEF PutBackActive, PutBackComplete, ComesBack, AfterRecovery, log, TypeOK
<1>3. OwnLog' BY <1>1 DEF OwnLog, log
<1>4. AtLeastOnce'
  BY <1>1, <1>2 DEF AtLeastOnce, TypeOK
<1>5. OwedOrDone'
  <2>1. ASSUME NEW c \in owed \ (tainted' \cup erased')
        PROVE  (c \in whole /\ Visible(c)') \/ Pending(c)'
    <3>1. CASE c # b
      <4>1. c \in Buffers BY <2>1 DEF TypeOK
      <4>2. Visible(c)' <=> Visible(c) BY <1>1, <3>1, <4>1 DEF Visible
      <4>3. QED
        BY <1>1, <2>1, <3>1, <4>2 DEF OwedOrDone, Pending, log
    <3>2. CASE c = b /\ PutBackActive(b)
      BY <1>1, <3>2 DEF PutBackActive, Pending, log
    <3>3. CASE c = b /\ PutBackComplete(b)
      <4>1. b \in owed \ (tainted \cup reclaimed \cup misled \cup erased)
        BY <1>1, <2>1, <3>3
      <4>2. b \in whole /\ ComesBack(b) BY <4>1 DEF AtLeastOnce
      <4>3. Visible(b)'
        BY <3>3, <4>2
        DEF PutBackComplete, ComesBack, AfterRecovery, Visible, TypeOK
      <4>4. QED BY <3>3, <4>2, <4>3
    <3>4. QED BY <3>1, <3>2, <3>3
  <2>2. QED BY <1>1, <2>1 DEF OwedOrDone
<1>6. QED BY <1>3, <1>4, <1>5

LEMMA DropOwed ==
  ASSUME IInv, Keeping, OwedInv, DropActive \/ DropComplete
  PROVE  OwedInv'
<1> USE DEF IInv, OwedInv
<1>1. /\ pc \in {"drop_active", "drop_complete"} /\ pc' = "boot"
      /\ Booting /\ Booting' /\ i \in Buffers
      /\ UNCHANGED <<cells, rx, history>>
      /\ saved_active' = IF pc = "drop_active"
           THEN [saved_active EXCEPT ![i] = NotSaved] ELSE saved_active
      /\ saved_complete' = IF pc = "drop_complete"
           THEN [saved_complete EXCEPT ![i] = NotSaved] ELSE saved_complete
  BY DEF DropActive, DropComplete, Booting, TypeOK
<1>2. \A c \in Buffers : Visible(c)' <=> Visible(c)
  BY <1>1 DEF Visible, cells
<1>3. OwedOrDone'
  <2>1. ASSUME NEW c \in owed \ (tainted \cup erased), Pending(c) PROVE Pending(c)'
    <3>1. c \in Buffers BY <2>1 DEF TypeOK
    <3>2. QED BY <1>1, <2>1, <3>1 DEF Pending, TypeOK
  <2>2. QED BY <1>1, <1>2, <2>1 DEF OwedOrDone, TypeOK, history
<1>4. AtLeastOnce'
  <2>1. ASSUME NEW c \in Buffers \ (tainted \cup reclaimed), ComesBack(c)
        PROVE  ComesBack(c)'
    <3>1. AfterRecovery(saved_active, active, c)'
            = AfterRecovery(saved_active, active, c)
      BY <1>1, <2>1 DEF AfterRecovery, LogSound, TypeOK, cells
    <3>2. AfterRecovery(saved_complete, complete, c)'
            = AfterRecovery(saved_complete, complete, c)
      BY <1>1, <2>1 DEF AfterRecovery, LogSound, TypeOK, cells
    <3>3. QED BY <2>1, <3>1, <3>2 DEF ComesBack
  <2>2. QED BY <1>1, <2>1 DEF AtLeastOnce, TypeOK, history
<1>5. OwnLog'
  <2>1. done = {} BY <1>1 DEF Keeping
  <2>2. QED BY <1>1, <2>1 DEF OwnLog, history
<1>6. QED BY <1>3, <1>4, <1>5

(* When the log is empty everything is back.                               *)
LEMMA RestoreOwed ==
  ASSUME IInv, Keeping, OwedInv, Restore
  PROVE  OwedInv'
<1> USE DEF IInv, OwedInv
<1>1. /\ pc = "boot" /\ pc' = "app" /\ Booting
      /\ \A b \in Buffers : ~Saved(b)
      /\ UNCHANGED <<cells, log, rx, i, whole, owed, done, tainted, erased>>
  BY DEF Restore, Booting
<1>2. ASSUME NEW b \in owed \ (tainted \cup erased)
      PROVE  b \in whole /\ Visible(b)
  BY <1>1, <1>2 DEF OwedOrDone, Pending, Saved, TypeOK
<1>3. \A b \in Buffers : ComesBack(b)' <=> Visible(b)
  BY <1>1 DEF ComesBack, AfterRecovery, Saved, Visible, cells, log
<1>4. OwnLog' BY <1>1 DEF OwnLog, Keeping, log
<1>5. OwedOrDone' BY <1>1, <1>2 DEF OwedOrDone, Visible, cells
<1>6. AtLeastOnce' BY <1>1, <1>2, <1>3 DEF AtLeastOnce, Visible, TypeOK, cells
<1>7. QED BY <1>4, <1>5, <1>6

LEMMA NextOwed ==
  ASSUME LogsOwn, IInv, Keeping, OwedInv, [Next]_vars
  PROVE  OwedInv'
<1>1. CASE \E data \in Byte : HandleProgress(data)
  <2>1. PICK data \in Byte : HandleProgress(data) BY <1>1
  <2>2. CASE WaitEsp0(data) \/ WaitEsp1(data) \/ RejectLen(data) \/ NoBuffer(data)
    BY <2>2, OutsideOwed DEF WaitEsp0, WaitEsp1, RejectLen, NoBuffer
  <2>3. CASE \E b \in Buffers : Claim(data, b) BY <2>3, ClaimOwed
  <2>4. CASE Receive(data) BY <2>4, ReceiveOwed
  <2>5. QED BY <2>1, <2>2, <2>3, <2>4 DEF HandleProgress
<1>2. CASE Call \/ Skip \/ Return
  <2>1. /\ UNCHANGED <<cells, log, rx, history>>
        /\ pc \in {"app", "scan"} /\ pc' \in {"app", "scan"}
    BY <1>2 DEF Call, Skip, Return
  <2>2. QED
    BY <2>1 DEF OwedInv, OwnLog, OwedOrDone, AtLeastOnce, Booting, Visible,
                ComesBack, AfterRecovery, cells, log, history
<1>3. CASE UNCHANGED vars BY <1>3, OutsideOwed DEF vars
<1>4. QED
  BY <1>1, <1>2, <1>3, SaveOwed, HandleOwed, ClearOwed, ForeignOwed,
     CommitOwed, CrashOwed, PutBackOwed, DropOwed, RestoreOwed
  DEF Next, ProcessUart, Recover

(* On a link that saves its own flags, as process_uart0 does, recovery at  *)
(* any moment shows a whole frame again until the task that handled it     *)
(* commits (AtLeastOnce): power failures lose no frame of it, save for     *)
(* those in tainted, reclaimed or misled buffers, and those erased by what *)
(* the other link's handler saved of a misled one.                         *)
THEOREM FramesDelivered ==
  ASSUME LogsOwn
  PROVE  Spec => []AtLeastOnce
<1>1. Init => OwedInv BY InitOwed
<1>2. IInv /\ Keeping /\ OwedInv /\ [Next]_vars => OwedInv'
  BY LogsOwn, NextOwed
<1>3. OwedInv => AtLeastOnce BY DEF OwedInv
<1>4. QED BY <1>1, <1>2, <1>3, SpecIInv, SpecKeeping, PTL DEF Spec
=============================================================================
