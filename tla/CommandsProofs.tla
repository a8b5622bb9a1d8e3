--------------------------- MODULE CommandsProofs ---------------------------
(***************************************************************************)
(* Proofs about Commands, for every number of buffers, every traffic of    *)
(* ground and board, and every value of the bounds.                        *)
(***************************************************************************)
EXTENDS Commands, FiniteSetTheorems, TLAPS

-----------------------------------------------------------------------------
(* The inductive invariants *)

(* The application sees no return value twice; a boot starts the count     *)
(* afresh; what is being handled has both flags in the log.                *)
Where ==
  /\ pc \in {"score", "transmit"} => link = 0
  /\ pc \in {"boot", "app", "app_transmit"} => ret_val = "none"
  /\ pc = "boot" => rf_kill_count = 0
  /\ pc \in Handling \cup {"clear_active"} => saved_active[i] # NotSaved

(* The flags say whose a buffer is: the handler's, from when it has found  *)
(* the buffer until it clears active, or the interrupt's.                  *)
Owned(l) ==
  /\ pc \in Looking /\ link = l => Visible(l, i)
  /\ pc = "clear_active" /\ link = l =>
       complete[l][i] = 0 /\ rx[l].buffer_num # i
  /\ \A b \in Buffers :
       /\ rx[l].buffer_num = b => active[l][b] = 1 /\ complete[l][b] = 0
       /\ complete[l][b] = 1 => active[l][b] = 1

(* What the log holds of a buffer that was not claimed since.              *)
Logged(b) ==
  /\ saved_complete[b] = 1 =>
       \/ saved_active[b] = 1
       \/ saved_active[b] = NotSaved /\ active[0][b] = 1
  /\ saved_active[b] = 0 => active[0][b] = 0
  /\ saved_complete[b] = 1 => rx[0].buffer_num # b

Pool ==
  /\ \A l \in Links : ~raced[l] => Owned(l)
  /\ ~raced[0] => \A b \in Buffers \ reclaimed : Logged(b)

(* Frames in the buffers, or that the recovery puts back, that show a kill *)
(* command, and those of them that the running program has not counted.    *)
Waits(b) ==
  complete[0][b] = 1 \/ (saved_complete[b] = 1 /\ b \notin reclaimed)
Showing == {b \in Buffers : Waits(b) /\ ShowsKill(pkt[0][b])}
Uncounted ==
  {b \in Buffers : /\ complete[0][b] = 1 /\ ShowsKill(pkt[0][b])
                   /\ ~(pc = "clear" /\ link = 0 /\ i = b)}

Killing ==
  ~raced[0] =>
    /\ Cardinality(Showing) <= kills + stale
    /\ rf_kill_count + Cardinality(Uncounted) <= kills + stale
    /\ libartibeus_rf_dead = 1 => kills + stale > MAX_KILL_COUNT

(* A running program that has not declared the radio dead has counted, or  *)
(* has still to count, every command that arrived.                         *)
Obeying ==
  ~raced[0] =>
    /\ libartibeus_rf_dead = 0 =>
         /\ rf_kill_count <= MAX_KILL_COUNT
         /\ pc # "boot" => heard <= rf_kill_count + Cardinality(Uncounted)
    /\ pc \in {"score", "transmit"} => ~ShowsKill(frame)

(* The numbers of what the board acks survive the way through one byte,    *)
(* and every ack in a buffer, or on its way to one, answers such a packet. *)
Survives(p) ==
  AckOf(p.cmd) # "none" => TRANSLATE_SEQNUM(p.seqnum \div 256) = p.seqnum
Answers(f, p) == AckOf(p.cmd) = f.cmd /\ p.seqnum \div 256 = f.seq
Answered(f) == IsAck(f) => \E p \in got : Answers(f, p)
Current ==
  link = 1 /\ ret_val \in PendingAcks =>
    \E p \in got : /\ p.seqnum = expt_msg_id_pending
                  /\ ret_val = IF AckOf(p.cmd) = "ACK" THEN "RCVD_PENDING_ACK"
                               ELSE "RCVD_PENDING_BOOTLOADER_ACK"

Acking ==
  /\ \A p \in got : Survives(p)
  /\ \A b \in Buffers : Answered(pkt[1][b])
  /\ Answered(rx[1].frame)
  /\ Current

(* A frame with a score leaves the buffers only after it was copied.       *)
Scoring ==
  /\ ~raced[0] =>
       /\ pc = "score" => IsScore(frame)
       /\ pc \in {"transmit", "clear"} /\ link = 0 /\ IsScore(frame) =>
            score_msg # "torn"
  /\ ScoreRepaired

-----------------------------------------------------------------------------
(* Types *)

LEMMA ByteInWord == ASSUME NEW x \in Byte PROVE x \in Word
  BY DEF Byte, Word

LEMMA Small == {0, 1} \subseteq Byte /\ Byte \subseteq Word /\ 6 \in Byte
  <1>1. 0 \in Byte /\ 1 \in Byte /\ 6 \in Byte
    BY DEF Byte
  <1> QED
    BY <1>1, ByteInWord

LEMMA WordInNat == ASSUME NEW x \in Word PROVE x \in Nat
  BY DEF Word

(* The byte at SEQ_NUM_OFFSET. *)
LEMMA HighByte == ASSUME NEW x \in Word PROVE x \div 256 \in Byte
  <1>1. x \in Nat /\ x <= 65535
    BY DEF Word
  <1>2. x \div 256 \in 0 .. 255
    BY <1>1
  <1> QED
    BY <1>2 DEF Byte

LEMMA TranslateType ==
  ASSUME NEW x \in Byte
  PROVE  /\ TRANSLATE_SEQNUM(x) \in Word
         /\ TRANSLATE_SEQNUM(x) = x * 256
         /\ TRANSLATE_SEQNUM(x) \div 256 = x
  <1>1. x % 256 = x /\ x \div 256 = 0 /\ x \in 0 .. 255
    BY DEF Byte
  <1>2. TRANSLATE_SEQNUM(x) = x * 256
    BY <1>1 DEF TRANSLATE_SEQNUM
  <1>3. x * 256 \in Word /\ (x * 256) \div 256 = x
    BY <1>1 DEF Word
  <1> QED
    BY <1>2, <1>3

(* What is left in a buffer is a frame, from its first part on with the    *)
(* destination, the command and the number of the new one.                 *)
LEMMA StoredType ==
  ASSUME NEW old \in FrameType, NEW f \in FrameType, NEW n \in 0 .. 2
  PROVE  /\ Stored(old, f, n) \in FrameType
         /\ n >= 1 => /\ Stored(old, f, n).to = f.to
                      /\ Stored(old, f, n).cmd = f.cmd
                      /\ Stored(old, f, n).seq = f.seq
  BY DEF Stored, FrameType

LEMMA AckType ==
  ASSUME NEW cmd \in Opcodes, NEW seq \in Byte
  PROVE  /\ Ack(cmd, seq) \in FrameType
         /\ Ack(cmd, seq).to = "CTRL" /\ Ack(cmd, seq).cmd = cmd
         /\ Ack(cmd, seq).seq = seq
  BY Small DEF Ack, FrameType, Boards

LEMMA NoFrameType == NoFrame \in FrameType /\ ~IsAck(NoFrame)
  BY Small DEF NoFrame, FrameType, Boards, Opcodes, IsAck

LEMMA InitType == Init => TypeOK
  <1> SUFFICES ASSUME Init PROVE TypeOK
    OBVIOUS
  <1>1. 0 \in 0 .. UART_BUFFER_CNT
    BY BuffersAssumption
  <1>2. rx \in [Links -> [buffer_num : {NoBuffer} \cup Buffers,
                          frame : FrameType, stored : {0, 1}]]
    BY NoFrameType DEF Init, Idle
  <1>3. \A l \in Links : rx[l] = Idle /\ rx[l].stored < PartsOf(rx[l].frame)
    BY DEF Init, Idle, PartsOf, NoFrame
  <1> QED
    BY <1>1, <1>2, <1>3, NoFrameType, Small
    DEF Init, TypeOK, Links, Flag, Handling, Looking

(* The frame that is being received, and where it is stored.               *)
LEMMA RxType ==
  ASSUME TypeOK, NEW l \in Links
  PROVE  /\ rx[l].buffer_num \in {NoBuffer} \cup Buffers
         /\ rx[l].frame \in FrameType /\ rx[l].stored \in {0, 1}
         /\ rx[l] # Idle => rx[l].buffer_num \in Buffers
         /\ rx[l] # Idle <=> rx[l].buffer_num # NoBuffer
         /\ rx[l].stored + 1 \in 1 .. 2
  BY DEF TypeOK, Idle

(* A claimed buffer keeps its bytes but the length of the frame.           *)
LEMMA ClaimStores ==
  ASSUME TypeOK, NEW l \in Links, NEW f \in FrameType, Claim(l, f)
  PROVE  \E b \in Buffers :
           /\ ~Visible(l, b) /\ rx[l] = Idle
           /\ active' = [active EXCEPT ![l][b] = 1]
           /\ pkt' = [pkt EXCEPT ![l][b] = Stored(@, f, 0)]
           /\ pkt'[l][b] = Stored(pkt[l][b], f, 0)
           /\ pkt'[l][b] \in FrameType
           /\ \A m \in Links, c \in Buffers : m # l \/ c # b =>
                pkt'[m][c] = pkt[m][c] /\ active'[m][c] = active[m][c]
           /\ active'[l][b] = 1
           /\ rx' = [rx EXCEPT ![l] = [buffer_num |-> b, frame |-> f,
                                        stored |-> 0]]
           /\ reclaimed' = IF l = 0 /\ InLog(b) THEN reclaimed \cup {b}
                           ELSE reclaimed
           /\ raced' = [raced EXCEPT ![l] =
                          @ \/ (pc = "clear_active" /\ link = l /\ i = b)]
           /\ UNCHANGED <<traffic, complete, saved_complete, saved_active,
                          awaited, effects, local, counts, erased, got>>
           /\ wire' = Silent
  <1>1. PICK b \in Buffers :
          /\ ~Visible(l, b) /\ rx[l] = Idle
          /\ active' = [active EXCEPT ![l][b] = 1]
          /\ pkt' = [pkt EXCEPT ![l][b] = Stored(@, f, 0)]
          /\ rx' = [rx EXCEPT ![l] = [buffer_num |-> b, frame |-> f,
                                       stored |-> 0]]
          /\ reclaimed' = IF l = 0 /\ InLog(b) THEN reclaimed \cup {b}
                          ELSE reclaimed
          /\ raced' = [raced EXCEPT ![l] =
                         @ \/ (pc = "clear_active" /\ link = l /\ i = b)]
          /\ UNCHANGED <<traffic, complete, saved_complete, saved_active,
                         awaited, effects, local, counts, erased, got>>
          /\ wire' = Silent
    BY DEF Claim, Silently, Quiet, saved
  <1>2. pkt[l][b] \in FrameType
    BY DEF TypeOK
  <1>3. pkt'[l][b] = Stored(pkt[l][b], f, 0) /\ active'[l][b] = 1
    BY <1>1 DEF TypeOK
  <1>4. pkt'[l][b] \in FrameType
    BY <1>2, <1>3, StoredType
  <1>5. \A m \in Links, c \in Buffers : m # l \/ c # b =>
          pkt'[m][c] = pkt[m][c] /\ active'[m][c] = active[m][c]
    BY <1>1 DEF TypeOK
  <1> QED
    BY <1>1, <1>3, <1>4, <1>5

(* The step of an interrupt: a part is stored, and with the last the frame *)
(* is marked and counted.                                                  *)
Whole(l) == rx[l].stored + 1 = PartsOf(rx[l].frame)
LEMMA ReceiveStores ==
  ASSUME TypeOK, NEW l \in Links, Receive(l)
  PROVE  \E b \in Buffers, n \in 1 .. 2 :
           LET f == rx[l].frame
               bytes == Stored(pkt[l][b], f, n)
           IN /\ rx[l].buffer_num = b /\ f \in FrameType
              /\ pkt' = [pkt EXCEPT ![l][b] = bytes]
              /\ pkt'[l][b] = bytes /\ bytes \in FrameType
              /\ bytes.to = f.to /\ bytes.cmd = f.cmd /\ bytes.seq = f.seq
              /\ rx' = [rx EXCEPT ![l] = IF Whole(l) THEN Idle
                                         ELSE [@ EXCEPT !.stored = n]]
              /\ complete' = IF Whole(l) THEN [complete EXCEPT ![l][b] = 1]
                             ELSE complete
              /\ complete'[l][b] = IF Whole(l) THEN 1 ELSE complete[l][b]
              /\ \A m \in Links, c \in Buffers : m # l \/ c # b =>
                   pkt'[m][c] = pkt[m][c] /\ complete'[m][c] = complete[m][c]
              /\ LET shows == Whole(l) /\ l = 0 /\ ShowsKill(bytes)
                 IN /\ kills' = IF shows /\ IsKill(f) THEN kills + 1 ELSE kills
                    /\ heard' = IF shows /\ IsKill(f) THEN heard + 1 ELSE heard
                    /\ stale' = IF shows /\ ~IsKill(f) THEN stale + 1
                                ELSE stale
              /\ scores' \in {scores, scores + 1}
              /\ UNCHANGED <<traffic, active, saved_complete, saved_active,
                             awaited, effects, local, erased, reclaimed, raced,
                             got>>
              /\ wire' = Silent
  <1> DEFINE b == rx[l].buffer_num
             f == rx[l].frame
             n == rx[l].stored + 1
             bytes == Stored(pkt[l][b], f, n)
             shows == Whole(l) /\ l = 0 /\ ShowsKill(bytes)
  <1>1. b \in Buffers /\ f \in FrameType /\ n \in 1 .. 2 /\ n \in 0 .. 2
    BY RxType DEF Receive
  <1>2. /\ pkt' = [pkt EXCEPT ![l][b] = bytes]
        /\ rx' = [rx EXCEPT ![l] = IF Whole(l) THEN Idle
                                   ELSE [@ EXCEPT !.stored = n]]
        /\ complete' = IF Whole(l) THEN [complete EXCEPT ![l][b] = 1]
                       ELSE complete
        /\ kills' = IF shows /\ IsKill(f) THEN kills + 1 ELSE kills
        /\ heard' = IF shows /\ IsKill(f) THEN heard + 1 ELSE heard
        /\ stale' = IF shows /\ ~IsKill(f) THEN stale + 1 ELSE stale
        /\ scores' \in {scores, scores + 1}
        /\ UNCHANGED <<traffic, active, saved_complete, saved_active, awaited,
                       effects, local, erased, reclaimed, raced, got>>
        /\ wire' = Silent
    BY DEF Receive, Whole, Silently, Quiet, saved
  <1>3. pkt[l][b] \in FrameType
    BY <1>1 DEF TypeOK
  <1>4. /\ bytes \in FrameType
        /\ bytes.to = f.to /\ bytes.cmd = f.cmd /\ bytes.seq = f.seq
    BY <1>1, <1>3, StoredType
  <1> HIDE DEF b, f, n, bytes, shows
  <1>5. pkt'[l][b] = bytes
    BY <1>1, <1>2 DEF TypeOK
  <1>6. complete'[l][b] = IF Whole(l) THEN 1 ELSE complete[l][b]
    BY <1>1, <1>2 DEF TypeOK
  <1>7. \A m \in Links, c \in Buffers : m # l \/ c # b =>
          pkt'[m][c] = pkt[m][c] /\ complete'[m][c] = complete[m][c]
    BY <1>1, <1>2 DEF TypeOK
  <1> QED
    BY <1>1, <1>2, <1>4, <1>5, <1>6, <1>7 DEF b, f, n, bytes, shows


LEMMA ClaimType ==
  ASSUME TypeOK, NEW l \in Links, NEW f \in FrameType, Claim(l, f)
  PROVE  TypeOK'
  <1>1. PICK b \in Buffers :
          /\ active' = [active EXCEPT ![l][b] = 1]
          /\ pkt' = [pkt EXCEPT ![l][b] = Stored(@, f, 0)]
          /\ pkt'[l][b] \in FrameType
          /\ rx' = [rx EXCEPT ![l] = [buffer_num |-> b, frame |-> f,
                                       stored |-> 0]]
          /\ reclaimed' = IF l = 0 /\ InLog(b) THEN reclaimed \cup {b}
                          ELSE reclaimed
          /\ raced' = [raced EXCEPT ![l] =
                         @ \/ (pc = "clear_active" /\ link = l /\ i = b)]
          /\ UNCHANGED <<traffic, complete, saved_complete, saved_active,
                         awaited, effects, local, counts, erased, got>>
    BY ClaimStores
  <1>2. active' \in [Links -> [Buffers -> Flag]]
    BY <1>1 DEF TypeOK, Flag
  <1>3. pkt[l][b] \in FrameType /\ Stored(pkt[l][b], f, 0) \in FrameType
    BY StoredType DEF TypeOK
  <1>4. pkt' \in [Links -> [Buffers -> FrameType]]
    BY <1>1, <1>3 DEF TypeOK
  <1>5. /\ rx' \in [Links -> [buffer_num : {NoBuffer} \cup Buffers,
                              frame : FrameType, stored : {0, 1}]]
        /\ \A m \in Links : /\ rx'[m].buffer_num = NoBuffer => rx'[m] = Idle
                           /\ rx'[m].stored < PartsOf(rx'[m].frame)
    BY <1>1 DEF TypeOK, NoBuffer, Buffers, PartsOf
  <1>6. reclaimed' \subseteq Buffers /\ raced' \in [Links -> BOOLEAN]
    <2>1. reclaimed' \subseteq Buffers
      BY <1>1 DEF TypeOK
    <2>2. raced' \in [Links -> BOOLEAN]
      BY <1>1 DEF TypeOK
    <2> QED
      BY <2>1, <2>2
  <1> QED
    BY <1>1, <1>2, <1>4, <1>5, <1>6
    DEF TypeOK, awaited, effects, ids, killed, power, local, message, counts

LEMMA ReceiveType ==
  ASSUME TypeOK, NEW l \in Links, Receive(l)
  PROVE  TypeOK'
  <1>1. PICK b \in Buffers, n \in 1 .. 2 :
          LET f == rx[l].frame
              bytes == Stored(pkt[l][b], f, n)
          IN /\ rx[l].buffer_num = b
             /\ pkt' = [pkt EXCEPT ![l][b] = bytes] /\ bytes \in FrameType
             /\ complete' = IF Whole(l) THEN [complete EXCEPT ![l][b] = 1]
                            ELSE complete
             /\ kills' \in {kills, kills + 1} /\ heard' \in {heard, heard + 1}
             /\ stale' \in {stale, stale + 1}
             /\ scores' \in {scores, scores + 1}
             /\ UNCHANGED <<traffic, active, saved_complete, saved_active,
                            awaited, effects, local, erased, reclaimed, raced,
                            got>>
    BY ReceiveStores
  <1>2. complete' \in [Links -> [Buffers -> Flag]]
    BY <1>1 DEF TypeOK, Flag
  <1>3. pkt' \in [Links -> [Buffers -> FrameType]]
    BY <1>1 DEF TypeOK
  <1>4. /\ rx' \in [Links -> [buffer_num : {NoBuffer} \cup Buffers,
                              frame : FrameType, stored : {0, 1}]]
        /\ \A m \in Links : /\ rx'[m].buffer_num = NoBuffer => rx'[m] = Idle
                           /\ rx'[m].stored < PartsOf(rx'[m].frame)
    <2>1. rx' = [rx EXCEPT ![l] = IF Whole(l) THEN Idle
                                  ELSE [@ EXCEPT !.stored = rx[l].stored + 1]]
      BY DEF Receive, Whole
    <2>2. ~Whole(l) => rx[l].stored + 1 = 1 /\ 1 < PartsOf(rx[l].frame)
      <3>1. rx[l].stored \in {0, 1} /\ rx[l].stored < PartsOf(rx[l].frame)
        BY DEF TypeOK
      <3>2. PartsOf(rx[l].frame) \in {1, 2}
        BY DEF PartsOf
      <3> QED
        BY <3>1, <3>2 DEF Whole
    <2>3. Idle \in [buffer_num : {NoBuffer} \cup Buffers,
                    frame : FrameType, stored : {0, 1}]
          /\ Idle.stored < PartsOf(Idle.frame)
      BY NoFrameType DEF Idle, PartsOf, NoFrame
    <2>4. rx[l].buffer_num # NoBuffer
      BY <1>1 DEF NoBuffer, Buffers
    <2> QED
      BY <2>1, <2>2, <2>3, <2>4 DEF TypeOK
  <1>5. kills' \in Nat /\ heard' \in Nat /\ stale' \in Nat /\ scores' \in Nat
    BY <1>1 DEF TypeOK
  <1> QED
    BY <1>1, <1>2, <1>3, <1>4, <1>5
    DEF TypeOK, awaited, effects, ids, killed, power, local, message

(* What a step of the handler may change. *)
Handled ==
  /\ pc' \in {"clear", "score", "transmit", "overrun"}
  /\ expt_msg_id_pending' \in Word /\ libartibeus_msg_id' \in Byte
  /\ rf_kill_count' \in Byte /\ libartibeus_rf_dead' \in Flag
  /\ exp_en' \in Flag /\ comm_en' \in Flag
  /\ len' \in Nat /\ index' \in Nat /\ seqnum' \in Byte
  /\ got' \subseteq Numbered

LEMMA FrameInHandle ==
  ASSUME TypeOK, pc \in Handling
  PROVE  /\ i \in Buffers /\ frame \in FrameType
         /\ frame.seq \in Byte /\ frame.cmd \in Opcodes
  BY DEF TypeOK, Looking, frame, FrameType

LEMMA RelayType == ASSUME TypeOK, Relay PROVE Handled
  BY DEF TypeOK, Relay, Ends, COMM_ENABLE, Handled, Flag, ids, killed, message

LEMMA Switch0Type == ASSUME TypeOK, frame \in FrameType, Switch0 PROVE Handled
  <1>1. ASSUME Ack0 PROVE Handled
    BY <1>1 DEF TypeOK, Ack0, Ends, Silently, Handled, effects, ids, killed,
      power, message
  <1>2. ASSUME GetTelem PROVE Handled
    BY <1>2 DEF TypeOK, GetTelem, Ends, Handled, effects, ids, killed,
      power, message
  <1>3. ASSUME update_rf_kill_count PROVE Handled
    <2>1. rf_kill_count' \in Byte
      BY <1>3 DEF TypeOK, update_rf_kill_count, Byte
    <2> QED
      BY <1>3, <2>1 DEF TypeOK, update_rf_kill_count, Ends, Silently, Handled,
        Flag, ids, power, message
  <1>4. ASSUME StartScore PROVE Handled
    BY <1>4 DEF TypeOK, StartScore, Silently, Handled, ids, killed, power,
      message
  <1>5. ASSUME PopRing PROVE Handled
    <2>1. RecordLen[frame.sub] \in Nat
      BY <1>5 DEF PopRing, RecordLen
    <2>2. libartibeus_msg_id' \in Byte
      BY <1>5, ValuesAssumption DEF PopRing, TypeOK
    <2> QED
      BY <1>5, <2>1, <2>2, Small
      DEF TypeOK, PopRing, Silently, Handled, killed, power, message
  <1>6. ASSUME OtherAscii PROVE Handled
    BY <1>6 DEF TypeOK, OtherAscii, Ends, Silently, Handled, effects, ids,
      killed, power, message
  <1>7. ASSUME Unsupported({"ACK", "GET_TELEM", "ASCII"}) PROVE Handled
    BY <1>7 DEF TypeOK, Unsupported, Ends, Silently, Handled, effects, ids,
      killed, power, message
  <1> QED
    BY <1>1, <1>2, <1>3, <1>4, <1>5, <1>6, <1>7 DEF Switch0

LEMMA SentType ==
  ASSUME TypeOK, NEW c, ToBoard(c), c.cmd \in Opcodes, c.seqnum \in Word
  PROVE  got' \subseteq Numbered
  BY DEF TypeOK, ToBoard, Numbered

LEMMA GetTimeSends ==
  ASSUME GetTime
  PROVE  \E cmd \in Opcodes, n \in 0 .. 8 :
           \E payload : SetTime(cmd, n, payload)
  <1>1. "SET_TIME" \in Opcodes /\ "SET_TIME_UTC" \in Opcodes
    BY DEF Opcodes
  <1>2. CASE frame.cmd = "GET_TIME"
    <2>1. PICK time \in traffic.times : SetTime("SET_TIME", 8, sec(time))
      BY <1>2 DEF GetTime
    <2>2. 8 \in 0 .. 8
      OBVIOUS
    <2> QED
      BY <1>1, <2>1, <2>2
  <1>3. CASE frame.cmd # "GET_TIME"
    <2>1. SetTime("SET_TIME_UTC", 6, 0)
      BY <1>3 DEF GetTime
    <2>2. 6 \in 0 .. 8
      OBVIOUS
    <2> QED
      BY <1>1, <2>1, <2>2
  <1> QED
    BY <1>2, <1>3

LEMMA Switch1Type == ASSUME TypeOK, frame \in FrameType, Switch1 PROVE Handled
  <1> USE DEF Handled
  <1>1. ASSUME Ack1 PROVE Handled
    <2>1. got' \subseteq Numbered
      <3>1. ASSUME ToBoard(Answer(frame, "ACK", 0))
            PROVE  got' \subseteq Numbered
        BY <3>1, SentType, Small DEF Answer, Cmd, FrameType, Opcodes
      <3> QED
        BY <1>1, <3>1 DEF Ack1, TypeOK, Silently
    <2> QED
      BY <1>1, <2>1 DEF TypeOK, Ack1, Ends, effects, ids, killed, power,
        message
  <1>2. ASSUME BootloaderAck PROVE Handled
    BY <1>2 DEF TypeOK, BootloaderAck, Ends, Silently, effects, ids, killed,
      power, message
  <1>3. ASSUME GetTime PROVE Handled
    <2>1. PICK cmd \in Opcodes, n \in 0 .. 8 :
            \E payload : SetTime(cmd, n, payload)
      BY <1>3, GetTimeSends
    <2>2. libartibeus_msg_id' \in Byte
      BY <1>3 DEF GetTime, FrameType
    <2>3. TRANSLATE_SEQNUM(libartibeus_msg_id') \in Word
      BY <2>2, TranslateType
    <2>4. got' \subseteq Numbered
      BY <2>1, <2>3, SentType DEF SetTime, Cmd
    <2> QED
      BY <1>3, <2>1, <2>2, <2>3, <2>4
      DEF TypeOK, GetTime, SetTime, Ends, killed, power, message
  <1>4. ASSUME PushAscii PROVE Handled
    BY <1>4 DEF TypeOK, PushAscii, Ends, Silently, effects, ids, killed, power,
      message
  <1>5. ASSUME NEW cmds, Unsupported(cmds) PROVE Handled
    BY <1>5 DEF TypeOK, Unsupported, Ends, Silently, effects, ids, killed,
      power, message
  <1> QED
    BY <1>1, <1>2, <1>3, <1>4, <1>5 DEF Switch1

LEMMA HandleType == ASSUME TypeOK, Handle PROVE TypeOK'
  <1>1. frame \in FrameType /\ i \in Buffers
    BY FrameInHandle DEF Handle, Handling
  <1>2. Handled
    BY <1>1, RelayType, Switch0Type, Switch1Type DEF Handle
  <1> QED
    BY <1>1, <1>2
    DEF Handle, Handled, TypeOK, Looking, Handling, still, buffers, saved,
      awaited, history, counts

(* The undo log of the pool keeps the first value that was saved. *)
LEMMA SavedType ==
  ASSUME NEW log \in [Buffers -> Flag \cup {NotSaved}], NEW b \in Buffers,
         NEW flag \in Flag
  PROVE  /\ Saved(log, b, flag) \in [Buffers -> Flag \cup {NotSaved}]
         /\ Saved(log, b, flag)[b] # NotSaved
         /\ Saved(log, b, flag)[b] \in {log[b], flag}
         /\ log[b] # NotSaved => Saved(log, b, flag)[b] = log[b]
         /\ log[b] = NotSaved => Saved(log, b, flag)[b] = flag
         /\ \A c \in Buffers : c # b => Saved(log, b, flag)[c] = log[c]
  BY DEF Saved, Flag, NotSaved

(* Actions that leave what they do not mention in place. *)
LEMMA ScanType ==
  ASSUME TypeOK,
         \/ Skip \/ Found \/ SaveActive \/ EndScore \/ ClearComplete
         \/ ClearActive \/ Return \/ AfterOverrun
  PROVE  TypeOK'
  <1> USE DEF TypeOK, effects, ids, killed, power, message, still, buffers,
      saved, awaited, history, counts, Silently
  <1>1. CASE Skip
    BY <1>1, BuffersAssumption DEF Skip, Looking, Handling
  <1>2. CASE Found
    <2>1. i \in Buffers
      BY <1>2, BuffersAssumption DEF Found, Buffers
    <2>2. complete[0][i] \in Flag
      BY <2>1 DEF Links
    <2>3. saved_complete' \in [Buffers -> Flag \cup {NotSaved}]
      BY <1>2, <2>1, <2>2, SavedType DEF Found
    <2> QED
      BY <1>2, <2>1, <2>3 DEF Found, Looking, Handling
  <1>3. CASE SaveActive
    <2>1. i \in Buffers
      BY <1>3 DEF SaveActive, Looking
    <2>2. active[0][i] \in Flag
      BY <2>1 DEF Links
    <2>3. saved_active' \in [Buffers -> Flag \cup {NotSaved}]
      BY <1>3, <2>1, <2>2, SavedType DEF SaveActive
    <2> QED
      BY <1>3, <2>1, <2>3 DEF SaveActive, Looking, Handling
  <1>4. CASE EndScore
    BY <1>4 DEF EndScore, Looking, Handling
  <1>5. CASE ClearComplete
    <2>1. i \in Buffers
      BY <1>5 DEF ClearComplete, Looking, Handling
    <2>2. complete' \in [Links -> [Buffers -> Flag]]
      BY <1>5, <2>1 DEF ClearComplete, Flag
    <2> QED
      BY <1>5, <2>1, <2>2 DEF ClearComplete, Looking, Handling
  <1>6. CASE ClearActive
    <2>1. i \in Buffers /\ i + 1 \in 0 .. UART_BUFFER_CNT
      BY <1>6, BuffersAssumption DEF ClearActive, Buffers
    <2>2. active' \in [Links -> [Buffers -> Flag]]
      BY <1>6, <2>1 DEF ClearActive, Flag
    <2> QED
      BY <1>6, <2>1, <2>2 DEF ClearActive, Looking, Handling
  <1>7. CASE Return
    BY <1>7, BuffersAssumption DEF Return, Looking, Handling, Links, Flag
  <1>8. CASE AfterOverrun
    BY <1>8 DEF AfterOverrun, vars, out, local
  <1> QED
    BY <1>1, <1>2, <1>3, <1>4, <1>5, <1>6, <1>7, <1>8

LEMMA TransmitType ==
  ASSUME TypeOK, Transmit \/ TransmitEnd
  PROVE  TypeOK'
  <1> USE DEF TypeOK, effects, ids, killed, power, still, buffers, saved,
      awaited, history, counts
  <1>1. CASE Transmit
    <2>1. len' \in Nat /\ index' \in Nat
      BY <1>1, PacketsAssumption DEF Transmit
    <2>2. seqnum' \in Byte
      BY <1>1 DEF Transmit, Byte
    <2> QED
      BY <1>1, <2>1, <2>2 DEF Transmit
  <1>2. CASE TransmitEnd
    BY <1>2, Small DEF TransmitEnd, Looking, Handling
  <1> QED
    BY <1>1, <1>2

LEMMA CrashType == ASSUME TypeOK, Crash PROVE TypeOK'
  <1>1. /\ rx' \in [Links -> [buffer_num : {NoBuffer} \cup Buffers,
                              frame : FrameType, stored : {0, 1}]]
        /\ \A l \in Links : rx'[l] = Idle /\ rx'[l].stored < PartsOf(rx'[l].frame)
    BY NoFrameType DEF Crash, Idle, PartsOf, NoFrame
  <1> QED
    BY <1>1, Small, BuffersAssumption
    DEF Crash, TypeOK, effects, ids, killed, power, message, saved, awaited,
      history, counts, Looking, Handling, Links, Flag

LEMMA RecoveryType == ASSUME TypeOK, Recovery PROVE TypeOK'
  <1> USE DEF TypeOK, effects, ids, killed, power, local, message, buffers,
      saved, awaited, counts, Silently
  <1>1. ASSUME NEW b \in Buffers, PutBackActive(b) PROVE TypeOK'
    <2>1. saved_active[b] \in Flag
      BY <1>1 DEF PutBackActive
    <2>2. active' \in [Links -> [Buffers -> Flag]]
      BY <1>1, <2>1 DEF PutBackActive, Links
    <2>3. saved_active' \in [Buffers -> Flag \cup {NotSaved}]
      BY <1>1 DEF PutBackActive
    <2>4. raced' \in [Links -> BOOLEAN]
      BY <1>1 DEF PutBackActive
    <2> QED
      BY <1>1, <2>2, <2>3, <2>4 DEF PutBackActive
  <1>2. ASSUME NEW b \in Buffers, PutBackComplete(b) PROVE TypeOK'
    <2>1. saved_complete[b] \in Flag
      BY <1>2 DEF PutBackComplete
    <2>2. complete' \in [Links -> [Buffers -> Flag]]
      BY <1>2, <2>1 DEF PutBackComplete, Links
    <2>3. saved_complete' \in [Buffers -> Flag \cup {NotSaved}]
      BY <1>2 DEF PutBackComplete
    <2>4. raced' \in [Links -> BOOLEAN] /\ erased' \in BOOLEAN
      BY <1>2 DEF PutBackComplete
    <2> QED
      BY <1>2, <2>2, <2>3, <2>4 DEF PutBackComplete
  <1>3. CASE Restore
    BY <1>3 DEF Restore, Looking, Handling
  <1> QED
    BY <1>1, <1>2, <1>3 DEF Recovery

LEMMA ApplicationType == ASSUME TypeOK, Application PROVE TypeOK'
  <1> USE DEF TypeOK, effects, ids, killed, power, message, still, buffers,
      saved, awaited, history, counts, local, Silently, AppDoes, Looking,
      Handling
  <1>1. ASSUME NEW l \in traffic.calls, CallProcess(l) PROVE TypeOK'
    <2>1. l \in Links
      BY TrafficAssumption DEF Links
    <2> QED
      BY <1>1, <2>1, BuffersAssumption DEF CallProcess
  <1>2. CASE WriteJump
    <2>1. got' \subseteq Numbered
      BY <1>2, SentType, Small DEF WriteJump, expt_write_jump, Cmd, Opcodes
    <2> QED
      BY <1>2, <2>1, Small DEF WriteJump, expt_write_jump, Flag
  <1>3. CASE AwaitGround
    BY <1>3, ValuesAssumption DEF AwaitGround, Flag
  <1>4. CASE SelfTest
    <2>1. got' \subseteq Numbered
      BY <1>4, SentType, Small DEF SelfTest, expt_ack_check, Cmd, Opcodes
    <2> QED
      BY <1>4, <2>1 DEF SelfTest
  <1>5. CASE SendMessage
    <2>1. len' \in Nat
      <3>1. len' \in Word
        BY <1>5, TrafficAssumption DEF SendMessage
      <3> HIDE DEF TypeOK
      <3> QED
        BY <3>1, WordInNat
    <2> QED
      BY <1>5, <2>1, Small DEF SendMessage
  <1>6. CASE Supply
    BY <1>6 DEF Supply, COMM_ENABLE, Flag
  <1>7. CASE Commit
    <2>1. /\ saved_complete' \in [Buffers -> Flag \cup {NotSaved}]
          /\ saved_active' \in [Buffers -> Flag \cup {NotSaved}]
      BY <1>7 DEF Commit
    <2> QED
      BY <1>7, <2>1 DEF Commit
  <1> QED
    BY <1>1, <1>2, <1>3, <1>4, <1>5, <1>6, <1>7 DEF Application

LEMMA AckOfType ==
  ASSUME NEW cmd, AckOf(cmd) # "none"
  PROVE  AckOf(cmd) \in {"ACK", "BOOTLOADER_ACK"}
  BY DEF AckOf

LEMMA BoardAcksType ==
  ASSUME TypeOK, BoardAcks
  PROVE  \E p \in got :
           /\ AckOf(p.cmd) \in {"ACK", "BOOTLOADER_ACK"}
           /\ p.seqnum \div 256 \in Byte
           /\ Ack(AckOf(p.cmd), p.seqnum \div 256) \in FrameType
           /\ Claim(1, Ack(AckOf(p.cmd), p.seqnum \div 256))
  <1>1. PICK p \in got : /\ AckOf(p.cmd) # "none"
                         /\ Claim(1, Ack(AckOf(p.cmd), p.seqnum \div 256))
    BY DEF BoardAcks
  <1>2. p.seqnum \in Word
    BY DEF TypeOK, Numbered
  <1>3. p.seqnum \div 256 \in Byte
    BY <1>2, HighByte
  <1>4. AckOf(p.cmd) \in {"ACK", "BOOTLOADER_ACK"}
    BY <1>1, AckOfType
  <1>5. AckOf(p.cmd) \in Opcodes
    BY <1>4 DEF Opcodes
  <1> QED
    BY <1>1, <1>3, <1>4, <1>5, AckType

LEMMA NextType == TypeOK /\ [Next]_vars => TypeOK'
  <1> SUFFICES ASSUME TypeOK, [Next]_vars PROVE TypeOK'
    OBVIOUS
  <1>1. CASE Main
    BY <1>1, RecoveryType, ScanType, HandleType, TransmitType DEF Main
  <1>2. CASE Application
    BY <1>2, ApplicationType
  <1>3. CASE Requests
    <2>1. /\ traffic.ground \subseteq FrameType
          /\ traffic.board \subseteq FrameType
      BY TrafficAssumption DEF TypeOK
    <2> QED
      BY <1>3, <2>1, ClaimType DEF Requests, Links
  <1>4. CASE BoardAcks
    BY <1>4, BoardAcksType, ClaimType DEF Links
  <1>5. CASE Crash
    BY <1>5, CrashType
  <1>6. CASE Receiving
    BY <1>6, ReceiveType DEF Receiving
  <1>7. CASE UNCHANGED vars
    BY <1>7 DEF vars, TypeOK, still, buffers, saved, awaited, history, counts,
      effects, ids, killed, power, local, message, out
  <1> QED
    BY <1>1, <1>2, <1>3, <1>4, <1>5, <1>6, <1>7 DEF Next

(* The variables keep their types, whatever arrives and however often the  *)
(* power fails.                                                            *)
THEOREM TypeCorrect == Spec => []TypeOK
  <1>1. Init => TypeOK
    BY InitType
  <1>2. TypeOK /\ [Next]_vars => TypeOK'
    BY NextType
  <1> QED
    BY <1>1, <1>2, PTL DEF Spec

-----------------------------------------------------------------------------
(* What goes out *)

LEMMA SilentWire == ASSUME wire' = Silent PROVE SentAsAsked'
  BY DEF SentAsAsked, Silent

LEMMA SilentSteps ==
  ASSUME \/ Recovery \/ Skip \/ Found \/ SaveActive \/ EndScore
         \/ ClearComplete \/ ClearActive \/ Return \/ Crash \/ Receiving
         \/ AwaitGround \/ SendMessage \/ Supply \/ Commit
         \/ \E l \in traffic.calls : CallProcess(l)
         \/ \E l \in Links : \E f : Claim(l, f)
  PROVE  wire' = Silent
  BY DEF Recovery, PutBackActive, PutBackComplete, Restore, Skip, Found,
    SaveActive, EndScore, ClearComplete, ClearActive, Return, Crash, Receiving,
    Receive, AwaitGround, SendMessage, Supply, Commit, CallProcess, Claim,
    Silently, Quiet

(* A command that is not refused goes out as it is.                        *)
LEMMA CommSend ==
  ASSUME NEW c, comm_send_cmd(c), c.cmd_len \in Nat,
         Refused(c) => c.cmd = "ASCII"
  PROVE  SentAsAsked'
  <1>1. /\ wire'.kind = "cmd" /\ wire'.link = 0 /\ wire'.asked = c
        /\ wire'.packet = format_pkt(comm_msg, c)
        /\ wire'.sent = 9 + c.cmd_len
    BY DEF comm_send_cmd, Sends
  <1>2. CASE Refused(c)
    <2>1. c.cmd_len > OPENLST_MAX_PAYLOAD_LEN - HeaderLen
      BY <1>2, PacketsAssumption DEF Refused, HeaderLen
    <2> QED
      BY <1>1, <1>2, <2>1 DEF SentAsAsked
  <1>3. CASE ~Refused(c)
    <2>1. 9 + c.cmd_len = PRE_HEADER_LEN + (HeaderLen + c.cmd_len)
      BY DEF PRE_HEADER_LEN, HeaderLen
    <2> QED
      BY <1>1, <1>3, <2>1 DEF SentAsAsked, format_pkt
  <1> QED
    BY <1>2, <1>3

LEMMA ExptSend ==
  ASSUME NEW c, expt_send_cmd(c), c.cmd_len \in 0 .. 8
  PROVE  SentAsAsked'
  <1>1. ~Refused(c)
    BY PacketsAssumption DEF Refused, HeaderLen
  <1>2. /\ wire'.kind = "cmd" /\ wire'.asked = c
        /\ wire'.packet = format_pkt(expt_msg, c)
        /\ wire'.sent = 3 + c.cmd_len + HeaderLen
    BY <1>1 DEF expt_send_cmd, Sends
  <1>3. 3 + c.cmd_len + HeaderLen = PRE_HEADER_LEN + (HeaderLen + c.cmd_len)
    BY DEF PRE_HEADER_LEN, HeaderLen
  <1> QED
    BY <1>1, <1>2, <1>3 DEF SentAsAsked, format_pkt

LEMMA AnswerSend ==
  ASSUME NEW cmd, NEW n \in 0 .. 45
  PROVE  /\ Answer(frame, cmd, n).cmd_len = n
         /\ ~Refused(Answer(frame, cmd, n))
  BY PacketsAssumption DEF Answer, Cmd, Refused, HeaderLen

LEMMA HandleWire ==
  ASSUME TypeOK, Handle
  PROVE  SentAsAsked'
  <1>1. ASSUME Relay PROVE SentAsAsked'
    BY <1>1 DEF Relay, send_raw, SentAsAsked
  <1>2. ASSUME Switch0 PROVE SentAsAsked'
    <2>1. CASE wire' = Silent
      BY <2>1, SilentWire
    <2>2. CASE \E n \in 0 .. 45 : \E cmd : comm_send_cmd(Answer(frame, cmd, n))
      <3>1. PICK n \in 0 .. 45 : \E cmd : comm_send_cmd(Answer(frame, cmd, n))
        BY <2>2
      <3>2. PICK cmd : comm_send_cmd(Answer(frame, cmd, n))
        BY <3>1
      <3> QED
        BY <3>2, AnswerSend, CommSend
    <2>3. CASE Ack0
      BY <2>1, <2>2, <2>3 DEF Ack0, Silently, Quiet
    <2>4. CASE GetTelem
      <3>1. TELEM_LEN \in 0 .. 45
        BY DEF TELEM_LEN
      <3> QED
        BY <2>2, <2>4, <3>1 DEF GetTelem
    <2>5. CASE PopRing
      <3>1. wire' = Silent \/ comm_send_cmd(Answer(frame, "NACK", 0))
        BY <2>5 DEF PopRing, Silently, Quiet
      <3> QED
        BY <2>1, <2>2, <3>1
    <2>6. CASE update_rf_kill_count \/ StartScore
      BY <2>1, <2>6 DEF update_rf_kill_count, StartScore, Silently, Quiet
    <2>7. CASE OtherAscii \/ Unsupported({"ACK", "GET_TELEM", "ASCII"})
      BY <2>1, <2>7 DEF OtherAscii, Unsupported, Silently, Quiet
    <2> QED
      BY <1>2, <2>3, <2>4, <2>5, <2>6, <2>7 DEF Switch0
  <1>3. ASSUME Switch1 PROVE SentAsAsked'
    <2>1. CASE wire' = Silent
      BY <2>1, SilentWire
    <2>2. CASE Ack1 /\ wire' # Silent
      <3>1. expt_send_cmd(Answer(frame, "ACK", 0))
        BY <2>2 DEF Ack1, ToBoard, Silently, Quiet
      <3> QED
        BY <3>1, AnswerSend, ExptSend
    <2>3. CASE GetTime
      <3>1. PICK cmd \in Opcodes, n \in 0 .. 8 :
              \E payload : SetTime(cmd, n, payload)
        BY <2>3, GetTimeSends
      <3>2. PICK payload : SetTime(cmd, n, payload)
        BY <3>1
      <3> QED
        BY <3>1, <3>2, ExptSend DEF SetTime, ToBoard, Cmd
    <2> QED
      BY <1>3, <2>1, <2>2, <2>3
      DEF Switch1, BootloaderAck, PushAscii, Unsupported, Silently, Quiet
  <1> QED
    BY <1>1, <1>2, <1>3 DEF Handle

LEMMA TransmitWire ==
  ASSUME TypeOK, Transmit \/ TransmitEnd
  PROVE  SentAsAsked'
  <1>1. CASE Transmit
    BY <1>1, CommSend, PacketsAssumption DEF Transmit, TransmitPiece, Cmd
  <1>2. CASE TransmitEnd
    BY <1>2, CommSend DEF TransmitEnd, TransmitLast, Cmd, TypeOK
  <1> QED
    BY <1>1, <1>2

LEMMA NextWire ==
  TypeOK /\ SentAsAsked /\ [Next]_vars => SentAsAsked'
  <1> SUFFICES ASSUME TypeOK, SentAsAsked, [Next]_vars PROVE SentAsAsked'
    OBVIOUS
  <1>1. CASE Handle
    BY <1>1, HandleWire
  <1>2. CASE Transmit \/ TransmitEnd
    BY <1>2, TransmitWire
  <1>3. CASE WriteJump
    BY <1>3, ExptSend DEF WriteJump, expt_write_jump, ToBoard, Cmd
  <1>4. CASE SelfTest
    <2>1. \A c \in {comm_ack_check, comm_rf_check, comm_transmit_ready} :
            c.cmd_len \in Nat /\ (Refused(c) => c.cmd = "ASCII")
      BY PacketsAssumption
      DEF comm_ack_check, comm_rf_check, comm_transmit_ready, COMM_TEST_LEN,
        Cmd, Refused, HeaderLen
    <2>2. expt_ack_check.cmd_len \in 0 .. 8
      BY DEF expt_ack_check, Cmd
    <2> QED
      BY <1>4, <2>1, <2>2, CommSend, ExptSend DEF SelfTest, ToBoard
  <1>5. CASE Requests \/ BoardAcks
    BY <1>5, SilentSteps, SilentWire DEF Requests, BoardAcks, Links
  <1>6. CASE AfterOverrun \/ UNCHANGED vars
    BY <1>6 DEF AfterOverrun, vars, out, SentAsAsked
  <1>7. CASE Main \/ Application \/ Crash \/ Receiving
    BY <1>1, <1>2, <1>3, <1>4, <1>6, <1>7, SilentSteps, SilentWire
    DEF Main, Application
  <1> QED
    BY <1>5, <1>6, <1>7 DEF Next

(* What the program asks to send goes out as it is, on both links, but for *)
(* messages that leave no room for the header.                             *)
THEOREM SentAsIs == Spec => []SentAsAsked
  <1>1. Init => SentAsAsked
    BY DEF Init, Silent, SentAsAsked
  <1> QED
    BY <1>1, NextWire, TypeCorrect, PTL DEF Spec

-----------------------------------------------------------------------------
(* Where, and whose a buffer is *)

LEMMA HandleFrame ==
  ASSUME TypeOK, Handle
  PROVE  /\ pc = "handle" /\ pc' \in {"clear", "score", "transmit", "overrun"}
         /\ UNCHANGED <<buffers, saved, history, traffic, link, i>>
         /\ UNCHANGED <<active, complete, pkt, rx, saved_complete,
                        saved_active, kills, heard, stale, erased, reclaimed,
                        raced>>
         /\ frame' = frame
         /\ link # 0 => pc' \in {"clear", "overrun"}
  <1>1. /\ pc = "handle"
        /\ UNCHANGED <<buffers, saved, history, traffic, link, i>>
    BY DEF Handle, still
  <1>2. frame \in FrameType
    BY <1>1, FrameInHandle DEF Handling
  <1>3. pc' \in {"clear", "score", "transmit", "overrun"}
    BY <1>2, RelayType, Switch0Type, Switch1Type DEF Handle, Handled
  <1>4. link # 0 => pc' \in {"clear", "overrun"}
    BY DEF Handle, Relay, Switch1, Ack1, BootloaderAck, GetTime, PushAscii,
      Unsupported, Ends
  <1> QED
    BY <1>1, <1>3, <1>4 DEF buffers, saved, history, counts, frame

LEMMA ApplicationSteps ==
  ASSUME Application
  PROVE  /\ pc = "app" /\ pc' \in {"app", "scan", "app_transmit"}
         /\ UNCHANGED <<buffers, killed, score_msg, erased, raced, counts>>
         /\ Commit \/ UNCHANGED <<saved, reclaimed>>
         /\ pc' = "scan" \/ ret_val' = ret_val
         /\ pc' # "scan" => link' = link
         /\ pc' = "scan" => ret_val' = "none"
  BY DEF Application, CallProcess, WriteJump, AwaitGround, SelfTest,
    SendMessage, Supply, Commit, AppDoes, local, still, effects, history

LEMMA NextWhere == TypeOK /\ Where /\ [Next]_vars => Where'
  <1> SUFFICES ASSUME TypeOK, Where, [Next]_vars PROVE Where'
    OBVIOUS
  <1> USE DEF Where, Handling
  <1>1. CASE Handle
    BY <1>1, HandleFrame
  <1>2. CASE Found \/ Skip \/ Return
    BY <1>2 DEF Found, Skip, Return, effects, killed
  <1>3. CASE SaveActive
    <2>1. i \in Buffers /\ active[0][i] \in Flag
      BY <1>3 DEF SaveActive, TypeOK, Looking, Links
    <2>2. saved_active'[i] # NotSaved
      BY <1>3, <2>1, SavedType DEF SaveActive, TypeOK
    <2> QED
      BY <1>3, <2>2 DEF SaveActive
  <1>4. CASE ClearComplete \/ ClearActive
    BY <1>4 DEF ClearComplete, ClearActive, saved
  <1>5. CASE Crash
    BY <1>5 DEF Crash
  <1>6. CASE Recovery
    BY <1>6 DEF Recovery, PutBackActive, PutBackComplete, Restore, local,
      effects, killed
  <1>7. CASE EndScore \/ Transmit \/ TransmitEnd
    BY <1>7 DEF EndScore, Transmit, TransmitEnd, still, saved, effects, killed
  <1>8. CASE Application
    BY <1>8, ApplicationSteps
  <1>9. CASE Requests \/ BoardAcks \/ Receiving
    <2>1. UNCHANGED <<pc, link, i, ret_val, rf_kill_count, saved_active>>
      BY <1>9 DEF Requests, BoardAcks, Receiving, Claim, Receive, saved, local,
        effects, killed
    <2> QED
      BY <2>1
  <1>10. CASE AfterOverrun \/ UNCHANGED vars
    BY <1>10 DEF AfterOverrun, vars, still, saved, effects, killed, local
  <1> QED
    BY <1>1, <1>2, <1>3, <1>4, <1>5, <1>6, <1>7, <1>8, <1>9, <1>10
    DEF Next, Main

(* A step that leaves the pool and the log, and comes to no new buffer.    *)
LEMMA PoolStays ==
  ASSUME Pool,
         UNCHANGED <<active, complete, rx, saved_complete, saved_active,
                     reclaimed, raced>>,
         \/ pc' \notin Looking \cup {"clear_active"}
         \/ /\ UNCHANGED <<link, i>>
            /\ pc' \in Looking => pc \in Looking
            /\ pc' = "clear_active" => pc = "clear_active"
  PROVE  Pool'
  BY DEF Pool, Owned, Logged, Visible

LEMMA ClaimPool ==
  ASSUME TypeOK, Pool, NEW l \in Links, NEW f \in FrameType, Claim(l, f)
  PROVE  Pool'
  <1>1. PICK b \in Buffers :
          /\ ~Visible(l, b)
          /\ rx' = [rx EXCEPT ![l] = [buffer_num |-> b, frame |-> f,
                                       stored |-> 0]]
          /\ reclaimed' = IF l = 0 /\ InLog(b) THEN reclaimed \cup {b}
                          ELSE reclaimed
          /\ raced' = [raced EXCEPT ![l] =
                         @ \/ (pc = "clear_active" /\ link = l /\ i = b)]
          /\ active'[l][b] = 1
          /\ \A m \in Links, c \in Buffers : m # l \/ c # b =>
               active'[m][c] = active[m][c]
          /\ UNCHANGED <<complete, saved_complete, saved_active, pc, link, i>>
    BY ClaimStores DEF local
  <1>2. \A m \in Links :
          rx'[m].buffer_num = IF m = l THEN b ELSE rx[m].buffer_num
    BY <1>1 DEF TypeOK
  <1>3. \A m \in Links :
          raced'[m] <=> \/ raced[m]
                        \/ m = l /\ pc = "clear_active" /\ link = l /\ i = b
    BY <1>1 DEF TypeOK
  <1>4. ASSUME NEW m \in Links, ~raced'[m] PROVE Owned(m)'
    <2>1. Owned(m) /\ ~(m = l /\ pc = "clear_active" /\ link = l /\ i = b)
      BY <1>3, <1>4 DEF Pool
    <2>2. m = l => complete[m][b] = 0
      <3>1. complete[m][b] \in {0, 1}
        BY DEF TypeOK, Flag
      <3> QED
        BY <1>1, <2>1, <3>1 DEF Owned, Visible
    <2>3. \A c \in Buffers : active'[m][c] = IF m = l /\ c = b THEN 1
                                             ELSE active[m][c]
      BY <1>1
    <2>4. pc \in Looking \cup {"clear_active"} => i \in Buffers
      BY DEF TypeOK
    <2>5. ASSUME pc \in Looking, link = m PROVE Visible(m, i)'
      <3>1. active[m][i] = 1 /\ complete[m][i] = 1
        BY <2>1, <2>5 DEF Owned, Visible
      <3> QED
        BY <1>1, <2>3, <2>4, <2>5, <3>1 DEF Visible
    <2>6. ASSUME pc = "clear_active", link = m
          PROVE  complete[m][i] = 0 /\ rx'[m].buffer_num # i
      BY <1>2, <2>1, <2>6 DEF Owned
    <2>7. ASSUME NEW c \in Buffers
          PROVE  /\ rx'[m].buffer_num = c =>
                      active'[m][c] = 1 /\ complete[m][c] = 0
                 /\ complete[m][c] = 1 => active'[m][c] = 1
      BY <1>2, <2>1, <2>2, <2>3 DEF Owned
    <2> QED
      BY <1>1, <2>5, <2>6, <2>7 DEF Owned
  <1>5. ASSUME ~raced'[0], NEW c \in Buffers \ reclaimed' PROVE Logged(c)'
    <2>1. ~raced[0] /\ c \in Buffers \ reclaimed
      BY <1>1, <1>3, <1>5 DEF Links
    <2>2. Logged(c)
      BY <2>1 DEF Pool
    <2>3. l = 0 /\ c = b => ~InLog(c)
      BY <1>1, <1>5
    <2>4. CASE l = 0 /\ c = b
      BY <1>1, <2>3, <2>4 DEF Logged, InLog, NotSaved
    <2>5. CASE ~(l = 0 /\ c = b)
      <3>1. active'[0][c] = active[0][c]
        BY <1>1, <2>5 DEF Links
      <3>2. rx'[0].buffer_num = c => rx[0].buffer_num = c
        BY <1>2, <2>5 DEF Links
      <3> QED
        BY <1>1, <2>2, <3>1, <3>2 DEF Logged
    <2> QED
      BY <2>4, <2>5
  <1> QED
    BY <1>4, <1>5 DEF Pool

LEMMA ReceivePool ==
  ASSUME TypeOK, Pool, NEW l \in Links, Receive(l)
  PROVE  Pool'
  <1>1. PICK b \in Buffers, n \in 1 .. 2 :
          /\ rx[l].buffer_num = b
          /\ rx' = [rx EXCEPT ![l] = IF Whole(l) THEN Idle
                                     ELSE [rx[l] EXCEPT !.stored = n]]
          /\ complete'[l][b] = IF Whole(l) THEN 1 ELSE complete[l][b]
          /\ \A m \in Links, c \in Buffers : m # l \/ c # b =>
               complete'[m][c] = complete[m][c]
          /\ UNCHANGED <<active, saved_complete, saved_active, pc, link, i,
                         reclaimed, raced>>
    BY ReceiveStores DEF local
  <1>2. \A m \in Links :
          rx'[m].buffer_num = IF m = l /\ Whole(l) THEN NoBuffer
                              ELSE rx[m].buffer_num
    BY <1>1 DEF TypeOK, Idle
  <1>3. NoBuffer \notin Buffers
    BY DEF NoBuffer, Buffers
  <1>4. pc \in Looking \cup {"clear_active"} => i \in Buffers
    BY DEF TypeOK
  <1>5. ASSUME NEW m \in Links, ~raced[m] PROVE Owned(m)'
    <2>1. Owned(m)
      BY <1>5 DEF Pool
    <2>2. ASSUME pc \in Looking, link = m PROVE Visible(m, i)'
      <3>1. active[m][i] = 1 /\ complete[m][i] = 1
        BY <2>1, <2>2 DEF Owned, Visible
      <3> QED
        BY <1>1, <1>4, <2>2, <3>1 DEF Visible
    <2>3. ASSUME pc = "clear_active", link = m
          PROVE  complete'[m][i] = 0 /\ rx'[m].buffer_num # i
      BY <1>1, <1>2, <1>3, <1>4, <2>1, <2>3 DEF Owned
    <2>4. ASSUME NEW c \in Buffers
          PROVE  /\ rx'[m].buffer_num = c =>
                      active[m][c] = 1 /\ complete'[m][c] = 0
                 /\ complete'[m][c] = 1 => active[m][c] = 1
      BY <1>1, <1>2, <1>3, <2>1 DEF Owned
    <2> QED
      BY <1>1, <2>2, <2>3, <2>4 DEF Owned
  <1>6. ASSUME ~raced[0], NEW c \in Buffers \ reclaimed PROVE Logged(c)'
    <2>1. Logged(c)
      BY <1>6 DEF Pool
    <2>2. rx'[0].buffer_num = c => rx[0].buffer_num = c
      BY <1>2, <1>3 DEF Links
    <2> QED
      BY <1>1, <2>1, <2>2 DEF Logged
  <1> QED
    BY <1>1, <1>5, <1>6 DEF Pool

LEMMA SavePool ==
  ASSUME TypeOK, Pool, Found \/ SaveActive
  PROVE  Pool'
  <1>1. i \in Buffers /\ pc' \in Looking
    BY BuffersAssumption
    DEF Found, SaveActive, TypeOK, Looking, Handling, Buffers
  <1>2. /\ UNCHANGED <<active, complete, rx, reclaimed, raced, link, i>>
        /\ pc \in {"scan", "save"} /\ (pc = "scan" => Visible(link, i))
    BY DEF Found, SaveActive, buffers, history
  <1>3. ASSUME NEW l \in Links, ~raced[l] PROVE Owned(l)'
    <2>1. Owned(l)
      BY <1>3 DEF Pool
    <2> QED
      BY <1>1, <1>2, <2>1 DEF Owned, Visible, Looking, Handling
  <1>4. ASSUME ~raced[0], NEW c \in Buffers \ reclaimed PROVE Logged(c)'
    <2>1. Logged(c) /\ Owned(0)
      BY <1>4 DEF Pool, Links
    <2>2. active[0][c] \in {0, 1} /\ complete[0][c] \in {0, 1}
      BY DEF TypeOK, Flag, Links
    <2>3. saved_active[c] \in {0, 1, NotSaved}
      BY DEF TypeOK, Flag
    <2>4. CASE Found
      <3>1. /\ saved_complete'[c] = IF c = i /\ saved_complete[c] = NotSaved
                                    THEN complete[0][c] ELSE saved_complete[c]
            /\ UNCHANGED saved_active
        BY <1>1, <2>4 DEF Found, Saved, TypeOK
      <3>2. complete[0][c] = 1 => active[0][c] = 1 /\ rx[0].buffer_num # c
        BY <2>1 DEF Owned
      <3> QED
        BY <1>2, <2>1, <2>3, <3>1, <3>2 DEF Logged
    <2>5. CASE SaveActive
      <3>1. /\ saved_active'[c] = IF c = i /\ saved_active[c] = NotSaved
                                  THEN active[0][c] ELSE saved_active[c]
            /\ UNCHANGED saved_complete
        BY <1>1, <2>5 DEF SaveActive, Saved, TypeOK
      <3> QED
        BY <1>2, <2>1, <2>2, <3>1 DEF Logged, NotSaved
    <2> QED
      BY <2>4, <2>5
  <1> QED
    BY <1>2, <1>3, <1>4 DEF Pool

LEMMA ClearPool ==
  ASSUME TypeOK, Where, Pool, ClearComplete \/ ClearActive
  PROVE  Pool'
  <1>1. /\ i \in Buffers /\ link \in Links
        /\ UNCHANGED <<rx, saved_complete, saved_active, reclaimed, raced,
                       link>>
    BY DEF ClearComplete, ClearActive, TypeOK, Looking, Handling, saved,
      history
  <1>2. CASE ClearComplete
    <2>1. /\ pc = "clear" /\ pc' = "clear_active" /\ UNCHANGED <<active, i>>
          /\ \A l \in Links, b \in Buffers :
               complete'[l][b] = IF l = link /\ b = i THEN 0 ELSE complete[l][b]
      BY <1>1, <1>2 DEF ClearComplete, TypeOK
    <2>2. ASSUME NEW l \in Links, ~raced[l] PROVE Owned(l)'
      <3>1. Owned(l)
        BY <2>2 DEF Pool
      <3>2. link = l => complete[l][i] = 1
        BY <2>1, <3>1 DEF Owned, Visible, Looking, Handling
      <3>3. link = l => rx[l].buffer_num # i
        BY <1>1, <3>1, <3>2 DEF Owned
      <3> QED
        BY <1>1, <2>1, <3>1, <3>3 DEF Owned, Looking, Handling
    <2>3. ASSUME NEW c \in Buffers, Logged(c) PROVE Logged(c)'
      BY <1>1, <2>1, <2>3 DEF Logged
    <2> QED
      BY <1>1, <2>2, <2>3 DEF Pool
  <1>3. CASE ClearActive
    <2>1. /\ pc = "clear_active" /\ pc' = "scan" /\ UNCHANGED complete
          /\ \A l \in Links, b \in Buffers :
               active'[l][b] = IF l = link /\ b = i THEN 0 ELSE active[l][b]
      BY <1>1, <1>3 DEF ClearActive, TypeOK
    <2>2. ASSUME NEW l \in Links, ~raced[l] PROVE Owned(l)'
      <3>1. Owned(l)
        BY <2>2 DEF Pool
      <3>2. link = l => complete[l][i] = 0 /\ rx[l].buffer_num # i
        BY <2>1, <3>1 DEF Owned
      <3> QED
        BY <1>1, <2>1, <3>1, <3>2 DEF Owned, Looking, Handling
    <2>3. ASSUME NEW c \in Buffers, Logged(c) PROVE Logged(c)'
      <3>1. active'[0][c] = IF link = 0 /\ c = i THEN 0 ELSE active[0][c]
        BY <2>1 DEF Links
      <3>2. saved_active[i] # NotSaved
        BY <2>1 DEF Where
      <3> QED
        BY <1>1, <2>3, <3>1, <3>2 DEF Logged
    <2> QED
      BY <1>1, <2>2, <2>3 DEF Pool
  <1> QED
    BY <1>2, <1>3

LEMMA RecoveryPool ==
  ASSUME TypeOK, Pool, Recovery
  PROVE  Pool'
  <1>1. ASSUME NEW b \in Buffers, PutBackActive(b) PROVE Pool'
    <2>1. /\ pc = "boot" /\ saved_active[b] # NotSaved
          /\ UNCHANGED <<complete, rx, saved_complete, reclaimed, pc, link, i>>
          /\ active' = [active EXCEPT ![0][b] = saved_active[b]]
          /\ saved_active' = [saved_active EXCEPT ![b] = NotSaved]
          /\ raced' = [raced EXCEPT ![0] = raced[0] \/ b \in reclaimed]
      BY <1>1 DEF PutBackActive, local
    <2>2. \A l \in Links, c \in Buffers :
            active'[l][c] = IF l = 0 /\ c = b THEN saved_active[b] ELSE active[l][c]
      BY <2>1 DEF TypeOK
    <2>3. \A c \in Buffers :
            saved_active'[c] = IF c = b THEN NotSaved ELSE saved_active[c]
      BY <2>1 DEF TypeOK
    <2>4. 0 \in Links /\ 1 \in Links /\ raced \in [Links -> BOOLEAN]
      BY DEF Links, TypeOK
    <2>5. /\ ~raced'[0] => ~raced[0] /\ b \notin reclaimed
          /\ ~raced'[1] => ~raced[1]
      BY <2>1, <2>4
    <2>6. ASSUME ~raced'[0]
          PROVE  ~raced[0] /\ Owned(0) /\ Logged(b) /\ b \notin reclaimed
      BY <2>5, <2>6 DEF Pool, Links
    <2>7. saved_active[b] \in {0, 1}
      BY <2>1 DEF TypeOK, Flag
    <2>8. ASSUME ~raced'[0] PROVE Owned(0)'
      <3>1. \A c \in Buffers : active[0][c] = 1 => active'[0][c] = 1
        BY <2>2, <2>6, <2>7, <2>8 DEF Logged, Links
      <3> QED
        BY <2>1, <2>6, <2>8, <3>1 DEF Owned, Looking, Handling
    <2>9. ASSUME ~raced'[1] PROVE Owned(1)'
      <3>1. Owned(1)
        BY <2>5, <2>9 DEF Pool, Links
      <3>2. \A c \in Buffers : active'[1][c] = active[1][c]
        BY <2>2 DEF Links
      <3> QED
        BY <2>1, <3>1, <3>2 DEF Owned, Looking, Handling
    <2>10. ASSUME ~raced'[0], NEW c \in Buffers \ reclaimed PROVE Logged(c)'
      <3>1. Logged(c)
        BY <2>6, <2>10 DEF Pool
      <3>2. active'[0][c] = IF c = b THEN saved_active[b] ELSE active[0][c]
        BY <2>2 DEF Links
      <3> QED
        BY <2>1, <2>3, <2>7, <3>1, <3>2 DEF Logged, NotSaved
    <2> QED
      BY <2>5, <2>1, <2>8, <2>9, <2>10 DEF Pool, Links
  <1>2. ASSUME NEW b \in Buffers, PutBackComplete(b) PROVE Pool'
    <2>1. /\ pc = "boot" /\ saved_complete[b] # NotSaved
          /\ saved_active[b] = NotSaved
          /\ UNCHANGED <<active, rx, saved_active, reclaimed, pc, link, i>>
          /\ complete' = [complete EXCEPT ![0][b] = saved_complete[b]]
          /\ saved_complete' = [saved_complete EXCEPT ![b] = NotSaved]
          /\ raced' = [raced EXCEPT ![0] = raced[0] \/ b \in reclaimed]
      BY <1>2 DEF PutBackComplete, local
    <2>2. \A l \in Links, c \in Buffers :
            complete'[l][c] = IF l = 0 /\ c = b THEN saved_complete[b] ELSE complete[l][c]
      BY <2>1 DEF TypeOK
    <2>3. \A c \in Buffers :
            saved_complete'[c] = IF c = b THEN NotSaved ELSE saved_complete[c]
      BY <2>1 DEF TypeOK
    <2>4. 0 \in Links /\ 1 \in Links /\ raced \in [Links -> BOOLEAN]
      BY DEF Links, TypeOK
    <2>5. /\ ~raced'[0] => ~raced[0] /\ b \notin reclaimed
          /\ ~raced'[1] => ~raced[1]
      BY <2>1, <2>4
    <2>6. ASSUME ~raced'[0]
          PROVE  ~raced[0] /\ Owned(0) /\ Logged(b) /\ b \notin reclaimed
      BY <2>5, <2>6 DEF Pool, Links
    <2>7. saved_complete[b] \in {0, 1}
      BY <2>1 DEF TypeOK, Flag
    <2>8. ASSUME ~raced'[0] PROVE Owned(0)'
      <3>1. saved_complete[b] = 1 => active[0][b] = 1 /\ rx[0].buffer_num # b
        BY <2>1, <2>6, <2>8 DEF Logged, NotSaved
      <3>2. \A c \in Buffers : complete'[0][c] = IF c = b THEN saved_complete[b]
                                                 ELSE complete[0][c]
        BY <2>2 DEF Links
      <3> QED
        BY <2>1, <2>6, <2>7, <2>8, <3>1, <3>2 DEF Owned, Looking, Handling
    <2>9. ASSUME ~raced'[1] PROVE Owned(1)'
      <3>1. Owned(1)
        BY <2>5, <2>9 DEF Pool, Links
      <3>2. \A c \in Buffers : complete'[1][c] = complete[1][c]
        BY <2>2 DEF Links
      <3> QED
        BY <2>1, <3>1, <3>2 DEF Owned, Looking, Handling
    <2>10. ASSUME ~raced'[0], NEW c \in Buffers \ reclaimed PROVE Logged(c)'
      <3>1. Logged(c)
        BY <2>6, <2>10 DEF Pool
      <3> QED
        BY <2>1, <2>3, <3>1 DEF Logged, NotSaved
    <2> QED
      BY <2>5, <2>1, <2>8, <2>9, <2>10 DEF Pool, Links
  <1>3. CASE Restore
    <2>1. /\ pc' = "app" /\ \A b \in Buffers : ~InLog(b)
          /\ UNCHANGED <<active, complete, rx, saved_complete, saved_active,
                         raced>>
      BY <1>3 DEF Restore, buffers, saved
    <2>2. \A b \in Buffers : Logged(b)'
      BY <2>1 DEF Logged, InLog, NotSaved
    <2> QED
      BY <2>1, <2>2 DEF Pool, Owned, Looking, Handling
  <1> QED
    BY <1>1, <1>2, <1>3 DEF Recovery

LEMMA NextPool == TypeOK /\ Where /\ Pool /\ [Next]_vars => Pool'
  <1> SUFFICES ASSUME TypeOK, Where, Pool, [Next]_vars PROVE Pool'
    OBVIOUS
  <1>1. CASE Handle
    BY <1>1, HandleFrame, PoolStays DEF Looking, Handling
  <1>2. CASE Found \/ SaveActive
    BY <1>2, SavePool
  <1>3. CASE ClearComplete \/ ClearActive
    BY <1>3, ClearPool
  <1>4. CASE Recovery
    BY <1>4, RecoveryPool
  <1>5. CASE Crash
    <2>1. /\ pc' = "boot" /\ \A l \in Links : rx'[l].buffer_num = NoBuffer
          /\ UNCHANGED <<active, complete, saved_complete, saved_active,
                         reclaimed, raced>>
      BY <1>5 DEF Crash, Idle, saved, history
    <2>2. NoBuffer \notin Buffers
      BY DEF NoBuffer, Buffers
    <2> QED
      BY <2>1, <2>2 DEF Pool, Owned, Logged, Looking, Handling, Links
  <1>6. CASE Application
    <2>1. CASE Commit
      <3>1. /\ \A b \in Buffers : saved_complete'[b] = NotSaved
            /\ \A b \in Buffers : saved_active'[b] = NotSaved
            /\ pc' = "app" /\ UNCHANGED <<active, complete, rx, raced>>
        BY <2>1 DEF Commit, buffers, local
      <3>2. \A b \in Buffers : Logged(b)'
        BY <3>1 DEF Logged, NotSaved
      <3> QED
        BY <3>1, <3>2 DEF Pool, Owned, Looking, Handling
    <2>2. CASE ~Commit
      BY <1>6, <2>2, ApplicationSteps, PoolStays
      DEF buffers, saved, Looking, Handling
    <2> QED
      BY <2>1, <2>2
  <1>7. CASE Skip \/ Return
    BY <1>7, PoolStays DEF Skip, Return, still, buffers, saved, history,
      Looking, Handling
  <1>8. CASE EndScore \/ Transmit \/ TransmitEnd
    BY <1>8, PoolStays DEF EndScore, Transmit, TransmitEnd, still, buffers,
      saved, history, Looking, Handling
  <1>9. CASE Requests \/ BoardAcks
    <2>1. /\ traffic.ground \subseteq FrameType
          /\ traffic.board \subseteq FrameType
      BY TrafficAssumption DEF TypeOK
    <2> QED
      BY <1>9, <2>1, BoardAcksType, ClaimPool DEF Requests, Links
  <1>10. CASE Receiving
    BY <1>10, ReceivePool DEF Receiving
  <1>11. CASE AfterOverrun \/ UNCHANGED vars
    BY <1>11, PoolStays DEF AfterOverrun, vars, still, buffers, saved, history,
      local
  <1> QED
    BY <1>1, <1>2, <1>3, <1>4, <1>5, <1>6, <1>7, <1>8, <1>9, <1>10, <1>11
    DEF Next, Main

LEMMA InitPool == Init => Where /\ Pool
  <1> SUFFICES ASSUME Init PROVE Where /\ Pool
    OBVIOUS
  <1>1. NoBuffer \notin Buffers
    BY DEF NoBuffer, Buffers
  <1>2. Where
    BY DEF Init, Where, Handling
  <1>3. \A l \in Links : Owned(l)
    BY <1>1 DEF Init, Owned, Idle, Looking, Handling, Links
  <1>4. \A b \in Buffers : Logged(b)
    BY DEF Init, Logged, NotSaved
  <1> QED
    BY <1>2, <1>3, <1>4 DEF Pool

-----------------------------------------------------------------------------
(* Kill commands *)

LEMMA CountsAreFinite ==
  /\ IsFiniteSet(Showing) /\ IsFiniteSet(Uncounted)
  /\ Cardinality(Showing) \in Nat /\ Cardinality(Uncounted) \in Nat
  <1>1. IsFiniteSet(Buffers)
    BY BuffersAssumption, FS_Interval DEF Buffers
  <1>2. Showing \in SUBSET Buffers /\ Uncounted \in SUBSET Buffers
    BY DEF Showing, Uncounted
  <1> QED
    BY <1>1, <1>2, FS_Subset, FS_CardinalityType

LEMMA CountsAreFiniteAfter ==
  /\ IsFiniteSet(Showing') /\ IsFiniteSet(Uncounted')
  /\ Cardinality(Showing') \in Nat /\ Cardinality(Uncounted') \in Nat
  <1>1. IsFiniteSet(Buffers)
    BY BuffersAssumption, FS_Interval DEF Buffers
  <1>2. Showing' \in SUBSET Buffers /\ Uncounted' \in SUBSET Buffers
    BY DEF Showing, Uncounted
  <1> QED
    BY <1>1, <1>2, FS_Subset, FS_CardinalityType

LEMMA OneMore ==
  ASSUME NEW S, IsFiniteSet(S), NEW x, NEW T, T \subseteq S \cup {x}
  PROVE  Cardinality(T) <= Cardinality(S) + 1
  <1>1. /\ IsFiniteSet(S \cup {x})
        /\ \/ Cardinality(S \cup {x}) = Cardinality(S)
           \/ Cardinality(S \cup {x}) = Cardinality(S) + 1
    BY FS_AddElement
  <1>2. IsFiniteSet(T) /\ Cardinality(T) <= Cardinality(S \cup {x})
    BY <1>1, FS_Subset
  <1>3. Cardinality(S) \in Nat /\ Cardinality(T) \in Nat
    BY <1>2, FS_CardinalityType
  <1> QED
    BY <1>1, <1>2, <1>3

(* A claim changes neither what a buffer shows nor, on link 0, a buffer    *)
(* that is marked.                                                         *)
LEMMA ClaimKeeps ==
  ASSUME TypeOK, Pool, NEW l \in Links, NEW f \in FrameType, Claim(l, f),
         ~raced'[0]
  PROVE  /\ ~raced[0] /\ reclaimed \subseteq reclaimed'
         /\ \A c \in Buffers :
              /\ ShowsKill(pkt'[0][c]) <=> ShowsKill(pkt[0][c])
              /\ IsScore(pkt'[0][c]) <=> IsScore(pkt[0][c])
              /\ complete[0][c] = 1 => /\ active'[0][c] = 1
                                       /\ pkt'[0][c] = pkt[0][c]
         /\ UNCHANGED <<complete, saved_complete, saved_active, effects, pc,
                        link, i, kills, heard, stale, erased, killed,
                        rf_kill_count, libartibeus_rf_dead, score_msg>>
  <1>1. PICK b \in Buffers :
          /\ ~Visible(l, b)
          /\ pkt'[l][b] = Stored(pkt[l][b], f, 0)
          /\ \A m \in Links, c \in Buffers : m # l \/ c # b =>
               pkt'[m][c] = pkt[m][c] /\ active'[m][c] = active[m][c]
          /\ active'[l][b] = 1
          /\ reclaimed' = IF l = 0 /\ InLog(b) THEN reclaimed \cup {b}
                          ELSE reclaimed
          /\ raced' = [raced EXCEPT ![l] =
                         @ \/ (pc = "clear_active" /\ link = l /\ i = b)]
          /\ UNCHANGED <<complete, saved_complete, saved_active, effects, local,
                         counts, erased>>
    BY ClaimStores
  <1>2. 0 \in Links /\ raced \in [Links -> BOOLEAN]
    BY DEF TypeOK, Links
  <1>3. ~raced[0]
    BY <1>1, <1>2
  <1>4. Owned(0)
    BY <1>2, <1>3 DEF Pool
  <1>5. l = 0 => complete[0][b] # 1
    BY <1>1, <1>4 DEF Owned, Visible
  <1>6. ASSUME NEW c \in Buffers, l = 0, c = b
        PROVE  /\ pkt'[0][c].to = pkt[0][c].to
               /\ pkt'[0][c].cmd = pkt[0][c].cmd
               /\ pkt'[0][c].sub = pkt[0][c].sub
               /\ pkt'[0][c].body = pkt[0][c].body
    BY <1>1, <1>6 DEF Stored
  <1>7. ASSUME NEW c \in Buffers
        PROVE  /\ ShowsKill(pkt'[0][c]) <=> ShowsKill(pkt[0][c])
               /\ IsScore(pkt'[0][c]) <=> IsScore(pkt[0][c])
    <2>1. CASE l = 0 /\ c = b
      BY <1>6, <2>1 DEF ShowsKill, IsScore
    <2>2. CASE ~(l = 0 /\ c = b)
      <3>1. pkt'[0][c] = pkt[0][c]
        BY <1>1, <1>2, <2>2
      <3> QED
        BY <3>1
    <2> QED
      BY <2>1, <2>2
  <1>8. ASSUME NEW c \in Buffers, complete[0][c] = 1
        PROVE  active'[0][c] = 1 /\ pkt'[0][c] = pkt[0][c]
    BY <1>1, <1>2, <1>4, <1>5, <1>8 DEF Owned
  <1> QED
    BY <1>1, <1>3, <1>7, <1>8 DEF effects, killed, local, counts

(* A part that is received belongs to a buffer that is not marked, and     *)
(* that no recovery marks.                                                 *)
LEMMA ReceiveKeeps ==
  ASSUME TypeOK, Pool, ~raced[0], NEW l \in Links, Receive(l)
  PROVE  /\ \/ /\ l = 1 /\ UNCHANGED <<kills, heard, stale>>
               /\ \A c \in Buffers : /\ pkt'[0][c] = pkt[0][c]
                                     /\ complete'[0][c] = complete[0][c]
            \/ /\ l = 0
               /\ \E b \in Buffers :
                    /\ complete[0][b] = 0
                    /\ ~(saved_complete[b] = 1 /\ b \notin reclaimed)
                    /\ \A c \in Buffers \ {b} :
                         /\ pkt'[0][c] = pkt[0][c]
                         /\ complete'[0][c] = complete[0][c]
                    /\ complete'[0][b] \in {0, 1}
                    /\ IF complete'[0][b] = 1 /\ ShowsKill(pkt'[0][b])
                       THEN /\ kills' + stale' = kills + stale + 1
                            /\ heard' \in {heard, heard + 1}
                       ELSE UNCHANGED <<kills, heard, stale>>
         /\ UNCHANGED <<active, saved_complete, saved_active, effects, pc,
                        link, i, erased, killed, reclaimed, raced,
                        rf_kill_count, libartibeus_rf_dead, score_msg>>
  <1>1. PICK b \in Buffers, n \in 1 .. 2 :
          LET f == rx[l].frame
              bytes == Stored(pkt[l][b], f, n)
              shows == Whole(l) /\ l = 0 /\ ShowsKill(bytes)
          IN /\ rx[l].buffer_num = b
             /\ pkt'[l][b] = bytes
             /\ complete'[l][b] = IF Whole(l) THEN 1 ELSE complete[l][b]
             /\ \A m \in Links, c \in Buffers : m # l \/ c # b =>
                  pkt'[m][c] = pkt[m][c] /\ complete'[m][c] = complete[m][c]
             /\ kills' = IF shows /\ IsKill(f) THEN kills + 1 ELSE kills
             /\ heard' = IF shows /\ IsKill(f) THEN heard + 1 ELSE heard
             /\ stale' = IF shows /\ ~IsKill(f) THEN stale + 1 ELSE stale
             /\ UNCHANGED <<active, saved_complete, saved_active, effects,
                            local, erased, reclaimed, raced>>
    BY ReceiveStores
  <1>2. 0 \in Links /\ l \in {0, 1}
    BY DEF Links
  <1>3. kills \in Nat /\ stale \in Nat
    BY DEF TypeOK
  <1>4. CASE l = 0
    <2>1. Owned(0)
      BY <1>2 DEF Pool
    <2>2. complete[0][b] = 0
      BY <1>1, <1>4, <2>1 DEF Owned
    <2>3. ~(saved_complete[b] = 1 /\ b \notin reclaimed)
      BY <1>1, <1>4 DEF Pool, Logged
    <2>4. complete'[0][b] \in {0, 1} /\ (complete'[0][b] = 1 <=> Whole(l))
      BY <1>1, <1>4, <2>2
    <2>5. IF complete'[0][b] = 1 /\ ShowsKill(pkt'[0][b])
          THEN /\ kills' + stale' = kills + stale + 1
               /\ heard' \in {heard, heard + 1}
          ELSE UNCHANGED <<kills, heard, stale>>
      BY <1>1, <1>3, <1>4, <2>4
    <2>6. \A c \in Buffers \ {b} :
            pkt'[0][c] = pkt[0][c] /\ complete'[0][c] = complete[0][c]
      BY <1>1, <1>2
    <2> QED
      BY <1>1, <1>4, <2>2, <2>3, <2>4, <2>5, <2>6 DEF effects, killed, local
  <1>5. CASE l = 1
    BY <1>1, <1>2, <1>5 DEF effects, killed, local
  <1> QED
    BY <1>2, <1>4, <1>5

(* Fewer commands in the buffers, and no change of the count. *)
LEMMA KillingStays ==
  ASSUME TypeOK, Killing,
         ~raced'[0] => ~raced[0],
         ~raced'[0] => Showing' \subseteq Showing,
         ~raced'[0] => Uncounted' \subseteq Uncounted,
         UNCHANGED <<rf_kill_count, libartibeus_rf_dead, kills, stale>>
  PROVE  Killing'
  <1> SUFFICES ASSUME ~raced'[0] PROVE Killing'
    BY DEF Killing
  <1>1. /\ Cardinality(Showing') <= Cardinality(Showing)
        /\ Cardinality(Uncounted') <= Cardinality(Uncounted)
    BY CountsAreFinite, FS_Subset
  <1>2. rf_kill_count \in Nat /\ kills \in Nat /\ stale \in Nat
    BY DEF TypeOK, Byte
  <1>3. Cardinality(Showing') <= kills + stale
    BY <1>1, <1>2, CountsAreFinite, CountsAreFiniteAfter DEF Killing
  <1>4. rf_kill_count + Cardinality(Uncounted') <= kills + stale
    BY <1>1, <1>2, CountsAreFinite, CountsAreFiniteAfter DEF Killing
  <1> QED
    BY <1>3, <1>4 DEF Killing

LEMMA ClaimKilling ==
  ASSUME TypeOK, Pool, Killing, NEW l \in Links, NEW f \in FrameType,
         Claim(l, f)
  PROVE  Killing'
  <1> SUFFICES ASSUME ~raced'[0] PROVE Killing'
    BY DEF Killing
  <1>1. Showing' \subseteq Showing /\ Uncounted' \subseteq Uncounted
    BY ClaimKeeps DEF Showing, Uncounted, Waits
  <1> QED
    BY <1>1, ClaimKeeps, KillingStays

LEMMA ReceiveKilling ==
  ASSUME TypeOK, Pool, Killing, NEW l \in Links, Receive(l)
  PROVE  Killing'
  <1>1. raced' = raced
    BY DEF Receive
  <1> SUFFICES ASSUME ~raced[0] PROVE Killing'
    BY <1>1 DEF Killing
  <1>2. UNCHANGED <<rf_kill_count, libartibeus_rf_dead, pc, link, i,
                    saved_complete, reclaimed>>
    BY ReceiveKeeps
  <1>3. rf_kill_count \in Nat /\ kills \in Nat /\ stale \in Nat
    BY DEF TypeOK, Byte
  <1>4. CASE UNCHANGED <<kills, stale>>
    <2>1. Showing' \subseteq Showing /\ Uncounted' \subseteq Uncounted
      BY <1>2, <1>3, <1>4, ReceiveKeeps DEF Showing, Uncounted, Waits
    <2> QED
      BY <1>1, <1>2, <1>4, <2>1, KillingStays
  <1>5. CASE ~UNCHANGED <<kills, stale>>
    <2>1. PICK b \in Buffers :
            /\ \A c \in Buffers \ {b} :
                 pkt'[0][c] = pkt[0][c] /\ complete'[0][c] = complete[0][c]
            /\ kills' + stale' = kills + stale + 1
      BY <1>5, ReceiveKeeps
    <2>2. /\ Showing' \subseteq Showing \cup {b}
          /\ Uncounted' \subseteq Uncounted \cup {b}
      BY <1>2, <2>1 DEF Showing, Uncounted, Waits
    <2>3. /\ Cardinality(Showing') <= Cardinality(Showing) + 1
          /\ Cardinality(Uncounted') <= Cardinality(Uncounted) + 1
      BY <2>2, CountsAreFinite, OneMore
    <2>4. Cardinality(Showing') <= kills' + stale'
      BY <1>3, <2>1, <2>3, CountsAreFinite, CountsAreFiniteAfter DEF Killing
    <2>5. rf_kill_count + Cardinality(Uncounted') <= kills' + stale'
      BY <1>3, <2>1, <2>3, CountsAreFinite, CountsAreFiniteAfter DEF Killing
    <2>6. libartibeus_rf_dead = 1 => kills' + stale' > MAX_KILL_COUNT
      BY <1>3, <2>1, KillAssumption DEF Killing
    <2> QED
      BY <1>2, <2>4, <2>5, <2>6 DEF Killing
  <1> QED
    BY <1>4, <1>5

LEMMA CountKilling ==
  ASSUME TypeOK, Where, Pool, Killing, Handle, frame.to = "CTRL", link = 0,
         update_rf_kill_count
  PROVE  Killing'
  <1>1. /\ pc = "handle" /\ pc' = "clear" /\ raced' = raced
        /\ UNCHANGED <<complete, saved_complete, reclaimed, pkt, link, i, kills,
                       stale>>
    BY HandleFrame DEF update_rf_kill_count, Ends
  <1> SUFFICES ASSUME ~raced[0] PROVE Killing'
    BY <1>1 DEF Killing
  <1>2. i \in Buffers /\ complete[0][i] = 1
    BY <1>1, FrameInHandle DEF Pool, Owned, Visible, Looking, Handling, Links
  <1>3. Showing' = Showing
    BY <1>1 DEF Showing, Waits
  <1>4. Uncounted' = Uncounted \ {i}
    BY <1>1 DEF Uncounted
  <1>5. /\ IsFiniteSet(Uncounted')
        /\ Cardinality(Uncounted') = IF i \in Uncounted
                                     THEN Cardinality(Uncounted) - 1
                                     ELSE Cardinality(Uncounted)
    BY <1>4, CountsAreFinite, FS_RemoveElement
  <1>6. rf_kill_count \in Nat /\ kills \in Nat /\ stale \in Nat
    BY DEF TypeOK, Byte
  <1>7. /\ rf_kill_count' \in Nat
        /\ rf_kill_count' + Cardinality(Uncounted') <= kills + stale
    <2>1. CASE got_key
      <3>1. i \in Uncounted
        BY <1>1, <1>2, <2>1
        DEF Uncounted, ShowsKill, got_key, update_rf_kill_count, frame
      <3>2. rf_kill_count' = (rf_kill_count + 1) % 256
        BY <2>1 DEF update_rf_kill_count
      <3>3. rf_kill_count' \in Nat /\ rf_kill_count' <= rf_kill_count + 1
        BY <1>6, <3>2
      <3> QED
        BY <1>5, <1>6, <3>1, <3>3, CountsAreFinite DEF Killing
    <2>2. CASE ~got_key
      <3>1. rf_kill_count' = rf_kill_count
        BY <2>2 DEF update_rf_kill_count
      <3> QED
        BY <1>5, <1>6, <3>1, CountsAreFinite DEF Killing
    <2> QED
      BY <2>1, <2>2
  <1>8. rf_kill_count' <= kills + stale
    BY <1>6, <1>7, CountsAreFiniteAfter
  <1>9. libartibeus_rf_dead' = 1 => kills + stale > MAX_KILL_COUNT
    BY <1>6, <1>7, <1>8, KillAssumption DEF update_rf_kill_count, Killing
  <1> QED
    BY <1>1, <1>3, <1>7, <1>9 DEF Killing

(* While a boot lasts, everything that waits may be found uncounted. *)
LEMMA BootKilling ==
  ASSUME TypeOK, Killing,
         ~raced'[0] => ~raced[0],
         ~raced'[0] => Showing' \subseteq Showing,
         rf_kill_count' = 0, UNCHANGED <<libartibeus_rf_dead, kills, stale>>
  PROVE  Killing'
  <1> SUFFICES ASSUME ~raced'[0] PROVE Killing'
    BY DEF Killing
  <1>1. /\ Cardinality(Showing') <= Cardinality(Showing)
        /\ Cardinality(Uncounted') <= Cardinality(Showing')
    <2>1. Uncounted' \subseteq Showing'
      BY DEF Uncounted, Showing, Waits
    <2> QED
      BY <2>1, CountsAreFinite, CountsAreFiniteAfter, FS_Subset
  <1>2. kills \in Nat /\ stale \in Nat
    BY DEF TypeOK
  <1>3. Cardinality(Showing') <= kills + stale
    BY <1>1, <1>2, CountsAreFinite, CountsAreFiniteAfter DEF Killing
  <1>4. 0 + Cardinality(Uncounted') <= kills + stale
    BY <1>1, <1>2, <1>3, CountsAreFinite, CountsAreFiniteAfter
  <1> QED
    BY <1>3, <1>4 DEF Killing

LEMMA RecoveryKilling ==
  ASSUME TypeOK, Where, Pool, Killing, Recovery
  PROVE  Killing'
  <1>1. /\ rf_kill_count' = 0
        /\ UNCHANGED <<libartibeus_rf_dead, kills, stale, pkt>>
    BY DEF Recovery, PutBackActive, PutBackComplete, Restore, Where, buffers,
      effects, killed, counts
  <1>2. 0 \in Links /\ raced \in [Links -> BOOLEAN]
    BY DEF TypeOK, Links
  <1>3. ASSUME NEW b \in Buffers, PutBackActive(b)
        PROVE  Killing'
    <2>1. /\ raced' = [raced EXCEPT ![0] = raced[0] \/ b \in reclaimed]
          /\ UNCHANGED <<complete, saved_complete, reclaimed>>
      BY <1>3 DEF PutBackActive
    <2>2. ~raced'[0] => ~raced[0]
      BY <1>2, <2>1
    <2>3. Showing' = Showing
      BY <1>1, <2>1 DEF Showing, Waits
    <2> QED
      BY <1>1, <2>2, <2>3, BootKilling
  <1>4. ASSUME NEW b \in Buffers, PutBackComplete(b)
        PROVE  Killing'
    <2>1. /\ raced' = [raced EXCEPT ![0] = raced[0] \/ b \in reclaimed]
          /\ complete' = [complete EXCEPT ![0][b] = saved_complete[b]]
          /\ saved_complete' = [saved_complete EXCEPT ![b] = NotSaved]
          /\ UNCHANGED reclaimed
      BY <1>4 DEF PutBackComplete
    <2>2. ~raced'[0] => ~raced[0] /\ b \notin reclaimed
      BY <1>2, <2>1
    <2>3. \A c \in Buffers :
            complete'[0][c] = IF c = b THEN saved_complete[b]
                              ELSE complete[0][c]
      BY <1>2, <2>1 DEF TypeOK
    <2>4. \A c \in Buffers :
            saved_complete'[c] = IF c = b THEN NotSaved ELSE saved_complete[c]
      BY <2>1 DEF TypeOK
    <2>5. ~raced'[0] => Showing' \subseteq Showing
      BY <1>1, <2>1, <2>2, <2>3, <2>4 DEF Showing, Waits, NotSaved
    <2> QED
      BY <1>1, <2>2, <2>5, BootKilling
  <1>5. CASE Restore
    <2>1. /\ UNCHANGED <<complete, saved_complete, raced>>
          /\ \A b \in Buffers : saved_complete[b] = NotSaved
      BY <1>5 DEF Restore, buffers, saved, InLog
    <2>2. Showing' \subseteq Showing
      BY <1>1, <2>1 DEF Showing, Waits, NotSaved
    <2> QED
      BY <1>1, <2>1, <2>2, BootKilling
  <1> QED
    BY <1>3, <1>4, <1>5 DEF Recovery

LEMMA OnlyKillsCount ==
  ASSUME Handle, ~(frame.to = "CTRL" /\ link = 0 /\ update_rf_kill_count)
  PROVE  UNCHANGED <<rf_kill_count, libartibeus_rf_dead>>
  BY DEF Handle, Relay, Switch0, Switch1, Ack0, GetTelem, StartScore, PopRing,
    OtherAscii, Unsupported, Ack1, BootloaderAck, GetTime, PushAscii, Ends,
    effects, killed

LEMMA NextKilling ==
  TypeOK /\ Where /\ Pool /\ Killing /\ [Next]_vars => Killing'
  <1> SUFFICES ASSUME TypeOK, Where, Pool, Killing, [Next]_vars PROVE Killing'
    OBVIOUS
  <1>1. ASSUME UNCHANGED <<complete, pkt, saved_complete, reclaimed, raced,
                           rf_kill_count, libartibeus_rf_dead, kills, stale>>,
               pc # "clear" \/ UNCHANGED <<pc, link, i>>
        PROVE  Killing'
    <2>1. Showing' = Showing /\ Uncounted' \subseteq Uncounted
      BY <1>1 DEF Showing, Uncounted, Waits
    <2> QED
      BY <1>1, <2>1, KillingStays
  <1>2. CASE Handle
    <2>1. CASE frame.to = "CTRL" /\ link = 0 /\ update_rf_kill_count
      BY <1>2, <2>1, CountKilling
    <2>2. CASE ~(frame.to = "CTRL" /\ link = 0 /\ update_rf_kill_count)
      BY <1>1, <1>2, <2>2, HandleFrame, OnlyKillsCount
    <2> QED
      BY <2>1, <2>2
  <1>3. CASE Found
    <2>1. /\ i \in Buffers /\ pc = "scan"
          /\ saved_complete' = Saved(saved_complete, i, complete[0][i])
          /\ UNCHANGED <<complete, pkt, reclaimed, raced, rf_kill_count,
                         libartibeus_rf_dead, kills, stale>>
      BY <1>3, BuffersAssumption
      DEF Found, TypeOK, Buffers, buffers, effects, killed, history, counts
    <2>2. \A c \in Buffers :
            saved_complete'[c] = IF c = i /\ saved_complete[c] = NotSaved
                                 THEN complete[0][c] ELSE saved_complete[c]
      BY <2>1 DEF Saved, TypeOK
    <2>3. Showing' \subseteq Showing /\ Uncounted' \subseteq Uncounted
      BY <2>1, <2>2 DEF Showing, Uncounted, Waits
    <2> QED
      BY <2>1, <2>3, KillingStays
  <1>4. CASE ClearComplete
    <2>1. /\ complete' = [complete EXCEPT ![link][i] = 0]
          /\ pc = "clear" /\ pc' = "clear_active"
          /\ UNCHANGED <<pkt, saved_complete, reclaimed, raced, rf_kill_count,
                         libartibeus_rf_dead, kills, stale>>
      BY <1>4 DEF ClearComplete, saved, effects, killed, history, counts
    <2>2. \A b \in Buffers : complete'[0][b] = 1 =>
            complete[0][b] = 1 /\ ~(link = 0 /\ i = b)
      BY <2>1 DEF TypeOK, Links
    <2>3. Showing' \subseteq Showing /\ Uncounted' \subseteq Uncounted
      BY <2>1, <2>2 DEF Showing, Uncounted, Waits
    <2> QED
      BY <2>1, <2>3, KillingStays
  <1>5. CASE Crash
    <2>1. /\ rf_kill_count' = 0
          /\ UNCHANGED <<complete, pkt, saved_complete, reclaimed, raced,
                         libartibeus_rf_dead, kills, stale>>
      BY <1>5 DEF Crash, saved, history, counts
    <2>2. Showing' = Showing
      BY <2>1 DEF Showing, Waits
    <2> QED
      BY <2>1, <2>2, BootKilling
  <1>6. CASE Recovery
    BY <1>6, RecoveryKilling
  <1>7. CASE SaveActive \/ ClearActive
    BY <1>1, <1>7 DEF SaveActive, ClearActive, buffers, saved, effects, killed,
      history, counts
  <1>8. CASE Skip \/ EndScore \/ Transmit \/ TransmitEnd \/ Return
    BY <1>1, <1>8 DEF Skip, EndScore, Transmit, TransmitEnd, Return, still,
      buffers, saved, history, counts, effects, killed
  <1>9. CASE Application
    <2>1. CASE Commit
      <3>1. /\ pc = "app" /\ \A b \in Buffers : saved_complete'[b] = NotSaved
            /\ UNCHANGED <<complete, pkt, raced, rf_kill_count,
                           libartibeus_rf_dead, kills, stale>>
        BY <2>1 DEF Commit, buffers, effects, killed, counts
      <3>2. Showing' \subseteq Showing /\ Uncounted' \subseteq Uncounted
        BY <3>1 DEF Showing, Uncounted, Waits, NotSaved
      <3> QED
        BY <3>1, <3>2, KillingStays
    <2>2. CASE ~Commit
      BY <1>1, <1>9, <2>2, ApplicationSteps
      DEF buffers, saved, killed, counts
    <2> QED
      BY <2>1, <2>2
  <1>10. CASE Requests \/ BoardAcks
    <2>1. /\ traffic.ground \subseteq FrameType
          /\ traffic.board \subseteq FrameType
      BY TrafficAssumption DEF TypeOK
    <2> QED
      BY <1>10, <2>1, BoardAcksType, ClaimKilling DEF Requests, Links
  <1>11. CASE Receiving
    BY <1>11, ReceiveKilling DEF Receiving
  <1>12. CASE AfterOverrun \/ UNCHANGED vars
    BY <1>1, <1>12 DEF AfterOverrun, vars, still, buffers, saved, history,
      counts, effects, killed, local
  <1> QED
    BY <1>2, <1>3, <1>4, <1>5, <1>6, <1>7, <1>8, <1>9, <1>10, <1>11, <1>12
    DEF Next, Main

LEMMA InitKilling == Init => Killing
  <1> SUFFICES ASSUME Init PROVE Killing
    OBVIOUS
  <1>1. Showing = {} /\ Uncounted = {}
    BY DEF Init, Showing, Uncounted, ShowsKill, NoFrame, Links
  <1>2. rf_kill_count = 0 /\ kills = 0 /\ stale = 0 /\ libartibeus_rf_dead = 0
    BY DEF Init
  <1> QED
    BY <1>1, <1>2, FS_EmptySet DEF Killing

(* Over any number of power failures the kill count never exceeds the kill *)
(* commands that have arrived, with their own keys or, counted in stale,   *)
(* with those of an earlier frame, and so not the former when there are    *)
(* none of the latter; the radio is declared dead only after more than     *)
(* MAX_KILL_COUNT of them.                                                 *)
THEOREM KillsAreMeant == Spec => [](KillIsMeant /\ Killing)
  <1>1. TypeOK /\ Killing => KillIsMeant
    <2> SUFFICES ASSUME TypeOK, Killing, stale = 0, ~raced[0]
                 PROVE  /\ rf_kill_count <= kills
                        /\ libartibeus_rf_dead = 1 => kills > MAX_KILL_COUNT
      BY DEF KillIsMeant
    <2>1. rf_kill_count \in Nat /\ kills \in Nat /\ kills + stale = kills
      BY DEF TypeOK, Byte
    <2> QED
      BY <2>1, CountsAreFinite DEF Killing
  <1> QED
    BY <1>1, InitPool, InitKilling, NextWhere, NextPool, NextKilling,
      TypeCorrect, PTL DEF Spec

-----------------------------------------------------------------------------
(* Kill commands obeyed *)

LEMMA ObeyingStays ==
  ASSUME TypeOK, Obeying,
         ~raced'[0] => ~raced[0],
         ~raced'[0] => Uncounted \subseteq Uncounted',
         pc' # "boot" => pc # "boot",
         ~raced'[0] =>
           (pc' \in {"score", "transmit"} => ~ShowsKill(frame')),
         UNCHANGED <<rf_kill_count, libartibeus_rf_dead, heard>>
  PROVE  Obeying'
  <1> SUFFICES ASSUME ~raced'[0] PROVE Obeying'
    BY DEF Obeying
  <1>1. Cardinality(Uncounted) <= Cardinality(Uncounted')
    BY CountsAreFiniteAfter, FS_Subset
  <1>2. rf_kill_count \in Nat /\ heard \in Nat
    BY DEF TypeOK, Byte
  <1>3. libartibeus_rf_dead = 0 /\ pc # "boot" =>
          heard <= rf_kill_count + Cardinality(Uncounted')
    BY <1>1, <1>2, CountsAreFinite, CountsAreFiniteAfter DEF Obeying
  <1> QED
    BY <1>3 DEF Obeying

LEMMA ClaimObeying ==
  ASSUME TypeOK, Where, Pool, Obeying, NEW l \in Links, NEW f \in FrameType,
         Claim(l, f)
  PROVE  Obeying'
  <1> SUFFICES ASSUME ~raced'[0] PROVE Obeying'
    BY DEF Obeying
  <1>1. Uncounted \subseteq Uncounted'
    BY ClaimKeeps DEF Uncounted
  <1>2. pc \in {"score", "transmit"} => frame' = frame
    <2> SUFFICES ASSUME pc \in {"score", "transmit"} PROVE frame' = frame
      OBVIOUS
    <2>1. link = 0 /\ i \in Buffers /\ ~raced[0]
      BY ClaimKeeps DEF Where, TypeOK, Looking, Handling
    <2>2. complete[0][i] = 1
      BY <2>1 DEF Pool, Owned, Visible, Looking, Handling, Links
    <2> QED
      BY <2>1, <2>2, ClaimKeeps DEF frame
  <1> QED
    BY <1>1, <1>2, ClaimKeeps, ObeyingStays DEF Obeying

LEMMA ReceiveObeying ==
  ASSUME TypeOK, Where, Pool, Obeying, NEW l \in Links, Receive(l)
  PROVE  Obeying'
  <1>1. raced' = raced
    BY DEF Receive
  <1> SUFFICES ASSUME ~raced[0] PROVE Obeying'
    BY <1>1 DEF Obeying
  <1>2. UNCHANGED <<rf_kill_count, libartibeus_rf_dead, pc, link, i>>
    BY ReceiveKeeps
  <1>3. pc \in Looking /\ link = 0 => complete[0][i] = 1 /\ i \in Buffers
    BY DEF Pool, Owned, Visible, Links, TypeOK
  <1>4. \A c \in Buffers : complete[0][c] = 1 =>
          complete'[0][c] = 1 /\ pkt'[0][c] = pkt[0][c]
    BY ReceiveKeeps
  <1>5. Uncounted \subseteq Uncounted'
    BY <1>2, <1>4 DEF Uncounted
  <1>6. pc \in {"score", "transmit"} => frame' = frame
    BY <1>2, <1>3, <1>4 DEF Where, frame, Looking, Handling
  <1>7. CASE heard' = heard
    BY <1>1, <1>2, <1>5, <1>6, <1>7, ObeyingStays DEF Obeying
  <1>8. CASE heard' # heard
    <2>1. PICK b \in Buffers :
            /\ complete[0][b] = 0
            /\ complete'[0][b] = 1 /\ ShowsKill(pkt'[0][b])
            /\ heard' \in {heard, heard + 1}
      BY <1>8, ReceiveKeeps
    <2>2. b \notin Uncounted
      BY <2>1 DEF Uncounted
    <2>3. b \in Uncounted'
      BY <1>2, <1>3, <2>1 DEF Uncounted, Looking, Handling
    <2>4. Cardinality(Uncounted \cup {b}) = Cardinality(Uncounted) + 1
      BY <2>2, CountsAreFinite, FS_AddElement
    <2>5. Cardinality(Uncounted \cup {b}) <= Cardinality(Uncounted')
      BY <1>5, <2>3, CountsAreFiniteAfter, FS_Subset
    <2>6. Cardinality(Uncounted) + 1 <= Cardinality(Uncounted')
      BY <2>4, <2>5
    <2>7. rf_kill_count \in Nat /\ heard \in Nat /\ heard' = heard + 1
      BY <1>8, <2>1 DEF TypeOK, Byte
    <2>8. libartibeus_rf_dead = 0 /\ pc # "boot" =>
            heard' <= rf_kill_count + Cardinality(Uncounted')
      BY <2>6, <2>7, CountsAreFinite, CountsAreFiniteAfter DEF Obeying
    <2> QED
      BY <1>2, <1>6, <2>8 DEF Obeying
  <1> QED
    BY <1>7, <1>8

LEMMA CountObeying ==
  ASSUME TypeOK, Where, Pool, Obeying, Handle, frame.to = "CTRL", link = 0,
         update_rf_kill_count
  PROVE  Obeying'
  <1>1. /\ pc = "handle" /\ pc' = "clear" /\ raced' = raced
        /\ UNCHANGED <<complete, pkt, link, i, heard>>
    BY HandleFrame DEF update_rf_kill_count, Ends
  <1> SUFFICES ASSUME ~raced[0] PROVE Obeying'
    BY <1>1 DEF Obeying
  <1>2. i \in Buffers /\ complete[0][i] = 1
    BY <1>1, FrameInHandle DEF Pool, Owned, Visible, Looking, Handling, Links
  <1>3. Uncounted' = Uncounted \ {i}
    BY <1>1 DEF Uncounted
  <1>4. rf_kill_count \in Nat /\ heard \in Nat /\ MAX_KILL_COUNT \in 0 .. 254
    BY KillAssumption DEF TypeOK, Byte
  <1>5. libartibeus_rf_dead' = 0 =>
          libartibeus_rf_dead = 0 /\ ~(rf_kill_count' > MAX_KILL_COUNT)
    BY DEF update_rf_kill_count
  <1>6. CASE got_key
    <2>1. i \in Uncounted
      BY <1>1, <1>2, <1>6
      DEF Uncounted, ShowsKill, got_key, update_rf_kill_count, frame
    <2>2. Cardinality(Uncounted') = Cardinality(Uncounted) - 1
      BY <1>3, <2>1, CountsAreFinite, FS_RemoveElement
    <2>3. rf_kill_count' = (rf_kill_count + 1) % 256
      BY <1>6 DEF update_rf_kill_count
    <2>4. SUFFICES ASSUME libartibeus_rf_dead' = 0
                   PROVE  /\ rf_kill_count' <= MAX_KILL_COUNT
                          /\ heard <= rf_kill_count' + Cardinality(Uncounted')
      BY <1>1 DEF Obeying
    <2>5. rf_kill_count <= MAX_KILL_COUNT
      BY <1>5, <2>4 DEF Obeying
    <2>6. rf_kill_count' = rf_kill_count + 1
      BY <1>4, <2>3, <2>5
    <2>7. heard <= rf_kill_count + Cardinality(Uncounted)
      BY <1>1, <1>5, <2>4 DEF Obeying
    <2> QED
      BY <1>4, <1>5, <2>2, <2>4, <2>6, <2>7, CountsAreFinite
  <1>7. CASE ~got_key
    <2>1. i \notin Uncounted
      BY <1>1, <1>7 DEF Uncounted, ShowsKill, got_key, frame
    <2>2. Uncounted' = Uncounted
      BY <1>3, <2>1
    <2>3. rf_kill_count' = rf_kill_count
      BY <1>7 DEF update_rf_kill_count
    <2> QED
      BY <1>1, <1>5, <2>2, <2>3 DEF Obeying
  <1> QED
    BY <1>6, <1>7

(* What is not a kill command stays none through its steps. *)
LEMMA HandleObeying ==
  ASSUME TypeOK, Where, Pool, Obeying, Handle
  PROVE  Obeying'
  <1>1. /\ pc = "handle" /\ pc' \in {"clear", "score", "transmit", "overrun"}
        /\ UNCHANGED <<complete, pkt, link, i, heard, raced>>
        /\ frame' = frame
        /\ link # 0 => pc' \in {"clear", "overrun"}
    BY HandleFrame
  <1>2. CASE frame.to = "CTRL" /\ link = 0 /\ update_rf_kill_count
    BY <1>2, CountObeying
  <1>3. CASE ~(frame.to = "CTRL" /\ link = 0 /\ update_rf_kill_count)
    <2>1. UNCHANGED <<rf_kill_count, libartibeus_rf_dead>>
      BY <1>3, OnlyKillsCount
    <2>2. link = 0 => ~ShowsKill(frame)
      BY <1>3
      DEF Handle, Switch0, Ack0, GetTelem, StartScore, PopRing, RecordLen,
        OtherAscii, Unsupported, ShowsKill
    <2>3. Uncounted \subseteq Uncounted'
      BY <1>1, <2>2 DEF Uncounted, frame
    <2> QED
      BY <1>1, <2>1, <2>2, <2>3, ObeyingStays
  <1> QED
    BY <1>2, <1>3

LEMMA NextObeying ==
  TypeOK /\ Where /\ Pool /\ Obeying /\ [Next]_vars => Obeying'
  <1> SUFFICES ASSUME TypeOK, Where, Pool, Obeying, [Next]_vars PROVE Obeying'
    OBVIOUS
  <1>1. ASSUME UNCHANGED <<complete, pkt, rf_kill_count, libartibeus_rf_dead,
                           heard, raced>>,
               pc # "boot", pc' \notin {"score", "transmit", "clear"}
        PROVE  Obeying'
    <2>1. Uncounted \subseteq Uncounted'
      BY <1>1 DEF Uncounted
    <2> QED
      BY <1>1, <2>1, ObeyingStays
  <1>2. CASE Handle
    BY <1>2, HandleObeying
  <1>3. CASE ClearComplete
    <2>1. /\ complete' = [complete EXCEPT ![link][i] = 0]
          /\ pc = "clear" /\ pc' = "clear_active"
          /\ UNCHANGED <<pkt, rf_kill_count, libartibeus_rf_dead, heard, raced>>
      BY <1>3 DEF ClearComplete, effects, killed, history, counts
    <2>2. \A b \in Buffers : complete[0][b] = 1 /\ ~(link = 0 /\ i = b) =>
            complete'[0][b] = 1
      BY <2>1 DEF TypeOK, Links
    <2>3. Uncounted \subseteq Uncounted'
      BY <2>1, <2>2 DEF Uncounted
    <2> QED
      BY <2>1, <2>3, ObeyingStays
  <1>4. CASE EndScore \/ TransmitEnd
    <2>1. /\ UNCHANGED <<complete, pkt, rf_kill_count, libartibeus_rf_dead,
                         heard, raced, link, i>>
          /\ pc \in {"score", "transmit", "app_transmit"}
          /\ pc' = IF pc = "app_transmit" THEN "app" ELSE "clear"
      BY <1>4 DEF EndScore, TransmitEnd, still, buffers, history, counts,
        effects, killed
    <2>2. ~raced[0] /\ pc' = "clear" => link = 0 /\ ~ShowsKill(frame)
      BY <2>1 DEF Where, Obeying
    <2>3. ~raced[0] => Uncounted \subseteq Uncounted'
      BY <2>1, <2>2 DEF Uncounted, frame
    <2> QED
      BY <2>1, <2>3, ObeyingStays
  <1>5. CASE Transmit \/ AfterOverrun \/ UNCHANGED vars
    <2>1. UNCHANGED <<complete, pkt, rf_kill_count, libartibeus_rf_dead, heard,
                      raced, pc, link, i>>
      BY <1>5 DEF Transmit, AfterOverrun, vars, still, buffers, history, counts,
        effects, killed, local
    <2>2. Uncounted' = Uncounted /\ frame' = frame
      BY <2>1 DEF Uncounted, frame
    <2> QED
      BY <2>1, <2>2, ObeyingStays DEF Obeying
  <1>6. CASE Crash
    <2>1. /\ rf_kill_count' = 0 /\ pc' = "boot" /\ raced' = raced
          /\ UNCHANGED libartibeus_rf_dead
      BY <1>6 DEF Crash, history
    <2> QED
      BY <2>1, KillAssumption DEF Obeying
  <1>7. CASE Recovery
    <2>1. /\ rf_kill_count' = 0 /\ UNCHANGED libartibeus_rf_dead
          /\ pc' \in {"boot", "app"} /\ (pc' = "app" => heard' = 0)
      BY <1>7 DEF Recovery, PutBackActive, PutBackComplete, Restore, Where,
        local, effects, killed
    <2> QED
      BY <2>1, KillAssumption, CountsAreFiniteAfter DEF Obeying
  <1>8. CASE Skip \/ Found \/ SaveActive \/ ClearActive \/ Return
    BY <1>1, <1>8 DEF Skip, Found, SaveActive, ClearActive, Return, still,
      buffers, history, counts, effects, killed
  <1>9. CASE Application
    BY <1>1, <1>9, ApplicationSteps DEF buffers, killed, counts
  <1>10. CASE Requests \/ BoardAcks
    <2>1. /\ traffic.ground \subseteq FrameType
          /\ traffic.board \subseteq FrameType
      BY TrafficAssumption DEF TypeOK
    <2> QED
      BY <1>10, <2>1, BoardAcksType, ClaimObeying DEF Requests, Links
  <1>11. CASE Receiving
    BY <1>11, ReceiveObeying DEF Receiving
  <1> QED
    BY <1>2, <1>3, <1>4, <1>5, <1>6, <1>7, <1>8, <1>9, <1>10, <1>11
    DEF Next, Main

(* No kill command is overlooked while the power stays on, however its     *)
(* bytes arrive between the steps of a scan: when the radio is not         *)
(* declared dead, all but MAX_KILL_COUNT of those that have arrived since  *)
(* the last recovery wait in the buffers, unless a buffer was claimed      *)
(* between the two stores that free it, or put back after a later claim.   *)
THEOREM KillsAreObeyed == Spec => []KillIsObeyed
  <1>1. Init => Obeying
    BY KillAssumption, CountsAreFinite DEF Init, Obeying
  <1>2. TypeOK /\ Pool /\ Obeying => KillIsObeyed
    <2> SUFFICES ASSUME TypeOK, Pool, Obeying, pc = "app",
                        libartibeus_rf_dead = 0, ~raced[0]
                 PROVE  heard <= MAX_KILL_COUNT
                          + Cardinality({b \in Buffers :
                              Visible(0, b) /\ ShowsKill(pkt[0][b])})
      BY DEF KillIsObeyed
    <2>1. Uncounted = {b \in Buffers : Visible(0, b) /\ ShowsKill(pkt[0][b])}
      BY DEF Uncounted, Visible, Pool, Owned, Links
    <2>2. rf_kill_count \in Nat /\ heard \in Nat /\ MAX_KILL_COUNT \in Nat
      BY KillAssumption DEF TypeOK, Byte
    <2>3. heard <= MAX_KILL_COUNT + Cardinality(Uncounted)
      BY <2>2, CountsAreFinite DEF Obeying
    <2> QED
      BY <2>1, <2>3
  <1> QED
    BY <1>1, <1>2, InitPool, NextWhere, NextPool, NextObeying, TypeCorrect, PTL
    DEF Spec

-----------------------------------------------------------------------------
(* Acks *)

(* A frame of the board that begins to arrive is no ack, or answers a      *)
(* packet.                                                                 *)
LEMMA ClaimAcking ==
  ASSUME TypeOK, Acking, NEW l \in Links, NEW f \in FrameType, Claim(l, f),
         l = 1 => Answered(f)
  PROVE  Acking'
  <1>1. PICK b \in Buffers :
          /\ pkt'[l][b] = Stored(pkt[l][b], f, 0)
          /\ \A m \in Links, c \in Buffers : m # l \/ c # b =>
               pkt'[m][c] = pkt[m][c]
          /\ rx' = [rx EXCEPT ![l] = [buffer_num |-> b, frame |-> f,
                                       stored |-> 0]]
          /\ UNCHANGED <<got, effects, local>>
    BY ClaimStores
  <1>2. 1 \in Links
    BY DEF Links
  <1>3. ASSUME NEW c \in Buffers PROVE Answered(pkt[1][c])'
    <2>1. CASE l = 1 /\ c = b
      <3>1. /\ pkt'[1][c].to = pkt[1][c].to /\ pkt'[1][c].cmd = pkt[1][c].cmd
            /\ pkt'[1][c].seq = pkt[1][c].seq
        BY <1>1, <2>1 DEF Stored
      <3>2. IsAck(pkt'[1][c]) => \E p \in got : Answers(pkt'[1][c], p)
        BY <3>1 DEF Acking, Answered, IsAck, Answers
      <3> QED
        BY <1>1, <3>2 DEF Answered
    <2>2. CASE ~(l = 1 /\ c = b)
      <3>1. pkt'[1][c] = pkt[1][c]
        BY <1>1, <1>2, <2>2
      <3> QED
        BY <1>1, <3>1 DEF Acking, Answered
    <2> QED
      BY <2>1, <2>2
  <1>4. Answered(rx[1].frame)'
    <2>1. rx'[1].frame = IF l = 1 THEN f ELSE rx[1].frame
      BY <1>1, <1>2 DEF TypeOK
    <2> QED
      BY <1>1, <2>1 DEF Acking, Answered
  <1> QED
    BY <1>1, <1>3, <1>4 DEF Acking, Current, effects, ids, local

LEMMA ReceiveAcking ==
  ASSUME TypeOK, Acking, NEW l \in Links, Receive(l)
  PROVE  Acking'
  <1>1. PICK b \in Buffers, n \in 1 .. 2 :
          LET f == rx[l].frame
              bytes == Stored(pkt[l][b], f, n)
          IN /\ pkt'[l][b] = bytes
             /\ bytes.to = f.to /\ bytes.cmd = f.cmd /\ bytes.seq = f.seq
             /\ \A m \in Links, c \in Buffers : m # l \/ c # b =>
                  pkt'[m][c] = pkt[m][c]
             /\ rx' = [rx EXCEPT ![l] = IF Whole(l) THEN Idle
                                         ELSE [rx[l] EXCEPT !.stored = n]]
             /\ UNCHANGED <<got, effects, local>>
    BY ReceiveStores
  <1>2. 1 \in Links
    BY DEF Links
  <1>3. ASSUME NEW c \in Buffers PROVE Answered(pkt[1][c])'
    <2>1. CASE l = 1 /\ c = b
      BY <1>1, <2>1 DEF Acking, Answered, IsAck, Answers
    <2>2. CASE ~(l = 1 /\ c = b)
      <3>1. pkt'[1][c] = pkt[1][c]
        BY <1>1, <1>2, <2>2
      <3> QED
        BY <1>1, <3>1 DEF Acking, Answered
    <2> QED
      BY <2>1, <2>2
  <1>4. Answered(rx[1].frame)'
    <2>1. rx'[1].frame \in {rx[1].frame, NoFrame}
      BY <1>1, <1>2 DEF TypeOK, Idle
    <2> QED
      BY <1>1, <2>1, NoFrameType DEF Acking, Answered
  <1> QED
    BY <1>1, <1>3, <1>4 DEF Acking, Current, effects, ids, local

LEMMA RequestAcking ==
  ASSUME TypeOK, Acking, Requests
  PROVE  Acking'
  <1>1. /\ traffic.ground \subseteq FrameType
        /\ traffic.board \subseteq FrameType
        /\ \A f \in traffic.board : Answered(f)
    BY TrafficAssumption DEF TypeOK, Answered
  <1> QED
    BY <1>1, ClaimAcking DEF Requests, Links

LEMMA BoardAcksAcking ==
  ASSUME TypeOK, Acking, BoardAcks
  PROVE  Acking'
  <1>1. PICK p \in got :
          /\ AckOf(p.cmd) \in {"ACK", "BOOTLOADER_ACK"}
          /\ p.seqnum \div 256 \in Byte
          /\ Ack(AckOf(p.cmd), p.seqnum \div 256) \in FrameType
          /\ Claim(1, Ack(AckOf(p.cmd), p.seqnum \div 256))
    BY BoardAcksType
  <1>2. Answered(Ack(AckOf(p.cmd), p.seqnum \div 256))
    BY DEF Answered, Answers, Ack
  <1> QED
    BY <1>1, <1>2, ClaimAcking DEF Links

(* A packet with a number of one byte in the right place joins those that  *)
(* the board got.                                                          *)
LEMMA ToBoardAcking ==
  ASSUME TypeOK, Acking, UNCHANGED <<pkt, rx>>, NEW c, ToBoard(c),
         Survives([cmd |-> c.cmd, seqnum |-> c.seqnum])
  PROVE  /\ got \subseteq got'
         /\ \A p \in got' : Survives(p)
         /\ \A b \in Buffers : Answered(pkt[1][b])'
         /\ Answered(rx[1].frame)'
  BY DEF ToBoard, Acking, Answered

(* What the handlers take for the pending ack answers a packet with the    *)
(* number waited for.                                                      *)
LEMMA PendingIsAnswered ==
  ASSUME TypeOK, Acking, pc = "handle", link = 1, frame.to = "CTRL",
         frame.cmd \in {"ACK", "BOOTLOADER_ACK"},
         IsPendingAck(expt_ack_pending, expt_msg_id_pending)
  PROVE  \E p \in got : /\ AckOf(p.cmd) = frame.cmd
                        /\ p.seqnum = expt_msg_id_pending
  <1>1. i \in Buffers /\ IsAck(pkt[1][i]) /\ frame = pkt[1][i]
    BY FrameInHandle DEF IsAck, frame, Handling
  <1>2. PICK p \in got : Answers(pkt[1][i], p)
    BY <1>1 DEF Acking, Answered
  <1>3. AckOf(p.cmd) = frame.cmd /\ p.seqnum \div 256 = frame.seq
    BY <1>1, <1>2 DEF Answers
  <1>4. Survives(p)
    BY DEF Acking
  <1>5. TRANSLATE_SEQNUM(frame.seq) = p.seqnum
    BY <1>3, <1>4 DEF Survives
  <1> QED
    BY <1>3, <1>5 DEF IsPendingAck

LEMMA HandleAcking ==
  ASSUME TypeOK, Acking, Handle
  PROVE  Acking'
  <1>1. /\ pc = "handle" /\ UNCHANGED <<pkt, rx, link>>
        /\ frame \in FrameType /\ frame.seq \in Byte
    BY HandleFrame, FrameInHandle DEF Handling
  <1>2. ASSUME UNCHANGED <<got, expt_msg_id_pending>>,
               \/ ret_val' = ret_val \/ ret_val' \notin PendingAcks \/ link # 1
        PROVE  Acking'
    BY <1>1, <1>2 DEF Acking, Answered, Current
  <1>3. CASE Relay
    BY <1>2, <1>3 DEF Relay, Ends, ids
  <1>4. CASE link = 0 /\ Switch0
    <2>1. UNCHANGED <<got, expt_msg_id_pending>>
      BY <1>4 DEF Switch0, Ack0, GetTelem, update_rf_kill_count, StartScore,
        PopRing, OtherAscii, Unsupported, Silently, effects, ids
    <2> QED
      BY <1>2, <1>4, <2>1
  <1>5. CASE frame.to = "CTRL" /\ link = 1 /\ Ack1
    <2>1. CASE IsPendingAck(expt_ack_pending, expt_msg_id_pending)
      <3>1. /\ UNCHANGED <<got, expt_msg_id_pending>>
            /\ ret_val' = "RCVD_PENDING_ACK" /\ frame.cmd = "ACK"
        BY <1>5, <2>1 DEF Ack1, Ends, Silently, effects, ids
      <3>2. PICK p \in got : /\ AckOf(p.cmd) = "ACK"
                             /\ p.seqnum = expt_msg_id_pending
        BY <1>1, <1>5, <2>1, <3>1, PendingIsAnswered
      <3> QED
        BY <1>1, <3>1, <3>2 DEF Acking, Answered, Current
    <2>2. CASE ~IsPendingAck(expt_ack_pending, expt_msg_id_pending)
      <3>1. /\ ToBoard(Answer(frame, "ACK", 0)) /\ ret_val' = "ACK"
            /\ UNCHANGED expt_msg_id_pending
        BY <1>5, <2>2 DEF Ack1, Ends, effects, ids
      <3>2. Answer(frame, "ACK", 0).cmd = "ACK"
        BY DEF Answer, Cmd
      <3>3. Survives([cmd |-> Answer(frame, "ACK", 0).cmd,
                      seqnum |-> Answer(frame, "ACK", 0).seqnum])
        BY <3>2 DEF Survives, AckOf
      <3> QED
        BY <1>1, <3>1, <3>3, ToBoardAcking
        DEF Acking, Current, PendingAcks
    <2> QED
      BY <2>1, <2>2
  <1>6. CASE frame.to = "CTRL" /\ link = 1 /\ BootloaderAck
    <2>1. /\ UNCHANGED <<got, expt_msg_id_pending>>
          /\ frame.cmd = "BOOTLOADER_ACK"
      BY <1>6 DEF BootloaderAck, Silently, effects, ids
    <2>2. CASE IsPendingAck(expt_ack_pending, expt_msg_id_pending)
      <3>1. ret_val' = "RCVD_PENDING_BOOTLOADER_ACK"
        BY <1>6, <2>2 DEF BootloaderAck, Ends
      <3>2. PICK p \in got : /\ AckOf(p.cmd) = "BOOTLOADER_ACK"
                             /\ p.seqnum = expt_msg_id_pending
        BY <1>1, <1>6, <2>1, <2>2, PendingIsAnswered
      <3> QED
        BY <1>1, <2>1, <3>1, <3>2 DEF Acking, Answered, Current
    <2>3. CASE ~IsPendingAck(expt_ack_pending, expt_msg_id_pending)
      <3>1. ret_val' = ret_val
        BY <1>6, <2>3 DEF BootloaderAck, Ends
      <3> QED
        BY <1>2, <2>1, <3>1
    <2> QED
      BY <2>2, <2>3
  <1>7. CASE link = 1 /\ GetTime
    <2>1. PICK cmd \in Opcodes, n \in 0 .. 8 :
            \E payload : SetTime(cmd, n, payload)
      BY <1>7, GetTimeSends
    <2>2. PICK payload : SetTime(cmd, n, payload)
      BY <2>1
    <2>3. libartibeus_msg_id' = frame.seq /\ ret_val' = "GET_TIME"
      BY <1>7 DEF GetTime, Ends
    <2>4. ToBoard(Cmd(TRANSLATE_SEQNUM(frame.seq), "EXPT", cmd, n, payload))
      BY <2>2, <2>3 DEF SetTime
    <2>5. LET id == TRANSLATE_SEQNUM(frame.seq)
          IN  TRANSLATE_SEQNUM(id \div 256) = id
      BY <1>1, TranslateType
    <2>6. LET c == Cmd(TRANSLATE_SEQNUM(frame.seq), "EXPT", cmd, n, payload)
          IN  Survives([cmd |-> c.cmd, seqnum |-> c.seqnum])
      BY <2>5 DEF Survives, Cmd
    <2> QED
      BY <1>1, <2>3, <2>4, <2>6, ToBoardAcking
      DEF Acking, Current, PendingAcks
  <1>8. CASE link = 1 /\ PushAscii
    BY <1>2, <1>8 DEF PushAscii, Ends, Silently, effects, ids, PendingAcks
  <1>9. ASSUME NEW cmds, Unsupported(cmds) PROVE Acking'
    BY <1>2, <1>9 DEF Unsupported, Ends, Silently, effects, ids
  <1>10. link \in {0, 1}
    BY DEF TypeOK, Links
  <1> QED
    BY <1>3, <1>4, <1>5, <1>6, <1>7, <1>8, <1>9, <1>10 DEF Handle, Switch1

LEMMA NextAcking == TypeOK /\ Where /\ Acking /\ [Next]_vars => Acking'
  <1> SUFFICES ASSUME TypeOK, Where, Acking, [Next]_vars PROVE Acking'
    OBVIOUS
  <1>1. ASSUME UNCHANGED <<pkt, rx, got, expt_msg_id_pending>>,
               UNCHANGED <<link, ret_val>> \/ ret_val' = "none"
        PROVE  Acking'
    BY <1>1 DEF Acking, Answered, Current, PendingAcks
  <1>2. CASE Handle
    BY <1>2, HandleAcking
  <1>3. CASE Skip \/ Found \/ SaveActive \/ EndScore \/ Return
    BY <1>1, <1>3 DEF Skip, Found, SaveActive, EndScore, Return, Silently,
      still, buffers, effects, ids
  <1>4. CASE ClearComplete \/ ClearActive
    BY <1>1, <1>4 DEF ClearComplete, ClearActive, Silently, effects, ids
  <1>5. CASE Transmit \/ TransmitEnd
    BY <1>1, <1>5 DEF Transmit, TransmitEnd, still, buffers, effects, ids
  <1>6. CASE Crash
    <2>1. /\ UNCHANGED <<pkt, got, expt_msg_id_pending>> /\ ret_val' = "none"
          /\ rx'[1].frame = NoFrame
      BY <1>6 DEF Crash, ids, Idle, Links
    <2> QED
      BY <2>1, NoFrameType DEF Acking, Answered, Current, PendingAcks
  <1>7. CASE Recovery
    BY <1>1, <1>7 DEF Recovery, PutBackActive, PutBackComplete, Restore,
      Silently, local, buffers, effects, ids
  <1>8. CASE WriteJump
    <2>1. LET c == Cmd(0, "EXPT", "BOOTLOADER_JUMP", 0, 0)
          IN  ToBoard(c) /\ Survives([cmd |-> c.cmd, seqnum |-> c.seqnum])
      BY <1>8 DEF WriteJump, expt_write_jump, Survives, Cmd, TRANSLATE_SEQNUM
    <2>2. UNCHANGED <<pkt, rx, link, ret_val>> /\ ret_val = "none"
      BY <1>8 DEF WriteJump, AppDoes, buffers, local, Where
    <2> QED
      BY <2>1, <2>2, ToBoardAcking DEF Acking, Current, PendingAcks
  <1>9. CASE SelfTest
    <2>1. UNCHANGED <<pkt, rx, expt_msg_id_pending, link, ret_val>>
      BY <1>9 DEF SelfTest, still, buffers, effects, ids, local
    <2>2. CASE ToBoard(expt_ack_check)
      <3>1. Survives([cmd |-> expt_ack_check.cmd,
                      seqnum |-> expt_ack_check.seqnum])
        BY DEF Survives, expt_ack_check, Cmd, TRANSLATE_SEQNUM
      <3> QED
        BY <2>1, <2>2, <3>1, ToBoardAcking DEF Acking, Current
    <2>3. CASE UNCHANGED got
      BY <1>1, <2>1, <2>3
    <2> QED
      BY <1>9, <2>2, <2>3 DEF SelfTest
  <1>10. CASE AwaitGround \/ SendMessage \/ Supply \/ Commit
    BY <1>1, <1>10 DEF AwaitGround, SendMessage, Supply, Commit, Silently,
      still, buffers, effects, ids, local
  <1>11. ASSUME NEW l, CallProcess(l) PROVE Acking'
    BY <1>1, <1>11 DEF CallProcess, Silently, still, buffers, effects, ids
  <1>12. CASE Requests \/ BoardAcks
    BY <1>12, RequestAcking, BoardAcksAcking
  <1>13. CASE Receiving
    BY <1>13, ReceiveAcking DEF Receiving
  <1>14. CASE AfterOverrun \/ UNCHANGED vars
    BY <1>1, <1>14 DEF AfterOverrun, vars, still, buffers, effects, ids, local,
      out
  <1> QED
    BY <1>2, <1>3, <1>4, <1>5, <1>6, <1>7, <1>8, <1>9, <1>10, <1>11, <1>12,
      <1>13, <1>14 DEF Next, Main, Application

LEMMA InitAcking == Init => Acking
  <1> SUFFICES ASSUME Init PROVE Acking
    OBVIOUS
  <1>1. rx[1].frame = NoFrame /\ \A b \in Buffers : pkt[1][b] = NoFrame
    BY DEF Init, Idle, Links
  <1> QED
    BY <1>1, NoFrameType DEF Init, Acking, Answered, Current, PendingAcks

(* The pending ack was sent by the board for a packet with the number that *)
(* is waited for.                                                          *)
THEOREM AcksAreCurrent == Spec => []PendingAckIsCurrent
  <1>1. Acking => PendingAckIsCurrent
    BY DEF Acking, Current, PendingAckIsCurrent
  <1> QED
    BY <1>1, InitPool, InitAcking, NextWhere, NextAcking, TypeCorrect, PTL
    DEF Spec

-----------------------------------------------------------------------------
(* The score *)

(* A step that leaves the marked frames with a score where they are, and   *)
(* is none of the handling of one.                                         *)
LEMMA ScoringStays ==
  ASSUME Scoring, UNCHANGED score_msg,
         raced[0] => raced'[0],
         erased => erased',
         pc = "score" => pc' = "score",
         ~raced'[0] => \A b \in Buffers :
           Visible(0, b) /\ IsScore(pkt[0][b]) /\ score_msg = "torn" =>
             erased' \/ (Visible(0, b)' /\ IsScore(pkt'[0][b])),
         ~raced'[0] =>
           \/ pc' \notin {"score", "transmit", "clear"}
           \/ UNCHANGED <<pc, link, i>> /\ frame' = frame
  PROVE  Scoring'
  BY DEF Scoring, ScoreRepaired

LEMMA ClaimScoring ==
  ASSUME TypeOK, Where, Pool, Scoring, NEW l \in Links, NEW f \in FrameType,
         Claim(l, f)
  PROVE  Scoring'
  <1>1. /\ UNCHANGED <<score_msg, erased, pc, link, i, complete>>
        /\ raced' = [raced EXCEPT ![l] = raced'[l]]
        /\ raced[l] => raced'[l]
    BY ClaimStores DEF effects, local, TypeOK
  <1>2. raced[0] => raced'[0]
    BY <1>1 DEF TypeOK, Links
  <1>3. CASE raced'[0]
    BY <1>1, <1>2, <1>3, ScoringStays
  <1>4. CASE ~raced'[0]
    <2>1. \A b \in Buffers : Visible(0, b) /\ IsScore(pkt[0][b]) =>
            Visible(0, b)' /\ IsScore(pkt'[0][b])
      BY <1>4, ClaimKeeps DEF Visible
    <2>2. pc \in {"score", "transmit", "clear"} /\ link = 0 => frame' = frame
      <3> SUFFICES ASSUME pc \in {"score", "transmit", "clear"}, link = 0
                   PROVE  frame' = frame
        OBVIOUS
      <3>1. i \in Buffers /\ ~raced[0]
        BY <1>2, <1>4 DEF TypeOK, Looking, Handling
      <3>2. complete[0][i] = 1
        BY <3>1 DEF Pool, Owned, Visible, Looking, Handling, Links
      <3> QED
        BY <1>1, <1>4, <3>1, <3>2, ClaimKeeps DEF frame
    <2> QED
      BY <1>1, <1>2, <1>4, <2>1, <2>2 DEF Scoring, ScoreRepaired, Where
  <1> QED
    BY <1>3, <1>4

LEMMA ReceiveScoring ==
  ASSUME TypeOK, Where, Pool, Scoring, NEW l \in Links, Receive(l)
  PROVE  Scoring'
  <1>1. UNCHANGED <<score_msg, erased, raced, pc, link, i, active>>
    BY DEF Receive, effects, local
  <1>2. CASE raced[0]
    BY <1>1, <1>2, ScoringStays
  <1>3. CASE ~raced[0]
    <2>1. \A c \in Buffers : complete[0][c] = 1 =>
            complete'[0][c] = 1 /\ pkt'[0][c] = pkt[0][c]
      BY <1>3, ReceiveKeeps
    <2>2. pc \in {"score", "transmit", "clear"} /\ link = 0 => frame' = frame
      <3> SUFFICES ASSUME pc \in {"score", "transmit", "clear"}, link = 0
                   PROVE  frame' = frame
        OBVIOUS
      <3>1. i \in Buffers /\ complete[0][i] = 1
        BY <1>3 DEF Pool, Owned, Visible, TypeOK, Looking, Handling, Links
      <3> QED
        BY <1>1, <2>1, <3>1 DEF frame
    <2>3. \A b \in Buffers : Visible(0, b) /\ IsScore(pkt[0][b]) =>
            Visible(0, b)' /\ IsScore(pkt'[0][b])
      BY <1>1, <2>1 DEF Visible
    <2> QED
      BY <1>1, <2>2, <2>3 DEF Scoring, ScoreRepaired, Where
  <1> QED
    BY <1>2, <1>3

LEMMA HandleScoring ==
  ASSUME TypeOK, Scoring, Handle
  PROVE  Scoring'
  <1>1. /\ pc = "handle" /\ pc' \in {"clear", "score", "transmit", "overrun"}
        /\ UNCHANGED <<active, complete, pkt, link, i, erased, raced>>
        /\ frame' = frame
    BY HandleFrame
  <1>2. CASE frame.to = "CTRL" /\ link = 0 /\ StartScore
    <2>1. pc' = "score" /\ IsScore(frame)
      BY <1>2 DEF StartScore, IsScore
    <2> QED
      BY <1>1, <2>1 DEF Scoring, ScoreRepaired, IsScore
  <1>3. CASE ~(frame.to = "CTRL" /\ link = 0 /\ StartScore)
    <2>1. UNCHANGED score_msg
      BY <1>3 DEF Handle, Relay, Switch0, Switch1, Ack0, GetTelem,
        update_rf_kill_count, PopRing, OtherAscii, Unsupported, Ack1,
        BootloaderAck, GetTime, PushAscii, effects
    <2>2. pc' # "score"
      BY <1>3 DEF Handle, Relay, Switch0, Switch1, Ack0, GetTelem,
        update_rf_kill_count, PopRing, OtherAscii, Unsupported, Ack1,
        BootloaderAck, GetTime, PushAscii, Ends
    <2>3. ~(link = 0 /\ IsScore(frame))
      BY <1>3 DEF Handle, Switch0, Ack0, GetTelem, update_rf_kill_count,
        PopRing, RecordLen, OtherAscii, Unsupported, IsScore
    <2> QED
      BY <1>1, <2>1, <2>2, <2>3 DEF Scoring, ScoreRepaired, IsScore, Visible
  <1> QED
    BY <1>2, <1>3

LEMMA ClearScoring ==
  ASSUME TypeOK, Pool, Scoring, ClearComplete \/ ClearActive
  PROVE  Scoring'
  <1>1. /\ UNCHANGED <<pkt, score_msg, erased, raced>>
        /\ pc' \in {"clear_active", "scan"} /\ pc # "score"
    BY DEF ClearComplete, ClearActive, effects, history
  <1>2. ASSUME ~raced[0], score_msg = "torn", NEW b \in Buffers,
               Visible(0, b), IsScore(pkt[0][b])
        PROVE  Visible(0, b)'
    <2>1. CASE ClearComplete
      <3>1. /\ pc = "clear" /\ UNCHANGED active
            /\ complete' = [complete EXCEPT ![link][i] = 0]
        BY <2>1 DEF ClearComplete
      <3>2. ~(link = 0 /\ i = b)
        BY <1>2, <3>1 DEF Scoring, frame
      <3>3. complete'[0][b] = complete[0][b]
        BY <3>1, <3>2 DEF TypeOK, Links
      <3> QED
        BY <1>2, <3>1, <3>3 DEF Visible
    <2>2. CASE ClearActive
      <3>1. /\ pc = "clear_active" /\ UNCHANGED complete
            /\ active' = [active EXCEPT ![link][i] = 0]
        BY <2>2 DEF ClearActive
      <3>2. ~(link = 0 /\ i = b)
        BY <1>2, <3>1 DEF Pool, Owned, Visible, Links
      <3>3. active'[0][b] = active[0][b]
        BY <3>1, <3>2 DEF TypeOK, Links
      <3> QED
        BY <1>2, <3>1, <3>3 DEF Visible
    <2> QED
      BY <2>1, <2>2
  <1> QED
    BY <1>1, <1>2, ScoringStays

LEMMA RecoveryScoring ==
  ASSUME TypeOK, Pool, Scoring, Recovery
  PROVE  Scoring'
  <1>1. 0 \in Links /\ raced \in [Links -> BOOLEAN]
    BY DEF Links, TypeOK
  <1>2. UNCHANGED <<pkt, score_msg>> /\ pc = "boot" /\ pc' \in {"boot", "app"}
    BY DEF Recovery, PutBackActive, PutBackComplete, Restore, buffers, effects,
      local
  <1>3. ASSUME NEW b \in Buffers, PutBackActive(b) PROVE Scoring'
    <2>1. /\ raced' = [raced EXCEPT ![0] = raced[0] \/ b \in reclaimed]
          /\ active' = [active EXCEPT ![0][b] = saved_active[b]]
          /\ UNCHANGED <<complete, erased>> /\ saved_active[b] # NotSaved
      BY <1>3 DEF PutBackActive
    <2>2. (raced[0] => raced'[0]) /\ (~raced'[0] => b \notin reclaimed)
      BY <1>1, <2>1
    <2>3. saved_active[b] \in {0, 1}
      BY <2>1 DEF TypeOK, Flag
    <2>4. ~raced'[0] => Logged(b)
      BY <2>2 DEF Pool
    <2>5. ~raced'[0] => \A c \in Buffers : Visible(0, c) => Visible(0, c)'
      <3>1. \A c \in Buffers : active'[0][c] = IF c = b THEN saved_active[b]
                                               ELSE active[0][c]
        BY <1>1, <2>1 DEF TypeOK
      <3> QED
        BY <2>1, <2>3, <2>4, <3>1 DEF Logged, Visible
    <2> QED
      BY <1>2, <2>1, <2>2, <2>5, ScoringStays
  <1>4. ASSUME NEW b \in Buffers, PutBackComplete(b) PROVE Scoring'
    <2>1. /\ raced' = [raced EXCEPT ![0] = raced[0] \/ b \in reclaimed]
          /\ complete' = [complete EXCEPT ![0][b] = saved_complete[b]]
          /\ UNCHANGED active /\ saved_complete[b] # NotSaved
          /\ complete[0][b] = 1 /\ saved_complete[b] = 0 /\ IsScore(pkt[0][b]) =>
               erased'
          /\ erased => erased'
      BY <1>4 DEF PutBackComplete
    <2>2. raced[0] => raced'[0]
      BY <1>1, <2>1
    <2>3. saved_complete[b] \in {0, 1}
      BY <2>1 DEF TypeOK, Flag
    <2>4. \A c \in Buffers : Visible(0, c) /\ IsScore(pkt[0][c]) =>
            erased' \/ Visible(0, c)'
      <3>1. \A c \in Buffers :
              complete'[0][c] = IF c = b THEN saved_complete[b]
                                ELSE complete[0][c]
        BY <1>1, <2>1 DEF TypeOK
      <3> QED
        BY <2>1, <2>3, <3>1 DEF Visible
    <2> QED
      BY <1>2, <2>1, <2>2, <2>4, ScoringStays
  <1>5. CASE Restore
    <2>1. UNCHANGED <<active, complete, erased, raced>>
      BY <1>5 DEF Restore, buffers
    <2> QED
      BY <1>2, <2>1, ScoringStays DEF Visible
  <1> QED
    BY <1>3, <1>4, <1>5 DEF Recovery

LEMMA NextScoring ==
  TypeOK /\ Where /\ Pool /\ Scoring /\ [Next]_vars => Scoring'
  <1> SUFFICES ASSUME TypeOK, Where, Pool, Scoring, [Next]_vars PROVE Scoring'
    OBVIOUS
  <1>1. ASSUME UNCHANGED <<active, complete, pkt, score_msg, erased, raced>>,
               pc # "score", pc' \notin {"score", "transmit", "clear"}
        PROVE  Scoring'
    BY <1>1, ScoringStays DEF Visible
  <1>2. CASE Handle
    BY <1>2, HandleScoring
  <1>3. CASE EndScore
    <2>1. score_msg' = frame.body /\ pc' = "clear"
      BY <1>3 DEF EndScore
    <2>2. frame \in FrameType
      BY <1>3, FrameInHandle DEF EndScore, Handling
    <2>3. frame.body # "torn"
      BY <2>2 DEF FrameType
    <2> QED
      BY <2>1, <2>3 DEF Scoring, ScoreRepaired
  <1>4. CASE ClearComplete \/ ClearActive
    BY <1>4, ClearScoring
  <1>5. CASE Transmit \/ TransmitEnd
    <2>1. /\ pc \in {"transmit", "app_transmit"}
          /\ pc' \in {pc, IF pc = "transmit" THEN "clear" ELSE "app"}
          /\ UNCHANGED <<active, complete, pkt, score_msg, erased, raced, link,
                         i>>
      BY <1>5 DEF Transmit, TransmitEnd, still, buffers, history, effects
    <2> QED
      BY <2>1 DEF Scoring, ScoreRepaired, IsScore, Visible, frame
  <1>6. CASE Crash
    <2>1. /\ pc' = "boot"
          /\ UNCHANGED <<active, complete, pkt, score_msg, erased, raced>>
      BY <1>6 DEF Crash, history
    <2>2. pc = "score" /\ ~raced[0] =>
            \E b \in Buffers : Visible(0, b) /\ IsScore(pkt[0][b])
      <3> SUFFICES ASSUME pc = "score", ~raced[0]
                   PROVE  Visible(0, i) /\ IsScore(pkt[0][i]) /\ i \in Buffers
        OBVIOUS
      <3>1. link = 0 /\ i \in Buffers /\ IsScore(frame)
        BY FrameInHandle DEF Where, Scoring, Handling
      <3>2. Owned(0)
        BY DEF Pool, Links
      <3> QED
        BY <3>1, <3>2 DEF Owned, Looking, Handling, frame
    <2> QED
      BY <2>1, <2>2 DEF Scoring, ScoreRepaired, Visible
  <1>7. CASE Recovery
    BY <1>7, RecoveryScoring
  <1>8. CASE Skip \/ Found \/ SaveActive \/ Return
    BY <1>1, <1>8 DEF Skip, Found, SaveActive, Return, still, buffers, history,
      effects
  <1>9. CASE Application
    BY <1>1, <1>9, ApplicationSteps DEF buffers
  <1>10. CASE Requests \/ BoardAcks
    <2>1. /\ traffic.ground \subseteq FrameType
          /\ traffic.board \subseteq FrameType
      BY TrafficAssumption DEF TypeOK
    <2> QED
      BY <1>10, <2>1, BoardAcksType, ClaimScoring DEF Requests, Links
  <1>11. CASE Receiving
    BY <1>11, ReceiveScoring DEF Receiving
  <1>12. CASE AfterOverrun \/ UNCHANGED vars
    <2>1. UNCHANGED <<active, complete, pkt, score_msg, erased, raced, pc, link,
                      i>>
      BY <1>12 DEF AfterOverrun, vars, still, buffers, history, effects, local
    <2> QED
      BY <2>1 DEF Scoring, ScoreRepaired, IsScore, Visible, frame
  <1> QED
    BY <1>2, <1>3, <1>4, <1>5, <1>6, <1>7, <1>8, <1>9, <1>10, <1>11, <1>12
    DEF Next, Main

LEMMA InitScoring == Init => Scoring
  BY DEF Init, Scoring, ScoreRepaired

(* A score cut short is copied again, as its frame stays, unless the       *)
(* recovery takes the frame away, or a buffer was claimed between the two  *)
(* stores that free it.                                                    *)
THEOREM ScoresRepaired == Spec => []ScoreRepaired
  <1>1. Scoring => ScoreRepaired
    BY DEF Scoring
  <1> QED
    BY <1>1, InitPool, InitScoring, NextWhere, NextPool, NextScoring,
      TypeCorrect, PTL DEF Spec
=============================================================================
