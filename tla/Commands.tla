------------------------------ MODULE Commands ------------------------------
(***************************************************************************)
(* handle_uarts.c, process_uart0 and process_uart1, with comm.c: what the  *)
(* frames of the two packet links make the program do.  Each link has a    *)
(* pool of buffers.  The receive interrupt claims one, stores the fields   *)
(* that the program looks at in the order of their bytes, and marks it,    *)
(* between any two steps of the handlers (UartRx has the bytes).  A frame  *)
(* shorter than the fields that a command looks at leaves those of an      *)
(* earlier frame in the buffer.                                            *)
(*                                                                         *)
(* The application, the ground and the experiment board are external.  The *)
(* links to and from the board lose, repeat and reorder.                   *)
(***************************************************************************)
EXTENDS Packets, Time

CONSTANTS
  UART_BUFFER_CNT,  (* buffers of each link                                *)
  MAX_KILL_COUNT,
  Traffics,         (* what ground, board and application do: see traffic  *)
  Tails,            (* values of the ring indices (Ring)                   *)
  Ids,              (* numbers of the acks the application may wait for    *)
  MaxShown          (* frames that show a kill command, and scores, arrive *)
                    (* at most this often                                  *)

(* A frame as it is sent; to and from are the two halves of the byte dest, *)
(* seq is the byte at SEQ_NUM_OFFSET.                                      *)
FrameType ==
  [to : Boards, from : Boards, cmd : Opcodes, seq : Byte,
   sub : {"none", "RF_KILL", "SCORE", "TELEM_ASCII", "BUFF_REQ_ASCII"},
   body : {"none", "keys", "score"}, full_len : Byte]

IsAck(f) == f.to = "CTRL" /\ f.cmd \in {"ACK", "BOOTLOADER_ACK"}

KILL_KEYS_LEN == 16

ASSUME BuffersAssumption == UART_BUFFER_CNT \in Nat \ {0}
(* A count of 8 bits has to be able to exceed MAX_KILL_COUNT.              *)
ASSUME KillAssumption == MAX_KILL_COUNT \in 0 .. 254 /\ MaxShown \in Nat
ASSUME ValuesAssumption == Tails \subseteq Byte /\ Ids \subseteq Word

(* The board acks only what it got: see BoardAcks. *)
ASSUME TrafficAssumption ==
  \A t \in Traffics :
    /\ t.ground \subseteq FrameType
    /\ t.board \subseteq {f \in FrameType : ~IsAck(f)}
    /\ \A f \in t.ground : f.body = "keys" => f.full_len >= 7 + KILL_KEYS_LEN
    /\ t.calls \subseteq {0, 1}
    /\ t.lens \subseteq Word

(* expt_set_time takes hour, minute and second.  With bytes beyond a time  *)
(* of day, 69 seconds for one, the result leaves int32_t: see Computed.    *)
ASSUME TimesAssumption == \A t \in Traffics : t.times \subseteq TimesOfDay

VARIABLES
  traffic,  (* frames that may arrive, what the application does and the   *)
            (* times it reads; it never changes                            *)
  (* Non-volatile. *)
  active, complete, pkt,  (* per link and buffer: claimed, marked COMPLETE,*)
                          (* and its bytes                                 *)
  saved_complete, saved_active,  (* per buffer of link 0: the undo log     *)
  expt_msg_id_pending, expt_ack_pending,
  comm_msg_id_pending, comm_ack_pending,
  libartibeus_msg_id,
  libartibeus_rf_dead, score_msg,
  (* Volatile, with comm_msg and expt_msg. *)
  rx,                 (* per link: the frame that is being received        *)
  rf_kill_count,
  exp_en, comm_en,    (* the pins that supply the two boards               *)
  pc, link, i, ret_val,
  len, index, seqnum, (* the locals of comm_transmit_pkt                   *)
  (* Environment and history. *)
  got,    (* packets that have reached the experiment board                *)
  kills,  (* kill commands with their keys that have arrived, ...          *)
  heard,  (* ... and those of them since the last recovery                 *)
  stale,  (* other frames that arrived and show the keys of an earlier one *)
  scores, (* scores that have arrived                                      *)
  erased, (* a recovery has taken away a frame with a score                *)
  reclaimed,  (* buffers of link 0 that were claimed with flags in the log *)
  raced   (* per link: a buffer was claimed between the two stores that    *)
          (* free it, or recovery put flags back on a reclaimed one        *)

buffers == <<active, complete, pkt, rx>>
saved == <<saved_complete, saved_active>>
ids == <<expt_msg_id_pending, libartibeus_msg_id>>
awaited == <<expt_ack_pending, comm_msg_id_pending, comm_ack_pending>>
killed == <<rf_kill_count, libartibeus_rf_dead>>
power == <<exp_en, comm_en>>
effects == <<ids, killed, score_msg, power>>
message == <<len, index, seqnum>>
local == <<pc, link, i, ret_val, message>>
counts == <<kills, heard, stale, scores>>
history == <<counts, erased, reclaimed, raced>>
out == <<comm_msg, expt_msg, wire, got>>
still == <<traffic, buffers, saved, awaited, history>>
vars == <<still, effects, local, out>>

Links == {0, 1}
Flag == {0, 1}
Buffers == 0 .. UART_BUFFER_CNT - 1
NotSaved == -1
MAGIC_NUMBER == 43981   (* 0xABCD *)

Handling == {"handle", "score", "transmit", "clear"}
Looking == {"save"} \cup Handling
PendingAcks == {"RCVD_PENDING_ACK", "RCVD_PENDING_BOOTLOADER_ACK"}

NoFrame ==
  [to |-> "TERM", from |-> "TERM", cmd |-> "BOOTLOADER_PING", seq |-> 0,
   sub |-> "none", body |-> "none", full_len |-> 0]

Silently == Quiet /\ UNCHANGED got

(* What of a packet the board answers with. *)
Numbered == [cmd : Opcodes, seqnum : Word]

NoBuffer == -1
Idle == [buffer_num |-> NoBuffer, frame |-> NoFrame, stored |-> 0]

(* What the interrupt and the handlers ask of a buffer. *)
Visible(l, b) == active[l][b] = 1 /\ complete[l][b] = 1

(* The frame being handled. *)
frame == pkt[link][i]

IsScore(f) == f.to = "CTRL" /\ f.cmd = "ASCII" /\ f.sub = "SCORE"
ShowsKill(f) ==
  /\ f.to = "CTRL" /\ f.cmd = "ASCII" /\ f.sub = "RF_KILL"
  /\ f.body = "keys"

(* A kill command that holds its keys itself. *)
IsKill(f) == ShowsKill(f) /\ f.full_len >= 7 + KILL_KEYS_LEN

Init ==
  /\ traffic \in Traffics
  /\ active = [l \in Links |-> [b \in Buffers |-> 0]]
  /\ complete = [l \in Links |-> [b \in Buffers |-> 0]]
  /\ pkt = [l \in Links |-> [b \in Buffers |-> NoFrame]]
  /\ rx = [l \in Links |-> Idle]
  /\ saved_complete = [b \in Buffers |-> NotSaved]
  /\ saved_active = [b \in Buffers |-> NotSaved]
  /\ expt_msg_id_pending = 0 /\ expt_ack_pending = 0
  /\ comm_msg_id_pending = 0 /\ comm_ack_pending = 0
  /\ libartibeus_msg_id = 0
  /\ libartibeus_rf_dead = 0 /\ score_msg = "none"
  /\ rf_kill_count = 0
  /\ exp_en = 0 /\ comm_en = 0
  /\ comm_msg = ZeroPacket /\ expt_msg = ZeroPacket /\ wire = Silent
  /\ pc = "boot" /\ link = 0 /\ i = 0 /\ ret_val = "none"
  /\ len = 0 /\ index = 0 /\ seqnum = 0
  /\ got = {} /\ kills = 0 /\ heard = 0 /\ stale = 0 /\ scores = 0
  /\ erased = FALSE /\ reclaimed = {}
  /\ raced = [l \in Links |-> FALSE]

-----------------------------------------------------------------------------
(* The receive interrupts. *)

(* A frame is stored in two parts: the bytes up to the command, byte 5,    *)
(* and those behind, as far as the frame has them.                         *)
PartsOf(f) == IF f.full_len < 7 THEN 1 ELSE 2

(* The bytes of a buffer when n parts of f are stored over the old ones.   *)
Stored(old, f, n) ==
  [to |-> IF n >= 1 THEN f.to ELSE old.to,
   from |-> IF n >= 1 THEN f.from ELSE old.from,
   cmd |-> IF n >= 1 THEN f.cmd ELSE old.cmd,
   seq |-> IF n >= 1 THEN f.seq ELSE old.seq,
   sub |-> IF n = 2 THEN f.sub ELSE old.sub,
   body |-> IF n = 2 /\ f.full_len >= 8 THEN f.body ELSE old.body,
   full_len |-> f.full_len]

InLog(b) == saved_complete[b] # NotSaved \/ saved_active[b] # NotSaved

(* The length has come: the frame gets the first buffer that is not in     *)
(* use.  When there is none it is dropped, and nothing changes.            *)
Claim(l, f) ==
  \E b \in Buffers :
    /\ rx[l] = Idle
    /\ ~Visible(l, b)
    /\ \A lower \in 0 .. b - 1 : Visible(l, lower)
    /\ LET bytes == Stored(pkt[l][b], f, PartsOf(f))
       IN /\ l = 0 /\ ShowsKill(bytes) => kills + stale < MaxShown
          /\ l = 0 /\ IsScore(bytes) => scores < MaxShown
    /\ active' = [active EXCEPT ![l][b] = 1]
    /\ pkt' = [pkt EXCEPT ![l][b] = Stored(@, f, 0)]
    /\ rx' = [rx EXCEPT ![l] = [buffer_num |-> b, frame |-> f, stored |-> 0]]
    /\ reclaimed' = IF l = 0 /\ InLog(b) THEN reclaimed \cup {b}
                    ELSE reclaimed
    /\ raced' = [raced EXCEPT ![l] =
                   @ \/ (pc = "clear_active" /\ link = l /\ i = b)]
    /\ Silently
    /\ UNCHANGED <<traffic, complete, saved, awaited, effects, local, counts,
                   erased>>

(* The next part of the frame; with the last the buffer is marked.         *)
Receive(l) ==
  LET b == rx[l].buffer_num
      f == rx[l].frame
      n == rx[l].stored + 1
      bytes == Stored(pkt[l][b], f, n)
      whole == n = PartsOf(f)
      shows == whole /\ l = 0 /\ ShowsKill(bytes)
  IN /\ rx[l] # Idle
     /\ pkt' = [pkt EXCEPT ![l][b] = bytes]
     /\ rx' = [rx EXCEPT ![l] = IF whole THEN Idle ELSE [@ EXCEPT !.stored = n]]
     /\ complete' = IF whole THEN [complete EXCEPT ![l][b] = 1] ELSE complete
     /\ kills' = IF shows /\ IsKill(f) THEN kills + 1 ELSE kills
     /\ heard' = IF shows /\ IsKill(f) THEN heard + 1 ELSE heard
     /\ stale' = IF shows /\ ~IsKill(f) THEN stale + 1 ELSE stale
     /\ scores' = IF whole /\ l = 0 /\ IsScore(bytes) THEN scores + 1
                  ELSE scores
     /\ Silently
     /\ UNCHANGED <<traffic, active, saved, awaited, effects, local, erased,
                    reclaimed, raced>>

Ack(cmd, seq) ==
  [to |-> "CTRL", from |-> "EXPT", cmd |-> cmd, seq |-> seq,
   sub |-> "none", body |-> "none", full_len |-> 6]

(* How the board answers a packet: a BOOTLOADER_ACK to what its bootloader *)
(* knows, an ACK to the time.                                              *)
AckOf(cmd) ==
  CASE cmd \in {"BOOTLOADER_JUMP", "BOOTLOADER_ACK"} -> "BOOTLOADER_ACK"
    [] cmd \in {"SET_TIME", "SET_TIME_UTC"} -> "ACK"
    [] OTHER -> "none"

(* The board may answer a packet late, and again. *)
BoardAcks ==
  \E p \in got : AckOf(p.cmd) # "none"
                 /\ Claim(1, Ack(AckOf(p.cmd), p.seqnum \div 256))

(* A packet sent to the board is lost or reaches it. *)
ToBoard(c) ==
  /\ expt_send_cmd(c)
  /\ \/ got' = got \cup {[cmd |-> c.cmd, seqnum |-> c.seqnum]}
     \/ UNCHANGED got

-----------------------------------------------------------------------------
(* The cases of the two switches.  Each says what becomes of all the       *)
(* variables but the pool, the scan and what the application waits for.    *)

Ends(ret) ==
  /\ ret_val' = ret /\ pc' = "clear"
  /\ UNCHANGED message

(* Mutant: the sequence number is not compared. *)
MutIsPendingAck(pending, id) == pending = 1

IsPendingAck(pending, id) ==
  pending = 1 /\ TRANSLATE_SEQNUM(frame.seq) = id

Ack0 ==
  /\ frame.cmd = "ACK"
  /\ IF IsPendingAck(comm_ack_pending, comm_msg_id_pending)
     THEN Silently /\ Ends("RCVD_PENDING_ACK")
     ELSE comm_send_cmd(Answer(frame, "ACK", 0)) /\ UNCHANGED got
          /\ Ends("ACK")
  /\ UNCHANGED effects

TELEM_LEN == 45
GetTelem ==
  /\ frame.cmd = "GET_TELEM"
  /\ comm_send_cmd(Answer(frame, "TELEM", TELEM_LEN)) /\ UNCHANGED got
  /\ Ends("GET_TELEM")
  /\ UNCHANGED effects

(* Mutant: the keys are not compared. *)
Mut_got_key == TRUE

got_key == frame.body = "keys"

(* Mutant: the flag counts, too. *)
Mut_update_rf_kill_count ==
  /\ frame.cmd = "ASCII" /\ frame.sub = "RF_KILL"
  /\ rf_kill_count' = IF got_key THEN (rf_kill_count + 1) % 256
                      ELSE rf_kill_count
  /\ libartibeus_rf_dead' = IF rf_kill_count' > MAX_KILL_COUNT
                            THEN libartibeus_rf_dead + 1
                            ELSE libartibeus_rf_dead
  /\ Silently /\ Ends("ASCII")
  /\ UNCHANGED <<ids, score_msg, power>>

(* Mutant: a command with wrong keys starts the count afresh. *)
MutFreshCount ==
  /\ frame.cmd = "ASCII" /\ frame.sub = "RF_KILL"
  /\ rf_kill_count' = IF got_key THEN (rf_kill_count + 1) % 256 ELSE 0
  /\ libartibeus_rf_dead' = IF rf_kill_count' > MAX_KILL_COUNT THEN 1
                            ELSE libartibeus_rf_dead
  /\ Silently /\ Ends("ASCII")
  /\ UNCHANGED <<ids, score_msg, power>>

update_rf_kill_count ==
  /\ frame.cmd = "ASCII" /\ frame.sub = "RF_KILL"
  /\ rf_kill_count' = IF got_key THEN (rf_kill_count + 1) % 256
                      ELSE rf_kill_count
  /\ libartibeus_rf_dead' = IF rf_kill_count' > MAX_KILL_COUNT THEN 1
                            ELSE libartibeus_rf_dead
  /\ Silently /\ Ends("ASCII")
  /\ UNCHANGED <<ids, score_msg, power>>

OtherAscii ==
  /\ frame.cmd = "ASCII"
  /\ frame.sub \notin {"RF_KILL", "SCORE", "TELEM_ASCII", "BUFF_REQ_ASCII"}
  /\ Silently /\ Ends("ASCII")
  /\ UNCHANGED effects

(* update_score: the copy takes many stores. *)
StartScore ==
  /\ frame.cmd = "ASCII" /\ frame.sub = "SCORE"
  /\ score_msg' = "torn"
  /\ pc' = "score" /\ ret_val' = "ASCII"
  /\ Silently
  /\ UNCHANGED <<ids, killed, power, message>>

(* artibeus_send_telem_ascii_pkt, artibeus_send_ascii_pkt: a NACK when the *)
(* ring looks empty (Ring), or else one of its records.                    *)
RecordLen == [TELEM_ASCII |-> 46, BUFF_REQ_ASCII |-> 248]
PopRing ==
  /\ frame.cmd = "ASCII" /\ frame.sub \in DOMAIN RecordLen
  /\ ret_val' = IF frame.sub = "TELEM_ASCII" THEN "RCVD_TELEM_ASCII"
                ELSE "RCVD_BUFF_REQ_ASCII"
  /\ \/ /\ comm_send_cmd(Answer(frame, "NACK", 0)) /\ UNCHANGED got
        /\ pc' = "clear"
        /\ UNCHANGED <<libartibeus_msg_id, message>>
     \/ /\ libartibeus_msg_id' \in Tails
        /\ len' = RecordLen[frame.sub] /\ index' = 0 /\ seqnum' = 0
        /\ pc' = "transmit"
        /\ Silently
  /\ UNCHANGED <<expt_msg_id_pending, killed, score_msg, power>>

(* The packet of expt_set_time, expt_set_time_utc. *)
SetTime(cmd, cmd_len, payload) ==
  LET id == TRANSLATE_SEQNUM(libartibeus_msg_id')
  IN /\ expt_msg_id_pending' = id
     /\ ToBoard(Cmd(id, "EXPT", cmd, cmd_len, payload))

(* The time goes out, whatever command waits for its ack. *)
GetTime ==
  /\ frame.cmd \in {"GET_TIME", "GET_TIME_UTC"}
  /\ libartibeus_msg_id' = frame.seq
  /\ IF frame.cmd = "GET_TIME"
     THEN \E time \in traffic.times : SetTime("SET_TIME", 8, sec(time))
     ELSE SetTime("SET_TIME_UTC", 6, 0)
  /\ Ends("GET_TIME")
  /\ UNCHANGED <<killed, score_msg, power>>

Ack1 ==
  /\ frame.cmd = "ACK"
  /\ IF IsPendingAck(expt_ack_pending, expt_msg_id_pending)
     THEN Silently /\ Ends("RCVD_PENDING_ACK")
     ELSE ToBoard(Answer(frame, "ACK", 0)) /\ Ends("ACK")
  /\ UNCHANGED effects

BootloaderAck ==
  /\ frame.cmd = "BOOTLOADER_ACK"
  /\ Ends(IF IsPendingAck(expt_ack_pending, expt_msg_id_pending)
          THEN "RCVD_PENDING_BOOTLOADER_ACK" ELSE ret_val)
  /\ Silently
  /\ UNCHANGED effects

(* The frame is pushed on the ring of messages (Ring).  If the first byte  *)
(* of its sequence number is below 8, the copy runs over the memory, and   *)
(* nothing is known of the program from there: the properties speak of     *)
(* what is before.                                                         *)
PushAscii ==
  /\ frame.cmd = "ASCII"
  /\ Silently
  /\ Ends("ASCII") \/ (pc' = "overrun" /\ UNCHANGED <<ret_val, message>>)
  /\ UNCHANGED effects

AfterOverrun == pc = "overrun" /\ UNCHANGED vars

Unsupported(cmds) ==
  /\ frame.cmd \notin cmds
  /\ Silently /\ Ends(ret_val)
  /\ UNCHANGED effects

COMM_ENABLE ==
  comm_en' = IF libartibeus_rf_dead # MAGIC_NUMBER THEN 1 ELSE comm_en

(* Frames for others go to the board on the other link. *)
Relay ==
  /\ IF link = 0 THEN exp_en' = 1 /\ UNCHANGED comm_en
     ELSE COMM_ENABLE /\ UNCHANGED exp_en
  /\ send_raw(1 - link, frame) /\ UNCHANGED got
  /\ Ends(ret_val)
  /\ UNCHANGED <<ids, killed, score_msg>>

Switch0 ==
  \/ Ack0 \/ GetTelem
  \/ update_rf_kill_count \/ StartScore \/ PopRing \/ OtherAscii
  \/ Unsupported({"ACK", "GET_TELEM", "ASCII"})

Switch1 ==
  \/ Ack1 \/ BootloaderAck \/ GetTime \/ PushAscii
  \/ Unsupported({"ACK", "BOOTLOADER_ACK", "GET_TIME", "GET_TIME_UTC",
                  "ASCII"})

-----------------------------------------------------------------------------
(* process_uart0, process_uart1 *)

CallProcess(l) ==
  /\ pc = "app"
  /\ pc' = "scan"
  /\ link' = l /\ i' = 0 /\ ret_val' = "none"
  /\ Silently
  /\ UNCHANGED <<still, effects, message>>

Skip ==
  /\ pc = "scan"
  /\ i < UART_BUFFER_CNT
  /\ ~Visible(link, i)
  /\ i' = i + 1
  /\ Silently
  /\ UNCHANGED <<still, effects, pc, link, ret_val, message>>

(* write_to_log: of the values saved in one task the oldest is restored.   *)
Saved(log, b, flag) == [log EXCEPT ![b] = IF @ = NotSaved THEN flag ELSE @]

(* Both functions save the flags of a buffer of link 0. *)
Found ==
  /\ pc = "scan"
  /\ i < UART_BUFFER_CNT
  /\ Visible(link, i)
  /\ saved_complete' = Saved(saved_complete, i, complete[0][i])
  /\ pc' = "save"
  /\ Silently
  /\ UNCHANGED <<traffic, buffers, saved_active, awaited, effects, link, i,
                 ret_val, message, history>>

SaveActive ==
  /\ pc = "save"
  /\ saved_active' = Saved(saved_active, i, active[0][i])
  /\ pc' = "handle"
  /\ Silently
  /\ UNCHANGED <<traffic, buffers, saved_complete, awaited, effects, link, i,
                 ret_val, message, history>>

Handle ==
  /\ pc = "handle"
  /\ IF frame.to # "CTRL" THEN Relay
     ELSE IF link = 0 THEN Switch0 ELSE Switch1
  /\ UNCHANGED <<still, link, i>>

(* Mutant: the copy of the score ends one byte early. *)
MutEndScore ==
  /\ pc = "score"
  /\ pc' = "clear"
  /\ Silently
  /\ UNCHANGED <<still, effects, link, i, ret_val, message>>

EndScore ==
  /\ pc = "score"
  /\ score_msg' = frame.body
  /\ pc' = "clear"
  /\ Silently
  /\ UNCHANGED <<still, ids, killed, power, link, i, ret_val, message>>

(* comm_transmit_pkt: full pieces, taken from the end of the message, ...  *)
Transmit ==
  /\ pc \in {"transmit", "app_transmit"}
  /\ len > OPENLST_MAX_PAYLOAD_LEN
  /\ TransmitPiece(len, seqnum) /\ UNCHANGED got
  /\ len' = len - OPENLST_MAX_PAYLOAD_LEN
  /\ index' = index + OPENLST_MAX_PAYLOAD_LEN
  /\ seqnum' = (seqnum + 1) % 256
  /\ UNCHANGED <<still, effects, pc, link, i, ret_val>>

(* ... and the rest, taken from behind as many bytes of it. *)
TransmitEnd ==
  /\ pc \in {"transmit", "app_transmit"}
  /\ ~(len > OPENLST_MAX_PAYLOAD_LEN)
  /\ TransmitLast(len, index, seqnum) /\ UNCHANGED got
  /\ len' = 0 /\ index' = 0 /\ seqnum' = 0
  /\ pc' = IF pc = "transmit" THEN "clear" ELSE "app"
  /\ UNCHANGED <<still, effects, link, i, ret_val>>

(* Link 1 stores 1 as the mark, which is not COMPLETE either. *)
ClearComplete ==
  /\ pc = "clear"
  /\ complete' = [complete EXCEPT ![link][i] = 0]
  /\ pc' = "clear_active"
  /\ Silently
  /\ UNCHANGED <<traffic, active, pkt, rx, saved, awaited, effects, link, i,
                 ret_val, message, history>>

ClearActive ==
  /\ pc = "clear_active"
  /\ active' = [active EXCEPT ![link][i] = 0]
  /\ i' = i + 1
  /\ pc' = "scan"
  /\ Silently
  /\ UNCHANGED <<traffic, complete, pkt, rx, saved, awaited, effects, link,
                 ret_val, message, history>>

(* The function returns, and the application looks at the value: an ack    *)
(* that was pending is pending no more.                                    *)
Return ==
  /\ pc = "scan"
  /\ ~(i < UART_BUFFER_CNT)
  /\ LET pending(l, p) == IF ret_val \in PendingAcks /\ link = l THEN 0 ELSE p
     IN /\ expt_ack_pending' = pending(1, expt_ack_pending)
        /\ comm_ack_pending' = pending(0, comm_ack_pending)
  /\ link' = 0 /\ i' = 0 /\ ret_val' = "none"
  /\ pc' = "app"
  /\ Silently
  /\ UNCHANGED <<traffic, buffers, saved, comm_msg_id_pending, effects,
                 message, history>>

-----------------------------------------------------------------------------
(* What else the application does. *)

AppDoes(what) == pc = "app" /\ what \in traffic.app

expt_write_jump ==
  /\ expt_msg_id_pending' = 0
  /\ ToBoard(Cmd(0, "EXPT", "BOOTLOADER_JUMP", 0, 0))
  /\ UNCHANGED libartibeus_msg_id

(* It starts the program of the board, and again while no ack has come. *)
WriteJump ==
  /\ AppDoes("jump")
  /\ expt_write_jump
  /\ expt_ack_pending' = 1
  /\ UNCHANGED <<traffic, buffers, saved, comm_msg_id_pending,
                 comm_ack_pending, killed, score_msg, power, local, history>>

AwaitGround ==
  /\ AppDoes("await")
  /\ comm_ack_pending' = 1
  /\ comm_msg_id_pending' \in Ids
  /\ Silently
  /\ UNCHANGED <<traffic, buffers, saved, expt_ack_pending, effects, local,
                 history>>

SelfTest ==
  /\ pc = "app"
  /\ \/ /\ "test" \in traffic.app
        /\ \E c \in {comm_ack_check, comm_rf_check, comm_transmit_ready} :
             comm_send_cmd(c)
        /\ UNCHANGED got
     \/ "ping" \in traffic.app /\ ToBoard(expt_ack_check)
  /\ UNCHANGED <<still, effects, local>>

SendMessage ==
  /\ AppDoes("message")
  /\ len' \in traffic.lens /\ index' = 0 /\ seqnum' = 0
  /\ pc' = "app_transmit"
  /\ Silently
  /\ UNCHANGED <<still, effects, link, i, ret_val>>

(* EXP_ENABLE, EXP_DISABLE, COMM_ENABLE, COMM_DISABLE. *)
Supply ==
  /\ AppDoes("supply")
  /\ \/ exp_en' \in {0, 1} /\ UNCHANGED comm_en
     \/ COMM_ENABLE /\ UNCHANGED exp_en
     \/ comm_en' = 0 /\ UNCHANGED exp_en
  /\ Silently
  /\ UNCHANGED <<still, ids, killed, score_msg, local>>

(* The end of a task empties the log (UndoLog, SwitchCtx). *)
Commit ==
  /\ pc = "app"
  /\ saved_complete' = [b \in Buffers |-> NotSaved]
  /\ saved_active' = [b \in Buffers |-> NotSaved]
  /\ reclaimed' = {}
  /\ Silently
  /\ UNCHANGED <<traffic, buffers, awaited, effects, local, counts, erased,
                 raced>>

(* Power failure. *)
Crash ==
  /\ pc # "overrun"
  /\ comm_msg' = ZeroPacket /\ expt_msg' = ZeroPacket /\ wire' = Silent
  /\ rf_kill_count' = 0
  /\ exp_en' = 0 /\ comm_en' = 0
  /\ rx' = [l \in Links |-> Idle]
  /\ link' = 0 /\ i' = 0 /\ ret_val' = "none"
  /\ len' = 0 /\ index' = 0 /\ seqnum' = 0
  /\ pc' = "boot"
  /\ UNCHANGED <<traffic, active, complete, pkt, saved, awaited, history, ids,
                 libartibeus_rf_dead, score_msg, got>>

(* restore_from_backup at the next boot, newest entry first, as frames     *)
(* arrive: active of a buffer, and complete.                               *)
PutBackActive(b) ==
  /\ pc = "boot"
  /\ saved_active[b] # NotSaved
  /\ active' = [active EXCEPT ![0][b] = saved_active[b]]
  /\ saved_active' = [saved_active EXCEPT ![b] = NotSaved]
  /\ raced' = [raced EXCEPT ![0] = @ \/ b \in reclaimed]
  /\ Silently
  /\ UNCHANGED <<traffic, complete, pkt, rx, saved_complete, awaited, effects,
                 local, counts, erased, reclaimed>>

PutBackComplete(b) ==
  /\ pc = "boot"
  /\ saved_active[b] = NotSaved /\ saved_complete[b] # NotSaved
  /\ complete' = [complete EXCEPT ![0][b] = saved_complete[b]]
  /\ saved_complete' = [saved_complete EXCEPT ![b] = NotSaved]
  /\ raced' = [raced EXCEPT ![0] = @ \/ b \in reclaimed]
  /\ erased' = (erased \/ (complete[0][b] = 1 /\ saved_complete[b] = 0
                          /\ IsScore(pkt[0][b])))
  /\ Silently
  /\ UNCHANGED <<traffic, active, pkt, rx, saved_active, awaited, effects,
                 local, counts, reclaimed>>

Restore ==
  /\ pc = "boot"
  /\ \A b \in Buffers : ~InLog(b)
  /\ heard' = 0
  /\ reclaimed' = {}
  /\ pc' = "app"
  /\ Silently
  /\ UNCHANGED <<traffic, buffers, saved, awaited, effects, link, i, ret_val,
                 message, kills, stale, scores, erased, raced>>

-----------------------------------------------------------------------------
Recovery ==
  \/ \E b \in Buffers : PutBackActive(b) \/ PutBackComplete(b)
  \/ Restore

Main ==
  \/ Recovery
  \/ Skip \/ Found \/ SaveActive \/ Handle \/ AfterOverrun \/ EndScore
  \/ Transmit \/ TransmitEnd \/ ClearComplete \/ ClearActive \/ Return

Requests ==
  \/ \E f \in traffic.ground : Claim(0, f)
  \/ \E f \in traffic.board : Claim(1, f)

Receiving == \E l \in Links : Receive(l)

Application ==
  \/ \E l \in traffic.calls : CallProcess(l)
  \/ WriteJump \/ AwaitGround \/ SelfTest \/ SendMessage \/ Supply \/ Commit

Next ==
  Main \/ Application \/ Requests \/ BoardAcks \/ Receiving \/ Crash

Spec == Init /\ [][Next]_vars

-----------------------------------------------------------------------------
(* Properties *)

(* Types of the variables of the program. *)
TypeOK ==
  /\ traffic \in Traffics
  /\ active \in [Links -> [Buffers -> Flag]]
  /\ complete \in [Links -> [Buffers -> Flag]]
  /\ pkt \in [Links -> [Buffers -> FrameType]]
  /\ rx \in [Links -> [buffer_num : {NoBuffer} \cup Buffers,
                       frame : FrameType, stored : {0, 1}]]
  /\ \A l \in Links : /\ rx[l].buffer_num = NoBuffer => rx[l] = Idle
                     /\ rx[l].stored < PartsOf(rx[l].frame)
  /\ saved_complete \in [Buffers -> Flag \cup {NotSaved}]
  /\ saved_active \in [Buffers -> Flag \cup {NotSaved}]
  /\ expt_msg_id_pending \in Word /\ expt_ack_pending \in Flag
  /\ comm_msg_id_pending \in Word /\ comm_ack_pending \in Flag
  /\ libartibeus_msg_id \in Byte
  /\ rf_kill_count \in Byte /\ libartibeus_rf_dead \in Flag
  /\ exp_en \in Flag /\ comm_en \in Flag
  /\ pc \in {"boot", "app", "scan", "clear_active", "app_transmit",
             "overrun"} \cup Looking
  /\ link \in Links
  /\ i \in 0 .. UART_BUFFER_CNT
  /\ pc \in Looking \cup {"clear_active"} => i \in Buffers
  /\ len \in Nat /\ index \in Nat /\ seqnum \in Byte
  /\ got \subseteq Numbered
  /\ kills \in Nat /\ heard \in Nat /\ stale \in Nat
  /\ scores \in Nat
  /\ erased \in BOOLEAN /\ reclaimed \subseteq Buffers
  /\ raced \in [Links -> BOOLEAN]

(* Although a power failure has frames handled again, the kill count never *)
(* exceeds the kill commands that have arrived with their keys, and the    *)
(* radio is declared dead only after more than MAX_KILL_COUNT of them.     *)
(* This is so while no frame has arrived that is too short for the keys    *)
(* and shows those of an earlier one, and no buffer of the link was        *)
(* claimed while it was being freed or put back by a recovery.             *)
KillIsMeant ==
  stale = 0 /\ ~raced[0] =>
    /\ rf_kill_count <= kills
    /\ libartibeus_rf_dead = 1 => kills > MAX_KILL_COUNT

(* "it's nbd if we have an extra jump or 2 on the kill count" (process_    *)
(* uart0): the count is ahead of the kill commands that have arrived by    *)
(* two at the most.                                                        *)
ExtraJumpsAreFew == rf_kill_count <= kills + 2

(* No kill command is overlooked while the power stays on, however the     *)
(* bytes arrive between the steps of a scan: when the function has         *)
(* returned, and the radio is not declared dead, all but MAX_KILL_COUNT of *)
(* the commands that arrived still wait in the buffers.  This is so while  *)
(* no buffer of the link was claimed between the two stores that free it,  *)
(* or put back by a recovery after it had been claimed again.              *)
KillIsObeyed ==
  pc = "app" /\ libartibeus_rf_dead = 0 /\ ~raced[0] =>
    heard <= MAX_KILL_COUNT
             + Cardinality({b \in Buffers : Visible(0, b)
                                            /\ ShowsKill(pkt[0][b])})

(* What is told to the application as the ack it waits for has been sent   *)
(* by the board for a packet with the number that is waited for, whatever  *)
(* other packets and late acks crossed it, and power failures.  Not while  *)
(* a buffer of the link has been claimed between the two stores that free  *)
(* it: there a handler may see half a header, which comes as one part here.*)
PendingAckIsCurrent ==
  link = 1 /\ ret_val \in PendingAcks /\ ~raced[1] =>
    \E p \in got : /\ p.seqnum = expt_msg_id_pending
                  /\ ret_val = IF AckOf(p.cmd) = "ACK" THEN "RCVD_PENDING_ACK"
                               ELSE "RCVD_PENDING_BOOTLOADER_ACK"

(* "We'll re-run this if it fails" (process_uart0): a score cut short by a *)
(* power failure is copied again, as its frame is still there, unless the  *)
(* recovery took the frame away with flags that process_uart1 had saved,   *)
(* or had found its buffer claimed again.                                  *)
ScoreRepaired ==
  score_msg = "torn" =>
    \/ pc = "score" \/ erased \/ raced[0]
    \/ \E b \in Buffers : Visible(0, b) /\ IsScore(pkt[0][b])

(* What goes out is what was asked for, and as long as its length byte     *)
(* says, but for messages that leave no room for the header.               *)
SentAsAsked ==
  wire.kind = "cmd" =>
    \/ /\ wire.packet.total_len = HeaderLen + wire.asked.cmd_len
       /\ wire.packet.seqnum = wire.asked.seqnum
       /\ wire.packet.cmd = wire.asked.cmd
       /\ wire.packet.dest = wire.asked.dest
       /\ wire.packet.payload = wire.asked.payload
       /\ wire.sent = PRE_HEADER_LEN + wire.packet.total_len
    \/ /\ wire.link = 0 /\ wire.asked.cmd = "ASCII"
       /\ wire.asked.cmd_len > OPENLST_MAX_PAYLOAD_LEN - HeaderLen
=============================================================================
