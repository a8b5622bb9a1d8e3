------------------------------ MODULE Packets ------------------------------
(***************************************************************************)
(* comm.c: formatting and sending of packets.  Each link has one packet    *)
(* object, comm_msg and expt_msg, that a command is formatted into before  *)
(* it is sent.  A command that is too long is refused, but sent all the    *)
(* same: what goes out is then the packet before it.                       *)
(*                                                                         *)
(* The operators are conjuncts of the actions of Commands.  A payload is   *)
(* one number: the time, the first byte of a message that goes out, or the *)
(* byte a test packet is filled with.  Start bytes and hwid are constants  *)
(* and left out.                                                           *)
(***************************************************************************)
EXTENDS Integers

CONSTANT OPENLST_MAX_PAYLOAD_LEN

ASSUME PacketsAssumption == OPENLST_MAX_PAYLOAD_LEN \in 64 .. 255

VARIABLES
  comm_msg, expt_msg,  (* volatile: the packet objects                     *)
  wire                 (* what the last step has put on a link             *)

Byte == 0 .. 255
Word == 0 .. 65535
Boards == {"CTRL", "COMM", "EXPT", "TERM"}
(* openlst_opcode, those that are told apart and one that is not handled. *)
Opcodes ==
  {"ACK", "NACK", "ASCII", "TELEM", "GET_TELEM", "GET_TIME", "SET_TIME",
   "GET_TIME_UTC", "SET_TIME_UTC", "BOOTLOADER_ACK", "BOOTLOADER_JUMP",
   "EXPT_LISTENING", "BOOTLOADER_PING", "REBOOT"}
HeaderLen == 6         (* sizeof(cmd_header)                               *)
PRE_HEADER_LEN == 3

(* openlst_cmd: what the code asks to send. *)
Cmd(seqnum, dest, cmd, cmd_len, payload) ==
  [seqnum |-> seqnum, dest |-> dest, cmd |-> cmd, cmd_len |-> cmd_len,
   payload |-> payload]

(* cmd_pkt, as it is at boot. *)
ZeroPacket ==
  [total_len |-> 0, seqnum |-> 0, dest |-> "TERM", cmd |-> "BOOTLOADER_PING",
   payload |-> 0]

NoCmd == Cmd(0, "TERM", "BOOTLOADER_PING", 0, 0)
Silent == [kind |-> "silent", link |-> 0, asked |-> NoCmd,
           packet |-> ZeroPacket, sent |-> 0]
Quiet == wire' = Silent /\ UNCHANGED <<comm_msg, expt_msg>>

Refused(c) == c.cmd_len + HeaderLen > OPENLST_MAX_PAYLOAD_LEN

(* comm_format_pkt and expt_format_pkt: the packet object afterwards. *)
format_pkt(msg, c) ==
  IF Refused(c) THEN msg
  ELSE [total_len |-> HeaderLen + c.cmd_len, seqnum |-> c.seqnum,
        dest |-> c.dest, cmd |-> c.cmd, payload |-> c.payload]

Sends(link, c, packet, sent) ==
  wire' = [kind |-> "cmd", link |-> link, asked |-> c, packet |-> packet,
           sent |-> sent]

(* The result of the formatting is not looked at. *)
comm_send_cmd(c) ==
  /\ comm_msg' = format_pkt(comm_msg, c)
  /\ Sends(0, c, format_pkt(comm_msg, c), 9 + c.cmd_len)
  /\ UNCHANGED expt_msg

(* Mutant: the formatting does not add the header to cmd_len. *)
Mut_expt_send_cmd(c) ==
  /\ expt_msg' = format_pkt(expt_msg, c)
  /\ Sends(1, c, format_pkt(expt_msg, c), 3 + c.cmd_len)
  /\ UNCHANGED comm_msg

(* The formatting, unless it refuses, adds the header to cmd_len. *)
expt_send_cmd(c) ==
  /\ expt_msg' = format_pkt(expt_msg, c)
  /\ Sends(1, c, format_pkt(expt_msg, c),
           3 + c.cmd_len + (IF Refused(c) THEN 0 ELSE HeaderLen))
  /\ UNCHANGED comm_msg

(* comm_send_raw, expt_send_raw: a received frame goes on as it is. *)
send_raw(link, frame) ==
  /\ wire' = [kind |-> "raw", link |-> link, packet |-> frame,
              sent |-> PRE_HEADER_LEN + frame.full_len]
  /\ UNCHANGED <<comm_msg, expt_msg>>

(* The byte of the sequence number at SEQ_NUM_OFFSET becomes the high byte *)
(* of a 16-bit number, whose low byte is x >> 8, and so 0.                 *)
TRANSLATE_SEQNUM(x) == (x % 256) * 256 + (x % 256) \div 256

(* comm_return_ack, _nack, _telem; expt_return_ack: the frame answered is  *)
(* addressed by its sender and its byte at SEQ_NUM_OFFSET.                 *)
Answer(frame, cmd, cmd_len) == Cmd(frame.seq, frame.from, cmd, cmd_len, 0)

(* One round of the loop of comm_transmit_pkt, with len bytes left, and    *)
(* its last packet.  The payload says which bytes of the message go out.   *)
TransmitPiece(len, seqnum) ==
  comm_send_cmd(Cmd(seqnum, "TERM", "ASCII", OPENLST_MAX_PAYLOAD_LEN,
                    len - OPENLST_MAX_PAYLOAD_LEN))
TransmitLast(len, index, seqnum) ==
  comm_send_cmd(Cmd(seqnum, "TERM", "ASCII", len, index))

(* The fixed packets of the self-tests, to the radio ... *)
COMM_TEST_LEN == 128
comm_ack_check == Cmd(0, "COMM", "ACK", 0, 0)
comm_rf_check == Cmd(0, "TERM", "ASCII", COMM_TEST_LEN, 250)
comm_transmit_ready == Cmd(0, "TERM", "EXPT_LISTENING", 1, 100)
(* ... and to the experiment board. *)
expt_ack_check == Cmd(0, "EXPT", "BOOTLOADER_ACK", 0, 0)
=============================================================================
