----------------------------- MODULE MCCommands -----------------------------
(* Values for the constants of Commands. *)
EXTENDS Commands

F(from, to, cmd, seq) ==
  [to |-> to, from |-> from, cmd |-> cmd, seq |-> seq, sub |-> "none",
   body |-> "none", full_len |-> 6]
Ground(cmd, seq) == F("TERM", "CTRL", cmd, seq)
Board(cmd, seq) == F("EXPT", "CTRL", cmd, seq)
Sub(sub, body, n) ==
  [Ground("ASCII", 0) EXCEPT !.sub = sub, !.body = body, !.full_len = n]

T(ground, board, app, calls, times) ==
  [ground |-> ground, board |-> board, app |-> app, calls |-> calls,
   times |-> times, lens |-> {246, 600}]

Noon == {<<12, 1, 0>>}

(* One kill command and, in its buffer, frames that are too short for keys. *)
KillTraffic ==
  {T({Sub("RF_KILL", "keys", 23), Sub("RF_KILL", "none", 7)}, {}, {}, {0}, {})}

MCTraffics == {
  (* Kill commands, whole ones and frames that show the keys of those.     *)
  T({Sub("RF_KILL", "keys", 23), Sub("RF_KILL", "none", 7)}, {}, {}, {0}, {}),
  (* Scores, while the board sends, too: process_uart1 saves the flags of  *)
  (* the pool that process_uart0 scans.                                    *)
  T({Sub("SCORE", "score", 39)}, {Board("REBOOT", 0)}, {}, {0, 1}, {}),
  (* Scores, and what is not supported. *)
  T({Sub("SCORE", "score", 39), Ground("REBOOT", 0)}, {}, {}, {0}, {}),
  (* Records of the rings, messages of the application, self-tests. *)
  T({Sub("TELEM_ASCII", "none", 7)}, {}, {"message"}, {0}, {}),
  T({Sub("BUFF_REQ_ASCII", "none", 7), Ground("GET_TELEM", 1)}, {}, {"test"},
    {0}, {}),
  (* Acks of the ground, frames that are passed on, supplies switched. *)
  T({Ground("ACK", 0), Ground("ACK", 1)}, {}, {"await"}, {0}, {}),
  T({Sub("none", "none", 7), F("TERM", "EXPT", "REBOOT", 0)}, {}, {"supply"},
    {0}, {}),
  T({}, {F("EXPT", "TERM", "ASCII", 0)}, {}, {1}, {}),
  (* The board is started, and tested, while it asks for the time and      *)
  (* sends messages for the ring.                                          *)
  T({}, {Board("GET_TIME", 1)}, {"jump"}, {1}, Noon),
  T({}, {Board("GET_TIME_UTC", 0)}, {"ping"}, {1}, Noon),
  T({}, {Board("ASCII", 0)}, {"ping"}, {1}, {})
}
=============================================================================
