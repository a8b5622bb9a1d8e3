-------------------------------- MODULE Gnss --------------------------------
(***************************************************************************)
(* handle_uarts.c, handle_progress_uart2: the receive interrupt of the     *)
(* link to the GNSS receiver.  It follows the NMEA sentences byte by byte; *)
(* when one ends, it decodes it into the one of two gps_data objects that  *)
(* cur_gps_data does not name, and moves cur_gps_data there if the fix is  *)
(* good and not older.  The main program reads through cur_gps_data        *)
(* without a lock, between any two bytes.                                  *)
(*                                                                         *)
(* The parser itself (get_sentence_type, get_sentence_pkt,                 *)
(* process_sentence_pkt, time_compare) is libgnss, which is external: it   *)
(* may find any outcome at any byte.  Power may fail at any moment; libgnss *)
(* declares the two objects and cur_gps_data, and whether it keeps them in *)
(* RAM or in FRAM cannot be seen here, so a failure may do either.         *)
(***************************************************************************)
EXTENDS Integers

CONSTANTS
  Time    (* times of a fix, in order                                      *)

ASSUME GnssAssumption == Time \subseteq Nat /\ 0 \in Time

VARIABLES
  gnss_pkt_type, gnss_active_pkt,
  gps_data,       (* gps_data1 and gps_data2                               *)
  cur_gps_data,   (* which of them is shown                                *)
  pkt_error,      (* libartibeus_uartlink2_pkt_error                       *)
  ptr,            (* the pointer that the main program took                *)
  (* History, read by the properties only. *)
  taken,          (* what it showed then                                   *)
  decoded         (* sentences decoded since then; Lost at most            *)

parser == <<gnss_pkt_type, gnss_active_pkt>>
data == <<gps_data, cur_gps_data, pkt_error>>
reader == <<ptr, taken, decoded>>
vars == <<parser, data, reader>>

Fix == [ok : BOOLEAN, time : Time]
NoFix == [ok |-> FALSE, time |-> 0]
Lost == 2

shown == gps_data[cur_gps_data]
(* Mutants: the sentence is decoded into the object that is shown; into one*)
(* that does not exist.                                                    *)
MutNextSame == cur_gps_data
MutNextOn == cur_gps_data + 1

next_gps_data == 3 - cur_gps_data

Init ==
  /\ gnss_pkt_type = "NONE"
  /\ gnss_active_pkt = FALSE
  /\ gps_data = [o \in {1, 2} |-> NoFix]
  /\ cur_gps_data = 1
  /\ pkt_error = FALSE
  /\ ptr = 1
  /\ taken = NoFix
  /\ decoded = Lost

-----------------------------------------------------------------------------
(* One byte *)

(* '$' starts a sentence, whatever came before. *)
Dollar ==
  /\ gnss_pkt_type' = "IN_PROGRESS"
  /\ gnss_active_pkt' = FALSE
  /\ UNCHANGED <<data, reader>>

(* get_sentence_type: the header goes on, is a known one, or is not.       *)
TypeByte ==
  /\ gnss_pkt_type = "IN_PROGRESS"
  /\ \/ UNCHANGED parser
     \/ gnss_pkt_type' = "KNOWN" /\ gnss_active_pkt' = TRUE
     \/ gnss_pkt_type' = "NONE" /\ UNCHANGED gnss_active_pkt
  /\ UNCHANGED <<data, reader>>

InSentence == gnss_pkt_type # "IN_PROGRESS" /\ gnss_active_pkt

(* get_sentence_pkt: the sentence is not done; or there is none.           *)
OtherByte ==
  /\ gnss_pkt_type # "IN_PROGRESS"
  /\ UNCHANGED vars

(* Mutant: the times are not compared. *)
MutDecode(fix, error) ==
  /\ InSentence
  /\ gnss_active_pkt' = FALSE
  /\ gps_data' = [gps_data EXCEPT ![next_gps_data] = fix]
  /\ pkt_error' = (error \/ ~fix.ok)
  /\ cur_gps_data' = IF ~error /\ fix.ok THEN next_gps_data ELSE cur_gps_data
  /\ decoded' = IF decoded < Lost THEN decoded + 1 ELSE decoded
  /\ UNCHANGED <<gnss_pkt_type, ptr, taken>>

(* The sentence is done.  What process_sentence_pkt leaves in the other    *)
(* object is shown if it reports no error and the fix is good and not      *)
(* older (time_compare).                                                   *)
Decode(fix, error) ==
  /\ InSentence
  /\ gnss_active_pkt' = FALSE
  /\ gps_data' = [gps_data EXCEPT ![next_gps_data] = fix]
  /\ pkt_error' = (error \/ ~fix.ok)
  /\ cur_gps_data' = IF ~error /\ fix.ok /\ fix.time >= shown.time
                     THEN next_gps_data ELSE cur_gps_data
  /\ decoded' = IF decoded < Lost THEN decoded + 1 ELSE decoded
  /\ UNCHANGED <<gnss_pkt_type, ptr, taken>>

HandleProgressUart2 ==
  \/ Dollar \/ TypeByte \/ OtherByte
  \/ \E fix \in Fix, error \in BOOLEAN : Decode(fix, error)

(* The main program takes the pointer, to read through it for a while. *)
Take ==
  /\ ptr' = cur_gps_data
  /\ taken' = shown
  /\ decoded' = 0
  /\ UNCHANGED <<parser, data>>

(* Power fails.  What was in RAM starts anew; what was in FRAM stays, and  *)
(* the object that is not shown may be left half decoded.                  *)
LoseFixes ==
  /\ gnss_pkt_type' = "NONE" /\ gnss_active_pkt' = FALSE
  /\ gps_data' = [o \in {1, 2} |-> NoFix]
  /\ cur_gps_data' = 1

KeepFixes ==
  /\ \E fix \in Fix : gps_data' = [gps_data EXCEPT ![next_gps_data] = fix]
  /\ UNCHANGED <<parser, cur_gps_data>>

Crash ==
  /\ LoseFixes \/ KeepFixes
  /\ pkt_error' = FALSE
  /\ ptr' = 1 /\ taken' = NoFix /\ decoded' = Lost

Next == HandleProgressUart2 \/ Take \/ Crash

Spec == Init /\ [][Next]_vars

-----------------------------------------------------------------------------
(* Properties *)

(* Types of all the variables. *)
TypeOK ==
  /\ gnss_pkt_type \in {"NONE", "IN_PROGRESS", "KNOWN"}
  /\ gnss_active_pkt \in BOOLEAN
  /\ gps_data \in [{1, 2} -> Fix]
  /\ cur_gps_data \in {1, 2}
  /\ pkt_error \in BOOLEAN
  /\ ptr \in {1, 2}
  /\ taken \in Fix
  /\ decoded \in 0 .. Lost

(* Whatever comes over the line, the position that cur_gps_data shows      *)
(* never goes back in time, and once it is a good fix it stays one: bad,   *)
(* late and damaged sentences are decoded out of sight.  Only a power      *)
(* failure may take a position away, and then all of it.                   *)
NeverWorse ==
  [][\/ shown'.time >= shown.time /\ (shown.ok => shown'.ok)
     \/ Crash /\ shown' = NoFix]_vars

(* A pointer that the main program took shows the same fix until a second  *)
(* sentence has been decoded, of which the interrupt tells it nothing.     *)
KeptPointerGood == decoded < Lost => gps_data[ptr] = taken
=============================================================================
