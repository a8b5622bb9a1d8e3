----------------------------- MODULE GnssProofs -----------------------------
(***************************************************************************)
(* Proofs about Gnss, for every set of times.                              *)
(***************************************************************************)
EXTENDS Gnss, TLAPS

(* A fresh pointer names the object that is shown, and so not the one that *)
(* the next sentence is decoded into.                                      *)
IInv ==
  /\ TypeOK
  /\ KeptPointerGood
  /\ decoded = 0 => ptr = cur_gps_data

LEMMA InitIInv == ASSUME Init PROVE IInv
<1>1. NoFix \in Fix BY GnssAssumption DEF NoFix, Fix
<1>2. gps_data \in [{1, 2} -> Fix] /\ taken \in Fix BY <1>1 DEF Init
<1>3. pkt_error \in BOOLEAN /\ gnss_active_pkt \in BOOLEAN BY DEF Init
<1>4. TypeOK BY <1>2, <1>3 DEF Init, TypeOK, Lost
<1>5. QED BY <1>4 DEF Init, IInv, KeptPointerGood, Lost

(* What a decoded sentence does to the two objects. *)
LEMMA DecodeEffect ==
  ASSUME TypeOK, NEW fix \in Fix, NEW error \in BOOLEAN, Decode(fix, error)
  PROVE  /\ TypeOK'
         /\ gps_data'[cur_gps_data] = shown
         /\ gps_data'[3 - cur_gps_data] = fix
         /\ \/ cur_gps_data' = cur_gps_data
            \/ /\ cur_gps_data' = 3 - cur_gps_data
               /\ fix.ok /\ fix.time >= shown.time
<1>1. next_gps_data \in {1, 2} \ {cur_gps_data}
  BY DEF TypeOK, next_gps_data
<1>2. TypeOK'
  <2>1. gps_data' \in [{1, 2} -> Fix] BY <1>1 DEF Decode, TypeOK
  <2>2. cur_gps_data' \in {1, 2} BY <1>1 DEF Decode, TypeOK
  <2>3. pkt_error' \in BOOLEAN BY DEF Decode
  <2>4. decoded' \in 0 .. Lost BY DEF Decode, TypeOK, Lost
  <2>5. QED BY <2>1, <2>2, <2>3, <2>4 DEF Decode, TypeOK
<1>3. QED BY <1>1, <1>2 DEF Decode, TypeOK, next_gps_data, shown

LEMMA NextIInv == ASSUME IInv, [Next]_vars PROVE IInv'
<1>1. CASE \E fix \in Fix, error \in BOOLEAN : Decode(fix, error)
  <2>1. PICK fix \in Fix : \E error \in BOOLEAN : Decode(fix, error)
    BY <1>1
  <2>2. PICK error \in BOOLEAN : Decode(fix, error) BY <2>1
  <2>3. TypeOK' /\ gps_data'[cur_gps_data] = shown
    BY <2>2, DecodeEffect DEF IInv
  <2>4. decoded' < Lost => decoded = 0 /\ decoded' = 1
    BY <2>2 DEF Decode, IInv, TypeOK, Lost
  <2>5. decoded' # 0 /\ UNCHANGED <<ptr, taken>>
    BY <2>2 DEF Decode, IInv, TypeOK, Lost
  <2>6. QED
    BY <2>3, <2>4, <2>5 DEF IInv, KeptPointerGood, shown, Lost
<1>2. CASE Dollar \/ TypeByte \/ OtherByte \/ UNCHANGED vars
  BY <1>2 DEF Dollar, TypeByte, OtherByte, IInv, TypeOK, KeptPointerGood, vars,
              parser, data, reader
<1>3. CASE Take
  BY <1>3 DEF Take, IInv, TypeOK, KeptPointerGood, shown, Lost, parser, data
<1>4. CASE Crash
  <2>1. NoFix \in Fix BY GnssAssumption DEF NoFix, Fix
  <2>2. gps_data' \in [{1, 2} -> Fix]
    BY <1>4, <2>1 DEF Crash, LoseFixes, KeepFixes, IInv, TypeOK
  <2>3. /\ cur_gps_data' \in {1, 2} /\ gnss_active_pkt' \in BOOLEAN
        /\ gnss_pkt_type' \in {"NONE", "IN_PROGRESS", "KNOWN"}
    BY <1>4 DEF Crash, LoseFixes, KeepFixes, IInv, TypeOK, parser
  <2>4. /\ pkt_error' = FALSE /\ ptr' = 1 /\ taken' = NoFix
        /\ decoded' = Lost
    BY <1>4 DEF Crash
  <2>5. pkt_error' \in BOOLEAN /\ taken' \in Fix BY <2>1, <2>4
  <2>6. ptr' \in {1, 2} /\ decoded' \in 0 .. Lost BY <2>4 DEF Lost
  <2>7. TypeOK' BY <2>2, <2>3, <2>5, <2>6 DEF TypeOK
  <2>8. QED BY <2>4, <2>7 DEF IInv, KeptPointerGood, Lost
<1>5. QED BY <1>1, <1>2, <1>3, <1>4 DEF Next, HandleProgressUart2

(* Every reachable state satisfies the inductive invariant.                *)
THEOREM SpecIInv == Spec => []IInv
<1>1. Init => IInv BY InitIInv
<1>2. IInv /\ [Next]_vars => IInv' BY NextIInv
<1>3. QED BY <1>1, <1>2, PTL DEF Spec

(* The variables keep their types (TypeOK).                                *)
THEOREM TypeCorrect == Spec => []TypeOK
<1>1. IInv => TypeOK BY DEF IInv
<1>2. QED BY <1>1, SpecIInv, PTL

(* A pointer that the main program took from cur_gps_data shows the same   *)
(* fix until the second sentence is decoded (KeptPointerGood).             *)
THEOREM PointersStayGood == Spec => []KeptPointerGood
<1>1. IInv => KeptPointerGood BY DEF IInv
<1>2. QED BY <1>1, SpecIInv, PTL

(* While the power stays on the position shown never goes back in time,    *)
(* and a good fix is followed by good ones only, whatever the parser makes *)
(* of the bytes; a power failure keeps it or leaves none (NeverWorse).     *)
THEOREM PositionImproves == Spec => NeverWorse
<1> DEFINE Better == shown'.time >= shown.time /\ (shown.ok => shown'.ok)
<1>1. ASSUME IInv, [Next]_vars
      PROVE  Better \/ (Crash /\ shown' = NoFix)
  <2>1. shown \in Fix /\ shown.time \in Nat
    BY <1>1, GnssAssumption DEF IInv, TypeOK, shown, Fix
  <2>2. CASE \E fix \in Fix, error \in BOOLEAN : Decode(fix, error)
    <3>1. PICK fix \in Fix : \E error \in BOOLEAN : Decode(fix, error)
      BY <2>2
    <3>2. PICK error \in BOOLEAN : Decode(fix, error) BY <3>1
    <3>3. shown' = gps_data'[cur_gps_data'] BY DEF shown
    <3>4. shown' = shown \/ (shown' = fix /\ fix.ok /\ fix.time >= shown.time)
      BY <1>1, <3>2, <3>3, DecodeEffect DEF IInv
    <3>5. QED BY <2>1, <3>4
  <2>3. CASE Crash
    <3>1. CASE LoseFixes
      BY <2>3, <3>1 DEF LoseFixes, shown
    <3>2. CASE KeepFixes
      <4>1. next_gps_data # cur_gps_data
        BY <1>1 DEF IInv, TypeOK, next_gps_data
      <4>2. shown' = shown
        BY <1>1, <3>2, <4>1 DEF KeepFixes, shown, IInv, TypeOK
      <4>3. QED BY <2>1, <4>2
    <3>3. QED BY <2>3, <3>1, <3>2 DEF Crash
  <2>4. CASE ~Crash /\ ~(\E fix \in Fix, error \in BOOLEAN : Decode(fix, error))
    <3>1. UNCHANGED data
      BY <1>1, <2>4 DEF Next, HandleProgressUart2, Dollar, TypeByte, OtherByte,
                        Take, vars
    <3>2. QED BY <2>1, <3>1 DEF data, shown
  <2>5. QED BY <2>2, <2>3, <2>4
<1>2. IInv /\ [Next]_vars => [Better \/ (Crash /\ shown' = NoFix)]_vars
  BY <1>1
<1>3. QED BY <1>2, SpecIInv, PTL DEF Spec, NeverWorse
=============================================================================
