-------------------------- MODULE RegistersProofs --------------------------
(***************************************************************************)
(* Proofs about Registers, for every application and every set of values.  *)
(***************************************************************************)
EXTENDS Registers, TLAPS

-----------------------------------------------------------------------------
(* The inductive invariant *)

ImuPcs == {"imu", "imu_rest", "swap_imu"}
OwnPcs == {"own", "own_rest", "swap"}

(* Inertial setters alone use the shared pair, and that of power ends with *)
(* the alias.                                                              *)
PcOK ==
  /\ pc \in ImuPcs => reading \in Field
  /\ pc = "alias" => reading = "pwr"

(* What a pair shows is whole, and the pointer moves to the value that the *)
(* setter was called with.                                                 *)
Whole ==
  /\ \A r \in Reading : Shown(r) \in Vals[r]
  /\ pc = "swap" => buf[reading][Other(cur[reading])] = val

(* The running setter of power adds the change since the power shown.      *)
Changing ==
  pc \in OwnPcs /\ reading = "pwr" =>
    val.change = Minus(val.now, Shown("pwr").now)

(* The running setter is yet to fill pair p and to move its pointer.       *)
Filling(p) ==
  \/ p = "imu" /\ pc \in ImuPcs
  \/ p = reading /\ pc \in ImuPcs \cup OwnPcs

(* A good pointer names the buffer that the running setter does not fill.  *)
Keeping ==
  sets < Lost =>
    /\ Through(kept[1], kept[2]) = seen
    /\ sets = 0 => kept[2] = Current(kept[1]) /\ ~Filling(kept[1])
    /\ Filling(kept[1]) => kept[2] = Current(kept[1])

(* Torn readings are in the hidden buffer: the one being stored, and the   *)
(* one that a power failure cut short.                                     *)
Imu ==
  ~exposed =>
    /\ \A f \in Field : imu_buf[last_imu][f] # Torn
    /\ \A f \in Field :
         imu_buf[Other(last_imu)][f] = Torn =>
           f = cut \/ (pc = "imu_rest" /\ f = reading)
    /\ pc \in {"imu", "imu_rest"} => cut \in {"none", reading}
    /\ pc = "swap_imu" => cut = "none"

IInv ==
  /\ TypeOK
  /\ PcOK
  /\ Whole
  /\ Changing
  /\ ChangeOfShown
  /\ Keeping
  /\ Imu

-----------------------------------------------------------------------------
(* Values *)

LEMMA MinusInRange ==
  ASSUME NEW a \in Int, NEW b \in Int
  PROVE  Minus(a, b) \in 0 .. Powers - 1
  BY RegistersAssumption DEF Minus

LEMMA ValsOf ==
  /\ Vals["pwr"] = Power
  /\ \A r \in Reading \ {"pwr"} : Vals[r] = Args[r]
  /\ \A r \in Reading : First[r] \in Vals[r]
  /\ Zero \in Vals["gps"]
  BY RegistersAssumption DEF Vals, First, Reading, Field, Power

LEMMA InitIInv == ASSUME Init PROVE IInv
<1>1. TypeOK
  <2>1. called \in Applications /\ \A r \in Reading : First[r] \in Vals[r]
    BY ValsOf DEF Init
  <2>2. imu_buf \in [{0, 1} -> [Field -> Thirds \cup {Torn}]]
    <3>1. Zero \in Thirds BY RegistersAssumption DEF Field, Reading, Thirds
    <3>2. QED BY <3>1 DEF Init
  <2>3. DOMAIN buf = Reading
        /\ \A r \in Reading : buf[r] \in [{0, 1} -> Vals[r] \cup {Torn}]
    BY <2>1 DEF Init
  <2>4. val \in Vals[reading] /\ previous \in Power
    BY ValsOf DEF Init, Reading
  <2>5. cur \in [Reading -> {0, 1}] /\ kept \in Pairs \X {0, 1}
    BY DEF Init, Reading, Pairs
  <2>6. /\ last_imu \in {0, 1} /\ avg_pwr \in {-1, 0, 1} /\ sets \in 0 .. Lost
        /\ pc = "idle"
    BY DEF Init, Lost
  <2>7. /\ reading \in Reading /\ exposed \in BOOLEAN
        /\ cut \in Field \cup {"none"}
    BY DEF Init, Reading
  <2>8. QED BY <2>1, <2>2, <2>3, <2>4, <2>5, <2>6, <2>7 DEF TypeOK
<1>2. PcOK BY DEF Init, PcOK, ImuPcs
<1>3. Whole BY ValsOf DEF Init, Whole, Shown
<1>4. Changing BY DEF Init, Changing, OwnPcs
<1>5. ChangeOfShown
  <2>1. Shown("pwr") = [now |-> 0, change |-> 0] /\ previous.now = 0
    BY RegistersAssumption DEF Init, Shown, First, Reading
  <2>2. Minus(0, 0) = 0 BY RegistersAssumption DEF Minus
  <2>3. [now |-> 0, change |-> 0] \in Power
    BY RegistersAssumption DEF Power, Reading
  <2>4. QED BY <2>1, <2>2, <2>3 DEF ChangeOfShown
<1>6. Keeping BY DEF Init, Keeping, Lost
<1>7. Imu
  <2>1. Zero # Torn BY RegistersAssumption DEF Reading
  <2>2. QED BY <2>1 DEF Init, Imu, Other
<1>8. QED BY <1>1, <1>2, <1>3, <1>4, <1>5, <1>6, <1>7 DEF IInv

-----------------------------------------------------------------------------
(* The call of a setter *)

LEMMA StepSet ==
  ASSUME IInv, NEW r \in called, NEW v \in Args[r], Set(r, v)
  PROVE  IInv'
<1> USE DEF IInv
<1>1. /\ pc = "idle" /\ pc' = IF r \in Field THEN "imu" ELSE "own"
      /\ reading' = r /\ r \in Reading
      /\ val' = IF r = "pwr" THEN WithChange(v) ELSE v
      /\ sets' = IF Touches(r, kept[1]) /\ sets < Lost THEN sets + 1 ELSE sets
      /\ exposed' = (exposed \/ (r \in Field /\ cut \notin {"none", r}))
      /\ UNCHANGED <<called, shared, own, kept, seen, previous, cut>>
  BY RegistersAssumption DEF Set, TypeOK
<1>2. r = "pwr" => /\ val' \in Power
                   /\ val'.change = Minus(val'.now, Shown("pwr").now)
  <2>1. SUFFICES ASSUME r = "pwr" PROVE /\ WithChange(v) \in Power
                     /\ WithChange(v).change =
                          Minus(WithChange(v).now, Shown("pwr").now)
    BY <1>1
  <2>2. Shown("pwr") \in Power BY DEF ChangeOfShown
  <2>3. v \in Int /\ Shown("pwr").now \in Int
    BY <2>1, <2>2, RegistersAssumption DEF Power
  <2>4. Minus(v, Shown("pwr").now) \in 0 .. Powers - 1
    BY <2>3, MinusInRange
  <2>5. QED BY <2>1, <2>4 DEF WithChange, Power
<1>3. TypeOK'
  <2>1. val' \in Vals[r] BY <1>1, <1>2, ValsOf
  <2>2. sets' \in 0 .. Lost BY <1>1 DEF TypeOK, Lost
  <2>3. exposed' \in BOOLEAN BY <1>1 DEF TypeOK
  <2>4. QED BY <1>1, <2>1, <2>2, <2>3 DEF TypeOK, shared, own
<1>4. PcOK' BY <1>1 DEF PcOK, ImuPcs
<1>5. Whole' BY <1>1 DEF Whole, Shown, own
<1>6. Changing' BY <1>1, <1>2 DEF Changing, Shown, own, OwnPcs
<1>7. ChangeOfShown' BY <1>1 DEF ChangeOfShown, Shown, own
<1>8. Keeping'
  <2>1. Filling(kept[1])' => Touches(r, kept[1])
    BY <1>1 DEF Filling, Touches, ImuPcs, OwnPcs
  <2>2. UNCHANGED Current(kept[1]) /\ UNCHANGED Through(kept[1], kept[2])
    BY <1>1 DEF Current, Through, shared, own
  <2>3. ASSUME sets' < Lost
        PROVE  /\ sets < Lost
               /\ Touches(r, kept[1]) => sets = 0
               /\ sets' = 0 => sets = 0 /\ ~Touches(r, kept[1])
    BY <1>1, <2>3 DEF TypeOK, Lost
  <2>4. QED BY <1>1, <2>1, <2>2, <2>3 DEF Keeping
<1>9. Imu' BY <1>1 DEF Imu, PcOK, shared
<1>10. QED BY <1>3, <1>4, <1>5, <1>6, <1>7, <1>8, <1>9
-----------------------------------------------------------------------------
(* The shared pair *)

(* A step that stores a third of the hidden shared buffer.                 *)
LEMMA StepStoreImu ==
  ASSUME IInv, StartImu \/ EndImu
  PROVE  IInv'
<1> USE DEF IInv
<1>1. /\ pc \in {"imu", "imu_rest"} /\ pc' \in {"imu_rest", "swap_imu"}
      /\ reading \in Field /\ last_imu \in {0, 1}
      /\ UNCHANGED <<called, last_imu, own, reading, val, reader, previous,
                     exposed>>
  BY DEF StartImu, EndImu, imuHistory, PcOK, TypeOK, ImuPcs
<1>2. val \in Thirds
  BY <1>1, ValsOf DEF TypeOK, Thirds, Field, Reading
<1>3. PICK v \in {val, Torn} :
        /\ imu_buf' = [imu_buf EXCEPT ![Other(last_imu)][reading] = v]
        /\ v = Torn => pc = "imu" /\ pc' = "imu_rest" /\ cut' = cut
        /\ v = val => pc = "imu_rest" /\ pc' = "swap_imu"
                       /\ cut' = IF cut = reading THEN "none" ELSE cut
  <2>1. val # Torn
    BY <1>1, ValsOf, RegistersAssumption DEF TypeOK, Field, Reading
  <2>2. CASE StartImu
    BY <2>1, <2>2 DEF StartImu, StoreImu, imuHistory
  <2>3. CASE EndImu BY <2>1, <2>3 DEF EndImu, StoreImu
  <2>4. QED BY <2>2, <2>3
<1>4. /\ \A f \in Field : imu_buf'[last_imu][f] = imu_buf[last_imu][f]
      /\ \A f \in Field \ {reading} :
           imu_buf'[Other(last_imu)][f] = imu_buf[Other(last_imu)][f]
      /\ imu_buf'[Other(last_imu)][reading] = v
      /\ imu_buf'[last_imu] = imu_buf[last_imu]
  BY <1>1, <1>3 DEF TypeOK, Other
<1>5. TypeOK'
  <2>1. imu_buf' \in [{0, 1} -> [Field -> Thirds \cup {Torn}]]
    BY <1>1, <1>2, <1>3 DEF TypeOK, Other
  <2>2. cut' \in Field \cup {"none"} BY <1>3 DEF TypeOK
  <2>3. QED BY <1>1, <2>1, <2>2 DEF TypeOK, own, reader
<1>6. PcOK' BY <1>1 DEF PcOK
<1>7. Whole' /\ ChangeOfShown'
  BY <1>1 DEF Whole, ChangeOfShown, Shown, own
<1>8. Changing' BY <1>1 DEF Changing, OwnPcs
<1>9. Keeping'
  <2>1. \A p : Filling(p)' <=> Filling(p)
    BY <1>1 DEF Filling, ImuPcs, OwnPcs
  <2>2. UNCHANGED Current(kept[1])
    BY <1>1 DEF Current, own, reader
  <2>3. Filling("imu") BY <1>1 DEF Filling, ImuPcs
  <2>4. ASSUME sets < Lost PROVE UNCHANGED Through(kept[1], kept[2])
    <3>1. CASE kept[1] = "imu"
      <4>1. kept[2] = last_imu BY <2>3, <2>4, <3>1 DEF Keeping, Current
      <4>2. QED BY <1>1, <1>4, <3>1, <4>1 DEF Through, reader
    <3>2. CASE kept[1] # "imu"
      BY <1>1, <3>2 DEF Through, own, reader
    <3>3. QED BY <3>1, <3>2
  <2>5. QED BY <1>1, <2>1, <2>2, <2>4 DEF Keeping, reader
<1>10. Imu'
  <2>1. SUFFICES ASSUME ~exposed
        PROVE  /\ \A f \in Field : imu_buf'[last_imu][f] # Torn
               /\ \A f \in Field :
                    imu_buf'[Other(last_imu)][f] = Torn =>
                      f = cut' \/ (pc' = "imu_rest" /\ f = reading)
               /\ pc' \in {"imu", "imu_rest"} => cut' \in {"none", reading}
               /\ pc' = "swap_imu" => cut' = "none"
    BY <1>1 DEF Imu, Other
  <2>2. val # Torn
    BY <1>1, ValsOf, RegistersAssumption DEF TypeOK, Field, Reading
  <2>3. /\ \A f \in Field : imu_buf[last_imu][f] # Torn
        /\ \A f \in Field :
             imu_buf[Other(last_imu)][f] = Torn =>
               f = cut \/ (pc = "imu_rest" /\ f = reading)
        /\ cut \in {"none", reading}
    BY <1>1, <2>1 DEF Imu
  <2>4. QED BY <1>1, <1>3, <1>4, <2>2, <2>3 DEF Field
<1>11. QED BY <1>5, <1>6, <1>7, <1>8, <1>9, <1>10

LEMMA StepSwapImu == ASSUME IInv, SwapImu PROVE IInv'
<1> USE DEF IInv
<1>1. /\ pc = "swap_imu" /\ pc' = "own" /\ reading \in Field
      /\ last_imu' = Other(last_imu) /\ last_imu \in {0, 1}
      /\ UNCHANGED <<called, imu_buf, own, reading, val, reader, previous, cut,
                     exposed>>
  BY DEF SwapImu, PcOK, TypeOK, ImuPcs
<1>2. TypeOK' BY <1>1 DEF TypeOK, own, reader, Other
<1>3. PcOK' BY <1>1 DEF PcOK, ImuPcs
<1>4. Whole' /\ ChangeOfShown'
  BY <1>1 DEF Whole, ChangeOfShown, Shown, own
<1>5. Changing' BY <1>1 DEF Changing, Field
<1>6. Keeping'
  <2>1. \A p : Filling(p)' => Filling(p) /\ p # "imu"
    BY <1>1 DEF Filling, ImuPcs, OwnPcs, Field
  <2>2. Filling("imu") BY <1>1 DEF Filling, ImuPcs
  <2>3. kept[1] # "imu" => UNCHANGED Current(kept[1])
    BY <1>1 DEF Current, own, reader
  <2>4. UNCHANGED Through(kept[1], kept[2])
    BY <1>1 DEF Through, own, reader
  <2>5. QED BY <1>1, <2>1, <2>2, <2>3, <2>4 DEF Keeping, reader
<1>7. Imu'
  <2>1. Other(last_imu') = last_imu BY <1>1 DEF Other
  <2>2. ASSUME ~exposed, NEW f \in Field
        PROVE imu_buf[Other(last_imu)][f] # Torn /\ imu_buf[last_imu][f] # Torn
    BY <1>1, <2>2 DEF Imu, Field
  <2>3. QED BY <1>1, <2>1, <2>2 DEF Imu
<1>8. QED BY <1>2, <1>3, <1>4, <1>5, <1>6, <1>7

-----------------------------------------------------------------------------
(* The pair of the reading *)

LEMMA StepStoreOwn ==
  ASSUME IInv, Start \/ End
  PROVE  IInv'
<1> USE DEF IInv
<1>1. /\ pc \in {"own", "own_rest"} /\ pc' \in {"own_rest", "swap"}
      /\ reading \in Reading /\ cur[reading] \in {0, 1} /\ val \in Vals[reading]
      /\ UNCHANGED <<called, shared, cur, avg_pwr, reading, val, reader,
                     previous, imuHistory>>
  BY DEF Start, End, TypeOK
<1>2. PICK v \in {val, Torn} :
        /\ buf' = [buf EXCEPT ![reading][Other(cur[reading])] = v]
        /\ pc' = "swap" => v = val
  BY DEF Start, End, StoreOwn
<1>3. /\ DOMAIN buf' = Reading
      /\ \A r \in Reading \ {reading} : buf'[r] = buf[r]
      /\ buf'[reading] = [buf[reading] EXCEPT ![Other(cur[reading])] = v]
  BY <1>1, <1>2 DEF TypeOK
<1>4. /\ buf'[reading] \in [{0, 1} -> Vals[reading] \cup {Torn}]
      /\ buf'[reading][cur[reading]] = buf[reading][cur[reading]]
      /\ buf'[reading][Other(cur[reading])] = v
  BY <1>1, <1>3 DEF TypeOK, Other
<1>5. \A r \in Reading : Shown(r)' = Shown(r)
  BY <1>1, <1>3, <1>4 DEF Shown
<1>6. TypeOK'
  BY <1>1, <1>3, <1>4 DEF TypeOK, shared, reader, imuHistory
<1>7. PcOK' BY <1>1 DEF PcOK, ImuPcs
<1>8. Whole' BY <1>1, <1>2, <1>4, <1>5 DEF Whole
<1>9. "pwr" \in Reading BY DEF Reading
<1>10. Changing' /\ ChangeOfShown'
  BY <1>1, <1>5, <1>9 DEF Changing, OwnPcs, ChangeOfShown
<1>11. Keeping'
  <2>1. \A p : Filling(p)' <=> Filling(p)
    BY <1>1 DEF Filling, ImuPcs, OwnPcs
  <2>2. UNCHANGED Current(kept[1])
    BY <1>1 DEF Current, shared, reader
  <2>3. Filling(reading) /\ kept[1] \in Pairs /\ kept[2] \in {0, 1}
    BY <1>1 DEF Filling, OwnPcs, TypeOK
  <2>4. ASSUME sets < Lost PROVE UNCHANGED Through(kept[1], kept[2])
    <3>1. CASE kept[1] = "imu"
      BY <1>1, <3>1 DEF Through, shared, reader
    <3>2. CASE kept[1] # "imu" /\ kept[1] = reading
      <4>1. kept[2] = cur[reading] BY <2>3, <2>4, <3>2 DEF Keeping, Current
      <4>2. QED BY <1>1, <1>4, <3>2, <4>1 DEF Through, reader
    <3>3. CASE kept[1] # "imu" /\ kept[1] # reading
      BY <1>1, <1>3, <2>3, <3>3 DEF Through, Pairs, reader
    <3>4. QED BY <3>1, <3>2, <3>3
  <2>5. QED BY <1>1, <2>1, <2>2, <2>4 DEF Keeping, reader
<1>12. Imu' BY <1>1 DEF Imu, shared, imuHistory
<1>13. QED BY <1>6, <1>7, <1>8, <1>10, <1>11, <1>12

LEMMA StepSwap == ASSUME IInv, Swap PROVE IInv'
<1> USE DEF IInv
<1>1. /\ pc = "swap" /\ reading \in Reading /\ cur[reading] \in {0, 1}
      /\ cur' = [cur EXCEPT ![reading] = Other(@)]
      /\ UNCHANGED <<called, shared, buf, avg_pwr, reader, imuHistory>>
  BY DEF Swap, TypeOK
<1>2. /\ pc' \in {"idle", "alias"}
      /\ pc' = "alias" => reading' = "pwr"
      /\ reading' \in Reading /\ val' \in Vals[reading']
      /\ previous' = IF reading = "pwr" THEN Shown("pwr") ELSE previous
  <2>1. CASE reading = "pwr" BY <2>1 DEF Swap, TypeOK
  <2>2. CASE reading # "pwr" BY <2>2, ValsOf DEF Swap, Return, Reading
  <2>3. QED BY <2>1, <2>2
<1>3. /\ \A r \in Reading \ {reading} : Shown(r)' = Shown(r)
      /\ Shown(reading) \in Vals[reading]
      /\ buf'[reading][cur'[reading]] = val
      /\ cur' \in [Reading -> {0, 1}]
  BY <1>1 DEF Shown, Whole, Other, TypeOK
<1>4. "pwr" \in Reading BY DEF Reading
<1>5. previous' \in Power BY <1>2 DEF TypeOK, ChangeOfShown
<1>6. TypeOK' BY <1>1, <1>2, <1>3, <1>5 DEF TypeOK, shared, reader, imuHistory
<1>7. PcOK' BY <1>2 DEF PcOK, ImuPcs
<1>8. Whole'
  <2>1. ASSUME NEW r \in Reading PROVE Shown(r)' \in Vals[r]
    <3>1. CASE r = reading BY <1>3, <3>1 DEF Shown, TypeOK
    <3>2. CASE r # reading BY <1>3, <3>2 DEF Whole
    <3>3. QED BY <3>1, <3>2
  <2>2. QED BY <1>2, <2>1 DEF Whole
<1>9. Changing' BY <1>2 DEF Changing, OwnPcs
<1>10. ChangeOfShown'
  <2>1. CASE reading = "pwr"
    <3>1. Shown("pwr")' = val BY <1>3, <2>1 DEF Shown
    <3>2. val \in Power BY <2>1, ValsOf DEF TypeOK
    <3>3. val.change = Minus(val.now, Shown("pwr").now)
      BY <1>1, <2>1 DEF Changing, OwnPcs
    <3>4. QED BY <1>2, <2>1, <3>1, <3>2, <3>3 DEF ChangeOfShown
  <2>2. CASE reading # "pwr"
    BY <1>2, <1>3, <1>4, <2>2 DEF ChangeOfShown
  <2>3. QED BY <2>1, <2>2
<1>11. Keeping'
  <2>1. \A p : ~Filling(p)' BY <1>2 DEF Filling, ImuPcs, OwnPcs
  <2>2. Filling(reading) BY <1>1 DEF Filling, OwnPcs
  <2>3. kept[1] # reading => UNCHANGED Current(kept[1])
    <3>1. kept[1] \in Pairs BY DEF TypeOK
    <3>2. QED BY <1>1, <3>1 DEF Current, Pairs, shared, reader, TypeOK
  <2>4. UNCHANGED Through(kept[1], kept[2])
    BY <1>1 DEF Through, shared, reader
  <2>5. QED BY <1>1, <2>1, <2>2, <2>3, <2>4 DEF Keeping, reader
<1>12. Imu'
  BY <1>1, <1>2 DEF Imu, shared, imuHistory
<1>13. QED BY <1>6, <1>7, <1>8, <1>9, <1>10, <1>11, <1>12

(* Steps that move neither a value nor a pointer of a pair.                *)
LEMMA StepAlias == ASSUME IInv, Alias PROVE IInv'
<1> USE DEF IInv
<1>1. /\ pc = "alias" /\ pc' = "idle" /\ reading' \in Reading
      /\ val' \in Vals[reading'] /\ avg_pwr' \in {0, 1}
      /\ UNCHANGED <<called, shared, buf, cur, reader, previous, imuHistory>>
  BY ValsOf DEF Alias, Return, TypeOK, Reading
<1>2. TypeOK' BY <1>1 DEF TypeOK, shared, reader, imuHistory
<1>3. PcOK' /\ Whole' /\ Changing' /\ ChangeOfShown' /\ Imu'
  BY <1>1 DEF PcOK, Whole, Changing, ChangeOfShown, Shown, Imu, ImuPcs, OwnPcs,
              shared, imuHistory
<1>4. Keeping'
  BY <1>1 DEF Keeping, Filling, Current, Through, ImuPcs, OwnPcs, shared, reader
<1>5. QED BY <1>2, <1>3, <1>4

LEMMA StepGet == ASSUME IInv, NEW r \in Pairs, Get(r) PROVE IInv'
<1> USE DEF IInv
<1>1. /\ pc = "idle" /\ kept' = <<r, Current(r)>>
      /\ seen' = Through(r, Current(r)) /\ sets' = 0
      /\ UNCHANGED <<called, shared, own, setter, previous, imuHistory>>
  BY DEF Get
<1>2. Current(r) \in {0, 1} BY DEF Current, Pairs, TypeOK
<1>3. TypeOK'
  BY <1>1, <1>2 DEF TypeOK, Lost, shared, own, setter, imuHistory
<1>4. PcOK' /\ Whole' /\ Changing' /\ ChangeOfShown' /\ Imu'
  BY <1>1 DEF PcOK, Whole, Changing, ChangeOfShown, Shown, Imu, shared, own,
              setter, imuHistory
<1>5. Keeping'
  <2>1. Current(r)' = Current(r) /\ Through(r, Current(r))' = seen'
    BY <1>1 DEF Current, Through, shared, own
  <2>2. \A p : ~Filling(p)' BY <1>1 DEF Filling, ImuPcs, OwnPcs, setter
  <2>3. kept'[1] = r /\ kept'[2] = Current(r) BY <1>1
  <2>4. QED BY <2>1, <2>2, <2>3 DEF Keeping
<1>6. QED BY <1>3, <1>4, <1>5

(* Power failure: a pointer is lost, and a reading may be torn out of sight.*)
LEMMA StepCrash == ASSUME IInv, Crash PROVE IInv'
<1> USE DEF IInv
<1>1. /\ pc' = "idle" /\ reading' \in Reading /\ val' \in Vals[reading']
      /\ kept' \in Pairs \X {0, 1} /\ sets' = Lost
      /\ cut' = IF pc = "imu_rest" THEN reading ELSE cut
      /\ UNCHANGED <<called, shared, own, previous, exposed>>
  BY ValsOf DEF Crash, Return, Reading, Pairs
<1>2. cut' \in Field \cup {"none"} BY <1>1 DEF TypeOK, PcOK, ImuPcs
<1>3. TypeOK' BY <1>1, <1>2 DEF TypeOK, Lost, shared, own
<1>4. PcOK' /\ Whole' /\ Changing' /\ ChangeOfShown'
  BY <1>1 DEF PcOK, Whole, Changing, ChangeOfShown, Shown, ImuPcs, OwnPcs, own
<1>5. Keeping' BY <1>1 DEF Keeping, Lost
<1>6. Imu' BY <1>1 DEF Imu, PcOK, ImuPcs, Field, shared
<1>7. QED BY <1>3, <1>4, <1>5, <1>6

-----------------------------------------------------------------------------
(* Every step *)

LEMMA NextIInv == ASSUME IInv, [Next]_vars PROVE IInv'
<1>1. CASE \E r \in called : \E v \in Args[r] : Set(r, v)
  BY <1>1, StepSet
<1>2. CASE \E r \in Pairs : Get(r) BY <1>2, StepGet
<1>3. CASE UNCHANGED vars
  BY <1>3
  DEF vars, shared, own, setter, reader, imuHistory, IInv, TypeOK, PcOK, Whole,
      Changing, ChangeOfShown, Shown, Keeping, Filling, Through, Current, Imu
<1>4. QED
  BY <1>1, <1>2, <1>3, StepStoreImu, StepSwapImu, StepStoreOwn, StepSwap,
     StepAlias, StepCrash
  DEF Next

(* Every reachable state satisfies the inductive invariant.                *)
THEOREM SpecIInv == Spec => []IInv
<1>1. Init => IInv BY InitIInv
<1>2. IInv /\ [Next]_vars => IInv' BY NextIInv
<1>3. QED BY <1>1, <1>2, PTL DEF Spec

(* The variables keep their types (TypeOK).                                *)
THEOREM TypeCorrect == Spec => []TypeOK
<1>1. IInv => TypeOK BY DEF IInv
<1>2. QED BY <1>1, SpecIInv, PTL

(* A pointer that a getter of query.c returned shows the same value until  *)
(* the second setter call (KeptPointerGood).                               *)
THEOREM PointersStayGood == Spec => []KeptPointerGood
<1>1. IInv => KeptPointerGood BY DEF IInv, Keeping, KeptPointerGood
<1>2. QED BY <1>1, SpecIInv, PTL

(* The change of power shown is the one from the reading shown before,     *)
(* whatever power failures did to artibeus_set_pwr (ChangeOfShown).        *)
THEOREM ChangesAdd == Spec => []ChangeOfShown
<1>1. IInv => ChangeOfShown BY DEF IInv
<1>2. QED BY <1>1, SpecIInv, PTL

(* The three setters that share a pair show no torn reading as long as one *)
(* that was cut short is repeated before another is called (ImuWhole).     *)
THEOREM ImuNeverTorn == Spec => []ImuWhole
<1>1. IInv => ImuWhole BY DEF IInv, Imu, ImuWhole
<1>2. QED BY <1>1, SpecIInv, PTL

-----------------------------------------------------------------------------
(* The abstract registers *)

Values == [r \in Reading |-> Shown(r)]

LEMMA InitAbstract == ASSUME Init, IInv PROVE Abstract!Init
  BY DEF Init, IInv, Whole, TypeOK, Abstract!Init, Abstract!IsRequest

(* Only the swap of a reading's own pointer shows a new value.             *)
LEMMA StepAbstract ==
  ASSUME IInv, IInv', [Next]_vars
  PROVE  Abstract!Next \/ UNCHANGED Abstract!vars
<1> DEFINE running == pc \notin {"idle", "alias"}
<1>1. reading' \in Reading /\ val' \in Vals[reading'] BY DEF IInv, TypeOK
<1>2. CASE \E r \in called : \E v \in Args[r] : Set(r, v)
  <2>1. PICK r \in called : \E v \in Args[r] : Set(r, v) BY <1>2
  <2>2. ~running /\ running' /\ UNCHANGED <<buf, cur>>
    BY <2>1 DEF Set, own, Field
  <2>3. QED
    BY <1>1, <2>2 DEF Abstract!Next, Abstract!Call, Shown
<1>3. CASE StartImu \/ EndImu \/ SwapImu
  <2>1. UNCHANGED <<buf, cur, reading, val>> /\ running /\ running'
    BY <1>3 DEF StartImu, EndImu, SwapImu, own
  <2>2. QED BY <2>1 DEF Abstract!vars, Shown
<1>4. CASE Start \/ End
  <2>1. UNCHANGED <<cur, reading, val>> /\ running /\ running'
    BY <1>4 DEF Start, End
  <2>2. \A r \in Reading : Shown(r)' = Shown(r)
    BY <1>4 DEF Start, End, StoreOwn, Shown, IInv, TypeOK, Other
  <2>3. QED BY <2>1, <2>2 DEF Abstract!vars
<1>5. CASE Swap
  <2>1. running /\ ~running' BY <1>5 DEF Swap, Return
  <2>2. reading \in Reading /\ cur[reading] \in {0, 1}
        /\ cur' = [cur EXCEPT ![reading] = Other(@)] /\ buf' = buf
        /\ buf[reading][Other(cur[reading])] = val
    BY <1>5 DEF Swap, IInv, TypeOK, Whole
  <2>3. \A r \in Reading : Shown(r)' = IF r = reading THEN val ELSE Shown(r)
    BY <2>2 DEF Shown, IInv, TypeOK
  <2>4. Values' = [Values EXCEPT ![reading] = val]
    BY <2>2, <2>3 DEF Values
  <2>5. QED
    BY <1>1, <2>1, <2>4 DEF Values, Abstract!Next, Abstract!Write,
                            Abstract!IsRequest
<1>6. CASE Alias \/ Crash
  <2>1. ~running' /\ UNCHANGED <<buf, cur>>
    BY <1>6 DEF Alias, Crash, Return, own
  <2>2. QED
    BY <1>1, <2>1 DEF Abstract!Next, Abstract!Fail, Abstract!IsRequest, Shown
<1>7. CASE (\E r \in Pairs : Get(r)) \/ UNCHANGED vars
  <2>1. UNCHANGED <<buf, cur, pc, reading, val>>
    BY <1>7 DEF Get, vars, own, setter
  <2>2. QED BY <2>1 DEF Abstract!vars, Shown
<1>8. QED BY <1>2, <1>3, <1>4, <1>5, <1>6, <1>7 DEF Next

(* Every reading changes as a whole, or not at all, wherever power fails   *)
(* in its setter (RegistersAreAtomic).                                     *)
THEOREM ImplementsAtomicRegisters == Spec => RegistersAreAtomic
<1>1. Init /\ IInv => Abstract!Init BY InitAbstract
<1>2. IInv /\ IInv' /\ [Next]_vars => [Abstract!Next]_Abstract!vars
  BY StepAbstract
<1>3. QED
  BY <1>1, <1>2, SpecIInv, PTL DEF Spec, RegistersAreAtomic, Abstract!Spec
=============================================================================
