----------------------------- MODULE Registers -----------------------------
(***************************************************************************)
(* query.c: the readings that the application publishes for telemetry.     *)
(* Each is a pair of buffers in FRAM and a pointer to the one that the     *)
(* getter shows.  A setter fills the other buffer and then moves the       *)
(* pointer.  The setters of the three inertial readings first do the same  *)
(* with a pair that they share, artibeus_last_imu, of which each fills its *)
(* own third; the one of power adds the change since the reading shown.    *)
(* Nothing is saved in the undo log; power may fail between any two stores.*)
(*                                                                         *)
(* A reading is one value; it is Torn while it is being stored and after a *)
(* power failure has cut the stores short.  Of the two powers one is kept. *)
(***************************************************************************)
EXTENDS Integers

CONSTANTS
  Applications,  (* of each application, the readings whose setters it calls*)
  Args,          (* of each reading, the values its setter is called with  *)
  Zero,          (* what memory starts with                                *)
  Torn,          (* part of one reading, part of another                   *)
  Powers         (* number of values of a power; 2^16 in the code          *)

Field == {"xl", "g", "m"}
Reading == Field \cup {"pwr", "gps", "time", "date"}

ASSUME RegistersAssumption ==
  /\ Applications \subseteq SUBSET Reading
  /\ DOMAIN Args = Reading
  /\ \A r \in Reading : Zero \in Args[r] /\ Torn \notin Args[r]
  /\ Zero = 0
  /\ Powers \in Nat \ {0}
  /\ Args["pwr"] \subseteq 0 .. Powers - 1

VARIABLES
  called,              (* the readings of the application that runs        *)
  (* Non-volatile. *)
  imu_buf, last_imu,   (* the shared buffers, and the one that is shown    *)
  buf, cur,            (* of each reading, its buffers and the one shown   *)
  avg_pwr,             (* artibeus_avg_pwr shares the buffers of pwr       *)
  (* Volatile: where the setter is, its reading, and what it stores. *)
  pc, reading, val,
  (* Volatile: a caller that keeps the pointer a getter returned. *)
  kept,
  (* History, read by the properties only. *)
  seen,       (* what the kept pointer showed when it was taken            *)
  sets,       (* setter calls for that pair since then; Lost at most       *)
  previous,   (* the power shown before this one                           *)
  cut,        (* the inertial reading whose stores to imu_buf were cut     *)
              (* short and not repeated, or "none"                         *)
  exposed     (* another setter published imu_buf meanwhile                *)

shared == <<imu_buf, last_imu>>
own == <<buf, cur, avg_pwr>>
setter == <<pc, reading, val>>
reader == <<kept, seen, sets>>
imuHistory == <<cut, exposed>>
vars == <<called, shared, own, setter, reader, previous, imuHistory>>

Other(b) == 1 - b

(* Mutant: the difference is not cut to its width. *)
MutMinus(a, b) == a - b

Minus(a, b) == (a - b) % Powers

(* What a pair of a reading can show. *)
Power == [now : Args["pwr"], change : 0 .. Powers - 1]
Vals == [r \in Reading |-> IF r = "pwr" THEN Power ELSE Args[r]]
First == [r \in Reading |->
            IF r = "pwr" THEN [now |-> Zero, change |-> 0] ELSE Zero]

Shown(r) == buf[r][cur[r]]

(* What the shared pair holds of a reading. *)
Thirds == UNION {Args[f] : f \in Field}

(* What the pointer to pair r shows that names buffer b. *)
Pairs == Reading \cup {"imu"}
Through(r, b) == IF r = "imu" THEN imu_buf[b] ELSE buf[r][b]
Current(r) == IF r = "imu" THEN last_imu ELSE cur[r]

(* A pointer is worth nothing after a second setter call, nor after a      *)
(* power failure.                                                          *)
Lost == 2

Init ==
  /\ called \in Applications
  /\ imu_buf = [b \in {0, 1} |-> [f \in Field |-> Zero]]
  /\ last_imu = 0
  /\ buf = [r \in Reading |-> [b \in {0, 1} |-> First[r]]]
  /\ cur = [r \in Reading |-> 0]
  /\ avg_pwr = -1   (* artibeus_pwr_avgs_0, which nothing else uses *)
  /\ pc = "idle" /\ reading = "gps" /\ val = Zero
  /\ kept = <<"gps", 0>> /\ seen = Zero /\ sets = Lost
  /\ previous = First["pwr"]
  /\ cut = "none"
  /\ exposed = FALSE

-----------------------------------------------------------------------------
(* The setters *)

Touches(r, pair) == pair = r \/ (pair = "imu" /\ r \in Field)

(* Mutant: the operands are swapped. *)
MutWithChange(p) == [now |-> p, change |-> Minus(Shown("pwr").now, p)]

WithChange(p) == [now |-> p, change |-> Minus(p, Shown("pwr").now)]

Set(r, v) ==
  /\ pc = "idle"
  /\ pc' = IF r \in Field THEN "imu" ELSE "own"
  /\ reading' = r
  /\ val' = IF r = "pwr" THEN WithChange(v) ELSE v
  /\ sets' = IF Touches(r, kept[1]) /\ sets < Lost THEN sets + 1 ELSE sets
  /\ exposed' = (exposed \/ (r \in Field /\ cut \notin {"none", r}))
  /\ UNCHANGED <<called, shared, own, kept, seen, previous, cut>>

(* Mutant: the shared buffer is filled in place. *)
MutStoreImu(v) == imu_buf' = [imu_buf EXCEPT ![last_imu][reading] = v]

StoreImu(v) ==
  imu_buf' = [imu_buf EXCEPT ![Other(last_imu)][reading] = v]

StartImu ==
  /\ pc = "imu"
  /\ StoreImu(Torn)
  /\ pc' = "imu_rest"
  /\ UNCHANGED <<called, last_imu, own, reading, val, reader, previous,
                 imuHistory>>

EndImu ==
  /\ pc = "imu_rest"
  /\ StoreImu(val)
  /\ pc' = "swap_imu"
  /\ cut' = IF cut = reading THEN "none" ELSE cut
  /\ UNCHANGED <<called, last_imu, own, reading, val, reader, previous,
                 exposed>>

SwapImu ==
  /\ pc = "swap_imu"
  /\ last_imu' = Other(last_imu)
  /\ pc' = "own"
  /\ UNCHANGED <<called, imu_buf, own, reading, val, reader, previous, cut,
                 exposed>>

StoreOwn(v) == buf' = [buf EXCEPT ![reading][Other(cur[reading])] = v]

Start ==
  /\ pc = "own"
  /\ StoreOwn(Torn)
  /\ pc' = "own_rest"
  /\ UNCHANGED <<called, shared, cur, avg_pwr, reading, val, reader, previous,
                 imuHistory>>

End ==
  /\ pc = "own_rest"
  /\ StoreOwn(val)
  /\ pc' = "swap"
  /\ UNCHANGED <<called, shared, cur, avg_pwr, reading, val, reader, previous,
                 imuHistory>>

Return == pc' = "idle" /\ reading' = "gps" /\ val' = Zero

(* Mutant: the pointer moves before the last store. *)
MutSwap ==
  /\ pc \in {"own_rest", "swap"}
  /\ cur' = [cur EXCEPT ![reading] = Other(@)]
  /\ IF reading = "pwr"
     THEN /\ pc' = "alias" /\ previous' = Shown("pwr")
          /\ UNCHANGED <<reading, val>>
     ELSE Return /\ UNCHANGED previous
  /\ UNCHANGED <<called, shared, buf, avg_pwr, reader, imuHistory>>

Swap ==
  /\ pc = "swap"
  /\ cur' = [cur EXCEPT ![reading] = Other(@)]
  /\ IF reading = "pwr"
     THEN /\ pc' = "alias" /\ previous' = Shown("pwr")
          /\ UNCHANGED <<reading, val>>
     ELSE Return /\ UNCHANGED previous
  /\ UNCHANGED <<called, shared, buf, avg_pwr, reader, imuHistory>>

(* artibeus_set_pwr ends by pointing artibeus_avg_pwr to the same buffer. *)
Alias ==
  /\ pc = "alias"
  /\ avg_pwr' = cur["pwr"]
  /\ Return
  /\ UNCHANGED <<called, shared, buf, cur, reader, previous, imuHistory>>

-----------------------------------------------------------------------------
(* The getters: a caller keeps the pointer that it gets. *)

Get(r) ==
  /\ pc = "idle"
  /\ kept' = <<r, Current(r)>>
  /\ seen' = Through(r, Current(r))
  /\ sets' = 0
  /\ UNCHANGED <<called, shared, own, setter, previous, imuHistory>>

Crash ==
  /\ Return
  /\ kept' = <<"gps", 0>> /\ seen' = Zero /\ sets' = Lost
  /\ cut' = IF pc = "imu_rest" THEN reading ELSE cut
  /\ UNCHANGED <<called, shared, own, previous, exposed>>

Next ==
  \/ \E r \in called : \E v \in Args[r] : Set(r, v)
  \/ StartImu \/ EndImu \/ SwapImu
  \/ Start \/ End \/ Swap \/ Alias
  \/ \E r \in Pairs : Get(r)
  \/ Crash

Spec == Init /\ [][Next]_vars

-----------------------------------------------------------------------------
(* Properties *)

(* Types of all the variables. *)
TypeOK ==
  /\ called \in Applications
  /\ imu_buf \in [{0, 1} -> [Field -> Thirds \cup {Torn}]]
  /\ last_imu \in {0, 1}
  /\ DOMAIN buf = Reading
  /\ \A r \in Reading : buf[r] \in [{0, 1} -> Vals[r] \cup {Torn}]
  /\ cur \in [Reading -> {0, 1}]
  /\ avg_pwr \in {-1, 0, 1}
  /\ pc \in {"idle", "imu", "imu_rest", "swap_imu", "own", "own_rest", "swap",
             "alias"}
  /\ reading \in Reading
  /\ val \in Vals[reading]
  /\ kept \in Pairs \X {0, 1}
  /\ sets \in 0 .. Lost
  /\ previous \in Power
  /\ cut \in Field \cup {"none"}
  /\ exposed \in BOOLEAN

(* "Safe from power interruptions" (query.h), of all the readings that go  *)
(* into telemetry: what their pairs show changes only by a whole setter    *)
(* call at once, though it takes many stores and may be cut short anywhere,*)
(* again and again.                                                        *)
Abstract == INSTANCE AtomicRegisters WITH
  Reg <- Reading,
  value <- [r \in Reading |-> Shown(r)],
  calling <- pc \notin {"idle", "alias"},
  request <- <<reading, val>>

RegistersAreAtomic == Abstract!Spec

(* A pointer that a getter returned goes on showing the value it showed,   *)
(* unchanged, until a setter is called for the second time, for imu any of *)
(* the three: callers like artibeus_set_telem_pkt read through it later.   *)
KeptPointerGood == sets < Lost => Through(kept[1], kept[2]) = seen

(* The change that artibeus_get_pwr shows is that from the reading shown   *)
(* before to the one shown with it, whatever power failures happened in    *)
(* between.                                                                *)
ChangeOfShown ==
  /\ Shown("pwr") \in Power
  /\ Shown("pwr").change = Minus(Shown("pwr").now, previous.now)

(* artibeus_get_imu shows no reading that is put together from two, as     *)
(* long as each setter that a power failure cut short was repeated before  *)
(* another inertial setter was called.                                     *)
ImuWhole == ~exposed => \A f \in Field : imu_buf[last_imu][f] # Torn
=============================================================================
