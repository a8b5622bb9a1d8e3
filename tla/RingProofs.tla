----------------------------- MODULE RingProofs -----------------------------
(***************************************************************************)
(* Proofs about Ring, for both rings, every number of entries and every    *)
(* number of pushes in a task that leaves one entry over.                  *)
(***************************************************************************)
EXTENDS Ring, TLAPS

-----------------------------------------------------------------------------
(* The inductive invariant *)

SavedPcs == {"save_head", "save_full", "copy", "copying", "full", "tail"}
PushPcs == {"save_tail"} \cup SavedPcs

(* The tail is ahead of the one that recovery brings back by what the task *)
(* has pushed, and a push saves it before it moves it.                     *)
Tails ==
  /\ pc = "boot" => new = <<>>
  /\ pc # "boot" => tail = Ahead(SafeTail, Len(new))
  /\ new # <<>> \/ pc \in SavedPcs => saved_tail # NotSaved

(* A push has room, and what it has done so far. *)
Pushing ==
  /\ pc \in PushPcs => Len(new) < PushesPerTask /\ record \in Pushable
  /\ pc = "copying" => temp_cnt = tail
  /\ pc \in {"full", "tail"} =>
       Holds(buffer[tail], record) /\ temp_cnt = Ahead(tail, 1)

IInv ==
  /\ TypeOK
  /\ Tails
  /\ Pushing
  /\ RecordsIntact

-----------------------------------------------------------------------------
(* Going around the ring *)

LEMMA RingIsLarge ==
  /\ N \in Nat \ {0} /\ PushesPerTask \in Nat /\ Kept \in Nat
  /\ PushesPerTask < N /\ Kept + PushesPerTask = N /\ Kept >= 1
  BY RingAssumption DEF Kept

LEMMA InRing ==
  ASSUME NEW t \in Slots, NEW j \in 0 .. N
  PROVE  /\ Behind(t, j) \in Slots
         /\ j < N => Ahead(t, j) \in Slots
         /\ Ahead(t, 0) = t
  BY RingIsLarge DEF Slots, Behind, Ahead

(* The entries of the running task and those of the committed ones that    *)
(* are kept are different entries.                                         *)
LEMMA Apart ==
  ASSUME NEW t \in Slots, NEW k \in Nat, k < N
  PROVE  /\ \A j \in Nat : j < N /\ j # k => Ahead(t, j) # Ahead(t, k)
         /\ \A j \in Nat : 1 <= j /\ j + k < N => Behind(t, j) # Ahead(t, k)
  BY RingIsLarge DEF Slots, Behind, Ahead

(* Behind an entry that is k ahead come the other k, then those behind.    *)
LEMMA AroundRing ==
  ASSUME NEW t \in Slots, NEW k \in Nat, k < N
  PROVE  /\ Ahead(t, k) \in Slots
         /\ k + 1 < N => Ahead(Ahead(t, k), 1) = Ahead(t, k + 1)
         /\ \A j \in 1 .. k : Behind(Ahead(t, k), j) = Ahead(t, k - j)
         /\ \A j \in Nat : k < j /\ j <= N =>
              Behind(Ahead(t, k), j) = Behind(t, j - k)
  BY RingIsLarge DEF Slots, Behind, Ahead

(* Newest keeps the end of a sequence. *)
LEMMA NewestIsEnd ==
  ASSUME NEW s \in Seq(Pushable)
  PROVE  /\ Newest(s) \in Seq(Pushable)
         /\ Len(Newest(s)) <= Kept
         /\ Len(Newest(s)) <= Len(s)
         /\ \A j \in 1 .. Len(Newest(s)) :
              Newest(s)[Len(Newest(s)) + 1 - j] = s[Len(s) + 1 - j]
<1> DEFINE first == IF Len(s) > Kept THEN Len(s) - Kept + 1 ELSE 1
<1>1. /\ Len(s) \in Nat /\ Kept \in Nat /\ Kept >= 1
      /\ first \in 1 .. Len(s) + 1
  BY RingIsLarge
<1>2. Newest(s) = SubSeq(s, first, Len(s)) BY DEF Newest
<1> HIDE DEF first
<1>3. /\ SubSeq(s, first, Len(s)) \in Seq(Pushable)
      /\ Len(SubSeq(s, first, Len(s))) = Len(s) - first + 1
      /\ \A n \in 1 .. Len(s) - first + 1 :
           SubSeq(s, first, Len(s))[n] = s[first + n - 1]
  BY <1>1
<1>4. Len(s) - first + 1 <= Kept /\ (Len(s) >= 1 => first <= Len(s))
  BY <1>1 DEF first
<1>5. QED BY <1>1, <1>2, <1>3, <1>4

LEMMA SamePushable == ASSUME which' = which PROVE Pushable' = Pushable
  BY DEF Pushable, Lengths

LEMMA SameRecords ==
  ASSUME RecordsIntact, pc # "overrun", SafeTail' = SafeTail,
         UNCHANGED <<buffer, pushed>>, new' \in {new, <<>>}
  PROVE  RecordsIntact'
  BY DEF RecordsIntact, Holds, Bytes, Behind, Ahead

LEMMA Copying ==
  ASSUME NEW entry \in Entry, NEW r \in Pushable
  PROVE  /\ Over(entry, r.len, r.data) \in Entry
         /\ Over(entry, r.len, Torn) \in Entry
         /\ Holds(Over(entry, r.len, r.data), r)
  BY DEF Over, Entry, Holds, Pushable

LEMMA InitIInv == ASSUME Init PROVE IInv
<1>1. TypeOK
  <2>1. 0 \in Slots /\ 0 \in 0 .. N /\ <<>> \in Seq(Pushable) BY RingIsLarge DEF Slots
  <2>2. Blank \in Entry BY DEF Blank, Entry
  <2>3. QED BY <2>1, <2>2, RingIsLarge DEF Init, TypeOK, Pcs
<1>2. Tails BY DEF Init, Tails, SafeTail, Restored, SavedPcs
<1>3. Pushing BY DEF Init, Pushing, PushPcs, SavedPcs
<1>4. RecordsIntact BY DEF Init, RecordsIntact
<1>6. QED BY <1>1, <1>2, <1>3, <1>4 DEF IInv

LEMMA SafeTailInRing == ASSUME TypeOK PROVE SafeTail \in Slots
  BY DEF TypeOK, SafeTail, Restored

-----------------------------------------------------------------------------
(* A push *)

LEMMA StepSave ==
  ASSUME IInv,
         (\E r \in Pushable : Push(r)) \/ SaveTail \/ SaveHead \/ SaveFull
  PROVE  IInv'
<1> USE DEF IInv
<1>1. /\ pc \in {"task", "save_tail", "save_head", "save_full"}
      /\ pc' \in {"save_tail", "save_head", "save_full", "copy"}
      /\ pc' \in {"save_head", "save_full", "copy"} => saved_tail' # NotSaved
      /\ Len(new) < PushesPerTask /\ record' \in Pushable
      /\ UNCHANGED <<which, ring, temp_cnt, found, history>>
      /\ saved_tail' \in {saved_tail, tail}
      /\ saved_tail # NotSaved => saved_tail' = saved_tail
      /\ saved_head' \in {saved_head, head}
      /\ saved_full' \in {saved_full, full}
  <2>1. CASE \E r \in Pushable : Push(r) BY <2>1 DEF Push, log
  <2>2. CASE SaveTail
    BY <2>2, RingIsLarge
    DEF SaveTail, Save, Pushing, PushPcs, TypeOK, Slots, NotSaved
  <2>3. CASE SaveHead
    BY <2>3 DEF SaveHead, Save, Pushing, PushPcs, SavedPcs, Tails
  <2>4. CASE SaveFull
    BY <2>4 DEF SaveFull, Save, Pushing, PushPcs, SavedPcs, Tails
  <2>5. QED BY <2>1, <2>2, <2>3, <2>4
<1>2. saved_tail' = tail => saved_tail = NotSaved \/ saved_tail' = saved_tail
  BY <1>1
<1>3. SafeTail' = SafeTail
  BY <1>1 DEF SafeTail, Restored, ring
<1>4. TypeOK'
  BY <1>1, SamePushable DEF TypeOK, Pcs, ring, history
<1>5. Tails'
  BY <1>1, <1>3 DEF Tails, SavedPcs, ring, history
<1>6. Pushing' BY <1>1, SamePushable DEF Pushing, history
<1>7. RecordsIntact'
  BY <1>1, <1>3, SameRecords DEF ring, history
<1>9. QED BY <1>4, <1>5, <1>6, <1>7

(* The copy goes to the entry at the tail, which no record kept is in.     *)
LEMMA StepCopy ==
  ASSUME IInv, StartCopy \/ EndCopy
  PROVE  IInv'
<1> USE DEF IInv
<1>1. /\ pc \in {"copy", "copying"} /\ pc' \in {"copying", "full"}
      /\ tail \in Slots /\ Len(new) < PushesPerTask /\ Len(new) \in Nat
      /\ record \in Pushable /\ saved_tail # NotSaved
      /\ tail = Ahead(SafeTail, Len(new))
      /\ UNCHANGED <<which, tail, head, full, log, record, found, history>>
  BY DEF StartCopy, EndCopy, TypeOK, Tails, Pushing, PushPcs, SavedPcs
<1>2. PICK entry \in Entry :
        /\ buffer' = [buffer EXCEPT ![tail] = entry]
        /\ pc' = "full" => Holds(entry, record)
  <2>1. buffer[tail] \in Entry BY <1>1 DEF TypeOK
  <2>2. CASE StartCopy BY <1>1, <2>1, <2>2, Copying DEF StartCopy
  <2>3. CASE EndCopy BY <1>1, <2>1, <2>3, Copying DEF EndCopy, Pushing
  <2>4. QED BY <2>2, <2>3
<1>3. /\ temp_cnt' \in Slots
      /\ pc' = "copying" => temp_cnt' = tail
      /\ pc' = "full" => temp_cnt' = Ahead(tail, 1)
  BY <1>1, RingIsLarge DEF StartCopy, EndCopy, Pushing, Slots, Ahead
<1>4. SafeTail' = SafeTail /\ SafeTail \in Slots
  BY <1>1, SafeTailInRing DEF SafeTail, Restored, log
<1>10. Pushable' = Pushable BY <1>1, SamePushable
<1>5. TypeOK' BY <1>1, <1>2, <1>3, <1>10 DEF TypeOK, Pcs, log, history
<1>6. Tails' BY <1>1, <1>4 DEF Tails, SavedPcs, log, history
<1>7. Pushing'
  <2>1. buffer'[tail] = entry BY <1>1, <1>2 DEF TypeOK
  <2>2. pc' = "full" => Holds(buffer'[tail], record) BY <1>2, <2>1
  <2>3. pc' = "full" => Holds(buffer[tail], record)'
    BY <1>1, <2>2 DEF Holds, Bytes
  <2>4. QED BY <1>1, <1>3, <1>10, <2>3 DEF Pushing, PushPcs, SavedPcs, history
<1>8. RecordsIntact'
  <2>1. /\ Len(pushed) \in Nat /\ Len(pushed) <= Kept
        /\ Len(new) < N /\ Len(pushed) + Len(new) < N
    BY <1>1, RingIsLarge DEF TypeOK
  <2>2. ASSUME NEW j \in 1 .. Len(pushed)
        PROVE  buffer'[Behind(SafeTail, j)] = buffer[Behind(SafeTail, j)]
    <3>1. j \in Nat /\ 1 <= j /\ j + Len(new) < N
      BY <1>1, <2>1, RingIsLarge
    <3>2. Behind(SafeTail, j) # tail
      BY <1>1, <1>4, <2>1, <3>1, Apart
    <3>3. Behind(SafeTail, j) \in Slots BY <1>4, <2>1, RingIsLarge, InRing
    <3>4. QED BY <1>2, <3>2, <3>3 DEF TypeOK
  <2>3. ASSUME NEW j \in 1 .. Len(new)
        PROVE  buffer'[Ahead(SafeTail, j - 1)] = buffer[Ahead(SafeTail, j - 1)]
    <3>1. j - 1 \in Nat /\ j - 1 < N /\ j - 1 # Len(new)
      BY <1>1, <2>1, RingIsLarge
    <3>2. Ahead(SafeTail, j - 1) # tail
      BY <1>1, <1>4, <2>1, <3>1, Apart
    <3>3. Ahead(SafeTail, j - 1) \in Slots BY <1>4, <3>1, RingIsLarge, InRing
    <3>4. QED BY <1>2, <3>2, <3>3 DEF TypeOK
  <2>4. /\ \A j \in 1 .. Len(pushed) :
             Holds(buffer'[Behind(SafeTail, j)], pushed[Len(pushed) + 1 - j])
        /\ \A j \in 1 .. Len(new) :
             Holds(buffer'[Ahead(SafeTail, j - 1)], new[j])
    BY <1>1, <2>2, <2>3 DEF RecordsIntact
  <2>5. QED BY <1>1, <1>4, <2>4 DEF RecordsIntact, Holds, Bytes, Behind, Ahead, history
<1>9. QED BY <1>5, <1>6, <1>7, <1>8

(* After a copy over the whole memory nothing is claimed.                  *)
LEMMA StepOverrun == ASSUME IInv, Overrun PROVE IInv'
<1> USE DEF IInv
<1>1. /\ pc = "copy" /\ pc' = "overrun" /\ tail \in Slots
      /\ buffer' = [s \in Slots |-> Over(buffer[s], EntrySize, Torn)]
      /\ UNCHANGED <<which, tail, head, full, log, temp_cnt, record, found,
                     history>>
  BY DEF Overrun, TypeOK
<1>2. \A s \in Slots : Over(buffer[s], EntrySize, Torn) \in Entry
  BY DEF Over, Entry, TypeOK
<1>3. SafeTail' = SafeTail BY <1>1 DEF SafeTail, Restored, log
<1>4. Pushable' = Pushable BY <1>1, SamePushable
<1>5. TypeOK' BY <1>1, <1>2, <1>4 DEF TypeOK, Pcs, log, history
<1>6. Tails' BY <1>1, <1>3 DEF Tails, SavedPcs, log, history
<1>7. Pushing' BY <1>1 DEF Pushing, PushPcs, SavedPcs
<1>8. RecordsIntact' BY <1>1 DEF RecordsIntact
<1>9. QED BY <1>5, <1>6, <1>7, <1>8

LEMMA StepSetFull == ASSUME IInv, SetFull PROVE IInv'
<1> USE DEF IInv
<1>1. /\ pc = "full" /\ pc' = "tail" /\ full' \in {0, 1}
      /\ UNCHANGED <<which, buffer, tail, head, log, temp_cnt, record, found,
                     history>>
  BY DEF SetFull
<1>2. SafeTail' = SafeTail BY <1>1 DEF SafeTail, Restored, log
<1>3. TypeOK' BY <1>1, SamePushable DEF TypeOK, Pcs, log, history
<1>4. Tails' BY <1>1, <1>2 DEF Tails, SavedPcs, log, history
<1>5. Pushing' BY <1>1, SamePushable DEF Pushing, PushPcs, SavedPcs, history
<1>6. RecordsIntact'
  BY <1>1, <1>2, SameRecords DEF history
<1>8. QED BY <1>3, <1>4, <1>5, <1>6

LEMMA StepSetTail == ASSUME IInv, SetTail PROVE IInv'
<1> USE DEF IInv
<1>1. /\ pc = "tail" /\ pc' = "task" /\ tail' = temp_cnt
      /\ new' = Append(new, record) /\ temp_cnt' = 0 /\ record' = None
      /\ saved_tail # NotSaved /\ record \in Pushable
      /\ Len(new) < PushesPerTask /\ Len(new) \in Nat /\ new \in Seq(Pushable)
      /\ tail = Ahead(SafeTail, Len(new)) /\ temp_cnt = Ahead(tail, 1)
      /\ Holds(buffer[tail], record)
      /\ UNCHANGED <<which, buffer, head, full, log, found, pushed>>
  BY DEF SetTail, Tails, Pushing, PushPcs, SavedPcs, TypeOK
<1>2. /\ new' \in Seq(Pushable) /\ Len(new') = Len(new) + 1 /\ new' # <<>>
      /\ \A j \in 1 .. Len(new) : new'[j] = new[j]
      /\ new'[Len(new) + 1] = record
  BY <1>1
<1>3. SafeTail' = SafeTail /\ SafeTail \in Slots
  BY <1>1, SafeTailInRing DEF SafeTail, Restored, log
<1>4. tail' \in Slots /\ 0 \in Slots
  BY <1>1, RingIsLarge DEF TypeOK, Slots
<1>5. Len(new) < N /\ Len(new) + 1 < N BY <1>1, RingIsLarge
<1>6. tail' = Ahead(SafeTail, Len(new) + 1)
  BY <1>1, <1>3, <1>5, AroundRing
<1>7. TypeOK'
  <2>1. Len(new') <= PushesPerTask BY <1>1, <1>2, RingIsLarge
  <2>2. QED BY <1>1, <1>2, <1>4, <2>1, SamePushable DEF TypeOK, Pcs, log
<1>8. Tails' BY <1>1, <1>2, <1>3, <1>6 DEF Tails, SavedPcs, log
<1>9. Pushing' BY <1>1 DEF Pushing, PushPcs, SavedPcs
<1>10. RecordsIntact'
  <2>1. ASSUME NEW j \in 1 .. Len(new')
        PROVE  Holds(buffer[Ahead(SafeTail, j - 1)], new'[j])
    <3>1. CASE j = Len(new) + 1 BY <1>1, <1>2, <3>1
    <3>2. CASE j # Len(new) + 1
      <4>1. j \in 1 .. Len(new) BY <1>1, <1>2, <2>1, <3>2
      <4>2. QED BY <1>1, <1>2, <4>1 DEF RecordsIntact
    <3>3. QED BY <3>1, <3>2
  <2>2. \A j \in 1 .. Len(pushed) :
          Holds(buffer[Behind(SafeTail, j)], pushed[Len(pushed) + 1 - j])
    BY <1>1 DEF RecordsIntact
  <2>3. QED
    BY <1>1, <1>3, <2>1, <2>2 DEF RecordsIntact, Holds, Bytes, Behind, Ahead
<1>12. QED BY <1>7, <1>8, <1>9, <1>10

-----------------------------------------------------------------------------
(* A request *)

(* The entry behind the tail holds the newest record.                      *)
LEMMA StepPop == ASSUME IInv, Pop PROVE IInv'
<1> USE DEF IInv
<1>1. /\ pc = "task" /\ pc' = "sent"
      /\ found' \in Entry \cup {Outside}
      /\ UNCHANGED <<which, ring, log, temp_cnt, record, history>>
  BY DEF Pop, TypeOK
<1>2. SafeTail' = SafeTail /\ SafeTail \in Slots
  BY <1>1, SafeTailInRing DEF SafeTail, Restored, ring, log
<1>3. TypeOK' BY <1>1, SamePushable DEF TypeOK, Pcs, ring, log, history
<1>4. Tails' BY <1>1, <1>2 DEF Tails, SavedPcs, ring, log, history
<1>5. Pushing' BY <1>1 DEF Pushing, PushPcs, SavedPcs
<1>6. RecordsIntact'
  BY <1>1, <1>2, SameRecords DEF ring, history
<1>8. QED BY <1>3, <1>4, <1>5, <1>6

LEMMA StepPopUpdate == ASSUME IInv, PopUpdate PROVE IInv'
<1> USE DEF IInv
<1>1. /\ pc = "sent" /\ pc' = "task" /\ head' \in 0 .. N /\ found' = None
      /\ UNCHANGED <<which, buffer, tail, full, log, temp_cnt, record, history>>
  BY RingIsLarge DEF PopUpdate, TypeOK
<1>2. SafeTail' = SafeTail BY <1>1 DEF SafeTail, Restored, log
<1>3. TypeOK' BY <1>1, SamePushable DEF TypeOK, Pcs, log, history
<1>4. Tails' BY <1>1, <1>2 DEF Tails, SavedPcs, log, history
<1>5. Pushing' BY <1>1 DEF Pushing, PushPcs, SavedPcs
<1>6. RecordsIntact'
  BY <1>1, <1>2, SameRecords DEF history
<1>8. QED BY <1>3, <1>4, <1>5, <1>6

-----------------------------------------------------------------------------
(* The end of a task *)

(* The tail becomes the one that recovery brings back, and the records of  *)
(* the task come before those of the tasks committed already.              *)
LEMMA StepCommit == ASSUME IInv, Commit PROVE IInv'
<1> USE DEF IInv
<1> DEFINE all == pushed \o new
<1>1. /\ pc = "task" /\ saved_tail' = NotSaved /\ saved_head' = NotSaved
      /\ saved_full' = NotSaved /\ pushed' = Newest(all) /\ new' = <<>>
      /\ UNCHANGED <<which, ring, local>>
  BY DEF Commit
<1>2. /\ pushed \in Seq(Pushable) /\ new \in Seq(Pushable) /\ all \in Seq(Pushable)
      /\ Len(pushed) \in Nat /\ Len(new) \in Nat
      /\ Len(all) = Len(pushed) + Len(new)
      /\ Len(new) < N /\ Len(pushed) <= Kept
  BY RingIsLarge DEF TypeOK
<1>3. /\ \A n \in 1 .. Len(pushed) : all[n] = pushed[n]
      /\ \A n \in 1 .. Len(new) : all[Len(pushed) + n] = new[n]
  BY <1>2
<1>4. /\ SafeTail' = tail /\ SafeTail \in Slots
      /\ tail = Ahead(SafeTail, Len(new))
  BY <1>1, SafeTailInRing DEF SafeTail, Restored, ring, Tails
<1> HIDE DEF all
<1> DEFINE kept == Newest(all)
<1>5. /\ pushed' \in Seq(Pushable) /\ Len(pushed') <= Kept
      /\ Len(pushed') \in Nat /\ Len(pushed') <= Len(all)
      /\ \A j \in 1 .. Len(pushed') :
           pushed'[Len(pushed') + 1 - j] = all[Len(all) + 1 - j]
  <2>1. all \in Seq(Pushable) BY <1>2
  <2>2. /\ kept \in Seq(Pushable) /\ Len(kept) <= Kept
        /\ Len(kept) <= Len(all)
        /\ \A j \in 1 .. Len(kept) :
             kept[Len(kept) + 1 - j] = all[Len(all) + 1 - j]
    BY <2>1, NewestIsEnd
  <2>3. pushed' = kept BY <1>1
  <2> HIDE DEF kept
  <2>4. Len(kept) \in Nat BY <2>2
  <2>5. QED BY <2>2, <2>3, <2>4
<1>6. TypeOK'
  <2>1. new' \in Seq(Pushable) /\ Len(new') <= PushesPerTask
    BY <1>1, RingIsLarge
  <2>2. QED BY <1>1, <1>5, <2>1, SamePushable DEF TypeOK, ring, local
<1>7. Tails'
  <2>1. tail = Ahead(tail, 0) BY RingIsLarge, InRing DEF TypeOK
  <2>2. QED BY <1>1, <1>4, <2>1 DEF Tails, SavedPcs, ring, local
<1>8. Pushing' BY <1>1 DEF Pushing, PushPcs, SavedPcs, local
<1>9. RecordsIntact'
  <2>1. ASSUME NEW j \in 1 .. Len(pushed')
        PROVE  Holds(buffer[Behind(tail, j)], pushed'[Len(pushed') + 1 - j])
    <3>1. pushed'[Len(pushed') + 1 - j] = all[Len(all) + 1 - j] BY <1>5
    <3>2. CASE j <= Len(new)
      <4>1. Behind(tail, j) = Ahead(SafeTail, Len(new) - j)
        BY <1>2, <1>4, <3>2, AroundRing
      <4>2. Len(new) + 1 - j \in 1 .. Len(new) BY <1>2, <3>2
      <4>3. Holds(buffer[Ahead(SafeTail, Len(new) - j)], new[Len(new) + 1 - j])
        <5>1. \A n \in 1 .. Len(new) :
                Holds(buffer[Ahead(SafeTail, n - 1)], new[n])
          BY <1>1 DEF RecordsIntact
        <5>2. (Len(new) + 1 - j) - 1 = Len(new) - j BY <1>2
        <5>3. QED BY <4>2, <5>1, <5>2
      <4>4. all[Len(all) + 1 - j] = new[Len(new) + 1 - j]
        <5>1. Len(all) + 1 - j = Len(pushed) + (Len(new) + 1 - j) BY <1>2
        <5>2. QED BY <1>3, <4>2, <5>1
      <4>5. QED BY <3>1, <4>1, <4>3, <4>4
    <3>3. CASE j > Len(new)
      <4>1. j \in Nat /\ j <= N BY <1>5, RingIsLarge
      <4>2. Behind(tail, j) = Behind(SafeTail, j - Len(new))
        BY <1>2, <1>4, <3>3, <4>1, AroundRing
      <4>3. j - Len(new) \in 1 .. Len(pushed) BY <1>2, <1>5, <3>3
      <4>4. Holds(buffer[Behind(SafeTail, j - Len(new))],
                  pushed[Len(pushed) + 1 - (j - Len(new))])
        BY <1>1, <4>3 DEF RecordsIntact
      <4>5. /\ Len(all) + 1 - j = Len(pushed) + 1 - (j - Len(new))
            /\ Len(all) + 1 - j \in 1 .. Len(pushed)
        BY <1>2, <4>3
      <4>6. all[Len(all) + 1 - j] = pushed[Len(all) + 1 - j] BY <1>3, <4>5
      <4>7. QED BY <3>1, <4>2, <4>4, <4>5, <4>6
    <3>4. QED BY <1>2, <3>2, <3>3
  <2>2. QED BY <1>1, <1>4, <2>1 DEF RecordsIntact, Holds, Bytes, Behind, ring
<1>11. QED BY <1>6, <1>7, <1>8, <1>9

-----------------------------------------------------------------------------
(* Power failures *)

LEMMA StepCrash == ASSUME IInv, Crash PROVE IInv'
<1> USE DEF IInv
<1>1. /\ pc # "overrun" /\ pc' = "boot" /\ temp_cnt' = 0 /\ record' = None
      /\ found' = None /\ new' = <<>>
      /\ UNCHANGED <<which, ring, log, pushed>>
  BY DEF Crash
<1>2. SafeTail' = SafeTail BY <1>1 DEF SafeTail, Restored, ring, log
<1>3. TypeOK'
  <2>1. new' \in Seq(Pushable) /\ Len(new') <= PushesPerTask /\ 0 \in Slots
    BY <1>1, RingIsLarge DEF Slots
  <2>2. QED BY <1>1, <2>1, SamePushable DEF TypeOK, Pcs, ring, log
<1>4. Tails' BY <1>1, <1>2 DEF Tails, SavedPcs
<1>5. Pushing' BY <1>1 DEF Pushing, PushPcs, SavedPcs
<1>6. RecordsIntact'
  BY <1>1, <1>2, SameRecords DEF ring
<1>8. QED BY <1>3, <1>4, <1>5, <1>6

LEMMA StepRestore == ASSUME IInv, Restore PROVE IInv'
<1> USE DEF IInv
<1>1. /\ pc = "boot" /\ pc' = "task" /\ tail' = SafeTail
      /\ head' \in 0 .. N /\ full' \in {0, 1}
      /\ saved_tail' = NotSaved /\ saved_head' = NotSaved
      /\ saved_full' = NotSaved
      /\ UNCHANGED <<which, buffer, temp_cnt, record, found, history>>
  BY DEF Restore, Restored, SafeTail, TypeOK
<1>2. SafeTail' = SafeTail /\ SafeTail \in Slots
  BY <1>1, SafeTailInRing DEF SafeTail, Restored
<1>3. TypeOK' BY <1>1, <1>2, SamePushable DEF TypeOK, Pcs, history
<1>4. Tails'
  <2>1. new = <<>> /\ Len(new) = 0 BY <1>1 DEF Tails
  <2>2. SafeTail = Ahead(SafeTail, 0) BY <1>2, RingIsLarge, InRing
  <2>3. QED BY <1>1, <1>2, <2>1, <2>2 DEF Tails, SavedPcs, history
<1>5. Pushing' BY <1>1 DEF Pushing, PushPcs, SavedPcs
<1>6. RecordsIntact'
  BY <1>1, <1>2, SameRecords DEF history
<1>8. QED BY <1>3, <1>4, <1>5, <1>6

-----------------------------------------------------------------------------
(* Every step *)

LEMMA NextIInv == ASSUME IInv, [Next]_vars PROVE IInv'
<1>1. CASE SendNack \/ AfterOverrun \/ UNCHANGED vars
  <2>1. UNCHANGED vars BY <1>1 DEF SendNack, AfterOverrun
  <2>2. QED
    BY <2>1
    DEF vars, ring, log, local, history, IInv, TypeOK, Tails, Pushing, SafeTail,
        RecordsIntact, Pushable, Lengths, Holds, Bytes, Behind, Ahead
<1>2. QED
  BY <1>1, StepSave, StepCopy, StepOverrun, StepSetFull, StepSetTail, StepPop,
     StepPopUpdate, StepCommit, StepCrash, StepRestore
  DEF Next, PushSteps

(* Every reachable state of a ring satisfies the inductive invariant.      *)
THEOREM SpecIInv == Spec => []IInv
<1>1. Init => IInv BY InitIInv
<1>2. IInv /\ [Next]_vars => IInv' BY NextIInv
<1>3. QED BY <1>1, <1>2, PTL DEF Spec

(* The variables keep their types (TypeOK): no index leaves the ring, but  *)
(* for head, which runs one past it, until a copy runs over the memory.    *)
THEOREM TypeCorrect == Spec => []TypeOK
<1>1. IInv => TypeOK BY DEF IInv
<1>2. QED BY <1>1, SpecIInv, PTL

(* Power failures lose and tear nothing that a push has copied to an       *)
(* entry, as long as no task in progress may reuse that entry, until an    *)
(* ascii frame makes a copy run over the memory (RecordsIntact).  For      *)
(* telemetry that never happens, and what is copied is the whole record.   *)
THEOREM RecordsStay == Spec => []RecordsIntact
<1>1. IInv => RecordsIntact BY DEF IInv
<1>2. QED BY <1>1, SpecIInv, PTL
=============================================================================
