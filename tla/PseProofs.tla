------------------------------ MODULE PseProofs ------------------------------
(***************************************************************************)
(* The safety of the snapshot engine with its firmware, for every set of   *)
(* tasks and every number of faults, and that it implements Snapshots.     *)
(***************************************************************************)
EXTENDS Pse, FiniteSetTheorems, TLAPS

LEMMA CleanSettings ==
  \A t \in Task \cup {Nobody} :
    /\ Clean(t) \in Contract!Settings
    /\ Clean(t).of = t /\ Clean(t).bits = SettingsOf[t]
    /\ Entry(Clean(t)) \in Entries
    /\ Entry(Clean(t)).csrs = Clean(t)
    /\ Entry(Clean(t)).parity = Parity(Clean(t))
  BY PseAssumption
  DEF Clean, Contract!Clean, Contract!Settings, Entry, Entries, Parity

\* Nothing of clean settings is locked: what is written over them is taken.
LEMMA WrittenClean ==
  ASSUME live = Clean(live.of), live \in Contract!Settings,
         NEW t \in Task \cup {Nobody}
  PROVE  Written(Clean(t)) = Clean(t)
  <1>1. live.of \in Task \cup {Nobody} /\ live.bits = SettingsOf[live.of]
    BY CleanSettings DEF Contract!Settings
  <1>2. \A b \in Bits : Guards[b] \cap live.bits = {}
    BY <1>1, NothingLocked
  <1>3. {b \in Bits : IF Guards[b] \cap live.bits # {}
                       THEN b \in live.bits ELSE b \in SettingsOf[t]}
          = SettingsOf[t]
    BY <1>2, PseAssumption
  <1> QED
    BY <1>3 DEF Written, Contract!Written, Clean, Contract!Clean

LEMMA WrittenType ==
  ASSUME NEW v \in Contract!Settings
  PROVE  Written(v) \in Contract!Settings /\ Written(v).of = v.of
  BY DEF Written, Contract!Written, Contract!Settings

(***************************************************************************)
(* The damage of an entry: none when it is what was saved, and one more at *)
(* most for each flip of one of its bits.                                  *)
(***************************************************************************)
Differ(S, T) == Cardinality(SymDiff(S, T))

LEMMA DifferFacts ==
  ASSUME NEW U, IsFiniteSet(U), NEW S \in SUBSET U, NEW T \in SUBSET U
  PROVE  /\ Differ(S, T) \in Nat
         /\ Differ(S, S) = 0
         /\ \A b \in U : Differ(Toggle(b, S), T) <= Differ(S, T) + 1
  <1>1. IsFiniteSet(SymDiff(S, T))
    BY FS_Subset DEF SymDiff
  <1>2. Differ(S, T) \in Nat
    BY <1>1, FS_CardinalityType DEF Differ
  <1>3. Differ(S, S) = 0
    <2>1. SymDiff(S, S) = {}
      BY DEF SymDiff
    <2> QED
      BY <2>1, FS_EmptySet DEF Differ
  <1>4. ASSUME NEW b \in U PROVE Differ(Toggle(b, S), T) <= Differ(S, T) + 1
    <2> DEFINE D == SymDiff(S, T)
    <2>1. \/ SymDiff(Toggle(b, S), T) = D \cup {b}
          \/ SymDiff(Toggle(b, S), T) = D \ {b}
      BY DEF SymDiff, Toggle, Contract!Toggle
    <2>2. IsFiniteSet(D) /\ Cardinality(D) \in Nat
      BY <1>1, <1>2 DEF Differ
    <2> HIDE DEF D
    <2>3. Cardinality(D \cup {b}) =
            IF b \in D THEN Cardinality(D) ELSE Cardinality(D) + 1
      BY <2>2, FS_AddElement, Zenon
    <2>4. Cardinality(D \ {b}) =
            IF b \in D THEN Cardinality(D) - 1 ELSE Cardinality(D)
      BY <2>2, FS_RemoveElement, Zenon
    <2>5. Differ(S, T) = Cardinality(D)
      BY DEF Differ, D
    <2>6. Differ(Toggle(b, S), T) \in {Cardinality(D \cup {b}), Cardinality(D \ {b})}
      BY <2>1 DEF Differ
    <2> QED
      BY <2>2, <2>3, <2>4, <2>5, <2>6
  <1> QED
    BY <1>2, <1>3, <1>4

LEMMA DamageFacts ==
  ASSUME NEW e \in Entries
  PROVE  /\ Damage(e) = Differ(e.csrs.bits, SettingsOf[e.csrs.of])
                         + Differ(e.parity, Parity(Clean(e.csrs.of)))
         /\ Differ(e.csrs.bits, SettingsOf[e.csrs.of]) \in Nat
         /\ Differ(e.parity, Parity(Clean(e.csrs.of))) \in Nat
         /\ e.csrs.bits \in SUBSET Bits /\ SettingsOf[e.csrs.of] \in SUBSET Bits
         /\ e.parity \in SUBSET Checks
         /\ Parity(Clean(e.csrs.of)) \in SUBSET Checks
  <1>1. /\ e.csrs.bits \in SUBSET Bits /\ e.csrs.of \in Task \cup {Nobody}
        /\ e.parity \in SUBSET Checks
    BY DEF Entries, Contract!Settings
  <1>2. /\ SettingsOf[e.csrs.of] \in SUBSET Bits
        /\ Parity(Clean(e.csrs.of)) \in SUBSET Checks
    BY <1>1, PseAssumption DEF Parity
  <1>3. IsFiniteSet(Bits) /\ IsFiniteSet(Checks)
    BY PseAssumption
  <1> QED
    BY <1>1, <1>2, <1>3, DifferFacts DEF Damage, Differ

LEMMA NoDamage ==
  ASSUME NEW t \in Task \cup {Nobody}
  PROVE  Damage(Entry(Clean(t))) = 0
  <1>1. /\ SettingsOf[t] \in SUBSET Bits /\ Parity(Clean(t)) \in SUBSET Checks
        /\ IsFiniteSet(Bits) /\ IsFiniteSet(Checks)
    BY PseAssumption DEF Parity
  <1>2. /\ Differ(SettingsOf[t], SettingsOf[t]) = 0
        /\ Differ(Parity(Clean(t)), Parity(Clean(t))) = 0
    BY <1>1, DifferFacts
  <1> QED
    BY <1>2, CleanSettings DEF Damage, Differ

LEMMA InitIndInv == Init => IndInv
  <1> SUFFICES ASSUME Init PROVE IndInv
    OBVIOUS
  <1>1. \A t \in Slots : mem[t] = Entry(Clean(Nobody))
    BY DEF Init
  <1>2. TypeOK
    <2>1. mem \in [Slots -> Entries] /\ snapshot_q \in Entries
      BY CleanSettings DEF Init
    <2>2. live \in Contract!Settings
      BY CleanSettings DEF Init
    <2>3. 0 \in 0 .. MaxFlips
      BY PseAssumption
    <2> QED
      BY <2>1, <2>2, <2>3 DEF Init, TypeOK, Slots
  <1>3. PulseInv /\ NoStrayWrite /\ SlotsAreOwn
    BY DEF Init, PulseInv, NoStrayWrite, SlotsAreOwn
  <1>4. SetupInv /\ FaultFreeInv
    BY <1>1, CleanSettings DEF Init, SetupInv, FaultFreeInv
  <1>5. DamageInv
    BY <1>1, NoDamage DEF Init, DamageInv
  <1> QED
    BY <1>2, <1>3, <1>4, <1>5 DEF IndInv

(***************************************************************************)
(* One clock edge, whatever the instruction: the types.                    *)
(***************************************************************************)
LEMMA ClockType ==
  ASSUME IndInv, NEW we \in BOOLEAN,
         NEW addr \in {"other", "pmp", "save", "apply"}, NEW data \in Slots,
         addr = "pmp" /\ (we \/ write_all) => data \in Task,
         Clock(we, addr, data)
  PROVE  /\ csr_addr' = addr /\ csr_wdata' = data
         /\ pse_slot_select_reg' \in Slots
         /\ snapshot_q' \in Entries /\ mem' \in [Slots -> Entries]
         /\ write_all' \in BOOLEAN /\ apply_q' \in BOOLEAN
         /\ live' \in Contract!Settings
         /\ flips' \in 0 .. MaxFlips
  <1>1. SlotSelect(we, addr, data) \in Slots
    BY DEF SlotSelect, IndInv, TypeOK
  <1>2. live \in Contract!Settings /\ Entry(live) \in Entries
    BY DEF IndInv, TypeOK, Entries, Entry, Parity
  <1>3. snapshot_q' \in Entries /\ mem' \in [Slots -> Entries]
    BY <1>1, <1>2 DEF Clock, StoreSlot, IndInv, TypeOK
  <1>4. CASE write_all \/ (we /\ addr = "pmp")
    <2>1. PmpWriteData(addr, data) \in Contract!Settings
      BY <1>4, CleanSettings DEF PmpWriteData, IndInv, TypeOK, Entries
    <2>2. Written(PmpWriteData(addr, data)) \in Contract!Settings
      BY <2>1, WrittenType
    <2> QED
      BY <1>3, <1>4, <2>2 DEF Clock, WritePulse, IndInv, TypeOK
  <1>5. CASE ~(write_all \/ (we /\ addr = "pmp"))
    BY <1>2, <1>3, <1>5 DEF Clock, WritePulse, IndInv, TypeOK
  <1> QED
    BY <1>4, <1>5

(***************************************************************************)
(* A clock without a CSR instruction: if the write pulse is on, the PMP    *)
(* CSRs take the slot that was read.                                       *)
(***************************************************************************)
LEMMA NoCsrStep ==
  ASSUME IndInv, NoCsr
  PROVE  /\ UNCHANGED <<csr_addr, csr_wdata, pse_slot_select_reg, mem, flips>>
         /\ write_all' = FALSE /\ apply_q' = FALSE
         /\ live' = IF write_all THEN Written(snapshot_q.csrs) ELSE live
         /\ \E t \in Slots : snapshot_q' = mem[t]
         /\ csr_addr # "save" => snapshot_q' = mem[pse_slot_select_reg]
         /\ snapshot_q' \in Entries /\ live' \in Contract!Settings
         /\ FaultFreeInv' /\ DamageInv'
  <1>1. Clock(FALSE, csr_addr, csr_wdata)
    BY DEF NoCsr
  <1>2. /\ csr_addr \in {"other", "pmp", "save", "apply"} /\ csr_wdata \in Slots
        /\ write_all => csr_addr = "apply"
        /\ pse_slot_select_reg \in Slots /\ write_all \in BOOLEAN
    BY DEF IndInv, TypeOK, PulseInv
  <1>3. snapshot_q' \in Entries /\ live' \in Contract!Settings
    BY <1>1, <1>2, ClockType
  <1>4. /\ UNCHANGED <<csr_addr, csr_wdata, pse_slot_select_reg, mem, flips>>
        /\ write_all' = FALSE /\ apply_q' = FALSE
    BY <1>1 DEF Clock, StoreSlot, WritePulse
  <1>5. live' = IF write_all THEN Written(snapshot_q.csrs) ELSE live
    BY <1>1, <1>2 DEF Clock, PmpWriteData
  <1>6. snapshot_q' = mem[SlotSelect(FALSE, csr_addr, csr_wdata)]
    BY <1>1 DEF Clock
  <1>7. \E t \in Slots : snapshot_q' = mem[t]
    BY <1>2, <1>6 DEF SlotSelect
  <1>8. DamageInv'
    BY <1>4, <1>7 DEF IndInv, DamageInv
  <1>9. flips = 0 => live' = Clean(live'.of)
    <2> SUFFICES ASSUME flips = 0 PROVE live' = Clean(live'.of)
      OBVIOUS
    <2>1. /\ live = Clean(live.of) /\ live \in Contract!Settings
          /\ snapshot_q = Entry(Clean(snapshot_q.csrs.of))
          /\ snapshot_q.csrs.of \in Task \cup {Nobody}
      BY DEF IndInv, FaultFreeInv, TypeOK, Entries, Contract!Settings
    <2>2. snapshot_q.csrs = Clean(snapshot_q.csrs.of)
      BY <2>1, CleanSettings
    <2>3. Written(snapshot_q.csrs) = snapshot_q.csrs
      BY <2>1, <2>2, WrittenClean
    <2> QED
      BY <1>5, <2>1, <2>2, <2>3
  <1>10. FaultFreeInv'
    <2>1. flips' = 0 => live' = Clean(live'.of)
      BY <1>4, <1>9
    <2> QED
      BY <1>4, <1>7, <2>1 DEF IndInv, FaultFreeInv, Clean, Contract!Clean
  <1> QED
    BY <1>2, <1>3, <1>4, <1>5, <1>6, <1>7, <1>8, <1>10 DEF SlotSelect

(***************************************************************************)
(* A CSR instruction meets no write pulse.                                 *)
(***************************************************************************)
LEMMA CsrStep ==
  ASSUME IndInv, pc \notin {"restore"},
         NEW we \in BOOLEAN, NEW addr \in {"other", "pmp", "save", "apply"},
         addr \in {"pmp", "save"} /\ we => task \in Task /\ flips = 0,
         Csr(we, addr)
  PROVE  /\ csr_addr' = addr /\ csr_wdata' = task /\ flips' = flips
         /\ pse_slot_select_reg' =
              IF we /\ addr = "apply" THEN task ELSE pse_slot_select_reg
         /\ write_all' = (we /\ addr = "apply") /\ apply_q' = (we /\ addr = "apply")
         /\ live' = IF we /\ addr = "pmp" THEN Written(Clean(task)) ELSE live
         /\ mem' = IF we /\ addr = "save"
                     THEN [mem EXCEPT ![task] = Entry(live)] ELSE mem
         /\ snapshot_q' = mem[IF addr = "save" \/ (we /\ addr = "apply")
                                THEN task ELSE pse_slot_select_reg]
         /\ snapshot_q' \in Entries /\ live' \in Contract!Settings
         /\ mem' \in [Slots -> Entries]
         /\ FaultFreeInv' /\ DamageInv'
  <1>1. /\ ~write_all /\ ~apply_q /\ task \in Slots
    BY DEF IndInv, TypeOK, PulseInv
  <1>2. Clock(we, addr, task)
    BY DEF Csr
  <1>3. /\ snapshot_q' \in Entries /\ live' \in Contract!Settings
        /\ mem' \in [Slots -> Entries] /\ csr_addr' = addr /\ csr_wdata' = task
    BY <1>1, <1>2, ClockType
  <1>4. /\ pse_slot_select_reg' =
              IF we /\ addr = "apply" THEN task ELSE pse_slot_select_reg
        /\ write_all' = (we /\ addr = "apply") /\ apply_q' = (we /\ addr = "apply")
        /\ flips' = flips
    BY <1>1, <1>2 DEF Clock, WritePulse
  <1>5. live' = IF we /\ addr = "pmp" THEN Written(Clean(task)) ELSE live
    BY <1>1, <1>2 DEF Clock, PmpWriteData
  <1>6. SlotSelect(we, addr, task) =
          IF addr = "save" \/ (we /\ addr = "apply")
            THEN task ELSE pse_slot_select_reg
    BY DEF SlotSelect
  <1>7. mem' = IF we /\ addr = "save"
                 THEN [mem EXCEPT ![task] = Entry(live)] ELSE mem
    BY <1>2, <1>6 DEF Clock, StoreSlot
  <1>8. snapshot_q' = mem[SlotSelect(we, addr, task)]
    BY <1>2 DEF Clock
  <1>9. \E t \in Slots : snapshot_q' = mem[t]
    BY <1>1, <1>6, <1>8 DEF IndInv, TypeOK
  <1>10. live \in Contract!Settings /\ mem \in [Slots -> Entries]
    BY DEF IndInv, TypeOK
  <1>11. flips = 0 => live' = Clean(live'.of)
    <2> SUFFICES ASSUME flips = 0 PROVE live' = Clean(live'.of)
      OBVIOUS
    <2>1. live = Clean(live.of)
      BY DEF IndInv, FaultFreeInv
    <2>2. we /\ addr = "pmp" => Written(Clean(task)) = Clean(task)
                                /\ Clean(task).of = task
      BY <1>10, <2>1, WrittenClean, CleanSettings
    <2> QED
      BY <1>5, <2>1, <2>2
  <1>12. we /\ addr = "save" =>
           /\ mem' = [mem EXCEPT ![task] = Entry(Clean(live.of))]
           /\ live.of \in Task \cup {Nobody}
    BY <1>7, <1>10 DEF IndInv, FaultFreeInv, Contract!Settings
  <1>13. \A t \in Slots : \/ mem'[t] = mem[t]
                          \/ \E u \in Task \cup {Nobody} : mem'[t] = Entry(Clean(u))
    BY <1>7, <1>10, <1>12
  <1>14. DamageInv'
    <2>1. /\ flips \in Nat /\ Damage(snapshot_q') <= flips
          /\ \A t \in Slots : Damage(mem[t]) <= flips
      BY <1>9 DEF IndInv, DamageInv, TypeOK
    <2>2. \A t \in Slots : Damage(mem'[t]) <= flips
      BY <1>13, <2>1, NoDamage
    <2> QED
      BY <1>4, <2>1, <2>2 DEF DamageInv, Damage
  <1>15. FaultFreeInv'
    <2>1. flips' = 0 => live' = Clean(live'.of)
      BY <1>4, <1>11
    <2>2. flips' = 0 => \A t \in Slots : mem'[t] = Entry(Clean(mem'[t].csrs.of))
      BY <1>4, <1>13, CleanSettings DEF IndInv, FaultFreeInv
    <2>3. flips' = 0 => snapshot_q' = Entry(Clean(snapshot_q'.csrs.of))
      BY <1>4, <1>9 DEF IndInv, FaultFreeInv
    <2> QED
      BY <2>1, <2>2, <2>3 DEF FaultFreeInv, Clean, Contract!Clean, Entry, Parity
  <1> QED
    BY <1>3, <1>4, <1>5, <1>6, <1>7, <1>8, <1>14, <1>15

(***************************************************************************)
(* Configuring a task.                                                     *)
(***************************************************************************)
LEMMA NextTaskInv == IndInv /\ NextTask => IndInv'
  <1> SUFFICES ASSUME IndInv, NextTask PROVE IndInv'
    OBVIOUS
  <1>1. /\ pc = "next_task" /\ pc' = "write" /\ configured' = configured
        /\ task' \in Task \ configured /\ skipped' = FALSE
    BY DEF NextTask
  <1>2. /\ UNCHANGED <<csr_addr, csr_wdata, pse_slot_select_reg, mem, flips>>
        /\ write_all' = FALSE /\ apply_q' = FALSE /\ live' = live
        /\ \E t \in Slots : snapshot_q' = mem[t]
        /\ snapshot_q' \in Entries /\ FaultFreeInv' /\ DamageInv'
    BY <1>1, NoCsrStep DEF NextTask, IndInv, PulseInv
  <1>3. TypeOK'
    BY <1>1, <1>2 DEF IndInv, TypeOK, Slots
  <1>4. PulseInv' /\ NoStrayWrite' /\ SlotsAreOwn'
    BY <1>1, <1>2 DEF IndInv, PulseInv, NoStrayWrite, SlotsAreOwn
  <1>5. SetupInv'
    BY <1>1, <1>2 DEF IndInv, SetupInv
  <1> QED
    BY <1>2, <1>3, <1>4, <1>5 DEF IndInv

LEMMA WritePmpInv == IndInv /\ WritePmp => IndInv'
  <1> SUFFICES ASSUME IndInv, WritePmp PROVE IndInv'
    OBVIOUS
  <1>1. /\ pc = "write" /\ pc' = "read_back"
        /\ UNCHANGED <<task, configured, skipped>>
        /\ task \in Task \ configured /\ flips = 0
    BY DEF WritePmp, GoTo, IndInv, SetupInv
  <1>2. /\ csr_addr' = "pmp" /\ csr_wdata' = task /\ flips' = flips
        /\ UNCHANGED <<pse_slot_select_reg, mem>>
        /\ write_all' = FALSE /\ apply_q' = FALSE
        /\ live' = Written(Clean(task))
        /\ snapshot_q' = mem[pse_slot_select_reg]
        /\ snapshot_q' \in Entries /\ live' \in Contract!Settings
        /\ FaultFreeInv' /\ DamageInv'
    BY <1>1, CsrStep DEF WritePmp
  <1>3. Written(Clean(task)) = Clean(task)
    BY <1>1, WrittenClean DEF IndInv, FaultFreeInv, TypeOK
  <1>4. live' = Clean(task) /\ live'.of = task
    BY <1>1, <1>2, <1>3, CleanSettings
  <1>5. TypeOK'
    BY <1>1, <1>2 DEF IndInv, TypeOK, Slots
  <1>6. PulseInv' /\ NoStrayWrite' /\ SlotsAreOwn'
    BY <1>1, <1>2, <1>4, PseAssumption
    DEF IndInv, PulseInv, NoStrayWrite, SlotsAreOwn
  <1>7. SetupInv'
    BY <1>1, <1>2, <1>4 DEF IndInv, SetupInv, Clean, Contract!Clean
  <1> QED
    BY <1>2, <1>5, <1>6, <1>7 DEF IndInv

LEMMA ReadBackInv == IndInv /\ ReadBack => IndInv'
  <1> SUFFICES ASSUME IndInv, ReadBack PROVE IndInv'
    OBVIOUS
  <1>1. /\ pc = "read_back" /\ pc' = "save"
        /\ UNCHANGED <<task, configured, skipped>>
        /\ task \in Task \ configured
    BY DEF ReadBack, GoTo, IndInv, SetupInv
  <1>2. /\ csr_addr' = "pmp" /\ csr_wdata' = task /\ flips' = flips
        /\ UNCHANGED <<pse_slot_select_reg, mem, live>>
        /\ write_all' = FALSE /\ apply_q' = FALSE
        /\ snapshot_q' = mem[pse_slot_select_reg] /\ snapshot_q' \in Entries
        /\ FaultFreeInv' /\ DamageInv'
    BY <1>1, CsrStep DEF ReadBack
  <1>3. TypeOK'
    BY <1>1, <1>2 DEF IndInv, TypeOK
  <1>4. PulseInv' /\ NoStrayWrite' /\ SlotsAreOwn'
    BY <1>1, <1>2 DEF IndInv, PulseInv, NoStrayWrite, SlotsAreOwn
  <1>5. SetupInv'
    BY <1>1, <1>2 DEF IndInv, SetupInv, Clean, Contract!Clean
  <1> QED
    BY <1>2, <1>3, <1>4, <1>5 DEF IndInv

(***************************************************************************)
(* Both saves write the settings that the PMP CSRs hold, those of the task *)
(* being configured, into its slot.                                        *)
(***************************************************************************)
LEMMA SaveInv == IndInv /\ (SaveSnapshot \/ SaveAgain) => IndInv'
  <1> SUFFICES ASSUME IndInv, SaveSnapshot \/ SaveAgain PROVE IndInv'
    OBVIOUS
  <1>1. /\ pc \in {"save", "save_again"} /\ UNCHANGED <<task, skipped>>
        /\ task \in Task \ configured /\ flips = 0
        /\ \/ pc' = "save_again" /\ configured' = configured
           \/ pc' = "next_task" /\ configured' = configured \cup {task}
    BY DEF SaveSnapshot, SaveAgain, GoTo, IndInv, SetupInv
  <1>2. live = Clean(task) /\ live.of = task
    BY <1>1, CleanSettings DEF IndInv, SetupInv
  <1>3. Csr(TRUE, "save")
    BY DEF SaveSnapshot, SaveAgain
  <1>4. /\ csr_addr' = "save" /\ csr_wdata' = task /\ flips' = flips
        /\ UNCHANGED <<pse_slot_select_reg, live>>
        /\ write_all' = FALSE /\ apply_q' = FALSE
        /\ mem' = [mem EXCEPT ![task] = Entry(Clean(task))]
        /\ mem' \in [Slots -> Entries]
        /\ snapshot_q' = mem[task] /\ snapshot_q' \in Entries
        /\ FaultFreeInv' /\ DamageInv'
    BY <1>1, <1>2, <1>3, CsrStep
  <1>5. TypeOK'
    BY <1>1, <1>4 DEF IndInv, TypeOK
  <1>6. /\ mem'[task].csrs.of = task
        /\ \A t \in Slots \ {task} : mem'[t] = mem[t]
    BY <1>1, <1>4, CleanSettings DEF IndInv, TypeOK, Slots
  <1>7. PulseInv'
    BY <1>1, <1>4 DEF IndInv, PulseInv
  <1>8. NoStrayWrite' /\ SlotsAreOwn'
    BY <1>1, <1>2, <1>4, <1>6, PseAssumption
    DEF IndInv, NoStrayWrite, SlotsAreOwn, TypeOK, Slots
  <1>9. SetupInv'
    BY <1>1, <1>2, <1>4, <1>6 DEF IndInv, SetupInv, Clean, Contract!Clean
  <1> QED
    BY <1>4, <1>5, <1>7, <1>8, <1>9 DEF IndInv

\* When the second save is skipped the first has already been made.
LEMMA SkipSaveInv == IndInv /\ SkipSave => IndInv'
  <1> SUFFICES ASSUME IndInv, SkipSave PROVE IndInv'
    OBVIOUS
  <1>1. /\ pc \in {"save", "save_again"} /\ ~skipped /\ skipped' = TRUE
        /\ task' = task /\ task \in Task \ configured
        /\ \/ pc = "save" /\ pc' = "save_again" /\ configured' = configured
           \/ /\ pc = "save_again" /\ pc' = "next_task"
              /\ configured' = configured \cup {task}
    BY DEF SkipSave, IndInv, SetupInv
  <1>2. /\ live.of = task /\ live = Clean(task)
        /\ pc = "save_again" => mem[task].csrs.of = task
    BY <1>1, CleanSettings DEF IndInv, SetupInv
  <1>3. /\ UNCHANGED <<csr_addr, csr_wdata, pse_slot_select_reg, mem, flips>>
        /\ write_all' = FALSE /\ apply_q' = FALSE /\ live' = live
        /\ snapshot_q' \in Entries /\ FaultFreeInv' /\ DamageInv'
    BY <1>1, NoCsrStep DEF SkipSave, IndInv, PulseInv
  <1>4. TypeOK'
    BY <1>1, <1>3 DEF IndInv, TypeOK
  <1>5. PulseInv'
    BY <1>1, <1>3 DEF IndInv, PulseInv
  <1>6. NoStrayWrite' /\ SlotsAreOwn'
    BY <1>1, <1>2, <1>3, PseAssumption DEF IndInv, NoStrayWrite, SlotsAreOwn
  <1>7. SetupInv'
    BY <1>1, <1>2, <1>3 DEF IndInv, SetupInv, Clean, Contract!Clean
  <1> QED
    BY <1>3, <1>4, <1>5, <1>6, <1>7 DEF IndInv

(***************************************************************************)
(* On the way back to a task: the apply, the clock in which the pulse      *)
(* writes the PMP CSRs, and the instructions up to the mret.               *)
(***************************************************************************)
LEMMA SwitchToInv == IndInv /\ SwitchTo => IndInv'
  <1> SUFFICES ASSUME IndInv, SwitchTo PROVE IndInv'
    OBVIOUS
  <1>1. /\ pc \in {"next_task", "handler"}
        /\ UNCHANGED <<configured, skipped>>
        /\ configured = Task /\ task' \in Slots
        /\ \/ task' = Idle /\ pc' = "mepc"
           \/ task' # Idle /\ pc' = "apply"
    BY DEF SwitchTo, IndInv, SetupInv, Slots
  <1>2. /\ UNCHANGED <<csr_addr, csr_wdata, pse_slot_select_reg, mem, flips>>
        /\ write_all' = FALSE /\ apply_q' = FALSE /\ live' = live
        /\ \E t \in Slots : snapshot_q' = mem[t]
        /\ snapshot_q' \in Entries /\ FaultFreeInv' /\ DamageInv'
    BY <1>1, NoCsrStep DEF SwitchTo, IndInv, PulseInv
  <1>3. TypeOK'
    BY <1>1, <1>2 DEF IndInv, TypeOK
  <1>4. PulseInv' /\ NoStrayWrite' /\ SlotsAreOwn'
    BY <1>1, <1>2 DEF IndInv, PulseInv, NoStrayWrite, SlotsAreOwn
  <1>5. SetupInv'
    BY <1>1, <1>2 DEF IndInv, SetupInv
  <1> QED
    BY <1>2, <1>3, <1>4, <1>5 DEF IndInv

LEMMA ApplySnapshotInv == IndInv /\ ApplySnapshot => IndInv'
  <1> SUFFICES ASSUME IndInv, ApplySnapshot PROVE IndInv'
    OBVIOUS
  <1>1. /\ pc = "apply" /\ pc' = "restore"
        /\ UNCHANGED <<task, configured, skipped>>
        /\ task \in Task /\ configured = Task
    BY DEF ApplySnapshot, GoTo, IndInv, TypeOK, PulseInv, SetupInv, Slots
  <1>2. /\ csr_addr' = "apply" /\ csr_wdata' = task /\ flips' = flips
        /\ pse_slot_select_reg' = task /\ UNCHANGED <<mem, live>>
        /\ write_all' = TRUE /\ apply_q' = TRUE
        /\ snapshot_q' = mem[task] /\ snapshot_q' \in Entries
        /\ FaultFreeInv' /\ DamageInv'
    BY <1>1, CsrStep DEF ApplySnapshot
  <1>3. snapshot_q'.csrs.of = task
    BY <1>1, <1>2 DEF IndInv, SlotsAreOwn
  <1>4. TypeOK'
    BY <1>1, <1>2 DEF IndInv, TypeOK, Slots
  <1>5. PulseInv' /\ NoStrayWrite' /\ SlotsAreOwn'
    BY <1>1, <1>2, <1>3 DEF IndInv, PulseInv, NoStrayWrite, SlotsAreOwn
  <1>6. SetupInv'
    BY <1>1, <1>2 DEF IndInv, SetupInv
  <1> QED
    BY <1>2, <1>4, <1>5, <1>6 DEF IndInv

\* Clocks without a CSR instruction between the apply and the task's end.
LEMMA RestoreStep ==
  ASSUME IndInv, NoCsr, configured = Task, UNCHANGED <<task, configured>>,
         pc \in {"restore", "mepc", "mret", "task"}, task # Idle
  PROVE  /\ snapshot_q'.csrs.of = task /\ live'.of = task
         /\ csr_addr' \in {"apply", "other"} /\ pse_slot_select_reg' = task
         /\ ~write_all' /\ ~apply_q'
  <1>1. /\ task \in Task /\ pse_slot_select_reg = task
        /\ csr_addr \in {"apply", "other"}
    BY DEF IndInv, TypeOK, PulseInv, Slots
  <1>2. /\ snapshot_q' = mem[task] /\ UNCHANGED <<csr_addr, pse_slot_select_reg>>
        /\ ~write_all' /\ ~apply_q'
        /\ live' = IF write_all THEN Written(snapshot_q.csrs) ELSE live
    BY <1>1, NoCsrStep
  <1>3. snapshot_q'.csrs.of = task
    BY <1>1, <1>2 DEF IndInv, SlotsAreOwn
  <1>4. live'.of = task
    <2>1. CASE write_all
      BY <1>2, <2>1, WrittenType DEF IndInv, TypeOK, Entries, PulseInv
    <2>2. CASE ~write_all
      BY <1>2, <2>2 DEF IndInv, PulseInv
    <2> QED
      BY <2>1, <2>2
  <1> QED
    BY <1>1, <1>2, <1>3, <1>4

\* The firmware's steps without a CSR instruction once a task was chosen.
LEMMA RunInv ==
  IndInv /\ (RestoreRegisters \/ MachineReturn \/ Trap) => IndInv'
  <1> SUFFICES ASSUME IndInv, RestoreRegisters \/ MachineReturn \/ Trap
               PROVE IndInv'
    OBVIOUS
  <1>1. /\ NoCsr /\ UNCHANGED <<task, configured, skipped>>
        /\ \/ pc = "restore" /\ pc' = "mepc"
           \/ pc = "mret" /\ pc' = "task"
           \/ pc = "task" /\ pc' = "cause"
    BY DEF RestoreRegisters, MachineReturn, Trap, GoTo
  <1>2. configured = Task
    BY <1>1 DEF IndInv, SetupInv
  <1>3. /\ UNCHANGED <<csr_addr, csr_wdata, pse_slot_select_reg, mem, flips>>
        /\ write_all' = FALSE /\ apply_q' = FALSE
        /\ live' = IF write_all THEN Written(snapshot_q.csrs) ELSE live
        /\ \E t \in Slots : snapshot_q' = mem[t]
        /\ snapshot_q' \in Entries /\ live' \in Contract!Settings
        /\ FaultFreeInv' /\ DamageInv'
    BY <1>1, NoCsrStep
  <1>4. TypeOK'
    BY <1>1, <1>3 DEF IndInv, TypeOK
  <1>5. PulseInv'
    BY <1>1, <1>2, <1>3, RestoreStep DEF IndInv, PulseInv
  <1>6. NoStrayWrite' /\ SlotsAreOwn'
    <2>1. write_all => live'.of \in Task
      BY <1>3, WrittenType
      DEF IndInv, TypeOK, PulseInv, Entries, Slots
    <2>2. NoStrayWrite'
      BY <1>1, <1>3, <2>1, PseAssumption DEF IndInv, NoStrayWrite
    <2>3. SlotsAreOwn'
      BY <1>1, <1>3 DEF IndInv, SlotsAreOwn
    <2> QED
      BY <2>2, <2>3
  <1>7. SetupInv'
    BY <1>1, <1>2, <1>3 DEF IndInv, SetupInv
  <1> QED
    BY <1>3, <1>4, <1>5, <1>6, <1>7 DEF IndInv

LEMMA OtherCsrInv == IndInv /\ (RestoreCsrs \/ ReadCause) => IndInv'
  <1> SUFFICES ASSUME IndInv, RestoreCsrs \/ ReadCause PROVE IndInv'
    OBVIOUS
  <1>1. /\ \E we \in BOOLEAN : Csr(we, "other")
        /\ UNCHANGED <<task, configured, skipped>>
        /\ \/ pc = "mepc" /\ pc' = "mret"
           \/ pc = "cause" /\ pc' = "handler"
    BY DEF RestoreCsrs, ReadCause, GoTo
  <1>2. /\ csr_addr' = "other" /\ csr_wdata' = task /\ flips' = flips
        /\ UNCHANGED <<pse_slot_select_reg, mem, live>>
        /\ write_all' = FALSE /\ apply_q' = FALSE
        /\ snapshot_q' = mem[pse_slot_select_reg] /\ snapshot_q' \in Entries
        /\ FaultFreeInv' /\ DamageInv'
    BY <1>1, CsrStep
  <1>3. configured = Task
    BY <1>1 DEF IndInv, SetupInv
  <1>4. TypeOK'
    BY <1>1, <1>2 DEF IndInv, TypeOK
  <1>5. PulseInv'
    BY <1>1, <1>2, <1>3 DEF IndInv, PulseInv, SlotsAreOwn, TypeOK, Slots
  <1>6. NoStrayWrite' /\ SlotsAreOwn'
    BY <1>1, <1>2 DEF IndInv, NoStrayWrite, SlotsAreOwn
  <1>7. SetupInv'
    BY <1>1, <1>2, <1>3 DEF IndInv, SetupInv
  <1> QED
    BY <1>2, <1>4, <1>5, <1>6, <1>7 DEF IndInv

\* A stall, or an instruction that is no CSR instruction.
LEMMA OtherInv == IndInv /\ Other => IndInv'
  <1> SUFFICES ASSUME IndInv, Other PROVE IndInv'
    OBVIOUS
  <1>1. NoCsr /\ UNCHANGED <<pc, task, configured, skipped>>
    BY DEF Other, firmware
  <1>2. /\ UNCHANGED <<csr_addr, csr_wdata, pse_slot_select_reg, mem, flips>>
        /\ write_all' = FALSE /\ apply_q' = FALSE
        /\ live' = IF write_all THEN Written(snapshot_q.csrs) ELSE live
        /\ \E t \in Slots : snapshot_q' = mem[t]
        /\ snapshot_q' \in Entries /\ live' \in Contract!Settings
        /\ FaultFreeInv' /\ DamageInv'
    BY <1>1, NoCsrStep
  <1>3. pc \in {"restore", "mepc", "mret", "task"} => configured = Task
    BY DEF IndInv, SetupInv
  <1>4. TypeOK'
    BY <1>1, <1>2 DEF IndInv, TypeOK
  <1>5. PulseInv'
    BY <1>1, <1>2, <1>3, RestoreStep DEF IndInv, PulseInv
  <1>6. NoStrayWrite' /\ SlotsAreOwn'
    <2>1. write_all => live'.of \in Task
      BY <1>2, WrittenType
      DEF IndInv, TypeOK, PulseInv, Entries, Slots
    <2>2. NoStrayWrite'
      BY <1>1, <1>2, <2>1, PseAssumption DEF IndInv, NoStrayWrite
    <2>3. SlotsAreOwn'
      BY <1>1, <1>2 DEF IndInv, SlotsAreOwn
    <2> QED
      BY <2>2, <2>3
  <1>7. SetupInv'
    BY <1>1, <1>2, <1>3 DEF IndInv, SetupInv, PulseInv, Clean, Contract!Clean
  <1> QED
    BY <1>2, <1>4, <1>5, <1>6, <1>7 DEF IndInv

(***************************************************************************)
(* Faults change no owner, and an entry by one bit at most.                *)
(***************************************************************************)
LEMMA FaultStep ==
  ASSUME IndInv, Fault,
         live' \in Contract!Settings, live'.of = live.of,
         mem' \in [Slots -> Entries],
         \A t \in Slots : /\ mem'[t].csrs.of = mem[t].csrs.of
                          /\ Damage(mem'[t]) <= Damage(mem[t]) + 1
  PROVE  IndInv'
  <1>1. /\ configured = Task /\ flips' = flips + 1 /\ flips < MaxFlips
        /\ UNCHANGED <<pc, task, configured, skipped, csr_addr, csr_wdata,
                       apply_q, pse_slot_select_reg, snapshot_q, write_all>>
    BY DEF Fault, firmware, stage, engine
  <1>2. flips \in Nat /\ flips' \in 0 .. MaxFlips /\ flips' # 0
    BY <1>1, PseAssumption DEF IndInv, TypeOK
  <1>3. pc \notin {"read_back", "save", "save_again", "write"}
    BY <1>1 DEF IndInv, SetupInv
  <1>4. TypeOK'
    BY <1>1, <1>2 DEF IndInv, TypeOK
  <1>5. PulseInv' /\ NoStrayWrite' /\ SlotsAreOwn'
    BY <1>1 DEF IndInv, PulseInv, NoStrayWrite, SlotsAreOwn, Slots
  <1>6. SetupInv' /\ FaultFreeInv'
    BY <1>1, <1>2, <1>3 DEF IndInv, SetupInv, FaultFreeInv
  <1>7. /\ \A t \in Slots : Damage(mem'[t]) <= flips'
        /\ Damage(snapshot_q) <= flips'
    <2>1. /\ \A t \in Slots : Damage(mem[t]) \in Nat /\ Damage(mem'[t]) \in Nat
          /\ Damage(snapshot_q) \in Nat
      BY DamageFacts DEF IndInv, TypeOK
    <2> QED
      BY <1>1, <1>2, <2>1 DEF IndInv, DamageInv
  <1>8. DamageInv'
    BY <1>1, <1>7 DEF DamageInv, Damage
  <1> QED
    BY <1>4, <1>5, <1>6, <1>8 DEF IndInv

LEMMA FlippedType ==
  \A v \in Contract!Settings, b \in Bits :
    /\ Flipped(v, b) \in Contract!Settings
    /\ Flipped(v, b).of = v.of /\ Flipped(v, b).bits = Toggle(b, v.bits)
  BY DEF Flipped, Contract!Flipped, Toggle, Contract!Toggle, Contract!Settings

\* A flip of one bit of an entry, or of one of its parity bits.
LEMMA DamageOfFlip ==
  ASSUME NEW e \in Entries, NEW f \in Entries, f.csrs.of = e.csrs.of,
         \/ f.parity = e.parity /\ \E b \in Bits : f.csrs.bits = Toggle(b, e.csrs.bits)
         \/ f.csrs = e.csrs /\ \E c \in Checks : f.parity = Toggle(c, e.parity)
  PROVE  Damage(f) <= Damage(e) + 1
  <1> DEFINE own == SettingsOf[e.csrs.of]
             tell == Parity(Clean(e.csrs.of))
  <1>1. /\ Damage(e) = Differ(e.csrs.bits, own) + Differ(e.parity, tell)
        /\ Damage(f) = Differ(f.csrs.bits, own) + Differ(f.parity, tell)
        /\ Differ(e.csrs.bits, own) \in Nat /\ Differ(e.parity, tell) \in Nat
        /\ Differ(f.csrs.bits, own) \in Nat /\ Differ(f.parity, tell) \in Nat
    BY DamageFacts
  <1>2. /\ e.csrs.bits \in SUBSET Bits /\ own \in SUBSET Bits
        /\ e.parity \in SUBSET Checks /\ tell \in SUBSET Checks
        /\ IsFiniteSet(Bits) /\ IsFiniteSet(Checks)
    BY DamageFacts, PseAssumption
  <1> HIDE DEF own, tell
  <1>3. ASSUME NEW b \in Bits, f.csrs.bits = Toggle(b, e.csrs.bits)
        PROVE  Differ(f.csrs.bits, own) <= Differ(e.csrs.bits, own) + 1
    BY <1>2, <1>3, DifferFacts
  <1>4. ASSUME NEW c \in Checks, f.parity = Toggle(c, e.parity)
        PROVE  Differ(f.parity, tell) <= Differ(e.parity, tell) + 1
    BY <1>2, <1>4, DifferFacts
  <1> QED
    BY <1>1, <1>3, <1>4

LEMMA FaultInv == IndInv /\ (FlipLive \/ FlipSlot \/ FlipParity) => IndInv'
  <1> SUFFICES ASSUME IndInv, FlipLive \/ FlipSlot \/ FlipParity PROVE IndInv'
    OBVIOUS
  <1>1. /\ live \in Contract!Settings /\ mem \in [Slots -> Entries]
        /\ \A t \in Slots : Damage(mem[t]) \in Nat
    BY DamageFacts DEF IndInv, TypeOK
  <1>2. CASE FlipLive
    <2>1. PICK b \in Bits : live' = Flipped(live, b)
      BY <1>2 DEF FlipLive
    <2>2. live' \in Contract!Settings /\ live'.of = live.of
      BY <1>1, <2>1, FlippedType
    <2> QED
      BY <1>1, <1>2, <2>2, FaultStep DEF FlipLive
  <1>3. CASE FlipSlot
    <2>1. PICK t \in Task, b \in Bits :
            mem' = [mem EXCEPT ![t].csrs = Flipped(mem[t].csrs, b)]
      BY <1>3 DEF FlipSlot
    <2>2. /\ Flipped(mem[t].csrs, b) \in Contract!Settings
          /\ Flipped(mem[t].csrs, b).of = mem[t].csrs.of
          /\ Flipped(mem[t].csrs, b).bits = Toggle(b, mem[t].csrs.bits)
      BY <1>1, FlippedType DEF Entries, Slots
    <2>3. /\ mem' \in [Slots -> Entries]
          /\ \A u \in Slots \ {t} : mem'[u] = mem[u]
          /\ mem'[t].csrs = Flipped(mem[t].csrs, b)
          /\ mem'[t].parity = mem[t].parity
      BY <1>1, <2>1, <2>2 DEF Entries, Slots
    <2>4. Damage(mem'[t]) <= Damage(mem[t]) + 1
      BY <1>1, <2>2, <2>3, DamageOfFlip DEF Slots
    <2>5. \A u \in Slots : /\ mem'[u].csrs.of = mem[u].csrs.of
                          /\ Damage(mem'[u]) <= Damage(mem[u]) + 1
      BY <1>1, <2>2, <2>3, <2>4
    <2>6. Fault /\ live' = live
      BY <1>3 DEF FlipSlot
    <2> QED
      BY <1>1, <2>3, <2>5, <2>6, FaultStep
  <1>4. CASE FlipParity
    <2>1. PICK t \in Task, c \in Checks :
            mem' = [mem EXCEPT ![t].parity = Toggle(c, mem[t].parity)]
      BY <1>4 DEF FlipParity
    <2>2. /\ mem' \in [Slots -> Entries]
          /\ \A u \in Slots \ {t} : mem'[u] = mem[u]
          /\ mem'[t].csrs = mem[t].csrs
          /\ mem'[t].parity = Toggle(c, mem[t].parity)
      BY <1>1, <2>1 DEF Entries, Slots, Toggle, Contract!Toggle
    <2>3. Damage(mem'[t]) <= Damage(mem[t]) + 1
      BY <1>1, <2>2, DamageOfFlip DEF Slots
    <2>4. \A u \in Slots : /\ mem'[u].csrs.of = mem[u].csrs.of
                          /\ Damage(mem'[u]) <= Damage(mem[u]) + 1
      BY <1>1, <2>2, <2>3
    <2>5. Fault /\ live' = live
      BY <1>4 DEF FlipParity
    <2> QED
      BY <1>1, <2>2, <2>4, <2>5, FaultStep
  <1> QED
    BY <1>2, <1>3, <1>4

-----------------------------------------------------------------------------
\* IndInv holds in every state of the engine with its firmware.
THEOREM Invariance == Spec => []IndInv
  <1>1. IndInv /\ UNCHANGED vars => IndInv'
    <2> SUFFICES ASSUME IndInv, UNCHANGED vars PROVE IndInv'
      OBVIOUS
    <2> USE DEF vars, firmware, stage, engine, IndInv
    <2>1. TypeOK' /\ PulseInv'
      BY DEF TypeOK, PulseInv
    <2>2. SetupInv' /\ FaultFreeInv' /\ NoStrayWrite' /\ SlotsAreOwn'
      BY DEF SetupInv, FaultFreeInv, NoStrayWrite, SlotsAreOwn
    <2>3. DamageInv'
      BY DEF DamageInv
    <2> QED
      BY <2>1, <2>2, <2>3
  <1>2. IndInv /\ [Next]_vars => IndInv'
    BY <1>1, NextTaskInv, WritePmpInv, ReadBackInv, SaveInv, SkipSaveInv, SwitchToInv,
       ApplySnapshotInv, RunInv, OtherCsrInv, OtherInv, FaultInv
    DEF Next
  <1> QED
    BY InitIndInv, <1>2, PTL DEF Spec

\* A task executes under its own PMP settings, or the engine raises the
\* alert, unless at least as many bits have been flipped as an entry must
\* differ by to be wrong and still agree with its parity.
THEOREM Isolation == Spec => []OwnSettingsOrAlert
  <1>1. IndInv => OwnSettingsOrAlert
    <2> SUFFICES ASSUME IndInv, pc = "task", task # Idle, ~Alert
                 PROVE  Distance(live, task) <= flips
      BY DEF OwnSettingsOrAlert
    <2>1. snapshot_q.csrs.bits = live.bits /\ snapshot_q.parity = Parity(live)
      BY DEF Alert, RdError, ComparisonFault, ParityInvalid
    <2>2. snapshot_q.csrs.of = task /\ Damage(snapshot_q) <= flips
      BY DEF IndInv, PulseInv, DamageInv
    <2>3. Damage(snapshot_q) = Distance(live, task)
      BY <2>1, <2>2 DEF Damage, Distance
    <2> QED
      BY <2>2, <2>3
  <1> QED
    BY <1>1, Invariance, PTL

\* The engine raises no alert before the first fault.
THEOREM NoAlertWithoutFault == Spec => []NoFalseAlert
  <1>1. IndInv => NoFalseAlert
    <2> SUFFICES ASSUME IndInv, flips = 0, pc \in {"mret", "task"}, task # Idle
                 PROVE  ~RdError
      BY DEF NoFalseAlert, Alert
    <2>1. /\ snapshot_q = Entry(Clean(task)) /\ live = Clean(task)
          /\ task \in Task
      BY DEF IndInv, TypeOK, PulseInv, FaultFreeInv, Slots
    <2> QED
      BY <2>1, CleanSettings DEF RdError, ComparisonFault, ParityInvalid
  <1> QED
    BY <1>1, Invariance, PTL

\* The write pulse never picks up the operand of another CSR instruction: once
\* a task is configured, the PMP CSRs always hold settings some task asked for.
THEOREM PulseHitsTarget == Spec => []NoStrayWrite
  <1>1. IndInv => NoStrayWrite
    BY DEF IndInv
  <1> QED
    BY <1>1, Invariance, PTL

\* The slot of a configured task holds what was saved for that task, however
\* often the save is repeated and whatever is configured or applied later.
THEOREM SnapshotsStay == Spec => []SlotsAreOwn
  <1>1. IndInv => SlotsAreOwn
    BY DEF IndInv
  <1> QED
    BY <1>1, Invariance, PTL

-----------------------------------------------------------------------------
(* The clocked engine implements the contract: a step of the firmware that *)
(* writes, saves or applies is that step of Snapshots, the clock of the    *)
(* write pulse completes an apply, a fault is a fault, and every other     *)
(* clock changes nothing.                                                  *)

\* The slots of the contract, and the copy of an apply under way.
slotSeen == [t \in Task |-> mem[t].csrs]
latchedSeen == IF write_all THEN {snapshot_q.csrs} ELSE {}

LEMMA InitAbstract == Init => Contract!Init
  <1> SUFFICES ASSUME Init PROVE Contract!Init
    OBVIOUS
  <1>1. \A t \in Task : mem[t].csrs = Clean(Nobody)
    BY CleanSettings DEF Init, Slots
  <1> QED
    BY <1>1 DEF Init, Contract!Init, Clean, Contract!Clean

LEMMA NoCsrAbstract ==
  ASSUME IndInv, NoCsr
  PROVE  [Contract!Next]_(Contract!vars)
  <1>1. /\ mem' = mem /\ write_all' = FALSE
        /\ live' = IF write_all THEN Written(snapshot_q.csrs) ELSE live
    BY NoCsrStep
  <1>2. slotSeen' = slotSeen /\ latchedSeen' = {}
    BY <1>1 DEF slotSeen, latchedSeen
  <1>3. CASE write_all
    <2>1. Contract!Complete
      BY <1>1, <1>2, <1>3
      DEF Contract!Complete, Written, slotSeen, latchedSeen
    <2> QED
      BY <2>1 DEF Contract!Next
  <1>4. CASE ~write_all
    BY <1>1, <1>2, <1>4 DEF Contract!vars, slotSeen, latchedSeen
  <1> QED
    BY <1>3, <1>4 DEF IndInv, TypeOK

LEMMA CsrAbstract ==
  ASSUME IndInv, NEW we \in BOOLEAN,
         NEW addr \in {"other", "pmp", "save", "apply"},
         Csr(we, addr), pc # "restore",
         we /\ addr # "other" => task \in Task,
         we /\ addr \in {"pmp", "save"} => flips = 0
  PROVE  [Contract!Next]_(Contract!vars)
  <1>1. ~write_all /\ mem \in [Slots -> Entries] /\ task \in Slots
    BY DEF IndInv, TypeOK, PulseInv
  <1>2. /\ write_all' = (we /\ addr = "apply")
        /\ live' = IF we /\ addr = "pmp" THEN Written(Clean(task)) ELSE live
        /\ mem' = IF we /\ addr = "save"
                    THEN [mem EXCEPT ![task] = Entry(live)] ELSE mem
        /\ we /\ addr = "apply" => snapshot_q' = mem[task]
    BY CsrStep
  <1>3. /\ latchedSeen = {}
        /\ ~(we /\ addr = "apply") => latchedSeen' = {}
        /\ ~(we /\ addr = "save") => slotSeen' = slotSeen
    BY <1>1, <1>2 DEF latchedSeen, slotSeen
  <1>4. CASE ~we \/ addr = "other"
    BY <1>2, <1>3, <1>4 DEF Contract!vars, latchedSeen, slotSeen
  <1>5. CASE we /\ addr = "pmp"
    <2>1. Contract!Write(Clean(task))
      BY <1>2, <1>3, <1>5
      DEF Contract!Write, Written, latchedSeen, slotSeen
    <2> QED
      BY <1>5, <2>1 DEF Contract!Next, Clean
  <1>6. CASE we /\ addr = "save"
    <2>1. \A t \in Task : mem'[t].csrs = IF t = task THEN live ELSE mem[t].csrs
      <3>1. mem' = [mem EXCEPT ![task] = Entry(live)]
        BY <1>2, <1>6
      <3>2. Entry(live).csrs = live
        BY DEF Entry
      <3> QED
        BY <1>1, <3>1, <3>2 DEF Slots
    <2>2. slotSeen' = [slotSeen EXCEPT ![task] = live]
      BY <2>1 DEF slotSeen
    <2>3. PICK t \in Task : t = task
      BY <1>6
    <2>4. Contract!Save(t)
      BY <1>2, <1>3, <1>6, <2>2, <2>3 DEF Contract!Save, latchedSeen, slotSeen
    <2> QED
      BY <2>4 DEF Contract!Next
  <1>7. CASE we /\ addr = "apply"
    <2>1. latchedSeen' = {slotSeen[task]}
      BY <1>2, <1>7 DEF latchedSeen, slotSeen
    <2>2. Contract!Apply(task)
      BY <1>2, <1>3, <1>7, <2>1 DEF Contract!Apply, latchedSeen, slotSeen
    <2> QED
      BY <1>7, <2>2 DEF Contract!Next
  <1> QED
    BY <1>4, <1>5, <1>6, <1>7

LEMMA FaultAbstract ==
  IndInv /\ (FlipLive \/ FlipSlot \/ FlipParity) => [Contract!Next]_(Contract!vars)
  <1> SUFFICES ASSUME IndInv, FlipLive \/ FlipSlot \/ FlipParity
               PROVE  [Contract!Next]_(Contract!vars)
    OBVIOUS
  <1>1. /\ UNCHANGED <<write_all, snapshot_q>> /\ latchedSeen' = latchedSeen
        /\ mem \in [Slots -> Entries]
    BY DEF FlipLive, FlipSlot, FlipParity, Fault, engine, latchedSeen, IndInv, TypeOK
  <1>2. CASE FlipLive
    <2>1. PICK b \in Bits : live' = Flipped(live, b) /\ mem' = mem
      BY <1>2 DEF FlipLive
    <2>2. slotSeen' = slotSeen
      BY <2>1 DEF slotSeen
    <2>3. Contract!FlipLive(b)
      BY <1>1, <2>1, <2>2 DEF Contract!FlipLive, Flipped, slotSeen, latchedSeen
    <2> QED
      BY <2>3 DEF Contract!Next
  <1>3. CASE FlipSlot
    <2>1. PICK t \in Task, b \in Bits :
            mem' = [mem EXCEPT ![t].csrs = Flipped(mem[t].csrs, b)] /\ live' = live
      BY <1>3 DEF FlipSlot
    <2>2. \A u \in Task : mem'[u].csrs =
            IF u = t THEN Flipped(mem[t].csrs, b) ELSE mem[u].csrs
      BY <1>1, <2>1 DEF Slots, Entries
    <2>3. slotSeen' = [slotSeen EXCEPT ![t] = Flipped(slotSeen[t], b)]
      BY <2>2 DEF slotSeen
    <2>4. Contract!FlipSlot(t, b)
      BY <1>1, <2>1, <2>3 DEF Contract!FlipSlot, Flipped, slotSeen, latchedSeen
    <2> QED
      BY <2>4 DEF Contract!Next
  <1>4. CASE FlipParity
    <2>1. PICK t \in Task, c \in Checks :
            mem' = [mem EXCEPT ![t].parity = Toggle(c, mem[t].parity)] /\ live' = live
      BY <1>4 DEF FlipParity
    <2>2. \A u \in Task : mem'[u].csrs = mem[u].csrs
      BY <1>1, <2>1 DEF Slots, Entries
    <2>3. slotSeen' = slotSeen
      BY <2>2 DEF slotSeen
    <2> QED
      BY <1>1, <2>1, <2>3 DEF Contract!vars, slotSeen, latchedSeen
  <1> QED
    BY <1>2, <1>3, <1>4

\* Every behaviour of the clocked engine and its firmware is a behaviour of
\* the contract the kernel relies on: a save is atomic, and nothing but a
\* fault comes between an apply and the write of the registers.
THEOREM Implements == Spec => ImplementsContract
  <1>1. IndInv /\ [Next]_vars => [Contract!Next]_(Contract!vars)
    <2> SUFFICES ASSUME IndInv, [Next]_vars
                 PROVE  [Contract!Next]_(Contract!vars)
      OBVIOUS
    <2>1. CASE NextTask \/ SkipSave \/ SwitchTo \/ RestoreRegisters
               \/ MachineReturn \/ Trap \/ Other
      BY <2>1, NoCsrAbstract
      DEF NextTask, SkipSave, SwitchTo, RestoreRegisters, MachineReturn, Trap, Other
    <2>2. CASE WritePmp \/ SaveSnapshot \/ SaveAgain
      <3>1. /\ pc \in {"write", "save", "save_again"}
            /\ \E addr \in {"pmp", "save"} : Csr(TRUE, addr)
        BY <2>2 DEF WritePmp, SaveSnapshot, SaveAgain
      <3>2. task \in Task /\ flips = 0
        BY <3>1 DEF IndInv, SetupInv
      <3> QED
        BY <3>1, <3>2, CsrAbstract
    <2>3. CASE ApplySnapshot
      <3>1. pc = "apply" /\ Csr(TRUE, "apply") /\ task \in Task
        BY <2>3 DEF ApplySnapshot, IndInv, TypeOK, PulseInv, Slots
      <3> QED
        BY <3>1, CsrAbstract
    <2>4. CASE ReadBack \/ RestoreCsrs \/ ReadCause
      <3>1. /\ pc # "restore"
            /\ Csr(FALSE, "pmp") \/ Csr(TRUE, "other") \/ Csr(FALSE, "other")
        BY <2>4 DEF ReadBack, RestoreCsrs, ReadCause
      <3> QED
        BY <3>1, CsrAbstract
    <2>5. CASE FlipLive \/ FlipSlot \/ FlipParity
      BY <2>5, FaultAbstract
    <2>6. CASE UNCHANGED vars
      BY <2>6 DEF vars, engine, Contract!vars
    <2> QED
      BY <2>1, <2>2, <2>3, <2>4, <2>5, <2>6 DEF Next
  <1> QED
    BY InitAbstract, Invariance, <1>1, PTL
    DEF Spec, ImplementsContract, Contract!Spec
==============================================================================
